----------------------------- MODULE UserCache ------------------------------
(***************************************************************************)
(* The cache of user rows (UsersService): one user, its row in the         *)
(* database and its entry in Redis, and the calls that read, fill, change  *)
(* and clear them.  Nothing orders a fill with the changes of the row:     *)
(* every await is a step of its own.                                       *)
(***************************************************************************)
EXTENDS Integers, FiniteSets

CONSTANTS
    Registration,    \* the call that creates the user
    Readers,         \* callers of findOneBy, again and again
    Updates, Deletes,   \* calls of updateUser and deleteUser
    Columns,         \* username, description ...: what updateUser writes
    Registered,      \* the profile the user registers with
    Dto,             \* the profile each update is called with
    Ttl,             \* cacheTtl
    MaxDeposits,     \* bound: changes of the balance by others
    MaxFaults,       \* bound: errors of the cache and crashes
    None

Calls == {Registration} \cup Readers \cup Updates \cup Deletes
Values == UNION {{p[k] : k \in Columns} : p \in {Dto[c] : c \in Updates} \cup {Registered}}
Profiles == [Columns -> Values]
Rows == [profile : Profiles, balance : 0 .. MaxDeposits]

ASSUME UserCacheAssumption ==
    /\ Registration \notin Readers \cup Updates \cup Deletes
    /\ Readers \cap (Updates \cup Deletes) = {} /\ Updates \cap Deletes = {}
    /\ Registered \in [Columns -> Values] /\ Dto \in [Updates -> Profiles]
    /\ Ttl \in Nat \ {0} /\ MaxDeposits \in Nat /\ MaxFaults \in Nat
    /\ None \notin Rows

VARIABLES
    status,          \* absent, live, deleted
    row,             \* users, its committed columns; the password left out
    cache, ttl,      \* the entry, and the time it has left
    pc, mine,        \* each call: its step, the row it has loaded
    deposits, faults,
    excuse,          \* history: why the entry may differ from the row
    raced            \* history: updates that did not see another's UPDATE

entry == <<cache, ttl>>
history == <<excuse, raced>>
vars == <<status, row, entry, pc, mine, deposits, faults, history>>

TypeOK ==
    /\ status \in {"absent", "live", "deleted"}
    /\ row \in Rows
    /\ cache \in Rows \cup {None} /\ ttl \in 0 .. Ttl
    /\ (cache = None) <=> (ttl = 0)
    /\ pc \in [Calls -> {"new", "load", "fill", "commit", "update", "reread",
                         "invalidate", "done"}]
    /\ mine \in [Calls -> Rows \cup {None}]
    /\ \A c \in Calls : pc[c] \in {"fill", "commit", "update"} => mine[c] # None
    /\ deposits \in 0 .. MaxDeposits /\ faults \in 0 .. MaxFaults
    /\ excuse \subseteq {"late", "error", "balance"} /\ raced \subseteq Updates

NewUser == [profile |-> Registered, balance |-> 0]

Init ==
    /\ status = "absent" /\ row = NewUser
    /\ cache = None /\ ttl = 0
    /\ pc = [c \in Calls |-> "new"] /\ mine = [c \in Calls |-> None]
    /\ deposits = 0 /\ faults = 0
    /\ excuse = {} /\ raced = {}

-----------------------------------------------------------------------------
(* What findOneBy of the repository finds: no row that is softly deleted.  *)
Found == IF status = "live" THEN row ELSE None

Go(c, step) == pc' = [pc EXCEPT ![c] = step]
Keep(c, found) == mine' = [mine EXCEPT ![c] = found]

(* The call is over; a reader will call again. *)
Over(c) == IF c \in Readers THEN "new" ELSE "done"
End(c) == Go(c, Over(c)) /\ Keep(c, None)

(* A call that has changed the row and not yet fixed the entry. *)
Fixing(c) ==
    \/ c \in Updates /\ pc[c] \in {"reread", "fill", "invalidate"}
    \/ c \in Deletes /\ pc[c] = "invalidate"

Fault == faults < MaxFaults /\ faults' = faults + 1

-----------------------------------------------------------------------------
(* saveUser, in the transaction of registerUser.  Nobody knows the id, or  *)
(* has a token for it, until that commits.                                 *)
SaveUser ==
    /\ pc[Registration] = "new"
    /\ Keep(Registration, NewUser)
    /\ Go(Registration, "fill")
    /\ UNCHANGED <<status, row, entry, deposits, faults, history>>

CommitUser ==
    /\ pc[Registration] = "commit"
    /\ status' = "live" /\ row' = mine[Registration]
    /\ excuse' = {}
    /\ End(Registration)
    /\ UNCHANGED <<entry, deposits, faults, raced>>

(* A plausible bug: a hit gives the entry another cacheTtl. *)
BugSlidingTtl(c) ==
    /\ pc[c] = "new" /\ status # "absent"
    /\ IF cache # None
       THEN ttl' = Ttl /\ UNCHANGED pc
       ELSE Go(c, "load") /\ UNCHANGED ttl
    /\ UNCHANGED <<status, row, cache, mine, deposits, faults, history>>

(* findOneBy({id}): a hit answers at once. *)
GetUserFromCache(c) ==
    /\ pc[c] = "new" /\ status # "absent"
    /\ cache = None
    /\ Go(c, "load")
    /\ UNCHANGED <<status, row, entry, mine, deposits, faults, history>>

(* findOneBy({username}) does not look at the cache, nor does a findOneBy  *)
(* whose cache call throws.                                                *)
SkipCache(c) ==
    /\ pc[c] = "new" /\ status # "absent"
    /\ Go(c, "load")
    /\ UNCHANGED <<status, row, entry, mine, deposits, faults, history>>

Load(c) ==
    /\ pc[c] = "load"
    /\ IF Found = None
       THEN End(c)
       ELSE Keep(c, Found) /\ Go(c, "fill")
    /\ UNCHANGED <<status, row, entry, deposits, faults, history>>

-----------------------------------------------------------------------------
(* saveUserToCache, with a row that may have changed since it was loaded.  *)
AfterFill(c) ==
    IF c = Registration THEN Go(c, "commit") /\ UNCHANGED mine ELSE End(c)

SaveUserToCache(c) ==
    /\ pc[c] = "fill"
    /\ cache' = mine[c] /\ ttl' = Ttl
    /\ excuse' = IF mine[c] = Found THEN {} ELSE {"late"}
    /\ AfterFill(c)
    /\ UNCHANGED <<status, row, deposits, faults, raced>>

(* The error is logged; an update leaves an entry that it has made stale.  *)
SaveUserToCacheFails(c) ==
    /\ pc[c] = "fill" /\ Fault
    /\ excuse' = IF Fixing(c) THEN excuse \cup {"error"} ELSE excuse
    /\ AfterFill(c)
    /\ UNCHANGED <<status, row, entry, deposits, raced>>

InvalidateUserCache(c) ==
    /\ pc[c] = "invalidate"
    /\ cache' = None /\ ttl' = 0
    /\ excuse' = {}
    /\ End(c)
    /\ UNCHANGED <<status, row, deposits, faults, raced>>

InvalidateUserCacheFails(c) ==
    /\ pc[c] = "invalidate" /\ Fault
    /\ excuse' = excuse \cup {"error"}
    /\ End(c)
    /\ UNCHANGED <<status, row, entry, deposits, raced>>

-----------------------------------------------------------------------------
(* A plausible bug: the difference is taken from the cached user. *)
BugLoadCached(c) ==
    /\ pc[c] = "new" /\ status # "absent"
    /\ Keep(c, IF cache = None THEN row ELSE cache)
    /\ Go(c, "update")
    /\ UNCHANGED <<status, row, entry, deposits, faults, history>>

(* updateUser.  save() first loads the row, deleted or not, outside any    *)
(* transaction; it writes the columns in which the dto differs from that.  *)
(* Tokens live for hours, deleted rows for a week: there is a row.         *)
LoadForSave(c) ==
    /\ pc[c] = "new" /\ status # "absent"
    /\ Keep(c, row)
    /\ Go(c, "update")
    /\ UNCHANGED <<status, row, entry, deposits, faults, history>>

(* A plausible bug: the loaded entity is merged and written as a whole. *)
BugWriteEntity(c) == [mine[c] EXCEPT !.profile = Dto[c]]

Written(c) ==
    [row EXCEPT !.profile =
        [k \in Columns |-> IF Dto[c][k] # mine[c].profile[k] THEN Dto[c][k] ELSE @[k]]]

UpdateRow(c) ==
    /\ pc[c] = "update"
    /\ row' = Written(c)
    /\ raced' = raced \cup {d \in Updates \ {c} : pc[d] = "update"}
    /\ Keep(c, None) /\ Go(c, "reread")
    /\ UNCHANGED <<status, entry, deposits, faults, excuse>>

(* The username or the email is another user's. *)
UpdateIsRefused(c) ==
    /\ pc[c] = "update"
    /\ End(c)
    /\ UNCHANGED <<status, row, entry, deposits, faults, history>>

(* A plausible bug: a user who is not found is put into the cache. *)
BugFillAnyway(c) ==
    /\ pc[c] = "reread"
    /\ Keep(c, Found) /\ Go(c, "fill")
    /\ UNCHANGED <<status, row, entry, deposits, faults, history>>

Reread(c) ==
    /\ pc[c] = "reread"
    /\ Keep(c, Found) /\ Go(c, IF Found = None THEN "invalidate" ELSE "fill")
    /\ UNCHANGED <<status, row, entry, deposits, faults, history>>

(* A plausible bug: deleteUser leaves the cache alone. *)
BugNoInvalidation(c) ==
    /\ pc[c] = "new" /\ status # "absent"
    /\ status' = "deleted"
    /\ End(c)
    /\ UNCHANGED <<row, entry, deposits, faults, history>>

(* deleteUser: softDeleteUser, of a user who may be deleted already. *)
SoftDeleteUser(c) ==
    /\ pc[c] = "new" /\ status # "absent"
    /\ status' = "deleted"
    /\ Go(c, "invalidate")
    /\ UNCHANGED <<row, entry, mine, deposits, faults, history>>

-----------------------------------------------------------------------------
(* Deposits and withdrawals change the row and know nothing of the cache.  *)
ChangeBalance ==
    /\ status = "live" /\ deposits < MaxDeposits
    /\ row' = [row EXCEPT !.balance = @ + 1]
    /\ deposits' = deposits + 1
    /\ excuse' = excuse \cup {"balance"}
    /\ UNCHANGED <<status, entry, pc, mine, faults, raced>>

(* The server stops in the middle of a call. *)
Crash(c) ==
    /\ pc[c] \notin {"new", "done"} /\ Fault
    /\ excuse' = IF Fixing(c) THEN excuse \cup {"error"} ELSE excuse
    /\ End(c)
    /\ UNCHANGED <<status, row, entry, deposits, raced>>

Tick ==
    /\ ttl > 0
    /\ ttl' = ttl - 1
    /\ cache' = IF ttl = 1 THEN None ELSE cache
    /\ excuse' = IF ttl = 1 THEN {} ELSE excuse
    /\ UNCHANGED <<status, row, pc, mine, deposits, faults, raced>>

Next ==
    \/ SaveUser \/ CommitUser \/ ChangeBalance \/ Tick
    \/ \E c \in Readers : GetUserFromCache(c) \/ SkipCache(c) \/ Load(c)
    \/ \E c \in Updates :
          LoadForSave(c) \/ UpdateRow(c) \/ UpdateIsRefused(c) \/ Reread(c)
    \/ \E c \in Deletes : SoftDeleteUser(c)
    \/ \E c \in Calls :
          \/ SaveUserToCache(c) \/ SaveUserToCacheFails(c)
          \/ InvalidateUserCache(c) \/ InvalidateUserCacheFails(c)
          \/ Crash(c)

(* Time passes. *)
Spec == Init /\ [][Next]_vars /\ WF_vars(Tick)

-----------------------------------------------------------------------------
(* Properties. *)

Stale == cache \notin {None, Found}

(* A user reads data that are not in the database only while a call is at  *)
(* work on them, or for one of three causes: an entry filled by somebody   *)
(* who had loaded the row earlier, a failure of the cache or the server    *)
(* after the row was written, a change of the balance.                     *)
StaleHasExcuse == Stale => excuse # {} \/ \E c \in Calls : Fixing(c)

(* The only remedy is cacheTtl, and it works however often the user is     *)
(* read: the entry is not stale for ever.                                  *)
NotStaleForEver == []<>~Stale

(* save() has loaded a balance that deposits may have changed since: none  *)
(* is lost when it writes.                                                 *)
NoDepositLost == row.balance = deposits

(* updateUser replaces the whole profile; a mixture of two takes two       *)
(* updates of which one loaded the row before the other wrote it.          *)
MixtureNeedsRace ==
    row.profile \in {Registered} \cup {Dto[c] : c \in Updates} \/ raced # {}
=============================================================================
