--------------------------- MODULE RefreshSessions ---------------------------
(***************************************************************************)
(* Refresh sessions: AuthService and RefreshSessionsService over the table *)
(* refresh_sessions.  A login or a refresh is a database transaction (READ *)
(* COMMITTED) of several statements; logouts, the daily removal of expired *)
(* sessions and the deletion of users interleave with its statements.      *)
(*                                                                         *)
(* table holds the ids of the committed rows; row keeps what each row ever *)
(* committed held, removed ones included.  gone and new are what a running *)
(* transaction has deleted and inserted.                                   *)
(***************************************************************************)
EXTENDS Integers, FiniteSets

CONSTANTS
    Users, Devices,      \* users; the fingerprints of the clients' devices
    Calls,               \* requests that are being served at the same time
    MaxUserSessions,     \* authModuleOptions.maxUserSessions
    ExpiresIn,           \* authModuleOptions.refreshTokenExpiresIn
    Radix,               \* a power of ten above ExpiresIn
    InitStatus,          \* the rows of users
    MaxSessions,         \* bound: sessions ever created
    Times,               \* bound: the instants the clock shows
    None

ASSUME SessionsAssumption ==
    /\ MaxUserSessions \in Nat \ {0}
    /\ ExpiresIn \in Nat \ {0} /\ Radix \in Nat /\ Radix > ExpiresIn
    /\ MaxSessions \in Nat
    /\ Times \subseteq Nat \ {0} /\ 1 \in Times
    /\ None \notin Calls \cup Users \cup Devices

Ids == 1 .. MaxSessions
Statuses == {"absent", "live", "deleted", "purged"}
Row == [user : Users, device : Devices, createdAt : Times,
        from : Ids \cup {None}]      \* from: the session it replaces (history)

ASSUME UsersAssumption ==
    InitStatus \in [Users -> Statuses] /\ None \notin Ids /\ None \notin Row

VARIABLES
    status,              \* users: not registered yet, live, softly deleted, purged
    table, row,          \* the committed sessions
    userLock, rowLock,   \* row locks on users and on sessions
    pc, user, device,    \* the step a call is at, and for whom it acts
    old,                 \* the session a refresh presents
    id,                  \* the id its new session will have
    start,               \* now() of its transaction
    todo, at,            \* rows its DELETE has yet to reach; the one it is at
    gone, new,           \* what its transaction has deleted and inserted
    now                  \* the clock

sessions == <<table, row>>
locks == <<userLock, rowLock>>
call == <<user, device, old, id, start>>
cursor == <<todo, at>>
writes == <<gone, new>>
world == <<status, now>>
vars == <<sessions, locks, pc, call, cursor, writes, world>>

Steps == {"idle", "validate", "discard", "begin", "replace", "lock", "count",
          "find", "evict", "insert", "clear", "commit"}

TypeOK ==
    /\ status \in [Users -> Statuses]
    /\ table \subseteq Ids /\ row \in [Ids -> Row \cup {None}]
    /\ \A i \in table : row[i] # None
    /\ userLock \in [Users -> Calls \cup {None}]
    /\ rowLock \in [Ids -> Calls \cup {None}]
    /\ pc \in [Calls -> Steps]
    /\ user \in [Calls -> Users \cup {None}]
    /\ device \in [Calls -> Devices \cup {None}]
    /\ old \in [Calls -> Ids \cup {None}] /\ id \in [Calls -> Ids \cup {None}]
    /\ start \in [Calls -> Times]
    /\ todo \in [Calls -> SUBSET Ids] /\ at \in [Calls -> Ids \cup {None}]
    /\ gone \in [Calls -> SUBSET Ids] /\ new \in [Calls -> Row \cup {None}]
    /\ now \in Times

Init ==
    /\ status = InitStatus
    /\ table = {} /\ row = [i \in Ids |-> None]
    /\ userLock = [u \in Users |-> None] /\ rowLock = [i \in Ids |-> None]
    /\ pc = [c \in Calls |-> "idle"]
    /\ user = [c \in Calls |-> None] /\ device = [c \in Calls |-> None]
    /\ old = [c \in Calls |-> None] /\ id = [c \in Calls |-> None]
    /\ start = [c \in Calls |-> 1]
    /\ todo = [c \in Calls |-> {}] /\ at = [c \in Calls |-> None]
    /\ gone = [c \in Calls |-> {}] /\ new = [c \in Calls |-> None]
    /\ now = 1

-----------------------------------------------------------------------------
Live(u) == status[u] = "live"
FreeFor(lock, c) == lock \in {None, c}
ExpiresAt(r) == r.createdAt + ExpiresIn

(* The next id no session has; uuids are ordered by time and never reused. *)
(* A call draws the id of its new session when it starts.                  *)
Unused(i) == row[i] = None /\ \A c \in Calls : id[c] # i
NextId(i) == Unused(i) /\ \A j \in Ids : Unused(j) => i <= j

Go(c, step) == pc' = [pc EXCEPT ![c] = step]

(* A plausible bug: the time of expiry is taken for that of creation. *)
BugCreatedLater(u, d, from) ==
    [user |-> u, device |-> d, createdAt |-> now + ExpiresIn, from |-> from]

(* The row a new session gets: @BeforeInsert takes createdAt from the clock. *)
NewRow(u, d, from) == [user |-> u, device |-> d, createdAt |-> now, from |-> from]

(* The call is over: its locks, and what it has not committed, are gone.   *)
Finish(c) ==
    /\ Go(c, "idle")
    /\ userLock' = [u \in Users |-> IF userLock[u] = c THEN None ELSE userLock[u]]
    /\ rowLock' = [i \in Ids |-> IF rowLock[i] = c THEN None ELSE rowLock[i]]
    /\ user' = [user EXCEPT ![c] = None] /\ device' = [device EXCEPT ![c] = None]
    /\ old' = [old EXCEPT ![c] = None] /\ id' = [id EXCEPT ![c] = None]
    /\ start' = [start EXCEPT ![c] = 1]
    /\ todo' = [todo EXCEPT ![c] = {}] /\ at' = [at EXCEPT ![c] = None]
    /\ gone' = [gone EXCEPT ![c] = {}] /\ new' = [new EXCEPT ![c] = None]

(* DELETE of the row i, where the call is at: it waits for the row's lock, *)
(* and finds nothing if the row has gone by then.                          *)
DeleteRow(c, i) ==
    IF i \in table
    THEN /\ FreeFor(rowLock[i], c)
         /\ rowLock' = [rowLock EXCEPT ![i] = c]
         /\ gone' = [gone EXCEPT ![c] = @ \cup {i}]
    ELSE UNCHANGED <<rowLock, gone>>

-----------------------------------------------------------------------------
(* Requests. *)

(* registerUser: the user's row and the first session in one transaction,  *)
(* of which no other sees anything before it commits.  Ids are not reused.  *)
Register(u, d) ==
    /\ status[u] = "absent"
    /\ status' = [status EXCEPT ![u] = "live"]
    /\ \E i \in Ids :
          /\ NextId(i)
          /\ row' = [row EXCEPT ![i] = NewRow(u, d, None)]
          /\ table' = table \cup {i}
    /\ UNCHANGED <<locks, pc, call, cursor, writes, now>>

(* login, once validateUser has found the user and compared the password.  *)
Login(c, u, d) ==
    /\ pc[c] = "idle" /\ Live(u)
    /\ \E i \in Ids : NextId(i) /\ id' = [id EXCEPT ![c] = i]
    /\ user' = [user EXCEPT ![c] = u] /\ device' = [device EXCEPT ![c] = d]
    /\ Go(c, "begin")
    /\ UNCHANGED <<sessions, locks, old, start, cursor, writes, world>>

(* refreshTokens: findSession.  A token that finds no session of a user    *)
(* who is not deleted is refused, and nothing changes.                     *)
FindSession(c, i, d) ==
    /\ pc[c] = "idle" /\ i \in table /\ Live(row[i].user)
    /\ \E j \in Ids : NextId(j) /\ id' = [id EXCEPT ![c] = j]
    /\ user' = [user EXCEPT ![c] = row[i].user]
    /\ device' = [device EXCEPT ![c] = d] /\ old' = [old EXCEPT ![c] = i]
    /\ Go(c, "validate")
    /\ UNCHANGED <<sessions, locks, start, cursor, writes, world>>

(* isSessionExpired adds expiresIn to a number of milliseconds; expiresIn  *)
(* is a bigint column, which is read as a string: + writes its digits      *)
(* behind those of createdAt, and > reads the result as a number again.    *)
IsSessionExpired(r) == now > r.createdAt * Radix + ExpiresIn

(* A plausible bug: the fingerprint is not compared. *)
BugAnyFingerprint(c) ==
    /\ pc[c] = "validate"
    /\ Go(c, "begin")
    /\ UNCHANGED <<sessions, locks, call, cursor, writes, world>>

(* validateSession, on the row as it was found. *)
ValidateSession(c) ==
    /\ pc[c] = "validate"
    /\ IF ~IsSessionExpired(row[old[c]]) /\ row[old[c]].device = device[c]
       THEN Go(c, "begin")
       ELSE Go(c, "discard")
    /\ UNCHANGED <<sessions, locks, call, cursor, writes, world>>

(* The session that was not validated is deleted, and the answer is 401.   *)
DiscardSession(c) ==
    /\ pc[c] = "discard"
    /\ old[c] \in table => rowLock[old[c]] = None
    /\ table' = table \ {old[c]}
    /\ Finish(c)
    /\ UNCHANGED <<row, world>>

(* logout: deletes the session of the cookie, if it is still there.        *)
Logout(i) ==
    /\ row[i] # None
    /\ i \in table => rowLock[i] = None
    /\ table' = table \ {i}
    /\ UNCHANGED <<row, locks, pc, call, cursor, writes, world>>

(* A DELETE of many rows: it reaches those it saw when it started.         *)
Clear(c, is) ==
    /\ pc[c] = "idle" /\ is # {}
    /\ todo' = [todo EXCEPT ![c] = is]
    /\ Go(c, "clear")
    /\ UNCHANGED <<sessions, locks, old, id, start, device, at, writes, world>>

(* logout/all; the access token is not compared with the database.         *)
LogoutAll(c, u) ==
    /\ Clear(c, {i \in table : row[i].user = u})
    /\ user' = [user EXCEPT ![c] = u]

(* deleteExpiredSessions, every night. *)
DeleteExpired(c) ==
    /\ Clear(c, {i \in table : ExpiresAt(row[i]) < now})
    /\ UNCHANGED user

Reach(c, i) ==
    /\ pc[c] = "clear" /\ at[c] = None /\ i \in todo[c]
    /\ at' = [at EXCEPT ![c] = i]
    /\ todo' = [todo EXCEPT ![c] = @ \ {i}]
    /\ UNCHANGED <<sessions, locks, pc, call, writes, world>>

ClearRow(c) ==
    /\ pc[c] = "clear" /\ at[c] # None
    /\ DeleteRow(c, at[c])
    /\ at' = [at EXCEPT ![c] = None]
    /\ UNCHANGED <<sessions, userLock, pc, call, todo, new, world>>

-----------------------------------------------------------------------------
(* createSession and replaceSession, statement by statement. *)

(* The transaction begins; its now() does not move until it ends. *)
BeginTransaction(c) ==
    /\ pc[c] = "begin"
    /\ start' = [start EXCEPT ![c] = now]
    /\ Go(c, IF old[c] = None THEN "lock" ELSE "replace")
    /\ UNCHANGED <<sessions, locks, user, device, old, id, cursor, writes, world>>

(* replaceSession deletes the old session, or does not find it any more.   *)
DeleteReplaced(c) ==
    /\ pc[c] = "replace"
    /\ DeleteRow(c, old[c])
    /\ Go(c, "lock")
    /\ UNCHANGED <<sessions, userLock, call, cursor, new, world>>

(* A plausible bug: the user is not locked. *)
BugNoUserLock(c) ==
    /\ pc[c] = "lock"
    /\ Go(c, "count")
    /\ UNCHANGED <<sessions, locks, call, cursor, writes, world>>

(* lockUserForUpdate: SELECT ... FOR UPDATE sees no deleted user. *)
LockUser(c) ==
    /\ pc[c] = "lock"
    /\ IF Live(user[c])
       THEN /\ FreeFor(userLock[user[c]], c)
            /\ userLock' = [userLock EXCEPT ![user[c]] = c]
       ELSE UNCHANGED userLock
    /\ Go(c, "count")
    /\ UNCHANGED <<sessions, rowLock, call, cursor, writes, world>>

(* The sessions of its user that have not expired when the transaction     *)
(* began, as it sees them; none if the user is deleted.                    *)
Active(c) ==
    {i \in table \ gone[c] : /\ row[i].user = user[c] /\ Live(user[c])
                             /\ ExpiresAt(row[i]) > start[c]}

CountActive(c) ==
    /\ pc[c] = "count"
    /\ Go(c, IF Cardinality(Active(c)) >= MaxUserSessions THEN "find" ELSE "insert")
    /\ UNCHANGED <<sessions, locks, call, cursor, writes, world>>

(* A plausible bug: ordered by createdAt, but descending. *)
BugFindLatest(c) ==
    /\ pc[c] = "find"
    /\ \E i \in Active(c) :
          /\ \A j \in Active(c) : row[i].createdAt >= row[j].createdAt
          /\ at' = [at EXCEPT ![c] = i]
          /\ Go(c, "evict")
    /\ UNCHANGED <<sessions, locks, call, todo, writes, world>>

(* findEarliestActive; sessions of one millisecond come in any order.      *)
FindEarliestActive(c) ==
    /\ pc[c] = "find"
    /\ \/ \E i \in Active(c) :
             /\ \A j \in Active(c) : row[i].createdAt <= row[j].createdAt
             /\ at' = [at EXCEPT ![c] = i]
             /\ Go(c, "evict")
       \/ /\ Active(c) = {}
          /\ Go(c, "insert")
          /\ UNCHANGED at
    /\ UNCHANGED <<sessions, locks, call, todo, writes, world>>

DeleteEarliest(c) ==
    /\ pc[c] = "evict"
    /\ DeleteRow(c, at[c])
    /\ at' = [at EXCEPT ![c] = None]
    /\ Go(c, "insert")
    /\ UNCHANGED <<sessions, userLock, call, todo, new, world>>

(* A plausible bug: no foreign key from the session to its user. *)
BugNoForeignKey(c) ==
    /\ pc[c] = "insert"
    /\ new' = [new EXCEPT ![c] = NewRow(user[c], device[c], old[c])]
    /\ Go(c, "commit")
    /\ UNCHANGED <<sessions, locks, call, cursor, gone, world>>

(* The INSERT; its foreign key needs the user's row, deleted softly or not. *)
InsertSession(c) ==
    /\ pc[c] = "insert"
    /\ IF status[user[c]] = "purged"
       THEN /\ Finish(c)
            /\ UNCHANGED <<sessions, world>>
       ELSE /\ new' = [new EXCEPT ![c] = NewRow(user[c], device[c], old[c])]
            /\ Go(c, "commit")
            /\ UNCHANGED <<sessions, locks, call, cursor, gone, world>>

(* What the transaction has written appears, and the call is answered.     *)
Commit(c) ==
    /\ \/ pc[c] = "commit"
       \/ pc[c] = "clear" /\ at[c] = None /\ todo[c] = {}
    /\ IF new[c] = None
       THEN /\ table' = table \ gone[c]
            /\ UNCHANGED row
       ELSE /\ table' = (table \ gone[c]) \cup {id[c]}
            /\ row' = [row EXCEPT ![id[c]] = new[c]]
    /\ Finish(c)
    /\ UNCHANGED world

(* A plausible bug: the connection goes back to the pool in mid-transaction. *)
BugLeakTransaction(c) ==
    /\ pc[c] # "idle"
    /\ Go(c, "idle")
    /\ UNCHANGED <<sessions, locks, call, cursor, writes, world>>

(* The server, its connection or a statement fails, and all is undone.     *)
Crash(c) ==
    /\ pc[c] # "idle"
    /\ Finish(c)
    /\ UNCHANGED <<sessions, world>>

-----------------------------------------------------------------------------
(* Deadlock detection, by PostgreSQL.  A refresh deletes its old session   *)
(* before it locks the user, a login locks the user before it deletes the  *)
(* earliest session: the two can wait for each other.                      *)

Blocker(lock, c) == IF FreeFor(lock, c) THEN None ELSE lock
RowBlocker(c, i) == IF i \in table THEN Blocker(rowLock[i], c) ELSE None

WaitsFor(c) ==
    IF pc[c] = "lock" /\ Live(user[c]) THEN Blocker(userLock[user[c]], c)
    ELSE IF pc[c] \in {"clear", "evict"} /\ at[c] # None THEN RowBlocker(c, at[c])
    ELSE IF pc[c] = "replace" THEN RowBlocker(c, old[c])
    ELSE None

Cycle(cs) == cs # {} /\ {WaitsFor(c) : c \in cs} = cs

DetectDeadlock(c) ==
    /\ \E cs \in SUBSET Calls : c \in cs /\ Cycle(cs)
    /\ Crash(c)

-----------------------------------------------------------------------------
Tick ==
    /\ \E t \in Times : t > now /\ now' = t
    /\ UNCHANGED <<sessions, locks, pc, call, cursor, writes, status>>

SoftDelete(u) ==
    /\ Live(u) /\ userLock[u] = None
    /\ status' = [status EXCEPT ![u] = "deleted"]
    /\ UNCHANGED <<sessions, locks, pc, call, cursor, writes, now>>

(* The user's row goes, a week later, and takes the sessions with it.      *)
HardDelete(u) ==
    LET its == {i \in table : row[i].user = u} IN
    /\ status[u] = "deleted"
    /\ \A c \in Calls : new[c] # None => new[c].user # u
    /\ \A i \in its : rowLock[i] = None
    /\ status' = [status EXCEPT ![u] = "purged"]
    /\ table' = table \ its
    /\ UNCHANGED <<row, locks, pc, call, cursor, writes, now>>

Step(c) ==
    \/ ValidateSession(c) \/ DiscardSession(c)
    \/ BeginTransaction(c) \/ DeleteReplaced(c) \/ LockUser(c) \/ CountActive(c)
    \/ FindEarliestActive(c) \/ DeleteEarliest(c) \/ InsertSession(c)
    \/ (\E i \in Ids : Reach(c, i)) \/ ClearRow(c) \/ Commit(c)

Next ==
    \/ \E u \in Users, d \in Devices : Register(u, d)
    \/ \E c \in Calls, u \in Users, d \in Devices : Login(c, u, d)
    \/ \E c \in Calls, i \in Ids, d \in Devices : FindSession(c, i, d)
    \/ \E i \in Ids : Logout(i)
    \/ \E c \in Calls, u \in Users : LogoutAll(c, u)
    \/ \E c \in Calls : DeleteExpired(c) \/ Step(c) \/ Crash(c) \/ DetectDeadlock(c)
    \/ Tick
    \/ \E u \in Users : SoftDelete(u) \/ HardDelete(u)

(* A call that can go on does; PostgreSQL grants locks first come, first   *)
(* served, and breaks deadlocks.                                           *)
Fairness ==
    \A c \in Calls : SF_vars(Step(c)) /\ WF_vars(DetectDeadlock(c))

Spec == Init /\ [][Next]_vars
FairSpec == Spec /\ Fairness

-----------------------------------------------------------------------------
(* Properties. *)

(* "to prevent race conditions and creating more than maxUserSessions":    *)
(* a user never has more sessions than that, however logins, refreshes and *)
(* logouts interleave, ...                                                 *)
SessionsOf(u) == {i \in table : row[i].user = u}
ActiveOf(u) == {i \in SessionsOf(u) : ExpiresAt(row[i]) > now}

MaxSessionsKept ==
    \A u \in Users : Live(u) => Cardinality(ActiveOf(u)) <= MaxUserSessions

(* ... which is true until the first of the user's sessions expires.       *)
NoneExpired(u) ==
    \A i \in Ids : row[i] # None /\ row[i].user = u => ExpiresAt(row[i]) > now

AtMostMaxSessions ==
    \A u \in Users :
        Live(u) /\ NoneExpired(u) => Cardinality(SessionsOf(u)) <= MaxUserSessions

(* A new session ends at most one other besides the one it replaces, and   *)
(* none of the user's that stay active is older than that one.             *)
Ended(n) == (table \ table') \ {row'[n].from}

EvictsTheEarliest == [][
    \A n \in table' \ table :
        /\ Cardinality(Ended(n)) <= 1
        /\ \A i \in Ended(n), j \in table \cap table' :
              row[j].user = row[i].user /\ ExpiresAt(row[j]) > now =>
                  row[j].createdAt >= row[i].createdAt]_vars

(* A session is continued only on the device, and for the user, of the     *)
(* login it goes back to.                                                  *)
SessionKeepsDevice ==
    \A i \in Ids : row[i] # None /\ row[i].from # None =>
        /\ row[i].user = row[row[i].from].user
        /\ row[i].device = row[row[i].from].device

(* No session outlives its user's row. *)
SessionHasUser == \A i \in table : status[row[i].user] \in {"live", "deleted"}

(* Every call ends, those that deadlock included. *)
CallsEnd == \A c \in Calls : pc[c] # "idle" ~> pc[c] = "idle"
=============================================================================
