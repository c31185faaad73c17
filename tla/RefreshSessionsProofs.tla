----------------------- MODULE RefreshSessionsProofs ------------------------
(***************************************************************************)
(* Theorems about RefreshSessions, for all users, devices and calls, every *)
(* limit, time of life and bound.                                          *)
(***************************************************************************)
EXTENDS RefreshSessions, FiniteSetTheorems, TLAPS

(* The steps of a call that is going to create a session; those at which   *)
(* it has locked its user, if the user is live.                            *)
Creating == Steps \ {"idle", "clear"}
Locked == {"count", "find", "evict", "insert", "commit"}

(* What a call knows of itself. *)
CallsOK ==
    \A c \in Calls :
        /\ pc[c] \in Creating =>
              user[c] \in Users /\ device[c] \in Devices /\ id[c] \in Ids
        /\ pc[c] \in {"validate", "discard", "replace"} => old[c] \in Ids
        /\ pc[c] = "evict" => at[c] \in Ids
        /\ new[c] # None <=> pc[c] = "commit"
        /\ pc[c] \notin Creating => old[c] = None /\ id[c] = None
        /\ pc[c] \notin {"evict", "clear"} => at[c] = None
        /\ pc[c] = "idle" => gone[c] = {}
        /\ start[c] <= now

(* Ids are drawn once. *)
IdsOK ==
    \A c \in Calls : id[c] # None =>
        /\ row[id[c]] = None
        /\ \A d \in Calls : id[d] = id[c] => d = c

(* A row was created in the past, and replaced one that had been there.    *)
RowsOK ==
    \A i \in Ids : row[i] # None =>
        /\ row[i].createdAt <= now
        /\ row[i].from # None => row[row[i].from] # None

(* The session a refresh presents is of its user, and once it has been     *)
(* validated, of its device.                                               *)
OldOK ==
    \A c \in Calls : old[c] # None =>
        /\ row[old[c]] # None /\ row[old[c]].user = user[c]
        /\ pc[c] \notin {"validate", "discard"} => row[old[c]].device = device[c]

(* What a transaction has inserted is what its request asked for.          *)
NewOK ==
    \A c \in Calls : new[c] # None =>
        /\ new[c].user = user[c] /\ new[c].device = device[c]
        /\ new[c].from = old[c] /\ new[c].createdAt <= now

(* Users who have calls have registered; rows inserted keep the user's row. *)
UsersOK ==
    \A c \in Calls :
        /\ pc[c] \in Creating => status[user[c]] # "absent"
        /\ new[c] # None => status[user[c]] \in {"live", "deleted"}

IndInv ==
    /\ TypeOK /\ CallsOK /\ IdsOK /\ RowsOK /\ OldOK /\ NewOK /\ UsersOK
    /\ SessionKeepsDevice /\ SessionHasUser

(* A call that creates a session holds its user, ...                       *)
LockOK ==
    \A c \in Calls :
        pc[c] \in Locked /\ Live(user[c]) => userLock[user[c]] = c

(* ... and at its INSERT has made room for it.                             *)
RoomOK ==
    \A c \in Calls :
        pc[c] \in Locked /\ Live(user[c]) /\ NoneExpired(user[c]) =>
            /\ pc[c] \in {"insert", "commit"} =>
                  Cardinality(SessionsOf(user[c]) \ gone[c]) < MaxUserSessions
            /\ pc[c] = "evict" =>
                  Cardinality(SessionsOf(user[c]) \ (gone[c] \cup {at[c]}))
                      < MaxUserSessions

LimitInv == IndInv /\ LockOK /\ RoomOK /\ AtMostMaxSessions

(* e is older than every session of its user that stays active, and than   *)
(* those that others are about to commit.                                  *)
Earliest(c, e) ==
    /\ row[e] # None /\ row[e].user = user[c]
    /\ \A j \in table \ gone[c] :
          row[j].user = user[c] /\ ExpiresAt(row[j]) > now =>
              row[j].createdAt >= row[e].createdAt
    /\ \A d \in Calls \ {c} :
          new[d] # None /\ user[d] = user[c] => new[d].createdAt >= row[e].createdAt

(* A transaction removes the session it replaces and one such e.           *)
EvictOK ==
    \A c \in Calls :
        /\ pc[c] \in Creating \ {"insert", "commit"} => gone[c] \subseteq {old[c]}
        /\ pc[c] = "evict" => Earliest(c, at[c])
        /\ pc[c] \in {"insert", "commit"} =>
              \E e \in Ids \cup {None} :
                  /\ gone[c] \subseteq {old[c], e}
                  /\ e # None => Earliest(c, e)

(* Whose step it is: a call's, or that of the world around the calls.      *)
CallNext(c) ==
    \/ \E u \in Users, d \in Devices : Login(c, u, d)
    \/ \E i \in Ids, d \in Devices : FindSession(c, i, d)
    \/ \E u \in Users : LogoutAll(c, u)
    \/ DeleteExpired(c) \/ Step(c) \/ Crash(c)

WorldNext ==
    \/ \E u \in Users, d \in Devices : Register(u, d)
    \/ \E i \in Ids : Logout(i)
    \/ Tick
    \/ \E u \in Users : SoftDelete(u) \/ HardDelete(u)
    \/ UNCHANGED vars

LEMMA NextCases == [Next]_vars => (\E c \in Calls : CallNext(c)) \/ WorldNext
<1>1. ASSUME NEW c \in Calls, DetectDeadlock(c) PROVE Crash(c)
  BY <1>1 DEF DetectDeadlock
<1>2. QED
  BY <1>1 DEF Next, CallNext, WorldNext

(* A step of one call leaves what the others know of themselves alone.     *)
LEMMA OthersKept ==
    ASSUME TypeOK, NEW c \in Calls, CallNext(c), NEW d \in Calls, d # c
    PROVE  /\ pc'[d] = pc[d] /\ user'[d] = user[d] /\ device'[d] = device[d]
           /\ old'[d] = old[d] /\ id'[d] = id[d] /\ start'[d] = start[d]
           /\ todo'[d] = todo[d] /\ at'[d] = at[d]
           /\ gone'[d] = gone[d] /\ new'[d] = new[d]
<1> USE DEF sessions, locks, call, cursor, writes, world
<1>1. ASSUME NEW u \in Users, NEW e \in Devices, Login(c, u, e) PROVE
           /\ pc'[d] = pc[d] /\ UNCHANGED <<old, start, cursor, writes>>
           /\ user'[d] = user[d] /\ device'[d] = device[d] /\ id'[d] = id[d]
  BY <1>1 DEF Login, Go, TypeOK
<1>2. ASSUME NEW i \in Ids, NEW e \in Devices, FindSession(c, i, e) PROVE
           /\ pc'[d] = pc[d] /\ UNCHANGED <<start, cursor, writes>>
           /\ user'[d] = user[d] /\ device'[d] = device[d] /\ id'[d] = id[d]
           /\ old'[d] = old[d]
  BY <1>2 DEF FindSession, Go, TypeOK
<1>3. CASE (\E u \in Users : LogoutAll(c, u)) \/ DeleteExpired(c)
  BY <1>3 DEF LogoutAll, DeleteExpired, Clear, Go, TypeOK
<1>4. CASE ValidateSession(c) \/ BeginTransaction(c) \/ CountActive(c) \/ LockUser(c)
           \/ FindEarliestActive(c) \/ (\E i \in Ids : Reach(c, i))
  BY <1>4
  DEF ValidateSession, BeginTransaction, CountActive, LockUser, FindEarliestActive,
      Reach, Go, TypeOK
<1>5. CASE DeleteReplaced(c) \/ DeleteEarliest(c) \/ ClearRow(c)
  BY <1>5 DEF DeleteReplaced, DeleteEarliest, ClearRow, DeleteRow, Go, TypeOK
<1>6. ASSUME Finish(c)
      PROVE  /\ pc'[d] = pc[d] /\ user'[d] = user[d] /\ device'[d] = device[d]
             /\ old'[d] = old[d] /\ id'[d] = id[d] /\ start'[d] = start[d]
             /\ todo'[d] = todo[d] /\ at'[d] = at[d]
             /\ gone'[d] = gone[d] /\ new'[d] = new[d]
  BY <1>6 DEF Finish, Go, TypeOK
<1>7. CASE InsertSession(c)
  BY <1>6, <1>7 DEF InsertSession, Go, TypeOK
<1>8. CASE DiscardSession(c) \/ Commit(c) \/ Crash(c)
  BY <1>6, <1>8 DEF DiscardSession, Commit, Crash
<1>9. QED
  BY <1>1, <1>2, <1>3, <1>4, <1>5, <1>7, <1>8 DEF CallNext, Step

LEMMA WorldKeepsCalls ==
    ASSUME WorldNext PROVE UNCHANGED <<locks, pc, call, cursor, writes>>
BY DEF WorldNext, Register, Logout, Tick, SoftDelete, HardDelete, vars, sessions,
       locks, call, cursor, writes, world

-----------------------------------------------------------------------------
(* Type correctness. *)

LEMMA Numbers ==
    /\ Times \subseteq Nat /\ Ids \subseteq Nat /\ 1 \in Times
    /\ \A t \in Times : t >= 1
    /\ \A r \in Row : r.createdAt \in Times /\ ExpiresAt(r) \in Nat
<1>1. \A t \in Times : t \in Nat /\ t >= 1
  BY SessionsAssumption
<1>2. 1 \in Times /\ Ids \subseteq Nat
  BY SessionsAssumption DEF Ids
<1>3. ASSUME NEW r \in Row PROVE r.createdAt \in Times /\ ExpiresAt(r) \in Nat
  <2>1. r.createdAt \in Times
    BY DEF Row
  <2>2. \A t \in Nat : t + ExpiresIn \in Nat
    BY SessionsAssumption
  <2>3. QED
    BY <1>1, <2>1, <2>2 DEF ExpiresAt
<1>4. QED
  BY <1>1, <1>2, <1>3

LEMMA FinishType ==
    ASSUME TypeOK, NEW c \in Calls, Finish(c)
    PROVE  /\ userLock' \in [Users -> Calls \cup {None}]
           /\ rowLock' \in [Ids -> Calls \cup {None}]
           /\ pc' \in [Calls -> Steps]
           /\ user' \in [Calls -> Users \cup {None}]
           /\ device' \in [Calls -> Devices \cup {None}]
           /\ old' \in [Calls -> Ids \cup {None}] /\ id' \in [Calls -> Ids \cup {None}]
           /\ start' \in [Calls -> Times]
           /\ todo' \in [Calls -> SUBSET Ids] /\ at' \in [Calls -> Ids \cup {None}]
           /\ gone' \in [Calls -> SUBSET Ids] /\ new' \in [Calls -> Row \cup {None}]
BY Numbers DEF TypeOK, Finish, Go, Steps

LEMMA DeleteRowType ==
    ASSUME TypeOK, NEW c \in Calls, NEW i \in Ids, DeleteRow(c, i)
    PROVE  /\ rowLock' \in [Ids -> Calls \cup {None}]
           /\ gone' \in [Calls -> SUBSET Ids]
BY DEF TypeOK, DeleteRow

LEMMA NewRowType ==
    ASSUME TypeOK, NEW u \in Users, NEW d \in Devices, NEW i \in Ids \cup {None}
    PROVE  NewRow(u, d, i) \in Row /\ NewRow(u, d, i) # None
<1>1. NewRow(u, d, i) \in Row
  BY DEF TypeOK, NewRow, Row
<1>2. QED
  BY <1>1, UsersAssumption

LEMMA CommitType ==
    ASSUME TypeOK, CallsOK, NEW c \in Calls, Commit(c)
    PROVE  TypeOK'
<1>1. CASE new[c] = None
  BY <1>1, FinishType DEF Commit, TypeOK, world
<1>2. CASE new[c] # None
  <2>1. pc[c] = "commit" /\ id[c] \in Ids /\ new[c] \in Row
    BY <1>2 DEF CallsOK, Creating, TypeOK, Steps
  <2>2. table' = (table \ gone[c]) \cup {id[c]} /\ row' = [row EXCEPT ![id[c]] = new[c]]
    BY <1>2 DEF Commit
  <2>3. \A i \in table' : row'[i] # None
    BY <1>2, <2>1, <2>2 DEF TypeOK
  <2>4. QED
    BY <2>1, <2>2, <2>3, FinishType DEF Commit, TypeOK, world
<1>3. QED
  BY <1>1, <1>2

LEMMA StepType == TypeOK /\ CallsOK /\ [Next]_vars => TypeOK'
<1> SUFFICES ASSUME TypeOK, CallsOK, [Next]_vars PROVE TypeOK'
  OBVIOUS
<1> USE DEF sessions, locks, call, cursor, writes, world
<1>1. ASSUME NEW c \in Calls, CallNext(c) PROVE TypeOK'
  <2>1. ASSUME NEW u \in Users, NEW d \in Devices, Login(c, u, d) PROVE TypeOK'
    <3>1. id' \in [Calls -> Ids \cup {None}]
      BY <2>1 DEF Login, TypeOK
    <3>2. QED
      BY <2>1, <3>1 DEF Login, Go, TypeOK, Steps
  <2>2. ASSUME NEW i \in Ids, NEW d \in Devices, FindSession(c, i, d) PROVE TypeOK'
    <3>1. id' \in [Calls -> Ids \cup {None}]
      BY <2>2 DEF FindSession, TypeOK
    <3>2. row[i].user \in Users
      BY <2>2 DEF FindSession, TypeOK, Row
    <3>3. QED
      BY <2>2, <3>1, <3>2 DEF FindSession, Go, TypeOK, Steps
  <2>3. ASSUME NEW u \in Users, LogoutAll(c, u) PROVE TypeOK'
    BY <2>3 DEF LogoutAll, Clear, Go, TypeOK, Steps
  <2>4. CASE DeleteExpired(c)
    BY <2>4 DEF DeleteExpired, Clear, Go, TypeOK, Steps
  <2>5. CASE ValidateSession(c)
    BY <2>5 DEF ValidateSession, Go, TypeOK, Steps
  <2>6. CASE DiscardSession(c)
    BY <2>6, FinishType DEF DiscardSession, TypeOK
  <2>7. CASE BeginTransaction(c)
    BY <2>7 DEF BeginTransaction, Go, TypeOK, Steps
  <2>8. CASE DeleteReplaced(c)
    <3>1. old[c] \in Ids
      BY <2>8 DEF DeleteReplaced, CallsOK
    <3>2. QED
      BY <2>8, <3>1, DeleteRowType DEF DeleteReplaced, Go, TypeOK, Steps
  <2>9. CASE LockUser(c)
    <3>1. user[c] \in Users
      BY <2>9 DEF LockUser, CallsOK, Creating, Steps
    <3>2. QED
      BY <2>9, <3>1 DEF LockUser, Go, TypeOK, Steps
  <2>10. CASE CountActive(c)
    BY <2>10 DEF CountActive, Go, TypeOK, Steps
  <2>11. CASE FindEarliestActive(c)
    <3>1. Active(c) \subseteq Ids
      BY DEF Active, TypeOK
    <3>2. at' \in [Calls -> Ids \cup {None}] /\ pc' \in [Calls -> Steps]
      BY <2>11, <3>1 DEF FindEarliestActive, Go, TypeOK, Steps
    <3>3. QED
      BY <2>11, <3>2 DEF FindEarliestActive, TypeOK
  <2>12. CASE DeleteEarliest(c)
    <3>1. at[c] \in Ids
      BY <2>12 DEF DeleteEarliest, CallsOK
    <3>2. QED
      BY <2>12, <3>1, DeleteRowType DEF DeleteEarliest, Go, TypeOK, Steps
  <2>13. CASE InsertSession(c)
    <3>1. user[c] \in Users /\ device[c] \in Devices /\ old[c] \in Ids \cup {None}
      BY <2>13 DEF InsertSession, CallsOK, Creating, Steps, TypeOK
    <3>2. NewRow(user[c], device[c], old[c]) \in Row
      BY <3>1, NewRowType
    <3>3. QED
      BY <2>13, <3>2, FinishType DEF InsertSession, Go, TypeOK, Steps
  <2>14. ASSUME NEW i \in Ids, Reach(c, i) PROVE TypeOK'
    BY <2>14 DEF Reach, TypeOK
  <2>15. CASE ClearRow(c)
    <3>1. at[c] \in Ids
      BY <2>15 DEF ClearRow, TypeOK
    <3>2. QED
      BY <2>15, <3>1, DeleteRowType DEF ClearRow, TypeOK
  <2>16. CASE Commit(c)
    BY <2>16, CommitType
  <2>17. CASE Crash(c)
    BY <2>17, FinishType DEF Crash, TypeOK
  <2>18. QED
    BY <1>1, <2>1, <2>2, <2>3, <2>4, <2>5, <2>6, <2>7, <2>8, <2>9, <2>10, <2>11,
       <2>12, <2>13, <2>14, <2>15, <2>16, <2>17
    DEF CallNext, Step
<1>2. CASE WorldNext
  <2>1. ASSUME NEW u \in Users, NEW d \in Devices, Register(u, d) PROVE TypeOK'
    <3>1. PICK i \in Ids : /\ row' = [row EXCEPT ![i] = NewRow(u, d, None)]
                           /\ table' = table \cup {i}
      BY <2>1 DEF Register
    <3>2. NewRow(u, d, None) \in Row /\ NewRow(u, d, None) # None
      BY NewRowType
    <3>3. QED
      BY <2>1, <3>1, <3>2 DEF Register, TypeOK, Statuses
  <2>2. ASSUME NEW i \in Ids, Logout(i) PROVE TypeOK'
    BY <2>2 DEF Logout, TypeOK
  <2>3. CASE Tick
    BY <2>3, SessionsAssumption DEF Tick, TypeOK
  <2>4. ASSUME NEW u \in Users, SoftDelete(u) \/ HardDelete(u) PROVE TypeOK'
    BY <2>4 DEF SoftDelete, HardDelete, TypeOK, Statuses
  <2>5. CASE UNCHANGED vars
    BY <2>5 DEF vars, TypeOK
  <2>6. QED
    BY <1>2, <2>1, <2>2, <2>3, <2>4, <2>5 DEF WorldNext
<1>3. QED
  BY <1>1, <1>2, NextCases

(* What a call knows of itself. *)

LEMMA FinishCall ==
    ASSUME TypeOK, NEW c \in Calls, Finish(c)
    PROVE  /\ pc'[c] = "idle" /\ user'[c] = None /\ device'[c] = None
           /\ old'[c] = None /\ id'[c] = None /\ start'[c] = 1
           /\ todo'[c] = {} /\ at'[c] = None /\ gone'[c] = {} /\ new'[c] = None
BY DEF Finish, Go, TypeOK

LEMMA NowAndRows ==
    ASSUME TypeOK, CallsOK, [Next]_vars
    PROVE  /\ now <= now' /\ now \in Nat /\ now' \in Nat
           /\ \A c \in Calls : CallNext(c) => now' = now
<1>1. ASSUME NEW c \in Calls, CallNext(c) PROVE now' = now
  BY <1>1
  DEF CallNext, Login, FindSession, LogoutAll, DeleteExpired, Clear, Step,
      ValidateSession, DiscardSession, BeginTransaction, DeleteReplaced, LockUser,
      CountActive, FindEarliestActive, DeleteEarliest, InsertSession, Reach, ClearRow,
      Commit, Crash, world
<1>2. WorldNext => now <= now'
  BY Numbers
  DEF WorldNext, Register, Logout, Tick, SoftDelete, HardDelete, vars, world, TypeOK
<1>3. TypeOK'
  BY StepType
<1>4. QED
  BY <1>1, <1>2, <1>3, NextCases, Numbers DEF TypeOK

LEMMA StepCalls == TypeOK /\ CallsOK /\ [Next]_vars => CallsOK'
<1> SUFFICES ASSUME TypeOK, CallsOK, [Next]_vars PROVE CallsOK'
  OBVIOUS
<1> DEFINE OK(c) ==
        /\ pc[c] \in Creating =>
              user[c] \in Users /\ device[c] \in Devices /\ id[c] \in Ids
        /\ pc[c] \in {"validate", "discard", "replace"} => old[c] \in Ids
        /\ pc[c] = "evict" => at[c] \in Ids
        /\ new[c] # None <=> pc[c] = "commit"
        /\ pc[c] \notin Creating => old[c] = None /\ id[c] = None
        /\ pc[c] \notin {"evict", "clear"} => at[c] = None
        /\ pc[c] = "idle" => gone[c] = {}
        /\ start[c] <= now
<1>0. TypeOK'
  BY StepType
<1>1. \A c \in Calls : OK(c)
  BY DEF CallsOK
<1>2. ASSUME NEW c \in Calls, CallNext(c), NEW d \in Calls, d # c PROVE OK(d)'
  BY <1>1, <1>2, OthersKept, NowAndRows
<1>3. ASSUME WorldNext, NEW d \in Calls PROVE OK(d)'
  <2>1. start[d] \in Nat
    BY Numbers DEF TypeOK
  <2>2. QED
    BY <1>1, <1>3, <2>1, WorldKeepsCalls, NowAndRows DEF call, cursor, writes
<1>4. ASSUME NEW c \in Calls, CallNext(c) PROVE OK(c)'
  <2>1. OK(c) /\ now' = now
    BY <1>1, <1>4, NowAndRows
  <2> USE DEF sessions, locks, call, cursor, writes, world
  <2>2. ASSUME Finish(c) PROVE OK(c)'
    <3>1. start'[c] = 1 /\ now' \in Nat /\ now' >= 1
      BY <2>2, FinishCall, <1>0, Numbers DEF TypeOK
    <3>2. QED
      BY <2>2, <3>1, FinishCall DEF Creating
  <2>3. ASSUME NEW u \in Users, NEW d \in Devices, Login(c, u, d) PROVE OK(c)'
    <3>1. PICK i \in Ids : id' = [id EXCEPT ![c] = i]
      BY <2>3 DEF Login
    <3>2. id'[c] \in Ids
      BY <3>1 DEF TypeOK
    <3>3. QED
      BY <2>1, <2>3, <3>2 DEF Login, Go, TypeOK, Creating, Steps
  <2>4. ASSUME NEW i \in Ids, NEW d \in Devices, FindSession(c, i, d) PROVE OK(c)'
    <3>1. PICK j \in Ids : id' = [id EXCEPT ![c] = j]
      BY <2>4 DEF FindSession
    <3>2. id'[c] \in Ids /\ row[i].user \in Users
      BY <2>4, <3>1 DEF TypeOK, FindSession, Row
    <3>3. QED
      BY <2>1, <2>4, <3>2 DEF FindSession, Go, TypeOK, Creating, Steps
  <2>5. CASE (\E u \in Users : LogoutAll(c, u)) \/ DeleteExpired(c)
    BY <2>1, <2>5 DEF LogoutAll, DeleteExpired, Clear, Go, TypeOK, Creating, Steps
  <2>6. CASE ValidateSession(c)
    BY <2>1, <2>6 DEF ValidateSession, Go, TypeOK, Creating, Steps
  <2>7. CASE BeginTransaction(c)
    BY <2>1, <2>7, <1>0, Numbers DEF BeginTransaction, Go, TypeOK, Creating, Steps
  <2>8. CASE DeleteReplaced(c) \/ LockUser(c) \/ CountActive(c)
    BY <2>1, <2>8
    DEF DeleteReplaced, LockUser, CountActive, DeleteRow, Go, TypeOK, Creating, Steps
  <2>9. CASE FindEarliestActive(c)
    <3>1. Active(c) \subseteq Ids
      BY DEF Active, TypeOK
    <3>2. QED
      BY <2>1, <2>9, <3>1 DEF FindEarliestActive, Go, TypeOK, Creating, Steps
  <2>10. CASE DeleteEarliest(c)
    BY <2>1, <2>10 DEF DeleteEarliest, DeleteRow, Go, TypeOK, Creating, Steps
  <2>11. CASE InsertSession(c)
    <3>1. NewRow(user[c], device[c], old[c]) # None
      BY <2>1, <2>11, NewRowType DEF InsertSession, Creating, Steps, TypeOK
    <3>2. QED
      BY <2>1, <2>2, <2>11, <3>1 DEF InsertSession, Go, TypeOK, Creating, Steps
  <2>12. CASE (\E i \in Ids : Reach(c, i)) \/ ClearRow(c)
    BY <2>1, <2>12 DEF Reach, ClearRow, DeleteRow, TypeOK, Creating
  <2>13. CASE DiscardSession(c) \/ Commit(c) \/ Crash(c)
    BY <2>2, <2>13 DEF DiscardSession, Commit, Crash
  <2>14. QED
    BY <1>4, <2>3, <2>4, <2>5, <2>6, <2>7, <2>8, <2>9, <2>10, <2>11, <2>12, <2>13
    DEF CallNext, Step
<1>5. \A c \in Calls : OK(c)'
  BY <1>2, <1>3, <1>4, NextCases
<1>6. QED
  BY <1>5 DEF CallsOK

(* Rows are created under new ids and never change. *)

LEMMA RowStep ==
    ASSUME TypeOK, CallsOK, NEW c \in Calls, CallNext(c)
    PROVE  \/ /\ row' = row
              /\ \/ id'[c] = None \/ id'[c] = id[c]
                 \/ id'[c] \in Ids /\ Unused(id'[c])
           \/ /\ Commit(c) /\ new[c] # None /\ pc[c] = "commit" /\ id[c] \in Ids
              /\ row' = [row EXCEPT ![id[c]] = new[c]]
              /\ table' = (table \ gone[c]) \cup {id[c]}
              /\ id'[c] = None
<1> USE DEF sessions, locks, call, cursor, writes, world
<1>1. ASSUME NEW u \in Users, NEW d \in Devices, Login(c, u, d)
      PROVE  row' = row /\ id'[c] \in Ids /\ Unused(id'[c])
  <2>1. PICK i \in Ids : Unused(i) /\ id' = [id EXCEPT ![c] = i]
    BY <1>1 DEF Login, NextId
  <2>2. QED
    BY <1>1, <2>1 DEF Login, TypeOK
<1>2. ASSUME NEW i \in Ids, NEW d \in Devices, FindSession(c, i, d)
      PROVE  row' = row /\ id'[c] \in Ids /\ Unused(id'[c])
  <2>1. PICK j \in Ids : Unused(j) /\ id' = [id EXCEPT ![c] = j]
    BY <1>2 DEF FindSession, NextId
  <2>2. QED
    BY <1>2, <2>1 DEF FindSession, TypeOK
<1>3. CASE Commit(c)
  <2>1. id'[c] = None
    BY <1>3, FinishCall DEF Commit
  <2>2. new[c] # None => pc[c] = "commit" /\ id[c] \in Ids
    BY DEF CallsOK, Creating, Steps
  <2>3. QED
    BY <1>3, <2>1, <2>2 DEF Commit
<1>4. CASE DiscardSession(c) \/ Crash(c)
  BY <1>4, FinishCall DEF DiscardSession, Crash
<1>5. CASE InsertSession(c)
  BY <1>5, FinishCall DEF InsertSession
<1>6. CASE \/ (\E u \in Users : LogoutAll(c, u)) \/ DeleteExpired(c)
           \/ ValidateSession(c) \/ BeginTransaction(c) \/ DeleteReplaced(c)
           \/ LockUser(c) \/ CountActive(c) \/ FindEarliestActive(c)
           \/ DeleteEarliest(c) \/ (\E i \in Ids : Reach(c, i)) \/ ClearRow(c)
  BY <1>6
  DEF LogoutAll, DeleteExpired, Clear, ValidateSession, BeginTransaction,
      DeleteReplaced, LockUser, CountActive, FindEarliestActive, DeleteEarliest, Reach,
      ClearRow
<1>7. QED
  BY <1>1, <1>2, <1>3, <1>4, <1>5, <1>6 DEF CallNext, Step

LEMMA WorldRows ==
    ASSUME WorldNext
    PROVE  \/ row' = row /\ table' \subseteq table
           \/ \E u \in Users, d \in Devices, i \in Ids :
                 /\ Register(u, d) /\ Unused(i)
                 /\ row' = [row EXCEPT ![i] = NewRow(u, d, None)]
                 /\ table' = table \cup {i}
BY DEF WorldNext, Register, NextId, Logout, Tick, SoftDelete, HardDelete, vars, sessions

LEMMA RowsKept ==
    ASSUME TypeOK, CallsOK, IdsOK, [Next]_vars, NEW i \in Ids, row[i] # None
    PROVE  row'[i] = row[i]
<1>1. ASSUME NEW c \in Calls, CallNext(c) PROVE row'[i] = row[i]
  <2>1. id[c] # None => row[id[c]] = None
    BY DEF IdsOK
  <2>2. QED
    BY <1>1, <2>1, RowStep, UsersAssumption DEF TypeOK
<1>2. ASSUME WorldNext PROVE row'[i] = row[i]
  BY <1>2, WorldRows DEF Unused, TypeOK
<1>3. QED
  BY <1>1, <1>2, NextCases

LEMMA StepIds == TypeOK /\ CallsOK /\ IdsOK /\ [Next]_vars => IdsOK'
<1> SUFFICES ASSUME TypeOK, CallsOK, IdsOK, [Next]_vars, NEW d \in Calls, id'[d] # None
             PROVE  row'[id'[d]] = None /\ \A e \in Calls : id'[e] = id'[d] => e = d
  BY DEF IdsOK
<1>0. \A e \in Calls : id[e] \in Ids \cup {None}
  BY DEF TypeOK
<1>1. ASSUME NEW c \in Calls, CallNext(c)
      PROVE  row'[id'[d]] = None /\ \A e \in Calls : id'[e] = id'[d] => e = d
  <2>1. \A e \in Calls : e # c => id'[e] = id[e]
    BY <1>1, OthersKept
  <2>2. CASE row' = row /\ (id'[c] = None \/ id'[c] = id[c])
    BY <2>1, <2>2 DEF IdsOK
  <2>3. CASE row' = row /\ id'[c] \in Ids /\ Unused(id'[c])
    BY <2>1, <2>3 DEF IdsOK, Unused
  <2>4. CASE /\ Commit(c) /\ id[c] \in Ids
             /\ row' = [row EXCEPT ![id[c]] = new[c]] /\ id'[c] = None
    <3>1. d # c /\ id[d] # id[c] /\ id[d] \in Ids
      BY <1>0, <2>1, <2>4, UsersAssumption DEF IdsOK
    <3>2. row'[id[d]] = None
      BY <2>4, <2>1, <3>1 DEF TypeOK, IdsOK
    <3>3. QED
      BY <2>1, <2>4, <3>1, <3>2 DEF IdsOK
  <2>5. QED
    BY <1>1, <2>2, <2>3, <2>4, RowStep
<1>2. ASSUME WorldNext
      PROVE  row'[id'[d]] = None /\ \A e \in Calls : id'[e] = id'[d] => e = d
  <2>1. id' = id
    BY <1>2, WorldKeepsCalls DEF call
  <2>2. row'[id[d]] = None
    BY <1>0, <1>2, <2>1, WorldRows DEF IdsOK, Unused, TypeOK
  <2>3. QED
    BY <2>1, <2>2 DEF IdsOK
<1>3. QED
  BY <1>1, <1>2, NextCases

(* What calls know of users and sessions. *)

(* Of the calls' steps, those that matter to what a call has written, and  *)
(* to whom it acts for.                                                    *)
LEMMA CallStep ==
    ASSUME TypeOK, CallsOK, NEW c \in Calls, CallNext(c)
    PROVE  /\ status' = status
           /\ \/ pc'[c] = "idle" /\ Finish(c)
              \/ pc'[c] = "clear"
              \/ \E u \in Users, d \in Devices : Login(c, u, d)
              \/ \E i \in Ids, d \in Devices : FindSession(c, i, d)
              \/ /\ pc[c] \in Creating /\ pc'[c] \in Creating
                 /\ UNCHANGED <<user, device, old, id, sessions>>
                 /\ pc[c] = "validate" => ValidateSession(c)
                 /\ pc[c] # "discard" /\ (pc[c] # "validate" => pc'[c] # "discard")
                 /\ pc'[c] # "validate"
           /\ \/ new'[c] = None
              \/ /\ InsertSession(c) /\ pc'[c] = "commit"
                 /\ status[user[c]] # "purged"
                 /\ new'[c] = NewRow(user[c], device[c], old[c])
                 /\ UNCHANGED <<user, device, old, sessions, world>>
<1> USE DEF sessions, locks, call, cursor, writes, world
<1>1. ASSUME NEW u \in Users, NEW d \in Devices, Login(c, u, d)
      PROVE  status' = status /\ new'[c] = None
  BY <1>1 DEF Login, CallsOK
<1>2. ASSUME NEW i \in Ids, NEW d \in Devices, FindSession(c, i, d)
      PROVE  status' = status /\ new'[c] = None
  BY <1>2 DEF FindSession, CallsOK
<1>3. CASE (\E u \in Users : LogoutAll(c, u)) \/ DeleteExpired(c)
  BY <1>3 DEF LogoutAll, DeleteExpired, Clear, Go, TypeOK, CallsOK
<1>4. CASE ValidateSession(c)
  BY <1>4 DEF ValidateSession, Go, TypeOK, CallsOK, Creating, Steps
<1>5. CASE BeginTransaction(c) \/ CountActive(c) \/ LockUser(c)
  BY <1>5
  DEF BeginTransaction, CountActive, LockUser, Go, TypeOK, CallsOK, Creating, Steps
<1>6. CASE FindEarliestActive(c)
  BY <1>6 DEF FindEarliestActive, Go, TypeOK, CallsOK, Creating, Steps
<1>7. CASE DeleteReplaced(c) \/ DeleteEarliest(c)
  BY <1>7
  DEF DeleteReplaced, DeleteEarliest, DeleteRow, Go, TypeOK, CallsOK, Creating, Steps
<1>8. CASE InsertSession(c)
  BY <1>8, FinishCall DEF InsertSession, Go, TypeOK, Creating, Steps
<1>9. CASE (\E i \in Ids : Reach(c, i)) \/ ClearRow(c)
  BY <1>9 DEF Reach, ClearRow, TypeOK, CallsOK
<1>10. CASE DiscardSession(c) \/ Commit(c) \/ Crash(c)
  BY <1>10, FinishCall DEF DiscardSession, Commit, Crash
<1>11. QED
  BY <1>1, <1>2, <1>3, <1>4, <1>5, <1>6, <1>7, <1>8, <1>9, <1>10 DEF CallNext, Step

LEMMA StepOld ==
    TypeOK /\ CallsOK /\ IdsOK /\ OldOK /\ [Next]_vars => OldOK'
<1> SUFFICES ASSUME TypeOK, CallsOK, IdsOK, OldOK, [Next]_vars,
                    NEW c \in Calls, old'[c] # None
             PROVE  /\ row'[old'[c]] # None /\ row'[old'[c]].user = user'[c]
                    /\ pc'[c] \notin {"validate", "discard"} =>
                          row'[old'[c]].device = device'[c]
  BY DEF OldOK
<1>1. \A i \in Ids : row[i] # None => row'[i] = row[i]
  BY RowsKept
<1>2. old[c] \in Ids \cup {None}
  BY DEF TypeOK
<1>3. ASSUME /\ old'[c] = old[c] /\ user'[c] = user[c] /\ device'[c] = device[c]
             /\ pc[c] \in {"validate", "discard"} =>
                   pc'[c] \in {"validate", "discard"} \/ row[old[c]].device = device[c]
      PROVE  /\ row'[old'[c]] # None /\ row'[old'[c]].user = user'[c]
             /\ pc'[c] \notin {"validate", "discard"} => row'[old'[c]].device = device'[c]
  BY <1>1, <1>2, <1>3 DEF OldOK
<1>4. ASSUME NEW d \in Calls, CallNext(d), d # c
      PROVE  pc'[c] = pc[c] /\ UNCHANGED <<old[c], user[c], device[c]>>
  BY <1>4, OthersKept
<1>5. CASE CallNext(c)
  <2>1. CASE pc'[c] = "clear" \/ Finish(c)
    BY <2>1, <1>5, StepCalls, FinishCall DEF CallsOK, Creating
  <2>2. ASSUME NEW u \in Users, NEW d \in Devices, Login(c, u, d) PROVE FALSE
    BY <2>2 DEF Login, CallsOK, Creating
  <2>3. ASSUME NEW i \in Ids, NEW d \in Devices, FindSession(c, i, d)
        PROVE  /\ old'[c] = i /\ pc'[c] = "validate" /\ user'[c] = row[i].user
               /\ row[i] # None
    BY <2>3 DEF FindSession, Go, TypeOK
  <2>4. CASE /\ pc[c] \in Creating /\ UNCHANGED <<user, device, old>>
             /\ pc[c] = "validate" => ValidateSession(c)
             /\ pc[c] # "discard"
    <3>1. pc[c] = "validate" => pc'[c] = "discard" \/ row[old[c]].device = device[c]
      BY <2>4 DEF ValidateSession, Go, TypeOK
    <3>2. QED
      BY <1>3, <2>4, <3>1
  <2>5. QED
    BY <1>1, <1>5, <2>1, <2>2, <2>3, <2>4, CallStep
<1>6. CASE WorldNext
  BY <1>3, <1>6, WorldKeepsCalls DEF call
<1>7. QED
  BY <1>3, <1>4, <1>5, <1>6, NextCases

LEMMA StepNew ==
    TypeOK /\ CallsOK /\ NewOK /\ [Next]_vars => NewOK'
<1> SUFFICES ASSUME TypeOK, CallsOK, NewOK, [Next]_vars,
                    NEW c \in Calls, new'[c] # None
             PROVE  /\ new'[c].user = user'[c] /\ new'[c].device = device'[c]
                    /\ new'[c].from = old'[c] /\ new'[c].createdAt <= now'
  BY DEF NewOK
<1>1. now <= now' /\ now \in Nat /\ now' \in Nat
  BY NowAndRows
<1>2. ASSUME UNCHANGED <<new[c], user[c], device[c], old[c]>>
      PROVE  /\ new'[c].user = user'[c] /\ new'[c].device = device'[c]
             /\ new'[c].from = old'[c] /\ new'[c].createdAt <= now'
  <2>1. new[c] \in Row /\ new[c].createdAt \in Nat
    BY <1>2, Numbers DEF TypeOK
  <2>2. QED
    BY <1>1, <1>2, <2>1 DEF NewOK
<1>3. ASSUME NEW d \in Calls, CallNext(d), d # c
      PROVE  UNCHANGED <<new[c], user[c], device[c], old[c]>>
  BY <1>3, OthersKept
<1>4. CASE CallNext(c)
  <2>1. new'[c] = NewRow(user[c], device[c], old[c])
        /\ UNCHANGED <<user, device, old, world>>
    BY <1>4, CallStep
  <2>2. QED
    BY <1>1, <2>1 DEF NewRow, world
<1>5. CASE WorldNext
  BY <1>2, <1>5, WorldKeepsCalls DEF call, writes
<1>6. QED
  BY <1>2, <1>3, <1>4, <1>5, NextCases

LEMMA StepRows ==
    TypeOK /\ CallsOK /\ IdsOK /\ RowsOK /\ OldOK /\ NewOK /\ [Next]_vars => RowsOK'
<1> SUFFICES ASSUME TypeOK, CallsOK, IdsOK, RowsOK, OldOK, NewOK, [Next]_vars,
                    NEW i \in Ids, row'[i] # None
             PROVE  /\ row'[i].createdAt <= now'
                    /\ row'[i].from # None => row'[row'[i].from] # None
  BY DEF RowsOK
<1>1. now <= now' /\ now \in Nat /\ now' \in Nat
  BY NowAndRows
<1>2. \A j \in Ids : row[j] # None => row'[j] = row[j]
  BY RowsKept
<1>3. CASE row[i] # None
  <2>1. row[i] \in Row /\ row[i].createdAt \in Nat /\ row[i].from \in Ids \cup {None}
    BY <1>3, Numbers DEF TypeOK, Row
  <2>2. QED
    BY <1>1, <1>2, <1>3, <2>1 DEF RowsOK
<1>4. CASE row[i] = None
  <2>1. ASSUME NEW c \in Calls, CallNext(c)
        PROVE  /\ row'[i].createdAt <= now'
               /\ row'[i].from # None => row'[row'[i].from] # None
    <3>1. row'[i] = new[c] /\ new[c] # None
      BY <1>4, <2>1, RowStep DEF TypeOK
    <3>2. new[c] \in Row /\ new[c].createdAt \in Nat /\ new[c].from \in Ids \cup {None}
      BY <3>1, Numbers DEF TypeOK, Row
    <3>3. QED
      BY <1>1, <1>2, <3>1, <3>2 DEF NewOK, OldOK
  <2>2. CASE WorldNext
    <3>1. PICK u \in Users, d \in Devices : row'[i] = NewRow(u, d, None)
      BY <1>4, <2>2, WorldRows DEF TypeOK
    <3>2. QED
      BY <1>1, <3>1 DEF NewRow
  <2>3. QED
    BY <2>1, <2>2, NextCases
<1>5. QED
  BY <1>3, <1>4

LEMMA WorldStatus ==
    ASSUME TypeOK, WorldNext, NEW u \in Users
    PROVE  \/ status'[u] = status[u]
           \/ status[u] = "absent" /\ status'[u] = "live"
           \/ SoftDelete(u) /\ status[u] = "live" /\ status'[u] = "deleted"
           \/ HardDelete(u) /\ status[u] = "deleted" /\ status'[u] = "purged"
<1> USE DEF TypeOK, sessions, world
<1>1. ASSUME NEW w \in Users, NEW d \in Devices, Register(w, d)
      PROVE  \/ status'[u] = status[u]
             \/ status[u] = "absent" /\ status'[u] = "live"
  <2>1. status[w] = "absent" /\ status' = [status EXCEPT ![w] = "live"]
    BY <1>1 DEF Register
  <2>2. QED
    BY <2>1
<1>2. ASSUME NEW w \in Users, SoftDelete(w)
      PROVE  \/ status'[u] = status[u]
             \/ SoftDelete(u) /\ status[u] = "live" /\ status'[u] = "deleted"
  <2>1. CASE w = u
    BY <1>2, <2>1 DEF SoftDelete, Live
  <2>2. CASE w # u
    BY <1>2, <2>2 DEF SoftDelete
  <2>3. QED
    BY <2>1, <2>2
<1>3. ASSUME NEW w \in Users, HardDelete(w)
      PROVE  \/ status'[u] = status[u]
             \/ HardDelete(u) /\ status[u] = "deleted" /\ status'[u] = "purged"
  <2>1. CASE w = u
    <3>1. status[u] = "deleted" /\ status' = [status EXCEPT ![u] = "purged"]
      BY <1>3, <2>1 DEF HardDelete
    <3>2. QED
      BY <1>3, <2>1, <3>1
  <2>2. CASE w # u
    <3>1. status' = [status EXCEPT ![w] = "purged"]
      BY <1>3 DEF HardDelete
    <3>2. QED
      BY <2>2, <3>1
  <2>3. QED
    BY <2>1, <2>2
<1>4. CASE (\E i \in Ids : Logout(i)) \/ Tick \/ UNCHANGED vars
  BY <1>4 DEF Logout, Tick, vars
<1>5. QED
  BY <1>1, <1>2, <1>3, <1>4 DEF WorldNext

LEMMA StepUsers ==
    TypeOK /\ CallsOK /\ NewOK /\ UsersOK /\ [Next]_vars => UsersOK'
<1> SUFFICES ASSUME TypeOK, CallsOK, NewOK, UsersOK, [Next]_vars, NEW c \in Calls
             PROVE  /\ pc'[c] \in Creating => status'[user'[c]] # "absent"
                    /\ new'[c] # None => status'[user'[c]] \in {"live", "deleted"}
  BY DEF UsersOK
<1>1. pc[c] \in Creating => user[c] \in Users /\ status[user[c]] \in Statuses
  BY DEF CallsOK, TypeOK
<1>2. new[c] # None => pc[c] \in Creating
  BY DEF CallsOK, Creating, Steps
<1>3. ASSUME NEW d \in Calls, CallNext(d), d # c
      PROVE  UNCHANGED <<pc[c], new[c], user[c], status>>
  BY <1>3, OthersKept, CallStep
<1>4. CASE CallNext(c)
  <2>1. status' = status
    BY <1>4, CallStep
  <2>2. pc'[c] \in Creating => status[user'[c]] # "absent"
    <3>1. ASSUME NEW u \in Users, NEW d \in Devices, Login(c, u, d)
          PROVE  user'[c] = u /\ status[u] = "live"
      BY <3>1 DEF Login, Live, TypeOK
    <3>2. ASSUME NEW i \in Ids, NEW d \in Devices, FindSession(c, i, d)
          PROVE  status[user'[c]] = "live"
      BY <3>2 DEF FindSession, Live, TypeOK
    <3>3. QED
      BY <1>4, <3>1, <3>2, CallStep DEF UsersOK, Creating
  <2>3. new'[c] # None => status[user'[c]] \in {"live", "deleted"}
    <3>1. ASSUME new'[c] # None
          PROVE  /\ InsertSession(c) /\ status[user[c]] # "purged"
                 /\ user' = user
      BY <1>4, <3>1, CallStep
    <3>2. InsertSession(c) => pc[c] \in Creating
      BY DEF InsertSession, Creating, Steps
    <3>3. QED
      BY <1>1, <3>1, <3>2 DEF UsersOK, Statuses
  <2>4. QED
    BY <2>1, <2>2, <2>3
<1>5. CASE WorldNext
  <2>1. pc' = pc /\ user' = user /\ new' = new
    BY <1>5, WorldKeepsCalls DEF call, writes
  <2>2. ASSUME pc[c] \in Creating
        PROVE  /\ status'[user[c]] # "absent"
               /\ new[c] # None => status'[user[c]] \in {"live", "deleted"}
    <3>1. HardDelete(user[c]) => new[c] = None
      BY DEF HardDelete, NewOK
    <3>2. QED
      BY <1>1, <1>5, <2>2, <3>1, WorldStatus DEF UsersOK
  <2>3. QED
    BY <1>2, <2>1, <2>2
<1>6. QED
  BY <1>3, <1>4, <1>5, NextCases DEF UsersOK

LEMMA StepDevice ==
    TypeOK /\ CallsOK /\ IdsOK /\ RowsOK /\ OldOK /\ NewOK /\ SessionKeepsDevice
        /\ [Next]_vars => SessionKeepsDevice'
<1> SUFFICES ASSUME TypeOK, CallsOK, IdsOK, RowsOK, OldOK, NewOK, SessionKeepsDevice,
                    [Next]_vars, NEW i \in Ids, row'[i] # None, row'[i].from # None
             PROVE  /\ row'[i].user = row'[row'[i].from].user
                    /\ row'[i].device = row'[row'[i].from].device
  BY DEF SessionKeepsDevice
<1>1. \A j \in Ids : row[j] # None => row'[j] = row[j]
  BY RowsKept
<1>2. CASE row[i] # None
  <2>1. row[i].from \in Ids \cup {None}
    BY <1>2 DEF TypeOK, Row
  <2>2. QED
    BY <1>1, <1>2, <2>1 DEF RowsOK, SessionKeepsDevice
<1>3. CASE row[i] = None
  <2>1. ASSUME NEW c \in Calls, CallNext(c)
        PROVE  /\ row'[i].user = row'[row'[i].from].user
               /\ row'[i].device = row'[row'[i].from].device
    <3>1. row'[i] = new[c] /\ new[c] # None /\ pc[c] = "commit"
      BY <1>3, <2>1, RowStep DEF TypeOK
    <3>2. old[c] \in Ids \cup {None}
      BY DEF TypeOK
    <3>3. QED
      BY <1>1, <3>1, <3>2 DEF NewOK, OldOK
  <2>2. CASE WorldNext
    <3>1. PICK u \in Users, d \in Devices : row'[i] = NewRow(u, d, None)
      BY <1>3, <2>2, WorldRows DEF TypeOK
    <3>2. QED
      BY <3>1 DEF NewRow
  <2>3. QED
    BY <2>1, <2>2, NextCases
<1>4. QED
  BY <1>2, <1>3

(* Of the steps of calls, only a COMMIT adds a session. *)
LEMMA TableStep ==
    ASSUME TypeOK, CallsOK, NEW c \in Calls, CallNext(c)
    PROVE  \/ table' \subseteq table
           \/ /\ Commit(c) /\ new[c] # None /\ pc[c] = "commit" /\ id[c] \in Ids
              /\ row' = [row EXCEPT ![id[c]] = new[c]]
              /\ table' = (table \ gone[c]) \cup {id[c]}
<1> USE DEF sessions, locks, call, cursor, writes, world
<1>1. CASE \/ \E u \in Users, d \in Devices : Login(c, u, d)
           \/ \E i \in Ids, d \in Devices : FindSession(c, i, d)
           \/ \E u \in Users : LogoutAll(c, u)
           \/ DeleteExpired(c)
  BY <1>1 DEF Login, FindSession, LogoutAll, DeleteExpired, Clear
<1>2. CASE Commit(c)
  BY <1>2 DEF Commit, CallsOK, Creating, Steps
<1>3. CASE \/ ValidateSession(c) \/ DiscardSession(c) \/ BeginTransaction(c)
           \/ DeleteReplaced(c) \/ LockUser(c) \/ CountActive(c)
           \/ FindEarliestActive(c) \/ DeleteEarliest(c) \/ InsertSession(c)
           \/ (\E i \in Ids : Reach(c, i)) \/ ClearRow(c) \/ Crash(c)
  BY <1>3
  DEF ValidateSession, DiscardSession, BeginTransaction, DeleteReplaced, LockUser,
      CountActive, FindEarliestActive, DeleteEarliest, InsertSession, Reach, ClearRow,
      Crash
<1>4. QED
  BY <1>1, <1>2, <1>3 DEF CallNext, Step

LEMMA StepHasUser ==
    TypeOK /\ CallsOK /\ IdsOK /\ NewOK /\ UsersOK /\ SessionHasUser /\ [Next]_vars
        => SessionHasUser'
<1> SUFFICES ASSUME TypeOK, CallsOK, IdsOK, NewOK, UsersOK, SessionHasUser, [Next]_vars,
                    NEW i \in table'
             PROVE  status'[row'[i].user] \in {"live", "deleted"}
  BY DEF SessionHasUser
<1>1. \A j \in table : row'[j] = row[j] /\ row[j].user \in Users
  BY RowsKept DEF TypeOK, Row
<1>2. ASSUME NEW c \in Calls, CallNext(c)
      PROVE  status'[row'[i].user] \in {"live", "deleted"}
  <2>1. status' = status
    BY <1>2, CallStep
  <2>2. CASE i \in table
    BY <1>1, <2>1, <2>2 DEF SessionHasUser
  <2>3. CASE i \notin table
    <3>1. new[c] # None /\ row'[i] = new[c]
      BY <1>2, <2>3, TableStep DEF TypeOK
    <3>2. QED
      BY <2>1, <3>1 DEF NewOK, UsersOK
  <2>4. QED
    BY <2>2, <2>3
<1>3. CASE WorldNext
  <2>1. CASE i \in table
    <3>1. status[row[i].user] \in {"live", "deleted"}
      BY <2>1 DEF SessionHasUser
    <3>2. HardDelete(row[i].user) => i \notin table'
      BY <2>1 DEF HardDelete
    <3>3. QED
      BY <1>1, <1>3, <2>1, <3>1, <3>2, WorldStatus
  <2>2. CASE i \notin table
    <3>1. PICK u \in Users, d \in Devices :
              Register(u, d) /\ row'[i] = NewRow(u, d, None)
      BY <1>3, <2>2, WorldRows DEF TypeOK
    <3>2. status'[u] = "live"
      BY <3>1 DEF Register, TypeOK
    <3>3. QED
      BY <3>1, <3>2 DEF NewRow
  <2>3. QED
    BY <2>1, <2>2
<1>4. QED
  BY <1>2, <1>3, NextCases

-----------------------------------------------------------------------------
(* The theorems that need no more than this. *)

LEMMA InitInd == Init => IndInv
<1> SUFFICES ASSUME Init PROVE IndInv
  OBVIOUS
<1>1. TypeOK
  BY Numbers, UsersAssumption DEF Init, TypeOK, Steps
<1>2. QED
  BY <1>1
  DEF Init, IndInv, CallsOK, IdsOK, RowsOK, OldOK, NewOK, UsersOK, Creating,
      SessionKeepsDevice, SessionHasUser

LEMMA StepInd == IndInv /\ [Next]_vars => IndInv'
BY StepType, StepCalls, StepIds, StepRows, StepOld, StepNew, StepUsers, StepDevice,
   StepHasUser
DEF IndInv

LEMMA Inductive == Spec => []IndInv
BY InitInd, StepInd, PTL DEF Spec

(* All variables, the pending writes and the clock among them, stay within  *)
(* their types; that new rows fit is what needs the proof.                 *)
THEOREM TypeCorrect == Spec => []TypeOK
<1>1. IndInv => TypeOK
  BY DEF IndInv
<1>2. QED
  BY <1>1, Inductive, PTL

(* However refreshes, replayed tokens and logouts interleave: a chain of    *)
(* sessions stays on the device and with the user it started from.         *)
THEOREM ChainsKeepTheirDevice == Spec => []SessionKeepsDevice
<1>1. IndInv => SessionKeepsDevice
  BY DEF IndInv
<1>2. QED
  BY <1>1, Inductive, PTL

(* A login or refresh that was under way when its user was deleted, or      *)
(* purged, leaves no session behind.                                       *)
THEOREM NoSessionWithoutUser == Spec => []SessionHasUser
<1>1. IndInv => SessionHasUser
  BY DEF IndInv
<1>2. QED
  BY <1>1, Inductive, PTL

-----------------------------------------------------------------------------
(* The limit of sessions. *)

LEMMA SessionsFinite ==
    ASSUME TypeOK, NEW u
    PROVE  /\ IsFiniteSet(SessionsOf(u)) /\ Cardinality(SessionsOf(u)) \in Nat
           /\ SessionsOf(u) \subseteq table /\ SessionsOf(u) \subseteq Ids
<1>1. IsFiniteSet(Ids)
  BY FS_Interval, SessionsAssumption DEF Ids
<1>2. SessionsOf(u) \in SUBSET Ids /\ SessionsOf(u) \subseteq table
  BY DEF SessionsOf, TypeOK
<1>3. IsFiniteSet(SessionsOf(u))
  BY <1>1, <1>2, FS_Subset
<1>4. QED
  BY <1>2, <1>3, FS_CardinalityType

LEMMA CardinalityMonotone ==
    ASSUME NEW S, NEW T, IsFiniteSet(S), T \subseteq S
    PROVE  /\ IsFiniteSet(T) /\ Cardinality(T) <= Cardinality(S)
           /\ Cardinality(T) \in Nat /\ Cardinality(S) \in Nat
BY FS_Subset, FS_CardinalityType

(* Only whom nobody has locked can be locked. *)
LEMMA LockStep ==
    ASSUME TypeOK, CallsOK, NEW c \in Calls, CallNext(c)
    PROVE  /\ \A u \in Users : userLock[u] \notin {None, c} => userLock'[u] = userLock[u]
           /\ pc'[c] \in Locked =>
                 \/ LockUser(c)
                 \/ pc[c] \in Locked /\ UNCHANGED <<userLock, user, status>>
<1> USE DEF sessions, locks, call, cursor, writes, world
<1>1. CASE \/ \E u \in Users, d \in Devices : Login(c, u, d)
           \/ \E i \in Ids, d \in Devices : FindSession(c, i, d)
           \/ \E u \in Users : LogoutAll(c, u)
           \/ DeleteExpired(c)
  BY <1>1 DEF Login, FindSession, LogoutAll, DeleteExpired, Clear, Go, TypeOK, Locked
<1>2. CASE ValidateSession(c) \/ BeginTransaction(c) \/ DeleteReplaced(c)
  BY <1>2 DEF ValidateSession, BeginTransaction, DeleteReplaced, Go, TypeOK, Locked
<1>3. CASE CountActive(c) \/ FindEarliestActive(c) \/ DeleteEarliest(c)
  BY <1>3
  DEF CountActive, FindEarliestActive, DeleteEarliest, Go, TypeOK, Locked
<1>4. CASE LockUser(c)
  BY <1>4 DEF LockUser, FreeFor, TypeOK
<1>5. ASSUME Finish(c)
      PROVE  /\ pc'[c] \notin Locked
             /\ \A u \in Users :
                   userLock[u] \notin {None, c} => userLock'[u] = userLock[u]
  BY <1>5, FinishCall DEF Finish, Locked, TypeOK
<1>6. CASE InsertSession(c)
  BY <1>5, <1>6 DEF InsertSession, Locked
<1>7. CASE DiscardSession(c) \/ Commit(c) \/ Crash(c)
  BY <1>5, <1>7 DEF DiscardSession, Commit, Crash
<1>8. CASE (\E i \in Ids : Reach(c, i)) \/ ClearRow(c)
  BY <1>8 DEF Reach, ClearRow, Locked
<1>9. QED
  BY <1>1, <1>2, <1>3, <1>4, <1>6, <1>7, <1>8 DEF CallNext, Step

(* Who has a call and is live was live before. *)
LEMMA LiveBefore ==
    ASSUME IndInv, [Next]_vars, NEW u \in Users, status[u] # "absent", status'[u] = "live"
    PROVE  status[u] = "live"
BY NextCases, CallStep, WorldStatus DEF IndInv

LEMMA StepLock == IndInv /\ LockOK /\ [Next]_vars => LockOK'
<1> SUFFICES ASSUME IndInv, LockOK, [Next]_vars, NEW c \in Calls,
                    pc'[c] \in Locked, status'[user'[c]] = "live"
             PROVE  userLock'[user'[c]] = c
  BY DEF LockOK, Live
<1> USE DEF IndInv
<1>1. pc[c] \in Locked => pc[c] \in Creating /\ user[c] \in Users
  BY DEF Locked, Creating, Steps, CallsOK
<1>2. ASSUME pc[c] \in Locked, user'[c] = user[c] PROVE userLock[user[c]] = c
  BY <1>1, <1>2, LiveBefore DEF LockOK, Live, UsersOK
<1>3. ASSUME NEW d \in Calls, CallNext(d), d # c PROVE userLock'[user'[c]] = c
  <2>1. pc[c] \in Locked /\ user'[c] = user[c]
    BY <1>3, OthersKept
  <2>2. userLock[user[c]] = c /\ c # None /\ user[c] \in Users
    BY <1>1, <1>2, <2>1, SessionsAssumption
  <2>3. QED
    BY <1>3, <2>1, <2>2, LockStep
<1>4. CASE CallNext(c)
  <2>1. CASE LockUser(c)
    <3>1. pc[c] = "lock" /\ user' = user /\ status' = status
      BY <2>1 DEF LockUser, call, world
    <3>2. user[c] \in Users
      BY <3>1 DEF CallsOK, Creating, Steps
    <3>3. QED
      BY <2>1, <3>1, <3>2 DEF LockUser, Live, TypeOK
  <2>2. CASE pc[c] \in Locked /\ UNCHANGED <<userLock, user, status>>
    BY <1>2, <2>2
  <2>3. QED
    BY <1>4, <2>1, <2>2, LockStep
<1>5. CASE WorldNext
  BY <1>2, <1>5, WorldKeepsCalls DEF call, locks
<1>6. QED
  BY <1>3, <1>4, <1>5, NextCases

(* What has not expired had not expired before. *)
LEMMA ExpiredBefore ==
    ASSUME IndInv, [Next]_vars, NEW u, NoneExpired(u)'
    PROVE  NoneExpired(u)
<1> SUFFICES ASSUME NEW i \in Ids, row[i] # None, row[i].user = u
             PROVE  ExpiresAt(row[i]) > now
  BY DEF NoneExpired
<1>1. row'[i] = row[i]
  BY RowsKept DEF IndInv
<1>2. ExpiresAt(row[i]) > now' /\ ExpiresAt(row[i]) \in Nat
  BY <1>1, Numbers DEF NoneExpired, ExpiresAt, IndInv, TypeOK
<1>3. QED
  BY <1>2, NowAndRows DEF IndInv

(* A user gets a session by a COMMIT, or when registered. *)
LEMMA SessionsStep ==
    ASSUME IndInv, [Next]_vars, NEW u \in Users
    PROVE  /\ \A c \in Calls : CallNext(c) =>
                 \/ SessionsOf(u)' \subseteq SessionsOf(u)
                 \/ /\ pc[c] = "commit" /\ user[c] = u
                    /\ SessionsOf(u)' = (SessionsOf(u) \ gone[c]) \cup {id[c]}
           /\ WorldNext =>
                 \/ SessionsOf(u)' \subseteq SessionsOf(u)
                 \/ status[u] = "absent" /\ \E i \in Ids : SessionsOf(u)' = {i}
<1> USE DEF IndInv
<1>1. \A i \in table : i \in Ids /\ row[i] # None /\ row'[i] = row[i]
  BY RowsKept DEF TypeOK
<1>2. SessionsOf(u)' = {i \in table' : row'[i].user = u}
  BY DEF SessionsOf
<1>3. ASSUME NEW c \in Calls, CallNext(c)
      PROVE  \/ SessionsOf(u)' \subseteq SessionsOf(u)
             \/ /\ pc[c] = "commit" /\ user[c] = u
                /\ SessionsOf(u)' = (SessionsOf(u) \ gone[c]) \cup {id[c]}
  <2>1. CASE table' \subseteq table
    BY <1>1, <1>2, <2>1 DEF SessionsOf
  <2>2. CASE /\ new[c] # None /\ pc[c] = "commit" /\ id[c] \in Ids
             /\ row' = [row EXCEPT ![id[c]] = new[c]]
             /\ table' = (table \ gone[c]) \cup {id[c]}
    <3>1. row'[id[c]].user = user[c]
      BY <2>2 DEF NewOK, TypeOK
    <3>2. CASE user[c] = u
      BY <1>1, <1>2, <2>2, <3>1, <3>2 DEF SessionsOf
    <3>3. CASE user[c] # u
      BY <1>1, <1>2, <2>2, <3>1, <3>3 DEF SessionsOf
    <3>4. QED
      BY <3>2, <3>3
  <2>3. QED
    BY <1>3, <2>1, <2>2, TableStep
<1>4. ASSUME WorldNext
      PROVE  \/ SessionsOf(u)' \subseteq SessionsOf(u)
             \/ status[u] = "absent" /\ \E i \in Ids : SessionsOf(u)' = {i}
  <2>1. CASE row' = row /\ table' \subseteq table
    BY <1>2, <2>1 DEF SessionsOf
  <2>2. ASSUME NEW w \in Users, NEW d \in Devices, NEW i \in Ids, Register(w, d),
               row' = [row EXCEPT ![i] = NewRow(w, d, None)], table' = table \cup {i}
        PROVE  \/ SessionsOf(u)' \subseteq SessionsOf(u)
               \/ status[u] = "absent" /\ SessionsOf(u)' = {i}
    <3>1. row'[i].user = w /\ status[w] = "absent"
      BY <2>2 DEF NewRow, TypeOK, Register
    <3>2. CASE w = u
      <4>1. \A j \in table : row[j].user # u
        BY <3>1, <3>2 DEF SessionHasUser
      <4>2. QED
        BY <1>1, <1>2, <2>2, <3>1, <3>2, <4>1
    <3>3. CASE w # u
      BY <1>1, <1>2, <2>2, <3>1, <3>3 DEF SessionsOf
    <3>4. QED
      BY <3>2, <3>3
  <2>3. QED
    BY <1>4, <2>1, <2>2, WorldRows
<1>5. QED
  BY <1>3, <1>4

(* While none has expired, the active sessions are all there are. *)
LEMMA ActiveIsAll ==
    ASSUME IndInv, NEW c \in Calls, Live(user[c]), NoneExpired(user[c])
    PROVE  Active(c) = SessionsOf(user[c]) \ gone[c]
<1> USE DEF IndInv
<1>1. start[c] <= now /\ start[c] \in Nat /\ now \in Nat
  BY Numbers DEF CallsOK, TypeOK
<1>2. ASSUME NEW i \in table, row[i].user = user[c] PROVE ExpiresAt(row[i]) > start[c]
  <2>1. i \in Ids /\ row[i] \in Row
    BY DEF TypeOK
  <2>2. ExpiresAt(row[i]) > now /\ ExpiresAt(row[i]) \in Nat
    BY <1>2, <2>1, Numbers, UsersAssumption DEF NoneExpired
  <2>3. QED
    BY <1>1, <2>2
<1>3. QED
  BY <1>2 DEF Active, SessionsOf

(* Two calls do not create sessions of one live user at once. *)
LEMMA OneCreates ==
    ASSUME IndInv, LockOK, NEW c \in Calls, NEW d \in Calls,
           pc[c] \in Locked, pc[d] \in Locked, user[c] = user[d], Live(user[c])
    PROVE  c = d
BY DEF LockOK

LEMMA StepRoom == LimitInv /\ [Next]_vars => RoomOK'
<1> SUFFICES ASSUME LimitInv, [Next]_vars, NEW c \in Calls, NEW u \in Users,
                    user'[c] = u, pc'[c] \in Locked, status'[u] = "live", NoneExpired(u)'
             PROVE  /\ pc'[c] \in {"insert", "commit"} =>
                          Cardinality(SessionsOf(u)' \ gone'[c]) < MaxUserSessions
                    /\ pc'[c] = "evict" =>
                          Cardinality(SessionsOf(u)' \ (gone'[c] \cup {at'[c]}))
                              < MaxUserSessions
  <2>1. ASSUME LimitInv, [Next]_vars, NEW c \in Calls, pc'[c] \in Locked
        PROVE  user'[c] \in Users
    BY <2>1, StepCalls DEF LimitInv, IndInv, CallsOK, Locked, Creating, Steps
  <2>2. QED
    BY <2>1 DEF RoomOK, Live, SessionsOf, NoneExpired
<1> USE DEF LimitInv, IndInv
<1>0. /\ NoneExpired(u) /\ IsFiniteSet(SessionsOf(u)) /\ MaxUserSessions \in Nat \ {0}
      /\ Cardinality(SessionsOf(u)) \in Nat
  BY ExpiredBefore, SessionsFinite, SessionsAssumption
<1>1. ASSUME pc[c] \in Locked, user[c] = u
      PROVE  /\ status[u] = "live" /\ Live(user[c]) /\ userLock[u] = c
             /\ Cardinality(SessionsOf(u)) <= MaxUserSessions
             /\ pc[c] \in {"insert", "commit"} =>
                   Cardinality(SessionsOf(u) \ gone[c]) < MaxUserSessions
             /\ pc[c] = "evict" =>
                   Cardinality(SessionsOf(u) \ (gone[c] \cup {at[c]})) < MaxUserSessions
  <2>1. status[u] # "absent"
    BY <1>1 DEF UsersOK, Locked, Creating, Steps
  <2>2. status[u] = "live"
    BY <2>1, LiveBefore
  <2>3. QED
    BY <1>0, <1>1, <2>2 DEF LockOK, RoomOK, AtMostMaxSessions, Live
<1>2. ASSUME pc[c] \in Locked, user[c] = u, pc'[c] = pc[c], gone'[c] = gone[c],
             at'[c] = at[c], SessionsOf(u)' \subseteq SessionsOf(u)
      PROVE  /\ pc'[c] \in {"insert", "commit"} =>
                   Cardinality(SessionsOf(u)' \ gone'[c]) < MaxUserSessions
             /\ pc'[c] = "evict" =>
                   Cardinality(SessionsOf(u)' \ (gone'[c] \cup {at'[c]})) < MaxUserSessions
  <2>1. ASSUME NEW X
        PROVE  /\ Cardinality(SessionsOf(u)' \ X) <= Cardinality(SessionsOf(u) \ X)
               /\ Cardinality(SessionsOf(u)' \ X) \in Nat
               /\ Cardinality(SessionsOf(u) \ X) \in Nat
    <3>1. IsFiniteSet(SessionsOf(u) \ X)
      BY <1>0, CardinalityMonotone
    <3>2. SessionsOf(u)' \ X \subseteq SessionsOf(u) \ X
      BY <1>2
    <3>3. QED
      BY <3>1, <3>2, CardinalityMonotone
  <2>2. /\ Cardinality(SessionsOf(u)' \ gone[c]) <= Cardinality(SessionsOf(u) \ gone[c])
        /\ Cardinality(SessionsOf(u)' \ gone[c]) \in Nat
        /\ Cardinality(SessionsOf(u) \ gone[c]) \in Nat
    BY <2>1
  <2>3. LET X == gone[c] \cup {at[c]} IN
        /\ Cardinality(SessionsOf(u)' \ X) <= Cardinality(SessionsOf(u) \ X)
        /\ Cardinality(SessionsOf(u)' \ X) \in Nat
        /\ Cardinality(SessionsOf(u) \ X) \in Nat
    BY <2>1
  <2>4. QED
    BY <1>0, <1>1, <1>2, <2>2, <2>3
<1>3. ASSUME NEW d \in Calls, CallNext(d), d # c
      PROVE  /\ pc[c] \in Locked /\ user[c] = u /\ pc'[c] = pc[c] /\ gone'[c] = gone[c]
             /\ at'[c] = at[c] /\ SessionsOf(u)' \subseteq SessionsOf(u)
  <2>1. pc[c] \in Locked /\ user[c] = u /\ UNCHANGED <<pc[c], gone[c], at[c]>>
    BY <1>3, OthersKept
  <2>2. ~(pc[d] = "commit" /\ user[d] = u)
    BY <1>1, <1>3, <2>1, OneCreates DEF Locked
  <2>3. QED
    BY <1>3, <2>1, <2>2, SessionsStep
<1>4. CASE WorldNext
  <2>1. pc[c] \in Locked /\ user[c] = u /\ UNCHANGED <<pc[c], gone[c], at[c]>>
    BY <1>4, WorldKeepsCalls DEF call, cursor, writes
  <2>2. SessionsOf(u)' \subseteq SessionsOf(u)
    BY <1>1, <1>4, <2>1, SessionsStep
  <2>3. QED
    BY <1>2, <2>1, <2>2
<1>5. CASE CallNext(c)
  <2> USE DEF sessions, locks, call, cursor, writes, world
  <2>1. CASE LockUser(c)
    BY <2>1 DEF LockUser, Go, TypeOK
  <2>2. ASSUME pc[c] \in Locked, UNCHANGED <<userLock, user, status>>,
               UNCHANGED <<table, row>>
        PROVE  /\ user[c] = u /\ Live(u) /\ SessionsOf(u)' = SessionsOf(u)
               /\ Active(c) = SessionsOf(u) \ gone[c]
    BY <1>0, <1>1, <2>2, ActiveIsAll DEF SessionsOf
  <2>3. CASE CountActive(c)
    <3>1. pc[c] \in Locked /\ UNCHANGED <<userLock, user, status, table, row, gone>>
      BY <2>3 DEF CountActive, Locked
    <3>2. Active(c) = SessionsOf(u) \ gone[c] /\ SessionsOf(u)' = SessionsOf(u)
      BY <2>2, <3>1
    <3>3. Cardinality(Active(c)) \in Nat
      BY <1>0, <3>2, CardinalityMonotone
    <3>4. pc'[c] = IF Cardinality(Active(c)) >= MaxUserSessions THEN "find" ELSE "insert"
      BY <2>3 DEF CountActive, Go, TypeOK
    <3>5. QED
      BY <1>0, <3>1, <3>2, <3>3, <3>4
  <2>4. CASE FindEarliestActive(c)
    <3>1. pc[c] \in Locked /\ UNCHANGED <<userLock, user, status, table, row, gone>>
      BY <2>4 DEF FindEarliestActive, Locked
    <3>2. /\ user[c] = u /\ Active(c) = SessionsOf(u) \ gone[c]
          /\ SessionsOf(u)' = SessionsOf(u)
      BY <2>2, <3>1
    <3>3. ASSUME NEW i \in Active(c), at'[c] = i, pc'[c] = "evict"
          PROVE  Cardinality(SessionsOf(u)' \ (gone'[c] \cup {at'[c]})) < MaxUserSessions
      <4>1. /\ IsFiniteSet(SessionsOf(u) \ {i})
            /\ Cardinality(SessionsOf(u) \ {i}) = Cardinality(SessionsOf(u)) - 1
        BY <1>0, <3>2, FS_RemoveElement
      <4>2. /\ Cardinality(SessionsOf(u) \ (gone[c] \cup {i}))
                  <= Cardinality(SessionsOf(u) \ {i})
            /\ Cardinality(SessionsOf(u) \ (gone[c] \cup {i})) \in Nat
        BY <4>1, CardinalityMonotone
      <4>3. Cardinality(SessionsOf(u)) <= MaxUserSessions
        BY <1>1, <3>1, <3>2
      <4>4. QED
        BY <1>0, <3>1, <3>2, <3>3, <4>1, <4>2, <4>3
    <3>4. CASE Active(c) = {} /\ pc'[c] = "insert"
      BY <1>0, <3>1, <3>2, <3>4, FS_EmptySet
    <3>5. \/ \E i \in Active(c) : at'[c] = i /\ pc'[c] = "evict"
          \/ Active(c) = {} /\ pc'[c] = "insert"
      BY <2>4 DEF FindEarliestActive, Go, TypeOK
    <3>6. QED
      BY <3>3, <3>4, <3>5
  <2>5. CASE DeleteEarliest(c)
    <3>1. /\ pc[c] \in Locked /\ pc[c] = "evict" /\ pc'[c] = "insert"
          /\ UNCHANGED <<userLock, user, status, table, row>>
      BY <2>5 DEF DeleteEarliest, Locked, Go, TypeOK
    <3>2. /\ user[c] = u /\ SessionsOf(u)' = SessionsOf(u)
      BY <2>2, <3>1
    <3>3. SessionsOf(u) \ gone'[c] = SessionsOf(u) \ (gone[c] \cup {at[c]})
      <4>1. CASE at[c] \in table
        BY <2>5, <4>1 DEF DeleteEarliest, DeleteRow, TypeOK
      <4>2. CASE at[c] \notin table
        BY <2>5, <4>2, SessionsFinite DEF DeleteEarliest, DeleteRow
      <4>3. QED
        BY <4>1, <4>2
    <3>4. QED
      BY <1>1, <3>1, <3>2, <3>3
  <2>6. CASE InsertSession(c)
    <3>1. pc'[c] # "idle"
      BY DEF Locked
    <3>2. /\ pc[c] = "insert" /\ pc'[c] = "commit"
          /\ UNCHANGED <<userLock, user, status, table, row, gone>>
      BY <2>6, <3>1, FinishCall DEF InsertSession, Go, TypeOK
    <3>3. user[c] = u /\ SessionsOf(u)' = SessionsOf(u)
      BY <2>2, <3>2 DEF Locked
    <3>4. QED
      BY <1>1, <3>2, <3>3 DEF Locked
  <2>7. \/ LockUser(c) \/ CountActive(c) \/ FindEarliestActive(c) \/ DeleteEarliest(c)
        \/ InsertSession(c)
    <3>1. ASSUME Finish(c) PROVE FALSE
      BY <3>1, FinishCall DEF Locked
    <3>2. QED
      BY <1>5, <3>1
      DEF CallNext, Step, Login, FindSession, LogoutAll, DeleteExpired, Clear,
          ValidateSession, DiscardSession, BeginTransaction, DeleteReplaced, Reach,
          ClearRow, Commit, Crash, Go, TypeOK, Locked
  <2>8. QED
    BY <2>1, <2>3, <2>4, <2>5, <2>6, <2>7
<1>6. QED
  BY <1>2, <1>3, <1>4, <1>5, NextCases

LEMMA StepLimit == LimitInv /\ [Next]_vars => AtMostMaxSessions'
<1> SUFFICES ASSUME LimitInv, [Next]_vars, NEW u \in Users,
                    status'[u] = "live", NoneExpired(u)'
             PROVE  Cardinality(SessionsOf(u)') <= MaxUserSessions
  BY DEF AtMostMaxSessions, Live
<1> USE DEF LimitInv, IndInv
<1>0. /\ NoneExpired(u) /\ IsFiniteSet(SessionsOf(u)) /\ MaxUserSessions \in Nat \ {0}
      /\ Cardinality(SessionsOf(u)) \in Nat
  BY ExpiredBefore, SessionsFinite, SessionsAssumption
<1>1. status[u] # "absent" =>
          status[u] = "live" /\ Cardinality(SessionsOf(u)) <= MaxUserSessions
  BY <1>0, LiveBefore DEF AtMostMaxSessions, Live
<1>2. status[u] = "absent" => SessionsOf(u) = {}
  BY DEF SessionsOf, SessionHasUser
<1>3. CASE SessionsOf(u)' \subseteq SessionsOf(u)
  <2>1. Cardinality(SessionsOf(u)) <= MaxUserSessions
    BY <1>0, <1>1, <1>2, FS_EmptySet
  <2>2. /\ Cardinality(SessionsOf(u)') <= Cardinality(SessionsOf(u))
        /\ Cardinality(SessionsOf(u)') \in Nat
    BY <1>0, <1>3, CardinalityMonotone
  <2>3. QED
    BY <1>0, <2>1, <2>2
<1>4. CASE \E i \in Ids : SessionsOf(u)' = {i}
  BY <1>0, <1>4, FS_Singleton
<1>5. ASSUME NEW c \in Calls, pc[c] = "commit", user[c] = u,
             SessionsOf(u)' = (SessionsOf(u) \ gone[c]) \cup {id[c]}
      PROVE  Cardinality(SessionsOf(u)') <= MaxUserSessions
  <2>1. status[u] # "absent"
    BY <1>5 DEF UsersOK, Creating, Steps
  <2>2. Cardinality(SessionsOf(u) \ gone[c]) < MaxUserSessions
    BY <1>0, <1>1, <1>5, <2>1 DEF RoomOK, Live, Locked
  <2>3. IsFiniteSet(SessionsOf(u) \ gone[c]) /\ Cardinality(SessionsOf(u) \ gone[c]) \in Nat
    BY <1>0, CardinalityMonotone
  <2>4. Cardinality((SessionsOf(u) \ gone[c]) \cup {id[c]}) =
            IF id[c] \in SessionsOf(u) \ gone[c]
            THEN Cardinality(SessionsOf(u) \ gone[c])
            ELSE Cardinality(SessionsOf(u) \ gone[c]) + 1
    BY <2>3, FS_AddElement
  <2>5. QED
    BY <1>0, <1>5, <2>2, <2>3, <2>4
<1>6. QED
  BY <1>3, <1>4, <1>5, SessionsStep, NextCases

LEMMA InitLimit == Init => LimitInv
<1> SUFFICES ASSUME Init PROVE LimitInv
  OBVIOUS
<1>1. \A u : SessionsOf(u) = {}
  BY DEF Init, SessionsOf
<1>2. AtMostMaxSessions
  BY <1>1, FS_EmptySet, SessionsAssumption DEF AtMostMaxSessions
<1>3. QED
  BY <1>2, InitInd DEF Init, LimitInv, LockOK, RoomOK, Locked

LEMMA StepLimitInv == LimitInv /\ [Next]_vars => LimitInv'
BY StepInd, StepLock, StepRoom, StepLimit DEF LimitInv

LEMMA LimitInductive == Spec => []LimitInv
BY InitLimit, StepLimitInv, PTL DEF Spec

(* However many logins and refreshes of one user run at once, and whatever  *)
(* fails: while none of the user's sessions has expired, there are no more  *)
(* of them than maxUserSessions.                                           *)
THEOREM LimitIsKept == Spec => []AtMostMaxSessions
<1>1. LimitInv => AtMostMaxSessions
  BY DEF LimitInv
<1>2. QED
  BY <1>1, LimitInductive, PTL

-----------------------------------------------------------------------------
(* The session that makes room. *)

(* What a step of c may have done to its gone and at. *)
LEMMA EvictStep ==
    ASSUME TypeOK, CallsOK, NEW c \in Calls, CallNext(c), pc'[c] \in Creating
    PROVE  /\ UNCHANGED <<table, row, now>>
           /\ \/ pc[c] = "idle" /\ gone'[c] = {} /\ pc'[c] \in {"begin", "validate"}
              \/ /\ pc[c] \in Creating /\ UNCHANGED <<user, old>>
                 /\ \/ /\ gone' = gone /\ pc[c] \notin {"evict", "insert", "commit"}
                       /\ pc'[c] \notin {"evict", "insert", "commit"}
                    \/ /\ gone'[c] \subseteq gone[c] \cup {old[c]}
                       /\ pc[c] = "replace" /\ pc'[c] = "lock"
                    \/ gone' = gone /\ pc[c] \in {"count", "find"} /\ pc'[c] = "insert"
                    \/ /\ gone' = gone /\ pc'[c] = "evict" /\ FindEarliestActive(c)
                       /\ at'[c] \in Active(c)
                       /\ \A j \in Active(c) :
                             row[at'[c]].createdAt <= row[j].createdAt
                    \/ /\ pc[c] = "evict" /\ pc'[c] = "insert"
                       /\ gone[c] \subseteq gone'[c]
                       /\ gone'[c] \subseteq gone[c] \cup {at[c]}
                    \/ gone' = gone /\ pc[c] = "insert" /\ pc'[c] = "commit"
<1> USE DEF sessions, locks, call, cursor, writes, world
<1>1. ASSUME Finish(c) PROVE FALSE
  BY <1>1, FinishCall DEF Creating
<1>2. CASE \/ \E u \in Users, d \in Devices : Login(c, u, d)
           \/ \E i \in Ids, d \in Devices : FindSession(c, i, d)
  BY <1>2 DEF Login, FindSession, Go, TypeOK, CallsOK
<1>3. CASE ValidateSession(c) \/ BeginTransaction(c) \/ LockUser(c)
  BY <1>3 DEF ValidateSession, BeginTransaction, LockUser, Go, TypeOK, Creating, Steps
<1>4. CASE DeleteReplaced(c)
  BY <1>4 DEF DeleteReplaced, DeleteRow, Go, TypeOK, Creating, Steps
<1>5. CASE CountActive(c)
  BY <1>5 DEF CountActive, Go, TypeOK, Creating, Steps
<1>6. CASE FindEarliestActive(c)
  BY <1>6 DEF FindEarliestActive, Go, TypeOK, Creating, Steps
<1>7. CASE DeleteEarliest(c)
  BY <1>7 DEF DeleteEarliest, DeleteRow, Go, TypeOK, Creating, Steps
<1>8. CASE InsertSession(c)
  BY <1>1, <1>8 DEF InsertSession, Go, TypeOK, Creating, Steps
<1>9. QED
  BY <1>1, <1>2, <1>3, <1>4, <1>5, <1>6, <1>7, <1>8
  DEF CallNext, Step, LogoutAll, DeleteExpired, Clear, DiscardSession, Reach, ClearRow,
      Commit, Crash, Go, TypeOK, Creating

LEMMA EarliestKept ==
    ASSUME IndInv, [Next]_vars, NEW c \in Calls, NEW e \in Ids, Earliest(c, e),
           pc[c] \in Creating, pc'[c] \in Creating, user'[c] = user[c],
           gone[c] \subseteq gone'[c]
    PROVE  Earliest(c, e)'
<1> USE DEF IndInv
<1>0. /\ row[e] # None /\ row[e].user = user[c] /\ row'[e] = row[e]
      /\ row[e].createdAt \in Nat /\ row[e].createdAt <= now
      /\ now <= now' /\ now \in Nat /\ now' \in Nat
  BY RowsKept, NowAndRows, Numbers DEF Earliest, TypeOK, RowsOK
<1>1. ASSUME NEW j \in table' \ gone'[c], row'[j].user = user[c], ExpiresAt(row'[j]) > now'
      PROVE  row'[j].createdAt >= row[e].createdAt
  <2>1. CASE j \in table
    <3>1. j \in Ids /\ row'[j] = row[j] /\ row[j] \in Row
      BY <2>1, RowsKept DEF TypeOK
    <3>2. ExpiresAt(row[j]) > now
      BY <1>0, <1>1, <3>1, Numbers
    <3>3. j \notin gone[c]
      BY <1>1
    <3>4. QED
      BY <1>1, <2>1, <3>1, <3>2, <3>3 DEF Earliest
  <2>2. ASSUME j \notin table, NEW d \in Calls, CallNext(d)
        PROVE  row'[j].createdAt >= row[e].createdAt
    <3>1. Commit(d) /\ new[d] # None /\ row'[j] = new[d]
      BY <2>2, TableStep DEF TypeOK
    <3>2. d # c
      BY <3>1, FinishCall DEF Commit, Creating
    <3>3. user[d] = user[c]
      BY <1>1, <3>1 DEF NewOK
    <3>4. QED
      BY <3>1, <3>2, <3>3 DEF Earliest
  <2>3. ASSUME j \notin table, WorldNext PROVE FALSE
    <3>1. PICK u \in Users, d \in Devices :
              Register(u, d) /\ row'[j] = NewRow(u, d, None)
      BY <2>3, WorldRows DEF TypeOK
    <3>2. status[user[c]] = "absent"
      BY <1>1, <3>1 DEF NewRow, Register
    <3>3. QED
      BY <3>2 DEF UsersOK
  <2>4. QED
    BY <2>1, <2>2, <2>3, NextCases
<1>2. ASSUME NEW d \in Calls \ {c}, new'[d] # None, user'[d] = user[c]
      PROVE  new'[d].createdAt >= row[e].createdAt
  <2>1. CASE UNCHANGED <<new[d], user[d]>>
    BY <1>2, <2>1 DEF Earliest
  <2>2. CASE CallNext(d)
    <3>1. new'[d] = NewRow(user[d], device[d], old[d])
      BY <1>2, <2>2, CallStep
    <3>2. new'[d].createdAt = now
      BY <3>1 DEF NewRow
    <3>3. QED
      BY <1>0, <3>2
  <2>3. CASE WorldNext
    BY <2>1, <2>3, WorldKeepsCalls DEF call, writes
  <2>4. QED
    BY <2>1, <2>2, <2>3, OthersKept, NextCases
<1>3. QED
  BY <1>0, <1>1, <1>2 DEF Earliest

LEMMA StepEvict == IndInv /\ LockOK /\ EvictOK /\ [Next]_vars => EvictOK'
<1> SUFFICES ASSUME IndInv, LockOK, EvictOK, [Next]_vars, NEW c \in Calls,
                    pc'[c] \in Creating
             PROVE  /\ pc'[c] \notin {"insert", "commit"} => gone'[c] \subseteq {old'[c]}
                    /\ pc'[c] = "evict" => Earliest(c, at[c])'
                    /\ pc'[c] \in {"insert", "commit"} =>
                          \E e \in Ids \cup {None} :
                              /\ gone'[c] \subseteq {old'[c], e}
                              /\ e # None => Earliest(c, e)'
  BY DEF EvictOK, Creating, Steps
<1> USE DEF IndInv
<1>1. ASSUME UNCHANGED <<pc[c], gone[c], old[c], at[c], user[c]>>
      PROVE  /\ pc'[c] \notin {"insert", "commit"} => gone'[c] \subseteq {old'[c]}
             /\ pc'[c] = "evict" => Earliest(c, at[c])'
             /\ pc'[c] \in {"insert", "commit"} =>
                   \E e \in Ids \cup {None} :
                       gone'[c] \subseteq {old'[c], e} /\ (e # None => Earliest(c, e)')
  <2>1. pc'[c] \notin {"insert", "commit"} => gone'[c] \subseteq {old'[c]}
    BY <1>1 DEF EvictOK
  <2>2. ASSUME pc'[c] = "evict" PROVE Earliest(c, at[c])'
    <3>1. at[c] \in Ids /\ Earliest(c, at[c])
      BY <1>1, <2>2 DEF CallsOK, EvictOK
    <3>2. PICK e \in Ids : e = at[c] /\ Earliest(c, e)
      BY <3>1
    <3>3. Earliest(c, e)'
      BY <1>1, <3>2, EarliestKept
    <3>4. QED
      BY <1>1, <3>2, <3>3 DEF Earliest
  <2>3. ASSUME pc'[c] \in {"insert", "commit"}
        PROVE  \E e \in Ids \cup {None} :
                   gone'[c] \subseteq {old'[c], e} /\ (e # None => Earliest(c, e)')
    <3>1. PICK e \in Ids \cup {None} :
              gone[c] \subseteq {old[c], e} /\ (e # None => Earliest(c, e))
      BY <1>1, <2>3 DEF EvictOK
    <3>2. e # None => Earliest(c, e)'
      BY <1>1, <3>1, EarliestKept
    <3>3. QED
      BY <1>1, <3>1, <3>2
  <2>4. QED
    BY <2>1, <2>2, <2>3
<1>2. ASSUME NEW d \in Calls, CallNext(d), d # c
      PROVE  UNCHANGED <<pc[c], gone[c], old[c], at[c], user[c]>>
  BY <1>2, OthersKept
<1>3. CASE WorldNext
  BY <1>1, <1>3, WorldKeepsCalls DEF call, cursor, writes
<1>4. CASE CallNext(c)
  <2>1. CASE pc[c] = "idle" /\ gone'[c] = {} /\ pc'[c] \in {"begin", "validate"}
    BY <2>1
  <2>2. CASE /\ pc[c] \in Creating /\ UNCHANGED <<user, old>>
             /\ pc[c] \notin {"evict", "insert", "commit"}
             /\ pc'[c] \notin {"evict", "insert", "commit"}
             /\ gone'[c] \subseteq gone[c] \cup {old[c]}
    BY <2>2 DEF EvictOK, Creating
  <2>3. CASE /\ UNCHANGED <<user, old, gone>>
             /\ pc[c] \in {"count", "find"} /\ pc'[c] = "insert"
    <3>1. gone'[c] \subseteq {old'[c], None}
      BY <2>3 DEF EvictOK, Creating, Steps
    <3>2. QED
      BY <2>3, <3>1
  <2>4. CASE /\ UNCHANGED <<user, old, gone, table, row, now>> /\ pc'[c] = "evict"
             /\ FindEarliestActive(c) /\ at'[c] \in Active(c)
             /\ \A j \in Active(c) : row[at'[c]].createdAt <= row[j].createdAt
    <3> DEFINE i == at'[c]
    <3>1. pc[c] = "find" /\ pc[c] \in Locked
      BY <2>4 DEF FindEarliestActive, Locked
    <3>2. /\ i \in table /\ row[i] # None /\ row[i].user = user[c]
          /\ Live(user[c]) /\ row[i].createdAt \in Nat
      BY <2>4, Numbers DEF Active, TypeOK
    <3>3. ASSUME NEW j \in table \ gone[c], row[j].user = user[c], ExpiresAt(row[j]) > now
          PROVE  row[j].createdAt >= row[i].createdAt
      <4>1. j \in Ids /\ row[j] \in Row /\ start[c] <= now /\ start[c] \in Nat
            /\ now \in Nat
        BY Numbers DEF TypeOK, CallsOK
      <4>2. row[j].createdAt \in Nat /\ ExpiresAt(row[j]) \in Nat
        BY <4>1, Numbers
      <4>3. ExpiresAt(row[j]) > start[c]
        BY <3>3, <4>1, <4>2
      <4>4. j \in Active(c)
        BY <3>2, <3>3, <4>3 DEF Active
      <4>5. QED
        BY <2>4, <3>2, <4>2, <4>4
    <3>4. ASSUME NEW d \in Calls \ {c}, new'[d] # None, user'[d] = user[c] PROVE FALSE
      <4>1. new[d] # None /\ user[d] = user[c]
        BY <1>4, <3>4, OthersKept
      <4>2. pc[d] \in Locked
        BY <4>1 DEF CallsOK, Locked
      <4>3. QED
        BY <3>1, <3>2, <4>1, <4>2, OneCreates
    <3>5. Earliest(c, at[c])'
      BY <2>4, <3>2, <3>3, <3>4 DEF Earliest
    <3>6. gone'[c] \subseteq {old'[c]}
      BY <2>4, <3>1 DEF EvictOK, Creating, Steps
    <3>7. QED
      BY <2>4, <3>5, <3>6
  <2>5. CASE /\ UNCHANGED <<user, old>> /\ pc[c] = "evict" /\ pc'[c] = "insert"
             /\ gone[c] \subseteq gone'[c] /\ gone'[c] \subseteq gone[c] \cup {at[c]}
    <3>1. at[c] \in Ids /\ Earliest(c, at[c]) /\ gone[c] \subseteq {old[c]}
      BY <2>5 DEF CallsOK, EvictOK, Creating, Steps
    <3>2. PICK e \in Ids : e = at[c] /\ Earliest(c, e)
      BY <3>1
    <3>3. Earliest(c, e)'
      BY <2>5, <3>2, EarliestKept DEF Creating, Steps
    <3>4. gone'[c] \subseteq {old'[c], e}
      BY <2>5, <3>1, <3>2
    <3>5. QED
      BY <2>5, <3>3, <3>4
  <2>6. CASE UNCHANGED <<user, old, gone>> /\ pc[c] = "insert" /\ pc'[c] = "commit"
    <3>1. PICK e \in Ids \cup {None} :
              gone[c] \subseteq {old[c], e} /\ (e # None => Earliest(c, e))
      BY <2>6 DEF EvictOK
    <3>2. e # None => Earliest(c, e)'
      BY <2>6, <3>1, EarliestKept DEF Creating, Steps
    <3>3. QED
      BY <2>6, <3>1, <3>2
  <2>7. QED
    BY <1>4, <2>1, <2>2, <2>3, <2>4, <2>5, <2>6, EvictStep
<1>5. QED
  BY <1>1, <1>2, <1>3, <1>4, NextCases

LEMMA EvictsStep ==
    IndInv /\ EvictOK /\ [Next]_vars =>
        \A n \in table' \ table :
            /\ Cardinality(Ended(n)) <= 1
            /\ \A i \in Ended(n), j \in table \cap table' :
                  row[j].user = row[i].user /\ ExpiresAt(row[j]) > now =>
                      row[j].createdAt >= row[i].createdAt
<1> SUFFICES ASSUME IndInv, EvictOK, [Next]_vars, NEW n \in table' \ table
             PROVE  /\ Cardinality(Ended(n)) <= 1
                    /\ \A i \in Ended(n), j \in table \cap table' :
                          row[j].user = row[i].user /\ ExpiresAt(row[j]) > now =>
                              row[j].createdAt >= row[i].createdAt
  OBVIOUS
<1> USE DEF IndInv
<1>1. CASE WorldNext
  <2>1. Ended(n) = {}
    BY <1>1, WorldRows DEF Ended
  <2>2. QED
    BY <2>1, FS_EmptySet
<1>2. ASSUME NEW c \in Calls, CallNext(c)
      PROVE  /\ Cardinality(Ended(n)) <= 1
             /\ \A i \in Ended(n), j \in table \cap table' :
                   row[j].user = row[i].user /\ ExpiresAt(row[j]) > now =>
                       row[j].createdAt >= row[i].createdAt
  <2>1. /\ new[c] # None /\ pc[c] = "commit" /\ id[c] \in Ids /\ n = id[c]
        /\ row' = [row EXCEPT ![id[c]] = new[c]]
        /\ table' = (table \ gone[c]) \cup {id[c]}
    BY <1>2, TableStep
  <2>2. row'[n].from = old[c]
    BY <2>1 DEF NewOK, TypeOK
  <2>3. PICK e \in Ids \cup {None} :
            gone[c] \subseteq {old[c], e} /\ (e # None => Earliest(c, e))
    BY <2>1 DEF EvictOK
  <2>4. Ended(n) \subseteq {e} /\ Ended(n) \subseteq Ids
    BY <2>1, <2>2, <2>3 DEF Ended, TypeOK
  <2>5. Cardinality(Ended(n)) <= 1
    <3>1. IsFiniteSet({e}) /\ Cardinality({e}) = 1
      BY FS_Singleton
    <3>2. QED
      BY <2>4, <3>1, CardinalityMonotone
  <2>6. ASSUME NEW i \in Ended(n), NEW j \in table \cap table',
               row[j].user = row[i].user, ExpiresAt(row[j]) > now
        PROVE  row[j].createdAt >= row[i].createdAt
    <3>1. i = e /\ i # None /\ Earliest(c, i)
      BY <2>3, <2>4, UsersAssumption
    <3>2. j \notin gone[c]
      BY <2>1
    <3>3. QED
      BY <2>6, <3>1, <3>2 DEF Earliest
  <2>7. QED
    BY <2>5, <2>6
<1>3. QED
  BY <1>1, <1>2, NextCases

(* However logins, refreshes and logouts interleave: a new session ends at  *)
(* most one other besides the one it replaces, and that one is the earliest *)
(* of those that could have stayed.                                        *)
THEOREM EarliestMakesRoom == Spec => EvictsTheEarliest
<1>1. Init => IndInv /\ LockOK /\ EvictOK
  BY InitInd DEF Init, LockOK, EvictOK, Locked, Creating
<1>2. IndInv /\ LockOK /\ EvictOK /\ [Next]_vars => (IndInv /\ LockOK /\ EvictOK)'
  BY StepInd, StepLock, StepEvict
<1> DEFINE Evicts ==
        \A n \in table' \ table :
            /\ Cardinality(Ended(n)) <= 1
            /\ \A i \in Ended(n), j \in table \cap table' :
                  row[j].user = row[i].user /\ ExpiresAt(row[j]) > now =>
                      row[j].createdAt >= row[i].createdAt
<1>3. IndInv /\ LockOK /\ EvictOK /\ [Next]_vars => [Evicts]_vars
  BY EvictsStep
<1>4. EvictsTheEarliest <=> [][Evicts]_vars
  BY DEF EvictsTheEarliest
<1>5. QED
  BY <1>1, <1>2, <1>3, <1>4, PTL DEF Spec
=============================================================================
