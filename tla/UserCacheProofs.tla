-------------------------- MODULE UserCacheProofs ---------------------------
(***************************************************************************)
(* Theorems about UserCache, for any readers, updates, deletes, profiles   *)
(* and times to live.                                                      *)
(***************************************************************************)
EXTENDS UserCache, TLAPS

(* Until the registration commits nobody else does anything with the user. *)
FreshOK ==
    /\ status = "absent" =>
          /\ row = NewUser /\ deposits = 0 /\ cache \in {None, NewUser}
          /\ \A c \in Calls \ {Registration} : pc[c] = "new"
    /\ pc[Registration] \in {"new", "fill", "commit"} => status = "absent"
    /\ pc[Registration] \in {"fill", "commit"} => mine[Registration] = NewUser
    /\ pc[Registration] \in {"new", "fill", "commit", "done"}

(* An update that has loaded the row knows its profile, or is known not to. *)
LoadedOK ==
    \A c \in Updates : pc[c] = "update" =>
        mine[c].profile = row.profile \/ c \in raced

IndInv ==
    /\ TypeOK /\ FreshOK /\ LoadedOK
    /\ StaleHasExcuse /\ NoDepositLost /\ MixtureNeedsRace

(* Which step of which call it is. *)
ReaderStep(c) == GetUserFromCache(c) \/ SkipCache(c) \/ Load(c)
LoadStep(c) == LoadForSave(c) \/ UpdateIsRefused(c) \/ Reread(c)
CacheStep(c) ==
    \/ SaveUserToCache(c) \/ SaveUserToCacheFails(c)
    \/ InvalidateUserCache(c) \/ InvalidateUserCacheFails(c) \/ Crash(c)

LEMMA NextCases ==
    [Next]_vars =>
        \/ SaveUser \/ CommitUser \/ ChangeBalance \/ Tick
        \/ \E c \in Readers : ReaderStep(c)
        \/ \E c \in Updates : LoadStep(c) \/ UpdateRow(c)
        \/ \E c \in Deletes : SoftDeleteUser(c)
        \/ \E c \in Calls : CacheStep(c)
        \/ UNCHANGED vars
BY DEF Next, ReaderStep, LoadStep, CacheStep

LEMMA CallKinds ==
    /\ Registration \in Calls /\ Registration \notin Readers \cup Updates \cup Deletes
    /\ Readers \subseteq Calls /\ Readers \cap (Updates \cup Deletes) = {}
    /\ Updates \subseteq Calls /\ Updates \cap Deletes = {}
    /\ Deletes \subseteq Calls
BY UserCacheAssumption DEF Calls

-----------------------------------------------------------------------------
(* Type correctness. *)

LEMMA EndType ==
    ASSUME TypeOK, NEW c \in Calls, End(c)
    PROVE  /\ pc' \in [Calls -> {"new", "load", "fill", "commit", "update", "reread",
                                 "invalidate", "done"}]
           /\ mine' \in [Calls -> Rows \cup {None}]
           /\ \A d \in Calls : pc'[d] \in {"fill", "commit", "update"} => mine'[d] # None
           /\ pc'[c] \in {"new", "done"}
           /\ \A d \in Calls \ {c} : pc'[d] = pc[d] /\ mine'[d] = mine[d]
BY DEF TypeOK, End, Go, Keep, Over

LEMMA NewUserType == NewUser \in Rows /\ NewUser # None
BY UserCacheAssumption DEF NewUser, Rows, Profiles

LEMMA WrittenType ==
    ASSUME TypeOK, NEW c \in Updates, pc[c] = "update"
    PROVE  /\ Written(c) \in Rows /\ Written(c).balance = row.balance
           /\ mine[c].profile = row.profile => Written(c).profile = Dto[c]
<1>1. mine[c] \in Rows /\ row \in Rows /\ Dto[c] \in Profiles
  BY CallKinds, UserCacheAssumption DEF TypeOK
<1>2. Written(c).profile =
        [k \in Columns |-> IF Dto[c][k] # mine[c].profile[k] THEN Dto[c][k]
                           ELSE row.profile[k]]
  BY <1>1 DEF Written, Rows
<1>3. Written(c) = [profile |-> Written(c).profile, balance |-> row.balance]
  BY <1>1 DEF Written, Rows
<1>4. Written(c).profile \in Profiles
  BY <1>1, <1>2 DEF Rows, Profiles
<1>5. mine[c].profile = row.profile => Written(c).profile = Dto[c]
  BY <1>1, <1>2 DEF Rows, Profiles
<1>6. QED
  BY <1>1, <1>3, <1>4, <1>5 DEF Rows

LEMMA TypeInd == IndInv /\ [Next]_vars => TypeOK'
<1> SUFFICES ASSUME IndInv, [Next]_vars PROVE TypeOK'
  OBVIOUS
<1> USE DEF IndInv, entry, history, Go, Keep
<1>1. CASE SaveUser
  BY <1>1, CallKinds, NewUserType DEF SaveUser, TypeOK
<1>2. CASE CommitUser
  BY <1>2, CallKinds, EndType DEF CommitUser, TypeOK
<1>3. CASE ChangeBalance
  <2>1. [row EXCEPT !.balance = @ + 1] \in Rows
    BY <1>3, UserCacheAssumption DEF ChangeBalance, TypeOK, Rows, NoDepositLost
  <2>2. QED
    BY <1>3, <2>1, UserCacheAssumption DEF ChangeBalance, TypeOK
<1>4. CASE Tick
  <2>1. ttl' \in 0 .. Ttl /\ (ttl' = 0 <=> ttl = 1) /\ cache # None
    BY <1>4, UserCacheAssumption DEF Tick, TypeOK
  <2>2. cache' \in Rows \cup {None} /\ ((cache' = None) <=> (ttl' = 0))
    BY <1>4, <2>1 DEF Tick, TypeOK
  <2>3. excuse' \subseteq {"late", "error", "balance"}
    BY <1>4 DEF Tick, TypeOK
  <2>4. QED
    BY <1>4, <2>1, <2>2, <2>3 DEF Tick, TypeOK
<1>5. ASSUME NEW c \in Readers, ReaderStep(c) PROVE TypeOK'
  <2>1. Found \in Rows \cup {None}
    BY DEF Found, TypeOK
  <2>2. c \in Calls
    BY CallKinds
  <2>3. CASE GetUserFromCache(c) \/ SkipCache(c)
    BY <2>2, <2>3 DEF GetUserFromCache, SkipCache, TypeOK
  <2>4. CASE Load(c) /\ Found = None
    BY <2>2, <2>4, EndType DEF Load, TypeOK
  <2>5. CASE Load(c) /\ Found # None
    BY <2>1, <2>2, <2>5 DEF Load, TypeOK
  <2>6. QED
    BY <1>5, <2>3, <2>4, <2>5 DEF ReaderStep
<1>6. ASSUME NEW c \in Updates, LoadStep(c) PROVE TypeOK'
  <2>1. Found \in Rows \cup {None} /\ row # None
    BY UserCacheAssumption DEF Found, TypeOK
  <2>2. c \in Calls
    BY CallKinds
  <2>3. CASE LoadForSave(c)
    BY <2>1, <2>2, <2>3 DEF LoadForSave, TypeOK
  <2>4. CASE UpdateIsRefused(c)
    BY <2>2, <2>4, EndType DEF UpdateIsRefused, TypeOK
  <2>5. CASE Reread(c)
    BY <2>1, <2>2, <2>5 DEF Reread, TypeOK
  <2>6. QED
    BY <1>6, <2>3, <2>4, <2>5 DEF LoadStep
<1>7. ASSUME NEW c \in Updates, UpdateRow(c) PROVE TypeOK'
  <2>1. row' \in Rows
    BY <1>7, WrittenType DEF UpdateRow
  <2>2. QED
    BY <1>7, <2>1, CallKinds DEF UpdateRow, TypeOK
<1>8. ASSUME NEW c \in Deletes, SoftDeleteUser(c) PROVE TypeOK'
  BY <1>8, CallKinds DEF SoftDeleteUser, TypeOK
<1>9. ASSUME NEW c \in Calls, CacheStep(c) PROVE TypeOK'
  <2>1. ASSUME AfterFill(c), pc[c] = "fill"
        PROVE  /\ pc' \in [Calls -> {"new", "load", "fill", "commit", "update", "reread",
                                     "invalidate", "done"}]
               /\ mine' \in [Calls -> Rows \cup {None}]
               /\ \A d \in Calls : pc'[d] \in {"fill", "commit", "update"} => mine'[d] # None
    BY <2>1, EndType DEF AfterFill, TypeOK
  <2>2. ASSUME Fault PROVE faults' \in 0 .. MaxFaults
    BY <2>2, UserCacheAssumption DEF Fault, TypeOK
  <2>3. CASE SaveUserToCache(c)
    BY <2>1, <2>3, UserCacheAssumption DEF SaveUserToCache, TypeOK
  <2>4. CASE SaveUserToCacheFails(c)
    BY <2>1, <2>2, <2>4 DEF SaveUserToCacheFails, TypeOK
  <2>5. CASE InvalidateUserCache(c)
    BY <2>5, EndType, UserCacheAssumption DEF InvalidateUserCache, TypeOK
  <2>6. CASE InvalidateUserCacheFails(c) \/ Crash(c)
    BY <2>2, <2>6, EndType DEF InvalidateUserCacheFails, Crash, TypeOK
  <2>7. QED
    BY <1>9, <2>3, <2>4, <2>5, <2>6 DEF CacheStep
<1>10. CASE UNCHANGED vars
  BY <1>10 DEF vars, TypeOK
<1>11. QED
  BY <1>1, <1>2, <1>3, <1>4, <1>5, <1>6, <1>7, <1>8, <1>9, <1>10, NextCases

-----------------------------------------------------------------------------
(* The registration. *)

LEMMA FreshInd == IndInv /\ [Next]_vars => FreshOK'
<1> SUFFICES ASSUME IndInv, [Next]_vars PROVE FreshOK'
  OBVIOUS
<1> USE DEF IndInv, entry, history, Go, Keep
<1>0. Registration \in Calls /\ pc \in [Calls -> {"new", "load", "fill", "commit", "update",
          "reread", "invalidate", "done"}] /\ mine \in [Calls -> Rows \cup {None}]
  BY CallKinds DEF TypeOK
<1>1. CASE SaveUser \/ CommitUser
  BY <1>0, <1>1, CallKinds DEF SaveUser, CommitUser, End, Over, FreshOK
<1>2. CASE ChangeBalance \/ Tick
  BY <1>2 DEF ChangeBalance, Tick, FreshOK
<1>3. ASSUME NEW c \in Calls, c # Registration, status # "absent",
             status' # "absent", pc'[Registration] = pc[Registration],
             mine'[Registration] = mine[Registration]
      PROVE  FreshOK'
  BY <1>3 DEF FreshOK
<1>4. ASSUME NEW c \in Readers, ReaderStep(c) PROVE FreshOK'
  <2>1. c \in Calls /\ c # Registration
    BY CallKinds
  <2>2. status # "absent"
    BY <1>4, <2>1 DEF ReaderStep, GetUserFromCache, SkipCache, Load, FreshOK
  <2>3. UNCHANGED status /\ pc'[Registration] = pc[Registration]
        /\ mine'[Registration] = mine[Registration]
    BY <1>0, <1>4, <2>1 DEF ReaderStep, GetUserFromCache, SkipCache, Load, End
  <2>4. QED
    BY <1>3, <2>1, <2>2, <2>3
<1>5. ASSUME NEW c \in Updates, LoadStep(c) \/ UpdateRow(c) PROVE FreshOK'
  <2>1. c \in Calls /\ c # Registration
    BY CallKinds
  <2>2. status # "absent"
    BY <1>5, <2>1 DEF LoadStep, UpdateRow, LoadForSave, UpdateIsRefused, Reread, FreshOK
  <2>3. UNCHANGED status /\ pc'[Registration] = pc[Registration]
        /\ mine'[Registration] = mine[Registration]
    BY <1>0, <1>5, <2>1 DEF LoadStep, UpdateRow, LoadForSave, UpdateIsRefused, Reread, End
  <2>4. QED
    BY <1>3, <2>1, <2>2, <2>3
<1>6. ASSUME NEW c \in Deletes, SoftDeleteUser(c) PROVE FreshOK'
  BY <1>0, <1>3, <1>6, CallKinds DEF SoftDeleteUser
<1>7. ASSUME NEW c \in Calls, CacheStep(c) PROVE FreshOK'
  <2>1. CASE c = Registration
    <3>1. pc[c] \in {"fill", "commit"} /\ status = "absent" /\ mine[c] = NewUser
      BY <1>7, <2>1 DEF CacheStep, SaveUserToCache, SaveUserToCacheFails,
           InvalidateUserCache, InvalidateUserCacheFails, Crash, FreshOK
    <3>2. UNCHANGED <<status, row, deposits>> /\ cache' \in {cache, mine[c], None}
      BY <1>7, <2>1 DEF CacheStep, SaveUserToCache, SaveUserToCacheFails,
           InvalidateUserCache, InvalidateUserCacheFails, Crash
    <3>3. /\ \A d \in Calls \ {c} : pc'[d] = pc[d]
          /\ pc'[c] \in {"commit", "done"}
          /\ pc'[c] = "commit" => mine'[c] = mine[c]
      BY <1>0, <1>7, <2>1, <3>1, CallKinds DEF CacheStep, SaveUserToCache,
         SaveUserToCacheFails, InvalidateUserCache, InvalidateUserCacheFails, Crash,
         AfterFill, End, Over
    <3>4. QED
      BY <2>1, <3>1, <3>2, <3>3 DEF FreshOK
  <2>2. CASE c # Registration
    <3>1. status # "absent" /\ UNCHANGED status
      BY <1>7, <2>2 DEF CacheStep, SaveUserToCache, SaveUserToCacheFails,
           InvalidateUserCache, InvalidateUserCacheFails, Crash, FreshOK
    <3>2. pc'[Registration] = pc[Registration] /\ mine'[Registration] = mine[Registration]
      BY <1>0, <1>7, <2>2 DEF CacheStep, SaveUserToCache, SaveUserToCacheFails,
           InvalidateUserCache, InvalidateUserCacheFails, Crash, AfterFill, End
    <3>3. QED
      BY <1>3, <2>2, <3>1, <3>2
  <2>3. QED
    BY <2>1, <2>2
<1>8. CASE UNCHANGED vars
  BY <1>8 DEF vars, FreshOK
<1>9. QED
  BY <1>1, <1>2, <1>4, <1>5, <1>6, <1>7, <1>8, NextCases

-----------------------------------------------------------------------------
(* What a step of a call leaves alone. *)

LEMMA ReadersLeave ==
    ASSUME TypeOK, NEW c \in Readers, ReaderStep(c)
    PROVE  /\ UNCHANGED <<status, row, cache, deposits, excuse, raced>>
           /\ \A d \in Calls \ {c} : pc'[d] = pc[d] /\ mine'[d] = mine[d]
BY CallKinds DEF TypeOK, ReaderStep, GetUserFromCache, SkipCache, Load, End, Go, Keep,
                 entry, history

LEMMA UpdatesLeave ==
    ASSUME TypeOK, NEW c \in Updates, LoadStep(c)
    PROVE  /\ UNCHANGED <<status, row, cache, deposits, excuse, raced>>
           /\ \A d \in Calls \ {c} : pc'[d] = pc[d] /\ mine'[d] = mine[d]
           /\ pc'[c] = "update" => mine'[c] = row
           /\ Fixing(c) => Fixing(c)'
<1> USE DEF Go, Keep, entry, history, Fixing
<1>1. CASE LoadForSave(c)
  BY <1>1, CallKinds DEF TypeOK, LoadForSave
<1>2. CASE UpdateIsRefused(c)
  BY <1>2, CallKinds DEF TypeOK, UpdateIsRefused, End, Over
<1>3. CASE Reread(c)
  BY <1>3, CallKinds DEF TypeOK, Reread
<1>4. QED
  BY <1>1, <1>2, <1>3 DEF LoadStep

LEMMA CacheLeaves ==
    ASSUME TypeOK, NEW c \in Calls, CacheStep(c)
    PROVE  /\ UNCHANGED <<status, row, deposits, raced>>
           /\ \A d \in Calls \ {c} : pc'[d] = pc[d] /\ mine'[d] = mine[d]
           /\ pc'[c] # "update"
BY CallKinds DEF TypeOK, CacheStep, SaveUserToCache, SaveUserToCacheFails,
   InvalidateUserCache, InvalidateUserCacheFails, Crash, AfterFill, End, Over, Go, Keep,
   entry

-----------------------------------------------------------------------------
(* Rows. *)

LEMMA DepositInd == IndInv /\ [Next]_vars => NoDepositLost'
<1> SUFFICES ASSUME IndInv, [Next]_vars PROVE NoDepositLost'
  OBVIOUS
<1> USE DEF IndInv, NoDepositLost, entry, history
<1>1. CASE SaveUser \/ Tick \/ \E c \in Deletes : SoftDeleteUser(c)
  BY <1>1 DEF SaveUser, Tick, SoftDeleteUser
<1>2. CASE CommitUser
  BY <1>2 DEF CommitUser, FreshOK, NewUser
<1>3. CASE ChangeBalance
  BY <1>3 DEF ChangeBalance, TypeOK, Rows
<1>4. ASSUME NEW c \in Updates, UpdateRow(c) PROVE NoDepositLost'
  BY <1>4, WrittenType DEF UpdateRow
<1>5. CASE UNCHANGED vars
  BY <1>5 DEF vars
<1>6. QED
  BY <1>1, <1>2, <1>3, <1>4, <1>5, NextCases, ReadersLeave, UpdatesLeave, CacheLeaves

LEMMA LoadedInd == IndInv /\ [Next]_vars => LoadedOK'
<1> SUFFICES ASSUME IndInv, [Next]_vars, NEW c \in Updates, pc'[c] = "update"
             PROVE  mine'[c].profile = row'.profile \/ c \in raced'
  BY DEF LoadedOK
<1> USE DEF IndInv, entry, history, Go, Keep
<1>0. c \in Calls /\ c # Registration /\ c \notin Readers \cup Deletes
  BY CallKinds
<1>1. ASSUME row'.profile = row.profile, raced \subseteq raced', pc'[c] = pc[c],
             mine'[c] = mine[c]
      PROVE  mine'[c].profile = row'.profile \/ c \in raced'
  BY <1>1 DEF LoadedOK
<1>2. CASE SaveUser
  BY <1>0, <1>1, <1>2, CallKinds DEF SaveUser, TypeOK
<1>3. CASE CommitUser
  <2>1. pc[c] = "new"
    BY <1>0, <1>3 DEF CommitUser, FreshOK
  <2>2. QED
    BY <1>0, <1>3, <2>1, CallKinds DEF CommitUser, End, TypeOK
<1>4. CASE ChangeBalance
  BY <1>1, <1>4 DEF ChangeBalance, TypeOK, Rows
<1>5. CASE Tick \/ UNCHANGED vars
  BY <1>1, <1>5 DEF Tick, vars
<1>6. ASSUME NEW d \in Readers, ReaderStep(d)
      PROVE  mine'[c].profile = row'.profile \/ c \in raced'
  BY <1>0, <1>1, <1>6, ReadersLeave
<1>7. ASSUME NEW d \in Updates, LoadStep(d)
      PROVE  mine'[c].profile = row'.profile \/ c \in raced'
  BY <1>0, <1>1, <1>7, UpdatesLeave
<1>8. ASSUME NEW d \in Updates, UpdateRow(d)
      PROVE  mine'[c].profile = row'.profile \/ c \in raced'
  BY <1>0, <1>8, CallKinds DEF UpdateRow, TypeOK
<1>9. ASSUME NEW d \in Deletes, SoftDeleteUser(d)
      PROVE  mine'[c].profile = row'.profile \/ c \in raced'
  BY <1>0, <1>1, <1>9, CallKinds DEF SoftDeleteUser, TypeOK
<1>10. ASSUME NEW d \in Calls, CacheStep(d)
       PROVE  mine'[c].profile = row'.profile \/ c \in raced'
  BY <1>0, <1>1, <1>10, CacheLeaves
<1>11. QED
  BY <1>2, <1>3, <1>4, <1>5, <1>6, <1>7, <1>8, <1>9, <1>10, NextCases

LEMMA MixtureInd == IndInv /\ [Next]_vars => MixtureNeedsRace'
<1> SUFFICES ASSUME IndInv, [Next]_vars PROVE MixtureNeedsRace'
  OBVIOUS
<1> USE DEF IndInv, MixtureNeedsRace, entry, history
<1>1. CASE SaveUser \/ Tick \/ \E c \in Deletes : SoftDeleteUser(c)
  BY <1>1 DEF SaveUser, Tick, SoftDeleteUser
<1>2. CASE CommitUser
  BY <1>2 DEF CommitUser, FreshOK, NewUser
<1>3. CASE ChangeBalance
  BY <1>3 DEF ChangeBalance, TypeOK, Rows
<1>4. ASSUME NEW c \in Updates, UpdateRow(c) PROVE MixtureNeedsRace'
  BY <1>4, WrittenType DEF UpdateRow, LoadedOK
<1>5. CASE UNCHANGED vars
  BY <1>5 DEF vars
<1>6. QED
  BY <1>1, <1>2, <1>3, <1>4, <1>5, NextCases, ReadersLeave, UpdatesLeave, CacheLeaves

-----------------------------------------------------------------------------
(* The entry. *)

LEMMA StaleInd == IndInv /\ [Next]_vars => StaleHasExcuse'
<1> SUFFICES ASSUME IndInv, [Next]_vars, Stale' PROVE excuse' # {} \/ \E c \in Calls : Fixing(c)'
  BY DEF StaleHasExcuse
<1> USE DEF IndInv, entry, history, Go, Keep
<1>1. ASSUME UNCHANGED <<status, row, cache>>
      PROVE  excuse # {} \/ \E c \in Calls : Fixing(c)
  BY <1>1 DEF Stale, Found, StaleHasExcuse
<1>2. CASE SaveUser
  BY <1>1, <1>2, CallKinds DEF SaveUser, Fixing, TypeOK
<1>3. CASE CommitUser
  BY <1>3 DEF CommitUser, FreshOK, Stale, Found
<1>4. CASE ChangeBalance
  BY <1>4 DEF ChangeBalance
<1>5. CASE Tick
  BY <1>1, <1>5 DEF Tick, Fixing, Stale
<1>6. ASSUME NEW c \in Readers, ReaderStep(c)
      PROVE  excuse' # {} \/ \E d \in Calls : Fixing(d)'
  BY <1>1, <1>6, ReadersLeave, CallKinds DEF Fixing
<1>7. ASSUME NEW c \in Updates, LoadStep(c)
      PROVE  excuse' # {} \/ \E d \in Calls : Fixing(d)'
  BY <1>1, <1>7, UpdatesLeave, CallKinds DEF Fixing
<1>8. ASSUME NEW c \in Updates, UpdateRow(c)
      PROVE  excuse' # {} \/ \E d \in Calls : Fixing(d)'
  BY <1>8, CallKinds DEF UpdateRow, Fixing, TypeOK
<1>9. ASSUME NEW c \in Deletes, SoftDeleteUser(c)
      PROVE  excuse' # {} \/ \E d \in Calls : Fixing(d)'
  BY <1>9, CallKinds DEF SoftDeleteUser, Fixing, TypeOK
<1>10. ASSUME NEW c \in Calls, CacheStep(c)
       PROVE  excuse' # {} \/ \E d \in Calls : Fixing(d)'
  <2>1. CASE SaveUserToCache(c)
    BY <2>1 DEF SaveUserToCache, Stale, Found
  <2>2. CASE InvalidateUserCache(c)
    BY <2>2 DEF InvalidateUserCache, Stale
  <2>3. CASE InvalidateUserCacheFails(c)
    BY <2>3 DEF InvalidateUserCacheFails
  <2>4. CASE SaveUserToCacheFails(c) \/ Crash(c)
    <3>1. excuse' = IF Fixing(c) THEN excuse \cup {"error"} ELSE excuse
      BY <2>4 DEF SaveUserToCacheFails, Crash
    <3>2. UNCHANGED <<status, row, cache>>
      BY <2>4 DEF SaveUserToCacheFails, Crash
    <3>3. ASSUME NEW d \in Calls, Fixing(d), ~Fixing(c) PROVE Fixing(d)'
      BY <1>10, <3>3, CacheLeaves DEF Fixing
    <3>4. QED
      BY <1>1, <3>1, <3>2, <3>3
  <2>5. QED
    BY <1>10, <2>1, <2>2, <2>3, <2>4 DEF CacheStep
<1>11. CASE UNCHANGED vars
  BY <1>1, <1>11 DEF vars, Fixing
<1>12. QED
  BY <1>2, <1>3, <1>4, <1>5, <1>6, <1>7, <1>8, <1>9, <1>10, <1>11, NextCases

-----------------------------------------------------------------------------
(* The invariant. *)

LEMMA InitInd == Init => IndInv
<1> SUFFICES ASSUME Init PROVE IndInv
  OBVIOUS
<1>1. TypeOK
  BY NewUserType, UserCacheAssumption DEF Init, TypeOK
<1>2. FreshOK
  BY CallKinds DEF Init, FreshOK
<1>3. QED
  BY <1>1, <1>2, CallKinds DEF Init, IndInv, LoadedOK, StaleHasExcuse, Stale, NoDepositLost,
     MixtureNeedsRace, NewUser

LEMMA Inductive == Spec => []IndInv
<1>1. IndInv /\ [Next]_vars => IndInv'
  BY TypeInd, FreshInd, LoadedInd, StaleInd, DepositInd, MixtureInd DEF IndInv
<1>2. QED
  BY InitInd, <1>1, PTL DEF Spec

(* Calls, the row and the entry keep to their types. *)
THEOREM TypeCorrect == Spec => []TypeOK
<1>1. IndInv => TypeOK
  BY DEF IndInv
<1>2. QED
  BY Inductive, <1>1, PTL

(* saveUserToCache, invalidateUserCache: with any number of calls at work  *)
(* on one user, an entry differs from the row for the named causes only.   *)
THEOREM StaleEntriesHaveExcuses == Spec => []StaleHasExcuse
<1>1. IndInv => StaleHasExcuse
  BY DEF IndInv
<1>2. QED
  BY Inductive, <1>1, PTL

(* updateUser: save, which has loaded the whole row, takes no deposit back. *)
THEOREM NoDepositIsLost == Spec => []NoDepositLost
<1>1. IndInv => NoDepositLost
  BY DEF IndInv
<1>2. QED
  BY Inductive, <1>1, PTL

(* updateUser: without a race, the profile is one a client has sent whole. *)
THEOREM MixturesNeedRaces == Spec => []MixtureNeedsRace
<1>1. IndInv => MixtureNeedsRace
  BY DEF IndInv
<1>2. QED
  BY Inductive, <1>1, PTL
=============================================================================
