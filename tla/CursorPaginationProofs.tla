----------------------- MODULE CursorPaginationProofs -----------------------
(***************************************************************************)
(* Theorems about CursorPagination, for all ids, limits and numbers of     *)
(* changes.                                                                *)
(***************************************************************************)
EXTENDS CursorPagination, FiniteSetTheorems, SequenceTheorems, TLAPS

Elems(s) == {s[k] : k \in 1 .. Len(s)}

Descends(s) == \A j, k \in 1 .. Len(s) : j < k => s[k] < s[j]

-----------------------------------------------------------------------------
(* The order of a query, and what it finds. *)

LEMMA BeforeOrders ==
    ASSUME NEW q \in Queries
    PROVE  /\ \A u \in Ids : ~Before(u, u, q)
           /\ \A u, v, w \in Ids : Before(u, v, q) /\ Before(v, w, q) => Before(u, w, q)
           /\ \A u, v \in Ids : u = v \/ Before(u, v, q) \/ Before(v, u, q)
<1>1. \A u \in Ids : u \in Int
  BY CursorPaginationAssumption
<1>2. q.isPrevious \in BOOLEAN
  BY DEF Queries
<1>3. QED
  BY <1>1, <1>2 DEF Before

LEMMA BeyondIsFinite ==
    ASSUME rows \subseteq Ids, IsFiniteSet(rows), NEW q \in Queries
    PROVE  /\ Beyond(q) \subseteq Ids /\ IsFiniteSet(Beyond(q))
           /\ Cardinality(Beyond(q)) \in Nat
<1>1. Beyond(q) \subseteq rows
  BY DEF Beyond
<1>2. QED
  BY <1>1, FS_Subset, FS_CardinalityType

LEMMA RankInRange ==
    ASSUME rows \subseteq Ids, IsFiniteSet(rows), NEW q \in Queries, NEW u \in Beyond(q)
    PROVE  Rank(u, q) \in Nat /\ Rank(u, q) < Cardinality(Beyond(q))
<1> DEFINE B == Beyond(q)
           S == {v \in Beyond(q) : Before(v, u, q)}
<1>1. IsFiniteSet(B) /\ B \subseteq Ids /\ Cardinality(B) \in Nat
  BY BeyondIsFinite
<1>2. S \in SUBSET B /\ u \in B /\ u \notin S
  BY <1>1, BeforeOrders
<1> HIDE DEF B, S
<1>3. IsFiniteSet(S) /\ Cardinality(S) <= Cardinality(B) /\ S # B
  BY <1>1, <1>2, FS_Subset
<1>4. Cardinality(S) # Cardinality(B)
  BY <1>1, <1>2, <1>3, FS_Subset
<1>5. Cardinality(S) \in Nat
  BY <1>3, FS_CardinalityType
<1>6. Cardinality(S) \in Nat /\ Cardinality(S) < Cardinality(B)
  BY <1>1, <1>3, <1>4, <1>5
<1>7. QED
  BY <1>6 DEF Rank, S, B

LEMMA RankGrows ==
    ASSUME rows \subseteq Ids, IsFiniteSet(rows), NEW q \in Queries,
           NEW u \in Beyond(q), NEW v \in Beyond(q), Before(u, v, q)
    PROVE  Rank(u, q) < Rank(v, q)
<1> DEFINE B == Beyond(q)
           S == {w \in Beyond(q) : Before(w, u, q)}
           T == {w \in Beyond(q) : Before(w, v, q)}
<1>1. IsFiniteSet(B) /\ B \subseteq Ids
  BY BeyondIsFinite
<1>2. S \in SUBSET T /\ T \in SUBSET B /\ u \in T /\ u \notin S
  BY <1>1, BeforeOrders
<1> HIDE DEF B, S, T
<1>3. IsFiniteSet(T)
  BY <1>1, <1>2, FS_Subset
<1>4. IsFiniteSet(S) /\ Cardinality(S) <= Cardinality(T) /\ S # T
  BY <1>2, <1>3, FS_Subset
<1>5. Cardinality(S) # Cardinality(T)
  BY <1>2, <1>3, <1>4, FS_Subset
<1>6. Cardinality(S) \in Nat /\ Cardinality(T) \in Nat
  BY <1>3, <1>4, FS_CardinalityType
<1>7. Cardinality(S) < Cardinality(T)
  BY <1>4, <1>5, <1>6
<1>8. QED
  BY <1>7 DEF Rank, S, T

LEMMA RankOrders ==
    ASSUME rows \subseteq Ids, IsFiniteSet(rows), NEW q \in Queries,
           NEW u \in Beyond(q), NEW v \in Beyond(q)
    PROVE  /\ Rank(u, q) < Rank(v, q) => Before(u, v, q)
           /\ Rank(u, q) = Rank(v, q) => u = v
<1>1. Rank(u, q) \in Nat /\ Rank(v, q) \in Nat
  BY RankInRange
<1>2. u \in Ids /\ v \in Ids
  BY BeyondIsFinite
<1>3. u = v \/ Before(u, v, q) \/ Before(v, u, q)
  BY <1>2, BeforeOrders
<1>4. Before(u, v, q) => Rank(u, q) < Rank(v, q)
  BY RankGrows
<1>5. Before(v, u, q) => Rank(v, q) < Rank(u, q)
  BY RankGrows
<1>6. QED
  BY <1>1, <1>3, <1>4, <1>5

(* Each of the first ranks is that of a row.                               *)
LEMMA RanksAreTaken ==
    ASSUME rows \subseteq Ids, IsFiniteSet(rows), NEW q \in Queries,
           NEW n \in Nat, n < Cardinality(Beyond(q))
    PROVE  \E u \in Beyond(q) : Rank(u, q) = n
<1> DEFINE B == Beyond(q)
           C == Cardinality(B)
           R == (0 .. C - 1) \ {n}
           f == [u \in B |-> Rank(u, q)]
<1>1. SUFFICES ASSUME \A u \in B : Rank(u, q) # n
               PROVE  FALSE
  OBVIOUS
<1>2. IsFiniteSet(B) /\ C \in Nat
  BY BeyondIsFinite
<1>3. \A u \in B : Rank(u, q) \in R
  <2>1. TAKE u \in B
  <2>2. Rank(u, q) \in Nat /\ Rank(u, q) < C
    BY RankInRange
  <2>3. QED
    BY <1>1, <1>2, <2>2
<1>4. f \in [B -> R]
  BY <1>3
<1>5. IsFiniteSet(0 .. C - 1) /\ Cardinality(0 .. C - 1) = C
  <2>1. 0 \in Int /\ C - 1 \in Int
    BY <1>2
  <2> HIDE DEF C
  <2>2. IsFiniteSet(0 .. C - 1) /\ Cardinality(0 .. C - 1) = IF 0 > C - 1 THEN 0 ELSE C - 1 - 0 + 1
    BY ONLY <2>1, FS_Interval
  <2>3. QED
    BY <1>2, <2>2
<1>6. n \in 0 .. C - 1
  BY <1>2
<1>7. IsFiniteSet(R) /\ Cardinality(R) = C - 1
  BY <1>5, <1>6, FS_RemoveElement
<1>8. Cardinality(R) < Cardinality(B)
  BY <1>2, <1>7
<1> HIDE DEF R, f
<1>9. \E x, y \in B : x # y /\ f[x] = f[y]
  <2> HIDE DEF B, C
  <2>1. QED
    BY <1>2, <1>4, <1>7, <1>8, FS_PigeonHole
<1>10. QED
  <2>1. PICK x \in B, y \in B : x # y /\ f[x] = f[y]
    BY <1>9
  <2>2. Rank(x, q) = Rank(y, q)
    BY <2>1 DEF f
  <2>3. QED
    BY <2>1, <2>2, RankOrders

(* Find returns the rows of the query, in its order, and leaves none out   *)
(* but those after all of the page and one more.                           *)
LEMMA FindIsExact ==
    ASSUME rows \subseteq Ids, IsFiniteSet(rows), NEW q \in Queries
    PROVE  /\ Find(q) \in Seq(Ids) /\ Len(Find(q)) <= Fetched
           /\ \A k \in 1 .. Len(Find(q)) : Find(q)[k] \in Beyond(q)
           /\ \A j, k \in 1 .. Len(Find(q)) : j < k => Before(Find(q)[j], Find(q)[k], q)
           /\ \A u \in Beyond(q) \ Elems(Find(q)) :
                 /\ Len(Find(q)) = Fetched
                 /\ \A k \in 1 .. Len(Find(q)) : Before(Find(q)[k], u, q)
<1> DEFINE C == Cardinality(Beyond(q))
           n == IF C < Fetched THEN C ELSE Fetched
           At(k) == CHOOSE u \in Beyond(q) : Rank(u, q) = k - 1
           s == Find(q)
<1>1. C \in Nat /\ Beyond(q) \subseteq Ids
  BY BeyondIsFinite
<1>2. Fetched \in Nat /\ n \in Nat /\ n <= C /\ n <= Fetched /\ (n = C \/ n = Fetched)
  BY <1>1, CursorPaginationAssumption DEF Fetched
<1>3. \A k \in 1 .. n : At(k) \in Beyond(q) /\ Rank(At(k), q) = k - 1
  <2>1. TAKE k \in 1 .. n
  <2>2. k - 1 \in Nat /\ k - 1 < C
    BY <1>1, <1>2
  <2>3. \E u \in Beyond(q) : Rank(u, q) = k - 1
    BY <2>2, RanksAreTaken
  <2>4. QED
    BY <2>3
<1>4. s = [k \in 1 .. n |-> At(k)]
  BY DEF Find
<1> HIDE DEF At, n, s
<1>5. s \in Seq(Ids) /\ Len(s) = n
  BY <1>1, <1>2, <1>3, <1>4
<1>6. \A k \in 1 .. n : s[k] \in Beyond(q) /\ Rank(s[k], q) = k - 1
  BY <1>3, <1>4
<1>7. \A j, k \in 1 .. n : j < k => Before(s[j], s[k], q)
  <2>1. TAKE j, k \in 1 .. n
  <2>2. HAVE j < k
  <2>3. Rank(s[j], q) < Rank(s[k], q)
    BY <1>6, <2>2
  <2>4. QED
    BY <1>6, <2>3, RankOrders
<1>8. ASSUME NEW u \in Beyond(q), u \notin Elems(s)
      PROVE  n = Fetched /\ \A k \in 1 .. n : Before(s[k], u, q)
  <2>1. Rank(u, q) \in Nat /\ Rank(u, q) < C
    BY RankInRange
  <2>2. Rank(u, q) >= n
    <3>1. SUFFICES ASSUME Rank(u, q) < n PROVE FALSE
      BY <1>2, <2>1
    <3>2. Rank(u, q) + 1 \in 1 .. n
      BY <1>2, <2>1, <3>1
    <3>3. s[Rank(u, q) + 1] \in Beyond(q) /\ Rank(s[Rank(u, q) + 1], q) = Rank(u, q)
      BY <1>6, <3>2, <2>1
    <3>4. s[Rank(u, q) + 1] = u
      BY <3>3, RankOrders
    <3>5. QED
      BY <1>5, <1>8, <3>2, <3>4 DEF Elems
  <2>3. n = Fetched
    BY <1>1, <1>2, <2>1, <2>2
  <2>4. ASSUME NEW k \in 1 .. n PROVE Before(s[k], u, q)
    <3>1. Rank(s[k], q) < Rank(u, q)
      BY <1>2, <1>6, <2>1, <2>2
    <3>2. QED
      BY <1>6, <3>1, RankOrders
  <2>5. QED
    BY <2>3, <2>4
<1>9. QED
  BY <1>2, <1>5, <1>6, <1>7, <1>8 DEF s

-----------------------------------------------------------------------------
(* Sequences that descend. *)

LEMMA IdsAreNumbers ==
    ASSUME NEW s \in Seq(Ids)
    PROVE  Len(s) \in Nat /\ \A k \in 1 .. Len(s) : s[k] \in Ids /\ s[k] \in Int
<1>1. Len(s) \in Nat
  OBVIOUS
<1>2. \A k \in 1 .. Len(s) : s[k] \in Ids
  BY ElementOfSeq
<1>3. \A u \in Ids : u \in Int
  BY CursorPaginationAssumption
<1>4. QED
  BY <1>1, <1>2, <1>3

LEMMA DescendsApart ==
    ASSUME NEW s \in Seq(Ids), Descends(s)
    PROVE  \A j, k \in 1 .. Len(s) : s[j] = s[k] => j = k
<1>1. Len(s) \in Nat /\ \A k \in 1 .. Len(s) : s[k] \in Int
  BY IdsAreNumbers
<1>2. QED
  BY <1>1 DEF Descends

LEMMA ElemsCount ==
    ASSUME NEW s \in Seq(Ids), Descends(s)
    PROVE  IsFiniteSet(Elems(s)) /\ Cardinality(Elems(s)) = Len(s)
<1>1. Len(s) \in Nat
  OBVIOUS
<1>2. s \in [1 .. Len(s) -> Elems(s)]
  BY LenProperties DEF Elems
<1>3. s \in Bijection(1 .. Len(s), Elems(s))
  BY <1>2, DescendsApart DEF Bijection, Injection, Surjection, IsInjective, Elems
<1>4. ExistsBijection(1 .. Len(s), Elems(s))
  BY <1>3 DEF ExistsBijection
<1>5. Cardinality(Elems(s)) = Len(s)
  BY <1>1, <1>4, FS_CountingElements
<1>6. IsFiniteSet(Elems(s))
  BY <1>1, <1>4, FS_NatBijection
<1>7. QED
  BY <1>5, <1>6

(* The place of an element is told by how many are above it.               *)
LEMMA PlaceCounts ==
    ASSUME NEW s \in Seq(Ids), Descends(s), NEW k \in 1 .. Len(s)
    PROVE  Cardinality({u \in Elems(s) : s[k] < u}) = k - 1
<1> DEFINE S == {u \in Elems(s) : s[k] < u}
           f == [j \in 1 .. (k - 1) |-> s[j]]
<1>1. Len(s) \in Nat /\ k - 1 \in Nat /\ \A j \in 1 .. Len(s) : s[j] \in Int
  BY IdsAreNumbers
<1>2. \A j \in 1 .. (k - 1) : j \in 1 .. Len(s) /\ s[j] \in S
  BY <1>1 DEF Elems, Descends
<1>3. ASSUME NEW u \in S PROVE \E j \in 1 .. (k - 1) : s[j] = u
  <2>1. PICK j \in 1 .. Len(s) : s[j] = u
    BY DEF Elems
  <2>2. j < k
    BY <1>1, <2>1 DEF Descends
  <2>3. QED
    BY <1>1, <2>1, <2>2
<1>4. f \in [1 .. (k - 1) -> S]
  BY <1>2
<1>5. f \in Bijection(1 .. (k - 1), S)
  BY <1>2, <1>3, <1>4, DescendsApart DEF Bijection, Injection, Surjection, IsInjective
<1>6. ExistsBijection(1 .. (k - 1), S)
  BY <1>5 DEF ExistsBijection
<1> HIDE DEF S
<1>7. Cardinality(S) = k - 1
  BY <1>1, <1>6, FS_CountingElements
<1>8. QED
  BY <1>7 DEF S

(* There is one way for a set of ids to descend.                           *)
LEMMA DescendsOneWay ==
    ASSUME NEW s \in Seq(Ids), NEW t \in Seq(Ids), Descends(s), Descends(t),
           Elems(s) = Elems(t)
    PROVE  s = t
<1>1. Len(s) = Len(t)
  BY ElemsCount
<1>2. ASSUME NEW k \in 1 .. Len(s) PROVE s[k] = t[k]
  <2>1. s[k] \in Elems(t)
    BY DEF Elems
  <2>2. PICK j \in 1 .. Len(t) : t[j] = s[k]
    BY <2>1 DEF Elems
  <2>3. Cardinality({u \in Elems(s) : s[k] < u}) = k - 1
    BY PlaceCounts
  <2>4. Cardinality({u \in Elems(t) : t[j] < u}) = j - 1
    BY PlaceCounts
  <2>5. k - 1 = j - 1
    BY <2>2, <2>3, <2>4
  <2>6. Len(s) \in Nat
    OBVIOUS
  <2>7. k = j
    BY <1>1, <2>5, <2>6
  <2>8. QED
    BY <2>2, <2>7
<1>3. QED
  BY <1>1, <1>2, SeqEqual

-----------------------------------------------------------------------------
(* What a page says about a set of rows: its rows are those the query asks *)
(* for, newest first; all rows that are asked for and not shown are beyond *)
(* a full page; and its cursors are its ends.                              *)

Asked(R, q) ==
    {u \in R : \/ q.cursor = None
               \/ q.isPrevious /\ u > q.cursor
               \/ ~q.isPrevious /\ u < q.cursor}

NewestOf(a) == IF a.data = <<>> THEN None ELSE a.data[1]
OldestOf(a) == IF a.data = <<>> THEN None ELSE a.data[Len(a.data)]
Hidden(a, q, R) == Asked(R, q) \ Elems(a.data)

DataOK(a) ==
    /\ a \in [data : Seq(Ids), next : Ids \cup {None}, prev : Ids \cup {None}]
    /\ Len(a.data) <= Limit /\ Descends(a.data)
    /\ a.next # None => a.data # <<>> /\ a.next = a.data[Len(a.data)]
    /\ a.prev # None => a.data # <<>> /\ a.prev = a.data[1]

Exact(a, q, R) ==
    /\ DataOK(a)
    /\ Elems(a.data) \subseteq Asked(R, q)
    /\ \A u \in Hidden(a, q, R) :
          /\ Len(a.data) = Limit
          /\ q.isPrevious => u > a.data[1]
          /\ ~q.isPrevious => u < a.data[Len(a.data)]
    /\ a.next = IF q.isPrevious \/ Hidden(a, q, R) # {} THEN OldestOf(a) ELSE None
    /\ a.prev = IF (IF q.isPrevious THEN Hidden(a, q, R) # {} ELSE q.cursor # None)
                THEN NewestOf(a) ELSE None

LEMMA AskedIsBeyond ==
    ASSUME NEW q \in Queries
    PROVE  Asked(rows, q) = Beyond(q)
<1>1. q.isPrevious \in BOOLEAN
  BY DEF Queries
<1>2. CASE q.cursor = None
  BY <1>2 DEF Asked, Beyond
<1>3. CASE q.cursor # None /\ q.isPrevious
  BY <1>3 DEF Asked, Beyond
<1>4. CASE q.cursor # None /\ ~q.isPrevious
  BY <1>4 DEF Asked, Beyond
<1>5. QED
  BY <1>1, <1>2, <1>3, <1>4

(* What is left of the rows that were found.                               *)
Trimmed(items) == IF HasMore(items) THEN SubSeq(items, 1, Limit) ELSE items

LEMMA TrimmedKeeps ==
    ASSUME NEW items \in Seq(Ids)
    PROVE  /\ Trimmed(items) \in Seq(Ids) /\ Len(Trimmed(items)) <= Limit
           /\ Len(Trimmed(items)) <= Len(items)
           /\ \A k \in 1 .. Len(Trimmed(items)) : Trimmed(items)[k] = items[k]
           /\ HasMore(items) => Len(Trimmed(items)) = Limit
           /\ ~HasMore(items) => Trimmed(items) = items
<1>1. Limit \in Nat \ {0} /\ Len(items) \in Nat
  BY CursorPaginationAssumption
<1>2. CASE HasMore(items)
  <2>1. \A i \in 1 .. Limit : items[i] \in Ids
    BY <1>1, <1>2, ElementOfSeq DEF HasMore
  <2>2. /\ SubSeq(items, 1, Limit) \in Seq(Ids)
        /\ Len(SubSeq(items, 1, Limit)) = IF 1 <= Limit THEN Limit - 1 + 1 ELSE 0
        /\ \A i \in 1 .. (Limit - 1 + 1) : SubSeq(items, 1, Limit)[i] = items[1 + i - 1]
    BY <1>1, <2>1, SubSeqProperties
  <2>3. \A i \in 1 .. Limit : SubSeq(items, 1, Limit)[i] = items[i]
    BY <1>1, <2>2
  <2>4. QED
    BY <1>1, <1>2, <2>2, <2>3 DEF Trimmed, HasMore
<1>3. CASE ~HasMore(items)
  BY <1>1, <1>3 DEF Trimmed, HasMore
<1>4. QED
  BY <1>2, <1>3

LEMMA ReverseTurns ==
    ASSUME NEW s \in Seq(Ids)
    PROVE  /\ Reverse(s) \in Seq(Ids) /\ Len(Reverse(s)) = Len(s)
           /\ \A k \in 1 .. Len(s) : Reverse(s)[k] = s[Len(s) - k + 1]
           /\ Elems(Reverse(s)) = Elems(s)
<1>1. Len(s) \in Nat
  OBVIOUS
<1>2. \A k \in 1 .. Len(s) : Len(s) - k + 1 \in 1 .. Len(s) /\ s[Len(s) - k + 1] \in Ids
  BY <1>1, ElementOfSeq
<1>3. Reverse(s) \in Seq(Ids) /\ Len(Reverse(s)) = Len(s)
  BY <1>1, <1>2 DEF Reverse
<1>4. \A k \in 1 .. Len(s) : Reverse(s)[k] = s[Len(s) - k + 1]
  BY <1>1 DEF Reverse
<1>5. \A k \in 1 .. Len(s) : Reverse(s)[Len(s) - k + 1] = s[k]
  <2>1. TAKE k \in 1 .. Len(s)
  <2>2. Len(s) - (Len(s) - k + 1) + 1 = k
    BY <1>1
  <2>3. QED
    BY <1>2, <1>4, <2>2
<1>6. \A u : u \in Elems(Reverse(s)) => u \in Elems(s)
  BY <1>2, <1>3, <1>4 DEF Elems
<1>7. \A u : u \in Elems(s) => u \in Elems(Reverse(s))
  BY <1>2, <1>3, <1>5 DEF Elems
<1>8. QED
  BY <1>3, <1>4, <1>6, <1>7

LEMMA ResultIsExact ==
    ASSUME rows \subseteq Ids, IsFiniteSet(rows), NEW q \in Queries
    PROVE  Exact(Result(Find(q), q), q, rows)
<1> DEFINE items == Find(q)
           t == Trimmed(items)
           d == IF q.isPrevious THEN Reverse(t) ELSE t
           a == Result(Find(q), q)
           Left == Beyond(q) \ Elems(t)
<1>1. /\ items \in Seq(Ids) /\ Len(items) <= Fetched
      /\ \A k \in 1 .. Len(items) : items[k] \in Beyond(q)
      /\ \A j, k \in 1 .. Len(items) : j < k => Before(items[j], items[k], q)
      /\ \A u \in Beyond(q) \ Elems(items) :
            Len(items) = Fetched /\ \A k \in 1 .. Len(items) : Before(items[k], u, q)
  BY FindIsExact
<1>2. Limit \in Nat \ {0} /\ Len(items) \in Nat /\ Beyond(q) \subseteq Ids /\ Fetched = Limit + 1
  BY <1>1, BeyondIsFinite, CursorPaginationAssumption DEF Fetched
<1> HIDE DEF items
<1>3. /\ t \in Seq(Ids) /\ Len(t) <= Limit /\ Len(t) <= Len(items)
      /\ \A k \in 1 .. Len(t) : t[k] = items[k]
      /\ HasMore(items) => Len(t) = Limit
      /\ ~HasMore(items) => t = items
  BY <1>1, TrimmedKeeps
<1>4. Len(t) \in Nat /\ \A k \in 1 .. Len(t) : k \in 1 .. Len(items) /\ t[k] \in Ids /\ t[k] \in Int
  <2>1. Len(t) \in Nat /\ \A k \in 1 .. Len(t) : t[k] \in Ids /\ t[k] \in Int
    BY <1>3, IdsAreNumbers
  <2>2. QED
    BY <1>2, <1>3, <2>1
<1> HIDE DEF t
<1>5. \A j, k \in 1 .. Len(t) : j < k => Before(t[j], t[k], q)
  BY <1>1, <1>3, <1>4
<1>6. Elems(t) \subseteq Beyond(q)
  BY <1>1, <1>3, <1>4 DEF Elems
<1>7. ASSUME NEW u \in Left
      PROVE  HasMore(items) /\ \A k \in 1 .. Len(t) : Before(t[k], u, q)
  <2>1. CASE u \in Elems(items)
    <3>1. HasMore(items)
      BY <1>3, <2>1
    <3>2. PICK j \in 1 .. Len(items) : items[j] = u
      BY <2>1 DEF Elems
    <3>3. j \notin 1 .. Len(t)
      BY <1>3, <3>2 DEF Elems
    <3>4. \A k \in 1 .. Len(t) : k < j
      BY <1>2, <1>4, <3>3
    <3>5. QED
      BY <1>1, <1>3, <1>4, <3>1, <3>2, <3>4
  <2>2. CASE u \notin Elems(items)
    <3>1. Len(items) = Fetched /\ \A k \in 1 .. Len(items) : Before(items[k], u, q)
      BY <1>1, <2>2
    <3>2. HasMore(items)
      BY <1>2, <3>1 DEF HasMore
    <3>3. QED
      BY <1>3, <1>4, <3>1, <3>2
  <2>3. QED
    BY <2>1, <2>2
<1>8. HasMore(items) <=> Left # {}
  <2>1. ASSUME HasMore(items) PROVE \E u \in Left : TRUE
    <3>1. Limit + 1 \in 1 .. Len(items) /\ Len(t) = Limit
      BY <1>2, <1>3, <2>1 DEF HasMore
    <3>2. items[Limit + 1] \in Beyond(q)
      BY <1>1, <3>1
    <3>3. \A k \in 1 .. Len(t) : Before(t[k], items[Limit + 1], q)
      BY <1>1, <1>2, <1>3, <1>4, <3>1
    <3>4. items[Limit + 1] \notin Elems(t)
      BY <1>2, <3>2, <3>3, BeforeOrders DEF Elems
    <3>5. QED
      BY <3>2, <3>4
  <2>2. QED
    BY <1>7, <2>1
<1>9. /\ d \in Seq(Ids) /\ Len(d) = Len(t) /\ Elems(d) = Elems(t)
      /\ q.isPrevious => \A k \in 1 .. Len(t) : d[k] = t[Len(t) - k + 1]
  <2>1. CASE q.isPrevious
    BY <1>3, <2>1, ReverseTurns
  <2>2. CASE ~q.isPrevious
    BY <1>3, <2>2
  <2>3. QED
    BY <2>1, <2>2
<1>10. Descends(d)
  <2>1. CASE q.isPrevious
    <3>1. \A k \in 1 .. Len(t) : Len(t) - k + 1 \in 1 .. Len(t)
      BY <1>4
    <3>2. \A j, k \in 1 .. Len(t) : j < k => t[j] < t[k]
      BY <1>5, <2>1 DEF Before
    <3>3. \A j, k \in 1 .. Len(t) : j < k => Len(t) - k + 1 < Len(t) - j + 1
      BY <1>4
    <3>4. QED
      BY <1>9, <2>1, <3>1, <3>2, <3>3 DEF Descends
  <2>2. CASE ~q.isPrevious
    BY <1>4, <1>5, <2>2 DEF Descends, Before
  <2>3. QED
    BY <2>1, <2>2
<1> HIDE DEF d
<1>11. /\ a = [data |-> d,
               next |-> IF q.isPrevious \/ HasMore(items) THEN OldestOf([data |-> d]) ELSE None,
               prev |-> IF (IF q.isPrevious THEN HasMore(items) ELSE q.cursor # None)
                        THEN NewestOf([data |-> d]) ELSE None]
  BY DEF Result, OldestOf, NewestOf, d, t, Trimmed, items
<1>12. a.data = d
  BY <1>11
<1>13. Hidden(a, q, rows) = Left
  BY <1>9, <1>12, AskedIsBeyond DEF Hidden
<1>14. /\ a.next = IF q.isPrevious \/ Hidden(a, q, rows) # {} THEN OldestOf(a) ELSE None
       /\ a.prev = IF (IF q.isPrevious THEN Hidden(a, q, rows) # {} ELSE q.cursor # None)
                   THEN NewestOf(a) ELSE None
  BY <1>8, <1>11, <1>12, <1>13 DEF OldestOf, NewestOf
<1>15. /\ d = <<>> => OldestOf(a) = None /\ NewestOf(a) = None
       /\ d # <<>> => /\ OldestOf(a) = d[Len(d)] /\ OldestOf(a) \in Ids
                      /\ NewestOf(a) = d[1] /\ NewestOf(a) \in Ids
                      /\ 1 \in 1 .. Len(d) /\ Len(d) \in 1 .. Len(d)
  BY <1>9, <1>12, ElementOfSeq DEF OldestOf, NewestOf
<1>16. DataOK(a)
  <2>1. a \in [data : Seq(Ids), next : Ids \cup {None}, prev : Ids \cup {None}]
    BY <1>9, <1>11, <1>12, <1>14, <1>15
  <2>2. /\ a.next # None => a.data # <<>> /\ a.next = a.data[Len(a.data)]
        /\ a.prev # None => a.data # <<>> /\ a.prev = a.data[1]
    BY <1>12, <1>14, <1>15
  <2>3. QED
    BY <1>3, <1>9, <1>10, <1>12, <2>1, <2>2 DEF DataOK
<1>17. Elems(a.data) \subseteq Asked(rows, q)
  BY <1>6, <1>9, <1>12, AskedIsBeyond
<1>18. ASSUME NEW u \in Hidden(a, q, rows)
       PROVE  /\ Len(a.data) = Limit
              /\ q.isPrevious => u > a.data[1]
              /\ ~q.isPrevious => u < a.data[Len(a.data)]
  <2>1. HasMore(items) /\ \A k \in 1 .. Len(t) : Before(t[k], u, q)
    BY <1>7, <1>13, <1>18
  <2>2. Len(t) = Limit /\ Len(t) \in 1 .. Len(t) /\ 1 \in 1 .. Len(t)
    BY <1>2, <1>3, <2>1
  <2>3. Before(t[Len(t)], u, q) /\ t[Len(t)] \in Int
    BY <1>4, <2>1, <2>2
  <2>4. CASE q.isPrevious
    BY <1>9, <1>12, <2>2, <2>3, <2>4 DEF Before
  <2>5. CASE ~q.isPrevious
    BY <1>9, <1>12, <2>2, <2>3, <2>5 DEF Before, d
  <2>6. QED
    BY <1>9, <1>12, <2>2, <2>4, <2>5
<1>19. QED
  BY <1>14, <1>16, <1>17, <1>18 DEF Exact, a

(* Nothing is out of reach of a page that is exact.                        *)
LEMMA ExactReachesAll ==
    ASSUME rows \subseteq Ids, NEW q \in Queries, NEW a, Exact(a, q, rows),
           a.data # <<>>, NEW u \in rows, u \notin Elems(a.data)
    PROVE  \/ u > a.data[1] /\ a.prev = a.data[1]
           \/ u < a.data[Len(a.data)] /\ a.next = a.data[Len(a.data)]
<1>1. /\ a.data \in Seq(Ids) /\ Len(a.data) \in Nat
      /\ \A k \in 1 .. Len(a.data) : a.data[k] \in Ids /\ a.data[k] \in Int
  BY IdsAreNumbers DEF Exact, DataOK
<1>2. u \in Int /\ q.isPrevious \in BOOLEAN /\ q.cursor \in Ids \cup {None}
  BY CursorPaginationAssumption DEF Queries
<1>3. 1 \in 1 .. Len(a.data) /\ Len(a.data) \in 1 .. Len(a.data)
  BY <1>1
<1>4. OldestOf(a) = a.data[Len(a.data)] /\ NewestOf(a) = a.data[1]
  BY DEF OldestOf, NewestOf
<1>5. CASE u \in Asked(rows, q)
  <2>1. u \in Hidden(a, q, rows)
    BY <1>5 DEF Hidden
  <2>2. /\ q.isPrevious => u > a.data[1] /\ a.prev = a.data[1]
        /\ ~q.isPrevious => u < a.data[Len(a.data)] /\ a.next = a.data[Len(a.data)]
    BY <1>4, <2>1 DEF Exact
  <2>3. QED
    BY <1>2, <2>2
<1>6. CASE u \notin Asked(rows, q)
  <2>1. q.cursor # None /\ q.cursor \in Int
    <3>1. q.cursor # None
      BY <1>6 DEF Asked
    <3>2. \A i \in Ids : i \in Int
      BY CursorPaginationAssumption
    <3>3. QED
      BY <1>2, <3>1, <3>2
  <2>2. a.data[1] \in Asked(rows, q) /\ a.data[Len(a.data)] \in Asked(rows, q)
    BY <1>3 DEF Exact, Elems
  <2>3. CASE q.isPrevious
    <3>1. u <= q.cursor /\ a.data[Len(a.data)] > q.cursor
      BY <1>2, <1>6, <2>1, <2>2, <2>3 DEF Asked
    <3>2. u < a.data[Len(a.data)]
      BY <1>1, <1>2, <1>3, <2>1, <3>1
    <3>3. QED
      BY <1>4, <2>3, <3>2 DEF Exact
  <2>4. CASE ~q.isPrevious
    <3>1. u >= q.cursor /\ a.data[1] < q.cursor
      BY <1>2, <1>6, <2>1, <2>2, <2>4 DEF Asked
    <3>2. u > a.data[1]
      BY <1>1, <1>2, <1>3, <2>1, <3>1
    <3>3. QED
      BY <1>4, <2>1, <2>4, <3>2 DEF Exact
  <2>5. QED
    BY <1>2, <2>3, <2>4
<1>7. QED
  BY <1>5, <1>6

(* Two pages of the same rows, the second asked for backwards from just    *)
(* below the first: they are the same, but for a cursor to newer rows.     *)
LEMMA BackIsTheSame ==
    ASSUME NEW R \in SUBSET Ids,
           NEW q \in Queries, ~q.isPrevious, NEW a, Exact(a, q, R), a.next # None,
           NEW r \in Queries, r.isPrevious, NEW b, Exact(b, r, R),
           r.cursor # None, r.cursor < a.next,
           \A u \in R : ~(r.cursor < u /\ u < a.next)
    PROVE  \/ b = a
           \/ b = [a EXCEPT !.prev = None] /\ \A u \in R : u <= a.data[1]
<1> DEFINE A == Elems(a.data)
           B == Elems(b.data)
           low == a.data[Len(a.data)]
           top == a.data[1]
<1>1. /\ a.data \in Seq(Ids) /\ Descends(a.data) /\ Len(a.data) \in Nat
      /\ \A k \in 1 .. Len(a.data) : a.data[k] \in Int
      /\ b.data \in Seq(Ids) /\ Descends(b.data) /\ Len(b.data) \in Nat
      /\ \A k \in 1 .. Len(b.data) : b.data[k] \in Int
  BY IdsAreNumbers DEF Exact, DataOK
<1>2. \A i \in Ids : i \in Int
  BY CursorPaginationAssumption
<1>3. /\ r.cursor \in Int /\ q.cursor \in Ids \cup {None}
      /\ q.isPrevious \in BOOLEAN /\ r.isPrevious \in BOOLEAN
  BY <1>2 DEF Queries
<1>4. a.data # <<>> /\ a.next = low
  BY DEF Exact, DataOK
<1>5. 1 \in 1 .. Len(a.data) /\ Len(a.data) \in 1 .. Len(a.data) /\ low \in A /\ top \in A
  BY <1>1, <1>4 DEF Elems
<1>6. Hidden(a, q, R) # {} /\ Len(a.data) = Limit
  BY DEF Exact
<1>7. \A u \in Hidden(a, q, R) : u < low
  BY DEF Exact
<1>8. A \subseteq Asked(R, q) /\ B \subseteq Asked(R, r) /\ Asked(R, q) \subseteq R
  BY DEF Exact, Asked
<1>9. \A u \in A : low <= u /\ u <= top /\ u \in Int /\ u \in R
  <2>1. TAKE u \in A
  <2>2. PICK k \in 1 .. Len(a.data) : a.data[k] = u
    BY DEF Elems
  <2>3. low <= u
    BY <1>1, <1>5, <2>2 DEF Descends
  <2>4. u <= top
    BY <1>1, <1>5, <2>2 DEF Descends
  <2>5. QED
    BY <1>1, <1>8, <2>2, <2>3, <2>4
<1>10. low \in Int /\ top \in Int /\ r.cursor < low
  BY <1>1, <1>4, <1>5
<1>11. A \subseteq Asked(R, r)
  BY <1>3, <1>9, <1>10 DEF Asked
<1>12. \A u \in Asked(R, r) : u \in R /\ u \in Int /\ low <= u
  <2>1. TAKE u \in Asked(R, r)
  <2>2. u \in R /\ u \in Int /\ u > r.cursor
    BY <1>2 DEF Asked
  <2>3. QED
    BY <1>3, <1>4, <1>10, <2>2
<1>13. IsFiniteSet(A) /\ Cardinality(A) = Limit
  BY <1>1, <1>6, ElemsCount
<1>14. IsFiniteSet(B) /\ Cardinality(B) = Len(b.data) /\ Len(b.data) <= Limit
  BY <1>1, ElemsCount DEF Exact, DataOK
<1>15. A \subseteq B
  <2>1. SUFFICES ASSUME NEW u \in A, u \notin B PROVE FALSE
    OBVIOUS
  <2>2. u \in Hidden(b, r, R)
    BY <1>11, <2>1 DEF Hidden
  <2>3. Len(b.data) = Limit /\ u > b.data[1]
    BY <2>2 DEF Exact
  <2>4. 1 \in 1 .. Len(b.data)
    BY <2>3, CursorPaginationAssumption
  <2>5. \A v \in B : v < u /\ v \in Int
    <3>1. TAKE v \in B
    <3>2. PICK k \in 1 .. Len(b.data) : b.data[k] = v
      BY DEF Elems
    <3>3. v <= b.data[1]
      BY <1>1, <2>4, <3>2 DEF Descends
    <3>4. QED
      BY <1>1, <1>9, <2>1, <2>3, <2>4, <3>2, <3>3
  <2>6. \A v \in B : v \in A
    <3>1. TAKE v \in B
    <3>2. v \in R /\ low <= v /\ v < u
      BY <1>8, <1>12, <2>5
    <3>3. q.cursor = None \/ u < q.cursor
      BY <1>8, <2>1 DEF Asked
    <3>4. q.cursor # None => q.cursor \in Int
      BY <1>2, <1>3
    <3>5. v \in Asked(R, q)
      BY <1>9, <2>1, <2>5, <3>2, <3>3, <3>4 DEF Asked
    <3>6. v \notin Hidden(a, q, R)
      BY <1>7, <1>10, <2>5, <3>2
    <3>7. QED
      BY <3>5, <3>6 DEF Hidden
  <2>7. Cardinality(B) = Cardinality(A) /\ B \in SUBSET A
    BY <1>13, <1>14, <2>3, <2>6
  <2> HIDE DEF A, B
  <2>8. A = B
    BY <1>13, <2>7, FS_Subset
  <2>9. QED
    BY <2>1, <2>8
<1>16. A = B
  <2> HIDE DEF A, B
  <2>1. A \in SUBSET B /\ Cardinality(A) <= Cardinality(B)
    BY <1>14, <1>15, FS_Subset
  <2>2. Cardinality(A) = Cardinality(B)
    BY <1>1, <1>13, <1>14, <2>1, CursorPaginationAssumption
  <2>3. QED
    BY <1>14, <2>1, <2>2, FS_Subset
<1>17. b.data = a.data
  BY <1>1, <1>16, DescendsOneWay
<1>18. b.next = a.next
  BY <1>4, <1>17 DEF Exact, OldestOf
<1>19. NewestOf(a) = top /\ NewestOf(b) = top
  BY <1>4, <1>17 DEF NewestOf
<1>20. /\ a \in [data : Seq(Ids), next : Ids \cup {None}, prev : Ids \cup {None}]
       /\ b \in [data : Seq(Ids), next : Ids \cup {None}, prev : Ids \cup {None}]
  BY DEF Exact, DataOK
<1>21. CASE Hidden(b, r, R) # {}
  <2>1. b.prev = top
    BY <1>19, <1>21 DEF Exact
  <2>2. PICK u \in Hidden(b, r, R) : u > top
    BY <1>17, <1>21 DEF Exact
  <2>3. u \in R /\ u \notin A /\ u \in Int
    BY <1>2, <1>16, <2>2 DEF Hidden, Asked
  <2>4. u \notin Hidden(a, q, R)
    BY <1>5, <1>7, <1>9, <1>10, <2>2, <2>3
  <2>5. q.cursor # None
    BY <2>3, <2>4 DEF Hidden, Asked
  <2>6. a.prev = top
    BY <1>19, <2>5 DEF Exact
  <2>7. b = a
    BY <1>17, <1>18, <1>20, <2>1, <2>6
  <2>8. QED
    BY <2>7
<1>22. CASE Hidden(b, r, R) = {}
  <2>1. b.prev = None
    BY <1>22 DEF Exact
  <2>2. b = [a EXCEPT !.prev = None]
    BY <1>17, <1>18, <1>20, <2>1
  <2>3. \A u \in R : u <= top
    <3>1. TAKE u \in R
    <3>2. CASE u > r.cursor
      <4>1. u \in Asked(R, r)
        BY <3>2 DEF Asked
      <4>2. u \in A
        BY <1>16, <1>22, <4>1 DEF Hidden
      <4>3. QED
        BY <1>9, <4>2
    <3>3. CASE ~(u > r.cursor)
      BY <1>2, <1>3, <1>5, <1>9, <1>10, <3>3
    <3>4. QED
      BY <3>2, <3>3
  <2>4. QED
    BY <2>2, <2>3
<1>23. QED
  BY <1>21, <1>22

-----------------------------------------------------------------------------
(* The invariant.  The rows R, those there ever were G, and the list L are *)
(* parameters, for pages are compared with those of other states.          *)

(* A walk comes down from the cursor: to rows below it, and it passes by   *)
(* none that stays.                                                        *)
GoesOn(p, q) ==
    /\ \A u \in Elems(p.answer.data) : q.cursor # None => u < q.cursor
    /\ \A u \in p.stayed \ Elems(p.answer.data) :
          q.cursor = None \/ u < q.cursor => p.answer.next # None /\ u < p.answer.next

(* Nothing comes between a page and its cursor, except in the list of the  *)
(* most active, once the rows change.                                      *)
Joins(p, q, R, L) ==
    q.cursor # None /\ p.answer.data # <<>> /\ (L = "users" \/ p.fresh) =>
        \A u \in R : ~(p.answer.data[1] < u /\ u < q.cursor)

PageOK(p, q, R, G, L) ==
    /\ p \in Pages /\ DataOK(p.answer)
    /\ Elems(p.answer.data) \subseteq G
    /\ q.cursor # None => q.cursor \in G
    /\ p.fresh => Exact(p.answer, q, R)
    /\ ~q.isPrevious => GoesOn(p, q) /\ Joins(p, q, R, L)

CachedOK ==
    \A q \in Queries :
        cached[q] # None => list = "users" /\ PageOK(cached[q], q, rows, given, list)

PageIsOK == page # None => \E q \in Queries : PageOK(page, q, rows, given, list)

(* What is seen and what is to come; and the page is the one after prior.  *)
WalkOK ==
    walk # None =>
        /\ page # None
        /\ \E q \in Queries :
              /\ ~q.isPrevious /\ PageOK(page, q, rows, given, list)
              /\ prior # None => q.cursor = prior.answer.next
        /\ Descends(walk.seen)
        /\ \A u \in Elems(walk.seen) : page.answer.next # None => page.answer.next <= u
        /\ \A u \in walk.stayed \ Elems(walk.seen) :
              page.answer.next # None /\ u < page.answer.next

PriorOK ==
    walk # None /\ prior # None =>
        /\ prior.answer.next # None
        /\ \E q \in Queries : ~q.isPrevious /\ PageOK(prior, q, rows, given, list)
        /\ list = "mostActive" /\ prior.fresh => page.fresh

IndInv ==
    TypeOK /\ IsFiniteSet(rows) /\ CachedOK /\ PageIsOK /\ WalkOK /\ PriorOK

-----------------------------------------------------------------------------
(* Pages that are served. *)

LEMMA PageFields ==
    ASSUME NEW p \in Pages
    PROVE  /\ p.answer \in [data : Seq(Ids), next : Ids \cup {None}, prev : Ids \cup {None}]
           /\ p.fresh \in BOOLEAN /\ p.stayed \in SUBSET Ids
           /\ p.answer.data \in Seq(Ids) /\ p.answer.next \in Ids \cup {None}
           /\ p.answer.prev \in Ids \cup {None}
BY DEF Pages

LEMMA EndsOfData ==
    ASSUME NEW s \in Seq(Ids), Descends(s), s # <<>>
    PROVE  /\ s[1] \in Elems(s) /\ s[Len(s)] \in Elems(s)
           /\ \A u \in Elems(s) : u \in Ids /\ u \in Int /\ s[Len(s)] <= u /\ u <= s[1]
<1>1. Len(s) \in Nat /\ \A k \in 1 .. Len(s) : s[k] \in Ids /\ s[k] \in Int
  BY IdsAreNumbers
<1>2. 1 \in 1 .. Len(s) /\ Len(s) \in 1 .. Len(s)
  BY <1>1
<1>3. ASSUME NEW u \in Elems(s)
      PROVE  u \in Ids /\ u \in Int /\ s[Len(s)] <= u /\ u <= s[1]
  <2>1. PICK k \in 1 .. Len(s) : s[k] = u
    BY DEF Elems
  <2>2. s[Len(s)] <= u
    BY <1>1, <1>2, <2>1 DEF Descends
  <2>3. u <= s[1]
    BY <1>1, <1>2, <2>1 DEF Descends
  <2>4. QED
    BY <1>1, <2>1, <2>2, <2>3
<1>4. QED
  BY <1>2, <1>3 DEF Elems

LEMMA ComputedIsOK ==
    ASSUME TypeOK, IsFiniteSet(rows), NEW q \in Queries,
           q.cursor # None => q.cursor \in given
    PROVE  PageOK(Compute(q), q, rows, given, list) /\ Compute(q).fresh
<1> DEFINE p == Compute(q)
           a == p.answer
           s == a.data
<1>1. p = [answer |-> Result(Find(q), q), fresh |-> TRUE, stayed |-> rows]
  BY DEF Compute
<1>2. rows \subseteq given /\ given \subseteq Ids
  BY DEF TypeOK
<1> HIDE DEF p
<1>3. Exact(a, q, rows)
  BY <1>1, <1>2, ResultIsExact
<1>4. DataOK(a) /\ Elems(s) \subseteq Asked(rows, q)
  BY <1>3 DEF Exact
<1>5. p \in Pages
  BY <1>1, <1>2, <1>4 DEF Pages, DataOK
<1>6. s \in Seq(Ids) /\ Descends(s)
  BY <1>4 DEF DataOK
<1>7. Elems(s) \subseteq given
  BY <1>2, <1>4 DEF Asked
<1>8. q.isPrevious \/ (GoesOn(p, q) /\ Joins(p, q, rows, list))
  <2>1. SUFFICES ASSUME ~q.isPrevious PROVE GoesOn(p, q) /\ Joins(p, q, rows, list)
    OBVIOUS
  <2>2. \A u \in Elems(s) : q.cursor # None => u < q.cursor
    BY <1>4, <2>1 DEF Asked
  <2>3. ASSUME NEW u \in rows \ Elems(s), q.cursor = None \/ u < q.cursor
        PROVE  u \in Hidden(a, q, rows)
    BY <2>1, <2>3 DEF Hidden, Asked
  <2>4. \A u \in Hidden(a, q, rows) : s # <<>> /\ u < s[Len(s)] /\ a.next = s[Len(s)]
    <3>1. TAKE u \in Hidden(a, q, rows)
    <3>2. Len(s) = Limit /\ u < s[Len(s)] /\ a.next = OldestOf(a)
      BY <1>3, <2>1 DEF Exact
    <3>3. s # <<>>
      BY <3>2, CursorPaginationAssumption
    <3>4. QED
      BY <3>2, <3>3 DEF OldestOf
  <2>5. \A u \in Hidden(a, q, rows) : a.next # None /\ u < a.next
    <3>1. TAKE u \in Hidden(a, q, rows)
    <3>2. a.next \in Ids
      BY <1>6, <2>4, EndsOfData
    <3>3. QED
      BY <2>4, <3>2, CursorPaginationAssumption
  <2>6. p.stayed = rows
    BY <1>1
  <2>7. GoesOn(p, q)
    BY <2>2, <2>3, <2>5, <2>6 DEF GoesOn
  <2>8. ASSUME q.cursor # None, s # <<>>, NEW u \in rows, s[1] < u, u < q.cursor
        PROVE  FALSE
    <3>1. u \in Int /\ s[1] \in Int /\ s[Len(s)] \in Int /\ s[Len(s)] <= s[1]
      BY <1>2, <1>6, <2>8, EndsOfData, CursorPaginationAssumption
    <3>2. u \notin Elems(s)
      BY <1>6, <2>8, <3>1, EndsOfData
    <3>3. u < s[Len(s)]
      BY <2>3, <2>4, <2>8, <3>2
    <3>4. QED
      BY <2>8, <3>1, <3>3
  <2>9. QED
    BY <2>7, <2>8 DEF Joins
<1>9. p.fresh
  BY <1>1
<1>10. PageOK(p, q, rows, given, list)
  BY <1>3, <1>4, <1>5, <1>7, <1>8, <1>9 DEF PageOK
<1>11. QED
  BY <1>9, <1>10 DEF p

LEMMA ServedIsOK ==
    ASSUME IndInv, NEW q \in Queries, q.cursor # None => q.cursor \in given,
           NEW p, Serve(q, p)
    PROVE  /\ p \in Pages /\ p # None /\ PageOK(p, q, rows, given, list)
           /\ list = "mostActive" => p.fresh
           /\ cached' \in [Queries -> Pages \cup {None}]
           /\ \A r \in Queries : cached'[r] # None =>
                 list = "users" /\ PageOK(cached'[r], r, rows, given, list)
<1>1. TypeOK /\ IsFiniteSet(rows) /\ CachedOK
  BY DEF IndInv
<1>2. PageOK(Compute(q), q, rows, given, list) /\ Compute(q).fresh
  BY <1>1, ComputedIsOK
<1>3. PageOK(p, q, rows, given, list)
  BY <1>1, <1>2 DEF Serve, CachedOK
<1>4. list = "mostActive" => p.fresh
  BY <1>1, <1>2 DEF Serve, CachedOK
<1>5. p \in Pages
  BY <1>3 DEF PageOK
<1>6. p # None
  BY <1>5, NoneIsNoPage
<1>7. cached \in [Queries -> Pages \cup {None}] /\ list \in {"users", "mostActive"}
  BY <1>1 DEF TypeOK
<1>8. cached' = IF list = "users" THEN [cached EXCEPT ![q] = p] ELSE cached
  BY DEF Serve
<1>9. cached' \in [Queries -> Pages \cup {None}]
  BY <1>5, <1>7, <1>8
<1>10. ASSUME NEW r \in Queries, cached'[r] # None
       PROVE  list = "users" /\ PageOK(cached'[r], r, rows, given, list)
  <2>1. CASE list = "users" /\ r = q
    BY <1>3, <1>7, <1>8, <2>1
  <2>2. CASE ~(list = "users" /\ r = q)
    <3>1. cached'[r] = cached[r]
      BY <1>7, <1>8, <2>2
    <3>2. QED
      BY <1>1, <1>10, <3>1 DEF CachedOK
  <2>3. QED
    BY <2>1, <2>2
<1>11. QED
  BY <1>3, <1>4, <1>5, <1>6, <1>9, <1>10

-----------------------------------------------------------------------------
(* Pages that get old. *)

LEMMA AgedIsOK ==
    ASSUME NEW R \in SUBSET Ids, NEW G \in SUBSET Ids, NEW L, NEW N \in SUBSET Ids,
           L = "users" => \A u \in N \ R : \A v \in G : v < u,
           NEW q \in Queries, NEW p, p # None, PageOK(p, q, R, G, L)
    PROVE  /\ Aged(p, N) \in Pages /\ Aged(p, N) # None
           /\ Aged(p, N).answer = p.answer /\ Aged(p, N).fresh = FALSE
           /\ PageOK(Aged(p, N), q, N, G \cup N, L)
<1> DEFINE o == Aged(p, N)
<1>1. p \in Pages /\ DataOK(p.answer)
  BY DEF PageOK
<1>2. o = [answer |-> p.answer, fresh |-> FALSE, stayed |-> p.stayed \cap N]
  BY <1>1 DEF Aged, Pages
<1>3. o \in Pages
  BY <1>1, <1>2, PageFields DEF Pages
<1>4. o # None
  BY <1>3, NoneIsNoPage
<1> HIDE DEF o
<1>5. o.answer = p.answer /\ o.fresh = FALSE /\ o.stayed = p.stayed \cap N
  BY <1>2
<1>6. ~q.isPrevious => GoesOn(o, q)
  BY <1>5 DEF PageOK, GoesOn
<1>7. ASSUME ~q.isPrevious, q.cursor # None, p.answer.data # <<>>, L = "users",
             NEW u \in N, p.answer.data[1] < u, u < q.cursor
      PROVE  FALSE
  <2>1. u \notin R
    BY <1>7 DEF PageOK, Joins
  <2>2. q.cursor \in G /\ q.cursor < u
    BY <1>7, <2>1 DEF PageOK
  <2>3. \A i \in Ids : i \in Int
    BY CursorPaginationAssumption
  <2>4. QED
    BY <1>7, <2>2, <2>3
<1>8. ~q.isPrevious => Joins(o, q, N, L)
  BY <1>5, <1>7 DEF Joins
<1>9. PageOK(o, q, N, G \cup N, L)
  BY <1>1, <1>3, <1>5, <1>6, <1>8 DEF PageOK
<1>10. QED
  BY <1>3, <1>4, <1>5, <1>9 DEF o

-----------------------------------------------------------------------------
(* The steps. *)

LEMMA InitOK == Init => IndInv
<1> SUFFICES ASSUME Init PROVE IndInv
  OBVIOUS
<1>1. given = rows /\ IsFiniteSet(rows) /\ rows \subseteq Ids
  BY CursorPaginationAssumption DEF Init
<1>2. TypeOK
  BY <1>1, CursorPaginationAssumption DEF Init, TypeOK
<1>3. QED
  BY <1>1, <1>2 DEF Init, IndInv, CachedOK, PageIsOK, WalkOK, PriorOK

(* What the step of a client leaves to show.                               *)
LEMMA ServeKeeps ==
    ASSUME IndInv, NEW q \in Queries, q.cursor # None => q.cursor \in given,
           NEW p, Serve(q, p),
           prior' = None \/ prior' \in Pages,
           walk' = None \/ walk' \in [seen : Seq(Ids), stayed : SUBSET Ids],
           WalkOK', PriorOK'
    PROVE  IndInv'
<1>1. /\ list' = list /\ rows' = rows /\ given' = given /\ changes' = changes /\ page' = p
  BY DEF Serve
<1>2. /\ p \in Pages /\ p # None /\ PageOK(p, q, rows, given, list)
      /\ cached' \in [Queries -> Pages \cup {None}]
      /\ \A r \in Queries : cached'[r] # None =>
            list = "users" /\ PageOK(cached'[r], r, rows, given, list)
  BY ServedIsOK
<1>3. Len(p.answer.data) <= Limit
  BY <1>2 DEF PageOK, DataOK
<1>4. TypeOK'
  BY <1>1, <1>2, <1>3 DEF IndInv, TypeOK
<1>5. CachedOK'
  BY <1>1, <1>2 DEF CachedOK
<1>6. PageIsOK'
  BY <1>1, <1>2 DEF PageIsOK
<1>7. QED
  BY <1>1, <1>4, <1>5, <1>6 DEF IndInv

LEMMA FirstKeeps == IndInv /\ First => IndInv'
<1> DEFINE q == [cursor |-> None, isPrevious |-> FALSE]
<1> SUFFICES ASSUME IndInv, First PROVE IndInv'
  OBVIOUS
<1>1. q \in Queries /\ q.cursor = None /\ ~q.isPrevious
  BY DEF Queries
<1>2. PICK p : /\ Serve(q, p) /\ prior' = None
               /\ walk' = [seen |-> p.answer.data, stayed |-> p.stayed]
  BY DEF First
<1> HIDE DEF q
<1>3. p \in Pages /\ p # None /\ PageOK(p, q, rows, given, list)
  BY <1>1, <1>2, ServedIsOK
<1>4. /\ list' = list /\ rows' = rows /\ given' = given /\ page' = p
  BY <1>2 DEF Serve
<1>5. walk' \in [seen : Seq(Ids), stayed : SUBSET Ids]
  BY <1>2, <1>3, PageFields
<1>6. p.answer.data \in Seq(Ids) /\ Descends(p.answer.data) /\ GoesOn(p, q) /\ DataOK(p.answer)
  BY <1>1, <1>3 DEF PageOK, DataOK
<1>7. \A u \in Elems(p.answer.data) : p.answer.next # None => p.answer.next <= u
  BY <1>6, EndsOfData DEF DataOK
<1>8. \A u \in p.stayed \ Elems(p.answer.data) : p.answer.next # None /\ u < p.answer.next
  BY <1>1, <1>6 DEF GoesOn
<1>9. WalkOK'
  <2>1. page' # None
    BY <1>3, <1>4
  <2>2. \E r \in Queries : ~r.isPrevious /\ PageOK(page', r, rows', given', list')
    BY <1>1, <1>3, <1>4
  <2>3. Descends(walk'.seen)
    BY <1>2, <1>6
  <2>4. \A u \in Elems(walk'.seen) : page'.answer.next # None => page'.answer.next <= u
    BY <1>2, <1>4, <1>7
  <2>5. \A u \in walk'.stayed \ Elems(walk'.seen) :
            page'.answer.next # None /\ u < page'.answer.next
    BY <1>2, <1>4, <1>8
  <2>6. QED
    BY <1>2, <2>1, <2>2, <2>3, <2>4, <2>5 DEF WalkOK
<1>10. PriorOK'
  BY <1>2 DEF PriorOK
<1>11. QED
  BY <1>1, <1>2, <1>5, <1>9, <1>10, ServeKeeps

LEMMA DescendsOn ==
    ASSUME NEW s \in Seq(Ids), NEW t \in Seq(Ids), Descends(s), Descends(t),
           \A u \in Elems(s), v \in Elems(t) : v < u
    PROVE  /\ s \o t \in Seq(Ids) /\ Descends(s \o t)
           /\ Elems(s \o t) = Elems(s) \cup Elems(t)
<1>1. Len(s) \in Nat /\ Len(t) \in Nat
  OBVIOUS
<1>2. /\ s \o t \in Seq(Ids) /\ Len(s \o t) = Len(s) + Len(t)
      /\ \A i \in 1 .. Len(s) + Len(t) :
            (s \o t)[i] = IF i <= Len(s) THEN s[i] ELSE t[i - Len(s)]
  BY ConcatProperties
<1> DEFINE r == s \o t
<1> HIDE DEF r
<1>3. /\ r \in Seq(Ids) /\ Len(r) = Len(s) + Len(t)
      /\ \A i \in 1 .. Len(s) : i \in 1 .. Len(r) /\ r[i] = s[i]
      /\ \A i \in 1 .. Len(t) : i + Len(s) \in 1 .. Len(r) /\ r[i + Len(s)] = t[i]
      /\ \A i \in 1 .. Len(r) : i \in 1 .. Len(s) \/ i - Len(s) \in 1 .. Len(t)
      /\ \A i \in 1 .. Len(r) : i > Len(s) => r[i] = t[i - Len(s)]
  BY <1>1, <1>2 DEF r
<1>4. ASSUME NEW j \in 1 .. Len(r), NEW k \in 1 .. Len(r), j < k PROVE r[k] < r[j]
  <2>1. CASE k \in 1 .. Len(s)
    <3>1. j \in 1 .. Len(s)
      BY <1>1, <1>3, <1>4, <2>1
    <3>2. QED
      BY <1>3, <1>4, <2>1, <3>1 DEF Descends
  <2>2. CASE k \notin 1 .. Len(s) /\ j \in 1 .. Len(s)
    <3>1. k - Len(s) \in 1 .. Len(t) /\ r[k] = t[k - Len(s)] /\ r[j] = s[j]
      BY <1>1, <1>3, <2>2
    <3>2. QED
      BY <2>2, <3>1 DEF Elems
  <2>3. CASE j \notin 1 .. Len(s)
    <3>1. /\ k - Len(s) \in 1 .. Len(t) /\ r[k] = t[k - Len(s)]
          /\ j - Len(s) \in 1 .. Len(t) /\ r[j] = t[j - Len(s)]
          /\ j - Len(s) < k - Len(s)
      BY <1>1, <1>3, <1>4, <2>3
    <3>2. QED
      BY <3>1 DEF Descends
  <2>4. QED
    BY <2>1, <2>2, <2>3
<1>5. \A u : u \in Elems(r) => u \in Elems(s) \cup Elems(t)
  <2>1. SUFFICES ASSUME NEW i \in 1 .. Len(r) PROVE r[i] \in Elems(s) \cup Elems(t)
    BY DEF Elems
  <2>2. CASE i \in 1 .. Len(s)
    BY <1>3, <2>2 DEF Elems
  <2>3. CASE i \notin 1 .. Len(s)
    <3>1. i - Len(s) \in 1 .. Len(t) /\ r[i] = t[i - Len(s)]
      BY <1>1, <1>3, <2>3
    <3>2. QED
      BY <3>1 DEF Elems
  <2>4. QED
    BY <2>2, <2>3
<1>6. \A u : u \in Elems(s) \cup Elems(t) => u \in Elems(r)
  <2>1. \A i \in 1 .. Len(s) : s[i] \in Elems(r)
    BY <1>3 DEF Elems
  <2>2. \A i \in 1 .. Len(t) : t[i] \in Elems(r)
    BY <1>3 DEF Elems
  <2>3. QED
    BY <2>1, <2>2 DEF Elems
<1>7. Elems(r) = Elems(s) \cup Elems(t)
  BY <1>5, <1>6
<1>8. QED
  BY <1>3, <1>4, <1>7 DEF Descends, r

LEMMA NextPageKeeps == IndInv /\ NextPage => IndInv'
<1> DEFINE q == [cursor |-> page.answer.next, isPrevious |-> FALSE]
<1> SUFFICES ASSUME IndInv, NextPage PROVE IndInv'
  OBVIOUS
<1>1. page # None /\ page.answer.next # None
  BY DEF NextPage
<1>2. page \in Pages /\ DataOK(page.answer) /\ Elems(page.answer.data) \subseteq given
  BY <1>1 DEF IndInv, PageIsOK, PageOK
<1>3. page.answer.next \in given /\ page.answer.next \in Ids
  BY <1>1, <1>2, EndsOfData DEF DataOK
<1>4. q \in Queries /\ q.cursor = page.answer.next /\ ~q.isPrevious
  BY <1>2, PageFields DEF Queries
<1>5. PICK p : /\ Serve(q, p) /\ prior' = page
               /\ walk' = IF walk = None THEN None
                          ELSE [seen |-> walk.seen \o p.answer.data,
                                stayed |-> walk.stayed \cap p.stayed]
  BY DEF NextPage
<1> HIDE DEF q
<1>6. /\ p \in Pages /\ p # None /\ PageOK(p, q, rows, given, list)
      /\ list = "mostActive" => p.fresh
  BY <1>3, <1>4, <1>5, ServedIsOK
<1>7. /\ list' = list /\ rows' = rows /\ given' = given /\ page' = p
  BY <1>5 DEF Serve
<1>8. CASE walk = None
  <2>1. walk' = None
    BY <1>5, <1>8
  <2>2. WalkOK' /\ PriorOK'
    BY <2>1 DEF WalkOK, PriorOK
  <2>3. QED
    BY <1>2, <1>3, <1>4, <1>5, <2>1, <2>2, ServeKeeps
<1>9. CASE walk # None
  <2>1. /\ walk \in [seen : Seq(Ids), stayed : SUBSET Ids]
        /\ Descends(walk.seen)
        /\ \A u \in Elems(walk.seen) : page.answer.next <= u
        /\ \A u \in walk.stayed \ Elems(walk.seen) : u < page.answer.next
    BY <1>1, <1>9 DEF IndInv, TypeOK, WalkOK
  <2>2. /\ p.answer.data \in Seq(Ids) /\ Descends(p.answer.data) /\ p.stayed \in SUBSET Ids
        /\ GoesOn(p, q) /\ DataOK(p.answer)
    BY <1>4, <1>6, PageFields DEF PageOK, DataOK
  <2>3. \A i \in Ids : i \in Int
    BY CursorPaginationAssumption
  <2>4. \A u \in Elems(walk.seen) : u \in Int
    BY <2>1, IdsAreNumbers DEF Elems
  <2>5. \A v \in Elems(p.answer.data) : v \in Int /\ v < page.answer.next
    BY <1>1, <1>4, <2>2, IdsAreNumbers DEF GoesOn, Elems
  <2>6. \A u \in Elems(walk.seen), v \in Elems(p.answer.data) : v < u
    BY <1>3, <2>1, <2>3, <2>4, <2>5
  <2>7. /\ walk.seen \o p.answer.data \in Seq(Ids) /\ Descends(walk.seen \o p.answer.data)
        /\ Elems(walk.seen \o p.answer.data) = Elems(walk.seen) \cup Elems(p.answer.data)
    BY <2>1, <2>2, <2>6, DescendsOn
  <2>8. /\ walk' \in [seen : Seq(Ids), stayed : SUBSET Ids]
        /\ walk'.seen = walk.seen \o p.answer.data
        /\ walk'.stayed = walk.stayed \cap p.stayed
    BY <1>5, <1>9, <2>1, <2>2, <2>7
  <2>9. \A u \in Elems(walk'.seen) : p.answer.next # None => p.answer.next <= u
    <3>1. SUFFICES ASSUME NEW u \in Elems(walk'.seen), p.answer.next # None
                   PROVE  p.answer.next <= u
      OBVIOUS
    <3>2. p.answer.next \in Elems(p.answer.data)
          /\ \A v \in Elems(p.answer.data) : p.answer.next <= v
      BY <2>2, <3>1, EndsOfData DEF DataOK
    <3>3. CASE u \in Elems(p.answer.data)
      BY <3>2, <3>3
    <3>4. CASE u \in Elems(walk.seen)
      BY <2>4, <2>5, <2>6, <3>2, <3>4
    <3>5. QED
      BY <2>7, <2>8, <3>1, <3>3, <3>4
  <2>10. \A u \in walk'.stayed \ Elems(walk'.seen) :
             p.answer.next # None /\ u < p.answer.next
    BY <1>4, <2>1, <2>2, <2>7, <2>8 DEF GoesOn
  <2>11. \E r \in Queries : /\ ~r.isPrevious /\ PageOK(p, r, rows, given, list)
                            /\ r.cursor = page.answer.next
    BY <1>4, <1>6
  <2>12. WalkOK'
    BY <1>5, <1>6, <1>7, <2>7, <2>8, <2>9, <2>10, <2>11 DEF WalkOK
  <2>13. \E r \in Queries : ~r.isPrevious /\ PageOK(page, r, rows, given, list)
    BY <1>9 DEF IndInv, WalkOK
  <2>14. PriorOK'
    BY <1>1, <1>5, <1>6, <1>7, <2>13 DEF PriorOK
  <2>15. QED
    BY <1>2, <1>3, <1>4, <1>5, <2>8, <2>12, <2>14, ServeKeeps
<1>10. QED
  BY <1>8, <1>9

LEMMA PreviousPageKeeps == IndInv /\ PreviousPage => IndInv'
<1> DEFINE q == [cursor |-> page.answer.prev, isPrevious |-> TRUE]
<1> SUFFICES ASSUME IndInv, PreviousPage PROVE IndInv'
  OBVIOUS
<1>1. page # None /\ page.answer.prev # None
  BY DEF PreviousPage
<1>2. page \in Pages /\ DataOK(page.answer) /\ Elems(page.answer.data) \subseteq given
  BY <1>1 DEF IndInv, PageIsOK, PageOK
<1>3. page.answer.prev \in given
  BY <1>1, <1>2, EndsOfData DEF DataOK
<1>4. q \in Queries /\ q.cursor = page.answer.prev
  BY <1>2, PageFields DEF Queries
<1>5. /\ \E p \in {cached[q], Compute(q)} \ {None} : Serve(q, p)
      /\ walk' = None /\ prior' = prior
  BY DEF PreviousPage
<1>6. WalkOK' /\ PriorOK'
  BY <1>5 DEF WalkOK, PriorOK
<1>7. prior' = None \/ prior' \in Pages
  BY <1>5 DEF IndInv, TypeOK
<1> HIDE DEF q
<1>8. QED
  BY <1>3, <1>4, <1>5, <1>6, <1>7, ServeKeeps

LEMMA ChangeKeeps ==
    ASSUME IndInv, NEW new \in SUBSET Ids, IsFiniteSet(new),
           list = "users" => \A u \in new \ rows : \A v \in given : v < u,
           Change(new)
    PROVE  IndInv'
<1>1. /\ rows' = new /\ given' = given \cup new /\ list' = list
      /\ cached' = [q \in Queries |-> Aged(cached[q], new)]
      /\ page' = Aged(page, new) /\ prior' = Aged(prior, new)
      /\ walk' = IF walk = None THEN None ELSE [walk EXCEPT !.stayed = @ \cap new]
      /\ changes' = changes + 1 /\ changes < MaxChanges
  BY DEF Change
<1>2. TypeOK /\ rows \in SUBSET Ids /\ given \in SUBSET Ids
  BY DEF IndInv, TypeOK
<1>3. Aged(None, new) = None
  BY DEF Aged
<1>4. ASSUME NEW p, p # None, NEW q \in Queries, PageOK(p, q, rows, given, list)
      PROVE  /\ Aged(p, new) \in Pages /\ Aged(p, new) # None
             /\ Aged(p, new).answer = p.answer /\ Aged(p, new).fresh = FALSE
             /\ PageOK(Aged(p, new), q, rows', given', list')
  <2>1. /\ Aged(p, new) \in Pages /\ Aged(p, new) # None
        /\ Aged(p, new).answer = p.answer /\ Aged(p, new).fresh = FALSE
        /\ PageOK(Aged(p, new), q, new, given \cup new, list)
    BY <1>2, <1>4, AgedIsOK
  <2>2. QED
    BY <1>1, <2>1
<1>5. ASSUME NEW q \in Queries
      PROVE  /\ cached'[q] \in Pages \cup {None}
             /\ cached'[q] # None => list' = "users" /\ PageOK(cached'[q], q, rows', given', list')
  <2>1. cached'[q] = Aged(cached[q], new)
    BY <1>1
  <2>2. CASE cached[q] = None
    BY <1>3, <2>1, <2>2
  <2>3. CASE cached[q] # None
    <3>1. list = "users" /\ PageOK(cached[q], q, rows, given, list)
      BY <2>3 DEF IndInv, CachedOK
    <3>2. QED
      BY <1>1, <1>4, <2>1, <2>3, <3>1
  <2>4. QED
    BY <2>2, <2>3
<1>6. CachedOK' /\ cached' \in [Queries -> Pages \cup {None}]
  BY <1>1, <1>5 DEF CachedOK
<1>7. /\ page = None => page' = None
      /\ page # None => /\ page' \in Pages /\ page' # None
                        /\ page'.answer = page.answer /\ page'.fresh = FALSE
                        /\ Len(page.answer.data) <= Limit
  <2>1. page # None => \E q \in Queries : PageOK(page, q, rows, given, list)
    BY DEF IndInv, PageIsOK
  <2>2. page # None => Len(page.answer.data) <= Limit
    BY <1>2 DEF TypeOK
  <2>3. QED
    BY <1>1, <1>3, <1>4, <2>1, <2>2
<1>8. PageIsOK'
  <2>1. CASE page = None
    BY <1>7, <2>1 DEF PageIsOK
  <2>2. CASE page # None
    <3>1. PICK q \in Queries : PageOK(page, q, rows, given, list)
      BY <2>2 DEF IndInv, PageIsOK
    <3>2. PageOK(page', q, rows', given', list')
      BY <1>1, <1>4, <2>2, <3>1
    <3>3. QED
      BY <3>2 DEF PageIsOK
  <2>3. QED
    BY <2>1, <2>2
<1>9. /\ prior' = None \/ prior' \in Pages
      /\ prior' # None => prior # None /\ prior'.answer = prior.answer /\ prior'.fresh = FALSE
  <2>1. CASE prior = None
    BY <1>1, <1>3, <2>1
  <2>2. CASE prior # None
    <3>1. prior \in Pages
      BY <1>2, <2>2 DEF TypeOK
    <3>2. prior' = [answer |-> prior.answer, fresh |-> FALSE, stayed |-> prior.stayed \cap new]
      BY <1>1, <2>2, <3>1 DEF Aged, Pages
    <3>3. QED
      BY <2>2, <3>1, <3>2, PageFields DEF Pages
  <2>3. QED
    BY <2>1, <2>2
<1>10. /\ walk = None => walk' = None
       /\ walk # None => /\ walk' \in [seen : Seq(Ids), stayed : SUBSET Ids]
                         /\ walk'.seen = walk.seen /\ walk'.stayed = walk.stayed \cap new
  BY <1>1, <1>2 DEF TypeOK
<1>11. WalkOK'
  <2>1. SUFFICES ASSUME walk' # None
                 PROVE  /\ page' # None
                        /\ \E q \in Queries :
                              /\ ~q.isPrevious /\ PageOK(page', q, rows', given', list')
                              /\ prior' # None => q.cursor = prior'.answer.next
                        /\ Descends(walk'.seen)
                        /\ \A u \in Elems(walk'.seen) :
                              page'.answer.next # None => page'.answer.next <= u
                        /\ \A u \in walk'.stayed \ Elems(walk'.seen) :
                              page'.answer.next # None /\ u < page'.answer.next
    BY DEF WalkOK
  <2>2. walk # None
    BY <1>10, <2>1
  <2>3. page # None
    BY <2>2 DEF IndInv, WalkOK
  <2>4. PICK q \in Queries : /\ ~q.isPrevious /\ PageOK(page, q, rows, given, list)
                             /\ prior # None => q.cursor = prior.answer.next
    BY <2>2 DEF IndInv, WalkOK
  <2>5. PageOK(page', q, rows', given', list')
    BY <1>1, <1>4, <2>3, <2>4
  <2>6. prior' # None => q.cursor = prior'.answer.next
    BY <1>9, <2>4
  <2>7. /\ Descends(walk.seen)
        /\ \A u \in Elems(walk.seen) : page.answer.next # None => page.answer.next <= u
        /\ \A u \in walk.stayed \ Elems(walk.seen) :
              page.answer.next # None /\ u < page.answer.next
    BY <2>2 DEF IndInv, WalkOK
  <2>8. QED
    BY <1>7, <1>10, <2>2, <2>3, <2>4, <2>5, <2>6, <2>7
<1>12. PriorOK'
  <2>1. SUFFICES ASSUME walk' # None, prior' # None
                 PROVE  /\ prior'.answer.next # None
                        /\ \E q \in Queries : ~q.isPrevious /\ PageOK(prior', q, rows', given', list')
                        /\ list' = "mostActive" /\ prior'.fresh => page'.fresh
    BY DEF PriorOK
  <2>2. walk # None /\ prior # None
    BY <1>9, <1>10, <2>1
  <2>3. PICK q \in Queries : ~q.isPrevious /\ PageOK(prior, q, rows, given, list)
    BY <2>2 DEF IndInv, PriorOK
  <2>4. PageOK(prior', q, rows', given', list')
    BY <1>1, <1>4, <2>2, <2>3
  <2>5. prior.answer.next # None
    BY <2>2 DEF IndInv, PriorOK
  <2>6. QED
    BY <1>9, <2>1, <2>3, <2>4, <2>5
<1>13. changes' \in 0 .. MaxChanges
  BY <1>1, <1>2, CursorPaginationAssumption DEF TypeOK
<1>14. rows' \subseteq given' /\ given' \subseteq Ids /\ IsFiniteSet(rows')
  BY <1>1, <1>2
<1>15. page' = None \/ page' \in Pages
  BY <1>7
<1>16. page' # None => Len(page'.answer.data) <= Limit
  BY <1>7
<1>17. walk' = None \/ walk' \in [seen : Seq(Ids), stayed : SUBSET Ids]
  BY <1>10
<1>18. list' \in {"users", "mostActive"}
  BY <1>1, <1>2 DEF TypeOK
<1>19. TypeOK'
  BY <1>6, <1>9, <1>13, <1>14, <1>15, <1>16, <1>17, <1>18 DEF TypeOK
<1>20. QED
  BY <1>6, <1>8, <1>11, <1>12, <1>14, <1>19 DEF IndInv

LEMMA ExpireKeeps == ASSUME IndInv, NEW q \in Queries, Expire(q) PROVE IndInv'
<1>1. /\ cached' = [cached EXCEPT ![q] = None]
      /\ UNCHANGED <<list, rows, given, page, prior, walk, changes>>
  BY DEF Expire
<1>2. cached \in [Queries -> Pages \cup {None}]
  BY DEF IndInv, TypeOK
<1>3. cached' \in [Queries -> Pages \cup {None}]
  BY <1>1, <1>2
<1>4. TypeOK'
  BY <1>1, <1>3 DEF IndInv, TypeOK
<1>5. \A r \in Queries : cached'[r] # None => cached'[r] = cached[r]
  BY <1>1, <1>2
<1>6. CachedOK'
  BY <1>1, <1>5 DEF IndInv, CachedOK
<1>7. PageIsOK' /\ WalkOK' /\ PriorOK'
  BY <1>1 DEF IndInv, PageIsOK, WalkOK, PriorOK
<1>8. QED
  BY <1>1, <1>4, <1>6, <1>7 DEF IndInv

LEMMA NextKeeps == IndInv /\ [Next]_vars => IndInv'
<1> SUFFICES ASSUME IndInv, [Next]_vars PROVE IndInv'
  OBVIOUS
<1>1. rows \subseteq given /\ given \subseteq Ids /\ IsFiniteSet(rows)
  BY DEF IndInv, TypeOK
<1>2. CASE First
  BY <1>2, FirstKeeps
<1>3. CASE NextPage
  BY <1>3, NextPageKeeps
<1>4. CASE PreviousPage
  BY <1>4, PreviousPageKeeps
<1>5. ASSUME NEW u \in Ids, Appear(u) PROVE IndInv'
  <2>1. IsFiniteSet(rows \cup {u}) /\ rows \cup {u} \in SUBSET Ids
    BY <1>1, FS_AddElement
  <2>2. list = "users" => \A w \in (rows \cup {u}) \ rows : \A v \in given : v < w
    BY <1>5 DEF Appear
  <2>3. Change(rows \cup {u})
    BY <1>5 DEF Appear
  <2>4. QED
    BY <2>1, <2>2, <2>3, ChangeKeeps
<1>6. ASSUME NEW u \in Ids, Vanish(u) PROVE IndInv'
  <2>1. IsFiniteSet(rows \ {u}) /\ rows \ {u} \in SUBSET Ids
    BY <1>1, FS_RemoveElement
  <2>2. list = "users" => \A w \in (rows \ {u}) \ rows : \A v \in given : v < w
    OBVIOUS
  <2>3. Change(rows \ {u})
    BY <1>6 DEF Vanish
  <2>4. QED
    BY <2>1, <2>2, <2>3, ChangeKeeps
<1>7. ASSUME NEW q \in Queries, Expire(q) PROVE IndInv'
  BY <1>7, ExpireKeeps
<1>8. CASE UNCHANGED vars
  BY <1>8 DEF vars, IndInv, TypeOK, CachedOK, PageIsOK, WalkOK, PriorOK
<1>9. QED
  BY <1>2, <1>3, <1>4, <1>5, <1>6, <1>7, <1>8 DEF Next

THEOREM Invariance == Spec => []IndInv
BY InitOK, NextKeeps, PTL DEF Spec

-----------------------------------------------------------------------------
(* The theorems. *)

(* The lists, their pages and the walks have their types, and no page is   *)
(* longer than its limit.                                                  *)
THEOREM TypeCorrect == Spec => []TypeOK
<1>1. IndInv => TypeOK
  BY DEF IndInv
<1>2. QED
  BY <1>1, Invariance, PTL

(* The pages that lead on from the first, each by the cursor of the one    *)
(* before, miss no row that stays and repeat none, whoever registers, is   *)
(* deleted or joins the most active meanwhile, and however old the pages   *)
(* of the cache are.                                                       *)
THEOREM WalksAreExact == Spec => []WalkIsExact
<1>1. IndInv => WalkIsExact
  <2>1. SUFFICES ASSUME IndInv, walk # None
                 PROVE  /\ \A u \in walk.stayed \ Seen :
                              page.answer.next # None /\ u < page.answer.next
                        /\ \A k \in 2 .. Len(walk.seen) : walk.seen[k] < walk.seen[k - 1]
    BY DEF WalkIsExact
  <2>2. Seen = Elems(walk.seen)
    BY DEF Seen, Elems
  <2>3. /\ Descends(walk.seen)
        /\ \A u \in walk.stayed \ Elems(walk.seen) :
              page.answer.next # None /\ u < page.answer.next
    BY <2>1 DEF IndInv, WalkOK
  <2>4. Len(walk.seen) \in Nat
    <3>1. walk \in [seen : Seq(Ids), stayed : SUBSET Ids]
      BY <2>1 DEF IndInv, TypeOK
    <3>2. walk.seen \in Seq(Ids)
      BY <3>1
    <3>3. QED
      BY <3>2
  <2>5. \A k \in 2 .. Len(walk.seen) : /\ k - 1 \in 1 .. Len(walk.seen)
                                       /\ k \in 1 .. Len(walk.seen) /\ k - 1 < k
    BY <2>4
  <2>6. QED
    BY <2>2, <2>3, <2>5 DEF Descends
<1>2. QED
  BY <1>1, Invariance, PTL

(* From a page that is up to date, its cursors lead to every row that it   *)
(* does not show.                                                          *)
THEOREM AllIsInReach == Spec => []NothingOutOfReach
<1>1. IndInv => NothingOutOfReach
  <2>1. SUFFICES ASSUME IndInv, page # None, page.fresh, page.answer.data # <<>>,
                        NEW u \in rows, u \notin Elems(page.answer.data)
                 PROVE  \/ u > page.answer.data[1] /\ page.answer.prev = page.answer.data[1]
                        \/ /\ u < page.answer.data[Len(page.answer.data)]
                           /\ page.answer.next = page.answer.data[Len(page.answer.data)]
    BY DEF NothingOutOfReach, Elems
  <2>2. rows \subseteq Ids
    BY <2>1 DEF IndInv, TypeOK
  <2>3. PICK q \in Queries : PageOK(page, q, rows, given, list)
    BY <2>1 DEF IndInv, PageIsOK
  <2>4. Exact(page.answer, q, rows)
    BY <2>1, <2>3 DEF PageOK
  <2>5. QED
    BY <2>1, <2>2, <2>4, ExactReachesAll
<1>2. QED
  BY <1>1, Invariance, PTL

(* A client that goes on to a page and back again finds the page it had    *)
(* left, if nothing has changed since, or only the cursor to newer rows    *)
(* gone with the rows.                                                     *)
THEOREM BackLeadsBack == Spec => BackIsWhereWeWere
<1> DEFINE Back ==
        PreviousPage /\ walk # None /\ prior # None =>
          (prior.fresh /\ page'.fresh =>
             \/ page'.answer = prior.answer
             \/ page'.answer = [prior.answer EXCEPT !.prev = None] /\ NoNewer(prior))
<1>1. IndInv /\ [Next]_vars => Back
  <2>1. SUFFICES ASSUME IndInv, PreviousPage, walk # None, prior # None,
                        prior.fresh, page'.fresh
                 PROVE  \/ page'.answer = prior.answer
                        \/ /\ page'.answer = [prior.answer EXCEPT !.prev = None]
                           /\ NoNewer(prior)
    OBVIOUS
  <2> DEFINE r == [cursor |-> page.answer.prev, isPrevious |-> TRUE]
  <2>2. page.answer.prev # None /\ page # None
    BY <2>1 DEF PreviousPage
  <2>3. PICK q \in Queries : /\ ~q.isPrevious /\ PageOK(page, q, rows, given, list)
                             /\ q.cursor = prior.answer.next
    BY <2>1 DEF IndInv, WalkOK
  <2>4. PICK q0 \in Queries : ~q0.isPrevious /\ PageOK(prior, q0, rows, given, list)
    BY <2>1 DEF IndInv, PriorOK
  <2>5. /\ prior.answer.next # None
        /\ list = "users" \/ page.fresh
    BY <2>1 DEF IndInv, PriorOK, TypeOK
  <2>6. Exact(prior.answer, q0, rows)
    BY <2>1, <2>4 DEF PageOK
  <2>7. page \in Pages /\ DataOK(page.answer) /\ Elems(page.answer.data) \subseteq given
        /\ GoesOn(page, q) /\ Joins(page, q, rows, list)
    BY <2>3 DEF PageOK
  <2>8. page.answer.data # <<>> /\ page.answer.prev = page.answer.data[1]
    BY <2>2, <2>7 DEF DataOK
  <2>9. /\ page.answer.prev \in Elems(page.answer.data) /\ page.answer.prev \in given
    BY <2>7, <2>8, EndsOfData DEF DataOK
  <2>10. page.answer.prev < prior.answer.next
    BY <2>3, <2>5, <2>7, <2>9 DEF GoesOn
  <2>11. \A u \in rows : ~(page.answer.prev < u /\ u < prior.answer.next)
    BY <2>3, <2>5, <2>7, <2>8 DEF Joins
  <2>12. r \in Queries /\ r.isPrevious /\ r.cursor = page.answer.prev
    BY <2>7, PageFields DEF Queries
  <2>13. PICK p : Serve(r, p)
    BY <2>1 DEF PreviousPage
  <2> HIDE DEF r
  <2>14. PageOK(p, r, rows, given, list) /\ page' = p
    BY <2>1, <2>9, <2>12, <2>13, ServedIsOK DEF Serve
  <2>15. Exact(page'.answer, r, rows)
    BY <2>1, <2>14 DEF PageOK
  <2>16. rows \in SUBSET Ids
    BY <2>1 DEF IndInv, TypeOK
  <2>17. \/ page'.answer = prior.answer
         \/ /\ page'.answer = [prior.answer EXCEPT !.prev = None]
            /\ \A u \in rows : u <= prior.answer.data[1]
    BY <2>2, <2>4, <2>5, <2>6, <2>10, <2>11, <2>12, <2>15, <2>16, BackIsTheSame
  <2>18. QED
    BY <2>17 DEF NoNewer
<1>2. Spec => [][Back]_vars
  BY <1>1, Invariance, PTL DEF Spec
<1>3. QED
  BY <1>2 DEF BackIsWhereWeWere
=============================================================================
