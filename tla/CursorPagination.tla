-------------------------- MODULE CursorPagination --------------------------
(***************************************************************************)
(* The two lists of users, all and most active, read page by page while    *)
(* they change.  The pages of the first are cached under their URL for     *)
(* half a minute; the second is computed for every request.                *)
(***************************************************************************)
EXTENDS Integers, FiniteSets, SequencesExt

CONSTANTS
    Ids,             \* ids of users
    InitialLists,    \* what may be in the list at first
    Limit,           \* limit
    MaxChanges,      \* bound: rows that appear or vanish
    None

ASSUME CursorPaginationAssumption ==
    /\ Ids \subseteq Nat /\ \A l \in InitialLists : l \subseteq Ids /\ IsFiniteSet(l)
    /\ Limit \in Nat \ {0} /\ MaxChanges \in Nat /\ None \notin Ids

VARIABLES
    list,            \* which one: users, mostActive
    rows, given,     \* the ids that are in it, and those that ever were
    cached,          \* CacheInterceptor: the page of each URL, or None
    page, prior,     \* the page the client looks at, and the one before
    walk,            \* history: the rows of a walk from the first page on
    changes

vars == <<list, rows, given, cached, page, prior, walk, changes>>

Queries == [cursor : Ids \cup {None}, isPrevious : BOOLEAN]

-----------------------------------------------------------------------------
(* A plausible bug: <= and >= for < and >. *)
BugInclusive(q) ==
    IF q.cursor = None THEN rows
    ELSE {u \in rows : IF q.isPrevious THEN u >= q.cursor ELSE u <= q.cursor}

(* WHERE *)
Beyond(q) ==
    IF q.cursor = None THEN rows
    ELSE {u \in rows : IF q.isPrevious THEN u > q.cursor ELSE u < q.cursor}

(* A plausible bug: ORDER BY does not depend on isPrevious. *)
BugDescending(u, v, q) == u > v

(* ORDER BY *)
Before(u, v, q) == IF q.isPrevious THEN u < v ELSE u > v

(* A plausible bug: LIMIT limit. *)
BugLimit == Limit

(* LIMIT: one row more than the page has. *)
Fetched == Limit + 1

Rank(u, q) == Cardinality({v \in Beyond(q) : Before(v, u, q)})

Find(q) ==
    LET found == Cardinality(Beyond(q))
    IN  [k \in 1 .. (IF found < Fetched THEN found ELSE Fetched) |->
            CHOOSE u \in Beyond(q) : Rank(u, q) = k - 1]

(* A plausible bug: hasMore is compared with what was fetched.             *)
BugFetchedHasMore(items) == Len(items) > Limit + 1

HasMore(items) == Len(items) > Limit

(* buildCursorPaginationResult *)
Result(items, q) ==
    LET hasMore == HasMore(items)
        trimmed == IF hasMore THEN SubSeq(items, 1, Limit) ELSE items
        data == IF q.isPrevious THEN Reverse(trimmed) ELSE trimmed
        first == IF data = <<>> THEN None ELSE data[1]
        last == IF data = <<>> THEN None ELSE data[Len(data)]
    IN  [data |-> data,
         next |-> IF q.isPrevious \/ hasMore THEN last ELSE None,
         prev |-> IF (IF q.isPrevious THEN hasMore ELSE q.cursor # None) THEN first ELSE None]

(* A page, with its history: have the rows changed since, and who has been *)
(* there since.                                                            *)
Compute(q) == [answer |-> Result(Find(q), q), fresh |-> TRUE, stayed |-> rows]

Aged(p, stayed) ==
    IF p = None THEN None ELSE [p EXCEPT !.fresh = FALSE, !.stayed = @ \cap stayed]

Pages == [answer : [data : Seq(Ids), next : Ids \cup {None}, prev : Ids \cup {None}],
          fresh : BOOLEAN, stayed : SUBSET Ids]

ASSUME NoneIsNoPage == None \notin Pages

(* Pages are sequences of ids, no longer than the limit of the request.    *)
TypeOK ==
    /\ list \in {"users", "mostActive"}
    /\ rows \subseteq given /\ given \subseteq Ids
    /\ cached \in [Queries -> Pages \cup {None}]
    /\ page = None \/ page \in Pages
    /\ prior = None \/ prior \in Pages
    /\ walk = None \/ walk \in [seen : Seq(Ids), stayed : SUBSET Ids]
    /\ changes \in 0 .. MaxChanges
    /\ page # None => Len(page.answer.data) <= Limit

Init ==
    /\ list \in {"users", "mostActive"}
    /\ rows \in InitialLists /\ given = rows
    /\ cached = [q \in Queries |-> None]
    /\ page = None /\ prior = None /\ walk = None
    /\ changes = 0

-----------------------------------------------------------------------------
(* GET users, GET users/most-active: p is what the client gets for q.      *)
Serve(q, p) ==
    /\ p = IF cached[q] # None THEN cached[q] ELSE Compute(q)
    /\ cached' = IF list = "users" THEN [cached EXCEPT ![q] = p] ELSE cached
    /\ page' = p
    /\ UNCHANGED <<list, rows, given, changes>>

First ==
    LET q == [cursor |-> None, isPrevious |-> FALSE] IN
    \E p \in {cached[q], Compute(q)} \ {None} :
        /\ Serve(q, p)
        /\ prior' = None
        /\ walk' = [seen |-> p.answer.data, stayed |-> p.stayed]

NextPage ==
    /\ page # None /\ page.answer.next # None
    /\ LET q == [cursor |-> page.answer.next, isPrevious |-> FALSE] IN
       \E p \in {cached[q], Compute(q)} \ {None} :
           /\ Serve(q, p)
           /\ prior' = page
           /\ walk' = IF walk = None THEN None
                      ELSE [seen |-> walk.seen \o p.answer.data,
                            stayed |-> walk.stayed \cap p.stayed]

(* "Must be used with prevCursor". *)
PreviousPage ==
    /\ page # None /\ page.answer.prev # None
    /\ LET q == [cursor |-> page.answer.prev, isPrevious |-> TRUE] IN
       \E p \in {cached[q], Compute(q)} \ {None} : Serve(q, p)
    /\ walk' = None
    /\ UNCHANGED prior

(* The rows change, and the pages that were computed do not.               *)
Change(new) ==
    /\ changes < MaxChanges /\ changes' = changes + 1
    /\ rows' = new /\ given' = given \cup new
    /\ cached' = [q \in Queries |-> Aged(cached[q], new)]
    /\ page' = Aged(page, new) /\ prior' = Aged(prior, new)
    /\ walk' = IF walk = None THEN None ELSE [walk EXCEPT !.stayed = @ \cap new]
    /\ UNCHANGED list

(* A user registers, with an id larger than all before; or has become one  *)
(* of the most active, with any id.                                        *)
Appear(u) ==
    /\ u \notin rows
    /\ list = "users" => \A v \in given : v < u
    /\ Change(rows \cup {u})

(* A user is deleted, or has too few avatars left. *)
Vanish(u) == u \in rows /\ Change(rows \ {u})

Expire(q) ==
    /\ cached[q] # None
    /\ cached' = [cached EXCEPT ![q] = None]
    /\ UNCHANGED <<list, rows, given, page, prior, walk, changes>>

Next ==
    \/ First \/ NextPage \/ PreviousPage
    \/ \E u \in Ids : Appear(u) \/ Vanish(u)
    \/ \E q \in Queries : Expire(q)

Spec == Init /\ [][Next]_vars

-----------------------------------------------------------------------------
(* Properties. *)

Seen == {walk.seen[k] : k \in 1 .. Len(walk.seen)}

(* A walk from the first page on misses no row that was there since its    *)
(* pages were computed, whatever the others did: it is seen, or to come;   *)
(* and it shows no row twice, for it descends from the newest.             *)
WalkIsExact ==
    walk # None =>
        /\ \A u \in walk.stayed \ Seen : page.answer.next # None /\ u < page.answer.next
        /\ \A k \in 2 .. Len(walk.seen) : walk.seen[k] < walk.seen[k - 1]

(* Back from the page after it, as long as nothing changes, a page looks   *)
(* as it did before, its cursors included; only a cursor to newer rows is  *)
(* not given again if there are none any more.                             *)
NoNewer(p) == \A u \in rows : u <= p.answer.data[1]

BackIsWhereWeWere ==
    [][PreviousPage /\ walk # None /\ prior # None =>
         (prior.fresh /\ page'.fresh =>
             \/ page'.answer = prior.answer
             \/ page'.answer = [prior.answer EXCEPT !.prev = None] /\ NoNewer(prior))]_vars

(* "id of last returned item if next page exists", and the same for the    *)
(* previous one: the cursors of a page that is not empty, and up to date,  *)
(* lead to all rows that are not on it, and to none between them.          *)
NothingOutOfReach ==
    page # None /\ page.fresh /\ page.answer.data # <<>> =>
        LET data == page.answer.data
            shown == {data[k] : k \in 1 .. Len(data)}
        IN  \A u \in rows \ shown :
                \/ u > data[1] /\ page.answer.prev = data[1]
                \/ u < data[Len(data)] /\ page.answer.next = data[Len(data)]
=============================================================================
