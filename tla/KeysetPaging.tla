----------------------------- MODULE KeysetPaging -----------------------------
(***************************************************************************)
(* Walking through a collection page by page: pagination.py over the       *)
(* list_page statements of repositories/, as the routers use them.         *)
(*                                                                         *)
(* Pages come in descending order of (created_at, id).  created_at is the  *)
(* time a row's transaction began, so rows become visible out of that      *)
(* order, and several may have the same.  Credentials are deleted, the     *)
(* last one of a page among them; the other tables only archive, and list  *)
(* what is archived too.                                                   *)
(***************************************************************************)
EXTENDS Naturals, Sequences, SequencesExt

CONSTANTS Id,      \* identifiers, ordered as uuids are
          Limits,  \* the page limits a client asks for
          MaxTime  \* bound on the clock

ASSUME IdAssumption == Id \subseteq Nat \ {0}
ASSUME LimitAssumption == Limits \subseteq Nat \ {0}
ASSUME TimeAssumption == MaxTime \in Nat \ {0}

VARIABLES
    clock,
    created,  \* created_at of each row; 0 before its transaction begins
    visible,  \* the rows that are committed, and not deleted
    deleted,
    walk      \* a client's walk: what it was shown, and how it goes on

walkVars == <<clock, created, visible, deleted, walk>>

\* `cursor' is a row's position; `first' is what there was when the first page was read.
Walk == [stage : {"off", "going", "over"}, shown : Seq(Id),
         cursor : (Nat \X Id) \cup {<<>>}, first : SUBSET Id]

WalkTypeOK ==
    /\ clock \in 1 .. MaxTime
    /\ created \in [Id -> 0 .. MaxTime]
    /\ visible \cup deleted \subseteq {i \in Id : created[i] # 0}
    /\ visible \cap deleted = {}
    /\ walk \in Walk
    /\ walk.stage = "going" <=> walk.cursor # <<>>

WalkInit ==
    /\ clock = 1
    /\ created = [i \in Id |-> 0]
    /\ visible = {}
    /\ deleted = {}
    /\ walk = [stage |-> "off", shown |-> <<>>, cursor |-> <<>>, first |-> {}]

-----------------------------------------------------------------------------
(***************************************************************************)
(* Rows are inserted by transactions that begin, and commit or do not, and *)
(* deleted, if at all, later.                                              *)
(***************************************************************************)
Tick ==
    /\ clock < MaxTime
    /\ clock' = clock + 1
    /\ UNCHANGED <<created, visible, deleted, walk>>

BeginInsert(i) ==
    /\ created[i] = 0
    /\ created' = [created EXCEPT ![i] = clock]
    /\ UNCHANGED <<clock, visible, deleted, walk>>

CommitInsert(i) ==
    /\ created[i] # 0 /\ i \notin visible \cup deleted
    /\ visible' = visible \cup {i}
    /\ UNCHANGED <<clock, created, deleted, walk>>

AbortInsert(i) ==
    /\ created[i] # 0 /\ i \notin visible \cup deleted
    /\ created' = [created EXCEPT ![i] = 0]
    /\ UNCHANGED <<clock, visible, deleted, walk>>

Delete(i) ==
    /\ i \in visible
    /\ visible' = visible \ {i}
    /\ deleted' = deleted \cup {i}
    /\ UNCHANGED <<clock, created, walk>>

-----------------------------------------------------------------------------
Position(i) == <<created[i], i>>

\* Row comparison: (a, b) < (c, d).
Less(p, q) == p[1] < q[1] \/ (p[1] = q[1] /\ p[2] < q[2])

\* Variant: the time alone is compared.
AfterTime(i) == walk.cursor # <<>> => created[i] <= walk.cursor[1]

\* WHERE (created_at, id) < (:after_at, :after_id), left out on the first page.
After(i) == walk.cursor # <<>> => Less(Position(i), walk.cursor)

\* ORDER BY created_at DESC, id DESC LIMIT n: the answer is the sequence of at most n
\* of the rows, each behind the one before it, that leaves out only rows behind all
\* of n others.
Newest(rows, n) ==
    {page \in BoundedSeq(rows, n) :
        /\ \A i, j \in DOMAIN page : i < j => Less(Position(page[j]), Position(page[i]))
        /\ \A r \in rows :
              \/ \E i \in DOMAIN page : page[i] = r
              \/ Len(page) = n /\ \A i \in DOMAIN page : Less(Position(r), Position(page[i]))}

\* Variant: the row that was fetched to see whether there is more is the cursor.
PageFromExtra(rows, limit) ==
    LET items == SubSeq(rows, 1, IF Len(rows) < limit THEN Len(rows) ELSE limit)
    IN  [items |-> items,
         cursor |-> IF Len(rows) > limit THEN Position(Last(rows)) ELSE <<>>]

\* page_of: limit + 1 rows are fetched; the extra one proves there is more.
PageOf(rows, limit) ==
    LET items == SubSeq(rows, 1, IF Len(rows) < limit THEN Len(rows) ELSE limit)
    IN  [items |-> items,
         cursor |-> IF Len(rows) > limit THEN Position(Last(items)) ELSE <<>>]

(***************************************************************************)
(* GET, with no cursor or with the one the last page came with; a client   *)
(* may ask for another limit each time.                                    *)
(***************************************************************************)
GetPage ==
    /\ walk.stage # "over"
    /\ \E limit \in Limits : \E rows \in Newest({i \in visible : After(i)}, limit + 1) :
         LET page == PageOf(rows, limit)
         IN  walk' = [stage |-> IF page.cursor = <<>> THEN "over" ELSE "going",
                      shown |-> walk.shown \o page.items,
                      cursor |-> page.cursor,
                      first |-> IF walk.stage = "off" THEN visible ELSE walk.first]
    /\ UNCHANGED <<clock, created, visible, deleted>>

WalkNext ==
    \/ Tick \/ GetPage
    \/ \E i \in Id : BeginInsert(i) \/ CommitInsert(i) \/ AbortInsert(i) \/ Delete(i)

WalkSpec == WalkInit /\ [][WalkNext]_walkVars

-----------------------------------------------------------------------------
\* "Offsets skip or duplicate rows under concurrent inserts": a walk by cursors shows
\* no row twice, whatever is committed between its pages, and in whatever order.
NothingShownTwice == \A i, j \in DOMAIN walk.shown : walk.shown[i] = walk.shown[j] => i = j

\* And it skips none of those that were there when it began and still are: what is not
\* shown yet lies behind the cursor, until a page comes without one; then nothing is.
NothingSkipped ==
    walk.stage # "off" =>
        \A i \in walk.first \ deleted :
            \/ \E k \in DOMAIN walk.shown : walk.shown[k] = i
            \/ walk.stage = "going" /\ Less(Position(i), walk.cursor)

=============================================================================
