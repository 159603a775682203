------------------------------ MODULE Listing -------------------------------
(***************************************************************************)
(* Reading a collection page by page: conversations (by activity, creation *)
(* or waiting time), search, contacts, the messages of a conversation from *)
(* the newest back or onward from a known one, and the collections that    *)
(* are paged in memory: "slice" stands for those whose handler hands them  *)
(* over in the order of their ids (API keys, webhooks, the team,           *)
(* deliveries, translation keys, releases), "pinned" for the queues and    *)
(* the translation projects, which come with one row in front and the rest *)
(* from the first name to the last, under cursors that go from the last to *)
(* the first.  gormstore/page.go and store/page.go cut a page,             *)
(* apiutil/paging.go binds a cursor to the query it was minted for.        *)
(*                                                                         *)
(* Pages are separate requests: rows appear, move and leave in between,    *)
(* and the sweep moves a conversation's messages to the archive.  Some     *)
(* pages take two reads.                                                   *)
(***************************************************************************)
EXTENDS Naturals, FiniteSets

CONSTANTS
    RowSeeds,    \* the rows at the start
    KindOf,      \* what a filter can tell of a row that never changes, by id
    Filters,     \* the kinds a request may narrow to; "any" does not narrow
    RawLimits,   \* limits clients send
    LimitMax,    \* the largest page
    Pinned,      \* the id of the row a pinned list begins with
    MaxRowId, MaxRowClock, MaxChanges  \* bounds: ids, the clock, changes

ListedRow == [id : 1..MaxRowId, born : 0..MaxRowClock, at : 0..MaxRowClock]
IdsApart(S) == \A r, s \in S : r.id = s.id => r = s

ASSUME ListingAssumption ==
    /\ {LimitMax, MaxRowId, MaxRowClock, MaxChanges} \subseteq Nat /\ RawLimits \subseteq Nat
    /\ LimitMax # 0 /\ MaxRowClock # 0
    /\ DOMAIN KindOf = 1..MaxRowId /\ "any" \in Filters
    /\ \A S \in RowSeeds : S \subseteq ListedRow /\ IdsApart(S)

VARIABLES
    rows,      \* rows the caller's scope admits: id, created_at, and the time
               \* that moves (last activity; the latest assignment's creation)
    swept,     \* the messages are in the archive
    walk,      \* a client's walk over one collection
    rowClock, changes,
    start,     \* history: rows the walk's query admitted when it began
    touched,   \* history: rows that moved or left since
    slipped    \* history: a row moved, or the sweep ran, between the two reads
               \* of one page, or a list handed over in another order than its
               \* cursors' took a second page

listVars == <<rows, swept, walk, rowClock, changes, start, touched, slipped>>

\* what PageDefaults of each handler allow
Resources == {"conversations", "search", "contacts", "messages", "since", "slice", "pinned"}
Sorts(res) == IF res = "conversations" THEN {"activity", "created", "waiting"}
              ELSE IF res = "contacts" THEN {"activity"} ELSE {"id"}
Orders(res) == IF res \in {"conversations", "slice"} THEN {"asc", "desc"}
               ELSE IF res = "since" THEN {"asc"} ELSE {"desc"}

NoCursor == [sort |-> "none", order |-> "desc", filter |-> "any", v |-> 0, id |-> 0]
NoQuery == [sort |-> "none", order |-> "desc", filter |-> "any", limit |-> 1, cursor |-> NoCursor]
NoPage == [page |-> {}, more |-> FALSE, next |-> NoCursor]

\* a walk: the position to go on from, the request under way and the page it
\* has read, the rows the client got and those it got again
NoWalk(res) == [res |-> res, pc |-> "begin", cursor |-> NoCursor, query |-> NoQuery,
                read |-> NoPage, seen |-> {}, twice |-> {}]

Ids(S) == {r.id : r \in S}

ListingTypeOK ==
    /\ rows \subseteq ListedRow
    /\ Cardinality(Ids(rows)) = Cardinality(rows)
    /\ walk.read.page \cup walk.seen \subseteq 1..MaxRowId /\ walk.twice \subseteq walk.seen

ListingInit ==
    /\ rows \in RowSeeds /\ swept = FALSE
    /\ \E res \in Resources : walk = NoWalk(res)
    /\ rowClock = 1 /\ changes = 0
    /\ start = {} /\ touched = {} /\ slipped = FALSE

-----------------------------------------------------------------------------
(* One page.                                                               *)

\* zero takes the collection's default; limits clamp rather than fail
ClampLimit(limit, def) == IF limit = 0 THEN def ELSE IF limit > LimitMax THEN LimitMax ELSE limit

\* conversationSortExpr; an id is a complete position alone
SortValue(sort, r) ==
    CASE sort = "created" -> r.born [] sort = "id" -> 0
      [] sort = "pinned" -> (IF r.id = Pinned THEN 0 ELSE 1) [] OTHER -> r.at
Pos(sort, r) == [v |-> SortValue(sort, r), id |-> r.id]

Precedes(order, a, b) ==
    LET less(x, y) == x.v < y.v \/ (x.v = y.v /\ x.id < y.id) IN
    IF order = "asc" THEN less(a, b) ELSE less(b, a)

\* mutant: rows that tie with the last one are taken for rows before it
PastByValue(q, r) ==
    \/ q.cursor = NoCursor
    \/ IF q.sort = "id" THEN Precedes(q.order, Pos("id", q.cursor), Pos("id", r))
       ELSE IF q.order = "asc" THEN q.cursor.v < SortValue(q.sort, r) ELSE q.cursor.v > SortValue(q.sort, r)

\* the keyset: strictly after the cursor's row, ties by id
Past(q, r) ==
    q.cursor = NoCursor \/ Precedes(q.order, [v |-> q.cursor.v, id |-> q.cursor.id], Pos(q.sort, r))

\* applyFilters, visibilityScope
Shows(filter, id) == filter = "any" \/ KindOf[id] = filter

FirstRows(S, q) ==
    {r \in S : Cardinality({s \in S : Precedes(q.order, Pos(q.sort, s), Pos(q.sort, r))}) < q.limit}
LastRow(S, q) == CHOOSE r \in S : \A s \in S \ {r} : Precedes(q.order, Pos(q.sort, s), Pos(q.sort, r))

\* cursorFor, EncodeCursor: the last row's position, bound to the query
cursorFor(q, r) == [sort |-> q.sort, order |-> q.order, filter |-> q.filter,
                    v |-> SortValue(q.sort, r), id |-> r.id]

\* one row more than the page tells whether there is another
Paginate(q, S) ==
    LET due == {r \in S : Shows(q.filter, r.id) /\ Past(q, r)}
        page == FirstRows(due, q)
        more == Cardinality(due) > q.limit IN
    [page |-> Ids(page), more |-> more, next |-> IF more THEN cursorFor(q, LastRow(page, q)) ELSE NoCursor]

-----------------------------------------------------------------------------
(* A request for a page.                                                   *)

\* a cursor minted for another ordering or filter set is refused
PageParams(c, q) == c = NoCursor \/ (c.sort = q.sort /\ c.order = q.order /\ c.filter = q.filter)

\* the requests that pass, next in the walk: any limit, and any sort, order and
\* filter on the first
Queries ==
    {q \in [sort : Sorts(walk.res), order : Orders(walk.res), filter : Filters,
            limit : {ClampLimit(l, 1) : l \in RawLimits}, cursor : {walk.cursor}] :
        walk.pc \in {"begin", "between"} /\ PageParams(walk.cursor, q)}

Begin(q) == start' = IF walk.pc = "begin" THEN {i \in Ids(rows) : Shows(q.filter, i)} ELSE start

\* RespondPage: the items, and where to go on
Respond(got, more, next) ==
    walk' = [walk EXCEPT !.pc = IF more THEN "between" ELSE "done", !.cursor = next,
                         !.query = NoQuery, !.read = NoPage,
                         !.seen = @ \cup got, !.twice = @ \cup (walk.seen \cap got)]

\* a page that takes a second read
Pause(pc, q, p) == walk' = [walk EXCEPT !.pc = pc, !.query = q, !.read = p]

listConversations ==
    /\ walk.res = "conversations"
    /\ \E q \in Queries :
          LET p == Paginate(q, rows) IN
          /\ Begin(q)
          /\ IF q.sort = "waiting" THEN Pause("enrich", q, p) ELSE Respond(p.page, p.more, p.next)
    /\ UNCHANGED <<rows, swept, rowClock, changes, touched, slipped>>

\* enrich reads the assignments again, and the cursor is minted from the value
\* it finds; a row without one leaves another of its times there
enrich ==
    LET p == walk.read
        last == {r \in rows : r.id = p.next.id} IN
    /\ walk.pc = "enrich"
    /\ \E v \in IF ~p.more THEN {0} ELSE IF last = {} THEN 0..rowClock ELSE {r.at : r \in last} :
          Respond(p.page, p.more, [p.next EXCEPT !.v = v])
    /\ UNCHANGED <<rows, swept, rowClock, changes, start, touched, slipped>>

\* the ids the search finds, newest first, one more than asked for
collectHits(q) ==
    FirstRows({r \in rows : Shows(q.filter, r.id) /\ Past(q, r)}, [q EXCEPT !.limit = @ + 1])

\* search pages the ids
searchConversations ==
    /\ walk.res = "search"
    /\ \E q \in Queries :
          LET hits == collectHits(q)
              page == FirstRows(hits, q)
              more == Cardinality(hits) > q.limit IN
          /\ Begin(q)
          /\ Pause("hydrate", q, [page |-> Ids(page), more |-> more,
                                  next |-> IF more THEN cursorFor(q, LastRow(page, q)) ELSE NoCursor])
    /\ UNCHANGED <<rows, swept, rowClock, changes, touched, slipped>>

\* the list loads that page's rows; one that left in between is not on it
hydrate ==
    /\ walk.pc = "hydrate"
    /\ Respond(walk.read.page \cap Ids(rows), walk.read.more, walk.read.next)
    /\ UNCHANGED <<rows, swept, rowClock, changes, start, touched, slipped>>

\* the same keyset over an aggregate
ListContacts ==
    /\ walk.res = "contacts"
    /\ \E q \in Queries : LET p == Paginate(q, rows) IN Begin(q) /\ Respond(p.page, p.more, p.next)
    /\ UNCHANGED <<rows, swept, rowClock, changes, touched, slipped>>

\* the order the handler hands its rows over in: as the cursors go, but for the
\* lists that begin with a pinned row
asHanded(q) ==
    IF walk.res = "pinned" THEN [q EXCEPT !.sort = "pinned", !.order = "asc"] ELSE q

\* the in-memory twin sorts nothing: it skips forward in the order h to the first
\* row past the cursor, and cuts what is left there
Slice(q, h, S) ==
    LET items == {r \in S : Shows(q.filter, r.id)}
        left == {r \in items : \E s \in items :
                    Past(q, s) /\ ~Precedes(h.order, Pos(h.sort, r), Pos(h.sort, s))}
        page == FirstRows(left, h)
        more == Cardinality(left) > q.limit IN
    [page |-> Ids(page), more |-> more, next |-> IF more THEN cursorFor(q, LastRow(page, h)) ELSE NoCursor]

\* over everything there is
SlicePage ==
    /\ walk.res \in {"slice", "pinned"}
    /\ \E q \in Queries :
          LET p == Slice(q, asHanded(q), rows) IN
          /\ Begin(q) /\ Respond(p.page, p.more, p.next)
          /\ slipped' = (slipped \/ (walk.res = "pinned" /\ (p.more \/ q.cursor # NoCursor)))
    /\ UNCHANGED <<rows, swept, rowClock, changes, touched>>

\* back from the cursor, or onward from the last id the client has; the archived
\* mark decides where to read
listMessages ==
    /\ walk.res \in {"messages", "since"}
    /\ \E q \in Queries : Begin(q) /\ Pause(IF swept THEN "sink" ELSE "hot", q, NoPage)
    /\ UNCHANGED <<rows, swept, rowClock, changes, touched, slipped>>

\* ListBefore, ListAfter: the messages that are still in the table
ListHot ==
    LET p == Paginate(walk.query, IF swept THEN {} ELSE rows) IN
    /\ walk.pc = "hot"
    /\ Respond(p.page, p.more, p.next)
    /\ UNCHANGED <<rows, swept, rowClock, changes, start, touched, slipped>>

\* the object in the sink, without the notes the caller may not see
ArchivedMessages(filter) == {r \in rows : Shows(filter, r.id)}

\* archivedBefore, archivedSince: the whole archive, cut the same way
ListArchived ==
    LET p == Paginate(walk.query, ArchivedMessages(walk.query.filter)) IN
    /\ walk.pc = "sink"
    /\ Respond(p.page, p.more, p.next)
    /\ UNCHANGED <<rows, swept, rowClock, changes, start, touched, slipped>>

-----------------------------------------------------------------------------
(* Around it.                                                              *)

Change == changes < MaxChanges /\ changes' = changes + 1

Insert ==
    /\ Change /\ ~swept
    /\ \E i \in 1..MaxRowId :
          /\ \A o \in Ids(rows) \cup start \cup touched : o < i
          /\ rows' = rows \cup {[id |-> i, born |-> rowClock, at |-> rowClock]}
    /\ UNCHANGED <<swept, walk, rowClock, start, touched, slipped>>

\* the row whose position the cursor is being minted from
Minting(r) == walk.pc = "enrich" /\ walk.read.next.id = r.id

\* a message, or a new assignment
Move(r) ==
    /\ Change /\ walk.res \in {"conversations", "contacts", "search"}
    /\ rows' = (rows \ {r}) \cup {[r EXCEPT !.at = rowClock]}
    /\ touched' = touched \cup {r.id}
    /\ slipped' = (slipped \/ Minting(r))
    /\ UNCHANGED <<swept, walk, rowClock, start>>

\* closed, reassigned, or out of the caller's scope
Depart(r) ==
    /\ Change /\ walk.res \notin {"messages", "since"}
    /\ rows' = rows \ {r}
    /\ touched' = touched \cup {r.id}
    /\ slipped' = (slipped \/ Minting(r))
    /\ UNCHANGED <<swept, walk, rowClock, start>>

Sweep ==
    /\ walk.res \in {"messages", "since"} /\ ~swept
    /\ swept' = TRUE
    /\ slipped' = (slipped \/ walk.pc = "hot")
    /\ UNCHANGED <<rows, walk, rowClock, changes, start, touched>>

RowTick ==
    /\ rowClock < MaxRowClock /\ rowClock' = rowClock + 1
    /\ UNCHANGED <<rows, swept, walk, changes, start, touched, slipped>>

ListingNext ==
    \/ listConversations \/ enrich \/ searchConversations \/ hydrate \/ ListContacts \/ SlicePage
    \/ listMessages \/ ListHot \/ ListArchived
    \/ Insert \/ (\E r \in rows : Move(r) \/ Depart(r)) \/ Sweep \/ RowTick

ListingSpec == ListingInit /\ [][ListingNext]_listVars

-----------------------------------------------------------------------------
(* A client that follows the cursors to the end has got every row its      *)
(* query admitted when it began and that neither moved nor left since,     *)
(* whatever was inserted or moved meanwhile and however many rows tie; and *)
(* only a row that moved is handed out twice.  Left out: a move or a sweep *)
(* between the two reads of one page, and the second page of the queues or *)
(* of the translation projects, whose rows do not come in the order their  *)
(* cursors go: it skips rows and repeats others.                           *)
WalkSeesAll ==
    /\ ListingTypeOK
    /\ walk.pc = "done" /\ ~slipped => start \ touched \subseteq walk.seen
    /\ ~slipped => walk.twice \subseteq touched
=============================================================================
