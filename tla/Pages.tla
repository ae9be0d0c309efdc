-------------------------------- MODULE Pages --------------------------------
(***************************************************************************)
(* A client reads one of the lists page by page, or one thing, while other  *)
(* transactions add, change, move and delete rows.  Every page is a         *)
(* transaction of its own: it looks up what was asked for in the caller's   *)
(* project, then runs the query from where the cursor says.                 *)
(***************************************************************************)
EXTENDS Listings, FiniteSets, Integers, FiniteSetsExt, SequencesExt

CONSTANTS
    MAX_ROWS,      \* bound: rows that are there at first
    MAX_EVENTS,    \* bound: changes meanwhile
    BATCH,         \* rows that one INSERT writes
    Sizes          \* sizes of pages

ASSUME PagesAssumption ==
    MAX_ROWS \in Nat /\ MAX_EVENTS \in Nat /\ BATCH \in Nat \ {0} /\ Sizes \subseteq Nat \ {0}

VARIABLES
    service,       \* what is read, one of Services
    asked,         \* [architecture, analysis, filter, size, id]
    rows,          \* the rows of the table
    hidden,        \* architectures that were deleted
    walk,          \* [state, cursor, by, shown]
    due,           \* ids of the rows that must be shown in the end
    events         \* how many changes there were
pageVars == <<service, asked, rows, hidden, walk, due, events>>

-----------------------------------------------------------------------------
(* Rows.                                                                    *)

Place(owner, architecture, analysis) == [owner |-> owner, architecture |-> architecture, analysis |-> analysis]
Here == Place("us", "a1", "n1")
Beside == Place("us", "a2", "n2")
Elsewhere == Place("them", "b1", "m1")
Places == {Here, Beside, Elsewhere}
Row(id, place, key, tag) == [id |-> id, place |-> place, key |-> key, tag |-> tag, gone |-> FALSE]

\* A moment can be shared by rows; anything else that a list is ordered by
\* is unique in it.
Keys(n) == IF service.query.order.tied THEN [1..n -> 1..2] ELSE {[i \in 1..n |-> i], [i \in 1..n |-> n + 1 - i]}

\* Rows below a new row are inserted in batches.
Batches_lost(n) == {start..(start + BATCH - 1) : start \in {i \in 0..(n - 1) : i % BATCH = 0 /\ i + BATCH <= n}}
Batches(n) == {start..(Min({start + BATCH, n}) - 1) : start \in {i \in 0..(n - 1) : i % BATCH = 0}}
Stored(adds, table, given) ==
    IF table = adds.table THEN given
    ELSE IF table \in adds.below THEN {r \in given : \E batch \in Batches(Cardinality(given)) : r.id - 1 \in batch}
    ELSE {}

-----------------------------------------------------------------------------
(* The service and its query.                                               *)

\* architectures.get, and the get of the analyses.
ArchitectureFound(a) == a \notin hidden /\ \E p \in Places : p.owner = "us" /\ p.architecture = a
AnalysisFound(a, n) == ArchitectureFound(a) /\ \E p \in Places : p.owner = "us" /\ p.architecture = a /\ p.analysis = n
Found ==
    CASE service.first = "owner" -> TRUE
      [] service.first = "architecture" -> ArchitectureFound(asked.architecture)
      [] service.first = "analysis" -> AnalysisFound(asked.architecture, asked.analysis)
      [] service.first = "snapshot" -> \E p \in Places : p.owner = "us" /\ p.analysis = asked.analysis
      [] service.first = "live rows" -> asked.filter = "architecture" => ArchitectureFound(asked.architecture)

Matches(query, r) ==
    /\ "owner" \in query.where => r.place.owner = "us"
    /\ "architecture" \in query.where => r.place.architecture = asked.architecture
    /\ "analysis" \in query.where => r.place.analysis = asked.analysis
    /\ "id" \in query.where => r.id = asked.id
    /\ "deleted" \in query.hides => ~r.gone
    /\ "of deleted" \in query.hides => r.place.architecture \notin hidden
    /\ asked.filter = "changed" => r.tag
    /\ asked.filter = "architecture" => r.place.architecture = asked.architecture

\* What the order compares.
Position(order, r) == IF order.tied THEN <<r.key, r.id>> ELSE <<r.key, 0>>
Less(p, q) == p[1] < q[1] \/ (p[1] = q[1] /\ p[2] < q[2])
Comes(order, p, q) == IF order.descending THEN Less(q, p) ELSE Less(p, q)

\* Rows in the order of a list: by the number of rows that come before.
Rank(some, order, r) == Cardinality({s \in some : Comes(order, Position(order, s), Position(order, r))})
Sorted(some, order) == [k \in 1..Cardinality(some) |-> CHOOSE r \in some : Rank(some, order, r) = k - 1]

Selected(query, cursor, limit) ==
    LET from == {r \in rows : Matches(query, r) /\ (cursor # <<>> => Comes(query.order, cursor, Position(query.order, r)))}
        sorted == Sorted(from, query.order)
    IN  IF limit = 0 \/ Len(sorted) <= limit THEN sorted ELSE SubSeq(sorted, 1, limit)

\* One row more than the page is fetched, to know whether there is another
\* page; the cursor is that of the last row that is shown.
Shown(r) == [id |-> r.id, position |-> Position(service.query.order, r), place |-> r.place, gone |-> r.gone]
Paged == service.cursor # NoCursor
NextCursor_extra(found) == IF Len(found) > asked.size THEN Position(service.query.order, found[asked.size + 1]) ELSE <<>>
NextCursor(found) == IF Len(found) > asked.size THEN Position(service.query.order, found[asked.size]) ELSE <<>>
\* The rows of a page that are living, in the order of the page.
LivingOf(page) == Sorted({r \in Range(page) : r.place.architecture \notin hidden}, service.query.order)
Items(found) ==
    LET page == IF Paged /\ Len(found) > asked.size THEN SubSeq(found, 1, asked.size) ELSE found
    IN  IF service.first = "live rows" THEN LivingOf(page) ELSE page

Going(state) == walk.state = state
ReadPage ==
    /\ Going("open") /\ Found
    /\ LET found == Selected(service.query, walk.cursor, IF Paged THEN asked.size + 1 ELSE 0)
           items == Items(found)
           next == IF Paged THEN NextCursor(found) ELSE <<>>
       IN  walk' = [walk EXCEPT !.state = IF next = <<>> THEN "done" ELSE "open", !.cursor = next,
                                !.shown = @ \o [i \in 1..Len(items) |-> Shown(items[i])]]
    /\ UNCHANGED <<service, asked, rows, hidden, due, events>>
Refuse ==
    /\ Going("open") /\ ~Found
    /\ walk' = [walk EXCEPT !.state = "refused"]
    /\ UNCHANGED <<service, asked, rows, hidden, due, events>>
\* The cursor is brought to another list, which takes it or refuses it.
Accepts(cursor, other) == other.cursor.kind = cursor.kind /\ other.cursor.parts = cursor.parts
Replay ==
    /\ Going("open") /\ walk.cursor # <<>> /\ events = 0
    /\ \E other \in Services \ {service} :
          \/ /\ Accepts(service.cursor, other)
             /\ walk' = [walk EXCEPT !.state = "elsewhere", !.by = other.query.order]
          \/ /\ ~Accepts(service.cursor, other)
             /\ walk' = [walk EXCEPT !.state = "refused"]
    /\ UNCHANGED <<service, asked, rows, hidden, due, events>>
Close == Going("done") /\ walk' = [walk EXCEPT !.state = "closed"] /\ UNCHANGED <<service, asked, rows, hidden, due, events>>

-----------------------------------------------------------------------------
(* What other transactions do meanwhile.                                    *)

Event(kind) == kind \in service.life /\ events < MAX_EVENTS /\ Going("open") /\ events' = events + 1
Quiet == UNCHANGED <<service, asked, hidden, walk>>
\* A moment may lie before those of rows that were committed earlier; a
\* number or position follows the ones there are.
NewKeys == IF service.query.order.tied THEN 1..3 ELSE {MAX_ROWS + events + 1}
Add ==
    /\ Event("added")
    /\ \E key \in NewKeys, tag \in BOOLEAN : rows' = rows \union {Row(MAX_ROWS + events + 1, Here, key, tag)}
    /\ UNCHANGED due /\ Quiet
Ours == {r \in rows : r.place.owner = "us"}
Put(r, changed) == rows' = (rows \ {r}) \union {changed} /\ due' = due \ {r.id}
Change == /\ Event("changed") /\ \E r \in Ours : Put(r, [r EXCEPT !.tag = ~@])
          /\ Quiet
Delete == /\ Event("deleted") /\ \E r \in Ours : Put(r, [r EXCEPT !.gone = TRUE])
          /\ Quiet
RemoveRow == /\ Event("removed") /\ \E r \in Ours : rows' = rows \ {r} /\ due' = due \ {r.id}
          /\ Quiet
Move == /\ Event("moved") /\ \E r \in Ours, key \in 1..3 : r.key # key /\ Put(r, [r EXCEPT !.key = key])
        /\ Quiet
\* What is above the rows is deleted; its rows stay.
DeleteArchitecture ==
    /\ events < MAX_EVENTS /\ Going("open") /\ events' = events + 1
    /\ hidden' = hidden \union {"a1"} /\ hidden' # hidden
    /\ UNCHANGED <<service, asked, rows, walk, due>>

-----------------------------------------------------------------------------
\* Where the rows are, and where they are not, as far as the read depends on it.
Wheres ==
    {<<"a1", "n1">>}
    \union (IF service.first \in {"analysis", "snapshot"} THEN {<<"a1", "n2">>, <<"a1", "m1">>} ELSE {})
    \union (IF service.first = "owner" /\ service.query.where \subseteq {"owner", "id"}
               /\ "architecture" \notin service.query.filters THEN {} ELSE {<<"b1", "m1">>})
Asked ==
    {[architecture |-> where[1], analysis |-> where[2], filter |-> filter, size |-> size, id |-> id] :
        where \in Wheres,
        filter \in {"none"} \union service.query.filters,
        size \in IF Paged THEN Sizes ELSE {1},
        id \in IF "id" \in service.query.where THEN {0, 1, MAX_ROWS + MAX_EVENTS + 1} ELSE {0}}
Given(n, keys, tagged) == {Row(i, Here, keys[i], i \in tagged) : i \in 1..n}
Others ==
    {Row(0, Elsewhere, 1, TRUE), Row(MAX_ROWS + MAX_EVENTS + 1, Beside, IF service.query.order.tied THEN 1 ELSE 0, TRUE)}
PagesInit ==
    /\ service \in Services
    /\ asked \in Asked
    /\ hidden = {} /\ events = 0
    /\ walk = [state |-> "open", cursor |-> <<>>, by |-> service.query.order, shown |-> <<>>]
    /\ \E n \in 0..MAX_ROWS : \E keys \in Keys(n), untagged \in IF asked.filter = "changed" THEN {0, 2} ELSE {0} :
          LET given == Given(n, keys, 1..n \ {untagged})
          IN  /\ rows = Others \union Stored(service.adds, service.table, given)
              /\ due = {r.id : r \in {g \in given \union Others : Matches(service.query, g)}}
PagesNext ==
    \/ ReadPage \/ Refuse \/ Replay \/ Close
    \/ Add \/ Change \/ Delete \/ RemoveRow \/ Move \/ DeleteArchitecture

-----------------------------------------------------------------------------
(* Properties.                                                              *)

Ordered(shown) ==
    \A i \in 1..(Len(shown) - 1) : Comes(service.query.order, shown[i].position, shown[i + 1].position)
ShownIds == {walk.shown[i].id : i \in 1..Len(walk.shown)}
Living(ids) == IF service.first = "live rows" THEN {i \in ids : \A r \in rows : r.id = i => r.place.architecture \notin hidden}
               ELSE IF "of deleted" \in service.query.hides /\ asked.architecture \in hidden THEN {} ELSE ids
\* Across all its pages a list shows its rows in its order, none twice in
\* the same place, and every row that was stored for it before the first
\* page and not changed until the last; a cursor is only taken by lists
\* with the order it was made for.
WalksExact ==
    /\ Ordered(walk.shown)
    /\ Going("done") => Living(due) \subseteq ShownIds
    /\ walk.by = service.query.order

\* What a read is below, by the path of its route.
Level(s) == IF s.first \in {"analysis", "snapshot"} \/ "analysis" \in s.query.where THEN "analysis"
            ELSE IF "architecture" \in s.query.where \/ asked.filter = "architecture" THEN "architecture" ELSE "owner"
\* Nothing is shown of another owner, of another architecture or analysis
\* than the one asked for, nor anything that was deleted before.
ReadsScoped ==
    \A i \in 1..Len(walk.shown) :
       LET place == walk.shown[i].place
       IN  /\ place.owner = "us"
           /\ Level(service) = "architecture" => place.architecture = asked.architecture
           /\ Level(service) = "analysis" => place.analysis = asked.analysis
           /\ "deleted" \in service.life => ~walk.shown[i].gone
=============================================================================
