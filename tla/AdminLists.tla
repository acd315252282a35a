----------------------------- MODULE AdminLists -----------------------------
(***************************************************************************)
(* Reading the administrator's lists: the CSV export of a grid, which walks *)
(* the rows by keyset cursor, and fetchAllPages, with which an editor loads *)
(* a whole catalog by page number.  Both make several requests, and other  *)
(* administrators insert, delete and edit rows in between.                  *)
(*                                                                         *)
(* A row is its id; text is abstracted to the rows a search finds.  Every  *)
(* resource has one column to filter by (status, outcome, is_default) and  *)
(* one to sort by.                                                         *)
(***************************************************************************)
EXTENDS Integers, FiniteSets, Sequences, Functions

CONSTANTS Rows,      \* ids, in the order of the tie-break
          SortValues, \* values of the sort column
          Null,      \* SQL's null, in a nullable sort column
          Owner,     \* the organizations of a row; {} for a global one
          Hits,      \* rows whose own columns match the search text
          JoinHits,  \* rows only a joined column or the subdomain matches
          Holding,   \* roles that hold the permission filtered by
          Views,     \* what the grid shows: a resource, a scope and a query
          Seeds,     \* tables to start with
          PAGE_SIZE, MAX_EXPORT_ROWS,  \* of an export
          WalkPage, CATALOG_MAX_ITEMS, \* of a catalog
          MAX_WALKS,
          MaxWrites, \* bound: rows written while one reader reads
          Unborn, Gone

Resources == {"users", "audit", "organizations", "roles", "permissions", "memberships", "enterprise-apps"}
Column == {"on", "off"}

ASSUME ListsAssumption ==
  /\ IsFiniteSet(Rows) /\ Rows \subseteq Nat \ {0}
  /\ SortValues \subseteq Int /\ Null \notin Int
  /\ \A v \in Views : v.resource \in Resources
  /\ Seeds \subseteq [Rows -> [key : SortValues \union {Null}, column : Column] \union {Unborn, Gone}]
  /\ PAGE_SIZE \in Nat \ {0} /\ MAX_EXPORT_ROWS \in Nat \ {0}
  /\ WalkPage \in Nat \ {0} /\ CATALOG_MAX_ITEMS \in Nat \ {0} /\ MAX_WALKS \in Nat \ {0}
  /\ MaxWrites \in Nat

VARIABLES table,   \* row -> its sort key and filter column, or not there
          view,    \* fixed: what is being read
          export,  \* the export's stream
          walk,    \* the catalog reader
          steady,  \* listed and unwritten since the reader began
          seen,    \* listed at some time since the reader began
          grew,    \* a row came into the list since the walk began
          shrank,  \* a row left the list since the walk began
          written

listVars == <<table, view, export, walk, steady, seen, grew, shrank, written>>

NoCursor == [key |-> Null, id |-> 0]
Lesser(a, b) == IF a < b THEN a ELSE b
Greater(a, b) == IF a > b THEN a ELSE b
-----------------------------------------------------------------------------
(* The query, as parseListQuery and filterValues hand it on: an empty set is *)
(* a filter that was not given.                                              *)
There(r) == table[r] \notin {Unborn, Gone}
InScope(r) == view.scope = "all" \/ view.scope \in Owner[r]
ColumnIn(r, values) == values = {} \/ table[r].column \in values

(* users: values that are no status are dropped before they filter. *)
StatusIn(r) == ColumnIn(r, view.column \cap Column)

(* is_default: "true" and "false" together filter nothing. *)
FlagIn(r) == (view.column # {} /\ view.column # Column) => table[r].column \in view.column

(* An id, or the keyword for the rows of no organization. *)
OrgIn(r) == view.org = {} \/ view.org \cap Owner[r] # {} \/ ("global" \in view.org /\ Owner[r] = {})

KindIn(r) ==
  ("global" \in view.kinds) # ("org" \in view.kinds) => (("global" \in view.kinds) <=> (Owner[r] = {}))

PermissionIn(r) == view.permission => r \in Holding
Found(r, hits) == view.q => r \in hits

(* A uuid filter refuses what is neither an id nor the resource's keyword. *)
parseListQuery ==
  view.resource \in {"audit", "memberships"} => "global" \notin view.org
-----------------------------------------------------------------------------
(* The list endpoints: which rows of the table the grid shows. *)
UsersGET(r) == InScope(r) /\ StatusIn(r) /\ Found(r, Hits)
AuditGET(r) == InScope(r) /\ ColumnIn(r, view.column) /\ OrgIn(r) /\ Found(r, Hits)
OrganizationsGET(r) == InScope(r) /\ FlagIn(r) /\ Found(r, Hits)
RolesGET(r) == InScope(r) /\ OrgIn(r) /\ KindIn(r) /\ PermissionIn(r) /\ Found(r, Hits \union JoinHits)
PermissionsGET(r) == Found(r, Hits)
MembershipsGET(r) == InScope(r) /\ ColumnIn(r, view.column) /\ OrgIn(r) /\ Found(r, JoinHits)
EnterpriseAppsGET(r) == InScope(r) /\ ColumnIn(r, view.column) /\ OrgIn(r) /\ Found(r, Hits \union JoinHits)

Listed(r) ==
  /\ There(r)
  /\ view.scope = "none" => view.resource = "permissions"
  /\ CASE view.resource = "users" -> UsersGET(r)
       [] view.resource = "audit" -> AuditGET(r)
       [] view.resource = "organizations" -> OrganizationsGET(r)
       [] view.resource = "roles" -> RolesGET(r)
       [] view.resource = "permissions" -> PermissionsGET(r)
       [] view.resource = "memberships" -> MembershipsGET(r)
       [] OTHER -> EnterpriseAppsGET(r)

(* The exporters: which rows fetchPage selects from. *)
buildUsersExporter(r) == InScope(r) /\ StatusIn(r) /\ Found(r, Hits)
buildAuditExporter(r) == InScope(r) /\ ColumnIn(r, view.column) /\ OrgIn(r) /\ Found(r, Hits)
buildOrganizationsExporter(r) == InScope(r) /\ FlagIn(r) /\ Found(r, Hits)
buildRolesExporter(r) == InScope(r) /\ OrgIn(r) /\ KindIn(r) /\ Found(r, Hits \union JoinHits)
buildPermissionsExporter(r) == Found(r, Hits)
buildMembershipsExporter(r) == InScope(r) /\ ColumnIn(r, view.column) /\ OrgIn(r)
buildEnterpriseAppsExporter(r) == InScope(r) /\ ColumnIn(r, view.column) /\ OrgIn(r) /\ Found(r, Hits)

Exported(r) ==
  /\ There(r)
  /\ view.scope # "none"
  /\ CASE view.resource = "users" -> buildUsersExporter(r)
       [] view.resource = "audit" -> buildAuditExporter(r)
       [] view.resource = "organizations" -> buildOrganizationsExporter(r)
       [] view.resource = "roles" -> buildRolesExporter(r)
       [] view.resource = "permissions" -> buildPermissionsExporter(r)
       [] view.resource = "memberships" -> buildMembershipsExporter(r)
       [] OTHER -> buildEnterpriseAppsExporter(r)
-----------------------------------------------------------------------------
(* Keyset pages.  Permissions are exported by ascending key, whatever the   *)
(* grid's sort; nulls come last in either direction.                        *)
Ascending == view.ascending \/ view.resource = "permissions"
Follows(k, c) == k # Null /\ (IF Ascending THEN k > c ELSE k < c)

buildKeysetSort(a, b) ==
  LET ka == table[a].key
      kb == table[b].key
  IN \/ kb = Null /\ ka # Null
     \/ ka # Null /\ Follows(kb, ka)
     \/ ka = kb /\ a < b

(* F-31: a cursor rendered with fewer digits than the column has. *)
keysetCursorFrom_Rounded(r) ==
  [key |-> IF table[r].key = Null THEN Null ELSE 2 * (table[r].key \div 2), id |-> r]

keysetCursorFrom(r) == [key |-> table[r].key, id |-> r]

levelAfter(r, c) == c.key # Null /\ (Follows(table[r].key, c.key) \/ table[r].key = Null)
levelEqual(r, c) == table[r].key = c.key

Beyond(r, c) == c = NoCursor \/ levelAfter(r, c) \/ (levelEqual(r, c) /\ r > c.id)

(* The rows beyond the cursor, in order, up to the limit: the only page that *)
(* is sorted and ahead of every row that it leaves out.                      *)
applyKeyset(c, limit) ==
  LET after == {r \in Rows : Exported(r) /\ Beyond(r, c)}
  IN {page \in [1..Lesser(limit, Cardinality(after)) -> after] :
        /\ \A i, j \in DOMAIN page : i < j => buildKeysetSort(page[i], page[j])
        /\ \A i \in DOMAIN page : \A r \in after \ Range(page) : buildKeysetSort(page[i], r)}

pageCursor(page) == IF page = <<>> THEN NoCursor ELSE keysetCursorFrom(page[Len(page)])
-----------------------------------------------------------------------------
NoExport == [at |-> "idle", out |-> <<>>, cursor |-> NoCursor, truncated |-> FALSE, audits |-> {}]

NoWalk == [at |-> "idle", walk |-> 1, page |-> 1, held |-> {}, first |-> 0, moved |-> FALSE,
           total |-> 0, largest |-> 0, truncated |-> FALSE]

ListedNow == {r \in Rows : Listed(r)}

Begin ==
  /\ steady' = ListedNow
  /\ seen' = ListedNow
  /\ grew' = FALSE /\ shrank' = FALSE

(* The stream is closed; the finally block audits a completed export. *)
Close(e) == [e EXCEPT !.at = "done", !.audits = @ \union {"completed"}]

(* A page is written out; a full one is followed by another. *)
Stream(page, limit) ==
  LET sent == [export EXCEPT !.at = "stream", !.out = @ \o page,
                             !.cursor = IF page = <<>> THEN @ ELSE pageCursor(page)]
  IN export' = IF Len(page) < limit THEN Close(sent) ELSE sent

(* GET export/[resource]: the first page is read before any of the answer.  *)
ExportPreflight ==
  /\ view.reader = "export" /\ export.at = "idle" /\ parseListQuery
  /\ LET limit == Lesser(PAGE_SIZE, MAX_EXPORT_ROWS)
     IN \E page \in applyKeyset(NoCursor, limit) : Stream(page, limit)
  /\ Begin
  /\ UNCHANGED <<table, view, walk, written>>

ExportPreflightFails ==
  /\ view.reader = "export" /\ export.at = "idle" /\ parseListQuery
  /\ export' = [export EXCEPT !.at = "done", !.audits = {"failed"}]
  /\ UNCHANGED <<table, view, walk, steady, seen, grew, shrank, written>>

ExportPage ==
  /\ export.at = "stream"
  /\ LET remaining == MAX_EXPORT_ROWS - Len(export.out)
         limit == Lesser(PAGE_SIZE, remaining)
     IN IF remaining <= 0 THEN export' = Close([export EXCEPT !.truncated = TRUE])
                          ELSE \E page \in applyKeyset(export.cursor, limit) : Stream(page, limit)
  /\ UNCHANGED <<table, view, walk, steady, seen, grew, shrank, written>>

(* A later page cannot be read: a comment line says so, and both audit rows *)
(* are written.                                                             *)
ExportPageFails ==
  /\ export.at = "stream" /\ Len(export.out) < MAX_EXPORT_ROWS
  /\ export' = Close([export EXCEPT !.audits = {"failed"}])
  /\ UNCHANGED <<table, view, walk, steady, seen, grew, shrank, written>>
-----------------------------------------------------------------------------
(* Offset pages: PostgreSQL's own place for nulls, last ascending and first *)
(* descending.                                                              *)
applySortAndPagination(a, b) ==
  LET ka == table[a].key
      kb == table[b].key
  IN \/ ka = kb /\ a < b
     \/ ka # kb /\ IF view.ascending THEN kb = Null \/ (ka # Null /\ ka < kb)
                                     ELSE ka = Null \/ (kb # Null /\ ka > kb)

(* How many of S come before r. *)
Place(r, S) == Cardinality({a \in S : applySortAndPagination(a, r)})

(* LIMIT and OFFSET; of a page, the walk only uses which rows it has. *)
PageItems(n) == {r \in ListedNow : Place(r, ListedNow) \in (n - 1) * WalkPage .. n * WalkPage - 1}

maxPages == (CATALOG_MAX_ITEMS + WalkPage - 1) \div WalkPage

Reported_LastCount(w) == w.total

(* The result of a walk that ends: what it holds and what it says of it. *)
Reported(w) == IF w.moved THEN Greater(w.largest, Cardinality(w.held)) ELSE w.total

Answer(w) == [w EXCEPT !.at = "done", !.truncated = Cardinality(w.held) < Reported(w)]

(* The rest of walkPages' loop for one page, given its rows and its count. *)
PageRead(rows, count) ==
  LET page == walk.page
      moves == page > 1 /\ count # walk.first
      added == rows \ walk.held
      room == CATALOG_MAX_ITEMS - Cardinality(walk.held)
      taken == IF Cardinality(added) <= room THEN added
               ELSE {r \in added : Place(r, added) < room}
      held == walk.held \union taken
      total == Greater(count, Cardinality(held))
      w == [walk EXCEPT !.at = "walk", !.held = held, !.moved = @ \/ moves, !.total = total,
                        !.largest = Greater(@, total), !.first = IF page = 1 THEN count ELSE @]
      stop == \/ Cardinality(held) >= total \/ Cardinality(held) >= CATALOG_MAX_ITEMS
              \/ Cardinality(rows) < WalkPage \/ taken = {} \/ page = maxPages
  IN walk' = IF moves /\ walk.walk < MAX_WALKS
             THEN [NoWalk EXCEPT !.at = "walk", !.walk = walk.walk + 1]
             ELSE IF stop THEN Answer(w) ELSE [w EXCEPT !.page = page + 1]

(* One request for a page.  Its rows and its count are one statement, save  *)
(* for an empty later page, whose count is a statement of its own.          *)
WalkPages ==
  /\ view.reader = "walk" /\ walk.at \in {"idle", "walk"} /\ parseListQuery
  /\ LET rows == PageItems(walk.page)
     IN IF rows = {} /\ walk.page > 1
        THEN walk' = [walk EXCEPT !.at = "count"]
        ELSE PageRead(rows, Cardinality(ListedNow))
  /\ IF walk.page = 1 THEN Begin ELSE UNCHANGED <<steady, seen, grew, shrank>>
  /\ UNCHANGED <<table, view, export, written>>

executeListWithTotal ==
  /\ walk.at = "count"
  /\ PageRead({}, Cardinality(ListedNow))
  /\ UNCHANGED <<table, view, export, steady, seen, grew, shrank, written>>

(* A page answers with an error: nothing is returned. *)
WalkFails ==
  /\ view.reader = "walk" /\ walk.at \in {"idle", "walk", "count"}
  /\ walk' = [walk EXCEPT !.at = "failed"]
  /\ UNCHANGED <<table, view, export, steady, seen, grew, shrank, written>>
-----------------------------------------------------------------------------
SortKeys == IF view.nullable THEN SortValues \union {Null} ELSE SortValues

(* Somebody else writes a row; ids are never used again. *)
RowWritten ==
  /\ export.at = "stream" \/ walk.at \in {"walk", "count"}
  /\ written < MaxWrites
  /\ written' = written + 1
  /\ UNCHANGED <<view, export, walk>>
  /\ \E r \in Rows :
       /\ table[r] # Gone
       /\ \E row \in [key : SortKeys, column : Column] \union (IF table[r] = Unborn THEN {} ELSE {Gone}) :
            row # table[r] /\ table' = [table EXCEPT ![r] = row]
       /\ steady' = steady \ {r}
       /\ seen' = IF Listed(r)' THEN seen \union {r} ELSE seen
       /\ grew' = (grew \/ (~Listed(r) /\ Listed(r)'))
       /\ shrank' = (shrank \/ (Listed(r) /\ ~Listed(r)'))

ListsInit ==
  /\ view \in Views
  /\ table \in {t \in Seeds : \A r \in Rows : t[r] \in {Unborn, Gone} \/ t[r].key \in SortKeys}
  /\ export = NoExport /\ walk = NoWalk
  /\ steady = {} /\ seen = {} /\ grew = FALSE /\ shrank = FALSE /\ written = 0

ListsNext ==
  \/ ExportPreflight \/ ExportPreflightFails \/ ExportPage \/ ExportPageFails
  \/ WalkPages \/ executeListWithTotal \/ WalkFails \/ RowWritten

ListsSpec == ListsInit /\ [][ListsNext]_listVars
-----------------------------------------------------------------------------
ListsTypeOK ==
  /\ table \in [Rows -> [key : SortValues \union {Null}, column : Column] \union {Unborn, Gone}]
  /\ view \in Views
  /\ export.at \in {"idle", "stream", "done"} /\ export.out \in Seq(Rows)
  /\ export.audits \subseteq {"failed", "completed"} /\ export.truncated \in BOOLEAN
  /\ walk.at \in {"idle", "walk", "count", "done", "failed"} /\ walk.walk \in 1..MAX_WALKS
  /\ walk.page \in 1..maxPages /\ walk.held \subseteq Rows
  /\ Cardinality(walk.held) <= CATALOG_MAX_ITEMS
  /\ steady \subseteq Rows /\ seen \subseteq Rows /\ written \in 0..MaxWrites

(* Where an export leaves the grid's query: it does not search memberships, *)
(* searches fewer columns of applications, drops the permission filter of   *)
(* roles, and lists no permissions to a caller without a scope.             *)
KnownToDiffer ==
  \/ view.resource \in {"memberships", "enterprise-apps"} /\ view.q
  \/ view.resource = "roles" /\ view.permission
  \/ view.resource = "permissions" /\ view.scope = "none"

(* An export is the grid: rows that stayed as they were while it ran are in *)
(* a whole export exactly once, no row is in any export twice unless it was *)
(* written meanwhile, and no row is in it that the grid did not list at some *)
(* moment of the export.  However it ends, none of those rows is ahead of   *)
(* one that sorts before it, so one cut short is cut at its end             *)
(* (applyKeyset against concurrent writes).                                 *)
ExportIsTheView ==
  LET times(r) == Cardinality({i \in DOMAIN export.out : export.out[i] = r})
      whole == export.at = "done" /\ "failed" \notin export.audits /\ ~export.truncated
  IN ~KnownToDiffer =>
       /\ \A r \in steady : times(r) <= 1 /\ (whole => times(r) = 1)
       /\ \A i \in DOMAIN export.out : export.out[i] \in steady =>
            \A a \in steady : buildKeysetSort(a, export.out[i]) => \E j \in 1..(i - 1) : export.out[j] = a
       /\ Range(export.out) \subseteq seen
       /\ Len(export.out) <= MAX_EXPORT_ROWS

(* A catalog that does not say it is cut short has every row that was there, *)
(* unwritten, all through the walk that read it, unless rows both came and   *)
(* went during that walk (fetchAllPages restarts and counts).                *)
CatalogWhole ==
  (walk.at = "done" /\ ~walk.truncated /\ ~(grew /\ shrank)) => steady \subseteq walk.held
=============================================================================
