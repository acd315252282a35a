------------------------------ MODULE UserGrid ------------------------------
(***************************************************************************)
(* The users grid of the administrator's console and its bulk actions: the *)
(* URL is the grid's state, rows are fetched when it changes, rows are     *)
(* ticked or "all matching" is chosen, and an action, perhaps after a      *)
(* dialog, posts the batch that the server applies row by row.             *)
(*                                                                         *)
(* A handler runs with the values of the render it was created in: what it *)
(* reads after a dialog or a timer is what it closed over.                 *)
(***************************************************************************)
EXTENDS Integers, FiniteSets

CONSTANTS GridUsers,
          Self,          \* the administrator's own account
          SearchHits,    \* accounts that the search text matches
          SignedUp,      \* the accounts that wait for approval at first
          GridPage,      \* rows of a page
          MAX_BULK_IDS,
          MaxGridMoves,  \* bound: changes of the search, the filter or the page
          MaxBatches,    \* bound: actions clicked
          MaxOthers      \* bound: statuses changed by somebody else

ASSUME GridAssumption ==
  /\ IsFiniteSet(GridUsers) /\ Self \in GridUsers
  /\ MAX_BULK_IDS \in Nat

VARIABLES accountStatus,  \* the status of every account
          url,      \* q, filter[status] and page
          timer,    \* the debounced search: its text and the state it closed over
          result,   \* what the last answer showed, and for which URL
          fetching, \* a request for the current URL is on its way
          sel,      \* the selection
          handler,  \* the bulk action in progress
          chosen,   \* what was on screen when the action was clicked
          spent     \* the bounds' counters

gridVars == <<accountStatus, url, timer, result, fetching, sel, handler, chosen, spent>>

Statuses == {"pending_approval", "active", "blocked"}
BulkActions == {"approve", "block", "ban"}
Scopes == [q : {"", "text"}, status : Statuses \union {"all"}]

selectionScope(u) == [q |-> u.q, status |-> u.status]

Matching(s) ==
  {a \in GridUsers : (s.q = "text" => a \in SearchHits) /\ (s.status # "all" => accountStatus[a] = s.status)}

StartUrl == [q |-> "", status |-> "all", page |-> 1]
Unanswered == [q |-> "none", status |-> "none"]
NoTimer == [set |-> FALSE, q |-> "", closure |-> StartUrl]
NoRows == [items |-> {}, total |-> 0, error |-> FALSE]
NoSelection(s) == [mode |-> "page", ids |-> {}, total |-> 0, scope |-> s]
Nobody == [at |-> "idle", action |-> "none", sel |-> NoSelection(Unanswered),
           body |-> [all |-> FALSE, ids |-> {}, scope |-> Unanswered],
           todo |-> {}, acted |-> {}, allowed |-> {}, ok |-> FALSE]

Modal == handler.at \in {"dialog", "notify"}
-----------------------------------------------------------------------------
(* useGridState: router.replace.  useGridFetch asks again and keeps what it *)
(* shows; useGridSelection drops a selection made under another search.     *)
Replace(next) ==
  /\ url' = next
  /\ fetching' = (fetching \/ next # url)
  /\ sel' = IF selectionScope(next) = sel.scope THEN sel ELSE NoSelection(selectionScope(next))

setFilter(status) ==
  /\ ~Modal /\ spent.moves < MaxGridMoves /\ status # url.status
  /\ Replace([url EXCEPT !.status = status, !.page = 1])
  /\ spent' = [spent EXCEPT !.moves = @ + 1]
  /\ UNCHANGED <<accountStatus, timer, result, handler, chosen>>

setPage(page) ==
  /\ ~Modal /\ spent.moves < MaxGridMoves /\ page # url.page
  /\ (page - 1) * GridPage < result.total
  /\ Replace([url EXCEPT !.page = page])
  /\ spent' = [spent EXCEPT !.moves = @ + 1]
  /\ UNCHANGED <<accountStatus, timer, result, handler, chosen>>

(* GridSearchInput: each keystroke starts the timer again, with this render's *)
(* setSearch.                                                                 *)
TypeSearch(q) ==
  /\ ~Modal /\ spent.moves < MaxGridMoves
  /\ timer' = [set |-> TRUE, q |-> q, closure |-> url]
  /\ spent' = [spent EXCEPT !.moves = @ + 1]
  /\ UNCHANGED <<accountStatus, url, result, fetching, sel, handler, chosen>>

(* The timer fires, under a dialog too: the URL becomes the one closed over, *)
(* a filter set since then included.                                         *)
setSearch ==
  /\ timer.set
  /\ Replace([timer.closure EXCEPT !.q = timer.q, !.page = 1])
  /\ timer' = NoTimer
  /\ UNCHANGED <<accountStatus, result, handler, chosen, spent>>

(* "Clear filters" calls setSearch and then setFilter with one render's      *)
(* state: the second replaces the first and puts the search text back.       *)
onClear ==
  /\ ~Modal /\ spent.moves < MaxGridMoves
  /\ url.q # "" \/ url.status # "all"
  /\ Replace([url EXCEPT !.status = "all", !.page = 1])
  /\ timer' = NoTimer
  /\ spent' = [spent EXCEPT !.moves = @ + 1]
  /\ UNCHANGED <<accountStatus, result, handler, chosen>>

(* The rows of the URL's page, by the default order. *)
PageOf(u) ==
  LET rank(a) == Cardinality({b \in Matching(selectionScope(u)) : b < a})
  IN {a \in Matching(selectionScope(u)) : rank(a) \div GridPage = u.page - 1}

useGridFetch ==
  /\ fetching
  /\ fetching' = FALSE
  /\ \/ result' = [items |-> PageOf(url), total |-> Cardinality(Matching(selectionScope(url))),
                   error |-> FALSE]
     \/ result' = [result EXCEPT !.error = TRUE]
  /\ UNCHANGED <<accountStatus, url, timer, sel, handler, chosen, spent>>
-----------------------------------------------------------------------------
(* useGridSelection.  An answer that failed hides the table. *)
Shown == IF result.error THEN {} ELSE result.items

Ticked(ids) == sel' = [sel EXCEPT !.mode = "page", !.ids = ids, !.total = 0]

toggle(a) ==
  /\ ~Modal /\ a \in Shown
  /\ Ticked(IF a \in sel.ids THEN sel.ids \ {a} ELSE sel.ids \union {a})
  /\ UNCHANGED <<accountStatus, url, timer, result, fetching, handler, chosen, spent>>

(* The box in the header: a page that is all ticked is unticked, and in "all" *)
(* mode every page is.                                                        *)
togglePage ==
  /\ ~Modal /\ Shown # {}
  /\ Ticked(IF sel.mode = "all" \/ Shown \subseteq sel.ids THEN sel.ids \ Shown ELSE sel.ids \union Shown)
  /\ UNCHANGED <<accountStatus, url, timer, result, fetching, handler, chosen, spent>>

(* DataGridToolbar offers it when the page is ticked and more rows match;    *)
(* the count kept is the one on screen.                                      *)
selectAllMatching ==
  /\ ~Modal /\ sel.mode = "page" /\ sel.ids # {}
  /\ Cardinality(sel.ids) >= Cardinality(result.items) /\ result.total > Cardinality(result.items)
  /\ sel' = [sel EXCEPT !.mode = "all", !.ids = {}, !.total = result.total]
  /\ UNCHANGED <<accountStatus, url, timer, result, fetching, handler, chosen, spent>>
-----------------------------------------------------------------------------
(* runBulkAction's request: the ticked ids, or the scope of the selection    *)
(* that the handler closed over.                                             *)
Body_OfTheUrl(s) ==
  IF s.mode = "all" THEN [all |-> TRUE, ids |-> {}, scope |-> selectionScope(url)]
                    ELSE [all |-> FALSE, ids |-> s.ids, scope |-> s.scope]

Body(s) ==
  IF s.mode = "all" THEN [all |-> TRUE, ids |-> {}, scope |-> s.scope]
                    ELSE [all |-> FALSE, ids |-> s.ids, scope |-> s.scope]

refuseOverCap(s) == (IF s.mode = "all" THEN s.total ELSE Cardinality(s.ids)) > MAX_BULK_IDS

(* A bulk action is clicked: a batch over the cap is refused before any      *)
(* dialog; ticked rows are approved or blocked at once.                      *)
bulkActions(action) ==
  /\ handler.at = "idle" /\ spent.batches < MaxBatches
  /\ sel.mode = "all" \/ sel.ids # {}
  /\ ~refuseOverCap(sel)
  /\ chosen' = [all |-> sel.mode = "all", ids |-> sel.ids, scope |-> selectionScope(url)]
  /\ handler' = IF sel.mode = "all" \/ action = "ban"
                THEN [Nobody EXCEPT !.at = "dialog", !.action = action, !.sel = sel]
                ELSE [Nobody EXCEPT !.at = "sent", !.action = action, !.sel = sel, !.body = Body(sel)]
  /\ spent' = [spent EXCEPT !.batches = @ + 1]
  /\ UNCHANGED <<accountStatus, url, timer, result, fetching, sel>>

(* The dialog, which names the selection's count, is answered. *)
runBulkAction ==
  /\ handler.at = "dialog"
  /\ \/ handler' = Nobody
     \/ handler' = [handler EXCEPT !.at = "sent", !.body = Body(handler.sel)]
  /\ UNCHANGED <<accountStatus, url, timer, result, fetching, sel, chosen, spent>>

(* POST users/bulk resolves the batch; more matches than the cap, a spent    *)
(* budget or an error refuse it whole.                                       *)
BulkResolve ==
  /\ handler.at = "sent"
  /\ LET matched == IF handler.body.all THEN Matching(handler.body.scope) \ {Self} ELSE handler.body.ids
         allowed == IF chosen.all THEN Matching(chosen.scope) ELSE chosen.ids
     IN \/ /\ Cardinality(matched) <= MAX_BULK_IDS
           /\ handler' = [handler EXCEPT !.at = "server", !.todo = matched, !.allowed = allowed]
        \/ handler' = [handler EXCEPT !.at = "notify"]
  /\ UNCHANGED <<accountStatus, url, timer, result, fetching, sel, chosen, spent>>

(* executeBulkUserAction on the next row: it may be refused or fail without  *)
(* ending the batch, and no one blocks or bans himself.                      *)
BulkRow(a) ==
  /\ handler.at = "server" /\ a \in handler.todo
  /\ \/ /\ a = Self => handler.action = "approve"
        /\ accountStatus' = [accountStatus EXCEPT ![a] = IF handler.action = "approve" THEN "active" ELSE "blocked"]
        /\ handler' = [handler EXCEPT !.todo = @ \ {a}, !.acted = @ \union {a}]
     \/ /\ handler' = [handler EXCEPT !.todo = @ \ {a}]
        /\ UNCHANGED accountStatus
  /\ UNCHANGED <<url, timer, result, fetching, sel, chosen, spent>>

BulkAnswer ==
  /\ handler.at = "server" /\ handler.todo = {}
  /\ handler' = [handler EXCEPT !.at = "notify", !.ok = TRUE]
  /\ UNCHANGED <<accountStatus, url, timer, result, fetching, sel, chosen, spent>>

(* The notice is closed.  After a success the selection is cleared and the   *)
(* grid is mounted anew, its search box with it.                             *)
Notified ==
  /\ handler.at = "notify"
  /\ handler' = Nobody
  /\ IF handler.ok
     THEN /\ sel' = NoSelection(sel.scope) /\ result' = NoRows
          /\ fetching' = TRUE /\ timer' = NoTimer
     ELSE UNCHANGED <<sel, result, fetching, timer>>
  /\ UNCHANGED <<accountStatus, url, chosen, spent>>

(* Another administrator, or a sign-up. *)
OtherChange(a, status) ==
  /\ spent.others < MaxOthers /\ accountStatus[a] # status
  /\ accountStatus' = [accountStatus EXCEPT ![a] = status]
  /\ spent' = [spent EXCEPT !.others = @ + 1]
  /\ UNCHANGED <<url, timer, result, fetching, sel, handler, chosen>>
-----------------------------------------------------------------------------
GridInit ==
  /\ accountStatus = [a \in GridUsers |-> IF a \in SignedUp THEN "pending_approval" ELSE "active"]
  /\ url = StartUrl /\ timer = NoTimer /\ result = NoRows /\ fetching = TRUE
  /\ sel = NoSelection(selectionScope(StartUrl)) /\ handler = Nobody
  /\ chosen = [all |-> FALSE, ids |-> {}, scope |-> selectionScope(StartUrl)]
  /\ spent = [moves |-> 0, batches |-> 0, others |-> 0]

GridNext ==
  \/ \E s \in Statuses \union {"all"} : setFilter(s)
  \/ \E p \in 1..Cardinality(GridUsers) : setPage(p)
  \/ \E q \in {"", "text"} : TypeSearch(q)
  \/ setSearch \/ onClear \/ useGridFetch
  \/ \E a \in GridUsers : toggle(a) \/ BulkRow(a) \/ \E s \in Statuses : OtherChange(a, s)
  \/ togglePage \/ selectAllMatching
  \/ \E action \in BulkActions : bulkActions(action)
  \/ runBulkAction \/ BulkResolve \/ BulkAnswer \/ Notified

GridSpec == GridInit /\ [][GridNext]_gridVars
-----------------------------------------------------------------------------
GridTypeOK ==
  /\ accountStatus \in [GridUsers -> Statuses]
  /\ selectionScope(url) \in Scopes /\ url.page \in 1..Cardinality(GridUsers)
  /\ result.items \subseteq GridUsers /\ sel.ids \subseteq GridUsers
  /\ sel.mode \in {"page", "all"} /\ sel.scope \in Scopes
  /\ handler.at \in {"idle", "dialog", "sent", "server", "notify"}

(* A batch touches only what was chosen on screen when its action was        *)
(* clicked: the ticked rows, or accounts that match the search and filter    *)
(* shown then; never more than the cap, and never a block or ban of oneself  *)
(* (F-62, F-114), whatever the URL does under the dialog.                    *)
ActsOnWhatWasChosen ==
  handler.at \in {"server", "notify"} =>
    /\ handler.acted \union handler.todo \subseteq handler.allowed
    /\ Cardinality(handler.acted) <= MAX_BULK_IDS
    /\ Self \in handler.acted => handler.action = "approve"
=============================================================================
