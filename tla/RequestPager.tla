---------------------------- MODULE RequestPager ----------------------------
(***************************************************************************)
(* The request list: loadRequests and the page buttons of the web page     *)
(* (cmd/static/index.html), handleRequests and Store.Query, which counts   *)
(* the rows and reads one page of them in two statements, while watchers   *)
(* insert.  One load at a time: a click while another is under way is left *)
(* out.                                                                    *)
(***************************************************************************)
EXTENDS RequestStore

CONSTANTS
    Filters,       \* sets of addresses a filter can select
    PageSize       \* pageSize

ASSUME PagerConstants ==
    /\ \A f \in Filters : f \subseteq IPs
    /\ PageSize \in Nat \ {0}

VARIABLES
    filter,    \* the filter fields as the last load read them
    page,      \* currentPage
    total,     \* totalResults
    qpc,       \* "rows" between the statements of a query, else "shown"
    count,     \* what the first statement counted
    unseen,    \* rows selected when the filter was first used, not shown since
    front,     \* pages behind the reader: up to the furthest one shown
    passed,    \* those of them that were not shown before the next was
    exact      \* the page was shown whole, and no row came within its query

pagerVars == <<filter, page, total, qpc, count, unseen, front, passed, exact>>

PagerTypeOK ==
    /\ filter \in Filters \cup {{}}
    /\ page \in 1..(MaxRows + 1)
    /\ total \in 0..MaxRows /\ count \in 0..MaxRows
    /\ qpc \in {"rows", "shown"}
    /\ unseen \subseteq 1..MaxRows
    /\ front \in 0..(MaxRows + 1) /\ passed \in 0..front
    /\ exact \in BOOLEAN

\* Nothing has been asked for.
PagerInit ==
    /\ filter = {}
    /\ page = 1 /\ total = 0 /\ qpc = "shown" /\ count = 0
    /\ unseen = {} /\ front = 0 /\ passed = 0 /\ exact = FALSE

\* loadRequests asks for page p with the filter fields as they are by then, f,
\* and Query counts the rows.  With another filter the reader begins anew.
Load(f, p, anew) ==
    /\ qpc = "shown"
    /\ filter' = f /\ page' = p
    /\ count' = Cardinality(Selected(f))
    /\ qpc' = "rows"
    /\ exact' = FALSE
    /\ IF anew \/ f # filter THEN unseen' = Selected(f) /\ front' = 0 /\ passed' = 0
                             ELSE UNCHANGED <<unseen, front, passed>>
    /\ UNCHANGED <<storeVars, total>>

\* The search button goes to the first page; opening the tab does not.
ApplyFilters(f) == Load(f, 1, TRUE)
SwitchTab(f)    == Load(f, page, FALSE)

\* Whether the page has a next one.
HasNext == page * PageSize < total

\* Mutant: the next page is loaded whether there is one or not.
NextPageAlways(f) == Load(f, page + 1, FALSE)

\* The page buttons move at once, before the load is known to succeed.
NextPage(f) == HasNext /\ Load(f, page + 1, FALSE)

PrevPage(f) == page > 1 /\ Load(f, page - 1, FALSE)

\* The page typed in is one of the pages there are.
JumpToPage(f) ==
    \E p \in 1..(MaxRows + 1) \ {page} :
        /\ p = 1 \/ (p - 1) * PageSize < total
        /\ Load(f, p, FALSE)

\* Mutant: the offset of a page is counted from one.
ReadRowsFromOne ==
    /\ qpc = "rows"
    /\ unseen' = unseen \ Page(filter, PageSize, (page - 1) * PageSize + 1)
    /\ IF page > front THEN front' = page /\ passed' = passed + (page - 1 - front)
                       ELSE UNCHANGED <<front, passed>>
    /\ total' = count
    /\ exact' = (count = Cardinality(Selected(filter)))
    /\ qpc' = "shown"
    /\ UNCHANGED <<storeVars, filter, page, count>>

\* Query reads the rows of the page, and they are shown.
ReadRows ==
    /\ qpc = "rows"
    /\ unseen' = unseen \ Page(filter, PageSize, (page - 1) * PageSize)
    /\ IF page > front THEN front' = page /\ passed' = passed + (page - 1 - front)
                       ELSE UNCHANGED <<front, passed>>
    /\ total' = count
    /\ exact' = (count = Cardinality(Selected(filter)))
    /\ qpc' = "shown"
    /\ UNCHANGED <<storeVars, filter, page, count>>

\* The rows end early with an error nobody looks at: those read are shown.
RowsCutShort ==
    /\ qpc = "rows"
    /\ \E n \in 0..(PageSize - 1) :
           unseen' = unseen \ Page(filter, n, (page - 1) * PageSize)
    /\ total' = count
    /\ qpc' = "shown"
    /\ UNCHANGED <<storeVars, filter, page, count, front, passed, exact>>

\* Either statement or the fetch fails, which is only logged: the rows and the
\* total of the page before stay, its number is gone.  An answer without a
\* total, as to a lapsed session, leaves no rows.
LoadFails ==
    /\ qpc = "rows"
    /\ total' \in {total, 0}
    /\ qpc' = "shown"
    /\ UNCHANGED <<storeVars, filter, page, count, unseen, front, passed, exact>>

PagerNext ==
    \/ \E f \in Filters :
           \/ ApplyFilters(f) \/ SwitchTab(f)
           \/ NextPage(f) \/ PrevPage(f) \/ JumpToPage(f)
    \/ ReadRows \/ RowsCutShort \/ LoadFails

-----------------------------------------------------------------------------
(* Properties.                                                             *)

\* Whoever is on the last page, shown whole and with no row inserted within its
\* query, has been shown every row there was when the filter was first used,
\* though rows are inserted all the time, wherever in the order: except a page
\* of them for each page passed over, by a jump, by a filter field changed on a
\* later page, or because its load failed or was cut short and the reader went
\* on.  Who goes page by page and meets no fault misses nothing.
MissedArePassedOver ==
    qpc = "shown" /\ exact /\ ~HasNext => Cardinality(unseen) <= PageSize * passed
=============================================================================
