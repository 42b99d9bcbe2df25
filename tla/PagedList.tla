------------------------------- MODULE PagedList -------------------------------
(***************************************************************************)
(* The dashboard's infinite-scroll lists, each a page script talking to    *)
(* GET /api/contacts or /api/groups:                                       *)
(*   - public/js/contact.js: the contacts and the groups list of the       *)
(*     contacts page, with a search box each and a global one for both;    *)
(*     a list ends at an empty page;                                       *)
(*   - public/js/message.js: the contact picker of the send-message page,  *)
(*     with a search box; it ends at a page shorter than perPage;          *)
(*   - public/js/group.js: the group picker of the send-group page, with   *)
(*     the same end rule, and neither a scroll listener nor a search box.  *)
(* The browser runs one callback at a time: a handler is one step, and a   *)
(* load is split at its `await fetch': loadContacts up to the request, and *)
(* the response (or the rejection) as a step of its own.                   *)
(*                                                                         *)
(* The server side is contact.paginate / group.paginate: the rows a term   *)
(* matches, in ORDER BY name, cut by LIMIT perPage OFFSET (page-1)*perPage.*)
(* The table is taken as fixed while the page is open.  A debounced input  *)
(* is the one search it fires 500 ms after the last keystroke.             *)
(***************************************************************************)
EXTENDS Naturals, Sequences, FiniteSetsExt

CONSTANTS
    Lists,          \* the lists of the three pages
    EndsOnEmpty,    \* the lists of contact.js; the others end at a short page
    Scrollable,     \* the lists with a scroll listener
    Searchable,     \* the lists with a search box of their own
    GlobalSearched, \* the lists contact.js's #globalSearch resets together
    Terms,          \* search terms, "" among them
    Matches,        \* Matches[l][t]: the rows of l's table term t matches, in order
    PerPage,        \* perPage of the scripts
    NoneFound       \* the "No contacts found" / "No groups found" item

ASSUME /\ EndsOnEmpty \cup Scrollable \cup Searchable \cup GlobalSearched \subseteq Lists
       /\ "" \in Terms /\ PerPage \in Nat \ {0}

VARIABLES
    page,        \* l -> the page counter of the script
    hasMore,     \* l -> hasMore / hasMoreContacts
    isLoading,   \* l -> isLoading
    searchTerm,  \* l -> searchTerm
    shown,       \* l -> the items of the list element, in order
    inflight,    \* l -> the GET requests awaiting an answer, as [term, page]
    overlapped   \* l -> the last search came while a load was in flight

listVars == <<page, hasMore, isLoading, searchTerm, shown, inflight, overlapped>>

Request(t, p) == [term |-> t, page |-> p]

\* The rows of l's table: those the empty term matches.
Rows(l) == {Matches[l][""][i] : i \in DOMAIN Matches[l][""]}

ListTypeOK ==
    /\ page \in [Lists -> Nat \ {0}] /\ hasMore \in [Lists -> BOOLEAN]
    /\ isLoading \in [Lists -> BOOLEAN] /\ searchTerm \in [Lists -> Terms]
    /\ \A l \in Lists : shown[l] \in Seq(Rows(l) \cup {NoneFound})
    /\ inflight \in [Lists -> SUBSET [term : Terms, page : Nat \ {0}]]
    /\ overlapped \in [Lists -> BOOLEAN]

\* Mutant of paginate: the offset counts the requested page itself.
paginateSkipsPage(l, t, p) ==
    LET rows == Matches[l][t]
    IN  SubSeq(rows, p * PerPage + 1, Min({p * PerPage + PerPage, Len(rows)}))

\* contact.paginate / group.paginate: LIMIT perPage OFFSET (page - 1) * perPage.
paginate(l, t, p) ==
    LET rows == Matches[l][t]
        offset == (p - 1) * PerPage
    IN  SubSeq(rows, offset + 1, Min({offset + PerPage, Len(rows)}))

\* The state objects, and the loadContacts()/loadGroups() each script calls
\* when it loads: every list starts with its first request sent.
ListInit ==
    /\ page = [l \in Lists |-> 1] /\ hasMore = [l \in Lists |-> TRUE]
    /\ isLoading = [l \in Lists |-> TRUE] /\ searchTerm = [l \in Lists |-> ""]
    /\ shown = [l \in Lists |-> << >>]
    /\ inflight = [l \in Lists |-> {Request("", 1)}]
    /\ overlapped = [l \in Lists |-> FALSE]

(***************************************************************************)
(* The scroll listener near the bottom of the list calls loadContacts      *)
(* (contact.js checks !isLoading first as well); loadContacts returns at   *)
(* once while a load runs or after the last page, and otherwise sets       *)
(* isLoading and sends the request for the current page and term.  The    *)
(* early return changes nothing and is not a step.                         *)
(***************************************************************************)
Scroll(l) ==
    /\ l \in Scrollable
    /\ ~isLoading[l] /\ hasMore[l]
    /\ isLoading' = [isLoading EXCEPT ![l] = TRUE]
    /\ inflight' = [inflight EXCEPT ![l] = @ \cup {Request(searchTerm[l], page[l])}]
    /\ UNCHANGED <<page, hasMore, searchTerm, shown, overlapped>>

\* Mutant of handleSearch: loadContacts sends its request even while one is
\* in flight.
handleSearchNoGuard(S, t) ==
    /\ searchTerm' = [l \in Lists |-> IF l \in S THEN t ELSE searchTerm[l]]
    /\ page' = [l \in Lists |-> IF l \in S THEN 1 ELSE page[l]]
    /\ hasMore' = [l \in Lists |-> l \in S \/ hasMore[l]]
    /\ shown' = [l \in Lists |-> IF l \in S THEN << >> ELSE shown[l]]
    /\ overlapped' = [l \in Lists |-> IF l \in S THEN isLoading[l] ELSE overlapped[l]]
    /\ isLoading' = [l \in Lists |-> l \in S \/ isLoading[l]]
    /\ inflight' = [l \in Lists |-> IF l \in S THEN inflight[l] \cup {Request(t, 1)}
                                    ELSE inflight[l]]

(***************************************************************************)
(* handleSearch (contact.js) and searchContacts (message.js), for the      *)
(* lists S a search box resets: the term, page 1, hasMore, an empty list   *)
(* element, then loadContacts, which returns early if a load is in flight. *)
(***************************************************************************)
handleSearch(S, t) ==
    /\ searchTerm' = [l \in Lists |-> IF l \in S THEN t ELSE searchTerm[l]]
    /\ page' = [l \in Lists |-> IF l \in S THEN 1 ELSE page[l]]
    /\ hasMore' = [l \in Lists |-> l \in S \/ hasMore[l]]
    /\ shown' = [l \in Lists |-> IF l \in S THEN << >> ELSE shown[l]]
    /\ overlapped' = [l \in Lists |-> IF l \in S THEN isLoading[l] ELSE overlapped[l]]
    /\ isLoading' = [l \in Lists |-> l \in S \/ isLoading[l]]
    /\ inflight' = [l \in Lists |-> IF l \in S /\ ~isLoading[l] THEN {Request(t, 1)}
                                    ELSE inflight[l]]

\* A list's own search box.
Search(l) == l \in Searchable /\ \E t \in Terms : handleSearch({l}, t)

\* #globalSearch: handleSearch('contact', term) then handleSearch('group', term).
GlobalSearch == GlobalSearched # {} /\ \E t \in Terms : handleSearch(GlobalSearched, t)

(***************************************************************************)
(* contact.js after the response: an empty page ends the list and, if the  *)
(* page counter is 1, replaces its content with the "none found" item;     *)
(* otherwise the rows are appended and the counter goes up.                *)
(***************************************************************************)
renderEmptyRule(l, rows) ==
    IF rows = << >>
    THEN /\ hasMore' = [hasMore EXCEPT ![l] = FALSE]
         /\ shown' = IF page[l] = 1 THEN [shown EXCEPT ![l] = << NoneFound >>] ELSE shown
         /\ UNCHANGED page
    ELSE /\ shown' = [shown EXCEPT ![l] = @ \o rows]
         /\ page' = [page EXCEPT ![l] = @ + 1]
         /\ UNCHANGED hasMore

(***************************************************************************)
(* message.js and group.js after the response: an empty first page appends *)
(* the "none found" item, any other page its rows; a page shorter than     *)
(* perPage ends the list; the counter always goes up.                      *)
(***************************************************************************)
renderShortRule(l, rows) ==
    /\ shown' = [shown EXCEPT ![l] = IF rows = << >> /\ page[l] = 1
                                     THEN Append(@, NoneFound) ELSE @ \o rows]
    /\ hasMore' = IF Len(rows) < PerPage THEN [hasMore EXCEPT ![l] = FALSE] ELSE hasMore
    /\ page' = [page EXCEPT ![l] = @ + 1]

\* The fetch of a request resolves: the rows are rendered by the list's rule,
\* whatever the term and page are by now, and isLoading is cleared.
Respond(l) ==
    \E r \in inflight[l] :
        /\ inflight' = [inflight EXCEPT ![l] = @ \ {r}]
        /\ isLoading' = [isLoading EXCEPT ![l] = FALSE]
        /\ IF l \in EndsOnEmpty THEN renderEmptyRule(l, paginate(l, r.term, r.page))
                                ELSE renderShortRule(l, paginate(l, r.term, r.page))
        /\ UNCHANGED <<searchTerm, overlapped>>

\* The fetch rejects, or the answer is a 500 whose body has no rows and the
\* read of `.length' throws: the catch logs, and isLoading is cleared.
Fail(l) ==
    \E r \in inflight[l] :
        /\ inflight' = [inflight EXCEPT ![l] = @ \ {r}]
        /\ isLoading' = [isLoading EXCEPT ![l] = FALSE]
        /\ UNCHANGED <<page, hasMore, searchTerm, shown, overlapped>>

ListNext ==
    \/ GlobalSearch
    \/ \E l \in Lists : Scroll(l) \/ Search(l) \/ Respond(l) \/ Fail(l)

-----------------------------------------------------------------------------

\* What a list shows once all of the term's rows are in: the rows, or the
\* "none found" item when the term matches nothing.
Expected(l, t) == IF Matches[l][t] = << >> THEN << NoneFound >> ELSE Matches[l][t]

(***************************************************************************)
(* The isLoading flag, set before the await and cleared after it, keeps    *)
(* every list to one request in flight, whichever of the scroll listener,  *)
(* a search box or the global search calls loadContacts meanwhile.         *)
(***************************************************************************)
OneFetchInFlight == \A l \in Lists : Cardinality(inflight[l]) <= 1

(***************************************************************************)
(* A list that has reached its end (no load running, hasMore false) shows  *)
(* exactly the rows its term matches, each once and in the server's order, *)
(* through failed loads retried by scrolling and both end rules, unless    *)
(* its last search came while a load was in flight.                        *)
(***************************************************************************)
SettledListComplete ==
    \A l \in Lists :
        ~overlapped[l] /\ ~isLoading[l] /\ ~hasMore[l] => shown[l] = Expected(l, searchTerm[l])

================================================================================
