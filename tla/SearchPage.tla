------------------------------ MODULE SearchPage ------------------------------
(***************************************************************************)
(* The search page of the chairs in the browser (that of the estates is    *)
(* the same code for other criteria).  Neither the Search button nor the   *)
(* page numbers wait for the request before: several requests may be       *)
(* outstanding, and whatever answer comes is shown.  The callbacks of the  *)
(* fetches run one after another in the browser's event loop.              *)
(***************************************************************************)
EXTENDS Naturals, FiniteSets

CONSTANTS
  Criteria,   \* the criteria the visitor may choose; without any the button is disabled
  Counts,     \* the numbers of pages an answer may promise
  MaxRequests \* bound on the requests of a visit

ASSUME PageAssumption == Counts \subseteq Nat /\ MaxRequests \in Nat

NoParams == [crit |-> "none", page |-> 0]
Nothing == [n |-> 0, crit |-> "none", page |-> 0, pages |-> 0]

VARIABLES
  params,  \* chairSearchParams: criteria and page asked for last
  result,  \* searchResult: the answer on the screen and its request
  page,    \* the page number on the screen, from 0
  flights, \* the requests outstanding
  asked,   \* the number of requests made: the newest one's number
  failed,  \* history: the requests that failed
  overlap  \* history: the newest request was made while another was outstanding

pageVars == <<params, result, page, flights, asked, failed, overlap>>
-----------------------------------------------------------------------------
PageInit ==
  /\ params = NoParams /\ result = Nothing /\ page = 0
  /\ flights = {} /\ asked = 0 /\ failed = {} /\ overlap = FALSE

(* setChairSearchParams, setSearchResult(null) and the fetch.              *)
Ask(c, p) ==
  /\ asked < MaxRequests
  /\ asked' = asked + 1
  /\ params' = [crit |-> c, page |-> p]
  /\ result' = Nothing
  /\ overlap' = (flights # {})
  /\ flights' = flights \cup {[n |-> asked', crit |-> c, page |-> p]}
  /\ UNCHANGED <<page, failed>>

OnSearch(c) == Ask(c, 0)

(* Pagination is rendered with a result only, and numbers pages from 1.    *)
(* Mutant: the page numbers are shifted twice. *)
OnPageShiftedTwice(p) == p \in 1 .. result.pages /\ Ask(params.crit, p - 2)
OnPage(p) == p \in 1 .. result.pages /\ Ask(params.crit, p - 1)

(* setSearchResult, setPage.                                               *)
(* Mutant: a search does not go back to the first page. *)
AnsweredKeepsPage(r) ==
  /\ r \in flights /\ flights' = flights \ {r}
  /\ \E k \in Counts :
       result' = [n |-> r.n, crit |-> r.crit, page |-> r.page, pages |-> k]
  /\ page' = IF r.page = 0 THEN page ELSE r.page
  /\ UNCHANGED <<params, asked, failed, overlap>>
Answered(r) ==
  /\ r \in flights /\ flights' = flights \ {r}
  /\ \E k \in Counts :
       result' = [n |-> r.n, crit |-> r.crit, page |-> r.page, pages |-> k]
  /\ page' = r.page
  /\ UNCHANGED <<params, asked, failed, overlap>>

(* A 400 or 500 has no JSON body, a lost connection no answer: either      *)
(* rejects the promise, which is logged and nothing else.                  *)
NotAnswered(r) ==
  /\ r \in flights /\ flights' = flights \ {r}
  /\ failed' = failed \cup {r.n}
  /\ UNCHANGED <<params, result, page, asked, overlap>>

PageNext ==
  \/ \E c \in Criteria : OnSearch(c)
  \/ \E p \in 1 .. result.pages : OnPage(p)
  \/ \E r \in flights : Answered(r) \/ NotAnswered(r)

PageSpec == PageInit /\ [][PageNext]_pageVars
-----------------------------------------------------------------------------
(* The variables have their types.                                         *)
PageTypeOK ==
  /\ asked \in 0 .. MaxRequests /\ page \in Nat /\ overlap \in BOOLEAN
  /\ params \in [crit : Criteria, page : Nat] \cup {NoParams}
  /\ result = Nothing
     \/ result \in [n : 1 .. asked, crit : Criteria, page : Nat, pages : Counts]
  /\ flights \subseteq [n : 1 .. asked, crit : Criteria, page : Nat]
  /\ failed \subseteq 1 .. asked

(* Whatever answers overtake each other, the page number shown is that of  *)
(* the rows shown; the rows are the answer to the newest request, whose    *)
(* criteria the page numbers will use, unless it was made while another    *)
(* was outstanding; and with nothing outstanding any more the page spins   *)
(* for good only if its newest request failed: no older failure takes an   *)
(* answer away.                                                            *)
ScreenFollowsNewest ==
  /\ result # Nothing =>
       /\ page = result.page
       /\ ~overlap => /\ result.n = asked
                      /\ result.crit = params.crit /\ result.page = params.page
  /\ asked > 0 /\ flights = {} /\ result = Nothing => asked \in failed
=============================================================================
