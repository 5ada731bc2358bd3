----------------------------- MODULE ResultPage -----------------------------
(***************************************************************************)
(* What a client is shown of a batch: HandleGetResults over GetResultsPage *)
(* and CountResultsByStatus, HandleExportCSV and HandleListJobs, in both   *)
(* stores.  They change nothing, so they are operators over the rows that  *)
(* a store holds.                                                          *)
(*                                                                         *)
(* What rows are sorted by is a number: a score, a time in nanoseconds, or *)
(* a text's place among all texts when they are ordered by their bytes, as *)
(* Go's < does.  The in-memory store compares names and references in      *)
(* lower case; PostgreSQL compares every text by the database's collation, *)
(* and times to the microsecond.  So each store has an order of its own.   *)
(*                                                                         *)
(* A row's text is the set of the terms that the store's search finds.     *)
(***************************************************************************)
EXTENDS Integers, Sequences, FiniteSets, Functions, Sorting

CONSTANTS
  Terms,                    \* what a client can search for
  NoTerm,                   \* the empty search
  Texts,                    \* the places of the texts, the empty one's being 0
  Lowered,                  \* the place of each one's lower-case form
  Collated,                 \* its place in the database's collation
  Microsecond,              \* in nanoseconds
  DefaultResultsPageSize,
  MaxResultsPageSize,
  MaxResultsPage

ASSUME PageSizesAssumption ==
  /\ NoTerm \notin Terms
  /\ DefaultResultsPageSize \in 1 .. MaxResultsPageSize
  /\ MaxResultsPageSize \in Nat /\ MaxResultsPage \in Nat \ {0}

\* strings.ToLower can make two texts one; a deterministic collation, as a database's
\* is by default, keeps any two apart.
ASSUME TextsAssumption ==
  /\ Texts \subseteq Nat /\ 0 \in Texts
  /\ Lowered \in [Texts -> Nat] /\ Collated \in [Texts -> Nat]
  /\ \A t, u \in Texts : Collated[t] = Collated[u] => t = u
  /\ Microsecond \in Nat \ {0}

SortFields == {"created_at", "confidence_score", "name_score", "date_score",
               "match_status", "source_name", "reference_id"}
TextFields == {"match_status", "source_name", "reference_id"}
RowStatus  == {"AUTO_MATCHED", "REVIEW_NEEDED", "NO_MATCH", "CONFIRMED", "REJECTED"}

SortKeys == {k \in [SortFields -> Nat] : \A f \in TextFields : k[f] \in Texts}

\* noted: whether decision_note holds a text, and not NULL.
ResultRow == [id : Texts, status : RowStatus, rank : Nat, keys : SortKeys,
              says : SUBSET Terms, noted : BOOLEAN]

Smaller(a, b) == IF a < b THEN a ELSE b

----------------------------------------------------------------------------
(* The rows.  A run ranks the candidates of a source from 1 and leaves the *)
(* rank of a NO_MATCH row at zero; a manual link is a row of its own, of   *)
(* which the two stores write different columns.                           *)

IsRunRow(r) ==
  /\ r \in ResultRow /\ r.noted
  /\ r.status \in {"AUTO_MATCHED", "REVIEW_NEEDED", "NO_MATCH"}
  /\ r.status = "NO_MATCH" <=> r.rank = 0

LinkInMemory(id, keys, says) ==
  [id |-> id, status |-> "CONFIRMED", rank |-> 0, keys |-> keys, says |-> says, noted |-> TRUE]

\* The INSERT names neither rank, whose default is 1, nor decision_note,
\* which has none; the snapshots hold the records' ids and no names.
LinkInPostgres(id, keys) ==
  [id |-> id, status |-> "CONFIRMED", rank |-> 1,
   keys |-> [f \in SortFields |->
               IF f \in {"source_name", "reference_id", "name_score", "date_score"}
                 THEN 0 ELSE keys[f]],
   says |-> {}, noted |-> FALSE]

----------------------------------------------------------------------------
(* A request, and what ResultsQuery.Normalized and the handler make of it. *)

NormalizedLimit(limit) ==
  IF limit <= 0 THEN DefaultResultsPageSize ELSE Smaller(limit, MaxResultsPageSize)

Normalized(q) ==
  [status |-> q.status, search |-> q.search, rank1Only |-> q.rank1Only,
   sortBy |-> IF q.sortBy \in SortFields THEN q.sortBy ELSE "created_at",
   sortDir |-> IF q.sortDir = "desc" THEN "desc" ELSE "asc",
   limit |-> NormalizedLimit(q.limit)]

PageNumber(page) == IF page <= 0 THEN 1 ELSE Smaller(page, MaxResultsPage)

----------------------------------------------------------------------------
(* GetResultsPage. *)

InSearch(search, r)    == search = NoTerm \/ search \in r.says
InStatus(status, r)    == status \in {"", "ALL"} \/ r.status = status

MemoryPasses(q, r) ==
  InStatus(q.status, r) /\ InSearch(q.search, r) /\ (q.rank1Only => ~(r.rank > 1))

PostgresPasses(q, r) ==
  InStatus(q.status, r) /\ InSearch(q.search, r) /\ (q.rank1Only => r.rank = 1)

Passes(backend, q, r) ==
  IF backend = "memory" THEN MemoryPasses(q, r) ELSE PostgresPasses(q, r)

Found(backend, rows, q) == Picked(rows, {i \in DOMAIN rows : Passes(backend, q, rows[i])})

MemoryKey(field, r) ==
  IF field \in {"source_name", "reference_id"} THEN Lowered[r.keys[field]] ELSE r.keys[field]

PostgresKey(field, r) ==
  IF field \in TextFields THEN Collated[r.keys[field]]
  ELSE IF field = "created_at" THEN r.keys[field] \div Microsecond ELSE r.keys[field]

KeyOf(backend, field, r) ==
  IF backend = "memory" THEN MemoryKey(field, r) ELSE PostgresKey(field, r)
IdOf(backend, r) == IF backend = "memory" THEN r.id ELSE Collated[r.id]

\* Ascending by id whatever the direction.
Precedes(backend, q, r, s) ==
  LET a == KeyOf(backend, q.sortBy, r)  b == KeyOf(backend, q.sortBy, s) IN
  IF a = b THEN IdOf(backend, r) < IdOf(backend, s)
  ELSE IF q.sortDir = "desc" THEN b < a ELSE a < b

\* Equal rows stay as they were.
Earlier(backend, rows, q) ==
  {e \in (DOMAIN rows) \X (DOMAIN rows) :
     \/ Precedes(backend, q, rows[e[1]], rows[e[2]])
     \/ ~Precedes(backend, q, rows[e[2]], rows[e[1]]) /\ e[1] < e[2]}
Sorted(backend, rows, q) ==
  LET places == InOrder(DOMAIN rows, Earlier(backend, rows, q))
  IN [n \in DOMAIN places |-> rows[places[n]]]

\* A slice that takes one row too many.
SliceInclusive(seq, offset, limit) ==
  LET n == Len(seq) IN SubSeq(seq, Smaller(offset, n) + 1, Smaller(offset + limit + 1, n))

Slice(seq, offset, limit) ==
  LET n == Len(seq) IN SubSeq(seq, Smaller(offset, n) + 1, Smaller(offset + limit, n))

Unreadable(seq) == {i \in DOMAIN seq : ~seq[i].noted}
First(S)        == CHOOSE i \in S : \A j \in S : i <= j

\* decision_note is scanned into a string: a NULL is an error, on which the
\* driver closes the rows.  The loop goes on to the next row, and there is none.
Scanned(seq) ==
  IF Unreadable(seq) = {} THEN seq ELSE SubSeq(seq, 1, First(Unreadable(seq)) - 1)

MemoryPage(rows, q, offset) ==
  LET found == Found("memory", rows, q)
  IN [rows |-> Slice(Sorted("memory", found, q), offset, q.limit), total |-> Len(found)]

PostgresPage(rows, q, offset) ==
  LET found == Found("postgres", rows, q)
  IN [rows |-> Scanned(Slice(Sorted("postgres", found, q), offset, q.limit)),
      total |-> Len(found)]

GetResultsPage(backend, rows, q, offset) ==
  IF backend = "memory" THEN MemoryPage(rows, q, offset) ELSE PostgresPage(rows, q, offset)

\* Of every status, and of every rank.
CountResultsByStatus(rows, search) ==
  LET found == {i \in DOMAIN rows : InSearch(search, rows[i])} IN
  [s \in {rows[i].status : i \in found} |-> Cardinality({i \in found : rows[i].status = s})]

\* HandleGetResults.
TotalPages(total, limit) ==
  IF total = 0 THEN 1 ELSE (total + limit - 1) \div limit

HandleGetResults(backend, rows, request) ==
  LET q    == Normalized(request)
      page == PageNumber(request.page)
      got  == GetResultsPage(backend, rows, q, (page - 1) * q.limit)
  IN [page |-> page, limit |-> q.limit, total |-> got.total,
      totalPages |-> TotalPages(got.total, q.limit), rows |-> got.rows,
      counts |-> CountResultsByStatus(rows, q.search)]

----------------------------------------------------------------------------
(* HandleExportCSV: every row, in memory as they were saved, in PostgreSQL *)
(* from the oldest on; of a PostgreSQL store whose rows cannot all be      *)
(* scanned, none.                                                          *)

Refused == [found |-> FALSE, rows |-> << >>]

PostgresResults(rows) ==
  IF Unreadable(rows) # {} THEN Refused
  ELSE [found |-> TRUE,
        rows |-> Sorted("postgres", rows, [sortBy |-> "created_at", sortDir |-> "asc"])]

Exported(backend, rows) ==
  IF backend = "memory" THEN [found |-> TRUE, rows |-> rows] ELSE PostgresResults(rows)

----------------------------------------------------------------------------
(* HandleListJobs.  jobs is a set of records with an id and a start; the   *)
(* orders that the store may answer in: PostgreSQL breaks ties by the id,  *)
(* the in-memory store sorts what a map iteration yields.                  *)

OrdersOf(S) == {s \in [1 .. Cardinality(S) -> S] : \A i, j \in DOMAIN s : s[i] = s[j] => i = j}

MemoryJobPrecedes(j, k) == j.started >= k.started

PostgresJobPrecedes(j, k) == j.started > k.started \/ (j.started = k.started /\ j.id > k.id)

JobOrders(backend, jobs) ==
  {s \in OrdersOf(jobs) : \A i, j \in DOMAIN s : i < j =>
     IF backend = "memory" THEN MemoryJobPrecedes(s[i], s[j])
     ELSE PostgresJobPrecedes(s[i], s[j])}

HandleListJobs(order, limit, offset) ==
  Slice(order, IF offset < 0 THEN 0 ELSE offset, NormalizedLimit(limit))

----------------------------------------------------------------------------
(* What the pages promise. *)

\* The pages that a client finds when it turns them one by one.
PagesOf(backend, rows, request) ==
  LET first == HandleGetResults(backend, rows, [request EXCEPT !.page = 1])
  IN [p \in 1 .. first.totalPages |->
        HandleGetResults(backend, rows, [request EXCEPT !.page = p]).rows]

\* The places of the rows on the pages, each a page and a line of it.
PlacesOn(pages) ==
  {s \in (DOMAIN pages) \X (1 .. MaxResultsPageSize) : s[2] \in DOMAIN pages[s[1]]}

NoRowTwice(pages) ==
  \A s, t \in PlacesOn(pages) : pages[s[1]][s[2]].id = pages[t[1]][t[2]].id => s = t

CountedRowsShown(backend, rows, request) ==
  LET pages == PagesOf(backend, rows, request)
  IN /\ NoRowTwice(pages)
     /\ Cardinality(PlacesOn(pages))
          = HandleGetResults(backend, rows, [request EXCEPT !.page = 1]).total

\* Every row that the request asks for can be scanned.
AllCanBeScanned(backend, rows, request) ==
  backend = "memory" \/ Unreadable(Found(backend, rows, Normalized(request))) = {}

\* A tab says how many rows it shows, unless only rows of the first rank are shown.
TabsAreCounted(backend, rows, request) ==
  LET got == HandleGetResults(backend, rows, request)
      tab == IF InStatus(request.status, [status |-> ""]) THEN DOMAIN got.counts
             ELSE DOMAIN got.counts \cap {request.status}
  IN ~request.rank1Only => got.total = SumFunctionOnSet(got.counts, tab)

\* Each page of jobs is cut out of an answer of its own: one order per page.
JobPagesShowAll(backend, jobs, limit) ==
  LET n     == NormalizedLimit(limit)
      pages == TotalPages(Cardinality(jobs), n)
  IN \A orders \in [1 .. pages -> JobOrders(backend, jobs)] :
       LET page(p) == HandleListJobs(orders[p], limit, (p - 1) * n)
           seen    == UNION {{page(p)[i] : i \in DOMAIN page(p)} : p \in 1 .. pages}
       IN seen = jobs
=============================================================================
