------------------------------- MODULE Ingest -------------------------------
(***************************************************************************)
(* How a dataset is read: the connectors' FetchRecords, fetchAllRecords,   *)
(* which pages a connector until nothing is left, and the handlers         *)
(* HandleConnectorIngest and HandleUploadFile, which make a batch of what  *)
(* two connectors return.                                                  *)
(*                                                                         *)
(* A connector reads somebody else's table, which can change between two   *)
(* pages.  A source is therefore given as the table that each call finds:  *)
(* source.tables[k] is the sequence of rows, in the order it asks for, at  *)
(* the k-th call.                                                          *)
(***************************************************************************)
EXTENDS Integers, Sequences, FiniteSets, Sorting

CONSTANTS
  IngestPageSize,      \* rows asked for by a call
  DefaultLimit,        \* what clamp makes of a limit that is not positive
  MaxLimit,            \* the most that clamp lets pass
  DefaultMaxRecords,   \* of one ingest, unless the environment sets another
  Failed               \* what a call that fails returns

ASSUME IngestAssumption ==
  /\ IngestPageSize \in Nat \ {0} /\ DefaultMaxRecords \in Nat \ {0}
  /\ DefaultLimit \in 1 .. MaxLimit /\ MaxLimit \in Nat /\ IngestPageSize <= MaxLimit

DatabaseTypes == {"POSTGRES", "SQLSERVER", "MONGODB"}
FileTypes     == {"CSV", "EXCEL"}
SourceTypes   == DatabaseTypes \cup FileTypes \cup {"MANUAL"}

Least(a, b) == IF a < b THEN a ELSE b

----------------------------------------------------------------------------
(* The connectors. *)

\* NewDataConnector: an unknown type reads what the request itself carries.
ConnectorOf(type) == IF type \in SourceTypes THEN type ELSE "MANUAL"

ClampLimit(limit) == Least(IF limit <= 0 THEN DefaultLimit ELSE limit, MaxLimit)
FromZero(offset)  == IF offset < 0 THEN 0 ELSE offset

Window(seq, offset, n) ==
  SubSeq(seq, Least(offset, Len(seq)) + 1, Least(offset + n, Len(seq)))

\* resolveOrderBy: the columns that pages are ordered by.  An explicit order is
\* taken at its word; a table without any order is refused.
ResolvedOrder(source, orderable) ==
  IF source.explicit THEN "explicit"
  ELSE IF source.key THEN "primary key"
  ELSE IF source.columns \cap orderable # {} THEN "orderable columns"
  ELSE "none"

\* A column of JSON has no order in PostgreSQL; SQL Server calls it a text.
ColumnTypes       == {"number", "json", "xml"}
PostgresOrder(source)  == ResolvedOrder(source, {"number"})
SqlServerOrder(source) == ResolvedOrder(source, {"number", "json"})

\* What a name is taken for before anything is read: a name that starts like a
\* query is refused by one of the two, even when it is a table's.
Names == {"table", "schema.table", "selections", "a.b.c", "not a name"}
PostgresNames  == {"table", "schema.table"}
SqlServerNames == {"table", "schema.table", "selections"}

PostgresFetch(source, table, limit, offset) ==
  IF source.name \notin PostgresNames \/ ~source.reachable \/ PostgresOrder(source) = "none"
  THEN Failed
  ELSE Window(table, FromZero(offset), ClampLimit(limit))

SqlServerFetch(source, table, limit, offset) ==
  IF source.name \notin SqlServerNames \/ ~source.reachable \/ SqlServerOrder(source) = "none"
  THEN Failed
  ELSE Window(table, FromZero(offset), ClampLimit(limit))

\* A document that cannot be decoded is left out of its page.
MongoFetch(source, table, limit, offset) ==
  LET page == Window(table, FromZero(offset), ClampLimit(limit)) IN
  IF ~source.reachable THEN Failed ELSE Picked(page, {i \in DOMAIN page : page[i].decodes})

\* Files are read from their start for each page.  A CSV record with another
\* number of fields than the header fails every page that comes to it, skipped
\* ones and the one after the page included.
CsvFetch(source, table, limit, offset) ==
  LET from == FromZero(offset)  n == ClampLimit(limit) IN
  IF ~source.reachable \/ \E i \in 1 .. Least(from + n + 1, Len(table)) : ~table[i].decodes
  THEN Failed
  ELSE Window(table, from, n)

\* An Excel row is looked at when it is on the page.
ExcelFetch(source, table, limit, offset) ==
  LET page == Window(table, FromZero(offset), ClampLimit(limit)) IN
  IF ~source.reachable \/ \E i \in DOMAIN page : ~page[i].decodes THEN Failed ELSE page

\* ManualConnector, and files whose rows came with the request.
CarriedFetch(table, limit, offset) ==
  Window(table, FromZero(offset), IF limit <= 0 THEN Len(table) ELSE limit)

TableAt(source, k) == source.tables[Least(k, Len(source.tables))]

FetchRecords(source, k, limit, offset) ==
  LET type == ConnectorOf(source.type)  table == TableAt(source, k) IN
  CASE type = "POSTGRES"                     -> PostgresFetch(source, table, limit, offset)
    [] type = "SQLSERVER"                    -> SqlServerFetch(source, table, limit, offset)
    [] type = "MONGODB"                      -> MongoFetch(source, table, limit, offset)
    [] type = "CSV" /\ ~source.carried       -> CsvFetch(source, table, limit, offset)
    [] type = "EXCEL" /\ ~source.carried     -> ExcelFetch(source, table, limit, offset)
    [] OTHER                                 -> CarriedFetch(table, limit, offset)

----------------------------------------------------------------------------
(* fetchAllRecords. *)

\* resolveMaxIngestRecords: env is the value of MAX_INGEST_RECORDS if it is a number.
MaxIngestRecords(env) == IF env \in Nat \ {0} THEN env ELSE DefaultMaxRecords

Reading(rows, offset, calls, done) ==
  [rows |-> rows, offset |-> offset, calls |-> calls, done |-> done]

\* What is read once the page that was asked for has come; the next one begins there.
After(st, page, size, next) ==
  IF page = Failed THEN Failed
  ELSE Reading(st.rows \o page, next, st.calls + 1, Len(page) < size)

\* A loop that goes on by the number of rows it asked for.
FetchNextBySize(source, max, st) ==
  After(st, FetchRecords(source, st.calls + 1, IngestPageSize, st.offset),
        IngestPageSize, st.offset + IngestPageSize)

FetchSize(max, st) == Least(IngestPageSize, max - Len(st.rows))
Advance(st, page, size) == After(st, page, size, st.offset + Len(page))

FetchNext(source, max, st) ==
  Advance(st, FetchRecords(source, st.calls + 1, FetchSize(max, st), st.offset), FetchSize(max, st))

\* The state of the loop after n rounds.
Round(source, max, st) ==
  IF st = Failed THEN Failed
  ELSE IF st.done \/ Len(st.rows) >= max THEN st
  ELSE FetchNext(source, max, st)

FetchLoop(source, max) ==
  LET after[n \in 0 .. max + 1] ==
        IF n = 0 THEN Reading(<< >>, 0, 0, FALSE) ELSE Round(source, max, after[n - 1])
  IN after[max + 1]

\* At the limit one more row is asked for, only to know whether there is one.
Probe(source, max, end) ==
  IF end = Failed \/ Len(end.rows) < max THEN << >>
  ELSE FetchRecords(source, end.calls + 1, 1, end.offset)

Fetched(end, extra) ==
  IF end = Failed \/ extra = Failed THEN Failed
  ELSE [rows |-> end.rows, truncated |-> extra # << >>]

Probed(source, max, end) == Fetched(end, Probe(source, max, end))

FetchAllRecords(source, max) == Probed(source, max, FetchLoop(source, max))

----------------------------------------------------------------------------
(* The handlers. *)

\* buildSourceRecords and buildDestinationRecords: a record is named by the
\* position of its row.
BuildRecords(side, rows) == [i \in DOMAIN rows |-> [id |-> <<side, i>>, row |-> rows[i]]]

\* validateIngestableType and the check of a file's path, for both sides,
\* come before anything is written; the column mapping comes before anything
\* is read, and stays written when the reading fails.
Acceptable(source) ==
  /\ source.type \in DatabaseTypes \cup FileTypes
  /\ source.type \in FileTypes => source.confined

Answer(status, mapped, batch) == [status |-> status, mapped |-> mapped, batch |-> batch]
NoBatch == [sources |-> << >>, destinations |-> << >>,
            sourceTruncated |-> FALSE, destinationTruncated |-> FALSE]

\* Both sides are read before anything is saved.
BatchOf(request, from, to) ==
  IF from = Failed \/ to = Failed THEN Answer(400, request.mapping, NoBatch)
  ELSE IF ~request.saves THEN Answer(500, request.mapping, NoBatch)
  ELSE Answer(200, request.mapping,
         [sources |-> BuildRecords("src", from.rows),
          destinations |-> BuildRecords("dest", to.rows),
          sourceTruncated |-> from.truncated, destinationTruncated |-> to.truncated])

Ingested(request, max) ==
  BatchOf(request, FetchAllRecords(request.source, max), FetchAllRecords(request.destination, max))

HandleConnectorIngest(request, max) ==
  IF Acceptable(request.source) /\ Acceptable(request.destination)
  THEN Ingested(request, max)
  ELSE Answer(400, FALSE, NoBatch)

\* The two files of an upload.  The mapping is written before their extensions
\* are looked at, and the second file only after the first was read.
HandleUploadFile(request, max) ==
  IF request.source.type \in FileTypes /\ request.destination.type \in FileTypes
  THEN Ingested(request, max)
  ELSE Answer(400, request.mapping, NoBatch)

----------------------------------------------------------------------------
(* What an ingest promises. *)

Prefix(s, t) == Len(s) <= Len(t) /\ s = SubSeq(t, 1, Len(s))

\* Nothing but rows added at the end while it was read, every one of them sound.
OnlyGrew(source) ==
  /\ \A k \in 1 .. Len(source.tables) - 1 : Prefix(source.tables[k], source.tables[k + 1])
  /\ \A k \in DOMAIN source.tables : \A i \in DOMAIN source.tables[k] :
       source.tables[k][i].decodes

ReadInFull(source, max, records, truncated) ==
  LET first == source.tables[1]
      last  == source.tables[Len(source.tables)]
      read  == [i \in DOMAIN records |-> records[i].row]
  IN /\ Prefix(read, last)
     /\ Len(read) >= Least(Len(first), max) /\ Len(read) <= max
     /\ truncated => Len(last) > max
     /\ Len(first) > max => truncated

BatchIsFull(request, max, batch) ==
  /\ OnlyGrew(request.source) =>
       ReadInFull(request.source, max, batch.sources, batch.sourceTruncated)
  /\ OnlyGrew(request.destination) =>
       ReadInFull(request.destination, max, batch.destinations, batch.destinationTruncated)

\* An answer is of nothing, or of two sources that were read in full.
AnsweredInFull(request, max, got) ==
  IF got.status # 200 THEN got.batch = NoBatch ELSE BatchIsFull(request, max, got.batch)
=============================================================================
