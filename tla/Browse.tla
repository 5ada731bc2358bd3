-------------------------------- MODULE Browse --------------------------------
(***************************************************************************)
(* A reviewer's browser tab: the batch it is on, the list and the row it   *)
(* shows, and the requests it has under way while the reviewer goes on.    *)
(*                                                                         *)
(* Every await is a point where other handlers run: a request is a record  *)
(* that some later step answers, in any order.  Records are numbered alike *)
(* in every batch, so what identifies a row is the batch it is of.         *)
(***************************************************************************)
EXTENDS Naturals, FiniteSets

CONSTANTS
  Batches,      \* batches the reviewer switches between; each has a result
  NoBatch,      \* nothing is selected
  MaxRequests   \* bound on the requests of a tab

VARIABLES
  batchID,        \* the batch the tab is on
  results,        \* the batch whose page is listed
  selectedMatch,  \* the batch of the row shown beside the list
  progress,       \* the batch whose progress is shown
  fetchSeq,       \* the number of the latest fetchResults
  requests,       \* requests under way
  sent,           \* how many there were
  decided,        \* rows decided on the server: the row's batch and the one shown
  linked          \* links made there: the batch and that of the source shown

screen == <<batchID, results, selectedMatch, progress>>
server == <<decided, linked>>
vars   == <<screen, fetchSeq, requests, sent, server>>

\* A request for batch, made about a row of batch "of"; seq numbers the fetches.
Request(kind, batch, of, seq, reset) ==
  [kind |-> kind, batch |-> batch, of |-> of, seq |-> seq, reset |-> reset, n |-> sent]

Init ==
  /\ batchID \in Batches
  /\ results = batchID /\ selectedMatch = batchID /\ progress = batchID
  /\ fetchSeq = 0
  /\ requests = {}
  /\ sent = 0
  /\ decided = {} /\ linked = {}

\* setBatchID: the selection is emptied, and the list and the progress are asked for.
SetBatchID(b) ==
  /\ b # batchID /\ sent < MaxRequests
  /\ batchID' = b
  /\ selectedMatch' = NoBatch
  /\ fetchSeq' = fetchSeq + 1
  /\ sent' = sent + 1
  /\ requests' = requests \cup {Request("fetch", b, NoBatch, fetchSeq', TRUE),
                                Request("status", b, NoBatch, 0, FALSE)}
  /\ UNCHANGED <<results, progress, server>>

\* The reviewer acts on the row that is shown, for the batch the tab is on.
Ask(kind) ==
  /\ selectedMatch # NoBatch /\ sent < MaxRequests
  /\ sent' = sent + 1
  /\ requests' = requests \cup {Request(kind, batchID, selectedMatch, 0, FALSE)}
  /\ UNCHANGED <<screen, fetchSeq, server>>

UpdateMatchAction == Ask("action")
ManualLink        == Ask("link")

\* The server acts.  A row's id begins with its batch, so a decision for another
\* batch finds no row; the sources of two batches have the same ids.
Serve(q) ==
  /\ q \in requests
  /\ \/ /\ q.kind = "action"
        /\ IF q.of = q.batch
           THEN /\ decided' = decided \cup {q.batch}
                /\ requests' = (requests \ {q}) \cup {[q EXCEPT !.kind = "done"]}
           ELSE /\ requests' = requests \ {q} /\ UNCHANGED decided
        /\ UNCHANGED linked
     \/ /\ q.kind = "link"
        /\ linked' = linked \cup {[batch |-> q.batch, shown |-> q.of]}
        /\ requests' = (requests \ {q}) \cup {[q EXCEPT !.kind = "made", !.of = q.batch]}
        /\ UNCHANGED decided
  /\ UNCHANGED <<screen, fetchSeq, sent>>

\* res.ok: the list of the batch the tab is on by now is fetched again; after a link
\* the new row waits for that list.
Refresh(q) ==
  /\ q \in requests /\ q.kind \in {"done", "made"}
  /\ fetchSeq' = fetchSeq + 1
  /\ requests' = (requests \ {q}) \cup
       {[q EXCEPT !.kind = IF q.kind = "made" THEN "fetchThenShow" ELSE "fetch",
                  !.batch = batchID, !.seq = fetchSeq']}
  /\ UNCHANGED <<screen, sent, server>>

Fetches == {"fetch", "fetchThenShow"}

\* set({ selectedMatch: newItem }) once its fetch is over, or nothing.
ShowAfter(q, otherwise) ==
  selectedMatch' = IF q.kind \in {"fetchThenShow", "bodyThenShow"} THEN q.of ELSE otherwise

\* The answer's head.  A fetch that is not the latest is dropped here, and only here.
Answer(q) ==
  /\ q \in requests /\ q.kind \in Fetches
  /\ IF q.seq # fetchSeq
     THEN requests' = requests \ {q} /\ ShowAfter(q, selectedMatch)
     ELSE /\ requests' = (requests \ {q}) \cup
               {[q EXCEPT !.kind = IF q.kind = "fetch" THEN "body" ELSE "bodyThenShow"]}
          /\ selectedMatch' = selectedMatch
  /\ UNCHANGED <<batchID, results, progress, fetchSeq, sent, server>>

\* Its body, which res.json() waited for: the list, and the first row of it unless the
\* selected one is in it.
Body(q) ==
  /\ q \in requests /\ q.kind \in {"body", "bodyThenShow"}
  /\ requests' = requests \ {q}
  /\ results' = q.batch
  /\ ShowAfter(q, q.batch)
  /\ UNCHANGED <<batchID, progress, fetchSeq, sent, server>>

\* loadProgress: the answer is shown, whatever batch the tab is on.
Status(q) ==
  /\ q \in requests /\ q.kind = "status"
  /\ requests' = requests \ {q}
  /\ progress' = q.batch
  /\ UNCHANGED <<batchID, results, selectedMatch, fetchSeq, sent, server>>

Next ==
  \/ \E b \in Batches : SetBatchID(b)
  \/ UpdateMatchAction
  \/ ManualLink
  \/ \E q \in requests : Serve(q) \/ Refresh(q) \/ Answer(q) \/ Body(q) \/ Status(q)

Spec == Init /\ [][Next]_vars

----------------------------------------------------------------------------
\* BACKLOG.md:412: a false statement in the record of links is "the one thing an
\* evidentiary record must not do".  A link that is made in a batch is of a source of
\* that batch that the reviewer was shown.
LinkIsOfShownSource == \A l \in linked : l.batch = l.shown
=============================================================================
