----------------------------- MODULE MCAlgorithms -----------------------------
(***************************************************************************)
(* The problems that TLC poses to Algorithms.                              *)
(***************************************************************************)
EXTENDS Algorithms

CONSTANTS t1, t2, tiny    \* tokens of names; what can be searched for is t1

Upto(S, n) == UNION {[1 .. m -> S] : m \in 0 .. n}

----------------------------------------------------------------------------
(* Rows of every kind: two statuses of one source, a source without a match *)
(* and a manual link, which share some of their sort keys.                  *)

\* Ordered by their bytes, with the places of their lower-case forms and those that
\* the collation of an English locale gives them.
SomeTexts   == <<"AUTO_MATCHED", "Bo", "CONFIRMED", "NO_MATCH", "REVIEW_NEEDED", "al", "bo">>
InLowerCase == <<2, 3, 4, 5, 6, 1, 3>>
InEnglish   == <<2, 4, 5, 6, 7, 1, 3>>

Place(text) == CHOOSE n \in DOMAIN SomeTexts : SomeTexts[n] = text
MCTexts    == 0 .. Len(SomeTexts)
MCLowered  == [n \in MCTexts |-> IF n = 0 THEN 0 ELSE InLowerCase[n]]
MCCollated == [n \in MCTexts |-> IF n = 0 THEN 0 ELSE InEnglish[n]]

\* Of two times that differ by less than a microsecond.
Keys(name, score, time, status) ==
  [f \in SortFields |-> CASE f = "source_name" -> Place(name)
                        [] f = "confidence_score" -> score
                        [] f = "created_at" -> time
                        [] f = "match_status" -> Place(status)
                        [] OTHER -> 0]

Row(id, status, rank, name, score, time, says) ==
  [id |-> id, status |-> status, rank |-> rank, keys |-> Keys(name, score, time, status),
   says |-> says, noted |-> TRUE]

RunRows(id) ==
  {Row(id, "AUTO_MATCHED", 1, "bo", 9, 1, {t1}), Row(id, "REVIEW_NEEDED", 2, "bo", 8, 1, {t1}),
   Row(id, "REVIEW_NEEDED", 1, "al", 8, 0, {}), Row(id, "NO_MATCH", 0, "Bo", 0, 0, {t1})}

RowsOn(backend, id) ==
  LET keys == Keys("al", 10, 2, "CONFIRMED") IN
  RunRows(id) \cup {IF backend = "memory" THEN LinkInMemory(id, keys, {t1})
                    ELSE LinkInPostgres(id, keys)}

TablesOn(backend) ==
  LET ids == <<Place("Bo"), Place("al"), Place("bo")>> IN
  {rows \in Upto(UNION {RowsOn(backend, id) : id \in Range(ids)}, 3) :
     \A i \in DOMAIN rows : rows[i].id = ids[IF Len(rows) = 3 THEN (i % 3) + 1 ELSE i]}

PageRequests ==
  [status : {"ALL", "REVIEW_NEEDED"}, search : {NoTerm, t1}, rank1Only : BOOLEAN,
   sortBy : {"unknown", "source_name"}, sortDir : {"", "desc"}, limit : {0, 1, 99}, page : {1}]

AllPageProblems ==
  UNION {[backend : {b}, rows : TablesOn(b), request : PageRequests] : b \in {"memory", "postgres"}}

AllJobProblems ==
  {[backend |-> b, limit |-> n,
    jobs |-> {[id |-> i, started |-> starts[i]] : i \in DOMAIN starts}] :
   b \in {"memory", "postgres"}, n \in {0, 1, 2}, starts \in Upto(1 .. 3, 3)}

----------------------------------------------------------------------------
(* Tables of up to six rows that grow, shrink or come in another order      *)
(* while they are read, at most one row of which cannot be decoded.         *)

RowAt(i, bad) == [at |-> i, decodes |-> i # bad]
Table(n, bad) == [i \in 1 .. n |-> RowAt(i, bad)]
Turned(table) == [i \in DOMAIN table |-> table[Len(table) + 1 - i]]

Growing == {<<Table(n, 0), Table(m, 0)>> : n \in 0 .. 6, m \in 0 .. 6}
Broken  == {<<Table(6, bad)>> : bad \in {1, 3, 6}} \cup {<<Table(4, 0), Turned(Table(4, 0))>>}

SourceOf(type, tables) ==
  [type |-> type, tables |-> tables, explicit |-> FALSE, key |-> TRUE, columns |-> {"number"},
   name |-> "table", reachable |-> TRUE, carried |-> FALSE, confined |-> TRUE]

Hindered(source) ==
  {[source EXCEPT !.reachable = FALSE], [source EXCEPT !.name = "selections"],
   [source EXCEPT !.name = "a.b.c"], [source EXCEPT !.key = FALSE, !.columns = {"json"}],
   [source EXCEPT !.confined = FALSE], [source EXCEPT !.type = "MANUAL"],
   [source EXCEPT !.carried = TRUE]}

Sources ==
  LET sound == {SourceOf(t, ts) : t \in SourceTypes \ {"MANUAL"}, ts \in Growing \cup Broken}
  IN sound \cup UNION {Hindered(SourceOf(t, <<Table(3, 0)>>)) : t \in DatabaseTypes \cup FileTypes}

Others == {SourceOf("CSV", <<Table(3, 0)>>), SourceOf("POSTGRES", <<Table(2, 0), Table(1, 0)>>),
           [SourceOf("MONGODB", <<Table(1, 0)>>) EXCEPT !.reachable = FALSE]}

Request(pair, mapping, saves) ==
  [source |-> pair[1], destination |-> pair[2], mapping |-> mapping, saves |-> saves]
Asked ==
  {Request(pair, TRUE, TRUE) : pair \in (Sources \X Others) \cup (Others \X Sources)}
    \cup {Request(pair, FALSE, FALSE) : pair \in Others \X Others}

AllIngestProblems == [request : Asked, env : {0, 1, 3, 4}, handle : {"upload", "connector"}]

----------------------------------------------------------------------------
(* Names that share a token, a trigram, a phonetic key or only a prefix.    *)

NameOf(tokens, trigrams, phonetic, prefix) ==
  [tokens |-> tokens, trigrams |-> trigrams, romanized |-> << >>,
   phonetic |-> phonetic, prefix |-> prefix]

SomeNames ==
  {NameOf(<<t1>>, << >>, NoKey, t1), NameOf(<<t1, t2>>, <<t1>>, NoKey, t1),
   NameOf(<<tiny>>, <<t2, t2>>, t1, NoKey), NameOf(<<t2>>, << >>, t1, t1),
   [NameOf(<< >>, << >>, NoKey, t2) EXCEPT !.romanized = <<t1>>],
   NameOf(<< >>, << >>, NoKey, t2)}

AllCandidateProblems == [src : SomeNames, dests : Upto(SomeNames, 4), k : 1 .. 2]

----------------------------------------------------------------------------
\* Two scores are apart and two are neighbours.
AllLabelProblems == Upto([score : {0, 1, 4}, match : BOOLEAN], 5)
=============================================================================
