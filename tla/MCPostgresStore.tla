--------------------------- MODULE MCPostgresStore ---------------------------
(* Two uploads and two runs of a batch with two sources, one or both of     *)
(* which can be matched with either of two destinations.                    *)
EXTENDS PostgresStore

CONSTANTS r1, r2, a, b, c, d, link

MCOutcomes      == {{a, b}, {a, c}}
MCOtherMatches  == {{a, b}, {c, d}}
=============================================================================
