----------------------------- MODULE Statistics -----------------------------
(***************************************************************************)
(* The statistics of a database as the subject of a behaviour.             *)
(***************************************************************************)
EXTENDS Inquiry, Integers, Sequences

CONSTANTS Workers, Queriers, BatchSize, Modulus, MaxJobs, MaxHits, MaxQueries

VARIABLES running, overall, lock, hits, tasks, stage, at, current, wanted,
          cache_hits, answered, jobs, queries, tallied, floor, mark, apart

Stat == INSTANCE DBStats WITH pc <- stage, kind <- wanted, taken <- answered

statVars == <<running, overall, lock, hits, tasks, stage, at, current, wanted, cache_hits, answered,
              jobs, queries, tallied, floor, mark, apart>>

\* 2^64 is a positive number, a write has any number of operations.
ASSUME CountersAssumption == Modulus \in Nat \ {0} /\ BatchSize \in Nat

Counting == Stat!Init /\ [][Stat!Next /\ UNCHANGED subject]_<<subject, statVars>>

\* No tally is lost or counted twice between the swaps of a query (take_current), what
\* a query returns has happened (overall, since_previous), and queries that do not
\* overlap subtract no cache hits that are not there (io_stats).
StatsExact ==
    /\ [](subject = "stats" => Stat!TypeOK /\ Stat!NothingLost /\ Stat!ApartNoUnderflow)
    /\ [][subject = "stats" => Stat!AnswersHappened]_<<subject, statVars>>
=============================================================================
