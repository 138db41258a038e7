------------------------------- MODULE DBStats -------------------------------
(***************************************************************************)
(* The statistics of a RocksDB database: the atomic counters that every    *)
(* read and write tallies, RunningDBStats (ipfs/datastore-rocksdb/src/     *)
(* rocks/stats.rs), and Database::io_stats (rocks/mod.rs), which takes     *)
(* them under a lock that the tallies do not hold.                         *)
(*                                                                         *)
(* Each fetch_add, swap and load is a step of its own.  They are Relaxed:  *)
(* the model has them sequentially consistent, which is what a query sees  *)
(* of the operations that happened before it.                              *)
(***************************************************************************)
EXTENDS Integers, Sequences

CONSTANTS
    Workers,         \* threads in Database::get and Database::write
    Queriers,        \* threads in io_stats
    BatchSize,       \* operations of a write
    Modulus,         \* 2^64 in the code
    MaxJobs,         \* bound: reads and writes
    MaxHits,         \* bound: hits of RocksDB's block cache
    MaxQueries       \* bound: calls of io_stats

\* The counters, in the order take_current and peek_current go through them.
RawDBStats == <<"reads", "bytes_read", "writes", "bytes_written",
                "transactions", "cache_hit_count">>
Fields == {RawDBStats[i] : i \in 1 .. Len(RawDBStats)}
\* The counters that only get and write tally.
Tallies == Fields \ {"cache_hit_count"}
Kinds == {"Overall", "SincePrevious"}
Zero == [f \in Fields |-> 0]
combine(a, b) == [f \in Fields |-> (a[f] + b[f]) % Modulus]

VARIABLES
    running,         \* the AtomicU64 counters
    overall,         \* OverallDBStats.stats
    lock,            \* the RwLock around it: who writes, who reads
    hits,            \* "block.cache.hit" of RocksDB's own statistics
    tasks,           \* the tallies each worker has still to do
    pc, at, current, kind, cache_hits,   \* each querier: where it is, its next
                     \* counter, what it has taken, its argument, cache_hit_count
    taken,           \* what its last io_stats returned
    jobs, queries,   \* used up of the bounds
    \* history
    tallied,         \* everything tallied since start
    floor,           \* each querier: `tallied` when its io_stats began
    mark,            \* `floor` of the io_stats that returned last
    apart            \* whether no two calls of io_stats have overlapped

statVars == <<running, overall, lock>>
queryVars == <<pc, at, current, kind, cache_hits, taken, queries, floor,
               mark, apart>>
vars == <<statVars, hits, tasks, queryVars, jobs, tallied>>

Init ==
    /\ running = Zero /\ overall = Zero
    /\ lock = [writer |-> {}, readers |-> {}]
    /\ hits = 0
    /\ tasks = [w \in Workers |-> <<>>]
    /\ pc = [q \in Queriers |-> "idle"]
    /\ at = [q \in Queriers |-> 1]
    /\ current = [q \in Queriers |-> Zero]
    /\ kind = [q \in Queriers |-> "Overall"]
    /\ cache_hits = [q \in Queriers |-> 0]
    /\ taken = [q \in Queriers |-> Zero]
    /\ jobs = 0 /\ queries = 0
    /\ tallied = Zero /\ mark = Zero
    /\ floor = [q \in Queriers |-> Zero]
    /\ apart = TRUE

-----------------------------------------------------------------------------
(* Reads and writes; keys and values count one byte together.              *)

\* What get() tallies: the read, and its bytes unless RocksDB fails.
get_tallies == {<< <<"reads", 1>>, <<"bytes_read", 1>> >>, << <<"reads", 1>> >>}
\* What write() tallies before it writes.
write_tallies == << <<"writes", BatchSize>>, <<"transactions", 1>>,
                    <<"bytes_written", BatchSize>> >>

start(w) ==
    /\ tasks[w] = <<>> /\ jobs < MaxJobs
    /\ \E t \in get_tallies \cup {write_tallies} : tasks' = [tasks EXCEPT ![w] = t]
    /\ jobs' = jobs + 1
    /\ UNCHANGED <<statVars, hits, queryVars, tallied>>

tally(w) ==
    /\ tasks[w] # <<>>
    /\ LET f == Head(tasks[w])[1]
           n == Head(tasks[w])[2] IN
       /\ running' = [running EXCEPT ![f] = (@ + n) % Modulus]
       /\ tallied' = [tallied EXCEPT ![f] = @ + n]
    /\ tasks' = [tasks EXCEPT ![w] = Tail(@)]
    /\ UNCHANGED <<overall, lock, hits, queryVars, jobs>>

\* A read is served from RocksDB's block cache.
cache_hit ==
    /\ hits < MaxHits
    /\ hits' = hits + 1
    /\ UNCHANGED <<statVars, tasks, queryVars, jobs, tallied>>

-----------------------------------------------------------------------------
(* io_stats.                                                               *)

\* get_statistics, the first thing it does.
io_stats(q) ==
    /\ pc[q] = "idle" /\ queries < MaxQueries
    /\ queries' = queries + 1
    /\ \E k \in Kinds : kind' = [kind EXCEPT ![q] = k]
    /\ cache_hits' = [cache_hits EXCEPT ![q] = hits]
    /\ floor' = [floor EXCEPT ![q] = tallied]
    /\ apart' = (apart /\ \A p \in Queriers : pc[p] = "idle")
    /\ pc' = [pc EXCEPT ![q] = "drain"]
    /\ UNCHANGED <<statVars, hits, tasks, at, current, taken, jobs, tallied, mark>>

\* overall() is called for the cache hits ("drain") and, for the kind Overall, once
\* more for the answer.
Drains(q) == pc[q] = "drain" \/ (pc[q] = "answer" /\ kind[q] = "Overall")
Peeks(q) == pc[q] = "answer" /\ kind[q] = "SincePrevious"

overall_lock(q) ==
    /\ Drains(q) /\ q \notin lock.writer
    /\ lock.writer = {} /\ lock.readers = {}
    /\ lock' = [lock EXCEPT !.writer = {q}]
    /\ UNCHANGED <<running, overall, hits, tasks, queryVars, jobs, tallied>>

\* One swap(0) of take_current.  (The mutant loads, as peek_current does.)
take_current_Load(q) ==
    /\ q \in lock.writer /\ at[q] <= Len(RawDBStats)
    /\ LET f == RawDBStats[at[q]] IN
       current' = [current EXCEPT ![q][f] = running[f]]
    /\ at' = [at EXCEPT ![q] = @ + 1]
    /\ UNCHANGED <<statVars, hits, tasks, pc, kind, cache_hits, taken, queries, floor,
                   mark, apart, jobs, tallied>>
take_current(q) ==
    /\ q \in lock.writer /\ at[q] <= Len(RawDBStats)
    /\ LET f == RawDBStats[at[q]] IN
       /\ current' = [current EXCEPT ![q][f] = running[f]]
       /\ running' = [running EXCEPT ![f] = 0]
    /\ at' = [at EXCEPT ![q] = @ + 1]
    /\ UNCHANGED <<overall, lock, hits, tasks, pc, kind, cache_hits, taken, queries,
                   floor, mark, apart, jobs, tallied>>

\* Return from io_stats.
returned(q, answer) ==
    /\ taken' = [taken EXCEPT ![q] = answer]
    /\ pc' = [pc EXCEPT ![q] = "idle"]
    /\ mark' = floor[q]

\* The end of overall(): the sum is updated, what was taken is returned, the lock is
\* released.
overall_end(q) ==
    /\ q \in lock.writer /\ at[q] > Len(RawDBStats)
    /\ overall' = combine(overall, current[q])
    /\ lock' = [lock EXCEPT !.writer = {}]
    /\ at' = [at EXCEPT ![q] = 1]
    /\ \/ /\ pc[q] = "drain"
          /\ pc' = [pc EXCEPT ![q] = "tally"]
          /\ UNCHANGED <<taken, mark>>
       \/ /\ pc[q] = "answer"
          /\ returned(q, current[q])
    /\ UNCHANGED <<running, hits, tasks, current, kind, cache_hits, queries, floor,
                   apart, jobs, tallied>>

\* tally_cache_hit_count(cache_hit_count - old_cache_hit_count), in u64.
tally_cache_hit_count(q) ==
    /\ pc[q] = "tally"
    /\ LET new == cache_hits[q] - current[q]["cache_hit_count"] IN
       running' = [running EXCEPT !["cache_hit_count"] = (@ + new) % Modulus]
    /\ pc' = [pc EXCEPT ![q] = "answer"]
    /\ UNCHANGED <<overall, lock, hits, tasks, at, current, kind, cache_hits, taken,
                   queries, floor, mark, apart, jobs, tallied>>

\* With overflow checks the subtraction panics instead of wrapping.
tally_panics(q) ==
    /\ pc[q] = "tally" /\ cache_hits[q] < current[q]["cache_hit_count"]
    /\ pc' = [pc EXCEPT ![q] = "panicked"]
    /\ UNCHANGED <<statVars, hits, tasks, at, current, kind, cache_hits, taken,
                   queries, floor, mark, apart, jobs, tallied>>

\* since_previous(): the read lock, peek_current, the sum.  (The mutant does without
\* the lock.)
since_previous_Unlocked(q) ==
    /\ Peeks(q) /\ q \notin lock.readers
    /\ lock' = [lock EXCEPT !.readers = @ \cup {q}]
    /\ UNCHANGED <<running, overall, hits, tasks, queryVars, jobs, tallied>>
since_previous(q) ==
    /\ Peeks(q) /\ q \notin lock.readers /\ lock.writer = {}
    /\ lock' = [lock EXCEPT !.readers = @ \cup {q}]
    /\ UNCHANGED <<running, overall, hits, tasks, queryVars, jobs, tallied>>

peek_current(q) ==
    /\ q \in lock.readers /\ at[q] <= Len(RawDBStats)
    /\ LET f == RawDBStats[at[q]] IN
       current' = [current EXCEPT ![q][f] = running[f]]
    /\ at' = [at EXCEPT ![q] = @ + 1]
    /\ UNCHANGED <<statVars, hits, tasks, pc, kind, cache_hits, taken, queries, floor,
                   mark, apart, jobs, tallied>>

since_previous_end(q) ==
    /\ q \in lock.readers /\ at[q] > Len(RawDBStats)
    /\ returned(q, combine(overall, current[q]))
    /\ lock' = [lock EXCEPT !.readers = @ \ {q}]
    /\ at' = [at EXCEPT ![q] = 1]
    /\ UNCHANGED <<running, overall, hits, tasks, current, kind, cache_hits, queries,
                   floor, apart, jobs, tallied>>

Next ==
    \/ \E w \in Workers : start(w) \/ tally(w)
    \/ cache_hit
    \/ \E q \in Queriers :
          \/ io_stats(q) \/ overall_lock(q) \/ take_current(q) \/ overall_end(q)
          \/ tally_cache_hit_count(q) \/ tally_panics(q)
          \/ since_previous(q) \/ peek_current(q) \/ since_previous_end(q)

Spec == Init /\ [][Next]_vars

-----------------------------------------------------------------------------
U64 == 0 .. Modulus - 1
Counts == [Fields -> U64]

TypeOK ==
    /\ running \in Counts /\ overall \in Counts
    /\ lock.writer \subseteq Queriers /\ lock.readers \subseteq Queriers
    /\ pc \in [Queriers -> {"idle", "drain", "tally", "answer", "panicked"}]
    /\ at \in [Queriers -> 1 .. Len(RawDBStats) + 1]
    /\ current \in [Queriers -> Counts] /\ taken \in [Queriers -> Counts]
    /\ kind \in [Queriers -> Kinds]

\* What the querier inside overall() has swapped out and not yet added to the sum.
InFlight(f) ==
    IF \E q \in lock.writer : \E i \in 1 .. at[q] - 1 : RawDBStats[i] = f
    THEN current[CHOOSE q \in lock.writer : TRUE][f] ELSE 0

\* No tally is lost or counted twice, whatever tallies run between the swaps of
\* take_current and whatever queries follow each other: each is in the running
\* counter, in the sum, or in the hands of the one query that holds the lock.
NothingLost == \A f \in Tallies :
    (running[f] + InFlight(f) + overall[f]) % Modulus = tallied[f] % Modulus

\* What io_stats returns has happened: no tally is in it twice, whatever other queries
\* move from the counters to the sum meanwhile; and the kind SincePrevious leaves out
\* nothing tallied between the query before and this one.  So long as the counter has
\* not counted to 2^64.
AnswersHappened == \A q \in Queriers, f \in Tallies : tallied[f] < Modulus =>
    /\ overall_end(q) /\ pc[q] = "answer" => taken'[q][f] <= tallied[f]
    /\ since_previous_end(q) => taken'[q][f] \in floor[q][f] - mark[f] .. tallied[f]

\* cache_hit_count - old_cache_hit_count does not go below zero, by wrapping or by a
\* panic, as long as calls of io_stats do not overlap.
ApartNoUnderflow == apart => \A q \in Queriers :
    /\ pc[q] # "panicked"
    /\ pc[q] = "tally" => current[q]["cache_hit_count"] <= cache_hits[q]

\* IoStatsKind::Overall: "Overall statistics since start."
OverallSinceStart == [][\A q \in Queriers :
    overall_end(q) /\ pc[q] = "answer" =>
        \A f \in Tallies : taken'[q][f] >= floor[q][f]]_vars

\* IoStatsKind::SincePrevious: "Statistics since previous query."
OnlySincePrevious == [][\A q \in Queriers : since_previous_end(q) =>
    \A f \in Tallies : taken'[q][f] <= tallied[f] - mark[f]]_vars

\* IoStats::cache_reads: "Number of reads resulted in a read from cache."
CacheReadsHappened == \A q \in Queriers : taken[q]["cache_hit_count"] <= hits

\* avg_batch_size: "Average batch (transaction) size (writes per transaction)", as a
\* numerator and a denominator.
avg_batch_size(s) ==
    IF s["writes"] = 0 THEN <<0, 1>> ELSE <<s["transactions"], s["writes"]>>
WritesPerTransaction == \A q \in Queriers :
    LET s == taken[q]
        avg == avg_batch_size(s) IN
    s["transactions"] > 0 => avg[1] * s["transactions"] = avg[2] * s["writes"]
=============================================================================
