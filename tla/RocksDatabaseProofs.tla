------------------------ MODULE RocksDatabaseProofs ------------------------
(***************************************************************************)
(* Proofs about the RocksDB database:                                      *)
(*  - DBStats, the counters of its operations, for any threads, any        *)
(*    queries and any width of the counters;                               *)
(*  - RocksDatabase: the data store implements atomic batches, for any     *)
(*    keys, columns, clients and transactions.                             *)
(***************************************************************************)
EXTENDS RocksDatabase, Statistics, TLAPS

-----------------------------------------------------------------------------
\* DBStats

\* The facts about counting that the provers without arithmetic need.
LEMMA Numbers ==
    /\ \A n \in Nat : n <= n /\ n \in Int
    /\ \A a, b, c \in Int : a + (b - c) \in Int
    /\ \A a, b \in Nat : 0 + a + b = a + 0 + b /\ a + 0 + b = a + b
    /\ 0 + 0 + 0 = 0
    /\ \A n \in 1 .. 7 : n > 6 => n - 1 = 6
OBVIOUS

\* The facts about division that the u64 counters need.
LEMMA Division ==
    ASSUME NEW M \in Nat \ {0}, NEW a \in Int
    PROVE  a % M \in 0 .. (M - 1) /\ a \div M \in Int /\ a = M * (a \div M) + (a % M)
OBVIOUS

\* A quotient and a remainder are unique.
LEMMA Remainder ==
    ASSUME NEW M \in Nat \ {0}, NEW k \in Int, NEW j \in Int, NEW r \in 0 .. (M - 1), NEW s \in 0 .. (M - 1),
           M * k + r = M * j + s
    PROVE  r = s
<1>1. M * (k - j) = s - r
  BY M * (k - j) = M * k - M * j
<1>2. ASSUME NEW i \in Int, i # 0 PROVE M * i >= M \/ M * i <= -M
  BY <1>2
<1>3. k - j \in Int
  OBVIOUS
<1>4. k - j = 0
  BY <1>1, <1>2, <1>3
<1> QED
  BY <1>1, <1>4

\* fetch_add wraps around: adding to a count modulo 2^64 is adding modulo 2^64.
LEMMA Wraps ==
    ASSUME NEW M \in Nat \ {0}, NEW a \in Int, NEW b \in Int
    PROVE  ((a % M) + b) % M = (a + b) % M
<1> DEFINE k == a \div M
           s == a % M
           x == s + b
           y == a + b
           q == x \div M
           t == x % M
           p == y \div M
           r == y % M
<1>1. a = M * k + s /\ s \in 0 .. (M - 1) /\ k \in Int
  BY Zenon, Division
<1> HIDE DEF k, s
<1>2. x \in Int /\ y \in Int /\ y = M * k + x
  BY <1>1
<1> HIDE DEF x, y
<1>3. y = M * p + r /\ r \in 0 .. (M - 1) /\ p \in Int
  BY Zenon, <1>2, Division
<1>4. x = M * q + t /\ t \in 0 .. (M - 1) /\ q \in Int
  BY Zenon, <1>2, Division
<1> HIDE DEF p, q, r, t
<1>5. M * (k + q) = M * k + M * q /\ k + q \in Int
  BY <1>1, <1>4
<1>6. M * k \in Int /\ M * q \in Int /\ M * p \in Int /\ r \in Int /\ t \in Int
  BY <1>1, <1>3, <1>4
<1>7. M * p + r = M * (k + q) + t
  BY <1>2, <1>3, <1>4, <1>5, <1>6
<1>8. r = t
  BY ONLY Zenon, <1>3, <1>4, <1>5, <1>7, M \in Nat \ {0}, Remainder
<1> QED
  BY Zenon, <1>8 DEF r, t, s, x, y

\* 2^64 is a positive number, a write has any number of operations.
StatConstants == Modulus \in Nat \ {0} /\ BatchSize \in Nat

\* They are.
LEMMA StatFact == StatConstants
BY CountersAssumption DEF StatConstants

\* What the query that holds the lock has swapped out, InFlight with its state as arguments.
Carried(l, place, cur, f) ==
    IF \E q \in l.writer : \E i \in 1 .. place[q] - 1 : Stat!RawDBStats[i] = f
    THEN cur[CHOOSE q \in l.writer : TRUE][f] ELSE 0

\* The counts of one counter are together what was tallied, modulo 2^64, and exactly that
\* until 2^64 is reached.
Counted(r, c, o, t) == (r + c + o) % Modulus = t % Modulus /\ (t < Modulus => r + c + o = t)

StatTyped ==
    /\ Stat!TypeOK
    /\ lock \in [writer : SUBSET Queriers, readers : SUBSET Queriers]
    /\ tasks \in [Workers -> Seq(Stat!Tallies \X Nat)]
    /\ hits \in Nat /\ cache_hits \in [Queriers -> Nat]
    /\ tallied \in [Stat!Fields -> Nat] /\ floor \in [Queriers -> [Stat!Fields -> Nat]]

\* A query goes through the counters only inside the lock, and only one may swap.
OneSwaps ==
    /\ \A p, q \in lock.writer : p = q
    /\ lock.writer = {} \/ lock.readers = {}
    /\ \A q \in Queriers : q \notin lock.writer /\ q \notin lock.readers => at[q] = 1
    /\ \A q \in lock.readers : stage[q] = "answer"

\* Every tally is in the running counter, with the query that swaps, or in the sum.
AllCounted == \A f \in Stat!Tallies :
    Counted(running[f], Carried(lock, at, current, f), overall[f], tallied[f])

\* What since_previous has loaded and the sum are together between what was tallied when
\* io_stats was called and what is tallied now.
Loaded ==
    /\ \A q \in Queriers, f \in Stat!Tallies : floor[q][f] <= tallied[f]
    /\ \A q \in lock.readers, f \in Stat!Tallies :
          tallied[f] < Modulus /\ (\E i \in 1 .. at[q] - 1 : Stat!RawDBStats[i] = f) =>
              floor[q][f] <= current[q][f] + overall[f] /\ current[q][f] + overall[f] <= tallied[f]

\* As long as calls of io_stats do not overlap, the counter of cache hits holds no more
\* than the call that is under way was told by get_statistics.
HitsApart ==
    /\ mark \in [Stat!Fields -> Nat]
    /\ \A q \in lock.writer : stage[q] \in {"drain", "answer"}
    /\ apart =>
          /\ \A q \in Queriers : stage[q] # "panicked"
          /\ \A p, q \in Queriers : stage[p] = "idle" \/ stage[q] = "idle" \/ p = q
          /\ running["cache_hit_count"] <= hits
          /\ \A q \in Queriers : stage[q] # "idle" => cache_hits[q] <= hits
          /\ \A q \in Queriers : stage[q] = "drain" => running["cache_hit_count"] <= cache_hits[q]
          /\ \A q \in Queriers :
                stage[q] = "tally" \/ (stage[q] = "drain" /\ q \in lock.writer /\ at[q] = 7) =>
                    running["cache_hit_count"] = 0 /\ current[q]["cache_hit_count"] <= cache_hits[q]

StatInv == StatTyped /\ OneSwaps /\ AllCounted /\ Loaded /\ HitsApart

\* The counters are six different ones.
LEMMA Counters ==
    /\ Len(Stat!RawDBStats) = 6
    /\ \A i \in 1 .. 6 : Stat!RawDBStats[i] \in Stat!Fields
    /\ \A f \in Stat!Fields : \E i \in 1 .. 6 : Stat!RawDBStats[i] = f
    /\ \A i, j \in 1 .. 6 : Stat!RawDBStats[i] = Stat!RawDBStats[j] => i = j
    /\ Stat!Tallies \subseteq Stat!Fields
    /\ "cache_hit_count" \in Stat!Fields /\ "cache_hit_count" \notin Stat!Tallies
    /\ {"reads", "bytes_read", "writes", "bytes_written", "transactions"} \subseteq Stat!Tallies
BY DEF Stat!RawDBStats, Stat!Fields, Stat!Tallies

\* InFlight is what is carried.
LEMMA InFlightIs == \A f : Stat!InFlight(f) = Carried(lock, at, current, f)
BY Zenon DEF Carried, Stat!InFlight

\* At first nothing is counted.
LEMMA StatInit == ASSUME StatConstants PROVE Stat!Init => StatInv
<1> SUFFICES ASSUME Stat!Init PROVE StatInv
  OBVIOUS
<1>1. /\ running = [f \in Stat!Fields |-> 0] /\ overall = running /\ tallied = running
      /\ lock = [writer |-> {}, readers |-> {}] /\ lock.writer = {} /\ lock.readers = {}
      /\ at = [q \in Queriers |-> 1] /\ floor = [q \in Queriers |-> running]
  BY DEF Stat!Init, Stat!Zero
<1>2. StatTyped
  <2>1. 0 \in Stat!U64 /\ Stat!Zero \in Stat!Counts
    BY DEF StatConstants, Stat!U64, Stat!Zero, Stat!Counts
  <2>2. 1 \in 1 .. Len(Stat!RawDBStats) + 1
    BY Counters
  <2>3. Stat!TypeOK
    BY <1>1, <2>1, <2>2 DEF Stat!Init, Stat!TypeOK, Stat!Kinds
  <2>4. <<>> \in Seq(Stat!Tallies \X Nat)
    OBVIOUS
  <2> QED
    BY <1>1, <2>3, <2>4 DEF StatTyped, Stat!Init, Stat!Zero
<1>3. OneSwaps
  BY Zenon, <1>1 DEF OneSwaps
<1>4. \A f : Carried(lock, at, current, f) = 0
  BY Zenon, <1>1 DEF Carried
<1>5. \A f \in Stat!Tallies : running[f] = 0 /\ overall[f] = 0 /\ tallied[f] = 0
  BY Zenon, <1>1, Counters
<1>6. AllCounted
  BY Zenon, <1>4, <1>5, Numbers DEF AllCounted, Counted
<1>7. Loaded
  BY <1>1, Counters DEF Loaded
<1>8. HitsApart
  BY <1>1, Counters DEF HitsApart, Stat!Init, Stat!Zero
<1> QED
  BY Zenon, <1>2, <1>3, <1>6, <1>7, <1>8 DEF StatInv

\* A tally, and the end of overall(), keep the counts together.
LEMMA CountedStep ==
    ASSUME StatConstants, NEW r \in Stat!U64, NEW c \in Stat!U64, NEW o \in Stat!U64, NEW t \in Nat,
           Counted(r, c, o, t)
    PROVE  /\ \A n \in Nat : Counted((r + n) % Modulus, c, o, t + n)
           /\ Counted(r, 0, (o + c) % Modulus, t)
<1>0. Modulus \in Nat \ {0} /\ r \in Int /\ c \in Int /\ o \in Int /\ r >= 0 /\ c >= 0 /\ o >= 0
  BY DEF StatConstants, Stat!U64
<1>1. ASSUME NEW n \in Nat PROVE Counted((r + n) % Modulus, c, o, t + n)
  <2> DEFINE x == r + n
             y == x % Modulus
             b == c + o
  <2>1. x \in Int /\ b \in Int /\ r + c + o \in Int
    BY <1>0
  <2>2. (y + b) % Modulus = (x + b) % Modulus
    BY Zenon, <1>0, <2>1, Wraps
  <2>3. \A a \in Int : ((a % Modulus) + n) % Modulus = (a + n) % Modulus
    <3>1. n \in Int
      OBVIOUS
    <3> QED
      BY ONLY Zenon, <1>0, <3>1, Wraps
  <2>4. t \in Int
    OBVIOUS
  <2>5. y \in Int
    BY <1>0, <2>1
  <2>6. (r + c + o) + n = x + b /\ y + c + o = y + b
    BY <1>0, <2>5
  <2>7. (y + c + o) % Modulus = (t + n) % Modulus
    <3>1. (r + c + o) % Modulus = t % Modulus
      BY Zenon DEF Counted
    <3>2. ((r + c + o) + n) % Modulus = (t + n) % Modulus
      BY ONLY Zenon, <2>1, <2>3, <2>4, <3>1
    <3> QED
      BY ONLY Zenon, <2>2, <2>6, <3>2
  <2>8. ASSUME t + n < Modulus PROVE y + c + o = t + n
    <3>1. r + c + o = t
      BY <1>0, <2>8 DEF Counted
    <3>2. x \in 0 .. Modulus - 1
      BY <1>0, <2>8, <3>1
    <3>3. y = x
      BY <1>0, <3>2
    <3> QED
      BY <1>0, <3>1, <3>3
  <2> QED
    BY Zenon, <2>7, <2>8 DEF Counted
<1>2. Counted(r, 0, (o + c) % Modulus, t)
  <2> DEFINE x == o + c
             y == x % Modulus
  <2>1. x \in Int /\ y \in Int
    BY <1>0
  <2>2. (y + r) % Modulus = (x + r) % Modulus
    BY Zenon, <1>0, <2>1, Wraps
  <2>3. x + r = r + c + o /\ r + 0 + y = y + r
    BY <1>0, <2>1
  <2>4. (r + 0 + y) % Modulus = t % Modulus
    BY Zenon, <2>2, <2>3 DEF Counted
  <2>5. ASSUME t < Modulus PROVE r + 0 + y = t
    <3>1. r + c + o = t
      BY <2>5 DEF Counted
    <3>2. x \in 0 .. Modulus - 1
      BY <1>0, <2>5, <3>1
    <3>3. y = x
      BY <1>0, <3>2
    <3> QED
      BY <1>0, <3>1, <3>3
  <2> QED
    BY Zenon, <2>4, <2>5 DEF Counted
<1> QED
  BY Zenon, <1>1, <1>2

\* Every step keeps the types; a subtraction that wraps stays a u64.
LEMMA StatTypedStep == ASSUME StatConstants PROVE StatTyped /\ [Stat!Next]_(Stat!vars) => StatTyped'
<1> SUFFICES ASSUME StatTyped, [Stat!Next]_(Stat!vars) PROVE StatTyped'
  OBVIOUS
<1>0. /\ running \in [Stat!Fields -> Stat!U64] /\ overall \in [Stat!Fields -> Stat!U64]
      /\ lock \in [writer : SUBSET Queriers, readers : SUBSET Queriers]
      /\ stage \in [Queriers -> {"idle", "drain", "tally", "answer", "panicked"}]
      /\ at \in [Queriers -> 1 .. 7]
      /\ current \in [Queriers -> [Stat!Fields -> Stat!U64]] /\ answered \in [Queriers -> [Stat!Fields -> Stat!U64]]
      /\ wanted \in [Queriers -> Stat!Kinds]
      /\ tasks \in [Workers -> Seq(Stat!Tallies \X Nat)] /\ hits \in Nat /\ cache_hits \in [Queriers -> Nat]
      /\ tallied \in [Stat!Fields -> Nat] /\ floor \in [Queriers -> [Stat!Fields -> Nat]]
  <2>1. Len(Stat!RawDBStats) + 1 = 7
    BY Counters
  <2> QED
    BY Zenon, <2>1 DEF StatTyped, Stat!TypeOK, Stat!Counts
<1>1. ASSUME running' \in [Stat!Fields -> Stat!U64],
             overall' \in [Stat!Fields -> Stat!U64],
             lock' \in [writer : SUBSET Queriers, readers : SUBSET Queriers],
             stage' \in [Queriers -> {"idle", "drain", "tally", "answer", "panicked"}],
             at' \in [Queriers -> 1 .. 7],
             current' \in [Queriers -> [Stat!Fields -> Stat!U64]],
             answered' \in [Queriers -> [Stat!Fields -> Stat!U64]],
             wanted' \in [Queriers -> Stat!Kinds],
             tasks' \in [Workers -> Seq(Stat!Tallies \X Nat)],
             hits' \in Nat,
             cache_hits' \in [Queriers -> Nat],
             tallied' \in [Stat!Fields -> Nat],
             floor' \in [Queriers -> [Stat!Fields -> Nat]]
      PROVE  StatTyped'
  <2>1. Len(Stat!RawDBStats) + 1 = 7
    BY Counters
  <2>2. lock'.writer \subseteq Queriers /\ lock'.readers \subseteq Queriers
    BY <1>1
  <2> QED
    BY Zenon, <1>1, <2>1, <2>2 DEF StatTyped, Stat!TypeOK, Stat!Counts
<1>m. 0 \in Stat!U64 /\ \A a \in Int : a % Modulus \in Stat!U64
  BY DEF StatConstants, Stat!U64
<1>u. \A a \in Stat!U64 : a \in Int
  BY DEF Stat!U64
<1>c. \A a, b \in [Stat!Fields -> Stat!U64] : Stat!combine(a, b) \in [Stat!Fields -> Stat!U64]
  BY <1>m, <1>u DEF Stat!combine
<1>l. \A q \in Queriers :
         /\ [lock EXCEPT !.writer = {q}] \in [writer : SUBSET Queriers, readers : SUBSET Queriers]
         /\ [lock EXCEPT !.readers = lock.readers \cup {q}] \in [writer : SUBSET Queriers, readers : SUBSET Queriers]
         /\ [lock EXCEPT !.writer = {}] \in [writer : SUBSET Queriers, readers : SUBSET Queriers]
         /\ [lock EXCEPT !.readers = lock.readers \ {q}] \in [writer : SUBSET Queriers, readers : SUBSET Queriers]
  <2>1. /\ \A S \in SUBSET Queriers : [lock EXCEPT !.writer = S] \in [writer : SUBSET Queriers, readers : SUBSET Queriers]
        /\ \A S \in SUBSET Queriers : [lock EXCEPT !.readers = S] \in [writer : SUBSET Queriers, readers : SUBSET Queriers]
    BY Zenon, <1>0
  <2>2. lock.readers \in SUBSET Queriers
    BY <1>0
  <2>3. \A q \in Queriers : {q} \in SUBSET Queriers /\ lock.readers \cup {q} \in SUBSET Queriers
                            /\ {} \in SUBSET Queriers /\ lock.readers \ {q} \in SUBSET Queriers
    BY Zenon, <2>2
  <2> QED
    BY ONLY Zenon, <2>1, <2>3
<1>2. ASSUME NEW w \in Workers, Stat!start(w) PROVE StatTyped'
  <2>1. \A t \in Stat!get_tallies \cup {Stat!write_tallies} : t \in Seq(Stat!Tallies \X Nat)
    <3>1. \A f \in Stat!Tallies, n \in Nat : <<f, n>> \in Stat!Tallies \X Nat
      BY ZenonT(40)
    <3>2. /\ <<"reads", 1>> \in Stat!Tallies \X Nat /\ <<"bytes_read", 1>> \in Stat!Tallies \X Nat
          /\ <<"writes", BatchSize>> \in Stat!Tallies \X Nat /\ <<"transactions", 1>> \in Stat!Tallies \X Nat
          /\ <<"bytes_written", BatchSize>> \in Stat!Tallies \X Nat
      BY <3>1, Counters DEF StatConstants
    <3>3. \A S : \A a, b, c \in S : <<a>> \in Seq(S) /\ <<a, b>> \in Seq(S) /\ <<a, b, c>> \in Seq(S)
      OBVIOUS
    <3>4. /\ << <<"reads", 1>>, <<"bytes_read", 1>> >> \in Seq(Stat!Tallies \X Nat)
          /\ << <<"reads", 1>> >> \in Seq(Stat!Tallies \X Nat)
          /\ << <<"writes", BatchSize>>, <<"transactions", 1>>, <<"bytes_written", BatchSize>> >>
                \in Seq(Stat!Tallies \X Nat)
      BY ONLY Zenon, <3>2, <3>3
    <3> QED
      BY ONLY Zenon, <3>4 DEF Stat!get_tallies, Stat!write_tallies
  <2>2. tasks' \in [Workers -> Seq(Stat!Tallies \X Nat)]
    BY ZenonT(40), <1>0, <1>2, <2>1 DEF Stat!start
  <2> QED
    BY <1>0, <1>1, <1>2, <2>2 DEF Stat!start, Stat!statVars, Stat!queryVars
<1>3. ASSUME NEW w \in Workers, Stat!tally(w) PROVE StatTyped'
  <2>1. Head(tasks[w]) \in Stat!Tallies \X Nat /\ Tail(tasks[w]) \in Seq(Stat!Tallies \X Nat)
    BY <1>0, <1>3 DEF Stat!tally
  <2> DEFINE f == Head(tasks[w])[1]
             n == Head(tasks[w])[2]
  <2>2. f \in Stat!Fields /\ n \in Nat
    BY <2>1, Counters
  <2>3. /\ running' = [running EXCEPT ![f] = (@ + n) % Modulus] /\ tallied' = [tallied EXCEPT ![f] = @ + n]
        /\ tasks' = [tasks EXCEPT ![w] = Tail(@)]
    BY Zenon, <1>3 DEF Stat!tally
  <2> HIDE DEF f, n
  <2>4. running[f] + n \in Int /\ tallied[f] + n \in Nat
    BY <1>0, <1>u, <2>2
  <2>5. running' \in [Stat!Fields -> Stat!U64] /\ tallied' \in [Stat!Fields -> Nat]
        /\ tasks' \in [Workers -> Seq(Stat!Tallies \X Nat)]
    BY Zenon, <1>0, <1>m, <2>1, <2>2, <2>3, <2>4
  <2> QED
    BY ZenonT(40), <1>0, <1>1, <1>3, <2>5 DEF Stat!tally, Stat!queryVars
<1>4. CASE Stat!cache_hit
  <2>1. hits' \in Nat
    BY <1>0, <1>4 DEF Stat!cache_hit
  <2> QED
    BY <1>0, <1>1, <1>4, <2>1 DEF Stat!cache_hit, Stat!statVars, Stat!queryVars
<1>5. ASSUME NEW q \in Queriers, Stat!io_stats(q) PROVE StatTyped'
  <2>1. /\ wanted' \in [Queriers -> Stat!Kinds] /\ cache_hits' \in [Queriers -> Nat]
        /\ floor' \in [Queriers -> [Stat!Fields -> Nat]]
        /\ stage' \in [Queriers -> {"idle", "drain", "tally", "answer", "panicked"}]
    BY <1>0, <1>5 DEF Stat!io_stats
  <2> QED
    BY <1>0, <1>1, <1>5, <2>1 DEF Stat!io_stats, Stat!statVars
<1>6. ASSUME NEW q \in Queriers, Stat!overall_lock(q) \/ Stat!since_previous(q) PROVE StatTyped'
  <2>1. lock' \in [writer : SUBSET Queriers, readers : SUBSET Queriers]
    <3>1. lock' = [lock EXCEPT !.writer = {q}] \/ lock' = [lock EXCEPT !.readers = lock.readers \cup {q}]
      BY Zenon, <1>6 DEF Stat!overall_lock, Stat!since_previous
    <3> QED
      BY Zenon, <1>l, <3>1
  <2> QED
    BY <1>0, <1>1, <1>6, <2>1 DEF Stat!overall_lock, Stat!since_previous, Stat!queryVars
<1>7. ASSUME NEW q \in Queriers, Stat!take_current(q) \/ Stat!peek_current(q) PROVE StatTyped'
  <2> DEFINE f == Stat!RawDBStats[at[q]]
  <2>1. at[q] <= 6 /\ at[q] \in 1 .. 7
    BY <1>0, <1>7, Counters DEF Stat!take_current, Stat!peek_current
  <2>2. at[q] \in 1 .. 6 /\ at[q] + 1 \in 1 .. 7
    BY <2>1
  <2>3. f \in Stat!Fields
    BY Zenon, <2>2, Counters
  <2>4. /\ current' = [current EXCEPT ![q][f] = running[f]] /\ at' = [at EXCEPT ![q] = @ + 1]
        /\ running' = running \/ running' = [running EXCEPT ![f] = 0]
    BY Zenon, <1>7 DEF Stat!take_current, Stat!peek_current, Stat!statVars
  <2> HIDE DEF f
  <2>5. current' = [current EXCEPT ![q] = [current[q] EXCEPT ![f] = running[f]]]
    BY Zenon, <2>4
  <2>6. [current[q] EXCEPT ![f] = running[f]] \in [Stat!Fields -> Stat!U64]
    BY Zenon, <1>0, <2>3
  <2>7. current' \in [Queriers -> [Stat!Fields -> Stat!U64]] /\ at' \in [Queriers -> 1 .. 7]
    BY <1>0, <2>2, <2>4, <2>5, <2>6
  <2>8. running' \in [Stat!Fields -> Stat!U64]
    BY Zenon, <1>0, <1>m, <2>3, <2>4
  <2> QED
    BY ZenonT(40), <1>0, <1>1, <1>7, <2>7, <2>8 DEF Stat!take_current, Stat!peek_current, Stat!statVars
<1>8. ASSUME NEW q \in Queriers, Stat!overall_end(q) \/ Stat!since_previous_end(q) PROVE StatTyped'
  <2>1. lock' \in [writer : SUBSET Queriers, readers : SUBSET Queriers]
    <3>1. lock' = [lock EXCEPT !.writer = {}] \/ lock' = [lock EXCEPT !.readers = lock.readers \ {q}]
      BY Zenon, <1>8 DEF Stat!overall_end, Stat!since_previous_end
    <3> QED
      BY Zenon, <1>l, <3>1
  <2>2. /\ overall' \in {overall, Stat!combine(overall, current[q])} /\ at' = [at EXCEPT ![q] = 1]
        /\ stage' \in {[stage EXCEPT ![q] = "tally"], [stage EXCEPT ![q] = "idle"]}
        /\ answered' = answered \/ \E a \in {current[q], Stat!combine(overall, current[q])} :
                                      answered' = [answered EXCEPT ![q] = a]
    BY Zenon, <1>8 DEF Stat!overall_end, Stat!since_previous_end, Stat!returned
  <2>3. 1 \in 1 .. 7
    OBVIOUS
  <2>4. current[q] \in [Stat!Fields -> Stat!U64] /\ Stat!combine(overall, current[q]) \in [Stat!Fields -> Stat!U64]
    BY Zenon, <1>0, <1>c
  <2>5. /\ overall' \in [Stat!Fields -> Stat!U64] /\ at' \in [Queriers -> 1 .. 7]
        /\ stage' \in [Queriers -> {"idle", "drain", "tally", "answer", "panicked"}]
    BY Zenon, <1>0, <2>2, <2>3, <2>4
  <2>6. answered' \in [Queriers -> [Stat!Fields -> Stat!U64]]
    <3>1. \A a \in [Stat!Fields -> Stat!U64] : [answered EXCEPT ![q] = a] \in [Queriers -> [Stat!Fields -> Stat!U64]]
      BY Zenon, <1>0
    <3>2. CASE answered' = answered
      BY Zenon, <1>0, <3>2
    <3>3. ASSUME NEW a \in {current[q], Stat!combine(overall, current[q])}, answered' = [answered EXCEPT ![q] = a]
          PROVE  answered' \in [Queriers -> [Stat!Fields -> Stat!U64]]
      <4>1. a \in [Stat!Fields -> Stat!U64]
        BY ONLY ZenonT(40), <2>4, a \in {current[q], Stat!combine(overall, current[q])}
      <4> QED
        BY ONLY Zenon, <3>1, <3>3, <4>1
    <3> QED
      BY ONLY Zenon, <2>2, <3>2, <3>3
  <2> QED
    BY Zenon, <1>0, <1>1, <1>8, <2>1, <2>5, <2>6 DEF Stat!overall_end, Stat!since_previous_end
<1>9. ASSUME NEW q \in Queriers, Stat!tally_cache_hit_count(q) \/ Stat!tally_panics(q) PROVE StatTyped'
  <2> DEFINE x == running["cache_hit_count"] + (cache_hits[q] - current[q]["cache_hit_count"])
  <2>1. x \in Int
    <3>1. running["cache_hit_count"] \in Stat!U64 /\ current[q]["cache_hit_count"] \in Stat!U64 /\ cache_hits[q] \in Nat
      <4>1. "cache_hit_count" \in Stat!Fields
        BY Zenon, Counters
      <4>2. /\ running \in [Stat!Fields -> Stat!U64] /\ current \in [Queriers -> [Stat!Fields -> Stat!U64]]
            /\ cache_hits \in [Queriers -> Nat]
        BY Zenon, <1>0
      <4> QED
        BY Zenon, <4>1, <4>2
    <3> QED
      BY ONLY Zenon, <1>u, <3>1, Numbers
  <2>2. /\ running' = running \/ running' = [running EXCEPT !["cache_hit_count"] = x % Modulus]
        /\ stage' \in {[stage EXCEPT ![q] = "answer"], [stage EXCEPT ![q] = "panicked"]}
    BY Zenon, <1>9 DEF Stat!tally_cache_hit_count, Stat!tally_panics, Stat!statVars
  <2> HIDE DEF x
  <2>3. /\ running' \in [Stat!Fields -> Stat!U64]
        /\ stage' \in [Queriers -> {"idle", "drain", "tally", "answer", "panicked"}]
    <3>1. x % Modulus \in Stat!U64 /\ "cache_hit_count" \in Stat!Fields
      BY Zenon, <1>m, <2>1, Counters
    <3>2. running' \in [Stat!Fields -> Stat!U64]
      BY ZenonT(40), <1>0, <2>2, <3>1
    <3>3. stage' \in [Queriers -> {"idle", "drain", "tally", "answer", "panicked"}]
      BY Zenon, <1>0, <2>2
    <3> QED
      BY Zenon, <3>2, <3>3
  <2> QED
    BY Zenon, <1>0, <1>1, <1>9, <2>3 DEF Stat!tally_cache_hit_count, Stat!tally_panics, Stat!statVars
<1>10. CASE UNCHANGED Stat!vars
  BY <1>0, <1>1, <1>10 DEF Stat!vars, Stat!statVars, Stat!queryVars
<1> QED
  BY Zenon, <1>2, <1>3, <1>4, <1>5, <1>6, <1>7, <1>8, <1>9, <1>10 DEF Stat!Next

\* Every step of a call that overlaps no other keeps the cache hits apart: the old count is
\* swapped out before the difference is tallied.
LEMMA HitsApartStep ==
    ASSUME StatConstants, StatTyped, OneSwaps, HitsApart, [Stat!Next]_(Stat!vars)
    PROVE  HitsApart'
<1> DEFINE h == "cache_hit_count"
           Stages == {"idle", "drain", "tally", "answer", "panicked"}
<1>0. /\ Modulus \in Nat \ {0} /\ running \in [Stat!Fields -> 0 .. Modulus - 1]
      /\ stage \in [Queriers -> Stages] /\ at \in [Queriers -> 1 .. 7]
      /\ current \in [Queriers -> [Stat!Fields -> 0 .. Modulus - 1]]
      /\ hits \in Nat /\ cache_hits \in [Queriers -> Nat]
      /\ floor \in [Queriers -> [Stat!Fields -> Nat]]
      /\ lock \in [writer : SUBSET Queriers, readers : SUBSET Queriers]
  <2>1. Len(Stat!RawDBStats) + 1 = 7
    BY Counters
  <2> QED
    BY Zenon, <2>1 DEF StatConstants, StatTyped, Stat!TypeOK, Stat!Counts, Stat!U64
<1>h. h \in Stat!Fields /\ h \notin Stat!Tallies /\ Len(Stat!RawDBStats) = 6
      /\ \A i \in 1 .. 6 : Stat!RawDBStats[i] \in Stat!Fields /\ (Stat!RawDBStats[i] = h <=> i = 6)
  BY Counters DEF Stat!RawDBStats
\* Steps of other threads.
<1>1. ASSUME UNCHANGED <<mark, apart, lock, at, current, stage, cache_hits>>, running'[h] = running[h],
             hits' \in Nat, hits <= hits'
      PROVE  HitsApart'
  BY <1>0, <1>1, <1>h DEF HitsApart
<1>2. ASSUME NEW w \in Workers, Stat!start(w) \/ Stat!tally(w) PROVE HitsApart'
  <2>1. CASE Stat!start(w)
    BY <1>0, <1>1, <2>1 DEF Stat!start, Stat!statVars, Stat!queryVars
  <2>2. CASE Stat!tally(w)
    <3>1. tasks[w] \in Seq(Stat!Tallies \X Nat) /\ tasks[w] # <<>>
      BY Zenon, <2>2 DEF StatTyped, Stat!tally
    <3>2. Head(tasks[w])[1] \in Stat!Tallies
      BY <3>1
    <3>3. running'[h] = running[h]
      <4>1. \E x : running' = [running EXCEPT ![Head(tasks[w])[1]] = x]
        BY Zenon, <2>2 DEF Stat!tally
      <4> QED
        BY Zenon, <1>0, <1>h, <3>2, <4>1
    <3> QED
      BY <1>0, <1>1, <2>2, <3>3 DEF Stat!tally, Stat!queryVars
  <2> QED
    BY Zenon, <1>2, <2>1, <2>2
<1>3. CASE Stat!cache_hit \/ UNCHANGED Stat!vars
  BY <1>0, <1>1, <1>3 DEF Stat!cache_hit, Stat!vars, Stat!statVars, Stat!queryVars
<1>4. ASSUME NEW q \in Queriers, Stat!io_stats(q) PROVE HitsApart'
  <2>1. /\ UNCHANGED <<running, hits, lock, at, current, mark>>
        /\ stage[q] = "idle" /\ stage' = [stage EXCEPT ![q] = "drain"]
        /\ cache_hits' = [cache_hits EXCEPT ![q] = hits]
        /\ apart' => apart /\ \A p \in Queriers : stage[p] = "idle"
    BY Zenon, <1>4 DEF Stat!io_stats, Stat!statVars
  <2>2. q \notin lock.writer
    BY Zenon, <2>1, \A p \in {"drain", "answer"} : p # "idle" DEF HitsApart
  <2>3. /\ stage'[q] = "drain" /\ cache_hits'[q] = hits
        /\ \A p \in Queriers : p # q => stage'[p] = stage[p] /\ cache_hits'[p] = cache_hits[p]
    BY Zenon, <1>0, <2>1
  <2>4. mark' \in [Stat!Fields -> Nat] /\ \A p \in lock'.writer : stage'[p] \in {"drain", "answer"}
    BY <1>0, <2>1, <2>2, <2>3 DEF HitsApart
  <2>5. CASE apart'
    <3>1. apart /\ \A p \in Queriers : p # q => stage'[p] = "idle"
      BY Zenon, <2>1, <2>3, <2>5
    <3>2. running[h] <= hits
      BY Zenon, <3>1 DEF HitsApart
    <3>3. hits <= hits
      BY <1>0
    <3> QED
      BY ONLY <2>1, <2>2, <2>3, <2>4, <3>1, <3>2, <3>3 DEF HitsApart
  <2> QED
    BY Zenon, <2>4, <2>5 DEF HitsApart
<1>5. ASSUME NEW q \in Queriers, Stat!overall_lock(q) \/ Stat!since_previous(q) PROVE HitsApart'
  <2>1. /\ UNCHANGED <<running, hits, mark, apart, at, current, stage, cache_hits>>
        /\ \/ lock' = [lock EXCEPT !.writer = {q}] /\ stage[q] \in {"drain", "answer"} /\ at[q] = 1
           \/ lock' = [lock EXCEPT !.readers = @ \cup {q}]
    BY <1>5 DEF Stat!overall_lock, Stat!since_previous, Stat!queryVars, Stat!Drains, OneSwaps
  <2>2. \/ lock'.writer = {q} /\ stage[q] \in {"drain", "answer"} /\ at[q] # 7
        \/ lock'.writer = lock.writer
    BY <1>0, <2>1
  <2> QED
    BY Zenon, <2>1, <2>2 DEF HitsApart
<1>6. ASSUME NEW q \in Queriers, Stat!take_current(q) PROVE HitsApart'
  <2> DEFINE g == Stat!RawDBStats[at[q]]
  <2>1. /\ q \in lock.writer /\ at[q] \in 1 .. 6 /\ running' = [running EXCEPT ![g] = 0]
        /\ at' = [at EXCEPT ![q] = @ + 1] /\ current' = [current EXCEPT ![q][g] = running[g]]
        /\ UNCHANGED <<lock, hits, mark, apart, stage, cache_hits>>
    BY <1>0, <1>6, <1>h DEF Stat!take_current
  <2>2. g \in Stat!Fields /\ (g = h <=> at[q] = 6)
    BY Zenon, <1>h, <2>1
  <2> HIDE DEF g
  <2>3. running'[h] = (IF at[q] = 6 THEN 0 ELSE running[h])
    BY <1>0, <1>h, <2>1, <2>2
  <2>4. \A p \in Queriers : current'[p][h] = (IF p = q /\ at[q] = 6 THEN running[h] ELSE current[p][h])
    BY <1>0, <1>h, <2>1, <2>2
  <2>5. \A p \in Queriers : p # q => p \notin lock.writer
    BY <2>1 DEF OneSwaps
  <2>6. \A p \in Queriers : at'[p] = (IF p = q THEN at[q] + 1 ELSE at[p])
    BY <1>0, <2>1
  <2>7. running[h] \in Nat
    BY <1>0, <1>h
  <2> QED
    BY <1>0, <2>1, <2>3, <2>4, <2>5, <2>6, <2>7 DEF HitsApart
<1>7. ASSUME NEW q \in Queriers, Stat!overall_end(q) PROVE HitsApart'
  <2>1. /\ q \in lock.writer /\ at[q] > 6 /\ lock' = [lock EXCEPT !.writer = {}]
        /\ UNCHANGED <<running, hits, current, cache_hits, apart>>
        /\ \/ stage[q] = "drain" /\ stage' = [stage EXCEPT ![q] = "tally"] /\ mark' = mark
           \/ stage[q] = "answer" /\ stage' = [stage EXCEPT ![q] = "idle"] /\ mark' = floor[q]
    BY Zenon, <1>7, <1>h DEF Stat!overall_end, Stat!returned
  <2>2. lock'.writer = {} /\ at[q] = 7 /\ mark' \in [Stat!Fields -> Nat]
    <3>1. lock'.writer = {}
      BY <1>0, <2>1
    <3>2. at[q] \in 1 .. 7
      BY Zenon, <1>0
    <3>3. at[q] = 7
      BY ONLY <2>1, <3>2
    <3>4. mark \in [Stat!Fields -> Nat] /\ floor[q] \in [Stat!Fields -> Nat]
      BY Zenon, <1>0 DEF HitsApart
    <3>5. mark' \in [Stat!Fields -> Nat]
      BY ONLY Zenon, <2>1, <3>4
    <3> QED
      BY Zenon, <3>1, <3>3, <3>5
  <2>3. /\ \A p \in Queriers : p # q => stage'[p] = stage[p]
        /\ (stage[q] = "drain" /\ stage'[q] = "tally") \/ (stage[q] = "answer" /\ stage'[q] = "idle")
    BY Zenon, <1>0, <2>1
  <2> QED
    BY ONLY <2>1, <2>2, <2>3, HitsApart, q \in Queriers DEF HitsApart
<1>8. ASSUME NEW q \in Queriers, Stat!tally_cache_hit_count(q) PROVE HitsApart'
  <2>1. /\ stage[q] = "tally" /\ stage' = [stage EXCEPT ![q] = "answer"]
        /\ running' = [running EXCEPT ![h] = (@ + (cache_hits[q] - current[q][h])) % Modulus]
        /\ UNCHANGED <<lock, hits, mark, apart, at, current, cache_hits>>
    BY Zenon, <1>8 DEF Stat!tally_cache_hit_count
  <2>2. q \notin lock.writer
    BY <2>1 DEF HitsApart
  <2>3. running'[h] = (running[h] + (cache_hits[q] - current[q][h])) % Modulus
    BY Zenon, <1>0, <1>h, <2>1
  <2>4. ASSUME apart PROVE running'[h] <= hits
    <3>1. running[h] = 0 /\ current[q][h] <= cache_hits[q] /\ cache_hits[q] <= hits
      BY <2>1, <2>4 DEF HitsApart
    <3>2. current[q][h] \in Nat /\ cache_hits[q] \in Nat
      BY <1>0, <1>h
    <3>3. cache_hits[q] - current[q][h] \in Nat /\ cache_hits[q] - current[q][h] <= hits
          /\ running[h] + (cache_hits[q] - current[q][h]) = cache_hits[q] - current[q][h]
      BY <1>0, <3>1, <3>2
    <3>4. ASSUME NEW n \in Nat PROVE n % Modulus \in Nat /\ n % Modulus <= n
      <4>m. Modulus \in Nat \ {0}
        BY Zenon, <1>0
      <4>1. n % Modulus \in 0 .. Modulus - 1
        BY ONLY <4>m, n \in Nat
      <4>2. ASSUME n < Modulus PROVE n % Modulus = n
        <5>1. n \in 0 .. Modulus - 1
          BY ONLY <4>m, <4>2, n \in Nat
        <5> QED
          BY ONLY <4>m, <5>1
      <4> QED
        BY ONLY <4>m, <4>1, <4>2, n \in Nat
    <3> QED
      BY <1>0, <2>3, <3>3, <3>4
  <2> QED
    BY <1>0, <2>1, <2>2, <2>4 DEF HitsApart
<1>9. ASSUME NEW q \in Queriers, Stat!tally_panics(q) PROVE HitsApart'
  BY <1>0, <1>9, <1>h DEF HitsApart, Stat!tally_panics, Stat!statVars
<1>10. ASSUME NEW q \in Queriers, Stat!peek_current(q) PROVE HitsApart'
  <2>1. q \notin lock.writer /\ stage[q] = "answer"
    BY <1>10 DEF Stat!peek_current, OneSwaps
  <2>2. /\ UNCHANGED <<running, lock, hits, mark, apart, stage, cache_hits>>
        /\ \A p \in Queriers : p # q => at'[p] = at[p] /\ current'[p] = current[p]
    BY <1>0, <1>10 DEF Stat!peek_current, Stat!statVars
  <2> QED
    BY <1>0, <2>1, <2>2 DEF HitsApart
<1>11. ASSUME NEW q \in Queriers, Stat!since_previous_end(q) PROVE HitsApart'
  <2>1. q \in lock.readers /\ lock.writer = {} /\ stage[q] = "answer"
    BY <1>11 DEF Stat!since_previous_end, OneSwaps
  <2>2. /\ UNCHANGED <<running, hits, apart, current, cache_hits>> /\ mark' = floor[q]
        /\ stage' = [stage EXCEPT ![q] = "idle"] /\ lock'.writer = {}
    BY <1>0, <1>11, <2>1 DEF Stat!since_previous_end, Stat!returned
  <2> QED
    BY <1>0, <2>1, <2>2 DEF HitsApart
<1> QED
  BY Zenon, <1>2, <1>3, <1>4, <1>5, <1>6, <1>7, <1>8, <1>9, <1>10, <1>11 DEF Stat!Next

\* Every step keeps the counts together and what since_previous has loaded in its bounds:
\* swaps are made by one query at a time, with no other query loading, and the sum is
\* updated before the lock is released.
LEMMA StatStep == ASSUME StatConstants PROVE StatInv /\ [Stat!Next]_(Stat!vars) => StatInv'
<1> SUFFICES ASSUME StatInv, [Stat!Next]_(Stat!vars) PROVE StatInv'
  OBVIOUS
<1>t. StatTyped /\ StatTyped'
  BY Zenon, StatTypedStep DEF StatInv
<1>0. /\ \A f \in Stat!Fields : running[f] \in Stat!U64 /\ overall[f] \in Stat!U64 /\ tallied[f] \in Nat
      /\ \A q \in Queriers, f \in Stat!Fields : current[q][f] \in Stat!U64 /\ floor[q][f] \in Nat
      /\ \A q \in Queriers : at[q] \in 1 .. 7
      /\ lock \in [writer : SUBSET Queriers, readers : SUBSET Queriers]
      /\ lock.writer \subseteq Queriers /\ lock.readers \subseteq Queriers
  <2>1. Len(Stat!RawDBStats) + 1 = 7
    BY Counters
  <2>2. /\ running \in [Stat!Fields -> Stat!U64] /\ overall \in [Stat!Fields -> Stat!U64]
        /\ tallied \in [Stat!Fields -> Nat] /\ floor \in [Queriers -> [Stat!Fields -> Nat]]
        /\ current \in [Queriers -> [Stat!Fields -> Stat!U64]] /\ at \in [Queriers -> 1 .. 7]
        /\ lock \in [writer : SUBSET Queriers, readers : SUBSET Queriers]
        /\ lock.writer \subseteq Queriers /\ lock.readers \subseteq Queriers
    BY Zenon, <1>t, <2>1 DEF StatTyped, Stat!TypeOK, Stat!Counts
  <2> QED
    BY ONLY <2>2
<1>u. 0 \in Stat!U64 /\ \A a \in Stat!U64 : a \in Nat
  BY DEF StatConstants, Stat!U64
<1>f. \A f \in Stat!Tallies : f \in Stat!Fields
  BY Zenon, Counters
<1> DEFINE C(f) == Carried(lock, at, current, f)
           D(f) == Carried(lock', at', current', f)
<1>p. \A q : (CHOOSE p \in {q} : TRUE) = q
  OBVIOUS
<1>C. /\  lock.writer = {} => \A f : C(f) = 0
      /\ \A q : lock.writer = {q} => \A f :
            /\ (\E i \in 1 .. at[q] - 1 : Stat!RawDBStats[i] = f) => C(f) = current[q][f]
            /\ ~(\E i \in 1 .. at[q] - 1 : Stat!RawDBStats[i] = f) => C(f) = 0
  BY ONLY Zenon, <1>p DEF Carried
<1>D. /\ lock'.writer = {} => \A f : D(f) = 0
      /\ \A q : lock'.writer = {q} => \A f :
            /\ (\E i \in 1 .. at'[q] - 1 : Stat!RawDBStats[i] = f) => D(f) = current'[q][f]
            /\ ~(\E i \in 1 .. at'[q] - 1 : Stat!RawDBStats[i] = f) => D(f) = 0
  BY ONLY Zenon, <1>p DEF Carried
<1>s. OneSwaps /\ Loaded /\ \A f \in Stat!Tallies : Counted(running[f], C(f), overall[f], tallied[f])
  BY Zenon DEF StatInv, AllCounted
<1>w. ASSUME NEW q \in lock.writer PROVE lock.writer = {q} /\ lock.readers = {}
  BY Zenon, <1>s DEF OneSwaps
<1>c. \A f \in Stat!Tallies : C(f) \in Stat!U64
  <2>1. CASE lock.writer = {}
    BY Zenon, <1>C, <1>u, <2>1
  <2>2. ASSUME NEW q \in lock.writer PROVE \A f \in Stat!Tallies : C(f) \in Stat!U64
    <3>1. \A f : C(f) = current[q][f] \/ C(f) = 0
      BY Zenon, <1>C, <1>w, <2>2
    <3> QED
      BY Zenon, <1>0, <1>f, <1>u, <2>2, <3>1
  <2> QED
    BY Zenon, <2>1, <2>2
<1>h. HitsApart'
  BY Zenon, HitsApartStep DEF StatInv
<1>e. ASSUME OneSwaps', Loaded', \A f \in Stat!Tallies : Counted(running'[f], D(f), overall'[f], tallied'[f])
      PROVE  StatInv'
  BY Zenon, <1>t, <1>e, <1>h DEF StatInv, AllCounted
\* Steps that touch no counter, no lock and nothing a query has loaded.
<1>1. ASSUME UNCHANGED <<lock, at, current, overall, tallied>>, \A f \in Stat!Tallies : running'[f] = running[f],
             \A q \in Queriers : stage[q] = "answer" => stage'[q] = "answer" /\ floor'[q] = floor[q],
             \A q \in Queriers : floor'[q] = floor[q] \/ floor'[q] = tallied
      PROVE  StatInv'
  <2>1. OneSwaps'
    BY Zenon, <1>0, <1>1, <1>s DEF OneSwaps
  <2>2. \A f \in Stat!Tallies : Counted(running'[f], D(f), overall'[f], tallied'[f])
    BY Zenon, <1>1, <1>s
  <2>3. Loaded'
    <3>1. \A q \in Queriers, f \in Stat!Tallies : floor'[q][f] <= tallied'[f]
      <4>1. \A f \in Stat!Tallies : tallied[f] <= tallied[f]
        BY Zenon, <1>0, <1>f, Numbers
      <4> QED
        BY Zenon, <1>1, <1>s, <4>1 DEF Loaded
    <3>2. \A q \in lock.readers : floor'[q] = floor[q]
      BY Zenon, <1>0, <1>1, <1>s DEF OneSwaps
    <3> QED
      BY ZenonT(40), <1>1, <1>s, <3>1, <3>2 DEF Loaded
  <2> QED
    BY Zenon, <1>e, <2>1, <2>2, <2>3
<1>2. ASSUME NEW w \in Workers, Stat!start(w) PROVE StatInv'
  BY Zenon, <1>1, <1>2 DEF Stat!start, Stat!statVars, Stat!queryVars
<1>3. CASE Stat!cache_hit \/ UNCHANGED Stat!vars
  BY Zenon, <1>1, <1>3 DEF Stat!cache_hit, Stat!vars, Stat!statVars, Stat!queryVars
<1>4. ASSUME NEW q \in Queriers, Stat!io_stats(q) PROVE StatInv'
  <2>1. /\ stage \in [Queriers -> {"idle", "drain", "tally", "answer", "panicked"}]
        /\ floor \in [Queriers -> [Stat!Fields -> Nat]]
    BY Zenon, <1>t DEF StatTyped, Stat!TypeOK
  <2>2. /\ UNCHANGED <<lock, at, current, overall, tallied, running>> /\ stage[q] = "idle"
        /\ floor' = [floor EXCEPT ![q] = tallied] /\ stage' = [stage EXCEPT ![q] = "drain"]
    BY Zenon, <1>4 DEF Stat!io_stats, Stat!statVars
  <2>3. \A p \in Queriers : /\ stage[p] = "answer" => stage'[p] = "answer" /\ floor'[p] = floor[p]
                            /\ floor'[p] = floor[p] \/ floor'[p] = tallied
    BY <2>1, <2>2
  <2> QED
    BY Zenon, <1>1, <2>2, <2>3
<1>5. ASSUME NEW q \in Queriers, Stat!tally_cache_hit_count(q) \/ Stat!tally_panics(q) PROVE StatInv'
  <2>1. /\ stage \in [Queriers -> {"idle", "drain", "tally", "answer", "panicked"}]
        /\ running \in [Stat!Fields -> Stat!U64]
    BY Zenon, <1>t DEF StatTyped, Stat!TypeOK, Stat!Counts
  <2>2. /\ UNCHANGED <<lock, at, current, overall, tallied, floor>> /\ stage[q] = "tally"
        /\ stage' = [stage EXCEPT ![q] = "answer"] \/ stage' = [stage EXCEPT ![q] = "panicked"]
        /\ running' = running \/ \E x : running' = [running EXCEPT !["cache_hit_count"] = x]
    BY Zenon, <1>5 DEF Stat!tally_cache_hit_count, Stat!tally_panics, Stat!statVars
  <2>3. \A p \in Queriers : stage[p] = "answer" => stage'[p] = "answer"
    BY <2>1, <2>2
  <2>4. \A f \in Stat!Tallies : f # "cache_hit_count"
    BY Zenon, Counters
  <2>5. \A f \in Stat!Tallies : running'[f] = running[f]
    BY Zenon, <1>f, <2>1, <2>2, <2>4
  <2> QED
    BY Zenon, <1>1, <2>2, <2>3, <2>5
\* A tally.
<1>6. ASSUME NEW w \in Workers, Stat!tally(w) PROVE StatInv'
  <2> DEFINE g == Head(tasks[w])[1]
             n == Head(tasks[w])[2]
  <2>1. g \in Stat!Tallies /\ n \in Nat
    <3>1. tasks[w] \in Seq(Stat!Tallies \X Nat) /\ tasks[w] # <<>>
      BY Zenon, <1>t, <1>6 DEF StatTyped, Stat!tally
    <3>2. Head(tasks[w]) \in Stat!Tallies \X Nat
      BY <3>1
    <3> QED
      BY <3>2
  <2>2. /\ running' = [running EXCEPT ![g] = (@ + n) % Modulus] /\ tallied' = [tallied EXCEPT ![g] = @ + n]
        /\ UNCHANGED <<lock, at, current, overall, floor, stage>>
    BY Zenon, <1>6 DEF Stat!tally, Stat!queryVars
  <2> HIDE DEF g, n
  <2>3. running \in [Stat!Fields -> Stat!U64] /\ tallied \in [Stat!Fields -> Nat]
    BY Zenon, <1>t DEF StatTyped, Stat!TypeOK, Stat!Counts
  <2>4. /\ running'[g] = (running[g] + n) % Modulus /\ tallied'[g] = tallied[g] + n
        /\ \A f \in Stat!Tallies : f # g => running'[f] = running[f] /\ tallied'[f] = tallied[f]
    BY ZenonT(40), <1>f, <2>1, <2>2, <2>3
  <2>5. \A f \in Stat!Tallies : tallied[f] <= tallied'[f] /\ tallied[f] \in Nat /\ tallied'[f] \in Nat
    BY <1>0, <1>f, <2>1, <2>4
  <2>6. OneSwaps'
    BY Zenon, <1>s, <2>2 DEF OneSwaps
  <2>7. \A f \in Stat!Tallies : Counted(running'[f], D(f), overall'[f], tallied'[f])
    <3>1. running[g] \in Stat!U64 /\ C(g) \in Stat!U64 /\ overall[g] \in Stat!U64 /\ tallied[g] \in Nat
      BY Zenon, <1>0, <1>c, <1>f, <2>1
    <3>2. Counted(running[g], C(g), overall[g], tallied[g])
      BY Zenon, <1>s, <2>1
    <3>3. Counted((running[g] + n) % Modulus, C(g), overall[g], tallied[g] + n)
      BY ONLY Zenon, StatConstants, <2>1, <3>1, <3>2, CountedStep
    <3>4. \A f : D(f) = C(f) /\ overall'[f] = overall[f]
      BY Zenon, <2>2
    <3> HIDE DEF C, D
    <3> QED
      BY Zenon, <1>s, <2>4, <3>3, <3>4
  <2>8. Loaded'
    <3>1. ASSUME NEW f \in Stat!Tallies, NEW x \in Int, x <= tallied[f] PROVE x <= tallied'[f]
      BY <2>5, <3>1
    <3>2. \A f \in Stat!Tallies : tallied'[f] < Modulus => tallied[f] < Modulus
      BY <2>5 DEF StatConstants
    <3>3. \A q \in Queriers, f \in Stat!Tallies : floor[q][f] \in Int /\ current[q][f] + overall[f] \in Int
      BY <1>0, <1>f, <1>u
    <3>4. \A q \in Queriers, f \in Stat!Tallies : floor'[q][f] <= tallied'[f]
      BY Zenon, <1>s, <2>2, <3>1, <3>3 DEF Loaded
    <3>5. ASSUME NEW q \in lock.readers, NEW f \in Stat!Tallies, tallied'[f] < Modulus,
                 \E i \in 1 .. at[q] - 1 : Stat!RawDBStats[i] = f
          PROVE  floor[q][f] <= current[q][f] + overall[f] /\ current[q][f] + overall[f] <= tallied'[f]
      <4>1. floor[q][f] <= current[q][f] + overall[f] /\ current[q][f] + overall[f] <= tallied[f]
        BY Zenon, <1>s, <3>2, <3>5 DEF Loaded
      <4> QED
        BY Zenon, <1>0, <3>1, <3>3, <4>1
    <3> QED
      BY Zenon, <2>2, <3>4, <3>5 DEF Loaded
  <2> QED
    BY Zenon, <1>e, <2>6, <2>7, <2>8
\* The locks are taken.
<1>7. ASSUME NEW q \in Queriers, Stat!overall_lock(q) PROVE StatInv'
  <2>1. /\ lock.writer = {} /\ lock.readers = {} /\ lock' = [lock EXCEPT !.writer = {q}]
        /\ UNCHANGED <<at, current, overall, tallied, running, floor, stage>>
    BY Zenon, <1>7 DEF Stat!overall_lock, Stat!queryVars
  <2>2. lock'.writer = {q} /\ lock'.readers = {}
    BY <1>0, <2>1
  <2>3. at[q] = 1 /\ at'[q] = 1
    BY Zenon, <1>s, <2>1 DEF OneSwaps
  <2>4. OneSwaps'
    BY Zenon, <1>s, <2>1, <2>2 DEF OneSwaps
  <2>5. \A f : D(f) = 0 /\ C(f) = 0
    <3>1. \A f : ~ \E i \in 1 .. at'[q] - 1 : Stat!RawDBStats[i] = f
      BY <2>3
    <3>2. \A f : D(f) = 0
      BY ZenonT(40), <2>2, <3>1, <1>C, <1>D
    <3>3. \A f : C(f) = 0
      BY Zenon, <2>1, <1>C, <1>D
    <3> QED
      BY Zenon, <3>2, <3>3
  <2>6. \A f \in Stat!Tallies : Counted(running'[f], D(f), overall'[f], tallied'[f])
    BY Zenon, <1>s, <2>1, <2>5
  <2>7. Loaded'
    BY Zenon, <1>s, <2>1, <2>2 DEF Loaded
  <2> QED
    BY Zenon, <1>e, <2>4, <2>6, <2>7
<1>8. ASSUME NEW q \in Queriers, Stat!since_previous(q) PROVE StatInv'
  <2>1. /\ lock.writer = {} /\ q \notin lock.readers /\ lock' = [lock EXCEPT !.readers = @ \cup {q}]
        /\ stage[q] = "answer" /\ UNCHANGED <<at, current, overall, tallied, running, floor, stage>>
    BY Zenon, <1>8 DEF Stat!since_previous, Stat!queryVars, Stat!Peeks
  <2>2. lock'.writer = {} /\ lock'.readers = lock.readers \cup {q}
    BY <1>0, <2>1
  <2>3. at[q] = 1 /\ at'[q] = 1
    BY Zenon, <1>s, <2>1 DEF OneSwaps
  <2>4. OneSwaps'
    BY Zenon, <1>s, <2>1, <2>2 DEF OneSwaps
  <2>5. \A f : D(f) = 0 /\ C(f) = 0
    BY Zenon, <2>1, <2>2, <1>C, <1>D
  <2>6. \A f \in Stat!Tallies : Counted(running'[f], D(f), overall'[f], tallied'[f])
    BY Zenon, <1>s, <2>1, <2>5
  <2>7. Loaded'
    <3>1. \A f : ~ \E i \in 1 .. at'[q] - 1 : Stat!RawDBStats[i] = f
      BY <2>3
    <3> QED
      BY Zenon, <1>s, <2>1, <2>2, <3>1 DEF Loaded
  <2> QED
    BY Zenon, <1>e, <2>4, <2>6, <2>7
\* A swap and a load of the next counter.
<1>9. ASSUME NEW q \in Queriers, at[q] <= 6, q \in lock.writer \/ q \in lock.readers,
             at' = [at EXCEPT ![q] = @ + 1], current' = [current EXCEPT ![q][Stat!RawDBStats[at[q]]] = running[Stat!RawDBStats[at[q]]]]
      PROVE  /\ Stat!RawDBStats[at[q]] \in Stat!Fields
             /\ current'[q][Stat!RawDBStats[at[q]]] = running[Stat!RawDBStats[at[q]]]
             /\ \A p \in Queriers, f \in Stat!Fields : p # q \/ f # Stat!RawDBStats[at[q]] => current'[p][f] = current[p][f]
             /\ \A p \in Queriers : p # q => at'[p] = at[p]
             /\ at'[q] = at[q] + 1
             /\ \A f : (\E i \in 1 .. at'[q] - 1 : Stat!RawDBStats[i] = f) <=>
                          (\E i \in 1 .. at[q] - 1 : Stat!RawDBStats[i] = f) \/ f = Stat!RawDBStats[at[q]]
             /\ ~ \E i \in 1 .. at[q] - 1 : Stat!RawDBStats[i] = Stat!RawDBStats[at[q]]
  <2> DEFINE g == Stat!RawDBStats[at[q]]
  <2>1. /\ at \in [Queriers -> 1 .. 7] /\ current \in [Queriers -> [Stat!Fields -> Stat!U64]]
    <3>1. Len(Stat!RawDBStats) + 1 = 7
      BY Counters
    <3> QED
      BY Zenon, <1>t, <3>1 DEF StatTyped, Stat!TypeOK, Stat!Counts
  <2>2. at[q] \in 1 .. 6 /\ at'[q] = at[q] + 1 /\ \A p \in Queriers : p # q => at'[p] = at[p]
    <3>1. at[q] \in 1 .. 7 /\ at[q] <= 6
      BY Zenon, <1>0, <1>9
    <3>2. at[q] \in 1 .. 6
      BY ONLY <3>1
    <3>3. at'[q] = at[q] + 1 /\ \A p \in Queriers : p # q => at'[p] = at[p]
      BY Zenon, <1>9, <2>1
    <3> QED
      BY ONLY Zenon, <3>2, <3>3
  <2>3. g \in Stat!Fields
    BY Zenon, <2>2, Counters
  <2>4. current' = [current EXCEPT ![q] = [current[q] EXCEPT ![g] = running[g]]]
    BY Zenon, <1>9
  <2>5. \A i : i \in 1 .. at'[q] - 1 <=> i \in 1 .. at[q] - 1 \/ i = at[q]
    BY <2>2
  <2>6. \A i \in 1 .. at[q] - 1 : i \in 1 .. 6 /\ i # at[q]
    BY <2>2
  <2>7. \A i \in 1 .. at[q] - 1 : Stat!RawDBStats[i] # g
    BY Zenon, <2>2, <2>6, Counters
  <2>8. \A f : (\E i \in 1 .. at'[q] - 1 : Stat!RawDBStats[i] = f) <=>
                  (\E i \in 1 .. at[q] - 1 : Stat!RawDBStats[i] = f) \/ f = g
    BY Zenon, <2>5
  <2> HIDE DEF g
  <2>9. current'[q] = [current[q] EXCEPT ![g] = running[g]] /\ \A p \in Queriers : p # q => current'[p] = current[p]
    BY Zenon, <2>1, <2>4
  <2>10. current'[q][g] = running[g] /\ \A f \in Stat!Fields : f # g => current'[q][f] = current[q][f]
    BY Zenon, <2>1, <2>3, <2>9
  <2> QED
    BY Zenon, <2>2, <2>3, <2>7, <2>8, <2>9, <2>10 DEF g
<1>10. ASSUME NEW q \in Queriers, Stat!take_current(q) PROVE StatInv'
  <2> DEFINE g == Stat!RawDBStats[at[q]]
  <2>1. /\ q \in lock.writer /\ at[q] <= 6 /\ running' = [running EXCEPT ![g] = 0]
        /\ at' = [at EXCEPT ![q] = @ + 1] /\ current' = [current EXCEPT ![q][g] = running[g]]
        /\ UNCHANGED <<overall, lock, stage, floor, tallied>>
    <3>1. Len(Stat!RawDBStats) = 6
      BY Zenon, Counters
    <3> QED
      BY Zenon, <1>10, <3>1 DEF Stat!take_current
  <2>2. /\ g \in Stat!Fields /\ current'[q][g] = running[g]
        /\ \A f \in Stat!Fields : f # g => current'[q][f] = current[q][f]
        /\ \A p \in Queriers : p # q => at'[p] = at[p]
        /\ \A f : (\E i \in 1 .. at'[q] - 1 : Stat!RawDBStats[i] = f) <=>
                     (\E i \in 1 .. at[q] - 1 : Stat!RawDBStats[i] = f) \/ f = g
        /\ ~ \E i \in 1 .. at[q] - 1 : Stat!RawDBStats[i] = g
    <3>1. /\ g \in Stat!Fields /\ current'[q][g] = running[g]
          /\ \A p \in Queriers, f \in Stat!Fields : p # q \/ f # g => current'[p][f] = current[p][f]
          /\ \A p \in Queriers : p # q => at'[p] = at[p]
          /\ \A f : (\E i \in 1 .. at'[q] - 1 : Stat!RawDBStats[i] = f) <=>
                       (\E i \in 1 .. at[q] - 1 : Stat!RawDBStats[i] = f) \/ f = g
          /\ ~ \E i \in 1 .. at[q] - 1 : Stat!RawDBStats[i] = g
      BY ONLY Zenon, <1>9, <2>1, q \in Queriers
    <3> HIDE DEF g
    <3> QED
      BY ONLY Zenon, <3>1, q \in Queriers
  <2> HIDE DEF g
  <2>3. lock.writer = {q} /\ lock.readers = {} /\ lock' = lock
    BY Zenon, <1>w, <2>1
  <2>4. running \in [Stat!Fields -> Stat!U64]
    BY Zenon, <1>t DEF StatTyped, Stat!TypeOK, Stat!Counts
  <2>5. OneSwaps'
    BY Zenon, <1>s, <2>1, <2>2, <2>3 DEF OneSwaps
  <2>6. \A f : /\ (\E i \in 1 .. at[q] - 1 : Stat!RawDBStats[i] = f) => C(f) = current[q][f]
               /\ ~(\E i \in 1 .. at[q] - 1 : Stat!RawDBStats[i] = f) => C(f) = 0
    BY Zenon, <2>3, <1>C, <1>D
  <2>7. \A f : /\ (\E i \in 1 .. at'[q] - 1 : Stat!RawDBStats[i] = f) => D(f) = current'[q][f]
               /\ ~(\E i \in 1 .. at'[q] - 1 : Stat!RawDBStats[i] = f) => D(f) = 0
    <3>1. lock'.writer = {q}
      BY Zenon, <2>3
    <3> QED
      BY Zenon, <3>1, <1>C, <1>D
  <2> HIDE DEF C, D
  <2>8. running'[g] = 0 /\ D(g) = running[g] /\ C(g) = 0
    BY Zenon, <2>1, <2>2, <2>4, <2>6, <2>7
  <2>9. ASSUME NEW f \in Stat!Fields, f # g PROVE running'[f] = running[f] /\ D(f) = C(f)
    <3>1. running'[f] = running[f]
      BY Zenon, <2>1, <2>2, <2>4, <2>9
    <3>2. (\E i \in 1 .. at'[q] - 1 : Stat!RawDBStats[i] = f) <=> (\E i \in 1 .. at[q] - 1 : Stat!RawDBStats[i] = f)
      BY ONLY Zenon, <2>2, <2>9
    <3>3. current'[q][f] = current[q][f]
      BY Zenon, <2>2, <2>9
    <3>4. D(f) = C(f)
      BY ONLY Zenon, <2>6, <2>7, <3>2, <3>3
    <3> QED
      BY Zenon, <3>1, <3>4
  <2>10. \A f \in Stat!Tallies : running'[f] + D(f) + overall[f] = running[f] + C(f) + overall[f]
    <3>1. CASE g \in Stat!Tallies
      <4>1. running'[g] + D(g) + overall[g] = running[g] + C(g) + overall[g]
        <5>1. running[g] \in Nat /\ overall[g] \in Nat
          BY Zenon, <1>0, <1>u, <2>2
        <5> QED
          BY ONLY Zenon, <2>8, <5>1, Numbers
      <4> QED
        BY ZenonT(40), <1>f, <2>9, <4>1
    <3>2. CASE g \notin Stat!Tallies
      BY Zenon, <1>f, <2>9, <3>2
    <3> QED
      BY Zenon, <3>1, <3>2
  <2>11. \A f \in Stat!Tallies : Counted(running'[f], D(f), overall'[f], tallied'[f])
    BY Zenon, <1>s, <2>1, <2>10 DEF Counted
  <2>12. Loaded'
    BY Zenon, <1>s, <2>1, <2>3 DEF Loaded
  <2> QED
    BY Zenon, <1>e, <2>5, <2>11, <2>12 DEF D
<1>11. ASSUME NEW q \in Queriers, Stat!peek_current(q) PROVE StatInv'
  <2> DEFINE g == Stat!RawDBStats[at[q]]
  <2>1. /\ q \in lock.readers /\ at[q] <= 6
        /\ at' = [at EXCEPT ![q] = @ + 1] /\ current' = [current EXCEPT ![q][g] = running[g]]
        /\ UNCHANGED <<running, overall, lock, stage, floor, tallied>>
    <3>1. Len(Stat!RawDBStats) = 6
      BY Zenon, Counters
    <3> QED
      BY Zenon, <1>11, <3>1 DEF Stat!peek_current, Stat!statVars
  <2>2. /\ g \in Stat!Fields /\ current'[q][g] = running[g]
        /\ \A p \in Queriers, f \in Stat!Fields : p # q \/ f # g => current'[p][f] = current[p][f]
        /\ \A p \in Queriers : p # q => at'[p] = at[p]
        /\ \A f : (\E i \in 1 .. at'[q] - 1 : Stat!RawDBStats[i] = f) <=>
                     (\E i \in 1 .. at[q] - 1 : Stat!RawDBStats[i] = f) \/ f = g
    BY Zenon, <1>9, <2>1
  <2> HIDE DEF g
  <2>3. lock.writer = {} /\ lock'.writer = {} /\ lock' = lock
    BY Zenon, <1>w, <2>1
  <2>4. OneSwaps'
    BY Zenon, <1>s, <2>1, <2>2, <2>3 DEF OneSwaps
  <2>5. \A f : D(f) = 0 /\ C(f) = 0
    BY Zenon, <2>3, <1>C, <1>D
  <2>6. \A f \in Stat!Tallies : Counted(running'[f], D(f), overall'[f], tallied'[f])
    BY Zenon, <1>s, <2>1, <2>5
  <2>7. ASSUME g \in Stat!Tallies, tallied[g] < Modulus
        PROVE  floor[q][g] <= running[g] + overall[g] /\ running[g] + overall[g] <= tallied[g]
    <3>1. running[g] + 0 + overall[g] = tallied[g]
      BY ZenonT(40), <1>s, <2>5, <2>7 DEF Counted
    <3>2. running[g] + overall[g] = tallied[g] /\ tallied[g] \in Nat
      <4>1. running[g] \in Nat /\ overall[g] \in Nat /\ tallied[g] \in Nat
        BY Zenon, <1>0, <1>u, <2>2
      <4> QED
        BY ONLY Zenon, <3>1, <4>1, Numbers
    <3>3. floor[q][g] <= tallied[g]
      BY Zenon, <1>s, <2>7 DEF Loaded
    <3> QED
      BY ONLY Zenon, <3>2, <3>3, Numbers
  <2>8. Loaded'
    <3>1. ASSUME NEW p \in lock.readers, NEW f \in Stat!Tallies, tallied[f] < Modulus,
                 \E i \in 1 .. at'[p] - 1 : Stat!RawDBStats[i] = f
          PROVE  floor[p][f] <= current'[p][f] + overall[f] /\ current'[p][f] + overall[f] <= tallied[f]
      <4>1. CASE p = q /\ f = g
        BY Zenon, <2>2, <2>7, <3>1, <4>1
      <4>2. CASE p # q \/ f # g
        <5>1. current'[p][f] = current[p][f]
          BY Zenon, <1>0, <1>f, <2>2, <4>2
        <5>2. \E i \in 1 .. at[p] - 1 : Stat!RawDBStats[i] = f
          BY Zenon, <1>0, <2>2, <3>1, <4>2
        <5> QED
          BY Zenon, <1>s, <3>1, <5>1, <5>2 DEF Loaded
      <4> QED
        BY Zenon, <4>1, <4>2
    <3> QED
      BY Zenon, <1>s, <2>1, <3>1 DEF Loaded
  <2> QED
    BY Zenon, <1>e, <2>4, <2>6, <2>8
\* The locks are released.
<1>12. ASSUME NEW q \in Queriers, Stat!overall_end(q) PROVE StatInv'
  <2>1. /\ q \in lock.writer /\ at[q] > 6 /\ overall' = Stat!combine(overall, current[q])
        /\ lock' = [lock EXCEPT !.writer = {}] /\ at' = [at EXCEPT ![q] = 1]
        /\ UNCHANGED <<running, current, floor, tallied>>
    <3>1. Len(Stat!RawDBStats) = 6
      BY Zenon, Counters
    <3> QED
      BY Zenon, <1>12, <3>1 DEF Stat!overall_end
  <2>2. lock.writer = {q} /\ lock.readers = {}
    BY Zenon, <1>w, <2>1
  <2>3. lock'.writer = {} /\ lock'.readers = {}
    BY <1>0, <2>1, <2>2
  <2>4. \A p \in Queriers : at'[p] = 1
    <3>1. at \in [Queriers -> 1 .. Len(Stat!RawDBStats) + 1]
      BY Zenon, <1>t DEF StatTyped, Stat!TypeOK
    <3>2. \A p \in Queriers : p # q => at[p] = 1
      BY Zenon, <1>s, <2>2 DEF OneSwaps
    <3> QED
      BY Zenon, <2>1, <3>1, <3>2
  <2>5. OneSwaps'
    BY Zenon, <2>3, <2>4 DEF OneSwaps
  <2>6. \A f : D(f) = 0
    BY Zenon, <2>3, <1>C, <1>D
  <2>7. \A f \in Stat!Tallies : C(f) = current[q][f]
    <3>1. at[q] = 7
      BY <1>0, <2>1
    <3>2. \A f \in Stat!Tallies : \E i \in 1 .. at[q] - 1 : Stat!RawDBStats[i] = f
      <4>1. at[q] - 1 = 6
        BY <3>1
      <4> QED
        BY Zenon, <1>f, <4>1, Counters
    <3> QED
      BY Zenon, <2>2, <3>2, <1>C, <1>D
  <2>8. \A f \in Stat!Tallies : overall'[f] = (overall[f] + C(f)) % Modulus
    <3>1. \A f \in Stat!Tallies : Stat!combine(overall, current[q])[f] = (overall[f] + current[q][f]) % Modulus
      BY Zenon, <1>f DEF Stat!combine
    <3> QED
      BY Zenon, <2>1, <2>7, <3>1
  <2> HIDE DEF C, D
  <2>9. ASSUME NEW f \in Stat!Tallies PROVE Counted(running'[f], D(f), overall'[f], tallied'[f])
    <3>1. running[f] \in Stat!U64 /\ C(f) \in Stat!U64 /\ overall[f] \in Stat!U64 /\ tallied[f] \in Nat
      BY Zenon, <1>0, <1>c, <1>f
    <3>2. Counted(running[f], C(f), overall[f], tallied[f])
      BY Zenon, <1>s
    <3>3. Counted(running[f], 0, (overall[f] + C(f)) % Modulus, tallied[f])
      BY ONLY Zenon, StatConstants, <3>1, <3>2, CountedStep
    <3> QED
      BY Zenon, <2>1, <2>6, <2>8, <3>3
  <2>10. Loaded'
    BY Zenon, <1>s, <2>1, <2>3 DEF Loaded
  <2> QED
    BY Zenon, <1>e, <2>5, <2>9, <2>10 DEF D
<1>13. ASSUME NEW q \in Queriers, Stat!since_previous_end(q) PROVE StatInv'
  <2>1. /\ q \in lock.readers /\ lock' = [lock EXCEPT !.readers = @ \ {q}] /\ at' = [at EXCEPT ![q] = 1]
        /\ stage' = [stage EXCEPT ![q] = "idle"] /\ UNCHANGED <<running, overall, current, floor, tallied>>
    BY Zenon, <1>13 DEF Stat!since_previous_end, Stat!returned
  <2>2. lock.writer = {} /\ lock'.writer = {} /\ lock'.readers = lock.readers \ {q}
    <3>1. lock.writer = {}
      BY Zenon, <1>w, <2>1
    <3> QED
      BY <1>0, <2>1, <3>1
  <2>3. /\ at'[q] = 1 /\ \A p \in Queriers : p # q => at'[p] = at[p] /\ stage'[p] = stage[p]
    <3>1. /\ at \in [Queriers -> 1 .. Len(Stat!RawDBStats) + 1]
          /\ stage \in [Queriers -> {"idle", "drain", "tally", "answer", "panicked"}]
      BY Zenon, <1>t DEF StatTyped, Stat!TypeOK
    <3> QED
      BY Zenon, <2>1, <3>1
  <2>4. OneSwaps'
    BY Zenon, <1>0, <1>s, <2>2, <2>3 DEF OneSwaps
  <2>5. \A f : D(f) = 0 /\ C(f) = 0
    BY Zenon, <2>2, <1>C, <1>D
  <2>6. \A f \in Stat!Tallies : Counted(running'[f], D(f), overall'[f], tallied'[f])
    BY Zenon, <1>s, <2>1, <2>5
  <2>7. Loaded'
    BY ZenonT(40), <1>0, <1>s, <2>1, <2>2, <2>3 DEF Loaded
  <2> QED
    BY Zenon, <1>e, <2>4, <2>6, <2>7
<1> QED
  BY Zenon, <1>2, <1>3, <1>4, <1>5, <1>6, <1>7, <1>8, <1>10, <1>11, <1>12, <1>13 DEF Stat!Next

\* The invariant of the statistics.
LEMMA StatInvariance == ASSUME StatConstants PROVE Stat!Spec => []StatInv
BY StatInit, StatStep, PTL DEF Stat!Spec

\* With the invariant, no tally is lost or counted twice.
LEMMA StatInvExact == StatInv => Stat!NothingLost
BY Zenon, InFlightIs DEF StatInv, AllCounted, Counted, Stat!NothingLost

\* However the tallies of reads and writes fall between the swaps of queries, no tally is
\* lost or counted twice: each is in its AtomicU64, in the sum of OverallDBStats, or with the
\* one query inside overall(), for any number of threads and queries and also after the
\* counters have wrapped around.
THEOREM StatsKeepCount == Stat!Spec => []Stat!NothingLost
BY StatInvExact, StatInvariance, StatFact, PTL

\* With the invariant, the kind SincePrevious returns a total between the two tallies.
LEMMA StatInvBetween ==
    ASSUME StatInv, NEW q \in Queriers, Stat!since_previous_end(q), NEW f \in Stat!Tallies, tallied[f] < Modulus
    PROVE  answered'[q][f] \in floor[q][f] .. tallied[f]
<1>c. StatConstants
  BY StatFact
<1> DEFINE s == current[q][f] + overall[f]
<1>1. q \in lock.readers /\ at[q] > 6 /\ answered' = [answered EXCEPT ![q] = Stat!combine(overall, current[q])]
  <2>1. Len(Stat!RawDBStats) = 6
    BY Zenon, Counters
  <2> QED
    BY Zenon, <2>1 DEF Stat!since_previous_end, Stat!returned
<1>2. /\ at[q] \in 1 .. 7 /\ f \in Stat!Fields /\ answered \in [Queriers -> Stat!Counts]
      /\ current[q][f] \in Stat!U64 /\ overall[f] \in Stat!U64 /\ floor[q][f] \in Nat /\ tallied[f] \in Nat
  <2>1. Len(Stat!RawDBStats) + 1 = 7 /\ f \in Stat!Fields
    BY Counters
  <2> QED
    BY ZenonT(40), <2>1 DEF StatInv, StatTyped, Stat!TypeOK, Stat!Counts
<1>3. \E i \in 1 .. at[q] - 1 : Stat!RawDBStats[i] = f
  <2>1. at[q] - 1 = 6
    BY Zenon, <1>1, <1>2, Numbers
  <2> QED
    BY Zenon, <1>2, <2>1, Counters
<1>4. floor[q][f] <= s /\ s <= tallied[f]
  BY Zenon, <1>1, <1>3 DEF StatInv, Loaded
<1>5. overall[f] + current[q][f] = s /\ s \in 0 .. Modulus - 1
  <2>1. /\ current[q][f] \in 0 .. (Modulus - 1) /\ overall[f] \in 0 .. (Modulus - 1)
        /\ floor[q][f] \in Nat /\ tallied[f] \in Nat /\ tallied[f] < Modulus /\ Modulus \in Nat
        /\ floor[q][f] <= current[q][f] + overall[f] /\ current[q][f] + overall[f] <= tallied[f]
    BY Zenon, <1>2, <1>4, <1>c DEF StatConstants, Stat!U64
  <2> QED
    BY ONLY <2>1 DEF s
<1> HIDE DEF s
<1>6. s % Modulus = s
  BY ONLY <1>5, <1>c DEF StatConstants
<1>7. answered'[q][f] = (overall[f] + current[q][f]) % Modulus
  BY Zenon, <1>1, <1>2 DEF Stat!combine
<1>8. answered'[q][f] = s
  BY Zenon, <1>5, <1>6, <1>7
<1>9. s \in floor[q][f] .. tallied[f]
  <2>1. floor[q][f] \in Nat /\ tallied[f] \in Nat
    BY Zenon, <1>2
  <2> QED
    BY ONLY <1>4, <1>5, <2>1
<1> QED
  BY ONLY Zenon, <1>8, <1>9

\* With the invariant, what a query returns has happened, and cache hits do not go below
\* zero between calls that do not overlap.
LEMMA StatInvSound == StatInv => Stat!AnswersHappened /\ Stat!ApartNoUnderflow
<1> SUFFICES ASSUME StatInv PROVE Stat!AnswersHappened /\ Stat!ApartNoUnderflow
  OBVIOUS
<1>1. ASSUME NEW q \in Queriers, NEW f \in Stat!Tallies, tallied[f] < Modulus, Stat!since_previous_end(q)
      PROVE  answered'[q][f] \in floor[q][f] - mark[f] .. tallied[f]
  <2>1. answered'[q][f] \in floor[q][f] .. tallied[f]
    BY ONLY Zenon, StatInv, <1>1, StatInvBetween
  <2>2. floor[q][f] \in Nat /\ mark[f] \in Nat /\ tallied[f] \in Nat
    <3>1. f \in Stat!Fields
      BY Zenon, Counters
    <3>2. floor \in [Queriers -> [Stat!Fields -> Nat]] /\ tallied \in [Stat!Fields -> Nat]
          /\ mark \in [Stat!Fields -> Nat]
      BY Zenon DEF StatInv, StatTyped, HitsApart
    <3> QED
      BY ONLY <3>1, <3>2, q \in Queriers
  <2> QED
    BY ONLY <2>1, <2>2
<1>2. ASSUME NEW q \in Queriers, NEW f \in Stat!Tallies, tallied[f] < Modulus,
             Stat!overall_end(q), stage[q] = "answer"
      PROVE  answered'[q][f] <= tallied[f]
  <2>1. /\ answered \in [Queriers -> Stat!Counts] /\ at[q] \in 1 .. 7 /\ at[q] > 6 /\ q \in lock.writer
        /\ running[f] \in Stat!U64 /\ overall[f] \in Stat!U64 /\ current[q][f] \in Stat!U64
        /\ tallied[f] \in Nat /\ f \in Stat!Fields /\ lock.writer = {q}
    <3>1. Len(Stat!RawDBStats) = 6 /\ Len(Stat!RawDBStats) + 1 = 7 /\ f \in Stat!Fields
      BY Counters
    <3>2. at[q] > 6 /\ q \in lock.writer
      BY Zenon, <1>2, <3>1 DEF Stat!overall_end
    <3> QED
      BY ZenonT(40), <3>1, <3>2 DEF StatInv, StatTyped, OneSwaps, Stat!TypeOK, Stat!Counts
  <2>2. answered'[q] = current[q]
    <3>1. answered' = [answered EXCEPT ![q] = current[q]]
      BY Zenon, <1>2 DEF Stat!overall_end, Stat!returned
    <3> QED
      BY Zenon, <2>1, <3>1
  <2>3. Carried(lock, at, current, f) = current[q][f]
    <3>1. at[q] - 1 = 6
      BY ONLY <2>1
    <3>2. \E i \in 1 .. at[q] - 1 : Stat!RawDBStats[i] = f
      BY Zenon, <2>1, <3>1, Counters
    <3>3. (CHOOSE p \in {q} : TRUE) = q
      OBVIOUS
    <3> QED
      BY Zenon, <2>1, <3>2, <3>3 DEF Carried
  <2>4. running[f] + current[q][f] + overall[f] = tallied[f]
    BY Zenon, <1>2, <2>3 DEF StatInv, AllCounted, Counted
  <2>5. Modulus \in Nat
    BY StatFact DEF StatConstants
  <2> QED
    BY <2>1, <2>2, <2>4, <2>5 DEF Stat!U64
<1>3. Stat!AnswersHappened
  BY Zenon, <1>1, <1>2 DEF Stat!AnswersHappened
<1>4. Stat!ApartNoUnderflow
  BY Zenon DEF StatInv, HitsApart, Stat!ApartNoUnderflow
<1> QED
  BY Zenon, <1>3, <1>4

\* As long as a counter has not counted to 2^64, what io_stats returns of it has happened:
\* no more than is tallied when it returns, whatever other queries move from the counters
\* to the sum meanwhile, and with SincePrevious no less than was tallied between the query
\* before and this one.
THEOREM AnswersSound == Stat!Spec => [][Stat!AnswersHappened]_(Stat!vars)
BY StatInvSound, StatInvariance, StatFact, PTL DEF Stat!Spec

\* cache_hit_count - old_cache_hit_count in io_stats neither wraps nor panics as long as
\* calls of io_stats do not overlap, for any number of threads and calls.
THEOREM NoUnderflowApart == Stat!Spec => []Stat!ApartNoUnderflow
BY StatInvSound, StatInvariance, StatFact, PTL

\* No tally is lost or counted twice, what io_stats returns has happened, and queries that
\* do not overlap subtract no cache hits that are not there.
THEOREM StatsAreExact == Counting => StatsExact
<1> DEFINE Typed == subject = "stats" => Stat!TypeOK /\ Stat!NothingLost /\ Stat!ApartNoUnderflow
           Sound == subject = "stats" => Stat!AnswersHappened
           Count == [Stat!Next /\ UNCHANGED subject]_<<subject, statVars>>
<1>1. Stat!Init => StatInv
  BY Zenon, StatInit, StatFact
<1>2. Count => [Stat!Next]_(Stat!vars)
  BY Zenon DEF statVars, Stat!vars, Stat!statVars, Stat!queryVars
<1>3. StatInv /\ Count => StatInv'
  BY Zenon, <1>2, StatStep, StatFact
<1>4. StatInv => Typed
  BY Zenon, StatInvExact, StatInvSound DEF StatInv, StatTyped
<1>5. StatInv => Sound
  BY Zenon, StatInvSound
<1> QED
  BY <1>1, <1>3, <1>4, <1>5, PTL DEF Counting, StatsExact

-----------------------------------------------------------------------------
(* RocksDatabase: the operations of a transaction.                         *)

LOCAL INSTANCE WellFoundedInduction

\* A nonempty set of naturals has a least element.
LEMMA Least ==
    ASSUME NEW T \in SUBSET Nat, T # {}
    PROVE  \E x \in T : \A y \in T : x <= y
<1>1. PICK x \in T : \A y \in T : ~ (<<y, x>> \in OpToRel(<, Nat))
  BY Zenon, NatLessThanWellFounded, WFMin
<1>2. ASSUME NEW y \in T PROVE ~ (y < x)
  BY ZenonT(40), <1>1 DEF OpToRel
<1> QED
  BY <1>2

\* A nonempty set of positions of a transaction has a greatest element.
LEMMA Greatest ==
    ASSUME NEW n \in Nat, NEW T, T \subseteq 1..n, T # {}
    PROVE  \E i \in T : \A j \in T : j <= i
<1> DEFINE U == {n - i : i \in T}
<1>0. ASSUME NEW i \in T PROVE n - i \in Nat
  BY SMTT(40)
<1>1. U \in SUBSET Nat /\ U # {}
  BY ZenonT(40), <1>0
<1>2. PICK x \in U : \A y \in U : x <= y
  <2> HIDE DEF U
  <2> QED
    BY <1>1, Least
<1>3. PICK i \in T : x = n - i
  BY Zenon
<1>4. ASSUME NEW j \in T PROVE j <= i
  <2>1. n - i <= n - j
    BY ZenonT(40), <1>2, <1>3
  <2> QED
    BY <2>1
<1> QED
  BY <1>4

\* The position Newest chooses is one of a operation on the key.
LEMMA NewestInDomain ==
    ASSUME NEW ops \in Seq(Ops), NEW k, Touching(ops, k) # {}
    PROVE  /\ Newest(ops, k) \in DOMAIN ops
           /\ ops[Newest(ops, k)].key = k
           /\ ops[Newest(ops, k)].value \in Stored
           /\ \A j \in Touching(ops, k) : j <= Newest(ops, k)
<1>1. Touching(ops, k) \subseteq 1..Len(ops) /\ Len(ops) \in Nat
  BY DEF Touching
<1>2. \E i \in Touching(ops, k) : \A j \in Touching(ops, k) : j <= i
  BY SMTT(40), <1>1, Greatest
<1>3. /\ Newest(ops, k) \in Touching(ops, k)
      /\ \A j \in Touching(ops, k) : j <= Newest(ops, k)
  BY <1>2 DEF Newest
<1>4. Newest(ops, k) \in DOMAIN ops /\ ops[Newest(ops, k)].key = k
  BY <1>3 DEF Touching
<1>5. ops[Newest(ops, k)] \in Ops
  BY <1>4
<1> QED
  BY <1>3, <1>4, <1>5 DEF Ops

\* An empty transaction leaves every key alone.
LEMMA EffectEmpty == Effect(<<>>) = [k \in Keys |-> Untouched]
BY DEF Effect, Touching

\* Pushing an operation replaces what the transaction holds of its key.
LEMMA EffectAppend ==
    ASSUME NEW ops \in Seq(Ops), NEW o \in Ops
    PROVE  Effect(Append(ops, o)) = [Effect(ops) EXCEPT ![o.key] = o.value]
<1> DEFINE new == Append(ops, o)
           n == Len(ops) + 1
<1>1. /\ new \in Seq(Ops) /\ Len(new) = n /\ n \in Nat /\ new[n] = o
      /\ \A i \in 1..Len(ops) : new[i] = ops[i]
      /\ DOMAIN ops = 1..Len(ops) /\ DOMAIN new = 1..n
  OBVIOUS
<1>2. ASSUME NEW k \in Keys, k # o.key
      PROVE  Touching(new, k) = Touching(ops, k)
  BY <1>1, <1>2 DEF Touching
<1>3. n \in Touching(new, o.key)
  BY <1>1 DEF Touching
<1>4. Newest(new, o.key) = n
  <2>1. Newest(new, o.key) \in 1..n /\ n <= Newest(new, o.key)
    BY ZenonT(40), <1>1, <1>3, NewestInDomain
  <2> QED
    BY <2>1, <1>1
<1>5. ASSUME NEW k \in Keys, k # o.key
      PROVE  Effect(new)[k] = Effect(ops)[k]
  <2>1. CASE Touching(ops, k) = {}
    BY <1>2, <1>5, <2>1 DEF Effect
  <2>2. CASE Touching(ops, k) # {}
    <3>1. Newest(new, k) = Newest(ops, k)
      BY <1>2, <1>5 DEF Newest
    <3>2. Newest(ops, k) \in 1..Len(ops)
      BY <2>2, <1>1, NewestInDomain
    <3>3. new[Newest(new, k)] = ops[Newest(ops, k)]
      BY <3>1, <3>2, <1>1
    <3> HIDE DEF new
    <3> QED
      BY <1>2, <1>5, <2>2, <3>3 DEF Effect
  <2> QED
    BY <2>1, <2>2
<1>6. Effect(new)[o.key] = o.value
  <2>1. o.key \in Keys
    BY DEF Ops
  <2> QED
    BY <2>1, <1>1, <1>3, <1>4 DEF Effect
<1> HIDE DEF new
<1>7. /\ Effect(new) = [k \in Keys |-> Effect(new)[k]]
      /\ Effect(ops) = [k \in Keys |-> Effect(ops)[k]]
  BY DEF Effect
<1>8. Effect(new) = [Effect(ops) EXCEPT ![o.key] = o.value]
  BY <1>5, <1>6, <1>7
<1> QED
  BY <1>8 DEF new

\* Writing a transaction overlays the store with what it holds.
LEMMA WrittenIsOverlay ==
    ASSUME NEW ops \in Seq(Ops), NEW d
    PROVE  Written(d, ops) = Abstract!Overlay(d, Effect(ops))
<1>1. ASSUME NEW k \in Keys, Touching(ops, k) # {}
      PROVE  ops[Newest(ops, k)].value # Untouched
  BY <1>1, NewestInDomain, RocksAssumption
<1> QED
  BY <1>1 DEF Written, Effect, Abstract!Overlay

\* A write keeps the values of the store well typed.
LEMMA WrittenType ==
    ASSUME NEW ops \in Seq(Ops), NEW d \in [Keys -> Stored]
    PROVE  Written(d, ops) \in [Keys -> Stored]
BY NewestInDomain DEF Written
-----------------------------------------------------------------------------
(* The invariant.                                                          *)

\* Between two calls a plain data store has no transaction.
FreshStores == \A s \in Stores : pc[s] = "idle" => txn[s] = <<>>

\* The inductive invariant.
Inv == TypeOK /\ HandlesStayValid /\ NamedColumnsExist /\ FreshStores

\* Before the first open there is nothing.
LEMMA InitInv == Init => Inv
<1> SUFFICES ASSUME Init PROVE Inv
  OBVIOUS
<1>1. TypeOK
  <2>1. <<>> \in Seq(Ops)
    OBVIOUS
  <2> QED
    BY ZenonT(40), <2>1 DEF Init, TypeOK, Stored
<1>2. HandlesStayValid /\ NamedColumnsExist /\ FreshStores
  BY DEF Init, HandlesStayValid, NamedColumnsExist, FreshStores, Clients
<1> QED
  BY <1>1, <1>2 DEF Inv

\* Every step keeps it: the read lock held from the lookup of the columns to
\* write_opt keeps close() and remove_column() away.
LEMMA NextInv == Inv /\ [Next]_vars => Inv'
<1> SUFFICES ASSUME Inv, [Next]_vars PROVE Inv'
  OBVIOUS
<1> USE RocksAssumption DEF Inv, fileVars, dbVars
<1>1. ASSUME NEW b \in Batches, NEW k \in Keys, NEW v \in Stored,
             Up(b), txn' = [txn EXCEPT ![b] = Append(@, Op(k, v))],
             UNCHANGED <<fileVars, dbVars, readers, pc>>
      PROVE  Inv'
  <2>1. b \in Clients /\ b \notin Stores /\ Op(k, v) \in Ops
    BY DEF Clients, Op, Ops
  <2>2. TypeOK'
    BY <1>1, <2>1 DEF TypeOK
  <2>3. \A c \in Clients : c # b => txn'[c] = txn[c]
    BY <1>1 DEF TypeOK
  <2>4. HandlesStayValid'
    BY <1>1, <2>1, <2>3 DEF HandlesStayValid, cf_found, Up
  <2>5. FreshStores'
    BY <1>1, <2>1, <2>3 DEF FreshStores, Clients
  <2> QED
    BY <1>1, <2>2, <2>4, <2>5 DEF NamedColumnsExist
<1>2. ASSUME NEW b \in Batches, discard(b) PROVE Inv'
  <2>1. b \in Clients /\ b \notin Stores
    BY DEF Clients
  <2>2. TypeOK'
    BY <1>2, <2>1 DEF TypeOK, discard
  <2>3. HandlesStayValid' /\ FreshStores' /\ NamedColumnsExist'
    BY <1>2, <2>1 DEF discard, Up, HandlesStayValid, cf_found, FreshStores,
                      NamedColumnsExist, TypeOK, Clients
  <2> QED
    BY <2>2, <2>3
<1>3. ASSUME NEW b \in Batches, NEW c \in Batches, to_txn(b, c) PROVE Inv'
  <2>1. c \in Clients /\ c \notin Stores /\ b \in Clients
    BY DEF Clients
  <2>2. TypeOK'
    BY <1>3, <2>1 DEF TypeOK, to_txn
  <2>3. \A d \in Clients : d # c => txn'[d] = txn[d]
    BY <1>3 DEF TypeOK, to_txn
  <2>4. HandlesStayValid' /\ FreshStores' /\ NamedColumnsExist'
    BY <1>3, <2>1, <2>3 DEF to_txn, Up, HandlesStayValid, cf_found, FreshStores,
                            NamedColumnsExist, Clients
  <2> QED
    BY <2>2, <2>4
<1>4. ASSUME NEW c \in Clients, NEW ops \in Seq(Ops), Up(c), begin_write(c, ops),
             txn' = [txn EXCEPT ![c] = ops]
      PROVE  Inv'
  <2>1. TypeOK'
    BY ZenonT(40), <1>4 DEF TypeOK, begin_write
  <2>2. \A d \in Clients : d # c => txn'[d] = txn[d] /\ pc'[d] = pc[d]
    BY <1>4 DEF TypeOK, begin_write
  <2>3. /\ pc'[c] # "idle" /\ txn'[c] = ops
        /\ pc'[c] = "writing" => cf_found(ops) /\ c \in readers'
        /\ readers \subseteq readers'
    BY Zenon, <1>4 DEF TypeOK, begin_write
  <2>4. HandlesStayValid'
    BY <1>4, <2>2, <2>3 DEF HandlesStayValid, begin_write, cf_found
  <2>5. FreshStores' /\ NamedColumnsExist'
    BY <1>4, <2>2, <2>3 DEF FreshStores, NamedColumnsExist, begin_write, Clients
  <2> QED
    BY <2>1, <2>4, <2>5
<1>5. ASSUME NEW c \in Clients, pc[c] = "writing", unlock(c),
             txn' = [txn EXCEPT ![c] = <<>>] \/ (c \notin Stores /\ txn' = txn),
             data' \in [Keys -> Stored], damaged' \in BOOLEAN, marked' \in BOOLEAN,
             UNCHANGED <<families, dbVars>>
      PROVE  Inv'
  <2>1. TypeOK'
    <3>1. <<>> \in Seq(Ops)
      OBVIOUS
    <3>2. txn' \in [Clients -> Seq(Ops)]
      BY ZenonT(40), <1>5, <3>1 DEF TypeOK
    <3>3. pc' \in [Clients -> {"idle", "writing", "panicked"}] /\ readers' \subseteq Clients
      BY Zenon, <1>5 DEF TypeOK, unlock
    <3> QED
      BY <1>5, <3>2, <3>3 DEF TypeOK
  <2>2. \A d \in Clients : d # c => txn'[d] = txn[d] /\ pc'[d] = pc[d]
    BY Zenon, <1>5 DEF TypeOK, unlock
  <2>3. HandlesStayValid'
    BY <1>5, <2>2 DEF HandlesStayValid, unlock, cf_found, TypeOK
  <2>4. FreshStores' /\ NamedColumnsExist'
    BY Zenon, <1>5, <2>2 DEF FreshStores, NamedColumnsExist, unlock, Clients, TypeOK
  <2> QED
    BY <2>1, <2>3, <2>4
<1>6. ASSUME NEW col \in Columns, add_column(col) PROVE Inv'
  BY <1>6 DEF add_column, exclusive, TypeOK, HandlesStayValid, cf_found,
              FreshStores, NamedColumnsExist
<1>7. ASSUME NEW col \in Columns, remove_column(col) PROVE Inv'
  <2>1. TypeOK'
    BY <1>7 DEF remove_column, TypeOK, Stored
  <2>2. HandlesStayValid'
    BY <1>7 DEF remove_column, exclusive, HandlesStayValid
  <2>3. FreshStores' /\ NamedColumnsExist'
    BY Zenon, <1>7 DEF remove_column, FreshStores, NamedColumnsExist
  <2> QED
    BY <2>1, <2>2, <2>3
<1>8. ASSUME NEW lost \in SUBSET Keys, repair_marked(lost) PROVE Inv'
  <2>1. TypeOK'
    BY ZenonT(40), <1>8 DEF repair_marked, repair, TypeOK, Stored
  <2> QED
    BY Zenon, <1>8, <2>1 DEF repair_marked, HandlesStayValid, cf_found, FreshStores,
                      NamedColumnsExist
<1>9. ASSUME NEW cols \in Configs, open_primary(cols) PROVE Inv'
  <2>1. cols \subseteq Columns
    OBVIOUS
  <2>2. TypeOK'
    BY ZenonT(40), <1>9, <2>1 DEF open_primary, open_existing, create_cfs, repair_and_open,
                      repair, serve, asked, TypeOK, Stored
  <2>3. HandlesStayValid' /\ FreshStores'
    BY <1>9 DEF open_primary, HandlesStayValid, FreshStores
  <2>4. NamedColumnsExist'
    <3>1. CASE open_existing(cols)
      BY <3>1 DEF open_existing, serve, asked, NamedColumnsExist
    <3>2. CASE create_cfs(cols)
      BY SMTT(20), <1>9, <3>2 DEF open_primary, create_cfs, serve, NamedColumnsExist
    <3>3. ASSUME NEW lost \in SUBSET Keys, repair_and_open(cols, lost)
          PROVE  NamedColumnsExist'
      BY SMTT(20), <1>9, <3>3 DEF open_primary, repair_and_open, serve, asked,
                        NamedColumnsExist
    <3> QED
      BY <1>9, <3>1, <3>2, <3>3 DEF open_primary
  <2> QED
    BY <2>2, <2>3, <2>4
<1>10. CASE close
  BY SMTT(20), <1>10 DEF close, exclusive, TypeOK, HandlesStayValid, FreshStores,
               NamedColumnsExist
<1>11. CASE Crash
  BY SMTT(20), <1>11 DEF Crash, TypeOK, HandlesStayValid, FreshStores, NamedColumnsExist,
               Clients
<1>12. CASE UNCHANGED vars
  BY <1>12 DEF vars, TypeOK, HandlesStayValid, cf_found, FreshStores,
               NamedColumnsExist
<1>13. ASSUME NEW b \in Batches, commit(b) PROVE Inv'
  <2>1. b \in Clients /\ txn[b] \in Seq(Ops) /\ txn' = [txn EXCEPT ![b] = txn[b]]
    BY <1>13 DEF commit, Clients, TypeOK
  <2> QED
    BY ZenonT(40), <1>4, <1>13, <2>1 DEF commit
<1>14. ASSUME NEW s \in Stores, NEW k \in Keys, NEW v \in Stored,
              store_put(s, k, v) \/ (v = Absent /\ store_delete(s, k))
       PROVE  Inv'
  <2>1. s \in Clients /\ <<Op(k, v)>> \in Seq(Ops)
    BY DEF Clients, Op, Ops
  <2> QED
    BY ZenonT(40), <1>4, <1>14, <2>1 DEF store_put, store_delete
<1>15. ASSUME NEW c \in Clients, write_opt(c) PROVE Inv'
  <2>1. Written(data, txn[c]) \in [Keys -> Stored]
    BY WrittenType DEF TypeOK
  <2> QED
    BY ZenonT(40), <1>5, <1>15, <2>1 DEF write_opt, TypeOK
<1>16. ASSUME NEW c \in Clients, write_fails(c) PROVE Inv'
  BY ZenonT(40), <1>5, <1>16 DEF write_fails, TypeOK
<1>17. ASSUME NEW b \in Batches, NEW k \in Keys, delete(b, k) PROVE Inv'
  BY ZenonT(40), <1>1, <1>17 DEF delete, Stored
<1>18. ASSUME NEW b \in Batches, NEW k \in Keys, NEW v \in Values, put(b, k, v)
       PROVE  Inv'
  BY ZenonT(40), <1>1, <1>18 DEF put, Stored
<1> QED
  BY Zenon, <1>2, <1>3, <1>6, <1>7, <1>8, <1>9, <1>10, <1>11, <1>12, <1>13, <1>14,
     <1>15, <1>16, <1>17, <1>18 DEF Next, Stored

\* The invariant holds throughout.
LEMMA InvCorrect == Spec => []Inv
BY InitInv, NextInv, PTL DEF Spec

\* Every reachable state is well typed: keys a batch leaves alone keep a value of
\* their own, for any number of keys, clients and operations.
THEOREM TypeCorrect == Spec => []TypeOK
BY InvCorrect, PTL DEF Inv

\* A column family handle looked up by write() is valid when write_opt uses it.
THEOREM HandlesCorrect == Spec => []HandlesStayValid
BY InvCorrect, PTL DEF Inv

\* get() never meets a named column without a family.
THEOREM NamedColumnsCorrect == Spec => []NamedColumnsExist
BY InvCorrect, PTL DEF Inv

\* Columns named by a Database, families on disk and handles in use stay in step: write()
\* never uses a handle that remove_column or close has freed, get() never panics.
THEOREM ColumnsInStepCorrect == Spec => []ColumnsInStep
BY TypeCorrect, HandlesCorrect, NamedColumnsCorrect, PTL DEF ColumnsInStep

-----------------------------------------------------------------------------
(* The refinement.                                                         *)

\* An empty database is an empty store with nothing recorded.
LEMMA InitRefines == Init => Abstract!Init
BY EffectEmpty DEF Init, Abstract!Init, Abstract!Clean

\* Every step is one of AtomicBatch or leaves its state alone: pushing records,
\* write_opt commits, a failed write only forgets a plain put, the rest moves the
\* lock or the columns.
LEMMA NextRefines ==
    Inv /\ [Next]_vars => [Abstract!Next]_(Abstract!vars)
<1> SUFFICES ASSUME Inv, [Next]_vars
             PROVE  Abstract!Next \/ UNCHANGED Abstract!vars
  OBVIOUS
<1> USE DEF fileVars, dbVars
<1> DEFINE staged == [c \in Clients |-> Effect(txn[c])]
           Clean == [k \in Keys |-> Untouched]
<1>0. TypeOK /\ FreshStores /\ txn \in [Clients -> Seq(Ops)]
  BY DEF Inv, TypeOK
<1>1. ASSUME NEW c \in Clients, NEW k \in Keys, NEW v \in Stored,
             txn' = [txn EXCEPT ![c] = Append(txn[c], Op(k, v))],
             UNCHANGED <<data, damaged>>
      PROVE  Abstract!Next
  <2>1. Op(k, v) \in Ops /\ Op(k, v).key = k /\ Op(k, v).value = v
    BY DEF Op, Ops
  <2>2. Effect(txn'[c]) = [Effect(txn[c]) EXCEPT ![k] = v]
    BY <1>0, <1>1, <2>1, EffectAppend
  <2>3. \A d \in Clients : d # c => txn'[d] = txn[d]
    BY <1>0, <1>1
  <2>4. staged' = [staged EXCEPT ![c][k] = v]
    BY ZenonT(40), <2>2, <2>3
  <2>5. Abstract!Record(c, k, v)
    BY <1>1, <2>4 DEF Abstract!Record
  <2> QED
    BY <2>5 DEF Abstract!Next, Abstract!Stored, Stored
<1>2. ASSUME NEW c \in Clients, txn' = [txn EXCEPT ![c] = <<>>]
      PROVE  staged' = [staged EXCEPT ![c] = Clean]
  <2>1. \A d \in Clients : d # c => txn'[d] = txn[d]
    BY <1>0, <1>2
  <2>2. Effect(txn'[c]) = Clean
    BY <1>0, <1>2, EffectEmpty
  <2> QED
    BY ZenonT(40), <2>1, <2>2
<1>3. ASSUME NEW b \in Batches, discard(b) PROVE Abstract!Next
  <2>1. b \in Clients
    BY DEF Clients
  <2>2. Abstract!Discard(b)
    BY ZenonT(40), <1>2, <1>3, <2>1 DEF discard, Abstract!Discard, Abstract!Clean
  <2> QED
    BY <2>1, <2>2 DEF Abstract!Next
<1>4. ASSUME NEW b \in Batches, NEW c \in Batches, to_txn(b, c) PROVE Abstract!Next
  <2>1. b \in Clients /\ c \in Clients
    BY DEF Clients
  <2>2. txn'[c] = txn[b] /\ \A d \in Clients : d # c => txn'[d] = txn[d]
    BY <1>0, <1>4, <2>1 DEF to_txn
  <2>3. staged' = [staged EXCEPT ![c] = staged[b]]
    BY ZenonT(40), <2>1, <2>2
  <2>4. Abstract!Fork(b, c)
    BY <1>4, <2>3 DEF to_txn, Abstract!Fork
  <2> QED
    BY <2>1, <2>4 DEF Abstract!Next
<1>5. ASSUME NEW c \in Clients, write_opt(c) PROVE Abstract!Next
  <2>1. staged' = [staged EXCEPT ![c] = Clean]
    BY ZenonT(40), <1>2, <1>5 DEF write_opt
  <2>2. data' = Abstract!Overlay(data, staged[c])
    BY SMTT(20), <1>0, <1>5, WrittenIsOverlay DEF write_opt
  <2>3. Abstract!Commit(c)
    BY <1>5, <2>1, <2>2 DEF write_opt, Abstract!Commit, Abstract!Clean
  <2> QED
    BY <2>3 DEF Abstract!Next
<1>6. ASSUME NEW c \in Clients, write_fails(c) PROVE Abstract!Next
  <2>1. staged' = IF c \in Stores THEN [staged EXCEPT ![c] = Clean] ELSE staged
    BY <1>2, <1>6 DEF write_fails
  <2>2. Abstract!Fail(c)
    BY ZenonT(40), <1>6, <2>1 DEF write_fails, Abstract!Fail, Abstract!Clean
  <2> QED
    BY ZenonT(40), <2>2 DEF Abstract!Next
<1>7. ASSUME NEW col \in Columns, remove_column(col)
      PROVE  Abstract!Next \/ UNCHANGED Abstract!vars
  <2> DEFINE gone == {k \in Keys : ColOf[k] = col}
  <2>1. CASE UNCHANGED data
    BY Zenon, <1>7, <2>1 DEF remove_column, Abstract!vars
  <2>2. CASE data' = [k \in Keys |-> IF ColOf[k] = col THEN Absent ELSE data[k]]
    <3>1. Abstract!Drop(gone)
      BY <1>7, <2>2 DEF remove_column, Abstract!Drop
    <3> QED
      BY Zenon, <3>1 DEF Abstract!Next
  <2> QED
    BY <1>7, <2>1, <2>2 DEF remove_column
<1>8. ASSUME NEW lost \in SUBSET Keys, repair(lost), UNCHANGED txn
      PROVE  Abstract!Next
  <2>1. Abstract!Repair(lost)
    BY <1>8 DEF repair, Abstract!Repair
  <2> QED
    BY <2>1 DEF Abstract!Next
<1>9. ASSUME UNCHANGED <<data, damaged, txn>> PROVE UNCHANGED Abstract!vars
  BY <1>9 DEF Abstract!vars
<1>10. ASSUME NEW cols \in Configs, open_primary(cols)
       PROVE  Abstract!Next \/ UNCHANGED Abstract!vars
  <2>1. CASE open_existing(cols) \/ create_cfs(cols)
    BY SMTT(20), <1>9, <1>10, <2>1 DEF open_primary, open_existing, create_cfs
  <2>2. ASSUME NEW lost \in SUBSET Keys, repair_and_open(cols, lost)
        PROVE  Abstract!Next
    BY <1>8, <1>10, <2>2 DEF open_primary, repair_and_open
  <2> QED
    BY <1>10, <2>1, <2>2 DEF open_primary
<1>11. CASE Crash
  <2>1. staged' = [c \in Clients |-> Clean]
    BY <1>11, EffectEmpty DEF Crash
  <2>2. Abstract!Crash
    BY <1>11, <2>1 DEF Crash, Abstract!Crash, Abstract!Clean
  <2> QED
    BY <2>2 DEF Abstract!Next
<1>12. ASSUME NEW b \in Batches, commit(b) PROVE UNCHANGED Abstract!vars
  BY <1>9, <1>12 DEF commit, begin_write
<1>13. ASSUME NEW s \in Stores, NEW k \in Keys, NEW v \in Stored,
              store_put(s, k, v) \/ (v = Absent /\ store_delete(s, k))
       PROVE  Abstract!Next
  <2>1. s \in Clients /\ txn[s] = <<>>
    BY <1>0, <1>13 DEF Clients, FreshStores, store_put, store_delete, Up
  <2>2. <<Op(k, v)>> = Append(txn[s], Op(k, v))
    BY <2>1
  <2>3. /\ txn' = [txn EXCEPT ![s] = <<Op(k, v)>>]
        /\ UNCHANGED <<data, damaged>>
    BY <1>13 DEF store_put, store_delete, begin_write
  <2> QED
    BY ZenonT(40), <1>1, <2>1, <2>2, <2>3
<1>14. ASSUME NEW b \in Batches, NEW k \in Keys, delete(b, k) PROVE Abstract!Next
  <2>1. b \in Clients /\ Absent \in Stored
    BY DEF Clients, Stored
  <2> QED
    BY ZenonT(40), <1>1, <1>14, <2>1 DEF delete
<1>15. ASSUME NEW b \in Batches, NEW k \in Keys, NEW v \in Values, put(b, k, v)
       PROVE  Abstract!Next
  <2>1. b \in Clients /\ v \in Stored
    BY DEF Clients, Stored
  <2> QED
    BY ZenonT(40), <1>1, <1>15, <2>1 DEF put
<1>16. CASE close
  BY <1>9, <1>16 DEF close
<1>17. ASSUME NEW col \in Columns, add_column(col) PROVE UNCHANGED Abstract!vars
  BY <1>9, <1>17 DEF add_column
<1>18. ASSUME NEW lost \in SUBSET Keys, repair_marked(lost) PROVE Abstract!Next
  BY <1>8, <1>18 DEF repair_marked
<1>19. CASE UNCHANGED vars
  BY <1>9, <1>19 DEF vars
<1> QED
  BY Zenon, <1>3, <1>4, <1>5, <1>6, <1>7, <1>10, <1>11, <1>12, <1>13, <1>14, <1>15,
     <1>16, <1>17, <1>18, <1>19 DEF Next, Stored

\* The data stores over RocksDB implement atomic batches: whatever clients,
\* columns, failures, closing and crashes do, a commit is visible as a whole or
\* not at all.
THEOREM AtomicBatchCorrect == Spec => ImplementsAtomicBatch
<1>1. Init => Abstract!Init
  BY InitRefines
<1>2. Inv /\ [Next]_vars => [Abstract!Next]_(Abstract!vars)
  BY NextRefines
<1> QED
  BY <1>1, <1>2, InvCorrect, PTL DEF Spec, ImplementsAtomicBatch, Abstract!Spec

\* While a batch is inside write() only its own write_opt takes its operations away, and
\* then all of them are in the store: a batch cannot be changed by its owner or copied
\* over by txn() before write() returns, and a failed write keeps the record.
LEMMA RecordKept ==
    ASSUME TypeOK, [Next]_vars, NEW b \in Batches, pc[b] = "writing", db' # "down"
    PROVE  \/ txn'[b] = txn[b]
           \/ \A k \in Keys : Effect(txn[b])[k] \in {Untouched, data'[k]}
<1> USE DEF fileVars, dbVars
<1>0. txn \in [Clients -> Seq(Ops)] /\ Batches \subseteq Clients /\ b \notin Stores
  BY Zenon, RocksAssumption DEF TypeOK, Clients
<1>1. ASSUME NEW c \in Clients, NEW new, c # b, txn' = [txn EXCEPT ![c] = new]
      PROVE  txn'[b] = txn[b]
  BY Zenon, <1>0, <1>1
<1>2. ASSUME NEW c \in Batches, NEW k \in Keys, delete(c, k) \/ \E v \in Values : put(c, k, v)
      PROVE  txn'[b] = txn[b]
  <2>1. pc[c] = "idle" /\ \E new : txn' = [txn EXCEPT ![c] = new]
    BY Zenon, <1>2 DEF delete, put, Up
  <2> QED
    BY Zenon, <1>0, <1>1, <2>1
<1>3. ASSUME NEW c \in Batches, discard(c) \/ commit(c)
      PROVE  txn'[b] = txn[b]
  <2>1. CASE discard(c)
    BY Zenon, <1>0, <1>1, <2>1 DEF discard, Up
  <2>2. CASE commit(c)
    BY Zenon, <2>2 DEF commit
  <2> QED
    BY Zenon, <1>3, <2>1, <2>2
<1>4. ASSUME NEW c \in Batches, NEW d \in Batches, to_txn(c, d)
      PROVE  txn'[b] = txn[b]
  BY Zenon, <1>0, <1>1, <1>4 DEF to_txn, Up
<1>5. ASSUME NEW c \in Stores, NEW k \in Keys, store_delete(c, k) \/ \E v \in Values : store_put(c, k, v)
      PROVE  txn'[b] = txn[b]
  <2>1. c \in Clients /\ c # b
    BY Zenon, <1>0 DEF Clients
  <2>2. \E new : txn' = [txn EXCEPT ![c] = new]
    BY Zenon, <1>5 DEF store_delete, store_put
  <2> QED
    BY Zenon, <1>1, <2>1, <2>2
<1>6. ASSUME NEW c \in Clients, write_opt(c), c # b
      PROVE  txn'[b] = txn[b]
  BY Zenon, <1>1, <1>6 DEF write_opt
<1>7. ASSUME write_opt(b)
      PROVE  \A k \in Keys : Effect(txn[b])[k] \in {Untouched, data'[k]}
  BY <1>7 DEF write_opt, Effect, Written
<1>8. ASSUME NEW c \in Clients, write_fails(c)
      PROVE  txn'[b] = txn[b]
  BY Zenon, <1>0, <1>1, <1>8 DEF write_fails
<1>9. ASSUME \/ \E col \in Columns : add_column(col) \/ remove_column(col)
             \/ \E lost \in SUBSET Keys : repair_marked(lost)
             \/ \E cols \in Configs : open_primary(cols)
             \/ close \/ UNCHANGED vars
      PROVE  txn' = txn
  BY Zenon, <1>9 DEF add_column, remove_column, repair_marked, open_primary, close, vars
<1>10. ~Crash
  BY Zenon DEF Crash
<1> QED
  BY Zenon, <1>2, <1>3, <1>4, <1>5, <1>6, <1>7, <1>8, <1>9, <1>10 DEF Next

\* A commit that takes no effect keeps its record, whatever other clients do while the
\* batch is inside write(): RocksDBBatchDataStore::commit clears it after the write.
THEOREM CommitsKeepRecords == Spec => CommitKeepsRecord
<1>1. ASSUME TypeOK, [Next]_vars
      PROVE  [\A b \in Batches : pc[b] = "writing" /\ db' # "down" =>
                 \/ txn'[b] = txn[b]
                 \/ \A k \in Keys : Effect(txn[b])[k] \in {Untouched, data'[k]}]_vars
  BY Zenon, <1>1, RecordKept
<1> QED
  BY <1>1, TypeCorrect, PTL DEF Spec, CommitKeepsRecord
=============================================================================
