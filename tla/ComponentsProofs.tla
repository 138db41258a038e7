--------------------------- MODULE ComponentsProofs ---------------------------
(***************************************************************************)
(* Proofs about the small components:                                      *)
(*  - BasicTxn, for any keys, values and handles, for stores that clone by *)
(*    reference and by copy, with and without failures;                    *)
(*  - RPCCodec, for any frames, cut into any number of pieces;             *)
(*  - Wallet, for any addresses, with or without failures of the key       *)
(*    store, and for any keys a process is started with;                   *)
(*  - NetworkParams, for any set of threads;                               *)
(*  - PeerMgr, for any peers and any limit on the peers it keeps;          *)
(*  - Components, where those but BasicTxn run side by side, with the      *)
(*    questions and the statistics that other modules prove things of.     *)
(* The parts share no state; each declares what it is about.               *)
(***************************************************************************)
EXTENDS BasicTxn, Components, TLAPS

-----------------------------------------------------------------------------
(* Numbers and sequences.                                                  *)

\* The elements of two sequences put together.
LEMMA Joined ==
    ASSUME NEW S, NEW u \in Seq(S), NEW v \in Seq(S)
    PROVE  /\ u \o v \in Seq(S) /\ Len(u \o v) = Len(u) + Len(v)
           /\ \A i \in 1 .. Len(u) : (u \o v)[i] = u[i]
           /\ \A i \in Len(u) + 1 .. Len(u) + Len(v) : (u \o v)[i] = v[i - Len(u)]
OBVIOUS

\* The first n elements of a sequence.
LEMMA Taken ==
    ASSUME NEW S, NEW t \in Seq(S), NEW n \in 0 .. Len(t)
    PROVE  /\ SubSeq(t, 1, n) \in Seq(S) /\ Len(SubSeq(t, 1, n)) = n
           /\ \A i \in 1 .. n : SubSeq(t, 1, n)[i] = t[i]
OBVIOUS

\* What is left of a sequence after its first n elements.
LEMMA Left ==
    ASSUME NEW S, NEW t \in Seq(S), NEW n \in 0 .. Len(t)
    PROVE  /\ SubSeq(t, n + 1, Len(t)) \in Seq(S) /\ Len(SubSeq(t, n + 1, Len(t))) = Len(t) - n
           /\ \A i \in 1 .. Len(t) - n : SubSeq(t, n + 1, Len(t))[i] = t[i + n]
<1>1. SubSeq(t, n + 1, Len(t)) \in Seq(S)
  OBVIOUS
<1>2. Len(SubSeq(t, n + 1, Len(t))) = Len(t) - n
  OBVIOUS
<1>3. ASSUME NEW i \in 1 .. Len(t) - n PROVE SubSeq(t, n + 1, Len(t))[i] = t[i + n]
  OBVIOUS
<1> QED
  BY Zenon, <1>1, <1>2, <1>3

\* Counting one up stays within a limit that was not reached.
LEMMA Room ==
    ASSUME NEW n \in Nat, NEW max \in Nat
    PROVE  /\ n < max => n <= max /\ n + 1 <= max
           /\ 0 <= max
           /\ \A m \in Nat : m <= n /\ n <= max => m <= max
OBVIOUS

-----------------------------------------------------------------------------
\* BasicTxn

\* RetryCompletes is about a single step; what makes it true is that a running
\* commit has already written every recorded key it no longer has to write.
WroteTheRest == \A h \in Handles : pc[h] = "commit" /\ alone[h] =>
    \A k \in Touched(ops[h]) \ todo[h] : values[home(h)][k] = ops[h][k]

\* A running commit has nothing to write that is not recorded, and only a running
\* commit has something to write.
OnlyRecorded == \A h \in Handles :
    /\ todo[h] \subseteq Touched(ops[h])
    /\ pc[h] # "commit" => todo[h] = {}

\* A handle that is not there yet has recorded nothing.
FreshHandles == \A h \in Handles : pc[h] = "none" => ops[h] = Clean

HistoryOK ==
    /\ before \in [Handles -> [Keys -> Stored]]
    /\ alone \in [Handles -> BOOLEAN]

Inv ==
    /\ TypeOK /\ HistoryOK
    /\ KeepsWhatItWrote /\ WroteTheRest /\ OnlyRecorded /\ FreshHandles

\* Different handles see different places unless clones share the store.
LEMMA HomeFact ==
    /\ \A h \in Handles : home(h) \in Places
    /\ \A h \in Handles : home(h) \in {h, Base}
    /\ \A g, h \in Handles : home(g) = home(h) => g = h \/ home(h) = Base
    /\ SharedClone => \A h \in Handles : home(h) = Base
    /\ ~SharedClone => \A h \in Handles : home(h) = h /\ h # Base
BY BasicAssumption DEF home, Places

\* No handle exists initially.
LEMMA InitInv == Init => Inv
<1> SUFFICES ASSUME Init PROVE Inv
    OBVIOUS
<1>1. TypeOK /\ HistoryOK
    BY DEF Init, TypeOK, HistoryOK, Stored, Clean
<1>2. KeepsWhatItWrote /\ WroteTheRest /\ FreshHandles /\ OnlyRecorded
    BY DEF Init, KeepsWhatItWrote, WroteTheRest, FreshHandles, OnlyRecorded
<1>3. QED
    BY <1>1, <1>2 DEF Inv

\* What a write of key k to place p by `who` leaves.
Wrote(p, k, v, who) ==
    /\ values' \in [Places -> [Keys -> Stored]]
    /\ alone' \in [Handles -> BOOLEAN]
    /\ \A h \in Handles : alone'[h] => alone[h]
    /\ \A h \in Handles : alone'[h] /\ h # who => values'[home(h)] = values[home(h)]
    /\ \A q \in Places, j \in Keys : j # k \/ q # p => values'[q][j] = values[q][j]
    /\ values'[p][k] = v

\* A write by `who` to a place keeps the types and what other handles know.
LEMMA WrittenInv ==
    ASSUME Inv, NEW p \in Places, NEW k \in Keys, NEW v \in Stored, NEW who,
           written(p, k, v, who)
    PROVE  Wrote(p, k, v, who)
<1> USE HomeFact DEF Inv, TypeOK, HistoryOK
<1>1. values' = [values EXCEPT ![p] = [values[p] EXCEPT ![k] = v]]
    BY DEF written
<1>2. values' \in [Places -> [Keys -> Stored]]
    BY <1>1
<1>3. alone' = [h \in Handles |-> alone[h] /\ (h = who \/ p \notin {home(h), Base})]
    BY DEF written
<1>4. /\ alone' \in [Handles -> BOOLEAN]
      /\ \A h \in Handles : alone'[h] => alone[h]
      /\ \A h \in Handles : alone'[h] /\ h # who => home(h) # p
    BY <1>3, Zenon
<1>5. /\ \A q \in Places, j \in Keys : j # k \/ q # p => values'[q][j] = values[q][j]
      /\ \A q \in Places : q # p => values'[q] = values[q]
      /\ values'[p][k] = v
    BY <1>1
<1>6. \A h \in Handles : alone'[h] /\ h # who => values'[home(h)] = values[home(h)]
    BY ONLY HomeFact, <1>4, <1>5
<1>7. QED
    BY ONLY Zenon, <1>2, <1>4, <1>5, <1>6 DEF Wrote

\* Making a handle, alone or from a batch, disturbs no other handle.
LEMMA MadeInv ==
    ASSUME Inv, NEW h \in Handles, NEW origin \in Handles \cup {Base}, pc[h] = "none",
           NEW o \in [Keys -> Stored \cup {Untouched}],
           origin = Base \/ pc[origin] # "none",
           pc' = [pc EXCEPT ![h] = "idle"],
           ops' = [ops EXCEPT ![h] = o],
           LET from == IF origin = Base THEN Base ELSE home(origin) IN
               /\ values' = [values EXCEPT ![home(h)] = values[from]]
               /\ before' = [before EXCEPT ![h] = values[from]],
           alone' = [alone EXCEPT ![h] = TRUE],
           todo' = todo
    PROVE  Inv'
<1> DEFINE from == IF origin = Base THEN Base ELSE home(origin)
<1> USE HomeFact DEF Inv
<1>1. from \in Places /\ (SharedClone => from = Base)
    BY DEF Places
<1>2. values[from] \in [Keys -> Stored]
    BY <1>1 DEF TypeOK
<1>3. TypeOK' /\ HistoryOK'
    BY <1>1, <1>2 DEF TypeOK, HistoryOK
<1>4. /\ values'[home(h)] = values[from] /\ before'[h] = values[from]
      /\ \A g \in Handles : g # h =>
            values'[home(g)] = values[home(g)] /\ before'[g] = before[g]
    BY <1>1 DEF TypeOK, HistoryOK
<1>5. \A g \in Handles : g # h =>
          ops'[g] = ops[g] /\ pc'[g] = pc[g] /\ alone'[g] = alone[g]
    BY DEF TypeOK, HistoryOK
<1>6. pc'[h] = "idle" /\ todo[h] = {}
    BY DEF TypeOK, OnlyRecorded, FreshHandles, Touched, Clean
<1>7. KeepsWhatItWrote'
    BY <1>4, <1>5 DEF KeepsWhatItWrote, home
<1>8. WroteTheRest' /\ FreshHandles'
    BY <1>4, <1>5, <1>6 DEF WroteTheRest, FreshHandles, home
<1>9. OnlyRecorded'
    BY <1>5, <1>6 DEF OnlyRecorded
<1>10. QED
    BY <1>3, <1>7, <1>8, <1>9

\* Every operation preserves the invariant.
LEMMA NextInv == Inv /\ [Next]_vars => Inv'
<1> SUFFICES ASSUME Inv, [Next]_vars PROVE Inv'
    OBVIOUS
<1>1. ASSUME NEW h \in Handles, new(h) PROVE Inv'
    <2>1. ops[h] = Clean /\ ops' = [ops EXCEPT ![h] = Clean]
        BY <1>1 DEF new, Inv, TypeOK, FreshHandles
    <2>2. Clean \in [Keys -> Stored \cup {Untouched}]
        BY DEF Clean
    <2>3. QED
        BY ZenonT(40), <1>1, <2>1, <2>2, MadeInv DEF new
<1>2. ASSUME NEW h \in Txns, NEW b \in Batches, txn(b, h) PROVE Inv'
    <2>1. h \in Handles /\ b \in Handles /\ b # Base
        BY BasicAssumption DEF Handles
    <2>2. ops[b] \in [Keys -> Stored \cup {Untouched}] /\ pc[b] # "none"
        BY <1>2, <2>1 DEF txn, Inv, TypeOK
    <2>3. QED
        BY ZenonT(40), <1>2, <2>1, <2>2, MadeInv DEF txn
<1>3. ASSUME NEW h \in Handles, NEW k \in Keys, NEW v \in Stored, pc[h] = "idle",
             ops' = [ops EXCEPT ![h][k] = v],
             UNCHANGED <<values, pc, todo, historyVars>>
      PROVE  Inv'
    <2> USE <1>3 DEF Inv, historyVars
    <2>1. ops' = [ops EXCEPT ![h] = [ops[h] EXCEPT ![k] = v]]
        OBVIOUS
    <2>2. TypeOK' /\ HistoryOK'
        BY <2>1 DEF TypeOK, HistoryOK
    <2>3. Touched(ops[h]) \subseteq Touched(ops'[h])
        BY <2>1, BasicAssumption DEF Touched, TypeOK
    <2>4. \A g \in Handles : g # h => ops'[g] = ops[g]
        BY <2>1 DEF TypeOK
    <2>5. KeepsWhatItWrote' /\ OnlyRecorded'
        BY <2>3, <2>4 DEF KeepsWhatItWrote, OnlyRecorded, home
    <2>6. WroteTheRest' /\ FreshHandles'
        BY SMTT(20), <2>4 DEF WroteTheRest, FreshHandles, home
    <2>7. QED
        BY <2>2, <2>5, <2>6
<1>4. ASSUME NEW h \in Handles, commit(h) PROVE Inv'
    <2> USE <1>4 DEF Inv, commit, historyVars, pending
    <2>1. TypeOK' /\ HistoryOK'
        BY DEF TypeOK, HistoryOK, Touched
    <2>2. /\ pc'[h] = "commit" /\ todo'[h] = Touched(ops[h])
          /\ \A g \in Handles : g # h => pc'[g] = pc[g] /\ todo'[g] = todo[g]
        BY DEF TypeOK
    <2>3. KeepsWhatItWrote' /\ FreshHandles' /\ OnlyRecorded' /\ WroteTheRest'
        BY <2>2 DEF KeepsWhatItWrote, FreshHandles, OnlyRecorded, WroteTheRest, home
    <2>4. QED
        BY <2>1, <2>3
<1>5. ASSUME NEW h \in Handles, NEW k \in Keys, commit_op(h, k) PROVE Inv'
    <2> USE <1>5 DEF Inv, commit_op
    <2>1. k \in Touched(ops[h]) /\ ops[h][k] \in Stored
        BY DEF OnlyRecorded, Touched, TypeOK
    <2>2. /\ values' \in [Places -> [Keys -> Stored]]
          /\ alone' \in [Handles -> BOOLEAN]
          /\ \A g \in Handles : alone'[g] => alone[g]
          /\ \A g \in Handles : alone'[g] /\ g # h => values'[home(g)] = values[home(g)]
          /\ \A j \in Keys : j # k => values'[home(h)][j] = values[home(h)][j]
          /\ values'[home(h)][k] = ops[h][k]
        <3>1. home(h) \in Places
            BY Zenon, HomeFact
        <3>2. Wrote(home(h), k, ops[h][k], h)
            BY Zenon, <2>1, <3>1, WrittenInv
        <3> QED
            BY Zenon, <3>1, <3>2 DEF Wrote
    <2>3. /\ todo'[h] = todo[h] \ {k}
          /\ \A g \in Handles : g # h => todo'[g] = todo[g]
        BY DEF TypeOK
    <2>4. TypeOK' /\ HistoryOK'
        BY ZenonT(40), <2>2 DEF TypeOK, HistoryOK
    <2>5. KeepsWhatItWrote'
        BY ZenonT(40), <2>1, <2>2 DEF KeepsWhatItWrote, home
    <2>6. WroteTheRest'
        BY <2>1, <2>2, <2>3 DEF WroteTheRest, home, Touched
    <2>7. OnlyRecorded' /\ FreshHandles'
        BY <2>3 DEF OnlyRecorded, FreshHandles
    <2>8. QED
        BY <2>4, <2>5, <2>6, <2>7
<1>6. ASSUME NEW h \in Handles, commit_fails(h) PROVE Inv'
    <2> USE <1>6 DEF Inv, commit_fails, historyVars
    <2>1. TypeOK' /\ HistoryOK'
        BY DEF TypeOK, HistoryOK
    <2>2. /\ pc'[h] = "idle" /\ todo'[h] = {}
          /\ \A g \in Handles : g # h => pc'[g] = pc[g] /\ todo'[g] = todo[g]
        BY SMTT(20) DEF TypeOK
    <2>3. KeepsWhatItWrote' /\ FreshHandles' /\ OnlyRecorded' /\ WroteTheRest'
        BY <2>2 DEF KeepsWhatItWrote, FreshHandles, OnlyRecorded, WroteTheRest, home
    <2>4. QED
        BY <2>1, <2>3
<1>7. ASSUME NEW h \in Handles, pc[h] # "none", todo[h] = {}, pc' = [pc EXCEPT ![h] = "idle"],
             ops' = [ops EXCEPT ![h] = Clean],
             before' = [before EXCEPT ![h] = values[home(h)]],
             alone' = [alone EXCEPT ![h] = TRUE],
             UNCHANGED <<values, todo>>
      PROVE  Inv'
    <2> USE <1>7, HomeFact DEF Inv
    <2>1. TypeOK' /\ HistoryOK'
        BY DEF TypeOK, HistoryOK, Clean
    <2>2. /\ pc'[h] = "idle" /\ before'[h] = values[home(h)]
          /\ \A g \in Handles : g # h => /\ pc'[g] = pc[g] /\ ops'[g] = ops[g]
                                         /\ before'[g] = before[g] /\ alone'[g] = alone[g]
        BY SMTT(20) DEF TypeOK, HistoryOK
    <2>3. KeepsWhatItWrote' /\ FreshHandles' /\ OnlyRecorded' /\ WroteTheRest'
        BY <2>2 DEF KeepsWhatItWrote, FreshHandles, OnlyRecorded, WroteTheRest, home
    <2>4. QED
        BY SMTT(20), <2>1, <2>3
<1>8. ASSUME NEW k \in Keys, NEW v \in Stored, base_put(k, v) PROVE Inv'
    <2>1. Base \in Places /\ \A h \in Handles : h # Base
        BY BasicAssumption DEF Places
    <2>0. Inv /\ written(Base, k, v, Base)
        BY Zenon, <1>8 DEF base_put
    <2>2. /\ values' \in [Places -> [Keys -> Stored]]
          /\ alone' \in [Handles -> BOOLEAN]
          /\ \A g \in Handles : alone'[g] => alone[g]
          /\ \A g \in Handles : alone'[g] => values'[home(g)] = values[home(g)]
        <3>1. Wrote(Base, k, v, Base)
            BY Zenon, <2>0, <2>1, WrittenInv
        <3> QED
            BY ONLY Zenon, <2>1, <3>1 DEF Wrote
    <2> USE <1>8 DEF Inv, base_put
    <2>3. TypeOK' /\ HistoryOK'
        BY ZenonT(40), <2>2 DEF TypeOK, HistoryOK
    <2>4. ops' = ops /\ pc' = pc /\ todo' = todo /\ before' = before
        BY Zenon DEF historyVars
    <2> HIDE <1>8 DEF base_put
    <2>5. FreshHandles' /\ OnlyRecorded'
        BY SMTT(20), <2>4 DEF FreshHandles, OnlyRecorded
    <2>6. WroteTheRest'
        <3> SUFFICES ASSUME NEW g \in Handles, pc'[g] = "commit", alone'[g],
                            NEW j \in Touched(ops'[g]) \ todo'[g]
                     PROVE  values'[home(g)][j] = ops'[g][j]
            BY Zenon DEF WroteTheRest, Touched, home
        <3>1. alone[g] /\ values'[home(g)] = values[home(g)]
            BY Zenon, <2>2
        <3>2. pc[g] = "commit" /\ j \in Touched(ops[g]) \ todo[g]
            BY Zenon, <2>4
        <3>3. values[home(g)][j] = ops[g][j]
            BY Zenon, <3>1, <3>2 DEF WroteTheRest
        <3> QED
            BY Zenon, <2>4, <3>1, <3>3
    <2>7. KeepsWhatItWrote'
        BY ZenonT(40), <2>2, <2>4 DEF KeepsWhatItWrote, Touched, home
    <2>8. QED
        BY ZenonT(40), <2>3, <2>5, <2>6, <2>7
<1>9. CASE UNCHANGED vars
    BY <1>9 DEF vars, historyVars, Inv, TypeOK, HistoryOK, KeepsWhatItWrote,
                WroteTheRest, OnlyRecorded, FreshHandles, home
<1>10. ASSUME NEW h \in Handles, commit_ok(h) PROVE Inv'
    BY ZenonT(40), <1>7, <1>10 DEF commit_ok
<1>11. ASSUME NEW h \in Txns, discard(h) PROVE Inv'
    <2>1. h \in Handles
        BY DEF Handles
    <2>2. todo[h] = {} /\ pc' = [pc EXCEPT ![h] = "idle"]
        BY <1>11, <2>1 DEF discard, Inv, TypeOK, OnlyRecorded
    <2>3. QED
        BY ZenonT(40), <1>7, <1>11, <2>1, <2>2 DEF discard
<1>12. ASSUME NEW h \in Handles, NEW k \in Keys,
              delete(h, k) \/ \E v \in Values : put(h, k, v)
       PROVE  Inv'
    BY <1>3, <1>12 DEF delete, put, Stored
<1>13. QED
    BY SMTT(20), <1>1, <1>2, <1>4, <1>5, <1>6, <1>8, <1>9, <1>10, <1>11, <1>12 DEF Next

\* The invariant holds in every reachable state.
LEMMA InvCorrect == Spec => []Inv
BY InitInv, NextInv, PTL DEF Spec

\* Stores, records and commits are always well typed; in particular no commit writes
\* an operation that is not recorded.
THEOREM TypeCorrect == Spec => []TypeOK
<1>1. Inv => TypeOK
    BY DEF Inv
<1>2. QED
    BY <1>1, InvCorrect, PTL

\* A commit that failed half way forgets nothing it has written.
THEOREM KeepsCorrect == Spec => []KeepsWhatItWrote
<1>1. Inv => KeepsWhatItWrote
    BY DEF Inv
<1>2. QED
    BY <1>1, InvCorrect, PTL

\* However often commit() failed before, an undisturbed commit() that succeeds leaves
\* the store as it was with all recorded operations applied.
THEOREM RetryCorrect == Spec => RetryCompletes
<1>1. ASSUME Inv, NEW h \in Handles, commit_ok(h), alone[h]
      PROVE  values[home(h)] = Overlay(before[h], ops[h])
    <2> DEFINE s == values[home(h)]
               t == Overlay(before[h], ops[h])
    <2>1. s \in [Keys -> Stored]
        BY SMTT(20), <1>1, HomeFact DEF Inv, TypeOK
    <2>2. t = [k \in Keys |-> IF ops[h][k] = Untouched THEN before[h][k] ELSE ops[h][k]]
        BY SMTT(20) DEF Overlay
    <2>3. ASSUME NEW k \in Keys, k \in Touched(ops[h]) PROVE s[k] = ops[h][k]
        BY SMTT(20), <1>1, <2>3 DEF commit_ok, Inv, WroteTheRest
    <2>4. ASSUME NEW k \in Keys, k \notin Touched(ops[h]) PROVE s[k] = before[h][k]
        BY SMTT(20), <1>1, <2>4 DEF commit_ok, Inv, KeepsWhatItWrote
    <2>5. \A k \in Keys : s[k] = t[k]
        BY SMTT(20), <2>2, <2>3, <2>4 DEF Touched
    <2>6. s = [k \in Keys |-> s[k]] /\ t = [k \in Keys |-> t[k]]
        BY SMTT(20), <2>1, <2>2
    <2>7. QED
        BY <2>5, <2>6, Zenon
<1>2. Inv /\ [Next]_vars =>
        [\A h \in Handles : commit_ok(h) /\ alone[h] =>
            values[home(h)] = Overlay(before[h], ops[h])]_vars
    BY <1>1
<1>3. QED
    BY <1>2, InvCorrect, PTL DEF Spec, RetryCompletes

-----------------------------------------------------------------------------
\* RPCCodec


Piece == Frames \X (1 .. Pieces)

\* From place o on, the sequence continues the frame h, as far as h goes.
Continues(s, o, h) == \A i \in DOMAIN s : i + o <= Pieces => s[i] = <<h, i + o>>

CodecTyped ==
    /\ carries \in {"request", "responses"} /\ ended \in BOOLEAN
    /\ sent \in Seq(Frames) /\ got \in Seq(Frames \cup Codec!Failures)
    /\ dst \in Seq(Piece) /\ pipe \in Seq(Piece) /\ src \in Seq(Piece)

\* What was given to the writer and not dropped by the reader: it begins with the whole of
\* the first frame, however it is spread over the two buffers and the transport; a request
\* is all there is.
Total == Len(src) + Len(pipe) + Len(dst)
OnTheWay ==
    /\ sent = <<>> => Total = 0
    /\ sent # <<>> => /\ Total >= Pieces
                      /\ Continues(src, 0, sent[1])
                      /\ Continues(pipe, Len(src), sent[1])
                      /\ Continues(dst, Len(src) + Len(pipe), sent[1])
    /\ carries = "request" => Total <= Pieces /\ Len(sent) <= 1

\* The buffer keeps the first frame, so that it is all the reader ever gives.
OnlyTheFirst == \A i \in DOMAIN got :
    got[i] \in Codec!Failures \/ (sent # <<>> /\ got[i] = sent[1])

CodecInv == CodecTyped /\ OnTheWay /\ OnlyTheFirst /\ Codec!RequestIsWhole

\* Moving the first n pieces from one sequence to the end of the one before it.
LEMMA Moves ==
    ASSUME NEW s \in Seq(Piece), NEW t \in Seq(Piece), NEW n \in 0 .. Len(t)
    PROVE  /\ s \o SubSeq(t, 1, n) \in Seq(Piece) /\ SubSeq(t, n + 1, Len(t)) \in Seq(Piece)
           /\ Len(s \o SubSeq(t, 1, n)) = Len(s) + n /\ Len(SubSeq(t, n + 1, Len(t))) = Len(t) - n
           /\ \A h : \A o \in Nat : Continues(s, o, h) /\ Continues(t, o + Len(s), h) =>
                  /\ Continues(s \o SubSeq(t, 1, n), o, h)
                  /\ Continues(SubSeq(t, n + 1, Len(t)), o + Len(s) + n, h)
<1> DEFINE a == SubSeq(t, 1, n)
           b == SubSeq(t, n + 1, Len(t))
<1>1. /\ a \in Seq(Piece) /\ Len(a) = n /\ \A i \in 1 .. n : a[i] = t[i]
      /\ b \in Seq(Piece) /\ Len(b) = Len(t) - n /\ \A i \in 1 .. Len(t) - n : b[i] = t[i + n]
  BY Zenon, Taken, Left
<1> HIDE DEF a, b
<1>2. /\ s \o a \in Seq(Piece) /\ Len(s \o a) = Len(s) + n
      /\ \A i \in 1 .. Len(s) : (s \o a)[i] = s[i]
      /\ \A i \in Len(s) + 1 .. Len(s) + n : (s \o a)[i] = a[i - Len(s)]
  <2>1. /\ s \o a \in Seq(Piece) /\ Len(s \o a) = Len(s) + Len(a)
        /\ \A i \in 1 .. Len(s) : (s \o a)[i] = s[i]
        /\ \A i \in Len(s) + 1 .. Len(s) + Len(a) : (s \o a)[i] = a[i - Len(s)]
    <3>1. s \in Seq(Piece) /\ a \in Seq(Piece)
      BY Zenon, <1>1
    <3> QED
      BY ONLY Zenon, <3>1, Joined
  <2> QED
    BY ONLY Zenon, <1>1, <2>1
<1>3. ASSUME NEW h, NEW o \in Nat, Continues(s, o, h), Continues(t, o + Len(s), h)
      PROVE  Continues(s \o a, o, h) /\ Continues(b, o + Len(s) + n, h)
  <2>1. ASSUME NEW i \in 1 .. Len(s) + n, i + o <= Pieces PROVE (s \o a)[i] = <<h, i + o>>
    <3>1. CASE i <= Len(s)
      BY <1>2, <1>3, <2>1, <3>1 DEF Continues
    <3>2. CASE i > Len(s)
      <4>1. i - Len(s) \in 1 .. n /\ i - Len(s) \in 1 .. Len(t) /\ (i - Len(s)) + (o + Len(s)) = i + o
        BY SMTT(20), <2>1, <3>2
      <4>2. (s \o a)[i] = t[i - Len(s)]
        BY SMTT(20), <1>1, <1>2, <3>2, <4>1
      <4>3. \A j \in 1 .. Len(t) : j + (o + Len(s)) <= Pieces => t[j] = <<h, j + (o + Len(s))>>
        BY <1>3 DEF Continues
      <4> QED
        BY Zenon, <2>1, <4>1, <4>2, <4>3
    <3>3. i <= Len(s) \/ i > Len(s)
      OBVIOUS
    <3> QED
      BY Zenon, <3>1, <3>2, <3>3
  <2>2. ASSUME NEW i \in 1 .. Len(t) - n, i + (o + Len(s) + n) <= Pieces
        PROVE  b[i] = <<h, i + (o + Len(s) + n)>>
    <3>1. i + n \in 1 .. Len(t) /\ (i + n) + (o + Len(s)) = i + (o + Len(s) + n)
      BY <2>2
    <3>2. \A j \in 1 .. Len(t) : j + (o + Len(s)) <= Pieces => t[j] = <<h, j + (o + Len(s))>>
      BY SMTT(20), <1>3 DEF Continues
    <3> QED
      BY Zenon, <1>1, <2>2, <3>1, <3>2
  <2>3. DOMAIN (s \o a) = 1 .. Len(s) + n /\ DOMAIN b = 1 .. Len(t) - n
    BY SMTT(20), <1>1, <1>2
  <2> QED
    BY Zenon, <2>1, <2>2, <2>3 DEF Continues
<1> QED
  BY ZenonT(40), <1>1, <1>2, <1>3 DEF a, b

\* to_vec makes all pieces of a frame.
LEMMA Encoded ==
    ASSUME Pieces \in Nat \ {0}, NEW f \in Frames
    PROVE  /\ Codec!to_vec(f) \in Seq(Piece) /\ Len(Codec!to_vec(f)) = Pieces
           /\ Continues(Codec!to_vec(f), 0, f) /\ Codec!to_vec(f)[1] = <<f, 1>>
BY DEF Codec!to_vec, Piece, Continues

\* A buffer that decodes holds the first frame that was sent and nothing else.
LEMMA Decoded ==
    ASSUME Pieces \in Nat \ {0}, CodecTyped, OnTheWay
    PROVE  \/ Codec!decode(src) = "CborDecodeError"
           \/ Codec!decode(src) \in Frames /\ sent # <<>> /\ Codec!decode(src) = sent[1] /\ Len(src) = Pieces
<1>1. ASSUME NEW f \in Frames, src = Codec!to_vec(f) PROVE sent # <<>> /\ f = sent[1] /\ Len(src) = Pieces
  <2>1. Len(src) = Pieces /\ src[1] = <<f, 1>>
    BY Zenon, <1>1, Encoded
  <2>2. Len(pipe) \in Nat /\ Len(dst) \in Nat
    BY DEF CodecTyped
  <2>3. sent # <<>>
    BY SMTT(20), <2>1, <2>2 DEF OnTheWay, Total
  <2>4. 1 \in DOMAIN src /\ 1 + 0 <= Pieces /\ 1 + 0 = 1
    BY <2>1 DEF CodecTyped
  <2>5. src[1] = <<sent[1], 1>>
    BY Zenon, <2>3, <2>4 DEF OnTheWay, Continues
  <2> QED
    BY <2>1, <2>3, <2>5
<1>2. CASE \E f \in Frames : src = Codec!to_vec(f)
  <2>1. Codec!decode(src) \in Frames /\ src = Codec!to_vec(Codec!decode(src))
    BY Zenon, <1>2 DEF Codec!decode
  <2> QED
    BY Zenon, <1>1, <2>1
<1>3. CASE ~ \E f \in Frames : src = Codec!to_vec(f)
  BY Zenon, <1>3 DEF Codec!decode
<1> QED
  BY Zenon, <1>2, <1>3

\* Nothing is on its way at first.
LEMMA CodecInit == ASSUME Pieces \in Nat \ {0} PROVE Codec!Init => CodecInv
<1> SUFFICES ASSUME Codec!Init PROVE CodecInv
  OBVIOUS
<1> USE DEF Codec!Init
<1>1. CodecTyped
  <2>1. \A S : <<>> \in Seq(S)
    OBVIOUS
  <2> QED
    BY Zenon, <2>1 DEF CodecTyped
<1>2. Len(src) = 0 /\ Len(pipe) = 0 /\ Len(dst) = 0 /\ Len(sent) = 0 /\ Len(got) = 0 /\ DOMAIN got = {}
  OBVIOUS
<1>3. Total = 0
  BY <1>2 DEF Total
<1>4. OnTheWay
  BY <1>2, <1>3 DEF OnTheWay
<1>5. OnlyTheFirst /\ Codec!RequestIsWhole
  BY <1>2 DEF OnlyTheFirst, Codec!RequestIsWhole
<1> QED
  BY <1>1, <1>4, <1>5 DEF CodecInv

\* Moving pieces to the end of the buffer before theirs changes nothing of this.
LEMMA CodecStep ==
    ASSUME Pieces \in Nat \ {0}
    PROVE  CodecInv /\ [Codec!Next]_(Codec!vars) => CodecInv'
<1> SUFFICES ASSUME CodecInv, [Codec!Next]_(Codec!vars) PROVE CodecInv'
  OBVIOUS
<1>t. CodecTyped /\ OnTheWay /\ OnlyTheFirst /\ Codec!RequestIsWhole
  BY DEF CodecInv
<1>l. /\ Len(src) \in Nat /\ Len(pipe) \in Nat /\ Len(dst) \in Nat /\ Len(sent) \in Nat /\ Len(got) \in Nat
      /\ (dst = <<>> <=> Len(dst) = 0) /\ (pipe = <<>> <=> Len(pipe) = 0) /\ (sent = <<>> <=> Len(sent) = 0)
  BY <1>t DEF CodecTyped
<1>n. DOMAIN got = 1 .. Len(got) /\ (got # <<>> => 1 \in DOMAIN got)
  BY <1>t DEF CodecTyped
<1>1. ASSUME NEW f \in Frames, Codec!start_send(f) PROVE CodecInv'
  <2>1. /\ dst = <<>> /\ sent' = Append(sent, f) /\ dst' = Codec!to_vec(f)
        /\ carries = "request" => Len(sent) < 1
        /\ UNCHANGED <<carries, pipe, closed, src, readable, eof, got, ended>>
    BY Zenon, <1>1 DEF Codec!start_send, Codec!MaySend, Codec!encode_to
  <2>2. /\ Codec!to_vec(f) \in Seq(Piece) /\ Len(Codec!to_vec(f)) = Pieces
        /\ Continues(Codec!to_vec(f), 0, f)
    BY Zenon, Encoded
  <2>3. /\ Append(sent, f) \in Seq(Frames) /\ Append(sent, f) # <<>> /\ Len(Append(sent, f)) = Len(sent) + 1
        /\ sent = <<>> => Append(sent, f)[1] = f
        /\ sent # <<>> => Append(sent, f)[1] = sent[1]
    <3>1. sent \in Seq(Frames)
      BY <1>t DEF CodecTyped
    <3> QED
      BY ONLY <3>1, f \in Frames
  <2>4. CodecTyped'
    BY ZenonT(40), <1>t, <2>1, <2>2, <2>3 DEF CodecTyped
  <2>5. /\ Total' = Total + Pieces /\ Total' >= Pieces /\ Total \in Nat
        /\ Len(src) + Len(pipe) = Total
    BY <1>l, <2>1, <2>2 DEF Total
  <2>6. CASE sent = <<>>
    <3>1. Total = 0
      BY Zenon, <1>t, <2>6 DEF OnTheWay
    <3>2. Len(src) = 0 /\ Len(pipe) = 0 /\ Len(src) + Len(pipe) = 0 /\ Len(sent) + 1 = 1 /\ Total' <= Pieces
      BY <1>l, <2>5, <2>6, <3>1
    <3>3. DOMAIN src = {} /\ DOMAIN pipe = {}
      BY <1>t, <3>2 DEF CodecTyped
    <3>4. Continues(src, 0, f) /\ Continues(pipe, Len(src), f) /\ Continues(dst', Len(src) + Len(pipe), f)
      BY Zenon, <2>1, <2>2, <3>2, <3>3 DEF Continues
    <3>5. Len(Append(sent, f)) <= 1
      BY <2>3, <3>2
    <3>6. OnTheWay'
      BY Zenon, <2>1, <2>3, <2>5, <2>6, <3>2, <3>4, <3>5 DEF OnTheWay
    <3>7. \A i \in DOMAIN got : got[i] \in Codec!Failures
      BY Zenon, <1>t, <2>6 DEF OnlyTheFirst
    <3>8. OnlyTheFirst'
      BY Zenon, <2>1, <3>7 DEF OnlyTheFirst, Codec!Failures
    <3>9. got # <<>> => got[1] \in Codec!Failures
      BY <1>n, <3>7
    <3>10. Codec!RequestIsWhole'
      BY ZenonT(40), <1>t, <2>1, <3>9 DEF Codec!RequestIsWhole, Codec!Failures
    <3> QED
      BY Zenon, <2>4, <3>6, <3>8, <3>10 DEF CodecInv
  <2>7. CASE sent # <<>>
    <3>1. Total >= Pieces /\ Continues(src, 0, sent[1]) /\ Continues(pipe, Len(src), sent[1])
      BY Zenon, <1>t, <2>7 DEF OnTheWay
    <3>2. Continues(dst', Len(src) + Len(pipe), sent[1])
      <4>1. \A i \in 1 .. Pieces : ~(i + (Len(src) + Len(pipe)) <= Pieces)
        BY <1>l, <2>5, <3>1
      <4>2. DOMAIN dst' = 1 .. Pieces
        BY <2>1, <2>2
      <4> QED
        BY Zenon, <4>1, <4>2 DEF Continues
    <3>3. carries # "request"
      BY <1>l, <2>1, <2>7
    <3>4. OnTheWay'
      BY Zenon, <2>1, <2>3, <2>5, <2>7, <3>1, <3>2, <3>3 DEF OnTheWay
    <3>5. OnlyTheFirst'
      BY Zenon, <1>t, <2>1, <2>3, <2>7 DEF OnlyTheFirst, Codec!Failures
    <3>6. Codec!RequestIsWhole'
      BY Zenon, <2>1, <3>3 DEF Codec!RequestIsWhole
    <3> QED
      BY Zenon, <2>4, <3>4, <3>5, <3>6 DEF CodecInv
  <2> QED
    BY Zenon, <2>6, <2>7
<1>2. ASSUME NEW n \in 1 .. Pieces, Codec!poll_complete(n) PROVE CodecInv'
  <2>1. /\ n \in 1 .. Len(dst) /\ pipe' = pipe \o SubSeq(dst, 1, n) /\ dst' = SubSeq(dst, n + 1, Len(dst))
        /\ UNCHANGED <<carries, sent, closed, src, readable, eof, got, ended>>
    BY Zenon, <1>2 DEF Codec!poll_complete
  <2>2. /\ pipe' \in Seq(Piece) /\ dst' \in Seq(Piece) /\ Len(pipe') = Len(pipe) + n /\ Len(dst') = Len(dst) - n
        /\ \A h : \A o \in Nat : Continues(pipe, o, h) /\ Continues(dst, o + Len(pipe), h) =>
                  Continues(pipe', o, h) /\ Continues(dst', o + Len(pipe) + n, h)
    <3>1. n \in 0 .. Len(dst) /\ pipe \in Seq(Piece) /\ dst \in Seq(Piece)
      BY <1>t, <1>l, <2>1 DEF CodecTyped
    <3> QED
      BY ONLY ZenonT(40), <2>1, <3>1, Moves
  <2>3. CodecTyped'
    BY Zenon, <1>t, <2>1, <2>2 DEF CodecTyped
  <2>4. Total' = Total /\ Len(src) + Len(pipe) + n = Len(src) + Len(pipe') /\ Len(dst) # 0
    <3>1. Len(src') = Len(src) /\ Len(pipe') = Len(pipe) + n /\ Len(dst') = Len(dst) - n /\ n \in 1 .. Len(dst)
      BY Zenon, <2>1, <2>2
    <3> QED
      BY ONLY <1>l, <3>1 DEF Total
  <2>5. OnTheWay'
    BY Zenon, <1>t, <1>l, <2>1, <2>2, <2>4 DEF OnTheWay
  <2>6. OnlyTheFirst' /\ Codec!RequestIsWhole'
    BY Zenon, <1>t, <1>l, <2>1, <2>4 DEF OnlyTheFirst, Codec!RequestIsWhole, Codec!Failures
  <2> QED
    BY Zenon, <2>3, <2>5, <2>6 DEF CodecInv
<1>3. CASE Codec!close
  BY Zenon, <1>t, <1>3 DEF Codec!close, CodecInv, CodecTyped, OnTheWay, Total, Continues, Piece,
                           OnlyTheFirst, Codec!RequestIsWhole, Codec!Failures
<1>4. ASSUME NEW n \in 0 .. Pieces * MaxSent, Codec!read(n) PROVE CodecInv'
  <2>1. /\ ~ended /\ src' = src \o SubSeq(pipe, 1, n) /\ pipe' = SubSeq(pipe, n + 1, Len(pipe))
        /\ IF n = 0 THEN pipe = <<>> ELSE n <= Len(pipe)
        /\ UNCHANGED <<carries, sent, dst, closed, got, ended>>
    BY Zenon, <1>4 DEF Codec!read
  <2>n. n \in 0 .. Len(pipe)
    BY <1>l, <2>1
  <2>2. /\ src' \in Seq(Piece) /\ pipe' \in Seq(Piece) /\ Len(src') = Len(src) + n /\ Len(pipe') = Len(pipe) - n
        /\ \A h : Continues(src, 0, h) /\ Continues(pipe, Len(src), h) =>
                  Continues(src', 0, h) /\ Continues(pipe', Len(src) + n, h)
    <3>1. n \in 0 .. Len(pipe) /\ src \in Seq(Piece) /\ pipe \in Seq(Piece)
      BY Zenon, <1>t, <2>n DEF CodecTyped
    <3>2. 0 \in Nat /\ 0 + Len(src) = Len(src)
      BY <1>l
    <3>3. /\ src' \in Seq(Piece) /\ pipe' \in Seq(Piece) /\ Len(src') = Len(src) + n /\ Len(pipe') = Len(pipe) - n
          /\ \A h : \A o \in Nat : Continues(src, o, h) /\ Continues(pipe, o + Len(src), h) =>
                    Continues(src', o, h) /\ Continues(pipe', o + Len(src) + n, h)
      BY ONLY Zenon, <2>1, <3>1, Moves
    <3> QED
      BY ONLY Zenon, <3>2, <3>3
  <2>3. CodecTyped'
    BY Zenon, <1>t, <2>1, <2>2 DEF CodecTyped
  <2>4. Total' = Total /\ Len(src') + Len(pipe') = Len(src) + Len(pipe)
    <3>1. Len(dst') = Len(dst) /\ Len(src') = Len(src) + n /\ Len(pipe') = Len(pipe) - n /\ n \in 0 .. Len(pipe)
      BY Zenon, <2>1, <2>2, <2>n
    <3> QED
      BY ONLY <1>l, <3>1 DEF Total
  <2>5. OnTheWay'
    BY Zenon, <1>t, <1>l, <2>1, <2>2, <2>4 DEF OnTheWay
  <2>6. OnlyTheFirst' /\ Codec!RequestIsWhole'
    BY Zenon, <1>t, <1>l, <2>1 DEF OnlyTheFirst, Codec!RequestIsWhole, Codec!Failures
  <2> QED
    BY Zenon, <2>3, <2>5, <2>6 DEF CodecInv
<1>5. ASSUME ~ended, NEW item \in Frames \cup Codec!Failures, got' = Append(got, item),
             ended' \in BOOLEAN, carries = "request" => ended',
             item \in Codec!Failures \/ (sent # <<>> /\ item = sent[1] /\ Len(src) = Pieces),
             UNCHANGED <<carries, sent, dst, pipe, closed, src, readable, eof>>
      PROVE  CodecInv'
  <2>1. /\ Append(got, item) \in Seq(Frames \cup Codec!Failures) /\ DOMAIN Append(got, item) = 1 .. Len(got) + 1
        /\ Len(Append(got, item)) = Len(got) + 1 /\ Append(got, item) # <<>>
        /\ \A i \in 1 .. Len(got) : Append(got, item)[i] = got[i]
        /\ Append(got, item)[Len(got) + 1] = item
    <3>1. got \in Seq(Frames \cup Codec!Failures)
      BY Zenon, <1>t DEF CodecTyped
    <3> QED
      BY ONLY <3>1, item \in Frames \cup Codec!Failures
  <2>2. CodecTyped'
    BY Zenon, <1>t, <1>5, <2>1 DEF CodecTyped, Codec!Failures
  <2>3. OnTheWay'
    BY Zenon, <1>t, <1>5 DEF OnTheWay, Total, Continues
  <2>4. OnlyTheFirst'
    <3>1. \A i \in 1 .. Len(got) + 1 : i \in 1 .. Len(got) \/ i = Len(got) + 1
      BY <1>l
    <3>2. \A i \in 1 .. Len(got) : got[i] \in Codec!Failures \/ (sent # <<>> /\ got[i] = sent[1])
      BY Zenon, <1>t, <1>n DEF OnlyTheFirst
    <3>3. \A i \in DOMAIN got' : got'[i] \in Codec!Failures \/ (sent # <<>> /\ got'[i] = sent[1])
      BY ZenonT(40), <1>5, <2>1, <3>1, <3>2
    <3> QED
      BY Zenon, <1>5, <3>3 DEF OnlyTheFirst, Codec!Failures
  <2>5. ASSUME carries = "request"
        PROVE  Len(got') <= 1 /\ ended' /\ got' # <<>> /\ (got'[1] \notin Codec!Failures => dst = <<>> /\ pipe = <<>>)
    <3>1. got = <<>>
      BY Zenon, <1>t, <1>5, <2>5 DEF Codec!RequestIsWhole
    <3>2. Len(got) = 0 /\ Len(got) + 1 = 1
      BY <3>1
    <3>3. got'[1] = item /\ Len(got') = 1 /\ got' # <<>>
      BY Zenon, <1>5, <2>1, <3>2
    <3>4. Total <= Pieces
      BY Zenon, <1>t, <2>5 DEF OnTheWay
    <3>5. Len(src) = Pieces => Len(dst) = 0 /\ Len(pipe) = 0
      BY <1>l, <3>4 DEF Total
    <3> QED
      BY SMTT(20), <1>5, <1>l, <2>5, <3>3, <3>5
  <2>6. Codec!RequestIsWhole'
    BY Zenon, <1>5, <2>5 DEF Codec!RequestIsWhole, Codec!Failures
  <2> QED
    BY ZenonT(40), <2>2, <2>3, <2>4, <2>6 DEF CodecInv
<1>6. CASE Codec!poll
  <2> DEFINE frame == Codec!decode(src)
             item == IF frame = "CborDecodeError" /\ carries = "request"
                     THEN Codec!from_timeout(frame) ELSE frame
  <2>1. /\ ~ended /\ got' = Append(got, item)
        /\ ended' = (frame = "CborDecodeError" \/ carries = "request")
        /\ UNCHANGED <<carries, sent, dst, pipe, closed, src, readable, eof>>
    BY Zenon, <1>6 DEF Codec!poll
  <2>2. \/ frame = "CborDecodeError"
        \/ frame \in Frames /\ sent # <<>> /\ frame = sent[1] /\ Len(src) = Pieces
    BY Zenon, <1>t, Decoded
  <2>3. item \in Codec!Failures \/ (item = frame /\ frame # "CborDecodeError")
    <3>1. Codec!from_timeout(frame) \in Codec!Failures /\ "CborDecodeError" \in Codec!Failures
      BY Zenon DEF Codec!from_timeout, Codec!Failures
    <3>2. CASE frame = "CborDecodeError"
      BY ONLY <3>1, <3>2 DEF item, frame
    <3>3. CASE frame # "CborDecodeError"
      BY ONLY <3>3 DEF item, frame
    <3> QED
      BY Zenon, <3>2, <3>3
  <2> HIDE DEF item, frame
  <2>4. /\ item \in Frames \cup Codec!Failures /\ ended' \in BOOLEAN /\ (carries = "request" => ended')
        /\ item \in Codec!Failures \/ (sent # <<>> /\ item = sent[1] /\ Len(src) = Pieces)
    <3>1. ended' = (frame = "CborDecodeError" \/ carries = "request")
      BY Zenon, <2>1
    <3>2. ended' \in BOOLEAN /\ (carries = "request" => ended')
      BY ONLY Zenon, <3>1
    <3>3. item \in Codec!Failures \/ (item \in Frames /\ sent # <<>> /\ item = sent[1] /\ Len(src) = Pieces)
      BY ONLY Zenon, <2>2, <2>3
    <3> QED
      BY ONLY Zenon, <3>2, <3>3
  <2> QED
    BY ONLY Zenon, <1>5, <2>1, <2>4
<1>7. ASSUME NEW err \in {"elapsed", "IoError"}, Codec!timeout(err) PROVE CodecInv'
  <2> DEFINE item == Codec!from_timeout(err)
  <2>1. /\ ~ended /\ got' = Append(got, item)
        /\ UNCHANGED <<carries, sent, dst, pipe, closed, src, readable, eof>>
    BY Zenon, <1>7 DEF Codec!timeout
  <2>2. item \in Codec!Failures
    BY DEF Codec!from_timeout, Codec!Failures
  <2> HIDE DEF item
  <2>3. item \in Frames \cup Codec!Failures /\ ended' \in BOOLEAN /\ (carries = "request" => ended')
    BY Zenon, <1>7, <2>2 DEF Codec!timeout
  <2> QED
    BY ONLY Zenon, <1>5, <2>1, <2>2, <2>3
<1>8. CASE UNCHANGED Codec!vars
  BY Zenon, <1>t, <1>8 DEF Codec!vars, CodecInv, CodecTyped, OnTheWay, Total, Continues, Piece,
                           OnlyTheFirst, Codec!RequestIsWhole, Codec!Failures
<1> QED
  BY Zenon, <1>1, <1>2, <1>3, <1>4, <1>6, <1>7, <1>8 DEF Codec!Next

\* With the invariant, frames are what was sent.
LEMMA CodecInvSent == CodecInv => Codec!OnlyWhatWasSent /\ Codec!RequestIsWhole
<1> SUFFICES ASSUME CodecInv PROVE Codec!OnlyWhatWasSent
  BY Zenon DEF CodecInv
<1>1. sent # <<>> => 1 \in DOMAIN sent
  BY DEF CodecInv, CodecTyped
<1>2. got # <<>> => 1 \in DOMAIN got
  BY DEF CodecInv, CodecTyped
<1> QED
  BY Zenon, <1>1, <1>2 DEF CodecInv, OnlyTheFirst, Codec!OnlyWhatWasSent

\* However the transport cuts and joins the pieces, and whenever the timers of the upgrade
\* fire, everything a reader gives is a frame that was sent or a failure, the first frame
\* comes first, and an inbound upgrade ends once, with the whole request or a failure.
THEOREM FramesAreWhole == Codec!Spec => [](Codec!OnlyWhatWasSent /\ Codec!RequestIsWhole)
BY CodecInvSent, CodecInit, CodecStep, SizesAssumption, PTL DEF Codec!Spec

-----------------------------------------------------------------------------
\* Wallet


\* What Wallet assumes of its constants.
WalletConstants ==
    /\ NoAddr \notin Addrs
    /\ {} \in Given /\ Given \subseteq SUBSET Addrs
    /\ KeyStoreMayFail \in BOOLEAN

\* It holds.
LEMMA WalletFact == WalletConstants
BY WalletAssumption DEF WalletConstants

\* DefaultBacked is inductive only together with: a key in memory is in the key
\* store or was handed to new_with_keys.
KeysBacked == keys \subseteq keystore \cup supplied

WalletInv == Wal!TypeOK /\ Wal!PromisedStored /\ KeysBacked /\ Wal!DefaultBacked /\ Wal!DefaultIsChosen

\* The invariant holds for the first process, whatever keys it starts with.
LEMMA WalletInit == ASSUME WalletConstants PROVE Wal!Init => WalletInv
BY Zenon DEF WalletConstants, Wal!Init, WalletInv, Wal!TypeOK, Wal!PromisedStored, KeysBacked, Wal!DefaultBacked,
                        Wal!DefaultIsChosen, Wal!list_addrs

\* Every operation, with each of its failures, and a restart preserve it.
LEMMA WalletNext == ASSUME WalletConstants PROVE WalletInv /\ [Wal!Next]_(Wal!vars) => WalletInv'
<1> SUFFICES ASSUME WalletInv, [Wal!Next]_(Wal!vars) PROVE WalletInv'
    OBVIOUS
<1> USE DEF WalletConstants, WalletInv
<1>1. CASE Wal!restart
    BY Zenon, <1>1 DEF Wal!restart, Wal!TypeOK, Wal!PromisedStored, KeysBacked, Wal!DefaultBacked,
                Wal!DefaultIsChosen, Wal!list_addrs
<1>2. ASSUME NEW a \in Addrs, Wal!import(a) PROVE WalletInv'
    BY Zenon, <1>2 DEF Wal!import, Wal!TypeOK, Wal!PromisedStored, KeysBacked, Wal!DefaultBacked,
                Wal!DefaultIsChosen, Wal!list_addrs
<1>3. ASSUME NEW a \in Addrs, Wal!set_default(a) PROVE WalletInv'
    BY ZenonT(40), <1>3 DEF Wal!set_default, Wal!CanSetDefault, Wal!TypeOK, Wal!PromisedStored, KeysBacked,
                Wal!DefaultBacked, Wal!DefaultIsChosen, Wal!list_addrs
<1>4. ASSUME NEW a \in Addrs, Wal!generate_key(a) PROVE WalletInv'
    BY Zenon, <1>4 DEF Wal!generate_key, Wal!becomes_default, Wal!TypeOK, Wal!PromisedStored, KeysBacked,
                Wal!DefaultBacked, Wal!DefaultIsChosen, Wal!list_addrs
<1>5. CASE UNCHANGED Wal!vars
    BY <1>5 DEF Wal!vars, Wal!historyVars, Wal!TypeOK, Wal!PromisedStored, KeysBacked, Wal!DefaultBacked,
                Wal!DefaultIsChosen, Wal!list_addrs
<1>6. QED
    BY Zenon, <1>1, <1>2, <1>3, <1>4, <1>5 DEF Wal!Next

\* The invariant holds in every reachable state.
LEMMA WalletInvariance == ASSUME WalletConstants PROVE Wal!Spec => []WalletInv
BY WalletInit, WalletNext, PTL DEF Wal!Spec

\* The memory, the key store and the default are always well typed.
THEOREM WalletTypeCorrect == Wal!Spec => []Wal!TypeOK
<1>1. WalletInv => Wal!TypeOK
    BY DEF WalletInv
<1>2. QED
    BY <1>1, WalletInvariance, WalletFact, PTL

\* An address that import or generate_key returned stays in the key store.
THEOREM PromisedCorrect == Wal!Spec => []Wal!PromisedStored
<1>1. WalletInv => Wal!PromisedStored
    BY DEF WalletInv
<1>2. QED
    BY <1>1, WalletInvariance, WalletFact, PTL

\* The default key is listed in the key store or was handed to new_with_keys.
THEOREM DefaultBackedCorrect == Wal!Spec => []Wal!DefaultBacked
<1>1. WalletInv => Wal!DefaultBacked
    BY DEF WalletInv
<1>2. QED
    BY <1>1, WalletInvariance, WalletFact, PTL

\* The default is the one chosen last, or none after a set_default that failed.
THEOREM DefaultChosenCorrect == Wal!Spec => []Wal!DefaultIsChosen
<1>1. WalletInv => Wal!DefaultIsChosen
    BY DEF WalletInv
<1>2. QED
    BY <1>1, WalletInvariance, WalletFact, PTL

\* The default kept by set_default and generate_key is well typed, backed by a key and
\* the one that was chosen, whenever the key store fails and the process restarts.
THEOREM DefaultKeptCorrect == Wal!Spec => []Wal!DefaultKept
BY WalletTypeCorrect, DefaultBackedCorrect, DefaultChosenCorrect, PTL DEF Wal!DefaultKept

-----------------------------------------------------------------------------
\* NetworkParams


Calls == [at : {"idle", "call_once", "init", "after", "panicked"}, network : Param!Networks, read : BOOLEAN]

ParamsTyped ==
    /\ PARAMS \in Param!Networks \cup {"zeros"}
    /\ INIT \in {"incomplete", "running", "complete", "poisoned"}
    /\ doing \in [Threads -> Calls]
    /\ given \in [Threads -> SUBSET (Param!Networks \cup {"zeros"})]

\* One thread at most runs the closure, only while the Once says so; nobody is past
\* call_once, or has been given anything, before the closure has ended well.
OneInitialises ==
    /\ \A t, u \in Threads : doing[t].at = "init" /\ doing[u].at = "init" => t = u
    /\ \A t \in Threads : doing[t].at = "init" => INIT = "running"
    /\ \A t \in Threads : doing[t].at = "after" \/ given[t] # {} => INIT = "complete"

\* From then on the static is not the zeros, and it is all that has been given.
GivenIsStatic ==
    /\ INIT = "complete" => PARAMS # "zeros"
    /\ \A t \in Threads : given[t] \subseteq {PARAMS}

ParamsInv == ParamsTyped /\ OneInitialises /\ GivenIsStatic

\* Before any thread calls, the static is not set and nothing was given.
LEMMA ParamsInit == Param!Init => ParamsInv
<1> SUFFICES ASSUME Param!Init PROVE ParamsInv
  OBVIOUS
<1> USE DEF Param!Init, Param!Idle
<1>1. ParamsTyped
  BY Zenon DEF ParamsTyped, Calls, Param!Networks
<1>2. \A t \in Threads : doing[t].at = "idle" /\ given[t] = {}
  BY Zenon
<1>3. OneInitialises /\ GivenIsStatic
  BY Zenon, <1>2 DEF OneInitialises, GivenIsStatic
<1> QED
  BY Zenon, <1>1, <1>3 DEF ParamsInv

\* call_once runs one initialiser and the readers see what it wrote.
LEMMA ParamsStep == ParamsInv /\ [Param!Next]_(Param!vars) => ParamsInv'
<1> SUFFICES ASSUME ParamsInv, [Param!Next]_(Param!vars) PROVE ParamsInv'
  OBVIOUS
<1> USE DEF ParamsInv, ParamsTyped, OneInitialises, GivenIsStatic, Calls, Param!Networks, Param!Idle
<1>1. ASSUME NEW t \in Threads, Param!params(t) PROVE ParamsInv'
  BY ZenonT(40), <1>1 DEF Param!params, Param!Enter
<1>2. ASSUME NEW t \in Threads, NEW n \in Param!Networks, Param!init_params(t, n) PROVE ParamsInv'
  BY Zenon, <1>2 DEF Param!init_params, Param!Enter
<1>3. ASSUME NEW t \in Threads, Param!call_once(t) PROVE ParamsInv'
  BY ZenonT(40), <1>3 DEF Param!call_once
<1>4. ASSUME NEW t \in Threads, Param!init(t) PROVE ParamsInv'
  <2>1. INIT = "running" /\ \A u \in Threads : given[u] = {} /\ doing[u].at # "after"
    BY <1>4 DEF Param!init
  <2>2. ParamsTyped'
    BY <1>4 DEF Param!init
  <2>3. OneInitialises'
    BY <1>4, <2>1 DEF Param!init
  <2>4. GivenIsStatic'
    BY Zenon, <1>4, <2>1 DEF Param!init
  <2>. QED
    BY <2>2, <2>3, <2>4
<1>5. ASSUME NEW t \in Threads, Param!after_once(t) PROVE ParamsInv'
  <2>0. PICK place \in {"after", "panicked"} : doing' = [doing EXCEPT ![t] = [doing[t] EXCEPT !.at = place]]
    BY Zenon, <1>5 DEF Param!after_once
  <2>1. ParamsTyped'
    <3>1. doing[t] \in Calls /\ place \in {"idle", "call_once", "init", "after", "panicked"}
      BY Zenon
    <3>2. [doing[t] EXCEPT !.at = place] \in Calls
      BY Zenon, <3>1
    <3>3. doing' \in [Threads -> Calls]
      BY ONLY Zenon, <2>0, <3>2, doing \in [Threads -> Calls]
    <3> QED
      BY Zenon, <1>5, <3>3 DEF Param!after_once
  <2>2. OneInitialises'
    BY ZenonT(40), <1>5 DEF Param!after_once
  <2>3. GivenIsStatic'
    BY Zenon, <1>5 DEF Param!after_once
  <2>. QED
    BY Zenon, <2>1, <2>2, <2>3
<1>6. ASSUME NEW t \in Threads, Param!return(t) PROVE ParamsInv'
  BY Zenon, <1>6 DEF Param!return
<1>7. CASE UNCHANGED Param!vars
  BY <1>7 DEF Param!vars
<1>. QED
  BY ZenonT(40), <1>1, <1>2, <1>3, <1>4, <1>5, <1>6, <1>7 DEF Param!Next

\* With the invariant, what two threads were given is the static.
LEMMA ParamsInvAgree == ParamsInv => Param!ParamsAgree
BY ZenonT(40) DEF ParamsInv, ParamsTyped, OneInitialises, GivenIsStatic, Param!ParamsAgree

\* However many threads initialise and read at once, all read the same parameters and
\* nobody the zeros the static starts with (params, init_params): the first
\* initialisation wins, or, if it is for the main network, nobody reads anything.
THEOREM ParamsAgreeCorrect == Param!Spec => []Param!ParamsAgree
BY ParamsInvAgree, ParamsInit, ParamsStep, PTL DEF Param!Spec

-----------------------------------------------------------------------------
\* PeerMgr

LOCAL INSTANCE FiniteSetTheorems

\* PeersFollowActions is inductive together with the types: the set of known peers is
\* finite, so its cardinality is what len() of the HashSet returns.
PeersInv ==
    /\ peers \subseteq Peers /\ IsFiniteSet(peers) /\ full \subseteq Peers
    /\ last \in [Peers -> {"AddPeer", "RemovePeer"}]
    /\ Peer!PeersFollowActions

\* The number of peers that PeerMgr's guard and invariant speak of is the cardinality
\* the facts about finite sets speak of.
LEMMA SameCount == \A S : Peer!Cardinality(S) = Cardinality(S)
BY DEF Peer!Cardinality, Cardinality

\* A new manager knows nobody.
LEMMA PeersInit == ASSUME max_fil_peers \in Nat PROVE Peer!Init => PeersInv
<1>1. IsFiniteSet({}) /\ Cardinality({}) = 0
    BY ZenonT(40), FS_EmptySet
<1>2. QED
    <2> SUFFICES ASSUME Peer!Init PROVE PeersInv
        OBVIOUS
    <2>1. Peer!Cardinality(peers) <= max_fil_peers
        BY ZenonT(40), <1>1, SameCount, Room DEF Peer!Init
    <2>2. QED
        BY ZenonT(40), <1>1, <2>1 DEF Peer!Init, PeersInv, Peer!PeersFollowActions

\* A handle that queues an action changes nothing but the channel; applying an action
\* moves one peer in or out.
LEMMA PeersStep ==
    ASSUME max_fil_peers \in Nat PROVE PeersInv /\ [Peer!Next]_(Peer!vars) => PeersInv'
<1> SUFFICES ASSUME PeersInv, [Peer!Next]_(Peer!vars) PROVE PeersInv'
    OBVIOUS
<1>c. \A S : IsFiniteSet(S) => Cardinality(S) \in Nat
    BY ZenonT(40), FS_CardinalityType
<1>0. Cardinality(peers) \in Nat
    BY ZenonT(40), <1>c DEF PeersInv
<1>1. ASSUME NEW p \in Peers, Peer!add_peer(p) \/ Peer!remove_peer(p) PROVE PeersInv'
    BY ZenonT(40), <1>1 DEF PeersInv, Peer!add_peer, Peer!remove_peer, Peer!Send, Peer!Action,
                Peer!PeersFollowActions
<1>2. ASSUME NEW p \in Peers, Peer!on_add_peer(p) PROVE PeersInv'
    <2>1. IsFiniteSet(peers \cup {p})
          /\ Cardinality(peers \cup {p}) =
                IF p \in peers THEN Cardinality(peers) ELSE Cardinality(peers) + 1
        BY ZenonT(40), FS_AddElement DEF PeersInv
    <2>2. IsFiniteSet(peers') /\ Cardinality(peers') <= max_fil_peers
        <3>1. Cardinality(peers) <= max_fil_peers /\ IsFiniteSet(peers)
            BY ZenonT(40), SameCount DEF PeersInv, Peer!PeersFollowActions
        <3>2. CASE Peer!HasRoom(p)
            <4>1. peers' = peers \cup {p} /\ Cardinality(peers) < max_fil_peers
                BY ZenonT(40), <1>2, <3>2, SameCount DEF Peer!on_add_peer, Peer!HasRoom
            <4>2. Cardinality(peers) <= max_fil_peers /\ Cardinality(peers) + 1 <= max_fil_peers
                BY ZenonT(40), <1>0, <4>1, Room
            <4>3. QED
                BY ZenonT(40), <2>1, <4>1, <4>2
        <3>3. CASE ~Peer!HasRoom(p)
            BY ZenonT(40), <1>2, <3>1, <3>3 DEF Peer!on_add_peer
        <3>4. QED
            BY ZenonT(40), <3>2, <3>3
    <2>3. peers' = {q \in Peers : last'[q] = "AddPeer"} \ full'
        BY ZenonT(40), <1>2 DEF PeersInv, Peer!on_add_peer, Peer!Receive, Peer!PeersFollowActions
    <2>4. QED
        BY ZenonT(40), <1>2, <2>2, <2>3, SameCount DEF PeersInv, Peer!on_add_peer, Peer!Receive, Peer!PeersFollowActions
<1>3. ASSUME NEW p \in Peers, Peer!on_remove_peer(p) PROVE PeersInv'
    <2>1. IsFiniteSet(peers \ {p}) /\ Cardinality(peers \ {p}) <= Cardinality(peers)
        BY ZenonT(40), FS_Subset DEF PeersInv
    <2>c. Cardinality(peers \ {p}) \in Nat
        BY ONLY ZenonT(40), <1>c, <2>1
    <2>l. Cardinality(peers) <= max_fil_peers
        BY ZenonT(40), SameCount DEF PeersInv, Peer!PeersFollowActions
    <2>2. IsFiniteSet(peers') /\ Cardinality(peers') \in Nat /\ Cardinality(peers') <= max_fil_peers
        <3>1. Cardinality(peers \ {p}) <= max_fil_peers
            BY ZenonT(40), <1>0, <2>1, <2>c, <2>l, Room
        <3>2. peers' = peers \ {p}
            BY ZenonT(40), <1>3 DEF Peer!on_remove_peer
        <3>3. QED
            BY ZenonT(40), <2>1, <2>c, <3>1, <3>2
    <2>3. peers' = {q \in Peers : last'[q] = "AddPeer"} \ full'
        BY ZenonT(40), <1>3 DEF PeersInv, Peer!on_remove_peer, Peer!Receive, Peer!PeersFollowActions
    <2>4. QED
        BY ZenonT(40), <1>3, <2>2, <2>3, SameCount DEF PeersInv, Peer!on_remove_peer, Peer!Receive, Peer!PeersFollowActions
<1>4. CASE UNCHANGED Peer!vars
    BY ZenonT(40), <1>4 DEF Peer!vars, PeersInv, Peer!PeersFollowActions
<1>5. QED
    BY ZenonT(40), <1>1, <1>2, <1>3, <1>4 DEF Peer!Next

\* Whatever the handles queue and however late it is applied, the manager never keeps
\* more than max_fil_peers, and knows exactly the peers last reported to it with
\* add_peer, but for those on_add_peer had no room for.
THEOREM PeersFollow == Peer!Spec => []Peer!PeersFollowActions
<1>1. PeersInv => Peer!PeersFollowActions
    BY DEF PeersInv
<1>2. QED
    BY <1>1, PeersInit, PeersStep, SizesAssumption, PTL DEF Peer!Spec

-----------------------------------------------------------------------------
\* The components side by side

\* A step is one of its subject, or leaves it as it is, and never changes the subject; a
\* question is asked once, and is one of those on its topic.
LEMMA OneMoves ==
    ASSUME [Step]_allVars
    PROVE  /\ subject' = subject
           /\ subject = "wallet" => [Wal!Next]_(Wal!vars)
           /\ subject = "codec" => [Codec!Next]_(Codec!vars)
           /\ subject = "peers" => [Peer!Next]_(Peer!vars)
           /\ subject = "params" => [Param!Next]_(Param!vars)
           /\ probe' = probe \/ probe' \in Questions(subject)
           /\ [Ask]_<<subject, probe>>
BY Zenon DEF Step, Ask, allVars, walletVars, codecVars, peerVars, paramVars, statVars, Wal!vars, Wal!historyVars,
             Codec!vars, Peer!vars, Param!vars

\* What was asked is a question on the topic.
Answerable == probe # <<>> => probe \in Questions(subject)

\* Every behaviour asks only such questions.
LEMMA QuestionsOnTopic == SideBySide => []Answerable
<1>1. Start => Answerable
  BY Zenon DEF Start, Answerable
<1>2. Answerable /\ [Step]_allVars => Answerable'
  BY Zenon, OneMoves DEF Answerable
<1> QED
  BY <1>1, <1>2, PTL DEF SideBySide

\* Components only asks the questions of ChainValues, and asks them as it does: what is
\* proved of Inquiring holds of the components side by side.
THEOREM ComponentsAsk == SideBySide => Inquiring
<1>1. Start => probe = <<>>
  BY Zenon DEF Start
<1>2. [Step]_allVars => [Ask]_<<subject, probe>>
  BY Zenon, OneMoves
<1> QED
  BY <1>1, <1>2, PTL DEF SideBySide, Inquiring

\* Nor do the others touch the statistics of a database: what is proved of Counting
\* holds of the components side by side.
THEOREM ComponentsCount == SideBySide => Counting
<1>1. Start => Stat!Init
  BY Zenon DEF Start
<1>2. [Step]_allVars => [Stat!Next /\ UNCHANGED subject]_<<subject, statVars>>
  BY Zenon DEF Step, Ask, allVars
<1> QED
  BY <1>1, <1>2, PTL DEF SideBySide, Counting

\* An address that import or generate_key returned stays in the key store, whenever the
\* key store fails and the process restarts.
THEOREM PromisesKept == SideBySide => []PromisedStored
<1> DEFINE I == subject = "wallet" => WalletInv
<1>1. Start => I
  BY Zenon, WalletInit, WalletFact DEF Start
<1>2. I /\ [Step]_allVars => I'
  BY ZenonT(40), OneMoves, WalletNext, WalletFact
<1>3. I => PromisedStored
  BY Zenon DEF WalletInv, PromisedStored
<1> QED
  BY <1>1, <1>2, <1>3, PTL DEF SideBySide

\* The default that set_default and generate_key keep is well typed, backed by a key and
\* the one that was chosen.
THEOREM DefaultsKept == SideBySide => []DefaultKept
<1> DEFINE I == subject = "wallet" => WalletInv
<1>1. Start => I
  BY Zenon, WalletInit, WalletFact DEF Start
<1>2. I /\ [Step]_allVars => I'
  BY Zenon, OneMoves, WalletNext, WalletFact
<1>3. I => DefaultKept
  BY Zenon DEF WalletInv, DefaultKept, Wal!DefaultKept
<1> QED
  BY <1>1, <1>2, <1>3, PTL DEF SideBySide

\* The two sides of the protocol understand each other: every kind of request has an
\* offered protocol of its own (supported_protocols, protocol_info), only one with many
\* responses is ended by a stream termination, and codes are read back as what they were
\* made of (as_u8, from_error, GoodbyeReason).
LEMMA SidesUnderstand ==
    ASSUME NEW request \in Codec!RPCRequest, NEW other \in Codec!RPCRequest,
           NEW response \in Codec!RPCErrorResponse, NEW reason \in DOMAIN Codec!GoodbyeReason
    PROVE  Codec!SidesAgree(request, other, response, reason)
<1>1. /\ Codec!supported_protocols(request) \in Codec!protocol_info
      /\ Codec!supported_protocols(request) = Codec!supported_protocols(other) => request = other
  <2>1. /\ Codec!supported_protocols("Status") = "status"
        /\ Codec!supported_protocols("Goodbye") = "goodbye"
        /\ Codec!supported_protocols("BlockSyncRequest") = "plum_block_sync_request"
    BY ONLY DEF Codec!supported_protocols
  <2>2. /\ "status" # "goodbye" /\ "status" # "plum_block_sync_request"
        /\ "goodbye" # "plum_block_sync_request"
    BY ONLY Zenon
  <2>3. /\ request \in {"Status", "Goodbye", "BlockSyncRequest"}
        /\ other \in {"Status", "Goodbye", "BlockSyncRequest"}
    BY Zenon DEF Codec!RPCRequest
  <2>4. Codec!protocol_info = {"status", "goodbye", "plum_block_sync_request"}
    BY ONLY Zenon DEF Codec!protocol_info
  <2> QED
    BY ONLY Zenon, <2>1, <2>2, <2>3, <2>4
<1>2. Codec!multiple_responses(request) =>
          Codec!expect_response(request) /\ Codec!stream_termination(request) # "unreachable"
  BY DEF Codec!multiple_responses, Codec!expect_response, Codec!stream_termination
<1>3. /\ Codec!is_response(Codec!as_u8(response)) <=> ~Codec!is_error(response)
      /\ Codec!is_error(response) /\ Codec!as_u8(response) >= 0 => Codec!from_error(Codec!as_u8(response)) = response
  BY DEF Codec!RPCErrorResponse, Codec!is_response, Codec!as_u8, Codec!is_error, Codec!from_error
<1>4. Codec!from_u64(Codec!GoodbyeReason[reason]) = reason
  BY DEF Codec!from_u64, Codec!GoodbyeReason
<1> QED
  BY ZenonT(40), <1>1, <1>2, <1>3, <1>4 DEF Codec!SidesAgree

\* What a reader gives was sent, whole and the first frame first, however the pieces
\* arrive, and the two sides understand each other's requests, responses and reasons for leaving.
THEOREM CodecsAreFaithful == SideBySide => []CodecFaithful
<1> DEFINE I == subject = "codec" => CodecInv
<1>1. Start => I
  BY Zenon, CodecInit, SizesAssumption DEF Start
<1>2. I /\ [Step]_allVars => I'
  BY Zenon, OneMoves, CodecStep, SizesAssumption
<1>3. ASSUME probe \in Questions("sides")
      PROVE  Codec!SidesAgree(probe[1], probe[2], probe[3], probe[4])
  <2>1. probe \in Codec!RPCRequest \X Codec!RPCRequest \X Codec!RPCErrorResponse \X DOMAIN Codec!GoodbyeReason
    BY Zenon, <1>3, SidesAssumption
  <2>2. /\ probe[1] \in Codec!RPCRequest /\ probe[2] \in Codec!RPCRequest
        /\ probe[3] \in Codec!RPCErrorResponse /\ probe[4] \in DOMAIN Codec!GoodbyeReason
    BY ONLY SMTT(20), <2>1
  <2> QED
    BY Zenon, <2>2, SidesUnderstand
<1>4. I /\ Answerable => CodecFaithful
  BY ZenonT(40), <1>3, CodecInvSent DEF Answerable, CodecFaithful, Asked
<1> QED
  BY <1>1, <1>2, <1>4, QuestionsOnTopic, PTL DEF SideBySide

\* The peer manager keeps at most max_fil_peers peers, the ones last reported to it with
\* add_peer but for those on_add_peer had no room for.
THEOREM ManagersFollow == SideBySide => []ManagedPeersFollow
<1> DEFINE I == subject = "peers" => PeersInv
<1>1. Start => I
  BY ZenonT(40), PeersInit, SizesAssumption DEF Start
<1>2. I /\ [Step]_allVars => I'
  BY Zenon, OneMoves, PeersStep, SizesAssumption
<1>3. I => ManagedPeersFollow
  BY Zenon DEF PeersInv, ManagedPeersFollow
<1> QED
  BY <1>1, <1>2, <1>3, PTL DEF SideBySide

\* All threads that call params() read the same parameters, and never the zeros.
THEOREM ReadersAgree == SideBySide => []AllReadTheSameParams
<1> DEFINE I == subject = "params" => ParamsInv
<1>1. Start => I
  BY Zenon, ParamsInit DEF Start
<1>2. I /\ [Step]_allVars => I'
  BY Zenon, OneMoves, ParamsStep
<1>3. I => AllReadTheSameParams
  BY Zenon, ParamsInvAgree DEF AllReadTheSameParams
<1> QED
  BY <1>1, <1>2, <1>3, PTL DEF SideBySide
=============================================================================
