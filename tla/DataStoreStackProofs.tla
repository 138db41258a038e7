------------------------ MODULE DataStoreStackProofs ------------------------
(***************************************************************************)
(* Proofs about the data stores:                                           *)
(*  - DataStoreStack, for any keys, values and clients, any set of stacks  *)
(*    with any number of wrappers in any order, and fail_fns that refuse   *)
(*    anything;                                                            *)
(*  - DataStoreKey, for all keys there are.  What its recursive functions  *)
(*    compute is proved by induction on sets: the sequences for which they *)
(*    are right hold the empty one and, with every one, those one longer   *)
(*    (SequenceInduction), and so are all of them; that there is a         *)
(*    function with the recursive equation is proved once (Recursion).     *)
(***************************************************************************)
EXTENDS DataStoreStack, KeyQuestions, TLAPS

Kinds == {"store", "batch", "txn"}
Handle == [kind : Kinds, stack : Stacks, cell : Cells]

Typed ==
    /\ handle \in [Clients -> Handle \cup {NoHandle}]
    /\ content \in [Homes -> [Places -> Stored]]
    /\ record \in [Cells -> [Places -> Recorded]]
    /\ asked \in [Cells -> [Keys -> Recorded]]
    /\ seen \in [Homes -> [Stacks -> [Keys -> Stored]]]

\* The clients of one cell hold the same stack, of a kind the stack has.
HandlesFit == \A c \in Clients : Has(c) =>
    /\ handle[c].kind \in KindsOf(handle[c].stack)
    /\ \A d \in Clients : Has(d) /\ handle[d].cell = handle[c].cell => handle[d].stack = handle[c].stack

\* Nothing is left of a cell whose last handle was dropped: it may be made anew.
UnusedAreEmpty == \A e \in Cells : (\A c \in Clients : Has(c) => handle[c].cell # e) =>
    /\ content[e] = Empty /\ seen[e] = NothingSeen
    /\ record[e] = Clean /\ asked[e] = NothingAsked

\* A record holds at the places of a stack what was asked for, and nothing elsewhere.
RecordIs(rec, ask, s) ==
    /\ \A k \in Keys : rec[Place[s][k]] = ask[k]
    /\ \A p \in Places : (\A k \in Keys : p # Place[s][k]) => rec[p] = Untouched

\* A store holds at the places of a stack what was written last.
Holds(con, expect, s) == \A k \in Keys : con[Place[s][k]] = expect[s][k]

CellsRight == \A c \in Clients : Has(c) =>
    /\ RecordIs(record[handle[c].cell], asked[handle[c].cell], handle[c].stack)
    /\ Bottom[handle[c].stack] = "map" =>
          Holds(content[handle[c].cell], seen[handle[c].cell], handle[c].stack)

\* The database keeps every stack over it apart from the others, the ones that nobody
\* has a handle on at the moment included.
DatabaseIs(con, expect) == \A s \in Stacks :
    IF Bottom[s] = "txn" THEN Holds(con, expect, s) ELSE expect[s] = NothingSeen[s]

DatabaseRight == DatabaseIs(content[Db], seen[Db])

StackInv == Typed /\ HandlesFit /\ UnusedAreEmpty /\ CellsRight /\ DatabaseRight

-----------------------------------------------------------------------------
(* The wrappers: what is done to a key on its way down.                    *)

DataOps == {"put", "delete", "get"}

\* Every wrapper has put, delete and get.
LEMMA HasDataOps == DataOps \subseteq StoreOps /\ DataOps \subseteq BatchOps /\ DataOps \subseteq TxnOps
                    /\ DataOps \subseteq KeyOps
BY DEF DataOps, StoreOps, BatchOps, TxnOps, KeyOps

\* A wrapper that forwards has the operations it forwards and converts no key.
LEMMA ForwardFact ==
    ASSUME NEW ops, NEW op \in ops
    PROVE  op \in DOMAIN Forward(ops) /\ ~Forward(ops)[op].converts
BY DEF Forward

\* So does one that asks its fail_fn first.
LEMMA AskingFact ==
    ASSUME NEW ops, NEW tags, NEW op \in ops
    PROVE  op \in DOMAIN Asking(ops, tags) /\ ~Asking(ops, tags)[op].converts
BY DEF Asking

\* A transform converts the key of every operation that has one.
LEMMA ConvertingFact ==
    ASSUME NEW ops, NEW op \in ops \cap DataOps
    PROVE  op \in DOMAIN Converting(ops) /\ Converting(ops)[op].converts
BY Zenon, HasDataOps DEF Converting

\* Of the wrappers in all their kinds, the transforms convert the key of a put, a delete
\* and a get alike, and the others none of them.
LEMMA WrapperFact ==
    ASSUME NEW w \in {"log", "fail", "transform", "sync", "delay", "memory"}, NEW kind \in Kinds,
           w \in {"delay", "memory"} => kind = "store",
           NEW op \in DataOps
    PROVE  /\ op \in DOMAIN Wrappers[w][kind]
           /\ Wrappers[w][kind][op].converts <=> w = "transform"
<1>1. CASE w = "log"
  <2>1. Wrappers[w][kind] \in {LogDataStore, LogBatchDataStore, LogTxnDataStore}
    BY <1>1 DEF Wrappers, Kinds
  <2>2. QED
    BY <1>1, <2>1, ForwardFact, HasDataOps DEF LogDataStore, LogBatchDataStore, LogTxnDataStore
<1>2. CASE w = "sync"
  <2>1. Wrappers[w][kind] \in {SyncDataStore, SyncBatchDataStore, SyncTxnDataStore}
    BY <1>2 DEF Wrappers, Kinds
  <2>2. QED
    BY <1>2, <2>1, ForwardFact, HasDataOps DEF SyncDataStore, SyncBatchDataStore, SyncTxnDataStore
<1>3. CASE w = "fail"
  <2>1. Wrappers[w][kind] \in {FailDataStore, FailBatchDataStore, FailTxnDataStore}
    BY <1>3 DEF Wrappers, Kinds
  <2>2. QED
    BY <1>3, <2>1, AskingFact, HasDataOps DEF FailDataStore, FailBatchDataStore, FailTxnDataStore
<1>4. CASE w = "transform"
  <2>1. Wrappers[w][kind] \in {TransformDataStore, TransformBatchDataStore, TransformTxnDataStore}
    BY <1>4 DEF Wrappers, Kinds
  <2>2. QED
    BY <1>4, <2>1, ConvertingFact, HasDataOps
    DEF TransformDataStore, TransformBatchDataStore, TransformTxnDataStore
<1>5. CASE w \in {"delay", "memory"}
  <2>1. Wrappers[w][kind] \in {DelayDataStore, MemoryDataStore}
    BY SMTT(20), <1>5 DEF Wrappers
  <2>2. QED
    BY <1>5, <2>1, ForwardFact, HasDataOps DEF DelayDataStore, MemoryDataStore
<1>6. QED
  BY <1>1, <1>2, <1>3, <1>4, <1>5

\* Through any stack, put, delete and get reach the bottom with the key at its place:
\* what a put wrote a get finds and a delete removes.
LEMMA BelowFact ==
    ASSUME NEW s \in Stacks, NEW kind \in KindsOf(s), NEW op \in DataOps
    PROVE  /\ op \in OpsOf[s][kind]
           /\ \A k \in Keys : KeyBelow[s][kind][op][k] = Place[s][k]
<1> DEFINE converting == {i \in DOMAIN Layers[s] : LayerOf(s, kind, i)[op].converts}
           transforms == {i \in DOMAIN Layers[s] : Layers[s][i].wrap = "transform"}
<1>1. ASSUME NEW i \in DOMAIN Layers[s]
      PROVE  /\ op \in DOMAIN LayerOf(s, kind, i)
             /\ LayerOf(s, kind, i)[op].converts <=> Layers[s][i].wrap = "transform"
  <2> DEFINE w == Layers[s][i].wrap
             of == IF i = 1 THEN kind ELSE IF Bottom[s] = "txn" THEN "txn" ELSE "store"
  <2>1. /\ w \in {"log", "fail", "transform", "sync", "delay", "memory"}
        /\ w \in {"delay", "memory"} => Bottom[s] # "txn"
    BY StackAssumption
  <2>2. of \in Kinds /\ (w \in {"delay", "memory"} => of = "store")
    BY <2>1 DEF KindsOf, Kinds
  <2>3. LayerOf(s, kind, i) = Wrappers[w][of]
    BY DEF LayerOf
  <2> HIDE DEF w, of
  <2>4. op \in DOMAIN Wrappers[w][of] /\ (Wrappers[w][of][op].converts <=> w = "transform")
    BY <2>1, <2>2, WrapperFact
  <2>5. QED
    BY <2>3, <2>4 DEF w
<1>2. op \in OpsOf[s][kind]
  BY <1>1, HasDataOps DEF OpsOf
<1>3. converting = transforms
  BY <1>1
<1>4. \A k \in Keys : KeyBelow[s][kind][op][k] = Through(s, converting, k)
  BY <1>2 DEF KeyBelow
<1>5. \A k \in Keys : Through(s, transforms, k) = Place[s][k]
  BY StackAssumption
<1> HIDE DEF converting, transforms
<1>6. QED
  BY Zenon, <1>2, <1>3, <1>4, <1>5

\* Only a batch or a transaction has commit and discard, and they are over a database.
LEMMA CommitFact ==
    ASSUME NEW s \in Stacks, NEW kind \in KindsOf(s), NEW op \in {"commit", "discard"},
           op \in OpsOf[s][kind]
    PROVE  Bottom[s] = "txn"
<1> SUFFICES ASSUME Bottom[s] # "txn" PROVE FALSE
  OBVIOUS
<1>1. kind = "store"
  BY DEF KindsOf
<1>2. PICK i \in DOMAIN Layers[s] : TRUE
  BY StackAssumption
<1>3. op \in DOMAIN LayerOf(s, kind, i)
  BY DEF OpsOf
<1>4. LayerOf(s, kind, i) = Wrappers[Layers[s][i].wrap]["store"]
  BY <1>1 DEF LayerOf
<1>5. Layers[s][i].wrap \in {"log", "fail", "transform", "sync", "delay", "memory"}
  BY StackAssumption
<1>6. LayerOf(s, kind, i) \in {LogDataStore, FailDataStore, TransformDataStore, SyncDataStore,
                               DelayDataStore, MemoryDataStore}
  BY <1>4, <1>5 DEF Wrappers
<1>7. DOMAIN LayerOf(s, kind, i) \subseteq StoreOps \cup {"batch", "txn"}
  BY <1>6 DEF LogDataStore, FailDataStore, TransformDataStore, SyncDataStore, DelayDataStore,
              MemoryDataStore, Forward, Asking, Converting, StoreOps, ExtendedOps
<1>8. op \notin StoreOps \cup {"batch", "txn"}
  BY DEF StoreOps, KeyOps, ExtendedOps
<1>9. QED
  BY <1>3, <1>7, <1>8

-----------------------------------------------------------------------------
(* Records and stores at the places of a stack.                            *)

\* A place is where a key of one stack belongs: no other key of the stack, and of the
\* stacks over the database no other stack, has it.
LEMMA PlaceFact ==
    /\ \A s \in Stacks, k \in Keys : Place[s][k] \in Places
    /\ \A s \in Stacks : \A k, l \in Keys : Place[s][k] = Place[s][l] => k = l
    /\ \A s, t \in Stacks : Bottom[s] = "txn" /\ Bottom[t] = "txn" =>
          \A k, l \in Keys : Place[s][k] = Place[t][l] => s = t /\ k = l
<1>1. \A s \in Stacks, k \in Keys : Place[s][k] \in Places
  BY DEF Places
<1>2. \A s, t \in Stacks : s = t \/ (Bottom[s] = "txn" /\ Bottom[t] = "txn") =>
        \A k, l \in Keys : Place[s][k] = Place[t][l] => s = t /\ k = l
  BY Zenon, StackAssumption
<1>3. QED
  BY <1>1, <1>2

\* A new cell has recorded nothing and holds nothing.
LEMMA EmptyFact ==
    ASSUME NEW s \in Stacks
    PROVE  RecordIs(Clean, NothingAsked, s) /\ Holds(Empty, NothingSeen, s)
BY PlaceFact DEF RecordIs, Holds, Clean, NothingAsked, Empty, NothingSeen

\* put and delete record a value for a key at its place.
LEMMA RecordWritten ==
    ASSUME NEW rec \in [Places -> Recorded], NEW ask \in [Keys -> Recorded], NEW s \in Stacks,
           NEW k \in Keys, NEW v, RecordIs(rec, ask, s)
    PROVE  RecordIs([rec EXCEPT ![Place[s][k]] = v], [ask EXCEPT ![k] = v], s)
BY PlaceFact DEF RecordIs

\* put and delete of a map write a value at the place of the key.
LEMMA HoldsWritten ==
    ASSUME NEW con \in [Places -> Stored], NEW expect \in [Stacks -> [Keys -> Stored]],
           NEW s \in Stacks, NEW k \in Keys, NEW v, Holds(con, expect, s)
    PROVE  Holds([con EXCEPT ![Place[s][k]] = v], [expect EXCEPT ![s][k] = v], s)
<1> DEFINE p == Place[s][k]
           con1 == [con EXCEPT ![p] = v]
           expect1 == [expect EXCEPT ![s][k] = v]
<1>1. p \in Places
  BY PlaceFact
<1> HIDE DEF p
<1>2. con1[p] = v /\ \A q \in Places : q # p => con1[q] = con[q]
  BY <1>1
<1>3. expect1[s][k] = v /\ \A l \in Keys : l # k => expect1[s][l] = expect[s][l]
  OBVIOUS
<1> HIDE DEF con1, expect1
<1>4. ASSUME NEW l \in Keys PROVE con1[Place[s][l]] = expect1[s][l]
  <2>1. Place[s][l] \in Places /\ (l # k => Place[s][l] # p)
    BY Zenon, PlaceFact DEF p
  <2>2. con[Place[s][l]] = expect[s][l]
    BY Zenon DEF Holds
  <2>3. QED
    BY Zenon, <1>2, <1>3, <2>1, <2>2 DEF p
<1>5. QED
  BY Zenon, <1>4 DEF Holds, con1, expect1, p

\* A commit writes what was asked for at the places of its stack, and leaves every other
\* stack over the database as it was.
LEMMA DatabaseCommitted ==
    ASSUME NEW con \in [Places -> Stored], NEW expect \in [Stacks -> [Keys -> Stored]],
           NEW rec \in [Places -> Recorded], NEW ask \in [Keys -> Recorded],
           NEW s \in Stacks, Bottom[s] = "txn", RecordIs(rec, ask, s), DatabaseIs(con, expect)
    PROVE  DatabaseIs(Overlay(con, rec), [expect EXCEPT ![s] = Overlay(@, ask)])
<1> DEFINE con1 == Overlay(con, rec)
           expect1 == [expect EXCEPT ![s] = Overlay(@, ask)]
<1>1. \A p \in Places : con1[p] = IF rec[p] = Untouched THEN con[p] ELSE rec[p]
  BY DEF Overlay
<1>2. \A k \in Keys : expect1[s][k] = IF ask[k] = Untouched THEN expect[s][k] ELSE ask[k]
  BY DEF Overlay
<1>3. \A t \in Stacks : t # s => expect1[t] = expect[t]
  OBVIOUS
<1> HIDE DEF con1, expect1
<1>4. ASSUME NEW t \in Stacks, Bottom[t] = "txn" PROVE Holds(con1, expect1, t)
  <2>1. Holds(con, expect, t)
    BY <1>4 DEF DatabaseIs
  <2>2. CASE t = s
    <3>1. ASSUME NEW k \in Keys PROVE con1[Place[s][k]] = expect1[s][k]
      <4>1. Place[s][k] \in Places
        BY PlaceFact
      <4>2. rec[Place[s][k]] = ask[k] /\ con[Place[s][k]] = expect[s][k]
        BY Zenon, <2>1, <2>2 DEF Holds, RecordIs
      <4>3. QED
        BY Zenon, <1>1, <1>2, <4>1, <4>2
    <3>2. QED
      BY Zenon, <2>2, <3>1 DEF Holds
  <2>3. CASE t # s
    <3>1. ASSUME NEW l \in Keys PROVE rec[Place[t][l]] = Untouched
      <4>1. Place[t][l] \in Places /\ \A k \in Keys : Place[t][l] # Place[s][k]
        BY <1>4, <2>3, PlaceFact
      <4>2. QED
        BY Zenon, <4>1 DEF RecordIs
    <3>2. QED
      BY Zenon, <2>1, <2>3, <3>1, <1>1, <1>3, PlaceFact DEF Holds
  <2>4. QED
    BY <2>2, <2>3
<1>5. ASSUME NEW t \in Stacks, Bottom[t] # "txn" PROVE expect1[t] = NothingSeen[t]
  BY <1>3, <1>5 DEF DatabaseIs
<1>6. QED
  BY Zenon, <1>4, <1>5 DEF DatabaseIs, con1, expect1

-----------------------------------------------------------------------------
(* The inductive invariant.                                                *)

\* Initially nobody has a handle and the database is empty.
LEMMA StackInit == Init => StackInv
<1> SUFFICES ASSUME Init PROVE StackInv
  OBVIOUS
<1>1. \A c \in Clients : ~Has(c)
  BY DEF Init, Has
<1>2. /\ content = [h \in Homes |-> Empty] /\ seen = [h \in Homes |-> NothingSeen]
      /\ record = [c \in Cells |-> Clean] /\ asked = [c \in Cells |-> NothingAsked]
      /\ Db \in Homes /\ Cells \subseteq Homes
  BY DEF Init, Homes
<1>3. Typed
  BY <1>2 DEF Init, Typed, Empty, Clean, NothingAsked, NothingSeen, Stored, Recorded
<1>4. UnusedAreEmpty
  BY <1>2 DEF UnusedAreEmpty
<1>5. DatabaseRight
  BY <1>2, EmptyFact DEF DatabaseRight, DatabaseIs
<1>6. QED
  BY Zenon, <1>1, <1>3, <1>4, <1>5 DEF StackInv, HandlesFit, CellsRight

\* What the types say of a handle.
LEMMA HandleFact ==
    ASSUME Typed, NEW c \in Clients, Has(c)
    PROVE  /\ handle[c] \in Handle /\ handle[c].kind \in Kinds /\ handle[c].stack \in Stacks
           /\ handle[c].cell \in Cells
           /\ handle[c].cell \in Homes /\ handle[c].cell # Db
BY StackAssumption DEF Typed, Has, Handle, Homes, Cells

\* A step that makes and drops no handle may change what the cells in use and the
\* database hold, and nothing else.
LEMMA SameHandles ==
    ASSUME StackInv, handle' = handle, Typed',
           \A c \in Clients : Has(c) =>
               /\ RecordIs(record'[handle[c].cell], asked'[handle[c].cell], handle[c].stack)
               /\ Bottom[handle[c].stack] = "map" =>
                     Holds(content'[handle[c].cell], seen'[handle[c].cell], handle[c].stack),
           \A e \in Cells : (\A c \in Clients : Has(c) => handle[c].cell # e) =>
               /\ content'[e] = content[e] /\ seen'[e] = seen[e]
               /\ record'[e] = record[e] /\ asked'[e] = asked[e],
           DatabaseIs(content'[Db], seen'[Db])
    PROVE  StackInv'
<1>1. HandlesFit'
  BY Zenon DEF StackInv, HandlesFit, Has
<1>2. UnusedAreEmpty'
  BY Zenon DEF StackInv, UnusedAreEmpty, Has
<1>3. CellsRight'
  BY Zenon DEF CellsRight, Has
<1>4. QED
  BY Zenon, <1>1, <1>2, <1>3 DEF StackInv, DatabaseRight

\* put and delete: a map is written at the place of the key, a transaction records it
\* there, a dummy and a call that is refused change nothing.
LEMMA WriteStep ==
    ASSUME StackInv, NEW c \in Clients, NEW op \in {"put", "delete"}, NEW k \in Keys,
           NEW v \in Stored, write(c, op, k, v)
    PROVE  StackInv'
<1> DEFINE s == handle[c].stack
           e == handle[c].cell
           p == Place[s][k]
<1>1. Typed /\ HandlesFit /\ CellsRight /\ DatabaseIs(content[Db], seen[Db])
  BY DEF StackInv, DatabaseRight
<1>2. Has(c) /\ handle' = handle
  BY DEF write, Supports
<1>3. s \in Stacks /\ e \in Cells /\ e \in Homes /\ e # Db
  BY Zenon, <1>1, <1>2, HandleFact
<1>4. Below(c, op, k) = p
  <2>1. handle[c].kind \in KindsOf(s) /\ op \in DataOps
    BY <1>1, <1>2 DEF HandlesFit, DataOps
  <2>2. QED
    BY ZenonT(40), <1>3, <2>1, BelowFact DEF Below
<1>5. p \in Places
  BY Zenon, <1>3, PlaceFact
<1>6. ASSUME NEW x \in Clients, Has(x), handle[x].cell = e PROVE handle[x].stack = s
  BY ZenonT(40), <1>1, <1>2, <1>6 DEF HandlesFit
<1>7. \/ UNCHANGED <<content, record, asked, seen>>
      \/ /\ Bottom[s] = "map" /\ content' = [content EXCEPT ![e][p] = v]
         /\ seen' = [seen EXCEPT ![e][s][k] = v] /\ UNCHANGED <<record, asked>>
      \/ /\ Bottom[s] = "txn" /\ record' = [record EXCEPT ![e][p] = v]
         /\ asked' = [asked EXCEPT ![e][k] = v] /\ UNCHANGED <<content, seen>>
  <2>1. PICK no \in Refusals :
          /\ IF Reaches(c, op, no) THEN bottom_write(s, e, p, v) ELSE UNCHANGED <<content, record>>
          /\ IF Refused(c, op, no) THEN UNCHANGED historyVars ELSE expected(s, e, k, v)
    BY Zenon, <1>4 DEF write
  <2>2. CASE Refused(c, op, no)
    BY <2>1, <2>2 DEF Reaches, historyVars
  <2>3. CASE ~Refused(c, op, no)
    <3>1. bottom_write(s, e, p, v) /\ expected(s, e, k, v)
      BY Zenon, <2>1, <2>3 DEF Reaches
    <3>2. Bottom[s] \in {"map", "dummy", "txn"}
      BY <1>3, StackAssumption
    <3> HIDE DEF s, e, p
    <3>3. QED
      BY Zenon, <3>1, <3>2 DEF bottom_write, expected, MapDataStore, DummyDataStore, TxnDataStore, historyVars
  <2>4. QED
    BY <2>2, <2>3
<1> HIDE DEF s, e, p
<1>8. CASE UNCHANGED <<content, record, asked, seen>>
  <2>1. Typed'
    BY <1>1, <1>2, <1>8 DEF Typed
  <2>2. QED
    BY Zenon, <1>1, <1>2, <1>8, <2>1, SameHandles DEF CellsRight
<1>9. CASE /\ Bottom[s] = "map" /\ content' = [content EXCEPT ![e][p] = v]
           /\ seen' = [seen EXCEPT ![e][s][k] = v] /\ UNCHANGED <<record, asked>>
  <2>1. Typed'
    BY <1>1, <1>2, <1>3, <1>5, <1>9 DEF Typed
  <2>2. /\ content[e] \in [Places -> Stored] /\ seen[e] \in [Stacks -> [Keys -> Stored]]
        /\ content'[e] = [content[e] EXCEPT ![p] = v]
        /\ seen'[e] = [seen[e] EXCEPT ![s][k] = v]
        /\ \A h \in Homes : h # e => content'[h] = content[h] /\ seen'[h] = seen[h]
    BY <1>1, <1>3, <1>9 DEF Typed
  <2>3. Holds(content'[e], seen'[e], s)
    <3>1. Holds(content[e], seen[e], s)
      BY Zenon, <1>1, <1>2, <1>9 DEF CellsRight, e, s
    <3>2. content[e] \in [Places -> Stored] /\ seen[e] \in [Stacks -> [Keys -> Stored]]
      BY <2>2
    <3>3. Holds([content[e] EXCEPT ![p] = v], [seen[e] EXCEPT ![s][k] = v], s)
      BY Zenon, <1>3, <3>1, <3>2, HoldsWritten DEF p
    <3>4. QED
      BY Zenon, <2>2, <3>3
  <2>4. ASSUME NEW x \in Clients, Has(x)
        PROVE  /\ RecordIs(record'[handle[x].cell], asked'[handle[x].cell], handle[x].stack)
               /\ Bottom[handle[x].stack] = "map" =>
                     Holds(content'[handle[x].cell], seen'[handle[x].cell], handle[x].stack)
    <3>1. CASE handle[x].cell = e
      BY Zenon, <1>1, <1>6, <1>9, <2>3, <2>4, <3>1 DEF CellsRight
    <3>2. CASE handle[x].cell # e
      <4>1. handle[x].cell \in Homes
        BY Zenon, <1>1, <2>4, HandleFact
      <4>2. QED
        BY Zenon, <1>1, <1>9, <2>2, <2>4, <3>2, <4>1 DEF CellsRight
    <3>3. QED
      BY Zenon, <3>1, <3>2
  <2>5. ASSUME NEW f \in Cells, \A x \in Clients : Has(x) => handle[x].cell # f
        PROVE  /\ content'[f] = content[f] /\ seen'[f] = seen[f]
               /\ record'[f] = record[f] /\ asked'[f] = asked[f]
    <3>1. f # e /\ f \in Homes
      BY Zenon, <1>2, <2>5 DEF e, Homes
    <3>2. QED
      BY Zenon, <1>9, <2>2, <3>1
  <2>6. DatabaseIs(content'[Db], seen'[Db])
    BY Zenon, <1>1, <1>3, <2>2 DEF Homes
  <2>7. QED
    BY Zenon, <1>2, <2>1, <2>4, <2>5, <2>6, SameHandles
<1>10. CASE /\ Bottom[s] = "txn" /\ record' = [record EXCEPT ![e][p] = v]
            /\ asked' = [asked EXCEPT ![e][k] = v] /\ UNCHANGED <<content, seen>>
  <2>1. Typed'
    BY <1>1, <1>2, <1>3, <1>5, <1>10 DEF Typed, Recorded
  <2>2. /\ record[e] \in [Places -> Recorded] /\ asked[e] \in [Keys -> Recorded]
        /\ record'[e] = [record[e] EXCEPT ![p] = v]
        /\ asked'[e] = [asked[e] EXCEPT ![k] = v]
        /\ \A f \in Cells : f # e => record'[f] = record[f] /\ asked'[f] = asked[f]
    BY <1>1, <1>3, <1>10 DEF Typed
  <2>3. RecordIs(record'[e], asked'[e], s)
    <3>1. RecordIs(record[e], asked[e], s)
      BY Zenon, <1>1, <1>2 DEF CellsRight, e, s
    <3>2. record[e] \in [Places -> Recorded] /\ asked[e] \in [Keys -> Recorded]
      BY <2>2
    <3>3. RecordIs([record[e] EXCEPT ![p] = v], [asked[e] EXCEPT ![k] = v], s)
      BY Zenon, <1>3, <3>1, <3>2, RecordWritten DEF p
    <3>4. QED
      BY Zenon, <2>2, <3>3
  <2>4. ASSUME NEW x \in Clients, Has(x)
        PROVE  /\ RecordIs(record'[handle[x].cell], asked'[handle[x].cell], handle[x].stack)
               /\ Bottom[handle[x].stack] = "map" =>
                     Holds(content'[handle[x].cell], seen'[handle[x].cell], handle[x].stack)
    <3>1. CASE handle[x].cell = e
      BY Zenon, <1>1, <1>6, <1>10, <2>3, <2>4, <3>1 DEF CellsRight
    <3>2. CASE handle[x].cell # e
      <4>1. handle[x].cell \in Cells
        BY Zenon, <1>1, <2>4, HandleFact
      <4>2. QED
        BY Zenon, <1>1, <1>10, <2>2, <2>4, <3>2, <4>1 DEF CellsRight
    <3>3. QED
      BY Zenon, <3>1, <3>2
  <2>5. ASSUME NEW f \in Cells, \A x \in Clients : Has(x) => handle[x].cell # f
        PROVE  /\ content'[f] = content[f] /\ seen'[f] = seen[f]
               /\ record'[f] = record[f] /\ asked'[f] = asked[f]
    <3>1. f # e
      BY Zenon, <1>2, <2>5 DEF e
    <3>2. QED
      BY Zenon, <1>10, <2>2, <3>1
  <2>6. DatabaseIs(content'[Db], seen'[Db])
    BY Zenon, <1>1, <1>10
  <2>7. QED
    BY Zenon, <1>2, <2>1, <2>4, <2>5, <2>6, SameHandles
<1>11. QED
  BY Zenon, <1>7, <1>8, <1>9, <1>10

\* commit of a batch or transaction: the database takes the record over, and the cell
\* has recorded nothing any more.
LEMMA CommitStep ==
    ASSUME StackInv, NEW c \in Clients, commit(c)
    PROVE  StackInv'
<1> DEFINE s == handle[c].stack
           e == handle[c].cell
<1>1. Typed /\ HandlesFit /\ CellsRight /\ DatabaseIs(content[Db], seen[Db])
  BY DEF StackInv, DatabaseRight
<1>2. Has(c) /\ handle' = handle /\ "commit" \in OpsOf[s][handle[c].kind]
  BY DEF commit, Supports
<1>3. s \in Stacks /\ e \in Cells /\ e \in Homes /\ e # Db /\ Db \in Homes
  BY Zenon, <1>1, <1>2, HandleFact DEF Homes
<1>4. Bottom[s] = "txn" /\ Bottom[s] # "map"
  BY <1>1, <1>2, <1>3, CommitFact DEF HandlesFit
<1>5. /\ content' = [content EXCEPT ![Db] = Overlay(@, record[e])]
      /\ seen' = [seen EXCEPT ![Db][s] = Overlay(@, asked[e])]
      /\ record' = [record EXCEPT ![e] = Clean]
      /\ asked' = [asked EXCEPT ![e] = NothingAsked]
  BY Zenon DEF commit, cleared
<1>6. RecordIs(record[e], asked[e], s)
  BY Zenon, <1>1, <1>2 DEF CellsRight
<1>7. ASSUME NEW x \in Clients, Has(x), handle[x].cell = e PROVE handle[x].stack = s
  BY Zenon, <1>1, <1>2, <1>7 DEF HandlesFit
<1>8. \A x \in Clients : Has(x) => handle[x].cell \in Cells /\ handle[x].cell \in Homes /\ handle[x].cell # Db
  BY Zenon, <1>1, HandleFact
<1>9. \A f \in Cells : Has(c) /\ (\A x \in Clients : Has(x) => handle[x].cell # f) => f # e
  BY Zenon
<1> HIDE DEF s, e
<1>10. /\ record[e] \in [Places -> Recorded] /\ asked[e] \in [Keys -> Recorded]
       /\ content[Db] \in [Places -> Stored] /\ seen[Db] \in [Stacks -> [Keys -> Stored]]
       /\ seen[Db][s] \in [Keys -> Stored]
  BY <1>1, <1>3 DEF Typed
<1>11. /\ Overlay(content[Db], record[e]) \in [Places -> Stored]
       /\ Overlay(seen[Db][s], asked[e]) \in [Keys -> Stored]
  BY <1>10 DEF Overlay, Recorded
<1>12. Typed'
  <2>1. Clean \in [Places -> Recorded] /\ NothingAsked \in [Keys -> Recorded]
    BY DEF Clean, NothingAsked, Recorded
  <2>2. QED
    BY <1>1, <1>2, <1>3, <1>5, <1>11, <2>1 DEF Typed
<1>13. /\ content'[Db] = Overlay(content[Db], record[e])
       /\ seen'[Db] = [seen[Db] EXCEPT ![s] = Overlay(@, asked[e])]
       /\ record'[e] = Clean /\ asked'[e] = NothingAsked
       /\ \A f \in Cells : f # e => record'[f] = record[f] /\ asked'[f] = asked[f]
       /\ \A h \in Homes : h # Db => content'[h] = content[h] /\ seen'[h] = seen[h]
  BY <1>1, <1>3, <1>5 DEF Typed
<1>14. DatabaseIs(content'[Db], seen'[Db])
  <2>1. DatabaseIs(Overlay(content[Db], record[e]), [seen[Db] EXCEPT ![s] = Overlay(@, asked[e])])
    BY Zenon, <1>1, <1>3, <1>4, <1>6, <1>10, DatabaseCommitted
  <2>2. QED
    BY Zenon, <1>13, <2>1
<1>15. ASSUME NEW x \in Clients, Has(x)
       PROVE  /\ RecordIs(record'[handle[x].cell], asked'[handle[x].cell], handle[x].stack)
              /\ Bottom[handle[x].stack] = "map" =>
                    Holds(content'[handle[x].cell], seen'[handle[x].cell], handle[x].stack)
  <2>1. CASE handle[x].cell = e
    BY Zenon, <1>3, <1>4, <1>7, <1>13, <1>15, <2>1, EmptyFact
  <2>2. CASE handle[x].cell # e
    BY Zenon, <1>1, <1>8, <1>13, <1>15, <2>2 DEF CellsRight
  <2>3. QED
    BY Zenon, <2>1, <2>2
<1>16. ASSUME NEW f \in Cells, \A x \in Clients : Has(x) => handle[x].cell # f
       PROVE  /\ content'[f] = content[f] /\ seen'[f] = seen[f]
              /\ record'[f] = record[f] /\ asked'[f] = asked[f]
  <2>1. f # e /\ f \in Homes /\ f # Db
    BY <1>2, <1>9, <1>16, StackAssumption DEF Homes, Cells
  <2>2. QED
    BY Zenon, <1>13, <2>1
<1>17. QED
  BY Zenon, <1>2, <1>12, <1>14, <1>15, <1>16, SameHandles

\* discard: the cell has recorded nothing any more.
LEMMA DiscardStep ==
    ASSUME StackInv, NEW c \in Clients, discard(c)
    PROVE  StackInv'
<1> DEFINE s == handle[c].stack
           e == handle[c].cell
<1>1. Typed /\ HandlesFit /\ CellsRight /\ DatabaseIs(content[Db], seen[Db])
  BY DEF StackInv, DatabaseRight
<1>2. Has(c) /\ handle' = handle /\ UNCHANGED <<content, seen>>
  BY DEF discard, Supports
<1>3. s \in Stacks /\ e \in Cells
  BY Zenon, <1>1, <1>2, HandleFact
<1>4. /\ record' = [record EXCEPT ![e] = Clean]
      /\ asked' = [asked EXCEPT ![e] = NothingAsked]
  BY Zenon DEF discard, cleared
<1>5. ASSUME NEW x \in Clients, Has(x), handle[x].cell = e PROVE handle[x].stack = s
  BY Zenon, <1>1, <1>2, <1>5 DEF HandlesFit
<1>6. \A x \in Clients : Has(x) => handle[x].cell \in Cells
  BY Zenon, <1>1, HandleFact
<1>7. \A f \in Cells : (\A x \in Clients : Has(x) => handle[x].cell # f) => f # e
  BY Zenon, <1>2
<1> HIDE DEF s, e
<1>8. Typed'
  <2>1. Clean \in [Places -> Recorded] /\ NothingAsked \in [Keys -> Recorded]
    BY DEF Clean, NothingAsked, Recorded
  <2>2. QED
    BY <1>1, <1>2, <1>3, <1>4, <2>1 DEF Typed
<1>9. /\ record'[e] = Clean /\ asked'[e] = NothingAsked
      /\ \A f \in Cells : f # e => record'[f] = record[f] /\ asked'[f] = asked[f]
  BY <1>1, <1>3, <1>4 DEF Typed
<1>10. ASSUME NEW x \in Clients, Has(x)
       PROVE  /\ RecordIs(record'[handle[x].cell], asked'[handle[x].cell], handle[x].stack)
              /\ Bottom[handle[x].stack] = "map" =>
                    Holds(content'[handle[x].cell], seen'[handle[x].cell], handle[x].stack)
  <2>1. CASE handle[x].cell = e
    BY Zenon, <1>1, <1>2, <1>3, <1>5, <1>9, <1>10, <2>1, EmptyFact DEF CellsRight
  <2>2. CASE handle[x].cell # e
    BY Zenon, <1>1, <1>2, <1>6, <1>9, <1>10, <2>2 DEF CellsRight
  <2>3. QED
    BY Zenon, <2>1, <2>2
<1>11. QED
  BY Zenon, <1>1, <1>2, <1>7, <1>8, <1>9, <1>10, SameHandles

\* A new stack is made over a cell that nobody uses, which is empty.
LEMMA NewStep ==
    ASSUME StackInv, NEW c \in Clients, NEW s \in Stacks, new_stack(c, s)
    PROVE  StackInv'
<1> DEFINE made == [kind |-> "store", stack |-> s, cell |-> c]
<1>1. Typed /\ HandlesFit /\ UnusedAreEmpty /\ CellsRight
  BY DEF StackInv
<1>2. /\ ~Has(c) /\ \A x \in Clients : Has(x) => handle[x].cell # c
      /\ handle' = [handle EXCEPT ![c] = made]
      /\ UNCHANGED <<content, record, asked, seen>>
  BY DEF new_stack, Fresh, Has, historyVars
<1>3. /\ made \in Handle /\ made # NoHandle /\ made.kind \in KindsOf(s) /\ c \in Cells
      /\ made.stack = s /\ made.cell = c
  BY DEF Handle, Kinds, NoHandle, KindsOf, Cells
<1> HIDE DEF made
<1>4. Typed'
  BY <1>1, <1>2, <1>3 DEF Typed
<1>5. handle'[c] = made /\ \A x \in Clients : x # c => handle'[x] = handle[x]
  BY <1>1, <1>2 DEF Typed
<1>6. HandlesFit'
  <2>1. ASSUME NEW x \in Clients, Has(x)'
        PROVE  handle'[x].kind \in KindsOf(handle'[x].stack)
    BY Zenon, <1>1, <1>3, <1>5, <2>1 DEF HandlesFit, Has
  <2>2. ASSUME NEW x \in Clients, Has(x)', NEW y \in Clients, Has(y)', handle'[y].cell = handle'[x].cell
        PROVE  handle'[y].stack = handle'[x].stack
    <3>1. CASE x = c \/ y = c
      <4>1. ASSUME NEW z \in Clients, z # c, Has(z)' PROVE handle'[z].cell # c
        BY Zenon, <1>2, <1>5, <4>1 DEF Has
      <4>2. x = y
        BY Zenon, <1>3, <1>5, <2>2, <3>1, <4>1
      <4>3. QED
        BY <4>2
    <3>2. CASE x # c /\ y # c
      <4>1. /\ Has(x) /\ Has(y) /\ handle'[x] = handle[x] /\ handle'[y] = handle[y]
            /\ handle[y].cell = handle[x].cell
        BY Zenon, <1>5, <2>2, <3>2 DEF Has
      <4>2. handle[y].stack = handle[x].stack
        BY Zenon, <1>1, <4>1 DEF HandlesFit
      <4>3. QED
        BY Zenon, <4>1, <4>2
    <3>3. QED
      BY Zenon, <3>1, <3>2
  <2>3. QED
    BY Zenon, <2>1, <2>2 DEF HandlesFit
<1>7. UnusedAreEmpty'
  <2> SUFFICES ASSUME NEW e \in Cells, \A x \in Clients : Has(x)' => handle'[x].cell # e
               PROVE  \A x \in Clients : Has(x) => handle[x].cell # e
    BY Zenon, <1>1, <1>2 DEF UnusedAreEmpty
  <2>1. QED
    BY Zenon, <1>2, <1>5 DEF Has
<1>8. CellsRight'
  <2>1. record[c] = Clean /\ asked[c] = NothingAsked /\ content[c] = Empty /\ seen[c] = NothingSeen
    BY Zenon, <1>1, <1>2, <1>3 DEF UnusedAreEmpty
  <2>2. RecordIs(record[c], asked[c], s) /\ Holds(content[c], seen[c], s)
    BY Zenon, <2>1, EmptyFact
  <2>3. QED
    BY Zenon, <1>1, <1>2, <1>3, <1>5, <2>2 DEF CellsRight, Has
<1>9. QED
  BY Zenon, <1>2, <1>4, <1>6, <1>7, <1>8 DEF StackInv, DatabaseRight

\* clone, batch and txn: the new handle shares the cell, or has a copy of it that
\* nobody else uses.
LEMMA CloneStep ==
    ASSUME StackInv, NEW c \in Clients, NEW d \in Clients, NEW kind \in Kinds, Has(c),
           kind \in KindsOf(handle[c].stack), clone_as(c, d, kind)
    PROVE  StackInv'
<1> DEFINE s == handle[c].stack
           from == handle[c].cell
           to == IF IsShared(s) THEN from ELSE d
           made == [handle[c] EXCEPT !.kind = kind, !.cell = to]
<1>1. Typed /\ HandlesFit /\ UnusedAreEmpty /\ CellsRight
  BY DEF StackInv
<1>2. /\ ~Has(d) /\ \A x \in Clients : Has(x) => handle[x].cell # d
      /\ handle' = [handle EXCEPT ![d] = made]
      /\ content' = [content EXCEPT ![to] = content[from]]
      /\ record' = [record EXCEPT ![to] = record[from]]
      /\ asked' = [asked EXCEPT ![to] = asked[from]]
      /\ seen' = [seen EXCEPT ![to] = seen[from]]
  BY Zenon DEF clone_as, Fresh, Has
<1>3. handle[c] \in Handle /\ s \in Stacks /\ from \in Cells /\ from # d
  BY Zenon, <1>1, <1>2, HandleFact
<1>4. /\ to \in Cells /\ to \in Homes /\ from \in Homes /\ to # Db
      /\ to = from \/ to = d
  BY <1>3, StackAssumption DEF Cells, Homes
<1>5. /\ made \in Handle /\ made # NoHandle /\ made.kind = kind /\ made.stack = s
      /\ made.cell = to
  <2> HIDE DEF to
  <2>1. made \in Handle
    BY Zenon, <1>3, <1>4 DEF Handle
  <2>2. made # NoHandle
    BY <2>1 DEF Handle, Kinds, NoHandle
  <2>3. QED
    BY <1>3, <2>1, <2>2 DEF Handle
<1> HIDE DEF made
<1>7. /\ \A x \in Clients : x # d => handle'[x] = handle[x]
      /\ handle'[d] = made
  BY <1>1, <1>2 DEF Typed
<1>8. ASSUME NEW x \in Clients, Has(x), handle[x].cell = from PROVE handle[x].stack = s
  BY Zenon, <1>1, <1>8 DEF HandlesFit
<1>9. RecordIs(record[from], asked[from], s) /\ (Bottom[s] = "map" => Holds(content[from], seen[from], s))
  BY Zenon, <1>1 DEF CellsRight
<1> HIDE DEF s, from, to
<1>10. Typed'
  BY SMTT(20), <1>1, <1>2, <1>3, <1>4, <1>5 DEF Typed
<1>11. /\ content'[to] = content[from] /\ seen'[to] = seen[from]
       /\ record'[to] = record[from] /\ asked'[to] = asked[from]
       /\ \A e \in Cells : e # d => /\ content'[e] = content[e] /\ seen'[e] = seen[e]
                                   /\ record'[e] = record[e] /\ asked'[e] = asked[e]
       /\ content'[Db] = content[Db] /\ seen'[Db] = seen[Db]
  BY <1>1, <1>2, <1>3, <1>4 DEF Typed, Homes
<1>12. \A x \in Clients : Has(x) => handle[x].cell \in Cells /\ x # d
  BY Zenon, <1>1, <1>2, HandleFact
<1>13. \A x \in Clients : Has(x)' => x = d \/ Has(x)
  BY Zenon, <1>7 DEF Has
<1>14. HandlesFit'
  <2>1. ASSUME NEW x \in Clients, Has(x)'
        PROVE  handle'[x].kind \in KindsOf(handle'[x].stack)
    <3>1. CASE x = d
      BY Zenon, <1>5, <1>7, <3>1 DEF s
    <3>2. CASE x # d
      BY Zenon, <1>1, <1>7, <1>13, <2>1, <3>2 DEF HandlesFit
    <3>3. QED
      BY Zenon, <3>1, <3>2
  <2>2. ASSUME NEW x \in Clients, Has(x)', handle'[x].cell = to PROVE handle'[x].stack = s
    <3>1. CASE x = d
      BY Zenon, <1>5, <1>7, <3>1
    <3>2. CASE x # d
      <4>1. Has(x) /\ handle'[x] = handle[x] /\ handle[x].cell = to /\ to # d
        BY Zenon, <1>2, <1>7, <1>13, <2>2, <3>2
      <4>2. QED
        BY Zenon, <1>4, <1>8, <4>1
    <3>3. QED
      BY Zenon, <3>1, <3>2
  <2>3. ASSUME NEW x \in Clients, Has(x)', NEW y \in Clients, Has(y)', handle'[y].cell = handle'[x].cell
        PROVE  handle'[y].stack = handle'[x].stack
    <3>1. CASE x = d \/ y = d
      <4>1. handle'[x].cell = to /\ handle'[y].cell = to
        BY Zenon, <1>5, <1>7, <2>3, <3>1
      <4>2. QED
        BY Zenon, <2>2, <2>3, <4>1
    <3>2. CASE x # d /\ y # d
      <4>1. /\ Has(x) /\ Has(y) /\ handle'[x] = handle[x] /\ handle'[y] = handle[y]
            /\ handle[y].cell = handle[x].cell
        BY Zenon, <1>7, <1>13, <2>3, <3>2
      <4>2. handle[y].stack = handle[x].stack
        BY Zenon, <1>1, <4>1 DEF HandlesFit
      <4>3. QED
        BY Zenon, <4>1, <4>2
    <3>3. QED
      BY Zenon, <3>1, <3>2
  <2>4. QED
    BY Zenon, <2>1, <2>3 DEF HandlesFit
<1>15. UnusedAreEmpty'
  <2> SUFFICES ASSUME NEW e \in Cells, \A x \in Clients : Has(x)' => handle'[x].cell # e
               PROVE  /\ content'[e] = Empty /\ seen'[e] = NothingSeen
                      /\ record'[e] = Clean /\ asked'[e] = NothingAsked
    BY Zenon DEF UnusedAreEmpty
  <2>1. \A x \in Clients : Has(x) => handle[x].cell # e
    BY Zenon, <1>7, <1>12 DEF Has
  <2>2. e # to
    BY Zenon, <1>5, <1>7 DEF Has
  <2>3. /\ content[e] = Empty /\ seen[e] = NothingSeen
        /\ record[e] = Clean /\ asked[e] = NothingAsked
    BY Zenon, <1>1, <2>1 DEF UnusedAreEmpty
  <2>4. QED
    BY <1>1, <1>2, <1>4, <2>2, <2>3 DEF Typed, Homes
<1>16. CellsRight'
  <2>1. ASSUME NEW x \in Clients, Has(x)'
        PROVE  /\ RecordIs(record'[handle'[x].cell], asked'[handle'[x].cell], handle'[x].stack)
               /\ Bottom[handle'[x].stack] = "map" =>
                     Holds(content'[handle'[x].cell], seen'[handle'[x].cell], handle'[x].stack)
    <3>1. CASE x = d
      BY Zenon, <1>5, <1>7, <1>9, <1>11, <3>1
    <3>2. CASE x # d
      <4>1. Has(x) /\ handle'[x] = handle[x] /\ handle[x].cell \in Cells /\ handle[x].cell # d
        BY Zenon, <1>2, <1>7, <1>12, <1>13, <2>1, <3>2
      <4>2. LET e == handle[x].cell
            IN  /\ content'[e] = content[e] /\ seen'[e] = seen[e]
                /\ record'[e] = record[e] /\ asked'[e] = asked[e]
        BY Zenon, <1>11, <4>1
      <4>3. QED
        BY Zenon, <1>1, <4>1, <4>2 DEF CellsRight
    <3>3. QED
      BY Zenon, <3>1, <3>2
  <2>2. QED
    BY Zenon, <2>1 DEF CellsRight
<1>17. DatabaseRight'
  BY Zenon, <1>11 DEF StackInv, DatabaseRight
<1>18. QED
  BY Zenon, <1>10, <1>14, <1>15, <1>16, <1>17 DEF StackInv

\* drop: the cell stays as it is while another client has a handle on it, and is gone
\* with the last one.
LEMMA DropStep ==
    ASSUME StackInv, NEW c \in Clients, drop(c)
    PROVE  StackInv'
<1> DEFINE e == handle[c].cell
           used == \E x \in Clients \ {c} : Has(x) /\ handle[x].cell = e
<1>1. Typed /\ HandlesFit /\ UnusedAreEmpty /\ CellsRight
  BY SMTT(20) DEF StackInv
<1>2. Has(c) /\ handle' = [handle EXCEPT ![c] = NoHandle]
  BY SMTT(20) DEF drop
<1>3. \/ used /\ UNCHANGED <<content, record, asked, seen>>
      \/ /\ ~used
         /\ content' = [content EXCEPT ![e] = Empty] /\ seen' = [seen EXCEPT ![e] = NothingSeen]
         /\ record' = [record EXCEPT ![e] = Clean] /\ asked' = [asked EXCEPT ![e] = NothingAsked]
  BY DEF drop, cleared, historyVars
<1>4. e \in Cells /\ e \in Homes /\ e # Db /\ Db \in Homes /\ Cells \subseteq Homes
  BY Zenon, <1>1, <1>2, HandleFact DEF Homes
<1>5. /\ handle'[c] = NoHandle /\ ~Has(c)'
      /\ \A x \in Clients : x # c => handle'[x] = handle[x] /\ (Has(x)' <=> Has(x))
  BY <1>1, <1>2 DEF Typed, Has
<1>6. ~used => \A x \in Clients : x # c /\ Has(x) => handle[x].cell # e
  BY Zenon
<1>7. used => \E x \in Clients : x # c /\ Has(x) /\ handle[x].cell = e
  BY Zenon
<1> HIDE DEF e, used
<1>8. Typed'
  <2>1. /\ Clean \in [Places -> Recorded] /\ NothingAsked \in [Keys -> Recorded]
        /\ Empty \in [Places -> Stored] /\ NothingSeen \in [Stacks -> [Keys -> Stored]]
    BY DEF Clean, NothingAsked, Empty, NothingSeen, Recorded, Stored
  <2>2. handle' \in [Clients -> Handle \cup {NoHandle}]
    BY <1>1, <1>2 DEF Typed
  <2>3. CASE used /\ UNCHANGED <<content, record, asked, seen>>
    BY <1>1, <2>2, <2>3 DEF Typed
  <2>4. CASE ~used
    <3>1. /\ content' = [content EXCEPT ![e] = Empty] /\ seen' = [seen EXCEPT ![e] = NothingSeen]
          /\ record' = [record EXCEPT ![e] = Clean] /\ asked' = [asked EXCEPT ![e] = NothingAsked]
      BY Zenon, <1>3, <2>4
    <3>2. QED
      BY Zenon, <1>1, <2>1, <2>2, <3>1 DEF Typed
  <2>5. QED
    BY Zenon, <1>3, <2>3, <2>4
<1>9. /\ \A f \in Homes : f # e \/ used => /\ content'[f] = content[f] /\ seen'[f] = seen[f]
      /\ \A f \in Cells : f # e \/ used => /\ record'[f] = record[f] /\ asked'[f] = asked[f]
      /\ ~used => /\ content'[e] = Empty /\ seen'[e] = NothingSeen
                  /\ record'[e] = Clean /\ asked'[e] = NothingAsked
  BY <1>1, <1>3, <1>4 DEF Typed
<1>10. HandlesFit'
  <2>1. ASSUME NEW x \in Clients, Has(x)'
        PROVE  handle'[x].kind \in KindsOf(handle'[x].stack)
    <3>1. Has(x) /\ handle'[x] = handle[x]
      BY Zenon, <1>5, <2>1
    <3>2. QED
      BY Zenon, <1>1, <3>1 DEF HandlesFit
  <2>2. ASSUME NEW x \in Clients, Has(x)', NEW y \in Clients, Has(y)', handle'[y].cell = handle'[x].cell
        PROVE  handle'[y].stack = handle'[x].stack
    <3>1. /\ Has(x) /\ Has(y) /\ handle'[x] = handle[x] /\ handle'[y] = handle[y]
          /\ handle[y].cell = handle[x].cell
      BY Zenon, <1>5, <2>2
    <3>2. handle[y].stack = handle[x].stack
      BY Zenon, <1>1, <3>1 DEF HandlesFit
    <3>3. QED
      BY Zenon, <3>1, <3>2
  <2>3. QED
    BY Zenon, <2>1, <2>2 DEF HandlesFit
<1>11. UnusedAreEmpty'
  <2> SUFFICES ASSUME NEW f \in Cells, \A x \in Clients : Has(x)' => handle'[x].cell # f
               PROVE  /\ content'[f] = Empty /\ seen'[f] = NothingSeen
                      /\ record'[f] = Clean /\ asked'[f] = NothingAsked
    BY Zenon DEF UnusedAreEmpty
  <2>1. \A x \in Clients : x # c /\ Has(x) => handle[x].cell # f
    BY Zenon, <1>5
  <2>2. CASE f = e
    BY Zenon, <1>7, <1>9, <2>1, <2>2
  <2>3. CASE f # e
    <3>1. \A x \in Clients : Has(x) => handle[x].cell # f
      BY Zenon, <2>1, <2>3 DEF e
    <3>2. /\ content[f] = Empty /\ seen[f] = NothingSeen
          /\ record[f] = Clean /\ asked[f] = NothingAsked
      BY Zenon, <1>1, <3>1 DEF UnusedAreEmpty
    <3>3. QED
      BY Zenon, <1>4, <1>9, <2>3, <3>2
  <2>4. QED
    BY Zenon, <2>2, <2>3
<1>12. CellsRight'
  <2>1. ASSUME NEW x \in Clients, Has(x)'
        PROVE  /\ RecordIs(record'[handle'[x].cell], asked'[handle'[x].cell], handle'[x].stack)
               /\ Bottom[handle'[x].stack] = "map" =>
                     Holds(content'[handle'[x].cell], seen'[handle'[x].cell], handle'[x].stack)
    <3>1. x # c /\ Has(x) /\ handle'[x] = handle[x]
      BY Zenon, <1>5, <2>1
    <3>2. handle[x].cell \in Cells /\ handle[x].cell \in Homes /\ (used \/ handle[x].cell # e)
      BY Zenon, <1>1, <1>6, <3>1, HandleFact
    <3>3. LET f == handle[x].cell
          IN  /\ content'[f] = content[f] /\ seen'[f] = seen[f]
              /\ record'[f] = record[f] /\ asked'[f] = asked[f]
      BY Zenon, <1>9, <3>2
    <3>4. QED
      BY Zenon, <1>1, <3>1, <3>3 DEF CellsRight
  <2>2. QED
    BY Zenon, <2>1 DEF CellsRight
<1>13. DatabaseRight'
  BY Zenon, <1>4, <1>9 DEF StackInv, DatabaseRight
<1>14. QED
  BY Zenon, <1>8, <1>10, <1>11, <1>12, <1>13 DEF StackInv

\* Every operation preserves the invariant.
LEMMA StackNext == StackInv /\ [Next]_vars => StackInv'
<1> SUFFICES ASSUME StackInv, [Next]_vars PROVE StackInv'
  OBVIOUS
<1>1. ASSUME NEW c \in Clients, NEW s \in Stacks, new_stack(c, s) PROVE StackInv'
  BY Zenon, <1>1, NewStep
<1>2. ASSUME NEW c \in Clients, NEW d \in Clients, clone(c, d) \/ batch(c, d) \/ txn(c, d)
      PROVE  StackInv'
  <2>1. Has(c)
    BY <1>2 DEF clone, batch, txn, MakesFrom
  <2>2. PICK kind \in Kinds : kind \in KindsOf(handle[c].stack) /\ clone_as(c, d, kind)
    <3>1. handle[c].kind \in KindsOf(handle[c].stack) /\ handle[c].kind \in Kinds
      BY Zenon, <2>1, HandleFact DEF StackInv, HandlesFit
    <3>2. CASE clone(c, d)
      BY Zenon, <3>1, <3>2 DEF clone
    <3>3. CASE batch(c, d) \/ txn(c, d)
      BY <3>3 DEF batch, txn, MakesFrom, KindsOf, Kinds
    <3>4. QED
      BY <1>2, <3>2, <3>3
  <2>3. QED
    BY Zenon, <2>1, <2>2, CloneStep
<1>3. ASSUME NEW c \in Clients, drop(c) \/ commit(c) \/ discard(c) PROVE StackInv'
  BY Zenon, <1>3, DropStep, CommitStep, DiscardStep
<1>4. ASSUME NEW c \in Clients, NEW k \in Keys, delete(c, k) \/ \E v \in Values : put(c, k, v)
      PROVE  StackInv'
  <2>1. \E op \in {"put", "delete"}, v \in Stored : write(c, op, k, v)
    BY ZenonT(40), <1>4 DEF delete, put, Stored
  <2>2. QED
    BY Zenon, <2>1, WriteStep
<1>5. CASE UNCHANGED vars
  <2>1. UNCHANGED <<handle, content, record, asked, seen>>
    BY <1>5 DEF vars, historyVars
  <2>2. QED
    BY ZenonT(40), <2>1 DEF StackInv, Typed, HandlesFit, UnusedAreEmpty, CellsRight, DatabaseRight, Has
<1>6. QED
  BY Zenon, <1>1, <1>2, <1>3, <1>4, <1>5 DEF Next

\* It holds in every reachable state.
LEMMA StackInvariance == Spec => []StackInv
BY StackInit, StackNext, PTL DEF Spec

-----------------------------------------------------------------------------
(* The theorems.                                                           *)

\* What a get returns to the client of a handle.
LEMMA GetFact ==
    ASSUME StackInv, NEW c \in Clients, Has(c), NEW k \in Keys
    PROVE  LET s == handle[c].stack
           IN  get(c, k) = seen[IF Bottom[s] = "map" THEN handle[c].cell ELSE Db][s][k]
<1> DEFINE s == handle[c].stack
           e == handle[c].cell
<1>1. s \in Stacks /\ handle[c].kind \in KindsOf(s)
  BY ZenonT(40), HandleFact DEF StackInv, HandlesFit
<1>2. Below(c, "get", k) = Place[s][k]
  BY <1>1, BelowFact DEF Below, DataOps
<1>3. Bottom[s] = "map" => content[e][Place[s][k]] = seen[e][s][k]
  BY Zenon DEF StackInv, CellsRight, Holds
<1>4. Bottom[s] = "txn" => content[Db][Place[s][k]] = seen[Db][s][k]
  BY Zenon, <1>1 DEF StackInv, DatabaseRight, DatabaseIs, Holds
<1>5. Bottom[s] # "txn" => seen[Db][s][k] = Absent
  BY SMTT(20), <1>1 DEF StackInv, DatabaseRight, DatabaseIs, NothingSeen
<1>6. Bottom[s] \in {"map", "dummy", "txn"}
  BY <1>1, StackAssumption
<1>7. get(c, k) = IF Bottom[s] = "dummy" THEN Absent
                  ELSE content[IF Bottom[s] = "map" THEN e ELSE Db][Place[s][k]]
  BY Zenon, <1>2 DEF get
<1> HIDE DEF s, e
<1>8. get(c, k) = seen[IF Bottom[s] = "map" THEN e ELSE Db][s][k]
  BY <1>3, <1>4, <1>5, <1>6, <1>7
<1>9. QED
  BY Zenon, <1>8 DEF s, e

\* Whatever stacks are built, of how many wrappers and in which order, and whatever the
\* clients of the others do: get returns what was last written or committed through the
\* same stack.
THEOREM ViewsKeptApart == Spec => []ViewsKeepApart
<1>1. StackInv => ViewsKeepApart
  BY Zenon, GetFact DEF ViewsKeepApart
<1>2. QED
  BY <1>1, StackInvariance, PTL

\* However batches and transactions are made from each other, copied, shared, refused and
\* dropped, a record holds what was put and deleted through its own handles, each key
\* where the transforms take it, and nothing else.
THEOREM RecordsAreAsked == Spec => []RecordIsAsked
<1>1. StackInv => RecordIsAsked
  <2> SUFFICES ASSUME StackInv PROVE RecordIsAsked
    OBVIOUS
  <2>1. TypeOK
    <3>1. \A c \in Clients : Has(c) =>
            handle[c].kind \in {"store", "batch", "txn"} /\ handle[c].cell \in Cells
      BY Zenon, HandleFact DEF StackInv, Kinds
    <3>2. QED
      BY Zenon, <3>1 DEF StackInv, Typed, TypeOK
  <2>2. ASSUME NEW c \in Clients, Has(c)
        PROVE  LET s == handle[c].stack
               IN  /\ \A k \in Keys : record[handle[c].cell][Place[s][k]] = asked[handle[c].cell][k]
                   /\ \A p \in Places \ {Place[s][k] : k \in Keys} :
                         record[handle[c].cell][p] = Untouched
    <3>1. RecordIs(record[handle[c].cell], asked[handle[c].cell], handle[c].stack)
      BY Zenon, <2>2 DEF StackInv, CellsRight
    <3>2. QED
      BY ZenonT(40), <3>1 DEF RecordIs
  <2>3. QED
    BY Zenon, <2>1, <2>2 DEF RecordIsAsked
<1>2. QED
  BY <1>1, StackInvariance, PTL

-----------------------------------------------------------------------------
(* Keys: induction and recursion.                                          *)

\* What the lemmas use of the library: numbers are well ordered.
LeastExists == \A S \in SUBSET Nat : S # {} => \E m \in S : \A k \in S : m <= k

\* A set of numbers has a least.
LEMMA Least ==
    ASSUME LeastExists, NEW S \in SUBSET Nat, S # {}
    PROVE  \E m \in S : \A k \in S : m <= k
  BY Zenon DEF LeastExists

\* A set of numbers up to n has a greatest.
LEMMA Greatest ==
    ASSUME LeastExists, NEW n \in Nat, NEW S \in SUBSET (0 .. n), S # {}
    PROVE  \E m \in S : \A k \in S : k <= m
<1> DEFINE T == {n - k : k \in S}
<1>1. T \in SUBSET Nat /\ T # {}
  <2>1. \A k \in S : n - k \in Nat
    OBVIOUS
  <2> QED
    BY Zenon, <2>1
<1>2. PICK t \in T : \A u \in T : t <= u
  BY Zenon, <1>1, Least
<1>3. PICK m \in S : t = n - m
  BY Zenon
<1>4. ASSUME NEW k \in S PROVE k <= m
  <2>1. n - m <= n - k
    BY SMTT(20), <1>2, <1>3
  <2> QED
    BY <2>1
<1> QED
  BY <1>4

\* Induction over the numbers.
LEMMA Induction ==
    ASSUME LeastExists, NEW S, 0 \in S, \A n \in Nat : n \in S => n + 1 \in S
    PROVE  \A n \in Nat : n \in S
<1> SUFFICES ASSUME NEW k \in Nat, k \notin S PROVE FALSE
  BY Zenon
<1> DEFINE T == {n \in Nat : n \notin S}
<1>1. T \in SUBSET Nat /\ T # {}
  BY Zenon
<1>2. PICK n \in T : \A j \in T : n <= j
  <2> HIDE DEF T
  <2> QED
    BY Zenon, <1>1, Least
<1>3. n \in Nat /\ n # 0
  BY Zenon
<1>4. n - 1 \in Nat /\ (n - 1) + 1 = n /\ ~(n <= n - 1)
  BY <1>3
<1>5. n - 1 \in S
  BY Zenon, <1>2, <1>4
<1> QED
  BY Zenon, <1>4, <1>5

\* What a recursive equation gives for x, and that it has a solution.
Body(f, x, pre, B, base, step) == IF x \in B THEN base[x] ELSE step[<<x, f[pre[x]]>>]
HasSolution(X, V, pre, B, base, step) ==
    \E f \in [X -> V] : \A x \in X : f[x] = Body(f, x, pre, B, base, step)

\* A recursive equation whose argument gets smaller in some measure has a solution.
LEMMA Recursion ==
    ASSUME LeastExists, NEW X, NEW V, NEW m \in [X -> Nat], NEW pre \in [X -> X], NEW B,
           \A x \in X : x \notin B => m[pre[x]] < m[x],
           NEW base \in [X -> V], NEW step \in [X \X V -> V]
    PROVE  HasSolution(X, V, pre, B, base, step)
<1> DEFINE E(f, x) == Body(f, x, pre, B, base, step)
           Sat(f, n) == \A x \in X : m[x] < n => f[x] = E(f, x)
<1>e. \A f, x : E(f, x) = IF x \in B THEN base[x] ELSE step[<<x, f[pre[x]]>>]
  BY Zenon DEF Body
<1>t. \A f \in [X -> V] : \A x \in X : E(f, x) \in V
  <2> TAKE f \in [X -> V]
  <2> TAKE x \in X
  <2>1. base[x] \in V /\ f[pre[x]] \in V
    BY Zenon
  <2>2. <<x, f[pre[x]]>> \in X \X V
    BY Zenon, <2>1
  <2>3. step[<<x, f[pre[x]]>>] \in V
    BY Zenon, <2>2
  <2> QED
    BY Zenon, <2>1, <2>3, <1>e
<1> HIDE DEF E
<1>1. \A n \in Nat : \E f \in [X -> V] : Sat(f, n)
  <2> DEFINE S == {n \in Nat : \E f \in [X -> V] : Sat(f, n)}
  <2>1. 0 \in S
    <3>1. \A x \in X : ~(m[x] < 0)
      OBVIOUS
    <3>2. Sat(base, 0)
      BY Zenon, <3>1
    <3> HIDE DEF Sat
    <3> QED
      BY Zenon, <3>2
  <2>2. ASSUME NEW n \in Nat, n \in S PROVE n + 1 \in S
    <3>1. PICK f \in [X -> V] : Sat(f, n)
      BY Zenon, <2>2
    <3> DEFINE g == [x \in X |-> E(f, x)]
    <3>2. g \in [X -> V] /\ \A x \in X : g[x] = E(f, x)
      BY Zenon, <1>t
    <3> HIDE DEF g
    <3>3. ASSUME NEW x \in X, m[x] < n + 1 PROVE g[x] = E(g, x)
      <4>1. CASE x \in B
        BY Zenon, <1>e, <3>2, <4>1
      <4>2. CASE x \notin B
        <5>1. m[pre[x]] < n /\ pre[x] \in X
          <6>1. m[pre[x]] < m[x] /\ pre[x] \in X
            BY Zenon, <4>2
          <6>2. m[pre[x]] \in Nat /\ m[x] \in Nat
            BY Zenon, <6>1
          <6> QED
            BY ONLY <3>3, <6>1, <6>2, n \in Nat
        <5>2. f[pre[x]] = g[pre[x]]
          <6>1. f[pre[x]] = E(f, pre[x])
            BY Zenon, <3>1, <5>1
          <6>2. g[pre[x]] = E(f, pre[x])
            BY Zenon, <3>2, <5>1
          <6> QED
            BY ONLY Zenon, <6>1, <6>2
        <5> QED
          BY Zenon, <1>e, <3>2, <4>2, <5>2
      <4> QED
        BY Zenon, <4>1, <4>2
    <3>4. Sat(g, n + 1) /\ n + 1 \in Nat
      BY <3>3
    <3> HIDE DEF Sat
    <3> QED
      BY Zenon, <3>2, <3>4
  <2>3. \A n \in Nat : n \in S
    <3> HIDE DEF S
    <3> QED
      BY Zenon, <2>1, <2>2, Induction
  <2> QED
    BY Zenon, <2>3
<1>2. ASSUME NEW n \in Nat, NEW f \in [X -> V], NEW g \in [X -> V], Sat(f, n), Sat(g, n),
             NEW y \in X, m[y] < n
      PROVE  f[y] = g[y]
  <2> DEFINE S == {k \in Nat : \A x \in X : m[x] < k /\ m[x] < n => f[x] = g[x]}
  <2>1. 0 \in S
    <3>1. \A x \in X : ~(m[x] < 0)
      OBVIOUS
    <3> QED
      BY Zenon, <3>1
  <2>2. ASSUME NEW k \in Nat, k \in S PROVE k + 1 \in S
    <3>1. ASSUME NEW x \in X, m[x] < k + 1, m[x] < n PROVE f[x] = g[x]
      <4>0. f[x] = E(f, x) /\ g[x] = E(g, x)
        BY Zenon, <1>2, <3>1
      <4>1. CASE x \in B
        BY Zenon, <1>e, <4>0, <4>1
      <4>2. CASE x \notin B
        <5>1. m[pre[x]] < k /\ m[pre[x]] < n /\ pre[x] \in X
          <6>1. m[pre[x]] < m[x] /\ pre[x] \in X
            BY Zenon, <4>2
          <6>2. m[pre[x]] \in Nat /\ m[x] \in Nat
            BY Zenon, <6>1
          <6> QED
            BY ONLY <3>1, <6>1, <6>2, k \in Nat, n \in Nat
        <5>2. f[pre[x]] = g[pre[x]]
          BY Zenon, <2>2, <5>1
        <5> QED
          BY Zenon, <1>e, <4>0, <4>2, <5>2
      <4> QED
        BY Zenon, <4>1, <4>2
    <3>2. k + 1 \in Nat
      OBVIOUS
    <3> QED
      BY Zenon, <3>1, <3>2
  <2>3. \A k \in Nat : k \in S
    <3> HIDE DEF S
    <3> QED
      BY Zenon, <2>1, <2>2, Induction
  <2>4. n \in S
    BY Zenon, <2>3
  <2> QED
    BY Zenon, <1>2, <2>4
<1> DEFINE G(n) == CHOOSE f \in [X -> V] : Sat(f, n)
<1>3. \A n \in Nat : G(n) \in [X -> V] /\ Sat(G(n), n)
  <2> HIDE DEF Sat
  <2> QED
    BY Zenon, <1>1
<1> HIDE DEF G
<1> DEFINE h == [x \in X |-> G(m[x] + 1)[x]]
<1>4. \A x \in X : m[x] \in Nat /\ m[x] + 1 \in Nat /\ m[x] < m[x] + 1
  <2> TAKE x \in X
  <2>1. m[x] \in Nat
    BY Zenon
  <2> QED
    BY ONLY <2>1
<1>5. h \in [X -> V] /\ \A x \in X : h[x] = G(m[x] + 1)[x]
  BY Zenon, <1>3, <1>4
<1> HIDE DEF h
<1>6. ASSUME NEW x \in X PROVE h[x] = E(h, x)
  <2> DEFINE g == G(m[x] + 1)
  <2>0. g \in [X -> V] /\ Sat(g, m[x] + 1) /\ h[x] = g[x]
    BY Zenon, <1>3, <1>4, <1>5
  <2> HIDE DEF g
  <2>1. h[x] = E(g, x)
    BY Zenon, <1>4, <2>0
  <2>2. CASE x \in B
    BY Zenon, <1>e, <2>1, <2>2
  <2>3. CASE x \notin B
    <3> DEFINE p == pre[x]
    <3>1. p \in X /\ m[p] < m[x] /\ m[p] \in Nat /\ m[p] + 1 \in Nat /\ m[p] < m[p] + 1
      BY Zenon, <1>4, <2>3
    <3> HIDE DEF p
    <3>2. Sat(g, m[p] + 1)
      <4>1. \A y \in X : m[y] < m[p] + 1 => m[y] < m[x] + 1
        <5> TAKE y \in X
        <5> QED
          BY ONLY <1>4, <3>1, x \in X, y \in X
      <4> QED
        BY Zenon, <2>0, <4>1
    <3>3. h[p] = G(m[p] + 1)[p] /\ G(m[p] + 1) \in [X -> V] /\ Sat(G(m[p] + 1), m[p] + 1)
      BY Zenon, <1>3, <1>5, <3>1
    <3>4. G(m[p] + 1)[p] = g[p]
      <4> HIDE DEF Sat
      <4> QED
        BY Zenon, <1>2, <2>0, <3>1, <3>2, <3>3
    <3> QED
      BY Zenon, <1>e, <2>1, <2>3, <3>3, <3>4 DEF p
  <2> QED
    BY Zenon, <2>2, <2>3
<1> QED
  BY Zenon, <1>5, <1>6 DEF E, HasSolution

-----------------------------------------------------------------------------
(* Keys: sequences.                                                        *)

\* What is appended to a sequence is its last.
LEMMA Appending ==
    ASSUME NEW X, NEW s \in Seq(X), NEW x \in X
    PROVE  /\ Append(s, x) \in Seq(X) /\ Append(s, x) # <<>> /\ Len(Append(s, x)) = Len(s) + 1
           /\ Key!Front(Append(s, x)) = s /\ Key!Last(Append(s, x)) = x
<1>1. Append(s, x) \in Seq(X)
  OBVIOUS
<1>2. Len(Append(s, x)) = Len(s) + 1
  OBVIOUS
<1>3. Append(s, x) # <<>>
  <2>1. Len(s) \in Nat /\ Len(<<>>) = 0
    OBVIOUS
  <2>2. Len(s) + 1 # 0
    BY ONLY <2>1
  <2> QED
    BY ONLY Zenon, <1>2, <2>1, <2>2
<1>4. Key!Front(Append(s, x)) = s /\ Key!Last(Append(s, x)) = x
  BY <1>1, <1>2, <1>3 DEF Key!Front, Key!Last
<1> QED
  BY Zenon, <1>1, <1>2, <1>3, <1>4

\* The last of a sequence, and the rest.
LEMMA Ends ==
    ASSUME NEW X, NEW s \in Seq(X), s # <<>>
    PROVE  /\ Key!Front(s) \in Seq(X) /\ Key!Last(s) \in X /\ Len(Key!Front(s)) < Len(s)
           /\ Len(Key!Front(s)) = Len(s) - 1
           /\ s = Append(Key!Front(s), Key!Last(s))
<1>1. Len(s) \in Nat \ {0}
  OBVIOUS
<1>2. Key!Front(s) \in Seq(X)
  BY <1>1 DEF Key!Front
<1>3. Key!Last(s) \in X
  BY <1>1 DEF Key!Last
<1>4. Len(Key!Front(s)) = Len(s) - 1
  <2> DEFINE n == Len(s) - 1
  <2>1. n \in 0 .. Len(s)
    BY <1>1
  <2> HIDE DEF n
  <2>2. Len(SubSeq(s, 1, n)) = n
    BY <2>1
  <2> QED
    BY Zenon, <2>2 DEF n, Key!Front
<1>5. Len(s) - 1 < Len(s)
  BY ONLY <1>1
<1>6. s = Append(Key!Front(s), Key!Last(s))
  BY DEF Key!Front, Key!Last
<1> QED
  BY ONLY Zenon, <1>2, <1>3, <1>4, <1>5, <1>6

\* Induction over sequences, from their end.
LEMMA SequenceInduction ==
    ASSUME LeastExists, NEW X, NEW P, <<>> \in P, \A s \in Seq(X), x \in X : s \in P => Append(s, x) \in P
    PROVE  \A s \in Seq(X) : s \in P
<1> DEFINE S == {n \in Nat : \A s \in Seq(X) : Len(s) = n => s \in P}
<1>1. 0 \in S
  <2>1. \A s \in Seq(X) : Len(s) = 0 => s = <<>>
    OBVIOUS
  <2> QED
    BY Zenon, <2>1
<1>2. ASSUME NEW n \in Nat, n \in S PROVE n + 1 \in S
  <2>0. n + 1 \in Nat
    OBVIOUS
  <2> SUFFICES ASSUME NEW s \in Seq(X), Len(s) = n + 1 PROVE s \in P
    BY Zenon, <2>0
  <2>1. s # <<>> /\ Len(s) - 1 = n
    OBVIOUS
  <2>2. /\ Key!Front(s) \in Seq(X) /\ Key!Last(s) \in X /\ Len(Key!Front(s)) = n
        /\ s = Append(Key!Front(s), Key!Last(s))
    BY Zenon, <2>1, Ends
  <2>3. Key!Front(s) \in P
    BY Zenon, <1>2, <2>2
  <2> QED
    BY Zenon, <2>2, <2>3
<1>3. \A n \in Nat : n \in S
  <2> HIDE DEF S
  <2> QED
    BY Zenon, <1>1, <1>2, Induction
<1> QED
  <2> TAKE s \in Seq(X)
  <2>1. Len(s) \in Nat
    OBVIOUS
  <2> QED
    BY Zenon, <1>3, <2>1

\* The function of a recursive equation along a sequence, from its end.
IsFold(g, X, base, step) ==
    \A s \in Seq(X) : g[s] = IF s = <<>> THEN base ELSE step[<<s, g[Key!Front(s)]>>]

\* Every such equation has a function.
LEMMA Fold ==
    ASSUME LeastExists, NEW X, NEW V, NEW b \in V, NEW step \in [Seq(X) \X V -> V]
    PROVE  \E g \in [Seq(X) -> V] : IsFold(g, X, b, step)
<1> DEFINE D == Seq(X)
           m == [s \in D |-> Len(s)]
           pre == [s \in D |-> IF s = <<>> THEN s ELSE Key!Front(s)]
           base == [s \in D |-> b]
           B == {<<>>}
<1>f. \A s \in D : s # <<>> => Key!Front(s) \in D /\ Len(Key!Front(s)) < Len(s)
  BY Zenon, Ends
<1>1. m \in [D -> Nat] /\ \A s \in D : m[s] = Len(s)
  OBVIOUS
<1>2. pre \in [D -> D] /\ \A s \in D : s # <<>> => pre[s] = Key!Front(s)
  BY Zenon, <1>f
<1>3. base \in [D -> V] /\ \A s \in D : base[s] = b
  BY Zenon
<1>4. \A s \in D : s \in B <=> s = <<>>
  BY Zenon
<1> HIDE DEF m, pre, base, B, D
<1>5. \A s \in D : s \notin B => m[pre[s]] < m[s]
  BY Zenon, <1>f, <1>1, <1>2, <1>4
<1>s. step \in [D \X V -> V]
  BY Zenon DEF D
<1>6. PICK f \in [D -> V] : \A s \in D : f[s] = Body(f, s, pre, B, base, step)
  <2>1. HasSolution(D, V, pre, B, base, step)
    BY Zenon, <1>1, <1>2, <1>3, <1>5, <1>s, Recursion
  <2> QED
    BY Zenon, <2>1 DEF HasSolution
<1>7. \A s \in D : f[s] = IF s = <<>> THEN b ELSE step[<<s, f[Key!Front(s)]>>]
  <2> TAKE s \in D
  <2>1. f[s] = IF s \in B THEN base[s] ELSE step[<<s, f[pre[s]]>>]
    BY Zenon, <1>6 DEF Body
  <2> QED
    BY Zenon, <1>2, <1>3, <1>4, <2>1
<1> QED
  BY Zenon, <1>6, <1>7 DEF D, IsFold

\* Concatenation.
LEMMA Concatenated ==
    ASSUME NEW X, NEW a \in Seq(X), NEW b \in Seq(X)
    PROVE  /\ a \o b \in Seq(X) /\ Len(a \o b) = Len(a) + Len(b)
           /\ \A i \in 1 .. Len(a) : (a \o b)[i] = a[i]
           /\ \A i \in 1 .. Len(b) : (a \o b)[Len(a) + i] = b[i]
           /\ a \o <<>> = a /\ <<>> \o a = a
  OBVIOUS

\* It does not matter where one starts.
LEMMA Associative ==
    ASSUME NEW X, NEW a \in Seq(X), NEW b \in Seq(X), NEW c \in Seq(X)
    PROVE  (a \o b) \o c = a \o (b \o c)
  OBVIOUS

\* Appending is concatenation with one element.
LEMMA Appended ==
    ASSUME NEW X, NEW a \in Seq(X), NEW b \in Seq(X), NEW x \in X
    PROVE  Append(a, x) = a \o <<x>> /\ Append(a \o b, x) = a \o Append(b, x)
<1>1. \A s \in Seq(X) : Append(s, x) = s \o <<x>>
  OBVIOUS
<1>2. a \o b \in Seq(X) /\ <<x>> \in Seq(X)
  OBVIOUS
<1>3. (a \o b) \o <<x>> = a \o (b \o <<x>>)
  BY <1>2, Associative
<1> QED
  BY Zenon, <1>1, <1>2, <1>3
Associates(a, b, c) == (a \o b) \o c = a \o (b \o c)
AppendsAfter(a, b, x) == Append(a \o b, x) = a \o Append(b, x)

\* The same facts, named, for any set of elements.
LEMMA AppendedTo ==
    ASSUME NEW X, NEW a \in Seq(X), NEW b \in Seq(X), NEW x \in X PROVE AppendsAfter(a, b, x)
  BY Appended DEF AppendsAfter

\* Associativity by that name.
LEMMA AssociativeIn ==
    ASSUME NEW X, NEW a \in Seq(X), NEW b \in Seq(X), NEW c \in Seq(X) PROVE Associates(a, b, c)
  BY ONLY SMT, a \in Seq(X), b \in Seq(X), c \in Seq(X) DEF Associates

\* Two sequences end as the second one does.
LEMMA EndsOfTwo ==
    ASSUME NEW X, NEW a \in Seq(X), NEW b \in Seq(X), b # <<>>
    PROVE  Key!Front(a \o b) = a \o Key!Front(b) /\ Key!Last(a \o b) = Key!Last(b) /\ a \o b # <<>>
<1>1. PICK f \in Seq(X), l \in X : f = Key!Front(b) /\ l = Key!Last(b) /\ b = Append(f, l)
  <2>1. Key!Front(b) \in Seq(X) /\ Key!Last(b) \in X /\ b = Append(Key!Front(b), Key!Last(b))
    BY Zenon, Ends
  <2> QED
    BY ONLY Zenon, <2>1
<1>2. a \o Append(f, l) = Append(a \o f, l) /\ a \o f \in Seq(X)
  BY Appended, Concatenated
<1>3. Key!Front(Append(a \o f, l)) = a \o f /\ Key!Last(Append(a \o f, l)) = l /\ Append(a \o f, l) # <<>>
  <2>1. \A g \in Seq(X) : Key!Front(Append(g, l)) = g /\ Key!Last(Append(g, l)) = l /\ Append(g, l) # <<>>
    BY Zenon, Appending
  <2> QED
    BY ONLY Zenon, <1>2, <2>1
<1> QED
  BY ONLY Zenon, <1>1, <1>2, <1>3

\* What follows the same sequence can be told apart.
LEMMA Cancelled ==
    ASSUME NEW X, NEW a \in Seq(X), NEW b \in Seq(X), NEW c \in Seq(X), a \o b = a \o c
    PROVE  b = c
<1>1. Len(a) \in Nat /\ Len(b) \in Nat /\ Len(c) \in Nat /\ Len(a) + Len(b) = Len(a) + Len(c)
  BY Concatenated
<1>2. Len(b) = Len(c)
  BY ONLY <1>1
<1>3. \A i \in 1 .. Len(b) : b[i] = c[i]
  <2> TAKE i \in 1 .. Len(b)
  <2>1. (a \o b)[Len(a) + i] = b[i]
    BY Concatenated
  <2>2. (a \o c)[Len(a) + i] = c[i]
    BY <1>2, Concatenated
  <2> QED
    BY Zenon, <2>1, <2>2
<1> QED
  BY ONLY <1>2, <1>3, b \in Seq(X), c \in Seq(X)

-----------------------------------------------------------------------------
(* Keys.  The strings without a slash, and the ones path_clean leaves.     *)

Plain == {s \in Key!Str : \A i \in 1 .. Len(s) : s[i] # "/"}
Names == {s \in Plain : s \notin {<<>>, Key!Dot, Key!DotDot}}
Several(X) == Seq(X) \ {<<>>}

\* The slash is a character.
LEMMA Characters == "/" \in Key!Char /\ Key!SLASH = <<"/">> /\ Key!SLASH \in Key!Str /\ <<>> \in Key!Str
<1>1. "/" = Key!Bytes[2] /\ 2 \in DOMAIN Key!Bytes
  BY DEF Key!Bytes
<1>2. "/" \in Key!Char
  BY ONLY Zenon, <1>1 DEF Key!Char
<1> QED
  BY ONLY <1>2 DEF Key!SLASH, Key!Str

\* Strings in a row are a string.
LEMMA StrAssociative ==
    \A s, t, u \in Key!Str : Associates(s, t, u) /\ s \o t \in Key!Str
<1>1. \A s, t, u \in Seq(Key!Char) : Associates(s, t, u)
  BY ONLY Zenon, AssociativeIn
<1>2. \A s, t \in Seq(Key!Char) : s \o t \in Seq(Key!Char)
  OBVIOUS
<1> QED
  BY ONLY Zenon, <1>1, <1>2 DEF Key!Str

\* Strings without a slash, character by character.
LEMMA PlainGrows ==
    /\ <<>> \in Plain
    /\ \A s \in Plain, c \in Key!Char : c # "/" => Append(s, c) \in Plain
    /\ \A s \in Key!Str, c \in Key!Char : Append(s, c) \in Plain => s \in Plain /\ c # "/"
<1>1. <<>> \in Plain
  BY DEF Plain, Key!Str
<1>2. ASSUME NEW s \in Key!Str, NEW c \in Key!Char
      PROVE  /\ Append(s, c) \in Key!Str
             /\ Len(s) \in Nat /\ Len(Append(s, c)) = Len(s) + 1
             /\ \A i \in 1 .. Len(s) : Append(s, c)[i] = s[i]
             /\ Append(s, c)[Len(s) + 1] = c
  BY DEF Key!Str
<1>3. ASSUME NEW s \in Plain, NEW c \in Key!Char, c # "/" PROVE Append(s, c) \in Plain
  <2>1. \A i \in 1 .. Len(s) : s[i] # "/"
    BY Zenon DEF Plain
  <2>2. s \in Key!Str
    BY Zenon DEF Plain
  <2>3. \A i \in 1 .. Len(s) + 1 : i \in 1 .. Len(s) \/ i = Len(s) + 1
    BY <1>2, <2>2
  <2>4. /\ Append(s, c) \in Key!Str /\ Len(Append(s, c)) = Len(s) + 1
        /\ \A i \in 1 .. Len(s) : Append(s, c)[i] = s[i]
        /\ Append(s, c)[Len(s) + 1] = c
    BY Zenon, <1>2, <2>2
  <2>5. \A i \in 1 .. Len(s) + 1 : Append(s, c)[i] # "/"
    BY ONLY Zenon, <1>3, <2>1, <2>3, <2>4
  <2> QED
    BY ONLY Zenon, <2>4, <2>5 DEF Plain
<1>4. ASSUME NEW s \in Key!Str, NEW c \in Key!Char, Append(s, c) \in Plain PROVE s \in Plain /\ c # "/"
  <2>1. \A i \in 1 .. Len(s) + 1 : Append(s, c)[i] # "/"
    BY Zenon, <1>2, <1>4 DEF Plain
  <2>2. (Len(s) + 1) \in 1 .. Len(s) + 1 /\ \A i \in 1 .. Len(s) : i \in 1 .. Len(s) + 1
    BY <1>2
  <2> QED
    BY ZenonT(40), <1>2, <2>1, <2>2 DEF Plain
<1> QED
  BY Zenon, <1>1, <1>3, <1>4

\* str::split('/').
LEMMA ExtendedIs ==
    ASSUME NEW v \in Several(Plain), NEW c \in Key!Char
    PROVE  Key!Extended(v, c) \in Several(Plain)
<1>1. v \in Seq(Plain) /\ v # <<>>
  BY Zenon DEF Several
<1>2. CASE c = "/"
  <2>1. Append(v, <<>>) \in Seq(Plain) /\ Append(v, <<>>) # <<>>
    BY Zenon, <1>1, PlainGrows, Appending
  <2> QED
    BY Zenon, <1>2, <2>1 DEF Key!Extended, Several
<1>3. CASE c # "/"
  <2>1. Key!Front(v) \in Seq(Plain) /\ Key!Last(v) \in Plain
    BY Zenon, <1>1, Ends
  <2>2. Append(Key!Last(v), c) \in Plain
    BY Zenon, <1>3, <2>1, PlainGrows
  <2>3. Append(Key!Front(v), Append(Key!Last(v), c)) \in Seq(Plain) /\ Append(Key!Front(v), Append(Key!Last(v), c)) # <<>>
    <3>1. \A f \in Seq(Plain), n \in Plain : Append(f, n) \in Seq(Plain) /\ Append(f, n) # <<>>
      BY ONLY Zenon, Appending
    <3> QED
      BY ONLY Zenon, <2>1, <2>2, <3>1
  <2> QED
    BY Zenon, <1>3, <2>3 DEF Key!Extended, Several
<1> QED
  BY Zenon, <1>2, <1>3

\* split() goes through a string character by character.
LEMMA SplitIs ==
    ASSUME LeastExists
    PROVE  /\ Key!Split[<<>>] = <<<<>>>>
           /\ \A s \in Key!Str, c \in Key!Char : Key!Split[Append(s, c)] = Key!Extended(Key!Split[s], c)
<1> DEFINE X == Key!Char
           V == Several(Plain)
           b == <<<<>>>>
           step == [q \in Seq(X) \X V |-> IF q[1] = <<>> THEN q[2] ELSE Key!Extended(q[2], Key!Last(q[1]))]
           Eqn(g) == g = [s \in Key!Str |-> IF s = <<>> THEN <<<<>>>>
                                             ELSE Key!Extended(g[Key!Front(s)], Key!Last(s))]
<1>1. b \in V
  BY PlainGrows DEF Several
<1>2. /\ step \in [Seq(X) \X V -> V]
      /\ \A s \in Seq(X), v \in V : s # <<>> => step[<<s, v>>] = Key!Extended(v, Key!Last(s))
  <2>1. \A s \in Seq(X), v \in V : s # <<>> => Key!Extended(v, Key!Last(s)) \in V
    BY Zenon, Ends, ExtendedIs
  <2> HIDE DEF X, V
  <2> QED
    BY Zenon, <2>1
<1>3. PICK g \in [Seq(X) -> V] : IsFold(g, X, b, step)
  <2> HIDE DEF X, V, b, step
  <2> QED
    BY Zenon, <1>1, <1>2, Fold
<1>4. Eqn(g)
  <2>1. \A s \in Seq(X) : g[s] = IF s = <<>> THEN b ELSE Key!Extended(g[Key!Front(s)], Key!Last(s))
    <3> TAKE s \in Seq(X)
    <3>1. s # <<>> => Key!Front(s) \in Seq(X)
      BY Zenon, Ends
    <3>2. g[s] = IF s = <<>> THEN b ELSE step[<<s, g[Key!Front(s)]>>]
      BY Zenon, <1>3 DEF IsFold
    <3> HIDE DEF step, b, X, V
    <3> QED
      BY Zenon, <1>2, <1>3, <3>1, <3>2
  <2>2. g = [s \in Seq(X) |-> IF s = <<>> THEN b ELSE Key!Extended(g[Key!Front(s)], Key!Last(s))]
    <3> HIDE DEF step, b, X, V
    <3> QED
      BY Zenon, <1>3, <2>1
  <2> QED
    BY ONLY Zenon, <2>2 DEF Key!Str, X, b, Eqn
<1>5. Eqn(Key!Split)
  <2>1. Key!Split = CHOOSE h : Eqn(h)
    BY Zenon DEF Key!Split
  <2> HIDE DEF Eqn
  <2> QED
    BY Zenon, <1>4, <2>1
<1>6. \A s \in Key!Str : Key!Split[s] = IF s = <<>> THEN <<<<>>>>
                                     ELSE Key!Extended(Key!Split[Key!Front(s)], Key!Last(s))
  BY ONLY Zenon, <1>5
<1>7. \A s \in Key!Str, c \in Key!Char : /\ Append(s, c) \in Key!Str /\ Append(s, c) # <<>>
                                      /\ Key!Front(Append(s, c)) = s /\ Key!Last(Append(s, c)) = c
  BY Zenon, Appending DEF Key!Str
<1>8. <<>> \in Key!Str
  BY Zenon, Characters
<1>9. ASSUME NEW s \in Key!Str, NEW c \in Key!Char PROVE Key!Split[Append(s, c)] = Key!Extended(Key!Split[s], c)
  <2>1. Key!Split[Append(s, c)] = Key!Extended(Key!Split[Key!Front(Append(s, c))], Key!Last(Append(s, c)))
    BY ONLY Zenon, <1>6, <1>7, <1>9
  <2> QED
    BY ONLY Zenon, <1>7, <1>9, <2>1
<1> QED
  BY ONLY Zenon, <1>6, <1>8, <1>9

\* [&str]::join("/").
Joined(s, v) == IF Len(s) = 1 THEN Key!Last(s) ELSE v \o Key!SLASH \o Key!Last(s)

\* join() goes through segments one by one.
LEMMA JoinIs ==
    ASSUME LeastExists
    PROVE  /\ Key!Join[<<>>] = <<>>
           /\ \A s \in Seq(Key!Str), n \in Key!Str :
                 Key!Join[Append(s, n)] = IF s = <<>> THEN n ELSE Key!Join[s] \o Key!SLASH \o n
<1> DEFINE X == Key!Str
           b == <<>>
           step == [q \in Seq(X) \X X |-> IF q[1] = <<>> THEN q[2] ELSE Joined(q[1], q[2])]
           Eqn(g) == g = [s \in Seq(Key!Str) |->
               IF s = <<>> THEN <<>> ELSE IF Len(s) = 1 THEN Key!Last(s)
                                          ELSE g[Key!Front(s)] \o Key!SLASH \o Key!Last(s)]
<1>1. b \in X
  BY Zenon, Characters
<1>2. /\ step \in [Seq(X) \X X -> X]
      /\ \A s \in Seq(X), v \in X : s # <<>> => step[<<s, v>>] = Joined(s, v)
  <2>1. \A v, n \in X : v \o Key!SLASH \o n \in X
    BY Characters DEF Key!Str
  <2>2. \A s \in Seq(X), v \in X : s # <<>> => Joined(s, v) \in X
    <3> TAKE s \in Seq(X), v \in X
    <3> HAVE s # <<>>
    <3>1. Key!Last(s) \in X
      BY Zenon, Ends
    <3> QED
      BY ONLY Zenon, v \in X, <2>1, <3>1 DEF Joined
  <2> HIDE DEF X
  <2> QED
    BY Zenon, <2>2
<1>3. PICK g \in [Seq(X) -> X] : IsFold(g, X, b, step)
  <2> HIDE DEF X, b, step
  <2> QED
    BY Zenon, <1>1, <1>2, Fold
<1>4. Eqn(g)
  <2>1. \A s \in Seq(X) : g[s] = IF s = <<>> THEN b ELSE Joined(s, g[Key!Front(s)])
    <3> TAKE s \in Seq(X)
    <3>1. s # <<>> => Key!Front(s) \in Seq(X)
      BY Zenon, Ends
    <3>2. g[s] = IF s = <<>> THEN b ELSE step[<<s, g[Key!Front(s)]>>]
      BY Zenon, <1>3 DEF IsFold
    <3> HIDE DEF step, b, X
    <3> QED
      BY Zenon, <1>2, <1>3, <3>1, <3>2
  <2>2. g = [s \in Seq(X) |-> IF s = <<>> THEN b ELSE Joined(s, g[Key!Front(s)])]
    <3> HIDE DEF step, b, X
    <3> QED
      BY Zenon, <1>3, <2>1
  <2> QED
    BY ONLY Zenon, <2>2 DEF X, b, Eqn, Joined
<1>5. Eqn(Key!Join)
  <2>1. Key!Join = CHOOSE h : Eqn(h)
    BY Zenon DEF Key!Join
  <2> HIDE DEF Eqn
  <2> QED
    BY Zenon, <1>4, <2>1
<1>6. \A s \in Seq(X) : Key!Join[s] = IF s = <<>> THEN <<>> ELSE Joined(s, Key!Join[Key!Front(s)])
  BY ONLY Zenon, <1>5 DEF Joined
<1>7. \A s \in Seq(X), n \in X : /\ Append(s, n) \in Seq(X) /\ Append(s, n) # <<>>
                             /\ Key!Front(Append(s, n)) = s /\ Key!Last(Append(s, n)) = n
  BY Zenon, Appending
<1>l. \A s \in Seq(X), n \in X : (Len(Append(s, n)) = 1) <=> (s = <<>>)
  OBVIOUS
<1>8. <<>> \in Seq(X)
  OBVIOUS
<1> HIDE DEF X
<1>9. ASSUME NEW s \in Seq(X), NEW n \in X
      PROVE  Key!Join[Append(s, n)] = IF s = <<>> THEN n ELSE Key!Join[s] \o Key!SLASH \o n
  <2>1. Key!Join[Append(s, n)] = Joined(Append(s, n), Key!Join[Key!Front(Append(s, n))])
    BY ONLY Zenon, <1>6, <1>7, <1>9
  <2>2. Key!Front(Append(s, n)) = s /\ Key!Last(Append(s, n)) = n /\ ((Len(Append(s, n)) = 1) <=> (s = <<>>))
    BY ONLY Zenon, <1>7, <1>9, <1>l
  <2>3. Joined(Append(s, n), Key!Join[Key!Front(Append(s, n))])
           = IF Len(Append(s, n)) = 1 THEN Key!Last(Append(s, n))
             ELSE Key!Join[Key!Front(Append(s, n))] \o Key!SLASH \o Key!Last(Append(s, n))
    BY ONLY Zenon DEF Joined
  <2> QED
    BY ONLY Zenon, <2>1, <2>2, <2>3
<1> QED
  BY ONLY Zenon, <1>6, <1>8, <1>9 DEF X

\* The crate path_clean, segment by segment.
LEMMA ResolveIs ==
    ASSUME LeastExists
    PROVE  /\ Key!Resolve[<<>>] = <<>>
           /\ \A s \in Seq(Key!Str), n \in Key!Str :
                 Key!Resolve[Append(s, n)] = Key!Entered(Key!Resolve[s], n)
<1> DEFINE X == Key!Str
           V == Seq(Key!Str)
           b == <<>>
           step == [q \in Seq(X) \X V |-> IF q[1] = <<>> THEN q[2] ELSE Key!Entered(q[2], Key!Last(q[1]))]
           Eqn(g) == g = [s \in Seq(Key!Str) |->
               IF s = <<>> THEN <<>> ELSE Key!Entered(g[Key!Front(s)], Key!Last(s))]
<1>1. b \in V
  OBVIOUS
<1>2. /\ step \in [Seq(X) \X V -> V]
      /\ \A s \in Seq(X), v \in V : s # <<>> => step[<<s, v>>] = Key!Entered(v, Key!Last(s))
  <2>1. \A s \in Seq(X), v \in V : s # <<>> => Key!Entered(v, Key!Last(s)) \in V
    <3> TAKE s \in Seq(X), v \in V
    <3> HAVE s # <<>>
    <3>1. Key!Last(s) \in X
      BY Zenon, Ends
    <3>2. Append(v, Key!Last(s)) \in V
      BY Zenon, <3>1, Appending
    <3>3. v # <<>> => Key!Front(v) \in V
      BY Zenon, Ends
    <3> QED
      BY ONLY Zenon, v \in V, <3>2, <3>3 DEF Key!Entered
  <2> HIDE DEF X, V
  <2> QED
    BY Zenon, <2>1
<1>3. PICK g \in [Seq(X) -> V] : IsFold(g, X, b, step)
  <2> HIDE DEF X, V, b, step
  <2> QED
    BY Zenon, <1>1, <1>2, Fold
<1>4. Eqn(g)
  <2>1. \A s \in Seq(X) : g[s] = IF s = <<>> THEN b ELSE Key!Entered(g[Key!Front(s)], Key!Last(s))
    <3> TAKE s \in Seq(X)
    <3>1. s # <<>> => Key!Front(s) \in Seq(X)
      BY Zenon, Ends
    <3>2. g[s] = IF s = <<>> THEN b ELSE step[<<s, g[Key!Front(s)]>>]
      BY Zenon, <1>3 DEF IsFold
    <3> HIDE DEF step, b, X, V
    <3> QED
      BY Zenon, <1>2, <1>3, <3>1, <3>2
  <2>2. g = [s \in Seq(X) |-> IF s = <<>> THEN b ELSE Key!Entered(g[Key!Front(s)], Key!Last(s))]
    <3> HIDE DEF step, b, X, V
    <3> QED
      BY Zenon, <1>3, <2>1
  <2> QED
    BY ONLY Zenon, <2>2 DEF X, b, Eqn
<1>5. Eqn(Key!Resolve)
  <2>1. Key!Resolve = CHOOSE h : Eqn(h)
    BY Zenon DEF Key!Resolve
  <2> HIDE DEF Eqn
  <2> QED
    BY Zenon, <1>4, <2>1
<1>6. \A s \in Seq(X) : Key!Resolve[s] = IF s = <<>> THEN <<>>
                                      ELSE Key!Entered(Key!Resolve[Key!Front(s)], Key!Last(s))
  BY ONLY Zenon, <1>5
<1>7. \A s \in Seq(X), n \in X : /\ Append(s, n) \in Seq(X) /\ Append(s, n) # <<>>
                             /\ Key!Front(Append(s, n)) = s /\ Key!Last(Append(s, n)) = n
  BY Zenon, Appending
<1>8. <<>> \in Seq(X)
  OBVIOUS
<1> HIDE DEF X
<1>9. ASSUME NEW s \in Seq(X), NEW n \in X
      PROVE  Key!Resolve[Append(s, n)] = Key!Entered(Key!Resolve[s], n)
  <2>1. Key!Resolve[Append(s, n)] = Key!Entered(Key!Resolve[Key!Front(Append(s, n))], Key!Last(Append(s, n)))
    BY ONLY Zenon, <1>6, <1>7, <1>9
  <2> QED
    BY ONLY Zenon, <1>7, <1>9, <2>1
<1> QED
  BY ONLY Zenon, <1>6, <1>8, <1>9 DEF X

\* What they make of the strings they are given.
LEMMA Wider == ASSUME NEW X, NEW Y, X \subseteq Y PROVE \A s \in Seq(X) : s \in Seq(Y)
  OBVIOUS

\* Names have no slash, and all of them are strings.
LEMMA NamesAre ==
    /\ \A s \in Plain : s \in Key!Str
    /\ \A s \in Names : s \in Plain
    /\ \A s \in Seq(Names) : s \in Seq(Plain) /\ s \in Seq(Key!Str)
    /\ \A s \in Seq(Plain) : s \in Seq(Key!Str)
<1>1. Names \subseteq Plain /\ Plain \subseteq Key!Str
  BY Zenon DEF Plain, Names
<1> QED
  BY Zenon, <1>1, Wider

\* split() gives at least one segment, and none has a slash.
LEMMA SplitTyped == ASSUME LeastExists PROVE \A s \in Key!Str : Key!Split[s] \in Several(Plain)
<1> DEFINE P == {s \in Key!Str : Key!Split[s] \in Several(Plain)}
<1>1. <<>> \in P
  <2>1. <<<<>>>> \in Several(Plain)
    BY PlainGrows DEF Several
  <2> QED
    BY Zenon, <2>1, SplitIs, Characters
<1>2. \A s \in Seq(Key!Char), c \in Key!Char : s \in P => Append(s, c) \in P
  <2> TAKE s \in Seq(Key!Char), c \in Key!Char
  <2> HAVE s \in P
  <2>1. Append(s, c) \in Key!Str
    BY Zenon, Appending DEF Key!Str
  <2> QED
    BY Zenon, <2>1, SplitIs, ExtendedIs
<1> HIDE DEF P
<1>3. \A s \in Seq(Key!Char) : s \in P
  BY Zenon, <1>1, <1>2, SequenceInduction
<1> QED
  BY Zenon, <1>3 DEF P, Key!Str

\* join() gives a string.
LEMMA JoinTyped == ASSUME LeastExists PROVE \A s \in Seq(Key!Str) : Key!Join[s] \in Key!Str
<1> DEFINE P == {s \in Seq(Key!Str) : Key!Join[s] \in Key!Str}
<1>1. <<>> \in P
  <2>1. <<>> \in Seq(Key!Str)
    OBVIOUS
  <2> QED
    BY Zenon, <2>1, JoinIs, Characters
<1>2. \A s \in Seq(Key!Str), n \in Key!Str : s \in P => Append(s, n) \in P
  <2> TAKE s \in Seq(Key!Str), n \in Key!Str
  <2> HAVE s \in P
  <2>1. Append(s, n) \in Seq(Key!Str)
    BY Zenon, Appending
  <2>2. Key!Join[s] \o Key!SLASH \o n \in Key!Str
    <3>1. \A v \in Key!Str : v \o Key!SLASH \o n \in Key!Str
      BY Characters DEF Key!Str
    <3> QED
      BY Zenon, <3>1
  <2>3. Key!Join[Append(s, n)] \in Key!Str
    BY Zenon, <2>2, JoinIs
  <2> QED
    BY Zenon, <2>1, <2>3
<1> HIDE DEF P
<1>3. \A s \in Seq(Key!Str) : s \in P
  BY Zenon, <1>1, <1>2, SequenceInduction
<1> QED
  BY Zenon, <1>3 DEF P

\* What path_clean leaves are names: no empty segment, no dots.
LEMMA ResolveTyped == ASSUME LeastExists PROVE \A s \in Seq(Plain) : Key!Resolve[s] \in Seq(Names)
<1> DEFINE P == {s \in Seq(Plain) : Key!Resolve[s] \in Seq(Names)}
<1>1. <<>> \in P
  <2>1. <<>> \in Seq(Plain) /\ <<>> \in Seq(Names)
    OBVIOUS
  <2> QED
    BY Zenon, <2>1, ResolveIs
<1>2. \A s \in Seq(Plain), n \in Plain : s \in P => Append(s, n) \in P
  <2> TAKE s \in Seq(Plain), n \in Plain
  <2> HAVE s \in P
  <2> DEFINE r == Key!Resolve[s]
  <2>0. Append(s, n) \in Seq(Plain) /\ r \in Seq(Names)
    BY Zenon, Appending
  <2>1. Key!Resolve[Append(s, n)] = Key!Entered(r, n)
    BY Zenon, NamesAre, ResolveIs
  <2> HIDE DEF r
  <2>2. n \notin {<<>>, Key!Dot, Key!DotDot} => Append(r, n) \in Seq(Names)
    <3> HAVE n \notin {<<>>, Key!Dot, Key!DotDot}
    <3>1. n \in Names
      BY Zenon DEF Names
    <3> QED
      BY Zenon, <2>0, <3>1, Appending
  <2>3. r # <<>> => Key!Front(r) \in Seq(Names)
    BY Zenon, <2>0, Ends
  <2>4. Key!Entered(r, n) \in Seq(Names)
    BY ONLY Zenon, <2>0, <2>2, <2>3 DEF Key!Entered
  <2> QED
    BY Zenon, <2>0, <2>1, <2>4
<1> HIDE DEF P
<1>3. \A s \in Seq(Plain) : s \in P
  BY Zenon, <1>1, <1>2, SequenceInduction
<1> QED
  BY Zenon, <1>3 DEF P

\* A string without a slash is one segment.
LEMMA SplitPlain == ASSUME LeastExists PROVE \A s \in Plain : Key!Split[s] = <<s>>
<1> DEFINE P == {s \in Key!Str : s \in Plain => Key!Split[s] = <<s>>}
<1>1. <<>> \in P
  BY Zenon, SplitIs, Characters
<1>2. \A s \in Seq(Key!Char), c \in Key!Char : s \in P => Append(s, c) \in P
  <2> TAKE s \in Seq(Key!Char), c \in Key!Char
  <2> HAVE s \in P
  <2>1. Append(s, c) \in Key!Str /\ s \in Key!Str
    BY Zenon, Appending DEF Key!Str
  <2>2. ASSUME Append(s, c) \in Plain PROVE Key!Split[Append(s, c)] = <<Append(s, c)>>
    <3>1. s \in Plain /\ c # "/"
      BY Zenon, <2>1, <2>2, PlainGrows
    <3>2. Key!Split[Append(s, c)] = Key!Extended(<<s>>, c)
      BY Zenon, <2>1, <3>1, SplitIs
    <3>3. Key!Front(<<s>>) = <<>> /\ Key!Last(<<s>>) = s
      BY DEF Key!Front, Key!Last
    <3>4. \A x : Append(<<>>, x) = <<x>>
      OBVIOUS
    <3> QED
      BY ONLY Zenon, <3>1, <3>2, <3>3, <3>4 DEF Key!Extended
  <2> QED
    BY Zenon, <2>1, <2>2
<1> HIDE DEF P
<1>3. \A s \in Seq(Key!Char) : s \in P
  BY Zenon, <1>1, <1>2, SequenceInduction
<1> QED
  BY Zenon, <1>3 DEF P, Key!Str, Plain

\* A string is split where it has a slash, whatever is on its two sides.
LEMMA ExtendedAfter ==
    ASSUME NEW v \in Several(Plain), NEW w \in Several(Plain), NEW c \in Key!Char
    PROVE  Key!Extended(v \o w, c) = v \o Key!Extended(w, c)
<1>1. v \in Seq(Plain) /\ w \in Seq(Plain) /\ w # <<>>
  BY Zenon DEF Several
<1>2. Key!Front(v \o w) = v \o Key!Front(w) /\ Key!Last(v \o w) = Key!Last(w)
  BY Zenon, <1>1, EndsOfTwo
<1>3. Key!Front(w) \in Seq(Plain) /\ Key!Last(w) \in Plain
  BY Zenon, <1>1, Ends
<1>4. \A f \in Seq(Plain), n \in Plain : Append(v \o f, n) = v \o Append(f, n)
  <2>1. \A f \in Seq(Plain), n \in Plain : AppendsAfter(v, f, n)
    BY ONLY Zenon, <1>1, AppendedTo
  <2> QED
    BY ONLY Zenon, <2>1 DEF AppendsAfter
<1>5. CASE c = "/"
  BY ONLY Zenon, <1>1, <1>4, <1>5, PlainGrows DEF Key!Extended
<1>6. CASE c # "/"
  <2>1. Append(Key!Last(w), c) \in Plain
    BY Zenon, <1>3, <1>6, PlainGrows
  <2>2. Append(v \o Key!Front(w), Append(Key!Last(w), c)) = v \o Append(Key!Front(w), Append(Key!Last(w), c))
    BY ONLY Zenon, <1>3, <1>4, <2>1
  <2> QED
    BY ONLY Zenon, <1>2, <1>6, <2>2 DEF Key!Extended
<1> QED
  BY Zenon, <1>5, <1>6

\* The segments are those before a slash and those after it.
LEMMA SplitAtSlash ==
    ASSUME LeastExists, NEW s \in Key!Str
    PROVE  \A t \in Key!Str : Key!Split[s \o Key!SLASH \o t] = Key!Split[s] \o Key!Split[t]
<1> DEFINE u == s \o Key!SLASH
           P == {t \in Key!Str : Key!Split[u \o t] = Key!Split[s] \o Key!Split[t]}
<1>0. u \in Key!Str /\ u = Append(s, "/") /\ u \o <<>> = u
  BY Characters DEF Key!Str
<1>v. Key!Split[s] \in Several(Plain)
  BY Zenon, SplitTyped
<1>1. <<>> \in P
  <2>1. Key!Split[u] = Append(Key!Split[s], <<>>)
    BY Zenon, <1>0, SplitIs, Characters DEF Key!Extended
  <2>2. \A v \in Seq(Plain) : Append(v, <<>>) = v \o <<<<>>>>
    OBVIOUS
  <2> HIDE DEF u
  <2> QED
    BY Zenon, <1>0, <1>v, <2>1, <2>2, SplitIs, Characters DEF Several
<1>2. ASSUME NEW t \in Seq(Key!Char), NEW c \in Key!Char, t \in P PROVE Append(t, c) \in P
  <2> HIDE DEF u
  <2>1. Append(t, c) \in Key!Str /\ t \in Key!Str /\ u \o t \in Key!Str
    BY <1>0 DEF Key!Str
  <2>2. u \o Append(t, c) = Append(u \o t, c)
    BY <1>0, Appended DEF Key!Str
  <2>3. Key!Split[Append(u \o t, c)] = Key!Extended(Key!Split[s] \o Key!Split[t], c)
    BY Zenon, <1>2, <2>1, SplitIs
  <2>4. Key!Split[Append(t, c)] = Key!Extended(Key!Split[t], c) /\ Key!Split[t] \in Several(Plain)
    BY Zenon, <2>1, SplitIs, SplitTyped
  <2>5. Key!Extended(Key!Split[s] \o Key!Split[t], c) = Key!Split[s] \o Key!Extended(Key!Split[t], c)
    BY Zenon, <1>v, <2>4, ExtendedAfter
  <2> QED
    BY ONLY Zenon, <2>1, <2>2, <2>3, <2>4, <2>5 DEF P
<1> HIDE DEF P
<1>3. \A t \in Seq(Key!Char) : t \in P
  BY Zenon, <1>1, <1>2, SequenceInduction
<1> QED
  BY Zenon, <1>3 DEF P, Key!Str, u

\* The string of a key: a slash before every name, and one for none.
Path(a) == IF a = <<>> THEN <<>> ELSE Key!SLASH \o Key!Join[a]
K(a) == Key!SLASH \o Key!Join[a]

\* A path grows by a slash and a name.
LEMMA PathIs ==
    ASSUME LeastExists
    PROVE  /\ Path(<<>>) = <<>>
           /\ \A a \in Seq(Names) : Path(a) \in Key!Str
           /\ \A a \in Seq(Names), n \in Names : Path(Append(a, n)) = Path(a) \o Key!SLASH \o n
<1>1. Path(<<>>) = <<>>
  BY Zenon DEF Path
<1>2. \A a \in Seq(Names) : Path(a) \in Key!Str
  <2>1. \A v \in Key!Str : Key!SLASH \o v \in Key!Str
    BY Characters DEF Key!Str
  <2> QED
    BY Zenon, <2>1, Characters, JoinTyped, NamesAre DEF Path
<1>3. ASSUME NEW a \in Seq(Names), NEW n \in Names PROVE Path(Append(a, n)) = Path(a) \o Key!SLASH \o n
  <2>1. a \in Seq(Key!Str) /\ n \in Key!Str
    BY Zenon, NamesAre
  <2>2. Append(a, n) # <<>>
    BY Zenon, Appending
  <2>3. Key!Join[Append(a, n)] = IF a = <<>> THEN n ELSE Key!Join[a] \o Key!SLASH \o n
    BY Zenon, <2>1, JoinIs
  <2>4. CASE a = <<>>
    <3>1. <<>> \o Key!SLASH = Key!SLASH
      BY Characters DEF Key!Str
    <3> QED
      BY ONLY Zenon, <2>2, <2>3, <2>4, <3>1 DEF Path
  <2>5. CASE a # <<>>
    <3>1. \A v \in Key!Str : Key!SLASH \o (v \o Key!SLASH \o n) = Key!SLASH \o v \o Key!SLASH \o n
      <4> TAKE v \in Key!Str
      <4>1. Key!SLASH \o ((v \o Key!SLASH) \o n) = (Key!SLASH \o (v \o Key!SLASH)) \o n /\ v \o Key!SLASH \in Key!Str
        BY SMTT(20), <2>1, Characters, Associative DEF Key!Str
      <4>2. Key!SLASH \o (v \o Key!SLASH) = (Key!SLASH \o v) \o Key!SLASH
        BY <2>1, Characters, Associative DEF Key!Str
      <4> QED
        BY Zenon, <4>1, <4>2
    <3>2. Key!Join[a] \in Key!Str
      BY Zenon, <2>1, JoinTyped
    <3> QED
      BY ONLY Zenon, <2>2, <2>3, <2>5, <3>1, <3>2 DEF Path
  <2> QED
    BY Zenon, <2>4, <2>5
<1> QED
  BY Zenon, <1>1, <1>2, <1>3

\* new() takes the string of a key apart into its names, and child() puts them together.
LEMMA PathSplits == ASSUME LeastExists PROVE \A a \in Seq(Names) : Key!Split[Path(a)] = <<<<>>>> \o a
<1> DEFINE P == {a \in Seq(Names) : Key!Split[Path(a)] = <<<<>>>> \o a}
<1>1. <<>> \in P
  <2>1. <<<<>>>> \o <<>> = <<<<>>>> /\ <<>> \in Seq(Names)
    OBVIOUS
  <2> QED
    BY Zenon, <2>1, SplitIs, PathIs
<1>2. ASSUME NEW a \in Seq(Names), NEW n \in Names, a \in P PROVE Append(a, n) \in P
  <2>1. Append(a, n) \in Seq(Names)
    BY Zenon, Appending
  <2>2. Path(Append(a, n)) = Path(a) \o Key!SLASH \o n /\ Path(a) \in Key!Str /\ n \in Plain /\ n \in Key!Str
    BY Zenon, PathIs, NamesAre
  <2>3. Key!Split[Path(a) \o Key!SLASH \o n] = Key!Split[Path(a)] \o Key!Split[n]
    BY Zenon, <2>2, SplitAtSlash
  <2>4. Key!Split[Path(a)] = <<<<>>>> \o a /\ Key!Split[n] = <<n>>
    BY Zenon, <1>2, <2>2, SplitPlain
  <2>5. (<<<<>>>> \o a) \o <<n>> = <<<<>>>> \o Append(a, n)
    <3>1. a \in Seq(Plain) /\ <<n>> \in Seq(Plain) /\ <<<<>>>> \in Seq(Plain)
      BY <2>2, NamesAre, PlainGrows
    <3>2. (<<<<>>>> \o a) \o <<n>> = <<<<>>>> \o (a \o <<n>>)
      BY <3>1, Associative
    <3>3. a \o <<n>> = Append(a, n)
      OBVIOUS
    <3> QED
      BY ONLY Zenon, <3>2, <3>3
  <2> QED
    BY ONLY Zenon, <2>1, <2>2, <2>3, <2>4, <2>5 DEF P
<1> HIDE DEF P
<1>3. \A a \in Seq(Names) : a \in P
  BY Zenon, <1>1, <1>2, SequenceInduction
<1> QED
  BY Zenon, <1>3 DEF P

\* The path of names in a row is that of the first, then that of the others.
LEMMA PathAppends ==
    ASSUME LeastExists, NEW a \in Seq(Names) PROVE \A b \in Seq(Names) : Path(a \o b) = Path(a) \o Path(b)
<1> DEFINE P == {b \in Seq(Names) : Path(a \o b) = Path(a) \o Path(b)}
<1>0. Path(a) \in Key!Str
  BY Zenon, PathIs
<1>1. <<>> \in P
  <2>1. a \o <<>> = a /\ <<>> \in Seq(Names)
    OBVIOUS
  <2>2. Path(a) \o <<>> = Path(a)
    BY <1>0 DEF Key!Str
  <2> QED
    BY Zenon, <2>1, <2>2, PathIs
<1>2. ASSUME NEW b \in Seq(Names), NEW n \in Names, b \in P PROVE Append(b, n) \in P
  <2>1. Append(b, n) \in Seq(Names) /\ a \o b \in Seq(Names) /\ a \o Append(b, n) = Append(a \o b, n)
    BY Appended
  <2>2. /\ Path(Append(b, n)) = Path(b) \o Key!SLASH \o n
        /\ Path(Append(a \o b, n)) = Path(a \o b) \o Key!SLASH \o n
        /\ Path(b) \in Key!Str /\ n \in Key!Str
    BY Zenon, <2>1, PathIs, NamesAre
  <2>3. (Path(a) \o Path(b)) \o Key!SLASH \o n = Path(a) \o (Path(b) \o Key!SLASH \o n)
    <3>1. ASSUME NEW v \in Key!Str, NEW w \in Key!Str
          PROVE  (v \o w) \o Key!SLASH \o n = v \o (w \o Key!SLASH \o n)
      <4>1. (v \o w) \o Key!SLASH = v \o (w \o Key!SLASH) /\ w \o Key!SLASH \in Key!Str
        <5>1. Associates(v, w, Key!SLASH) /\ w \o Key!SLASH \in Key!Str
          BY Zenon, Characters, StrAssociative
        <5> QED
          BY ONLY Zenon, <5>1 DEF Associates
      <4>2. (v \o (w \o Key!SLASH)) \o n = v \o ((w \o Key!SLASH) \o n)
        <5>1. Associates(v, w \o Key!SLASH, n)
          BY ONLY Zenon, <2>2, <4>1, v \in Key!Str, StrAssociative
        <5> QED
          BY ONLY Zenon, <5>1 DEF Associates
      <4> QED
        BY ONLY Zenon, <4>1, <4>2
    <3> QED
      BY ONLY Zenon, <1>0, <2>2, <3>1
  <2>4. Path(a \o b) = Path(a) \o Path(b)
    BY Zenon, <1>2
  <2> QED
    BY ONLY Zenon, <2>1, <2>2, <2>3, <2>4 DEF P
<1> HIDE DEF P
<1>3. \A b \in Seq(Names) : b \in P
  BY Zenon, <1>1, <1>2, SequenceInduction
<1> QED
  BY Zenon, <1>3 DEF P

\* path_clean leaves a path of names as it is.
LEMMA NamesResolve == ASSUME LeastExists PROVE \A a \in Seq(Names) : Key!Resolve[<<<<>>>> \o a] = a
<1> DEFINE P == {a \in Seq(Names) : Key!Resolve[<<<<>>>> \o a] = a}
<1>0. <<>> \in Seq(Key!Str) /\ <<>> \in Key!Str /\ <<>> \in Seq(Names)
  BY Characters
<1>1. <<>> \in P
  <2>1. <<<<>>>> \o <<>> = Append(<<>>, <<>>)
    OBVIOUS
  <2>2. Key!Resolve[Append(<<>>, <<>>)] = Key!Entered(<<>>, <<>>)
    BY Zenon, <1>0, ResolveIs
  <2>3. Key!Entered(<<>>, <<>>) = <<>>
    BY Zenon DEF Key!Entered
  <2> QED
    BY Zenon, <1>0, <2>1, <2>2, <2>3
<1>2. ASSUME NEW a \in Seq(Names), NEW n \in Names, a \in P PROVE Append(a, n) \in P
  <2>1. Append(a, n) \in Seq(Names)
    BY Zenon, Appending
  <2>2. a \in Seq(Key!Str) /\ n \in Key!Str
    BY Zenon, NamesAre
  <2>3. <<<<>>>> \o a \in Seq(Key!Str) /\ <<<<>>>> \o Append(a, n) = Append(<<<<>>>> \o a, n)
    <3>1. <<<<>>>> \in Seq(Key!Str)
      BY <1>0
    <3> QED
      BY <2>2, <3>1, Appended
  <2>4. Key!Resolve[<<<<>>>> \o Append(a, n)] = Key!Entered(Key!Resolve[<<<<>>>> \o a], n)
    BY Zenon, <2>2, <2>3, ResolveIs
  <2>5. Key!Entered(a, n) = Append(a, n)
    BY Zenon DEF Key!Entered, Names
  <2>6. Key!Resolve[<<<<>>>> \o a] = a
    BY Zenon, <1>2
  <2> QED
    BY ONLY Zenon, <2>1, <2>4, <2>5, <2>6 DEF P
<1> HIDE DEF P
<1>3. \A a \in Seq(Names) : a \in P
  BY Zenon, <1>1, <1>2, SequenceInduction
<1> QED
  BY Zenon, <1>3 DEF P

\* No slash at the ends of what join() makes of names.
Bounded(v) == v \in Key!Str /\ Len(v) \in Nat \ {0} /\ v[1] # "/" /\ v[Len(v)] # "/"

\* Names begin and end without one.
LEMMA NamesBounded == \A n \in Names : Bounded(n)
<1> TAKE n \in Names
<1>1. n \in Key!Str /\ n # <<>> /\ \A i \in 1 .. Len(n) : n[i] # "/"
  BY Zenon DEF Names, Plain
<1>2. Len(n) \in Nat \ {0}
  BY <1>1 DEF Key!Str
<1>3. 1 \in 1 .. Len(n) /\ Len(n) \in 1 .. Len(n)
  BY ONLY <1>2
<1> QED
  BY ONLY Zenon, <1>1, <1>2, <1>3 DEF Bounded

\* Characters of two strings in a row.
LEMMA Together ==
    ASSUME NEW v \in Key!Str, NEW w \in Key!Str
    PROVE  /\ v \o w \in Key!Str /\ Len(v) \in Nat /\ Len(w) \in Nat /\ Len(v \o w) = Len(v) + Len(w)
           /\ \A i \in 1 .. Len(v) : (v \o w)[i] = v[i]
           /\ \A i \in 1 .. Len(w) : (v \o w)[Len(v) + i] = w[i]
  BY DEF Key!Str

\* The first and the last of them.
LEMMA BoundedTogether ==
    ASSUME NEW v \in Key!Str, NEW w \in Key!Str, Len(v) > 0, Len(w) > 0
    PROVE  /\ v \o w \in Key!Str /\ Len(v \o w) \in Nat \ {0, 1} /\ Len(v \o w) = Len(v) + Len(w)
           /\ (v \o w)[1] = v[1] /\ (v \o w)[Len(v \o w)] = w[Len(w)]
<1>1. Len(v) \in Nat \ {0} /\ Len(w) \in Nat \ {0} /\ v \o w \in Key!Str /\ Len(v \o w) = Len(v) + Len(w)
  BY Together
<1>2. Len(v) + Len(w) \in Nat \ {0, 1} /\ 1 \in 1 .. Len(v) /\ Len(w) \in 1 .. Len(w)
  BY ONLY <1>1
<1>3. (v \o w)[1] = v[1]
  BY Zenon, <1>2, Together
<1>4. (v \o w)[Len(v) + Len(w)] = w[Len(w)]
  BY Zenon, <1>2, Together
<1> QED
  BY ONLY Zenon, <1>1, <1>2, <1>3, <1>4

\* So does what join() makes of them.
LEMMA JoinBounded == ASSUME LeastExists PROVE \A a \in Seq(Names) : a # <<>> => Bounded(Key!Join[a])
<1> DEFINE P == {a \in Seq(Names) : a # <<>> => Bounded(Key!Join[a])}
<1>1. <<>> \in P
  OBVIOUS
<1>2. ASSUME NEW a \in Seq(Names), NEW n \in Names, a \in P PROVE Append(a, n) \in P
  <2>1. Append(a, n) \in Seq(Names)
    BY Zenon, Appending
  <2>2. a \in Seq(Key!Str) /\ n \in Key!Str /\ Bounded(n)
    BY Zenon, NamesAre, NamesBounded
  <2>3. Key!Join[Append(a, n)] = IF a = <<>> THEN n ELSE Key!Join[a] \o Key!SLASH \o n
    BY Zenon, <2>2, JoinIs
  <2>4. ASSUME NEW v, Bounded(v) PROVE Bounded(v \o Key!SLASH \o n)
    <3>1. v \in Key!Str /\ Len(v) \in Nat \ {0} /\ n \in Key!Str /\ Len(n) \in Nat \ {0}
      BY Zenon, <2>2, <2>4 DEF Bounded
    <3>2. Key!SLASH \in Key!Str /\ Len(Key!SLASH) = 1
      BY Characters
    <3>3. Len(v) > 0 /\ Len(n) > 0 /\ Len(Key!SLASH) > 0
      BY ONLY <3>1, <3>2
    <3>4. v \o Key!SLASH \in Key!Str /\ (v \o Key!SLASH)[1] = v[1] /\ Len(v \o Key!SLASH) \in Nat \ {0, 1}
      BY Zenon, <3>1, <3>2, <3>3, BoundedTogether
    <3> DEFINE u == v \o Key!SLASH
    <3>5. Len(u) > 0
      BY ONLY <3>4
    <3> HIDE DEF u
    <3>6. /\ u \o n \in Key!Str /\ (u \o n)[1] = u[1] /\ Len(u \o n) \in Nat \ {0, 1}
          /\ (u \o n)[Len(u \o n)] = n[Len(n)]
      BY Zenon, <3>1, <3>3, <3>4, <3>5, BoundedTogether DEF u
    <3>7. u[1] # "/" /\ n[Len(n)] # "/"
      BY Zenon, <2>2, <2>4, <3>4 DEF Bounded, u
    <3>8. Len(u \o n) \in Nat \ {0}
      BY ONLY <3>6
    <3> QED
      BY ONLY Zenon, <3>6, <3>7, <3>8 DEF Bounded, u
  <2>5. Bounded(Key!Join[Append(a, n)])
    BY Zenon, <1>2, <2>2, <2>3, <2>4
  <2> QED
    BY Zenon, <2>1, <2>5
<1> HIDE DEF P
<1>3. \A a \in Seq(Names) : a \in P
  BY Zenon, <1>1, <1>2, SequenceInduction
<1> QED
  BY Zenon, <1>3 DEF P

\* The string of a key at its ends.
LEMMA KeyStrings ==
    ASSUME LeastExists, NEW a \in Seq(Names)
    PROVE  /\ K(a) \in Key!Str /\ K(a) # <<>> /\ Head(K(a)) = "/" /\ K(a)[1] = "/"
           /\ a = <<>> => K(a) = Key!SLASH /\ Len(K(a)) = 1
           /\ a # <<>> => K(a) = Path(a) /\ Len(K(a)) \in Nat \ {0, 1} /\ Key!Last(K(a)) # "/"
<1>1. Key!SLASH \in Key!Str /\ Len(Key!SLASH) = 1 /\ Key!SLASH[1] = "/" /\ Len(Key!SLASH) > 0
  BY Characters
<1>2. \A s \in Key!Str : Len(s) \in Nat \ {0} => s # <<>> /\ Head(s) = s[1]
  BY DEF Key!Str
<1>3. CASE a = <<>>
  <2>1. K(a) = Key!SLASH
    <3>1. Key!SLASH \o <<>> = Key!SLASH
      BY <1>1 DEF Key!Str
    <3> QED
      BY Zenon, <1>3, <3>1, JoinIs DEF K
  <2>2. Len(K(a)) \in Nat \ {0}
    <3>1. 1 \in Nat \ {0}
      OBVIOUS
    <3> QED
      BY Zenon, <1>1, <2>1, <3>1
  <2> QED
    BY ONLY Zenon, <1>1, <1>2, <1>3, <2>1, <2>2
<1>4. CASE a # <<>>
  <2>1. Key!Join[a] \in Key!Str /\ Len(Key!Join[a]) \in Nat \ {0} /\ Key!Join[a][Len(Key!Join[a])] # "/"
    BY Zenon, <1>4, JoinBounded DEF Bounded
  <2>2. Len(Key!Join[a]) > 0
    BY ONLY <2>1
  <2>3. /\ K(a) \in Key!Str /\ Len(K(a)) \in Nat \ {0, 1} /\ K(a)[1] = Key!SLASH[1]
        /\ K(a)[Len(K(a))] = Key!Join[a][Len(Key!Join[a])]
    BY Zenon, <1>1, <2>1, <2>2, BoundedTogether DEF K
  <2>4. Len(K(a)) \in Nat \ {0}
    BY ONLY <2>3
  <2>5. K(a) = Path(a)
    BY ONLY Zenon, <1>4 DEF K, Path
  <2> QED
    BY ONLY Zenon, <1>1, <1>2, <1>4, <2>1, <2>3, <2>4, <2>5 DEF Key!Last
<1> QED
  BY Zenon, <1>3, <1>4

\* The operations on keys are operations on their names: list,
LEMMA ListIs ==
    ASSUME LeastExists, NEW a \in Seq(Names)
    PROVE  Key!list(K(a)) = a /\ (Key!is_root(K(a)) <=> a = <<>>)
<1>1. Key!is_root(K(a)) <=> a = <<>>
  <2>1. Len(Key!SLASH) = 1
    BY Characters
  <2>2. ASSUME NEW n \in Nat \ {0, 1} PROVE n # 1
    OBVIOUS
  <2> QED
    BY Zenon, <2>1, <2>2, KeyStrings DEF Key!is_root
<1>2. CASE a = <<>>
  BY Zenon, <1>1, <1>2 DEF Key!list
<1>3. CASE a # <<>>
  <2>1. Key!Split[K(a)] = <<<<>>>> \o a
    BY Zenon, <1>3, KeyStrings, PathSplits
  <2>2. Tail(<<<<>>>> \o a) = a
    <3>1. a \in Seq(Plain) /\ <<>> \in Plain
      BY Zenon, NamesAre, PlainGrows
    <3> QED
      BY ONLY <3>1
  <2> QED
    BY ONLY Zenon, <1>1, <1>3, <2>1, <2>2 DEF Key!list
<1> QED
  BY Zenon, <1>1, <1>2, <1>3

\* clean and new,
LEMMA PathCleanIs == ASSUME LeastExists, NEW a \in Seq(Names) PROVE Key!path_clean(K(a)) = K(a)
<1>1. Key!Resolve[Key!Split[K(a)]] = a
  <2>1. CASE a # <<>>
    BY Zenon, <2>1, KeyStrings, PathSplits, NamesResolve
  <2>2. CASE a = <<>>
    <3>1. Key!SLASH = Append(<<>>, "/") /\ "/" \in Key!Char /\ <<>> \in Key!Str
      BY Characters
    <3>2. Key!Split[Key!SLASH] = Append(<<<<>>>>, <<>>)
      BY Zenon, <3>1, SplitIs DEF Key!Extended
    <3>3. <<<<>>>> \in Seq(Key!Str) /\ <<<<>>>> \o <<>> = <<<<>>>> /\ <<>> \in Seq(Names)
      BY <3>1
    <3>4. Key!Resolve[<<<<>>>>] = <<>>
      BY Zenon, <3>3, NamesResolve
    <3>5. Key!Resolve[Append(<<<<>>>>, <<>>)] = Key!Entered(<<>>, <<>>)
      BY Zenon, <3>1, <3>3, <3>4, ResolveIs
    <3>6. Key!Entered(<<>>, <<>>) = <<>>
      BY Zenon DEF Key!Entered
    <3>7. K(a) = Key!SLASH
      BY Zenon, <2>2, KeyStrings
    <3> QED
      BY ONLY Zenon, <2>2, <3>2, <3>5, <3>6, <3>7
  <2> QED
    BY Zenon, <2>1, <2>2
<1> QED
  BY ONLY Zenon, <1>1 DEF Key!path_clean, K

\* clean() changes no key, and new() makes one of joined names.
LEMMA NewIs ==
    ASSUME LeastExists, NEW a \in Seq(Names)
    PROVE  Key!clean(K(a)) = K(a) /\ Key!new(K(a)) = K(a) /\ Key!new(Key!Join[a]) = K(a)
<1>1. Key!clean(K(a)) = K(a)
  <2>1. K(a) # <<>> /\ Head(K(a)) = "/"
    BY Zenon, KeyStrings
  <2> QED
    BY Zenon, <2>1, PathCleanIs DEF Key!clean
<1>2. Key!clean(Key!Join[a]) = K(a)
  <2>1. CASE a = <<>>
    BY Zenon, <2>1, JoinIs, KeyStrings DEF Key!clean
  <2>2. CASE a # <<>>
    <3>1. Bounded(Key!Join[a])
      BY Zenon, <2>2, JoinBounded
    <3>2. \A v \in Key!Str : Len(v) \in Nat \ {0} => v # <<>> /\ Head(v) = v[1]
      BY DEF Key!Str
    <3>3. Key!Join[a] # <<>> /\ Head(Key!Join[a]) # "/"
      BY ONLY Zenon, <3>1, <3>2 DEF Bounded
    <3>4. Key!clean(Key!Join[a]) = Key!path_clean(K(a))
      BY ONLY Zenon, <3>3 DEF Key!clean, K
    <3> QED
      BY Zenon, <3>4, PathCleanIs
  <2> QED
    BY Zenon, <2>1, <2>2
<1> QED
  BY Zenon, <1>1, <1>2 DEF Key!new

\* Whatever string new() is given, it makes the key of some names.
LEMMA NewMakes == ASSUME LeastExists, NEW s \in Key!Str PROVE \E a \in Seq(Names) : Key!new(s) = K(a)
<1>1. \A t \in Key!Str : \E a \in Seq(Names) : Key!path_clean(t) = K(a)
  <2> TAKE t \in Key!Str
  <2>1. Key!Split[t] \in Seq(Plain)
    BY Zenon, SplitTyped DEF Several
  <2>2. Key!Resolve[Key!Split[t]] \in Seq(Names)
    BY Zenon, <2>1, ResolveTyped
  <2> QED
    BY ONLY Zenon, <2>2 DEF Key!path_clean, K
<1>2. CASE s = <<>>
  <2>1. <<>> \in Seq(Names)
    OBVIOUS
  <2>2. Key!new(s) = Key!SLASH
    BY Zenon, <1>2 DEF Key!new, Key!clean
  <2> QED
    BY Zenon, <2>1, <2>2, KeyStrings
<1>3. CASE s # <<>>
  <2>1. Key!SLASH \o s \in Key!Str
    BY Characters DEF Key!Str
  <2> QED
    BY Zenon, <1>1, <1>3, <2>1 DEF Key!new, Key!clean
<1> QED
  BY Zenon, <1>2, <1>3

\* parent and reverse,
Above(a) == IF a = <<>> THEN <<>> ELSE Key!Front(a)

\* parent() drops the last name of any that are there.
LEMMA ParentIs ==
    ASSUME LeastExists, NEW a \in Seq(Names) PROVE Above(a) \in Seq(Names) /\ Key!parent(K(a)) = K(Above(a))
<1>0. Above(a) \in Seq(Names)
  <2>1. <<>> \in Seq(Names)
    OBVIOUS
  <2> QED
    BY Zenon, <2>1, Ends DEF Above
<1>1. Key!list(K(a)) = a
  BY Zenon, ListIs
<1>2. CASE Len(a) <= 1
  <2>1. Above(a) = <<>>
    BY <1>2 DEF Above, Key!Front
  <2>2. Key!parent(K(a)) = Key!new(Key!SLASH)
    BY ONLY Zenon, <1>1, <1>2 DEF Key!parent
  <2>3. Key!SLASH = K(<<>>) /\ Key!new(K(<<>>)) = K(<<>>)
    BY Zenon, <1>0, <2>1, KeyStrings, NewIs
  <2> QED
    BY ONLY Zenon, <1>0, <2>1, <2>2, <2>3
<1>3. CASE ~(Len(a) <= 1)
  <2>1. a # <<>>
    BY <1>3
  <2>2. Key!parent(K(a)) = Key!new(Key!Join[Above(a)])
    BY ONLY Zenon, <1>1, <1>3, <2>1 DEF Key!parent, Above
  <2> QED
    BY Zenon, <1>0, <2>2, NewIs
<1> QED
  BY Zenon, <1>2, <1>3

\* reverse() turns the names around.
LEMMA ReverseIs ==
    ASSUME LeastExists, NEW a \in Seq(Names)
    PROVE  /\ Key!Reverse(a) \in Seq(Names) /\ Key!Reverse(Key!Reverse(a)) = a
           /\ Key!reverse(K(a)) = K(Key!Reverse(a))
<1>1. Key!Reverse(a) \in Seq(Names) /\ Len(Key!Reverse(a)) = Len(a)
  BY DEF Key!Reverse
<1>2. Key!Reverse(Key!Reverse(a)) = a
  BY DEF Key!Reverse
<1>3. Key!reverse(K(a)) = Key!new(Key!Join[Key!Reverse(a)])
  BY Zenon, ListIs DEF Key!reverse, Key!with_namespaces
<1> QED
  BY Zenon, <1>1, <1>2, <1>3, NewIs

\* child, for which new_unchecked has nothing to panic for,
LEMMA UncheckedIs == ASSUME LeastExists, NEW a \in Seq(Names), a # <<>> PROVE Key!new_unchecked(K(a)) = K(a)
<1>1. K(a) # <<>> /\ Head(K(a)) = "/" /\ Key!Last(K(a)) # "/"
  BY Zenon, KeyStrings
<1> QED
  BY ONLY Zenon, <1>1 DEF Key!new_unchecked

\* Names in a row, and the key of them.
LEMMA Lengthened ==
    ASSUME LeastExists, NEW a \in Seq(Names), NEW b \in Seq(Names)
    PROVE  /\ a \o b \in Seq(Names) /\ a \o <<>> = a /\ <<>> \o b = b
           /\ b # <<>> => a \o b # <<>>
           /\ a # <<>> /\ b # <<>> => K(a \o b) = K(a) \o K(b)
<1>1. a \o b \in Seq(Names) /\ a \o <<>> = a /\ <<>> \o b = b
  OBVIOUS
<1>2. b # <<>> => a \o b # <<>>
  BY Zenon, EndsOfTwo
<1>3. ASSUME a # <<>>, b # <<>> PROVE K(a \o b) = K(a) \o K(b)
  <2>1. K(a) = Path(a) /\ K(b) = Path(b) /\ K(a \o b) = Path(a \o b)
    BY Zenon, <1>1, <1>2, <1>3, KeyStrings
  <2>2. Path(a \o b) = Path(a) \o Path(b)
    BY Zenon, PathAppends
  <2> QED
    BY ONLY Zenon, <2>1, <2>2
<1> QED
  BY Zenon, <1>1, <1>2, <1>3

\* child() puts the names of one key after those of the other.
LEMMA ChildIs ==
    ASSUME LeastExists, NEW a \in Seq(Names), NEW b \in Seq(Names) PROVE Key!child(K(a), K(b)) = K(a \o b)
<1>1. (Key!is_root(K(a)) <=> a = <<>>) /\ (Key!is_root(K(b)) <=> b = <<>>)
  BY Zenon, ListIs
<1>2. CASE a = <<>>
  <2>1. Key!child(K(a), K(b)) = Key!new(K(b))
    BY ONLY Zenon, <1>1, <1>2 DEF Key!child
  <2>2. a \o b = b
    BY Zenon, <1>2, Lengthened
  <2> QED
    BY Zenon, <2>1, <2>2, NewIs
<1>3. CASE a # <<>> /\ b = <<>>
  <2>1. Key!child(K(a), K(b)) = K(a)
    BY ONLY Zenon, <1>1, <1>3 DEF Key!child
  <2>2. a \o b = a
    BY Zenon, <1>3, Lengthened
  <2> QED
    BY Zenon, <2>1, <2>2
<1>4. CASE a # <<>> /\ b # <<>>
  <2>1. Key!child(K(a), K(b)) = Key!new_unchecked(K(a) \o K(b))
    BY ONLY Zenon, <1>1, <1>4 DEF Key!child
  <2>2. a \o b \in Seq(Names) /\ a \o b # <<>> /\ K(a \o b) = K(a) \o K(b)
    BY Zenon, <1>4, Lengthened
  <2> QED
    BY Zenon, <2>1, <2>2, UncheckedIs
<1> QED
  BY Zenon, <1>2, <1>3, <1>4

\* and is_ancestor_of.
Begins(a, b) == \E c \in Seq(Names) : c # <<>> /\ b = a \o c

\* A string that goes on with a slash after another is cut there.
LEMMA CutAtSlash ==
    ASSUME NEW s \in Key!Str, NEW u \in Key!Str, Len(u) > Len(s), Key!IsPrefix(s, u), u[Len(s) + 1] = "/"
    PROVE  \E t \in Key!Str : u = s \o Key!SLASH \o t
<1>0. Key!SLASH = <<"/">> /\ Key!SLASH \in Key!Str /\ Len(s) \in Nat /\ Len(u) \in Nat
  BY Characters DEF Key!Str
<1> DEFINE n == Len(u) - Len(s) - 1
           t == [i \in 1 .. n |-> u[Len(s) + 1 + i]]
<1>1. n \in Nat /\ Len(s) + 1 + n = Len(u)
  BY <1>0
<1>2. t \in Key!Str /\ Len(t) = n /\ \A i \in 1 .. n : t[i] = u[Len(s) + 1 + i]
  BY <1>0, <1>1 DEF Key!Str
<1> HIDE DEF n, t
<1>3. /\ s \o Key!SLASH \in Key!Str /\ Len(s \o Key!SLASH) = Len(s) + 1
      /\ \A i \in 1 .. Len(s) : (s \o Key!SLASH)[i] = s[i]
      /\ (s \o Key!SLASH)[Len(s) + 1] = "/"
  BY <1>0 DEF Key!Str
<1> DEFINE v == s \o Key!SLASH
<1> HIDE DEF v
<1>4. \A i \in 1 .. Len(s) + 1 : v[i] = u[i]
  BY <1>0, <1>3 DEF v, Key!IsPrefix
<1>5. v \in Key!Str /\ Len(v) = Len(s) + 1
  BY Zenon, <1>3 DEF v
<1>6. /\ v \o t \in Key!Str /\ Len(v \o t) = Len(u)
      /\ \A i \in 1 .. Len(s) + 1 : (v \o t)[i] = v[i]
      /\ \A i \in 1 .. n : (v \o t)[Len(s) + 1 + i] = t[i]
  <2>1. /\ v \o t \in Key!Str /\ Len(v \o t) = Len(v) + Len(t)
        /\ \A i \in 1 .. Len(v) : (v \o t)[i] = v[i]
        /\ \A i \in 1 .. Len(t) : (v \o t)[Len(v) + i] = t[i]
    BY Zenon, <1>2, <1>5, Together
  <2> QED
    BY ONLY Zenon, <1>1, <1>2, <1>5, <2>1
<1>7. ASSUME NEW i \in 1 .. Len(u) PROVE (v \o t)[i] = u[i]
  <2>1. CASE i \in 1 .. Len(s) + 1
    BY ONLY Zenon, <1>4, <1>6, <2>1
  <2>2. CASE i > Len(s) + 1
    <3> DEFINE j == i - (Len(s) + 1)
    <3>1. j \in 1 .. n /\ i = Len(s) + 1 + j
      BY <1>0, <1>1, <2>2
    <3> HIDE DEF j
    <3> QED
      BY Zenon, <1>2, <1>6, <3>1
  <2>3. i \in 1 .. Len(s) + 1 \/ i > Len(s) + 1
    BY ONLY <1>0, <1>7
  <2> QED
    BY ONLY Zenon, <2>1, <2>2, <2>3
<1>8. u = v \o t
  <2> DEFINE w == v \o t
  <2>1. w \in Seq(Key!Char) /\ u \in Seq(Key!Char) /\ Len(w) = Len(u) /\ \A i \in 1 .. Len(u) : w[i] = u[i]
    BY Zenon, <1>6, <1>7 DEF Key!Str
  <2> HIDE DEF w
  <2>2. u = w
    BY ONLY <2>1
  <2> QED
    BY ONLY Zenon, <2>2 DEF w
<1> QED
  BY Zenon, <1>2, <1>8 DEF v

\* Where is_ancestor_of finds the characters of a key and a slash, it found its names.
LEMMA AncestorBegins ==
    ASSUME LeastExists, NEW a \in Seq(Names), NEW b \in Seq(Names), Key!is_ancestor_of(K(a), K(b))
    PROVE  Begins(a, b)
<1>1. Len(K(b)) > Len(K(a)) /\ (Key!is_root(K(a)) \/ (Key!IsPrefix(K(a), K(b)) /\ K(b)[Len(K(a)) + 1] = "/"))
  BY Zenon DEF Key!is_ancestor_of
<1>2. b # <<>>
  <2> SUFFICES ASSUME b = <<>> PROVE FALSE
    OBVIOUS
  <2>1. Len(K(b)) = 1 /\ (Len(K(a)) = 1 \/ Len(K(a)) \in Nat \ {0, 1})
    BY Zenon, KeyStrings
  <2> QED
    BY ONLY <1>1, <2>1
<1>3. CASE a = <<>>
  BY Zenon, <1>2, <1>3, Lengthened DEF Begins
<1>4. CASE a # <<>>
  <2>1. Key!IsPrefix(K(a), K(b)) /\ K(b)[Len(K(a)) + 1] = "/" /\ K(a) \in Key!Str /\ K(b) \in Key!Str
    BY Zenon, <1>1, <1>4, ListIs, KeyStrings
  <2>2. PICK t \in Key!Str : K(b) = K(a) \o Key!SLASH \o t
    BY Zenon, <1>1, <2>1, CutAtSlash
  <2>3. PICK c \in Seq(Plain) : c = Key!Split[t] /\ c # <<>>
    BY Zenon, SplitTyped DEF Several
  <2>4. Key!Split[K(b)] = Key!Split[K(a)] \o c
    BY Zenon, <2>1, <2>2, <2>3, SplitAtSlash
  <2>5. Key!Split[K(b)] = <<<<>>>> \o b /\ Key!Split[K(a)] = <<<<>>>> \o a
    BY Zenon, <1>2, <1>4, KeyStrings, PathSplits
  <2>6. <<<<>>>> \in Seq(Plain) /\ a \in Seq(Plain) /\ b \in Seq(Plain)
    BY PlainGrows, NamesAre
  <2>7. Associates(<<<<>>>>, a, c) /\ a \o c \in Seq(Plain)
    <3>1. a \o c \in Seq(Plain)
      BY <2>6
    <3> QED
      BY Zenon, <2>6, <3>1, AssociativeIn
  <2>8. <<<<>>>> \o b = <<<<>>>> \o (a \o c)
    BY ONLY Zenon, <2>4, <2>5, <2>7 DEF Associates
  <2>9. b = a \o c
    BY Zenon, <2>6, <2>7, <2>8, Cancelled
  <2>10. c \in Seq(Names)
    <3>1. Len(a) \in Nat /\ Len(c) \in Nat /\ Len(b) = Len(a) + Len(c) /\ \A i \in 1 .. Len(c) : b[Len(a) + i] = c[i]
      BY <2>6, <2>9, Concatenated
    <3>2. \A i \in 1 .. Len(b) : b[i] \in Names
      OBVIOUS
    <3>3. \A i \in 1 .. Len(c) : Len(a) + i \in 1 .. Len(b)
      BY ONLY <3>1
    <3>4. \A i \in 1 .. Len(c) : c[i] \in Names
      BY ONLY Zenon, <3>1, <3>2, <3>3
    <3> QED
      BY ONLY SMTT(20), <3>4, c \in Seq(Plain)
  <2> QED
    BY Zenon, <2>3, <2>9, <2>10 DEF Begins
<1> QED
  BY Zenon, <1>3, <1>4

\* And it finds them wherever the names are.
LEMMA BeginsAncestor ==
    ASSUME LeastExists, NEW a \in Seq(Names), NEW b \in Seq(Names), Begins(a, b)
    PROVE  Key!is_ancestor_of(K(a), K(b))
<1>1. PICK c \in Seq(Names) : c # <<>> /\ b = a \o c
  BY Zenon DEF Begins
<1>2. CASE a = <<>>
  <2>1. b # <<>>
    BY Zenon, <1>1, Lengthened
  <2>2. Len(K(a)) = 1 /\ Len(K(b)) \in Nat \ {0, 1} /\ Key!is_root(K(a))
    BY Zenon, <1>2, <2>1, KeyStrings, ListIs
  <2>3. Len(K(b)) > Len(K(a))
    <3>1. \A m, n : m = 1 /\ n \in Nat \ {0, 1} => n > m
      OBVIOUS
    <3> QED
      BY ONLY Zenon, <2>2, <3>1
  <2> QED
    BY ONLY Zenon, <2>2, <2>3 DEF Key!is_ancestor_of
<1>3. CASE a # <<>>
  <2>1. K(b) = K(a) \o K(c)
    BY Zenon, <1>1, <1>3, Lengthened
  <2>2. K(a) \in Key!Str /\ K(c) \in Key!Str /\ K(c)[1] = "/" /\ Len(K(c)) \in Nat \ {0, 1}
    BY Zenon, <1>1, KeyStrings
  <2>3. /\ Len(K(a)) \in Nat /\ Len(K(b)) = Len(K(a)) + Len(K(c))
        /\ \A i \in 1 .. Len(K(a)) : K(b)[i] = K(a)[i]
        /\ \A i \in 1 .. Len(K(c)) : K(b)[Len(K(a)) + i] = K(c)[i]
    <3>1. /\ Len(K(a)) \in Nat /\ Len(K(a) \o K(c)) = Len(K(a)) + Len(K(c))
          /\ \A i \in 1 .. Len(K(a)) : (K(a) \o K(c))[i] = K(a)[i]
          /\ \A i \in 1 .. Len(K(c)) : (K(a) \o K(c))[Len(K(a)) + i] = K(c)[i]
      BY ONLY Zenon, <2>2, Together
    <3> QED
      BY ONLY Zenon, <2>1, <3>1
  <2>4. Len(K(b)) > Len(K(a)) /\ Len(K(a)) <= Len(K(b)) /\ 1 \in 1 .. Len(K(c))
    BY ONLY <2>2, <2>3
  <2>5. K(b)[Len(K(a)) + 1] = "/"
    BY ONLY Zenon, <2>2, <2>3, <2>4
  <2> QED
    BY ONLY Zenon, <2>3, <2>4, <2>5 DEF Key!is_ancestor_of, Key!IsPrefix
<1> QED
  BY Zenon, <1>2, <1>3

\* Names that begin with others.
LEMMA BeginsIs ==
    ASSUME NEW a \in Seq(Names), NEW b \in Seq(Names)
    PROVE  Begins(a, b) <=> (Key!IsPrefix(a, b) /\ a # b)
<1>1. ASSUME Begins(a, b) PROVE Key!IsPrefix(a, b) /\ a # b
  <2>1. PICK c \in Seq(Names) : c # <<>> /\ b = a \o c
    BY Zenon, <1>1 DEF Begins
  <2>2. /\ Len(a) \in Nat /\ Len(c) \in Nat \ {0} /\ Len(b) = Len(a) + Len(c)
        /\ \A i \in 1 .. Len(a) : b[i] = a[i]
    BY <2>1, Concatenated
  <2>3. Len(a) <= Len(b) /\ Len(a) # Len(b)
    BY ONLY <2>2
  <2> QED
    BY ONLY Zenon, <2>2, <2>3 DEF Key!IsPrefix
<1>2. ASSUME Key!IsPrefix(a, b), a # b PROVE Begins(a, b)
  <2>1. Len(a) \in Nat /\ Len(b) \in Nat /\ Len(a) <= Len(b) /\ \A i \in 1 .. Len(a) : a[i] = b[i]
    BY <1>2 DEF Key!IsPrefix
  <2>2. Len(a) < Len(b)
    <3>1. Len(a) # Len(b)
      BY ONLY <1>2, <2>1, a \in Seq(Names), b \in Seq(Names)
    <3> QED
      BY ONLY <2>1, <3>1
  <2> DEFINE n == Len(b) - Len(a)
             c == [i \in 1 .. n |-> b[Len(a) + i]]
  <2>3. n \in Nat \ {0} /\ Len(a) + n = Len(b)
    BY ONLY <2>1, <2>2
  <2>4. c \in Seq(Names) /\ Len(c) = n /\ c # <<>> /\ \A i \in 1 .. n : c[i] = b[Len(a) + i]
    <3>1. \A i \in 1 .. n : Len(a) + i \in 1 .. Len(b)
      BY ONLY <2>1, <2>3
    <3>2. \A i \in 1 .. Len(b) : b[i] \in Names
      OBVIOUS
    <3>3. c \in [1 .. n -> Names] /\ \A i \in 1 .. n : c[i] = b[Len(a) + i]
      <4> HIDE DEF n
      <4> QED
        BY ONLY Zenon, <3>1, <3>2 DEF c
    <3> HIDE DEF n, c
    <3>4. c \in Seq(Names) /\ Len(c) = n /\ c # <<>>
      BY ONLY <2>3, <3>3
    <3> QED
      BY ONLY Zenon, <3>3, <3>4
  <2> HIDE DEF n, c
  <2>5. /\ a \o c \in Seq(Names) /\ Len(a \o c) = Len(b)
        /\ \A i \in 1 .. Len(a) : (a \o c)[i] = b[i]
        /\ \A i \in 1 .. n : (a \o c)[Len(a) + i] = b[Len(a) + i]
    <3>1. /\ a \o c \in Seq(Names) /\ Len(a \o c) = Len(a) + Len(c)
          /\ \A i \in 1 .. Len(a) : (a \o c)[i] = a[i]
          /\ \A i \in 1 .. Len(c) : (a \o c)[Len(a) + i] = c[i]
      BY ONLY <2>4, a \in Seq(Names), Concatenated
    <3> QED
      BY ONLY Zenon, <2>1, <2>3, <2>4, <3>1
  <2> DEFINE w == a \o c
  <2>6. ASSUME NEW i \in 1 .. Len(b) PROVE w[i] = b[i]
    <3>1. CASE i \in 1 .. Len(a)
      BY ONLY Zenon, <2>5, <3>1
    <3>2. CASE i > Len(a)
      <4> DEFINE j == i - Len(a)
      <4>1. j \in 1 .. n /\ i = Len(a) + j
        BY ONLY <2>1, <2>3, <2>6, <3>2
      <4> HIDE DEF j
      <4> QED
        BY ONLY Zenon, <2>5, <4>1
    <3>3. i \in 1 .. Len(a) \/ i > Len(a)
      BY ONLY <2>1, <2>6
    <3> QED
      BY ONLY Zenon, <3>1, <3>2, <3>3
  <2>7. w \in Seq(Names) /\ Len(w) = Len(b)
    BY ONLY Zenon, <2>5
  <2> HIDE DEF w
  <2>8. b = w
    BY ONLY <2>6, <2>7, b \in Seq(Names)
  <2> QED
    BY ONLY Zenon, <2>4, <2>8 DEF w, Begins
<1> QED
  BY Zenon, <1>1, <1>2

\* The order of slices is a total order when the one of their elements is.
TotallyOrders(R, X) == \A x, y \in X : /\ x # y <=> (<<x, y>> \in R \/ <<y, x>> \in R)
                                       /\ ~(<<x, y>> \in R /\ <<y, x>> \in R)
Same(s, t, i) == \A j \in 1 .. i - 1 : j <= Len(s) /\ s[j] = t[j]
LessAt(R, s, t, i) == i \in 1 .. Len(t) /\ Same(s, t, i) /\ (i > Len(s) \/ <<s[i], t[i]>> \in R)
Lex(R, s, t) == \E i \in 1 .. Len(t) : LessAt(R, s, t, i)

\* No two sequences are before each other.
LEMMA LexAsymmetric ==
    ASSUME NEW X, NEW R, TotallyOrders(R, X), NEW s \in Seq(X), NEW t \in Seq(X), Lex(R, s, t), Lex(R, t, s)
    PROVE  FALSE
<1>0. Len(s) \in Nat /\ Len(t) \in Nat /\ (\A i \in 1 .. Len(s) : s[i] \in X) /\ (\A i \in 1 .. Len(t) : t[i] \in X)
  OBVIOUS
<1>1. PICK i \in 1 .. Len(t) : Same(s, t, i) /\ (i > Len(s) \/ <<s[i], t[i]>> \in R)
  BY Zenon DEF Lex, LessAt
<1>2. PICK k \in 1 .. Len(s) : Same(t, s, k) /\ (k > Len(t) \/ <<t[k], s[k]>> \in R)
  BY Zenon DEF Lex, LessAt
<1>3. CASE i < k
  <2>1. i \in 1 .. k - 1 /\ i \in 1 .. Len(s) /\ ~(i > Len(s))
    BY ONLY <1>0, <1>1, <1>2, <1>3
  <2>2. t[i] = s[i] /\ <<s[i], t[i]>> \in R
    BY ONLY Zenon, <1>1, <1>2, <2>1 DEF Same
  <2> QED
    BY Zenon, <1>0, <2>1, <2>2 DEF TotallyOrders
<1>4. CASE k < i
  <2>1. k \in 1 .. i - 1 /\ k \in 1 .. Len(t) /\ ~(k > Len(t))
    BY ONLY <1>0, <1>1, <1>2, <1>4
  <2>2. s[k] = t[k] /\ <<t[k], s[k]>> \in R
    BY ONLY Zenon, <1>1, <1>2, <2>1 DEF Same
  <2> QED
    BY Zenon, <1>0, <2>1, <2>2 DEF TotallyOrders
<1>5. CASE i = k
  <2>1. ~(i > Len(s)) /\ ~(k > Len(t))
    BY ONLY <1>0, <1>1, <1>2, <1>5
  <2> QED
    BY Zenon, <1>0, <1>1, <1>2, <1>5, <2>1 DEF TotallyOrders
<1>6. i < k \/ k < i \/ i = k
  BY ONLY <1>0, <1>1, <1>2
<1> QED
  BY Zenon, <1>3, <1>4, <1>5, <1>6

\* Of two different sequences one is before the other: look where they first differ.
LEMMA LexTotal ==
    ASSUME LeastExists, NEW X, NEW R, TotallyOrders(R, X), NEW s \in Seq(X), NEW t \in Seq(X), s # t
    PROVE  Lex(R, s, t) \/ Lex(R, t, s)
<1>0. Len(s) \in Nat /\ Len(t) \in Nat /\ (\A i \in 1 .. Len(s) : s[i] \in X) /\ (\A i \in 1 .. Len(t) : t[i] \in X)
  OBVIOUS
<1> DEFINE D == {i \in Nat \ {0} : i > Len(s) \/ i > Len(t) \/ s[i] # t[i]}
<1>1. D \in SUBSET Nat /\ D # {}
  <2>1. Len(s) + 1 \in Nat \ {0} /\ Len(s) + 1 > Len(s)
    BY ONLY <1>0
  <2>2. \A i \in Nat \ {0} : i \in Nat
    OBVIOUS
  <2>3. Len(s) + 1 \in D
    BY ONLY Zenon, <2>1 DEF D
  <2> QED
    BY ONLY Zenon, <2>2, <2>3 DEF D
<1>2. PICK m \in D : \A k \in D : m <= k
  <2> HIDE DEF D
  <2> QED
    BY Zenon, <1>1, Least
<1>3. m \in Nat \ {0} /\ (m > Len(s) \/ m > Len(t) \/ s[m] # t[m])
  BY ONLY Zenon, <1>2 DEF D
<1>4. \A j \in 1 .. m - 1 : j <= Len(s) /\ j <= Len(t) /\ s[j] = t[j] /\ t[j] = s[j]
  <2> TAKE j \in 1 .. m - 1
  <2>1. j \in Nat \ {0} /\ ~(m <= j)
    BY ONLY <1>3, j \in 1 .. m - 1
  <2>2. ~(j > Len(s) \/ j > Len(t) \/ s[j] # t[j])
    BY ONLY Zenon, <1>2, <2>1 DEF D
  <2>3. j <= Len(s) /\ j <= Len(t)
    BY ONLY <1>0, <2>1, <2>2
  <2> QED
    BY ONLY Zenon, <2>2, <2>3
<1>5. Same(s, t, m) /\ Same(t, s, m)
  BY ONLY Zenon, <1>4 DEF Same
<1>6. CASE m > Len(s) /\ m > Len(t)
  <2>1. Len(s) = Len(t) /\ \A j \in 1 .. Len(s) : j \in 1 .. m - 1
    <3>1. Len(s) >= m - 1 /\ Len(t) >= m - 1
      <4>1. m - 1 \in 1 .. m - 1 \/ m - 1 = 0
        BY ONLY <1>3
      <4>2. m - 1 <= Len(s) /\ m - 1 <= Len(t)
        BY ONLY <1>0, <1>4, <4>1
      <4> QED
        BY ONLY <1>0, <1>3, <4>2
    <3> QED
      BY ONLY SMTT(20), <1>0, <1>3, <1>6, <3>1
  <2>2. \A j \in 1 .. Len(s) : s[j] = t[j]
    BY ONLY Zenon, <1>4, <2>1
  <2>3. s = t
    BY ONLY <2>1, <2>2, s \in Seq(X), t \in Seq(X)
  <2> QED
    BY Zenon, <2>3
<1>7. CASE m > Len(s) /\ ~(m > Len(t))
  <2>1. m \in 1 .. Len(t)
    BY ONLY <1>0, <1>3, <1>7
  <2> QED
    BY ONLY ZenonT(40), <1>5, <1>7, <2>1 DEF Lex, LessAt
<1>8. CASE ~(m > Len(s)) /\ m > Len(t)
  <2>1. m \in 1 .. Len(s)
    BY ONLY <1>0, <1>3, <1>8
  <2> QED
    BY ONLY Zenon, <1>5, <1>8, <2>1 DEF Lex, LessAt
<1>9. CASE ~(m > Len(s)) /\ ~(m > Len(t))
  <2>1. m \in 1 .. Len(s) /\ m \in 1 .. Len(t)
    BY ONLY <1>0, <1>3, <1>9
  <2>2. <<s[m], t[m]>> \in R \/ <<t[m], s[m]>> \in R
    BY Zenon, <1>0, <1>3, <1>9, <2>1 DEF TotallyOrders
  <2> QED
    BY ONLY Zenon, <1>5, <2>1, <2>2 DEF Lex, LessAt
<1> QED
  BY Zenon, <1>6, <1>7, <1>8, <1>9

\* A sequence comes before its extensions, with nothing but extensions in between.
LEMMA LexExtended ==
    ASSUME NEW X, NEW R, NEW s \in Seq(X), NEW t \in Seq(X), Key!IsPrefix(s, t), s # t
    PROVE  Lex(R, s, t)
<1>1. Len(s) \in Nat /\ Len(t) \in Nat /\ Len(s) <= Len(t) /\ \A i \in 1 .. Len(s) : s[i] = t[i]
  <2>1. Len(s) \in Nat /\ Len(t) \in Nat
    OBVIOUS
  <2> QED
    BY Zenon, <2>1 DEF Key!IsPrefix
<1>2. Len(s) # Len(t)
  BY ONLY <1>1, s \in Seq(X), t \in Seq(X), s # t
<1> DEFINE i == Len(s) + 1
<1>3. i \in 1 .. Len(t) /\ i > Len(s) /\ \A j \in 1 .. i - 1 : j <= Len(s) /\ j \in 1 .. Len(s)
  BY ONLY <1>1, <1>2
<1> HIDE DEF i
<1>4. Same(s, t, i)
  BY ONLY Zenon, <1>1, <1>3 DEF Same
<1> QED
  BY ONLY Zenon, <1>3, <1>4 DEF Lex, LessAt

\* What is between a sequence and an extension of it is an extension.
LEMMA LexBetween ==
    ASSUME NEW X, NEW R, TotallyOrders(R, X), NEW s \in Seq(X), NEW t \in Seq(X), NEW u \in Seq(X),
           Key!IsPrefix(s, t), Lex(R, s, u), Lex(R, u, t)
    PROVE  Key!IsPrefix(s, u)
<1>0. /\ Len(s) \in Nat /\ Len(t) \in Nat /\ Len(u) \in Nat
      /\ (\A i \in 1 .. Len(s) : s[i] \in X) /\ (\A i \in 1 .. Len(u) : u[i] \in X)
  OBVIOUS
<1>1. Len(s) <= Len(t) /\ \A i \in 1 .. Len(s) : s[i] = t[i]
  BY Zenon DEF Key!IsPrefix
<1>2. PICK i \in 1 .. Len(u) : Same(s, u, i) /\ (i > Len(s) \/ <<s[i], u[i]>> \in R)
  BY Zenon DEF Lex, LessAt
<1>3. PICK k \in 1 .. Len(t) : Same(u, t, k) /\ (k > Len(u) \/ <<u[k], t[k]>> \in R)
  BY Zenon DEF Lex, LessAt
<1>4. CASE i > Len(s)
  <2>1. Len(s) <= Len(u) /\ \A j \in 1 .. Len(s) : j \in 1 .. i - 1
    BY ONLY <1>0, <1>2, <1>4
  <2> QED
    BY ONLY Zenon, <1>2, <2>1 DEF Same, Key!IsPrefix
<1>5. CASE ~(i > Len(s))
  <2>0. i \in 1 .. Len(s) /\ <<s[i], u[i]>> \in R /\ s[i] = t[i] /\ s[i] \in X /\ u[i] \in X
    <3>1. i \in 1 .. Len(s)
      BY ONLY <1>0, <1>2, <1>5
    <3> QED
      BY Zenon, <1>0, <1>1, <1>2, <1>5, <3>1
  <2>1. CASE k < i
    <3>1. k \in 1 .. i - 1 /\ k \in 1 .. Len(s) /\ k \in 1 .. Len(u) /\ ~(k > Len(u))
      BY ONLY <1>0, <1>2, <1>3, <2>0, <2>1
    <3>2. <<u[k], t[k]>> \in R /\ s[k] = u[k] /\ s[k] = t[k]
      BY ONLY Zenon, <1>1, <1>2, <1>3, <3>1 DEF Same
    <3> QED
      BY Zenon, <1>0, <3>1, <3>2 DEF TotallyOrders
  <2>2. CASE k = i
    <3>1. ~(k > Len(u))
      BY ONLY <1>0, <1>2, <1>3, <2>2
    <3>2. <<u[i], s[i]>> \in R
      BY ONLY Zenon, <1>3, <2>0, <2>2, <3>1
    <3> QED
      BY Zenon, <2>0, <3>2 DEF TotallyOrders
  <2>3. CASE i < k
    <3>1. i \in 1 .. k - 1
      BY ONLY <1>0, <1>2, <1>3, <2>3
    <3>2. u[i] = s[i]
      BY ONLY Zenon, <1>3, <2>0, <3>1 DEF Same
    <3> QED
      BY Zenon, <2>0, <3>2 DEF TotallyOrders
  <2>4. k < i \/ k = i \/ i < k
    BY ONLY <1>0, <1>2, <1>3
  <2> QED
    BY Zenon, <2>1, <2>2, <2>3, <2>4
<1> QED
  BY Zenon, <1>4, <1>5

\* Bytes, strings and keys are totally ordered (cmp).
Bytewise == {p \in Key!Char \X Key!Char : Key!Byte(p[1]) < Key!Byte(p[2])}
Stringwise == {p \in Key!Str \X Key!Str : Key!StrLess(p[1], p[2])}

\* Characters are in the order of their bytes.
LEMMA BytesOrdered == TotallyOrders(Bytewise, Key!Char)
<1>1. \A c \in Key!Char : Key!Byte(c) \in Nat /\ Key!Bytes[Key!Byte(c)] = c
  <2> TAKE c \in Key!Char
  <2>1. \E i \in DOMAIN Key!Bytes : Key!Bytes[i] = c
    BY Zenon DEF Key!Char
  <2>2. Key!Byte(c) \in DOMAIN Key!Bytes /\ Key!Bytes[Key!Byte(c)] = c
    BY Zenon, <2>1 DEF Key!Byte
  <2>3. \A i \in DOMAIN Key!Bytes : i \in Nat
    BY DEF Key!Bytes
  <2> QED
    BY Zenon, <2>2, <2>3
<1>2. \A x, y \in Key!Char : <<x, y>> \in Bytewise <=> Key!Byte(x) < Key!Byte(y)
  BY DEF Bytewise
<1>3. ASSUME NEW x \in Key!Char, NEW y \in Key!Char
      PROVE  /\ x # y <=> (<<x, y>> \in Bytewise \/ <<y, x>> \in Bytewise)
             /\ ~(<<x, y>> \in Bytewise /\ <<y, x>> \in Bytewise)
  <2>1. Key!Byte(x) \in Nat /\ Key!Byte(y) \in Nat /\ (Key!Byte(x) = Key!Byte(y) <=> x = y)
    BY Zenon, <1>1
  <2>2. /\ Key!Byte(x) # Key!Byte(y) <=> (Key!Byte(x) < Key!Byte(y) \/ Key!Byte(y) < Key!Byte(x))
        /\ ~(Key!Byte(x) < Key!Byte(y) /\ Key!Byte(y) < Key!Byte(x))
    BY ONLY <2>1
  <2> QED
    BY ONLY Zenon, <1>2, <1>3, <2>1, <2>2
<1> QED
  BY Zenon, <1>3 DEF TotallyOrders

\* Strings are in the order of their characters.
LEMMA StrLessIs == ASSUME NEW s \in Key!Str, NEW t \in Key!Str PROVE Key!StrLess(s, t) <=> Lex(Bytewise, s, t)
<1>1. Key!StrLess(s, t) <=> \E i \in 1 .. Len(t) : Same(s, t, i) /\ (i > Len(s) \/ Key!Byte(s[i]) < Key!Byte(t[i]))
  BY Zenon DEF Key!StrLess, Key!Lexicographic, Key!ByteLess, Same
<1>2. ASSUME NEW i \in 1 .. Len(t)
      PROVE  (i > Len(s) \/ Key!Byte(s[i]) < Key!Byte(t[i])) <=> (i > Len(s) \/ <<s[i], t[i]>> \in Bytewise)
  <2>1. i > Len(s) \/ (s[i] \in Key!Char /\ t[i] \in Key!Char)
    BY DEF Key!Str
  <2>2. \A x, y \in Key!Char : <<x, y>> \in Bytewise <=> Key!Byte(x) < Key!Byte(y)
    BY DEF Bytewise
  <2> QED
    BY ONLY Zenon, <2>1, <2>2
<1> QED
  BY ONLY Zenon, <1>1, <1>2 DEF Lex, LessAt

\* And that order is total.
LEMMA StringsOrdered == ASSUME LeastExists PROVE TotallyOrders(Stringwise, Key!Str)
<1>1. \A x, y \in Key!Str : <<x, y>> \in Stringwise <=> Lex(Bytewise, x, y)
  <2>1. \A x, y \in Key!Str : <<x, y>> \in Stringwise <=> Key!StrLess(x, y)
    BY DEF Stringwise
  <2> QED
    BY Zenon, <2>1, StrLessIs
<1>2. ASSUME NEW x \in Key!Str, NEW y \in Key!Str
      PROVE  /\ x # y <=> (Lex(Bytewise, x, y) \/ Lex(Bytewise, y, x))
             /\ ~(Lex(Bytewise, x, y) /\ Lex(Bytewise, y, x))
  <2>1. x \in Seq(Key!Char) /\ y \in Seq(Key!Char)
    BY Zenon DEF Key!Str
  <2>2. ~(Lex(Bytewise, x, y) /\ Lex(Bytewise, y, x))
    BY Zenon, <2>1, BytesOrdered, LexAsymmetric
  <2>3. x # y => Lex(Bytewise, x, y) \/ Lex(Bytewise, y, x)
    BY Zenon, <2>1, BytesOrdered, LexTotal
  <2> QED
    BY ONLY Zenon, <2>2, <2>3
<1> QED
  BY ONLY Zenon, <1>1, <1>2 DEF TotallyOrders

\* cmp() is the order of the names.
LEMMA LessIs ==
    ASSUME LeastExists, NEW a \in Seq(Names), NEW b \in Seq(Names)
    PROVE  Key!cmp_Less(K(a), K(b)) <=> Lex(Stringwise, a, b)
<1>0. Key!list(K(a)) = a /\ Key!list(K(b)) = b
  BY Zenon, ListIs
<1>1. Key!cmp_Less(K(a), K(b)) <=> \E i \in 1 .. Len(b) : Same(a, b, i) /\ (i > Len(a) \/ Key!StrLess(a[i], b[i]))
  BY ONLY Zenon, <1>0 DEF Key!cmp_Less, Key!Lexicographic, Same
<1>2. ASSUME NEW i \in 1 .. Len(b)
      PROVE  (i > Len(a) \/ Key!StrLess(a[i], b[i])) <=> (i > Len(a) \/ <<a[i], b[i]>> \in Stringwise)
  <2>0. a \in Seq(Key!Str) /\ b \in Seq(Key!Str)
    BY Zenon, NamesAre
  <2>1. i > Len(a) \/ (a[i] \in Key!Str /\ b[i] \in Key!Str)
    BY <2>0
  <2>2. \A x, y \in Key!Str : <<x, y>> \in Stringwise <=> Key!StrLess(x, y)
    BY DEF Stringwise
  <2> QED
    BY ONLY Zenon, <2>1, <2>2
<1> QED
  BY ONLY Zenon, <1>1, <1>2 DEF Lex, LessAt

\* What KeysFormTree says of any keys, one part at a time: a key is that of some names.
LEMMA KeyIs == ASSUME LeastExists, NEW k, IsKey(k) PROVE \E a \in Seq(Names) : k = K(a)
  BY Zenon, NewMakes DEF IsKey

\* Keys of names look like keys, and clean() leaves them.
LEMMA KeysAreClean ==
    ASSUME LeastExists, NEW a \in Seq(Names) PROVE Key!IsKey(K(a)) /\ Key!clean(K(a)) = K(a)
<1>1. Key!list(K(a)) = a /\ Head(K(a)) = "/" /\ Key!clean(K(a)) = K(a)
  BY Zenon, ListIs, KeyStrings, NewIs
<1>2. \A i \in DOMAIN a : a[i] \in Names
  OBVIOUS
<1> QED
  BY ONLY Zenon, <1>1, <1>2 DEF Key!IsKey, Names

\* is_ancestor_of is the tree of names.
LEMMA KeysTree ==
    ASSUME LeastExists, NEW a \in Seq(Names), NEW b \in Seq(Names) PROVE Key!AncestryIsTree(K(a), K(b))
<1>1. Key!list(K(a)) = a /\ Key!list(K(b)) = b
  BY Zenon, ListIs
<1>2. Key!is_ancestor_of(K(a), K(b)) <=> Begins(a, b)
  BY Zenon, AncestorBegins, BeginsAncestor
<1>3. Begins(a, b) <=> (Key!IsPrefix(a, b) /\ a # b)
  BY Zenon, BeginsIs
<1> QED
  BY ONLY Zenon, <1>1, <1>2, <1>3 DEF Key!AncestryIsTree

\* cmp() is a total order that keeps subtrees together.
LEMMA KeysOrdered ==
    ASSUME LeastExists, NEW a \in Seq(Names), NEW b \in Seq(Names), NEW others, \A m \in others : IsKey(m)
    PROVE  Key!OrderFollowsTree(K(a), K(b), others)
<1>0. Key!list(K(a)) = a /\ Key!list(K(b)) = b /\ a \in Seq(Key!Str) /\ b \in Seq(Key!Str)
  BY Zenon, ListIs, NamesAre
<1>1. /\ Key!cmp_Less(K(a), K(b)) <=> Lex(Stringwise, a, b)
      /\ Key!cmp_Less(K(b), K(a)) <=> Lex(Stringwise, b, a)
  BY Zenon, LessIs
<1>2. ~(Lex(Stringwise, a, b) /\ Lex(Stringwise, b, a))
  BY Zenon, <1>0, StringsOrdered, LexAsymmetric
<1>3. a # b => Lex(Stringwise, a, b) \/ Lex(Stringwise, b, a)
  BY Zenon, <1>0, StringsOrdered, LexTotal
<1>4. ASSUME Key!is_ancestor_of(K(a), K(b))
      PROVE  /\ Key!cmp_Less(K(a), K(b))
             /\ \A m \in others : Key!cmp_Less(K(a), m) /\ Key!cmp_Less(m, K(b)) => Key!is_ancestor_of(K(a), m)
  <2>1. Key!IsPrefix(a, b) /\ a # b
    BY Zenon, <1>4, AncestorBegins, BeginsIs
  <2>2. Lex(Stringwise, a, b)
    BY Zenon, <1>0, <2>1, LexExtended
  <2>3. ASSUME NEW m \in others, Key!cmp_Less(K(a), m), Key!cmp_Less(m, K(b)) PROVE Key!is_ancestor_of(K(a), m)
    <3>1. PICK c \in Seq(Names) : m = K(c)
      BY Zenon, KeyIs
    <3>2. Lex(Stringwise, a, c) /\ Lex(Stringwise, c, b) /\ c \in Seq(Key!Str)
      BY Zenon, <2>3, <3>1, LessIs, NamesAre
    <3>3. Key!IsPrefix(a, c)
      BY Zenon, <1>0, <2>1, <3>2, StringsOrdered, LexBetween
    <3>4. a # c
      BY Zenon, <1>0, <3>2, StringsOrdered, LexAsymmetric
    <3>5. Begins(a, c)
      BY Zenon, <3>3, <3>4, BeginsIs
    <3> QED
      BY Zenon, <3>1, <3>5, BeginsAncestor
  <2> QED
    BY Zenon, <1>1, <2>2, <2>3
<1>5. K(a) # K(b) <=> a # b
  BY ONLY Zenon, <1>0
<1>6. a # b <=> (Lex(Stringwise, a, b) \/ Lex(Stringwise, b, a))
  BY ONLY Zenon, <1>2, <1>3
<1> QED
  BY ONLY Zenon, <1>1, <1>2, <1>4, <1>5, <1>6 DEF Key!OrderFollowsTree

\* What is before the last colon of a namespace is a string (rfind).
LEMMA TypesAreStrings == ASSUME LeastExists, NEW s \in Key!Str PROVE Key!namespace_type(s) \in Key!Str
<1>0. Len(s) \in Nat
  BY DEF Key!Str
<1> DEFINE Ok(i) == (i > 0 => s[i] = ":") /\ \A j \in i + 1 .. Len(s) : s[j] # ":"
<1>1. \E i \in 0 .. Len(s) : Ok(i)
  <2> DEFINE C == {j \in 1 .. Len(s) : s[j] = ":"}
  <2>1. CASE C = {}
    <3>1. \A j \in 0 + 1 .. Len(s) : j \in 1 .. Len(s)
      BY ONLY <1>0
    <3>2. 0 \in 0 .. Len(s) /\ ~(0 > 0)
      BY ONLY <1>0
    <3>3. Ok(0)
      BY ONLY Zenon, <2>1, <3>1, <3>2
    <3> QED
      BY ONLY Zenon, <3>2, <3>3
  <2>2. CASE C # {}
    <3>1. PICK i \in C : \A k \in C : k <= i
      <4>1. C \in SUBSET (0 .. Len(s))
        BY ONLY <1>0
      <4> HIDE DEF C
      <4> QED
        BY Zenon, <1>0, <2>2, <4>1, Greatest
    <3>2. i \in 0 .. Len(s) /\ s[i] = ":"
      BY ONLY <1>0, <3>1
    <3>3. ASSUME NEW j \in i + 1 .. Len(s) PROVE s[j] # ":"
      <4>1. j \in 1 .. Len(s) /\ ~(j <= i)
        BY ONLY <1>0, <3>2, <3>3
      <4> QED
        BY ONLY Zenon, <3>1, <4>1
    <3> QED
      BY ONLY Zenon, <3>2, <3>3
  <2> QED
    BY Zenon, <2>1, <2>2
<1>2. Key!rfind(s) \in 0 .. Len(s)
  <2>1. Key!rfind(s) = CHOOSE i \in 0 .. Len(s) : Ok(i)
    BY Zenon DEF Key!rfind
  <2> HIDE DEF Ok
  <2> QED
    BY Zenon, <1>1, <2>1
<1> DEFINE n == Key!rfind(s) - 1
<1>3. n \in -1 .. Len(s) - 1
  BY ONLY <1>0, <1>2
<1> HIDE DEF n
<1>4. SubSeq(s, 1, n) \in Key!Str
  BY <1>0, <1>3 DEF Key!Str
<1> QED
  BY Zenon, <1>4 DEF Key!namespace_type, n

\* child(), parent() and reverse() undo each other.
LEMMA ChildrenAppend ==
    ASSUME LeastExists, NEW a \in Seq(Names), NEW b \in Seq(Names) PROVE Key!ChildAppends(K(a), K(b))
<1>1. a \o b \in Seq(Names) /\ Key!child(K(a), K(b)) = K(a \o b)
  BY Zenon, Lengthened, ChildIs
<1>2. Key!list(K(a \o b)) = a \o b /\ Key!list(K(a)) = a /\ Key!list(K(b)) = b
  BY Zenon, <1>1, ListIs
<1>3. ASSUME b # <<>> PROVE Key!parent(K(a \o b)) = Key!child(K(a), Key!parent(K(b)))
  <2>1. Above(b) = Key!Front(b) /\ Above(a \o b) = a \o Key!Front(b)
    BY Zenon, <1>3, EndsOfTwo DEF Above
  <2>2. Above(b) \in Seq(Names) /\ Key!parent(K(b)) = K(Above(b)) /\ Key!parent(K(a \o b)) = K(Above(a \o b))
    BY Zenon, <1>1, ParentIs
  <2>3. Key!child(K(a), K(Above(b))) = K(a \o Above(b))
    BY Zenon, <2>2, ChildIs
  <2> QED
    BY ONLY Zenon, <2>1, <2>2, <2>3
<1>4. Key!reverse(Key!reverse(K(a))) = K(a)
  BY Zenon, ReverseIs
<1>5. Key!is_root(K(b)) <=> b = <<>>
  BY Zenon, ListIs
<1> QED
  BY ONLY Zenon, <1>1, <1>2, <1>3, <1>4, <1>5 DEF Key!ChildAppends

\* A prefix with a slash selects descendants, a filter follows the order.
LEMMA PrefixesSelect ==
    ASSUME LeastExists, NEW a \in Seq(Names), NEW b \in Seq(Names) PROVE Key!PrefixSelects(K(a), K(b))
<1>1. PICK ea, eb : ea = Key!Entry(K(a), <<>>) /\ eb = Key!Entry(K(b), <<>>) /\ ea.key = K(a) /\ eb.key = K(b)
  <2>1. Key!Entry(K(a), <<>>).key = K(a) /\ Key!Entry(K(b), <<>>).key = K(b)
    BY DEF Key!Entry
  <2> QED
    BY ONLY Zenon, <2>1
<1>2. Key!FilterKeyCompare(K(a), "GreaterThan", eb) <=> Key!entry_key_ascending(ea, eb)
  <2>1. Key!FilterKeyCompare(K(a), "GreaterThan", eb) = Key!cmp_Less(K(a), eb.key)
    BY ONLY DEF Key!FilterKeyCompare, Key!FilterOp
  <2> QED
    BY ONLY Zenon, <1>1, <2>1 DEF Key!entry_key_ascending
<1>3. ASSUME NEW s \in Key!Str, NEW t \in Key!Str
      PROVE  Key!IsPrefix(s \o Key!SLASH, t) <=> (Len(t) > Len(s) /\ Key!IsPrefix(s, t) /\ t[Len(s) + 1] = "/")
  <2>1. Len(s) \in Nat /\ Len(t) \in Nat
    BY DEF Key!Str
  <2> DEFINE u == s \o Key!SLASH
  <2>2. Len(u) = Len(s) + 1 /\ (\A i \in 1 .. Len(s) : u[i] = s[i]) /\ u[Len(s) + 1] = "/"
    BY Characters DEF Key!Str
  <2> HIDE DEF u
  <2>3. \A i : i \in 1 .. Len(s) + 1 <=> (i \in 1 .. Len(s) \/ i = Len(s) + 1)
    BY ONLY <2>1
  <2>4. (Len(s) + 1 <= Len(t) <=> Len(t) > Len(s)) /\ (Len(t) > Len(s) => Len(s) <= Len(t))
    BY ONLY <2>1
  <2>5. (\A i \in 1 .. Len(s) + 1 : u[i] = t[i]) <=> ((\A i \in 1 .. Len(s) : s[i] = t[i]) /\ t[Len(s) + 1] = "/")
    BY ONLY Zenon, <2>2, <2>3
  <2>6. Key!IsPrefix(u, t) <=> (Len(t) > Len(s) /\ Key!IsPrefix(s, t) /\ t[Len(s) + 1] = "/")
    BY ONLY Zenon, <2>2, <2>4, <2>5 DEF Key!IsPrefix
  <2> QED
    BY ONLY Zenon, <2>6 DEF u
<1>4. K(a) \in Key!Str /\ K(b) \in Key!Str
  BY Zenon, KeyStrings
<1>5. Key!IsPrefix(K(a) \o Key!SLASH, K(b))
         <=> (Len(K(b)) > Len(K(a)) /\ Key!IsPrefix(K(a), K(b)) /\ K(b)[Len(K(a)) + 1] = "/")
  BY ONLY Zenon, <1>3, <1>4
<1>6. ~Key!is_root(K(a)) => (Key!FilterKeyPrefix(K(a) \o Key!SLASH, eb) <=> Key!is_descendant_of(K(b), K(a)))
  BY ONLY Zenon, <1>1, <1>5 DEF Key!FilterKeyPrefix, Key!is_descendant_of, Key!is_ancestor_of
<1> QED
  BY ONLY Zenon, <1>1, <1>2, <1>6 DEF Key!PrefixSelects

\* Keys come back from behind a prefix.
LEMMA PrefixesInvert ==
    ASSUME LeastExists, NEW p \in Seq(Names), NEW a \in Seq(Names), NEW b \in Seq(Names)
    PROVE  Key!PrefixInvertible(K(p), K(a), K(b))
<1>0. (Key!is_root(K(p)) <=> p = <<>>) /\ (Key!is_root(K(a)) <=> a = <<>>)
  BY Zenon, ListIs
<1>1. /\ Key!convert_key(K(p), K(a)) = K(p \o a) /\ p \o a \in Seq(Names)
      /\ Key!convert_key(K(p), K(b)) = K(p \o b) /\ p \o b \in Seq(Names)
  BY Zenon, ChildIs, Lengthened DEF Key!convert_key
<1>2. ASSUME a # <<>> PROVE Key!invert_key(K(p), K(p \o a)) = K(a)
  <2>1. CASE p = <<>>
    BY Zenon, <1>0, <2>1, Lengthened DEF Key!invert_key
  <2>2. CASE p # <<>>
    <3>1. Key!is_ancestor_of(K(p), K(p \o a))
      BY Zenon, <1>1, <1>2, BeginsAncestor DEF Begins
    <3>2. K(p \o a) = K(p) \o K(a) /\ K(p) \in Key!Str /\ K(a) \in Key!Str
      <4>1. K(p \o a) = K(p) \o K(a)
        BY Zenon, <1>2, <2>2, Lengthened
      <4> QED
        BY Zenon, <4>1, KeyStrings
    <3>3. \A s, t \in Key!Str : SubSeq(s \o t, Len(s) + 1, Len(s \o t)) = t
      BY DEF Key!Str
    <3>4. SubSeq(K(p \o a), Len(K(p)) + 1, Len(K(p \o a))) = K(a)
      BY ONLY Zenon, <3>2, <3>3
    <3>5. Key!new_unchecked(K(a)) = K(a)
      BY Zenon, <1>2, UncheckedIs
    <3> QED
      BY ONLY Zenon, <1>0, <2>2, <3>1, <3>4, <3>5 DEF Key!invert_key
  <2> QED
    BY Zenon, <2>1, <2>2
<1>3. ASSUME K(p \o a) = K(p \o b) PROVE a = b
  <2>1. Key!list(K(p \o a)) = p \o a /\ Key!list(K(p \o b)) = p \o b
    BY Zenon, <1>1, ListIs
  <2>2. p \o a = p \o b
    BY ONLY Zenon, <1>3, <2>1
  <2> QED
    BY Zenon, <2>2, Cancelled
<1> QED
  BY ONLY Zenon, <1>0, <1>1, <1>2, <1>3 DEF Key!PrefixInvertible

\* Every operation makes keys.
LEMMA KeysMade ==
    ASSUME LeastExists, NEW s \in Key!Str, NEW a \in Seq(Names), NEW b \in Seq(Names)
    PROVE  Key!MakesKeys(s, K(a), K(b))
<1> DEFINE IsOne(k) == \E c \in Seq(Names) : k = K(c)
<1>1. \A t \in Key!Str : IsOne(Key!new(t))
  BY Zenon, NewMakes
<1>2. \A k : IsOne(k) => Key!IsKey(k) /\ Key!clean(k) = k
  BY Zenon, KeysAreClean
<1>3. \A c \in Seq(Names) : IsOne(Key!child(K(a), K(c)))
  <2> TAKE c \in Seq(Names)
  <2>1. a \o c \in Seq(Names)
    OBVIOUS
  <2>2. Key!child(K(a), K(c)) = K(a \o c)
    BY Zenon, ChildIs
  <2> QED
    BY ONLY Zenon, <2>1, <2>2
<1>4. PICK d \in Seq(Names) : Key!new(s) = K(d)
  BY Zenon, NewMakes
<1>5. IsOne(Key!parent(K(a))) /\ IsOne(Key!reverse(K(a)))
  BY Zenon, ParentIs, ReverseIs
<1>6. K(a) \in Key!Str
  BY Zenon, KeyStrings
<1>7. Key!parent(K(a)) \o Key!SLASH \o Key!type(K(a)) \in Key!Str
  <2>1. Key!base_namespace(K(a)) \in Key!Str
    <3>1. Key!list(K(a)) = a /\ a \in Seq(Key!Str)
      BY Zenon, ListIs, NamesAre
    <3>2. a # <<>> => Key!Last(a) \in Key!Str
      BY Zenon, <3>1, Ends
    <3> QED
      BY ONLY Zenon, <3>1, <3>2, Characters DEF Key!base_namespace
  <2>2. Key!type(K(a)) \in Key!Str
    BY Zenon, <2>1, TypesAreStrings DEF Key!type
  <2>3. Key!parent(K(a)) \in Key!Str
    BY Zenon, ParentIs, KeyStrings
  <2> QED
    BY Zenon, <2>2, <2>3, Characters, StrAssociative
<1>8. K(a) \o Key!COLON \o s \in Key!Str
  <2>1. Key!COLON \in Key!Str
    <3>1. ":" = Key!Bytes[3] /\ 3 \in DOMAIN Key!Bytes
      BY DEF Key!Bytes
    <3>2. ":" \in Key!Char
      BY ONLY Zenon, <3>1 DEF Key!Char
    <3> QED
      BY ONLY <3>2 DEF Key!COLON, Key!Str
  <2> QED
    BY Zenon, <1>6, <2>1, StrAssociative
<1>9. Key!Join[<<s, K(a)>>] \in Key!Str
  <2>1. <<s, K(a)>> \in Seq(Key!Str)
    BY ONLY <1>6, s \in Key!Str
  <2> QED
    BY Zenon, <2>1, JoinTyped
<1>10. IsOne(Key!child(K(a), Key!new(s)))
  BY Zenon, <1>3, <1>4
<1> HIDE DEF IsOne
<1>11. \A k \in {Key!new(s), Key!child(K(a), K(b)), Key!child(K(a), Key!new(s)), Key!parent(K(a)), Key!path(K(a)),
                 Key!reverse(K(a)), Key!instance(K(a), s), Key!with_namespaces(<<s, K(a)>>)} : IsOne(k)
  BY Zenon, <1>1, <1>3, <1>5, <1>7, <1>8, <1>9, <1>10 DEF Key!path, Key!instance, Key!with_namespaces
<1> QED
  BY ONLY Zenon, <1>2, <1>11 DEF Key!MakesKeys

-----------------------------------------------------------------------------
(* Every question on keys has its answer.                                  *)

\* What was asked is a question on the topic.
Answerable == probe # <<>> => probe \in Questions(subject)

\* Every behaviour asks only such questions.
LEMMA QuestionsOnTopic == Inquiring => []Answerable
<1>1. probe = <<>> => Answerable
  BY Zenon DEF Answerable
<1>2. Answerable /\ [Ask]_<<subject, probe>> => Answerable'
  BY Zenon DEF Ask, Answerable
<1> QED
  BY <1>1, <1>2, PTL DEF Inquiring

\* Questions on keys have the answers they must have.
LEMMA KeysAnswered ==
    ASSUME LeastExists, Answerable
    PROVE  KeysFormTree
<1>1. ASSUME probe \in Questions("making keys")
      PROVE  Key!MakesKeys(probe[1], probe[2], probe[3])
  <2>1. probe[1] \in Key!Str /\ IsKey(probe[2]) /\ IsKey(probe[3])
    BY Zenon, <1>1, KeyQuestionsAssumption
  <2>2. PICK a \in Seq(Names), b \in Seq(Names) : probe[2] = K(a) /\ probe[3] = K(b)
    BY Zenon, <2>1, KeyIs
  <2> QED
    BY Zenon, <2>1, <2>2, KeysMade
<1>2. ASSUME probe \in Questions("keys")
      PROVE  /\ Key!AncestryIsTree(probe[1], probe[2])
             /\ Key!OrderFollowsTree(probe[1], probe[2], probe[3])
             /\ Key!ChildAppends(probe[1], probe[2])
             /\ Key!PrefixSelects(probe[1], probe[2])
  <2>1. IsKey(probe[1]) /\ IsKey(probe[2]) /\ \A k \in probe[3] : IsKey(k)
    BY Zenon, <1>2, KeyQuestionsAssumption
  <2>2. PICK a \in Seq(Names), b \in Seq(Names) : probe[1] = K(a) /\ probe[2] = K(b)
    BY Zenon, <2>1, KeyIs
  <2>3. Key!AncestryIsTree(K(a), K(b)) /\ Key!ChildAppends(K(a), K(b)) /\ Key!PrefixSelects(K(a), K(b))
    BY Zenon, KeysTree, ChildrenAppend, PrefixesSelect
  <2>4. Key!OrderFollowsTree(K(a), K(b), probe[3])
    BY Zenon, <2>1, KeysOrdered
  <2> QED
    BY ONLY Zenon, <2>2, <2>3, <2>4
<1>3. ASSUME probe \in Questions("prefixes")
      PROVE  Key!PrefixInvertible(probe[1], probe[2], probe[3])
  <2>1. IsKey(probe[1]) /\ IsKey(probe[2]) /\ IsKey(probe[3])
    BY Zenon, <1>3, KeyQuestionsAssumption
  <2>2. PICK p \in Seq(Names), a \in Seq(Names) : probe[1] = K(p) /\ probe[2] = K(a)
    BY Zenon, <2>1, KeyIs
  <2>3. PICK b \in Seq(Names) : probe[3] = K(b)
    BY Zenon, <2>1, KeyIs
  <2>4. Key!PrefixInvertible(K(p), K(a), K(b))
    BY Zenon, PrefixesInvert
  <2> QED
    BY ONLY Zenon, <2>2, <2>3, <2>4
<1> QED
  BY Zenon, <1>1, <1>2, <1>3 DEF Answerable, KeysFormTree, Asked

LOCAL INSTANCE WellFoundedInduction

\* The library proves it.
LEMMA NumbersWellOrdered == LeastExists
<1> SUFFICES ASSUME NEW S \in SUBSET Nat, S # {} PROVE \E m \in S : \A k \in S : m <= k
  BY DEF LeastExists
<1> DEFINE R == OpToRel(<, Nat)
<1>1. IsWellFoundedOn(R, Nat)
  BY Zenon, NatLessThanWellFounded
<1>2. \A x, y \in Nat : x < y => <<x, y>> \in R
  BY DEF OpToRel
<1> HIDE DEF R
<1>3. PICK x \in S : \A y \in S : ~ (<<y, x>> \in R)
  BY Zenon, <1>1, WFMin
<1>4. \A y \in S : ~ (y < x)
  BY Zenon, <1>2, <1>3
<1> QED
  BY <1>4

\* Every operation makes clean keys of any strings and keys and never panics; ancestry,
\* order, child and parent, prefix queries and prefix transforms agree on one tree of
\* namespaces, for all keys there are (Key, FilterKeyPrefix, PrefixTransform).
THEOREM KeysDoFormTree == Inquiring => []KeysFormTree
<1>1. Answerable => KeysFormTree
  BY Zenon, NumbersWellOrdered, KeysAnswered
<1> QED
  BY <1>1, QuestionsOnTopic, PTL
=============================================================================
