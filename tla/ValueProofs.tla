----------------------------- MODULE ValueProofs -----------------------------
(***************************************************************************)
(* Proofs about the values ChainValues asks questions on: messages and     *)
(* gas prices, tipsets, addresses, sizes of pieces and registered proofs,  *)
(* for all of them and not only for the ones of a bounded instance.        *)
(*                                                                         *)
(* What a recursive function computes is proved by induction on sets: the  *)
(* arguments for which it is right hold 0 with n + 1 whenever n, or n      *)
(* whenever all smaller ones, and so are all of Nat (Induction,            *)
(* StrongInduction).  That there is a function with the recursive equation *)
(* is proved once, for recursion along any measure (Recursion).            *)
(*                                                                         *)
(* What the lemmas need of numbers and finite sets is gathered in Library, *)
(* which they assume.  The last section brings in the theorems of the      *)
(* library, proves Library from them and with it the theorems, which       *)
(* assume nothing but the assumptions of ChainValues.                      *)
(***************************************************************************)
EXTENDS ChainValues, TLAPS

-----------------------------------------------------------------------------
(* Induction and recursion.                                                *)

\* What the lemmas use of the library: numbers are well ordered, and finite sets count the
\* way they do.
LeastExists == \A S \in SUBSET Nat : S # {} => \E m \in S : \A k \in S : m <= k
IntervalsCount == \A n \in Nat : Ch!IsFiniteSet(1 .. n) /\ Ch!Cardinality(1 .. n) = n
SetsCount == \A S : Ch!IsFiniteSet(S) => Ch!Cardinality(S) \in Nat
PartsCount ==
    \A S : Ch!IsFiniteSet(S) => \A T \in SUBSET S :
        Ch!IsFiniteSet(T) /\ Ch!Cardinality(T) <= Ch!Cardinality(S) /\ (Ch!Cardinality(S) = Ch!Cardinality(T) => S = T)
OneToOneIsOnto ==
    \A S : Ch!IsFiniteSet(S) => \A f \in [S -> S] :
        (\A i, j \in S : f[i] = f[j] => i = j) => \A y \in S : \E x \in S : f[x] = y
CorrespondingCount ==
    \A S, T : Ch!IsFiniteSet(S) => \A f \in [S -> T] :
        (\A i, j \in S : f[i] = f[j] => i = j) /\ (\A y \in T : \E x \in S : f[x] = y)
        => Ch!Cardinality(T) = Ch!Cardinality(S)
Library == LeastExists /\ IntervalsCount /\ SetsCount /\ PartsCount /\ OneToOneIsOnto /\ CorrespondingCount

\* A set of numbers has a least.
LEMMA Least ==
    ASSUME Library, NEW S \in SUBSET Nat, S # {}
    PROVE  \E m \in S : \A k \in S : m <= k
  BY Zenon DEF Library, LeastExists

\* The members of a finite set can be counted, and so can those of a part of it.
LEMMA Parts ==
    ASSUME Library, NEW S, Ch!IsFiniteSet(S), NEW T \in SUBSET S
    PROVE  /\ Ch!IsFiniteSet(T) /\ Ch!Cardinality(T) \in Nat /\ Ch!Cardinality(S) \in Nat
           /\ Ch!Cardinality(T) <= Ch!Cardinality(S) /\ (Ch!Cardinality(S) = Ch!Cardinality(T) => S = T)
  BY Zenon DEF Library, SetsCount, PartsCount

\* A finite set that is mapped to itself one to one is covered.
LEMMA OneToOneCovers ==
    ASSUME Library, NEW S, Ch!IsFiniteSet(S), NEW f \in [S -> S], \A i, j \in S : f[i] = f[j] => i = j
    PROVE  \A y \in S : \E x \in S : f[x] = y
  BY Zenon DEF Library, OneToOneIsOnto

\* Sets with a one-to-one correspondence have as many members.
LEMMA OneToOneCounts ==
    ASSUME Library, NEW S, Ch!IsFiniteSet(S), NEW T, NEW f \in [S -> T],
           \A i, j \in S : f[i] = f[j] => i = j, \A y \in T : \E x \in S : f[x] = y
    PROVE  Ch!Cardinality(T) = Ch!Cardinality(S)
  BY Zenon DEF Library, CorrespondingCount

\* A set of numbers up to n has a greatest.
LEMMA Greatest ==
    ASSUME Library, NEW n \in Nat, NEW S \in SUBSET (0 .. n), S # {}
    PROVE  \E m \in S : \A k \in S : k <= m
<1> DEFINE T == {n - k : k \in S}
<1>1. T \in SUBSET Nat /\ T # {}
  <2>1. \A k \in S : n - k \in Nat
    OBVIOUS
  <2> QED
    BY Zenon, <2>1
<1>2. PICK t \in T : \A u \in T : t <= u
  BY Zenon, <1>1, Least
<1>3. PICK m \in S : t = n - m
  BY Zenon
<1>4. ASSUME NEW k \in S PROVE k <= m
  <2>1. n - m <= n - k
    BY <1>2, <1>3
  <2> QED
    BY <2>1
<1> QED
  BY <1>4

\* Induction over the numbers.
LEMMA Induction ==
    ASSUME Library, NEW S, 0 \in S, \A n \in Nat : n \in S => n + 1 \in S
    PROVE  \A n \in Nat : n \in S
<1> SUFFICES ASSUME NEW k \in Nat, k \notin S PROVE FALSE
  BY Zenon
<1> DEFINE T == {n \in Nat : n \notin S}
<1>1. T \in SUBSET Nat /\ T # {}
  BY Zenon
<1>2. PICK n \in T : \A j \in T : n <= j
  <2> HIDE DEF T
  <2> QED
    BY Zenon, <1>1, Least
<1>3. n \in Nat /\ n # 0
  BY Zenon
<1>4. n - 1 \in Nat /\ (n - 1) + 1 = n /\ ~(n <= n - 1)
  BY <1>3
<1>5. n - 1 \in S
  BY Zenon, <1>2, <1>4
<1> QED
  BY Zenon, <1>4, <1>5

\* What a recursive equation gives for x, and that it has a solution.
Body(f, x, pre, B, base, step) == IF x \in B THEN base[x] ELSE step[<<x, f[pre[x]]>>]
HasSolution(X, V, pre, B, base, step) ==
    \E f \in [X -> V] : \A x \in X : f[x] = Body(f, x, pre, B, base, step)

\* A recursive equation whose argument gets smaller in some measure has a solution.
LEMMA Recursion ==
    ASSUME Library, NEW X, NEW V, NEW m \in [X -> Nat], NEW pre \in [X -> X], NEW B,
           \A x \in X : x \notin B => m[pre[x]] < m[x],
           NEW base \in [X -> V], NEW step \in [X \X V -> V]
    PROVE  HasSolution(X, V, pre, B, base, step)
<1> DEFINE E(f, x) == Body(f, x, pre, B, base, step)
           Sat(f, n) == \A x \in X : m[x] < n => f[x] = E(f, x)
<1>e. \A f, x : E(f, x) = IF x \in B THEN base[x] ELSE step[<<x, f[pre[x]]>>]
  BY Zenon DEF Body
<1>t. \A f \in [X -> V] : \A x \in X : E(f, x) \in V
  <2> TAKE f \in [X -> V]
  <2> TAKE x \in X
  <2>1. base[x] \in V /\ f[pre[x]] \in V
    BY Zenon
  <2>2. <<x, f[pre[x]]>> \in X \X V
    BY Zenon, <2>1
  <2>3. step[<<x, f[pre[x]]>>] \in V
    BY Zenon, <2>2
  <2> QED
    BY Zenon, <2>1, <2>3, <1>e
<1> HIDE DEF E
<1>1. \A n \in Nat : \E f \in [X -> V] : Sat(f, n)
  <2> DEFINE S == {n \in Nat : \E f \in [X -> V] : Sat(f, n)}
  <2>1. 0 \in S
    <3>1. \A x \in X : ~(m[x] < 0)
      OBVIOUS
    <3>2. Sat(base, 0)
      BY Zenon, <3>1
    <3> HIDE DEF Sat
    <3> QED
      BY Zenon, <3>2
  <2>2. ASSUME NEW n \in Nat, n \in S PROVE n + 1 \in S
    <3>1. PICK f \in [X -> V] : Sat(f, n)
      BY Zenon, <2>2
    <3> DEFINE g == [x \in X |-> E(f, x)]
    <3>2. g \in [X -> V] /\ \A x \in X : g[x] = E(f, x)
      BY Zenon, <1>t
    <3> HIDE DEF g
    <3>3. ASSUME NEW x \in X, m[x] < n + 1 PROVE g[x] = E(g, x)
      <4>1. CASE x \in B
        BY Zenon, <1>e, <3>2, <4>1
      <4>2. CASE x \notin B
        <5>1. m[pre[x]] < n /\ pre[x] \in X
          <6>1. m[pre[x]] < m[x] /\ pre[x] \in X
            BY Zenon, <4>2
          <6>2. m[pre[x]] \in Nat /\ m[x] \in Nat
            BY Zenon, <6>1
          <6> QED
            BY ONLY <3>3, <6>1, <6>2, n \in Nat
        <5>2. f[pre[x]] = g[pre[x]]
          <6>1. f[pre[x]] = E(f, pre[x])
            BY Zenon, <3>1, <5>1
          <6>2. g[pre[x]] = E(f, pre[x])
            BY Zenon, <3>2, <5>1
          <6> QED
            BY ONLY Zenon, <6>1, <6>2
        <5> QED
          BY Zenon, <1>e, <3>2, <4>2, <5>2
      <4> QED
        BY Zenon, <4>1, <4>2
    <3>4. Sat(g, n + 1) /\ n + 1 \in Nat
      BY <3>3
    <3> HIDE DEF Sat
    <3> QED
      BY Zenon, <3>2, <3>4
  <2>3. \A n \in Nat : n \in S
    <3> HIDE DEF S
    <3> QED
      BY Zenon, <2>1, <2>2, Induction
  <2> QED
    BY Zenon, <2>3
<1>2. ASSUME NEW n \in Nat, NEW f \in [X -> V], NEW g \in [X -> V], Sat(f, n), Sat(g, n),
             NEW y \in X, m[y] < n
      PROVE  f[y] = g[y]
  <2> DEFINE S == {k \in Nat : \A x \in X : m[x] < k /\ m[x] < n => f[x] = g[x]}
  <2>1. 0 \in S
    <3>1. \A x \in X : ~(m[x] < 0)
      OBVIOUS
    <3> QED
      BY Zenon, <3>1
  <2>2. ASSUME NEW k \in Nat, k \in S PROVE k + 1 \in S
    <3>1. ASSUME NEW x \in X, m[x] < k + 1, m[x] < n PROVE f[x] = g[x]
      <4>0. f[x] = E(f, x) /\ g[x] = E(g, x)
        BY Zenon, <1>2, <3>1
      <4>1. CASE x \in B
        BY Zenon, <1>e, <4>0, <4>1
      <4>2. CASE x \notin B
        <5>1. m[pre[x]] < k /\ m[pre[x]] < n /\ pre[x] \in X
          <6>1. m[pre[x]] < m[x] /\ pre[x] \in X
            BY Zenon, <4>2
          <6>2. m[pre[x]] \in Nat /\ m[x] \in Nat
            BY Zenon, <6>1
          <6> QED
            BY ONLY <3>1, <6>1, <6>2, k \in Nat, n \in Nat
        <5>2. f[pre[x]] = g[pre[x]]
          BY Zenon, <2>2, <5>1
        <5> QED
          BY Zenon, <1>e, <4>0, <4>2, <5>2
      <4> QED
        BY Zenon, <4>1, <4>2
    <3>2. k + 1 \in Nat
      OBVIOUS
    <3> QED
      BY Zenon, <3>1, <3>2
  <2>3. \A k \in Nat : k \in S
    <3> HIDE DEF S
    <3> QED
      BY Zenon, <2>1, <2>2, Induction
  <2>4. n \in S
    BY Zenon, <2>3
  <2> QED
    BY Zenon, <1>2, <2>4
<1> DEFINE G(n) == CHOOSE f \in [X -> V] : Sat(f, n)
<1>3. \A n \in Nat : G(n) \in [X -> V] /\ Sat(G(n), n)
  <2> HIDE DEF Sat
  <2> QED
    BY Zenon, <1>1
<1> HIDE DEF G
<1> DEFINE h == [x \in X |-> G(m[x] + 1)[x]]
<1>4. \A x \in X : m[x] \in Nat /\ m[x] + 1 \in Nat /\ m[x] < m[x] + 1
  <2> TAKE x \in X
  <2>1. m[x] \in Nat
    BY Zenon
  <2> QED
    BY ONLY <2>1
<1>5. h \in [X -> V] /\ \A x \in X : h[x] = G(m[x] + 1)[x]
  BY Zenon, <1>3, <1>4
<1> HIDE DEF h
<1>6. ASSUME NEW x \in X PROVE h[x] = E(h, x)
  <2> DEFINE g == G(m[x] + 1)
  <2>0. g \in [X -> V] /\ Sat(g, m[x] + 1) /\ h[x] = g[x]
    BY Zenon, <1>3, <1>4, <1>5
  <2> HIDE DEF g
  <2>1. h[x] = E(g, x)
    BY Zenon, <1>4, <2>0
  <2>2. CASE x \in B
    BY Zenon, <1>e, <2>1, <2>2
  <2>3. CASE x \notin B
    <3> DEFINE p == pre[x]
    <3>1. p \in X /\ m[p] < m[x] /\ m[p] \in Nat /\ m[p] + 1 \in Nat /\ m[p] < m[p] + 1
      BY Zenon, <1>4, <2>3
    <3> HIDE DEF p
    <3>2. Sat(g, m[p] + 1)
      <4>1. \A y \in X : m[y] < m[p] + 1 => m[y] < m[x] + 1
        <5> TAKE y \in X
        <5> QED
          BY ONLY <1>4, <3>1, x \in X, y \in X
      <4> QED
        BY Zenon, <2>0, <4>1
    <3>3. h[p] = G(m[p] + 1)[p] /\ G(m[p] + 1) \in [X -> V] /\ Sat(G(m[p] + 1), m[p] + 1)
      BY Zenon, <1>3, <1>5, <3>1
    <3>4. G(m[p] + 1)[p] = g[p]
      <4> HIDE DEF Sat
      <4> QED
        BY Zenon, <1>2, <2>0, <3>1, <3>2, <3>3
    <3> QED
      BY Zenon, <1>e, <2>1, <2>3, <3>3, <3>4 DEF p
  <2> QED
    BY Zenon, <2>2, <2>3
<1> QED
  BY Zenon, <1>5, <1>6 DEF E, HasSolution

\* Strong induction, for halving and the like.
LEMMA StrongInduction ==
    ASSUME Library, NEW S, \A n \in Nat : (\A k \in Nat : k < n => k \in S) => n \in S
    PROVE  \A n \in Nat : n \in S
<1> SUFFICES ASSUME NEW j \in Nat, j \notin S PROVE FALSE
  BY Zenon
<1> DEFINE T == {n \in Nat : n \notin S}
<1>1. T \in SUBSET Nat /\ T # {}
  BY Zenon
<1>2. PICK n \in T : \A k \in T : n <= k
  <2> HIDE DEF T
  <2> QED
    BY Zenon, <1>1, Least
<1>3. \A k \in Nat : k < n => k \in S
  <2> TAKE k \in Nat
  <2>1. k < n => ~(n <= k)
    BY <1>2
  <2> QED
    BY Zenon, <1>2, <2>1
<1> QED
  BY Zenon, <1>2, <1>3

\* n \div k of a number is a smaller one.
LEMMA Shrinks ==
    ASSUME NEW n \in Nat
    PROVE  /\ n \div 2 \in Nat /\ (n > 0 => n \div 2 < n)
           /\ n \div 10 \in Nat /\ (n > 0 => n \div 10 < n)
           /\ n \div 128 \in Nat /\ (n > 0 => n \div 128 < n)
  OBVIOUS

-----------------------------------------------------------------------------
(* Messages and gas prices.                                                *)

\* The epochs of the lists, and the first list.
LEMMA PriceEpochs == /\ DOMAIN Ch!PRICES \subseteq Int /\ 0 \in DOMAIN Ch!PRICES
                     /\ Ch!PRICES[0] = Ch!PricelistV0
                     /\ \A e \in DOMAIN Ch!PRICES : e # 0 => e \in DOMAIN LaterPrices /\ Ch!PRICES[e] = LaterPrices[e]
<1>1. 0 \in Int
  OBVIOUS
<1> QED
  BY Zenon, <1>1, PricesAssumption DEF Ch!PRICES

\* The list of an epoch is one of the lists: the first, or that of the latest epoch not after it.
LEMMA PricesOf ==
    ASSUME Library, NEW epoch \in Nat
    PROVE  \E e \in DOMAIN Ch!PRICES :
              /\ Ch!pricelist_by_epoch(epoch) = Ch!PRICES[e]
              /\ e \in 0 .. epoch
              /\ \A f \in DOMAIN Ch!PRICES : 0 <= f /\ f <= epoch => f <= e
<1> DEFINE since == {e \in DOMAIN Ch!PRICES : e > 0 /\ e <= epoch} \cup {0}
           m == CHOOSE e \in since : \A f \in since : f <= e
<1>1. 0 \in DOMAIN Ch!PRICES /\ DOMAIN Ch!PRICES \subseteq Int
  BY Zenon, PriceEpochs
<1>2. since \in SUBSET (0 .. epoch) /\ since # {} /\ since \subseteq DOMAIN Ch!PRICES
  BY <1>1
<1>3. m \in since /\ \A f \in since : f <= m
  <2> HIDE DEF since
  <2>1. \E e \in since : \A f \in since : f <= e
    BY Zenon, <1>2, Greatest
  <2> QED
    BY Zenon, <2>1
<1>4. Ch!pricelist_by_epoch(epoch) = Ch!PRICES[m]
  BY Zenon DEF Ch!pricelist_by_epoch
<1>5. \A f \in DOMAIN Ch!PRICES : 0 <= f /\ f <= epoch => f \in since
  BY <1>1
<1> HIDE DEF m, since
<1> QED
  BY Zenon, <1>2, <1>3, <1>4, <1>5

\* Storing a message costs something or nothing.
LEMMA StoringCosts ==
    ASSUME Library, NEW epoch \in Nat, NEW size \in Nat
    PROVE  Ch!on_chain_message(Ch!pricelist_by_epoch(epoch), size) \in Nat
<1>1. PICK e \in DOMAIN Ch!PRICES : Ch!pricelist_by_epoch(epoch) = Ch!PRICES[e]
  BY Zenon, PricesOf
<1>2. Ch!PRICES[e].on_chain_message_base \in Nat /\ Ch!PRICES[e].on_chain_message_per_byte \in Nat
  <2>1. CASE e = 0
    <3>1. Ch!PRICES[e] = Ch!PricelistV0
      BY Zenon, <2>1, PriceEpochs
    <3>2. Ch!PricelistV0.on_chain_message_base = 0 /\ Ch!PricelistV0.on_chain_message_per_byte = 2
      BY Zenon DEF Ch!PricelistV0
    <3> QED
      BY <3>1, <3>2
  <2>2. CASE e # 0
    BY Zenon, <2>2, PriceEpochs, PricesAssumption
  <2> QED
    BY Zenon, <2>1, <2>2
<1>3. \A a, b \in Nat : a + b * size \in Nat
  OBVIOUS
<1> QED
  BY Zenon, <1>1, <1>2, <1>3 DEF Ch!on_chain_message

\* A message that validate_for_block_inclusion lets pass pays for its place in the block,
\* and promises no more than there is.
LEMMA Included ==
    ASSUME Library, NEW m \in Message, NEW size \in Nat, NEW epoch \in Nat
    PROVE  Ch!IncludedIsPaid(m, size, epoch)
<1> DEFINE min_gas == Ch!on_chain_message(Ch!pricelist_by_epoch(epoch), size)
<1>1. min_gas \in Nat
  BY Zenon, StoringCosts
<1> HIDE DEF min_gas
<1>2. /\ m.version \in Int /\ m.value \in Int /\ m.gas_price \in Int /\ m.gas_limit \in Int
      /\ TOTAL_FILECOIN \in Nat /\ BLOCK_GAS_LIMIT \in Nat
  BY PricesAssumption DEF Message
<1>3. ASSUME "ok" \in DOMAIN Ch!validate_for_block_inclusion(m, min_gas)
      PROVE  /\ 0 <= m.value /\ m.value <= TOTAL_FILECOIN /\ 0 <= m.gas_price
             /\ min_gas <= m.gas_limit /\ m.gas_limit <= BLOCK_GAS_LIMIT
  BY <1>1, <1>2, <1>3 DEF Ch!validate_for_block_inclusion, Ch!Err, Ch!Ok
<1>4. \A p, l \in Nat : p * l \in Nat
  OBVIOUS
<1>5. ASSUME "ok" \in DOMAIN Ch!validate_for_block_inclusion(m, min_gas)
      PROVE  m.gas_price * m.gas_limit \in Nat
  BY <1>1, <1>2, <1>3, <1>4, <1>5
<1>6. ASSUME "ok" \in DOMAIN Ch!validate_for_block_inclusion(m, min_gas)
      PROVE  /\ min_gas \in 0 .. BLOCK_GAS_LIMIT
             /\ Ch!required_funds(m) >= m.value /\ m.value \in 0 .. TOTAL_FILECOIN
  BY <1>1, <1>2, <1>3, <1>5, <1>6 DEF Ch!required_funds
<1> QED
  BY Zenon, <1>6 DEF Ch!IncludedIsPaid, min_gas

\* A list of prices holds from its epoch until the next one (pricelist_by_epoch).
LEMMA FromTheirEpoch ==
    ASSUME Library, NEW epoch \in Nat PROVE Ch!PricesFromTheirEpoch(epoch)
<1>0. DOMAIN Ch!PRICES \subseteq Int
  BY Zenon, PriceEpochs
<1>1. PICK e \in DOMAIN Ch!PRICES :
              /\ Ch!pricelist_by_epoch(epoch) = Ch!PRICES[e]
              /\ e \in 0 .. epoch
              /\ \A f \in DOMAIN Ch!PRICES : 0 <= f /\ f <= epoch => f <= e
  BY Zenon, PricesOf
<1>2. ASSUME NEW f \in DOMAIN Ch!PRICES, 0 <= f /\ f <= epoch PROVE f = e \/ (f < e /\ e <= epoch)
  BY <1>0, <1>1, <1>2
<1> QED
  BY Zenon, <1>1, <1>2 DEF Ch!PricesFromTheirEpoch

\* Deleting an actor never earns more than creating one cost, and nothing else earns
\* anything (Pricelist).
LEMMA Refunded ==
    ASSUME Library, NEW size \in Nat PROVE Ch!RefundIsCovered(size)
<1>1. Ch!pricelist_by_epoch(0) = Ch!PricelistV0
  <2>1. PICK e \in DOMAIN Ch!PRICES : Ch!pricelist_by_epoch(0) = Ch!PRICES[e] /\ e \in 0 .. 0
    BY Zenon, PricesOf, 0 \in Nat
  <2>2. e = 0
    BY SMTT(20), <2>1
  <2> QED
    BY Zenon, <2>1, <2>2, PriceEpochs
<1> DEFINE prices == Ch!PricelistV0
<1>2. /\ prices.delete_actor = -500 /\ prices.create_actor_base = 40 /\ prices.create_actor_extra = 500
      /\ prices.ipld_put_base = 20 /\ prices.ipld_put_per_byte = 2 /\ prices.ipld_get_base = 10
      /\ prices.ipld_get_per_byte = 1 /\ prices.on_chain_return_value_per_byte = 8 /\ prices.hashing_base = 5
      /\ prices.hashing_per_byte = 2 /\ prices.send_base = 5 /\ prices.send_transfer_funds = 5
      /\ prices.send_invoke_method = 10
  BY Zenon DEF Ch!PricelistV0
<1> HIDE DEF prices
<1>3. /\ Ch!on_delete_actor(prices) < 0
      /\ Ch!on_create_actor(prices) + Ch!on_delete_actor(prices) >= Ch!on_ipld_put(prices, 0)
  BY <1>2 DEF Ch!on_delete_actor, Ch!on_create_actor, Ch!on_ipld_put
<1>4. /\ Ch!on_chain_return_value(prices, size) >= 0 /\ Ch!on_ipld_get(prices, size) >= 0
      /\ Ch!on_ipld_put(prices, size) >= 0 /\ Ch!on_hashing(prices, size) >= 0
      /\ Ch!on_verify_signature(prices, "bls", size) >= 0
      /\ Ch!on_method_invocation(prices, size, size) >= 0
  BY <1>2 DEF Ch!on_chain_return_value, Ch!on_ipld_get, Ch!on_ipld_put, Ch!on_hashing, Ch!on_verify_signature,
              Ch!on_method_invocation
<1> QED
  BY Zenon, <1>1, <1>3, <1>4 DEF Ch!RefundIsCovered, prices

-----------------------------------------------------------------------------
(* Tipsets.                                                                *)

\* The places that a total order gives to 1 .. n: how many come before, and one.
Rank(n, R) == [i \in 1 .. n |-> 1 + Ch!Cardinality({j \in 1 .. n : <<j, i>> \in R})]

\* R orders 1 .. n totally.
IsOrder(n, R) ==
    /\ \A i \in 1 .. n : <<i, i>> \notin R
    /\ \A i, j \in 1 .. n : i # j => <<i, j>> \in R \/ <<j, i>> \in R
    /\ \A i, j, k \in 1 .. n : <<i, j>> \in R /\ <<j, k>> \in R => <<i, k>> \in R

\* Every place is taken, in that order.
AreRanks(n, R, f) ==
    /\ f \in [1 .. n -> 1 .. n]
    /\ \A i, j \in 1 .. n : <<i, j>> \in R => f[i] < f[j]
    /\ \A p \in 1 .. n : \E i \in 1 .. n : f[i] = p

\* There are n numbers in 1 .. n.
LEMMA Intervals ==
    ASSUME Library, NEW n \in Nat
    PROVE  Ch!IsFiniteSet(1 .. n) /\ Ch!Cardinality(1 .. n) = n
  BY Zenon DEF Library, IntervalsCount

\* T is finite and has fewer members than S.
FewerIn(T, S) ==
    /\ Ch!IsFiniteSet(T) /\ Ch!Cardinality(T) \in Nat /\ Ch!Cardinality(S) \in Nat
    /\ Ch!Cardinality(T) < Ch!Cardinality(S)

\* Smaller sets have fewer members.
LEMMA Fewer ==
    ASSUME Library, NEW S, Ch!IsFiniteSet(S), NEW T \in SUBSET S, NEW x \in S, x \notin T
    PROVE  FewerIn(T, S)
<1>1. /\ Ch!IsFiniteSet(T) /\ Ch!Cardinality(T) \in Nat /\ Ch!Cardinality(S) \in Nat
      /\ Ch!Cardinality(T) <= Ch!Cardinality(S) /\ (Ch!Cardinality(S) = Ch!Cardinality(T) => S = T)
  BY Zenon, Parts
<1>2. Ch!Cardinality(S) # Ch!Cardinality(T)
  BY Zenon, <1>1
<1> QED
  BY <1>1, <1>2 DEF FewerIn

\* A total order gives every place to one number.
LEMMA RankPlaces ==
    ASSUME Library, NEW n \in Nat, NEW R, IsOrder(n, R)
    PROVE  AreRanks(n, R, Rank(n, R))
<1> DEFINE D == 1 .. n
           Pred(i) == {j \in D : <<j, i>> \in R}
           f == Rank(n, R)
<1>0. Ch!IsFiniteSet(D) /\ Ch!Cardinality(D) = n
  BY Zenon, Intervals
<1>1. ASSUME NEW i \in D
      PROVE  Ch!IsFiniteSet(Pred(i)) /\ Ch!Cardinality(Pred(i)) \in Nat /\ Ch!Cardinality(Pred(i)) < n
  <2>1. Pred(i) \in SUBSET D /\ i \notin Pred(i)
    BY Zenon DEF IsOrder
  <2> QED
    BY ONLY Zenon, Library, <1>0, <2>1, i \in D, Fewer DEF FewerIn
<1>2. ASSUME NEW i \in D, NEW j \in D, <<i, j>> \in R
      PROVE  Ch!Cardinality(Pred(i)) < Ch!Cardinality(Pred(j))
  <2>1. Pred(i) \in SUBSET Pred(j) /\ i \in Pred(j) /\ i \notin Pred(i)
    BY Zenon, <1>2 DEF IsOrder
  <2>2. Ch!IsFiniteSet(Pred(j))
    BY Zenon, <1>1
  <2> HIDE DEF Pred
  <2> QED
    BY Zenon, <2>1, <2>2, Fewer DEF FewerIn
<1>3. \A i \in D : f[i] = 1 + Ch!Cardinality(Pred(i))
  BY Zenon DEF Rank
<1>4. DOMAIN f = D /\ f = [i \in D |-> f[i]]
  BY Zenon DEF Rank
<1> HIDE DEF f, Pred
<1>5. \A i \in D : f[i] \in D
  BY <1>1, <1>3
<1>6. f \in [D -> D]
  BY Zenon, <1>4, <1>5
<1>7. ASSUME NEW i \in D, NEW j \in D, <<i, j>> \in R PROVE f[i] < f[j]
  BY <1>1, <1>2, <1>3, <1>7
<1>8. ASSUME NEW i \in D, NEW j \in D, f[i] = f[j] PROVE i = j
  <2>1. ~(f[i] < f[j]) /\ ~(f[j] < f[i])
    BY <1>5, <1>8
  <2>2. <<i, j>> \notin R /\ <<j, i>> \notin R
    BY Zenon, <1>7, <2>1
  <2>3. i # j => <<i, j>> \in R \/ <<j, i>> \in R
    BY DEF IsOrder
  <2> QED
    BY ONLY <2>2, <2>3
<1>9. \A p \in D : \E i \in D : f[i] = p
  BY Zenon, <1>0, <1>6, <1>8, OneToOneCovers
<1> QED
  BY Zenon, <1>6, <1>7, <1>9 DEF f, AreRanks

\* Blocks are ordered up to those with one ticket and one CID.
LEMMA BlocksOrdered ==
    ASSUME NEW a \in Block, NEW b \in Block, NEW c \in Block
    PROVE  /\ Ch!Before(a, b) => ~Ch!Before(b, a)
           /\ Ch!Before(a, b) => Ch!Before(a, c) \/ Ch!Before(c, b)
           /\ Ch!Before(a, b) /\ Ch!Before(b, c) => Ch!Before(a, c)
           /\ ~Ch!Before(a, b) /\ ~Ch!Before(b, a) => a.ticket <= b.ticket /\ a.cid = b.cid
           /\ ~Ch!Before(b, a) => a.ticket <= b.ticket
<1>1. a.ticket \in Int /\ b.ticket \in Int /\ c.ticket \in Int /\ a.cid \in Int /\ b.cid \in Int /\ c.cid \in Int
  BY DEF Block
<1> QED
  BY <1>1 DEF Ch!Before

\* The order a stable sort leaves the blocks in.
Precedes(blocks) ==
    {q \in (DOMAIN blocks) \X (DOMAIN blocks) :
        \/ Ch!Before(blocks[q[1]], blocks[q[2]])
        \/ (q[1] < q[2] /\ ~Ch!Before(blocks[q[2]], blocks[q[1]]))}

\* What it is for one place to precede another.
LEMMA PrecedesIs ==
    ASSUME NEW blocks, NEW i \in DOMAIN blocks, NEW j \in DOMAIN blocks
    PROVE  <<i, j>> \in Precedes(blocks) <=>
               \/ Ch!Before(blocks[i], blocks[j])
               \/ (i < j /\ ~Ch!Before(blocks[j], blocks[i]))
<1> DEFINE q == <<i, j>>
<1>1. q \in (DOMAIN blocks) \X (DOMAIN blocks) /\ q[1] = i /\ q[2] = j
  BY Zenon
<1> HIDE DEF q
<1>2. q \in Precedes(blocks) <=>
          \/ Ch!Before(blocks[q[1]], blocks[q[2]])
          \/ (q[1] < q[2] /\ ~Ch!Before(blocks[q[2]], blocks[q[1]]))
  BY Zenon, <1>1 DEF Precedes
<1> QED
  BY Zenon, <1>1, <1>2 DEF q

\* Blocks precede each other in a total order.
LEMMA PrecedesOrders ==
    ASSUME NEW blocks \in Seq(Block)
    PROVE  IsOrder(Len(blocks), Precedes(blocks))
<1> DEFINE D == 1 .. Len(blocks)
<1>0. DOMAIN blocks = D /\ D \in SUBSET Int /\ \A i \in D : blocks[i] \in Block
  OBVIOUS
<1> HIDE DEF D
<1>1. \A i, j \in D : <<i, j>> \in Precedes(blocks) <=>
          \/ Ch!Before(blocks[i], blocks[j])
          \/ (i < j /\ ~Ch!Before(blocks[j], blocks[i]))
  BY Zenon, <1>0, PrecedesIs
<1>2. \A i \in D : <<i, i>> \notin Precedes(blocks)
  <2> TAKE i \in D
  <2>1. ~Ch!Before(blocks[i], blocks[i])
    BY Zenon, <1>0, BlocksOrdered
  <2>2. ~(i < i)
    BY <1>0
  <2> QED
    BY Zenon, <1>1, <2>1, <2>2
<1>3. \A i, j \in D : i # j => <<i, j>> \in Precedes(blocks) \/ <<j, i>> \in Precedes(blocks)
  <2> TAKE i, j \in D
  <2>2. i # j => i < j \/ j < i
    BY <1>0
  <2> QED
    BY Zenon, <1>1, <2>2
<1>4. \A i, j, k \in D : <<i, j>> \in Precedes(blocks) /\ <<j, k>> \in Precedes(blocks) => <<i, k>> \in Precedes(blocks)
  <2> TAKE i, j, k \in D
  <2> DEFINE B(x, y) == Ch!Before(blocks[x], blocks[y])
  <2>1. /\ B(i, j) => ~B(j, i) /\ (B(i, k) \/ B(k, j))
        /\ B(j, k) => ~B(k, j) /\ (B(j, i) \/ B(i, k))
        /\ B(k, i) => ~B(i, k) /\ (B(k, j) \/ B(j, i))
    BY Zenon, <1>0, BlocksOrdered
  <2>2. i < j /\ j < k => i < k
    BY <1>0
  <2>3. /\ <<i, j>> \in Precedes(blocks) <=> B(i, j) \/ (i < j /\ ~B(j, i))
        /\ <<j, k>> \in Precedes(blocks) <=> B(j, k) \/ (j < k /\ ~B(k, j))
        /\ <<i, k>> \in Precedes(blocks) <=> B(i, k) \/ (i < k /\ ~B(k, i))
    BY Zenon, <1>1
  <2> HIDE DEF B
  <2> QED
    BY ONLY <2>1, <2>2, <2>3
<1> QED
  BY Zenon, <1>2, <1>3, <1>4 DEF IsOrder, D

\* Sorted blocks are where these places say.
SortedBy(blocks, f) ==
    /\ DOMAIN Ch!Sorted(blocks) = DOMAIN blocks
    /\ f \in [DOMAIN blocks -> DOMAIN blocks]
    /\ \A i, j \in DOMAIN blocks : <<i, j>> \in Precedes(blocks) => f[i] < f[j]
    /\ \A i \in DOMAIN blocks : Ch!Sorted(blocks)[f[i]] = blocks[i]
    /\ \A p \in DOMAIN blocks : \E i \in DOMAIN blocks : f[i] = p /\ Ch!Sorted(blocks)[p] = blocks[i]

\* A sorted sequence holds the blocks it was made of, each at its place.
LEMMA SortedPlaces ==
    ASSUME Library, NEW blocks \in Seq(Block), NEW f, f = Rank(Len(blocks), Precedes(blocks))
    PROVE  SortedBy(blocks, f)
<1> DEFINE D == DOMAIN blocks
           R == Precedes(blocks)
           Before(i) == {j \in D : \/ Ch!Before(blocks[j], blocks[i])
                                   \/ (j < i /\ ~Ch!Before(blocks[i], blocks[j]))}
           Place(i) == 1 + Ch!Cardinality(Before(i))
<1>0. D = 1 .. Len(blocks) /\ Len(blocks) \in Nat /\ D \in SUBSET Int
  OBVIOUS
<1>r. IsOrder(Len(blocks), R)
  BY Zenon, PrecedesOrders
<1>b. \A i \in D : {j \in D : <<j, i>> \in R} = Before(i)
  BY Zenon, PrecedesIs
<1>3. Ch!Sorted(blocks) = [p \in D |-> blocks[CHOOSE i \in D : Place(i) = p]]
  BY Zenon DEF Ch!Sorted
<1>p. \A i \in D : Place(i) = 1 + Ch!Cardinality(Before(i))
  BY Zenon
<1> HIDE DEF Place, D, R, Before
<1>1. /\ f \in [D -> D]
      /\ \A i, j \in D : <<i, j>> \in R => f[i] < f[j]
      /\ \A p \in D : \E i \in D : f[i] = p
  <2>1. /\ f \in [1 .. Len(blocks) -> 1 .. Len(blocks)]
        /\ \A i, j \in 1 .. Len(blocks) : <<i, j>> \in R => f[i] < f[j]
        /\ \A p \in 1 .. Len(blocks) : \E i \in 1 .. Len(blocks) : f[i] = p
    <3>1. Len(blocks) \in Nat
      BY <1>0
    <3>2. AreRanks(Len(blocks), R, f)
      BY Zenon, <1>r, <3>1, RankPlaces DEF R
    <3> QED
      BY ONLY Zenon, <3>2 DEF AreRanks
  <2> QED
    BY ONLY <1>0, <2>1
<1>2. \A i \in D : f[i] = Place(i)
  <2> TAKE i \in D
  <2>1. f[i] = 1 + Ch!Cardinality({j \in D : <<j, i>> \in R})
    BY Zenon, <1>0 DEF Rank, R
  <2> QED
    BY Zenon, <2>1, <1>b, <1>p
<1>4. ASSUME NEW i \in D, NEW j \in D, f[i] = f[j] PROVE i = j
  <2>1. f[i] \in Int /\ f[j] \in Int
    BY Zenon, <1>0, <1>1
  <2>2. <<i, j>> \notin R /\ <<j, i>> \notin R
    BY ONLY <1>1, <1>4, <2>1
  <2>3. i # j => <<i, j>> \in R \/ <<j, i>> \in R
    BY Zenon, <1>0, <1>r DEF IsOrder
  <2> QED
    BY ONLY <2>2, <2>3
<1>5. ASSUME NEW i \in D PROVE Ch!Sorted(blocks)[f[i]] = blocks[i]
  <2>1. f[i] \in D
    BY Zenon, <1>1
  <2>2. (CHOOSE k \in D : Place(k) = f[i]) = i
    BY Zenon, <1>2, <1>4
  <2> QED
    BY Zenon, <1>3, <2>1, <2>2
<1>6. DOMAIN Ch!Sorted(blocks) = D
  BY Zenon, <1>3
<1>7. \A p \in D : \E i \in D : f[i] = p /\ Ch!Sorted(blocks)[p] = blocks[i]
  <2> TAKE p \in D
  <2>1. PICK i \in D : f[i] = p
    BY Zenon, <1>1
  <2> QED
    BY Zenon, <1>5, <2>1
<1> QED
  BY Zenon, <1>1, <1>5, <1>6, <1>7 DEF D, R, SortedBy

\* In the sorted blocks none is before an earlier one.
LEMMA SortedOrdered ==
    ASSUME Library, NEW blocks \in Seq(Block), NEW p \in DOMAIN blocks, NEW q \in DOMAIN blocks, p < q
    PROVE  ~Ch!Before(Ch!Sorted(blocks)[q], Ch!Sorted(blocks)[p])
<1> DEFINE f == Rank(Len(blocks), Precedes(blocks))
<1>1. /\ \A i, j \in DOMAIN blocks : <<i, j>> \in Precedes(blocks) => f[i] < f[j]
      /\ \A r \in DOMAIN blocks : \E i \in DOMAIN blocks : f[i] = r /\ Ch!Sorted(blocks)[r] = blocks[i]
  <2>1. SortedBy(blocks, f)
    BY Zenon, SortedPlaces
  <2> HIDE DEF f
  <2> QED
    BY ONLY Zenon, <2>1 DEF SortedBy
<1> HIDE DEF f
<1>2. PICK i \in DOMAIN blocks : f[i] = p /\ Ch!Sorted(blocks)[p] = blocks[i]
  BY Zenon, <1>1
<1>3. PICK j \in DOMAIN blocks : f[j] = q /\ Ch!Sorted(blocks)[q] = blocks[j]
  BY Zenon, <1>1
<1>4. ~(q < p)
  OBVIOUS
<1>5. <<j, i>> \notin Precedes(blocks)
  BY Zenon, <1>1, <1>2, <1>3, <1>4
<1> QED
  BY Zenon, <1>2, <1>3, <1>5, PrecedesIs

\* How many blocks come before one, and how many do not come after it.
Lower(blocks, b) == {j \in DOMAIN blocks : Ch!Before(blocks[j], b)}
NotAbove(blocks, b) == {j \in DOMAIN blocks : ~Ch!Before(b, blocks[j])}

\* A sorted block comes after all lower ones, and no later than there are blocks not above
\* it.
LEMMA SortedBounds ==
    ASSUME Library, NEW blocks \in Seq(Block), NEW p \in DOMAIN blocks, NEW b, b = Ch!Sorted(blocks)[p]
    PROVE  /\ p \in Nat /\ Ch!Cardinality(Lower(blocks, b)) \in Nat /\ Ch!Cardinality(NotAbove(blocks, b)) \in Nat
           /\ Ch!Cardinality(Lower(blocks, b)) < p /\ p <= Ch!Cardinality(NotAbove(blocks, b))
<1> DEFINE f == Rank(Len(blocks), Precedes(blocks))
           D == DOMAIN blocks
<1>0. D = 1 .. Len(blocks) /\ Len(blocks) \in Nat /\ D \in SUBSET Nat
  OBVIOUS
<1>1. PICK i \in D : f[i] = p /\ b = blocks[i]
  <2>1. SortedBy(blocks, f)
    BY Zenon, SortedPlaces
  <2> HIDE DEF f
  <2> QED
    BY Zenon, <2>1 DEF SortedBy
<1> DEFINE Pred == {j \in D : <<j, i>> \in Precedes(blocks)}
<1>2. p = 1 + Ch!Cardinality(Pred)
  BY Zenon, <1>0, <1>1 DEF Rank
<1>3. Ch!IsFiniteSet(D)
  BY Zenon, <1>0, Intervals
<1>b. b \in Block /\ \A j \in D : blocks[j] \in Block
  BY <1>1
<1>4. \A j \in D : <<j, i>> \in Precedes(blocks) <=>
          Ch!Before(blocks[j], b) \/ (j < i /\ ~Ch!Before(b, blocks[j]))
  BY Zenon, <1>1, PrecedesIs
<1>5. ~Ch!Before(b, b) /\ \A j \in D : Ch!Before(blocks[j], b) => ~Ch!Before(b, blocks[j])
  BY Zenon, <1>b, BlocksOrdered
<1>6. Lower(blocks, b) \in SUBSET Pred
  BY Zenon, <1>4 DEF Lower
<1>7. Pred \in SUBSET NotAbove(blocks, b) /\ NotAbove(blocks, b) \in SUBSET D
  BY Zenon, <1>4, <1>5 DEF NotAbove
<1>8. i \in NotAbove(blocks, b) /\ i \notin Pred
  <2>1. ~(i < i)
    BY <1>0
  <2> QED
    BY Zenon, <1>1, <1>4, <1>5, <2>1 DEF NotAbove
<1> HIDE DEF Pred, D, f
<1>9. /\ Ch!IsFiniteSet(NotAbove(blocks, b)) /\ Ch!IsFiniteSet(Pred)
      /\ Ch!Cardinality(Pred) \in Nat /\ Ch!Cardinality(NotAbove(blocks, b)) \in Nat
      /\ Ch!Cardinality(Pred) < Ch!Cardinality(NotAbove(blocks, b))
  <2>1. Ch!IsFiniteSet(NotAbove(blocks, b))
    BY Zenon, <1>3, <1>7, Parts
  <2>2. FewerIn(Pred, NotAbove(blocks, b))
    BY ONLY Zenon, Library, <2>1, <1>7, <1>8, Fewer
  <2> QED
    BY Zenon, <2>1, <2>2 DEF FewerIn
<1>10. Ch!Cardinality(Lower(blocks, b)) \in Nat /\ Ch!Cardinality(Lower(blocks, b)) <= Ch!Cardinality(Pred)
  <2>1. Ch!IsFiniteSet(Lower(blocks, b)) /\ Ch!Cardinality(Lower(blocks, b)) <= Ch!Cardinality(Pred)
    BY Zenon, <1>6, <1>9, Parts
  <2> QED
    BY Zenon, <1>6, <1>9, <2>1, Parts
<1> QED
  BY ONLY <1>2, <1>9, <1>10

\* As many blocks come before one, whatever order they are in.
LEMMA LowerInOrders ==
    ASSUME Library, NEW blocks \in Seq(Block), NEW other \in Orders(blocks), NEW b
    PROVE  Ch!Cardinality(Lower(other, b)) = Ch!Cardinality(Lower(blocks, b))
<1> DEFINE D == DOMAIN blocks
<1>1. PICK p \in [D -> D] : /\ \A i, j \in D : p[i] = p[j] => i = j
                            /\ other = [i \in D |-> blocks[p[i]]]
  BY Zenon DEF Orders
<1>2. Ch!IsFiniteSet(D)
  <2>1. D = 1 .. Len(blocks) /\ Len(blocks) \in Nat
    OBVIOUS
  <2> QED
    BY Zenon, <2>1, Intervals
<1>4. \A k \in D : \E i \in D : p[i] = k
  BY ZenonT(40), <1>1, <1>2, OneToOneCovers
<1> DEFINE A == {j \in D : Ch!Before(blocks[p[j]], b)}
           B == {j \in D : Ch!Before(blocks[j], b)}
           g == [j \in A |-> p[j]]
<1>5. Lower(other, b) = A /\ Lower(blocks, b) = B
  <2>1. DOMAIN other = D /\ \A j \in D : other[j] = blocks[p[j]]
    BY Zenon, <1>1
  <2> QED
    BY Zenon, <2>1 DEF Lower
<1>6. /\ \A j \in A : p[j] \in B
      /\ \A k \in B : \E j \in A : p[j] = k
      /\ \A i, j \in A : p[i] = p[j] => i = j
  <2>1. \A j \in D : p[j] \in D
    BY Zenon, <1>1
  <2>2. \A k \in B : \E j \in A : p[j] = k
    <3> TAKE k \in B
    <3>1. PICK j \in D : p[j] = k
      BY Zenon, <1>4
    <3> QED
      BY Zenon, <3>1
  <2> QED
    BY Zenon, <1>1, <2>1, <2>2
<1> HIDE DEF A, B
<1>7. g \in [A -> B] /\ \A j \in A : g[j] = p[j]
  BY Zenon, <1>6
<1> HIDE DEF g
<1>9. Ch!IsFiniteSet(A)
  <2>1. A \in SUBSET D
    BY Zenon DEF A
  <2> QED
    BY Zenon, <1>2, <2>1, Parts
<1>10. Ch!Cardinality(B) = Ch!Cardinality(A)
  <2>1. \A i, j \in A : g[i] = g[j] => i = j
    BY Zenon, <1>6, <1>7
  <2>2. \A k \in B : \E j \in A : g[j] = k
    BY Zenon, <1>6, <1>7
  <2> QED
    BY Zenon, <1>7, <1>9, <2>1, <2>2, OneToOneCounts
<1> QED
  BY Zenon, <1>5, <1>10

\* Blocks not above one are lower than any that it is before.
LEMMA AboveIsLower ==
    ASSUME Library, NEW blocks \in Seq(Block), NEW b \in Block, NEW c \in Block, Ch!Before(b, c)
    PROVE  Ch!Cardinality(NotAbove(blocks, b)) <= Ch!Cardinality(Lower(blocks, c))
<1>1. DOMAIN blocks = 1 .. Len(blocks) /\ Len(blocks) \in Nat /\ \A j \in DOMAIN blocks : blocks[j] \in Block
  OBVIOUS
<1>2. Ch!IsFiniteSet(DOMAIN blocks)
  BY Zenon, <1>1, Intervals
<1>3. NotAbove(blocks, b) \in SUBSET Lower(blocks, c)
  BY Zenon, <1>1, BlocksOrdered DEF NotAbove, Lower
<1>4. Lower(blocks, c) \in SUBSET (DOMAIN blocks)
  BY Zenon DEF Lower
<1>5. Ch!IsFiniteSet(Lower(blocks, c))
  BY ONLY Zenon, Library, <1>2, <1>4, Parts
<1> QED
  BY ONLY Zenon, Library, <1>3, <1>5, Parts

\* Blocks of different CIDs are sorted one way, whatever order they came in.
LEMMA SortedInOrders ==
    ASSUME Library, NEW blocks \in Seq(Block), NEW other \in Seq(Block), IsHashed(blocks), other \in Orders(blocks)
    PROVE  Ch!Sorted(blocks) = Ch!Sorted(other)
<1> DEFINE D == DOMAIN blocks
           S == Ch!Sorted(blocks)
           T == Ch!Sorted(other)
<1>1. DOMAIN other = D /\ \A j \in D : \E k \in D : other[j] = blocks[k]
  <2>1. PICK p \in [D -> D] : other = [i \in D |-> blocks[p[i]]]
    BY Zenon DEF Orders
  <2> QED
    BY Zenon, <2>1
<1>2. /\ DOMAIN S = D /\ \A q \in D : \E i \in D : S[q] = blocks[i]
      /\ DOMAIN T = D /\ \A q \in D : \E i \in D : T[q] = other[i]
  <2>1. SortedBy(blocks, Rank(Len(blocks), Precedes(blocks)))
    BY Zenon, SortedPlaces
  <2>2. SortedBy(other, Rank(Len(other), Precedes(other)))
    BY Zenon, SortedPlaces
  <2>3. DOMAIN S = D /\ \A q \in D : \E i \in D : S[q] = blocks[i]
    BY Zenon, <2>1 DEF SortedBy
  <2>4. DOMAIN T = D /\ \A q \in D : \E i \in D : T[q] = other[i]
    BY Zenon, <1>1, <2>2 DEF SortedBy
  <2> QED
    BY Zenon, <2>3, <2>4
<1>3. \A i \in D : blocks[i] \in Block
  OBVIOUS
<1>4. S = [q \in D |-> S[q]] /\ T = [q \in D |-> T[q]]
  BY Zenon, <1>2 DEF Ch!Sorted
<1>5. ASSUME NEW q \in D PROVE S[q] = T[q]
  <2> DEFINE b == S[q]
             c == T[q]
  <2>1. PICK i \in D : b = blocks[i]
    BY Zenon, <1>2
  <2>2. PICK k \in D : c = blocks[k]
    <3>1. PICK j \in D : c = other[j]
      BY Zenon, <1>2
    <3> QED
      BY Zenon, <1>1, <3>1
  <2>3. b \in Block /\ c \in Block
    BY Zenon, <1>3, <2>1, <2>2
  <2>4. /\ q \in Nat /\ Ch!Cardinality(Lower(blocks, b)) \in Nat /\ Ch!Cardinality(NotAbove(blocks, b)) \in Nat
        /\ Ch!Cardinality(Lower(blocks, b)) < q /\ q <= Ch!Cardinality(NotAbove(blocks, b))
    BY Zenon, SortedBounds
  <2>5. /\ Ch!Cardinality(Lower(other, c)) \in Nat /\ Ch!Cardinality(NotAbove(other, c)) \in Nat
        /\ Ch!Cardinality(Lower(other, c)) < q /\ q <= Ch!Cardinality(NotAbove(other, c))
    BY Zenon, <1>1, SortedBounds
  <2>6. /\ Ch!Cardinality(Lower(other, b)) = Ch!Cardinality(Lower(blocks, b))
        /\ Ch!Cardinality(Lower(other, c)) = Ch!Cardinality(Lower(blocks, c))
    BY Zenon, LowerInOrders
  <2> HIDE DEF b, c
  <2>7. ~Ch!Before(b, c)
    <3>1. ASSUME Ch!Before(b, c)
          PROVE  Ch!Cardinality(NotAbove(blocks, b)) <= Ch!Cardinality(Lower(blocks, c))
      BY Zenon, <2>3, <3>1, AboveIsLower
    <3> QED
      BY ONLY <2>4, <2>5, <2>6, <3>1
  <2>8. ~Ch!Before(c, b)
    <3>1. ASSUME Ch!Before(c, b)
          PROVE  Ch!Cardinality(NotAbove(other, c)) <= Ch!Cardinality(Lower(other, b))
      BY Zenon, <2>3, <3>1, AboveIsLower
    <3> QED
      BY ONLY <2>4, <2>5, <2>6, <3>1
  <2>9. b.cid = c.cid
    BY Zenon, <2>3, <2>7, <2>8, BlocksOrdered
  <2> QED
    BY Zenon, <2>1, <2>2, <2>9 DEF IsHashed, b, c
<1> HIDE DEF D, S, T
<1>6. [q \in D |-> S[q]] = [q \in D |-> T[q]]
  BY Zenon, <1>5
<1>7. S = T
  BY Zenon, <1>4, <1>6
<1> QED
  BY Zenon, <1>7 DEF S, T

\* What is made of sorted blocks.
TipsetOf(sorted) ==
    LET faulty == {i \in DOMAIN sorted : "ok" \notin DOMAIN Ch!Fault(sorted[1], sorted[i])}
    IN  IF faulty # {}
        THEN Ch!Fault(sorted[1], sorted[CHOOSE i \in faulty : \A j \in faulty : i <= j])
        ELSE Ch!Ok([key |-> [i \in DOMAIN sorted |-> sorted[i].cid], blocks |-> sorted,
                    height |-> sorted[1].height])

\* Tipset::new sorts, and looks at the sorted blocks only.
LEMMA TipsetIs ==
    ASSUME NEW blocks, blocks # <<>>
    PROVE  Ch!Tipset(blocks) = TipsetOf(Ch!Sorted(blocks))
  BY Zenon DEF Ch!Tipset, TipsetOf

\* A tipset, its key or its refusal is that of the sorted blocks.
LEMMA OrdersMakeOneTipset ==
    ASSUME Library, NEW blocks \in Seq(Block), NEW other \in Seq(Block), IsHashed(blocks), other \in Orders(blocks)
    PROVE  Ch!OrderDoesNotMatter(blocks, other)
<1>1. Ch!Sorted(blocks) = Ch!Sorted(other)
  BY Zenon, SortedInOrders
<1>2. blocks = <<>> <=> other = <<>>
  <2>1. DOMAIN other = DOMAIN blocks
    BY Zenon DEF Orders
  <2>2. Len(other) = Len(blocks)
    BY <2>1
  <2> QED
    BY <2>2
<1> QED
  <2>1. CASE blocks = <<>>
    BY Zenon, <1>2, <2>1 DEF Ch!OrderDoesNotMatter
  <2>2. CASE blocks # <<>>
    <3>1. /\ Ch!Tipset(blocks) = TipsetOf(Ch!Sorted(blocks))
          /\ Ch!Tipset(other) = TipsetOf(Ch!Sorted(other))
      BY Zenon, <1>2, <2>2, TipsetIs
    <3> QED
      BY Zenon, <1>1, <3>1 DEF Ch!OrderDoesNotMatter
  <2> QED
    BY Zenon, <2>1, <2>2

\* A tipset has the height and the parents of its blocks, and its key lists them by
\* ticket, the least one first.
LEMMA TipsetOfItsBlocks ==
    ASSUME Library, NEW blocks \in Seq(Block)
    PROVE  Ch!TipsetAgrees(blocks)
<1> DEFINE D == DOMAIN blocks
           S == Ch!Sorted(blocks)
           ts == [key |-> [i \in D |-> S[i].cid], blocks |-> S, height |-> S[1].height]
<1> SUFFICES ASSUME "ok" \in DOMAIN Ch!Tipset(blocks)
             PROVE  /\ \A i \in D :
                          /\ blocks[i].height = Ch!Tipset(blocks).ok.height
                          /\ \A k \in DOMAIN blocks[i].parents :
                                 /\ k \in DOMAIN Ch!parents(Ch!Tipset(blocks).ok)
                                 /\ blocks[i].parents[k] = Ch!parents(Ch!Tipset(blocks).ok)[k]
                          /\ Ch!contains(Ch!Tipset(blocks).ok, blocks[i].cid)
                    /\ \A i, j \in DOMAIN Ch!Tipset(blocks).ok.blocks :
                          i < j => Ch!Tipset(blocks).ok.blocks[i].ticket <= Ch!Tipset(blocks).ok.blocks[j].ticket
                    /\ Ch!min_ticket_block(Ch!Tipset(blocks).ok) = Ch!Tipset(blocks).ok.blocks[1]
  BY Zenon DEF Ch!TipsetAgrees
<1>1. blocks # <<>>
  BY DEF Ch!Tipset, Ch!Err
<1>2. D = 1 .. Len(blocks) /\ 1 \in D /\ D \in SUBSET Nat /\ \A i \in D : 1 <= i
  BY <1>1
<1>3. DOMAIN S = D /\ (\A i \in D : \E p \in D : S[p] = blocks[i]) /\ \A p \in D : S[p] \in Block
  <2> DEFINE f == Rank(Len(blocks), Precedes(blocks))
  <2>1. SortedBy(blocks, f)
    BY Zenon, SortedPlaces
  <2> HIDE DEF f
  <2>2. \A i \in D : blocks[i] \in Block
    OBVIOUS
  <2>3. \A p \in D : \E i \in D : S[p] = blocks[i]
    BY Zenon, <2>1 DEF SortedBy
  <2>4. DOMAIN S = D /\ \A i \in D : f[i] \in D /\ S[f[i]] = blocks[i]
    BY Zenon, <2>1 DEF SortedBy
  <2>5. \A p \in D : S[p] \in Block
    <3> TAKE p \in D
    <3>1. PICK i \in D : S[p] = blocks[i]
      BY Zenon, <2>3
    <3> QED
      BY Zenon, <2>2, <3>1
  <2> HIDE DEF D, S
  <2> QED
    BY Zenon, <2>4, <2>5
<1>4. \A p, q \in D : p < q => S[p].ticket <= S[q].ticket
  <2> TAKE p, q \in D
  <2> HAVE p < q
  <2>1. ~Ch!Before(S[q], S[p])
    BY Zenon, SortedOrdered
  <2> QED
    BY Zenon, <1>3, <2>1, BlocksOrdered
<1> HIDE DEF S
<1>5. Ch!Tipset(blocks) = TipsetOf(S)
  BY Zenon, <1>1, TipsetIs DEF S
<1>6. \A p \in D : "ok" \in DOMAIN Ch!Fault(S[1], S[p])
  <2> SUFFICES ASSUME NEW r \in D, "ok" \notin DOMAIN Ch!Fault(S[1], S[r])
               PROVE  FALSE
    BY Zenon
  <2> DEFINE faulty == {i \in D : "ok" \notin DOMAIN Ch!Fault(S[1], S[i])}
  <2>1. PICK q \in faulty : Ch!Tipset(blocks) = Ch!Fault(S[1], S[q])
    <3>1. PICK m \in faulty : \A j \in faulty : m <= j
      <4>1. faulty \in SUBSET Nat /\ faulty # {}
        BY Zenon, <1>2
      <4> HIDE DEF faulty
      <4> QED
        BY Zenon, <4>1, Least
    <3>2. (CHOOSE i \in faulty : \A j \in faulty : i <= j) \in faulty
      <4> HIDE DEF faulty
      <4> QED
        BY Zenon, <3>1
    <3>3. Ch!Tipset(blocks) = Ch!Fault(S[1], S[CHOOSE i \in faulty : \A j \in faulty : i <= j])
      BY Zenon, <1>3, <1>5 DEF TipsetOf
    <3> HIDE DEF faulty
    <3> QED
      BY Zenon, <3>2, <3>3
  <2> QED
    BY Zenon, <2>1
<1>7. Ch!Tipset(blocks).ok = ts
  <2>1. Ch!Tipset(blocks) = Ch!Ok(ts)
    BY Zenon, <1>3, <1>5, <1>6 DEF TipsetOf
  <2> HIDE DEF ts
  <2> QED
    BY <2>1 DEF Ch!Ok
<1>8. \A p \in D : /\ S[p].height = S[1].height
                   /\ \A k \in DOMAIN S[p].parents : k \in DOMAIN S[1].parents /\ S[p].parents[k] = S[1].parents[k]
  <2> TAKE p \in D
  <2>1. "ok" \in DOMAIN Ch!Fault(S[1], S[p])
    BY Zenon, <1>6
  <2> QED
    BY <2>1 DEF Ch!Fault, Ch!Err, Ch!Panic, Ch!Ok
<1>9. ts.blocks = S /\ ts.height = S[1].height /\ DOMAIN ts.key = D /\ \A p \in D : ts.key[p] = S[p].cid
  BY Zenon
<1> HIDE DEF ts, D
<1>10. ASSUME NEW i \in D
       PROVE  /\ blocks[i].height = ts.height
              /\ \A k \in DOMAIN blocks[i].parents : k \in DOMAIN S[1].parents /\ blocks[i].parents[k] = S[1].parents[k]
              /\ Ch!contains(ts, blocks[i].cid)
  <2>1. PICK p \in D : S[p] = blocks[i]
    BY Zenon, <1>3
  <2>2. ts.key[p] = blocks[i].cid
    BY Zenon, <1>9, <2>1
  <2>3. Ch!contains(ts, blocks[i].cid)
    BY Zenon, <1>9, <2>2 DEF Ch!contains
  <2>4. blocks[i].height = ts.height
    BY Zenon, <1>8, <1>9, <2>1
  <2>5. \A k \in DOMAIN blocks[i].parents : k \in DOMAIN S[1].parents /\ blocks[i].parents[k] = S[1].parents[k]
    <3>1. \A k \in DOMAIN S[p].parents : k \in DOMAIN S[1].parents /\ S[p].parents[k] = S[1].parents[k]
      BY Zenon, <1>8
    <3> QED
      BY ONLY Zenon, <2>1, <3>1
  <2> QED
    BY Zenon, <2>3, <2>4, <2>5
<1>11. Ch!min_ticket_block(ts) = S[1]
  <2> DEFINE First(i) == /\ \A j \in D : S[i].ticket <= S[j].ticket
                         /\ \A j \in 1 .. i - 1 : S[i].ticket < S[j].ticket
  <2>t. \A i \in D : S[i].ticket \in Int
    BY <1>3 DEF Block
  <2>1. First(1)
    BY <1>2, <1>4, <2>t
  <2>2. ASSUME NEW i \in D, First(i) PROVE i = 1
    <3>1. i # 1 => 1 \in 1 .. i - 1
      BY <1>2
    <3>2. i # 1 => S[i].ticket < S[1].ticket
      BY Zenon, <2>2, <3>1
    <3>3. S[1].ticket <= S[i].ticket
      BY Zenon, <1>2, <2>1
    <3> QED
      BY <1>2, <2>t, <3>2, <3>3
  <2>3. Ch!min_ticket_block(ts) = S[CHOOSE i \in D : First(i)]
    BY Zenon, <1>3, <1>9 DEF Ch!min_ticket_block
  <2> HIDE DEF First
  <2>4. (CHOOSE i \in D : First(i)) = 1
    BY Zenon, <1>2, <2>1, <2>2
  <2> QED
    BY Zenon, <2>3, <2>4
<1>12. Ch!parents(ts) = S[1].parents
  BY Zenon, <1>9 DEF Ch!parents
<1> QED
  <2> DEFINE made == Ch!Tipset(blocks).ok
  <2>0. made = ts
    BY Zenon, <1>7
  <2> HIDE DEF made
  <2>1. \A i \in D : /\ blocks[i].height = made.height
                     /\ \A k \in DOMAIN blocks[i].parents :
                            k \in DOMAIN Ch!parents(made) /\ blocks[i].parents[k] = Ch!parents(made)[k]
                     /\ Ch!contains(made, blocks[i].cid)
    BY Zenon, <1>10, <1>12, <2>0
  <2>2. \A i, j \in DOMAIN made.blocks : i < j => made.blocks[i].ticket <= made.blocks[j].ticket
    BY Zenon, <1>3, <1>4, <1>9, <2>0
  <2>3. Ch!min_ticket_block(made) = made.blocks[1]
    BY Zenon, <1>9, <1>11, <2>0
  <2> QED
    BY Zenon, <2>1, <2>2, <2>3 DEF made, D

-----------------------------------------------------------------------------
(* Addresses.                                                              *)

\* The digits of a number are the last one and those of a tenth of it.
LEMMA DecimalsIs ==
    ASSUME Library
    PROVE  \A n \in Nat : Addr!Decimals[n] = IF n < 10 THEN 1 ELSE 1 + Addr!Decimals[n \div 10]
<1> DEFINE m == [n \in Nat |-> n]
           pre == [n \in Nat |-> n \div 10]
           B == {n \in Nat : n < 10}
           base == [n \in Nat |-> 1]
           step == [q \in Nat \X Nat |-> 1 + q[2]]
<1>1. m \in [Nat -> Nat] /\ \A n \in Nat : m[n] = n
  BY Zenon
<1>2. pre \in [Nat -> Nat] /\ \A n \in Nat : pre[n] = n \div 10
  BY Zenon, Shrinks
<1>3. step \in [Nat \X Nat -> Nat] /\ \A n, v \in Nat : step[<<n, v>>] = 1 + v
  OBVIOUS
<1>4. \A n \in Nat : n \notin B => m[pre[n]] < m[n]
  <2> TAKE n \in Nat
  <2>1. n \notin B => n > 0
    OBVIOUS
  <2> HIDE DEF B
  <2> QED
    BY Zenon, <1>1, <1>2, <2>1, Shrinks
<1>5. base \in [Nat -> Nat] /\ \A n \in Nat : base[n] = 1 /\ (n \in B <=> n < 10)
  OBVIOUS
<1> HIDE DEF m, pre, B, step, base
<1>6. PICK f \in [Nat -> Nat] : \A n \in Nat : f[n] = Body(f, n, pre, B, base, step)
  <2>1. HasSolution(Nat, Nat, pre, B, base, step)
    BY Zenon, <1>1, <1>2, <1>3, <1>4, <1>5, Recursion
  <2> QED
    BY Zenon, <2>1 DEF HasSolution
<1>7. \A n \in Nat : f[n] = IF n < 10 THEN 1 ELSE 1 + f[n \div 10]
  <2> TAKE n \in Nat
  <2>1. f[n] = IF n \in B THEN base[n] ELSE step[<<n, f[pre[n]]>>]
    BY Zenon, <1>6 DEF Body
  <2>2. f[n \div 10] \in Nat
    BY Zenon, <1>6, Shrinks
  <2>3. step[<<n, f[n \div 10]>>] = 1 + f[n \div 10]
    BY Zenon, <1>3, <2>2
  <2> QED
    BY Zenon, <1>2, <1>5, <2>1, <2>3
<1>8. f = [n \in Nat |-> IF n < 10 THEN 1 ELSE 1 + f[n \div 10]]
  BY Zenon, <1>6, <1>7
<1>9. Addr!Decimals = [n \in Nat |-> IF n < 10 THEN 1 ELSE 1 + Addr!Decimals[n \div 10]]
  BY Zenon, <1>8 DEF Addr!Decimals
<1> QED
  BY Zenon, <1>9

\* What the two directions do with one byte.
Small(b) == b < 128
Continued(id, s) == <<128 + (id % 128)>> \o s
LowBits(b, v) == (b % 128) + 128 * v

\* How an ID is written, seven bits at a time.
LEMMA VarintEncodeIs ==
    ASSUME Library
    PROVE  \A id \in Nat : Addr!varint_encode[id] =
           IF Small(id) THEN <<id>> ELSE Continued(id, Addr!varint_encode[id \div 128])
<1> DEFINE m == [n \in Nat |-> n]
           pre == [n \in Nat |-> n \div 128]
           B == {n \in Nat : Small(n)}
           base == [n \in Nat |-> <<n>>]
           step == [q \in Nat \X Seq(Nat) |-> Continued(q[1], q[2])]
<1>1. m \in [Nat -> Nat] /\ \A n \in Nat : m[n] = n
  BY Zenon
<1>2. pre \in [Nat -> Nat] /\ \A n \in Nat : pre[n] = n \div 128
  BY Shrinks
<1>c. \A n \in Nat, s \in Seq(Nat) : Continued(n, s) \in Seq(Nat)
  BY DEF Continued
<1>3. step \in [Nat \X Seq(Nat) -> Seq(Nat)] /\ \A n \in Nat, s \in Seq(Nat) : step[<<n, s>>] = Continued(n, s)
  BY <1>c
<1>4. \A n \in Nat : n \notin B => m[pre[n]] < m[n]
  BY <1>1, <1>2, Shrinks DEF Small
<1>5. base \in [Nat -> Seq(Nat)] /\ \A n \in Nat : base[n] = <<n>> /\ (n \in B <=> Small(n))
  OBVIOUS
<1> HIDE DEF m, pre, B, step, base
<1>6. PICK f \in [Nat -> Seq(Nat)] : \A n \in Nat : f[n] = Body(f, n, pre, B, base, step)
  <2>1. HasSolution(Nat, Seq(Nat), pre, B, base, step)
    BY Zenon, <1>1, <1>2, <1>3, <1>4, <1>5, Recursion
  <2> QED
    BY Zenon, <2>1 DEF HasSolution
<1>7. \A id \in Nat : f[id] = IF Small(id) THEN <<id>> ELSE Continued(id, f[pre[id]])
  <2> TAKE n \in Nat
  <2>1. f[n] = IF n \in B THEN base[n] ELSE step[<<n, f[pre[n]]>>]
    BY Zenon, <1>6 DEF Body
  <2>2. f[pre[n]] \in Seq(Nat)
    BY ZenonT(40), <1>2, <1>6
  <2>3. step[<<n, f[pre[n]]>>] = Continued(n, f[pre[n]])
    BY Zenon, <1>3, <2>2
  <2> QED
    BY Zenon, <1>5, <2>1, <2>3
<1> DEFINE Eqn(g) == g = [id \in Nat |-> IF id < 128 THEN <<id>> ELSE <<128 + (id % 128)>> \o g[id \div 128]]
<1>8. Eqn(f)
  <2>1. \A id \in Nat : f[id] = IF Small(id) THEN <<id>> ELSE Continued(id, f[id \div 128])
    <3> TAKE id \in Nat
    <3> DEFINE d == id \div 128
    <3>1. pre[id] = d
      BY Zenon, <1>2
    <3> HIDE DEF d
    <3>2. f[id] = IF Small(id) THEN <<id>> ELSE Continued(id, f[d])
      BY ONLY Zenon, <1>7, <3>1, id \in Nat
    <3> QED
      BY Zenon, <3>2 DEF d
  <2>2. f = [id \in Nat |-> IF Small(id) THEN <<id>> ELSE Continued(id, f[id \div 128])]
    BY Zenon, <1>6, <2>1
  <2> QED
    BY ONLY Zenon, <2>2 DEF Small, Continued, Eqn
<1>9. Eqn(Addr!varint_encode)
  <2>1. Addr!varint_encode = CHOOSE g : Eqn(g)
    BY Zenon DEF Addr!varint_encode
  <2> HIDE DEF Eqn
  <2> QED
    BY Zenon, <1>8, <2>1
<1> QED
  BY Zenon, <1>9 DEF Small, Continued

\* The first of a sequence, and the rest.
LEMMA Heads ==
    ASSUME NEW S, NEW s \in Seq(S), s # <<>>
    PROVE  s[1] \in S /\ Tail(s) \in Seq(S) /\ Len(Tail(s)) < Len(s)
  OBVIOUS

\* How an ID is read, seven bits at a time.
LEMMA VarintDecodeIs ==
    ASSUME Library
    PROVE  \A bytes \in Seq(0 .. 255) : bytes # <<>> => Addr!varint_decode[bytes] =
           IF Small(bytes[1]) THEN bytes[1] ELSE LowBits(bytes[1], Addr!varint_decode[Tail(bytes)])
<1> DEFINE Byte == 0 .. 255
           X == Seq(Byte)
           First(s) == IF s = <<>> THEN 0 ELSE s[1]
           m == [s \in X |-> Len(s)]
           pre == [s \in X |-> IF s = <<>> THEN s ELSE Tail(s)]
           base == [s \in X |-> First(s)]
           B == {s \in X : Small(First(s))}
           step == [q \in X \X Nat |-> LowBits(First(q[1]), q[2])]
<1>0. \A b \in Byte : b \in Nat
  OBVIOUS
<1>s. Small(0) /\ \A b, v \in Nat : LowBits(b, v) \in Nat
  BY DEF Small, LowBits
<1> HIDE DEF Byte
<1>1. m \in [X -> Nat] /\ \A s \in X : m[s] = Len(s)
  OBVIOUS
<1>2. pre \in [X -> X] /\ \A s \in X : s # <<>> => pre[s] = Tail(s)
  OBVIOUS
<1>3. base \in [X -> Nat] /\ \A s \in X : base[s] = First(s) /\ First(s) \in Nat
  <2>1. \A s \in X : First(s) \in Nat
    BY <1>0, Heads
  <2> HIDE DEF First
  <2> QED
    BY Zenon, <2>1
<1>b. \A s \in X : s \in B <=> Small(First(s))
  BY Zenon
<1>f. /\ \A s \in X : s # <<>> => First(s) = s[1] /\ Tail(s) \in X
      /\ \A s \in X : s \notin B => s # <<>> /\ Len(Tail(s)) < Len(s)
  BY Zenon, <1>s, Heads
<1>4. step \in [X \X Nat -> Nat] /\ \A s \in X, v \in Nat : step[<<s, v>>] = LowBits(First(s), v)
  <2> HIDE DEF First, X
  <2> QED
    BY Zenon, <1>s, <1>3
<1> HIDE DEF m, pre, base, B, step
<1>5. \A s \in X : s \notin B => m[pre[s]] < m[s]
  BY Zenon, <1>1, <1>2, <1>f
<1> HIDE DEF X
<1>6. PICK f \in [X -> Nat] : \A s \in X : f[s] = Body(f, s, pre, B, base, step)
  <2>1. HasSolution(X, Nat, pre, B, base, step)
    BY Zenon, <1>1, <1>2, <1>3, <1>4, <1>5, Recursion
  <2> QED
    BY Zenon, <2>1 DEF HasSolution
<1>7. \A s \in X : f[s] = IF s = <<>> THEN 0 ELSE IF Small(s[1]) THEN s[1] ELSE LowBits(s[1], f[Tail(s)])
  <2> TAKE s \in X
  <2>1. f[s] = IF s \in B THEN base[s] ELSE step[<<s, f[pre[s]]>>]
    BY Zenon, <1>6 DEF Body
  <2>2. CASE s = <<>>
    BY Zenon, <1>b, <1>s, <1>3, <2>1, <2>2
  <2>3. CASE s # <<>>
    <3>1. First(s) = s[1] /\ pre[s] = Tail(s) /\ f[Tail(s)] \in Nat
      BY Zenon, <1>2, <1>6, <1>f, <2>3
    <3>2. step[<<s, f[Tail(s)]>>] = LowBits(s[1], f[Tail(s)])
      BY Zenon, <1>4, <3>1
    <3> HIDE DEF First
    <3> QED
      BY Zenon, <1>b, <1>3, <2>1, <2>3, <3>1, <3>2
  <2> QED
    BY Zenon, <2>2, <2>3
<1> DEFINE Eqn(g) == g = [bytes \in Seq(0 .. 255) |-> IF bytes = <<>> THEN 0
                            ELSE IF bytes[1] < 128 THEN bytes[1] ELSE (bytes[1] % 128) + 128 * g[Tail(bytes)]]
<1>8. Eqn(f)
  <2>1. f = [s \in X |-> IF s = <<>> THEN 0 ELSE IF Small(s[1]) THEN s[1] ELSE LowBits(s[1], f[Tail(s)])]
    BY Zenon, <1>6, <1>7
  <2> QED
    BY ONLY Zenon, <2>1 DEF Small, LowBits, X, Byte, Eqn
<1>9. Eqn(Addr!varint_decode)
  <2>1. Addr!varint_decode = CHOOSE g : Eqn(g)
    BY Zenon DEF Addr!varint_decode
  <2> HIDE DEF Eqn
  <2> QED
    BY Zenon, <1>8, <2>1
<1> QED
  BY Zenon, <1>9 DEF Small, LowBits

\* A varint is a sequence of bytes that is never empty, and the ID comes back from it.
LEMMA VarintComesBack ==
    ASSUME Library, NEW id \in Nat
    PROVE  /\ Addr!varint_encode[id] \in Seq(0 .. 255) /\ Addr!varint_encode[id] # <<>>
           /\ Addr!varint_decode[Addr!varint_encode[id]] = id
<1> DEFINE S == {n \in Nat : /\ Addr!varint_encode[n] \in Seq(0 .. 255) /\ Addr!varint_encode[n] # <<>>
                             /\ Addr!varint_decode[Addr!varint_encode[n]] = n}
<1>1. ASSUME NEW n \in Nat, \A k \in Nat : k < n => k \in S
      PROVE  n \in S
  <2> DEFINE e == Addr!varint_encode[n]
  <2>1. e = IF Small(n) THEN <<n>> ELSE Continued(n, Addr!varint_encode[n \div 128])
    BY VarintEncodeIs
  <2>2. CASE Small(n)
    <3>1. e = <<n>> /\ n \in 0 .. 255
      BY <2>1, <2>2 DEF Small
    <3> HIDE DEF e
    <3>2. e \in Seq(0 .. 255) /\ e # <<>> /\ e[1] = n
      BY <3>1
    <3>3. Addr!varint_decode[e] = n
      BY Zenon, <2>2, <3>2, VarintDecodeIs
    <3> QED
      BY Zenon, <3>2, <3>3 DEF e
  <2>3. CASE ~Small(n)
    <3> DEFINE t == Addr!varint_encode[n \div 128]
               b == 128 + (n % 128)
    <3>1. n \div 128 \in Nat /\ n \div 128 < n
      BY <2>3 DEF Small
    <3>2. n \div 128 \in S
      BY ONLY <1>1, <3>1
    <3>3. t \in Seq(0 .. 255) /\ Addr!varint_decode[t] = n \div 128
      BY ONLY <3>2 DEF S, t
    <3>4. e = <<b>> \o t
      BY <2>1, <2>3 DEF Continued
    <3>5. b \in 0 .. 255 /\ ~Small(b) /\ LowBits(b, n \div 128) = n
      BY DEF Small, LowBits
    <3> HIDE DEF t, b, e
    <3>6. e \in Seq(0 .. 255) /\ e # <<>> /\ e[1] = b /\ Tail(e) = t
      BY ONLY <3>3, <3>4, <3>5
    <3>7. Addr!varint_decode[e] = LowBits(b, Addr!varint_decode[t])
      BY Zenon, <3>5, <3>6, VarintDecodeIs
    <3> QED
      BY Zenon, <3>3, <3>5, <3>6, <3>7 DEF e
  <2> QED
    BY Zenon, <2>2, <2>3
<1>2. \A n \in Nat : n \in S
  <2> HIDE DEF S
  <2> QED
    BY Zenon, <1>1, StrongInduction
<1> QED
  BY Zenon, <1>2

\* Every number has a digit.
LEMMA HasDigits ==
    ASSUME Library, NEW id \in Nat
    PROVE  Addr!Decimals[id] \in Nat /\ Addr!Decimals[id] >= 1
<1> DEFINE S == {n \in Nat : Addr!Decimals[n] \in Nat /\ Addr!Decimals[n] >= 1}
<1>1. ASSUME NEW n \in Nat, \A k \in Nat : k < n => k \in S
      PROVE  n \in S
  <2>1. Addr!Decimals[n] = IF n < 10 THEN 1 ELSE 1 + Addr!Decimals[n \div 10]
    BY DecimalsIs
  <2>2. ~(n < 10) => n \div 10 \in Nat /\ n \div 10 < n
    OBVIOUS
  <2>3. ~(n < 10) => Addr!Decimals[n \div 10] \in Nat /\ Addr!Decimals[n \div 10] >= 1
    BY Zenon, <1>1, <2>2
  <2> QED
    BY <2>1, <2>3
<1>2. \A n \in Nat : n \in S
  <2> HIDE DEF S
  <2> QED
    BY Zenon, <1>1, StrongInduction
<1> QED
  BY Zenon, <1>2

\* The protocols, their numbers and the lengths of their payloads.
LEMMA ProtocolNumbers ==
    /\ Addr!Protocols = {"Id", "Secp256k1", "Actor", "Bls"}
    /\ Addr!Protocol["Id"] = 0 /\ Addr!Protocol["Secp256k1"] = 1
    /\ Addr!Protocol["Actor"] = 2 /\ Addr!Protocol["Bls"] = 3
    /\ Addr!PayloadLen["Secp256k1"] = 20 /\ Addr!PayloadLen["Actor"] = 20 /\ Addr!PayloadLen["Bls"] = 48
  BY DEF Addr!Protocols, Addr!Protocol, Addr!PayloadLen, Addr!PAYLOAD_HASH_LEN, Addr!BLS_PUBLIC_KEY_LEN

\* n is the number of protocol p, and of no other.
Numbered(n, p) ==
    /\ Addr!try_from(n) # {} /\ (CHOOSE q \in Addr!Protocols : q \in Addr!try_from(n)) = p
    /\ n \in Nat /\ (n = 0 <=> p = "Id")

\* The number a protocol has is its own.
LEMMA ProtocolOf ==
    ASSUME NEW p \in Addr!Protocols
    PROVE  Numbered(Addr!Protocol[p], p)
<1>1. \A q \in Addr!Protocols : Addr!Protocol[q] = Addr!Protocol[p] <=> q = p
  BY ProtocolNumbers
<1>2. Addr!try_from(Addr!Protocol[p]) = {p}
  BY Zenon, <1>1 DEF Addr!try_from
<1>3. (CHOOSE q \in Addr!Protocols : q \in {p}) = p
  BY Zenon
<1>4. Addr!Protocol[p] \in Nat /\ (Addr!Protocol[p] = 0 <=> p = "Id")
  BY ProtocolNumbers
<1> QED
  BY Zenon, <1>2, <1>3, <1>4 DEF Numbered

\* Results and values are read by their fields.
LEMMA OkIs == \A x : Addr!Ok(x).ok = x /\ "ok" \in DOMAIN Addr!Ok(x)
  BY DEF Addr!Ok

\* An error is not a result.
LEMMA ErrIs == \A x : "ok" \notin DOMAIN Addr!Err(x)
  BY DEF Addr!Err

\* Nor is a panic.
LEMMA PanicIs == \A x : "ok" \notin DOMAIN Addr!Panic(x)
  BY DEF Addr!Panic

\* An address has a protocol and a payload.
LEMMA AddressIs == \A x, y : Addr!Address(x, y).protocol = x /\ Addr!Address(x, y).payload = y
  BY DEF Addr!Address

\* A payload has a length and a content.
LEMMA PayloadIs == \A x, y : Addr!Payload(x, y).len = x /\ Addr!Payload(x, y).content = y
  BY DEF Addr!Payload

\* What an address is: its protocol, and a payload of the length that goes with it.
IsMade(protocol, of, p) ==
    IF protocol = "Id" THEN p = Addr!Payload(Len(Addr!varint_encode[of]), Addr!varint_encode[of])
    ELSE p.len = Addr!PayloadLen[protocol]

\* The constructors make such addresses (new_id_addr, new_secp256k1_addr, new_actor_addr,
\* new_bls_addr).
LEMMA MadeIs ==
    ASSUME NEW protocol \in Addr!Protocols, NEW of, "ok" \in DOMAIN Addr!Made(protocol, of)
    PROVE  \E p : Addr!Made(protocol, of) = Addr!Ok(Addr!Address(protocol, p)) /\ IsMade(protocol, of, p)
<1>1. CASE protocol = "Id"
  <2>1. Addr!Made(protocol, of) = Addr!new_id_addr(of)
    BY Zenon, <1>1 DEF Addr!Made
  <2> QED
    BY Zenon, <1>1, <2>1 DEF Addr!new_id_addr, Addr!new, IsMade
<1>2. ASSUME NEW p, NEW made, made = Addr!new(protocol, p), "ok" \in DOMAIN made, protocol # "Id"
      PROVE  made = Addr!Ok(Addr!Address(protocol, p)) /\ IsMade(protocol, of, p)
  <2>1. p.len = Addr!PayloadLen[protocol]
    BY Zenon, <1>2, ErrIs DEF Addr!new
  <2> QED
    BY Zenon, <1>2, <2>1 DEF Addr!new, IsMade
<1>3. CASE protocol = "Secp256k1"
  <2>1. protocol # "Id"
    BY <1>3
  <2>2. Addr!Made(protocol, of) = Addr!new_secp256k1_addr(of)
    BY <1>3 DEF Addr!Made
  <2>3. Addr!Made(protocol, of) = Addr!new(protocol, Addr!address_hash(of))
    BY Zenon, <1>3, <2>2, ErrIs DEF Addr!new_secp256k1_addr
  <2> QED
    BY Zenon, <1>2, <2>1, <2>3
<1>4. CASE protocol = "Actor"
  <2>1. protocol # "Id"
    BY <1>4
  <2>2. Addr!Made(protocol, of) = Addr!new(protocol, Addr!address_hash(of))
    BY <1>4 DEF Addr!Made, Addr!new_actor_addr
  <2> QED
    BY Zenon, <1>2, <2>1, <2>2
<1>5. CASE protocol = "Bls"
  <2>1. protocol # "Id"
    BY <1>5
  <2>2. Addr!Made(protocol, of) = Addr!new(protocol, of)
    BY <1>5 DEF Addr!Made, Addr!new_bls_addr
  <2> QED
    BY Zenon, <1>2, <2>1, <2>2
<1> QED
  BY <1>1, <1>3, <1>4, <1>5, ProtocolNumbers

\* A prefix is that of one network.
LEMMA Prefixes ==
    ASSUME NEW writer \in Networks, NEW reader \in Networks
    PROVE  /\ Addr!NETWORK_PREFIX[writer] \in {"f", "t"}
           /\ Addr!NETWORK_PREFIX[writer] = Addr!NETWORK_PREFIX[reader] <=> writer = reader
  BY DEF Networks, Addr!NETWORK_PREFIX

\* as_bytes, then new_from_bytes.
LEMMA BytesComeBack ==
    ASSUME Library, NEW protocol \in Addr!Protocols, NEW of, IsIngredient(protocol, of),
           NEW p, IsMade(protocol, of, p)
    PROVE  Addr!new_from_bytes(Addr!as_bytes(Addr!Address(protocol, p))) = Addr!Ok(Addr!Address(protocol, p))
<1> DEFINE bytes == Addr!as_bytes(Addr!Address(protocol, p))
<1>1. bytes.len = 1 + p.len /\ bytes.first = Addr!Protocol[protocol] /\ bytes.rest = p
  <2>1. bytes = [len |-> 1 + p.len, first |-> Addr!Protocol[protocol], rest |-> p]
    BY Zenon, AddressIs DEF Addr!as_bytes
  <2> HIDE DEF bytes
  <2> QED
    BY ONLY <2>1
<1> HIDE DEF bytes
<1>2. ~(bytes.len <= 1)
  <2>1. CASE protocol = "Id"
    <3>1. of \in Nat
      BY <2>1, WidthAssumption DEF IsIngredient
    <3>2. p.len = Len(Addr!varint_encode[of])
      BY Zenon, <2>1, PayloadIs DEF IsMade
    <3>3. Addr!varint_encode[of] \in Seq(0 .. 255) /\ Addr!varint_encode[of] # <<>>
      BY Zenon, <3>1, VarintComesBack
    <3>4. p.len \in Nat /\ p.len > 0
      BY ONLY <3>2, <3>3
    <3> QED
      BY ONLY <1>1, <3>4
  <2>2. CASE protocol # "Id"
    <3>1. p.len = Addr!PayloadLen[protocol]
      BY Zenon, <2>2 DEF IsMade
    <3>2. p.len \in {20, 48}
      BY <3>1, <2>2, ProtocolNumbers
    <3> QED
      BY ONLY <1>1, <3>2
  <2> QED
    BY Zenon, <2>1, <2>2
<1>3. Addr!new_from_bytes(bytes) = Addr!new(protocol, p)
  <2>1. Addr!try_from(bytes.first) # {} /\ (CHOOSE q \in Addr!Protocols : q \in Addr!try_from(bytes.first)) = protocol
    BY Zenon, <1>1, ProtocolOf DEF Numbered
  <2> QED
    BY Zenon, <1>1, <1>2, <2>1 DEF Addr!new_from_bytes
<1>4. Addr!new(protocol, p) = Addr!Ok(Addr!Address(protocol, p))
  BY Zenon DEF Addr!new, IsMade
<1> QED
  BY Zenon, <1>3, <1>4 DEF bytes

\* Display, then from_str, on the same network and on the other.
LEMMA TextComesBack ==
    ASSUME Library, NEW protocol \in Addr!Protocols, NEW of, IsIngredient(protocol, of),
           NEW p, IsMade(protocol, of, p), NEW writer \in Networks, NEW reader \in Networks
    PROVE  Addr!from_str(reader, Addr!Display(writer, Addr!Address(protocol, p))) =
               IF writer = reader THEN Addr!Ok(Addr!Address(protocol, p)) ELSE Addr!Err("MismatchNetwork")
<1> DEFINE a == Addr!Address(protocol, p)
           s == Addr!Display(writer, a)
<1>a. a.protocol = protocol /\ a.payload = p
  BY Zenon, AddressIs
<1> DEFINE raw == IF protocol = "Id" THEN Addr!Numeral(0, 0, Addr!as_id(a))
                  ELSE Addr!base32_encode(p, Addr!checksum(Addr!as_bytes(a)))
<1>1. s.prefix = Addr!NETWORK_PREFIX[writer] /\ s.digit = Addr!Protocol[protocol] /\ s.raw = raw
  <2> HIDE DEF a
  <2>1. s = Addr!Text(Addr!NETWORK_PREFIX[writer], Addr!Protocol[protocol], raw)
    BY ONLY Zenon, <1>a DEF Addr!Display, s, raw
  <2> HIDE DEF s, raw
  <2>2. s.prefix = Addr!NETWORK_PREFIX[writer] /\ s.digit = Addr!Protocol[protocol] /\ s.raw = raw
    BY ONLY <2>1 DEF Addr!Text
  <2> QED
    BY ONLY Zenon, <2>2 DEF raw
<1>n. /\ s.prefix \in {"f", "t"} /\ (s.prefix = Addr!NETWORK_PREFIX[reader] <=> writer = reader)
      /\ s.prefix # "wide" /\ s.digit # -1
      /\ Addr!try_from(s.digit) # {} /\ (s.digit = 0 <=> protocol = "Id")
      /\ (CHOOSE q \in Addr!Protocols : q \in Addr!try_from(s.digit)) = protocol
  <2> HIDE DEF s
  <2>1. s.prefix \in {"f", "t"} /\ (s.prefix = Addr!NETWORK_PREFIX[reader] <=> writer = reader)
    BY ONLY ZenonT(40), <1>1, Prefixes, writer \in Networks, reader \in Networks
  <2>2. Numbered(s.digit, protocol)
    BY ONLY Zenon, <1>1, ProtocolOf, protocol \in Addr!Protocols
  <2>3. s.prefix # "wide"
    BY ONLY <2>1
  <2>4. s.digit # -1
    BY ONLY <1>1, ProtocolNumbers, protocol \in Addr!Protocols
  <2> QED
    BY ONLY Zenon, <2>1, <2>2, <2>3, <2>4 DEF Numbered
<1>l. Addr!text_len(s) = (1 + 1) + Addr!raw_len(s.raw)
  <2> HIDE DEF s
  <2> QED
    BY ONLY Zenon, <1>n DEF Addr!text_len
<1> HIDE DEF s
<1>2. CASE protocol = "Id"
  <2>1. of \in Nat /\ of <= U64_MAX /\ Addr!Decimals[of] <= Addr!MAX_U64_LEN
    <3>1. of \in 0 .. U64_MAX /\ Addr!Decimals[of] <= Addr!MAX_U64_LEN
      BY Zenon, <1>2 DEF IsIngredient
    <3> QED
      BY ONLY <3>1, WidthAssumption
  <2>2. p = Addr!Payload(Len(Addr!varint_encode[of]), Addr!varint_encode[of])
    BY Zenon, <1>2 DEF IsMade
  <2>3. Addr!as_id(a) = of
    <3>1. a.payload.content = Addr!varint_encode[of]
      <4>1. p.content = Addr!varint_encode[of]
        BY ONLY Zenon, <2>2, PayloadIs
      <4> HIDE DEF a
      <4> QED
        BY ONLY Zenon, <1>a, <4>1
    <3> QED
      BY Zenon, <2>1, <3>1, VarintComesBack DEF Addr!as_id
  <2>4. s.raw.kind = "digits" /\ s.raw.plus = 0 /\ s.raw.zeros = 0 /\ s.raw.id = of
    <3>1. s.raw = Addr!Numeral(0, 0, of)
      BY ONLY Zenon, <1>1, <1>2, <2>3
    <3> QED
      BY ONLY <3>1 DEF Addr!Numeral
  <2>5. Addr!raw_len(s.raw) = (0 + 0) + Addr!Decimals[of]
    BY ONLY <2>4 DEF Addr!raw_len
  <2>6. Addr!text_len(s) \in 3 .. Addr!MAX_ADDRESS_STRING_LEN /\ ~(Addr!raw_len(s.raw) > Addr!MAX_U64_LEN)
    <3>1. Addr!Decimals[of] \in Nat /\ Addr!Decimals[of] >= 1
      BY Zenon, <2>1, HasDigits
    <3> QED
      BY ONLY <1>l, <2>1, <2>5, <3>1 DEF Addr!MAX_ADDRESS_STRING_LEN, Addr!MAX_U64_LEN
  <2>7. Addr!new_id_addr(of) = Addr!Ok(a)
    BY Zenon, <1>2, <2>2 DEF Addr!new_id_addr, Addr!new
  <2> HIDE DEF a
  <2>8. Addr!id_from_str(s.raw) = Addr!Ok(a)
    <3>1. Addr!parse(s.raw) = Addr!Ok(of)
      BY ONLY Zenon, <2>1, <2>4 DEF Addr!parse
    <3>2. "err" \notin DOMAIN Addr!parse(s.raw) /\ Addr!parse(s.raw).ok = of
      BY ONLY <3>1 DEF Addr!Ok
    <3> QED
      BY ONLY Zenon, <2>6, <2>7, <3>2 DEF Addr!id_from_str
  <2>9. Addr!from_str(reader, s) = IF writer = reader THEN Addr!Ok(a) ELSE Addr!Err("MismatchNetwork")
    BY ONLY Zenon, <1>n, <1>2, <2>6, <2>8 DEF Addr!from_str
  <2> QED
    BY Zenon, <2>9 DEF s, a
<1>3. CASE protocol # "Id"
  <2>1. p.len = Addr!PayloadLen[protocol] /\ p.len \in {20, 48}
    <3>1. p.len = Addr!PayloadLen[protocol]
      BY Zenon, <1>3 DEF IsMade
    <3> QED
      BY <1>3, <3>1, ProtocolNumbers
  <2>2. s.raw.kind = "base32" /\ s.raw.payload = p /\ s.raw.sum = Addr!checksum(Addr!as_bytes(a))
    <3> HIDE DEF a
    <3>1. s.raw = Addr!base32_encode(p, Addr!checksum(Addr!as_bytes(a)))
      BY Zenon, <1>1, <1>3
    <3> QED
      BY ONLY <3>1 DEF Addr!base32_encode, Addr!Base32
  <2>3. Addr!raw_len(s.raw) = Addr!base32_len(p.len + Addr!CHECKSUM_HASH_LEN)
    BY ONLY <2>2 DEF Addr!raw_len
  <2>4. Addr!text_len(s) \in 3 .. Addr!MAX_ADDRESS_STRING_LEN /\ ~(p.len < 0)
    BY ONLY <1>l, <2>1, <2>3 DEF Addr!base32_len, Addr!CHECKSUM_HASH_LEN, Addr!MAX_ADDRESS_STRING_LEN
  <2>5. Addr!new_with_check(protocol, s.raw, Addr!PayloadLen[protocol]) = Addr!Ok(a)
    <3>1. Addr!base32_decode(s.raw) = Addr!Ok(s.raw)
      BY ONLY Zenon, <2>2 DEF Addr!base32_decode
    <3>2. "err" \notin DOMAIN Addr!base32_decode(s.raw) /\ Addr!base32_decode(s.raw).ok = s.raw
      BY ONLY <3>1 DEF Addr!Ok
    <3> QED
      BY ONLY Zenon, <2>1, <2>2, <2>4, <3>2 DEF Addr!new_with_check
  <2> HIDE DEF a
  <2>6. Addr!from_str(reader, s) = IF writer = reader THEN Addr!Ok(a) ELSE Addr!Err("MismatchNetwork")
    BY ONLY Zenon, <1>n, <1>3, <2>4, <2>5 DEF Addr!from_str
  <2> QED
    BY Zenon, <2>6 DEF s, a
<1> QED
  BY Zenon, <1>2, <1>3

\* An address comes back from its bytes and its text, and is refused on the other network.
LEMMA AddressesComeBack ==
    ASSUME Library, NEW protocol \in Addr!Protocols, NEW of, IsIngredient(protocol, of),
           NEW writer \in Networks, NEW reader \in Networks
    PROVE  Addr!AddressComesBack(Addr!Made(protocol, of), writer, reader)
<1> DEFINE made == Addr!Made(protocol, of)
<1>1. CASE "ok" \in DOMAIN made
  <2>1. PICK p : made = Addr!Ok(Addr!Address(protocol, p)) /\ IsMade(protocol, of, p)
    BY Zenon, <1>1, MadeIs
  <2>2. made.ok = Addr!Address(protocol, p)
    BY Zenon, <2>1, OkIs
  <2>3. Addr!new_from_bytes(Addr!as_bytes(made.ok)) = made
    BY Zenon, <2>1, <2>2, BytesComeBack
  <2>4. Addr!from_str(reader, Addr!Display(writer, made.ok)) = IF writer = reader THEN made ELSE Addr!Err("MismatchNetwork")
    <3> DEFINE a == Addr!Address(protocol, p)
    <3>1. Addr!from_str(reader, Addr!Display(writer, a)) = IF writer = reader THEN Addr!Ok(a) ELSE Addr!Err("MismatchNetwork")
      BY Zenon, <2>1, TextComesBack
    <3> HIDE DEF a, made
    <3> QED
      BY Zenon, <2>1, <2>2, <3>1 DEF a
  <2> HIDE DEF made
  <2>5. Addr!AddressComesBack(made, writer, reader)
    BY Zenon, <2>3, <2>4 DEF Addr!AddressComesBack
  <2> QED
    BY Zenon, <2>5 DEF made
<1>2. CASE "ok" \notin DOMAIN made
  BY Zenon, <1>2 DEF Addr!AddressComesBack
<1> QED
  BY Zenon, <1>1, <1>2

\* What is known of a text that was accepted: its network, its protocol, its kind and what was
\* made of it.
Accepted(network, s, p) ==
    /\ p \in Addr!Protocols /\ s.prefix = Addr!NETWORK_PREFIX[network] /\ s.digit = Addr!Protocol[p]
    /\ Addr!from_str(network, s) =
          IF p = "Id" THEN Addr!new_id_addr(s.raw.id) ELSE Addr!Ok(Addr!Address(p, s.raw.payload))
    /\ p = "Id" => s.raw.kind = "digits"
    /\ p # "Id" => /\ s.raw.kind = "base32"
                   /\ s.raw.sum = Addr!checksum(Addr!as_bytes(Addr!Address(p, s.raw.payload)))

\* An ID that was accepted was a number of 64 bits (str::parse).
LEMMA AcceptedIds ==
    ASSUME NEW raw, "ok" \in DOMAIN Addr!id_from_str(raw)
    PROVE  raw.kind = "digits" /\ Addr!id_from_str(raw) = Addr!new_id_addr(raw.id)
<1>1. "err" \notin DOMAIN Addr!parse(raw) /\ Addr!id_from_str(raw) = Addr!new_id_addr(Addr!parse(raw).ok)
  BY ONLY Zenon, ErrIs, "ok" \in DOMAIN Addr!id_from_str(raw) DEF Addr!id_from_str
<1>2. \A x : "err" \in DOMAIN Addr!Err(x)
  BY ONLY TRUE DEF Addr!Err
<1>3. raw.kind = "digits" /\ Addr!parse(raw) = Addr!Ok(raw.id)
  BY ONLY Zenon, <1>1, <1>2 DEF Addr!parse
<1>4. Addr!parse(raw).ok = raw.id
  BY ONLY Zenon, <1>3, OkIs
<1> QED
  BY ONLY Zenon, <1>1, <1>3, <1>4

\* What was accepted with a checksum was base32 and had that checksum (new_with_check).
LEMMA AcceptedSums ==
    ASSUME NEW p, NEW raw, NEW size, "ok" \in DOMAIN Addr!new_with_check(p, raw, size)
    PROVE  /\ raw.kind = "base32" /\ raw.sum = Addr!checksum(Addr!as_bytes(Addr!Address(p, raw.payload)))
           /\ Addr!new_with_check(p, raw, size) = Addr!Ok(Addr!Address(p, raw.payload))
<1> DEFINE decoded == Addr!base32_decode(raw)
           given == Addr!Address(p, decoded.ok.payload)
           checked == Addr!new_with_check(p, raw, size)
<1>1. checked = IF "err" \in DOMAIN decoded THEN decoded
                ELSE IF decoded.ok.payload.len < 0 THEN Addr!Panic("underflow")
                ELSE IF decoded.ok.payload.len # size THEN Addr!Err("InvalidPayload")
                ELSE IF decoded.ok.sum # Addr!checksum(Addr!as_bytes(given)) THEN Addr!Err("InvalidChecksum")
                ELSE Addr!Ok(given)
  BY ONLY Zenon DEF Addr!new_with_check, checked, decoded, given
<1>2. "err" \in DOMAIN decoded => "ok" \notin DOMAIN decoded
  <2>1. \A x : "err" \notin DOMAIN Addr!Ok(x)
    BY ONLY TRUE DEF Addr!Ok
  <2> QED
    BY ONLY Zenon, <2>1, ErrIs DEF Addr!base32_decode, decoded
<1>3. \A x : "err" \in DOMAIN Addr!Err(x)
  BY ONLY TRUE DEF Addr!Err
<1>4. "ok" \in DOMAIN checked
  BY Zenon DEF checked
<1>5. "err" \notin DOMAIN decoded /\ decoded.ok.sum = Addr!checksum(Addr!as_bytes(given)) /\ checked = Addr!Ok(given)
  <2> HIDE DEF checked, decoded, given
  <2> QED
    BY ONLY Zenon, <1>1, <1>2, <1>4, ErrIs, PanicIs
<1>6. raw.kind = "base32" /\ decoded = Addr!Ok(raw)
  BY ONLY Zenon, <1>3, <1>5 DEF Addr!base32_decode, decoded
<1>7. decoded.ok = raw
  BY ONLY Zenon, <1>6, OkIs
<1> QED
  BY ONLY Zenon, <1>5, <1>6, <1>7 DEF checked, given

\* What from_str accepted is a text of its network and of one protocol, with its checksum.
LEMMA AcceptedTexts ==
    ASSUME NEW network, NEW s, "ok" \in DOMAIN Addr!from_str(network, s)
    PROVE  \E p : Accepted(network, s, p)
<1> DEFINE read == Addr!from_str(network, s)
           taken == CHOOSE q \in Addr!Protocols : q \in Addr!try_from(s.digit)
           made == IF s.digit = 0 THEN Addr!id_from_str(s.raw)
                   ELSE Addr!new_with_check(taken, s.raw, Addr!PayloadLen[taken])
<1>1. s.prefix = Addr!NETWORK_PREFIX[network] /\ Addr!try_from(s.digit) # {} /\ read = made
  <2> HIDE DEF taken
  <2> DEFINE far == Addr!text_len(s) \notin 3 .. Addr!MAX_ADDRESS_STRING_LEN
             wide == s.digit = -1
  <2>1. read = IF far THEN Addr!Err("InvalidLength")
               ELSE IF s.prefix = "wide" THEN Addr!Panic("slice")
               ELSE IF s.prefix \notin {"f", "t"} THEN Addr!Err("UnknownNetwork")
               ELSE IF s.prefix # Addr!NETWORK_PREFIX[network] THEN Addr!Err("MismatchNetwork")
               ELSE IF wide THEN Addr!Panic("slice")
               ELSE IF Addr!try_from(s.digit) = {} THEN Addr!Err("UnknownProtocol")
               ELSE made
    BY Zenon DEF Addr!from_str, taken
  <2> HIDE DEF far, wide, read, made
  <2>2. "ok" \in DOMAIN read
    BY Zenon DEF read
  <2> QED
    BY ONLY Zenon, <2>1, <2>2, ErrIs, PanicIs
<1>2. PICK p \in Addr!Protocols : s.digit = Addr!Protocol[p]
  BY Zenon, <1>1 DEF Addr!try_from
<1>3. taken = p /\ (s.digit = 0 <=> p = "Id")
  <2>1. Numbered(s.digit, p)
    BY ONLY Zenon, <1>2, ProtocolOf
  <2> QED
    BY ONLY Zenon, <2>1 DEF Numbered, taken
<1> HIDE DEF taken
<1>o. "ok" \in DOMAIN read
  BY Zenon
<1> HIDE DEF read
<1>4. CASE p = "Id"
  <2>1. read = Addr!id_from_str(s.raw)
    BY ONLY Zenon, <1>1, <1>3, <1>4
  <2>2. s.raw.kind = "digits" /\ read = Addr!new_id_addr(s.raw.id)
    BY ONLY Zenon, <1>o, <2>1, AcceptedIds
  <2> QED
    BY ONLY Zenon, <1>1, <1>2, <1>4, <2>2 DEF Accepted, read
<1>5. CASE p # "Id"
  <2>1. read = Addr!new_with_check(p, s.raw, Addr!PayloadLen[p])
    BY ONLY Zenon, <1>1, <1>3, <1>5
  <2>2. /\ s.raw.kind = "base32" /\ s.raw.sum = Addr!checksum(Addr!as_bytes(Addr!Address(p, s.raw.payload)))
        /\ read = Addr!Ok(Addr!Address(p, s.raw.payload))
    BY ONLY ZenonT(40), <1>o, <2>1, AcceptedSums
  <2> QED
    BY ONLY Zenon, <1>1, <1>2, <1>5, <2>2 DEF Accepted, read
<1> QED
  BY Zenon, <1>4, <1>5

\* A text that from_str accepts is that of the address it gives, but for sign, zeros and case,
\* and is accepted with the number of no other protocol.
LEMMA TextsAreOwn ==
    ASSUME Library, NEW s, IsText(s), NEW network \in Networks
    PROVE  Addr!TextIsOwn(s, network)
<1> DEFINE read == Addr!from_str(network, s)
<1>1. CASE "ok" \notin DOMAIN read
  BY Zenon, <1>1 DEF Addr!TextIsOwn
<1>2. CASE "ok" \in DOMAIN read
  <2>1. PICK p : Accepted(network, s, p)
    BY Zenon, <1>2, AcceptedTexts
  <2>2. p \in Addr!Protocols /\ s.prefix = Addr!NETWORK_PREFIX[network] /\ s.digit = Addr!Protocol[p]
    BY ONLY Zenon, <2>1 DEF Accepted
  <2>3. s.digit = 0 <=> p = "Id"
    <3>1. Numbered(s.digit, p)
      BY ONLY Zenon, <2>2, ProtocolOf
    <3> QED
      BY ONLY Zenon, <3>1 DEF Numbered
  <2>t. s = Addr!Text(s.prefix, s.digit, s.raw)
    BY Zenon DEF IsText
  <2>p. Addr!Plain(s) = Addr!Text(s.prefix, s.digit,
            IF s.digit = 0 THEN Addr!Numeral(0, 0, s.raw.id) ELSE Addr!base32_encode(s.raw.payload, s.raw.sum))
    <3> DEFINE raw == IF s.digit = 0 THEN Addr!Numeral(0, 0, s.raw.id) ELSE Addr!base32_encode(s.raw.payload, s.raw.sum)
    <3>1. Addr!Plain(s) = [s EXCEPT !.raw = raw]
      BY ONLY Zenon DEF Addr!Plain
    <3> HIDE DEF raw
    <3>2. [s EXCEPT !.raw = raw] = Addr!Text(s.prefix, s.digit, raw)
      BY ONLY <2>t DEF Addr!Text
    <3> QED
      BY ONLY Zenon, <3>1, <3>2 DEF raw
  <2>d. ASSUME NEW d \in 1 .. 3 \ {s.digit}, "ok" \in DOMAIN Addr!from_str(network, [s EXCEPT !.digit = d])
        PROVE  s.raw.kind = "base32" /\ s.raw.sum = <<"checksum", d, s.raw.payload>>
    <3> DEFINE t == [s EXCEPT !.digit = d]
    <3>1. t.raw = s.raw /\ t.digit = d
      <4>1. "digit" \in DOMAIN s /\ "raw" \in DOMAIN s
        BY ONLY <2>t DEF Addr!Text
      <4> QED
        BY ONLY <4>1 DEF t
    <3>2. PICK q : Accepted(network, t, q)
      BY ONLY Zenon, <2>d, AcceptedTexts DEF t
    <3> HIDE DEF t
    <3>3. q \in Addr!Protocols /\ d = Addr!Protocol[q]
      BY ONLY Zenon, <3>1, <3>2 DEF Accepted
    <3>4. q # "Id"
      BY ONLY <3>3, ProtocolNumbers, d \in 1 .. 3 \ {s.digit}
    <3>5. s.raw.kind = "base32" /\ s.raw.sum = Addr!checksum(Addr!as_bytes(Addr!Address(q, s.raw.payload)))
      BY ONLY Zenon, <3>1, <3>2, <3>4 DEF Accepted
    <3> QED
      BY ONLY <3>3, <3>5 DEF Addr!checksum, Addr!as_bytes, Addr!Address
  <2>4. CASE p = "Id"
    <3> DEFINE id == s.raw.id
               a == Addr!Address("Id", Addr!Payload(Len(Addr!varint_encode[id]), Addr!varint_encode[id]))
    <3>1. id \in Nat
      <4>1. s.raw.kind = "digits" /\ IsRaw(s.raw)
        BY Zenon, <2>1, <2>4 DEF Accepted, IsText
      <4> QED
        BY ONLY <4>1 DEF IsRaw
    <3>2. read = Addr!Ok(a)
      <4>1. read = Addr!new_id_addr(id)
        BY Zenon, <2>1, <2>4 DEF Accepted
      <4> QED
        BY Zenon, <4>1 DEF Addr!new_id_addr, Addr!new
    <3> HIDE DEF id, read
    <3>3. a.protocol = "Id" /\ a.payload.content = Addr!varint_encode[id]
      BY ONLY TRUE DEF a, Addr!Address, Addr!Payload
    <3> HIDE DEF a
    <3>4. read.ok = a
      BY ONLY Zenon, <3>2, OkIs
    <3>5. Addr!as_id(a) = id
      BY Zenon, <3>1, <3>3, VarintComesBack DEF Addr!as_id
    <3>6. Addr!Display(network, a) = Addr!Text(s.prefix, s.digit, Addr!Numeral(0, 0, s.raw.id))
      BY ONLY Zenon, <2>2, <2>4, <3>3, <3>5 DEF Addr!Display, id
    <3>7. Addr!Plain(s) = Addr!Text(s.prefix, s.digit, Addr!Numeral(0, 0, s.raw.id))
      BY ONLY Zenon, <2>3, <2>4, <2>p
    <3>8. \A d \in 1 .. 3 \ {s.digit} : "ok" \notin DOMAIN Addr!from_str(network, [s EXCEPT !.digit = d])
      <4>1. s.raw.kind # "base32"
        <5>1. s.raw.kind = "digits"
          BY ONLY Zenon, <2>1, <2>4 DEF Accepted
        <5> QED
          BY ONLY <5>1
      <4> QED
        BY ONLY Zenon, <2>d, <4>1
    <3> QED
      BY ONLY Zenon, <3>4, <3>6, <3>7, <3>8 DEF Addr!TextIsOwn, read
  <2>5. CASE p # "Id"
    <3> DEFINE a == Addr!Address(p, s.raw.payload)
    <3>1. read = Addr!Ok(a) /\ s.raw.sum = Addr!checksum(Addr!as_bytes(a))
      BY Zenon, <2>1, <2>5 DEF Accepted
    <3>2. a.protocol = p /\ a.payload = s.raw.payload
      BY Zenon, AddressIs
    <3> HIDE DEF a, read
    <3>3. read.ok = a
      BY ONLY Zenon, <3>1, OkIs
    <3>4. Addr!Display(network, a) = Addr!Plain(s)
      BY ONLY Zenon, <2>2, <2>3, <2>5, <2>p, <3>1, <3>2 DEF Addr!Display
    <3>5. ASSUME NEW d \in 1 .. 3 \ {s.digit}
          PROVE  "ok" \notin DOMAIN Addr!from_str(network, [s EXCEPT !.digit = d])
      <4> SUFFICES ASSUME "ok" \in DOMAIN Addr!from_str(network, [s EXCEPT !.digit = d]) PROVE FALSE
        OBVIOUS
      <4>1. s.raw.sum = <<"checksum", d, s.raw.payload>>
        BY Zenon, <2>d
      <4>2. s.raw.sum = <<"checksum", s.digit, s.raw.payload>>
        BY ONLY <2>2, <3>1, <3>2 DEF Addr!checksum, Addr!as_bytes
      <4>3. d = s.digit
        BY ONLY SMTT(20), <4>1, <4>2
      <4> QED
        BY Zenon, <4>3
    <3> QED
      BY ONLY Zenon, <3>3, <3>4, <3>5 DEF Addr!TextIsOwn, read
  <2> QED
    BY Zenon, <2>4, <2>5
<1> QED
  BY Zenon, <1>1, <1>2

-----------------------------------------------------------------------------
(* Sizes of pieces, and registered proofs.                                 *)

\* A number without its trailing zeros (n >> n.trailing_zeros()).
LEMMA ShiftedIs ==
    ASSUME Library
    PROVE  \A n \in Nat : Sect!shifted[n] = IF n > 0 /\ n % 2 = 0 THEN Sect!shifted[n \div 2] ELSE n
<1> DEFINE m == [n \in Nat |-> n]
           pre == [n \in Nat |-> n \div 2]
           B == {n \in Nat : ~(n > 0 /\ n % 2 = 0)}
           step == [q \in Nat \X Nat |-> q[2]]
<1>1. m \in [Nat -> Nat] /\ \A n \in Nat : m[n] = n
  BY Zenon
<1>2. pre \in [Nat -> Nat] /\ \A n \in Nat : pre[n] = n \div 2
  BY Zenon, Shrinks
<1>3. step \in [Nat \X Nat -> Nat] /\ \A n, v \in Nat : step[<<n, v>>] = v
  OBVIOUS
<1>4. \A n \in Nat : n \notin B => m[pre[n]] < m[n]
  BY Zenon, <1>1, <1>2, Shrinks
<1>5. \A n \in Nat : n \in B <=> ~(n > 0 /\ n % 2 = 0)
  BY Zenon
<1> HIDE DEF m, pre, B, step
<1>6. PICK f \in [Nat -> Nat] : \A n \in Nat : f[n] = Body(f, n, pre, B, m, step)
  <2>1. HasSolution(Nat, Nat, pre, B, m, step)
    BY Zenon, <1>1, <1>2, <1>3, <1>4, Recursion
  <2> QED
    BY Zenon, <2>1 DEF HasSolution
<1>7. \A n \in Nat : f[n] = IF n > 0 /\ n % 2 = 0 THEN f[n \div 2] ELSE n
  <2> TAKE n \in Nat
  <2>1. f[n] = IF n \in B THEN m[n] ELSE step[<<n, f[pre[n]]>>]
    BY Zenon, <1>6 DEF Body
  <2>2. f[n \div 2] \in Nat
    BY Zenon, <1>6, Shrinks
  <2>3. step[<<n, f[n \div 2]>>] = f[n \div 2]
    BY Zenon, <1>3, <2>2
  <2> QED
    BY Zenon, <1>1, <1>2, <1>5, <2>1, <2>3
<1>8. f = [n \in Nat |-> IF n > 0 /\ n % 2 = 0 THEN f[n \div 2] ELSE n]
  BY Zenon, <1>6, <1>7
<1>9. Sect!shifted = [n \in Nat |-> IF n > 0 /\ n % 2 = 0 THEN Sect!shifted[n \div 2] ELSE n]
  BY Zenon, <1>8 DEF Sect!shifted
<1> QED
  BY Zenon, <1>9

\* The ones of a number are its last bit and those of its half.
LEMMA CountOnesIs ==
    ASSUME Library
    PROVE  /\ Sect!count_ones[0] = 0
       /\ \A n \in Nat : n > 0 => Sect!count_ones[n] = (n % 2) + Sect!count_ones[n \div 2]
<1> DEFINE m == [n \in Nat |-> n]
           pre == [n \in Nat |-> n \div 2]
           B == {0}
           base == [n \in Nat |-> 0]
           step == [q \in Nat \X Nat |-> (q[1] % 2) + q[2]]
<1>1. m \in [Nat -> Nat] /\ \A n \in Nat : m[n] = n
  BY Zenon
<1>2. pre \in [Nat -> Nat] /\ \A n \in Nat : pre[n] = n \div 2
  BY Zenon, Shrinks
<1>3. step \in [Nat \X Nat -> Nat] /\ \A n, v \in Nat : step[<<n, v>>] = (n % 2) + v
  OBVIOUS
<1>4. \A n \in Nat : n \notin B => m[pre[n]] < m[n]
  <2> TAKE n \in Nat
  <2>1. n \notin B => n > 0
    OBVIOUS
  <2> HIDE DEF B
  <2> QED
    BY Zenon, <1>1, <1>2, <2>1, Shrinks
<1>5. base \in [Nat -> Nat] /\ \A n \in Nat : base[n] = 0 /\ (n \in B <=> n = 0)
  OBVIOUS
<1> HIDE DEF m, pre, B, step, base
<1>6. PICK f \in [Nat -> Nat] : \A n \in Nat : f[n] = Body(f, n, pre, B, base, step)
  <2>1. HasSolution(Nat, Nat, pre, B, base, step)
    BY Zenon, <1>1, <1>2, <1>3, <1>4, <1>5, Recursion
  <2> QED
    BY Zenon, <2>1 DEF HasSolution
<1>7. \A n \in Nat : f[n] = IF n = 0 THEN 0 ELSE (n % 2) + f[n \div 2]
  <2> TAKE n \in Nat
  <2>1. f[n] = IF n \in B THEN base[n] ELSE step[<<n, f[pre[n]]>>]
    BY Zenon, <1>6 DEF Body
  <2>2. f[n \div 2] \in Nat
    BY Zenon, <1>6, Shrinks
  <2>3. step[<<n, f[n \div 2]>>] = (n % 2) + f[n \div 2]
    BY Zenon, <1>3, <2>2
  <2> QED
    BY Zenon, <1>2, <1>5, <2>1, <2>3
<1>8. f = [n \in Nat |-> IF n = 0 THEN 0 ELSE (n % 2) + f[n \div 2]]
  BY Zenon, <1>6, <1>7
<1>9. Sect!count_ones = [n \in Nat |-> IF n = 0 THEN 0 ELSE (n % 2) + Sect!count_ones[n \div 2]]
  BY Zenon, <1>8 DEF Sect!count_ones
<1>10. \A n \in Nat : n > 0 => n # 0
  OBVIOUS
<1>11. 0 \in Nat
  OBVIOUS
<1> QED
  BY Zenon, <1>9, <1>10, <1>11

\* The ones of a number are counted, and only 0 has none.
LEMMA OnesAreCounted ==
    ASSUME Library, NEW n \in Nat
    PROVE  Sect!count_ones[n] \in Nat /\ (Sect!count_ones[n] = 0 => n = 0)
<1> DEFINE S == {k \in Nat : Sect!count_ones[k] \in Nat /\ (Sect!count_ones[k] = 0 => k = 0)}
<1>1. ASSUME NEW k \in Nat, \A j \in Nat : j < k => j \in S
      PROVE  k \in S
  <2>1. CASE k = 0
    BY <2>1, CountOnesIs
  <2>2. CASE k > 0
    <3> DEFINE c == Sect!count_ones[k \div 2]
    <3>1. Sect!count_ones[k] = (k % 2) + c
      BY <2>2, CountOnesIs
    <3>2. k \div 2 \in Nat /\ k \div 2 < k
      BY Zenon, <2>2, Shrinks
    <3>3. c \in Nat /\ (c = 0 => k \div 2 = 0)
      BY Zenon, <1>1, <3>2
    <3> HIDE DEF c
    <3> QED
      BY <2>2, <3>1, <3>3
  <2> QED
    BY <2>1, <2>2
<1>2. \A k \in Nat : k \in S
  <2> HIDE DEF S
  <2> QED
    BY Zenon, <1>1, StrongInduction
<1> QED
  BY Zenon, <1>2

\* Doubling adds no bit.
LEMMA DoublesCount ==
    ASSUME Library, NEW m \in Nat
    PROVE  Sect!count_ones[2 * m] = Sect!count_ones[m]
<1>1. CASE m = 0
  BY <1>1
<1>2. CASE m > 0
  <2>1. 2 * m \in Nat /\ 2 * m > 0 /\ (2 * m) % 2 = 0 /\ (2 * m) \div 2 = m
    BY <1>2
  <2>2. Sect!count_ones[2 * m] = ((2 * m) % 2) + Sect!count_ones[(2 * m) \div 2]
    BY Zenon, <2>1, CountOnesIs
  <2>3. Sect!count_ones[m] \in Nat
    BY Zenon, OnesAreCounted
  <2> QED
    BY <2>1, <2>2, <2>3
<1> QED
  BY <1>1, <1>2

\* A number of one bit.
IsPower(n) == n \in Nat /\ Sect!count_ones[n] = 1

\* A number of one bit is 1, or twice another.
LEMMA PowersHalve ==
    ASSUME Library, NEW n, IsPower(n)
    PROVE  n >= 1 /\ (n >= 2 => \E m : IsPower(m) /\ n = 2 * m)
<1>1. n \in Nat /\ Sect!count_ones[n] = 1
  BY DEF IsPower
<1>2. n > 0
  BY <1>1, CountOnesIs
<1>3. ASSUME n >= 2 PROVE \E m : IsPower(m) /\ n = 2 * m
  <2> DEFINE m == n \div 2
             c == Sect!count_ones[m]
  <2>1. m \in Nat /\ m # 0
    BY <1>1, <1>3
  <2>2. Sect!count_ones[n] = (n % 2) + c
    BY <1>1, <1>2, CountOnesIs
  <2>3. c \in Nat /\ c # 0
    BY Zenon, <2>1, OnesAreCounted
  <2> HIDE DEF c
  <2>4. c = 1 /\ n % 2 = 0
    BY <1>1, <2>2, <2>3
  <2>5. n = 2 * m
    BY <1>1, <2>4
  <2> QED
    BY <2>1, <2>4, <2>5 DEF IsPower, c
<1> QED
  BY <1>1, <1>2, <1>3

\* Twice a number of one bit has one bit.
LEMMA PowersDouble ==
    ASSUME Library, NEW m, IsPower(m)
    PROVE  IsPower(2 * m)
<1>1. m \in Nat /\ Sect!count_ones[m] = 1
  BY DEF IsPower
<1> QED
  BY <1>1, DoublesCount DEF IsPower

\* So has 128 times one.
LEMMA PowersTimes128 ==
    ASSUME Library, NEW m, IsPower(m)
    PROVE  IsPower(128 * m)
<1>1. m \in Nat
  BY DEF IsPower
<1>2. IsPower(2 * (2 * (2 * (2 * (2 * (2 * (2 * m)))))))
  BY PowersDouble
<1>3. 2 * (2 * (2 * (2 * (2 * (2 * (2 * m)))))) = 128 * m
  BY <1>1
<1> QED
  BY <1>2, <1>3

\* Such a number from 128 on is 128 times another.
LEMMA PowersBy128 ==
    ASSUME Library, NEW n, IsPower(n), n >= 128
    PROVE  \E m : IsPower(m) /\ n = 128 * m
<1>0. n \in Nat
  BY DEF IsPower
<1>1. \A k : IsPower(k) => k \in Nat
  BY DEF IsPower
<1>2. PICK a : IsPower(a) /\ n = 2 * a
  BY <1>0, PowersHalve
<1>3. PICK b : IsPower(b) /\ a = 2 * b
  BY <1>1, <1>2, PowersHalve
<1>4. PICK c : IsPower(c) /\ b = 2 * c
  BY <1>1, <1>2, <1>3, PowersHalve
<1>5. PICK d : IsPower(d) /\ c = 2 * d
  BY <1>1, <1>2, <1>3, <1>4, PowersHalve
<1>6. PICK e : IsPower(e) /\ d = 2 * e
  BY <1>1, <1>2, <1>3, <1>4, <1>5, PowersHalve
<1>7. PICK f : IsPower(f) /\ e = 2 * f
  BY <1>1, <1>2, <1>3, <1>4, <1>5, <1>6, PowersHalve
<1>8. PICK g : IsPower(g) /\ f = 2 * g
  BY <1>1, <1>2, <1>3, <1>4, <1>5, <1>6, <1>7, PowersHalve
<1>9. g \in Nat
  BY <1>1, <1>8
<1>10. n = 128 * g
  BY ONLY <1>2, <1>3, <1>4, <1>5, <1>6, <1>7, <1>8, <1>9
<1> QED
  BY <1>8, <1>10

\* 127 times a number of one bit.
PowerPieces(n) == \E m : IsPower(m) /\ n = 127 * m

\* Shifting out the zeros leaves 127 of those numbers, and of no others.
LEMMA ShiftedTo127 ==
    ASSUME Library, NEW n \in Nat
    PROVE  Sect!shifted[n] = Sect!MIN_UNPADDED_PIECE_SIZE <=> PowerPieces(n)
<1> DEFINE least == Sect!MIN_UNPADDED_PIECE_SIZE
           S == {k \in Nat : Sect!shifted[k] = least <=> PowerPieces(k)}
<1>0. least = 127
  BY DEF Sect!MIN_UNPADDED_PIECE_SIZE
<1> HIDE DEF least
<1>1. ASSUME NEW k \in Nat, \A j \in Nat : j < k => j \in S
      PROVE  k \in S
  <2>0. Sect!shifted[k] = IF k > 0 /\ k % 2 = 0 THEN Sect!shifted[k \div 2] ELSE k
    BY ShiftedIs
  <2>1. CASE k > 0 /\ k % 2 = 0
    <3>1. k \div 2 \in Nat /\ k \div 2 < k /\ k = 2 * (k \div 2)
      BY <2>1
    <3>2. Sect!shifted[k \div 2] = least <=> PowerPieces(k \div 2)
      BY ONLY Zenon, <1>1, <3>1 DEF S
    <3>3. ASSUME PowerPieces(k \div 2) PROVE PowerPieces(k)
      <4>1. PICK m : IsPower(m) /\ k \div 2 = 127 * m
        BY Zenon, <3>3 DEF PowerPieces
      <4>2. m \in Nat /\ IsPower(2 * m)
        <5>1. IsPower(2 * m)
          BY Zenon, <4>1, PowersDouble
        <5> QED
          BY Zenon, <4>1, <5>1 DEF IsPower
      <4>3. k = 127 * (2 * m)
        BY ONLY <3>1, <4>1, <4>2
      <4> QED
        BY Zenon, <4>2, <4>3 DEF PowerPieces
    <3>4. ASSUME PowerPieces(k) PROVE PowerPieces(k \div 2)
      <4>1. PICK m : IsPower(m) /\ k = 127 * m
        BY Zenon, <3>4 DEF PowerPieces
      <4>2. m \in Nat
        BY <4>1 DEF IsPower
      <4>3. m >= 2
        <5>1. m # 1
          BY ONLY <2>1, <4>1
        <5> QED
          BY <4>1, <4>2, <5>1, PowersHalve
      <4>4. PICK h : IsPower(h) /\ m = 2 * h
        BY <4>1, <4>3, PowersHalve
      <4>5. h \in Nat
        BY <4>4 DEF IsPower
      <4>6. k \div 2 = 127 * h
        BY ONLY <4>1, <4>4, <4>5
      <4> QED
        BY Zenon, <4>4, <4>6 DEF PowerPieces
    <3> QED
      BY ONLY Zenon, <2>0, <2>1, <3>2, <3>3, <3>4, k \in Nat DEF S
  <2>2. CASE ~(k > 0 /\ k % 2 = 0)
    <3>1. Sect!shifted[k] = k
      BY <2>0, <2>2
    <3>2. ASSUME k = 127 PROVE PowerPieces(k)
      <4>1. IsPower(1)
        <5>1. Sect!count_ones[1] = (1 % 2) + Sect!count_ones[1 \div 2]
          BY CountOnesIs
        <5> QED
          BY <5>1, CountOnesIs DEF IsPower
      <4> QED
        BY <3>2, <4>1 DEF PowerPieces
    <3>3. ASSUME PowerPieces(k) PROVE k = 127
      <4>1. PICK m : IsPower(m) /\ k = 127 * m
        BY Zenon, <3>3 DEF PowerPieces
      <4>2. m \in Nat /\ m >= 1
        BY <4>1, PowersHalve DEF IsPower
      <4>3. CASE m = 1
        BY <4>1, <4>3
      <4>4. CASE m >= 2
        <5>1. PICK h : IsPower(h) /\ m = 2 * h
          BY <4>1, <4>4, PowersHalve
        <5>2. h \in Nat
          BY <5>1 DEF IsPower
        <5> QED
          BY ONLY <2>2, <4>1, <4>4, <5>1, <5>2
      <4> QED
        BY <4>2, <4>3, <4>4
    <3>4. k = least <=> PowerPieces(k)
      BY <1>0, <3>2, <3>3
    <3> QED
      BY Zenon, <3>1, <3>4
  <2> QED
    BY Zenon, <2>1, <2>2
<1>2. \A k \in Nat : k \in S
  <2> HIDE DEF S
  <2> QED
    BY Zenon, <1>1, StrongInduction
<1> QED
  BY Zenon, <1>2 DEF least

\* A valid size of an unpadded piece becomes a valid one of a padded piece and the other way
\* round, and comes back (UnpaddedPieceSize, PaddedPieceSize).
LEMMA PaddingsAgree ==
    ASSUME Library, NEW n \in 0 .. U64_MAX
    PROVE  Sect!PaddingAgrees(n)
<1>0. n \in Nat /\ n <= U64_MAX /\ U64_MAX \in Nat
  BY WidthAssumption
<1>1. ASSUME NEW m \in Nat
      PROVE  /\ Sect!unpadded(128 * m) = 127 * m
             /\ 128 * m <= U64_MAX => Sect!padded(127 * m) = {Sect!Ok(128 * m)}
  <2>1. Sect!unpadded(128 * m) = 127 * m
    BY DEF Sect!unpadded, Sect!MIN_PADDED_PIECE_SIZE
  <2>2. 127 * m + (127 * m) \div 127 = 128 * m
    OBVIOUS
  <2> QED
    BY ONLY Zenon, <2>1, <2>2 DEF Sect!padded, Sect!add, Sect!MIN_UNPADDED_PIECE_SIZE
<1>p. \A m : IsPower(m) => m \in Nat /\ m >= 1
  BY PowersHalve DEF IsPower
<1>2. ASSUME NEW m, IsPower(m) PROVE Sect!validate_padded(128 * m) /\ Sect!validate_unpadded(127 * m)
  <2>1. m \in Nat /\ m >= 1
    BY <1>p, <1>2
  <2>2. 128 * m >= 128 /\ 127 * m >= 127 /\ 127 * m \in Nat
    BY ONLY <2>1
  <2>3. Sect!count_ones[128 * m] = 1
    <3>1. IsPower(128 * m)
      BY <1>2, PowersTimes128
    <3> QED
      BY Zenon, <3>1 DEF IsPower
  <2>4. Sect!shifted[127 * m] = Sect!MIN_UNPADDED_PIECE_SIZE
    <3>1. PowerPieces(127 * m)
      BY Zenon, <1>2 DEF PowerPieces
    <3> QED
      BY <2>2, <3>1, ShiftedTo127
  <2> QED
    BY <2>2, <2>3, <2>4 DEF Sect!validate_padded, Sect!validate_unpadded, Sect!MIN_UNPADDED_PIECE_SIZE, Sect!MIN_PADDED_PIECE_SIZE
<1>3. ASSUME Sect!validate_unpadded(n), 2 * n <= U64_MAX, NEW r \in Sect!padded(n)
      PROVE  "ok" \in DOMAIN r /\ Sect!validate_padded(r.ok) /\ Sect!unpadded(r.ok) = n
  <2>1. PICK m : IsPower(m) /\ n = 127 * m
    BY Zenon, <1>0, <1>3, ShiftedTo127 DEF Sect!validate_unpadded, PowerPieces
  <2>2. m \in Nat /\ 128 * m <= U64_MAX
    <3>1. m \in Nat
      BY Zenon, <1>p, <2>1
    <3> QED
      BY ONLY <1>0, <1>3, <2>1, <3>1
  <2>3. r = Sect!Ok(128 * m)
    <3>1. Sect!padded(127 * m) = {Sect!Ok(128 * m)}
      BY ONLY <1>1, <2>2
    <3> QED
      BY ONLY Zenon, <1>3, <2>1, <3>1
  <2>4. "ok" \in DOMAIN r /\ r.ok = 128 * m
    BY ONLY <2>3 DEF Sect!Ok
  <2>5. Sect!validate_padded(128 * m)
    BY Zenon, <1>2, <2>1
  <2>6. Sect!unpadded(128 * m) = 127 * m
    BY Zenon, <1>1, <2>2
  <2> QED
    BY ONLY Zenon, <2>1, <2>4, <2>5, <2>6
<1>4. ASSUME Sect!validate_padded(n)
      PROVE  Sect!validate_unpadded(Sect!unpadded(n)) /\ Sect!padded(Sect!unpadded(n)) = {Sect!Ok(n)}
  <2>0. IsPower(n) /\ n >= 128
    BY <1>0, <1>4 DEF IsPower, Sect!validate_padded, Sect!MIN_PADDED_PIECE_SIZE
  <2>1. PICK m : IsPower(m) /\ n = 128 * m
    BY Zenon, <2>0, PowersBy128
  <2>2. m \in Nat
    BY Zenon, <1>p, <2>1
  <2>3. Sect!validate_unpadded(127 * m)
    BY Zenon, <1>2, <2>1
  <2>4. 128 * m <= U64_MAX
    BY ONLY <1>0, <2>1
  <2>5. Sect!unpadded(128 * m) = 127 * m
    BY ONLY Zenon, <1>1, <2>2
  <2>6. 128 * m <= U64_MAX => Sect!padded(127 * m) = {Sect!Ok(128 * m)}
    BY ONLY SMTT(20), <1>1, <2>2
  <2> QED
    BY ONLY Zenon, <2>1, <2>3, <2>4, <2>5, <2>6
<1> QED
  BY Zenon, <1>3, <1>4 DEF Sect!PaddingAgrees

\* The proof is one of the three of that size.
OfSize(proof, size) == \E i \in 1 .. 3 : Sect!Family(size)[i] = proof

\* A registered proof is one of the three of some sector size.
LEMMA SizesOfProofs ==
    ASSUME NEW p \in Sect!RegisteredProofs
    PROVE  \E size \in Sect!Sizes : OfSize(p, size)
  BY DEF Sect!RegisteredProofs, Sect!Number, Sect!Sizes, Sect!Family, OfSize

\* The proofs of one sector size lead to each other and to that size (RegisteredProof).
LEMMA ProofsAreOfOneSize ==
    ASSUME NEW p \in Sect!RegisteredProofs, NEW q \in Sect!RegisteredProofs
    PROVE  Sect!ProofsOfOneSize(p, q)
<1>1. \A r \in Sect!RegisteredProofs : Sect!SizeOf(r) \in Sect!Sizes /\ OfSize(r, Sect!SizeOf(r))
  BY Zenon, SizesOfProofs DEF Sect!SizeOf, OfSize
<1> DEFINE a == Sect!SizeOf(p)
           b == Sect!SizeOf(q)
<1>2. a \in Sect!Sizes /\ b \in Sect!Sizes /\ OfSize(p, a)
  BY Zenon, <1>1
<1> HIDE DEF a, b
<1>3. \A s, t \in Sect!Sizes : Sect!Family(s)[1] = Sect!Family(t)[1] <=> s = t
  BY DEF Sect!Sizes, Sect!Family
<1>4. \A s, t \in Sect!Sizes : Sect!KiBs[Sect!Family(s)[1]] = Sect!KiBs[Sect!Family(t)[1]] <=> s = t
  BY DEF Sect!Sizes, Sect!Family, Sect!KiBs
<1>5. \A x \in DOMAIN Sect!KiBs : \E s \in Sect!Sizes : x = Sect!Family(s)[1]
  BY DEF Sect!Sizes, Sect!Family, Sect!KiBs
<1>6. \A s \in Sect!Sizes : Sect!Family(s)[1] \in DOMAIN Sect!KiBs
  BY DEF Sect!Sizes, Sect!Family, Sect!KiBs
<1>7. Sect!registered_seal_proof(p) = Sect!registered_seal_proof(q) <=> Sect!sector_size(p) = Sect!sector_size(q)
  BY Zenon, <1>2, <1>3, <1>4 DEF Sect!registered_seal_proof, Sect!sector_size, a, b
<1>8. Sect!from_sector_size(Sect!sector_size(p)) = {Sect!registered_seal_proof(p)}
  <2>1. \A x \in DOMAIN Sect!KiBs : Sect!KiBs[x] = Sect!KiBs[Sect!Family(a)[1]] <=> x = Sect!Family(a)[1]
    <3> TAKE x \in DOMAIN Sect!KiBs
    <3>1. PICK s \in Sect!Sizes : x = Sect!Family(s)[1]
      BY Zenon, <1>5
    <3>2. /\ Sect!Family(s)[1] = Sect!Family(a)[1] <=> s = a
          /\ Sect!KiBs[Sect!Family(s)[1]] = Sect!KiBs[Sect!Family(a)[1]] <=> s = a
      BY Zenon, <1>2, <1>3, <1>4
    <3> QED
      BY ONLY Zenon, <3>1, <3>2
  <2>2. {x \in DOMAIN Sect!KiBs : Sect!KiBs[x] = Sect!KiBs[Sect!Family(a)[1]]} = {Sect!Family(a)[1]}
    BY Zenon, <1>2, <1>6, <2>1
  <2> QED
    BY Zenon, <2>2 DEF Sect!from_sector_size, Sect!sector_size, Sect!registered_seal_proof, a
<1>9. p \in {Sect!registered_seal_proof(p), Sect!registered_winning_post_proof(p), Sect!registered_window_post_proof(p)}
  <2>1. p \in {Sect!Family(a)[1], Sect!Family(a)[2], Sect!Family(a)[3]}
    BY <1>2 DEF OfSize
  <2> QED
    BY Zenon, <2>1 DEF Sect!registered_seal_proof, Sect!registered_winning_post_proof, Sect!registered_window_post_proof, a
<1>10. Sect!try_from(Sect!Number[p]) = {p}
  BY DEF Sect!try_from, Sect!Number, Sect!RegisteredProofs
<1> QED
  BY Zenon, <1>7, <1>8, <1>9, <1>10 DEF Sect!ProofsOfOneSize

-----------------------------------------------------------------------------
(* Every question has that answer.                                         *)

\* What was asked is a question on the topic.
Answerable == probe # <<>> => probe \in Questions(subject)

\* Every behaviour asks only such questions.
LEMMA QuestionsOnTopic == Inquiring => []Answerable
<1>1. probe = <<>> => Answerable
  BY Zenon DEF Answerable
<1>2. Answerable /\ [Ask]_<<subject, probe>> => Answerable'
  BY Zenon DEF Ask, Answerable
<1> QED
  BY <1>1, <1>2, PTL DEF Inquiring

\* Questions on messages have that answer.
LEMMA MessagesAnswered ==
    ASSUME Library, Answerable
    PROVE  MessagesPaid
<1> SUFFICES ASSUME probe \in Questions("messages")
             PROVE  Ch!IncludedIsPaid(probe[1], probe[2], probe[3]) /\ Ch!PricesFromTheirEpoch(probe[3])
                    /\ Ch!RefundIsCovered(probe[2])
  BY Zenon DEF Answerable, MessagesPaid, Asked
<1>1. probe \in Message \X Nat \X Nat
  BY Zenon, QuestionsAssumption
<1>2. probe[1] \in Message /\ probe[2] \in Nat /\ probe[3] \in Nat
  BY ONLY <1>1
<1> QED
  BY Zenon, <1>2, Included, FromTheirEpoch, Refunded

\* So have those on tipsets.
LEMMA TipsetsAnswered ==
    ASSUME Library, Answerable
    PROVE  TipsetsAgree
<1> SUFFICES ASSUME probe \in Questions("tipsets")
             PROVE  Ch!OrderDoesNotMatter(probe[1], probe[2]) /\ Ch!TipsetAgrees(probe[1])
  BY Zenon DEF Answerable, TipsetsAgree, Asked
<1>1. probe \in Seq(Block) \X Seq(Block) /\ IsHashed(probe[1]) /\ probe[2] \in Orders(probe[1])
  BY Zenon, QuestionsAssumption
<1>2. probe[1] \in Seq(Block) /\ probe[2] \in Seq(Block)
  BY ONLY Zenon, <1>1
<1> QED
  BY Zenon, <1>1, <1>2, OrdersMakeOneTipset, TipsetOfItsBlocks

\* And those on addresses, pieces and proofs.
LEMMA ValuesAnswered ==
    ASSUME Library, Answerable
    PROVE  ValuesComeBack
<1>1. ASSUME probe \in Questions("addresses")
      PROVE  Addr!AddressComesBack(Addr!Made(probe[1], probe[2]), probe[3], probe[4])
  <2>1. /\ probe[1] \in Addr!Protocols /\ IsIngredient(probe[1], probe[2])
        /\ probe[3] \in Networks /\ probe[4] \in Networks
    BY Zenon, <1>1, QuestionsAssumption
  <2> QED
    BY Zenon, <2>1, AddressesComeBack
<1>2. ASSUME probe \in Questions("texts")
      PROVE  Addr!TextIsOwn(probe[1], probe[2])
  <2>1. IsText(probe[1]) /\ probe[2] \in Networks
    BY Zenon, <1>2, QuestionsAssumption
  <2> QED
    BY Zenon, <2>1, TextsAreOwn
<1>3. ASSUME probe \in Questions("pieces")
      PROVE  Sect!PaddingAgrees(probe[1])
  <2>1. probe[1] \in 0 .. U64_MAX
    BY Zenon, <1>3, QuestionsAssumption
  <2> QED
    BY Zenon, <2>1, PaddingsAgree
<1>4. ASSUME probe \in Questions("proofs")
      PROVE  Sect!ProofsOfOneSize(probe[1], probe[2])
  <2>1. probe \in Sect!RegisteredProofs \X Sect!RegisteredProofs
    BY Zenon, <1>4, QuestionsAssumption
  <2>2. probe[1] \in Sect!RegisteredProofs /\ probe[2] \in Sect!RegisteredProofs
    BY ONLY Zenon, <2>1
  <2> QED
    BY Zenon, <2>2, ProofsAreOfOneSize
<1> QED
  BY Zenon, <1>1, <1>2, <1>3, <1>4 DEF Answerable, ValuesComeBack, Asked

-----------------------------------------------------------------------------
(* What was taken from the library, and the theorems.                      *)

LOCAL INSTANCE WellFoundedInduction
LOCAL INSTANCE FiniteSetTheorems

\* Chain's finite sets and their cardinalities are the library's.
LEMMA SameSets == \A S : (Ch!IsFiniteSet(S) <=> IsFiniteSet(S)) /\ Ch!Cardinality(S) = Cardinality(S)
  BY DEF Ch!IsFiniteSet, IsFiniteSet, Ch!Cardinality, Cardinality

\* The library proves it.
LEMMA LibraryFacts == Library
<1>1. LeastExists
  <2> SUFFICES ASSUME NEW S \in SUBSET Nat, S # {} PROVE \E m \in S : \A k \in S : m <= k
    BY DEF LeastExists
  <2> DEFINE R == OpToRel(<, Nat)
  <2>1. IsWellFoundedOn(R, Nat)
    BY Zenon, NatLessThanWellFounded
  <2>2. \A x, y \in Nat : x < y => <<x, y>> \in R
    BY DEF OpToRel
  <2> HIDE DEF R
  <2>3. PICK x \in S : \A y \in S : ~ (<<y, x>> \in R)
    BY Zenon, <2>1, WFMin
  <2>4. \A y \in S : ~ (y < x)
    BY Zenon, <2>2, <2>3
  <2> QED
    BY <2>4
<1>2. IntervalsCount
  <2> SUFFICES ASSUME NEW n \in Nat PROVE Ch!IsFiniteSet(1 .. n) /\ Ch!Cardinality(1 .. n) = n
    BY Zenon DEF IntervalsCount
  <2>1. IsFiniteSet(1 .. n) /\ Cardinality(1 .. n) = IF 1 > n THEN 0 ELSE n - 1 + 1
    BY FS_Interval
  <2>2. Cardinality(1 .. n) = n
    BY <2>1
  <2> QED
    BY Zenon, <2>1, <2>2, SameSets
<1>3. SetsCount /\ PartsCount
  BY Zenon, SameSets, FS_CardinalityType, FS_Subset DEF SetsCount, PartsCount
<1>4. OneToOneIsOnto
  <2> SUFFICES ASSUME NEW S, IsFiniteSet(S), NEW f \in [S -> S], \A i, j \in S : f[i] = f[j] => i = j
               PROVE  \A y \in S : \E x \in S : f[x] = y
    BY SameSets DEF OneToOneIsOnto
  <2>1. f \in Injection(S, S)
    BY DEF Injection, IsInjective
  <2>2. f \in Surjection(S, S)
    BY Zenon, <2>1, FS_Injection
  <2> QED
    BY Zenon, <2>2 DEF Surjection
<1>5. CorrespondingCount
  <2> SUFFICES ASSUME NEW S, NEW T, IsFiniteSet(S), NEW f \in [S -> T], \A i, j \in S : f[i] = f[j] => i = j,
                      \A y \in T : \E x \in S : f[x] = y
               PROVE  Cardinality(T) = Cardinality(S)
    BY SameSets DEF CorrespondingCount
  <2>1. f \in Injection(S, T)
    BY DEF Injection, IsInjective
  <2>2. f \in Surjection(S, T)
    BY DEF Surjection
  <2>3. ExistsBijection(S, T)
    BY Zenon, <2>1, <2>2 DEF Bijection, ExistsBijection
  <2> QED
    BY ZenonT(40), <2>3, FS_Bijection
<1> QED
  BY Zenon, <1>1, <1>2, <1>3, <1>4, <1>5 DEF Library

\* Messages that validate_for_block_inclusion accepts pay for themselves at the prices of
\* their epoch, whatever the message, its size and the epoch.
THEOREM MessagesArePaid == Inquiring => []MessagesPaid
<1>1. Answerable => MessagesPaid
  BY Zenon, LibraryFacts, MessagesAnswered
<1> QED
  BY <1>1, QuestionsOnTopic, PTL

\* Tipset::new gives one tipset, or one refusal, for all orders of any blocks, and a tipset
\* that agrees with them.
THEOREM TipsetsDoAgree == Inquiring => []TipsetsAgree
<1>1. Answerable => TipsetsAgree
  BY Zenon, LibraryFacts, TipsetsAnswered
<1> QED
  BY <1>1, QuestionsOnTopic, PTL

\* Addresses come back from bytes and text and accepted texts are their own, for every ID,
\* hash and key; piece sizes come back from padding, for every size; registered proofs
\* and their sector sizes lead to each other.
THEOREM ValuesDoComeBack == Inquiring => []ValuesComeBack
<1>1. Answerable => ValuesComeBack
  BY Zenon, LibraryFacts, ValuesAnswered
<1> QED
  BY <1>1, QuestionsOnTopic, PTL
==============================================================================
