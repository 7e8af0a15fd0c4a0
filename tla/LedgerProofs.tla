---------------------------- MODULE LedgerProofs ----------------------------
(***************************************************************************)
(* The ledger: what the replay engines make of it, for every ledger (the   *)
(* order of replay exists and is unique, a replay is a fold from the left, *)
(* and one more transaction is an insertion into the replayed sequence);   *)
(* the transaction handlers; and rebuilding a portfolio and repairing its  *)
(* ledger beside the running handlers. For every set of symbols, clients,  *)
(* quantities, amounts and days.                                           *)
(***************************************************************************)
EXTENDS Rebuild, SetLemmas, SequenceTheorems

-----------------------------------------------------------------------------
(* The order of replay.                                                    *)

\* The position of i in the replay of ids.
At(book, ids, k, i) ==
  i \in ids /\ Cardinality(Preceding(book, ids, i)) = k - 1

LEMMA PrecedingFinite ==
  ASSUME NEW book, NEW ids, IsFiniteSet(ids), NEW i
  PROVE  /\ IsFiniteSet(Preceding(book, ids, i))
         /\ Cardinality(Preceding(book, ids, i)) \in Nat
         /\ Preceding(book, ids, i) \subseteq ids
<1>1. Preceding(book, ids, i) \subseteq ids
  BY DEF Preceding
<1>. QED BY <1>1, FS_Subset, FS_CardinalityType

LEMMA IdsOfLedger ==
  ASSUME NEW book \in Seq(Transaction), NEW ids \in SUBSET DOMAIN book
  PROVE  /\ IsFiniteSet(ids)
         /\ Cardinality(ids) \in Nat
         /\ \A i \in ids : i \in Nat /\ book[i] \in Transaction /\ book[i].date \in Nat
<1>1. DOMAIN book = 1..Len(book) /\ Len(book) \in Nat
      /\ \A i \in 1..Len(book) : book[i] \in Transaction
  BY LenProperties
<1>2. IsFiniteSet(ids)
  <2>1. IsFiniteSet(1..Len(book)) /\ ids \in SUBSET (1..Len(book))
    BY <1>1, FS_Interval
  <2>. QED BY <2>1, FS_Subset
<1>3. \A t \in Transaction : t.date \in Nat
  BY DEF Transaction
<1>. QED BY <1>1, <1>2, <1>3, FS_CardinalityType

\* A transaction that is replayed earlier has a smaller position.
LEMMA EarlierIsBefore ==
  ASSUME NEW book \in Seq(Transaction), NEW ids \in SUBSET DOMAIN book,
         NEW i \in ids, NEW j \in ids, Earlier(book, i, j)
  PROVE  Cardinality(Preceding(book, ids, i)) < Cardinality(Preceding(book, ids, j))
<1>. DEFINE P == Preceding(book, ids, i)
            Q == Preceding(book, ids, j)
<1>1. /\ IsFiniteSet(ids)
      /\ \A k \in ids : k \in Nat /\ book[k].date \in Nat
  BY IdsOfLedger
<1>2. i \notin P /\ P \union {i} \subseteq Q
  BY <1>1 DEF Preceding, Earlier
<1>3. IsFiniteSet(P) /\ IsFiniteSet(Q) /\ Cardinality(P) \in Nat /\ Cardinality(Q) \in Nat
  BY <1>1, PrecedingFinite
<1>4. Cardinality(P \union {i}) = Cardinality(P) + 1
  <2>. HIDE DEF P, Q
  <2>. QED BY <1>2, <1>3, FS_AddElement
<1>5. Cardinality(P \union {i}) <= Cardinality(Q)
  <2>. HIDE DEF P, Q
  <2>. QED BY <1>2, <1>3, FS_Subset
<1>. HIDE DEF P, Q
<1>6. Cardinality(P) < Cardinality(Q)
  BY <1>3, <1>4, <1>5
<1>. QED BY <1>6 DEF P, Q

\* Every position has exactly one transaction.
LEMMA PositionUnique ==
  ASSUME NEW book \in Seq(Transaction), NEW ids \in SUBSET DOMAIN book, NEW k,
         NEW i, NEW j, At(book, ids, k, i), At(book, ids, k, j)
  PROVE  i = j
<1>1. i \in ids /\ j \in ids
  BY DEF At
<1>2. i \in Nat /\ j \in Nat /\ book[i].date \in Nat /\ book[j].date \in Nat
  BY <1>1, IdsOfLedger
<1>3. i # j => Earlier(book, i, j) \/ Earlier(book, j, i)
  BY <1>2 DEF Earlier
<1>4. Cardinality(Preceding(book, ids, i)) = Cardinality(Preceding(book, ids, j))
  BY DEF At
<1>5. Cardinality(Preceding(book, ids, i)) \in Nat
  BY IdsOfLedger, PrecedingFinite
<1>6. ~ Earlier(book, i, j)
  <2>. SUFFICES ASSUME Earlier(book, i, j) PROVE FALSE
    OBVIOUS
  <2>. QED BY <1>1, <1>4, <1>5, EarlierIsBefore
<1>7. ~ Earlier(book, j, i)
  <2>. SUFFICES ASSUME Earlier(book, j, i) PROVE FALSE
    OBVIOUS
  <2>1. Cardinality(Preceding(book, ids, j)) < Cardinality(Preceding(book, ids, i))
    BY <1>1, EarlierIsBefore
  <2>. QED BY <2>1, <1>4, <1>5
<1>. QED BY <1>3, <1>6, <1>7

LEMMA PositionTaken ==
  ASSUME NEW book \in Seq(Transaction), NEW ids \in SUBSET DOMAIN book,
         NEW k \in 1..Cardinality(ids)
  PROVE  \E i : At(book, ids, k, i)
<1>. DEFINE N == Cardinality(ids)
            place == [i \in ids |-> Cardinality(Preceding(book, ids, i)) + 1]
<1>1. IsFiniteSet(ids) /\ N \in Nat
  BY IdsOfLedger
<1>2. ASSUME NEW i \in ids
      PROVE  place[i] \in 1..N
  <2>. DEFINE P == Preceding(book, ids, i)
  <2>1. IsFiniteSet(P) /\ Cardinality(P) \in Nat /\ P \subseteq ids
    BY <1>1, PrecedingFinite
  <2>2. i \notin P
    <3>1. i \in Nat /\ book[i].date \in Nat
      BY IdsOfLedger
    <3>. QED BY <3>1 DEF Preceding, Earlier
  <2>3. place[i] = Cardinality(P) + 1
    OBVIOUS
  <2>. HIDE DEF P, place
  <2>4. Cardinality(P \union {i}) = Cardinality(P) + 1
    BY <2>1, <2>2, FS_AddElement
  <2>5. Cardinality(P \union {i}) <= N
    <3>1. P \union {i} \subseteq ids
      BY <2>1
    <3>. QED BY <3>1, <1>1, FS_Subset
  <2>. QED BY <1>1, <2>1, <2>3, <2>4, <2>5
<1>3. \A i, j \in ids : place[i] = place[j] => i = j
  <2>. TAKE i, j \in ids
  <2>. HAVE place[i] = place[j]
  <2>1. /\ Cardinality(Preceding(book, ids, i)) \in Nat
        /\ Cardinality(Preceding(book, ids, j)) \in Nat
    BY <1>1, PrecedingFinite
  <2>2. Cardinality(Preceding(book, ids, i)) = Cardinality(Preceding(book, ids, j))
    BY <2>1
  <2>3. /\ At(book, ids, Cardinality(Preceding(book, ids, i)) + 1, i)
        /\ At(book, ids, Cardinality(Preceding(book, ids, i)) + 1, j)
    BY <2>1, <2>2 DEF At
  <2>. HIDE DEF place
  <2>. QED BY <2>3, PositionUnique
<1>4. place \in Injection(ids, 1..N)
  <2>1. place \in [ids -> 1..N]
    BY <1>2
  <2>. HIDE DEF place
  <2>. QED BY <2>1, <1>3 DEF Injection, IsInjective
<1>5. IsFiniteSet(1..N) /\ Cardinality(1..N) = N
  BY <1>1, FS_Interval
<1>6. place \in Surjection(ids, 1..N)
  <2>. HIDE DEF place
  <2>. QED BY <1>4, <1>5, FS_Injection
<1>7. PICK i \in ids : place[i] = k
  BY <1>6 DEF Surjection
<1>8. Cardinality(Preceding(book, ids, i)) \in Nat
  BY <1>1, PrecedingFinite
<1>. QED BY <1>7, <1>8 DEF At

\* The replayed sequence: as long as there are ids, and at every position the
\* transaction that so many precede.
LEMMA InOrder ==
  ASSUME NEW book \in Seq(Transaction), NEW ids \in SUBSET DOMAIN book
  PROVE  /\ InReplayOrder(book, ids) \in Seq(Transaction)
         /\ Len(InReplayOrder(book, ids)) = Cardinality(ids)
         /\ \A k \in 1..Cardinality(ids) : \A i :
              At(book, ids, k, i) => InReplayOrder(book, ids)[k] = book[i]
<1>. DEFINE N == Cardinality(ids)
            Nth(k) == CHOOSE i \in ids : Cardinality(Preceding(book, ids, i)) = k - 1
            txs == [k \in 1..N |-> book[Nth(k)]]
<1>1. N \in Nat
  BY IdsOfLedger
<1>2. ASSUME NEW k \in 1..N
      PROVE  At(book, ids, k, Nth(k))
  <2>1. PICK i : At(book, ids, k, i)
    BY PositionTaken
  <2>2. \E j \in ids : Cardinality(Preceding(book, ids, j)) = k - 1
    BY <2>1 DEF At
  <2>. QED BY <2>2 DEF At
<1>3. \A k \in 1..N : book[Nth(k)] \in Transaction
  <2>. TAKE k \in 1..N
  <2>1. Nth(k) \in ids
    BY <1>2 DEF At
  <2>. HIDE DEF Nth
  <2>. QED BY <2>1, IdsOfLedger
<1>4. txs \in Seq(Transaction) /\ Len(txs) = N /\ \A k \in 1..N : txs[k] = book[Nth(k)]
  <2>. HIDE DEF N, Nth
  <2>1. txs \in Seq(Transaction)
    BY <1>1, <1>3, IsASeq
  <2>. QED BY <1>1, <2>1
<1>5. InReplayOrder(book, ids) = txs
  <2>1. InReplayOrder(book, ids) = txs \o <<>>
    BY DEF InReplayOrder
  <2>. HIDE DEF txs
  <2>. QED BY <1>4, <2>1, ConcatEmptySeq
<1>6. ASSUME NEW k \in 1..N, NEW i, At(book, ids, k, i)
      PROVE  txs[k] = book[i]
  <2>1. Nth(k) = i
    <3>. HIDE DEF Nth
    <3>. QED BY <1>2, <1>6, PositionUnique
  <2>. HIDE DEF Nth, txs
  <2>. QED BY <1>4, <2>1
<1>. HIDE DEF txs, N
<1>7. InReplayOrder(book, ids) \in Seq(Transaction) /\ Len(InReplayOrder(book, ids)) = N
  BY <1>4, <1>5
<1>. QED BY <1>5, <1>6, <1>7 DEF N

\* A book that grows keeps the replay of the transactions it had.
LEMMA OrderOfGrownLedger ==
  ASSUME NEW book \in Seq(Transaction), NEW tx \in Transaction,
         NEW ids \in SUBSET DOMAIN book
  PROVE  InReplayOrder(Append(book, tx), ids) = InReplayOrder(book, ids)
<1>. DEFINE grown == Append(book, tx)
<1>1. /\ grown \in Seq(Transaction)
      /\ \A i \in DOMAIN book : grown[i] = book[i]
      /\ DOMAIN book \subseteq DOMAIN grown
  BY AppendProperties, LenProperties
<1>. HIDE DEF grown
<1>2. ASSUME NEW i \in ids
      PROVE  Preceding(grown, ids, i) = Preceding(book, ids, i)
  BY <1>1 DEF Preceding, Earlier
<1>3. ids \in SUBSET DOMAIN grown
  BY <1>1
<1>4. ASSUME NEW k \in 1..Cardinality(ids)
      PROVE  InReplayOrder(grown, ids)[k] = InReplayOrder(book, ids)[k]
  <2>1. PICK i : At(book, ids, k, i)
    BY PositionTaken
  <2>2. At(grown, ids, k, i) /\ grown[i] = book[i]
    BY <1>1, <1>2, <2>1 DEF At
  <2>3. InReplayOrder(book, ids)[k] = book[i]
    BY <2>1, InOrder
  <2>4. InReplayOrder(grown, ids)[k] = grown[i]
    BY <1>1, <1>3, <2>2, InOrder
  <2>. QED BY <2>2, <2>3, <2>4
<1>5. /\ InReplayOrder(book, ids) \in Seq(Transaction)
      /\ Len(InReplayOrder(book, ids)) = Cardinality(ids)
  BY InOrder
<1>6. /\ InReplayOrder(grown, ids) \in Seq(Transaction)
      /\ Len(InReplayOrder(grown, ids)) = Cardinality(ids)
  BY <1>1, <1>3, InOrder
<1>7. InReplayOrder(grown, ids) = InReplayOrder(book, ids)
  BY <1>4, <1>5, <1>6, SeqEqual, Zenon
<1>. QED BY <1>7 DEF grown

\* The sequence new is old with tx inserted after the first p.
Insertion(old, tx, p, new) ==
  /\ Len(new) = Len(old) + 1
  /\ \A k \in 1..p : new[k] = old[k]
  /\ new[p + 1] = tx
  /\ \A k \in (p + 1)..Len(old) : new[k + 1] = old[k]

\* One more id, greater than the others, is one more transaction in the
\* replayed sequence, after those that are not dated later.
LEMMA OneMoreId ==
  ASSUME NEW book \in Seq(Transaction), NEW ids \in SUBSET DOMAIN book,
         NEW m \in DOMAIN book, \A i \in ids : i < m
  PROVE  LET p == Cardinality(Preceding(book, ids, m))
         IN  /\ p \in 0..Cardinality(ids)
             /\ Insertion(InReplayOrder(book, ids), book[m], p,
                          InReplayOrder(book, ids \union {m}))
<1>. DEFINE all == ids \union {m}
            N == Cardinality(ids)
            p == Cardinality(Preceding(book, ids, m))
<1>1. IsFiniteSet(ids) /\ N \in Nat
  BY IdsOfLedger
<1>2. all \in SUBSET DOMAIN book /\ ids \in SUBSET all
  OBVIOUS
<1>3. \A i \in all : i \in Nat /\ book[i].date \in Nat
  <2>. HIDE DEF all
  <2>. QED BY <1>2, IdsOfLedger
<1>4. m \notin ids /\ Cardinality(all) = N + 1
  <2>1. m \notin ids
    BY <1>3
  <2>. QED BY <1>1, <2>1, FS_AddElement
<1>5. p \in 0..N
  <2>1. Preceding(book, ids, m) \in SUBSET ids
    BY DEF Preceding
  <2>2. Cardinality(Preceding(book, ids, m)) <= N
    BY <1>1, <2>1, FS_Subset
  <2>. QED BY <1>1, <2>2, PrecedingFinite
<1>6. At(book, all, p + 1, m)
  <2>1. Preceding(book, all, m) = Preceding(book, ids, m)
    BY <1>3 DEF Preceding, Earlier
  <2>. QED BY <2>1, <1>5 DEF At
\* A transaction dated no later than m keeps its place, the others move on.
<1>7. ASSUME NEW k \in 1..N, NEW i, At(book, ids, k, i)
      PROVE  IF k <= p THEN At(book, all, k, i) ELSE At(book, all, k + 1, i)
  <2>. DEFINE P == Preceding(book, ids, i)
              Q == Preceding(book, all, i)
  <2>1. i \in ids /\ i \in all /\ Cardinality(P) = k - 1 /\ IsFiniteSet(P)
    BY <1>1, <1>7, PrecedingFinite DEF At
  <2>2. Earlier(book, i, m) <=> ~ Earlier(book, m, i)
    BY <1>3, <2>1 DEF Earlier
  <2>3. CASE Earlier(book, i, m)
    <3>1. Q = P
      BY <2>2, <2>3 DEF Preceding
    <3>2. Cardinality(Preceding(book, all, i)) < Cardinality(Preceding(book, all, m))
      BY <1>2, <2>1, <2>3, EarlierIsBefore
    <3>3. k - 1 < p
      BY <1>6, <2>1, <3>1, <3>2, <1>5 DEF At
    <3>. QED BY <1>5, <2>1, <3>1, <3>3 DEF At
  <2>4. CASE Earlier(book, m, i)
    <3>1. Q = P \union {m} /\ m \notin P
      BY <1>4, <2>4 DEF Preceding
    <3>2. Cardinality(Q) = (k - 1) + 1
      <4>. HIDE DEF P, Q
      <4>. QED BY <2>1, <3>1, FS_AddElement
    <3>3. Cardinality(Preceding(book, all, m)) < Cardinality(Preceding(book, all, i))
      BY <1>2, <2>1, <2>4, EarlierIsBefore
    <3>4. p < k
      BY <1>6, <3>2, <3>3, <1>5 DEF At
    <3>. QED BY <1>5, <2>1, <3>2, <3>4 DEF At
  <2>. QED BY <2>2, <2>3, <2>4
<1>. DEFINE old == InReplayOrder(book, ids)
            new == InReplayOrder(book, all)
<1>8. /\ Len(old) = N
      /\ \A k \in 1..N : \A i : At(book, ids, k, i) => old[k] = book[i]
  BY InOrder
<1>9. /\ Len(new) = N + 1
      /\ \A k \in 1..(N + 1) : \A i : At(book, all, k, i) => new[k] = book[i]
  <2>. HIDE DEF all
  <2>. QED BY <1>2, <1>4, InOrder
<1>. HIDE DEF all, old, new
<1>10. ASSUME NEW k \in 1..N
       PROVE  IF k <= p THEN new[k] = old[k] ELSE new[k + 1] = old[k]
  <2>1. PICK i : At(book, ids, k, i)
    BY PositionTaken
  <2>. HIDE DEF N, p
  <2>2. k \in 1..(N + 1) /\ k + 1 \in 1..(N + 1)
    BY <1>1
  <2>. QED BY <1>7, <1>8, <1>9, <2>1, <2>2
<1>11. new[p + 1] = book[m]
  <2>. HIDE DEF N, p
  <2>. QED BY <1>1, <1>5, <1>6, <1>9
<1>12. Insertion(old, book[m], p, new)
  <2>. HIDE DEF N, p
  <2>. QED BY <1>1, <1>5, <1>8, <1>9, <1>10, <1>11 DEF Insertion
<1>. QED BY <1>5, <1>12 DEF all, old, new

-----------------------------------------------------------------------------
(* The replay of a sequence.                                               *)

\* f is the sequence of portfolios the rebuilder goes through over txs.
ReplayTrace(f, txs) ==
  /\ f[0] = EmptyPortfolio
  /\ \A n \in 1..Len(txs) : f[n] = ApplyTransaction(f[n - 1], txs[n])

\* f is the replay of the first m transactions.
TraceUpTo(f, txs, m) ==
  /\ f[0] = EmptyPortfolio
  /\ \A n \in 1..m : f[n] = ApplyTransaction(f[n - 1], txs[n])

LEMMA TraceExists ==
  ASSUME NEW txs \in Seq(Transaction)
  PROVE  \E f : ReplayTrace(f, txs)
<1>. DEFINE S == {m \in Nat : ~ \E f : TraceUpTo(f, txs, m)}
<1>1. Len(txs) \in Nat
  BY LenProperties
<1>2. S = {}
  <2>. SUFFICES ASSUME S # {} PROVE FALSE
    OBVIOUS
  <2>1. PICK m \in S : \A k \in S : m <= k
    BY LeastNumber
  <2>2. m # 0
    <3>. DEFINE g == [n \in {0} |-> EmptyPortfolio]
    <3>1. TraceUpTo(g, txs, 0)
      BY DEF TraceUpTo
    <3>. QED BY <3>1, <2>1
  <2>3. m - 1 \in Nat /\ m - 1 \notin S
    BY <2>1, <2>2
  <2>4. PICK f : TraceUpTo(f, txs, m - 1)
    BY <2>3
  <2>. DEFINE g == [n \in 0..m |-> IF n < m THEN f[n]
                                   ELSE ApplyTransaction(f[m - 1], txs[m])]
  <2>5. TraceUpTo(g, txs, m)
    <3>1. g[0] = EmptyPortfolio
      BY <2>2, <2>3, <2>4 DEF TraceUpTo
    <3>2. ASSUME NEW n \in 1..m
          PROVE  g[n] = ApplyTransaction(g[n - 1], txs[n])
      <4>1. CASE n = m
        <5>1. g[n] = ApplyTransaction(f[m - 1], txs[m]) /\ g[n - 1] = f[m - 1]
          BY <2>3, <4>1
        <5>. QED BY <4>1, <5>1
      <4>2. CASE n < m
        <5>1. g[n] = f[n] /\ g[n - 1] = f[n - 1]
          BY <2>3, <4>2
        <5>2. f[n] = ApplyTransaction(f[n - 1], txs[n])
          BY <2>3, <2>4, <4>2 DEF TraceUpTo
        <5>. QED BY <5>1, <5>2
      <4>. QED BY <2>3, <4>1, <4>2
    <3>. HIDE DEF g
    <3>. QED BY <3>1, <3>2 DEF TraceUpTo
  <2>. HIDE DEF g
  <2>. QED BY <2>1, <2>5
<1>3. PICK f : TraceUpTo(f, txs, Len(txs))
  BY <1>1, <1>2
<1>. QED BY <1>3 DEF TraceUpTo, ReplayTrace

LEMMA TracesAgree ==
  ASSUME NEW txs \in Seq(Transaction), NEW f, NEW g, ReplayTrace(f, txs), ReplayTrace(g, txs)
  PROVE  \A n \in 0..Len(txs) : f[n] = g[n]
<1>. DEFINE S == {n \in 0..Len(txs) : f[n] # g[n]}
<1>1. Len(txs) \in Nat
  BY LenProperties
<1>2. S \in SUBSET Nat
  BY <1>1
<1>3. S = {}
  <2>. SUFFICES ASSUME S # {} PROVE FALSE
    OBVIOUS
  <2>1. PICK m \in S : \A k \in S : m <= k
    BY <1>2, LeastNumber
  <2>2. m # 0
    BY <2>1 DEF ReplayTrace
  <2>3. m \in 1..Len(txs) /\ m - 1 \in 0..Len(txs) /\ m - 1 \notin S
    BY <1>1, <2>1, <2>2
  <2>4. f[m] = ApplyTransaction(f[m - 1], txs[m]) /\ g[m] = ApplyTransaction(g[m - 1], txs[m])
    BY <2>3 DEF ReplayTrace
  <2>. QED BY <2>1, <2>3, <2>4
<1>. QED BY <1>3

\* The end of any trace is the replay.
LEMMA ReplayIsTraced ==
  ASSUME NEW txs \in Seq(Transaction), NEW f, ReplayTrace(f, txs)
  PROVE  Replay(txs) = f[Len(txs)]
<1>. DEFINE L == Len(txs)
            Fold(g) == g = [n \in 0..L |-> IF n = 0 THEN EmptyPortfolio
                                           ELSE ApplyTransaction(g[n - 1], txs[n])]
            h == [n \in 0..L |-> f[n]]
            after == CHOOSE g : Fold(g)
<1>1. L \in Nat
  BY LenProperties
<1>2. \A n \in 0..L : h[n] = IF n = 0 THEN EmptyPortfolio
                             ELSE ApplyTransaction(h[n - 1], txs[n])
  <2>. TAKE n \in 0..L
  <2>1. CASE n = 0
    BY <1>1, <2>1 DEF ReplayTrace
  <2>2. CASE n # 0
    <3>1. n \in 1..L /\ n - 1 \in 0..L
      BY <1>1, <2>2
    <3>2. h[n] = f[n] /\ h[n - 1] = f[n - 1]
      BY <3>1
    <3>3. f[n] = ApplyTransaction(f[n - 1], txs[n])
      BY <3>1 DEF ReplayTrace
    <3>. QED BY <2>2, <3>2, <3>3
  <2>. QED BY <2>1, <2>2
<1>3. Fold(h)
  <2>1. h = [n \in 0..L |-> h[n]]
    OBVIOUS
  <2>. HIDE DEF h
  <2>. QED BY <1>2, <2>1
<1>4. Fold(after)
  <2>. HIDE DEF Fold, h
  <2>. QED BY <1>3
<1>5. ReplayTrace(after, txs)
  <2>1. \A n \in 0..L : after[n] = IF n = 0 THEN EmptyPortfolio
                                   ELSE ApplyTransaction(after[n - 1], txs[n])
    <3>. HIDE DEF after
    <3>. QED BY <1>4
  <2>. HIDE DEF after
  <2>. QED BY <1>1, <2>1 DEF ReplayTrace
<1>6. Replay(txs) = after[L]
  BY DEF Replay
<1>. HIDE DEF after
<1>. QED BY <1>1, <1>5, <1>6, TracesAgree

\* Replaying one more transaction applies it to the portfolio replayed so far.
LEMMA ReplayOfAppend ==
  ASSUME NEW txs \in Seq(Transaction), NEW tx \in Transaction
  PROVE  Replay(Append(txs, tx)) = ApplyTransaction(Replay(txs), tx)
<1>1. PICK f : ReplayTrace(f, Append(txs, tx))
  BY TraceExists, AppendProperties
<1>2. /\ Len(txs) \in Nat /\ Len(Append(txs, tx)) = Len(txs) + 1
      /\ \A i \in 1..Len(txs) : Append(txs, tx)[i] = txs[i]
      /\ Append(txs, tx)[Len(txs) + 1] = tx
      /\ Append(txs, tx) \in Seq(Transaction)
  BY AppendProperties, LenProperties
<1>3. ReplayTrace(f, txs)
  <2>. SUFFICES ASSUME NEW n \in 1..Len(txs)
                PROVE  f[n] = ApplyTransaction(f[n - 1], txs[n])
    BY <1>1 DEF ReplayTrace
  <2>1. n \in 1..Len(Append(txs, tx)) /\ Append(txs, tx)[n] = txs[n]
    BY <1>2
  <2>. QED BY <1>1, <2>1 DEF ReplayTrace
<1>4. f[Len(txs) + 1] = ApplyTransaction(f[Len(txs)], tx)
  <2>1. Len(txs) + 1 \in 1..Len(Append(txs, tx)) /\ (Len(txs) + 1) - 1 = Len(txs)
    BY <1>2
  <2>2. f[Len(txs) + 1] = ApplyTransaction(f[(Len(txs) + 1) - 1], Append(txs, tx)[Len(txs) + 1])
    BY <1>1, <2>1 DEF ReplayTrace
  <2>. QED BY <1>2, <2>1, <2>2
<1>5. Replay(txs) = f[Len(txs)]
  BY <1>3, ReplayIsTraced
<1>6. Replay(Append(txs, tx)) = f[Len(txs) + 1]
  BY <1>1, <1>2, ReplayIsTraced
<1>. QED BY <1>4, <1>5, <1>6

\* A replayed portfolio holds no negative number of shares.
IsPortfolio(p) ==
  p.cash \in Int /\ p.held \in [Symbols -> Nat]

LEMMA ApplyType ==
  ASSUME NEW p, IsPortfolio(p), NEW tx \in Transaction
  PROVE  IsPortfolio(ApplyTransaction(p, tx))
<1>1. tx.amount \in Nat /\ tx.shares \in Nat /\ tx.delta \in Int
  BY DEF Transaction
<1>2. CashEffect(tx) \in Int
  BY <1>1 DEF CashEffect
<1>3. \A h \in Nat : HeldAfter(h, tx) \in Nat
  BY <1>1 DEF HeldAfter, FloorAtZero
<1>4. \A s \in Symbols : p.held[s] \in Nat
  BY DEF IsPortfolio
<1>. QED BY <1>2, <1>3, <1>4 DEF IsPortfolio, ApplyTransaction

LEMMA TraceType ==
  ASSUME NEW txs \in Seq(Transaction), NEW f, ReplayTrace(f, txs)
  PROVE  \A n \in 0..Len(txs) : IsPortfolio(f[n])
<1>. DEFINE S == {n \in 0..Len(txs) : ~ IsPortfolio(f[n])}
<1>1. Len(txs) \in Nat /\ \A n \in 1..Len(txs) : txs[n] \in Transaction
  BY LenProperties
<1>2. S = {}
  <2>. SUFFICES ASSUME S # {} PROVE FALSE
    OBVIOUS
  <2>0. S \in SUBSET Nat
    BY <1>1
  <2>1. PICK m \in S : \A k \in S : m <= k
    BY <2>0, LeastNumber
  <2>2. m # 0
    <3>1. IsPortfolio(EmptyPortfolio)
      BY DEF IsPortfolio, EmptyPortfolio
    <3>. QED BY <2>1, <3>1 DEF ReplayTrace
  <2>3. m \in 1..Len(txs) /\ m - 1 \in 0..Len(txs) /\ m - 1 \notin S
    BY <1>1, <2>1, <2>2
  <2>4. f[m] = ApplyTransaction(f[m - 1], txs[m]) /\ IsPortfolio(f[m - 1])
    BY <2>3 DEF ReplayTrace
  <2>. QED BY <1>1, <2>1, <2>3, <2>4, ApplyType
<1>. QED BY <1>2

LEMMA ReplayType ==
  ASSUME NEW txs \in Seq(Transaction)
  PROVE  IsPortfolio(Replay(txs))
<1>1. PICK f : ReplayTrace(f, txs)
  BY TraceExists
<1>. QED BY <1>1, ReplayIsTraced, TraceType, LenProperties

LEMMA CashOfApply ==
  \A q, t : ApplyTransaction(q, t).cash = q.cash + CashEffect(t)
BY DEF ApplyTransaction

\* What the audit adds up in the order of the table is the cash of a replay in
\* that order.
LEMMA LedgerCashIsReplayed ==
  ASSUME NEW txs \in Seq(Transaction)
  PROVE  LedgerCash(txs) = Replay(txs).cash
<1>. DEFINE L == Len(txs)
            Fold(g) == g = [n \in 0..L |-> IF n = 0 THEN 0 ELSE g[n - 1] + CashEffect(txs[n])]
            sum == CHOOSE g : Fold(g)
<1>1. L \in Nat
  BY LenProperties
<1>2. PICK f : ReplayTrace(f, txs)
  BY TraceExists
<1>. DEFINE h == [n \in 0..L |-> f[n].cash]
<1>3. \A n \in 0..L : h[n] = IF n = 0 THEN 0 ELSE h[n - 1] + CashEffect(txs[n])
  <2>. TAKE n \in 0..L
  <2>1. CASE n = 0
    BY <1>1, <1>2, <2>1 DEF ReplayTrace, EmptyPortfolio
  <2>2. CASE n # 0
    <3>1. n \in 1..L /\ n - 1 \in 0..L
      BY <1>1, <2>2
    <3>2. h[n] = f[n].cash /\ h[n - 1] = f[n - 1].cash
      BY <3>1
    <3>3. f[n] = ApplyTransaction(f[n - 1], txs[n])
      BY <1>2, <3>1 DEF ReplayTrace
    <3>. QED BY <2>2, <3>2, <3>3, CashOfApply
  <2>. QED BY <2>1, <2>2
<1>4. Fold(h)
  <2>1. h = [n \in 0..L |-> h[n]]
    OBVIOUS
  <2>. HIDE DEF h
  <2>. QED BY <1>3, <2>1
<1>5. Fold(sum)
  <2>. HIDE DEF Fold, h
  <2>. QED BY <1>4
<1>6. \A n \in 0..L : sum[n] = IF n = 0 THEN 0 ELSE sum[n - 1] + CashEffect(txs[n])
  <2>. HIDE DEF sum
  <2>. QED BY <1>5
<1>. HIDE DEF sum, h
<1>. DEFINE S == {n \in 0..L : sum[n] # h[n]}
<1>7. S = {}
  <2>. SUFFICES ASSUME S # {} PROVE FALSE
    OBVIOUS
  <2>0. S \in SUBSET Nat
    BY <1>1
  <2>1. PICK m \in S : \A k \in S : m <= k
    BY <2>0, LeastNumber
  <2>2. m # 0
    BY <1>3, <1>6, <2>1
  <2>3. m \in 0..L /\ m - 1 \in 0..L /\ m - 1 \notin S
    BY <1>1, <2>1, <2>2
  <2>4. sum[m] = sum[m - 1] + CashEffect(txs[m]) /\ h[m] = h[m - 1] + CashEffect(txs[m])
    BY <1>3, <1>6, <2>2, <2>3
  <2>. QED BY <2>1, <2>3, <2>4
<1>8. sum[L] = h[L]
  BY <1>1, <1>7
<1>9. LedgerCash(txs) = sum[L]
  BY DEF LedgerCash, sum
<1>10. h[L] = Replay(txs).cash
  BY <1>1, <1>2, ReplayIsTraced DEF h
<1>. QED BY <1>8, <1>9, <1>10

\* Wherever a transaction is inserted, it adds its own effect to the cash.
LEMMA CashOfInsertion ==
  ASSUME NEW old \in Seq(Transaction), NEW new \in Seq(Transaction), NEW tx \in Transaction,
         NEW p \in 0..Len(old), Insertion(old, tx, p, new)
  PROVE  Replay(new).cash = Replay(old).cash + CashEffect(tx)
<1>1. PICK f : ReplayTrace(f, old)
  BY TraceExists
<1>2. PICK g : ReplayTrace(g, new)
  BY TraceExists
<1>3. /\ Len(old) \in Nat /\ Len(new) = Len(old) + 1
      /\ \A n \in 1..Len(old) : old[n] \in Transaction
  BY LenProperties DEF Insertion
<1>4. \A t \in Transaction : CashEffect(t) \in Int
  BY DEF CashEffect, Transaction
<1>5. \A n \in 0..Len(old) : f[n].cash \in Int
  BY <1>1, TraceType DEF IsPortfolio
<1>6. \A n \in 1..Len(old) : f[n].cash = f[n - 1].cash + CashEffect(old[n])
  BY <1>1, CashOfApply DEF ReplayTrace
<1>7. \A n \in 1..Len(new) : g[n].cash = g[n - 1].cash + CashEffect(new[n])
  BY <1>2, CashOfApply DEF ReplayTrace
<1>8. f[0].cash = 0 /\ g[0].cash = 0
  BY <1>1, <1>2 DEF ReplayTrace, EmptyPortfolio
<1>. DEFINE Same(n) == IF n <= p THEN g[n].cash = f[n].cash
                       ELSE g[n].cash = f[n - 1].cash + CashEffect(tx)
            S == {n \in 0..Len(new) : ~ Same(n)}
<1>9. S = {}
  <2>. SUFFICES ASSUME S # {} PROVE FALSE
    OBVIOUS
  <2>0. S \in SUBSET Nat
    BY <1>3
  <2>1. PICK m \in S : \A k \in S : m <= k
    BY <2>0, LeastNumber
  <2>2. m # 0
    BY <1>8, <2>1
  <2>3. m \in 1..Len(new) /\ m - 1 \in 0..Len(new) /\ m - 1 \notin S
    BY <1>3, <2>1, <2>2
  <2>4. Same(m - 1) /\ g[m].cash = g[m - 1].cash + CashEffect(new[m])
    BY <1>7, <2>3
  <2>5. CASE m <= p
    <3>1. new[m] = old[m] /\ m \in 1..Len(old)
      BY <1>3, <2>3, <2>5 DEF Insertion
    <3>2. g[m - 1].cash = f[m - 1].cash
      BY <2>3, <2>4, <2>5
    <3>. QED BY <1>6, <2>1, <2>4, <2>5, <3>1, <3>2
  <2>6. CASE m = p + 1
    <3>1. new[m] = tx /\ g[m - 1].cash = f[m - 1].cash
      BY <2>3, <2>4, <2>6 DEF Insertion
    <3>. QED BY <2>1, <2>4, <2>6, <3>1
  <2>7. CASE m > p + 1
    <3>1. m - 1 \in (p + 1)..Len(old) /\ m - 1 \in 1..Len(old)
      BY <1>3, <2>3, <2>7
    <3>2. new[m] = old[m - 1]
      <4>1. new[(m - 1) + 1] = old[m - 1]
        BY <3>1 DEF Insertion
      <4>2. (m - 1) + 1 = m
        BY <2>3
      <4>. QED BY <4>1, <4>2
    <3>3. g[m - 1].cash = f[(m - 1) - 1].cash + CashEffect(tx)
      BY <2>3, <2>4, <2>7
    <3>4. f[m - 1].cash = f[(m - 1) - 1].cash + CashEffect(old[m - 1])
      BY <1>6, <3>1
    <3>5. /\ f[(m - 1) - 1].cash \in Int /\ CashEffect(old[m - 1]) \in Int
          /\ CashEffect(tx) \in Int
      <4>. HIDE DEF Same
      <4>1. (m - 1) - 1 \in 0..Len(old) /\ old[m - 1] \in Transaction
        BY <1>3, <3>1
      <4>. QED BY <1>4, <1>5, <4>1
    <3>6. g[m].cash = f[m - 1].cash + CashEffect(tx)
      <4>. HIDE DEF Same
      <4>. QED BY <2>4, <3>2, <3>3, <3>4, <3>5
    <3>. QED BY <2>1, <2>3, <2>7, <3>6
  <2>. QED BY <2>3, <2>5, <2>6, <2>7
<1>10. Same(Len(new))
  <2>. HIDE DEF Same
  <2>1. Len(new) \in 0..Len(new)
    BY <1>3
  <2>. QED BY <1>9, <2>1
<1>11. g[Len(new)].cash = f[Len(old)].cash + CashEffect(tx)
  <2>1. ~ (Len(new) <= p) /\ Len(new) - 1 = Len(old)
    BY <1>3
  <2>. QED BY <1>10, <2>1
<1>. QED BY <1>1, <1>2, <1>11, ReplayIsTraced

-----------------------------------------------------------------------------
(* The validator's replay.                                                 *)

ValidatorTrace(f, txs) ==
  /\ f[0] = NothingHeld
  /\ \A n \in 1..Len(txs) : f[n] = ValidateTransaction(f[n - 1], txs[n])

HeldUpTo(f, txs, m) ==
  /\ f[0] = NothingHeld
  /\ \A n \in 1..m : f[n] = ValidateTransaction(f[n - 1], txs[n])

LEMMA ValidatorTraceExists ==
  ASSUME NEW txs \in Seq(Transaction)
  PROVE  \E f : ValidatorTrace(f, txs)
<1>. DEFINE S == {m \in Nat : ~ \E f : HeldUpTo(f, txs, m)}
<1>1. Len(txs) \in Nat
  BY LenProperties
<1>2. S = {}
  <2>. SUFFICES ASSUME S # {} PROVE FALSE
    OBVIOUS
  <2>1. PICK m \in S : \A k \in S : m <= k
    BY LeastNumber
  <2>2. m # 0
    <3>. DEFINE g == [n \in {0} |-> NothingHeld]
    <3>1. HeldUpTo(g, txs, 0)
      BY DEF HeldUpTo
    <3>. QED BY <3>1, <2>1
  <2>3. m - 1 \in Nat /\ m - 1 \notin S
    BY <2>1, <2>2
  <2>4. PICK f : HeldUpTo(f, txs, m - 1)
    BY <2>3
  <2>. DEFINE g == [n \in 0..m |-> IF n < m THEN f[n]
                                   ELSE ValidateTransaction(f[m - 1], txs[m])]
  <2>5. HeldUpTo(g, txs, m)
    <3>1. g[0] = NothingHeld
      BY <2>2, <2>3, <2>4 DEF HeldUpTo
    <3>2. ASSUME NEW n \in 1..m
          PROVE  g[n] = ValidateTransaction(g[n - 1], txs[n])
      <4>1. CASE n = m
        <5>1. g[n] = ValidateTransaction(f[m - 1], txs[m]) /\ g[n - 1] = f[m - 1]
          BY <2>3, <4>1
        <5>. QED BY <4>1, <5>1
      <4>2. CASE n < m
        <5>1. g[n] = f[n] /\ g[n - 1] = f[n - 1]
          BY <2>3, <4>2
        <5>2. f[n] = ValidateTransaction(f[n - 1], txs[n])
          BY <2>3, <2>4, <4>2 DEF HeldUpTo
        <5>. QED BY <5>1, <5>2
      <4>. QED BY <2>3, <4>1, <4>2
    <3>. HIDE DEF g
    <3>. QED BY <3>1, <3>2 DEF HeldUpTo
  <2>. HIDE DEF g
  <2>. QED BY <2>1, <2>5
<1>3. PICK f : HeldUpTo(f, txs, Len(txs))
  BY <1>1, <1>2
<1>. QED BY <1>3 DEF HeldUpTo, ValidatorTrace

LEMMA HeldIsTraced ==
  ASSUME NEW txs \in Seq(Transaction)
  PROVE  ValidatorTrace(ValidatorHeld(txs), txs)
<1>. DEFINE L == Len(txs)
            Fold(g) == g = [n \in 0..L |-> IF n = 0 THEN NothingHeld
                                           ELSE ValidateTransaction(g[n - 1], txs[n])]
            after == CHOOSE g : Fold(g)
<1>1. L \in Nat
  BY LenProperties
<1>2. PICK f : ValidatorTrace(f, txs)
  BY ValidatorTraceExists
<1>. DEFINE h == [n \in 0..L |-> f[n]]
<1>3. \A n \in 0..L : h[n] = IF n = 0 THEN NothingHeld
                             ELSE ValidateTransaction(h[n - 1], txs[n])
  <2>. TAKE n \in 0..L
  <2>1. CASE n = 0
    BY <1>1, <1>2, <2>1 DEF ValidatorTrace
  <2>2. CASE n # 0
    <3>1. n \in 1..L /\ n - 1 \in 0..L
      BY <1>1, <2>2
    <3>2. h[n] = f[n] /\ h[n - 1] = f[n - 1]
      BY <3>1
    <3>3. f[n] = ValidateTransaction(f[n - 1], txs[n])
      BY <1>2, <3>1 DEF ValidatorTrace
    <3>. QED BY <2>2, <3>2, <3>3
  <2>. QED BY <2>1, <2>2
<1>4. Fold(h)
  <2>1. h = [n \in 0..L |-> h[n]]
    OBVIOUS
  <2>. HIDE DEF h
  <2>. QED BY <1>3, <2>1
<1>5. Fold(after)
  <2>. HIDE DEF Fold, h
  <2>. QED BY <1>4
<1>6. \A n \in 0..L : after[n] = IF n = 0 THEN NothingHeld
                                 ELSE ValidateTransaction(after[n - 1], txs[n])
  <2>. HIDE DEF after
  <2>. QED BY <1>5
<1>7. ValidatorHeld(txs) = after
  BY DEF ValidatorHeld
<1>8. ValidatorTrace(after, txs)
  <2>. HIDE DEF after
  <2>. QED BY <1>1, <1>6 DEF ValidatorTrace
<1>. HIDE DEF after
<1>. QED BY <1>7, <1>8

LEMMA HeldTracesAgree ==
  ASSUME NEW txs \in Seq(Transaction), NEW f, NEW g,
         ValidatorTrace(f, txs), ValidatorTrace(g, txs)
  PROVE  \A n \in 0..Len(txs) : f[n] = g[n]
<1>. DEFINE S == {n \in 0..Len(txs) : f[n] # g[n]}
<1>1. Len(txs) \in Nat
  BY LenProperties
<1>2. S \in SUBSET Nat
  BY <1>1
<1>3. S = {}
  <2>. SUFFICES ASSUME S # {} PROVE FALSE
    OBVIOUS
  <2>1. PICK m \in S : \A k \in S : m <= k
    BY <1>2, LeastNumber
  <2>2. m # 0
    BY <2>1 DEF ValidatorTrace
  <2>3. m \in 1..Len(txs) /\ m - 1 \in 0..Len(txs) /\ m - 1 \notin S
    BY <1>1, <2>1, <2>2
  <2>4. /\ f[m] = ValidateTransaction(f[m - 1], txs[m])
        /\ g[m] = ValidateTransaction(g[m - 1], txs[m])
    BY <2>3 DEF ValidatorTrace
  <2>. QED BY <2>1, <2>3, <2>4
<1>. QED BY <1>3

\* The validator takes one more transaction from where it was.
LEMMA HeldOfAppend ==
  ASSUME NEW txs \in Seq(Transaction), NEW tx \in Transaction
  PROVE  /\ \A n \in 0..Len(txs) : ValidatorHeld(Append(txs, tx))[n] = ValidatorHeld(txs)[n]
         /\ ValidatorHeld(Append(txs, tx))[Len(txs) + 1] =
              ValidateTransaction(ValidatorHeld(txs)[Len(txs)], tx)
<1>. DEFINE all == Append(txs, tx)
            f == ValidatorHeld(all)
<1>1. /\ Len(txs) \in Nat /\ Len(all) = Len(txs) + 1
      /\ \A i \in 1..Len(txs) : all[i] = txs[i]
      /\ all[Len(txs) + 1] = tx
      /\ all \in Seq(Transaction)
  BY AppendProperties, LenProperties
<1>2. ValidatorTrace(f, all)
  BY <1>1, HeldIsTraced
<1>. HIDE DEF f, all
<1>3. ValidatorTrace(f, txs)
  <2>. SUFFICES ASSUME NEW n \in 1..Len(txs)
                PROVE  f[n] = ValidateTransaction(f[n - 1], txs[n])
    BY <1>2 DEF ValidatorTrace
  <2>1. n \in 1..Len(all) /\ all[n] = txs[n]
    BY <1>1
  <2>. QED BY <1>2, <2>1 DEF ValidatorTrace
<1>4. \A n \in 0..Len(txs) : f[n] = ValidatorHeld(txs)[n]
  BY <1>3, HeldIsTraced, HeldTracesAgree
<1>5. f[Len(txs) + 1] = ValidateTransaction(f[Len(txs)], tx)
  <2>1. Len(txs) + 1 \in 1..Len(all) /\ (Len(txs) + 1) - 1 = Len(txs)
    BY <1>1
  <2>2. f[Len(txs) + 1] = ValidateTransaction(f[(Len(txs) + 1) - 1], all[Len(txs) + 1])
    BY <1>2, <2>1 DEF ValidatorTrace
  <2>. QED BY <1>1, <2>1, <2>2
<1>6. Len(txs) \in 0..Len(txs)
  BY <1>1
<1>. QED BY <1>4, <1>5, <1>6 DEF f, all

-----------------------------------------------------------------------------
(* One more transaction in the book.                                     *)

LEMMA GrownLedger ==
  ASSUME NEW book \in Seq(Transaction), NEW tx \in Transaction
  PROVE  /\ Append(book, tx) \in Seq(Transaction)
         /\ Len(book) + 1 \notin DOMAIN book
         /\ DOMAIN Append(book, tx) = DOMAIN book \union {Len(book) + 1}
         /\ Append(book, tx)[Len(book) + 1] = tx
         /\ \A i \in DOMAIN book :
              /\ Append(book, tx)[i] = book[i]
              /\ i < Len(book) + 1
<1>1. Len(book) \in Nat /\ DOMAIN book = 1..Len(book)
  BY LenProperties
<1>2. /\ Append(book, tx) \in Seq(Transaction)
      /\ Len(Append(book, tx)) = Len(book) + 1
      /\ \A i \in 1..Len(book) : Append(book, tx)[i] = book[i]
      /\ Append(book, tx)[Len(book) + 1] = tx
  BY AppendProperties
<1>3. DOMAIN Append(book, tx) = 1..(Len(book) + 1)
  BY <1>2, LenProperties
<1>. QED BY <1>1, <1>2, <1>3

\* It adds its effect to the replayed cash, however it is dated.
LEMMA CashOfGrownLedger ==
  ASSUME NEW book \in Seq(Transaction), NEW tx \in Transaction,
         NEW ids \in SUBSET DOMAIN book
  PROVE  Replay(InReplayOrder(Append(book, tx), ids \union {Len(book) + 1})).cash =
           Replay(InReplayOrder(book, ids)).cash + CashEffect(tx)
<1>. DEFINE grown == Append(book, tx)
            m == Len(book) + 1
            p == Cardinality(Preceding(grown, ids, m))
            old == InReplayOrder(grown, ids)
            new == InReplayOrder(grown, ids \union {m})
<1>1. /\ grown \in Seq(Transaction) /\ m \in DOMAIN grown /\ grown[m] = tx
      /\ ids \in SUBSET DOMAIN grown /\ \A i \in ids : i < m
      /\ ids \union {m} \in SUBSET DOMAIN grown
  BY GrownLedger
<1>2. old = InReplayOrder(book, ids)
  BY OrderOfGrownLedger
<1>. HIDE DEF grown, m
<1>3. p \in 0..Cardinality(ids) /\ Insertion(old, tx, p, new)
  BY <1>1, OneMoreId
<1>4. old \in Seq(Transaction) /\ Len(old) = Cardinality(ids)
  BY <1>1, InOrder
<1>5. new \in Seq(Transaction)
  BY <1>1, InOrder
<1>. HIDE DEF old, new, p
<1>6. Replay(new).cash = Replay(old).cash + CashEffect(tx)
  BY <1>3, <1>4, <1>5, CashOfInsertion
<1>. QED BY <1>2, <1>6 DEF new, grown, m

\* No transaction of ids is dated after tx.
NoneLater(book, ids, tx) == \A i \in ids : book[i].date <= tx.date

\* Unless it is backdated it is replayed last, and the others where they were.
LEMMA OrderOfLedgerInOrder ==
  ASSUME NEW book \in Seq(Transaction), NEW tx \in Transaction,
         NEW ids \in SUBSET DOMAIN book, NoneLater(book, ids, tx)
  PROVE  /\ InReplayOrder(Append(book, tx), ids \union {Len(book) + 1}) =
              Append(InReplayOrder(book, ids), tx)
         /\ Preceding(Append(book, tx), ids \union {Len(book) + 1}, Len(book) + 1) = ids
         /\ \A i \in ids :
              Preceding(Append(book, tx), ids \union {Len(book) + 1}, i) =
                Preceding(book, ids, i)
<1>. DEFINE grown == Append(book, tx)
            m == Len(book) + 1
            all == ids \union {m}
            N == Cardinality(ids)
            old == InReplayOrder(grown, ids)
            new == InReplayOrder(grown, all)
<1>1. /\ grown \in Seq(Transaction) /\ m \in DOMAIN grown /\ grown[m] = tx
      /\ ids \in SUBSET DOMAIN grown /\ \A i \in ids : i < m
      /\ \A i \in ids : grown[i] = book[i] /\ m # i
      /\ all \in SUBSET DOMAIN grown
  BY GrownLedger
<1>2. old = InReplayOrder(book, ids)
  BY OrderOfGrownLedger
<1>. HIDE DEF grown, m
<1>3. \A i \in all : i \in Nat /\ grown[i].date \in Nat
  <2>. HIDE DEF all
  <2>. QED BY <1>1, IdsOfLedger
<1>4. \A i \in ids : Earlier(grown, i, m) /\ ~ Earlier(grown, m, i)
  BY <1>1, <1>3 DEF Earlier, NoneLater
<1>5. ~ Earlier(grown, m, m)
  BY <1>3 DEF Earlier
<1>6. Preceding(grown, all, m) = ids
  BY <1>4, <1>5 DEF Preceding
<1>7. Preceding(grown, ids, m) = ids
  BY <1>4 DEF Preceding
<1>8. \A i \in ids : Preceding(grown, all, i) = Preceding(book, ids, i)
  BY <1>1, <1>4 DEF Preceding, Earlier
<1>9. Insertion(old, tx, N, new) /\ N \in Nat
  BY <1>1, <1>7, OneMoreId, IdsOfLedger
<1>10. old \in Seq(Transaction) /\ Len(old) = N
  BY <1>1, InOrder
<1>11. new \in Seq(Transaction)
  <2>. HIDE DEF all
  <2>. QED BY <1>1, InOrder
<1>. HIDE DEF all, N, old, new
<1>12. new = Append(old, tx)
  <2>1. /\ Append(old, tx) \in Seq(Transaction) /\ Len(Append(old, tx)) = N + 1
        /\ \A i \in 1..N : Append(old, tx)[i] = old[i]
        /\ Append(old, tx)[N + 1] = tx
    BY <1>10, AppendProperties
  <2>2. Len(new) = N + 1 /\ new[N + 1] = tx /\ \A i \in 1..N : new[i] = old[i]
    BY <1>9, <1>10 DEF Insertion
  <2>3. Len(new) = Len(Append(old, tx)) /\ \A i \in 1..Len(new) : new[i] = Append(old, tx)[i]
    BY <1>9, <2>1, <2>2
  <2>. QED BY <1>11, <2>1, <2>3, SeqEqual, Zenon
<1>. QED BY <1>2, <1>6, <1>8, <1>12 DEF all, new, grown, m

\* What one more transaction does to the portfolio that the rebuilder derives.
LEMMA ReplayOfGrownLedger ==
  ASSUME NEW book \in Seq(Transaction), NEW tx \in Transaction,
         NEW excluded, Len(book) + 1 \notin excluded
  PROVE  /\ ReplayOf(Append(book, tx), excluded).cash =
              ReplayOf(book, excluded).cash + CashEffect(tx)
         /\ NoneLater(book, DOMAIN book, tx) =>
              ReplayOf(Append(book, tx), excluded) =
                ApplyTransaction(ReplayOf(book, excluded), tx)
<1>. DEFINE ids == DOMAIN book \ excluded
<1>1. DOMAIN Append(book, tx) \ excluded = ids \union {Len(book) + 1}
  BY GrownLedger
<1>2. ids \in SUBSET DOMAIN book
  OBVIOUS
<1>3. NoneLater(book, DOMAIN book, tx) => NoneLater(book, ids, tx)
  BY DEF NoneLater
<1>4. ReplayOf(Append(book, tx), excluded) =
        Replay(InReplayOrder(Append(book, tx), ids \union {Len(book) + 1}))
  BY <1>1 DEF ReplayOf
<1>5. ReplayOf(book, excluded) = Replay(InReplayOrder(book, ids))
  BY DEF ReplayOf
<1>. HIDE DEF ids
<1>6. NoneLater(book, ids, tx) =>
        Replay(InReplayOrder(Append(book, tx), ids \union {Len(book) + 1})) =
          ApplyTransaction(Replay(InReplayOrder(book, ids)), tx)
  BY <1>2, OrderOfLedgerInOrder, InOrder, ReplayOfAppend
<1>. QED BY <1>2, <1>3, <1>4, <1>5, <1>6, CashOfGrownLedger

\* What the validator holds at the end of the replay of ids.
HeldAtEnd(book, ids) == ValidatorHeld(InReplayOrder(book, ids))[Cardinality(ids)]

Acceptable(tx, held) == ~ SellWithoutHolding(tx, held) /\ ~ NegativeBalance(tx, held)

\* The validator finds nothing new in a transaction that is acceptable to what
\* it holds.
LEMMA FindingsOfGrownLedger ==
  ASSUME NEW book \in Seq(Transaction), NEW tx \in Transaction,
         NEW ids \in SUBSET DOMAIN book, NoneLater(book, ids, tx),
         ReplayFindings(book, ids) = {},
         tx.symbol \in Symbols => Acceptable(tx, HeldAtEnd(book, ids)[tx.symbol])
  PROVE  /\ ReplayFindings(Append(book, tx), ids \union {Len(book) + 1}) = {}
         /\ HeldAtEnd(Append(book, tx), ids \union {Len(book) + 1}) =
              ValidateTransaction(HeldAtEnd(book, ids), tx)
<1>. DEFINE grown == Append(book, tx)
            m == Len(book) + 1
            all == ids \union {m}
            N == Cardinality(ids)
            txs == InReplayOrder(book, ids)
            held == ValidatorHeld(txs)
            heldNow == ValidatorHeld(InReplayOrder(grown, all))
<1>1. /\ grown[m] = tx /\ m \notin ids
      /\ \A i \in ids : grown[i] = book[i]
  BY GrownLedger
<1>2. /\ InReplayOrder(grown, all) = Append(txs, tx)
      /\ Preceding(grown, all, m) = ids
      /\ \A i \in ids : Preceding(grown, all, i) = Preceding(book, ids, i)
  BY OrderOfLedgerInOrder
<1>3. txs \in Seq(Transaction) /\ Len(txs) = N
  BY InOrder
<1>4. IsFiniteSet(ids) /\ N \in Nat /\ Cardinality(all) = N + 1
  BY <1>1, IdsOfLedger, FS_AddElement
<1>5. /\ \A n \in 0..N : heldNow[n] = held[n]
      /\ heldNow[N + 1] = ValidateTransaction(held[N], tx)
  <2>. HIDE DEF txs, all, N
  <2>. QED BY <1>2, <1>3, HeldOfAppend
<1>6. ASSUME NEW i \in ids
      PROVE  Cardinality(Preceding(book, ids, i)) \in 0..N
  BY <1>4, PrecedingFinite, FS_Subset
<1>7. ASSUME NEW i \in ids, book[i].symbol \in Symbols
      PROVE  Acceptable(book[i], held[Cardinality(Preceding(book, ids, i))][book[i].symbol])
  BY <1>7 DEF ReplayFindings, Acceptable
<1>8. ASSUME NEW i \in all, grown[i].symbol \in Symbols
      PROVE  Acceptable(grown[i], heldNow[Cardinality(Preceding(grown, all, i))][grown[i].symbol])
  <2>1. CASE i \in ids
    <3>. HIDE DEF all, N, held, heldNow
    <3>. QED BY <1>1, <1>2, <1>5, <1>6, <1>7, <1>8, <2>1
  <2>2. CASE i = m
    <3>1. N \in 0..N
      BY <1>4
    <3>2. heldNow[Cardinality(Preceding(grown, all, i))] = HeldAtEnd(book, ids)
      BY <1>2, <1>5, <2>2, <3>1 DEF HeldAtEnd
    <3>. QED BY <1>1, <1>8, <2>2, <3>2
  <2>. QED BY <2>1, <2>2
<1>9. ReplayFindings(grown, all) = {}
  <2>. HIDE DEF grown, all
  <2>. QED BY <1>8 DEF ReplayFindings, Acceptable
<1>10. HeldAtEnd(grown, all) = ValidateTransaction(HeldAtEnd(book, ids), tx)
  BY <1>4, <1>5 DEF HeldAtEnd
<1>. QED BY <1>9, <1>10

-----------------------------------------------------------------------------
(* Types.                                                                  *)

\* The type of the state, whatever has happened.
StateOK ==
  /\ ledger \in Seq(Transaction)
  /\ cash \in Int
  /\ items \subseteq Symbols
  /\ shares \in [Symbols -> Int]
  /\ pending \in [Clients -> Request]

StepOK == StateOK' /\ taints' \subseteq taints \union Taints

\* Record appends one well-formed row.
LEMMA RecordType ==
  ASSUME StateOK,
         NEW type \in CashTypes \union PositionTypes,
         NEW s \in Symbols \union {NoSymbol},
         NEW n \in Nat, NEW delta \in Int, NEW a \in Nat, NEW day \in Nat,
         NEW new \in SUBSET Taints,
         Record(type, s, n, delta, a, day, new)
  PROVE  /\ ledger' \in Seq(Transaction)
         /\ taints' \subseteq taints \union Taints
<1>1. [type |-> type, symbol |-> s, shares |-> n,
       delta |-> delta, amount |-> a, date |-> day] \in Transaction
  BY DEF Transaction
<1>2. ledger' \in Seq(Transaction)
  BY <1>1, AppendProperties DEF Record, StateOK, StepOK
<1>3. {t \in {"backdated"} : Backdated(day)} \subseteq Taints
  BY DEF Taints, HoldingTaints
<1>. QED BY <1>2, <1>3 DEF Record, StateOK, StepOK

\* Every step of the handlers keeps the types.
LEMMA TypeStep ==
  ASSUME StateOK, [Next]_vars
  PROVE  StepOK
<1>. /\ \A n \in Quantities : n \in Nat /\ n > 0
     /\ \A a \in Amounts : a \in Nat /\ a > 0
     /\ \A day \in Days : day \in Nat
  BY InputAssumption
<1>1. ASSUME NEW s \in Symbols, NEW n \in Quantities, NEW a \in Amounts, NEW day \in Days,
             NEW l \in Int, ExecuteBuy(s, n, a, day, l)
      PROVE  /\ ledger' \in Seq(Transaction) /\ cash' \in Int /\ items' \subseteq Symbols
             /\ shares' \in [Symbols -> Int] /\ taints' \subseteq taints \union Taints
  <2>1. {t \in {"stale_cash"} : l # cash} \in SUBSET Taints
    BY DEF Taints, CashTaints
  <2>2. ledger' \in Seq(Transaction) /\ taints' \subseteq taints \union Taints
    <3>1. Record("BUY", s, n, 0, a, day, {t \in {"stale_cash"} : l # cash})
      BY <1>1 DEF ExecuteBuy
    <3>2. /\ "BUY" \in CashTypes \union PositionTypes
          /\ s \in Symbols \union {NoSymbol}
          /\ n \in Nat /\ 0 \in Int /\ a \in Nat /\ day \in Nat
      BY DEF PositionTypes
    <3>. QED BY <2>1, <3>1, <3>2, RecordType
  <2>. QED BY <1>1, <2>2 DEF ExecuteBuy, AddShares, StateOK, StepOK
<1>2. ASSUME NEW s \in Symbols, NEW n \in Quantities, NEW a \in Amounts, NEW day \in Days,
             ExecuteInitialPosition(s, n, a, day)
      PROVE  /\ ledger' \in Seq(Transaction) /\ cash' \in Int /\ items' \subseteq Symbols
             /\ shares' \in [Symbols -> Int] /\ taints' \subseteq taints \union Taints
  <2>1. ledger' \in Seq(Transaction) /\ taints' \subseteq taints \union Taints
    <3>1. Record("INITIAL_POSITION", s, n, 0, a, day, {})
      BY <1>2 DEF ExecuteInitialPosition
    <3>2. /\ "INITIAL_POSITION" \in CashTypes \union PositionTypes
          /\ s \in Symbols \union {NoSymbol}
          /\ n \in Nat /\ 0 \in Int /\ a \in Nat /\ day \in Nat
          /\ {} \in SUBSET Taints
      BY DEF PositionTypes
    <3>. QED BY <3>1, <3>2, RecordType
  <2>. QED BY <1>2, <2>1 DEF ExecuteInitialPosition, AddShares, StateOK, StepOK
<1>3. ASSUME NEW type \in CashTypes, NEW s \in Symbols \union {NoSymbol},
             NEW a \in Amounts, NEW day \in Days,
             ExecuteInflow(type, s, a, day), UNCHANGED pending
      PROVE  StepOK
  <2>1. ledger' \in Seq(Transaction) /\ taints' \subseteq taints \union Taints
    <3>1. Record(type, s, 0, 0, a, day, {})
      BY <1>3 DEF ExecuteInflow
    <3>. QED BY <3>1, RecordType
  <2>. QED BY <1>3, <2>1 DEF ExecuteInflow, StateOK, StepOK
<1>4. ASSUME NEW s \in Symbols, NEW n \in Quantities, NEW a \in Amounts, NEW day \in Days,
             BuyAtOnce(s, n, a, day) \/ ImportAtOnce(s, n, a, day)
      PROVE  StepOK
  <2>1. cash \in Int
    BY DEF StateOK, StepOK
  <2>. QED BY <1>1, <1>2, <1>4, <2>1 DEF BuyAtOnce, ImportAtOnce, StateOK, StepOK
<1>5. ASSUME NEW s \in Symbols, NEW n \in Quantities, NEW a \in Amounts, NEW day \in Days,
             NEW remove \in BOOLEAN, Sell(s, n, a, day, remove)
      PROVE  StepOK
  <2>. DEFINE left == shares[s] - n
              new  == {t \in {"zero_row"} : left <= 0 /\ ~remove}
                        \union {t \in {"dust"} : LeavesDust(left)}
  <2>1. new \in SUBSET Taints
    BY DEF Taints, HoldingTaints
  <2>2. Record("SELL", s, n, 0, a, day, new)
    BY <1>5 DEF Sell
  <2>3. ledger' \in Seq(Transaction) /\ taints' \subseteq taints \union Taints
    <3>1. /\ "SELL" \in CashTypes \union PositionTypes
          /\ s \in Symbols \union {NoSymbol}
          /\ n \in Nat /\ 0 \in Int /\ a \in Nat /\ day \in Nat
      BY DEF PositionTypes
    <3>. HIDE DEF new
    <3>. QED BY <2>1, <2>2, <3>1, RecordType
  <2>. QED BY <1>5, <2>3 DEF Sell, StateOK, StepOK
<1>6. ASSUME NEW s \in Symbols, NEW n \in Quantities, NEW a \in Amounts, NEW day \in Days,
             NEW delta \in {n, -n}, NEW ownNote \in BOOLEAN,
             QuantityCorrection(s, delta, a, day, ownNote)
      PROVE  StepOK
  <2>. DEFINE size == IF delta < 0 THEN -delta ELSE delta
              left == shares[s] + delta
              new  == {t \in {"sign_lost"} : ownNote /\ delta < 0}
                        \union {t \in {"zero_row"} : left = 0}
                        \union {t \in {"dust"} : LeavesDust(left)}
  <2>1. new \in SUBSET Taints
    BY DEF Taints, HoldingTaints
  <2>2. size \in Nat /\ delta \in Int /\ (IF ownNote THEN size ELSE delta) \in Int
    OBVIOUS
  <2>3. Record("QUANTITY_CORRECTION", s, size, IF ownNote THEN size ELSE delta, a, day, new)
    BY <1>6 DEF QuantityCorrection
  <2>4. ledger' \in Seq(Transaction) /\ taints' \subseteq taints \union Taints
    BY <2>1, <2>2, <2>3, RecordType DEF PositionTypes
  <2>. QED BY <1>6, <2>2, <2>4 DEF QuantityCorrection, StateOK, StepOK
<1>7. ASSUME NEW a \in Amounts, NEW day \in Days, MoveCash(a, day)
      PROVE  StepOK
  <2>1. CASE Withdraw(a, day)
    <3>1. ledger' \in Seq(Transaction) /\ taints' \subseteq taints \union Taints
      <4>1. Record("WITHDRAW", NoSymbol, 0, 0, a, day, {})
        BY <2>1 DEF Withdraw
      <4>. QED BY <4>1, RecordType DEF CashTypes
    <3>. QED BY <2>1, <3>1 DEF Withdraw, StateOK, StepOK
  <2>2. CASE ~Withdraw(a, day)
    BY <1>3, <1>7, <2>2 DEF MoveCash, Deposit, InitialCash, Dividend, CashTypes
  <2>. QED BY <2>1, <2>2
<1>8. ASSUME NEW c \in Clients, Suspended(c)
      PROVE  StepOK
  <2>1. ASSUME NEW s \in Symbols, NEW op \in {"buy", "import"}, Suspend(c, op, s)
        PROVE  StepOK
    BY <2>1 DEF Suspend, StateOK, StepOK, Request
  <2>2. Idle \in Request
    BY DEF Idle, Request
  <2>3. ASSUME NEW n \in Quantities, NEW a \in Amounts, NEW day \in Days,
               FinishBuy(c, n, a, day) \/ FinishImport(c, n, a, day)
        PROVE  StepOK
    <3>1. pending[c].symbol \in Symbols /\ pending[c].cash \in Int
      BY <2>3 DEF StateOK, StepOK, Request, Idle, FinishBuy, FinishImport
    <3>2. pending' \in [Clients -> Request]
      BY <2>2, <2>3 DEF FinishBuy, FinishImport, Resume, StateOK, StepOK
    <3>3. CASE FinishBuy(c, n, a, day)
      BY <1>1, <3>1, <3>2, <3>3 DEF FinishBuy, StateOK, StepOK
    <3>4. CASE FinishImport(c, n, a, day)
      <4>1. cash' = cash
        BY <3>4 DEF FinishImport, ExecuteInitialPosition
      <4>. QED BY <1>2, <3>1, <3>2, <3>4, <4>1 DEF FinishImport, StateOK, StepOK
    <3>. QED BY <2>3, <3>3, <3>4
  <2>. QED BY <1>8, <2>1, <2>3 DEF Suspended, StartBuy, StartImport, StartAddHolding
<1>9. CASE Edit
  <2>1. ASSUME NEW v \in Amounts \union {0}, UpdateCash(v)
        PROVE  StepOK
    BY <2>1 DEF UpdateCash, StateOK, StepOK, Taints, CashTaints
  <2>2. ASSUME NEW s \in Symbols, RemoveHolding(s)
        PROVE  StepOK
    BY <2>2 DEF RemoveHolding, StateOK, StepOK, Taints, HoldingTaints
  <2>. QED BY <1>9, <2>1, <2>2 DEF Edit
<1>10. CASE UNCHANGED vars
  BY <1>10 DEF vars, StateOK, StepOK
<1>11. ASSUME NEW s \in Symbols, NEW n \in Quantities, NEW a \in Amounts, NEW day \in Days,
              Trade(s, n, a, day)
       PROVE  StepOK
  BY <1>4, <1>5, <1>6, <1>11 DEF Trade
<1>. QED BY <1>7, <1>8, <1>9, <1>10, <1>11 DEF Next

\* The type invariant of the handlers.
THEOREM TypeCorrect == Spec => []TypeOK
<1>1. Init => TypeOK
  BY NoSymbolAssumption DEF Init, TypeOK, Idle, Request
<1>2. TypeOK /\ [Next]_vars => TypeOK'
  BY TypeStep DEF TypeOK, StateOK, StepOK
<1>. QED BY <1>1, <1>2, PTL DEF Spec

-----------------------------------------------------------------------------
(* The oversell guard.                                                     *)

LEMMA ShortStep ==
  ASSUME StateOK, NeverShort, [Next]_vars
  PROVE  NeverShort'
<1>. /\ \A n \in Quantities : n \in Nat /\ n > 0
     /\ SellTolerance \in Nat
  BY InputAssumption, ToleranceAssumption
<1>1. ASSUME NEW s \in Symbols, NEW n \in Quantities, AddShares(s, n)
      PROVE  NeverShort'
  BY <1>1 DEF AddShares, NeverShort, StateOK
<1>2. ASSUME NEW s \in Symbols, NEW n \in Quantities, NEW a \in Amounts, NEW day \in Days,
             Trade(s, n, a, day)
      PROVE  NeverShort'
  <2>1. CASE BuyAtOnce(s, n, a, day) \/ ImportAtOnce(s, n, a, day)
    BY <1>1, <2>1 DEF BuyAtOnce, ExecuteBuy, ImportAtOnce, ExecuteInitialPosition
  <2>2. ASSUME NEW remove \in BOOLEAN, Sell(s, n, a, day, remove)
        PROVE  NeverShort'
    BY <2>2 DEF Sell, CoversSale, NeverShort, StateOK
  <2>3. ASSUME NEW delta \in {n, -n}, NEW ownNote \in BOOLEAN,
               QuantityCorrection(s, delta, a, day, ownNote)
        PROVE  NeverShort'
    BY <2>3 DEF QuantityCorrection, NeverShort, StateOK
  <2>. QED BY <1>2, <2>1, <2>2, <2>3 DEF Trade
<1>3. ASSUME NEW c \in Clients, Suspended(c)
      PROVE  NeverShort'
  <2>1. ASSUME NEW n \in Quantities, NEW a \in Amounts, NEW day \in Days,
               FinishBuy(c, n, a, day) \/ FinishImport(c, n, a, day)
        PROVE  NeverShort'
    <3>1. pending[c].symbol \in Symbols
      BY <2>1 DEF StateOK, Request, Idle, FinishBuy, FinishImport
    <3>2. AddShares(pending[c].symbol, n)
      BY <2>1 DEF FinishBuy, FinishImport, ExecuteBuy, ExecuteInitialPosition
    <3>. QED BY <1>1, <3>1, <3>2
  <2>2. CASE UNCHANGED <<items, shares>>
    BY <2>2 DEF NeverShort
  <2>. QED BY <1>3, <2>1, <2>2
           DEF Suspended, StartBuy, StartImport, StartAddHolding, Suspend
<1>4. ASSUME NEW a \in Amounts, NEW day \in Days, MoveCash(a, day)
      PROVE  NeverShort'
  BY <1>4 DEF MoveCash, Deposit, Withdraw, InitialCash, Dividend, ExecuteInflow, NeverShort
<1>5. CASE Edit
  BY <1>5 DEF Edit, UpdateCash, RemoveHolding, NeverShort, StateOK
<1>6. CASE UNCHANGED vars
  BY <1>6 DEF vars, NeverShort
<1>. QED BY <1>2, <1>3, <1>4, <1>5, <1>6 DEF Next

\* No interleaving of the handlers takes a position short by more than the
\* tolerance of one sale.
THEOREM NeverShortHolds == Spec => []NeverShort
<1>1. Init => NeverShort
  BY ToleranceAssumption DEF Init, NeverShort
<1>2. TypeOK /\ NeverShort /\ [Next]_vars => NeverShort'
  BY ShortStep DEF TypeOK, StateOK
<1>. QED BY <1>1, <1>2, TypeCorrect, PTL DEF Spec

-----------------------------------------------------------------------------
(* The stored state is a replay of the ledger.                             *)

\* A row always has shares in it: a correction finds its holding in the replay.
NoEmptyRow ==
  Untouched(HoldingTaints) => \A s \in items : shares[s] > 0

NoAliases == \A s, t \in Symbols : Canonical[s] = Canonical[t] => s = t

ValidatorTaints == HoldingTaints \union {"dust"}

\* The validator accepts the transaction and holds afterwards what is stored.
Validated(tx) ==
  /\ tx.symbol \in Symbols => Acceptable(tx, shares[tx.symbol])
  /\ shares' = ValidateTransaction(shares, tx)

\* What every step of the handlers does to the ledger and, with it, to the
\* stored portfolio: it records one transaction and stores its replay effect,
\* or records none and changes nothing that is still untouched.
StepRecords(tx) ==
  /\ ledger' = Append(ledger, tx)
  /\ Untouched(CashTaints)' => cash' = cash + CashEffect(tx)
  /\ Untouched(HoldingTaints)' =>
       /\ ~Backdated(tx.date)
       /\ \A s \in Symbols :
            shares'[s] = IF s = tx.symbol THEN HeldAfter(shares[s], tx) ELSE shares[s]
  /\ Untouched(ValidatorTaints)' => Validated(tx)
  /\ tx.type = "INITIAL_POSITION" => tx.symbol \in Symbols

StepRecordsNothing ==
  /\ ledger' = ledger
  /\ Untouched(CashTaints)' => cash' = cash
  /\ Untouched(HoldingTaints)' => shares' = shares

LEMMA RecordStep ==
  ASSUME NEW type, NEW s, NEW n, NEW delta, NEW a, NEW day, NEW new,
         Record(type, s, n, delta, a, day, new)
  PROVE  LET tx == [type |-> type, symbol |-> s, shares |-> n,
                    delta |-> delta, amount |-> a, date |-> day]
         IN  /\ ledger' = Append(ledger, tx)
             /\ taints \subseteq taints'
             /\ new \subseteq taints'
             /\ Untouched(HoldingTaints)' => ~Backdated(tx.date)
<1>1. Untouched(HoldingTaints)' => ~Backdated(day)
  BY DEF Record, Untouched, HoldingTaints
<1>. QED BY <1>1 DEF Record

LEMMA BuyStep ==
  ASSUME StateOK, NEW s \in Symbols, NEW n \in Quantities, NEW a \in Amounts,
         NEW day \in Days, NEW l \in Int, ExecuteBuy(s, n, a, day, l)
  PROVE  (\E tx \in Transaction : StepRecords(tx)) /\ taints \subseteq taints'
<1>. DEFINE tx == [type |-> "BUY", symbol |-> s, shares |-> n,
                   delta |-> 0, amount |-> a, date |-> day]
            stale == {t \in {"stale_cash"} : l # cash}
<1>0. n \in Nat /\ a \in Nat /\ day \in Nat
  BY InputAssumption
<1>1. tx \in Transaction
  BY <1>0 DEF Transaction, PositionTypes
<1>2. /\ ledger' = Append(ledger, tx) /\ taints \subseteq taints' /\ stale \subseteq taints'
      /\ Untouched(HoldingTaints)' => ~Backdated(tx.date)
  <2>1. Record("BUY", s, n, 0, a, day, stale)
    BY DEF ExecuteBuy
  <2>. QED BY <2>1, RecordStep
<1>3. Untouched(CashTaints)' => l = cash
  BY <1>2 DEF Untouched, CashTaints
<1>4. CashEffect(tx) = -a
  BY DEF CashEffect
<1>5. HeldAfter(shares[s], tx) = shares[s] + n
  BY DEF HeldAfter
<1>20. Validated(tx)
  <2>1. Acceptable(tx, shares[s]) /\ ValidatorHeldAfter(shares[s], tx) = shares[s] + n
    BY DEF Acceptable, SellWithoutHolding, NegativeBalance, ValidatorHeldAfter
  <2>. QED BY <2>1 DEF Validated, ValidateTransaction, ExecuteBuy, AddShares, StateOK
<1>6. StepRecords(tx)
  BY <1>0, <1>2, <1>3, <1>4, <1>5, <1>20 DEF StepRecords, ExecuteBuy, AddShares, StateOK
<1>. QED BY <1>1, <1>2, <1>6

LEMMA ImportStep ==
  ASSUME StateOK, NEW s \in Symbols, NEW n \in Quantities, NEW a \in Amounts,
         NEW day \in Days, ExecuteInitialPosition(s, n, a, day)
  PROVE  (\E tx \in Transaction : StepRecords(tx)) /\ taints \subseteq taints'
<1>. DEFINE tx == [type |-> "INITIAL_POSITION", symbol |-> s, shares |-> n,
                   delta |-> 0, amount |-> a, date |-> day]
<1>0. n \in Nat /\ a \in Nat /\ day \in Nat
  BY InputAssumption
<1>1. tx \in Transaction
  BY <1>0 DEF Transaction, PositionTypes
<1>2. /\ ledger' = Append(ledger, tx) /\ taints \subseteq taints'
      /\ Untouched(HoldingTaints)' => ~Backdated(tx.date)
  <2>1. Record("INITIAL_POSITION", s, n, 0, a, day, {})
    BY DEF ExecuteInitialPosition
  <2>. QED BY <2>1, RecordStep
<1>3. CashEffect(tx) = 0
  BY DEF CashEffect
<1>4. HeldAfter(shares[s], tx) = shares[s] + n
  BY DEF HeldAfter
<1>20. Validated(tx)
  <2>1. Acceptable(tx, shares[s]) /\ ValidatorHeldAfter(shares[s], tx) = shares[s] + n
    BY DEF Acceptable, SellWithoutHolding, NegativeBalance, ValidatorHeldAfter
  <2>. QED BY <2>1 DEF Validated, ValidateTransaction, ExecuteInitialPosition, AddShares, StateOK
<1>5. StepRecords(tx)
  BY <1>0, <1>2, <1>3, <1>4, <1>20 DEF StepRecords, ExecuteInitialPosition, AddShares, StateOK
<1>. QED BY <1>1, <1>2, <1>5

LEMMA InflowStep ==
  ASSUME StateOK, NEW type \in {"DEPOSIT", "DIVIDEND", "INITIAL_CASH"},
         NEW s \in Symbols \union {NoSymbol}, NEW a \in Amounts, NEW day \in Days,
         ExecuteInflow(type, s, a, day)
  PROVE  (\E tx \in Transaction : StepRecords(tx)) /\ taints \subseteq taints'
<1>. DEFINE tx == [type |-> type, symbol |-> s, shares |-> 0,
                   delta |-> 0, amount |-> a, date |-> day]
<1>0. a \in Nat /\ day \in Nat
  BY InputAssumption
<1>1. tx \in Transaction
  BY <1>0 DEF Transaction, CashTypes
<1>2. /\ ledger' = Append(ledger, tx) /\ taints \subseteq taints'
      /\ Untouched(HoldingTaints)' => ~Backdated(tx.date)
  <2>1. Record(type, s, 0, 0, a, day, {})
    BY DEF ExecuteInflow
  <2>. QED BY <2>1, RecordStep
<1>3. CashEffect(tx) = a
  BY DEF CashEffect
<1>4. \A h : HeldAfter(h, tx) = h
  BY DEF HeldAfter
<1>20. Validated(tx)
  <2>1. \A h : Acceptable(tx, h) /\ ValidatorHeldAfter(h, tx) = h
    BY DEF Acceptable, SellWithoutHolding, NegativeBalance, ValidatorHeldAfter
  <2>. QED BY <2>1 DEF Validated, ValidateTransaction, ExecuteInflow, StateOK
<1>5. StepRecords(tx)
  BY <1>0, <1>2, <1>3, <1>4, <1>20 DEF StepRecords, ExecuteInflow, StateOK
<1>. QED BY <1>1, <1>2, <1>5

LEMMA WithdrawStep ==
  ASSUME StateOK, NEW a \in Amounts, NEW day \in Days, Withdraw(a, day)
  PROVE  (\E tx \in Transaction : StepRecords(tx)) /\ taints \subseteq taints'
<1>. DEFINE tx == [type |-> "WITHDRAW", symbol |-> NoSymbol, shares |-> 0,
                   delta |-> 0, amount |-> a, date |-> day]
<1>0. a \in Nat /\ day \in Nat
  BY InputAssumption
<1>1. tx \in Transaction
  BY <1>0 DEF Transaction, CashTypes
<1>2. /\ ledger' = Append(ledger, tx) /\ taints \subseteq taints'
      /\ Untouched(HoldingTaints)' => ~Backdated(tx.date)
  <2>1. Record("WITHDRAW", NoSymbol, 0, 0, a, day, {})
    BY DEF Withdraw
  <2>. QED BY <2>1, RecordStep
<1>3. CashEffect(tx) = -a
  BY DEF CashEffect
<1>4. \A h : HeldAfter(h, tx) = h
  BY DEF HeldAfter
<1>20. Validated(tx)
  <2>1. \A h : Acceptable(tx, h) /\ ValidatorHeldAfter(h, tx) = h
    BY DEF Acceptable, SellWithoutHolding, NegativeBalance, ValidatorHeldAfter
  <2>. QED BY <2>1 DEF Validated, ValidateTransaction, Withdraw, StateOK
<1>5. StepRecords(tx)
  BY <1>0, <1>2, <1>3, <1>4, <1>20 DEF StepRecords, Withdraw, StateOK
<1>. QED BY <1>1, <1>2, <1>5

\* A sale stores FloorAtZero of what is left unless an empty row is kept.
LEMMA SellStep ==
  ASSUME StateOK, NoEmptyRow, NEW s \in Symbols, NEW n \in Quantities, NEW a \in Amounts,
         NEW day \in Days, NEW remove \in BOOLEAN, Sell(s, n, a, day, remove)
  PROVE  (\E tx \in Transaction : StepRecords(tx)) /\ taints \subseteq taints'
<1>. DEFINE tx == [type |-> "SELL", symbol |-> s, shares |-> n,
                   delta |-> 0, amount |-> a, date |-> day]
            left == shares[s] - n
            new == {t \in {"zero_row"} : left <= 0 /\ ~remove}
                     \union {t \in {"dust"} : LeavesDust(left)}
<1>0. n \in Nat /\ a \in Nat /\ day \in Nat /\ shares[s] \in Int
  BY InputAssumption DEF StateOK
<1>1. tx \in Transaction
  BY <1>0 DEF Transaction, PositionTypes
<1>2. /\ ledger' = Append(ledger, tx) /\ taints \subseteq taints' /\ new \subseteq taints'
      /\ Untouched(HoldingTaints)' => ~Backdated(tx.date)
  <2>1. Record("SELL", s, n, 0, a, day, new)
    BY DEF Sell
  <2>. HIDE DEF new
  <2>. QED BY <2>1, RecordStep
<1>3. CashEffect(tx) = a
  BY DEF CashEffect
<1>4. HeldAfter(shares[s], tx) = FloorAtZero(left)
  BY DEF HeldAfter
<1>5. Untouched(HoldingTaints)' => (left <= 0 => remove)
  BY <1>2 DEF Untouched, HoldingTaints
<1>6. Untouched(HoldingTaints)' => shares'[s] = FloorAtZero(left)
  BY <1>0, <1>5 DEF Sell, FloorAtZero, StateOK
<1>7. \A r \in Symbols \ {s} : shares'[r] = shares[r]
  BY DEF Sell, StateOK
<1>20. Untouched(ValidatorTaints)' => Validated(tx)
  <2>. SUFFICES ASSUME Untouched(ValidatorTaints)' PROVE Validated(tx)
    OBVIOUS
  <2>1. (left <= 0 => remove) /\ ~ LeavesDust(left)
    BY <1>2 DEF Untouched, ValidatorTaints, HoldingTaints
  <2>2. SellTolerance \in Nat /\ Dust \in Nat /\ SellTolerance <= Dust
    BY ToleranceAssumption
  <2>3. shares[s] > 0 /\ left >= -SellTolerance
    <3>1. \A t \in {"zero_row"} : t \notin taints
      BY <1>2 DEF Untouched, ValidatorTaints, HoldingTaints
    <3>2. Untouched(HoldingTaints)
      BY <1>2 DEF Untouched, ValidatorTaints
    <3>. QED BY <1>0, <2>2, <3>2 DEF NoEmptyRow, Sell, CoversSale
  <2>4. shares'[s] = WithoutDust(left)
    BY <1>0, <2>1, <2>2 DEF Sell, WithoutDust, LeavesDust, StateOK
  <2>5. ValidatorHeldAfter(shares[s], tx) = WithoutDust(left)
    BY <2>3 DEF ValidatorHeldAfter
  <2>6. Acceptable(tx, shares[s])
    BY <1>0, <2>2, <2>3 DEF Acceptable, SellWithoutHolding, NegativeBalance
  <2>7. shares' = [r \in Symbols |-> IF r = s THEN WithoutDust(left) ELSE shares[r]]
    BY <2>4 DEF Sell, StateOK
  <2>8. shares' = ValidateTransaction(shares, tx)
    BY <2>5, <2>7 DEF ValidateTransaction
  <2>. QED BY <2>6, <2>8 DEF Validated
<1>8. StepRecords(tx)
  BY <1>2, <1>3, <1>4, <1>6, <1>7, <1>20 DEF StepRecords, Sell
<1>. QED BY <1>1, <1>2, <1>8

\* A correction is replayed as it was stored when its holding has shares in it
\* and its sign survived.
LEMMA CorrectionStep ==
  ASSUME StateOK, NoEmptyRow, NEW s \in Symbols, NEW n \in Quantities, NEW a \in Amounts,
         NEW day \in Days, NEW delta \in {n, -n}, NEW ownNote \in BOOLEAN,
         QuantityCorrection(s, delta, a, day, ownNote)
  PROVE  (\E tx \in Transaction : StepRecords(tx)) /\ taints \subseteq taints'
<1>. DEFINE size == IF delta < 0 THEN -delta ELSE delta
            stored == IF ownNote THEN size ELSE delta
            tx == [type |-> "QUANTITY_CORRECTION", symbol |-> s, shares |-> size,
                   delta |-> stored, amount |-> a, date |-> day]
            left == shares[s] + delta
            new == {t \in {"sign_lost"} : ownNote /\ delta < 0}
                     \union {t \in {"zero_row"} : left = 0}
                     \union {t \in {"dust"} : LeavesDust(left)}
<1>0. /\ n \in Nat /\ a \in Nat /\ day \in Nat /\ shares[s] \in Int
      /\ size \in Nat /\ stored \in Int /\ delta \in Int
  BY InputAssumption DEF StateOK
<1>1. tx \in Transaction
  BY <1>0 DEF Transaction, PositionTypes
<1>2. /\ ledger' = Append(ledger, tx) /\ taints \subseteq taints' /\ new \subseteq taints'
      /\ Untouched(HoldingTaints)' => ~Backdated(tx.date)
  <2>1. Record("QUANTITY_CORRECTION", s, size, stored, a, day, new)
    BY DEF QuantityCorrection
  <2>. HIDE DEF new, size, stored
  <2>. QED BY <2>1, RecordStep
<1>3. CashEffect(tx) = 0
  BY DEF CashEffect
<1>4. HeldAfter(shares[s], tx) =
        IF shares[s] = 0 THEN 0 ELSE FloorAtZero(shares[s] + stored)
  BY DEF HeldAfter
<1>5. Untouched(HoldingTaints)' => stored = delta
  BY <1>2 DEF Untouched, HoldingTaints
<1>6. Untouched(HoldingTaints)' => shares[s] > 0
  BY <1>2 DEF Untouched, NoEmptyRow, QuantityCorrection
<1>7. left >= 0 /\ shares' = [shares EXCEPT ![s] = left]
  BY DEF QuantityCorrection
<1>8. Untouched(HoldingTaints)' => shares'[s] = HeldAfter(shares[s], tx)
  <2>. HIDE DEF stored, tx
  <2>. QED BY <1>0, <1>4, <1>5, <1>6, <1>7 DEF FloorAtZero, StateOK
<1>9. \A r \in Symbols \ {s} : shares'[r] = shares[r]
  BY <1>7 DEF StateOK
<1>10. cash' = cash + CashEffect(tx)
  BY <1>3 DEF QuantityCorrection, StateOK
<1>20. Untouched(ValidatorTaints)' => Validated(tx)
  <2>. SUFFICES ASSUME Untouched(ValidatorTaints)' PROVE Validated(tx)
    OBVIOUS
  <2>1. left # 0 /\ ~ LeavesDust(left) /\ Untouched(HoldingTaints)'
    BY <1>2 DEF Untouched, ValidatorTaints, HoldingTaints
  <2>2. Dust \in Nat
    BY ToleranceAssumption
  <2>3. stored = delta /\ shares[s] > 0
    BY <1>5, <1>6, <2>1
  <2>4. WithoutDust(left) = left /\ left >= 0
    BY <1>0, <1>7, <2>1, <2>2 DEF WithoutDust, LeavesDust
  <2>5. ValidatorHeldAfter(shares[s], tx) = left
    <3>1. tx.type = "QUANTITY_CORRECTION" /\ tx.delta = stored
      OBVIOUS
    <3>. HIDE DEF tx, stored
    <3>. QED BY <2>3, <2>4, <3>1 DEF ValidatorHeldAfter
  <2>6. Acceptable(tx, shares[s])
    <3>1. tx.type = "QUANTITY_CORRECTION" /\ tx.delta = stored
      OBVIOUS
    <3>. HIDE DEF tx, stored
    <3>. QED BY <1>0, <2>2, <2>3, <2>4, <3>1 DEF Acceptable, SellWithoutHolding, NegativeBalance
  <2>7. shares' = [r \in Symbols |-> IF r = s THEN left ELSE shares[r]]
    BY <1>7 DEF StateOK
  <2>8. shares' = ValidateTransaction(shares, tx)
    <3>1. tx.symbol = s
      OBVIOUS
    <3>. HIDE DEF tx, left
    <3>. QED BY <2>5, <2>7, <3>1 DEF ValidateTransaction
  <2>. QED BY <2>6, <2>8 DEF Validated
<1>11. StepRecords(tx)
  BY <1>2, <1>8, <1>9, <1>10, <1>20 DEF StepRecords
<1>. QED BY <1>1, <1>2, <1>11

\* Every step records one transaction as it will be replayed, or records none.
LEMMA LiveStep ==
  ASSUME StateOK, NoEmptyRow, [Next]_vars
  PROVE  /\ (\E tx \in Transaction : StepRecords(tx)) \/ StepRecordsNothing
         /\ taints \subseteq taints'
<1>0. cash \in Int
  BY DEF StateOK
<1>1. ASSUME NEW s \in Symbols, NEW n \in Quantities, NEW a \in Amounts, NEW day \in Days,
             Trade(s, n, a, day)
      PROVE  (\E tx \in Transaction : StepRecords(tx)) /\ taints \subseteq taints'
  BY <1>0, <1>1, BuyStep, ImportStep, SellStep, CorrectionStep
     DEF Trade, BuyAtOnce, ImportAtOnce
<1>2. ASSUME NEW a \in Amounts, NEW day \in Days, MoveCash(a, day)
      PROVE  (\E tx \in Transaction : StepRecords(tx)) /\ taints \subseteq taints'
  BY <1>2, InflowStep, WithdrawStep DEF MoveCash, Deposit, InitialCash, Dividend
<1>3. ASSUME NEW c \in Clients, Suspended(c)
      PROVE  /\ (\E tx \in Transaction : StepRecords(tx)) \/ StepRecordsNothing
             /\ taints \subseteq taints'
  <2>1. ASSUME NEW n \in Quantities, NEW a \in Amounts, NEW day \in Days,
               FinishBuy(c, n, a, day) \/ FinishImport(c, n, a, day)
        PROVE  (\E tx \in Transaction : StepRecords(tx)) /\ taints \subseteq taints'
    <3>1. pending[c].symbol \in Symbols /\ pending[c].cash \in Int
      BY <2>1 DEF StateOK, Request, Idle, FinishBuy, FinishImport
    <3>. QED BY <2>1, <3>1, BuyStep, ImportStep DEF FinishBuy, FinishImport
  <2>2. ASSUME UNCHANGED <<ledger, cash, items, shares, taints>>
        PROVE  StepRecordsNothing /\ taints \subseteq taints'
    BY <2>2 DEF StepRecordsNothing
  <2>. QED BY <1>3, <2>1, <2>2
           DEF Suspended, StartBuy, StartImport, StartAddHolding, Suspend
<1>4. CASE Edit
  <2>1. ASSUME NEW v, UpdateCash(v)
        PROVE  StepRecordsNothing /\ taints \subseteq taints'
    BY <2>1 DEF UpdateCash, StepRecordsNothing, Untouched, CashTaints
  <2>2. ASSUME NEW s \in Symbols, RemoveHolding(s)
        PROVE  StepRecordsNothing /\ taints \subseteq taints'
    BY <2>2 DEF RemoveHolding, StepRecordsNothing, Untouched, HoldingTaints
  <2>. QED BY <1>4, <2>1, <2>2 DEF Edit
<1>5. CASE UNCHANGED vars
  BY <1>5 DEF vars, StepRecordsNothing
<1>. QED BY <1>1, <1>2, <1>3, <1>4, <1>5 DEF Next

\* Rows stay non-empty while no empty row was kept.
LEMMA RowsStayFilled ==
  ASSUME StateOK, NeverShort, NoEmptyRow, taints \subseteq taints', [Next]_vars
  PROVE  NoEmptyRow'
<1>. SUFFICES ASSUME Untouched(HoldingTaints)'
              PROVE  \A s \in items' : shares'[s] > 0
  BY DEF NoEmptyRow
<1>. /\ \A n \in Quantities : n \in Nat /\ n > 0
  BY InputAssumption
<1>0. /\ \A s \in items : shares[s] > 0
      /\ \A s \in Symbols : shares[s] \in Int /\ (s \notin items => shares[s] = 0)
      /\ items \subseteq Symbols
  BY DEF NoEmptyRow, Untouched, StateOK, NeverShort
<1>1. ASSUME NEW s \in Symbols, NEW n \in Quantities, AddShares(s, n)
      PROVE  \A r \in items' : shares'[r] > 0
  BY <1>0, <1>1 DEF AddShares, StateOK
<1>2. ASSUME NEW s \in Symbols, NEW n \in Quantities, NEW a \in Amounts, NEW day \in Days,
             Trade(s, n, a, day)
      PROVE  \A r \in items' : shares'[r] > 0
  <2>1. CASE BuyAtOnce(s, n, a, day) \/ ImportAtOnce(s, n, a, day)
    BY <1>1, <2>1 DEF BuyAtOnce, ExecuteBuy, ImportAtOnce, ExecuteInitialPosition
  <2>2. ASSUME NEW remove \in BOOLEAN, Sell(s, n, a, day, remove)
        PROVE  \A r \in items' : shares'[r] > 0
    <3>1. shares[s] - n <= 0 => remove
      BY <2>2 DEF Sell, Record, Untouched, HoldingTaints
    <3>. QED BY <1>0, <2>2, <3>1 DEF Sell, StateOK
  <2>3. ASSUME NEW delta \in {n, -n}, NEW ownNote \in BOOLEAN,
               QuantityCorrection(s, delta, a, day, ownNote)
        PROVE  \A r \in items' : shares'[r] > 0
    <3>1. shares[s] + delta # 0
      BY <2>3 DEF QuantityCorrection, Record, Untouched, HoldingTaints
    <3>. QED BY <1>0, <2>3, <3>1 DEF QuantityCorrection, StateOK
  <2>. QED BY <1>2, <2>1, <2>2, <2>3 DEF Trade
<1>3. ASSUME NEW c \in Clients, Suspended(c)
      PROVE  \A r \in items' : shares'[r] > 0
  <2>1. ASSUME NEW n \in Quantities, NEW a \in Amounts, NEW day \in Days,
               FinishBuy(c, n, a, day) \/ FinishImport(c, n, a, day)
        PROVE  \A r \in items' : shares'[r] > 0
    <3>1. pending[c].symbol \in Symbols
      BY <2>1 DEF StateOK, Request, Idle, FinishBuy, FinishImport
    <3>2. AddShares(pending[c].symbol, n)
      BY <2>1 DEF FinishBuy, FinishImport, ExecuteBuy, ExecuteInitialPosition
    <3>. QED BY <1>1, <3>1, <3>2
  <2>2. CASE UNCHANGED <<items, shares>>
    BY <1>0, <2>2
  <2>. QED BY <1>3, <2>1, <2>2
           DEF Suspended, StartBuy, StartImport, StartAddHolding, Suspend
<1>4. ASSUME NEW a \in Amounts, NEW day \in Days, MoveCash(a, day)
      PROVE  \A r \in items' : shares'[r] > 0
  BY <1>0, <1>4 DEF MoveCash, Deposit, Withdraw, InitialCash, Dividend, ExecuteInflow
<1>5. CASE Edit
  BY <1>0, <1>5 DEF Edit, UpdateCash, RemoveHolding, StateOK
<1>6. CASE UNCHANGED vars
  BY <1>0, <1>6 DEF vars
<1>. QED BY <1>2, <1>3, <1>4, <1>5, <1>6 DEF Next

\* The replay of a recorded transaction keeps the replayed balance, and the
\* replayed holdings, and the stored ones together; the holdings when no two
\* symbols share a replay key.
LEMMA CashFollows ==
  ASSUME StateOK, NEW tx \in Transaction, ledger' = Append(ledger, tx),
         cash' = cash + CashEffect(tx), NEW excluded, excluded \subseteq DOMAIN ledger,
         cash = ReplayOf(ledger, excluded).cash
  PROVE  cash' = ReplayOf(ledger', excluded).cash
<1>1. ledger \in Seq(Transaction)
  BY DEF StateOK
<1>2. Len(ledger) + 1 \notin excluded
  BY <1>1, GrownLedger
<1>. QED BY <1>1, <1>2, ReplayOfGrownLedger

LEMMA HoldingsFollow ==
  ASSUME NoAliases, StateOK, NEW tx \in Transaction, ledger' = Append(ledger, tx),
         ~ Backdated(tx.date),
         \A s \in Symbols :
           shares'[s] = IF s = tx.symbol THEN HeldAfter(shares[s], tx) ELSE shares[s],
         NEW excluded, excluded \subseteq DOMAIN ledger,
         \A s \in Symbols : shares[s] = ReplayOf(ledger, excluded).held[Canonical[s]]
  PROVE  \A s \in Symbols : shares'[s] = ReplayOf(ledger', excluded).held[Canonical[s]]
<1>1. ledger \in Seq(Transaction)
  BY DEF StateOK
<1>2. Len(ledger) + 1 \notin excluded
  BY <1>1, GrownLedger
<1>3. NoneLater(ledger, DOMAIN ledger, tx)
  <2>1. \A i \in DOMAIN ledger : ledger[i].date \in Nat
    BY <1>1, IdsOfLedger
  <2>2. tx.date \in Nat
    BY DEF Transaction
  <2>. QED BY <2>1, <2>2 DEF Backdated, NoneLater
<1>. DEFINE p == ReplayOf(ledger, excluded)
<1>4. ReplayOf(ledger', excluded) = ApplyTransaction(p, tx)
  BY <1>1, <1>2, <1>3, ReplayOfGrownLedger
<1>. HIDE DEF p
<1>5. ASSUME NEW s \in Symbols
      PROVE  ApplyTransaction(p, tx).held[Canonical[s]] = shares'[s]
  <2>1. Canonical[s] \in Symbols
    BY CanonicalAssumption
  <2>2. ApplyTransaction(p, tx).held[Canonical[s]] =
          IF tx.symbol \in Symbols /\ Canonical[s] = Canonical[tx.symbol]
          THEN HeldAfter(p.held[Canonical[s]], tx) ELSE p.held[Canonical[s]]
    BY <2>1 DEF ApplyTransaction
  <2>3. p.held[Canonical[s]] = shares[s]
    BY DEF p
  <2>4. (tx.symbol \in Symbols /\ Canonical[s] = Canonical[tx.symbol]) <=> s = tx.symbol
    BY DEF NoAliases
  <2>. QED BY <2>2, <2>3, <2>4
<1>. QED BY <1>4, <1>5

\* What the validator holds after the ledger is what is stored, and it has
\* found nothing.
Validates ==
  Untouched(ValidatorTaints) =>
    /\ ReplayFindings(ledger, DOMAIN ledger) = {}
    /\ HeldAtEnd(ledger, DOMAIN ledger) = shares

LEMMA ValidationFollows ==
  ASSUME StateOK, NEW tx \in Transaction, ledger' = Append(ledger, tx),
         ~ Backdated(tx.date), Validated(tx),
         ReplayFindings(ledger, DOMAIN ledger) = {},
         HeldAtEnd(ledger, DOMAIN ledger) = shares
  PROVE  /\ ReplayFindings(ledger', DOMAIN ledger') = {}
         /\ HeldAtEnd(ledger', DOMAIN ledger') = shares'
<1>1. ledger \in Seq(Transaction)
  BY DEF StateOK
<1>2. NoneLater(ledger, DOMAIN ledger, tx)
  <2>1. \A i \in DOMAIN ledger : ledger[i].date \in Nat
    BY <1>1, IdsOfLedger
  <2>2. tx.date \in Nat
    BY DEF Transaction
  <2>. QED BY <2>1, <2>2 DEF Backdated, NoneLater
<1>3. tx.symbol \in Symbols => Acceptable(tx, HeldAtEnd(ledger, DOMAIN ledger)[tx.symbol])
  BY DEF Validated
<1>4. DOMAIN ledger' = DOMAIN ledger \union {Len(ledger) + 1}
  BY <1>1, GrownLedger
<1>5. shares' = ValidateTransaction(shares, tx)
  BY DEF Validated
<1>. DEFINE ids == DOMAIN ledger
            now == ids \union {Len(ledger) + 1}
<1>6. /\ ReplayFindings(Append(ledger, tx), now) = {}
      /\ HeldAtEnd(Append(ledger, tx), now) = ValidateTransaction(HeldAtEnd(ledger, ids), tx)
  BY <1>1, <1>2, <1>3, FindingsOfGrownLedger
<1>7. DOMAIN ledger' = now /\ HeldAtEnd(ledger, ids) = shares
  BY <1>4
<1>. HIDE DEF ids, now
<1>. QED BY <1>5, <1>6, <1>7

\* At first the ledger is empty, and so are both replays of it.
LEMMA EmptyLedger ==
  ASSUME ledger = <<>>
  PROVE  /\ \A excluded : ReplayOf(ledger, excluded) = EmptyPortfolio
         /\ ReplayFindings(ledger, DOMAIN ledger) = {}
         /\ HeldAtEnd(ledger, DOMAIN ledger) = NothingHeld
<1>1. ledger \in Seq(Transaction) /\ DOMAIN ledger = {}
  OBVIOUS
<1>2. Cardinality({}) = 0
  BY FS_EmptySet
<1>3. InReplayOrder(ledger, {}) \in Seq(Transaction) /\ Len(InReplayOrder(ledger, {})) = 0
  BY <1>1, <1>2, InOrder
<1>4. Replay(InReplayOrder(ledger, {})) = EmptyPortfolio
  <2>1. PICK f : ReplayTrace(f, InReplayOrder(ledger, {}))
    BY <1>3, TraceExists
  <2>. QED BY <1>3, <2>1, ReplayIsTraced DEF ReplayTrace
<1>5. \A excluded : ReplayOf(ledger, excluded) = EmptyPortfolio
  BY <1>1, <1>4 DEF ReplayOf
<1>6. ReplayFindings(ledger, DOMAIN ledger) = {}
  BY <1>1 DEF ReplayFindings
<1>7. HeldAtEnd(ledger, DOMAIN ledger) = NothingHeld
  BY <1>1, <1>2, <1>3, HeldIsTraced DEF HeldAtEnd, ValidatorTrace
<1>. QED BY <1>5, <1>6, <1>7

\* The audit's sum is the replayed cash, in whichever order the entries are dated.
AuditInOrder == LedgerCash(ledger) = ReplayOf(ledger, {}).cash

LEMMA AuditFollows ==
  ASSUME StateOK, NEW tx \in Transaction, ledger' = Append(ledger, tx), AuditInOrder
  PROVE  AuditInOrder'
<1>1. ledger \in Seq(Transaction) /\ ledger' \in Seq(Transaction)
  BY AppendProperties DEF StateOK
<1>2. LedgerCash(ledger') = LedgerCash(ledger) + CashEffect(tx)
  <2>1. LedgerCash(ledger') = Replay(ledger').cash /\ LedgerCash(ledger) = Replay(ledger).cash
    BY <1>1, LedgerCashIsReplayed
  <2>2. Replay(ledger') = ApplyTransaction(Replay(ledger), tx)
    BY <1>1, ReplayOfAppend
  <2>. QED BY <2>1, <2>2, CashOfApply
<1>3. DOMAIN ledger \ {} = DOMAIN ledger /\ DOMAIN ledger' \ {} = DOMAIN ledger \union {Len(ledger) + 1}
  BY <1>1, GrownLedger
<1>4. ReplayOf(ledger', {}).cash = ReplayOf(ledger, {}).cash + CashEffect(tx)
  BY <1>1, <1>3, CashOfGrownLedger DEF ReplayOf
<1>. QED BY <1>2, <1>4 DEF AuditInOrder

\* The inductive invariant: no row is empty, so a correction finds its holding
\* in the replay and a sale in the validator's.
LedgerInv ==
  /\ TypeOK /\ NeverShort /\ NoEmptyRow
  /\ CashMatchesReplay /\ AuditInOrder /\ Validates

\* So neither audit complains: shares of rows are positive, shares without a row
\* are none, and the validator holds what is stored.
LEMMA AuditsPassOfInv ==
  ASSUME LedgerInv
  PROVE  AuditsPass
<1>1. LedgerCash(ledger) = ReplayOf(ledger, {}).cash
  BY DEF LedgerInv, AuditInOrder
<1>2. "cash_ledger" \in AuditFindings <=> CashMismatch
  BY <1>1 DEF AuditFindings, CashMismatch
<1>3. Untouched(CashTaints) => "cash_ledger" \notin AuditFindings
  BY <1>1 DEF LedgerInv, CashMatchesReplay, AuditFindings
<1>4. Untouched(HoldingTaints) => "negative_shares" \notin AuditFindings
  <2>. SUFFICES ASSUME Untouched(HoldingTaints)
                PROVE  ~ \E s \in items : shares[s] <= 0
    BY DEF AuditFindings
  <2>1. \A s \in items : s \in Symbols /\ shares[s] \in Int /\ shares[s] > 0
    BY DEF LedgerInv, TypeOK, NoEmptyRow
  <2>. QED BY <2>1
<1>5. Untouched(ValidatorTaints) => DriftedSymbols = {}
  <2>. SUFFICES ASSUME Untouched(ValidatorTaints) PROVE DriftedSymbols = {}
    OBVIOUS
  <2>1. Untouched(HoldingTaints)
    BY DEF Untouched, ValidatorTaints
  <2>2. DriftedSymbols = HoldingsMismatches(items, shares, shares)
    BY DEF LedgerInv, Validates, HeldAtEnd, DriftedSymbols
  <2>3. \A s \in Symbols : shares[s] \in Int /\ (s \in items <=> shares[s] > 0)
    BY <2>1 DEF LedgerInv, TypeOK, NoEmptyRow, NeverShort
  <2>4. \A n \in Int : ~ Apart(n, n)
    BY ToleranceAssumption DEF Apart
  <2>. QED BY <2>2, <2>3, <2>4 DEF HoldingsMismatches
<1>. QED BY <1>2, <1>3, <1>4, <1>5 DEF AuditsPass, ValidatorTaints

\* The balance the handlers store is the one the rebuilder replays, and the
\* validator and the audits find nothing in what they wrote: for every
\* interleaving of requests, any dates, and any canonical forms of the symbols.
THEOREM CashAndFindings ==
  Spec => [](CashMatchesReplay /\ ReplayableLedger /\ AuditsPass)
<1>1. Init => LedgerInv
  <2>. SUFFICES ASSUME Init PROVE LedgerInv
    OBVIOUS
  <2>1. TypeOK
    BY DEF Init, TypeOK, Idle, Request
  <2>2. CashMatchesReplay
    BY EmptyLedger DEF Init, CashMatchesReplay, EmptyPortfolio
  <2>3. Validates
    BY EmptyLedger DEF Init, Validates, NothingHeld
  <2>4. NeverShort /\ NoEmptyRow
    BY ToleranceAssumption DEF Init, NeverShort, NoEmptyRow
  <2>5. AuditInOrder
    <3>1. ledger \in Seq(Transaction) /\ Len(ledger) = 0
      BY DEF Init
    <3>2. PICK f : ReplayTrace(f, ledger)
      BY <3>1, TraceExists
    <3>3. Replay(ledger) = f[Len(ledger)] /\ f[0] = EmptyPortfolio
      BY <3>1, <3>2, ReplayIsTraced DEF ReplayTrace
    <3>4. LedgerCash(ledger) = EmptyPortfolio.cash
      BY <3>1, <3>3, LedgerCashIsReplayed
    <3>5. ReplayOf(ledger, {}) = EmptyPortfolio
      BY EmptyLedger DEF Init
    <3>. QED BY <3>4, <3>5 DEF AuditInOrder
  <2>. QED BY <2>1, <2>2, <2>3, <2>4, <2>5 DEF LedgerInv
<1>2. ASSUME LedgerInv, TypeOK', NeverShort', [Next]_vars
      PROVE  LedgerInv'
  <2>0. StateOK
    BY <1>2 DEF LedgerInv, TypeOK, StateOK
  <2>1. /\ (\E tx \in Transaction : StepRecords(tx)) \/ StepRecordsNothing
        /\ taints \subseteq taints'
    BY <1>2, <2>0, LiveStep DEF LedgerInv
  <2>2. NoEmptyRow'
    BY <1>2, <2>0, <2>1, RowsStayFilled DEF LedgerInv
  <2>3. /\ Untouched(CashTaints)' => Untouched(CashTaints)
        /\ Untouched(ValidatorTaints)' => Untouched(ValidatorTaints)
        /\ Untouched(ValidatorTaints)' => Untouched(HoldingTaints)'
    BY <2>1 DEF Untouched, ValidatorTaints
  <2>4. ASSUME NEW tx \in Transaction, StepRecords(tx)
        PROVE  CashMatchesReplay' /\ AuditInOrder' /\ Validates'
    <3>0. AuditInOrder'
      BY <1>2, <2>0, <2>4, AuditFollows DEF LedgerInv, StepRecords
    <3>1. CashMatchesReplay'
      <4>. SUFFICES ASSUME Untouched(CashTaints)' PROVE cash' = ReplayOf(ledger', {}).cash
        BY DEF CashMatchesReplay
      <4>. QED BY <1>2, <2>0, <2>3, <2>4, CashFollows DEF LedgerInv, CashMatchesReplay, StepRecords
    <3>2. Validates'
      <4>. SUFFICES ASSUME Untouched(ValidatorTaints)'
                    PROVE  /\ ReplayFindings(ledger', DOMAIN ledger') = {}
                           /\ HeldAtEnd(ledger', DOMAIN ledger') = shares'
        BY DEF Validates
      <4>. QED BY <1>2, <2>0, <2>3, <2>4, ValidationFollows DEF LedgerInv, Validates, StepRecords
    <3>. QED BY <3>0, <3>1, <3>2
  <2>5. ASSUME StepRecordsNothing
        PROVE  CashMatchesReplay' /\ AuditInOrder' /\ Validates'
    BY <1>2, <2>3, <2>5
       DEF StepRecordsNothing, LedgerInv, CashMatchesReplay, AuditInOrder, Validates
  <2>6. CashMatchesReplay' /\ AuditInOrder' /\ Validates'
    BY <2>1, <2>4, <2>5
  <2>. QED BY <1>2, <2>2, <2>6 DEF LedgerInv
<1>3. LedgerInv => CashMatchesReplay /\ ReplayableLedger /\ AuditsPass
  BY AuditsPassOfInv DEF LedgerInv, Validates, ReplayableLedger, ValidatorTaints
<1>. QED BY <1>1, <1>2, <1>3, TypeCorrect, NeverShortHolds, PTL DEF Spec

\* The stored portfolio is what the rebuilder and the validator make of the
\* ledger, when no two symbols share a replay key.
THEOREM PortfolioIsReplayed ==
  ASSUME NoAliases
  PROVE  Spec => []PortfolioMatchesReplay
<1>. DEFINE Inv == TypeOK /\ NeverShort /\ NoEmptyRow /\ HoldingsMatchReplay
<1>1. Init => Inv
  <2>. SUFFICES ASSUME Init PROVE Inv
    OBVIOUS
  <2>1. TypeOK
    BY DEF Init, TypeOK, Idle, Request
  <2>2. HoldingsMatchReplay
    BY EmptyLedger, CanonicalAssumption DEF Init, HoldingsMatchReplay, EmptyPortfolio
  <2>3. NeverShort /\ NoEmptyRow
    BY ToleranceAssumption DEF Init, NeverShort, NoEmptyRow
  <2>. QED BY <2>1, <2>2, <2>3
<1>2. ASSUME Inv, TypeOK', NeverShort', [Next]_vars
      PROVE  Inv'
  <2>0. StateOK
    BY <1>2 DEF TypeOK, StateOK
  <2>1. /\ (\E tx \in Transaction : StepRecords(tx)) \/ StepRecordsNothing
        /\ taints \subseteq taints'
    BY <1>2, <2>0, LiveStep
  <2>2. NoEmptyRow'
    BY <1>2, <2>0, <2>1, RowsStayFilled
  <2>3. Untouched(HoldingTaints)' => Untouched(HoldingTaints)
    BY <2>1 DEF Untouched
  <2>4. ASSUME NEW tx \in Transaction, StepRecords(tx)
        PROVE  HoldingsMatchReplay'
    <3>. SUFFICES ASSUME Untouched(HoldingTaints)'
                  PROVE  \A s \in Symbols :
                           shares'[s] = ReplayOf(ledger', {}).held[Canonical[s]]
      BY DEF HoldingsMatchReplay
    <3>. QED BY <1>2, <2>0, <2>3, <2>4, HoldingsFollow DEF HoldingsMatchReplay, StepRecords
  <2>5. ASSUME StepRecordsNothing
        PROVE  HoldingsMatchReplay'
    BY <1>2, <2>3, <2>5 DEF StepRecordsNothing, HoldingsMatchReplay
  <2>6. HoldingsMatchReplay'
    BY <2>1, <2>4, <2>5
  <2>. QED BY <1>2, <2>2, <2>6
<1>. QED BY <1>1, <1>2, CashAndFindings, TypeCorrect, NeverShortHolds, PTL
         DEF Spec, PortfolioMatchesReplay

all == <<web, admin>>

-----------------------------------------------------------------------------
(* What every command keeps.                                               *)

\* The ledger only grows, by one transaction at a time.
Grows ==
  \/ ledger' = ledger
  \/ \E tx \in Transaction :
       /\ ledger' = Append(ledger, tx)
       /\ tx.type = "INITIAL_POSITION" => tx.symbol \in Symbols

\* Every import names its symbol.
ImportsNamed ==
  \A i \in DOMAIN ledger :
    ledger[i].type = "INITIAL_POSITION" => ledger[i].symbol \in Symbols

IsRebuild(r) ==
  \E phase, upTo, excluded, balance, planned, rows :
    r = [phase |-> phase, upTo |-> upTo, excluded |-> excluded, cash |-> balance,
         planned |-> planned, rows |-> rows]

\* A rebuild has loaded a beginning of the ledger.
RebuildOK ==
  /\ IsRebuild(rebuild)
  /\ rebuild.upTo \in Nat
  /\ rebuild.upTo <= Len(ledger)

\* A plan names transactions of the ledger it was generated from.
PlanOK(p) ==
  /\ p.upTo \in Nat
  /\ p.upTo <= Len(ledger)
  /\ p.ids \subseteq 1..p.upTo

BaseInv ==
  /\ StateOK
  /\ NeverShort
  /\ NoEmptyRow
  /\ ImportsNamed
  /\ repairs \subseteq DOMAIN ledger
  /\ RebuildOK
  /\ PlanOK(plan)
  /\ PlanOK(applying.plan)

Final == Replay(InReplayOrder(ledger, LoadedIds))

LEMMA LoadedInLedger ==
  ASSUME StateOK, RebuildOK
  PROVE  /\ LoadedIds \in SUBSET DOMAIN ledger
         /\ IsPortfolio(Final)
<1>1. ledger \in Seq(Transaction) /\ DOMAIN ledger = 1..Len(ledger) /\ Len(ledger) \in Nat
  BY LenProperties DEF StateOK
<1>2. LoadedIds \in SUBSET DOMAIN ledger
  BY <1>1 DEF LoadedIds, RebuildOK
<1>3. InReplayOrder(ledger, LoadedIds) \in Seq(Transaction)
  BY <1>1, <1>2, InOrder
<1>. QED BY <1>2, <1>3, ReplayType DEF Final

LEMMA NoRebuildRecord == IsRebuild(NoRebuild)
BY DEF NoRebuild, IsRebuild

\* What a command leaves to the handlers: either the step is theirs, or the
\* ledger is not touched.
LEMMA StepGrows ==
  ASSUME StateOK, NoEmptyRow, [RebuildNext]_all
  PROVE  Grows
<1>1. CASE [Next]_vars
  BY <1>1, LiveStep DEF Grows, StepRecords, StepRecordsNothing
<1>2. CASE UNCHANGED ledger
  BY <1>2 DEF Grows
<1>. QED
  BY <1>1, <1>2
     DEF RebuildNext, RebuildCommand, RepairCommand, LoadForRebuild, ValidateForRebuild,
         CommitRebuild, AbandonRebuild, GeneratePlan, StartApply, CommitPlan, AbandonPlan,
         web, all

LEMMA GrownStays ==
  ASSUME StateOK, Grows
  PROVE  /\ DOMAIN ledger \subseteq DOMAIN ledger'
         /\ \A i \in DOMAIN ledger : ledger'[i] = ledger[i]
         /\ Len(ledger) \in Nat /\ Len(ledger') \in Nat /\ Len(ledger) <= Len(ledger')
         /\ ledger' # ledger => Len(ledger) < Len(ledger')
         /\ ledger' \in Seq(Transaction)
         /\ ImportsNamed => ImportsNamed'
         /\ \A ids \in SUBSET DOMAIN ledger :
              InReplayOrder(ledger', ids) = InReplayOrder(ledger, ids)
<1>1. ledger \in Seq(Transaction) /\ Len(ledger) \in Nat
  BY LenProperties DEF StateOK
<1>2. CASE ledger' = ledger
  BY <1>1, <1>2 DEF ImportsNamed
<1>3. ASSUME NEW tx \in Transaction, ledger' = Append(ledger, tx),
             tx.type = "INITIAL_POSITION" => tx.symbol \in Symbols
      PROVE  /\ DOMAIN ledger \subseteq DOMAIN ledger'
             /\ \A i \in DOMAIN ledger : ledger'[i] = ledger[i]
             /\ Len(ledger') = Len(ledger) + 1
             /\ ledger' \in Seq(Transaction)
             /\ ImportsNamed => ImportsNamed'
             /\ \A ids \in SUBSET DOMAIN ledger :
                  InReplayOrder(ledger', ids) = InReplayOrder(ledger, ids)
  <2>1. /\ ledger' \in Seq(Transaction)
        /\ DOMAIN ledger' = DOMAIN ledger \union {Len(ledger) + 1}
        /\ ledger'[Len(ledger) + 1] = tx
        /\ \A i \in DOMAIN ledger : ledger'[i] = ledger[i]
        /\ Len(ledger') = Len(ledger) + 1
    BY <1>1, <1>3, GrownLedger, AppendProperties
  <2>2. ImportsNamed => ImportsNamed'
    BY <1>3, <2>1 DEF ImportsNamed
  <2>3. \A ids \in SUBSET DOMAIN ledger :
          InReplayOrder(ledger', ids) = InReplayOrder(ledger, ids)
    BY <1>1, <1>3, OrderOfGrownLedger
  <2>. QED BY <2>1, <2>2, <2>3
<1>. QED BY <1>1, <1>2, <1>3 DEF Grows

\* What the validation stage adds to what was loaded.
LEMMA ValidationStep ==
  ASSUME RebuildOK, ValidateForRebuild
  PROVE  \/ rebuild' = NoRebuild
         \/ /\ IsRebuild(rebuild')
            /\ rebuild'.phase = "validated"
            /\ rebuild'.planned = PlannedOperations(Final)
            /\ rebuild'.rows = <<items, shares>>
            /\ rebuild'.upTo = rebuild.upTo
            /\ rebuild'.excluded = rebuild.excluded
            /\ rebuild'.cash = rebuild.cash
            /\ Gate(rebuild.excluded)
<1>. DEFINE planned == PlannedOperations(Final)
            rows == <<items, shares>>
<1>1. \/ rebuild' = NoRebuild
      \/ /\ rebuild' = [rebuild EXCEPT !.phase = "validated", !.planned = planned, !.rows = rows]
         /\ Gate(rebuild.excluded)
  BY DEF ValidateForRebuild, Final
<1>2. IsRebuild(rebuild)
  BY DEF RebuildOK
<1>. HIDE DEF planned, rows
<1>3. ASSUME rebuild' = [rebuild EXCEPT !.phase = "validated", !.planned = planned, !.rows = rows]
      PROVE  /\ IsRebuild(rebuild')
             /\ rebuild'.phase = "validated" /\ rebuild'.planned = planned
             /\ rebuild'.rows = rows
             /\ rebuild'.upTo = rebuild.upTo /\ rebuild'.excluded = rebuild.excluded
             /\ rebuild'.cash = rebuild.cash
  <2>1. PICK f, u, e, b, p, w :
          rebuild = [phase |-> f, upTo |-> u, excluded |-> e, cash |-> b,
                     planned |-> p, rows |-> w]
    BY <1>2 DEF IsRebuild
  <2>2. rebuild' = [phase |-> "validated", upTo |-> u, excluded |-> e, cash |-> b,
                    planned |-> planned, rows |-> rows]
    BY <1>3, <2>1
  <2>. QED BY <2>1, <2>2 DEF IsRebuild
<1>. QED BY <1>1, <1>3 DEF planned, rows

\* A new plan excludes transactions of the ledger.
LEMMA PlanNamesLedger ==
  ASSUME StateOK, NEW effective \in BOOLEAN, GeneratePlan(effective)
  PROVE  plan'.ids \subseteq DOMAIN ledger /\ plan'.upTo = Len(ledger)
<1>. DEFINE ids == IF effective THEN DOMAIN ledger \ repairs ELSE DOMAIN ledger
            groups == DuplicateGroups(ledger, ids) \union FingerprintGroups(ledger, ids)
            new == (UNION {Duplicates(g) : g \in groups}) \ repairs
<1>1. \A g \in DuplicateGroups(ledger, ids) : g \subseteq ids
  BY DEF DuplicateGroups, InitialPositionGroup
<1>2. \A g \in FingerprintGroups(ledger, ids) : g \subseteq ids
  BY DEF FingerprintGroups
<1>3. plan' = [ids |-> new, upTo |-> Len(ledger)]
  BY DEF GeneratePlan, Repairable
<1>4. ids \subseteq DOMAIN ledger
  OBVIOUS
<1>. HIDE DEF ids
<1>5. new \subseteq ids
  BY <1>1, <1>2 DEF Duplicates
<1>. HIDE DEF new
<1>. QED BY <1>3, <1>4, <1>5

LEMMA BaseStep ==
  ASSUME BaseInv, [RebuildNext]_all
  PROVE  BaseInv'
<1>1. /\ StateOK /\ NeverShort /\ NoEmptyRow /\ ImportsNamed /\ RebuildOK
      /\ repairs \subseteq DOMAIN ledger /\ PlanOK(plan) /\ PlanOK(applying.plan)
  BY DEF BaseInv
<1>2. Grows
  BY <1>1, StepGrows
<1>3. /\ DOMAIN ledger \subseteq DOMAIN ledger' /\ ImportsNamed'
      /\ Len(ledger) \in Nat /\ Len(ledger') \in Nat /\ Len(ledger) <= Len(ledger')
  BY <1>1, <1>2, GrownStays
<1>4. DOMAIN ledger = 1..Len(ledger)
  BY <1>1, LenProperties DEF StateOK
<1>5. CASE Next /\ UNCHANGED admin
  <2>1. StateOK' /\ NeverShort'
    BY <1>1, <1>5, TypeStep, ShortStep DEF StepOK
  <2>2. NoEmptyRow'
    <3>1. taints \subseteq taints'
      BY <1>1, <1>5, LiveStep
    <3>. QED BY <1>1, <1>5, <3>1, RowsStayFilled
  <2>3. (repairs \subseteq DOMAIN ledger /\ RebuildOK)'
    BY <1>1, <1>3, <1>5 DEF admin, RebuildOK
  <2>4. PlanOK(plan)' /\ PlanOK(applying.plan)'
    BY <1>1, <1>3, <1>5 DEF admin, PlanOK
  <2>. QED BY <1>3, <2>1, <2>2, <2>3, <2>4 DEF BaseInv
<1>6. CASE UNCHANGED web /\ UNCHANGED repairs /\ RebuildOK' /\ PlanOK(plan)' /\ PlanOK(applying.plan)'
  BY <1>1, <1>6 DEF web, BaseInv, StateOK, NeverShort, NoEmptyRow, ImportsNamed, Untouched
<1>7. ASSUME rebuild' = NoRebuild
      PROVE  RebuildOK'
  BY <1>3, <1>7, NoRebuildRecord DEF RebuildOK, NoRebuild
<1>8. ASSUME UNCHANGED web, UNCHANGED repairs, UNCHANGED plan, UNCHANGED applying, RebuildOK'
      PROVE  BaseInv'
  BY <1>1, <1>6, <1>8 DEF PlanOK, web
<1>9. ASSUME NEW overlay \in BOOLEAN, LoadForRebuild(overlay)
      PROVE  BaseInv'
  <2>1. RebuildOK'
    BY <1>3, <1>9 DEF LoadForRebuild, RebuildOK, IsRebuild, web
  <2>. QED BY <1>8, <1>9, <2>1 DEF LoadForRebuild
<1>10. CASE ValidateForRebuild
  <2>1. RebuildOK'
    BY <1>1, <1>3, <1>7, <1>10, ValidationStep DEF RebuildOK
  <2>. QED BY <1>8, <1>10, <2>1 DEF ValidateForRebuild
<1>11. CASE AbandonRebuild
  BY <1>7, <1>8, <1>11 DEF AbandonRebuild
<1>12. CASE CommitRebuild
  <2>1. shares' = Final.held /\ items' = {s \in Symbols : Final.held[s] > 0}
        /\ UNCHANGED <<ledger, pending, repairs, plan, applying>> /\ rebuild' = NoRebuild
        /\ cash' \in {cash, Final.cash}
    BY <1>12 DEF CommitRebuild, Final, RebuiltItems
  <2>2. Final.cash \in Int /\ Final.held \in [Symbols -> Nat]
    BY <1>1, LoadedInLedger DEF IsPortfolio
  <2>3. StateOK'
    BY <1>1, <2>1, <2>2 DEF StateOK
  <2>4. NeverShort' /\ NoEmptyRow'
    BY <2>1, <2>2, ToleranceAssumption DEF NeverShort, NoEmptyRow
  <2>5. RebuildOK'
    BY <1>7, <2>1
  <2>. QED BY <1>1, <1>3, <2>1, <2>3, <2>4, <2>5 DEF BaseInv, PlanOK
<1>13. ASSUME NEW effective \in BOOLEAN, GeneratePlan(effective)
       PROVE  BaseInv'
  <2>1. plan'.ids \subseteq DOMAIN ledger /\ plan'.upTo = Len(ledger)
    BY <1>1, <1>13, PlanNamesLedger
  <2>2. UNCHANGED <<web, repairs, rebuild, applying>>
    BY <1>13 DEF GeneratePlan
  <2>. QED BY <1>1, <1>3, <1>4, <1>6, <2>1, <2>2 DEF PlanOK, RebuildOK, web
<1>14. CASE StartApply
  <2>1. applying'.plan = plan /\ UNCHANGED <<web, repairs, rebuild, plan>>
    BY <1>14 DEF StartApply
  <2>. QED BY <1>1, <1>6, <2>1 DEF PlanOK, RebuildOK, web
<1>15. ASSUME applying' = NotApplying
       PROVE  PlanOK(applying.plan)'
  BY <1>3, <1>15 DEF PlanOK, NotApplying, NoPlan
<1>16. CASE AbandonPlan
  BY <1>1, <1>6, <1>15, <1>16 DEF AbandonPlan, PlanOK, RebuildOK, web
<1>17. ASSUME NEW force \in BOOLEAN, CommitPlan(force)
       PROVE  BaseInv'
  <2>1. /\ UNCHANGED <<ledger, cash, items, shares, pending, rebuild, plan>>
        /\ repairs' = repairs \union applying.plan.ids
        /\ taints' = taints \union {"repaired"} /\ applying' = NotApplying
    BY <1>17 DEF CommitPlan
  <2>2. repairs' \subseteq DOMAIN ledger'
    BY <1>1, <1>4, <2>1 DEF PlanOK
  <2>3. StateOK' /\ NeverShort' /\ ImportsNamed' /\ RebuildOK' /\ PlanOK(plan)'
    BY <1>1, <2>1 DEF StateOK, NeverShort, ImportsNamed, RebuildOK, PlanOK
  <2>4. NoEmptyRow'
    BY <1>1, <2>1 DEF NoEmptyRow, Untouched
  <2>. QED BY <1>15, <2>1, <2>2, <2>3, <2>4 DEF BaseInv
<1>18. CASE UNCHANGED all
  BY <1>1, <1>8, <1>18 DEF all, admin, web, RebuildOK
<1>. QED
  BY <1>5, <1>9, <1>10, <1>11, <1>12, <1>13, <1>14, <1>16, <1>17, <1>18
     DEF RebuildNext, RebuildCommand, RepairCommand, all

LEMMA BaseStart == RebuildInit => BaseInv
<1>. SUFFICES ASSUME RebuildInit PROVE BaseInv
  OBVIOUS
<1>1. Init /\ repairs = {} /\ rebuild = NoRebuild /\ plan = NoPlan /\ applying = NotApplying
  BY DEF RebuildInit
<1>2. StateOK
  BY <1>1 DEF Init, StateOK, Idle, Request
<1>3. NeverShort /\ NoEmptyRow /\ ImportsNamed
  BY <1>1, ToleranceAssumption DEF Init, NeverShort, NoEmptyRow, ImportsNamed
<1>4. RebuildOK
  BY <1>1, NoRebuildRecord DEF Init, RebuildOK, NoRebuild
<1>5. PlanOK(plan) /\ PlanOK(applying.plan)
  BY <1>1 DEF Init, PlanOK, NoPlan, NotApplying
<1>. QED BY <1>1, <1>2, <1>3, <1>4, <1>5 DEF BaseInv

LEMMA BaseHolds == RebuildSpec => []BaseInv
BY BaseStart, BaseStep, PTL DEF RebuildSpec, all

-----------------------------------------------------------------------------
(* A rebuild puts the portfolio back on its ledger.                        *)

\* Every symbol is its own canonical form, so that a rebuild stores a holding
\* under the symbol that the handlers use for it.
SelfCanonical == \A s \in Symbols : Canonical[s] = s

\* What a rebuild writes is the replay of what is stored, unless that changed
\* since it was loaded.
LEMMA NothingMoved ==
  ASSUME StateOK, ~MovedSinceLoad
  PROVE  /\ LoadedIds = DOMAIN ledger \ repairs
         /\ Final = ReplayOf(ledger, repairs)
         /\ rebuild.cash = cash
<1>1. DOMAIN ledger = 1..Len(ledger)
  BY LenProperties DEF StateOK
<1>2. rebuild.upTo = Len(ledger) /\ rebuild.excluded = repairs /\ rebuild.cash = cash
  BY DEF MovedSinceLoad
<1>3. LoadedIds = DOMAIN ledger \ repairs
  BY <1>1, <1>2 DEF LoadedIds
<1>. QED BY <1>2, <1>3 DEF Final, ReplayOf

\* For every set of symbols that are their own canonical form, whatever the
\* handlers, rebuilds and repairs do: the stored portfolio is the replay of the
\* ledger that the repairs leave, up to the events the property names.
THEOREM RebuiltPortfolioFollows ==
  ASSUME SelfCanonical
  PROVE  RebuildSpec => []PortfolioFollowsEffectiveLedger
<1>. DEFINE CashPart == Untouched(CashTaints \union AdminTaints) =>
                          cash = ReplayOf(ledger, repairs).cash
            HeldPart == Untouched(HoldingTaints \union AdminTaints) =>
                          \A s \in Symbols :
                            shares[s] = ReplayOf(ledger, repairs).held[Canonical[s]]
            RowPart == Untouched(HoldingTaints \union AdminTaints) =>
                         \A s \in Symbols : s \in items <=> shares[s] > 0
<1>1. NoAliases
  BY DEF SelfCanonical, NoAliases
<1>2. BaseInv => RowPart
  <2>. SUFFICES ASSUME BaseInv, Untouched(HoldingTaints), NEW s \in Symbols
                PROVE  s \in items <=> shares[s] > 0
    BY DEF Untouched
  <2>. QED BY DEF BaseInv, NoEmptyRow, NeverShort
<1>3. RebuildInit => CashPart /\ HeldPart
  BY EmptyLedger, CanonicalAssumption DEF RebuildInit, Init, EmptyPortfolio
<1>4. ASSUME BaseInv, CashPart, HeldPart, [RebuildNext]_all
      PROVE  CashPart' /\ HeldPart'
  <2>1. StateOK /\ NoEmptyRow /\ RebuildOK /\ repairs \subseteq DOMAIN ledger
    BY <1>4 DEF BaseInv
  <2>2. CASE Next /\ UNCHANGED admin
    <3>1. /\ taints \subseteq taints'
          /\ (\E tx \in Transaction : StepRecords(tx)) \/ StepRecordsNothing
      BY <2>1, <2>2, LiveStep
    <3>2. repairs' = repairs
      BY <2>2 DEF admin
    <3>3. ASSUME NEW tx \in Transaction, StepRecords(tx)
          PROVE  CashPart' /\ HeldPart'
      <4>1. ledger' = Append(ledger, tx)
        BY <3>3 DEF StepRecords
      <4>2. ASSUME Untouched(CashTaints \union AdminTaints)'
            PROVE  cash' = ReplayOf(ledger', repairs').cash
        <5>1. Untouched(CashTaints)' /\ Untouched(CashTaints \union AdminTaints)
          BY <3>1, <4>2 DEF Untouched
        <5>2. cash = ReplayOf(ledger, repairs).cash
          BY <1>4, <5>1
        <5>3. cash' = cash + CashEffect(tx)
          BY <3>3, <5>1 DEF StepRecords
        <5>. QED BY <2>1, <3>2, <4>1, <5>2, <5>3, CashFollows
      <4>3. ASSUME Untouched(HoldingTaints \union AdminTaints)'
            PROVE  \A s \in Symbols :
                     shares'[s] = ReplayOf(ledger', repairs').held[Canonical[s]]
        <5>1. Untouched(HoldingTaints)' /\ Untouched(HoldingTaints \union AdminTaints)
          BY <3>1, <4>3 DEF Untouched
        <5>2. \A s \in Symbols : shares[s] = ReplayOf(ledger, repairs).held[Canonical[s]]
          BY <1>4, <5>1
        <5>3. /\ ~ Backdated(tx.date)
              /\ \A s \in Symbols :
                   shares'[s] = IF s = tx.symbol THEN HeldAfter(shares[s], tx) ELSE shares[s]
          BY <3>3, <5>1 DEF StepRecords
        <5>. QED BY <1>1, <2>1, <3>2, <4>1, <5>2, <5>3, HoldingsFollow
      <4>. QED BY <4>2, <4>3
    <3>4. ASSUME StepRecordsNothing
          PROVE  CashPart' /\ HeldPart'
      <4>1. Untouched(CashTaints \union AdminTaints)' =>
              Untouched(CashTaints)' /\ Untouched(CashTaints \union AdminTaints)
        BY <3>1 DEF Untouched
      <4>2. Untouched(HoldingTaints \union AdminTaints)' =>
              Untouched(HoldingTaints)' /\ Untouched(HoldingTaints \union AdminTaints)
        BY <3>1 DEF Untouched
      <4>. QED BY <1>4, <3>2, <3>4, <4>1, <4>2 DEF StepRecordsNothing
    <3>. QED BY <3>1, <3>3, <3>4
  <2>3. CASE UNCHANGED web /\ UNCHANGED repairs
    BY <1>4, <2>3 DEF web, Untouched
  <2>4. CASE CommitRebuild
    <3>1. /\ shares' = Final.held
          /\ cash' = IF Final.cash = rebuild.cash THEN cash ELSE Final.cash
          /\ taints' = {t \in {"overwritten"} : MovedSinceLoad}
          /\ UNCHANGED <<ledger, repairs>>
      BY <2>4 DEF CommitRebuild, Final
    <3>2. CASE MovedSinceLoad
      BY <3>1, <3>2 DEF Untouched, AdminTaints
    <3>3. CASE ~MovedSinceLoad
      <4>1. Final = ReplayOf(ledger, repairs) /\ rebuild.cash = cash
        BY <2>1, <3>3, NothingMoved
      <4>. QED BY <3>1, <4>1 DEF SelfCanonical
    <3>. QED BY <3>2, <3>3
  <2>5. ASSUME NEW force \in BOOLEAN, CommitPlan(force)
        PROVE  CashPart' /\ HeldPart'
    BY <2>5 DEF CommitPlan, Untouched, AdminTaints
  <2>. QED
    BY <1>4, <2>2, <2>3, <2>4, <2>5
       DEF RebuildNext, RebuildCommand, RepairCommand, LoadForRebuild, ValidateForRebuild,
           AbandonRebuild, GeneratePlan, StartApply, AbandonPlan, all, admin, web
<1>5. CashPart /\ HeldPart /\ RowPart => PortfolioFollowsEffectiveLedger
  BY DEF PortfolioFollowsEffectiveLedger
<1>. QED BY <1>2, <1>3, <1>4, <1>5, BaseHolds, PTL DEF RebuildSpec, all

-----------------------------------------------------------------------------
(* What a rebuild stores has passed the gate.                              *)

GatePassed ==
  rebuild.phase = "validated" /\ Len(ledger) = rebuild.upTo =>
    CriticalFindings(ledger, LoadedIds) = {}

\* For every set of symbols, aliases included: a rebuild stores the replay of a
\* ledger with a CRITICAL finding only if the ledger grew while it ran.
THEOREM RebuildsPassTheGate == RebuildSpec => RebuildPassesTheGate
<1>1. RebuildInit => GatePassed
  BY DEF RebuildInit, GatePassed, NoRebuild
<1>2. ASSUME BaseInv, GatePassed, [RebuildNext]_all
      PROVE  GatePassed'
  <2>1. StateOK /\ NoEmptyRow /\ RebuildOK
    BY <1>2 DEF BaseInv
  <2>2. CASE UNCHANGED rebuild
    <3>1. /\ Len(ledger) \in Nat /\ Len(ledger') \in Nat /\ Len(ledger) <= Len(ledger')
          /\ ledger' # ledger => Len(ledger) < Len(ledger')
      BY <1>2, <2>1, StepGrows, GrownStays
    <3>2. CASE ledger' = ledger
      BY <1>2, <2>2, <3>2 DEF GatePassed, LoadedIds
    <3>3. CASE ledger' # ledger
      <4>1. Len(ledger') # rebuild'.upTo
        BY <2>1, <2>2, <3>1, <3>3 DEF RebuildOK
      <4>. QED BY <4>1 DEF GatePassed
    <3>. QED BY <3>2, <3>3
  <2>3. CASE rebuild' = NoRebuild
    BY <2>3 DEF GatePassed, NoRebuild
  <2>4. ASSUME NEW overlay \in BOOLEAN, LoadForRebuild(overlay)
        PROVE  GatePassed'
    BY <2>4 DEF LoadForRebuild, GatePassed
  <2>5. CASE ValidateForRebuild /\ rebuild' # NoRebuild
    <3>1. /\ rebuild'.upTo = rebuild.upTo /\ rebuild'.excluded = rebuild.excluded
          /\ Gate(rebuild.excluded) /\ ledger' = ledger
      BY <2>1, <2>5, ValidationStep DEF ValidateForRebuild, web
    <3>2. SUFFICES ASSUME Len(ledger) = rebuild.upTo
                   PROVE  CriticalFindings(ledger, LoadedIds') = {}
      BY <3>1 DEF GatePassed
    <3>3. LoadedIds' = DOMAIN ledger \ rebuild.excluded
      <4>1. DOMAIN ledger = 1..Len(ledger)
        BY <2>1, LenProperties DEF StateOK
      <4>. QED BY <3>1, <3>2, <4>1 DEF LoadedIds
    <3>. QED BY <3>1, <3>3 DEF Gate
  <2>. QED
    BY <1>2, <2>2, <2>3, <2>4, <2>5
       DEF RebuildNext, RebuildCommand, RepairCommand, AbandonRebuild, CommitRebuild,
           GeneratePlan, StartApply, CommitPlan, AbandonPlan, all, admin
<1>3. ASSUME GatePassed, [RebuildNext]_all
      PROVE  [CommitRebuild /\ Len(ledger) = rebuild.upTo =>
                CriticalFindings(ledger, LoadedIds) = {}]_all
  BY <1>3 DEF CommitRebuild, GatePassed
<1>. QED BY <1>1, <1>2, <1>3, BaseHolds, PTL DEF RebuildSpec, RebuildPassesTheGate, all

-----------------------------------------------------------------------------
(* A rebuild writes what its plan says.                                    *)

\* How a kept copy of a row compares with the replay, and the plan over copies.
OperationOf(rowSymbols, rowShares, s, final) ==
  IF s \notin rowSymbols THEN {op \in {"INSERT"} : final.held[s] > 0}
  ELSE IF final.held[s] = 0 THEN {"DELETE"}
  ELSE {op \in {"UPDATE"} : \/ rowShares[s] > final.held[s] + SellTolerance
                            \/ rowShares[s] < final.held[s] - SellTolerance}

OperationsOf(rowSymbols, rowShares, balance, final) ==
  {<<"UPDATE", "cash">> : x \in {final.cash} \ {balance}}
    \union UNION {{<<op, s>> : op \in OperationOf(rowSymbols, rowShares, s, final)} :
                    s \in Symbols}

LEMMA PlanOverCopies ==
  PlannedOperations(Final) = OperationsOf(items, shares, rebuild.cash, Final)
<1>1. \A s \in Symbols : ItemOperation(s, Final) = OperationOf(items, shares, s, Final)
  BY DEF ItemOperation, OperationOf
<1>. QED BY <1>1 DEF PlannedOperations, OperationsOf

\* The plan compares the kept rows with what the commit will write.
PlanKept ==
  rebuild.phase = "validated" =>
    \E rowSymbols, rowShares :
      /\ rebuild.rows = <<rowSymbols, rowShares>>
      /\ rebuild.planned = OperationsOf(rowSymbols, rowShares, rebuild.cash, Final)

LEMMA PlanStaysKept ==
  ASSUME BaseInv, PlanKept, [RebuildNext]_all
  PROVE  PlanKept'
<1>1. StateOK /\ NoEmptyRow /\ RebuildOK
  BY DEF BaseInv
<1>2. CASE UNCHANGED rebuild
  <2>1. Grows
    BY <1>1, StepGrows
  <2>2. LoadedIds \in SUBSET DOMAIN ledger
    BY <1>1, LoadedInLedger
  <2>3. InReplayOrder(ledger', LoadedIds) = InReplayOrder(ledger, LoadedIds)
    BY <1>1, <2>1, <2>2, GrownStays
  <2>4. LoadedIds' = LoadedIds
    BY <1>2 DEF LoadedIds
  <2>5. Final' = Final
    BY <2>3, <2>4 DEF Final
  <2>. QED BY <1>2, <2>5 DEF PlanKept, OperationsOf, OperationOf
<1>3. CASE rebuild' = NoRebuild
  BY <1>3 DEF PlanKept, NoRebuild
<1>4. ASSUME NEW overlay \in BOOLEAN, LoadForRebuild(overlay)
      PROVE  PlanKept'
  BY <1>4 DEF LoadForRebuild, PlanKept
<1>5. CASE ValidateForRebuild /\ rebuild' # NoRebuild
  <2>1. /\ rebuild'.planned = PlannedOperations(Final)
        /\ rebuild'.rows = <<items, shares>> /\ rebuild'.cash = rebuild.cash
        /\ rebuild'.upTo = rebuild.upTo /\ rebuild'.excluded = rebuild.excluded
        /\ ledger' = ledger
    BY <1>1, <1>5, ValidationStep DEF ValidateForRebuild, web
  <2>2. Final' = Final
    BY <2>1 DEF Final, LoadedIds
  <2>3. rebuild'.planned = OperationsOf(items, shares, rebuild'.cash, Final')
    BY <2>1, <2>2, PlanOverCopies
  <2>. QED BY <2>1, <2>3 DEF PlanKept, OperationsOf, OperationOf
<1>. QED
  BY <1>2, <1>3, <1>4, <1>5
     DEF RebuildNext, RebuildCommand, RepairCommand, AbandonRebuild, CommitRebuild,
         GeneratePlan, StartApply, CommitPlan, AbandonPlan, all, admin

\* Nothing is planned exactly if the balance and the rows are right already.
LEMMA EmptyPlan ==
  ASSUME OperationsOf(items, shares, cash, Final) = {}
  PROVE  /\ Final.cash = cash
         /\ \A s \in Symbols : OperationOf(items, shares, s, Final) = {}
<1>1. {<<"UPDATE", "cash">> : x \in {Final.cash} \ {cash}} = {}
  BY DEF OperationsOf
<1>2. \A s \in Symbols : {<<op, s>> : op \in OperationOf(items, shares, s, Final)} = {}
  BY DEF OperationsOf
<1>3. Final.cash = cash
  BY <1>1
<1>. QED BY <1>2, <1>3

\* For every set of symbols that are their own canonical form: a rebuild that
\* nobody disturbs writes what its plan says, the plan is empty on a portfolio
\* that did not drift, and an empty plan is a rebuild that changes nothing.
THEOREM RebuildsKeepTheirPlan ==
  ASSUME SelfCanonical
  PROVE  RebuildSpec => RebuildKeepsItsPlan
<1>. DEFINE Kept == CommitRebuild /\ ~MovedSinceLoad /\ rebuild.rows = <<items, shares>> =>
                      /\ taints = {} => rebuild.planned = {}
                      /\ rebuild.planned = {} =>
                           /\ UNCHANGED <<cash, items>>
                           /\ \A s \in Symbols :
                                shares'[s] \in (shares[s] - SellTolerance)..(shares[s] + SellTolerance)
<1>1. RebuildInit => PlanKept
  BY DEF RebuildInit, PlanKept, NoRebuild
<1>2. ASSUME BaseInv, PlanKept, PortfolioFollowsEffectiveLedger
      PROVE  Kept
  <2>1. SUFFICES ASSUME CommitRebuild, ~MovedSinceLoad, rebuild.rows = <<items, shares>>
                 PROVE  /\ taints = {} => rebuild.planned = {}
                        /\ rebuild.planned = {} =>
                             /\ UNCHANGED <<cash, items>>
                             /\ \A s \in Symbols :
                                  shares'[s] \in (shares[s] - SellTolerance)..(shares[s] + SellTolerance)
    OBVIOUS
  <2>2. StateOK /\ NeverShort /\ RebuildOK
    BY <1>2 DEF BaseInv
  <2>3. Final = ReplayOf(ledger, repairs) /\ rebuild.cash = cash
    BY <2>1, <2>2, NothingMoved
  <2>4. rebuild.planned = OperationsOf(items, shares, cash, Final)
    <3>1. PICK rowSymbols, rowShares :
            /\ rebuild.rows = <<rowSymbols, rowShares>>
            /\ rebuild.planned = OperationsOf(rowSymbols, rowShares, rebuild.cash, Final)
      BY <1>2, <2>1 DEF CommitRebuild, PlanKept
    <3>2. rowSymbols = items /\ rowShares = shares
      BY <2>1, <3>1
    <3>. QED BY <2>3, <3>1, <3>2
  <2>5. /\ Final.cash \in Int
        /\ \A s \in Symbols : Final.held[s] \in Nat /\ shares[s] \in Int
        /\ SellTolerance \in Nat
    BY <2>2, LoadedInLedger, ToleranceAssumption DEF IsPortfolio, StateOK
  <2>6. ASSUME taints = {}
        PROVE  rebuild.planned = {}
    <3>1. /\ Final.cash = cash
          /\ \A s \in Symbols : shares[s] = Final.held[s] /\ (s \in items <=> shares[s] > 0)
      BY <1>2, <2>3, <2>6 DEF PortfolioFollowsEffectiveLedger, Untouched, SelfCanonical
    <3>2. \A s \in Symbols : OperationOf(items, shares, s, Final) = {}
      BY <2>5, <3>1 DEF OperationOf
    <3>. QED BY <2>4, <3>1, <3>2 DEF OperationsOf
  <2>7. ASSUME rebuild.planned = {}
        PROVE  /\ UNCHANGED <<cash, items>>
               /\ \A s \in Symbols :
                    shares'[s] \in (shares[s] - SellTolerance)..(shares[s] + SellTolerance)
    <3>1. /\ Final.cash = cash
          /\ \A s \in Symbols : OperationOf(items, shares, s, Final) = {}
      BY <2>4, <2>7, EmptyPlan
    <3>2. /\ shares' = Final.held /\ items' = {s \in Symbols : Final.held[s] > 0}
          /\ cash' = IF Final.cash = rebuild.cash THEN cash ELSE Final.cash
      BY <2>1 DEF CommitRebuild, Final, RebuiltItems
    <3>3. ASSUME NEW s \in Symbols
          PROVE  /\ s \in items <=> Final.held[s] > 0
                 /\ Final.held[s] \in (shares[s] - SellTolerance)..(shares[s] + SellTolerance)
      <4>1. CASE s \in items
        BY <2>5, <3>1, <4>1 DEF OperationOf
      <4>2. CASE s \notin items
        <5>1. shares[s] = 0 /\ ~(Final.held[s] > 0)
          BY <2>2, <3>1, <4>2 DEF OperationOf, NeverShort
        <5>. QED BY <2>5, <4>2, <5>1
      <4>. QED BY <4>1, <4>2
    <3>4. items' = items
      BY <2>2, <3>2, <3>3 DEF StateOK
    <3>. QED BY <2>3, <3>1, <3>2, <3>3, <3>4
  <2>. QED BY <2>6, <2>7
<1>3. RebuildSpec => []PortfolioFollowsEffectiveLedger
  BY RebuiltPortfolioFollows
<1>. QED BY <1>1, <1>2, <1>3, BaseHolds, PlanStaysKept, PTL
         DEF RebuildSpec, RebuildKeepsItsPlan, all

-----------------------------------------------------------------------------
(* Repairs leave one of every group of duplicated imports.                 *)

\* Two transactions import a position on one day.
SameImport(i, j) ==
  /\ ledger[i].type = "INITIAL_POSITION" /\ ledger[j].type = "INITIAL_POSITION"
  /\ ledger[i].date = ledger[j].date
  /\ Canonical[ledger[i].symbol] = Canonical[ledger[j].symbol]

\* Whatever is excluded of the imports repeats an earlier one.
RepeatsOnly(ids) ==
  \A i \in ids : ledger[i].type = "INITIAL_POSITION" =>
    \E j \in DOMAIN ledger : j < i /\ SameImport(i, j)

\* What a plan and the repairs leave of the ledger it was generated from has no
\* two imports of a position on one day.
Resolves(p) ==
  \A i, j \in (1..p.upTo) \ (p.ids \union repairs) : SameImport(i, j) => i = j

RepairInv ==
  /\ RepeatsOnly(repairs)
  /\ RepeatsOnly(plan.ids)
  /\ RepeatsOnly(applying.plan.ids)
  /\ Resolves(plan)
  /\ Resolves(applying.plan)

LEMMA LeastOfGroup ==
  ASSUME NEW g \in SUBSET Nat, g # {}
  PROVE  Min(g) \in g /\ \A i \in g : Min(g) <= i
<1>1. \E m \in g : \A i \in g : m <= i
  BY LeastNumber
<1>. QED BY <1>1 DEF Min

LEMMA TwoMembers ==
  ASSUME NEW g, IsFiniteSet(g)
  PROVE  Cardinality(g) > 1 <=> \E i, j \in g : i # j
<1>1. CASE g = {}
  BY <1>1, FS_EmptySet
<1>2. ASSUME NEW i \in g, \A j \in g : i = j
      PROVE  Cardinality(g) = 1
  <2>1. g = {i}
    BY <1>2
  <2>. QED BY <2>1, FS_Singleton
<1>3. ASSUME NEW i \in g, NEW j \in g, i # j
      PROVE  Cardinality(g) > 1
  <2>1. IsFiniteSet({i, j}) /\ Cardinality({i, j}) = 2
    <3>1. IsFiniteSet({i}) /\ Cardinality({i}) = 1 /\ j \notin {i} /\ {i, j} = {i} \union {j}
      BY <1>3, FS_Singleton
    <3>. QED BY <3>1, FS_AddElement
  <2>2. Cardinality({i, j}) <= Cardinality(g)
    <3>1. {i, j} \in SUBSET g
      OBVIOUS
    <3>. QED BY <3>1, FS_Subset
  <2>3. Cardinality(g) \in Nat
    BY FS_CardinalityType
  <2>. QED BY <2>1, <2>2, <2>3
<1>. QED BY <1>1, <1>2, <1>3

\* Two imports of a position on one day are in a group, and a group has no others.
LEMMA GroupsAreSameImports ==
  ASSUME StateOK, ImportsNamed, NEW ids \in SUBSET DOMAIN ledger
  PROVE  /\ \A g \in DuplicateGroups(ledger, ids) :
              /\ g \in SUBSET ids
              /\ \E i, j \in g : i # j
              /\ \A i, j \in g : SameImport(i, j)
              /\ \A i \in g, j \in ids : SameImport(i, j) => j \in g
         /\ \A i, j \in ids : i # j /\ SameImport(i, j) =>
              \E g \in DuplicateGroups(ledger, ids) : i \in g /\ j \in g
<1>1. IsFiniteSet(ids)
  BY IdsOfLedger DEF StateOK
<1>2. ASSUME NEW s, NEW d
      PROVE  IsFiniteSet(InitialPositionGroup(ledger, ids, s, d))
  <2>1. InitialPositionGroup(ledger, ids, s, d) \in SUBSET ids
    BY DEF InitialPositionGroup
  <2>. QED BY <1>1, <2>1, FS_Subset
<1>3. ASSUME NEW g \in DuplicateGroups(ledger, ids)
      PROVE  /\ g \in SUBSET ids
             /\ \E i, j \in g : i # j
             /\ \A i, j \in g : SameImport(i, j)
             /\ \A i \in g, j \in ids : SameImport(i, j) => j \in g
  <2>1. PICK s \in Symbols, k \in ids :
          g = InitialPositionGroup(ledger, ids, s, ledger[k].date)
    BY DEF DuplicateGroups
  <2>2. Cardinality(g) > 1
    BY DEF DuplicateGroups
  <2>3. \E i, j \in g : i # j
    BY <1>2, <2>1, <2>2, TwoMembers
  <2>. QED BY <2>1, <2>3 DEF InitialPositionGroup, SameImport
<1>4. ASSUME NEW i \in ids, NEW j \in ids, i # j, SameImport(i, j)
      PROVE  \E g \in DuplicateGroups(ledger, ids) : i \in g /\ j \in g
  <2>. DEFINE s == Canonical[ledger[i].symbol]
              g == InitialPositionGroup(ledger, ids, s, ledger[i].date)
  <2>1. s \in Symbols
    BY <1>4, CanonicalAssumption DEF ImportsNamed, SameImport
  <2>2. i \in g /\ j \in g
    BY <1>4 DEF InitialPositionGroup, SameImport
  <2>3. Cardinality(g) > 1
    BY <1>2, <1>4, <2>2, TwoMembers
  <2>. QED BY <2>1, <2>2, <2>3 DEF DuplicateGroups
<1>. QED BY <1>3, <1>4

LEMMA AlikeNames ==
  ASSUME NEW t, NEW u, Fingerprint(t) = Fingerprint(u)
  PROVE  t.type = u.type /\ t.symbol = u.symbol /\ t.date = u.date
BY DEF Fingerprint

\* A new plan repeats earlier imports only, and resolves what it was generated for.
LEMMA PlanResolves ==
  ASSUME StateOK, ImportsNamed, NEW effective \in BOOLEAN, GeneratePlan(effective)
  PROVE  RepeatsOnly(plan'.ids) /\ Resolves(plan')
<1>. DEFINE ids == IF effective THEN DOMAIN ledger \ repairs ELSE DOMAIN ledger
            duplicates == DuplicateGroups(ledger, ids)
            alike == FingerprintGroups(ledger, ids)
            new == (UNION {Duplicates(g) : g \in duplicates \union alike}) \ repairs
<1>1. plan' = [ids |-> new, upTo |-> Len(ledger)]
  BY DEF GeneratePlan, Repairable
<1>2. DOMAIN ledger = 1..Len(ledger) /\ Len(ledger) \in Nat
  BY LenProperties DEF StateOK
<1>3. ids \in SUBSET DOMAIN ledger /\ DOMAIN ledger \ ids \subseteq repairs
  OBVIOUS
<1>. HIDE DEF ids
<1>4. /\ \A g \in duplicates :
           g \in SUBSET ids /\ (\E i, j \in g : i # j) /\ \A i, j \in g : SameImport(i, j)
      /\ \A i, j \in ids : i # j /\ SameImport(i, j) =>
           \E g \in duplicates : i \in g /\ j \in g
  BY <1>3, GroupsAreSameImports
<1>5. \A g \in alike :
        /\ g \in SUBSET ids
        /\ \A i, j \in g : Fingerprint(ledger[i]) = Fingerprint(ledger[j])
  BY DEF FingerprintGroups
<1>. HIDE DEF duplicates, alike
<1>9. \A i : i \in new <=> i \notin repairs /\ \E g \in duplicates \union alike : i \in Duplicates(g)
  OBVIOUS
<1>. HIDE DEF new
<1>6. ASSUME NEW i \in new, ledger[i].type = "INITIAL_POSITION"
      PROVE  \E j \in DOMAIN ledger : j < i /\ SameImport(i, j)
  <2>1. PICK g \in duplicates \union alike : i \in Duplicates(g)
    BY <1>9
  <2>2. g \in SUBSET Nat /\ g # {} /\ g \in SUBSET DOMAIN ledger /\ i \in g
    BY <1>2, <1>3, <1>4, <1>5, <2>1 DEF Duplicates
  <2>3. Min(g) \in g /\ Min(g) <= i /\ i # Min(g)
    BY <2>1, <2>2, LeastOfGroup DEF Duplicates
  <2>4. SameImport(i, Min(g))
    <3>1. CASE g \in duplicates
      BY <1>4, <2>2, <2>3, <3>1
    <3>2. CASE g \in alike
      <4>1. Fingerprint(ledger[i]) = Fingerprint(ledger[Min(g)])
        BY <1>5, <2>2, <2>3, <3>2
      <4>. QED BY <1>6, <4>1, AlikeNames DEF SameImport
    <3>. QED BY <3>1, <3>2
  <2>5. Min(g) \in Nat /\ i \in Nat /\ Min(g) \in DOMAIN ledger
    BY <2>2, <2>3, Zenon
  <2>6. Min(g) < i
    BY <2>3, <2>5
  <2>. QED BY <2>4, <2>5, <2>6
<1>7. ASSUME NEW i \in (1..Len(ledger)) \ (new \union repairs),
             NEW j \in (1..Len(ledger)) \ (new \union repairs), SameImport(i, j), i # j
      PROVE  FALSE
  <2>1. i \in ids /\ j \in ids
    BY <1>2, <1>3
  <2>2. PICK g \in duplicates : i \in g /\ j \in g
    BY <1>4, <1>7, <2>1
  <2>3. i \in Duplicates(g) \/ j \in Duplicates(g)
    BY <1>7, <2>2 DEF Duplicates
  <2>4. i \in new \/ j \in new
    BY <1>7, <1>9, <2>2, <2>3
  <2>. QED BY <1>7, <2>4
<1>8. plan'.ids = new /\ plan'.upTo = Len(ledger)
  BY <1>1
<1>. QED BY <1>6, <1>7, <1>8 DEF RepeatsOnly, Resolves

\* What is known of some transactions stays true of them as the ledger grows.
LEMMA ImportsStay ==
  ASSUME StateOK, Grows
  PROVE  /\ \A i, j \in DOMAIN ledger : SameImport(i, j)' <=> SameImport(i, j)
         /\ \A ids \in SUBSET DOMAIN ledger : RepeatsOnly(ids) => RepeatsOnly(ids)'
<1>1. /\ DOMAIN ledger \subseteq DOMAIN ledger'
      /\ \A i \in DOMAIN ledger : ledger'[i] = ledger[i]
  BY GrownStays
<1>2. \A i, j \in DOMAIN ledger : SameImport(i, j)' <=> SameImport(i, j)
  BY <1>1 DEF SameImport
<1>. QED BY <1>1, <1>2 DEF RepeatsOnly

LEMMA ResolvedStays ==
  ASSUME StateOK, Grows, repairs \subseteq repairs', NEW p, PlanOK(p), Resolves(p)
  PROVE  \A i, j \in (1..p.upTo) \ (p.ids \union repairs') : SameImport(i, j)' => i = j
<1>1. DOMAIN ledger = 1..Len(ledger) /\ Len(ledger) \in Nat
  BY LenProperties DEF StateOK
<1>2. 1..p.upTo \subseteq DOMAIN ledger
  BY <1>1 DEF PlanOK
<1>. QED BY <1>2, ImportsStay DEF Resolves

LEMMA RepairStep ==
  ASSUME BaseInv, RepairInv, [RebuildNext]_all
  PROVE  RepairInv'
<1>1. /\ StateOK /\ NoEmptyRow /\ ImportsNamed /\ repairs \subseteq DOMAIN ledger
      /\ PlanOK(plan) /\ PlanOK(applying.plan)
  BY DEF BaseInv
<1>2. Grows
  BY <1>1, StepGrows
<1>3. /\ RepeatsOnly(repairs) /\ RepeatsOnly(plan.ids) /\ RepeatsOnly(applying.plan.ids)
      /\ Resolves(plan) /\ Resolves(applying.plan)
  BY DEF RepairInv
<1>4. /\ plan.ids \in SUBSET DOMAIN ledger
      /\ applying.plan.ids \in SUBSET DOMAIN ledger
      /\ repairs \in SUBSET DOMAIN ledger
  <2>1. DOMAIN ledger = 1..Len(ledger) /\ Len(ledger) \in Nat
    BY <1>1, LenProperties DEF StateOK
  <2>. QED BY <1>1, <2>1 DEF PlanOK
<1>5. CASE UNCHANGED <<repairs, plan, applying>>
  <2>1. RepeatsOnly(repairs)' /\ RepeatsOnly(plan.ids)' /\ RepeatsOnly(applying.plan.ids)'
    BY <1>1, <1>2, <1>3, <1>4, <1>5, ImportsStay DEF RepeatsOnly
  <2>2. Resolves(plan)' /\ Resolves(applying.plan)'
    BY <1>1, <1>2, <1>3, <1>5, ResolvedStays DEF Resolves
  <2>. QED BY <2>1, <2>2 DEF RepairInv
<1>6. ASSUME NEW effective \in BOOLEAN, GeneratePlan(effective)
      PROVE  RepairInv'
  <2>1. RepeatsOnly(plan'.ids) /\ Resolves(plan')
    BY <1>1, <1>6, PlanResolves
  <2>2. UNCHANGED <<ledger, repairs, applying>>
    BY <1>6 DEF GeneratePlan, web
  <2>. QED BY <1>3, <2>1, <2>2 DEF RepairInv, RepeatsOnly, Resolves, SameImport
<1>7. CASE StartApply
  <2>1. applying'.plan = plan /\ UNCHANGED <<ledger, repairs, plan>>
    BY <1>7 DEF StartApply, web
  <2>. QED BY <1>3, <2>1 DEF RepairInv, RepeatsOnly, Resolves, SameImport
<1>8. CASE AbandonPlan
  <2>1. applying' = NotApplying /\ UNCHANGED <<ledger, repairs, plan>>
    BY <1>8 DEF AbandonPlan, web
  <2>. QED BY <1>3, <2>1 DEF RepairInv, RepeatsOnly, Resolves, SameImport, NotApplying, NoPlan
<1>9. ASSUME NEW force \in BOOLEAN, CommitPlan(force)
      PROVE  RepairInv'
  <2>1. /\ repairs' = repairs \union applying.plan.ids
        /\ applying' = NotApplying /\ UNCHANGED <<ledger, plan>>
    BY <1>9 DEF CommitPlan
  <2>2. RepeatsOnly(repairs)' /\ RepeatsOnly(plan.ids)' /\ RepeatsOnly(applying.plan.ids)'
    BY <1>3, <2>1 DEF RepeatsOnly, SameImport, NotApplying, NoPlan
  <2>3. Resolves(plan)' /\ Resolves(applying.plan)'
    BY <1>3, <2>1 DEF Resolves, SameImport, NotApplying, NoPlan
  <2>. QED BY <2>2, <2>3 DEF RepairInv
<1>. QED
  BY <1>5, <1>6, <1>7, <1>8, <1>9
     DEF RebuildNext, RebuildCommand, RepairCommand, LoadForRebuild, ValidateForRebuild,
         AbandonRebuild, CommitRebuild, all, admin

\* For every set of symbols, aliases included, whichever plans are generated,
\* from the raw or the effective ledger, and however late they are applied: an
\* applied plan leaves no duplicates of those it was generated for, and the
\* first import of a position is never excluded.
THEOREM RepairsKeepTheFirst == RebuildSpec => RepairsLeaveOne
<1>1. RebuildInit => RepairInv
  BY DEF RebuildInit, RepairInv, RepeatsOnly, Resolves, NotApplying, NoPlan
<1>2. BaseInv /\ RepairInv => FirstImportIsKept
  <2>. SUFFICES ASSUME BaseInv, RepairInv,
                       NEW g \in DuplicateGroups(ledger, DOMAIN ledger), Min(g) \in repairs
                PROVE  FALSE
    BY DEF FirstImportIsKept
  <2>1. StateOK /\ ImportsNamed /\ DOMAIN ledger \in SUBSET DOMAIN ledger
    BY DEF BaseInv
  <2>2. /\ g \in SUBSET DOMAIN ledger /\ (\E i, j \in g : i # j)
        /\ \A i, j \in g : SameImport(i, j)
        /\ \A i \in g, j \in DOMAIN ledger : SameImport(i, j) => j \in g
    BY <2>1, GroupsAreSameImports
  <2>3. g \in SUBSET Nat /\ g # {}
    <3>1. DOMAIN ledger = 1..Len(ledger)
      BY <2>1, LenProperties DEF StateOK
    <3>. QED BY <2>2, <3>1
  <2>4. Min(g) \in g /\ \A i \in g : Min(g) <= i
    BY <2>3, LeastOfGroup
  <2>5. ledger[Min(g)].type = "INITIAL_POSITION"
    BY <2>2, <2>4 DEF SameImport
  <2>6. PICK j \in DOMAIN ledger : j < Min(g) /\ SameImport(Min(g), j)
    BY <2>5 DEF RepairInv, RepeatsOnly
  <2>7. j \in g
    BY <2>2, <2>4, <2>6
  <2>8. Min(g) <= j /\ j \in Nat /\ Min(g) \in Nat
    BY <2>3, <2>4, <2>7
  <2>. QED BY <2>6, <2>8
<1>3. ASSUME BaseInv, RepairInv, [RebuildNext]_all
      PROVE  PlanResolvesDuplicates
  <2>. SUFFICES ASSUME applying.phase = "baselined", repairs' # repairs
                PROVE  DuplicateGroups(ledger, (1..applying.plan.upTo) \ repairs') = {}
    BY DEF PlanResolvesDuplicates
  <2>. DEFINE ids == (1..applying.plan.upTo) \ repairs'
  <2>1. repairs' = repairs \union applying.plan.ids
    BY <1>3 DEF RebuildNext, RebuildCommand, RepairCommand, LoadForRebuild,
         ValidateForRebuild, AbandonRebuild, CommitRebuild, GeneratePlan, StartApply,
         CommitPlan, AbandonPlan, all, admin
  <2>2. StateOK /\ ImportsNamed /\ PlanOK(applying.plan)
    BY <1>3 DEF BaseInv
  <2>3. ids \in SUBSET DOMAIN ledger
    <3>1. DOMAIN ledger = 1..Len(ledger) /\ Len(ledger) \in Nat
      BY <2>2, LenProperties DEF StateOK
    <3>. QED BY <2>2, <3>1 DEF PlanOK
  <2>4. \A i, j \in ids : SameImport(i, j) => i = j
    BY <1>3, <2>1 DEF RepairInv, Resolves
  <2>. HIDE DEF ids
  <2>5. \A g \in DuplicateGroups(ledger, ids) :
          g \in SUBSET ids /\ (\E i, j \in g : i # j) /\ \A i, j \in g : SameImport(i, j)
    BY <2>2, <2>3, GroupsAreSameImports
  <2>6. DuplicateGroups(ledger, ids) = {}
    BY <2>4, <2>5
  <2>. QED BY <2>6 DEF ids
<1>4. BaseInv /\ RepairInv /\ [RebuildNext]_all /\ FirstImportIsKept' =>
        [FirstImportIsKept' /\ PlanResolvesDuplicates]_all
  BY <1>3
<1>. QED BY <1>1, <1>2, <1>4, BaseHolds, RepairStep, PTL DEF RebuildSpec, RepairsLeaveOne, all

=============================================================================
