---------------------------- MODULE HistoryProofs ----------------------------
(***************************************************************************)
(* The properties of the stored snapshots, for any number of days,         *)
(* transactions, generations and rewrites, and any prices.                 *)
(***************************************************************************)
EXTENDS SnapshotHistory, SetLemmas, SequenceTheorems

-----------------------------------------------------------------------------
(* The inductive invariant: what a row is, that a repair goes forward, and *)
(* the two properties about rows.                                          *)

IsRow(r) ==
  /\ DOMAIN r = {"exists", "total", "cash", "invested", "gain", "shares", "cost", "price", "base", "return"}
  /\ r.exists = TRUE

RowsTyped ==
  /\ rows = [d \in Days |-> rows[d]]
  /\ \A d \in Days : rows[d] = NoRow \/ IsRow(rows[d])

\* What is pending is there still, and later than what has ended.
RepairTyped ==
  repair = NoRepair \/
    /\ repair = [pending |-> repair.pending, held |-> repair.held, ended |-> repair.ended,
                 known |-> repair.known]
    /\ repair.pending # {}
    /\ repair.pending \subseteq RowDates
    /\ \A e \in repair.ended, d \in repair.pending : e < d

AddsUp(r) ==
  /\ r.total = Value(r.cash, r.shares, r.price)
  /\ r.invested = r.cost
  /\ r.gain = Equity(r.shares, r.price) - r.cost

Sound == \A d \in RowDates : d \in torn \/ AddsUp(rows[d])

Linked == chained \subseteq RowDates /\ RewrittenReturnsChain

RebuildTyped ==
  rebuild = NoRebuild \/
    /\ rebuild = [from |-> rebuild.from, seen |-> rebuild.seen, loaded |-> rebuild.loaded]
    /\ rebuild.from \in Days

\* What a recovery has loaded is there still.
RecoveryTyped ==
  recovery = NoRecovery \/
    /\ recovery = [loaded |-> recovery.loaded, seen |-> recovery.seen]
    /\ RecoveryDates \subseteq RowDates

RowsInv == RowsTyped /\ RepairTyped /\ RebuildTyped /\ RecoveryTyped /\ Sound /\ Linked

LEMMA NoRowIsNoRow == ASSUME NEW r, IsRow(r) PROVE r.exists = TRUE /\ r # NoRow
<1>1. r.exists = TRUE
  BY DEF IsRow
<1>2. NoRow.exists = FALSE
  BY DEF NoRow
<1>. QED BY <1>1, <1>2

LEMMA RowsOfDates ==
  ASSUME RowsTyped
  PROVE  /\ RowDates = {d \in Days : IsRow(rows[d])}
         /\ \A d \in Days : Exists(d) \in BOOLEAN
<1>1. NoRow.exists = FALSE
  BY DEF NoRow
<1>. QED BY <1>1, NoRowIsNoRow DEF RowsTyped, RowDates, Exists

\* The row before a date is an earlier one, or none.
LEMMA BeforeIsEarlier ==
  ASSUME NEW date \in Days
  PROVE  /\ Before(date) \in 0..(date - 1)
         /\ Before(date) # 0 => Before(date) \in RowDates
<1>. DEFINE S == {d \in RowDates : d < date} \union {0}
<1>1. LastDate \in Nat /\ date \in Nat /\ date - 1 \in Nat
  BY HistoryAssumption DEF Days
<1>2. S \in SUBSET (0..(date - 1)) /\ S # {}
  BY <1>1 DEF RowDates, Days
<1>3. Max(S) \in S
  BY <1>1, <1>2, MaxOfNumbers
<1>. QED BY <1>2, <1>3 DEF Before

\* What is written to a date changes the base of no earlier one.
LEMMA EarlierBasesStay ==
  ASSUME NEW date \in Days,
         \A d \in Days : d < date => rows'[d].exists = rows[d].exists
                                       /\ (d \in RowDates => rows'[d].total = rows[d].total)
  PROVE  Before(date)' = Before(date) /\ Base(Before(date))' = Base(Before(date))
<1>1. {d \in RowDates : d < date}' = {d \in RowDates : d < date}
  BY DEF RowDates, Exists
<1>2. Before(date)' = Before(date)
  BY <1>1 DEF Before
<1>3. Before(date) # 0 => Before(date) \in RowDates /\ Before(date) < date /\ Before(date) \in Days
  BY BeforeIsEarlier, HistoryAssumption DEF RowDates, Days
<1>4. Base(Before(date))' = Base(Before(date))
  BY <1>2, <1>3 DEF Base
<1>. QED BY <1>2, <1>4

LEMMA RowIsSound ==
  ASSUME NEW cash, NEW shares, NEW cost, NEW price, NEW base, NEW return
  PROVE  IsRow(Row(cash, shares, cost, price, base, return))
         /\ AddsUp(Row(cash, shares, cost, price, base, return))
         /\ Row(cash, shares, cost, price, base, return).base = base
BY DEF IsRow, AddsUp, Row

Remeasured(r, base, return) == [r EXCEPT !.base = base, !.return = return]

\* The return of a row that is as it was loaded is the one computed.
LEMMA BaseOfUnwritten ==
  ASSUME NEW return, NEW base, NEW loaded
  PROVE  BaseOf(return, base, loaded, loaded) = base
BY DEF BaseOf, Written

LEMMA RemeasuredRow ==
  ASSUME NEW r, IsRow(r), NEW base, NEW return
  PROVE  /\ IsRow(Remeasured(r, base, return))
         /\ Remeasured(r, base, return).base = base
         /\ Remeasured(r, base, return).total = r.total
         /\ AddsUp(r) => AddsUp(Remeasured(r, base, return))
<1>. DEFINE q == Remeasured(r, base, return)
<1>1. /\ DOMAIN q = DOMAIN r
      /\ \A c \in DOMAIN r : c # "base" /\ c # "return" => q[c] = r[c]
      /\ q.base = base
  BY DEF IsRow, Remeasured
<1>2. /\ q.exists = r.exists /\ q.total = r.total /\ q.cash = r.cash
      /\ q.invested = r.invested /\ q.gain = r.gain /\ q.shares = r.shares
      /\ q.cost = r.cost /\ q.price = r.price
  BY <1>1 DEF IsRow
<1>. HIDE DEF q
<1>3. IsRow(q) /\ q.base = base /\ q.total = r.total /\ (AddsUp(r) => AddsUp(q))
  BY <1>1, <1>2 DEF IsRow, AddsUp
<1>. QED BY <1>3 DEF q

LEMMA InitInv == HistoryInit => RowsInv
<1>. SUFFICES ASSUME HistoryInit PROVE RowsInv
  OBVIOUS
<1>1. PICK cost \in ImportCosts :
        rows = [d \in Days |-> IF d = 1 THEN Row(Opening, 1, cost, <<cost>>, <<>>, <<>>) ELSE NoRow]
  BY DEF HistoryInit
<1>. DEFINE first == Row(Opening, 1, cost, <<cost>>, <<>>, <<>>)
<1>2. IsRow(first) /\ AddsUp(first)
  BY RowIsSound
<1>. HIDE DEF first
<1>3. RowsTyped
  BY <1>1, <1>2 DEF RowsTyped, first
<1>4. \A d \in RowDates : rows[d] = first
  BY <1>1 DEF RowDates, Exists, NoRow, first
<1>5. Sound
  BY <1>2, <1>4 DEF Sound
<1>6. RepairTyped /\ RebuildTyped /\ RecoveryTyped
  BY DEF HistoryInit, RepairTyped, RebuildTyped, RecoveryTyped
<1>7. Linked
  BY DEF HistoryInit, Linked, RewrittenReturnsChain
<1>. QED BY <1>3, <1>5, <1>6, <1>7 DEF RowsInv

-----------------------------------------------------------------------------
(* The steps.                                                              *)

\* A sound row put in the place of one date, later links dropped.
LEMMA OneRowInv ==
  ASSUME RowsInv, NEW date \in Days, NEW new, IsRow(new),
         rows' = [rows EXCEPT ![date] = new],
         date \in torn' \/ AddsUp(new),
         \A d \in Days : d # date /\ d \in torn => d \in torn',
         chained' \subseteq {d \in chained : d < date} \union {date},
         date \in chained' => new.base = Base(Before(date))
  PROVE  RowsTyped' /\ Sound' /\ Linked' /\ RowDates \subseteq RowDates'
<1>1. RowsTyped /\ Sound /\ Linked
  BY DEF RowsInv
<1>2. rows'[date] = new /\ \A d \in Days : d # date => rows'[d] = rows[d]
  BY <1>1 DEF RowsTyped
<1>3. RowsTyped'
  BY <1>1, <1>2 DEF RowsTyped
<1>4. RowDates' = RowDates \union {date}
  <2>1. new.exists = TRUE
    BY NoRowIsNoRow
  <2>. QED BY <1>2, <2>1 DEF RowDates, Exists
<1>5. Sound'
  BY <1>1, <1>2, <1>4 DEF Sound, RowDates
<1>6. chained' \subseteq RowDates'
  BY <1>1, <1>4 DEF Linked
<1>7. ASSUME NEW d \in chained'
      PROVE  rows'[d].base = Base(Before(d))'
  <2>1. d \in Days /\ ~(date < d) /\ (d = date \/ (d < date /\ d \in chained))
    BY <1>1, <1>7, HistoryAssumption DEF Linked, RowDates, Days
  <2>2. \A e \in Days : e < d => rows'[e] = rows[e]
    BY <2>1, <1>2, HistoryAssumption DEF Days
  <2>3. Base(Before(d))' = Base(Before(d))
    BY <2>1, <2>2, EarlierBasesStay
  <2>4. CASE d = date
    <3>1. date \in chained'
      BY <1>7, <2>4
    <3>. QED BY <2>3, <2>4, <3>1, <1>2
  <2>5. CASE d < date /\ d \in chained
    <3>1. rows[d].base = Base(Before(d))
      BY <2>5, <1>1 DEF Linked, RewrittenReturnsChain
    <3>2. d # date
      BY <2>5, HistoryAssumption DEF Days
    <3>. QED BY <3>1, <3>2, <2>1, <2>3, <1>2
  <2>. QED BY <2>1, <2>4, <2>5
<1>8. RewrittenReturnsChain'
  BY <1>7 DEF RewrittenReturnsChain
<1>. QED BY <1>3, <1>4, <1>5, <1>6, <1>8 DEF Linked

LEMMA RepairStays ==
  ASSUME RepairTyped, repair' = repair, RowDates \subseteq RowDates'
  PROVE  RepairTyped'
BY DEF RepairTyped

LEMMA RebuildStays == ASSUME RebuildTyped, rebuild' = rebuild PROVE RebuildTyped'
BY DEF RebuildTyped

LEMMA RecoveryStays ==
  ASSUME RecoveryTyped, recovery' = recovery, RowDates \subseteq RowDates'
  PROVE  RecoveryTyped'
<1>1. RecoveryDates' = RecoveryDates
  BY DEF RecoveryDates
<1>. QED BY <1>1 DEF RecoveryTyped

LEMMA TakeRowInv ==
  ASSUME RowsInv, NEW date \in Days, TakeRow(date)
  PROVE  RowsInv'
<1>. DEFINE prev   == Before(date)
            cash   == Sum("cash", DOMAIN ledger)
            shares == Sum("shares", DOMAIN ledger)
            price  == IF shares = 0 THEN <<>> ELSE <<close[today]>>
            cost   == PaidFor(DOMAIN ledger, FALSE)
            return == Return(Value(cash, shares, price), Base(prev), RecordedIn(prev, date), price)
            new    == Row(cash, shares, cost, price, Base(prev), return)
<1>1. /\ rows' = [rows EXCEPT ![date] = new]
      /\ torn' = torn \ {date}
      /\ chained' = {d \in chained : d < date}
      /\ repair' = repair /\ rebuild' = rebuild /\ recovery' = recovery
  BY DEF TakeRow
<1>. HIDE DEF cash, shares, price, cost, return
<1>2. IsRow(new) /\ AddsUp(new)
  BY RowIsSound
<1>3. date \notin chained'
  BY <1>1, HistoryAssumption DEF Days
<1>. HIDE DEF new
<1>4. RowsTyped' /\ Sound' /\ Linked' /\ RowDates \subseteq RowDates'
  BY <1>1, <1>2, <1>3, OneRowInv
<1>5. RepairTyped' /\ RebuildTyped' /\ RecoveryTyped'
  BY <1>1, <1>4, RepairStays, RebuildStays, RecoveryStays DEF RowsInv
<1>. QED BY <1>4, <1>5 DEF RowsInv

LEMMA FinishRecoveryInv ==
  ASSUME RowsInv, recovery # NoRecovery, NEW seen, FinishRecovery(seen)
  PROVE  RowsInv'
<1>1. /\ rows' = [d \in Days |-> IF d \in RecoveryDates THEN RecoveredRow(d, seen) ELSE rows[d]]
      /\ chained' = (chained \ RecoveryDates) \union {d \in RecoveryDates : AsRecovered(d)}
      /\ torn' = torn /\ repair' = repair /\ rebuild' = rebuild /\ recovery' = NoRecovery
  BY DEF FinishRecovery
<1>2. RowsTyped /\ Sound /\ Linked /\ RecoveryDates \subseteq RowDates
  BY DEF RowsInv, RecoveryTyped
<1>3. ASSUME NEW d \in RecoveryDates
      PROVE  /\ d \in Days
             /\ IsRow(rows'[d])
             /\ rows'[d].total = rows[d].total
             /\ rows'[d].exists = TRUE
             /\ AddsUp(rows[d]) => AddsUp(rows'[d])
             /\ AsRecovered(d) => rows'[d].base = Base(Before(d))
  <2>. DEFINE loaded == recovery.loaded[d]
              prev   == LoadedBefore(recovery.loaded, d)
              base   == IF prev = 0 THEN <<>> ELSE <<recovery.loaded[prev].total>>
              return == RecomputedReturn(loaded.total, base, prev, d, seen)
              newBase   == BaseOf(return, base, loaded, rows[d])
              newReturn == Written(return, loaded.return, rows[d].return)
  <2>1. d \in Days /\ IsRow(rows[d])
    BY <1>2, RowsOfDates DEF RowDates
  <2>2. rows'[d] = RecoveredRow(d, seen)
    BY <1>1, <2>1
  <2>3. RecoveredRow(d, seen) = Remeasured(rows[d], newBase, newReturn)
    BY DEF RecoveredRow, Remeasured
  <2>4. AsRecovered(d) => newBase = Base(Before(d))
    <3>. SUFFICES ASSUME AsRecovered(d) PROVE newBase = Base(Before(d))
      OBVIOUS
    <3>1. /\ rows[d] = loaded /\ prev = Before(d)
          /\ prev # 0 => rows[prev] = recovery.loaded[prev]
      BY DEF AsRecovered
    <3>2. base = Base(Before(d))
      BY <3>1 DEF Base
    <3>. HIDE DEF loaded, prev, base, return
    <3>. QED BY <3>1, <3>2, BaseOfUnwritten
  <2>. HIDE DEF newBase, newReturn
  <2>5. /\ IsRow(rows'[d]) /\ rows'[d].base = newBase /\ rows'[d].total = rows[d].total
        /\ AddsUp(rows[d]) => AddsUp(rows'[d])
    BY <2>1, <2>2, <2>3, RemeasuredRow
  <2>. QED BY <2>1, <2>4, <2>5, NoRowIsNoRow
<1>4. \A d \in Days : d \notin RecoveryDates => rows'[d] = rows[d]
  BY <1>1
<1>5. \A d \in Days : rows'[d].exists = rows[d].exists
                        /\ (d \in RowDates => rows'[d].total = rows[d].total)
  <2>. SUFFICES ASSUME NEW d \in Days
                PROVE  rows'[d].exists = rows[d].exists
                         /\ (d \in RowDates => rows'[d].total = rows[d].total)
    OBVIOUS
  <2>1. CASE d \in RecoveryDates
    <3>1. IsRow(rows[d])
      BY <2>1, <1>2, RowsOfDates
    <3>. QED BY <2>1, <3>1, <1>3, NoRowIsNoRow
  <2>2. CASE d \notin RecoveryDates
    BY <2>2, <1>4
  <2>. QED BY <2>1, <2>2
<1>6. RowDates' = RowDates
  BY <1>5 DEF RowDates, Exists
<1>7. RowsTyped'
  <2>1. rows' = [d \in Days |-> rows'[d]]
    BY <1>1
  <2>. QED BY <2>1, <1>2, <1>3, <1>4 DEF RowsTyped
<1>8. Sound'
  <2>1. ASSUME NEW d \in RowDates, d \notin torn
        PROVE  AddsUp(rows'[d])
    <3>1. AddsUp(rows[d]) /\ d \in Days
      BY <1>2, <2>1 DEF Sound, RowDates
    <3>. QED BY <3>1, <1>3, <1>4
  <2>. QED BY <2>1, <1>1, <1>6 DEF Sound
<1>9. Linked'
  <2>1. ASSUME NEW d \in chained'
        PROVE  d \in RowDates /\ rows'[d].base = Base(Before(d))'
    <3>1. d \in RowDates /\ d \in Days
      BY <1>1, <1>2, <2>1 DEF Linked, RowDates
    <3>2. Base(Before(d))' = Base(Before(d))
      BY <3>1, <1>5, EarlierBasesStay
    <3>3. CASE d \in RecoveryDates
      <4>1. AsRecovered(d)
        BY <1>1, <2>1, <3>3
      <4>. QED BY <4>1, <3>1, <3>2, <3>3, <1>3
    <3>4. CASE d \notin RecoveryDates
      <4>1. d \in chained
        BY <1>1, <2>1, <3>4
      <4>2. rows[d].base = Base(Before(d))
        BY <4>1, <1>2 DEF Linked, RewrittenReturnsChain
      <4>. QED BY <4>2, <3>1, <3>2, <3>4, <1>4
    <3>. QED BY <3>3, <3>4
  <2>. QED BY <2>1, <1>6 DEF Linked, RewrittenReturnsChain
<1>10. RepairTyped' /\ RebuildTyped' /\ RecoveryTyped'
  BY <1>1, <1>6, RepairStays, RebuildStays DEF RowsInv, RecoveryTyped
<1>. QED BY <1>7, <1>8, <1>9, <1>10 DEF RowsInv

\* The row a repair leaves.
Repaired(now, loaded, price, total, base, return) ==
  [now EXCEPT !.total    = Written(total, loaded.total, @),
              !.invested = Written(loaded.cost, loaded.invested, @),
              !.gain     = Written(Equity(loaded.shares, price) - loaded.cost, loaded.gain, @),
              !.shares   = IF price = loaded.price THEN @ ELSE loaded.shares,
              !.cost     = IF price = loaded.price THEN @ ELSE loaded.cost,
              !.price    = Written(price, loaded.price, @),
              !.base     = base,
              !.return   = Written(return, loaded.return, @)]

\* A row that is as it was loaded is made to add up, whatever it was.
LEMMA RepairedRow ==
  ASSUME NEW now, IsRow(now), NEW loaded, NEW price, NEW base, NEW return, NEW total
  PROVE  LET q == Repaired(now, loaded, price, total, base, return)
         IN  /\ IsRow(q) /\ q.base = base
             /\ now = loaded /\ total = Value(loaded.cash, loaded.shares, price) => AddsUp(q)
<1>. DEFINE q == Repaired(now, loaded, price, total, base, return)
<1>1. /\ DOMAIN q = DOMAIN now
      /\ q.exists = now.exists
      /\ q.cash = now.cash
      /\ q.total = Written(total, loaded.total, now.total)
      /\ q.invested = Written(loaded.cost, loaded.invested, now.invested)
      /\ q.gain = Written(Equity(loaded.shares, price) - loaded.cost, loaded.gain, now.gain)
      /\ q.shares = IF price = loaded.price THEN now.shares ELSE loaded.shares
      /\ q.cost = IF price = loaded.price THEN now.cost ELSE loaded.cost
      /\ q.price = Written(price, loaded.price, now.price)
      /\ q.base = base
  BY DEF IsRow, Repaired
<1>. HIDE DEF q
<1>2. IsRow(q)
  BY <1>1 DEF IsRow
<1>3. ASSUME now = loaded, total = Value(loaded.cash, loaded.shares, price)
      PROVE  AddsUp(q)
  <2>1. /\ q.cash = loaded.cash /\ q.shares = loaded.shares /\ q.cost = loaded.cost
        /\ q.price = price /\ q.total = total /\ q.invested = loaded.cost
        /\ q.gain = Equity(loaded.shares, price) - loaded.cost
    BY <1>1, <1>3 DEF Written
  <2>. QED BY <2>1, <1>3 DEF AddsUp
<1>. QED BY <1>1, <1>2, <1>3 DEF q

LEMMA PendingIsFirst ==
  ASSUME RepairTyped, repair # NoRepair
  PROVE  /\ Pending \in repair.pending /\ Pending \in RowDates /\ Pending \in Days
         /\ \A d \in repair.pending : Pending <= d
<1>1. repair.pending # {} /\ repair.pending \subseteq RowDates /\ RowDates \subseteq Days
  BY DEF RepairTyped, RowDates
<1>2. repair.pending \in SUBSET Nat
  <2>1. Days \subseteq Nat
    BY HistoryAssumption DEF Days
  <2>. QED BY <1>1, <2>1
<1>3. Pending \in repair.pending /\ \A d \in repair.pending : Pending <= d
  BY <1>1, <1>2, MinOfNumbers DEF Pending
<1>. QED BY <1>1, <1>3

LEMMA RepairGoesForward ==
  ASSUME RepairTyped, repair # NoRepair, NEW ended \in {{}, {Pending}}, RepairGoesOn(ended),
         RowDates \subseteq RowDates'
  PROVE  RepairTyped'
<1>. DEFINE left == repair.pending \ {Pending}
            done == repair.ended \union ended
<1>1. CASE left = {}
  <2>1. repair' = NoRepair
    BY <1>1 DEF RepairGoesOn
  <2>. QED BY <2>1 DEF RepairTyped
<1>2. CASE left # {}
  <2>1. repair' = [pending |-> left, held |-> repair.held, ended |-> done,
                   known |-> KnownNext(ended)]
    BY <1>2 DEF RepairGoesOn
  <2>2. repair'.pending = left /\ repair'.ended = done
        /\ repair' = [pending |-> repair'.pending, held |-> repair'.held, ended |-> repair'.ended,
                      known |-> repair'.known]
    BY <2>1
  <2>3. left \subseteq RowDates'
    BY DEF RepairTyped
  <2>4. ASSUME NEW e \in done, NEW d \in left
        PROVE  e < d
    <3>1. CASE e \in repair.ended
      BY <3>1, <2>4 DEF RepairTyped
    <3>2. CASE e = Pending
      <4>1. Pending \in Nat /\ d \in Nat /\ Pending <= d /\ d # Pending
        BY <2>4, PendingIsFirst, HistoryAssumption DEF RepairTyped, RowDates, Days
      <4>. QED BY <4>1, <3>2
    <3>. QED BY <3>1, <3>2, <2>4
  <2>. QED BY <2>2, <2>3, <2>4, <1>2 DEF RepairTyped
<1>. QED BY <1>1, <1>2

LEMMA RepairRowInv ==
  ASSUME RowsInv, RepairRow
  PROVE  RowsInv'
<1>. DEFINE date   == Pending
            loaded == repair.known[date]
            price  == <<HistoricalPrice(date)>>
            total  == Value(RepairCash(loaded), loaded.shares, price)
            prev   == Before(date)
            base   == IF prev = 0 THEN <<>> ELSE <<InSession(prev).total>>
            return == RecomputedReturn(total, base, prev, date, Len(ledger))
            now    == rows[date]
            newBase == BaseOf(return, base, loaded, now)
            new     == Repaired(now, loaded, price, total, newBase, return)
            AsKnown == now = loaded /\ (prev # 0 => InSession(prev) = rows[prev])
<1>1. /\ rows' = [rows EXCEPT ![date] = new]
      /\ torn' = IF now = loaded THEN torn ELSE torn \union {date}
      /\ chained' = {d \in chained : d < date \/ d \in repair.ended}
                      \union {d \in {date} : AsKnown}
      /\ repair # NoRepair
      /\ RepairGoesOn({date})
      /\ rebuild' = rebuild /\ recovery' = recovery
  BY DEF RepairRow, Repaired
<1>2. RowsTyped /\ RepairTyped /\ Sound
  BY DEF RowsInv
<1>3. date \in repair.pending /\ date \in RowDates /\ date \in Days
  BY <1>1, <1>2, PendingIsFirst
<1>4. IsRow(now)
  BY <1>2, <1>3, RowsOfDates
<1>5. total = Value(loaded.cash, loaded.shares, price)
  BY DEF RepairCash
<1>6. AsKnown => newBase = Base(prev)
  <2>. SUFFICES ASSUME AsKnown PROVE newBase = Base(prev)
    OBVIOUS
  <2>1. now = loaded /\ base = Base(prev)
    BY DEF Base
  <2>. HIDE DEF loaded, base, return, now
  <2>. QED BY <2>1, BaseOfUnwritten
<1>7. IsRow(new) /\ new.base = newBase /\ (now = loaded => AddsUp(new))
  <2>. HIDE DEF loaded, price, total, return, now, prev, date, newBase
  <2>. QED BY <1>4, <1>5, RepairedRow
<1>8. \A e \in repair.ended : e < date
  BY <1>1, <1>2, <1>3 DEF RepairTyped
<1>. HIDE DEF loaded, price, total, base, return, now, newBase, new
<1>9. RowsTyped' /\ Sound' /\ Linked' /\ RowDates \subseteq RowDates'
  <2>1. chained' \subseteq {d \in chained : d < date} \union {date}
    BY <1>1, <1>8
  <2>2. date \in torn' \/ AddsUp(new)
    BY <1>1, <1>7
  <2>3. \A d \in Days : d # date /\ d \in torn => d \in torn'
    BY <1>1
  <2>4. date \in chained' => new.base = Base(Before(date))
    <3>. SUFFICES ASSUME date \in chained' PROVE new.base = Base(prev)
      OBVIOUS
    <3>1. date \in Nat /\ date \notin repair.ended
      BY <1>3, <1>8, HistoryAssumption DEF Days
    <3>2. ~(date < date)
      BY <3>1
    <3>. HIDE DEF AsKnown
    <3>3. AsKnown
      BY <3>1, <3>2, <1>1
    <3>. QED BY <3>3, <1>6, <1>7
  <2>. HIDE DEF date, prev
  <2>. QED BY <1>1, <1>3, <1>7, <2>1, <2>2, <2>3, <2>4, OneRowInv DEF prev
<1>10. RepairTyped' /\ RebuildTyped' /\ RecoveryTyped'
  BY <1>1, <1>2, <1>9, RepairGoesForward, RebuildStays, RecoveryStays DEF RowsInv
<1>. QED BY <1>9, <1>10 DEF RowsInv

-----------------------------------------------------------------------------
(* What a rebuild writes.                                                  *)

BuiltDay(b, found, d) ==
  IF d = 0 THEN PriorRow
  ELSE IF d \notin RebuildDates THEN b[d - 1]
  ELSE [date |-> d, base |-> <<RebuiltRow(d, found, b[d - 1]).total>>,
        row  |-> RebuiltRow(d, found, b[d - 1])]

\* The days up to n, each built after the one before it.
IsBuilt(b, found, n) == b = [d \in 0..n |-> BuiltDay(b, found, d)]

LEMMA BuiltExists ==
  ASSUME NEW found
  PROVE  \E b : IsBuilt(b, found, LastDate)
<1>. DEFINE Bad == {n \in Nat : ~ \E b : IsBuilt(b, found, n)}
<1>1. Bad = {}
  <2>. SUFFICES ASSUME Bad # {} PROVE FALSE
    OBVIOUS
  <2>1. Bad \in SUBSET Nat
    OBVIOUS
  <2>2. PICK n \in Bad : \A k \in Bad : n <= k
    BY <2>1, LeastNumber
  <2>3. n # 0
    <3>. SUFFICES ASSUME n = 0 PROVE FALSE
      OBVIOUS
    <3>. DEFINE b == [d \in 0..0 |-> PriorRow]
    <3>1. IsBuilt(b, found, 0)
      BY DEF IsBuilt, BuiltDay
    <3>. QED BY <3>1, <2>2
  <2>4. n - 1 \in Nat /\ n - 1 \notin Bad
    <3>. HIDE DEF Bad
    <3>. QED BY <2>1, <2>2, <2>3
  <2>5. PICK b : IsBuilt(b, found, n - 1)
    BY <2>4
  <2>. DEFINE c == [d \in 0..n |-> BuiltDay(b, found, d)]
  <2>6. ASSUME NEW d \in 0..n
        PROVE  BuiltDay(b, found, d) = BuiltDay(c, found, d)
    <3>1. CASE d = 0
      BY <3>1 DEF BuiltDay
    <3>2. CASE d # 0
      <4>1. d - 1 \in 0..(n - 1) /\ d - 1 \in 0..n
        BY <2>4, <3>2
      <4>2. b[d - 1] = BuiltDay(b, found, d - 1)
        BY <4>1, <2>5 DEF IsBuilt
      <4>3. c[d - 1] = BuiltDay(b, found, d - 1)
        BY <4>1
      <4>. HIDE DEF c
      <4>. QED BY <4>2, <4>3, <3>2 DEF BuiltDay
    <3>. QED BY <3>1, <3>2
  <2>7. IsBuilt(c, found, n)
    BY <2>6 DEF IsBuilt
  <2>. HIDE DEF c
  <2>. QED BY <2>7, <2>2
<1>. QED BY <1>1, HistoryAssumption

LEMMA RebuiltRowsAreBuilt ==
  ASSUME NEW found
  PROVE  \E b : /\ IsBuilt(b, found, LastDate)
                /\ RebuiltRows(found) = [d \in RebuildDates |-> b[d].row]
<1>. DEFINE b == CHOOSE b : IsBuilt(b, found, LastDate)
<1>1. IsBuilt(b, found, LastDate)
  BY BuiltExists
<1>2. RebuiltRows(found) = [d \in RebuildDates |-> b[d].row]
  BY DEF RebuiltRows, IsBuilt, BuiltDay
<1>. QED BY <1>1, <1>2

\* The row of a date is reconstructed after some earlier one.
LEMMA RebuiltRowIsSound ==
  ASSUME RebuildTyped, rebuild # NoRebuild, NEW found, NEW d \in RebuildDates
  PROVE  IsRow(RebuiltRows(found)[d]) /\ AddsUp(RebuiltRows(found)[d])
<1>1. PICK b : /\ IsBuilt(b, found, LastDate)
               /\ RebuiltRows(found) = [e \in RebuildDates |-> b[e].row]
  BY RebuiltRowsAreBuilt
<1>2. d \in 0..LastDate /\ d # 0
  BY HistoryAssumption DEF RebuildDates, RebuildTyped, Days
<1>3. b[d] = BuiltDay(b, found, d)
  BY <1>1, <1>2 DEF IsBuilt
<1>4. b[d].row = RebuiltRow(d, found, b[d - 1])
  BY <1>2, <1>3 DEF BuiltDay
<1>5. RebuiltRows(found)[d] = RebuiltRow(d, found, b[d - 1])
  BY <1>1, <1>4
<1>. DEFINE seen   == rebuild.seen
            cash   == Sum("cash", Upto(d, seen))
            shares == Sum("shares", Upto(d, seen))
            price  == IF shares > 0 THEN DownloadedPrice(d, found) ELSE <<>>
            cost   == PaidFor(Upto(d, seen), TRUE)
            base   == b[d - 1].base
            return == Return(Value(cash, shares, price), base, DatedIn(b[d - 1].date, d, seen), price)
<1>6. RebuiltRow(d, found, b[d - 1]) = Row(cash, shares, cost, price, base, return)
  BY DEF RebuiltRow
<1>. HIDE DEF cash, shares, price, cost, base, return
<1>. QED BY <1>5, <1>6, RowIsSound

\* A row that is as it was loaded becomes the new one.
LEMMA MergedRow ==
  ASSUME NEW new, NEW loaded, NEW now
  PROVE  /\ IsRow(Merged(new, loaded, now))
         /\ now = loaded /\ AddsUp(new) => AddsUp(Merged(new, loaded, now))
<1>. DEFINE q == Merged(new, loaded, now)
<1>1. /\ q.total = Written(new.total, loaded.total, now.total)
      /\ q.cash = Written(new.cash, loaded.cash, now.cash)
      /\ q.invested = Written(new.invested, loaded.invested, now.invested)
      /\ q.gain = Written(new.gain, loaded.gain, now.gain)
      /\ q.shares = Written(Holdings(new), Holdings(loaded), Holdings(now)).shares
      /\ q.cost = Written(Holdings(new), Holdings(loaded), Holdings(now)).cost
      /\ q.price = Written(Holdings(new), Holdings(loaded), Holdings(now)).price
  BY DEF Merged
<1>2. IsRow(q)
  BY DEF Merged, IsRow
<1>. HIDE DEF q
<1>3. ASSUME now = loaded, AddsUp(new)
      PROVE  AddsUp(q)
  <2>1. q.total = new.total /\ q.cash = new.cash /\ q.invested = new.invested /\ q.gain = new.gain
    BY <1>1, <1>3 DEF Written
  <2>2. Written(Holdings(new), Holdings(loaded), Holdings(now)) = Holdings(new)
    BY <1>3 DEF Written
  <2>3. q.shares = new.shares /\ q.cost = new.cost /\ q.price = new.price
    BY <1>1, <2>2 DEF Holdings
  <2>. QED BY <2>1, <2>3, <1>3 DEF AddsUp
<1>. QED BY <1>2, <1>3 DEF q

LEMMA FinishRebuildInv ==
  ASSUME RowsInv, rebuild # NoRebuild, NEW found, FinishRebuild(found)
  PROVE  RowsInv'
<1>. DEFINE new(d) == RebuiltRows(found)[d]
            merged(d) == Merged(new(d), rebuild.loaded[d], rows[d])
<1>1. /\ rows' = [d \in Days |-> IF d \in RebuildDates THEN merged(d) ELSE rows[d]]
      /\ torn' = (torn \ RebuildDates) \union {d \in RebuildDates : rows[d] # rebuild.loaded[d]}
      /\ chained' = {d \in chained : d < rebuild.from}
      /\ rebuild' = NoRebuild
      /\ repair' = repair /\ recovery' = recovery
  BY DEF FinishRebuild
<1>2. RowsTyped /\ RepairTyped /\ RebuildTyped /\ Sound /\ Linked
  BY DEF RowsInv
<1>3. rebuild.from \in Nat /\ Days \subseteq Nat
  BY <1>2, HistoryAssumption DEF RebuildTyped, Days
<1>4. ASSUME NEW d \in RebuildDates
      PROVE  /\ d \in Days /\ ~(d < rebuild.from)
             /\ rows'[d] = merged(d)
             /\ IsRow(rows'[d])
             /\ rows[d] = rebuild.loaded[d] => AddsUp(rows'[d])
  <2>1. d \in Days /\ ~(d < rebuild.from)
    BY <1>2, <1>3, HistoryAssumption DEF RebuildDates, RebuildTyped, Days
  <2>2. AddsUp(new(d))
    BY <1>2, RebuiltRowIsSound
  <2>3. IsRow(merged(d)) /\ (rows[d] = rebuild.loaded[d] => AddsUp(merged(d)))
    BY <2>2, MergedRow
  <2>4. rows'[d] = merged(d)
    BY <1>1, <2>1
  <2>. HIDE DEF merged
  <2>. QED BY <2>1, <2>3, <2>4
<1>5. \A d \in Days : d \notin RebuildDates => rows'[d] = rows[d]
  BY <1>1
<1>6. rows' = [d \in Days |-> rows'[d]]
  BY <1>1
<1>. HIDE DEF merged, new
<1>7. RowsTyped'
  BY <1>2, <1>4, <1>5, <1>6 DEF RowsTyped
<1>8. RowDates \subseteq RowDates'
  BY <1>4, <1>5, NoRowIsNoRow DEF RowDates, Exists
<1>9. Sound'
  <2>1. ASSUME NEW d \in RowDates', d \notin torn'
        PROVE  AddsUp(rows'[d])
    <3>1. d \in Days /\ Exists(d)'
      BY <2>1 DEF RowDates
    <3>2. CASE d \in RebuildDates
      BY <3>2, <2>1, <1>1, <1>4
    <3>3. CASE d \notin RebuildDates
      <4>1. d \in RowDates /\ d \notin torn
        BY <3>1, <3>3, <2>1, <1>1, <1>5 DEF RowDates, Exists
      <4>. QED BY <4>1, <3>1, <3>3, <1>2, <1>5 DEF Sound
    <3>. QED BY <3>2, <3>3
  <2>. QED BY <2>1 DEF Sound
<1>10. Linked'
  <2>1. ASSUME NEW d \in chained'
        PROVE  rows'[d].base = Base(Before(d))'
    <3>1. d \in chained /\ d < rebuild.from /\ d \in RowDates /\ d \in Days
      BY <1>1, <1>2, <2>1 DEF Linked, RowDates
    <3>2. ASSUME NEW e \in Days, e < d \/ e = d
          PROVE  rows'[e] = rows[e]
      <4>1. e \in Nat /\ d \in Nat
        BY <3>1, <1>3
      <4>2. e < rebuild.from
        BY <4>1, <3>1, <3>2, <1>3
      <4>3. e \notin RebuildDates
        BY <4>2, <1>4
      <4>. QED BY <4>3, <1>5
    <3>3. Base(Before(d))' = Base(Before(d))
      BY <3>1, <3>2, EarlierBasesStay
    <3>4. rows[d].base = Base(Before(d))
      BY <3>1, <1>2 DEF Linked, RewrittenReturnsChain
    <3>. QED BY <3>1, <3>2, <3>3, <3>4
  <2>2. chained' \subseteq RowDates'
    BY <1>1, <1>2, <1>8 DEF Linked
  <2>. QED BY <2>1, <2>2 DEF Linked, RewrittenReturnsChain
<1>11. RepairTyped' /\ RebuildTyped' /\ RecoveryTyped'
  BY <1>1, <1>2, <1>8, RepairStays, RecoveryStays DEF RowsInv, RebuildTyped
<1>. QED BY <1>7, <1>9, <1>10, <1>11 DEF RowsInv

-----------------------------------------------------------------------------
(* The steps that write no row.                                            *)

LEMMA RowsStay ==
  ASSUME RowsInv, UNCHANGED <<rows, torn, chained>>, RepairTyped', RebuildTyped', RecoveryTyped'
  PROVE  RowsInv'
<1>1. RowDates' = RowDates
  BY DEF RowDates, Exists
<1>2. Sound' /\ Linked' /\ RowsTyped'
  BY <1>1 DEF RowsInv, Sound, Linked, RowsTyped, RewrittenReturnsChain, Base, Before
<1>. QED BY <1>2 DEF RowsInv

LEMMA StartRepairInv ==
  ASSUME RowsInv, NEW dates \in SUBSET RowDates, NEW held, StartRepair(dates, held)
  PROVE  RowsInv'
<1>1. PICK known : repair' = [pending |-> dates, held |-> held, ended |-> {}, known |-> known]
  BY DEF StartRepair
<1>2. dates # {} /\ UNCHANGED <<rows, torn, chained, rebuild, recovery>>
  BY DEF StartRepair
<1>3. repair'.pending = dates /\ repair'.held = held /\ repair'.ended = {} /\ repair'.known = known
  BY <1>1
<1>4. RowDates' = RowDates
  BY <1>2 DEF RowDates, Exists
<1>5. RepairTyped'
  BY <1>1, <1>2, <1>3, <1>4 DEF RepairTyped
<1>. QED BY <1>2, <1>4, <1>5, RowsStay, RebuildStays, RecoveryStays DEF RowsInv

LEMMA RepairLoadsInv ==
  ASSUME RowsInv, RepairLoads
  PROVE  RowsInv'
<1>1. repair # NoRepair /\ UNCHANGED <<rows, torn, chained, rebuild, recovery>>
  BY DEF RepairLoads
<1>2. RepairTyped /\ RowDates' = RowDates
  BY <1>1 DEF RowsInv, RowDates, Exists
<1>3. repair = [pending |-> repair.pending, held |-> repair.held, ended |-> repair.ended,
                known |-> repair.known]
  BY <1>1, <1>2 DEF RepairTyped
<1>4. PICK known : repair' = [repair EXCEPT !.known = known]
  BY DEF RepairLoads
<1>5. repair' = [pending |-> repair.pending, held |-> repair.held, ended |-> repair.ended,
                 known |-> known]
  BY <1>3, <1>4
<1>6. /\ repair'.pending = repair.pending /\ repair'.held = repair.held
      /\ repair'.ended = repair.ended /\ repair'.known = known
  BY <1>5
<1>7. RepairTyped'
  BY <1>1, <1>2, <1>5, <1>6 DEF RepairTyped
<1>. QED BY <1>1, <1>2, <1>7, RowsStay, RebuildStays, RecoveryStays DEF RowsInv

LEMMA SkipRowInv ==
  ASSUME RowsInv, SkipRow
  PROVE  RowsInv'
<1>1. /\ repair # NoRepair /\ RepairGoesOn({})
      /\ UNCHANGED <<rows, torn, chained, rebuild, recovery>>
  BY DEF SkipRow
<1>2. RowDates' = RowDates
  BY <1>1 DEF RowDates, Exists
<1>3. RepairTyped'
  BY <1>1, <1>2, RepairGoesForward DEF RowsInv
<1>. QED BY <1>1, <1>2, <1>3, RowsStay, RebuildStays, RecoveryStays DEF RowsInv

LEMMA QuietInv ==
  ASSUME RowsInv, UNCHANGED <<rows, torn, chained, repair>>, RebuildTyped',
         RecoveryTyped' \/ recovery' = recovery
  PROVE  RowsInv'
<1>1. RowDates' = RowDates
  BY DEF RowDates, Exists
<1>2. RecoveryTyped'
  BY <1>1, RecoveryStays DEF RowsInv
<1>. QED BY <1>1, <1>2, RowsStay, RepairStays DEF RowsInv

LEMMA StartRecoveryInv ==
  ASSUME RowsInv, StartRecovery
  PROVE  RowsInv'
<1>1. /\ recovery' = [loaded |-> rows, seen |-> Len(ledger)]
      /\ UNCHANGED <<rows, torn, chained, repair, rebuild>>
  BY DEF StartRecovery
<1>2. recovery'.loaded = rows /\ recovery'.seen = Len(ledger)
  BY <1>1
<1>3. RecoveryDates' = RowDates /\ RowDates' = RowDates
  BY <1>1, <1>2 DEF RecoveryDates, RowDates, Exists
<1>4. RecoveryTyped'
  BY <1>1, <1>2, <1>3 DEF RecoveryTyped
<1>. QED BY <1>1, <1>4, QuietInv, RebuildStays DEF RowsInv

LEMMA StepInv == RowsInv /\ [HistoryNext]_historyVars => RowsInv'
<1>. SUFFICES ASSUME RowsInv, [HistoryNext]_historyVars PROVE RowsInv'
  OBVIOUS
<1>. USE DEF RowsInv
<1>1. ASSUME NEW p \in Closes, TurnDay(p) PROVE RowsInv'
  BY <1>1, QuietInv, RebuildStays DEF TurnDay
<1>2. ASSUME NEW d \in Days, Enter(d) PROVE RowsInv'
  BY <1>2, QuietInv, RebuildStays DEF Enter
<1>3. ASSUME NEW d \in Days, StartRebuild(d) PROVE RowsInv'
  <2>1. rebuild' = [from |-> d, seen |-> Len(ledger), loaded |-> rows]
    BY <1>3 DEF StartRebuild
  <2>2. RebuildTyped'
    BY <2>1 DEF RebuildTyped
  <2>. QED BY <1>3, <2>2, QuietInv DEF StartRebuild
<1>4. ASSUME NEW from \in Days, NEW to \in Days, StartRepair(RowDates \intersect (from..to), TRUE)
      PROVE  RowsInv'
  BY <1>4, StartRepairInv
<1>5. CASE StartRepair({d \in RowDates : Suspicious(d)}, FALSE)
  <2>. DEFINE dates == {d \in RowDates : Suspicious(d)}
  <2>1. dates \in SUBSET RowDates
    OBVIOUS
  <2>. HIDE DEF dates
  <2>2. StartRepair(dates, FALSE)
    BY <1>5 DEF dates
  <2>. QED BY <2>1, <2>2, StartRepairInv
<1>6. CASE AbandonRebuild
  <2>1. RebuildTyped'
    BY <1>6 DEF AbandonRebuild, RebuildTyped
  <2>. QED BY <1>6, <2>1, QuietInv DEF AbandonRebuild
<1>7. CASE UNCHANGED historyVars
  BY <1>7, QuietInv, RebuildStays DEF historyVars
<1>8. CASE AbandonRecovery
  <2>1. RecoveryTyped'
    BY <1>8 DEF AbandonRecovery, RecoveryTyped
  <2>. QED BY <1>8, <2>1, QuietInv, RebuildStays DEF AbandonRecovery
<1>9. CASE StartRecovery
  BY <1>9, StartRecoveryInv
<1>10. ASSUME recovery # NoRecovery, NEW seen \in 0..Len(ledger), FinishRecovery(seen)
       PROVE  RowsInv'
  BY <1>10, FinishRecoveryInv
<1>. QED BY <1>1, <1>2, <1>3, <1>4, <1>5, <1>6, <1>7, <1>8, <1>9, <1>10, TakeRowInv, RepairLoadsInv,
            SkipRowInv, RepairRowInv, FinishRebuildInv DEF HistoryNext

LEMMA RowsAlwaysInv == HistorySpec => []RowsInv
BY InitInv, StepInv, PTL DEF HistorySpec

-----------------------------------------------------------------------------

LEMMA FindingsExplained == RowsInv => RowsAddUp
<1>. SUFFICES ASSUME RowsInv, NEW finding \in VerifySnapshots, finding[1] \notin torn
              PROVE  rows[finding[1]].price = <<>> /\ finding[2] \in {"unrealized_pnl", "price_missing"}
  BY DEF RowsAddUp
<1>1. PICK d \in RowDates : \E f \in RowAudit(rows[d]) : finding = <<d, f>>
  BY DEF VerifySnapshots
<1>2. PICK f \in RowAudit(rows[d]) : finding = <<d, f>>
  BY <1>1
<1>3. AddsUp(rows[d])
  BY <1>2 DEF RowsInv, Sound
<1>4. f \in HoldingsAudit(rows[d]) \/ f \in PriceAudit(rows[d])
  BY DEF RowAudit
<1>5. CASE f \in PriceAudit(rows[d])
  BY <1>5, <1>2 DEF PriceAudit
<1>6. CASE f \in HoldingsAudit(rows[d])
  <2>1. f = "unrealized_pnl" /\ rows[d].price = <<>>
    BY <1>6, <1>3 DEF HoldingsAudit, AddsUp
  <2>. QED BY <2>1, <1>2
<1>. QED BY <1>4, <1>5, <1>6

\* The audit of the stored snapshots finds a sum that does not fit only in a row
\* written between the reading and the writing of a repair or a rebuild.
THEOREM RowsAlwaysAddUp == HistorySpec => []RowsAddUp
BY RowsAlwaysInv, FindingsExplained, PTL

\* No return that a repair or a recovery left refers to a value that is no
\* longer there, until its row or an earlier one is written again.
THEOREM ReturnsStayChained == HistorySpec => []RewrittenReturnsChain
<1>1. RowsInv => RewrittenReturnsChain
  BY DEF RowsInv, Linked
<1>. QED BY <1>1, RowsAlwaysInv, PTL

-----------------------------------------------------------------------------
(* The ledger and the days, for what a rebuild computes from them.         *)

EntryRecord ==
  [kind : {"cash", "trade", "import", "dividend"}, created : Int, dated : Int,
   cash : Int, shares : Int, price : Int]

EntryOK(e) ==
  /\ e.dated \in 1..today
  /\ e.kind \in {"cash", "dividend"} => e.shares = 0
  /\ e.kind = "import" => e.cash = 0

DaysOK ==
  /\ today \in Days
  /\ close \in Seq(Closes) /\ Len(close) = today
  /\ RowDates \subseteq 1..today

EntriesOK ==
  /\ ledger \in Seq(EntryRecord)
  /\ \A k \in DOMAIN ledger : EntryOK(ledger[k])

RebuildOK ==
  rebuild = NoRebuild \/
    /\ rebuild.from \in Days
    /\ rebuild.seen \in 0..Len(ledger)
    /\ \A d \in Days : rebuild.loaded[d].exists => d \in 1..today

LedgerOK == DaysOK /\ EntriesOK /\ RebuildOK

LEMMA LedgerInit == HistoryInit => LedgerOK
<1>. SUFFICES ASSUME HistoryInit PROVE LedgerOK
  OBVIOUS
<1>1. today = 1 /\ 1 \in Days /\ rebuild = NoRebuild
  BY HistoryAssumption DEF HistoryInit, Days
<1>2. PICK p \in Closes : close = <<p>>
  BY DEF HistoryInit
<1>3. close \in Seq(Closes) /\ Len(close) = 1
  BY <1>2
<1>4. PICK cost \in ImportCosts :
        /\ ledger = <<Entry("cash", 1, 1, Opening, 0, 0), Entry("import", 1, 1, 0, 1, cost)>>
        /\ rows = [d \in Days |-> IF d = 1 THEN Row(Opening, 1, cost, <<cost>>, <<>>, <<>>) ELSE NoRow]
  BY DEF HistoryInit
<1>. DEFINE e == Entry("cash", 1, 1, Opening, 0, 0)
            i == Entry("import", 1, 1, 0, 1, cost)
<1>5. e \in EntryRecord /\ i \in EntryRecord
  BY HistoryAssumption DEF Entry, EntryRecord
<1>6. EntryOK(e) /\ EntryOK(i)
  BY <1>1 DEF Entry, EntryOK
<1>. HIDE DEF e, i
<1>7. EntriesOK
  <2>1. ledger = <<e, i>>
    BY <1>4 DEF e, i
  <2>. QED BY <2>1, <1>5, <1>6 DEF EntriesOK
<1>8. RowDates \subseteq 1..today
  BY <1>1, <1>4 DEF RowDates, Exists, NoRow
<1>. QED BY <1>1, <1>3, <1>7, <1>8 DEF LedgerOK, DaysOK, RebuildOK

LEMMA ClosePrices ==
  ASSUME DaysOK, NEW d \in 1..today
  PROVE  close[d] \in Nat /\ close[d] > 0
<1>1. close[d] \in Closes
  BY LenProperties DEF DaysOK
<1>2. close[d] \in Nat \ {0}
  BY <1>1, HistoryAssumption
<1>. QED BY <1>2

LEMMA EntryFields ==
  ASSUME EntriesOK, NEW k \in DOMAIN ledger
  PROVE  /\ ledger[k].kind \in {"cash", "trade", "import", "dividend"}
         /\ ledger[k].cash \in Int /\ ledger[k].shares \in Int /\ ledger[k].price \in Int
         /\ ledger[k].dated \in Int /\ EntryOK(ledger[k])
<1>1. ledger[k] \in EntryRecord
  BY LenProperties DEF EntriesOK
<1>. QED BY <1>1 DEF EntriesOK, EntryRecord

LEMMA SumOfField ==
  ASSUME EntriesOK, NEW ids \in SUBSET DOMAIN ledger, NEW field \in {"cash", "shares", "price"}
  PROVE  /\ IsFiniteSet(ids)
         /\ Sum(field, ids) = SumFunctionOnSet([k \in DOMAIN ledger |-> ledger[k][field]], ids)
         /\ Sum(field, ids) \in Int
<1>1. DOMAIN ledger = 1..Len(ledger) /\ Len(ledger) \in Nat
  BY LenProperties DEF EntriesOK
<1>2. IsFiniteSet(ids)
  <2>1. IsFiniteSet(1..Len(ledger))
    BY <1>1, FS_Interval
  <2>. QED BY <1>1, <2>1, FS_Subset
<1>. DEFINE f == [k \in ids |-> ledger[k][field]]
            g == [k \in DOMAIN ledger |-> ledger[k][field]]
<1>3. \A k \in ids : f[k] = g[k] /\ f[k] \in Int
  BY EntryFields
<1>4. Sum(field, ids) = SumFunctionOnSet(f, ids)
  BY DEF Sum, SumFunction
<1>. HIDE DEF f
<1>5. SumFunctionOnSet(f, ids) = SumFunctionOnSet(g, ids)
  <2>. HIDE DEF g
  <2>. QED BY <1>2, <1>3, SumExtends
<1>6. SumFunctionOnSet(f, ids) \in Int
  BY <1>2, <1>3, SumType
<1>. QED BY <1>2, <1>4, <1>5, <1>6

LEMMA OneEntryMore ==
  ASSUME EntriesOK, UNCHANGED today, NEW e \in EntryRecord, EntryOK(e), ledger' = Append(ledger, e)
  PROVE  EntriesOK' /\ Len(ledger)' = Len(ledger) + 1
<1>. DEFINE new == Append(ledger, e)
<1>1. /\ new \in Seq(EntryRecord) /\ Len(new) = Len(ledger) + 1
      /\ \A k \in 1..Len(ledger) : new[k] = ledger[k]
      /\ new[Len(ledger) + 1] = e
  BY AppendProperties DEF EntriesOK
<1>2. DOMAIN ledger = 1..Len(ledger) /\ DOMAIN new = 1..Len(new) /\ Len(ledger) \in Nat
  BY <1>1, LenProperties DEF EntriesOK
<1>3. ASSUME NEW k \in DOMAIN new
      PROVE  EntryOK(new[k])'
  <2>1. new[k] = e \/ (k \in DOMAIN ledger /\ new[k] = ledger[k])
    BY <1>1, <1>2, <1>3
  <2>2. EntryOK(new[k])
    BY <2>1 DEF EntriesOK
  <2>. QED BY <2>2 DEF EntryOK
<1>. QED BY <1>1, <1>3 DEF EntriesOK

LEMMA EnterOK ==
  ASSUME LedgerOK, NEW dated \in Days, Enter(dated)
  PROVE  LedgerOK'
<1>1. /\ UNCHANGED <<today, close, rows, rebuild>> /\ dated <= today
  BY DEF Enter
<1>2. today \in Nat /\ dated \in 1..today /\ today \in Days
  BY <1>1, HistoryAssumption DEF LedgerOK, DaysOK, Days
<1>3. close[dated] \in Int
  BY <1>2, ClosePrices DEF LedgerOK
<1>. DEFINE held == Sum("shares", DOMAIN ledger)
<1>4. held \in Int
  BY SumOfField DEF LedgerOK
<1>. DEFINE new(kind, cash, shares, price) == Entry(kind, today, dated, cash, shares, price)
            sound(e) == e \in EntryRecord /\ EntryOK(e)
<1>5. \A cost \in ImportCosts : cost \in Int
  BY HistoryAssumption
<1>6. ASSUME NEW kind \in {"cash", "trade", "import", "dividend"},
             NEW cash \in Int, NEW shares \in Int, NEW price \in Int,
             kind \in {"cash", "dividend"} => shares = 0, kind = "import" => cash = 0
      PROVE  sound(new(kind, cash, shares, price))
  BY <1>2, <1>6 DEF Entry, EntryRecord, EntryOK
<1>7. \E e : sound(e) /\ ledger' = Append(ledger, e)
  <2>. HIDE DEF held
  <2>1. sound(new("cash", 1, 0, 0)) /\ sound(new("dividend", 1, 0, 0))
    BY <1>6
  <2>2. sound(new("trade", -close[dated], 1, close[dated]))
    BY <1>3, <1>6
  <2>3. sound(new("trade", held * close[dated], -held, 0))
    BY <1>3, <1>4, <1>6
  <2>4. \A cost \in ImportCosts : sound(new("import", 0, 1, cost))
    BY <1>5, <1>6
  <2>5. \/ ledger' = Append(ledger, new("cash", 1, 0, 0))
        \/ ledger' = Append(ledger, new("trade", -close[dated], 1, close[dated]))
        \/ ledger' = Append(ledger, new("trade", held * close[dated], -held, 0))
        \/ \E cost \in ImportCosts : ledger' = Append(ledger, new("import", 0, 1, cost))
        \/ ledger' = Append(ledger, new("dividend", 1, 0, 0))
    BY DEF Enter, held
  <2>. HIDE DEF new, sound
  <2>6. ASSUME NEW cost \in ImportCosts, ledger' = Append(ledger, new("import", 0, 1, cost))
        PROVE  \E e : sound(e) /\ ledger' = Append(ledger, e)
    BY <2>4, <2>6
  <2>. QED BY <2>1, <2>2, <2>3, <2>5, <2>6, Zenon
<1>8. EntriesOK' /\ Len(ledger)' = Len(ledger) + 1
  BY <1>1, <1>7, OneEntryMore DEF LedgerOK
<1>9. Len(ledger) \in Nat
  BY LenProperties DEF LedgerOK, EntriesOK
<1>10. RebuildOK'
  BY <1>1, <1>8, <1>9 DEF LedgerOK, RebuildOK
<1>11. DaysOK'
  BY <1>1 DEF LedgerOK, DaysOK, RowDates, Exists
<1>. QED BY <1>8, <1>10, <1>11 DEF LedgerOK

LEMMA TurnDayOK ==
  ASSUME LedgerOK, NEW p \in Closes, TurnDay(p)
  PROVE  LedgerOK'
<1>1. /\ today < LastDate /\ today' = today + 1 /\ close' = Append(close, p)
      /\ UNCHANGED <<ledger, rows, rebuild>>
  BY DEF TurnDay
<1>2. today \in Nat /\ today' \in Days /\ \A d \in 1..today : d \in 1..today'
  BY <1>1, HistoryAssumption DEF LedgerOK, DaysOK, Days
<1>3. close' \in Seq(Closes) /\ Len(close)' = today'
  BY <1>1, AppendProperties DEF LedgerOK, DaysOK
<1>4. DaysOK'
  BY <1>1, <1>2, <1>3 DEF LedgerOK, DaysOK, RowDates, Exists
<1>5. EntriesOK'
  BY <1>1, <1>2 DEF LedgerOK, EntriesOK, EntryOK
<1>6. RebuildOK'
  BY <1>1, <1>2 DEF LedgerOK, RebuildOK
<1>. QED BY <1>4, <1>5, <1>6 DEF LedgerOK

\* A step that writes rows of past dates only.
LEMMA WriteOK ==
  ASSUME LedgerOK, UNCHANGED <<today, close, ledger>>, RowDates' \subseteq 1..today,
         rebuild' \in {rebuild, NoRebuild}
  PROVE  LedgerOK'
BY DEF LedgerOK, DaysOK, EntriesOK, EntryOK, RebuildOK

LEMMA RewriteOK ==
  ASSUME LedgerOK, RowsInv,
         \/ \E d \in Days : TakeRow(d)
         \/ RepairRow
         \/ recovery # NoRecovery /\ \E seen \in 0..Len(ledger) : FinishRecovery(seen)
         \/ rebuild # NoRebuild /\ \E found \in SUBSET RebuildDates : FinishRebuild(found)
  PROVE  LedgerOK'
<1>. USE DEF LedgerOK
<1>1. RowDates \subseteq 1..today /\ today \in Nat
  BY HistoryAssumption DEF DaysOK, Days
<1>2. ASSUME NEW d \in Days, TakeRow(d) PROVE LedgerOK'
  <2>1. /\ d <= today /\ UNCHANGED <<today, close, ledger, rebuild>>
        /\ \E new : rows' = [rows EXCEPT ![d] = new]
    BY <1>2 DEF TakeRow
  <2>2. d \in 1..today
    BY <2>1, <1>1, HistoryAssumption DEF Days
  <2>3. RowDates' \subseteq 1..today
    BY <2>1, <2>2, <1>1 DEF RowDates, Exists, RowsInv, RowsTyped
  <2>. QED BY <2>1, <2>3, WriteOK
<1>3. ASSUME recovery # NoRecovery, NEW seen, FinishRecovery(seen)
      PROVE  LedgerOK'
  <2>1. /\ \A d \in Days : d \notin RecoveryDates => rows'[d] = rows[d]
        /\ UNCHANGED <<today, close, ledger, rebuild>>
    BY <1>3 DEF FinishRecovery
  <2>2. RecoveryDates \subseteq 1..today
    BY <1>1, <1>3 DEF RowsInv, RecoveryTyped
  <2>3. RowDates' \subseteq 1..today
    BY <2>1, <2>2, <1>1 DEF RowDates, Exists
  <2>. QED BY <2>1, <2>3, WriteOK
<1>4. CASE RepairRow
  <2>1. /\ \E new : rows' = [rows EXCEPT ![Pending] = new]
        /\ UNCHANGED <<today, close, ledger, rebuild>>
        /\ repair # NoRepair
    BY <1>4 DEF RepairRow
  <2>2. Pending \in RowDates
    BY <2>1, PendingIsFirst DEF RowsInv
  <2>3. RowDates' \subseteq 1..today
    BY <2>1, <2>2, <1>1 DEF RowDates, Exists, RowsInv, RowsTyped
  <2>. QED BY <2>1, <2>3, WriteOK
<1>5. ASSUME rebuild # NoRebuild, NEW found \in SUBSET RebuildDates, FinishRebuild(found)
      PROVE  LedgerOK'
  <2>1. /\ \A d \in Days : d \notin RebuildDates => rows'[d] = rows[d]
        /\ UNCHANGED <<today, close, ledger>>
        /\ rebuild' = NoRebuild
    BY <1>5 DEF FinishRebuild
  <2>2. RebuildDates \subseteq 1..today
    BY <1>5, HistoryAssumption DEF RebuildDates, RebuildOK, Days
  <2>3. RowDates' \subseteq 1..today
    BY <2>1, <2>2, <1>1 DEF RowDates, Exists
  <2>. QED BY <2>1, <2>3, WriteOK
<1>. QED BY <1>2, <1>3, <1>4, <1>5

LEMMA LedgerStep == RowsInv /\ LedgerOK /\ [HistoryNext]_historyVars => LedgerOK'
<1>. SUFFICES ASSUME RowsInv, LedgerOK, [HistoryNext]_historyVars PROVE LedgerOK'
  OBVIOUS
<1>1. UNCHANGED rows => RowDates' \subseteq 1..today
  BY DEF RowDates, Exists, LedgerOK, DaysOK
<1>2. ASSUME NEW d \in Days, StartRebuild(d) PROVE LedgerOK'
  <2>1. /\ rebuild' = [from |-> d, seen |-> Len(ledger), loaded |-> rows]
        /\ UNCHANGED <<today, close, ledger, rows>>
    BY <1>2 DEF StartRebuild
  <2>2. Len(ledger) \in Nat
    BY LenProperties DEF LedgerOK, EntriesOK
  <2>3. \A e \in Days : rows[e].exists => e \in 1..today
    BY DEF LedgerOK, DaysOK, RowDates, Exists
  <2>4. RebuildOK'
    BY <2>1, <2>2, <2>3 DEF RebuildOK
  <2>. QED BY <2>1, <2>4, <1>1 DEF LedgerOK, DaysOK, EntriesOK, EntryOK
<1>3. ASSUME NEW dates, NEW held, StartRepair(dates, held) PROVE LedgerOK'
  BY <1>1, <1>3, WriteOK DEF StartRepair
<1>4. CASE SkipRow
  BY <1>1, <1>4, WriteOK DEF SkipRow
<1>5. CASE AbandonRebuild
  BY <1>1, <1>5, WriteOK DEF AbandonRebuild
<1>6. CASE UNCHANGED historyVars
  BY <1>1, <1>6, WriteOK DEF historyVars
<1>7. CASE RepairLoads
  BY <1>1, <1>7, WriteOK DEF RepairLoads
<1>8. CASE StartRecovery
  BY <1>1, <1>8, WriteOK DEF StartRecovery
<1>9. CASE AbandonRecovery
  BY <1>1, <1>9, WriteOK DEF AbandonRecovery
<1>. QED BY <1>2, <1>3, <1>4, <1>5, <1>6, <1>7, <1>8, <1>9, TurnDayOK, EnterOK, RewriteOK
         DEF HistoryNext

LEMMA LedgerAlwaysOK == HistorySpec => []LedgerOK
BY LedgerInit, LedgerStep, RowsAlwaysInv, PTL DEF HistorySpec

-----------------------------------------------------------------------------
(* The return of a rebuilt day.                                            *)

\* The last day up to e that the rebuild loaded a row for.
LoadedUpto(e) == Max({x \in 1..e : rebuild.loaded[x].exists} \union {0})

LEMMA LoadedBounds ==
  ASSUME NEW e \in Nat
  PROVE  /\ LoadedUpto(e) \in 0..e
         /\ LoadedUpto(e) # 0 => rebuild.loaded[LoadedUpto(e)].exists
         /\ \A x \in 1..e : rebuild.loaded[x].exists => x <= LoadedUpto(e)
<1>. DEFINE S == {x \in 1..e : rebuild.loaded[x].exists} \union {0}
<1>1. S \in SUBSET (0..e) /\ S # {}
  OBVIOUS
<1>2. Max(S) \in S /\ \A k \in S : Max(S) >= k
  BY <1>1, MaxOfNumbers
<1>. QED BY <1>1, <1>2 DEF LoadedUpto

LEMMA LoadedNext ==
  ASSUME NEW e \in Nat
  PROVE  LoadedUpto(e + 1) = IF rebuild.loaded[e + 1].exists THEN e + 1 ELSE LoadedUpto(e)
<1>1. CASE rebuild.loaded[e + 1].exists
  <2>1. e + 1 \in Nat /\ e + 1 \in 1..(e + 1)
    OBVIOUS
  <2>2. LoadedUpto(e + 1) \in 0..(e + 1) /\ e + 1 <= LoadedUpto(e + 1)
    BY <2>1, <1>1, LoadedBounds
  <2>. QED BY <2>2, <1>1
<1>2. CASE ~rebuild.loaded[e + 1].exists
  <2>1. {x \in 1..(e + 1) : rebuild.loaded[x].exists} = {x \in 1..e : rebuild.loaded[x].exists}
    BY <1>2
  <2>. QED BY <2>1, <1>2 DEF LoadedUpto
<1>. QED BY <1>1, <1>2

\* The day before in a rebuild is the last one that had a row.
LEMMA BuiltAfterLoaded ==
  ASSUME rebuild # NoRebuild, RebuildOK, NEW found, NEW b, IsBuilt(b, found, LastDate),
         NEW d \in RebuildDates
  PROVE  b[d - 1].date = LoadedUpto(d - 1)
<1>. DEFINE from == rebuild.from
            Good(e) == IF e < from THEN b[e] = PriorRow ELSE b[e].date = LoadedUpto(e)
            Bad == {e \in 0..LastDate : ~ Good(e)}
<1>1. from \in 1..LastDate /\ LastDate \in Nat
  BY HistoryAssumption DEF RebuildOK, Days
<1>2. PriorRow.date = LoadedUpto(from - 1)
  BY DEF PriorRow, LoadedUpto
<1>3. \A e \in 0..LastDate : b[e] = BuiltDay(b, found, e)
  BY DEF IsBuilt
<1>4. Bad = {}
  <2>. SUFFICES ASSUME Bad # {} PROVE FALSE
    OBVIOUS
  <2>1. Bad \in SUBSET Nat
    BY <1>1
  <2>2. PICK e \in Bad : \A k \in Bad : e <= k
    BY <2>1, LeastNumber
  <2>3. e \in 0..LastDate /\ ~ Good(e)
    BY <2>2
  <2>4. e # 0
    <3>. SUFFICES ASSUME e = 0 PROVE FALSE
      OBVIOUS
    <3>1. b[0] = PriorRow
      BY <1>1, <1>3 DEF BuiltDay
    <3>. QED BY <3>1, <2>3, <1>1
  <2>5. e - 1 \in 0..LastDate /\ e - 1 \in Nat /\ e \in 1..LastDate
    BY <2>3, <2>4, <1>1
  <2>6. Good(e - 1)
    <3>. SUFFICES ASSUME e - 1 \in Bad PROVE FALSE
      BY <2>5
    <3>1. e <= e - 1
      BY <2>2
    <3>. QED BY <3>1, <2>5
  <2>7. b[e] = BuiltDay(b, found, e)
    BY <2>3, <1>3
  <2>8. e \in RebuildDates <=> e >= from /\ rebuild.loaded[e].exists
    BY <2>5, <1>1 DEF RebuildDates
  <2>9. b[e] = IF e \notin RebuildDates THEN b[e - 1]
               ELSE [date |-> e, base |-> <<RebuiltRow(e, found, b[e - 1]).total>>,
                     row |-> RebuiltRow(e, found, b[e - 1])]
    BY <2>4, <2>7 DEF BuiltDay
  <2>10. CASE e < from
    <3>1. e \notin RebuildDates /\ e - 1 < from
      BY <2>8, <2>10, <2>5, <1>1
    <3>. QED BY <3>1, <2>3, <2>6, <2>9, <2>10
  <2>11. CASE e >= from
    <3>1. b[e - 1].date = LoadedUpto(e - 1)
      <4>1. CASE e = from
        BY <4>1, <2>6, <1>1, <1>2
      <4>2. CASE e > from
        <5>1. ~(e - 1 < from)
          BY <4>2, <2>5, <1>1
        <5>. QED BY <5>1, <2>6
      <4>. QED BY <4>1, <4>2, <2>11, <2>5, <1>1
    <3>2. LoadedUpto(e) = IF rebuild.loaded[e].exists THEN e ELSE LoadedUpto(e - 1)
      <4>1. (e - 1) + 1 = e
        BY <2>5
      <4>. QED BY <4>1, <2>5, LoadedNext
    <3>3. b[e].date = LoadedUpto(e)
      <4>1. CASE e \in RebuildDates
        BY <4>1, <2>8, <2>9, <3>2
      <4>2. CASE e \notin RebuildDates
        BY <4>2, <2>8, <2>9, <2>11, <3>1, <3>2
      <4>. QED BY <4>1, <4>2
    <3>4. ~(e < from)
      BY <2>11, <2>5, <1>1
    <3>. QED BY <3>3, <3>4, <2>3
  <2>. QED BY <2>10, <2>11, <2>5, <1>1
<1>5. d >= from /\ d \in 1..LastDate
  BY <1>1 DEF RebuildDates
<1>6. d - 1 \in 0..LastDate /\ Good(d - 1)
  BY <1>4, <1>5, <1>1
<1>7. CASE d = from
  BY <1>7, <1>6, <1>5, <1>1, <1>2
<1>8. CASE d > from
  <2>1. ~(d - 1 < from)
    BY <1>8, <1>5, <1>1
  <2>. QED BY <2>1, <1>6
<1>. QED BY <1>5, <1>7, <1>8, <1>1

\* What an entry earned by a later date, and what is a flow of it.
Earned(k, date) ==
  IF ledger[k].kind = "trade"
  THEN ledger[k].cash + ledger[k].shares * close[date]
  ELSE IF ledger[k].kind = "dividend" THEN ledger[k].cash ELSE 0

LEMMA SplitOfEntry ==
  ASSUME EntriesOK, DaysOK, NEW k \in DOMAIN ledger, NEW date \in 1..today, NEW lookup,
         ledger[k].kind = "import" => lookup = <<close[date]>>
  PROVE  /\ Flow(k, lookup) \in Int /\ Earned(k, date) \in Int
         /\ close[date] * ledger[k].shares \in Int
         /\ ledger[k].cash + close[date] * ledger[k].shares = Flow(k, lookup) + Earned(k, date)
<1>1. /\ ledger[k].kind \in {"cash", "trade", "import", "dividend"}
      /\ ledger[k].cash \in Int /\ ledger[k].shares \in Int /\ EntryOK(ledger[k])
  BY EntryFields
<1>2. close[date] \in Int
  BY ClosePrices
<1>3. ledger[k].shares * close[date] = close[date] * ledger[k].shares
      /\ close[date] * ledger[k].shares \in Int
  BY <1>1, <1>2
<1>4. CASE ledger[k].kind = "trade"
  BY <1>1, <1>3, <1>4 DEF Flow, Earned
<1>5. CASE ledger[k].kind = "dividend"
  <2>1. close[date] * ledger[k].shares = 0
    BY <1>1, <1>2, <1>5 DEF EntryOK
  <2>. QED BY <2>1, <1>1, <1>5 DEF Flow, Earned
<1>6. CASE ledger[k].kind = "cash"
  <2>1. close[date] * ledger[k].shares = 0
    BY <1>1, <1>2, <1>6 DEF EntryOK
  <2>. QED BY <2>1, <1>1, <1>6 DEF Flow, Earned
<1>7. CASE ledger[k].kind = "import"
  <2>1. lookup = <<close[date]>> /\ ledger[k].cash = 0
    BY <1>1, <1>7 DEF EntryOK
  <2>2. lookup # <<>> /\ lookup[1] = close[date]
    BY <2>1
  <2>3. Flow(k, lookup) = ledger[k].shares * close[date]
    BY <2>2, <1>7 DEF Flow
  <2>. QED BY <2>1, <2>3, <1>1, <1>3, <1>7 DEF Earned
<1>. QED BY <1>1, <1>4, <1>5, <1>6, <1>7

\* Over a set of entries: what came in, as cash and as shares at the price of a
\* date, is what flowed in and what was earned.
LEMMA SplitOfEntries ==
  ASSUME EntriesOK, DaysOK, NEW ids \in SUBSET DOMAIN ledger, NEW date \in 1..today, NEW lookup,
         \A k \in ids : ledger[k].kind = "import" => lookup = <<close[date]>>
  PROVE  LET flows  == SumFunction([k \in ids |-> Flow(k, lookup)])
             earned == SumFunction([k \in ids |-> Earned(k, date)])
         IN  /\ flows \in Int /\ earned \in Int
             /\ Sum("cash", ids) + close[date] * Sum("shares", ids) = flows + earned
<1>. DEFINE p      == close[date]
            flow   == [k \in ids |-> Flow(k, lookup)]
            earned == [k \in ids |-> Earned(k, date)]
            cash   == [k \in ids |-> ledger[k].cash]
            shares == [k \in ids |-> ledger[k].shares]
            worth  == [k \in ids |-> p * ledger[k].shares]
            both   == [k \in ids |-> ledger[k].cash + p * ledger[k].shares]
<1>1. IsFiniteSet(ids) /\ p \in Int
  <2>1. p \in Nat
    BY ClosePrices
  <2>2. IsFiniteSet(ids)
    BY SumOfField
  <2>. QED BY <2>1, <2>2
<1>2. ASSUME NEW k \in ids
      PROVE  /\ flow[k] \in Int /\ earned[k] \in Int /\ cash[k] \in Int /\ shares[k] \in Int
             /\ worth[k] \in Int /\ worth[k] = p * shares[k]
             /\ both[k] = cash[k] + worth[k] /\ both[k] = flow[k] + earned[k]
  BY SplitOfEntry, EntryFields
<1>3. /\ Sum("cash", ids) = SumFunctionOnSet(cash, ids)
      /\ Sum("shares", ids) = SumFunctionOnSet(shares, ids)
      /\ SumFunction(flow) = SumFunctionOnSet(flow, ids)
      /\ SumFunction(earned) = SumFunctionOnSet(earned, ids)
  BY DEF Sum, SumFunction
<1>. HIDE DEF p, flow, earned, cash, shares, worth, both
<1>4. SumFunctionOnSet(worth, ids) = p * SumFunctionOnSet(shares, ids)
  BY <1>1, <1>2, SumOfTimes
<1>5. SumFunctionOnSet(both, ids) = SumFunctionOnSet(cash, ids) + SumFunctionOnSet(worth, ids)
  BY <1>1, <1>2, SumOfPlus
<1>6. SumFunctionOnSet(both, ids) = SumFunctionOnSet(flow, ids) + SumFunctionOnSet(earned, ids)
  BY <1>1, <1>2, SumOfPlus
<1>7. SumFunctionOnSet(flow, ids) \in Int /\ SumFunctionOnSet(earned, ids) \in Int
  BY <1>1, <1>2, SumType
<1>8. Sum("cash", ids) + p * Sum("shares", ids) = SumFunction(flow) + SumFunction(earned)
  BY <1>3, <1>4, <1>5, <1>6
<1>. QED BY <1>3, <1>7, <1>8 DEF p, flow, earned

\* What was dated in a period is what is dated up to its end and not up to its
\* beginning.
LEMMA PeriodOfEntries ==
  ASSUME EntriesOK, NEW seen \in 0..Len(ledger), NEW prev \in Nat, NEW date \in Nat, prev < date
  PROVE  /\ Upto(prev, seen) \subseteq Upto(date, seen)
         /\ Upto(date, seen) \subseteq DOMAIN ledger
         /\ DatedIn(prev, date, seen) = Upto(date, seen) \ Upto(prev, seen)
         /\ \A field \in {"cash", "shares"} :
              Sum(field, Upto(date, seen)) =
                Sum(field, Upto(prev, seen)) + Sum(field, DatedIn(prev, date, seen))
<1>1. Len(ledger) \in Nat /\ DOMAIN ledger = 1..Len(ledger)
  BY LenProperties DEF EntriesOK
<1>2. 1..seen \subseteq DOMAIN ledger
  BY <1>1
<1>3. \A k \in 1..seen : ledger[k].dated \in Int
  BY <1>2, EntryFields
<1>. DEFINE U == Upto(date, seen)
            V == Upto(prev, seen)
            N == DatedIn(prev, date, seen)
<1>4. V \subseteq U /\ N = U \ V
  BY <1>3 DEF Upto, DatedIn
<1>5. U \subseteq DOMAIN ledger
  BY <1>2 DEF Upto
<1>6. ASSUME NEW field \in {"cash", "shares"}
      PROVE  Sum(field, U) = Sum(field, V) + Sum(field, N)
  <2>. DEFINE f == [k \in DOMAIN ledger |-> ledger[k][field]]
  <2>1. U \in SUBSET DOMAIN ledger /\ V \in SUBSET DOMAIN ledger /\ N \in SUBSET DOMAIN ledger
    BY <1>4, <1>5
  <2>2. \A k \in DOMAIN ledger : f[k] \in Int
    BY EntryFields
  <2>. HIDE DEF U, V, N
  <2>3. /\ IsFiniteSet(V) /\ IsFiniteSet(N)
        /\ Sum(field, U) = SumFunctionOnSet(f, U)
        /\ Sum(field, V) = SumFunctionOnSet(f, V)
        /\ Sum(field, N) = SumFunctionOnSet(f, N)
    BY <2>1, SumOfField
  <2>4. V \intersect N = {} /\ V \union N = U /\ \A k \in V \union N : f[k] \in Int
    BY <1>4, <2>1, <2>2
  <2>. HIDE DEF f
  <2>5. SumFunctionOnSet(f, V \union N) = SumFunctionOnSet(f, V) + SumFunctionOnSet(f, N)
    BY <2>3, <2>4, SumOfUnion
  <2>. QED BY <2>3, <2>4, <2>5
<1>. QED BY <1>4, <1>5, <1>6

LEMMA ProductIsZero ==
  ASSUME NEW a \in Int, NEW c \in Nat, c > 0, a * c = 0
  PROVE  a = 0
OBVIOUS

LEMMA PeriodArithmetic ==
  ASSUME NEW p \in Int, NEW q \in Int, NEW cv \in Int, NEW cn \in Int, NEW sv \in Int, NEW sn \in Int,
         NEW flows \in Int, NEW earned \in Int, cn + p * sn = flows + earned
  PROVE  ((cv + cn) + (sv + sn) * p) - (cv + sv * q) - flows = sv * (p - q) + earned
<1>1. (sv + sn) * p = sv * p + p * sn
  BY Distributes
<1>2. sv * (p - q) = sv * p - sv * q
  OBVIOUS
<1>3. sv * p \in Int /\ sv * q \in Int /\ p * sn \in Int
  OBVIOUS
<1>. QED BY <1>1, <1>2, <1>3

LEMMA ReturnOfRebuiltDay ==
  ASSUME LedgerOK, rebuild # NoRebuild, NEW d \in RebuildDates, NEW found,
         NEW prev, prev = LoadedUpto(d - 1), prev > 0,
         NEW new, new = RebuiltRows(found)[d],
         new.total = LedgerValue(d, rebuild.seen),
         new.base = <<LedgerValue(prev, rebuild.seen)>>, new.base[1] > 0,
         ~ SoldOff(prev, d, rebuild.seen)
  PROVE  new.return = <<Performance(prev, d, rebuild.seen)>>
<1>. DEFINE seen   == rebuild.seen
            U      == Upto(d, seen)
            V      == Upto(prev, seen)
            N      == DatedIn(prev, d, seen)
            p      == close[d]
            q      == close[prev]
            cash   == Sum("cash", U)
            shares == Sum("shares", U)
            price  == IF shares > 0 THEN DownloadedPrice(d, found) ELSE <<>>
            flows  == SumFunction([k \in N |-> Flow(k, price)])
            earned == SumFunction([k \in N |-> Earned(k, d)])
<1>1. DaysOK /\ EntriesOK /\ RebuildOK
  BY DEF LedgerOK
<1>2. d \in 1..today /\ today \in Nat /\ d \in Nat
  BY <1>1, HistoryAssumption DEF RebuildDates, RebuildOK, DaysOK, Days
<1>3. prev \in Nat /\ prev < d /\ prev \in 1..today
  <2>1. d - 1 \in Nat
    BY <1>2
  <2>2. prev \in 0..(d - 1)
    BY <2>1, LoadedBounds
  <2>. QED BY <2>2, <1>2
<1>4. seen \in 0..Len(ledger)
  BY <1>1 DEF RebuildOK
<1>5. /\ N = U \ V /\ N \in SUBSET DOMAIN ledger
      /\ V \in SUBSET DOMAIN ledger /\ U \in SUBSET DOMAIN ledger
      /\ cash = Sum("cash", V) + Sum("cash", N)
      /\ shares = Sum("shares", V) + Sum("shares", N)
  BY <1>1, <1>2, <1>3, <1>4, PeriodOfEntries
<1>6. /\ cash \in Int /\ shares \in Int /\ Sum("cash", V) \in Int /\ Sum("shares", V) \in Int
      /\ Sum("cash", N) \in Int /\ Sum("shares", N) \in Int
  BY <1>1, <1>5, SumOfField
<1>7. p \in Nat /\ p > 0 /\ q \in Nat
  BY <1>1, <1>2, <1>3, ClosePrices
<1>8. PICK b : /\ IsBuilt(b, found, LastDate)
               /\ RebuiltRows(found) = [e \in RebuildDates |-> b[e].row]
  BY RebuiltRowsAreBuilt
<1>9. b[d - 1].date = prev
  BY <1>1, <1>8, BuiltAfterLoaded
<1>10. new = RebuiltRow(d, found, b[d - 1])
  <2>1. d \in 0..LastDate /\ d # 0
    BY <1>1, <1>2, HistoryAssumption DEF RebuildDates, DaysOK, Days
  <2>2. b[d] = BuiltDay(b, found, d)
    BY <1>8, <2>1 DEF IsBuilt
  <2>. QED BY <1>8, <2>1, <2>2 DEF BuiltDay
<1>11. /\ new.total = Value(cash, shares, price)
       /\ new.base = b[d - 1].base
       /\ new.return = Return(Value(cash, shares, price), b[d - 1].base, N, price)
  BY <1>9, <1>10 DEF RebuiltRow, Row
<1>12. new.total = cash + shares * p /\ new.base = <<Sum("cash", V) + Sum("shares", V) * q>>
  BY DEF LedgerValue
<1>13. price \in {<<>>, <<p>>}
  BY DEF DownloadedPrice
<1>14. ASSUME NEW k \in N, ledger[k].kind = "import"
       PROVE  price = <<p>>
  <2>. SUFFICES ASSUME price = <<>> PROVE FALSE
    BY <1>13
  <2>1. Value(cash, shares, price) = cash
    BY <1>6 DEF Value, Equity
  <2>2. shares * p \in Int
    BY <1>6, <1>7
  <2>. HIDE DEF U, V, N, p, q, cash, shares, price
  <2>3. shares * p = 0
    BY <2>1, <2>2, <1>6, <1>11, <1>12
  <2>4. shares = 0
    BY <2>3, <1>6, <1>7, ProductIsZero
  <2>. QED BY <2>4, <1>14 DEF SoldOff, shares, U, N
<1>15. /\ flows \in Int /\ earned \in Int
       /\ Sum("cash", N) + p * Sum("shares", N) = flows + earned
  <2>. HIDE DEF N, price
  <2>. QED BY <1>1, <1>2, <1>5, <1>14, SplitOfEntries, ZenonT(40)
<1>16. new.return = <<new.total - (Sum("cash", V) + Sum("shares", V) * q) - flows>>
  <2>1. new.base # <<>> /\ new.base[1] = Sum("cash", V) + Sum("shares", V) * q
    BY <1>12
  <2>2. Sum("cash", V) + Sum("shares", V) * q \in Int
    BY <1>6, <1>7
  <2>. HIDE DEF U, V, N, p, q, cash, shares, price
  <2>3. ~(new.base[1] <= 0)
    BY <2>1, <2>2
  <2>. QED BY <2>1, <2>3, <1>11 DEF Return, flows
<1>17. Performance(prev, d, seen) = Sum("shares", V) * (p - q) + earned
  BY <1>5 DEF Performance, Earned
<1>. DEFINE cv == Sum("cash", V)
            cn == Sum("cash", N)
            sv == Sum("shares", V)
            sn == Sum("shares", N)
<1>18. /\ p \in Int /\ q \in Int /\ cv \in Int /\ cn \in Int /\ sv \in Int /\ sn \in Int
       /\ flows \in Int /\ earned \in Int /\ cn + p * sn = flows + earned
  BY <1>6, <1>7, <1>15
<1>19. new.total = (cv + cn) + (sv + sn) * p
  BY <1>5, <1>12
<1>20. new.return = <<new.total - (cv + sv * q) - flows>>
  BY <1>16
<1>21. Performance(prev, d, seen) = sv * (p - q) + earned
  BY <1>17
<1>. HIDE DEF U, V, N, p, q, cash, shares, price, flows, earned, cv, cn, sv, sn
<1>22. ((cv + cn) + (sv + sn) * p) - (cv + sv * q) - flows = sv * (p - q) + earned
  BY <1>18, PeriodArithmetic
<1>. QED BY <1>19, <1>20, <1>21, <1>22

\* A rebuild writes, for every complete day after one with the ledger's value,
\* what the ledger earned since, however many days have no row, whatever was
\* recorded with an earlier date, and whichever prices were found.
THEOREM RebuiltReturnsAlwaysPerformance == HistorySpec => []RebuiltReturnsArePerformance
<1>1. LedgerOK => RebuiltReturnsArePerformance
  BY ReturnOfRebuiltDay DEF RebuiltReturnsArePerformance, LoadedUpto
<1>. QED BY <1>1, LedgerAlwaysOK, PTL
=============================================================================
