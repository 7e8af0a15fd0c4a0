-------------------------- MODULE EvaluationProofs --------------------------
(***************************************************************************)
(* The rows that belong to portfolios, the grades of recommendations, the  *)
(* reports on decisions and the portfolio's own line on the chart, for any *)
(* number of portfolios, rows, days, recommendations and decisions.        *)
(***************************************************************************)
EXTENDS PortfolioRecords, DecisionMemory, DecisionReports, PaperComparison, SetLemmas, SequenceTheorems

-----------------------------------------------------------------------------
(* The rows of portfolios.                                                 *)

PortfoliosTyped ==
  /\ created \in 0..MaxPortfolios
  /\ portfolios \subseteq [id : 1..created, born : 1..created]
  /\ \A p, q \in portfolios : p.id = q.id \/ p.born = q.born => p = q

\* A row or a writer knows the id that its portfolio has, if it still is there.
Owned(x) == x.born \in 1..created /\ \A p \in portfolios : p.born = x.born => p.id = x.portfolio

OwnersKnown == \A x \in records \union writers : Owned(x)

Columns == {"table", "about", "model", "id", "portfolio", "born", "late"}

RowsTyped ==
  /\ \A r \in records : DOMAIN r = Columns
  /\ \E n \in Nat : \A r \in records : r.id \in 1..n
  /\ \A q, r \in records : q.table = r.table /\ q.id = r.id => q = r
  /\ \A r \in records : r.model => r.table = "shadows"

\* As long as its portfolio is there, the row that a writer's row will be about is
\* there, and so is the active model that it will change.
WriterHolds(w) ==
  /\ w.row.model => w.row.table = "shadows"
  /\ Alive(w.born) /\ About(w.row.table) # "none" =>
       \E q \in Of(About(w.row.table)) :
          q.id = w.row.about /\ q.born = w.born /\ q.portfolio = w.portfolio
  /\ w.target # 0 =>
       /\ w.row.table = "shadows"
       /\ Alive(w.born) =>
            \E s \in Of("shadows") : s.id = w.target /\ s.portfolio = w.portfolio /\ s.model

WritersHold == \A w \in writers : WriterHolds(w)

DeletionNoted(n) ==
  IF n \in 1..created /\ ~Alive(n) THEN deletion[n] \in {"request", "command"}
                                  ELSE deletion[n] = "none"

\* A row left over was not covered by the deletion of its portfolio, whether or
\* not another portfolio has the id by now.
LeftRowsExplained ==
  /\ DOMAIN deletion = 1..MaxPortfolios
  /\ \A n \in 1..MaxPortfolios : DeletionNoted(n)
  /\ \A r \in records : ~Alive(r.born) => r.late \/ r.table \notin Covered(deletion[r.born])

RecordsInv ==
  /\ PortfoliosTyped /\ RowsTyped /\ OwnersKnown /\ WritersHold
  /\ LeftRowsExplained /\ ReferencesHold

LEMMA NextPortfolioId ==
  ASSUME PortfoliosTyped
  PROVE  NextId(portfolios) \in 1..(created + 1) /\ \A p \in portfolios : p.id < NextId(portfolios)
<1>. DEFINE S == {x.id : x \in portfolios} \union {0}
<1>1. created \in Nat
  BY DEF PortfoliosTyped
<1>2. S \in SUBSET (0..created) /\ S # {}
  BY <1>1 DEF PortfoliosTyped
<1>3. Max(S) \in S /\ \A k \in S : Max(S) >= k
  BY <1>1, <1>2, MaxOfNumbers
<1>4. NextId(portfolios) = Max(S) + 1
  BY DEF NextId
<1>5. \A p \in portfolios : p.id \in S
  OBVIOUS
<1>. HIDE DEF S
<1>6. Max(S) \in 0..created
  BY <1>2, <1>3
<1>7. \A p \in portfolios : p.id <= Max(S) /\ p.id \in Int
  <2>1. \A p \in portfolios : p.id \in 1..created
    BY DEF PortfoliosTyped
  <2>2. ASSUME NEW p \in portfolios PROVE p.id <= Max(S) /\ p.id \in Int
    <3>1. p.id \in Int /\ Max(S) >= p.id
      BY <1>1, <1>3, <1>5, <2>1
    <3>. QED BY <1>6, <3>1
  <2>. QED BY <2>2
<1>. QED BY <1>1, <1>4, <1>6, <1>7

LEMMA CreateInv == ASSUME RecordsInv, CreatePortfolio PROVE RecordsInv'
<1>. DEFINE new == [id |-> NextId(portfolios), born |-> created + 1]
<1>1. /\ created \in Nat /\ MaxPortfolios \in Nat /\ created < MaxPortfolios
      /\ created' = created + 1 /\ portfolios' = portfolios \union {new}
      /\ UNCHANGED <<records, writers, deletion>>
  BY RecordsAssumption DEF CreatePortfolio, RecordsInv, PortfoliosTyped
<1>2. new.id \in 1..created' /\ \A p \in portfolios : p.id < new.id
  BY <1>1, NextPortfolioId DEF RecordsInv
<1>3. new.born = created' /\ \A p \in portfolios : p.born \in 1..created /\ p.id \in 1..created
  BY <1>1 DEF RecordsInv, PortfoliosTyped
<1>4. portfolios' \subseteq [id : 1..created', born : 1..created']
  <2>1. [id : 1..created, born : 1..created] \subseteq [id : 1..created', born : 1..created']
    BY <1>1
  <2>2. new \in [id : 1..created', born : 1..created']
    BY <1>1, <1>2
  <2>. QED BY <1>1, <2>1, <2>2 DEF RecordsInv, PortfoliosTyped
<1>. HIDE DEF new
<1>5. ASSUME NEW p \in portfolios', NEW q \in portfolios', p.id = q.id \/ p.born = q.born
      PROVE  p = q
  <2>1. CASE p \in portfolios /\ q \in portfolios
    BY <1>5, <2>1 DEF RecordsInv, PortfoliosTyped
  <2>2. CASE p = new /\ q \in portfolios
    BY <1>1, <1>2, <1>3, <1>5, <2>2
  <2>3. CASE p \in portfolios /\ q = new
    BY <1>1, <1>2, <1>3, <1>5, <2>3
  <2>. QED BY <1>1, <2>1, <2>2, <2>3
<1>6. PortfoliosTyped'
  BY <1>1, <1>4, <1>5 DEF PortfoliosTyped
<1>7. ASSUME NEW x, Owned(x) PROVE x.born \in 1..created' /\ \A p \in portfolios' : p.born = x.born => p.id = x.portfolio
  BY <1>1, <1>3, <1>7 DEF Owned
<1>8. OwnersKnown'
  BY <1>1, <1>7 DEF RecordsInv, OwnersKnown, Owned
<1>9. \A n \in 1..created : Alive(n)' <=> Alive(n)
  BY <1>1, <1>3 DEF Alive
<1>10. \A x \in records \union writers : x.born \in 1..created
  BY DEF RecordsInv, OwnersKnown, Owned
<1>11. LeftRowsExplained'
  <2>1. ASSUME NEW n \in 1..created', ~Alive(n)' PROVE n \in 1..created
    BY <1>1, <1>3, <2>1 DEF Alive
  <2>2. ASSUME NEW n \in 1..MaxPortfolios PROVE DeletionNoted(n)'
    <3>1. DeletionNoted(n) /\ 1..created \subseteq 1..created'
      BY <1>1 DEF RecordsInv, LeftRowsExplained
    <3>2. n \in 1..created' /\ ~Alive(n)' <=> n \in 1..created /\ ~Alive(n)
      BY <1>9, <2>1, <3>1
    <3>. QED BY <1>1, <3>1, <3>2 DEF DeletionNoted, Alive
  <2>3. \A r \in records : ~Alive(r.born)' => r.late \/ r.table \notin Covered(deletion[r.born])
    BY <1>9, <1>10 DEF RecordsInv, LeftRowsExplained
  <2>. QED BY <1>1, <2>2, <2>3 DEF RecordsInv, LeftRowsExplained, Alive
<1>12. WritersHold'
  <2>1. ASSUME NEW w \in writers PROVE WriterHolds(w)'
    <3>1. WriterHolds(w) /\ (Alive(w.born)' => Alive(w.born))
      BY <1>9, <1>10 DEF RecordsInv, WritersHold
    <3>. QED BY <1>1, <3>1 DEF WriterHolds, Of, Alive
  <2>. QED BY <1>1, <2>1 DEF WritersHold, WriterHolds, Alive, Of
<1>13. ReferencesHold' /\ RowsTyped'
  BY <1>1 DEF RecordsInv, ReferencesHold, Of, RowsTyped
<1>. QED BY <1>6, <1>8, <1>11, <1>12, <1>13 DEF RecordsInv

LEMMA NextRowId ==
  ASSUME RowsTyped, NEW table
  PROVE  \E n \in Nat :
           /\ NextId(Of(table)) \in 1..n
           /\ \A r \in records : r.id \in 1..n
           /\ \A r \in Of(table) : r.id < NextId(Of(table))
<1>. DEFINE S == {x.id : x \in Of(table)} \union {0}
<1>1. PICK n \in Nat : \A r \in records : r.id \in 1..n
  BY DEF RowsTyped
<1>2. S \in SUBSET (0..n) /\ S # {}
  BY <1>1 DEF Of
<1>3. Max(S) \in S /\ \A k \in S : Max(S) >= k
  BY <1>1, <1>2, MaxOfNumbers
<1>4. NextId(Of(table)) = Max(S) + 1
  BY DEF NextId
<1>5. \A r \in Of(table) : r.id \in S
  OBVIOUS
<1>. HIDE DEF S
<1>6. Max(S) \in 0..n
  BY <1>2, <1>3
<1>7. ASSUME NEW r \in Of(table) PROVE r.id < NextId(Of(table))
  <2>1. r.id \in 0..n /\ Max(S) >= r.id
    BY <1>2, <1>3, <1>5
  <2>. QED BY <1>4, <1>6, <2>1
<1>8. NextId(Of(table)) \in 1..(n + 1) /\ \A r \in records : r.id \in 1..(n + 1)
  BY <1>1, <1>4, <1>6
<1>. QED BY <1>1, <1>7, <1>8

\* A row written: about nothing, or about a row that is there.
LEMMA InsertInv ==
  ASSUME RecordsInv, NEW row, NEW portfolio, NEW born, Insert(row, portfolio, born),
         UNCHANGED <<portfolios, created, deletion>>, writers' \subseteq writers,
         born \in 1..created /\ \A p \in portfolios : p.born = born => p.id = portfolio,
         row.model => row.table = "shadows",
         Alive(born) /\ About(row.table) # "none" =>
           \E q \in Of(About(row.table)) :
              q.id = row.about /\ q.born = born /\ q.portfolio = portfolio
  PROVE  RecordsInv'
<1>. DEFINE new == [table |-> row.table, about |-> row.about, model |-> row.model,
                    id |-> NextId(Of(row.table)), portfolio |-> portfolio, born |-> born,
                    late |-> ~Alive(born)]
<1>1. records' = records \union {new}
  BY DEF Insert
<1>2. /\ new.table = row.table /\ new.portfolio = portfolio /\ new.about = row.about
      /\ new.born = born /\ new.late = ~Alive(born) /\ new.model = row.model
      /\ new.id = NextId(Of(row.table)) /\ DOMAIN new = Columns
  BY DEF Columns
<1>. HIDE DEF new
<1>3. PortfoliosTyped'
  BY DEF RecordsInv, PortfoliosTyped
<1>4. OwnersKnown'
  BY <1>1, <1>2 DEF RecordsInv, OwnersKnown, Owned
<1>5. \A n : Alive(n)' <=> Alive(n)
  BY DEF Alive
<1>6. LeftRowsExplained'
  <2>1. ASSUME NEW r \in records', ~Alive(r.born) PROVE r.late \/ r.table \notin Covered(deletion[r.born])
    BY <1>1, <1>2, <2>1 DEF RecordsInv, LeftRowsExplained
  <2>2. \A r \in records' : ~Alive(r.born)' => r.late \/ r.table \notin Covered(deletion'[r.born])
    BY <1>5, <2>1
  <2>3. \A n \in 1..MaxPortfolios : DeletionNoted(n)'
    BY <1>5 DEF RecordsInv, LeftRowsExplained, DeletionNoted, Alive
  <2>. QED BY <2>2, <2>3 DEF RecordsInv, LeftRowsExplained, Alive
<1>7. \A t : Of(t) \subseteq {r \in records' : r.table = t}
  BY <1>1 DEF Of
<1>8. ReferencesHold'
  <2>1. ASSUME NEW r \in records', About(r.table) # "none", r.table \notin {"grades", "repairs"}, ~r.late
        PROVE  \E q \in Of(About(r.table)) :
                 /\ q.id = r.about /\ q.portfolio = r.portfolio
                 /\ q.born = r.born \/ (r.model /\ deletion[r.born] = "request")
    <3>1. CASE r \in records
      BY <2>1, <3>1 DEF RecordsInv, ReferencesHold
    <3>2. CASE r = new
      <4>1. Alive(born) /\ About(row.table) # "none"
        BY <1>2, <2>1, <3>2
      <4>. QED BY <1>2, <3>2, <4>1
    <3>. QED BY <1>1, <3>1, <3>2
  <2>. QED BY <1>7, <2>1 DEF ReferencesHold, Of
<1>9. WritersHold'
  <2>1. ASSUME NEW w \in writers PROVE WriterHolds(w)'
    <3>1. WriterHolds(w) /\ (Alive(w.born)' <=> Alive(w.born))
      BY <1>5 DEF RecordsInv, WritersHold
    <3>. QED BY <1>7, <3>1 DEF WriterHolds, Of, Alive
  <2>. QED BY <2>1 DEF WritersHold, WriterHolds, Alive, Of
<1>10. RowsTyped'
  <2>1. PICK n \in Nat : /\ NextId(Of(row.table)) \in 1..n
                         /\ \A r \in records : r.id \in 1..n
                         /\ \A r \in Of(row.table) : r.id < NextId(Of(row.table))
    BY NextRowId DEF RecordsInv
  <2>2. \A r \in records' : r.id \in 1..n
    BY <1>1, <1>2, <2>1
  <2>3. \A r \in records : r.table = row.table => r.id # new.id
    BY <1>2, <2>1 DEF Of
  <2>4. \A q, r \in records' : q.table = r.table /\ q.id = r.id => q = r
    BY <1>1, <1>2, <2>3 DEF RecordsInv, RowsTyped
  <2>5. \A r \in records' : DOMAIN r = Columns /\ (r.model => r.table = "shadows")
    BY <1>1, <1>2 DEF RecordsInv, RowsTyped
  <2>. QED BY <2>2, <2>4, <2>5 DEF RowsTyped
<1>. QED BY <1>3, <1>4, <1>6, <1>8, <1>9, <1>10 DEF RecordsInv

LEMMA WriteRowInv ==
  ASSUME RecordsInv, NEW table, NEW p \in portfolios, WriteRow(table, p) PROVE RecordsInv'
<1>. DEFINE row == Row(table, 0, FALSE)
<1>1. p.born \in 1..created /\ \A q \in portfolios : q.born = p.born => q.id = p.id
  BY DEF RecordsInv, PortfoliosTyped
<1>2. row.table = table /\ row.model = FALSE
  BY DEF Row
<1>3. Insert(row, p.id, p.born) /\ About(row.table) = "none"
      /\ UNCHANGED <<portfolios, writers, created, deletion>>
  BY <1>2 DEF WriteRow
<1>. HIDE DEF row
<1>. QED BY <1>1, <1>2, <1>3, InsertInv

LEMMA FinishWritingInv ==
  ASSUME RecordsInv, NEW w \in writers, FinishWriting(w) PROVE RecordsInv'
<1>1. Owned(w) /\ WriterHolds(w)
  BY DEF RecordsInv, OwnersKnown, WritersHold
<1>2. /\ w.born \in 1..created /\ \A p \in portfolios : p.born = w.born => p.id = w.portfolio
      /\ w.row.model => w.row.table = "shadows"
      /\ Alive(w.born) /\ About(w.row.table) # "none" =>
           \E q \in Of(About(w.row.table)) :
              q.id = w.row.about /\ q.born = w.born /\ q.portfolio = w.portfolio
  BY <1>1 DEF Owned, WriterHolds
<1>3. Insert(w.row, w.portfolio, w.born) /\ UNCHANGED <<portfolios, created, deletion>>
      /\ writers' \subseteq writers
  BY DEF FinishWriting
<1>. QED BY <1>2, <1>3, InsertInv

LEMMA WritersInv ==
  ASSUME RecordsInv, UNCHANGED <<portfolios, records, created, deletion>>,
         \A w \in writers' : w \in writers \/ (Owned(w) /\ WriterHolds(w))
  PROVE  RecordsInv'
<1>1. PortfoliosTyped' /\ RowsTyped' /\ LeftRowsExplained' /\ ReferencesHold'
  BY DEF RecordsInv, PortfoliosTyped, RowsTyped, LeftRowsExplained, DeletionNoted, Alive, ReferencesHold, Of
<1>2. OwnersKnown'
  BY DEF RecordsInv, OwnersKnown, Owned
<1>3. WritersHold'
  <2>1. \A w \in writers' : WriterHolds(w)
    BY DEF RecordsInv, WritersHold
  <2>. QED BY <2>1 DEF WritersHold, WriterHolds, Alive, Of
<1>. QED BY <1>1, <1>2, <1>3 DEF RecordsInv

LEMMA WaitInv ==
  ASSUME RecordsInv, NEW row, NEW portfolio, NEW born, NEW target, Wait(row, portfolio, born, target),
         born \in 1..created /\ \A p \in portfolios : p.born = born => p.id = portfolio,
         row.model => row.table = "shadows",
         Alive(born) /\ About(row.table) # "none" =>
           \E q \in Of(About(row.table)) :
              q.id = row.about /\ q.born = born /\ q.portfolio = portfolio,
         target # 0 =>
           /\ row.table = "shadows"
           /\ \E s \in Of("shadows") : s.id = target /\ s.portfolio = portfolio /\ s.model
  PROVE  RecordsInv'
<1>. DEFINE w == [row |-> row, portfolio |-> portfolio, born |-> born, target |-> target]
<1>1. w.row = row /\ w.portfolio = portfolio /\ w.born = born /\ w.target = target
  OBVIOUS
<1>2. writers' = writers \union {w} /\ UNCHANGED <<portfolios, records, created, deletion>>
  BY DEF Wait
<1>. HIDE DEF w
<1>3. Owned(w) /\ WriterHolds(w)
  BY <1>1 DEF Owned, WriterHolds
<1>. QED BY <1>2, <1>3, WritersInv

LEMMA StartWritingInv ==
  ASSUME RecordsInv, NEW table, NEW p \in portfolios, StartWriting(table, p) PROVE RecordsInv'
<1>. DEFINE row == Row(table, 0, FALSE)
<1>1. p.born \in 1..created /\ \A q \in portfolios : q.born = p.born => q.id = p.id
  BY DEF RecordsInv, PortfoliosTyped
<1>2. row.table = table /\ row.model = FALSE
  BY DEF Row
<1>3. Wait(row, p.id, p.born, 0) /\ About(row.table) = "none"
  BY <1>2 DEF StartWriting
<1>. HIDE DEF row
<1>. QED BY <1>1, <1>2, <1>3, WaitInv

LEMMA StartAboutInv ==
  ASSUME RecordsInv, NEW table, NEW r \in records, StartAbout(table, r) PROVE RecordsInv'
<1>. DEFINE row == Row(table, r.id, FALSE)
<1>1. r.born \in 1..created /\ \A p \in portfolios : p.born = r.born => p.id = r.portfolio
  BY DEF RecordsInv, OwnersKnown, Owned
<1>2. row.table = table /\ row.model = FALSE /\ row.about = r.id
  BY DEF Row
<1>3. Wait(row, r.portfolio, r.born, 0) /\ r \in Of(About(row.table))
  BY <1>2 DEF StartAbout, Of
<1>. HIDE DEF row
<1>. QED BY <1>1, <1>2, <1>3, WaitInv

LEMMA StartModelInv ==
  ASSUME RecordsInv, NEW r \in records, StartModel(r) PROVE RecordsInv'
<1>. DEFINE row == Row("shadows", r.id, TRUE)
            models == {x \in Of("shadows") : x.model /\ x.portfolio = r.portfolio}
            S == {s.id : s \in models} \union {0}
<1>1. r.born \in 1..created /\ \A p \in portfolios : p.born = r.born => p.id = r.portfolio
  BY DEF RecordsInv, OwnersKnown, Owned
<1>2. row.table = "shadows" /\ row.model = TRUE /\ row.about = r.id
  BY DEF Row
<1>3. About("shadows") = "recommendations"
  BY DEF About
<1>4. Wait(row, r.portfolio, r.born, Max(S)) /\ r \in Of(About(row.table))
  BY <1>2, <1>3 DEF StartModel, ActiveModel, Of
<1>5. PICK n \in Nat : \A x \in records : x.id \in 1..n
  BY DEF RecordsInv, RowsTyped
<1>6. S \in SUBSET (0..n) /\ S # {}
  BY <1>5 DEF Of
<1>7. Max(S) \in S
  BY <1>5, <1>6, MaxOfNumbers
<1>8. Max(S) # 0 => \E s \in Of("shadows") : s.id = Max(S) /\ s.portfolio = r.portfolio /\ s.model
  BY <1>7
<1>. HIDE DEF row, S
<1>. QED BY <1>1, <1>2, <1>4, <1>8, WaitInv

LEMMA AbandonWritingInv ==
  ASSUME RecordsInv, NEW w \in writers, AbandonWriting(w) PROVE RecordsInv'
BY WritersInv DEF AbandonWriting

\* The active model of the portfolio, or one that the deletion of its id's former
\* owner left, named another recommendation of the portfolio.
LEMMA FinishRefreshInv ==
  ASSUME RecordsInv, NEW w \in writers, FinishRefresh(w) PROVE RecordsInv'
<1>1. PICK s \in Of("shadows") :
        /\ s.id = w.target
        /\ records' = (records \ {s}) \union
             {[s EXCEPT !.about = w.row.about, !.late = @ \/ ~Alive(w.born)]}
  BY DEF FinishRefresh
<1>. DEFINE new == [s EXCEPT !.about = w.row.about, !.late = @ \/ ~Alive(w.born)]
<1>2. s \in records /\ s.table = "shadows" /\ DOMAIN s = Columns
  BY DEF Of, RecordsInv, RowsTyped
<1>3. /\ new.table = s.table /\ new.portfolio = s.portfolio /\ new.about = w.row.about
      /\ new.born = s.born /\ new.late = (s.late \/ ~Alive(w.born)) /\ new.model = s.model
      /\ new.id = s.id /\ DOMAIN new = Columns
  BY <1>2 DEF Columns
<1>4. records' = (records \ {s}) \union {new}
  BY <1>1
<1>. HIDE DEF new
<1>5. UNCHANGED <<portfolios, created, deletion>> /\ writers' \subseteq writers
  BY DEF FinishRefresh
<1>6. \A n : Alive(n)' <=> Alive(n)
  BY <1>5 DEF Alive
<1>7. PortfoliosTyped' /\ OwnersKnown'
  BY <1>2, <1>3, <1>4, <1>5 DEF RecordsInv, PortfoliosTyped, OwnersKnown, Owned
<1>8. RowsTyped'
  <2>1. PICK n \in Nat : \A r \in records : r.id \in 1..n
    BY DEF RecordsInv, RowsTyped
  <2>2. \A r \in records' : r.id \in 1..n /\ DOMAIN r = Columns /\ (r.model => r.table = "shadows")
    BY <1>2, <1>3, <1>4, <2>1 DEF RecordsInv, RowsTyped
  <2>3. \A q, r \in records' : q.table = r.table /\ q.id = r.id => q = r
    BY <1>2, <1>3, <1>4 DEF RecordsInv, RowsTyped
  <2>. QED BY <2>2, <2>3 DEF RowsTyped
<1>9. LeftRowsExplained'
  <2>1. \A r \in records' : ~Alive(r.born) => r.late \/ r.table \notin Covered(deletion[r.born])
    BY <1>2, <1>3, <1>4 DEF RecordsInv, LeftRowsExplained
  <2>2. \A r \in records' : ~Alive(r.born)' => r.late \/ r.table \notin Covered(deletion'[r.born])
    BY <1>5, <1>6, <2>1
  <2>3. \A n \in 1..MaxPortfolios : DeletionNoted(n)'
    BY <1>5 DEF RecordsInv, LeftRowsExplained, DeletionNoted, Alive
  <2>. QED BY <1>5, <2>2, <2>3 DEF RecordsInv, LeftRowsExplained, Alive
<1>10. \A t : \A q \in Of(t) : \E x \in {r \in records' : r.table = t} :
         x.id = q.id /\ x.born = q.born /\ x.portfolio = q.portfolio /\ x.model = q.model
  BY <1>2, <1>3, <1>4 DEF Of
<1>11. WritersHold'
  <2>1. ASSUME NEW v \in writers PROVE WriterHolds(v)'
    <3>1. WriterHolds(v) /\ (Alive(v.born)' <=> Alive(v.born))
      BY <1>6 DEF RecordsInv, WritersHold
    <3>. QED BY <1>10, <3>1 DEF WriterHolds, Of, Alive
  <2>. QED BY <1>5, <2>1 DEF WritersHold, WriterHolds, Alive, Of
<1>12. ReferencesHold'
  <2>. DEFINE Held(r) == \E q \in {x \in records' : x.table = About(r.table)} :
                           /\ q.id = r.about /\ q.portfolio = r.portfolio
                           /\ q.born = r.born \/ (r.model /\ deletion[r.born] = "request")
  <2>1. ASSUME NEW r \in records, About(r.table) # "none", r.table \notin {"grades", "repairs"}, ~r.late
        PROVE  Held(r)
    <3>1. PICK q \in Of(About(r.table)) :
                 /\ q.id = r.about /\ q.portfolio = r.portfolio
                 /\ q.born = r.born \/ (r.model /\ deletion[r.born] = "request")
      BY <2>1 DEF RecordsInv, ReferencesHold
    <3>. QED BY <1>10, <3>1
  <2>2. ASSUME ~new.late PROVE Held(new)
    <3>1. Alive(w.born) /\ ~s.late /\ WriterHolds(w) /\ Owned(w) /\ Owned(s)
      BY <1>2, <1>3, <2>2 DEF RecordsInv, WritersHold, OwnersKnown
    <3>2. s.id \in Nat \ {0} /\ w.target # 0
      BY <1>1, <1>2 DEF RecordsInv, RowsTyped
    <3>3. PICK m \in Of("shadows") : m.id = w.target /\ m.portfolio = w.portfolio /\ m.model
      BY <3>1, <3>2 DEF WriterHolds
    <3>4. m = s
      BY <1>1, <1>2, <3>3 DEF RecordsInv, RowsTyped, Of
    <3>5. w.row.table = "shadows" /\ About("shadows") = "recommendations"
      BY <3>1, <3>2 DEF WriterHolds, About
    <3>6. PICK q \in Of("recommendations") :
                 q.id = w.row.about /\ q.born = w.born /\ q.portfolio = w.portfolio
      BY <3>1, <3>5 DEF WriterHolds
    <3>7. CASE s.born = w.born
      BY <1>2, <1>3, <1>10, <3>3, <3>4, <3>5, <3>6, <3>7
    <3>8. CASE s.born # w.born
      <4>1. ~Alive(s.born)
        BY <3>1, <3>3, <3>4, <3>8 DEF RecordsInv, PortfoliosTyped, Owned, Alive
      <4>2. deletion[s.born] = "request"
        <5>1. s.born \in 1..created /\ s.born \in 1..MaxPortfolios
          BY <3>1, RecordsAssumption DEF RecordsInv, PortfoliosTyped, Owned
        <5>2. deletion[s.born] \in {"request", "command"}
          BY <4>1, <5>1 DEF RecordsInv, LeftRowsExplained, DeletionNoted
        <5>3. "shadows" \notin Covered(deletion[s.born])
          BY <1>2, <3>1, <4>1 DEF RecordsInv, LeftRowsExplained
        <5>. QED BY <5>2, <5>3 DEF Covered, CommandTables
      <4>. QED BY <1>2, <1>3, <1>10, <3>3, <3>4, <3>5, <3>6, <4>2
    <3>. QED BY <3>7, <3>8
  <2>3. ASSUME NEW r \in records', About(r.table) # "none", r.table \notin {"grades", "repairs"}, ~r.late
        PROVE  Held(r)
    BY <1>4, <2>1, <2>2, <2>3
  <2>. QED BY <1>5, <2>3 DEF ReferencesHold, Of
<1>. QED BY <1>7, <1>8, <1>9, <1>11, <1>12 DEF RecordsInv

\* A portfolio deleted, with all its own rows of the tables covered, and never a
\* row that one left is about.
LEMMA DeleteInv ==
  ASSUME RecordsInv, NEW p \in portfolios, NEW how \in {"request", "command"}, Gone(p, how),
         records' \subseteq records,
         \A r \in records' : r.born = p.born => r.late \/ r.table \notin Covered(how),
         \A r \in records \ records' :
            r.portfolio = p.id \/ r.table \in {"shadow_snapshots", "attributions"},
         \A r \in records' :
            About(r.table) # "none" /\ r.table \notin {"grades", "repairs"} /\ ~r.late =>
              \A q \in Of(About(r.table)) :
                 q.id = r.about /\ q.portfolio = r.portfolio => q \in records'
  PROVE  RecordsInv'
<1>1. portfolios' = portfolios \ {p} /\ UNCHANGED <<writers, created>>
  BY DEF Gone
<1>2. PortfoliosTyped' /\ OwnersKnown'
  BY <1>1 DEF RecordsInv, PortfoliosTyped, OwnersKnown, Owned
<1>3. p.born \in 1..MaxPortfolios
  BY RecordsAssumption DEF RecordsInv, PortfoliosTyped
<1>4. DOMAIN deletion' = 1..MaxPortfolios
      /\ \A n \in 1..MaxPortfolios : deletion'[n] = IF n = p.born THEN how ELSE deletion[n]
  BY DEF Gone, RecordsInv, LeftRowsExplained
<1>5. ASSUME NEW r \in records', ~Alive(r.born)'
      PROVE  r.late \/ r.table \notin Covered(deletion'[r.born])
  <2>1. r.born \in 1..MaxPortfolios
    BY RecordsAssumption DEF RecordsInv, PortfoliosTyped, OwnersKnown, Owned
  <2>2. CASE r.born = p.born
    BY <1>4, <2>1, <2>2
  <2>3. CASE r.born # p.born
    <3>1. ~Alive(r.born)
      BY <1>1, <1>5, <2>3 DEF Alive
    <3>. QED BY <1>4, <2>1, <2>3, <3>1 DEF RecordsInv, LeftRowsExplained
  <2>. QED BY <2>2, <2>3
<1>6. LeftRowsExplained'
  <2>1. ASSUME NEW n \in 1..MaxPortfolios PROVE DeletionNoted(n)'
    <3>1. DeletionNoted(n)
      BY DEF RecordsInv, LeftRowsExplained
    <3>2. n # p.born => (Alive(n)' <=> Alive(n))
      BY <1>1 DEF Alive
    <3>3. p.born \in 1..created /\ ~Alive(p.born)'
      BY <1>1 DEF RecordsInv, PortfoliosTyped, Alive
    <3>4. CASE n = p.born
      BY <1>1, <1>4, <3>3, <3>4 DEF DeletionNoted, Alive
    <3>5. CASE n # p.born
      BY <1>1, <1>4, <3>1, <3>2, <3>5 DEF DeletionNoted, Alive
    <3>. QED BY <3>4, <3>5
  <2>. QED BY <1>1, <1>4, <1>5, <2>1 DEF LeftRowsExplained, Alive
<1>7. RowsTyped'
  <2>1. \E n \in Nat : \A r \in records' : r.id \in 1..n
    BY DEF RecordsInv, RowsTyped
  <2>. QED BY <2>1 DEF RecordsInv, RowsTyped
<1>8. WritersHold'
  <2>1. ASSUME NEW w \in writers PROVE WriterHolds(w)'
    <3>1. WriterHolds(w) /\ Owned(w)
      BY DEF RecordsInv, WritersHold, OwnersKnown
    <3>2. ASSUME Alive(w.born)' PROVE Alive(w.born) /\ w.portfolio # p.id
      BY <1>1, <3>1, <3>2 DEF RecordsInv, PortfoliosTyped, Owned, Alive
    <3>3. ASSUME Alive(w.born)', NEW q \in records, q.portfolio = w.portfolio,
                 q.table \notin {"shadow_snapshots", "attributions"}
          PROVE  q \in records'
      BY <3>2, <3>3
    <3>4. About(w.row.table) \notin {"shadow_snapshots", "attributions"}
      BY DEF About
    <3>5. Alive(w.born)' /\ About(w.row.table) # "none" =>
            \E q \in {x \in records' : x.table = About(w.row.table)} :
               q.id = w.row.about /\ q.born = w.born /\ q.portfolio = w.portfolio
      BY <3>1, <3>2, <3>3, <3>4 DEF WriterHolds, Of
    <3>6. w.target # 0 /\ Alive(w.born)' =>
            \E s \in {x \in records' : x.table = "shadows"} :
               s.id = w.target /\ s.portfolio = w.portfolio /\ s.model
      BY <3>1, <3>2, <3>3 DEF WriterHolds, Of
    <3>. QED BY <3>1, <3>5, <3>6 DEF WriterHolds, Of, Alive
  <2>. QED BY <1>1, <2>1 DEF WritersHold, WriterHolds, Alive, Of
<1>9. ReferencesHold'
  <2>1. ASSUME NEW r \in records', About(r.table) # "none", r.table \notin {"grades", "repairs"}, ~r.late
        PROVE  \E q \in {x \in records' : x.table = About(r.table)} :
                 /\ q.id = r.about /\ q.portfolio = r.portfolio
                 /\ q.born = r.born \/ (r.model /\ deletion'[r.born] = "request")
    <3>1. r \in records /\ r.born \in 1..MaxPortfolios
      BY RecordsAssumption DEF RecordsInv, PortfoliosTyped, OwnersKnown, Owned
    <3>2. PICK q \in Of(About(r.table)) :
                 /\ q.id = r.about /\ q.portfolio = r.portfolio
                 /\ q.born = r.born \/ (r.model /\ deletion[r.born] = "request")
      BY <2>1, <3>1 DEF RecordsInv, ReferencesHold
    <3>3. q \in records' /\ q.table = About(r.table)
      BY <2>1, <3>2 DEF Of
    <3>4. CASE r.born # p.born
      BY <1>4, <3>1, <3>2, <3>3, <3>4
    <3>5. CASE r.born = p.born
      <4>1. Alive(r.born)
        BY <3>5 DEF Alive
      <4>2. deletion[r.born] = "none"
        BY <3>1, <4>1 DEF RecordsInv, LeftRowsExplained, DeletionNoted
      <4>. QED BY <3>2, <3>3, <4>2
    <3>. QED BY <3>4, <3>5
  <2>. QED BY <2>1 DEF ReferencesHold, Of
<1>. QED BY <1>2, <1>6, <1>7, <1>8, <1>9 DEF RecordsInv

LEMMA DeleteByRequestInv ==
  ASSUME RecordsInv, NEW p \in portfolios, DeleteByRequest(p) PROVE RecordsInv'
<1>1. records' = {r \in records : ~(r.table \in RelatedTables /\ r.portfolio = p.id)}
      /\ Gone(p, "request")
  BY DEF DeleteByRequest
<1>2. \A r \in records' : r.born = p.born => r.table \notin Covered("request")
  BY <1>1 DEF RecordsInv, OwnersKnown, Owned, Covered
<1>3. ASSUME NEW r \in records', About(r.table) # "none", r.table \notin {"grades", "repairs"},
             NEW q \in Of(About(r.table))
      PROVE  q \in records'
  <2>1. About(r.table) \notin RelatedTables
    BY <1>3 DEF About, RelatedTables
  <2>. QED BY <1>1, <2>1 DEF Of
<1>4. records' \subseteq records /\ \A r \in records \ records' : r.portfolio = p.id
  BY <1>1
<1>. QED BY <1>1, <1>2, <1>3, <1>4, DeleteInv

LEMMA DeleteByCommandInv ==
  ASSUME RecordsInv, NEW p \in portfolios, DeleteByCommand(p) PROVE RecordsInv'
<1>1. records' = records \ (Named(p.id) \union OfItsShadows(p.id)) /\ Gone(p, "command")
  BY DEF DeleteByCommand
<1>2. ASSUME NEW r \in records', r.born = p.born PROVE r.late \/ r.table \notin Covered("command")
  <2>. SUFFICES ASSUME r.table \in CommandTables, ~r.late PROVE FALSE
    BY DEF Covered
  <2>1. r \in records /\ r.portfolio = p.id
    BY <1>1, <1>2 DEF RecordsInv, OwnersKnown, Owned
  <2>2. r.table = "shadow_snapshots"
    BY <1>1, <2>1 DEF Named
  <2>3. PICK q \in Of("shadows") : q.id = r.about /\ q.portfolio = p.id
    BY <2>1, <2>2 DEF RecordsInv, ReferencesHold, About
  <2>4. r \in OfItsShadows(p.id)
    BY <2>1, <2>2, <2>3 DEF OfItsShadows
  <2>. QED BY <1>1, <2>4
<1>3. ASSUME NEW r \in records', About(r.table) # "none", r.table \notin {"grades", "repairs"},
             NEW q \in Of(About(r.table)), q.id = r.about, q.portfolio = r.portfolio
      PROVE  q \in records'
  <2>1. r \in records
    BY <1>1
  <2>2. q \in records /\ q.table = About(r.table)
    BY DEF Of
  <2>3. About(r.table) \in {"optimizer_history", "recommendations", "shadows"}
        /\ r.table \in {"recommendations", "decisions", "shadows", "shadow_snapshots", "attributions"}
    BY <1>3 DEF About
  <2>4. q \notin OfItsShadows(p.id)
    BY <2>2, <2>3 DEF OfItsShadows
  <2>5. q \notin Named(p.id)
    <3>. SUFFICES ASSUME q.portfolio = p.id PROVE FALSE
      BY DEF Named
    <3>1. r.portfolio = p.id
      BY <1>3
    <3>2. CASE r.table # "shadow_snapshots"
      <4>1. r \in Named(p.id)
        BY <2>1, <2>3, <3>1, <3>2 DEF Named, CommandTables
      <4>. QED BY <1>1, <4>1
    <3>3. CASE r.table = "shadow_snapshots"
      <4>1. About(r.table) = "shadows"
        BY <3>3 DEF About
      <4>2. r \in OfItsShadows(p.id)
        BY <1>3, <2>1, <3>1, <3>3, <4>1 DEF OfItsShadows
      <4>. QED BY <1>1, <4>2
    <3>. QED BY <3>2, <3>3
  <2>. QED BY <1>1, <2>2, <2>4, <2>5
<1>4. /\ records' \subseteq records
      /\ \A r \in records \ records' :
            r.portfolio = p.id \/ r.table \in {"shadow_snapshots", "attributions"}
  BY <1>1 DEF Named, OfItsShadows
<1>. QED BY <1>1, <1>2, <1>3, <1>4, DeleteInv

LEMMA RecordsInitInv == RecordsInit => RecordsInv
<1>. SUFFICES ASSUME RecordsInit PROVE RecordsInv
  OBVIOUS
<1>1. PortfoliosTyped /\ OwnersKnown /\ WritersHold /\ ReferencesHold
  BY RecordsAssumption DEF RecordsInit, PortfoliosTyped, OwnersKnown, WritersHold, ReferencesHold
<1>2. RowsTyped
  <2>1. \E n \in Nat : \A r \in records : r.id \in 1..n
    BY DEF RecordsInit
  <2>. QED BY <2>1 DEF RecordsInit, RowsTyped
<1>3. LeftRowsExplained
  BY RecordsAssumption DEF RecordsInit, LeftRowsExplained, DeletionNoted
<1>. QED BY <1>1, <1>2, <1>3 DEF RecordsInv

LEMMA RecordsStepInv == RecordsInv /\ [RecordsNext]_recordsVars => RecordsInv'
<1>. SUFFICES ASSUME RecordsInv, [RecordsNext]_recordsVars PROVE RecordsInv'
  OBVIOUS
<1>1. CASE UNCHANGED recordsVars
  BY <1>1, WritersInv DEF recordsVars
<1>2. CASE RecordsNext
  <2>1. ASSUME NEW p \in portfolios, NEW t \in Tables, WriteRow(t, p) \/ StartWriting(t, p)
        PROVE  RecordsInv'
    BY <2>1, WriteRowInv, StartWritingInv
  <2>2. ASSUME NEW r \in records, StartModel(r) \/ \E t \in Tables : StartAbout(t, r)
        PROVE  RecordsInv'
    BY <2>2, StartAboutInv, StartModelInv
  <2>3. ASSUME NEW w \in writers, FinishWriting(w) \/ FinishRefresh(w) \/ AbandonWriting(w)
        PROVE  RecordsInv'
    BY <2>3, FinishWritingInv, FinishRefreshInv, AbandonWritingInv
  <2>. QED BY <1>2, <2>1, <2>2, <2>3, CreateInv, DeleteByRequestInv, DeleteByCommandInv DEF RecordsNext
<1>. QED BY <1>1, <1>2

LEMMA RowsAreOwn == RecordsInv => OwnRecords
<1>. SUFFICES ASSUME RecordsInv, NEW r \in records, NEW p \in portfolios,
                     r.portfolio = p.id, r.born # p.born
              PROVE  r.late \/ r.table \notin Covered(deletion[r.born])
  BY DEF OwnRecords
<1>1. ~Alive(r.born)
  BY DEF RecordsInv, OwnersKnown, Owned, PortfoliosTyped, Alive
<1>. QED BY <1>1 DEF RecordsInv, LeftRowsExplained

\* delete_portfolio of main.py and of manage.py: however often an id is given
\* away again, a portfolio has only its own rows in the tables that the deletion
\* of its former owner covers, and no row is about one that was deleted or that
\* names another portfolio, apart from grades, repairs and what a writer that
\* outlived the portfolio wrote.
THEOREM RecordsAlwaysStayTogether == RecordsSpec => []RecordsStayTogether
<1>1. RecordsInv => RecordsStayTogether
  BY RowsAreOwn DEF RecordsInv, RecordsStayTogether
<1>. QED BY <1>1, RecordsInitInv, RecordsStepInv, PTL DEF RecordsSpec

-----------------------------------------------------------------------------
(* Sequences.                                                              *)

\* A sequence of whatever.
IsSeq(s) == Len(s) \in Nat /\ DOMAIN s = 1..Len(s) /\ s = [i \in DOMAIN s |-> s[i]]

LEMMA SeqOfNone == IsSeq(<<>>) /\ Len(<<>>) = 0
<1>1. <<>> \in Seq({0}) /\ Len(<<>>) = 0
  BY EmptySeq
<1>2. Len(<<>>) \in Nat /\ DOMAIN <<>> = 1..Len(<<>>) /\ <<>> \in [1..Len(<<>>) -> {0}]
  BY <1>1, LenProperties
<1>. QED BY <1>1, <1>2 DEF IsSeq

LEMMA SeqOfSome ==
  ASSUME NEW n \in Nat, NEW s, DOMAIN s = 1..n, s = [i \in 1..n |-> s[i]]
  PROVE  IsSeq(s) /\ Len(s) = n /\ s \in Seq({s[i] : i \in 1..n})
<1>. DEFINE S == {s[i] : i \in 1..n}
<1>1. s \in [1..n -> S]
  OBVIOUS
<1>2. s \in Seq(S)
  BY <1>1
<1>3. Len(s) \in Nat /\ DOMAIN s = 1..Len(s)
  BY <1>2, LenProperties
<1>4. Len(s) = n
  BY <1>3
<1>. QED BY <1>2, <1>3, <1>4 DEF IsSeq

LEMMA SeqGrows ==
  ASSUME NEW s, IsSeq(s), NEW e
  PROVE  /\ IsSeq(Append(s, e)) /\ Len(Append(s, e)) = Len(s) + 1
         /\ \A i \in 1..Len(s) : Append(s, e)[i] = s[i]
         /\ Append(s, e)[Len(s) + 1] = e
<1>. DEFINE S == {s[i] : i \in 1..Len(s)}
            T == S \union {e}
<1>1. s \in [1..Len(s) -> T] /\ Len(s) \in Nat
  BY DEF IsSeq
<1>2. s \in Seq(T) /\ e \in T
  BY <1>1
<1>. HIDE DEF T
<1>3. /\ Append(s, e) \in Seq(T) /\ Len(Append(s, e)) = Len(s) + 1
      /\ \A i \in 1..Len(s) : Append(s, e)[i] = s[i]
      /\ Append(s, e)[Len(s) + 1] = e
  BY <1>2, AppendProperties
<1>4. /\ Len(Append(s, e)) \in Nat /\ DOMAIN Append(s, e) = 1..Len(Append(s, e))
      /\ Append(s, e) \in [1..Len(Append(s, e)) -> T]
  BY <1>3, LenProperties
<1>. QED BY <1>3, <1>4 DEF IsSeq

-----------------------------------------------------------------------------
(* The invariant.                                                          *)

\* A day whose snapshots do not change any more.
Past(d, today, done) == d \in Nat /\ (d < today \/ (d = today /\ done))

IsShadow(s) == DOMAIN s = {"kind", "rec", "holdings", "from", "start", "active", "made", "known"}

IsFrozen(S, i) == i \in 1..Len(S) /\ S[i].kind = "frozen"

\* What a recommendation buys at the prices known by a day, and what holdings are
\* worth on a day, whether its prices are fetched or carried along.
Plan(R, r, rows, known) == Resolve(R[r].alloc, Value, FetchedOn(rows, known))
Worths(h, rows, d) == {PaperValue(h, FetchedOn(rows, d)), PaperValue(h, PricesOn(rows, d))}

\* The prices that make a frozen shadow's holdings those of the plan.
PricesKnown(rows, known) == FullyPriced(FetchedOn(rows, known))
Sure(s, rows, quiet) == (quiet /\ s.made = s.from) \/ PricesKnown(rows, s.known)

\* A frozen shadow has values of past days from its recommendation's on, and when
\* its prices are sure they are those of the plan at the prices of their days.
FrozenFits(s, v, R, rows, today, done, quiet) ==
  /\ s.rec \in 1..Len(R) /\ s.from = R[s.rec].day
  /\ s.known <= s.from /\ Past(s.known, today, done)
  /\ \A d \in DOMAIN v : Past(d, today, done) /\ s.from <= d
  /\ Sure(s, rows, quiet) =>
       /\ s.holdings = Plan(R, s.rec, rows, s.known)
       /\ \A d \in DOMAIN v : v[d] \in Worths(s.holdings, rows, d)

PaperFits(S, V, R, rows, today, done, quiet) ==
  /\ IsSeq(S) /\ IsSeq(V) /\ Len(V) = Len(S)
  /\ \A i \in 1..Len(S) : IsShadow(S[i])
  /\ \A i \in 1..Len(S) : IsFrozen(S, i) => FrozenFits(S[i], V[i], R, rows, today, done, quiet)

\* What is never written again of a frozen shadow.
SameBirth(s, s2) ==
  s2.rec = s.rec /\ s2.from = s.from /\ s2.known = s.known /\ s2.made = s.made

FrozenKept(S, S2) ==
  /\ Len(S) \in Nat /\ Len(S2) \in Nat /\ Len(S) <= Len(S2)
  /\ \A i \in 1..Len(S) :
       /\ S2[i].kind = S[i].kind
       /\ IsFrozen(S, i) => SameBirth(S[i], S2[i])

\* The first frozen shadow of a recommendation.
IsFirst(S, r, i) ==
  /\ IsFrozen(S, i) /\ S[i].rec = r
  /\ \A j \in 1..Len(S) : IsFrozen(S, j) /\ S[j].rec = r => i <= j

GradeFits(g, S, R, rows, today, done, quiet) ==
  /\ g.rec \in 1..Len(R) /\ g.kind \in Nat /\ Past(g.end, today, done)
  /\ R[g.rec].day <= g.end /\ g.end <= R[g.rec].day + g.kind
  /\ R[g.rec].day + g.kind <= g.end + MaxGap
  /\ \E i \in 1..Len(S) :
       /\ IsFirst(S, g.rec, i)
       /\ S[i].known <= R[g.rec].day /\ Past(S[i].known, today, done)
       /\ S[i].from = R[g.rec].day
       /\ Sure(S[i], rows, quiet) =>
            g.value \in Worths(Plan(R, g.rec, rows, S[i].known), rows, g.end)

Quiet == commands = 0

ClockFits ==
  /\ day \in Nat \ {0} /\ worked \in BOOLEAN /\ commands \in Nat
  /\ \A d \in DOMAIN history : Past(d, day, worked)

RecsFit == IsSeq(recs) /\ \A r \in 1..Len(recs) : recs[r].day \in 1..day

IsModel(S, i) == i = NoShadow \/ (i \in 1..Len(S) /\ S[i].kind = "model")

\* What a thread has read about the recommendation that it freezes.
Bought(b, r, S, R, rows, today, done) ==
  /\ DOMAIN b = {"shadow", "holdings", "known"}
  /\ b.known <= R[r].day /\ Past(b.known, today, done)
  /\ b.shadow # NoShadow =>
       IsFrozen(S, b.shadow) /\ S[b.shadow].rec = r /\ S[b.shadow].known = b.known
  /\ \/ PricesKnown(rows, b.known)
     \/ (IF b.shadow = NoShadow THEN today ELSE S[b.shadow].made) = R[r].day
     => b.holdings = Plan(R, r, rows, b.known)

ThreadFits(t, S, R, rows, today, done) ==
  /\ DOMAIN t = {"work", "rec", "read"} /\ t.rec \in 1..Len(R)
  /\ t.read # <<>> =>
       IF t.work = "model" THEN IsModel(S, t.read[1].shadow)
       ELSE Bought(t.read[1], t.rec, S, R, rows, today, done)

ThreadsFit == \A t \in threads : ThreadFits(t, shadows, recs, history, day, worked)

GradedOnce == \A f, g \in grades : f.rec = g.rec /\ f.kind = g.kind => f = g

GradesFit ==
  /\ \A g \in grades : GradeFits(g, shadows, recs, history, day, worked, Quiet)
  /\ GradedOnce

PaperFit == PaperFits(shadows, values, recs, history, day, worked, Quiet)

MemoryInv == ClockFits /\ RecsFit /\ ThreadsFit /\ GradesFit /\ PaperFit

-----------------------------------------------------------------------------
(* What time changes.                                                      *)

\* Past days stay past, with the prices they had.
Later(rows, today, done, rows2, today2, done2) ==
  /\ today <= today2
  /\ \A d : Past(d, today, done) =>
       /\ Past(d, today2, done2) /\ PricesOn(rows2, d) = PricesOn(rows, d)
       /\ FetchedOn(rows2, d) = FetchedOn(rows, d)

\* Recommendations stay, and none is dated ahead.
RecsKept(R, R2, today) ==
  /\ Len(R) \in Nat /\ Len(R2) \in Nat /\ Len(R) <= Len(R2)
  /\ \A r \in 1..Len(R) : R2[r] = R[r] /\ R[r].day \in 1..today

LEMMA WorthsLater ==
  ASSUME NEW rows, NEW today, NEW done, NEW rows2, NEW today2, NEW done2,
         Later(rows, today, done, rows2, today2, done2), NEW d, Past(d, today, done)
  PROVE  /\ Past(d, today2, done2) /\ FetchedOn(rows2, d) = FetchedOn(rows, d)
         /\ PricesKnown(rows2, d) <=> PricesKnown(rows, d)
         /\ \A h : Worths(h, rows2, d) = Worths(h, rows, d)
         /\ \A R, r : Plan(R, r, rows2, d) = Plan(R, r, rows, d)
BY DEF Later, PricesKnown, Worths, Plan

LEMMA FrozenLater ==
  ASSUME NEW s, NEW v, NEW R, NEW rows, NEW today, NEW done, NEW quiet,
         NEW R2, NEW rows2, NEW today2, NEW done2, NEW quiet2,
         FrozenFits(s, v, R, rows, today, done, quiet), RecsKept(R, R2, today),
         Later(rows, today, done, rows2, today2, done2), quiet2 => quiet
  PROVE  FrozenFits(s, v, R2, rows2, today2, done2, quiet2)
<1>1. s.rec \in 1..Len(R2) /\ R2[s.rec] = R[s.rec] /\ Past(s.known, today, done)
  BY DEF FrozenFits, RecsKept
<1>2. /\ Past(s.known, today2, done2)
      /\ PricesKnown(rows2, s.known) <=> PricesKnown(rows, s.known)
      /\ Plan(R2, s.rec, rows2, s.known) = Plan(R, s.rec, rows, s.known)
  <2>1. Plan(R2, s.rec, rows2, s.known) = Plan(R, s.rec, rows2, s.known)
    BY <1>1 DEF Plan
  <2>. QED BY <1>1, <2>1, WorthsLater
<1>3. Sure(s, rows2, quiet2) => Sure(s, rows, quiet)
  BY <1>2 DEF Sure
<1>4. \A d \in DOMAIN v : /\ Past(d, today2, done2) /\ s.from <= d
                          /\ Worths(s.holdings, rows2, d) = Worths(s.holdings, rows, d)
  BY WorthsLater DEF FrozenFits
<1>. QED BY <1>1, <1>2, <1>3, <1>4 DEF FrozenFits

LEMMA PaperLater ==
  ASSUME NEW S, NEW V, NEW R, NEW rows, NEW today, NEW done, NEW quiet,
         NEW R2, NEW rows2, NEW today2, NEW done2, NEW quiet2,
         PaperFits(S, V, R, rows, today, done, quiet), RecsKept(R, R2, today),
         Later(rows, today, done, rows2, today2, done2), quiet2 => quiet
  PROVE  PaperFits(S, V, R2, rows2, today2, done2, quiet2)
<1>1. \A i \in 1..Len(S) : IsFrozen(S, i) => FrozenFits(S[i], V[i], R2, rows2, today2, done2, quiet2)
  BY FrozenLater DEF PaperFits
<1>. QED BY <1>1 DEF PaperFits

LEMMA FirstStays ==
  ASSUME NEW S, NEW S2, NEW r, NEW i, FrozenKept(S, S2), IsFirst(S, r, i)
  PROVE  IsFirst(S2, r, i) /\ SameBirth(S[i], S2[i])
<1>1. i \in 1..Len(S) /\ i \in 1..Len(S2) /\ IsFrozen(S2, i) /\ SameBirth(S[i], S2[i]) /\ S2[i].rec = r
  BY DEF FrozenKept, IsFirst, IsFrozen, SameBirth
<1>2. ASSUME NEW j \in 1..Len(S2), IsFrozen(S2, j), S2[j].rec = r
      PROVE  i <= j
  <2>1. CASE j \in 1..Len(S)
    BY <1>2, <2>1 DEF FrozenKept, IsFirst, IsFrozen, SameBirth
  <2>2. CASE j \notin 1..Len(S)
    BY <1>1, <2>2 DEF FrozenKept
  <2>. QED BY <2>1, <2>2
<1>. QED BY <1>1, <1>2 DEF IsFirst

LEMMA GradeLater ==
  ASSUME NEW g, NEW S, NEW R, NEW rows, NEW today, NEW done, NEW quiet,
         NEW S2, NEW R2, NEW rows2, NEW today2, NEW done2, NEW quiet2,
         GradeFits(g, S, R, rows, today, done, quiet), FrozenKept(S, S2), RecsKept(R, R2, today),
         Later(rows, today, done, rows2, today2, done2), quiet2 => quiet
  PROVE  GradeFits(g, S2, R2, rows2, today2, done2, quiet2)
<1>1. PICK i \in 1..Len(S) :
             /\ IsFirst(S, g.rec, i)
             /\ S[i].known <= R[g.rec].day /\ Past(S[i].known, today, done)
             /\ S[i].from = R[g.rec].day
             /\ Sure(S[i], rows, quiet) =>
                  g.value \in Worths(Plan(R, g.rec, rows, S[i].known), rows, g.end)
  BY DEF GradeFits
<1>2. g.rec \in 1..Len(R2) /\ R2[g.rec] = R[g.rec]
  BY DEF GradeFits, RecsKept
<1>3. IsFirst(S2, g.rec, i) /\ SameBirth(S[i], S2[i]) /\ i \in 1..Len(S2)
  BY <1>1, FirstStays DEF IsFirst, IsFrozen
<1>4. /\ Past(S2[i].known, today2, done2)
      /\ PricesKnown(rows2, S2[i].known) <=> PricesKnown(rows, S[i].known)
      /\ Plan(R2, g.rec, rows2, S2[i].known) = Plan(R, g.rec, rows, S[i].known)
  <2>1. Plan(R2, g.rec, rows2, S[i].known) = Plan(R, g.rec, rows2, S[i].known)
    BY <1>2 DEF Plan
  <2>2. S2[i].known = S[i].known
    BY <1>3 DEF SameBirth
  <2>. QED BY <1>1, <2>1, <2>2, WorthsLater
<1>5. \A h : Worths(h, rows2, g.end) = Worths(h, rows, g.end)
  BY WorthsLater DEF GradeFits
<1>6. Past(g.end, today2, done2)
  BY WorthsLater DEF GradeFits
<1>7. Sure(S2[i], rows2, quiet2) => Sure(S[i], rows, quiet)
  BY <1>3, <1>4 DEF Sure, SameBirth
<1>8. \E j \in 1..Len(S2) :
        /\ IsFirst(S2, g.rec, j)
        /\ S2[j].known <= R2[g.rec].day /\ Past(S2[j].known, today2, done2)
        /\ S2[j].from = R2[g.rec].day
        /\ Sure(S2[j], rows2, quiet2) =>
             g.value \in Worths(Plan(R2, g.rec, rows2, S2[j].known), rows2, g.end)
  BY <1>1, <1>2, <1>3, <1>4, <1>5, <1>7 DEF SameBirth
<1>. QED BY <1>2, <1>6, <1>8 DEF GradeFits

LEMMA ThreadLater ==
  ASSUME NEW t, NEW S, NEW R, NEW rows, NEW today \in Nat, NEW done,
         NEW S2, NEW R2, NEW rows2, NEW today2 \in Nat, NEW done2,
         ThreadFits(t, S, R, rows, today, done), FrozenKept(S, S2), RecsKept(R, R2, today),
         Later(rows, today, done, rows2, today2, done2)
  PROVE  ThreadFits(t, S2, R2, rows2, today2, done2)
<1>1. t.rec \in 1..Len(R2) /\ R2[t.rec] = R[t.rec] /\ R[t.rec].day \in 1..today
  BY DEF ThreadFits, RecsKept
<1>2. ASSUME t.read # <<>>, t.work = "model"
      PROVE  IsModel(S2, t.read[1].shadow)
  BY <1>2 DEF ThreadFits, IsModel, FrozenKept
<1>3. ASSUME t.read # <<>>, t.work # "model"
      PROVE  Bought(t.read[1], t.rec, S2, R2, rows2, today2, done2)
  <2>. DEFINE b == t.read[1]
  <2>0. Bought(b, t.rec, S, R, rows, today, done)
    BY <1>3 DEF ThreadFits
  <2>. HIDE DEF b
  <2>1. /\ Past(b.known, today2, done2)
        /\ PricesKnown(rows2, b.known) <=> PricesKnown(rows, b.known)
        /\ Plan(R2, t.rec, rows2, b.known) = Plan(R, t.rec, rows, b.known)
    <3>1. Plan(R2, t.rec, rows2, b.known) = Plan(R, t.rec, rows2, b.known)
      BY <1>1 DEF Plan
    <3>. QED BY <2>0, <3>1, WorthsLater DEF Bought
  <2>2. b.shadow # NoShadow =>
          /\ IsFrozen(S2, b.shadow) /\ S2[b.shadow].rec = t.rec /\ S2[b.shadow].known = b.known
          /\ S2[b.shadow].made = S[b.shadow].made
    BY <2>0 DEF Bought, FrozenKept, IsFrozen, SameBirth
  <2>3. today2 = R[t.rec].day => today = R[t.rec].day
    BY <1>1 DEF Later
  <2>. QED BY <1>1, <2>0, <2>1, <2>2, <2>3 DEF Bought, b
<1>. QED BY <1>1, <1>2, <1>3 DEF ThreadFits

LEMMA LaterNow == \A rows, done : \A today \in Nat : Later(rows, today, done, rows, today, done)
BY DEF Later

LEMMA LaterTomorrow ==
  ASSUME NEW rows, NEW today \in Nat, NEW done PROVE Later(rows, today, done, rows, today + 1, FALSE)
BY DEF Later, Past

\* The days up to one that is past.
LEMMA LastPricesSame ==
  ASSUME NEW rows, NEW rows2, NEW days, NEW n \in Nat, days \in SUBSET (0..n),
         \A e \in days : rows2[e] = rows[e]
  PROVE  LastPrices(rows2, days) = LastPrices(rows, days)
<1>1. ASSUME NEW s \in Symbols
      PROVE  LastPrices(rows2, days)[s] = LastPrices(rows, days)[s]
  <2>. DEFINE known == {e \in days : rows[e][s] # Unpriced}
              known2 == {e \in days : rows2[e][s] # Unpriced}
  <2>1. known2 = known
    OBVIOUS
  <2>2. LastPrices(rows2, days)[s] = IF known2 = {} THEN Unpriced ELSE rows2[Max(known2)][s]
    BY DEF LastPrices
  <2>3. LastPrices(rows, days)[s] = IF known = {} THEN Unpriced ELSE rows[Max(known)][s]
    BY DEF LastPrices
  <2>4. known # {} => Max(known) \in days
    <3>1. known \in SUBSET (0..n) /\ known \subseteq days
      OBVIOUS
    <3>. HIDE DEF known
    <3>. QED BY <3>1, MaxOfNumbers
  <2>. HIDE DEF known, known2
  <2>. QED BY <2>1, <2>2, <2>3, <2>4
<1>2. /\ LastPrices(rows2, days) = [s \in Symbols |-> LastPrices(rows2, days)[s]]
      /\ LastPrices(rows, days) = [s \in Symbols |-> LastPrices(rows, days)[s]]
  BY DEF LastPrices
<1>. QED BY <1>1, <1>2

\* The job writes the snapshot of today, or does not.
LEMMA LaterWorked ==
  ASSUME NEW rows, NEW rows2, NEW today \in Nat,
         rows2 = rows \/ (DOMAIN rows2 = DOMAIN rows \union {today}
                            /\ \A d \in DOMAIN rows : d # today => rows2[d] = rows[d]),
         \A d \in DOMAIN rows : d \in Nat /\ d < today
  PROVE  Later(rows, today, FALSE, rows2, today, TRUE)
<1>1. ASSUME NEW d, Past(d, today, FALSE)
      PROVE  /\ Past(d, today, TRUE) /\ PricesOn(rows2, d) = PricesOn(rows, d)
             /\ FetchedOn(rows2, d) = FetchedOn(rows, d)
  <2>1. d \in Nat /\ d < today
    BY <1>1 DEF Past
  <2>. DEFINE days == DaysUpTo(rows, d)
  <2>2. DaysUpTo(rows2, d) = days
    BY <2>1 DEF DaysUpTo
  <2>3. days \in SUBSET (0..d) /\ \A e \in days : rows2[e] = rows[e]
    BY <2>1 DEF DaysUpTo
  <2>. HIDE DEF days
  <2>. DEFINE newest == {e \in days : Cardinality({f \in days : f > e}) < FetchedRows}
  <2>4. newest \subseteq days
    OBVIOUS
  <2>5. PricesOn(rows2, d) = LastPrices(rows2, days) /\ PricesOn(rows, d) = LastPrices(rows, days)
    BY <2>2 DEF PricesOn, days
  <2>6. FetchedOn(rows2, d) = LastPrices(rows2, newest) /\ FetchedOn(rows, d) = LastPrices(rows, newest)
    BY <2>2 DEF FetchedOn, days
  <2>. HIDE DEF newest
  <2>7. newest \in SUBSET (0..d) /\ \A e \in newest : rows2[e] = rows[e]
    BY <2>3, <2>4
  <2>8. LastPrices(rows2, days) = LastPrices(rows, days)
    BY <2>1, <2>3, LastPricesSame
  <2>9. LastPrices(rows2, newest) = LastPrices(rows, newest)
    BY <2>1, <2>7, LastPricesSame
  <2>10. Past(d, today, TRUE)
    BY <2>1 DEF Past
  <2>. QED BY <2>5, <2>6, <2>8, <2>9, <2>10
<1>2. today <= today
  OBVIOUS
<1>3. \A d : Past(d, today, FALSE) =>
        /\ Past(d, today, TRUE) /\ PricesOn(rows2, d) = PricesOn(rows, d)
        /\ FetchedOn(rows2, d) = FetchedOn(rows, d)
  BY <1>1
<1>. QED BY <1>2, <1>3, Zenon DEF Later

-----------------------------------------------------------------------------
(* Steps.                                                                  *)

\* What a step keeps of the shadows and the past, it keeps of the grades.
LEMMA KeptInv ==
  ASSUME MemoryInv, ClockFits', RecsFit', ThreadsFit', PaperFit',
         RecsKept(recs, recs', day),
         Later(history, day, worked, history', day', worked'), Quiet' => Quiet,
         FrozenKept(shadows, shadows'),
         NEW new, grades' = grades \union new,
         \A g \in new : GradeFits(g, shadows', recs', history', day', worked', Quiet'),
         \A f \in new, g \in grades' : f.rec = g.rec /\ f.kind = g.kind => f = g
  PROVE  MemoryInv'
<1>1. \A g \in grades : GradeFits(g, shadows', recs', history', day', worked', Quiet')
  BY GradeLater DEF MemoryInv, GradesFit
<1>2. GradedOnce'
  BY DEF MemoryInv, GradesFit, GradedOnce
<1>3. GradesFit'
  BY <1>1, <1>2 DEF GradesFit
<1>. QED BY <1>3 DEF MemoryInv

LEMMA NoGradesInv ==
  ASSUME MemoryInv, ClockFits', RecsFit', ThreadsFit', PaperFit',
         RecsKept(recs, recs', day),
         Later(history, day, worked, history', day', worked'), Quiet' => Quiet,
         FrozenKept(shadows, shadows'), grades' = grades
  PROVE  MemoryInv'
<1>1. \A g \in grades : GradeFits(g, shadows', recs', history', day', worked', Quiet')
  BY GradeLater DEF MemoryInv, GradesFit
<1>2. GradesFit'
  BY <1>1 DEF MemoryInv, GradesFit, GradedOnce
<1>. QED BY <1>2 DEF MemoryInv

LEMMA ThreadsStay ==
  ASSUME MemoryInv, FrozenKept(shadows, shadows'), RecsKept(recs, recs', day), day' \in Nat,
         Later(history, day, worked, history', day', worked'),
         \A t \in threads' : t \in threads \/ ThreadFits(t, shadows', recs', history', day', worked')
  PROVE  ThreadsFit'
<1>1. day \in Nat
  BY DEF MemoryInv, ClockFits
<1>2. \A t \in threads : ThreadFits(t, shadows', recs', history', day', worked')
  BY <1>1, ThreadLater DEF MemoryInv, ThreadsFit
<1>. QED BY <1>2 DEF ThreadsFit

LEMMA KeptAsIs == ASSUME MemoryInv, shadows' = shadows PROVE FrozenKept(shadows, shadows')
BY DEF MemoryInv, PaperFit, PaperFits, IsSeq, FrozenKept, SameBirth

LEMMA FreshShadow ==
  ASSUME NEW kind, NEW r, NEW h, NEW from, NEW known
  PROVE  /\ IsShadow(Shadow(kind, r, h, from, known))
         /\ Shadow(kind, r, h, from, known).kind = kind /\ Shadow(kind, r, h, from, known).rec = r
         /\ Shadow(kind, r, h, from, known).holdings = h /\ Shadow(kind, r, h, from, known).from = from
         /\ Shadow(kind, r, h, from, known).known = known /\ Shadow(kind, r, h, from, known).made = day
BY DEF Shadow, IsShadow

LEMMA AddedFits ==
  ASSUME NEW p, NEW R, NEW rows, NEW today, NEW done, NEW quiet,
         PaperFits(p.shadows, p.values, R, rows, today, done, quiet),
         NEW s, NEW v, IsShadow(s),
         s.kind = "frozen" => FrozenFits(s, v, R, rows, today, done, quiet)
  PROVE  /\ PaperFits(Added(p, s, v).shadows, Added(p, s, v).values, R, rows, today, done, quiet)
         /\ FrozenKept(p.shadows, Added(p, s, v).shadows)
         /\ Len(Added(p, s, v).shadows) = Len(p.shadows) + 1
         /\ Added(p, s, v).shadows[Len(p.shadows) + 1] = s
<1>. DEFINE S == p.shadows
            V == p.values
            S2 == Append(S, s)
            V2 == Append(V, v)
            n == Len(S)
<1>1. Added(p, s, v).shadows = S2 /\ Added(p, s, v).values = V2
  BY DEF Added
<1>2. IsSeq(S) /\ IsSeq(V) /\ Len(V) = n /\ n \in Nat
  BY DEF PaperFits, IsSeq
<1>3. /\ IsSeq(S2) /\ Len(S2) = n + 1
      /\ \A i \in 1..n : S2[i] = S[i]
      /\ S2[n + 1] = s
  BY <1>2, SeqGrows
<1>4. /\ IsSeq(V2) /\ Len(V2) = n + 1
      /\ \A i \in 1..n : V2[i] = V[i]
      /\ V2[n + 1] = v
  BY <1>2, SeqGrows
<1>5. \A i : i \in 1..Len(S2) <=> i \in 1..n \/ i = n + 1
  BY <1>2, <1>3
<1>6. /\ \A i \in 1..n : IsShadow(S[i])
      /\ \A i \in 1..n : IsFrozen(S, i) => FrozenFits(S[i], V[i], R, rows, today, done, quiet)
  BY DEF PaperFits
<1>7. FrozenKept(S, S2)
  BY <1>2, <1>3 DEF FrozenKept, SameBirth
<1>. HIDE DEF S, V, S2, V2, n
<1>8. \A i \in 1..n : IsFrozen(S2, i) <=> IsFrozen(S, i)
  BY <1>3, <1>5 DEF IsFrozen, n
<1>9. \A i \in 1..Len(S2) : IsShadow(S2[i])
  BY <1>3, <1>5, <1>6
<1>10. ASSUME NEW i \in 1..Len(S2), IsFrozen(S2, i)
       PROVE  FrozenFits(S2[i], V2[i], R, rows, today, done, quiet)
  <2>1. CASE i \in 1..n
    BY <1>3, <1>4, <1>6, <1>8, <1>10, <2>1
  <2>2. CASE i = n + 1
    BY <1>3, <1>4, <1>10, <2>2 DEF IsFrozen
  <2>. QED BY <1>5, <2>1, <2>2
<1>11. PaperFits(S2, V2, R, rows, today, done, quiet)
  BY <1>3, <1>4, <1>9, <1>10 DEF PaperFits
<1>. QED BY <1>1, <1>3, <1>7, <1>11 DEF S, n

\* Other than frozen shadows may change as they like.
IsTuple(s, n) == DOMAIN s = 1..n /\ s = [i \in 1..n |-> s[i]]

FrozenChange(S, V, S2, V2, R, rows, today, done, quiet2) ==
  \A i \in 1..Len(S) :
    /\ IsShadow(S2[i]) /\ S2[i].kind = S[i].kind
    /\ IsFrozen(S, i) =>
         /\ SameBirth(S[i], S2[i])
         /\ \/ S2[i].holdings = S[i].holdings /\ V2[i] = V[i]
            \/ FrozenFits(S2[i], V2[i], R, rows, today, done, quiet2)

LEMMA SameFits ==
  ASSUME NEW s, NEW s2, NEW v, NEW R, NEW rows, NEW today, NEW done, NEW quiet, NEW quiet2,
         FrozenFits(s, v, R, rows, today, done, quiet), quiet2 => quiet,
         SameBirth(s, s2), s2.holdings = s.holdings
  PROVE  FrozenFits(s2, v, R, rows, today, done, quiet2)
<1>1. Sure(s2, rows, quiet2) => Sure(s, rows, quiet)
  BY DEF Sure, SameBirth
<1>. QED BY <1>1 DEF FrozenFits, SameBirth

LEMMA OthersChange ==
  ASSUME NEW S, NEW V, NEW R, NEW rows, NEW today, NEW done, NEW quiet, NEW S2, NEW V2, NEW quiet2,
         PaperFits(S, V, R, rows, today, done, quiet), quiet2 => quiet,
         IsTuple(S2, Len(S)), IsTuple(V2, Len(S)),
         FrozenChange(S, V, S2, V2, R, rows, today, done, quiet2)
  PROVE  PaperFits(S2, V2, R, rows, today, done, quiet2) /\ FrozenKept(S, S2)
<1>1. Len(S) \in Nat
  BY DEF PaperFits, IsSeq
<1>2. IsSeq(S2) /\ Len(S2) = Len(S)
  BY <1>1, SeqOfSome DEF IsTuple
<1>3. IsSeq(V2) /\ Len(V2) = Len(S)
  BY <1>1, SeqOfSome DEF IsTuple
<1>4. \A i : IsFrozen(S2, i) <=> IsFrozen(S, i)
  BY <1>2 DEF IsFrozen, FrozenChange
<1>5. FrozenKept(S, S2)
  BY <1>1, <1>2 DEF FrozenKept, FrozenChange
<1>6. ASSUME NEW i \in 1..Len(S2), IsFrozen(S2, i)
      PROVE  FrozenFits(S2[i], V2[i], R, rows, today, done, quiet2)
  <2>1. i \in 1..Len(S) /\ IsFrozen(S, i)
    BY <1>2, <1>4, <1>6
  <2>2. FrozenFits(S[i], V[i], R, rows, today, done, quiet) /\ SameBirth(S[i], S2[i])
    BY <2>1 DEF PaperFits, FrozenChange
  <2>3. CASE S2[i].holdings = S[i].holdings /\ V2[i] = V[i]
    BY <2>2, <2>3, SameFits
  <2>. QED BY <2>1, <2>3 DEF FrozenChange
<1>7. \A i \in 1..Len(S2) : IsShadow(S2[i])
  BY <1>2 DEF FrozenChange
<1>. QED BY <1>2, <1>3, <1>5, <1>6, <1>7 DEF PaperFits

LEMMA KeptTwice ==
  ASSUME NEW S, NEW S2, NEW S3, FrozenKept(S, S2), FrozenKept(S2, S3)
  PROVE  FrozenKept(S, S3)
BY DEF FrozenKept, IsFrozen, SameBirth

LEMMA LatestModel ==
  ASSUME MemoryInv
  PROVE  IsModel(shadows, Latest(ActiveModels))
<1>1. Len(shadows) \in Nat
  BY DEF MemoryInv, PaperFit, PaperFits, IsSeq
<1>2. ActiveModels \in SUBSET (0..Len(shadows))
  BY <1>1 DEF ActiveModels, Shadows
<1>3. ActiveModels # {} => Max(ActiveModels) \in ActiveModels
  BY <1>1, <1>2, MaxOfNumbers
<1>. QED BY <1>3 DEF Latest, IsModel, ActiveModels, Shadows

LEMMA ModelWrittenFits ==
  ASSUME NEW p, NEW R, NEW rows, NEW today, NEW done, NEW quiet,
         PaperFits(p.shadows, p.values, R, rows, today, done, quiet),
         NEW r, NEW b, IsModel(p.shadows, b.shadow)
  PROVE  /\ PaperFits(ModelWritten(p, r, b).shadows, ModelWritten(p, r, b).values,
                      R, rows, today, done, quiet)
         /\ FrozenKept(p.shadows, ModelWritten(p, r, b).shadows)
<1>1. CASE ~b.conserved
  <2>1. ModelWritten(p, r, b) = p
    BY <1>1 DEF ModelWritten
  <2>2. FrozenKept(p.shadows, p.shadows)
    BY DEF FrozenKept, PaperFits, IsSeq, SameBirth
  <2>. QED BY <2>1, <2>2
<1>2. CASE b.conserved /\ b.shadow = NoShadow
  <2>. DEFINE s == Shadow("model", r, b.holdings, day, day)
              v == ValuedToday(<<>>, b.holdings)
  <2>1. ModelWritten(p, r, b) = Added(p, s, v)
    BY <1>2 DEF ModelWritten
  <2>2. IsShadow(s) /\ s.kind # "frozen"
    BY FreshShadow
  <2>. HIDE DEF s, v
  <2>. QED BY <2>1, <2>2, AddedFits
<1>3. CASE b.conserved /\ b.shadow # NoShadow
  <2>. DEFINE S == p.shadows
              V == p.values
              S2 == [S EXCEPT ![b.shadow].holdings = b.holdings, ![b.shadow].rec = r]
              V2 == [V EXCEPT ![b.shadow] = ValuedToday(@, b.holdings)]
  <2>1. ModelWritten(p, r, b).shadows = S2 /\ ModelWritten(p, r, b).values = V2
    BY <1>3 DEF ModelWritten
  <2>2. DOMAIN S = 1..Len(S) /\ DOMAIN V = 1..Len(S)
    BY DEF PaperFits, IsSeq
  <2>3. b.shadow \in 1..Len(S) /\ S[b.shadow].kind = "model" /\ IsShadow(S[b.shadow])
    BY <1>3 DEF IsModel, PaperFits
  <2>4. /\ DOMAIN S2 = 1..Len(S) /\ S2 = [i \in 1..Len(S) |-> S2[i]]
        /\ \A i \in 1..Len(S) : i # b.shadow => S2[i] = S[i]
        /\ S2[b.shadow] = [S[b.shadow] EXCEPT !.holdings = b.holdings, !.rec = r]
    BY <2>2, <2>3
  <2>5. /\ DOMAIN V2 = 1..Len(S) /\ V2 = [i \in 1..Len(S) |-> V2[i]]
        /\ \A i \in 1..Len(S) : i # b.shadow => V2[i] = V[i]
    BY <2>2
  <2>6. IsShadow(S2[b.shadow]) /\ S2[b.shadow].kind = "model"
    BY <2>3, <2>4 DEF IsShadow
  <2>. HIDE DEF S2, V2
  <2>7. \A i \in 1..Len(S) :
          /\ IsShadow(S2[i]) /\ S2[i].kind = S[i].kind
          /\ IsFrozen(S, i) =>
               SameBirth(S[i], S2[i]) /\ S2[i].holdings = S[i].holdings /\ V2[i] = V[i]
    BY <2>3, <2>4, <2>5, <2>6 DEF IsFrozen, PaperFits, SameBirth
  <2>8. PaperFits(S, V, R, rows, today, done, quiet) /\ (quiet => quiet)
    OBVIOUS
  <2>. HIDE DEF S, V
  <2>9. IsTuple(S2, Len(S)) /\ IsTuple(V2, Len(S))
        /\ FrozenChange(S, V, S2, V2, R, rows, today, done, quiet)
    BY <2>4, <2>5, <2>7 DEF IsTuple, FrozenChange
  <2>10. PaperFits(S2, V2, R, rows, today, done, quiet) /\ FrozenKept(S, S2)
    BY <2>8, <2>9, OthersChange
  <2>. QED BY <2>1, <2>10 DEF S
<1>. QED BY <1>1, <1>2, <1>3

\* Steps after which neither the day nor the past is another.
LEMMA SameDayInv ==
  ASSUME MemoryInv, UNCHANGED <<day, worked, history, recs, grades, commands>>,
         PaperFits(shadows', values', recs, history, day, worked, Quiet),
         FrozenKept(shadows, shadows'), ThreadsFit'
  PROVE  MemoryInv'
<1>1. Quiet' = Quiet
  BY DEF Quiet
<1>2. PaperFit'
  BY <1>1 DEF PaperFit
<1>3. ClockFits' /\ RecsFit'
  BY DEF MemoryInv, ClockFits, RecsFit
<1>4. Later(history, day, worked, history', day', worked')
  BY LaterNow DEF MemoryInv, ClockFits
<1>5. RecsKept(recs, recs', day)
  BY DEF MemoryInv, RecsFit, IsSeq, RecsKept
<1>. QED BY <1>1, <1>2, <1>3, <1>4, <1>5, NoGradesInv

LEMMA RecsNow ==
  ASSUME MemoryInv
  PROVE  /\ Len(recs) \in Nat /\ IsSeq(recs) /\ RecsKept(recs, recs, day) /\ day \in Nat \ {0}
         /\ \A r \in 1..Len(recs) : recs[r].day \in 1..day
         /\ Later(history, day, worked, history, day, worked)
BY LaterNow DEF MemoryInv, RecsFit, IsSeq, RecsKept, ClockFits

LEMMA PaperNow ==
  ASSUME MemoryInv
  PROVE  /\ PaperFits(shadows, values, recs, history, day, worked, Quiet)
         /\ PaperFits(Paper.shadows, Paper.values, recs, history, day, worked, Quiet)
         /\ Paper.shadows = shadows
BY DEF MemoryInv, PaperFit, Paper

LEMMA PaperStays ==
  ASSUME MemoryInv, UNCHANGED <<shadows, values>>
  PROVE  /\ PaperFits(shadows', values', recs, history, day, worked, Quiet)
         /\ FrozenKept(shadows, shadows')
<1>1. PaperFits(shadows, values, recs, history, day, worked, Quiet)
  BY PaperNow
<1>2. shadows' = shadows /\ values' = values
  OBVIOUS
<1>. QED BY <1>1, <1>2, KeptAsIs

\* Threads of which none is new, and one that is.
LEMMA FewerThreads ==
  ASSUME MemoryInv, FrozenKept(shadows, shadows'), UNCHANGED <<recs, history, day, worked>>,
         threads' \subseteq threads
  PROVE  ThreadsFit'
<1>1. RecsKept(recs, recs', day) /\ day' \in Nat /\ Later(history, day, worked, history', day', worked')
  BY RecsNow
<1>2. \A t \in threads' : t \in threads
  OBVIOUS
<1>. QED BY <1>1, <1>2, ThreadsStay

LEMMA AnotherThread ==
  ASSUME MemoryInv, FrozenKept(shadows, shadows'), UNCHANGED <<recs, history, day, worked>>,
         NEW u, threads' \subseteq threads \union {u},
         ThreadFits(u, shadows', recs, history, day, worked)
  PROVE  ThreadsFit'
<1>1. RecsKept(recs, recs', day) /\ day' \in Nat /\ Later(history, day, worked, history', day', worked')
  BY RecsNow
<1>2. \A t \in threads' : t \in threads \/ ThreadFits(t, shadows', recs', history', day', worked')
  OBVIOUS
<1>. QED BY <1>1, <1>2, ThreadsStay

LEMMA RecommendInv == ASSUME MemoryInv, NEW alloc, Recommend(alloc) PROVE MemoryInv'
<1>. DEFINE new == [alloc |-> alloc, day |-> day]
<1>1. recs' = Append(recs, new) /\ Len(recs) \in Nat /\ IsSeq(recs)
  BY RecsNow DEF Recommend
<1>2. /\ IsSeq(recs') /\ Len(recs') = Len(recs) + 1
      /\ \A r \in 1..Len(recs) : recs'[r] = recs[r]
      /\ recs'[Len(recs) + 1] = new
  BY <1>1, SeqGrows
<1>3. RecsFit' /\ RecsKept(recs, recs', day)
  <2>1. \A r \in 1..Len(recs') : r \in 1..Len(recs) \/ r = Len(recs) + 1
    BY <1>1, <1>2
  <2>2. day \in 1..day /\ day' = day
    BY RecsNow DEF Recommend
  <2>3. \A r \in 1..Len(recs') : recs'[r].day \in 1..day
    BY <1>2, <2>1, <2>2, RecsNow
  <2>. QED BY <1>1, <1>2, <2>2, <2>3, RecsNow DEF RecsFit, RecsKept
<1>4. Quiet' = Quiet /\ shadows' = shadows /\ FrozenKept(shadows, shadows')
  BY KeptAsIs DEF Recommend, Quiet
<1>5. ClockFits' /\ Later(history, day, worked, history', day', worked') /\ day' \in Nat
  BY RecsNow DEF Recommend, MemoryInv, ClockFits
<1>6. ThreadsFit'
  <2>1. threads' = threads \cup
          {[work |-> w, rec |-> Len(recs) + 1, read |-> <<>>] : w \in {"model", "frozen"}}
    BY DEF Recommend
  <2>2. \A t \in threads' : t \in threads \/
            (DOMAIN t = {"work", "rec", "read"} /\ t.rec \in 1..Len(recs') /\ t.read = <<>>)
    BY <1>1, <1>2, <2>1
  <2>3. \A t \in threads' : t \in threads \/ ThreadFits(t, shadows', recs', history', day', worked')
    BY <2>2 DEF ThreadFits
  <2>. QED BY <1>3, <1>4, <1>5, <2>3, ThreadsStay
<1>7. PaperFit'
  <2>1. PaperFits(shadows, values, recs', history', day', worked', Quiet)
    BY <1>3, <1>5, PaperNow, PaperLater
  <2>. QED BY <1>4, <2>1 DEF PaperFit, Recommend
<1>8. grades' = grades
  BY DEF Recommend
<1>. QED BY <1>3, <1>4, <1>5, <1>6, <1>7, <1>8, NoGradesInv

LEMMA ThreadReadsInv == ASSUME MemoryInv, NEW t \in threads, ThreadReads(t) PROVE MemoryInv'
<1>1. /\ threads' = (threads \ {t}) \cup {[t EXCEPT !.read = <<Rebalancing(t.rec)>>]}
      /\ t.work = "model" /\ UNCHANGED <<day, worked, history, recs, shadows, values>>
  BY DEF ThreadReads
<1>2. IsModel(shadows, Rebalancing(t.rec).shadow)
  BY LatestModel DEF Rebalancing
<1>3. DOMAIN t = {"work", "rec", "read"} /\ t.rec \in 1..Len(recs)
  BY DEF MemoryInv, ThreadsFit, ThreadFits
<1>. DEFINE u == [t EXCEPT !.read = <<Rebalancing(t.rec)>>]
<1>4. DOMAIN u = {"work", "rec", "read"} /\ u.rec = t.rec /\ u.read = <<Rebalancing(t.rec)>>
      /\ u.work = "model"
  BY <1>1, <1>3
<1>5. threads' \subseteq threads \union {u}
  BY <1>1
<1>. HIDE DEF u
<1>6. ThreadFits(u, shadows', recs, history, day, worked)
  BY <1>1, <1>2, <1>3, <1>4 DEF ThreadFits
<1>7. PaperFits(shadows', values', recs, history, day, worked, Quiet) /\ FrozenKept(shadows, shadows')
  BY <1>1, PaperStays
<1>8. ThreadsFit'
  BY <1>1, <1>5, <1>6, <1>7, AnotherThread
<1>. QED BY <1>7, <1>8, SameDayInv DEF ThreadReads

LEMMA ThreadWritesInv == ASSUME MemoryInv, NEW t \in threads, ThreadWrites(t) PROVE MemoryInv'
<1>1. IsModel(Paper.shadows, t.read[1].shadow)
  BY PaperNow DEF ThreadWrites, MemoryInv, ThreadsFit, ThreadFits
<1>2. PaperFits(shadows', values', recs, history, day, worked, Quiet) /\ FrozenKept(shadows, shadows')
  BY <1>1, PaperNow, ModelWrittenFits DEF ThreadWrites, PaperBecomes
<1>3. ThreadsFit'
  BY <1>2, FewerThreads DEF ThreadWrites
<1>. QED BY <1>2, <1>3, SameDayInv DEF ThreadWrites

-----------------------------------------------------------------------------
(* Freezing a recommendation.                                              *)

\* Without a snapshot of the day its prices are those of the day before.
LEMMA FetchedKnown ==
  ASSUME MemoryInv, NEW d \in 1..day
  PROVE  /\ FetchedOn(history, d) = FetchedOn(history, KnownBy(d))
         /\ KnownBy(d) <= d /\ Past(KnownBy(d), day, worked)
<1>1. day \in Nat /\ \A e \in DOMAIN history : Past(e, day, worked) /\ e \in Nat
  BY DEF MemoryInv, ClockFits, Past
<1>2. CASE d \in DOMAIN history
  BY <1>1, <1>2 DEF KnownBy
<1>3. CASE d \notin DOMAIN history
  <2>1. KnownBy(d) = d - 1
    BY <1>3 DEF KnownBy
  <2>2. DaysUpTo(history, d) = DaysUpTo(history, d - 1)
    BY <1>1, <1>3 DEF DaysUpTo
  <2>3. FetchedOn(history, d) = FetchedOn(history, d - 1)
    BY <2>2 DEF FetchedOn
  <2>. QED BY <1>1, <2>1, <2>3 DEF Past
<1>. QED BY <1>2, <1>3

\* On the recommendation's day, or when there are all prices, the plan is bought at
\* the prices of that day.
LEMMA FreezingBuys ==
  ASSUME MemoryInv, NEW r \in 1..Len(recs)
  PROVE  Bought(Freezing(r), r, shadows, recs, history, day, worked)
<1>. DEFINE b == Freezing(r)
            then == FetchedOn(history, recs[r].day)
<1>1. /\ b.shadow = NoShadow /\ b.holdings = FrozenPlan(r) /\ b.known = KnownBy(recs[r].day)
      /\ DOMAIN b = {"shadow", "holdings", "known"}
  BY DEF Freezing
<1>2. /\ then = FetchedOn(history, b.known)
      /\ b.known <= recs[r].day /\ Past(b.known, day, worked)
  BY <1>1, FetchedKnown, RecsNow
<1>. HIDE DEF b
<1>3. then = [s \in Symbols |-> then[s]]
  BY DEF FetchedOn, LastPrices
<1>4. ASSUME PricesKnown(history, b.known) \/ day = recs[r].day
      PROVE  InceptionPrices(r) = then
  <2>1. InceptionPrices(r) = [s \in Symbols |-> IF then[s] # Unpriced THEN then[s] ELSE CachedPrices[s]]
    BY DEF InceptionPrices
  <2>2. \A s \in Symbols : then[s] # Unpriced \/ CachedPrices = then
    BY <1>2, <1>4 DEF PricesKnown, FullyPriced, CachedPrices
  <2>. HIDE DEF then
  <2>3. \A s \in Symbols : (IF then[s] # Unpriced THEN then[s] ELSE CachedPrices[s]) = then[s]
    BY <2>2
  <2>. QED BY <1>3, <2>1, <2>3
<1>5. PricesKnown(history, b.known) \/ day = recs[r].day => b.holdings = Plan(recs, r, history, b.known)
  BY <1>1, <1>2, <1>4 DEF FrozenPlan, Plan
<1>. QED BY <1>1, <1>2, <1>5 DEF Bought, b

LEMMA FreezeReadsInv == ASSUME MemoryInv, NEW t \in threads, FreezeReads(t) PROVE MemoryInv'
<1>1. /\ t.work # "model" /\ UNCHANGED <<day, worked, history, recs, shadows, values>>
      /\ threads' \subseteq threads \cup {[t EXCEPT !.read = <<Freezing(t.rec)>>]}
  BY DEF FreezeReads
<1>2. DOMAIN t = {"work", "rec", "read"} /\ t.rec \in 1..Len(recs)
  BY DEF MemoryInv, ThreadsFit, ThreadFits
<1>. DEFINE b == Freezing(t.rec)
            u == [t EXCEPT !.read = <<b>>]
<1>. HIDE DEF b
<1>3. DOMAIN u = {"work", "rec", "read"} /\ u.rec = t.rec /\ u.read = <<b>> /\ u.work # "model"
      /\ u.read[1] = b
  BY <1>1, <1>2
<1>4. threads' \subseteq threads \union {u}
  BY <1>1 DEF b
<1>5. Bought(b, t.rec, shadows, recs, history, day, worked)
  BY <1>2, FreezingBuys DEF b
<1>. HIDE DEF u
<1>6. ThreadFits(u, shadows', recs, history, day, worked)
  BY <1>1, <1>2, <1>3, <1>5 DEF ThreadFits
<1>7. PaperFits(shadows', values', recs, history, day, worked, Quiet) /\ FrozenKept(shadows, shadows')
  BY <1>1, PaperStays
<1>8. ThreadsFit'
  BY <1>1, <1>4, <1>6, <1>7, AnotherThread
<1>. QED BY <1>7, <1>8, SameDayInv DEF FreezeReads

LEMMA ThreadBought ==
  ASSUME MemoryInv, NEW t \in threads, t.work # "model", t.read # <<>>
  PROVE  /\ Bought(t.read[1], t.rec, shadows, recs, history, day, worked)
         /\ DOMAIN t = {"work", "rec", "read"} /\ t.rec \in 1..Len(recs)
BY DEF MemoryInv, ThreadsFit, ThreadFits

LEMMA FreezeInsertsInv == ASSUME MemoryInv, NEW t \in threads, FreezeInserts(t) PROVE MemoryInv'
<1>. DEFINE b == t.read[1]
            r == t.rec
            n == Len(shadows) + 1
            s == Shadow("frozen", r, b.holdings, recs[r].day, b.known)
            c == [b EXCEPT !.shadow = n]
            u == [t EXCEPT !.read = <<c>>]
<1>1. /\ t.work # "model" /\ b.shadow = NoShadow /\ UNCHANGED <<day, worked, history, recs>>
      /\ shadows' = Added(Paper, s, <<>>).shadows /\ values' = Added(Paper, s, <<>>).values
      /\ threads' \subseteq threads \union {u}
  BY DEF FreezeInserts, PaperBecomes
<1>2. /\ Bought(b, r, shadows, recs, history, day, worked)
      /\ DOMAIN t = {"work", "rec", "read"} /\ r \in 1..Len(recs)
  BY ThreadBought DEF FreezeInserts
<1>3. /\ IsShadow(s) /\ s.rec = r /\ s.holdings = b.holdings /\ s.from = recs[r].day
      /\ s.known = b.known /\ s.made = day /\ s.kind = "frozen"
  BY FreshShadow
<1>. HIDE DEF s
<1>4. FrozenFits(s, <<>>, recs, history, day, worked, Quiet)
  <2>1. DOMAIN <<>> = {}
    OBVIOUS
  <2>2. Sure(s, history, Quiet) => s.holdings = Plan(recs, r, history, b.known)
    BY <1>1, <1>2, <1>3 DEF Sure, Bought
  <2>. QED BY <1>2, <1>3, <2>1, <2>2 DEF FrozenFits, Bought
<1>5. /\ PaperFits(shadows', values', recs, history, day, worked, Quiet)
      /\ FrozenKept(shadows, shadows') /\ Len(shadows') = n /\ shadows'[n] = s
  BY <1>1, <1>3, <1>4, PaperNow, AddedFits
<1>6. u.rec = r /\ DOMAIN u = {"work", "rec", "read"} /\ u.work # "model" /\ u.read # <<>> /\ u.read[1] = c
  BY <1>1, <1>2
<1>7. DOMAIN c = {"shadow", "holdings", "known"} /\ c.shadow = n /\ c.holdings = b.holdings
      /\ c.known = b.known
  BY <1>2 DEF Bought
<1>. HIDE DEF b, c, u
<1>8. n # NoShadow /\ n \in 1..Len(shadows')
  BY <1>5, PaperNow DEF NoShadow, PaperFits, IsSeq
<1>. HIDE DEF n
<1>9. IsFrozen(shadows', n) /\ shadows'[n].rec = r /\ shadows'[n].known = c.known
      /\ shadows'[n].made = day
  BY <1>3, <1>5, <1>7, <1>8 DEF IsFrozen
<1>10. Bought(c, r, shadows', recs, history, day, worked)
  BY <1>1, <1>2, <1>7, <1>8, <1>9 DEF Bought
<1>11. ThreadFits(u, shadows', recs, history, day, worked)
  BY <1>2, <1>6, <1>10 DEF ThreadFits
<1>12. ThreadsFit'
  BY <1>1, <1>5, <1>11, AnotherThread
<1>. QED BY <1>5, <1>12, SameDayInv DEF FreezeInserts

LEMMA RevaluedAt ==
  ASSUME NEW h, NEW from, NEW rows, NEW kept, NEW d \in DOMAIN Revalued(h, from, rows, kept)
  PROVE  /\ Revalued(h, from, rows, kept)[d]
              = IF d < from THEN kept[d] ELSE PaperValue(h, PricesOn(rows, d))
         /\ (d \in DOMAIN rows /\ d >= from) \/ d \in DOMAIN kept
BY DEF Revalued

\* Values written once more, of holdings that are those of the plan if that is sure.
LEMMA RevaluedFits ==
  ASSUME MemoryInv, NEW i \in 1..Len(shadows), IsFrozen(shadows, i), NEW s2, NEW h, NEW quiet,
         SameBirth(shadows[i], s2),
         Sure(s2, history, quiet) => h = s2.holdings /\ h = Plan(recs, s2.rec, history, s2.known)
  PROVE  FrozenFits(s2, Revalued(h, shadows[i].from, history, values[i]), recs, history, day, worked, quiet)
<1>. DEFINE s == shadows[i]
            v2 == Revalued(h, s.from, history, values[i])
<1>1. FrozenFits(s, values[i], recs, history, day, worked, Quiet)
  BY PaperNow DEF PaperFits
<1>2. s.from \in 1..day
  BY <1>1, RecsNow DEF FrozenFits
<1>3. ASSUME NEW d \in DOMAIN v2
      PROVE  Past(d, day, worked) /\ s.from <= d /\ v2[d] = PaperValue(h, PricesOn(history, d))
  <2>1. \/ d \in DOMAIN history /\ d >= s.from
        \/ d \in DOMAIN values[i]
    BY RevaluedAt
  <2>2. Past(d, day, worked) /\ s.from <= d
    BY <1>1, <2>1 DEF FrozenFits, MemoryInv, ClockFits
  <2>3. ~(d < s.from)
    BY <1>2, <2>2 DEF Past
  <2>. QED BY <2>2, <2>3, RevaluedAt
<1>. HIDE DEF v2, s
<1>4. Sure(s2, history, quiet) =>
        /\ s2.holdings = Plan(recs, s2.rec, history, s2.known)
        /\ \A d \in DOMAIN v2 : v2[d] \in Worths(s2.holdings, history, d)
  BY <1>3 DEF Worths
<1>5. FrozenFits(s2, v2, recs, history, day, worked, quiet)
  BY <1>1, <1>3, <1>4 DEF FrozenFits, SameBirth, s
<1>. QED BY <1>5 DEF v2, s

LEMMA FreezeFillsInv == ASSUME MemoryInv, NEW t \in threads, FreezeFills(t) PROVE MemoryInv'
<1>. DEFINE b == t.read[1]
            i == b.shadow
            v == Revalued(b.holdings, recs[t.rec].day, history, values[i])
<1>1. /\ t.work # "model" /\ i # NoShadow /\ UNCHANGED <<day, worked, history, recs, shadows>>
      /\ values' = [values EXCEPT ![i] = v] /\ threads' \subseteq threads
  BY DEF FreezeFills
<1>2. Bought(b, t.rec, shadows, recs, history, day, worked)
  BY ThreadBought DEF FreezeFills
<1>. HIDE DEF b
<1>3. i \in 1..Len(shadows) /\ IsFrozen(shadows, i) /\ shadows[i].rec = t.rec /\ shadows[i].known = b.known
  BY <1>1, <1>2 DEF Bought, IsFrozen
<1>4. FrozenFits(shadows[i], values[i], recs, history, day, worked, Quiet)
  BY <1>3, PaperNow DEF PaperFits
<1>5. shadows[i].from = recs[t.rec].day
  BY <1>3, <1>4 DEF FrozenFits
<1>6. Sure(shadows[i], history, Quiet) =>
        b.holdings = shadows[i].holdings
          /\ b.holdings = Plan(recs, shadows[i].rec, history, shadows[i].known)
  BY <1>1, <1>2, <1>3, <1>4, <1>5 DEF Sure, Bought, FrozenFits
<1>7. SameBirth(shadows[i], shadows[i])
  BY DEF SameBirth
<1>8. FrozenFits(shadows[i], v, recs, history, day, worked, Quiet)
  BY <1>3, <1>5, <1>6, <1>7, RevaluedFits
<1>. HIDE DEF v, i
<1>9. IsSeq(shadows) /\ IsSeq(values) /\ Len(values) = Len(shadows)
      /\ \A j \in 1..Len(shadows) : IsShadow(shadows[j])
  BY PaperNow DEF PaperFits
<1>10. IsTuple(shadows, Len(shadows)) /\ IsTuple(values', Len(shadows))
  BY <1>1, <1>3, <1>9 DEF IsTuple, IsSeq
<1>11. \A j \in 1..Len(shadows) : values'[j] = IF j = i THEN v ELSE values[j]
  BY <1>1, <1>9 DEF IsSeq
<1>12. FrozenChange(shadows, values, shadows, values', recs, history, day, worked, Quiet)
  BY <1>8, <1>9, <1>11 DEF FrozenChange, SameBirth
<1>13. PaperFits(shadows, values', recs, history, day, worked, Quiet) /\ FrozenKept(shadows, shadows)
  BY <1>10, <1>12, PaperNow, OthersChange
<1>14. shadows' = shadows
  BY <1>1
<1>15. PaperFits(shadows', values', recs, history, day, worked, Quiet) /\ FrozenKept(shadows, shadows')
  BY <1>13, <1>14
<1>16. ThreadsFit'
  BY <1>1, <1>15, FewerThreads
<1>. QED BY <1>15, <1>16, SameDayInv DEF FreezeFills

LEMMA BackfillShadowInv == ASSUME MemoryInv, NEW r \in Recs, BackfillShadow(r) PROVE MemoryInv'
<1>. DEFINE u == [work |-> "backfill", rec |-> r, read |-> <<>>]
<1>1. /\ threads' \subseteq threads \union {u} /\ Command
      /\ UNCHANGED <<day, worked, history, recs, grades, shadows, values>>
  BY DEF BackfillShadow
<1>2. ThreadFits(u, shadows', recs, history, day, worked)
  BY DEF ThreadFits, Recs
<1>3. FrozenKept(shadows, shadows')
  BY <1>1, KeptAsIs
<1>. HIDE DEF u
<1>4. ThreadsFit'
  BY <1>1, <1>2, <1>3, AnotherThread
<1>5. RecsKept(recs, recs', day) /\ Later(history, day, worked, history', day', worked')
  BY <1>1, RecsNow
<1>6. commands' \in Nat /\ ~Quiet'
  BY <1>1 DEF Command, MemoryInv, ClockFits, Quiet
<1>7. Quiet' = FALSE
  BY <1>6 DEF Quiet
<1>8. PaperFit'
  <2>1. PaperFits(shadows, values, recs, history, day, worked, FALSE)
    BY PaperNow, RecsNow, PaperLater
  <2>. QED BY <1>1, <1>7, <2>1 DEF PaperFit
<1>9. ClockFits' /\ RecsFit'
  BY <1>1, <1>6 DEF MemoryInv, ClockFits, RecsFit
<1>. QED BY <1>1, <1>3, <1>4, <1>5, <1>6, <1>8, <1>9, NoGradesInv

LEMMA ApproveInv == ASSUME MemoryInv, NEW r \in Recs, Approve(r) PROVE MemoryInv'
<1>. DEFINE h == Resolve(recs[r].alloc, Value, CachedPrices)
            s == Shadow("approved", r, h, day, day)
            v == ValuedToday(<<>>, h)
            frozen == IF Conserved(h, CachedPrices, Value) THEN Added(Paper, s, v) ELSE Paper
<1>1. /\ PaperBecomes(ModelWritten(frozen, r, Rebalancing(r)))
      /\ UNCHANGED <<day, worked, history, recs, grades, threads, commands>>
  BY DEF Approve, ApprovedFrozen
<1>2. IsShadow(s) /\ s.kind # "frozen"
  BY FreshShadow
<1>. HIDE DEF s, v
<1>3. PaperFits(frozen.shadows, frozen.values, recs, history, day, worked, Quiet)
      /\ FrozenKept(shadows, frozen.shadows)
  <2>1. CASE Conserved(h, CachedPrices, Value)
    <3>1. PaperFits(Added(Paper, s, v).shadows, Added(Paper, s, v).values, recs, history, day, worked, Quiet)
          /\ FrozenKept(Paper.shadows, Added(Paper, s, v).shadows)
      BY <1>2, PaperNow, AddedFits
    <3>. QED BY <2>1, <3>1, PaperNow
  <2>2. CASE ~Conserved(h, CachedPrices, Value)
    BY <2>2, PaperNow DEF FrozenKept, PaperFits, IsSeq, SameBirth
  <2>. QED BY <2>1, <2>2
<1>. HIDE DEF frozen
<1>4. IsModel(frozen.shadows, Rebalancing(r).shadow)
  <2>1. IsModel(shadows, Rebalancing(r).shadow)
    BY LatestModel DEF Rebalancing
  <2>. QED BY <1>3, <2>1 DEF IsModel, FrozenKept
<1>5. PaperFits(shadows', values', recs, history, day, worked, Quiet)
      /\ FrozenKept(frozen.shadows, shadows')
  BY <1>1, <1>3, <1>4, ModelWrittenFits DEF PaperBecomes
<1>6. FrozenKept(shadows, shadows')
  BY <1>3, <1>5, KeptTwice
<1>7. ThreadsFit'
  BY <1>1, <1>6, FewerThreads
<1>. QED BY <1>1, <1>5, <1>6, <1>7, SameDayInv

LEMMA NothingInv ==
  ASSUME MemoryInv,
         UNCHANGED <<day, worked, history, recs, grades, commands, shadows, values>>,
         threads' \subseteq threads
  PROVE  MemoryInv'
<1>1. PaperFits(shadows', values', recs, history, day, worked, Quiet)
      /\ FrozenKept(shadows, shadows')
  BY PaperStays
<1>2. ThreadsFit'
  BY <1>1, FewerThreads
<1>. QED BY <1>1, <1>2, SameDayInv

LEMMA NextDayInv == ASSUME MemoryInv, NextDay PROVE MemoryInv'
<1>1. /\ day \in Nat \ {0} /\ day' = day + 1 /\ worked' = FALSE
      /\ UNCHANGED <<history, recs, shadows, values, grades, threads, commands>>
  BY DEF NextDay, MemoryInv, ClockFits
<1>2. Later(history, day, worked, history', day', worked')
  BY <1>1, LaterTomorrow
<1>3. Quiet' = Quiet
  BY <1>1 DEF Quiet
<1>4. ClockFits'
  <2>1. day' \in Nat \ {0} /\ worked' \in BOOLEAN
    <3>1. day' \in Nat \ {0}
      BY <1>1
    <3>2. worked' \in BOOLEAN
      BY <1>1, Zenon
    <3>. QED BY <3>1, <3>2
  <2>2. commands' \in Nat
    BY <1>1 DEF MemoryInv, ClockFits
  <2>3. \A d \in DOMAIN history : Past(d, day', worked')
    BY <1>2 DEF MemoryInv, ClockFits, Later
  <2>4. history' = history
    BY <1>1
  <2>. QED BY <2>1, <2>2, <2>3, <2>4 DEF ClockFits
<1>5. RecsFit' /\ RecsKept(recs, recs', day)
  BY <1>1, RecsNow DEF RecsFit
<1>6. PaperFits(shadows, values, recs, history', day', worked', Quiet)
  BY <1>2, RecsNow, PaperNow, PaperLater
<1>7. PaperFit'
  BY <1>1, <1>3, <1>6 DEF PaperFit
<1>8. FrozenKept(shadows, shadows')
  BY <1>1, KeptAsIs
<1>9. ThreadsFit'
  <2>1. \A t \in threads' : t \in threads
    BY <1>1
  <2>2. day' \in Nat
    BY <1>1
  <2>. QED BY <1>2, <1>5, <1>8, <2>1, <2>2, ThreadsStay
<1>. QED BY <1>1, <1>2, <1>3, <1>4, <1>5, <1>7, <1>8, <1>9, NoGradesInv

-----------------------------------------------------------------------------
(* Commands that rewrite values: frozen shadows' stay those of past days.  *)

LEMMA CommandInv ==
  ASSUME MemoryInv, Command, UNCHANGED <<day, worked, history, recs, grades, threads>>,
         IsTuple(shadows', Len(shadows)), IsTuple(values', Len(shadows)),
         FrozenChange(shadows, values, shadows', values', recs, history, day, worked, FALSE)
  PROVE  MemoryInv'
<1>1. commands' \in Nat /\ commands' # 0
  BY DEF Command, MemoryInv, ClockFits
<1>2. ~Quiet'
  BY <1>1 DEF Quiet
<1>3. PaperFits(shadows', values', recs, history, day, worked, FALSE) /\ FrozenKept(shadows, shadows')
  BY PaperNow, OthersChange
<1>4. Quiet' = FALSE
  BY <1>2 DEF Quiet
<1>5. PaperFit'
  BY <1>3, <1>4 DEF PaperFit
<1>6. ClockFits' /\ RecsFit'
  BY <1>1 DEF MemoryInv, ClockFits, RecsFit
<1>7. RecsKept(recs, recs', day) /\ Later(history, day, worked, history', day', worked')
  BY RecsNow
<1>8. ThreadsFit'
  BY <1>3, FewerThreads
<1>. QED BY <1>2, <1>3, <1>5, <1>6, <1>7, <1>8, NoGradesInv

LEMMA ShadowsNow ==
  ASSUME MemoryInv
  PROVE  Shadows = 1..Len(shadows) /\ \A i \in 1..Len(shadows) : IsShadow(shadows[i])
BY PaperNow DEF Shadows, PaperFits

\* Of a shadow only the holdings are written.
LEMMA HeldAnew ==
  ASSUME NEW s, IsShadow(s), NEW x
  PROVE  /\ IsShadow([s EXCEPT !.holdings = x]) /\ [s EXCEPT !.holdings = x].kind = s.kind
         /\ [s EXCEPT !.holdings = x].holdings = x /\ SameBirth(s, [s EXCEPT !.holdings = x])
BY DEF IsShadow, SameBirth

LEMMA RegenerateInv == ASSUME MemoryInv, Regenerate PROVE MemoryInv'
<1>1. /\ \A i \in Shadows : values'[i] = Regenerated(i).days
      /\ \A i \in Shadows : shadows'[i] = [shadows[i] EXCEPT !.holdings = Regenerated(i).holdings]
      /\ IsTuple(shadows', Len(shadows)) /\ IsTuple(values', Len(shadows))
      /\ Command /\ UNCHANGED <<day, worked, history, recs, grades, threads>>
  BY DEF Regenerate, IsTuple, Shadows
<1>2. ASSUME NEW i \in 1..Len(shadows)
      PROVE  /\ IsShadow(shadows'[i]) /\ shadows'[i].kind = shadows[i].kind
             /\ SameBirth(shadows[i], shadows'[i]) /\ shadows'[i].holdings = Regenerated(i).holdings
  <2>. DEFINE x == Regenerated(i).holdings
  <2>1. shadows'[i] = [shadows[i] EXCEPT !.holdings = x] /\ IsShadow(shadows[i])
    BY <1>1, ShadowsNow
  <2>. HIDE DEF x
  <2>2. /\ IsShadow(shadows'[i]) /\ shadows'[i].kind = shadows[i].kind
        /\ shadows'[i].holdings = x /\ SameBirth(shadows[i], shadows'[i])
    BY <2>1, HeldAnew
  <2>. QED BY <2>2 DEF x
<1>3. ASSUME NEW i \in 1..Len(shadows), IsFrozen(shadows, i)
      PROVE  FrozenFits(shadows'[i], values'[i], recs, history, day, worked, FALSE)
  <2>. DEFINE h == shadows[i].holdings
              s2 == shadows'[i]
  <2>1. shadows[i].kind # "model"
    BY <1>3 DEF IsFrozen
  <2>2. values'[i] = Revalued(h, shadows[i].from, history, values[i]) /\ s2.holdings = h
    BY <1>1, <1>2, <2>1, ShadowsNow DEF Regenerated, RegeneratedStatic
  <2>3. FrozenFits(shadows[i], values[i], recs, history, day, worked, Quiet) /\ SameBirth(shadows[i], s2)
    BY <1>2, <1>3, PaperNow DEF PaperFits
  <2>. HIDE DEF h, s2
  <2>4. Sure(s2, history, FALSE) => h = s2.holdings /\ h = Plan(recs, s2.rec, history, s2.known)
    BY <2>2, <2>3 DEF Sure, FrozenFits, SameBirth, h
  <2>5. FrozenFits(s2, Revalued(h, shadows[i].from, history, values[i]), recs, history, day, worked, FALSE)
    BY <1>3, <2>3, <2>4, RevaluedFits
  <2>. QED BY <2>2, <2>5 DEF s2
<1>4. FrozenChange(shadows, values, shadows', values', recs, history, day, worked, FALSE)
  BY <1>2, <1>3 DEF FrozenChange
<1>. QED BY <1>1, <1>4, CommandInv

\* Bought at full prices, nothing is held as money.
LEMMA PricedStays ==
  ASSUME NEW r, NEW known, PricesKnown(history, known), NEW from
  PROVE  Unfrozen(Plan(recs, r, history, known), from) = Plan(recs, r, history, known)
<1>. DEFINE prices == FetchedOn(history, known)
            alloc == recs[r].alloc
            h == Plan(recs, r, history, known)
            money(s) == (alloc[s] * Value) \div 2
            shares == [s \in Symbols |-> IF prices[s] = Unpriced THEN money(s) ELSE money(s) \div prices[s]]
            cost == [s \in Symbols |-> IF prices[s] = Unpriced THEN 1 ELSE prices[s]]
            cash == (Max({0, 2 - Weight(alloc)}) * Value) \div 2
            found == {s \in h.frozen : PriceNear(history, from, s) # Unpriced}
<1>1. \A s \in Symbols : prices[s] # Unpriced
  BY DEF PricesKnown, FullyPriced
<1>2. h = [shares |-> shares, cost |-> cost,
           frozen |-> {s \in Symbols : alloc[s] > 0 /\ prices[s] = Unpriced}, cash |-> cash]
  BY DEF Plan, Resolve
<1>. HIDE DEF prices, cash
<1>3. h = [shares |-> shares, cost |-> cost, frozen |-> {}, cash |-> cash]
  BY <1>1, <1>2
<1>9. h.frozen = {}
  BY <1>1, <1>2
<1>4. shares = [s \in Symbols |-> shares[s]] /\ cost = [s \in Symbols |-> cost[s]]
  OBVIOUS
<1>. HIDE DEF h, shares, cost
<1>5. found = {}
  BY <1>9
<1>6. Unfrozen(h, from) =
        [h EXCEPT !.shares = [s \in Symbols |-> IF s \in found THEN @[s] \div PriceNear(history, from, s) ELSE @[s]],
                  !.cost   = [s \in Symbols |-> IF s \in found THEN PriceNear(history, from, s) ELSE @[s]],
                  !.frozen = @ \ found]
  BY DEF Unfrozen
<1>. HIDE DEF found
<1>7. Unfrozen(h, from) = [h EXCEPT !.shares = shares, !.cost = cost, !.frozen = {}]
  BY <1>3, <1>4, <1>5, <1>6
<1>8. /\ DOMAIN h = {"shares", "cost", "frozen", "cash"}
      /\ h.shares = shares /\ h.cost = cost
      /\ h = [x \in DOMAIN h |-> h[x]]
  BY <1>3
<1>. DEFINE g == [h EXCEPT !.shares = shares, !.cost = cost, !.frozen = {}]
<1>10. g = [x \in DOMAIN h |-> g[x]] /\ \A x \in DOMAIN h : g[x] = h[x]
  BY <1>8, <1>9
<1>. HIDE DEF g
<1>11. g = h
  BY <1>8, <1>10
<1>. QED BY <1>7, <1>11 DEF g, h

LEMMA RepairInv == ASSUME MemoryInv, Repair PROVE MemoryInv'
<1>. DEFINE mended(i) == Unfrozen(shadows[i].holdings, shadows[i].from)
<1>1. /\ \A i \in Shadows : shadows'[i] =
           IF shadows[i].active THEN [shadows[i] EXCEPT !.holdings = mended(i)] ELSE shadows[i]
      /\ \A i \in Shadows : values'[i] =
           IF shadows[i].active /\ shadows[i].kind # "model"
           THEN Revalued(mended(i), shadows[i].from, history, values[i]) ELSE values[i]
      /\ IsTuple(shadows', Len(shadows)) /\ IsTuple(values', Len(shadows))
      /\ Command /\ UNCHANGED <<day, worked, history, recs, grades, threads>>
  BY DEF Repair, IsTuple, Shadows
<1>. HIDE DEF mended
<1>2. ASSUME NEW i \in 1..Len(shadows)
      PROVE  /\ IsShadow(shadows'[i]) /\ shadows'[i].kind = shadows[i].kind
             /\ SameBirth(shadows[i], shadows'[i])
             /\ shadows[i].active => shadows'[i].holdings = mended(i)
  <2>1. IsShadow(shadows[i]) /\ i \in Shadows
    BY ShadowsNow
  <2>2. CASE shadows[i].active
    <3>. DEFINE x == mended(i)
    <3>1. shadows'[i] = [shadows[i] EXCEPT !.holdings = x]
      BY <1>1, <2>1, <2>2
    <3>. HIDE DEF x
    <3>2. /\ IsShadow(shadows'[i]) /\ shadows'[i].kind = shadows[i].kind
          /\ shadows'[i].holdings = x /\ SameBirth(shadows[i], shadows'[i])
      BY <2>1, <3>1, HeldAnew
    <3>. QED BY <3>2 DEF x
  <2>3. CASE ~shadows[i].active
    BY <1>1, <2>1, <2>3 DEF SameBirth
  <2>. QED BY <2>2, <2>3
<1>3. ASSUME NEW i \in 1..Len(shadows), IsFrozen(shadows, i), shadows[i].active
      PROVE  FrozenFits(shadows'[i], values'[i], recs, history, day, worked, FALSE)
  <2>. DEFINE h == mended(i)
              s == shadows[i]
              s2 == shadows'[i]
  <2>1. values'[i] = Revalued(h, s.from, history, values[i]) /\ s2.holdings = h
    BY <1>1, <1>2, <1>3, ShadowsNow DEF IsFrozen
  <2>2. FrozenFits(s, values[i], recs, history, day, worked, Quiet) /\ SameBirth(s, s2)
    BY <1>2, <1>3, PaperNow DEF PaperFits
  <2>3. PricesKnown(history, s.known) => h = Plan(recs, s.rec, history, s.known)
    <3>1. PricesKnown(history, s.known) => s.holdings = Plan(recs, s.rec, history, s.known)
      BY <2>2 DEF FrozenFits, Sure
    <3>. QED BY <3>1, PricedStays DEF mended
  <2>. HIDE DEF h, s, s2
  <2>4. Sure(s2, history, FALSE) => h = s2.holdings /\ h = Plan(recs, s2.rec, history, s2.known)
    BY <2>1, <2>2, <2>3 DEF Sure, SameBirth
  <2>5. FrozenFits(s2, Revalued(h, s.from, history, values[i]), recs, history, day, worked, FALSE)
    BY <1>3, <2>2, <2>4, RevaluedFits DEF s
  <2>. QED BY <2>1, <2>5 DEF s2
<1>4. ASSUME NEW i \in 1..Len(shadows), ~shadows[i].active
      PROVE  shadows'[i].holdings = shadows[i].holdings /\ values'[i] = values[i]
  BY <1>1, <1>4, ShadowsNow
<1>5. FrozenChange(shadows, values, shadows', values', recs, history, day, worked, FALSE)
  BY <1>2, <1>3, <1>4 DEF FrozenChange
<1>. QED BY <1>1, <1>5, CommandInv

LEMMA ResetInceptionInv == ASSUME MemoryInv, ResetInception PROVE MemoryInv'
<1>1. /\ shadows' = [i \in Shadows |->
           IF i \in ActiveModels
           THEN [shadows[i] EXCEPT !.from = day, !.start = PaperValue(shadows[i].holdings, CachedPrices)]
           ELSE shadows[i]]
      /\ values' = [i \in Shadows |->
           IF i \in ActiveModels THEN ValuedToday(<<>>, shadows[i].holdings) ELSE values[i]]
      /\ Command /\ UNCHANGED <<day, worked, history, recs, grades, threads>>
  BY DEF ResetInception
<1>2. ASSUME NEW i \in 1..Len(shadows), i \in ActiveModels
      PROVE  /\ IsShadow(shadows'[i]) /\ shadows'[i].kind = shadows[i].kind
             /\ ~IsFrozen(shadows, i)
  <2>. DEFINE x == PaperValue(shadows[i].holdings, CachedPrices)
  <2>1. shadows'[i] = [shadows[i] EXCEPT !.from = day, !.start = x] /\ IsShadow(shadows[i])
    BY <1>1, <1>2, ShadowsNow
  <2>. HIDE DEF x
  <2>2. IsShadow(shadows'[i]) /\ shadows'[i].kind = shadows[i].kind
    BY <2>1 DEF IsShadow
  <2>. QED BY <1>2, <2>2 DEF ActiveModels, IsFrozen
<1>3. ASSUME NEW i \in 1..Len(shadows), i \notin ActiveModels
      PROVE  shadows'[i] = shadows[i] /\ values'[i] = values[i]
  BY <1>1, <1>3, ShadowsNow
<1>4. FrozenChange(shadows, values, shadows', values', recs, history, day, worked, FALSE)
  BY <1>2, <1>3, ShadowsNow DEF FrozenChange, SameBirth
<1>5. IsTuple(shadows', Len(shadows)) /\ IsTuple(values', Len(shadows))
  BY <1>1, ShadowsNow DEF IsTuple
<1>. QED BY <1>1, <1>4, <1>5, CommandInv


-----------------------------------------------------------------------------
(* The evaluation: what it grades, and the shadows it puts to rest.        *)

LEMMA CounterfactualIsFirst ==
  ASSUME MemoryInv, NEW r
  PROVE  /\ Counterfactual(r) # NoShadow => IsFirst(shadows, r, Counterfactual(r))
         /\ \A i : IsFirst(shadows, r, i) => i = Counterfactual(r)
<1>. DEFINE own == ShadowsOf("frozen", r)
<1>1. Len(shadows) \in Nat
  BY PaperNow DEF PaperFits, IsSeq
<1>2. \A i : i \in own <=> IsFrozen(shadows, i) /\ shadows[i].rec = r
  BY DEF ShadowsOf, Shadows, IsFrozen
<1>3. own \in SUBSET Nat
  BY <1>1 DEF ShadowsOf, Shadows
<1>4. own # {} => Counterfactual(r) = Min(own)
  BY DEF Counterfactual
<1>5. own = {} => Counterfactual(r) = NoShadow
  BY DEF Counterfactual
<1>. HIDE DEF own
<1>6. own # {} => Min(own) \in own /\ \A k \in own : Min(own) <= k
  BY <1>3, MinOfNumbers
<1>7. Counterfactual(r) # NoShadow => IsFirst(shadows, r, Counterfactual(r))
  BY <1>2, <1>4, <1>5, <1>6 DEF IsFirst
<1>8. ASSUME NEW i, IsFirst(shadows, r, i) PROVE i = Counterfactual(r)
  <2>1. i \in own /\ \A k \in own : i <= k
    BY <1>2, <1>8 DEF IsFirst, IsFrozen
  <2>2. Counterfactual(r) = Min(own) /\ Min(own) \in own /\ Min(own) <= i /\ i <= Min(own)
    BY <1>4, <1>6, <2>1
  <2>3. i \in Nat /\ Min(own) \in Nat
    BY <1>3, <2>1, <2>2
  <2>4. i = Min(own)
    BY <2>2, <2>3
  <2>. QED BY <2>2, <2>4
<1>. QED BY <1>7, <1>8

LEMMA GradeIsFit ==
  ASSUME MemoryInv, NEW v, NEW rows, NEW done, NEW quiet,
         PaperFits(shadows, v, recs, rows, day, done, quiet),
         NEW r \in Recs, NEW h \in Horizons, IsDue(r, h, v)
  PROVE  GradeFits(Grade(r, h, v), shadows, recs, rows, day, done, quiet)
<1>. DEFINE i == Counterfactual(r)
            E == {d \in DOMAIN v[i] : d <= recs[r].day + h}
            end == Max(E)
<1>1. /\ day \in Nat /\ h \in Nat /\ MaxGap \in Nat
      /\ r \in 1..Len(recs) /\ recs[r].day \in Nat
  BY RecsNow, MemoryAssumption DEF Recs
<1>2. IsFirst(shadows, r, i)
  BY CounterfactualIsFirst DEF IsDue
<1>3. i \in 1..Len(shadows) /\ IsFrozen(shadows, i) /\ shadows[i].rec = r
  BY <1>2 DEF IsFirst, IsFrozen
<1>4. PICK e \in DOMAIN v[i] : e <= recs[r].day + h /\ recs[r].day + h - e <= MaxGap
  BY DEF IsDue
<1>. HIDE DEF i
<1>5. FrozenFits(shadows[i], v[i], recs, rows, day, done, quiet)
  BY <1>3 DEF PaperFits
<1>6. \A d \in DOMAIN v[i] : d \in 0..day /\ Past(d, day, done) /\ recs[r].day <= d
  BY <1>1, <1>3, <1>5 DEF FrozenFits, Past
<1>7. E \in SUBSET (0..day) /\ e \in E
  BY <1>4, <1>6
<1>8. end \in E /\ end >= e
  <2>. HIDE DEF E
  <2>1. E \in SUBSET (0..day) /\ E # {} /\ day \in Nat
    BY <1>1, <1>7
  <2>2. Max(E) \in E /\ \A k \in E : Max(E) >= k
    BY <2>1, MaxOfNumbers
  <2>. QED BY <1>7, <2>2
<1>. HIDE DEF end
<1>9. end \in DOMAIN v[i] /\ end <= recs[r].day + h /\ end \in Int /\ e \in Int
  <2>1. end \in DOMAIN v[i] /\ end <= recs[r].day + h
    BY <1>8
  <2>2. end \in 0..day /\ e \in 0..day
    BY <1>7, <1>8
  <2>. QED BY <2>1, <2>2
<1>10. recs[r].day + h <= end + MaxGap
  BY <1>1, <1>4, <1>8, <1>9
<1>. DEFINE g == Grade(r, h, v)
<1>11. g.rec = r /\ g.kind = h /\ g.end = end /\ g.value = v[i][end]
  BY DEF Grade, i, end
<1>. HIDE DEF g, E
<1>12. Sure(shadows[i], rows, quiet) =>
         g.value \in Worths(Plan(recs, g.rec, rows, shadows[i].known), rows, g.end)
  BY <1>3, <1>5, <1>9, <1>11 DEF FrozenFits
<1>13. /\ IsFirst(shadows, g.rec, i)
       /\ shadows[i].known <= recs[g.rec].day /\ Past(shadows[i].known, day, done)
       /\ shadows[i].from = recs[g.rec].day
  BY <1>2, <1>3, <1>5, <1>11 DEF FrozenFits
<1>14. \E k \in 1..Len(shadows) :
         /\ IsFirst(shadows, g.rec, k)
         /\ shadows[k].known <= recs[g.rec].day /\ Past(shadows[k].known, day, done)
         /\ shadows[k].from = recs[g.rec].day
         /\ Sure(shadows[k], rows, quiet) =>
              g.value \in Worths(Plan(recs, g.rec, rows, shadows[k].known), rows, g.end)
  BY <1>3, <1>12, <1>13
<1>15. Past(g.end, day, done) /\ recs[g.rec].day <= g.end
  BY <1>6, <1>9, <1>11
<1>. QED BY <1>1, <1>9, <1>10, <1>11, <1>14, <1>15 DEF GradeFits, g

\* The grades a pass gives, one for each recommendation and horizon that is due.
Given(v, failing) == {Grade(x[1], x[2], v) : x \in {y \in Due(v) : y[1] \notin failing}}

LEMMA GivenAreDue ==
  ASSUME NEW v, NEW failing, NEW g \in Given(v, failing)
  PROVE  /\ g.rec \in Recs /\ g.kind \in Horizons /\ IsDue(g.rec, g.kind, v)
         /\ g = Grade(g.rec, g.kind, v)
<1>1. PICK x \in Due(v) : g = Grade(x[1], x[2], v)
  BY DEF Given
<1>2. x[1] \in Recs /\ x[2] \in Horizons /\ IsDue(x[1], x[2], v)
  BY DEF Due
<1>3. g.rec = x[1] /\ g.kind = x[2]
  BY <1>1 DEF Grade
<1>. QED BY <1>1, <1>2, <1>3

\* The grades of a pass are fit, and repeat none there is.
GivenFit(v, failing, S, rows, done, quiet) ==
  \A g \in Given(v, failing) : GradeFits(g, S, recs, rows, day, done, quiet)

GivenOnce(v, failing, all) ==
  \A f \in Given(v, failing), g \in all : f.rec = g.rec /\ f.kind = g.kind => f = g

LEMMA EvaluationFits ==
  ASSUME MemoryInv, NEW v, NEW rows, NEW done, NEW quiet, NEW failing, NEW lost,
         PaperFits(shadows, v, recs, rows, day, done, quiet), EvaluationWith(v, failing, lost)
  PROVE  /\ PaperFits(shadows', v, recs, rows, day, done, quiet)
         /\ FrozenKept(shadows, shadows')
         /\ grades' = grades \union Given(v, failing)
         /\ GivenFit(v, failing, shadows, rows, done, quiet)
         /\ GivenOnce(v, failing, grades')
<1>. DEFINE due == {x \in Due(v) : x[1] \notin failing}
            rests(i) == /\ i = Counterfactual(shadows[i].rec)
                        /\ <<shadows[i].rec, Max(Horizons)>> \in due
                        /\ shadows[i].rec \notin lost
<1>1. /\ grades' = grades \union {Grade(x[1], x[2], v) : x \in due}
      /\ shadows' = [i \in Shadows |->
           IF rests(i) THEN [shadows[i] EXCEPT !.active = FALSE] ELSE shadows[i]]
  BY DEF EvaluationWith
<1>2. grades' = grades \union Given(v, failing)
  BY <1>1 DEF Given
<1>3. \A g \in Given(v, failing) : GradeFits(g, shadows, recs, rows, day, done, quiet)
  BY GivenAreDue, GradeIsFit
<1>4. ASSUME NEW f \in Given(v, failing), NEW g \in grades', f.rec = g.rec /\ f.kind = g.kind
      PROVE  f = g
  <2>1. CASE g \in grades
    <3>1. ~Graded(f.rec, f.kind)
      BY GivenAreDue DEF IsDue
    <3>. QED BY <1>4, <2>1, <3>1 DEF Graded
  <2>2. CASE g \in Given(v, failing)
    BY <1>4, <2>2, GivenAreDue
  <2>. QED BY <1>2, <2>1, <2>2
<1>. HIDE DEF rests
<1>5. Len(shadows) \in Nat /\ Len(v) = Len(shadows) /\ IsSeq(v)
  BY DEF PaperFits, IsSeq
<1>6. IsTuple(shadows', Len(shadows)) /\ IsTuple(v, Len(shadows))
  BY <1>1, <1>5 DEF IsTuple, Shadows, IsSeq
<1>7. ASSUME NEW i \in 1..Len(shadows)
      PROVE  /\ IsShadow(shadows'[i]) /\ shadows'[i].kind = shadows[i].kind
             /\ SameBirth(shadows[i], shadows'[i]) /\ shadows'[i].holdings = shadows[i].holdings
  <2>1. IsShadow(shadows[i])
        /\ (shadows'[i] = [shadows[i] EXCEPT !.active = FALSE] \/ shadows'[i] = shadows[i])
    BY <1>1, ShadowsNow
  <2>. QED BY <2>1 DEF IsShadow, SameBirth
<1>8. FrozenChange(shadows, v, shadows', v, recs, rows, day, done, quiet)
  BY <1>7 DEF FrozenChange
<1>9. PaperFits(shadows', v, recs, rows, day, done, quiet) /\ FrozenKept(shadows, shadows')
  BY <1>6, <1>8, OthersChange
<1>10. GivenFit(v, failing, shadows, rows, done, quiet) /\ GivenOnce(v, failing, grades')
  BY <1>3, <1>4 DEF GivenFit, GivenOnce
<1>. QED BY <1>2, <1>9, <1>10

LEMMA GradesStayFit ==
  ASSUME NEW g, NEW S, NEW S2, NEW rows, NEW today \in Nat, NEW done, NEW quiet, RecsKept(recs, recs, today),
         GradeFits(g, S, recs, rows, today, done, quiet), FrozenKept(S, S2)
  PROVE  GradeFits(g, S2, recs, rows, today, done, quiet)
BY LaterNow, GradeLater

LEMMA BackfillGradesInv == ASSUME MemoryInv, BackfillGrades PROVE MemoryInv'
<1>1. PICK failing \in SUBSET Recs, lost \in SUBSET Recs : EvaluationWith(values, failing, lost)
  BY DEF BackfillGrades, EvaluationPass
<1>2. Command /\ UNCHANGED <<day, worked, history, recs, values, threads>>
  BY DEF BackfillGrades
<1>3. commands' \in Nat /\ ~Quiet'
  BY <1>2 DEF Command, MemoryInv, ClockFits, Quiet
<1>4. Quiet' = FALSE
  BY <1>3 DEF Quiet
<1>5. PaperFits(shadows, values, recs, history, day, worked, FALSE)
  BY PaperNow, PaperLater, RecsNow
<1>6. /\ PaperFits(shadows', values, recs, history, day, worked, FALSE)
      /\ FrozenKept(shadows, shadows')
      /\ grades' = grades \union Given(values, failing)
      /\ GivenFit(values, failing, shadows, history, worked, FALSE)
      /\ GivenOnce(values, failing, grades')
  BY <1>1, <1>5, EvaluationFits
<1>7. \A g \in Given(values, failing) : GradeFits(g, shadows', recs', history', day', worked', Quiet')
  <2>1. \A g \in Given(values, failing) : GradeFits(g, shadows', recs, history, day, worked, FALSE)
    BY <1>6, GradesStayFit, RecsNow DEF GivenFit
  <2>. QED BY <1>2, <1>4, <2>1
<1>8. PaperFit'
  BY <1>2, <1>4, <1>6 DEF PaperFit
<1>9. ClockFits' /\ RecsFit'
  BY <1>2, <1>3 DEF MemoryInv, ClockFits, RecsFit
<1>10. RecsKept(recs, recs', day) /\ Later(history, day, worked, history', day', worked')
  BY <1>2, RecsNow
<1>11. ThreadsFit'
  BY <1>2, <1>6, FewerThreads
<1>12. \A f \in Given(values, failing), g \in grades' : f.rec = g.rec /\ f.kind = g.kind => f = g
  BY <1>6 DEF GivenOnce
<1>. QED BY <1>3, <1>6, <1>7, <1>8, <1>9, <1>10, <1>11, <1>12, KeptInv

-----------------------------------------------------------------------------
(* The daily job.                                                          *)

\* The day's work done, whatever of it failed.
LEMMA WorkDone ==
  ASSUME MemoryInv, ~worked, worked' = TRUE, UNCHANGED <<day, recs, threads, commands>>,
         TakeSnapshot \/ UNCHANGED history
  PROVE  /\ Later(history, day, worked, history', day', worked')
         /\ ClockFits' /\ RecsFit' /\ Quiet' = Quiet
<1>1. day \in Nat \ {0} /\ commands \in Nat /\ worked = FALSE
  BY DEF MemoryInv, ClockFits
<1>2. \A d \in DOMAIN history : d \in Nat /\ d < day
  BY <1>1 DEF MemoryInv, ClockFits, Past
<1>3. history' = history \/ (DOMAIN history' = DOMAIN history \union {day}
                               /\ \A d \in DOMAIN history : d # day => history'[d] = history[d])
  BY DEF TakeSnapshot
<1>4. Later(history, day, FALSE, history', day, TRUE)
  BY <1>1, <1>2, <1>3, LaterWorked
<1>5. \A d \in DOMAIN history' : Past(d, day, TRUE)
  BY <1>1, <1>2, <1>3 DEF Past
<1>6. ClockFits'
  <2>1. worked' \in BOOLEAN
    BY Zenon
  <2>2. day' \in Nat \ {0} /\ commands' \in Nat
    BY <1>1
  <2>3. \A d \in DOMAIN history' : Past(d, day', worked')
    BY <1>5
  <2>. QED BY <2>1, <2>2, <2>3 DEF ClockFits
<1>7. RecsFit'
  BY DEF MemoryInv, RecsFit
<1>8. Quiet' = Quiet
  BY DEF Quiet
<1>. QED BY <1>1, <1>4, <1>6, <1>7, <1>8

LEMMA ValuedFits ==
  ASSUME MemoryInv, ~worked, ValueShadows, Later(history, day, worked, history', day, TRUE)
  PROVE  PaperFits(shadows, values', recs, history', day, TRUE, Quiet)
<1>1. PaperFits(shadows, values, recs, history', day, TRUE, Quiet) /\ day \in Nat
  BY PaperNow, PaperLater, RecsNow
<1>. DEFINE due == {i \in Shadows : shadows[i].active}
            worth(i) == PaperValue(shadows[i].holdings, FetchedOn(history', day))
<1>2. values' = [i \in Shadows |->
        IF i \in due THEN [d \in DOMAIN values[i] \cup {day} |-> IF d = day THEN worth(i) ELSE values[i][d]]
        ELSE values[i]]
  BY DEF ValueShadows
<1>3. ASSUME NEW i \in 1..Len(shadows), IsFrozen(shadows, i)
      PROVE  FrozenFits(shadows[i], values'[i], recs, history', day, TRUE, Quiet)
  <2>1. FrozenFits(shadows[i], values[i], recs, history', day, TRUE, Quiet)
    BY <1>1, <1>3 DEF PaperFits
  <2>2. CASE i \in due
    <3>1. values'[i] = [e \in DOMAIN values[i] \cup {day} |-> IF e = day THEN worth(i) ELSE values[i][e]]
      BY <1>2, <2>2, ShadowsNow
    <3>2. shadows[i].from <= day /\ Past(day, day, TRUE)
      BY <1>1, <2>1, RecsNow DEF FrozenFits, Past
    <3>3. worth(i) \in Worths(shadows[i].holdings, history', day)
      BY DEF Worths
    <3>. HIDE DEF due, worth
    <3>4. ASSUME NEW d \in DOMAIN values'[i]
          PROVE  /\ Past(d, day, TRUE) /\ shadows[i].from <= d
                 /\ Sure(shadows[i], history', Quiet) =>
                      values'[i][d] \in Worths(shadows[i].holdings, history', d)
      <4>1. CASE d = day
        BY <3>1, <3>2, <3>3, <4>1
      <4>2. CASE d # day
        <5>1. d \in DOMAIN values[i] /\ values'[i][d] = values[i][d]
          BY <3>1, <3>4, <4>2
        <5>. QED BY <2>1, <5>1 DEF FrozenFits
      <4>. QED BY <4>1, <4>2
    <3>. QED BY <2>1, <3>4 DEF FrozenFits
  <2>3. CASE i \notin due
    <3>1. values'[i] = values[i]
      BY <1>2, <2>3, ShadowsNow
    <3>. QED BY <2>1, <3>1
  <2>. QED BY <2>2, <2>3
<1>. HIDE DEF due, worth
<1>4. Len(shadows) \in Nat /\ IsSeq(shadows)
  BY <1>1 DEF PaperFits, IsSeq
<1>5. IsTuple(shadows, Len(shadows)) /\ IsTuple(values', Len(shadows))
  BY <1>2, <1>4 DEF IsTuple, Shadows, IsSeq
<1>6. \A i \in 1..Len(shadows) : IsShadow(shadows[i])
  BY <1>1 DEF PaperFits
<1>7. FrozenChange(shadows, values, shadows, values', recs, history', day, TRUE, Quiet)
  BY <1>3, <1>6 DEF FrozenChange, SameBirth
<1>. QED BY <1>1, <1>5, <1>7, OthersChange

\* The evaluation as the last part of the day's work.
LEMMA EvaluatedInv ==
  ASSUME MemoryInv, ~worked, worked' = TRUE, UNCHANGED <<day, recs, threads, commands>>,
         TakeSnapshot \/ UNCHANGED history,
         PaperFits(shadows, values', recs, history', day, TRUE, Quiet),
         NEW failing, NEW lost, EvaluationWith(values', failing, lost)
  PROVE  MemoryInv'
<1>1. /\ Later(history, day, worked, history', day', worked')
      /\ ClockFits' /\ RecsFit' /\ Quiet' = Quiet
  BY WorkDone
<1>2. /\ PaperFits(shadows', values', recs, history', day, TRUE, Quiet)
      /\ FrozenKept(shadows, shadows')
      /\ grades' = grades \union Given(values', failing)
      /\ GivenFit(values', failing, shadows, history', TRUE, Quiet)
      /\ GivenOnce(values', failing, grades')
  BY EvaluationFits
<1>3. RecsKept(recs, recs', day) /\ RecsKept(recs, recs, day) /\ day \in Nat
  BY RecsNow
<1>4. ThreadsFit'
  <2>1. \A t \in threads' : t \in threads
    OBVIOUS
  <2>. QED BY <1>1, <1>2, <1>3, <2>1, ThreadsStay
<1>5. PaperFits(shadows', values', recs', history', day', worked', Quiet')
  BY <1>1, <1>2
<1>6. PaperFit'
  BY <1>5 DEF PaperFit
<1>7. \A g \in Given(values', failing) : GradeFits(g, shadows', recs, history', day, TRUE, Quiet)
  BY <1>2, <1>3, GradesStayFit DEF GivenFit
<1>8. \A g \in Given(values', failing) : GradeFits(g, shadows', recs', history', day', worked', Quiet')
  BY <1>1, <1>7
<1>9. \A f \in Given(values', failing), g \in grades' : f.rec = g.rec /\ f.kind = g.kind => f = g
  BY <1>2 DEF GivenOnce
<1>. QED BY <1>1, <1>2, <1>3, <1>4, <1>6, <1>8, <1>9, KeptInv

LEMMA RunJobInv == ASSUME MemoryInv, RunJob PROVE MemoryInv'
<1>1. ~worked /\ worked' = TRUE /\ UNCHANGED <<day, recs, threads, commands>>
  BY DEF RunJob
<1>2. CASE TakeSnapshot /\ ValueShadows /\ EvaluationPass(values')
  <2>1. PICK failing \in SUBSET Recs, lost \in SUBSET Recs : EvaluationWith(values', failing, lost)
    BY <1>2 DEF EvaluationPass
  <2>2. PaperFits(shadows, values', recs, history', day, TRUE, Quiet)
    BY <1>1, <1>2, WorkDone, ValuedFits
  <2>. QED BY <1>1, <1>2, <2>1, <2>2, EvaluatedInv
<1>3. CASE UNCHANGED history /\ ValueShadows /\ EvaluationWith(values', {}, {})
  <2>1. PaperFits(shadows, values', recs, history', day, TRUE, Quiet)
    BY <1>1, <1>3, WorkDone, ValuedFits
  <2>. QED BY <1>1, <1>3, <2>1, EvaluatedInv
<1>4. CASE TakeSnapshot /\ UNCHANGED values /\ EvaluationWith(values, {}, {})
  <2>1. PaperFits(shadows, values, recs, history', day, TRUE, Quiet)
    BY <1>1, <1>4, WorkDone, PaperNow, PaperLater, RecsNow
  <2>2. PaperFits(shadows, values', recs, history', day, TRUE, Quiet) /\ EvaluationWith(values', {}, {})
    BY <1>4, <2>1
  <2>. QED BY <1>1, <1>4, <2>2, EvaluatedInv
<1>5. CASE TakeSnapshot /\ ValueShadows /\ UNCHANGED <<decisions, grades, shadows>>
  <2>1. /\ Later(history, day, worked, history', day', worked')
        /\ ClockFits' /\ RecsFit' /\ Quiet' = Quiet
    BY <1>1, <1>5, WorkDone
  <2>2. PaperFits(shadows, values', recs, history', day, TRUE, Quiet)
    BY <1>1, <1>5, <2>1, ValuedFits
  <2>3. PaperFits(shadows', values', recs', history', day', worked', Quiet')
    BY <1>1, <1>5, <2>1, <2>2
  <2>4. PaperFit'
    BY <2>3 DEF PaperFit
  <2>5. FrozenKept(shadows, shadows')
    BY <1>5, KeptAsIs
  <2>6. RecsKept(recs, recs', day) /\ day' \in Nat
    BY <1>1, RecsNow
  <2>7. ThreadsFit'
    <3>1. \A t \in threads' : t \in threads
      BY <1>1
    <3>. QED BY <2>1, <2>5, <2>6, <3>1, ThreadsStay
  <2>. QED BY <1>1, <1>5, <2>1, <2>4, <2>5, <2>6, <2>7, NoGradesInv
<1>. QED BY <1>2, <1>3, <1>4, <1>5 DEF RunJob

-----------------------------------------------------------------------------
(* All steps.                                                              *)

LEMMA InitMemory == ASSUME MemoryInit PROVE MemoryInv
<1>1. ClockFits
  <2>1. day \in Nat \ {0} /\ commands \in Nat
    BY DEF MemoryInit
  <2>2. worked \in BOOLEAN
    BY Zenon DEF MemoryInit
  <2>3. DOMAIN history = {0} /\ day = 1
    BY DEF MemoryInit
  <2>4. \A d \in DOMAIN history : Past(d, day, worked)
    BY <2>3 DEF Past
  <2>. QED BY <2>1, <2>2, <2>4 DEF ClockFits
<1>2. recs = <<>> /\ shadows = <<>> /\ values = <<>> /\ grades = {} /\ threads = {}
  BY DEF MemoryInit
<1>3. IsSeq(<<>>) /\ Len(<<>>) = 0
  BY SeqOfNone
<1>4. RecsFit
  BY <1>2, <1>3 DEF RecsFit
<1>5. PaperFit
  BY <1>2, <1>3 DEF PaperFit, PaperFits
<1>6. ThreadsFit /\ GradesFit
  BY <1>2 DEF ThreadsFit, GradesFit, GradedOnce
<1>. QED BY <1>1, <1>4, <1>5, <1>6 DEF MemoryInv

LEMMA NextMemory == ASSUME MemoryInv, [MemoryNext]_memoryVars PROVE MemoryInv'
<1>1. ASSUME NEW alloc \in Allocations, Recommend(alloc) PROVE MemoryInv'
  BY <1>1, RecommendInv
<1>2. ASSUME NEW t \in threads,
             \/ ThreadReads(t) \/ ThreadWrites(t)
             \/ FreezeReads(t) \/ FreezeInserts(t) \/ FreezeFills(t)
      PROVE  MemoryInv'
  BY <1>2, ThreadReadsInv, ThreadWritesInv, FreezeReadsInv, FreezeInsertsInv, FreezeFillsInv
<1>3. ASSUME NEW r \in Recs, Approve(r) \/ Reject(r) \/ BackfillShadow(r) PROVE MemoryInv'
  <2>1. CASE Approve(r)
    BY <2>1, ApproveInv
  <2>2. CASE Reject(r)
    BY <2>2, NothingInv DEF Reject
  <2>3. CASE BackfillShadow(r)
    BY <2>3, BackfillShadowInv
  <2>. QED BY <1>3, <2>1, <2>2, <2>3
<1>4. CASE RunJob
  BY <1>4, RunJobInv
<1>5. CASE NextDay
  BY <1>5, NextDayInv
<1>6. CASE Crash
  BY <1>6, NothingInv DEF Crash
<1>7. CASE BackfillGrades
  BY <1>7, BackfillGradesInv
<1>8. CASE Regenerate
  BY <1>8, RegenerateInv
<1>9. CASE Repair
  BY <1>9, RepairInv
<1>10. CASE ResetInception
  BY <1>10, ResetInceptionInv
<1>11. CASE UNCHANGED memoryVars
  BY <1>11, NothingInv DEF memoryVars
<1>. QED BY <1>1, <1>2, <1>3, <1>4, <1>5, <1>6, <1>7, <1>8, <1>9, <1>10, <1>11 DEF MemoryNext

LEMMA FitGradesDoNotLookAhead == ASSUME MemoryInv PROVE GradesDoNotLookAhead
<1>1. ASSUME NEW g \in grades
      PROVE  LET from == recs[g.rec].day
                 shadow == shadows[Counterfactual(g.rec)]
                 bought == FetchedOn(history, shadow.known)
             IN  /\ \A f \in grades : f.rec = g.rec /\ f.kind = g.kind => f = g
                 /\ from <= g.end /\ g.end <= from + g.kind /\ from + g.kind <= g.end + MaxGap
                 /\ shadow.known <= from
                 /\ FullyPriced(bought) \/ (commands = 0 /\ shadow.made = from) =>
                      \E sold \in {FetchedOn(history, g.end), PricesOn(history, g.end)} :
                        g.value = PaperValue(Resolve(recs[g.rec].alloc, Value, bought), sold)
  <2>1. \A f \in grades : f.rec = g.rec /\ f.kind = g.kind => f = g
    BY <1>1 DEF MemoryInv, GradesFit, GradedOnce
  <2>2. GradeFits(g, shadows, recs, history, day, worked, Quiet)
    BY DEF MemoryInv, GradesFit
  <2>3. PICK i \in 1..Len(shadows) :
          /\ IsFirst(shadows, g.rec, i)
          /\ shadows[i].known <= recs[g.rec].day /\ Past(shadows[i].known, day, worked)
          /\ shadows[i].from = recs[g.rec].day
          /\ Sure(shadows[i], history, Quiet) =>
               g.value \in Worths(Plan(recs, g.rec, history, shadows[i].known), history, g.end)
    BY <2>2 DEF GradeFits
  <2>4. i = Counterfactual(g.rec)
    BY <2>3, CounterfactualIsFirst
  <2>. DEFINE known == shadows[i].known
              bought == FetchedOn(history, known)
              h == Resolve(recs[g.rec].alloc, Value, bought)
  <2>5. Sure(shadows[i], history, Quiet) =>
          g.value \in {PaperValue(h, FetchedOn(history, g.end)), PaperValue(h, PricesOn(history, g.end))}
    BY <2>3 DEF Worths, Plan
  <2>6. FullyPriced(bought) \/ (commands = 0 /\ shadows[i].made = recs[g.rec].day)
          => Sure(shadows[i], history, Quiet)
    BY <2>3 DEF Sure, PricesKnown, Quiet
  <2>7. FullyPriced(bought) \/ (commands = 0 /\ shadows[i].made = recs[g.rec].day) =>
          \E sold \in {FetchedOn(history, g.end), PricesOn(history, g.end)} : g.value = PaperValue(h, sold)
    <3>. HIDE DEF h, bought
    <3>. QED BY <2>5, <2>6
  <2>. QED BY <2>1, <2>2, <2>3, <2>4, <2>7 DEF GradeFits
<1>. QED BY <1>1 DEF GradesDoNotLookAhead

\* A horizon is graded once, from a valuation of its own days, and the value is that of
\* the plan bought at the prices of the recommendation's day, if those were all known
\* or the shadow was written that day and no command came: whatever order optimizer
\* threads, decisions, late jobs, commands and crashes come in.
THEOREM GradesNeverLookAhead == MemorySpec => []GradesDoNotLookAhead
<1>1. MemoryInit => MemoryInv
  BY InitMemory
<1>2. MemoryInv /\ [MemoryNext]_memoryVars => MemoryInv'
  BY NextMemory
<1>3. MemoryInv => GradesDoNotLookAhead
  BY FitGradesDoNotLookAhead
<1>. QED BY <1>1, <1>2, <1>3, PTL DEF MemorySpec

-----------------------------------------------------------------------------
(* What the daily job has written for shadows other than models.           *)

IsStatic(S, i) == i \in 1..Len(S) /\ S[i].kind # "model"

\* Such a value is that of the shadow's holdings at prices of its day.
StaticFits ==
  \A x \in byJob :
    /\ x[1] \in 1..Len(shadows) /\ Past(x[2], day, worked)
    /\ IsStatic(shadows, x[1]) /\ x[2] \in DOMAIN values[x[1]] /\ ~(x[2] < shadows[x[1]].from)
         => values[x[1]][x[2]] \in Worths(shadows[x[1]].holdings, history, x[2])

JobInv == MemoryInv /\ StaticFits

\* Shadows other than models stay as they are.
SameStatic(S, V, S2, V2) ==
  /\ Len(S) \in Nat /\ Len(S2) \in Nat /\ Len(S) <= Len(S2)
  /\ \A i \in 1..Len(S) :
       /\ S2[i].kind = S[i].kind
       /\ S[i].kind # "model" =>
            S2[i].from = S[i].from /\ S2[i].holdings = S[i].holdings /\ V2[i] = V[i]

LEMMA SameStaticTwice ==
  ASSUME NEW S, NEW V, NEW S2, NEW V2, NEW S3, NEW V3,
         SameStatic(S, V, S2, V2), SameStatic(S2, V2, S3, V3)
  PROVE  SameStatic(S, V, S3, V3)
BY DEF SameStatic

LEMMA AddedSame ==
  ASSUME NEW p, IsSeq(p.shadows), IsSeq(p.values), Len(p.values) = Len(p.shadows), NEW s, NEW v
  PROVE  SameStatic(p.shadows, p.values, Added(p, s, v).shadows, Added(p, s, v).values)
<1>. DEFINE S == p.shadows
            V == p.values
            n == Len(S)
<1>1. Added(p, s, v).shadows = Append(S, s) /\ Added(p, s, v).values = Append(V, v)
  BY DEF Added
<1>2. n \in Nat /\ Len(Append(S, s)) = n + 1 /\ \A i \in 1..n : Append(S, s)[i] = S[i]
  BY SeqGrows DEF IsSeq
<1>3. \A i \in 1..n : Append(V, v)[i] = V[i]
  BY SeqGrows
<1>. QED BY <1>1, <1>2, <1>3 DEF SameStatic

LEMMA ModelWrittenSame ==
  ASSUME NEW p, IsSeq(p.shadows), IsSeq(p.values), Len(p.values) = Len(p.shadows),
         NEW r, NEW b, IsModel(p.shadows, b.shadow)
  PROVE  SameStatic(p.shadows, p.values, ModelWritten(p, r, b).shadows, ModelWritten(p, r, b).values)
<1>0. Len(p.shadows) \in Nat
  BY DEF IsSeq
<1>1. CASE ~b.conserved
  BY <1>0, <1>1 DEF ModelWritten, SameStatic
<1>2. CASE b.conserved /\ b.shadow = NoShadow
  BY <1>2, AddedSame DEF ModelWritten
<1>3. CASE b.conserved /\ b.shadow # NoShadow
  <2>. DEFINE S == p.shadows
              V == p.values
              k == b.shadow
              S2 == [S EXCEPT ![k].holdings = b.holdings, ![k].rec = r]
              V2 == [V EXCEPT ![k] = ValuedToday(@, b.holdings)]
  <2>1. ModelWritten(p, r, b).shadows = S2 /\ ModelWritten(p, r, b).values = V2
    BY <1>3 DEF ModelWritten
  <2>2. k \in 1..Len(S) /\ S[k].kind = "model"
    BY <1>3 DEF IsModel
  <2>3. DOMAIN S2 = 1..Len(S) /\ S2 = [i \in 1..Len(S) |-> S2[i]]
    BY DEF IsSeq
  <2>4. Len(S2) = Len(S)
    <3>. HIDE DEF S2
    <3>. QED BY <1>0, <2>3, SeqOfSome DEF S
  <2>5. \A i \in 1..Len(S) : i # k => S2[i] = S[i] /\ V2[i] = V[i]
    BY DEF IsSeq
  <2>6. S2[k].kind = "model"
    BY <2>2 DEF IsSeq
  <2>. HIDE DEF S2, V2
  <2>. QED BY <1>0, <2>1, <2>2, <2>4, <2>5, <2>6 DEF SameStatic
<1>. QED BY <1>1, <1>2, <1>3

LEMMA FreezeInsertsSame ==
  ASSUME MemoryInv, NEW t, FreezeInserts(t)
  PROVE  SameStatic(shadows, values, shadows', values')
<1>. DEFINE b == t.read[1]
            s == Shadow("frozen", t.rec, b.holdings, recs[t.rec].day, b.known)
<1>1. IsSeq(shadows) /\ IsSeq(values) /\ Len(values) = Len(shadows)
  BY PaperNow DEF PaperFits
<1>2. shadows' = Added(Paper, s, <<>>).shadows /\ values' = Added(Paper, s, <<>>).values
  BY DEF FreezeInserts, PaperBecomes
<1>3. Paper.shadows = shadows /\ Paper.values = values
  BY DEF Paper
<1>. HIDE DEF s
<1>. QED BY <1>1, <1>2, <1>3, AddedSame

\* No more of a shadow changes than whether it is active.
OnlyRest(S, S2) ==
  /\ Len(S) \in Nat /\ Len(S2) = Len(S)
  /\ \A i \in 1..Len(S) :
       S2[i].kind = S[i].kind /\ S2[i].from = S[i].from /\ S2[i].holdings = S[i].holdings

LEMMA RestingKeeps ==
  ASSUME MemoryInv, NEW v, NEW failing, NEW lost, EvaluationWith(v, failing, lost)
  PROVE  OnlyRest(shadows, shadows')
<1>. DEFINE due == {x \in Due(v) : x[1] \notin failing}
            rests(i) == /\ i = Counterfactual(shadows[i].rec)
                        /\ <<shadows[i].rec, Max(Horizons)>> \in due
                        /\ shadows[i].rec \notin lost
<1>1. shadows' = [i \in Shadows |->
        IF rests(i) THEN [shadows[i] EXCEPT !.active = FALSE] ELSE shadows[i]]
  BY DEF EvaluationWith
<1>. HIDE DEF rests
<1>2. Len(shadows) \in Nat
  BY PaperNow DEF PaperFits, IsSeq
<1>3. DOMAIN shadows' = 1..Len(shadows) /\ shadows' = [i \in 1..Len(shadows) |-> shadows'[i]]
  BY <1>1 DEF Shadows
<1>4. Len(shadows') = Len(shadows)
  BY <1>2, <1>3, SeqOfSome
<1>5. ASSUME NEW i \in 1..Len(shadows)
      PROVE  /\ shadows'[i].kind = shadows[i].kind /\ shadows'[i].from = shadows[i].from
             /\ shadows'[i].holdings = shadows[i].holdings
  <2>1. IsShadow(shadows[i])
        /\ (shadows'[i] = [shadows[i] EXCEPT !.active = FALSE] \/ shadows'[i] = shadows[i])
    BY <1>1, ShadowsNow
  <2>. QED BY <2>1 DEF IsShadow
<1>. QED BY <1>2, <1>4, <1>5 DEF OnlyRest

-----------------------------------------------------------------------------
(* Steps.                                                                  *)

\* Written once, a value stays until holdings and days are valued again.
LEMMA StaticStays ==
  ASSUME StaticFits, byJob' = byJob, Later(history, day, worked, history', day', worked'),
         Len(shadows) \in Nat, Len(shadows') \in Nat, Len(shadows) <= Len(shadows'),
         \A i \in 1..Len(shadows) :
           /\ shadows'[i].kind = shadows[i].kind
           /\ shadows[i].kind # "model" =>
                /\ shadows'[i].from = shadows[i].from
                /\ \/ shadows'[i].holdings = shadows[i].holdings /\ values'[i] = values[i]
                   \/ \A d \in DOMAIN values'[i] : ~(d < shadows[i].from) /\ Past(d, day, worked) =>
                        values'[i][d] \in Worths(shadows'[i].holdings, history, d)
  PROVE  StaticFits'
<1>1. ASSUME NEW x \in byJob
      PROVE  /\ x[1] \in 1..Len(shadows') /\ Past(x[2], day', worked')
             /\ IsStatic(shadows', x[1]) /\ x[2] \in DOMAIN values'[x[1]] /\ ~(x[2] < shadows'[x[1]].from)
                  => values'[x[1]][x[2]]
                       \in Worths(shadows'[x[1]].holdings, history', x[2])
  <2>. DEFINE i == x[1]
              d == x[2]
  <2>1. i \in 1..Len(shadows) /\ Past(d, day, worked)
        /\ (IsStatic(shadows, i) /\ d \in DOMAIN values[i] /\ ~(d < shadows[i].from)
              => values[i][d] \in Worths(shadows[i].holdings, history, d))
    BY DEF StaticFits
  <2>. HIDE DEF i, d
  <2>2. /\ i \in 1..Len(shadows') /\ Past(d, day', worked')
        /\ \A h : Worths(h, history', d) = Worths(h, history, d)
    BY <2>1, WorthsLater
  <2>3. ASSUME IsStatic(shadows', i), d \in DOMAIN values'[i], ~(d < shadows'[i].from)
        PROVE  values'[i][d] \in Worths(shadows'[i].holdings, history', d)
    <3>1. IsStatic(shadows, i) /\ shadows'[i].from = shadows[i].from
      BY <2>1, <2>3 DEF IsStatic
    <3>2. CASE shadows'[i].holdings = shadows[i].holdings /\ values'[i] = values[i]
      BY <2>1, <2>2, <2>3, <3>1, <3>2
    <3>3. CASE \A e \in DOMAIN values'[i] : ~(e < shadows[i].from) /\ Past(e, day, worked) =>
                 values'[i][e] \in Worths(shadows'[i].holdings, history, e)
      BY <2>1, <2>2, <2>3, <3>1, <3>3
    <3>. QED BY <2>1, <3>1, <3>2, <3>3 DEF IsStatic
  <2>. QED BY <2>2, <2>3 DEF i, d
<1>. QED BY <1>1 DEF StaticFits

LEMMA SameStaticFits ==
  ASSUME StaticFits, byJob' = byJob, Later(history, day, worked, history', day', worked'),
         SameStatic(shadows, values, shadows', values')
  PROVE  StaticFits'
BY StaticStays DEF SameStatic

LEMMA NoShadowsFits ==
  ASSUME MemoryInv, StaticFits, Later(history, day, worked, history', day', worked'),
         UNCHANGED <<shadows, values, byJob>>
  PROVE  StaticFits'
<1>1. Len(shadows) \in Nat
  BY PaperNow DEF PaperFits, IsSeq
<1>2. shadows' = shadows /\ values' = values
  OBVIOUS
<1>3. SameStatic(shadows, values, shadows', values')
  BY <1>1, <1>2 DEF SameStatic
<1>. QED BY <1>3, SameStaticFits

LEMMA ApproveSame ==
  ASSUME MemoryInv, NEW r \in Recs, Approve(r)
  PROVE  SameStatic(shadows, values, shadows', values')
<1>. DEFINE h == Resolve(recs[r].alloc, Value, CachedPrices)
            s == Shadow("approved", r, h, day, day)
            v == ValuedToday(<<>>, h)
            frozen == IF Conserved(h, CachedPrices, Value) THEN Added(Paper, s, v) ELSE Paper
<1>1. PaperBecomes(ModelWritten(frozen, r, Rebalancing(r)))
  BY DEF Approve, ApprovedFrozen
<1>2. IsShadow(s) /\ s.kind # "frozen"
  BY FreshShadow
<1>. HIDE DEF s, v
<1>3. /\ PaperFits(frozen.shadows, frozen.values, recs, history, day, worked, Quiet)
      /\ FrozenKept(shadows, frozen.shadows)
      /\ SameStatic(shadows, values, frozen.shadows, frozen.values)
  <2>0. Paper.values = values /\ IsSeq(shadows) /\ IsSeq(values) /\ Len(values) = Len(shadows)
    BY PaperNow DEF Paper, PaperFits
  <2>1. CASE Conserved(h, CachedPrices, Value)
    <3>1. PaperFits(Added(Paper, s, v).shadows, Added(Paper, s, v).values, recs, history, day, worked, Quiet)
          /\ FrozenKept(Paper.shadows, Added(Paper, s, v).shadows)
      BY <1>2, PaperNow, AddedFits
    <3>2. SameStatic(Paper.shadows, Paper.values, Added(Paper, s, v).shadows, Added(Paper, s, v).values)
      BY <2>0, PaperNow, AddedSame
    <3>. QED BY <2>0, <2>1, <3>1, <3>2, PaperNow
  <2>2. CASE ~Conserved(h, CachedPrices, Value)
    <3>1. frozen = Paper /\ Len(shadows) \in Nat
      BY <2>0, <2>2 DEF IsSeq
    <3>. HIDE DEF frozen
    <3>2. FrozenKept(shadows, shadows) /\ SameStatic(shadows, values, shadows, values)
      BY <3>1 DEF FrozenKept, SameStatic, SameBirth
    <3>. QED BY <2>0, <3>1, <3>2, PaperNow
  <2>. QED BY <2>1, <2>2
<1>. HIDE DEF frozen
<1>4. IsModel(frozen.shadows, Rebalancing(r).shadow)
  <2>1. IsModel(shadows, Rebalancing(r).shadow)
    BY LatestModel DEF Rebalancing
  <2>. QED BY <1>3, <2>1 DEF IsModel, FrozenKept
<1>5. IsSeq(frozen.shadows) /\ IsSeq(frozen.values) /\ Len(frozen.values) = Len(frozen.shadows)
  BY <1>3 DEF PaperFits
<1>6. SameStatic(frozen.shadows, frozen.values, shadows', values')
  BY <1>1, <1>4, <1>5, ModelWrittenSame DEF PaperBecomes
<1>. QED BY <1>3, <1>6, SameStaticTwice

LEMMA ThreadWritesSame ==
  ASSUME MemoryInv, NEW t \in threads, ThreadWrites(t)
  PROVE  SameStatic(shadows, values, shadows', values')
<1>1. IsModel(Paper.shadows, t.read[1].shadow)
  BY PaperNow DEF ThreadWrites, MemoryInv, ThreadsFit, ThreadFits
<1>2. /\ Paper.shadows = shadows /\ Paper.values = values
      /\ IsSeq(shadows) /\ IsSeq(values) /\ Len(values) = Len(shadows)
  BY PaperNow DEF Paper, PaperFits
<1>3. shadows' = ModelWritten(Paper, t.rec, t.read[1]).shadows
      /\ values' = ModelWritten(Paper, t.rec, t.read[1]).values
  BY DEF ThreadWrites, PaperBecomes
<1>. QED BY <1>1, <1>2, <1>3, ModelWrittenSame

LEMMA StaticRegenerated ==
  ASSUME MemoryInv, NEW i \in 1..Len(shadows), shadows[i].kind # "model"
  PROVE  /\ Regenerated(i).days = Revalued(shadows[i].holdings, shadows[i].from, history, values[i])
         /\ Regenerated(i).holdings = shadows[i].holdings
BY DEF Regenerated, RegeneratedStatic

\* The values of a shadow that is given its past days are not the job's any more.
LEMMA FreezeFillsFits == ASSUME MemoryInv, StaticFits, NEW t \in threads, FreezeFills(t) PROVE StaticFits'
<1>. DEFINE i == t.read[1].shadow
<1>1. /\ \E v : values' = [values EXCEPT ![i] = v]
      /\ byJob' = {x \in byJob : x[1] # i}
      /\ UNCHANGED <<day, worked, history, shadows>>
  BY DEF FreezeFills
<1>. HIDE DEF i
<1>2. DOMAIN values = 1..Len(shadows)
  BY PaperNow DEF PaperFits, IsSeq
<1>3. \A j \in 1..Len(shadows) : j # i => values'[j] = values[j]
  BY <1>1, <1>2
<1>4. shadows' = shadows /\ history' = history /\ day' = day /\ worked' = worked
  BY <1>1
<1>5. ASSUME NEW x \in byJob'
      PROVE  /\ x[1] \in 1..Len(shadows) /\ Past(x[2], day, worked)
             /\ IsStatic(shadows, x[1]) /\ x[2] \in DOMAIN values'[x[1]] /\ ~(x[2] < shadows[x[1]].from)
                  => values'[x[1]][x[2]] \in Worths(shadows[x[1]].holdings, history, x[2])
  <2>1. x \in byJob /\ x[1] # i
    BY <1>1
  <2>2. x[1] \in 1..Len(shadows)
    BY <2>1 DEF StaticFits
  <2>3. values'[x[1]] = values[x[1]]
    BY <1>3, <2>1, <2>2
  <2>. QED BY <2>1, <2>2, <2>3 DEF StaticFits
<1>. QED BY <1>4, <1>5 DEF StaticFits

LEMMA RegenerateFits == ASSUME MemoryInv, StaticFits, Regenerate PROVE StaticFits'
<1>0. Len(shadows) \in Nat /\ Shadows = 1..Len(shadows)
  BY PaperNow DEF PaperFits, IsSeq, Shadows
<1>1. /\ values' = [i \in Shadows |-> Regenerated(i).days]
      /\ shadows' = [i \in Shadows |-> [shadows[i] EXCEPT !.holdings = Regenerated(i).holdings]]
      /\ byJob' = byJob /\ UNCHANGED <<day, worked, history>>
  BY DEF Regenerate
<1>2. IsTuple(shadows', Len(shadows))
  BY <1>0, <1>1 DEF IsTuple
<1>3. Len(shadows') = Len(shadows)
  BY <1>0, <1>2, SeqOfSome DEF IsTuple
<1>4. ASSUME NEW i \in 1..Len(shadows)
      PROVE  shadows'[i].kind = shadows[i].kind /\ shadows'[i].from = shadows[i].from
             /\ shadows'[i].holdings = Regenerated(i).holdings
  <2>. DEFINE x == Regenerated(i).holdings
  <2>1. shadows'[i] = [shadows[i] EXCEPT !.holdings = x] /\ IsShadow(shadows[i])
    BY <1>1, ShadowsNow
  <2>. HIDE DEF x
  <2>2. shadows'[i].kind = shadows[i].kind /\ shadows'[i].from = shadows[i].from
        /\ shadows'[i].holdings = x
    BY <2>1 DEF IsShadow
  <2>. QED BY <2>2 DEF x
<1>5. ASSUME NEW i \in 1..Len(shadows), shadows[i].kind # "model",
             NEW d \in DOMAIN values'[i], ~(d < shadows[i].from)
      PROVE  values'[i][d] \in Worths(shadows'[i].holdings, history, d)
  <2>1. values'[i] = Revalued(shadows[i].holdings, shadows[i].from, history, values[i])
        /\ shadows'[i].holdings = shadows[i].holdings
    BY <1>1, <1>4, <1>5, StaticRegenerated, ShadowsNow
  <2>. QED BY <1>5, <2>1, RevaluedAt DEF Worths
<1>6. Later(history, day, worked, history', day', worked')
  BY <1>1, RecsNow
<1>. QED BY <1>0, <1>1, <1>3, <1>4, <1>5, <1>6, StaticStays

LEMMA RepairFits == ASSUME MemoryInv, StaticFits, Repair PROVE StaticFits'
<1>. DEFINE mended(i) == Unfrozen(shadows[i].holdings, shadows[i].from)
<1>0. Len(shadows) \in Nat /\ Shadows = 1..Len(shadows)
  BY PaperNow DEF PaperFits, IsSeq, Shadows
<1>1. /\ shadows' = [i \in Shadows |->
           IF shadows[i].active THEN [shadows[i] EXCEPT !.holdings = mended(i)] ELSE shadows[i]]
      /\ values' = [i \in Shadows |->
           IF shadows[i].active /\ shadows[i].kind # "model"
           THEN Revalued(mended(i), shadows[i].from, history, values[i]) ELSE values[i]]
      /\ byJob' = byJob /\ UNCHANGED <<day, worked, history>>
  BY DEF Repair
<1>. HIDE DEF mended
<1>2. IsTuple(shadows', Len(shadows))
  BY <1>0, <1>1 DEF IsTuple
<1>3. Len(shadows') = Len(shadows)
  BY <1>0, <1>2, SeqOfSome DEF IsTuple
<1>4. ASSUME NEW i \in 1..Len(shadows), shadows[i].active
      PROVE  shadows'[i].kind = shadows[i].kind /\ shadows'[i].from = shadows[i].from
             /\ shadows'[i].holdings = mended(i)
  <2>1. shadows'[i] = [shadows[i] EXCEPT !.holdings = mended(i)] /\ IsShadow(shadows[i])
    BY <1>1, <1>4, ShadowsNow
  <2>. QED BY <2>1 DEF IsShadow
<1>5. ASSUME NEW i \in 1..Len(shadows), ~shadows[i].active
      PROVE  shadows'[i] = shadows[i] /\ values'[i] = values[i]
  BY <1>1, <1>5, ShadowsNow
<1>6. ASSUME NEW i \in 1..Len(shadows), shadows[i].active, shadows[i].kind # "model",
             NEW d \in DOMAIN values'[i], ~(d < shadows[i].from)
      PROVE  values'[i][d] \in Worths(shadows'[i].holdings, history, d)
  <2>1. values'[i] = Revalued(mended(i), shadows[i].from, history, values[i])
    BY <1>1, <1>6, ShadowsNow
  <2>. QED BY <1>4, <1>6, <2>1, RevaluedAt DEF Worths
<1>7. Later(history, day, worked, history', day', worked')
  BY <1>1, RecsNow
<1>. QED BY <1>0, <1>1, <1>3, <1>4, <1>5, <1>6, <1>7, StaticStays

LEMMA ResetInceptionFits == ASSUME MemoryInv, StaticFits, ResetInception PROVE StaticFits'
<1>0. Len(shadows) \in Nat /\ Shadows = 1..Len(shadows)
  BY PaperNow DEF PaperFits, IsSeq, Shadows
<1>1. /\ shadows' = [i \in Shadows |->
           IF i \in ActiveModels
           THEN [shadows[i] EXCEPT !.from = day, !.start = PaperValue(shadows[i].holdings, CachedPrices)]
           ELSE shadows[i]]
      /\ values' = [i \in Shadows |->
           IF i \in ActiveModels THEN ValuedToday(<<>>, shadows[i].holdings) ELSE values[i]]
      /\ byJob' = byJob /\ UNCHANGED <<day, worked, history>>
  BY DEF ResetInception
<1>2. IsTuple(shadows', Len(shadows))
  BY <1>0, <1>1 DEF IsTuple
<1>3. Len(shadows') = Len(shadows)
  BY <1>0, <1>2, SeqOfSome DEF IsTuple
<1>4. ASSUME NEW i \in 1..Len(shadows), i \in ActiveModels
      PROVE  shadows'[i].kind = shadows[i].kind /\ shadows[i].kind = "model"
  <2>. DEFINE x == PaperValue(shadows[i].holdings, CachedPrices)
  <2>1. shadows'[i] = [shadows[i] EXCEPT !.from = day, !.start = x] /\ IsShadow(shadows[i])
    BY <1>1, <1>4, ShadowsNow
  <2>. HIDE DEF x
  <2>2. shadows'[i].kind = shadows[i].kind
    BY <2>1 DEF IsShadow
  <2>. QED BY <1>4, <2>2 DEF ActiveModels
<1>5. ASSUME NEW i \in 1..Len(shadows), i \notin ActiveModels
      PROVE  shadows'[i] = shadows[i] /\ values'[i] = values[i]
  BY <1>1, <1>5, ShadowsNow
<1>6. SameStatic(shadows, values, shadows', values')
  BY <1>0, <1>3, <1>4, <1>5 DEF SameStatic
<1>7. Later(history, day, worked, history', day', worked')
  BY <1>1, RecsNow
<1>. QED BY <1>1, <1>6, <1>7, SameStaticFits

LEMMA BackfillGradesFits == ASSUME MemoryInv, StaticFits, BackfillGrades PROVE StaticFits'
<1>1. PICK failing \in SUBSET Recs, lost \in SUBSET Recs : EvaluationWith(values, failing, lost)
  BY DEF BackfillGrades, EvaluationPass
<1>2. byJob' = byJob /\ values' = values /\ UNCHANGED <<day, worked, history>>
  BY DEF BackfillGrades
<1>3. SameStatic(shadows, values, shadows', values')
  BY <1>1, <1>2, RestingKeeps DEF OnlyRest, SameStatic
<1>4. Later(history, day, worked, history', day', worked')
  BY <1>2, RecsNow
<1>. QED BY <1>2, <1>3, <1>4, SameStaticFits

\* The job's own valuations, of holdings that stay the same in it.
LEMMA ValuingFits ==
  ASSUME MemoryInv, StaticFits, ~worked, ValueShadows, day' = day, worked' = TRUE,
         Later(history, day, worked, history', day', worked'), OnlyRest(shadows, shadows')
  PROVE  StaticFits'
<1>. DEFINE due == {i \in Shadows : shadows[i].active}
            worth(i) == PaperValue(shadows[i].holdings, FetchedOn(history', day))
<1>1. /\ values' = [i \in Shadows |->
           IF i \in due THEN [d \in DOMAIN values[i] \cup {day} |-> IF d = day THEN worth(i) ELSE values[i][d]]
           ELSE values[i]]
      /\ byJob' = byJob \cup (due \X {day})
  BY DEF ValueShadows
<1>2. /\ day \in Nat /\ Len(shadows) \in Nat /\ Len(shadows') = Len(shadows)
      /\ \A i \in 1..Len(shadows) :
           /\ shadows'[i].kind = shadows[i].kind /\ shadows'[i].from = shadows[i].from
           /\ shadows'[i].holdings = shadows[i].holdings
  BY DEF MemoryInv, ClockFits, OnlyRest
<1>3. \A i \in due : i \in 1..Len(shadows)
  BY DEF Shadows
<1>4. ASSUME NEW i \in due, day \in DOMAIN values'[i]
      PROVE  values'[i][day] \in Worths(shadows'[i].holdings, history', day)
  <2>1. values'[i] = [d \in DOMAIN values[i] \cup {day} |-> IF d = day THEN worth(i) ELSE values[i][d]]
    BY <1>1
  <2>. QED BY <1>2, <1>3, <2>1 DEF Worths
<1>. HIDE DEF due, worth
<1>5. ASSUME NEW x \in byJob
      PROVE  /\ x[1] \in 1..Len(shadows) /\ Past(x[2], day, TRUE)
             /\ IsStatic(shadows, x[1]) /\ x[2] \in DOMAIN values'[x[1]] /\ ~(x[2] < shadows[x[1]].from)
                  => values'[x[1]][x[2]]
                       \in Worths(shadows[x[1]].holdings, history', x[2])
  <2>. DEFINE i == x[1]
              d == x[2]
  <2>1. i \in 1..Len(shadows) /\ Past(d, day, worked)
        /\ (IsStatic(shadows, i) /\ d \in DOMAIN values[i] /\ ~(d < shadows[i].from)
              => values[i][d] \in Worths(shadows[i].holdings, history, d))
    BY DEF StaticFits
  <2>. HIDE DEF i, d
  <2>2. d # day
    BY <1>2, <2>1 DEF Past
  <2>3. Past(d, day, TRUE) /\ \A h : Worths(h, history', d) = Worths(h, history, d)
    <3>1. /\ Past(d, day', worked') /\ PricesOn(history', d) = PricesOn(history, d)
          /\ FetchedOn(history', d) = FetchedOn(history, d)
      BY <2>1 DEF Later
    <3>. QED BY <3>1 DEF Worths
  <2>4. d \in DOMAIN values'[i] => d \in DOMAIN values[i] /\ values'[i][d] = values[i][d]
    <3>1. CASE i \in due
      <4>1. values'[i] = [e \in DOMAIN values[i] \cup {day} |-> IF e = day THEN worth(i) ELSE values[i][e]]
        BY <1>1, <2>1, <3>1 DEF Shadows
      <4>. QED BY <2>2, <4>1
    <3>2. CASE i \notin due
      BY <1>1, <2>1, <3>2 DEF Shadows
    <3>. QED BY <3>1, <3>2
  <2>. QED BY <2>1, <2>3, <2>4 DEF i, d
<1>6. ASSUME NEW x \in byJob'
      PROVE  /\ x[1] \in 1..Len(shadows') /\ Past(x[2], day', worked')
             /\ IsStatic(shadows', x[1]) /\ x[2] \in DOMAIN values'[x[1]] /\ ~(x[2] < shadows'[x[1]].from)
                  => values'[x[1]][x[2]]
                       \in Worths(shadows'[x[1]].holdings, history', x[2])
  <2>1. CASE x \in byJob
    BY <1>2, <1>5, <2>1 DEF IsStatic
  <2>2. CASE x \in due \X {day}
    <3>1. x[1] \in due /\ x[2] = day
      BY <2>2
    <3>2. Past(day, day', worked')
      BY <1>2 DEF Past
    <3>. QED BY <1>2, <1>3, <1>4, <3>1, <3>2
  <2>. QED BY <1>1, <2>1, <2>2
<1>. QED BY <1>6 DEF StaticFits

LEMMA RunJobFits == ASSUME MemoryInv, StaticFits, RunJob PROVE StaticFits'
<1>1. ~worked /\ worked' = TRUE /\ UNCHANGED <<day, recs, threads, commands>>
  BY DEF RunJob
<1>2. Len(shadows) \in Nat
  BY PaperNow DEF PaperFits, IsSeq
<1>3. Later(history, day, worked, history', day', worked')
  BY <1>1, WorkDone DEF RunJob
<1>4. CASE TakeSnapshot /\ ValueShadows /\ EvaluationPass(values')
  <2>1. PICK failing \in SUBSET Recs, lost \in SUBSET Recs : EvaluationWith(values', failing, lost)
    BY <1>4 DEF EvaluationPass
  <2>. QED BY <1>1, <1>3, <1>4, <2>1, RestingKeeps, ValuingFits
<1>5. CASE UNCHANGED history /\ ValueShadows /\ EvaluationWith(values', {}, {})
  BY <1>1, <1>3, <1>5, RestingKeeps, ValuingFits
<1>6. CASE TakeSnapshot /\ UNCHANGED <<values, byJob>> /\ EvaluationWith(values, {}, {})
  <2>1. SameStatic(shadows, values, shadows', values')
    BY <1>6, RestingKeeps DEF OnlyRest, SameStatic
  <2>. QED BY <1>3, <1>6, <2>1, SameStaticFits
<1>7. CASE TakeSnapshot /\ ValueShadows /\ UNCHANGED <<decisions, grades, shadows>>
  <2>1. OnlyRest(shadows, shadows')
    BY <1>2, <1>7 DEF OnlyRest
  <2>. QED BY <1>1, <1>3, <1>7, <2>1, ValuingFits
<1>. QED BY <1>4, <1>5, <1>6, <1>7 DEF RunJob

-----------------------------------------------------------------------------
(* All steps.                                                              *)

LEMMA NextJob == ASSUME JobInv, [MemoryNext]_memoryVars PROVE JobInv'
<1>0. MemoryInv /\ StaticFits /\ MemoryInv'
  BY NextMemory DEF JobInv
<1>. SUFFICES StaticFits'
  BY <1>0 DEF JobInv
<1>1. ASSUME NEW alloc \in Allocations, Recommend(alloc) PROVE StaticFits'
  BY <1>0, <1>1, RecsNow, NoShadowsFits DEF Recommend
<1>2. ASSUME NEW t \in threads, ThreadReads(t) PROVE StaticFits'
  BY <1>0, <1>2, RecsNow, NoShadowsFits DEF ThreadReads
<1>3. ASSUME NEW t \in threads, ThreadWrites(t) PROVE StaticFits'
  <2>1. byJob' = byJob /\ UNCHANGED <<day, worked, history>>
    BY <1>3 DEF ThreadWrites
  <2>. QED BY <1>0, <1>3, <2>1, RecsNow, ThreadWritesSame, SameStaticFits
<1>4. ASSUME NEW t \in threads, FreezeReads(t) \/ FreezeInserts(t) \/ FreezeFills(t) PROVE StaticFits'
  <2>1. CASE FreezeReads(t)
    BY <1>0, <2>1, RecsNow, NoShadowsFits DEF FreezeReads
  <2>2. CASE FreezeInserts(t)
    <3>1. byJob' = byJob /\ UNCHANGED <<day, worked, history>>
      BY <2>2 DEF FreezeInserts
    <3>. QED BY <1>0, <2>2, <3>1, RecsNow, FreezeInsertsSame, SameStaticFits
  <2>3. CASE FreezeFills(t)
    BY <1>0, <2>3, FreezeFillsFits
  <2>. QED BY <1>4, <2>1, <2>2, <2>3
<1>5. ASSUME NEW r \in Recs, Approve(r) PROVE StaticFits'
  <2>1. byJob' = byJob /\ UNCHANGED <<day, worked, history>>
    BY <1>5 DEF Approve
  <2>. QED BY <1>0, <1>5, <2>1, RecsNow, ApproveSame, SameStaticFits
<1>6. ASSUME NEW r \in Recs, Reject(r) PROVE StaticFits'
  BY <1>0, <1>6, RecsNow, NoShadowsFits DEF Reject
<1>7. ASSUME NEW r \in Recs, BackfillShadow(r) PROVE StaticFits'
  BY <1>0, <1>7, RecsNow, NoShadowsFits DEF BackfillShadow
<1>8. CASE NextDay
  <2>1. Later(history, day, worked, history', day', worked')
    BY <1>0, <1>8, LaterTomorrow DEF NextDay, MemoryInv, ClockFits
  <2>. QED BY <1>0, <1>8, <2>1, NoShadowsFits DEF NextDay
<1>9. CASE Crash
  BY <1>0, <1>9, RecsNow, NoShadowsFits DEF Crash
<1>10. CASE UNCHANGED memoryVars
  BY <1>0, <1>10, RecsNow, NoShadowsFits DEF memoryVars
<1>11. CASE RunJob \/ BackfillGrades \/ Regenerate \/ Repair \/ ResetInception
  BY <1>0, <1>11, RunJobFits, BackfillGradesFits, RegenerateFits, RepairFits, ResetInceptionFits
<1>. QED BY <1>1, <1>2, <1>3, <1>4, <1>5, <1>6, <1>7, <1>8, <1>9, <1>10, <1>11 DEF MemoryNext

LEMMA RegenerationKeeps ==
  ASSUME JobInv, Regenerate, NEW x \in byJob, shadows[x[1]].kind # "model",
         x[2] \in DOMAIN values[x[1]], FetchedOn(history, x[2]) = PricesOn(history, x[2])
  PROVE  values'[x[1]][x[2]] = values[x[1]][x[2]]
<1>. DEFINE i == x[1]
            d == x[2]
<1>1. /\ i \in 1..Len(shadows) /\ i \in Shadows
      /\ ~(d < shadows[i].from) => values[i][d] = PaperValue(shadows[i].holdings, PricesOn(history, d))
  BY DEF JobInv, StaticFits, IsStatic, Shadows, Worths
<1>2. values'[i] = Regenerated(i).days
  BY <1>1 DEF Regenerate
<1>3. values'[i] = Revalued(shadows[i].holdings, shadows[i].from, history, values[i])
  BY <1>1, <1>2, StaticRegenerated DEF JobInv
<1>4. d \in DOMAIN Revalued(shadows[i].holdings, shadows[i].from, history, values[i])
  BY DEF Revalued
<1>. QED BY <1>1, <1>3, <1>4, RevaluedAt

\* Regeneration writes every value again that the daily job has written for a paper
\* portfolio whose holdings never change, whatever happened between the two, if the
\* snapshots that the job looked at held all prices.
THEOREM RegenerationAlwaysReproducesStatic == MemorySpec => RegenerationReproducesStatic
<1>1. MemoryInit => JobInv
  BY InitMemory DEF MemoryInit, JobInv, StaticFits
<1>2. JobInv /\ [MemoryNext]_memoryVars => JobInv'
  BY NextJob
<1>3. JobInv /\ [MemoryNext]_memoryVars =>
        [Regenerate => \A x \in byJob :
           /\ shadows[x[1]].kind # "model" /\ x[2] \in DOMAIN values[x[1]]
           /\ FetchedOn(history, x[2]) = PricesOn(history, x[2])
           => values'[x[1]][x[2]] = values[x[1]][x[2]]]_memoryVars
  BY RegenerationKeeps
<1>. QED BY <1>1, <1>2, <1>3, PTL DEF MemorySpec, RegenerationReproducesStatic

-----------------------------------------------------------------------------
(* The reports on decisions.                                               *)

AdvisedRow == [day : Nat, plan : Plans]
DecidedRow == [rec : Nat, kind : Decisions \union {"EXPIRED"}, at : Nat]
GradeRow   == [rec : Nat, horizon : Nat, end : Int, return : Int]
FillRow    == [decision : Nat, symbol : {t.symbol : t \in UNION Plans},
               shares : Nat \ {0}, timing : Int, amount : Nat]

\* The rows that the reports read are typed and finitely many.
RowsHaveTypes ==
  /\ now \in Nat /\ horizons \subseteq Nat
  /\ advised \in Seq(AdvisedRow) /\ decided \in Seq(DecidedRow)
  /\ IsFiniteSet(horizonGrades) /\ horizonGrades \subseteq GradeRow
  /\ fills \in Seq(FillRow)
  /\ DOMAIN daily \subseteq 0..Day
  /\ \A d \in DOMAIN daily : daily[d].actual \in Int /\ daily[d].model \in Int

\* A decision is about a recommendation there is, and in the past.
DecisionsFollow ==
  \A i \in DOMAIN decided : decided[i].rec \in DOMAIN advised /\ decided[i].at <= now

\* A recommendation has one grade for a horizon, of a valuation not too long
\* before it.
GradesMature ==
  /\ \A g \in horizonGrades :
       /\ g.rec \in DOMAIN advised
       /\ g.end >= advised[g.rec].day + g.horizon - MaxGradeGap
       /\ g.end <= advised[g.rec].day + g.horizon
  /\ \A g, o \in horizonGrades : g.rec = o.rec /\ g.horizon = o.horizon => g = o

ReportsInv == RowsHaveTypes /\ DecisionsFollow /\ GradesMature

LEMMA InitReports == ASSUME ReportsInit PROVE ReportsInv
<1>1. /\ now = 0 /\ horizons = HorizonSettings[1] /\ advised = <<>> /\ decided = <<>>
      /\ horizonGrades = {} /\ fills = <<>> /\ daily = <<>>
  BY DEF ReportsInit
<1>2. IsFiniteSet({}) /\ DOMAIN daily = {} /\ DOMAIN decided = {}
  BY <1>1, FS_EmptySet
<1>3. horizons \subseteq Nat
  BY <1>1, ReportsAssumption
<1>. QED BY <1>1, <1>2, <1>3 DEF ReportsInv, RowsHaveTypes, DecisionsFollow, GradesMature

LEMMA OneMore ==
  ASSUME NEW S, IsFiniteSet(S), NEW x
  PROVE  IsFiniteSet(S \union {x})
BY FS_AddElement

LEMMA AdviseReports ==
  ASSUME ReportsInv, NEW p \in Plans, Advise(p)
  PROVE  ReportsInv'
<1>. DEFINE row == [day |-> Day, plan |-> p]
<1>1. /\ advised' = Append(advised, row)
      /\ UNCHANGED <<now, horizons, decided, horizonGrades, fills, daily>>
  BY DEF Advise
<1>2. row \in AdvisedRow /\ Day' = Day
  BY <1>1 DEF AdvisedRow, Day, ReportsInv, RowsHaveTypes
<1>3. advised \in Seq(AdvisedRow)
  BY DEF ReportsInv, RowsHaveTypes
<1>. HIDE DEF row
<1>4. /\ advised' \in Seq(AdvisedRow)
      /\ \A r \in DOMAIN advised : r \in DOMAIN advised' /\ advised'[r] = advised[r]
  BY <1>1, <1>2, <1>3, AppendProperties
<1>5. RowsHaveTypes'
  BY <1>1, <1>2, <1>4 DEF ReportsInv, RowsHaveTypes
<1>6. DecisionsFollow'
  BY <1>1, <1>4 DEF ReportsInv, DecisionsFollow
<1>7. GradesMature'
  BY <1>1, <1>4 DEF ReportsInv, GradesMature
<1>. QED BY <1>5, <1>6, <1>7 DEF ReportsInv

LEMMA DecideReports ==
  ASSUME ReportsInv, NEW r \in DOMAIN advised, NEW kind \in Decisions \union {"EXPIRED"}, Decide(r, kind)
  PROVE  ReportsInv'
<1>. DEFINE row == [rec |-> r, kind |-> kind, at |-> now]
<1>1. /\ decided' = Append(decided, row)
      /\ UNCHANGED <<now, horizons, advised, horizonGrades, fills, daily>>
  BY DEF Decide
<1>2. now \in Nat /\ advised \in Seq(AdvisedRow) /\ decided \in Seq(DecidedRow)
  BY DEF ReportsInv, RowsHaveTypes
<1>3. row \in DecidedRow /\ Day' = Day /\ row.rec = r /\ row.at = now
  BY <1>1, <1>2 DEF DecidedRow, Day
<1>. HIDE DEF row
<1>4. /\ decided' \in Seq(DecidedRow)
      /\ \A i \in DOMAIN decided' : (i \in DOMAIN decided /\ decided'[i] = decided[i]) \/ decided'[i] = row
  BY <1>1, <1>2, <1>3, AppendProperties
<1>5. RowsHaveTypes'
  BY <1>1, <1>3, <1>4 DEF ReportsInv, RowsHaveTypes
<1>6. DecisionsFollow'
  BY <1>1, <1>2, <1>3, <1>4 DEF ReportsInv, DecisionsFollow
<1>7. GradesMature'
  BY <1>1 DEF ReportsInv, GradesMature
<1>. QED BY <1>5, <1>6, <1>7 DEF ReportsInv

LEMMA GradeReports ==
  ASSUME ReportsInv, NEW r \in DOMAIN advised, NEW h \in horizons, NEW end \in 0..Day,
         NEW return \in AdvisedReturns, GradeHorizon(r, h, end, return)
  PROVE  ReportsInv'
<1>. DEFINE row == [rec |-> r, horizon |-> h, end |-> end, return |-> return]
<1>1. /\ horizonGrades' = horizonGrades \union {row}
      /\ UNCHANGED <<now, horizons, advised, decided, fills, daily>>
      /\ end \in (advised[r].day + h - MaxGradeGap)..(advised[r].day + h)
      /\ ~ \E g \in horizonGrades : g.rec = r /\ g.horizon = h
  BY DEF GradeHorizon
<1>2. /\ now \in Nat /\ Day \in Nat /\ h \in Nat /\ return \in Int /\ MaxGradeGap \in Nat
      /\ advised \in Seq(AdvisedRow) /\ r \in Nat /\ advised[r].day \in Nat
  <2>1. now \in Nat /\ h \in Nat /\ advised \in Seq(AdvisedRow)
    BY DEF ReportsInv, RowsHaveTypes
  <2>2. Day \in Nat
    BY <2>1 DEF Day
  <2>3. return \in Int /\ MaxGradeGap \in Nat
    BY ReportsAssumption
  <2>4. r \in Nat /\ advised[r] \in AdvisedRow
    BY <2>1
  <2>. QED BY <2>1, <2>2, <2>3, <2>4 DEF AdvisedRow
<1>3. row \in GradeRow /\ row.rec = r /\ row.horizon = h /\ row.end = end
  BY <1>2 DEF GradeRow
<1>4. Day' = Day
  BY <1>1 DEF Day
<1>. HIDE DEF row
<1>5. IsFiniteSet(horizonGrades')
  BY <1>1, OneMore DEF ReportsInv, RowsHaveTypes
<1>6. RowsHaveTypes'
  BY <1>1, <1>3, <1>4, <1>5 DEF ReportsInv, RowsHaveTypes
<1>7. DecisionsFollow'
  BY <1>1 DEF ReportsInv, DecisionsFollow
<1>8. /\ row.end >= advised[r].day + h - MaxGradeGap
      /\ row.end <= advised[r].day + h
  BY <1>1, <1>2, <1>3
<1>9. GradesMature'
  BY <1>1, <1>3, <1>8 DEF ReportsInv, GradesMature
<1>. QED BY <1>6, <1>7, <1>9 DEF ReportsInv

LEMMA FillReports ==
  ASSUME ReportsInv, NEW i \in DecisionIds, NEW t \in PlanOf(i), NEW x \in Executions, Fill(i, t, x)
  PROVE  ReportsInv'
<1>. DEFINE row == [decision |-> i, symbol |-> t.symbol, shares |-> x.shares,
                    timing |-> x.timing, amount |-> x.amount]
<1>1. fills' = Append(fills, row) /\ UNCHANGED <<now, horizons, advised, decided, horizonGrades, daily>>
  BY DEF Fill
<1>2. fills \in Seq(FillRow) /\ advised \in Seq(AdvisedRow) /\ decided \in Seq(DecidedRow)
  BY DEF ReportsInv, RowsHaveTypes
<1>3. row \in FillRow
  <2>1. i \in Nat /\ decided[i].rec \in DOMAIN advised
    BY <1>2 DEF DecisionIds, ReportsInv, DecisionsFollow
  <2>2. advised[decided[i].rec] \in AdvisedRow
    BY <1>2, <2>1
  <2>3. PlanOf(i) \in Plans
    BY <2>2 DEF PlanOf, AdvisedRow
  <2>4. t.symbol \in {u.symbol : u \in UNION Plans}
    BY <2>3
  <2>5. x.shares \in Nat \ {0} /\ x.timing \in Int /\ x.amount \in Nat
    BY ReportsAssumption
  <2>. QED BY <2>1, <2>4, <2>5 DEF FillRow
<1>4. Day' = Day
  BY <1>1 DEF Day
<1>. HIDE DEF row
<1>5. fills' \in Seq(FillRow)
  BY <1>1, <1>2, <1>3, AppendProperties
<1>6. RowsHaveTypes'
  BY <1>1, <1>4, <1>5 DEF ReportsInv, RowsHaveTypes
<1>. QED BY <1>1, <1>6 DEF ReportsInv, DecisionsFollow, GradesMature

LEMMA DailyReports ==
  ASSUME ReportsInv, NEW actual \in Returns, NEW model \in ModelReturns, DailyRows(actual, model)
  PROVE  ReportsInv'
<1>. DEFINE row == [actual |-> actual, model |-> model]
<1>1. /\ daily' = [d \in DOMAIN daily \union {Day} |-> IF d = Day THEN row ELSE daily[d]]
      /\ UNCHANGED <<now, horizons, advised, decided, horizonGrades, fills>>
  BY DEF DailyRows
<1>2. row.actual \in Int /\ row.model \in Int
  BY ReportsAssumption
<1>3. Day' = Day /\ Day \in Nat
  BY <1>1 DEF Day, ReportsInv, RowsHaveTypes
<1>. HIDE DEF row
<1>4. RowsHaveTypes'
  BY <1>1, <1>2, <1>3 DEF ReportsInv, RowsHaveTypes
<1>. QED BY <1>1, <1>4 DEF ReportsInv, DecisionsFollow, GradesMature

LEMMA ChangeReports ==
  ASSUME ReportsInv, NEW i \in DOMAIN HorizonSettings, ChangeHorizons(HorizonSettings[i])
  PROVE  ReportsInv'
<1>1. horizons' = HorizonSettings[i] /\ UNCHANGED <<now, advised, decided, horizonGrades, fills, daily>>
  BY DEF ChangeHorizons
<1>2. horizons' \subseteq Nat /\ Day' = Day
  BY <1>1, ReportsAssumption DEF Day
<1>. QED BY <1>1, <1>2 DEF ReportsInv, RowsHaveTypes, DecisionsFollow, GradesMature

LEMMA LaterReports ==
  ASSUME ReportsInv, HalfDay
  PROVE  ReportsInv'
<1>1. now' = now + 1 /\ UNCHANGED <<horizons, advised, decided, horizonGrades, fills, daily>>
  BY DEF HalfDay
<1>2. now \in Nat /\ now' \in Nat /\ Day \in Nat /\ Day' \in Nat /\ Day <= Day' /\ now <= now'
  BY <1>1 DEF ReportsInv, RowsHaveTypes, Day
<1>3. 0..Day \subseteq 0..Day'
  BY <1>2
<1>4. RowsHaveTypes'
  BY <1>1, <1>2, <1>3 DEF ReportsInv, RowsHaveTypes
<1>5. ASSUME NEW i \in DOMAIN decided PROVE decided[i].at <= now + 1
  <2>1. decided[i] \in DecidedRow /\ decided[i].at <= now
    BY <1>5 DEF ReportsInv, RowsHaveTypes, DecisionsFollow
  <2>. QED BY <1>2, <2>1 DEF DecidedRow
<1>6. DecisionsFollow'
  BY <1>1, <1>5 DEF ReportsInv, DecisionsFollow
<1>. QED BY <1>1, <1>4, <1>6 DEF ReportsInv, GradesMature

LEMMA NextReports ==
  ASSUME ReportsInv, [ReportsNext]_reportVars
  PROVE  ReportsInv'
<1>1. ASSUME NEW p \in Plans, Advise(p) PROVE ReportsInv'
  BY <1>1, AdviseReports
<1>2. ASSUME NEW r \in DOMAIN advised, NEW kind \in Decisions, Decide(r, kind) PROVE ReportsInv'
  BY <1>2, DecideReports
<1>3. ASSUME NEW r \in DOMAIN advised, Expire(r) PROVE ReportsInv'
  BY <1>3, DecideReports DEF Expire
<1>4. CASE HalfDay
  BY <1>4, LaterReports
<1>5. CASE FigureStep
  BY <1>5, GradeReports, DailyReports, ChangeReports DEF FigureStep
<1>6. CASE TradeStep
  BY <1>6, FillReports DEF TradeStep
<1>7. CASE UNCHANGED reportVars
  <2>1. UNCHANGED <<now, horizons, advised, decided, horizonGrades, fills, daily>>
    BY <1>7 DEF reportVars
  <2>. QED BY <2>1 DEF ReportsInv, RowsHaveTypes, DecisionsFollow, GradesMature, Day
<1>8. CASE DecisionStep
  BY <1>1, <1>2, <1>3, <1>4, <1>8 DEF DecisionStep
<1>. QED BY <1>5, <1>6, <1>7, <1>8 DEF ReportsNext

\* Of finitely many grades one has the longest horizon, and one the shortest.
LEMMA FarthestGrade ==
  ASSUME NEW S, IsFiniteSet(S), S \subseteq GradeRow, S # {}
  PROVE  /\ Largest(S) \in S /\ \A o \in S : o.horizon <= Largest(S).horizon
         /\ Smallest(S) \in S
<1>. DEFINE Has(T) == T = {} \/ \E g \in T : \A o \in T : o.horizon <= g.horizon
            G == {T \in SUBSET S : Has(T)}
<1>1. ASSUME NEW T \in SUBSET S, T \in G, NEW x \in S \ T PROVE T \union {x} \in G
  <2>1. T \union {x} \in SUBSET S /\ \A g \in T \union {x} : g.horizon \in Nat
    BY DEF GradeRow
  <2>2. CASE T = {}
    BY <2>1, <2>2
  <2>3. CASE T # {}
    <3>1. PICK g \in T : \A o \in T : o.horizon <= g.horizon
      BY <1>1, <2>3
    <3>2. CASE x.horizon <= g.horizon
      BY <2>1, <3>1, <3>2
    <3>3. CASE ~ (x.horizon <= g.horizon)
      <4>1. \A o \in T \union {x} : o.horizon <= x.horizon
        BY <2>1, <3>1, <3>3
      <4>. QED BY <2>1, <4>1
    <3>. QED BY <3>2, <3>3
  <2>. QED BY <2>2, <2>3
<1>2. {} \in G
  OBVIOUS
<1>. HIDE DEF G
<1>3. S \in G
  BY <1>1, <1>2, SetInduction
<1>4. \E g \in S : \A o \in S : o.horizon <= g.horizon
  BY <1>3 DEF G
<1>5. Largest(S) \in S /\ \A o \in S : o.horizon <= Largest(S).horizon
  BY <1>4 DEF Largest
<1>6. {g.horizon : g \in S} \in SUBSET Nat /\ {g.horizon : g \in S} # {}
  BY DEF GradeRow
<1>7. \E g \in S : \A o \in S : o.horizon >= g.horizon
  <2>1. PICK m \in {g.horizon : g \in S} : \A k \in {g.horizon : g \in S} : m <= k
    BY <1>6, LeastNumber
  <2>2. PICK g \in S : g.horizon = m
    BY <2>1
  <2>. QED BY <1>6, <2>1, <2>2
<1>8. Smallest(S) \in S
  BY <1>7 DEF Smallest
<1>. QED BY <1>5, <1>8

LEMMA GradesAreFinite ==
  ASSUME ReportsInv, NEW r, NEW T \in SUBSET GradesFor(r)
  PROVE  IsFiniteSet(T) /\ T \subseteq GradeRow
BY FS_Subset DEF ReportsInv, RowsHaveTypes, GradesFor

LEMMA OneNumber == ASSUME ReportsInv PROVE ScreensShowOneNumber
<1>. SUFFICES ASSUME NEW r, \A g \in GradesFor(r) : g.horizon <= PeriodDays /\ g.horizon \in horizons
              PROVE  /\ NearestGraded(r) = Headline(r)
                     /\ HorizonsApart(r) /\ Cardinality(LatestGraded(r)) = 1
                          => LatestGraded(r) = Headline(r)
                     /\ Headline(r) # {} <=> \E h \in horizons : Strip(r)[h] = "graded"
  BY DEF ScreensShowOneNumber
<1>. DEFINE S == GradesFor(r)
<1>1. /\ {g \in S : g.horizon <= PeriodDays} = S
      /\ {g \in S : g.horizon \in horizons} = S
  OBVIOUS
<1>2. Headline(r) = IF S = {} THEN {} ELSE {Largest(S)}
  BY <1>1 DEF Headline
<1>3. NearestGraded(r) = Headline(r)
  BY <1>1, <1>2 DEF NearestGraded
<1>4. IsFiniteSet(S) /\ S \subseteq GradeRow
  BY GradesAreFinite
<1>5. ASSUME HorizonsApart(r), Cardinality(LatestGraded(r)) = 1
      PROVE  LatestGraded(r) = Headline(r)
  <2>. DEFINE b == Largest(S)
  <2>1. LatestGraded(r) \subseteq S
    BY DEF LatestGraded
  <2>2. IsFiniteSet(LatestGraded(r))
    BY <1>4, <2>1, FS_Subset
  <2>3. PICK g : LatestGraded(r) = {g}
    BY <1>5, <2>2, FS_Singleton
  <2>4. g \in S /\ \A o \in S : o.end <= g.end
    BY <2>3 DEF LatestGraded
  <2>5. b \in S /\ \A o \in S : o.horizon <= b.horizon
    BY <1>4, <2>4, FarthestGrade
  <2>. HIDE DEF b
  <2>6. /\ g \in horizonGrades /\ b \in horizonGrades /\ g.rec = r /\ b.rec = r
        /\ g \in GradeRow /\ b \in GradeRow
    BY <1>4, <2>4, <2>5 DEF GradesFor
  <2>7. CASE g.horizon = b.horizon
    <3>1. g = b
      BY <2>6, <2>7 DEF ReportsInv, GradesMature
    <3>. QED BY <1>2, <2>3, <2>4, <3>1 DEF b
  <2>8. CASE g.horizon # b.horizon
    <3>1. g.horizon \in Nat /\ b.horizon \in Nat /\ g.end \in Int /\ b.end \in Int
      BY <2>6 DEF GradeRow
    <3>2. g.horizon + MaxGradeGap <= b.horizon
      BY <1>5, <2>4, <2>5, <2>8, <3>1 DEF HorizonsApart
    <3>3. /\ r \in DOMAIN advised /\ advised \in Seq(AdvisedRow)
          /\ b.end >= advised[r].day + b.horizon - MaxGradeGap
          /\ g.end <= advised[r].day + g.horizon
      BY <2>6 DEF ReportsInv, RowsHaveTypes, GradesMature
    <3>4. advised[r].day \in Nat /\ MaxGradeGap \in Nat
      <4>1. advised[r] \in AdvisedRow
        BY <3>3
      <4>. QED BY <4>1, ReportsAssumption DEF AdvisedRow
    <3>5. g.end <= b.end
      BY <3>1, <3>2, <3>3, <3>4
    <3>6. \A o \in S : o.end \in Int
      BY <1>4 DEF GradeRow
    <3>7. \A o \in S : o.end <= b.end
      BY <2>4, <3>1, <3>5, <3>6
    <3>8. b \in LatestGraded(r)
      BY <2>5, <3>7 DEF LatestGraded
    <3>. QED BY <2>3, <2>8, <3>8
  <2>. QED BY <2>7, <2>8
<1>6. Headline(r) # {} <=> \E h \in horizons : Strip(r)[h] = "graded"
  <2>1. \A h \in horizons : Strip(r)[h] = "graded" <=> \E g \in S : g.horizon = h
    BY DEF Strip
  <2>2. (\E h \in horizons : Strip(r)[h] = "graded") <=> \E g \in S : TRUE
    BY <2>1
  <2>. QED BY <1>2, <2>2
<1>. QED BY <1>3, <1>5, <1>6

-----------------------------------------------------------------------------
\* A half day belongs to a day; the window that counts half days is part of the
\* one that counts days, and lacks at most the first morning.
LEMMA HalfDays ==
  ASSUME NEW a \in Nat, NEW n \in Nat, NEW p \in Nat
  PROVE  /\ a \div 2 \in Nat /\ n \div 2 \in Nat
         /\ a >= n - 2 * p => a \div 2 >= (n \div 2) - p
         /\ (~ (a >= n - 2 * p) /\ a \div 2 >= (n \div 2) - p) => a \div 2 = (n \div 2) - p
OBVIOUS

LEMMA Windows ==
  ASSUME ReportsInv
  PROVE  /\ IsFiniteSet(DecisionIds) /\ InHours \subseteq InDays
         /\ \A i \in InDays \ InHours : DayOf(i) = Day - PeriodDays
<1>1. now \in Nat /\ decided \in Seq(DecidedRow) /\ PeriodDays \in Nat
  BY ReportsAssumption DEF ReportsInv, RowsHaveTypes
<1>2. DecisionIds = 1..Len(decided) /\ Len(decided) \in Nat
  BY <1>1 DEF DecisionIds
<1>3. IsFiniteSet(DecisionIds)
  BY <1>2, FS_Interval
<1>4. \A i \in DecisionIds : decided[i].at \in Nat
  <2>1. \A i \in DecisionIds : decided[i] \in DecidedRow
    BY <1>1, <1>2
  <2>. QED BY <2>1 DEF DecidedRow
<1>5. \A i \in DecisionIds :
        /\ decided[i].at >= now - 2 * PeriodDays => DayOf(i) >= Day - PeriodDays
        /\ (~ (decided[i].at >= now - 2 * PeriodDays) /\ DayOf(i) >= Day - PeriodDays)
             => DayOf(i) = Day - PeriodDays
  BY <1>1, <1>4, HalfDays DEF DayOf, Day
<1>. QED BY <1>3, <1>5 DEF InHours, InDays

LEMMA VerdictsDoAgree == ASSUME ReportsInv PROVE VerdictsAgree
<1>1. CASE DecisionCount = 0
  <2>1. IsFiniteSet(InHours)
    BY Windows, FS_Subset DEF InHours
  <2>2. InHours = {}
    BY <1>1, <2>1, FS_EmptySet DEF DecisionCount
  <2>. QED BY <1>1, <2>2, Windows DEF VerdictsAgree, TrustBranch
<1>2. CASE DecisionCount # 0
  BY <1>2 DEF VerdictsAgree, TrustBranch, ScorecardBranch, GapBranch
<1>. QED BY <1>1, <1>2

LEMMA ActualIsNumber ==
  ASSUME ReportsInv, NEW d, ActualSince(d) # Unknown
  PROVE  ActualSince(d) \in Int
<1>. DEFINE S == SinceDay(d)
            f == [e \in S |-> daily[e].actual]
<1>1. S \subseteq DOMAIN daily /\ S # {}
  BY DEF ActualSince, ActualOf, SinceDay
<1>2. now \in Nat /\ DOMAIN daily \subseteq 0..Day
  BY DEF ReportsInv, RowsHaveTypes
<1>3. IsFiniteSet(0..Day)
  BY <1>2, FS_Interval DEF Day
<1>4. IsFiniteSet(S)
  BY <1>1, <1>2, <1>3, FS_Subset
<1>5. \A e \in S : f[e] \in Int
  BY <1>1 DEF ReportsInv, RowsHaveTypes
<1>6. SumFunctionOnSet(f, S) \in Int
  BY <1>4, <1>5, SumType
<1>7. ActualSince(d) = SumFunctionOnSet(f, S)
  BY <1>1 DEF ActualSince, ActualOf, Total
<1>. QED BY <1>6, <1>7

LEMMA PricedFigures ==
  ASSUME ReportsInv, NEW i \in DecisionIds, Priced(i)
  PROVE  CostDelta(i) \in Int /\ BoardDelta(i) \in Int /\ CostDelta(i) = (-1) * BoardDelta(i)
<1>. DEFINE r == decided[i].rec
            S == GradesFor(r)
            within == {g \in S : g.horizon <= PeriodDays}
<1>1. NearestGraded(r) # {} /\ ActualSince(DayOf(i)) # Unknown
  BY DEF Priced
<1>2. S # {} /\ NearestGraded(r) = IF within # {} THEN {Largest(within)} ELSE {Smallest(S)}
  BY <1>1 DEF NearestGraded
<1>3. IsFiniteSet(S) /\ S \subseteq GradeRow /\ IsFiniteSet(within) /\ within \subseteq GradeRow
  BY GradesAreFinite
<1>4. NearestGraded(r) \subseteq GradeRow
  BY <1>2, <1>3, FarthestGrade
<1>5. Advice(i) \in Int
  BY <1>1, <1>4 DEF Advice, GradeRow
<1>6. ActualSince(DayOf(i)) \in Int
  BY <1>1, ActualIsNumber
<1>. QED BY <1>5, <1>6 DEF CostDelta, BoardDelta

LEMMA CostDoesMirrorBoard == ASSUME ReportsInv PROVE CostMirrorsBoard
<1>. DEFINE D == {i \in OnBoard \cap OnCost : Priced(i)}
            I == {i \in OnCost : Priced(i) /\ decided[i].kind = "EXPIRED"}
            P == {i \in OnCost : Priced(i)}
            f == [i \in P |-> CostDelta(i)]
            fI == [i \in I |-> CostDelta(i)]
            fD == [i \in D |-> BoardDelta(i)]
<1>1. P = D \union I /\ D \intersect I = {}
  BY Windows DEF OnBoard, OnCost
<1>2. IsFiniteSet(D) /\ IsFiniteSet(I) /\ P \subseteq DecisionIds
  BY Windows, FS_Subset DEF OnBoard, OnCost, InHours, InDays
<1>3. \A i \in P : CostDelta(i) \in Int /\ BoardDelta(i) \in Int /\ CostDelta(i) = (-1) * BoardDelta(i)
  BY <1>2, PricedFigures
<1>4. /\ \A i \in D \union I : f[i] \in Int
      /\ \A i \in I : f[i] = fI[i]
      /\ \A i \in D : fD[i] \in Int /\ f[i] = (-1) * fD[i]
  BY <1>1, <1>3
<1>5. NetCost = SumFunctionOnSet(f, P)
  BY DEF NetCost, Total
<1>6. Total(I, CostDelta) = SumFunctionOnSet(fI, I) /\ Total(D, BoardDelta) = SumFunctionOnSet(fD, D)
  BY DEF Total
<1>. HIDE DEF f, fI, fD, D, I, P
<1>7. SumFunctionOnSet(f, P) = SumFunctionOnSet(f, D) + SumFunctionOnSet(f, I)
  BY <1>1, <1>2, <1>4, SumOfUnion
<1>8. SumFunctionOnSet(f, I) = SumFunctionOnSet(fI, I)
  BY <1>2, <1>4, SumExtends
<1>9. SumFunctionOnSet(f, D) = (-1) * SumFunctionOnSet(fD, D)
  BY <1>2, <1>4, SumOfTimes
<1>10. SumFunctionOnSet(fD, D) \in Int /\ SumFunctionOnSet(fI, I) \in Int
  <2>1. \A i \in I : fI[i] \in Int
    BY <1>4
  <2>. QED BY <1>2, <1>4, <2>1, SumType
<1>11. NetCost = Total(I, CostDelta) - Total(D, BoardDelta)
  BY <1>5, <1>6, <1>7, <1>8, <1>9, <1>10
<1>12. \A i \in OnBoard \ OnCost : Diverged(i) => DayOf(i) = Day - PeriodDays
  BY Windows DEF OnBoard, OnCost
<1>. QED BY <1>11, <1>12 DEF CostMirrorsBoard, D, I

-----------------------------------------------------------------------------
\* Marks.

LEMMA Quotient ==
  ASSUME NEW x \in Int, NEW n \in Nat \ {0}
  PROVE  /\ x \div n \in Int
         /\ x <= 100 * n => x \div n <= 100
         /\ x \div n = 100 => x >= 100 * n
         /\ x \div n < 100 <=> x < 100 * n
<1>. DEFINE q == x \div n
<1>1. q \in Int /\ n * q <= x /\ x < n * q + n
  OBVIOUS
<1>. HIDE DEF q
<1>2. ASSUME q >= 101 PROVE n * q >= 101 * n
  <2>1. q - 101 \in Nat
    BY <1>1, <1>2
  <2>2. n * (q - 101) >= 0
    BY <2>1
  <2>3. n * (q - 101) = n * q - n * 101
    BY <1>1
  <2>. QED BY <1>1, <2>2, <2>3
<1>3. ASSUME q <= 99 PROVE n * q + n <= 100 * n
  <2>1. 99 - q \in Nat
    BY <1>1, <1>3
  <2>2. n * (99 - q) >= 0
    BY <2>1
  <2>3. n * (99 - q) = n * 99 - n * q
    BY <1>1
  <2>. QED BY <1>1, <2>2, <2>3
<1>4. ASSUME q >= 100 PROVE n * q >= 100 * n
  <2>1. q - 100 \in Nat
    BY <1>1, <1>4
  <2>2. n * (q - 100) >= 0
    BY <2>1
  <2>3. n * (q - 100) = n * q - n * 100
    BY <1>1
  <2>. QED BY <1>1, <2>2, <2>3
<1>5. x <= 100 * n => q <= 100
  BY <1>1, <1>2
<1>6. q = 100 => x >= 100 * n
  BY <1>1, <1>4
<1>7. q < 100 <=> x < 100 * n
  BY <1>1, <1>3, <1>4
<1>. QED BY <1>1, <1>5, <1>6, <1>7 DEF q

LEMMA SumOfNothing ==
  ASSUME NEW S, IsFiniteSet(S), NEW f, \A x \in S : f[x] = 0
  PROVE  SumFunctionOnSet(f, S) = 0
<1>1. \A x \in S : f[x] \in Int /\ f[x] = 0 * f[x]
  OBVIOUS
<1>. DEFINE k == 0
<1>2. k \in Int /\ \A x \in S : f[x] \in Int /\ f[x] = k * f[x]
  BY <1>1
<1>. HIDE DEF k
<1>3. SumFunctionOnSet(f, S) = k * SumFunctionOnSet(f, S)
  BY <1>2, SumOfTimes
<1>4. SumFunctionOnSet(f, S) \in Int
  BY <1>1, SumType
<1>. QED BY <1>3, <1>4 DEF k

\* The mean of marks of at most a hundred is a hundred only when all of them are.
LEMMA MeanOfMarks ==
  ASSUME NEW S, IsFiniteSet(S), S # {}, NEW f,
         \A x \in S : f[x] \in Int /\ f[x] <= 100,
         SumFunctionOnSet(f, S) \div Cardinality(S) = 100
  PROVE  \A x \in S : f[x] = 100
<1>. SUFFICES ASSUME NEW x \in S, f[x] < 100 PROVE FALSE
  OBVIOUS
<1>. DEFINE R == S \ {x}
            zero == [y \in R |-> 0]
<1>1. /\ IsFiniteSet(R) /\ Cardinality(R) \in Nat /\ Cardinality(S) = Cardinality(R) + 1
      /\ R \union {x} = S /\ x \notin R
  <2>1. IsFiniteSet(R) /\ Cardinality(R) = Cardinality(S) - 1
    BY FS_RemoveElement
  <2>2. Cardinality(R) \in Nat /\ Cardinality(S) \in Nat
    BY <2>1, FS_CardinalityType
  <2>. QED BY <2>1, <2>2
<1>2. \A y \in R : zero[y] \in Int /\ f[y] \in Int /\ f[y] <= zero[y] + 100
  OBVIOUS
<1>3. SumFunctionOnSet(zero, R) = 0
  BY <1>1, SumOfNothing
<1>. HIDE DEF R, zero
<1>4. SumFunctionOnSet(f, R) <= 0 + 100 * Cardinality(R)
  BY <1>1, <1>2, <1>3, SumGrowsAtMost
<1>5. SumFunctionOnSet(f, S) = SumFunctionOnSet(f, R) + f[x]
  <2>1. \A y \in R \union {x} : f[y] \in Int
    BY <1>1
  <2>. QED BY <1>1, <2>1, SumInsert
<1>6. SumFunctionOnSet(f, R) \in Int
  BY <1>1, <1>2, SumType
<1>7. SumFunctionOnSet(f, S) \in Int /\ SumFunctionOnSet(f, S) < 100 * Cardinality(S)
  BY <1>1, <1>4, <1>5, <1>6
<1>8. Cardinality(S) \in Nat \ {0}
  BY <1>1
<1>. QED BY <1>7, <1>8, Quotient

LEMMA NothingAdded ==
  ASSUME NEW S, IsFiniteSet(S), NEW f, \A x \in S : f[x] \in Nat, SumFunctionOnSet(f, S) <= 0
  PROVE  \A x \in S : f[x] = 0
<1>. SUFFICES ASSUME NEW x \in S PROVE f[x] = 0
  OBVIOUS
<1>1. SumFunctionOnSet(f, {x}) = f[x] /\ {x} \subseteq S
  BY SumOfOne
<1>2. SumFunctionOnSet(f, {x}) <= SumFunctionOnSet(f, S) /\ SumFunctionOnSet(f, S) \in Nat
  BY <1>1, SumOfPart, SumIsNatural
<1>. QED BY <1>1, <1>2

LEMMA RatedMarks ==
  ASSUME NEW p \in Nat, NEW n \in Nat \ {0}
  PROVE  Rated(p, n) \in Int /\ Rated(p, n) <= 100 /\ (Rated(p, n) = 100 => p = 0)
<1>. DEFINE x == 100 * n - p
<1>1. x \in Int /\ x <= 100 * n
  OBVIOUS
<1>2. x \div n \in Int /\ x \div n <= 100 /\ (x \div n = 100 => x >= 100 * n)
  BY <1>1, Quotient
<1>3. Rated(p, n) = IF x < 0 THEN 0 ELSE x \div n
  BY DEF Rated
<1>. HIDE DEF x
<1>4. Rated(p, n) \in Int /\ Rated(p, n) <= 100 /\ (Rated(p, n) = 100 => x >= 100 * n)
  BY <1>2, <1>3
<1>. QED BY <1>1, <1>4 DEF x

LEMMA ShareMarks ==
  ASSUME NEW S, IsFiniteSet(S), S # {}, NEW T \in SUBSET S
  PROVE  /\ (100 * Cardinality(T)) \div Cardinality(S) \in Int
         /\ (100 * Cardinality(T)) \div Cardinality(S) <= 100
         /\ (100 * Cardinality(T)) \div Cardinality(S) = 100 => T = S
<1>1. /\ IsFiniteSet(T) /\ Cardinality(T) \in Nat /\ Cardinality(S) \in Nat
      /\ Cardinality(T) <= Cardinality(S)
      /\ Cardinality(T) = Cardinality(S) => T = S
  BY FS_Subset, FS_CardinalityType
<1>2. Cardinality(S) # 0
  BY FS_EmptySet
<1>. DEFINE t == Cardinality(T)
            s == Cardinality(S)
<1>3. t \in Nat /\ s \in Nat \ {0} /\ 100 * t \in Int /\ 100 * t <= 100 * s
  BY <1>1, <1>2
<1>4. /\ (100 * t) \div s \in Int /\ (100 * t) \div s <= 100
      /\ (100 * t) \div s = 100 => 100 * t >= 100 * s
  BY <1>3, Quotient
<1>5. 100 * t >= 100 * s => t = s
  BY <1>1, <1>3
<1>. QED BY <1>1, <1>4, <1>5

LEMMA ExecutionsAreFinite ==
  ASSUME ReportsInv, NEW i \in DecisionIds
  PROVE  /\ IsFiniteSet(Offered(i)) /\ Filled(i) \subseteq Offered(i)
         /\ IsFiniteSet(Timed(i)) /\ Timed(i) \subseteq Filled(i)
         /\ IsFiniteSet(Sized(i)) /\ Sized(i) \subseteq Filled(i)
<1>1. decided[i].rec \in DOMAIN advised /\ advised \in Seq(AdvisedRow)
  BY DEF ReportsInv, RowsHaveTypes, DecisionsFollow, DecisionIds
<1>2. advised[decided[i].rec] \in AdvisedRow
  BY <1>1
<1>3. IsFiniteSet(PlanOf(i))
  BY <1>2, ReportsAssumption DEF PlanOf, AdvisedRow
<1>4. IsFiniteSet(Offered(i)) /\ Filled(i) \subseteq Offered(i)
  BY <1>3, FS_Subset DEF Offered, Filled
<1>5. IsFiniteSet(Filled(i))
  BY <1>4, FS_Subset
<1>6. Timed(i) \subseteq Filled(i) /\ Sized(i) \subseteq Filled(i)
  BY DEF Timed, Sized
<1>. QED BY <1>4, <1>5, <1>6, FS_Subset

\* A rounded quotient is zero only for what is at most half the divisor.
LEMMA RoundedToNothing ==
  ASSUME NEW n \in Int, NEW d \in Nat \ {0}
  PROVE  Rounded(n, d) \in Int /\ (Rounded(n, d) = 0 => 2 * Size(n) <= d)
<1>. DEFINE x == 2 * n + d
            e == 2 * d
            q == x \div e
<1>1. x \in Int /\ e \in Nat \ {0}
  OBVIOUS
<1>. HIDE DEF x, e
<1>2. q \in Int /\ e * q <= x /\ x < e * q + e
  BY <1>1
<1>3. Rounded(n, d) = q
  BY DEF Rounded, x, e
<1>. HIDE DEF q
<1>4. ASSUME q = 0 PROVE 0 <= x /\ x < e
  BY <1>1, <1>2, <1>4
<1>. QED BY <1>2, <1>3, <1>4 DEF x, e, Size

\* The shares traded of a symbol, and what they were off the price, are whole numbers.
LEMMA SlippedIsWhole ==
  ASSUME ReportsInv, NEW i \in DecisionIds, NEW t \in Filled(i)
  PROVE  /\ Shares(i, t) \in Nat \ {0} /\ Slipped(i, t) \in Int
         /\ TimingDelta(i, t) \in Int /\ SizeDelta(i, t) \in Int
         /\ SizeDelta(i, t) = 0 => Total(FillsFor(i, t), LAMBDA n : fills[n].amount) = 100
<1>. DEFINE S == FillsFor(i, t)
            shares == [n \in S |-> fills[n].shares]
            slips == [n \in S |-> fills[n].shares * fills[n].timing]
            amounts == [n \in S |-> fills[n].amount]
<1>1. fills \in Seq(FillRow) /\ S \subseteq DOMAIN fills
  BY DEF ReportsInv, RowsHaveTypes, FillsFor, FillsOf
<1>2. IsFiniteSet(S)
  <2>1. IsFiniteSet(DOMAIN fills)
    BY <1>1, FS_Interval
  <2>. QED BY <1>1, <2>1, FS_Subset
<1>3. \A n \in S : fills[n].shares \in Nat \ {0} /\ fills[n].timing \in Int /\ fills[n].amount \in Nat
  <2>. HIDE DEF S
  <2>1. \A n \in S : fills[n] \in FillRow
    BY <1>1
  <2>. QED BY <2>1 DEF FillRow
<1>4. \A n \in S : /\ shares[n] \in Nat /\ shares[n] # 0
                   /\ slips[n] \in Int /\ amounts[n] \in Int
  BY <1>3
<1>5. S # {}
  BY DEF Filled
<1>6. /\ Shares(i, t) = SumFunctionOnSet(shares, S)
      /\ Slipped(i, t) = SumFunctionOnSet(slips, S)
      /\ Total(S, LAMBDA n : fills[n].amount) = SumFunctionOnSet(amounts, S)
  BY DEF Shares, Slipped, Total
<1>. HIDE DEF S, shares, slips, amounts
<1>7. Shares(i, t) \in Nat
  BY <1>2, <1>4, <1>6, SumIsNatural
<1>8. Shares(i, t) # 0
  BY <1>2, <1>4, <1>5, <1>6, <1>7, NothingAdded
<1>9. Slipped(i, t) \in Int
  BY <1>2, <1>4, <1>6, SumType
<1>10. Total(S, LAMBDA n : fills[n].amount) \in Int
  BY <1>2, <1>4, <1>6, SumType
<1>11. TimingDelta(i, t) \in Int
  BY <1>7, <1>8, <1>9, RoundedToNothing DEF TimingDelta
<1>12. SizeDelta(i, t) = Total(S, LAMBDA n : fills[n].amount) - 100
  BY DEF SizeDelta, S
<1>. QED BY <1>7, <1>8, <1>9, <1>10, <1>11, <1>12 DEF S

\* What is rated of the fills that match the plan.
LEMMA DeltasAreRated ==
  ASSUME NEW M, IsFiniteSet(M), M # {}, NEW Delta, \A t \in M : Delta[t] \in Int, NEW k \in Nat \ {0}
  PROVE  LET deltas == [t \in M |-> Size(Delta[t])]
             r == Rated(k * SumFunctionOnSet(deltas, M), Cardinality(M))
         IN  r \in Int /\ r <= 100 /\ (r = 100 => \A t \in M : Delta[t] = 0)
<1>. DEFINE deltas == [t \in M |-> Size(Delta[t])]
            n == Cardinality(M)
            T == SumFunctionOnSet(deltas, M)
<1>1. /\ \A t \in M : deltas[t] \in Nat
      /\ \A t \in M : deltas[t] = 0 => Delta[t] = 0
  BY DEF Size
<1>2. n \in Nat \ {0}
  <2>1. n \in Nat /\ n # 0
    BY FS_CardinalityType, FS_EmptySet
  <2>. QED BY <2>1
<1>. HIDE DEF deltas, n
<1>3. T \in Nat
  BY <1>1, SumIsNatural
<1>4. T = 0 => \A t \in M : deltas[t] = 0
  BY <1>1, NothingAdded
<1>. HIDE DEF T
<1>5. k * T \in Nat /\ (k * T = 0 => T = 0)
  BY <1>3
<1>6. Rated(k * T, n) \in Int /\ Rated(k * T, n) <= 100 /\ (Rated(k * T, n) = 100 => k * T = 0)
  BY <1>2, <1>5, RatedMarks
<1>7. Rated(k * T, n) = 100 => \A t \in M : Delta[t] = 0
  BY <1>1, <1>4, <1>5, <1>6
<1>. QED BY <1>6, <1>7 DEF T, n, deltas

\* What is rated of the trades that match the plan.
LEMMA FillsAreRated ==
  ASSUME ReportsInv, NEW i \in DecisionIds
  PROVE  LET late == Rated(5 * Total(Timed(i), LAMBDA t : Size(TimingDelta(i, t))), Cardinality(Timed(i)))
             off == Rated(Total(Sized(i), LAMBDA t : Size(SizeDelta(i, t))), Cardinality(Sized(i)))
         IN  /\ Timed(i) # {} =>
                  late \in Int /\ late <= 100 /\ (late = 100 => \A t \in Timed(i) : TimingDelta(i, t) = 0)
             /\ Sized(i) # {} =>
                  off \in Int /\ off <= 100 /\ (off = 100 => \A t \in Sized(i) : SizeDelta(i, t) = 0)
<1>. DEFINE T == Timed(i)
            Z == Sized(i)
            times == [t \in T |-> TimingDelta(i, t)]
            sizes == [t \in Z |-> SizeDelta(i, t)]
            late == Rated(5 * Total(T, LAMBDA t : Size(TimingDelta(i, t))), Cardinality(T))
            off == Rated(Total(Z, LAMBDA t : Size(SizeDelta(i, t))), Cardinality(Z))
            timing == [t \in T |-> Size(times[t])]
            sizing == [t \in Z |-> Size(sizes[t])]
<1>1. IsFiniteSet(T) /\ IsFiniteSet(Z) /\ T \subseteq Filled(i) /\ Z \subseteq Filled(i)
  BY ExecutionsAreFinite
<1>2. (\A t \in T : times[t] \in Int) /\ (\A t \in Z : sizes[t] \in Int)
  BY <1>1, SlippedIsWhole
<1>3. timing = [t \in T |-> Size(TimingDelta(i, t))] /\ sizing = [t \in Z |-> Size(SizeDelta(i, t))]
  OBVIOUS
<1>4. /\ Total(T, LAMBDA t : Size(TimingDelta(i, t))) = SumFunctionOnSet(timing, T)
      /\ Total(Z, LAMBDA t : Size(SizeDelta(i, t))) = SumFunctionOnSet(sizing, Z)
  BY <1>3 DEF Total
<1>. HIDE DEF T, Z
<1>5. /\ \A t \in T : times[t] = TimingDelta(i, t)
      /\ \A t \in Z : sizes[t] = SizeDelta(i, t)
  OBVIOUS
<1>6. late = Rated(5 * SumFunctionOnSet(timing, T), Cardinality(T))
  BY <1>4
<1>. HIDE DEF times, sizes
<1>7. ASSUME T # {}
      PROVE  late \in Int /\ late <= 100 /\ (late = 100 => \A t \in T : times[t] = 0)
  <2>1. 5 \in Nat \ {0}
    OBVIOUS
  <2>2. LET r == Rated(5 * SumFunctionOnSet(timing, T), Cardinality(T))
        IN  r \in Int /\ r <= 100 /\ (r = 100 => \A t \in T : times[t] = 0)
    BY <1>1, <1>2, <1>7, <2>1, DeltasAreRated
  <2>. QED BY <1>6, <2>2
<1>8. ASSUME Z # {}
      PROVE  off \in Int /\ off <= 100 /\ (off = 100 => \A t \in Z : sizes[t] = 0)
  <2>1. 1 \in Nat \ {0} /\ SumFunctionOnSet(sizing, Z) \in Nat
    <3>1. \A t \in Z : sizing[t] \in Nat
      BY <1>2 DEF Size
    <3>. HIDE DEF sizing
    <3>. QED BY <1>1, <3>1, SumIsNatural
  <2>2. LET r == Rated(1 * SumFunctionOnSet(sizing, Z), Cardinality(Z))
        IN  r \in Int /\ r <= 100 /\ (r = 100 => \A t \in Z : sizes[t] = 0)
    BY <1>1, <1>2, <1>8, <2>1, DeltasAreRated
  <2>. HIDE DEF sizing
  <2>3. 1 * SumFunctionOnSet(sizing, Z) = Total(Z, LAMBDA t : Size(SizeDelta(i, t)))
    BY <1>4, <2>1
  <2>. QED BY <2>2, <2>3
<1>. HIDE DEF late, off
<1>. QED BY <1>5, <1>7, <1>8 DEF T, Z, late, off

LEMMA FullMarks == ASSUME ReportsInv PROVE FullMarksMeanAsPlanned
<1>. SUFFICES ASSUME NEW i \in DecisionIds, ExecutionScore(i) = 100
              PROVE  /\ Filled(i) = Offered(i)
                     /\ \A t \in Offered(i) :
                          /\ t.sized => Total(FillsFor(i, t), LAMBDA n : fills[n].amount) = 100
                          /\ t.priced => 2 * Size(Slipped(i, t)) <= Shares(i, t)
  BY DEF FullMarksMeanAsPlanned
<1>. DEFINE late == Rated(5 * Total(Timed(i), LAMBDA t : Size(TimingDelta(i, t))), Cardinality(Timed(i)))
            off == Rated(Total(Sized(i), LAMBDA t : Size(SizeDelta(i, t))), Cardinality(Sized(i)))
            paid == (100 * Cardinality(Funders(Filled(i)))) \div Cardinality(Funders(Offered(i)))
            done == CompletenessPct(i)
            ofTimes == IF Timed(i) = {} THEN {} ELSE {<<"timing", late>>}
            ofSizes == IF Sized(i) = {} THEN {} ELSE {<<"size", off>>}
            ofFunds == IF Funders(Offered(i)) = {} THEN {} ELSE {<<"funding", paid>>}
            C == Components(i)
            marks == [c \in C |-> c[2]]
<1>1. C = ofTimes \union ofSizes \union ofFunds \union {<<"completeness", done>>}
  BY DEF Components
<1>2. /\ IsFiniteSet(Offered(i)) /\ Filled(i) \subseteq Offered(i)
      /\ Timed(i) \subseteq Filled(i) /\ Sized(i) \subseteq Filled(i)
  BY ExecutionsAreFinite
<1>3. done \in Int /\ done <= 100 /\ (done = 100 => Filled(i) = Offered(i))
  <2>1. CASE Offered(i) = {}
    BY <1>2, <2>1 DEF CompletenessPct
  <2>2. CASE Offered(i) # {}
    BY <1>2, <2>2, ShareMarks DEF CompletenessPct
  <2>. QED BY <2>1, <2>2
<1>4. ASSUME Funders(Offered(i)) # {} PROVE paid \in Int /\ paid <= 100
  <2>1. IsFiniteSet(Funders(Offered(i))) /\ Funders(Filled(i)) \subseteq Funders(Offered(i))
    BY <1>2, FS_Subset DEF Funders
  <2>. QED BY <1>4, <2>1, ShareMarks
<1>5. ASSUME Timed(i) # {}
      PROVE  late \in Int /\ late <= 100 /\ (late = 100 => \A t \in Timed(i) : TimingDelta(i, t) = 0)
  BY <1>5, FillsAreRated
<1>6. ASSUME Sized(i) # {}
      PROVE  off \in Int /\ off <= 100 /\ (off = 100 => \A t \in Sized(i) : SizeDelta(i, t) = 0)
  BY <1>6, FillsAreRated
<1>7. FillsOf(i) # {} /\ Total(C, LAMBDA c : c[2]) \div Cardinality(C) = 100
  BY DEF ExecutionScore, Unknown
<1>8. Total(C, LAMBDA c : c[2]) = SumFunctionOnSet(marks, C)
  BY DEF Total
<1>. HIDE DEF late, off, paid, done, C
<1>9. IsFiniteSet(C) /\ C # {}
  <2>1. /\ IsFiniteSet({}) /\ IsFiniteSet({<<"timing", late>>}) /\ IsFiniteSet({<<"size", off>>})
        /\ IsFiniteSet({<<"funding", paid>>}) /\ IsFiniteSet({<<"completeness", done>>})
    BY FS_EmptySet, FS_Singleton
  <2>2. IsFiniteSet(ofTimes) /\ IsFiniteSet(ofSizes) /\ IsFiniteSet(ofFunds)
    BY <2>1
  <2>3. IsFiniteSet(ofTimes \union ofSizes \union ofFunds)
    BY <2>2, FS_Union
  <2>. QED BY <1>1, <2>3, OneMore
<1>10. \A c \in C : c[2] \in Int /\ c[2] <= 100
  <2>1. ASSUME NEW c \in ofTimes PROVE c[2] \in Int /\ c[2] <= 100
    BY <1>5, <2>1
  <2>4. ASSUME NEW c \in ofSizes PROVE c[2] \in Int /\ c[2] <= 100
    BY <1>6, <2>4
  <2>2. ASSUME NEW c \in ofFunds PROVE c[2] \in Int /\ c[2] <= 100
    BY <1>4, <2>2
  <2>3. ASSUME NEW c \in {<<"completeness", done>>} PROVE c[2] \in Int /\ c[2] <= 100
    BY <1>3, <2>3
  <2>. QED BY <1>1, <2>1, <2>2, <2>3, <2>4
<1>11. \A c \in C : marks[c] \in Int /\ marks[c] <= 100
  BY <1>10
<1>. HIDE DEF marks
<1>12. \A c \in C : marks[c] = 100
  BY <1>7, <1>8, <1>9, <1>11, MeanOfMarks
<1>13. \A c \in C : c[2] = 100
  BY <1>12 DEF marks
<1>14. done = 100
  <2>1. <<"completeness", done>> \in C
    BY <1>1
  <2>. QED BY <1>13, <2>1
<1>15. (Timed(i) # {} => late = 100) /\ (Sized(i) # {} => off = 100)
  <2>1. /\ Timed(i) # {} => <<"timing", late>> \in C
        /\ Sized(i) # {} => <<"size", off>> \in C
    BY <1>1
  <2>. QED BY <1>13, <2>1
<1>16. Filled(i) = Offered(i)
  BY <1>3, <1>14
<1>17. ASSUME NEW t \in Offered(i), t.sized
       PROVE  Total(FillsFor(i, t), LAMBDA n : fills[n].amount) = 100
  <2>1. t \in Filled(i) /\ t \in Sized(i)
    BY <1>16, <1>17 DEF Sized
  <2>2. SizeDelta(i, t) = 0
    BY <1>6, <1>15, <2>1
  <2>. QED BY <2>1, <2>2, SlippedIsWhole
<1>18. ASSUME NEW t \in Offered(i), t.priced
       PROVE  2 * Size(Slipped(i, t)) <= Shares(i, t)
  <2>1. t \in Filled(i) /\ t \in Timed(i)
    BY <1>16, <1>18 DEF Timed
  <2>2. TimingDelta(i, t) = 0
    BY <1>5, <1>15, <2>1
  <2>3. Shares(i, t) \in Nat \ {0} /\ Slipped(i, t) \in Int
    BY <2>1, SlippedIsWhole
  <2>. QED BY <2>2, <2>3, RoundedToNothing DEF TimingDelta
<1>. QED BY <1>16, <1>17, <1>18

\* The screens that are computed apart tell one story, for every plan, setting and
\* course of events: one number for the advice, two sides of one account, one verdict,
\* and full marks only for what was done as planned.
THEOREM ScreensAlwaysAgree == ReportsSpec => []ScreensAgree
<1>1. ReportsInit => ReportsInv
  BY InitReports
<1>2. ReportsInv /\ [ReportsNext]_reportVars => ReportsInv'
  BY NextReports
<1>3. ReportsInv => ScreensAgree
  BY OneNumber, CostDoesMirrorBoard, VerdictsDoAgree, FullMarks DEF ScreensAgree
<1>. QED BY <1>1, <1>2, <1>3, PTL DEF ReportsSpec

-----------------------------------------------------------------------------
(* The return of the portfolio itself.                                     *)

DaysFit == currentDay \in Nat /\ DOMAIN snapshots \subseteq 0..currentDay

LEMMA ExtremesOfDays ==
  ASSUME NEW n \in Nat, NEW S, S \subseteq 0..n, S # {}
  PROVE  /\ Min(S) \in S /\ \A k \in S : Min(S) <= k
         /\ Max(S) \in S /\ \A k \in S : k <= Max(S)
<1>1. S \in SUBSET Nat /\ S \in SUBSET (0..n)
  OBVIOUS
<1>2. Min(S) \in S /\ \A k \in S : Min(S) <= k
  BY <1>1, MinOfNumbers
<1>3. Max(S) \in S /\ \A k \in S : Max(S) >= k
  BY <1>1, MaxOfNumbers
<1>. QED BY <1>1, <1>2, <1>3

\* The index ends with the last snapshot, and begins with the one before its first.
LEMMA IndexIsChained ==
  ASSUME DaysFit
  PROVE  ChartMatchesCard
<1>. DEFINE days == DOMAIN snapshots
            window == From(days, PeriodStart)
            early == Before(days, Min(window))
            moved == {d \in window : Before(days, d) # {}}
            first == Max(Before(days, Min(moved)))
            base == IF early = {} THEN Min(window) ELSE Max(early)
<1>. SUFFICES ASSUME moved # {}
              PROVE  Same(ActualLine[Max(moved)], ActualReturn)
  BY DEF ChartMatchesCard, ActualIndex
<1>1. /\ currentDay \in Nat /\ window \subseteq days /\ days \subseteq 0..currentDay /\ moved \subseteq window
      /\ window \subseteq 0..currentDay /\ moved \subseteq 0..currentDay /\ window # {}
  BY DEF DaysFit, From
<1>2. /\ Min(window) \in window /\ \A k \in window : Min(window) <= k
      /\ Max(window) \in window /\ \A k \in window : k <= Max(window)
      /\ Min(moved) \in moved /\ \A k \in moved : Min(moved) <= k
      /\ Max(moved) \in moved /\ \A k \in moved : k <= Max(moved)
  <2>. HIDE DEF window, moved
  <2>. QED BY <1>1, ExtremesOfDays
<1>3. \A d : Before(days, d) = {e \in days : e < d}
  BY DEF Before
<1>4. \A d \in days : d \in window \/ \A k \in window : d < k
  <2>1. PeriodStart \in Int \/ PeriodStart \notin Int
    OBVIOUS
  <2>2. PeriodStart \in Int
    BY <1>1, ComparisonAssumption DEF PeriodStart
  <2>. QED BY <1>1, <2>2 DEF From
<1>5. Max(moved) = Max(window)
  <2>1. Max(window) \in moved
    <3>1. PICK e \in days : e < Max(moved)
      BY <1>2, <1>3
    <3>2. Max(moved) <= Max(window)
      BY <1>1, <1>2
    <3>3. e \in Before(days, Max(window))
      BY <1>1, <1>2, <1>3, <3>1, <3>2
    <3>. QED BY <1>2, <3>3
  <2>2. Max(moved) <= Max(window) /\ Max(window) <= Max(moved)
    BY <1>1, <1>2, <2>1
  <2>3. Max(moved) \in Nat /\ Max(window) \in Nat
    BY <1>1, <1>2
  <2>. HIDE DEF moved, window
  <2>. QED BY <2>2, <2>3
<1>6. first = base /\ ~(early = {} /\ Cardinality(window) = 1)
  <2>1. CASE early # {}
    <3>1. Min(window) \in moved
      BY <1>2, <2>1
    <3>2. Min(moved) = Min(window)
      <4>1. Min(moved) <= Min(window) /\ Min(window) <= Min(moved)
        BY <1>1, <1>2, <3>1
      <4>2. Min(moved) \in Nat /\ Min(window) \in Nat
        BY <1>1, <1>2
      <4>. QED BY <4>1, <4>2
    <3>. QED BY <2>1, <3>2
  <2>2. CASE early = {}
    <3>1. Min(window) \notin moved
      BY <2>2
    <3>2. Min(window) < Min(moved) /\ Min(moved) \in window /\ Min(moved) # Min(window)
      BY <1>1, <1>2, <3>1
    <3>3. Min(window) \in Before(days, Min(moved))
      BY <1>1, <1>2, <1>3, <3>2
    <3>4. ASSUME NEW e \in Before(days, Min(moved)) PROVE e = Min(window)
      <4>1. e \in days /\ e < Min(moved) /\ e \in 0..currentDay
        BY <1>1, <1>3
      <4>2. ~(e < Min(window))
        BY <1>3, <2>2, <4>1
      <4>3. e \in window
        BY <1>2, <1>4, <4>1, <4>2
      <4>4. CASE e \in moved
        <5>1. Min(moved) <= e /\ Min(moved) \in Nat /\ e \in Nat
          BY <1>1, <1>2, <4>1, <4>4
        <5>. HIDE DEF moved
        <5>. QED BY <4>1, <5>1
      <4>5. CASE e \notin moved
        <5>1. Before(days, e) = {}
          BY <4>3, <4>5
        <5>2. ~(Min(window) < e)
          BY <1>1, <1>2, <1>3, <5>1
        <5>. QED BY <1>1, <1>2, <4>1, <4>2, <5>2
      <4>. QED BY <4>4, <4>5
    <3>5. first = Min(window)
      <4>. DEFINE B == Before(days, Min(moved))
      <4>1. B \subseteq 0..currentDay /\ B # {}
        BY <1>1, <1>3, <3>3
      <4>. HIDE DEF B
      <4>2. Max(B) \in B
        BY <1>1, <4>1, ExtremesOfDays
      <4>. QED BY <3>4, <4>2 DEF B
    <3>6. Cardinality(window) # 1
      <4>. SUFFICES ASSUME Cardinality(window) = 1 PROVE FALSE
        OBVIOUS
      <4>1. IsFiniteSet(window)
        <5>1. IsFiniteSet(0..currentDay)
          BY <1>1, FS_Interval
        <5>2. window \subseteq 0..currentDay
          BY <1>1
        <5>. HIDE DEF window
        <5>. QED BY <5>1, <5>2, FS_Subset
      <4>. HIDE DEF window
      <4>2. PICK x : window = {x}
        BY <4>1, FS_Singleton
      <4>. QED BY <1>2, <3>2, <4>2
    <3>. QED BY <2>2, <3>5, <3>6
  <2>. QED BY <2>1, <2>2
<1>7. ActualReturn = <<snapshots[Max(window)], snapshots[base]>>
  <2>1. window # {}
    BY <1>1
  <2>. QED BY <1>6, <2>1 DEF ActualReturn, Chained
<1>8. ActualLine[Max(moved)] = <<snapshots[Max(moved)], snapshots[first]>>
  <2>1. ActualIndex = [d \in moved |-> <<snapshots[d], snapshots[first]>>]
    BY DEF ActualIndex
  <2>2. ActualLine = [d \in moved |-> ActualIndex[d]]
    <3>1. DOMAIN ActualIndex = moved
      BY <2>1
    <3>. QED BY <3>1 DEF ActualLine, Reindexed
  <2>3. Max(moved) \in moved
    BY <1>2
  <2>. HIDE DEF moved, first
  <2>. QED BY <2>1, <2>2, <2>3
<1>. HIDE DEF window, moved, first, base
<1>9. ActualLine[Max(moved)] = ActualReturn
  BY <1>5, <1>6, <1>7, <1>8
<1>. QED BY <1>9 DEF Same

(* The line of the portfolio on the chart ends with the return on the card, *)
(* whatever days have snapshots and however long the period.               *)
THEOREM ChartAlwaysMatchesCard == ComparisonSpec => []ChartMatchesCard
<1>1. ComparisonInit => DaysFit
  <2>. SUFFICES ASSUME ComparisonInit PROVE DaysFit
    OBVIOUS
  <2>1. currentDay = 1
    BY DEF ComparisonInit
  <2>2. CASE snapshots = <<>>
    <3>1. DOMAIN snapshots = {}
      BY <2>2
    <3>. QED BY <2>1, <3>1 DEF DaysFit
  <2>3. CASE snapshots \in [{0} -> Prices]
    <3>1. DOMAIN snapshots = {0}
      BY <2>3
    <3>. QED BY <2>1, <3>1 DEF DaysFit
  <2>. QED BY <2>2, <2>3 DEF ComparisonInit
<1>2. DaysFit /\ [ComparisonNext]_comparisonVars => DaysFit'
  <2>. SUFFICES ASSUME DaysFit, [ComparisonNext]_comparisonVars PROVE DaysFit'
    OBVIOUS
  <2>1. CASE UNCHANGED <<currentDay, snapshots>>
    BY <2>1 DEF DaysFit
  <2>2. CASE DayPasses
    BY <2>2 DEF DaysFit, DayPasses
  <2>3. ASSUME NEW p \in Prices, DailyJob(p) PROVE DaysFit'
    <3>1. currentDay' = currentDay /\ snapshots' = Noted(snapshots, currentDay, p)
      BY <2>3 DEF DailyJob
    <3>2. DOMAIN snapshots' = {currentDay} \cup DOMAIN snapshots
      BY <3>1 DEF Noted
    <3>. QED BY <3>1, <3>2 DEF DaysFit
  <2>. QED BY <2>1, <2>2, <2>3 DEF ComparisonNext, comparisonVars, Advised, BeginAnew
<1>3. DaysFit => ChartMatchesCard
  BY IndexIsChained
<1>. QED BY <1>1, <1>2, <1>3, PTL DEF ComparisonSpec

=============================================================================
