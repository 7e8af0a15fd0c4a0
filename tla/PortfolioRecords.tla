--------------------------- MODULE PortfolioRecords ---------------------------
(***************************************************************************)
(* The rows that belong to a portfolio, as portfolios come and go          *)
(* (POST and DELETE /portfolios of main.py, delete_portfolio of manage.py, *)
(* models/database.py).                                                    *)
(*                                                                         *)
(* Two deletions remove different tables: the endpoint those the ORM knows *)
(* as children of a portfolio, the command those it names.  The database   *)
(* does not enforce foreign keys, and gives a new row the id after the     *)
(* greatest one, so that the id of a deleted row may be another's.  A      *)
(* request or a thread that loaded its portfolio before the deletion goes  *)
(* on to write for it.                                                     *)
(*                                                                         *)
(* A row is of a table, has an id, names a portfolio and may name the row  *)
(* it is about.  Its columns are left out.                                 *)
(***************************************************************************)
EXTENDS Integers, FiniteSets, FiniteSetsExt

CONSTANTS Tables,        \* the tables looked at
          MaxPortfolios, \* bound: portfolios ever created
          MaxRows,       \* bound: rows at one time
          MaxWriters     \* bound: requests and threads that wait at one time

\* Children of Portfolio by a relationship with delete-orphan.
RelatedTables == {"items", "transactions", "snapshots"}

CommandTables ==
  RelatedTables \union {"optimizer_history", "recommendations", "decisions", "shadows",
                        "shadow_snapshots", "attributions"}

AllTables == CommandTables \union {"grades", "repairs"}

ASSUME RecordsAssumption ==
  /\ Tables \subseteq AllTables
  /\ MaxPortfolios \in Nat
  /\ MaxRows \in Nat
  /\ MaxWriters \in Nat

VARIABLES portfolios, \* the portfolios table; born, as history, counts creations
          records,    \* the rows of the other tables, model if of an active-model shadow;
                      \*   born, as history, is the portfolio a row was written for, late
                      \*   that this was deleted when the row was written or made to
                      \*   name another
          writers,    \* requests, jobs and threads between reading and writing, about
                      \*   the row that theirs will be about, target the row to change
          created,    \* history: portfolios ever created
          deletion    \* history: what deleted each of them

recordsVars == <<portfolios, records, writers, created, deletion>>

RecordsInit ==
  /\ portfolios = {}
  /\ records = {}
  /\ writers = {}
  /\ created = 0
  /\ deletion = [n \in 1..MaxPortfolios |-> "none"]

-----------------------------------------------------------------------------

\* SQLite gives a row of a table without AUTOINCREMENT the id after the greatest.
NextId(existing) == Max({x.id : x \in existing} \union {0}) + 1

Of(table) == {r \in records : r.table = table}

Alive(born) == \E p \in portfolios : p.born = born

CreatePortfolio ==
  /\ created < MaxPortfolios
  /\ created' = created + 1
  /\ portfolios' = portfolios \union {[id |-> NextId(portfolios), born |-> created + 1]}
  /\ UNCHANGED <<records, writers, deletion>>

-----------------------------------------------------------------------------
(* Writing.                                                                *)

\* The table of the row that a row of a table is about.
About(table) ==
  CASE table = "recommendations"                         -> "optimizer_history"
    [] table \in {"decisions", "shadows", "grades"}      -> "recommendations"
    [] table \in {"shadow_snapshots", "attributions"}    -> "shadows"
    [] table = "repairs"                                 -> "transactions"
    [] OTHER                                             -> "none"

Insert(row, portfolio, born) ==
  /\ Cardinality(records) < MaxRows
  /\ records' = records \union
       {[table |-> row.table, about |-> row.about, model |-> row.model,
         id |-> NextId(Of(row.table)), portfolio |-> portfolio, born |-> born,
         late |-> ~Alive(born)]}

Row(table, about, model) == [table |-> table, about |-> about, model |-> model]

\* A handler without an await, or one whose portfolio is still there.
WriteRow(table, p) ==
  /\ About(table) = "none"
  /\ Insert(Row(table, 0, FALSE), p.id, p.born)
  /\ UNCHANGED <<portfolios, writers, created, deletion>>

Wait(row, portfolio, born, target) ==
  /\ Cardinality(writers) < MaxWriters
  /\ writers' = writers \union
       {[row |-> row, portfolio |-> portfolio, born |-> born, target |-> target]}
  /\ UNCHANGED <<portfolios, records, created, deletion>>

\* add_holding, a snapshot, an optimizer run: the portfolio is loaded, then prices
\* or models are awaited.
StartWriting(table, p) ==
  /\ About(table) = "none"
  /\ Wait(Row(table, 0, FALSE), p.id, p.born, 0)

\* recommendations and grades have a unique key for what they are about, grades with
\* their horizon, of which there is one here.
HasOne(table, about) ==
  /\ table \in {"recommendations", "grades"}
  /\ \E q \in Of(table) : q.about = about

\* A row about another takes its portfolio from it, as the threads, the daily job
\* and the grader do, which go through rows and not through portfolios.
StartAbout(table, r) ==
  /\ r.table = About(table)
  /\ ~HasOne(table, r.id)
  /\ Wait(Row(table, r.id, FALSE), r.portfolio, r.born, 0)

\* Mutant: the active model is looked for in all portfolios.
ModelOfAny(portfolio) == Max({s.id : s \in {x \in Of("shadows") : x.model}} \union {0})

\* The active model of a portfolio, by the id it names; the latest if there are two.
ActiveModel(portfolio) ==
  Max({s.id : s \in {x \in Of("shadows") : x.model /\ x.portfolio = portfolio}} \union {0})

\* create_active_model_shadow: the one there is is made to name the recommendation.
StartModel(r) ==
  /\ r.table = "recommendations"
  /\ Wait(Row("shadows", r.id, TRUE), r.portfolio, r.born, ActiveModel(r.portfolio))

FinishWriting(w) ==
  /\ w.target = 0
  /\ ~HasOne(w.row.table, w.row.about)
  /\ Insert(w.row, w.portfolio, w.born)
  /\ writers' = writers \ {w}
  /\ UNCHANGED <<portfolios, created, deletion>>

\* An UPDATE by id: it fails if there is none, and finds whichever has it by now.
FinishRefresh(w) ==
  /\ \E s \in Of("shadows") :
       /\ s.id = w.target
       /\ records' = (records \ {s}) \union
            {[s EXCEPT !.about = w.row.about, !.late = @ \/ ~Alive(w.born)]}
  /\ writers' = writers \ {w}
  /\ UNCHANGED <<portfolios, created, deletion>>

\* The load of an expired row fails, or the request, or the UPDATE or INSERT does.
AbandonWriting(w) ==
  /\ writers' = writers \ {w}
  /\ UNCHANGED <<portfolios, records, created, deletion>>

-----------------------------------------------------------------------------
(* Deleting.                                                               *)

Gone(p, how) ==
  /\ portfolios' = portfolios \ {p}
  /\ deletion' = [deletion EXCEPT ![p.born] = how]
  /\ UNCHANGED <<writers, created>>

\* DELETE /portfolios/{id}: not the last one.
DeleteByRequest(p) ==
  /\ Cardinality(portfolios) > 1
  /\ records' = {r \in records : ~(r.table \in RelatedTables /\ r.portfolio = p.id)}
  /\ Gone(p, "request")

\* The rows the command deletes by the portfolio they name.
Named(id) ==
  {r \in records : r.table \in CommandTables \ {"shadow_snapshots"} /\ r.portfolio = id}

\* Snapshots and attributions of its shadows.
OfItsShadows(id) ==
  {r \in records :
     /\ r.table \in {"shadow_snapshots", "attributions"}
     /\ \E s \in Of("shadows") : s.portfolio = id /\ s.id = r.about}

DeleteByCommand(p) ==
  /\ records' = records \ (Named(p.id) \union OfItsShadows(p.id))
  /\ Gone(p, "command")

-----------------------------------------------------------------------------

RecordsNext ==
  \/ CreatePortfolio
  \/ \E p \in portfolios :
       \/ \E t \in Tables : WriteRow(t, p) \/ StartWriting(t, p)
       \/ DeleteByRequest(p)
       \/ DeleteByCommand(p)
  \/ \E r \in records :
       \/ \E t \in Tables : StartAbout(t, r)
       \/ "shadows" \in Tables /\ StartModel(r)
  \/ \E w \in writers : FinishWriting(w) \/ FinishRefresh(w) \/ AbandonWriting(w)

RecordsSpec == RecordsInit /\ [][RecordsNext]_recordsVars

-----------------------------------------------------------------------------
(* Properties.                                                             *)

Covered(how) ==
  CASE how = "request" -> RelatedTables
    [] how = "command" -> CommandTables
    [] OTHER           -> {}

\* A portfolio has only its own rows in the tables that the deletion of its id's
\* former owner covers, however often the id was given away, apart from those
\* that a request or a job wrote for the former owner after it was deleted.
OwnRecords ==
  \A r \in records, p \in portfolios :
    r.portfolio = p.id /\ r.born # p.born =>
      r.late \/ r.table \notin Covered(deletion[r.born])

\* The row a row is about is there and names the same portfolio, whatever was
\* deleted meanwhile and whichever ids were given again, unless the writer outlived
\* the portfolio; and it was written for the same one, apart from an active model
\* that the endpoint's deletion left and that the id's next owner took over.  Only
\* grades and repairs may be about nothing, or about another portfolio's row.
ReferencesHold ==
  \A r \in records :
    About(r.table) # "none" /\ r.table \notin {"grades", "repairs"} /\ ~r.late =>
      \E q \in Of(About(r.table)) :
        /\ q.id = r.about /\ q.portfolio = r.portfolio
        /\ q.born = r.born \/ (r.model /\ deletion[r.born] = "request")

RecordsStayTogether == OwnRecords /\ ReferencesHold

-----------------------------------------------------------------------------
(* What the documentation says and the code does not do.                   *)

\* The command deletes all records of a portfolio: one that gets its id later
\* begins without any, unless a request or a job outlived the deletion.
NewPortfolioIsEmpty ==
  [][\A p \in portfolios' \ portfolios, r \in records :
       r.portfolio = p.id => r.late \/ deletion[r.born] # "command"]_recordsVars
=============================================================================
