-------------------------- MODULE StartupMigration --------------------------
(***************************************************************************)
(* What the web process does to its database before the first request, at  *)
(* every start: init_db creates the tables that are missing, and           *)
(* migrate_legacy_data makes the defaults, adds the columns an older       *)
(* SQLite file lacks and copies the holdings of the flat table "portfolio" *)
(* of the first version (models/database.py, from lifespan of main.py).    *)
(*                                                                         *)
(* Every statement that changes the schema commits on its own - of a new   *)
(* table first the table, then each of its indexes - and the process may   *)
(* die between any two.  Where PostgreSQL is used nothing is patched.      *)
(*  A portfolio is its holdings: shares per stock, 0 for none.    *)
(***************************************************************************)
EXTENDS Integers, FiniteSets, FiniteSetsExt

CONSTANTS
  ColumnsOf,       \* per table the columns the program reads,
  PatchedOf,       \* those a start adds where they are missing
  IndexesOf,       \* and the indexes it is created with
  Stocks,
  FirstDatabases,  \* databases as a start may find them
  MaxPortfolio, MaxShares, MaxChanges   \* bounds

Tables == DOMAIN ColumnsOf

ASSUME StartupAssumption ==
  /\ {"portfolios", "portfolio_items"} \subseteq Tables
  /\ DOMAIN PatchedOf = Tables /\ DOMAIN IndexesOf = Tables
  /\ \A t \in Tables : ColumnsOf[t] # {} /\ PatchedOf[t] \subseteq ColumnsOf[t]
  /\ \A d \in FirstDatabases :
       /\ d.columns \in [Tables -> SUBSET UNION {ColumnsOf[t] : t \in Tables}]
       /\ \A t \in Tables : d.columns[t] \subseteq ColumnsOf[t]
       /\ d.indexes \in [Tables -> SUBSET UNION {IndexesOf[t] : t \in Tables}]
       /\ \A t \in Tables : d.columns[t] = {} => d.indexes[t] = {}
       /\ d.workspace \in BOOLEAN
       /\ IsFiniteSet(DOMAIN d.held) /\ DOMAIN d.held \subseteq Nat
       /\ d.held \in [DOMAIN d.held -> [Stocks -> Nat]]
  /\ MaxPortfolio \in Nat /\ MaxShares \in Nat

VARIABLES
  start,         \* how far the start is; "down", or "up" once requests are served
  columns,       \* per table its columns, none where there is no such table
  indexes,       \* and its indexes
  making,        \* the table whose indexes the start under way is creating
  cut,           \* history: tables no start has got so far with before it died
  workspace,     \* there is a workspace
  held,          \* per portfolio its holdings
  flat,          \* the flat table: none, or its rows and whether they can be read
  left,          \* the database as the last process that served requests left it
  changes        \* changes by requests so far

schema == <<columns, indexes, making, cut>>

startVars == <<start, schema, workspace, held, flat, left, changes>>

Database == [columns |-> columns, indexes |-> indexes, workspace |-> workspace, held |-> held]

NoFlatTable == [kind |-> "none"]
FlatTables == {NoFlatTable} \cup [kind : {"rows"}, rows : [Stocks -> 0..MaxShares], readable : BOOLEAN]

StartInit ==
  /\ start = "down"
  /\ \E d \in FirstDatabases :
       columns = d.columns /\ indexes = d.indexes /\ workspace = d.workspace /\ held = d.held
  /\ making = {} /\ cut = {}
  /\ flat \in FlatTables
  /\ left = Database /\ changes = 0

-----------------------------------------------------------------------------
Whole(t) == columns[t] = ColumnsOf[t]

First(portfolios) == Min(portfolios)

Stage(from, to) == start = from /\ start' = to

(* An exception ends the process before it serves anything.                *)
Fails(stage) == Stage(stage, "down") /\ UNCHANGED <<schema, workspace, held, flat, left, changes>>

Goes(from, to) == Stage(from, to) /\ UNCHANGED <<schema, workspace, held, flat, left, changes>>

Begin == Goes("down", "tables")

Indexed(t) == indexes[t] = IndexesOf[t]

(* One table after another.  A table that is there is passed over, and its *)
(* indexes with it.                                                        *)
CreateTable(t) ==
  /\ start = "tables" /\ columns[t] = {}
  /\ \A u \in making : Indexed(u)
  /\ columns' = [columns EXCEPT ![t] = ColumnsOf[t]]
  /\ making' = {t}
  /\ UNCHANGED <<start, indexes, cut, workspace, held, flat, left, changes>>

CreateIndex(t, i) ==
  /\ t \in making /\ i \notin indexes[t]
  /\ indexes' = [indexes EXCEPT ![t] = @ \cup {i}]
  /\ UNCHANGED <<start, columns, making, cut, workspace, held, flat, left, changes>>

TablesCreated ==
  /\ \A t \in Tables : columns[t] # {}
  /\ \A t \in making : Indexed(t)
  /\ Stage("tables", "workspace")
  /\ making' = {}
  /\ UNCHANGED <<columns, indexes, cut, workspace, held, flat, left, changes>>

DefaultWorkspace ==
  /\ Stage("workspace", "main")
  /\ workspace' = TRUE
  /\ UNCHANGED <<schema, held, flat, left, changes>>

NoHoldings == [s \in Stocks |-> 0]

(* Counting the portfolios reads all their columns, before any of them can *)
(* have been patched.                                                      *)
MainPortfolio ==
  \/ /\ Whole("portfolios")
     /\ Stage("main", "patches")
     /\ held' = IF held = <<>> THEN [p \in {1} |-> NoHoldings] ELSE held
     /\ UNCHANGED <<schema, workspace, flat, left, changes>>
  \/ ~Whole("portfolios") /\ Fails("main")

Lacking(t) == PatchedOf[t] \ columns[t]

(* In the code's order; here in any.                                       *)
AddColumn(t, c) ==
  /\ start = "patches" /\ c \in Lacking(t)
  /\ columns' = [columns EXCEPT ![t] = @ \cup {c}]
  /\ UNCHANGED <<start, indexes, making, cut, workspace, held, flat, left, changes>>

ColumnsAdded == (\A t \in Tables : Lacking(t) = {}) /\ Goes("patches", "flat")

(* Mutant: a row that is held already is taken from the flat table again.  *)
WithEveryFlatRow(portfolios, rows) ==
  [portfolios EXCEPT ![First(DOMAIN portfolios)] = [s \in Stocks |-> IF rows[s] > 0 THEN rows[s] ELSE @[s]]]

(* What the first portfolio lacks of the flat table is added to it.        *)
WithFlatRows(portfolios, rows) ==
  [portfolios EXCEPT ![First(DOMAIN portfolios)] = [s \in Stocks |-> IF @[s] > 0 THEN @[s] ELSE rows[s]]]

(* At every start.  A flat table that cannot be read is passed over, but   *)
(* not holdings that cannot.                                               *)
CopyFlatTable ==
  \/ flat = NoFlatTable /\ Goes("flat", "up")
  \/ /\ flat # NoFlatTable /\ Whole("portfolio_items")
     /\ Stage("flat", "up")
     /\ held' = IF flat.readable THEN WithFlatRows(held, flat.rows) ELSE held
     /\ UNCHANGED <<schema, workspace, flat, left, changes>>
  \/ flat # NoFlatTable /\ ~Whole("portfolio_items") /\ Fails("flat")

(* The process stops or dies.  What it leaves is remembered for the        *)
(* property when it had served requests.                                   *)
Die ==
  /\ start # "down" /\ start' = "down"
  /\ left' = IF start = "up" THEN Database ELSE left
  /\ cut' = IF start = "up" THEN {} ELSE cut \cup {t \in making : ~Indexed(t)}
  /\ making' = {}
  /\ UNCHANGED <<columns, indexes, workspace, held, flat, changes>>

-----------------------------------------------------------------------------
(* Requests.                                                               *)

Served == start = "up" /\ changes < MaxChanges /\ changes' = changes + 1 /\ UNCHANGED <<start, schema, workspace, flat, left>>

CreatePortfolio ==
  /\ Served
  /\ LET p == Max(DOMAIN held) + 1
     IN  /\ p <= MaxPortfolio
         /\ held' = [q \in DOMAIN held \cup {p} |-> IF q = p THEN NoHoldings ELSE held[q]]

\* The last portfolio is never deleted.
DeletePortfolio(p) ==
  /\ DOMAIN held # {p}
  /\ held' = [q \in DOMAIN held \ {p} |-> held[q]]
  /\ Served

Trade(p, s, n) ==
  /\ n # held[p][s] /\ Whole("portfolio_items")
  /\ held' = [held EXCEPT ![p][s] = n]
  /\ Served

StartStep ==
  \/ Begin \/ TablesCreated \/ DefaultWorkspace \/ MainPortfolio \/ ColumnsAdded \/ CopyFlatTable \/ Die
  \/ \E t \in Tables :
       \/ CreateTable(t)
       \/ \E i \in IndexesOf[t] : CreateIndex(t, i)
       \/ \E c \in PatchedOf[t] : AddColumn(t, c)

Request ==
  \/ CreatePortfolio
  \/ \E p \in DOMAIN held : DeletePortfolio(p) \/ \E s \in Stocks, n \in 0..MaxShares : Trade(p, s, n)

StartNext == StartStep \/ Request

StartSpec == StartInit /\ [][StartNext]_startVars

-----------------------------------------------------------------------------
(* A database one start can bring up.                                      *)
Startable(d) ==
  /\ d.columns["portfolios"] \in {{}, ColumnsOf["portfolios"]}
  /\ flat # NoFlatTable =>
       d.columns["portfolio_items"] = {}
         \/ d.columns["portfolio_items"] \cup PatchedOf["portfolio_items"] = ColumnsOf["portfolio_items"]

(* What one start that nothing interrupts makes of it.                     *)
Upgraded(d) ==
  LET portfolios == IF d.held = <<>> THEN [p \in {1} |-> NoHoldings] ELSE d.held
  IN  [columns   |-> [t \in Tables |-> IF d.columns[t] = {} THEN ColumnsOf[t] ELSE d.columns[t] \cup PatchedOf[t]],
       indexes   |-> [t \in Tables |-> IF d.columns[t] = {} THEN IndexesOf[t] ELSE d.indexes[t]],
       workspace |-> TRUE,
       held      |-> [p \in DOMAIN portfolios |->
                        IF flat # NoFlatTable /\ p = First(DOMAIN portfolios)
                        THEN [s \in Stocks |-> IF flat.readable /\ portfolios[p][s] = 0 THEN flat.rows[s]
                                               ELSE portfolios[p][s]]
                        ELSE portfolios[p]]]

(* However often starts are cut short between two commits or fail, the one *)
(* that comes up has made of the database what one start would have made   *)
(* of it: no default twice, no column missed, and of the holdings nothing  *)
(* but rows the first portfolio lacked - among them, at every start, what  *)
(* was sold since the last.  The exception is a table that a start had not *)
(* indexed when it died: it may lack indexes, unique ones too, for good.   *)
(* A database whose portfolios lack a column never comes up: they are      *)
(* counted before they are patched.                                        *)
InterruptionsShowInIndexesOnly ==
  [][start' = "up" /\ start # "up" =>
       /\ Startable(left)
       /\ Database' = [Upgraded(left) EXCEPT !.indexes = indexes']
       /\ \A t \in Tables :
            \/ indexes'[t] = Upgraded(left).indexes[t]
            \/ t \in cut /\ indexes'[t] \subseteq Upgraded(left).indexes[t]]_startVars
=============================================================================
