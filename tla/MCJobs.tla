-------------------------------- MODULE MCJobs --------------------------------
(* The web process: its start, and its long jobs.  One kind in each behaviour, *)
(* for starts, batches of analyses and runs of the optimizer share nothing.   *)
EXTENDS AnalysisJobs, OptimizerRuns, StartupMigration, TLC

VARIABLE kind

CONSTANTS b1, b2, s1, s2, r1, r2, p1

(* A job over two symbols and a request over one of them; either may find them *)
(* analysed already.                                                          *)
MCListed == b1 :> {s1, s2} @@ b2 :> {s1, s2}

(* Runs for one portfolio, which may overlap.                                 *)
MCPortfolioOf == [r \in Runs |-> p1]

(* Two columns a start adds, one of them to the table that is counted first,  *)
(* and one that no start adds.                                                *)
MCColumnsOf == "portfolios" :> {"id", "cash_balance"} @@ "portfolio_items" :> {"id", "sector", "asset_id"}
MCPatchedOf == "portfolios" :> {"cash_balance"} @@ "portfolio_items" :> {"sector"}

(* Indexes that only the creation of the table makes.                         *)
MCIndexesOf == "portfolios" :> {"id"} @@ "portfolio_items" :> {"id", "asset_id"}

(* An empty database, one that needs nothing, and older ones.                 *)
MCFirstDatabases ==
  LET Found(portfolios, items, w, h) ==
        [columns |-> "portfolios" :> portfolios @@ "portfolio_items" :> items,
         indexes |-> IF portfolios = {} THEN [t \in DOMAIN MCIndexesOf |-> {}] ELSE [t \in DOMAIN MCIndexesOf |-> {"id"}],
         workspace |-> w, held |-> h]
      one == 1 :> (s1 :> 1 @@ s2 :> 0)
      all == MCColumnsOf
  IN  {Found({}, {}, FALSE, <<>>),
       Found(all["portfolios"], all["portfolio_items"], TRUE, one),
       Found(all["portfolios"], {"id", "asset_id"}, TRUE, one @@ 2 :> (s1 :> 0 @@ s2 :> 1)),
       Found(all["portfolios"], {"id", "sector"}, TRUE, one),
       Found({"id"}, {"id", "asset_id"}, TRUE, one)}

JobsInit ==
  /\ AnalysisInit /\ RunsInit /\ StartInit /\ kind \in {"analysis", "optimizer", "start"}
  /\ kind # "analysis" => cached = {}
  /\ kind # "start" => flat = NoFlatTable /\ held = <<>>

JobsNext ==
  \/ kind = "analysis" /\ AnalysisNext /\ UNCHANGED <<runsVars, startVars, kind>>
  \/ kind = "optimizer" /\ RunsNext /\ UNCHANGED <<analysisVars, startVars, kind>>
  \/ kind = "start" /\ StartNext /\ UNCHANGED <<analysisVars, runsVars, kind>>

(* Nothing of the kind that is left out is ever enabled, so its fairness asks *)
(* for nothing.                                                               *)
JobsSpec ==
  /\ JobsInit /\ [][JobsNext]_<<analysisVars, runsVars, startVars, kind>>
  /\ AnalysisFairness /\ RunsFairness

(* Whatever runs ends: every batch ends, and every entry of a run settles.    *)
JobsSettle == BatchesEnd /\ ProgressSettles
=============================================================================
