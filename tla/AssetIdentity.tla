---------------------------- MODULE AssetIdentity ----------------------------
(***************************************************************************)
(* From symbols to asset ids: the Asset Registry                           *)
(* (services/asset_registry.py, registry_service.py, identity_resolver.py) *)
(* and the manage.py commands that populate it from the ledger and write   *)
(* its answers back: bootstrap_registry, execute_migration,                *)
(* backfill_asset_ids and its rollback, golden_baseline and replay_cutover,*)
(* beside handlers that record transactions and look their symbols up      *)
(* through the cache of services/registry_lookup.py.                       *)
(*                                                                         *)
(* A shape is what the planner asks one question about: a raw symbol, its  *)
(* canonical form and a currency.  A row of the ledger is one share bought *)
(* under a shape, in the portfolio that is cut over or in another, which   *)
(* may be deleted with its rows: SQLite then gives their ids again.        *)
(* The holdings of a portfolio and the watchlist have asset ids of their   *)
(* own, by symbol: a portfolio has a holding of the symbols it has rows of,*)
(* and the watchlist does not change.                                      *)
(*                                                                         *)
(* All identifiers are PROVIDER_SYMBOLs, the only type the ledger gives    *)
(* evidence for; asset ids are 1, 2, ... in the order of minting and 0     *)
(* stands for NULL.                                                        *)
(***************************************************************************)
EXTENDS Integers, Sequences, FiniteSets, FiniteSetsExt

CONSTANTS Spellings,     \* raw symbols and canonical forms
          Canonical,   \* get_yfinance_symbol of each
          Bundled,     \* symbols that same_listing joins to their canonical form
          Venue,       \* symbols whose market and exchange can be inferred
          Shapes,      \* [symbol, currency] in the order the commands sort them
          Watched,       \* symbols on the watchlist
          RunIds,        \* ids of runs
          Absent,      \* a symbol that the cache does not know
          MaxRows, MaxEdits

ASSUME CanonicalAssumption == Canonical \in [Spellings -> Spellings]
ASSUME BundledAssumption   == \A s \in Bundled : Canonical[s] # s
ASSUME VenueAssumption     == Venue \intersect Bundled = {}
ASSUME ShapesAssumption    ==
  /\ Bundled \subseteq Spellings
  /\ Shapes \in Seq([symbol : Spellings, currency : {Shapes[k].currency : k \in DOMAIN Shapes}])

VARIABLES assets,    \* the assets minted: canonical symbol and currency
          current,   \* symbol |-> the asset whose current identifier it is
          former,    \* symbol |-> the assets whose superseded identifier it is
          rows,      \* id |-> transaction: shape, portfolio and asset id
          labels,    \* holdings and the watchlist: place |-> symbol |-> asset id
          cache,     \* symbol |-> what registry_lookup answers without looking
          log,       \* mint and attach checkpoints: command, run and shape
          backfills, \* backfill checkpoints: run, shape, asset, rows and places written
          job,       \* the bootstrap, migration or backfill that is running
          baseline,  \* the golden baseline file
          cutover,   \* the replay_cutover that is running
          native,    \* Portfolio.replay_asset_id_native
          edits      \* what an administrator has done: commands, edits and deletions

registry == <<assets, current, former>>
commands == <<log, backfills, job>>
replay   == <<baseline, cutover, native>>
ledger   == <<rows, labels>>
identityVars == <<registry, ledger, cache, commands, replay, edits>>

NoCurrency == "none"
ShapeIds   == DOMAIN Shapes
NoJob      == [kind |-> "idle"]
NoBaseline == [ids |-> {}]
NoCutover  == [positions |-> {}]

LedgerPortfolios == {"main", "other"}
Places     == LedgerPortfolios \union {"watchlist"}
NoLabels   == [s \in Spellings |-> 0]

IdentityInit ==
  /\ assets = <<>>
  /\ current = [s \in Spellings |-> 0]
  /\ former = [s \in Spellings |-> {}]
  /\ rows = <<>>
  /\ labels = [p \in Places |-> NoLabels]
  /\ cache = [s \in Spellings |-> Absent]
  /\ log = {}
  /\ backfills = {}
  /\ job = NoJob
  /\ baseline = NoBaseline
  /\ cutover = NoCutover
  /\ native = FALSE
  /\ edits = 0

-----------------------------------------------------------------------------
(* Resolution.                                                             *)

\* build_claim: the raw symbol, and its canonical form if both are spellings
\* of one listing.
Claim(k) ==
  LET s == Shapes[k].symbol
  IN  IF s \in Bundled THEN <<s, Canonical[s]>> ELSE <<s>>

\* A current row preempts the superseded ones.
Contributors(s) == IF current[s] # 0 THEN {current[s]} ELSE former[s]

\* Weights and threshold are those of DEFAULT_POLICY, doubled: 50 for a current
\* provider symbol, 0.95 of it for a superseded one, 10 and -15 for the hint.
ResolvedThreshold == 100

Weight(s, a) ==
  CASE current[s] = a          -> 100
    [] a \in Contributors(s) \ {current[s]} -> 95
    [] OTHER                   -> 0

Corroboration(a, currency) ==
  CASE currency = NoCurrency         -> 0
    [] currency = assets[a].currency -> 20
    [] OTHER                         -> -30

Score(ids, currency, a) ==
  Corroboration(a, currency) + MapThenSumSet(LAMBDA i : Weight(ids[i], a), DOMAIN ids)

\* A single candidate is taken if it scores enough; several never are.
Resolve(ids, currency) ==
  LET candidates == UNION {Contributors(ids[i]) : i \in DOMAIN ids}
      live       == {a \in candidates : \E i \in DOMAIN ids : current[ids[i]] = a}
  IN  CASE candidates = {} -> [verdict |-> "UNKNOWN", asset |-> 0]
        [] Cardinality(candidates) > 1 ->
             [verdict |-> IF Cardinality(live) > 1 THEN "CONFLICT" ELSE "AMBIGUOUS",
              asset   |-> 0]
        [] OTHER ->
             LET a == CHOOSE a \in candidates : TRUE
             IN  IF Score(ids, currency, a) >= ResolvedThreshold
                 THEN [verdict |-> "RESOLVED", asset |-> a]
                 ELSE [verdict |-> "AMBIGUOUS", asset |-> 0]

-----------------------------------------------------------------------------
(* Writing identifiers: attach_identifier and mint_asset.                  *)

\* The asset's other current identifier of the type is superseded.
Attached(reg, a, s) ==
  IF reg.current[s] = a THEN reg
  ELSE [current |-> [t \in Spellings |-> CASE t = s                -> a
                                         [] reg.current[t] = a  -> 0
                                         [] OTHER               -> reg.current[t]],
        former  |-> [t \in Spellings |-> IF reg.current[t] = a
                                       THEN reg.former[t] \union {a}
                                       ELSE reg.former[t]]]

Registered == [current |-> current, former |-> former]

\* The identifiers of a claim that are attached before the first conflict.
Attachable(a, ids) ==
  LET conflicts == {i \in DOMAIN ids : current[ids[i]] \notin {0, a}}
  IN  IF conflicts = {} THEN ids ELSE SubSeq(ids, 1, Min(conflicts) - 1)

\* Neither the canonical symbol nor a current identifier may be taken.
Mintable(s) ==
  /\ \A i \in DOMAIN assets : assets[i].symbol # s
  /\ current[s] = 0

\* A claim has at most two symbols.
AllAttached(a, ids) ==
  CASE Len(ids) = 0 -> Registered
    [] Len(ids) = 1 -> Attached(Registered, a, ids[1])
    [] Len(ids) = 2 -> Attached(Attached(Registered, a, ids[1]), a, ids[2])

AttachAll(a, ids) ==
  /\ current' = AllAttached(a, ids).current
  /\ former' = AllAttached(a, ids).former

Mint(s, currency) ==
  /\ assets' = Append(assets, [symbol |-> s, currency |-> currency])
  /\ AttachAll(Len(assets) + 1, <<s>>)

\* By hand, as the reports of the commands ask for.
MintByHand ==
  \E k \in ShapeIds :
    /\ edits < MaxEdits
    /\ Mintable(Shapes[k].symbol)
    /\ Mint(Shapes[k].symbol, Shapes[k].currency)
    /\ edits' = edits + 1
    /\ UNCHANGED <<ledger, cache, commands, replay>>

AttachByHand ==
  \E a \in DOMAIN assets, s \in Spellings :
    /\ edits < MaxEdits
    /\ current[s] = 0
    /\ AttachAll(a, <<s>>)
    /\ edits' = edits + 1
    /\ UNCHANGED <<assets, ledger, cache, commands, replay>>

-----------------------------------------------------------------------------
(* The handlers: transactions and lookups of the web process.              *)

\* resolve_asset: what the cache has, found or not, until it expires.
Answer(s) ==
  IF cache[s] = Absent THEN Resolve(<<s>>, NoCurrency).asset ELSE cache[s]

\* Any endpoint that shows a symbol.
LookUp(s) ==
  /\ s \in {Shapes[k].symbol : k \in ShapeIds}
  /\ cache[s] = Absent
  /\ cache' = [cache EXCEPT ![s] = Answer(s)]
  /\ UNCHANGED <<registry, ledger, commands, replay, edits>>

CacheExpires(s) ==
  /\ cache[s] # Absent
  /\ cache' = [cache EXCEPT ![s] = Absent]
  /\ UNCHANGED <<registry, ledger, commands, replay, edits>>

\* SQLite gives the id after the largest there is.
NextId == Max(DOMAIN rows \union {0}) + 1

\* What is planned of a shape that does not have the row of this id (any more).
Misplanned(id, k) ==
  job.kind = "backfill" /\ \E r \in job.todo : id \in r.ids /\ r.shape # k

\* A transaction is recorded with the asset its symbol resolves to now, or
\* without one; a lookup that raises does not stop it.  A new holding has the
\* same asset, and one without an asset is given it.  (misplanned records, for
\* the properties, that the id was another row's when a backfill planned.)
RecordTransaction(p, k, raises) ==
  LET s     == Shapes[k].symbol
      asset == IF raises THEN 0 ELSE Answer(s)
      row   == [shape |-> k, portfolio |-> p, asset |-> asset,
                misplanned |-> Misplanned(NextId, k)]
  IN  /\ NextId <= MaxRows
      /\ rows' = [i \in DOMAIN rows \union {NextId} |-> IF i = NextId THEN row ELSE rows[i]]
      /\ labels' = IF labels[p][s] = 0 THEN [labels EXCEPT ![p][s] = asset] ELSE labels
      /\ cache' = IF raises THEN cache ELSE [cache EXCEPT ![s] = Answer(s)]
      /\ UNCHANGED <<registry, commands, replay, edits>>

RowsIn(p) == {i \in DOMAIN rows : rows[i].portfolio = p}

\* delete_portfolio: its transactions and holdings go with it; the next
\* portfolio is given its id.  The one that is cut over stays.
DeleteOther ==
  /\ edits < MaxEdits
  /\ RowsIn("other") # {}
  /\ edits' = edits + 1
  /\ rows' = [i \in DOMAIN rows \ RowsIn("other") |-> rows[i]]
  /\ labels' = [labels EXCEPT !["other"] = NoLabels]
  /\ UNCHANGED <<registry, cache, commands, replay>>

-----------------------------------------------------------------------------
(* The commands that walk the planner's resolutions, one commit per shape. *)

\* plan_migration: one resolution of every shape in the ledger, with the rows
\* that have it.
Resolution(k) ==
  [shape |-> k,
   asset |-> Resolve(Claim(k), Shapes[k].currency).asset,
   ids   |-> {i \in DOMAIN rows : rows[i].shape = k},
   portfolios |-> {rows[i].portfolio : i \in {j \in DOMAIN rows : rows[j].shape = k}}]

RecordedShapes == {rows[i].shape : i \in DOMAIN rows}

UnknownShapes ==
  {k \in RecordedShapes : Resolve(Claim(k), Shapes[k].currency).verdict = "UNKNOWN"}

\* build_bootstrap_plan: unknown shapes of several raw symbols with one
\* canonical form are left to a human, and so are those without a currency or
\* a venue.
ShapesToMint ==
  {k \in UnknownShapes :
     /\ \A l \in UnknownShapes :
          Canonical[Shapes[l].symbol] = Canonical[Shapes[k].symbol]
            => Shapes[l].symbol = Shapes[k].symbol
     /\ Shapes[k].currency # NoCurrency
     /\ Shapes[k].symbol \in Venue}

Plan(kind) ==
  IF kind = "bootstrap"
  THEN {Resolution(k) : k \in ShapesToMint}
  ELSE {r \in {Resolution(k) : k \in RecordedShapes} : r.asset # 0}

\* A new run, or a run id given again to go on with it; the plan is new anyway.
StartCommand(kind, run) ==
  /\ edits < MaxEdits
  /\ job = NoJob
  /\ Plan(kind) # {}
  /\ job' = [kind |-> kind, run |-> run, todo |-> Plan(kind)]
  /\ edits' = edits + 1
  /\ UNCHANGED <<registry, ledger, cache, log, backfills, replay>>

Step == CHOOSE r \in job.todo : \A q \in job.todo : r.shape <= q.shape

Proceed ==
  job' = IF job.todo = {Step} THEN NoJob ELSE [job EXCEPT !.todo = @ \ {Step}]

Checkpoint == [kind |-> job.kind, run |-> job.run, shape |-> Step.shape]

BootstrapStep ==
  LET k == Step.shape
  IN  /\ job.kind = "bootstrap"
      /\ Checkpoint \notin log
      /\ Mintable(Shapes[k].symbol)
      /\ Mint(Shapes[k].symbol, Shapes[k].currency)
      /\ log' = log \union {Checkpoint}
      /\ Proceed
      /\ UNCHANGED <<ledger, cache, backfills, replay, edits>>

\* What was attached before a conflict stays, but the shape is not completed.
MigrationStep ==
  LET ids      == Claim(Step.shape)
      attached == Attachable(Step.asset, ids)
  IN  /\ job.kind = "migration"
      /\ Checkpoint \notin log
      /\ AttachAll(Step.asset, attached)
      /\ log' = IF attached = ids THEN log \union {Checkpoint} ELSE log
      /\ Proceed
      /\ UNCHANGED <<assets, ledger, cache, backfills, replay, edits>>

\* Mutant: the rows are looked for again, by canonical symbol.
RowsByCanonical(r) ==
  {i \in DOMAIN rows : Canonical[Shapes[rows[i].shape].symbol] = Canonical[Shapes[r.shape].symbol]}

\* The rows that have the ids the plan names, whatever was recorded or deleted
\* since.
RowsOf(r) == r.ids \intersect DOMAIN rows

\* The watchlist and the holdings of the plan's portfolios, by symbol.
PlacesOf(r) ==
  LET s == Shapes[r.shape].symbol
  IN  {p \in r.portfolios : \E i \in RowsIn(p) : Shapes[rows[i].shape].symbol = s}
        \union {p \in {"watchlist"} : s \in Watched}

Completed(run, k) == \E b \in backfills : b.run = run /\ b.shape = k

\* The rows and the labels of a symbol with another asset, or none.
RowsWith(ids, a)     == [i \in DOMAIN rows |-> IF i \in ids THEN [rows[i] EXCEPT !.asset = a] ELSE rows[i]]
LabelsWith(at, s, a) ==
  [p \in Places |-> [t \in Spellings |-> IF p \in at /\ t = s THEN a ELSE labels[p][t]]]

BackfillStep ==
  LET a       == Step.asset
      s       == Shapes[Step.shape].symbol
      touched == {i \in RowsOf(Step) : rows[i].asset # a}
      places  == {p \in PlacesOf(Step) : labels[p][s] # a}
  IN  /\ job.kind = "backfill"
      /\ ~Completed(job.run, Step.shape)
      /\ rows' = RowsWith(touched, a)
      /\ labels' = LabelsWith(places, s, a)
      /\ backfills' = backfills \union {[run |-> job.run, shape |-> Step.shape, asset |-> a,
                                         ids |-> touched, places |-> places]}
      /\ Proceed
      /\ UNCHANGED <<registry, cache, log, replay, edits>>

\* A shape that is done, that cannot be minted any more, or whose step raises
\* and is rolled back: the command goes on with the next.
PassOver ==
  /\ job # NoJob
  /\ Proceed
  /\ UNCHANGED <<registry, ledger, cache, log, backfills, replay, edits>>

\* The command is killed between two commits.
Killed ==
  /\ job # NoJob
  /\ job' = NoJob
  /\ UNCHANGED <<registry, ledger, cache, log, backfills, replay, edits>>

\* rollback_backfill: rows, holdings and watchlist entries that a checkpoint of
\* the run names and that still have its asset; the checkpoints stay.
RollBack(run) ==
  LET cps        == {b \in backfills : b.run = run}
      back       == {i \in DOMAIN rows : \E b \in cps : i \in b.ids /\ rows[i].asset = b.asset}
      undone(p, s) == \E b \in cps : /\ p \in b.places /\ Shapes[b.shape].symbol = s
                                   /\ labels[p][s] = b.asset
  IN  /\ edits < MaxEdits
      /\ cps # {}
      /\ rows' = RowsWith(back, 0)
      /\ labels' = [p \in Places |-> [s \in Spellings |-> IF undone(p, s) THEN 0 ELSE labels[p][s]]]
      /\ edits' = edits + 1
      /\ UNCHANGED <<registry, cache, commands, replay>>

-----------------------------------------------------------------------------
(* Replay by asset id.                                                     *)

CanonicalOf(i) == Canonical[Shapes[rows[i].shape].symbol]

\* replay_key: the asset id, if the portfolio prefers it and the row has one,
\* before the canonical symbol.
Key(i, prefer) ==
  IF prefer /\ rows[i].asset # 0
  THEN [asset |-> rows[i].asset]
  ELSE [symbol |-> CanonicalOf(i)]

\* The rows of every holding that a replay of the portfolio ends with.
Ledger == RowsIn("main")

Positions(prefer) ==
  {{i \in Ledger : Key(i, prefer) = Key(j, prefer)} : j \in Ledger}

\* report_symbol: the canonical symbol of the row that opened the position.
ReportSymbol(position) == CanonicalOf(Min(position))

\* The report has one entry per symbol: of several holdings with one symbol
\* that of the last.
HoldingsTruth(prefer) ==
  LET reported(s) == {p \in Positions(prefer) : ReportSymbol(p) = s}
      last(s)     == CHOOSE p \in reported(s) : \A q \in reported(s) : Min(q) <= Min(p)
  IN  [s \in {ReportSymbol(p) : p \in Positions(prefer)} |-> Cardinality(last(s))]

Baseline == [ids |-> Ledger, native |-> native, truth |-> HoldingsTruth(native)]

\* golden_baseline --capture; its other modes only read.
CaptureBaseline ==
  /\ edits < MaxEdits
  /\ Ledger # {}
  /\ baseline' = Baseline
  /\ edits' = edits + 1
  /\ UNCHANGED <<registry, ledger, cache, commands, cutover, native>>

\* Mutant: the reports are compared by their symbols.
IsIdenticalBySymbol(old, new) == DOMAIN old = DOMAIN new

IsBitIdentical(old, new) == old = new

\* The flag is set in the session and the ledger replayed; prices are
\* downloaded before the report is compared with the baseline, but neither is
\* read again.
StartCutover ==
  /\ edits < MaxEdits
  /\ cutover = NoCutover
  /\ baseline # NoBaseline
  /\ Ledger # {}
  /\ cutover' = [positions |-> Positions(TRUE),
                 identical |-> IsBitIdentical(baseline.truth, HoldingsTruth(TRUE)),
                 legacyBaseline |-> baseline.ids = Ledger /\ ~baseline.native]
  /\ edits' = edits + 1
  /\ UNCHANGED <<registry, ledger, cache, commands, baseline, native>>

CommitCutover ==
  /\ cutover # NoCutover
  /\ cutover.identical
  /\ native' = TRUE
  /\ cutover' = NoCutover
  /\ UNCHANGED <<registry, ledger, cache, commands, baseline, edits>>

\* Rejected, not to be committed, failed or killed.
AbandonCutover ==
  /\ cutover # NoCutover
  /\ cutover' = NoCutover
  /\ UNCHANGED <<registry, ledger, cache, commands, baseline, native, edits>>

RollBackCutover ==
  /\ edits < MaxEdits
  /\ native
  /\ native' = FALSE
  /\ edits' = edits + 1
  /\ UNCHANGED <<registry, ledger, cache, commands, baseline, cutover>>

-----------------------------------------------------------------------------

ByHand == MintByHand \/ AttachByHand

Web ==
  \/ \E s \in Spellings : LookUp(s) \/ CacheExpires(s)
  \/ \E p \in LedgerPortfolios, k \in ShapeIds, raises \in BOOLEAN : RecordTransaction(p, k, raises)
  \/ DeleteOther

Command ==
  \/ \E kind \in {"bootstrap", "migration", "backfill"}, run \in RunIds : StartCommand(kind, run)
  \/ BootstrapStep
  \/ MigrationStep
  \/ BackfillStep
  \/ PassOver
  \/ Killed
  \/ \E run \in RunIds : RollBack(run)

Cutover == CaptureBaseline \/ StartCutover \/ CommitCutover \/ AbandonCutover \/ RollBackCutover

IdentityNext == ByHand \/ Web \/ Command \/ Cutover

IdentitySpec == IdentityInit /\ [][IdentityNext]_identityVars

-----------------------------------------------------------------------------
(* Properties.                                                             *)

\* Every asset that has held one of the row's spellings.
EverHeld(k) ==
  (UNION {{current[Claim(k)[i]]} \union former[Claim(k)[i]] : i \in DOMAIN Claim(k)}) \ {0}

\* The asset id on a row is one of an asset that has held a spelling of the
\* row, whoever wrote it: a handler from its cache, or a backfill from a plan
\* that was overtaken, killed, resumed or rolled back.  The exception is a row
\* that was given the id of a deleted one of another shape while a backfill that
\* had planned for the deleted one was running.
RowsNameTheListing ==
  \A i \in DOMAIN rows :
    rows[i].asset # 0 /\ ~rows[i].misplanned => rows[i].asset \in EverHeld(rows[i].shape)

\* A holding or an entry of the watchlist, which a backfill finds by its symbol
\* when it writes, has no exception.
LabelsNameTheListing ==
  \A p \in Places, k \in ShapeIds :
    LET a == labels[p][Shapes[k].symbol] IN a # 0 => a \in EverHeld(k)

\* However registration, backfill and its rollback race with handlers, deleted
\* portfolios, faults and edits, an asset id says which listing it is of.
IdsNameTheListing == RowsNameTheListing /\ LabelsNameTheListing

\* A committed cutover leaves every position of the ledger it replayed in one
\* piece, none hidden behind another of the same symbol, if the baseline was
\* captured of that ledger and before any cutover.
CutoverHidesNothing ==
  [][CommitCutover /\ cutover.legacyBaseline =>
       \A p, q \in cutover.positions : ReportSymbol(p) = ReportSymbol(q) => p = q]_identityVars
=============================================================================
