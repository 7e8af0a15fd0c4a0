---------------------------- MODULE MarketRegime ----------------------------
(* detect_regime (analytics/regime_detector.py): the market's regime, how  *)
(* sure its detection is, and what it allows.                              *)
(*                                                                         *)
(* A detection looks at the signals of the benchmarks and at the regimes   *)
(* recorded on the last days, keeps its answer for half an hour and        *)
(* records it as that of the day.  Scores are in percent, z scores in      *)
(* hundredths, confidence in thousandths, shares of the portfolio in       *)
(* tenths of a percent.                                                    *)
EXTENDS Integers, Sequences, FiniteSets, FiniteSetsExt

CONSTANTS
  Readings,       \* what the benchmarks may say: scores, dispersion, z, vix (0: none)
  MaxDays        \* the days of the history that tell how stable a regime is

ASSUME RegimeAssumption ==
  /\ MaxDays \in Nat \ {0}
  /\ \A s \in Readings : {s.trend, s.vol, s.drawdown, s.momentum, s.dispersion, s.z, s.vix} \subseteq Int

Rounded(n, d) == (2 * n + d) \div (2 * d)
Least(S) == CHOOSE x \in S : \A y \in S : x <= y
Most(S)  == CHOOSE x \in S : \A y \in S : y <= x
Clamped(x, low, high) == Most({low, Least({high, x})})

\* Cash to keep, the largest position, the part of the turnover, and the stance.
Allowed(cash, position, turnover, stance, suppress) ==
  [cash |-> cash, position |-> position, turnover |-> turnover, stance |-> stance, suppress |-> suppress]

RegimeConstraints ==
  [RISK_ON             |-> Allowed(20, 250, 120, "aggressive", FALSE),
   RISK_OFF            |-> Allowed(100, 200, 70, "defensive", TRUE),
   SIDEWAYS            |-> Allowed(50, 220, 80, "selective", FALSE),
   HIGH_VOLATILITY     |-> Allowed(150, 180, 50, "preservation", TRUE),
   DEFENSIVE_REGIME    |-> Allowed(80, 220, 70, "defensive", TRUE),
   TRANSITION_RISK_ON  |-> Allowed(50, 220, 90, "cautiously_bullish", FALSE),
   TRANSITION_RISK_OFF |-> Allowed(80, 200, 80, "cautiously_defensive", TRUE)]

-----------------------------------------------------------------------------
\* In hundredths of a percent.
Composite(s) ==
  Clamped(40 * s.trend + 25 * s.vol + 20 * s.drawdown + 15 * s.momentum
            - 15 * Most({0, s.dispersion - 50}), 0, 10000)

FromNeutral(s) == Most({Composite(s) - 5000, 5000 - Composite(s)})
Base(s) == 400 + Rounded(FromNeutral(s), 10)

Turbulent(s) == s.z > 200 \/ s.vix > 30 \/ s.vol < 20 \/ s.drawdown < 20
Severity(s) == Most({s.z, 20 * (30 - (IF s.vix = 0 THEN 25 ELSE s.vix))})

\* The first of the rules that applies, and its confidence.
Classified(s) ==
  LET is(name, sure, low, high) == [name |-> name, sure |-> Clamped(sure, low, high)]
      total == Composite(s)
  IN  IF Turbulent(s) THEN is("HIGH_VOLATILITY", 550 + Least({Severity(s), 300}), 550, 950)
      ELSE IF total >= 6800 /\ s.trend >= 65 THEN is("RISK_ON", Rounded(105 * Base(s), 100), 550, 950)
      ELSE IF total <= 3500 /\ s.trend <= 40 /\ s.vol <= 55
           THEN is("RISK_OFF", Rounded(105 * Base(s), 100), 550, 950)
      ELSE IF s.trend <= 42 /\ s.vol >= 55 THEN is("DEFENSIVE_REGIME", Base(s), 450, 850)
      ELSE IF s.trend \in 43..62 /\ total >= 4200
           THEN is("SIDEWAYS", 700 - Rounded(3 * FromNeutral(s), 50), 350, 700)
      ELSE IF total >= 5400 /\ s.trend >= 52 THEN is("TRANSITION_RISK_ON", Rounded(85 * Base(s), 100), 350, 700)
      ELSE IF total <= 4600 /\ s.trend <= 48 THEN is("TRANSITION_RISK_OFF", Rounded(85 * Base(s), 100), 350, 700)
      ELSE is("SIDEWAYS", Rounded(80 * Base(s), 100), 300, 650)

-----------------------------------------------------------------------------
\* By the regimes recorded before this detection, the latest first.
Stability(days) ==
  LET regimes == Cardinality({days[i] : i \in 1..Least({Len(days), MaxDays})})
  IN  IF regimes = 1 THEN "STABLE" ELSE IF regimes <= 2 THEN "TRANSITIONING" ELSE "VOLATILE"

RegimeOf(name, stability, stressed) ==
  LET allowed == RegimeConstraints[name]
  IN  [name |-> name, stability |-> stability, stressed |-> stressed, cash |-> allowed.cash,
       position |-> allowed.position, turnover |-> allowed.turnover, stance |-> allowed.stance,
       suppress |-> allowed.suppress]

Detected(s, days) ==
  [regime |-> RegimeOf(Classified(s).name, Stability(days), s.z >= 250 \/ s.drawdown <= 15),
   sure   |-> Classified(s).sure]

\* No benchmark answered, or fetching is not allowed here: nothing is recorded.
Fallback == [regime |-> RegimeOf("SIDEWAYS", "VOLATILE", FALSE), sure |-> 350]

\* The answer is recorded for the day, in place of an earlier one of that day.
RecordedFor(days, name, newDay) ==
  IF newDay \/ days = <<>> THEN SubSeq(<<name>> \o days, 1, Least({Len(days) + 1, MaxDays}))
  ELSE [days EXCEPT ![1] = name]
=============================================================================
