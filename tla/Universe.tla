------------------------------ MODULE Universe ------------------------------
(* Which symbols may be traded: the static universe, built once a quarter,   *)
(* and the daily filters run on it each morning, fed with the halts that the *)
(* corporate actions handler reads off the bars.  The filters change the     *)
(* snapshot they are given in place.                                         *)
EXTENDS Integers, Sequences, FiniteSets, FiniteSetsExt

CONSTANTS
  Tickers, Blacklist,   \* the watchlist, and leveraged funds
  Fundamentals,         \* readings of a symbol's fundamentals
  EventDays,            \* days in the calendars of earnings and dividends; 0: none
  LastDay               \* bound: days

ASSUME UniverseAssumption ==
  /\ IsFiniteSet(Tickers) /\ Blacklist \subseteq Tickers
  /\ EventDays \subseteq Nat /\ LastDay \in Nat

VARIABLES
  today,
  excluded,  \* snapshot: symbol -> excluded_reason; Active
  bars,      \* the symbols that traded, day by day before today
  earnings, exdiv,  \* symbol -> day of its earnings, of its ex-dividend
  eligible,  \* history: symbols the static filters let in when the snapshot was built
  ran        \* history: days on which the filters ran on this snapshot
universeVars == <<today, excluded, bars, earnings, exdiv, eligible, ran>>

Active == "active"
ActiveSymbols == {s \in Tickers : excluded[s] = Active}

-----------------------------------------------------------------------------
(* get_static_universe(): capitalization in billions, volume in thousands.   *)
StaticReason(s, f) ==
  CASE s \in Blacklist -> "leveraged_etf_blacklist"
    [] s \notin Blacklist /\ f.cap < 2 -> "market_cap_too_small"
    [] s \notin Blacklist /\ f.cap >= 2 /\ f.volume < 500 -> "avg_volume_too_low"
    [] s \notin Blacklist /\ f.cap >= 2 /\ f.volume >= 500 /\ f.spread > 15 -> "spread_too_wide"
    [] OTHER -> Active

(* Three bars on end without volume, wherever in the bars before a day.      *)
HaltDays == 3
Halted(s, day) ==
  \E n \in HaltDays..(day - 1) : \A k \in (n - HaltDays + 1)..n : s \notin bars[k]

(* apply_daily_filters() of a day: earnings near by, and every earlier day   *)
(* of the calendar; an ex-dividend tomorrow; then the sets that the caller   *)
(* hands in, the halted symbols for all of them.                             *)
Buffer == 3
DailyReasonIgnoringHalts(s) ==  \* mutant
  IF excluded[s] # Active THEN excluded[s]
  ELSE IF earnings[s] > 0 /\ earnings[s] - today <= Buffer THEN "earnings_soon"
  ELSE IF exdiv[s] = today + 1 THEN "ex_div_tomorrow" ELSE Active
DailyReason(s) ==
  IF excluded[s] # Active THEN excluded[s]
  ELSE IF earnings[s] > 0 /\ earnings[s] - today <= Buffer THEN "earnings_soon"
  ELSE IF exdiv[s] = today + 1 THEN "ex_div_tomorrow"
  ELSE IF Halted(s, today) THEN "halted" ELSE Active

-----------------------------------------------------------------------------
UniverseInit ==
  /\ today = 0 /\ bars = <<>>
  /\ earnings = [s \in Tickers |-> 0] /\ exdiv = [s \in Tickers |-> 0]
  /\ excluded = [s \in Tickers |-> "not_built"] /\ eligible = {} /\ ran = {}

Calendars ==
  /\ today = 0 /\ today' = 1
  /\ earnings' \in [Tickers -> EventDays] /\ exdiv' \in [Tickers -> EventDays]
  /\ UNCHANGED <<excluded, bars, eligible, ran>>

Build ==
  /\ today > 0
  /\ \E f \in [Tickers -> Fundamentals] :
       excluded' = [s \in Tickers |-> StaticReason(s, f[s])]
  /\ eligible' = {s \in Tickers : excluded'[s] = Active} /\ ran' = {}
  /\ UNCHANGED <<today, bars, earnings, exdiv>>

Filter ==
  /\ today > 0
  /\ excluded' = [s \in Tickers |-> DailyReason(s)]
  /\ ran' = ran \cup {today}
  /\ UNCHANGED <<today, bars, earnings, exdiv, eligible>>

BarsClose ==
  /\ today \in 1..(LastDay - 1) /\ today' = today + 1
  /\ \E traded \in SUBSET Tickers : bars' = Append(bars, traded)
  /\ UNCHANGED <<excluded, earnings, exdiv, eligible, ran>>

UniverseNext == Calendars \/ Build \/ Filter \/ BarsClose

UniverseSpec == UniverseInit /\ [][UniverseNext]_universeVars

-----------------------------------------------------------------------------
(* The snapshot that is filtered day after day tells exactly this: a symbol  *)
(* is active if and only if it was eligible when the snapshot was built and  *)
(* no morning the filters ran on since then had anything against it.  So     *)
(* nothing that is against it today is overlooked, and what was against it   *)
(* for one day, an ex-dividend for instance, keeps it out for the quarter    *)
(* until the snapshot is built again; earnings that are past and a halt far  *)
(* back in the bars do so even then.                                         *)
Flagged(s, day) ==
  \/ earnings[s] > 0 /\ earnings[s] - day <= Buffer
  \/ exdiv[s] = day + 1
  \/ Halted(s, day)
FlaggedIsNotTraded ==
  ActiveSymbols = {s \in eligible : \A day \in ran : ~Flagged(s, day)}
=============================================================================
