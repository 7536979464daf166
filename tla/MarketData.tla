----------------------------- MODULE MarketData -----------------------------
(* What the data layer tells of a symbol: corporate actions read off its     *)
(* bars, the quality checks that put it in quarantine, and its membership in *)
(* the index at a date.  Ratios are in thousandths, dates numbered from 1.   *)
EXTENDS Integers, Sequences, FiniteSets, FiniteSetsExt

CONSTANTS
  Splits, Dividends, Moves,  \* factors, share of the price, moves of the market
  Frames,                    \* readings of a symbol's bars for the quality checks
  Dates, MaxPeriods          \* bounds: dates, membership periods

ASSUME MarketDataAssumption ==
  /\ Splits \subseteq Nat \ {0} /\ Dividends \subseteq 1..999 /\ Moves \subseteq -999..999
  /\ Frames # {} /\ Dates \in Nat /\ MaxPeriods \in Nat
  /\ \A f \in Frames : f.bars \in Nat /\ f.expected \in Nat /\ f.age \in Int /\ f.gap \in Int
                       /\ f.spike \in Int /\ f.iex \in Int

VARIABLES
  checked,   \* a frame of bars and the severity of its report
  action,    \* a corporate action and what detect() makes of it
  periods    \* records of one symbol: added, removed; 0: still a member
dataVars == <<checked, action, periods>>

NoCheck == [severity |-> 0]
NoAction == [truth |-> "none", told |-> {}]

-----------------------------------------------------------------------------
(* Corporate actions: closes of two days, as traded and adjusted backwards.  *)

Ratio(x, y) == (1000 * x) \div y
Size(x) == Max({x, -x})
KindsSwapped(raw, adj) ==  \* mutant: the ratio is turned round
  LET old == Ratio(raw[1], adj[1])  new == Ratio(raw[2], adj[2])
      apart == Size(Ratio(raw[2], raw[1]) - Ratio(adj[2], adj[1]))
  IN (IF Size(Ratio(new, old) - 1000) <= 150 THEN {}
      ELSE IF Ratio(new, old) > 1020 THEN {"split_forward"} ELSE {"split_reverse"})
     \cup (IF 1 < apart /\ apart < 150 THEN {"dividend"} ELSE {})
Kinds(raw, adj) ==
  LET old == Ratio(raw[1], adj[1])  new == Ratio(raw[2], adj[2])
      apart == Size(Ratio(raw[2], raw[1]) - Ratio(adj[2], adj[1]))
  IN (IF Size(Ratio(new, old) - 1000) <= 150 THEN {}
      ELSE IF Ratio(old, new) > 1020 THEN {"split_forward"} ELSE {"split_reverse"})
     \cup (IF 1 < apart /\ apart < 150 THEN {"dividend"} ELSE {})

Close == 60000
Moved(x, m) == (x * (1000 + m)) \div 1000

-----------------------------------------------------------------------------
(* Quality *)

Missing(f) == Ratio(f.expected - f.bars, Max({f.expected, 1}))
(* The severest of the checks of a frame of bars; short frames are not       *)
(* checked for missing bars.  The documented limits differ: more than 2 % of *)
(* missing bars was to fail (data_quality.py:91) and is a warning up to 5 %, *)
(* and an open or close outside of low and high (:10, :191) is not looked at.*)
Fails(f) ==
  \/ f.bars = 0 \/ f.inverted \/ f.nonpositive \/ f.age > 5 \/ f.gap > 400
  \/ f.bars >= 5 /\ Missing(f) > 50

Warns(f) ==
  \/ f.bars < 5 \/ Missing(f) > 20 \/ f.spike > 10 \/ f.gap > 150
  \/ f.iex \in 0..699
Severity(f) == IF Fails(f) THEN 2 ELSE IF Warns(f) THEN 1 ELSE 0

-----------------------------------------------------------------------------
(* Index members *)

WasMember(r, d) == r.added <= d /\ (r.removed = 0 \/ d < r.removed)
(* get_constituents_at() *)
Member(d) == \E r \in periods : WasMember(r, d)

-----------------------------------------------------------------------------
Checked(f) == [frame |-> f, severity |-> Severity(f)]
DataInit == checked = NoCheck /\ action = NoAction /\ periods = {}

CheckAll == \E f \in Frames : checked' = Checked(f) /\ UNCHANGED <<action, periods>>

Detect(truth, raw, adj) == [truth |-> truth, told |-> Kinds(raw, adj)]

(* A split multiplies the shares by f thousandths, a dividend takes d        *)
(* thousandths off the price, on a day the market moves by m.                *)
CorporateAction ==
  /\ \/ \E f \in Splits \ {1000}, m \in Moves :
          LET adj == (1000 * Close) \div f
          IN action' = Detect(IF f > 1000 THEN "split_forward" ELSE "split_reverse",
                              <<Close, Moved(adj, m)>>, <<adj, Moved(adj, m)>>)
     \/ \E d \in Dividends, m \in Moves :
          LET adj == Close - (Close \div 1000) * d
          IN action' = Detect("dividend", <<Close, Moved(adj, m)>>, <<adj, Moved(adj, m)>>)
  /\ UNCHANGED <<checked, periods>>

(* add_constituent(): any period, also one that overlaps another, repeats it *)
(* (which changes no answer) or ends before it begins; nothing is checked.   *)
AddConstituent ==
  /\ Cardinality(periods) < MaxPeriods
  /\ \E added \in 1..Dates, removed \in 0..Dates :
       periods' = periods \cup {[added |-> added, removed |-> removed]}
  /\ UNCHANGED <<checked, action>>

DataNext == CheckAll \/ CorporateAction \/ AddConstituent

DataSpec == DataInit /\ [][DataNext]_dataVars

-----------------------------------------------------------------------------
(* Forward and reverse splits of a fifth or more and dividends of up to an   *)
(* eighth are told apart on any day the market moves by less than a tenth.   *)
ActionsAreToldApart == action # NoAction => action.told = {action.truth}

(* A frame that is worse in every respect is never judged milder, as long as *)
(* it has the five bars that the check for missing bars wants.               *)
Worse(f, g) ==
  /\ f.bars <= g.bars /\ f.expected = g.expected /\ f.age >= g.age /\ f.gap >= g.gap
  /\ f.spike >= g.spike /\ f.iex = g.iex
  /\ (g.inverted => f.inverted) /\ (g.nonpositive => f.nonpositive)
WorseDataIsJudgedHarder ==
  checked # NoCheck => \A f \in Frames :
    /\ Worse(f, checked.frame) /\ f.bars \notin 1..4 => Severity(f) >= checked.severity
    /\ Worse(checked.frame, f) /\ checked.frame.bars \notin 1..4 => checked.severity >= Severity(f)

(* Whatever records are loaded, in any order and overlapping: a symbol joins *)
(* the index only on a date it was added, leaves it only on a date it was    *)
(* removed, and never leaves while a record has it as a member still: a      *)
(* later record of its removal does not end an earlier one without an end.   *)
MembersComeAndGoAsRecorded ==
  \A d, e \in 1..Dates : d < e =>
    /\ Member(e) /\ ~Member(d) => \E r \in periods : r.added \in (d + 1)..e
    /\ Member(d) /\ ~Member(e) =>
         /\ \E r \in periods : r.removed \in (d + 1)..e
         /\ \A r \in periods : r.removed = 0 => e < r.added

(* Corporate actions, quality of frames and memberships are told right. *)
DataIsJudgedRight ==
  ActionsAreToldApart /\ WorseDataIsJudgedHarder /\ MembersComeAndGoAsRecorded
=============================================================================
