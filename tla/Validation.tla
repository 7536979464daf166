----------------------------- MODULE Validation -----------------------------
(* How bars are divided for validation: combinatorial folds with purging and *)
(* embargo (CPCV) and walk-forward windows.  Bars are numbered from 0.       *)
EXTENDS Integers, FiniteSets, FiniteSetsExt, Sequences

CONSTANTS
  NumBars, NumSplits, TestSplits, Embargoes, \* bars, n_splits, n_test_splits
  LabelLengths,                            \* bars a label looks ahead, less one
  TrainSizes, TestSizes                    \* of walk-forward windows

ASSUME ValidationAssumption ==
  /\ NumBars \in Nat \ {0} /\ NumSplits \in 1..NumBars /\ TestSplits \in 1..(NumSplits - 1)
  /\ Embargoes \subseteq Nat /\ LabelLengths \subseteq Nat \cup {-1}
  /\ TrainSizes \subseteq Nat \ {0} /\ TestSizes \subseteq Nat \ {0}

VARIABLES
  fold,      \* the fold last yielded by split(): train and test, its setting
  windows    \* what build_windows() returned: first of train, of test, and after
validationVars == <<fold, windows>>

-----------------------------------------------------------------------------
(* CPCV.split() *)

Indices == 0..(NumBars - 1)
(* np.array_split(): the first groups are longer by one.                     *)
GroupStart(g) == g * (NumBars \div NumSplits) + Min({g, NumBars % NumSplits})
Group(g) == GroupStart(g)..(GroupStart(g + 1) - 1)
InGroups(G) == UNION {Group(g) : g \in G}

(* Both masks reach from the first to the last bar of the whole test set.    *)
EmbargoAfter(train, test, embargo) ==  \* mutant: only the bars after the test
  {i \in train : ~\E t, u \in test : t <= i /\ i <= u + embargo}
Embargoed(train, test, embargo) ==
  IF embargo = 0 THEN train
  ELSE {i \in train : ~\E t, u \in test : t - embargo <= i /\ i <= u + embargo}

(* label_spans: the label of bar i is made of the bars i..i+length, or there *)
(* are none.                                                                 *)
NoLabels == -1
Purged(train, test, length) ==
  IF length = NoLabels THEN train
  ELSE {i \in train : ~\E t, u \in test : t <= i + length /\ i <= u}

Split(testGroups, embargo, length) ==
  LET test == InGroups(testGroups)
      train == Purged(Embargoed(Indices \ test, test, embargo), test, length)
  IN [train |-> train, test |-> test, embargo |-> embargo, length |-> length]

(* build_windows(): steps of a test size, as long as both parts fit.         *)
Windows(train, test) ==
  {<<i, i + train, i + train + test>> :
     i \in {j \in 0..(NumBars - train - test) : j % test = 0}}

-----------------------------------------------------------------------------
ValidationInit ==
  /\ fold = [train |-> {}, test |-> {}, embargo |-> 0, length |-> 0]
  /\ windows = {}

(* Folds whose training set is empty are skipped.                            *)
YieldFold ==
  /\ \E G \in kSubset(TestSplits, 0..(NumSplits - 1)),
        embargo \in Embargoes, length \in LabelLengths :
       fold' = Split(G, embargo, length) /\ fold'.train # {}
  /\ UNCHANGED windows

BuildWindows ==
  /\ \E train \in TrainSizes, test \in TestSizes : windows' = Windows(train, test)
  /\ UNCHANGED fold

ValidationNext == YieldFold \/ BuildWindows

ValidationSpec == ValidationInit /\ [][ValidationNext]_validationVars

-----------------------------------------------------------------------------
(* Nothing of the test leaks into the training: no bar is in both, the label *)
(* of no training bar is made of a test bar or the other way round, and the  *)
(* embargo is kept on both sides of every test bar, also when the test       *)
(* groups are apart.                                                         *)
FoldsAreApart ==
  \A i \in fold.train, t \in fold.test :
    /\ i < t - fold.embargo \/ i > t + fold.embargo
    /\ ~(i <= t /\ t <= i + fold.length)

(* Walk-forward windows test every bar at most once, and every bar between   *)
(* the first training and the last whole test window exactly once, each on   *)
(* the bars right before it.                                                 *)
WindowsTileTheTests ==
  windows # {} =>
    \A i \in Indices :
      Cardinality({w \in windows : w[2] <= i /\ i < w[3]}) =
        IF Min({w[2] : w \in windows}) <= i /\ i < Max({w[3] : w \in windows}) THEN 1 ELSE 0

(* What is tested was not trained on, and is tested once. *)
NothingLeaks == FoldsAreApart /\ WindowsTileTheTests
=============================================================================
