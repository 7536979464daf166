------------------------------- MODULE Slices -------------------------------
(* A large order cut into slices: the plans of the TWAP and VWAP slicers,    *)
(* the TWAP slices filled one after the other with what is unfilled carried  *)
(* on, and the decision about the rest of a partially filled order near the  *)
(* close.  Quantities are whole shares, times minutes.                       *)
EXTENDS Integers, Sequences, SequencesExt

CONSTANTS
  Totals, Volumes,   \* quantities of orders; daily volumes, 0: unknown
  NumSlices, Window, \* slices of a plan and the minutes between two of them
  Opens              \* minutes to the close at which an order may start

ASSUME SlicesAssumption ==
  /\ Totals \subseteq Nat \ {0} /\ Volumes \subseteq Nat
  /\ NumSlices \in Nat \ {0} /\ Window \in Nat \ {0} /\ Opens \subseteq Nat

VARIABLES
  ordered,  \* total_qty and adv of the order; <<>> before it is planned
  plan,     \* quantities of the TWAP slices that are still to be sent
  filled,   \* total_filled
  dropped,  \* history: unfilled quantity that update_carry had no slice for
  minutes,  \* to the close, from the start of the order
  verdict   \* history: the last decision about the rest of the order
sliceVars == <<ordered, plan, filled, dropped, minutes, verdict>>

Sum(s) == FoldLeft(LAMBDA x, y : x + y, 0, s)
Least(x, y) == IF x < y THEN x ELSE y
Most(x, y) == IF x > y THEN x ELSE y

(* round(n / d, 0): halves go to the even neighbour *)
Round(n, d) ==
  LET low == n \div d
      up  == 2 * (n % d) > d \/ (2 * (n % d) = d /\ low % 2 = 1)
  IN IF up THEN low + 1 ELSE low

-----------------------------------------------------------------------------
(* TwapSlicer.build_plan(): equal slices of at most 5% of the volume and at  *)
(* least a share, as many as the order needs and the window allows.          *)
CapsTwap(total, adv) == adv > 0 /\ NumSlices * adv < 20 * total
TwapSlice(total, adv) ==
  Most(1, IF CapsTwap(total, adv) THEN Round(adv, 20) ELSE Round(total, NumSlices))
TwapPlan(total, adv) ==
  LET q == TwapSlice(total, adv)
  IN [i \in 1..Least(NumSlices, (total + q - 1) \div q) |->
        Least(q, total - (i - 1) * q)]

(* VwapSlicer.build_plan(): what remains is reduced by the slice, what is    *)
(* sent is the slice rounded; so all slices are equal.                       *)
CapsVwap(total, adv) == adv > 0 /\ adv < 5 * total
VwapPlan(total, adv) ==
  [i \in 1..NumSlices |->
     IF CapsVwap(total, adv) THEN Round(adv, 5 * NumSlices) ELSE Round(total, NumSlices)]

(* PartialFillHandler.decide() *)
Decide(original, got, left) ==
  IF left <= 5 \/ (2 * (original - got) > original /\ left < 60) THEN "cancel" ELSE "keep"

-----------------------------------------------------------------------------
SliceInit ==
  /\ ordered = <<>> /\ plan = <<>> /\ filled = 0 /\ dropped = 0
  /\ minutes = 0 /\ verdict = "keep"

BuildPlan ==
  /\ ordered = <<>>
  /\ \E total \in Totals, adv \in Volumes :
       ordered' = <<total, adv>> /\ plan' = TwapPlan(total, adv)
  /\ minutes' \in Opens
  /\ UNCHANGED <<filled, dropped, verdict>>

(* update_carry(): the rest joins the next slice, if there is one.           *)
CarriedPast(unfilled) ==  \* mutant: the last slice is sent again
  IF Len(plan) > 1 THEN [Tail(plan) EXCEPT ![1] = @ + unfilled] ELSE <<unfilled>>
Carried(unfilled) ==
  IF Len(plan) > 1 THEN [Tail(plan) EXCEPT ![1] = @ + unfilled] ELSE <<>>

(* A slice's time is over: a part of it is filled, the rest is carried.      *)
SliceEnds ==
  /\ plan # <<>>
  /\ \E got \in 0..Head(plan) :
       /\ filled' = filled + got
       /\ plan' = Carried(Head(plan) - got)
       /\ dropped' = IF Len(plan) > 1 THEN dropped ELSE Head(plan) - got
       /\ minutes' = Most(0, minutes - Window)
       /\ verdict' = IF got = Head(plan) \/ got = 0 THEN verdict
                     ELSE Decide(ordered[1], filled', minutes')
  /\ UNCHANGED ordered

SliceNext == BuildPlan \/ SliceEnds
SliceSpec == SliceInit /\ [][SliceNext]_sliceVars

-----------------------------------------------------------------------------
SliceTypeOK ==
  /\ plan \in Seq(Nat) /\ Len(plan) <= NumSlices
  /\ filled \in Nat /\ dropped \in Nat /\ minutes \in Nat
  /\ verdict \in {"keep", "cancel"}

(* Every share of a TWAP order is filled, in a slice to come, left over by   *)
(* the last slice, or was never planned; the latter only by the cap on the   *)
(* volume or by rounding, and then less than half a share a slice.  The      *)
(* docstrings of both slicers promise more, completion without abandonment   *)
(* of unfilled quantity: what the last slice leaves over and what was never  *)
(* planned is abandoned all the same, and is what this accounts for.         *)
SharesAreAccounted ==
  ordered # <<>> =>
    LET unplanned == ordered[1] - (filled + Sum(plan) + dropped)
    IN /\ unplanned >= 0 /\ (plan # <<>> => dropped = 0)
       /\ ~CapsTwap(ordered[1], ordered[2]) => 2 * unplanned <= NumSlices

(* A VWAP plan may be more or less than the order, by at most half a share a *)
(* slice when the cap on the volume does not bind, and never by more above.  *)
VwapStaysNearTheOrder ==
  ordered # <<>> =>
    LET total == ordered[1]
        planned == Sum(VwapPlan(total, ordered[2]))
    IN /\ 2 * (planned - total) <= NumSlices
       /\ ~CapsVwap(total, ordered[2]) => 2 * (total - planned) <= NumSlices

(* Once the rest of an order is to be given up only a fill after which at    *)
(* most half is left saves it, and not in the last five minutes.             *)
DecisionsHarden ==
  [][verdict' # verdict /\ verdict' = "keep" =>
       minutes' > 5 /\ filled' > filled /\ 2 * filled' >= ordered[1]]_sliceVars

(* Plans lose nothing unseen, and the decision on a rest stands. *)
SlicingIsSound ==
  [](SliceTypeOK /\ SharesAreAccounted /\ VwapStaysNearTheOrder) /\ DecisionsHarden
=============================================================================
