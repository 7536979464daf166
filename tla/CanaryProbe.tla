---------------------------- MODULE CanaryProbe ----------------------------
(* The synthetic probe of the market data (CanaryProbe.run): it fetches a    *)
(* bar, judges it by its age and by the last price known, and keeps price,   *)
(* result and count of failures in Redis, one write after the other; the     *)
(* process may die between two of them, or a write may raise, which ends the *)
(* probe alike.                                                              *)
EXTENDS Integers, Sequences, FiniteSetsExt

CONSTANTS
  ClosePrices,                \* close prices of bars
  MaxProbes, MaxCrashes  \* bounds: results written, deaths of the process

ASSUME CanaryAssumption ==
  ClosePrices \subseteq Nat \ {0} /\ MaxProbes \in Nat /\ MaxCrashes \in Nat

VARIABLES
  step,      \* what the probe does next: idle, store, persist, count
  probed,    \* the bar in hand: price, 0 for no bar, and whether it is fresh
  status,    \* what the bar is judged to be
  price,     \* spy:last_price, 0: not set
  results,   \* history of canary:last_result: bars with their status, how many
             \* prices had been stored by then, and how many probes had died
  fails,     \* canary:fail_count
  seen,      \* history: prices stored, in order
  counted,   \* history: results that reached the count
  crashes
canaryVars == <<step, probed, status, price, results, fails, seen, counted, crashes>>

Apart(x, y) == Max({x - y, y - x})
Sane(x, last) == last = 0 \/ 5 * Apart(x, last) < last

Judged(b) ==
  IF b.price = 0 THEN "fail"
  ELSE IF b.fresh THEN (IF Sane(b.price, price) THEN "ok" ELSE "warn")
  ELSE IF Sane(b.price, price) THEN "warn" ELSE "fail"

CanaryInit ==
  /\ step = "idle" /\ probed = [price |-> 0, fresh |-> FALSE] /\ status = "fail"
  /\ price = 0 /\ results = <<>> /\ fails = 0 /\ seen = <<>>
  /\ counted = <<>> /\ crashes = 0

(* get_latest_bar(): no bar in time, or one; it is judged before its price   *)
(* is stored.                                                                *)
Fetch ==
  /\ step = "idle" /\ Len(results) < MaxProbes
  /\ \E p \in ClosePrices \cup {0}, fresh \in BOOLEAN :
       /\ p = 0 => ~fresh
       /\ probed' = [price |-> p, fresh |-> fresh]
       /\ status' = Judged(probed')
       /\ step' = IF p = 0 THEN "persist" ELSE "store"
  /\ UNCHANGED <<price, results, fails, seen, counted, crashes>>

StoreSane ==  \* mutant: a price that is not believed is not stored
  /\ step = "store" /\ step' = "persist"
  /\ price' = IF Sane(probed.price, price) THEN probed.price ELSE price
  /\ seen' = Append(seen, probed.price)
  /\ UNCHANGED <<probed, status, results, fails, counted, crashes>>

Store ==
  /\ step = "store" /\ step' = "persist"
  /\ price' = probed.price /\ seen' = Append(seen, probed.price)
  /\ UNCHANGED <<probed, status, results, fails, counted, crashes>>

(* _on_result()                                                              *)
Persist ==
  /\ step = "persist" /\ step' = "count"
  /\ results' = Append(results, [price |-> probed.price, fresh |-> probed.fresh,
                                  status |-> status, nth |-> Len(seen), deaths |-> crashes])
  /\ UNCHANGED <<probed, status, price, fails, seen, counted, crashes>>

(* The alert that follows a failure changes nothing that is modelled.        *)

Count ==
  /\ step = "count" /\ step' = "idle"
  /\ fails' = IF status = "ok" THEN 0 ELSE fails + 1
  /\ counted' = Append(counted, results[Len(results)])
  /\ UNCHANGED <<probed, status, price, results, seen, crashes>>

Crash ==
  /\ step # "idle" /\ crashes < MaxCrashes
  /\ step' = "idle" /\ crashes' = crashes + 1
  /\ UNCHANGED <<probed, status, price, results, fails, seen, counted>>

CanaryNext == Fetch \/ Store \/ Persist \/ Count \/ Crash

CanarySpec == CanaryInit /\ [][CanaryNext]_canaryVars

-----------------------------------------------------------------------------
CanaryTypeOK ==
  /\ step \in {"idle", "store", "persist", "count"}
  /\ status \in {"ok", "warn", "fail"} /\ price \in ClosePrices \cup {0} /\ fails \in 0..MaxProbes

(* A result tells a jump from the price stored before its own, whichever     *)
(* probe stored that one and whether it lived to tell its result, and no     *)
(* other jump: so what one probe has told no later one tells again.  A fresh *)
(* bar that is near is ok, a stale one that is not fails.                    *)
JumpsAreToldOnce ==
  \A i \in DOMAIN results :
    LET r == results[i]
        jumped == 5 * Apart(r.price, seen[r.nth - 1]) >= seen[r.nth - 1]
    IN r.price # 0 /\ r.nth > 1 =>
         /\ r.status = "ok" <=> r.fresh /\ ~jumped
         /\ r.status = "fail" <=> ~r.fresh /\ jumped

(* The price is stored before its result is: a probe that dies in between    *)
(* leaves a jump that no probe ever tells.  No more of them are lost than    *)
(* probes died, between any two results and since the last.                  *)
LastOf(i) == IF i = 0 THEN [nth |-> 0, deaths |-> 0] ELSE results[i]
DeathsAloneLoseAJump ==
  /\ \A i \in DOMAIN results :
       results[i].nth - LastOf(i - 1).nth
         <= results[i].deaths - LastOf(i - 1).deaths + (IF results[i].price = 0 THEN 0 ELSE 1)
  /\ step = "idle" => Len(seen) - LastOf(Len(results)).nth
                        <= crashes - LastOf(Len(results)).deaths

(* The count is that of the results in a row that were not ok, among those   *)
(* that reached it: a death before the last write leaves one out, so that a  *)
(* failure is not counted or an ok does not reset, and nothing else does.    *)
FailuresAreInARow ==
  LET row == {i \in DOMAIN counted : \A j \in i..Len(counted) : counted[j].status # "ok"}
  IN /\ fails = Len(counted) + 1 - Min(row \cup {Len(counted) + 1})
     /\ Len(results) - Len(counted) <= crashes + (IF step = "count" THEN 1 ELSE 0)

(* What the probe stores agrees with what it saw, up to what its deaths lose. *)
ProbesTellTheTruth ==
  CanaryTypeOK /\ JumpsAreToldOnce /\ DeathsAloneLoseAJump /\ FailuresAreInARow
=============================================================================
