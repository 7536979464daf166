------------------------------ MODULE OrderFeed ------------------------------
(***************************************************************************)
(* The order state machine driven by numbered events, as the replay         *)
(* harness drives it (src/src/backtesting/deterministic_replay.py) and as   *)
(* transition_ordered() is meant for: each order has a script, the target   *)
(* of each sequence number, and its events arrive in any order, any number  *)
(* of times, or not at all.                                                *)
(***************************************************************************)
EXTENDS OrderStateMachine

CONSTANT FirstSeqs  \* the sequence numbers a record may be registered with

ASSUME FirstSeqsAssumption == FirstSeqs \subseteq Seqs \cup {-1}

VARIABLES
  script,     \* what each event of an order says
  first,      \* history: the number the record was registered with
  delivered   \* history: the numbers that have arrived since

feedVars == <<vars, script, first, delivered>>

FeedTypeOK ==
  /\ TypeOK
  /\ script \in [Orders -> [Seqs -> OrderState]]
  /\ first \in [Orders -> Seqs \cup {-1}]
  /\ delivered \in [Orders -> SUBSET Seqs]

FeedInit ==
  /\ Init
  /\ script \in [Orders -> [Seqs -> OrderState]]
  /\ first = [o \in Orders |-> -1]
  /\ delivered = [o \in Orders |-> {}]

(* The "register" event: it owns the sequence number before the others.  An   *)
(* order that lives is not registered again: the ids of the router are new.  *)
RegisterEvent(o) ==
  \E seq \in FirstSeqs :
    /\ state[o] = "absent" /\ Register(o, seq)
    /\ first' = [first EXCEPT ![o] = seq]
    /\ delivered' = [delivered EXCEPT ![o] = {}]
    /\ UNCHANGED script

(* A "transition" event; one that is refused or ignored has arrived too. *)
Deliver(o, seq) ==
  /\ TransitionOrdered(o, script[o][seq], seq)
  /\ delivered' = [delivered EXCEPT ![o] = @ \cup {seq}]
  /\ UNCHANGED <<script, first>>

(* Finished orders are cleared at the end of a session. *)
Clear == ClearTerminal /\ UNCHANGED <<script, first, delivered>>

FeedNext ==
  \/ \E o \in Orders : RegisterEvent(o) \/ \E seq \in Seqs : Deliver(o, seq)
  \/ Clear

FeedSpec == FeedInit /\ [][FeedNext]_feedVars

-----------------------------------------------------------------------------
(* Arriving in any order, lost or repeated, the events of an order act as if *)
(* they had been delivered in order: the order walks along its script.      *)
InOrder == INSTANCE InOrderDelivery
ActsInOrder == InOrder!Spec

(* The part of an order's script up to seq is legal. *)
LegalUpTo(o, seq) ==
  \A i \in (first[o] + 1)..seq :
    script[o][i] \in LegalTransitions[IF i = first[o] + 1 THEN "NEW" ELSE script[o][i - 1]]

(* Once all the events of a legal beginning have arrived, they are applied,  *)
(* the one that closes the last gap bringing the buffered ones with it.     *)
DeliveredIsApplied ==
  \A o \in Orders, seq \in Seqs :
    (/\ state[o] # "absent"
     /\ (first[o] + 1)..seq \subseteq delivered[o]
     /\ LegalUpTo(o, seq)) => seq <= last_seq[o]
=============================================================================
