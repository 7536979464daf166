-------------------------- MODULE OrderStateMachine --------------------------
(***************************************************************************)
(* The in-memory lifecycle of orders                                       *)
(* (src/src/execution/order_state_machine.py, class OrderStateMachine):    *)
(* plain transitions, and transitions numbered by a sequence that buffer    *)
(* what arrives early.  The methods run to completion on one event loop.   *)
(* Fill quantities, prices and errors follow the state and are left out.   *)
(***************************************************************************)
EXTENDS Integers, FiniteSets

CONSTANTS
  Orders,  \* order ids
  MaxSeq   \* bound on sequence numbers

ASSUME MaxSeqAssumption == MaxSeq \in Nat

VARIABLES
  state,     \* the state of each record, "absent" when there is none
  last_seq,  \* the last applied sequence number
  pending    \* the buffered target of each sequence number, "none" without one

vars == <<state, last_seq, pending>>

OrderState == {"NEW", "SENT", "ACK", "PARTIAL", "FILLED", "CANCELED", "REJECTED", "EXPIRED"}
Terminal   == {"FILLED", "CANCELED", "REJECTED", "EXPIRED"}
Seqs       == 0..MaxSeq

LegalTransitions ==
  [s \in OrderState |->
     CASE s = "NEW"     -> {"SENT", "CANCELED"}
       [] s = "SENT"    -> {"ACK", "REJECTED", "CANCELED"}
       [] s = "ACK"     -> {"PARTIAL", "FILLED", "CANCELED", "EXPIRED"}
       [] s = "PARTIAL" -> {"FILLED", "CANCELED", "EXPIRED"}
       [] OTHER         -> {}]

NoEvents == [seq \in Seqs |-> "none"]

TypeOK ==
  /\ state \in [Orders -> OrderState \cup {"absent"}]
  /\ last_seq \in [Orders -> Seqs \cup {-1}]
  /\ pending \in [Orders -> [Seqs -> OrderState \cup {"none"}]]

Init ==
  /\ state = [o \in Orders |-> "absent"]
  /\ last_seq = [o \in Orders |-> -1]
  /\ pending = [o \in Orders |-> NoEvents]

-----------------------------------------------------------------------------
(* register(): a new record, in the place of an older one if there is one; a  *)
(* replay numbers it, the router does not.  The buffer stays as it is.       *)
Register(o, seq) ==
  /\ state' = [state EXCEPT ![o] = "NEW"]
  /\ last_seq' = [last_seq EXCEPT ![o] = seq]
  /\ UNCHANGED pending

(* transition(): the target must be legal; nothing is legal from a terminal *)
(* state.  A refused transition changes nothing.                           *)
Transition(o, target) ==
  /\ state[o] # "absent" /\ target \in LegalTransitions[state[o]]
  /\ state' = [state EXCEPT ![o] = target]
  /\ UNCHANGED <<last_seq, pending>>

(* transition_ordered() of a duplicate of the last event, or of the next     *)
(* event when its target is illegal: nothing changes.                       *)
IgnoreEvent(o, target, seq) ==
  /\ state[o] # "absent"
  /\ \/ seq = last_seq[o]
     \/ seq = last_seq[o] + 1 /\ target \notin LegalTransitions[state[o]]
  /\ UNCHANGED vars

(* transition_ordered() of an event that is late or ahead of a gap. *)
BufferEvent(o, target, seq) ==
  /\ state[o] # "absent" /\ seq \notin {last_seq[o], last_seq[o] + 1}
  /\ pending' = [pending EXCEPT ![o][seq] = target]
  /\ UNCHANGED <<state, last_seq>>

(* A variant with a bug: what is flushed is not checked for legality. *)
ReplayableUnchecked(buffer, s, seq, last) ==
  \A i \in (seq + 1)..last : buffer[i] # "none"

(* The buffered events after seq that can be applied one after the other,   *)
(* the first one to a record in state s.                                    *)
Replayable(buffer, s, seq, last) ==
  LET Before(i) == IF i = seq + 1 THEN s ELSE buffer[i - 1] IN
  /\ \A i \in (seq + 1)..last : buffer[i] # "none"
  /\ \A i \in (seq + 1)..last : buffer[i] \in LegalTransitions[Before(i)]

(* A variant with a bug: the buffer is left alone. *)
FlushNothing(o, target, seq) ==
  /\ state' = [state EXCEPT ![o] = target]
  /\ last_seq' = [last_seq EXCEPT ![o] = seq]
  /\ UNCHANGED pending

(* _flush_pending(): pops and applies the events after seq, up to the first *)
(* one missing, or the first illegal one, which is popped all the same.     *)
FlushPending(o, target, seq) ==
  \E last \in seq..MaxSeq :
    /\ Replayable(pending[o], target, seq, last)
    /\ last < MaxSeq => ~Replayable(pending[o], target, seq, last + 1)
    /\ state' = [state EXCEPT ![o] = IF last = seq THEN target ELSE pending[o][last]]
    /\ last_seq' = [last_seq EXCEPT ![o] = last]
    /\ pending' = [pending EXCEPT ![o] =
         [i \in Seqs |-> IF i \in (seq + 1)..(last + 1) THEN "none" ELSE pending[o][i]]]

(* transition_ordered() of the next event, when it is legal. *)
ApplyEvent(o, target, seq) ==
  /\ state[o] # "absent" /\ seq = last_seq[o] + 1
  /\ target \in LegalTransitions[state[o]]
  /\ FlushPending(o, target, seq)

TransitionOrdered(o, target, seq) ==
  IgnoreEvent(o, target, seq) \/ BufferEvent(o, target, seq) \/ ApplyEvent(o, target, seq)

(* clear_terminal() forgets finished orders and their buffers. *)
ClearTerminal ==
  LET done == {o \in Orders : state[o] \in Terminal} IN
  /\ done # {}
  /\ state' = [o \in Orders |-> IF o \in done THEN "absent" ELSE state[o]]
  /\ last_seq' = [o \in Orders |-> IF o \in done THEN -1 ELSE last_seq[o]]
  /\ pending' = [o \in Orders |-> IF o \in done THEN NoEvents ELSE pending[o]]

Next ==
  \/ \E o \in Orders, seq \in Seqs \cup {-1} : Register(o, seq)
  \/ \E o \in Orders, target \in OrderState :
       \/ Transition(o, target)
       \/ \E seq \in Seqs : TransitionOrdered(o, target, seq)
  \/ ClearTerminal

Spec == Init /\ [][Next]_vars

-----------------------------------------------------------------------------
(* The event an order is ready for waits in its buffer. *)
EventWaits(o) == last_seq[o] < MaxSeq /\ pending[o][last_seq[o] + 1] # "none"

(* No buffer is kept for an order that is gone: the memory would never be    *)
(* freed, and a later order of that name would begin with its events.       *)
NoBufferOfTheGone == \A o \in Orders : state[o] = "absent" => pending[o] = NoEvents

(* Only by registering an order again over its record is an event left       *)
(* waiting when its turn has come: every other call applies it or drops it.  *)
OnlyRegisteringStrandsEvents ==
  [][\A o \in Orders :
       EventWaits(o)' /\ ~EventWaits(o) => state[o] # "absent" /\ state'[o] = "NEW"]_vars
=============================================================================
