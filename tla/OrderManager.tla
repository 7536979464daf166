---------------------------- MODULE OrderManager ----------------------------
(* OrderManager (src/execution/order_manager.py) before a broker whose       *)
(* submit_order() waits for the rate limiter, as the limiter's docstring has *)
(* it injected.  One coroutine per order runs submit(); fill and reject      *)
(* events of the stream and the cancelling of stale orders run beside it.    *)
EXTENDS RateLimiter, TLC

CONSTANTS
  Attempts,   \* max_retry_attempts
  MaxFaults   \* bound: errors of the broker, replies lost or without an id

ASSUME ManagerAssumption == Attempts \in Nat \ {0} /\ MaxFaults \in Nat

Orders == Callers
Ids    == Orders \X (1..Attempts)  \* the order an attempt makes at the broker
None   == <<>>

VARIABLES
  pc,          \* order -> where its submit() is
  attempt,     \* order -> number of the attempt
  reply,       \* order -> what broker.submit_order() will return
  open,        \* _open_orders
  broker,      \* id -> what the order is at the broker
  events,      \* fill and reject events not handled yet
  sweep,       \* ids cancel_stale() has still to cancel
  cancelling,  \* the cancel under way: <<>> or <<id, whether the call returns>>
  early,       \* history: ids whose event found no open order
  lost,        \* history: ids whose reply was lost
  refused,     \* history: live ids the broker answered False to cancel
  faults
manager == <<pc, attempt, reply, open, broker, events, sweep, cancelling, early, lost, refused, faults>>
vars    == <<limiter, manager>>

Live   == {i \in Ids : broker[i] = "open"}
Closed == {i \in Ids : broker[i] \in {"filled", "rejected", "cancelled"}}

ManagerTypeOK ==
  /\ LimiterTypeOK
  /\ pc \in [Orders -> {"idle", "acquire", "post", "reply", "backoff", "submitted", "failed"}]
  /\ attempt \in [Orders -> 1..Attempts]
  /\ reply \in [Orders -> {"none", "id", "no_id", "error"}]
  /\ broker \in [Ids -> {"none", "open", "filled", "rejected", "cancelled"}]
  /\ open \subseteq Ids /\ events \subseteq Ids /\ sweep \subseteq Ids
  /\ cancelling = None \/ cancelling \in Ids \X BOOLEAN
  /\ early \subseteq Ids /\ lost \subseteq Ids /\ refused \subseteq Ids
  /\ faults \in 0..MaxFaults

Init ==
  /\ LimiterInit
  /\ pc = [o \in Orders |-> "idle"] /\ attempt = [o \in Orders |-> 1]
  /\ reply = [o \in Orders |-> "none"]
  /\ broker = [i \in Ids |-> "none"]
  /\ open = {} /\ events = {} /\ sweep = {} /\ cancelling = None
  /\ early = {} /\ lost = {} /\ refused = {} /\ faults = 0

Fault == faults < MaxFaults /\ faults' = faults + 1
Id(o) == <<o, attempt[o]>>
Goto(o, l) == pc' = [pc EXCEPT ![o] = l]

-----------------------------------------------------------------------------
(* submit() *)

Submit(o) ==
  /\ pc[o] = "idle" /\ Goto(o, "acquire")
  /\ UNCHANGED <<limiter, attempt, reply, open, broker, events, sweep, cancelling, early, lost, refused, faults>>

(* await limiter.acquire() *)
Acquire(o) ==
  /\ pc[o] = "acquire" /\ wait[o] = 0
  /\ \/ Take(1) /\ Goto(o, "post")
     \/ Doze(o, 1) /\ UNCHANGED pc
  /\ UNCHANGED <<attempt, reply, open, broker, events, sweep, cancelling, early, lost, refused, faults>>

(* The broker takes the order or refuses it; its reply may be lost or lack   *)
(* the id.                                                                  *)
Post(o) ==
  /\ pc[o] = "post" /\ Goto(o, "reply")
  /\ \/ /\ broker' = [broker EXCEPT ![Id(o)] = "open"]
        /\ \/ reply' = [reply EXCEPT ![o] = "id"] /\ UNCHANGED <<lost, faults>>
           \/ \E r \in {"no_id", "error"} : reply' = [reply EXCEPT ![o] = r]
              /\ lost' = lost \cup {Id(o)} /\ Fault
     \/ /\ reply' = [reply EXCEPT ![o] = "error"] /\ Fault
        /\ UNCHANGED <<broker, lost>>
  /\ UNCHANGED <<limiter, attempt, open, events, sweep, cancelling, early, refused>>

(* A variant with a bug: the return is missing. *)
TrackedButTriedAgain(o) ==
  /\ pc[o] = "reply" /\ reply[o] = "id"
  /\ open' = open \cup {Id(o)}
  /\ IF attempt[o] < Attempts
     THEN Goto(o, "acquire") /\ attempt' = [attempt EXCEPT ![o] = @ + 1]
     ELSE Goto(o, "submitted") /\ UNCHANGED attempt
  /\ UNCHANGED <<limiter, reply, broker, events, sweep, cancelling, early, lost, refused, faults>>

Tracked(o) ==
  /\ pc[o] = "reply" /\ reply[o] = "id"
  /\ open' = open \cup {Id(o)} /\ Goto(o, "submitted")
  /\ UNCHANGED <<limiter, attempt, reply, broker, events, sweep, cancelling, early, lost, refused, faults>>

(* An exception waits before the next attempt, a reply without id does not;  *)
(* the last attempt gives the order up.                                      *)
NotTracked(o) ==
  /\ pc[o] = "reply" /\ reply[o] # "id"
  /\ IF attempt[o] = Attempts
     THEN Goto(o, "failed") /\ UNCHANGED attempt
     ELSE IF reply[o] = "error"
          THEN Goto(o, "backoff") /\ UNCHANGED attempt
          ELSE Goto(o, "acquire") /\ attempt' = [attempt EXCEPT ![o] = @ + 1]
  /\ UNCHANGED <<limiter, reply, open, broker, events, sweep, cancelling, early, lost, refused, faults>>

Retry(o) ==
  /\ pc[o] = "backoff" /\ Goto(o, "acquire")
  /\ attempt' = [attempt EXCEPT ![o] = @ + 1]
  /\ UNCHANGED <<limiter, reply, open, broker, events, sweep, cancelling, early, lost, refused, faults>>

-----------------------------------------------------------------------------
(* The broker and its stream. *)

Finish(i) ==
  /\ broker[i] = "open"
  /\ \E s \in {"filled", "rejected"} : broker' = [broker EXCEPT ![i] = s]
  /\ events' = events \cup {i}
  /\ UNCHANGED <<limiter, pc, attempt, reply, open, sweep, cancelling, early, lost, refused, faults>>

(* handle_fill(), handle_reject() *)
HandleEvent(i) ==
  /\ i \in events
  /\ events' = events \ {i} /\ open' = open \ {i}
  /\ early' = IF i \in open THEN early ELSE early \cup {i}
  /\ UNCHANGED <<limiter, pc, attempt, reply, broker, sweep, cancelling, lost, refused, faults>>

-----------------------------------------------------------------------------
(* cancel_stale(): those found stale at the beginning, one after the other. *)

FindStale ==
  /\ sweep = {} /\ cancelling = None
  /\ \E stale \in (SUBSET open) \ {{}} : sweep' = stale
  /\ UNCHANGED <<limiter, pc, attempt, reply, open, broker, events, cancelling, early, lost, refused, faults>>

(* cancel(): the broker cancels what is open and answers True, refuses what   *)
(* is not, and may refuse what is.  It refuses with False or an exception;   *)
(* the reply of a cancel that was done may be lost.                          *)
Cancel(i) ==
  /\ i \in sweep /\ cancelling = None
  /\ sweep' = sweep \ {i}
  /\ \/ /\ i \in Live
        /\ broker' = [broker EXCEPT ![i] = "cancelled"]
        /\ \/ cancelling' = <<i, TRUE>> /\ UNCHANGED <<lost, faults>>
           \/ cancelling' = <<i, FALSE>> /\ lost' = lost \cup {i} /\ Fault
        /\ UNCHANGED refused
     \/ /\ i \notin Live /\ cancelling' \in {<<i, TRUE>>, <<i, FALSE>>}
        /\ UNCHANGED <<broker, lost, refused, faults>>
     \/ /\ i \in Live /\ Fault
        /\ \/ cancelling' = <<i, TRUE>> /\ refused' = refused \cup {i}
           \/ cancelling' = <<i, FALSE>> /\ UNCHANGED refused
        /\ UNCHANGED <<broker, lost>>
  /\ UNCHANGED <<limiter, pc, attempt, reply, open, events, early>>

(* Whatever the broker answered, the order leaves the book; it stays if the   *)
(* call raised.                                                             *)
CancelReturns ==
  /\ cancelling # None
  /\ open' = IF cancelling[2] THEN open \ {cancelling[1]} ELSE open
  /\ cancelling' = None
  /\ UNCHANGED <<limiter, pc, attempt, reply, broker, events, sweep, early, lost, refused, faults>>

-----------------------------------------------------------------------------
Time == Tick /\ UNCHANGED manager
Read == Available /\ UNCHANGED manager

Next ==
  \/ \E o \in Orders : \/ Submit(o) \/ Acquire(o) \/ Post(o)
                       \/ Tracked(o) \/ NotTracked(o) \/ Retry(o)
  \/ \E i \in Ids : Finish(i) \/ HandleEvent(i) \/ Cancel(i)
  \/ FindStale \/ CancelReturns
  \/ Time \/ Read

Spec == Init /\ [][Next]_vars

(* The event loop runs what is ready, the broker answers or the call times   *)
(* out, and time passes.  Nothing is promised of fills or of cancel_stale(). *)
Fairness ==
  /\ WF_vars(Time)
  /\ \A o \in Orders :
       WF_vars(Acquire(o) \/ Post(o) \/ Tracked(o) \/ NotTracked(o) \/ Retry(o))
FairSpec == Spec /\ Fairness

-----------------------------------------------------------------------------
(* submit() retries without an idempotency key: an order is at the broker    *)
(* more than once only if the reply to every copy but the last was lost.     *)
CopiesOnlyOfLostReplies ==
  \A o \in Orders :
    Cardinality({i \in (Live \cup Closed) \ lost : i[1] = o}) <= 1

(* What the manager calls open and what is open at the broker differ only by *)
(* calls and events under way, by lost replies, by an event that came before *)
(* the reply to its order, and by a cancel the broker answered with False,   *)
(* which cancel() takes for a success although AbstractBroker says           *)
(* otherwise; and every submit() ends, although all orders share the bucket  *)
(* and calls fail.                                                          *)
OpenOrdersAreKnown ==
  LET replying == {Id(o) : o \in {p \in Orders : pc[p] = "reply"}}
      cancelled == IF cancelling = None THEN {} ELSE {cancelling[1]}
  IN /\ Live \ open \subseteq replying \cup lost \cup refused
     /\ open \ Live \subseteq events \cup cancelled \cup lost \cup early

SubmissionsEnd ==
  \A o \in Orders : pc[o] = "acquire" ~> pc[o] \in {"submitted", "failed"}

SubmissionsSettle == []OpenOrdersAreKnown /\ SubmissionsEnd
=============================================================================
