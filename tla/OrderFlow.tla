----------------------------- MODULE OrderFlow -----------------------------
(***************************************************************************)
(* The path of an order: the router (src/src/execution/router.py), the OMS  *)
(* ledger, the order state machine, the in-process event bus with the       *)
(* order handlers (src/src/events), the portfolio in memory and in Redis    *)
(* (src/src/portfolio/manager.py), and reconciliation                       *)
(* (src/src/execution/reconcile.py), against a broker that accepts, fills   *)
(* and closes orders in its own time.  Every await of another system is a   *)
(* step of its own.                                                        *)
(*                                                                         *)
(* One symbol, orders of one share: prices, sizes and partial fills are     *)
(* left out.  Every order is routed once, its id being a fresh UUID.        *)
(***************************************************************************)
EXTENDS OrderStateMachine, Sequences

CONSTANTS
  Buys,      \* the orders that buy; the others sell
  MaxFaults  \* bound: failed commands, lost replies, lost or repeated events, restarts

ASSUME BuysAssumption == Buys \subseteq Orders
ASSUME FaultsAssumption == MaxFaults \in Nat

VARIABLES
  router,         \* where execute() is with each order
  ledger,         \* the rows of trade_events, a set of types for each order
  broker,         \* the order at the broker
  broker_qty,     \* the broker's position
  canceling,      \* orders the broker canceled on request, the reply on its way
  queue,          \* the events on the bus; the first one may be being handled
  position,       \* the portfolio's position in memory, 0 for none
  saved,          \* the position in Redis, 0 for none
  handler_write,  \* what the fill handler is writing to Redis, or NoWrite
  reconcile,      \* where reconciliation is
  snapshot,       \* the broker's position as reconciliation fetched it
  faults          \* faults so far

memory    == <<canceling, queue, position, handler_write, reconcile, snapshot>>
flowVars  == <<vars, router, ledger, broker, broker_qty, saved, memory, faults>>

NoWrite   == -1
Routing   == {"submit", "accepted", "rejecting"}
Closed    == {"filled", "canceled", "expired"}
Topics    == {"filled", "rejected", "canceled"}
RowOf     == [filled |-> "FILLED", rejected |-> "REJECTED", canceled |-> "CANCELED"]
Discovered == [filled |-> "FILLED", canceled |-> "CANCELED", expired |-> "REJECTED"]

FlowTypeOK ==
  /\ TypeOK
  /\ router \in [Orders -> Routing \cup {"idle", "submitted", "failed", "raised", "gone"}]
  /\ ledger \in [Orders -> SUBSET OrderState]
  /\ broker \in [Orders -> {"none", "open"} \cup Closed]
  /\ broker_qty \in Nat /\ position \in Nat /\ saved \in Nat /\ snapshot \in Nat
  /\ canceling \subseteq Orders
  /\ queue \in Seq(Topics \X Orders)
  /\ handler_write \in Nat \cup {NoWrite}
  /\ reconcile \in {"idle", "compare", "persist", "orders"}
  /\ faults \in 0..MaxFaults

FlowInit ==
  /\ Init
  /\ router = [o \in Orders |-> "idle"]
  /\ ledger = [o \in Orders |-> {}]
  /\ broker = [o \in Orders |-> "none"]
  /\ broker_qty = 0 /\ position = 0 /\ saved = 0 /\ snapshot = 0
  /\ canceling = {}
  /\ queue = <<>>
  /\ handler_write = NoWrite
  /\ reconcile = "idle"
  /\ faults = 0

-----------------------------------------------------------------------------
Fault == faults < MaxFaults /\ faults' = faults + 1

(* record_event(): a row is there once, however often it is written; when    *)
(* the database fails the row may have been committed all the same.         *)
Record(o, row) == ledger' = [ledger EXCEPT ![o] = @ \cup {row}] /\ UNCHANGED faults
RecordFails(o, row) == Fault /\ ledger' \in {ledger, [ledger EXCEPT ![o] = @ \cup {row}]}

Goto(o, place) == router' = [router EXCEPT ![o] = place]

(* A transition that is not legal is refused and its result ignored. *)
Move(o, target) ==
  \/ Transition(o, target)
  \/ target \notin LegalTransitions[state[o]] /\ UNCHANGED vars

(* execute(): the NEW row comes first, and an error there ends the call. *)
Route(o) ==
  /\ router[o] = "idle"
  /\ \/ Record(o, "NEW") /\ Register(o, -1) /\ Goto(o, "submit")
     \/ RecordFails(o, "NEW") /\ Goto(o, "raised") /\ UNCHANGED vars
  /\ UNCHANGED <<broker, broker_qty, saved, memory>>

(* The submission is accepted or rejected; the reply to an accepted one may  *)
(* be lost, which raises like a rejection.                                  *)
Submit(o) ==
  /\ router[o] = "submit"
  /\ \/ broker' = [broker EXCEPT ![o] = "open"] /\ Goto(o, "accepted") /\ UNCHANGED faults
     \/ broker' = [broker EXCEPT ![o] = "open"] /\ Goto(o, "rejecting") /\ Fault
     \/ Goto(o, "rejecting") /\ UNCHANGED <<broker, faults>>
  /\ UNCHANGED <<vars, ledger, broker_qty, saved, memory>>

(* The SENT row, the record's transition and ORDER_SUBMITTED, to which       *)
(* nothing is subscribed; an error of the ledger is taken for a failed       *)
(* submission.                                                              *)
Confirm(o) ==
  /\ router[o] = "accepted"
  /\ \/ Record(o, "SENT") /\ Move(o, "SENT") /\ Goto(o, "submitted")
     \/ RecordFails(o, "SENT") /\ Goto(o, "rejecting") /\ UNCHANGED vars
  /\ UNCHANGED <<broker, broker_qty, saved, memory>>

(* The except branch: the REJECTED row, the record, ORDER_REJECTED, None. *)
Reject(o) ==
  /\ router[o] = "rejecting"
  /\ \/ /\ Record(o, "REJECTED") /\ Move(o, "REJECTED") /\ Goto(o, "failed")
        /\ queue' = Append(queue, <<"rejected", o>>)
     \/ RecordFails(o, "REJECTED") /\ Goto(o, "raised") /\ UNCHANGED <<vars, queue>>
  /\ UNCHANGED <<broker, broker_qty, saved, canceling, position, handler_write,
                 reconcile, snapshot>>

(* A variant with a bug: the broker's answer to the cancel is not looked at. *)
CancelUnchecked(o) ==
  /\ state[o] \in {"SENT", "CANCELED"}
  /\ broker' = [broker EXCEPT ![o] = IF @ = "open" THEN "canceled" ELSE @]
  /\ canceling' = canceling \cup {o}
  /\ UNCHANGED <<vars, router, ledger, broker_qty, saved, queue, position, handler_write,
                 reconcile, snapshot, faults>>

(* cancel_open_order() of an order with a broker id: the broker cancels it   *)
(* if it is still open; when its reply is lost the adapter answers False.   *)
Cancel(o) ==
  /\ state[o] \in {"SENT", "CANCELED"}
  /\ broker[o] = "open"
  /\ broker' = [broker EXCEPT ![o] = "canceled"]
  /\ \/ canceling' = canceling \cup {o} /\ UNCHANGED faults
     \/ Fault /\ UNCHANGED canceling
  /\ UNCHANGED <<vars, router, ledger, broker_qty, saved, queue, position, handler_write,
                 reconcile, snapshot>>

(* The broker said it is canceled: the record, then the CANCELED row. *)
RecordCancel(o) ==
  /\ o \in canceling
  /\ Move(o, "CANCELED")
  /\ Record(o, "CANCELED") \/ RecordFails(o, "CANCELED")
  /\ canceling' = canceling \ {o}
  /\ UNCHANGED <<router, broker, broker_qty, saved, queue, position, handler_write,
                 reconcile, snapshot>>

-----------------------------------------------------------------------------
(* What the broker's stream reports goes to the bus, unless it is lost; it   *)
(* may come twice.                                                          *)
Announce(topic, o) ==
  \/ queue' = Append(queue, <<topic, o>>) /\ UNCHANGED faults
  \/ Fault /\ queue' \in {queue, Append(Append(queue, <<topic, o>>), <<topic, o>>)}

(* The broker fills an order, a sale only of shares it holds. *)
Fill(o) ==
  /\ broker[o] = "open"
  /\ broker' = [broker EXCEPT ![o] = "filled"]
  /\ \/ o \in Buys /\ broker_qty' = broker_qty + 1
     \/ o \notin Buys /\ broker_qty > 0 /\ broker_qty' = broker_qty - 1
  /\ Announce("filled", o)
  /\ UNCHANGED <<vars, router, ledger, saved, canceling, position, handler_write,
                 reconcile, snapshot>>

(* The broker cancels an order, or lets it expire, which nothing handles. *)
Close(o) ==
  /\ broker[o] = "open"
  /\ \/ broker' = [broker EXCEPT ![o] = "canceled"] /\ Announce("canceled", o)
     \/ broker' = [broker EXCEPT ![o] = "expired"] /\ UNCHANGED <<queue, faults>>
  /\ UNCHANGED <<vars, router, ledger, broker_qty, saved, canceling, position,
                 handler_write, reconcile, snapshot>>

-----------------------------------------------------------------------------
(* record_fill(): a buy adds to the position, a sale removes all of it, in   *)
(* memory at once and then in Redis; a sale of nothing has nothing to write. *)
RecordFill(o) ==
  \/ /\ o \in Buys \/ position > 0
     /\ position' = IF o \in Buys THEN position + 1 ELSE 0
     /\ handler_write' = position'
     /\ UNCHANGED queue
  \/ /\ o \notin Buys /\ position = 0
     /\ queue' = Tail(queue)
     /\ UNCHANGED <<position, handler_write>>

(* The consumer hands the first event to its handler: the row, then, for a   *)
(* fill, the portfolio.  An exception is logged and the event is gone.      *)
Handle ==
  /\ queue # <<>> /\ handler_write = NoWrite
  /\ LET topic == Head(queue)[1]
         o     == Head(queue)[2] IN
     \/ Record(o, RowOf[topic]) /\ topic = "filled" /\ RecordFill(o)
     \/ /\ \/ Record(o, RowOf[topic]) /\ topic # "filled"
           \/ RecordFails(o, RowOf[topic])
        /\ queue' = Tail(queue)
        /\ UNCHANGED <<position, handler_write>>
  /\ UNCHANGED <<vars, router, broker, broker_qty, saved, canceling, reconcile, snapshot>>

(* The handler's write reaches Redis, or fails, its reply perhaps alone. *)
PersistFill ==
  /\ handler_write # NoWrite
  /\ \/ saved' = handler_write /\ UNCHANGED faults
     \/ Fault /\ saved' \in {saved, handler_write}
  /\ handler_write' = NoWrite
  /\ queue' = Tail(queue)
  /\ UNCHANGED <<vars, router, ledger, broker, broker_qty, canceling, position,
                 reconcile, snapshot>>

-----------------------------------------------------------------------------
(* run(): the broker's positions are fetched; they are compared with the     *)
(* memory only when the reply arrives.  An error ends the pass at once.     *)
FetchPositions ==
  /\ reconcile = "idle"
  /\ reconcile' = "compare"
  /\ snapshot' = broker_qty
  /\ UNCHANGED <<vars, router, ledger, broker, broker_qty, saved, canceling, queue,
                 position, handler_write, faults>>

(* A variant with a bug: a position the broker no longer has is kept. *)
CompareWithoutRemoval ==
  /\ reconcile = "compare"
  /\ position' = IF snapshot = 0 THEN position ELSE snapshot
  /\ reconcile' = IF position' = position THEN "orders" ELSE "persist"
  /\ UNCHANGED <<vars, router, ledger, broker, broker_qty, saved, canceling, queue,
                 handler_write, snapshot, faults>>

(* The three cases, import, removal and correction of the quantity, all      *)
(* leave the memory as the broker was; Redis is written if it differed.     *)
Compare ==
  /\ reconcile = "compare"
  /\ position' = snapshot
  /\ reconcile' = IF position = snapshot THEN "orders" ELSE "persist"
  /\ UNCHANGED <<vars, router, ledger, broker, broker_qty, saved, canceling, queue,
                 handler_write, snapshot, faults>>

(* An error of Redis leaves run(). *)
PersistReconciled ==
  /\ reconcile = "persist"
  /\ \/ saved' = snapshot /\ reconcile' = "orders" /\ UNCHANGED <<faults, snapshot>>
     \/ Fault /\ saved' \in {saved, snapshot} /\ reconcile' = "idle" /\ snapshot' = 0
  /\ UNCHANGED <<vars, router, ledger, broker, broker_qty, canceling, queue, position,
                 handler_write>>

(* The orders list_open_orders returns: a closed one among them, which the   *)
(* interface does not promise, gets a row; an error leaves the rest without. *)
ReconcileOrders ==
  /\ reconcile = "orders"
  /\ \E listed \in SUBSET {o \in Orders : broker[o] \in Closed} :
       ledger' = [o \in Orders |->
         ledger[o] \cup (IF o \in listed THEN {Discovered[broker[o]]} ELSE {})]
  /\ reconcile' = "idle"
  /\ snapshot' = 0
  /\ UNCHANGED <<vars, router, broker, broker_qty, saved, canceling, queue, position,
                 handler_write, faults>>

(* The process dies and starts again: load_state() reads the position back   *)
(* from Redis; records, events and calls in progress are lost.              *)
Restart ==
  /\ Fault
  /\ state' = [o \in Orders |-> "absent"]
  /\ last_seq' = [o \in Orders |-> -1]
  /\ pending' = [o \in Orders |-> NoEvents]
  /\ router' = [o \in Orders |-> IF router[o] \in Routing THEN "gone" ELSE router[o]]
  /\ canceling' = {} /\ queue' = <<>> /\ handler_write' = NoWrite
  /\ reconcile' = "idle" /\ snapshot' = 0
  /\ position' = saved
  /\ UNCHANGED <<ledger, broker, broker_qty, saved>>

Reconcile == FetchPositions \/ Compare \/ PersistReconciled \/ ReconcileOrders

FlowNext ==
  \/ \E o \in Orders :
       \/ Route(o) \/ Submit(o) \/ Confirm(o) \/ Reject(o)
       \/ Cancel(o) \/ RecordCancel(o)
       \/ Fill(o) \/ Close(o)
  \/ Handle \/ PersistFill
  \/ FetchPositions \/ Compare \/ PersistReconciled \/ ReconcileOrders
  \/ Restart

FlowSpec == FlowInit /\ [][FlowNext]_flowVars

(* The consumer goes on with the events it has, and reconciliation runs again *)
(* and again (every 15 minutes, by its docstring).                          *)
FlowFairSpec ==
  /\ FlowSpec
  /\ WF_flowVars(Handle) /\ WF_flowVars(PersistFill) /\ WF_flowVars(Reconcile)

-----------------------------------------------------------------------------
(* The ledger tells the truth.  No order is at the broker without a trace,   *)
(* whatever failed and whenever the process died (execute() writes the NEW   *)
(* row first); what a row says was sent, filled or canceled was so at the    *)
(* broker, whoever wrote it: the router, a cancel that raced with a fill, a  *)
(* handler of a repeated event, or reconciliation; and an id that execute()  *)
(* returned stands for an order all three of them know.                     *)
WriteAhead(o) == broker[o] # "none" => "NEW" \in ledger[o]

RowsAreTrue(o) ==
  /\ "SENT" \in ledger[o] => broker[o] # "none"
  /\ "FILLED" \in ledger[o] => broker[o] = "filled"
  /\ "CANCELED" \in ledger[o] => broker[o] = "canceled"

SubmittedIsReal(o) ==
  router[o] = "submitted" =>
    /\ broker[o] # "none"
    /\ {"NEW", "SENT"} \subseteq ledger[o]
    /\ state[o] \in {"SENT", "CANCELED", "absent"}

LedgerIsTrue == \A o \in Orders : WriteAhead(o) /\ RowsAreTrue(o) /\ SubmittedIsReal(o)

(* The position in memory comes back to the broker's, after lost and         *)
(* repeated events, failed writes, restarts, and fills that a pass of        *)
(* reconciliation overwrote with an older quantity or that were counted      *)
(* both by the pass and by the handler.                                     *)
PositionsConverge == <>[](position = broker_qty)

(* Stated by the model of the table: a REJECTED row means that the broker    *)
(* rejected the order, so it is neither live nor filled there.              *)
RejectedIsNotLive ==
  \A o \in Orders : "REJECTED" \in ledger[o] => broker[o] \notin {"open", "filled"}
=============================================================================
