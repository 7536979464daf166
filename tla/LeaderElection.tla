--------------------------- MODULE LeaderElection ---------------------------
(***************************************************************************)
(* Leader election over a Redis lease                                      *)
(* (src/src/control_plane/leader_election.py, class LeaderElector).        *)
(*                                                                         *)
(* Time is counted in ticks.  A node's loop runs one Redis command or one  *)
(* callback at a time; each may take up to MaxLag ticks, whatever delays   *)
(* it (the network, Redis, a busy event loop, a paused process).  The lock *)
(* is a key whose time to live the ticks run down.  Redis itself forgets   *)
(* nothing else here: a restart from its snapshot is not modelled.         *)
(***************************************************************************)
EXTENDS Naturals

CONSTANTS
  Nodes,          \* processes that run a LeaderElector
  LeaseTicks,     \* lease_ms
  RenewTicks,     \* renewal_interval_s
  MaxLag,         \* the longest a command or callback takes
  DrainTicks,     \* how long stop() waits for the loop before cancelling it
  MaxFaults,      \* bound on crashes and Redis errors
  MaxGeneration,  \* bound on elections
  MayStop         \* whether stop() is called

ASSUME TimesAssumption ==
  /\ LeaseTicks \in Nat \ {0}
  /\ RenewTicks \in Nat
  /\ MaxLag \in Nat
  /\ DrainTicks \in Nat
ASSUME BoundsAssumption ==
  /\ MaxFaults \in Nat
  /\ MaxGeneration \in Nat
  /\ MayStop \in BOOLEAN

Free   == "free"     \* nobody holds the lock
Orphan == "orphan"   \* held under the identity of a process that is gone

ASSUME NodesAssumption == Free \notin Nodes /\ Orphan \notin Nodes

VARIABLES
  owner,       \* whose lock value the key holds
  ttl,         \* ticks until the key expires
  generation,  \* the counter in Redis
  loop,        \* where each node's election loop is
  elapsed,     \* ticks since it got there
  leader,      \* _is_leader
  term,        \* _generation
  ticket,      \* the value INCR returned, until it is stored
  stop,        \* how far stop() has got
  drained,     \* ticks stop() has waited for the loop
  faults       \* crashes and errors so far

lock  == <<owner, ttl>>
local == <<leader, term, ticket>>
halt  == <<stop, drained>>
electionVars == <<lock, generation, loop, elapsed, local, halt, faults>>

Phases == {"off", "wait", "acquire", "won", "elected", "callback", "renew", "done"}
Busy   == {"acquire", "won", "elected", "callback", "renew"}

ElectionTypeOK ==
  /\ owner \in Nodes \cup {Free, Orphan}
  /\ ttl \in 0..LeaseTicks
  /\ generation \in Nat
  /\ loop \in [Nodes -> Phases]
  /\ elapsed \in [Nodes -> Nat]
  /\ leader \in [Nodes -> BOOLEAN]
  /\ term \in [Nodes -> Nat]
  /\ ticket \in [Nodes -> Nat]
  /\ stop \in [Nodes -> {"no", "releasing", "draining"}]
  /\ drained \in [Nodes -> Nat]
  /\ faults \in Nat

ElectionInit ==
  /\ owner = Free /\ ttl = 0 /\ generation = 0
  /\ loop = [n \in Nodes |-> "off"]
  /\ elapsed = [n \in Nodes |-> 0]
  /\ leader = [n \in Nodes |-> FALSE]
  /\ term = [n \in Nodes |-> 0]
  /\ ticket = [n \in Nodes |-> 0]
  /\ stop = [n \in Nodes |-> "no"]
  /\ drained = [n \in Nodes |-> 0]
  /\ faults = 0

-----------------------------------------------------------------------------
EnterPhase(n, phase) ==
  /\ loop' = [loop EXCEPT ![n] = phase]
  /\ elapsed' = [elapsed EXCEPT ![n] = 0]

Demote(n) == leader' = [leader EXCEPT ![n] = FALSE] /\ UNCHANGED <<term, ticket>>

Acquire(n) == owner' = n /\ ttl' = LeaseTicks
Release    == owner' = Free /\ ttl' = 0

(* start(): the loop's first iteration begins at once. *)
Start(n) ==
  /\ loop[n] = "off"
  /\ EnterPhase(n, "acquire")
  /\ UNCHANGED <<lock, generation, local, halt, faults>>

(* The interval is over: the leader renews, a standby tries to acquire. *)
Wake(n) ==
  /\ loop[n] = "wait" /\ elapsed[n] = RenewTicks /\ stop[n] = "no"
  /\ EnterPhase(n, IF leader[n] THEN "renew" ELSE "acquire")
  /\ UNCHANGED <<lock, generation, local, halt, faults>>

(* The interval is cut short by the stop event and the loop ends. *)
EndLoop(n) ==
  /\ loop[n] = "wait" /\ stop[n] # "no"
  /\ EnterPhase(n, "done")
  /\ UNCHANGED <<lock, generation, local, halt, faults>>

(* SET NX PX.  (Past MaxGeneration elections the key counts as taken.) *)
TryAcquire(n) ==
  /\ loop[n] = "acquire"
  /\ IF owner = Free /\ generation < MaxGeneration
       THEN Acquire(n) /\ EnterPhase(n, "won")
       ELSE EnterPhase(n, "wait") /\ UNCHANGED lock
  /\ UNCHANGED <<generation, local, halt, faults>>

(* A variant with a bug: the generation is counted by each node for itself. *)
IncrementLocally(n) ==
  /\ loop[n] = "won"
  /\ generation' = term[n] + 1
  /\ ticket' = [ticket EXCEPT ![n] = term[n] + 1]
  /\ EnterPhase(n, "elected")
  /\ UNCHANGED <<lock, leader, term, halt, faults>>

(* INCR of the generation, once the lock is won: the lease may have run out *)
(* before the command reaches Redis.                                        *)
Increment(n) ==
  /\ loop[n] = "won"
  /\ generation' = generation + 1
  /\ ticket' = [ticket EXCEPT ![n] = generation + 1]
  /\ EnterPhase(n, "elected")
  /\ UNCHANGED <<lock, leader, term, halt, faults>>

(* The reply to INCR makes the node leader, and on_elected is awaited. *)
BecomeLeader(n) ==
  /\ loop[n] = "elected"
  /\ leader' = [leader EXCEPT ![n] = TRUE]
  /\ term' = [term EXCEPT ![n] = ticket[n]]
  /\ EnterPhase(n, "callback")
  /\ UNCHANGED <<lock, generation, ticket, halt, faults>>

EndCallback(n) ==
  /\ loop[n] = "callback"
  /\ EnterPhase(n, "wait")
  /\ UNCHANGED <<lock, generation, local, halt, faults>>

(* The Lua script extends the lease if it is still this node's; otherwise   *)
(* the node is demoted, and on_demoted is awaited.                          *)
Renew(n) ==
  /\ loop[n] = "renew"
  /\ IF owner = n
       THEN Acquire(n) /\ EnterPhase(n, "wait") /\ UNCHANGED local
       ELSE Demote(n) /\ EnterPhase(n, "callback") /\ UNCHANGED lock
  /\ UNCHANGED <<generation, halt, faults>>

(* A variant with a bug: the exception ends the loop. *)
RedisErrorEndsLoop(n) ==
  /\ loop[n] \in {"acquire", "won", "elected", "renew"} /\ faults < MaxFaults
  /\ EnterPhase(n, "done")
  /\ Demote(n)
  /\ faults' = faults + 1
  /\ UNCHANGED <<lock, generation, halt>>

(* A variant with a bug: the leader goes on and tries again next time. *)
RedisErrorKeepsLeader(n) ==
  /\ loop[n] \in {"acquire", "won", "elected", "renew"} /\ faults < MaxFaults
  /\ EnterPhase(n, "wait")
  /\ faults' = faults + 1
  /\ UNCHANGED <<lock, generation, local, halt>>

(* Redis fails the command in flight, before or after it took effect: the   *)
(* loop demotes a leader and waits for the next interval.                   *)
RedisError(n) ==
  /\ loop[n] \in {"acquire", "won", "elected", "renew"} /\ faults < MaxFaults
  /\ IF leader[n]
       THEN Demote(n) /\ EnterPhase(n, "callback")
       ELSE EnterPhase(n, "wait") /\ UNCHANGED local
  /\ faults' = faults + 1
  /\ UNCHANGED <<lock, generation, halt>>

(* stop(): set the event; release the lock if this node believes it leads;  *)
(* wait for the loop, and cancel it when that takes too long.               *)
Stop(n) ==
  /\ MayStop /\ loop[n] \notin {"off", "done"} /\ stop[n] = "no"
  /\ stop' = [stop EXCEPT ![n] = IF leader[n] THEN "releasing" ELSE "draining"]
  /\ UNCHANGED <<lock, generation, loop, elapsed, local, drained, faults>>

ReleaseLock(n) ==
  /\ stop[n] = "releasing"
  /\ IF owner = n THEN Release ELSE UNCHANGED lock
  /\ stop' = [stop EXCEPT ![n] = "draining"]
  /\ UNCHANGED <<generation, loop, elapsed, local, drained, faults>>

ReleaseFails(n) ==
  /\ stop[n] = "releasing" /\ faults < MaxFaults
  /\ stop' = [stop EXCEPT ![n] = "draining"]
  /\ faults' = faults + 1
  /\ UNCHANGED <<lock, generation, loop, elapsed, local, drained>>

CancelLoop(n) ==
  /\ stop[n] = "draining" /\ drained[n] = DrainTicks /\ loop[n] \in Busy
  /\ EnterPhase(n, "done")
  /\ UNCHANGED <<lock, generation, local, halt, faults>>

(* The process dies; what replaces it has another lock value. *)
Crash(n) ==
  /\ loop[n] # "off" /\ faults < MaxFaults
  /\ owner' = IF owner = n THEN Orphan ELSE owner
  /\ EnterPhase(n, "off")
  /\ leader' = [leader EXCEPT ![n] = FALSE]
  /\ term' = [term EXCEPT ![n] = 0]
  /\ ticket' = [ticket EXCEPT ![n] = 0]
  /\ stop' = [stop EXCEPT ![n] = "no"]
  /\ drained' = [drained EXCEPT ![n] = 0]
  /\ faults' = faults + 1
  /\ UNCHANGED <<ttl, generation>>

(* A tick: nobody may stay longer in a phase than it can last.  The lock    *)
(* expires when its time to live runs out.                                  *)
MayLast(n) ==
  CASE loop[n] \in Busy -> elapsed[n] < MaxLag
    [] loop[n] = "wait" -> elapsed[n] < RenewTicks /\ stop[n] = "no"
    [] OTHER          -> TRUE

Tick ==
  /\ \A n \in Nodes : MayLast(n)
  /\ IF ttl <= 1
       THEN Release
       ELSE ttl' = ttl - 1 /\ UNCHANGED owner
  /\ elapsed' = [n \in Nodes |-> IF loop[n] \in {"off", "done"} THEN 0 ELSE elapsed[n] + 1]
  /\ drained' = [n \in Nodes |-> IF stop[n] = "draining" /\ loop[n] \in Busy
                                     /\ drained[n] < DrainTicks
                                  THEN drained[n] + 1 ELSE drained[n]]
  /\ UNCHANGED <<generation, loop, local, stop, faults>>

-----------------------------------------------------------------------------
LoopStep(n) ==
  Start(n) \/ Wake(n) \/ EndLoop(n) \/ TryAcquire(n) \/ Increment(n) \/ BecomeLeader(n)
  \/ EndCallback(n) \/ Renew(n)

ElectionNext ==
  \/ \E n \in Nodes : \/ LoopStep(n) \/ RedisError(n) \/ Crash(n)
                      \/ Stop(n) \/ ReleaseLock(n) \/ ReleaseFails(n) \/ CancelLoop(n)
  \/ Tick

ElectionSpec == ElectionInit /\ [][ElectionNext]_electionVars

(* The event loop keeps running what is ready, and time passes. *)
FairElection ==
  /\ ElectionSpec /\ WF_electionVars(Tick)
  /\ \A n \in Nodes : WF_electionVars(LoopStep(n))

-----------------------------------------------------------------------------
(* A node that has not been told to stop and believes it leads holds the     *)
(* lock, so two such nodes never coexist.  It needs the timing margin        *)
(* RenewTicks + 4 * MaxLag < LeaseTicks.                                    *)
LeaderHoldsLock == \A n \in Nodes : (leader[n] /\ stop[n] = "no") => owner = n

(* No two nodes ever led with the same generation, even when the lease of    *)
(* one was lost before its INCR ran (_handle_election).                     *)
TermsAreUnique ==
  \A m, n \in Nodes : (m # n /\ term[m] = term[n]) => term[n] = 0

(* The generation a node leads with is newer than any other node ever led   *)
(* with.  It needs the margin too.                                          *)
NewestTermLeads ==
  \A m, n \in Nodes : (leader[n] /\ stop[n] = "no" /\ m # n) => term[m] < term[n]

(* Fencing by generation works: a term is one node's only, and the leader's  *)
(* is the newest, so that who checks generations refuses every old leader,   *)
(* even one whose lease ran out before its INCR.                            *)
TermsFence == TermsAreUnique /\ NewestTermLeads

(* A vacancy is filled: when faults cease, a node that has not been told to  *)
(* stop leads again, whatever became of the last leader and of the lock it   *)
(* left (the module docstring: a standby acquires the lock if the primary    *)
(* fails to renew).                                                         *)
Vacant == \A n \in Nodes : ~(leader[n] /\ stop[n] = "no")
VacancyIsFilled == Vacant ~> ~Vacant \/ \A n \in Nodes : stop[n] # "no"

(* Stated by the docstring's "single-writer guarantee": at most one running  *)
(* node believes it leads.                                                  *)
SingleWriter ==
  \A m, n \in Nodes : (leader[m] /\ leader[n] /\ stop[m] = "no" /\ stop[n] = "no") => m = n
=============================================================================
