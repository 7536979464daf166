---------------------------- MODULE ControlProofs ----------------------------
(***************************************************************************)
(* Proofs about the control plane: leader election, for any set of nodes   *)
(* and any timing; the trading-state store and the operators' API over it, *)
(* for any set of clients.                                                 *)
(***************************************************************************)
EXTENDS LeaderElection, ControlApi, TLAPS

-----------------------------------------------------------------------------
(***************************************************************************)
(* Leader election.                                                        *)
(***************************************************************************)
USE DEF Free, Orphan

LEMMA InitElectionTypeOK == ElectionInit => ElectionTypeOK
  BY TimesAssumption, BoundsAssumption DEF ElectionInit, ElectionTypeOK, Phases

(* Demoting a node keeps the types of what it writes. *)
LEMMA DemoteTypeOK ==
  ASSUME NEW n \in Nodes, ElectionTypeOK, Demote(n), EnterPhase(n, "callback")
  PROVE  /\ leader' \in [Nodes -> BOOLEAN] /\ UNCHANGED <<term, ticket>>
         /\ loop' \in [Nodes -> Phases] /\ elapsed' \in [Nodes -> Nat]
<1>1. leader' \in [Nodes -> BOOLEAN] /\ UNCHANGED <<term, ticket>>
  BY Zenon DEF Demote, ElectionTypeOK
<1>2. loop' \in [Nodes -> Phases] /\ elapsed' \in [Nodes -> Nat]
  BY DEF EnterPhase, ElectionTypeOK, Phases
<1>3. QED
  BY <1>1, <1>2

(***************************************************************************)
(* Every step preserves the types.                                         *)
(***************************************************************************)
LEMMA NextElectionTypeOK == ElectionTypeOK /\ [ElectionNext]_electionVars => ElectionTypeOK'
<1> SUFFICES ASSUME ElectionTypeOK, [ElectionNext]_electionVars PROVE ElectionTypeOK'
  OBVIOUS
<1> USE DEF ElectionTypeOK, Phases, EnterPhase, lock, local, halt
<1>1. ASSUME NEW n \in Nodes, Start(n) \/ Wake(n) \/ EndLoop(n) \/ EndCallback(n)
      PROVE  ElectionTypeOK'
  BY <1>1 DEF Start, Wake, EndLoop, EndCallback
<1>2. ASSUME NEW n \in Nodes, TryAcquire(n) PROVE ElectionTypeOK'
  BY <1>2, TimesAssumption DEF TryAcquire, Acquire
<1>3. ASSUME NEW n \in Nodes, Increment(n) PROVE ElectionTypeOK'
  BY <1>3 DEF Increment
<1>4. ASSUME NEW n \in Nodes, BecomeLeader(n) PROVE ElectionTypeOK'
  BY <1>4 DEF BecomeLeader
<1>5. ASSUME NEW n \in Nodes, Renew(n) PROVE ElectionTypeOK'
  <2>1. CASE owner = n
    BY <1>5, <2>1, TimesAssumption DEF Renew, Acquire
  <2>2. CASE owner # n
    <3>1. Demote(n) /\ EnterPhase(n, "callback") /\ UNCHANGED <<lock, generation, halt, faults>>
      BY <1>5, <2>2 DEF Renew
    <3>2. QED
      BY <3>1, DemoteTypeOK
  <2>3. QED
    BY <2>1, <2>2
<1>6. ASSUME NEW n \in Nodes, RedisError(n) PROVE ElectionTypeOK'
  <2>1. CASE leader[n]
    <3>1. /\ Demote(n) /\ EnterPhase(n, "callback") /\ UNCHANGED <<lock, generation, halt>>
          /\ faults' = faults + 1
      BY <1>6, <2>1 DEF RedisError
    <3>2. /\ leader' \in [Nodes -> BOOLEAN] /\ UNCHANGED <<term, ticket>>
          /\ loop' \in [Nodes -> Phases] /\ elapsed' \in [Nodes -> Nat]
      BY <1>6, <3>1, DemoteTypeOK, ElectionTypeOK
    <3>3. faults' \in Nat
      BY <3>1
    <3>4. QED
      BY <3>1, <3>2, <3>3, ElectionTypeOK DEF ElectionTypeOK, lock, halt
  <2>2. CASE ~leader[n]
    BY <1>6, <2>2 DEF RedisError
  <2>3. QED
    BY <2>1, <2>2
<1>7. ASSUME NEW n \in Nodes, Crash(n) PROVE ElectionTypeOK'
  <2>1. owner' \in Nodes \cup {Free, Orphan} /\ ttl' \in 0..LeaseTicks
    BY <1>7 DEF Crash
  <2>2. /\ loop' \in [Nodes -> Phases] /\ elapsed' \in [Nodes -> Nat]
        /\ leader' \in [Nodes -> BOOLEAN]
    BY <1>7 DEF Crash
  <2>3. /\ term' \in [Nodes -> Nat] /\ ticket' \in [Nodes -> Nat]
        /\ generation' \in Nat
    BY <1>7 DEF Crash
  <2>4. /\ stop' \in [Nodes -> {"no", "releasing", "draining"}]
        /\ drained' \in [Nodes -> Nat] /\ faults' \in Nat
    BY <1>7 DEF Crash
  <2>5. QED
    BY <2>1, <2>2, <2>3, <2>4
<1>8. ASSUME NEW n \in Nodes, Stop(n) \/ ReleaseLock(n) \/ ReleaseFails(n) \/ CancelLoop(n)
      PROVE  ElectionTypeOK'
  BY <1>8, TimesAssumption DEF Stop, ReleaseLock, ReleaseFails, CancelLoop, Release
<1>9. CASE Tick
  BY <1>9, TimesAssumption DEF Tick, Release
<1>10. CASE UNCHANGED electionVars
  BY <1>10 DEF electionVars
<1>11. QED
  BY <1>1, <1>2, <1>3, <1>4, <1>5, <1>6, <1>7, <1>8, <1>9, <1>10 DEF ElectionNext, LoopStep

THEOREM ElectionTypeCorrect == ElectionSpec => []ElectionTypeOK
  BY InitElectionTypeOK, NextElectionTypeOK, PTL DEF ElectionSpec

-----------------------------------------------------------------------------
(***************************************************************************)
(* Generations.  What a node leads with, and what INCR has handed it but   *)
(* it has not stored yet, was handed to nobody else.                       *)
(***************************************************************************)
TicketsAreUnique ==
  \A n \in Nodes :
    /\ term[n] <= generation /\ ticket[n] <= generation
    /\ \A m \in Nodes \ {n} :
         /\ term[m] = term[n] => term[n] = 0
         /\ ticket[m] = ticket[n] => ticket[n] = 0
         /\ term[m] = ticket[n] => ticket[n] = 0

LEMMA NextTicketsAreUnique ==
  ElectionTypeOK /\ TicketsAreUnique /\ [ElectionNext]_electionVars => TicketsAreUnique'
<1> SUFFICES ASSUME ElectionTypeOK, TicketsAreUnique, [ElectionNext]_electionVars
             PROVE  TicketsAreUnique'
  OBVIOUS
<1> USE DEF ElectionTypeOK, TicketsAreUnique, local
<1>1. ASSUME NEW n \in Nodes, Increment(n) PROVE TicketsAreUnique'
  BY <1>1 DEF Increment
<1>2. ASSUME NEW n \in Nodes, BecomeLeader(n) PROVE TicketsAreUnique'
  BY <1>2 DEF BecomeLeader
<1>3. ASSUME NEW n \in Nodes, Crash(n) PROVE TicketsAreUnique'
  BY <1>3 DEF Crash
<1>4. CASE UNCHANGED <<generation, term, ticket>>
  BY <1>4
<1>5. ASSUME NEW n \in Nodes, \/ LoopStep(n) \/ RedisError(n) \/ Stop(n)
                               \/ ReleaseLock(n) \/ ReleaseFails(n) \/ CancelLoop(n)
      PROVE  Increment(n) \/ BecomeLeader(n) \/ UNCHANGED <<generation, term, ticket>>
  BY <1>5 DEF LoopStep, Start, Wake, EndLoop, EndCallback, TryAcquire, Renew, RedisError,
              Stop, ReleaseLock, ReleaseFails, CancelLoop, Demote
<1>6. QED
  BY <1>1, <1>2, <1>3, <1>4, <1>5 DEF ElectionNext, Tick, electionVars

(* At the start nothing was handed out.                                    *)
LEMMA InitTickets ==
  (generation = 0 /\ \A n \in Nodes : term[n] = 0 /\ ticket[n] = 0) => TicketsAreUnique
<1> SUFFICES ASSUME generation = 0, \A n \in Nodes : term[n] = 0 /\ ticket[n] = 0
             PROVE  TicketsAreUnique
  OBVIOUS
<1>1. TicketsAreUnique <=>
          \A n \in Nodes :
            /\ 0 <= 0
            /\ \A m \in Nodes \ {n} : 0 = 0
  BY DEF TicketsAreUnique
<1> QED
  BY <1>1

(***************************************************************************)
(* No two nodes ever led with the same generation, whatever the delays.    *)
(***************************************************************************)
THEOREM GenerationsFence == ElectionSpec => []TermsAreUnique
<1>1. ElectionInit => TicketsAreUnique
  BY InitTickets DEF ElectionInit
<1>2. TicketsAreUnique => TermsAreUnique
  BY DEF TicketsAreUnique, TermsAreUnique
<1>3. QED
  BY ElectionTypeCorrect, <1>1, <1>2, NextTicketsAreUnique, PTL DEF ElectionSpec

-----------------------------------------------------------------------------
(***************************************************************************)
(* The lease.  From here on delays leave a margin: one interval and the    *)
(* four delays between two extensions of the lease (INCR and its reply, the *)
(* callback, the renewal) fit in it.                                       *)
(***************************************************************************)
Margin == RenewTicks + 4 * MaxLag < LeaseTicks

(* No phase outlasts its bound. *)
PhasesEnd ==
  \A n \in Nodes : /\ loop[n] \in Busy => elapsed[n] <= MaxLag
                   /\ loop[n] = "wait" => elapsed[n] <= RenewTicks

(* Node n holds the lock, and extended it no more than t ticks ago. *)
Holds(n, t) == owner = n /\ ttl + t >= LeaseTicks

(* How old the lease of a node can be, by the phase its loop is in. *)
LeaseIsFresh ==
  \A n \in Nodes : stop[n] = "no" =>
    /\ leader[n] => loop[n] \in {"callback", "wait", "renew"}
    /\ loop[n] = "won" => Holds(n, elapsed[n])
    /\ loop[n] = "elected" => Holds(n, MaxLag + elapsed[n])
    /\ (leader[n] /\ loop[n] = "callback") => Holds(n, 2 * MaxLag + elapsed[n])
    /\ (leader[n] /\ loop[n] = "wait") => Holds(n, 3 * MaxLag + elapsed[n])
    /\ (leader[n] /\ loop[n] = "renew") => Holds(n, 3 * MaxLag + RenewTicks + elapsed[n])

LeaseInv == ElectionTypeOK /\ PhasesEnd /\ LeaseIsFresh

LEMMA NextPhasesEnd == ElectionTypeOK /\ PhasesEnd /\ [ElectionNext]_electionVars => PhasesEnd'
<1> SUFFICES ASSUME ElectionTypeOK, PhasesEnd, [ElectionNext]_electionVars PROVE PhasesEnd'
  OBVIOUS
<1> USE TimesAssumption DEF ElectionTypeOK, PhasesEnd, Busy
<1>1. ASSUME NEW n \in Nodes, \/ LoopStep(n) \/ RedisError(n) \/ Crash(n) \/ CancelLoop(n)
      PROVE  PhasesEnd'
  BY <1>1 DEF LoopStep, Start, Wake, EndLoop, EndCallback, TryAcquire, Increment,
              BecomeLeader, Renew, RedisError, Crash, CancelLoop, EnterPhase
<1>2. CASE Tick
  BY <1>2 DEF Tick, MayLast
<1>3. ASSUME NEW n \in Nodes, Stop(n) \/ ReleaseLock(n) \/ ReleaseFails(n)
      PROVE  PhasesEnd'
  BY <1>3 DEF Stop, ReleaseLock, ReleaseFails
<1>4. CASE UNCHANGED electionVars
  BY <1>4 DEF electionVars
<1>5. QED
  BY <1>1, <1>2, <1>3, <1>4 DEF ElectionNext

LEMMA NextLeaseIsFresh ==
  ASSUME Margin PROVE LeaseInv /\ [ElectionNext]_electionVars => LeaseIsFresh'
<1> SUFFICES ASSUME LeaseInv, [ElectionNext]_electionVars PROVE LeaseIsFresh'
  OBVIOUS
<1> USE TimesAssumption, NodesAssumption
    DEF LeaseInv, ElectionTypeOK, LeaseIsFresh, Holds, lock, local, halt, EnterPhase
<1>1. ASSUME NEW n \in Nodes, Start(n) PROVE LeaseIsFresh'
  BY <1>1 DEF Start
<1>2. ASSUME NEW n \in Nodes, Wake(n) PROVE LeaseIsFresh'
  BY <1>2 DEF Wake
<1>3. ASSUME NEW n \in Nodes, EndLoop(n) PROVE LeaseIsFresh'
  BY <1>3 DEF EndLoop
<1>4. ASSUME NEW n \in Nodes, TryAcquire(n) PROVE LeaseIsFresh'
  BY <1>4 DEF TryAcquire, Acquire
<1>5. ASSUME NEW n \in Nodes, Increment(n) PROVE LeaseIsFresh'
  BY <1>5 DEF Increment, PhasesEnd, Busy
<1>6. ASSUME NEW n \in Nodes, BecomeLeader(n) PROVE LeaseIsFresh'
  BY <1>6 DEF BecomeLeader, PhasesEnd, Busy
<1>7. ASSUME NEW n \in Nodes, EndCallback(n) PROVE LeaseIsFresh'
  BY <1>7 DEF EndCallback, PhasesEnd, Busy
<1>8. ASSUME NEW n \in Nodes, Renew(n) PROVE LeaseIsFresh'
  BY <1>8 DEF Renew, Acquire, Demote
<1>9. ASSUME NEW n \in Nodes, RedisError(n) PROVE LeaseIsFresh'
  BY <1>9 DEF RedisError, Demote
<1>10. ASSUME NEW n \in Nodes, Crash(n) PROVE LeaseIsFresh'
  BY <1>10 DEF Crash
<1>11. ASSUME NEW n \in Nodes, Stop(n) \/ ReleaseFails(n) PROVE LeaseIsFresh'
  BY <1>11 DEF Stop, ReleaseFails
<1>12. ASSUME NEW n \in Nodes, ReleaseLock(n) PROVE LeaseIsFresh'
  BY <1>12 DEF ReleaseLock, Release
<1>13. ASSUME NEW n \in Nodes, CancelLoop(n) PROVE LeaseIsFresh'
  BY <1>13 DEF CancelLoop
<1>14. CASE Tick
  BY <1>14 DEF Tick, MayLast, Release, Margin, Busy
<1>15. CASE UNCHANGED electionVars
  BY <1>15 DEF electionVars
<1>16. QED
  BY <1>1, <1>2, <1>3, <1>4, <1>5, <1>6, <1>7, <1>8, <1>9, <1>10, <1>11, <1>12, <1>13,
     <1>14, <1>15 DEF ElectionNext, LoopStep

(***************************************************************************)
(* With the margin a running leader holds the lock, for any number of      *)
(* nodes and any lease, interval and delay.                                *)
(***************************************************************************)
THEOREM LeadersHoldTheLock == ASSUME Margin PROVE ElectionSpec => []LeaderHoldsLock
<1>1. ElectionInit => LeaseInv
  BY InitElectionTypeOK, TimesAssumption DEF ElectionInit, LeaseInv, PhasesEnd, LeaseIsFresh, Busy
<1>2. LeaseInv /\ [ElectionNext]_electionVars => LeaseInv'
  BY NextElectionTypeOK, NextPhasesEnd, NextLeaseIsFresh DEF LeaseInv
<1>3. LeaseInv => LeaderHoldsLock
  BY DEF LeaseInv, LeaseIsFresh, LeaderHoldsLock, Holds
<1>4. QED
  BY <1>1, <1>2, <1>3, PTL DEF ElectionSpec

(***************************************************************************)
(* With the margin no two running nodes believe they lead.                 *)
(***************************************************************************)
THEOREM MarginGivesSingleWriter == ASSUME Margin PROVE ElectionSpec => []SingleWriter
<1>1. LeaderHoldsLock => SingleWriter
  BY DEF LeaderHoldsLock, SingleWriter
<1>2. QED
  BY LeadersHoldTheLock, <1>1, PTL

-----------------------------------------------------------------------------
(***************************************************************************)
(* Fencing.  An election under way keeps its lease as well, also on a node *)
(* that is stopping: stop() releases the lock only of a node that leads,   *)
(* which is past its election.  So INCR is called by the node that holds   *)
(* the lock, and what it returned last is the running leader's.            *)
(***************************************************************************)
ElectionIsFresh ==
  \A n \in Nodes :
    /\ loop[n] = "won" => Holds(n, elapsed[n])
    /\ loop[n] = "elected" => Holds(n, MaxLag + elapsed[n])
    /\ stop[n] = "releasing" => loop[n] \notin {"off", "acquire", "won", "elected"}

LastTicketLeads ==
  \A n \in Nodes :
    /\ loop[n] = "elected" => ticket[n] = generation /\ generation > 0
    /\ (leader[n] /\ stop[n] = "no") => term[n] = generation /\ generation > 0

FenceInv == LeaseInv /\ TicketsAreUnique /\ ElectionIsFresh /\ LastTicketLeads

LEMMA NextElectionIsFresh ==
  ASSUME Margin PROVE LeaseInv /\ ElectionIsFresh /\ [ElectionNext]_electionVars => ElectionIsFresh'
<1> SUFFICES ASSUME LeaseInv, ElectionIsFresh, [ElectionNext]_electionVars PROVE ElectionIsFresh'
  OBVIOUS
<1> USE TimesAssumption, NodesAssumption
    DEF LeaseInv, ElectionTypeOK, ElectionIsFresh, Holds, lock, local, halt, EnterPhase
<1>1. ASSUME NEW n \in Nodes, Start(n) PROVE ElectionIsFresh'
  BY <1>1 DEF Start
<1>2. ASSUME NEW n \in Nodes, Wake(n) PROVE ElectionIsFresh'
  BY <1>2 DEF Wake
<1>3. ASSUME NEW n \in Nodes, EndLoop(n) PROVE ElectionIsFresh'
  BY <1>3 DEF EndLoop
<1>4. ASSUME NEW n \in Nodes, TryAcquire(n) PROVE ElectionIsFresh'
  BY <1>4 DEF TryAcquire, Acquire
<1>5. ASSUME NEW n \in Nodes, Increment(n) PROVE ElectionIsFresh'
  BY <1>5 DEF Increment, PhasesEnd, Busy
<1>6. ASSUME NEW n \in Nodes, BecomeLeader(n) \/ EndCallback(n) PROVE ElectionIsFresh'
  BY <1>6 DEF BecomeLeader, EndCallback
<1>7. ASSUME NEW n \in Nodes, Renew(n) PROVE ElectionIsFresh'
  BY <1>7 DEF Renew, Acquire, Demote
<1>8. ASSUME NEW n \in Nodes, RedisError(n) PROVE ElectionIsFresh'
  BY <1>8 DEF RedisError, Demote
<1>9. ASSUME NEW n \in Nodes, Crash(n) PROVE ElectionIsFresh'
  BY <1>9 DEF Crash
<1>10. ASSUME NEW n \in Nodes, Stop(n) PROVE ElectionIsFresh'
  BY <1>10 DEF Stop, LeaseIsFresh
<1>11. ASSUME NEW n \in Nodes, ReleaseLock(n) \/ ReleaseFails(n) \/ CancelLoop(n)
       PROVE  ElectionIsFresh'
  BY <1>11 DEF ReleaseLock, ReleaseFails, CancelLoop, Release
<1>12. CASE Tick
  BY <1>12 DEF Tick, MayLast, Release, Margin, Busy
<1>13. CASE UNCHANGED electionVars
  BY <1>13 DEF electionVars
<1> QED
  BY <1>1, <1>2, <1>3, <1>4, <1>5, <1>6, <1>7, <1>8, <1>9, <1>10, <1>11, <1>12, <1>13
     DEF ElectionNext, LoopStep

LEMMA NextLastTicketLeads == FenceInv /\ [ElectionNext]_electionVars => LastTicketLeads'
<1> SUFFICES ASSUME FenceInv, [ElectionNext]_electionVars PROVE LastTicketLeads'
  OBVIOUS
<1> USE DEF FenceInv, LeaseInv, ElectionTypeOK, LastTicketLeads, lock, local, halt, EnterPhase
<1>1. ASSUME NEW n \in Nodes, Increment(n) PROVE LastTicketLeads'
  <2>1. owner = n
    BY <1>1 DEF Increment, ElectionIsFresh, Holds
  <2>2. \A m \in Nodes \ {n} : loop[m] # "elected" /\ ~(leader[m] /\ stop[m] = "no")
    BY <2>1 DEF ElectionIsFresh, LeaseIsFresh, Holds
  <2>3. ~(leader[n] /\ stop[n] = "no")
    BY <1>1 DEF Increment, LeaseIsFresh
  <2> QED
    BY <1>1, <2>2, <2>3 DEF Increment
<1>2. ASSUME NEW n \in Nodes, BecomeLeader(n) PROVE LastTicketLeads'
  BY <1>2 DEF BecomeLeader
<1>3. ASSUME NEW n \in Nodes, Crash(n) PROVE LastTicketLeads'
  BY <1>3 DEF Crash
<1>4. ASSUME NEW n \in Nodes, \/ Start(n) \/ Wake(n) \/ EndLoop(n) \/ TryAcquire(n)
                               \/ EndCallback(n) \/ Renew(n) \/ RedisError(n) \/ Stop(n)
                               \/ ReleaseLock(n) \/ ReleaseFails(n) \/ CancelLoop(n)
      PROVE  LastTicketLeads'
  <2>1. UNCHANGED <<generation, term, ticket>>
    BY <1>4 DEF Start, Wake, EndLoop, TryAcquire, EndCallback, Renew, RedisError, Stop,
                ReleaseLock, ReleaseFails, CancelLoop, Demote
  <2>2. \A m \in Nodes : /\ loop'[m] = "elected" => loop[m] = "elected"
                         /\ leader'[m] => leader[m]
                         /\ stop'[m] = "no" => stop[m] = "no"
    BY <1>4 DEF Start, Wake, EndLoop, TryAcquire, EndCallback, Renew, RedisError, Stop,
                ReleaseLock, ReleaseFails, CancelLoop, Demote
  <2> QED
    BY <2>1, <2>2
<1>5. CASE Tick
  BY <1>5 DEF Tick
<1>6. CASE UNCHANGED electionVars
  BY <1>6 DEF electionVars
<1> QED
  BY <1>1, <1>2, <1>3, <1>4, <1>5, <1>6 DEF ElectionNext, LoopStep

(***************************************************************************)
(* With the margin who checks generations refuses every old leader: a term *)
(* is one node's only, and the running leader's is newer than all others.  *)
(***************************************************************************)
THEOREM TermsFenceOldLeaders == ASSUME Margin PROVE ElectionSpec => []TermsFence
<1>1. ElectionInit => FenceInv
  <2> SUFFICES ASSUME ElectionInit PROVE FenceInv
    OBVIOUS
  <2>1. LeaseInv
    BY InitElectionTypeOK, TimesAssumption DEF ElectionInit, LeaseInv, PhasesEnd, LeaseIsFresh, Busy
  <2>2. generation = 0 /\ \A n \in Nodes : term[n] = 0 /\ ticket[n] = 0
    BY DEF ElectionInit
  <2>3. TicketsAreUnique
    BY <2>2, InitTickets
  <2> QED
    BY <2>1, <2>3 DEF ElectionInit, FenceInv, ElectionIsFresh, LastTicketLeads
<1>2. FenceInv /\ [ElectionNext]_electionVars => FenceInv'
  BY NextElectionTypeOK, NextPhasesEnd, NextLeaseIsFresh, NextTicketsAreUnique, NextElectionIsFresh,
     NextLastTicketLeads DEF FenceInv, LeaseInv
<1>3. FenceInv => TermsFence
  <2> SUFFICES ASSUME FenceInv PROVE TermsFence
    OBVIOUS
  <2>1. TermsAreUnique
    BY DEF FenceInv, TicketsAreUnique, TermsAreUnique
  <2>2. ASSUME NEW m \in Nodes, NEW n \in Nodes, leader[n], stop[n] = "no", m # n
        PROVE  term[m] < term[n]
    BY <2>2 DEF FenceInv, LeaseInv, ElectionTypeOK, TicketsAreUnique, LastTicketLeads
  <2> QED
    BY <2>1, <2>2 DEF TermsFence, NewestTermLeads
<1> QED
  BY <1>1, <1>2, <1>3, PTL DEF ElectionSpec

-----------------------------------------------------------------------------
(***************************************************************************)
(* The trading-state store and its API.                                    *)
(***************************************************************************)
(* What a call in progress may be, by the command it is about to run. *)
CallsWellFormed ==
  \A c \in Clients :
    /\ pc[c] # "idle" <=> result[c] = "pending"
    /\ pc[c] \in {"get", "init"} => call[c].kind \in {"get", "force"}
    /\ pc[c] \in {"watch", "exec"} => call[c].kind \in {"transition", "force"}
    /\ pc[c] = "read" => call[c].kind = "transition"
    /\ (pc[c] # "idle" /\ call[c].kind = "transition") =>
         <<call[c].expected, call[c].target>> \in LegalEdges
    /\ (pc[c] # "idle" /\ call[c].kind = "force") => call[c].target \in Protective

(* The key is there and nobody is about to create it. *)
KeyStays == key # Absent /\ \A c \in Clients : pc[c] # "init"

StoreInv == TypeOK /\ CallsWellFormed /\ WatchIsSound

USE DEF Absent, Corrupt

(* Decoding turns every raw value into a trading state. *)
LEMMA DecodeType == ASSUME NEW raw \in KeyValues PROVE Decode(raw) \in States
  BY DEF KeyValues, States, Decode

LEMMA InitStoreInv == Init => StoreInv
  BY InitialKeysAssumption
     DEF Init, StoreInv, TypeOK, CallsWellFormed, WatchIsSound, GetCall, Calls, Kinds,
         Commands, Results, States, Lost

(***************************************************************************)
(* Every step preserves the types of the variables.                        *)
(***************************************************************************)
LEMMA NextTypeOK == TypeOK /\ [Next]_vars => TypeOK'
<1> SUFFICES ASSUME TypeOK, [Next]_vars PROVE TypeOK'
  OBVIOUS
<1> USE DEF TypeOK, Commands, Results, Lost
<1>1. ASSUME NEW c \in Clients, CallGet(c) PROVE TypeOK'
  BY <1>1 DEF CallGet, Begin, Proceed, GetCall, Calls, Kinds, States
<1>2. ASSUME NEW c \in Clients, NEW expected \in States, NEW target \in States,
             NEW tokenValid \in BOOLEAN, CallTransition(c, expected, target, tokenValid)
      PROVE  TypeOK'
  BY <1>2 DEF CallTransition, Begin, Proceed, Return, Calls, Kinds
<1>3. ASSUME NEW c \in Clients, NEW target \in States, NEW secretLoaded \in BOOLEAN,
             CallForce(c, target, secretLoaded)
      PROVE  TypeOK'
  BY <1>3 DEF CallForce, Begin, Proceed, Return, Calls, Kinds, States
<1>4. ASSUME NEW c \in Clients, GetKey(c) PROVE TypeOK'
  BY <1>4, DecodeType DEF GetKey, StateRead, Goto, Return
<1>5. ASSUME NEW c \in Clients, InitKey(c) PROVE TypeOK'
  BY <1>5 DEF InitKey, Write, StateRead, Goto, Return, States, KeyValues
<1>6. ASSUME NEW c \in Clients, Watch(c) PROVE TypeOK'
  BY <1>6 DEF Watch, Goto
<1>7. ASSUME NEW c \in Clients, ReadWatched(c) PROVE TypeOK'
  BY <1>7 DEF ReadWatched, Goto, Return
<1>8. ASSUME NEW c \in Clients, Exec(c) PROVE TypeOK'
  BY <1>8 DEF Exec, Write, Return, Calls, KeyValues
<1>9. ASSUME NEW c \in Clients, LoseConnection(c) PROVE TypeOK'
  BY <1>9 DEF LoseConnection, Return
<1>10. CASE SaveSnapshot
  BY <1>10 DEF SaveSnapshot
<1>11. CASE RestartRedis
  BY <1>11 DEF RestartRedis, Write
<1>12. CASE UNCHANGED vars
  BY <1>12 DEF vars
<1>13. QED
  BY <1>1, <1>2, <1>3, <1>4, <1>5, <1>6, <1>7, <1>8, <1>9, <1>10, <1>11, <1>12
     DEF Next, SteadyNext, Invoke, SteadyStep

(***************************************************************************)
(* The store's variables always have the types their declarations say.     *)
(***************************************************************************)
THEOREM StoreTypeCorrect == Spec => []TypeOK
<1>1. Init => TypeOK
  BY InitStoreInv DEF StoreInv
<1>2. QED
  BY <1>1, NextTypeOK, PTL DEF Spec

(***************************************************************************)
(* Every step keeps the calls well formed.                                 *)
(***************************************************************************)
LEMMA NextCallsWellFormed ==
  TypeOK /\ CallsWellFormed /\ [Next]_vars => CallsWellFormed'
<1> SUFFICES ASSUME TypeOK, CallsWellFormed, [Next]_vars PROVE CallsWellFormed'
  OBVIOUS
<1> USE DEF TypeOK, CallsWellFormed, Commands
<1>1. ASSUME NEW c \in Clients, CallGet(c) PROVE CallsWellFormed'
  BY <1>1 DEF CallGet, Begin, Proceed, GetCall
<1>2. ASSUME NEW c \in Clients, NEW expected \in States, NEW target \in States,
             NEW tokenValid \in BOOLEAN, CallTransition(c, expected, target, tokenValid)
      PROVE  CallsWellFormed'
  BY <1>2 DEF CallTransition, Begin, Proceed, Return
<1>3. ASSUME NEW c \in Clients, NEW target \in States, NEW secretLoaded \in BOOLEAN,
             CallForce(c, target, secretLoaded)
      PROVE  CallsWellFormed'
  BY <1>3 DEF CallForce, Begin, Proceed, Return
<1>4. ASSUME NEW c \in Clients, GetKey(c) PROVE CallsWellFormed'
  BY <1>4, DecodeType DEF GetKey, StateRead, Goto, Return, States
<1>5. ASSUME NEW c \in Clients, InitKey(c) PROVE CallsWellFormed'
  BY <1>5 DEF InitKey, Write, StateRead, Goto, Return
<1>6. ASSUME NEW c \in Clients, Watch(c) PROVE CallsWellFormed'
  BY <1>6 DEF Watch, Goto
<1>7. ASSUME NEW c \in Clients, ReadWatched(c) PROVE CallsWellFormed'
  BY <1>7 DEF ReadWatched, Goto, Return
<1>8. ASSUME NEW c \in Clients, Exec(c) PROVE CallsWellFormed'
  BY <1>8 DEF Exec, Write, Return, Lost
<1>9. ASSUME NEW c \in Clients, LoseConnection(c) PROVE CallsWellFormed'
  BY <1>9 DEF LoseConnection, Return, Lost
<1>10. CASE SaveSnapshot
  BY <1>10 DEF SaveSnapshot
<1>11. CASE RestartRedis
  BY <1>11 DEF RestartRedis, Write
<1>12. CASE UNCHANGED vars
  BY <1>12 DEF vars
<1>13. QED
  BY <1>1, <1>2, <1>3, <1>4, <1>5, <1>6, <1>7, <1>8, <1>9, <1>10, <1>11, <1>12
     DEF Next, SteadyNext, Invoke, SteadyStep

(***************************************************************************)
(* A step that writes the key leaves no WATCH intact; a step that does not *)
(* leaves the value other watchers read as it was.                         *)
(***************************************************************************)
LEMMA NextWatchIsSound ==
  TypeOK /\ CallsWellFormed /\ WatchIsSound /\ [Next]_vars => WatchIsSound'
<1> SUFFICES ASSUME TypeOK, CallsWellFormed, WatchIsSound, [Next]_vars
             PROVE  WatchIsSound'
  OBVIOUS
<1> USE DEF TypeOK, WatchIsSound, View
<1>1. ASSUME NEW c \in Clients, CallGet(c) PROVE WatchIsSound'
  BY <1>1 DEF CallGet, Begin, Proceed, GetCall
<1>2. ASSUME NEW c \in Clients, NEW expected \in States, NEW target \in States,
             NEW tokenValid \in BOOLEAN, CallTransition(c, expected, target, tokenValid)
      PROVE  WatchIsSound'
  BY <1>2 DEF CallTransition, Begin, Proceed, Return
<1>3. ASSUME NEW c \in Clients, NEW target \in States, NEW secretLoaded \in BOOLEAN,
             CallForce(c, target, secretLoaded)
      PROVE  WatchIsSound'
  BY <1>3 DEF CallForce, Begin, Proceed, Return
<1>4. ASSUME NEW c \in Clients, GetKey(c) PROVE WatchIsSound'
  BY <1>4 DEF GetKey, StateRead, Goto, Return
<1>5. ASSUME NEW c \in Clients, InitKey(c) PROVE WatchIsSound'
  BY <1>5 DEF InitKey, Write
<1>6. ASSUME NEW c \in Clients, Watch(c) PROVE WatchIsSound'
  BY <1>6 DEF Watch, Goto, CallsWellFormed
<1>7. ASSUME NEW c \in Clients, ReadWatched(c) PROVE WatchIsSound'
  BY <1>7 DEF ReadWatched, Goto, Return
<1>8. ASSUME NEW c \in Clients, Exec(c) PROVE WatchIsSound'
  BY <1>8 DEF Exec, Write, Return
<1>9. ASSUME NEW c \in Clients, LoseConnection(c) PROVE WatchIsSound'
  BY <1>9 DEF LoseConnection, Return
<1>10. CASE SaveSnapshot
  BY <1>10 DEF SaveSnapshot
<1>11. CASE RestartRedis
  BY <1>11 DEF RestartRedis, Write
<1>12. CASE UNCHANGED vars
  BY <1>12 DEF vars
<1>13. QED
  BY <1>1, <1>2, <1>3, <1>4, <1>5, <1>6, <1>7, <1>8, <1>9, <1>10, <1>11, <1>12
     DEF Next, SteadyNext, Invoke, SteadyStep

LEMMA InductiveInvariant == Spec => []StoreInv
<1>1. StoreInv /\ [Next]_vars => StoreInv'
  BY NextTypeOK, NextCallsWellFormed, NextWatchIsSound DEF StoreInv
<1>2. QED
  BY InitStoreInv, <1>1, PTL DEF Spec

(***************************************************************************)
(* The WATCH of a transition that read its expected state stands for that  *)
(* state until EXEC, whoever else writes, restarts or fails in between.    *)
(***************************************************************************)
THEOREM OptimisticLockIsSound == Spec => []WatchIsSound
<1>1. StoreInv => WatchIsSound
  BY DEF StoreInv
<1>2. QED
  BY InductiveInvariant, <1>1, PTL

-----------------------------------------------------------------------------
(* From here on: the key exists when the processes start, and Redis stays up. *)
Steady == Absent \notin InitialKeys

LEMMA SteadyStoreInv == SteadySpec => []StoreInv
<1>1. [SteadyNext]_vars => [Next]_vars
  BY DEF Next
<1>2. SteadySpec => Spec
  BY <1>1, PTL DEF SteadySpec, Spec
<1>3. QED
  BY <1>2, InductiveInvariant, PTL

LEMMA KeyStaysInductive ==
  ASSUME Steady
  PROVE  /\ Init => KeyStays
         /\ TypeOK /\ CallsWellFormed /\ KeyStays /\ [SteadyNext]_vars => KeyStays'
<1>1. Init => KeyStays
  BY DEF Steady, Init, KeyStays
<1> SUFFICES ASSUME TypeOK, CallsWellFormed, KeyStays, [SteadyNext]_vars PROVE KeyStays'
  BY <1>1
<1> USE DEF TypeOK, KeyStays
<1>3. ASSUME NEW c \in Clients, Invoke(c) PROVE KeyStays'
  BY <1>3 DEF Invoke, CallGet, CallTransition, CallForce, Begin, Proceed, Return
<1>4. ASSUME NEW c \in Clients, GetKey(c) PROVE KeyStays'
  BY <1>4 DEF GetKey, StateRead, Goto, Return
<1>6. ASSUME NEW c \in Clients, Watch(c) \/ ReadWatched(c) \/ LoseConnection(c)
      PROVE  KeyStays'
  BY <1>6 DEF Watch, ReadWatched, LoseConnection, Goto, Return
<1>7. ASSUME NEW c \in Clients, Exec(c) PROVE KeyStays'
  BY <1>7 DEF Exec, Write, Return, Calls, States
<1>9. CASE UNCHANGED vars
  BY <1>9 DEF vars
<1>10. QED
  BY <1>3, <1>4, <1>6, <1>7, <1>9 DEF SteadyNext, SteadyStep

(***************************************************************************)
(* A steady store is an atomic register: every step is an operation of the *)
(* abstract register taking effect, or invisible to it.                    *)
(***************************************************************************)
LEMMA StepRefines ==
  ASSUME Steady, StoreInv, KeyStays, [SteadyNext]_vars
  PROVE  [Atomic!Next]_<<View, call, result>>
<1> USE DEF StoreInv, TypeOK, CallsWellFormed, KeyStays, Atomic!Pending, Atomic!Lost, Lost
<1>1. ASSUME NEW c \in Clients, CallGet(c) PROVE Atomic!Ask(c)
  <2>1. GetCall \in Atomic!Requests
    BY DEF GetCall, Atomic!Requests, Atomic!States
  <2>2. QED
    BY <1>1, <2>1 DEF CallGet, Begin, Proceed, Atomic!Ask, View
<1>2. ASSUME NEW c \in Clients, NEW expected \in States, NEW target \in States,
             NEW tokenValid \in BOOLEAN, CallTransition(c, expected, target, tokenValid)
      PROVE  Atomic!Ask(c)
  <2>1. [kind |-> "transition", expected |-> expected, target |-> target] \in Atomic!Requests
    BY DEF Atomic!Requests, Atomic!States, States
  <2>2. QED
    BY <1>2, <2>1 DEF CallTransition, Begin, Proceed, Return, Atomic!Ask, View
<1>3. ASSUME NEW c \in Clients, NEW target \in States, NEW secretLoaded \in BOOLEAN,
             CallForce(c, target, secretLoaded)
      PROVE  Atomic!Ask(c)
  <2>1. [kind |-> "force", expected |-> "active", target |-> target] \in Atomic!Requests
    BY DEF Atomic!Requests, Atomic!States, States
  <2>2. QED
    BY <1>3, <2>1 DEF CallForce, Begin, Proceed, Return, Atomic!Ask, View
<1>4. ASSUME NEW c \in Clients, GetKey(c)
      PROVE  Atomic!Read(c) \/ UNCHANGED <<View, call, result>>
  BY <1>4 DEF GetKey, StateRead, Goto, Return, Atomic!Read, Atomic!Answer, View
<1>6. ASSUME NEW c \in Clients, Watch(c) PROVE UNCHANGED <<View, call, result>>
  BY <1>6 DEF Watch, Goto, View
<1>7. ASSUME NEW c \in Clients, ReadWatched(c)
      PROVE  \/ Atomic!Miss(c) \/ Atomic!Fail(c)
             \/ UNCHANGED <<View, call, result>>
  BY <1>7 DEF ReadWatched, Goto, Return, Atomic!Miss, Atomic!Fail, Atomic!Answer, View
<1>8. ASSUME NEW c \in Clients, Exec(c)
      PROVE  Atomic!Change(c) \/ Atomic!Force(c) \/ Atomic!Fail(c)
  <2>1. CASE c \notin watched
    BY <1>8, <2>1 DEF Exec, Return, Atomic!Fail, Atomic!Answer, View
  <2>2. CASE c \in watched /\ call[c].kind = "force"
    <3>1. View' = call[c].target
      BY <1>8, <2>2 DEF Exec, Write, Return, View, Decode, Protective
    <3>2. QED
      BY <1>8, <2>2, <3>1
         DEF Exec, Return, Atomic!Force, Atomic!Answer, Atomic!Protective, Atomic!States,
             Protective
  <2>3. CASE c \in watched /\ call[c].kind = "transition"
    <3>1. View = call[c].expected /\ <<call[c].expected, call[c].target>> \in LegalEdges
      BY <1>8, <2>3 DEF Exec, WatchIsSound
    <3>2. View' = call[c].target
      BY <1>8, <2>3, <3>1 DEF Exec, Write, Return, View, Decode, LegalEdges
    <3>3. Atomic!MayGo(View, call[c].target)
      BY <3>1 DEF Atomic!MayGo, LegalEdges
    <3>4. QED
      BY <1>8, <2>3, <3>1, <3>2, <3>3 DEF Exec, Return, Atomic!Change, Atomic!Answer
  <2>4. QED
    BY <1>8, <2>1, <2>2, <2>3 DEF Exec
<1>9. ASSUME NEW c \in Clients, LoseConnection(c) PROVE Atomic!Fail(c)
  BY <1>9 DEF LoseConnection, Return, Atomic!Fail, Atomic!Answer, View
<1>11. CASE UNCHANGED vars
  BY <1>11 DEF vars, View
<1>12. QED
  BY <1>1, <1>2, <1>3, <1>4, <1>6, <1>7, <1>8, <1>9, <1>11
     DEF SteadyNext, Invoke, SteadyStep, Atomic!Next

LEMMA InitRefines == ASSUME Init PROVE Atomic!Init
<1>1. View \in Atomic!States
  BY InitialKeysAssumption, DecodeType DEF Init, View, States, Atomic!States
<1>2. call \in [Clients -> Atomic!Requests]
  BY DEF Init, GetCall, Atomic!Requests, Atomic!States
<1>3. QED
  BY <1>1, <1>2 DEF Init, Atomic!Init

THEOREM SteadyStoreIsAtomic == ASSUME Steady PROVE SteadySpec => StoreIsAtomic
<1>1. Init => KeyStays
  BY KeyStaysInductive
<1>2. StoreInv /\ KeyStays /\ [SteadyNext]_vars => KeyStays'
  BY KeyStaysInductive DEF StoreInv
<1>3. StoreInv /\ KeyStays /\ [SteadyNext]_vars => [Atomic!Next]_<<View, call, result>>
  BY StepRefines
<1>4. Init => Atomic!Init
  BY InitRefines
<1>5. QED
  BY SteadyStoreInv, <1>1, <1>2, <1>3, <1>4, PTL DEF SteadySpec, StoreIsAtomic, Atomic!Spec

(***************************************************************************)
(* In a steady store trading is resumed only by a transition() that named  *)
(* the state it leaves.                                                    *)
(***************************************************************************)
THEOREM SteadyResumesOnlyByOperator == ASSUME Steady PROVE SteadySpec => ResumesOnlyByOperator
<1>1. Init => KeyStays
  BY KeyStaysInductive
<1>2. StoreInv /\ KeyStays /\ [SteadyNext]_vars => KeyStays'
  BY KeyStaysInductive DEF StoreInv
<1>3. StoreInv /\ KeyStays /\ [SteadyNext]_vars => [ResumeIsByOperator]_vars
  <2> SUFFICES ASSUME StoreInv, KeyStays, [SteadyNext]_vars, View # "active", View' = "active"
               PROVE  ResumeIsByOperator
    BY DEF ResumeIsByOperator
  <2>1. PICK c \in Clients : Exec(c) /\ c \in watched
    <3>1. key' # key
      BY DEF View
    <3>2. QED
      BY <3>1 DEF SteadyNext, vars, Invoke, CallGet, CallTransition, CallForce, SteadyStep,
         GetKey, Watch, ReadWatched, Exec, LoseConnection
  <2>2. Executes(c)
    BY <2>1 DEF Exec, Write, Return, Executes, StoreInv, TypeOK
  <2>3. call[c].kind # "force"
    <3> SUFFICES ASSUME call[c].kind = "force" PROVE View' # "active"
      OBVIOUS
    <3>2. QED
      BY <2>1 DEF Exec, Write, View, Decode, StoreInv, CallsWellFormed, Protective
  <2>4. call[c].kind = "transition" /\ key # Corrupt /\ call[c].expected = View
    BY <2>1, <2>3 DEF Exec, StoreInv, CallsWellFormed, WatchIsSound
  <2>5. QED
    BY <2>2, <2>4 DEF ResumeIsByOperator
<1>4. QED
  BY SteadyStoreInv, <1>1, <1>2, <1>3, PTL DEF SteadySpec, ResumesOnlyByOperator

-----------------------------------------------------------------------------
(***************************************************************************)
(* The control API.  What a handler's call is, by the endpoint it serves;  *)
(* and if its call answered "ok", the write that it stands for happened.   *)
(***************************************************************************)
CallOfEndpoint(h) ==
  IF command[h] = "halt" THEN call[h].kind = "force"
  ELSE call[h].kind = "transition" /\ call[h].expected = current[h]

Asked(h) == command[h] # "none" /\ call[h].kind # "get"

OkIsReal(h) ==
  result[h] = "ok" => /\ replaced[h] # "none"
                      /\ call[h].kind = "transition" => replaced[h] = call[h].expected

Serving(h) ==
  /\ command[h] = "none" => pc[h] = "idle"
  /\ command[h] # "none" => answer[h] = NoAnswer
  /\ Asked(h) => command[h] \in DOMAIN Target /\ CallOfEndpoint(h) /\ OkIsReal(h)

AnswerIsReal(h) ==
  answer[h].success => /\ replaced[h] # "none"
                       /\ answer[h].new_state # "halted" => replaced[h] = answer[h].old_state

ApiInv == StoreInv /\ ApiTypeOK /\ \A h \in Handlers : Serving(h) /\ AnswerIsReal(h)

LEMMA Targets ==
  /\ DOMAIN Target = {"halt", "pause", "resume", "close_only"}
  /\ \A e \in DOMAIN Target : Target[e] \in States /\ (Target[e] = "halted" <=> e = "halt")
BY DEF Target, States

LEMMA NoAnswerType ==
  NoAnswer \in [success : BOOLEAN, old_state : States \cup {"none"},
                new_state : States \cup {"none"}]
BY DEF NoAnswer

(* To the store, a step of the API is a step of one of its clients. *)
LEMMA ApiStepIsStoreStep ==
  ASSUME ApiTypeOK, ApiNext
  PROVE  [Next]_vars
<1> USE HandlersAssumption
<1>1. ASSUME NEW h \in Handlers, NEW endpoint \in Endpoints, Receive(h, endpoint)
      PROVE  [Next]_vars
  BY <1>1 DEF Receive, Next, SteadyNext, Invoke
<1>2. ASSUME NEW h \in Handlers, RequestChange(h) PROVE [Next]_vars
  <2>1. command[h] \in DOMAIN Target /\ result[h] \in States /\ Target[command[h]] \in States
    BY <1>2, Targets DEF RequestChange
  <2>2. \/ CallForce(h, "halted", TRUE)
        \/ CallTransition(h, result[h], Target[command[h]], TRUE)
    BY <1>2 DEF RequestChange
  <2>3. Invoke(h)
    BY <2>1, <2>2 DEF Invoke, States
  <2>4. QED
    BY <2>3 DEF Next, SteadyNext
<1>3. ASSUME NEW h \in Handlers, Answer(h) \/ AnswerState(h) \/ AnswerError(h)
      PROVE  [Next]_vars
  BY <1>3 DEF Answer, AnswerState, AnswerError
<1>4. ASSUME NEW c \in Clients, StoreStep(c) PROVE [Next]_vars
  BY <1>4 DEF StoreStep, Step, Next, SteadyNext
<1>5. ASSUME NEW c \in Clients \ Handlers, NEW target \in Protective,
             AutomatedCall(c, target)
      PROVE  [Next]_vars
  <2>1. Invoke(c)
    BY <1>5 DEF AutomatedCall, Invoke, Protective, States
  <2>2. QED
    BY <2>1 DEF Next, SteadyNext
<1>6. CASE SaveSnapshot \/ RestartRedis
  BY <1>6 DEF Next
<1>7. QED
  BY <1>1, <1>2, <1>3, <1>4, <1>5, <1>6 DEF ApiNext

(* A command of one client is no other's business, and only an EXEC that is   *)
(* applied answers "ok".                                                    *)
LEMMA StepIsLocal ==
  ASSUME TypeOK, NEW c \in Clients, Step(c)
  PROVE  /\ call' = call /\ pc[c] # "idle"
         /\ \A d \in Clients \ {c} : pc'[d] = pc[d] /\ result'[d] = result[d]
         /\ result'[c] = "ok" => result[c] = "ok" \/ Executes(c)
<1> USE DEF TypeOK
<1>1. CASE GetKey(c)
  BY <1>1, DecodeType DEF GetKey, StateRead, Goto, Return, States
<1>2. CASE InitKey(c)
  BY <1>2 DEF InitKey, StateRead, Goto, Return
<1>3. CASE Watch(c)
  BY <1>3 DEF Watch, Goto
<1>4. CASE ReadWatched(c)
  BY <1>4 DEF ReadWatched, Goto, Return
<1>5. CASE Exec(c)
  BY <1>5 DEF Exec, Write, Return, Executes
<1>6. CASE LoseConnection(c)
  BY <1>6 DEF LoseConnection, Return, Lost
<1>7. QED
  BY <1>1, <1>2, <1>3, <1>4, <1>5, <1>6 DEF Step, SteadyStep

LEMMA ApiInitInv == ApiInit => ApiInv
<1> SUFFICES ASSUME ApiInit PROVE ApiInv
  OBVIOUS
<1>1. StoreInv
  BY InitStoreInv DEF ApiInit
<1>2. ApiTypeOK
  BY <1>1, NoAnswerType DEF StoreInv, ApiInit, ApiTypeOK, States
<1>3. ASSUME NEW h \in Handlers PROVE Serving(h) /\ AnswerIsReal(h)
  BY HandlersAssumption
     DEF ApiInit, Init, Serving, AnswerIsReal, Asked, NoAnswer
<1>4. QED
  BY <1>1, <1>2, <1>3 DEF ApiInv

LEMMA UntouchedHandler ==
  ASSUME ApiInv, NEW g \in Handlers, command'[g] = command[g], current'[g] = current[g],
         answer'[g] = answer[g], replaced'[g] = replaced[g], call'[g] = call[g],
         pc'[g] = pc[g], result'[g] = result[g]
  PROVE  Serving(g)' /\ AnswerIsReal(g)'
BY DEF ApiInv, Serving, AnswerIsReal, Asked, CallOfEndpoint, OkIsReal

LEMMA ReceiveKeepsApiInv ==
  ASSUME ApiInv, TypeOK', NEW h \in Handlers, NEW endpoint \in Endpoints, Receive(h, endpoint),
         NEW g \in Handlers
  PROVE  ApiTypeOK' /\ Serving(g)' /\ AnswerIsReal(g)'
<1>1. /\ command' = [command EXCEPT ![h] = endpoint]
      /\ answer' = [answer EXCEPT ![h] = NoAnswer]
      /\ replaced' = [replaced EXCEPT ![h] = "none"]
      /\ current' = current
      /\ call' = [call EXCEPT ![h] = GetCall]
      /\ pc' = [pc EXCEPT ![h] = "get"] /\ result' = [result EXCEPT ![h] = "pending"]
  BY DEF Receive, CallGet, Begin, Proceed
<1>2. ApiTypeOK'
  BY <1>1, NoAnswerType DEF ApiInv, ApiTypeOK
<1>3. CASE g = h
  BY <1>1, <1>3, HandlersAssumption
     DEF ApiInv, ApiTypeOK, TypeOK, Serving, AnswerIsReal, Asked, GetCall, NoAnswer, Endpoints
<1>4. CASE g # h
  BY <1>1, <1>2, <1>4, UntouchedHandler, HandlersAssumption DEF ApiInv, ApiTypeOK, TypeOK
<1>5. QED
  BY <1>2, <1>3, <1>4

LEMMA RequestChangeKeepsApiInv ==
  ASSUME ApiInv, TypeOK', NEW h \in Handlers, RequestChange(h), NEW g \in Handlers
  PROVE  ApiTypeOK' /\ Serving(g)' /\ AnswerIsReal(g)'
<1>1. /\ command[h] \in DOMAIN Target /\ result[h] \in States
      /\ current' = [current EXCEPT ![h] = result[h]]
      /\ UNCHANGED <<command, answer, replaced>>
  BY DEF RequestChange
<1>2. /\ \E request : /\ call' = [call EXCEPT ![h] = request]
                      /\ IF command[h] = "halt" THEN request.kind = "force"
                         ELSE request.kind = "transition" /\ request.expected = result[h]
      /\ \E where \in {"idle", "get", "watch"} : pc' = [pc EXCEPT ![h] = where]
      /\ \E r \in {"pending", "refused"} : result' = [result EXCEPT ![h] = r]
  <2>1. CASE command[h] = "halt"
    <3> DEFINE request == [kind |-> "force", expected |-> "active", target |-> "halted"]
    <3>1. CallForce(h, "halted", TRUE)
      BY <2>1 DEF RequestChange
    <3>2. call' = [call EXCEPT ![h] = request] /\ request.kind = "force"
      BY <3>1 DEF CallForce, Begin
    <3>3. QED
      BY <2>1, <3>1, <3>2 DEF CallForce, Proceed, Return
  <2>2. CASE command[h] # "halt"
    <3> DEFINE request == [kind |-> "transition", expected |-> result[h],
                           target |-> Target[command[h]]]
    <3>1. CallTransition(h, result[h], Target[command[h]], TRUE)
      BY <2>2 DEF RequestChange
    <3>2. /\ call' = [call EXCEPT ![h] = request]
          /\ request.kind = "transition" /\ request.expected = result[h]
      BY <3>1 DEF CallTransition, Begin
    <3>3. QED
      BY <2>2, <3>1, <3>2 DEF CallTransition, Proceed, Return
  <2>3. QED
    BY <2>1, <2>2
<1>3. ApiTypeOK'
  BY <1>1 DEF ApiInv, ApiTypeOK
<1>4. CASE g = h
  <2>1. command'[h] # "none" /\ answer'[h] = NoAnswer
    BY <1>1, Targets DEF ApiInv, Serving
  <2>2. CallOfEndpoint(h)'
    BY <1>1, <1>2, HandlersAssumption DEF ApiInv, ApiTypeOK, TypeOK, CallOfEndpoint
  <2>3. OkIsReal(h)'
    BY <1>2, HandlersAssumption DEF ApiInv, ApiTypeOK, TypeOK, OkIsReal
  <2>4. QED
    BY <1>1, <1>3, <1>4, <2>1, <2>2, <2>3 DEF Serving, AnswerIsReal, NoAnswer
<1>5. CASE g # h
  BY <1>1, <1>2, <1>3, <1>5, UntouchedHandler, HandlersAssumption
     DEF ApiInv, ApiTypeOK, TypeOK
<1>6. QED
  BY <1>4, <1>5

LEMMA AnswerKeepsApiInv ==
  ASSUME ApiInv, TypeOK', NEW h \in Handlers,
         Answer(h) \/ AnswerState(h) \/ AnswerError(h), NEW g \in Handlers
  PROVE  ApiTypeOK' /\ Serving(g)' /\ AnswerIsReal(g)'
<1>1. /\ command[h] # "none" /\ command' = [command EXCEPT ![h] = "none"]
      /\ UNCHANGED <<vars, current, replaced>>
      /\ pc[h] = "idle"
  <2>1. pc[h] # "idle" => result[h] = "pending"
    BY HandlersAssumption DEF ApiInv, StoreInv, CallsWellFormed
  <2>2. QED
    BY <2>1, Targets DEF Answer, AnswerState, AnswerError, States
<1>2. CASE UNCHANGED answer
  BY <1>1, <1>2
     DEF ApiInv, ApiTypeOK, Serving, AnswerIsReal, Asked, CallOfEndpoint, OkIsReal, vars
<1>3. CASE Answer(h)
  <2> DEFINE success == result[h] = "ok"
             said == [success   |-> success,
                      old_state |-> current[h],
                      new_state |-> IF success THEN Target[command[h]] ELSE current[h]]
  <2>1. answer' = [answer EXCEPT ![h] = said] /\ call[h].kind # "get"
        /\ command[h] \in DOMAIN Target
    BY <1>3 DEF Answer
  <2>2. said \in [success : BOOLEAN, old_state : States \cup {"none"},
                  new_state : States \cup {"none"}]
    BY <2>1, Targets DEF ApiInv, ApiTypeOK
  <2>3. ApiTypeOK'
    BY <1>1, <2>1, <2>2 DEF ApiInv, ApiTypeOK, vars
  <2>4. AnswerIsReal(h)'
    <3> SUFFICES ASSUME success
                 PROVE  /\ replaced[h] # "none"
                        /\ Target[command[h]] # "halted" => replaced[h] = current[h]
      BY <1>1, <2>1 DEF AnswerIsReal, ApiInv, ApiTypeOK
    <3>1. CallOfEndpoint(h) /\ OkIsReal(h)
      BY <1>1, <2>1 DEF ApiInv, Serving, Asked
    <3>2. QED
      BY <2>1, <3>1, Targets DEF CallOfEndpoint, OkIsReal
  <2>5. g # h => AnswerIsReal(g)'
    BY <1>1, <2>1 DEF ApiInv, ApiTypeOK, AnswerIsReal
  <2>6. Serving(g)'
    BY <1>1, <2>1 DEF ApiInv, ApiTypeOK, Serving, Asked, CallOfEndpoint, OkIsReal, vars
  <2>7. QED
    BY <2>3, <2>4, <2>5, <2>6
<1>4. QED
  BY <1>2, <1>3 DEF AnswerState, AnswerError

LEMMA StoreStepKeepsApiInv ==
  ASSUME ApiInv, TypeOK', NEW c \in Clients, StoreStep(c), NEW g \in Handlers
  PROVE  ApiTypeOK' /\ Serving(g)' /\ AnswerIsReal(g)'
<1>0. View \in States
  BY DecodeType DEF ApiInv, StoreInv, TypeOK, View
<1>1. /\ replaced' = [h \in Handlers |-> IF h = c /\ Executes(h) THEN View ELSE replaced[h]]
      /\ UNCHANGED <<command, current, answer>>
      /\ call' = call /\ pc[c] # "idle"
      /\ \A d \in Clients \ {c} : pc'[d] = pc[d] /\ result'[d] = result[d]
      /\ result'[c] = "ok" => result[c] = "ok" \/ Executes(c)
  BY StepIsLocal DEF StoreStep, ApiInv, StoreInv
<1>2. ApiTypeOK'
  BY <1>0, <1>1 DEF ApiInv, ApiTypeOK
<1>3. CASE g # c
  <2>1. replaced'[g] = replaced[g] /\ pc'[g] = pc[g] /\ result'[g] = result[g]
    BY <1>1, <1>3, HandlersAssumption
  <2>2. QED
    BY <1>1, <1>2, <2>1
       DEF ApiInv, Serving, AnswerIsReal, Asked, CallOfEndpoint, OkIsReal
<1>4. CASE g = c
  <2>1. command[g] # "none" /\ answer'[g] = NoAnswer
    BY <1>1, <1>4 DEF ApiInv, Serving
  <2>2. result[g] # "ok"
    BY <1>1, <1>4 DEF ApiInv, StoreInv, CallsWellFormed
  <2>3. Asked(g) => OkIsReal(g)'
    <3> SUFFICES ASSUME Executes(g)
                 PROVE  /\ replaced'[g] # "none"
                        /\ call[g].kind = "transition" => replaced'[g] = call[g].expected
      BY <1>1, <1>4, <2>2 DEF OkIsReal
    <3>1. replaced'[g] = View
      BY <1>1, <1>4
    <3>2. call[g].kind = "transition" => View = call[g].expected
      BY DEF Executes, ApiInv, StoreInv, WatchIsSound
    <3>3. QED
      BY <1>0, <3>1, <3>2 DEF States
  <2>4. QED
    BY <1>1, <1>2, <2>1, <2>3
       DEF ApiInv, Serving, AnswerIsReal, Asked, CallOfEndpoint, NoAnswer
<1>5. QED
  BY <1>3, <1>4

(* What the others do, and a restart of Redis, answers no handler "ok". *)
LEMMA OthersKeepApiInv ==
  ASSUME ApiInv, TypeOK', UNCHANGED apiVars, NEW g \in Handlers,
         call'[g] = call[g], pc'[g] \in {pc[g], "idle"}, result'[g] \in {result[g], "watch_error"}
  PROVE  ApiTypeOK' /\ Serving(g)' /\ AnswerIsReal(g)'
BY DEF ApiInv, ApiTypeOK, Serving, AnswerIsReal, Asked, CallOfEndpoint, OkIsReal, apiVars

LEMMA ApiNextInv == ApiInv /\ [ApiNext]_allVars => ApiInv'
<1> SUFFICES ASSUME ApiInv, [ApiNext]_allVars PROVE ApiInv'
  OBVIOUS
<1>0. StoreInv'
  <2>1. [Next]_vars
    BY ApiStepIsStoreStep DEF ApiInv, allVars
  <2>2. QED
    BY <2>1, NextTypeOK, NextCallsWellFormed, NextWatchIsSound DEF ApiInv, StoreInv
<1>1. TypeOK' /\ TypeOK
  BY <1>0 DEF ApiInv, StoreInv
<1>2. ApiTypeOK'
  <2>1. CASE UNCHANGED apiVars
    BY <1>1, <2>1 DEF ApiInv, ApiTypeOK, apiVars
  <2>2. CASE Handlers # {} /\ ApiNext
    BY <1>1, <2>2, ReceiveKeepsApiInv, RequestChangeKeepsApiInv, AnswerKeepsApiInv,
       StoreStepKeepsApiInv, <2>1 DEF ApiNext, AutomatedCall
  <2>3. CASE Handlers = {} /\ ApiNext
    BY <1>1, <2>1, <2>3 DEF ApiNext, AutomatedCall, StoreStep, ApiInv, ApiTypeOK, apiVars
  <2>4. QED
    BY <2>1, <2>2, <2>3 DEF allVars
<1>3. ASSUME NEW g \in Handlers PROVE Serving(g)' /\ AnswerIsReal(g)'
  <2>1. ASSUME NEW h \in Handlers, NEW endpoint \in Endpoints, Receive(h, endpoint)
        PROVE  Serving(g)' /\ AnswerIsReal(g)'
    BY <1>1, <2>1, ReceiveKeepsApiInv
  <2>2. ASSUME NEW h \in Handlers, RequestChange(h)
        PROVE  Serving(g)' /\ AnswerIsReal(g)'
    BY <1>1, <2>2, RequestChangeKeepsApiInv
  <2>3. ASSUME NEW h \in Handlers, Answer(h) \/ AnswerState(h) \/ AnswerError(h)
        PROVE  Serving(g)' /\ AnswerIsReal(g)'
    BY <1>1, <2>3, AnswerKeepsApiInv
  <2>4. ASSUME NEW c \in Clients, StoreStep(c) PROVE Serving(g)' /\ AnswerIsReal(g)'
    BY <1>1, <2>4, StoreStepKeepsApiInv
  <2>5. ASSUME NEW c \in Clients \ Handlers, NEW target \in Protective,
               AutomatedCall(c, target)
        PROVE  Serving(g)' /\ AnswerIsReal(g)'
    <3>1. UNCHANGED apiVars /\ call'[g] = call[g] /\ pc'[g] = pc[g] /\ result'[g] = result[g]
      BY <1>1, <2>5, HandlersAssumption
         DEF AutomatedCall, CallForce, Begin, Proceed, Return, TypeOK
    <3>2. QED
      BY <1>1, <3>1, OthersKeepApiInv
  <2>6. CASE (SaveSnapshot \/ RestartRedis) /\ UNCHANGED apiVars
    <3>1. /\ call'[g] = call[g] /\ pc'[g] \in {pc[g], "idle"}
          /\ result'[g] \in {result[g], "watch_error"}
      BY <1>1, <2>6, HandlersAssumption DEF SaveSnapshot, RestartRedis, TypeOK
    <3>2. QED
      BY <1>1, <2>6, <3>1, OthersKeepApiInv
  <2>7. CASE UNCHANGED allVars
    BY <1>1, <2>7, OthersKeepApiInv DEF allVars, vars
  <2>8. QED
    BY <2>1, <2>2, <2>3, <2>4, <2>5, <2>6, <2>7 DEF ApiNext
<1>4. QED
  BY <1>0, <1>2, <1>3 DEF ApiInv

(***************************************************************************)
(* For any number of operators and automated callers: a success told by    *)
(* the API is a write that happened, and pause, resume and close_only name *)
(* the very state it replaced, restarts of Redis and lost replies          *)
(* included.                                                               *)
(***************************************************************************)
THEOREM SuccessesAreReal == ApiSpec => []SuccessIsReal
<1>1. ApiInv => SuccessIsReal
  BY DEF ApiInv, AnswerIsReal, SuccessIsReal
<1>2. QED
  BY <1>1, ApiInitInv, ApiNextInv, PTL DEF ApiSpec
=============================================================================
