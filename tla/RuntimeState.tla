---------------------------- MODULE RuntimeState ----------------------------
(***************************************************************************)
(* The trading state kept in one Redis key and shared by every process:    *)
(* src/src/runtime_state.py, class RuntimeStateStore.                      *)
(*                                                                         *)
(* A client is one coroutine that awaits a method of the store.  Every     *)
(* await of a Redis command is a step of its own, so the commands of       *)
(* different clients interleave as they do at the Redis server, which runs *)
(* them one at a time.                                                     *)
(***************************************************************************)
EXTENDS Naturals, FiniteSets

CONSTANTS
  Clients,      \* coroutines that call the store, in any process
  InitialKeys   \* what Redis may hold when the first process starts

States     == {"active", "paused", "close_only", "halted"}
Protective == {"paused", "close_only", "halted"}
Absent     == "absent"     \* the key does not exist
Corrupt    == "corrupt"    \* the key holds no member of TradingState
KeyValues  == States \cup {Absent, Corrupt}

ASSUME InitialKeysAssumption == InitialKeys \subseteq KeyValues

(* The legal table of transition(). *)
LegalEdges ==
  { <<"active", "paused">>, <<"active", "close_only">>, <<"active", "halted">>,
    <<"paused", "active">>, <<"paused", "close_only">>, <<"paused", "halted">>,
    <<"close_only", "active">>, <<"close_only", "halted">>,
    <<"halted", "active">> }

(* What get_state makes of the raw value: a fresh key starts ACTIVE, an      *)
(* unrecognised value fails safe to HALTED.                                  *)
Decode(raw) == CASE raw = Absent  -> "active"
                 [] raw = Corrupt -> "halted"
                 [] OTHER         -> raw

VARIABLES
  key,      \* the value of algotrader:trading_state
  saved,    \* the value in Redis' last RDB snapshot
  watched,  \* clients whose WATCH no write has touched yet
  pc,       \* the Redis command each client is about to run
  call,     \* the call each client is in, or was last in
  result    \* what that call returned, "pending" until it does

vars == <<key, saved, watched, pc, call, result>>

Kinds    == {"get", "transition", "force"}
Calls    == [kind: Kinds, expected: States, target: States]
Commands == {"idle", "get", "init", "watch", "read", "exec"}
Lost     == {"raised", "watch_error"}   \* what a caller may see of a lost connection
Results  == States \cup {"none", "pending", "ok", "refused", "cas_miss"} \cup Lost

GetCall == [kind |-> "get", expected |-> "active", target |-> "active"]

TypeOK ==
  /\ key \in KeyValues
  /\ saved \in KeyValues
  /\ watched \subseteq Clients
  /\ pc \in [Clients -> Commands]
  /\ call \in [Clients -> Calls]
  /\ result \in [Clients -> Results]

Init ==
  /\ key \in InitialKeys
  /\ saved = key
  /\ watched = {}
  /\ pc = [c \in Clients |-> "idle"]
  /\ call = [c \in Clients |-> GetCall]
  /\ result = [c \in Clients |-> "none"]

-----------------------------------------------------------------------------
(* A SET invalidates every WATCH on the key, whatever the value written. *)
Write(v) == key' = v /\ watched' = {}

Goto(c, command) == pc' = [pc EXCEPT ![c] = command] /\ UNCHANGED result

Return(c, r) ==
  /\ pc' = [pc EXCEPT ![c] = "idle"]
  /\ result' = [result EXCEPT ![c] = r]

Begin(c, request) ==
  /\ pc[c] = "idle"
  /\ call' = [call EXCEPT ![c] = request]

Proceed(c, command) ==
  /\ pc' = [pc EXCEPT ![c] = command]
  /\ result' = [result EXCEPT ![c] = "pending"]

-----------------------------------------------------------------------------
(* get_state(): GET, then SET if the key was absent. *)
CallGet(c) ==
  /\ Begin(c, GetCall)
  /\ Proceed(c, "get")
  /\ UNCHANGED <<key, saved, watched>>

(* transition(expected, target, token): the token and the legal table are   *)
(* checked before Redis is touched.                                         *)
CallTransition(c, expected, target, tokenValid) ==
  /\ Begin(c, [kind |-> "transition", expected |-> expected, target |-> target])
  /\ IF tokenValid /\ <<expected, target>> \in LegalEdges
       THEN Proceed(c, "watch")
       ELSE Return(c, "refused")
  /\ UNCHANGED <<key, saved, watched>>

(* A variant with a bug: the target of a forced transition is not checked.  *)
CallForceAnyTarget(c, target, secretLoaded) ==
  /\ Begin(c, [kind |-> "force", expected |-> "active", target |-> target])
  /\ IF secretLoaded THEN Proceed(c, "get") ELSE Return(c, "refused")
  /\ UNCHANGED <<key, saved, watched>>

(* force_transition_internal(target): refused for a target that is not      *)
(* protective or when no fencing secret was loaded.                         *)
CallForce(c, target, secretLoaded) ==
  /\ Begin(c, [kind |-> "force", expected |-> "active", target |-> target])
  /\ IF target \in Protective /\ secretLoaded
       THEN Proceed(c, "get")
       ELSE Return(c, "refused")
  /\ UNCHANGED <<key, saved, watched>>

(* get_state ends: force_transition_internal, which reads the state for its *)
(* log line only, goes on to WATCH.                                         *)
StateRead(c, s) ==
  IF call[c].kind = "force" THEN Goto(c, "watch") ELSE Return(c, s)

GetKey(c) ==
  /\ pc[c] = "get"
  /\ IF key = Absent THEN Goto(c, "init") ELSE StateRead(c, Decode(key))
  /\ UNCHANGED <<key, saved, watched, call>>

InitKey(c) ==
  /\ pc[c] = "init"
  /\ Write("active")
  /\ StateRead(c, "active")
  /\ UNCHANGED <<saved, call>>

Watch(c) ==
  /\ pc[c] = "watch"
  /\ watched' = watched \cup {c}
  /\ Goto(c, IF call[c].kind = "transition" THEN "read" ELSE "exec")
  /\ UNCHANGED <<key, saved, call>>

(* A variant with a bug: the state read under the WATCH is not compared. *)
ReadWatchedUncompared(c) ==
  /\ pc[c] = "read"
  /\ Goto(c, "exec")
  /\ UNCHANGED <<key, saved, watched, call>>

(* transition() alone reads the key under its WATCH: a value TradingState   *)
(* does not know raises ValueError, another state than expected is a miss.  *)
ReadWatched(c) ==
  /\ pc[c] = "read"
  /\ \/ /\ key # Corrupt
        /\ Decode(key) = call[c].expected
        /\ Goto(c, "exec")
        /\ UNCHANGED watched
     \/ /\ key = Corrupt \/ Decode(key) # call[c].expected
        /\ Return(c, IF key = Corrupt THEN "raised" ELSE "cas_miss")
        /\ watched' = watched \ {c}
  /\ UNCHANGED <<key, saved, call>>

(* A variant with a bug: a plain SET in place of the transaction. *)
ExecUnconditional(c) ==
  /\ pc[c] = "exec"
  /\ Write(call[c].target)
  /\ Return(c, "ok")
  /\ UNCHANGED <<saved, call>>

(* MULTI, SET, EXEC.  The reply to an EXEC that was applied may be lost:    *)
(* the pipeline then raises WatchError, which the method reports as a       *)
(* concurrent modification, or the connection error itself.                 *)
Exec(c) ==
  /\ pc[c] = "exec"
  /\ \/ /\ c \in watched
        /\ Write(call[c].target)
        /\ \E r \in {"ok"} \cup Lost : Return(c, r)
     \/ /\ c \notin watched
        /\ Return(c, "watch_error")
        /\ UNCHANGED <<key, watched>>
  /\ UNCHANGED <<saved, call>>

(* The connection fails before the command reaches Redis: the exception     *)
(* leaves the method, unless the pipeline was watching and turns it into a  *)
(* WatchError.  The server forgets the WATCH.                               *)
LoseConnection(c) ==
  /\ pc[c] # "idle"
  /\ \E r \in IF pc[c] \in {"read", "exec"} THEN Lost ELSE {"raised"} : Return(c, r)
  /\ watched' = watched \ {c}
  /\ UNCHANGED <<key, saved, call>>

(* Redis itself (redis-server --save 60 1): a snapshot is taken now and     *)
(* then, and a restart goes back to the last one.  Connections are cut; the *)
(* pool reconnects for the next command, but a pipeline that was watching   *)
(* fails.                                                                   *)
SaveSnapshot ==
  /\ saved' = key
  /\ UNCHANGED <<key, watched, pc, call, result>>

RestartRedis ==
  /\ Write(saved)
  /\ LET cut == {c \in Clients : pc[c] \in {"read", "exec"}} IN
     /\ pc' = [c \in Clients |-> IF c \in cut THEN "idle" ELSE pc[c]]
     /\ result' = [c \in Clients |-> IF c \in cut THEN "watch_error" ELSE result[c]]
  /\ UNCHANGED <<saved, call>>

-----------------------------------------------------------------------------
Invoke(c) ==
  \/ CallGet(c)
  \/ \E expected, target \in States, tokenValid \in BOOLEAN :
       CallTransition(c, expected, target, tokenValid)
  \/ \E target \in States, secretLoaded \in BOOLEAN :
       CallForce(c, target, secretLoaded)

SteadyStep(c) ==
  GetKey(c) \/ Watch(c) \/ ReadWatched(c) \/ Exec(c) \/ LoseConnection(c)

Step(c) == SteadyStep(c) \/ InitKey(c)

(* The key exists, so nobody has to create it, and Redis stays up. *)
SteadyNext == \E c \in Clients : Invoke(c) \/ SteadyStep(c)

Next ==
  \/ SteadyNext
  \/ \E c \in Clients : InitKey(c)
  \/ SaveSnapshot
  \/ RestartRedis

Spec       == Init /\ [][Next]_vars
SteadySpec == Init /\ [][SteadyNext]_vars

-----------------------------------------------------------------------------
(* What a reader of the key is told. *)
View == Decode(key)

(* What the store promises: a register whose operations take effect at one   *)
(* instant between call and return.                                         *)
Atomic == INSTANCE AtomicTradingState
            WITH state <- View, request <- call, answer <- result

(* The optimistic lock is sound: while the WATCH of a transition is intact   *)
(* after its read, the key still is what the caller expects, so an EXEC that *)
(* succeeds never overwrites a halt or a pause set in between               *)
(* (transition(), WATCH before GET before EXEC).                            *)
WatchIsSound ==
  \A c \in watched :
    (pc[c] = "exec" /\ call[c].kind = "transition") =>
      (key # Corrupt /\ View = call[c].expected)

(* The write of client c takes effect in this step. *)
Executes(c) == pc[c] = "exec" /\ c \in watched /\ watched' = {} /\ pc'[c] = "idle"

(* Once the key exists, trading is resumed only by a transition() whose      *)
(* caller named the very state being left; no automated caller, no reader    *)
(* and no operator who saw an older state can do it, and nobody at all from  *)
(* an unrecognised value, which keeps the desk halted until a protective     *)
(* state is forced over it.                                                 *)
ResumeIsByOperator ==
  (View # "active" /\ View' = "active") =>
    /\ key # Corrupt
    /\ \E c \in Clients : /\ Executes(c)
                          /\ call[c].kind = "transition"
                          /\ call[c].expected = View

ResumesOnlyByOperator == [][ResumeIsByOperator]_vars

(* The store behaves as the atomic register (refinement). *)
StoreIsAtomic == Atomic!Spec
=============================================================================
