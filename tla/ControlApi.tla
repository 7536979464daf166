----------------------------- MODULE ControlApi -----------------------------
(***************************************************************************)
(* The operators' REST API over the trading-state store                    *)
(* (src/control/api.py).  A request handler is a client of the store that  *)
(* reads the state, asks for a change and answers; it competes with other  *)
(* handlers and with the automated callers of force_transition_internal    *)
(* (watchdog, shutdown, TCA, broker failover).                             *)
(***************************************************************************)
EXTENDS RuntimeState

CONSTANTS Handlers   \* the clients that serve requests; the others are automated

ASSUME HandlersAssumption == Handlers \subseteq Clients

VARIABLES
  command,  \* the endpoint a handler is serving, "none" between requests
  current,  \* the state a handler read first
  answer,   \* its last TransitionResponse, NoAnswer while it is serving
  replaced  \* history: the state its write replaced, "none" if it wrote nothing

apiVars == <<command, current, answer, replaced>>
allVars == <<vars, apiVars>>

Endpoints == {"state", "halt", "pause", "resume", "close_only"}
Target    == [halt |-> "halted", pause |-> "paused", resume |-> "active",
              close_only |-> "close_only"]
NoAnswer  == [success |-> FALSE, old_state |-> "none", new_state |-> "none"]

ApiTypeOK ==
  /\ TypeOK
  /\ command \in [Handlers -> Endpoints \cup {"none"}]
  /\ current \in [Handlers -> States]
  /\ answer \in [Handlers -> [success : BOOLEAN, old_state : States \cup {"none"},
                              new_state : States \cup {"none"}]]
  /\ replaced \in [Handlers -> States \cup {"none"}]

ApiInit ==
  /\ Init
  /\ command = [h \in Handlers |-> "none"]
  /\ current = [h \in Handlers |-> "active"]
  /\ answer = [h \in Handlers |-> NoAnswer]
  /\ replaced = [h \in Handlers |-> "none"]

-----------------------------------------------------------------------------
(* An authenticated request arrives; every handler reads the state first. *)
Receive(h, endpoint) ==
  /\ command[h] = "none"
  /\ CallGet(h)
  /\ command' = [command EXCEPT ![h] = endpoint]
  /\ answer' = [answer EXCEPT ![h] = NoAnswer]
  /\ replaced' = [replaced EXCEPT ![h] = "none"]
  /\ UNCHANGED current

(* A variant with a bug: the change is requested from the expected state of *)
(* the endpoint's documentation, without looking at what was read.          *)
RequestChangeBlindly(h) ==
  /\ command[h] \in DOMAIN Target
  /\ call[h].kind = "get" /\ result[h] \in States
  /\ current' = [current EXCEPT ![h] = result[h]]
  /\ IF command[h] = "halt"
       THEN CallForce(h, "halted", TRUE)
       ELSE CallTransition(h, "paused", Target[command[h]], TRUE)
  /\ UNCHANGED <<command, answer, replaced>>

(* The handler has its reading and asks for the change: /halt is forced,    *)
(* the others are transitions from the state just read, under a fresh token *)
(* of the endpoint's own.                                                   *)
RequestChange(h) ==
  /\ command[h] \in DOMAIN Target
  /\ call[h].kind = "get" /\ result[h] \in States
  /\ current' = [current EXCEPT ![h] = result[h]]
  /\ IF command[h] = "halt"
       THEN CallForce(h, "halted", TRUE)
       ELSE CallTransition(h, result[h], Target[command[h]], TRUE)
  /\ UNCHANGED <<command, answer, replaced>>

(* The response and the audit record carry the same three fields. *)
Answer(h) ==
  /\ command[h] \in DOMAIN Target
  /\ call[h].kind # "get" /\ pc[h] = "idle" /\ result[h] # "raised"
  /\ LET success == result[h] = "ok" IN
     answer' = [answer EXCEPT ![h] =
       [success   |-> success,
        old_state |-> current[h],
        new_state |-> IF success THEN Target[command[h]] ELSE current[h]]]
  /\ command' = [command EXCEPT ![h] = "none"]
  /\ UNCHANGED <<vars, current, replaced>>

(* GET /state answers with its reading. *)
AnswerState(h) ==
  /\ command[h] = "state"
  /\ result[h] \in States
  /\ command' = [command EXCEPT ![h] = "none"]
  /\ UNCHANGED <<vars, current, answer, replaced>>

(* An exception of the store ends the request with no response and no record. *)
AnswerError(h) ==
  /\ command[h] # "none"
  /\ result[h] = "raised"
  /\ command' = [command EXCEPT ![h] = "none"]
  /\ UNCHANGED <<vars, current, answer, replaced>>

(* A client's pending call takes a step; the history notes what it replaced. *)
StoreStep(c) ==
  /\ Step(c)
  /\ replaced' = [h \in Handlers |-> IF h = c /\ Executes(h) THEN View ELSE replaced[h]]
  /\ UNCHANGED <<command, current, answer>>

AutomatedCall(c, target) ==
  /\ CallForce(c, target, TRUE)
  /\ UNCHANGED apiVars

ApiNext ==
  \/ \E h \in Handlers :
       \/ \E endpoint \in Endpoints : Receive(h, endpoint)
       \/ RequestChange(h) \/ Answer(h) \/ AnswerState(h) \/ AnswerError(h)
  \/ \E c \in Clients : StoreStep(c)
  \/ \E c \in Clients \ Handlers, target \in Protective : AutomatedCall(c, target)
  \/ (SaveSnapshot \/ RestartRedis) /\ UNCHANGED apiVars

ApiSpec == ApiInit /\ [][ApiNext]_allVars

-----------------------------------------------------------------------------
(* A success told to the operator, and to the audit trail, is a write that   *)
(* really happened while the request was served; and what pause, resume and  *)
(* close_only report as the old state is the very state it replaced,         *)
(* whatever other operators, the watchdog and a restarted Redis did in the   *)
(* meantime: the operator undid nothing unseen.                             *)
SuccessIsReal ==
  /\ ApiTypeOK
  /\ \A h \in Handlers : answer[h].success =>
       /\ replaced[h] # "none"
       /\ answer[h].new_state # "halted" => replaced[h] = answer[h].old_state
=============================================================================
