---------------------------- MODULE EventStream ----------------------------
(***************************************************************************)
(* The event bus on Redis Streams (RedisStreamEventBus,                     *)
(* src/src/events/bus.py): one topic, a consumer group read by several      *)
(* worker tasks of one process, retries, acknowledgements and the           *)
(* dead-letter stream.  Every call of Redis or of a handler is a step.      *)
(* Messages are numbered in the order of the stream; their payloads, and    *)
(* the trimming of the stream at 10000 entries, are left out.               *)
(***************************************************************************)
EXTENDS Naturals, Sequences, FiniteSets

CONSTANTS
  Workers,
  NumHandlers,  \* the handlers of the topic are called in the order 1, 2, ...
  MaxRetries,   \* attempts of each handler (3 in the code)
  BatchSize,    \* messages per XREADGROUP (10 in the code)
  MaxMessages,  \* bound: messages published
  Malformed,    \* the messages that cannot be decoded
  MaxFaults     \* bound: lost replies, failed commands, stops and crashes

ASSUME NumbersAssumption ==
  /\ NumHandlers \in Nat \ {0} /\ MaxRetries \in Nat \ {0} /\ BatchSize \in Nat \ {0}
  /\ MaxMessages \in Nat /\ MaxFaults \in Nat
ASSUME MalformedAssumption == Malformed \subseteq 1..MaxMessages

VARIABLES
  published,  \* messages in the stream: 1..published
  delivered,  \* the group's last delivered message
  pending,    \* delivered and not acknowledged (the PEL)
  at,         \* what each worker awaits
  batch,      \* the messages a worker read, the first one in its hands
  handler,    \* the handler it is at
  failed,     \* whether a handler gave up on the message in its hands
  attempts,   \* calls of each handler for each message
  done,       \* <<message, handler>> where the handler returned
  dead,       \* <<message, handler>> in the dead-letter stream
  stopping,   \* stop() was called
  dropped,    \* history: messages whose worker ended, or never got the reply
  unwritten,  \* history: <<message, handler>> the dead-letter stream refused
  faults

vars == <<published, delivered, pending, at, batch, handler, failed, attempts, done, dead,
          stopping, dropped, unwritten, faults>>

Messages == 1..MaxMessages
Handlers == 1..NumHandlers
Elements(s) == {s[i] : i \in 1..Len(s)}

TypeOK ==
  /\ published \in 0..MaxMessages /\ delivered \in 0..published
  /\ pending \subseteq 1..delivered
  /\ at \in [Workers -> {"read", "handle", "bury", "ack", "ended"}]
  /\ batch \in [Workers -> Seq(1..delivered)]
  /\ \A w \in Workers : at[w] \in {"handle", "bury", "ack"} => batch[w] # <<>>
  /\ handler \in [Workers -> Handlers]
  /\ failed \in [Workers -> BOOLEAN]
  /\ attempts \in [Messages -> [Handlers -> 0..MaxRetries]]
  /\ done \subseteq Messages \X Handlers
  /\ dead \subseteq Messages \X Handlers
  /\ stopping \in BOOLEAN
  /\ dropped \subseteq Messages
  /\ unwritten \subseteq Messages \X Handlers
  /\ faults \in 0..MaxFaults

Init ==
  /\ published = 0 /\ delivered = 0 /\ pending = {}
  /\ at = [w \in Workers |-> "read"]
  /\ batch = [w \in Workers |-> <<>>]
  /\ handler = [w \in Workers |-> 1]
  /\ failed = [w \in Workers |-> FALSE]
  /\ attempts = [m \in Messages |-> [h \in Handlers |-> 0]]
  /\ done = {} /\ dead = {}
  /\ stopping = FALSE
  /\ dropped = {} /\ unwritten = {}
  /\ faults = 0

Fault == faults < MaxFaults /\ faults' = faults + 1

-----------------------------------------------------------------------------
Publish ==
  /\ published < MaxMessages
  /\ published' = published + 1
  /\ UNCHANGED <<delivered, pending, at, batch, handler, failed, attempts, done, dead,
                 stopping, dropped, unwritten, faults>>

(* A variant with a bug: the newest message is left to the next read. *)
NewMessagesButOne ==
  LET last == IF delivered + BatchSize < published THEN delivered + BatchSize ELSE published - 1
  IN  [i \in 1..(last - delivered) |-> delivered + i]

(* The next messages XREADGROUP hands out: only ones no consumer was given. *)
NewMessages ==
  LET last == IF delivered + BatchSize < published THEN delivered + BatchSize ELSE published
  IN  [i \in 1..(last - delivered) |-> delivered + i]

(* _process_message() of the next message: one that cannot be decoded is     *)
(* acknowledged at once, the others go to the first handler.                *)
Take(w, messages) ==
  /\ batch' = [batch EXCEPT ![w] = messages]
  /\ handler' = [handler EXCEPT ![w] = 1]
  /\ failed' = [failed EXCEPT ![w] = FALSE]
  /\ at' = [at EXCEPT ![w] = IF messages = <<>> THEN "read"
                             ELSE IF Head(messages) \in Malformed THEN "ack" ELSE "handle"]

Read(w) ==
  /\ at[w] = "read" /\ ~stopping /\ delivered < published
  /\ delivered' = delivered + Len(NewMessages)
  /\ pending' = pending \cup Elements(NewMessages)
  /\ Take(w, NewMessages)
  /\ UNCHANGED <<published, attempts, done, dead, stopping, dropped, unwritten, faults>>

(* XREADGROUP returns nothing when its time is up, and is sent again. *)
ReadNothing(w) ==
  /\ at[w] = "read" /\ ~stopping /\ delivered = published
  /\ UNCHANGED vars

(* XREADGROUP raises, the messages delivered or not; the loop goes on, and   *)
(* asks only for messages that are new to the group.                        *)
ReadFails(w) ==
  /\ at[w] = "read" /\ ~stopping /\ delivered < published /\ Fault
  /\ delivered' = delivered + Len(NewMessages)
  /\ pending' = pending \cup Elements(NewMessages)
  /\ dropped' = dropped \cup Elements(NewMessages)
  /\ UNCHANGED <<published, at, batch, handler, failed, attempts, done, dead, stopping,
                 unwritten>>

(* What follows when handler h is through with the message: the next one, or *)
(* the acknowledgement, which a message a handler gave up on does not get.  *)
Proceed(w, gave_up) ==
  IF handler[w] < NumHandlers
  THEN /\ handler' = [handler EXCEPT ![w] = @ + 1]
       /\ failed' = [failed EXCEPT ![w] = gave_up]
       /\ at' = [at EXCEPT ![w] = "handle"]
       /\ UNCHANGED batch
  ELSE IF gave_up THEN Take(w, Tail(batch[w]))
  ELSE at' = [at EXCEPT ![w] = "ack"] /\ UNCHANGED <<batch, handler, failed>>

InHand(w) == <<Head(batch[w]), handler[w]>>
Attempt(w) ==
  attempts' = [attempts EXCEPT ![Head(batch[w])][handler[w]] = @ + 1]

(* A variant with a bug: the handler is called again although it returned. *)
HandledAgain(w) ==
  /\ at[w] = "handle"
  /\ Attempt(w)
  /\ done' = done \cup {InHand(w)}
  /\ IF attempts'[Head(batch[w])][handler[w]] < MaxRetries
     THEN UNCHANGED <<at, batch, handler, failed>>
     ELSE Proceed(w, failed[w])
  /\ UNCHANGED <<published, delivered, pending, dead, stopping, dropped, unwritten, faults>>

(* The handler returns. *)
Handled(w) ==
  /\ at[w] = "handle"
  /\ Attempt(w)
  /\ done' = done \cup {InHand(w)}
  /\ Proceed(w, failed[w])
  /\ UNCHANGED <<published, delivered, pending, dead, stopping, dropped, unwritten, faults>>

(* A variant with a bug: the loop ends one attempt early. *)
HandlerRaisesEarly(w) ==
  /\ at[w] = "handle"
  /\ Attempt(w)
  /\ at' = [at EXCEPT ![w] = IF attempts'[Head(batch[w])][handler[w]] + 1 < MaxRetries
                             THEN "handle" ELSE "bury"]
  /\ UNCHANGED <<published, delivered, pending, batch, handler, failed, done, dead,
                 stopping, dropped, unwritten, faults>>

(* The handler raises: it is called again, until the last attempt. *)
HandlerRaises(w) ==
  /\ at[w] = "handle"
  /\ Attempt(w)
  /\ at' = [at EXCEPT ![w] = IF attempts'[Head(batch[w])][handler[w]] < MaxRetries
                             THEN "handle" ELSE "bury"]
  /\ UNCHANGED <<published, delivered, pending, batch, handler, failed, done, dead,
                 stopping, dropped, unwritten, faults>>

(* _send_to_dlq(): an error there is logged, and the next handler follows. *)
Bury(w) ==
  /\ at[w] = "bury"
  /\ \/ dead' = dead \cup {InHand(w)} /\ UNCHANGED <<unwritten, faults>>
     \/ Fault /\ dead' \in {dead, dead \cup {InHand(w)}}
        /\ unwritten' = unwritten \cup {InHand(w)}
  /\ Proceed(w, TRUE)
  /\ UNCHANGED <<published, delivered, pending, attempts, done, stopping, dropped>>

(* _ack(): an error is logged; the message then stays among the pending. *)
Ack(w) ==
  /\ at[w] = "ack"
  /\ \/ pending' = pending \ {Head(batch[w])} /\ UNCHANGED faults
     \/ Fault /\ pending' \in {pending, pending \ {Head(batch[w])}}
  /\ Take(w, Tail(batch[w]))
  /\ UNCHANGED <<published, delivered, attempts, done, dead, stopping, dropped, unwritten>>

-----------------------------------------------------------------------------
(* stop(): a worker that is reading sees it; one that is at work for more     *)
(* than five seconds is cancelled where it stands.                          *)
Stop ==
  /\ ~stopping /\ Fault
  /\ stopping' = TRUE
  /\ UNCHANGED <<published, delivered, pending, at, batch, handler, failed, attempts, done,
                 dead, dropped, unwritten>>

End(w) ==
  /\ at' = [at EXCEPT ![w] = "ended"]
  /\ batch' = [batch EXCEPT ![w] = <<>>]
  /\ dropped' = dropped \cup Elements(batch[w])
  /\ UNCHANGED <<published, delivered, pending, handler, failed, attempts, done, dead,
                 stopping, unwritten, faults>>

ExitLoop(w) == stopping /\ at[w] = "read" /\ End(w)
Cancel(w)   == stopping /\ at[w] \in {"handle", "bury", "ack"} /\ End(w)

(* A new process: the workers are named after its pid, so what the old ones  *)
(* left pending is nobody's.  It starts after a stop, or after a crash.      *)
Restart ==
  /\ \/ stopping /\ (\A w \in Workers : at[w] = "ended") /\ UNCHANGED faults
     \/ Fault
  /\ at' = [w \in Workers |-> "read"]
  /\ batch' = [w \in Workers |-> <<>>]
  /\ handler' = [w \in Workers |-> 1]
  /\ failed' = [w \in Workers |-> FALSE]
  /\ stopping' = FALSE
  /\ dropped' = dropped \cup UNION {Elements(batch[w]) : w \in Workers}
  /\ UNCHANGED <<published, delivered, pending, attempts, done, dead, unwritten>>

Step(w) ==
  \/ Read(w) \/ Handled(w) \/ HandlerRaises(w) \/ Bury(w) \/ Ack(w)
  \/ ExitLoop(w) \/ Cancel(w)

Next ==
  \/ Publish \/ Stop \/ Restart
  \/ \E w \in Workers :
       \/ Read(w) \/ ReadNothing(w) \/ ReadFails(w) \/ Handled(w) \/ HandlerRaises(w)
       \/ Bury(w) \/ Ack(w) \/ ExitLoop(w) \/ Cancel(w)

Spec == Init /\ [][Next]_vars

(* Workers go on, every call ends, and the process manager starts the        *)
(* process again after it ended (restart: unless-stopped).                  *)
FairSpec == Spec /\ (\A w \in Workers : WF_vars(Step(w))) /\ WF_vars(Restart)

-----------------------------------------------------------------------------
Held    == UNION {Elements(batch[w]) : w \in Workers}
Settled == (1..delivered) \ (Held \cup dropped)
GaveUp(m, h) == attempts[m][h] = MaxRetries /\ <<m, h>> \notin done

(* Nothing is half done.  A message leaves the pending list only when every   *)
(* handler returned, so that one that is gone needs no recovery; and of a    *)
(* message no worker holds and none dropped, each handler has returned or    *)
(* used up its attempts, whatever became of the others: then the message is  *)
(* still pending, and on the dead-letter stream unless writing it failed.    *)
AcknowledgedIsHandled(m) == m \notin pending => {m} \X Handlers \subseteq done

SettledIsComplete(m) ==
  \A h \in Handlers :
    \/ <<m, h>> \in done
    \/ GaveUp(m, h) /\ <<m, h>> \in dead \cup unwritten /\ m \in pending

NothingHalfDone ==
  \A m \in (1..delivered) \ Malformed :
    AcknowledgedIsHandled(m) /\ (m \in Settled => SettledIsComplete(m))

(* A handler that returned is not called again for that message, not by a     *)
(* retry, another worker, the next handler's failure or a new process.       *)
HandledOnce ==
  [][\A m \in Messages, h \in Handlers :
       <<m, h>> \in done => attempts'[m][h] = attempts[m][h]]_vars

(* Every published message is read and settled or dropped, after errors of   *)
(* Redis, stops and crashes.                                                *)
EveryMessageSettles ==
  \A m \in Messages : m <= published ~> m \in Settled \cup dropped
=============================================================================
