------------------------- MODULE AtomicTradingState -------------------------
(***************************************************************************)
(* What the trading-state store promises its callers: one register that    *)
(* reads, conditional changes and forced changes touch atomically.  A call *)
(* is asked, takes effect at one instant, and its answer tells the truth;  *)
(* an answer in Lost says nothing about whether the call took effect.      *)
(***************************************************************************)
CONSTANT Clients

VARIABLES state, request, answer

States     == {"active", "paused", "close_only", "halted"}
Protective == States \ {"active"}
Lost       == {"raised", "watch_error"}

(* From CLOSE_ONLY and HALTED the only protective move left is to HALTED. *)
MayGo(from, to) ==
  /\ from # to
  /\ from = "halted"     => to = "active"
  /\ from = "close_only" => to \in {"active", "halted"}

Requests == [kind : {"get", "transition", "force"}, expected : States, target : States]

Init ==
  /\ state \in States
  /\ request \in [Clients -> Requests]
  /\ answer = [c \in Clients |-> "none"]

Pending(c) == answer[c] = "pending"

Answer(c, r) == answer' = [answer EXCEPT ![c] = r] /\ UNCHANGED request

Ask(c) ==
  /\ ~Pending(c)
  /\ \E r \in Requests : request' = [request EXCEPT ![c] = r]
  /\ \E a \in {"pending", "refused"} : answer' = [answer EXCEPT ![c] = a]
  /\ UNCHANGED state

Read(c) ==
  /\ Pending(c)
  /\ request[c].kind = "get"
  /\ Answer(c, state)
  /\ UNCHANGED state

(* A change that finds the register as its caller expects it. *)
Change(c) ==
  /\ Pending(c)
  /\ request[c].kind = "transition"
  /\ state = request[c].expected
  /\ MayGo(state, request[c].target)
  /\ state' = request[c].target
  /\ \E a \in {"ok"} \cup Lost : Answer(c, a)

(* A miss is reported only when the register differs from the expectation. *)
Miss(c) ==
  /\ Pending(c)
  /\ request[c].kind = "transition"
  /\ state # request[c].expected
  /\ Answer(c, "cas_miss")
  /\ UNCHANGED state

Force(c) ==
  /\ Pending(c)
  /\ request[c].kind = "force"
  /\ request[c].target \in Protective
  /\ state' = request[c].target
  /\ \E a \in {"ok"} \cup Lost : Answer(c, a)

(* The call fails without touching the register. *)
Fail(c) ==
  /\ Pending(c)
  /\ \E a \in Lost : Answer(c, a)
  /\ UNCHANGED state

Next == \E c \in Clients : Ask(c) \/ Read(c) \/ Change(c) \/ Miss(c) \/ Force(c) \/ Fail(c)

Spec == Init /\ [][Next]_<<state, request, answer>>
=============================================================================
