--------------------------- MODULE InOrderDelivery ---------------------------
(***************************************************************************)
(* What numbered transitions promise: an order walks along its script, one  *)
(* legal event after the other and none twice or left out, some of them at  *)
(* once; it is forgotten only when it is finished.                         *)
(***************************************************************************)
EXTENDS Integers

CONSTANTS Orders, MaxSeq

VARIABLES state, last_seq, script

OrderState == {"NEW", "SENT", "ACK", "PARTIAL", "FILLED", "CANCELED", "REJECTED", "EXPIRED"}
Terminal   == {"FILLED", "CANCELED", "REJECTED", "EXPIRED"}

Follows ==
  {<<"NEW", "SENT">>, <<"NEW", "CANCELED">>,
   <<"SENT", "ACK">>, <<"SENT", "REJECTED">>, <<"SENT", "CANCELED">>}
    \cup {"ACK", "PARTIAL"} \X {"FILLED", "CANCELED", "EXPIRED"}
    \cup {<<"ACK", "PARTIAL">>}

Init ==
  /\ state = [o \in Orders |-> "absent"]
  /\ last_seq = [o \in Orders |-> -1]
  /\ script \in [Orders -> [0..MaxSeq -> OrderState]]

Begin(o) ==
  /\ state[o] = "absent"
  /\ state' = [state EXCEPT ![o] = "NEW"]
  /\ \E seq \in -1..MaxSeq : last_seq' = [last_seq EXCEPT ![o] = seq]
  /\ UNCHANGED script

Walk(o) ==
  \E last \in (last_seq[o] + 1)..MaxSeq :
    LET from == last_seq[o] + 1 IN
    /\ state[o] # "absent" /\ <<state[o], script[o][from]>> \in Follows
    /\ \A i \in (from + 1)..last : <<script[o][i - 1], script[o][i]>> \in Follows
    /\ state' = [state EXCEPT ![o] = script[o][last]]
    /\ last_seq' = [last_seq EXCEPT ![o] = last]
    /\ UNCHANGED script

Forget ==
  LET done == {o \in Orders : state[o] \in Terminal} IN
  /\ state' = [o \in Orders |-> IF o \in done THEN "absent" ELSE state[o]]
  /\ last_seq' = [o \in Orders |-> IF o \in done THEN -1 ELSE last_seq[o]]
  /\ UNCHANGED script

Next == (\E o \in Orders : Begin(o) \/ Walk(o)) \/ Forget

Spec == Init /\ [][Next]_<<state, last_seq, script>>
=============================================================================
