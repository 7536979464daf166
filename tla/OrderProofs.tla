---------------------------- MODULE OrderProofs ----------------------------
(***************************************************************************)
(* Proofs about orders: the numbered transitions of the state machine, for *)
(* any orders, scripts and bound on sequence numbers, and the way of an    *)
(* order through the process, for any orders and any number of faults.     *)
(***************************************************************************)
EXTENDS OrderFeed, OrderFlow, TLAPS

(* The state machine's table and the abstract relation agree. *)
LEMMA SameLegality ==
  ASSUME NEW s \in OrderState, NEW t \in OrderState
  PROVE  t \in LegalTransitions[s] <=> <<s, t>> \in InOrder!Follows
BY DEF OrderState, LegalTransitions, InOrder!Follows

LEMMA LegalTargets ==
  ASSUME NEW s \in OrderState, NEW t \in LegalTransitions[s]
  PROVE  t \in OrderState
BY DEF OrderState, LegalTransitions

-----------------------------------------------------------------------------
(***************************************************************************)
(* Types.                                                                  *)
(***************************************************************************)
LEMMA FlushTypeOK ==
  ASSUME TypeOK, NEW o \in Orders, NEW target \in OrderState, NEW seq \in Seqs,
         FlushPending(o, target, seq)
  PROVE  TypeOK'
<1>1. PICK last \in seq..MaxSeq :
        /\ Replayable(pending[o], target, seq, last)
        /\ state' = [state EXCEPT ![o] = IF last = seq THEN target ELSE pending[o][last]]
        /\ last_seq' = [last_seq EXCEPT ![o] = last]
        /\ pending' = [pending EXCEPT ![o] =
             [i \in Seqs |-> IF i \in (seq + 1)..(last + 1) THEN "none" ELSE pending[o][i]]]
  BY DEF FlushPending
<1>2. last \in Seqs /\ seq \in Int /\ last \in Int
  BY MaxSeqAssumption DEF Seqs
<1>3. last # seq => pending[o][last] \in OrderState
  <2> SUFFICES ASSUME last # seq PROVE pending[o][last] \in OrderState
    OBVIOUS
  <2>1. last \in (seq + 1)..last
    BY <1>2
  <2>2. pending[o][last] # "none"
    BY <1>1, <2>1 DEF Replayable
  <2> QED
    BY <1>2, <2>2 DEF TypeOK
<1>4. state' \in [Orders -> OrderState \cup {"absent"}]
  BY <1>1, <1>3 DEF TypeOK
<1>5. last_seq' \in [Orders -> Seqs \cup {-1}]
  BY <1>1, <1>2 DEF TypeOK
<1>6. [i \in Seqs |-> IF i \in (seq + 1)..(last + 1) THEN "none" ELSE pending[o][i]]
        \in [Seqs -> OrderState \cup {"none"}]
  BY DEF TypeOK
<1>7. pending' \in [Orders -> [Seqs -> OrderState \cup {"none"}]]
  BY <1>1, <1>6 DEF TypeOK
<1>8. QED
  BY <1>4, <1>5, <1>7 DEF TypeOK

LEMMA OrderedTypeOK ==
  ASSUME TypeOK, NEW o \in Orders, NEW target \in OrderState, NEW seq \in Seqs,
         TransitionOrdered(o, target, seq)
  PROVE  TypeOK'
<1>1. CASE IgnoreEvent(o, target, seq)
  BY <1>1 DEF IgnoreEvent, TypeOK, vars
<1>2. CASE BufferEvent(o, target, seq)
  BY <1>2 DEF BufferEvent, TypeOK
<1>3. CASE ApplyEvent(o, target, seq)
  BY <1>3, FlushTypeOK DEF ApplyEvent
<1>4. QED
  BY <1>1, <1>2, <1>3 DEF TransitionOrdered

LEMMA NextTypeOK == TypeOK /\ [Next]_vars => TypeOK'
<1> SUFFICES ASSUME TypeOK, [Next]_vars PROVE TypeOK'
  OBVIOUS
<1>1. ASSUME NEW o \in Orders, NEW seq \in Seqs \cup {-1}, Register(o, seq) PROVE TypeOK'
  BY <1>1 DEF Register, TypeOK, OrderState
<1>2. ASSUME NEW o \in Orders, NEW target \in OrderState, Transition(o, target)
      PROVE  TypeOK'
  BY <1>2 DEF Transition, TypeOK
<1>3. CASE ClearTerminal
  BY <1>3 DEF ClearTerminal, TypeOK, NoEvents
<1>4. CASE UNCHANGED vars
  BY <1>4 DEF TypeOK, vars
<1>5. QED
  BY <1>1, <1>2, <1>3, <1>4, OrderedTypeOK DEF Next

(* The types of the state machine, whoever calls it and how. *)
THEOREM TypeCorrect == Spec => []TypeOK
<1>1. Init => TypeOK
  BY DEF Init, TypeOK, NoEvents
<1>2. QED
  BY <1>1, NextTypeOK, PTL DEF Spec

-----------------------------------------------------------------------------
(***************************************************************************)
(* What an order is ready for does not wait in its buffer, unless the      *)
(* order was registered again over its record.                             *)
(***************************************************************************)
NothingReadyWaits == (\A o \in Orders : ~EventWaits(o)) /\ NoBufferOfTheGone

(* The buffer of an order is what it was. *)
SameBuffer(o) == last_seq'[o] = last_seq[o] /\ pending'[o] = pending[o]

LEMMA FlushDrains ==
  ASSUME TypeOK, NEW o \in Orders, NEW target \in OrderState, NEW seq \in Seqs,
         FlushPending(o, target, seq)
  PROVE  /\ ~EventWaits(o)' /\ state'[o] # "absent"
         /\ \A p \in Orders \ {o} : state'[p] = state[p] /\ SameBuffer(p)
<1>1. PICK last \in seq..MaxSeq :
        /\ Replayable(pending[o], target, seq, last)
        /\ state' = [state EXCEPT ![o] = IF last = seq THEN target ELSE pending[o][last]]
        /\ last_seq' = [last_seq EXCEPT ![o] = last]
        /\ pending' = [pending EXCEPT ![o] =
             [i \in Seqs |-> IF i \in (seq + 1)..(last + 1) THEN "none" ELSE pending[o][i]]]
  BY DEF FlushPending
<1>2. last \in Seqs /\ seq \in Int /\ last \in Int
  BY MaxSeqAssumption DEF Seqs
<1>3. state'[o] \in OrderState
  BY <1>1, <1>2 DEF Replayable, TypeOK
<1>4. last < MaxSeq => pending'[o][last + 1] = "none"
  BY <1>1, <1>2, MaxSeqAssumption DEF TypeOK, Seqs
<1>5. last_seq'[o] = last
  BY <1>1 DEF TypeOK
<1>6. \A p \in Orders \ {o} : state'[p] = state[p] /\ SameBuffer(p)
  BY <1>1 DEF TypeOK, SameBuffer
<1>7. "absent" \notin OrderState
  BY DEF OrderState
<1>8. QED
  BY <1>3, <1>4, <1>5, <1>6, <1>7 DEF EventWaits

LEMMA OrderedDrains ==
  ASSUME TypeOK, NEW o \in Orders, NEW target \in OrderState, NEW seq \in Seqs,
         TransitionOrdered(o, target, seq)
  PROVE  /\ EventWaits(o)' => EventWaits(o)
         /\ state'[o] = "absent" => state[o] = "absent" /\ SameBuffer(o)
         /\ \A p \in Orders \ {o} : state'[p] = state[p] /\ SameBuffer(p)
<1>1. CASE IgnoreEvent(o, target, seq)
  BY <1>1 DEF IgnoreEvent, EventWaits, SameBuffer, vars
<1>2. CASE BufferEvent(o, target, seq)
  <2>1. last_seq' = last_seq /\ state' = state /\ state[o] # "absent"
    BY <1>2 DEF BufferEvent
  <2>2. \A p \in Orders \ {o} : pending'[p] = pending[p]
    BY <1>2 DEF BufferEvent, TypeOK
  <2>3. pending'[o][last_seq[o] + 1] = pending[o][last_seq[o] + 1]
    BY <1>2 DEF BufferEvent, TypeOK
  <2>4. QED
    BY <2>1, <2>2, <2>3 DEF EventWaits, SameBuffer
<1>3. CASE ApplyEvent(o, target, seq)
  BY <1>3, FlushDrains DEF ApplyEvent
<1>4. QED
  BY <1>1, <1>2, <1>3 DEF TransitionOrdered

LEMMA OrderedLeavesNothingReady ==
  ASSUME TypeOK, NothingReadyWaits,
         NEW o \in Orders, NEW target \in OrderState, NEW seq \in Seqs,
         TransitionOrdered(o, target, seq)
  PROVE  NothingReadyWaits'
<1>1. ASSUME NEW p \in Orders
      PROVE  ~EventWaits(p)' /\ (state'[p] = "absent" => pending'[p] = NoEvents)
  BY OrderedDrains DEF NothingReadyWaits, NoBufferOfTheGone, EventWaits, SameBuffer
<1>2. QED
  BY <1>1 DEF NothingReadyWaits, NoBufferOfTheGone

LEMMA RegisteringDrains ==
  ASSUME TypeOK, NoBufferOfTheGone, NEW o \in Orders, NEW seq \in Seqs \cup {-1},
         Register(o, seq)
  PROVE  /\ state'[o] = "NEW" /\ (state[o] = "absent" => ~EventWaits(o)')
         /\ \A p \in Orders \ {o} : state'[p] = state[p] /\ SameBuffer(p)
<1>1. /\ state'[o] = "NEW" /\ last_seq'[o] = seq /\ pending' = pending
      /\ \A p \in Orders \ {o} : state'[p] = state[p] /\ SameBuffer(p)
  BY DEF Register, TypeOK, SameBuffer
<1>2. seq < MaxSeq => NoEvents[seq + 1] = "none"
  BY MaxSeqAssumption DEF NoEvents, Seqs
<1>3. QED
  BY <1>1, <1>2 DEF NoBufferOfTheGone, EventWaits

LEMMA ClearingDrains ==
  ASSUME TypeOK, ClearTerminal, NEW o \in Orders
  PROVE  \/ state'[o] = "absent" /\ pending'[o] = NoEvents /\ ~EventWaits(o)'
         \/ state'[o] = state[o] /\ SameBuffer(o)
<1>1. MaxSeq > -1 /\ NoEvents[0] = "none"
  BY MaxSeqAssumption DEF NoEvents, Seqs
<1>2. QED
  BY <1>1 DEF ClearTerminal, EventWaits, SameBuffer

LEMMA NextNoBufferOfTheGone ==
  TypeOK /\ NoBufferOfTheGone /\ [Next]_vars => NoBufferOfTheGone'
<1> SUFFICES ASSUME TypeOK, NoBufferOfTheGone, [Next]_vars, NEW p \in Orders,
                    state'[p] = "absent"
             PROVE  pending'[p] = NoEvents
  BY DEF NoBufferOfTheGone
<1>1. ASSUME NEW o \in Orders, NEW seq \in Seqs \cup {-1}, Register(o, seq)
      PROVE  pending'[p] = NoEvents
  BY <1>1, RegisteringDrains DEF NoBufferOfTheGone, SameBuffer
<1>2. ASSUME NEW o \in Orders, NEW target \in OrderState, Transition(o, target)
      PROVE  pending'[p] = NoEvents
  BY <1>2 DEF Transition, TypeOK, NoBufferOfTheGone, OrderState
<1>3. ASSUME NEW o \in Orders, NEW target \in OrderState, NEW seq \in Seqs,
             TransitionOrdered(o, target, seq)
      PROVE  pending'[p] = NoEvents
  BY <1>3, OrderedDrains DEF NoBufferOfTheGone, SameBuffer
<1>4. CASE ClearTerminal
  BY <1>4, ClearingDrains DEF NoBufferOfTheGone, SameBuffer
<1>5. CASE UNCHANGED vars
  BY <1>5 DEF NoBufferOfTheGone, vars
<1>6. QED
  BY <1>1, <1>2, <1>3, <1>4, <1>5 DEF Next

(***************************************************************************)
(* Whoever calls the state machine and how, an event that has its turn is   *)
(* left waiting only by registering an order again over its record, and no  *)
(* buffer outlives its order.                                              *)
(***************************************************************************)
THEOREM NoReadyEventWaits == Spec => OnlyRegisteringStrandsEvents /\ []NoBufferOfTheGone
<1>1. Init => NoBufferOfTheGone
  BY DEF Init, NoBufferOfTheGone
<1>2. TypeOK /\ NoBufferOfTheGone /\ [Next]_vars =>
        [\A o \in Orders :
           EventWaits(o)' /\ ~EventWaits(o) => state[o] # "absent" /\ state'[o] = "NEW"]_vars
  <2> SUFFICES ASSUME TypeOK, NoBufferOfTheGone, [Next]_vars, NEW p \in Orders,
                      EventWaits(p)', ~EventWaits(p)
               PROVE  state[p] # "absent" /\ state'[p] = "NEW"
    OBVIOUS
  <2>1. ~SameBuffer(p)
    BY DEF EventWaits, SameBuffer
  <2>2. ASSUME NEW o \in Orders, NEW seq \in Seqs \cup {-1}, Register(o, seq)
        PROVE  state[p] # "absent" /\ state'[p] = "NEW"
    BY <2>1, <2>2, RegisteringDrains
  <2>3. ~ \E o \in Orders, target \in OrderState : Transition(o, target)
    BY <2>1 DEF Transition, SameBuffer
  <2>4. ~ \E o \in Orders, target \in OrderState, seq \in Seqs :
            TransitionOrdered(o, target, seq)
    BY <2>1, OrderedDrains
  <2>5. ~ClearTerminal
    BY <2>1, ClearingDrains
  <2>6. ~UNCHANGED vars
    BY <2>1 DEF SameBuffer, vars
  <2>7. QED
    BY <2>2, <2>3, <2>4, <2>5, <2>6 DEF Next
<1>3. QED
  BY TypeCorrect, <1>1, <1>2, NextNoBufferOfTheGone, PTL
     DEF Spec, OnlyRegisteringStrandsEvents

-----------------------------------------------------------------------------
(***************************************************************************)
(* Numbered transitions only.  An order is where its script says, and what  *)
(* has arrived was applied, waits in the buffer, or follows something       *)
(* illegal.                                                                *)
(***************************************************************************)
OnScript ==
  \A o \in Orders : state[o] # "absent" =>
    /\ first[o] <= last_seq[o]
    /\ state[o] = IF last_seq[o] = first[o] THEN "NEW" ELSE script[o][last_seq[o]]
    /\ LegalUpTo(o, last_seq[o])

BufferIsScript ==
  \A o \in Orders, seq \in Seqs : pending[o][seq] \in {"none", script[o][seq]}

NothingIsLost ==
  \A o \in Orders : state[o] # "absent" =>
    \A seq \in delivered[o] :
      seq <= last_seq[o] \/ pending[o][seq] # "none" \/ ~LegalUpTo(o, seq)

FeedInv == FeedTypeOK /\ NothingReadyWaits /\ OnScript /\ BufferIsScript /\ NothingIsLost

LEMMA InitFeedInv == FeedInit => FeedInv
<1> SUFFICES ASSUME FeedInit PROVE FeedInv
  OBVIOUS
<1>1. FeedTypeOK
  BY DEF FeedInit, Init, FeedTypeOK, TypeOK, NoEvents
<1>2. \A o \in Orders : state[o] = "absent" /\ last_seq[o] = -1 /\ pending[o] = NoEvents
  BY DEF FeedInit, Init
<1>3. \A seq \in Seqs : NoEvents[seq] = "none"
  BY DEF NoEvents
<1>4. 0 \in Seqs
  BY MaxSeqAssumption DEF Seqs
<1>5. NothingReadyWaits
  BY <1>2, <1>3, <1>4 DEF NothingReadyWaits, EventWaits, NoBufferOfTheGone
<1>6. OnScript /\ BufferIsScript /\ NothingIsLost
  BY <1>2, <1>3 DEF OnScript, BufferIsScript, NothingIsLost
<1>7. QED
  BY <1>1, <1>5, <1>6 DEF FeedInv

(* What a flush does to the order it is called for, in terms of its script. *)
LEMMA FlushWalks ==
  ASSUME FeedInv, NEW o \in Orders, NEW seq \in Seqs, Deliver(o, seq),
         ApplyEvent(o, script[o][seq], seq)
  PROVE  \E last \in seq..MaxSeq :
           /\ state' = [state EXCEPT ![o] = script[o][last]]
           /\ last_seq' = [last_seq EXCEPT ![o] = last]
           /\ pending' = [pending EXCEPT ![o] =
                [i \in Seqs |-> IF i \in (seq + 1)..(last + 1) THEN "none"
                                ELSE pending[o][i]]]
           /\ \A i \in (seq + 1)..last :
                script[o][i] \in LegalTransitions[script[o][i - 1]]
           /\ last + 1 \in Seqs /\ pending[o][last + 1] # "none"
                => script[o][last + 1] \notin LegalTransitions[script[o][last]]
<1>1. PICK last \in seq..MaxSeq :
        /\ Replayable(pending[o], script[o][seq], seq, last)
        /\ last < MaxSeq => ~Replayable(pending[o], script[o][seq], seq, last + 1)
        /\ state' = [state EXCEPT ![o] = IF last = seq THEN script[o][seq]
                                                       ELSE pending[o][last]]
        /\ last_seq' = [last_seq EXCEPT ![o] = last]
        /\ pending' = [pending EXCEPT ![o] =
             [i \in Seqs |-> IF i \in (seq + 1)..(last + 1) THEN "none" ELSE pending[o][i]]]
  BY DEF ApplyEvent, FlushPending
<1>2. last \in Seqs /\ seq \in Int /\ last \in Int
  BY MaxSeqAssumption DEF Seqs
<1>3. \A i \in (seq + 1)..last : i \in Seqs /\ pending[o][i] = script[o][i]
  <2> TAKE i \in (seq + 1)..last
  <2>1. i \in Seqs
    BY <1>2, MaxSeqAssumption DEF Seqs
  <2>2. pending[o][i] # "none"
    BY <1>1 DEF Replayable
  <2>3. pending[o][i] \in {"none", script[o][i]}
    BY <2>1 DEF FeedInv, BufferIsScript
  <2>4. QED
    BY <2>1, <2>2, <2>3
<1>4. state' = [state EXCEPT ![o] = script[o][last]]
  <2>1. CASE last = seq
    BY <1>1, <2>1
  <2>2. CASE last # seq
    <3>1. last \in (seq + 1)..last
      BY <1>2, <2>2
    <3>2. pending[o][last] = script[o][last]
      BY <1>3, <3>1
    <3>3. QED
      BY <1>1, <2>2, <3>2
  <2>3. QED
    BY <2>1, <2>2
<1>5. \A i \in (seq + 1)..last : script[o][i] \in LegalTransitions[script[o][i - 1]]
  <2> TAKE i \in (seq + 1)..last
  <2>1. CASE i = seq + 1
    BY <1>1, <1>2, <1>3, <2>1 DEF Replayable
  <2>2. CASE i # seq + 1
    <3>1. i - 1 \in (seq + 1)..last /\ i \in Int
      BY <1>2, <2>2
    <3>2. pending[o][i] \in LegalTransitions[pending[o][i - 1]]
      BY <1>1, <2>2 DEF Replayable
    <3>3. QED
      BY <1>3, <3>1, <3>2
  <2>3. QED
    BY <2>1, <2>2
<1>6. ASSUME last + 1 \in Seqs, pending[o][last + 1] # "none"
      PROVE  script[o][last + 1] \notin LegalTransitions[script[o][last]]
  <2>1. last < MaxSeq /\ (seq + 1)..(last + 1) = (seq + 1)..last \cup {last + 1}
    BY <1>2, <1>6, MaxSeqAssumption DEF Seqs
  <2>2. \A i \in (seq + 1)..(last + 1) : pending[o][i] # "none"
    BY <1>1, <1>6, <2>1 DEF Replayable
  <2>3. PICK i \in (seq + 1)..(last + 1) :
          pending[o][i] \notin
            LegalTransitions[IF i = seq + 1 THEN script[o][seq] ELSE pending[o][i - 1]]
    <3>1. ~Replayable(pending[o], script[o][seq], seq, last + 1)
      BY <1>1, <2>1
    <3>2. QED
      BY <2>2, <3>1 DEF Replayable
  <2>4. i = last + 1
    <3> SUFFICES ASSUME i \in (seq + 1)..last PROVE FALSE
      BY <2>1
    <3>1. pending[o][i] \in
            LegalTransitions[IF i = seq + 1 THEN script[o][seq] ELSE pending[o][i - 1]]
      BY <1>1 DEF Replayable
    <3>2. QED
      BY <2>3, <3>1
  <2>5. pending[o][last + 1] = script[o][last + 1]
    BY <1>6 DEF FeedInv, BufferIsScript
  <2>6. last # seq => pending[o][last] = script[o][last]
    BY <1>2, <1>3
  <2>7. QED
    BY <1>2, <2>3, <2>4, <2>5, <2>6
<1>7. QED
  BY <1>1, <1>4, <1>5, <1>6

(* A delivered event keeps what each order owes to its script. *)
LEMMA DeliverFeedInv ==
  ASSUME FeedInv, NEW o \in Orders, NEW seq \in Seqs, Deliver(o, seq)
  PROVE  FeedInv'
<1> USE DEF Deliver
<1>1. TypeOK /\ script[o][seq] \in OrderState /\ FeedTypeOK
  BY DEF FeedInv, FeedTypeOK
<1>2. FeedTypeOK'
  <2>1. TypeOK'
    BY <1>1, OrderedTypeOK
  <2>2. QED
    BY <1>1, <2>1 DEF FeedTypeOK
<1>3. NothingReadyWaits'
  BY <1>1, OrderedLeavesNothingReady DEF FeedInv
<1>4. \A p \in Orders : \A i \in Int : LegalUpTo(p, i)' <=> LegalUpTo(p, i)
  BY DEF LegalUpTo
<1>5. \A p \in Orders : last_seq[p] \in Int /\ first[p] \in Int
  BY <1>1, MaxSeqAssumption DEF FeedTypeOK, TypeOK, Seqs
<1>6. \A i \in Seqs : i \in Int
  BY DEF Seqs
<1>7. CASE IgnoreEvent(o, script[o][seq], seq)
  <2>1. UNCHANGED <<state, last_seq, pending, script, first>>
    BY <1>7 DEF IgnoreEvent, vars
  <2>2. OnScript' /\ BufferIsScript'
    BY <1>4, <1>5, <2>1 DEF FeedInv, OnScript, BufferIsScript
  <2>3. state[o] # "absent" => (seq <= last_seq[o] \/ ~LegalUpTo(o, seq))
    <3> SUFFICES ASSUME seq = last_seq[o] + 1, state[o] # "absent",
                        script[o][seq] \notin LegalTransitions[state[o]]
                 PROVE  ~LegalUpTo(o, seq)
      BY <1>5, <1>6, <1>7 DEF IgnoreEvent
    <3>1. state[o] = (IF seq = first[o] + 1 THEN "NEW" ELSE script[o][seq - 1])
      BY <1>5, <1>6 DEF FeedInv, OnScript
    <3>2. seq \in (first[o] + 1)..seq
      BY <1>5, <1>6 DEF FeedInv, OnScript
    <3>3. QED
      BY <3>1, <3>2 DEF LegalUpTo
  <2>4. NothingIsLost'
    BY <1>1, <1>4, <1>6, <2>1, <2>3 DEF FeedInv, NothingIsLost, FeedTypeOK
  <2>5. QED
    BY <1>2, <1>3, <2>2, <2>4 DEF FeedInv
<1>8. CASE BufferEvent(o, script[o][seq], seq)
  <2>1. /\ UNCHANGED <<state, last_seq, script, first>>
        /\ pending' = [pending EXCEPT ![o][seq] = script[o][seq]]
    BY <1>8 DEF BufferEvent
  <2>2. OnScript'
    BY <1>4, <1>5, <2>1 DEF FeedInv, OnScript
  <2>3. BufferIsScript'
    BY <1>1, <2>1 DEF FeedInv, BufferIsScript, TypeOK
  <2>4. script[o][seq] # "none"
    BY <1>1 DEF OrderState
  <2>5. NothingIsLost'
    BY <1>1, <1>4, <1>6, <2>1, <2>4 DEF FeedInv, NothingIsLost, FeedTypeOK, TypeOK
  <2>6. QED
    BY <1>2, <1>3, <2>2, <2>3, <2>5 DEF FeedInv
<1>9. CASE ApplyEvent(o, script[o][seq], seq)
  <2>1. PICK last \in seq..MaxSeq :
          /\ state' = [state EXCEPT ![o] = script[o][last]]
          /\ last_seq' = [last_seq EXCEPT ![o] = last]
          /\ pending' = [pending EXCEPT ![o] =
               [i \in Seqs |-> IF i \in (seq + 1)..(last + 1) THEN "none"
                               ELSE pending[o][i]]]
          /\ \A i \in (seq + 1)..last :
               script[o][i] \in LegalTransitions[script[o][i - 1]]
          /\ last + 1 \in Seqs /\ pending[o][last + 1] # "none"
               => script[o][last + 1] \notin LegalTransitions[script[o][last]]
    BY <1>9, FlushWalks
  <2>2. /\ state[o] # "absent" /\ seq = last_seq[o] + 1
        /\ script[o][seq] \in LegalTransitions[state[o]]
    BY <1>9 DEF ApplyEvent
  <2>3. last \in Int /\ seq <= last /\ last \in Seqs
    BY <1>6, <2>1, MaxSeqAssumption DEF Seqs
  <2>4. LegalUpTo(o, last) /\ first[o] < last
    <3>1. state[o] = (IF seq = first[o] + 1 THEN "NEW" ELSE script[o][seq - 1])
      BY <1>5, <1>6, <2>2 DEF FeedInv, OnScript
    <3>2. first[o] <= last_seq[o] /\ LegalUpTo(o, last_seq[o])
      BY <2>2 DEF FeedInv, OnScript
    <3>3. ASSUME NEW i \in (first[o] + 1)..last
          PROVE  script[o][i] \in
                   LegalTransitions[IF i = first[o] + 1 THEN "NEW" ELSE script[o][i - 1]]
      <4>1. CASE i <= last_seq[o]
        <5>1. i \in (first[o] + 1)..last_seq[o]
          BY <1>5, <2>3, <4>1
        <5>2. QED
          BY <3>2, <5>1 DEF LegalUpTo
      <4>2. CASE i = seq
        BY <2>2, <3>1, <4>2
      <4>3. CASE i > seq
        <5>1. i \in (seq + 1)..last /\ i # first[o] + 1
          BY <1>5, <1>6, <2>2, <2>3, <3>2, <4>3
        <5>2. QED
          BY <2>1, <5>1
      <4>4. QED
        BY <1>5, <1>6, <2>2, <2>3, <4>1, <4>2, <4>3
    <3>4. QED
      BY <1>5, <1>6, <2>2, <2>3, <3>2, <3>3 DEF LegalUpTo
  <2>5. /\ state'[o] = script[o][last] /\ last_seq'[o] = last
        /\ \A p \in Orders \ {o} :
             /\ state'[p] = state[p] /\ last_seq'[p] = last_seq[p]
             /\ pending'[p] = pending[p] /\ delivered'[p] = delivered[p]
    BY <1>1, <2>1 DEF TypeOK, FeedTypeOK
  <2>6. OnScript'
    BY <1>4, <1>5, <2>3, <2>4, <2>5 DEF FeedInv, OnScript
  <2>7. \A i \in Seqs : pending'[o][i] = IF i \in (seq + 1)..(last + 1) THEN "none"
                                          ELSE pending[o][i]
    BY <1>1, <2>1 DEF TypeOK
  <2>8. BufferIsScript'
    BY <2>5, <2>7 DEF FeedInv, BufferIsScript
  <2>9. ASSUME NEW i \in delivered'[o], i > last
        PROVE  pending'[o][i] # "none" \/ ~LegalUpTo(o, i)
    <3>1. i \in delivered[o] /\ i \in Seqs /\ i \in Int
      BY <1>1, <1>6, <2>3, <2>9 DEF FeedTypeOK
    <3>2. pending[o][i] # "none" \/ ~LegalUpTo(o, i)
      BY <1>5, <1>6, <2>2, <2>3, <2>9, <3>1 DEF FeedInv, NothingIsLost
    <3>3. CASE i = last + 1
      <4>1. i \in (first[o] + 1)..i /\ i # first[o] + 1 /\ i - 1 = last
        BY <1>5, <2>3, <2>4, <3>1, <3>3
      <4>2. pending[o][i] # "none" =>
              script[o][i] \notin LegalTransitions[script[o][i - 1]]
        BY <2>1, <3>1, <3>3, <4>1
      <4>3. QED
        BY <3>2, <4>1, <4>2 DEF LegalUpTo
    <3>4. CASE i > last + 1
      <4>1. pending'[o][i] = pending[o][i]
        BY <1>6, <2>3, <2>7, <3>1, <3>4
      <4>2. QED
        BY <3>2, <4>1
    <3>5. QED
      BY <2>3, <2>9, <3>1, <3>3, <3>4
  <2>10. NothingIsLost'
    <3> SUFFICES ASSUME NEW p \in Orders, state'[p] # "absent", NEW i \in delivered'[p]
                 PROVE  i <= last_seq'[p] \/ pending'[p][i] # "none" \/ ~LegalUpTo(p, i)'
      BY DEF NothingIsLost
    <3>1. i \in Int
      BY <1>2, <1>6 DEF FeedTypeOK
    <3>2. CASE p = o
      BY <1>4, <2>3, <2>5, <2>9, <3>1, <3>2
    <3>3. CASE p # o
      BY <1>4, <2>5, <3>1, <3>3 DEF FeedInv, NothingIsLost
    <3>4. QED
      BY <3>2, <3>3
  <2>11. QED
    BY <1>2, <1>3, <2>6, <2>8, <2>10 DEF FeedInv
<1>10. QED
  BY <1>7, <1>8, <1>9 DEF TransitionOrdered

LEMMA NextFeedInv == FeedInv /\ [FeedNext]_feedVars => FeedInv'
<1> SUFFICES ASSUME FeedInv, [FeedNext]_feedVars PROVE FeedInv'
  OBVIOUS
<1>1. FeedTypeOK /\ TypeOK
  BY DEF FeedInv, FeedTypeOK
<1>2. ASSUME NEW o \in Orders, RegisterEvent(o) PROVE FeedInv'
  <2>1. PICK seq \in Seqs \cup {-1} :
          /\ Register(o, seq) /\ state[o] = "absent"
          /\ first' = [first EXCEPT ![o] = seq]
    BY <1>2, FirstSeqsAssumption DEF RegisterEvent
  <2>a. TypeOK'
    BY <1>1, <2>1, NextTypeOK DEF Next
  <2>b. NothingReadyWaits'
    BY <1>1, <2>1, RegisteringDrains
    DEF FeedInv, NothingReadyWaits, NoBufferOfTheGone, EventWaits, SameBuffer
  <2>2. TypeOK' /\ NothingReadyWaits'
    BY <2>a, <2>b
  <2>3. FeedTypeOK'
    BY <1>1, <1>2, <2>1, <2>2 DEF RegisterEvent, FeedTypeOK
  <2>4. /\ state'[o] = "NEW" /\ last_seq'[o] = seq /\ first'[o] = seq /\ delivered'[o] = {}
        /\ UNCHANGED <<pending, script>>
        /\ \A p \in Orders \ {o} :
             /\ state'[p] = state[p] /\ last_seq'[p] = last_seq[p]
             /\ first'[p] = first[p] /\ delivered'[p] = delivered[p]
    BY <1>1, <1>2, <2>1 DEF Register, RegisterEvent, TypeOK, FeedTypeOK
  <2>5. seq \in Int
    BY DEF Seqs
  <2>6. \A p \in Orders \ {o} : \A i \in Int : LegalUpTo(p, i)' <=> LegalUpTo(p, i)
    BY <2>4 DEF LegalUpTo
  <2>7. \A p \in Orders : last_seq[p] \in Int
    BY <1>1 DEF TypeOK, Seqs
  <2>8. OnScript'
    BY <2>4, <2>5, <2>6, <2>7 DEF FeedInv, OnScript, LegalUpTo
  <2>9. BufferIsScript'
    BY <2>4 DEF FeedInv, BufferIsScript
  <2>10. NothingIsLost'
    BY <1>1, <2>4, <2>6 DEF FeedInv, NothingIsLost, FeedTypeOK, Seqs
  <2>11. QED
    BY <2>2, <2>3, <2>8, <2>9, <2>10 DEF FeedInv
<1>3. CASE Clear
  <2>a. TypeOK'
    BY <1>1, <1>3, NextTypeOK DEF Next, Clear
  <2>b. NothingReadyWaits'
    BY <1>1, <1>3, ClearingDrains
    DEF FeedInv, NothingReadyWaits, NoBufferOfTheGone, EventWaits, SameBuffer, Clear
  <2>1. TypeOK' /\ NothingReadyWaits'
    BY <2>a, <2>b
  <2>2. FeedTypeOK'
    BY <1>1, <1>3, <2>1 DEF Clear, FeedTypeOK
  <2>3. \A p \in Orders : \A i \in Int : LegalUpTo(p, i)' <=> LegalUpTo(p, i)
    BY <1>3 DEF LegalUpTo, Clear
  <2>4. \A p \in Orders : last_seq[p] \in Int
    BY <1>1 DEF TypeOK, Seqs
  <2>5. \A p \in Orders : \/ state'[p] = "absent" /\ pending'[p] = NoEvents
                          \/ /\ state'[p] = state[p] /\ last_seq'[p] = last_seq[p]
                             /\ pending'[p] = pending[p]
    BY <1>3 DEF Clear, ClearTerminal
  <2>6. OnScript'
    BY <1>3, <2>3, <2>4, <2>5 DEF Clear, FeedInv, OnScript
  <2>7. \A i \in Seqs : NoEvents[i] = "none"
    BY DEF NoEvents
  <2>8. BufferIsScript'
    BY <1>3, <2>5, <2>7 DEF Clear, FeedInv, BufferIsScript
  <2>9. NothingIsLost'
    BY <1>1, <1>3, <2>3, <2>5 DEF Clear, FeedInv, NothingIsLost, FeedTypeOK, Seqs
  <2>10. QED
    BY <2>1, <2>2, <2>6, <2>8, <2>9 DEF FeedInv
<1>4. CASE UNCHANGED feedVars
  BY <1>4 DEF feedVars, vars, FeedInv, FeedTypeOK, TypeOK, NothingReadyWaits, EventWaits,
              NoBufferOfTheGone, OnScript,
              BufferIsScript, NothingIsLost, LegalUpTo
<1>5. QED
  BY <1>2, <1>3, <1>4, DeliverFeedInv DEF FeedNext

-----------------------------------------------------------------------------
(***************************************************************************)
(* Whatever the order, the repetition and the loss of events, those of a    *)
(* legal beginning that have all arrived are applied.                      *)
(***************************************************************************)
THEOREM ClosingGapsReplays == FeedSpec => []DeliveredIsApplied
<1>1. FeedInv => DeliveredIsApplied
  <2> SUFFICES ASSUME FeedInv, NEW o \in Orders, NEW seq \in Seqs, state[o] # "absent",
                      (first[o] + 1)..seq \subseteq delivered[o], LegalUpTo(o, seq),
                      ~(seq <= last_seq[o])
               PROVE  FALSE
    BY DEF DeliveredIsApplied
  <2> DEFINE next == last_seq[o] + 1
  <2>1. /\ last_seq[o] \in Seqs \cup {-1} /\ first[o] \in Int /\ seq \in Int
        /\ last_seq[o] \in Int /\ seq <= MaxSeq
    BY MaxSeqAssumption DEF FeedInv, FeedTypeOK, TypeOK, Seqs
  <2>2. first[o] <= last_seq[o]
    BY DEF FeedInv, OnScript
  <2>3. next \in (first[o] + 1)..seq /\ next \in Seqs
    BY <2>1, <2>2, MaxSeqAssumption DEF Seqs
  <2>4. pending[o][next] = "none"
    BY <2>1, <2>3, MaxSeqAssumption DEF FeedInv, NothingReadyWaits, EventWaits
  <2>5. LegalUpTo(o, next)
    BY <2>1, <2>3 DEF LegalUpTo
  <2>6. QED
    BY <2>1, <2>3, <2>4, <2>5 DEF FeedInv, NothingIsLost
<1>2. QED
  BY InitFeedInv, NextFeedInv, <1>1, PTL DEF FeedSpec

(***************************************************************************)
(* The feed implements delivery in order.                                  *)
(***************************************************************************)
LEMMA DeliverWalks ==
  ASSUME FeedInv, NEW o \in Orders, NEW seq \in Seqs, Deliver(o, seq)
  PROVE  InOrder!Walk(o) \/ UNCHANGED <<state, last_seq, script>>
<1>1. CASE ~ApplyEvent(o, script[o][seq], seq)
  BY <1>1 DEF Deliver, TransitionOrdered, IgnoreEvent, BufferEvent, vars
<1>2. CASE ApplyEvent(o, script[o][seq], seq)
  <2>1. PICK last \in seq..MaxSeq :
          /\ state' = [state EXCEPT ![o] = script[o][last]]
          /\ last_seq' = [last_seq EXCEPT ![o] = last]
          /\ \A i \in (seq + 1)..last :
               script[o][i] \in LegalTransitions[script[o][i - 1]]
    BY <1>2, FlushWalks
  <2>2. /\ state[o] # "absent" /\ seq = last_seq[o] + 1
        /\ script[o][seq] \in LegalTransitions[state[o]]
    BY <1>2 DEF ApplyEvent
  <2>3. /\ state[o] \in OrderState /\ \A i \in Seqs : script[o][i] \in OrderState
        /\ \A i \in (seq + 1)..last : i \in Seqs /\ i - 1 \in Seqs
    BY <2>1, <2>2, MaxSeqAssumption DEF FeedInv, FeedTypeOK, TypeOK, Seqs
  <2>4. <<state[o], script[o][seq]>> \in InOrder!Follows
    BY <2>2, <2>3, SameLegality
  <2>5. \A i \in (seq + 1)..last : <<script[o][i - 1], script[o][i]>> \in InOrder!Follows
    BY <2>1, <2>3, SameLegality
  <2>6. QED
    BY <2>1, <2>2, <2>4, <2>5 DEF InOrder!Walk, Deliver
<1>3. QED
  BY <1>1, <1>2

THEOREM FeedActsInOrder == FeedSpec => ActsInOrder
<1>1. FeedInit => InOrder!Init
  BY DEF FeedInit, Init, InOrder!Init, OrderState, InOrder!OrderState, Seqs
<1>2. FeedInv /\ [FeedNext]_feedVars => [InOrder!Next]_<<state, last_seq, script>>
  <2> SUFFICES ASSUME FeedInv, [FeedNext]_feedVars
               PROVE  InOrder!Next \/ UNCHANGED <<state, last_seq, script>>
    OBVIOUS
  <2>1. ASSUME NEW o \in Orders, RegisterEvent(o) PROVE InOrder!Begin(o)
    <3>1. PICK seq \in Seqs \cup {-1} :
            Register(o, seq) /\ state[o] = "absent" /\ UNCHANGED script
      BY <2>1, FirstSeqsAssumption DEF RegisterEvent
    <3>2. seq \in -1..MaxSeq
      BY MaxSeqAssumption DEF Seqs
    <3>3. QED
      BY <3>1, <3>2 DEF Register, InOrder!Begin
  <2>2. CASE Clear
    BY <2>2 DEF Clear, ClearTerminal, InOrder!Next, InOrder!Forget, Terminal, InOrder!Terminal
  <2>3. CASE UNCHANGED feedVars
    BY <2>3 DEF feedVars, vars
  <2>4. QED
    BY <2>1, <2>2, <2>3, DeliverWalks DEF FeedNext, InOrder!Next
<1>3. QED
  BY InitFeedInv, NextFeedInv, <1>1, <1>2, PTL DEF FeedSpec, ActsInOrder, InOrder!Spec

-----------------------------------------------------------------------------
(***************************************************************************)
(* The way of an order through router, ledger, bus, handlers and broker.   *)
(***************************************************************************)
(* How the ledger, the order state machine and the bus keep their types. *)
LEMMA RecordType ==
  ASSUME FlowTypeOK, NEW o \in Orders, NEW row \in OrderState,
         Record(o, row) \/ RecordFails(o, row)
  PROVE  ledger' \in [Orders -> SUBSET OrderState] /\ faults' \in 0..MaxFaults
BY FaultsAssumption DEF FlowTypeOK, Record, RecordFails, Fault

LEMMA MoveType ==
  ASSUME FlowTypeOK, NEW o \in Orders, NEW target \in OrderState, Move(o, target)
  PROVE  TypeOK'
BY DEF FlowTypeOK, TypeOK, Move, Transition, vars

LEMMA RegisterType ==
  ASSUME FlowTypeOK, NEW o \in Orders, Register(o, -1)
  PROVE  TypeOK'
BY DEF FlowTypeOK, TypeOK, Register, OrderState

LEMMA UnchangedType == ASSUME FlowTypeOK, UNCHANGED vars PROVE TypeOK'
BY DEF FlowTypeOK, TypeOK, vars

LEMMA AnnounceType ==
  ASSUME FlowTypeOK, NEW o \in Orders, NEW topic \in Topics, Announce(topic, o)
  PROVE  queue' \in Seq(Topics \X Orders) /\ faults' \in 0..MaxFaults
<1>1. <<topic, o>> \in Topics \X Orders
  OBVIOUS
<1>2. Append(queue, <<topic, o>>) \in Seq(Topics \X Orders)
  BY <1>1 DEF FlowTypeOK
<1>3. Append(Append(queue, <<topic, o>>), <<topic, o>>) \in Seq(Topics \X Orders)
  BY <1>1, <1>2
<1>4. queue' \in {queue, Append(queue, <<topic, o>>),
                  Append(Append(queue, <<topic, o>>), <<topic, o>>)}
  BY DEF Announce
<1>5. queue \in Seq(Topics \X Orders)
  BY DEF FlowTypeOK
<1>6. queue' \in Seq(Topics \X Orders)
  BY <1>2, <1>3, <1>4, <1>5, Zenon
<1>7. faults' \in 0..MaxFaults
  BY FaultsAssumption DEF FlowTypeOK, Announce, Fault
<1> QED
  BY <1>6, <1>7

LEMMA FirstEvent ==
  ASSUME FlowTypeOK, queue # <<>>
  PROVE  /\ Head(queue) \in Topics \X Orders
         /\ Head(queue)[1] \in Topics
         /\ Head(queue)[2] \in Orders
         /\ RowOf[Head(queue)[1]] \in OrderState
         /\ Tail(queue) \in Seq(Topics \X Orders)
<1>1. Head(queue) \in Topics \X Orders /\ Tail(queue) \in Seq(Topics \X Orders)
  BY DEF FlowTypeOK
<1> QED
  BY <1>1 DEF Topics, RowOf, OrderState

LEMMA InitFlowTypeOK == FlowInit => FlowTypeOK
BY FaultsAssumption, MaxSeqAssumption
DEF FlowInit, FlowTypeOK, Init, TypeOK, NoEvents, Seqs, NoWrite

LEMMA FlowNextTypeOK == FlowTypeOK /\ [FlowNext]_flowVars => FlowTypeOK'
<1> SUFFICES ASSUME FlowTypeOK, [FlowNext]_flowVars
             PROVE  FlowTypeOK'
  OBVIOUS
<1> USE FaultsAssumption DEF FlowTypeOK, memory, Goto, Routing, Closed, NoWrite
<1>1. ASSUME NEW o \in Orders, Route(o) PROVE FlowTypeOK'
  <2>1. "NEW" \in OrderState
    BY DEF OrderState
  <2>2. ledger' \in [Orders -> SUBSET OrderState] /\ faults' \in 0..MaxFaults
    BY <1>1, <2>1, RecordType DEF Route
  <2>3. TypeOK'
    BY <1>1, RegisterType, UnchangedType DEF Route
  <2>4. router' \in [Orders -> Routing \cup {"idle", "submitted", "failed", "raised", "gone"}]
    BY <1>1 DEF Route
  <2>5. UNCHANGED <<broker, broker_qty, saved, memory>>
    BY <1>1 DEF Route
  <2> QED
    BY <2>2, <2>3, <2>4, <2>5
<1>2. ASSUME NEW o \in Orders, Submit(o) PROVE FlowTypeOK'
  BY <1>2 DEF Submit, Fault, TypeOK, vars
<1>3. ASSUME NEW o \in Orders, Confirm(o) PROVE FlowTypeOK'
  <2>1. "SENT" \in OrderState
    BY DEF OrderState
  <2>2. ledger' \in [Orders -> SUBSET OrderState] /\ faults' \in 0..MaxFaults
    BY <1>3, <2>1, RecordType DEF Confirm
  <2>3. TypeOK'
    BY <1>3, <2>1, MoveType, UnchangedType DEF Confirm
  <2> QED
    BY <1>3, <2>2, <2>3 DEF Confirm
<1>4. ASSUME NEW o \in Orders, Reject(o) PROVE FlowTypeOK'
  <2>1. "REJECTED" \in OrderState /\ <<"rejected", o>> \in Topics \X Orders
    BY DEF OrderState, Topics
  <2>2. ledger' \in [Orders -> SUBSET OrderState] /\ faults' \in 0..MaxFaults
    BY <1>4, <2>1, RecordType DEF Reject
  <2>3. TypeOK'
    BY <1>4, <2>1, MoveType, UnchangedType DEF Reject
  <2>4. queue' \in Seq(Topics \X Orders)
    <3>1. queue' \in {queue, Append(queue, <<"rejected", o>>)}
      BY <1>4 DEF Reject
    <3>2. queue \in Seq(Topics \X Orders)
      OBVIOUS
    <3> HIDE DEF FlowTypeOK
    <3> QED
      BY <2>1, <3>1, <3>2
  <2>5. router' \in [Orders -> Routing \cup {"idle", "submitted", "failed", "raised", "gone"}]
    BY <1>4 DEF Reject
  <2>6. UNCHANGED <<broker, broker_qty, saved, canceling, position, handler_write,
                    reconcile, snapshot>>
    BY <1>4 DEF Reject
  <2> QED
    BY <2>2, <2>3, <2>4, <2>5, <2>6
<1>5. ASSUME NEW o \in Orders, Cancel(o) PROVE FlowTypeOK'
  BY <1>5 DEF Cancel, Fault, TypeOK, vars
<1>6. ASSUME NEW o \in Orders, RecordCancel(o) PROVE FlowTypeOK'
  <2>1. "CANCELED" \in OrderState
    BY DEF OrderState
  <2>2. ledger' \in [Orders -> SUBSET OrderState] /\ faults' \in 0..MaxFaults
    BY <1>6, <2>1, RecordType DEF RecordCancel
  <2>3. TypeOK'
    BY <1>6, <2>1, MoveType DEF RecordCancel
  <2> QED
    BY <1>6, <2>2, <2>3 DEF RecordCancel
<1>7. ASSUME NEW o \in Orders, Fill(o) PROVE FlowTypeOK'
  <2>1. queue' \in Seq(Topics \X Orders) /\ faults' \in 0..MaxFaults
    BY <1>7, AnnounceType DEF Fill, Topics
  <2> QED
    BY <1>7, <2>1 DEF Fill, TypeOK, vars
<1>8. ASSUME NEW o \in Orders, Close(o) PROVE FlowTypeOK'
  <2>1. queue' \in Seq(Topics \X Orders) /\ faults' \in 0..MaxFaults
    BY <1>8, AnnounceType DEF Close, Topics
  <2> QED
    BY <1>8, <2>1 DEF Close, TypeOK, vars
<1>9. ASSUME Handle PROVE FlowTypeOK'
  <2> DEFINE o == Head(queue)[2]
             row == RowOf[Head(queue)[1]]
  <2>1. o \in Orders /\ row \in OrderState /\ Tail(queue) \in Seq(Topics \X Orders)
    BY <1>9, FirstEvent DEF Handle
  <2>2. Record(o, row) \/ RecordFails(o, row)
    BY <1>9 DEF Handle
  <2>3. ledger' \in [Orders -> SUBSET OrderState] /\ faults' \in 0..MaxFaults
    BY <2>1, <2>2, RecordType
  <2>4. /\ queue' \in Seq(Topics \X Orders)
        /\ position' \in Nat
        /\ handler_write' \in Nat \cup {NoWrite}
    <3>1. CASE RecordFill(o)
      <4>1. queue' = queue \/ queue' = Tail(queue)
        BY <3>1 DEF RecordFill
      <4>2. position' \in Nat /\ handler_write' \in Nat \cup {NoWrite}
        BY <3>1 DEF RecordFill
      <4> QED
        BY <2>1, <4>1, <4>2
    <3>2. CASE queue' = Tail(queue) /\ UNCHANGED <<position, handler_write>>
      BY <2>1, <3>2
    <3> QED
      BY <1>9, <3>1, <3>2 DEF Handle
  <2> QED
    BY <1>9, <2>3, <2>4 DEF Handle, TypeOK, vars
<1>10. ASSUME PersistFill PROVE FlowTypeOK'
  <2>1. saved' \in Nat
    BY <1>10 DEF PersistFill
  <2>2. CASE queue = <<>>
    BY <1>10, <2>1, <2>2 DEF PersistFill, Fault, TypeOK, vars
  <2>3. CASE queue # <<>>
    BY <1>10, <2>1, <2>3, FirstEvent DEF PersistFill, Fault, TypeOK, vars
  <2> QED
    BY <2>2, <2>3
<1>11. ASSUME FetchPositions \/ Compare \/ PersistReconciled PROVE FlowTypeOK'
  BY <1>11 DEF FetchPositions, Compare, PersistReconciled, Fault, TypeOK, vars
<1>12. ASSUME ReconcileOrders PROVE FlowTypeOK'
  <2>1. ledger' \in [Orders -> SUBSET OrderState]
    BY <1>12 DEF ReconcileOrders, Discovered, OrderState
  <2> QED
    BY <1>12, <2>1 DEF ReconcileOrders, TypeOK, vars
<1>13. ASSUME Restart PROVE FlowTypeOK'
  BY <1>13, MaxSeqAssumption DEF Restart, Fault, TypeOK, NoEvents, Seqs
<1>14. CASE UNCHANGED flowVars
  BY <1>14 DEF flowVars, vars, TypeOK
<1> QED
  BY <1>1, <1>2, <1>3, <1>4, <1>5, <1>6, <1>7, <1>8, <1>9, <1>10, <1>11, <1>12, <1>13, <1>14
  DEF FlowNext

(* The types of the whole order path, for any orders: in particular a         *)
(* position, in memory or in Redis, is never negative.                      *)
THEOREM FlowTypeCorrect == FlowSpec => []FlowTypeOK
<1> QED
  BY InitFlowTypeOK, FlowNextTypeOK, PTL DEF FlowSpec

-----------------------------------------------------------------------------
(* Where an order stands on its way through execute() and cancel_open_order(). *)
OnItsWay(o) ==
  /\ router[o] \in {"idle", "submit"} => broker[o] = "none"
  /\ router[o] \in {"submit", "accepted"} => state[o] = "NEW"
  /\ router[o] = "submit" => "NEW" \in ledger[o]
  /\ router[o] = "accepted" => broker[o] # "none"
  /\ state[o] \in {"SENT", "CANCELED"} => router[o] = "submitted"
  /\ o \in canceling => broker[o] = "canceled" /\ state[o] \in {"SENT", "CANCELED"}

(* What the events on the bus say is so at the broker. *)
EventIsTrue(e) ==
  /\ e[1] = "filled" => broker[e[2]] = "filled"
  /\ e[1] = "canceled" => broker[e[2]] = "canceled"

EventsAreTrue == \A i \in 1..Len(queue) : EventIsTrue(queue[i])

(* What the three properties say of one order. *)
Accounted(o) ==
  /\ broker[o] # "none" => "NEW" \in ledger[o]
  /\ "SENT" \in ledger[o] => broker[o] # "none"
  /\ "FILLED" \in ledger[o] => broker[o] = "filled"
  /\ "CANCELED" \in ledger[o] => broker[o] = "canceled"
  /\ router[o] = "submitted" =>
       /\ broker[o] # "none"
       /\ {"NEW", "SENT"} \subseteq ledger[o]
       /\ state[o] \in {"SENT", "CANCELED", "absent"}

(* The inductive invariant. *)
FlowInv ==
  /\ FlowTypeOK
  /\ \A o \in Orders : OnItsWay(o) /\ Accounted(o)
  /\ EventsAreTrue
  /\ handler_write # NoWrite => queue # <<>>

LEMMA InitFlowInv == FlowInit => FlowInv
BY InitFlowTypeOK
DEF FlowInit, Init, FlowInv, OnItsWay, Accounted, EventsAreTrue

(* A write adds its row, or, failing, perhaps does not. *)
LEMMA RecordAdds ==
  ASSUME FlowTypeOK, NEW o \in Orders, NEW row,
         Record(o, row) \/ RecordFails(o, row), NEW x \in Orders
  PROVE  /\ ledger[x] \subseteq ledger'[x]
         /\ ledger'[x] \subseteq ledger[x] \cup {row}
         /\ x # o => ledger'[x] = ledger[x]
         /\ Record(o, row) => row \in ledger'[o]
BY DEF FlowTypeOK, Record, RecordFails

LEMMA MoveMoves ==
  ASSUME FlowTypeOK, NEW o \in Orders, NEW target, Move(o, target), NEW x \in Orders
  PROVE  /\ x # o => state'[x] = state[x]
         /\ \/ state[o] \in OrderState /\ target \in LegalTransitions[state[o]]
                                     /\ state'[o] = target
            \/ target \notin LegalTransitions[state[o]] /\ state'[o] = state[o]
BY DEF FlowTypeOK, TypeOK, Move, Transition, vars

(* What an event says of an order stays so. *)
LEMMA EventsStay ==
  ASSUME FlowTypeOK, \A o \in Orders : broker[o] \in Closed => broker'[o] = broker[o]
  PROVE  \A e \in Topics \X Orders : EventIsTrue(e) => EventIsTrue(e)'
BY DEF EventIsTrue, Closed

(* Events leave from the front. *)
LEMMA EventsLeave ==
  ASSUME FlowTypeOK, EventsAreTrue,
         \A e \in Topics \X Orders : EventIsTrue(e) => EventIsTrue(e)',
         queue' = queue \/ (queue # <<>> /\ queue' = Tail(queue))
  PROVE  EventsAreTrue'
<1>1. queue \in Seq(Topics \X Orders)
  BY DEF FlowTypeOK
<1>2. ASSUME NEW i \in 1..Len(queue')
      PROVE  \E j \in 1..Len(queue) : queue'[i] = queue[j]
  BY <1>1
<1>3. ASSUME NEW i \in 1..Len(queue')
      PROVE  EventIsTrue(queue[i])'
  <2>1. PICK j \in 1..Len(queue) : queue'[i] = queue[j]
    BY <1>2
  <2>2. queue[j] \in Topics \X Orders /\ EventIsTrue(queue[j])
    BY <1>1 DEF EventsAreTrue
  <2> QED
    BY <2>1, <2>2 DEF EventIsTrue
<1> QED
  BY <1>3 DEF EventsAreTrue

LEMMA EventsCome ==
  ASSUME FlowTypeOK, EventsAreTrue, NEW e \in Topics \X Orders, EventIsTrue(e)',
         \A f \in Topics \X Orders : EventIsTrue(f) => EventIsTrue(f)',
         queue' \in {queue, Append(queue, e), Append(Append(queue, e), e)}
  PROVE  EventsAreTrue'
<1>1. queue \in Seq(Topics \X Orders)
  BY DEF FlowTypeOK
<1>2. ASSUME NEW i \in 1..Len(queue')
      PROVE  queue'[i] = e \/ \E j \in 1..Len(queue) : queue'[i] = queue[j]
  <2>1. CASE queue' = queue
    BY <2>1
  <2>2. CASE queue' = Append(queue, e)
    BY <1>1, <2>2
  <2>3. CASE queue' = Append(Append(queue, e), e)
    <3>1. Append(queue, e) \in Seq(Topics \X Orders) /\ Len(Append(queue, e)) = Len(queue) + 1
      BY <1>1
    <3>2. /\ i \in 1..(Len(queue) + 2)
          /\ i = Len(queue) + 2 => queue'[i] = e
          /\ i # Len(queue) + 2 => queue'[i] = Append(queue, e)[i]
      BY <1>1, <2>3, <3>1
    <3> QED
      BY <1>1, <3>2
  <2> QED
    BY <2>1, <2>2, <2>3
<1>3. ASSUME NEW i \in 1..Len(queue')
      PROVE  EventIsTrue(queue[i])'
  <2>1. CASE queue'[i] = e
    BY <2>1 DEF EventIsTrue
  <2>2. CASE \E j \in 1..Len(queue) : queue'[i] = queue[j]
    <3>1. PICK j \in 1..Len(queue) : queue'[i] = queue[j]
      BY <2>2
    <3>2. queue[j] \in Topics \X Orders /\ EventIsTrue(queue[j])
      BY <1>1 DEF EventsAreTrue
    <3> QED
      BY <3>1, <3>2 DEF EventIsTrue
  <2> QED
    BY <1>2, <2>1, <2>2
<1> QED
  BY <1>3 DEF EventsAreTrue

LEMMA NextFlowInv == FlowInv /\ [FlowNext]_flowVars => FlowInv'
<1> SUFFICES ASSUME FlowInv, [FlowNext]_flowVars
             PROVE  FlowInv'
  OBVIOUS
<1> USE DEF OnItsWay, Accounted, Goto
<1>1. FlowTypeOK /\ FlowTypeOK' /\ EventsAreTrue /\ (handler_write # NoWrite => queue # <<>>)
  BY FlowNextTypeOK DEF FlowInv
<1>2. \A x \in Orders : OnItsWay(x) /\ Accounted(x)
  BY DEF FlowInv
<1>3. ASSUME NEW o \in Orders, Route(o), NEW x \in Orders
      PROVE  OnItsWay(x)' /\ Accounted(x)'
  <2>1. /\ ledger[x] \subseteq ledger'[x] /\ ledger'[x] \subseteq ledger[x] \cup {"NEW"}
        /\ x # o => ledger'[x] = ledger[x]
        /\ Record(o, "NEW") => "NEW" \in ledger'[o]
    BY <1>1, <1>3, RecordAdds DEF Route
  <2>2. /\ x # o => router'[x] = router[x] /\ state'[x] = state[x]
        /\ router[o] = "idle" /\ UNCHANGED <<broker, canceling>>
        /\ \/ Record(o, "NEW") /\ router'[o] = "submit" /\ state'[o] = "NEW"
           \/ router'[o] = "raised" /\ state'[o] = state[o]
    BY <1>1, <1>3 DEF Route, Register, FlowTypeOK, TypeOK, memory, vars
  <2> QED
    BY <1>2, <2>1, <2>2
<1>4. ASSUME NEW o \in Orders, Submit(o), NEW x \in Orders
      PROVE  OnItsWay(x)' /\ Accounted(x)'
  BY <1>1, <1>2, <1>4 DEF Submit, FlowTypeOK, memory, vars
<1>5. ASSUME NEW o \in Orders, Confirm(o), NEW x \in Orders
      PROVE  OnItsWay(x)' /\ Accounted(x)'
  <2>1. /\ ledger[x] \subseteq ledger'[x] /\ ledger'[x] \subseteq ledger[x] \cup {"SENT"}
        /\ x # o => ledger'[x] = ledger[x]
        /\ Record(o, "SENT") => "SENT" \in ledger'[o]
    BY <1>1, <1>5, RecordAdds DEF Confirm
  <2>2. "SENT" \in LegalTransitions["NEW"]
    BY DEF LegalTransitions, OrderState
  <2>3. /\ x # o => router'[x] = router[x] /\ state'[x] = state[x]
        /\ router[o] = "accepted" /\ UNCHANGED <<broker, canceling>>
        /\ \/ Record(o, "SENT") /\ router'[o] = "submitted" /\ state'[o] = "SENT"
           \/ router'[o] = "rejecting" /\ state'[o] = state[o]
    BY <1>1, <1>2, <1>5, <2>2 DEF Confirm, Move, Transition, FlowTypeOK, TypeOK, memory, vars
  <2> QED
    BY <1>2, <2>1, <2>3
<1>6. ASSUME NEW o \in Orders, Reject(o), NEW x \in Orders
      PROVE  OnItsWay(x)' /\ Accounted(x)'
  <2>1. /\ ledger[x] \subseteq ledger'[x] /\ ledger'[x] \subseteq ledger[x] \cup {"REJECTED"}
        /\ x # o => ledger'[x] = ledger[x]
    BY <1>1, <1>6, RecordAdds DEF Reject
  <2>2. /\ x # o => router'[x] = router[x] /\ state'[x] = state[x]
        /\ router[o] = "rejecting" /\ UNCHANGED <<broker, canceling>>
        /\ router'[o] \in {"failed", "raised"}
        /\ state'[o] \in {state[o], "REJECTED"}
    BY <1>1, <1>6 DEF Reject, Move, Transition, FlowTypeOK, TypeOK, vars
  <2> QED
    BY <1>2, <2>1, <2>2
<1>7. ASSUME NEW o \in Orders, Cancel(o), NEW x \in Orders
      PROVE  OnItsWay(x)' /\ Accounted(x)'
  BY <1>1, <1>2, <1>7 DEF Cancel, FlowTypeOK, vars
<1>8. ASSUME NEW o \in Orders, RecordCancel(o), NEW x \in Orders
      PROVE  OnItsWay(x)' /\ Accounted(x)'
  <2>1. /\ ledger[x] \subseteq ledger'[x] /\ ledger'[x] \subseteq ledger[x] \cup {"CANCELED"}
        /\ x # o => ledger'[x] = ledger[x]
    BY <1>1, <1>8, RecordAdds DEF RecordCancel
  <2>2. /\ x # o => state'[x] = state[x]
        /\ o \in canceling /\ canceling' = canceling \ {o} /\ UNCHANGED <<router, broker>>
        /\ state'[o] \in {state[o], "CANCELED"}
    BY <1>1, <1>8 DEF RecordCancel, Move, Transition, FlowTypeOK, TypeOK, vars
  <2> QED
    BY <1>2, <2>1, <2>2
<1>9. ASSUME NEW o \in Orders, Fill(o) \/ Close(o), NEW x \in Orders
      PROVE  OnItsWay(x)' /\ Accounted(x)'
  BY <1>1, <1>2, <1>9 DEF Fill, Close, FlowTypeOK, vars
<1>10. ASSUME Handle, NEW x \in Orders
       PROVE  OnItsWay(x)' /\ Accounted(x)'
  <2> DEFINE e == Head(queue)
  <2>1. e[1] \in Topics /\ e[2] \in Orders /\ EventIsTrue(e)
    BY <1>1, <1>10, FirstEvent DEF Handle, EventsAreTrue, FlowTypeOK
  <2>2. Record(e[2], RowOf[e[1]]) \/ RecordFails(e[2], RowOf[e[1]])
    BY <1>10 DEF Handle
  <2>3. /\ ledger[x] \subseteq ledger'[x] /\ ledger'[x] \subseteq ledger[x] \cup {RowOf[e[1]]}
        /\ x # e[2] => ledger'[x] = ledger[x]
    BY <1>1, <2>1, <2>2, RecordAdds
  <2>4. /\ "FILLED" \in ledger'[x] => broker[x] = "filled"
        /\ "CANCELED" \in ledger'[x] => broker[x] = "canceled"
        /\ "SENT" \in ledger'[x] => "SENT" \in ledger[x]
    BY <1>2, <2>1, <2>3 DEF EventIsTrue, RowOf, Topics
  <2> QED
    BY <1>2, <1>10, <2>3, <2>4 DEF Handle, vars
<1>11. ASSUME PersistFill \/ FetchPositions \/ Compare \/ PersistReconciled, NEW x \in Orders
       PROVE  OnItsWay(x)' /\ Accounted(x)'
  BY <1>2, <1>11 DEF PersistFill, FetchPositions, Compare, PersistReconciled, vars
<1>12. ASSUME ReconcileOrders, NEW x \in Orders
       PROVE  OnItsWay(x)' /\ Accounted(x)'
  <2>1. /\ ledger[x] \subseteq ledger'[x]
        /\ \/ ledger'[x] = ledger[x]
           \/ broker[x] \in Closed /\ ledger'[x] = ledger[x] \cup {Discovered[broker[x]]}
    BY <1>1, <1>12 DEF ReconcileOrders, FlowTypeOK
  <2>2. /\ "FILLED" \in ledger'[x] => broker[x] = "filled"
        /\ "CANCELED" \in ledger'[x] => broker[x] = "canceled"
        /\ "SENT" \in ledger'[x] => "SENT" \in ledger[x]
    BY <1>2, <2>1 DEF Discovered, Closed
  <2> QED
    BY <1>2, <1>12, <2>1, <2>2 DEF ReconcileOrders, vars
<1>13. ASSUME Restart, NEW x \in Orders
       PROVE  OnItsWay(x)' /\ Accounted(x)'
  BY <1>1, <1>2, <1>13 DEF Restart, Routing, FlowTypeOK
<1>14. ASSUME UNCHANGED flowVars, NEW x \in Orders
       PROVE  OnItsWay(x)' /\ Accounted(x)'
  BY <1>2, <1>14 DEF flowVars, vars, memory
<1>15. \A x \in Orders : OnItsWay(x)' /\ Accounted(x)'
  BY <1>3, <1>4, <1>5, <1>6, <1>7, <1>8, <1>9, <1>10, <1>11, <1>12, <1>13, <1>14 DEF FlowNext
<1>16. \A e \in Topics \X Orders : EventIsTrue(e) => EventIsTrue(e)'
  <2>1. \A x \in Orders : broker[x] \in Closed => broker'[x] = broker[x]
    <3>1. ASSUME NEW o \in Orders, Submit(o) \/ Cancel(o) \/ Fill(o) \/ Close(o)
          PROVE  \A x \in Orders : broker[x] \in Closed => broker'[x] = broker[x]
      BY <1>1, <1>2, <3>1 DEF Submit, Cancel, Fill, Close, Closed, FlowTypeOK
    <3> QED
      BY <3>1 DEF FlowNext, Route, Confirm, Reject, RecordCancel, Handle, PersistFill,
                  FetchPositions, Compare, PersistReconciled, ReconcileOrders, Restart, flowVars
  <2> QED
    BY <1>1, <2>1, EventsStay
<1>17. EventsAreTrue' /\ (handler_write # NoWrite => queue # <<>>)'
  <2>1. ASSUME NEW o \in Orders, Fill(o) \/ Close(o) \/ Reject(o)
        PROVE  EventsAreTrue' /\ (handler_write # NoWrite => queue # <<>>)'
    <3>1. PICK topic \in Topics :
            /\ queue' \in {queue, Append(queue, <<topic, o>>),
                            Append(Append(queue, <<topic, o>>), <<topic, o>>)}
            /\ topic # "rejected" => broker'[o] = topic
      BY <1>1, <2>1 DEF Fill, Close, Reject, Announce, Topics, FlowTypeOK
    <3>2. EventIsTrue(<<topic, o>>)'
      BY <3>1 DEF EventIsTrue, Topics
    <3>3. EventsAreTrue'
      BY <1>1, <1>16, <3>1, <3>2, EventsCome
    <3>4. queue # <<>> => queue' # <<>>
      BY <1>1, <3>1 DEF FlowTypeOK
    <3> QED
      BY <1>1, <2>1, <3>3, <3>4 DEF Fill, Close, Reject
  <2>2. ASSUME Handle \/ PersistFill
        PROVE  EventsAreTrue' /\ (handler_write # NoWrite => queue # <<>>)'
    <3>1. queue' = queue \/ (queue # <<>> /\ queue' = Tail(queue))
      BY <1>1, <2>2 DEF Handle, RecordFill, PersistFill
    <3>2. EventsAreTrue'
      BY <1>1, <1>16, <3>1, EventsLeave
    <3> QED
      BY <2>2, <3>2 DEF Handle, RecordFill, PersistFill
  <2>3. ASSUME Restart
        PROVE  EventsAreTrue' /\ (handler_write # NoWrite => queue # <<>>)'
    BY <2>3 DEF Restart, EventsAreTrue
  <2>4. ASSUME UNCHANGED <<queue, handler_write>>
        PROVE  EventsAreTrue' /\ (handler_write # NoWrite => queue # <<>>)'
    BY <1>1, <1>16, <2>4, EventsLeave
  <2> QED
    BY <2>1, <2>2, <2>3, <2>4
    DEF FlowNext, flowVars, memory, Route, Submit, Confirm, Cancel, RecordCancel,
        FetchPositions, Compare, PersistReconciled, ReconcileOrders
<1> QED
  BY <1>1, <1>15, <1>17 DEF FlowInv

(* What the ledger says agrees with the broker, and an id that execute()      *)
(* returned is known to broker, ledger and record, for any orders, faults    *)
(* and restarts.                                                            *)
THEOREM LedgerTellsTheTruth == FlowSpec => []LedgerIsTrue
<1>1. FlowInv => LedgerIsTrue
  BY DEF FlowInv, Accounted, LedgerIsTrue, WriteAhead, RowsAreTrue, SubmittedIsReal
<1> QED
  BY InitFlowInv, NextFlowInv, <1>1, PTL DEF FlowSpec
=============================================================================
