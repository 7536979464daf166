------------------------- MODULE EventStreamProofs -------------------------
(***************************************************************************)
(* Proofs about the event bus on Redis Streams, for any workers, handlers, *)
(* messages, batches, attempts and faults.                                 *)
(***************************************************************************)
EXTENDS EventStream, TLAPS

(***************************************************************************)
(* The inductive invariant.  No message is in two hands, or in one twice,  *)
(* or both dropped and in a hand; what no worker has come to is untouched; *)
(* and of the message in its hand a worker knows which handlers are        *)
(* through with it.                                                        *)
(***************************************************************************)
Untouched(m) == \A h \in Handlers : attempts[m][h] = 0 /\ <<m, h>> \notin done

Through(m, h) == <<m, h>> \in done \/ (GaveUp(m, h) /\ <<m, h>> \in dead \cup unwritten)

OneHandEach ==
  /\ \A w, v \in Workers : \A i \in 1..Len(batch[w]), j \in 1..Len(batch[v]) :
       batch[w][i] = batch[v][j] => w = v /\ i = j
  /\ \A w \in Workers : \A i \in 1..Len(batch[w]) : batch[w][i] \notin dropped
  /\ \A w \in Workers : at[w] \in {"read", "ended"} => batch[w] = <<>>

TailOK(w) == \A i \in 2..Len(batch[w]) : Untouched(batch[w][i]) /\ batch[w][i] \in pending

AtWork(w) ==
  LET m == Head(batch[w]) IN
  /\ m \notin Malformed /\ m \in pending
  /\ \A h \in Handlers :
       /\ h < handler[w] => Through(m, h) /\ (~failed[w] => <<m, h>> \in done)
       /\ h >= handler[w] => <<m, h>> \notin done
       /\ h > handler[w] => attempts[m][h] = 0

HeadOK(w) ==
  /\ at[w] = "handle" => AtWork(w) /\ attempts[Head(batch[w])][handler[w]] < MaxRetries
  /\ at[w] = "bury" => AtWork(w) /\ attempts[Head(batch[w])][handler[w]] = MaxRetries
  /\ at[w] = "ack" => \/ Head(batch[w]) \in Malformed
                      \/ \A h \in Handlers : <<Head(batch[w]), h>> \in done

Fresh == dropped \subseteq 1..delivered /\ \A m \in Messages : m > delivered => Untouched(m)

StreamInv ==
  /\ TypeOK /\ OneHandEach /\ Fresh /\ NothingHalfDone
  /\ \A w \in Workers : TailOK(w) /\ HeadOK(w)

-----------------------------------------------------------------------------
(* Sequences of messages.                                                  *)
LEMMA TailOfBatch ==
  ASSUME NEW S, NEW s \in Seq(S), s # <<>>
  PROVE  /\ Head(s) = s[1] /\ Head(s) \in S /\ Tail(s) \in Seq(S)
         /\ Len(s) \in Nat \ {0} /\ Len(Tail(s)) = Len(s) - 1
         /\ \A i \in 1..Len(Tail(s)) : Tail(s)[i] = s[i + 1]
  OBVIOUS

LEMMA ElementsOfBatch ==
  ASSUME NEW S, NEW s \in Seq(S)
  PROVE  Len(s) \in Nat /\ \A i \in 1..Len(s) : s[i] \in S
  OBVIOUS

LEMMA LongerStream ==
  ASSUME NEW d \in Nat, NEW e \in Nat, d <= e, NEW s \in Seq(1..d)
  PROVE  s \in Seq(1..e)
  OBVIOUS

LEMMA NewBatch ==
  ASSUME TypeOK, delivered < published
  PROVE  /\ NewMessages \in Seq(1..(delivered + Len(NewMessages)))
         /\ Len(NewMessages) \in Nat \ {0} /\ delivered + Len(NewMessages) <= published
         /\ \A i \in 1..Len(NewMessages) : NewMessages[i] = delivered + i
         /\ Elements(NewMessages) = (delivered + 1)..(delivered + Len(NewMessages))
<1> DEFINE last == IF delivered + BatchSize < published THEN delivered + BatchSize ELSE published
<1>1. last \in Nat /\ last > delivered /\ last <= published /\ delivered \in Nat
  BY NumbersAssumption DEF TypeOK
<1> DEFINE n == last - delivered
<1>2. n \in Nat \ {0}
  BY <1>1
<1>3. NewMessages = [i \in 1..n |-> delivered + i]
  BY DEF NewMessages
<1> HIDE DEF n, last
<1>4. NewMessages \in Seq(1..(delivered + n)) /\ Len(NewMessages) = n
  BY <1>1, <1>2, <1>3
<1>5. Elements(NewMessages) = (delivered + 1)..(delivered + n)
  BY <1>1, <1>2, <1>3, <1>4 DEF Elements
<1>6. QED
  <2>1. delivered + n = last
    BY <1>1 DEF n
  <2>2. \A i \in 1..n : NewMessages[i] = delivered + i
    BY <1>3
  <2>3. QED
    BY <1>1, <1>2, <1>4, <1>5, <2>1, <2>2

(* What the invariant says of the message in a worker's hands.             *)
LEMMA InItsHands ==
  ASSUME StreamInv, NEW w \in Workers, at[w] \in {"handle", "bury", "ack"}
  PROVE  /\ batch[w] \in Seq(1..delivered) /\ batch[w] # <<>> /\ Len(batch[w]) \in Nat \ {0}
         /\ Head(batch[w]) = batch[w][1] /\ Head(batch[w]) \in 1..delivered
         /\ Head(batch[w]) \in Messages /\ Head(batch[w]) \notin dropped
         /\ handler[w] \in Handlers /\ failed[w] \in BOOLEAN
         /\ 1..delivered \subseteq Messages /\ delivered \in Nat
<1>1. /\ batch[w] \in Seq(1..delivered) /\ batch[w] # <<>> /\ handler[w] \in Handlers
      /\ failed[w] \in BOOLEAN /\ delivered \in 0..published /\ published \in 0..MaxMessages
  BY DEF StreamInv, TypeOK
<1>2. Head(batch[w]) = batch[w][1] /\ Head(batch[w]) \in 1..delivered
      /\ Len(batch[w]) \in Nat \ {0}
  BY <1>1, TailOfBatch
<1>3. 1 \in 1..Len(batch[w])
  BY <1>2
<1>4. batch[w][1] \notin dropped
  BY <1>3 DEF StreamInv, OneHandEach
<1>5. delivered \in Nat /\ 1..delivered \subseteq Messages
  BY <1>1, NumbersAssumption DEF Messages
<1> QED
  BY <1>1, <1>2, <1>4, <1>5

-----------------------------------------------------------------------------
(* A step of worker w on the message in its hands leaves the other workers *)
(* and the other messages as they were.                                    *)
OnlyInHand(w) ==
  /\ \A v \in Workers \ {w} : /\ at'[v] = at[v] /\ batch'[v] = batch[v]
                              /\ handler'[v] = handler[v] /\ failed'[v] = failed[v]
  /\ batch'[w] \in {batch[w], Tail(batch[w])}
  /\ at'[w] \in {"read", "handle", "bury", "ack"}
  /\ at'[w] = "read" => batch'[w] = <<>>
  /\ \A n \in Messages \ {Head(batch[w])} :
       /\ attempts'[n] = attempts[n] /\ (n \in pending' <=> n \in pending)
       /\ \A h \in Handlers :
            /\ <<n, h>> \in done' <=> <<n, h>> \in done
            /\ <<n, h>> \in dead \cup unwritten => <<n, h>> \in dead' \cup unwritten'
  /\ delivered' = delivered /\ dropped' = dropped

LEMMA OthersAreKept ==
  ASSUME StreamInv, TypeOK', NEW w \in Workers, at[w] \in {"handle", "bury", "ack"},
         OnlyInHand(w)
  PROVE  /\ OneHandEach' /\ Fresh'
         /\ \A v \in Workers : TailOK(v)' /\ (v # w => HeadOK(v)')
         /\ \A n \in (1..delivered') \ Malformed :
              n # Head(batch[w]) => /\ AcknowledgedIsHandled(n)'
                                    /\ n \in Settled' => SettledIsComplete(n)'
<1> DEFINE m == Head(batch[w])
<1>1. /\ batch[w] \in Seq(1..delivered) /\ batch[w] # <<>> /\ Len(batch[w]) \in Nat \ {0}
      /\ m = batch[w][1] /\ m \in 1..delivered /\ m \in Messages
      /\ 1..delivered \subseteq Messages /\ delivered \in Nat
  BY InItsHands
<1>2. /\ Tail(batch[w]) \in Seq(1..delivered) /\ Len(Tail(batch[w])) = Len(batch[w]) - 1
      /\ \A i \in 1..Len(Tail(batch[w])) : Tail(batch[w])[i] = batch[w][i + 1]
  BY <1>1, TailOfBatch
<1>3. \E k \in {0, 1} : /\ Len(batch'[w]) = Len(batch[w]) - k
                        /\ \A i \in 1..Len(batch'[w]) : batch'[w][i] = batch[w][i + k]
                        /\ k = 0 => batch'[w] = batch[w]
  <2>1. CASE batch'[w] = batch[w]
    BY <1>1, <2>1
  <2>2. CASE batch'[w] = Tail(batch[w])
    BY <1>2, <2>2
  <2> QED
    BY <2>1, <2>2 DEF OnlyInHand
<1>4. PICK k \in {0, 1} : /\ Len(batch'[w]) = Len(batch[w]) - k
                          /\ \A i \in 1..Len(batch'[w]) : batch'[w][i] = batch[w][i + k]
                          /\ k = 0 => batch'[w] = batch[w]
  BY <1>3
<1>5. \A v \in Workers \ {w} : at'[v] = at[v] /\ batch'[v] = batch[v]
                               /\ handler'[v] = handler[v] /\ failed'[v] = failed[v]
  BY DEF OnlyInHand
<1>6. \A v \in Workers : batch[v] \in Seq(1..delivered) /\ Len(batch[v]) \in Nat
                         /\ \A i \in 1..Len(batch[v]) : batch[v][i] \in 1..delivered
  <2>1. \A v \in Workers : batch[v] \in Seq(1..delivered)
    BY DEF StreamInv, TypeOK
  <2> QED
    BY <2>1, ElementsOfBatch
<1>7. \A v, u \in Workers : \A i \in 1..Len(batch[v]), j \in 1..Len(batch[u]) :
        batch[v][i] = batch[u][j] => v = u /\ i = j
  BY DEF StreamInv, OneHandEach
<1>8. delivered' = delivered /\ dropped' = dropped
  BY DEF OnlyInHand
<1>9. OneHandEach'
  <2>1. ASSUME NEW v \in Workers, NEW i \in 1..Len(batch'[v])
        PROVE  IF v = w THEN i + k \in 1..Len(batch[w]) /\ batch'[v][i] = batch[w][i + k]
                        ELSE i \in 1..Len(batch[v]) /\ batch'[v][i] = batch[v][i]
    <3>1. CASE v = w
      <4>1. i \in Nat /\ 1 <= i /\ i <= Len(batch[w]) - k
        BY <1>1, <1>4, <2>1, <3>1
      <4>2. i + k \in 1..Len(batch[w])
        BY <1>1, <4>1
      <4> QED
        BY <1>4, <2>1, <3>1, <4>2
    <3>2. CASE v # w
      BY <1>5, <2>1, <3>2
    <3> QED
      BY <3>1, <3>2
  <2>2. ASSUME NEW v \in Workers, NEW u \in Workers, NEW i \in 1..Len(batch'[v]),
               NEW j \in 1..Len(batch'[u]), batch'[v][i] = batch'[u][j]
        PROVE  v = u /\ i = j
    <3>1. CASE v = w /\ u = w
      <4>0. /\ i + k \in 1..Len(batch[w]) /\ batch'[w][i] = batch[w][i + k]
            /\ j + k \in 1..Len(batch[w]) /\ batch'[w][j] = batch[w][j + k]
        BY <2>1, <3>1
      <4>1. i + k = j + k
        BY <4>0, <2>2, <1>7, <3>1
      <4>2. i \in Nat /\ j \in Nat
        OBVIOUS
      <4> QED
        BY <3>1, <4>1, <4>2
    <3>2. CASE v # w \/ u # w
      BY <2>1, <2>2, <1>7, <3>2
    <3> QED
      BY <3>1, <3>2
  <2>3. ASSUME NEW v \in Workers, NEW i \in 1..Len(batch'[v])
        PROVE  batch'[v][i] \notin dropped'
    <3>1. \E j \in 1..Len(batch[v]) : batch'[v][i] = batch[v][j]
      BY <2>1, <2>3
    <3>2. \A j \in 1..Len(batch[v]) : batch[v][j] \notin dropped
      BY DEF StreamInv, OneHandEach
    <3> QED
      BY <3>1, <3>2, <1>8
  <2>4. ASSUME NEW v \in Workers, at'[v] \in {"read", "ended"}
        PROVE  batch'[v] = <<>>
    BY <2>4, <1>5 DEF StreamInv, OneHandEach, OnlyInHand
  <2> QED
    BY <2>2, <2>3, <2>4 DEF OneHandEach
<1>10. Fresh'
  <2>1. dropped' \subseteq 1..delivered'
    BY <1>8 DEF StreamInv, Fresh
  <2>2. ASSUME NEW n \in Messages, n > delivered'
        PROVE  Untouched(n)'
    <3>1. n # m /\ Untouched(n)
      BY <1>1, <1>8, <2>2 DEF StreamInv, Fresh
    <3> QED
      BY <3>1 DEF Untouched, OnlyInHand
  <2> QED
    BY <2>1, <2>2 DEF Fresh
<1>11. ASSUME NEW v \in Workers
       PROVE  TailOK(v)'
  <2> SUFFICES ASSUME NEW i \in 2..Len(batch'[v])
               PROVE  /\ \A h \in Handlers : attempts'[batch'[v][i]][h] = 0
                                             /\ <<batch'[v][i], h>> \notin done'
                      /\ batch'[v][i] \in pending'
    BY DEF TailOK, Untouched
  <2>1. PICK j \in 2..Len(batch[v]) : batch'[v][i] = batch[v][j]
    <3>1. CASE v = w
      <4>1. i + k \in 2..Len(batch[w]) /\ batch'[w][i] = batch[w][i + k]
        <5>1. Len(batch'[w]) = Len(batch[w]) - k /\ Len(batch[w]) \in Nat /\ k \in {0, 1}
          BY <1>1, <1>4
        <5>2. i \in Nat /\ 2 <= i /\ i <= Len(batch[w]) - k
          BY <3>1, <5>1
        <5>3. i + k \in 2..Len(batch[w]) /\ i \in 1..Len(batch'[w])
          BY <5>1, <5>2
        <5> QED
          BY <1>4, <5>3
      <4> QED
        BY <3>1, <4>1
    <3>2. CASE v # w
      BY <1>5, <3>2
    <3> QED
      BY <3>1, <3>2
  <2>2. Untouched(batch[v][j]) /\ batch[v][j] \in pending
    BY DEF StreamInv, TailOK
  <2>3. batch[v][j] # m /\ batch[v][j] \in Messages
    <3>1. 1 \in 1..Len(batch[w]) /\ j \in 1..Len(batch[v]) /\ j # 1
      BY <1>1, <1>6
    <3> QED
      BY <3>1, <1>1, <1>6, <1>7
  <2> QED
    BY <2>1, <2>2, <2>3 DEF Untouched, OnlyInHand
<1>12. ASSUME NEW v \in Workers, v # w
       PROVE  HeadOK(v)'
  <2>1. at'[v] = at[v] /\ batch'[v] = batch[v] /\ handler'[v] = handler[v]
        /\ failed'[v] = failed[v] /\ HeadOK(v)
    BY <1>5, <1>12 DEF StreamInv
  <2>2. CASE at[v] \in {"handle", "bury", "ack"}
    <3>1. /\ Head(batch[v]) = batch[v][1] /\ Head(batch[v]) \in Messages /\ 1 \in 1..Len(batch[v])
          /\ 1 \in 1..Len(batch[w])
      BY <2>2, <1>1, InItsHands
    <3>2. Head(batch[v]) # m
      BY <1>1, <1>7, <1>12, <3>1
    <3> DEFINE n == Head(batch[v])
    <3>3. /\ attempts'[n] = attempts[n] /\ (n \in pending' <=> n \in pending)
          /\ \A h \in Handlers :
               /\ <<n, h>> \in done' <=> <<n, h>> \in done
               /\ <<n, h>> \in dead \cup unwritten => <<n, h>> \in dead' \cup unwritten'
      BY <3>1, <3>2 DEF OnlyInHand
    <3> HIDE DEF n
    <3>4. Head(batch'[v]) = n
      BY <2>1 DEF n
    <3>5. AtWork(v) => AtWork(v)'
      BY <2>1, <3>3, <3>4 DEF AtWork, Through, GaveUp, n
    <3> QED
      BY <2>1, <3>3, <3>4, <3>5 DEF HeadOK, n
  <2>3. CASE at[v] \notin {"handle", "bury", "ack"}
    BY <2>1, <2>3 DEF HeadOK
  <2> QED
    BY <2>2, <2>3
<1>13. ASSUME NEW n \in (1..delivered') \ Malformed, n # m
       PROVE  AcknowledgedIsHandled(n)' /\ (n \in Settled' => SettledIsComplete(n)')
  <2>1. /\ n \in Messages /\ n \in (1..delivered) \ Malformed
    BY <1>1, <1>8
  <2>2. /\ attempts'[n] = attempts[n] /\ (n \in pending' <=> n \in pending)
        /\ \A h \in Handlers :
             /\ <<n, h>> \in done' <=> <<n, h>> \in done
             /\ <<n, h>> \in dead \cup unwritten => <<n, h>> \in dead' \cup unwritten'
    BY <1>13, <2>1 DEF OnlyInHand
  <2>3. AcknowledgedIsHandled(n) /\ (n \in Settled => SettledIsComplete(n))
    BY <2>1 DEF StreamInv, NothingHalfDone
  <2>4. AcknowledgedIsHandled(n)'
    <3>1. SUFFICES ASSUME n \notin pending', NEW h \in Handlers
                   PROVE  <<n, h>> \in done'
      BY DEF AcknowledgedIsHandled
    <3>2. <<n, h>> \in {n} \X Handlers
      OBVIOUS
    <3> QED
      BY <3>1, <3>2, <2>2, <2>3 DEF AcknowledgedIsHandled
  <2>5. ASSUME n \in Settled'
        PROVE  n \in Settled
    <3>1. SUFFICES ASSUME n \in Held
                   PROVE  n \in Held'
      BY <2>1, <2>5, <1>8 DEF Settled
    <3>2. PICK v \in Workers : \E i \in 1..Len(batch[v]) : n = batch[v][i]
      BY <3>1 DEF Held, Elements
    <3>3. PICK i \in 1..Len(batch[v]) : n = batch[v][i]
      BY <3>2
    <3>4. \E j \in 1..Len(batch'[v]) : n = batch'[v][j]
      <4>1. CASE v # w
        BY <4>1, <3>3, <1>5
      <4>2. CASE v = w
        <5>1. i # 1
          BY <4>2, <3>3, <1>1, <1>13
        <5>2. i - k \in 1..Len(batch'[w]) /\ (i - k) + k = i
          BY <5>1, <4>2, <1>1, <1>4
        <5> QED
          BY <5>2, <4>2, <3>3, <1>4
      <4> QED
        BY <4>1, <4>2
    <3> QED
      BY <3>4 DEF Held, Elements
  <2>6. SettledIsComplete(n) => SettledIsComplete(n)'
    BY <2>2 DEF SettledIsComplete, GaveUp
  <2> QED
    BY <2>3, <2>4, <2>5, <2>6
<1> QED
  BY <1>9, <1>10, <1>11, <1>12, <1>13

-----------------------------------------------------------------------------
(* A worker that is through with a message takes the next one of its batch, *)
(* which nobody has touched.                                               *)
LEMMA NextInTheBatch ==
  ASSUME StreamInv, NEW w \in Workers, at[w] \in {"handle", "bury", "ack"},
         Take(w, Tail(batch[w])), TypeOK',
         \A n \in Messages \ {Head(batch[w])} :
           /\ attempts'[n] = attempts[n] /\ (n \in pending' <=> n \in pending)
           /\ \A h \in Handlers : <<n, h>> \in done' <=> <<n, h>> \in done
  PROVE  /\ HeadOK(w)' /\ batch'[w] = Tail(batch[w])
         /\ at'[w] \in {"read", "handle", "ack"} /\ (at'[w] = "read" => batch'[w] = <<>>)
<1> DEFINE m == Head(batch[w])
<1>1. /\ batch[w] \in Seq(1..delivered) /\ batch[w] # <<>> /\ Len(batch[w]) \in Nat \ {0}
      /\ m = batch[w][1] /\ m \in 1..delivered /\ m \in Messages
      /\ 1..delivered \subseteq Messages /\ delivered \in Nat
  BY InItsHands
<1>2. /\ Tail(batch[w]) \in Seq(1..delivered) /\ Len(Tail(batch[w])) = Len(batch[w]) - 1
      /\ \A i \in 1..Len(Tail(batch[w])) : Tail(batch[w])[i] = batch[w][i + 1]
  BY <1>1, TailOfBatch
<1>3. /\ batch'[w] = Tail(batch[w]) /\ handler'[w] = 1 /\ failed'[w] = FALSE
      /\ at'[w] = IF Tail(batch[w]) = <<>> THEN "read"
                  ELSE IF Head(Tail(batch[w])) \in Malformed THEN "ack" ELSE "handle"
  BY DEF Take, StreamInv, TypeOK
<1>4. CASE Tail(batch[w]) = <<>>
  BY <1>3, <1>4 DEF HeadOK
<1>5. CASE Tail(batch[w]) # <<>>
  <2> PICK n : n = Head(Tail(batch[w]))
    OBVIOUS
  <2>1. n = Tail(batch[w])[1] /\ 1 \in 1..Len(Tail(batch[w])) /\ 2 \in 2..Len(batch[w])
    BY <1>1, <1>2, <1>5, TailOfBatch
  <2>2. n = batch[w][2] /\ 1 \in 1..Len(batch[w]) /\ 2 \in 1..Len(batch[w])
    BY <1>1, <1>2, <2>1
  <2>3. Untouched(n) /\ n \in pending
    BY <2>1, <2>2 DEF StreamInv, TailOK
  <2>4. n # m /\ n \in Messages
    <3>1. n \in 1..delivered
      BY <1>1, <2>2
    <3>2. n # m
      BY <1>1, <2>2 DEF StreamInv, OneHandEach
    <3> QED
      BY <3>1, <3>2, <1>1
  <2>5. Untouched(n)' /\ n \in pending'
    <3>1. \A h \in Handlers : attempts'[n][h] = 0 /\ <<n, h>> \notin done'
      BY <2>3, <2>4 DEF Untouched
    <3> QED
      BY <3>1, <2>3, <2>4 DEF Untouched
  <2>6. n = Head(batch'[w])
    BY <1>3
  <2>7. CASE n \in Malformed
    BY <1>3, <1>5, <2>6, <2>7 DEF HeadOK
  <2>8. CASE n \notin Malformed
    <3>1. at'[w] = "handle"
      BY <1>3, <1>5, <2>8
    <3>2. \A h \in Handlers : ~(h < 1) /\ 1 \in Handlers /\ 0 < MaxRetries
      BY NumbersAssumption DEF Handlers
    <3>3. 1 \in Handlers /\ 0 < MaxRetries
      BY NumbersAssumption DEF Handlers
    <3>4. \A h \in Handlers : attempts'[n][h] = 0 /\ <<n, h>> \notin done'
      BY <2>5 DEF Untouched
    <3>5. AtWork(w)' /\ attempts'[Head(batch'[w])][handler'[w]] < MaxRetries
      BY <1>3, <2>5, <2>6, <2>8, <3>2, <3>3, <3>4 DEF AtWork
    <3> QED
      BY <1>3, <3>1, <3>5 DEF HeadOK
  <2> QED
    BY <1>3, <1>5, <2>7, <2>8
<1> QED
  BY <1>4, <1>5

(* What follows a handler: the next one, the acknowledgement, or the next  *)
(* message while this one stays pending.                                   *)
LEMMA ProceedIsSound ==
  ASSUME StreamInv, NEW w \in Workers, at[w] \in {"handle", "bury"}, TypeOK',
         NEW m, m = Head(batch[w]), NEW k, k = handler[w],
         NEW g \in BOOLEAN, failed[w] => g, Proceed(w, g), AtWork(w),
         Through(m, k)',
         ~g => <<m, k>> \in done',
         \A h \in Handlers \ {k} :
           /\ attempts'[m][h] = attempts[m][h]
           /\ <<m, h>> \in done' <=> <<m, h>> \in done
           /\ <<m, h>> \in dead \cup unwritten
                => <<m, h>> \in dead' \cup unwritten',
         \A n \in Messages \ {m} :
           /\ attempts'[n] = attempts[n]
           /\ \A h \in Handlers :
                /\ <<n, h>> \in done' <=> <<n, h>> \in done
                /\ <<n, h>> \in dead \cup unwritten => <<n, h>> \in dead' \cup unwritten',
         pending' = pending, delivered' = delivered, dropped' = dropped
  PROVE  StreamInv'
<1>1. /\ batch[w] \in Seq(1..delivered) /\ batch[w] # <<>> /\ Len(batch[w]) \in Nat \ {0}
      /\ m = batch[w][1] /\ m \in 1..delivered /\ m \in Messages
      /\ 1..delivered \subseteq Messages /\ delivered \in Nat /\ handler[w] \in Handlers
      /\ failed[w] \in BOOLEAN
  BY InItsHands
<1>2. m \notin Malformed /\ m \in pending
  BY DEF AtWork
<1>3. ASSUME NEW h \in Handlers, h <= handler[w]
      PROVE  Through(m, h)' /\ (~g => <<m, h>> \in done')
  <2>1. CASE h = handler[w]
    BY <2>1
  <2>2. CASE h # handler[w]
    <3>1. h < handler[w]
      BY <1>3, <2>2, <1>1 DEF Handlers
    <3>2. Through(m, h) /\ (~failed[w] => <<m, h>> \in done)
      BY <3>1 DEF AtWork
    <3> QED
      BY <2>2, <3>2, <1>1 DEF Through, GaveUp
  <2> QED
    BY <2>1, <2>2
<1>4. ASSUME NEW h \in Handlers, h > handler[w]
      PROVE  <<m, h>> \notin done' /\ attempts'[m][h] = 0
  <2>1. h # handler[w] /\ h >= handler[w]
    BY <1>4, <1>1 DEF Handlers
  <2> QED
    BY <1>4, <2>1 DEF AtWork
<1>5. \A v \in Workers \ {w} : at'[v] = at[v] /\ batch'[v] = batch[v]
                               /\ handler'[v] = handler[v] /\ failed'[v] = failed[v]
  <2>1. /\ at \in [Workers -> {"read", "handle", "bury", "ack", "ended"}]
        /\ batch \in [Workers -> Seq(1..delivered)]
        /\ handler \in [Workers -> Handlers] /\ failed \in [Workers -> BOOLEAN]
    BY DEF StreamInv, TypeOK
  <2> QED
    BY <2>1 DEF Proceed, Take
<1>6. /\ HeadOK(w)' /\ batch'[w] \in {batch[w], Tail(batch[w])}
      /\ at'[w] \in {"read", "handle", "bury", "ack"} /\ (at'[w] = "read" => batch'[w] = <<>>)
      /\ batch'[w] = Tail(batch[w]) => handler[w] = NumHandlers \/ batch'[w] = batch[w]
  <2>1. CASE handler[w] < NumHandlers
    <3>1. /\ handler'[w] = handler[w] + 1 /\ failed'[w] = g /\ at'[w] = "handle"
          /\ batch' = batch
      BY <2>1 DEF Proceed, StreamInv, TypeOK
    <3>2. handler[w] + 1 \in Handlers /\ handler[w] + 1 > handler[w]
      BY <1>1, <2>1, NumbersAssumption DEF Handlers
    <3>3. \A h \in Handlers : /\ h < handler[w] + 1 => h <= handler[w]
                              /\ h >= handler[w] + 1 => h > handler[w]
                              /\ h > handler[w] + 1 => h > handler[w]
      BY <1>1 DEF Handlers
    <3>4. attempts'[m][handler[w] + 1] = 0 /\ 0 < MaxRetries
      <4>1. PICK j \in Handlers : j = handler[w] + 1
        BY <3>2
      <4>2. attempts'[m][j] = 0
        BY <1>4, <3>2, <4>1
      <4> QED
        BY <4>1, <4>2, NumbersAssumption
    <3>5. \A h \in Handlers :
            /\ h < handler[w] + 1 => Through(m, h)' /\ (~g => <<m, h>> \in done')
            /\ h >= handler[w] + 1 => <<m, h>> \notin done'
            /\ h > handler[w] + 1 => attempts'[m][h] = 0
      BY <1>3, <1>4, <3>3
    <3>6. AtWork(w)'
      BY <1>2, <3>1, <3>5 DEF AtWork
    <3> QED
      BY <3>1, <3>4, <3>6, <2>1, <1>1 DEF HeadOK, Handlers
  <2>2. CASE ~(handler[w] < NumHandlers)
    <3>1. handler[w] = NumHandlers
      BY <1>1, <2>2, NumbersAssumption DEF Handlers
    <3>2. CASE g
      <4>1. Take(w, Tail(batch[w]))
        BY <2>2, <3>2 DEF Proceed
      <4> QED
        BY <4>1, <3>1, NextInTheBatch
    <3>3. CASE ~g
      <4>1. at'[w] = "ack" /\ batch' = batch
        BY <2>2, <3>3 DEF Proceed, StreamInv, TypeOK
      <4>2. \A h \in Handlers : h <= handler[w]
        BY <3>1, NumbersAssumption DEF Handlers
      <4>3. \A h \in Handlers : <<m, h>> \in done'
        BY <4>2, <1>3, <3>3
      <4> QED
        BY <4>1, <4>3, <3>1 DEF HeadOK
    <3> QED
      BY <3>2, <3>3
  <2> QED
    BY <2>1, <2>2
<1>7. OnlyInHand(w)
  BY <1>5, <1>6 DEF OnlyInHand
<1>8. AcknowledgedIsHandled(m)' /\ (m \in Settled' => SettledIsComplete(m)')
  <2>1. m \in pending'
    BY <1>2
  <2>2. ASSUME m \in Settled'
        PROVE  SettledIsComplete(m)'
    <3>1. CASE batch'[w] = batch[w]
      <4>1. m \in Held'
        BY <1>1, <3>1 DEF Held, Elements
      <4> QED
        BY <4>1, <2>2 DEF Settled
    <3>2. CASE batch'[w] # batch[w]
      <4>1. handler[w] = NumHandlers
        BY <1>6, <3>2
      <4>2. \A h \in Handlers : h <= handler[w]
        BY <4>1, NumbersAssumption DEF Handlers
      <4>3. \A h \in Handlers : Through(m, h)'
        BY <4>2, <1>3
      <4> QED
        BY <4>3, <2>1 DEF SettledIsComplete, Through
    <3> QED
      BY <3>1, <3>2
  <2> QED
    BY <2>1, <2>2 DEF AcknowledgedIsHandled
<1> QED
  <2>1. /\ OneHandEach' /\ Fresh'
        /\ \A v \in Workers : TailOK(v)' /\ (v # w => HeadOK(v)')
        /\ \A n \in (1..delivered') \ Malformed :
              n # m => /\ AcknowledgedIsHandled(n)'
                       /\ n \in Settled' => SettledIsComplete(n)'
    BY <1>7, OthersAreKept
  <2>2. NothingHalfDone'
    BY <2>1, <1>8 DEF NothingHalfDone
  <2> QED
    BY <1>6, <2>1, <2>2 DEF StreamInv

-----------------------------------------------------------------------------
(* The handlers' steps.                                                    *)
LEMMA HandledKeeps ==
  ASSUME StreamInv, NEW w \in Workers, Handled(w), TypeOK'
  PROVE  StreamInv'
<1>1. PICK m, k : m = Head(batch[w]) /\ k = handler[w]
  OBVIOUS
<1>2. /\ at[w] = "handle" /\ AtWork(w) /\ attempts[m][k] < MaxRetries
      /\ m \in Messages /\ k \in Handlers /\ failed[w] \in BOOLEAN
  BY <1>1, InItsHands DEF Handled, StreamInv, HeadOK
<1>3. /\ done' = done \cup {<<m, k>>}
      /\ attempts' = [attempts EXCEPT ![m][k] = @ + 1]
      /\ Proceed(w, failed[w])
      /\ UNCHANGED <<pending, delivered, dead, dropped, unwritten>>
  BY <1>1 DEF Handled, InHand, Attempt
<1>4. \A n \in Messages, h \in Handlers :
        (n # m \/ h # k) => attempts'[n][h] = attempts[n][h]
                            /\ (<<n, h>> \in done' <=> <<n, h>> \in done)
  BY <1>2, <1>3 DEF StreamInv, TypeOK
<1>5. \A n \in Messages \ {m} : attempts'[n] = attempts[n]
  BY <1>2, <1>3 DEF StreamInv, TypeOK
<1>6. <<m, k>> \in done' /\ Through(m, k)'
  BY <1>3 DEF Through
<1>7. /\ \A h \in Handlers \ {k} :
           /\ attempts'[m][h] = attempts[m][h]
           /\ <<m, h>> \in done' <=> <<m, h>> \in done
           /\ <<m, h>> \in dead \cup unwritten => <<m, h>> \in dead' \cup unwritten'
      /\ \A n \in Messages \ {m} :
           /\ attempts'[n] = attempts[n]
           /\ \A h \in Handlers :
                /\ <<n, h>> \in done' <=> <<n, h>> \in done
                /\ <<n, h>> \in dead \cup unwritten => <<n, h>> \in dead' \cup unwritten'
  BY <1>2, <1>3, <1>4, <1>5
<1> QED
  <2>1. at[w] \in {"handle", "bury"} /\ AtWork(w) /\ Proceed(w, failed[w])
    BY <1>2, <1>3
  <2>2. pending' = pending /\ delivered' = delivered /\ dropped' = dropped
    BY <1>3

  <2>3. failed[w] \in BOOLEAN /\ m = Head(batch[w]) /\ k = handler[w]
    BY <1>1, <1>2
  <2> QED
    BY <1>6, <1>7, <2>1, <2>2, <2>3, ProceedIsSound

LEMMA BuryKeeps ==
  ASSUME StreamInv, NEW w \in Workers, Bury(w), TypeOK'
  PROVE  StreamInv'
<1>1. PICK m, k : m = Head(batch[w]) /\ k = handler[w]
  OBVIOUS
<1>2. /\ at[w] = "bury" /\ AtWork(w) /\ attempts[m][k] = MaxRetries
      /\ m \in Messages /\ k \in Handlers /\ failed[w] \in BOOLEAN
  BY <1>1, InItsHands DEF Bury, StreamInv, HeadOK
<1>3. /\ dead \subseteq dead' /\ unwritten \subseteq unwritten'
      /\ <<m, k>> \in dead' \cup unwritten' /\ Proceed(w, TRUE)
      /\ UNCHANGED <<pending, delivered, attempts, done, dropped>>
  BY <1>1 DEF Bury, InHand
<1>4. <<m, k>> \notin done
  <2>1. k >= handler[w]
    BY <1>1, <1>2 DEF Handlers
  <2> QED
    BY <1>1, <1>2, <2>1 DEF AtWork
<1>5. Through(m, k)'
  BY <1>2, <1>3, <1>4 DEF Through, GaveUp
<1>6. /\ \A h \in Handlers \ {k} :
           /\ attempts'[m][h] = attempts[m][h]
           /\ <<m, h>> \in done' <=> <<m, h>> \in done
           /\ <<m, h>> \in dead \cup unwritten => <<m, h>> \in dead' \cup unwritten'
      /\ \A n \in Messages \ {m} :
           /\ attempts'[n] = attempts[n]
           /\ \A h \in Handlers :
                /\ <<n, h>> \in done' <=> <<n, h>> \in done
                /\ <<n, h>> \in dead \cup unwritten => <<n, h>> \in dead' \cup unwritten'
  BY <1>3
<1> QED
  BY <1>1, <1>2, <1>3, <1>5, <1>6, ProceedIsSound

LEMMA HandlerRaisesKeeps ==
  ASSUME StreamInv, NEW w \in Workers, HandlerRaises(w), TypeOK'
  PROVE  StreamInv'
<1>1. PICK m, k : m = Head(batch[w]) /\ k = handler[w]
  OBVIOUS
<1>2. /\ at[w] = "handle" /\ AtWork(w) /\ attempts[m][k] < MaxRetries
      /\ m \in Messages /\ k \in Handlers /\ m \in 1..delivered
      /\ batch[w] # <<>> /\ m = batch[w][1] /\ Len(batch[w]) \in Nat \ {0}
  BY <1>1, InItsHands DEF HandlerRaises, StreamInv, HeadOK
<1>3. /\ attempts' = [attempts EXCEPT ![m][k] = @ + 1]
      /\ at' = [at EXCEPT ![w] = IF attempts'[m][k] < MaxRetries THEN "handle" ELSE "bury"]
      /\ UNCHANGED <<pending, delivered, batch, handler, failed, done, dead, dropped, unwritten>>
  BY <1>1 DEF HandlerRaises, Attempt
<1>4. attempts'[m][k] \in 0..MaxRetries
  BY <1>2 DEF TypeOK
<1>5. \A n \in Messages, h \in Handlers :
        (n # m \/ h # k) => attempts'[n][h] = attempts[n][h]
  BY <1>2, <1>3 DEF StreamInv, TypeOK
<1>6. \A n \in Messages \ {m} : attempts'[n] = attempts[n]
  BY <1>2, <1>3 DEF StreamInv, TypeOK
<1>7. /\ at'[w] = (IF attempts'[m][k] < MaxRetries THEN "handle" ELSE "bury")
      /\ \A v \in Workers \ {w} : at'[v] = at[v]
  BY <1>3 DEF StreamInv, TypeOK
<1>8. OnlyInHand(w)
  BY <1>1, <1>3, <1>6, <1>7 DEF OnlyInHand
<1>9. HeadOK(w)'
  <2>1. \A h \in Handlers \ {k} : attempts'[m][h] = attempts[m][h]
    BY <1>2, <1>5
  <2>2. Head(batch'[w]) = m /\ handler'[w] = k /\ failed'[w] = failed[w]
    BY <1>1, <1>3
  <2>3. /\ m \notin Malformed /\ m \in pending'
        /\ \A h \in Handlers :
             /\ h < k => Through(m, h) /\ (~failed[w] => <<m, h>> \in done)
             /\ h >= k => <<m, h>> \notin done
             /\ h > k => attempts[m][h] = 0
    BY <1>1, <1>2, <1>3 DEF AtWork
  <2>4. \A h \in Handlers : (h < k => h # k) /\ (h > k => h # k)
    BY <1>2 DEF Handlers
  <2>5. ASSUME NEW h \in Handlers
        PROVE  /\ h < k => Through(m, h)' /\ (~failed[w] => <<m, h>> \in done')
               /\ h >= k => <<m, h>> \notin done'
               /\ h > k => attempts'[m][h] = 0
    BY <1>3, <2>1, <2>3, <2>4 DEF Through, GaveUp
  <2>6. AtWork(w)'
    BY <2>2, <2>3, <2>5 DEF AtWork
  <2>7. attempts'[m][k] < MaxRetries \/ attempts'[m][k] = MaxRetries
    BY <1>4, NumbersAssumption
  <2> QED
    BY <1>7, <2>2, <2>6, <2>7 DEF HeadOK
<1>10. m \in pending' /\ m \in Held'
  <2>1. 1 \in 1..Len(batch'[w]) /\ batch'[w][1] = m
    BY <1>2, <1>3
  <2>2. m \in Held'
    BY <2>1 DEF Held, Elements
  <2> QED
    BY <1>1, <1>2, <1>3, <2>2 DEF AtWork
<1>11. AcknowledgedIsHandled(m)' /\ m \notin Settled'
  BY <1>10 DEF AcknowledgedIsHandled, Settled
<1> QED
  <2>1. /\ OneHandEach' /\ Fresh'
        /\ \A v \in Workers : TailOK(v)' /\ (v # w => HeadOK(v)')
        /\ \A n \in (1..delivered') \ Malformed :
              n # m => /\ AcknowledgedIsHandled(n)'
                       /\ n \in Settled' => SettledIsComplete(n)'
    BY <1>1, <1>2, <1>8, OthersAreKept
  <2>2. NothingHalfDone'
    BY <2>1, <1>11 DEF NothingHalfDone
  <2> QED
    BY <1>9, <2>1, <2>2 DEF StreamInv

LEMMA AckKeeps ==
  ASSUME StreamInv, NEW w \in Workers, Ack(w), TypeOK'
  PROVE  StreamInv'
<1>1. PICK m : m = Head(batch[w])
  OBVIOUS
<1>2. /\ at[w] = "ack" /\ m \in Messages /\ batch[w] # <<>>
      /\ m \in Malformed \/ \A h \in Handlers : <<m, h>> \in done
  BY <1>1, InItsHands DEF Ack, StreamInv, HeadOK
<1>3. /\ pending' \in {pending, pending \ {m}} /\ Take(w, Tail(batch[w]))
      /\ UNCHANGED <<delivered, attempts, done, dead, dropped, unwritten>>
  BY <1>1 DEF Ack
<1>4. \A n \in Messages \ {m} :
        /\ attempts'[n] = attempts[n] /\ (n \in pending' <=> n \in pending)
        /\ \A h \in Handlers :
             /\ <<n, h>> \in done' <=> <<n, h>> \in done
             /\ <<n, h>> \in dead \cup unwritten => <<n, h>> \in dead' \cup unwritten'
  BY <1>3
<1>5. /\ HeadOK(w)' /\ batch'[w] = Tail(batch[w])
      /\ at'[w] \in {"read", "handle", "ack"} /\ (at'[w] = "read" => batch'[w] = <<>>)
  BY <1>1, <1>2, <1>3, <1>4, NextInTheBatch
<1>6. \A v \in Workers \ {w} : at'[v] = at[v] /\ batch'[v] = batch[v]
                               /\ handler'[v] = handler[v] /\ failed'[v] = failed[v]
  BY <1>3 DEF Take, StreamInv, TypeOK
<1>7. OnlyInHand(w)
  BY <1>1, <1>3, <1>4, <1>5, <1>6 DEF OnlyInHand
<1>8. m \notin Malformed => AcknowledgedIsHandled(m)' /\ SettledIsComplete(m)'
  BY <1>2, <1>3 DEF AcknowledgedIsHandled, SettledIsComplete
<1> QED
  <2>1. /\ OneHandEach' /\ Fresh'
        /\ \A v \in Workers : TailOK(v)' /\ (v # w => HeadOK(v)')
        /\ \A n \in (1..delivered') \ Malformed :
              n # m => /\ AcknowledgedIsHandled(n)'
                       /\ n \in Settled' => SettledIsComplete(n)'
    BY <1>1, <1>2, <1>7, OthersAreKept
  <2>2. NothingHalfDone'
    BY <2>1, <1>8 DEF NothingHalfDone
  <2> QED
    BY <1>5, <2>1, <2>2 DEF StreamInv

-----------------------------------------------------------------------------
(* The steps of Redis, of the process and of the publishers.               *)
LEMMA ReadKeeps ==
  ASSUME StreamInv, NEW w \in Workers, Read(w), TypeOK'
  PROVE  StreamInv'
<1>1. PICK n : n = Len(NewMessages)
  OBVIOUS
<1>2. PICK s : s = NewMessages
  OBVIOUS
<1>3. /\ s \in Seq(1..(delivered + n)) /\ Len(s) = n /\ n \in Nat \ {0}
      /\ \A i \in 1..n : s[i] = delivered + i
      /\ Elements(s) = (delivered + 1)..(delivered + n)
      /\ delivered \in Nat /\ delivered + n <= published /\ published \in 0..MaxMessages
  <2>1. TypeOK /\ delivered < published
    BY DEF Read, StreamInv
  <2>2. delivered \in Nat /\ published \in 0..MaxMessages
    BY <2>1, NumbersAssumption DEF TypeOK
  <2> QED
    BY <1>1, <1>2, <2>1, <2>2, NewBatch
<1>4. /\ at[w] = "read" /\ delivered' = delivered + n /\ pending' = pending \cup Elements(s)
      /\ Take(w, s) /\ UNCHANGED <<attempts, done, dead, dropped, unwritten>>
  BY <1>1, <1>2 DEF Read
<1>5. s # <<>> /\ Head(s) = delivered + 1 /\ 1 \in 1..n /\ s[1] = delivered + 1
  BY <1>3
<1>6. /\ \A v \in Workers \ {w} : at'[v] = at[v] /\ batch'[v] = batch[v]
                                  /\ handler'[v] = handler[v] /\ failed'[v] = failed[v]
      /\ batch'[w] = s /\ handler'[w] = 1 /\ failed'[w] = FALSE
      /\ at'[w] = IF delivered + 1 \in Malformed THEN "ack" ELSE "handle"
  BY <1>4, <1>5 DEF Take, StreamInv, TypeOK
<1>7. batch[w] = <<>>
  BY <1>4 DEF StreamInv, OneHandEach
<1>8. \A m \in (delivered + 1)..(delivered + n) :
        /\ m \in Messages /\ m > delivered /\ Untouched(m) /\ m \notin dropped
        /\ m \in pending'
  BY <1>3, <1>4, NumbersAssumption DEF StreamInv, Fresh, Messages
<1>9. \A v \in Workers : \A i \in 1..Len(batch[v]) : batch[v][i] \in 1..delivered
  BY DEF StreamInv, TypeOK
<1>10. OneHandEach'
  <2>1. ASSUME NEW v \in Workers, NEW u \in Workers, NEW i \in 1..Len(batch'[v]),
               NEW j \in 1..Len(batch'[u]), batch'[v][i] = batch'[u][j]
        PROVE  v = u /\ i = j
    <3>1. CASE v # w /\ u # w
      BY <2>1, <3>1, <1>6 DEF StreamInv, OneHandEach
    <3>2. CASE v = w /\ u = w
      BY <2>1, <3>2, <1>3, <1>6
    <3>3. CASE v = w /\ u # w
      <4>1. batch'[v][i] = delivered + i /\ i \in 1..n /\ batch'[u][j] \in 1..delivered
        BY <3>3, <1>3, <1>6, <1>9
      <4> QED
        BY <2>1, <4>1, <1>3
    <3>4. CASE v # w /\ u = w
      <4>1. batch'[u][j] = delivered + j /\ j \in 1..n /\ batch'[v][i] \in 1..delivered
        BY <3>4, <1>3, <1>6, <1>9
      <4> QED
        BY <2>1, <4>1, <1>3
    <3> QED
      BY <3>1, <3>2, <3>3, <3>4
  <2>2. ASSUME NEW v \in Workers, NEW i \in 1..Len(batch'[v])
        PROVE  batch'[v][i] \notin dropped'
    <3>1. CASE v # w
      BY <3>1, <1>4, <1>6 DEF StreamInv, OneHandEach
    <3>2. CASE v = w
      <4>1. batch'[v][i] \in (delivered + 1)..(delivered + n)
        BY <3>2, <1>3, <1>6
      <4> QED
        BY <4>1, <1>4, <1>8
    <3> QED
      BY <3>1, <3>2
  <2>3. ASSUME NEW v \in Workers, at'[v] \in {"read", "ended"}
        PROVE  batch'[v] = <<>>
    BY <2>3, <1>6 DEF StreamInv, OneHandEach
  <2> QED
    BY <2>1, <2>2, <2>3 DEF OneHandEach
<1>11. Fresh'
  <2>1. dropped' \subseteq 1..delivered'
    BY <1>3, <1>4 DEF StreamInv, Fresh
  <2>2. ASSUME NEW m \in Messages, m > delivered'
        PROVE  Untouched(m)'
    <3>1. m > delivered
      BY <2>2, <1>3, <1>4 DEF Messages
    <3> QED
      BY <3>1, <1>4 DEF StreamInv, Fresh, Untouched
  <2> QED
    BY <2>1, <2>2 DEF Fresh
<1>12. ASSUME NEW v \in Workers
       PROVE  TailOK(v)' /\ HeadOK(v)'
  <2>1. CASE v # w
    <3>1. TailOK(v) /\ HeadOK(v) /\ pending \subseteq pending'
      BY <1>4 DEF StreamInv
    <3>2. TailOK(v)'
      BY <2>1, <3>1, <1>4, <1>6 DEF TailOK, Untouched
    <3>3. AtWork(v) => AtWork(v)'
      BY <2>1, <3>1, <1>4, <1>6 DEF AtWork, Through, GaveUp
    <3>4. HeadOK(v)'
      BY <2>1, <3>1, <3>3, <1>4, <1>6 DEF HeadOK
    <3> QED
      BY <3>2, <3>4
  <2>2. CASE v = w
    <3>1. ASSUME NEW i \in 1..n
          PROVE  /\ \A h \in Handlers : attempts'[s[i]][h] = 0 /\ <<s[i], h>> \notin done'
                 /\ s[i] \in pending'
      BY <1>3, <1>4, <1>8 DEF Untouched
    <3>2. \A i \in 2..n : i \in 1..n
      BY <1>3
    <3>3. TailOK(v)'
      <4>1. \A i \in 2..Len(batch'[v]) : i \in 1..n /\ batch'[v][i] = s[i]
        BY <2>2, <3>2, <1>3, <1>6
      <4> QED
        BY <3>1, <4>1 DEF TailOK, Untouched
    <3>4. PICK m : m = delivered + 1
      OBVIOUS
    <3>5. /\ Head(batch'[w]) = m /\ m \in pending'
          /\ \A h \in Handlers : attempts'[m][h] = 0 /\ <<m, h>> \notin done'
      BY <3>1, <3>4, <1>5, <1>6
    <3>6. 1 \in Handlers /\ 0 < MaxRetries /\ \A h \in Handlers : ~(h < 1)
      BY NumbersAssumption DEF Handlers
    <3>7. m \notin Malformed => AtWork(w)' /\ attempts'[m][1] < MaxRetries
      BY <3>5, <3>6, <1>6 DEF AtWork
    <3> QED
      BY <2>2, <3>3, <3>4, <3>5, <3>7, <1>6 DEF HeadOK
  <2> QED
    BY <2>1, <2>2
<1>13. ASSUME NEW m \in (1..delivered') \ Malformed
       PROVE  AcknowledgedIsHandled(m)' /\ (m \in Settled' => SettledIsComplete(m)')
  <2>1. CASE m > delivered
    <3>1. m \in (delivered + 1)..(delivered + n) /\ m - delivered \in 1..n
          /\ s[m - delivered] = m
      BY <2>1, <1>3, <1>4
    <3>2. m \in pending' /\ m \in Held'
      BY <3>1, <1>3, <1>6, <1>8 DEF Held, Elements
    <3> QED
      BY <3>2 DEF AcknowledgedIsHandled, Settled
  <2>2. CASE ~(m > delivered)
    <3>1. m \in (1..delivered) \ Malformed /\ m \notin Elements(s)
      BY <2>2, <1>3, <1>4
    <3>2. AcknowledgedIsHandled(m) /\ (m \in Settled => SettledIsComplete(m))
      BY <3>1 DEF StreamInv, NothingHalfDone
    <3>3. AcknowledgedIsHandled(m)'
      BY <3>1, <3>2, <1>4 DEF AcknowledgedIsHandled
    <3>4. m \in Held => m \in Held'
      BY <1>6, <1>7 DEF Held, Elements
    <3>5. m \in Settled' => m \in Settled
      BY <3>1, <3>4, <1>4 DEF Settled
    <3>6. SettledIsComplete(m) => SettledIsComplete(m)'
      BY <1>4 DEF SettledIsComplete, GaveUp
    <3> QED
      BY <3>2, <3>3, <3>5, <3>6
  <2> QED
    BY <2>1, <2>2
<1> QED
  BY <1>10, <1>11, <1>12, <1>13 DEF StreamInv, NothingHalfDone

(* Batches that are given up are dropped: a failed read, a worker's end, a *)
(* stop or a crash of the process.                                         *)
LEMMA DroppingKeeps ==
  ASSUME StreamInv, TypeOK', delivered' >= delivered,
         UNCHANGED <<attempts, done, dead, unwritten>>,
         NEW new, new = (delivered + 1)..delivered', pending' = pending \cup new,
         NEW gone \in SUBSET Workers,
         \A w \in gone : batch'[w] = <<>> /\ at'[w] \in {"read", "ended"},
         \A w \in Workers \ gone : /\ at'[w] = at[w] /\ batch'[w] = batch[w]
                                   /\ handler'[w] = handler[w] /\ failed'[w] = failed[w],
         dropped' = dropped \cup new \cup UNION {Elements(batch[w]) : w \in gone}
  PROVE  StreamInv'
<1>1. delivered \in Nat /\ delivered' \in Nat
  BY NumbersAssumption DEF StreamInv, TypeOK
<1>2. \A v \in Workers : \A i \in 1..Len(batch[v]) : batch[v][i] \in 1..delivered
  BY DEF StreamInv, TypeOK
<1>3. \A v \in Workers : v \notin gone \/ (batch'[v] = <<>> /\ Len(batch'[v]) = 0)
  OBVIOUS
<1>4. OneHandEach'
  <2>1. ASSUME NEW v \in Workers, NEW i \in 1..Len(batch'[v])
        PROVE  v \notin gone /\ i \in 1..Len(batch[v]) /\ batch'[v][i] = batch[v][i]
    BY <1>3
  <2>2. ASSUME NEW v \in Workers, NEW u \in Workers, NEW i \in 1..Len(batch'[v]),
               NEW j \in 1..Len(batch'[u]), batch'[v][i] = batch'[u][j]
        PROVE  v = u /\ i = j
    BY <2>1, <2>2 DEF StreamInv, OneHandEach
  <2>3. ASSUME NEW v \in Workers, NEW i \in 1..Len(batch'[v])
        PROVE  batch'[v][i] \notin dropped'
    <3>1. v \notin gone /\ i \in 1..Len(batch[v]) /\ batch'[v][i] = batch[v][i]
      BY <2>1
    <3>2. batch[v][i] \notin dropped /\ batch[v][i] \in 1..delivered
      BY <3>1, <1>2 DEF StreamInv, OneHandEach
    <3>3. batch[v][i] \notin new
      BY <3>2, <1>1
    <3>4. ASSUME NEW u \in gone
          PROVE  batch[v][i] \notin Elements(batch[u])
      BY <3>1 DEF StreamInv, OneHandEach, Elements
    <3> QED
      BY <3>1, <3>2, <3>3, <3>4
  <2>4. ASSUME NEW v \in Workers, at'[v] \in {"read", "ended"}
        PROVE  batch'[v] = <<>>
    BY <2>4 DEF StreamInv, OneHandEach
  <2> QED
    BY <2>2, <2>3, <2>4 DEF OneHandEach
<1>5. Fresh'
  <2>1. \A w \in gone : Elements(batch[w]) \subseteq 1..delivered
    BY <1>2 DEF Elements
  <2>2. dropped \subseteq 1..delivered /\ 1..delivered \subseteq 1..delivered'
        /\ new \subseteq 1..delivered'
    BY <1>1 DEF StreamInv, Fresh
  <2>3. dropped' \subseteq 1..delivered'
    <3>1. ASSUME NEW m \in UNION {Elements(batch[w]) : w \in gone}
          PROVE  m \in 1..delivered'
      BY <2>1, <2>2
    <3> QED
      BY <2>2, <3>1
  <2>4. ASSUME NEW m \in Messages, m > delivered'
        PROVE  Untouched(m)'
    <3>1. m > delivered
      BY <2>4, <1>1 DEF Messages
    <3> QED
      BY <3>1 DEF StreamInv, Fresh, Untouched
  <2> QED
    BY <2>3, <2>4 DEF Fresh
<1>6. ASSUME NEW v \in Workers
      PROVE  TailOK(v)' /\ HeadOK(v)'
  <2>1. CASE v \in gone
    <3>1. Len(batch'[v]) = 0
      BY <2>1, <1>3
    <3> QED
      BY <2>1, <3>1 DEF TailOK, HeadOK
  <2>2. CASE v \notin gone
    <3>1. TailOK(v) /\ HeadOK(v) /\ pending \subseteq pending'
      BY DEF StreamInv
    <3>2. TailOK(v)'
      BY <2>2, <3>1 DEF TailOK, Untouched
    <3>3. AtWork(v) => AtWork(v)'
      BY <2>2, <3>1 DEF AtWork, Through, GaveUp
    <3> QED
      BY <2>2, <3>1, <3>2, <3>3 DEF HeadOK
  <2> QED
    BY <2>1, <2>2
<1>7. ASSUME NEW m \in (1..delivered') \ Malformed
      PROVE  AcknowledgedIsHandled(m)' /\ (m \in Settled' => SettledIsComplete(m)')
  <2>1. CASE m \in new
    BY <2>1 DEF AcknowledgedIsHandled, Settled
  <2>2. CASE m \notin new
    <3>1. m \in (1..delivered) \ Malformed
      BY <2>2, <1>1
    <3>2. AcknowledgedIsHandled(m) /\ (m \in Settled => SettledIsComplete(m))
      BY <3>1 DEF StreamInv, NothingHalfDone
    <3>3. AcknowledgedIsHandled(m)'
      BY <2>2, <3>2 DEF AcknowledgedIsHandled
    <3>4. m \in Held => m \in Held' \cup dropped'
      <4>1. SUFFICES ASSUME NEW v \in Workers, m \in Elements(batch[v])
                     PROVE  m \in Held' \cup dropped'
        BY DEF Held
      <4>2. CASE v \in gone
        BY <4>1, <4>2
      <4>3. CASE v \notin gone
        BY <4>1, <4>3 DEF Held, Elements
      <4> QED
        BY <4>2, <4>3
    <3>5. m \in Settled' => m \in Settled
      BY <3>1, <3>4 DEF Settled
    <3>6. SettledIsComplete(m) => SettledIsComplete(m)'
      BY <2>2 DEF SettledIsComplete, GaveUp
    <3> QED
      BY <3>2, <3>3, <3>5, <3>6
  <2> QED
    BY <2>1, <2>2
<1> QED
  BY <1>4, <1>5, <1>6, <1>7 DEF StreamInv, NothingHalfDone

-----------------------------------------------------------------------------
(* Types.                                                                  *)
LEMMA TakeTypes ==
  ASSUME TypeOK, NEW w \in Workers, NEW d \in Nat, delivered <= d,
         NEW messages \in Seq(1..d), Take(w, messages)
  PROVE  /\ batch' \in [Workers -> Seq(1..d)]
         /\ at' \in [Workers -> {"read", "handle", "bury", "ack", "ended"}]
         /\ \A v \in Workers : at'[v] \in {"handle", "bury", "ack"} => batch'[v] # <<>>
         /\ handler' \in [Workers -> Handlers] /\ failed' \in [Workers -> BOOLEAN]
<1>1. 1 \in Handlers /\ delivered \in Nat
  BY NumbersAssumption DEF Handlers, TypeOK
<1>2. \A v \in Workers : batch[v] \in Seq(1..d)
  BY <1>1, LongerStream DEF TypeOK
<1>3. batch' \in [Workers -> Seq(1..d)]
  BY <1>2 DEF Take, TypeOK
<1>4. \A v \in Workers : at'[v] \in {"handle", "bury", "ack"} => batch'[v] # <<>>
  BY DEF Take, TypeOK
<1> QED
  BY <1>1, <1>3, <1>4 DEF Take, TypeOK

LEMMA ProceedTypes ==
  ASSUME TypeOK, NEW w \in Workers, at[w] \in {"handle", "bury"}, NEW g \in BOOLEAN,
         Proceed(w, g)
  PROVE  /\ batch' \in [Workers -> Seq(1..delivered)]
         /\ at' \in [Workers -> {"read", "handle", "bury", "ack", "ended"}]
         /\ \A v \in Workers : at'[v] \in {"handle", "bury", "ack"} => batch'[v] # <<>>
         /\ handler' \in [Workers -> Handlers] /\ failed' \in [Workers -> BOOLEAN]
<1>1. delivered \in Nat /\ batch[w] \in Seq(1..delivered) /\ batch[w] # <<>>
  BY NumbersAssumption DEF TypeOK
<1>2. CASE handler[w] < NumHandlers
  <2>1. handler[w] + 1 \in Handlers
    BY <1>2, NumbersAssumption DEF Handlers, TypeOK
  <2> QED
    BY <1>1, <1>2, <2>1 DEF Proceed, TypeOK
<1>3. CASE ~(handler[w] < NumHandlers) /\ g
  <2>1. Take(w, Tail(batch[w])) /\ Tail(batch[w]) \in Seq(1..delivered)
    BY <1>1, <1>3, TailOfBatch DEF Proceed
  <2> QED
    BY <1>1, <2>1, TakeTypes
<1>4. CASE ~(handler[w] < NumHandlers) /\ ~g
  BY <1>1, <1>4 DEF Proceed, TypeOK
<1> QED
  BY <1>2, <1>3, <1>4

LEMMA AttemptTypes ==
  ASSUME StreamInv, NEW w \in Workers, at[w] = "handle", Attempt(w)
  PROVE  /\ attempts' \in [Messages -> [Handlers -> 0..MaxRetries]]
         /\ InHand(w) \in Messages \X Handlers
<1>1. Head(batch[w]) \in Messages /\ handler[w] \in Handlers
  BY InItsHands
<1>2. attempts[Head(batch[w])][handler[w]] < MaxRetries
  BY DEF StreamInv, HeadOK
<1>3. attempts[Head(batch[w])][handler[w]] + 1 \in 0..MaxRetries
  BY <1>1, <1>2, NumbersAssumption DEF StreamInv, TypeOK
<1>4. attempts \in [Messages -> [Handlers -> 0..MaxRetries]]
  BY DEF StreamInv, TypeOK
<1> QED
  BY <1>1, <1>3, <1>4 DEF Attempt, InHand

LEMMA TypesAreKept ==
  ASSUME StreamInv, [Next]_vars
  PROVE  TypeOK'
<1> USE NumbersAssumption
<1>0. /\ TypeOK /\ delivered \in Nat /\ published \in Nat
      /\ \A w \in Workers : Elements(batch[w]) \subseteq 1..delivered
      /\ 1..delivered \subseteq Messages
  <2>1. /\ TypeOK /\ published \in 0..MaxMessages /\ delivered \in 0..published
        /\ \A w \in Workers : batch[w] \in Seq(1..delivered)
    BY DEF StreamInv, TypeOK
  <2>2. \A w \in Workers : Elements(batch[w]) \subseteq 1..delivered
    BY <2>1 DEF Elements
  <2>3. delivered \in Nat /\ published \in Nat /\ 1..delivered \subseteq Messages
    BY <2>1 DEF Messages
  <2> QED
    BY <2>1, <2>2, <2>3
<1>1. CASE Publish
  <2>1. delivered \in 0..published' /\ published' \in 0..MaxMessages
    BY <1>0, <1>1 DEF Publish, TypeOK
  <2> QED
    BY <1>0, <1>1, <2>1 DEF Publish, TypeOK
<1>2. CASE Stop
  BY <1>0, <1>2 DEF Stop, Fault, TypeOK
<1>3. CASE Restart
  <2>1. 1 \in Handlers /\ <<>> \in Seq(1..delivered)
    BY DEF Handlers
  <2>2. faults' \in 0..MaxFaults
    BY <1>0, <1>3 DEF Restart, Fault, TypeOK
  <2>3. dropped' \subseteq Messages
    BY <1>0, <1>3 DEF Restart, TypeOK
  <2>4. /\ at' \in [Workers -> {"read", "handle", "bury", "ack", "ended"}]
        /\ batch' \in [Workers -> Seq(1..delivered)] /\ handler' \in [Workers -> Handlers]
        /\ failed' \in [Workers -> BOOLEAN] /\ stopping' \in BOOLEAN
        /\ \A w \in Workers : at'[w] = "read"
    BY <2>1, <1>3 DEF Restart
  <2> QED
    BY <1>0, <1>3, <2>2, <2>3, <2>4 DEF Restart, TypeOK
<1>4. ASSUME NEW w \in Workers, Read(w)
      PROVE  TypeOK'
  <2>1. /\ NewMessages \in Seq(1..delivered') /\ delivered' \in 0..published
        /\ Elements(NewMessages) \subseteq 1..delivered' /\ delivered <= delivered'
        /\ delivered' \in Nat
    BY <1>0, <1>4, NewBatch DEF Read
  <2>2. /\ batch' \in [Workers -> Seq(1..delivered')]
        /\ at' \in [Workers -> {"read", "handle", "bury", "ack", "ended"}]
        /\ \A v \in Workers : at'[v] \in {"handle", "bury", "ack"} => batch'[v] # <<>>
        /\ handler' \in [Workers -> Handlers] /\ failed' \in [Workers -> BOOLEAN]
    BY <1>0, <1>4, <2>1, TakeTypes DEF Read
  <2>3. pending' \subseteq 1..delivered'
    <3>1. 1..delivered \subseteq 1..delivered'
      BY <1>0, <2>1
    <3> QED
      BY <1>0, <1>4, <2>1, <3>1, Zenon DEF Read, TypeOK
  <2> QED
    BY <1>0, <1>4, <2>1, <2>2, <2>3 DEF Read, TypeOK
<1>5. ASSUME NEW w \in Workers, ReadFails(w)
      PROVE  TypeOK'
  <2>1. /\ delivered' \in 0..published /\ delivered <= delivered' /\ delivered' \in Nat
        /\ Elements(NewMessages) \subseteq 1..delivered'
    BY <1>0, <1>5, NewBatch DEF ReadFails
  <2>2. \A v \in Workers : batch[v] \in Seq(1..delivered')
    BY <1>0, <2>1, LongerStream DEF TypeOK
  <2>3. pending' \subseteq 1..delivered' /\ dropped' \subseteq Messages
        /\ faults' \in 0..MaxFaults
    <3>0. 1..delivered \subseteq 1..delivered'
      BY <1>0, <2>1
    <3>1. pending' \subseteq 1..delivered'
      BY <1>0, <1>5, <2>1, <3>0, Zenon DEF ReadFails, TypeOK
    <3>2. 1..delivered' \subseteq Messages
      BY <1>0, <2>1 DEF Messages, TypeOK
    <3> QED
      BY <1>0, <1>5, <2>1, <3>1, <3>2 DEF ReadFails, Fault, TypeOK
  <2> QED
    BY <1>0, <1>5, <2>1, <2>2, <2>3 DEF ReadFails, TypeOK
<1>6. ASSUME NEW w \in Workers, Handled(w)
      PROVE  TypeOK'
  <2>1. attempts' \in [Messages -> [Handlers -> 0..MaxRetries]]
        /\ InHand(w) \in Messages \X Handlers
    BY <1>6, AttemptTypes DEF Handled
  <2>2. /\ batch' \in [Workers -> Seq(1..delivered)]
        /\ at' \in [Workers -> {"read", "handle", "bury", "ack", "ended"}]
        /\ \A v \in Workers : at'[v] \in {"handle", "bury", "ack"} => batch'[v] # <<>>
        /\ handler' \in [Workers -> Handlers] /\ failed' \in [Workers -> BOOLEAN]
    BY <1>0, <1>6, ProceedTypes DEF Handled, TypeOK
  <2> QED
    BY <1>0, <1>6, <2>1, <2>2 DEF Handled, TypeOK
<1>7. ASSUME NEW w \in Workers, HandlerRaises(w)
      PROVE  TypeOK'
  <2>1. attempts' \in [Messages -> [Handlers -> 0..MaxRetries]]
    BY <1>7, AttemptTypes DEF HandlerRaises
  <2>2. /\ at' \in [Workers -> {"read", "handle", "bury", "ack", "ended"}]
        /\ \A v \in Workers : at'[v] \in {"handle", "bury", "ack"} => batch[v] # <<>>
    BY <1>0, <1>7 DEF HandlerRaises, TypeOK
  <2> QED
    BY <1>0, <1>7, <2>1, <2>2 DEF HandlerRaises, TypeOK
<1>8. ASSUME NEW w \in Workers, Bury(w)
      PROVE  TypeOK'
  <2>1. InHand(w) \in Messages \X Handlers
    BY <1>8, InItsHands DEF Bury, InHand
  <2>2. /\ batch' \in [Workers -> Seq(1..delivered)]
        /\ at' \in [Workers -> {"read", "handle", "bury", "ack", "ended"}]
        /\ \A v \in Workers : at'[v] \in {"handle", "bury", "ack"} => batch'[v] # <<>>
        /\ handler' \in [Workers -> Handlers] /\ failed' \in [Workers -> BOOLEAN]
    BY <1>0, <1>8, ProceedTypes DEF Bury
  <2>3. /\ dead' \subseteq Messages \X Handlers /\ unwritten' \subseteq Messages \X Handlers
        /\ faults' \in 0..MaxFaults
    <3>1. faults' \in 0..MaxFaults
      BY <1>0, <1>8 DEF Bury, Fault, TypeOK
    <3>2. /\ dead' \subseteq dead \cup {InHand(w)}
          /\ unwritten' \subseteq unwritten \cup {InHand(w)}
      BY <1>8 DEF Bury
    <3> QED
      BY <1>0, <2>1, <3>1, <3>2, Zenon DEF TypeOK
  <2> QED
    BY <1>0, <1>8, <2>2, <2>3 DEF Bury, TypeOK
<1>9. ASSUME NEW w \in Workers, Ack(w)
      PROVE  TypeOK'
  <2>1. Tail(batch[w]) \in Seq(1..delivered)
    BY <1>0, <1>9, TailOfBatch DEF Ack, TypeOK
  <2>2. /\ batch' \in [Workers -> Seq(1..delivered)]
        /\ at' \in [Workers -> {"read", "handle", "bury", "ack", "ended"}]
        /\ \A v \in Workers : at'[v] \in {"handle", "bury", "ack"} => batch'[v] # <<>>
        /\ handler' \in [Workers -> Handlers] /\ failed' \in [Workers -> BOOLEAN]
    BY <1>0, <1>9, <2>1, TakeTypes DEF Ack
  <2>3. pending' \subseteq 1..delivered /\ faults' \in 0..MaxFaults
    <3>1. faults' \in 0..MaxFaults
      BY <1>0, <1>9 DEF Ack, Fault, TypeOK
    <3>2. pending' \subseteq pending
      BY <1>9 DEF Ack
    <3> QED
      BY <1>0, <3>1, <3>2, Zenon DEF TypeOK
  <2> QED
    BY <1>0, <1>9, <2>2, <2>3 DEF Ack, TypeOK
<1>10. ASSUME NEW w \in Workers, End(w)
       PROVE  TypeOK'
  <2>1. <<>> \in Seq(1..delivered)
    OBVIOUS
  <2>2. dropped' \subseteq Messages
    BY <1>0, <1>10 DEF End, TypeOK
  <2>3. /\ at' \in [Workers -> {"read", "handle", "bury", "ack", "ended"}]
        /\ batch' \in [Workers -> Seq(1..delivered)]
        /\ \A v \in Workers : at'[v] \in {"handle", "bury", "ack"} => batch'[v] # <<>>
    BY <1>0, <1>10, <2>1 DEF End, TypeOK
  <2> QED
    BY <1>0, <1>10, <2>2, <2>3 DEF End, TypeOK
<1>11. CASE UNCHANGED vars
  BY <1>0, <1>11 DEF vars, TypeOK
<1> QED
  BY <1>1, <1>2, <1>3, <1>4, <1>5, <1>6, <1>7, <1>8, <1>9, <1>10, <1>11
     DEF Next, ReadNothing, ExitLoop, Cancel

-----------------------------------------------------------------------------
LEMMA StreamInvInit ==
  ASSUME Init
  PROVE  StreamInv
<1>1. 1 \in Handlers /\ 0 \in 0..MaxRetries /\ <<>> \in Seq(1..0) /\ Len(<<>>) = 0
  BY NumbersAssumption DEF Handlers
<1>2. TypeOK
  <2>1. /\ attempts \in [Messages -> [Handlers -> 0..MaxRetries]]
        /\ handler \in [Workers -> Handlers] /\ failed \in [Workers -> BOOLEAN]
        /\ at \in [Workers -> {"read"}]
    BY <1>1 DEF Init
  <2>2. delivered = 0 /\ batch \in [Workers -> Seq(1..delivered)]
    BY <1>1 DEF Init
  <2>3. \A w \in Workers : at[w] = "read"
    BY DEF Init
  <2>4. /\ published \in 0..MaxMessages /\ delivered \in 0..published /\ faults \in 0..MaxFaults
        /\ pending \subseteq 1..delivered
    BY NumbersAssumption DEF Init
  <2> QED
    BY <2>1, <2>2, <2>3, <2>4 DEF Init, TypeOK
<1>3. OneHandEach
  BY <1>1 DEF Init, OneHandEach
<1>4. Fresh
  BY DEF Init, Fresh, Untouched
<1>5. NothingHalfDone
  BY DEF Init, NothingHalfDone
<1>6. \A w \in Workers : TailOK(w) /\ HeadOK(w)
  BY <1>1 DEF Init, TailOK, HeadOK
<1> QED
  BY <1>2, <1>3, <1>4, <1>5, <1>6 DEF StreamInv

LEMMA StreamInvNext ==
  ASSUME StreamInv, [Next]_vars
  PROVE  StreamInv'
<1>0. TypeOK'
  BY TypesAreKept
<1>1. ASSUME UNCHANGED <<delivered, pending, at, batch, handler, failed, attempts, done, dead,
                         dropped, unwritten>>
      PROVE  StreamInv'
  BY <1>0, <1>1 DEF StreamInv, OneHandEach, Fresh, Untouched, NothingHalfDone,
     AcknowledgedIsHandled, SettledIsComplete, Settled, Held, GaveUp, TailOK, HeadOK, AtWork,
     Through
<1>2. delivered \in Nat
  BY NumbersAssumption DEF StreamInv, TypeOK
<1>3. CASE Restart
  <2>1. PICK new : new = (delivered + 1)..delivered'
    OBVIOUS
  <2>2. PICK gone \in SUBSET Workers : gone = Workers
    OBVIOUS
  <2>3. delivered' = delivered /\ delivered' >= delivered /\ new = {}
    BY <1>2, <1>3, <2>1 DEF Restart
  <2>4. /\ UNCHANGED <<attempts, done, dead, unwritten>> /\ pending' = pending \cup new
        /\ \A w \in gone : batch'[w] = <<>> /\ at'[w] \in {"read", "ended"}
        /\ dropped' = dropped \cup new \cup UNION {Elements(batch[w]) : w \in gone}
    BY <1>3, <2>2, <2>3 DEF Restart
  <2> QED
    BY <1>0, <2>1, <2>2, <2>3, <2>4, DroppingKeeps
<1>4. ASSUME NEW w \in Workers, ReadFails(w)
      PROVE  StreamInv'
  <2>1. PICK new : new = Elements(NewMessages)
    OBVIOUS
  <2>2. PICK gone \in SUBSET Workers : gone = {}
    OBVIOUS
  <2>3. new = (delivered + 1)..delivered' /\ delivered' >= delivered
    BY <1>2, <1>4, <2>1, NewBatch DEF ReadFails, StreamInv
  <2>4. /\ UNCHANGED <<at, batch, handler, failed, attempts, done, dead, unwritten>>
        /\ pending' = pending \cup new
        /\ dropped' = dropped \cup new \cup UNION {Elements(batch[v]) : v \in gone}
    BY <1>4, <2>1, <2>2 DEF ReadFails
  <2> QED
    BY <1>0, <2>2, <2>3, <2>4, DroppingKeeps
<1>5. ASSUME NEW w \in Workers, End(w)
      PROVE  StreamInv'
  <2>1. PICK new : new = (delivered + 1)..delivered'
    OBVIOUS
  <2>2. PICK gone \in SUBSET Workers : gone = {w}
    OBVIOUS
  <2>3. delivered' = delivered /\ delivered' >= delivered /\ new = {}
    BY <1>2, <1>5, <2>1 DEF End
  <2>4. /\ \A v \in gone : batch'[v] = <<>> /\ at'[v] \in {"read", "ended"}
        /\ \A v \in Workers \ gone : /\ at'[v] = at[v] /\ batch'[v] = batch[v]
                                     /\ handler'[v] = handler[v] /\ failed'[v] = failed[v]
    BY <1>5, <2>2 DEF End, StreamInv, TypeOK
  <2>5. /\ UNCHANGED <<attempts, done, dead, unwritten>> /\ pending' = pending \cup new
        /\ dropped' = dropped \cup new \cup UNION {Elements(batch[v]) : v \in gone}
    BY <1>5, <2>2, <2>3 DEF End
  <2> QED
    BY <1>0, <2>1, <2>2, <2>3, <2>4, <2>5, DroppingKeeps
<1> QED
  BY <1>0, <1>1, <1>3, <1>4, <1>5, ReadKeeps, HandledKeeps, HandlerRaisesKeeps, BuryKeeps,
     AckKeeps DEF Next, Publish, Stop, ReadNothing, ExitLoop, Cancel, vars

(* The state of the bus is well formed, whatever Redis, the handlers and   *)
(* the process manager do.                                                 *)
THEOREM StreamTypeCorrect == Spec => []TypeOK
<1>1. StreamInv => TypeOK
  BY DEF StreamInv
<1> QED
  BY <1>1, StreamInvInit, StreamInvNext, PTL DEF Spec

(* Nothing is half done: a message is acknowledged only after every handler *)
(* returned, and one that no worker has any more was brought to an end with *)
(* each handler, unless its worker ended or never received it.             *)
THEOREM StreamIsComplete == Spec => []NothingHalfDone
<1>1. StreamInv => NothingHalfDone
  BY DEF StreamInv
<1> QED
  BY <1>1, StreamInvInit, StreamInvNext, PTL DEF Spec

(* A handler that returned is never called again for the same message.     *)
THEOREM NoSecondCall == Spec => HandledOnce
<1> DEFINE Step2 == \A m \in Messages, h \in Handlers :
                      <<m, h>> \in done => attempts'[m][h] = attempts[m][h]
<1>1. ASSUME StreamInv, [Next]_vars
      PROVE  [Step2]_vars
  <2>1. ASSUME NEW w \in Workers, at[w] = "handle", Attempt(w)
        PROVE  Step2
    <3>1. /\ Head(batch[w]) \in Messages /\ handler[w] \in Handlers
          /\ <<Head(batch[w]), handler[w]>> \notin done
      <4>1. Head(batch[w]) \in Messages /\ handler[w] \in Handlers
        BY <1>1, <2>1, InItsHands
      <4>2. handler[w] >= handler[w]
        BY <4>1 DEF Handlers
      <4>3. AtWork(w)
        BY <1>1, <2>1 DEF StreamInv, HeadOK
      <4> QED
        BY <4>1, <4>2, <4>3 DEF AtWork
    <3>2. attempts \in [Messages -> [Handlers -> 0..MaxRetries]]
      BY <1>1 DEF StreamInv, TypeOK
    <3> QED
      BY <2>1, <3>1, <3>2 DEF Attempt
  <2>2. CASE UNCHANGED attempts
    BY <2>2
  <2> QED
    BY <1>1, <2>1, <2>2 DEF Next, Publish, Stop, Restart, Read, ReadNothing, ReadFails, Handled,
       HandlerRaises, Bury, Ack, ExitLoop, Cancel, End, vars
<1>2. Spec => []StreamInv
  BY StreamInvInit, StreamInvNext, PTL DEF Spec
<1> QED
  BY <1>1, <1>2, PTL DEF Spec, HandledOnce
=============================================================================
