------------------------ MODULE OrderManagerProofs ------------------------
(***************************************************************************)
(* Proofs about the order manager and the bucket its orders share, for any *)
(* orders, capacity, waits and number of attempts.                         *)
(***************************************************************************)
EXTENDS OrderManager, FiniteSetTheorems, TLAPS

(* The smaller and the larger of two numbers. *)
LEMMA MinOfTwo ==
  ASSUME NEW a \in Int, NEW b \in Int
  PROVE  Min({a, b}) = IF a <= b THEN a ELSE b
<1> DEFINE m == IF a <= b THEN a ELSE b
<1>1. m \in {a, b} /\ \A y \in {a, b} : m <= y
  OBVIOUS
<1>2. \A x \in {a, b} : (\A y \in {a, b} : x <= y) => x = m
  OBVIOUS
<1>3. QED
  BY <1>1, <1>2 DEF Min

LEMMA MaxOfTwo ==
  ASSUME NEW a \in Int, NEW b \in Int
  PROVE  Max({a, b}) = IF a >= b THEN a ELSE b
<1> DEFINE m == IF a >= b THEN a ELSE b
<1>1. m \in {a, b} /\ \A y \in {a, b} : m >= y
  OBVIOUS
<1>2. \A x \in {a, b} : (\A y \in {a, b} : x >= y) => x = m
  OBVIOUS
<1>3. QED
  BY <1>1, <1>2 DEF Max

-----------------------------------------------------------------------------
(***************************************************************************)
(* The bucket.  What was let through beyond one request per tick and what  *)
(* the bucket still holds never exceed its capacity together.              *)
(***************************************************************************)
BucketInv == LimiterTypeOK /\ excess + Refilled <= MaxRequests

LEMMA RefilledType ==
  ASSUME LimiterTypeOK
  PROVE  /\ Refilled \in 0..MaxRequests
         /\ Refilled = IF MaxRequests <= tokens + age THEN MaxRequests ELSE tokens + age
  BY RateAssumption, MinOfTwo DEF LimiterTypeOK, Refilled

LEMMA BucketInit == LimiterInit => BucketInv
<1> SUFFICES ASSUME LimiterInit PROVE BucketInv
  OBVIOUS
<1>1. LimiterTypeOK
  BY RateAssumption DEF LimiterInit, LimiterTypeOK
<1>2. QED
  BY <1>1, RefilledType, RateAssumption DEF LimiterInit, BucketInv, LimiterTypeOK

LEMMA TakeKeepsBucket ==
  ASSUME BucketInv, NEW n \in Nat, Take(n)
  PROVE  BucketInv'
<1>1. /\ Refilled \in 0..MaxRequests /\ Refilled >= n
      /\ tokens' = Refilled - n /\ age' = 0 /\ excess' = excess + n /\ wait' = wait
  BY RefilledType DEF BucketInv, Take
<1>2. LimiterTypeOK'
  BY <1>1, RateAssumption DEF BucketInv, LimiterTypeOK
<1>3. (excess + Refilled <= MaxRequests)'
  <2>1. Refilled' = Min({MaxRequests, tokens' + age'})
    BY DEF Refilled
  <2>2. Refilled' = Refilled - n
    BY <1>1, <2>1, MinOfTwo, RateAssumption
  <2>3. QED
    BY <1>1, <2>2, RateAssumption DEF BucketInv, LimiterTypeOK
<1>4. QED
  BY <1>2, <1>3 DEF BucketInv

LEMMA DozeKeepsBucket ==
  ASSUME BucketInv, NEW c \in Callers, NEW n \in 0..MaxRequests, Doze(c, n)
  PROVE  BucketInv'
<1>1. /\ Refilled \in 0..MaxRequests /\ Refilled < n
      /\ tokens' = Refilled /\ age' = 0 /\ excess' = excess
      /\ wait' = [wait EXCEPT ![c] = Max({n - Refilled, MinWait})]
  BY RefilledType DEF BucketInv, Doze
<1>2. Max({n - Refilled, MinWait}) \in 0..(MaxRequests + MinWait)
  BY <1>1, MaxOfTwo, RateAssumption
<1>3. LimiterTypeOK'
  BY <1>1, <1>2, RateAssumption DEF BucketInv, LimiterTypeOK
<1>4. Refilled' = Refilled
  <2>1. Refilled' = Min({MaxRequests, tokens' + age'})
    BY DEF Refilled
  <2>2. QED
    BY <1>1, <2>1, MinOfTwo, RateAssumption
<1>5. QED
  BY <1>1, <1>3, <1>4 DEF BucketInv

LEMMA AvailableKeepsBucket == BucketInv /\ Available => BucketInv'
<1> SUFFICES ASSUME BucketInv, Available PROVE BucketInv'
  OBVIOUS
<1>1. /\ Refilled \in 0..MaxRequests
      /\ tokens' = Refilled /\ age' = 0 /\ excess' = excess /\ wait' = wait
  BY RefilledType DEF BucketInv, Available
<1>2. LimiterTypeOK'
  BY <1>1, RateAssumption DEF BucketInv, LimiterTypeOK
<1>3. Refilled' = Refilled
  <2>1. Refilled' = Min({MaxRequests, tokens' + age'})
    BY DEF Refilled
  <2>2. QED
    BY <1>1, <2>1, MinOfTwo, RateAssumption
<1>4. QED
  BY <1>1, <1>2, <1>3 DEF BucketInv

LEMMA TickKeepsBucket == BucketInv /\ Tick => BucketInv'
<1> SUFFICES ASSUME BucketInv, Tick PROVE BucketInv'
  OBVIOUS
<1> USE RateAssumption
<1>1. LimiterTypeOK /\ excess + Refilled <= MaxRequests
  BY DEF BucketInv
<1>2. /\ age' = (IF MaxRequests <= age + 1 THEN MaxRequests ELSE age + 1)
      /\ excess' = (IF 0 >= excess - 1 THEN 0 ELSE excess - 1)
      /\ tokens' = tokens
  BY <1>1, MinOfTwo, MaxOfTwo DEF Tick, LimiterTypeOK
<1>3. wait' \in [Callers -> 0..(MaxRequests + MinWait)]
  <2>1. ASSUME NEW c \in Callers
        PROVE  Max({0, wait[c] - 1}) \in 0..(MaxRequests + MinWait)
    BY <1>1, MaxOfTwo DEF LimiterTypeOK
  <2>2. QED
    BY <2>1 DEF Tick
<1>4. LimiterTypeOK'
  BY <1>1, <1>2, <1>3 DEF LimiterTypeOK
<1>5. /\ Refilled = IF MaxRequests <= tokens + age THEN MaxRequests ELSE tokens + age
      /\ Refilled' = IF MaxRequests <= tokens' + age' THEN MaxRequests ELSE tokens' + age'
  <2>1. Refilled' = Min({MaxRequests, tokens' + age'})
    BY DEF Refilled
  <2>2. tokens' \in Int /\ age' \in Int
    BY <1>4 DEF LimiterTypeOK
  <2>3. tokens' + age' \in Int
    BY <2>2
  <2>4. QED
    BY <1>1, <2>1, <2>3, RefilledType, MinOfTwo
<1>6. QED
  BY <1>1, <1>2, <1>4, <1>5 DEF BucketInv, LimiterTypeOK
-----------------------------------------------------------------------------
(***************************************************************************)
(* Types, and the bucket among the orders' other steps.                    *)
(***************************************************************************)
RetriesAreLeft == \A o \in Orders : pc[o] = "backoff" => attempt[o] < Attempts

BudgetInv == ManagerTypeOK /\ BucketInv /\ RetriesAreLeft

LEMMA InitBudgetInv == Init => BudgetInv
<1> SUFFICES ASSUME Init PROVE BudgetInv
  OBVIOUS
<1>1. BucketInv
  BY BucketInit DEF Init
<1>2. ManagerTypeOK
  BY <1>1, ManagerAssumption DEF Init, ManagerTypeOK, BucketInv
<1>3. RetriesAreLeft
  BY DEF Init, RetriesAreLeft
<1>4. QED
  BY <1>1, <1>2, <1>3 DEF BudgetInv

LEMMA SameBucket == BucketInv /\ UNCHANGED limiter => BucketInv'
  BY DEF BucketInv, LimiterTypeOK, Refilled, limiter

LEMMA NextBudgetInv == BudgetInv /\ [Next]_vars => BudgetInv'
<1> SUFFICES ASSUME BudgetInv, [Next]_vars PROVE BudgetInv'
  OBVIOUS
<1> USE ManagerAssumption
<1>1. ManagerTypeOK /\ BucketInv /\ RetriesAreLeft
  BY DEF BudgetInv
<1>2. \A o \in Orders : Id(o) \in Ids
  BY <1>1 DEF ManagerTypeOK, Id, Ids
<1>3. BucketInv'
  <2>1. ASSUME NEW o \in Orders, Acquire(o) PROVE BucketInv'
    <3>1. 1 \in 0..MaxRequests
      BY RateAssumption
    <3>2. CASE Take(1)
      BY <1>1, <3>2, TakeKeepsBucket
    <3>3. CASE Doze(o, 1)
      BY <1>1, <3>1, <3>3, DozeKeepsBucket DEF Orders
    <3>4. QED
      BY <2>1, <3>2, <3>3 DEF Acquire
  <2>2. CASE Time
    BY <1>1, <2>2, TickKeepsBucket DEF Time
  <2>3. CASE Read
    BY <1>1, <2>3, AvailableKeepsBucket DEF Read
  <2>4. CASE UNCHANGED limiter
    BY <1>1, <2>4, SameBucket
  <2>5. QED
    BY <2>1, <2>2, <2>3, <2>4
    DEF Next, vars, Submit, Post, Tracked, NotTracked, Retry, Finish, HandleEvent, Cancel,
        FindStale, CancelReturns
<1>4. ManagerTypeOK'
  <2>1. LimiterTypeOK'
    BY <1>3 DEF BucketInv
  <2>2. ASSUME NEW o \in Orders, Submit(o) \/ Acquire(o) PROVE ManagerTypeOK'
    BY <1>1, <2>1, <2>2 DEF ManagerTypeOK, Submit, Acquire, Goto
  <2>3. ASSUME NEW o \in Orders, Post(o) PROVE ManagerTypeOK'
    BY <1>1, <1>2, <2>1, <2>3 DEF ManagerTypeOK, Post, Goto, Fault
  <2>4. ASSUME NEW o \in Orders, Tracked(o) PROVE ManagerTypeOK'
    BY <1>1, <1>2, <2>1, <2>4 DEF ManagerTypeOK, Tracked, Goto
  <2>5. ASSUME NEW o \in Orders, NotTracked(o) PROVE ManagerTypeOK'
    BY <1>1, <2>1, <2>5 DEF ManagerTypeOK, NotTracked, Goto
  <2>6. ASSUME NEW o \in Orders, Retry(o) PROVE ManagerTypeOK'
    BY <1>1, <2>1, <2>6 DEF ManagerTypeOK, RetriesAreLeft, Retry, Goto
  <2>7. ASSUME NEW i \in Ids, Finish(i) \/ HandleEvent(i) \/ Cancel(i) PROVE ManagerTypeOK'
    <3>1. CASE Finish(i) \/ HandleEvent(i)
      BY <1>1, <2>1, <3>1 DEF ManagerTypeOK, Finish, HandleEvent
    <3>2. CASE Cancel(i)
      <4>1. /\ cancelling' = <<i, TRUE>> \/ cancelling' = <<i, FALSE>>
            /\ broker' = broker \/ broker' = [broker EXCEPT ![i] = "cancelled"]
            /\ lost' = lost \/ lost' = lost \cup {i}
            /\ refused' = refused \/ refused' = refused \cup {i}
            /\ sweep' = sweep \ {i}
            /\ faults' = faults \/ Fault
        BY <3>2, Zenon DEF Cancel
      <4>2. ASSUME NEW told \in BOOLEAN, cancelling' = <<i, told>>
            PROVE  cancelling' \in Ids \X BOOLEAN
        BY <4>2
      <4>3. cancelling' \in Ids \X BOOLEAN
        BY <4>1, <4>2
      <4>4. broker' \in [Ids -> {"none", "open", "filled", "rejected", "cancelled"}]
        BY <1>1, <4>1 DEF ManagerTypeOK
      <4>5. /\ pc' = pc /\ attempt' = attempt /\ reply' = reply /\ open' = open
            /\ events' = events /\ early' = early
        BY <3>2 DEF Cancel
      <4>6. faults' \in 0..MaxFaults /\ lost' \subseteq Ids /\ sweep' \subseteq Ids /\ refused' \subseteq Ids
        BY <1>1, <4>1 DEF ManagerTypeOK, Fault
      <4>7. QED
        BY <1>1, <2>1, <4>1, <4>3, <4>4, <4>5, <4>6, Zenon DEF ManagerTypeOK
    <3>3. QED
      BY <2>7, <3>1, <3>2
  <2>8. CASE FindStale \/ CancelReturns
    BY <1>1, <2>1, <2>8 DEF ManagerTypeOK, FindStale, CancelReturns
  <2>9. CASE Time \/ Read \/ UNCHANGED vars
    BY <1>1, <2>1, <2>9 DEF ManagerTypeOK, Time, Read, vars, manager
  <2>10. QED
    BY <2>2, <2>3, <2>4, <2>5, <2>6, <2>7, <2>8, <2>9 DEF Next
<1>5. RetriesAreLeft'
  <2>1. ASSUME NEW o \in Orders, NotTracked(o) PROVE RetriesAreLeft'
    BY <1>1, <2>1 DEF ManagerTypeOK, RetriesAreLeft, NotTracked, Goto
  <2>2. ASSUME NEW o \in Orders, Retry(o) PROVE RetriesAreLeft'
    BY <1>1, <2>2 DEF ManagerTypeOK, RetriesAreLeft, Retry, Goto
  <2>3. ASSUME NEW o \in Orders, Submit(o) \/ Acquire(o) \/ Post(o) \/ Tracked(o)
        PROVE  RetriesAreLeft'
    BY <1>1, <2>3 DEF ManagerTypeOK, RetriesAreLeft, Submit, Acquire, Post, Tracked, Goto
  <2>4. CASE UNCHANGED <<pc, attempt>>
    BY <1>1, <2>4 DEF RetriesAreLeft
  <2>5. QED
    BY <2>1, <2>2, <2>3, <2>4
    DEF Next, vars, manager, Finish, HandleEvent, Cancel, FindStale, CancelReturns, Time, Read
<1>6. QED
  BY <1>3, <1>4, <1>5 DEF BudgetInv

(* The types, for any orders, capacity, waits, attempts and faults. *)
THEOREM ManagerTypeCorrect == Spec => []ManagerTypeOK
<1>1. BudgetInv => ManagerTypeOK
  BY DEF BudgetInv
<1>2. QED
  BY InitBudgetInv, NextBudgetInv, <1>1, PTL DEF Spec

(* However many orders share the bucket and whoever reads it, in no stretch  *)
(* of time are more requests let through than it holds plus one per tick.    *)
THEOREM TheBudgetIsKept == Spec => []BudgetIsKept
<1>1. BudgetInv => BudgetIsKept
  <2> SUFFICES ASSUME BudgetInv PROVE BudgetIsKept
    OBVIOUS
  <2>1. LimiterTypeOK /\ excess + Refilled <= MaxRequests
    BY DEF BudgetInv, BucketInv
  <2>2. QED
    BY <2>1, RefilledType, RateAssumption DEF LimiterTypeOK, BudgetIsKept
<1>2. QED
  BY InitBudgetInv, NextBudgetInv, <1>1, PTL DEF Spec

-----------------------------------------------------------------------------
(***************************************************************************)
(* Copies of an order.  An order at the broker whose replies were not lost *)
(* is the one of the latest attempt, and that attempt is the last.         *)
(***************************************************************************)
Answered(i) ==
  /\ attempt[i[1]] = i[2]
  /\ pc[i[1]] = "submitted" \/ (pc[i[1]] = "reply" /\ reply[i[1]] = "id")

CopyInv == \A i \in Ids : broker[i] # "none" /\ i \notin lost => Answered(i)

LEMMA NextCopyInv == ManagerTypeOK /\ CopyInv /\ [Next]_vars => CopyInv'
<1> SUFFICES ASSUME ManagerTypeOK, CopyInv, [Next]_vars PROVE CopyInv'
  OBVIOUS
<1>1. ASSUME NEW o \in Orders,
             Submit(o) \/ Acquire(o) \/ Tracked(o) \/ NotTracked(o) \/ Retry(o)
      PROVE  CopyInv'
  <2>1. broker' = broker /\ lost' = lost /\ reply' = reply
    BY <1>1 DEF Submit, Acquire, Tracked, NotTracked, Retry
  <2>2. SUFFICES ASSUME NEW i \in Ids, broker[i] # "none", i \notin lost
                 PROVE  Answered(i)'
    BY <2>1 DEF CopyInv
  <2>3. Answered(i) /\ i[1] \in Orders
    BY <2>2 DEF CopyInv, Ids
  <2>4. CASE i[1] = o
    BY <1>1, <2>1, <2>3, <2>4
    DEF ManagerTypeOK, Answered, Submit, Acquire, Tracked, NotTracked, Retry, Goto
  <2>5. CASE i[1] # o
    BY <1>1, <2>1, <2>3, <2>5
    DEF ManagerTypeOK, Answered, Submit, Acquire, Tracked, NotTracked, Retry, Goto
  <2>6. QED
    BY <2>4, <2>5
<1>2. ASSUME NEW o \in Orders, Post(o) PROVE CopyInv'
  <2>1. SUFFICES ASSUME NEW i \in Ids, broker'[i] # "none", i \notin lost'
                 PROVE  Answered(i)'
    BY DEF CopyInv
  <2>2. i[1] \in Orders /\ i[2] \in 1..Attempts /\ i = <<i[1], i[2]>>
    BY DEF Ids
  <2>3. lost \subseteq lost' /\ attempt' = attempt
    BY <1>2 DEF Post
  <2>4. CASE i[1] = o
    <3>1. broker[i] = "none"
      BY <1>2, <2>1, <2>3, <2>4 DEF CopyInv, Answered, Post
    <3>2. i = Id(o) /\ reply' = [reply EXCEPT ![o] = "id"]
      BY <1>2, <2>1, <3>1 DEF ManagerTypeOK, Post
    <3>3. QED
      BY <1>2, <2>2, <2>3, <2>4, <3>2 DEF ManagerTypeOK, Post, Goto, Id, Answered
  <2>5. CASE i[1] # o
    <3>1. i # Id(o)
      BY <2>5 DEF Id
    <3>2. broker'[i] = broker[i]
      BY <1>2, <3>1 DEF ManagerTypeOK, Post
    <3>3. Answered(i)
      BY <2>1, <2>3, <3>2 DEF CopyInv
    <3>4. pc'[i[1]] = pc[i[1]] /\ reply'[i[1]] = reply[i[1]]
      BY <1>2, <2>2, <2>5 DEF ManagerTypeOK, Post, Goto
    <3>5. QED
      BY <2>3, <3>3, <3>4 DEF Answered
  <2>6. QED
    BY <2>4, <2>5
<1>3. ASSUME NEW i \in Ids, Finish(i) \/ HandleEvent(i) \/ Cancel(i) PROVE CopyInv'
  <2>1. /\ \A j \in Ids : broker'[j] # "none" => broker[j] # "none"
        /\ lost \subseteq lost'
    BY <1>3 DEF ManagerTypeOK, Finish, HandleEvent, Cancel, Live
  <2>2. pc' = pc /\ attempt' = attempt /\ reply' = reply
    BY <1>3 DEF Finish, HandleEvent, Cancel
  <2>3. QED
    BY <2>1, <2>2 DEF CopyInv, Answered
<1>4. CASE UNCHANGED <<pc, attempt, reply, broker, lost>>
  BY <1>4 DEF CopyInv, Answered
<1>5. QED
  BY <1>1, <1>2, <1>3, <1>4 DEF Next, vars, manager, FindStale, CancelReturns, Time, Read

(* However often submit() tries again, and whatever the broker answers or    *)
(* does not, an order is there twice only by a reply that was lost.          *)
THEOREM CopiesComeOfLostReplies == Spec => []CopiesOnlyOfLostReplies
<1>1. Init => CopyInv
  BY DEF Init, CopyInv
<1>2. BudgetInv /\ CopyInv /\ [Next]_vars => CopyInv'
  BY NextCopyInv DEF BudgetInv
<1>3. CopyInv => CopiesOnlyOfLostReplies
  <2> SUFFICES ASSUME CopyInv, NEW o \in Orders
               PROVE  Cardinality({i \in (Live \cup Closed) \ lost : i[1] = o}) <= 1
    BY DEF CopiesOnlyOfLostReplies
  <2> DEFINE copies == {i \in (Live \cup Closed) \ lost : i[1] = o}
  <2>1. copies \subseteq {Id(o)}
    BY DEF CopyInv, Answered, Live, Closed, Ids, Id
  <2>2. IsFiniteSet({Id(o)}) /\ Cardinality({Id(o)}) = 1
    BY FS_Singleton
  <2>3. Cardinality(copies) <= 1
    BY <2>1, <2>2, FS_Subset
  <2>4. QED
    BY <2>3
<1>4. QED
  BY InitBudgetInv, NextBudgetInv, <1>1, <1>2, <1>3, PTL DEF Spec

-----------------------------------------------------------------------------
(***************************************************************************)
(* Open orders.  For each order of an attempt: what has been posted, what  *)
(* is tracked, and how an order that ended leaves the manager's book.      *)
(***************************************************************************)
Settled(i)  == pc[i[1]] = "submitted" /\ attempt[i[1]] = i[2]
Replying(i) == pc[i[1]] = "reply" /\ attempt[i[1]] = i[2] /\ reply[i[1]] = "id"
Unposted(i) ==
  \/ attempt[i[1]] < i[2]
  \/ attempt[i[1]] = i[2] /\ pc[i[1]] \in {"idle", "acquire", "post"}

Gone(i) == i \notin open /\ Settled(i)

Posted(i) ==
  /\ Unposted(i) => broker[i] = "none"
  /\ Replying(i) \/ i \in open \cup sweep => broker[i] # "none"

OnlySettled(i) ==
  /\ i \in open \cup sweep => Settled(i)
  /\ cancelling \in {<<i, TRUE>>, <<i, FALSE>>} => Settled(i)

Ended(i) ==
  /\ i \in events => broker[i] \in {"filled", "rejected"}
  /\ cancelling = <<i, TRUE>> => broker[i] \in {"filled", "rejected", "cancelled"} \/ i \in refused
  /\ broker[i] \in {"filled", "rejected"} => i \in events \cup early \/ Gone(i)
  /\ broker[i] = "cancelled" => i \in lost \/ cancelling = <<i, TRUE>> \/ Gone(i)

Tracks(i) == (broker[i] = "open" /\ i \notin lost \cup refused /\ Settled(i)) => i \in open

Accounted(i) == Posted(i) /\ OnlySettled(i) /\ Ended(i) /\ Tracks(i)

OpenInv == \A i \in Ids : Accounted(i)

LEMMA IdParts ==
  ASSUME NEW i \in Ids
  PROVE  /\ i[1] \in Orders /\ i[2] \in 1..Attempts
         /\ \A o \in Orders : i = Id(o) <=> i[1] = o /\ i[2] = attempt[o]
BY DEF Ids, Id

(* The part of an order that a step leaves alone. *)
LEMMA SameAccount ==
  ASSUME NEW i \in Ids, Accounted(i),
         pc'[i[1]] = pc[i[1]], attempt'[i[1]] = attempt[i[1]], reply'[i[1]] = reply[i[1]],
         broker'[i] = broker[i], i \in open' <=> i \in open, i \in events' <=> i \in events,
         i \in early => i \in early', i \in lost => i \in lost',
         i \in refused => i \in refused', i \in sweep' => i \in sweep,
         cancelling' = <<i, TRUE>> <=> cancelling = <<i, TRUE>>,
         cancelling' = <<i, FALSE>> => cancelling = <<i, FALSE>>
  PROVE  Accounted(i)'
<1>1. Settled(i)' = Settled(i) /\ Replying(i)' = Replying(i) /\ Unposted(i)' = Unposted(i)
      /\ Gone(i)' = Gone(i)
  BY DEF Settled, Replying, Unposted, Gone
<1>2. Posted(i)'
  BY <1>1 DEF Accounted, Posted
<1>3. OnlySettled(i)'
  BY <1>1 DEF Accounted, OnlySettled
<1>4. Ended(i)'
  BY <1>1 DEF Accounted, Ended
<1>5. Tracks(i)'
  BY <1>1 DEF Accounted, Tracks
<1>6. QED
  BY <1>2, <1>3, <1>4, <1>5 DEF Accounted

(* Steps of submit() before and after the broker's answer. *)
LEMMA WaitingKeepsAccount ==
  ASSUME ManagerTypeOK, OpenInv, NEW o \in Orders,
         Submit(o) \/ Acquire(o) \/ NotTracked(o) \/ Retry(o), NEW i \in Ids
  PROVE  Accounted(i)'
<1>0. Accounted(i)
  BY DEF OpenInv
<1>1. UNCHANGED <<reply, open, broker, events, sweep, cancelling, early, lost, refused>>
  BY DEF Submit, Acquire, NotTracked, Retry
<1>2. CASE i[1] # o
  <2>1. pc'[i[1]] = pc[i[1]] /\ attempt'[i[1]] = attempt[i[1]]
    BY <1>2, IdParts DEF ManagerTypeOK, Submit, Acquire, NotTracked, Retry, Goto
  <2>2. QED
    BY <1>0, <1>1, <2>1, SameAccount
<1>3. CASE i[1] = o
  <2>1. /\ pc[o] # "submitted" /\ pc'[o] # "submitted" /\ pc'[o] # "reply"
        /\ attempt'[o] \in {attempt[o], attempt[o] + 1}
        /\ attempt[o] \in 1..Attempts
    BY DEF ManagerTypeOK, Submit, Acquire, NotTracked, Retry, Goto
  <2>2. ~Settled(i) /\ ~Settled(i)' /\ ~Replying(i)'
    BY <1>3, <2>1 DEF Settled, Replying
  <2>3. Unposted(i)' => Unposted(i)
    BY <1>3, <2>1, IdParts
       DEF Unposted, ManagerTypeOK, Submit, Acquire, NotTracked, Retry, Goto
  <2>4. Posted(i)'
    BY <1>0, <1>1, <2>2, <2>3 DEF Accounted, Posted, OnlySettled
  <2>5. OnlySettled(i)'
    BY <1>0, <1>1, <2>2 DEF Accounted, OnlySettled
  <2>6. Ended(i)'
    BY <1>0, <1>1, <2>2 DEF Accounted, Ended, Gone
  <2>7. Tracks(i)'
    BY <2>2 DEF Tracks
  <2>8. QED
    BY <2>4, <2>5, <2>6, <2>7 DEF Accounted
<1>4. QED
  BY <1>2, <1>3

LEMMA PostKeepsAccount ==
  ASSUME ManagerTypeOK, OpenInv, NEW o \in Orders, Post(o), NEW i \in Ids
  PROVE  Accounted(i)'
<1>0. Accounted(i)
  BY DEF OpenInv
<1>1. /\ pc[o] = "post" /\ pc' = [pc EXCEPT ![o] = "reply"]
      /\ UNCHANGED <<attempt, open, events, sweep, cancelling, early, refused>>
      /\ lost' = lost \/ lost' = lost \cup {Id(o)}
      /\ \E r \in {"id", "no_id", "error"} : reply' = [reply EXCEPT ![o] = r]
      /\ \/ broker' = [broker EXCEPT ![Id(o)] = "open"]
         \/ broker' = broker /\ reply' = [reply EXCEPT ![o] = "error"]
  BY DEF Post, Goto
<1>2. CASE i # Id(o)
  <2>1. broker'[i] = broker[i]
    BY <1>1, <1>2 DEF ManagerTypeOK
  <2>2. CASE i[1] # o
    BY <1>0, <1>1, <2>1, <2>2, IdParts, SameAccount DEF ManagerTypeOK
  <2>3. CASE i[1] = o
    <3>1. i[2] # attempt[o]
      BY <1>2, <2>3, IdParts
    <3>2. /\ ~Settled(i) /\ ~Settled(i)' /\ ~Replying(i)' /\ (Unposted(i)' => Unposted(i))
      BY <1>1, <2>3, <3>1 DEF Settled, Replying, Unposted
    <3>3. QED
      BY <1>0, <1>1, <2>1, <3>2 DEF Accounted, Posted, OnlySettled, Ended, Tracks, Gone
  <2>4. QED
    BY <2>2, <2>3
<1>3. CASE i = Id(o)
  <2>1. i[1] = o /\ i[2] = attempt[o]
    BY <1>3, IdParts
  <2>2. broker[i] = "none" /\ ~Settled(i) /\ ~Settled(i)' /\ ~Unposted(i)'
    BY <1>0, <1>1, <2>1 DEF ManagerTypeOK, Accounted, Posted, Unposted, Settled
  <2>3. broker'[i] \in {"open", "none"} /\ (Replying(i)' => broker'[i] = "open")
    BY <1>1, <1>3, <2>1, <2>2 DEF ManagerTypeOK, Replying
  <2>4. QED
    BY <1>0, <1>1, <2>2, <2>3 DEF Accounted, Posted, OnlySettled, Ended, Tracks, Gone
<1>4. QED
  BY <1>2, <1>3

LEMMA TrackedKeepsAccount ==
  ASSUME ManagerTypeOK, OpenInv, NEW o \in Orders, Tracked(o), NEW i \in Ids
  PROVE  Accounted(i)'
<1>0. Accounted(i)
  BY DEF OpenInv
<1>1. /\ pc[o] = "reply" /\ reply[o] = "id" /\ pc' = [pc EXCEPT ![o] = "submitted"]
      /\ open' = open \cup {Id(o)}
      /\ UNCHANGED <<attempt, reply, broker, events, sweep, cancelling, early, lost, refused>>
  BY DEF Tracked, Goto
<1>2. CASE i[1] # o
  <2>1. i # Id(o)
    BY <1>2, IdParts
  <2>2. QED
    BY <1>0, <1>1, <1>2, <2>1, IdParts, SameAccount DEF ManagerTypeOK
<1>3. CASE i[1] = o /\ i[2] # attempt[o]
  <2>1. i # Id(o) /\ ~Settled(i) /\ ~Settled(i)' /\ ~Replying(i)'
        /\ (Unposted(i)' => Unposted(i))
    BY <1>1, <1>3, IdParts DEF Settled, Replying, Unposted
  <2>2. QED
    BY <1>0, <1>1, <2>1 DEF Accounted, Posted, OnlySettled, Ended, Tracks, Gone
<1>4. CASE i[1] = o /\ i[2] = attempt[o]
  <2>1. i = Id(o) /\ ~Settled(i) /\ Settled(i)' /\ Replying(i) /\ ~Unposted(i)'
    BY <1>1, <1>4, IdParts DEF ManagerTypeOK, Settled, Replying, Unposted
  <2>2. QED
    BY <1>0, <1>1, <2>1 DEF Accounted, Posted, OnlySettled, Ended, Tracks, Gone
<1>5. QED
  BY <1>2, <1>3, <1>4

LEMMA EventKeepsAccount ==
  ASSUME OpenInv, ManagerTypeOK, NEW j \in Ids, Finish(j) \/ HandleEvent(j), NEW i \in Ids
  PROVE  Accounted(i)'
<1>0. Accounted(i)
  BY DEF OpenInv
<1>1. UNCHANGED <<pc, attempt, reply, sweep, cancelling, lost, refused>>
  BY DEF Finish, HandleEvent
<1>2. CASE i # j
  <2>1. /\ broker'[i] = broker[i] /\ (i \in open' <=> i \in open)
        /\ (i \in events' <=> i \in events) /\ (i \in early => i \in early')
    BY <1>2 DEF ManagerTypeOK, Finish, HandleEvent
  <2>2. QED
    BY <1>0, <1>1, <2>1, SameAccount
<1>3. /\ Settled(i)' = Settled(i) /\ Replying(i)' = Replying(i) /\ Unposted(i)' = Unposted(i)
  BY <1>1 DEF Settled, Replying, Unposted
<1>4. CASE i = j /\ Finish(j)
  <2>1. /\ broker[i] = "open" /\ broker'[i] \in {"filled", "rejected"} /\ i \in events'
        /\ UNCHANGED <<open, early>>
    BY <1>4 DEF ManagerTypeOK, Finish
  <2>2. QED
    BY <1>0, <1>1, <1>3, <2>1 DEF Accounted, Posted, OnlySettled, Ended, Tracks, Gone
<1>5. CASE i = j /\ HandleEvent(j)
  <2>1. /\ i \in events /\ i \notin events' /\ i \notin open' /\ broker' = broker
        /\ (i \notin open => i \in early') /\ (i \in early => i \in early')
    BY <1>5 DEF HandleEvent
  <2>2. broker[i] \in {"filled", "rejected"}
    BY <1>0, <2>1 DEF Accounted, Ended
  <2>3. QED
    BY <1>0, <1>1, <1>3, <2>1, <2>2 DEF Accounted, Posted, OnlySettled, Ended, Tracks, Gone
<1>6. QED
  BY <1>2, <1>4, <1>5

LEMMA CancelKeepsAccount ==
  ASSUME OpenInv, ManagerTypeOK, NEW j \in Ids, Cancel(j), NEW i \in Ids
  PROVE  Accounted(i)'
<1>0. Accounted(i)
  BY DEF OpenInv
<1>1. /\ UNCHANGED <<pc, attempt, reply, open, events, early>> /\ sweep' = sweep \ {j}
      /\ j \in sweep /\ cancelling = None
      /\ lost \subseteq lost' /\ refused \subseteq refused'
      /\ \/ /\ j \in Live /\ broker' = [broker EXCEPT ![j] = "cancelled"]
            /\ cancelling' = <<j, TRUE>> \/ (cancelling' = <<j, FALSE>> /\ j \in lost')
         \/ broker' = broker /\ cancelling' = <<j, FALSE>>
         \/ broker' = broker /\ cancelling' = <<j, TRUE>> /\ (j \notin Live \/ j \in refused')
  BY DEF Cancel
<1>2. cancelling # <<i, TRUE>> /\ cancelling # <<i, FALSE>>
  BY <1>1 DEF None
<1>3. /\ Settled(i)' = Settled(i) /\ Replying(i)' = Replying(i) /\ Unposted(i)' = Unposted(i)
  BY <1>1 DEF Settled, Replying, Unposted
<1>4. CASE i # j
  <2>1. broker'[i] = broker[i]
    BY <1>1, <1>4 DEF ManagerTypeOK
  <2>2. cancelling' # <<i, TRUE>> /\ cancelling' # <<i, FALSE>>
    <3>1. cancelling' \in {<<j, TRUE>>, <<j, FALSE>>}
      BY <1>1
    <3>2. \A b, c \in BOOLEAN : <<i, b>> # <<j, c>>
      BY <1>4
    <3>3. QED
      BY <3>1, <3>2
  <2>3. QED
    BY <1>0, <1>1, <1>2, <2>1, <2>2, SameAccount
<1>5. CASE i = j
  <2>1. Settled(i)
    BY <1>0, <1>1, <1>5 DEF Accounted, OnlySettled
  <2>2. CASE /\ j \in Live /\ broker' = [broker EXCEPT ![j] = "cancelled"]
             /\ cancelling' = <<j, TRUE>> \/ (cancelling' = <<j, FALSE>> /\ j \in lost')
    <3>1. broker[i] = "open" /\ broker'[i] = "cancelled"
      BY <1>5, <2>2 DEF Live, ManagerTypeOK
    <3>2. cancelling' = <<i, TRUE>> \/ i \in lost'
      BY <1>5, <2>2
    <3>3. Posted(i)' /\ OnlySettled(i)' /\ Tracks(i)'
      BY <1>0, <1>1, <1>3, <2>1, <3>1 DEF Accounted, Posted, OnlySettled, Tracks
    <3>4. Ended(i)'
      BY <1>0, <1>1, <3>1, <3>2 DEF Accounted, Ended
    <3>5. QED
      BY <3>3, <3>4 DEF Accounted
  <2>3. CASE broker' = broker /\ cancelling' = <<j, FALSE>>
    <3>1. cancelling' # <<i, TRUE>>
      BY <2>3
    <3>2. QED
      BY <1>0, <1>1, <1>2, <1>3, <2>1, <2>3, <3>1
         DEF Accounted, Posted, OnlySettled, Ended, Tracks, Gone
  <2>4. CASE broker' = broker /\ cancelling' = <<j, TRUE>> /\ (j \notin Live \/ j \in refused')
    <3>1. broker[i] # "none"
      BY <1>0, <1>1, <1>5 DEF Accounted, Posted
    <3>2. broker[i] \in {"filled", "rejected", "cancelled"} \/ i \in refused'
      BY <1>5, <2>4, <3>1 DEF Live, ManagerTypeOK
    <3>3. cancelling' # <<i, FALSE>>
      BY <2>4, <1>5
    <3>4. QED
      BY <1>0, <1>1, <1>2, <1>3, <2>1, <2>4, <3>2, <3>3
         DEF Accounted, Posted, OnlySettled, Ended, Tracks, Gone
  <2>5. QED
    BY <1>1, <2>2, <2>3, <2>4
<1>6. QED
  BY <1>4, <1>5

LEMMA SweepKeepsAccount ==
  ASSUME OpenInv, ManagerTypeOK, FindStale \/ CancelReturns, NEW i \in Ids
  PROVE  Accounted(i)'
<1>0. Accounted(i)
  BY DEF OpenInv
<1>1. UNCHANGED <<pc, attempt, reply, broker, events, early, lost, refused>>
  BY DEF FindStale, CancelReturns
<1>2. /\ Settled(i)' = Settled(i) /\ Replying(i)' = Replying(i) /\ Unposted(i)' = Unposted(i)
  BY <1>1 DEF Settled, Replying, Unposted
<1>3. CASE FindStale
  <2>1. open' = open /\ cancelling' = cancelling /\ sweep' \subseteq open
    BY <1>3 DEF FindStale
  <2>2. QED
    BY <1>0, <1>1, <1>2, <2>1 DEF Accounted, Posted, OnlySettled, Ended, Tracks, Gone
<1>4. CASE CancelReturns
  <2>1. /\ cancelling # None /\ cancelling' = None /\ sweep' = sweep
        /\ open' = IF cancelling[2] THEN open \ {cancelling[1]} ELSE open
    BY <1>4 DEF CancelReturns
  <2>2. cancelling' # <<i, TRUE>> /\ cancelling' # <<i, FALSE>>
    BY <2>1 DEF None
  <2>3. CASE cancelling = <<i, TRUE>>
    <3>1. /\ i \notin open' /\ Settled(i)
          /\ broker[i] \in {"filled", "rejected", "cancelled"} \/ i \in refused
      BY <1>0, <2>1, <2>3 DEF Accounted, Ended, OnlySettled
    <3>2. QED
      BY <1>0, <1>1, <1>2, <2>1, <2>2, <3>1
         DEF Accounted, Posted, OnlySettled, Ended, Tracks, Gone
  <2>4. CASE cancelling # <<i, TRUE>>
    <3>1. i \in open' <=> i \in open
      <4>1. cancelling \in Ids \X BOOLEAN
        BY <2>1 DEF ManagerTypeOK
      <4>2. cancelling = <<cancelling[1], cancelling[2]>> /\ cancelling[2] \in BOOLEAN
        BY <4>1
      <4>3. cancelling[2] => cancelling[1] # i
        BY <2>4, <4>2
      <4>4. QED
        BY <2>1, <4>3
    <3>2. QED
      BY <1>0, <1>1, <2>1, <2>2, <2>4, <3>1, SameAccount
  <2>5. QED
    BY <2>3, <2>4
<1>5. QED
  BY <1>3, <1>4

(* The rest: time passes, the bucket is read, or nothing happens. *)
LEMMA OthersKeepAccount ==
  ASSUME OpenInv, UNCHANGED manager
  PROVE  OpenInv'
BY DEF OpenInv, manager, Accounted, Posted, OnlySettled, Ended, Tracks, Gone,
       Settled, Replying, Unposted

LEMMA NextOpenInv == ManagerTypeOK /\ OpenInv /\ [Next]_vars => OpenInv'
<1> SUFFICES ASSUME ManagerTypeOK, OpenInv, [Next]_vars PROVE OpenInv'
  OBVIOUS
<1>1. ASSUME NEW o \in Orders, Submit(o) \/ Acquire(o) \/ NotTracked(o) \/ Retry(o)
      PROVE  OpenInv'
  BY <1>1, WaitingKeepsAccount DEF OpenInv
<1>2. ASSUME NEW o \in Orders, Post(o) PROVE OpenInv'
  BY <1>2, PostKeepsAccount DEF OpenInv
<1>3. ASSUME NEW o \in Orders, Tracked(o) PROVE OpenInv'
  BY <1>3, TrackedKeepsAccount DEF OpenInv
<1>4. ASSUME NEW j \in Ids, Finish(j) \/ HandleEvent(j) PROVE OpenInv'
  BY <1>4, EventKeepsAccount DEF OpenInv
<1>5. ASSUME NEW j \in Ids, Cancel(j) PROVE OpenInv'
  BY <1>5, CancelKeepsAccount DEF OpenInv
<1>6. CASE FindStale \/ CancelReturns
  BY <1>6, SweepKeepsAccount DEF OpenInv
<1>7. CASE Time \/ Read \/ UNCHANGED vars
  BY <1>7, OthersKeepAccount DEF Time, Read, vars
<1>8. QED
  BY <1>1, <1>2, <1>3, <1>4, <1>5, <1>6, <1>7 DEF Next

LEMMA InitOpenInv == Init => OpenInv
<1> SUFFICES ASSUME Init, NEW i \in Ids PROVE Accounted(i)
  BY DEF OpenInv
<1>1. /\ broker[i] = "none" /\ i[1] \in Orders
      /\ open = {} /\ events = {} /\ sweep = {} /\ cancelling = None
      /\ pc[i[1]] = "idle"
  BY DEF Init, Ids
<1>2. cancelling # <<i, TRUE>> /\ cancelling # <<i, FALSE>>
  BY <1>1 DEF None
<1>3. ~Replying(i) /\ ~Settled(i)
  BY <1>1 DEF Replying, Settled
<1>4. QED
  BY <1>1, <1>2, <1>3 DEF Accounted, Posted, OnlySettled, Ended, Tracks

(* Whatever the broker, its stream and cancel_stale() do in between, the     *)
(* manager's open orders and the broker's differ by calls and events under   *)
(* way, lost replies and early events alone.                                 *)
THEOREM OpenOrdersStayKnown == Spec => []OpenOrdersAreKnown
<1>1. ManagerTypeOK /\ CopyInv /\ OpenInv => OpenOrdersAreKnown
  <2> SUFFICES ASSUME ManagerTypeOK, CopyInv, OpenInv PROVE OpenOrdersAreKnown
    OBVIOUS
  <2> DEFINE replying  == {Id(o) : o \in {p \in Orders : pc[p] = "reply"}}
             cancelled == IF cancelling = None THEN {} ELSE {cancelling[1]}
  <2>1. ASSUME NEW i \in Ids, i \in Live, i \notin open, i \notin lost \cup refused
        PROVE  i \in replying
    <3>1. broker[i] = "open" /\ Answered(i) /\ Tracks(i)
      BY <2>1 DEF Live, CopyInv, OpenInv, Accounted
    <3>2. i[1] \in Orders /\ i = Id(i[1]) /\ pc[i[1]] = "reply"
      BY <2>1, <3>1, IdParts DEF Answered, Tracks, Settled
    <3>3. QED
      BY <3>2
  <2>2. ASSUME NEW i \in Ids, i \in open, i \notin Live
        PROVE  i \in events \cup cancelled \cup lost \cup early
    <3>1. Posted(i) /\ Ended(i) /\ ~Gone(i)
      BY <2>2 DEF OpenInv, Accounted, Gone
    <3>2. broker[i] \in {"filled", "rejected", "cancelled"}
      BY <2>2, <3>1 DEF Posted, Live, ManagerTypeOK
    <3>3. CASE broker[i] \in {"filled", "rejected"}
      BY <3>1, <3>3 DEF Ended
    <3>4. CASE broker[i] = "cancelled"
      <4>1. i \in lost \/ cancelling = <<i, TRUE>>
        BY <3>1, <3>4 DEF Ended
      <4>2. cancelling = <<i, TRUE>> => i \in cancelled
        BY DEF None
      <4>3. QED
        BY <4>1, <4>2
    <3>5. QED
      BY <3>2, <3>3, <3>4
  <2>3. Live \subseteq Ids /\ open \subseteq Ids
    BY DEF Live, ManagerTypeOK
  <2>4. QED
    BY <2>1, <2>2, <2>3 DEF OpenOrdersAreKnown
<1>2. BudgetInv => ManagerTypeOK
  BY DEF BudgetInv
<1>3. Init => CopyInv
  BY DEF Init, CopyInv
<1>4. QED
  BY InitBudgetInv, NextBudgetInv, NextCopyInv, InitOpenInv, NextOpenInv,
     <1>1, <1>2, <1>3, PTL DEF Spec
=============================================================================
