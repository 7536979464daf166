---------------------------- MODULE RateLimiter ----------------------------
(* AlpacaRateLimiter (src/execution/rate_limiter.py): a token bucket shared  *)
(* by the coroutines of one event loop.  Time passes in ticks, the time in   *)
(* which one token is refilled.  The lock is never held across an await, so  *)
(* a turn of acquire(), from waking up to the next sleep, is one step.       *)
EXTENDS Integers, FiniteSets, FiniteSetsExt

CONSTANTS
  Callers,      \* coroutines that call acquire()
  MaxRequests,  \* capacity of the bucket: max_requests
  MinWait       \* min_wait_seconds in ticks

ASSUME RateAssumption == MaxRequests \in Nat \ {0} /\ MinWait \in Nat

VARIABLES
  tokens,  \* _tokens at the last refill
  age,     \* ticks since _last_refill, counted until the bucket would be full
  wait,    \* caller -> ticks it still sleeps
  excess   \* history: requests let through, less one per tick since
limiter == <<tokens, age, wait, excess>>

LimiterInit ==
  /\ tokens = MaxRequests /\ age = 0 /\ excess = 0
  /\ wait = [c \in Callers |-> 0]

LimiterTypeOK ==
  /\ tokens \in 0..MaxRequests /\ age \in 0..MaxRequests
  /\ wait \in [Callers -> 0..(MaxRequests + MinWait)]
  /\ excess \in Nat

(* _refill(): what the bucket holds now. *)
Refilled == Min({MaxRequests, tokens + age})

(* A variant with a bug: _last_refill stays what it was. *)
TakeStale(n) ==
  /\ Refilled >= n
  /\ tokens' = Refilled - n /\ excess' = excess + n
  /\ UNCHANGED <<age, wait>>

(* The call of c takes n tokens: the rest of the lock's body. *)
Take(n) ==
  /\ Refilled >= n
  /\ tokens' = Refilled - n /\ age' = 0 /\ excess' = excess + n
  /\ UNCHANGED wait

(* Too few: c sleeps for what is missing, and longer under load. *)
Doze(c, n) ==
  /\ Refilled < n
  /\ tokens' = Refilled /\ age' = 0
  /\ wait' = [wait EXCEPT ![c] = Max({n - Refilled, MinWait})]
  /\ UNCHANGED excess

(* A variant with a bug: the time is noted, the tokens are not.  *)
AvailableForgets ==
  /\ age > 0
  /\ age' = 0
  /\ UNCHANGED <<tokens, wait, excess>>

(* available() and stats() refill as well. *)
Available ==
  /\ age > 0
  /\ tokens' = Refilled /\ age' = 0
  /\ UNCHANGED <<wait, excess>>

Tick ==
  /\ age' = Min({MaxRequests, age + 1})
  /\ wait' = [c \in Callers |-> Max({0, wait[c] - 1})]
  /\ excess' = Max({0, excess - 1})
  /\ UNCHANGED tokens

(* Whatever the interleaving of callers, sleeps and readers of available(),  *)
(* in any stretch of time no more requests are let through than the bucket   *)
(* holds plus one per tick: excess is the worst such stretch that ends now.  *)
(* That is the bound of the bucket, not the budget of the broker: 200 in any *)
(* rolling 60 seconds, as the docstrings have it, are kept to on average     *)
(* only, and a full bucket lets through up to twice as many in one of them.  *)
BudgetIsKept == excess <= MaxRequests
=============================================================================
