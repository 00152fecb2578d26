------------------------- MODULE RateLimitMiddleware -------------------------
(***************************************************************************)
(* The rate limiter of the API: RateLimitMiddleware.dispatch and the       *)
(* InMemoryTokenBucket it keeps for each key, a client's address and the   *)
(* path it asks for.                                                       *)
(*                                                                         *)
(* dispatch awaits nothing before it has decided, so a decision is one     *)
(* step, and all a response in flight still reads of the limiter is a copy *)
(* of its own.  Buckets are made on the first request and never dropped.   *)
(* Time is the monotonic clock in ticks, Interval of them to the second,   *)
(* which is the refill interval: a request may come between two refills.   *)
(* The application lets each request cost one token.  Requests to excluded *)
(* paths pass by.                                                          *)
(***************************************************************************)
EXTENDS Integers

CONSTANTS
    Keys,      \* what _get_key may return
    Capacity,  \* tokens of a full bucket
    Rate,      \* refill_rate: tokens per refill interval
    Interval,  \* ticks per refill interval
    MaxTime,   \* bound on the clock
    None

ASSUME LimiterAssumption ==
    /\ Capacity \in Nat \ {0}
    /\ Rate \in Nat \ {0}
    /\ Interval \in Nat \ {0}
    /\ MaxTime \in Nat

Times == 0..MaxTime

Bucket == [tokens : 0..Capacity, last : Times]

Refusal == [at : Times, until : Nat]

ASSUME NoneAssumption == None \notin Bucket \cup Refusal

VARIABLES
    now,      \* time.monotonic()
    buckets,  \* _buckets: None until the first request of a key
    refused,  \* refused[k]: the latest refusal and when its client may come back,
              \* until a request of k is let through
    total,    \* total[k]: the requests of k let through
    before    \* before[k][t]: those let through before tick t

vars == <<now, buckets, refused, total, before>>

-----------------------------------------------------------------------------
(* InMemoryTokenBucket.                                                    *)

Least(m, n) == IF m <= n THEN m ELSE n

NewBucket == [tokens |-> Capacity, last |-> now]

RefillCount(b) == (now - b.last) \div Interval

Refilled_Uncapped(b) ==
    [tokens |-> b.tokens + RefillCount(b) * Rate, last |-> b.last + RefillCount(b) * Interval]

Refilled_Again(b) ==
    [tokens |-> Least(Capacity, b.tokens + RefillCount(b) * Rate), last |-> b.last]

Refilled_FromNow(b) ==
    [tokens |-> Least(Capacity, b.tokens + RefillCount(b) * Rate),
     last |-> IF RefillCount(b) > 0 THEN now ELSE b.last]

\* Whole intervals only: what is left of the last one counts at the next refill.
Refilled(b) ==
    [tokens |-> Least(Capacity, b.tokens + RefillCount(b) * Rate),
     last |-> b.last + RefillCount(b) * Interval]

RetryAfter_Truncated(b) == ((1 - b.tokens) \div Rate) * Interval

\* The Retry-After header, in ticks: whole seconds, and one more.
RetryAfter(b) == ((1 - b.tokens) \div Rate + 1) * Interval

-----------------------------------------------------------------------------
Init ==
    /\ now = 0
    /\ buckets = [k \in Keys |-> None]
    /\ refused = [k \in Keys |-> None]
    /\ total = [k \in Keys |-> 0]
    /\ before = [k \in Keys |-> [t \in Times |-> 0]]

Current(k) == Refilled(IF buckets[k] = None THEN NewBucket ELSE buckets[k])

Allow(k) ==
    /\ Current(k).tokens >= 1
    /\ buckets' = [buckets EXCEPT ![k] =
                     [tokens |-> Current(k).tokens - 1, last |-> Current(k).last]]
    /\ refused' = [refused EXCEPT ![k] = None]
    /\ total' = [total EXCEPT ![k] = @ + 1]
    /\ UNCHANGED <<now, before>>

Refuse(k) ==
    /\ Current(k).tokens < 1
    /\ buckets' = [buckets EXCEPT ![k] = Current(k)]
    /\ refused' = [refused EXCEPT ![k] = [at |-> now, until |-> now + RetryAfter(Current(k))]]
    /\ UNCHANGED <<now, total, before>>

Dispatch(k) == Allow(k) \/ Refuse(k)

Tick ==
    /\ now < MaxTime
    /\ now' = now + 1
    /\ before' = [k \in Keys |-> [before[k] EXCEPT ![now + 1] = total[k]]]
    /\ UNCHANGED <<buckets, refused, total>>

Next == Tick \/ \E k \in Keys : Dispatch(k)

Spec == Init /\ [][Next]_vars

-----------------------------------------------------------------------------
(* Properties.                                                             *)

\* A bucket never holds more than its capacity, and no clock runs ahead.
\* (consume: min(capacity, ...), last_refill += whole intervals)
TypeOK ==
    /\ now \in Times
    /\ buckets \in [Keys -> Bucket \cup {None}]
    /\ refused \in [Keys -> Refusal \cup {None}]
    /\ total \in [Keys -> Nat]
    /\ before \in [Keys -> [Times -> Nat]]
    /\ \A k \in Keys : buckets[k] # None => buckets[k].last <= now

Since(k, s) == total[k] - before[k][s]

Intervals(d) == (d + Interval - 1) \div Interval

\* In no stretch of time does a key get more than a full bucket and what is refilled
\* in every interval begun meanwhile, wherever the stretch begins between two refills.
\* (docs/architecture/security.md, "Token Bucket": capacity is the max burst)
NeverOverRate ==
    \A k \in Keys : \A s \in 0..now : Since(k, s) <= Capacity + Rate * Intervals(now - s)

\* A request is refused only when its key has had, since some moment, the capacity and
\* all the tokens of the whole intervals since: asking often, between two refills, or
\* being refused costs a client nothing.
RefusedOnlyOverRate ==
    \A k \in Keys : refused[k] # None =>
        \E s \in 0..refused[k].at :
            Since(k, s) >= Capacity + Rate * ((refused[k].at - s) \div Interval)

\* A client that waits as long as Retry-After says is let through, if no other request
\* of its key was meanwhile.
RetryHonoured ==
    \A k \in Keys : refused[k] # None /\ now >= refused[k].until => Current(k).tokens >= 1
=============================================================================
