--------------------- MODULE RateLimitMiddleware_proofs ---------------------
(***************************************************************************)
(* Proofs about RateLimitMiddleware: the bounds on what a key is granted   *)
(* and on what it is refused, for every capacity, rate and interval.       *)
(*                                                                         *)
(* Neither bound is inductive: both leave out what is in the bucket and    *)
(* when it was last refilled.  The invariant counts requests let through   *)
(* and tokens left together, over the refills since a moment s.            *)
(***************************************************************************)
EXTENDS RateLimitMiddleware, TLAPS

-----------------------------------------------------------------------------
(* The inductive invariant.                                                *)

\* No request is counted twice, and none since the bucket's next refill was due.
Counted(k, b) ==
    /\ \A s \in 0..now : before[k][s] <= total[k]
    /\ \A s \in 0..now : s >= b.last + Interval => Since(k, s) = 0

\* Requests and tokens since s are paid for by a full bucket and the refills after s.
Paid(k, b) ==
    \A s \in 0..now : \A m \in Nat :
        s + m * Interval >= b.last => Since(k, s) + b.tokens <= Capacity + Rate * m

\* Since some moment no token was lost to a full bucket.
Unspilled(k, b) ==
    \E s \in 0..now : \E n \in Nat :
        /\ b.last <= s + n * Interval
        /\ Since(k, s) + b.tokens >= Capacity + Rate * n

\* After a refusal the bucket stays empty, and is due before the client comes back.
Owed(k) ==
    refused[k] # None =>
        /\ buckets[k] # None
        /\ buckets[k].tokens = 0
        /\ buckets[k].last <= refused[k].at
        /\ refused[k].at <= now
        /\ refused[k].at + Interval <= refused[k].until
        /\ \E s \in 0..refused[k].at :
              Since(k, s) >= Capacity + Rate * ((refused[k].at - s) \div Interval)

Accounts(k, b) == b \in Bucket /\ b.last <= now /\ Counted(k, b) /\ Paid(k, b) /\ Unspilled(k, b)

Fresh(k) == total[k] = 0 /\ \A s \in 0..now : before[k][s] = 0

Inv ==
    /\ TypeOK
    /\ \A k \in Keys :
        /\ IF buckets[k] = None THEN Fresh(k) ELSE Accounts(k, buckets[k])
        /\ Owed(k)

-----------------------------------------------------------------------------
(* Arithmetic of whole intervals.                                          *)

LEMMA Quotient ==
    ASSUME NEW x \in Nat, NEW n \in Nat \ {0}
    PROVE  /\ x \div n \in Nat
           /\ (x \div n) * n <= x
           /\ x < (x \div n) * n + n
BY SMT

LEMMA Distribute ==
    ASSUME NEW r \in Int, NEW m \in Int, NEW c \in Int
    PROVE  /\ r * (m + c) = r * m + c * r
           /\ (m + c) * r = m * r + c * r
           /\ r * (m - c) = r * m - c * r
           /\ (m - c) * r = m * r - c * r
           /\ r * m \in Int /\ c * r \in Int /\ m * r \in Int
BY SMT

LEMMA Monotone ==
    ASSUME NEW r \in Nat, NEW m \in Int, NEW c \in Int, m <= c
    PROVE  r * m <= r * c /\ m * r <= c * r
BY SMT

\* Comparing products of the interval compares the factors.
LEMMA Factors ==
    ASSUME NEW r \in Nat \ {0}, NEW m \in Int, NEW c \in Int, m * r < (c + 1) * r
    PROVE  m <= c
<1> SUFFICES ASSUME ~(m <= c) PROVE FALSE
  OBVIOUS
<1>1. c + 1 <= m
  OBVIOUS
<1>2. (c + 1) * r <= m * r
  BY <1>1, Monotone
<1> QED
  BY <1>2, Distribute

-----------------------------------------------------------------------------
(* A refill keeps the accounts of a bucket.  (InMemoryTokenBucket.consume) *)

LEMMA RefillCounts ==
    ASSUME LimiterAssumption, now \in Times, NEW b \in Bucket, b.last <= now
    PROVE  /\ RefillCount(b) \in Nat
           /\ b.last + RefillCount(b) * Interval <= now
           /\ now < b.last + RefillCount(b) * Interval + Interval
           /\ RefillCount(b) * Interval \in Nat
           /\ RefillCount(b) * Rate \in Nat
           /\ Refilled(b) \in Bucket
           /\ Refilled(b).last <= now
           /\ Refilled(b).last = b.last + RefillCount(b) * Interval
           /\ Refilled(b).tokens = Least(Capacity, b.tokens + RefillCount(b) * Rate)
<1> DEFINE c == RefillCount(b)
<1>1. b.tokens \in Nat /\ b.tokens <= Capacity /\ b.last \in Nat /\ now \in Nat /\ now <= MaxTime
  BY LimiterAssumption DEF Bucket, Times, LimiterAssumption
<1>2. /\ c \in Nat
      /\ c * Interval <= now - b.last
      /\ now - b.last < c * Interval + Interval
  <2>1. now - b.last \in Nat /\ Interval \in Nat \ {0}
    BY <1>1 DEF LimiterAssumption
  <2>2. c = (now - b.last) \div Interval
    BY DEF RefillCount
  <2> HIDE DEF c
  <2> QED
    BY <2>1, <2>2, Quotient
<1>3. c * Interval \in Nat /\ c * Rate \in Nat
  <2>1. 0 * Interval <= c * Interval /\ 0 * Rate <= c * Rate
    BY <1>2, Monotone DEF LimiterAssumption
  <2>2. c * Interval \in Int /\ c * Rate \in Int
    BY <1>2, Distribute DEF LimiterAssumption
  <2> QED
    BY <2>1, <2>2 DEF LimiterAssumption
<1> HIDE DEF c
<1>4. /\ Least(Capacity, b.tokens + c * Rate) \in 0..Capacity
      /\ b.last + c * Interval \in Times
      /\ b.last + c * Interval <= now
      /\ now < b.last + c * Interval + Interval
  BY <1>1, <1>2, <1>3 DEF Least, Times, LimiterAssumption
<1> QED
  BY <1>2, <1>3, <1>4 DEF Refilled, Bucket, c

LEMMA RefillKeepsPaid ==
    ASSUME LimiterAssumption, TypeOK, NEW k \in Keys, NEW b \in Bucket, b.last <= now,
           Counted(k, b), Paid(k, b)
    PROVE  Counted(k, Refilled(b)) /\ Paid(k, Refilled(b))
<1> DEFINE c == RefillCount(b)
           r == Refilled(b)
<1>1. /\ c \in Nat
      /\ c * Interval \in Nat
      /\ c * Rate \in Nat
      /\ r.last = b.last + c * Interval
      /\ r.tokens = Least(Capacity, b.tokens + c * Rate)
  BY RefillCounts DEF TypeOK
<1>2. b.tokens \in Nat /\ b.tokens <= Capacity /\ b.last \in Nat /\ now \in Nat /\ 0..now \subseteq Times
  BY DEF Bucket, Times, TypeOK, LimiterAssumption
<1>3. \A s \in 0..now : Since(k, s) \in Nat
  BY <1>2 DEF Counted, TypeOK, Since
<1> HIDE DEF c, r
<1>4. Counted(k, r)
  BY <1>1, <1>2 DEF Counted, LimiterAssumption
<1>5. ASSUME NEW s \in 0..now, NEW m \in Nat, s + m * Interval >= r.last
      PROVE  Since(k, s) + r.tokens <= Capacity + Rate * m
  <2>1. m * Interval \in Int /\ Rate * m \in Int /\ 0 <= Rate * m
    <3>1. Rate * 0 <= Rate * m
      BY Monotone DEF LimiterAssumption
    <3> QED
      BY <3>1, Distribute DEF LimiterAssumption
  <2>2. CASE c <= m
    <3>1. m - c \in Nat
      BY <2>2, <1>1
    <3>2. (m - c) * Interval = m * Interval - c * Interval /\ Rate * (m - c) = Rate * m - c * Rate
      BY <1>1, Distribute DEF LimiterAssumption
    <3>3. s + (m - c) * Interval >= b.last
      BY <3>2, <2>1, <1>1, <1>2, <1>5
    <3>4. Since(k, s) + b.tokens <= Capacity + Rate * (m - c)
      BY <3>1, <3>3 DEF Paid
    <3>5. r.tokens <= b.tokens + c * Rate
      BY <1>1, <1>2 DEF Least, LimiterAssumption
    <3>6. r.tokens \in Int
      BY <1>1, <1>2 DEF Least, LimiterAssumption
    <3> QED
      BY <3>2, <3>4, <3>5, <3>6, <2>1, <1>1, <1>2, <1>3 DEF LimiterAssumption
  <2>3. CASE m < c
    <3>1. (m + 1) * Interval <= c * Interval
      BY <2>3, <1>1, Monotone DEF LimiterAssumption
    <3>2. (m + 1) * Interval = m * Interval + Interval
      BY Distribute DEF LimiterAssumption
    <3>3. s >= b.last + Interval
      BY <3>1, <3>2, <2>1, <1>1, <1>2, <1>5 DEF LimiterAssumption
    <3>4. Since(k, s) = 0
      BY <3>3 DEF Counted
    <3>5. r.tokens <= Capacity /\ r.tokens \in Int
      BY <1>1, <1>2 DEF Least, LimiterAssumption
    <3> QED
      BY <3>4, <3>5, <2>1 DEF LimiterAssumption
  <2> QED
    BY <2>2, <2>3, <1>1
<1>6. Paid(k, r)
  BY <1>5 DEF Paid
<1> QED
  BY <1>4, <1>6 DEF r

LEMMA RefillKeepsUnspilled ==
    ASSUME LimiterAssumption, TypeOK, NEW k \in Keys, NEW b \in Bucket, b.last <= now,
           Counted(k, b), Unspilled(k, b)
    PROVE  Unspilled(k, Refilled(b))
<1> DEFINE c == RefillCount(b)
           r == Refilled(b)
<1>1. /\ c \in Nat
      /\ c * Interval \in Nat
      /\ c * Rate \in Nat
      /\ r.last = b.last + c * Interval
      /\ r.last <= now
      /\ r.tokens = Least(Capacity, b.tokens + c * Rate)
  BY RefillCounts DEF TypeOK
<1>2. b.tokens \in Nat /\ b.tokens <= Capacity /\ b.last \in Nat /\ now \in Nat /\ 0..now \subseteq Times
  BY DEF Bucket, Times, TypeOK, LimiterAssumption
<1>3. \A s \in 0..now : Since(k, s) \in Nat
  BY <1>2 DEF Counted, TypeOK, Since
<1> HIDE DEF c, r
<1>4. CASE b.tokens + c * Rate < Capacity
  <2>1. PICK s \in 0..now, n \in Nat :
            b.last <= s + n * Interval /\ Since(k, s) + b.tokens >= Capacity + Rate * n
    BY DEF Unspilled
  <2>2. /\ n + c \in Nat
        /\ (n + c) * Interval = n * Interval + c * Interval
        /\ Rate * (n + c) = Rate * n + c * Rate
        /\ n * Interval \in Int
        /\ Rate * n \in Int
    BY <1>1, Distribute DEF LimiterAssumption
  <2>3. r.last <= s + (n + c) * Interval
    BY <2>1, <2>2, <1>1, <1>2
  <2>4. r.tokens = b.tokens + c * Rate
    BY <1>4, <1>1, <1>2 DEF Least, LimiterAssumption
  <2>5. Since(k, s) + r.tokens >= Capacity + Rate * (n + c)
    BY <2>1, <2>2, <2>4, <1>1, <1>2, <1>3 DEF LimiterAssumption
  <2> QED
    BY <2>2, <2>3, <2>5 DEF Unspilled, r
<1>5. CASE ~(b.tokens + c * Rate < Capacity)
  <2>1. r.tokens = Capacity
    BY <1>5, <1>1, <1>2 DEF Least, LimiterAssumption
  <2>2. 0 * Interval = 0 /\ Rate * 0 = 0
    BY DEF LimiterAssumption
  <2>3. /\ r.last <= now + 0 * Interval
        /\ Since(k, now) + r.tokens >= Capacity + Rate * 0
    BY <2>1, <2>2, <1>1, <1>2, <1>3 DEF LimiterAssumption
  <2>4. now \in 0..now /\ 0 \in Nat
    BY <1>2
  <2> QED
    BY <2>3, <2>4 DEF Unspilled, r
<1> QED
  BY <1>4, <1>5

-----------------------------------------------------------------------------
(* Every step keeps the invariant.                                         *)

LEMMA InitInv == Init => Inv
<1> SUFFICES ASSUME Init PROVE Inv
  OBVIOUS
<1>1. 0 \in Times
  BY LimiterAssumption DEF Times, LimiterAssumption
<1>2. TypeOK
  BY <1>1 DEF Init, TypeOK
<1>3. ASSUME NEW k \in Keys
      PROVE  buckets[k] = None /\ Fresh(k) /\ Owed(k)
  <2>1. 0..now = {0}
    BY DEF Init
  <2> QED
    BY <1>1, <2>1 DEF Init, Fresh, Owed
<1> QED
  BY <1>2, <1>3 DEF Inv

\* What dispatch works with is in order, whether the key has a bucket or gets one.
LEMMA CurrentAccounts ==
    ASSUME Inv, NEW k \in Keys
    PROVE  Accounts(k, Current(k)) /\ now < Current(k).last + Interval
<1> DEFINE b == IF buckets[k] = None THEN NewBucket ELSE buckets[k]
<1>1. TypeOK /\ now \in Nat /\ now \in Times /\ now \in 0..now
  BY LimiterAssumption DEF Inv, TypeOK, Times, LimiterAssumption
<1>2. Accounts(k, b)
  <2>1. CASE buckets[k] = None
    <3>1. b = NewBucket
      BY <2>1
    <3> HIDE DEF b
    <3>2. b \in Bucket /\ b.last = now /\ b.tokens = Capacity
      BY <3>1, <1>1, LimiterAssumption DEF NewBucket, Bucket, LimiterAssumption
    <3>3. \A s \in 0..now : before[k][s] = 0 /\ total[k] = 0 /\ Since(k, s) = 0
      BY <2>1 DEF Inv, Fresh, Since
    <3>4. Counted(k, b)
      BY <3>3 DEF Counted
    <3>5. Paid(k, b)
      <4> SUFFICES ASSUME NEW s \in 0..now, NEW m \in Nat
                   PROVE  Since(k, s) + b.tokens <= Capacity + Rate * m
        BY DEF Paid
      <4>1. Rate * 0 <= Rate * m /\ Rate * m \in Int
        BY LimiterAssumption, Monotone, Distribute DEF LimiterAssumption
      <4> QED
        BY <4>1, <3>2, <3>3, LimiterAssumption DEF LimiterAssumption
    <3>6. Unspilled(k, b)
      <4>1. 0 * Interval = 0 /\ Rate * 0 = 0
        BY LimiterAssumption DEF LimiterAssumption
      <4>2. b.last <= now + 0 * Interval /\ Since(k, now) + b.tokens >= Capacity + Rate * 0
        BY <4>1, <3>2, <3>3, <1>1, LimiterAssumption DEF LimiterAssumption
      <4> QED
        BY <4>2, <1>1 DEF Unspilled
    <3> QED
      BY <3>2, <3>4, <3>5, <3>6, <1>1 DEF Accounts
  <2>2. CASE buckets[k] # None
    BY <2>2 DEF Inv
  <2> QED
    BY <2>1, <2>2
<1> HIDE DEF b
<1>3. b \in Bucket /\ b.last <= now /\ Counted(k, b) /\ Paid(k, b) /\ Unspilled(k, b)
  BY <1>2 DEF Accounts
<1>4. Current(k) = Refilled(b)
  BY DEF Current, b
<1>5. /\ Refilled(b) \in Bucket
      /\ Refilled(b).last <= now
      /\ now < Refilled(b).last + Interval
  BY <1>1, <1>3, RefillCounts, LimiterAssumption
<1>6. Counted(k, Refilled(b)) /\ Paid(k, Refilled(b)) /\ Unspilled(k, Refilled(b))
  BY <1>1, <1>3, RefillKeepsPaid, RefillKeepsUnspilled, LimiterAssumption
<1> QED
  BY <1>4, <1>5, <1>6 DEF Accounts

LEMMA CurrentBounds ==
    ASSUME Inv, NEW k \in Keys
    PROVE  /\ now \in Nat /\ now \in Times /\ 0..now \subseteq Times
           /\ total[k] \in Nat
           /\ \A s \in 0..now : before[k][s] \in Nat /\ before[k][s] <= total[k] /\ Since(k, s) \in Nat
           /\ Current(k) \in Bucket
           /\ Current(k).tokens \in Nat
           /\ Current(k).tokens <= Capacity
           /\ Current(k).last \in Nat
           /\ Current(k).last <= now
<1>1. TypeOK /\ Accounts(k, Current(k))
  BY CurrentAccounts DEF Inv
<1>2. now \in Nat /\ now \in Times /\ 0..now \subseteq Times /\ total[k] \in Nat
  BY <1>1, LimiterAssumption DEF TypeOK, Times, LimiterAssumption
<1>3. \A s \in 0..now : before[k][s] \in Nat /\ before[k][s] <= total[k]
  BY <1>1, <1>2 DEF TypeOK, Accounts, Counted
<1>4. \A s \in 0..now : Since(k, s) \in Nat
  BY <1>2, <1>3 DEF Since
<1>5. Current(k) \in Bucket /\ Current(k).last <= now
  BY <1>1 DEF Accounts
<1> HIDE DEF Current
<1> QED
  BY <1>2, <1>3, <1>4, <1>5, LimiterAssumption DEF Bucket, Times, LimiterAssumption

\* Requests of other keys do not touch a key's accounts.
LEMMA OtherKept ==
    ASSUME Inv, NEW k \in Keys, NEW j \in Keys, j # k,
           NEW b, buckets' = [buckets EXCEPT ![k] = b],
           NEW r, refused' = [refused EXCEPT ![k] = r],
           NEW t, total' = [total EXCEPT ![k] = t],
           now' = now, before' = before
    PROVE  /\ IF buckets'[j] = None THEN Fresh(j)' ELSE Accounts(j, buckets[j])'
           /\ Owed(j)'
<1>1. buckets'[j] = buckets[j] /\ refused'[j] = refused[j] /\ total'[j] = total[j]
  BY DEF Inv, TypeOK
<1>2. IF buckets[j] = None THEN Fresh(j) ELSE Accounts(j, buckets[j])
  BY DEF Inv
<1>3. Owed(j)
  BY DEF Inv
<1>4. \A s : Since(j, s)' = Since(j, s)
  BY <1>1 DEF Since
<1>5. Fresh(j) => Fresh(j)'
  BY <1>1 DEF Fresh
<1>6. Accounts(j, buckets[j]) => Accounts(j, buckets[j])'
  BY <1>1, <1>4 DEF Accounts, Counted, Paid, Unspilled
<1>7. Owed(j)'
  BY <1>1, <1>3, <1>4 DEF Owed
<1> QED
  BY <1>1, <1>2, <1>5, <1>6, <1>7

\* A request let through turns one token into one request.
LEMMA AllowInv ==
    ASSUME Inv, NEW k \in Keys, Allow(k)
    PROVE  Inv'
<1>0. PICK r \in Bucket : r = Current(k)
  BY CurrentBounds
<1>b. PICK b \in Bucket : b = [tokens |-> r.tokens - 1, last |-> r.last]
  <2>1. r.tokens >= 1
    BY <1>0 DEF Allow
  <2>2. r.tokens \in 0..Capacity /\ r.last \in Times
    BY DEF Bucket
  <2>3. r.tokens - 1 \in 0..Capacity
    BY <2>1, <2>2, LimiterAssumption DEF LimiterAssumption
  <2>4. [tokens |-> r.tokens - 1, last |-> r.last] \in Bucket
    BY <2>2, <2>3 DEF Bucket
  <2> QED
    BY <2>4
<1>1. /\ buckets' = [buckets EXCEPT ![k] = b]
      /\ refused' = [refused EXCEPT ![k] = None]
      /\ total' = [total EXCEPT ![k] = @ + 1]
      /\ now' = now
      /\ before' = before
  BY <1>0, <1>b DEF Allow
<1>2. /\ now \in Nat /\ now \in Times /\ 0..now \subseteq Times
      /\ total[k] \in Nat
      /\ \A s \in 0..now : before[k][s] \in Nat /\ before[k][s] <= total[k] /\ Since(k, s) \in Nat
      /\ r.tokens \in Nat
      /\ r.tokens <= Capacity
      /\ r.last \in Nat
      /\ r.last <= now
  BY <1>0, CurrentBounds
<1>3. TypeOK /\ Counted(k, r) /\ Paid(k, r) /\ Unspilled(k, r) /\ now < r.last + Interval
  BY <1>0, CurrentAccounts DEF Inv, Accounts
<1>4. b # None /\ b.last = r.last /\ b.tokens = r.tokens - 1 /\ b.tokens \in Int
  BY <1>b, <1>2, NoneAssumption
<1>5. buckets'[k] = b /\ total'[k] = total[k] + 1 /\ refused'[k] = None
  BY <1>1, <1>3 DEF TypeOK
<1>6. TypeOK'
  BY <1>1, <1>2, <1>3, <1>4 DEF TypeOK
<1>7. \A s \in 0..now : Since(k, s)' = Since(k, s) + 1
  BY <1>1, <1>2, <1>5 DEF Since
<1>8. Accounts(k, b)'
  <2>1. Counted(k, b)'
    <3>1. \A s \in 0..now : ~(s >= b.last + Interval)
      BY <1>2, <1>3, <1>4, LimiterAssumption DEF LimiterAssumption
    <3> QED
      BY <3>1, <1>1, <1>2, <1>5 DEF Counted
  <2>2. Paid(k, b)'
    <3> SUFFICES ASSUME NEW s \in 0..now, NEW m \in Nat, s + m * Interval >= b.last
                 PROVE  Since(k, s)' + b.tokens <= Capacity + Rate * m
      BY <1>1 DEF Paid
    <3>1. Since(k, s) + r.tokens <= Capacity + Rate * m
      BY <1>3, <1>4 DEF Paid
    <3>2. Since(k, s)' + b.tokens = Since(k, s) + r.tokens
      BY <1>7, <1>2, <1>4
    <3> QED
      BY <3>1, <3>2
  <2>3. Unspilled(k, b)'
    <3>1. PICK s \in 0..now, n \in Nat :
              r.last <= s + n * Interval /\ Since(k, s) + r.tokens >= Capacity + Rate * n
      BY <1>3 DEF Unspilled
    <3>2. Since(k, s)' + b.tokens = Since(k, s) + r.tokens
      BY <1>7, <1>2, <1>4
    <3>3. b.last <= s + n * Interval /\ Since(k, s)' + b.tokens >= Capacity + Rate * n
      BY <3>1, <3>2, <1>4
    <3> QED
      BY <3>3, <1>1 DEF Unspilled
  <2> QED
    BY <2>1, <2>2, <2>3, <1>1, <1>2, <1>4 DEF Accounts
<1>9. ASSUME NEW j \in Keys
      PROVE  /\ IF buckets'[j] = None THEN Fresh(j)' ELSE Accounts(j, buckets[j])'
             /\ Owed(j)'
  <2>1. CASE j = k
    BY <2>1, <1>4, <1>5, <1>8 DEF Owed
  <2>2. CASE j # k
    BY <2>2, <1>1, <1>3, OtherKept
  <2> QED
    BY <2>1, <2>2
<1> QED
  BY <1>6, <1>9 DEF Inv

\* A refused request leaves the bucket empty.
LEMMA RefuseInv ==
    ASSUME Inv, NEW k \in Keys, Refuse(k)
    PROVE  Inv'
<1>0. PICK r \in Bucket : r = Current(k)
  BY CurrentBounds
<1>1. PICK until \in Nat :
        /\ until >= now + Interval
        /\ buckets' = [buckets EXCEPT ![k] = r]
        /\ refused' = [refused EXCEPT ![k] = [at |-> now, until |-> until]]
        /\ r.tokens = 0
        /\ now' = now
        /\ total' = total
        /\ before' = before
  <2>1. r.tokens = 0 /\ now \in Nat
    BY <1>0, CurrentBounds DEF Refuse
  <2>2. 1 \div Rate \in Nat
    BY Quotient, LimiterAssumption DEF LimiterAssumption
  <2>3. (1 \div Rate + 1) * Interval >= Interval /\ (1 \div Rate + 1) * Interval \in Int
    <3>1. 1 * Interval <= (1 \div Rate + 1) * Interval
      BY <2>2, Monotone, LimiterAssumption DEF LimiterAssumption
    <3>2. (1 \div Rate + 1) * Interval \in Int
      BY <2>2, Distribute, LimiterAssumption DEF LimiterAssumption
    <3> QED
      BY <3>1, <3>2, LimiterAssumption DEF LimiterAssumption
  <2>4. RetryAfter(Current(k)) = (1 \div Rate + 1) * Interval
    BY <2>1, <1>0 DEF RetryAfter
  <2>5. now + RetryAfter(Current(k)) \in Nat /\ now + RetryAfter(Current(k)) >= now + Interval
    BY <2>1, <2>3, <2>4, LimiterAssumption DEF LimiterAssumption
  <2> QED
    BY <2>1, <2>5, <1>0 DEF Refuse
<1>2. /\ now \in Nat /\ now \in Times /\ 0..now \subseteq Times
      /\ \A s \in 0..now : Since(k, s) \in Nat
      /\ r.last \in Nat
      /\ r.last <= now
  BY <1>0, CurrentBounds
<1>3. /\ TypeOK
      /\ r # None
      /\ Accounts(k, r)
      /\ Unspilled(k, r)
      /\ now < r.last + Interval
  BY <1>0, CurrentAccounts, NoneAssumption DEF Inv, Accounts
<1>4. buckets'[k] = r /\ refused'[k] = [at |-> now, until |-> until]
  BY <1>1, <1>3 DEF TypeOK
<1>5. TypeOK'
  <2>1. [at |-> now, until |-> until] \in Refusal
    BY <1>2 DEF Refusal
  <2> QED
    BY <2>1, <1>1, <1>2, <1>3 DEF TypeOK
<1>6. Accounts(k, r)'
  BY <1>1, <1>3 DEF Accounts, Counted, Paid, Unspilled, Since
<1>7. \E s \in 0..now : Since(k, s) >= Capacity + Rate * ((now - s) \div Interval)
  <2>1. PICK s \in 0..now, n \in Nat :
            r.last <= s + n * Interval /\ Since(k, s) + r.tokens >= Capacity + Rate * n
    BY <1>3 DEF Unspilled
  <2>2. now - s \in Nat
    BY <1>2
  <2>3. PICK q \in Nat : q = (now - s) \div Interval /\ q * Interval <= now - s
    BY <2>2, Quotient, LimiterAssumption DEF LimiterAssumption
  <2>4. q <= n
    <3>1. /\ n * Interval \in Int
          /\ q * Interval \in Int
          /\ (n + 1) * Interval = n * Interval + 1 * Interval
      BY Distribute, LimiterAssumption DEF LimiterAssumption
    <3>2. q * Interval < (n + 1) * Interval
      BY <3>1, <2>1, <2>3, <1>2, <1>3, LimiterAssumption DEF LimiterAssumption
    <3> QED
      BY <3>2, Factors, LimiterAssumption DEF LimiterAssumption
  <2>5. Rate * q <= Rate * n /\ Rate * q \in Int /\ Rate * n \in Int
    BY <2>4, Monotone, Distribute, LimiterAssumption DEF LimiterAssumption
  <2>6. Since(k, s) >= Capacity + Rate * q
    BY <2>1, <2>5, <1>1, <1>2, LimiterAssumption DEF LimiterAssumption
  <2> QED
    BY <2>6, <2>3
<1>8. Owed(k)'
  <2>1. \A s \in 0..now : Since(k, s)' = Since(k, s)
    BY <1>1 DEF Since
  <2>2. \E s \in 0..now : Since(k, s)' >= Capacity + Rate * ((now - s) \div Interval)
    BY <2>1, <1>7
  <2> QED
    BY <2>2, <1>1, <1>2, <1>3, <1>4 DEF Owed
<1>9. ASSUME NEW j \in Keys
      PROVE  /\ IF buckets'[j] = None THEN Fresh(j)' ELSE Accounts(j, buckets[j])'
             /\ Owed(j)'
  <2>1. CASE j = k
    BY <2>1, <1>3, <1>4, <1>6, <1>8
  <2>2. CASE j # k
    <3>1. total' = [total EXCEPT ![k] = total[k]]
      BY <1>1, <1>3 DEF TypeOK
    <3> QED
      BY <2>2, <3>1, <1>1, OtherKept
  <2> QED
    BY <2>1, <2>2
<1> QED
  BY <1>5, <1>9 DEF Inv

\* Time passes: the new moment has had no request yet.
LEMMA TickInv ==
    ASSUME Inv, Tick
    PROVE  Inv'
<1>1. /\ now < MaxTime
      /\ now' = now + 1
      /\ before' = [k \in Keys |-> [before[k] EXCEPT ![now + 1] = total[k]]]
      /\ buckets' = buckets
      /\ refused' = refused
      /\ total' = total
  BY DEF Tick
<1>2. TypeOK /\ now \in Nat /\ now' \in Times /\ MaxTime \in Nat /\ now + 1 \in Times
  BY <1>1, LimiterAssumption DEF Inv, TypeOK, Times, LimiterAssumption
<1>t. PICK t \in Times : t = now + 1
  BY <1>2
<1>3. \A k \in Keys : /\ \A s \in 0..now : before'[k][s] = before[k][s]
                      /\ before'[k][t] = total[k]
  BY <1>1, <1>2, <1>t DEF TypeOK, Times
<1>4. TypeOK'
  <2>1. \A k \in Keys : before'[k] \in [Times -> Nat]
    BY <1>1, <1>2 DEF TypeOK
  <2>2. before' \in [Keys -> [Times -> Nat]]
    BY <2>1, <1>1
  <2>3. \A k \in Keys : buckets[k] # None => buckets[k].last \in Nat
    BY DEF Inv, TypeOK, Bucket, Times
  <2>4. \A k \in Keys : buckets'[k] # None => buckets'[k].last <= now'
    BY <2>3, <1>1, <1>2 DEF TypeOK
  <2> QED
    BY <2>2, <2>4, <1>1, <1>2 DEF TypeOK
<1>5. 0..now' = (0..now) \cup {t}
  BY <1>1, <1>2, <1>t
<1>6. \A k \in Keys : /\ \A s \in 0..now : Since(k, s)' = Since(k, s)
                      /\ Since(k, t)' = 0
                      /\ total[k] \in Nat
  BY <1>1, <1>2, <1>3 DEF Since, TypeOK
<1>7. ASSUME NEW k \in Keys
      PROVE  /\ IF buckets'[k] = None THEN Fresh(k)' ELSE Accounts(k, buckets[k])'
             /\ Owed(k)'
  <2>1. CASE buckets[k] = None
    <3>1. Fresh(k)
      BY <2>1 DEF Inv
    <3>2. Fresh(k)'
      BY <3>1, <1>1, <1>3, <1>5 DEF Fresh
    <3>3. Owed(k)'
      BY <2>1, <1>1 DEF Inv, Owed
    <3> QED
      BY <2>1, <3>2, <3>3, <1>1
  <2>2. CASE buckets[k] # None
    <3>1. PICK b \in Bucket : b = buckets[k]
      BY <2>2 DEF Inv, Accounts
    <3>2. b.last <= now /\ Counted(k, b) /\ Paid(k, b) /\ Unspilled(k, b)
      BY <2>2, <3>1 DEF Inv, Accounts
    <3>3. b.last \in Nat /\ b.tokens \in Nat /\ b.tokens <= Capacity
      BY LimiterAssumption DEF Bucket, Times, LimiterAssumption
    <3>4. Counted(k, b)'
      BY <3>2, <1>1, <1>3, <1>5, <1>6 DEF Counted
    <3>5. Paid(k, b)'
      <4>1. ASSUME NEW m \in Nat
            PROVE  Since(k, t)' + b.tokens <= Capacity + Rate * m
        <5>1. Rate * 0 <= Rate * m /\ Rate * m \in Int
          BY LimiterAssumption, Monotone, Distribute DEF LimiterAssumption
        <5> QED
          BY <5>1, <3>3, <1>6, LimiterAssumption DEF LimiterAssumption
      <4>2. ASSUME NEW s \in 0..now, NEW m \in Nat, s + m * Interval >= b.last
            PROVE  Since(k, s)' + b.tokens <= Capacity + Rate * m
        BY <4>2, <3>2, <1>6 DEF Paid
      <4> QED
        BY <4>1, <4>2, <1>5 DEF Paid
    <3>6. Unspilled(k, b)'
      BY <3>2, <1>5, <1>6 DEF Unspilled
    <3>7. Accounts(k, b)'
      BY <3>2, <3>3, <3>4, <3>5, <3>6, <1>1, <1>2 DEF Accounts
    <3>8. Owed(k)'
      <4>1. CASE refused[k] = None
        BY <4>1, <1>1 DEF Owed
      <4>2. CASE refused[k] # None
        <5>1. Owed(k) /\ refused[k] \in Refusal
          BY <4>2, <1>2 DEF Inv, TypeOK
        <5>2. refused[k].at \in Nat /\ refused[k].at <= now
          BY <4>2, <5>1, LimiterAssumption DEF Owed, Refusal, Times, LimiterAssumption
        <5>3. \A s \in 0..refused[k].at : Since(k, s)' = Since(k, s)
          BY <5>2, <1>2, <1>6
        <5> QED
          BY <4>2, <5>1, <5>2, <5>3, <1>1, <1>2 DEF Owed
      <4> QED
        BY <4>1, <4>2
    <3> QED
      BY <2>2, <3>1, <3>7, <3>8, <1>1
  <2> QED
    BY <2>1, <2>2
<1> QED
  BY <1>4, <1>7 DEF Inv

LEMMA NextInv == Inv /\ [Next]_vars => Inv'
<1> SUFFICES ASSUME Inv, [Next]_vars PROVE Inv'
  OBVIOUS
<1>1. CASE Tick
  BY <1>1, TickInv
<1>2. ASSUME NEW k \in Keys, Dispatch(k) PROVE Inv'
  BY <1>2, AllowInv, RefuseInv DEF Dispatch
<1>3. CASE UNCHANGED vars
  BY <1>3 DEF vars, Inv, TypeOK, Fresh, Accounts, Counted, Paid, Unspilled, Owed, Since
<1> QED
  BY <1>1, <1>2, <1>3 DEF Next

\* The accounts of every key hold in every state of the limiter.
THEOREM Invariance == Spec => []Inv
<1> QED
  BY InitInv, NextInv, PTL DEF Spec

-----------------------------------------------------------------------------
(* What follows for the clients.                                           *)

\* A bucket never holds more than its capacity.  (InMemoryTokenBucket.consume)
THEOREM TypeCorrect == Spec => []TypeOK
<1>1. Inv => TypeOK
  BY DEF Inv
<1> QED
  BY <1>1, Invariance, PTL

LEMMA InvRate == Inv => NeverOverRate
<1> SUFFICES ASSUME Inv, NEW k \in Keys, NEW s \in 0..now
             PROVE  Since(k, s) <= Capacity + Rate * Intervals(now - s)
  BY DEF NeverOverRate
<1>1. now \in Nat /\ now - s \in Nat /\ Interval \in Nat \ {0} /\ now - s + Interval - 1 \in Nat
  BY CurrentBounds, LimiterAssumption DEF LimiterAssumption
<1>2. PICK m \in Nat :
        /\ m = Intervals(now - s)
        /\ m * Interval \in Int
        /\ now - s + Interval - 1 < m * Interval + Interval
  BY <1>1, Quotient, Distribute DEF Intervals
<1>3. Rate * 0 <= Rate * m /\ Rate * m \in Int
  BY LimiterAssumption, Monotone, Distribute DEF LimiterAssumption
<1>4. CASE buckets[k] = None
  <2>1. Since(k, s) = 0
    BY <1>4 DEF Inv, Fresh, Since
  <2> QED
    BY <2>1, <1>2, <1>3, LimiterAssumption DEF LimiterAssumption
<1>5. CASE buckets[k] # None
  <2>1. PICK b \in Bucket : b = buckets[k]
    BY <1>5 DEF Inv, Accounts
  <2>2. b.last <= now /\ Paid(k, b)
    BY <1>5, <2>1 DEF Inv, Accounts
  <2>3. b.tokens \in Nat /\ b.last \in Nat
    BY DEF Bucket, Times
  <2>4. s + m * Interval >= b.last
    BY <2>2, <2>3, <1>1, <1>2
  <2>5. Since(k, s) + b.tokens <= Capacity + Rate * m
    BY <2>2, <2>4 DEF Paid
  <2>6. Since(k, s) \in Nat
    BY CurrentBounds
  <2> QED
    BY <2>3, <2>5, <2>6, <1>2, <1>3, LimiterAssumption DEF LimiterAssumption
<1> QED
  BY <1>4, <1>5

\* In no stretch of time does a key get more than a full bucket and the refills of the
\* intervals begun.  (InMemoryTokenBucket.consume)
THEOREM RateKept == Spec => []NeverOverRate
<1> QED
  BY Invariance, InvRate, PTL

\* A request is refused only when its key has had all the limit allows.
\* (InMemoryTokenBucket.consume: last_refill keeps the begun interval)
THEOREM RefusalJustified == Spec => []RefusedOnlyOverRate
<1>1. Inv => RefusedOnlyOverRate
  BY DEF Inv, Owed, RefusedOnlyOverRate
<1> QED
  BY <1>1, Invariance, PTL

LEMMA InvRetry == Inv => RetryHonoured
<1> SUFFICES ASSUME Inv, NEW k \in Keys, refused[k] # None, now >= refused[k].until
             PROVE  Current(k).tokens >= 1
  BY DEF RetryHonoured
<1>1. TypeOK /\ Owed(k) /\ buckets[k] # None
  BY DEF Inv, Owed
<1>2. PICK b \in Bucket : b = buckets[k]
  BY <1>1 DEF TypeOK
<1>3. b.tokens = 0 /\ b.last + Interval <= now /\ now \in Times /\ b.last <= now
  <2>1. refused[k] \in Refusal
    BY <1>1 DEF TypeOK
  <2>2. refused[k].at \in Nat /\ refused[k].until \in Nat /\ now \in Nat /\ b.last \in Nat
    BY <2>1, <1>1, LimiterAssumption DEF TypeOK, Refusal, Bucket, Times, LimiterAssumption
  <2> QED
    BY <2>2, <1>1, <1>2, LimiterAssumption DEF Owed, TypeOK, LimiterAssumption
<1> DEFINE c == RefillCount(b)
<1>4. /\ c \in Nat
      /\ now < b.last + c * Interval + Interval
      /\ c * Interval \in Nat
      /\ c * Rate \in Nat
      /\ Refilled(b).tokens = Least(Capacity, b.tokens + c * Rate)
  BY <1>3, RefillCounts, LimiterAssumption
<1> HIDE DEF c
<1>5. c >= 1
  <2> SUFFICES ASSUME c = 0 PROVE FALSE
    BY <1>4
  <2>1. c * Interval = 0
    BY LimiterAssumption DEF LimiterAssumption
  <2> QED
    BY <2>1, <1>3, <1>4, LimiterAssumption DEF Times, Bucket, LimiterAssumption
<1>6. c * Rate >= 1
  <2>1. 1 * Rate <= c * Rate
    BY <1>4, <1>5, Monotone, LimiterAssumption DEF LimiterAssumption
  <2> QED
    BY <2>1, <1>4, LimiterAssumption DEF LimiterAssumption
<1>7. Current(k) = Refilled(b)
  BY <1>1, <1>2 DEF Current
<1> QED
  BY <1>3, <1>4, <1>6, <1>7, LimiterAssumption DEF Least, LimiterAssumption

\* A client that waits as long as it was told is let through.
\* (RateLimitMiddleware.dispatch: Retry-After)
THEOREM RetryKept == Spec => []RetryHonoured
<1> QED
  BY Invariance, InvRetry, PTL
=============================================================================
