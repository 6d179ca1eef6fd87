---------------------------- MODULE TokenBucket ----------------------------
(***************************************************************************)
(* The token buckets of a GBR QER in UPF-U's downlink shaper               *)
(* (upf_u_trtcm.c): "gfbr" for the guaranteed and "mfbr" for the maximum   *)
(* flow bit rate.  A bucket is refilled only when a packet asks for        *)
(* tokens: the cycles since last_cycle are turned into whole tokens, and   *)
(* last_cycle moves forward by the cycles those tokens cost.  Both         *)
(* divisions round down.  Guaranteed service takes from both buckets,      *)
(* excess service from "mfbr" alone; the bucket of the session's AMBR is   *)
(* used like "mfbr" in excess service.                                     *)
(*                                                                         *)
(* Time is a bounded counter of cycles.  The 64-bit limits of the code are *)
(* out of reach of any bucket within the bounds and are left out.          *)
(***************************************************************************)
EXTENDS Integers, TLAPS

CONSTANTS
    Hz,             \* rte_get_tsc_hz()
    Rates,          \* the nonzero rates in Kbps a QER may carry
    MinDepth,       \* MIN_TOKEN_BUCKET_DEPTH
    BurstMs,        \* TOKEN_BUCKET_BURST_MS and TRTCM_BURST_MS
    PktLens,        \* lengths of packets
    MaxCycle        \* bound on time

ASSUME BucketAssumption ==
    /\ Hz \in Nat \ {0} /\ Rates \subseteq Nat \ {0} /\ MinDepth \in Nat /\ BurstMs \in Nat
    /\ PktLens \subseteq Nat /\ MaxCycle \in Nat

VARIABLES
    tb,             \* bucket -> its rate, depth, tokens and last_cycle
    now,            \* rte_get_tsc_cycles()
    ledger          \* history: what each bucket gave since it was configured

bucketVars == <<tb, now, ledger>>

Buckets == {"gfbr", "mfbr"}

Larger(a, b) == IF a > b THEN a ELSE b

ByteRate(rate) == rate * 125

shaper_bucket_depth(rate) ==
    IF rate = 0 THEN 0 ELSE Larger((rate * BurstMs + 7) \div 8, MinDepth)

initBucket(rate) ==
    [rate |-> rate, depth |-> shaper_bucket_depth(rate),
     tokens |-> shaper_bucket_depth(rate), last |-> now]

bucketCanFitPacket(b, len) == b.depth > 0 /\ len <= b.depth

\* Tokens that the time since the last refill is worth.
Produced(b) == ((now - b.last) * ByteRate(b.rate)) \div Hz

Refilled(b, tokens, last) ==
    [rate |-> b.rate, depth |-> b.depth, tokens |-> tokens, last |-> last]

Fill(b) == Refilled(b, b.depth, now)

\* Tokens up to the depth of the bucket.
Capped(b, tokens) == IF tokens < b.depth THEN tokens ELSE b.depth

\* Mutant: the rest of the division is forgotten with every refill.
UpdateForgetsRest(b) == Refilled(b, Capped(b, b.tokens + Produced(b)), now)

\* Mutant: the refill leaves last_cycle where it was.
UpdateKeepsTime(b) == Refilled(b, Capped(b, b.tokens + Produced(b)), b.last)

\* Mutant: the cycles charged are rounded up.
UpdateRoundsUp(b) ==
    Refilled(b, Capped(b, b.tokens + Produced(b)),
             b.last + (Produced(b) * Hz) \div ByteRate(b.rate) + 1)

\* The code's early returns in its order; a bucket without rate cannot occur
\* here, because refreshUeGbrQer refuses a zero rate.
shaper_update_bucket_tokens(b) ==
    LET got == Produced(b)
    IN  CASE b.tokens >= b.depth -> Fill(b)
          [] b.tokens < b.depth /\ got = 0 -> b
          [] b.tokens < b.depth /\ got > 0 /\ got >= b.depth - b.tokens -> Fill(b)
          [] b.tokens < b.depth /\ got > 0 /\ got < b.depth - b.tokens ->
                Refilled(b, b.tokens + got,
                         b.last + Larger((got * Hz) \div ByteRate(b.rate), 1))

NewLedger == [start |-> now, spent |-> 0, refills |-> 0, fullAt |-> now, sinceFull |-> 0]

\* The ledger after a refill from b to c at this moment and a payment of len.
Booked(l, b, c, len) ==
    LET full == c.tokens = c.depth
    IN  [start |-> l.start, spent |-> l.spent + len,
         refills |-> IF c.tokens > b.tokens THEN l.refills + 1 ELSE l.refills,
         fullAt |-> IF full THEN now ELSE l.fullAt,
         sinceFull |-> IF full THEN len ELSE l.sinceFull + len]

BucketInit ==
    /\ now = 0
    /\ \E g, m \in Rates : tb = [k \in Buckets |-> initBucket(IF k = "gfbr" THEN g ELSE m)]
    /\ ledger = [k \in Buckets |-> NewLedger]

Paid(b, len) == Refilled(b, b.tokens - len, b.last)

\* Refill the buckets of ks, and take len from each if every one holds it.
TakeFrom(ks, len) ==
    LET full == [k \in Buckets |-> IF k \in ks THEN shaper_update_bucket_tokens(tb[k]) ELSE tb[k]]
        paid == IF \A k \in ks : full[k].tokens >= len THEN len ELSE 0
    IN  /\ tb' = [k \in Buckets |-> IF k \in ks THEN Paid(full[k], paid) ELSE tb[k]]
        /\ ledger' = [k \in Buckets |-> IF k \in ks THEN Booked(ledger[k], tb[k], full[k], paid)
                                                    ELSE ledger[k]]
        /\ UNCHANGED now

consume_gbr_guaranteed(len) ==
    /\ \A k \in Buckets : bucketCanFitPacket(tb[k], len)
    /\ TakeFrom(Buckets, len)

consume_gbr_excess(len) ==
    /\ bucketCanFitPacket(tb["mfbr"], len)
    /\ TakeFrom({"mfbr"}, len)

\* A QER whose rates changed starts with full buckets; equal rates change nothing.
refreshUeGbrQer(g, m) ==
    /\ <<g, m>> # <<tb["gfbr"].rate, tb["mfbr"].rate>>
    /\ tb' = [k \in Buckets |-> initBucket(IF k = "gfbr" THEN g ELSE m)]
    /\ ledger' = [k \in Buckets |-> NewLedger]
    /\ UNCHANGED now

Tick ==
    /\ now < MaxCycle
    /\ now' = now + 1
    /\ UNCHANGED <<tb, ledger>>

BucketNext ==
    \/ \E len \in PktLens : consume_gbr_guaranteed(len) \/ consume_gbr_excess(len)
    \/ \E g, m \in Rates : refreshUeGbrQer(g, m)
    \/ Tick

BucketSpec == BucketInit /\ [][BucketNext]_bucketVars

-----------------------------------------------------------------------------
\* The unsigned difference cur_cycles - last_cycle in
\* shaper_update_bucket_tokens never wraps: a bucket's last refill is not in
\* the future, and the bucket holds no more than its depth.
BucketsAreSound ==
    \A k \in Buckets : tb[k].last <= now /\ tb[k].tokens \in 0..tb[k].depth

\* However the packets and the refills fall, a bucket gives out no more than
\* its depth and what its rate yields over the time since it was configured,
\* but for one cycle that each refill's rounding hands back.  For "mfbr" this
\* is the "aggregate hard limit" of guaranteed and excess service together.
RateIsLimited ==
    \A k \in Buckets :
        LET l == ledger[k]
        IN  Hz * (l.spent + tb[k].tokens - tb[k].depth)
                <= ByteRate(tb[k].rate) * (tb[k].last - l.start + l.refills)

\* No refill loses credit: what a bucket was worth since it was last full is
\* still there, as tokens or as cycles that were not turned into tokens.
CreditIsKept ==
    \A k \in Buckets :
        LET l == ledger[k]
        IN  ByteRate(tb[k].rate) <= Hz =>
                Hz * (tb[k].tokens + l.sinceFull - tb[k].depth)
                    >= ByteRate(tb[k].rate) * (tb[k].last - l.fullAt)

\* A bucket gives no more and no less than its rate and depth allow, and its
\* time and tokens stay within what the arithmetic of the refill needs.
RatesAreKept == BucketsAreSound /\ RateIsLimited /\ CreditIsKept

-----------------------------------------------------------------------------
(* The proof that the buckets keep their rates.                            *)

BucketType == [rate : Nat \ {0}, depth : Nat, tokens : Nat, last : Nat]
LedgerType == [start : Nat, spent : Nat, refills : Nat, fullAt : Nat, sinceFull : Nat]

\* One bucket b with its ledger l at cycle n.
Within(b, n) == b.last <= n /\ b.tokens <= b.depth
Limited(b, l) ==
    Hz * (l.spent + b.tokens - b.depth) <= ByteRate(b.rate) * (b.last - l.start + l.refills)
Credited(b, l) ==
    ByteRate(b.rate) <= Hz =>
        Hz * (b.tokens + l.sinceFull - b.depth) >= ByteRate(b.rate) * (b.last - l.fullAt)

BucketInv ==
    /\ now \in Nat
    /\ tb \in [Buckets -> BucketType]
    /\ ledger \in [Buckets -> LedgerType]
    /\ \A k \in Buckets : Within(tb[k], now) /\ Limited(tb[k], ledger[k]) /\ Credited(tb[k], ledger[k])

\* The divisions of the refill round down by less than one.
LEMMA Quotient ==
    ASSUME NEW a \in Nat, NEW h \in Nat \ {0}
    PROVE  /\ a \div h \in Nat
           /\ h * (a \div h) <= a /\ a < h * (a \div h) + h
BY SMTT(30)

\* A product keeps the order of its factors.
LEMMA Grows ==
    ASSUME NEW a \in Int, NEW b \in Int, NEW h \in Nat, a <= b
    PROVE  h * a <= h * b
BY SMTT(30)

\* A positive factor cancels.
LEMMA Cancels ==
    ASSUME NEW a \in Int, NEW b \in Int, NEW h \in Nat \ {0}, h * a <= h * b
    PROVE  a <= b
BY SMTT(30)

\* A product of a sum.
LEMMA Spreads ==
    ASSUME NEW a \in Int, NEW b \in Int, NEW h \in Int
    PROVE  h * (a + b) = h * a + h * b /\ h * a \in Int /\ h * b \in Int /\ h * (a + b) \in Int
BY SMTT(30)

\* The cycles that shaper_update_bucket_tokens charges for the tokens it got
\* are no more than have passed, and cover the tokens up to one cycle; no more
\* is charged than the tokens are worth if a cycle is worth at most one.
LEMMA CyclesCharged ==
    ASSUME NEW h \in Nat \ {0}, NEW r \in Nat \ {0}, NEW e \in Nat, NEW got \in Nat \ {0},
           h * got <= r * e
    PROVE  /\ Larger((got * h) \div r, 1) \in Nat
           /\ Larger((got * h) \div r, 1) <= e
           /\ h * got <= r * (Larger((got * h) \div r, 1) + 1)
           /\ r <= h => r * Larger((got * h) \div r, 1) <= h * got
<1> DEFINE q == (got * h) \div r
<1>1. got * h \in Nat /\ got * h = h * got
  BY SMT
<1>2. q \in Nat /\ r * q <= got * h /\ got * h < r * q + r
  BY <1>1, Quotient
<1>3. e >= 1
  <2>1. h * got >= 1
    BY SMT
  <2>2. e = 0 => r * e = 0
    BY SMT
  <2>. QED BY <2>1, <2>2, SMT
<1>4. r * q <= r * e
  <2>1. r * q \in Int /\ r * e \in Int /\ h * got \in Int
    BY <1>2, SMT
  <2>. QED BY <1>1, <1>2, <2>1, SMT
<1>5. q <= e
  BY <1>2, <1>4, Cancels
<1>6. r <= h => q >= 1
  <2> SUFFICES ASSUME r <= h, q = 0 PROVE FALSE
    BY <1>2, SMT
  <2>1. r * q + r = r
    BY SMT
  <2>2. got * h >= h
    BY SMT
  <2>. QED BY <1>2, <2>1, <2>2, <1>1, SMT
<1> HIDE DEF q
<1>7. r * (Larger(q, 1) + 1) >= r * (q + 1) /\ r * (q + 1) = r * q + r
  <2>1. q + 1 <= Larger(q, 1) + 1 /\ Larger(q, 1) \in Nat
    BY <1>2, SMT DEF Larger
  <2>2. r * (q + 1) <= r * (Larger(q, 1) + 1)
    BY <2>1, <1>2, Grows
  <2>3. r * (q + 1) = r * q + r
    BY <1>2, SMT
  <2>4. r * (q + 1) \in Int /\ r * (Larger(q, 1) + 1) \in Int
    BY <1>2, <2>1, SMT
  <2>. QED BY <2>2, <2>3, <2>4, SMT
<1>8. Larger(q, 1) \in Nat /\ Larger(q, 1) <= e /\ (r <= h => Larger(q, 1) = q)
  BY <1>2, <1>3, <1>5, <1>6, SMT DEF Larger
<1>9. r * (Larger(q, 1) + 1) \in Int /\ r * q \in Int
  BY <1>2, <1>8, SMT
<1>10. h * got <= r * (Larger(q, 1) + 1)
  BY <1>1, <1>2, <1>7, <1>9, SMT
<1>11. r <= h => r * Larger(q, 1) <= h * got
  <2> SUFFICES ASSUME r <= h PROVE r * q <= h * got
    BY <1>8
  <2>. QED BY <1>1, <1>2
<1>. QED BY <1>8, <1>10, <1>11 DEF q

\* Two inequalities between products add up.
LEMMA AddsUp ==
    ASSUME NEW h \in Nat, NEW r \in Nat, NEW a \in Int, NEW b \in Int, NEW x \in Int, NEW y \in Int
    PROVE  /\ h * a <= r * b /\ h * x <= r * y => h * (a + x) <= r * (b + y)
           /\ h * a >= r * b /\ h * x >= r * y => h * (a + x) >= r * (b + y)
<1>1. h * (a + x) = h * a + h * x /\ h * a \in Int /\ h * x \in Int
  BY Spreads
<1>2. r * (b + y) = r * b + r * y /\ r * b \in Int /\ r * y \in Int
  BY Spreads
<1>. QED BY <1>1, <1>2, SMT

\* What a refill may do: fill the bucket at this cycle, if the time is worth
\* it; leave alone a bucket that is not full; or add tokens and charge cycles.
FillsUp(b, c) ==
    c = Fill(b) /\ Hz * (b.depth - b.tokens) <= ByteRate(b.rate) * (now - b.last)
LeavesAlone(b, c) == c = b /\ b.tokens < b.depth
AddsSome(b, c, got, d) ==
    /\ c = Refilled(b, b.tokens + got, b.last + d)
    /\ b.tokens + got < b.depth /\ b.last + d <= now
    /\ Hz * got <= ByteRate(b.rate) * (d + 1)
    /\ ByteRate(b.rate) <= Hz => ByteRate(b.rate) * d <= Hz * got

\* Every early return of shaper_update_bucket_tokens is one of the three.
LEMMA RefillCases ==
    ASSUME NEW b \in BucketType, now \in Nat, Within(b, now)
    PROVE  \/ FillsUp(b, shaper_update_bucket_tokens(b))
           \/ LeavesAlone(b, shaper_update_bucket_tokens(b))
           \/ \E got \in Nat \ {0}, d \in Nat : AddsSome(b, shaper_update_bucket_tokens(b), got, d)
<1> DEFINE e == now - b.last
           r == ByteRate(b.rate)
           got == Produced(b)
           c == shaper_update_bucket_tokens(b)
<1>1. /\ Hz \in Nat \ {0} /\ e \in Nat /\ r \in Nat \ {0}
      /\ b.depth \in Nat /\ b.tokens \in Nat /\ b.last \in Nat /\ b.tokens <= b.depth
  BY BucketAssumption, SMT DEF BucketType, Within, ByteRate
<1> HIDE DEF r
<1>2. e * r \in Nat /\ e * r = r * e
  BY <1>1, SMT
<1>3. got = (e * r) \div Hz
  BY DEF Produced, r
<1>4. got \in Nat /\ Hz * got <= r * e
  <2> HIDE DEF got, e
  <2>1. (e * r) \div Hz \in Nat /\ Hz * ((e * r) \div Hz) <= e * r
    BY <1>1, <1>2, Quotient
  <2>. QED BY <2>1, <1>2, <1>3
<1> HIDE DEF got
<1>5. CASE b.tokens >= b.depth
  <2>1. c = Fill(b)
    BY <1>1, <1>5, <1>4, SMT DEF shaper_update_bucket_tokens, got
  <2>2. b.depth - b.tokens = 0
    BY <1>1, <1>5, SMT
  <2>3. Hz * (b.depth - b.tokens) = 0
    BY <1>1, <2>2, SMT
  <2>4. r * e >= 0
    BY <1>1, SMT
  <2>. QED BY <2>1, <2>3, <2>4 DEF FillsUp, r
<1>6. CASE b.tokens < b.depth /\ got = 0
  <2>1. c = b
    BY <1>1, <1>6, <1>4, SMT DEF shaper_update_bucket_tokens, got
  <2>. QED BY <2>1, <1>6 DEF LeavesAlone
<1>7. CASE b.tokens < b.depth /\ got > 0 /\ got >= b.depth - b.tokens
  <2>1. c = Fill(b)
    BY <1>1, <1>7, <1>4, SMT DEF shaper_update_bucket_tokens, got
  <2>2. Hz * (b.depth - b.tokens) <= Hz * got
    BY <1>1, <1>4, <1>7, Grows
  <2>3. Hz * (b.depth - b.tokens) \in Int /\ Hz * got \in Int /\ r * e \in Int
    BY <1>1, <1>4, SMT
  <2>4. Hz * (b.depth - b.tokens) <= r * e
    BY <1>4, <2>2, <2>3, SMT
  <2>. QED BY <2>1, <2>4 DEF FillsUp, r
<1>8. CASE b.tokens < b.depth /\ got > 0 /\ got < b.depth - b.tokens
  <2> DEFINE d == Larger((got * Hz) \div r, 1)
  <2>1. c = Refilled(b, b.tokens + got, b.last + d)
    BY <1>1, <1>8, <1>4, SMT DEF shaper_update_bucket_tokens, got, r
  <2>2. got \in Nat \ {0}
    BY <1>4, <1>8, SMT
  <2>3. d \in Nat /\ d <= e /\ Hz * got <= r * (d + 1) /\ (r <= Hz => r * d <= Hz * got)
    <3> HIDE DEF e
    <3>. QED BY <1>1, <1>4, <2>2, CyclesCharged
  <2> HIDE DEF d
  <2>4. b.tokens + got < b.depth /\ b.last + d <= now
    BY <1>1, <1>4, <1>8, <2>3, SMT
  <2>5. AddsSome(b, c, got, d)
    BY <2>1, <2>3, <2>4 DEF AddsSome, r
  <2>. QED BY <2>2, <2>3, <2>5
<1>. QED BY <1>1, <1>4, <1>5, <1>6, <1>7, <1>8, SMT

\* The types of the numbers in a bucket and its ledger.
LEMMA BucketNumbers ==
    ASSUME NEW b \in BucketType, NEW l \in LedgerType
    PROVE  /\ Hz \in Nat \ {0} /\ ByteRate(b.rate) \in Nat \ {0}
           /\ b.depth \in Nat /\ b.tokens \in Nat /\ b.last \in Nat
           /\ l.start \in Nat /\ l.spent \in Nat /\ l.refills \in Nat
           /\ l.fullAt \in Nat /\ l.sinceFull \in Nat
BY BucketAssumption, SMT DEF BucketType, LedgerType, ByteRate

\* A refill that fills the bucket, and a payment from it, keep its rate.
LEMMA FillKeepsRate ==
    ASSUME NEW b \in BucketType, NEW l \in LedgerType, now \in Nat, NEW c, NEW len \in Nat,
           Within(b, now), Limited(b, l), FillsUp(b, c), len <= c.tokens
    PROVE  /\ Paid(c, len) \in BucketType /\ Booked(l, b, c, len) \in LedgerType
           /\ Within(Paid(c, len), now)
           /\ Limited(Paid(c, len), Booked(l, b, c, len))
           /\ Credited(Paid(c, len), Booked(l, b, c, len))
<1> DEFINE p == Paid(c, len)
           k == Booked(l, b, c, len)
           r == ByteRate(b.rate)
<1>1. c = [rate |-> b.rate, depth |-> b.depth, tokens |-> b.depth, last |-> now]
  BY DEF FillsUp, Fill, Refilled
<1>2. p = [rate |-> b.rate, depth |-> b.depth, tokens |-> b.depth - len, last |-> now]
  BY <1>1 DEF Paid, Refilled
<1>3. PICK f \in Nat : /\ f >= l.refills
                       /\ k = [start |-> l.start, spent |-> l.spent + len, refills |-> f,
                               fullAt |-> now, sinceFull |-> len]
  <2>1. c.tokens = c.depth
    BY <1>1
  <2>2. k = [start |-> l.start, spent |-> l.spent + len,
             refills |-> IF c.tokens > b.tokens THEN l.refills + 1 ELSE l.refills,
             fullAt |-> now, sinceFull |-> len]
    BY <2>1 DEF Booked
  <2>3. (IF c.tokens > b.tokens THEN l.refills + 1 ELSE l.refills) \in Nat
    BY BucketNumbers, SMT
  <2>4. (IF c.tokens > b.tokens THEN l.refills + 1 ELSE l.refills) >= l.refills
    BY BucketNumbers, SMT
  <2>. QED BY <2>2, <2>3, <2>4
<1>4. len <= b.depth
  BY <1>1
<1>5. p \in BucketType /\ k \in LedgerType /\ Within(p, now)
  BY <1>2, <1>3, <1>4, BucketNumbers, SMT DEF BucketType, LedgerType, Within
<1>6. Limited(p, k)
  <2>1. Hz * (l.spent + b.tokens - b.depth) <= r * (b.last - l.start + l.refills)
    BY DEF Limited
  <2>2. Hz * (b.depth - b.tokens) <= r * (now - b.last)
    BY DEF FillsUp
  <2> HIDE DEF r
  <2>3. r \in Nat
    BY BucketNumbers, SMT DEF r
  <2>4. Hz * ((l.spent + b.tokens - b.depth) + (b.depth - b.tokens))
          <= r * ((b.last - l.start + l.refills) + (now - b.last))
    <3>1. /\ Hz \in Nat /\ l.spent + b.tokens - b.depth \in Int /\ b.last - l.start + l.refills \in Int
          /\ b.depth - b.tokens \in Int /\ now - b.last \in Int
      BY BucketNumbers, SMT
    <3>. QED BY <2>1, <2>2, <2>3, <3>1, AddsUp
  <2>5. /\ (l.spent + b.tokens - b.depth) + (b.depth - b.tokens) = l.spent
        /\ (b.last - l.start + l.refills) + (now - b.last) = now - l.start + l.refills
    BY BucketNumbers, SMT
  <2>6. Hz * l.spent <= r * (now - l.start + l.refills)
    BY <2>4, <2>5
  <2>7. r * (now - l.start + l.refills) <= r * (now - l.start + f)
    <3>1. /\ now - l.start + l.refills \in Int /\ now - l.start + f \in Int
          /\ now - l.start + l.refills <= now - l.start + f
      BY <1>3, BucketNumbers, SMT
    <3>. QED BY <2>3, <3>1, Grows
  <2>8. Hz * l.spent \in Int /\ r * (now - l.start + l.refills) \in Int /\ r * (now - l.start + f) \in Int
    BY <1>3, <2>3, BucketNumbers, SMT
  <2>9. Hz * l.spent <= r * (now - l.start + f)
    BY <2>6, <2>7, <2>8, SMT
  <2>10. l.spent + len + (b.depth - len) - b.depth = l.spent
    BY BucketNumbers, SMT
  <2>11. Hz * (l.spent + len + (b.depth - len) - b.depth) <= r * (now - l.start + f)
    BY <2>9, <2>10
  <2>. QED BY <1>2, <1>3, <2>11 DEF Limited, r
<1>7. Credited(p, k)
  <2>1. (b.depth - len) + len - b.depth = 0 /\ now - now = 0
    BY BucketNumbers, SMT
  <2>2. Hz * 0 >= r * 0
    BY BucketNumbers, SMT
  <2>3. Hz * ((b.depth - len) + len - b.depth) >= r * (now - now)
    BY <2>1, <2>2
  <2>. QED BY <1>2, <1>3, <2>3 DEF Credited
<1>. QED BY <1>5, <1>6, <1>7

\* A refill that adds nothing to a bucket that is not full, and a payment.
LEMMA RestKeepsRate ==
    ASSUME NEW b \in BucketType, NEW l \in LedgerType, now \in Nat, NEW c, NEW len \in Nat,
           Within(b, now), Limited(b, l), Credited(b, l), LeavesAlone(b, c), len <= c.tokens
    PROVE  /\ Paid(c, len) \in BucketType /\ Booked(l, b, c, len) \in LedgerType
           /\ Within(Paid(c, len), now)
           /\ Limited(Paid(c, len), Booked(l, b, c, len))
           /\ Credited(Paid(c, len), Booked(l, b, c, len))
<1> DEFINE p == Paid(c, len)
           k == Booked(l, b, c, len)
<1>1. c = b /\ b.tokens < b.depth
  BY DEF LeavesAlone
<1>2. p = [rate |-> b.rate, depth |-> b.depth, tokens |-> b.tokens - len, last |-> b.last]
  BY <1>1 DEF Paid, Refilled
<1>3. k = [start |-> l.start, spent |-> l.spent + len, refills |-> l.refills,
           fullAt |-> l.fullAt, sinceFull |-> l.sinceFull + len]
  <2>1. c.tokens # c.depth /\ ~(c.tokens > b.tokens)
    BY <1>1, BucketNumbers, SMT
  <2>. QED BY <2>1 DEF Booked
<1>4. p \in BucketType /\ k \in LedgerType /\ Within(p, now)
  BY <1>1, <1>2, <1>3, BucketNumbers, SMT DEF BucketType, LedgerType, Within
<1>5. /\ l.spent + len + (b.tokens - len) - b.depth = l.spent + b.tokens - b.depth
      /\ (b.tokens - len) + (l.sinceFull + len) - b.depth = b.tokens + l.sinceFull - b.depth
  BY BucketNumbers, SMT
<1>6. Limited(p, k)
  <2>1. Hz * (l.spent + len + (b.tokens - len) - b.depth)
          <= ByteRate(b.rate) * (b.last - l.start + l.refills)
    BY <1>5 DEF Limited
  <2>. QED BY <1>2, <1>3, <2>1 DEF Limited
<1>7. Credited(p, k)
  <2>1. ByteRate(b.rate) <= Hz =>
          Hz * ((b.tokens - len) + (l.sinceFull + len) - b.depth) >= ByteRate(b.rate) * (b.last - l.fullAt)
    BY <1>5 DEF Credited
  <2>. QED BY <1>2, <1>3, <2>1 DEF Credited
<1>. QED BY <1>4, <1>6, <1>7

\* A refill that adds tokens for part of the time, and a payment.
LEMMA PartKeepsRate ==
    ASSUME NEW b \in BucketType, NEW l \in LedgerType, now \in Nat, NEW c, NEW len \in Nat,
           NEW got \in Nat \ {0}, NEW d \in Nat,
           Within(b, now), Limited(b, l), Credited(b, l), AddsSome(b, c, got, d), len <= c.tokens
    PROVE  /\ Paid(c, len) \in BucketType /\ Booked(l, b, c, len) \in LedgerType
           /\ Within(Paid(c, len), now)
           /\ Limited(Paid(c, len), Booked(l, b, c, len))
           /\ Credited(Paid(c, len), Booked(l, b, c, len))
<1> DEFINE p == Paid(c, len)
           k == Booked(l, b, c, len)
           r == ByteRate(b.rate)
<1>1. /\ c = [rate |-> b.rate, depth |-> b.depth, tokens |-> b.tokens + got, last |-> b.last + d]
      /\ b.tokens + got < b.depth /\ b.last + d <= now
  BY DEF AddsSome, Refilled
<1>2. p = [rate |-> b.rate, depth |-> b.depth, tokens |-> (b.tokens + got) - len, last |-> b.last + d]
  BY <1>1 DEF Paid, Refilled
<1>3. k = [start |-> l.start, spent |-> l.spent + len, refills |-> l.refills + 1,
           fullAt |-> l.fullAt, sinceFull |-> l.sinceFull + len]
  <2>1. c.tokens # c.depth /\ c.tokens > b.tokens
    BY <1>1, BucketNumbers, SMT
  <2>. QED BY <2>1 DEF Booked
<1>4. p \in BucketType /\ k \in LedgerType /\ Within(p, now)
  <2>1. len <= b.tokens + got
    BY <1>1
  <2>. QED BY <1>1, <1>2, <1>3, <2>1, BucketNumbers, SMT DEF BucketType, LedgerType, Within
<1>5. Limited(p, k)
  <2>1. Hz * (l.spent + b.tokens - b.depth) <= r * (b.last - l.start + l.refills)
    BY DEF Limited
  <2>2. Hz * got <= r * (d + 1)
    BY DEF AddsSome
  <2> HIDE DEF r
  <2>3. /\ Hz \in Nat /\ r \in Nat /\ l.spent + b.tokens - b.depth \in Int
        /\ b.last - l.start + l.refills \in Int /\ d + 1 \in Int
    BY BucketNumbers, SMT DEF r
  <2>4. Hz * ((l.spent + b.tokens - b.depth) + got) <= r * ((b.last - l.start + l.refills) + (d + 1))
    BY <2>1, <2>2, <2>3, AddsUp
  <2>5. /\ (l.spent + b.tokens - b.depth) + got = l.spent + len + ((b.tokens + got) - len) - b.depth
        /\ (b.last - l.start + l.refills) + (d + 1) = (b.last + d) - l.start + (l.refills + 1)
    BY BucketNumbers, SMT
  <2>6. Hz * (l.spent + len + ((b.tokens + got) - len) - b.depth)
          <= r * ((b.last + d) - l.start + (l.refills + 1))
    BY <2>4, <2>5
  <2>. QED BY <1>2, <1>3, <2>6 DEF Limited, r
<1>6. Credited(p, k)
  <2> SUFFICES ASSUME r <= Hz
               PROVE  Hz * (((b.tokens + got) - len) + (l.sinceFull + len) - b.depth)
                        >= r * ((b.last + d) - l.fullAt)
    BY <1>2, <1>3 DEF Credited
  <2>1. Hz * (b.tokens + l.sinceFull - b.depth) >= r * (b.last - l.fullAt)
    BY DEF Credited
  <2>2. r * d <= Hz * got
    BY DEF AddsSome
  <2> HIDE DEF r
  <2>3. /\ Hz \in Nat /\ r \in Nat /\ b.tokens + l.sinceFull - b.depth \in Int
        /\ b.last - l.fullAt \in Int
    BY BucketNumbers, SMT DEF r
  <2>4. Hz * got >= r * d
    BY <2>2, <2>3, SMT
  <2>5. Hz * ((b.tokens + l.sinceFull - b.depth) + got) >= r * ((b.last - l.fullAt) + d)
    BY <2>1, <2>3, <2>4, AddsUp
  <2>6. /\ (b.tokens + l.sinceFull - b.depth) + got = ((b.tokens + got) - len) + (l.sinceFull + len) - b.depth
        /\ (b.last - l.fullAt) + d = (b.last + d) - l.fullAt
    BY BucketNumbers, SMT
  <2>. QED BY <2>5, <2>6
<1>. QED BY <1>4, <1>5, <1>6

\* However the refill ends, it and a payment keep the rate of the bucket.
LEMMA RefillKeepsRate ==
    ASSUME NEW b \in BucketType, NEW l \in LedgerType, now \in Nat, NEW len \in Nat,
           Within(b, now), Limited(b, l), Credited(b, l),
           len <= shaper_update_bucket_tokens(b).tokens
    PROVE  /\ Paid(shaper_update_bucket_tokens(b), len) \in BucketType
           /\ Booked(l, b, shaper_update_bucket_tokens(b), len) \in LedgerType
           /\ Within(Paid(shaper_update_bucket_tokens(b), len), now)
           /\ Limited(Paid(shaper_update_bucket_tokens(b), len),
                      Booked(l, b, shaper_update_bucket_tokens(b), len))
           /\ Credited(Paid(shaper_update_bucket_tokens(b), len),
                       Booked(l, b, shaper_update_bucket_tokens(b), len))
<1> DEFINE c == shaper_update_bucket_tokens(b)
<1>1. \/ FillsUp(b, c) \/ LeavesAlone(b, c)
      \/ \E got \in Nat \ {0}, d \in Nat : AddsSome(b, c, got, d)
  BY RefillCases
<1>2. len <= c.tokens
  OBVIOUS
<1> HIDE DEF c
<1>3. CASE FillsUp(b, c)
  BY <1>2, <1>3, FillKeepsRate DEF c
<1>4. CASE LeavesAlone(b, c)
  BY <1>2, <1>4, RestKeepsRate DEF c
<1>5. CASE \E got \in Nat \ {0}, d \in Nat : AddsSome(b, c, got, d)
  <2>1. PICK got \in Nat \ {0}, d \in Nat : AddsSome(b, c, got, d)
    BY <1>5
  <2>. QED BY <1>2, <2>1, PartKeepsRate DEF c
<1>. QED BY <1>1, <1>3, <1>4, <1>5

\* A refilled bucket holds a number of tokens.
LEMMA RefillHolds ==
    ASSUME NEW b \in BucketType, now \in Nat, Within(b, now)
    PROVE  shaper_update_bucket_tokens(b).tokens \in Nat
<1> DEFINE c == shaper_update_bucket_tokens(b)
<1>1. \/ FillsUp(b, c) \/ LeavesAlone(b, c)
      \/ \E got \in Nat \ {0}, d \in Nat : AddsSome(b, c, got, d)
  BY RefillCases
<1> HIDE DEF c
<1>2. c.tokens \in Nat
  BY <1>1, SMT DEF FillsUp, LeavesAlone, AddsSome, Fill, Refilled, BucketType
<1>. QED BY <1>2 DEF c

\* A bucket just configured is full, and its ledger is empty.
LEMMA NewBucketKeepsRate ==
    ASSUME NEW rate \in Rates, now \in Nat
    PROVE  /\ initBucket(rate) \in BucketType /\ NewLedger \in LedgerType
           /\ Within(initBucket(rate), now)
           /\ Limited(initBucket(rate), NewLedger)
           /\ Credited(initBucket(rate), NewLedger)
<1> DEFINE depth == shaper_bucket_depth(rate)
           b == initBucket(rate)
<1>1. rate \in Nat \ {0} /\ Hz \in Nat \ {0} /\ BurstMs \in Nat /\ MinDepth \in Nat
  BY BucketAssumption
<1>2. depth \in Nat
  <2>1. rate * BurstMs \in Nat
    BY <1>1, SMT
  <2>2. rate * BurstMs + 7 \in Nat
    BY <2>1, SMT
  <2>3. (rate * BurstMs + 7) \div 8 \in Nat
    BY <2>2, SMT
  <2>. QED BY <1>1, <2>3, SMT DEF shaper_bucket_depth, Larger
<1> HIDE DEF depth
<1>3. b = [rate |-> rate, depth |-> depth, tokens |-> depth, last |-> now]
  BY DEF initBucket, depth
<1>4. b \in BucketType /\ NewLedger \in LedgerType /\ Within(b, now)
  BY <1>1, <1>2, <1>3, SMT DEF BucketType, LedgerType, NewLedger, Within
<1>5. ByteRate(rate) \in Nat
  BY <1>1, SMT DEF ByteRate
<1>6. /\ 0 + depth - depth = 0 /\ now - now + 0 = 0
      /\ depth + 0 - depth = 0 /\ now - now = 0
  BY <1>2, SMT
<1>7. Hz * 0 = 0 /\ ByteRate(rate) * 0 = 0
  BY <1>1, <1>5, SMT
<1>8. /\ Hz * (0 + depth - depth) <= ByteRate(rate) * (now - now + 0)
      /\ Hz * (depth + 0 - depth) >= ByteRate(rate) * (now - now)
  <2>1. 0 <= 0 /\ 0 >= 0
    BY SMT
  <2>. QED BY <1>6, <1>7, <2>1, Zenon
<1>9. Limited(b, NewLedger) /\ Credited(b, NewLedger)
  BY <1>3, <1>8 DEF Limited, Credited, NewLedger
<1>. QED BY <1>4, <1>9

\* Taking tokens keeps the rate of every bucket, also of those it leaves alone.
LEMMA TakeStep ==
    ASSUME BucketInv, NEW ks \in SUBSET Buckets, NEW len \in PktLens, TakeFrom(ks, len)
    PROVE  BucketInv'
<1> DEFINE up(k) == shaper_update_bucket_tokens(tb[k])
           full == [k \in Buckets |-> IF k \in ks THEN up(k) ELSE tb[k]]
           paid == IF \A k \in ks : full[k].tokens >= len THEN len ELSE 0
<1>1. /\ tb' = [k \in Buckets |-> IF k \in ks THEN Paid(full[k], paid) ELSE tb[k]]
      /\ ledger' = [k \in Buckets |-> IF k \in ks THEN Booked(ledger[k], tb[k], full[k], paid)
                                                  ELSE ledger[k]]
      /\ now' = now
  BY DEF TakeFrom
<1>2. now \in Nat /\ len \in Nat /\ paid \in Nat
  BY BucketAssumption, SMT DEF BucketInv
<1>3. ASSUME NEW k \in Buckets
      PROVE  /\ tb[k] \in BucketType /\ ledger[k] \in LedgerType
             /\ Within(tb[k], now) /\ Limited(tb[k], ledger[k]) /\ Credited(tb[k], ledger[k])
  BY DEF BucketInv
<1>4. ASSUME NEW k \in ks
      PROVE  full[k] = up(k) /\ paid <= up(k).tokens
  <2>1. full[k] = up(k)
    OBVIOUS
  <2>2. up(k).tokens \in Nat
    BY <1>2, <1>3, RefillHolds
  <2>. QED BY <1>2, <2>1, <2>2, SMT
<1> HIDE DEF full, paid, up
<1>5. ASSUME NEW k \in Buckets
      PROVE  /\ tb'[k] \in BucketType /\ ledger'[k] \in LedgerType
             /\ Within(tb'[k], now) /\ Limited(tb'[k], ledger'[k]) /\ Credited(tb'[k], ledger'[k])
  <2>1. CASE k \in ks
    <3>1. tb'[k] = Paid(up(k), paid) /\ ledger'[k] = Booked(ledger[k], tb[k], up(k), paid)
      BY <1>1, <1>4, <2>1
    <3>2. paid <= up(k).tokens
      BY <1>4, <2>1
    <3>. QED BY <1>2, <1>3, <3>1, <3>2, RefillKeepsRate DEF up
  <2>2. CASE k \notin ks
    <3>1. tb'[k] = tb[k] /\ ledger'[k] = ledger[k]
      BY <1>1, <2>2
    <3>. QED BY <1>3, <3>1
  <2>. QED BY <2>1, <2>2
<1>6. tb' \in [Buckets -> BucketType] /\ ledger' \in [Buckets -> LedgerType]
  <2>1. tb' = [k \in Buckets |-> tb'[k]] /\ ledger' = [k \in Buckets |-> ledger'[k]]
    BY <1>1
  <2>. QED BY <1>5, <2>1
<1>7. \A k \in Buckets : /\ Within(tb'[k], now') /\ Limited(tb'[k], ledger'[k])
                         /\ Credited(tb'[k], ledger'[k])
  BY <1>1, <1>5
<1>. QED BY <1>1, <1>2, <1>6, <1>7 DEF BucketInv, Within, Limited, Credited

\* New rates start with full buckets and empty ledgers.
LEMMA NewRatesStep ==
    ASSUME now \in Nat, NEW g \in Rates, NEW m \in Rates, NEW t, NEW w,
           t = [k \in Buckets |-> initBucket(IF k = "gfbr" THEN g ELSE m)],
           w = [k \in Buckets |-> NewLedger]
    PROVE  /\ t \in [Buckets -> BucketType] /\ w \in [Buckets -> LedgerType]
           /\ \A k \in Buckets : Within(t[k], now) /\ Limited(t[k], w[k]) /\ Credited(t[k], w[k])
<1>1. ASSUME NEW k \in Buckets
      PROVE  /\ t[k] \in BucketType /\ w[k] \in LedgerType
             /\ Within(t[k], now) /\ Limited(t[k], w[k]) /\ Credited(t[k], w[k])
  <2> DEFINE rate == IF k = "gfbr" THEN g ELSE m
  <2>1. rate \in Rates /\ t[k] = initBucket(rate) /\ w[k] = NewLedger
    OBVIOUS
  <2> HIDE DEF rate
  <2>. QED BY <2>1, NewBucketKeepsRate
<1>. QED BY <1>1

\* Every step keeps the invariant.
LEMMA BucketStep == BucketInv /\ [BucketNext]_bucketVars => BucketInv'
<1> SUFFICES ASSUME BucketInv, [BucketNext]_bucketVars PROVE BucketInv'
  OBVIOUS
<1>1. CASE \E len \in PktLens : consume_gbr_guaranteed(len) \/ consume_gbr_excess(len)
  <2>1. PICK len \in PktLens : consume_gbr_guaranteed(len) \/ consume_gbr_excess(len)
    BY <1>1
  <2>2. TakeFrom(Buckets, len) \/ TakeFrom({"mfbr"}, len)
    BY <2>1 DEF consume_gbr_guaranteed, consume_gbr_excess
  <2>3. Buckets \in SUBSET Buckets /\ {"mfbr"} \in SUBSET Buckets
    BY DEF Buckets
  <2>. QED BY <2>2, <2>3, TakeStep
<1>2. CASE \E g, m \in Rates : refreshUeGbrQer(g, m)
  <2>1. PICK g \in Rates, m \in Rates : refreshUeGbrQer(g, m)
    BY <1>2
  <2>2. /\ tb' = [k \in Buckets |-> initBucket(IF k = "gfbr" THEN g ELSE m)]
        /\ ledger' = [k \in Buckets |-> NewLedger]
        /\ now' = now
    BY <2>1 DEF refreshUeGbrQer
  <2>3. now \in Nat
    BY DEF BucketInv
  <2>4. /\ tb' \in [Buckets -> BucketType] /\ ledger' \in [Buckets -> LedgerType]
        /\ \A k \in Buckets : /\ Within(tb'[k], now) /\ Limited(tb'[k], ledger'[k])
                              /\ Credited(tb'[k], ledger'[k])
    BY <2>2, <2>3, NewRatesStep
  <2>. QED BY <2>2, <2>3, <2>4 DEF BucketInv, Within, Limited, Credited
<1>3. CASE Tick
  <2>1. now' = now + 1 /\ tb' = tb /\ ledger' = ledger
    BY <1>3 DEF Tick
  <2>2. now \in Nat /\ now' \in Nat
    BY <2>1, SMT DEF BucketInv
  <2>3. ASSUME NEW k \in Buckets
        PROVE  Within(tb[k], now')
    <3>1. tb[k] \in BucketType /\ Within(tb[k], now)
      BY DEF BucketInv
    <3>. QED BY <2>1, <2>2, <3>1, SMT DEF Within, BucketType
  <2>. QED BY <2>1, <2>2, <2>3 DEF BucketInv, Within, Limited, Credited
<1>4. CASE UNCHANGED bucketVars
  BY <1>4 DEF bucketVars, BucketInv, Within, Limited, Credited
<1>. QED BY <1>1, <1>2, <1>3, <1>4 DEF BucketNext

\* The buckets of a new UE satisfy the invariant.
LEMMA BucketStart == BucketInit => BucketInv
<1> SUFFICES ASSUME BucketInit PROVE BucketInv
  OBVIOUS
<1>1. now \in Nat
  BY SMT DEF BucketInit
<1>2. PICK g \in Rates, m \in Rates :
        tb = [k \in Buckets |-> initBucket(IF k = "gfbr" THEN g ELSE m)]
  BY DEF BucketInit
<1>3. ledger = [k \in Buckets |-> NewLedger]
  BY DEF BucketInit
<1>4. /\ tb \in [Buckets -> BucketType] /\ ledger \in [Buckets -> LedgerType]
      /\ \A k \in Buckets : Within(tb[k], now) /\ Limited(tb[k], ledger[k]) /\ Credited(tb[k], ledger[k])
  BY <1>1, <1>2, <1>3, NewRatesStep
<1>. QED BY <1>1, <1>4 DEF BucketInv

\* For every frequency, rate, depth and packet length: however guaranteed and
\* excess service, ticks and changes of the rates follow each other, no bucket
\* exceeds its depth or its rate, none loses credit to the rounding of the
\* refill, and cur_cycles - last_cycle never wraps.
THEOREM BucketsKeepTheirRates == BucketSpec => []RatesAreKept
<1>1. BucketInv => RatesAreKept
  <2> SUFFICES ASSUME BucketInv PROVE RatesAreKept
    OBVIOUS
  <2>1. BucketsAreSound
    <3> SUFFICES ASSUME NEW k \in Buckets
                 PROVE  tb[k].last <= now /\ tb[k].tokens \in 0..tb[k].depth
      BY DEF BucketsAreSound
    <3>1. tb[k] \in BucketType /\ Within(tb[k], now)
      BY DEF BucketInv
    <3>. QED BY <3>1, SMT DEF Within, BucketType
  <2>2. RateIsLimited /\ CreditIsKept
    BY DEF BucketInv, Limited, Credited, RateIsLimited, CreditIsKept
  <2>. QED BY <2>1, <2>2 DEF RatesAreKept
<1>. QED BY <1>1, BucketStart, BucketStep, PTL DEF BucketSpec
=============================================================================
