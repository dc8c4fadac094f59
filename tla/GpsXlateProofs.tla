---------------------------- MODULE GpsXlateProofs ----------------------------
(***************************************************************************)
(* GpsXlate: the time given to a transition is the true one and keeps the  *)
(* order of a block, for every length of the ring, rate of the capture     *)
(* clock, unit of the result and step of the system clock.                 *)
(***************************************************************************)
EXTENDS GpsXlate, TLAPS

-----------------------------------------------------------------------------
(* Division.                                                               *)

(* A quotient by what it does.                                             *)
LEMMA DivBounds ==
    ASSUME NEW a \in Int, NEW b \in Nat \ {0}
    PROVE  /\ a \div b \in Int
           /\ b * (a \div b) <= a /\ a < b * (a \div b) + b
OBVIOUS

(* Products keep the order.                                                *)
LEMMA LessTimes ==
    ASSUME NEW b \in Nat \ {0}, NEW p \in Int, NEW q \in Int
    PROVE  /\ b * p \in Int /\ b * q \in Int
           /\ p < q => b * p + b <= b * q
           /\ p <= q => b * p <= b * q
           /\ p < q => b * p < b * q
OBVIOUS

(* The quotient is the only number that does it.                           *)
LEMMA DivUnique ==
    ASSUME NEW a \in Int, NEW b \in Nat \ {0}, NEW q \in Int,
           b * q <= a, a < b * q + b
    PROVE  a \div b = q
<1> DEFINE d == a \div b
<1>1. d \in Int /\ b * d <= a /\ a < b * d + b
    BY DivBounds
<1> HIDE DEF d
<1>2. ~(d < q)
    BY <1>1, LessTimes
<1>3. ~(q < d)
    BY <1>1, LessTimes
<1>4. d = q
    BY <1>1, <1>2, <1>3
<1> QED
    BY <1>4 DEF d

LEMMA DivMonotone ==
    ASSUME NEW a \in Int, NEW c \in Int, a <= c, NEW b \in Nat \ {0}
    PROVE  a \div b <= c \div b
<1> DEFINE p == a \div b
           q == c \div b
<1>1. p \in Int /\ q \in Int /\ b * p <= a /\ c < b * q + b
    BY DivBounds
<1> HIDE DEF p, q
<1>2. ~(q < p)
    BY <1>1, LessTimes
<1> QED
    BY <1>1, <1>2 DEF p, q

LEMMA DivNatural ==
    ASSUME NEW a \in Nat, NEW b \in Nat \ {0}
    PROVE  a \div b \in Nat
<1>1. 0 \div b = 0
    BY DivUnique
<1> QED
    BY <1>1, DivMonotone, DivBounds

(* A factor of both operands cancels.                                      *)
LEMMA DivCancels ==
    ASSUME NEW a \in Int, NEW b \in Nat \ {0}, NEW k \in Nat \ {0}
    PROVE  (a * k) \div (k * b) = a \div b
<1> DEFINE q == a \div b
<1>1. q \in Int /\ b * q <= a /\ a < b * q + b
    BY DivBounds
<1> HIDE DEF q
<1>2. k * b \in Nat \ {0} /\ a * k \in Int /\ b * q \in Int
    BY <1>1
<1>3. (k * b) * q = k * (b * q) /\ a * k = k * a /\ k * (b * q + b) = k * (b * q) + k * b
    BY <1>1, <1>2
<1>4. k * (b * q) <= k * a /\ k * a < k * (b * q + b)
    BY <1>1, <1>2, LessTimes
<1>5. (a * k) \div (k * b) = q
    BY <1>1, <1>2, <1>3, <1>4, DivUnique
<1> QED
    BY <1>5 DEF q

(* A multiple of the divisor moves out of the dividend.                    *)
LEMMA DivShifts ==
    ASSUME NEW a \in Int, NEW b \in Nat \ {0}, NEW k \in Int
    PROVE  (a - b * k) \div b = (a \div b) - k
<1> DEFINE q == a \div b
<1>1. q \in Int /\ b * q <= a /\ a < b * q + b
    BY DivBounds
<1> HIDE DEF q
<1>2. b * k \in Int /\ b * (q - k) = b * q - b * k /\ b * q \in Int
    BY <1>1
<1>3. (a - b * k) \div b = q - k
    BY <1>1, <1>2, DivUnique
<1> QED
    BY <1>3 DEF q

-----------------------------------------------------------------------------
(* The inductive invariant.                                                *)

(* A stamp of the ring was taken at a full true second that has passed.    *)
Taken(t) == t.cap <= now /\ t.cap % Rate = 0 /\ (t.cap = 0 => t.epoch = 0)

(* No other stamp is as new as the newest.                                 *)
NewestIsNewest ==
    \A i \in Slots : i # recent_pps =>
        gps_list[i].cap = 0 \/ gps_list[i].cap < gps_list[recent_pps].cap

RingInv == NewestIsNewest /\ \A i \in Slots : Taken(gps_list[i])

(* A handle that translates joins two stamps as far apart by the system    *)
(* clock as they should be, taken in their order and before its block.     *)
Joins(h, birth) ==
    isValid(h.t0) /\ isValid(h.t1) =>
        /\ h.t1.cap < h.t0.cap /\ h.t0.cap <= birth
        /\ h.t0.cap % Rate = 0 /\ h.t1.cap % Rate = 0
        /\ h.t0.epoch - h.t1.epoch = gps_list_max - 1

BlockInv ==
    /\ Joins(block.handle, block.birth)
    /\ block.birth <= now /\ block.birth <= block.expiry

(* The last transition was translated by the handle of its block.          *)
LastInv ==
    /\ block.birth <= last.tick /\ last.tick <= now
    /\ last.micros = xlateCap64(block.handle, last.tick)

IInv == TypeOK /\ RingInv /\ BlockInv /\ LastInv

Stamps == [cap : Nat, epoch : Nat]
Handles == [t0 : Stamps, t1 : Stamps]

-----------------------------------------------------------------------------
(* The translation.                                                        *)

LEMMA Sizes ==
    /\ gps_list_max \in Nat /\ gps_list_max > 1
    /\ Rate \in Nat \ {0} /\ MEG1 \in Nat \ {0} /\ YEAR5 \in Nat \ {0}
    /\ Base \in Nat \ {0} /\ Clear \in Nat \ {0} /\ MaxTime \in Nat \ {0}
    /\ Steps \in SUBSET Int /\ \A e \in Steps : Base + e > YEAR5
BY SizesAssumption

(* What xlateCap64() gives for a handle that translates.                   *)
LEMMA Translates ==
    ASSUME NEW h \in Handles, NEW birth \in Nat, Joins(h, birth),
           isValid(h.t0), isValid(h.t1), NEW sample \in Nat, birth <= sample
    PROVE  /\ h.t0.cap - h.t1.cap \in Nat \ {0}
           /\ h.t0.epoch * MEG1 \in Nat
           /\ (sample - h.t0.cap) * (gps_list_max - 1) * MEG1 \in Nat
           /\ xlateCap64(h, sample) =
                ((sample - h.t0.cap) * (gps_list_max - 1) * MEG1)
                    \div (h.t0.cap - h.t1.cap) + h.t0.epoch * MEG1
<1>1. /\ h.t0.cap \in Nat /\ h.t1.cap \in Nat /\ h.t0.epoch \in Nat /\ h.t1.epoch \in Nat
      /\ h.t1.cap < h.t0.cap /\ h.t0.cap <= sample
      /\ h.t0.epoch - h.t1.epoch = gps_list_max - 1
    BY DEF Handles, Stamps, Joins
<1>2. sample - h.t0.cap \in Nat /\ gps_list_max - 1 \in Nat
    BY <1>1, Sizes
<1>3. (sample - h.t0.cap) * (gps_list_max - 1) \in Nat
    BY <1>2
<1>4. (sample - h.t0.cap) * (gps_list_max - 1) * MEG1 \in Nat
    BY <1>3, Sizes
<1>5. h.t0.epoch * MEG1 \in Nat
    BY <1>1, Sizes
<1> QED
    BY <1>1, <1>4, <1>5 DEF xlateCap64

LEMMA NotTranslated ==
    ASSUME NEW h, NEW sample, ~(isValid(h.t0) /\ isValid(h.t1))
    PROVE  xlateCap64(h, sample) = 0
BY DEF xlateCap64

LEMMA TranslatesToNat ==
    ASSUME NEW h \in Handles, NEW birth \in Nat, Joins(h, birth),
           NEW sample \in Nat, birth <= sample
    PROVE  xlateCap64(h, sample) \in Nat
<1>1. CASE isValid(h.t0) /\ isValid(h.t1)
    <2> DEFINE a == (sample - h.t0.cap) * (gps_list_max - 1) * MEG1
               b == h.t0.cap - h.t1.cap
               c == h.t0.epoch * MEG1
    <2>1. a \in Nat /\ b \in Nat \ {0} /\ c \in Nat /\ xlateCap64(h, sample) = (a \div b) + c
        BY <1>1, Translates
    <2> HIDE DEF a, b, c
    <2>2. a \div b \in Nat
        BY <2>1, DivNatural
    <2> QED
        BY <2>1, <2>2
<1>2. CASE ~(isValid(h.t0) /\ isValid(h.t1))
    BY <1>2, NotTranslated
<1> QED
    BY <1>1, <1>2

(* A handle keeps the order of what it translates.                         *)
LEMMA KeepsOrder ==
    ASSUME NEW h \in Handles, NEW birth \in Nat, Joins(h, birth),
           NEW s \in Nat, NEW u \in Nat, birth <= s, s <= u
    PROVE  xlateCap64(h, s) <= xlateCap64(h, u)
<1>1. CASE isValid(h.t0) /\ isValid(h.t1)
    <2> DEFINE n == gps_list_max - 1
               p == s - h.t0.cap
               q == u - h.t0.cap
               b == h.t0.cap - h.t1.cap
               c == h.t0.epoch * MEG1
    <2>1. n \in Nat /\ p \in Int /\ q \in Int /\ p <= q
        BY Sizes DEF Handles, Stamps
    <2>2. /\ b \in Nat \ {0} /\ c \in Nat
          /\ p * n * MEG1 \in Nat /\ q * n * MEG1 \in Nat
          /\ xlateCap64(h, s) = ((p * n * MEG1) \div b) + c
          /\ xlateCap64(h, u) = ((q * n * MEG1) \div b) + c
        BY <1>1, Translates
    <2> HIDE DEF n, p, q, b, c
    <2>3. p * n <= q * n /\ p * n \in Int /\ q * n \in Int
        BY <2>1
    <2>4. p * n * MEG1 <= q * n * MEG1
        BY <2>3, Sizes
    <2>5. (p * n * MEG1) \div b <= (q * n * MEG1) \div b
        BY <2>2, <2>4, DivMonotone
    <2>6. (p * n * MEG1) \div b \in Int /\ (q * n * MEG1) \div b \in Int
        BY <2>2, DivBounds
    <2> QED
        BY <2>2, <2>5, <2>6
<1>2. CASE ~(isValid(h.t0) /\ isValid(h.t1))
    BY <1>2, NotTranslated
<1> QED
    BY <1>1, <1>2

(* A multiple of the rate is the rate times a number of seconds.           *)
LEMMA FullSeconds ==
    ASSUME NEW c \in Nat, c % Rate = 0
    PROVE  c \div Rate \in Nat /\ c = Rate * (c \div Rate)
<1>1. c \div Rate \in Nat
    BY Sizes, DivNatural
<1> QED
    BY <1>1, Sizes

(* If the clock was off by as much at both stamps, they are as far apart   *)
(* as they should be; the number of the stamps between them cancels out    *)
(* and leaves the true rate.                                               *)
LEMMA TrueTime ==
    ASSUME NEW h \in Handles, NEW birth \in Nat, Joins(h, birth),
           isValid(h.t0), isValid(h.t1), NEW sample \in Nat, birth <= sample,
           ErrorOf(h.t0) = ErrorOf(h.t1)
    PROVE  xlateCap64(h, sample) = Shown(sample, ErrorOf(h.t0))
<1> DEFINE n == gps_list_max - 1
           k == h.t0.cap \div Rate
           j == h.t1.cap \div Rate
           e == h.t0.epoch
<1>1. /\ h.t0.cap \in Nat /\ h.t1.cap \in Nat /\ e \in Nat /\ h.t1.epoch \in Nat
      /\ h.t1.cap < h.t0.cap /\ h.t0.cap <= sample
      /\ h.t0.cap % Rate = 0 /\ h.t1.cap % Rate = 0
      /\ e - h.t1.epoch = n
    BY DEF Handles, Stamps, Joins
<1>2. /\ k \in Nat /\ h.t0.cap = Rate * k
      /\ j \in Nat /\ h.t1.cap = Rate * j
    BY <1>1, FullSeconds
<1>3. n \in Nat \ {0}
    BY Sizes
<1>4. ErrorOf(h.t0) = e - Base - k /\ ErrorOf(h.t1) = h.t1.epoch - Base - j
    BY DEF ErrorOf
<1>5. xlateCap64(h, sample) =
        ((sample - h.t0.cap) * n * MEG1) \div (h.t0.cap - h.t1.cap) + e * MEG1
    BY Translates
<1>6. Shown(sample, ErrorOf(h.t0)) =
        (sample * MEG1) \div Rate + (Base + (e - Base - k)) * MEG1
    BY <1>4 DEF Shown
<1> HIDE DEF n, k, j, e
<1>7. k - j = n
    <2>1. e - Base - k = h.t1.epoch - Base - j
        BY <1>4
    <2>2. /\ e \in Nat /\ h.t1.epoch \in Nat /\ Base \in Nat /\ k \in Nat /\ j \in Nat
          /\ n \in Nat /\ e - h.t1.epoch = n
        BY <1>1, <1>2, <1>3, Sizes
    <2> QED
        BY ONLY <2>1, <2>2
<1>8. h.t0.cap - h.t1.cap = n * Rate
    BY <1>2, <1>3, <1>7, Sizes
<1>9. (sample - h.t0.cap) * n * MEG1 = (sample * MEG1 - Rate * (k * MEG1)) * n
    <2>1. sample - h.t0.cap \in Int /\ k * MEG1 \in Int
        BY <1>1, <1>2, Sizes
    <2>2. (sample - h.t0.cap) * n * MEG1 = ((sample - h.t0.cap) * MEG1) * n
        BY <1>3, <2>1, Sizes
    <2>3. (sample - h.t0.cap) * MEG1 = sample * MEG1 - Rate * (k * MEG1)
        BY <1>2, Sizes
    <2> QED
        BY <2>2, <2>3
<1>10. sample * MEG1 \in Int /\ k * MEG1 \in Int /\ Rate * (k * MEG1) \in Int
    BY <1>2, Sizes
<1>11. ((sample - h.t0.cap) * n * MEG1) \div (h.t0.cap - h.t1.cap) =
        (sample * MEG1 - Rate * (k * MEG1)) \div Rate
    <2>1. sample * MEG1 - Rate * (k * MEG1) \in Int
        BY <1>10
    <2> QED
        BY <1>3, <1>8, <1>9, <2>1, Sizes, DivCancels
<1>12. (sample * MEG1 - Rate * (k * MEG1)) \div Rate = (sample * MEG1) \div Rate - k * MEG1
    BY <1>10, Sizes, DivShifts
<1>13. (Base + (e - Base - k)) * MEG1 = e * MEG1 - k * MEG1
    BY <1>1, <1>2, Sizes
<1>14. (sample * MEG1) \div Rate \in Int /\ e * MEG1 \in Int
    BY <1>1, <1>10, Sizes, DivBounds
<1> QED
    BY <1>5, <1>6, <1>10, <1>11, <1>12, <1>13, <1>14

-----------------------------------------------------------------------------
(* The steps.                                                              *)

LEMMA InitIInv == Init => IInv
<1> SUFFICES ASSUME Init PROVE IInv
    OBVIOUS
<1> USE Sizes DEF Init
<1>1. NoStamp \in Stamps /\ NoHandle \in Handles
    BY DEF NoStamp, NoHandle, Stamps, Handles
<1>2. TypeOK
    <2>1. 0 \in Slots
        BY DEF Slots
    <2>2. err \in Steps \cup {Unset}
        OBVIOUS
    <2>3. block \in [birth : Nat, expiry : Nat, handle : Handles]
        BY <1>1
    <2>4. gps_list \in [Slots -> Stamps]
        BY <1>1
    <2> QED
        BY <2>1, <2>2, <2>3, <2>4 DEF TypeOK, Stamps, Handles
<1>3. RingInv
    <2>1. 0 % Rate = 0
        OBVIOUS
    <2> QED
        BY <2>1 DEF RingInv, NewestIsNewest, Taken, NoStamp
<1>4. ~isValid(NoStamp)
    BY DEF isValid, NoStamp
<1>5. BlockInv
    BY <1>4 DEF BlockInv, Joins, NoHandle
<1>6. LastInv
    BY <1>4, NotTranslated DEF LastInv, NoHandle
<1> QED
    BY <1>2, <1>3, <1>5, <1>6 DEF IInv

(* Without a transition the block and the last one stay, and the handle    *)
(* they were translated by.                                                *)
LEMMA BlockKept ==
    ASSUME BlockInv, LastInv, TypeOK, UNCHANGED <<block, last>>,
           now' \in Nat, now <= now'
    PROVE  BlockInv' /\ LastInv'
<1>1. Joins(block.handle, block.birth)' /\ xlateCap64(block.handle, last.tick)'
                                            = xlateCap64(block.handle, last.tick)
    BY DEF BlockInv, Joins, xlateCap64, isValid
<1> QED
    BY <1>1 DEF BlockInv, LastInv, TypeOK

LEMMA TickKeeps == IInv /\ Tick => IInv'
<1> SUFFICES ASSUME IInv, Tick PROVE IInv'
    OBVIOUS
<1> USE Sizes DEF IInv, Tick
<1>1. now \in Nat /\ now' = now + 1 /\ now' \in 0..MaxTime
    BY DEF TypeOK
<1>2. TypeOK'
    BY <1>1 DEF TypeOK
<1>3. RingInv'
    BY <1>1 DEF RingInv, NewestIsNewest, Taken, TypeOK
<1> QED
    BY <1>1, <1>2, <1>3, BlockKept

LEMMA ClockStepKeeps == IInv /\ ClockStep => IInv'
<1> SUFFICES ASSUME IInv, ClockStep PROVE IInv'
    OBVIOUS
<1> USE DEF IInv, ClockStep
<1>1. TypeOK'
    BY DEF TypeOK
<1>2. RingInv'
    BY DEF RingInv, NewestIsNewest, Taken
<1> QED
    BY <1>1, <1>2, BlockKept DEF TypeOK

LEMMA NextSlotType ==
    ASSUME NEW i \in Slots
    PROVE  NextSlot(i) \in Slots
BY Sizes DEF Slots, NextSlot

LEMMA LogKeeps == IInv /\ log_gps_pps => IInv'
<1> SUFFICES ASSUME IInv, log_gps_pps PROVE IInv'
    OBVIOUS
<1> DEFINE slot == NextSlot(recent_pps)
           stamp == [cap |-> now, epoch |-> Base + now \div Rate + err]
<1>1. /\ now \in Nat \ {0} /\ now % Rate = 0 /\ gps_list[recent_pps].cap # now
      /\ recent_pps \in Slots /\ recent_pps' = slot /\ slot \in Slots
      /\ gps_list \in [Slots -> Stamps]
      /\ gps_list' = [gps_list EXCEPT ![slot] = stamp]
      /\ UNCHANGED <<now, err, block, last>>
    BY NextSlotType DEF IInv, TypeOK, log_gps_pps, Stamps
<1>2. stamp \in Stamps
    <2>1. now \div Rate \in Nat
        BY <1>1, Sizes, DivNatural
    <2>2. err \in Int /\ Base + err >= 0
        BY Sizes DEF IInv, TypeOK, Unset
    <2> QED
        BY <1>1, <2>1, <2>2, Sizes DEF Stamps
<1> HIDE DEF slot
<1>3. gps_list' \in [Slots -> Stamps]
    BY <1>1, <1>2
<1>4. TypeOK'
    BY <1>1, <1>3 DEF IInv, TypeOK, Stamps
<1>5. \A i \in Slots : gps_list[i].cap = 0 \/ gps_list[i].cap < now
    <2> SUFFICES ASSUME NEW i \in Slots PROVE gps_list[i].cap = 0 \/ gps_list[i].cap < now
        OBVIOUS
    <2>1. gps_list[i].cap \in Nat /\ gps_list[recent_pps].cap \in Nat
        BY <1>1 DEF Stamps
    <2>2. gps_list[recent_pps].cap < now
        BY <1>1, <2>1 DEF IInv, RingInv, Taken
    <2> QED
        BY <1>1, <2>1, <2>2 DEF IInv, RingInv, NewestIsNewest
<1>6. gps_list'[slot] = stamp /\ \A i \in Slots : i # slot => gps_list'[i] = gps_list[i]
    BY <1>1
<1>7. NewestIsNewest'
    BY <1>1, <1>5, <1>6 DEF NewestIsNewest
<1>8. \A i \in Slots : Taken(gps_list[i])'
    BY <1>1, <1>6 DEF IInv, RingInv, Taken
<1> QED
    BY <1>1, <1>4, <1>7, <1>8, BlockKept DEF IInv, RingInv

(* The handle of a new block.                                              *)
LEMMA NewHandle ==
    ASSUME IInv
    PROVE  getGpsHandle \in Handles /\ Joins(getGpsHandle, now)
<1> DEFINE old == (recent_pps + 1) % gps_list_max
           t0 == gps_list[recent_pps]
           t1 == gps_list[old]
<1>1. recent_pps \in Slots /\ old \in Slots /\ old # recent_pps
    <2>1. recent_pps \in Slots
        BY DEF IInv, TypeOK
    <2>2. CASE recent_pps + 1 < gps_list_max
        <3>1. old = recent_pps + 1
            BY <2>1, <2>2, Sizes DEF Slots
        <3> QED
            BY <2>1, <2>2, <3>1, Sizes DEF Slots
    <2>3. CASE recent_pps + 1 = gps_list_max
        <3>1. old = 0
            BY <2>3, Sizes DEF Slots
        <3> QED
            BY <2>1, <2>3, <3>1, Sizes DEF Slots
    <2> QED
        BY <2>1, <2>2, <2>3, Sizes DEF Slots
<1>2. t0 \in Stamps /\ t1 \in Stamps
    BY <1>1 DEF IInv, TypeOK, Stamps
<1>3. ~isValid(NoStamp) /\ NoStamp \in Stamps
    BY Sizes DEF isValid, NoStamp, Stamps
<1>4. /\ Taken(t0) /\ Taken(t1)
      /\ t1.cap = 0 \/ t1.cap < t0.cap
    BY <1>1 DEF IInv, RingInv, NewestIsNewest
<1>5. isValid(t1) => t1.cap < t0.cap
    <2>1. isValid(t1) => t1.cap # 0
        BY <1>2, <1>4, Sizes DEF Taken, isValid
    <2> QED
        BY <1>4, <2>1
<1>6. getGpsHandle = IF t0.epoch - t1.epoch = gps_list_max - 1 THEN [t0 |-> t0, t1 |-> t1]
                                                               ELSE NoHandle
    BY DEF getGpsHandle
<1> HIDE DEF old, t0, t1
<1>7. CASE t0.epoch - t1.epoch = gps_list_max - 1
    <2>1. getGpsHandle = [t0 |-> t0, t1 |-> t1]
        BY <1>6, <1>7
    <2> QED
        BY <1>2, <1>4, <1>5, <1>7, <2>1 DEF Handles, Joins, Taken
<1>8. CASE t0.epoch - t1.epoch # gps_list_max - 1
    <2>1. getGpsHandle = NoHandle
        BY <1>6, <1>8
    <2> QED
        BY <1>3, <2>1 DEF Handles, Joins, NoHandle
<1> QED
    BY <1>7, <1>8

LEMMA AppendKeeps == IInv /\ th_append => IInv'
<1> SUFFICES ASSUME IInv, th_append PROVE IInv'
    OBVIOUS
<1>1. /\ now \in Nat \ {0} /\ UNCHANGED <<now, err, gps_list, recent_pps>>
      /\ \/ block' = [birth |-> now, expiry |-> now + Clear, handle |-> getGpsHandle]
         \/ block' = block
      /\ last' = [tick |-> now, micros |-> xlateCap64(block'.handle, now)]
    BY DEF IInv, TypeOK, th_append, potentialRollCandidate
<1>2. /\ block'.handle \in Handles /\ block'.birth \in Nat /\ block'.birth <= now
      /\ block' \in [birth : Nat, expiry : Nat, handle : Handles]
      /\ block'.birth <= block'.expiry
      /\ Joins(block'.handle, block'.birth)
    <2>1. CASE block' = block
        BY <2>1 DEF IInv, BlockInv, TypeOK, Handles, Stamps
    <2>2. CASE block' = [birth |-> now, expiry |-> now + Clear, handle |-> getGpsHandle]
        BY <1>1, <2>2, NewHandle, Sizes
    <2> QED
        BY <1>1, <2>1, <2>2
<1>3. xlateCap64(block'.handle, now) \in Nat
    BY <1>1, <1>2, TranslatesToNat
<1>4. TypeOK'
    <2>1. last' \in [tick : Nat, micros : Nat]
        BY <1>1, <1>3
    <2>2. block' \in [birth : Nat, expiry : Nat, handle : Handles]
        BY <1>2
    <2> QED
        BY <1>1, <2>1, <2>2 DEF IInv, TypeOK, Handles, Stamps
<1>5. RingInv'
    BY <1>1 DEF IInv, RingInv, NewestIsNewest, Taken
<1>6. BlockInv'
    BY <1>1, <1>2 DEF BlockInv, Joins, isValid
<1>7. LastInv'
    BY <1>1, <1>2 DEF LastInv, xlateCap64, isValid
<1> QED
    BY <1>4, <1>5, <1>6, <1>7 DEF IInv

LEMMA NextIInv == IInv /\ [Next]_vars => IInv'
<1> SUFFICES ASSUME IInv, [Next]_vars PROVE IInv'
    OBVIOUS
<1>1. CASE UNCHANGED vars
    BY <1>1 DEF vars, IInv, TypeOK, RingInv, NewestIsNewest, Taken, BlockInv, Joins, LastInv,
                xlateCap64, isValid
<1> QED
    BY <1>1, TickKeeps, ClockStepKeeps, LogKeeps, AppendKeeps DEF Next

LEMMA IInvariant == Spec => []IInv
BY InitIInv, NextIInv, PTL DEF Spec

-----------------------------------------------------------------------------
(* Lost pulses alone.                                                      *)

(* The error of a valid stamp is one SNTP left the clock with: a clock not *)
(* yet set shows too little to be valid.                                   *)
FromSntp(t) == isValid(t) => ErrorOf(t) \in Steps

ErrorsKnown ==
    /\ \A i \in Slots : FromSntp(gps_list[i])
    /\ FromSntp(block.handle.t0) /\ FromSntp(block.handle.t1)

LEMMA NoStampInvalid == ~isValid(NoStamp)
BY Sizes DEF isValid, NoStamp

LEMMA LoggedFromSntp ==
    ASSUME TypeOK
    PROVE  FromSntp([cap |-> now, epoch |-> Base + now \div Rate + err])
<1> DEFINE stamp == [cap |-> now, epoch |-> Base + now \div Rate + err]
           second == now \div Rate
<1>1. now \in Nat /\ now < YEAR5 /\ err \in Steps \cup {Unset}
    BY SizesAssumption DEF TypeOK
<1>2. second \in Nat /\ second <= now
    <2>1. second \in Nat
        BY <1>1, Sizes, DivNatural
    <2>2. Rate * second <= now
        BY <1>1, Sizes, DivBounds
    <2> HIDE DEF second
    <2>3. 1 <= Rate /\ second * 1 <= second * Rate
        BY <2>1, Sizes
    <2> QED
        BY <1>1, <2>1, <2>2, <2>3, Sizes
<1>3. stamp.epoch = Base + second + err /\ ErrorOf(stamp) = (Base + second + err) - Base - second
    <2>1. stamp.cap = now /\ stamp.epoch = Base + second + err
        OBVIOUS
    <2> HIDE DEF stamp
    <2>2. ErrorOf(stamp) = stamp.epoch - Base - stamp.cap \div Rate
        BY DEF ErrorOf
    <2> QED
        BY <2>1, <2>2, Zenon
<1> HIDE DEF stamp, second
<1>4. CASE err = Unset
    <2>1. stamp.epoch = second
        BY <1>2, <1>3, <1>4, Sizes DEF Unset
    <2> QED
        BY <1>1, <1>2, <2>1, Sizes DEF FromSntp, isValid, stamp
<1>5. CASE err \in Steps
    <2>1. err \in Int
        BY <1>5, Sizes
    <2>2. ErrorOf(stamp) = err
        BY <1>2, <1>3, <2>1, Sizes
    <2> QED
        BY <1>5, <2>2 DEF FromSntp, stamp
<1> QED
    BY <1>1, <1>4, <1>5

LEMMA ErrorsKnownInvariant == Spec => []ErrorsKnown
<1>1. Init => ErrorsKnown
    BY NoStampInvalid DEF Init, ErrorsKnown, FromSntp, NoHandle
<1>2. IInv /\ ErrorsKnown /\ [Next]_vars => ErrorsKnown'
    <2> SUFFICES ASSUME IInv, ErrorsKnown, [Next]_vars PROVE ErrorsKnown'
        OBVIOUS
    <2>1. CASE UNCHANGED <<gps_list, block>>
        BY <2>1 DEF ErrorsKnown, FromSntp, isValid, ErrorOf
    <2>2. CASE log_gps_pps
        <3> DEFINE slot == NextSlot(recent_pps)
                   stamp == [cap |-> now, epoch |-> Base + now \div Rate + err]
        <3>1. slot \in Slots /\ FromSntp(stamp)
            BY NextSlotType, LoggedFromSntp DEF IInv, TypeOK
        <3>2. gps_list' = [gps_list EXCEPT ![slot] = stamp] /\ UNCHANGED block
            BY <2>2 DEF log_gps_pps
        <3> HIDE DEF slot, stamp
        <3>3. \A i \in Slots : gps_list'[i] = IF i = slot THEN stamp ELSE gps_list[i]
            BY <3>1, <3>2 DEF IInv, TypeOK
        <3> QED
            BY <3>1, <3>2, <3>3 DEF ErrorsKnown, FromSntp, isValid, ErrorOf
    <2>3. CASE th_append
        <3>1. /\ UNCHANGED gps_list
              /\ \/ block'.handle = getGpsHandle
                 \/ block' = block
            BY <2>3 DEF th_append, potentialRollCandidate
        <3>2. FromSntp(getGpsHandle.t0) /\ FromSntp(getGpsHandle.t1)
            <4> DEFINE old == (recent_pps + 1) % gps_list_max
            <4>1. recent_pps \in Slots /\ old \in Slots
                BY Sizes DEF IInv, TypeOK, Slots
            <4>2. \/ getGpsHandle = [t0 |-> gps_list[recent_pps], t1 |-> gps_list[old]]
                  \/ getGpsHandle = NoHandle
                BY DEF getGpsHandle
            <4> QED
                BY <4>1, <4>2, NoStampInvalid DEF ErrorsKnown, FromSntp, NoHandle
        <3>3. FromSntp(block'.handle.t0) /\ FromSntp(block'.handle.t1)
            BY <3>1, <3>2 DEF ErrorsKnown
        <3> QED
            BY <3>1, <3>3 DEF ErrorsKnown, FromSntp, isValid, ErrorOf
    <2> QED
        BY <2>1, <2>2, <2>3 DEF Next, Tick, ClockStep, vars
<1> QED
    BY <1>1, <1>2, IInvariant, PTL DEF Spec

-----------------------------------------------------------------------------
(* The theorems.                                                           *)

(* Every variable of GpsXlate keeps its type.                              *)
THEOREM GpsXlateTypes == Spec => []TypeOK
<1>1. IInv => TypeOK
    BY DEF IInv
<1> QED
    BY <1>1, IInvariant, PTL

(* Unless a lost pulse and a step of the clock cancel out, a transition    *)
(* has no time or the exact one: the time of the newest pulse extrapolated *)
(* at the true rate of the capture clock, whatever its nominal rate.       *)
THEOREM TimeIsTrueOrNone == Spec => []TimeIsTrue
<1>1. IInv => TimeIsTrue
    <2> DEFINE h == block.handle
    <2> SUFFICES ASSUME IInv, last.micros # 0
                 PROVE  /\ isValid(h.t0) /\ isValid(h.t1)
                        /\ \/ /\ ErrorOf(h.t0) # ErrorOf(h.t1)
                              /\ h.t0.cap - h.t1.cap # (gps_list_max - 1) * Rate
                           \/ last.micros = Shown(last.tick, ErrorOf(h.t0))
        BY DEF TimeIsTrue
    <2>1. /\ h \in Handles /\ block.birth \in Nat /\ Joins(h, block.birth)
          /\ last.tick \in Nat /\ block.birth <= last.tick
          /\ last.micros = xlateCap64(h, last.tick)
        BY DEF IInv, TypeOK, BlockInv, LastInv, Handles, Stamps
    <2>2. isValid(h.t0) /\ isValid(h.t1)
        BY <2>1, NotTranslated
    <2>3. CASE ErrorOf(h.t0) = ErrorOf(h.t1)
        BY <2>1, <2>2, <2>3, TrueTime
    <2>4. CASE h.t0.cap - h.t1.cap = (gps_list_max - 1) * Rate
        <3> DEFINE k == h.t0.cap \div Rate
                   j == h.t1.cap \div Rate
        <3>1. /\ h.t0.cap \in Nat /\ h.t1.cap \in Nat
              /\ h.t0.epoch \in Nat /\ h.t1.epoch \in Nat
              /\ h.t0.cap % Rate = 0 /\ h.t1.cap % Rate = 0
              /\ h.t0.epoch - h.t1.epoch = gps_list_max - 1
            BY <2>1, <2>2 DEF Joins, Handles, Stamps
        <3>2. /\ k \in Nat /\ h.t0.cap = Rate * k
              /\ j \in Nat /\ h.t1.cap = Rate * j
            BY <3>1, FullSeconds
        <3>3. ErrorOf(h.t0) = h.t0.epoch - Base - k /\ ErrorOf(h.t1) = h.t1.epoch - Base - j
            BY DEF ErrorOf
        <3> HIDE DEF k, j
        <3>4. Rate * (k - j) = Rate * (gps_list_max - 1)
            BY <2>4, <3>2, Sizes
        <3>5. k - j = gps_list_max - 1
            <4>1. k - j \in Int /\ gps_list_max - 1 \in Int
                BY <3>2, Sizes
            <4>2. ~(k - j < gps_list_max - 1) /\ ~(gps_list_max - 1 < k - j)
                BY <3>4, <4>1, LessTimes, Sizes
            <4> QED
                BY <4>1, <4>2
        <3>6. ErrorOf(h.t0) = ErrorOf(h.t1)
            BY <3>1, <3>2, <3>3, <3>5, Sizes
        <3> QED
            BY <2>3, <3>6
    <2> QED
        BY <2>2, <2>3, <2>4
<1> QED
    BY <1>1, IInvariant, PTL

(* If SNTP sets the clock once and keeps it, right or wrong, then whatever *)
(* pulses get lost, a transition has no time or the one this clock shows.  *)
THEOREM LostPulsesDoNoHarm ==
    ASSUME NEW e \in Int, Steps = {e}
    PROVE  Spec => [](last.micros # 0 => last.micros = Shown(last.tick, e))
<1>1. IInv /\ ErrorsKnown => (last.micros # 0 => last.micros = Shown(last.tick, e))
    <2> DEFINE h == block.handle
    <2> SUFFICES ASSUME IInv, ErrorsKnown, last.micros # 0
                 PROVE  last.micros = Shown(last.tick, e)
        OBVIOUS
    <2>1. /\ h \in Handles /\ block.birth \in Nat /\ Joins(h, block.birth)
          /\ last.tick \in Nat /\ block.birth <= last.tick
          /\ last.micros = xlateCap64(h, last.tick)
        BY DEF IInv, TypeOK, BlockInv, LastInv, Handles, Stamps
    <2>2. isValid(h.t0) /\ isValid(h.t1)
        BY <2>1, NotTranslated
    <2>3. ErrorOf(h.t0) = e /\ ErrorOf(h.t1) = e
        BY <2>2 DEF ErrorsKnown, FromSntp
    <2> QED
        BY <2>1, <2>2, <2>3, TrueTime
<1> QED
    BY <1>1, IInvariant, ErrorsKnownInvariant, PTL

(* While a block lasts, the times of its transitions never run backwards,  *)
(* whatever pulses get lost and whatever SNTP does to the clock.           *)
THEOREM BlockKeepsOrder == Spec => BlockInOrder
<1>1. IInv /\ [Next]_vars => [block'.birth = block.birth => last'.micros >= last.micros]_vars
    <2> SUFFICES ASSUME IInv, Next, block'.birth = block.birth
                 PROVE  last'.micros >= last.micros
        BY DEF vars
    <2>1. /\ block.handle \in Handles /\ block.birth \in Nat
          /\ Joins(block.handle, block.birth)
          /\ last.tick \in Nat /\ last.tick <= now /\ block.birth <= last.tick /\ now \in Nat
          /\ last.micros = xlateCap64(block.handle, last.tick) /\ last.micros \in Nat
        BY DEF IInv, TypeOK, BlockInv, LastInv, Handles, Stamps
    <2>2. CASE th_append
        <3>1. \/ block' = block
              \/ block' = [birth |-> now, expiry |-> now + Clear, handle |-> getGpsHandle]
                 /\ block.expiry < now
            BY <2>2 DEF th_append, potentialRollCandidate
        <3>2. block' = block
            <4>1. ~(block.birth = now /\ block.expiry < now)
                BY <2>1 DEF IInv, BlockInv, TypeOK
            <4> QED
                BY <3>1, <4>1
        <3>3. last'.micros = xlateCap64(block.handle, now)
            BY <2>2, <3>2 DEF th_append, potentialRollCandidate
        <3>4. xlateCap64(block.handle, last.tick) <= xlateCap64(block.handle, now)
            BY <2>1, KeepsOrder
        <3>5. xlateCap64(block.handle, now) \in Nat
            BY <2>1, TranslatesToNat
        <3> QED
            BY <2>1, <3>3, <3>4, <3>5
    <2>3. CASE ~th_append
        <3>1. last' = last
            BY <2>3 DEF Next, Tick, ClockStep, log_gps_pps
        <3> QED
            BY <2>1, <3>1
    <2> QED
        BY <2>2, <2>3
<1> QED
    BY <1>1, IInvariant, PTL DEF Spec, BlockInOrder
=============================================================================
