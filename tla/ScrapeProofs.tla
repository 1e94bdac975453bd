---------------------------- MODULE ScrapeProofs ----------------------------
(***************************************************************************)
(* Proofs about what is shown of a device, for any house, any answers and  *)
(* any clocks: first that the compact timestamps of the v1 API are read    *)
(* back, then what either API generation makes of a house, and from that   *)
(* the invariant of Scrape and its properties.                             *)
(***************************************************************************)
EXTENDS Scrape, TLAPS

\* The times a compact stamp can stand for, and the stamps of twelve digits.
Moments ==
    {t \in (1969 .. 2068) \X Nat \X Nat \X Nat \X Nat \X Nat : Calendar(t)}
SixDigits == {n \in Nat : n \div 10000 \in Pair}
Stamps    == [date : SixDigits, clock : SixDigits]

\* Euclid's division, by the number the code divides by.
LEMMA Division ==
    ASSUME NEW n \in Nat
    PROVE  /\ n \div 100 \in Nat /\ n % 100 \in Pair
           /\ n = (n \div 100) * 100 + (n % 100)
           /\ n \div 10000 = (n \div 100) \div 100
<1> DEFINE q == n \div 100
           r == n % 100
<1>1. r \in 0 .. 99
  BY SMT
<1>2. n = q * 100 + r
  BY SMT
<1>3. q \in Int
  BY SMT
<1>4. n \div 10000 = q \div 100
  BY SMT
<1> HIDE DEF q, r
<1>5. q \in Nat
  BY <1>1, <1>2, <1>3, SMT
<1>6. q \in Nat /\ r \in Pair /\ n = q * 100 + r /\ n \div 10000 = q \div 100
  BY <1>1, <1>2, <1>4, <1>5 DEF Pair
<1> QED BY <1>6 DEF q, r

\* Three pairs written one after the other are read back.
LEMMA ThreePairs ==
    ASSUME NEW a \in Pair, NEW b \in Pair, NEW c \in Pair,
           NEW n, n = a * 10000 + b * 100 + c
    PROVE  /\ n \in SixDigits
           /\ n \div 10000 = a /\ (n \div 100) % 100 = b /\ n % 100 = c
<1>0. a \in 0 .. 99 /\ b \in 0 .. 99 /\ c \in 0 .. 99
  BY DEF Pair
<1>1. n \in Nat
  BY <1>0, SMT
<1>2. n \div 10000 = a
  BY <1>0, SMT
<1>3. n \div 100 = a * 100 + b
  BY <1>0, SMT
<1>4. n % 100 = c
  BY <1>0, SMT
<1>5. (a * 100 + b) % 100 = b
  BY <1>0, SMT
<1>6. (n \div 100) % 100 = b
  BY <1>3, <1>5
<1>7. n \in SixDigits
  BY <1>1, <1>2 DEF SixDigits
<1> QED BY <1>2, <1>4, <1>6, <1>7

\* Six digits are three pairs.
LEMMA PairsOf ==
    ASSUME NEW n \in SixDigits
    PROVE  /\ n = (n \div 10000) * 10000 + ((n \div 100) % 100) * 100 + (n % 100)
           /\ n \div 10000 \in Pair
           /\ (n \div 100) % 100 \in Pair /\ n % 100 \in Pair
<1> DEFINE q == n \div 100
           y == q \div 100
           m == q % 100
           d == n % 100
<1>0. n \in Nat /\ n \div 10000 \in Pair
  BY DEF SixDigits
<1>1. q \in Nat /\ d \in Pair /\ n = q * 100 + d /\ n \div 10000 = y
  BY <1>0, Division
<1>2. y \in Nat /\ m \in Pair /\ q = y * 100 + m
  BY <1>1, Division
<1> HIDE DEF q, y, m, d
<1>3. n = y * 10000 + m * 100 + d
  BY <1>0, <1>1, <1>2, SMT DEF Pair
<1> QED BY <1>0, <1>1, <1>2, <1>3 DEF q, y, m, d

\* No month has more days than two digits can say.
LEMMA MonthsAreShort ==
    ASSUME NEW y, NEW m
    PROVE  DaysIn(y, m) \in 28 .. 31
BY DEF DaysIn

\* A moment's six numbers all have two digits once the century is gone.
LEMMA MomentPairs ==
    ASSUME NEW t \in Moments
    PROVE  /\ t = <<t[1], t[2], t[3], t[4], t[5], t[6]>>
           /\ t[1] \in 1969 .. 2068 /\ t[1] % 100 \in Pair
           /\ t[2] \in Pair /\ t[2] > 0 /\ t[3] \in Pair
           /\ t[4] \in Pair /\ t[5] \in Pair /\ t[6] \in Pair
           /\ Calendar(t)
<1>1. t \in (1969 .. 2068) \X Nat \X Nat \X Nat \X Nat \X Nat /\ Calendar(t)
  BY DEF Moments
<1>2. DaysIn(t[1], t[2]) \in 28 .. 31
  BY MonthsAreShort
<1>3. t[2] \in 1 .. 12 /\ t[3] \in 1 .. 31
      /\ t[4] \in 0 .. 23 /\ t[5] \in 0 .. 59 /\ t[6] \in 0 .. 59
  <2>1. /\ t[2] \in 1 .. 12 /\ t[3] \in 1 .. DaysIn(t[1], t[2])
        /\ t[4] \in 0 .. 23 /\ t[5] \in 0 .. 59 /\ t[6] \in 0 .. 59
    BY <1>1 DEF Calendar
  <2> QED BY <2>1, <1>2, SMT
<1>4. t[1] \in 1969 .. 2068
  BY <1>1
<1>5. t[1] % 100 \in 0 .. 99
  BY <1>4, SMT
<1>6. t = <<t[1], t[2], t[3], t[4], t[5], t[6]>>
  BY <1>1
<1> QED BY <1>1, <1>3, <1>4, <1>5, <1>6 DEF Pair

\* The century Go chooses for two digits of a year, and the digits themselves.
LEMMA Century ==
    ASSUME NEW y \in 1969 .. 2068
    PROVE  (IF y % 100 < 69 THEN 2000 + (y % 100) ELSE 1900 + (y % 100)) = y
<1>1. CASE y < 2000
  <2>1. y % 100 = y - 1900
    BY <1>1, SMT
  <2> QED BY <1>1, <2>1, SMT
<1>2. CASE y >= 2000
  <2>1. y % 100 = y - 2000
    BY <1>2, SMT
  <2> QED BY <1>2, <2>1, SMT
<1> QED BY <1>1, <1>2, SMT

\* And back: the year chosen ends in the two digits it was chosen for.
LEMMA CenturyBack ==
    ASSUME NEW yy \in Pair, NEW y, y = IF yy < 69 THEN 2000 + yy ELSE 1900 + yy
    PROVE  y \in 1969 .. 2068 /\ y % 100 = yy
<1>0. yy \in 0 .. 99
  BY DEF Pair
<1>1. CASE yy < 69
  BY <1>0, <1>1, SMT
<1>2. CASE yy >= 69
  BY <1>0, <1>2, SMT
<1> QED BY <1>0, <1>1, <1>2, SMT

\* Only zeros make a zero.
LEMMA NoPairs ==
    ASSUME NEW a \in Pair, NEW b \in Pair, NEW c \in Pair,
           a * 10000 + b * 100 + c <= 0
    PROVE  a = 0 /\ b = 0 /\ c = 0
<1>1. a \in Nat /\ b \in Nat /\ c \in Nat
  BY SMT DEF Pair
<1> QED BY <1>1, SMT

\* A stamp is read as the time it was made of, if that is a time, and rejected
\* if it is none.
LEMMA StampIsRead ==
    ASSUME NEW t \in Clock
    PROVE  parseCompactTimestamp(Digits(t)) = Time(t)
<1>1. CASE t = Zero
  BY <1>1 DEF Digits, parseCompactTimestamp
<1>2. CASE t # Zero
  <2> DEFINE yy == t[1] % 100
             d  == yy * 10000 + t[2] * 100 + t[3]
             c  == t[4] * 10000 + t[5] * 100 + t[6]
             six == <<t[1], t[2], t[3], t[4], t[5], t[6]>>
  <2>1. t \in (1969 .. 2068) \X Pair \X Pair \X Pair \X Pair \X Pair
        /\ t # <<2000, 0, 0, 0, 0, 0>>
    BY <1>2 DEF Clock
  <2>2. /\ t = six /\ t[1] \in 1969 .. 2068 /\ t[2] \in Pair /\ t[3] \in Pair
        /\ t[4] \in Pair /\ t[5] \in Pair /\ t[6] \in Pair
    BY <2>1
  <2>3. yy \in Pair
    BY <2>2, SMT DEF Pair
  <2>4. Digits(t) = [date |-> d, clock |-> c]
    BY <1>2 DEF Digits
  <2>5. d \in SixDigits /\ d \div 10000 = yy /\ (d \div 100) % 100 = t[2] /\ d % 100 = t[3]
    BY <2>2, <2>3, ThreePairs
  <2>6. c \in SixDigits /\ c \div 10000 = t[4] /\ (c \div 100) % 100 = t[5] /\ c % 100 = t[6]
    BY <2>2, ThreePairs
  <2>7. (IF yy < 69 THEN 2000 + yy ELSE 1900 + yy) = t[1]
    BY <2>2, Century
  <2>8. ~(yy > 99)
    BY <2>3, SMT DEF Pair
  <2>9. ~(d <= 0 /\ c <= 0)
    <3> SUFFICES ASSUME d <= 0, c <= 0 PROVE FALSE
      OBVIOUS
    <3>1. yy = 0 /\ t[2] = 0 /\ t[3] = 0
      <4> HIDE DEF yy
      <4> QED BY <2>2, <2>3, NoPairs
    <3>2. t[4] = 0 /\ t[5] = 0 /\ t[6] = 0
      BY <2>2, NoPairs
    <3>3. t[1] = 2000
      BY <3>1, <2>2, SMT
    <3> QED BY <2>1, <2>2, <3>1, <3>2, <3>3
  <2> HIDE DEF yy, d, c, six
  <2>10. parseCompactTimestamp([date |-> d, clock |-> c]) = Time(six)
    BY <2>5, <2>6, <2>7, <2>8, <2>9 DEF parseCompactTimestamp, six
  <2> QED BY <2>2, <2>4, <2>10
<1> QED BY <1>1, <1>2

\* parseCompactTimestamp (models.go) reads every local time of the hundred
\* years two digits tell apart out of the number the device makes of it, those
\* whose number has lost its leading zeros included.
THEOREM CompactIsReadBack ==
    \A t \in Moments :
        LET read == parseCompactTimestamp(Digits(t))
        IN read.ok /\ read.time = t
<1> SUFFICES ASSUME NEW t \in Moments
             PROVE  LET read == parseCompactTimestamp(Digits(t))
                    IN read.ok /\ read.time = t
  OBVIOUS
<1>1. t \in Clock
  <2>1. /\ t = <<t[1], t[2], t[3], t[4], t[5], t[6]>>
        /\ t[1] \in 1969 .. 2068 /\ t[2] \in Pair /\ t[3] \in Pair
        /\ t[4] \in Pair /\ t[5] \in Pair /\ t[6] \in Pair /\ t[2] > 0
    BY MomentPairs
  <2>2. t # <<2000, 0, 0, 0, 0, 0>>
    BY <2>1
  <2>3. t \in (1969 .. 2068) \X Pair \X Pair \X Pair \X Pair \X Pair
    BY <2>1
  <2> QED BY <2>2, <2>3 DEF Clock
<1>2. parseCompactTimestamp(Digits(t)) = Time(t)
  BY <1>1, StampIsRead
<1>3. Time(t).time = t /\ Time(t).ok = (t = Zero \/ Calendar(t))
  BY DEF Time
<1>4. Calendar(t)
  BY MomentPairs
<1>5. t = Zero \/ Calendar(t)
  BY <1>4, Zenon
<1> QED BY <1>2, <1>3, <1>5, Zenon

\* And it accepts nothing else: of the numbers of at most twelve digits, one it
\* takes for a time is zero or the number of exactly that time.
THEOREM CompactIsOneTime ==
    \A n \in Stamps :
        LET read == parseCompactTimestamp(n)
        IN read.ok => Digits(read.time) = n /\ (read.time = Zero \/ read.time \in Moments)
<1> SUFFICES ASSUME NEW n \in Stamps, parseCompactTimestamp(n).ok
             PROVE  LET read == parseCompactTimestamp(n)
                    IN Digits(read.time) = n /\ (read.time = Zero \/ read.time \in Moments)
  OBVIOUS
<1>1. n.date \in SixDigits /\ n.clock \in SixDigits
      /\ n = [date |-> n.date, clock |-> n.clock]
  BY DEF Stamps
<1>2. n.date \in Nat /\ n.clock \in Nat
  BY <1>1 DEF SixDigits
<1>3. CASE n.date <= 0 /\ n.clock <= 0
  <2>1. n.date = 0 /\ n.clock = 0
    BY <1>2, <1>3
  <2>2. parseCompactTimestamp(n).time = Zero
    BY <1>3 DEF parseCompactTimestamp, Time
  <2> QED BY <1>1, <2>1, <2>2 DEF Digits
<1>4. CASE ~(n.date <= 0 /\ n.clock <= 0)
  <2> DEFINE yy == n.date \div 10000
             y  == IF yy < 69 THEN 2000 + yy ELSE 1900 + yy
             m  == (n.date \div 100) % 100
             d  == n.date % 100
             h  == n.clock \div 10000
             mi == (n.clock \div 100) % 100
             s  == n.clock % 100
             t  == <<y, m, d, h, mi, s>>
  <2>1. n.date = yy * 10000 + m * 100 + d /\ yy \in Pair /\ m \in Pair /\ d \in Pair
    BY <1>1, PairsOf
  <2>2. n.clock = h * 10000 + mi * 100 + s /\ h \in Pair /\ mi \in Pair /\ s \in Pair
    BY <1>1, PairsOf
  <2>3. ~(yy > 99)
    BY <2>1, SMT DEF Pair
  <2>4. parseCompactTimestamp(n) = Time(t)
    BY <1>4, <2>3 DEF parseCompactTimestamp
  <2>5. y \in 1969 .. 2068 /\ y % 100 = yy
    BY <2>1, CenturyBack
  <2> HIDE DEF yy, y, m, d, h, mi, s
  <2>6. t # Zero /\ t[1] = y /\ t[2] = m /\ t[3] = d /\ t[4] = h /\ t[5] = mi /\ t[6] = s
    BY DEF Zero
  <2> HIDE DEF t
  <2>7. parseCompactTimestamp(n).time = t /\ Calendar(t)
    <3>1. Time(t).time = t /\ Time(t).ok = (t = Zero \/ Calendar(t))
      BY DEF Time
    <3>2. Time(t).ok
      BY <2>4, Zenon
    <3>3. t = Zero \/ Calendar(t)
      BY <3>1, <3>2, Zenon
    <3> QED BY <2>4, <2>6, <3>1, <3>3, Zenon
  <2>8. Digits(t) = n
    BY <1>1, <2>1, <2>2, <2>5, <2>6 DEF Digits
  <2>9. t \in Moments
    <3>1. m \in Nat /\ d \in Nat /\ h \in Nat /\ mi \in Nat /\ s \in Nat
      BY <2>1, <2>2, SMT DEF Pair
    <3>2. t \in (1969 .. 2068) \X Nat \X Nat \X Nat \X Nat \X Nat
      BY <3>1, <2>5 DEF t
    <3> QED BY <3>2, <2>7 DEF Moments
  <2> QED BY <2>7, <2>8, <2>9
<1> QED BY <1>3, <1>4

-----------------------------------------------------------------------------
(* What either API generation makes of a house.                             *)

\* The parser of a generation's timestamps.
parse(v, stamp) == IF v = "v1" THEN compact(stamp) ELSE parseISOTimestamp(stamp)

\* The entries that become external meters.
metersOf(v, h) ==
    IF v = "v2" THEN kept(v2Answer(h).external)
    ELSE promoted(v1Answer(h), kept(v1Answer(h).external))

\* A list of entries that is right for house h.
AreReadings(meters, v, h) ==
    /\ \A i \in DOMAIN meters :
        /\ meters[i].unique_id \in Readings(h)
        /\ meters[i].type = MeterType[meters[i].unique_id]
        /\ meters[i].unit = MeterUnit[meters[i].unique_id]
        /\ meters[i].value = h.value[meters[i].unique_id]
        /\ parse(v, meters[i].timestamp) = Time(h.time[meters[i].unique_id])
    /\ \A u \in Readings(h) : \E i \in DOMAIN meters : meters[i].unique_id = u
    /\ \A i, j \in DOMAIN meters : meters[i].unique_id = meters[j].unique_id => i = j

\* What is known of a house.
LEMMA HouseFacts ==
    ASSUME NEW p \in Product, NEW h \in Houses[p]
    PROVE  /\ h.phases \in [Phase -> Optional(Quantity)]
           /\ h.ssid \in Network \cup {""}
           /\ h.clock \in Clock /\ Time(h.clock).ok
           /\ h.peak \in Clock /\ Time(h.peak).ok
           /\ h.listed \in Seq(Utility)
           /\ h.value \in [Utility -> Optional(Quantity)]
           /\ h.time \in [Utility -> Clock]
           /\ h.firmware \in {"unique_gas_id", "gas_unique_id", "new"}
           /\ Gas \in Utility
           /\ \A i, j \in DOMAIN h.listed : h.listed[i] = h.listed[j] => i = j
           /\ \A u \in Utility : h.value[u] # nil =>
                \E i \in DOMAIN h.listed : h.listed[i] = u
<1>1. h \in House
    BY HouseAssumption DEF HouseAssumption
<1>2. /\ h.phases \in [Phase -> Optional(Quantity)]
      /\ h.ssid \in Network \cup {""}
      /\ h.clock \in {t \in Clock : Time(t).ok}
      /\ h.peak \in {t \in Clock : Time(t).ok}
      /\ h.listed \in Seq(Utility)
      /\ h.value \in [Utility -> Optional(Quantity)]
      /\ h.time \in [Utility -> Clock]
      /\ h.firmware \in {"unique_gas_id", "gas_unique_id", "new"}
    BY <1>1 DEF House
<1> QED
    BY <1>2, HouseAssumption DEF HouseAssumption

\* A timestamp that either generation sends is read as the time it was made of.
LEMMA StampOfEntry ==
    ASSUME NEW t \in Clock
    PROVE  /\ parse("v1", ptr(Digits(t))) = Time(t)
           /\ parse("v1", If(t # Zero, Digits(t))) = Time(t)
           /\ parse("v2", t) = Time(t)
<1>1. ptr(Digits(t)) # nil /\ ptr(Digits(t))[1] = Digits(t)
    BY DEF ptr, nil
<1>2. compact(ptr(Digits(t))) = Time(t)
    BY <1>1, StampIsRead DEF compact
<1>3. compact(nil) = Time(Zero)
    BY DEF compact
<1>4. compact(If(t # Zero, Digits(t))) = Time(t)
    BY <1>2, <1>3 DEF If
<1> QED
    BY <1>2, <1>4 DEF parse, parseISOTimestamp

\* A list that names each meter, whether it has a reading or not.
LEMMA ListIsRead ==
    ASSUME NEW p \in Product, NEW h \in Houses[p], NEW v \in Version,
           h.firmware = "new"
    PROVE  AreReadings(kept(Entries(h, v)), v, h)
<1> DEFINE listed == Entries(h, v)
           meters == kept(listed)
           stamp(u) == IF v = "v1" THEN ptr(Digits(h.time[u])) ELSE h.time[u]
<1>1. /\ DOMAIN listed = DOMAIN h.listed
      /\ \A i \in DOMAIN listed :
            listed[i] = [unique_id |-> h.listed[i], type |-> MeterType[h.listed[i]],
                         unit |-> MeterUnit[h.listed[i]],
                         value |-> h.value[h.listed[i]],
                         timestamp |-> stamp(h.listed[i])]
    BY DEF Entries
<1>2. \A i \in DOMAIN h.listed : h.listed[i] \in Utility
    <2>1. h.listed \in Seq(Utility)
        BY HouseFacts
    <2> QED
        BY <2>1
<1> HIDE DEF listed
<1>3. /\ DOMAIN meters = {i \in DOMAIN h.listed : h.value[h.listed[i]] # nil}
      /\ \A i \in DOMAIN meters : meters[i] = listed[i]
    <2>1. \A i \in DOMAIN listed : listed[i].value = h.value[h.listed[i]]
        BY DEF listed, Entries
    <2>2. /\ DOMAIN meters = {i \in DOMAIN listed : listed[i].value # nil}
          /\ \A i \in DOMAIN meters : meters[i] = listed[i]
        BY DEF kept, HasValue
    <2> QED
        BY <1>1, <2>1, <2>2
<1> HIDE DEF meters
<1>4. ASSUME NEW i \in DOMAIN meters
      PROVE  /\ meters[i].unique_id = h.listed[i] /\ h.listed[i] \in Readings(h)
             /\ meters[i].type = MeterType[h.listed[i]]
             /\ meters[i].unit = MeterUnit[h.listed[i]]
             /\ meters[i].value = h.value[h.listed[i]]
             /\ parse(v, meters[i].timestamp) = Time(h.time[h.listed[i]])
    <2> DEFINE u == h.listed[i]
    <2>1. i \in DOMAIN h.listed /\ h.value[u] # nil /\ u \in Utility
        BY <1>2, <1>3
    <2>2. meters[i] = [unique_id |-> u, type |-> MeterType[u], unit |-> MeterUnit[u],
                       value |-> h.value[u], timestamp |-> stamp(u)]
        BY <1>1, <1>3, <2>1
    <2>3. u \in Readings(h)
        BY <2>1 DEF Readings
    <2>4. h.time[u] \in Clock
        <3>1. h.time \in [Utility -> Clock]
            BY HouseFacts
        <3> QED
            BY <2>1, <3>1
    <2>5. parse(v, stamp(u)) = Time(h.time[u])
        BY <2>4, StampOfEntry DEF Version
    <2> HIDE DEF stamp, u
    <2>6. /\ meters[i].unique_id = u /\ meters[i].type = MeterType[u]
          /\ meters[i].unit = MeterUnit[u] /\ meters[i].value = h.value[u]
          /\ meters[i].timestamp = stamp(u)
        BY <2>2
    <2> QED
        BY <2>3, <2>5, <2>6 DEF u
<1>5. ASSUME NEW u \in Readings(h)
      PROVE  \E i \in DOMAIN meters : meters[i].unique_id = u
    <2>1. u \in Utility /\ h.value[u] # nil
        BY DEF Readings
    <2>2. PICK i \in DOMAIN h.listed : h.listed[i] = u
        BY <2>1, HouseFacts
    <2> QED
        BY <1>3, <1>4, <2>1, <2>2
<1>6. \A i, j \in DOMAIN meters : meters[i].unique_id = meters[j].unique_id => i = j
    <2>1. \A i, j \in DOMAIN h.listed : h.listed[i] = h.listed[j] => i = j
        BY HouseFacts
    <2>2. \A i \in DOMAIN meters : i \in DOMAIN h.listed /\ meters[i].unique_id = h.listed[i]
        BY <1>3, <1>4
    <2> QED
        BY <2>1, <2>2
<1> QED
    BY <1>4, <1>5, <1>6 DEF AreReadings, meters, listed

\* The flat fields of the firmware that has no list.
LEMMA FlatFieldsAreRead ==
    ASSUME NEW p \in Product, NEW h \in Houses[p], h.firmware # "new"
    PROVE  AreReadings(metersOf("v1", h), "v1", h)
<1> DEFINE d == v1Answer(h)
<1>1. /\ d.external = <<>> /\ d.total_gas_m3 = h.value[Gas]
      /\ d.gas_timestamp = If(h.time[Gas] # Zero, Digits(h.time[Gas]))
      /\ d.unique_gas_id = (IF h.firmware = "unique_gas_id" THEN Gas ELSE "")
      /\ d.gas_unique_id = (IF h.firmware # "unique_gas_id" THEN Gas ELSE "")
    BY DEF v1Answer, v1Data
<1>2. firstNonEmpty(d.unique_gas_id, d.gas_unique_id) = Gas
    BY <1>1, HouseAssumption DEF HouseAssumption, firstNonEmpty
<1>3. DOMAIN kept(d.external) = {}
    <2>1. DOMAIN <<>> = {}
        OBVIOUS
    <2> QED
        BY <1>1, <2>1 DEF kept
<1>4. metersOf("v1", h) = promoted(d, kept(d.external))
    BY DEF metersOf
<1>5. Readings(h) = IF h.value[Gas] = nil THEN {} ELSE {Gas}
    <2>1. Gas \in Utility
        BY HouseFacts
    <2> QED
        BY <2>1 DEF Readings
<1> DEFINE meters == metersOf("v1", h)
<1>6. CASE h.value[Gas] = nil
    <2>1. DOMAIN meters = {}
        BY <1>1, <1>3, <1>4, <1>6 DEF promoted
    <2> HIDE DEF meters
    <2> QED
        BY <1>5, <1>6, <2>1 DEF AreReadings, meters
<1>7. CASE h.value[Gas] # nil
    <2>1. meters = <<gas(d)>>
        BY <1>1, <1>3, <1>4, <1>7 DEF promoted
    <2>2. DOMAIN meters = {1} /\ meters[1] = gas(d)
        BY <2>1
    <2>3. /\ gas(d).unique_id = Gas /\ gas(d).type = MeterType[Gas]
          /\ gas(d).unit = MeterUnit[Gas] /\ gas(d).value = h.value[Gas]
          /\ gas(d).timestamp = If(h.time[Gas] # Zero, Digits(h.time[Gas]))
        BY <1>1, <1>2, HouseAssumption DEF gas, HouseAssumption
    <2>4. h.time[Gas] \in Clock
        BY HouseFacts
    <2>5. parse("v1", gas(d).timestamp) = Time(h.time[Gas])
        BY <2>3, <2>4, StampOfEntry
    <2> HIDE DEF meters, d
    <2> QED
        BY <1>5, <1>7, <2>2, <2>3, <2>5 DEF AreReadings, meters
<1> QED
    BY <1>6, <1>7

\* Each meter that has a reading is found once in the answer of either
\* generation, wherever its firmware reports it.
LEMMA MetersAreRead ==
    ASSUME NEW p \in Product, NEW h \in Houses[p], NEW v \in Served(p, h)
    PROVE  AreReadings(metersOf(v, h), v, h)
<1>1. v \in Version /\ (v = "v2" => h.firmware = "new")
    BY DEF Served
<1>2. CASE v = "v2"
    <2>1. v2Answer(h).external = Entries(h, "v2")
        BY DEF v2Answer, v2Data
    <2>2. metersOf(v, h) = kept(Entries(h, v))
        BY <1>2, <2>1 DEF metersOf
    <2> QED
        BY <1>1, <1>2, <2>2, ListIsRead
<1>3. CASE v = "v1" /\ h.firmware = "new"
    <2>1. v1Answer(h).external = Entries(h, "v1")
          /\ v1Answer(h).total_gas_m3 = h.value[Gas]
        BY <1>3 DEF v1Answer, v1Data
    <2> DEFINE meters == kept(Entries(h, "v1"))
    <2>2. AreReadings(meters, v, h)
        BY <1>1, <1>3, ListIsRead
    <2> HIDE DEF meters
    <2>3. h.value[Gas] # nil => DOMAIN meters # {}
        <3>1. h.value[Gas] # nil => Gas \in Readings(h)
            BY HouseFacts DEF Readings
        <3> QED
            BY <2>2, <3>1 DEF AreReadings
    <2>4. metersOf(v, h) = promoted(v1Answer(h), meters)
        BY <1>3, <2>1 DEF metersOf, meters
    <2>5. metersOf(v, h) = meters
        BY <2>1, <2>3, <2>4 DEF promoted
    <2> QED
        BY <2>2, <2>5
<1>4. CASE v = "v1" /\ h.firmware # "new"
    BY <1>4, FlatFieldsAreRead
<1> QED
    BY <1>1, <1>2, <1>3, <1>4 DEF Version

\* The external meter that a reading becomes.
MeterOf(h, u) ==
    [UniqueID |-> u, Type |-> MeterType[u], Unit |-> MeterUnit[u],
     Value |-> h.value[u], Timestamp |-> h.time[u]]

\* External meters that are right for house h: each reading, once.
ShowReadings(meters, h) ==
    /\ \A i \in DOMAIN meters :
        /\ meters[i].UniqueID \in Readings(h)
        /\ meters[i] = MeterOf(h, meters[i].UniqueID)
    /\ \A u \in Readings(h) : \E i \in DOMAIN meters : meters[i].UniqueID = u
    /\ \A i, j \in DOMAIN meters : meters[i].UniqueID = meters[j].UniqueID => i = j

\* What Scrape's properties rest on of a measurement of house h.
IsMeasurementOf(m, h) ==
    /\ \A n \in Phase : m.PowerPhaseW[n] = h.phases[n]
    /\ m.WifiSSID \in Network \cup {""}
    /\ ShowReadings(m.External, h)

\* What is made of one entry.
LEMMA ExternalOfEntry ==
    ASSUME NEW h, NEW e, NEW u, e.unique_id = u, e.type = MeterType[u],
           e.unit = MeterUnit[u], e.value = h.value[u]
    PROVE  External(e, Time(h.time[u])) = MeterOf(h, u)
BY DEF External, MeterOf, Time

\* assembled succeeds exactly if the meters with a reading know the time.
LEMMA AssembledFromReadings ==
    ASSUME NEW v, NEW h, NEW m, m = [f \in DOMAIN NoMeasurement |-> m[f]],
           NEW at, at.ok, NEW peak, peak.ok,
           NEW meters, AreReadings(meters, v, h)
    PROVE  LET a == assembled(m, at, peak, meters,
                        [i \in DOMAIN meters |-> parse(v, meters[i].timestamp)])
           IN  /\ Readable(h) =>
                    /\ a.ok
                    /\ a.m.PowerPhaseW = m.PowerPhaseW /\ a.m.WifiSSID = m.WifiSSID
                    /\ ShowReadings(a.m.External, h)
               /\ ~Readable(h) => ~a.ok
<1> DEFINE times == [i \in DOMAIN meters |-> parse(v, meters[i].timestamp)]
           id(i) == meters[i].unique_id
           a == assembled(m, at, peak, meters, times)
           external == [i \in DOMAIN meters |-> External(meters[i], times[i])]
<1>1. /\ DOMAIN times = DOMAIN meters
      /\ \A i \in DOMAIN meters : times[i] = Time(h.time[id(i)])
    BY DEF AreReadings
<1>2. \A i \in DOMAIN meters : id(i) \in Readings(h)
    BY DEF AreReadings
<1>3. (\A i \in DOMAIN times : times[i].ok) <=> Readable(h)
    <2>1. ASSUME Readable(h), NEW i \in DOMAIN meters
          PROVE  times[i].ok
        <3>1. Time(h.time[id(i)]).ok
            BY <1>2, <2>1 DEF Readable
        <3> QED
            BY <1>1, <3>1
    <2>2. ASSUME \A i \in DOMAIN times : times[i].ok, NEW u \in Readings(h)
          PROVE  Time(h.time[u]).ok
        <3>1. PICK i \in DOMAIN meters : id(i) = u
            BY DEF AreReadings
        <3>2. times[i].ok
            BY <1>1, <2>2
        <3> QED
            BY <1>1, <3>1, <3>2
    <2> QED
        BY <1>1, <2>1, <2>2 DEF Readable
<1> HIDE DEF times, id
<1>4. CASE Readable(h)
    <2> DEFINE to == [m EXCEPT !.Timestamp = at.time, !.MonthlyPowerPeakAt = peak.time,
                               !.External = external]
    <2>1. a = [ok |-> TRUE, m |-> to]
        BY <1>3, <1>4 DEF assembled
    <2>2. /\ to.PowerPhaseW = m.PowerPhaseW /\ to.WifiSSID = m.WifiSSID
          /\ to.External = external
        BY DEF NoMeasurement
    <2> HIDE DEF to, a
    <2>3. /\ DOMAIN external = DOMAIN meters
          /\ \A i \in DOMAIN meters : external[i] = External(meters[i], Time(h.time[id(i)]))
        BY <1>1
    <2> HIDE DEF external
    <2>4. \A i \in DOMAIN meters : external[i] = MeterOf(h, id(i))
        <3> SUFFICES ASSUME NEW i \in DOMAIN meters
                     PROVE  External(meters[i], Time(h.time[id(i)])) = MeterOf(h, id(i))
            BY <2>3
        <3>1. /\ meters[i].unique_id = id(i) /\ meters[i].type = MeterType[id(i)]
              /\ meters[i].unit = MeterUnit[id(i)] /\ meters[i].value = h.value[id(i)]
            BY DEF AreReadings, id
        <3> QED
            BY <3>1, ExternalOfEntry
    <2>5. \A i \in DOMAIN meters : external[i].UniqueID = id(i)
        <3>1. \A u : MeterOf(h, u).UniqueID = u
            BY DEF MeterOf
        <3> QED
            BY <2>4, <3>1
    <2>6. ShowReadings(external, h)
        BY <1>2, <2>3, <2>4, <2>5 DEF ShowReadings, AreReadings, id
    <2> QED
        BY <1>4, <2>1, <2>2, <2>6 DEF a, times
<1>5. CASE ~Readable(h)
    <2>1. a = Rejected
        BY <1>3, <1>5 DEF assembled
    <2> QED
        BY <1>5, <2>1 DEF Rejected, a, times
<1> QED
    BY <1>4, <1>5

\* Client.Measurement on either generation: an answer is read if and only if the
\* clocks of the meters with a reading tell the time, and it says of the house what
\* the other generation would say.
LEMMA Decoding ==
    ASSUME NEW p \in Product, NEW h \in Houses[p], NEW v \in Served(p, h)
    PROVE  /\ Readable(h) => Measured(v, h).ok /\ IsMeasurementOf(Measured(v, h).m, h)
           /\ ~Readable(h) => ~Measured(v, h).ok
<1> DEFINE meters == metersOf(v, h)
           times == [i \in DOMAIN meters |-> parse(v, meters[i].timestamp)]
<1>1. AreReadings(meters, v, h)
    BY MetersAreRead
<1>2. /\ h.clock \in Clock /\ Time(h.clock).ok /\ h.peak \in Clock /\ Time(h.peak).ok
      /\ h.ssid \in Network \cup {""}
    BY HouseFacts
<1>3. CASE v = "v2"
    <2> DEFINE d == v2Answer(h)
               m == [NoMeasurement EXCEPT
                        !.PowerW = d.power_w, !.StateOfChargePct = d.state_of_charge_pct,
                        !.PowerPhaseW = <<d.power_l1_w, d.power_l2_w, d.power_l3_w>>]
               at == parseISOTimestamp(d.timestamp)
               peak == parseISOTimestamp(d.monthly_power_peak_timestamp)
    <2>1. /\ d.power_l1_w = h.phases[1] /\ d.power_l2_w = h.phases[2]
          /\ d.power_l3_w = h.phases[3]
          /\ d.timestamp = h.clock /\ d.monthly_power_peak_timestamp = h.peak
        BY DEF v2Answer, v2Data
    <2> HIDE DEF d
    <2>2. m = [f \in DOMAIN NoMeasurement |-> m[f]]
        BY DEF NoMeasurement
    <2>9. m.PowerPhaseW = <<h.phases[1], h.phases[2], h.phases[3]>>
        BY <2>1 DEF NoMeasurement
    <2>10. m.WifiSSID = ""
        BY DEF NoMeasurement
    <2> HIDE DEF m
    <2>3. at.ok /\ peak.ok
        BY <1>2, <2>1 DEF parseISOTimestamp
    <2>4. kept(d.external) = meters
        BY <1>3 DEF metersOf, d
    <2>5. times = [i \in DOMAIN meters |-> parseISOTimestamp(meters[i].timestamp)]
        BY <1>3 DEF parse
    <2> HIDE DEF meters
    <2>6. Measured(v, h) = assembled(m, at, peak, meters, times)
        BY <1>3, <2>4, <2>5 DEF Measured, v2Measurement, m, d
    <2> HIDE DEF times, at, peak
    <2>7. \A n \in Phase : m.PowerPhaseW[n] = h.phases[n]
        <3>1. \A n \in Phase : n \in {1, 2, 3}
            BY DEF Phase, phaseCount
        <3>2. /\ m.PowerPhaseW[1] = h.phases[1] /\ m.PowerPhaseW[2] = h.phases[2]
              /\ m.PowerPhaseW[3] = h.phases[3]
            BY <2>9
        <3> QED
            BY <3>1, <3>2
    <2>8. LET a == Measured(v, h) IN
          /\ Readable(h) => /\ a.ok /\ a.m.PowerPhaseW = m.PowerPhaseW
                            /\ a.m.WifiSSID = m.WifiSSID
                            /\ ShowReadings(a.m.External, h)
          /\ ~Readable(h) => ~a.ok
        BY <1>1, <2>2, <2>3, <2>6, AssembledFromReadings DEF times
    <2> QED
        BY <2>10, <2>7, <2>8 DEF IsMeasurementOf
<1>4. CASE v = "v1"
    <2> DEFINE d == v1Answer(h)
               m == [NoMeasurement EXCEPT
                        !.PowerW = d.active_power_w,
                        !.ActiveWaterLPM = d.active_liter_lpm,
                        !.WifiSSID = d.wifi_ssid,
                        !.PowerPhaseW = <<d.active_power_l1_w, d.active_power_l2_w,
                                          d.active_power_l3_w>>]
    <2>1. /\ d.active_power_l1_w = h.phases[1] /\ d.active_power_l2_w = h.phases[2]
          /\ d.active_power_l3_w = h.phases[3] /\ d.wifi_ssid = h.ssid
          /\ d.montly_power_peak_timestamp = If(h.peak # Zero, Digits(h.peak))
        BY DEF v1Answer, v1Data
    <2> HIDE DEF d
    <2>2. /\ m = [f \in DOMAIN NoMeasurement |-> m[f]]
          /\ m.PowerPhaseW = <<d.active_power_l1_w, d.active_power_l2_w, d.active_power_l3_w>>
          /\ m.WifiSSID = h.ssid
        BY <2>1 DEF NoMeasurement
    <2> HIDE DEF m
    <2>3. Time(Zero).ok /\ compact(d.montly_power_peak_timestamp).ok
        <3>1. compact(d.montly_power_peak_timestamp) = Time(h.peak)
            BY <1>2, <2>1, StampOfEntry DEF parse
        <3> QED
            BY <1>2, <3>1 DEF Time
    <2>4. promoted(d, kept(d.external)) = meters
        BY <1>4 DEF metersOf, d
    <2>5. times = [i \in DOMAIN meters |-> compact(meters[i].timestamp)]
        BY <1>4 DEF parse
    <2> HIDE DEF meters
    <2>6. Measured(v, h) = assembled(m, Time(Zero),
                compact(d.montly_power_peak_timestamp), meters, times)
        BY <1>4, <2>4, <2>5 DEF Measured, v1Measurement, m, d
    <2> HIDE DEF times
    <2>7. \A n \in Phase : m.PowerPhaseW[n] = h.phases[n]
        <3>1. \A n \in Phase : n \in {1, 2, 3}
            BY DEF Phase, phaseCount
        <3> QED
            BY <2>1, <2>2, <3>1
    <2>8. LET a == Measured(v, h) IN
          /\ Readable(h) => /\ a.ok /\ a.m.PowerPhaseW = m.PowerPhaseW
                            /\ a.m.WifiSSID = m.WifiSSID
                            /\ ShowReadings(a.m.External, h)
          /\ ~Readable(h) => ~a.ok
        BY <1>1, <2>2, <2>3, <2>6, AssembledFromReadings DEF times
    <2> QED
        BY <1>2, <2>2, <2>7, <2>8 DEF IsMeasurementOf
<1> QED
    BY <1>3, <1>4 DEF Served, Version

-----------------------------------------------------------------------------
(* The invariant.                                                           *)

Fields == {"read", "APIVersion", "measurement", "system", "state", "batteries"}

LEMMA FieldsOfBlank == DOMAIN Blank = Fields
BY DEF Blank, Fields

\* What Update does to the device.
LEMMA Publishing ==
    ASSUME NEW d, d = [f \in DOMAIN Blank |-> d[f]],
           NEW e \in Secondary \cup {"measurement"}, NEW x
    PROVE  /\ published(d, e, x) = [f \in DOMAIN Blank |-> published(d, e, x)[f]]
           /\ published(d, e, x)[e] = x
           /\ published(d, e, x).read = d.read \cup {e}
           /\ \A f \in Fields \ {e, "read"} : published(d, e, x)[f] = d[f]
<1>1. DOMAIN d = Fields /\ e \in Fields /\ e # "read" /\ "read" \in Fields
    BY FieldsOfBlank DEF Secondary, Fields
<1>2. published(d, e, x) = [f \in Fields |-> IF f = "read" THEN d.read \cup {e}
                                             ELSE IF f = e THEN x ELSE d[f]]
    BY <1>1, FieldsOfBlank DEF published
<1> QED
    BY <1>1, <1>2, FieldsOfBlank

\* A poll asks secondary endpoints only.
LEMMA SecondariesAreListed ==
    ASSUME NEW caps, NEW slow
    PROVE  secondaries(caps, slow) \in Seq(Secondary)
<1>1. ASSUME NEW c, NEW e \in Secondary
      PROVE  (IF c THEN <<e>> ELSE <<>>) \in Seq(Secondary)
    OBVIOUS
<1>2. /\ (IF "state" \in caps THEN <<"state">> ELSE <<>>) \in Seq(Secondary)
      /\ (IF slow THEN <<"system">> ELSE <<>>) \in Seq(Secondary)
      /\ (IF slow /\ "batteries" \in caps THEN <<"batteries">> ELSE <<>>)
            \in Seq(Secondary)
    BY <1>1 DEF Secondary
<1> QED
    BY <1>2 DEF secondaries

\* The external meters of a measurement that was read.
LEMMA MetersAreSound ==
    ASSUME NEW p \in Product, NEW h \in Houses[p], Readable(h),
           NEW meters, ShowReadings(meters, h), NEW i \in DOMAIN meters
    PROVE  Len(meters[i].Value) = 1 /\ Time(meters[i].Timestamp).ok
<1> DEFINE u == meters[i].UniqueID
<1>1. u \in Readings(h) /\ meters[i] = MeterOf(h, u)
    BY DEF ShowReadings
<1> HIDE DEF u
<1>2. u \in Utility /\ h.value[u] # nil /\ Time(h.time[u]).ok
    BY <1>1 DEF Readings, Readable
<1>3. h.value[u] \in Optional(Quantity)
    <2>1. h.value \in [Utility -> Optional(Quantity)]
        BY HouseFacts
    <2> QED
        BY <1>2, <2>1
<1>4. PICK x \in Quantity : h.value[u] = <<x>>
    BY <1>2, <1>3 DEF Optional, ptr
<1>5. Len(h.value[u]) = 1
    BY <1>4
<1>6. MeterOf(h, u).Value = h.value[u] /\ MeterOf(h, u).Timestamp = h.time[u]
    BY DEF MeterOf
<1> QED
    BY <1>1, <1>2, <1>5, <1>6

LEMMA InitSound == Init => IInv
<1> SUFFICES ASSUME Init PROVE IInv
    OBVIOUS
<1>1. /\ entry = [f \in DOMAIN Blank |-> entry[f]] /\ entry.APIVersion = version
      /\ entry.read = {} /\ entry.measurement = NoMeasurement
      /\ \A e \in Secondary : entry[e] = Blank[e]
    <2>1. entry = [f \in Fields |-> IF f = "APIVersion" THEN version ELSE Blank[f]]
        BY FieldsOfBlank DEF Init
    <2>2. Blank.read = {} /\ Blank.measurement = NoMeasurement
        BY DEF Blank
    <2> QED
        BY <2>1, <2>2, FieldsOfBlank DEF Fields, Secondary
<1>2. ScrapeTypeOK
    <2>1. DOMAIN NoMeasurement.External = {}
        <3>1. NoMeasurement.External = <<>> /\ DOMAIN <<>> = {}
            BY DEF NoMeasurement
        <3> QED
            BY <3>1
    <2>2. told = [e \in Secondary |-> told[e]] /\ \A e \in Secondary : told[e] = Blank[e]
        BY DEF Init
    <2>3. todo \in Seq(Secondary)
        BY DEF Init
    <2>4. seen \in Optional(Houses[product])
        BY DEF Init, Optional
    <2> QED
        BY <1>1, <2>1, <2>2, <2>3, <2>4 DEF Init, ScrapeTypeOK
<1>3. MeasurementFits
    BY <1>1 DEF Init, MeasurementFits
<1>4. SecondariesFit
    BY <1>1 DEF Init, SecondariesFit
<1> QED
    BY <1>2, <1>3, <1>4 DEF IInv

\* A measurement is decoded and published, or nothing is.
LEMMA PollSound ==
    ASSUME IInv, Poll
    PROVE  IInv'
<1> DEFINE answer == Measured(version, house)
           h == house
<1>1. /\ product \in Product /\ house \in Houses[product]
      /\ version \in Served(product, house)
      /\ entry = [f \in DOMAIN Blank |-> entry[f]]
    BY DEF IInv, ScrapeTypeOK
<1>2. /\ product' = product /\ house' = house /\ version' = version /\ told' = told
      /\ seen' = IF Readable(house) THEN ptr(house) ELSE seen
    BY DEF Poll
<1>3. /\ Readable(house) => answer.ok /\ IsMeasurementOf(answer.m, house)
      /\ ~Readable(house) => ~answer.ok
    BY <1>1, Decoding
<1>4. CASE answer.ok
    <2>1. /\ entry' = published(entry, "measurement", answer.m)
          /\ todo' \in Seq(Secondary)
        BY <1>4, SecondariesAreListed DEF Poll
    <2>2. Readable(house) /\ IsMeasurementOf(answer.m, house)
        BY <1>3, <1>4
    <2>3. seen' = <<house>> /\ seen'[1] = house /\ seen' # nil
        BY <1>2, <2>2 DEF ptr, nil
    <2>4. /\ entry' = [f \in DOMAIN Blank |-> entry'[f]]
          /\ entry'["measurement"] = answer.m
          /\ entry'.read = entry.read \cup {"measurement"}
          /\ \A f \in Fields \ {"measurement", "read"} : entry'[f] = entry[f]
        <3>1. entry = [f \in DOMAIN Blank |-> entry[f]]
            BY <1>1
        <3>2. "measurement" \in Secondary \cup {"measurement"}
            OBVIOUS
        <3> HIDE DEF answer
        <3>3. entry' = published(entry, "measurement", answer.m)
            BY <2>1
        <3> QED
            BY <3>1, <3>2, <3>3, Publishing
    <2> HIDE DEF answer
    <2>5. ScrapeTypeOK'
        <3>1. \A i \in DOMAIN answer.m.External :
                Len(answer.m.External[i].Value) = 1
                /\ Time(answer.m.External[i].Timestamp).ok
            BY <1>1, <2>2, MetersAreSound DEF IsMeasurementOf
        <3>2. entry'.APIVersion = entry.APIVersion
            BY <2>4 DEF Fields
        <3>3. entry'.read \subseteq Secondary \cup {"measurement"}
            BY <2>4 DEF IInv, ScrapeTypeOK
        <3>4. seen' \in Optional(Houses[product])
            BY <1>1, <2>3 DEF Optional, ptr
        <3> QED
            BY <1>2, <2>1, <2>4, <3>1, <3>2, <3>3, <3>4 DEF IInv, ScrapeTypeOK
    <2>6. MeasurementFits'
        BY <1>1, <1>2, <2>2, <2>3, <2>4 DEF MeasurementFits, answer
    <2>7. SecondariesFit'
        BY <1>2, <2>4 DEF IInv, SecondariesFit, Secondary, Fields
    <2> QED
        BY <2>5, <2>6, <2>7 DEF IInv
<1>5. CASE ~answer.ok
    <2>1. entry' = entry /\ todo' = todo /\ seen' = seen
        BY <1>2, <1>3, <1>5 DEF Poll
    <2> QED
        BY <1>2, <2>1 DEF IInv, ScrapeTypeOK, MeasurementFits, SecondariesFit
<1> QED
    BY <1>4, <1>5

\* The answer of one endpoint replaces the one before.
LEMMA ReadSecondarySound ==
    ASSUME IInv, ReadSecondary
    PROVE  IInv'
<1> DEFINE endpoint == Head(todo)
<1>1. /\ todo' = Tail(todo) /\ product' = product /\ house' = house
      /\ version' = version /\ seen' = seen
    BY DEF ReadSecondary
<1>2. endpoint \in Secondary /\ todo' \in Seq(Secondary)
    BY <1>1 DEF IInv, ScrapeTypeOK, ReadSecondary
<1>3. CASE entry' = entry /\ told' = told
    BY <1>1, <1>2, <1>3 DEF IInv, ScrapeTypeOK, MeasurementFits, SecondariesFit
<1>4. ASSUME NEW answer \in Answers(version, endpoint),
             entry' = published(entry, endpoint, answer),
             told' = [told EXCEPT ![endpoint] = answer]
      PROVE  IInv'
    <2> HIDE DEF endpoint
    <2>1. /\ entry' = [f \in DOMAIN Blank |-> entry'[f]]
          /\ entry'[endpoint] = answer
          /\ entry'.read = entry.read \cup {endpoint}
          /\ \A f \in Fields \ {endpoint, "read"} : entry'[f] = entry[f]
        <3>1. entry = [f \in DOMAIN Blank |-> entry[f]]
            BY DEF IInv, ScrapeTypeOK
        <3>2. endpoint \in Secondary \cup {"measurement"}
            BY <1>2
        <3> QED
            BY <1>4, <3>1, <3>2, Publishing
    <2>2. entry'.APIVersion = entry.APIVersion /\ entry'.measurement = entry.measurement
        BY <1>2, <2>1 DEF Fields, Secondary
    <2>3. /\ told' = [e \in Secondary |-> told'[e]]
          /\ told'[endpoint] = answer
          /\ \A e \in Secondary \ {endpoint} : told'[e] = told[e]
        BY <1>2, <1>4 DEF IInv, ScrapeTypeOK
    <2>4. ScrapeTypeOK'
        <3>1. version \in Version
            BY DEF IInv, ScrapeTypeOK, Served
        <3>2. \A e \in Secondary :
                told'[e] \in {Blank[e]} \cup UNION {Answers(v, e) : v \in Version}
            BY <1>4, <2>3, <3>1 DEF IInv, ScrapeTypeOK
        <3>3. entry'.read \subseteq Secondary \cup {"measurement"}
            BY <1>2, <2>1 DEF IInv, ScrapeTypeOK
        <3> QED
            BY <1>1, <1>2, <2>1, <2>2, <2>3, <3>2, <3>3 DEF IInv, ScrapeTypeOK
    <2>5. MeasurementFits'
        <3>1. "measurement" \in entry'.read <=> "measurement" \in entry.read
            BY <1>2, <2>1 DEF Secondary
        <3> QED
            BY <1>1, <2>2, <3>1 DEF IInv, MeasurementFits
    <2>6. SecondariesFit'
        <3> SUFFICES ASSUME NEW e \in Secondary
                     PROVE  entry'[e] = told'[e] /\ (e \notin entry'.read => entry'[e] = Blank[e])
            BY DEF SecondariesFit
        <3>1. CASE e = endpoint
            BY <2>1, <2>3, <3>1
        <3>2. CASE e # endpoint
            <4>1. entry'[e] = entry[e] /\ told'[e] = told[e]
                BY <2>1, <2>3, <3>2 DEF Fields, Secondary
            <4> QED
                BY <2>1, <3>2, <4>1 DEF IInv, SecondariesFit
        <3> QED
            BY <3>1, <3>2
    <2> QED
        BY <2>4, <2>5, <2>6 DEF IInv
<1> QED
    BY <1>3, <1>4 DEF ReadSecondary

\* A new client leaves the readings alone.
LEMMA ConnectSound ==
    ASSUME IInv, NEW v \in Version, Connect(v)
    PROVE  IInv'
<1>1. /\ v \in Served(product, house) /\ version' = v /\ todo' = todo
      /\ product' = product /\ house' = house /\ seen' = seen /\ told' = told
    BY DEF Connect
<1>2. /\ entry' = [f \in DOMAIN Blank |-> entry'[f]] /\ entry'.APIVersion = v
      /\ \A f \in Fields \ {"APIVersion"} : entry'[f] = entry[f]
    <2>1. entry = [f \in Fields |-> entry[f]]
        BY FieldsOfBlank DEF IInv, ScrapeTypeOK
    <2>2. entry' = [f \in Fields |-> IF f = "APIVersion" THEN v ELSE entry[f]]
        BY <2>1 DEF Connect
    <2> QED
        BY <2>2, FieldsOfBlank DEF Fields
<1>3. /\ entry'.read = entry.read /\ entry'.measurement = entry.measurement
      /\ \A e \in Secondary : entry'[e] = entry[e]
    BY <1>2 DEF Fields, Secondary
<1>4. ScrapeTypeOK'
    BY <1>1, <1>2, <1>3 DEF IInv, ScrapeTypeOK
<1>5. MeasurementFits' /\ SecondariesFit'
    BY <1>1, <1>3 DEF IInv, MeasurementFits, SecondariesFit
<1> QED
    BY <1>4, <1>5 DEF IInv

\* The inductive invariant holds for any houses and answers.
THEOREM Invariant == Spec => []IInv
<1>1. IInv /\ [Next]_vars => IInv'
    <2> SUFFICES ASSUME IInv, [Next]_vars PROVE IInv'
        OBVIOUS
    <2>1. CASE Poll
        BY <2>1, PollSound
    <2>2. CASE ReadSecondary
        BY <2>2, ReadSecondarySound
    <2>3. ASSUME NEW v \in Version, Connect(v) PROVE IInv'
        BY <2>3, ConnectSound
    <2>4. CASE Change
        BY <2>4 DEF Change, IInv, ScrapeTypeOK, MeasurementFits, SecondariesFit
    <2>5. CASE UNCHANGED vars
        BY <2>5 DEF vars, IInv, ScrapeTypeOK, MeasurementFits, SecondariesFit
    <2> QED
        BY <2>1, <2>2, <2>3, <2>4, <2>5 DEF Next
<1> QED
    BY InitSound, <1>1, PTL DEF Spec

-----------------------------------------------------------------------------
(* What is in a scrape.                                                     *)

One(name, nth, value, labels) ==
    [name |-> name, nth |-> nth, value |-> value, labels |-> labels]

LEMMA OfOne ==
    ASSUME NEW name, NEW nth, NEW value, NEW labels
    PROVE  /\ One(name, nth, value, labels).name = name
           /\ One(name, nth, value, labels).nth = nth
           /\ One(name, nth, value, labels).value = value
           /\ One(name, nth, value, labels).labels = labels
BY DEF One

LEMMA InGauge ==
    ASSUME NEW name, NEW nth, NEW value, NEW labels, NEW x
    PROVE  x \in gauge(name, nth, value, labels) <=> x = One(name, nth, value, labels)
BY DEF gauge, One

LEMMA InOptional ==
    ASSUME NEW name, NEW nth, NEW value, NEW labels, NEW x
    PROVE  x \in optional(name, nth, value, labels)
            <=> value # nil /\ x = One(name, nth, value, labels)
BY InGauge DEF optional

PhaseName == "active_power_phase_watts"
ValueName == "external_meter_value"
TimeName  == "external_meter_timestamp_seconds"

\* Series number i of those that one place emits.
IsPhase(x, m, n) ==
    /\ n \in Phase /\ m.PowerPhaseW[n] # nil
    /\ x = One(PhaseName, n, m.PowerPhaseW[n], <<phaseNames[n]>>)
IsValue(x, m, i) ==
    LET e == m.External[i] IN
    i \in DOMAIN m.External
    /\ x = One(ValueName, i, e.Value, <<e.UniqueID, e.Type, e.Unit>>)
IsTime(x, m, i) ==
    LET e == m.External[i] IN
    i \in DOMAIN m.External /\ e.Timestamp # nil
    /\ x = One(TimeName, i, e.Timestamp, <<e.UniqueID, e.Type>>)
IsPermission(x, b, i) ==
    i \in DOMAIN b.Permissions
    /\ x = One("batteries_permission", i, <<1>>, <<b.Permissions[i]>>)

LEMMA NamesOfMany ==
    ASSUME NEW x, NEW s, NEW i
    PROVE  /\ IsPhase(x, s, i) => x.name = PhaseName
           /\ IsValue(x, s, i) => x.name = ValueName
           /\ IsTime(x, s, i) => x.name = TimeName
           /\ IsPermission(x, s, i) => x.name = "batteries_permission"
BY OfOne DEF IsPhase, IsValue, IsTime, IsPermission

\* What is collected of one endpoint.
LEMMA InMeasurement ==
    ASSUME NEW m, NEW x
    PROVE  x \in collectMeasurement(m) <=>
            \/ m.PowerW # nil /\ x = One("active_power_watts", 1, m.PowerW, <<>>)
            \/ /\ m.ActiveWaterLPM # nil
               /\ x = One("active_water_liters_per_minute", 1, m.ActiveWaterLPM, <<>>)
            \/ \E n : IsPhase(x, m, n)
            \/ /\ ratio(m.StateOfChargePct) # nil
               /\ x = One("battery_state_of_charge_ratio", 1,
                          ratio(m.StateOfChargePct), <<>>)
            \/ /\ m.Timestamp # nil
               /\ x = One("measurement_timestamp_seconds", 1, m.Timestamp, <<>>)
            \/ /\ m.MonthlyPowerPeakAt # nil
               /\ x = One("monthly_power_peak_timestamp_seconds", 1,
                          m.MonthlyPowerPeakAt, <<>>)
            \/ \E i : IsValue(x, m, i) \/ IsTime(x, m, i)
<1>1. x \in perPhase(PhaseName, m.PowerPhaseW) <=>
            \E n : IsPhase(x, m, n)
    BY InOptional DEF perPhase, IsPhase
<1>2. ASSUME NEW i \in DOMAIN m.External
      PROVE  x \in collectExternal(i, m.External[i])
                <=> IsValue(x, m, i) \/ IsTime(x, m, i)
    BY InOptional, InGauge DEF collectExternal, ValueName, TimeName, IsValue, IsTime
<1>3. x \in UNION {collectExternal(i, m.External[i]) : i \in DOMAIN m.External}
        <=> \E i \in DOMAIN m.External : x \in collectExternal(i, m.External[i])
    OBVIOUS
<1> DEFINE phases == perPhase(PhaseName, m.PowerPhaseW)
           externals == UNION {collectExternal(i, m.External[i]) : i \in DOMAIN m.External}
<1>4. x \in collectMeasurement(m) <=>
        \/ x \in optional("active_power_watts", 1, m.PowerW, <<>>)
        \/ x \in optional("active_water_liters_per_minute", 1, m.ActiveWaterLPM, <<>>)
        \/ x \in phases
        \/ x \in optional("battery_state_of_charge_ratio", 1, ratio(m.StateOfChargePct), <<>>)
        \/ x \in optional("measurement_timestamp_seconds", 1, m.Timestamp, <<>>)
        \/ x \in optional("monthly_power_peak_timestamp_seconds", 1,
                          m.MonthlyPowerPeakAt, <<>>)
        \/ x \in externals
    <2> HIDE DEF externals
    <2>1. collectMeasurement(m) =
            optional("active_power_watts", 1, m.PowerW, <<>>)
            \cup optional("active_water_liters_per_minute", 1, m.ActiveWaterLPM, <<>>)
            \cup phases
            \cup optional("battery_state_of_charge_ratio", 1, ratio(m.StateOfChargePct), <<>>)
            \cup optional("measurement_timestamp_seconds", 1, m.Timestamp, <<>>)
            \cup optional("monthly_power_peak_timestamp_seconds", 1,
                          m.MonthlyPowerPeakAt, <<>>)
            \cup externals
        BY DEF collectMeasurement, PhaseName, externals
    <2> HIDE DEF phases
    <2> QED
        BY <2>1
<1>5. x \in externals <=> \E i : IsValue(x, m, i) \/ IsTime(x, m, i)
    <2>1. \A i : IsValue(x, m, i) \/ IsTime(x, m, i) => i \in DOMAIN m.External
        BY DEF IsValue, IsTime
    <2> QED
        BY <1>2, <1>3, <2>1
<1>6. x \in phases <=> \E n : IsPhase(x, m, n)
    BY <1>1
<1> HIDE DEF phases, externals
<1> QED
    BY <1>4, <1>5, <1>6, InOptional

LEMMA InSystem ==
    ASSUME NEW s, NEW x
    PROVE  x \in collectSystem(s) <=>
            \/ s.UptimeS # nil /\ x = One("uptime_seconds", 1, s.UptimeS, <<>>)
            \/ s.CloudEnabled # nil /\ x = One("cloud_enabled", 1, s.CloudEnabled, <<>>)
BY InOptional DEF collectSystem

LEMMA InState ==
    ASSUME NEW s, NEW x
    PROVE  x \in collectState(s) <=>
            s.PowerOn # nil /\ x = One("socket_power_on", 1, s.PowerOn, <<>>)
BY InOptional DEF collectState

LEMMA InBatteries ==
    ASSUME NEW b, NEW x
    PROVE  x \in collectBatteries(b) <=>
            \/ b.PowerW # nil /\ x = One("batteries_power_watts", 1, b.PowerW, <<>>)
            \/ b.Mode # "" /\ x = One("batteries_mode_info", 1, <<1>>, <<b.Mode>>)
            \/ \E i : IsPermission(x, b, i)
<1>1. x \in UNION {gauge("batteries_permission", i, <<1>>, <<b.Permissions[i]>>) :
                    i \in DOMAIN b.Permissions}
        <=> \E i : IsPermission(x, b, i)
    BY InGauge DEF IsPermission
<1>2. x \in (IF b.Mode = "" THEN {}
             ELSE gauge("batteries_mode_info", 1, <<1>>, <<b.Mode>>))
        <=> b.Mode # "" /\ x = One("batteries_mode_info", 1, <<1>>, <<b.Mode>>)
    BY InGauge
<1> QED
    BY <1>1, <1>2, InOptional DEF collectBatteries

LEMMA InScraped ==
    ASSUME NEW x
    PROVE  x \in Scraped <=>
            \/ x = One("device_info", 1, <<1>>, <<product, entry.APIVersion>>)
            \/ "measurement" \in entry.read /\ x \in collectMeasurement(entry.measurement)
            \/ "system" \in entry.read /\ x \in collectSystem(entry.system)
            \/ "state" \in entry.read /\ x \in collectState(entry.state)
            \/ "batteries" \in entry.read /\ x \in collectBatteries(entry.batteries)
            \/ wifiSSID(entry) # "" /\ x = One("wifi_info", 1, <<1>>, <<wifiSSID(entry)>>)
<1>1. x \in (IF wifiSSID(entry) = "" THEN {}
             ELSE gauge("wifi_info", 1, <<1>>, <<wifiSSID(entry)>>))
        <=> wifiSSID(entry) # "" /\ x = One("wifi_info", 1, <<1>>, <<wifiSSID(entry)>>)
    BY InGauge
<1> QED
    BY <1>1, InGauge DEF Scraped, collectDevice

\* The names tell which endpoint, and which of its fields, a series is of.
MeasurementNames ==
    {"active_power_watts", "active_water_liters_per_minute", PhaseName,
     "battery_state_of_charge_ratio", "measurement_timestamp_seconds",
     "monthly_power_peak_timestamp_seconds", ValueName, TimeName}
SystemNames    == {"uptime_seconds", "cloud_enabled"}
StateNames     == {"socket_power_on"}
BatteriesNames == {"batteries_power_watts", "batteries_mode_info", "batteries_permission"}

LEMMA NamesTellEndpoints ==
    ASSUME NEW d
    PROVE  /\ \A x \in collectMeasurement(d.measurement) : x.name \in MeasurementNames
           /\ \A x \in collectSystem(d.system) : x.name \in SystemNames
           /\ \A x \in collectState(d.state) : x.name \in StateNames
           /\ \A x \in collectBatteries(d.batteries) : x.name \in BatteriesNames
<1>1. \A x \in collectMeasurement(d.measurement) : x.name \in MeasurementNames
    BY InMeasurement, OfOne, NamesOfMany DEF MeasurementNames
<1>2. \A x \in collectSystem(d.system) : x.name \in SystemNames
    BY InSystem, OfOne DEF SystemNames
<1>3. \A x \in collectState(d.state) : x.name \in StateNames
    BY InState, OfOne DEF StateNames
<1>4. \A x \in collectBatteries(d.batteries) : x.name \in BatteriesNames
    <2> SUFFICES ASSUME NEW x \in collectBatteries(d.batteries)
                 PROVE  x.name \in BatteriesNames
        OBVIOUS
    <2> DEFINE power == One("batteries_power_watts", 1, d.batteries.PowerW, <<>>)
               mode  == One("batteries_mode_info", 1, <<1>>, <<d.batteries.Mode>>)
    <2>1. x = power \/ x = mode \/ \E i : IsPermission(x, d.batteries, i)
        BY InBatteries
    <2>2. /\ power.name = "batteries_power_watts"
          /\ mode.name = "batteries_mode_info"
        BY OfOne
    <2> HIDE DEF power, mode
    <2> QED
        BY <2>1, <2>2, NamesOfMany DEF BatteriesNames
<1> QED
    BY <1>1, <1>2, <1>3, <1>4

LEMMA ScrapedOfEndpoint ==
    ASSUME NEW x \in Scraped
    PROVE  /\ x.name \in MeasurementNames =>
                "measurement" \in entry.read /\ x \in collectMeasurement(entry.measurement)
           /\ x.name \in SystemNames =>
                "system" \in entry.read /\ x \in collectSystem(entry.system)
           /\ x.name \in StateNames =>
                "state" \in entry.read /\ x \in collectState(entry.state)
           /\ x.name \in BatteriesNames =>
                "batteries" \in entry.read /\ x \in collectBatteries(entry.batteries)
           /\ x.name = "device_info" =>
                x = One("device_info", 1, <<1>>, <<product, entry.APIVersion>>)
           /\ x.name = "wifi_info" =>
                wifiSSID(entry) # "" /\ x = One("wifi_info", 1, <<1>>, <<wifiSSID(entry)>>)
<1> DEFINE device == One("device_info", 1, <<1>>, <<product, entry.APIVersion>>)
           wifi   == One("wifi_info", 1, <<1>>, <<wifiSSID(entry)>>)
<1>1. device.name = "device_info" /\ wifi.name = "wifi_info"
    BY OfOne
<1> HIDE DEF device, wifi
<1>2. \/ x = device
      \/ "measurement" \in entry.read /\ x \in collectMeasurement(entry.measurement)
      \/ "system" \in entry.read /\ x \in collectSystem(entry.system)
      \/ "state" \in entry.read /\ x \in collectState(entry.state)
      \/ "batteries" \in entry.read /\ x \in collectBatteries(entry.batteries)
      \/ wifiSSID(entry) # "" /\ x = wifi
    BY InScraped DEF device, wifi
<1>3. /\ x \in collectMeasurement(entry.measurement) => x.name \in MeasurementNames
      /\ x \in collectSystem(entry.system) => x.name \in SystemNames
      /\ x \in collectState(entry.state) => x.name \in StateNames
      /\ x \in collectBatteries(entry.batteries) => x.name \in BatteriesNames
    BY NamesTellEndpoints
<1>4. /\ \A n \in MeasurementNames :
            n \notin SystemNames \cup StateNames \cup BatteriesNames
                    \cup {"device_info", "wifi_info"}
      /\ \A n \in SystemNames :
            n \notin StateNames \cup BatteriesNames \cup {"device_info", "wifi_info"}
      /\ \A n \in StateNames : n \notin BatteriesNames \cup {"device_info", "wifi_info"}
      /\ \A n \in BatteriesNames : n \notin {"device_info", "wifi_info"}
    BY DEF MeasurementNames, SystemNames, StateNames, BatteriesNames,
           PhaseName, ValueName, TimeName
<1>5. CASE x = device
    BY <1>1, <1>4, <1>5 DEF device
<1>6. CASE x = wifi /\ wifiSSID(entry) # ""
    BY <1>1, <1>4, <1>6 DEF wifi
<1>7. CASE "measurement" \in entry.read /\ x \in collectMeasurement(entry.measurement)
    BY <1>3, <1>4, <1>7
<1>8. CASE "system" \in entry.read /\ x \in collectSystem(entry.system)
    BY <1>3, <1>4, <1>8
<1>9. CASE "state" \in entry.read /\ x \in collectState(entry.state)
    BY <1>3, <1>4, <1>9
<1>10. CASE "batteries" \in entry.read /\ x \in collectBatteries(entry.batteries)
    BY <1>3, <1>4, <1>10
<1> QED
    BY <1>2, <1>5, <1>6, <1>7, <1>8, <1>9, <1>10

\* The series of each name.
LEMMA NamedInMeasurement ==
    ASSUME NEW m, NEW x
    PROVE  LET Has(name) == x \in collectMeasurement(m) /\ x.name = name IN
           /\ Has("active_power_watts") <=>
                m.PowerW # nil /\ x = One("active_power_watts", 1, m.PowerW, <<>>)
           /\ Has("active_water_liters_per_minute") <=>
                /\ m.ActiveWaterLPM # nil
                /\ x = One("active_water_liters_per_minute", 1, m.ActiveWaterLPM, <<>>)
           /\ Has("battery_state_of_charge_ratio") <=>
                /\ ratio(m.StateOfChargePct) # nil
                /\ x = One("battery_state_of_charge_ratio", 1,
                           ratio(m.StateOfChargePct), <<>>)
           /\ Has("measurement_timestamp_seconds") <=>
                /\ m.Timestamp # nil
                /\ x = One("measurement_timestamp_seconds", 1, m.Timestamp, <<>>)
           /\ Has("monthly_power_peak_timestamp_seconds") <=>
                /\ m.MonthlyPowerPeakAt # nil
                /\ x = One("monthly_power_peak_timestamp_seconds", 1,
                           m.MonthlyPowerPeakAt, <<>>)
           /\ Has(PhaseName) <=> \E n : IsPhase(x, m, n)
           /\ Has(ValueName) <=> \E i : IsValue(x, m, i)
           /\ Has(TimeName) <=> \E i : IsTime(x, m, i)
<1>1. /\ PhaseName = "active_power_phase_watts" /\ ValueName = "external_meter_value"
      /\ TimeName = "external_meter_timestamp_seconds"
    BY DEF PhaseName, ValueName, TimeName
<1> QED
    BY <1>1, InMeasurement, OfOne, NamesOfMany

LEMMA NamedInSystem ==
    ASSUME NEW s, NEW x
    PROVE  LET Has(name) == x \in collectSystem(s) /\ x.name = name IN
           /\ Has("uptime_seconds") <=>
                s.UptimeS # nil /\ x = One("uptime_seconds", 1, s.UptimeS, <<>>)
           /\ Has("cloud_enabled") <=>
                s.CloudEnabled # nil /\ x = One("cloud_enabled", 1, s.CloudEnabled, <<>>)
BY InSystem, OfOne

LEMMA NamedInState ==
    ASSUME NEW s, NEW x
    PROVE  x \in collectState(s) /\ x.name = "socket_power_on" <=>
                s.PowerOn # nil /\ x = One("socket_power_on", 1, s.PowerOn, <<>>)
BY InState, OfOne

LEMMA NamedInBatteries ==
    ASSUME NEW b, NEW x
    PROVE  LET Has(name) == x \in collectBatteries(b) /\ x.name = name IN
           /\ Has("batteries_power_watts") <=>
                b.PowerW # nil /\ x = One("batteries_power_watts", 1, b.PowerW, <<>>)
           /\ Has("batteries_mode_info") <=>
                b.Mode # "" /\ x = One("batteries_mode_info", 1, <<1>>, <<b.Mode>>)
           /\ Has("batteries_permission") <=> \E i : IsPermission(x, b, i)
<1> DEFINE power == One("batteries_power_watts", 1, b.PowerW, <<>>)
           mode  == One("batteries_mode_info", 1, <<1>>, <<b.Mode>>)
<1>1. x \in collectBatteries(b) <=>
        \/ b.PowerW # nil /\ x = power
        \/ b.Mode # "" /\ x = mode
        \/ \E i : IsPermission(x, b, i)
    BY InBatteries
<1>2. power.name = "batteries_power_watts" /\ mode.name = "batteries_mode_info"
    BY OfOne
<1> HIDE DEF power, mode
<1>3. LET Has(name) == x \in collectBatteries(b) /\ x.name = name IN
      /\ Has("batteries_power_watts") <=> b.PowerW # nil /\ x = power
      /\ Has("batteries_mode_info") <=> b.Mode # "" /\ x = mode
      /\ Has("batteries_permission") <=> \E i : IsPermission(x, b, i)
    BY <1>1, <1>2, NamesOfMany
<1> QED
    BY <1>3 DEF power, mode

\* The values of a name that one field is behind.
LEMMA ValuesOfOne ==
    ASSUME NEW name, NEW value,
           \A x : x \in Scraped /\ x.name = name <=>
                    value # nil /\ x = One(name, 1, value, <<>>)
    PROVE  Values(name) = {value} \ {nil}
<1> DEFINE of == {x \in Scraped : x.name \in {name}}
<1>1. of = IF value = nil THEN {} ELSE {One(name, 1, value, <<>>)}
    OBVIOUS
<1> DEFINE shown(s) == [name |-> s.name, labels |-> s.labels, value |-> s.value]
<1>2. Series({name}) = {shown(s) : s \in of}
    BY DEF Series
<1>3. \A s : shown(s).value = s.value
    OBVIOUS
<1> HIDE DEF of
<1> HIDE DEF shown
<1>4. Values(name) = {s.value : s \in of}
    <2> DEFINE all == Series({name})
    <2>1. Values(name) = {s.value : s \in all}
        BY DEF Values
    <2> HIDE DEF all
    <2>2. all = {shown(s) : s \in of}
        BY <1>2 DEF all
    <2>3. \A v : (\E s \in all : v = s.value) <=> \E s \in of : v = s.value
        BY <1>3, <2>2
    <2> QED
        BY <2>1, <2>3
<1> QED
    BY <1>1, <1>4, OfOne

\* In any state of the invariant, a scrape has these series and no others of
\* their names; of an endpoint that was not read the fields are empty.
LEMMA ScrapedByName ==
    ASSUME IInv, NEW x
    PROVE  LET Has(name) == x \in Scraped /\ x.name = name
               m == entry.measurement
               b == entry.batteries
           IN
           /\ \A name \in MeasurementNames :
                Has(name) <=> x \in collectMeasurement(m) /\ x.name = name
           /\ \A name \in SystemNames :
                Has(name) <=> x \in collectSystem(entry.system) /\ x.name = name
           /\ \A name \in StateNames :
                Has(name) <=> x \in collectState(entry.state) /\ x.name = name
           /\ \A name \in BatteriesNames :
                Has(name) <=> x \in collectBatteries(b) /\ x.name = name
<1>1. "measurement" \notin entry.read => x \notin collectMeasurement(entry.measurement)
    <2> SUFFICES ASSUME "measurement" \notin entry.read
                 PROVE  x \notin collectMeasurement(entry.measurement)
        OBVIOUS
    <2> DEFINE m == entry.measurement
    <2>1. m = NoMeasurement
        BY DEF IInv, MeasurementFits
    <2> HIDE DEF m
    <2>2. /\ m.PowerW = nil /\ m.ActiveWaterLPM = nil /\ m.StateOfChargePct = nil
          /\ m.Timestamp = nil /\ m.MonthlyPowerPeakAt = nil
        <3>1. /\ NoMeasurement.PowerW = nil /\ NoMeasurement.ActiveWaterLPM = nil
              /\ NoMeasurement.StateOfChargePct = nil
            BY DEF NoMeasurement
        <3>2. NoMeasurement.Timestamp = Zero /\ NoMeasurement.MonthlyPowerPeakAt = Zero
            BY DEF NoMeasurement
        <3>3. Zero = nil
            BY DEF Zero, nil
        <3> QED
            BY <2>1, <3>1, <3>2, <3>3
    <2>3. m.External = <<>>
        <3>1. NoMeasurement.External = <<>>
            BY DEF NoMeasurement
        <3> QED
            BY <2>1, <3>1
    <2>4. m.PowerPhaseW = <<nil, nil, nil>>
        <3>1. NoMeasurement.PowerPhaseW = <<nil, nil, nil>>
            BY DEF NoMeasurement
        <3> QED
            BY <2>1, <3>1
    <2>5. \A n \in Phase : m.PowerPhaseW[n] = nil
        <3>1. \A n \in Phase : n \in {1, 2, 3}
            BY DEF Phase, phaseCount
        <3> QED
            BY <2>4, <3>1
    <2>6. DOMAIN m.External = {}
        BY <2>3
    <2>7. ratio(m.StateOfChargePct) = nil
        BY <2>2 DEF ratio
    <2>8. \A i : ~IsPhase(x, m, i) /\ ~IsValue(x, m, i) /\ ~IsTime(x, m, i)
        BY <2>5, <2>6 DEF IsPhase, IsValue, IsTime
    <2> QED
        BY <2>2, <2>7, <2>8, InMeasurement DEF m
<1>2. "system" \notin entry.read => x \notin collectSystem(entry.system)
    <2>1. "system" \notin entry.read => entry.system = Blank.system
        BY DEF IInv, SecondariesFit, Secondary
    <2>2. Blank.system.UptimeS = nil /\ Blank.system.CloudEnabled = nil
        BY DEF Blank
    <2> QED
        BY <2>1, <2>2, InSystem
<1>3. "state" \notin entry.read => x \notin collectState(entry.state)
    <2>1. "state" \notin entry.read => entry.state = Blank.state
        BY DEF IInv, SecondariesFit, Secondary
    <2>2. Blank.state.PowerOn = nil
        BY DEF Blank
    <2> QED
        BY <2>1, <2>2, InState
<1>4. "batteries" \notin entry.read => x \notin collectBatteries(entry.batteries)
    <2>1. "batteries" \notin entry.read => entry.batteries = Blank.batteries
        BY DEF IInv, SecondariesFit, Secondary
    <2>2. Blank.batteries.PowerW = nil /\ Blank.batteries.Permissions = <<>>
        BY DEF Blank
    <2>3. Blank.batteries.Mode = ""
        BY DEF Blank
    <2>4. DOMAIN Blank.batteries.Permissions = {}
        BY <2>2
    <2>5. \A i : ~IsPermission(x, Blank.batteries, i)
        BY <2>4 DEF IsPermission
    <2> QED
        BY <2>1, <2>2, <2>3, <2>5, InBatteries
<1> QED
    BY <1>1, <1>2, <1>3, <1>4, InScraped, ScrapedOfEndpoint

\* What Prometheus keeps of a series.
Shown(s) == [name |-> s.name, labels |-> s.labels, value |-> s.value]

LEMMA SeriesOf ==
    ASSUME NEW names, NEW y
    PROVE  y \in Series(names) <=> \E x \in Scraped : x.name \in names /\ y = Shown(x)
BY DEF Series, Shown

LEMMA ShownOfOne ==
    ASSUME NEW name, NEW nth, NEW value, NEW labels
    PROVE  Shown(One(name, nth, value, labels))
            = [name |-> name, labels |-> labels, value |-> value]
BY OfOne DEF Shown

-----------------------------------------------------------------------------
(* The properties.                                                          *)

LEMMA SecondariesShown == IInv => SecondariesAreOneAnswer
<1> SUFFICES ASSUME IInv PROVE SecondariesAreOneAnswer
    OBVIOUS
<1> DEFINE b == told["batteries"]
<1>1. /\ entry.system = told["system"] /\ entry.state = told["state"]
      /\ entry.batteries = b
    BY DEF IInv, SecondariesFit, Secondary
<1> HIDE DEF b
<1>2. Values("uptime_seconds") = {told["system"].UptimeS} \ {nil}
    <2>1. "uptime_seconds" \in SystemNames
        BY DEF SystemNames
    <2> QED
        BY <1>1, <2>1, ScrapedByName, NamedInSystem, ValuesOfOne
<1>3. Values("cloud_enabled") = {told["system"].CloudEnabled} \ {nil}
    <2>1. "cloud_enabled" \in SystemNames
        BY DEF SystemNames
    <2> QED
        BY <1>1, <2>1, ScrapedByName, NamedInSystem, ValuesOfOne
<1>4. Values("socket_power_on") = {told["state"].PowerOn} \ {nil}
    <2>1. "socket_power_on" \in StateNames
        BY DEF StateNames
    <2> QED
        <3>1. \A x : x \in Scraped /\ x.name = "socket_power_on"
                        <=> x \in collectState(entry.state) /\ x.name = "socket_power_on"
            BY <2>1, ScrapedByName
        <3>2. \A x : x \in Scraped /\ x.name = "socket_power_on" <=>
                    /\ entry.state.PowerOn # nil
                    /\ x = One("socket_power_on", 1, entry.state.PowerOn, <<>>)
            BY <3>1, NamedInState
        <3> DEFINE on == entry.state.PowerOn
        <3>3. on = told["state"].PowerOn
            BY <1>1
        <3> HIDE DEF on
        <3>4. Values("socket_power_on") = {on} \ {nil}
            BY <3>2, ValuesOfOne DEF on
        <3> QED
            BY <3>3, <3>4
<1>5. Values("batteries_power_watts") = {b.PowerW} \ {nil}
    <2>1. "batteries_power_watts" \in BatteriesNames
        BY DEF BatteriesNames
    <2> QED
        <3>1. \A x : x \in Scraped /\ x.name = "batteries_power_watts" <=>
                    b.PowerW # nil /\ x = One("batteries_power_watts", 1, b.PowerW, <<>>)
            BY <1>1, <2>1, ScrapedByName, NamedInBatteries
        <3> QED
            BY <3>1, ValuesOfOne
<1>6. {s.labels[1] : s \in Series({"batteries_permission"})}
        = {b.Permissions[i] : i \in DOMAIN b.Permissions}
    <2>1. \A x : x \in Scraped /\ x.name = "batteries_permission"
                    <=> \E i : IsPermission(x, b, i)
        <3>1. "batteries_permission" \in BatteriesNames
            BY DEF BatteriesNames
        <3> QED
            BY <1>1, <3>1, ScrapedByName, NamedInBatteries
    <2>2. ASSUME NEW y \in Series({"batteries_permission"})
          PROVE  \E i \in DOMAIN b.Permissions : y.labels[1] = b.Permissions[i]
        <3>1. PICK x : x \in Scraped /\ x.name = "batteries_permission" /\ y = Shown(x)
            BY SeriesOf
        <3>2. PICK i : IsPermission(x, b, i)
            BY <2>1, <3>1
        <3>3. x.labels = <<b.Permissions[i]>> /\ i \in DOMAIN b.Permissions
            BY <3>2, OfOne DEF IsPermission
        <3>4. y.labels = x.labels
            BY <3>1 DEF Shown
        <3> QED
            BY <3>3, <3>4
    <2>3. ASSUME NEW i \in DOMAIN b.Permissions
          PROVE  \E y \in Series({"batteries_permission"}) : y.labels[1] = b.Permissions[i]
        <3> DEFINE x == One("batteries_permission", i, <<1>>, <<b.Permissions[i]>>)
                   y == Shown(x)
        <3>1. IsPermission(x, b, i)
            BY DEF IsPermission
        <3>2. x.labels = <<b.Permissions[i]>>
            BY OfOne
        <3> HIDE DEF x
        <3>3. y \in Series({"batteries_permission"})
            BY <2>1, <3>1, SeriesOf
        <3>4. y.labels = x.labels
            BY DEF Shown
        <3> HIDE DEF y
        <3> QED
            BY <3>2, <3>3, <3>4
    <2> QED
        BY <2>2, <2>3
<1> QED
    BY <1>2, <1>3, <1>4, <1>5, <1>6 DEF SecondariesAreOneAnswer, b

\* The measurement in the snapshot, as the scrape needs to know it.
LEMMA MeasurementIsSound ==
    ASSUME IInv
    PROVE  /\ seen = nil => entry.measurement = NoMeasurement
           /\ seen # nil => /\ seen[1] \in Houses[product] /\ product \in Product
                            /\ IsMeasurementOf(entry.measurement, seen[1])
<1>1. product \in Product /\ seen \in Optional(Houses[product])
    BY DEF IInv, ScrapeTypeOK
<1>2. seen = nil => entry.measurement = NoMeasurement
    BY DEF IInv, MeasurementFits
<1>3. ASSUME seen # nil
      PROVE  seen[1] \in Houses[product] /\ IsMeasurementOf(entry.measurement, seen[1])
    <2>1. PICK h \in Houses[product] : seen = <<h>>
        BY <1>1, <1>3 DEF Optional, ptr
    <2>2. seen[1] = h
        BY <2>1
    <2>3. PICK v \in Served(product, h) : entry.measurement = Measured(v, h).m
        BY <1>3, <2>2 DEF IInv, MeasurementFits
    <2>4. Readable(h)
        BY <1>3, <2>2 DEF IInv, MeasurementFits
    <2>5. IsMeasurementOf(Measured(v, h).m, h)
        BY <1>1, <2>4, Decoding
    <2> QED
        BY <2>2, <2>3, <2>5
<1> QED
    BY <1>1, <1>2, <1>3

\* What tells the series of one place apart.
Label(x) == x.labels[1]

LEMMA LabelOfOne ==
    ASSUME NEW name, NEW nth, NEW value, NEW a,
           NEW x, x = One(name, nth, value, <<a>>)
    PROVE  Label(x) = a
<1>1. <<a>>[1] = a
    OBVIOUS
<1> QED
    BY <1>1, OfOne DEF Label

LEMMA LabelOfTwo ==
    ASSUME NEW name, NEW nth, NEW value, NEW a, NEW b,
           NEW x, x = One(name, nth, value, <<a, b>>)
    PROVE  Label(x) = a
<1>1. <<a, b>>[1] = a
    OBVIOUS
<1> QED
    BY <1>1, OfOne DEF Label

LEMMA LabelOfThree ==
    ASSUME NEW name, NEW nth, NEW value, NEW a, NEW b, NEW c,
           NEW x, x = One(name, nth, value, <<a, b, c>>)
    PROVE  Label(x) = a
<1>1. <<a, b, c>>[1] = a
    OBVIOUS
<1> QED
    BY <1>1, OfOne DEF Label

LEMMA LabelsOfMany ==
    ASSUME NEW x, NEW s, NEW i
    PROVE  /\ IsPhase(x, s, i) => Label(x) = phaseNames[i] /\ i \in Phase
           /\ IsValue(x, s, i) => Label(x) = s.External[i].UniqueID /\ i \in DOMAIN s.External
           /\ IsTime(x, s, i) => Label(x) = s.External[i].UniqueID /\ i \in DOMAIN s.External
           /\ IsPermission(x, s, i) =>
                Label(x) = s.Permissions[i] /\ i \in DOMAIN s.Permissions
<1>1. ASSUME IsPhase(x, s, i) PROVE Label(x) = phaseNames[i] /\ i \in Phase
    <2>1. x = One(PhaseName, i, s.PowerPhaseW[i], <<phaseNames[i]>>) /\ i \in Phase
        BY <1>1 DEF IsPhase
    <2> QED
        BY <2>1, LabelOfOne
<1>2. ASSUME IsValue(x, s, i)
      PROVE  Label(x) = s.External[i].UniqueID /\ i \in DOMAIN s.External
    <2> DEFINE e == s.External[i]
    <2>1. x = One(ValueName, i, e.Value, <<e.UniqueID, e.Type, e.Unit>>)
          /\ i \in DOMAIN s.External
        BY <1>2 DEF IsValue
    <2> QED
        BY <2>1, LabelOfThree
<1>3. ASSUME IsTime(x, s, i)
      PROVE  Label(x) = s.External[i].UniqueID /\ i \in DOMAIN s.External
    <2> DEFINE e == s.External[i]
    <2>1. x = One(TimeName, i, e.Timestamp, <<e.UniqueID, e.Type>>)
          /\ i \in DOMAIN s.External
        BY <1>3 DEF IsTime
    <2> QED
        BY <2>1, LabelOfTwo
<1>4. ASSUME IsPermission(x, s, i)
      PROVE  Label(x) = s.Permissions[i] /\ i \in DOMAIN s.Permissions
    <2>1. x = One("batteries_permission", i, <<1>>, <<s.Permissions[i]>>)
          /\ i \in DOMAIN s.Permissions
        BY <1>4 DEF IsPermission
    <2> QED
        BY <2>1, LabelOfOne
<1> QED
    BY <1>1, <1>2, <1>3, <1>4

\* No place in the code emits a series twice.
LEMMA ManyAreDistinct ==
    ASSUME IInv, NEW r, NEW s, r.labels = s.labels, NEW i, NEW j
    PROVE  LET m == entry.measurement IN
           /\ IsPhase(r, m, i) /\ IsPhase(s, m, j) => r = s
           /\ IsValue(r, m, i) /\ IsValue(s, m, j) => r = s
           /\ IsTime(r, m, i) /\ IsTime(s, m, j) => r = s
           /\ IsPermission(r, entry.batteries, i) /\ IsPermission(s, entry.batteries, j)
                => r = s
<1> DEFINE m == entry.measurement
           e == m.External
           b == entry.batteries
<1>0. Label(r) = Label(s)
    BY DEF Label
<1>1. IsPhase(r, m, i) /\ IsPhase(s, m, j) => i = j
    <2> SUFFICES ASSUME IsPhase(r, m, i), IsPhase(s, m, j) PROVE i = j
        OBVIOUS
    <2>2. i \in {1, 2, 3} /\ j \in {1, 2, 3}
        BY DEF IsPhase, Phase, phaseCount
    <2>3. phaseNames[1] = "l1" /\ phaseNames[2] = "l2" /\ phaseNames[3] = "l3"
        BY DEF phaseNames
    <2>4. phaseNames[i] = phaseNames[j]
        BY <1>0, LabelsOfMany
    <2> QED
        BY <2>2, <2>3, <2>4
<1>2. \A k, l \in DOMAIN e : e[k].UniqueID = e[l].UniqueID => k = l
    <2>1. CASE seen = nil
        <3>1. m.External = <<>>
            <4>1. NoMeasurement.External = <<>>
                BY DEF NoMeasurement
            <4> QED
                BY <2>1, <4>1, MeasurementIsSound
        <3>2. DOMAIN e = {}
            BY <3>1
        <3> QED
            BY <3>2
    <2>2. CASE seen # nil
        BY <2>2, MeasurementIsSound DEF IsMeasurementOf, ShowReadings
    <2> QED
        BY <2>1, <2>2
<1>3. IsValue(r, m, i) /\ IsValue(s, m, j) => i = j
    BY <1>0, <1>2, LabelsOfMany
<1>4. IsTime(r, m, i) /\ IsTime(s, m, j) => i = j
    BY <1>0, <1>2, LabelsOfMany
<1>5. \A k, l \in DOMAIN b.Permissions : b.Permissions[k] = b.Permissions[l] => k = l
    <2>1. /\ b = told["batteries"]
          /\ told["batteries"] \in {Blank["batteries"]}
                    \cup UNION {Answers(v, "batteries") : v \in Version}
        BY DEF IInv, ScrapeTypeOK, SecondariesFit, Secondary
    <2>2. \A v : Answers(v, "batteries") = Batteries
        BY DEF Answers
    <2>3. DOMAIN Blank.batteries.Permissions = {}
        <3>1. Blank.batteries.Permissions = <<>>
            BY DEF Blank
        <3> QED
            BY <3>1
    <2> HIDE DEF b
    <2>4. b = Blank.batteries \/ b \in Batteries
        BY <2>1, <2>2
    <2> QED
        BY <2>3, <2>4, AnswerAssumption DEF AnswerAssumption
<1>6. IsPermission(r, b, i) /\ IsPermission(s, b, j) => i = j
    BY <1>0, <1>5, LabelsOfMany
<1> HIDE DEF m, e, b
<1>7. /\ IsPhase(r, m, i) /\ IsPhase(s, m, j) => r = s
      /\ IsValue(r, m, i) /\ IsValue(s, m, j) => r = s
      /\ IsTime(r, m, i) /\ IsTime(s, m, j) => r = s
      /\ IsPermission(r, b, i) /\ IsPermission(s, b, j) => r = s
    BY <1>1, <1>3, <1>4, <1>6 DEF IsPhase, IsValue, IsTime, IsPermission
<1> QED
    BY <1>7 DEF m, b

LEMMA SeriesAreDistinct == IInv => NoDuplicateSeries
<1> SUFFICES ASSUME IInv, NEW r \in Scraped, NEW s \in Scraped,
                    r.name = s.name, r.labels = s.labels
             PROVE  r = s
    BY DEF NoDuplicateSeries
<1> DEFINE m == entry.measurement
           b == entry.batteries
<1>1. CASE r.name \in MeasurementNames
    <2>1. r \in collectMeasurement(m) /\ s \in collectMeasurement(m)
        BY <1>1, ScrapedOfEndpoint
    <2>2. \A i, j :
            /\ IsPhase(r, m, i) /\ IsPhase(s, m, j) => r = s
            /\ IsValue(r, m, i) /\ IsValue(s, m, j) => r = s
            /\ IsTime(r, m, i) /\ IsTime(s, m, j) => r = s
        BY ManyAreDistinct
    <2> HIDE DEF m
    <2>3. CASE r.name = "active_power_watts"
        <3> DEFINE one == One("active_power_watts", 1, m.PowerW, <<>>)
        <3>1. r = one /\ s = one
            BY <2>1, <2>3, NamedInMeasurement
        <3> HIDE DEF one
        <3> QED
            BY <3>1
    <2>4. CASE r.name = "active_water_liters_per_minute"
        <3> DEFINE one == One("active_water_liters_per_minute", 1, m.ActiveWaterLPM, <<>>)
        <3>1. r = one /\ s = one
            BY <2>1, <2>4, NamedInMeasurement
        <3> HIDE DEF one
        <3> QED
            BY <3>1
    <2>5. CASE r.name = "battery_state_of_charge_ratio"
        <3> DEFINE one == One("battery_state_of_charge_ratio", 1, ratio(m.StateOfChargePct), <<>>)
        <3>1. r = one /\ s = one
            BY <2>1, <2>5, NamedInMeasurement
        <3> HIDE DEF one
        <3> QED
            BY <3>1
    <2>6. CASE r.name = "measurement_timestamp_seconds"
        <3> DEFINE one == One("measurement_timestamp_seconds", 1, m.Timestamp, <<>>)
        <3>1. r = one /\ s = one
            BY <2>1, <2>6, NamedInMeasurement
        <3> HIDE DEF one
        <3> QED
            BY <3>1
    <2>7. CASE r.name = "monthly_power_peak_timestamp_seconds"
        <3> DEFINE one == One("monthly_power_peak_timestamp_seconds", 1, m.MonthlyPowerPeakAt, <<>>)
        <3>1. r = one /\ s = one
            BY <2>1, <2>7, NamedInMeasurement
        <3> HIDE DEF one
        <3> QED
            BY <3>1
    <2>8. CASE r.name = PhaseName
        <3>1. (\E i : IsPhase(r, m, i)) /\ (\E j : IsPhase(s, m, j))
            BY <2>1, <2>8, NamedInMeasurement
        <3> QED
            BY <2>2, <3>1
    <2>9. CASE r.name = ValueName
        <3>1. (\E i : IsValue(r, m, i)) /\ (\E j : IsValue(s, m, j))
            BY <2>1, <2>9, NamedInMeasurement
        <3> QED
            BY <2>2, <3>1
    <2>10. CASE r.name = TimeName
        <3>1. (\E i : IsTime(r, m, i)) /\ (\E j : IsTime(s, m, j))
            BY <2>1, <2>10, NamedInMeasurement
        <3> QED
            BY <2>2, <3>1
    <2> QED
        BY <1>1, <2>3, <2>4, <2>5, <2>6, <2>7, <2>8, <2>9, <2>10 DEF MeasurementNames
<1>2. CASE r.name \in SystemNames
    <2>1. r \in collectSystem(entry.system) /\ s \in collectSystem(entry.system)
        BY <1>2, ScrapedOfEndpoint
    <2> QED
        BY <1>2, <2>1, NamedInSystem DEF SystemNames
<1>3. CASE r.name \in StateNames
    <2>1. r \in collectState(entry.state) /\ s \in collectState(entry.state)
        BY <1>3, ScrapedOfEndpoint
    <2>2. r.name = "socket_power_on" /\ s.name = "socket_power_on"
        BY <1>3 DEF StateNames
    <2> QED
        BY <2>1, <2>2, NamedInState
<1>4. CASE r.name \in BatteriesNames
    <2>1. r \in collectBatteries(b) /\ s \in collectBatteries(b)
        BY <1>4, ScrapedOfEndpoint
    <2>2. \A i, j : IsPermission(r, b, i) /\ IsPermission(s, b, j) => r = s
        BY ManyAreDistinct
    <2> DEFINE power == One("batteries_power_watts", 1, b.PowerW, <<>>)
    <2>3. CASE r.name = "batteries_power_watts"
        <3>1. r = power /\ s = power
            BY <2>1, <2>3, NamedInBatteries
        <3> QED
            BY <3>1
    <2>4. CASE r.name = "batteries_mode_info"
        <3> DEFINE mode == One("batteries_mode_info", 1, <<1>>, <<b.Mode>>)
        <3>1. r = mode /\ s = mode
            BY <2>1, <2>4, NamedInBatteries
        <3> QED
            BY <3>1
    <2>5. CASE r.name = "batteries_permission"
        BY <2>1, <2>2, <2>5, NamedInBatteries
    <2> QED
        BY <1>4, <2>3, <2>4, <2>5 DEF BatteriesNames
<1>5. CASE r.name \in {"device_info", "wifi_info"}
    <2> DEFINE device == One("device_info", 1, <<1>>, <<product, entry.APIVersion>>)
               wifi   == One("wifi_info", 1, <<1>>, <<wifiSSID(entry)>>)
    <2>1. /\ r.name = "device_info" => r = device /\ s = device
          /\ r.name = "wifi_info" => r = wifi /\ s = wifi
        BY ScrapedOfEndpoint
    <2> HIDE DEF device, wifi
    <2> QED
        BY <1>5, <2>1
<1>6. r.name \in MeasurementNames \cup SystemNames \cup StateNames \cup BatteriesNames
                \cup {"device_info", "wifi_info"}
    <2> DEFINE device == One("device_info", 1, <<1>>, <<product, entry.APIVersion>>)
               wifi   == One("wifi_info", 1, <<1>>, <<wifiSSID(entry)>>)
    <2>1. device.name = "device_info" /\ wifi.name = "wifi_info"
        BY OfOne
    <2>2. \/ r = device \/ r = wifi
          \/ r \in collectMeasurement(m) \/ r \in collectSystem(entry.system)
          \/ r \in collectState(entry.state) \/ r \in collectBatteries(b)
        BY InScraped
    <2> HIDE DEF device, wifi
    <2> QED
        BY <2>1, <2>2, NamesTellEndpoints
<1> QED
    BY <1>1, <1>2, <1>3, <1>4, <1>5, <1>6

Bare(name, labels, value) == [name |-> name, labels |-> labels, value |-> value]

LEMMA ShownIsBare ==
    ASSUME NEW name, NEW nth, NEW value, NEW labels
    PROVE  Shown(One(name, nth, value, labels)) = Bare(name, labels, value)
BY ShownOfOne DEF Bare

\* The series of the phases and the meters, as Prometheus has them.
LEMMA PhasesShown ==
    ASSUME IInv, NEW y
    PROVE  y \in Series({PhaseName}) <=>
            \E n \in Phase :
                /\ entry.measurement.PowerPhaseW[n] # nil
                /\ y = Bare(PhaseName, <<phaseNames[n]>>, entry.measurement.PowerPhaseW[n])
<1> DEFINE m == entry.measurement
<1>1. \A x : x \in Scraped /\ x.name = PhaseName <=> \E n : IsPhase(x, m, n)
    BY ScrapedByName, NamedInMeasurement DEF MeasurementNames
<1>2. y \in Series({PhaseName}) <=> \E n, x : IsPhase(x, m, n) /\ y = Shown(x)
    <2> HIDE DEF m
    <2> QED
        BY <1>1, SeriesOf
<1> HIDE DEF m
<1>3. ASSUME NEW n
      PROVE  (\E x : IsPhase(x, m, n) /\ y = Shown(x)) <=>
                /\ n \in Phase /\ m.PowerPhaseW[n] # nil
                /\ y = Bare(PhaseName, <<phaseNames[n]>>, m.PowerPhaseW[n])
    <2> DEFINE one == One(PhaseName, n, m.PowerPhaseW[n], <<phaseNames[n]>>)
    <2>1. Shown(one) = Bare(PhaseName, <<phaseNames[n]>>, m.PowerPhaseW[n])
        BY ShownIsBare
    <2>2. \A x : IsPhase(x, m, n) <=> n \in Phase /\ m.PowerPhaseW[n] # nil /\ x = one
        BY DEF IsPhase
    <2> HIDE DEF one
    <2> QED
        BY <2>1, <2>2
<1> QED
    BY <1>2, <1>3 DEF m

LEMMA ValuesShown ==
    ASSUME IInv, NEW y
    PROVE  y \in Series({ValueName}) <=>
            \E i \in DOMAIN entry.measurement.External :
                LET e == entry.measurement.External[i] IN
                y = Bare(ValueName, <<e.UniqueID, e.Type, e.Unit>>, e.Value)
<1> DEFINE m == entry.measurement
<1>1. \A x : x \in Scraped /\ x.name = ValueName <=> \E n : IsValue(x, m, n)
    BY ScrapedByName, NamedInMeasurement DEF MeasurementNames
<1>2. y \in Series({ValueName}) <=> \E n, x : IsValue(x, m, n) /\ y = Shown(x)
    <2> HIDE DEF m
    <2> QED
        BY <1>1, SeriesOf
<1> HIDE DEF m
<1>3. ASSUME NEW i
      PROVE  LET e == m.External[i] IN
             (\E x : IsValue(x, m, i) /\ y = Shown(x)) <=>
                /\ i \in DOMAIN m.External
                /\ y = Bare(ValueName, <<e.UniqueID, e.Type, e.Unit>>, e.Value)
    <2> DEFINE e == m.External[i]
               one == One(ValueName, i, e.Value, <<e.UniqueID, e.Type, e.Unit>>)
    <2>1. Shown(one) = Bare(ValueName, <<e.UniqueID, e.Type, e.Unit>>, e.Value)
        BY ShownIsBare
    <2>2. \A x : IsValue(x, m, i) <=> i \in DOMAIN m.External /\ x = one
        BY DEF IsValue
    <2> HIDE DEF one
    <2> QED
        BY <2>1, <2>2
<1> QED
    BY <1>2, <1>3 DEF m

LEMMA TimesShown ==
    ASSUME IInv, NEW y
    PROVE  y \in Series({TimeName}) <=>
            \E i \in DOMAIN entry.measurement.External :
                LET e == entry.measurement.External[i] IN
                /\ e.Timestamp # nil
                /\ y = Bare(TimeName, <<e.UniqueID, e.Type>>, e.Timestamp)
<1> DEFINE m == entry.measurement
<1>1. \A x : x \in Scraped /\ x.name = TimeName <=> \E n : IsTime(x, m, n)
    BY ScrapedByName, NamedInMeasurement DEF MeasurementNames
<1>2. y \in Series({TimeName}) <=> \E n, x : IsTime(x, m, n) /\ y = Shown(x)
    <2> HIDE DEF m
    <2> QED
        BY <1>1, SeriesOf
<1> HIDE DEF m
<1>3. ASSUME NEW i
      PROVE  LET e == m.External[i] IN
             (\E x : IsTime(x, m, i) /\ y = Shown(x)) <=>
                /\ i \in DOMAIN m.External /\ e.Timestamp # nil
                /\ y = Bare(TimeName, <<e.UniqueID, e.Type>>, e.Timestamp)
    <2> DEFINE e == m.External[i]
               one == One(TimeName, i, e.Timestamp, <<e.UniqueID, e.Type>>)
    <2>1. Shown(one) = Bare(TimeName, <<e.UniqueID, e.Type>>, e.Timestamp)
        BY ShownIsBare
    <2>2. \A x : IsTime(x, m, i) <=>
                    i \in DOMAIN m.External /\ e.Timestamp # nil /\ x = one
        BY DEF IsTime
    <2> HIDE DEF one
    <2> QED
        BY <2>1, <2>2
<1> QED
    BY <1>2, <1>3 DEF m

LEMMA LastReadingShown == IInv => ShowsLastReading
<1> SUFFICES ASSUME IInv PROVE ShowsLastReading
    OBVIOUS
<1> DEFINE m == entry.measurement
           names == {PhaseName, ValueName, TimeName}
<1>1. ASSUME NEW y
      PROVE  y \in Series(names) <=>
                y \in Series({PhaseName}) \/ y \in Series({ValueName}) \/ y \in Series({TimeName})
    BY SeriesOf
<1>2. ASSUME seen = nil PROVE Series(names) = {}
    <2>1. m = NoMeasurement
        BY <1>2, MeasurementIsSound
    <2>2. NoMeasurement.External = <<>>
        BY DEF NoMeasurement
    <2>3. NoMeasurement.PowerPhaseW = <<nil, nil, nil>>
        BY DEF NoMeasurement
    <2>4. DOMAIN NoMeasurement.External = {}
        BY <2>2
    <2>5. \A n \in Phase : NoMeasurement.PowerPhaseW[n] = nil
        <3>1. \A n \in Phase : n \in {1, 2, 3}
            BY DEF Phase, phaseCount
        <3> QED
            BY <2>3, <3>1
    <2>6. \A y : y \notin Series({PhaseName})
        BY <2>1, <2>5, PhasesShown
    <2>7. \A y : y \notin Series({ValueName}) /\ y \notin Series({TimeName})
        BY <2>1, <2>4, ValuesShown, TimesShown
    <2> HIDE DEF names
    <2> QED
        BY <1>1, <2>6, <2>7
<1>3. ASSUME seen # nil
      PROVE  Series(names) = MeterSeries(seen[1]) \cup PhaseSeries(seen[1])
    <2> DEFINE h == seen[1]
               e == m.External
    <2>1. /\ \A n \in Phase : m.PowerPhaseW[n] = h.phases[n]
          /\ ShowReadings(e, h)
        BY <1>3, MeasurementIsSound DEF IsMeasurementOf
    <2>2. \A u : /\ MeterOf(h, u).UniqueID = u /\ MeterOf(h, u).Type = MeterType[u]
                 /\ MeterOf(h, u).Unit = MeterUnit[u] /\ MeterOf(h, u).Value = h.value[u]
                 /\ MeterOf(h, u).Timestamp = h.time[u]
        BY DEF MeterOf
    <2>3. /\ \A i \in DOMAIN e : \E u \in Readings(h) : e[i] = MeterOf(h, u)
          /\ \A u \in Readings(h) : \E i \in DOMAIN e : e[i] = MeterOf(h, u)
        BY <2>1 DEF ShowReadings
    <2> HIDE DEF h, e
    <2>4. ASSUME NEW y
          PROVE  y \in Series({PhaseName}) <=> y \in PhaseSeries(h)
        <3>1. y \in PhaseSeries(h) <=>
                \E n \in Phase : h.phases[n] # nil
                                 /\ y = Bare(PhaseName, <<phaseNames[n]>>, h.phases[n])
            BY DEF PhaseSeries, Bare, PhaseName
        <3> QED
            BY <2>1, <3>1, PhasesShown
    <2>5. ASSUME NEW y
          PROVE  y \in Series({ValueName}) \/ y \in Series({TimeName})
                    <=> y \in MeterSeries(h)
        <3> DEFINE V(x) == y = Bare(ValueName, <<x.UniqueID, x.Type, x.Unit>>, x.Value)
                   T(x) == x.Timestamp # nil
                           /\ y = Bare(TimeName, <<x.UniqueID, x.Type>>, x.Timestamp)
        <3>1. y \in MeterSeries(h) <=>
                \/ \E u \in Readings(h) :
                        y = Bare(ValueName, <<u, MeterType[u], MeterUnit[u]>>, h.value[u])
                \/ \E u \in Readings(h) : h.time[u] # Zero
                        /\ y = Bare(TimeName, <<u, MeterType[u]>>, h.time[u])
            BY DEF MeterSeries, Bare, ValueName, TimeName
        <3>2. ASSUME NEW u
              PROVE  V(MeterOf(h, u)) <=>
                        y = Bare(ValueName, <<u, MeterType[u], MeterUnit[u]>>, h.value[u])
            BY <2>2
        <3>3. ASSUME NEW u
              PROVE  T(MeterOf(h, u)) <=>
                        h.time[u] # Zero
                        /\ y = Bare(TimeName, <<u, MeterType[u]>>, h.time[u])
            BY <2>2 DEF Zero, nil
        <3>4. (y \in Series({ValueName}) <=> \E i \in DOMAIN e : V(e[i]))
              /\ (y \in Series({TimeName}) <=> \E i \in DOMAIN e : T(e[i]))
            BY ValuesShown, TimesShown DEF e
        <3> HIDE DEF V, T
        <3>5. (\E i \in DOMAIN e : V(e[i])) <=> \E u \in Readings(h) : V(MeterOf(h, u))
            BY <2>3
        <3>6. (\E i \in DOMAIN e : T(e[i])) <=> \E u \in Readings(h) : T(MeterOf(h, u))
            BY <2>3
        <3>7. y \in MeterSeries(h) <=> \/ \E u \in Readings(h) : V(MeterOf(h, u))
                                      \/ \E u \in Readings(h) : T(MeterOf(h, u))
            BY <3>1, <3>2, <3>3
        <3> QED
            BY <3>4, <3>5, <3>6, <3>7
    <2>6. \A y : y \in Series(names) <=> y \in MeterSeries(h) \cup PhaseSeries(h)
        <3> HIDE DEF names
        <3> QED
            BY <1>1, <2>4, <2>5
    <2> HIDE DEF names
    <2> QED
        BY <2>6 DEF h
<1>4. names = {"active_power_phase_watts", "external_meter_value",
               "external_meter_timestamp_seconds"}
    BY DEF PhaseName, ValueName, TimeName
<1> HIDE DEF names
<1> QED
    BY <1>2, <1>3, <1>4 DEF ShowsLastReading

\* A name of the dashboard stands for one phase.
LEMMA ViewNamesTellPhases ==
    ASSUME NEW n \in Phase
    PROVE  (CHOOSE k \in Phase : viewNames[k] = viewNames[n]) = n
<1>1. /\ viewNames[1] = "L1" /\ viewNames[2] = "L2" /\ viewNames[3] = "L3"
      /\ \A k \in Phase : k \in {1, 2, 3}
    BY DEF viewNames, Phase, phaseCount
<1>2. \A k, l \in Phase : viewNames[k] = viewNames[l] => k = l
    BY <1>1
<1> QED
    BY <1>2

\* Both the dashboard and the collector show no network exactly if neither answer
\* names one, although they prefer different answers.
LEMMA NetworkAgrees ==
    ASSUME IInv
    PROVE  wifiSSID(entry) = "" <=> describe(entry).WifiSSID = ""
<1> DEFINE s == entry.system.WifiSSID
           w == entry.measurement.WifiSSID
<1>1. "measurement" \notin entry.read => w = ""
    <2>1. "measurement" \notin entry.read => entry.measurement = NoMeasurement
        BY DEF IInv, MeasurementFits
    <2>2. NoMeasurement.WifiSSID = ""
        BY DEF NoMeasurement
    <2> QED
        BY <2>1, <2>2
<1>2. "system" \notin entry.read => s = nil
    <2>1. "system" \notin entry.read => entry.system = Blank.system
        BY DEF IInv, SecondariesFit, Secondary
    <2>2. Blank.system.WifiSSID = nil
        BY DEF Blank
    <2> QED
        BY <2>1, <2>2
<1>3. s = nil \/ \E x : s = <<x>>
    <2>1. /\ entry.system = told["system"]
          /\ told["system"] \in {Blank["system"]}
                    \cup UNION {Answers(v, "system") : v \in Version}
        BY DEF IInv, ScrapeTypeOK, SecondariesFit, Secondary
    <2>2. \A v : Answers(v, "system") = Systems[v]
        BY DEF Answers
    <2>3. entry.system = Blank.system \/ \E v \in Version : entry.system \in Systems[v]
        BY <2>1, <2>2
    <2>4. Blank.system.WifiSSID = nil
        BY DEF Blank
    <2>5. \A v \in Version : \A a \in Systems[v] : a.WifiSSID \in Optional(Network)
        BY AnswerAssumption DEF AnswerAssumption
    <2>6. s = nil \/ s \in Optional(Network)
        BY <2>3, <2>4, <2>5
    <2> HIDE DEF s
    <2> QED
        BY <2>6 DEF Optional, ptr
<1>4. describe(entry).WifiSSID = IF s # nil /\ w = "" THEN s[1] ELSE w
    BY DEF describe
<1>5. wifiSSID(entry) = IF "system" \in entry.read /\ s \notin {nil, ptr("")} THEN s[1]
                        ELSE IF "measurement" \in entry.read THEN w ELSE ""
    BY DEF wifiSSID
<1> HIDE DEF s, w
<1>6. CASE s = nil
    BY <1>1, <1>4, <1>5, <1>6
<1>7. ASSUME NEW x, s = <<x>> PROVE wifiSSID(entry) = "" <=> describe(entry).WifiSSID = ""
    <2>1. s[1] = x /\ s # nil /\ (s = ptr("") <=> x = "")
        BY <1>7 DEF ptr, nil
    <2>2. "system" \in entry.read
        BY <1>2, <2>1
    <2> QED
        BY <1>1, <1>4, <1>5, <2>1, <2>2
<1> QED
    BY <1>3, <1>6, <1>7

LEMMA ViewsAgree == IInv => DashboardAgrees
<1> SUFFICES ASSUME IInv PROVE DashboardAgrees
    OBVIOUS
<1> DEFINE m == entry.measurement
           e == m.External
           view == describe(entry)
<1>1. /\ view.Watts = m.PowerW /\ view.WaterLPM = m.ActiveWaterLPM
      /\ view.BatteryPct = m.StateOfChargePct /\ view.Phases = viewPhases(m.PowerPhaseW)
      /\ view.SocketOn = entry.state.PowerOn
      /\ view.External = {[Type |-> x.Type, Unit |-> x.Unit, Value |-> x.Value] :
                            x \in {e[i] : i \in DOMAIN e}}
    BY DEF describe
<1> HIDE DEF view
<1>2. Values("active_power_watts") = {view.Watts} \ {nil}
    <2>1. \A x : x \in Scraped /\ x.name = "active_power_watts" <=>
                    m.PowerW # nil /\ x = One("active_power_watts", 1, m.PowerW, <<>>)
        BY ScrapedByName, NamedInMeasurement DEF MeasurementNames
    <2> DEFINE value == m.PowerW
    <2> HIDE DEF value
    <2>2. Values("active_power_watts") = {value} \ {nil}
        BY <2>1, ValuesOfOne DEF value
    <2> QED
        BY <1>1, <2>2 DEF value
<1>3. Values("active_water_liters_per_minute") = {view.WaterLPM} \ {nil}
    <2> DEFINE value == m.ActiveWaterLPM
    <2>1. \A x : x \in Scraped /\ x.name = "active_water_liters_per_minute" <=>
                    value # nil /\ x = One("active_water_liters_per_minute", 1, value, <<>>)
        BY ScrapedByName, NamedInMeasurement DEF MeasurementNames
    <2> HIDE DEF value
    <2>2. Values("active_water_liters_per_minute") = {value} \ {nil}
        BY <2>1, ValuesOfOne
    <2> QED
        BY <1>1, <2>2 DEF value
<1>4. Values("battery_state_of_charge_ratio") = {ratio(view.BatteryPct)} \ {nil}
    <2> DEFINE value == ratio(m.StateOfChargePct)
    <2>1. \A x : x \in Scraped /\ x.name = "battery_state_of_charge_ratio" <=>
                    value # nil /\ x = One("battery_state_of_charge_ratio", 1, value, <<>>)
        BY ScrapedByName, NamedInMeasurement DEF MeasurementNames
    <2> HIDE DEF value
    <2>2. Values("battery_state_of_charge_ratio") = {value} \ {nil}
        BY <2>1, ValuesOfOne
    <2> QED
        BY <1>1, <2>2 DEF value
<1>5. Values("socket_power_on") = {view.SocketOn} \ {nil}
    BY <1>1, SecondariesShown DEF SecondariesAreOneAnswer, IInv, SecondariesFit, Secondary
<1>6. Series({"active_power_phase_watts"}) =
        {[name |-> "active_power_phase_watts", value |-> p.Watts,
          labels |-> <<phaseNames[CHOOSE n \in Phase : viewNames[n] = p.Name]>>] :
            p \in view.Phases}
    <2> DEFINE watts == m.PowerPhaseW
               bare(p) == [name |-> "active_power_phase_watts", value |-> p.Watts,
                           labels |-> <<phaseNames[CHOOSE n \in Phase :
                                                        viewNames[n] = p.Name]>>]
               of(n) == [Name |-> viewNames[n], Watts |-> watts[n]]
    <2>1. view.Phases = {of(n) : n \in {k \in Phase : watts[k] # nil}}
        BY <1>1 DEF viewPhases
    <2>2. ASSUME NEW n \in Phase
          PROVE  bare(of(n)) = Bare(PhaseName, <<phaseNames[n]>>, watts[n])
        <3>1. of(n).Name = viewNames[n] /\ of(n).Watts = watts[n]
            OBVIOUS
        <3> HIDE DEF of
        <3>2. (CHOOSE k \in Phase : viewNames[k] = of(n).Name) = n
            BY <3>1, ViewNamesTellPhases
        <3> QED
            BY <3>1, <3>2 DEF Bare, PhaseName
    <2> HIDE DEF of, bare
    <2>3. ASSUME NEW y
          PROVE  y \in Series({PhaseName}) <=> \E p \in view.Phases : y = bare(p)
        <3>1. y \in Series({PhaseName}) <=>
                \E n \in Phase : watts[n] # nil
                                 /\ y = Bare(PhaseName, <<phaseNames[n]>>, watts[n])
            BY PhasesShown
        <3> HIDE DEF watts
        <3> QED
            BY <2>1, <2>2, <3>1
    <2>4. Series({PhaseName}) = {bare(p) : p \in view.Phases}
        BY <2>3
    <2> QED
        BY <2>4 DEF bare, PhaseName
<1>7. {[Type |-> s.labels[2], Unit |-> s.labels[3], Value |-> s.value] :
            s \in Series({"external_meter_value"})} = view.External
    <2> DEFINE of(s) == [Type |-> s.labels[2], Unit |-> s.labels[3], Value |-> s.value]
               bare(x) == Bare(ValueName, <<x.UniqueID, x.Type, x.Unit>>, x.Value)
               drawn(x) == [Type |-> x.Type, Unit |-> x.Unit, Value |-> x.Value]
    <2>1. ASSUME NEW x
          PROVE  of(bare(x)) = drawn(x)
        <3>1. /\ bare(x).labels = <<x.UniqueID, x.Type, x.Unit>>
              /\ bare(x).value = x.Value
            BY DEF Bare
        <3> HIDE DEF bare
        <3>2. bare(x).labels[2] = x.Type /\ bare(x).labels[3] = x.Unit
            BY <3>1
        <3> QED
            BY <3>1, <3>2
    <2> HIDE DEF of, bare, drawn
    <2>2. \A y : y \in Series({ValueName}) <=> \E i \in DOMAIN e : y = bare(e[i])
        BY ValuesShown DEF bare
    <2>3. view.External = {drawn(e[i]) : i \in DOMAIN e}
        BY <1>1 DEF drawn
    <2>4. {of(s) : s \in Series({ValueName})} = view.External
        <3> HIDE DEF e
        <3> QED
            BY <2>1, <2>2, <2>3
    <2> QED
        BY <2>4 DEF of, ValueName
<1>8. (Series({"wifi_info"}) = {}) <=> (view.WifiSSID = "")
    <2> DEFINE wifi == One("wifi_info", 1, <<1>>, <<wifiSSID(entry)>>)
    <2>1. \A x : x \in Scraped /\ x.name = "wifi_info" =>
                    wifiSSID(entry) # ""
        BY ScrapedOfEndpoint
    <2>2. wifiSSID(entry) # "" => wifi \in Scraped
        BY InScraped
    <2>3. wifi.name = "wifi_info"
        BY OfOne
    <2> HIDE DEF wifi
    <2>4. (Series({"wifi_info"}) = {}) <=> wifiSSID(entry) = ""
        <3>1. ASSUME wifiSSID(entry) # "" PROVE Series({"wifi_info"}) # {}
            <4>1. Shown(wifi) \in Series({"wifi_info"})
                BY <2>2, <2>3, <3>1, SeriesOf
            <4> QED
                BY <4>1
        <3>2. ASSUME wifiSSID(entry) = "" PROVE Series({"wifi_info"}) = {}
            <4>1. \A x \in Scraped : x.name # "wifi_info"
                BY <2>1, <3>2
            <4>2. \A y : y \notin Series({"wifi_info"})
                BY <4>1, SeriesOf
            <4> QED
                BY <4>2
        <3> QED
            BY <3>1, <3>2
    <2> QED
        BY <2>4, NetworkAgrees DEF view
<1> HIDE DEF e, m
<1> QED
    BY <1>2, <1>3, <1>4, <1>5, <1>6, <1>7, <1>8 DEF DashboardAgrees, view

\* The types of Scrape's variables.
THEOREM TypeCorrect == Spec => []ScrapeTypeOK
BY Invariant, PTL DEF IInv

\* No scrape has a series twice, whatever the house and its meters, the firmware,
\* and the connections before.
THEOREM NoSeriesTwice == Spec => []NoDuplicateSeries
BY Invariant, SeriesAreDistinct, PTL

\* The phases and meters of a scrape are those of the house when the device last
\* gave a readable answer, on either API generation and any firmware.
THEOREM LastReading == Spec => []ShowsLastReading
BY Invariant, LastReadingShown, PTL

\* No field of a secondary endpoint outlives the answer it came in.
THEOREM OneAnswer == Spec => []SecondariesAreOneAnswer
BY Invariant, SecondariesShown, PTL

\* The dashboard and the collector show the same readings of the snapshot.
THEOREM SameReadings == Spec => []DashboardAgrees
BY Invariant, ViewsAgree, PTL
=============================================================================
