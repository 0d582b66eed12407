--------------------------- MODULE ZkCodecProofs ---------------------------
(***************************************************************************)
(* What the operators of ZkCodec compute, for every input: a date survives *)
(* packing, the size of the records is the one they were written with, and *)
(* the loop that cuts the payload loses no record.                         *)
(***************************************************************************)
EXTENDS ZkCodec, FiniteSetTheorems, TLAPS

(* One digit of a packed time is taken off again. *)
Split(n, base, rest, low) == n \div base = rest /\ n % base = low

LEMMA Digit60 ==
  ASSUME NEW n, NEW rest \in Nat, NEW low \in 0 .. 59, n = rest * 60 + low
  PROVE  Split(n, 60, rest, low)
  BY DEF Split

LEMMA Digit24 ==
  ASSUME NEW n, NEW rest \in Nat, NEW low \in 0 .. 23, n = rest * 24 + low
  PROVE  Split(n, 24, rest, low)
  BY DEF Split

LEMMA Digit31 ==
  ASSUME NEW n, NEW rest \in Nat, NEW low \in 0 .. 30, n = rest * 31 + low
  PROVE  Split(n, 31, rest, low)
  BY DEF Split

LEMMA Digit12 ==
  ASSUME NEW n, NEW rest \in Nat, NEW low \in 0 .. 11, n = rest * 12 + low
  PROVE  Split(n, 12, rest, low)
  BY DEF Split

(* The sum that encode_zk_time forms is the number with those digits. *)
LEMMA Packed ==
  ASSUME NEW y \in Int, NEW m \in Nat, NEW d \in Nat, NEW h \in Nat, NEW mi \in Nat, NEW s \in Nat
  PROVE  y * 12 * 31 * 24 * 3600 + m * 31 * 24 * 3600 + d * 24 * 3600 + h * 3600 + mi * 60 + s
           = ((((y * 12 + m) * 31 + d) * 24 + h) * 60 + mi) * 60 + s
  OBVIOUS

LEMMA PackedIsUnpacked ==
  ASSUME NEW dt \in DateTime, dt.year >= 2000
  PROVE  Unpacked(PackedTime(dt)) = dt
<1> DEFINE y == dt.year - 2000
           m == dt.month - 1
           d == dt.day - 1
           months == y * 12 + m
           days == months * 31 + d
           hours == days * 24 + dt.hour
           minutes == hours * 60 + dt.minute
           value == minutes * 60 + dt.second
<1>1. /\ y \in Nat /\ m \in 0 .. 11 /\ d \in 0 .. 30
      /\ dt.hour \in 0 .. 23 /\ dt.minute \in 0 .. 59 /\ dt.second \in 0 .. 59
      /\ dt.year = y + 2000 /\ dt.month = m + 1 /\ dt.day = d + 1
  BY DEF DateTime
<1>2. dt = [year |-> dt.year, month |-> dt.month, day |-> dt.day,
            hour |-> dt.hour, minute |-> dt.minute, second |-> dt.second]
  BY DEF DateTime
<1>3. months \in Nat
  <2> HIDE DEF y, m
  <2> QED BY <1>1
<1>4. days \in Nat
  <2> HIDE DEF months, d
  <2> QED BY <1>1, <1>3
<1>5. hours \in Nat
  <2> HIDE DEF days
  <2> QED BY <1>1, <1>4
<1>6. minutes \in Nat
  <2> HIDE DEF hours
  <2> QED BY <1>1, <1>5
<1>7. PackedTime(dt) = value
  <2>1. PackedTime(dt) = y * 12 * 31 * 24 * 3600 + m * 31 * 24 * 3600 + d * 24 * 3600
                             + dt.hour * 3600 + dt.minute * 60 + dt.second
    BY DEF PackedTime
  <2>2. y \in Nat /\ m \in Nat /\ d \in Nat /\ dt.hour \in Nat /\ dt.minute \in Nat /\ dt.second \in Nat
    BY <1>1
  <2> HIDE DEF y, m, d
  <2> QED BY <2>1, <2>2, Packed
<1>8. value \div 60 = minutes /\ value % 60 = dt.second
  <2> DEFINE low == dt.second
  <2>1. minutes \in Nat /\ low \in 0 .. 59
    BY <1>1, <1>6
  <2>2. value = minutes * 60 + low
    OBVIOUS
  <2> HIDE DEF value, minutes, low
  <2>3. Split(value, 60, minutes, low)
    BY <2>1, <2>2, Digit60
  <2> QED BY <2>3 DEF Split, low
<1>9. minutes \div 60 = hours /\ minutes % 60 = dt.minute
  <2> DEFINE low == dt.minute
  <2>1. hours \in Nat /\ low \in 0 .. 59
    BY <1>1, <1>5
  <2>2. minutes = hours * 60 + low
    OBVIOUS
  <2> HIDE DEF minutes, hours, low
  <2>3. Split(minutes, 60, hours, low)
    BY <2>1, <2>2, Digit60
  <2> QED BY <2>3 DEF Split, low
<1>10. hours \div 24 = days /\ hours % 24 = dt.hour
  <2> DEFINE low == dt.hour
  <2>1. days \in Nat /\ low \in 0 .. 23
    BY <1>1, <1>4
  <2>2. hours = days * 24 + low
    OBVIOUS
  <2> HIDE DEF hours, days, low
  <2>3. Split(hours, 24, days, low)
    BY <2>1, <2>2, Digit24
  <2> QED BY <2>3 DEF Split, low
<1>11. days \div 31 = months /\ days % 31 = d
  <2> DEFINE low == d
  <2>1. months \in Nat /\ low \in 0 .. 30
    BY <1>1, <1>3
  <2>2. days = months * 31 + low
    OBVIOUS
  <2> HIDE DEF days, months, low
  <2>3. Split(days, 31, months, low)
    BY <2>1, <2>2, Digit31
  <2> QED BY <2>3 DEF Split, low
<1>12. months \div 12 = y /\ months % 12 = m
  <2> DEFINE low == m
  <2>1. y \in Nat /\ low \in 0 .. 11
    BY <1>1
  <2>2. months = y * 12 + low
    OBVIOUS
  <2> HIDE DEF months, y, low
  <2>3. Split(months, 12, y, low)
    BY <2>1, <2>2, Digit12
  <2> QED BY <2>3 DEF Split, low
<1> HIDE DEF value, minutes, hours, days, months, y, m, d
<1>13. Unpacked(value) = [year |-> y + 2000, month |-> m + 1, day |-> d + 1,
                           hour |-> dt.hour, minute |-> dt.minute, second |-> dt.second]
  BY <1>8, <1>9, <1>10, <1>11, <1>12 DEF Unpacked
<1>14. Unpacked(value) = dt
  BY <1>1, <1>2, <1>13
<1> QED
  BY <1>7, <1>14

(* zk_client.py:27-63: a date that can be packed is unpacked as it was,    *)
(* and no date is lost to the check of datetime().                         *)
THEOREM TimeSurvivesPacking ==
  ASSUME NEW dt \in DateTime, Packable(dt), IsDate(dt)
  PROVE  DecodeZkTime(EncodeZkTime(dt)) = dt
  BY PackedIsUnpacked DEF EncodeZkTime, DecodeZkTime, Packable

-----------------------------------------------------------------------------
(* The other way round: the fields of a packed time are packed into it.    *)
LEMMA UnpackedType ==
  ASSUME NEW v \in Nat
  PROVE  /\ Unpacked(v) \in DateTime
         /\ Unpacked(v).year >= 2000
<1> DEFINE minutes == v \div 60
           hours == minutes \div 60
           days == hours \div 24
           months == days \div 31
<1>1. minutes \in Nat /\ v % 60 \in 0 .. 59
  OBVIOUS
<1>2. hours \in Nat /\ minutes % 60 \in 0 .. 59
  <2> HIDE DEF minutes
  <2> QED BY <1>1
<1>3. days \in Nat /\ hours % 24 \in 0 .. 23
  <2> HIDE DEF hours
  <2> QED BY <1>2
<1>4. months \in Nat /\ days % 31 \in 0 .. 30
  <2> HIDE DEF days
  <2> QED BY <1>3
<1>5. months \div 12 \in Nat /\ months % 12 \in 0 .. 11
  <2> HIDE DEF months
  <2> QED BY <1>4
<1>6. Unpacked(v) = [second |-> v % 60, minute |-> minutes % 60, hour |-> hours % 24,
                     day |-> (days % 31) + 1, month |-> (months % 12) + 1, year |-> (months \div 12) + 2000]
  BY DEF Unpacked
<1> HIDE DEF minutes, hours, days, months
<1> QED
  BY <1>1, <1>2, <1>3, <1>4, <1>5, <1>6 DEF DateTime

Joined(n, base) == n \div base \in Nat /\ n % base \in Nat /\ n = (n \div base) * base + (n % base)

LEMMA Rejoined ==
  ASSUME NEW n \in Nat
  PROVE  Joined(n, 60) /\ Joined(n, 24) /\ Joined(n, 31) /\ Joined(n, 12)
<1>1. Joined(n, 60)
  BY DEF Joined
<1>2. Joined(n, 24)
  BY DEF Joined
<1>3. Joined(n, 31)
  BY DEF Joined
<1>4. Joined(n, 12)
  BY DEF Joined
<1> QED
  BY <1>1, <1>2, <1>3, <1>4

LEMMA PackedAgain ==
  ASSUME NEW v \in Nat
  PROVE  PackedTime(Unpacked(v)) = v
<1> DEFINE minutes == v \div 60
           hours == minutes \div 60
           days == hours \div 24
           months == days \div 31
           y == months \div 12
           m == months % 12
           d == days % 31
           h == hours % 24
           mi == minutes % 60
           s == v % 60
<1>1. minutes \in Nat /\ s \in Nat /\ v = minutes * 60 + s
  BY Rejoined DEF Joined
<1>2. hours \in Nat /\ mi \in Nat /\ minutes = hours * 60 + mi
  <2> HIDE DEF minutes
  <2> QED BY <1>1, Rejoined DEF Joined
<1>3. days \in Nat /\ h \in Nat /\ hours = days * 24 + h
  <2> HIDE DEF hours
  <2> QED BY <1>2, Rejoined DEF Joined
<1>4. months \in Nat /\ d \in Nat /\ days = months * 31 + d
  <2> HIDE DEF days
  <2> QED BY <1>3, Rejoined DEF Joined
<1>5. y \in Nat /\ m \in Nat /\ months = y * 12 + m
  <2> HIDE DEF months
  <2> QED BY <1>4, Rejoined DEF Joined
<1>6. Unpacked(v) = [second |-> s, minute |-> mi, hour |-> h, day |-> d + 1, month |-> m + 1, year |-> y + 2000]
  BY DEF Unpacked
<1> HIDE DEF minutes, hours, days, months, y, m, d, h, mi, s
<1>7. PackedTime(Unpacked(v)) = y * 12 * 31 * 24 * 3600 + m * 31 * 24 * 3600 + d * 24 * 3600 + h * 3600 + mi * 60 + s
  <2>1. (y + 2000) - 2000 = y /\ (m + 1) - 1 = m /\ (d + 1) - 1 = d
    BY <1>4, <1>5
  <2> QED BY <1>6, <2>1 DEF PackedTime
<1>8. PackedTime(Unpacked(v)) = ((((y * 12 + m) * 31 + d) * 24 + h) * 60 + mi) * 60 + s
  BY <1>1, <1>2, <1>3, <1>4, <1>5, <1>7, Packed
<1> QED
  BY <1>1, <1>2, <1>3, <1>4, <1>5, <1>8

(* zk_client.py:27-63: no two clock values of a log are read as one time,  *)
(* so no two punches become one because of how times are packed.           *)
THEOREM TimesApart ==
  ASSUME NEW v \in Nat, NEW w \in Nat, DecodeZkTime(v) # None, DecodeZkTime(v) = DecodeZkTime(w)
  PROVE  v = w
<1>1. Unpacked(v) = Unpacked(w)
  BY DEF DecodeZkTime
<1> QED
  BY <1>1, PackedAgain

-----------------------------------------------------------------------------
(* Packed times are in the order of the calendar. *)
Decided60(n, low, m, bottom) ==
  /\ n * 60 + low < m * 60 + bottom <=> n < m \/ (n = m /\ low < bottom)
  /\ n * 60 + low = m * 60 + bottom <=> n = m /\ low = bottom

LEMMA Decide60 ==
  ASSUME NEW n \in Nat, NEW m \in Nat, NEW low \in 0 .. 59, NEW bottom \in 0 .. 59
  PROVE  Decided60(n, low, m, bottom)
<1>1. CASE n < m
  <2>1. n + 1 <= m
    BY <1>1
  <2> QED BY <1>1, <2>1 DEF Decided60
<1>2. CASE m < n
  <2>1. m + 1 <= n
    BY <1>2
  <2> QED BY <1>2, <2>1 DEF Decided60
<1>3. CASE n = m
  BY <1>3 DEF Decided60
<1> QED BY <1>1, <1>2, <1>3

LEMMA BeforeIs ==
  ASSUME NEW a \in DateTime, NEW b \in DateTime
  PROVE  Before(a, b) <=>
           \/ a.year < b.year
           \/ /\ a.year = b.year
              /\ \/ a.month < b.month
                 \/ /\ a.month = b.month
                    /\ \/ a.day < b.day
                       \/ /\ a.day = b.day
                          /\ \/ a.hour < b.hour
                             \/ /\ a.hour = b.hour
                                /\ \/ a.minute < b.minute
                                   \/ a.minute = b.minute /\ a.second < b.second
<1>1. /\ Fields(a)[1] = a.year /\ Fields(a)[2] = a.month /\ Fields(a)[3] = a.day
      /\ Fields(a)[4] = a.hour /\ Fields(a)[5] = a.minute /\ Fields(a)[6] = a.second
      /\ Fields(b)[1] = b.year /\ Fields(b)[2] = b.month /\ Fields(b)[3] = b.day
      /\ Fields(b)[4] = b.hour /\ Fields(b)[5] = b.minute /\ Fields(b)[6] = b.second
  BY DEF Fields
<1> DEFINE At(i) == Fields(a)[i] < Fields(b)[i] /\ \A j \in 1 .. i - 1 : Fields(a)[j] = Fields(b)[j]
<1>2. Before(a, b) <=> At(1) \/ At(2) \/ At(3) \/ At(4) \/ At(5) \/ At(6)
  <2>1. \A i : i \in 1 .. 6 <=> i = 1 \/ i = 2 \/ i = 3 \/ i = 4 \/ i = 5 \/ i = 6
    OBVIOUS
  <2> HIDE DEF At
  <2>2. Before(a, b) <=> \E i \in 1 .. 6 : At(i)
    BY DEF Before, At
  <2> QED BY <2>1, <2>2
<1>3. At(1) <=> a.year < b.year
  BY <1>1
<1>4. At(2) <=> a.year = b.year /\ a.month < b.month
  BY <1>1
<1>5. At(3) <=> a.year = b.year /\ a.month = b.month /\ a.day < b.day
  BY <1>1
<1>6. At(4) <=> a.year = b.year /\ a.month = b.month /\ a.day = b.day /\ a.hour < b.hour
  BY <1>1
<1>7. At(5) <=> a.year = b.year /\ a.month = b.month /\ a.day = b.day /\ a.hour = b.hour /\ a.minute < b.minute
  BY <1>1
<1>8. At(6) <=> /\ a.year = b.year /\ a.month = b.month /\ a.day = b.day
                /\ a.hour = b.hour /\ a.minute = b.minute /\ a.second < b.second
  BY <1>1
<1> HIDE DEF At
<1> QED
  BY <1>2, <1>3, <1>4, <1>5, <1>6, <1>7, <1>8

(* The times whose packing is not negative. *)
FromEpoch == {t \in DateTime : t.year >= 2000}

LEMMA PackedInOrder ==
  ASSUME NEW a \in FromEpoch, NEW b \in FromEpoch
  PROVE  Before(a, b) <=> PackedTime(a) < PackedTime(b)
<1> DEFINE Months(t) == (t.year - 2000) * 12 + (t.month - 1)
           Days(t) == Months(t) * 31 + (t.day - 1)
           Hours(t) == Days(t) * 24 + t.hour
           Minutes(t) == Hours(t) * 60 + t.minute
           Value(t) == Minutes(t) * 60 + t.second
<1>0. ASSUME NEW t \in {a, b}
      PROVE  /\ t.year - 2000 \in Nat /\ t.month - 1 \in 0 .. 11 /\ t.day - 1 \in 0 .. 30
             /\ t.hour \in 0 .. 23 /\ t.minute \in 0 .. 59 /\ t.second \in 0 .. 59
             /\ Months(t) \in Nat /\ Days(t) \in Nat /\ Hours(t) \in Nat /\ Minutes(t) \in Nat
             /\ PackedTime(t) = Value(t)
  <2>1. /\ t.year - 2000 \in Nat /\ t.month - 1 \in 0 .. 11 /\ t.day - 1 \in 0 .. 30
        /\ t.hour \in 0 .. 23 /\ t.minute \in 0 .. 59 /\ t.second \in 0 .. 59
    BY DEF FromEpoch, DateTime
  <2>2. Months(t) \in Nat
    BY <2>1
  <2>3. Days(t) \in Nat
    <3> HIDE DEF Months
    <3> QED BY <2>1, <2>2
  <2>4. Hours(t) \in Nat
    <3> HIDE DEF Days
    <3> QED BY <2>1, <2>3
  <2>5. Minutes(t) \in Nat
    <3> HIDE DEF Hours
    <3> QED BY <2>1, <2>4
  <2> DEFINE y == t.year - 2000
             m == t.month - 1
             d == t.day - 1
             h == t.hour
             mi == t.minute
             s == t.second
  <2>6. y \in Nat /\ m \in Nat /\ d \in Nat /\ h \in Nat /\ mi \in Nat /\ s \in Nat
    BY <2>1
  <2>7. PackedTime(t) = y * 12 * 31 * 24 * 3600 + m * 31 * 24 * 3600 + d * 24 * 3600 + h * 3600 + mi * 60 + s
    BY DEF PackedTime
  <2>8. Value(t) = ((((y * 12 + m) * 31 + d) * 24 + h) * 60 + mi) * 60 + s
    OBVIOUS
  <2>9. PackedTime(t) = Value(t)
    <3> HIDE DEF y, m, d, h, mi, s, Value
    <3> QED BY <2>6, <2>7, <2>8, Packed
  <2> QED
    BY <2>1, <2>2, <2>3, <2>4, <2>5, <2>9
<1> HIDE DEF Value
<1>a. /\ Months(a) \in Nat /\ Days(a) \in Nat /\ Hours(a) \in Nat /\ Minutes(a) \in Nat
      /\ Months(b) \in Nat /\ Days(b) \in Nat /\ Hours(b) \in Nat /\ Minutes(b) \in Nat
  BY <1>0
<1>b. /\ a.day - 1 \in 0 .. 30 /\ a.hour \in 0 .. 23 /\ a.minute \in 0 .. 59 /\ a.second \in 0 .. 59
      /\ b.day - 1 \in 0 .. 30 /\ b.hour \in 0 .. 23 /\ b.minute \in 0 .. 59 /\ b.second \in 0 .. 59
      /\ a.day \in Int /\ b.day \in Int
  BY DEF FromEpoch, DateTime
<1>1. /\ Value(a) < Value(b) <=> Minutes(a) < Minutes(b) \/ (Minutes(a) = Minutes(b) /\ a.second < b.second)
      /\ Value(a) = Value(b) <=> Minutes(a) = Minutes(b) /\ a.second = b.second
  <2>1. Value(a) = Minutes(a) * 60 + a.second /\ Value(b) = Minutes(b) * 60 + b.second
    BY DEF Value
  <2>2. /\ Minutes(a) \in Nat /\ Minutes(b) \in Nat
        /\ a.second \in 0 .. 59 /\ b.second \in 0 .. 59
    BY <1>a, <1>b
  <2> HIDE DEF Value, Minutes
  <2>3. \A n \in Nat, m \in Nat, low \in 0 .. 59, bottom \in 0 .. 59 : Decided60(n, low, m, bottom)
    BY Decide60
  <2>4. Decided60(Minutes(a), a.second, Minutes(b), b.second)
    BY <2>2, <2>3
  <2> QED BY <2>1, <2>4 DEF Decided60
<1>2. /\ Minutes(a) < Minutes(b) <=> Hours(a) < Hours(b) \/ (Hours(a) = Hours(b) /\ a.minute < b.minute)
      /\ Minutes(a) = Minutes(b) <=> Hours(a) = Hours(b) /\ a.minute = b.minute
  <2>1. Minutes(a) = Hours(a) * 60 + a.minute /\ Minutes(b) = Hours(b) * 60 + b.minute
    BY DEF Minutes
  <2>2. /\ Hours(a) \in Nat /\ Hours(b) \in Nat
        /\ a.minute \in 0 .. 59 /\ b.minute \in 0 .. 59
    BY <1>a, <1>b
  <2> HIDE DEF Minutes, Hours
  <2>3. \A n \in Nat, m \in Nat, low \in 0 .. 59, bottom \in 0 .. 59 : Decided60(n, low, m, bottom)
    BY Decide60
  <2>4. Decided60(Hours(a), a.minute, Hours(b), b.minute)
    BY <2>2, <2>3
  <2> QED BY <2>1, <2>4 DEF Decided60
<1>3. /\ Hours(a) < Hours(b) <=> Days(a) < Days(b) \/ (Days(a) = Days(b) /\ a.hour < b.hour)
      /\ Hours(a) = Hours(b) <=> Days(a) = Days(b) /\ a.hour = b.hour
  <2>1. Hours(a) = Days(a) * 24 + a.hour /\ Hours(b) = Days(b) * 24 + b.hour
    BY DEF Hours
  <2> HIDE DEF Hours, Days
  <2> QED BY <1>a, <1>b, <2>1
<1>4. /\ Days(a) < Days(b) <=> Months(a) < Months(b) \/ (Months(a) = Months(b) /\ a.day < b.day)
      /\ Days(a) = Days(b) <=> Months(a) = Months(b) /\ a.day = b.day
  <2>1. Days(a) = Months(a) * 31 + (a.day - 1) /\ Days(b) = Months(b) * 31 + (b.day - 1)
    BY DEF Days
  <2> HIDE DEF Days, Months
  <2> QED BY <1>a, <1>b, <2>1
<1>5. /\ Months(a) < Months(b) <=> a.year < b.year \/ (a.year = b.year /\ a.month < b.month)
      /\ Months(a) = Months(b) <=> a.year = b.year /\ a.month = b.month
  BY DEF FromEpoch, DateTime
<1> HIDE DEF Months, Days, Hours, Minutes
<1>6. PackedTime(a) = Value(a) /\ PackedTime(b) = Value(b)
  BY <1>0
<1> QED
  BY <1>1, <1>2, <1>3, <1>4, <1>5, <1>6, BeforeIs DEF FromEpoch

WordMax == 4294967295   \* 2^32 - 1

\* A number of that base is negative as its higher digits are.
Signed(n, v) == v \in Int /\ (v >= 0 <=> n >= 0)

LEMMA Sign60 ==
  ASSUME NEW n \in Int, NEW low \in 0 .. 59
  PROVE  Signed(n, n * 60 + low)
  BY DEF Signed

SumOf(y, m, d, h, mi, s) ==
  y * 12 * 31 * 24 * 3600 + m * 31 * 24 * 3600 + d * 24 * 3600 + h * 3600 + mi * 60 + s

LEMMA PackedSign ==
  ASSUME NEW y \in Int, NEW m \in 0 .. 11, NEW d \in 0 .. 30, NEW h \in 0 .. 23, NEW mi \in 0 .. 59, NEW s \in 0 .. 59
  PROVE  Signed(y, SumOf(y, m, d, h, mi, s))
<1> DEFINE months == y * 12 + m
           days == months * 31 + d
           hours == days * 24 + h
           minutes == hours * 60 + mi
           value == minutes * 60 + s
<1>1. Signed(y, months)
  BY DEF Signed
<1>2. Signed(months, days)
  <2> HIDE DEF months
  <2> QED BY <1>1 DEF Signed
<1>3. Signed(days, hours)
  <2> HIDE DEF days
  <2> QED BY <1>2 DEF Signed
<1>4. Signed(hours, minutes)
  <2> HIDE DEF hours
  <2> QED BY <1>3, Sign60 DEF Signed
<1>5. Signed(minutes, value)
  <2> HIDE DEF minutes
  <2> QED BY <1>4, Sign60 DEF Signed
<1>6. SumOf(y, m, d, h, mi, s) = value
  <2>1. m \in Nat /\ d \in Nat /\ h \in Nat /\ mi \in Nat /\ s \in Nat
    OBVIOUS
  <2> QED BY <2>1, Packed DEF SumOf
<1> HIDE DEF months, days, hours, minutes, value
<1> QED
  BY <1>1, <1>2, <1>3, <1>4, <1>5, <1>6 DEF Signed

(* zk_client.py:53: the dates that are packed are those whose packing is an*)
(* unsigned number of 32 bits, the last of them LastPackable.              *)
THEOREM PackedInWord ==
  ASSUME NEW dt \in DateTime
  PROVE  Packable(dt) <=> PackedTime(dt) \in 0 .. WordMax
<1>1. PackedTime(LastPackable) = WordMax /\ WordMax \in Nat
  BY SMT DEF PackedTime, LastPackable, WordMax
<1>0. LastPackable \in FromEpoch
  BY SMT DEF LastPackable, FromEpoch, DateTime
<1> DEFINE y == dt.year - 2000
           m == dt.month - 1
           d == dt.day - 1
<1>2. /\ y \in Int /\ m \in 0 .. 11 /\ d \in 0 .. 30 /\ dt.year \in Nat
      /\ dt.hour \in 0 .. 23 /\ dt.minute \in 0 .. 59 /\ dt.second \in 0 .. 59
  BY DEF DateTime
<1>3. PackedTime(dt) \in Int /\ (PackedTime(dt) >= 0 <=> y >= 0)
  <2>1. PackedTime(dt) = SumOf(y, m, d, dt.hour, dt.minute, dt.second)
    BY DEF PackedTime, SumOf
  <2> HIDE DEF y, m, d
  <2>2. Signed(y, SumOf(y, m, d, dt.hour, dt.minute, dt.second))
    BY <1>2, PackedSign
  <2> QED BY <2>1, <2>2 DEF Signed
<1>4. y >= 0 <=> dt.year >= 2000
  BY <1>2
<1> HIDE DEF y
<1>5. dt.year >= 2000 => (Before(LastPackable, dt) <=> WordMax < PackedTime(dt))
  BY <1>0, <1>1, PackedInOrder DEF FromEpoch
<1> QED
  BY <1>1, <1>3, <1>4, <1>5 DEF Packable

(* zk_client.py:272-283: the window of plausible times is a range of clock *)
(* values, for every bound that can be packed: a time that is discarded is *)
(* later than every time that is kept, across months, leap years and ends  *)
(* of years.                                                               *)
THEOREM WindowIsRange ==
  ASSUME NEW value \in Nat, NEW bound \in DateTime, Packable(bound), DecodeZkTime(value) # None
  PROVE  DecodeAttendanceTime(value, bound) # None <=> value <= EncodeZkTime(bound)
<1>1. DecodeZkTime(value) = Unpacked(value)
  BY DEF DecodeZkTime
<1>2. Before(bound, Unpacked(value)) <=> PackedTime(bound) < value
  BY UnpackedType, PackedInOrder, PackedAgain DEF Packable, FromEpoch
<1>3. PackedTime(bound) \in Int
  <2>1. /\ bound.year \in Int /\ bound.month \in Int /\ bound.day \in Int
        /\ bound.hour \in Int /\ bound.minute \in Int /\ bound.second \in Int
    BY DEF DateTime
  <2> QED BY <2>1 DEF PackedTime
<1> QED
  BY <1>1, <1>2, <1>3 DEF DecodeAttendanceTime, EncodeZkTime

-----------------------------------------------------------------------------
(* A payload of `count` records of a size, with less than a record over,   *)
(* and for records of 40 bytes with less than nine bytes over for each.    *)
Holds(count, total, size) ==
  /\ count > 0
  /\ total - count * size \in 0 .. size - 1
  /\ size = 40 => total < count * 49

(* zk_client.py:258-269: the size is the one the records were written      *)
(* with, though it is only guessed from the length of the payload.         *)
THEOREM SizeResolved ==
  ASSUME NEW count \in Nat, NEW total \in Nat, NEW size \in SupportedSizes, Holds(count, total, size)
  PROVE  ResolveRecordSize(count, total) = size
<1> DEFINE Exact(s) == total = count * s
           Fits(s) == count * s <= total /\ total - count * s < s
<1>1. CASE size = 8
  <2>1. \A s \in SupportedSizes : Exact(s) => s = 8
    BY <1>1 DEF SupportedSizes, Holds
  <2>2. ~Fits(49) /\ ~Fits(40) /\ ~Fits(16) /\ Fits(8)
    BY <1>1 DEF Holds
  <2> QED
    BY <1>1, <2>1, <2>2 DEF ResolveRecordSize, Holds
<1>2. CASE size = 16
  <2>1. \A s \in SupportedSizes : Exact(s) => s = 16
    BY <1>2 DEF SupportedSizes, Holds
  <2>2. ~Fits(49) /\ ~Fits(40) /\ Fits(16)
    BY <1>2 DEF Holds
  <2> QED
    BY <1>2, <2>1, <2>2 DEF ResolveRecordSize, Holds
<1>3. CASE size = 40
  <2>1. \A s \in SupportedSizes : Exact(s) => s = 40
    BY <1>3 DEF SupportedSizes, Holds
  <2>2. ~Fits(49) /\ Fits(40)
    BY <1>3 DEF Holds
  <2> QED
    BY <1>3, <2>1, <2>2 DEF ResolveRecordSize, Holds
<1>4. CASE size = 49
  <2>1. \A s \in SupportedSizes : Exact(s) => s = 49
    BY <1>4 DEF SupportedSizes, Holds
  <2>2. Fits(49)
    BY <1>4 DEF Holds
  <2> QED
    BY <1>4, <2>1, <2>2 DEF ResolveRecordSize, Holds
<1> QED
  BY <1>1, <1>2, <1>3, <1>4 DEF SupportedSizes

(* The loop cuts as many records as were written. *)
LEMMA AllCut ==
  ASSUME NEW count \in Nat, NEW total \in Nat, NEW size \in SupportedSizes, Holds(count, total, size)
  PROVE  RecordsCut(total, size) = count
<1>1. size \in {8, 16, 40, 49}
  BY DEF SupportedSizes
<1>2. CASE size = 8
  BY <1>2 DEF RecordsCut, Holds
<1>3. CASE size = 16
  BY <1>3 DEF RecordsCut, Holds
<1>4. CASE size = 40
  BY <1>4 DEF RecordsCut, Holds
<1>5. CASE size = 49
  BY <1>5 DEF RecordsCut, Holds
<1> QED
  BY <1>1, <1>2, <1>3, <1>4, <1>5

(* One entry for each place: there are as many as places. *)
LEMMA EntriesCounted ==
  ASSUME NEW n \in Nat, NEW places \in SUBSET (1 .. n), NEW entries, NEW Entry \in Bijection(places, entries)
  PROVE  Cardinality(entries) + Cardinality((1 .. n) \ places) = n
<1>1. IsFiniteSet(1 .. n) /\ Cardinality(1 .. n) = n
  BY FS_Interval
<1>2. IsFiniteSet(places)
  BY <1>1, FS_Subset
<1>3. Cardinality(entries) = Cardinality(places)
  BY <1>2, FS_Bijection DEF ExistsBijection
<1>4. Cardinality((1 .. n) \ places) = n - Cardinality(places)
  <2>1. (1 .. n) \cap places = places
    OBVIOUS
  <2> QED
    BY <1>1, <2>1, FS_Difference
<1>5. Cardinality(places) \in Nat
  BY <1>2, FS_CardinalityType
<1> QED
  BY <1>3, <1>4, <1>5

(* A time that is read is the one the terminal sent. *)
LEMMA TimeAsSent ==
  ASSUME NEW value, NEW upper_bound, DecodeAttendanceTime(value, upper_bound) # None
  PROVE  DecodeAttendanceTime(value, upper_bound) = Unpacked(value)
  BY DEF DecodeAttendanceTime, DecodeZkTime

ReadAsSent(read, log, size) ==
  /\ Cardinality(read.entries) + read.skipped = log.count
  /\ \A e \in read.entries : e.timestamp = Unpacked(log.words[size][e.place].time)

(* zk_client.py:185-251: such a log is read whole, whatever its records    *)
(* say: each is an entry with the time that was sent, or is skipped.       *)
THEOREM ReadWhole ==
  ASSUME NEW log, NEW users, NEW upper_bound, NEW size \in SupportedSizes,
         log.count \in Nat, log.total \in Nat, log.available \in Nat,
         log.total <= log.available, Holds(log.count, log.total, size)
  PROVE  ReadAsSent(ParseLog(log, users, upper_bound), log, size)
<1> DEFINE count == log.count
           cut == 1 .. RecordsCut(log.total, size)
           TimeOf(i) == DecodeAttendanceTime(log.words[size][i].time, upper_bound)
           readable == {i \in cut : TimeOf(i) # None}
           EntryAt(i) == [place |-> i, user_id |-> PersonOf(size, log.words[size][i].who, users), timestamp |-> TimeOf(i)]
           Entry == [i \in readable |-> EntryAt(i)]
           entries == {EntryAt(i) : i \in readable}
<1>1. ResolveRecordSize(log.count, log.total) = size
  BY SizeResolved
<1>2. RecordsCut(log.total, size) = count
  BY AllCut
<1>3. size # Unrecognised /\ log.count # 0 /\ log.total \in 1 .. log.available
  BY DEF SupportedSizes, Unrecognised, Holds
<1>4. ParseLog(log, users, upper_bound) = [entries |-> entries, skipped |-> Cardinality(cut \ readable)]
  BY <1>1, <1>3, Zenon DEF ParseLog
<1>5. readable \in SUBSET (1 .. count)
  BY <1>2
<1>6. \A i, j \in readable : Entry[i] = Entry[j] => i = j
  <2> HIDE DEF TimeOf
  <2> QED OBVIOUS
<1>7. Entry \in Bijection(readable, entries)
  <2> HIDE DEF EntryAt, readable
  <2> QED BY <1>6 DEF Bijection, Injection, Surjection, IsInjective
<1>8. Cardinality(entries) + Cardinality(cut \ readable) = count
  <2>1. count \in Nat /\ cut = 1 .. count
    BY <1>2
  <2> HIDE DEF entries, readable, Entry, count, cut
  <2> QED BY <2>1, <1>5, <1>7, EntriesCounted
<1>9. \A e \in entries : e.timestamp = Unpacked(log.words[size][e.place].time)
  <2> SUFFICES ASSUME NEW i \in readable
               PROVE  TimeOf(i) = Unpacked(log.words[size][i].time)
    <3> HIDE DEF TimeOf, readable
    <3> QED OBVIOUS
  <2> QED BY TimeAsSent
<1> HIDE DEF entries, readable, cut
<1> QED BY <1>4, <1>8, <1>9 DEF ReadAsSent
=============================================================================
