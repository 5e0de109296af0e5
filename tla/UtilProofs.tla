------------------------------ MODULE UtilProofs -------------------------------
(* Refresh dates and cool-downs, for every calendar, period and limit.        *)
EXTENDS Util, FiniteSetTheorems, TLAPS

----------------------------------------------------------------------------
(* Days and hours.                                                          *)

LEMMA DayOf ==
    ASSUME NEW t \in Int
    PROVE  /\ Day(t) \in Int /\ t % (2 * HoursOfDay) \in 0 .. 2 * HoursOfDay - 1
           /\ t = 2 * (HoursOfDay * Day(t)) + (t % (2 * HoursOfDay))
           /\ Hour(t) \in Hours
<1> DEFINE n == 2 * HoursOfDay
<1>1. n \in Nat /\ n > 0 /\ HoursOfDay \in Nat
    BY UtilAssumption
<1> HIDE DEF n
<1>2. t \div n \in Int /\ t % n \in 0 .. n - 1
    BY <1>1
<1>4. t = n * (t \div n) + (t % n)
    BY <1>1
<1>3. (t % n) \div 2 \in 0 .. HoursOfDay - 1
    <2>1. n = 2 * HoursOfDay
        BY DEF n
    <2> QED BY <1>1, <1>2, <2>1
<1>5. \A q \in Int : n * q = 2 * (HoursOfDay * q)
    BY <1>1 DEF n
<1> QED BY <1>2, <1>3, <1>4, <1>5 DEF Day, Hour, Hours, n

LEMMA Product ==
    ASSUME NEW a \in Int, NEW b \in Int, a < b
    PROVE  /\ HoursOfDay * a \in Int /\ HoursOfDay * b \in Int
           /\ HoursOfDay * a + HoursOfDay <= HoursOfDay * b
<1>1. HoursOfDay \in Nat /\ HoursOfDay > 0
    BY UtilAssumption
<1>2. HoursOfDay * b = HoursOfDay * a + HoursOfDay + HoursOfDay * (b - a - 1)
    BY <1>1
<1>3. HoursOfDay * (b - a - 1) >= 0
    BY <1>1
<1> QED BY <1>1, <1>2, <1>3

\* Instants of the form At(d, h) are ordered by day, then by hour.
LEMMA AtOrder ==
    ASSUME NEW t \in Int, NEW d \in Int, NEW h \in Hours
    PROVE  /\ At(d, h) \in Int
           /\ At(d, h) <= t <=> d < Day(t) \/ (d = Day(t) /\ h <= Hour(t))
           /\ t < At(d, h) <=> Day(t) < d \/ (d = Day(t) /\ Hour(t) < h)
<1> DEFINE r == t % (2 * HoursOfDay)
           x == HoursOfDay * d
           y == HoursOfDay * Day(t)
<1>1. HoursOfDay \in Nat /\ HoursOfDay > 0 /\ h \in 0 .. HoursOfDay - 1
    BY UtilAssumption DEF Hours
<1>2. Day(t) \in Int /\ r \in 0 .. 2 * HoursOfDay - 1 /\ t = 2 * y + r
    BY <1>1, DayOf
<1>3. Hour(t) = r \div 2
    BY DEF Hour
<1>4. At(d, h) = 2 * x + 2 * h /\ x \in Int /\ y \in Int
    BY <1>1, <1>2 DEF At
<1>5. /\ d < Day(t) => x + HoursOfDay <= y
      /\ Day(t) < d => y + HoursOfDay <= x
      /\ d = Day(t) => x = y
    BY <1>2, Product
<1> HIDE DEF r, x, y
<1> QED BY <1>1, <1>2, <1>3, <1>4, <1>5

LEMMA DayAt ==
    ASSUME NEW d \in Int, NEW h \in Hours
    PROVE  At(d, h) \in Int /\ Day(At(d, h)) = d /\ Hour(At(d, h)) = h
<1> DEFINE t == At(d, h)
<1>1. t \in Int
    BY AtOrder
<1> HIDE DEF t
<1>2. Day(t) \in Int /\ Hour(t) \in Hours /\ Hour(t) \in Int
    BY <1>1, DayOf DEF Hours
<1>3. t = At(d, h) /\ h \in Int /\ At(d, h) <= t
    BY <1>1 DEF t, Hours
<1>4. d < Day(t) \/ (d = Day(t) /\ h <= Hour(t))
    BY <1>1, <1>3, AtOrder
<1>5. d < Day(t) => At(d + 1, 0) <= t
    <2>1. 0 \in Hours /\ 0 <= Hour(t)
        BY <1>2, UtilAssumption DEF Hours
    <2> QED BY <1>1, <1>2, <2>1, AtOrder
<1>6. d = Day(t) /\ h < Hour(t) => At(d, h + 1) <= t
    <2>1. h < Hour(t) => h + 1 \in Hours /\ h + 1 <= Hour(t)
        BY <1>2, UtilAssumption DEF Hours
    <2> QED BY <1>1, <1>2, <2>1, AtOrder
<1>7. At(d, h) < At(d + 1, 0) /\ At(d, h) < At(d, h + 1)
    <2>1. HoursOfDay \in Nat /\ HoursOfDay > 0 /\ h \in 0 .. HoursOfDay - 1
        BY UtilAssumption DEF Hours
    <2> DEFINE x == HoursOfDay * d
               y == HoursOfDay * (d + 1)
    <2>2. x + HoursOfDay <= y /\ x \in Int /\ y \in Int
        BY Product
    <2>3. At(d, h) = 2 * x + 2 * h /\ At(d + 1, 0) = 2 * y /\ At(d, h + 1) = 2 * x + 2 * h + 2
        BY <2>1 DEF At
    <2> HIDE DEF x, y
    <2> QED BY <2>1, <2>2, <2>3
<1>8. At(d + 1, 0) \in Int /\ At(d, h + 1) \in Int
    BY UtilAssumption DEF At, Hours
<1>9. d = Day(t) /\ h = Hour(t)
    BY <1>1, <1>2, <1>3, <1>4, <1>5, <1>6, <1>7, <1>8
<1> QED BY <1>1, <1>9 DEF t

LEMMA AtPlus ==
    ASSUME NEW d \in Int, NEW n \in Int, NEW h \in Hours
    PROVE  At(d, h) + At(n, 0) = At(d + n, h) /\ At(d, h) - At(n, 0) = At(d - n, h)
BY UtilAssumption DEF At, Hours

----------------------------------------------------------------------------
(* Months.                                                                  *)

LEMMA Firsts ==
    /\ Len(FirstOf) \in Nat /\ Len(FirstOf) > 2 /\ EveryDay \in Nat /\ EveryDay > 0
    /\ FirstOf \in [1 .. Len(FirstOf) -> Nat] /\ FirstOf[1] = 0
    /\ DOMAIN FirstOf = 1 .. Len(FirstOf)
    /\ \A m, n \in 1 .. Len(FirstOf) : m < n => FirstOf[m] + EveryDay <= FirstOf[n]
<1>1. FirstOf \in Seq(Nat)
    BY UtilAssumption
<1>2. Len(FirstOf) > 2 /\ EveryDay \in Nat \ {0} /\ FirstOf[1] = 0
    BY UtilAssumption
<1>3. \A m, n \in DOMAIN FirstOf : m < n => FirstOf[m] + EveryDay <= FirstOf[n]
    BY UtilAssumption
<1>4. DOMAIN FirstOf = 1 .. Len(FirstOf) /\ FirstOf \in [1 .. Len(FirstOf) -> Nat]
    BY <1>1
<1>5. Len(FirstOf) \in Nat
    BY <1>1
<1> QED BY <1>2, <1>3, <1>4, <1>5

Calendar == 0 .. FirstOf[Len(FirstOf) - 1] - 1

\* The month of a day is the last that has begun.
LEMMA MonthOf ==
    ASSUME NEW t \in Int, Day(t) \in Calendar
    PROVE  /\ Month(t) \in 1 .. Len(FirstOf) - 2
           /\ FirstOf[Month(t)] <= Day(t) /\ Day(t) < FirstOf[Month(t) + 1]
<1> DEFINE l == Len(FirstOf) - 1
           R == OpToRel(<, Nat)
           T == {i \in 1 .. l : Day(t) < FirstOf[i]}
<1>1. IsWellFoundedOn(R, Nat)
    BY NatLessThanWellFounded
<1>2. \A x, y \in Nat : x < y => <<x, y>> \in R
    BY DEF OpToRel
<1>3. l \in Nat /\ l > 1 /\ l + 1 = Len(FirstOf) /\ Len(FirstOf) \in Nat
    BY Firsts
<1>4. FirstOf[1] = 0 /\ FirstOf \in [1 .. l + 1 -> Nat]
    BY Firsts, <1>3
<1>5. Day(t) \in 0 .. FirstOf[l] - 1
    BY DEF Calendar
<1> HIDE DEF l, R
<1>6. T \subseteq Nat /\ T # {}
    BY <1>3, <1>4, <1>5
<1>7. PICK i \in T : \A j \in T : ~(<<j, i>> \in R)
    BY <1>1, <1>6, WFMin
<1>8. i \in 2 .. l /\ i - 1 \notin T /\ i - 1 \in 1 .. l
    <2>1. i \in 1 .. l /\ i # 1
        BY <1>3, <1>4, <1>5, <1>7
    <2>2. i \in 2 .. l /\ i - 1 \in 1 .. l /\ i - 1 \in Nat /\ i \in Nat /\ i - 1 < i
        BY <1>3, <2>1
    <2> HIDE DEF T
    <2> QED BY <1>2, <1>7, <2>2
<1>9. \E m \in 1 .. l : FirstOf[m] <= Day(t) /\ Day(t) < FirstOf[m + 1]
    <2>1. FirstOf[i - 1] <= Day(t) /\ Day(t) < FirstOf[i - 1 + 1]
        BY <1>3, <1>4, <1>5, <1>7, <1>8
    <2> QED BY <1>8, <2>1
<1>10. Month(t) \in 1 .. l /\ FirstOf[Month(t)] <= Day(t) /\ Day(t) < FirstOf[Month(t) + 1]
    BY <1>3, <1>9 DEF Month, l
<1>11. Month(t) # l
    BY <1>5, <1>10, <1>4, <1>3
<1> QED BY <1>3, <1>10, <1>11

LEMMA MonthIs ==
    ASSUME NEW t \in Int, Day(t) \in Int,
           NEW m \in 1 .. Len(FirstOf) - 1, FirstOf[m] <= Day(t), Day(t) < FirstOf[m + 1]
    PROVE  Month(t) = m
<1> DEFINE M(i) == i \in 1 .. Len(FirstOf) - 1
                    /\ FirstOf[i] <= Day(t) /\ Day(t) < FirstOf[i + 1]
<1>1. M(Month(t))
    BY DEF Month
<1>2. ASSUME NEW a, NEW b, M(a), M(b), a < b PROVE FALSE
    <2>1. a + 1 \in 1 .. Len(FirstOf) /\ b \in 1 .. Len(FirstOf) /\ a + 1 <= b
        BY <1>2, Firsts
    <2>2. FirstOf[a + 1] <= FirstOf[b]
        <3>1. FirstOf[a + 1] \in Nat /\ FirstOf[b] \in Nat /\ EveryDay \in Nat
            BY <2>1, Firsts
        <3>2. a + 1 # b => FirstOf[a + 1] + EveryDay <= FirstOf[b]
            BY <2>1, Firsts
        <3> QED BY <2>1, <3>1, <3>2
    <2>3. FirstOf[a + 1] \in Nat /\ FirstOf[b] \in Nat
        BY <2>1, Firsts
    <2> QED BY <1>2, <2>2, <2>3
<1>3. M(m) /\ m \in Int /\ Month(t) \in Int
    BY <1>1, Firsts
<1>4. ~(m < Month(t)) /\ ~(Month(t) < m)
    BY <1>1, <1>2, <1>3
<1> QED BY <1>3, <1>4

\* The days of the calendar reach to the horizon.
LEMMA InCalendar ==
    ASSUME NEW t \in 0 .. Horizon["refresh"]
    PROVE  t \in Nat /\ Day(t) \in Calendar /\ Day(t) \in Nat
<1> DEFINE f == FirstOf[Len(FirstOf) - 1]
<1>1. f \in Nat /\ 0 \in Hours /\ HoursOfDay \in Nat
    BY Firsts, UtilAssumption DEF Hours
<1>2. At(f, 0) = 2 * HoursOfDay * f /\ At(0, 0) = 0
    <2> HIDE DEF f
    <2> QED BY <1>1 DEF At
<1>3. Horizon["refresh"] \in Nat /\ Horizon["refresh"] < 2 * HoursOfDay * f
    BY UtilAssumption
<1> HIDE DEF f
<1>4. t < At(f, 0) /\ At(0, 0) <= t /\ t \in Nat /\ Day(t) \in Int
    <2>1. t \in Nat /\ t <= Horizon["refresh"]
        BY <1>3
    <2>2. HoursOfDay * f \in Nat /\ At(f, 0) \in Int
        BY <1>1, AtOrder DEF At
    <2> QED BY <1>2, <1>3, <2>1, <2>2, DayOf
<1>5. Hour(t) \in Nat
    BY <1>4, DayOf DEF Hours
<1>6. Day(t) < f /\ 0 <= Day(t)
    BY <1>1, <1>4, <1>5, AtOrder
<1> QED BY <1>1, <1>4, <1>6 DEF Calendar, f

----------------------------------------------------------------------------
(* The next refresh point.                                                  *)

LEMMA KindFacts ==
    ASSUME NEW k \in Kinds
    PROVE  /\ k.hour \in Hours
           /\ k.every \in {"day", "week", "weekday", "month"}
           /\ k.every = "week" => k.weekday \in 0 .. 6
           /\ k.every = "weekday" => k.weekday = 1
           /\ k.every = "month" => k.day \in 1 .. EveryDay
BY DEF Kinds, Monday

\* The day n and hour h come after t, and no day of a point comes between.
LEMMA ByDay ==
    ASSUME NEW t \in Int, NEW n \in Int, NEW h \in Hours, NEW p \in Int,
           Day(t) < n \/ (Day(t) = n /\ Hour(t) < h),
           t < p, p = At(Day(p), h),
           n <= Day(p) \/ Day(p) < Day(t) \/ (Day(p) = Day(t) /\ h <= Hour(t))
    PROVE  At(n, h) <= p
<1>1. /\ Day(t) \in Int /\ Hour(t) \in Int /\ h \in Int
      /\ Day(p) \in Int /\ Hour(p) = h
    <2>1. Day(p) \in Int /\ Day(t) \in Int /\ Hour(t) \in Int /\ h \in Int
        BY DayOf DEF Hours
    <2>2. Hour(At(Day(p), h)) = h
        BY <2>1, DayAt
    <2> QED BY <2>1, <2>2
<1>2. Day(t) < Day(p) \/ (Day(t) = Day(p) /\ Hour(t) < h)
    BY <1>1, AtOrder
<1>3. n <= Day(p)
    BY <1>1, <1>2
<1> QED BY <1>1, <1>3, AtOrder

\* What NextDate returns for each kind of point: a later instant, itself a
\* point, and no point is passed over.
IsNext(k, t, x) ==
    /\ x \in Int /\ t < x
    /\ IsPoint(k, x)
    /\ \A p \in t + 1 .. Horizon["refresh"] : IsPoint(k, p) => x <= p

LEMMA NextDay ==
    ASSUME NEW k \in Kinds, k.every = "day", NEW t \in 0 .. Horizon["refresh"]
    PROVE  IsNext(k, t, GetNextDayDate(t, k.hour))
<1> DEFINE h == k.hour
           n == IF Hour(t) < h THEN Day(t) ELSE Day(t) + 1
<1>1. h \in Hours /\ h \in Int /\ t \in Int /\ Day(t) \in Int /\ Hour(t) \in Int
    BY KindFacts, InCalendar, DayOf DEF Hours
<1> HIDE DEF h
<1>2. GetNextDayDate(t, h) = At(n, h)
    BY <1>1, AtOrder DEF GetNextDayDate
<1>3. n \in Int /\ (Day(t) < n \/ (Day(t) = n /\ Hour(t) < h))
    BY <1>1
<1>4. \A d \in Int : n <= d \/ d < Day(t) \/ (d = Day(t) /\ h <= Hour(t))
    BY <1>1
<1> HIDE DEF n
<1>5. t < At(n, h) /\ At(n, h) \in Int /\ Day(At(n, h)) = n
    BY <1>1, <1>3, AtOrder, DayAt
<1>6. IsPoint(k, At(n, h))
    BY <1>5 DEF IsPoint, h
<1>7. ASSUME NEW p \in t + 1 .. Horizon["refresh"], IsPoint(k, p) PROVE At(n, h) <= p
    <2>1. p \in Int /\ t < p /\ p = At(Day(p), h) /\ Day(p) \in Int
        BY <1>1, <1>7, DayOf, UtilAssumption DEF IsPoint, h
    <2> QED BY <1>1, <1>3, <1>4, <2>1, ByDay
<1> QED BY <1>2, <1>5, <1>6, <1>7 DEF IsNext, h

\* Equal weekdays are a week apart.
LEMMA WeekApart ==
    ASSUME NEW a \in Int, NEW b \in Int, a % 7 = b % 7, a < b
    PROVE  a + 7 <= b
OBVIOUS

LEMMA NextWeek ==
    ASSUME NEW k \in Kinds, k.every = "week", NEW t \in 0 .. Horizon["refresh"]
    PROVE  IsNext(k, t, GetNextWeekDate(t, k.weekday, k.hour))
<1> DEFINE h == k.hour
           w == k.weekday
           d == w - Weekday(t)
           n == Day(t) + (IF d < 0 \/ (d = 0 /\ Hour(t) >= h) THEN d + 7 ELSE d)
<1>1. h \in Hours /\ h \in Int /\ t \in Int /\ Day(t) \in Int /\ Hour(t) \in Int /\ w \in 0 .. 6
    BY KindFacts, InCalendar, DayOf DEF Hours
<1>2. GetNextWeekDate(t, w, h) = At(n, h)
    BY DEF GetNextWeekDate
<1> HIDE DEF h, w
<1>3. n \in Int /\ (Day(t) < n \/ (Day(t) = n /\ Hour(t) < h)) /\ n % 7 = w
    BY <1>1 DEF Weekday
<1>4. ASSUME NEW x \in Int, x % 7 = w
      PROVE  n <= x \/ x < Day(t) \/ (x = Day(t) /\ h <= Hour(t))
    <2>1. d = w - (Day(t) % 7)
        BY DEF Weekday
    <2>4. x < n => x + 7 <= n
        <3>1. n % 7 = w /\ n \in Int
            BY <1>3
        <3> HIDE DEF n
        <3> QED BY <1>4, <3>1, WeekApart
    <2>5. d \in Int
        BY <1>1, <2>1
    <2> HIDE DEF d
    <2>2. CASE d < 0 \/ (d = 0 /\ Hour(t) >= h)
        <3>1. n = Day(t) + (d + 7)
            BY <2>2
        <3> HIDE DEF n
        <3> QED BY <1>1, <1>3, <1>4, <2>2, <2>4, <2>5, <3>1
    <2>3. CASE ~(d < 0 \/ (d = 0 /\ Hour(t) >= h))
        BY <1>1, <1>4, <2>1, <2>3, <2>4
    <2> QED BY <2>2, <2>3
<1> HIDE DEF n
<1>5. t < At(n, h) /\ At(n, h) \in Int /\ Day(At(n, h)) = n
    BY <1>1, <1>3, AtOrder, DayAt
<1>6. IsPoint(k, At(n, h))
    BY <1>3, <1>5 DEF IsPoint, Weekday, h, w
<1>7. ASSUME NEW p \in t + 1 .. Horizon["refresh"], IsPoint(k, p) PROVE At(n, h) <= p
    <2>1. p \in Int /\ t < p /\ p = At(Day(p), h) /\ Day(p) \in Int /\ Day(p) % 7 = w
        BY <1>1, <1>7, DayOf, UtilAssumption DEF IsPoint, Weekday, h, w
    <2> QED BY <1>1, <1>3, <1>4, <2>1, ByDay
<1> QED BY <1>2, <1>5, <1>6, <1>7 DEF IsNext, h, w

\* The Monday of a week, where Sunday is the last day.
LEMMA NextMonday ==
    ASSUME NEW k \in Kinds, k.every = "weekday", NEW t \in 0 .. Horizon["refresh"]
    PROVE  IsNext(k, t, GetNextWeekDay(t, k.weekday, k.hour))
<1> DEFINE h == k.hour
           m == Day(t) + (IF Weekday(t) = 0 THEN -6 ELSE 1 - Weekday(t))
           n == IF Day(t) < m \/ (Day(t) = m /\ Hour(t) < h) THEN m ELSE m + 7
<1>1. /\ h \in Hours /\ h \in Int /\ t \in Int /\ Day(t) \in Int /\ Hour(t) \in Int
      /\ k.weekday = 1
    BY KindFacts, InCalendar, DayOf DEF Hours
<1> HIDE DEF h
<1>2. m \in Int /\ m <= Day(t) /\ Day(t) < m + 7 /\ m % 7 = 1
    BY <1>1 DEF Weekday
<1>3. GetNextWeekDay(t, k.weekday, h) = IF At(m, h) > t THEN At(m, h) ELSE At(m, h) + At(7, 0)
    BY <1>1 DEF GetNextWeekDay
<1> HIDE DEF m
<1>4. GetNextWeekDay(t, k.weekday, h) = At(n, h)
    <2>1. At(m, h) > t <=> Day(t) < m \/ (Day(t) = m /\ Hour(t) < h)
        BY <1>1, <1>2, AtOrder
    <2>2. At(m, h) + At(7, 0) = At(m + 7, h)
        <3>1. 7 \in Int
            OBVIOUS
        <3> QED BY <1>1, <1>2, <3>1, AtPlus, Zenon
    <2> QED BY <1>3, <2>1, <2>2
<1>5. n \in Int /\ (Day(t) < n \/ (Day(t) = n /\ Hour(t) < h)) /\ n % 7 = 1
    BY <1>1, <1>2
<1>6. \A x \in Int : x % 7 = 1 => n <= x \/ x < Day(t) \/ (x = Day(t) /\ h <= Hour(t))
    BY <1>1, <1>2
<1> HIDE DEF n
<1>7. t < At(n, h) /\ At(n, h) \in Int /\ Day(At(n, h)) = n
    BY <1>1, <1>5, AtOrder, DayAt
<1>8. IsPoint(k, At(n, h))
    BY <1>1, <1>5, <1>7 DEF IsPoint, Weekday, h
<1>9. ASSUME NEW p \in t + 1 .. Horizon["refresh"], IsPoint(k, p) PROVE At(n, h) <= p
    <2>1. p \in Int /\ t < p /\ p = At(Day(p), h) /\ Day(p) \in Int /\ Day(p) % 7 = 1
        BY <1>1, <1>9, DayOf, UtilAssumption DEF IsPoint, Weekday, h
    <2> QED BY <1>1, <1>5, <1>6, <2>1, ByDay
<1> QED BY <1>4, <1>7, <1>8, <1>9 DEF IsNext, h

\* In the month of t, or in the month after it.
LEMMA NextMonth ==
    ASSUME NEW k \in Kinds, k.every = "month", NEW t \in 0 .. Horizon["refresh"]
    PROVE  IsNext(k, t, GetNextMonthDate(t, k.day, k.hour))
<1> DEFINE h == k.hour
           m == Month(t)
           f == FirstOf[m] + k.day - 1
           g == FirstOf[m + 1] + k.day - 1
           n == IF Day(t) < f \/ (Day(t) = f /\ Hour(t) < h) THEN f ELSE g
           InMonth(i) == FirstOf[i] + k.day - 1
<1>1. /\ h \in Hours /\ h \in Int /\ t \in Int /\ Day(t) \in Int /\ Hour(t) \in Int
      /\ k.day \in 1 .. EveryDay
    BY KindFacts, InCalendar, DayOf DEF Hours
<1>2. /\ m \in 1 .. Len(FirstOf) - 2 /\ m + 1 \in 1 .. Len(FirstOf) - 1
      /\ FirstOf[m] <= Day(t) /\ Day(t) < FirstOf[m + 1]
    <2>1. Day(t) \in Calendar
        BY InCalendar
    <2> QED BY <1>1, <2>1, MonthOf, Firsts
\* A day of the point's kind lies within its month.
<1>3. ASSUME NEW i \in 1 .. Len(FirstOf) - 1
      PROVE  /\ InMonth(i) \in Int /\ FirstOf[i] \in Int /\ FirstOf[i + 1] \in Int
             /\ FirstOf[i] <= InMonth(i) /\ InMonth(i) < FirstOf[i + 1]
    <2>1. i \in 1 .. Len(FirstOf) /\ i + 1 \in 1 .. Len(FirstOf) /\ i < i + 1
        BY Firsts
    <2>2. FirstOf[i] \in Nat /\ FirstOf[i + 1] \in Nat /\ FirstOf[i] + EveryDay <= FirstOf[i + 1]
        BY <2>1, Firsts
    <2> QED BY <1>1, <2>2, Firsts
<1>4. ASSUME NEW i \in 1 .. Len(FirstOf) - 1
      PROVE  Month(At(InMonth(i), h)) = i /\ Day(At(InMonth(i), h)) = InMonth(i)
    <2> DEFINE d == InMonth(i)
    <2>1. d \in Int /\ FirstOf[i] <= d /\ d < FirstOf[i + 1]
        BY <1>3
    <2> HIDE DEF d
    <2>2. At(d, h) \in Int /\ Day(At(d, h)) = d
        BY <1>1, <2>1, DayAt
    <2>3. Month(At(d, h)) = i
        BY <2>1, <2>2, MonthIs
    <2> QED BY <2>2, <2>3 DEF d
<1> HIDE DEF h
<1>5. m \in 1 .. Len(FirstOf) - 1 /\ m + 1 \in 1 .. Len(FirstOf) - 1
    BY <1>2, Firsts
<1>6. f = InMonth(m) /\ g = InMonth(m + 1) /\ f \in Int /\ g \in Int
    BY <1>3, <1>5
<1>7. GetNextMonthDate(t, k.day, h) = At(n, h)
    <2>1. Date(m, k.day, h) = At(f, h) /\ Date(m + 1, k.day, h) = At(g, h)
        BY DEF Date
    <2>2. Month(At(f, h)) = m /\ Day(At(f, h)) - FirstOf[m] + 1 = k.day
        <3>1. Month(At(f, h)) = m /\ Day(At(f, h)) = f
            BY <1>4, <1>5, <1>6
        <3>2. FirstOf[m] \in Int /\ k.day \in Int
            BY <1>1, <1>3, <1>5
        <3> QED BY <3>1, <3>2
    <2>3. At(f, h) > t <=> Day(t) < f \/ (Day(t) = f /\ Hour(t) < h)
        BY <1>1, <1>6, AtOrder
    <2> HIDE DEF f, g
    <2> QED BY <2>1, <2>2, <2>3 DEF GetNextMonthDate
<1>8. n \in Int /\ (Day(t) < n \/ (Day(t) = n /\ Hour(t) < h)) /\ n \in {f, g}
    <2>1. Day(t) < g
        BY <1>1, <1>2, <1>3, <1>5, <1>6
    <2> HIDE DEF f, g
    <2> QED BY <1>6, <2>1
<1>9. ASSUME NEW i \in 1 .. Len(FirstOf) - 1
      PROVE  \/ n <= InMonth(i) \/ InMonth(i) < Day(t)
             \/ InMonth(i) = Day(t) /\ h <= Hour(t)
    <2>1. CASE i < m
        <3>1. i + 1 \in 1 .. Len(FirstOf) /\ m \in 1 .. Len(FirstOf) /\ i + 1 <= m
            BY <1>2, <2>1, Firsts
        <3>2. FirstOf[i + 1] <= FirstOf[m] /\ FirstOf[m] \in Nat /\ FirstOf[i + 1] \in Nat
            BY <3>1, Firsts
        <3>3. InMonth(i) < FirstOf[i + 1] /\ InMonth(i) \in Int
            BY <1>3
        <3> HIDE DEF InMonth
        <3> QED BY <1>1, <1>2, <3>2, <3>3
    <2>2. CASE i = m
        <3>1. InMonth(i) = f
            BY <2>2
        <3> HIDE DEF f, g, InMonth
        <3> QED BY <1>1, <1>6, <3>1
    <2>3. CASE m < i
        <3>1. i \in 1 .. Len(FirstOf) /\ m + 1 \in 1 .. Len(FirstOf) /\ m + 1 <= i
            BY <1>2, <2>3, Firsts
        <3>2. FirstOf[m + 1] <= FirstOf[i] /\ FirstOf[i] \in Nat /\ FirstOf[m + 1] \in Nat
            BY <3>1, Firsts
        <3>4. FirstOf[m] \in Nat /\ FirstOf[m] <= FirstOf[m + 1]
            <4>1. FirstOf[m] \in Int /\ Day(t) \in Int
                BY <1>1, <1>3, <1>5
            <4>2. FirstOf[m] \in Nat
                BY <1>2, Firsts
            <4> QED BY <1>2, <3>2, <4>1, <4>2
        <3>3. g <= InMonth(i) /\ InMonth(i) \in Int /\ f <= g
            <4>1. k.day \in Int
                BY <1>1
            <4>2. \A a, b \in Nat : a <= b => a + k.day - 1 <= b + k.day - 1
                BY <4>1
            <4>3. g <= InMonth(i) /\ f <= g
                BY <3>2, <3>4, <4>2
            <4> QED BY <1>3, <4>3
        <3> HIDE DEF f, g, InMonth
        <3> QED BY <1>6, <3>3
    <2> QED BY <1>2, <2>1, <2>2, <2>3
<1> HIDE DEF n
<1>10. t < At(n, h) /\ At(n, h) \in Int /\ Day(At(n, h)) = n
    BY <1>1, <1>8, AtOrder, DayAt
<1>11. IsPoint(k, At(n, h))
    <2>1. PICK i \in 1 .. Len(FirstOf) - 1 : n = InMonth(i)
        BY <1>5, <1>6, <1>8
    <2>2. Month(At(n, h)) = i
        BY <1>4, <2>1
    <2>3. n - FirstOf[i] + 1 = k.day
        BY <1>1, <1>3, <2>1
    <2> QED BY <1>10, <2>2, <2>3 DEF IsPoint, h
<1>12. ASSUME NEW p \in t + 1 .. Horizon["refresh"], IsPoint(k, p) PROVE At(n, h) <= p
    <2>1. p \in 0 .. Horizon["refresh"] /\ p \in Int /\ t < p
        BY UtilAssumption
    <2>2. p = At(Day(p), h) /\ Day(p) - FirstOf[Month(p)] + 1 = k.day /\ Day(p) \in Int
        BY <1>12, <2>1, DayOf DEF IsPoint, h
    <2>3. Month(p) \in 1 .. Len(FirstOf) - 1
        BY <2>1, InCalendar, MonthOf, Firsts
    <2>4. Day(p) = InMonth(Month(p))
        <3>1. FirstOf[Month(p)] \in Int /\ k.day \in Int
            BY <1>1, <1>3, <2>3
        <3> QED BY <2>2, <3>1
    <2>5. n <= Day(p) \/ Day(p) < Day(t) \/ (Day(p) = Day(t) /\ h <= Hour(t))
        BY <1>9, <2>3, <2>4
    <2> QED BY <1>1, <1>8, <2>1, <2>2, <2>5, ByDay
<1> QED BY <1>7, <1>10, <1>11, <1>12 DEF IsNext, h

\* A point has passed since t exactly if CheckCanRefresh says so.
LEMMA CheckIsRight ==
    ASSUME NEW k \in Kinds, NEW l \in 0 .. Horizon["refresh"],
           NEW t \in 0 .. Horizon["refresh"], l <= t
    PROVE  CheckCanRefresh(k, l, t) <=> \E p \in l + 1 .. t : IsPoint(k, p)
<1> DEFINE x == NextDate(k, l)
<1>1. IsNext(k, l, x)
    <2>1. k.every \in {"day", "week", "weekday", "month"}
        BY KindFacts
    <2> QED BY <2>1, NextDay, NextWeek, NextMonday, NextMonth DEF NextDate
<1>2. l \in Int /\ t \in Int /\ Horizon["refresh"] \in Int
    BY UtilAssumption
<1>3. CheckCanRefresh(k, l, t) <=> l < t /\ t >= x
    BY DEF CheckCanRefresh
<1> HIDE DEF x
<1> QED BY <1>1, <1>2, <1>3 DEF IsNext

----------------------------------------------------------------------------
(* Refreshes.                                                               *)

RefreshInv ==
    part = "refresh" =>
        /\ kind \in Kinds /\ last \in 0 .. now /\ now \in 0 .. Horizon["refresh"]
        /\ passed <=> \E p \in last + 1 .. now : IsPoint(kind, p)

LEMMA RefreshInit == Init => RefreshInv
<1> SUFFICES ASSUME Init, part = "refresh" PROVE RefreshInv
    BY DEF RefreshInv
<1>1. At(7, 0) = 14 * HoursOfDay /\ At(7, 0) \in Nat
    BY UtilAssumption DEF At
<1>2. kind \in Kinds /\ now \in 0 .. At(7, 0) /\ last = now /\ passed = FALSE
    BY DEF Init
<1>3. now \in 0 .. Horizon["refresh"] /\ now \in Nat /\ last + 1 .. now = {}
    BY <1>1, <1>2, UtilAssumption
<1> QED BY <1>2, <1>3 DEF RefreshInv

LEMMA RefreshStep == RefreshInv /\ [Next]_vars => RefreshInv'
<1> SUFFICES ASSUME RefreshInv, [Next]_vars, part' = "refresh" PROVE RefreshInv'
    BY DEF RefreshInv
<1>1. ASSUME UNCHANGED <<part, now, kind, last, passed>> PROVE RefreshInv'
    BY <1>1 DEF RefreshInv
<1>2. part = "refresh"
    BY DEF Next, vars, Tick, Refresh, TestCoolDown, Draw, PickSlice
<1>3. /\ kind \in Kinds /\ last \in Nat /\ last <= now /\ now \in Nat /\ now <= Horizon["refresh"]
      /\ passed <=> \E p \in last + 1 .. now : IsPoint(kind, p)
      /\ Horizon["refresh"] \in Nat
    BY <1>2, UtilAssumption DEF RefreshInv
<1>4. CASE Tick
    <2>1. /\ kind' = kind /\ last' = last /\ now' = now + 1 /\ now < Horizon["refresh"]
          /\ passed' <=> (passed \/ IsPoint(kind, now'))
        BY <1>2, <1>4 DEF Tick
    <2>2. now' \in 0 .. Horizon["refresh"] /\ last' \in 0 .. now'
        BY <1>3, <2>1
    <2>3. last' + 1 .. now' = (last + 1 .. now) \cup {now'}
        BY <1>3, <2>1
    <2>4. passed' <=> \E p \in last' + 1 .. now' : IsPoint(kind', p)
        BY <1>3, <2>1, <2>3
    <2> QED BY <1>3, <2>1, <2>2, <2>4 DEF RefreshInv
<1>5. CASE Refresh
    <2>1. kind' = kind /\ now' = now /\ last' = now /\ passed' = FALSE
        BY <1>5 DEF Refresh
    <2>2. last' + 1 .. now' = {} /\ last' \in 0 .. now' /\ now' \in 0 .. Horizon["refresh"]
        BY <1>3, <2>1
    <2> QED BY <1>3, <2>1, <2>2 DEF RefreshInv
<1>6. CASE TestCoolDown \/ Draw \/ PickSlice
    BY <1>2, <1>6 DEF TestCoolDown, Draw, PickSlice
<1>7. CASE UNCHANGED vars
    BY <1>1, <1>7 DEF vars, refreshVars
<1> QED BY <1>4, <1>5, <1>6, <1>7 DEF Next

\* The present lies in the week that began last, and the functions that count
\* days agree with the one that looks for the next.
LEMMA DatesAgree ==
    ASSUME NEW t \in Int, NEW h \in Hours
    PROVE  /\ \A w \in 0 .. 6 :
                GetCurrentWeekDate(t, w, h) <= t /\ t < GetNextWeekDate(t, w, h)
           /\ \A n \in Int : GetNowToDayTime(t, n, h) = GetNextDayDate(t, h) + At(n - 1, 0)
           /\ GetRefreshDayDate(t, h) < t
           /\ GetRefreshNextDayDate(t, h) = GetNextDayDate(t, h)
<1>1. Day(t) \in Int /\ Hour(t) \in Int /\ h \in Int
    BY DayOf DEF Hours
<1>2. ASSUME NEW w \in 0 .. 6
      PROVE  GetCurrentWeekDate(t, w, h) <= t /\ t < GetNextWeekDate(t, w, h)
    <2> DEFINE d == w - Weekday(t)
               n == Day(t) + (IF d < 0 \/ (d = 0 /\ Hour(t) >= h) THEN d + 7 ELSE d)
    <2>1. GetNextWeekDate(t, w, h) = At(n, h)
        BY DEF GetNextWeekDate
    <2>2. n \in Int /\ (Day(t) < n \/ (Day(t) = n /\ Hour(t) < h))
        BY <1>1 DEF Weekday
    <2>3. n - 7 \in Int /\ (n - 7 < Day(t) \/ (n - 7 = Day(t) /\ h <= Hour(t)))
        BY <1>1 DEF Weekday
    <2> HIDE DEF n
    <2>4. GetCurrentWeekDate(t, w, h) = At(n - 7, h)
        <3>1. 7 \in Int
            OBVIOUS
        <3>2. At(n, h) - At(7, 0) = At(n - 7, h)
            BY <2>2, <3>1, AtPlus, Zenon
        <3> QED BY <2>1, <3>2 DEF GetCurrentWeekDate
    <2> QED BY <2>1, <2>2, <2>3, <2>4, AtOrder
<1>3. /\ At(Day(t), h) > t <=> Hour(t) < h
      /\ t < At(Day(t), h) <=> Hour(t) < h
      /\ At(Day(t), h) \in Int
    BY <1>1, AtOrder
<1>4. ASSUME NEW n \in Int PROVE GetNowToDayTime(t, n, h) = GetNextDayDate(t, h) + At(n - 1, 0)
    <2>1. n - 1 \in Int /\ Day(t) + 1 \in Int
        BY <1>1
    <2>2. At(Day(t), h) + At(n - 1, 0) = At(Day(t) + (n - 1), h)
        BY <1>1, <2>1, AtPlus, Zenon
    <2>3. At(Day(t) + 1, h) + At(n - 1, 0) = At(Day(t) + 1 + (n - 1), h)
        BY <2>1, AtPlus, Zenon
    <2>4. Day(t) + 1 + (n - 1) = Day(t) + n
        BY <1>1
    <2> QED BY <1>3, <2>2, <2>3, <2>4 DEF GetNowToDayTime, GetNextDayDate
<1>5. 1 \in Int /\ At(Day(t), h) + At(1, 0) = At(Day(t) + 1, h)
      /\ At(Day(t), h) - At(1, 0) = At(Day(t) - 1, h)
    <2>1. 1 \in Int
        OBVIOUS
    <2> QED BY <1>1, <2>1, AtPlus, Zenon
<1>6. GetRefreshDayDate(t, h) < t
    <2>1. At(Day(t) - 1, h) < t
        <3>1. Day(t) - 1 \in Int /\ Day(t) - 1 < Day(t) /\ Day(t) - 1 # Day(t)
            BY <1>1
        <3>2. At(Day(t) - 1, h) \in Int /\ At(Day(t) - 1, h) <= t
            BY <3>1, AtOrder
        <3>3. Day(At(Day(t) - 1, h)) = Day(t) - 1
            BY <3>1, DayAt
        <3> QED BY <3>1, <3>2, <3>3
    <2>2. CASE t > At(Day(t), h)
        BY <2>2 DEF GetRefreshDayDate
    <2>3. CASE ~(t > At(Day(t), h))
        BY <1>5, <2>1, <2>3 DEF GetRefreshDayDate
    <2> QED BY <2>2, <2>3
<1>7. GetRefreshNextDayDate(t, h) = GetNextDayDate(t, h)
    BY <1>3, <1>5 DEF GetRefreshNextDayDate, GetNextDayDate
<1> QED BY <1>2, <1>4, <1>6, <1>7

\* A refresh point is neither missed nor used twice, whatever the calendar,
\* the kind of point and the instants the program asks at, and the date
\* functions agree with each other (CheckCanRefreshByHours and its kind).
THEOREM RefreshesAreDue == Spec => []RefreshIsDue
<1>1. RefreshInv => RefreshIsDue
    <2> SUFFICES ASSUME RefreshInv, part = "refresh" PROVE RefreshIsDue
        BY DEF RefreshIsDue
    <2>1. /\ kind \in Kinds /\ last \in 0 .. now /\ now \in 0 .. Horizon["refresh"]
          /\ passed <=> \E p \in last + 1 .. now : IsPoint(kind, p)
        BY DEF RefreshInv
    <2>2. now \in Int /\ last \in 0 .. Horizon["refresh"] /\ last <= now
        BY <2>1, UtilAssumption
    <2>3. CheckCanRefresh(kind, last, now) <=> passed
        BY <2>1, <2>2, CheckIsRight
    <2>4. 1 .. 2 \subseteq Int
        OBVIOUS
    <2> QED BY <2>2, <2>3, <2>4, DatesAgree DEF RefreshIsDue
<1> QED BY <1>1, RefreshInit, RefreshStep, PTL DEF Spec

----------------------------------------------------------------------------
(* The cool-down.                                                           *)

\* The calls let through are in order; the present period begins with the
\* last but Count of them.  The one before it began at most countLimit + 1
\* calls earlier, and more than timeCycle before.
Periods ==
    /\ now \in Nat /\ BeginTime \in Nat /\ Count \in 0 .. countLimit
    /\ calls \in Seq(Nat)
    /\ \A i \in 1 .. Len(calls) : calls[i] <= now
    /\ \A i, j \in 1 .. Len(calls) : i <= j => calls[i] <= calls[j]
    /\ IF calls = <<>> THEN Count = 0 /\ now - BeginTime > timeCycle
       ELSE Count < Len(calls) /\ calls[Len(calls) - Count] = BeginTime
    /\ \A i \in 1 .. Len(calls) :
        i + Count + countLimit < Len(calls) => calls[i] + timeCycle < BeginTime

\* Of 2 * countLimit + 2 calls the first and the last are not in one cycle.
Spread ==
    \A i, j \in 1 .. Len(calls) :
        i + 2 * countLimit + 1 = j => calls[i] + timeCycle < calls[j]

CoolInv == part = "cooldown" => Periods /\ Spread

LEMMA CoolInit == Init => CoolInv
<1> SUFFICES ASSUME Init, part = "cooldown" PROVE Periods /\ Spread
    BY DEF CoolInv
<1>1. now = timeCycle + 1 /\ BeginTime = 0 /\ Count = 0 /\ calls = <<>>
    BY DEF Init
<1>2. timeCycle \in Nat /\ countLimit \in Nat /\ 1 .. Len(<<>>) = {} /\ <<>> \in Seq(Nat)
    BY UtilAssumption
<1> QED BY <1>1, <1>2 DEF Periods, Spread

LEMMA Called ==
    ASSUME Periods, Spread, part = "cooldown", TestCoolDown
    PROVE  Periods' /\ Spread'
<1> DEFINE n == Len(calls)
           L == countLimit
           c == timeCycle
<1>1. L \in Nat /\ c \in Nat
    BY UtilAssumption
<1>2. /\ now \in Nat /\ BeginTime \in Nat /\ Count \in 0 .. L /\ n \in Nat
      /\ calls \in Seq(Nat)
      /\ \A i \in 1 .. n : calls[i] \in Nat /\ calls[i] <= now
      /\ \A i, j \in 1 .. n : i <= j => calls[i] <= calls[j]
      /\ \A i \in 1 .. n : i + Count + L < n => calls[i] + c < BeginTime
      /\ \A i, j \in 1 .. n : i + 2 * L + 1 = j => calls[i] + c < calls[j]
    BY DEF Periods, Spread
<1>3. IF n = 0 THEN Count = 0 /\ now - BeginTime > c
      ELSE Count < n /\ calls[n - Count] = BeginTime
    BY DEF Periods
<1>4. now' = now /\ calls' = Append(calls, now)
    BY DEF TestCoolDown
<1>5. Len(calls') = n + 1 /\ calls' \in Seq(Nat) /\ calls' # <<>>
    BY <1>2, <1>4
<1>6. calls'[n + 1] = now /\ \A i \in 1 .. n : calls'[i] = calls[i]
    BY <1>2, <1>4
<1>7. \/ now - BeginTime > c /\ BeginTime' = now /\ Count' = 0
      \/ now - BeginTime <= c /\ Count < L /\ Count' = Count + 1 /\ BeginTime' = BeginTime
    BY <1>1, <1>2 DEF TestCoolDown
<1> DEFINE s == calls'
<1> HIDE DEF n, L, c, s
<1>8. /\ Len(s) = n + 1 /\ s[n + 1] = now
      /\ \A i \in 1 .. n + 1 : i # n + 1 => i \in 1 .. n /\ s[i] = calls[i]
    BY <1>2, <1>5, <1>6 DEF s
<1>9. \A i \in 1 .. n + 1 : s[i] \in Nat /\ s[i] <= now
    BY <1>2, <1>8
<1>10. ASSUME NEW i \in 1 .. n + 1, NEW j \in 1 .. n + 1, i <= j PROVE s[i] <= s[j]
    <2>1. CASE j = n + 1
        BY <1>8, <1>9, <2>1
    <2>2. CASE j # n + 1
        <3>1. i # n + 1
            BY <1>2, <1>10, <2>2
        <3> QED BY <1>2, <1>8, <1>10, <2>2, <3>1
    <2> QED BY <2>1, <2>2
<1>11. BeginTime' \in Nat /\ Count' \in 0 .. L
    BY <1>1, <1>2, <1>7
<1>12. Count' < n + 1 /\ s[n + 1 - Count'] = BeginTime'
    <2>1. CASE now - BeginTime > c
        BY <1>1, <1>2, <1>7, <1>8, <2>1
    <2>2. CASE now - BeginTime <= c
        <3>1. n # 0 /\ Count' = Count + 1 /\ BeginTime' = BeginTime
            BY <1>1, <1>2, <1>3, <1>7, <2>2
        <3>2. Count < n /\ calls[n - Count] = BeginTime /\ n - Count \in 1 .. n
            BY <1>2, <1>3, <3>1
        <3>3. n + 1 - Count' = n - Count /\ n - Count \in 1 .. n + 1 /\ n - Count # n + 1
            BY <1>1, <1>2, <3>1, <3>2
        <3>4. s[n - Count] = calls[n - Count]
            BY <1>8, <3>3
        <3> QED BY <1>2, <1>1, <3>1, <3>2, <3>3, <3>4
    <2> QED BY <1>1, <1>2, <2>1, <2>2
<1>13. ASSUME NEW i \in 1 .. n + 1, i + Count' + L < n + 1
       PROVE  s[i] + c < BeginTime'
    <2>1. i \in 1 .. n /\ s[i] = calls[i]
        <3>2. n \in Nat /\ L \in Nat /\ Count' \in Nat
            BY <1>1, <1>2, <1>11
        <3>3. i + Count' + L < n + 1
            BY <1>13
        <3>4. \A k \in Nat : i + k + L < n + 1 => i # n + 1
            BY <3>2
        <3>1. i # n + 1
            BY <3>2, <3>3, <3>4
        <3> QED BY <1>8, <3>1
    <2>2. CASE now - BeginTime > c
        <3>1. n # 0 /\ Count < n /\ calls[n - Count] = BeginTime /\ n - Count \in 1 .. n
            BY <1>2, <1>3, <2>1
        <3>2. i <= n - Count
            BY <1>1, <1>2, <1>7, <1>13, <2>1, <2>2
        <3>3. calls[i] <= BeginTime
            BY <1>2, <2>1, <3>1, <3>2
        <3>4. calls[i] \in Nat /\ BeginTime' = now
            BY <1>1, <1>2, <1>7, <2>1, <2>2
        <3> QED BY <1>1, <1>2, <2>1, <2>2, <3>3, <3>4
    <2>3. CASE now - BeginTime <= c
        <3>1. Count' = Count + 1 /\ BeginTime' = BeginTime
            BY <1>1, <1>2, <1>7, <2>3
        <3>2. i + Count + L < n
            BY <1>1, <1>2, <1>13, <2>1, <3>1
        <3> QED BY <1>2, <2>1, <3>1, <3>2
    <2> QED BY <1>1, <1>2, <2>2, <2>3
<1>14. ASSUME NEW i \in 1 .. n + 1, NEW j \in 1 .. n + 1, i + 2 * L + 1 = j
       PROVE  s[i] + c < s[j]
    <2>1. i \in 1 .. n /\ s[i] = calls[i] /\ calls[i] \in Nat
        BY <1>1, <1>2, <1>8, <1>14
    <2>2. CASE j # n + 1
        BY <1>2, <1>8, <1>14, <2>1, <2>2
    <2>3. CASE j = n + 1 /\ now - BeginTime > c
        <3>1. n # 0 /\ Count < n /\ calls[n - Count] = BeginTime /\ n - Count \in 1 .. n
            BY <1>2, <1>3, <2>1
        <3>2. i <= n - Count
            BY <1>1, <1>2, <1>14, <2>1, <2>3
        <3>3. calls[i] <= BeginTime
            BY <1>2, <2>1, <3>1, <3>2
        <3> QED BY <1>1, <1>2, <1>8, <2>1, <2>3, <3>3
    <2>4. CASE j = n + 1 /\ now - BeginTime <= c
        <3>1. Count < L /\ n # 0 /\ Count < n /\ calls[n - Count] = BeginTime /\ n - Count \in 1 .. n
            BY <1>1, <1>2, <1>3, <1>7, <2>1, <2>4
        <3>2. i + Count + L < n
            BY <1>1, <1>2, <1>14, <2>1, <2>4, <3>1
        <3>3. calls[i] + c < BeginTime /\ BeginTime <= now
            BY <1>2, <2>1, <3>1, <3>2
        <3> QED BY <1>1, <1>2, <1>8, <2>1, <2>4, <3>3
    <2> QED BY <1>1, <1>2, <2>2, <2>3, <2>4
<1>15. Periods'
    <2>1. now' \in Nat /\ now' = now
        BY <1>2, <1>4
    <2>2. Len(calls') = n + 1 /\ calls' \in Seq(Nat) /\ calls' # <<>>
        BY <1>5
    <2>3. \A i, j \in 1 .. n + 1 : i <= j => s[i] <= s[j]
        BY <1>10
    <2>4. \A i \in 1 .. n + 1 : i + Count' + L < n + 1 => s[i] + c < BeginTime'
        BY <1>13
    <2>5. 1 .. Len(calls') = 1 .. n + 1 /\ Len(calls') - Count' = n + 1 - Count'
        BY <1>2, <1>11, <2>2
    <2>6. \A i \in 1 .. Len(calls') : calls'[i] <= now'
        BY <1>9, <2>1, <2>5 DEF s
    <2>7. \A i, j \in 1 .. Len(calls') : i <= j => calls'[i] <= calls'[j]
        BY <2>3, <2>5 DEF s
    <2>8. Count' < Len(calls') /\ calls'[Len(calls') - Count'] = BeginTime'
        BY <1>12, <2>2, <2>5 DEF s
    <2>9. \A i \in 1 .. Len(calls') :
            i + Count' + L < Len(calls') => calls'[i] + c < BeginTime'
        BY <2>2, <2>4, <2>5 DEF s
    <2> QED BY <2>1, <2>2, <2>6, <2>7, <2>8, <2>9, <1>11 DEF Periods, L, c
<1>16. Spread'
    BY <1>8, <1>14 DEF Spread, s, L, c
<1> QED BY <1>15, <1>16

LEMMA CoolStep == CoolInv /\ [Next]_vars => CoolInv'
<1> SUFFICES ASSUME CoolInv, [Next]_vars, part' = "cooldown" PROVE Periods' /\ Spread'
    BY DEF CoolInv
<1>1. part = "cooldown"
    BY DEF Next, vars, Tick, Refresh, TestCoolDown, Draw, PickSlice
<1>2. Periods /\ Spread
    BY <1>1 DEF CoolInv
<1>3. CASE Tick
    <2>1. now' = now + 1 /\ UNCHANGED <<BeginTime, Count, calls>>
        BY <1>3 DEF Tick, coolVars
    <2>2. now \in Nat /\ timeCycle \in Nat
        BY <1>2, UtilAssumption DEF Periods
    <2>3. \A i \in 1 .. Len(calls) : calls[i] \in Nat
        BY <1>2 DEF Periods
    <2>4. Spread'
        BY <1>2, <2>1 DEF Spread
    <2> QED BY <1>2, <2>1, <2>2, <2>3, <2>4 DEF Periods
<1>4. CASE TestCoolDown
    BY <1>1, <1>2, <1>4, Called
<1>5. CASE Refresh \/ Draw \/ PickSlice
    BY <1>1, <1>5 DEF Refresh, Draw, PickSlice
<1>6. CASE UNCHANGED vars
    BY <1>2, <1>6 DEF vars, coolVars, Periods, Spread
<1> QED BY <1>3, <1>4, <1>5, <1>6 DEF Next

\* A stretch of one cycle has at most 2 * countLimit + 1 calls: from the
\* first of them on, no later one lies in it.
LEMMA FewInACycle ==
    ASSUME Periods, Spread, NEW t \in Nat
    PROVE  CallsIn(t, t + timeCycle) <= 2 * countLimit + 1
<1> DEFINE n == Len(calls)
           L == countLimit
           c == timeCycle
           S == {i \in 1 .. n : t <= calls[i] /\ calls[i] <= t + c}
           R == OpToRel(<, Nat)
<1>1. L \in Nat /\ c \in Nat /\ n \in Nat
    BY UtilAssumption DEF Periods
<1>2. CallsIn(t, t + c) = Cardinality(S) /\ S \subseteq 1 .. n
    <2>1. DOMAIN calls = 1 .. n
        BY DEF Periods
    <2> QED BY <2>1 DEF CallsIn
<1>3. /\ \A i \in 1 .. n : calls[i] \in Nat
      /\ \A i, j \in 1 .. n : i <= j => calls[i] <= calls[j]
      /\ \A i, j \in 1 .. n : i + 2 * L + 1 = j => calls[i] + c < calls[j]
    BY DEF Periods, Spread
<1>4. CASE S = {}
    BY <1>1, <1>2, <1>4, FS_EmptySet
<1>5. CASE S # {}
    <2>1. IsWellFoundedOn(R, Nat)
        BY NatLessThanWellFounded
    <2>2. \A x, y \in Nat : x < y => <<x, y>> \in R
        BY DEF OpToRel
    <2> HIDE DEF n, L, c, R
    <2>3. S \subseteq Nat
        BY <1>2
    <2>4. PICK m \in S : \A i \in S : ~(<<i, m>> \in R)
        BY <1>5, <2>1, <2>3, WFMin
    <2>5. m \in 1 .. n /\ t <= calls[m] /\ \A i \in S : m <= i
        <3>1. m \in 1 .. n /\ t <= calls[m]
            BY <2>4
        <3> HIDE DEF S
        <3>2. \A i \in S : i \in Nat /\ m \in Nat /\ ~(i < m)
            BY <2>2, <2>3, <2>4
        <3>3. \A i \in S : m <= i
            BY <3>2
        <3> QED BY <3>1, <3>3
    <2>6. ASSUME NEW i \in S PROVE i <= m + 2 * L
        <3>1. i \in 1 .. n /\ calls[i] <= t + c
            OBVIOUS
        <3> DEFINE j == m + 2 * L + 1
        <3>2. SUFFICES ASSUME j <= i PROVE FALSE
            BY <1>1, <2>5, <3>1
        <3>3. j \in 1 .. n /\ m + 2 * L + 1 = j
            BY <1>1, <2>5, <3>1, <3>2
        <3> HIDE DEF j
        <3>4. calls[m] + c < calls[j] /\ calls[j] <= calls[i]
            BY <1>3, <2>5, <3>1, <3>2, <3>3
        <3> QED BY <1>1, <1>3, <2>5, <3>1, <3>3, <3>4
    <2>7. S \subseteq m .. m + 2 * L
        BY <2>3, <2>5, <2>6, <1>1
    <2>8. /\ IsFiniteSet(m .. m + 2 * L)
          /\ Cardinality(m .. m + 2 * L) = 2 * L + 1
        <3>1. m \in Int /\ m + 2 * L \in Int /\ m <= m + 2 * L
            BY <1>1, <2>5
        <3> QED BY <1>1, <3>1, FS_Interval
    <2>9. IsFiniteSet(S) /\ Cardinality(S) <= Cardinality(m .. m + 2 * L)
        BY <2>7, <2>8, FS_Subset
    <2> QED BY <1>2, <2>8, <2>9 DEF L, c
<1> QED BY <1>4, <1>5

\* When a call is refused, the calls of the present period are all in the
\* cycle that ends now.
LEMMA RefusedAfterMany ==
    ASSUME Periods, now - BeginTime <= timeCycle, Count >= countLimit
    PROVE  CallsIn(now - timeCycle, now) > countLimit
<1> DEFINE n == Len(calls)
           L == countLimit
           c == timeCycle
           S == {i \in 1 .. n : now - c <= calls[i] /\ calls[i] <= now}
<1>1. L \in Nat /\ c \in Nat /\ n \in Nat /\ now \in Nat /\ BeginTime \in Nat
    BY UtilAssumption DEF Periods
<1>2. CallsIn(now - c, now) = Cardinality(S) /\ S \subseteq 1 .. n
    <2>1. DOMAIN calls = 1 .. n
        BY DEF Periods
    <2> QED BY <2>1 DEF CallsIn
<1>3. Count = L /\ Count < n /\ calls[n - Count] = BeginTime
    BY <1>1 DEF Periods
<1>4. /\ \A i \in 1 .. n : calls[i] \in Nat /\ calls[i] <= now
      /\ \A i, j \in 1 .. n : i <= j => calls[i] <= calls[j]
    BY DEF Periods
<1>5. n - L .. n \subseteq S
    <2> SUFFICES ASSUME NEW i \in n - L .. n PROVE i \in S
        OBVIOUS
    <2>1. i \in 1 .. n /\ n - L \in 1 .. n /\ n - L <= i
        BY <1>1, <1>3
    <2>2. BeginTime <= calls[i]
        BY <1>3, <1>4, <2>1
    <2> QED BY <1>1, <1>4, <2>1, <2>2
<1> HIDE DEF n, L, c, S
<1>6. IsFiniteSet(S)
    <2>1. IsFiniteSet(1 .. n)
        BY <1>1, FS_Interval
    <2> QED BY <1>2, <2>1, FS_Subset
<1>7. Cardinality(n - L .. n) = L + 1
    <2>1. n - L \in Int /\ n \in Int /\ n - L <= n
        BY <1>1
    <2> QED BY <1>1, <2>1, FS_Interval
<1>8. Cardinality(n - L .. n) <= Cardinality(S) /\ Cardinality(S) \in Nat
    BY <1>5, <1>6, FS_Subset, FS_CardinalityType
<1> QED BY <1>1, <1>2, <1>7, <1>8 DEF L, c

\* What CoolDown.TestCoolDown keeps of the limit its comment states: wherever
\* periods begin, no stretch of a cycle lets through more than twice the limit
\* and one, a bound that is reached, and nobody is refused whose last cycle did
\* not have more calls than the limit.
THEOREM CoolDownAlwaysHolds == Spec => []CoolDownHolds
<1>1. CoolInv => CoolDownHolds
    <2> SUFFICES ASSUME Periods, Spread PROVE CoolDownHolds
        BY DEF CoolInv, CoolDownHolds
    <2>1. \A t \in 0 .. now : t \in Nat
        BY DEF Periods
    <2> QED BY <2>1, FewInACycle, RefusedAfterMany DEF CoolDownHolds
<1> QED BY <1>1, CoolInit, CoolStep, PTL DEF Spec
=============================================================================
