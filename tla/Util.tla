--------------------------------- MODULE Util ---------------------------------
(***************************************************************************)
(* Algorithms of common/util, each in the smallest program that uses it:   *)
(* a refresh at a fixed hour of each day, week or month; a cool-down; the  *)
(* draw of several values by weight; the choice of elements of a slice.    *)
(* The first step of a behaviour has chosen which.                         *)
(*                                                                         *)
(* Instants are half hours, so that an hour has a beginning and a rest;    *)
(* a day has HoursOfDay hours.  Day 0 is a Sunday and begins a month.      *)
(***************************************************************************)
EXTENDS Integers, Sequences, FiniteSets, SequencesExt, FiniteSetsExt

CONSTANTS
    HoursOfDay,                 \* the calendar
    FirstOf,                    \* month -> its first day
    EveryDay,                   \* the last day of the month that every month has
    Horizon,                    \* bound: the last instants
    timeCycle, countLimit,      \* of the cool-down
    Weights,                    \* weight lists to draw from
    Slices, Picked              \* slices, and the elements pickFun takes

\* Starts anywhere in the first week, and an end before the last month but
\* one; weights are positive.
ASSUME UtilAssumption ==
    /\ HoursOfDay \in Nat \ {0}
    /\ Horizon \in [{"refresh", "cooldown"} -> Nat]
    /\ EveryDay \in Nat \ {0}
    /\ FirstOf \in Seq(Nat) /\ Len(FirstOf) > 2 /\ FirstOf[1] = 0
    /\ \A m, n \in DOMAIN FirstOf : m < n => FirstOf[m] + EveryDay <= FirstOf[n]
    /\ Horizon["refresh"] >= 14 * HoursOfDay
    /\ Horizon["refresh"] < 2 * HoursOfDay * FirstOf[Len(FirstOf) - 1]
    /\ timeCycle \in Nat /\ countLimit \in Nat
    /\ Weights \subseteq Seq(Nat \ {0})
    /\ \A s \in Slices : s \in Seq(ToSet(s))

VARIABLES
    part,       \* what is used: "refresh", "cooldown", "draw", "pick"
    now,        \* the clock
    kind, last, passed,         \* a refresh, the last one, a point since then
    BeginTime, Count, calls,    \* a cool-down; instants of the calls let through
    weights, sum, left, drawn,  \* a draw: what is left, what was drawn
    slice, result               \* a choice

refreshVars == <<kind, last, passed>>
coolVars    == <<BeginTime, Count, calls>>
drawVars    == <<weights, sum, left, drawn>>
pickVars    == <<slice, result>>
vars == <<part, now, refreshVars, coolVars, drawVars, pickVars>>

----------------------------------------------------------------------------
(* Dates (time.Time).                                                       *)

Day(t)     == t \div (2 * HoursOfDay)
Hour(t)    == (t % (2 * HoursOfDay)) \div 2
At(d, h)   == 2 * (d * HoursOfDay + h)
Weekday(t) == Day(t) % 7

Month(t) == CHOOSE m \in 1 .. Len(FirstOf) - 1 :
                FirstOf[m] <= Day(t) /\ Day(t) < FirstOf[m + 1]
\* time.Date and AddDate take a day after the end of a month for one of the next.
Date(m, day, h) == At(FirstOf[m] + day - 1, h)

GetNextDayDate(t, h) ==
    LET t1 == At(Day(t), h) IN IF t1 > t THEN t1 ELSE At(Day(t) + 1, h)

\* The beginning of the hour belongs to the week before.
Mut_GetNextWeekDate(t, weekday, h) ==
    LET d == weekday - Weekday(t)
        offset == IF d < 0 \/ (d = 0 /\ Hour(t) > h) THEN d + 7 ELSE d IN
        At(Day(t) + offset, h)

GetNextWeekDate(t, weekday, h) ==
    LET d == weekday - Weekday(t)
        offset == IF d < 0 \/ (d = 0 /\ Hour(t) >= h) THEN d + 7 ELSE d IN
        At(Day(t) + offset, h)

GetCurrentWeekDate(t, weekday, h) == GetNextWeekDate(t, weekday, h) - At(7, 0)

\* The week begins on Monday; a Sunday is six days after it, whatever
\* weekday is asked for.
GetNextWeekDay(t, weekday, h) ==
    LET t1 == At(Day(t) + (IF Weekday(t) = 0 THEN -6 ELSE weekday - Weekday(t)), h) IN
        IF t1 > t THEN t1 ELSE t1 + At(7, 0)

GetNextMonthDate(t, day, h) ==
    LET t1 == Date(Month(t), day, h)
        m1 == Month(t1) IN
        IF t1 > t THEN t1 ELSE Date(m1 + 1, Day(t1) - FirstOf[m1] + 1, h)

GetRefreshDayDate(t, h) ==
    LET t1 == At(Day(t), h) IN IF t > t1 THEN t1 ELSE t1 - At(1, 0)

GetRefreshNextDayDate(t, h) ==
    LET t1 == At(Day(t), h) IN IF t < t1 THEN t1 ELSE t1 + At(1, 0)

GetNowToDayTime(t, durationDay, h) ==
    At(Day(t) + (IF Hour(t) < h THEN durationDay - 1 ELSE durationDay), h)

NextDate(k, t) ==
    CASE k.every = "day"     -> GetNextDayDate(t, k.hour)
      [] k.every = "week"    -> GetNextWeekDate(t, k.weekday, k.hour)
      [] k.every = "weekday" -> GetNextWeekDay(t, k.weekday, k.hour)
      [] k.every = "month"   -> GetNextMonthDate(t, k.day, k.hour)

\* CheckCanRefreshByHours, ByHoursForWeek, ByHoursForMonth, CheckCanDoWeekRefresh.
CheckCanRefresh(k, t1, t2) == t1 < t2 /\ t2 >= NextDate(k, t1)

Hours     == 0 .. HoursOfDay - 1
Monday    == 1
Kinds ==
    [every : {"day"}, hour : Hours] \cup
    [every : {"week"}, weekday : 0..6, hour : Hours] \cup
    [every : {"weekday"}, weekday : {Monday}, hour : Hours] \cup
    [every : {"month"}, day : 1..EveryDay, hour : Hours]

IsPoint(k, t) ==
    /\ t = At(Day(t), k.hour)
    /\ k.every \in {"week", "weekday"} => Weekday(t) = k.weekday
    /\ k.every = "month" => Day(t) - FirstOf[Month(t)] + 1 = k.day

\* The program that refreshes: it may ask at any time.
Refresh ==
    /\ part = "refresh" /\ CheckCanRefresh(kind, last, now)
    /\ last' = now /\ passed' = FALSE
    /\ UNCHANGED <<part, now, kind, coolVars, drawVars, pickVars>>

Tick ==
    /\ part \in DOMAIN Horizon /\ now < Horizon[part] /\ now' = now + 1
    /\ passed' = (part = "refresh" /\ (passed \/ IsPoint(kind, now')))
    /\ UNCHANGED <<part, kind, last, coolVars, drawVars, pickVars>>

----------------------------------------------------------------------------
(* CoolDown.                                                                *)

\* A new period goes on with the number of the last.
Mut_TestCoolDown ==
    /\ part = "cooldown"
    /\ IF now - BeginTime > timeCycle
       THEN BeginTime' = now /\ UNCHANGED Count
       ELSE Count < countLimit /\ Count' = Count + 1 /\ UNCHANGED BeginTime
    /\ calls' = Append(calls, now)
    /\ UNCHANGED <<part, now, refreshVars, drawVars, pickVars>>

\* The call that begins a period is not counted.
TestCoolDown ==
    /\ part = "cooldown"
    /\ IF now - BeginTime > timeCycle
       THEN BeginTime' = now /\ Count' = 0
       ELSE Count < countLimit /\ Count' = Count + 1 /\ UNCHANGED BeginTime
    /\ calls' = Append(calls, now)
    /\ UNCHANGED <<part, now, refreshVars, drawVars, pickVars>>

CallsIn(t1, t2) == Cardinality({i \in DOMAIN calls : t1 <= calls[i] /\ calls[i] <= t2})

----------------------------------------------------------------------------
(* Drawing by weight.                                                       *)

Total(s) == FoldSeq(LAMBDA a, b : a + b, 0, s)

Orders(S) == {f \in [1..Cardinality(S) -> S] : IsInjective(f)}

\* What the total weight is of what may still be drawn.
Mut_SumWithout(i) == sum

SumWithout(i) == sum - weights[i]

\* The first element at which the weights so far are more than rand: the
\* order is the one of the list, or for RandomByWeightAdv any.
Hit(order, rand) ==
    SelectInSeq([n \in 1..Len(order) |-> Total([i \in 1..n |-> weights[order[i]]])],
                LAMBDA w : w > rand)

\* RandomValueByFixedWeight, as RandomMultiValueByFixedWeight calls it when
\* no value may come twice, and a turn of RandomByWeightAdv and of
\* RandomByWeightAdvWithAdjust.  The weights are positive; a number above
\* all of them draws nothing.
Draw ==
    /\ part = "draw"
    /\ \E order \in Orders(left), rand \in 0 .. sum - 1 :
        LET i == order[Hit(order, rand)] IN
            /\ Hit(order, rand) # 0
            /\ left' = left \ {i} /\ drawn' = Append(drawn, i)
            /\ sum' = SumWithout(i)
    /\ UNCHANGED <<part, now, weights, refreshVars, coolVars, pickVars>>

----------------------------------------------------------------------------
(* PickSlice: elements are chosen within the slice, from both ends.         *)

PickFrom(slc) ==
    LET n == Len(slc)
        Pick[p \in [s : [1..n -> ToSet(slc)], leftPos : 1 .. n + 1, rightPos : 0..n]] ==
            LET found == {r \in p.leftPos .. p.rightPos : p.s[r] \in Picked} IN
            IF p.leftPos > p.rightPos THEN SubSeq(p.s, 1, p.rightPos)
            ELSE IF p.s[p.leftPos] \in Picked THEN Pick[[p EXCEPT !.leftPos = @ + 1]]
            ELSE IF found = {} THEN SubSeq(p.s, 1, p.leftPos - 1)
            ELSE Pick[[p EXCEPT !.s[p.leftPos] = p.s[Max(found)],
                                !.leftPos = @ + 1, !.rightPos = Max(found) - 1]]
    IN Pick[[s |-> slc, leftPos |-> 1, rightPos |-> n]]

Copies(s, e) == Cardinality({n \in DOMAIN s : s[n] = e})

PickSlice ==
    /\ part = "pick" /\ part' = "picked"
    /\ result' = PickFrom(slice)
    /\ UNCHANGED <<now, slice, refreshVars, coolVars, drawVars>>

----------------------------------------------------------------------------

Init ==
    /\ part \in {"refresh", "cooldown", "draw", "pick"}
    /\ IF part = "refresh" THEN kind \in Kinds /\ now \in 0 .. At(7, 0)
       ELSE kind = [every |-> "none"] /\ now = timeCycle + 1
    /\ last = now /\ passed = FALSE
    /\ BeginTime = 0 /\ Count = 0 /\ calls = <<>>
    /\ weights \in IF part = "draw" THEN Weights ELSE {<<>>}
    /\ left = DOMAIN weights /\ drawn = <<>> /\ sum = Total(weights)
    /\ slice \in IF part = "pick" THEN Slices ELSE {<<>>}
    /\ result = <<>>

Next == Tick \/ Refresh \/ TestCoolDown \/ Draw \/ PickSlice

Spec == Init /\ [][Next]_vars

----------------------------------------------------------------------------
(* Properties.                                                              *)

\* Whenever the program asks, it may refresh exactly if a refresh point has
\* passed since it last did (CheckCanRefreshByHours and its kind): a point is
\* never missed, whatever day or hour it is asked on, and never used twice.
\* The present is in the week that began last; the n-th point from now is
\* the one n - 1 days after the next.
RefreshIsDue ==
    part = "refresh" =>
        /\ CheckCanRefresh(kind, last, now) <=> passed
        /\ \A h \in Hours, wd \in 0..6 :
            GetCurrentWeekDate(now, wd, h) <= now /\ now < GetNextWeekDate(now, wd, h)
        /\ \A h \in Hours, n \in 1..2 :
            GetNowToDayTime(now, n, h) = GetNextDayDate(now, h) + At(n - 1, 0)
        /\ \A h \in Hours :
            /\ GetRefreshDayDate(now, h) < now
            /\ GetRefreshNextDayDate(now, h) = GetNextDayDate(now, h)

\* What TestCoolDown keeps of the limit, which is not what its comment says (see
\* CoolDownLimit): the call that begins a period is not counted, and the calls
\* at the end of one period and in the next are not added up.  So a caller is
\* refused only after more than countLimit calls within timeCycle, and no stretch
\* of that length lets through more than countLimit of one period and
\* countLimit + 1 of the next.
CoolDownHolds ==
    part = "cooldown" =>
        /\ \A t \in 0..now : CallsIn(t, t + timeCycle) <= 2 * countLimit + 1
        /\ now - BeginTime <= timeCycle /\ Count >= countLimit
            => CallsIn(now - timeCycle, now) > countLimit

\* No draw is in vain as long as something is left, each element left may be
\* the next, and PickSlice keeps all the elements chosen and no other,
\* although it overwrites the slice it reads.
ChoiceIsComplete ==
    /\ part = "draw" =>
        /\ \A order \in Orders(left), rand \in 0 .. sum - 1 : Hit(order, rand) # 0
        /\ \A i \in left : \E order \in Orders(left), rand \in 0 .. sum - 1 :
                order[Hit(order, rand)] = i
    /\ part = "picked" =>
        \A e \in ToSet(slice) \cup ToSet(result) :
            Copies(result, e) = IF e \in Picked THEN Copies(slice, e) ELSE 0

----------------------------------------------------------------------------
(* What a comment of the code says; it is refuted by a run.                 *)

\* At most countLimit operations are let through in a stretch shorter than
\* timeCycle; with a limit of one, one operation per timeCycle
\* (comment of TestCoolDown, cooldown.go 13-15).
CoolDownLimit ==
    part = "cooldown" =>
        \A t \in 0..now : CallsIn(t, t + timeCycle - 1) <= countLimit
=============================================================================
