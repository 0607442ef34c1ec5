------------------------------ MODULE CronTime ------------------------------
\* The calendar of cron triggers (core/src/cron.ts): an expression is a set of
\* values per field, and nextCronTime walks a UTC calendar forward, a month, a day,
\* an hour or a minute at a time, to the first minute that matches all of them.
\*
\* The calendar here is the code's, smaller: DaysIn gives the days of each month of
\* some years that repeat, one of which may be a leap year, a year has Months of them,
\* a week has Week days, a day Hours, an hour Minutes.  An instant is a number of half
\* minutes, so that a start may lie inside a minute.
EXTENDS Naturals, FiniteSets, Sequences

CONSTANTS DaysIn, Months, Week, Hours, Minutes,
          Limit,      \* FIVE_YEARS_MS, in days
          Starts,     \* the instants asked about
          Items       \* Items[f]: the lists of entries a field f is written as

Fields == {"minute", "hour", "dom", "month", "dow"}
First(f) == IF f \in {"dom", "month"} THEN 1 ELSE 0
Longest  == CHOOSE d \in {DaysIn[m] : m \in DOMAIN DaysIn} :
                \A m \in DOMAIN DaysIn : DaysIn[m] <= d
\* FIELDS: the greatest value of each; a week's last day is written twice.
Last(f) == CASE f = "minute" -> Minutes - 1 [] f = "hour" -> Hours - 1
             [] f = "dom" -> Longest [] f = "month" -> Months [] f = "dow" -> Week

VARIABLES
    text,       \* text[f]: the entries of the field
    after,      \* afterMs, in half minutes
    t,          \* the walk's position, in minutes
    pc,         \* "idle", "walk", "found", "never"
    invalid     \* the expression was refused

vars == <<text, after, t, pc, invalid>>

----------------------------------------------------------------------------
\* The expression.  An entry is *, a value or a range, each with a step; 0 is no
\* step at all.

Range(f, e) ==
    CASE e.kind = "any"   -> [from |-> First(f), to |-> Last(f)]
      [] e.kind = "range" -> [from |-> e.from, to |-> e.to]
      [] e.kind = "value" -> [from |-> e.from,
                              to |-> IF e.step = 0 THEN e.from ELSE Last(f)]

Stride(e) == IF e.step = 0 THEN 1 ELSE e.step

BadEntry(f, e) ==
    LET r == Range(f, e)
    IN  r.from < First(f) \/ r.to > Last(f) \/ r.from > r.to

\* parseField; the week's last day is its first.
Values(f, entries) ==
    LET all == UNION {LET r == Range(f, e) IN
                        {v \in r.from..r.to : (v - r.from) % Stride(e) = 0} : e \in entries}
    IN  IF f = "dow" /\ Week \in all THEN (all \ {Week}) \cup {0} ELSE all

Set(f) == Values(f, text[f])
\* Whether a day field is written as a bare *.
Any(f) == text[f] = {[kind |-> "any", from |-> 0, to |-> 0, step |-> 0]}

----------------------------------------------------------------------------
\* The calendar.

PerDay  == Hours * Minutes
Until   == LET sum[m \in 0..Len(DaysIn)] == IF m = 0 THEN 0 ELSE sum[m - 1] + DaysIn[m]
           IN  sum
Cycle   == Until[Len(DaysIn)]

Day(u)     == u \div PerDay
OfCycle(u) == Day(u) % Cycle
\* The month an instant lies in, among those of all the years, and its number.
Place(u) == CHOOSE m \in 1..Len(DaysIn) : Until[m - 1] <= OfCycle(u) /\ OfCycle(u) < Until[m]
MonthOf(u) == ((Place(u) - 1) % Months) + 1
DateOf(u)  == OfCycle(u) - Until[Place(u) - 1] + 1
HourOf(u) == (u % PerDay) \div Minutes

\* Faulty variant: the two day fields as a conjunction.
BothDaysMatch(u) == DateOf(u) \in Set("dom") /\ Day(u) % Week \in Set("dow")
\* Either day field is enough when neither is *.
DayMatches(u) ==
    LET dom == DateOf(u) \in Set("dom")
        dow == Day(u) % Week \in Set("dow")
    IN  CASE Any("dom") /\ Any("dow")   -> TRUE
          [] Any("dom") /\ ~Any("dow")  -> dow
          [] ~Any("dom") /\ Any("dow")  -> dom
          [] ~Any("dom") /\ ~Any("dow") -> dom \/ dow

Matches(u) ==
    /\ MonthOf(u) \in Set("month")
    /\ DayMatches(u)
    /\ HourOf(u) \in Set("hour")
    /\ u % Minutes \in Set("minute")

\* Faulty variant: a month is left by its length, and not at its end.
NextMonthByLength(u) == u + DaysIn[Place(u)] * PerDay
\* Faulty variant: the next month of the last one is sought in the same year.
NextMonthStays(u) == IF MonthOf(u) = Months THEN (Day(u) - (DateOf(u) - 1)) * PerDay
                     ELSE (Day(u) - (DateOf(u) - 1) + DaysIn[Place(u)]) * PerDay
\* Date.UTC of the first minute of the next month, day, hour.
NextMonth(u) == (Day(u) - (DateOf(u) - 1) + DaysIn[Place(u)]) * PerDay
NextDay(u)   == (Day(u) + 1) * PerDay
NextHour(u)  == Day(u) * PerDay + (HourOf(u) + 1) * Minutes

----------------------------------------------------------------------------

Init == /\ text = [f \in Fields |-> {}]
        /\ after = 0 /\ t = 0 /\ pc = "idle" /\ invalid = FALSE

\* parseCron, and the minute the walk begins at.
Ask ==
    /\ pc = "idle"
    /\ text' \in {x \in [Fields -> UNION {Items[f] : f \in Fields}] :
                    \A f \in Fields : x[f] \in Items[f]}
    /\ after' \in Starts
    /\ invalid' = \E f \in Fields : \E e \in text'[f] : BadEntry(f, e)
    /\ t' = (after' \div 2) + 1
    /\ pc' = IF invalid' THEN "never" ELSE "walk"

Inside == 2 * t <= after + 2 * Limit * PerDay

Step ==
    IF MonthOf(t) \notin Set("month") THEN NextMonth(t)
    ELSE IF ~DayMatches(t) THEN NextDay(t)
    ELSE IF HourOf(t) \notin Set("hour") THEN NextHour(t)
    ELSE t + 1

Walk ==
    /\ pc = "walk"
    /\ IF Inside THEN IF Matches(t) THEN pc' = "found" /\ t' = t
                      ELSE pc' = "walk" /\ t' = Step
       ELSE pc' = "never" /\ t' = t
    /\ UNCHANGED <<text, after, invalid>>

Next == Ask \/ Walk
Spec == Init /\ [][Next]_vars /\ WF_vars(Walk)

----------------------------------------------------------------------------

TypeOK ==
    /\ \A f \in Fields : text[f] \in Items[f] \cup {{}}
    /\ after \in Starts \cup {0} /\ t \in Nat
    /\ pc \in {"idle", "walk", "found", "never"} /\ invalid \in BOOLEAN

\* What an expression says of a minute, of which the walk knows only jumps.
Says(u) ==
    /\ MonthOf(u) \in Set("month") /\ HourOf(u) \in Set("hour") /\ u % Minutes \in Set("minute")
    /\ \/ \A f \in {"dom", "dow"} : Any(f)
       \/ \E f \in {"dom", "dow"} :
            ~Any(f) /\ (IF f = "dom" THEN DateOf(u) ELSE Day(u) % Week) \in Set(f)

\* nextCronTime gives the first minute strictly after the start that the expression
\* names, and refuses only an expression that names none until the limit: whatever
\* the walk jumps over held no match.
FirstMatchIsFound ==
    LET passed == {u \in (after \div 2) + 1 .. (after \div 2) + Limit * PerDay : u < t \/ pc = "never"}
    IN  pc \in {"walk", "found", "never"} /\ ~invalid =>
            /\ 2 * t > after
            /\ pc = "found" => Says(t)
            /\ \A u \in passed : ~Says(u)

\* The walk ends, on a match or at the limit.
WalkEnds == pc = "walk" ~> pc # "walk"

\* The walk finds the first match, and it ends.
CalendarIsWalked ==
    /\ [](TypeOK /\ FirstMatchIsFound)
    /\ WalkEnds
=============================================================================
