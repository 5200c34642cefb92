---------------------------- MODULE RuleCalendar ----------------------------
(* The date arithmetic a weekly rule is laid out with.  A week has          *)
(* DaysPerWeek days (seven in the code) and a day SlotsPerDay points of     *)
(* time; an instant counts those points from the first midnight.  A rule's  *)
(* slot is [day, time, len], an entry's place is [date, time, len].         *)
EXTENDS Integers, FiniteSets

CONSTANTS DaysPerWeek, SlotsPerDay, LastDate,
          DEFAULT_WEEKS,      \* the generator's rolling window, in occurrences
          CheckLead           \* how long before its start a class's check falls

ASSUME CalendarAssumption ==
    /\ DaysPerWeek \in Nat \ {0} /\ SlotsPerDay \in Nat \ {0}
    /\ DEFAULT_WEEKS \in Nat \ {0} /\ LastDate \in Nat /\ CheckLead \in Nat

Dates == 0..LastDate
mondayOf(date) == date \div DaysPerWeek
classStartInstant(date, time) == date * SlotsPerDay + time
DateOf(instant) == instant \div SlotsPerDay

\* The first n members of a set of dates.
FirstOf(S, n) == {d \in S : Cardinality({c \in S : c < d}) < n}

\* The next `weeks` dates on the slot's weekday, the date of `from` included.
getNextOccurrences(slot, from, weeks) ==
    {d \in Dates : /\ d % DaysPerWeek = slot.day
                   /\ d \in DateOf(from)..(DateOf(from) + weeks * DaysPerWeek - 1)}

Ahead(S, slot, from) == {d \in S : classStartInstant(d, slot.time) > from}

\* What one run of the generator looks at, and what an edit's prediction does.
Window(slot, from) ==
    FirstOf(Ahead(getNextOccurrences(slot, from, DEFAULT_WEEKS + 1), slot, from), DEFAULT_WEEKS)
probeHorizon(slot, at) == Ahead(getNextOccurrences(slot, at, DEFAULT_WEEKS * 2), slot, at)

\* The pre-check compares times of day on one date; the database's exclusion
\* compares spans, so only the latter sees an entry that runs past midnight.
spansOverlap(a, b) == a.time < b.time + b.len /\ b.time < a.time + a.len
SpansMeet(a, b) ==
    /\ classStartInstant(a.date, a.time) < classStartInstant(b.date, b.time) + b.len
    /\ classStartInstant(b.date, b.time) < classStartInstant(a.date, a.time) + a.len

PlaceOf(slot, date) == [date |-> date, time |-> slot.time, len |-> slot.len]
SlotsMeet(s, t) == s.day = t.day /\ spansOverlap(s, t)

isPastCancelCheck(slot, date, at) == at >= classStartInstant(date, slot.time) - CheckLead
=============================================================================
