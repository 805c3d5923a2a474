----------------------------- MODULE MCBanners -----------------------------
EXTENDS Banners, TLC

CONSTANTS r1, r2

TwoReqs == {r1, r2}

Day(y, m, d) == [year |-> y, month |-> m, day |-> d, hour |-> Absent, zone |-> Absent]
Hour(y, m, d, h, z) == [year |-> y, month |-> m, day |-> d, hour |-> h, zone |-> z]

Create(from, to) == [kind |-> "create", publish_start_at |-> from, publish_end_at |-> to,
                     is_active |-> TRUE]
Change(from, to, active) == [kind |-> "update", id |-> 1, publish_start_at |-> from,
                             publish_end_at |-> to, is_active |-> active]
RemoveIt == [kind |-> "remove", id |-> 1]
List == [kind |-> "findActive"]

\* The turn of the year 2023 in Seoul is 2023-12-31T15:00Z.
NewYear == parseSeoulDateTime(Day(2024, 1, 1))
Banner == [publish_start_at |-> NewYear, publish_end_at |-> NewYear + 1,
           is_active |-> TRUE, deleted |-> FALSE]
OneBanner == {[b \in BannerId |-> IF b = 1 THEN Banner ELSE Null]}

\* First and last days of months and years, leap years and not, and dates
\* that do not exist.
Dates ==
    {Day(2023, 2, 28), Day(2023, 2, 29), Day(2024, 2, 30), Day(1900, 2, 29), Day(2000, 2, 29),
     Day(2023, 4, 30), Day(2023, 4, 31), Day(2023, 12, 31), Day(2023, 12, 32), Day(2023, 13, 1),
     Day(2023, 0, 31), Day(2023, 1, 0), Day(99, 1, 1), Day(100, 3, 1), Day(0, 2, 29),
     Day(9999, 12, 31), Hour(2024, 2, 28, 23, Absent), Hour(2024, 2, 28, 24, Absent)}

RaceForms ==
    {List, RemoveIt, Create(Hour(2023, 12, 31, 14, 0), Hour(2024, 1, 1, 1, 9)),
     Create(Hour(2024, 1, 1, 0, 24), Day(2024, 1, 2)),
     Change(Day(2024, 1, 1), Hour(2024, 1, 1, 2, Absent), TRUE),
     Change(Day(2023, 12, 31), Day(2024, 1, 1), TRUE),
     Change(Day(2023, 12, 31), Day(2025, 1, 1), FALSE),
     Change(Day(2024, 1, 1), Day(2024, 1, 1), TRUE)}

AllForms == RaceForms \cup {Create(d, Day(2024, 2, 29)) : d \in Dates}

\* The hours before the turns of months and years, and the middle of one.
Hours ==
    {NewYear - 2, parseSeoulDateTime(Day(2024, 2, 29)) + 22,
     parseSeoulDateTime(Day(2023, 3, 1)) - 2, parseSeoulDateTime(Day(2024, 4, 30)) + 22,
     parseSeoulDateTime(Day(2026, 7, 16))}

ReqSymmetry == Permutations(TwoReqs)
=============================================================================
