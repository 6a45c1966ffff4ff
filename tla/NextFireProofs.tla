--------------------------- MODULE NextFireProofs ---------------------------
(***************************************************************************)
(* Proofs about the calendar and about the next moment of a schedule, for    *)
(* every schedule that passes the checks, every moment since 1970 and every   *)
(* offset of the time zone.                                                  *)
(***************************************************************************)
EXTENDS NextFire, WellFoundedInduction, TLAPS

-----------------------------------------------------------------------------
(***************************************************************************)
(* The calendar: years follow one another without a gap, and so do the        *)
(* months of a year.                                                        *)
(***************************************************************************)
Years == {y \in Nat : y >= 1970}

FirstOf(y, m) == DayNumber(y, m, 1)

\* A leap day more after every leap year.
LEMMA LeapsStep ==
    ASSUME NEW y \in Nat, y >= 1
    PROVE  Leaps(y) = Leaps(y - 1) + IF IsLeap(y) THEN 1 ELSE 0
BY DEF Leaps, IsLeap

\* At most one in a year.
LEMMA LeapsRange ==
    ASSUME NEW y \in Nat, y >= 1969
    PROVE  Leaps(y) - Leaps(1969) \in 0..y - 1969
BY DEF Leaps

\* Their number hardly ever falls behind.
LEMMA LeapsFar ==
    ASSUME NEW y \in Nat, NEW z \in Nat, y <= z
    PROVE  Leaps(z) - Leaps(y) >= 0 - 3
BY DEF Leaps

LEMMA LeapsType == \A y \in Int : Leaps(y) \in Int
BY DEF Leaps

\* The first day of a year.
LEMMA YearStarts ==
    ASSUME NEW y \in Years
    PROVE  /\ FirstOf(y, 1) \in Int
           /\ FirstOf(y, 1) = 365 * (y - 1970) + Leaps(y - 1) - Leaps(1969)
           /\ 365 * (y - 1970) <= FirstOf(y, 1)
           /\ FirstOf(y, 1) <= 366 * (y - 1970)
<1>1. FirstOf(y, 1) = 365 * (y - 1970) + Leaps(y - 1) - Leaps(1969)
    BY LeapsType DEF FirstOf, DayNumber, Before, Years
<1>2. Leaps(y - 1) - Leaps(1969) \in 0..y - 1970
    BY LeapsRange DEF Years
<1>3. QED BY <1>1, <1>2, LeapsType DEF Years

\* The first day of a month, and the length of the month.
LEMMA MonthStarts ==
    ASSUME NEW y \in Years, NEW m \in 1..12
    PROVE  /\ FirstOf(y, m) \in Int
           /\ DaysIn(y, m) \in 28..31
           /\ FirstOf(y, m) = FirstOf(y, 1) + Before[m] + IF m > 2 /\ IsLeap(y) THEN 1 ELSE 0
<1>1. Before[m] \in Nat /\ Before[1] = 0
    BY DEF Before
<1>2. DaysIn(y, m) \in 28..31
    BY DEF DaysIn
<1>3. QED BY <1>1, <1>2, LeapsType DEF FirstOf, DayNumber, Years

\* A day of a month counts from the first.
LEMMA DayOfMonth ==
    ASSUME NEW y \in Years, NEW m \in 1..12, NEW d \in Int
    PROVE  DayNumber(y, m, d) = FirstOf(y, m) + d - 1
<1>1. Before[m] \in Nat
    BY DEF Before
<1>2. QED BY <1>1, LeapsType DEF FirstOf, DayNumber, Years

\* A month ends where the next begins.
LEMMA MonthEnds ==
    ASSUME NEW y \in Years, NEW m \in 1..12
    PROVE  FirstOf(y, m) + DaysIn(y, m) =
              IF m = 12 THEN FirstOf(y + 1, 1) ELSE FirstOf(y, m + 1)
<1>1. /\ FirstOf(y, 1) \in Int /\ FirstOf(y + 1, 1) \in Int
      /\ FirstOf(y + 1, 1) = FirstOf(y, 1) + 365 + IF IsLeap(y) THEN 1 ELSE 0
    <2>1. y + 1 \in Years /\ y \in Nat /\ y >= 1
        BY DEF Years
    <2>2. Leaps(y) = Leaps(y - 1) + IF IsLeap(y) THEN 1 ELSE 0
        BY <2>1, LeapsStep
    <2>3. /\ FirstOf(y, 1) = 365 * (y - 1970) + Leaps(y - 1) - Leaps(1969)
          /\ FirstOf(y + 1, 1) = 365 * (y - 1969) + Leaps(y) - Leaps(1969)
          /\ FirstOf(y, 1) \in Int /\ FirstOf(y + 1, 1) \in Int
        BY <2>1, YearStarts
    <2>4. Leaps(y) \in Int /\ Leaps(y - 1) \in Int /\ Leaps(1969) \in Int
        BY <2>1, LeapsType
    <2>5. QED BY <2>1, <2>2, <2>3, <2>4
<1>2. \A k \in 1..12 : FirstOf(y, k) = FirstOf(y, 1) + Before[k]
                                          + IF k > 2 /\ IsLeap(y) THEN 1 ELSE 0
    BY MonthStarts
<1>3. CASE m = 12
    BY <1>1, <1>2, <1>3 DEF DaysIn, Before
<1>4. CASE m # 12
    <2>1. Before[m + 1] = Before[m] + (CASE m \in {4, 6, 9, 11} -> 30
                                         [] m = 2 -> 28
                                         [] OTHER -> 31)
        BY <1>4 DEF Before
    <2>2. m + 1 \in 1..12 /\ Before[m] \in Nat /\ Before[m + 1] \in Nat
        BY <1>4 DEF Before
    <2>3. /\ FirstOf(y, m) = FirstOf(y, 1) + Before[m] + IF m > 2 /\ IsLeap(y) THEN 1 ELSE 0
          /\ FirstOf(y, m + 1) = FirstOf(y, 1) + Before[m + 1]
                                    + IF m + 1 > 2 /\ IsLeap(y) THEN 1 ELSE 0
        BY <1>2, <2>2
    <2>4. QED BY <1>1, <1>4, <2>1, <2>2, <2>3 DEF DaysIn
<1>5. QED BY <1>3, <1>4

\* An earlier month ends before a later one begins.
LEMMA MonthsOfAYear ==
    ASSUME NEW y \in Years, NEW m \in 1..12
    PROVE  /\ FirstOf(y, 1) <= FirstOf(y, m)
           /\ FirstOf(y, m) + DaysIn(y, m) <= FirstOf(y + 1, 1)
           /\ \A k \in 1..12 : m < k => FirstOf(y, m) + DaysIn(y, m) <= FirstOf(y, k)
<1>1. \A k \in 1..12 : /\ FirstOf(y, k) = FirstOf(y, 1) + Before[k]
                                          + IF k > 2 /\ IsLeap(y) THEN 1 ELSE 0
                       /\ FirstOf(y, k) \in Int /\ DaysIn(y, k) \in 28..31
    BY MonthStarts
<1>2. FirstOf(y, 12) + 31 = FirstOf(y + 1, 1)
    BY MonthEnds DEF DaysIn
<1>3. ASSUME NEW k \in 1..12, m < k
      PROVE  FirstOf(y, m) + DaysIn(y, m) <= FirstOf(y, k)
    <2>1. m # 12 /\ m + 1 \in 1..12
        BY <1>3
    <2>2. FirstOf(y, m) + DaysIn(y, m) = FirstOf(y, m + 1)
        BY <2>1, MonthEnds
    <2>3. Before[m + 1] <= Before[k] /\ Before[k] \in Nat /\ Before[m + 1] \in Nat
        BY <1>3, <2>1 DEF Before
    <2>4. /\ FirstOf(y, k) = FirstOf(y, 1) + Before[k] + IF k > 2 /\ IsLeap(y) THEN 1 ELSE 0
          /\ FirstOf(y, m + 1) = FirstOf(y, 1) + Before[m + 1]
                                    + IF m + 1 > 2 /\ IsLeap(y) THEN 1 ELSE 0
          /\ FirstOf(y, 1) \in Int
        BY <1>1, <2>1
    <2>5. FirstOf(y, m + 1) <= FirstOf(y, k)
        BY <1>3, <2>1, <2>3, <2>4
    <2>6. QED BY <2>2, <2>5
<1>4. FirstOf(y, m) + DaysIn(y, m) <= FirstOf(y + 1, 1)
    <2>1. CASE m = 12
        BY <1>1, <1>2, <2>1, MonthEnds
    <2>2. CASE m # 12
        <3>1. FirstOf(y, m) + DaysIn(y, m) <= FirstOf(y, 12)
            BY <1>3, <2>2
        <3>2. FirstOf(y, 12) \in Int /\ FirstOf(y, m) + DaysIn(y, m) \in Int
            BY <1>1
        <3>3. FirstOf(y, 12) + 31 \in Int
            BY <3>2
        <3>4. QED BY <1>2, <3>1, <3>2
    <2>3. QED BY <2>1, <2>2
<1>5. FirstOf(y, 1) <= FirstOf(y, m)
    <2>1. Before[m] \in Nat
        BY DEF Before
    <2>2. QED BY <1>1, <2>1
<1>6. QED BY <1>3, <1>4, <1>5

\* An earlier year ends before a later one begins.
LEMMA YearsInOrder ==
    ASSUME NEW y \in Years, NEW z \in Years, y < z
    PROVE  FirstOf(y + 1, 1) + 365 * (z - y - 1) - 3 <= FirstOf(z, 1)
           /\ FirstOf(y + 1, 1) <= FirstOf(z, 1)
<1>1. y + 1 \in Years
    BY DEF Years
<1>2. /\ FirstOf(y + 1, 1) = 365 * (y - 1969) + Leaps(y) - Leaps(1969)
      /\ FirstOf(z, 1) = 365 * (z - 1970) + Leaps(z - 1) - Leaps(1969)
      /\ Leaps(y) \in Int /\ Leaps(z - 1) \in Int /\ Leaps(1969) \in Int
    BY <1>1, YearStarts, LeapsType DEF Years
<1>3. Leaps(z - 1) - Leaps(y) >= 0 - 3
    BY LeapsFar DEF Years
<1>4. CASE z = y + 1
    BY <1>1, <1>2, <1>4, YearStarts
<1>5. CASE z > y + 1
    BY <1>2, <1>3, <1>5 DEF Years
<1>6. QED BY <1>4, <1>5 DEF Years

-----------------------------------------------------------------------------
(***************************************************************************)
(* Every day belongs to a year and a month.                                  *)
(***************************************************************************)

\* A set of numbers above a bound has a least one.
LEMMA HasLeast ==
    ASSUME NEW t \in Int, NEW S, S \subseteq {u \in Int : u >= t}, S # {}
    PROVE  /\ Min(S) \in S
           /\ \A u \in S : Min(S) <= u
<1> DEFINE T == {k \in Nat : t + k \in S}
           R == OpToRel(<, Nat)
<1>1. T \subseteq Nat /\ T # {}
    <2>1. PICK u \in S : TRUE
        OBVIOUS
    <2>2. u - t \in Nat /\ t + (u - t) = u
        OBVIOUS
    <2>3. u - t \in T
        BY <2>1, <2>2
    <2>4. QED BY <2>3
<1>2. IsWellFoundedOn(R, Nat)
    BY NatLessThanWellFounded
<1> HIDE DEF R
<1>3. \E k \in T : \A j \in T : ~(<<j, k>> \in R)
    <2> HIDE DEF T
    <2>1. QED BY <1>1, <1>2, WFMin, Zenon
<1>4. PICK k \in T : \A j \in T : ~(<<j, k>> \in R)
    BY <1>3
<1>5. \A j \in T : ~(j < k)
    BY <1>4 DEF R, OpToRel
<1>6. t + k \in S /\ \A u \in S : t + k <= u
    <2>1. ASSUME NEW u \in S PROVE t + k <= u
        <3>1. u \in Int /\ u - t \in Nat /\ t + (u - t) = u /\ k \in Nat
            OBVIOUS
        <3>2. u - t \in T
            BY <3>1
        <3>3. ~(u - t < k)
            BY <1>5, <3>2
        <3>4. QED BY <3>1, <3>3
    <2>2. QED BY <2>1
<1>7. QED BY <1>6 DEF Min

\* The year that a day belongs to.
LEMMA YearOfADay ==
    ASSUME NEW n \in Nat
    PROVE  /\ YearOf(n) \in Years
           /\ FirstOf(YearOf(n), 1) <= n /\ n < FirstOf(YearOf(n) + 1, 1)
<1> DEFINE S == {y \in Years : n < FirstOf(y + 1, 1)}
           y == Min(S)
<1>1. S \subseteq {u \in Int : u >= 1970}
    BY DEF Years
<1>2. 1970 + n \in S
    <2>1. 1970 + n \in Years /\ 1970 + n + 1 \in Years
        BY DEF Years
    <2>2. 365 * ((1970 + n + 1) - 1970) <= FirstOf(1970 + n + 1, 1) /\ FirstOf(1970 + n + 1, 1) \in Int
        BY <2>1, YearStarts
    <2>3. QED BY <2>1, <2>2
<1>3. y \in S /\ \A z \in S : y <= z
    BY <1>1, <1>2, HasLeast
<1> HIDE DEF y
<1>4. y \in Years /\ y + 1 \in Years /\ n < FirstOf(y + 1, 1) /\ y \in Int
    BY <1>3 DEF Years
<1>5. FirstOf(y, 1) <= n
    <2>1. CASE y = 1970
        BY <1>4, <2>1, YearStarts
    <2>2. CASE y # 1970
        <3>1. y - 1 \in Years /\ ~(y <= y - 1) /\ (y - 1) + 1 = y
            BY <1>4, <2>2 DEF Years
        <3>2. y - 1 \notin S
            BY <1>3, <3>1
        <3>3. ~(n < FirstOf(y, 1)) /\ FirstOf(y, 1) \in Int
            BY <1>4, <3>1, <3>2, YearStarts
        <3>4. QED BY <3>3
    <2>3. QED BY <2>1, <2>2
<1>6. y \in 1970 + n \div 366..1970 + n \div 365
    <2>1. /\ 365 * (y - 1970) <= FirstOf(y, 1) /\ FirstOf(y, 1) \in Int
          /\ FirstOf(y + 1, 1) <= 366 * ((y + 1) - 1970) /\ FirstOf(y + 1, 1) \in Int
        BY <1>4, YearStarts
    <2>2. 365 * (y - 1970) <= n /\ n < 366 * (y + 1 - 1970)
        BY <1>4, <1>5, <2>1
    <2>3. QED BY <1>4, <2>2
<1>7. \E z \in 1970 + n \div 366..1970 + n \div 365 :
         DayNumber(z, 1, 1) <= n /\ n < DayNumber(z + 1, 1, 1)
    BY <1>4, <1>5, <1>6 DEF FirstOf
<1>8. /\ YearOf(n) \in 1970 + n \div 366..1970 + n \div 365
      /\ DayNumber(YearOf(n), 1, 1) <= n /\ n < DayNumber(YearOf(n) + 1, 1, 1)
    BY <1>7 DEF YearOf
<1>9. QED BY <1>8 DEF FirstOf, Years

\* There is no other.
LEMMA OneYear ==
    ASSUME NEW n \in Nat, NEW y \in Years, FirstOf(y, 1) <= n, n < FirstOf(y + 1, 1)
    PROVE  YearOf(n) = y
<1> DEFINE z == YearOf(n)
<1>1. z \in Years /\ FirstOf(z, 1) <= n /\ n < FirstOf(z + 1, 1)
    BY YearOfADay
<1> HIDE DEF z
<1>2. /\ y + 1 \in Years /\ z + 1 \in Years /\ y \in Int /\ z \in Int
      /\ FirstOf(y, 1) \in Int /\ FirstOf(y + 1, 1) \in Int
      /\ FirstOf(z, 1) \in Int /\ FirstOf(z + 1, 1) \in Int
    <2>1. y + 1 \in Years /\ z + 1 \in Years /\ y \in Int /\ z \in Int
        BY <1>1 DEF Years
    <2>2. QED BY <1>1, <2>1, YearStarts
<1>3. ~(y < z)
    <2>1. y < z => FirstOf(y + 1, 1) <= FirstOf(z, 1)
        BY <1>1, YearsInOrder
    <2>2. QED BY <1>1, <1>2, <2>1
<1>4. ~(z < y)
    <2>1. z < y => FirstOf(z + 1, 1) <= FirstOf(y, 1)
        BY <1>1, YearsInOrder
    <2>2. QED BY <1>1, <1>2, <2>1
<1>5. QED BY <1>2, <1>3, <1>4 DEF z

\* The month that a day belongs to.
InMonth(n, y, m) == FirstOf(y, m) <= n /\ n < FirstOf(y, m) + DaysIn(y, m)

LEMMA MonthOfADay ==
    ASSUME NEW n \in Nat
    PROVE  MonthOf(n) \in 1..12 /\ InMonth(n, YearOf(n), MonthOf(n))
<1> DEFINE y == YearOf(n)
<1>1. y \in Years /\ FirstOf(y, 1) <= n /\ n < FirstOf(y + 1, 1)
    BY YearOfADay
<1> HIDE DEF y
<1>2. \A m \in 1..12 : FirstOf(y, m) \in Int /\ DaysIn(y, m) \in 28..31
    BY <1>1, MonthStarts
<1>3. \E m \in 1..12 : InMonth(n, y, m)
    <2> DEFINE S == {m \in 1..12 : n < FirstOf(y, m) + DaysIn(y, m)}
               m == Min(S)
    <2>1. 12 \in S /\ S \subseteq {u \in Int : u >= 1}
        <3>1. FirstOf(y, 12) + DaysIn(y, 12) = FirstOf(y + 1, 1)
            BY <1>1, MonthEnds
        <3>2. QED BY <1>1, <3>1
    <2>2. m \in S /\ \A k \in S : m <= k
        BY <2>1, HasLeast
    <2> HIDE DEF m
    <2>3. m \in 1..12 /\ n < FirstOf(y, m) + DaysIn(y, m)
        BY <2>2
    <2>4. FirstOf(y, m) <= n
        <3>1. CASE m = 1
            BY <1>1, <3>1
        <3>2. CASE m # 1
            <4>1. m - 1 \in 1..12 /\ ~(m <= m - 1) /\ (m - 1) + 1 = m /\ m - 1 # 12
                BY <2>3, <3>2
            <4>2. ~(n < FirstOf(y, m - 1) + DaysIn(y, m - 1))
                BY <2>2, <4>1
            <4>3. FirstOf(y, m - 1) + DaysIn(y, m - 1) = FirstOf(y, m)
                BY <1>1, <4>1, MonthEnds
            <4>4. QED BY <1>2, <2>3, <4>2, <4>3
        <3>3. QED BY <3>1, <3>2
    <2>5. QED BY <2>3, <2>4 DEF InMonth
<1>4. \A m \in 1..12 : InMonth(n, y, m) <=> n - DayNumber(y, m, 1) \in 0..DaysIn(y, m) - 1
    BY <1>2 DEF InMonth, FirstOf
<1>5. MonthOf(n) = CHOOSE m \in 1..12 : n - DayNumber(y, m, 1) \in 0..DaysIn(y, m) - 1
    BY DEF MonthOf, y
<1>6. MonthOf(n) \in 1..12 /\ n - DayNumber(y, MonthOf(n), 1) \in 0..DaysIn(y, MonthOf(n)) - 1
    BY <1>3, <1>4, <1>5
<1>7. QED BY <1>4, <1>6 DEF y

\* There is no other.
LEMMA OneMonth ==
    ASSUME NEW n \in Nat, NEW y \in Years, NEW m \in 1..12, InMonth(n, y, m)
    PROVE  YearOf(n) = y /\ MonthOf(n) = m
<1>1. FirstOf(y, 1) <= n /\ n < FirstOf(y + 1, 1)
    <2>1. /\ FirstOf(y, 1) <= FirstOf(y, m)
          /\ FirstOf(y, m) + DaysIn(y, m) <= FirstOf(y + 1, 1)
        BY MonthsOfAYear
    <2>2. y + 1 \in Years
        BY DEF Years
    <2>3. /\ FirstOf(y, m) \in Int /\ DaysIn(y, m) \in 28..31
          /\ FirstOf(y, 1) \in Int /\ FirstOf(y + 1, 1) \in Int
        BY <2>2, MonthStarts, YearStarts
    <2>4. QED BY <2>1, <2>3 DEF InMonth
<1>2. YearOf(n) = y
    BY <1>1, OneYear
<1> DEFINE k == MonthOf(n)
<1>3. k \in 1..12 /\ InMonth(n, y, k)
    BY <1>2, MonthOfADay
<1> HIDE DEF k
<1>4. /\ FirstOf(y, m) \in Int /\ DaysIn(y, m) \in 28..31
      /\ FirstOf(y, k) \in Int /\ DaysIn(y, k) \in 28..31
    BY <1>3, MonthStarts
<1>5. ~(m < k)
    <2>1. m < k => FirstOf(y, m) + DaysIn(y, m) <= FirstOf(y, k)
        BY <1>3, MonthsOfAYear
    <2>2. QED BY <1>3, <1>4, <2>1 DEF InMonth
<1>6. ~(k < m)
    <2>1. k < m => FirstOf(y, k) + DaysIn(y, k) <= FirstOf(y, m)
        BY <1>3, MonthsOfAYear
    <2>2. QED BY <1>3, <1>4, <2>1 DEF InMonth
<1>7. QED BY <1>2, <1>3, <1>5, <1>6 DEF k

\* A later day is in no earlier month.
MonthNumber(n) == 12 * YearOf(n) + MonthOf(n) - 1

LEMMA MonthsInOrder ==
    ASSUME NEW n \in Nat, NEW p \in Nat, n <= p
    PROVE  YearOf(n) <= YearOf(p) /\ MonthNumber(n) <= MonthNumber(p)
<1> DEFINE y == YearOf(n)
           z == YearOf(p)
           m == MonthOf(n)
           k == MonthOf(p)
<1>1. /\ y \in Years /\ FirstOf(y, 1) <= n /\ n < FirstOf(y + 1, 1)
      /\ z \in Years /\ FirstOf(z, 1) <= p /\ p < FirstOf(z + 1, 1)
      /\ m \in 1..12 /\ InMonth(n, y, m) /\ k \in 1..12 /\ InMonth(p, z, k)
    BY YearOfADay, MonthOfADay
<1>2. MonthNumber(n) = 12 * y + m - 1 /\ MonthNumber(p) = 12 * z + k - 1
    BY DEF MonthNumber
<1> HIDE DEF y, z, m, k
<1>3. y \in Int /\ z \in Int /\ y + 1 \in Years /\ z + 1 \in Years
    BY <1>1 DEF Years
<1>4. /\ FirstOf(y, 1) \in Int /\ FirstOf(z + 1, 1) \in Int
      /\ FirstOf(y, m) \in Int /\ DaysIn(y, m) \in 28..31
      /\ FirstOf(z, k) \in Int /\ DaysIn(z, k) \in 28..31
    BY <1>1, <1>3, MonthStarts, YearStarts
<1>5. y <= z
    <2>1. z < y => FirstOf(z + 1, 1) <= FirstOf(y, 1)
        BY <1>1, YearsInOrder
    <2>2. QED BY <1>1, <1>3, <1>4, <2>1
<1>6. y = z => m <= k
    <2>1. y = z /\ k < m => FirstOf(y, k) + DaysIn(y, k) <= FirstOf(y, m)
        BY <1>1, MonthsOfAYear
    <2>2. QED BY <1>1, <1>4, <2>1 DEF InMonth
<1>7. QED BY <1>1, <1>2, <1>3, <1>5, <1>6 DEF y, z

-----------------------------------------------------------------------------
(***************************************************************************)
(* The days that the code looks at.                                         *)
(***************************************************************************)

\* A date that a month has is a day of it, and a day is the date it has.
LEMMA SafeDateIsADay ==
    ASSUME NEW y \in Years, NEW m \in 1..12, NEW d \in Int, NEW n \in SafeDate(y, m, d)
    PROVE  /\ n \in Nat /\ YearOf(n) = y /\ MonthOf(n) = m
           /\ n + 1 - DayNumber(y, m, 1) = d
<1>1. d \in 1..DaysIn(y, m) /\ n = FirstOf(y, m) + d - 1
    BY DayOfMonth DEF SafeDate
<1>2. /\ FirstOf(y, m) \in Int /\ DaysIn(y, m) \in 28..31
      /\ FirstOf(y, 1) \in Int /\ FirstOf(y, 1) <= FirstOf(y, m)
      /\ 365 * (y - 1970) <= FirstOf(y, 1) /\ y \in Nat /\ y >= 1970
    BY MonthStarts, YearStarts, MonthsOfAYear DEF Years
<1>3. n \in Nat /\ InMonth(n, y, m) /\ n + 1 - FirstOf(y, m) = d
    BY <1>1, <1>2 DEF InMonth
<1>4. QED BY <1>3, OneMonth DEF FirstOf

LEMMA DayIsASafeDate ==
    ASSUME NEW n \in Nat
    PROVE  /\ YearOf(n) \in Years /\ MonthOf(n) \in 1..12
           /\ n \in SafeDate(YearOf(n), MonthOf(n), n + 1 - DayNumber(YearOf(n), MonthOf(n), 1))
<1> DEFINE y == YearOf(n)
           m == MonthOf(n)
           d == n + 1 - FirstOf(y, m)
<1>1. y \in Years /\ m \in 1..12 /\ InMonth(n, y, m)
    BY YearOfADay, MonthOfADay
<1> HIDE DEF y, m
<1>2. FirstOf(y, m) \in Int /\ DaysIn(y, m) \in 28..31
    BY <1>1, MonthStarts
<1>3. d \in 1..DaysIn(y, m) /\ d \in Int /\ FirstOf(y, m) + d - 1 = n
    BY <1>1, <1>2 DEF InMonth
<1>4. n \in SafeDate(y, m, d)
    BY <1>1, <1>3, DayOfMonth DEF SafeDate
<1>5. QED BY <1>1, <1>4 DEF y, m, FirstOf

\* The months that are scanned: twelve in a row.
LEMMA MonthsScanned ==
    ASSUME NEW n \in Nat
    PROVE  /\ \A ym \in MonthsFrom(n) : ym[1] \in Years /\ ym[2] \in 1..12
           /\ \A y \in Years, m \in 1..12 :
                 <<y, m>> \in MonthsFrom(n) <=>
                    12 * y + m - 1 \in MonthNumber(n)..MonthNumber(n) + 11
<1> DEFINE z == YearOf(n)
           k == MonthOf(n)
<1>1. z \in Nat /\ z >= 1970 /\ k \in 1..12 /\ MonthNumber(n) = 12 * z + k - 1
    BY YearOfADay, MonthOfADay DEF Years, MonthNumber
<1>2. MonthsFrom(n) = {<<z + (k - 1 + i) \div 12, ((k - 1 + i) % 12) + 1>> : i \in 0..11}
    BY DEF MonthsFrom
<1> HIDE DEF z, k
<1>3. ASSUME NEW ym \in MonthsFrom(n) PROVE ym[1] \in Years /\ ym[2] \in 1..12
    <2>1. PICK i \in 0..11 : ym = <<z + (k - 1 + i) \div 12, ((k - 1 + i) % 12) + 1>>
        BY <1>2
    <2>2. z + (k - 1 + i) \div 12 \in Nat /\ z + (k - 1 + i) \div 12 >= 1970
          /\ ((k - 1 + i) % 12) + 1 \in 1..12
        BY <1>1
    <2>3. QED BY <2>1, <2>2 DEF Years
<1>4. ASSUME NEW y \in Years, NEW m \in 1..12,
             12 * y + m - 1 \in MonthNumber(n)..MonthNumber(n) + 11
      PROVE  <<y, m>> \in MonthsFrom(n)
    <2> DEFINE i == 12 * y + m - 1 - MonthNumber(n)
    <2>1. y \in Nat
        BY DEF Years
    <2>2. i \in 0..11 /\ k - 1 + i = 12 * (y - z) + m - 1
        BY <1>1, <1>4, <2>1
    <2>3. (k - 1 + i) \div 12 = y - z /\ (k - 1 + i) % 12 = m - 1
        BY <1>1, <2>1, <2>2
    <2> HIDE DEF i
    <2>4. z + (k - 1 + i) \div 12 = y /\ ((k - 1 + i) % 12) + 1 = m
        BY <1>1, <2>1, <2>3
    <2>5. QED BY <1>2, <2>2, <2>4
<1>5. ASSUME NEW y \in Years, NEW m \in 1..12, <<y, m>> \in MonthsFrom(n)
      PROVE  12 * y + m - 1 \in MonthNumber(n)..MonthNumber(n) + 11
    <2>1. PICK i \in 0..11 : y = z + (k - 1 + i) \div 12 /\ m = ((k - 1 + i) % 12) + 1
        BY <1>2, <1>5
    <2>2. y \in Nat
        BY DEF Years
    <2>3. QED BY <1>1, <2>1, <2>2
<1>6. QED BY <1>3, <1>4, <1>5

\* One of the months that are scanned, after the first, has every day.
HasItLater(n, d, y, m) ==
    /\ <<y, m>> \in MonthsFrom(n)
    /\ 12 * y + m - 1 > MonthNumber(n)
    /\ d \in 1..DaysIn(y, m)

LEMMA AMonthHasIt ==
    ASSUME NEW n \in Nat, NEW d \in 1..31
    PROVE  \E y \in Years, m \in 1..12 : HasItLater(n, d, y, m)
<1> DEFINE z == YearOf(n)
           k == MonthOf(n)
<1>1. z \in Nat /\ z >= 1970 /\ k \in 1..12 /\ MonthNumber(n) = 12 * z + k - 1
    BY YearOfADay, MonthOfADay DEF Years, MonthNumber
<1> HIDE DEF z, k
<1>2. ASSUME NEW y \in Years, NEW m \in 1..12, m \in {1, 3, 5, 7, 8, 10, 12},
             12 * y + m - 1 \in {MonthNumber(n) + 1, MonthNumber(n) + 2}
      PROVE  HasItLater(n, d, y, m)
    <2>1. DaysIn(y, m) = 31
        BY <1>2 DEF DaysIn
    <2>2. 12 * y + m - 1 \in MonthNumber(n)..MonthNumber(n) + 11
        BY <1>1, <1>2 DEF Years
    <2>3. <<y, m>> \in MonthsFrom(n)
        BY <2>2, MonthsScanned
    <2>4. 12 * y + m - 1 > MonthNumber(n)
        BY <1>1, <1>2 DEF Years
    <2>5. QED BY <2>1, <2>3, <2>4 DEF HasItLater
<1>3. z \in Years /\ z + 1 \in Years
    BY <1>1 DEF Years
<1>4. CASE k \in {1, 2, 3, 4, 5, 6, 7, 8, 9, 10}
    <2>1. PICK m \in {k + 1, k + 2} : m \in {3, 5, 7, 8, 10, 12}
        BY <1>4
    <2>2. 12 * z + m - 1 \in {MonthNumber(n) + 1, MonthNumber(n) + 2} /\ m \in 1..12
        BY <1>1, <2>1
    <2>3. QED BY <1>2, <1>3, <2>1, <2>2
<1>5. CASE k = 11
    <2>1. 12 * z + 12 - 1 = MonthNumber(n) + 1
        BY <1>1, <1>5
    <2>2. HasItLater(n, d, z, 12)
        BY <1>2, <1>3, <2>1
    <2>3. QED BY <1>3, <2>2
<1>6. CASE k = 12
    <2>1. 12 * (z + 1) + 1 - 1 = MonthNumber(n) + 1
        BY <1>1, <1>6
    <2>2. PICK y \in Years : y = z + 1
        BY <1>3
    <2>3. HasItLater(n, d, y, 1)
        BY <1>2, <2>1, <2>2
    <2>4. QED BY <2>3
<1>7. QED BY <1>1, <1>4, <1>5, <1>6

-----------------------------------------------------------------------------
(***************************************************************************)
(* The next moment, type by type.                                           *)
(***************************************************************************)

\* The moment of a schedule on a day, and the earliest on some days after t.
AtDay(s, o, n) == 24 * n + s.hour - o
OfDays(s, t, o, ns) == Earliest({u \in {AtDay(s, o, n) : n \in ns} : u > t})

Today(t, o) == (t + o) \div 24
FirstDay(s, t, o) == IF AtDay(s, o, Today(t, o)) > t THEN Today(t, o) ELSE Today(t, o) + 1

\* What the code computes for each type.
LEMMA NextOfType ==
    ASSUME NEW s \in AllSchedules, NEW t, NEW o
    PROVE  /\ s.type = "daily" => ComputeNextFire(s, t, o) = AtDay(s, o, FirstDay(s, t, o))
           /\ s.type = "weekly" => ComputeNextFire(s, t, o) = OfDays(s, t, o,
                 {n \in FirstDay(s, t, o)..FirstDay(s, t, o) + 6 : Weekday(n) \in s.days})
           /\ s.type = "monthly" => ComputeNextFire(s, t, o) = OfDays(s, t, o,
                 UNION {SafeDate(ym[1], ym[2], s.day) : ym \in MonthsFrom(Today(t, o))})
           /\ s.type = "yearly" => ComputeNextFire(s, t, o) = OfDays(s, t, o,
                 UNION {SafeDate(y, s.month, s.day) : y \in YearsFrom(Today(t, o))})
           /\ s.type = "custom_days" => ComputeNextFire(s, t, o) =
                 AtDay(s, o, IF AtDay(s, o, Today(t, o)) > t THEN Today(t, o)
                                                            ELSE Today(t, o) + s.interval)
<1>1. CASE s.type = "daily"
    BY <1>1 DEF ComputeNextFire, AtDay, FirstDay, Today
<1>2. CASE s.type = "weekly"
    BY <1>2 DEF ComputeNextFire, AtDay, FirstDay, Today, OfDays
<1>3. CASE s.type = "monthly"
    BY <1>3 DEF ComputeNextFire, AtDay, Today, OfDays
<1>4. CASE s.type = "yearly"
    BY <1>4 DEF ComputeNextFire, AtDay, Today, OfDays
<1>5. CASE s.type = "custom_days"
    BY <1>5 DEF ComputeNextFire, AtDay, Today
<1>6. QED BY <1>1, <1>2, <1>3, <1>4, <1>5

\* The earliest moment on some days is on one of them, and none of them has an
\* earlier one.
Found(s, t, o, next, ns) ==
    \/ next = Never /\ \A n \in ns : ~(AtDay(s, o, n) > t)
    \/ /\ next # Never /\ next > t
       /\ \E n \in ns : next = AtDay(s, o, n)
       /\ \A n \in ns : AtDay(s, o, n) > t => next <= AtDay(s, o, n)

LEMMA EarliestOfDays ==
    ASSUME NEW s \in AllSchedules, NEW t \in Int, NEW o \in Int, NEW ns, ns \subseteq Int
    PROVE  Found(s, t, o, OfDays(s, t, o, ns), ns)
<1> DEFINE S == {u \in {AtDay(s, o, n) : n \in ns} : u > t}
           next == OfDays(s, t, o, ns)
<1>1. next = Earliest(S)
    BY DEF OfDays
<1>2. \A n \in ns : AtDay(s, o, n) \in Int
    BY DEF AtDay, AllSchedules
<1>3. S \subseteq {u \in Int : u >= t}
    BY <1>2
<1>4. CASE S = {}
    <2>1. next = Never
        BY <1>1, <1>4 DEF Earliest
    <2>2. \A n \in ns : ~(AtDay(s, o, n) > t)
        BY <1>4
    <2>3. QED BY <2>1, <2>2 DEF Found
<1>5. CASE S # {}
    <2>1. next = Min(S)
        BY <1>1, <1>5 DEF Earliest
    <2>2. next \in S /\ \A u \in S : next <= u
        BY <1>3, <1>5, <2>1, HasLeast
    <2>3. next # Never
        BY <1>3, <2>2, InputsAssumption
    <2>4. \A n \in ns : AtDay(s, o, n) > t => next <= AtDay(s, o, n)
        BY <2>2
    <2>5. next > t /\ \E n \in ns : next = AtDay(s, o, n)
        BY <2>2
    <2>6. QED BY <2>3, <2>4, <2>5 DEF Found
<1>6. QED BY <1>4, <1>5

\* What is stored of a request with the parameters of its type.
LEMMA StoredIsASchedule ==
    ASSUME NEW s \in AllSchedules, s.type \in OfCalendar
    PROVE  LET kept == Stored(s.type, s.type, s)
           IN  /\ kept \in AllSchedules /\ kept.type = s.type /\ kept.hour = s.hour
               /\ s.type = "weekly" => kept.days = s.days
               /\ s.type \in {"monthly", "yearly"} => kept.day = s.day
               /\ s.type = "yearly" => kept.month = s.month
               /\ \A t, o : FirstFire(kept, t, o) = ComputeNextFire(kept, t, o)
BY DEF Stored, AllSchedules, OfCalendar, FirstFire

\* The day of a moment.
LEMMA DayOfMoment ==
    ASSUME NEW s \in AllSchedules, s.hour \in 0..23, NEW o \in Int, NEW n \in Int
    PROVE  /\ AtDay(s, o, n) \in Int
           /\ (AtDay(s, o, n) + o) \div 24 = n
           /\ (AtDay(s, o, n) + o) % 24 = s.hour
           /\ \A p \in Int : AtDay(s, o, n) <= AtDay(s, o, p) <=> n <= p
BY DEF AtDay

\* The first day whose moment is still to come: today or tomorrow.
LEMMA FirstDayIs ==
    ASSUME NEW s \in AllSchedules, s.hour \in 0..23, NEW t \in Nat, NEW o \in Int, t + o >= 0
    PROVE  /\ Today(t, o) \in Nat /\ FirstDay(s, t, o) \in {Today(t, o), Today(t, o) + 1}
           /\ \A n \in Int : n >= Today(t, o) /\ AtDay(s, o, n) > t => n >= FirstDay(s, t, o)
           /\ \A n \in Int : n >= FirstDay(s, t, o) => AtDay(s, o, n) > t
BY DEF AtDay, FirstDay, Today

\* No day is passed over that the schedule names and that comes before the one
\* that was found, or within 800 days when none was.
Reached(s, t, o, next, ns) ==
    \A n \in Int :
       (/\ n >= Today(t, o) /\ AtDay(s, o, n) > t /\ Names(s, n)
        /\ (next = Never => n <= Today(t, o) + 800)
        /\ (\A p \in ns : next = AtDay(s, o, p) => n <= p)) => n \in ns

\* Such a search among days that the schedule names finds the first moment.
LEMMA FirstIsFound ==
    ASSUME NEW s \in AllSchedules, s.type \in OfCalendar, s.hour \in 0..23,
           NEW t \in Nat, NEW o \in Int, t + o >= 0,
           NEW ns, \A n \in ns : n \in Int /\ Names(s, n),
           NEW next, next = FirstFire(Stored(s.type, s.type, s), t, o),
           Found(s, t, o, next, ns), Reached(s, t, o, next, ns)
    PROVE  FiresFirst(s, s.type, t, o)
<1> DEFINE day(u) == (u + o) \div 24
<1>1. ASSUME next # Never
      PROVE  /\ next > t /\ (next + o) % 24 = s.hour /\ Names(s, day(next))
             /\ \A p \in ns : next = AtDay(s, o, p) => day(next) = p
             /\ day(next) \in Int
    <2>1. PICK p \in ns : next = AtDay(s, o, p) /\ next > t
        BY <1>1 DEF Found
    <2>2. p \in Int /\ Names(s, p)
        OBVIOUS
    <2>3. day(next) = p /\ (next + o) % 24 = s.hour
        BY <2>1, <2>2, DayOfMoment
    <2>4. \A q \in ns : next = AtDay(s, o, q) => day(next) = q
        BY DayOfMoment
    <2>5. QED BY <2>1, <2>2, <2>3, <2>4
<1>2. ASSUME NEW n \in day(t)..(IF next = Never THEN day(t) + 800 ELSE day(next)), Names(s, n),
             24 * n + s.hour - o > t
      PROVE  next # Never /\ next <= 24 * n + s.hour - o
    <2>1. day(t) = Today(t, o) /\ Today(t, o) \in Nat
        BY FirstDayIs DEF Today
    <2>2. /\ n \in Int /\ n >= Today(t, o)
          /\ next = Never => n <= Today(t, o) + 800
          /\ next # Never => n <= day(next)
        BY <1>1, <1>2, <2>1
    <2>3. \A p \in ns : next = AtDay(s, o, p) => n <= p
        <3>1. \A p \in ns : AtDay(s, o, p) \in Int
            BY DayOfMoment
        <3>2. \A p \in ns : next = AtDay(s, o, p) => next # Never
            BY <3>1, InputsAssumption
        <3>3. QED BY <1>1, <2>2, <3>2
    <2>4. AtDay(s, o, n) > t
        BY <1>2 DEF AtDay
    <2>5. n \in ns
        BY <1>2, <2>2, <2>3, <2>4 DEF Reached
    <2>6. QED BY <2>4, <2>5 DEF Found, AtDay
<1>3. QED BY <1>1, <1>2 DEF FiresFirst

-----------------------------------------------------------------------------
\* Every day.
LEMMA DailyFires ==
    ASSUME NEW s \in AllSchedules, s.type = "daily", Accepted(s.type, s.type, s),
           NEW t \in Nat, NEW o \in Int, t + o >= 0
    PROVE  FiresFirst(s, s.type, t, o)
<1> DEFINE kept == Stored(s.type, s.type, s)
           first == FirstDay(s, t, o)
           next == FirstFire(kept, t, o)
<1>1. /\ s.type \in OfCalendar /\ s.hour \in 0..23
      /\ kept \in AllSchedules /\ kept.type = "daily" /\ kept.hour = s.hour
      /\ next = ComputeNextFire(kept, t, o)
    BY StoredIsASchedule DEF OfCalendar, Accepted
<1> HIDE DEF kept
<1>2. next = AtDay(s, o, first)
    <2>1. next = AtDay(kept, o, FirstDay(kept, t, o))
        BY <1>1, NextOfType
    <2>2. QED BY <1>1, <2>1 DEF AtDay, FirstDay
<1> HIDE DEF next
<1>3. first \in Int /\ AtDay(s, o, first) > t /\ AtDay(s, o, first) \in Int
    <2>1. first \in Int
        BY <1>1, FirstDayIs
    <2>2. AtDay(s, o, first) > t
        BY <1>1, <2>1, FirstDayIs
    <2>3. QED BY <1>1, <2>1, <2>2, DayOfMoment
<1> DEFINE ns == {first}
<1> HIDE DEF first
<1>4. Found(s, t, o, next, ns)
    <2>1. next # Never /\ next > t
        BY <1>2, <1>3, InputsAssumption
    <2>2. QED BY <1>2, <1>3, <2>1 DEF Found
<1>5. \A n \in ns : n \in Int /\ Names(s, n)
    BY <1>3 DEF Names
<1>6. Reached(s, t, o, next, ns)
    <2>1. ASSUME NEW n \in Int, n >= Today(t, o), AtDay(s, o, n) > t,
                 \A p \in ns : next = AtDay(s, o, p) => n <= p
          PROVE  n \in ns
        <3>1. n >= first
            BY <1>1, <2>1, FirstDayIs DEF first
        <3>2. n <= first
            BY <1>2, <2>1
        <3>3. QED BY <1>3, <3>1, <3>2
    <2>2. QED BY <2>1 DEF Reached
<1> HIDE DEF ns
<1>7. next = FirstFire(Stored(s.type, s.type, s), t, o)
    BY DEF kept, next
<1>8. QED BY <1>1, <1>4, <1>5, <1>6, <1>7, FirstIsFound

\* On some days of the week: seven days in a row have them all.
LEMMA WeeklyFires ==
    ASSUME NEW s \in AllSchedules, s.type = "weekly", Accepted(s.type, s.type, s),
           NEW t \in Nat, NEW o \in Int, t + o >= 0
    PROVE  FiresFirst(s, s.type, t, o)
<1> DEFINE kept == Stored(s.type, s.type, s)
           first == FirstDay(s, t, o)
           ns == {n \in first..first + 6 : Weekday(n) \in s.days}
           next == FirstFire(kept, t, o)
<1>1. /\ s.type \in OfCalendar /\ s.hour \in 0..23
      /\ s.days # {} /\ s.days \subseteq 0..6
      /\ kept \in AllSchedules /\ kept.type = "weekly" /\ kept.hour = s.hour
      /\ kept.days = s.days
      /\ next = ComputeNextFire(kept, t, o)
    BY StoredIsASchedule DEF OfCalendar, Accepted
<1> HIDE DEF kept
<1>2. first \in Nat /\ \A n \in Int : n >= first => AtDay(s, o, n) > t
    BY <1>1, FirstDayIs
<1>3. next = OfDays(s, t, o, ns)
    <2> HIDE DEF next
    <2>1. next = OfDays(kept, t, o, {n \in FirstDay(kept, t, o)..FirstDay(kept, t, o) + 6 :
                                        Weekday(n) \in kept.days})
        BY <1>1, NextOfType
    <2>2. FirstDay(kept, t, o) = first
        BY <1>1 DEF AtDay, FirstDay
    <2>3. next = OfDays(kept, t, o, ns)
        BY <1>1, <2>1, <2>2
    <2>4. QED BY <1>1, <2>3 DEF AtDay, OfDays
<1>4. \A n \in ns : n \in Int /\ Names(s, n)
    BY <1>2 DEF Names
<1>5. Found(s, t, o, next, ns)
    <2>1. ns \subseteq Int
        BY <1>4
    <2> HIDE DEF ns, next
    <2>2. t \in Int
        OBVIOUS
    <2>3. Found(s, t, o, OfDays(s, t, o, ns), ns)
        BY <2>1, <2>2, EarliestOfDays
    <2>4. QED BY <1>3, <2>3
<1>6. next # Never
    <2>1. PICK d \in 0..6 : d \in s.days
        BY <1>1
    <2>2. \E n \in first..first + 6 : Weekday(n) = d
        <3> DEFINE n == first + ((d - Weekday(first)) % 7)
        <3>1. n \in first..first + 6
            BY <1>2 DEF Weekday
        <3>2. Weekday(n) = d
            BY <1>2 DEF Weekday
        <3>3. QED BY <3>1, <3>2
    <2>3. PICK n \in ns : TRUE
        BY <2>1, <2>2
    <2>4. AtDay(s, o, n) > t
        BY <1>2
    <2>5. QED BY <1>5, <2>4 DEF Found
<1>7. ASSUME NEW n \in Int, n >= Today(t, o), AtDay(s, o, n) > t, Names(s, n),
             \A p \in ns : next = AtDay(s, o, p) => n <= p
      PROVE  n \in ns
    <2>1. PICK p \in ns : next = AtDay(s, o, p)
        BY <1>5, <1>6 DEF Found
    <2>2. n >= first /\ n <= p
        BY <1>1, <1>7, <2>1, FirstDayIs
    <2>3. Weekday(n) \in s.days
        BY <1>7 DEF Names
    <2>4. QED BY <1>2, <2>2, <2>3
<1> HIDE DEF ns, first
<1>8. next = FirstFire(Stored(s.type, s.type, s), t, o)
    BY DEF kept
<1> HIDE DEF next
<1>9. Reached(s, t, o, next, ns)
    BY <1>7 DEF Reached
<1>10. QED BY <1>1, <1>4, <1>5, <1>8, <1>9, FirstIsFound

\* On a day of the month: a month without it is passed over, no other.
LEMMA MonthlyFires ==
    ASSUME NEW s \in AllSchedules, s.type = "monthly", Accepted(s.type, s.type, s),
           NEW t \in Nat, NEW o \in Int, t + o >= 0
    PROVE  FiresFirst(s, s.type, t, o)
<1> DEFINE kept == Stored(s.type, s.type, s)
           today == Today(t, o)
           ns == UNION {SafeDate(ym[1], ym[2], s.day) : ym \in MonthsFrom(today)}
           next == FirstFire(kept, t, o)
<1>1. /\ s.type \in OfCalendar /\ s.hour \in 0..23 /\ s.day \in 1..31
      /\ kept \in AllSchedules /\ kept.type = "monthly" /\ kept.hour = s.hour
      /\ kept.day = s.day
      /\ next = ComputeNextFire(kept, t, o)
    BY StoredIsASchedule DEF OfCalendar, Accepted
<1> HIDE DEF kept
<1>2. today \in Nat
    BY <1>1, FirstDayIs
<1>3. next = OfDays(s, t, o, ns)
    <2> HIDE DEF next
    <2>1. next = OfDays(kept, t, o, UNION {SafeDate(ym[1], ym[2], kept.day) : ym \in MonthsFrom(today)})
        BY <1>1, NextOfType
    <2>2. next = OfDays(kept, t, o, ns)
        BY <1>1, <2>1
    <2>3. QED BY <1>1, <2>2 DEF AtDay, OfDays
<1>4. ASSUME NEW n \in ns
      PROVE  /\ n \in Nat /\ Names(s, n)
             /\ MonthNumber(n) \in MonthNumber(today)..MonthNumber(today) + 11
    <2>1. PICK ym \in MonthsFrom(today) : n \in SafeDate(ym[1], ym[2], s.day)
        OBVIOUS
    <2>2. ym[1] \in Years /\ ym[2] \in 1..12
        BY <1>2, <2>1, MonthsScanned
    <2>3. /\ n \in Nat /\ YearOf(n) = ym[1] /\ MonthOf(n) = ym[2]
          /\ n + 1 - DayNumber(ym[1], ym[2], 1) = s.day
        BY <1>1, <2>1, <2>2, SafeDateIsADay
    <2>4. Names(s, n)
        BY <2>3 DEF Names
    <2>5. <<YearOf(n), MonthOf(n)>> \in MonthsFrom(today)
        <3>1. ym = <<ym[1], ym[2]>>
            BY <2>1 DEF MonthsFrom
        <3>2. QED BY <2>1, <2>3, <3>1
    <2>6. 12 * YearOf(n) + MonthOf(n) - 1 \in MonthNumber(today)..MonthNumber(today) + 11
        BY <1>2, <2>2, <2>3, <2>5, MonthsScanned
    <2>7. QED BY <2>3, <2>4, <2>6 DEF MonthNumber
<1>5. Found(s, t, o, next, ns)
    <2>1. ns \subseteq Int
        BY <1>4
    <2> HIDE DEF ns, next
    <2>2. t \in Int
        OBVIOUS
    <2>3. Found(s, t, o, OfDays(s, t, o, ns), ns)
        BY <2>1, <2>2, EarliestOfDays
    <2>4. QED BY <1>3, <2>3
<1>6. ASSUME NEW n \in Nat, Names(s, n),
             MonthNumber(n) \in MonthNumber(today)..MonthNumber(today) + 11
      PROVE  n \in ns
    <2>1. /\ YearOf(n) \in Years /\ MonthOf(n) \in 1..12
          /\ n \in SafeDate(YearOf(n), MonthOf(n), n + 1 - DayNumber(YearOf(n), MonthOf(n), 1))
        BY DayIsASafeDate
    <2>2. n + 1 - DayNumber(YearOf(n), MonthOf(n), 1) = s.day
        BY <1>6 DEF Names
    <2>3. <<YearOf(n), MonthOf(n)>> \in MonthsFrom(today)
        BY <1>2, <1>6, <2>1, MonthsScanned DEF MonthNumber
    <2>4. QED BY <2>1, <2>2, <2>3
<1>7. next # Never
    <2>1. PICK y \in Years, m \in 1..12 : HasItLater(today, s.day, y, m)
        BY <1>1, <1>2, AMonthHasIt
    <2>2. PICK n \in SafeDate(y, m, s.day) : TRUE
        BY <2>1 DEF HasItLater, SafeDate
    <2>3. n \in Nat /\ YearOf(n) = y /\ MonthOf(n) = m
        BY <1>1, <2>2, SafeDateIsADay
    <2>4. n \in ns
        BY <2>1, <2>2 DEF HasItLater
    <2>5. MonthNumber(n) > MonthNumber(today)
        BY <2>1, <2>3 DEF HasItLater, MonthNumber
    <2>6. n > today
        <3>1. n <= today => MonthNumber(n) <= MonthNumber(today)
            BY <1>2, <2>3, MonthsInOrder
        <3>2. MonthNumber(n) \in Int /\ MonthNumber(today) \in Int
            BY <1>2, <2>3, YearOfADay, MonthOfADay DEF MonthNumber, Years
        <3>3. QED BY <1>2, <2>3, <2>5, <3>1, <3>2
    <2>7. AtDay(s, o, n) > t
        <3>1. n >= today + 1
            BY <1>2, <2>3, <2>6
        <3>2. FirstDay(s, t, o) \in {today, today + 1}
            BY <1>1, FirstDayIs
        <3>3. n \in Int /\ n >= FirstDay(s, t, o)
            BY <1>2, <2>3, <3>1, <3>2
        <3>4. QED BY <1>1, <3>3, FirstDayIs
    <2>8. QED BY <1>5, <2>4, <2>7 DEF Found
<1>8. ASSUME NEW n \in Int, n >= today, AtDay(s, o, n) > t, Names(s, n),
             \A p \in ns : next = AtDay(s, o, p) => n <= p
      PROVE  n \in ns
    <2>1. PICK p \in ns : next = AtDay(s, o, p)
        BY <1>5, <1>7 DEF Found
    <2>2. n \in Nat /\ p \in Nat /\ n <= p
        BY <1>2, <1>4, <1>8, <2>1
    <2>3. MonthNumber(today) <= MonthNumber(n) /\ MonthNumber(n) <= MonthNumber(p)
        BY <1>2, <1>8, <2>2, MonthsInOrder
    <2>4. MonthNumber(p) \in MonthNumber(today)..MonthNumber(today) + 11
        BY <1>4
    <2>5. MonthNumber(n) \in Int /\ MonthNumber(today) \in Int
        BY <1>2, <2>2, YearOfADay, MonthOfADay DEF MonthNumber, Years
    <2>6. MonthNumber(n) \in MonthNumber(today)..MonthNumber(today) + 11
        BY <2>3, <2>4, <2>5
    <2>7. QED BY <1>6, <1>8, <2>2, <2>6
<1>9. \A n \in ns : n \in Int /\ Names(s, n)
    BY <1>4
<1> HIDE DEF ns
<1>10. next = FirstFire(Stored(s.type, s.type, s), t, o)
    BY DEF kept
<1> HIDE DEF next
<1>11. Reached(s, t, o, next, ns)
    BY <1>8 DEF Reached
<1>12. QED BY <1>1, <1>5, <1>9, <1>10, <1>11, FirstIsFound

\* On a date: a year without it is passed over, no other.
LEMMA YearlyFires ==
    ASSUME NEW s \in AllSchedules, s.type = "yearly", Accepted(s.type, s.type, s),
           NEW t \in Nat, NEW o \in Int, t + o >= 0
    PROVE  FiresFirst(s, s.type, t, o)
<1> DEFINE kept == Stored(s.type, s.type, s)
           today == Today(t, o)
           ns == UNION {SafeDate(y, s.month, s.day) : y \in YearsFrom(today)}
           next == FirstFire(kept, t, o)
<1>1. /\ s.type \in OfCalendar /\ s.hour \in 0..23
      /\ s.month \in 1..12 /\ s.day \in 1..31
      /\ kept \in AllSchedules /\ kept.type = "yearly" /\ kept.hour = s.hour
      /\ kept.month = s.month /\ kept.day = s.day
      /\ next = ComputeNextFire(kept, t, o)
    BY StoredIsASchedule DEF OfCalendar, Accepted
<1> HIDE DEF kept
<1>2. today \in Nat /\ YearOf(today) \in Nat /\ YearOf(today) >= 1970
    <2>1. today \in Nat
        BY <1>1, FirstDayIs
    <2> HIDE DEF today
    <2>2. QED BY <2>1, YearOfADay DEF Years
<1>3. next = OfDays(s, t, o, ns)
    <2> HIDE DEF next
    <2>1. next = OfDays(kept, t, o, UNION {SafeDate(y, kept.month, kept.day) : y \in YearsFrom(today)})
        BY <1>1, NextOfType
    <2>2. next = OfDays(kept, t, o, ns)
        BY <1>1, <2>1
    <2>3. QED BY <1>1, <2>2 DEF AtDay, OfDays
<1>4. ASSUME NEW n \in ns
      PROVE  n \in Nat /\ Names(s, n) /\ YearOf(n) \in YearsFrom(today)
    <2>1. PICK y \in YearsFrom(today) : n \in SafeDate(y, s.month, s.day)
        OBVIOUS
    <2>2. y \in Years
        BY <1>2, <2>1 DEF YearsFrom, Years
    <2>3. /\ n \in Nat /\ YearOf(n) = y /\ MonthOf(n) = s.month
          /\ n + 1 - DayNumber(y, s.month, 1) = s.day
        BY <1>1, <2>1, <2>2, SafeDateIsADay
    <2>4. QED BY <2>1, <2>3 DEF Names
<1>5. Found(s, t, o, next, ns)
    <2>1. ns \subseteq Int
        BY <1>4
    <2> HIDE DEF ns, next
    <2>2. t \in Int
        OBVIOUS
    <2>3. Found(s, t, o, OfDays(s, t, o, ns), ns)
        BY <2>1, <2>2, EarliestOfDays
    <2>4. QED BY <1>3, <2>3
<1>6. ASSUME NEW n \in Nat, Names(s, n), YearOf(n) \in YearsFrom(today)
      PROVE  n \in ns
    <2>1. /\ YearOf(n) \in Years /\ MonthOf(n) \in 1..12
          /\ n \in SafeDate(YearOf(n), MonthOf(n), n + 1 - DayNumber(YearOf(n), MonthOf(n), 1))
        BY DayIsASafeDate
    <2>2. MonthOf(n) = s.month /\ n + 1 - DayNumber(YearOf(n), MonthOf(n), 1) = s.day
        BY <1>6 DEF Names
    <2>3. QED BY <1>6, <2>1, <2>2
<1>7. ASSUME NEW n \in Nat, n >= today, n <= today + 800
      PROVE  YearOf(n) \in YearsFrom(today)
    <2> DEFINE y == YearOf(today)
               z == YearOf(n)
    <2>1. /\ y \in Years /\ today < FirstOf(y + 1, 1)
          /\ z \in Years /\ FirstOf(z, 1) <= n /\ y <= z
        BY <1>2, <1>7, YearOfADay, MonthsInOrder
    <2> HIDE DEF y, z
    <2>2. y \in Nat /\ z \in Nat /\ y + 1 \in Years
        BY <2>1 DEF Years
    <2>3. FirstOf(y + 1, 1) \in Int /\ FirstOf(z, 1) \in Int
        BY <2>1, <2>2, YearStarts
    <2>4. y < z => FirstOf(y + 1, 1) + 365 * (z - y - 1) - 3 <= FirstOf(z, 1)
        BY <2>1, YearsInOrder
    <2>5. z <= y + 99
        BY <1>2, <1>7, <2>1, <2>2, <2>3, <2>4
    <2>6. QED BY <2>1, <2>2, <2>5 DEF YearsFrom, y, z
<1>8. ASSUME NEW n \in Int, n >= today, AtDay(s, o, n) > t, Names(s, n),
             next = Never => n <= today + 800,
             \A p \in ns : next = AtDay(s, o, p) => n <= p
      PROVE  n \in ns
    <2>1. n \in Nat
        BY <1>2, <1>8
    <2>2. CASE next = Never
        BY <1>6, <1>7, <1>8, <2>1, <2>2
    <2>3. CASE next # Never
        <3>1. PICK p \in ns : next = AtDay(s, o, p)
            BY <1>5, <2>3 DEF Found
        <3>2. p \in Nat /\ n <= p /\ YearOf(p) \in YearsFrom(today)
            BY <1>4, <1>8, <3>1
        <3>3. YearOf(today) <= YearOf(n) /\ YearOf(n) <= YearOf(p)
            BY <1>2, <1>8, <2>1, <3>2, MonthsInOrder
        <3>4. YearOf(n) \in Nat
            BY <2>1, YearOfADay DEF Years
        <3>5. YearOf(n) \in YearsFrom(today)
            BY <1>2, <3>2, <3>3, <3>4 DEF YearsFrom
        <3>6. QED BY <1>6, <1>8, <2>1, <3>5
    <2>4. QED BY <2>2, <2>3
<1>9. \A n \in ns : n \in Int /\ Names(s, n)
    BY <1>4
<1> HIDE DEF ns
<1>10. next = FirstFire(Stored(s.type, s.type, s), t, o)
    BY DEF kept
<1> HIDE DEF next
<1>11. Reached(s, t, o, next, ns)
    BY <1>8 DEF Reached
<1>12. QED BY <1>1, <1>5, <1>9, <1>10, <1>11, FirstIsFound

-----------------------------------------------------------------------------
\* A schedule of the calendar fires first at the first moment that it names:
\* no month or year that has the day is passed over, whatever the day, the zone
\* and the moment, and no other day is taken.
THEOREM CalendarIsKept ==
    ASSUME NEW s \in AllSchedules, s.type \in OfCalendar, Accepted(s.type, s.type, s),
           NEW t \in Nat, NEW o \in Int, t + o >= 0
    PROVE  FiresFirst(s, s.type, t, o)
<1>1. s.type \in {"daily", "weekly", "monthly", "yearly"}
    BY DEF OfCalendar
<1>2. QED BY <1>1, DailyFires, WeeklyFires, MonthlyFires, YearlyFires

\* A schedule of every so many days keeps its distance.
\* It keeps its distance within the day, and counts from the day it is asked on later.
THEOREM DistanceIsKept ==
    ASSUME NEW s \in AllSchedules, s.type = "custom_days", Accepted(s.type, s.type, s),
           NEW due \in Int, NEW t \in Nat, NEW o \in Int
    PROVE  IntervalIsKept(s, due, t, o)
<1> DEFINE next == ComputeNextFire(s, t, o)
           day(u) == (u + o) \div 24
           today == day(t)
           n == IF AtDay(s, o, today) > t THEN today ELSE today + s.interval
<1>1. s.hour \in 0..23 /\ s.interval \in Int /\ s.interval >= 1
    BY DEF Accepted, AllSchedules
<1>2. next = AtDay(s, o, n)
    BY NextOfType DEF Today
<1>3. \A k \in Int : AtDay(s, o, k) = 24 * k + s.hour - o
    BY DEF AtDay
<1>4. today \in Int /\ 24 * today <= t + o /\ t + o < 24 * today + 24
    <2> DEFINE m == t + o
    <2>1. m \in Int
        OBVIOUS
    <2> HIDE DEF m
    <2>2. m \div 24 \in Int /\ 24 * (m \div 24) <= m /\ m < 24 * (m \div 24) + 24
        BY <2>1
    <2>3. QED BY <2>2 DEF m
<1> HIDE DEF today
<1>5. n \in {today, today + s.interval} /\ n \in Int /\ next = 24 * n + s.hour - o
    BY <1>1, <1>2, <1>3, <1>4
<1>6. next > t
    BY <1>1, <1>3, <1>4, <1>5
<1>7. (next + o) % 24 = s.hour /\ day(next) = n
    <2> HIDE DEF n
    <2>1. next + o = 24 * n + s.hour
        BY <1>1, <1>5
    <2>2. (24 * n + s.hour) % 24 = s.hour /\ (24 * n + s.hour) \div 24 = n
        BY <1>1, <1>5
    <2>3. QED BY <2>1, <2>2
<1>8. ASSUME due <= t, (due + o) % 24 = s.hour, today = day(due)
      PROVE  next = due + 24 * s.interval
    <2> DEFINE m == due + o
    <2>1. m \in Int /\ due = m - o
        OBVIOUS
    <2>2. m % 24 = s.hour /\ m \div 24 = today
        BY <1>8
    <2> HIDE DEF m
    <2>3. m = 24 * (m \div 24) + (m % 24)
        BY <2>1
    <2>4. AtDay(s, o, today) = due
        <3>1. m = 24 * today + s.hour
            BY <2>2, <2>3
        <3>2. AtDay(s, o, today) = 24 * today + s.hour - o
            BY <1>3, <1>4
        <3>3. QED BY <1>1, <1>4, <2>1, <3>1, <3>2
    <2>5. n = today + s.interval
        BY <1>8, <2>4
    <2>6. QED BY <1>1, <1>3, <1>4, <1>5, <2>4, <2>5
<1> HIDE DEF n, next
<1>9. QED BY <1>5, <1>6, <1>7, <1>8 DEF IntervalIsKept, next, today

\* All of them together, for the inputs of a run.
THEOREM EveryScheduleIsKept == SchedulesAreKept
<1>1. ASSUME NEW s \in Schedules, NEW t \in Moments, NEW o \in Offsets
      PROVE  /\ (s.type \in OfCalendar /\ Accepted(s.type, s.type, s)) => FiresFirst(s, s.type, t, o)
             /\ (s.type = "custom_days" /\ Accepted(s.type, s.type, s)) =>
                    \A due \in t - 48..t : IntervalIsKept(s, due, t, o)
    <2>1. s \in AllSchedules /\ t \in Nat /\ o \in Int /\ t + o >= 0
        BY InputsAssumption
    <2>2. QED BY <2>1, CalendarIsKept, DistanceIsKept
<1>2. QED BY <1>1 DEF SchedulesAreKept

-----------------------------------------------------------------------------
(***************************************************************************)
(* A schedule that was accepted does not end.                               *)
(***************************************************************************)

\* A search that has a day to come in it finds a moment to come.
LEMMA SearchFinds ==
    ASSUME NEW s \in AllSchedules, s.hour \in 0..23, NEW t \in Nat, NEW o \in Int, t + o >= 0,
           NEW ns, ns \subseteq Int, NEW n \in ns, n >= FirstDay(s, t, o)
    PROVE  OfDays(s, t, o, ns) # Never /\ OfDays(s, t, o, ns) > t
<1>1. n \in Int /\ t \in Int
    OBVIOUS
<1>2. AtDay(s, o, n) > t
    BY <1>1, FirstDayIs
<1>3. Found(s, t, o, OfDays(s, t, o, ns), ns)
    BY <1>1, EarliestOfDays
<1>4. QED BY <1>2, <1>3 DEF Found

\* One of the next eight years has a leap day.
LEMMA ALeapYear ==
    ASSUME NEW z \in Nat
    PROVE  \E y \in z + 1..z + 8 : IsLeap(y)
<1> DEFINE y == 4 * (z \div 4) + 4
<1>1. y \in z + 1..z + 4 /\ y + 4 \in z + 1..z + 8 /\ y % 4 = 0 /\ (y + 4) % 4 = 0
    OBVIOUS
<1>2. y % 100 # 0 \/ (y + 4) % 100 # 0
    <2>1. y \in Nat
        OBVIOUS
    <2> HIDE DEF y
    <2>2. QED BY <2>1
<1> HIDE DEF y
<1>3. CASE y % 100 # 0
    BY <1>1, <1>3 DEF IsLeap
<1>4. CASE (y + 4) % 100 # 0
    BY <1>1, <1>4 DEF IsLeap
<1>5. QED BY <1>2, <1>3, <1>4

\* What a schedule needs to go on for ever: the date of a yearly one exists in a
\* leap year.
GoesOn(s) ==
    /\ s.type # "once" /\ s.hour \in 0..23
    /\ s.type = "weekly" => s.days # {} /\ s.days \subseteq 0..6
    /\ s.type = "monthly" => s.day \in 1..31
    /\ s.type = "yearly" => s.month \in 1..12 /\ s.day \in 1..DaysIn(2000, s.month)
    /\ s.type = "custom_days" => s.interval >= 1

\* Then the code names a moment that is still to come.
LEMMA NextIsToCome ==
    ASSUME NEW s \in AllSchedules, GoesOn(s), NEW t \in Nat, NEW o \in Int, t + o >= 0
    PROVE  ComputeNextFire(s, t, o) # Never /\ ComputeNextFire(s, t, o) > t
<1> DEFINE today == Today(t, o)
           first == FirstDay(s, t, o)
           next == ComputeNextFire(s, t, o)
<1>1. /\ s.type \in Types /\ s.type # "once" /\ s.hour \in 0..23 /\ s.interval \in Int
    BY DEF GoesOn, AllSchedules
<1>2. /\ today \in Nat /\ first \in {today, today + 1}
      /\ \A n \in Int : n >= first => AtDay(s, o, n) > t
    BY <1>1, FirstDayIs
<1>3. \A n \in Int : n >= first => AtDay(s, o, n) # Never
    BY <1>1, DayOfMoment, InputsAssumption
<1>4. CASE s.type = "daily"
    <2>1. next = AtDay(s, o, first)
        BY <1>4, NextOfType
    <2>2. first \in Int /\ first >= first
        BY <1>2
    <2> HIDE DEF next, first
    <2>3. AtDay(s, o, first) > t /\ AtDay(s, o, first) # Never
        BY <1>2, <1>3, <2>2
    <2>4. QED BY <2>1, <2>3 DEF next
<1>5. CASE s.type = "weekly"
    <2> DEFINE ns == {n \in first..first + 6 : Weekday(n) \in s.days}
    <2>1. next = OfDays(s, t, o, ns)
        BY <1>5, NextOfType
    <2>2. PICK d \in 0..6 : d \in s.days
        BY <1>5 DEF GoesOn
    <2>3. \E n \in first..first + 6 : Weekday(n) = d
        <3> DEFINE n == first + ((d - Weekday(first)) % 7)
        <3>1. first \in Nat
            BY <1>2
        <3> HIDE DEF first
        <3>2. n \in first..first + 6
            BY <3>1 DEF Weekday
        <3>3. Weekday(n) = d
            BY <3>1 DEF Weekday
        <3>4. QED BY <3>2, <3>3
    <2>4. PICK n \in ns : TRUE
        BY <2>2, <2>3
    <2>5. first \in Nat
        BY <1>2
    <2> HIDE DEF first
    <2>6. ns \subseteq Int /\ n >= first
        BY <2>5
    <2> HIDE DEF ns, next
    <2>7. n >= FirstDay(s, t, o)
        BY <2>6 DEF first
    <2>8. OfDays(s, t, o, ns) # Never /\ OfDays(s, t, o, ns) > t
        BY <1>1, <2>6, <2>7, SearchFinds
    <2>9. QED BY <2>1, <2>8 DEF next
<1>6. CASE s.type = "monthly"
    <2> DEFINE ns == UNION {SafeDate(ym[1], ym[2], s.day) : ym \in MonthsFrom(today)}
    <2>1. next = OfDays(s, t, o, ns)
        BY <1>6, NextOfType
    <2>2. s.day \in 1..31
        BY <1>6 DEF GoesOn
    <2>3. PICK y \in Years, m \in 1..12 : HasItLater(today, s.day, y, m)
        BY <1>2, <2>2, AMonthHasIt
    <2>4. PICK n \in SafeDate(y, m, s.day) : TRUE
        BY <2>3 DEF HasItLater, SafeDate
    <2>5. n \in Nat /\ YearOf(n) = y /\ MonthOf(n) = m
        BY <2>2, <2>4, SafeDateIsADay
    <2>6. n \in ns
        BY <2>3, <2>4 DEF HasItLater
    <2>7. MonthNumber(n) > MonthNumber(today)
        BY <2>3, <2>5 DEF HasItLater, MonthNumber
    <2>8. ns \subseteq Int
        <3>1. ASSUME NEW ym \in MonthsFrom(today) PROVE SafeDate(ym[1], ym[2], s.day) \subseteq Int
            <4>1. ym[1] \in Years /\ ym[2] \in 1..12
                BY <1>2, <3>1, MonthsScanned
            <4>2. QED BY <2>2, <4>1, SafeDateIsADay
        <3>2. QED BY <3>1
    <2> HIDE DEF ns, next
    <2>9. n > today
        <3>1. n <= today => MonthNumber(n) <= MonthNumber(today)
            BY <1>2, <2>5, MonthsInOrder
        <3>2. MonthNumber(n) \in Int /\ MonthNumber(today) \in Int
            BY <1>2, <2>5, YearOfADay, MonthOfADay DEF MonthNumber, Years
        <3>3. QED BY <1>2, <2>5, <2>7, <3>1, <3>2
    <2>10. n >= FirstDay(s, t, o)
        BY <1>2, <2>5, <2>9
    <2>11. OfDays(s, t, o, ns) # Never /\ OfDays(s, t, o, ns) > t
        BY <1>1, <2>6, <2>8, <2>10, SearchFinds
    <2>12. QED BY <2>1, <2>11 DEF next
<1>7. CASE s.type = "yearly"
    <2> DEFINE ns == UNION {SafeDate(y, s.month, s.day) : y \in YearsFrom(today)}
    <2>1. next = OfDays(s, t, o, ns)
        BY <1>7, NextOfType
    <2>2. s.month \in 1..12 /\ s.day \in 1..DaysIn(2000, s.month) /\ s.day \in Int
        BY <1>7 DEF GoesOn, AllSchedules
    <2>3. YearOf(today) \in Nat /\ YearOf(today) >= 1970
        <3>1. YearOf(today) \in Years
            BY <1>2, YearOfADay
        <3>2. QED BY <3>1 DEF Years
    <2>4. PICK y \in YearOf(today) + 1..YearOf(today) + 8 : IsLeap(y)
        <3>1. PICK z \in Nat : z = YearOf(today)
            BY <2>3
        <3>2. \E y \in z + 1..z + 8 : IsLeap(y)
            BY ALeapYear
        <3>3. QED BY <3>1, <3>2
    <2>5. y \in Years /\ y \in YearsFrom(today) /\ y > YearOf(today)
        BY <2>3, <2>4 DEF Years, YearsFrom
    <2>6. DaysIn(y, s.month) = DaysIn(2000, s.month)
        BY <2>4 DEF DaysIn, IsLeap
    <2>7. PICK n \in SafeDate(y, s.month, s.day) : TRUE
        BY <2>2, <2>6 DEF SafeDate
    <2>8. n \in Nat /\ YearOf(n) = y
        BY <2>2, <2>5, <2>7, SafeDateIsADay
    <2>9. n \in ns
        BY <2>5, <2>7
    <2>10. ns \subseteq Int
        <3>1. ASSUME NEW z \in YearsFrom(today) PROVE SafeDate(z, s.month, s.day) \subseteq Int
            <4>1. z \in Years
                BY <2>3, <3>1 DEF YearsFrom, Years
            <4>2. QED BY <2>2, <4>1, SafeDateIsADay
        <3>2. QED BY <3>1
    <2> HIDE DEF ns, next
    <2>11. n > today
        <3>1. n <= today => YearOf(n) <= YearOf(today)
            BY <1>2, <2>8, MonthsInOrder
        <3>2. QED BY <1>2, <2>3, <2>5, <2>8, <3>1
    <2>12. n >= FirstDay(s, t, o)
        BY <1>2, <2>8, <2>11
    <2>13. OfDays(s, t, o, ns) # Never /\ OfDays(s, t, o, ns) > t
        BY <1>1, <2>9, <2>10, <2>12, SearchFinds
    <2>14. QED BY <2>1, <2>13 DEF next
<1>8. CASE s.type = "custom_days"
    <2> DEFINE n == IF AtDay(s, o, today) > t THEN today ELSE today + s.interval
    <2>1. next = AtDay(s, o, n)
        BY <1>8, NextOfType
    <2>2. n \in Int /\ n >= first
        BY <1>1, <1>2, <1>8 DEF GoesOn, FirstDay
    <2> HIDE DEF n
    <2>3. QED BY <1>2, <1>3, <2>1, <2>2
<1>9. QED BY <1>1, <1>4, <1>5, <1>6, <1>7, <1>8 DEF Types

\* Whatever parameters a request carries for its type, the reminder that is
\* stored always has a next time, and it is to come: only a single date ends,
\* and a date that no year has.
THEOREM AcceptedGoesOn ==
    ASSUME NEW s \in AllSchedules, NEW extra, s.type # "once", Accepted(s.type, extra, s),
           (s.type = "yearly" /\ extra = "yearly") => s.day <= DaysIn(2000, s.month),
           NEW t \in Nat, NEW o \in Int, t + o >= 0
    PROVE  LET next == FirstFire(Stored(s.type, extra, s), t, o)
           IN  next # Never /\ next > t
<1> DEFINE kept == Stored(s.type, extra, s)
<1>1. kept \in AllSchedules
    BY DEF Stored, AllSchedules
<1>2. /\ kept.type = s.type /\ kept.hour = s.hour
      /\ kept.days = IF extra = "weekly" THEN s.days ELSE {0}
      /\ kept.day = IF extra = s.type /\ extra \in {"monthly", "yearly"} THEN s.day ELSE 1
      /\ kept.month = IF extra = "yearly" THEN s.month ELSE 1
      /\ kept.interval = IF extra = "custom_days" THEN s.interval ELSE 1
    BY DEF Stored
<1>3. FirstFire(kept, t, o) = ComputeNextFire(kept, t, o)
    BY <1>2 DEF FirstFire
<1> HIDE DEF kept
<1>4. GoesOn(kept)
    <2>1. s.hour \in 0..23 /\ s.day \in Int
        BY DEF Accepted, AllSchedules
    <2>2. kept.type = "weekly" => kept.days # {} /\ kept.days \subseteq 0..6
        BY <1>2 DEF Accepted
    <2>3. kept.type = "monthly" => kept.day \in 1..31
        BY <1>2 DEF Accepted
    <2>4. kept.type = "yearly" => kept.month \in 1..12 /\ kept.day \in 1..DaysIn(2000, kept.month)
        <3>1. DaysIn(2000, kept.month) >= 28
            BY DEF DaysIn, IsLeap
        <3>2. DaysIn(2000, kept.month) \in Int
            BY DEF DaysIn
        <3>3. CASE extra = "yearly"
            BY <1>2, <2>1, <3>2, <3>3 DEF Accepted
        <3>4. CASE extra # "yearly"
            BY <1>2, <3>1, <3>2, <3>4
        <3>5. QED BY <3>3, <3>4
    <2>5. kept.type = "custom_days" => kept.interval >= 1
        BY <1>2 DEF Accepted
    <2>6. QED BY <1>2, <2>1, <2>2, <2>3, <2>4, <2>5 DEF GoesOn
<1>5. ComputeNextFire(kept, t, o) # Never /\ ComputeNextFire(kept, t, o) > t
    BY <1>1, <1>4, NextIsToCome
<1>6. QED BY <1>3, <1>5 DEF kept

=============================================================================
