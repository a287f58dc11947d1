--------------------------- MODULE MCInterpolation ---------------------------
EXTENDS Interpolation

\* Every text over "c" and "?" of at most four bytes.
RECURSIVE Words(_)
Words(n) == IF n = 0 THEN {""} ELSE Words(n - 1) \cup {w \o c : w \in Words(n - 1), c \in {"c", "?"}}

Time(y, mo, d, h, mi, s, ns) ==
    [year |-> y, month |-> mo, day |-> d, hour |-> h, minute |-> mi,
     second |-> s, nano |-> ns]

\* The zero time; a leap-day instant that rounds into the next month with
\* no microseconds left; one that keeps microseconds; the last instant of
\* year 9999 that rounds into year 10000.
MCTimes ==
    { Time(1, 1, 1, 0, 0, 0, 0),
      Time(2024, 2, 29, 23, 59, 59, 999999700),
      Time(2023, 6, 15, 12, 30, 45, 123456),
      Time(9999, 12, 31, 23, 59, 59, 999999500) }

MCArgValues ==
    {[type |-> "nil"]}
    \cup {[type |-> "int64", v |-> n] : n \in {0, -42}}
    \cup {[type |-> "bool", v |-> b] : b \in BOOLEAN}
    \cup {[type |-> "bytes", v |-> "\\"]}
    \cup {[type |-> "string", v |-> "'?"]}
    \cup {[type |-> "time", v |-> t] : t \in MCTimes}

MCQueries == Words(4)
MCArgLists == SeqOf(MCArgValues, 2)

\* Three arguments, for the runs that need three NULLs.
MCArgLists3 == SeqOf(MCArgValues, 3)
=============================================================================
