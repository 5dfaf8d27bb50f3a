-------------------------- MODULE MCTimePartitions --------------------------
(***************************************************************************)
(* TimePartitions with days, of which day 0 is Monday 2018-01-01, and      *)
(* intervals in days.  Intervals compare as if a month had 30 days.        *)
(***************************************************************************)
EXTENDS TimePartitions

MonthStarts == {-31, 0, 31, 59, 90}

\* date_trunc with 'day', 'week' or 'month'.
MCdate_trunc(i, t) ==
  CASE i < 7 -> t
    [] i \in 7..29 -> t - (t % 7)
    [] i >= 30 -> Max({m \in MonthStarts : m <= t})

\* to_char with 'YYYY_MM_DD' or 'YYYY_MM', and 'IYYY"w"IW' for one week.
MCto_char(i, t) ==
  CASE i = 7 -> <<"week", t \div 7>>
    [] i < 30 /\ i # 7 -> <<"day", t>>
    [] i >= 30 -> <<"month", Max({m \in MonthStarts : m <= t})>>

MCManualRanges == {[from |-> 12, to |-> 14], [from |-> 20, to |-> 30]}
=============================================================================
