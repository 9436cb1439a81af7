------------------------- MODULE MCGarbageCollector --------------------------
(***************************************************************************)
(* The garbage collector for TLC, with a record of all full snapshots ever *)
(* saved, against which the exponential policy is judged.                  *)
(***************************************************************************)
EXTENDS GarbageCollector

VARIABLE taken  \* full snapshots that were saved

MCInit == Init /\ taken = {}

MCNext == Next /\ taken' = taken \cup Fulls(Snapshots(store'))

MCSpec == MCInit /\ [][MCNext]_<<vars, taken>>

Day(h) == h \div 24

\* Full snapshots saved in the same window of n hours as s, s the last of them.
LastOf(s, n) == \A t \in taken : t.hour \div n = s.hour \div n => t = s \/ Less(t, s)

\* Of each of the past seven days, the last full snapshot is kept, through any
\* number of rounds at any times of day.
DailyKept ==
    \A s \in taken : Day(now) - Day(s.hour) <= 7 /\ LastOf(s, 24) => s \in store

\* Of each hour of the current day, the last full snapshot is kept.
HourlyKept ==
    \A s \in taken : Day(now) = Day(s.hour) /\ LastOf(s, 1) => s \in store
=============================================================================
