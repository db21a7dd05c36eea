----------------------------- MODULE MCReports ------------------------------
(***************************************************************************)
(* Bounds for the cases of the reports.                                    *)
(***************************************************************************)
EXTENDS Reports

MCAideLogs(n) == {b \in AideLogs : b.detail = Null /\ b.head # "both" /\ b.total \in {Null, Some(n)}}
\* Up to two logs, which state different totals; the newest may be long.
MCAideDirs == {<<>>} \cup {<<a>> : a \in MCAideLogs(1)}
              \cup {<<a, b>> : a \in MCAideLogs(1), b \in {l \in MCAideLogs(3) : l.past = "nothing"}}
\* One value, or two of different kinds that may both be met; wrapped or not.
MCValueLists == {<<v>> : v \in Values(4)}
                \cup {<<Address(4, 0), Prefix(4, 3, Width - 1)>>, <<Interval(4, 1, 2), Address(4, 1)>>,
                      <<Wrapped(Address(4, 1)), Interval(4, 1, 2)>>}
=============================================================================
