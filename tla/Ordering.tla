------------------------------ MODULE Ordering ------------------------------
(***************************************************************************)
(* What two tools do with a table: its entries are taken in order.         *)
(***************************************************************************)
LOCAL INSTANCE Naturals
LOCAL INSTANCE FiniteSets

\* The numbers of a finite set, from the least to the greatest.
Ascending(S) ==
    CHOOSE s \in [1..Cardinality(S) -> S] : \A i, j \in DOMAIN s : i < j => s[i] < s[j]
=============================================================================
