-------------------------- MODULE FirewallInspect ---------------------------
(***************************************************************************)
(* The firewall tool and its helper operation: one listing of the ruleset, *)
(* then, when elements are asked for, one listing per set, under a cap per *)
(* set and a budget for the whole answer.  The kernel's sets change in     *)
(* between.                                                                *)
(***************************************************************************)
EXTENDS Integers, Sequences, FiniteSets, Functions, Ordering

CONSTANTS
    SetKeys,       \* the sets a ruleset can have, in the order of their names
    TableOf,       \* [SetKeys -> their tables]
    BanLists,      \* the manifest's ban_sets: sequences of SetKeys
    Sizes,         \* numbers of elements a set can have
    Asked,         \* max_set_elements_per_set of the manifest
    ElemDefault,   \* MaxSetElements when the manifest leaves it out
    HardElemCap,   \* firewallHardElemCap
    ElemBudget     \* firewallElemBudget

Keys == Range(SetKeys)
Tables == {TableOf[k] : k \in Keys}
Gone == -1

ASSUME FirewallAssumption ==
    /\ SetKeys \in Seq(Keys) /\ IsInjective(SetKeys)
    /\ {ElemDefault, HardElemCap, ElemBudget} \subseteq Nat \ {0}
    /\ Sizes \subseteq Nat /\ Asked \subseteq Int
    /\ ElemDefault <= HardElemCap
    /\ BanLists \subseteq Seq(Keys)

VARIABLES
    fwReq,     \* [enabled, filter, include, detail, bans, max]: request and manifest
    fwLive,    \* Keys -> number of elements in the kernel, or Gone
    fwPc,      \* "request", "list", "fetch", "done", "refused", "failed"
    fwSets,    \* the sets of the answer: key -> [count, shown, truncated]
    fwRes,     \* [backend, rules, bans, warned] of the answer
    fwTodo,    \* sets still to be listed
    fwLeft     \* what is left of the budget

fwVars == <<fwReq, fwLive, fwPc, fwSets, fwRes, fwTodo, fwLeft>>

Requests == [enabled : BOOLEAN, filter : {"", "malformed"} \cup Tables, include : BOOLEAN,
             detail : {"no", "disallowed", "yes"}, bans : BanLists,
             max : Asked]
NoFwResult == [backend |-> "none", rules |-> FALSE, bans |-> <<>>, warned |-> {}]
NoSets == [k \in {} |-> 0]

FwInit ==
    /\ fwReq \in Requests
    /\ fwLive \in [Keys -> Sizes \cup {Gone}]
    /\ fwPc = "request" /\ fwSets = NoSets /\ fwRes = NoFwResult
    /\ fwTodo = <<>> /\ fwLeft = ElemBudget

-----------------------------------------------------------------------------
\* Handle: a malformed request is refused before anything is asked of the
\* helper, and so is every request while the manifest has the tool disabled.
FwHandle ==
    /\ fwPc = "request"
    /\ fwPc' = CASE fwReq.filter = "malformed" -> "refused"
                 [] fwReq.filter # "malformed" /\ ~fwReq.enabled -> "done"
                 [] OTHER -> "list"
    /\ fwRes' = IF fwPc' = "done" THEN [NoFwResult EXCEPT !.warned = {"disabled"}] ELSE fwRes
    /\ UNCHANGED <<fwReq, fwLive, fwSets, fwTodo, fwLeft>>

\* The clamps on max_set_elements_per_set.
MaxSetElements(max) ==
    IF max <= 0 THEN ElemDefault ELSE IF max > HardElemCap THEN HardElemCap ELSE max

keep(filter, k) == filter = "" \/ TableOf[k] = filter

\* orderSetKeys: ban sets first, each once, then the others by name.
orderSetKeys(sets, bans) ==
    LET first == Ascending({i \in DOMAIN bans : bans[i] \in sets /\ \A j \in 1..(i - 1) : bans[j] # bans[i]})
        then == Ascending({i \in DOMAIN SetKeys : SetKeys[i] \in sets \ Range(bans)})
    IN  [i \in DOMAIN first |-> bans[first[i]]] \o [i \in DOMAIN then |-> SetKeys[then[i]]]

\* The ruleset is listed and walked, the ban rows are filled in, and the order
\* of the sets is fixed, or there is nothing more to do.  A table is there as
\* long as it has a set.
ListRuleset ==
    /\ fwPc = "list"
    /\ LET kept == {k \in Keys : fwLive[k] # Gone /\ keep(fwReq.filter, k)} IN
       /\ fwSets' = [k \in kept |-> [count |-> fwLive[k], shown |-> 0, truncated |-> FALSE]]
       /\ fwRes' = [backend |-> IF kept = {} THEN "none" ELSE "nftables",
                    rules |-> fwReq.detail = "yes",
                    bans |-> [i \in DOMAIN fwReq.bans |->
                                IF fwReq.bans[i] \in kept THEN fwLive[fwReq.bans[i]] ELSE 0],
                    warned |-> (Range(fwReq.bans) \ kept)
                               \cup (IF fwReq.detail = "disallowed" THEN {"detail"} ELSE {})]
       /\ fwTodo' = IF fwReq.include THEN orderSetKeys(kept, fwReq.bans) ELSE <<>>
    /\ fwPc' = "fetch"
    /\ UNCHANGED <<fwReq, fwLive, fwLeft>>

\* No nft on the host; or nft fails, or its output is cut off and cannot be
\* parsed, and so does the call.
NftMissing ==
    /\ fwPc = "list" /\ fwPc' = "done"
    /\ fwRes' = [NoFwResult EXCEPT !.warned = {"nft"}]
    /\ UNCHANGED <<fwReq, fwLive, fwSets, fwTodo, fwLeft>>
NftFails ==
    /\ fwPc = "list" /\ fwPc' = "failed"
    /\ fwRes' = [NoFwResult EXCEPT !.warned = {"op_error"}]
    /\ UNCHANGED <<fwReq, fwLive, fwSets, fwTodo, fwLeft>>

\* The cap for the set at hand.
capNowAnyMax == IF HardElemCap < fwLeft THEN HardElemCap ELSE fwLeft
capNow == IF MaxSetElements(fwReq.max) < fwLeft THEN MaxSetElements(fwReq.max) ELSE fwLeft

\* The budget is spent: the set is only counted.
SkipSet ==
    /\ fwPc = "fetch" /\ fwTodo # <<>> /\ capNow <= 0
    /\ fwSets' = [fwSets EXCEPT ![Head(fwTodo)].truncated = TRUE]
    /\ fwTodo' = Tail(fwTodo)
    /\ UNCHANGED <<fwReq, fwLive, fwPc, fwRes, fwLeft>>

\* renderElements: at most cap of the elements.
renderElements(n, cap) == IF n < cap THEN n ELSE cap

\* runNftListSet, as the set is now.
ListSet ==
    LET k == Head(fwTodo) shown == renderElements(fwLive[k], capNow) IN
    /\ fwPc = "fetch" /\ fwTodo # <<>> /\ capNow > 0 /\ fwLive[k] # Gone
    /\ fwSets' = [fwSets EXCEPT ![k] = [count |-> fwLive[k], shown |-> shown,
                                        truncated |-> fwLive[k] > shown]]
    /\ fwLeft' = fwLeft - shown
    /\ fwTodo' = Tail(fwTodo)
    /\ UNCHANGED <<fwReq, fwLive, fwPc, fwRes>>

\* The set has gone, or the listing fails: a warning, and the next set.
ListSetFails ==
    /\ fwPc = "fetch" /\ fwTodo # <<>> /\ capNow > 0
    /\ fwRes' = [fwRes EXCEPT !.warned = @ \cup {Head(fwTodo)}]
    /\ fwTodo' = Tail(fwTodo)
    /\ UNCHANGED <<fwReq, fwLive, fwPc, fwSets, fwLeft>>

FwReturn ==
    /\ fwPc = "fetch" /\ fwTodo = <<>> /\ fwPc' = "done"
    /\ UNCHANGED <<fwReq, fwLive, fwSets, fwRes, fwTodo, fwLeft>>

\* The kernel's sets change while the answer is put together.
SetChanges ==
    /\ fwPc = "fetch"
    /\ \E k \in Keys, n \in Sizes \cup {Gone} : fwLive' = [fwLive EXCEPT ![k] = n]
    /\ UNCHANGED <<fwReq, fwPc, fwSets, fwRes, fwTodo, fwLeft>>

FwNext == \/ FwHandle \/ ListRuleset \/ NftMissing \/ NftFails \/ SkipSet \/ ListSet
          \/ ListSetFails \/ FwReturn \/ SetChanges
FwSpec == FwInit /\ [][FwNext]_fwVars

-----------------------------------------------------------------------------
FwReturned == fwPc = "done"

\* The elements of the answer: a set and a place in its list.
ShownElems == {e \in (DOMAIN fwSets) \X (1..HardElemCap) : e[2] <= fwSets[e[1]].shown}

\* The budget goes to the ban sets first: another set shows elements only if no
\* ban set was cut short by the budget.
BanSetsFirst ==
    \A b \in DOMAIN fwSets \cap Range(fwReq.bans), k \in DOMAIN fwSets \ Range(fwReq.bans) :
        b \notin fwRes.warned /\ fwSets[k].shown > 0
        => fwSets[b].shown = renderElements(fwSets[b].count, MaxSetElements(fwReq.max))

\* However the sets change while they are listed: no set shows more elements than
\* max_set_elements_per_set allows, its default and its hard limit included, the
\* sets together stay within the budget, ban sets are served first, and a set that
\* shows fewer elements than it counts says so or is named in a warning, when
\* elements were asked for.  A filter never lets another table's set through.
ElementsAccounted ==
    FwReturned =>
        /\ Cardinality(ShownElems) <= ElemBudget
        /\ BanSetsFirst
        /\ \A k \in DOMAIN fwSets :
              /\ fwReq.filter = "" \/ TableOf[k] = fwReq.filter
              /\ fwSets[k].shown <= MaxSetElements(fwReq.max)
              /\ fwReq.include /\ fwSets[k].shown < fwSets[k].count
                    => fwSets[k].truncated \/ k \in fwRes.warned
=============================================================================
