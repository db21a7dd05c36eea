--------------------------- MODULE FirewallLookup ---------------------------
(***************************************************************************)
(* The firewall_lookup operation: which rules and which set elements an    *)
(* address or a prefix meets.  Addresses have Width bits in each of two    *)
(* families.  A value is what a rule or a set element names: an address,   *)
(* a prefix (hi is its length, host bits may be set), a range, or a form   *)
(* that the operation does not read: a concatenation or a map's pair of    *)
(* key and data.  It is wrapped if it carries a timeout or a comment.      *)
(***************************************************************************)
EXTENDS Naturals, Sequences, FiniteSets

CONSTANTS
    Width,     \* bits of an address
    ValueLists \* what a rule or a set may list

Addr == 0..(2^Width - 1)
Families == {4, 6}

Value(t, f, a, b) == [t |-> t, fam |-> f, lo |-> a, hi |-> b, wrapped |-> FALSE]
Address(f, a) == Value("addr", f, a, a)
Prefix(f, a, n) == Value("prefix", f, a, n)
Interval(f, a, b) == Value("range", f, a, b)
Unread(f, a) == Value("unread", f, a, a)
Wrapped(v) == [v EXCEPT !.wrapped = TRUE]
unwrapElem(v) == [v EXCEPT !.wrapped = FALSE]

\* The network address of a prefix, and whether it contains an address.
Masked(a, n) == a - (a % 2^(Width - n))
PrefixContains(p, f, a) == p.fam = f /\ Masked(p.lo, p.hi) = Masked(a, p.hi)

Bare(f) == {Address(f, a) : a \in Addr} \cup {Unread(f, a) : a \in Addr}
           \cup {Prefix(f, a, n) : a \in Addr, n \in 0..Width}
           \cup {Interval(f, ab[1], ab[2]) : ab \in {x \in Addr \X Addr : x[1] <= x[2]}}
Values(f) == Bare(f) \cup {Wrapped(v) : v \in Bare(f)}

\* What the length of a prefix means is said in powers of two; that these are
\* positive is arithmetic.
ASSUME LookupAssumption ==
    /\ Width \in Nat \ {0} /\ \A n \in 0..Width : 2^n \in Nat \ {0}
    /\ ValueLists \subseteq Seq(Values(4))

\* parseLookupQuery: an address, or a prefix that is masked.
Queries == {Address(f, a) : f \in Families, a \in Addr}
           \cup {Prefix(f, Masked(a, n), n) : f \in Families, a \in Addr, n \in 0..Width}
isCIDR(q) == q.t = "prefix"

-----------------------------------------------------------------------------
addrMatchesQuery(a, q) ==
    /\ a.fam = q.fam
    /\ IF isCIDR(q) THEN PrefixContains(q, a.fam, a.lo) ELSE a.lo = q.lo

prefixMatchesQuery(p, q) ==
    /\ p.fam = q.fam
    /\ \/ PrefixContains(p, q.fam, q.lo)
       \/ isCIDR(q) /\ PrefixContains(q, p.fam, Masked(p.lo, p.hi))

rangeMatchesEndpoints(r, q) ==
    /\ r.fam = q.fam
    /\ IF isCIDR(q) THEN PrefixContains(q, r.fam, r.lo) \/ PrefixContains(q, r.fam, r.hi)
       ELSE q.lo >= r.lo /\ q.lo <= r.hi
rangeMatchesQuery(r, q) ==
    /\ r.fam = q.fam
    /\ \/ isCIDR(q) /\ (PrefixContains(q, r.fam, r.lo) \/ PrefixContains(q, r.fam, r.hi))
       \/ q.lo >= r.lo /\ q.lo <= r.hi

\* Neither a form that is not read nor a wrapper matches.
elementValueOverlapsQuery(v, q) ==
    /\ ~v.wrapped
    /\ \/ v.t = "addr"   /\ addrMatchesQuery(v, q)
       \/ v.t = "prefix" /\ prefixMatchesQuery(v, q)
       \/ v.t = "range"  /\ rangeMatchesQuery(v, q)

\* An element of a named set is unwrapped first.
elementMatchesQuery(v, q) == elementValueOverlapsQuery(unwrapElem(v), q)

\* Pass 1: the elements of a named set that are met, each with its match kind.
\* A set whose type has another family in front is not looked at.
setHits(s, q) ==
    IF s.fam # q.fam THEN {}
    ELSE {[value |-> v, kind |-> IF isCIDR(q) \/ v.t # "addr" THEN "set_subset_overlap"
                                 ELSE "set_member"] :
            v \in {s.elem[i] : i \in {k \in DOMAIN s.elem : elementMatchesQuery(s.elem[k], q)}}}

\* evaluateRightSide and ruleMatchKind: the right-hand side of a match is one
\* value, an anonymous set of values, or a reference to the named set; rhs.form
\* says which.  The first value that is met decides; the members of an anonymous
\* set are not unwrapped.
literalKind(v, q) == IF v.t = "addr" /\ ~isCIDR(q) THEN "exact" ELSE "subnet"
evaluateRightSide(rhs, q, named) ==
    CASE rhs.form = "ref" ->
           IF setHits(named, q) = {} THEN {}
           ELSE {IF isCIDR(q) THEN "set_subset_overlap" ELSE "set_member"}
      [] rhs.form # "ref" ->
           LET met == {i \in DOMAIN rhs.values : elementValueOverlapsQuery(rhs.values[i], q)} IN
           {literalKind(rhs.values[i], q) : i \in {k \in met : \A j \in met : k <= j}}

\* matchRuleAgainstQuery: only tests of a source or destination address count.
matchRuleAgainstQuery(rule, q, named) ==
    IF rule.field \in {"saddr", "daddr"} THEN evaluateRightSide(rule.rhs, q, named) ELSE {}

-----------------------------------------------------------------------------
\* One rule and one named set, which list values of one family; include is the
\* caller's include_set_elements.
LookupInputs ==
    [part : {"lookup"}, q : Queries, field : {"saddr", "dport"},
     form : {"literal", "ref"}, values : ValueLists, include : BOOLEAN]

\* FirewallLookup: which rules are met, and, if the caller wants them, which
\* elements.  A reference follows the set's elements whether they are wanted or not.
Lookup(in) ==
    LET named == [fam |-> 4, elem |-> IF in.form = "ref" THEN in.values ELSE <<>>]
        rule == [field |-> in.field, rhs |-> [form |-> in.form, values |-> in.values]]
    IN  [matches |-> matchRuleAgainstQuery(rule, in.q, named),
         sets |-> IF in.include THEN setHits(named, in.q) ELSE {}]
=============================================================================
