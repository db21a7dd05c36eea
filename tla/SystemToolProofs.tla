-------------------------- MODULE SystemToolProofs --------------------------
(***************************************************************************)
(* Proofs about SystemTool, for any number of overlapping polls and every  *)
(* mount table.                                                            *)
(***************************************************************************)
EXTENDS SystemTool, FiniteSetTheorems, SequenceTheorems, WellFoundedInduction, TLAPS

DiskRow == [mp : Mounts, measured : BOOLEAN]
PollState == [pc : {"start", "next", "wait", "done"}, todo : Seq(Real), disk : Seq(DiskRow),
              unmeasured : SUBSET Mounts, partial : BOOLEAN]
ProbeState == {"none", "statfs", "up", "error", "up_end", "error_end"}

SysShape ==
    /\ inFlight \subseteq Mounts
    /\ probe \in [Polls -> [Mounts -> ProbeState]]
    /\ poll \in [Polls -> PollState]

\* The poll's goroutine is at the mount: its mark is not deleted yet.
AtMount(p, m) == probe[p][m] \in {"statfs", "up", "error"}

\* A mark belongs to one goroutine, and a goroutine at a mount has marked it.
Marks ==
    \A m \in Mounts : /\ m \in inFlight <=> \E p \in Polls : AtMount(p, m)
                      /\ \A p, q \in Polls : AtMount(p, m) /\ AtMount(q, m) => p = q

\* A poll is on its way through the list: the first part of it is listed, the
\* rest still to do.
Walks(q, list) ==
    /\ Len(q.disk) + Len(q.todo) = Len(list)
    /\ \A i \in 1 .. Len(q.disk) : q.disk[i].mp = Table[list[i]].mp
    /\ \A i \in 1 .. Len(q.todo) : q.todo[i] = list[Len(q.disk) + i]

Unmeasured(q) == {q.disk[i].mp : i \in {k \in DOMAIN q.disk : ~q.disk[k].measured}}

PollOK(q) ==
    /\ q.pc = "start" => q.disk = <<>> /\ q.todo = <<>>
    /\ q.pc # "start" => \E n \in {Len(Table), Len(Table) - 1} :
                            /\ q.partial \/ n = Len(Table)
                            /\ Walks(q, parseMounts(n))
    /\ q.pc = "wait" => q.todo # <<>>
    /\ q.pc = "done" => q.todo = <<>>
    /\ q.unmeasured = Unmeasured(q)

SysInv == SysShape /\ Marks /\ \A p \in Polls : PollOK(poll[p])
-----------------------------------------------------------------------------
(* parseMounts.                                                             *)

\* A set of indices that is not empty has a first one.
LEMMA FirstIndex ==
    ASSUME NEW S \in SUBSET Nat, S # {}
    PROVE  \E x \in S : \A y \in S : x <= y
<1>1. PICK x \in S : \A y \in S : ~(<<y, x>> \in OpToRel(<, Nat))
  <2>1. IsWellFoundedOn(OpToRel(<, Nat), Nat)
    BY NatLessThanWellFounded
  <2> HIDE DEF OpToRel
  <2> QED  BY <2>1, WFMin
<1>2. \A y \in S : ~(y < x)
  BY <1>1 DEF OpToRel
<1> QED  BY <1>2

\* A finite set of indices can be put in order: an index goes to the place that
\* the number of indices up to it says.
LEMMA OrderExists ==
    ASSUME NEW S \in SUBSET Nat, IsFiniteSet(S)
    PROVE  \E s \in [1 .. Cardinality(S) -> S] : \A i, j \in DOMAIN s : i < j => s[i] < s[j]
<1> DEFINE UpTo(x) == {y \in S : y <= x}
           N == Cardinality(S)
           rank == [x \in S |-> Cardinality(UpTo(x))]
<1>1. N \in Nat
  BY FS_CardinalityType
<1>2. \A x \in S : IsFiniteSet(UpTo(x)) /\ Cardinality(UpTo(x)) \in 1 .. N
  <2> TAKE x \in S
  <2>1. IsFiniteSet(UpTo(x)) /\ Cardinality(UpTo(x)) <= N
    BY FS_Subset
  <2>2. x \in UpTo(x)
    OBVIOUS
  <2>3. Cardinality(UpTo(x)) \in Nat /\ Cardinality(UpTo(x)) # 0
    BY <2>1, <2>2, FS_CardinalityType, FS_EmptySet
  <2> QED  BY <1>1, <2>1, <2>3
<1>3. /\ \A x \in S : rank[x] = Cardinality(UpTo(x))
      /\ rank \in [S -> 1 .. N]
  BY <1>2
<1> HIDE DEF rank
<1>4. ASSUME NEW x \in S, NEW y \in S, x < y
      PROVE  rank[x] < rank[y]
  <2>1. UpTo(x) \subseteq UpTo(y) /\ y \in UpTo(y) /\ y \notin UpTo(x)
    <3>1. \A z \in S : z \in Nat
      OBVIOUS
    <3>2. ASSUME NEW z \in S, z <= x
          PROVE  z <= y
      BY <1>4, <3>1, <3>2
    <3>3. ~(y <= x) /\ y <= y
      BY <1>4, <3>1
    <3> QED  BY <3>2, <3>3
  <2>2. Cardinality(UpTo(x)) <= Cardinality(UpTo(y)) /\ Cardinality(UpTo(x)) # Cardinality(UpTo(y))
    BY <1>2, <2>1, FS_Subset
  <2> QED  BY <1>2, <1>3, <2>2
<1>5. rank \in Surjection(S, 1 .. N)
  <2>1. rank \in Injection(S, 1 .. N)
    <3>1. \A x, y \in S : rank[x] = rank[y] => x = y
      <4> SUFFICES ASSUME NEW x \in S, NEW y \in S, rank[x] = rank[y], x # y
                   PROVE  FALSE
        OBVIOUS
      <4>1. rank[x] \in Nat /\ rank[y] \in Nat
        BY <1>3
      <4>2. x < y \/ y < x
        OBVIOUS
      <4> QED  BY <1>4, <4>1, <4>2
    <3> QED  BY <1>3, <3>1 DEF Injection, IsInjective
  <2>2. IsFiniteSet(1 .. N) /\ Cardinality(1 .. N) = N
    BY <1>1, FS_Interval
  <2> QED  BY <2>1, <2>2, FS_Injection
<1>6. \A i \in 1 .. N : \E x \in S : rank[x] = i
  BY <1>5 DEF Surjection
<1> DEFINE s == [i \in 1 .. N |-> CHOOSE x \in S : rank[x] = i]
<1>7. \A i \in 1 .. N : s[i] \in S /\ rank[s[i]] = i
  BY <1>6
<1>8. s \in [1 .. N -> S]
  BY <1>7
<1>9. \A i, j \in 1 .. N : i < j => s[i] < s[j]
  <2> SUFFICES ASSUME NEW i \in 1 .. N, NEW j \in 1 .. N, i < j, ~(s[i] < s[j])
               PROVE  FALSE
    OBVIOUS
  <2>1. /\ s[i] \in S /\ s[j] \in S /\ s[i] \in Nat /\ s[j] \in Nat
        /\ rank[s[i]] = i /\ rank[s[j]] = j
    BY <1>7
  <2>2. s[j] < s[i] \/ s[i] = s[j]
    BY <2>1
  <2>3. s[j] < s[i] => j < i
    BY <1>4, <2>1
  <2> HIDE DEF s
  <2> QED  BY <1>1, <2>1, <2>2, <2>3
<1>10. DOMAIN s = 1 .. N
  OBVIOUS
<1> HIDE DEF s
<1> QED  BY <1>8, <1>9, <1>10

\* s lists the set S, each member once.
Enumerates(s, S) ==
    /\ s \in Seq(S)
    /\ \A i, j \in 1 .. Len(s) : s[i] = s[j] => i = j
    /\ \A x \in S : \E i \in 1 .. Len(s) : s[i] = x

\* Ascending lists the set.
LEMMA AscendingLists ==
    ASSUME NEW S \in SUBSET Nat, IsFiniteSet(S)
    PROVE  Enumerates(Ascending(S), S)
<1> DEFINE N == Cardinality(S)
           s == Ascending(S)
<1>1. /\ s \in [1 .. N -> S]
      /\ \A i, j \in DOMAIN s : i < j => s[i] < s[j]
  BY OrderExists DEF Ascending
<1>2. N \in Nat
  BY FS_CardinalityType
<1> HIDE DEF N, s
<1>3. s \in Seq(S) /\ Len(s) = N
  BY <1>1, <1>2
<1>4. \A i, j \in 1 .. N : s[i] = s[j] => i = j
  <2> SUFFICES ASSUME NEW i \in 1 .. N, NEW j \in 1 .. N, s[i] = s[j], i # j
               PROVE  FALSE
    OBVIOUS
  <2>1. s[i] \in Nat /\ s[j] \in Nat
    BY <1>1
  <2> QED  BY <1>1, <1>2, <2>1
<1>5. s \in Injection(1 .. N, S)
  BY <1>1, <1>4 DEF Injection, IsInjective
<1>6. Cardinality(1 .. N) = N
  BY <1>2, FS_Interval
<1>7. s \in Surjection(1 .. N, S)
  BY <1>5, <1>6, FS_Injection DEF N
<1>8. \A x \in S : \E i \in 1 .. N : s[i] = x
  BY <1>7 DEF Surjection
<1> QED  BY <1>3, <1>4, <1>8 DEF Enumerates, N, s

\* One list after another lists both sets, the first one first.
LEMMA JoinLists ==
    ASSUME NEW A, NEW B, NEW a, NEW b, Enumerates(a, A), Enumerates(b, B), A \cap B = {}
    PROVE  /\ Enumerates(a \o b, A \cup B)
           /\ \A i \in 1 .. Len(a \o b) : (a \o b)[i] \in A <=> i <= Len(a)
<1> DEFINE list == a \o b
<1>1. a \in Seq(A) /\ b \in Seq(B)
  BY DEF Enumerates
<1>2. /\ list \in Seq(A \cup B) /\ Len(list) = Len(a) + Len(b) /\ Len(a) \in Nat /\ Len(b) \in Nat
      /\ \A i \in 1 .. Len(list) : list[i] = IF i <= Len(a) THEN a[i] ELSE b[i - Len(a)]
  <2>1. a \in Seq(A \cup B) /\ b \in Seq(A \cup B)
    BY <1>1, SeqMonotonic
  <2> QED  BY <2>1, ConcatProperties
<1>3. /\ \A i \in 1 .. Len(a) : a[i] \in A
      /\ \A i \in 1 .. Len(b) : b[i] \in B
  BY <1>1
<1> HIDE DEF list
<1>4. \A i \in 1 .. Len(list) : list[i] \in A <=> i <= Len(a)
  <2> SUFFICES ASSUME NEW i \in 1 .. Len(list)
               PROVE  list[i] \in A <=> i <= Len(a)
    OBVIOUS
  <2>1. CASE i <= Len(a)
    BY <1>2, <1>3, <2>1
  <2>2. CASE ~(i <= Len(a))
    <3>1. i - Len(a) \in 1 .. Len(b)
      BY <1>2, <2>2
    <3>2. list[i] \in B
      BY <1>2, <1>3, <2>2, <3>1
    <3> QED  BY <2>2, <3>2
  <2> QED  BY <2>1, <2>2
<1>5. \A i, j \in 1 .. Len(list) : list[i] = list[j] => i = j
  <2> SUFFICES ASSUME NEW i \in 1 .. Len(list), NEW j \in 1 .. Len(list), list[i] = list[j]
               PROVE  i = j
    OBVIOUS
  <2>1. CASE i <= Len(a) /\ j <= Len(a)
    <3>1. i \in 1 .. Len(a) /\ j \in 1 .. Len(a) /\ a[i] = a[j]
      BY <1>2, <2>1
    <3> QED  BY <3>1 DEF Enumerates
  <2>2. CASE ~(i <= Len(a)) /\ ~(j <= Len(a))
    <3>1. i - Len(a) \in 1 .. Len(b) /\ j - Len(a) \in 1 .. Len(b) /\ b[i - Len(a)] = b[j - Len(a)]
      BY <1>2, <2>2
    <3>2. i - Len(a) = j - Len(a)
      BY <3>1 DEF Enumerates
    <3> QED  BY <1>2, <3>2
  <2>3. CASE (i <= Len(a)) # (j <= Len(a))
    BY <1>4, <2>3
  <2> QED  BY <2>1, <2>2, <2>3
<1>6. ASSUME NEW x \in A
      PROVE  \E i \in 1 .. Len(list) : list[i] = x
  <2>1. PICK i \in 1 .. Len(a) : a[i] = x
    BY DEF Enumerates
  <2>2. i \in 1 .. Len(list) /\ list[i] = x
    BY <1>2, <2>1
  <2> QED  BY <2>2
<1>7. ASSUME NEW x \in B
      PROVE  \E i \in 1 .. Len(list) : list[i] = x
  <2>1. PICK i \in 1 .. Len(b) : b[i] = x
    BY DEF Enumerates
  <2>2. Len(a) + i \in 1 .. Len(list) /\ list[Len(a) + i] = b[(Len(a) + i) - Len(a)]
    BY <1>2
  <2>3. (Len(a) + i) - Len(a) = i
    BY <1>2
  <2> QED  BY <2>1, <2>2, <2>3
<1>8. Enumerates(list, A \cup B)
  BY <1>2, <1>5, <1>6, <1>7 DEF Enumerates
<1> QED  BY <1>4, <1>8 DEF list

\* What parseMounts lists are mounts of the table, each mount point once; and
\* all of them, if the whole table was read.
LEMMA ParseLists ==
    ASSUME NEW n \in {Len(Table), Len(Table) - 1}
    PROVE  LET list == parseMounts(n) IN
           /\ list \in Seq(Real)
           /\ \A i, j \in 1 .. Len(list) : Table[list[i]].mp = Table[list[j]].mp => i = j
           /\ n = Len(Table) =>
                 \A m \in Mounts : \E i \in 1 .. Len(list) : Table[list[i]].mp = m
<1> DEFINE A == {i \in Real : Fresh(n, i) /\ Table[i].fs = "local"}
           B == {i \in Real : Fresh(n, i) /\ Table[i].fs = "blocking"}
           a == Ascending(A)
           b == Ascending(B)
<1>1. Real \subseteq 1 .. Len(Table) /\ Real \subseteq Nat /\ IsFiniteSet(Real)
  <2>1. Real \subseteq 1 .. Len(Table) /\ Len(Table) \in Nat
    BY SystemAssumption DEF Real
  <2>2. IsFiniteSet(1 .. Len(Table))
    BY <2>1, FS_Interval
  <2>3. IsFiniteSet(Real)
    BY <2>1, <2>2, FS_Subset
  <2> QED  BY <2>1, <2>3
<1>2. A \in SUBSET Nat /\ B \in SUBSET Nat /\ IsFiniteSet(A) /\ IsFiniteSet(B)
  BY <1>1, FS_Subset
<1>3. Enumerates(a, A) /\ Enumerates(b, B)
  BY <1>2, AscendingLists
<1>5. \A x, y \in A \cup B : Table[x].mp = Table[y].mp => x = y
  BY <1>1 DEF Fresh
<1>6. n = Len(Table) => \A m \in Mounts : \E x \in A \cup B : Table[x].mp = m
  <2> SUFFICES ASSUME n = Len(Table), NEW m \in Mounts
               PROVE  \E x \in A \cup B : Table[x].mp = m
    OBVIOUS
  <2> DEFINE S == {i \in Real : Table[i].mp = m}
  <2>1. S \in SUBSET Nat /\ S # {}
    BY <1>1 DEF Mounts
  <2>2. PICK x \in S : \A y \in S : x <= y
    BY <2>1, FirstIndex
  <2>3. Fresh(n, x)
    BY <1>1, <2>2, SystemAssumption DEF Fresh
  <2>4. Table[x].fs \in {"local", "blocking"}
    BY <2>2, SystemAssumption DEF Real
  <2> QED  BY <2>2, <2>3, <2>4
<1>7. parseMounts(n) = a \o b
  BY DEF parseMounts, OfKind
<1>8. A \cap B = {} /\ A \cup B \subseteq Real
  OBVIOUS
<1> HIDE DEF A, B, a, b
<1> DEFINE list == a \o b
<1>9. Enumerates(list, A \cup B)
  BY <1>3, <1>8, JoinLists
<1> HIDE DEF list
<1>10. list \in Seq(Real)
  BY <1>8, <1>9, SeqMonotonic DEF Enumerates
<1>11. \A i \in 1 .. Len(list) : list[i] \in A \cup B
  BY <1>9 DEF Enumerates
<1>14. \A i, j \in 1 .. Len(list) : Table[list[i]].mp = Table[list[j]].mp => i = j
  BY <1>5, <1>9, <1>11 DEF Enumerates
<1>15. n = Len(Table) => \A m \in Mounts : \E i \in 1 .. Len(list) : Table[list[i]].mp = m
  BY <1>6, <1>9 DEF Enumerates
<1>16. parseMounts(n) = list
  BY <1>7 DEF list
<1> QED  BY <1>10, <1>14, <1>15, <1>16
-----------------------------------------------------------------------------
(* The polls.                                                               *)

\* Listing the mount at hand is one step along the list.
LEMMA ListMountWalks ==
    ASSUME SysShape, NEW p \in Polls, NEW ok \in BOOLEAN, PollOK(poll[p]),
           poll[p].pc \in {"next", "wait"}, poll[p].todo # <<>>, ListMount(p, ok)
    PROVE  /\ poll' \in [Polls -> PollState]
           /\ PollOK(poll'[p])
           /\ \A q \in Polls \ {p} : poll'[q] = poll[q]
<1> DEFINE old == poll[p]
           new == poll'[p]
           row == [mp |-> Mp(p), measured |-> ok]
<1>1. old \in PollState /\ poll \in [Polls -> PollState]
  BY DEF SysShape
<1>2. /\ old.todo \in Seq(Real) /\ old.disk \in Seq(DiskRow) /\ old.unmeasured \subseteq Mounts
      /\ old.partial \in BOOLEAN
  BY <1>1 DEF PollState
<1>3. Head(old.todo) \in Real /\ Mp(p) \in Mounts
  BY <1>2, HeadTailProperties DEF Mp, Mounts
<1>4. row \in DiskRow
  BY <1>3 DEF DiskRow
<1>5. /\ new = [old EXCEPT !.pc = "next", !.todo = Tail(old.todo), !.disk = Append(old.disk, row),
                            !.unmeasured = IF ok THEN old.unmeasured ELSE old.unmeasured \cup {Mp(p)}]
      /\ \A q \in Polls \ {p} : poll'[q] = poll[q]
  <2> DEFINE upd == [old EXCEPT !.pc = "next", !.todo = Tail(@), !.disk = Append(@, row),
                                !.unmeasured = IF ok THEN @ ELSE @ \cup {Mp(p)}]
  <2>1. poll' = [poll EXCEPT ![p] = upd]
    BY DEF ListMount
  <2>2. poll'[p] = upd /\ \A q \in Polls \ {p} : poll'[q] = poll[q]
    <3> HIDE DEF upd
    <3> QED  BY <1>1, <2>1
  <2> QED  BY <2>2
<1>6. DOMAIN poll' = Polls /\ poll' = [q \in Polls |-> poll'[q]]
  BY <1>1 DEF ListMount
<1>7. /\ new.pc = "next" /\ new.todo = Tail(old.todo) /\ new.disk = Append(old.disk, row)
      /\ new.unmeasured = (IF ok THEN old.unmeasured ELSE old.unmeasured \cup {Mp(p)})
      /\ new.partial = old.partial
  BY <1>1, <1>5 DEF PollState
<1>8. /\ new.todo \in Seq(Real) /\ Len(new.todo) = Len(old.todo) - 1
      /\ \A i \in 1 .. Len(new.todo) : new.todo[i] = old.todo[i + 1]
      /\ Len(old.todo) \in Nat \ {0} /\ Head(old.todo) = old.todo[1]
  BY <1>2, <1>7
<1>9. /\ new.disk \in Seq(DiskRow)
      /\ Len(new.disk) = Len(old.disk) + 1 /\ Len(old.disk) \in Nat
      /\ \A i \in 1 .. Len(old.disk) : new.disk[i] = old.disk[i]
      /\ new.disk[Len(old.disk) + 1] = row
  BY <1>2, <1>4, <1>7, AppendProperties
<1>10. poll' \in [Polls -> PollState]
  <2>1. new.unmeasured \in SUBSET Mounts
    BY <1>2, <1>3, <1>7
  <2>2. DOMAIN new = DOMAIN old
    BY <1>5
  <2>3. new \in PollState
    BY <1>1, <1>2, <1>5, <1>7, <1>8, <1>9, <2>1, <2>2 DEF PollState
  <2> QED  BY <1>1, <1>5, <1>6, <2>3
<1>11. PICK n \in {Len(Table), Len(Table) - 1} :
           /\ old.partial \/ n = Len(Table)
           /\ Walks(old, parseMounts(n))
  BY DEF PollOK
<1> DEFINE list == parseMounts(n)
           d == Len(old.disk)
           t == Len(old.todo)
<1>12. /\ d + t = Len(list) /\ d \in Nat /\ t \in Nat \ {0}
       /\ \A i \in 1 .. d : old.disk[i].mp = Table[list[i]].mp
       /\ \A i \in 1 .. t : old.todo[i] = list[d + i]
  BY <1>8, <1>9, <1>11 DEF Walks
<1>13. /\ Len(new.disk) = d + 1 /\ Len(new.todo) = t - 1
       /\ \A i \in 1 .. d : new.disk[i] = old.disk[i]
       /\ new.disk[d + 1] = row
       /\ \A i \in 1 .. (t - 1) : new.todo[i] = old.todo[i + 1]
       /\ Head(old.todo) = old.todo[1]
  BY <1>8, <1>9
<1> HIDE DEF list, old, new, row, d, t
<1>14. Walks(new, list)
  <2>1. Len(new.disk) + Len(new.todo) = Len(list)
    <3>1. d + t = Len(list) /\ d \in Nat /\ t \in Nat
      BY <1>12
    <3>2. Len(new.disk) = d + 1 /\ Len(new.todo) = t - 1
      BY <1>13
    <3>3. (d + 1) + (t - 1) = d + t
      BY <3>1
    <3> QED  BY <3>1, <3>2, <3>3
  <2>2. ASSUME NEW i \in 1 .. Len(new.disk)
        PROVE  new.disk[i].mp = Table[list[i]].mp
    <3>1. CASE i \in 1 .. d
      BY <1>12, <1>13, <3>1
    <3>2. CASE i = d + 1
      <4>1. new.disk[i].mp = Mp(p)
        BY <1>13, <3>2 DEF row
      <4>2. Head(old.todo) = list[i]
        BY <1>12, <1>13, <3>2
      <4> QED  BY <4>1, <4>2 DEF Mp, old
    <3> QED  BY <1>12, <1>13, <3>1, <3>2
  <2>3. ASSUME NEW i \in 1 .. Len(new.todo)
        PROVE  new.todo[i] = list[Len(new.disk) + i]
    <3>1. i + 1 \in 1 .. t /\ new.todo[i] = old.todo[i + 1]
      BY <1>12, <1>13
    <3>2. old.todo[i + 1] = list[d + (i + 1)]
      BY <1>12, <3>1
    <3>3. d + (i + 1) = Len(new.disk) + i
      BY <1>12, <1>13
    <3> QED  BY <3>1, <3>2, <3>3
  <2> QED  BY <2>1, <2>2, <2>3 DEF Walks
<1>15. new.unmeasured = Unmeasured(new)
  <2>1. old.unmeasured = Unmeasured(old)
    BY DEF PollOK, old
  <2>2. DOMAIN old.disk = 1 .. d /\ DOMAIN new.disk = 1 .. (d + 1)
    BY <1>2, <1>9 DEF d
  <2>3. Unmeasured(new) = Unmeasured(old) \cup (IF ok THEN {} ELSE {Mp(p)})
    <3>1. row.mp = Mp(p) /\ row.measured = ok
      BY DEF row
    <3>2. \A i : i \in 1 .. (d + 1) <=> i \in 1 .. d \/ i = d + 1
      BY <1>12
    <3> QED  BY <1>13, <2>2, <3>1, <3>2 DEF Unmeasured
  <2> QED  BY <1>7, <2>1, <2>3
<1>16. PollOK(new)
  <2>1. new.partial \/ n = Len(Table)
    BY <1>7, <1>11 DEF old
  <2> QED  BY <1>7, <1>14, <1>15, <2>1 DEF PollOK, list
<1> QED  BY <1>5, <1>10, <1>16 DEF new
\* A poll that has read the table is at the beginning of its list.
LEMMA ReadMountsWalks ==
    ASSUME SysShape, NEW p \in Polls, PollOK(poll[p]), readMounts(p)
    PROVE  poll' \in [Polls -> PollState] /\ PollOK(poll'[p])
           /\ \A q \in Polls \ {p} : poll'[q] = poll[q]
<1> DEFINE old == poll[p]
           new == poll'[p]
<1>1. old \in PollState /\ poll \in [Polls -> PollState]
  BY DEF SysShape
<1>2. PICK n \in {Len(Table), Len(Table) - 1} :
          poll' = [poll EXCEPT ![p].pc = "next", ![p].todo = parseMounts(n),
                               ![p].partial = n < Len(Table)]
  BY DEF readMounts
<1>3. parseMounts(n) \in Seq(Real)
  BY ParseLists
<1>4. n \in Int /\ Len(Table) \in Int /\ (n < Len(Table)) \in BOOLEAN /\ (n < Len(Table) \/ n = Len(Table))
  BY SystemAssumption
<1> HIDE DEF parseMounts
<1>5. /\ new = [old EXCEPT !.pc = "next", !.todo = parseMounts(n), !.partial = n < Len(Table)]
      /\ \A q \in Polls \ {p} : poll'[q] = poll[q]
  BY <1>1, <1>2
<1>6. /\ new.pc = "next" /\ new.todo = parseMounts(n) /\ new.disk = old.disk
      /\ new.unmeasured = old.unmeasured /\ new.partial = (n < Len(Table))
  BY <1>1, <1>5 DEF PollState
<1>7. new \in PollState
  BY <1>1, <1>3, <1>4, <1>5 DEF PollState
<1>8. poll' \in [Polls -> PollState]
  BY <1>1, <1>2, <1>7
<1>9. old.disk = <<>> /\ old.unmeasured = Unmeasured(old)
  BY DEF PollOK, readMounts
<1>10. Walks(new, parseMounts(n))
  <2>1. Len(<<>>) = 0 /\ Len(parseMounts(n)) \in Nat
    BY <1>3, LenProperties
  <2> QED  BY <1>6, <1>9, <2>1 DEF Walks
<1>11. new.unmeasured = Unmeasured(new)
  BY <1>6, <1>9 DEF Unmeasured
<1>12. new.partial \/ n = Len(Table)
  BY <1>4, <1>6
<1>13. PollOK(new)
  BY <1>6, <1>10, <1>11, <1>12 DEF PollOK
<1> QED  BY <1>5, <1>8, <1>13

\* Waiting and returning move no poll along its list.
LEMMA OnlyPc ==
    ASSUME SysShape, NEW p \in Polls, PollOK(poll[p]), NEW pc \in {"wait", "done"},
           poll[p].pc = "next", pc = "wait" => poll[p].todo # <<>>, pc = "done" => poll[p].todo = <<>>,
           poll' = [poll EXCEPT ![p].pc = pc]
    PROVE  poll' \in [Polls -> PollState] /\ PollOK(poll'[p])
           /\ \A q \in Polls \ {p} : poll'[q] = poll[q]
<1> DEFINE old == poll[p]
           new == poll'[p]
<1>1. old \in PollState /\ poll \in [Polls -> PollState]
  BY DEF SysShape
<1>2. /\ new.pc = pc /\ new.todo = old.todo /\ new.disk = old.disk
      /\ new.unmeasured = old.unmeasured /\ new.partial = old.partial
      /\ new \in PollState /\ \A q \in Polls \ {p} : poll'[q] = poll[q]
  BY <1>1 DEF PollState
<1>3. poll' \in [Polls -> PollState]
  BY <1>1, <1>2
<1> HIDE DEF old, new
<1>4. new.unmeasured = Unmeasured(new)
  <2>1. Unmeasured(new) = Unmeasured(old)
    BY <1>2 DEF Unmeasured
  <2> QED  BY <1>2, <2>1 DEF PollOK, old
<1>5. PICK n \in {Len(Table), Len(Table) - 1} :
         (old.partial \/ n = Len(Table)) /\ Walks(old, parseMounts(n))
  BY DEF PollOK, old
<1>6. (new.partial \/ n = Len(Table)) /\ Walks(new, parseMounts(n))
  BY <1>2, <1>5 DEF Walks
<1>7. (new.pc = "wait" => new.todo # <<>>) /\ (new.pc = "done" => new.todo = <<>>) /\ new.pc # "start"
  BY <1>2 DEF old
<1>8. PollOK(new)
  BY <1>4, <1>6, <1>7 DEF PollOK
<1> QED  BY <1>2, <1>3, <1>8 DEF new

\* Every step keeps what is said of the polls.
LEMMA PollsStep ==
    ASSUME SysInv, [SysNext]_sysVars
    PROVE  poll' \in [Polls -> PollState] /\ \A p \in Polls : PollOK(poll'[p])
<1> DEFINE Goal(p) == /\ poll' \in [Polls -> PollState] /\ PollOK(poll'[p])
                      /\ \A q \in Polls \ {p} : poll'[q] = poll[q]
           P == poll' \in [Polls -> PollState] /\ \A p \in Polls : PollOK(poll'[p])
<1>1. SysShape /\ \A p \in Polls : PollOK(poll[p])
  BY DEF SysInv
<1>2. ASSUME NEW p \in Polls, Goal(p)
      PROVE  P
  BY <1>1, <1>2
<1>3. ASSUME NEW p \in Polls, PollStep(p)
      PROVE  P
  <2> HIDE DEF P
  <2>1. CASE readMounts(p)
    BY <1>1, <1>2, <2>1, ReadMountsWalks
  <2>2. CASE ProbeBusy(p)
    <3>1. ListMount(p, FALSE) /\ poll[p].pc = "next" /\ poll[p].todo # <<>>
      BY <2>2 DEF ProbeBusy
    <3> QED  BY <1>1, <1>2, <3>1, ListMountWalks
  <2>3. CASE LaunchProbe(p)
    <3>1. poll' = [poll EXCEPT ![p].pc = "wait"] /\ poll[p].pc = "next" /\ poll[p].todo # <<>>
      BY <2>3 DEF LaunchProbe
    <3> QED  BY <1>1, <1>2, <3>1, OnlyPc
  <2>4. CASE ProbeResult(p)
    <3> DEFINE ok == probe[p][Mp(p)] \in {"up", "up_end"}
    <3>1. ok \in BOOLEAN /\ ListMount(p, ok)
      BY <2>4 DEF ProbeResult
    <3> HIDE DEF ok
    <3>2. poll[p].pc = "wait" /\ poll[p].todo # <<>>
      BY <1>1, <2>4 DEF ProbeResult, PollOK
    <3> QED  BY <1>1, <1>2, <3>1, <3>2, ListMountWalks
  <2>5. CASE ProbeTimeout(p)
    <3>1. ListMount(p, FALSE) /\ poll[p].pc = "wait" /\ poll[p].todo # <<>>
      BY <1>1, <2>5 DEF ProbeTimeout, PollOK
    <3> QED  BY <1>1, <1>2, <3>1, ListMountWalks
  <2>6. CASE PollReturns(p)
    <3>1. poll' = [poll EXCEPT ![p].pc = "done"] /\ poll[p].pc = "next" /\ poll[p].todo = <<>>
      BY <2>6 DEF PollReturns
    <3> QED  BY <1>1, <1>2, <3>1, OnlyPc
  <2> QED  BY <1>3, <2>1, <2>2, <2>3, <2>4, <2>5, <2>6 DEF PollStep
<1>4. ASSUME UNCHANGED poll
      PROVE  P
  BY <1>1, <1>4 DEF SysShape
<1> HIDE DEF P
<1>5. ASSUME NEW p \in Polls, NEW m \in Mounts, ProbeStep(p, m)
      PROVE  UNCHANGED poll
  BY <1>5 DEF ProbeStep, StatfsReturns, Unmark
<1>6. ASSUME HealthChanges \/ UNCHANGED sysVars
      PROVE  P
  BY <1>4, <1>6 DEF HealthChanges, sysVars
<1>7. P
  BY <1>3, <1>4, <1>5, <1>6 DEF SysNext
<1> QED  BY <1>7 DEF P

-----------------------------------------------------------------------------
(* The marks.                                                               *)

\* Only a launch puts a goroutine at a mount, and marks it; only its own
\* goroutine takes the mark away.
LEMMA MarksStep ==
    ASSUME SysInv, [SysNext]_sysVars
    PROVE  inFlight' \subseteq Mounts /\ probe' \in [Polls -> [Mounts -> ProbeState]] /\ Marks'
<1>1. /\ inFlight \subseteq Mounts /\ probe \in [Polls -> [Mounts -> ProbeState]] /\ Marks
      /\ poll \in [Polls -> PollState]
  BY DEF SysInv, SysShape
<1> DEFINE P == inFlight' \subseteq Mounts /\ probe' \in [Polls -> [Mounts -> ProbeState]] /\ Marks'
<1>2. ASSUME NEW p \in Polls, LaunchProbe(p)
      PROVE  P
  <2> DEFINE m == Mp(p)
  <2>1. m \in Mounts
    <3>1. poll[p].todo \in Seq(Real) /\ poll[p].todo # <<>>
      BY <1>1, <1>2 DEF LaunchProbe, PollState
    <3> QED  BY <3>1, HeadTailProperties DEF Mp, Mounts
  <2>2. /\ m \notin inFlight /\ inFlight' = inFlight \cup {m}
        /\ probe' = [probe EXCEPT ![p][m] = "statfs"]
    BY <1>2 DEF LaunchProbe
  <2> HIDE DEF m
  <2>3. probe' \in [Polls -> [Mounts -> ProbeState]]
    BY <1>1, <2>1, <2>2 DEF ProbeState
  <2>4. \A q \in Polls, k \in Mounts :
            probe'[q][k] = IF q = p /\ k = m THEN "statfs" ELSE probe[q][k]
    BY <1>1, <2>1, <2>2
  <2>5. \A q \in Polls : ~AtMount(q, m)
    BY <1>1, <2>1, <2>2 DEF Marks
  <2>6. Marks'
    BY <1>1, <2>1, <2>2, <2>4, <2>5 DEF Marks, AtMount
  <2> QED  BY <1>1, <2>1, <2>2, <2>3, <2>6
<1>3. ASSUME NEW p \in Polls, NEW m \in Mounts, StatfsReturns(p, m)
      PROVE  P
  <2>1. PICK r \in {"up", "error"} : probe' = [probe EXCEPT ![p][m] = r]
    BY <1>3 DEF StatfsReturns
  <2>2. probe[p][m] = "statfs" /\ inFlight' = inFlight
    BY <1>3 DEF StatfsReturns
  <2>3. probe' \in [Polls -> [Mounts -> ProbeState]]
    BY <1>1, <2>1 DEF ProbeState
  <2>4. \A q \in Polls, k \in Mounts :
            probe'[q][k] = IF q = p /\ k = m THEN r ELSE probe[q][k]
    BY <1>1, <2>1
  <2>5. \A q \in Polls, k \in Mounts : AtMount(q, k)' <=> AtMount(q, k)
    BY <2>2, <2>4 DEF AtMount
  <2>6. Marks'
    BY <1>1, <2>2, <2>5 DEF Marks
  <2> QED  BY <1>1, <2>2, <2>3, <2>6
<1>4. ASSUME NEW p \in Polls, NEW m \in Mounts, Unmark(p, m)
      PROVE  P
  <2>1. PICK r \in {"up_end", "error_end"} : probe' = [probe EXCEPT ![p][m] = r]
    BY <1>4 DEF Unmark
  <2>2. AtMount(p, m) /\ inFlight' = inFlight \ {m}
    BY <1>4 DEF Unmark, AtMount
  <2>3. probe' \in [Polls -> [Mounts -> ProbeState]]
    BY <1>1, <2>1 DEF ProbeState
  <2>4. \A q \in Polls, k \in Mounts :
            probe'[q][k] = IF q = p /\ k = m THEN r ELSE probe[q][k]
    BY <1>1, <2>1
  <2>5. \A q \in Polls, k \in Mounts : AtMount(q, k)' <=> AtMount(q, k) /\ k # m
    <3> SUFFICES ASSUME NEW q \in Polls, NEW k \in Mounts
                 PROVE  AtMount(q, k)' <=> AtMount(q, k) /\ k # m
      OBVIOUS
    <3>1. CASE k # m
      BY <2>4, <3>1 DEF AtMount
    <3>2. CASE k = m /\ q = p
      BY <2>4, <3>2 DEF AtMount
    <3>3. CASE k = m /\ q # p
      BY <1>1, <2>2, <2>4, <3>3 DEF Marks, AtMount
    <3> QED  BY <3>1, <3>2, <3>3
  <2>6. Marks'
    BY <1>1, <2>2, <2>5 DEF Marks
  <2> QED  BY <1>1, <2>2, <2>3, <2>6
<1>5. ASSUME UNCHANGED <<inFlight, probe>>
      PROVE  P
  BY <1>1, <1>5 DEF Marks, AtMount
<1> HIDE DEF P
<1>6. ASSUME NEW p \in Polls, PollStep(p)
      PROVE  LaunchProbe(p) \/ UNCHANGED <<inFlight, probe>>
  BY <1>6 DEF PollStep, readMounts, ProbeBusy, ProbeResult, ProbeTimeout, PollReturns
<1>7. ASSUME HealthChanges \/ UNCHANGED sysVars
      PROVE  P
  BY <1>5, <1>7 DEF HealthChanges, sysVars
<1>8. P
  BY <1>2, <1>3, <1>4, <1>5, <1>6, <1>7 DEF SysNext, ProbeStep
<1> QED  BY <1>8 DEF P

-----------------------------------------------------------------------------
\* The invariant holds throughout.
THEOREM SysInvariance == SysSpec => []SysInv
<1>1. SysInit => SysInv
  <2> SUFFICES ASSUME SysInit PROVE SysInv
    OBVIOUS
  <2>1. NewPoll \in PollState
    BY EmptySeq DEF NewPoll, PollState
  <2>2. SysShape
    BY <2>1 DEF SysInit, SysShape, ProbeState
  <2>3. Marks
    BY DEF SysInit, Marks, AtMount
  <2>4. PollOK(NewPoll)
    BY DEF PollOK, NewPoll, Unmeasured
  <2> QED  BY <2>2, <2>3, <2>4 DEF SysInit, SysInv
<1>2. SysInv /\ [SysNext]_sysVars => SysInv'
  BY PollsStep, MarksStep DEF SysInv, SysShape
<1> QED  BY <1>1, <1>2, PTL DEF SysSpec

\* However polls overlap and give up, a mount has at most one goroutine at it,
\* and its mark is there exactly as long.
THEOREM OneProbe == SysSpec => []OneProbePerMount
<1>1. SysInv => OneProbePerMount
  <2> SUFFICES ASSUME SysInv, NEW m \in Mounts
               PROVE  Cardinality({p \in Polls : AtMount(p, m)}) = IF m \in inFlight THEN 1 ELSE 0
    BY DEF OneProbePerMount, AtMount
  <2>1. CASE m \in inFlight
    <3>1. PICK p \in Polls : AtMount(p, m)
      BY <2>1 DEF SysInv, Marks
    <3>2. {q \in Polls : AtMount(q, m)} = {p}
      BY <3>1 DEF SysInv, Marks
    <3> QED  BY <2>1, <3>2, FS_Singleton
  <2>2. CASE m \notin inFlight
    <3>1. {q \in Polls : AtMount(q, m)} = {}
      BY <2>2 DEF SysInv, Marks
    <3> QED  BY <2>2, <3>1, FS_EmptySet
  <2> QED  BY <2>1, <2>2
<1> QED  BY <1>1, SysInvariance, PTL

\* Every poll returns a list with each mount once, all of them if the table was
\* read to its end, and names those it could not measure.
THEOREM DisksListed == SysSpec => []DiskListComplete
<1>1. SysInv => DiskListComplete
  <2> SUFFICES ASSUME SysInv, NEW p \in Polls, poll[p].pc = "done"
               PROVE  LET disk == poll[p].disk IN
                      /\ \A i, j \in DOMAIN disk : disk[i].mp = disk[j].mp => i = j
                      /\ poll[p].partial \/ {disk[i].mp : i \in DOMAIN disk} = Mounts
                      /\ poll[p].unmeasured = {disk[i].mp : i \in {k \in DOMAIN disk : ~disk[k].measured}}
    BY DEF DiskListComplete
  <2> DEFINE q == poll[p]
             d == q.disk
  <2>1. q \in PollState /\ PollOK(q) /\ q.pc = "done"
    BY DEF SysInv, SysShape
  <2>2. q.todo = <<>> /\ q.unmeasured = Unmeasured(q)
    BY <2>1 DEF PollOK
  <2>3. PICK n \in {Len(Table), Len(Table) - 1} :
            (q.partial \/ n = Len(Table)) /\ Walks(q, parseMounts(n))
    BY <2>1 DEF PollOK
  <2> DEFINE list == parseMounts(n)
  <2>4. d \in Seq(DiskRow) /\ DOMAIN d = 1 .. Len(d) /\ Len(d) \in Nat
    BY <2>1 DEF PollState
  <2>5. Len(d) = Len(list) /\ \A i \in 1 .. Len(d) : d[i].mp = Table[list[i]].mp
    <3>1. Len(d) + Len(q.todo) = Len(list) /\ Len(q.todo) = 0
      BY <2>2, <2>3 DEF Walks
    <3>2. \A i \in 1 .. Len(d) : d[i].mp = Table[list[i]].mp
      BY <2>3 DEF Walks
    <3> QED  BY <2>4, <3>1, <3>2
  <2>6. /\ list \in Seq(Real)
        /\ \A i, j \in 1 .. Len(list) : Table[list[i]].mp = Table[list[j]].mp => i = j
        /\ n = Len(Table) => \A m \in Mounts : \E i \in 1 .. Len(list) : Table[list[i]].mp = m
    BY ParseLists
  <2> HIDE DEF list, q
  <2>7. \A i, j \in DOMAIN d : d[i].mp = d[j].mp => i = j
    BY <2>4, <2>5, <2>6
  <2>8. n = Len(Table) => {d[i].mp : i \in DOMAIN d} = Mounts
    <3>1. \A i \in 1 .. Len(d) : d[i] \in DiskRow
      BY <2>4
    <3>2. \A i \in 1 .. Len(d) : d[i].mp \in Mounts
      BY <3>1 DEF DiskRow
    <3> QED  BY <2>4, <2>5, <2>6, <3>2
  <2> QED  BY <2>2, <2>3, <2>7, <2>8 DEF Unmeasured, q
<1> QED  BY <1>1, SysInvariance, PTL
=============================================================================
