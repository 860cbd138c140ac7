----------------------------- MODULE Table_proofs -----------------------------
(***************************************************************************)
(* Proofs about Table for any finite set of keys, any values, any number   *)
(* of lists and any sums of characters: the lists stay sorted, and the     *)
(* calls that put, remove and get do to the content of the table what they *)
(* do to the map of KVMap, with its results.                               *)
(***************************************************************************)
EXTENDS Table, SequenceTheorems, FiniteSetTheorems, WellFoundedInduction, TLAPS

-----------------------------------------------------------------------------
\* Sequences

\* A set of natural numbers has a least element.
LEMMA LeastIndex ==
    ASSUME NEW T \in SUBSET Nat, T # {}
    PROVE  Min(T) \in T /\ \A m \in T : Min(T) <= m
<1>1. PICK n \in T : \A m \in T : <<m, n>> \notin OpToRel(<, Nat)
  BY WFMin, NatLessThanWellFounded, Zenon
<1>2. \A m \in T : ~ (m < n)
  BY <1>1 DEF OpToRel
<1>3. \E x \in T : \A m \in T : x <= m
  BY <1>2
<1> QED
  BY <1>3 DEF Min

\* What InsertAt puts where.
LEMMA Inserted ==
    ASSUME NEW S, NEW s \in Seq(S), NEW e \in S, NEW i \in 1 .. Len(s) + 1
    PROVE  /\ InsertAt(s, i, e) \in Seq(S)
           /\ Len(InsertAt(s, i, e)) = Len(s) + 1
           /\ \A j \in DOMAIN s : j < i => InsertAt(s, i, e)[j] = s[j]
           /\ InsertAt(s, i, e)[i] = e
           /\ \A j \in DOMAIN s : j >= i => InsertAt(s, i, e)[j + 1] = s[j]
<1> DEFINE front == SubSeq(s, 1, i - 1)
           back == SubSeq(s, i, Len(s))
           start == front \o <<e>>
<1>1. Len(s) \in Nat /\ DOMAIN s = 1 .. Len(s) /\ i \in Nat
  OBVIOUS
<1>2. front \in Seq(S) /\ Len(front) = i - 1 /\ \A j \in 1 .. i - 1 : front[j] = s[j]
  BY <1>1, SubSeqProperties
<1>3. /\ back \in Seq(S) /\ Len(back) = Len(s) + 1 - i
      /\ \A j \in 1 .. Len(s) + 1 - i : back[j] = s[j + i - 1]
  BY <1>1, SubSeqProperties
<1> HIDE DEF front, back
<1>4. start \in Seq(S) /\ Len(start) = i
  BY <1>1, <1>2, ConcatProperties
<1>5. \A j \in 1 .. i : start[j] = IF j < i THEN s[j] ELSE e
  BY <1>1, <1>2
<1> HIDE DEF start
<1>6. /\ start \o back \in Seq(S) /\ Len(start \o back) = Len(start) + Len(back)
      /\ \A j \in 1 .. Len(start) + Len(back) :
            (start \o back)[j] = IF j <= Len(start) THEN start[j] ELSE back[j - Len(start)]
  BY <1>3, <1>4, ConcatProperties
<1>7. ASSUME NEW j \in DOMAIN s, j < i PROVE (start \o back)[j] = s[j]
  BY <1>1, <1>3, <1>4, <1>5, <1>6, <1>7
<1>8. (start \o back)[i] = e
  BY <1>1, <1>3, <1>4, <1>5, <1>6
<1>9. ASSUME NEW j \in DOMAIN s, j >= i PROVE (start \o back)[j + 1] = s[j]
  <2>1. /\ j \in Nat /\ j + 1 \in 1 .. Len(start) + Len(back) /\ ~(j + 1 <= Len(start))
        /\ (j + 1) - Len(start) \in 1 .. Len(s) + 1 - i
        /\ ((j + 1) - Len(start)) + i - 1 = j
    <3>1. j \in Nat /\ i \in Nat /\ j >= i /\ j <= Len(s) /\ Len(start) = i
          /\ Len(back) = Len(s) + 1 - i
      BY <1>1, <1>3, <1>4, <1>9
    <3>2. Len(s) \in Nat
      BY <1>1
    <3> QED
      BY <3>1, <3>2, SMTT(30)
  <2>2. (start \o back)[j + 1] = back[(j + 1) - Len(start)]
    BY <1>6, <2>1
  <2>3. back[(j + 1) - Len(start)] = s[j]
    BY <1>3, <2>1
  <2> QED
    BY <2>2, <2>3
<1>10. InsertAt(s, i, e) = start \o back
  BY DEF InsertAt, front, back, start
<1>11. Len(start) + Len(back) = Len(s) + 1
  BY <1>1, <1>3, <1>4
<1> QED
  BY <1>6, <1>7, <1>8, <1>9, <1>10, <1>11

\* What RemoveAt leaves where.
LEMMA Removed ==
    ASSUME NEW S, NEW s \in Seq(S), NEW i \in DOMAIN s
    PROVE  /\ RemoveAt(s, i) \in Seq(S)
           /\ Len(RemoveAt(s, i)) = Len(s) - 1
           /\ \A j \in 1 .. Len(s) - 1 : RemoveAt(s, i)[j] = IF j < i THEN s[j] ELSE s[j + 1]
<1> DEFINE front == SubSeq(s, 1, i - 1)
           back == SubSeq(s, i + 1, Len(s))
<1>1. Len(s) \in Nat /\ i \in 1 .. Len(s) /\ DOMAIN s = 1 .. Len(s)
  OBVIOUS
<1>2. front \in Seq(S) /\ Len(front) = i - 1 /\ \A j \in 1 .. i - 1 : front[j] = s[j]
  BY <1>1, SubSeqProperties
<1>3. /\ back \in Seq(S) /\ Len(back) = Len(s) - i
      /\ \A j \in 1 .. Len(s) - i : back[j] = s[j + i]
  BY <1>1, SubSeqProperties
<1> HIDE DEF front, back
<1>4. /\ front \o back \in Seq(S) /\ Len(front \o back) = Len(front) + Len(back)
      /\ \A j \in 1 .. Len(front) + Len(back) :
            (front \o back)[j] = IF j <= Len(front) THEN front[j] ELSE back[j - Len(front)]
  BY <1>2, <1>3, ConcatProperties
<1>5. ASSUME NEW j \in 1 .. Len(s) - 1
      PROVE  (front \o back)[j] = IF j < i THEN s[j] ELSE s[j + 1]
  <2>1. CASE j < i
    BY <1>1, <1>2, <1>3, <1>4, <2>1
  <2>2. CASE j >= i
    <3>1. j - (i - 1) \in 1 .. Len(s) - i /\ (j - (i - 1)) + i = j + 1
      BY <1>1, <2>2
    <3>2. back[j - (i - 1)] = s[j + 1]
      BY <1>3, <3>1
    <3>3. j \in Nat /\ j \in 1 .. Len(front) + Len(back) /\ ~(j <= Len(front)) /\ ~(j < i)
          /\ Len(front) = i - 1
      BY <1>1, <1>2, <1>3, <2>2
    <3>4. (front \o back)[j] = back[j - (i - 1)]
      BY <1>4, <3>3
    <3> QED
      BY <3>2, <3>3, <3>4
  <2>3. j < i \/ j >= i
    BY <1>1
  <2> QED
    BY <2>1, <2>2, <2>3, Zenon
<1>6. RemoveAt(s, i) = front \o back
  BY DEF RemoveAt, front, back
<1>7. Len(front) + Len(back) = Len(s) - 1
  BY <1>1, <1>2, <1>3
<1> QED
  BY <1>4, <1>5, <1>6, <1>7

-----------------------------------------------------------------------------
\* Loops

\* A loop that counts up reaches every number.
LEMMA CountUp ==
    ASSUME NEW N \in Nat, NEW T, 0 \in T, \A i \in 1 .. N : i - 1 \in T => i \in T
    PROVE  \A i \in 0 .. N : i \in T
<1> DEFINE missed == (0 .. N) \ T
<1>1. CASE missed = {}
  BY <1>1
<1>2. CASE missed # {}
  <2>1. missed \in SUBSET Nat
    OBVIOUS
  <2>2. PICK m \in missed : \A i \in missed : m <= i
    BY <1>2, <2>1, LeastIndex
  <2>3. m \in 1 .. N /\ m - 1 \in 0 .. N
    BY <2>2
  <2>4. m - 1 \in T
    BY <2>2, <2>3
  <2> QED
    BY <2>2, <2>3, <2>4
<1> QED
  BY <1>1, <1>2

\* The values of a loop before its first and after each of its turns.
Runs(N, S, base, turn, g) ==
    /\ g \in [0 .. N -> S]
    /\ g[0] = base
    /\ \A i \in 1 .. N : g[i] = turn[i][g[i - 1]]

\* There are such values, if every turn has one.
LEMMA LoopRuns ==
    ASSUME NEW N \in Nat, NEW S, NEW base \in S, NEW turn \in [1 .. N -> [S -> S]]
    PROVE  \E g : Runs(N, S, base, turn, g)
<1> DEFINE T == {n \in 0 .. N : \E g : Runs(n, S, base, turn, g)}
<1>1. 0 \in T
  <2>1. Runs(0, S, base, turn, [i \in 0 .. 0 |-> base])
    BY DEF Runs
  <2> QED
    BY <2>1
<1>2. ASSUME NEW n \in 1 .. N, n - 1 \in T PROVE n \in T
  <2>1. PICK g : Runs(n - 1, S, base, turn, g)
    BY <1>2
  <2> DEFINE h == [i \in 0 .. n |-> IF i = n THEN turn[n][g[n - 1]] ELSE g[i]]
  <2>2. /\ n - 1 \in 0 .. n - 1 /\ n \in Nat /\ n # 0 /\ 0 \in 0 .. n
        /\ \A i \in 1 .. n : (i = n \/ i \in 1 .. n - 1) /\ i \in 0 .. n /\ i - 1 \in 0 .. n /\ i - 1 # n
    OBVIOUS
  <2>3. turn[n] \in [S -> S] /\ g[n - 1] \in S
    BY <2>1, <2>2 DEF Runs
  <2>4. h \in [0 .. n -> S]
    BY <2>1, <2>2, <2>3 DEF Runs
  <2>5. h[0] = base
    BY <2>1, <2>2 DEF Runs
  <2>6. ASSUME NEW i \in 1 .. n PROVE h[i] = turn[i][h[i - 1]]
    <3>1. h[i - 1] = g[i - 1]
      BY <2>2
    <3>2. CASE i = n
      BY <2>2, <3>1, <3>2
    <3>3. CASE i # n
      BY <2>1, <2>2, <3>1, <3>3 DEF Runs
    <3> QED
      BY <3>2, <3>3
  <2> HIDE DEF h
  <2>7. Runs(n, S, base, turn, h)
    BY <2>4, <2>5, <2>6 DEF Runs
  <2>8. n \in 0 .. N
    OBVIOUS
  <2> QED
    BY <2>7, <2>8
<1> HIDE DEF T
<1>3. \A i \in 1 .. N : i - 1 \in T => i \in T
  BY <1>2
<1>4. N \in T
  <2>1. \A i \in 0 .. N : i \in T
    BY <1>1, <1>3, CountUp
  <2>2. N \in 0 .. N
    OBVIOUS
  <2> QED
    BY <2>1, <2>2
<1> QED
  BY <1>4 DEF T

-----------------------------------------------------------------------------
\* Lists

Entries == [key : Keys, value : Values]
Lists == [size : Nat, nodes : Seq(Entries)]

\* What TableInv says of a list.
Sorted(list) ==
    /\ list \in Lists
    /\ list.size = Len(list.nodes)
    /\ Increasing(list)

\* What a list holds, whatever the order.
EntriesOf(list) == {list.nodes[i] : i \in DOMAIN list.nodes}

\* Nodes are entries, and their keys are numbers.
LEMMA ListTypes ==
    ASSUME NEW list \in Lists
    PROVE  /\ list.nodes \in Seq(Entries) /\ list.size \in Nat
           /\ Len(list.nodes) \in Nat /\ DOMAIN list.nodes = 1 .. Len(list.nodes)
           /\ \A i \in DOMAIN list.nodes :
                /\ list.nodes[i] \in Entries
                /\ list.nodes[i].key \in Keys /\ list.nodes[i].key \in Nat
                /\ list.nodes[i].value \in Values
           /\ EntriesOf(list) \subseteq Entries
<1>1. list.nodes \in Seq(Entries) /\ list.size \in Nat
  BY DEF Lists
<1>2. \A i \in DOMAIN list.nodes : list.nodes[i] \in Entries
  BY <1>1
<1>3. \A x \in Entries : x.key \in Keys /\ x.key \in Nat /\ x.value \in Values
  BY KeysAssumption DEF Entries
<1> QED
  BY <1>1, <1>2, <1>3 DEF EntriesOf

\* In a sorted list the loops stop at the only node with the key.
LEMMA PlaceFound ==
    ASSUME NEW list, Sorted(list), NEW i \in DOMAIN list.nodes
    PROVE  /\ Holding(list, list.nodes[i].key) = {i}
           /\ Place(list, list.nodes[i].key) = i
<1>1. DOMAIN list.nodes \subseteq Nat /\ i \in Nat
      /\ \A j \in DOMAIN list.nodes : list.nodes[j].key \in Nat
  BY ListTypes DEF Sorted
<1>2. \A j, k \in DOMAIN list.nodes : j < k => list.nodes[j].key < list.nodes[k].key
  BY DEF Sorted, Increasing, entry_before
<1>3. \A j \in DOMAIN list.nodes : list.nodes[j].key = list.nodes[i].key => j = i
  BY <1>1, <1>2
<1>4. Holding(list, list.nodes[i].key) = {i}
  BY <1>3 DEF Holding
<1>5. Min({i}) \in {i}
  BY <1>1, LeastIndex
<1> QED
  BY <1>4, <1>5 DEF Place

\* list_get depends on what the list holds only.
LEMMA GetFound ==
    ASSUME NEW list, Sorted(list), NEW key
    PROVE  /\ \A x \in EntriesOf(list) :
                x.key = key => list_get(list, key) = x.value /\ Holding(list, key) # {}
           /\ (\A x \in EntriesOf(list) : x.key # key) =>
                list_get(list, key) = NULL /\ Holding(list, key) = {}
<1>1. ASSUME NEW x \in EntriesOf(list), x.key = key
      PROVE  list_get(list, key) = x.value /\ Holding(list, key) # {}
  <2>1. PICK i \in DOMAIN list.nodes : list.nodes[i] = x
    BY DEF EntriesOf
  <2>2. Holding(list, key) = {i} /\ Place(list, key) = i
    BY <1>1, <2>1, PlaceFound
  <2> QED
    BY <2>1, <2>2 DEF list_get
<1>2. ASSUME \A x \in EntriesOf(list) : x.key # key
      PROVE  list_get(list, key) = NULL /\ Holding(list, key) = {}
  <2>1. Holding(list, key) = {}
    BY <1>2 DEF EntriesOf, Holding
  <2> QED
    BY <2>1 DEF list_get
<1> QED
  BY <1>1, <1>2

\* list_add_exists replaces the entry with the key.
LEMMA AddExists ==
    ASSUME NEW list, Sorted(list), NEW e \in Entries, Holding(list, e.key) # {}
    PROVE  /\ Sorted(list_add_exists(list, e))
           /\ EntriesOf(list_add_exists(list, e)) = {x \in EntriesOf(list) : x.key # e.key} \cup {e}
<1> DEFINE new == list_add_exists(list, e)
<1>1. PICK i \in DOMAIN list.nodes : list.nodes[i].key = e.key
  BY DEF Holding
<1>2. Place(list, e.key) = i /\ \A j \in DOMAIN list.nodes : list.nodes[j].key = e.key => j = i
  BY <1>1, PlaceFound DEF Holding
<1>3. list \in Lists /\ list.size = Len(list.nodes) /\ Increasing(list)
  BY DEF Sorted
<1>4. new = [list EXCEPT !.nodes = [list.nodes EXCEPT ![i] = e]]
  BY <1>2 DEF list_add_exists
<1>5. new.nodes = [list.nodes EXCEPT ![i] = e] /\ new.size = list.size
  BY <1>3, <1>4 DEF Lists
<1>6. /\ new.nodes \in Seq(Entries) /\ Len(new.nodes) = Len(list.nodes)
      /\ DOMAIN new.nodes = DOMAIN list.nodes
      /\ \A j \in DOMAIN list.nodes : new.nodes[j] = IF j = i THEN e ELSE list.nodes[j]
  BY <1>1, <1>3, <1>5, ListTypes
<1>7. new \in Lists
  BY <1>3, <1>4, <1>5, <1>6 DEF Lists
<1>8. Increasing(new)
  BY <1>1, <1>3, <1>6 DEF Increasing, entry_before
<1> HIDE DEF new
<1>9. EntriesOf(new) = {x \in EntriesOf(list) : x.key # e.key} \cup {e}
  <2>1. ASSUME NEW x \in EntriesOf(new)
        PROVE  x \in {y \in EntriesOf(list) : y.key # e.key} \cup {e}
    BY <1>2, <1>6 DEF EntriesOf
  <2>2. ASSUME NEW x \in EntriesOf(list), x.key # e.key PROVE x \in EntriesOf(new)
    BY <1>1, <1>6, <2>2 DEF EntriesOf
  <2>3. e \in EntriesOf(new)
    BY <1>1, <1>6 DEF EntriesOf
  <2> QED
    BY <2>1, <2>2, <2>3
<1> QED
  BY <1>3, <1>5, <1>6, <1>7, <1>8, <1>9 DEF Sorted, new

\* list_add_new puts an entry whose key is not there where the order wants it.
LEMMA AddNew ==
    ASSUME NEW list, Sorted(list), NEW e \in Entries, Holding(list, e.key) = {}
    PROVE  /\ Sorted(list_add_new(list, e))
           /\ EntriesOf(list_add_new(list, e)) = EntriesOf(list) \cup {e}
<1> DEFINE larger == {i \in DOMAIN list.nodes : entry_before(e, list.nodes[i])}
           place == IF larger = {} THEN Len(list.nodes) + 1 ELSE Min(larger)
           new == list_add_new(list, e)
<1>1. list \in Lists /\ list.size = Len(list.nodes) /\ Increasing(list)
  BY DEF Sorted
<1>2. /\ list.nodes \in Seq(Entries) /\ Len(list.nodes) \in Nat
      /\ DOMAIN list.nodes = 1 .. Len(list.nodes)
      /\ \A i \in DOMAIN list.nodes : list.nodes[i].key \in Nat /\ list.nodes[i].key # e.key
      /\ e.key \in Nat
  BY <1>1, ListTypes, KeysAssumption DEF Holding, Entries
<1>3. PICK at \in 1 .. Len(list.nodes) + 1 :
        /\ at = place
        /\ \A i \in DOMAIN list.nodes : i < at => ~entry_before(e, list.nodes[i])
        /\ at \in DOMAIN list.nodes => entry_before(e, list.nodes[at])
  <2>1. CASE larger = {}
    <3>1. place = Len(list.nodes) + 1 /\ place \notin DOMAIN list.nodes
      BY <1>2, <2>1
    <3>2. \A i \in DOMAIN list.nodes : ~entry_before(e, list.nodes[i])
      BY <2>1
    <3> QED
      BY <1>2, <3>1, <3>2
  <2>2. CASE larger # {}
    <3>1. larger \in SUBSET Nat
      BY <1>2
    <3>2. place \in larger /\ \A i \in larger : place <= i
      BY <2>2, <3>1, LeastIndex
    <3> HIDE DEF place
    <3>3. place \in DOMAIN list.nodes /\ entry_before(e, list.nodes[place])
      BY <3>2
    <3>4. ASSUME NEW i \in DOMAIN list.nodes, i < place PROVE ~entry_before(e, list.nodes[i])
      <4>1. i \notin larger
        BY <1>2, <3>1, <3>2, <3>4
      <4> QED
        BY <4>1
    <3> QED
      BY <1>2, <3>3, <3>4
  <2> QED
    BY <2>1, <2>2
<1> HIDE DEF place
<1> DEFINE nodes == InsertAt(list.nodes, at, e)
<1>4. /\ nodes \in Seq(Entries) /\ Len(nodes) = Len(list.nodes) + 1
      /\ \A j \in DOMAIN list.nodes : j < at => nodes[j] = list.nodes[j]
      /\ nodes[at] = e
      /\ \A j \in DOMAIN list.nodes : j >= at => nodes[j + 1] = list.nodes[j]
  BY <1>2, Inserted, SMTT(30)
<1>5. list.size = 0 => nodes = <<e>>
  <2> SUFFICES ASSUME list.size = 0 PROVE nodes = <<e>>
    OBVIOUS
  <2>1. Len(nodes) = 1 /\ nodes[1] = e
    BY <1>1, <1>2, <1>3, <1>4
  <2> QED
    BY <1>4, <2>1
<1>6. new = [size |-> list.size + 1, nodes |-> nodes]
  BY <1>3, <1>5 DEF list_add_new, place
<1> HIDE DEF nodes, new
<1>7. new \in Lists /\ new.nodes = nodes /\ new.size = Len(nodes)
  BY <1>1, <1>2, <1>4, <1>6 DEF Lists
<1>8. Increasing(new)
  <2> SUFFICES ASSUME NEW i \in 1 .. Len(list.nodes) + 1, NEW j \in 1 .. Len(list.nodes) + 1, i < j
               PROVE  nodes[i].key < nodes[j].key
    BY <1>2, <1>4, <1>7 DEF Increasing, entry_before
  <2>1. \A k, l \in DOMAIN list.nodes : k < l => list.nodes[k].key < list.nodes[l].key
    BY <1>1 DEF Increasing, entry_before
  <2>2. \A k \in DOMAIN list.nodes : k < at => list.nodes[k].key < e.key
    BY <1>2, <1>3 DEF entry_before
  <2>3. \A k \in DOMAIN list.nodes : at <= k => e.key < list.nodes[k].key
    <3> SUFFICES ASSUME NEW k \in DOMAIN list.nodes, at <= k PROVE e.key < list.nodes[k].key
      OBVIOUS
    <3>1. at \in DOMAIN list.nodes /\ e.key < list.nodes[at].key
      BY <1>2, <1>3 DEF entry_before
    <3>2. k = at \/ at < k
      BY <1>2, <3>1
    <3> QED
      BY <1>2, <2>1, <3>1, <3>2
  <2>4. at \in Nat /\ i \in Nat /\ j \in Nat
    BY <1>2, <1>3
  <2>5. CASE j < at
    <3>1. i \in DOMAIN list.nodes /\ j \in DOMAIN list.nodes
      BY <1>2, <1>3, <2>4, <2>5
    <3>2. nodes[i] = list.nodes[i] /\ nodes[j] = list.nodes[j]
      BY <1>4, <2>4, <2>5, <3>1
    <3> QED
      BY <2>1, <3>1, <3>2
  <2>6. CASE j = at
    <3>1. i \in DOMAIN list.nodes /\ i < at
      BY <1>2, <1>3, <2>4, <2>6
    <3>2. nodes[i] = list.nodes[i] /\ nodes[j] = e
      BY <1>4, <2>6, <3>1
    <3> QED
      BY <2>2, <3>1, <3>2
  <2>7. CASE j > at
    <3>1. j - 1 \in DOMAIN list.nodes /\ at <= j - 1
      BY <1>2, <1>3, <2>4, <2>7
    <3>2. nodes[j] = list.nodes[j - 1]
      <4>1. (j - 1) + 1 = j
        BY <2>4
      <4> QED
        BY <1>4, <3>1, <4>1
    <3>3. CASE i < at
      <4>1. i \in DOMAIN list.nodes /\ nodes[i] = list.nodes[i]
        BY <1>2, <1>3, <1>4, <2>4, <3>3
      <4>2. list.nodes[i].key < e.key /\ e.key < list.nodes[j - 1].key
        BY <2>2, <2>3, <3>1, <3>3, <4>1
      <4>3. list.nodes[i].key < list.nodes[j - 1].key
        BY <1>2, <3>1, <4>1, <4>2, SMTT(30)
      <4> QED
        BY <3>2, <4>1, <4>3
    <3>4. CASE i = at
      <4>1. nodes[i] = e
        BY <1>4, <2>4, <3>4
      <4> QED
        BY <2>3, <3>1, <3>2, <4>1
    <3>5. CASE i > at
      <4>1. i - 1 \in DOMAIN list.nodes /\ i - 1 < j - 1
        BY <1>2, <1>3, <2>4, <3>5
      <4>2. (i - 1) + 1 = i /\ i - 1 >= at
        BY <1>2, <2>4, <3>5
      <4>3. nodes[i] = list.nodes[i - 1]
        BY <1>4, <4>1, <4>2
      <4> QED
        BY <2>1, <3>1, <3>2, <4>1, <4>3
    <3> QED
      BY <2>4, <3>3, <3>4, <3>5
  <2> QED
    BY <2>4, <2>5, <2>6, <2>7
<1>9. EntriesOf(new) = EntriesOf(list) \cup {e}
  <2>0. DOMAIN nodes = 1 .. Len(list.nodes) + 1 /\ at \in Nat
    BY <1>2, <1>3, <1>4
  <2>1. ASSUME NEW j \in DOMAIN nodes PROVE nodes[j] \in EntriesOf(list) \cup {e}
    <3>1. CASE j < at
      BY <1>2, <1>3, <1>4, <2>0, <3>1 DEF EntriesOf
    <3>2. CASE j = at
      BY <1>4, <2>0, <3>2
    <3>3. CASE j > at
      <4>1. j - 1 \in DOMAIN list.nodes /\ j - 1 >= at /\ (j - 1) + 1 = j
        BY <1>2, <1>3, <2>0, <3>3
      <4>2. nodes[j] = list.nodes[j - 1]
        BY <1>4, <4>1
      <4> QED
        BY <4>1, <4>2 DEF EntriesOf
    <3> QED
      BY <2>0, <3>1, <3>2, <3>3
  <2>2. ASSUME NEW i \in DOMAIN list.nodes PROVE \E j \in DOMAIN nodes : nodes[j] = list.nodes[i]
    <3>1. CASE i < at
      BY <1>2, <1>4, <2>0, <3>1
    <3>2. CASE i >= at
      <4>1. i + 1 \in DOMAIN nodes
        BY <1>2, <2>0, <3>2
      <4>2. nodes[i + 1] = list.nodes[i]
        BY <1>4, <3>2
      <4> QED
        BY <4>1, <4>2
    <3> QED
      BY <1>2, <2>0, <3>1, <3>2
  <2>3. at \in DOMAIN nodes /\ nodes[at] = e
    BY <1>3, <1>4, <2>0
  <2> QED
    BY <1>7, <2>1, <2>2, <2>3 DEF EntriesOf
<1> QED
  BY <1>7, <1>8, <1>9 DEF Sorted, new

\* list_add binds the key of the entry and leaves the others.
LEMMA Added ==
    ASSUME NEW list, Sorted(list), NEW e \in Entries
    PROVE  /\ Sorted(list_add(list, e))
           /\ EntriesOf(list_add(list, e)) = {x \in EntriesOf(list) : x.key # e.key} \cup {e}
<1>1. CASE Holding(list, e.key) # {}
  BY <1>1, AddExists DEF list_add
<1>2. CASE Holding(list, e.key) = {}
  <2>1. {x \in EntriesOf(list) : x.key # e.key} = EntriesOf(list)
    BY <1>2 DEF EntriesOf, Holding
  <2> QED
    BY <1>2, <2>1, AddNew DEF list_add
<1> QED
  BY <1>1, <1>2

\* list_remove_exists takes out the entry with the key.
LEMMA RemovedEntry ==
    ASSUME NEW list, Sorted(list), NEW key, Holding(list, key) # {}
    PROVE  /\ Sorted(list_remove_exists(list, key))
           /\ EntriesOf(list_remove_exists(list, key)) = {x \in EntriesOf(list) : x.key # key}
<1> DEFINE new == list_remove_exists(list, key)
<1>1. PICK p \in DOMAIN list.nodes : list.nodes[p].key = key
  BY DEF Holding
<1>2. Place(list, key) = p /\ \A j \in DOMAIN list.nodes : list.nodes[j].key = key => j = p
  BY <1>1, PlaceFound DEF Holding
<1>3. list \in Lists /\ list.size = Len(list.nodes) /\ Increasing(list)
  BY DEF Sorted
<1>4. /\ list.nodes \in Seq(Entries) /\ Len(list.nodes) \in Nat
      /\ DOMAIN list.nodes = 1 .. Len(list.nodes) /\ p \in Nat
      /\ \A i \in DOMAIN list.nodes : list.nodes[i].key \in Nat
  BY <1>3, ListTypes
<1> DEFINE nodes == RemoveAt(list.nodes, p)
<1>5. /\ nodes \in Seq(Entries) /\ Len(nodes) = Len(list.nodes) - 1
      /\ \A j \in 1 .. Len(list.nodes) - 1 :
            nodes[j] = IF j < p THEN list.nodes[j] ELSE list.nodes[j + 1]
  BY <1>4, Removed
<1>6. new = [size |-> list.size - 1, nodes |-> nodes]
  BY <1>2 DEF list_remove_exists
<1> HIDE DEF nodes, new
<1>7. new \in Lists /\ new.nodes = nodes /\ new.size = Len(nodes)
  BY <1>3, <1>4, <1>5, <1>6 DEF Lists
<1>8. DOMAIN nodes = 1 .. Len(list.nodes) - 1
  BY <1>4, <1>5
\* The node in the old list of a node of the new one.
<1> DEFINE old(j) == IF j < p THEN j ELSE j + 1
<1>9. \A j \in DOMAIN nodes : old(j) \in DOMAIN list.nodes \ {p} /\ nodes[j] = list.nodes[old(j)]
  BY <1>4, <1>5, <1>8
<1>10. \A i, j \in DOMAIN nodes : i < j => old(i) < old(j)
  BY <1>4, <1>8
<1> HIDE DEF old
<1>11. Increasing(new)
  BY <1>3, <1>7, <1>9, <1>10 DEF Increasing, entry_before
<1>12. EntriesOf(new) = {x \in EntriesOf(list) : x.key # key}
  <2>1. ASSUME NEW j \in DOMAIN nodes
        PROVE  nodes[j] \in EntriesOf(list) /\ nodes[j].key # key
    BY <1>2, <1>9 DEF EntriesOf
  <2>2. ASSUME NEW i \in DOMAIN list.nodes, list.nodes[i].key # key
        PROVE  \E j \in DOMAIN nodes : nodes[j] = list.nodes[i]
    <3>1. CASE i < p
      <4>1. i \in DOMAIN nodes /\ old(i) = i
        BY <1>1, <1>4, <1>8, <3>1 DEF old
      <4> QED
        BY <1>9, <4>1
    <3>2. CASE i > p
      <4>1. i - 1 \in DOMAIN nodes /\ old(i - 1) = i
        BY <1>1, <1>4, <1>8, <3>2 DEF old
      <4> QED
        BY <1>9, <4>1
    <3> QED
      BY <1>1, <1>4, <2>2, <3>1, <3>2
  <2> QED
    BY <1>7, <2>1, <2>2 DEF EntriesOf
<1> QED
  BY <1>7, <1>11, <1>12 DEF Sorted, new

-----------------------------------------------------------------------------
\* Tables

\* What TableInv says of a table.
Sound(table, n) ==
    /\ table \in [0 .. n - 1 -> Lists]
    /\ \A i \in 0 .. n - 1 :
        /\ Sorted(table[i])
        /\ \A x \in EntriesOf(table[i]) : hash_code(x.key, n) = i

\* Every key has its list.
LEMMA HomeFound ==
    ASSUME NEW n \in Nat \ {0}, NEW table, Sound(table, n), NEW key \in Keys
    PROVE  /\ Home(table, key) = hash_code(key, n)
           /\ Home(table, key) \in 0 .. n - 1
<1>1. DOMAIN table = 0 .. n - 1
  BY DEF Sound
<1>2. n \in Nat /\ n > 0
  OBVIOUS
<1>3. Cardinality(0 .. n - 1) = n
  BY <1>2, FS_Interval
<1>4. CharSum[key] \in Nat
  BY AsciiAssumption
<1>5. CharSum[key] % n \in 0 .. n - 1
  BY <1>2, <1>4
<1> QED
  BY <1>1, <1>3, <1>5 DEF Home, hash_code

\* What a call that changes the list of a key does to the table.
LEMMA ListReplaced ==
    ASSUME NEW n \in Nat \ {0}, NEW table, Sound(table, n), NEW key \in Keys, NEW list, Sorted(list),
           \A x \in EntriesOf(list) : x.key = key \/ x \in EntriesOf(table[Home(table, key)]),
           NEW new \in [0 .. n - 1 -> Lists],
           \A i \in 0 .. n - 1 : new[i] = IF i = Home(table, key) THEN list ELSE table[i]
    PROVE  /\ Sound(new, n)
           /\ \A k \in Keys : Home(new, k) = Home(table, k)
<1> DEFINE h == Home(table, key)
<1>1. h \in 0 .. n - 1 /\ h = hash_code(key, n)
  BY HomeFound
<1> HIDE DEF h
<1>2. table \in [0 .. n - 1 -> Lists] /\ list \in Lists
  BY DEF Sound, Sorted
<1>3. /\ DOMAIN new = DOMAIN table
      /\ \A i \in 0 .. n - 1 : new[i] = IF i = h THEN list ELSE table[i]
  BY <1>2 DEF h
<1>4. ASSUME NEW i \in 0 .. n - 1
      PROVE  Sorted(new[i]) /\ \A x \in EntriesOf(new[i]) : hash_code(x.key, n) = i
  <2>1. Sorted(table[i]) /\ \A x \in EntriesOf(table[i]) : hash_code(x.key, n) = i
    BY DEF Sound
  <2>2. CASE i = h
    <3>1. new[i] = list
      BY <1>3, <2>2
    <3>2. ASSUME NEW x \in EntriesOf(list) PROVE hash_code(x.key, n) = i
      BY <1>1, <2>1, <2>2 DEF h
    <3> QED
      BY <3>1, <3>2
  <2>3. CASE i # h
    BY <1>3, <2>1, <2>3
  <2> QED
    BY <2>2, <2>3
<1> QED
  BY <1>3, <1>4 DEF Sound, Home

\* table_create makes a sound table with no keys.
LEMMA Created ==
    ASSUME NEW n \in Nat \ {0}
    PROVE  /\ Sound(table_create(n), n)
           /\ \A k \in Keys : table_get(table_create(n), k) = NULL
<1>1. list_create \in Lists /\ list_create.size = 0 /\ list_create.nodes = <<>>
  BY DEF list_create, Lists
<1>2. Sorted(list_create) /\ EntriesOf(list_create) = {}
  BY <1>1 DEF Sorted, Increasing, EntriesOf
<1>3. Sound(table_create(n), n)
  BY <1>2 DEF Sound, table_create, Sorted
<1>4. ASSUME NEW k \in Keys PROVE table_get(table_create(n), k) = NULL
  <2>1. table_create(n)[Home(table_create(n), k)] = list_create
    BY <1>3, HomeFound DEF table_create
  <2> QED
    BY <1>2, <2>1, GetFound DEF table_get
<1> QED
  BY <1>3, <1>4

\* What table_get finds, key by key.
LEMMA GetMeans ==
    ASSUME NEW n \in Nat \ {0}, NEW table, Sound(table, n), NEW k \in Keys
    PROVE  /\ table_get(table, k) \in Values \cup {NULL}
           /\ table_has(table, k) <=> table_get(table, k) # NULL
           /\ \A x \in EntriesOf(table[Home(table, k)]) :
                x.key = k => table_get(table, k) = x.value
           /\ (\A x \in EntriesOf(table[Home(table, k)]) : x.key # k) => table_get(table, k) = NULL
<1> DEFINE list == table[Home(table, k)]
<1>1. Sorted(list)
  BY HomeFound DEF Sound
<1>2. \A x \in EntriesOf(list) : x \in Entries /\ x.value \in Values /\ x.value # NULL
  BY <1>1, ListTypes, ValuesAssumption DEF Sorted, Entries
<1> HIDE DEF list
<1>3. CASE \E x \in EntriesOf(list) : x.key = k
  BY <1>1, <1>2, <1>3, GetFound DEF table_get, table_has, list
<1>4. CASE \A x \in EntriesOf(list) : x.key # k
  BY <1>1, <1>4, GetFound DEF table_get, table_has, list
<1> QED
  BY <1>3, <1>4 DEF list

\* Two tables with the same entries for a key give the same answer.
LEMMA SameEntry ==
    ASSUME NEW n \in Nat \ {0}, NEW one, Sound(one, n), NEW other, Sound(other, n), NEW k \in Keys,
           Home(one, k) = Home(other, k),
           \A x \in Entries : x.key = k =>
                (x \in EntriesOf(one[Home(one, k)]) <=> x \in EntriesOf(other[Home(one, k)]))
    PROVE  table_get(one, k) = table_get(other, k)
<1>1. Sorted(one[Home(one, k)]) /\ Sorted(other[Home(one, k)])
  BY HomeFound DEF Sound
<1>2. /\ EntriesOf(one[Home(one, k)]) \subseteq Entries
      /\ EntriesOf(other[Home(one, k)]) \subseteq Entries
  BY <1>1, ListTypes DEF Sorted
<1>3. CASE \E x \in EntriesOf(one[Home(one, k)]) : x.key = k
  BY <1>2, <1>3, GetMeans
<1>4. CASE \A x \in EntriesOf(one[Home(one, k)]) : x.key # k
  BY <1>2, <1>4, GetMeans
<1> QED
  BY <1>3, <1>4

\* table_put binds the key and leaves the others.
LEMMA PutSound ==
    ASSUME NEW n \in Nat \ {0}, NEW table, Sound(table, n), NEW key \in Keys, NEW value \in Values
    PROVE  /\ Sound(table_put(table, key, value), n)
           /\ table_get(table_put(table, key, value), key) = value
           /\ \A k \in Keys \ {key} :
                table_get(table_put(table, key, value), k) = table_get(table, k)
<1> DEFINE h == Home(table, key)
           e == Entry(key, value)
           list == list_add(table[h], e)
           new == [table EXCEPT ![h] = list]
<1>1. e \in Entries /\ e.key = key /\ e.value = value
  BY DEF Entry, Entries
<1>2. Sorted(table[h])
  BY HomeFound DEF Sound
<1> HIDE DEF e
<1>3. /\ Sorted(list)
      /\ EntriesOf(list) = {x \in EntriesOf(table[h]) : x.key # key} \cup {e}
  BY <1>1, <1>2, Added
<1> HIDE DEF list
<1>4. Sound(new, n) /\ \A k \in Keys : Home(new, k) = Home(table, k)
  <2>1. \A x \in EntriesOf(list) : x.key = key \/ x \in EntriesOf(table[h])
    BY <1>1, <1>3
  <2> QED
    <3>1. /\ new \in [0 .. n - 1 -> Lists]
          /\ \A i \in 0 .. n - 1 : new[i] = IF i = Home(table, key) THEN list ELSE table[i]
      BY <1>3 DEF Sound, Sorted
    <3>2. \A x \in EntriesOf(list) : x.key = key \/ x \in EntriesOf(table[Home(table, key)])
      BY <2>1
    <3> HIDE DEF new, h
    <3> QED
      BY <1>3, <3>1, <3>2, ListReplaced
<1>5. \A i \in 0 .. n - 1 : new[i] = IF i = h THEN list ELSE table[i]
  BY DEF Sound
<1>6. h \in 0 .. n - 1 /\ \A k \in Keys : Home(table, k) \in 0 .. n - 1
  BY HomeFound
<1>7. table_put(table, key, value) = new
  BY DEF table_put, list, e
<1> HIDE DEF new, h
<1>8. table_get(new, key) = value
  <2>1. e \in EntriesOf(new[Home(new, key)])
    BY <1>3, <1>4, <1>5, <1>6 DEF h
  <2> QED
    BY <1>1, <1>4, <2>1, GetMeans
<1>9. ASSUME NEW k \in Keys \ {key} PROVE table_get(new, k) = table_get(table, k)
  <2>1. \A x \in Entries : x.key = k =>
            (x \in EntriesOf(new[Home(new, k)]) <=> x \in EntriesOf(table[Home(new, k)]))
    BY <1>1, <1>3, <1>4, <1>5, <1>6
  <2> QED
    BY <1>4, <2>1, SameEntry
<1> QED
  BY <1>4, <1>7, <1>8, <1>9

\* table_remove forgets the key and leaves the others.
LEMMA RemoveSound ==
    ASSUME NEW n \in Nat \ {0}, NEW table, Sound(table, n), NEW key \in Keys
    PROVE  /\ Sound(table_remove(table, key), n)
           /\ table_get(table_remove(table, key), key) = NULL
           /\ \A k \in Keys \ {key} :
                table_get(table_remove(table, key), k) = table_get(table, k)
<1>1. CASE ~table_has(table, key)
  BY <1>1, GetMeans DEF table_remove
<1>2. CASE table_has(table, key)
  <2> DEFINE h == Home(table, key)
             list == list_remove_exists(table[h], key)
             new == [table EXCEPT ![h] = list]
  <2>1. Sorted(table[h]) /\ Holding(table[h], key) # {}
    BY <1>2, HomeFound DEF Sound, table_has
  <2>2. Sorted(list) /\ EntriesOf(list) = {x \in EntriesOf(table[h]) : x.key # key}
    BY <2>1, RemovedEntry
  <2> HIDE DEF list
  <2>3. Sound(new, n) /\ \A k \in Keys : Home(new, k) = Home(table, k)
    <3>1. \A x \in EntriesOf(list) : x.key = key \/ x \in EntriesOf(table[h])
      BY <2>2
    <3> QED
      <4>1. /\ new \in [0 .. n - 1 -> Lists]
            /\ \A i \in 0 .. n - 1 : new[i] = IF i = Home(table, key) THEN list ELSE table[i]
        BY <2>2 DEF Sound, Sorted
      <4>2. \A x \in EntriesOf(list) : x.key = key \/ x \in EntriesOf(table[Home(table, key)])
        BY <3>1
      <4> HIDE DEF new, h
      <4> QED
        BY <2>2, <4>1, <4>2, ListReplaced
  <2>4. \A i \in 0 .. n - 1 : new[i] = IF i = h THEN list ELSE table[i]
    BY DEF Sound
  <2>5. h \in 0 .. n - 1 /\ \A k \in Keys : Home(table, k) \in 0 .. n - 1
    BY HomeFound
  <2>6. table_remove(table, key) = new
    BY <1>2 DEF table_remove, list
  <2> HIDE DEF new, h
  <2>7. table_get(new, key) = NULL
    <3>1. \A x \in EntriesOf(new[Home(new, key)]) : x.key # key
      BY <2>2, <2>3, <2>4, <2>5 DEF h
    <3> QED
      BY <2>3, <3>1, GetMeans
  <2>8. ASSUME NEW k \in Keys \ {key} PROVE table_get(new, k) = table_get(table, k)
    <3>1. \A x \in Entries : x.key = k =>
              (x \in EntriesOf(new[Home(new, k)]) <=> x \in EntriesOf(table[Home(new, k)]))
      BY <2>2, <2>3, <2>4, <2>5
    <3> QED
      BY <2>3, <3>1, SameEntry
  <2> QED
    BY <2>3, <2>6, <2>7, <2>8
<1> QED
  BY <1>1, <1>2

-----------------------------------------------------------------------------
\* The walks over all lists

\* list_get_keys gives each key of the list once, as many as its size field says;
\* of an empty list, which the loop of table_get_keys skips, there are none.
LEMMA KeysOfList ==
    ASSUME NEW list, Sorted(list)
    PROVE  LET keys == list_get_keys(list)
           IN  /\ keys \in Seq(Keys) /\ Len(keys) = list.size /\ list.size \in Nat
               /\ \A i, j \in DOMAIN keys : i # j => keys[i] # keys[j]
               /\ \A k \in Keys : (\E i \in DOMAIN keys : keys[i] = k) <=> Holding(list, k) # {}
               /\ list.size = 0 => keys = <<>>
<1> DEFINE keys == list_get_keys(list)
<1>1. /\ list.size = Len(list.nodes) /\ DOMAIN list.nodes = 1 .. Len(list.nodes)
      /\ Len(list.nodes) \in Nat
      /\ \A i \in DOMAIN list.nodes : list.nodes[i].key \in Keys
  BY ListTypes DEF Sorted
<1>2. /\ keys \in Seq(Keys) /\ Len(keys) = list.size /\ DOMAIN keys = DOMAIN list.nodes
      /\ \A i \in DOMAIN keys : keys[i] = list.nodes[i].key
  BY <1>1 DEF list_get_keys
<1> HIDE DEF keys
<1>3. ASSUME NEW i \in DOMAIN keys, NEW j \in DOMAIN keys, keys[i] = keys[j] PROVE i = j
  BY <1>2, <1>3, PlaceFound
<1>4. ASSUME NEW k \in Keys
      PROVE  (\E i \in DOMAIN keys : keys[i] = k) <=> Holding(list, k) # {}
  BY <1>2 DEF Holding
<1>5. list.size = 0 => keys = <<>>
  BY <1>2
<1> QED
  BY <1>1, <1>2, <1>3, <1>4, <1>5 DEF keys

\* The loop of table_size.
LEMMA SizeLoop ==
    ASSUME NEW n \in Nat \ {0}, NEW table, Sound(table, n)
    PROVE  /\ SizeOfFirst(table)[0] = 0
           /\ \A i \in 1 .. n :
                SizeOfFirst(table)[i] = SizeOfFirst(table)[i - 1] + table[i - 1].size
<1>1. Cardinality(DOMAIN table) = n
  BY FS_Interval DEF Sound
<1> DEFINE turn == [i \in 1 .. n |-> [x \in Nat |-> x + table[i - 1].size]]
<1>2. \A i \in 1 .. n : i - 1 \in 0 .. n - 1 /\ table[i - 1].size \in Nat
  BY ListTypes DEF Sound, Sorted
<1>3. turn \in [1 .. n -> [Nat -> Nat]]
  BY <1>2
<1>4. PICK g : Runs(n, Nat, 0, turn, g)
  <2>1. n \in Nat /\ 0 \in Nat
    OBVIOUS
  <2> HIDE DEF turn
  <2> QED
    BY <1>3, <2>1, LoopRuns
<1>5. g = [i \in 0 .. n |-> IF i = 0 THEN 0 ELSE g[i - 1] + table[i - 1].size]
  <2>1. ASSUME NEW i \in 0 .. n, i # 0 PROVE g[i] = g[i - 1] + table[i - 1].size
    <3>1. i \in 1 .. n /\ i - 1 \in 0 .. n
      BY <2>1
    <3>2. g[i - 1] \in Nat
      BY <1>4, <3>1 DEF Runs
    <3>3. turn[i][g[i - 1]] = g[i - 1] + table[i - 1].size
      BY <3>1, <3>2
    <3> HIDE DEF turn
    <3> QED
      BY <1>4, <3>1, <3>3 DEF Runs
  <2> HIDE DEF turn
  <2> QED
    BY <1>4, <2>1 DEF Runs
<1>6. SizeOfFirst(table) =
        [i \in 0 .. n |-> IF i = 0 THEN 0 ELSE SizeOfFirst(table)[i - 1] + table[i - 1].size]
  BY <1>1, <1>5 DEF SizeOfFirst
<1> QED
  BY <1>6

\* The loop of table_get_keys.
LEMMA KeysLoop ==
    ASSUME NEW n \in Nat \ {0}, NEW table, Sound(table, n)
    PROVE  /\ KeysOfFirst(table)[0] = <<>>
           /\ \A i \in 1 .. n :
                KeysOfFirst(table)[i] = KeysOfFirst(table)[i - 1] \o list_get_keys(table[i - 1])
<1>1. Cardinality(DOMAIN table) = n
  BY FS_Interval DEF Sound
<1> DEFINE Part(i) == IF table[i - 1].size # 0 THEN list_get_keys(table[i - 1]) ELSE <<>>
           turn == [i \in 1 .. n |-> [x \in Seq(Keys) |-> x \o Part(i)]]
<1>2. \A i \in 1 .. n : Part(i) = list_get_keys(table[i - 1]) /\ Part(i) \in Seq(Keys)
  BY KeysOfList DEF Sound
<1>3. turn \in [1 .. n -> [Seq(Keys) -> Seq(Keys)]]
  <2> HIDE DEF Part
  <2> QED
    BY <1>2
<1>4. PICK g : Runs(n, Seq(Keys), <<>>, turn, g)
  <2>1. <<>> \in Seq(Keys) /\ n \in Nat
    OBVIOUS
  <2> HIDE DEF turn
  <2> QED
    BY <1>3, <2>1, LoopRuns
<1>5. g = [i \in 0 .. n |-> IF i = 0 THEN <<>> ELSE g[i - 1] \o Part(i)]
  <2>1. ASSUME NEW i \in 0 .. n, i # 0 PROVE g[i] = g[i - 1] \o Part(i)
    <3>1. i \in 1 .. n /\ i - 1 \in 0 .. n
      BY <2>1
    <3>2. g[i - 1] \in Seq(Keys)
      BY <1>4, <3>1 DEF Runs
    <3> HIDE DEF Part
    <3>3. turn[i][g[i - 1]] = g[i - 1] \o Part(i)
      BY <3>1, <3>2
    <3> HIDE DEF turn
    <3> QED
      BY <1>4, <3>1, <3>3 DEF Runs
  <2> HIDE DEF turn, Part
  <2> QED
    BY <1>4, <2>1 DEF Runs
<1>6. KeysOfFirst(table) =
        [i \in 0 .. n |-> IF i = 0 THEN <<>> ELSE KeysOfFirst(table)[i - 1] \o Part(i)]
  BY <1>1, <1>5 DEF KeysOfFirst
<1> HIDE DEF Part
<1>7. KeysOfFirst(table)[0] = <<>>
  BY <1>6
<1>8. ASSUME NEW i \in 1 .. n
      PROVE  KeysOfFirst(table)[i] = KeysOfFirst(table)[i - 1] \o list_get_keys(table[i - 1])
  <2>1. i \in 0 .. n /\ i # 0
    OBVIOUS
  <2>2. KeysOfFirst(table)[i] = KeysOfFirst(table)[i - 1] \o Part(i)
    BY <1>6, <2>1
  <2> QED
    BY <1>2, <2>2
<1> QED
  BY <1>7, <1>8

\* No element comes twice.
Distinct(seq) == \A i, j \in DOMAIN seq : i # j => seq[i] # seq[j]

Listed(seq, x) == \E i \in DOMAIN seq : seq[i] = x

\* Two sequences without common elements in one.
LEMMA Joined ==
    ASSUME NEW S, NEW one \in Seq(S), NEW two \in Seq(S), Distinct(one), Distinct(two),
           \A x \in S : ~(Listed(one, x) /\ Listed(two, x))
    PROVE  /\ one \o two \in Seq(S) /\ Len(one \o two) = Len(one) + Len(two)
           /\ Distinct(one \o two)
           /\ \A x \in S : Listed(one \o two, x) <=> Listed(one, x) \/ Listed(two, x)
<1> DEFINE both == one \o two
<1>1. /\ both \in Seq(S) /\ Len(both) = Len(one) + Len(two)
      /\ \A i \in 1 .. Len(one) + Len(two) :
            both[i] = IF i <= Len(one) THEN one[i] ELSE two[i - Len(one)]
  BY ConcatProperties
<1>2. /\ Len(one) \in Nat /\ Len(two) \in Nat
      /\ DOMAIN one = 1 .. Len(one) /\ DOMAIN two = 1 .. Len(two)
      /\ DOMAIN both = 1 .. Len(one) + Len(two)
  BY <1>1
<1> HIDE DEF both
<1>3. ASSUME NEW i \in DOMAIN both
      PROVE  \/ i \in DOMAIN one /\ both[i] = one[i]
             \/ i - Len(one) \in DOMAIN two /\ both[i] = two[i - Len(one)] /\ i \notin DOMAIN one
  BY <1>1, <1>2
<1>4. /\ \A i \in DOMAIN one : i \in DOMAIN both /\ both[i] = one[i] /\ one[i] \in S
      /\ \A i \in DOMAIN two :
            i + Len(one) \in DOMAIN both /\ both[i + Len(one)] = two[i] /\ two[i] \in S
  <2>1. ASSUME NEW i \in DOMAIN two
        PROVE  i + Len(one) \in DOMAIN both /\ both[i + Len(one)] = two[i]
    <3>1. /\ i + Len(one) \in 1 .. Len(one) + Len(two) /\ ~(i + Len(one) <= Len(one))
          /\ (i + Len(one)) - Len(one) = i
      BY <1>2
    <3> QED
      BY <1>1, <1>2, <3>1
  <2> QED
    BY <1>1, <1>2, <2>1
<1>5. ASSUME NEW i \in DOMAIN both, NEW j \in DOMAIN both, both[i] = both[j] PROVE i = j
  <2>1. CASE i \in DOMAIN one /\ j \in DOMAIN one
    BY <1>4, <1>5, <2>1 DEF Distinct
  <2>2. CASE i \notin DOMAIN one /\ j \notin DOMAIN one
    <3>1. i - Len(one) = j - Len(one)
      BY <1>3, <1>5, <2>2 DEF Distinct
    <3> QED
      BY <1>2, <3>1
  <2>3. CASE (i \in DOMAIN one /\ j \notin DOMAIN one) \/ (i \notin DOMAIN one /\ j \in DOMAIN one)
    BY <1>3, <1>4, <1>5, <2>3 DEF Listed
  <2> QED
    BY <2>1, <2>2, <2>3
<1>6. ASSUME NEW x \in S PROVE Listed(both, x) <=> Listed(one, x) \/ Listed(two, x)
  BY <1>3, <1>4 DEF Listed
<1> QED
  BY <1>1, <1>5, <1>6 DEF Distinct, both

\* After i lists the loops have counted and copied the keys of these lists.
Walked(table, i) ==
    /\ KeysOfFirst(table)[i] \in Seq(Keys)
    /\ Len(KeysOfFirst(table)[i]) = SizeOfFirst(table)[i]
    /\ Distinct(KeysOfFirst(table)[i])
    /\ \A k \in Keys : Listed(KeysOfFirst(table)[i], k) <=> Home(table, k) < i /\ table_has(table, k)

LEMMA AllWalked ==
    ASSUME NEW n \in Nat \ {0}, NEW table, Sound(table, n)
    PROVE  Walked(table, n)
<1> DEFINE T == {i \in 0 .. n : Walked(table, i)}
<1>1. 0 \in T
  <2>1. KeysOfFirst(table)[0] = <<>> /\ SizeOfFirst(table)[0] = 0
    BY KeysLoop, SizeLoop
  <2>2. \A k \in Keys : ~(Home(table, k) < 0)
    BY HomeFound
  <2>3. /\ <<>> \in Seq(Keys) /\ Len(<<>>) = 0 /\ Distinct(<<>>) /\ \A k : ~Listed(<<>>, k)
        /\ 0 \in 0 .. n
    BY DEF Distinct, Listed
  <2>4. Walked(table, 0)
    BY <2>1, <2>2, <2>3 DEF Walked
  <2> QED
    BY <2>3, <2>4
<1>2. ASSUME NEW i \in 1 .. n, i - 1 \in T PROVE i \in T
  <2> DEFINE list == table[i - 1]
             before == KeysOfFirst(table)[i - 1]
             part == list_get_keys(list)
  <2>1. Sorted(list) /\ \A x \in EntriesOf(list) : hash_code(x.key, n) = i - 1
    BY DEF Sound
  <2>2. /\ before \in Seq(Keys) /\ Len(before) = SizeOfFirst(table)[i - 1] /\ Distinct(before)
        /\ \A k \in Keys : Listed(before, k) <=> Home(table, k) < i - 1 /\ table_has(table, k)
    BY <1>2 DEF Walked
  <2>3. /\ KeysOfFirst(table)[i] = before \o part
        /\ SizeOfFirst(table)[i] = SizeOfFirst(table)[i - 1] + list.size
    BY KeysLoop, SizeLoop
  <2> HIDE DEF list, before, part
  <2>4. /\ part \in Seq(Keys) /\ Len(part) = list.size
        /\ Distinct(part)
        /\ \A k \in Keys : Listed(part, k) <=> Holding(list, k) # {}
    BY <2>1, KeysOfList DEF part, Distinct, Listed
  <2>5. ASSUME NEW k \in Keys
        PROVE  Holding(list, k) # {} <=> Home(table, k) = i - 1 /\ table_has(table, k)
    <3>1. Home(table, k) = hash_code(k, n)
      BY HomeFound
    <3>2. Holding(list, k) # {} => hash_code(k, n) = i - 1
      BY <2>1 DEF Holding, EntriesOf
    <3> QED
      BY <3>1, <3>2 DEF table_has, list
  <2>6. \A k \in Keys : Home(table, k) \in Int
    BY HomeFound
  <2>7. /\ before \o part \in Seq(Keys) /\ Len(before \o part) = Len(before) + Len(part)
        /\ Distinct(before \o part)
        /\ \A k \in Keys : Listed(before \o part, k) <=> Listed(before, k) \/ Listed(part, k)
    <3>1. \A k \in Keys : ~(Listed(before, k) /\ Listed(part, k))
      BY <2>2, <2>4, <2>5, <2>6
    <3> QED
      BY <2>2, <2>4, <3>1, Joined
  <2>8. \A k \in Keys : Listed(before \o part, k) <=> Home(table, k) < i /\ table_has(table, k)
    BY <2>2, <2>4, <2>5, <2>6, <2>7
  <2>9. i \in 0 .. n
    OBVIOUS
  <2> QED
    BY <2>2, <2>3, <2>4, <2>7, <2>8, <2>9 DEF Walked
<1> HIDE DEF T
<1>3. \A i \in 1 .. n : i - 1 \in T => i \in T
  BY <1>2
<1>4. \A i \in 0 .. n : i \in T
  BY <1>1, <1>3, CountUp
<1>5. n \in 0 .. n
  OBVIOUS
<1> QED
  BY <1>4, <1>5 DEF T

\* The keys that have a value.
Present(table) == {k \in Keys : table_get(table, k) # NULL}

\* table_size counts the keys, and table_get_keys gives each of them once.
LEMMA AnswersFound ==
    ASSUME NEW n \in Nat \ {0}, NEW table, Sound(table, n)
    PROVE  /\ IsFiniteSet(Present(table))
           /\ table_size(table) = Cardinality(Present(table))
           /\ table_get_keys(table) \in Seq(Keys)
           /\ Len(table_get_keys(table)) = table_size(table)
           /\ Distinct(table_get_keys(table))
           /\ \A k \in Keys : Listed(table_get_keys(table), k) <=> k \in Present(table)
<1> DEFINE keys == KeysOfFirst(table)[n]
<1>1. Cardinality(DOMAIN table) = n
  BY FS_Interval DEF Sound
<1>2. /\ keys \in Seq(Keys) /\ Len(keys) = SizeOfFirst(table)[n] /\ Distinct(keys)
      /\ \A k \in Keys : Listed(keys, k) <=> Home(table, k) < n /\ table_has(table, k)
  BY AllWalked DEF Walked
<1>3. table_size(table) = Len(keys)
  BY <1>1, <1>2 DEF table_size
<1>4. table_get_keys(table) = keys
  <2>1. CASE table_size(table) > 0
    BY <1>1, <2>1 DEF table_get_keys
  <2>2. CASE ~(table_size(table) > 0)
    <3>1. Len(keys) = 0
      BY <1>2, <1>3, <2>2
    <3>2. keys = <<>>
      BY <1>2, <3>1
    <3> QED
      BY <2>2, <3>2 DEF table_get_keys
  <2> QED
    BY <2>1, <2>2
<1> HIDE DEF keys
<1>5. ASSUME NEW k \in Keys PROVE Listed(keys, k) <=> k \in Present(table)
  BY <1>2, HomeFound, GetMeans DEF Present
<1>6. IsFiniteSet(1 .. Len(keys)) /\ Cardinality(1 .. Len(keys)) = Len(keys)
  <2>1. Len(keys) \in Nat /\ Len(keys) \in Int /\ 1 \in Int
    BY <1>2
  <2>2. /\ IsFiniteSet(1 .. Len(keys))
        /\ Cardinality(1 .. Len(keys)) = IF 1 > Len(keys) THEN 0 ELSE Len(keys) - 1 + 1
    BY <2>1, FS_Interval
  <2> QED
    BY <2>1, <2>2
<1>7. ExistsBijection(1 .. Len(keys), Present(table))
  <2>1. DOMAIN keys = 1 .. Len(keys) /\ \A i \in DOMAIN keys : keys[i] \in Keys
    BY <1>2
  <2>2. keys \in [1 .. Len(keys) -> Present(table)]
    BY <1>2, <1>5, <2>1 DEF Listed
  <2>3. \A k \in Present(table) : \E i \in 1 .. Len(keys) : keys[i] = k
    BY <1>5, <2>1 DEF Listed, Present
  <2>4. \A i, j \in DOMAIN keys : keys[i] = keys[j] => i = j
    BY <1>2 DEF Distinct
  <2>5. keys \in Bijection(1 .. Len(keys), Present(table))
    BY <2>2, <2>3, <2>4 DEF Bijection, Injection, Surjection, IsInjective
  <2> QED
    BY <2>5, Zenon DEF ExistsBijection
<1>8. IsFiniteSet(Present(table)) /\ Cardinality(Present(table)) = Len(keys)
  BY <1>6, <1>7, FS_Bijection
<1> QED
  BY <1>2, <1>3, <1>4, <1>5, <1>8

-----------------------------------------------------------------------------
\* The state transfer

\* The loop of main that fills the table of a server that joins.
LEMMA LoadingLoop ==
    ASSUME NEW n \in Nat \ {0}, NEW entries \in Seq(Entries)
    PROVE  /\ Loading(n, entries)[0] = table_create(n)
           /\ \A i \in 1 .. Len(entries) :
                Loading(n, entries)[i] =
                    table_put(Loading(n, entries)[i - 1], entries[i].key, entries[i].value)
<1> DEFINE Tables == {table \in [0 .. n - 1 -> Lists] : Sound(table, n)}
           turn == [i \in 1 .. Len(entries) |->
                        [table \in Tables |-> table_put(table, entries[i].key, entries[i].value)]]
<1>1. \A table : table \in Tables <=> Sound(table, n)
  BY DEF Sound
<1>2. /\ Len(entries) \in Nat
      /\ \A i \in 1 .. Len(entries) : entries[i].key \in Keys /\ entries[i].value \in Values
  <2>1. \A x \in Entries : x.key \in Keys /\ x.value \in Values
    BY DEF Entries
  <2>2. Len(entries) \in Nat /\ \A i \in 1 .. Len(entries) : entries[i] \in Entries
    OBVIOUS
  <2> QED
    BY <2>1, <2>2
<1> HIDE DEF Tables
<1>3. table_create(n) \in Tables
  BY <1>1, Created
<1>4. \A table \in Tables, i \in 1 .. Len(entries) :
        table_put(table, entries[i].key, entries[i].value) \in Tables
  BY <1>1, <1>2, PutSound
<1>5. turn \in [1 .. Len(entries) -> [Tables -> Tables]]
  BY <1>4
<1>6. PICK g : Runs(Len(entries), Tables, table_create(n), turn, g)
  <2> HIDE DEF turn
  <2> QED
    BY <1>2, <1>3, <1>5, LoopRuns
<1>7. g = [i \in 0 .. Len(entries) |->
            IF i = 0 THEN table_create(n)
            ELSE table_put(g[i - 1], entries[i].key, entries[i].value)]
  <2>1. ASSUME NEW i \in 0 .. Len(entries), i # 0
        PROVE  g[i] = table_put(g[i - 1], entries[i].key, entries[i].value)
    <3>1. i \in 1 .. Len(entries) /\ i - 1 \in 0 .. Len(entries)
      BY <1>2, <2>1
    <3>2. g[i - 1] \in Tables
      BY <1>6, <3>1 DEF Runs
    <3>3. turn[i][g[i - 1]] = table_put(g[i - 1], entries[i].key, entries[i].value)
      BY <3>1, <3>2
    <3> HIDE DEF turn
    <3> QED
      BY <1>6, <3>1, <3>3 DEF Runs
  <2> HIDE DEF turn
  <2> QED
    BY <1>6, <2>1 DEF Runs
<1>8. Loading(n, entries) =
        [i \in 0 .. Len(entries) |->
            IF i = 0 THEN table_create(n)
            ELSE table_put(Loading(n, entries)[i - 1], entries[i].key, entries[i].value)]
  BY <1>7 DEF Loading
<1>9. 0 \in 0 .. Len(entries) /\ \A i \in 1 .. Len(entries) : i \in 0 .. Len(entries) /\ i # 0
  BY <1>2
<1> QED
  BY <1>8, <1>9

\* A key has an entry among the first i.
Among(entries, i, k) == \E j \in 1 .. i : entries[j].key = k

\* A table filled from entries of `content` agrees with it on their keys.
LEMMA Filled ==
    ASSUME NEW n \in Nat \ {0}, NEW entries \in Seq(Entries), NEW content,
           \A i \in DOMAIN entries : entries[i].value = content[entries[i].key]
    PROVE  /\ Sound(Load(n, entries), n)
           /\ \A k \in Keys : table_get(Load(n, entries), k) =
                IF Among(entries, Len(entries), k) THEN content[k] ELSE NULL
<1> DEFINE Done(i) ==
                /\ Sound(Loading(n, entries)[i], n)
                /\ \A k \in Keys : table_get(Loading(n, entries)[i], k) =
                        IF Among(entries, i, k) THEN content[k] ELSE NULL
           T == {i \in 0 .. Len(entries) : Done(i)}
<1>1. Len(entries) \in Nat /\ DOMAIN entries = 1 .. Len(entries)
  OBVIOUS
<1>2. 0 \in T
  <2>1. Loading(n, entries)[0] = table_create(n)
    BY LoadingLoop
  <2>2. \A k : ~Among(entries, 0, k)
    BY DEF Among
  <2>3. Done(0)
    BY <2>1, <2>2, Created
  <2> HIDE DEF Done
  <2> QED
    BY <1>1, <2>3
<1>3. ASSUME NEW i \in 1 .. Len(entries), i - 1 \in T PROVE i \in T
  <2> DEFINE table == Loading(n, entries)[i - 1]
             key == entries[i].key
             value == entries[i].value
  <2>1. /\ Sound(table, n)
        /\ \A k \in Keys : table_get(table, k) =
                IF Among(entries, i - 1, k) THEN content[k] ELSE NULL
    BY <1>3
  <2>2. key \in Keys /\ value \in Values /\ value = content[key]
    <3>1. \A x \in Entries : x.key \in Keys /\ x.value \in Values
      BY DEF Entries
    <3>2. i \in DOMAIN entries /\ entries[i] \in Entries
      BY <1>1
    <3> QED
      BY <3>1, <3>2
  <2>3. Loading(n, entries)[i] = table_put(table, key, value)
    BY LoadingLoop
  <2> HIDE DEF table
  <2>4. \A k : Among(entries, i, k) <=> Among(entries, i - 1, k) \/ k = key
    <3>1. \A j : j \in 1 .. i <=> j \in 1 .. i - 1 \/ j = i
      BY <1>1
    <3> QED
      BY <3>1 DEF Among
  <2> HIDE DEF key, value
  <2>5. Sound(Loading(n, entries)[i], n)
    BY <2>1, <2>2, <2>3, PutSound
  <2>6. ASSUME NEW k \in Keys
        PROVE  table_get(Loading(n, entries)[i], k) =
                    IF Among(entries, i, k) THEN content[k] ELSE NULL
    <3>1. CASE k = key
      BY <2>1, <2>2, <2>3, <2>4, <3>1, PutSound
    <3>2. CASE k # key
      <4>1. table_get(Loading(n, entries)[i], k) = table_get(table, k)
        BY <2>1, <2>2, <2>3, <3>2, PutSound
      <4> QED
        BY <2>1, <2>4, <3>2, <4>1
    <3> QED
      BY <3>1, <3>2
  <2>7. Done(i) /\ i \in 0 .. Len(entries)
    BY <1>1, <2>5, <2>6
  <2> HIDE DEF Done
  <2> QED
    BY <2>7
<1> HIDE DEF T
<1>4. \A i \in 1 .. Len(entries) : i - 1 \in T => i \in T
  BY <1>3
<1>5. Len(entries) \in T
  <2>1. \A i \in 0 .. Len(entries) : i \in T
    BY <1>1, <1>2, <1>4, CountUp
  <2>2. Len(entries) \in 0 .. Len(entries)
    BY <1>1
  <2> QED
    BY <2>1, <2>2
<1> QED
  BY <1>5 DEF T, Load

\* A table filled from a snapshot of another has its content, although each has
\* a number of lists of its own.
LEMMA Transferred ==
    ASSUME NEW m \in Nat \ {0}, NEW table, Sound(table, m), NEW n \in Nat \ {0}
    PROVE  Content(Load(n, Snapshot(table))) = Content(table)
<1> DEFINE keys == table_get_keys(table)
           entries == Snapshot(table)
<1>1. keys \in Seq(Keys) /\ \A k \in Keys : Listed(keys, k) <=> k \in Present(table)
  BY AnswersFound
<1>2. entries = [i \in DOMAIN keys |-> Entry(keys[i], table_get(table, keys[i]))]
  BY DEF Snapshot
<1> HIDE DEF keys, entries
<1>3. ASSUME NEW i \in DOMAIN keys
      PROVE  /\ entries[i] \in Entries /\ entries[i].key = keys[i] /\ keys[i] \in Keys
             /\ entries[i].value = table_get(table, keys[i])
  <2>1. keys[i] \in Keys /\ Listed(keys, keys[i])
    BY <1>1 DEF Listed
  <2>2. table_get(table, keys[i]) \in Values
    BY <1>1, <2>1, GetMeans DEF Present
  <2>3. entries[i] = [key |-> keys[i], value |-> table_get(table, keys[i])]
    BY <1>2 DEF Entry
  <2> QED
    BY <2>1, <2>2, <2>3 DEF Entries
<1>4. entries \in Seq(Entries) /\ Len(entries) = Len(keys) /\ DOMAIN entries = DOMAIN keys
      /\ DOMAIN keys = 1 .. Len(keys)
  BY <1>1, <1>2, <1>3
<1> DEFINE content == Content(table)
<1>5. \A k \in Keys : content[k] = table_get(table, k)
  BY DEF Content
<1> HIDE DEF content
<1>6. \A i \in DOMAIN entries : entries[i].value = content[entries[i].key]
  BY <1>3, <1>4, <1>5
<1>7. ASSUME NEW k \in Keys PROVE Among(entries, Len(entries), k) <=> k \in Present(table)
  BY <1>1, <1>3, <1>4 DEF Among, Listed
<1>8. ASSUME NEW k \in Keys PROVE table_get(Load(n, entries), k) = table_get(table, k)
  <2>1. table_get(Load(n, entries), k) =
            IF Among(entries, Len(entries), k) THEN content[k] ELSE NULL
    BY <1>4, <1>6, Filled
  <2> QED
    BY <1>5, <1>7, <2>1 DEF Present
<1> QED
  BY <1>8 DEF Content, entries

-----------------------------------------------------------------------------
\* Main results

\* TableInv is soundness of the table.
LEMMA InvMeans ==
    /\ TableInv <=> Sound(lists, NLists)
    /\ TableInv' <=> Sound(lists', NLists)
<1>1. ASSUME NEW table
      PROVE  Sound(table, NLists) <=>
                /\ table \in [0 .. NLists - 1 -> [size : Nat, nodes : Seq([key : Keys, value : Values])]]
                /\ \A i \in DOMAIN table :
                    /\ table[i].size = Len(table[i].nodes)
                    /\ Increasing(table[i])
                    /\ \A j \in DOMAIN table[i].nodes : hash_code(table[i].nodes[j].key, NLists) = i
  <2>1. Lists = [size : Nat, nodes : Seq([key : Keys, value : Values])]
    BY DEF Lists, Entries
  <2>2. ASSUME NEW i, table[i] \in Lists
        PROVE  /\ Sorted(table[i]) <=>
                    table[i].size = Len(table[i].nodes) /\ Increasing(table[i])
               /\ (\A x \in EntriesOf(table[i]) : hash_code(x.key, NLists) = i) <=>
                    \A j \in DOMAIN table[i].nodes : hash_code(table[i].nodes[j].key, NLists) = i
    BY <2>2 DEF Sorted, EntriesOf
  <2>3. table \in [0 .. NLists - 1 -> Lists] =>
            DOMAIN table = 0 .. NLists - 1 /\ \A i \in DOMAIN table : table[i] \in Lists
    OBVIOUS
  <2>4. Sound(table, NLists) <=>
            /\ table \in [0 .. NLists - 1 -> Lists]
            /\ \A i \in DOMAIN table :
                /\ Sorted(table[i])
                /\ \A x \in EntriesOf(table[i]) : hash_code(x.key, NLists) = i
    BY <2>3 DEF Sound
  <2> QED
    BY <2>1, <2>2, <2>3, <2>4, Zenon
<1> QED
  BY <1>1 DEF TableInv

LEMMA NextInv ==
    ASSUME TableInv, [Next]_vars
    PROVE  TableInv'
<1>1. Sound(lists, NLists)
  BY InvMeans
<1>2. Sound(lists', NLists)
  <2>1. ASSUME NEW key \in Keys, NEW value \in Values, Put(key, value) PROVE Sound(lists', NLists)
    BY <1>1, <2>1, PutSound, NListsAssumption DEF Put
  <2>2. ASSUME NEW key \in Keys, Delete(key) PROVE Sound(lists', NLists)
    BY <1>1, <2>2, RemoveSound, NListsAssumption DEF Delete
  <2>3. CASE UNCHANGED lists
    BY <1>1, <2>3
  <2> QED
    BY <2>1, <2>2, <2>3 DEF Next, Get, PutNothing, Size, GetKeys, vars
<1> QED
  BY <1>2, InvMeans

\* For any keys, values, number of lists and sums of characters: after any calls
\* every list is sorted, counts its nodes and holds the keys that hash_code puts
\* there, each at most once.
THEOREM TableCorrect ==
    Spec => []TableInv
<1>1. Init => TableInv
  BY Created, InvMeans, NListsAssumption DEF Init
<1>2. TableInv /\ [Next]_vars => TableInv'
  BY NextInv
<1> QED
  BY <1>1, <1>2, PTL DEF Spec

\* KVMap counts as Table does.
LEMMA SameCounting ==
    ASSUME NEW S
    PROVE  KV!Cardinality(S) = Cardinality(S) /\ KV!SetToSeqs(S) = SetToSeqs(S)
<1>1. KV!Cardinality(S) = Cardinality(S)
  BY DEF KV!Cardinality, Cardinality
<1> QED
  BY <1>1 DEF KV!SetToSeqs, SetToSeqs

\* Each call does to the content what KVMap says.
LEMMA CallsAreSteps ==
    ASSUME TableInv
    PROVE  /\ \A key \in Keys, value \in Values : Put(key, value) => KV!Put(key, value)
           /\ \A key \in Keys : Delete(key) => KV!Delete(key)
           /\ \A key \in Keys : Get(key) => KV!Get(key)
           /\ PutNothing => KV!PutNothing
           /\ Size => KV!Size
           /\ GetKeys => KV!GetKeys
<1>1. Sound(lists, NLists)
  BY InvMeans
<1>2. ASSUME NEW key \in Keys, NEW value \in Values, Put(key, value) PROVE KV!Put(key, value)
  <2>1. \A k \in Keys : table_get(lists', k) = IF k = key THEN value ELSE table_get(lists, k)
    BY <1>1, <1>2, PutSound, NListsAssumption DEF Put
  <2>2. Content(lists') = [Content(lists) EXCEPT ![key] = value]
    BY <2>1 DEF Content
  <2> QED
    BY <1>2, <2>2 DEF Put, KV!Put
<1>3. ASSUME NEW key \in Keys, Delete(key) PROVE KV!Delete(key)
  <2>1. \A k \in Keys : table_get(lists', k) = IF k = key THEN NULL ELSE table_get(lists, k)
    BY <1>1, <1>3, RemoveSound, NListsAssumption DEF Delete
  <2>2. Content(lists') = [Content(lists) EXCEPT ![key] = NULL]
    BY <2>1 DEF Content
  <2>3. table_has(lists, key) <=> key \in KV!Present
    BY <1>1, GetMeans, NListsAssumption DEF KV!Present, Content
  <2> QED
    BY <1>3, <2>2, <2>3 DEF Delete, KV!Delete
<1>4. ASSUME NEW key \in Keys, Get(key) PROVE KV!Get(key)
  BY <1>4 DEF Get, KV!Get, Content
<1>5. PutNothing => KV!PutNothing
  BY DEF PutNothing, KV!PutNothing, Content
<1>6. KV!Present = Present(lists)
  BY DEF KV!Present, Present, Content
<1>7. Size => KV!Size
  <2>1. table_size(lists) = Cardinality(KV!Present)
    BY <1>1, <1>6, AnswersFound, NListsAssumption
  <2> SUFFICES ASSUME Size PROVE KV!Size
    OBVIOUS
  <2>2. reply' = <<"size", Cardinality(KV!Present)>>
    BY <2>1 DEF Size
  <2> QED
    BY <2>2, SameCounting DEF Size, KV!Size, Content
<1>8. table_get_keys(lists) \in SetToSeqs(KV!Present)
  <2> DEFINE keys == table_get_keys(lists)
  <2>1. /\ keys \in Seq(Keys) /\ Len(keys) = Cardinality(KV!Present) /\ Distinct(keys)
        /\ \A k \in Keys : Listed(keys, k) <=> k \in KV!Present
    BY <1>1, <1>6, AnswersFound, NListsAssumption
  <2> HIDE DEF keys
  <2>2. keys \in [1 .. Cardinality(KV!Present) -> KV!Present]
    BY <2>1 DEF Listed
  <2> QED
    BY <2>1, <2>2 DEF SetToSeqs, Distinct, keys
<1>9. GetKeys => KV!GetKeys
  <2> SUFFICES ASSUME GetKeys PROVE KV!GetKeys
    OBVIOUS
  <2>1. \E keys \in SetToSeqs(KV!Present) : reply' = <<"get_keys", keys>>
    BY <1>8 DEF GetKeys
  <2> QED
    BY <2>1, SameCounting DEF GetKeys, KV!GetKeys, Content
<1> QED
  BY <1>2, <1>3, <1>4, <1>5, <1>7, <1>9

\* For any keys, values, number of lists and sums of characters, whatever keys
\* share a list: every call changes the content and returns what it does on the
\* map of KVMap; table_size counts the keys and table_get_keys gives each once.
THEOREM TableIsMap ==
    Spec => ImplementsMap
<1>1. Init => KV!Init
  BY Created, NListsAssumption DEF Init, KV!Init, Content
<1>2. TableInv /\ [Next]_vars => [KV!Next]_<<Content(lists), reply>>
  <2> SUFFICES ASSUME TableInv, [Next]_vars PROVE [KV!Next]_<<Content(lists), reply>>
    OBVIOUS
  <2>1. CASE UNCHANGED vars
    BY <2>1 DEF vars, Content
  <2> QED
    BY <2>1, CallsAreSteps DEF Next, KV!Next
<1> QED
  BY <1>1, <1>2, TableCorrect, PTL DEF Spec, ImplementsMap, KV!Spec

\* For any keys and values: whatever table a server has, one that joins and copies
\* it by GETTABLE gets the same content, whatever the number of its lists.
THEOREM TransfersKeepContent ==
    Spec => []TransferKeepsContent
<1>1. TableInv => TransferKeepsContent
  <2> SUFFICES ASSUME TableInv, NEW n \in 1 .. NLists + 1
               PROVE  Content(Load(n, Snapshot(lists))) = Content(lists)
    BY DEF TransferKeepsContent
  <2>1. n \in Nat \ {0}
    BY NListsAssumption
  <2> QED
    BY <2>1, InvMeans, Transferred, NListsAssumption
<1> QED
  BY <1>1, TableCorrect, PTL
=============================================================================
