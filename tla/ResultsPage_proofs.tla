-------------------------- MODULE ResultsPage_proofs --------------------------
(***************************************************************************)
(* What the page shows is what it says it shows, for every table of        *)
(* scenarios, every set of metrics, of missing analyses and of links.      *)
(***************************************************************************)
EXTENDS ResultsPage, FiniteSetTheorems, SequenceTheorems, WellFoundedInduction, TLAPS

\* A selection that was ticked together, starting from nothing or from what a link selects.
Typed(sel) ==
  /\ sel \in [Properties -> Seq(Nat)]
  /\ \A p \in Properties :
       \E s \in {<<>>} \cup {h.sel[p] : h \in Links} : Repeats(sel[p]) <= Repeats(s)

\* Unless the last handler threw, the title, the boxes and the chart are those of the query.
InLine ==
  /\ query.metric \in Metrics /\ title = query.metric
  /\ ticked = Selected(query, scenarios)
  /\ ~MatchesThrows(query, scenarios) /\ ~RendererThrows(query, scenarios, data_type)
  /\ chart = Drawn(query, scenarios, data_type)

\* The inductive invariant.  Even after an exception no box is checked that the query does not select.
PInv ==
  /\ results \in Tables /\ scenarios \in Tables /\ failed \in BOOLEAN
  /\ query = [metric |-> query.metric, sel |-> query.sel]
  /\ Typed(query.sel) /\ Typed(hash.sel)
  /\ ticked \subseteq Selected(query, scenarios)
  /\ ~failed => InLine

-----------------------------------------------------------------------------
(* Tables and boxes *)

\* A nonempty set of naturals has a least element.
LEMMA MinIsLeast ==
  ASSUME NEW S \in SUBSET Nat, S # {}
  PROVE  Min(S) \in S /\ \A y \in S : Min(S) <= y
<1> DEFINE R == {p \in Nat \X Nat : p[1] < p[2]}
<1>1. IsWellFoundedOn(R, Nat)
  BY NatLessThanWellFounded, Zenon DEF OpToRel
<1> HIDE DEF R
<1>2. PICK x \in S : \A y \in S : ~(<<y, x>> \in R)
  BY <1>1, WFMin
<1>3. ASSUME NEW y \in S PROVE x <= y
  <2>1. x \in Nat /\ y \in Nat /\ <<y, x>> \notin R
    BY <1>2
  <2>2. QED BY <2>1 DEF R
<1>4. QED BY <1>3 DEF Min

\* A set of values has no more of them than the table has rows, hence finitely many.
LEMMA ValuesFinite ==
  ASSUME NEW t, t \in Seq(ToSet(t)), NEW p
  PROVE  IsFiniteSet(Values(t, p))
<1> DEFINE f == [i \in DOMAIN t |-> t[i][p]]
<1>1. f \in Surjection(DOMAIN t, Values(t, p))
  BY DEF Surjection, Values
<1>2. IsFiniteSet(DOMAIN t)
  <2>1. DOMAIN t = 1..Len(t) /\ Len(t) \in Nat   OBVIOUS
  <2>2. QED BY <2>1, FS_Interval
<1>3. QED BY <1>1, <1>2, FS_Surjection

\* A value of a table has a first row.
LEMMA FirstIsNat ==
  ASSUME NEW t, t \in Seq(ToSet(t)), NEW p, NEW v \in Values(t, p)
  PROVE  FirstOf(t, p, v) \in Nat
<1> DEFINE I == {i \in DOMAIN t : t[i][p] = v}
<1>1. I \in SUBSET Nat /\ I # {}
  BY DEF Values
<1>2. QED BY <1>1, MinIsLeast DEF FirstOf

\* The value of a row has a box: fewer values come before it than there are.
LEMMA RowHasBox ==
  ASSUME NEW t, t \in Seq(ToSet(t)), NEW p \in Properties, NEW k \in DOMAIN t
  PROVE  <<p, KeyIndex(t, p, t[k][p])>> \in Boxes(t)
<1> DEFINE V == Values(t, p)
           v == t[k][p]
           E == {w \in V : FirstOf(t, p, w) < FirstOf(t, p, v)}
<1>1. v \in V                 BY DEF Values
<1>2. IsFiniteSet(V)          BY ValuesFinite
<1>3. v \notin E              BY <1>1, FirstIsNat
<1>4. E \in SUBSET V /\ E # V  BY <1>1, <1>3
<1> HIDE DEF V, v, E
<1>5. /\ Cardinality(V) \in Nat /\ Cardinality(E) \in Nat
      /\ Cardinality(E) < Cardinality(V)
  BY <1>2, <1>4, FS_Subset, FS_CardinalityType
<1>6. Cardinality(E) \in 0..Cardinality(V) - 1
  BY <1>5
<1>7. <<p, Cardinality(E)>> \in Boxes(t)
  BY <1>6 DEF Boxes, V
<1>8. QED
  BY <1>7 DEF KeyIndex, V, v, E

\* The rows drawn are those whose boxes are all checked, and no others.
LEMMA DrawnIsTicked ==
  ASSUME NEW t, t \in Seq(ToSet(t)), NEW q, q.sel \in [Properties -> Seq(Nat)]
  PROVE  UNION ToSet(matches(q, t)) =
           {k \in DOMAIN t : \A p \in Properties :
                               <<p, KeyIndex(t, p, t[k][p])>> \in Selected(q, t)}
<1> DEFINE On(k, p) == \E i \in DOMAIN q.sel[p] : q.sel[p][i] = KeyIndex(t, p, t[k][p])
<1>1. \A k \in DOMAIN t, p \in Properties :
        <<p, KeyIndex(t, p, t[k][p])>> \in Selected(q, t) <=> On(k, p)
  BY RowHasBox DEF Selected
<1>2. ASSUME NEW k
      PROVE  k \in UNION ToSet(matches(q, t)) <=>
               k \in DOMAIN t /\ On(k, "churn") /\ \A p \in Filters : On(k, p)
  <2> DEFINE Row(i) == {j \in DOMAIN t : /\ KeyIndex(t, "churn", t[j]["churn"]) = q.sel["churn"][i]
                                         /\ \A p \in Filters : On(j, p)}
  <2>1. matches(q, t) = [i \in DOMAIN q.sel["churn"] |-> Row(i)]
    BY DEF matches, Selects
  <2> HIDE DEF Row
  <2>2. ToSet(matches(q, t)) = {Row(i) : i \in DOMAIN q.sel["churn"]}
    BY <2>1 DEF ToSet
  <2>3. k \in UNION ToSet(matches(q, t)) <=> \E i \in DOMAIN q.sel["churn"] : k \in Row(i)
    BY <2>2
  <2>4. QED BY <2>3 DEF Row
<1>3. QED BY <1>1, <1>2 DEF Properties

-----------------------------------------------------------------------------
(* Selections *)

\* What is checked is finite.
LEMMA SelectionFinite ==
  ASSUME NEW s \in Seq(Nat)
  PROVE  /\ IsFiniteSet(ToSet(s)) /\ Cardinality(ToSet(s)) \in Nat
         /\ Len(s) \in Nat /\ Repeats(s) \in Int
<1>1. DOMAIN s = 1..Len(s) /\ Len(s) \in Nat   OBVIOUS
<1>2. IsFiniteSet(DOMAIN s)  BY <1>1, FS_Interval
<1>3. s \in Surjection(DOMAIN s, ToSet(s))
  BY DEF Surjection, ToSet
<1>4. IsFiniteSet(ToSet(s)) /\ Cardinality(ToSet(s)) \in Nat
  BY <1>2, <1>3, FS_Surjection, FS_CardinalityType
<1>5. QED BY <1>1, <1>4 DEF Repeats

\* Ticking a value selects it, drops none, and repeats none that was not.
LEMMA AddKeepsSelection ==
  ASSUME NEW s \in Seq(Nat), NEW i \in Nat
  PROVE  /\ addIfAbsent(s, i) \in Seq(Nat)
         /\ ToSet(addIfAbsent(s, i)) = ToSet(s) \cup {i}
         /\ Repeats(addIfAbsent(s, i)) = Repeats(s)
<1>1. CASE Contains(s, i)
  BY <1>1 DEF addIfAbsent, Contains, ToSet
<1>2. CASE ~Contains(s, i)
  <2> DEFINE a == Append(s, i)
  <2>1. addIfAbsent(s, i) = a /\ i \notin ToSet(s)
    BY <1>2 DEF addIfAbsent, Contains, ToSet
  <2>2. /\ a \in Seq(Nat) /\ Len(a) = Len(s) + 1 /\ a[Len(s) + 1] = i
        /\ \A j \in 1..Len(s) : a[j] = s[j]
    OBVIOUS
  <2>3. ToSet(a) = ToSet(s) \cup {i}
    BY <2>2 DEF ToSet
  <2>4. Cardinality(ToSet(a)) = Cardinality(ToSet(s)) + 1
    BY <2>1, <2>3, SelectionFinite, FS_AddElement
  <2> HIDE DEF a
  <2>5. Repeats(a) = Repeats(s)
    BY <2>2, <2>4, SelectionFinite DEF Repeats
  <2>6. QED BY <2>1, <2>2, <2>3, <2>5
<1>3. QED BY <1>1, <1>2

\* What comes before the position removed stays, and what comes after it moves up by one.
LEMMA WithoutOne ==
  ASSUME NEW s \in Seq(Nat), NEW k \in 1..Len(s)
  PROVE  /\ RemoveAt(s, k) \in Seq(Nat) /\ Len(RemoveAt(s, k)) = Len(s) - 1
         /\ \A j \in 1..(k - 1) : RemoveAt(s, k)[j] = s[j]
         /\ \A j \in (k + 1)..Len(s) : RemoveAt(s, k)[j - 1] = s[j]
<1> DEFINE a == SubSeq(s, 1, k - 1)
           b == SubSeq(s, k + 1, Len(s))
<1>1. k \in Int /\ Len(s) \in Nat /\ 1 <= k /\ k <= Len(s)
  OBVIOUS
<1>2. a \in Seq(Nat) /\ Len(a) = k - 1 /\ \A j \in 1..(k - 1) : a[j] = s[j]
  BY <1>1
<1>3. b \in Seq(Nat) /\ Len(b) = Len(s) - k /\ \A j \in 1..(Len(s) - k) : b[j] = s[k + j]
  <2>1. \A j \in (k + 1)..Len(s) : s[j] \in Nat
    BY <1>1
  <2>2. /\ b \in Seq(Nat) /\ Len(b) = IF k + 1 <= Len(s) THEN Len(s) - (k + 1) + 1 ELSE 0
        /\ \A j \in 1..(Len(s) - (k + 1) + 1) : b[j] = s[(k + 1) + j - 1]
    BY <1>1, <2>1, SubSeqProperties
  <2> HIDE DEF b
  <2>3. Len(b) = Len(s) - k
    BY <1>1, <2>2
  <2>4. ASSUME NEW j \in 1..(Len(s) - k) PROVE b[j] = s[k + j]
    <3>1. j \in 1..(Len(s) - (k + 1) + 1) /\ (k + 1) + j - 1 = k + j
      BY <1>1
    <3>2. QED BY <3>1, <2>2
  <2>5. QED BY <2>2, <2>3, <2>4
<1> HIDE DEF a, b
<1>4. /\ a \o b \in Seq(Nat) /\ Len(a \o b) = Len(a) + Len(b)
      /\ \A j \in 1..Len(a) + Len(b) :
           (a \o b)[j] = IF j <= Len(a) THEN a[j] ELSE b[j - Len(a)]
  BY <1>2, <1>3, ConcatProperties
<1>5. ASSUME NEW j \in 1..(k - 1) PROVE (a \o b)[j] = s[j]
  <2>1. j \in 1..Len(a) + Len(b) /\ j <= Len(a)
    BY <1>1, <1>2, <1>3
  <2>2. QED BY <2>1, <1>2, <1>4
<1>6. ASSUME NEW j \in (k + 1)..Len(s) PROVE (a \o b)[j - 1] = s[j]
  <2>1. /\ j - 1 \in 1..Len(a) + Len(b) /\ ~(j - 1 <= Len(a))
        /\ (j - 1) - Len(a) = j - k /\ j - k \in 1..(Len(s) - k) /\ k + (j - k) = j
    BY <1>1, <1>2, <1>3
  <2>2. QED BY <2>1, <1>3, <1>4
<1>7. Len(a \o b) = Len(s) - 1
  BY <1>1, <1>2, <1>3, <1>4
<1>8. RemoveAt(s, k) = a \o b
  BY DEF RemoveAt, a, b
<1>9. QED BY <1>4, <1>5, <1>6, <1>7, <1>8

\* Removing its first occurrence drops no other value and repeats none more often.
LEMMA RemoveKeepsSelection ==
  ASSUME NEW s \in Seq(Nat), NEW i
  PROVE  /\ removeIfExists(s, i) \in Seq(Nat)
         /\ ToSet(s) \ {i} \subseteq ToSet(removeIfExists(s, i))
         /\ Repeats(removeIfExists(s, i)) <= Repeats(s)
<1>1. CASE ~\E j \in 1..Len(s) : s[j] = i
  BY <1>1, SelectionFinite DEF removeIfExists, RemoveFirst
<1>2. CASE \E j \in 1..Len(s) : s[j] = i
  <2> DEFINE I == {j \in 1..Len(s) : s[j] = i}
             k == Min(I)
             r == RemoveAt(s, k)
  <2>1. removeIfExists(s, i) = r
    BY <1>2 DEF removeIfExists, RemoveFirst, SelectInSeq
  <2>2. k \in 1..Len(s) /\ s[k] = i
    <3>1. I \in SUBSET Nat /\ I # {}  BY <1>2
    <3>2. QED BY <3>1, MinIsLeast
  <2> HIDE DEF k, I
  <2>3. /\ r \in Seq(Nat) /\ Len(r) = Len(s) - 1
        /\ \A j \in 1..(k - 1) : r[j] = s[j]
        /\ \A j \in (k + 1)..Len(s) : r[j - 1] = s[j]
    BY <2>2, WithoutOne
  <2> HIDE DEF r
  <2>4. ToSet(s) \ {i} \subseteq ToSet(r)
    <3>0. DOMAIN r = 1..Len(r) /\ DOMAIN s = 1..Len(s)
      BY <2>3
    <3> SUFFICES ASSUME NEW j \in 1..Len(s), s[j] # i
                 PROVE  \E l \in 1..Len(r) : r[l] = s[j]
      BY <3>0 DEF ToSet
    <3>1. CASE j < k  BY <3>1, <2>2, <2>3
    <3>2. CASE j > k
      <4>1. j - 1 \in 1..Len(r) /\ r[j - 1] = s[j]  BY <3>2, <2>2, <2>3
      <4>2. QED BY <4>1
    <3>3. QED BY <3>1, <3>2, <2>2
  <2>5. Cardinality(ToSet(s)) - 1 <= Cardinality(ToSet(r))
    <3>1. /\ Cardinality(ToSet(s) \ {i}) \in {Cardinality(ToSet(s)) - 1, Cardinality(ToSet(s))}
      BY SelectionFinite, FS_RemoveElement
    <3>2. Cardinality(ToSet(s) \ {i}) <= Cardinality(ToSet(r))
      BY <2>3, <2>4, SelectionFinite, FS_Subset
    <3>3. QED BY <2>3, <3>1, <3>2, SelectionFinite
  <2>6. Repeats(r) <= Repeats(s)
    BY <2>3, <2>5, SelectionFinite DEF Repeats
  <2>7. QED BY <2>1, <2>3, <2>4, <2>6
<1>3. QED BY <1>1, <1>2

\* Ticking a box of one property, on or off, leaves a selection that is Typed.
LEMMA TypedStays ==
  ASSUME NEW sel, Typed(sel), NEW p \in Properties, NEW s \in Seq(Nat),
         Repeats(s) <= Repeats(sel[p])
  PROVE  Typed([sel EXCEPT ![p] = s])
<1> DEFINE new == [sel EXCEPT ![p] = s]
<1>1. new \in [Properties -> Seq(Nat)]
  BY DEF Typed
<1>2. ASSUME NEW r \in Properties
      PROVE  \E l \in {<<>>} \cup {h.sel[r] : h \in Links} : Repeats(new[r]) <= Repeats(l)
  <2>1. PICK l \in {<<>>} \cup {h.sel[r] : h \in Links} : Repeats(sel[r]) <= Repeats(l)
    BY DEF Typed
  <2>2. sel[r] \in Seq(Nat) /\ l \in Seq(Nat)
    <3>1. <<>> \in Seq(Nat)  OBVIOUS
    <3>2. QED BY <3>1, PageAssumption DEF Typed
  <2>3. new[r] = sel[r] \/ (r = p /\ new[r] = s)
    BY DEF Typed
  <2>4. /\ Repeats(s) \in Int /\ Repeats(sel[r]) \in Int /\ Repeats(l) \in Int
    BY <2>2, SelectionFinite
  <2>5. CASE new[r] = sel[r]
    BY <2>1, <2>5
  <2>6. CASE r = p /\ new[r] = s
    BY <2>1, <2>4, <2>6
  <2>7. QED BY <2>3, <2>5, <2>6
<1>3. QED BY <1>1, <1>2 DEF Typed

-----------------------------------------------------------------------------
(* The invariant *)

\* update brings everything in line with the query it is given, or throws: whatever handler calls it.
LEMMA UpdateKeepsPInv ==
  ASSUME NEW q, q = [metric |-> q.metric, sel |-> q.sel], Typed(q.sel), NEW d,
         NEW t \in Tables, NEW boxes \in SUBSET Selected(q, t), NEW shown,
         update(q, d, t, boxes, shown), scenarios' = t, results' \in Tables
  PROVE  PInv'
<1>1. query' = q /\ data_type' = d /\ hash'.sel = q.sel
  BY DEF update, encode
<1>2. CASE q.metric \notin Metrics
  <2>1. failed' = TRUE /\ ticked' = boxes
    BY <1>2 DEF update
  <2>2. QED BY <1>1, <2>1 DEF PInv, Typed, Selected
<1>3. CASE q.metric \in Metrics
  <2>1. /\ title' = q.metric /\ ticked' = Selected(q, t)
        /\ failed' = (MatchesThrows(q, t) \/ RendererThrows(q, t, d))
        /\ failed' \/ chart' = Drawn(q, t, d)
    BY <1>3 DEF update
  <2>2. failed' \in BOOLEAN
    BY <2>1 DEF MatchesThrows, RendererThrows
  <2>3. /\ Selected(query, scenarios)' = Selected(q, t)
        /\ MatchesThrows(query, scenarios)' = MatchesThrows(q, t)
        /\ RendererThrows(query, scenarios, data_type)' = RendererThrows(q, t, d)
        /\ Drawn(query, scenarios, data_type)' = Drawn(q, t, d)
    BY <1>1
  <2>4. ~failed' => InLine'
    BY <1>1, <1>3, <2>1, <2>3 DEF InLine
  <2>5. Typed(query.sel)' /\ Typed(hash.sel)'
    BY <1>1 DEF Typed
  <2>6. QED BY <1>1, <2>1, <2>2, <2>3, <2>4, <2>5 DEF PInv
<1>4. QED BY <1>2, <1>3

LEMMA InitPInv == Init => PInv
<1> SUFFICES ASSUME Init PROVE PInv
  OBVIOUS
<1>1. /\ query = NoQuery /\ NoQuery.sel = [p \in Properties |-> <<>>] /\ NoQuery.metric = 0
      /\ hash.sel = NoQuery.sel /\ results \in Tables /\ scenarios \in Tables
  BY DEF Init, encode, NoQuery
<1>2. Typed(NoQuery.sel)
  <2>1. <<>> \in Seq(Nat)  OBVIOUS
  <2>2. Repeats(<<>>) <= Repeats(<<>>)
    <3>1. Repeats(<<>>) \in Int  BY <2>1, SelectionFinite
    <3>2. QED BY <3>1
  <2>3. QED BY <1>1, <2>1, <2>2 DEF Typed
<1>3. /\ \A p \in Properties : DOMAIN NoQuery.sel[p] = {}
      /\ "churn" \in Properties
  BY <1>1 DEF Properties
<1>4. Selected(NoQuery, scenarios) = {}
  <2>1. \A b \in Boxes(scenarios) : b[1] \in Properties
    BY DEF Boxes
  <2>2. QED BY <1>3, <2>1 DEF Selected
<1>5. ~MatchesThrows(NoQuery, scenarios)
  BY <1>3 DEF MatchesThrows
<1>6. matches(NoQuery, scenarios) = <<>> /\ ToSet(<<>>) = {}
  <2>1. DOMAIN matches(NoQuery, scenarios) = {}
    BY <1>3 DEF matches
  <2>2. matches(NoQuery, scenarios) = <<>>
    BY <1>3 DEF matches
  <2>3. QED BY <2>2 DEF ToSet
<1>7. ~RendererThrows(NoQuery, scenarios, "overtime")
  BY <1>6 DEF RendererThrows
<1>8. chart = Drawn(query, scenarios, data_type)
  BY <1>1, <1>6 DEF Init, Drawn, DataTypes
<1>9. InLine
  BY <1>1, <1>4, <1>5, <1>7, <1>8, PageAssumption DEF InLine, Init
<1>10. QED
  BY <1>1, <1>2, <1>4, <1>9 DEF PInv, Init, NoQuery

\* Loading the page from its address, wherever that came from.
LEMMA LoadKeepsPInv ==
  ASSUME PInv, Load
  PROVE  PInv'
<1> DEFINE q == decode(hash)
<1>1. q = [metric |-> q.metric, sel |-> q.sel] /\ q.sel = hash.sel
  BY DEF decode
<1>2. /\ update(q, hash.data_type, results, {}, Nothing)
      /\ scenarios' = results /\ results' = results
  BY DEF Load
<1>3. results \in Tables /\ Typed(q.sel)
  BY <1>1 DEF PInv
<1> HIDE DEF q
<1>4. QED BY <1>1, <1>2, <1>3, UpdateKeepsPInv

\* Choosing a metric.
LEMMA MetricKeepsPInv ==
  ASSUME PInv, NEW m \in Metrics, metricClicked(m)
  PROVE  PInv'
<1> DEFINE q == [query EXCEPT !.metric = m]
<1>1. q = [metric |-> q.metric, sel |-> q.sel] /\ q.sel = query.sel
  BY DEF PInv
<1>2. /\ update(q, data_type, scenarios, ticked, Shown)
      /\ scenarios' = scenarios /\ results' = results
  BY DEF metricClicked
<1>3. /\ results \in Tables /\ scenarios \in Tables /\ Typed(q.sel)
      /\ ticked \in SUBSET Selected(q, scenarios)
  BY <1>1 DEF PInv, Selected
<1> HIDE DEF q
<1>4. QED BY <1>1, <1>2, <1>3, UpdateKeepsPInv

\* Choosing a data type.
LEMMA DataTypeKeepsPInv ==
  ASSUME PInv, NEW d, dataTypeChanged(d)
  PROVE  PInv'
<1>1. /\ update(query, d, scenarios, ticked, Shown)
      /\ scenarios' = scenarios /\ results' = results
  BY DEF dataTypeChanged
<1>2. QED BY <1>1, UpdateKeepsPInv DEF PInv

\* The value of a box that the browser has unchecked is no longer selected, nor its box checked,
\* unless it is selected again; every other value stays.
LEMMA FilterKeepsPInv ==
  ASSUME PInv, NEW b \in Boxes(scenarios), filterChecked(b)
  PROVE  PInv'
<1> DEFINE p == b[1]
           i == b[2]
           s == query.sel[p]
<1>1. /\ p \in Properties /\ i \in Nat /\ b = <<p, i>>
      /\ \A c \in Boxes(scenarios) : c[1] \in Properties /\ c = <<c[1], c[2]>>
  BY DEF Boxes
<1>2. s \in Seq(Nat)
  BY <1>1 DEF PInv, Typed
<1>3. scenarios' = scenarios /\ results' = results /\ results \in Tables /\ scenarios \in Tables
  BY DEF filterChecked, PInv
<1>4. \A c \in Boxes(scenarios) :
        c \in Selected(query, scenarios) <=> c[2] \in ToSet(query.sel[c[1]])
  BY DEF Selected, ToSet
<1>5. ASSUME NEW new \in Seq(Nat), Repeats(new) <= Repeats(s),
             NEW boxes \in SUBSET (ticked \cup {b}),
             \A c \in boxes : c[1] = p => c[2] \in ToSet(new),
             update([query EXCEPT !.sel[p] = new], data_type, scenarios, boxes, Shown)
      PROVE  PInv'
  <2> DEFINE q == [query EXCEPT !.sel[p] = new]
  <2>1. /\ q = [metric |-> q.metric, sel |-> q.sel]
        /\ q.sel = [query.sel EXCEPT ![p] = new]
    BY DEF PInv
  <2> HIDE DEF p, i, s
  <2>2. Typed(q.sel)
    BY <1>1, <1>5, <2>1, TypedStays DEF PInv, s
  <2>3. boxes \in SUBSET Selected(q, scenarios)
    <3> SUFFICES ASSUME NEW c \in boxes
                 PROVE  c \in Selected(q, scenarios)
      OBVIOUS
    <3>1. c \in Boxes(scenarios) /\ (c = b \/ c \in Selected(query, scenarios))
      BY DEF PInv, Selected
    <3>2. c[2] \in ToSet(q.sel[c[1]])
      <4>1. CASE c[1] = p
        BY <1>1, <1>5, <2>1, <4>1 DEF PInv, Typed
      <4>2. CASE c[1] # p
        <5>1. q.sel[c[1]] = query.sel[c[1]]  BY <2>1, <4>2, <1>1, <3>1 DEF PInv, Typed
        <5>2. c # b                          BY <4>2 DEF p
        <5>3. QED BY <1>4, <3>1, <5>1, <5>2
      <4>3. QED BY <4>1, <4>2
    <3>3. QED BY <3>1, <3>2 DEF Selected, ToSet
  <2>4. update(q, data_type, scenarios, boxes, Shown)
    BY <1>5
  <2> HIDE DEF q
  <2>5. QED BY <1>3, <2>1, <2>2, <2>3, <2>4, UpdateKeepsPInv
<1>6. CASE b \in ticked
  <2> DEFINE new == removeIfExists(s, i)
  <2>1. new \in Seq(Nat) /\ ToSet(s) \ {i} \subseteq ToSet(new) /\ Repeats(new) <= Repeats(s)
    BY <1>2, RemoveKeepsSelection
  <2>2. update([query EXCEPT !.sel[p] = new], data_type, scenarios, ticked \ {b}, Shown)
    BY <1>6 DEF filterChecked
  <2> HIDE DEF new
  <2>3. \A c \in ticked \ {b} : c[1] = p => c[2] \in ToSet(new)
    <3> SUFFICES ASSUME NEW c \in ticked, c # b, c[1] = p
                 PROVE  c[2] \in ToSet(new)
      OBVIOUS
    <3>1. c \in Boxes(scenarios) /\ c \in Selected(query, scenarios)
      BY DEF PInv, Selected
    <3>2. c[2] # i /\ c[2] \in ToSet(s)
      BY <1>1, <1>4, <3>1
    <3>3. QED BY <2>1, <3>2
  <2>4. QED BY <1>5, <2>1, <2>2, <2>3
<1>7. CASE b \notin ticked
  <2> DEFINE new == addIfAbsent(s, i)
  <2>1. new \in Seq(Nat) /\ ToSet(new) = ToSet(s) \cup {i} /\ Repeats(new) = Repeats(s)
    BY <1>1, <1>2, AddKeepsSelection
  <2>2. update([query EXCEPT !.sel[p] = new], data_type, scenarios, ticked \cup {b}, Shown)
    BY <1>7 DEF filterChecked
  <2> HIDE DEF new
  <2>3. \A c \in ticked \cup {b} : c[1] = p => c[2] \in ToSet(new)
    <3> SUFFICES ASSUME NEW c \in ticked \cup {b}, c[1] = p
                 PROVE  c[2] \in ToSet(new)
      OBVIOUS
    <3>1. CASE c = b  BY <2>1, <3>1
    <3>2. CASE c \in ticked
      <4>1. c \in Boxes(scenarios) /\ c \in Selected(query, scenarios)
        BY <3>2 DEF PInv, Selected
      <4>2. c[2] \in ToSet(s)  BY <1>4, <4>1
      <4>3. QED BY <2>1, <4>2
    <3>3. QED BY <3>1, <3>2
  <2>4. Repeats(new) <= Repeats(s)
    BY <1>2, <2>1, SelectionFinite
  <2>5. QED BY <1>5, <2>1, <2>2, <2>3, <2>4
<1>8. QED BY <1>6, <1>7

LEMMA NextPInv == PInv /\ [Next]_vars => PInv'
<1> SUFFICES ASSUME PInv, [Next]_vars PROVE PInv'
  OBVIOUS
<1>1. ASSUME NEW h \in Links, Navigate(h) PROVE PInv'
  <2>1. /\ results' = results /\ scenarios' = scenarios /\ failed' = failed /\ query' = query
        /\ ticked' = ticked /\ title' = title /\ chart' = chart /\ data_type' = data_type
        /\ hash' = h
    BY <1>1 DEF Navigate, page
  <2>2. Typed(h.sel)
    <3>1. h.sel \in [Properties -> Seq(Nat)]  BY PageAssumption
    <3>2. \A p \in Properties : Repeats(h.sel[p]) <= Repeats(h.sel[p])
      BY <3>1, SelectionFinite
    <3>3. QED BY <3>1, <3>2 DEF Typed
  <2>3. QED BY <2>1, <2>2 DEF PInv, InLine, Typed
<1>2. ASSUME NEW t \in Tables, Regenerate(t) PROVE PInv'
  BY <1>2 DEF Regenerate, page, PInv, InLine
<1>3. CASE UNCHANGED vars
  BY <1>3 DEF vars, page, PInv, InLine
<1>4. QED
  BY <1>1, <1>2, <1>3, LoadKeepsPInv, MetricKeepsPInv, DataTypeKeepsPInv, FilterKeepsPInv DEF Next

\* No handler of the page, and no link it is loaded from, breaks its invariant.
THEOREM PInvHolds == Spec => []PInv
BY InitPInv, NextPInv, PTL DEF Spec

-----------------------------------------------------------------------------
\* No box but those there are is checked, and no selection repeats more than one that was typed.
THEOREM PageTypeCorrect == Spec => []TypeOK
<1>1. PInv => TypeOK
  BY DEF PInv, TypeOK, Typed, Selected
<1>2. QED BY <1>1, PInvHolds, PTL

\* Whatever is clicked, typed or loaded, in whatever order: what is drawn is what is ticked, with the
\* metric of the title and the data type chosen, unless the last handler threw.
THEOREM ChartIsTrue == Spec => []ChartIsWhatIsTicked
<1>1. PInv => ChartIsWhatIsTicked
  <2> SUFFICES ASSUME PInv, ~failed PROVE ChartIsWhatIsTicked
    BY DEF ChartIsWhatIsTicked
  <2>1. /\ title = query.metric /\ ticked = Selected(query, scenarios)
        /\ chart = Drawn(query, scenarios, data_type)
    BY DEF PInv, InLine
  <2>2. /\ scenarios \in Seq(ToSet(scenarios))
        /\ query.sel \in [Properties -> Seq(Nat)]
    BY PageAssumption DEF PInv, Typed
  <2>3. UNION ToSet(matches(query, scenarios)) =
          {k \in DOMAIN scenarios : \A p \in Properties :
             <<p, KeyIndex(scenarios, p, scenarios[k][p])>> \in ticked}
    BY <2>1, <2>2, DrawnIsTicked
  <2>4. UNION ToSet(<<>>) = {}
    BY DEF ToSet
  <2>5. QED BY <2>1, <2>3, <2>4 DEF ChartIsWhatIsTicked, Drawn
<1>2. QED BY <1>1, PInvHolds, PTL

\* The address says all there is to say: loading the page from it shows the same page.
THEOREM AddressSuffices == Spec => AddressRestoresPage
<1>1. PInv /\ [Next]_vars =>
        [Load /\ ~failed /\ hash = encode(query, data_type) /\ results = scenarios
           => <<title, ticked, chart>>' = <<title, ticked, chart>>]_vars
  <2> SUFFICES ASSUME PInv, Load, ~failed, hash = encode(query, data_type), results = scenarios
               PROVE  <<title, ticked, chart>>' = <<title, ticked, chart>>
    OBVIOUS
  <2>1. decode(hash) = query /\ hash.data_type = data_type
    BY DEF PInv, encode, decode
  <2>2. update(query, data_type, scenarios, {}, Nothing)
    BY <2>1 DEF Load
  <2>3. InLine
    BY DEF PInv
  <2>4. title' = query.metric /\ ticked' = Selected(query, scenarios)
        /\ chart' = Drawn(query, scenarios, data_type)
    BY <2>2, <2>3 DEF InLine, update
  <2>5. QED BY <2>3, <2>4 DEF InLine
<1>2. QED BY <1>1, PInvHolds, PTL DEF Spec, AddressRestoresPage
=============================================================================
