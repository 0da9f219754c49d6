----------------------------- MODULE SeatProofs -----------------------------
(***************************************************************************)
(* What is proved of the seat, for any keys, buttons, windows, layer       *)
(* surfaces and configurations: that presses and releases are paired, that *)
(* interfaces, popups and the keyboard focus agree, that the focused window*)
(* was used last, and that the recent windows are a list of the windows.   *)
(***************************************************************************)
EXTENDS SeatProperties, IndexLemmas

\* The windows are finite in number: they have an order.
LEMMA WindowsFinite == IsFiniteSet(Window)
<1>1. PICK n \in Nat : n = Len(WindowOrder)
  BY OrderAssumption
<1>2. WindowOrder \in [1..n -> Window] /\ \A w \in Window : \E i \in 1..n : WindowOrder[i] = w
  BY <1>1, OrderAssumption DEF Range
<1>3. WindowOrder \in Surjection(1..n, Window)
  BY <1>2 DEF Surjection
<1>4. IsFiniteSet(1..n)
  BY FS_Interval
<1> QED BY <1>3, <1>4, FS_Surjection

(***************************************************************************)
(* The list of recent windows                                              *)
(***************************************************************************)
\* A thumbnail, where its window was whatever it was.
Thumb == [win : Window, onOutput : BOOLEAN, onWorkspace : BOOLEAN]

\* The fields of a list, and a list of these, whatever their values.
MruField == {"open", "thumbnails", "current", "app", "scope"}
IsMru(m) == m = [f \in MruField |-> m[f]]

\* A list of windows of ws, each once,
Lists(m, ws) ==
  /\ m.thumbnails \in Seq(Thumb)
  /\ \A i, j \in 1..Len(m.thumbnails) : m.thumbnails[i].win = m.thumbnails[j].win => i = j
  /\ \A i \in 1..Len(m.thumbnails) : m.thumbnails[i].win \in ws

\* ... of which these are visible.
Shown(m) == {m.thumbnails[i].win : i \in VisibleAt(m)}

\* What is selected is one of them, if there are any.
Picks(m) == IF Shown(m) = {} THEN m.current = NoWindow ELSE m.current \in Shown(m)

\* All windows of the list v are different.
Distinct(v) == \A i, j \in 1..Len(v) : v[i] = v[j] => i = j

\* Visible(m) has just the windows that are visible, and each once.
LEMMA VisibleFacts ==
  ASSUME NEW m, NEW ws, Lists(m, ws)
  PROVE  /\ Visible(m) \in Seq(Window) /\ Distinct(Visible(m)) /\ ToSet(Visible(m)) = Shown(m)
         /\ Shown(m) \subseteq Window /\ Shown(m) \subseteq ws
<1> DEFINE t == m.thumbnails
           K == VisibleAt(m)
           n == Cardinality(K)
<1>1. t \in Seq(Thumb) /\ K \in SUBSET (1..Len(t))
  BY DEF Lists, VisibleAt
<1>2. /\ Keep(t, K) \in Seq(Thumb) /\ Len(Keep(t, K)) = n /\ n \in 0..Len(t)
      /\ \A j \in 1..n : Nth(K, j) \in K /\ Keep(t, K)[j] = t[Nth(K, j)] /\ RankIn(K, Nth(K, j)) = j
      /\ \A k \in K : RankIn(K, k) \in 1..n /\ Nth(K, RankIn(K, k)) = k /\ Keep(t, K)[RankIn(K, k)] = t[k]
  <2> HIDE DEF t, K
  <2> QED BY <1>1, Kept DEF n
<1>3. \A i \in 1..Len(t) : t[i].win \in Window /\ t[i].win \in ws
  <2>1. \A i \in 1..Len(t) : t[i] \in Thumb
    BY <1>1
  <2> QED BY <2>1 DEF Lists, Thumb
<1>4. DOMAIN Keep(t, K) = 1..n /\ n \in Nat
  BY <1>2
<1> DEFINE v == [i \in 1..n |-> Keep(t, K)[i].win]
<1>5. Visible(m) = v
  <2>1. Visible(m) = [i \in DOMAIN Keep(t, K) |-> Keep(t, K)[i].win]
    BY DEF Visible
  <2> HIDE DEF K, t, n
  <2> QED BY <1>4, <2>1
<1>6. \A i \in 1..n : v[i] = t[Nth(K, i)].win /\ Nth(K, i) \in K
  BY <1>2
<1>7. \A k \in K : v[RankIn(K, k)] = t[k].win /\ RankIn(K, k) \in 1..n
  BY <1>2
<1>8. v \in [1..n -> Window] /\ DOMAIN v = 1..n
  <2>1. \A i \in 1..n : Keep(t, K)[i].win \in Window
    BY <1>1, <1>2, <1>3
  <2> QED BY <2>1
<1> HIDE DEF v, n
<1>9. v \in Seq(Window) /\ Len(v) = n
  BY <1>4, <1>8
<1>10. Distinct(v)
  <2> SUFFICES ASSUME NEW i \in 1..n, NEW j \in 1..n, v[i] = v[j] PROVE i = j
    BY <1>9 DEF Distinct
  <2>1. Nth(K, i) = Nth(K, j)
    <3>1. Nth(K, i) \in 1..Len(t) /\ Nth(K, j) \in 1..Len(t) /\ t[Nth(K, i)].win = t[Nth(K, j)].win
      BY <1>1, <1>6
    <3> QED BY <3>1 DEF Lists
  <2> QED BY <1>2, <2>1
<1>11. ToSet(v) = Shown(m)
  <2>1. \A x \in ToSet(v) : x \in Shown(m)
    <3> SUFFICES ASSUME NEW i \in 1..n PROVE v[i] \in Shown(m)
      BY <1>8 DEF ToSet
    <3> QED BY <1>6 DEF Shown
  <2>2. \A x \in Shown(m) : x \in ToSet(v)
    <3> SUFFICES ASSUME NEW k \in K PROVE t[k].win \in ToSet(v)
      BY DEF Shown
    <3>1. v[RankIn(K, k)] = t[k].win /\ RankIn(K, k) \in DOMAIN v
      BY <1>7, <1>8
    <3> QED BY <3>1 DEF ToSet
  <2> QED BY <2>1, <2>2
<1>12. Shown(m) \subseteq Window /\ Shown(m) \subseteq ws
  BY <1>1, <1>3 DEF Shown
<1> QED BY <1>5, <1>9, <1>10, <1>11, <1>12

\* The window after w is in the list; it is w only if there is no other.
LEMMA AfterFacts ==
  ASSUME NEW v \in Seq(Window), v # <<>>, NEW w
  PROVE  /\ After(v, w) \in ToSet(v) /\ v[1] \in ToSet(v) /\ v[Len(v)] \in ToSet(v)
         /\ Distinct(v) /\ After(v, w) = w => ToSet(v) = {w}
<1> DEFINE k == IndexIn(v, w)
<1>1. Len(v) \in Nat /\ Len(v) >= 1 /\ DOMAIN v = 1..Len(v)
  OBVIOUS
<1>2. \A i \in 1..Len(v) : v[i] \in ToSet(v)
  BY <1>1 DEF ToSet
<1>3. ASSUME w \in ToSet(v) PROVE k \in 1..Len(v) /\ v[k] = w
  <2>1. PICK i \in DOMAIN v : v[i] = w
    BY <1>3 DEF ToSet
  <2> QED BY <1>1, <2>1 DEF IndexIn
<1> HIDE DEF k
<1>4. After(v, w) = IF w \in ToSet(v) /\ k < Len(v) THEN v[k + 1] ELSE v[1]
  BY DEF After, k
<1>5. After(v, w) \in ToSet(v)
  BY <1>1, <1>2, <1>3, <1>4
<1>6. ASSUME Distinct(v), After(v, w) = w PROVE ToSet(v) = {w}
  <2>1. w \in ToSet(v)
    BY <1>5, <1>6
  <2>2. k \in 1..Len(v) /\ v[k] = w
    BY <1>3, <2>1
  <2>3. ~(k < Len(v))
    <3>1. k < Len(v) => v[k + 1] = v[k] /\ k + 1 \in 1..Len(v)
      BY <1>1, <1>4, <1>6, <2>1, <2>2
    <3>2. k < Len(v) => k + 1 = k
      BY <1>6, <2>2, <3>1 DEF Distinct
    <3> QED BY <2>2, <3>2
  <2>4. v[1] = v[k] /\ 1 \in 1..Len(v)
    BY <1>1, <1>4, <1>6, <2>2, <2>3
  <2>5. k = 1 /\ Len(v) = 1
    BY <1>1, <1>6, <2>2, <2>3, <2>4 DEF Distinct
  <2> QED BY <1>1, <2>2, <2>5 DEF ToSet
<1> QED BY <1>1, <1>2, <1>5, <1>6

\* Backwards the list has the same windows.
LEMMA ReverseFacts ==
  ASSUME NEW v \in Seq(Window), v # <<>>
  PROVE  Reverse(v) \in Seq(Window) /\ Reverse(v) # <<>> /\ ToSet(Reverse(v)) = ToSet(v)
<1> DEFINE r == Reverse(v)
<1>1. Len(v) \in Nat /\ Len(v) >= 1 /\ DOMAIN v = 1..Len(v)
  OBVIOUS
<1>2. \A i \in 1..Len(v) : (Len(v) - i) + 1 \in 1..Len(v) /\ v[(Len(v) - i) + 1] \in Window
  BY <1>1
<1>3. r = [i \in 1..Len(v) |-> v[(Len(v) - i) + 1]]
  BY DEF Reverse
<1>4. r \in Seq(Window) /\ Len(r) = Len(v) /\ DOMAIN r = 1..Len(v)
  BY <1>1, <1>2, <1>3
<1>5. \A i \in 1..Len(v) : r[i] = v[(Len(v) - i) + 1] /\ v[i] = r[(Len(v) - i) + 1]
  BY <1>1, <1>2, <1>3
<1> HIDE DEF r
<1>6. ToSet(r) = ToSet(v)
  BY <1>1, <1>2, <1>4, <1>5 DEF ToSet
<1>7. r # <<>>
  BY <1>1, <1>4
<1> QED BY <1>4, <1>6, <1>7 DEF r


\* Another selection of the list m, of a window that is visible in it.
Reselects(m, n) ==
  /\ n.thumbnails = m.thumbnails /\ n.scope = m.scope /\ n.app = m.app /\ n.open = m.open
  /\ Picks(n)

\* The same list under another scope or filter.
SameList(m, n) == n.thumbnails = m.thumbnails /\ n.open = m.open

\* What is visible depends on the thumbnails, the scope and the filter.
LEMMA ShownSame ==
  ASSUME NEW m, NEW n, n.thumbnails = m.thumbnails, n.scope = m.scope, n.app = m.app
  PROVE  VisibleAt(n) = VisibleAt(m) /\ Shown(n) = Shown(m) /\ Visible(n) = Visible(m)
<1>1. VisibleAt(n) = VisibleAt(m)
  BY DEF VisibleAt
<1> QED BY <1>1 DEF Shown, Visible

\* A selection of what is visible.
LEMMA Selected ==
  ASSUME NEW m, IsMru(m), NEW w, IF Shown(m) = {} THEN w = NoWindow ELSE w \in Shown(m)
  PROVE  IsMru([m EXCEPT !.current = w]) /\ Reselects(m, [m EXCEPT !.current = w])
<1> DEFINE n == [m EXCEPT !.current = w]
<1>1. IsMru(n) /\ SameList(m, n) /\ n.scope = m.scope /\ n.app = m.app /\ n.current = w
  BY DEF IsMru, MruField, SameList
<1> HIDE DEF n
<1>2. Shown(n) = Shown(m)
  BY <1>1, ShownSame DEF SameList
<1>3. Picks(n)
  BY <1>1, <1>2 DEF Picks
<1> QED BY <1>1, <1>3 DEF Reselects, SameList, n

\* The first, the last, or the last one that is visible up to place i.
LEMMA SelectionsFit ==
  ASSUME NEW m, IsMru(m), NEW ws, Lists(m, ws)
  PROVE  /\ IsMru(SelectFirst(m)) /\ Reselects(m, SelectFirst(m))
         /\ IsMru(SelectLast(m)) /\ Reselects(m, SelectLast(m))
         /\ \A i : IsMru(SelectNear(m, i)) /\ Reselects(m, SelectNear(m, i))
<1> DEFINE v == Visible(m)
<1>1. v \in Seq(Window) /\ ToSet(v) = Shown(m)
  BY VisibleFacts
<1> HIDE DEF v
<1>2. v = <<>> => Shown(m) = {}
  BY <1>1 DEF ToSet
<1>3. v # <<>> => v[1] \in Shown(m) /\ v[Len(v)] \in Shown(m)
  BY <1>1, AfterFacts
<1>4. /\ IF Shown(m) = {} THEN FirstIn(v) = NoWindow ELSE FirstIn(v) \in Shown(m)
      /\ IF Shown(m) = {} THEN LastIn(v) = NoWindow ELSE LastIn(v) \in Shown(m)
  BY <1>2, <1>3 DEF FirstIn, LastIn
<1>5. /\ IsMru(SelectFirst(m)) /\ Reselects(m, SelectFirst(m))
      /\ IsMru(SelectLast(m)) /\ Reselects(m, SelectLast(m))
  <2>1. SelectFirst(m) = [m EXCEPT !.current = FirstIn(v)] /\ SelectLast(m) = [m EXCEPT !.current = LastIn(v)]
    BY DEF SelectFirst, SelectLast, v
  <2> QED BY <1>4, <2>1, Selected
<1>6. ASSUME NEW i PROVE IsMru(SelectNear(m, i)) /\ Reselects(m, SelectNear(m, i))
  <2> DEFINE left == {k \in VisibleAt(m) : k <= i}
             g == CHOOSE k \in left : \A j \in left : j <= k
  <2>1. CASE left = {}
    <3>1. SelectNear(m, i) = SelectFirst(m)
      BY <2>1 DEF SelectNear
    <3> QED BY <1>5, <3>1
  <2>2. CASE left # {}
    <3>1. Len(m.thumbnails) \in Nat /\ left \in SUBSET (1..Len(m.thumbnails)) /\ left \in SUBSET Nat
      BY DEF Lists, VisibleAt
    <3>2. IsFiniteSet(left)
      <4> HIDE DEF left
      <4> QED BY <3>1, IndicesFinite
    <3>3. \E x : IsGreatest(x, left)
      <4> HIDE DEF left
      <4> QED BY <2>2, <3>1, <3>2, GreatestNat
    <3>4. g \in left
      <4> HIDE DEF left
      <4> QED BY <3>3 DEF IsGreatest
    <3>5. m.thumbnails[g].win \in Shown(m)
      BY <3>4 DEF Shown
    <3>6. SelectNear(m, i) = [m EXCEPT !.current = m.thumbnails[g].win]
      BY <2>2, Zenon DEF SelectNear
    <3> HIDE DEF g
    <3> QED BY <3>5, <3>6, Selected
  <2> QED BY <2>1, <2>2
<1> QED BY <1>5, <1>6

\* To select the same again, another visible one, or the next.
LEMMA MovesFit ==
  ASSUME NEW m, IsMru(m), NEW ws, Lists(m, ws), Picks(m), NoWindow \notin Shown(m)
  PROVE  /\ Reselects(m, m)
         /\ \A w : IsMru(SetCurrent(m, w)) /\ Reselects(m, SetCurrent(m, w))
         /\ \A dir : IsMru(Advance(m, dir)) /\ Reselects(m, Advance(m, dir))
         /\ m.current # NoWindow => Forward(m) = [m EXCEPT !.current = After(Visible(m), m.current)]
<1> DEFINE v == Visible(m)
<1>1. v \in Seq(Window) /\ ToSet(v) = Shown(m)
  BY VisibleFacts
<1>2. Reselects(m, m)
  BY DEF Reselects
<1>3. ASSUME NEW w PROVE IsMru(SetCurrent(m, w)) /\ Reselects(m, SetCurrent(m, w))
  <2>1. SetCurrent(m, w) = IF w \in Shown(m) THEN [m EXCEPT !.current = w] ELSE m
    BY <1>1 DEF SetCurrent
  <2> QED BY <1>2, <2>1, Selected
<1>4. ASSUME m.current # NoWindow
      PROVE  After(v, m.current) \in Shown(m) /\ After(Reverse(v), m.current) \in Shown(m)
  <2>1. Shown(m) # {}
    BY <1>4 DEF Picks
  <2>2. v # <<>>
    BY <1>1, <2>1 DEF ToSet
  <2> HIDE DEF v
  <2>3. Reverse(v) \in Seq(Window) /\ Reverse(v) # <<>> /\ ToSet(Reverse(v)) = ToSet(v)
    BY <1>1, <2>2, ReverseFacts
  <2>4. After(v, m.current) \in ToSet(v)
    BY <1>1, <2>2, AfterFacts
  <2>5. After(Reverse(v), m.current) \in ToSet(Reverse(v))
    BY <2>3, AfterFacts
  <2> QED BY <1>1, <2>3, <2>4, <2>5
<1>5. /\ Forward(m) = IF m.current = NoWindow THEN m ELSE [m EXCEPT !.current = After(v, m.current)]
      /\ Backward(m) = IF m.current = NoWindow THEN m ELSE [m EXCEPT !.current = After(Reverse(v), m.current)]
  BY Zenon DEF Forward, Backward
<1> HIDE DEF v
<1>6. IsMru(Forward(m)) /\ Reselects(m, Forward(m)) /\ IsMru(Backward(m)) /\ Reselects(m, Backward(m))
  BY <1>2, <1>4, <1>5, Selected
<1> QED BY <1>2, <1>3, <1>5, <1>6 DEF Advance, v


\* A list that may be shown: of windows of ws, with a visible one selected.
Fits(m, ws) == IsMru(m) /\ Lists(m, ws) /\ Picks(m)

\* A selection in the list m fits as m does.
LEMMA ReselectedFits ==
  ASSUME NEW m, NEW n, NEW ws, Lists(m, ws), IsMru(n), Reselects(m, n)
  PROVE  Fits(n, ws) /\ SameList(m, n)
  BY DEF Fits, Lists, Reselects, SameList

\* A list under another scope or filter, with another selection.
LEMMA RestrictedFits ==
  ASSUME NEW m, NEW ws, Fits(m, ws), NEW n, IsMru(n), SameList(m, n)
  PROVE  /\ Fits(SelectFirst(n), ws) /\ SameList(m, SelectFirst(n))
         /\ \A i : Fits(SelectNear(n, i), ws) /\ SameList(m, SelectNear(n, i))
<1>1. Lists(n, ws)
  BY DEF Fits, Lists, SameList
<1>2. IsMru(SelectFirst(n)) /\ Reselects(n, SelectFirst(n))
  BY <1>1, SelectionsFit
<1>3. \A i : IsMru(SelectNear(n, i)) /\ Reselects(n, SelectNear(n, i))
  BY <1>1, SelectionsFit
<1>4. \A k : IsMru(k) /\ Reselects(n, k) => Fits(k, ws) /\ SameList(m, k)
  BY <1>1, ReselectedFits DEF SameList
<1> QED BY <1>2, <1>3, <1>4

\* A change of the scope keeps the list.
LEMMA SetScopeFits ==
  ASSUME NEW m, NEW ws, Fits(m, ws), NEW scope
  PROVE  Fits(SetScope(m, scope), ws) /\ SameList(m, SetScope(m, scope))
<1> DEFINE n == [m EXCEPT !.scope = scope]
<1>1. IsMru(n) /\ SameList(m, n) /\ SameList(m, m)
  BY DEF Fits, IsMru, MruField, SameList
<1>2. SetScope(m, scope) = IF m.scope = scope THEN m ELSE SelectNear(n, CurrentAt(m))
  BY Zenon DEF SetScope
<1> HIDE DEF n
<1> QED BY <1>1, <1>2, RestrictedFits

\* So does a change of the filter.
LEMMA SetFilterFits ==
  ASSUME NEW m, NEW ws, Fits(m, ws), NEW filter \in Filter
  PROVE  Fits(SetFilter(m, filter), ws) /\ SameList(m, SetFilter(m, filter))
<1>1. ASSUME NEW app
      PROVE  /\ Fits(SelectFirst([m EXCEPT !.app = app]), ws) /\ SameList(m, SelectFirst([m EXCEPT !.app = app]))
             /\ \A i : /\ Fits(SelectNear([m EXCEPT !.app = app], i), ws)
                       /\ SameList(m, SelectNear([m EXCEPT !.app = app], i))
  <2> DEFINE n == [m EXCEPT !.app = app]
  <2>1. IsMru(n) /\ SameList(m, n)
    BY DEF Fits, IsMru, MruField, SameList
  <2> HIDE DEF n
  <2>2. /\ Fits(SelectFirst(n), ws) /\ SameList(m, SelectFirst(n))
        /\ \A i : Fits(SelectNear(n, i), ws) /\ SameList(m, SelectNear(n, i))
    BY <2>1, RestrictedFits
  <2> QED BY <2>2 DEF n
<1>2. SameList(m, m)
  BY DEF SameList
<1> QED BY <1>1, <1>2, Zenon DEF SetFilter, Filter

\* The list goes on without a window that is gone.
LEMMA DropFits ==
  ASSUME NEW m, NEW ws, Fits(m, ws), NEW w \in Window, NoWindow \notin Shown(m)
  PROVE  Fits(Drop(m, w), ws \ {w}) /\ Drop(m, w).open = m.open
<1> DEFINE t == m.thumbnails
           K == {i \in DOMAIN t : t[i].win # w}
           n == Cardinality(K)
           f == IF m.current = w THEN Forward(m) ELSE m
           d == Drop(m, w)
<1>1. t \in Seq(Thumb) /\ K \in SUBSET (1..Len(t)) /\ DOMAIN t = 1..Len(t) /\ Len(t) \in Nat
  BY DEF Fits, Lists
<1>2. /\ Keep(t, K) \in Seq(Thumb) /\ Len(Keep(t, K)) = n /\ n \in 0..Len(t)
      /\ \A j \in 1..n : Nth(K, j) \in K /\ Keep(t, K)[j] = t[Nth(K, j)] /\ RankIn(K, Nth(K, j)) = j
      /\ \A k \in K : RankIn(K, k) \in 1..n /\ Nth(K, RankIn(K, k)) = k /\ Keep(t, K)[RankIn(K, k)] = t[k]
  <2> HIDE DEF t, K
  <2> QED BY <1>1, Kept DEF n
<1>3. IsMru(f) /\ Reselects(m, f)
  <2>1. Reselects(m, m) /\ \A dir : IsMru(Advance(m, dir)) /\ Reselects(m, Advance(m, dir))
    BY MovesFit DEF Fits
  <2>2. IsMru(Forward(m)) /\ Reselects(m, Forward(m))
    BY <2>1 DEF Advance
  <2> QED BY <2>1, <2>2 DEF Fits
<1>4. /\ IsMru(d) /\ d.open = m.open /\ d.scope = m.scope /\ d.app = m.app
      /\ d.thumbnails = Keep(t, K) /\ d.current = IF f.current = w THEN NoWindow ELSE f.current
  <2>1. d = [f EXCEPT !.current = IF @ = w THEN NoWindow ELSE @,
                      !.thumbnails = Keep(@, {i \in DOMAIN @ : @[i].win # w})]
    BY Zenon DEF Drop
  <2> HIDE DEF f, d
  <2>2. f.thumbnails = t /\ f.scope = m.scope /\ f.app = m.app /\ f.open = m.open
    BY <1>3 DEF Reselects
  <2>3. /\ IsMru(d) /\ d.open = f.open /\ d.scope = f.scope /\ d.app = f.app
        /\ d.current = IF f.current = w THEN NoWindow ELSE f.current
        /\ d.thumbnails = Keep(f.thumbnails, {i \in DOMAIN f.thumbnails : f.thumbnails[i].win # w})
    BY <1>3, <2>1 DEF IsMru, MruField
  <2> QED BY <2>2, <2>3
<1>5. Lists(d, ws \ {w})
  <2>1. \A i \in 1..n : /\ Nth(K, i) \in 1..Len(t) /\ Keep(t, K)[i] = t[Nth(K, i)]
                        /\ t[Nth(K, i)].win # w /\ t[Nth(K, i)].win \in ws
    BY <1>1, <1>2 DEF Fits, Lists
  <2>2. ASSUME NEW i \in 1..n, NEW j \in 1..n, Keep(t, K)[i].win = Keep(t, K)[j].win PROVE i = j
    <3>1. Nth(K, i) = Nth(K, j)
      <4> HIDE DEF K, n
      <4> QED BY <2>1, <2>2 DEF Fits, Lists
    <3> QED BY <1>2, <3>1
  <2> HIDE DEF K, n, d
  <2> QED BY <1>2, <1>4, <2>1, <2>2 DEF Lists
<1>6. Shown(d) = Shown(m) \ {w}
  <2> DEFINE A(i) == Matches(t[i], m.scope, m.app)
  <2>1. VisibleAt(d) = {j \in 1..n : A(Nth(K, j))}
    <3>1. VisibleAt(d) = {j \in DOMAIN Keep(t, K) : Matches(Keep(t, K)[j], m.scope, m.app)}
      BY <1>4 DEF VisibleAt
    <3>2. DOMAIN Keep(t, K) = 1..n
      BY <1>2
    <3> HIDE DEF K, n, t
    <3> QED BY <1>2, <3>1, <3>2
  <2>2. \A x \in Shown(d) : x \in Shown(m) \ {w}
    <3> SUFFICES ASSUME NEW j \in 1..n, A(Nth(K, j)) PROVE Keep(t, K)[j].win \in Shown(m) \ {w}
      BY <1>4, <2>1 DEF Shown
    <3>1. Nth(K, j) \in K /\ Keep(t, K)[j] = t[Nth(K, j)]
      BY <1>2
    <3>2. Nth(K, j) \in VisibleAt(m)
      BY <3>1 DEF VisibleAt
    <3> QED BY <3>1, <3>2 DEF Shown
  <2>3. \A x \in Shown(m) : x # w => x \in Shown(d)
    <3> SUFFICES ASSUME NEW k \in VisibleAt(m), t[k].win # w PROVE t[k].win \in Shown(d)
      BY DEF Shown
    <3>1. k \in K /\ A(k)
      BY DEF VisibleAt
    <3>2. RankIn(K, k) \in 1..n /\ Nth(K, RankIn(K, k)) = k /\ Keep(t, K)[RankIn(K, k)] = t[k]
      BY <1>2, <3>1
    <3>3. RankIn(K, k) \in VisibleAt(d)
      BY <2>1, <3>1, <3>2
    <3>4. d.thumbnails[RankIn(K, k)].win = t[k].win
      BY <1>4, <3>2
    <3> HIDE DEF K, t, d
    <3> QED BY <3>3, <3>4 DEF Shown
  <2>4. w \notin Shown(d)
    BY <2>2
  <2> QED BY <2>2, <2>3, <2>4
<1>7. Picks(d)
  <2>1. CASE m.current = w
    <3>1. w \in Shown(m) /\ w # NoWindow
      BY <2>1, NoWindowAssumption DEF Fits, Picks
    <3>2. f.current = After(Visible(m), w)
      <4>1. f = [m EXCEPT !.current = After(Visible(m), m.current)]
        BY <2>1, <3>1, MovesFit DEF Fits
      <4> QED BY <2>1, <4>1 DEF Fits, IsMru, MruField
    <3>3. /\ Visible(m) \in Seq(Window) /\ Distinct(Visible(m)) /\ ToSet(Visible(m)) = Shown(m)
      BY VisibleFacts DEF Fits
    <3>4. Visible(m) # <<>>
      BY <3>1, <3>3 DEF ToSet
    <3>5. After(Visible(m), w) \in Shown(m) /\ (After(Visible(m), w) = w => Shown(m) = {w})
      BY <3>3, <3>4, AfterFacts
    <3> HIDE DEF d, f
    <3> QED BY <1>4, <1>6, <3>1, <3>2, <3>5 DEF Picks
  <2>2. CASE m.current # w
    <3> HIDE DEF d
    <3> QED BY <1>4, <1>6, <2>2 DEF Fits, Picks
  <2> QED BY <2>1, <2>2
<1> QED BY <1>4, <1>5, <1>7 DEF Fits


\* What comes before a among A in the order R.
Before(A, R, a) == {b \in A : <<b, a>> \in R}

\* A strict order in which any two elements of A are comparable.
Orders(R, A) ==
  /\ \A a \in A : <<a, a>> \notin R
  /\ \A a, b, c \in A : <<a, b>> \in R /\ <<b, c>> \in R => <<a, c>> \in R
  /\ \A a, b \in A : a = b \/ <<a, b>> \in R \/ <<b, a>> \in R

\* In a finite set that is ordered each element has a place of its own, and each
\* place is taken.
LEMMA PlacesTaken ==
  ASSUME NEW A, IsFiniteSet(A), NEW R, Orders(R, A)
  PROVE  /\ Cardinality(A) \in Nat
         /\ \A i \in 1..Cardinality(A) : \E a \in A : Cardinality(Before(A, R, a)) = i - 1
         /\ \A a, b \in A : Cardinality(Before(A, R, a)) = Cardinality(Before(A, R, b)) => a = b
<1> DEFINE c == Cardinality(A)
           N(a) == Cardinality(Before(A, R, a))
           F == [a \in A |-> N(a) + 1]
<1>1. c \in Nat
  BY FS_CardinalityType
<1>2. ASSUME NEW a \in A
      PROVE  IsFiniteSet(Before(A, R, a)) /\ N(a) \in Nat /\ N(a) < c
  <2>1. Before(A, R, a) \in SUBSET A /\ Before(A, R, a) # A
    BY DEF Before, Orders
  <2>2. IsFiniteSet(Before(A, R, a)) /\ N(a) <= c /\ N(a) # c
    BY <2>1, FS_Subset
  <2>3. N(a) \in Nat
    BY <2>2, FS_CardinalityType
  <2> QED BY <1>1, <2>2, <2>3
<1>3. ASSUME NEW a \in A, NEW b \in A, <<a, b>> \in R PROVE N(a) # N(b)
  <2>1. Before(A, R, a) \in SUBSET Before(A, R, b) /\ Before(A, R, a) # Before(A, R, b)
    BY <1>3 DEF Before, Orders
  <2>2. IsFiniteSet(Before(A, R, b))
    BY <1>2
  <2> QED BY <2>1, <2>2, FS_Subset
<1>4. \A a, b \in A : N(a) = N(b) => a = b
  BY <1>3 DEF Orders
<1>5. F \in [A -> 1..c] /\ \A a, b \in A : F[a] = F[b] => a = b
  <2>1. \A a \in A : F[a] = N(a) + 1 /\ N(a) \in Nat /\ F[a] \in 1..c
    <3> HIDE DEF N, c
    <3> QED BY <1>1, <1>2
  <2>2. F = [a \in A |-> F[a]]
    OBVIOUS
  <2> HIDE DEF F, N, c
  <2> QED BY <1>4, <2>1, <2>2
<1>6. F \in Injection(A, 1..c)
  <2> HIDE DEF F, c
  <2> QED BY <1>5 DEF Injection, IsInjective
<1>7. IsFiniteSet(1..c) /\ Cardinality(1..c) = c
  BY <1>1, FS_Interval
<1>8. F \in Surjection(A, 1..c)
  <2> HIDE DEF F
  <2> QED BY <1>6, <1>7, FS_Injection
<1>9. ASSUME NEW i \in 1..c PROVE \E a \in A : N(a) = i - 1
  <2>1. PICK a \in A : F[a] = i
    BY <1>8 DEF Surjection
  <2>2. N(a) + 1 = i /\ N(a) \in Nat
    BY <1>2, <2>1
  <2> QED BY <2>2
<1> QED BY <1>1, <1>4, <1>9

\* Recent has the windows that are mapped, and each once.
LEMMA RecentFacts ==
  ASSUME NEW s, s.mapped \subseteq Window, s.stamp \in [Window -> Nat]
  PROVE  /\ Recent(s) \in Seq(Window) /\ Len(Recent(s)) = Cardinality(s.mapped)
         /\ \A i \in 1..Len(Recent(s)) : Recent(s)[i] \in s.mapped
         /\ Distinct(Recent(s)) /\ (s.mapped # {} => Len(Recent(s)) # 0)
<1> DEFINE A == s.mapped
           c == Cardinality(A)
           R == {p \in A \X A : Newer(s, p[1], p[2])}
           N(a) == Cardinality(Before(A, R, a))
<1>1. IsFiniteSet(A)
  BY WindowsFinite, FS_Subset
<1>2. \A w \in Window : /\ IndexIn(WindowOrder, w) \in Nat
                        /\ WindowOrder[IndexIn(WindowOrder, w)] = w
  <2> SUFFICES ASSUME NEW w \in Window
               PROVE  IndexIn(WindowOrder, w) \in Nat /\ WindowOrder[IndexIn(WindowOrder, w)] = w
    OBVIOUS
  <2>1. \E i \in DOMAIN WindowOrder : WindowOrder[i] = w
    BY OrderAssumption DEF Range
  <2>2. IndexIn(WindowOrder, w) \in DOMAIN WindowOrder
    BY <2>1 DEF IndexIn
  <2>3. WindowOrder[IndexIn(WindowOrder, w)] = w
    BY <2>1 DEF IndexIn
  <2> QED BY <2>2, <2>3, OrderAssumption
<1>3. Orders(R, A)
  <2>1. \A v, w \in A : <<v, w>> \in R <=> Newer(s, v, w)
    OBVIOUS
  <2>2. \A v, w \in A : IndexIn(WindowOrder, v) = IndexIn(WindowOrder, w) => v = w
    BY <1>2
  <2>3. \A v \in A : s.stamp[v] \in Nat /\ IndexIn(WindowOrder, v) \in Nat
    BY <1>2
  <2>4. \A a \in A : ~Newer(s, a, a)
    BY <2>3 DEF Newer
  <2>5. \A a, b, d \in A : Newer(s, a, b) /\ Newer(s, b, d) => Newer(s, a, d)
    BY <2>3 DEF Newer
  <2>6. \A a, b \in A : a = b \/ Newer(s, a, b) \/ Newer(s, b, a)
    BY <2>2, <2>3 DEF Newer
  <2> HIDE DEF R
  <2> QED BY <2>1, <2>4, <2>5, <2>6 DEF Orders
<1>4. \A w \in A : {v \in A : Newer(s, v, w)} = Before(A, R, w)
  BY DEF Before
<1>5. /\ c \in Nat
      /\ \A i \in 1..c : \E a \in A : N(a) = i - 1
      /\ \A a, b \in A : N(a) = N(b) => a = b
  <2> HIDE DEF R, A
  <2> QED BY <1>1, <1>3, PlacesTaken
<1> DEFINE r == Recent(s)
<1>6. \A i \in 1..c : r[i] \in A /\ N(r[i]) = i - 1
  <2> SUFFICES ASSUME NEW i \in 1..c PROVE r[i] \in A /\ N(r[i]) = i - 1
    OBVIOUS
  <2>1. r[i] = CHOOSE w \in A : Cardinality({v \in A : Newer(s, v, w)}) = i - 1
    BY DEF Recent
  <2>2. \E w \in A : Cardinality({v \in A : Newer(s, v, w)}) = i - 1
    BY <1>4, <1>5
  <2>3. r[i] \in A /\ Cardinality({v \in A : Newer(s, v, r[i])}) = i - 1
    <3> HIDE DEF r
    <3> QED BY <2>1, <2>2
  <2> QED BY <1>4, <2>3
<1>7. r \in [1..c -> Window] /\ DOMAIN r = 1..c
  <2> DEFINE G(i) == CHOOSE w \in A : Cardinality({v \in A : Newer(s, v, w)}) = i - 1
  <2>1. r = [i \in 1..c |-> G(i)]
    BY Zenon DEF Recent
  <2> HIDE DEF r, c, G
  <2>2. r = [i \in 1..c |-> r[i]]
    BY <2>1
  <2> QED BY <1>6, <2>2
<1> HIDE DEF r, N
<1>8. r \in Seq(Window) /\ Len(r) = c
  <2> HIDE DEF c
  <2> QED BY <1>5, <1>7
<1>9. Distinct(r)
  <2> SUFFICES ASSUME NEW i \in 1..c, NEW j \in 1..c, r[i] = r[j] PROVE i = j
    BY <1>8 DEF Distinct
  <2>1. N(r[i]) = i - 1 /\ N(r[j]) = j - 1
    BY <1>6
  <2>2. i - 1 = j - 1
    BY <2>1
  <2> QED BY <1>5, <2>2
<1>10. A # {} => c # 0
  BY <1>1, FS_EmptySet
<1> QED BY <1>6, <1>8, <1>9, <1>10 DEF r

\* The list of all windows as of now.
LEMMA NewRecentFits ==
  ASSUME NEW s, s.mapped \subseteq Window, s.stamp \in [Window -> Nat]
  PROVE  /\ Fits(NewRecent(s), s.mapped) /\ NewRecent(s).open
         /\ s.mapped # {} => NewRecent(s).thumbnails # <<>>
<1> DEFINE r == Recent(s)
           th(w) == Thumbnail(w, OutputOf[s.place[w]] = OutputOf[s.active], s.place[w] = s.active)
           t == [i \in DOMAIN r |-> th(r[i])]
           m == NewRecent(s)
<1>1. /\ r \in Seq(Window) /\ Len(r) \in Nat /\ Len(r) = Cardinality(s.mapped)
      /\ \A i \in 1..Len(r) : r[i] \in s.mapped /\ r[i] \in Window
      /\ Distinct(r) /\ (s.mapped # {} => Len(r) # 0)
  BY RecentFacts
<1>2. \A w \in Window : th(w) \in Thumb /\ th(w).win = w
  BY DEF Thumbnail, Thumb
<1>3. /\ IsMru(m) /\ m.open /\ m.thumbnails = t /\ m.scope = "all" /\ m.app = NoApp
      /\ m.current = IF t = <<>> THEN NoWindow ELSE t[1].win
  <2>1. m = [open |-> TRUE, thumbnails |-> t, app |-> NoApp, scope |-> "all",
             current |-> IF t = <<>> THEN NoWindow ELSE t[1].win]
    BY Zenon DEF NewRecent, NewList
  <2> HIDE DEF m, t
  <2> QED BY <2>1 DEF IsMru, MruField
<1> HIDE DEF m, th, r
<1>4. t \in Seq(Thumb) /\ Len(t) = Len(r) /\ \A i \in 1..Len(r) : t[i].win = r[i]
  <2>1. DOMAIN r = 1..Len(r)
    BY <1>1
  <2>2. \A i \in 1..Len(r) : t[i] = th(r[i]) /\ t[i] \in Thumb /\ t[i].win = r[i]
    BY <1>1, <1>2, <2>1
  <2>3. t \in [1..Len(r) -> Thumb]
    BY <1>1, <1>2, <2>1
  <2> HIDE DEF t
  <2> QED BY <1>1, <2>2, <2>3
<1> HIDE DEF t
<1>5. Lists(m, s.mapped)
  BY <1>1, <1>3, <1>4 DEF Lists, Distinct
<1>6. VisibleAt(m) = 1..Len(t)
  BY <1>3, <1>4 DEF VisibleAt, Matches, InScope
<1>7. Picks(m)
  <2>1. CASE t = <<>>
    <3>1. Len(t) = 0
      BY <2>1
    <3>2. Shown(m) = {}
      BY <1>6, <3>1 DEF Shown
    <3> QED BY <1>3, <2>1, <3>2 DEF Picks
  <2>2. CASE t # <<>>
    <3>1. 1 \in 1..Len(t)
      BY <1>4, <2>2
    <3>2. t[1].win \in Shown(m)
      BY <1>3, <1>6, <3>1 DEF Shown
    <3> QED BY <1>3, <2>2, <3>2 DEF Picks
  <2> QED BY <2>1, <2>2
<1>8. s.mapped # {} => t # <<>>
  BY <1>1, <1>4
<1> QED BY <1>3, <1>5, <1>7, <1>8 DEF m, Fits

(***************************************************************************)
(* Timestamps                                                              *)
(***************************************************************************)
\* The timestamps of a seat are natural numbers, and so is that of the commit.
Stamped(s) == s.stamp \in [Window -> Nat] /\ s.pending.stamp \in Nat

\* They are finite in number.
LEMMA StampsFinite ==
  ASSUME NEW s, Stamped(s)
  PROVE  /\ Stamps(s) \in SUBSET Nat /\ IsFiniteSet(Stamps(s))
         /\ s.pending.stamp \in Stamps(s) /\ \A w \in Window : s.stamp[w] \in Stamps(s)
<1> DEFINE image == {s.stamp[w] : w \in Window}
<1>1. s.stamp \in Surjection(Window, image)
  BY DEF Stamped, Surjection
<1>2. IsFiniteSet(image)
  BY <1>1, WindowsFinite, FS_Surjection
<1>3. image \in SUBSET Nat /\ \A w \in Window : s.stamp[w] \in image
  BY DEF Stamped
<1>4. Stamps(s) = image \cup {s.pending.stamp}
  BY DEF Stamps
<1> HIDE DEF image
<1>5. IsFiniteSet(image \cup {s.pending.stamp})
  BY <1>2, FS_AddElement
<1> QED BY <1>3, <1>4, <1>5 DEF Stamped

\* A new timestamp is later than all others.
LEMMA NewStampLatest ==
  ASSUME NEW s, Stamped(s)
  PROVE  /\ NewStamp(s) \in Nat /\ 0 < NewStamp(s) /\ s.pending.stamp < NewStamp(s)
         /\ \A w \in Window : s.stamp[w] < NewStamp(s)
<1>1. /\ Stamps(s) \in SUBSET Nat /\ IsFiniteSet(Stamps(s)) /\ Stamps(s) # {}
      /\ s.pending.stamp \in Stamps(s) /\ \A w \in Window : s.stamp[w] \in Stamps(s)
  BY StampsFinite
<1>2. \E x : IsGreatest(x, Stamps(s))
  BY <1>1, GreatestNat
<1> DEFINE n == CHOOSE n \in Stamps(s) : \A m \in Stamps(s) : m <= n
<1>3. n \in Stamps(s) /\ \A m \in Stamps(s) : m <= n
  BY <1>2, Zenon DEF IsGreatest
<1>4. NewStamp(s) = 1 + n
  BY Zenon DEF NewStamp
<1> HIDE DEF n
<1>5. n \in Nat
  BY <1>1, <1>3
<1>6. \A m \in Stamps(s) : m \in Nat /\ m < 1 + n
  BY <1>1, <1>3, <1>5
<1> QED BY <1>1, <1>4, <1>5, <1>6

\* Closing the gaps between timestamps keeps their order, and none stays none.
LEMMA RankOrder ==
  ASSUME NEW s, Stamped(s), NEW a \in Stamps(s), NEW b \in Nat
  PROVE  /\ Rank(s, b) \in Nat /\ Rank(s, 0) = 0
         /\ b < a => Rank(s, b) < Rank(s, a)
<1> DEFINE Upto(n) == {m \in Stamps(s) : 0 < m /\ m <= n}
<1>1. /\ Stamps(s) \in SUBSET Nat /\ IsFiniteSet(Stamps(s))
  BY StampsFinite
<1>2. ASSUME NEW n PROVE IsFiniteSet(Upto(n)) /\ Cardinality(Upto(n)) \in Nat /\ Rank(s, n) = Cardinality(Upto(n))
  <2>1. Upto(n) \in SUBSET Stamps(s)
    OBVIOUS
  <2>2. Rank(s, n) = Cardinality(Upto(n))
    BY Zenon DEF Rank
  <2> HIDE DEF Upto
  <2> QED BY <1>1, <2>1, <2>2, FS_Subset, FS_CardinalityType
<1>3. Upto(0) = {}
  BY <1>1
<1>4. ASSUME b < a PROVE Upto(b) \in SUBSET Upto(a) /\ Upto(b) # Upto(a)
  <2>1. a \in Nat /\ a \in Upto(a) /\ a \notin Upto(b)
    BY <1>1, <1>4
  <2>2. Upto(b) \in SUBSET Upto(a)
    BY <1>1, <1>4
  <2> QED BY <2>1, <2>2
<1> HIDE DEF Upto
<1>5. Rank(s, 0) = 0
  BY <1>2, <1>3, FS_EmptySet
<1>6. ASSUME b < a PROVE Rank(s, b) < Rank(s, a)
  <2>1. Cardinality(Upto(b)) <= Cardinality(Upto(a)) /\ Cardinality(Upto(b)) # Cardinality(Upto(a))
    BY <1>2, <1>4, <1>6, FS_Subset
  <2> QED BY <1>2, <2>1
<1> QED BY <1>2, <1>5, <1>6


\* When the window v was used last, a commit that waits included.
UsedAt(stamp, pending, v) == IF v = pending.win THEN pending.stamp ELSE stamp[v]

\* Of the windows that are mapped, v was used last.
Leads(stamp, pending, mapped, v) ==
  /\ 0 < UsedAt(stamp, pending, v)
  /\ \A u \in mapped \ {v} : UsedAt(stamp, pending, u) < UsedAt(stamp, pending, v)

(***************************************************************************)
(* A window has a timestamp only while it is mapped; a commit waits for a  *)
(* mapped window that has one already, and only if there is a delay; and   *)
(* the window with the focus was used last.                                *)
(***************************************************************************)
StampsFit(stamp, pending, mapped, focus, debounce) ==
  /\ stamp \in [Window -> Nat] /\ mapped \subseteq Window
  /\ pending \in [win : mapped \cup {NoWindow}, stamp : Nat]
  /\ \A w \in Window \ mapped : stamp[w] = 0
  /\ pending.win \in mapped => 0 < stamp[pending.win] /\ debounce
  /\ focus.kind = "layout" /\ focus.surface \in mapped => Leads(stamp, pending, mapped, focus.surface)

\* This, of a seat whose focus were f.
FitsWith(s, f) == StampsFit(s.stamp, s.pending, s.mapped, f, s.config.debounce)

\* What it says.
LEMMA FitsFacts ==
  ASSUME NEW s, NEW f, FitsWith(s, f)
  PROVE  /\ Stamped(s) /\ s.mapped \subseteq Window /\ s.pending.win \in s.mapped \cup {NoWindow}
         /\ s.pending = [win |-> s.pending.win, stamp |-> s.pending.stamp]
         /\ s.pending.win # NoWindow => s.pending.win \in Window
         /\ \A v \in s.mapped : UsedAt(s.stamp, s.pending, v) \in Stamps(s)
<1>1. /\ Stamped(s) /\ s.mapped \subseteq Window /\ s.pending.win \in s.mapped \cup {NoWindow}
      /\ s.pending = [win |-> s.pending.win, stamp |-> s.pending.stamp]
      /\ s.pending.win # NoWindow => s.pending.win \in Window
  BY DEF FitsWith, StampsFit, Stamped
<1>2. /\ s.pending.stamp \in Stamps(s) /\ \A w \in Window : s.stamp[w] \in Stamps(s)
  BY <1>1, StampsFinite
<1> QED BY <1>1, <1>2 DEF UsedAt

\* Closing the gaps changes nothing of it.
LEMMA RankedFits ==
  ASSUME NEW s, NEW f, FitsWith(s, f), NEW t, t.mapped = s.mapped, t.config = s.config,
         t.stamp = [w \in Window |-> Rank(s, s.stamp[w])],
         t.pending = [win |-> s.pending.win, stamp |-> Rank(s, s.pending.stamp)]
  PROVE  FitsWith(t, f)
<1>1. /\ Stamped(s) /\ s.mapped \subseteq Window /\ s.pending.win \in s.mapped \cup {NoWindow}
      /\ \A v \in s.mapped : UsedAt(s.stamp, s.pending, v) \in Stamps(s)
  BY FitsFacts
<1>2. /\ Stamps(s) \in SUBSET Nat /\ s.pending.stamp \in Stamps(s)
      /\ \A w \in Window : s.stamp[w] \in Stamps(s)
  BY <1>1, StampsFinite
<1>3. /\ \A a \in Stamps(s) : Rank(s, a) \in Nat
      /\ Rank(s, 0) = 0
      /\ \A a, b \in Stamps(s) : b < a => Rank(s, b) < Rank(s, a)
      /\ \A a \in Stamps(s) : 0 < a => 0 < Rank(s, a)
  BY <1>1, <1>2, RankOrder
<1>4. \A v \in s.mapped : UsedAt(t.stamp, t.pending, v) = Rank(s, UsedAt(s.stamp, s.pending, v))
  BY <1>1 DEF UsedAt
<1>5. ASSUME NEW v \in s.mapped, Leads(s.stamp, s.pending, s.mapped, v)
      PROVE  Leads(t.stamp, t.pending, t.mapped, v)
  BY <1>1, <1>3, <1>4, <1>5 DEF Leads
<1>6. /\ t.stamp \in [Window -> Nat] /\ t.mapped \subseteq Window
      /\ t.pending \in [win : t.mapped \cup {NoWindow}, stamp : Nat]
  BY <1>1, <1>2, <1>3
<1>7. \A w \in Window \ t.mapped : t.stamp[w] = 0
  BY <1>3 DEF FitsWith, StampsFit
<1>8. t.pending.win \in t.mapped => 0 < t.stamp[t.pending.win] /\ t.config.debounce
  BY <1>1, <1>2, <1>3 DEF FitsWith, StampsFit
<1> QED BY <1>5, <1>6, <1>7, <1>8 DEF FitsWith, StampsFit

\* Neither does the commit when it is applied,
LEMMA AppliedFits ==
  ASSUME NEW s, NEW f, FitsWith(s, f), NEW t, t.mapped = s.mapped, t.config = s.config,
         t.stamp = IF s.pending.win \in s.mapped
                   THEN [s.stamp EXCEPT ![s.pending.win] = s.pending.stamp] ELSE s.stamp,
         t.pending = NoCommit
  PROVE  FitsWith(t, f) /\ \A v \in s.mapped : t.stamp[v] = UsedAt(s.stamp, s.pending, v)
<1>1. Stamped(s) /\ s.mapped \subseteq Window
  BY FitsFacts
<1>2. t.pending.win = NoWindow /\ t.pending.win \notin t.mapped
  BY <1>1, NoWindowAssumption DEF NoCommit
<1>3. \A v \in s.mapped : t.stamp[v] = UsedAt(s.stamp, s.pending, v)
  BY <1>1 DEF UsedAt, Stamped
<1>4. \A v \in s.mapped : UsedAt(t.stamp, t.pending, v) = UsedAt(s.stamp, s.pending, v)
  BY <1>2, <1>3 DEF UsedAt
<1>5. ASSUME NEW v \in s.mapped, Leads(s.stamp, s.pending, s.mapped, v)
      PROVE  Leads(t.stamp, t.pending, t.mapped, v)
  BY <1>4, <1>5 DEF Leads
<1>6. /\ t.stamp \in [Window -> Nat] /\ t.mapped \subseteq Window
      /\ t.pending \in [win : t.mapped \cup {NoWindow}, stamp : Nat]
  BY <1>1 DEF Stamped, NoCommit
<1>7. \A w \in Window \ t.mapped : t.stamp[w] = 0
  BY <1>1 DEF FitsWith, StampsFit, Stamped
<1> QED BY <1>2, <1>3, <1>5, <1>6, <1>7 DEF FitsWith, StampsFit

\* ... nor a window that is mapped,
LEMMA MappedFits ==
  ASSUME NEW s, NEW f, FitsWith(s, f), NEW w \in Window \ s.mapped, f.surface # w,
         NEW t, t.config = s.config, t.mapped = s.mapped \cup {w}, t.stamp = s.stamp, t.pending = s.pending
  PROVE  FitsWith(t, f)
<1>1. /\ Stamped(s) /\ s.mapped \subseteq Window /\ s.pending.win \in s.mapped \cup {NoWindow}
  BY FitsFacts
<1>2. w # s.pending.win /\ s.stamp[w] = 0
  BY <1>1, NoWindowAssumption DEF FitsWith, StampsFit
<1>3. UsedAt(s.stamp, s.pending, w) = 0
  BY <1>2 DEF UsedAt
<1>4. ASSUME NEW v \in s.mapped, Leads(s.stamp, s.pending, s.mapped, v)
      PROVE  Leads(t.stamp, t.pending, t.mapped, v)
  BY <1>3, <1>4 DEF Leads
<1> QED BY <1>1, <1>2, <1>4, NoWindowAssumption DEF FitsWith, StampsFit

\* ... nor one that goes.
LEMMA GoneFits ==
  ASSUME NEW s, NEW f, FitsWith(s, f), NEW w \in Window,
         NEW t, t.config = s.config, t.mapped = s.mapped \ {w}, t.stamp = [s.stamp EXCEPT ![w] = 0],
         t.pending = IF s.pending.win = w THEN NoCommit ELSE s.pending
  PROVE  FitsWith(t, f)
<1>1. Stamped(s) /\ s.mapped \subseteq Window /\ s.pending.win \in s.mapped \cup {NoWindow}
  BY FitsFacts
<1>2. \A v \in t.mapped : UsedAt(t.stamp, t.pending, v) = UsedAt(s.stamp, s.pending, v)
  BY <1>1, NoWindowAssumption DEF UsedAt, NoCommit, Stamped
<1>3. ASSUME NEW v \in t.mapped, Leads(s.stamp, s.pending, s.mapped, v)
      PROVE  Leads(t.stamp, t.pending, t.mapped, v)
  BY <1>2, <1>3 DEF Leads
<1>4. /\ t.stamp \in [Window -> Nat] /\ t.mapped \subseteq Window
      /\ t.pending \in [win : t.mapped \cup {NoWindow}, stamp : Nat]
  BY <1>1 DEF Stamped, NoCommit, FitsWith, StampsFit
<1>5. \A u \in Window \ t.mapped : t.stamp[u] = 0
  BY <1>1 DEF FitsWith, StampsFit, Stamped
<1>6. t.pending.win \in t.mapped => 0 < t.stamp[t.pending.win] /\ t.config.debounce
  BY <1>1, NoWindowAssumption DEF FitsWith, StampsFit, NoCommit, Stamped
<1> QED BY <1>3, <1>4, <1>5, <1>6 DEF FitsWith, StampsFit


\* What StampFocused does to the timestamps.
FocusStamped(s, f, t) ==
  \/ /\ f.kind # "layout" \/ f.surface \notin s.mapped
     /\ t.stamp = s.stamp /\ t.pending = s.pending
  \/ /\ f.surface \in s.mapped /\ (s.stamp[f.surface] = 0 \/ ~s.config.debounce)
     /\ t.stamp = [s.stamp EXCEPT ![f.surface] = NewStamp(s)] /\ t.pending = s.pending
  \/ /\ f.surface \in s.mapped /\ s.stamp[f.surface] # 0 /\ s.config.debounce
     /\ t.stamp = s.stamp /\ t.pending = [win |-> f.surface, stamp |-> NewStamp(s)]

\* The window that gets the focus was used last, from then on.
LEMMA FocusedFits ==
  ASSUME NEW s, NEW g, FitsWith(s, g), NEW f,
         NEW t, t.config = s.config, t.mapped = s.mapped, FocusStamped(s, f, t)
  PROVE  FitsWith(t, f)
<1>1. Stamped(s) /\ s.mapped \subseteq Window /\ s.pending.win \in s.mapped \cup {NoWindow}
  BY FitsFacts
<1>2. PICK n : n = NewStamp(s)
  OBVIOUS
<1>3. /\ n \in Nat /\ 0 < n /\ s.pending.stamp < n /\ \A w \in Window : s.stamp[w] < n
  BY <1>1, <1>2, NewStampLatest
<1>4. \A v \in s.mapped : UsedAt(s.stamp, s.pending, v) < n
  BY <1>1, <1>3 DEF UsedAt
<1>5. CASE t.stamp = s.stamp /\ t.pending = s.pending /\ (f.kind # "layout" \/ f.surface \notin s.mapped)
  BY <1>5 DEF FitsWith, StampsFit
<1>6. CASE /\ f.surface \in s.mapped /\ (s.stamp[f.surface] = 0 \/ ~s.config.debounce)
           /\ t.stamp = [s.stamp EXCEPT ![f.surface] = n] /\ t.pending = s.pending
  <2>1. s.pending.win # f.surface
    BY <1>1, <1>6 DEF FitsWith, StampsFit
  <2>2. UsedAt(t.stamp, t.pending, f.surface) = n
    BY <1>1, <1>6, <2>1 DEF UsedAt, Stamped
  <2>3. \A v \in s.mapped \ {f.surface} : UsedAt(t.stamp, t.pending, v) = UsedAt(s.stamp, s.pending, v)
    BY <1>1, <1>6 DEF UsedAt, Stamped
  <2>4. Leads(t.stamp, t.pending, t.mapped, f.surface)
    BY <1>3, <1>4, <2>2, <2>3 DEF Leads
  <2>5. /\ t.stamp \in [Window -> Nat] /\ t.mapped \subseteq Window
        /\ t.pending \in [win : t.mapped \cup {NoWindow}, stamp : Nat]
    BY <1>1, <1>3, <1>6 DEF Stamped, FitsWith, StampsFit
  <2>6. \A w \in Window \ t.mapped : t.stamp[w] = 0
    BY <1>1, <1>6 DEF FitsWith, StampsFit, Stamped
  <2>7. t.pending.win \in t.mapped => 0 < t.stamp[t.pending.win] /\ t.config.debounce
    BY <1>1, <1>6, <2>1 DEF FitsWith, StampsFit, Stamped
  <2> QED BY <2>4, <2>5, <2>6, <2>7 DEF FitsWith, StampsFit
<1>7. CASE /\ f.surface \in s.mapped /\ s.stamp[f.surface] # 0 /\ s.config.debounce
           /\ t.stamp = s.stamp /\ t.pending = [win |-> f.surface, stamp |-> n]
  <2>1. \A v \in s.mapped \ {f.surface} : UsedAt(t.stamp, t.pending, v) < n
    BY <1>1, <1>3, <1>7 DEF UsedAt
  <2>2. UsedAt(t.stamp, t.pending, f.surface) = n
    BY <1>7 DEF UsedAt
  <2>3. Leads(t.stamp, t.pending, t.mapped, f.surface)
    BY <1>3, <2>1, <2>2 DEF Leads
  <2>4. t.pending \in [win : t.mapped \cup {NoWindow}, stamp : Nat]
    BY <1>3, <1>7
  <2>5. 0 < t.stamp[t.pending.win] /\ t.config.debounce
    BY <1>1, <1>7 DEF Stamped
  <2> QED BY <1>1, <1>7, <2>3, <2>4, <2>5 DEF FitsWith, StampsFit, Stamped
<1> QED BY <1>2, <1>5, <1>6, <1>7, Zenon DEF FocusStamped

\* The window that leads, without a commit that waits, is the first of the list.
LEMMA LeaderFirst ==
  ASSUME NEW s, s.stamp \in [Window -> Nat], s.mapped \subseteq Window,
         NEW w \in s.mapped, \A u \in s.mapped \ {w} : s.stamp[u] < s.stamp[w]
  PROVE  Recent(s)[1] = w
<1> DEFINE Ahead(v) == {u \in s.mapped : Newer(s, u, v)}
<1>1. IsFiniteSet(s.mapped) /\ Cardinality(s.mapped) \in Nat
  BY WindowsFinite, FS_Subset, FS_CardinalityType
<1>2. 1 \in 1..Cardinality(s.mapped)
  <2>1. Cardinality(s.mapped) # 0
    BY <1>1, FS_EmptySet
  <2> QED BY <1>1, <2>1
<1>3. ASSUME NEW v \in s.mapped
      PROVE  Cardinality(Ahead(v)) = 0 <=> Ahead(v) = {}
  <2>1. Ahead(v) \in SUBSET s.mapped
    OBVIOUS
  <2> HIDE DEF Ahead
  <2> QED BY <1>1, <2>1, FS_Subset, FS_EmptySet
<1>4. Ahead(w) = {}
  <2>1. IndexIn(WindowOrder, w) \in Nat
    <3>1. \E i \in DOMAIN WindowOrder : WindowOrder[i] = w
      BY OrderAssumption DEF Range
    <3>2. IndexIn(WindowOrder, w) \in DOMAIN WindowOrder
      BY <3>1 DEF IndexIn
    <3> QED BY <3>2, OrderAssumption
  <2>2. ~Newer(s, w, w)
    BY <2>1 DEF Newer
  <2>3. ASSUME NEW u \in s.mapped \ {w} PROVE ~Newer(s, u, w)
    <3>1. s.stamp[u] < s.stamp[w] /\ s.stamp[u] \in Nat /\ s.stamp[w] \in Nat
      OBVIOUS
    <3> QED BY <3>1 DEF Newer
  <2> QED BY <2>2, <2>3
<1>5. ASSUME NEW v \in s.mapped \ {w} PROVE Ahead(v) # {}
  <2>1. Newer(s, w, v)
    BY DEF Newer
  <2> QED BY <2>1
<1> HIDE DEF Ahead
<1>6. \A v \in s.mapped : Cardinality(Ahead(v)) = 1 - 1 <=> v = w
  BY <1>3, <1>4, <1>5
<1>7. (CHOOSE v \in s.mapped : Cardinality(Ahead(v)) = 1 - 1) = w
  BY <1>6
<1> QED BY <1>2, <1>7, Zenon DEF Recent, Ahead

(***************************************************************************)
(* The shape of a seat                                                     *)
(***************************************************************************)
SeatField ==
  {"config", "held", "forwarded", "suppressed", "strays", "repeat", "cooling", "buttons",
   "swallowed", "dialog", "locked", "shot", "lockSurface", "mru", "scope", "overview",
   "cancellable", "stopped", "mapped", "place", "active", "top", "layer", "onDemand", "grab",
   "inhibit", "focus", "marked", "stamp", "pending"}
\* The fields of a popup grab.
GrabField == {"root", "keyboard", "ended", "focused"}

\* A record of these fields, whatever their values.
IsSeat(s) == /\ s = [f \in SeatField |-> s[f]]
             /\ IsMru(s.mru)
             /\ s.grab = [f \in GrabField |-> s.grab[f]]

\* Nothing is different between s and t in what concerns keys and buttons.
SameKeys(s, t) ==
  /\ t.config = s.config /\ t.held = s.held /\ t.repeat = s.repeat
  /\ t.forwarded = s.forwarded /\ t.suppressed = s.suppressed /\ t.strays = s.strays
  /\ t.buttons = s.buttons /\ t.swallowed = s.swallowed

(***************************************************************************)
(* No bind that works in a locked session opens the recent windows, or     *)
(* moves a focus that the recent windows would take for their own while    *)
(* they are open.  The parser accepts such binds (allow_when_locked).      *)
(***************************************************************************)
LockedBinds ==
  \A c \in Configs : \A b \in c.binds : b.allowLocked => b.action.op \notin {"mruAdvance", "focusOther"}

(***************************************************************************)
(* The recent windows are opened only by binds with a modifier, whose      *)
(* release closes them, and not over IPC.  The parser accepts others.      *)
(***************************************************************************)
SwitcherBinds ==
  /\ \A c \in Configs : \A b \in c.binds : b.action.op = "mruAdvance" => b.mods # {}
  /\ \A a \in IpcActions : a.op # "mruAdvance"
\* Both: the configurations under which the recent windows behave.
TameBinds == LockedBinds /\ SwitcherBinds

\* The list of the recent windows is open if there is something in it, and fits.
ListFits(m, ws) == Lists(m, ws) /\ Picks(m) /\ (m.open <=> m.thumbnails # <<>>)

\* A locked session has no other interface open, the window that has the focus takes
\* itself to be focused and was used last, a grab that has had the keyboard has it,
\* and the list has windows that are mapped.
InCharge(s) ==
  /\ LockedBinds /\ s.locked => ~s.shot /\ ~s.mru.open
  /\ s.marked = {s.focus.surface} \cap s.mapped
  /\ s.grab.keyboard /\ s.grab.focused => s.grab.root = s.focus.surface
  /\ StampsFit(s.stamp, s.pending, s.mapped, s.focus, s.config.debounce)
  /\ ListFits(s.mru, s.mapped)

\* The shape and the agreement that every operation keeps.
Good(s) == IsSeat(s) /\ InCharge(s)

\* The recent windows do not open without a modifier.
Stays(s, t) == TameBinds /\ s.held \cap Modifier = {} /\ t.mru.open => s.mru.open

\* The action a does not open them without one.
Backed(s, a) == TameBinds /\ a.op = "mruAdvance" => s.held \cap Modifier # {}

\* What an operation does that has to do with neither keys nor buttons.
Spares(s, t) == Good(t) /\ SameKeys(s, t) /\ t.locked = s.locked /\ Stays(s, t)

(***************************************************************************)
(* The operations on focus and recent windows                              *)
(***************************************************************************)
\* A list that is closed fits.
LEMMA ClosedFits ==
  ASSUME NEW ws PROVE IsMru(Closed) /\ ListFits(Closed, ws) /\ ~Closed.open
<1>1. /\ IsMru(Closed) /\ Closed.thumbnails = <<>> /\ Closed.current = NoWindow /\ ~Closed.open
  BY DEF Closed, IsMru, MruField
<1>2. VisibleAt(Closed) = {}
  BY <1>1 DEF VisibleAt
<1> HIDE DEF Closed
<1>3. Picks(Closed)
  BY <1>1, <1>2 DEF Picks, Shown
<1>4. Lists(Closed, ws)
  BY <1>1 DEF Lists
<1> QED BY <1>1, <1>3, <1>4 DEF ListFits

\* Ranks for timestamps.
LEMMA RankedSpares == ASSUME NEW s, Good(s) PROVE Spares(s, Ranked(s))
<1> DEFINE t == Ranked(s)
<1>1. /\ IsSeat(t) /\ SameKeys(s, t) /\ t.locked = s.locked /\ t.shot = s.shot /\ t.mru = s.mru
      /\ t.mapped = s.mapped /\ t.marked = s.marked /\ t.focus = s.focus /\ t.grab = s.grab
  BY DEF Good, IsSeat, SeatField, GrabField, SameKeys, Ranked
<1>2. FitsWith(s, s.focus)
  BY DEF Good, InCharge, FitsWith
<1>3. s.pending = [win |-> s.pending.win, stamp |-> s.pending.stamp]
  BY <1>2, FitsFacts
<1>4. /\ t.stamp = [w \in Window |-> Rank(s, s.stamp[w])]
      /\ t.pending = [win |-> s.pending.win, stamp |-> Rank(s, s.pending.stamp)]
  BY <1>3 DEF Good, IsSeat, SeatField, Ranked
<1> HIDE DEF t
<1>5. t.config = s.config
  BY <1>1 DEF SameKeys
<1>6. FitsWith(t, s.focus)
  BY <1>1, <1>2, <1>4, <1>5, RankedFits
<1>7. Spares(s, t)
  BY <1>1, <1>6 DEF Good, Spares, InCharge, FitsWith, Stays
<1> QED BY <1>7 DEF t

\* mru_apply_keyboard_commit changes only when a window was used last.
LEMMA ApplyCommitSpares == ASSUME NEW s, Good(s) PROVE Spares(s, ApplyCommit(s))
<1> DEFINE t == ApplyCommit(s)
<1>1. /\ IsSeat(t) /\ SameKeys(s, t) /\ t.locked = s.locked /\ t.shot = s.shot /\ t.mru = s.mru
      /\ t.mapped = s.mapped /\ t.marked = s.marked /\ t.focus = s.focus /\ t.grab = s.grab
  BY DEF Good, IsSeat, SeatField, GrabField, SameKeys, ApplyCommit
<1>2. FitsWith(s, s.focus)
  BY DEF Good, InCharge, FitsWith
<1>3. /\ t.stamp = IF s.pending.win \in s.mapped
                   THEN [s.stamp EXCEPT ![s.pending.win] = s.pending.stamp] ELSE s.stamp
      /\ t.pending = NoCommit
  BY DEF Good, IsSeat, SeatField, ApplyCommit
<1> HIDE DEF t
<1>4. t.config = s.config
  BY <1>1 DEF SameKeys
<1>5. FitsWith(t, s.focus)
  BY <1>1, <1>2, <1>3, <1>4, AppliedFits
<1>6. Spares(s, t)
  BY <1>1, <1>5 DEF Good, Spares, InCharge, FitsWith, Stays
<1> QED BY <1>6 DEF t

\* WindowMruUi::close closes the list and nothing else.
LEMMA CloseMruSpares == ASSUME NEW s, Good(s) PROVE Spares(s, CloseMru(s)) /\ ~CloseMru(s).mru.open
<1> DEFINE t == CloseMru(s)
<1>1. CASE s.mru.open
  <2>1. IsMru(Closed) /\ ListFits(Closed, s.mapped) /\ ~Closed.open
    BY ClosedFits
  <2>2. /\ t = [f \in SeatField |-> t[f]] /\ SameKeys(s, t) /\ t.mru = Closed /\ t.grab = s.grab
        /\ t.locked = s.locked /\ t.shot = s.shot /\ t.focus = s.focus /\ t.marked = s.marked
        /\ t.mapped = s.mapped /\ t.stamp = s.stamp /\ t.pending = s.pending /\ t.config = s.config
    BY <1>1 DEF Good, IsSeat, SeatField, SameKeys, CloseMru
  <2> HIDE DEF t
  <2>3. Spares(s, t) /\ ~t.mru.open
    BY <2>1, <2>2 DEF Good, IsSeat, Spares, InCharge, Stays
  <2> QED BY <2>3 DEF t
<1>2. CASE ~s.mru.open
  BY <1>2 DEF CloseMru, Spares, SameKeys, Stays
<1> QED BY <1>1, <1>2

\* focus_window changes the layout only.
LEMMA ActivateWindowSpares == ASSUME NEW s, NEW w, Good(s) PROVE Spares(s, ActivateWindow(s, w))
  BY DEF Good, Spares, IsSeat, SeatField, GrabField, InCharge, SameKeys, ActivateWindow, Stays

\* A layer surface that no longer asks for the focus loses it.
LEMMA CleanOnDemandSpares == ASSUME NEW s, Good(s) PROVE Spares(s, CleanOnDemand(s))
  BY DEF Good, Spares, IsSeat, SeatField, GrabField, InCharge, SameKeys, CleanOnDemand, Stays

\* What does not change when a window is stamped, or a grab ends.
SameRest(s, t) ==
  /\ SameKeys(s, t) /\ t.locked = s.locked /\ t.shot = s.shot /\ t.mru = s.mru
  /\ t.mapped = s.mapped /\ t.marked = s.marked

\* The window that gets the focus is stamped: its timestamp fits, once it has the focus.
LEMMA StampFocusedFacts ==
  ASSUME NEW s, NEW f, Good(s)
  PROVE  LET t == StampFocused(s, f) IN IsSeat(t) /\ SameRest(s, t) /\ FitsWith(t, f)
<1> DEFINE t == StampFocused(s, f)
<1>1. IsSeat(t) /\ SameRest(s, t)
  BY DEF Good, IsSeat, SeatField, GrabField, SameKeys, SameRest, StampFocused
<1>2. FocusStamped(s, f, t)
  <2>1. CASE f.kind # "layout" \/ f.surface \notin s.mapped
    BY <2>1 DEF FocusStamped, StampFocused
  <2>2. CASE f.kind = "layout" /\ f.surface \in s.mapped /\ (s.stamp[f.surface] = 0 \/ ~s.config.debounce)
    BY <2>2 DEF FocusStamped, StampFocused, Good, IsSeat, SeatField
  <2>3. CASE f.kind = "layout" /\ f.surface \in s.mapped /\ ~(s.stamp[f.surface] = 0 \/ ~s.config.debounce)
    BY <2>3 DEF FocusStamped, StampFocused, Good, IsSeat, SeatField
  <2> QED BY <2>1, <2>2, <2>3
<1>3. FitsWith(s, s.focus)
  BY DEF Good, InCharge, FitsWith
<1> HIDE DEF t
<1>4. t.config = s.config /\ t.mapped = s.mapped
  BY <1>1 DEF SameRest, SameKeys
<1>5. FitsWith(t, f)
  BY <1>2, <1>3, <1>4, FocusedFits
<1> QED BY <1>1, <1>5 DEF t

\* The focus moves, and with it the mark; a grab of another surface ends.
LEMMA FocusMoved ==
  ASSUME NEW s, NEW t, NEW f, NEW marked, Good(s), IsSeat(t), SameRest(s, t), FitsWith(t, f),
         marked = {f.surface} \cap t.mapped
  PROVE  Spares(s, [EndGrab(t, f) EXCEPT !.marked = marked, !.focus = f])
<1> DEFINE e == EndGrab(t, f)
           r == [e EXCEPT !.marked = marked, !.focus = f]
<1>1. /\ IsSeat(e) /\ SameRest(t, e) /\ e.stamp = t.stamp /\ e.pending = t.pending
      /\ e.grab.keyboard => e.grab.root = f.surface
  BY DEF IsSeat, SeatField, GrabField, SameKeys, SameRest, EndGrab, NoGrab
<1> HIDE DEF e
<1>2. /\ IsSeat(r) /\ SameKeys(e, r) /\ r.locked = e.locked /\ r.shot = e.shot /\ r.mru = e.mru
      /\ r.mapped = e.mapped /\ r.marked = marked /\ r.focus = f /\ r.grab = e.grab
      /\ r.stamp = e.stamp /\ r.pending = e.pending
  BY <1>1 DEF IsSeat, SeatField, SameKeys
<1> HIDE DEF r
<1>3. /\ SameKeys(s, r) /\ r.locked = s.locked /\ r.shot = s.shot /\ r.mru = s.mru
      /\ r.mapped = t.mapped /\ r.mapped = s.mapped /\ r.config = t.config
  BY <1>1, <1>2 DEF SameRest, SameKeys
<1>4. StampsFit(r.stamp, r.pending, r.mapped, r.focus, r.config.debounce)
  BY <1>1, <1>2, <1>3 DEF FitsWith
<1>5. Spares(s, r)
  BY <1>1, <1>2, <1>3, <1>4 DEF Good, Spares, InCharge, Stays
<1> QED BY <1>5 DEF r, e

\* update_keyboard_focus ends a popup grab that another surface takes the keyboard from.
LEMMA UpdateKeyboardFocusSpares ==
  ASSUME NEW s, Good(s) PROVE Spares(s, UpdateKeyboardFocus(s))
<1> DEFINE clean == CleanOnDemand(s)
           f == NewFocus(clean)
           stamped == StampFocused(clean, f)
<1>1. Spares(s, clean)
  BY CleanOnDemandSpares
<1>2. IsSeat(stamped) /\ SameRest(clean, stamped) /\ FitsWith(stamped, f)
  BY <1>1, StampFocusedFacts, Zenon DEF Spares, Stays
<1>3. CASE f = clean.focus
  BY <1>1, <1>3 DEF UpdateKeyboardFocus
<1>4. CASE f # clean.focus
  <2>1. Marked(clean, f) = {f.surface} \cap stamped.mapped
    <3> HIDE DEF stamped, f
    <3> QED BY <1>1, <1>2 DEF Marked, Spares, Good, InCharge, SameRest, Stays
  <2>2. Spares(clean, [EndGrab(stamped, f) EXCEPT !.marked = Marked(clean, f), !.focus = f])
    <3>1. Good(clean)
      BY <1>1 DEF Spares, Stays
    <3> HIDE DEF clean, stamped, f
    <3> QED BY <1>2, <2>1, <3>1, FocusMoved
  <2>3. UpdateKeyboardFocus(s) = [EndGrab(stamped, f) EXCEPT !.marked = Marked(clean, f), !.focus = f]
    BY <1>4, Zenon DEF UpdateKeyboardFocus
  <2> HIDE DEF clean, stamped, f
  <2> QED BY <1>1, <2>2, <2>3 DEF Spares, SameKeys, Stays
<1> QED BY <1>3, <1>4

\* The list of recent windows is that from before a focus that moves.
LEMMA FocusKeepsMru ==
  ASSUME NEW s, Good(s), NEW w
  PROVE  ActivateWindow(UpdateKeyboardFocus(s), w).mru = s.mru
<1> DEFINE clean == CleanOnDemand(s)
           f == NewFocus(clean)
           stamped == StampFocused(clean, f)
           moved == [EndGrab(stamped, f) EXCEPT !.marked = Marked(clean, f), !.focus = f]
           u == UpdateKeyboardFocus(s)
<1>1. Good(clean) /\ clean.mru = s.mru
  BY CleanOnDemandSpares DEF Spares, Good, IsSeat, SeatField, CleanOnDemand
<1>2. IsSeat(stamped) /\ SameRest(clean, stamped)
  BY <1>1, StampFocusedFacts, Zenon
<1> HIDE DEF clean, f, stamped
<1>3. moved.mru = s.mru
  BY <1>1, <1>2 DEF IsSeat, SeatField, SameRest, EndGrab
<1> HIDE DEF moved
<1>4. u = IF f = clean.focus THEN clean ELSE moved
  BY Zenon DEF UpdateKeyboardFocus, clean, f, stamped, moved
<1>5. Good(u)
  BY UpdateKeyboardFocusSpares DEF Spares
<1> HIDE DEF u
<1>6. ActivateWindow(u, w).mru = u.mru
  BY <1>5 DEF Good, IsSeat, SeatField, ActivateWindow
<1> QED BY <1>1, <1>3, <1>4, <1>6 DEF u

\* confirm_mru closes the list before it moves the focus.
LEMMA ConfirmMruSpares ==
  ASSUME NEW s, Good(s) PROVE Spares(s, ConfirmMru(s))
<1>1. Spares(s, CloseMru(s))
  BY CloseMruSpares
<1>2. Spares(CloseMru(s), UpdateKeyboardFocus(CloseMru(s)))
  BY <1>1, UpdateKeyboardFocusSpares DEF Spares, Stays
<1>3. \A w : Spares(UpdateKeyboardFocus(CloseMru(s)), ActivateWindow(UpdateKeyboardFocus(CloseMru(s)), w))
  BY <1>2, ActivateWindowSpares DEF Spares, Stays
<1> QED BY <1>1, <1>2, <1>3 DEF ConfirmMru, Spares, SameKeys, Stays

(***************************************************************************)
(* The list of recent windows                                              *)
(***************************************************************************)
\* A list with another selection in place of the one there is.
LEMMA RelistedSpares ==
  ASSUME NEW s, NEW m, Good(s), Fits(m, s.mapped), SameList(s.mru, m)
  PROVE  Spares(s, [s EXCEPT !.mru = m])
<1> DEFINE r == [s EXCEPT !.mru = m]
<1>1. ListFits(m, s.mapped) /\ IsMru(m) /\ (LockedBinds /\ s.locked => ~m.open) /\ m.open = s.mru.open
  BY DEF Good, InCharge, ListFits, Fits, SameList
<1>2. /\ r = [f \in SeatField |-> r[f]] /\ SameKeys(s, r) /\ r.mru = m /\ r.grab = s.grab
      /\ r.locked = s.locked /\ r.shot = s.shot /\ r.focus = s.focus /\ r.marked = s.marked
      /\ r.mapped = s.mapped /\ r.stamp = s.stamp /\ r.pending = s.pending /\ r.config = s.config
  BY DEF Good, IsSeat, SeatField, SameKeys
<1> HIDE DEF r
<1>3. Spares(s, r)
  BY <1>1, <1>2 DEF Good, IsSeat, Spares, InCharge, Stays
<1> QED BY <1>3 DEF r

\* What is listed is a window, and the list of a good seat fits.
LEMMA GoodList ==
  ASSUME NEW s, Good(s)
  PROVE  Fits(s.mru, s.mapped) /\ NoWindow \notin Shown(s.mru) /\ SameList(s.mru, s.mru)
<1>1. Fits(s.mru, s.mapped)
  BY DEF Good, IsSeat, InCharge, ListFits, Fits
<1>2. Shown(s.mru) \subseteq Window
  BY <1>1, VisibleFacts DEF Fits
<1> QED BY <1>1, <1>2, NoWindowAssumption DEF SameList

\* Changes of the filter that an action may ask for, and the advance after it.
LEMMA AdvancedFits ==
  ASSUME NEW m, NEW ws, Fits(m, ws), NEW filter \in Filter \cup {"same"}, NEW dir
  PROVE  LET n == IF filter = "same" THEN m ELSE SetFilter(m, filter)
         IN  /\ Fits(n, ws) /\ SameList(m, n)
             /\ Fits(Advance(n, dir), ws) /\ SameList(m, Advance(n, dir))
<1> DEFINE n == IF filter = "same" THEN m ELSE SetFilter(m, filter)
<1>1. Fits(n, ws) /\ SameList(m, n)
  BY SetFilterFits DEF SameList
<1> HIDE DEF n
<1>2. Shown(n) \subseteq Window
  BY <1>1, VisibleFacts DEF Fits
<1>3. IsMru(Advance(n, dir)) /\ Reselects(n, Advance(n, dir))
  BY <1>1, <1>2, NoWindowAssumption, MovesFit DEF Fits
<1>4. Fits(Advance(n, dir), ws) /\ SameList(n, Advance(n, dir))
  BY <1>1, <1>3, ReselectedFits DEF Fits
<1>5. SameList(m, Advance(n, dir))
  BY <1>1, <1>4 DEF SameList
<1> QED BY <1>1, <1>4, <1>5 DEF n

\* The recent windows open in a session that is not locked.
LEMMA OpenMruSpares ==
  ASSUME NEW s, NEW a, Good(s), a.filter \in Filter \cup {"same"}, LockedBinds => ~s.locked,
         TameBinds => s.held \cap Modifier # {}
  PROVE  Spares(s, OpenMru(s, a))
<1> DEFINE c == ApplyCommit(s)
           new == NewRecent(c)
           scope == IF a.scope = "same" THEN s.scope ELSE a.scope
           list == SetScope(new, scope)
           filtered == IF a.filter = "same" THEN list ELSE SetFilter(list, a.filter)
           keepFirst == a.dir = "forward" /\ LayoutFocus(s) = NoWindow
           m == IF keepFirst THEN filtered ELSE Advance(filtered, a.dir)
<1>1. Spares(s, c) /\ c.mapped = s.mapped
  BY ApplyCommitSpares DEF Good, IsSeat, SeatField, ApplyCommit
<1> HIDE DEF c
<1>2. Fits(new, s.mapped) /\ new.open /\ (s.mapped # {} => new.thumbnails # <<>>)
  <2>1. c.mapped \subseteq Window /\ c.stamp \in [Window -> Nat]
    BY <1>1 DEF Spares, Good, InCharge, StampsFit, Stays
  <2> QED BY <1>1, <2>1, NewRecentFits
<1> HIDE DEF new, scope
<1>3. Fits(list, s.mapped) /\ SameList(new, list)
  BY <1>2, SetScopeFits
<1> HIDE DEF list
<1>4. /\ Fits(filtered, s.mapped) /\ SameList(list, filtered)
      /\ Fits(Advance(filtered, a.dir), s.mapped) /\ SameList(list, Advance(filtered, a.dir))
  BY <1>3, AdvancedFits
<1> HIDE DEF filtered
<1>5. Fits(m, s.mapped) /\ SameList(list, m)
  BY <1>4
<1> HIDE DEF m
<1>6. s.mapped # {} => ListFits(m, s.mapped) /\ IsMru(m) /\ m.open
  BY <1>2, <1>3, <1>5 DEF ListFits, Fits, SameList
<1> DEFINE r == [c EXCEPT !.mru = m]
<1>7. /\ r = [f \in SeatField |-> r[f]] /\ SameKeys(c, r) /\ r.mru = m /\ r.grab = c.grab
      /\ r.locked = c.locked /\ r.shot = c.shot /\ r.focus = c.focus /\ r.marked = c.marked
      /\ r.mapped = c.mapped /\ r.stamp = c.stamp /\ r.pending = c.pending /\ r.config = c.config
  BY <1>1 DEF Spares, Good, IsSeat, SeatField, SameKeys, Stays
<1> HIDE DEF r
<1>8. s.mapped # {} => Good(r)
  BY <1>1, <1>6, <1>7 DEF Good, IsSeat, Spares, InCharge, Stays
<1>9. s.mapped # {} => Spares(s, r)
  BY <1>1, <1>7, <1>8 DEF Spares, SameKeys, Stays
<1>10. OpenMru(s, a) = IF s.mapped = {} THEN c ELSE r
  BY Zenon DEF OpenMru, c, new, scope, list, filtered, m, r
<1> QED BY <1>1, <1>9, <1>10

\* They advance if they are open, and open if they are not.
LEMMA AdvanceMruSpares ==
  ASSUME NEW s, NEW a, Good(s), a.filter \in Filter \cup {"same"}, LockedBinds => ~s.locked,
         TameBinds => s.held \cap Modifier # {}
  PROVE  Spares(s, AdvanceMru(s, a))
<1> DEFINE m == Advance(IF a.filter = "same" THEN s.mru ELSE SetFilter(s.mru, a.filter), a.dir)
<1>1. Fits(m, s.mapped) /\ SameList(s.mru, m)
  BY GoodList, AdvancedFits
<1> HIDE DEF m
<1>2. Spares(s, [s EXCEPT !.mru = m])
  BY <1>1, RelistedSpares
<1>3. AdvanceMru(s, a) = IF s.mru.open THEN [s EXCEPT !.mru = m] ELSE OpenMru(s, a)
  BY Zenon DEF AdvanceMru, m
<1> QED BY <1>2, <1>3, OpenMruSpares

\* Every action of the recent windows.
LEMMA MruActionSpares ==
  ASSUME NEW s, NEW a \in Action, Good(s), LockedBinds /\ a.op = "mruAdvance" => ~s.locked, Backed(s, a),
         a.op \in {"mruConfirm", "mruCancel", "mruFirst", "mruLast", "mruCycleScope", "mruClose",
                   "mruScope", "mruAdvance"}
  PROVE  Spares(s, MruAction(s, a))
<1>1. Fits(s.mru, s.mapped) /\ NoWindow \notin Shown(s.mru) /\ SameList(s.mru, s.mru) /\ Spares(s, s)
  BY GoodList DEF Spares, SameKeys, Stays
<1>2. \A m : Fits(m, s.mapped) /\ SameList(s.mru, m) => Spares(s, InMru(s, m))
  BY <1>1, RelistedSpares DEF InMru
<1>3. Spares(s, InMru(s, SelectFirst(s.mru))) /\ Spares(s, InMru(s, SelectLast(s.mru)))
  <2>1. /\ IsMru(SelectFirst(s.mru)) /\ Reselects(s.mru, SelectFirst(s.mru))
        /\ IsMru(SelectLast(s.mru)) /\ Reselects(s.mru, SelectLast(s.mru))
    BY <1>1, SelectionsFit DEF Fits
  <2> QED BY <1>1, <1>2, <2>1, ReselectedFits DEF Fits
<1>4. \A scope : Spares(s, InMru(s, SetScope(s.mru, scope)))
  BY <1>1, <1>2, SetScopeFits
<1>5. a.op = "mruAdvance" => a.filter \in Filter \cup {"same"}
  BY DEF Action
<1>6. a.op = "mruAdvance" => Spares(s, AdvanceMru(s, a))
  BY <1>5, AdvanceMruSpares DEF Backed
<1>7. Spares(s, ConfirmMru(s)) /\ Spares(s, CloseMru(s))
  BY ConfirmMruSpares, CloseMruSpares
<1> QED BY <1>1, <1>3, <1>4, <1>6, <1>7 DEF MruAction

(***************************************************************************)
(* Actions                                                                 *)
(***************************************************************************)
\* An action leaves the keys alone, or forgets which are suppressed.
Acts(s, t) ==
  /\ Good(t) /\ t.locked = s.locked /\ Stays(s, t)
  /\ SameKeys(s, t) \/ SameKeys(ForgetKeys(s), t)

\* The screenshot UI does not open over the lock, and closes the recent windows.
LEMMA ScreenshotSpares ==
  ASSUME NEW s, Good(s) PROVE Spares(s, CloseMru(OpenScreenshot(s)))
<1> DEFINE o == OpenScreenshot(s)
<1>1. Good(o) /\ SameKeys(s, o) /\ o.locked = s.locked /\ o.mru = s.mru
  BY DEF Good, IsSeat, SeatField, GrabField, InCharge, SameKeys, OpenScreenshot
<1> HIDE DEF o
<1>2. Spares(o, CloseMru(o))
  BY <1>1, CloseMruSpares
<1> QED BY <1>1, <1>2 DEF Spares, SameKeys, o, Stays

\* The window used last is activated.
LEMMA FocusPreviousSpares ==
  ASSUME NEW s, Good(s) PROVE Spares(s, FocusPrevious(s))
<1>1. Spares(s, ApplyCommit(s)) /\ Spares(s, s)
  BY ApplyCommitSpares DEF Spares, SameKeys, Stays
<1>2. \A w : Spares(ApplyCommit(s), ActivateWindow(ApplyCommit(s), w))
  BY <1>1, ActivateWindowSpares DEF Spares, Stays
<1>3. \A w : Spares(s, ActivateWindow(ApplyCommit(s), w))
  BY <1>1, <1>2 DEF Spares, SameKeys, Stays
<1> QED BY <1>1, <1>3, Zenon DEF FocusPrevious

\* Another window of the workspace is activated.
LEMMA FocusOtherSpares ==
  ASSUME NEW s, Good(s) PROVE Spares(s, FocusOther(s))
<1> DEFINE moved == [s EXCEPT !.onDemand = NoWindow]
<1>1. Spares(s, moved)
  BY DEF Good, Spares, IsSeat, SeatField, GrabField, InCharge, SameKeys, Stays
<1> HIDE DEF moved
<1>2. \A w : Spares(moved, ActivateWindow(moved, w))
  BY <1>1, ActivateWindowSpares DEF Spares, Stays
<1>3. \A w : Spares(s, ActivateWindow(moved, w))
  BY <1>1, <1>2 DEF Spares, SameKeys, Stays
<1> QED BY <1>1, <1>3, Zenon DEF FocusOther, moved

\* The actions that set a field.
LEMMA SimpleActions ==
  ASSUME NEW s, Good(s)
  PROVE  /\ Spares(s, [s EXCEPT !.dialog = TRUE]) /\ Spares(s, [s EXCEPT !.stopped = TRUE])
         /\ Spares(s, [s EXCEPT !.shot = FALSE]) /\ Spares(s, [s EXCEPT !.overview = ~@])
         /\ Spares(s, ToggleInhibit(s)) /\ Spares(s, s)
<1>1. Spares(s, [s EXCEPT !.dialog = TRUE]) /\ Spares(s, [s EXCEPT !.stopped = TRUE])
  BY DEF Good, Spares, IsSeat, SeatField, GrabField, InCharge, SameKeys, Stays
<1>2. Spares(s, [s EXCEPT !.shot = FALSE]) /\ Spares(s, [s EXCEPT !.overview = ~@])
  BY DEF Good, Spares, IsSeat, SeatField, GrabField, InCharge, SameKeys, Stays
<1>3. \A x : Spares(s, [s EXCEPT !.inhibit = x])
  BY DEF Good, Spares, IsSeat, SeatField, GrabField, InCharge, SameKeys, Stays
<1>4. Spares(s, s)
  BY DEF Spares, SameKeys, Stays
<1>5. Spares(s, ToggleInhibit(s))
  BY <1>3, <1>4, Zenon DEF ToggleInhibit
<1> QED BY <1>1, <1>2, <1>4, <1>5

\* A VT switch forgets the suppressed keys.
LEMMA ForgetKeysActs ==
  ASSUME NEW s, Good(s) PROVE Acts(s, ForgetKeys(s))
  BY DEF Good, Acts, IsSeat, SeatField, GrabField, InCharge, SameKeys, ForgetKeys, Stays

\* Every action, when it is carried out.
LEMMA SeatActionActs ==
  ASSUME NEW s, NEW a \in Action, Good(s), LockedBinds /\ a.op = "mruAdvance" => ~s.locked, Backed(s, a)
  PROVE  Acts(s, SeatAction(s, a))
<1>1. \A t : Spares(s, t) => Acts(s, t)
  BY DEF Spares, Acts, Stays
<1>2. CASE a.op \in {"mruConfirm", "mruCancel", "mruFirst", "mruLast", "mruCycleScope", "mruClose",
                    "mruScope", "mruAdvance"}
  <2>1. SeatAction(s, a) = MruAction(s, a)
    BY <1>2 DEF SeatAction
  <2> QED BY <1>1, <1>2, <2>1, MruActionSpares
<1>3. CASE a.op \in {"changeVt", "suspend"}
  BY <1>3, ForgetKeysActs DEF SeatAction
<1>4. CASE a.op = "quit"
  <2>1. a.skip \in BOOLEAN
    BY <1>4 DEF Action
  <2> QED BY <1>1, <1>4, <2>1, SimpleActions DEF SeatAction
<1>5. CASE a.op \in {"screenshot", "cancelShot", "confirmShot", "toggleInhibit", "overview",
                    "focusPrevious", "focusOther", "spawn"}
  BY <1>1, <1>5, SimpleActions, ScreenshotSpares, FocusPreviousSpares, FocusOtherSpares DEF SeatAction
<1>6. a.op \in {"changeVt", "suspend", "screenshot", "cancelShot", "confirmShot", "toggleInhibit",
                "overview", "focusPrevious", "focusOther", "spawn", "mruConfirm", "mruCancel",
                "mruFirst", "mruLast", "mruCycleScope", "mruClose", "quit", "mruScope", "mruAdvance"}
  BY DEF Action
<1> QED BY <1>2, <1>3, <1>4, <1>5, <1>6

\* A locked session allows an action of itself, or by a bind that is allowed then.
LEMMA DoActionActs ==
  ASSUME NEW s, NEW a \in Action, NEW allowed, Good(s), LockedBinds /\ a.op = "mruAdvance" => ~allowed,
         Backed(s, a)
  PROVE  Acts(s, DoAction(s, a, allowed))
<1>1. Acts(s, s)
  BY DEF Acts, SameKeys, Stays
<1>2. a.op = "mruAdvance" => a.op \notin AllowedWhenLocked
  BY DEF AllowedWhenLocked
<1> QED BY <1>1, <1>2, SeatActionActs DEF DoAction

\* A bind that does not open the recent windows in a locked session.
Harmless(b) == LockedBinds /\ b.action.op = "mruAdvance" => ~b.allowLocked

\* A bind with its cooldown.
LEMMA HandleBindActs ==
  ASSUME NEW s, NEW b \in Bind, Good(s), Harmless(b), Backed(s, b.action)
  PROVE  Acts(s, HandleBind(s, b))
<1> DEFINE c == [s EXCEPT !.cooling = @ \cup {b.key}]
<1>1. /\ Good(c) /\ SameKeys(s, c) /\ SameKeys(ForgetKeys(s), ForgetKeys(c))
      /\ c.locked = s.locked /\ c.mru = s.mru
  BY DEF Good, IsSeat, SeatField, GrabField, InCharge, SameKeys, ForgetKeys
<1> HIDE DEF c
<1>2. b.action \in Action
  BY DEF Bind
<1>3. Backed(c, b.action)
  BY <1>1 DEF Backed, SameKeys
<1>4. Acts(s, DoAction(s, b.action, b.allowLocked)) /\ Acts(c, DoAction(c, b.action, b.allowLocked))
  BY <1>1, <1>2, <1>3, DoActionActs DEF Harmless
<1>5. Acts(s, DoAction(c, b.action, b.allowLocked)) /\ Acts(s, s)
  BY <1>1, <1>4 DEF Acts, SameKeys, Stays
<1> QED BY <1>4, <1>5 DEF HandleBind, c
(***************************************************************************)
(* The invariant                                                           *)
(***************************************************************************)
\* KeysPaired, of s.
Paired(s) ==
  /\ s.forwarded \cup s.suppressed \cup s.strays = s.held
  /\ s.forwarded \cap s.suppressed = {}
  /\ s.strays \cap (s.forwarded \cup s.suppressed) = {}
  /\ s.swallowed \subseteq s.buttons
  /\ s.repeat # NoRepeat => s.repeat.key \in s.held

\* Its binds are those of a configuration, or made from them.
Bound(s) ==
  /\ s.config \in Configs
  /\ s.repeat # NoRepeat => s.repeat \in Bind /\ Harmless(s.repeat)

\* While the recent windows are open a modifier is held, and while a bind repeats
\* that opens them.
Held(s) ==
  /\ TameBinds /\ s.mru.open => s.held \cap Modifier # {}
  /\ s.repeat # NoRepeat => Backed(s, s.repeat.action)

\* The inductive invariant.
SeatInv(s) == Good(s) /\ Paired(s) /\ Bound(s) /\ Held(s)

\* What changes neither keys nor buttons, or forgets the keys, keeps the invariant.
LEMMA SparesInv == ASSUME NEW s, NEW t, SeatInv(s), Spares(s, t) PROVE SeatInv(t)
  BY DEF SeatInv, Spares, SameKeys, Paired, Bound, Held, Backed, Stays

\* So does an action, which may forget keys.
LEMMA ActsInv == ASSUME NEW s, NEW t, SeatInv(s), Acts(s, t) PROVE SeatInv(t)
<1>1. CASE SameKeys(s, t)
  BY <1>1 DEF SeatInv, Acts, SameKeys, Paired, Bound, Held, Backed, Stays
<1>2. CASE SameKeys(ForgetKeys(s), t)
  <2>1. /\ t.config = s.config /\ t.held = s.held /\ t.repeat = s.repeat
        /\ t.forwarded = s.forwarded /\ t.suppressed = {} /\ t.strays = s.strays \cup s.suppressed
        /\ t.buttons = s.buttons /\ t.swallowed = s.swallowed
    BY <1>2 DEF SeatInv, Good, IsSeat, SeatField, SameKeys, ForgetKeys
  <2> QED BY <2>1 DEF SeatInv, Acts, Paired, Bound, Held, Backed, Stays
<1> QED BY <1>1, <1>2 DEF Acts, Stays

\* The end of every event.
LEMMA RankedInv == ASSUME NEW s, SeatInv(s) PROVE SeatInv(Ranked(s))
  BY RankedSpares, SparesInv DEF SeatInv

(***************************************************************************)
(* Binds                                                                   *)
(***************************************************************************)
\* A bind that may be carried out, or none.
Usable(b) == b # NoBind => b \in Bind /\ Harmless(b)

\* A bind made by the code is never allowed in a locked session.
LEMMA MadeBindUsable ==
  ASSUME NEW key \in Key \cup Button, NEW a \in Action
  PROVE  Usable(MadeBind(key, a)) /\ Usable([MadeBind(key, a) EXCEPT !.repeat = FALSE])
<1>1. MadeBind(key, a) \in Bind /\ [MadeBind(key, a) EXCEPT !.repeat = FALSE] \in Bind
  BY DEF MadeBind, Bind
<1>2. ~MadeBind(key, a).allowLocked /\ ~[MadeBind(key, a) EXCEPT !.repeat = FALSE].allowLocked
  BY DEF MadeBind
<1> QED BY <1>1, <1>2 DEF Usable, Harmless

\* The actions that the code makes binds for.
LEMMA MadeActions ==
  /\ \A op \in {"changeVt", "suspend", "screenshot", "cancelShot", "confirmShot", "toggleInhibit",
                "overview", "focusPrevious", "focusOther", "spawn", "mruConfirm", "mruCancel",
                "mruFirst", "mruLast", "mruCycleScope", "mruClose"} : Act(op) \in Action
  /\ \A scope \in Scope : [op |-> "mruScope", scope |-> scope] \in Action
  /\ \A dir \in Direction : MruAdvance(dir, "same", "same") \in Action
  BY DEF Act, MruAdvance, Action

\* Binds of a configuration are harmless if LockedBinds holds.
LEMMA ConfiguredUsable ==
  ASSUME NEW c \in Configs, NEW b \in c.binds
  PROVE  b \in Bind /\ Harmless(b)
  BY BindsAssumption DEF Harmless, LockedBinds

\* The binds that the recent windows come with.
LEMMA PresetUsable ==
  ASSUME NEW b \in PresetBinds, b.key \in Key \cup Button PROVE Usable(b)
<1>1. PICK a \in Action : b = MadeBind(b.key, a)
  <2>1. \A key, a : MadeBind(key, a).key = key
    BY DEF MadeBind
  <2>2. \E key, a : a \in Action /\ b = MadeBind(key, a)
    BY MadeActions DEF PresetBinds, Scope, Direction
  <2> QED BY <2>1, <2>2
<1> QED BY <1>1, MadeBindUsable

\* Those made from configured binds, which keep allow_when_locked: this is why LockedBinds
\* excludes actions that move the focus.
LEMMA DynamicUsable ==
  ASSUME NEW s, s.config \in Configs, NEW b \in DynamicBinds(s) PROVE Usable(b)
<1>1. PICK d \in s.config.binds :
        b = [d EXCEPT !.action = IF @.op = "focusOther" THEN MruAdvance("forward", "same", "same") ELSE @]
  BY DEF DynamicBinds
<1>2. d \in Bind /\ Harmless(d)
  BY ConfiguredUsable
<1>3. MruAdvance("forward", "same", "same") \in Action
  BY MadeActions DEF Direction
<1>4. b \in Bind /\ b.allowLocked = d.allowLocked
  BY <1>1, <1>2, <1>3 DEF Bind
<1>5. b.action = IF d.action.op = "focusOther" THEN MruAdvance("forward", "same", "same") ELSE d.action
  BY <1>1, <1>2 DEF Bind
<1>6. LockedBinds /\ d.allowLocked => d.action.op \notin {"mruAdvance", "focusOther"}
  BY DEF LockedBinds
<1> QED BY <1>4, <1>5, <1>6 DEF Usable, Harmless

\* find_bind, from all of them.
LEMMA FindBindUsable ==
  ASSUME NEW s, s.config \in Configs, NEW key \in Key \cup Button PROVE Usable(FindBind(s, key))
<1>1. ASSUME NEW b \in Binds(s, key)
      PROVE  Usable(b)
  <2>1. b.key = key /\ (b \in s.config.binds \/ b \in PresetBinds \/ b \in DynamicBinds(s))
    BY DEF Binds
  <2> QED BY <2>1, ConfiguredUsable, PresetUsable, DynamicUsable DEF Usable
<1>2. Usable(NoBind)
  BY DEF Usable
<1>3. Usable(MadeBind(key, Act("changeVt"))) /\ Usable(MadeBind(key, Act("suspend")))
  BY MadeActions, MadeBindUsable
<1> QED BY <1>1, <1>2, <1>3 DEF FindBind

\* should_intercept_key, with the binds of the screenshot UI and of the overview.
LEMMA BoundToUsable ==
  ASSUME NEW s, s.config \in Configs, NEW key \in Key \cup Button
  PROVE  Usable(BoundTo(s, key)) /\ Usable(OverviewBind(s, key))
<1>1. /\ Usable(MadeBind(key, Act("cancelShot"))) /\ Usable(MadeBind(key, Act("confirmShot")))
      /\ Usable([MadeBind(key, Act("overview")) EXCEPT !.repeat = FALSE])
      /\ Usable(MadeBind(key, Act("focusOther"))) /\ Usable(NoBind)
  BY MadeActions, MadeBindUsable DEF Usable
<1>2. Usable(ScreenshotBind(s, key)) /\ Usable(OverviewBind(s, key))
  BY <1>1 DEF ScreenshotBind, OverviewBind
<1> QED BY <1>2, FindBindUsable DEF BoundTo

\* A bind that is found opens the recent windows only with a modifier: the configured
\* ones have that modifier, the others count while the list is open.
LEMMA FindBindBacked ==
  ASSUME NEW s, s.config \in Configs, Held(s), NEW key, NEW b, b = FindBind(s, key), b # NoBind
  PROVE  Backed(s, b.action)
<1>1. CASE b \in Binds(s, key)
  <2>1. s.mru.open \/ (b \in s.config.binds /\ b.mods = s.held \cap Modifier)
    BY <1>1 DEF Binds, Modifiers
  <2> QED BY <2>1 DEF Held, Backed, TameBinds, SwitcherBinds
<1>2. CASE b \in {MadeBind(key, Act("changeVt")), MadeBind(key, Act("suspend"))}
  BY <1>2 DEF MadeBind, Act, Backed
<1> QED BY <1>1, <1>2 DEF FindBind

\* So do those of the screenshot UI and of the overview, which do not open it.
LEMMA BoundToBacked ==
  ASSUME NEW s, s.config \in Configs, Held(s), NEW key
  PROVE  /\ BoundTo(s, key) # NoBind => Backed(s, BoundTo(s, key).action)
         /\ OverviewBind(s, key) # NoBind => Backed(s, OverviewBind(s, key).action)
<1>1. \A op : op # "mruAdvance" => Backed(s, MadeBind(key, Act(op)).action)
  BY DEF MadeBind, Act, Backed
<1>2. ScreenshotBind(s, key) # NoBind => Backed(s, ScreenshotBind(s, key).action)
  BY <1>1 DEF ScreenshotBind
<1>3. Backed(s, [MadeBind(key, Act("overview")) EXCEPT !.repeat = FALSE].action)
  BY DEF MadeBind, Act, Backed
<1>4. OverviewBind(s, key) # NoBind => Backed(s, OverviewBind(s, key).action)
  BY <1>1, <1>3 DEF OverviewBind
<1>5. FindBind(s, key) # NoBind => Backed(s, FindBind(s, key).action)
  BY FindBindBacked
<1> QED BY <1>2, <1>4, <1>5 DEF BoundTo

(***************************************************************************)
(* Keys                                                                    *)
(***************************************************************************)
\* Fields that nothing proved here depends on.
LEMMA PlainFields ==
  ASSUME NEW s, Good(s), NEW x
  PROVE  /\ Spares(s, [s EXCEPT !.dialog = x]) /\ Spares(s, [s EXCEPT !.stopped = x])
         /\ Spares(s, [s EXCEPT !.cancellable = x]) /\ Spares(s, [s EXCEPT !.overview = x])
         /\ Spares(s, [s EXCEPT !.cooling = x]) /\ Spares(s, [s EXCEPT !.active = x])
         /\ Spares(s, [s EXCEPT !.onDemand = x]) /\ Spares(s, [s EXCEPT !.layer = x])
         /\ Spares(s, [s EXCEPT !.lockSurface = x]) /\ Spares(s, [s EXCEPT !.inhibit = x])
<1>1. Spares(s, [s EXCEPT !.dialog = x]) /\ Spares(s, [s EXCEPT !.stopped = x])
  BY DEF Good, Spares, IsSeat, SeatField, GrabField, InCharge, SameKeys, Stays
<1>2. Spares(s, [s EXCEPT !.cancellable = x]) /\ Spares(s, [s EXCEPT !.overview = x])
  BY DEF Good, Spares, IsSeat, SeatField, GrabField, InCharge, SameKeys, Stays
<1>3. Spares(s, [s EXCEPT !.cooling = x]) /\ Spares(s, [s EXCEPT !.active = x])
  BY DEF Good, Spares, IsSeat, SeatField, GrabField, InCharge, SameKeys, Stays
<1>4. Spares(s, [s EXCEPT !.onDemand = x]) /\ Spares(s, [s EXCEPT !.layer = x])
  BY DEF Good, Spares, IsSeat, SeatField, GrabField, InCharge, SameKeys, Stays
<1>5. Spares(s, [s EXCEPT !.lockSurface = x]) /\ Spares(s, [s EXCEPT !.inhibit = x])
  BY DEF Good, Spares, IsSeat, SeatField, GrabField, InCharge, SameKeys, Stays
<1> QED BY <1>1, <1>2, <1>3, <1>4, <1>5

\* A key that is down and of which nothing has been made yet.
Down(s, key) ==
  /\ Good(s) /\ Bound(s) /\ Held(s)
  /\ key \in s.held
  /\ s.forwarded \cup s.suppressed \cup s.strays = s.held \ {key}
  /\ s.forwarded \cap s.suppressed = {}
  /\ s.strays \cap (s.forwarded \cup s.suppressed) = {}
  /\ s.swallowed \subseteq s.buttons
  /\ s.repeat # NoRepeat => s.repeat.key \in s.held

\* A key that is pressed is not accounted for yet.
LEMMA PressedDown ==
  ASSUME NEW s, SeatInv(s), NEW key, key \notin s.held
  PROVE  Down([s EXCEPT !.held = @ \cup {key}], key)
<1> DEFINE t == [s EXCEPT !.held = @ \cup {key}]
<1>1. Good(t)
  BY DEF SeatInv, Good, IsSeat, SeatField, InCharge
<1>2. /\ t.held = s.held \cup {key} /\ t.mru = s.mru
      /\ t.config = s.config /\ t.repeat = s.repeat
      /\ t.forwarded = s.forwarded /\ t.suppressed = s.suppressed /\ t.strays = s.strays
      /\ t.buttons = s.buttons /\ t.swallowed = s.swallowed
  BY DEF SeatInv, Good, IsSeat, SeatField
<1> HIDE DEF t
<1>3. Down(t, key)
  BY <1>1, <1>2 DEF SeatInv, Paired, Bound, Held, Backed, Down
<1> QED BY <1>3 DEF t

\* It is suppressed,
LEMMA SuppressInv ==
  ASSUME NEW s, NEW key, Down(s, key)
  PROVE  SeatInv(Suppress(s, key)) /\ Suppress(s, key).held = s.held
<1> DEFINE t == Suppress(s, key)
<1>1. Good(t)
  BY DEF Suppress, Down, Good, IsSeat, SeatField, InCharge
<1>2. /\ t.suppressed = s.suppressed \cup {key} /\ t.mru = s.mru
      /\ t.config = s.config /\ t.repeat = s.repeat
      /\ t.forwarded = s.forwarded /\ t.held = s.held /\ t.strays = s.strays
      /\ t.buttons = s.buttons /\ t.swallowed = s.swallowed
  BY DEF Suppress, Down, Good, IsSeat, SeatField
<1> HIDE DEF t
<1>3. SeatInv(t)
  BY <1>1, <1>2 DEF SeatInv, Paired, Bound, Held, Backed, Down
<1> QED BY <1>2, <1>3 DEF t

\* or forwarded;
LEMMA ForwardedInv ==
  ASSUME NEW s, NEW key, Down(s, key)
  PROVE  SeatInv(Forwarded(s, key))
<1> DEFINE t == [s EXCEPT !.forwarded = @ \cup {key}]
<1>1. Good(t)
  BY DEF Down, Good, IsSeat, SeatField, InCharge
<1>2. /\ t.forwarded = s.forwarded \cup {key} /\ t.mru = s.mru
      /\ t.config = s.config /\ t.repeat = s.repeat
      /\ t.suppressed = s.suppressed /\ t.held = s.held /\ t.strays = s.strays
      /\ t.buttons = s.buttons /\ t.swallowed = s.swallowed
  BY DEF Down, Good, IsSeat, SeatField
<1> HIDE DEF t
<1>3. SeatInv(t)
  BY <1>1, <1>2 DEF SeatInv, Paired, Bound, Held, Backed, Down
<1>4. SeatInv(ApplyCommit(t))
  BY <1>1, <1>3, ApplyCommitSpares, SparesInv
<1> QED BY <1>4 DEF Forwarded, t

\* and its bind may repeat from then on.
LEMMA RepeatInv ==
  ASSUME NEW s, SeatInv(s), NEW b \in Bind, Harmless(b), Backed(s, b.action), b.key \in s.held
  PROVE  SeatInv([s EXCEPT !.repeat = b])
<1> DEFINE t == [s EXCEPT !.repeat = b]
<1>1. Good(t)
  BY DEF SeatInv, Good, IsSeat, SeatField, InCharge
<1>2. /\ t.repeat = b /\ t.mru = s.mru
      /\ t.config = s.config /\ t.forwarded = s.forwarded
      /\ t.suppressed = s.suppressed /\ t.held = s.held /\ t.strays = s.strays
      /\ t.buttons = s.buttons /\ t.swallowed = s.swallowed
  BY DEF SeatInv, Good, IsSeat, SeatField
<1> HIDE DEF t
<1>3. SeatInv(t)
  BY <1>1, <1>2 DEF SeatInv, Paired, Bound, Held, Backed
<1> QED BY <1>3 DEF t

\* A bind leaves the keys that are down.
LEMMA HandleBindInv ==
  ASSUME NEW s, SeatInv(s), NEW b \in Bind, Harmless(b), Backed(s, b.action)
  PROVE  SeatInv(HandleBind(s, b)) /\ HandleBind(s, b).held = s.held
<1>1. Acts(s, HandleBind(s, b))
  BY HandleBindActs DEF SeatInv
<1>2. ForgetKeys(s).held = s.held
  BY DEF ForgetKeys, SeatInv, Good, IsSeat, SeatField
<1> QED BY <1>1, <1>2, ActsInv DEF Acts, SameKeys, Stays

\* A bind that a key triggers suppresses the key, before or without forgetting it.
LEMMA TriggerInv ==
  ASSUME NEW s, NEW b \in Bind, Harmless(b), Backed(s, b.action), Down(s, b.key)
  PROVE  SeatInv(Trigger(s, b))
<1> DEFINE done == HandleBind(Suppress(s, b.key), b)
<1>1. /\ SeatInv(Suppress(s, b.key)) /\ b.key \in Suppress(s, b.key).held
      /\ Backed(Suppress(s, b.key), b.action)
  BY SuppressInv DEF Down, Backed
<1>2. SeatInv(done) /\ b.key \in done.held /\ Backed(done, b.action)
  BY <1>1, HandleBindInv DEF Backed
<1>3. SeatInv([done EXCEPT !.repeat = b])
  BY <1>2, RepeatInv
<1> QED BY <1>2, <1>3, Zenon DEF Trigger

\* Whatever becomes of a press, the key is accounted for.
LEMMA PressedInv ==
  ASSUME NEW s, NEW key \in Key, Down(s, key)
  PROVE  SeatInv(Pressed(s, key))
<1> DEFINE bind == BoundTo(s, key)
           other == IF s.focus.kind = "overview" THEN OverviewBind(s, key) ELSE NoBind
           rekeyed == [bind EXCEPT !.key = key]
<1>1. Usable(bind) /\ Usable(other)
  BY BoundToUsable DEF Down, Bound, Usable
<1>2. (bind # NoBind => Backed(s, bind.action)) /\ (other # NoBind => Backed(s, other.action))
  BY BoundToBacked DEF Down, Bound
<1>3. bind # NoBind =>
        /\ rekeyed \in Bind /\ Harmless(rekeyed) /\ rekeyed.key = key /\ Backed(s, rekeyed.action)
  BY <1>1, <1>2 DEF Usable, Harmless, Bind
<1>4. other # NoBind => other.key = key
  BY DEF OverviewBind, MadeBind
<1>5. SeatInv(Suppress(s, key))
  BY SuppressInv
<1>6. \A x : /\ SeatInv([Suppress(s, key) EXCEPT !.stopped = x])
            /\ SeatInv([Suppress(s, key) EXCEPT !.cancellable = x])
  BY <1>5, PlainFields, SparesInv DEF SeatInv
<1>7. SeatInv(Forwarded(s, key))
  BY ForwardedInv
<1> HIDE DEF bind, other
<1>8. bind # NoBind => SeatInv(Trigger(s, rekeyed))
  BY <1>3, TriggerInv
<1>9. other # NoBind => SeatInv(Trigger(s, other))
  BY <1>1, <1>4, <1>2, TriggerInv DEF Usable
<1>10. Pressed(s, key) =
        CASE s.dialog -> [Suppress(s, key) EXCEPT !.stopped = (key = "return")]
          [] ~s.dialog /\ key = "escape" /\ s.cancellable ->
               [Suppress(s, key) EXCEPT !.cancellable = FALSE]
          [] OTHER ->
               IF bind # NoBind /\ ~(bind.inhibitable /\ IsInhibiting(s)) THEN Trigger(s, rekeyed)
               ELSE IF other # NoBind THEN Trigger(s, other)
               ELSE Forwarded(s, key)
  BY DEF Pressed, bind, other
<1> HIDE DEF rekeyed
<1> QED BY <1>6, <1>7, <1>8, <1>9, <1>10

\* A key that is up, and that is still among those that are known to be down.
Up(s, key) ==
  /\ Good(s) /\ Bound(s)
  /\ s.forwarded \cup s.suppressed \cup s.strays = s.held \cup {key}
  /\ key \notin s.held
  /\ s.forwarded \cap s.suppressed = {}
  /\ s.strays \cap (s.forwarded \cup s.suppressed) = {}
  /\ s.swallowed \subseteq s.buttons
  /\ s.repeat = NoRepeat

\* A key that is released is still accounted for.
LEMMA ReleasedUp ==
  ASSUME NEW s, SeatInv(s), NEW key, key \in s.held
  PROVE  Up([s EXCEPT !.held = @ \ {key}, !.repeat = NoRepeat], key)
<1> DEFINE t == [s EXCEPT !.held = @ \ {key}, !.repeat = NoRepeat]
<1>1. Good(t)
  BY DEF SeatInv, Good, IsSeat, SeatField, InCharge
<1>2. /\ t.held = s.held \ {key} /\ t.repeat = NoRepeat
      /\ t.config = s.config
      /\ t.forwarded = s.forwarded /\ t.suppressed = s.suppressed /\ t.strays = s.strays
      /\ t.buttons = s.buttons /\ t.swallowed = s.swallowed
  BY DEF SeatInv, Good, IsSeat, SeatField
<1> HIDE DEF t
<1>3. Up(t, key)
  BY <1>1, <1>2 DEF SeatInv, Paired, Bound, Up
<1> QED BY <1>3 DEF t

\* Once forgotten by all, and whatever the release did, the keys are paired again.
LEMMA UpActs ==
  ASSUME NEW s, NEW t, NEW key, Up(s, key), Acts(s, t),
         TameBinds /\ t.mru.open => s.held \cap Modifier # {}
  PROVE  SeatInv([t EXCEPT !.forwarded = @ \ {key}, !.suppressed = @ \ {key}, !.strays = @ \ {key}])
<1> DEFINE u == [t EXCEPT !.forwarded = @ \ {key}, !.suppressed = @ \ {key}, !.strays = @ \ {key}]
<1>1. Good(u)
  BY DEF Acts, Good, IsSeat, SeatField, InCharge, Stays
<1>2. /\ u.forwarded = t.forwarded \ {key} /\ u.suppressed = t.suppressed \ {key}
      /\ u.strays = t.strays \ {key}
      /\ u.config = t.config /\ u.held = t.held /\ u.repeat = t.repeat /\ u.mru = t.mru
      /\ u.buttons = t.buttons /\ u.swallowed = t.swallowed
  BY DEF Acts, Good, IsSeat, SeatField, Stays
<1>3. Up(t, key) /\ t.held = s.held
  <2>1. CASE SameKeys(s, t)
    BY <2>1 DEF Up, Acts, SameKeys, Bound, Stays
  <2>2. CASE SameKeys(ForgetKeys(s), t)
    <3>1. /\ t.config = s.config /\ t.held = s.held /\ t.repeat = s.repeat
          /\ t.forwarded = s.forwarded /\ t.suppressed = {} /\ t.strays = s.strays \cup s.suppressed
          /\ t.buttons = s.buttons /\ t.swallowed = s.swallowed
      BY <2>2 DEF Up, Good, IsSeat, SeatField, SameKeys, ForgetKeys
    <3> QED BY <3>1 DEF Up, Acts, Bound, Stays
  <2> QED BY <2>1, <2>2 DEF Acts, Stays
<1> HIDE DEF u
<1>4. SeatInv(u)
  BY <1>1, <1>2, <1>3 DEF Up, SeatInv, Paired, Bound, Held
<1> QED BY <1>4 DEF u

\* Whatever becomes of a release.
LEMMA ReleasedInv ==
  ASSUME NEW s, NEW key, Up(s, key)
  PROVE  SeatInv(Released(s, key))
<1>1. Good(s)
  BY DEF Up
<1>2. Acts(s, s) /\ Acts(s, ApplyCommit(s))
  BY <1>1, ApplyCommitSpares DEF Acts, Spares, SameKeys, Stays
<1>3. Act("mruConfirm") \in Action /\ Act("mruConfirm").op # "mruAdvance"
  BY MadeActions DEF Act
<1>4. Acts(s, DoAction(s, Act("mruConfirm"), FALSE))
  BY <1>1, <1>3, DoActionActs DEF Backed
<1>5. TameBinds /\ s.mru.open => ~DoAction(s, Act("mruConfirm"), FALSE).mru.open
  <2>1. SeatAction(s, Act("mruConfirm")) = ConfirmMru(s)
    BY DEF SeatAction, MruAction, Act
  <2>2. ~CloseMru(s).mru.open /\ Good(CloseMru(s))
    BY <1>1, CloseMruSpares DEF Spares
  <2>3. \A w : ActivateWindow(UpdateKeyboardFocus(CloseMru(s)), w).mru = CloseMru(s).mru
    BY <2>2, FocusKeepsMru
  <2>4. ~ConfirmMru(s).mru.open
    BY <2>2, <2>3, Zenon DEF ConfirmMru
  <2>5. TameBinds /\ s.mru.open => ~s.locked
    BY <1>1 DEF TameBinds, Good, InCharge
  <2> QED BY <2>1, <2>4, <2>5 DEF DoAction
<1> DEFINE done == CASE s.mru.open /\ Modifiers(s) = {} -> DoAction(s, Act("mruConfirm"), FALSE)
                     [] ~(s.mru.open /\ Modifiers(s) = {}) /\ key \notin s.suppressed -> ApplyCommit(s)
                     [] OTHER -> s
<1>6. Acts(s, done)
  BY <1>2, <1>4, Zenon
<1>7. TameBinds /\ done.mru.open => s.held \cap Modifier # {}
  <2>1. ApplyCommit(s).mru = s.mru
    BY <1>1 DEF Good, IsSeat, SeatField, ApplyCommit
  <2> QED BY <1>5, <2>1 DEF Modifiers
<1> HIDE DEF done
<1>8. SeatInv([done EXCEPT !.forwarded = @ \ {key}, !.suppressed = @ \ {key}, !.strays = @ \ {key}])
  BY <1>6, <1>7, UpActs
<1> QED BY <1>8 DEF Released, done

(***************************************************************************)
(* Buttons                                                                 *)
(***************************************************************************)
LEMMA ClickInv ==
  ASSUME NEW s, NEW under, SeatInv(s)
  PROVE  SeatInv(Click(s, under))
<1> DEFINE covered == s.dialog \/ s.locked \/ s.shot \/ s.mru.open
           w == IF covered \/ under \notin s.mapped THEN NoWindow ELSE under
           l == IF covered \/ under \notin Layer THEN NoWindow ELSE under
           clicked == IF w = NoWindow THEN s ELSE [ActivateWindow(s, w) EXCEPT !.overview = FALSE]
<1>1. \A v : SeatInv(ActivateWindow(s, v))
  BY ActivateWindowSpares, SparesInv DEF SeatInv
<1>2. ASSUME NEW v
      PROVE  SeatInv([ActivateWindow(s, v) EXCEPT !.overview = FALSE])
  <2> DEFINE a == ActivateWindow(s, v)
  <2>1. SeatInv(a)
    BY <1>1
  <2> HIDE DEF a
  <2>2. Spares(a, [a EXCEPT !.overview = FALSE])
    BY <2>1, PlainFields DEF SeatInv
  <2>3. SeatInv([a EXCEPT !.overview = FALSE])
    BY <2>1, <2>2, SparesInv
  <2> QED BY <2>3 DEF a
<1>3. SeatInv(clicked)
  BY <1>2
<1> HIDE DEF clicked
<1>4. \A x : SeatInv([clicked EXCEPT !.onDemand = x])
  BY <1>3, PlainFields, SparesInv DEF SeatInv
<1> HIDE DEF w, l
<1>5. Click(s, under) = [clicked EXCEPT !.onDemand =
        IF l # NoWindow /\ s.layer[l].mapped /\ s.layer[l].wish = "onDemand" THEN l ELSE NoWindow]
  BY Zenon DEF Click, clicked, w, l
<1> QED BY <1>4, <1>5

\* The pointer selects a window of the list.
LEMMA SetCurrentInv ==
  ASSUME NEW s, NEW w, SeatInv(s)
  PROVE  SeatInv([s EXCEPT !.mru = SetCurrent(@, w)])
<1>1. Fits(SetCurrent(s.mru, w), s.mapped) /\ SameList(s.mru, SetCurrent(s.mru, w))
  <2>1. Fits(s.mru, s.mapped) /\ NoWindow \notin Shown(s.mru)
    BY GoodList DEF SeatInv
  <2>2. IsMru(SetCurrent(s.mru, w)) /\ Reselects(s.mru, SetCurrent(s.mru, w))
    BY <2>1, MovesFit DEF Fits
  <2> QED BY <2>1, <2>2, ReselectedFits DEF Fits
<1>2. SeatInv([s EXCEPT !.mru = SetCurrent(s.mru, w)])
  BY <1>1, RelistedSpares, SparesInv DEF SeatInv
<1>3. [s EXCEPT !.mru = SetCurrent(@, w)] = [s EXCEPT !.mru = SetCurrent(s.mru, w)]
  BY DEF SeatInv, Good, IsSeat
<1> QED BY <1>2, <1>3

\* A click in the recent windows confirms or closes them.
LEMMA ClickMruInv ==
  ASSUME NEW s, NEW under, SeatInv(s)
  PROVE  SeatInv(ClickMru(s, under))
<1> DEFINE t == [s EXCEPT !.mru = SetCurrent(@, under)]
<1>1. SeatInv(t)
  BY SetCurrentInv
<1> HIDE DEF t
<1>2. SeatInv(ConfirmMru(t)) /\ SeatInv(CloseMru(s))
  BY <1>1, ConfirmMruSpares, CloseMruSpares, SparesInv DEF SeatInv
<1> QED BY <1>2, Zenon DEF ClickMru, t

\* A button that is down may be swallowed.
LEMMA SwallowedInv ==
  ASSUME NEW s, NEW button, SeatInv(s), button \in s.buttons
  PROVE  SeatInv([s EXCEPT !.swallowed = @ \cup {button}])
<1> DEFINE t == [s EXCEPT !.swallowed = @ \cup {button}]
<1>1. Good(t)
  BY DEF SeatInv, Good, IsSeat, SeatField, InCharge
<1>2. /\ t.swallowed = s.swallowed \cup {button} /\ t.buttons = s.buttons /\ t.mru = s.mru
      /\ t.config = s.config /\ t.forwarded = s.forwarded /\ t.repeat = s.repeat
      /\ t.suppressed = s.suppressed /\ t.held = s.held /\ t.strays = s.strays
  BY DEF SeatInv, Good, IsSeat, SeatField
<1> HIDE DEF t
<1>3. SeatInv(t)
  BY <1>1, <1>2 DEF SeatInv, Paired, Bound, Held, Backed
<1> QED BY <1>3 DEF t

\* That click leaves the buttons alone.
LEMMA ClickMruKeepsButtons ==
  ASSUME NEW s, NEW under, SeatInv(s)
  PROVE  ClickMru(s, under).buttons = s.buttons
<1> DEFINE t == [s EXCEPT !.mru = SetCurrent(@, under)]
<1>1. SeatInv(t)
  BY SetCurrentInv
<1>2. \A m : [s EXCEPT !.mru = m].buttons = s.buttons
  BY DEF SeatInv, Good, IsSeat, SeatField
<1>3. t.buttons = s.buttons
  BY <1>2
<1> HIDE DEF t
<1>4. ConfirmMru(t).buttons = t.buttons /\ CloseMru(s).buttons = s.buttons
  BY <1>1, ConfirmMruSpares, CloseMruSpares DEF SeatInv, Spares, SameKeys, Stays
<1> QED BY <1>3, <1>4, Zenon DEF ClickMru, t

\* Whatever becomes of the press of a button.
LEMMA ButtonPressedInv ==
  ASSUME NEW s, NEW button \in Button, NEW under, SeatInv(s), button \in s.buttons
  PROVE  SeatInv(ButtonPressed(s, button, under))
<1> DEFINE bind == BoundTo([s EXCEPT !.shot = FALSE], button)
           t == [s EXCEPT !.swallowed = @ \cup {button}]
<1>1. [s EXCEPT !.shot = FALSE].config \in Configs
  BY DEF SeatInv, Bound, Good, IsSeat, SeatField
<1>2. Usable(bind)
  BY <1>1, BoundToUsable
<1>3. bind # NoBind => Backed(t, bind.action)
  <2>1. /\ Held([s EXCEPT !.shot = FALSE]) /\ [s EXCEPT !.shot = FALSE].held = s.held
        /\ t.held = s.held
    BY DEF SeatInv, Held, Backed, Good, IsSeat, SeatField
  <2> QED BY <1>1, <2>1, BoundToBacked DEF Backed
<1>4. SeatInv(t)
  BY SwallowedInv
<1>5. SeatInv([ClickMru(s, under) EXCEPT !.swallowed = @ \cup {button}])
  BY ClickMruInv, ClickMruKeepsButtons, SwallowedInv
<1>6. SeatInv(Click(s, under))
  BY ClickInv
<1> HIDE DEF bind, t
<1>7. bind # NoBind => SeatInv(HandleBind(t, bind))
  BY <1>2, <1>4, <1>3, HandleBindInv DEF Usable
<1> QED BY <1>5, <1>6, <1>7, Zenon DEF ButtonPressed, bind, t

(***************************************************************************)
(* What happens to windows, layer surfaces, popups and the lock            *)
(***************************************************************************)
\* What the session does, once its windows are ranked, keeps the invariant.
LEMMA HappensInv ==
  ASSUME NEW t, SeatInv(t), Happens(t)
  PROVE  SeatInv(seat)'
<1>1. seat' = Ranked(t) /\ SeatInv(Ranked(t))
  BY RankedInv DEF Happens
<1> QED BY <1>1

\* The lock, and the interfaces it closes.
LEMMA LockInv ==
  ASSUME NEW s, SeatInv(s)
  PROVE  SeatInv(CloseMru([s EXCEPT !.locked = TRUE, !.shot = FALSE]))
<1> DEFINE u == [s EXCEPT !.locked = TRUE, !.shot = FALSE]
           t == CloseMru(u)
<1>1. /\ IsSeat(u) /\ SameKeys(s, u) /\ ~u.shot /\ u.marked = s.marked
      /\ u.focus = s.focus /\ u.mapped = s.mapped /\ u.grab = s.grab
      /\ u.stamp = s.stamp /\ u.pending = s.pending /\ u.mru = s.mru
  BY DEF SeatInv, Good, IsSeat, SeatField, SameKeys
<1> HIDE DEF u
<1>2. /\ IsSeat(t) /\ SameKeys(u, t) /\ ~t.shot /\ ~t.mru.open /\ t.marked = u.marked
      /\ t.focus = u.focus /\ t.mapped = u.mapped /\ t.grab = u.grab
      /\ t.stamp = u.stamp /\ t.pending = u.pending /\ ListFits(t.mru, t.mapped)
  <2>1. CASE u.mru.open
    <3>1. IsMru(Closed) /\ ListFits(Closed, u.mapped) /\ ~Closed.open
      BY ClosedFits
    <3> QED BY <1>1, <2>1, <3>1 DEF CloseMru, IsSeat, SeatField, SameKeys
  <2>2. CASE ~u.mru.open
    BY <1>1, <2>2 DEF CloseMru, SeatInv, Good, InCharge, SameKeys
  <2> QED BY <2>1, <2>2
<1> HIDE DEF t
<1>3. Good(t) /\ SameKeys(s, t)
  BY <1>1, <1>2 DEF SeatInv, Good, InCharge, SameKeys
<1>4. SeatInv(t)
  BY <1>2, <1>3 DEF SameKeys, SeatInv, Paired, Bound, Held, Backed
<1> QED BY <1>4 DEF t, u

\* The end of the lock, which ends a popup grab of its surface.
LEMMA UnlockInv ==
  ASSUME NEW s, SeatInv(s), NEW ended
  PROVE  SeatInv([s EXCEPT !.locked = FALSE, !.lockSurface = FALSE, !.grab.ended = ended])
<1> DEFINE t == [s EXCEPT !.locked = FALSE, !.lockSurface = FALSE, !.grab.ended = ended]
<1>1. Good(t)
  BY DEF SeatInv, Good, IsSeat, SeatField, GrabField, InCharge
<1>2. SameKeys(s, t) /\ t.mru = s.mru
  BY DEF SeatInv, Good, IsSeat, SeatField, SameKeys
<1> HIDE DEF t
<1>3. SeatInv(t)
  BY <1>1, <1>2 DEF SameKeys, SeatInv, Paired, Bound, Held, Backed
<1> QED BY <1>3 DEF t

\* A grab ends, or begins and has not had the focus yet.
LEMMA GrabSpares ==
  ASSUME NEW s, Good(s)
  PROVE  /\ \A ended : Spares(s, [s EXCEPT !.grab.ended = ended])
         /\ \A root, keyboard, ended :
              Spares(s, [s EXCEPT !.grab = [root |-> root, keyboard |-> keyboard,
                                             ended |-> ended, focused |-> FALSE]])
         /\ Spares(s, [s EXCEPT !.grab = NoGrab])
<1>1. \A ended : Spares(s, [s EXCEPT !.grab.ended = ended])
  BY DEF Good, Spares, IsSeat, SeatField, GrabField, InCharge, SameKeys, Stays
<1>2. ASSUME NEW root, NEW keyboard, NEW ended
      PROVE  Spares(s, [s EXCEPT !.grab = [root |-> root, keyboard |-> keyboard,
                                           ended |-> ended, focused |-> FALSE]])
  <2> DEFINE g == [root |-> root, keyboard |-> keyboard, ended |-> ended, focused |-> FALSE]
             r == [s EXCEPT !.grab = g]
  <2>1. g = [f \in GrabField |-> g[f]] /\ ~g.focused
    BY DEF GrabField
  <2> HIDE DEF g
  <2>2. /\ r = [f \in SeatField |-> r[f]] /\ r.mru = s.mru /\ SameKeys(s, r)
        /\ r.locked = s.locked /\ r.shot = s.shot /\ r.focus = s.focus /\ r.marked = s.marked
        /\ r.mapped = s.mapped /\ r.grab = g /\ r.stamp = s.stamp /\ r.pending = s.pending
        /\ r.config = s.config
    BY DEF Good, IsSeat, SeatField, SameKeys
  <2> HIDE DEF r
  <2>3. Spares(s, r)
    BY <2>1, <2>2 DEF Good, IsSeat, Spares, InCharge, Stays
  <2> QED BY <2>3 DEF r, g
<1>3. Spares(s, [s EXCEPT !.grab = NoGrab])
  BY <1>2 DEF NoGrab
<1> QED BY <1>1, <1>2, <1>3

\* A layer surface changes, or is gone with the grab of its popup,
LEMMA LayerGone ==
  ASSUME NEW s, Good(s), NEW layer, NEW ended
  PROVE  Spares(s, [s EXCEPT !.layer = layer, !.grab.ended = ended])
  BY DEF Good, Spares, IsSeat, SeatField, GrabField, InCharge, SameKeys, Stays

\* or comes and asks for the focus.
LEMMA LayerAdded ==
  ASSUME NEW s, Good(s), NEW layer, NEW onDemand
  PROVE  Spares(s, [s EXCEPT !.layer = layer, !.onDemand = onDemand])
  BY DEF Good, Spares, IsSeat, SeatField, GrabField, InCharge, SameKeys, Stays

\* A window is mapped that does not have the focus.
LEMMA MapSpares ==
  ASSUME NEW s, Good(s), NEW w \in Window \ s.mapped, s.focus.surface # w, NEW place, NEW top
  PROVE  Spares(s, [s EXCEPT !.mapped = @ \cup {w}, !.place = place, !.top = top])
<1> DEFINE r == [s EXCEPT !.mapped = @ \cup {w}, !.place = place, !.top = top]
<1>1. /\ IsSeat(r) /\ SameKeys(s, r) /\ r.locked = s.locked /\ r.shot = s.shot /\ r.mru = s.mru
      /\ r.focus = s.focus /\ r.marked = s.marked /\ r.mapped = s.mapped \cup {w} /\ r.grab = s.grab
      /\ r.stamp = s.stamp /\ r.pending = s.pending /\ r.config = s.config
  BY DEF Good, IsSeat, SeatField, SameKeys
<1> HIDE DEF r
<1>2. {s.focus.surface} \cap s.mapped = {s.focus.surface} \cap (s.mapped \cup {w})
  OBVIOUS
<1>3. r.marked = {r.focus.surface} \cap r.mapped
  BY <1>1, <1>2 DEF Good, InCharge
<1>4. FitsWith(s, s.focus)
  BY DEF Good, InCharge, FitsWith
<1>5. FitsWith(r, s.focus)
  BY <1>1, <1>4, MappedFits
<1>6. ListFits(r.mru, r.mapped)
  BY <1>1 DEF Good, InCharge, ListFits, Lists
<1>7. Spares(s, r)
  BY <1>1, <1>3, <1>5, <1>6 DEF Good, Spares, InCharge, FitsWith, Stays
<1> QED BY <1>7 DEF r

\* A window goes: it loses its mark, and ends the grab of its popup.  The list goes on
\* as m, without it.
LEMMA RemovedSpares ==
  ASSUME NEW s, Good(s), NEW w \in Window, NEW next, NEW m, IsMru(m), ListFits(m, s.mapped \ {w}),
         m.open => s.mru.open, NEW scope
  PROVE  /\ Spares(s, [Removed(s, w, next) EXCEPT !.mru = m])
         /\ Spares(s, [Removed(s, w, next) EXCEPT !.mru = m, !.scope = scope])
         /\ Removed(s, w, next) = [f \in SeatField |-> Removed(s, w, next)[f]]
         /\ Removed(s, w, next).mru = s.mru
<1> DEFINE r == Removed(s, w, next)
           ended == s.grab.ended \/ s.grab.root = w
<1>1. s.grab = [f \in GrabField |-> s.grab[f]]
  BY DEF Good, IsSeat
<1> DEFINE stamp == [s.stamp EXCEPT ![w] = 0]
           pending == IF s.pending.win = w THEN NoCommit ELSE s.pending
           top == [ws \in Workspace |-> IF s.top[ws] = w THEN next ELSE s.top[ws]]
           grab == [s.grab EXCEPT !.ended = ended]
<1>2. s = [f \in SeatField |-> s[f]]
  BY DEF Good, IsSeat
<1>3. r = [s EXCEPT !.mapped = s.mapped \ {w}, !.marked = s.marked \ {w}, !.stamp = stamp,
                    !.pending = pending, !.top = top, !.grab = grab]
  BY <1>2 DEF SeatField, Removed
<1> HIDE DEF r, stamp, pending, top, grab
<1>4. r = [f \in SeatField |-> r[f]] /\ r.mru = s.mru
  BY <1>2, <1>3 DEF SeatField
<1>5. ASSUME NEW u, u = [r EXCEPT !.mru = m] \/ u = [r EXCEPT !.mru = m, !.scope = scope]
      PROVE  Spares(s, u)
  <2>1. /\ u = [f \in SeatField |-> u[f]] /\ u.mru = m
        /\ SameKeys(s, u) /\ u.locked = s.locked /\ u.shot = s.shot
        /\ u.focus = s.focus /\ u.marked = s.marked \ {w} /\ u.mapped = s.mapped \ {w}
        /\ u.grab = grab /\ u.stamp = stamp /\ u.pending = pending /\ u.config = s.config
    <3> DEFINE v(e) == /\ e = [f \in SeatField |-> e[f]] /\ e.mru = m
                       /\ SameKeys(s, e) /\ e.locked = s.locked /\ e.shot = s.shot
                       /\ e.focus = s.focus /\ e.marked = s.marked \ {w} /\ e.mapped = s.mapped \ {w}
                       /\ e.grab = grab /\ e.stamp = stamp /\ e.pending = pending /\ e.config = s.config
    <3>1. v([r EXCEPT !.mru = m])
      BY <1>2, <1>3 DEF SeatField, SameKeys
    <3>2. ASSUME NEW e, v(e) PROVE v([e EXCEPT !.scope = scope])
      BY <3>2 DEF SeatField, SameKeys
    <3>3. u = [r EXCEPT !.mru = m] \/ u = [[r EXCEPT !.mru = m] EXCEPT !.scope = scope]
      BY <1>5
    <3> HIDE DEF v
    <3>4. v(u)
      BY <3>1, <3>2, <3>3
    <3> QED BY <3>4 DEF v
  <2>2. /\ u.grab = [f \in GrabField |-> u.grab[f]] /\ u.grab.keyboard = s.grab.keyboard
        /\ u.grab.focused = s.grab.focused /\ u.grab.root = s.grab.root
    BY <1>1, <2>1 DEF GrabField, grab
  <2>3. IsSeat(u)
    BY <2>1, <2>2 DEF IsSeat
  <2>4. \A sur : ({sur} \cap s.mapped) \ {w} = {sur} \cap (s.mapped \ {w})
    OBVIOUS
  <2>5. u.marked = {u.focus.surface} \cap u.mapped
    BY <2>1, <2>4 DEF Good, InCharge
  <2>6. FitsWith(s, s.focus)
    BY DEF Good, InCharge, FitsWith
  <2>7. u.stamp = [s.stamp EXCEPT ![w] = 0] /\ u.pending = IF s.pending.win = w THEN NoCommit ELSE s.pending
    BY <2>1 DEF stamp, pending
  <2>8. FitsWith(u, s.focus)
    BY <2>1, <2>6, <2>7, GoneFits
  <2> QED BY <2>1, <2>2, <2>3, <2>5, <2>8 DEF Good, Spares, InCharge, FitsWith, Stays
<1>6. Spares(s, [r EXCEPT !.mru = m]) /\ Spares(s, [r EXCEPT !.mru = m, !.scope = scope])
  BY <1>5
<1> QED BY <1>4, <1>6 DEF r

\* With it goes its thumbnail, and the list with the last of them.
LEMMA UnmappedSpares ==
  ASSUME NEW s, Good(s), NEW w \in Window, NEW next
  PROVE  Spares(s, Unmapped(s, w, next))
<1> DEFINE r == Removed(s, w, next)
           list == Drop(s.mru, w)
           ws == s.mapped \ {w}
<1>1. Fits(s.mru, s.mapped) /\ NoWindow \notin Shown(s.mru)
  BY GoodList
<1>2. Fits(list, ws) /\ list.open = s.mru.open
  BY <1>1, DropFits
<1> HIDE DEF list, r
<1>3. r = [f \in SeatField |-> r[f]] /\ r.mru = s.mru
  <2>1. IsMru(Closed) /\ ListFits(Closed, ws) /\ ~Closed.open
    BY ClosedFits
  <2> QED BY <2>1, RemovedSpares DEF r
<1>4. CASE ~s.mru.open
  <2>1. IsMru(s.mru) /\ ListFits(s.mru, ws)
    <3>1. s.mru.thumbnails = <<>>
      BY <1>4 DEF Good, InCharge, ListFits
    <3> QED BY <1>1, <1>4, <3>1 DEF Fits, Lists, ListFits
  <2>2. Spares(s, [r EXCEPT !.mru = s.mru])
    BY <2>1, RemovedSpares DEF r
  <2>3. Unmapped(s, w, next) = [r EXCEPT !.mru = s.mru]
    BY <1>3, <1>4, Zenon DEF Unmapped, r
  <2> QED BY <2>2, <2>3
<1>5. CASE s.mru.open /\ list.thumbnails # <<>>
  <2>1. IsMru(list) /\ ListFits(list, ws) /\ (list.open => s.mru.open)
    BY <1>2, <1>5 DEF Fits, ListFits
  <2>2. Spares(s, [r EXCEPT !.mru = list])
    BY <2>1, RemovedSpares DEF r
  <2>3. Unmapped(s, w, next) = [r EXCEPT !.mru = list]
    BY <1>5, Zenon DEF Unmapped, r, list
  <2> QED BY <2>2, <2>3
<1>6. CASE s.mru.open /\ list.thumbnails = <<>>
  <2> DEFINE gone == [r EXCEPT !.mru = list]
  <2>1. IsMru(Closed) /\ ListFits(Closed, ws) /\ ~Closed.open
    BY ClosedFits
  <2>2. Spares(s, [r EXCEPT !.mru = Closed, !.scope = list.scope])
    BY <2>1, RemovedSpares DEF r
  <2>3. gone.mru = list /\ [gone EXCEPT !.mru = Closed, !.scope = list.scope]
                           = [r EXCEPT !.mru = Closed, !.scope = list.scope]
    BY <1>3 DEF SeatField
  <2>4. Unmapped(s, w, next) = CloseMru(gone)
    BY <1>6, Zenon DEF Unmapped, r, list
  <2> HIDE DEF gone
  <2>5. CloseMru(gone) = [gone EXCEPT !.mru = Closed, !.scope = list.scope]
    BY <1>2, <1>6, <2>3 DEF CloseMru
  <2> QED BY <2>2, <2>3, <2>4, <2>5
<1> QED BY <1>4, <1>5, <1>6

\* The focus is the one of now once refreshed, and so is the mark.
LEMMA RefreshedSpares ==
  ASSUME NEW s, Good(s)
  PROVE  Spares(s, Refreshed(s)) /\ (s.locked => Refreshed(s).focus.kind \in {"lock", "dialog"})
<1> DEFINE x == IF s.grab.ended THEN [s EXCEPT !.grab = NoGrab] ELSE s
           clean == CleanOnDemand(x)
           f == NewFocus(clean)
           done == UpdateKeyboardFocus(x)
           focused == done.grab # NoGrab /\ (done.grab.focused \/ done.grab.root = done.focus.surface)
           r == [done EXCEPT !.grab.focused = focused]
<1>1. Spares(s, x)
  BY GrabSpares DEF Spares, SameKeys, Stays
<1> HIDE DEF x
<1>2. Spares(x, clean) /\ Spares(x, done)
  BY <1>1, CleanOnDemandSpares, UpdateKeyboardFocusSpares DEF Spares, Stays
<1>3. done.focus = f
  <2> DEFINE stamped == StampFocused(clean, f)
  <2>1. IsSeat(EndGrab(stamped, f))
    <3>1. IsSeat(stamped)
      BY <1>2, StampFocusedFacts, Zenon DEF Spares, Stays
    <3> HIDE DEF stamped
    <3> QED BY <3>1 DEF IsSeat, SeatField, GrabField, EndGrab, NoGrab
  <2> HIDE DEF stamped
  <2>2. \A marked : [EndGrab(stamped, f) EXCEPT !.marked = marked, !.focus = f].focus = f
    BY <2>1 DEF Good, IsSeat, SeatField
  <2>3. done = IF f = clean.focus THEN clean
               ELSE [EndGrab(stamped, f) EXCEPT !.marked = Marked(clean, f), !.focus = f]
    BY Zenon DEF UpdateKeyboardFocus, stamped
  <2> QED BY <2>2, <2>3
<1>4. s.locked => f.kind \in {"lock", "dialog"}
  <2>1. clean.locked = s.locked
    BY <1>1, <1>2 DEF Spares, Stays
  <2> HIDE DEF clean
  <2> QED BY <2>1 DEF NewFocus, Focus
<1> HIDE DEF done, f
<1>5. Spares(done, r) /\ r.focus = done.focus
  BY <1>2 DEF Good, Spares, IsSeat, SeatField, GrabField, InCharge, SameKeys, NoGrab, Stays
<1>6. Refreshed(s) = r
  BY <1>2 DEF Refreshed, done, x, Spares, Good, IsSeat, GrabField, Stays
<1>7. Spares(s, r)
  BY <1>1, <1>2, <1>5 DEF Spares, SameKeys, Stays
<1> QED BY <1>3, <1>4, <1>5, <1>6, <1>7

(***************************************************************************)
(* Every step keeps the invariant                                          *)
(***************************************************************************)
LEMMA KeyStep ==
  ASSUME SeatInv(seat), KeyNext PROVE SeatInv(seat)'
<1>1. ASSUME NEW key \in Key, PressKey(key) PROVE SeatInv(seat)'
  <2> DEFINE down == [seat EXCEPT !.held = @ \cup {key}]
             pressed == Pressed(down, key)
  <2>1. Down(down, key)
    BY <1>1, PressedDown DEF PressKey
  <2> HIDE DEF down
  <2>2. SeatInv(pressed)
    BY <2>1, PressedInv
  <2> HIDE DEF pressed
  <2>3. \A x : SeatInv([pressed EXCEPT !.dialog = x])
    BY <2>2, PlainFields, SparesInv DEF SeatInv
  <2>4. SeatInv(HideDialog(pressed, seat))
    BY <2>3 DEF HideDialog
  <2>5. seat' = Ranked(HideDialog(pressed, seat))
    BY <1>1, Zenon DEF PressKey, pressed, down
  <2> QED BY <2>4, <2>5, RankedInv
<1>2. ASSUME NEW key \in Key, ReleaseKey(key) PROVE SeatInv(seat)'
  <2> DEFINE up == [seat EXCEPT !.held = @ \ {key}, !.repeat = NoRepeat]
  <2>1. Up(up, key)
    BY <1>2, ReleasedUp DEF ReleaseKey
  <2> HIDE DEF up
  <2>2. SeatInv(Released(up, key))
    BY <2>1, ReleasedInv
  <2>3. seat' = Ranked(Released(up, key))
    BY <1>2, Zenon DEF ReleaseKey, up
  <2> QED BY <2>2, <2>3, RankedInv
<1>3. ASSUME NEW key, CooldownTimer(key) PROVE SeatInv(seat)'
  <2>1. \A x : SeatInv([seat EXCEPT !.cooling = x])
    BY PlainFields, SparesInv DEF SeatInv
  <2> QED BY <1>3, <2>1 DEF CooldownTimer
<1>4. CASE RepeatTimer
  <2>1. seat.repeat \in Bind /\ Harmless(seat.repeat)
    BY <1>4 DEF RepeatTimer, SeatInv, Bound
  <2>2. Backed(seat, seat.repeat.action)
    BY <1>4 DEF RepeatTimer, SeatInv, Held
  <2>3. SeatInv(HandleBind(seat, seat.repeat))
    BY <2>1, <2>2, HandleBindInv
  <2>4. seat' = Ranked(HandleBind(seat, seat.repeat))
    BY <1>4, Zenon DEF RepeatTimer
  <2> QED BY <2>3, <2>4, RankedInv
<1> QED BY <1>1, <1>2, <1>3, <1>4 DEF KeyNext

\* A button is pressed and released.
LEMMA ButtonsInv ==
  ASSUME NEW s, SeatInv(s), NEW button
  PROVE  /\ SeatInv([s EXCEPT !.buttons = @ \cup {button}])
         /\ button \in [s EXCEPT !.buttons = @ \cup {button}].buttons
         /\ \A x : SeatInv([s EXCEPT !.buttons = @ \ {button}, !.swallowed = @ \ {button},
                                     !.shot = s.shot /\ x])
<1> DEFINE t == [s EXCEPT !.buttons = @ \cup {button}]
<1>1. /\ Good(t) /\ t.buttons = s.buttons \cup {button} /\ t.swallowed = s.swallowed /\ t.mru = s.mru
      /\ t.config = s.config /\ t.forwarded = s.forwarded /\ t.repeat = s.repeat
      /\ t.suppressed = s.suppressed /\ t.held = s.held /\ t.strays = s.strays
  BY DEF SeatInv, Good, IsSeat, SeatField, InCharge
<1>2. ASSUME NEW x
      PROVE  SeatInv([s EXCEPT !.buttons = @ \ {button}, !.swallowed = @ \ {button},
                               !.shot = s.shot /\ x])
  <2> DEFINE u == [s EXCEPT !.buttons = @ \ {button}, !.swallowed = @ \ {button},
                            !.shot = s.shot /\ x]
  <2>1. /\ Good(u) /\ u.buttons = s.buttons \ {button} /\ u.swallowed = s.swallowed \ {button}
        /\ u.mru = s.mru
        /\ u.config = s.config /\ u.forwarded = s.forwarded /\ u.repeat = s.repeat
        /\ u.suppressed = s.suppressed /\ u.held = s.held /\ u.strays = s.strays
    BY DEF SeatInv, Good, IsSeat, SeatField, InCharge
  <2> HIDE DEF u
  <2>2. SeatInv(u)
    BY <2>1 DEF SeatInv, Paired, Bound, Held, Backed
  <2> QED BY <2>2 DEF u
<1> HIDE DEF t
<1>3. SeatInv(t) /\ button \in t.buttons
  BY <1>1 DEF SeatInv, Paired, Bound, Held, Backed
<1> QED BY <1>2, <1>3 DEF t

\* Buttons of the pointer.
LEMMA ButtonStep ==
  ASSUME SeatInv(seat), ButtonNext PROVE SeatInv(seat)'
<1>1. ASSUME NEW button \in Button, NEW under, PressButton(button, under) PROVE SeatInv(seat)'
  <2> DEFINE down == [seat EXCEPT !.buttons = @ \cup {button}]
             pressed == ButtonPressed(down, button, under)
  <2>1. SeatInv(down) /\ button \in down.buttons
    BY ButtonsInv
  <2> HIDE DEF down
  <2>2. SeatInv(pressed)
    BY <2>1, ButtonPressedInv
  <2> HIDE DEF pressed
  <2>3. \A x : SeatInv([pressed EXCEPT !.dialog = x])
    BY <2>2, PlainFields, SparesInv DEF SeatInv
  <2>4. SeatInv(HideDialog(pressed, seat))
    BY <2>3 DEF HideDialog
  <2>5. seat' = Ranked(HideDialog(pressed, seat))
    BY <1>1, Zenon DEF PressButton, pressed, down
  <2> QED BY <2>4, <2>5, RankedInv
<1>2. ASSUME NEW button \in Button, NEW captures, ReleaseButton(button, captures) PROVE SeatInv(seat)'
  BY <1>2, ButtonsInv DEF ReleaseButton
<1> QED BY <1>1, <1>2 DEF ButtonNext

\* Windows, and the timer of the delayed commit.
LEMMA WindowStep ==
  ASSUME SeatInv(seat), WindowNext PROVE SeatInv(seat)'
<1> Good(seat)
  BY DEF SeatInv
<1>1. ASSUME NEW w \in Window, NEW activate, MapWindow(w, activate) PROVE SeatInv(seat)'
  <2>1. \A place, top :
          SeatInv([seat EXCEPT !.mapped = @ \cup {w}, !.place = place, !.top = top])
    <3>1. w \in Window \ seat.mapped /\ seat.focus.surface # w
      BY <1>1 DEF MapWindow
    <3> QED BY <3>1, MapSpares, SparesInv
  <2> DEFINE place == [seat.place EXCEPT ![w] = seat.active]
             top == [seat.top EXCEPT ![seat.active] = IF activate \/ @ = NoWindow THEN w ELSE @]
             t == [seat EXCEPT !.mapped = @ \cup {w}, !.place = place, !.top = top]
  <2>2. SeatInv(t)
    BY <2>1
  <2>3. [seat EXCEPT !.mapped = @ \cup {w}, !.place[w] = seat.active,
                     !.top[seat.active] = IF activate \/ @ = NoWindow THEN w ELSE @] = t
    OBVIOUS
  <2> HIDE DEF t
  <2>4. Happens(t)
    BY <1>1, <2>3 DEF MapWindow
  <2> QED BY <2>2, <2>4, HappensInv
<1>2. ASSUME NEW w \in Window, NEW next, UnmapWindow(w, next) PROVE SeatInv(seat)'
  <2>1. SeatInv(Unmapped(seat, w, next))
    BY UnmappedSpares, SparesInv
  <2> QED BY <1>2, <2>1, HappensInv DEF UnmapWindow
<1>3. ASSUME NEW w, RequestActivation(w) PROVE SeatInv(seat)'
  <2> DEFINE t == ActivateWindow(seat, w)
  <2>1. SeatInv(t)
    BY ActivateWindowSpares, SparesInv
  <2> HIDE DEF t
  <2>2. SeatInv([t EXCEPT !.onDemand = NoWindow])
    BY <2>1, PlainFields, SparesInv DEF SeatInv
  <2>3. Happens([t EXCEPT !.onDemand = NoWindow])
    BY <1>3, Zenon DEF RequestActivation, t
  <2> QED BY <2>2, <2>3, HappensInv
<1>4. ASSUME NEW w, HoverMru(w) PROVE SeatInv(seat)'
  <2>1. SeatInv([seat EXCEPT !.mru = SetCurrent(@, w)])
    BY SetCurrentInv
  <2> QED BY <1>4, <2>1, Zenon DEF HoverMru
<1>5. CASE CommitTimer
  <2>1. SeatInv(Ranked(ApplyCommit(seat)))
    BY ApplyCommitSpares, SparesInv, RankedInv
  <2> QED BY <1>5, <2>1, Zenon DEF CommitTimer
<1> QED BY <1>1, <1>2, <1>3, <1>4, <1>5 DEF WindowNext

\* Keyboard shortcuts inhibitors.
LEMMA InhibitStep ==
  ASSUME SeatInv(seat), InhibitNext PROVE SeatInv(seat)'
<1>1. \A x : SeatInv([seat EXCEPT !.inhibit = x])
  BY PlainFields, SparesInv DEF SeatInv
<1>2. PICK w \in Window : NewInhibitor(w) \/ InhibitorDestroyed(w)
  BY DEF InhibitNext
<1>3. \A v : [seat EXCEPT !.inhibit[w] = v] = [seat EXCEPT !.inhibit = [seat.inhibit EXCEPT ![w] = v]]
  OBVIOUS
<1>4. PICK v : Happens([seat EXCEPT !.inhibit[w] = v])
  BY <1>2 DEF NewInhibitor, InhibitorDestroyed
<1> DEFINE t == [seat EXCEPT !.inhibit[w] = v]
<1>5. SeatInv(t) /\ Happens(t)
  BY <1>1, <1>3, <1>4
<1> HIDE DEF t
<1> QED BY <1>5, HappensInv

\* Layer surfaces.
LEMMA LayerStep ==
  ASSUME SeatInv(seat), LayerNext PROVE SeatInv(seat)'
<1> Good(seat)
  BY DEF SeatInv
<1>1. ASSUME NEW l, NEW wish, MapLayer(l, wish) PROVE SeatInv(seat)'
  <2> DEFINE layer == [seat.layer EXCEPT ![l].mapped = TRUE, ![l].wish = wish]
             onDemand == IF wish = "onDemand" THEN l ELSE seat.onDemand
             t == [seat EXCEPT !.layer = layer, !.onDemand = onDemand]
  <2>1. [seat EXCEPT !.layer[l].mapped = TRUE, !.layer[l].wish = wish,
                     !.onDemand = IF wish = "onDemand" THEN l ELSE @] = t
    <3>1. seat = [f \in SeatField |-> seat[f]]
      BY DEF Good, IsSeat
    <3>2. \A x : [[seat EXCEPT !.layer[l].mapped = TRUE] EXCEPT !.layer[l].wish = x]
                 = [seat EXCEPT !.layer = [[seat.layer EXCEPT ![l].mapped = TRUE] EXCEPT ![l].wish = x]]
      BY <3>1 DEF SeatField
    <3> QED BY <3>1, <3>2 DEF SeatField
  <2>2. Happens(t)
    BY <1>1, <2>1 DEF MapLayer
  <2> HIDE DEF layer, onDemand
  <2>3. Spares(seat, t)
    BY LayerAdded
  <2>4. SeatInv(t)
    BY <2>3, SparesInv
  <2> HIDE DEF t
  <2> QED BY <2>2, <2>4, HappensInv
<1>2. ASSUME NEW l, NEW wish, CommitLayer(l, wish) PROVE SeatInv(seat)'
  <2> DEFINE layer == [seat.layer EXCEPT ![l].wish = wish]
             t == [seat EXCEPT !.layer = layer]
  <2>1. [seat EXCEPT !.layer[l].wish = wish] = t
    OBVIOUS
  <2>2. Happens(t)
    BY <1>2, <2>1 DEF CommitLayer
  <2> HIDE DEF layer
  <2>3. Spares(seat, t)
    BY PlainFields
  <2>4. SeatInv(t)
    BY <2>3, SparesInv
  <2> HIDE DEF t
  <2> QED BY <2>2, <2>4, HappensInv
<1>3. ASSUME NEW l, UnmapLayer(l) PROVE SeatInv(seat)'
  <2> DEFINE layer == [seat.layer EXCEPT ![l].mapped = FALSE]
             ended == seat.grab.ended \/ seat.grab.root = l
             t == [seat EXCEPT !.layer = layer, !.grab.ended = ended]
  <2>1. [seat EXCEPT !.layer[l].mapped = FALSE, !.grab.ended = @ \/ seat.grab.root = l] = t
    BY DEF Good, IsSeat, SeatField, GrabField
  <2>2. Happens(t)
    BY <1>3, <2>1 DEF UnmapLayer
  <2> HIDE DEF layer, ended
  <2>3. Spares(seat, t)
    BY LayerGone
  <2>4. SeatInv(t)
    BY <2>3, SparesInv
  <2> HIDE DEF t
  <2> QED BY <2>2, <2>4, HappensInv
<1> QED BY <1>1, <1>2, <1>3 DEF LayerNext

\* Popup grabs, and pointer grabs that Escape cancels.
LEMMA PopupStep ==
  ASSUME SeatInv(seat), PopupNext PROVE SeatInv(seat)'
<1> Good(seat)
  BY DEF SeatInv
<1>1. ASSUME NEW root, GrabPopup(root) PROVE SeatInv(seat)'
  <2> DEFINE t == [seat EXCEPT !.grab = [root |-> root, keyboard |-> TakesKeyboard(seat, root),
                                         ended |-> FALSE, focused |-> FALSE]]
  <2>1. SeatInv(t)
    BY GrabSpares, SparesInv
  <2>2. Happens(t)
    BY <1>1, Zenon DEF GrabPopup
  <2> HIDE DEF t
  <2> QED BY <2>1, <2>2, HappensInv
<1>2. CASE DismissPopup
  <2>1. SeatInv([seat EXCEPT !.grab.ended = TRUE])
    BY GrabSpares, SparesInv
  <2> QED BY <1>2, <2>1, HappensInv DEF DismissPopup
<1>3. CASE StartPick \/ EndPick
  <2>1. \A x : SeatInv([seat EXCEPT !.cancellable = x])
    BY PlainFields, SparesInv
  <2> QED BY <1>3, <2>1, HappensInv DEF StartPick, EndPick
<1> QED BY <1>1, <1>2, <1>3 DEF PopupNext

\* The lock.
LEMMA LockStep ==
  ASSUME SeatInv(seat), LockNext PROVE SeatInv(seat)'
<1>1. CASE Lock
  BY <1>1, LockInv, HappensInv DEF Lock
<1>2. CASE NewLockSurface
  <2>1. SeatInv([seat EXCEPT !.lockSurface = TRUE])
    BY PlainFields, SparesInv DEF SeatInv
  <2> QED BY <1>2, <2>1, HappensInv DEF NewLockSurface
<1>3. CASE Unlock
  <2> DEFINE ended == seat.grab.ended \/ seat.grab.root = LockSurface
             t == [seat EXCEPT !.locked = FALSE, !.lockSurface = FALSE, !.grab.ended = ended]
  <2>1. SeatInv(t)
    BY UnlockInv
  <2>2. Happens(t)
    BY <1>3 DEF Unlock
  <2> HIDE DEF t
  <2> QED BY <2>1, <2>2, HappensInv
<1> QED BY <1>1, <1>2, <1>3 DEF LockNext

\* Actions over IPC, which are never allowed in a locked session by themselves.
LEMMA IpcStep ==
  ASSUME SeatInv(seat), NEW a \in IpcActions, IpcAction(a) PROVE SeatInv(seat)'
<1>1. a \in Action /\ Backed(seat, a)
  BY BindsAssumption DEF Backed, TameBinds, SwitcherBinds
<1>2. Acts(seat, DoAction(seat, a, FALSE))
  BY <1>1, DoActionActs DEF SeatInv
<1>3. SeatInv(Ranked(DoAction(seat, a, FALSE)))
  BY <1>2, ActsInv, RankedInv
<1> QED BY <1>3, Zenon DEF IpcAction

\* Any step.
LEMMA SeatStep ==
  ASSUME SeatInv(seat), [Next]_seat PROVE SeatInv(seat)'
<1>1. ASSUME NEW ws, FocusWorkspace(ws) PROVE SeatInv(seat)'
  <2>1. SeatInv([seat EXCEPT !.active = ws])
    BY PlainFields, SparesInv DEF SeatInv
  <2> QED BY <1>1, <2>1, HappensInv DEF FocusWorkspace
<1>2. CASE Refresh
  <2>1. SeatInv(Ranked(Refreshed(seat)))
    BY RefreshedSpares, SparesInv, RankedInv DEF SeatInv
  <2> QED BY <1>2, <2>1, Zenon DEF Refresh
<1>3. CASE UNCHANGED seat
  BY <1>3
<1>4. CASE KeyNext
  BY <1>4, KeyStep
<1>5. CASE ButtonNext
  BY <1>5, ButtonStep
<1>6. CASE WindowNext
  BY <1>6, WindowStep
<1>7. CASE InhibitNext
  BY <1>7, InhibitStep
<1>8. CASE LayerNext
  BY <1>8, LayerStep
<1>9. CASE PopupNext
  BY <1>9, PopupStep
<1>10. CASE LockNext
  BY <1>10, LockStep
<1>11. CASE IpcNext
  BY <1>11, IpcStep DEF IpcNext
<1> QED BY <1>1, <1>2, <1>3, <1>4, <1>5, <1>6, <1>7, <1>8, <1>9, <1>10, <1>11, Zenon DEF Next

\* The start of the session.
LEMMA SeatInit ==
  ASSUME Init PROVE SeatInv(seat)
<1>1. PICK c \in Configs, ws \in Workspace : seat =
    [config |-> c, held |-> {}, forwarded |-> {}, suppressed |-> {}, strays |-> {},
     repeat |-> NoRepeat, cooling |-> {}, buttons |-> {}, swallowed |-> {},
     dialog |-> FALSE, locked |-> FALSE, shot |-> FALSE, lockSurface |-> FALSE,
     mru |-> Closed, scope |-> "all", overview |-> FALSE, cancellable |-> FALSE, stopped |-> FALSE,
     mapped |-> {}, place |-> [w \in Window |-> ws], active |-> ws,
     top |-> [v \in Workspace |-> NoWindow],
     layer |-> [l \in Layer |-> [mapped |-> FALSE, level |-> c.level[l], wish |-> "none"]],
     onDemand |-> NoWindow, grab |-> NoGrab, inhibit |-> [w \in Window |-> "none"],
     focus |-> Focus("layout", NoWindow), marked |-> {}, stamp |-> [w \in Window |-> 0],
     pending |-> NoCommit]
  BY SMTT(30) DEF Init
<1>2. IsSeat(seat)
  <2>1. IsMru(Closed)
    BY ClosedFits
  <2> QED BY <1>1, <2>1 DEF IsSeat, SeatField, GrabField, NoGrab
<1>3. InCharge(seat)
  <2>1. /\ LockedBinds /\ seat.locked => ~seat.shot /\ ~seat.mru.open
        /\ seat.marked = {seat.focus.surface} \cap seat.mapped
        /\ seat.grab.keyboard /\ seat.grab.focused => seat.grab.root = seat.focus.surface
    BY <1>1 DEF NoGrab
  <2>2. /\ seat.stamp = [w \in Window |-> 0] /\ seat.pending = NoCommit /\ seat.mapped = {}
    BY <1>1
  <2>3. StampsFit(seat.stamp, seat.pending, seat.mapped, seat.focus, seat.config.debounce)
    BY <2>2 DEF StampsFit, NoCommit
  <2>4. ListFits(seat.mru, seat.mapped)
    <3>1. ListFits(Closed, seat.mapped)
      BY ClosedFits
    <3>2. seat.mru = Closed
      BY <1>1
    <3> QED BY <3>1, <3>2
  <2> QED BY <2>1, <2>3, <2>4 DEF InCharge
<1>4. Paired(seat) /\ Bound(seat)
  BY <1>1 DEF Paired, Bound
<1>5. Held(seat)
  BY <1>1 DEF Held, Closed
<1> QED BY <1>2, <1>3, <1>4, <1>5 DEF SeatInv, Good

(***************************************************************************)
(* The keys and buttons are paired, the binds are known ones, and the      *)
(* interfaces agree with the focus, whatever the order of input events,    *)
(* IPC requests, timers and what clients do.                               *)
(***************************************************************************)
THEOREM SeatInvariant == Spec => []SeatInv(seat)
<1>1. Init => SeatInv(seat)
  BY SeatInit
<1>2. SeatInv(seat) /\ [Next]_seat => SeatInv(seat)'
  BY SeatStep
<1> QED BY <1>1, <1>2, PTL DEF Spec

(***************************************************************************)
(* Every key that is down is either known to a client, or suppressed, or   *)
(* forgotten by a VT switch, and never two of these; a swallowed button is *)
(* down; and the bind that repeats is one of a key that is down            *)
(* (suppressed_keys, suppressed_buttons, bind_repeat_timer).               *)
(***************************************************************************)
THEOREM PressesPaired == Spec => []KeysPaired
<1>1. SeatInv(seat) => KeysPaired
  BY DEF SeatInv, Paired, KeysPaired
<1> QED BY <1>1, SeatInvariant, PTL

(***************************************************************************)
(* If LockedBinds holds of the configurations, a locked session has neither*)
(* the screenshot UI nor the recent windows open, and its keyboard is with *)
(* the lock or the dialog; no window but the focused one takes itself to be*)
(* focused; and a popup grab that has the keyboard goes with the focus of  *)
(* its root.                                                               *)
(***************************************************************************)
THEOREM FocusGoverned == ASSUME LockedBinds PROVE Spec => []FocusInCharge
<1>1. SeatInv(seat) => FocusInCharge
  <2> SUFFICES ASSUME SeatInv(seat) PROVE FocusInCharge
    OBVIOUS
  <2> DEFINE r == Refreshed(seat)
  <2>1. Good(seat) /\ Good(r) /\ (seat.locked => r.focus.kind \in {"lock", "dialog"})
    BY RefreshedSpares DEF SeatInv, Spares, Stays
  <2> HIDE DEF r
  <2>2. /\ seat.locked => ~seat.shot /\ ~seat.mru.open
        /\ r.marked = {r.focus.surface} \cap r.mapped
        /\ r.grab.keyboard /\ r.grab.focused => r.grab.root = r.focus.surface
    BY <2>1 DEF Good, InCharge
  <2> QED BY <2>1, <2>2 DEF FocusInCharge, r
<1> QED BY <1>1, SeatInvariant, PTL

(***************************************************************************)
(* Of the windows, the one with the keyboard was used last, whether its    *)
(* timestamp is applied or waits for the delay of the recent windows: it   *)
(* is the first of the list (update_keyboard_focus,                        *)
(* mru_apply_keyboard_commit).                                             *)
(***************************************************************************)
THEOREM NewestFocused == Spec => []FocusedIsNewest
<1>1. SeatInv(seat) => FocusedIsNewest
  <2> SUFFICES ASSUME SeatInv(seat), seat.focus.kind = "layout", seat.focus.surface \in seat.mapped
               PROVE  Recent(ApplyCommit(seat))[1] = seat.focus.surface
    BY DEF FocusedIsNewest
  <2> DEFINE t == ApplyCommit(seat)
  <2>1. Good(t)
    BY ApplyCommitSpares DEF SeatInv, Spares, Stays
  <2>2. t.pending = NoCommit /\ t.focus = seat.focus /\ t.mapped = seat.mapped
    BY DEF SeatInv, Good, IsSeat, SeatField, ApplyCommit
  <2> HIDE DEF t
  <2>3. /\ t.stamp \in [Window -> Nat] /\ t.mapped \subseteq Window
        /\ Leads(t.stamp, t.pending, t.mapped, t.focus.surface)
    BY <2>1, <2>2 DEF Good, InCharge, StampsFit
  <2>4. \A v \in t.mapped : UsedAt(t.stamp, t.pending, v) = t.stamp[v]
    BY <2>2, <2>3, NoWindowAssumption DEF UsedAt, NoCommit
  <2>5. \A u \in t.mapped \ {t.focus.surface} : t.stamp[u] < t.stamp[t.focus.surface]
    BY <2>2, <2>3, <2>4 DEF Leads
  <2> QED BY <2>2, <2>3, <2>5, LeaderFirst DEF t
<1> QED BY <1>1, SeatInvariant, PTL

(***************************************************************************)
(* While the recent windows are open, their list has only windows that are *)
(* mapped, and some; one of the visible ones is selected, if any is        *)
(* visible (WindowMru::verify_invariants, after every window that comes or *)
(* goes, every scope and every filter); and, if the configuration has      *)
(* binds as above, a modifier is held whose release closes them.           *)
(***************************************************************************)
THEOREM SwitcherGoverned == ASSUME TameBinds PROVE Spec => []SwitcherInStep
<1>1. SeatInv(seat) => SwitcherInStep
  <2> SUFFICES ASSUME SeatInv(seat), seat.mru.open
               PROVE  /\ {t.win : t \in ToSet(seat.mru.thumbnails)} \subseteq seat.mapped
                      /\ seat.mru.thumbnails # <<>>
                      /\ IF Visible(seat.mru) = <<>> THEN seat.mru.current = NoWindow
                         ELSE seat.mru.current \in ToSet(Visible(seat.mru))
                      /\ Modifiers(seat) # {}
    BY DEF SwitcherInStep, OpenWhileHeld
  <2> DEFINE m == seat.mru
  <2>1. Lists(m, seat.mapped) /\ Picks(m) /\ m.thumbnails # <<>>
    BY DEF SeatInv, Good, InCharge, ListFits
  <2>2. Modifiers(seat) # {}
    BY DEF SeatInv, Held, Modifiers
  <2> HIDE DEF m
  <2>3. Visible(m) \in Seq(Window) /\ ToSet(Visible(m)) = Shown(m)
    BY <2>1, VisibleFacts
  <2>4. Visible(m) = <<>> <=> Shown(m) = {}
    <3> DEFINE v == Visible(m)
    <3>1. v \in Seq(Window) /\ ToSet(v) = {v[i] : i \in 1..Len(v)}
      BY <2>3 DEF ToSet
    <3> HIDE DEF v
    <3>2. v = <<>> <=> ToSet(v) = {}
      BY <3>1
    <3> QED BY <2>3, <3>2 DEF v
  <2>5. {t.win : t \in ToSet(m.thumbnails)} \subseteq seat.mapped
    BY <2>1 DEF Lists, ToSet
  <2> QED BY <2>1, <2>2, <2>3, <2>4, <2>5 DEF m, Picks
<1> QED BY <1>1, SeatInvariant, PTL
=============================================================================
