---------------------------- MODULE MonitorProofs ----------------------------
(***************************************************************************)
(* Every operation of one output's stack of workspaces that a call of the  *)
(* layout makes leaves the monitor sound: moving workspaces about,         *)
(* switching between them, swiping and edge scrolling, reloading the       *)
(* configuration, closing windows and naming workspaces.                   *)
(***************************************************************************)
EXTENDS Monitor, IndexLemmas, SequenceTheorems

(***************************************************************************)
(* Inserting, removing and swapping elements                               *)
(***************************************************************************)
\* A part of a sequence, as SubSeqProperties has it, for sequences of type S.
LEMMA Part ==
  ASSUME NEW S, NEW s \in Seq(S), NEW a \in 1..(Len(s) + 1), NEW b \in 0..Len(s), a <= b + 1
  PROVE  /\ SubSeq(s, a, b) \in Seq(S) /\ Len(SubSeq(s, a, b)) = b - a + 1
         /\ \A i \in 1..(b - a + 1) : SubSeq(s, a, b)[i] = s[a + i - 1]
<1>1. a \in Int /\ b \in Int /\ \A i \in a..b : s[i] \in S
  OBVIOUS
<1>2. b - a + 1 = IF a <= b THEN b - a + 1 ELSE 0
  BY <1>1
<1> QED BY <1>1, <1>2, SubSeqProperties

\* t is s with e inserted as its i-th element.
WithInserted(t, s, i, e) ==
  /\ Len(t) = Len(s) + 1
  /\ \A j \in 1..(Len(s) + 1) : t[j] = IF j < i THEN s[j] ELSE IF j = i THEN e ELSE s[j - 1]

\* What InsertAt returns.
LEMMA Inserted ==
  ASSUME NEW S, NEW s \in Seq(S), NEW i \in 1..(Len(s) + 1), NEW e \in S
  PROVE  InsertAt(s, i, e) \in Seq(S) /\ WithInserted(InsertAt(s, i, e), s, i, e)
<1> DEFINE A == SubSeq(s, 1, i - 1)
           B == SubSeq(s, i, Len(s))
           C == A \o <<e>>
<1>0. Len(s) \in Nat /\ i \in Int
  OBVIOUS
<1>1. /\ A \in Seq(S) /\ Len(A) = i - 1
      /\ \A j \in 1..(i - 1) : A[j] = s[j]
  <2>1. 1 \in 1..(Len(s) + 1) /\ i - 1 \in 0..Len(s) /\ 1 <= (i - 1) + 1
    BY <1>0
  <2>2. /\ A \in Seq(S) /\ Len(A) = (i - 1) - 1 + 1
        /\ \A j \in 1..((i - 1) - 1 + 1) : A[j] = s[1 + j - 1]
    BY <2>1, Part
  <2> HIDE DEF A
  <2> QED BY <1>0, <2>2
<1>2. /\ B \in Seq(S) /\ Len(B) = Len(s) - i + 1
      /\ \A j \in 1..(Len(s) - i + 1) : B[j] = s[i + j - 1]
  BY <1>0, Part
<1>3. <<e>> \in Seq(S) /\ Len(<<e>>) = 1 /\ <<e>>[1] = e
  OBVIOUS
<1> HIDE DEF A, B
<1>4. /\ C \in Seq(S) /\ Len(C) = i
      /\ \A j \in 1..i : C[j] = IF j <= i - 1 THEN A[j] ELSE <<e>>[j - (i - 1)]
  <2>1. /\ C \in Seq(S) /\ Len(C) = Len(A) + Len(<<e>>)
        /\ \A j \in 1..(Len(A) + Len(<<e>>)) :
             C[j] = IF j <= Len(A) THEN A[j] ELSE <<e>>[j - Len(A)]
    BY <1>1, <1>3, ConcatProperties
  <2> HIDE DEF C
  <2> QED BY <1>0, <1>1, <1>3, <2>1
<1> HIDE DEF C
<1>5. /\ C \o B \in Seq(S) /\ Len(C \o B) = Len(C) + Len(B)
      /\ \A j \in 1..(Len(C) + Len(B)) :
           (C \o B)[j] = IF j <= Len(C) THEN C[j] ELSE B[j - Len(C)]
  BY <1>2, <1>4, ConcatProperties
<1>6. InsertAt(s, i, e) = C \o B
  BY DEF InsertAt, A, B, C
<1>7. Len(C \o B) = Len(s) + 1
  BY <1>0, <1>2, <1>4, <1>5
<1>8. ASSUME NEW j \in 1..(Len(s) + 1)
      PROVE  (C \o B)[j] = IF j < i THEN s[j] ELSE IF j = i THEN e ELSE s[j - 1]
  <2>1. (C \o B)[j] = IF j <= i THEN C[j] ELSE B[j - i]
    BY <1>0, <1>2, <1>4, <1>5
  <2>2. CASE j < i
    BY <1>0, <1>1, <1>4, <2>1, <2>2
  <2>3. CASE j = i
    <3>1. <<e>>[i - (i - 1)] = e
      BY <1>0
    <3> QED BY <1>0, <1>4, <2>1, <2>3, <3>1
  <2>4. CASE i < j
    <3>1. j - i \in 1..(Len(s) - i + 1) /\ i + (j - i) - 1 = j - 1
      BY <1>0, <2>4
    <3> QED BY <1>0, <1>2, <2>1, <2>4, <3>1
  <2>5. j < i \/ j = i \/ i < j
    BY <1>0
  <2> QED BY <2>2, <2>3, <2>4, <2>5
<1> QED BY <1>5, <1>6, <1>7, <1>8 DEF WithInserted

\* Inserting something else does not change what there is of C.
LEMMA OnlyInserted ==
  ASSUME NEW S, NEW s \in Seq(S), NEW t \in Seq(S), NEW i \in 1..(Len(s) + 1), NEW e,
         WithInserted(t, s, i, e), NEW C, e \notin C
  PROVE  Only(t, C) = Only(s, C)
<1>0. Len(s) \in Nat /\ Len(t) = Len(s) + 1 /\ i \in Int
  BY DEF WithInserted
<1>1. PICK g : g = [j \in 1..Len(t) |-> IF j < i THEN j ELSE j - 1]
  OBVIOUS
<1>2. ASSUME NEW j \in Where(t, C)
      PROVE  j \in 1..Len(t) /\ j # i /\ g[j] \in Where(s, C) /\ t[j] = s[g[j]]
  <2>1. j \in 1..(Len(s) + 1) /\ t[j] \in C /\ t[j] = IF j < i THEN s[j] ELSE IF j = i THEN e ELSE s[j - 1]
    BY <1>0 DEF Where, WithInserted
  <2>2. j # i /\ g[j] = IF j < i THEN j ELSE j - 1
    BY <1>0, <1>1, <2>1
  <2>3. g[j] \in 1..Len(s) /\ t[j] = s[g[j]]
    BY <1>0, <2>1, <2>2
  <2> QED BY <1>0, <2>1, <2>2, <2>3 DEF Where
<1>3. ASSUME NEW h \in Where(t, C), NEW j \in Where(t, C), h < j PROVE g[h] < g[j]
  <2>1. h \in 1..Len(t) /\ h # i /\ j \in 1..Len(t) /\ j # i
    BY <1>2
  <2> QED BY <1>0, <1>1, <1>3, <2>1
<1>4. ASSUME NEW k \in Where(s, C) PROVE \E j \in Where(t, C) : g[j] = k
  <2>1. k \in 1..Len(s) /\ s[k] \in C
    BY DEF Where
  <2>2. CASE k < i
    <3>1. k \in 1..(Len(s) + 1) /\ t[k] = s[k] /\ g[k] = k
      BY <1>0, <1>1, <2>1, <2>2 DEF WithInserted
    <3>2. k \in Where(t, C)
      BY <1>0, <2>1, <3>1 DEF Where
    <3> QED BY <3>1, <3>2
  <2>3. CASE ~(k < i)
    <3>1. PICK j : j = k + 1
      OBVIOUS
    <3>2. j \in 1..(Len(s) + 1) /\ ~(j < i) /\ j # i /\ j - 1 = k
      BY <1>0, <2>1, <2>3, <3>1
    <3>3. t[j] = s[k] /\ g[j] = k
      BY <1>0, <1>1, <3>2 DEF WithInserted
    <3>4. j \in Where(t, C)
      BY <1>0, <2>1, <3>2, <3>3 DEF Where
    <3> QED BY <3>3, <3>4
  <2> QED BY <2>2, <2>3
<1>5. Carries(g, t, Where(t, C), s, Where(s, C))
  BY <1>2, <1>3, <1>4 DEF Carries
<1> QED BY <1>5, SameOnly

\* t is s without its i-th element.
WithRemoved(t, s, i) ==
  /\ Len(t) = Len(s) - 1
  /\ \A j \in 1..(Len(s) - 1) : t[j] = IF j < i THEN s[j] ELSE s[j + 1]

\* What RemoveAt returns.
LEMMA Removed ==
  ASSUME NEW S, NEW s \in Seq(S), NEW i \in 1..Len(s)
  PROVE  RemoveAt(s, i) \in Seq(S) /\ WithRemoved(RemoveAt(s, i), s, i)
<1> DEFINE A == SubSeq(s, 1, i - 1)
           B == SubSeq(s, i + 1, Len(s))
<1>0. Len(s) \in Nat /\ i \in Int
  OBVIOUS
<1>1. /\ A \in Seq(S) /\ Len(A) = i - 1
      /\ \A j \in 1..(i - 1) : A[j] = s[j]
  <2>1. 1 \in 1..(Len(s) + 1) /\ i - 1 \in 0..Len(s) /\ 1 <= (i - 1) + 1
    BY <1>0
  <2>2. /\ A \in Seq(S) /\ Len(A) = (i - 1) - 1 + 1
        /\ \A j \in 1..((i - 1) - 1 + 1) : A[j] = s[1 + j - 1]
    BY <2>1, Part
  <2> HIDE DEF A
  <2> QED BY <1>0, <2>2
<1>2. /\ B \in Seq(S) /\ Len(B) = Len(s) - i
      /\ \A j \in 1..(Len(s) - i) : B[j] = s[i + j]
  <2>1. i + 1 \in 1..(Len(s) + 1) /\ Len(s) \in 0..Len(s) /\ i + 1 <= Len(s) + 1
    BY <1>0
  <2>2. /\ B \in Seq(S) /\ Len(B) = Len(s) - (i + 1) + 1
        /\ \A j \in 1..(Len(s) - (i + 1) + 1) : B[j] = s[(i + 1) + j - 1]
    BY <2>1, Part
  <2> HIDE DEF B
  <2>3. Len(s) - (i + 1) + 1 = Len(s) - i /\ \A j \in Int : (i + 1) + j - 1 = i + j
    BY <1>0
  <2> QED BY <1>0, <2>2, <2>3
<1> HIDE DEF A, B
<1>3. /\ A \o B \in Seq(S) /\ Len(A \o B) = Len(A) + Len(B)
      /\ \A j \in 1..(Len(A) + Len(B)) : (A \o B)[j] = IF j <= Len(A) THEN A[j] ELSE B[j - Len(A)]
  BY <1>1, <1>2, ConcatProperties
<1>4. RemoveAt(s, i) = A \o B
  BY DEF RemoveAt, A, B
<1>5. Len(A \o B) = Len(s) - 1
  BY <1>0, <1>1, <1>2, <1>3
<1>6. ASSUME NEW j \in 1..(Len(s) - 1)
      PROVE  (A \o B)[j] = IF j < i THEN s[j] ELSE s[j + 1]
  <2>1. (A \o B)[j] = IF j <= i - 1 THEN A[j] ELSE B[j - (i - 1)]
    BY <1>0, <1>1, <1>2, <1>3
  <2>2. CASE j < i
    BY <1>0, <1>1, <2>1, <2>2
  <2>3. CASE i <= j
    <3>1. j - (i - 1) \in 1..(Len(s) - i) /\ i + (j - (i - 1)) = j + 1
      BY <1>0, <2>3
    <3> QED BY <1>0, <1>2, <2>1, <2>3, <3>1
  <2>4. j < i \/ i <= j
    BY <1>0
  <2> QED BY <2>2, <2>3, <2>4
<1> QED BY <1>3, <1>4, <1>5, <1>6 DEF WithRemoved

\* t is s with its elements i and j exchanged.
WithSwapped(t, s, i, j) ==
  /\ Len(t) = Len(s)
  /\ \A k \in 1..Len(s) : t[k] = IF k = j THEN s[i] ELSE IF k = i THEN s[j] ELSE s[k]

\* What Swap returns.
LEMMA Swapped ==
  ASSUME NEW S, NEW s \in Seq(S), NEW i \in 1..Len(s), NEW j \in 1..Len(s)
  PROVE  Swap(s, i, j) \in Seq(S) /\ WithSwapped(Swap(s, i, j), s, i, j)
  BY DEF Swap, WithSwapped

(***************************************************************************)
(* What the operations of a monitor keep.                                  *)
(***************************************************************************)
\* The active workspace is there.
Formed(m) == m \in Monitor /\ m.active \in 1..Len(m.ws)

\* A workspace that monitor m may keep at an end: blank, and its output's own.
Spare(m, w) == IsBlank(w) /\ w.orig = m.output

\* The last workspace is spare, and so is the first with empty_workspace_above_first.
SpareEnds(m) == Spare(m, m.ws[Len(m.ws)]) /\ (m.eaf => Spare(m, m.ws[1]))

\* The workspaces that a swipe or an edge scroll is between are there.
SwitchFits(m) ==
  /\ IsGesture(m.sw) => m.sw.center \in 1..Len(m.ws) /\ m.sw.at \in 0..Len(m.ws)
  /\ m.sw.kind = "dnd" => ~m.sw.clamped /\ m.sw.at # 0

\* Workspace i is at an end, where a blank one belongs.
AtEnd(m, i) == i = Len(m.ws) \/ (m.eaf /\ i = 1)

\* Clean-up leaves workspace i alone.
Excused(m, i) == i = m.active \/ AtEnd(m, i) \/ HasWindowsOrName(m.ws[i])

\* With no switch in progress clean-up would drop nothing, but for workspace x.
IdleBut(m, x) == m.sw.kind = "none" => \A i \in 1..Len(m.ws) : i # x => Excused(m, i)

\* With no switch in progress clean-up would drop nothing.
Idle(m) == m.sw.kind = "none" => \A i \in 1..Len(m.ws) : Excused(m, i)

\* Fit for clean-up.
Ready(m) == Formed(m) /\ ~m.panicked /\ SpareEnds(m)

\* Fit but for blank workspaces in between.
Nearly(m) == Ready(m) /\ (m.eaf => Len(m.ws) < 2 \/ Len(m.ws) > 2) /\ SwitchFits(m)

\* As a call finds a monitor and leaves it.
Sound(m) == Nearly(m) /\ Idle(m)

\* An operation keeps the output of a monitor and its option.
SameOutput(m, n) == n.output = m.output /\ n.eaf = m.eaf

\* The workspaces that are worth keeping; n has those of m, in order.
Full == {w \in Workspace : HasWindowsOrName(w)}
SameFull(m, n) == \A C \in SUBSET Full : Only(n.ws, C) = Only(m.ws, C)

\* n has those of m and then those that were added.
Continues(m, added, n) == \A C \in SUBSET Full : Only(n.ws, C) = Only(m.ws, C) \o Only(added, C)

\* Those of C that did not originate on o.
NotOf(C, o) == {v \in C : v.orig # o}

\* n shows the workspace that m shows, unless that is blank.
ShowsAs(m, n) == HasWindowsOrName(m.ws[m.active]) => n.ws[n.active] = m.ws[m.active]

\* n has those that were kept, in order, and shows the one with id last.
Brings(n, kept, last) ==
  /\ \A C \in SUBSET Full : Only(n.ws, C) = Only(kept, C)
  /\ \A i \in 1..Len(kept) : kept[i].id = last => n.ws[n.active].id = last

\* n is what m is without the workspaces that originated on o.
Without(m, o, n) ==
  /\ \A C \in SUBSET Full : Only(n.ws, C) = Only(m.ws, NotOf(C, o))
  /\ m.ws[m.active].orig # o => ShowsAs(m, n)

\* What the fields of a monitor are.
LEMMA MonitorFields ==
  ASSUME NEW m \in Monitor
  PROVE  /\ m.ws \in Seq(Workspace) /\ Len(m.ws) \in Nat /\ m.output \in Output
         /\ m.eaf \in BOOLEAN /\ m.panicked \in BOOLEAN /\ m.sw \in Switch
         /\ m.active \in Nat /\ m.prev \in Id \cup {NoId}
         /\ \A i \in 1..Len(m.ws) : m.ws[i] \in Workspace /\ m.ws[i].id \in Id
<1>1. /\ m.ws \in Seq(Workspace) /\ m.output \in Output
      /\ m.eaf \in BOOLEAN /\ m.panicked \in BOOLEAN /\ m.sw \in Switch
      /\ m.active \in Nat /\ m.prev \in Id \cup {NoId}
  BY Zenon DEF Monitor
<1>2. Len(m.ws) \in Nat /\ \A i \in 1..Len(m.ws) : m.ws[i] \in Workspace
  BY <1>1
<1>3. \A w \in Workspace : w.id \in Id
  BY DEF Workspace
<1> QED BY <1>1, <1>2, <1>3

\* Workspace::new makes a blank workspace of the output.
LEMMA NewWorkspaceFacts ==
  ASSUME NEW o \in Output, NEW id \in Id
  PROVE  /\ NewWorkspace(o, id) \in Workspace
         /\ NewWorkspace(o, id).orig = o /\ IsBlank(NewWorkspace(o, id))
  BY DEF NewWorkspace, Workspace, IsBlank, HasWindowsOrName

\* What the fields of a switch are.
LEMMA SwitchFields ==
  ASSUME NEW sw \in Switch
  PROVE  sw.kind \in SwitchKind /\ sw.clamped \in BOOLEAN /\ sw.center \in Nat /\ sw.at \in Nat
  BY DEF Switch

\* A gesture whose workspaces have other indices now.
MovedTo(sw, c, a) == [sw EXCEPT !.center = c, !.at = a]

\* Moving the indices of a switch changes nothing else of it.
LEMMA SwitchMoved ==
  ASSUME NEW sw \in Switch, NEW c \in Nat, NEW a \in Nat
  PROVE  /\ MovedTo(sw, c, a) \in Switch
         /\ MovedTo(sw, c, a).kind = sw.kind /\ MovedTo(sw, c, a).clamped = sw.clamped
         /\ MovedTo(sw, c, a).center = c /\ MovedTo(sw, c, a).at = a
<1>1. MovedTo(sw, c, a) \in Switch
  BY Zenon DEF Switch, MovedTo
<1>2. /\ MovedTo(sw, c, a).kind = sw.kind /\ MovedTo(sw, c, a).clamped = sw.clamped
      /\ MovedTo(sw, c, a).center = c /\ MovedTo(sw, c, a).at = a
  BY DEF Switch, MovedTo
<1> QED BY <1>1, <1>2

\* An animation and no switch at all are switches without indices to fit.
LEMMA SwitchesAtRest ==
  /\ Animation \in Switch /\ Animation.kind = "animation"
  /\ NoSwitch \in Switch /\ NoSwitch.kind = "none"
<1>1. NoSwitch \in Switch /\ NoSwitch.kind = "none"
  BY DEF NoSwitch, Switch, SwitchKind
<1>2. Animation \in Switch /\ Animation.kind = "animation"
  BY DEF Animation, NoSwitch, Switch, SwitchKind
<1> QED BY <1>1, <1>2

\* Of the switch, an inserted workspace moves only the indices of a gesture.
LEMMA OffsetFacts ==
  ASSUME NEW sw \in Switch, NEW i \in Nat
  PROVE  /\ OffsetFor(sw, i) \in Switch
         /\ OffsetFor(sw, i).kind = sw.kind /\ OffsetFor(sw, i).clamped = sw.clamped
         /\ OffsetFor(sw, i).center \in {sw.center, sw.center + 1}
         /\ OffsetFor(sw, i).at \in {sw.at, sw.at + 1}
         /\ OffsetFor(sw, i).at = 0 => sw.at = 0
<1>1. sw.center + 1 \in Nat /\ sw.at + 1 \in Nat /\ sw.at \in Nat
  BY SwitchFields
<1>2. CASE IsGesture(sw) /\ i <= sw.at
  <2>1. PICK c, a : c = sw.center + 1 /\ a = sw.at + 1
    OBVIOUS
  <2>2. OffsetFor(sw, i) = MovedTo(sw, c, a)
    BY <1>2, <2>1 DEF OffsetFor, MovedTo
  <2>3. c \in Nat /\ a \in Nat
    BY <1>1, <2>1
  <2>4. /\ MovedTo(sw, c, a) \in Switch
        /\ MovedTo(sw, c, a).kind = sw.kind /\ MovedTo(sw, c, a).clamped = sw.clamped
        /\ MovedTo(sw, c, a).center = c /\ MovedTo(sw, c, a).at = a
    BY <2>3, SwitchMoved
  <2> QED BY <1>1, <2>1, <2>2, <2>4
<1>3. CASE ~(IsGesture(sw) /\ i <= sw.at)
  BY <1>3 DEF OffsetFor
<1> QED BY <1>2, <1>3

\* add_workspace_at
LEMMA AddedAt ==
  ASSUME NEW m, Formed(m), NEW i \in 1..(Len(m.ws) + 1), NEW id \in Id,
         NEW n, n = AddWorkspaceAt(m, i, id)
  PROVE  /\ Formed(n) /\ SameOutput(m, n) /\ Len(n.ws) = Len(m.ws) + 1
         /\ \A j \in 1..(Len(m.ws) + 1) :
              n.ws[j] = IF j < i THEN m.ws[j]
                        ELSE IF j = i THEN NewWorkspace(m.output, id) ELSE m.ws[j - 1]
         /\ Spare(n, n.ws[i])
         /\ n.active = IF i <= m.active THEN m.active + 1 ELSE m.active
         /\ n.panicked = m.panicked
         /\ n.sw.kind = m.sw.kind /\ (SwitchFits(m) => SwitchFits(n))
<1>0. m \in Monitor /\ m.active \in 1..Len(m.ws) /\ Len(m.ws) \in Nat /\ m.sw \in Switch
      /\ m.output \in Output
  BY MonitorFields DEF Formed
<1>1. PICK w : w = NewWorkspace(m.output, id)
  OBVIOUS
<1>2. w \in Workspace /\ m.ws \in Seq(Workspace) /\ IsBlank(w) /\ w.orig = m.output
  BY <1>0, <1>1, MonitorFields, NewWorkspaceFacts
<1>3. PICK ws, a, sw : /\ ws = InsertAt(m.ws, i, w)
                       /\ a = IF i <= m.active THEN m.active + 1 ELSE m.active
                       /\ sw = OffsetFor(m.sw, i)
  OBVIOUS
<1>4. n = [m EXCEPT !.ws = ws, !.active = a, !.sw = sw]
  BY <1>1, <1>3 DEF AddWorkspaceAt
<1>5. /\ ws \in Seq(Workspace) /\ Len(ws) = Len(m.ws) + 1
      /\ \A j \in 1..(Len(m.ws) + 1) : ws[j] = IF j < i THEN m.ws[j] ELSE IF j = i THEN w ELSE m.ws[j - 1]
  <2>1. PICK s : s = m.ws
    OBVIOUS
  <2>2. s \in Seq(Workspace) /\ i \in 1..(Len(s) + 1)
    BY <1>2, <2>1
  <2>3. w \in Workspace
    BY <1>2
  <2>4. InsertAt(s, i, w) \in Seq(Workspace) /\ WithInserted(InsertAt(s, i, w), s, i, w)
    BY <2>2, <2>3, Inserted, Zenon
  <2> QED BY <1>3, <2>1, <2>4 DEF WithInserted
<1>6. i \in Nat /\ a \in Nat /\ a \in 1..(Len(m.ws) + 1)
  BY <1>0, <1>3
<1>7. /\ sw \in Switch /\ sw.kind = m.sw.kind
      /\ sw.clamped = m.sw.clamped
      /\ sw.center \in {m.sw.center, m.sw.center + 1}
      /\ sw.at \in {m.sw.at, m.sw.at + 1}
      /\ sw.at = 0 => m.sw.at = 0
  BY <1>0, <1>3, <1>6, OffsetFacts
<1>8. n \in Monitor
  BY <1>0, <1>4, <1>5, <1>6, <1>7, Zenon DEF Monitor
<1>9. /\ n.ws = ws /\ n.sw = sw /\ SameOutput(m, n) /\ n.active = a /\ n.panicked = m.panicked
  BY <1>0, <1>4 DEF Monitor, SameOutput
<1>10. ASSUME SwitchFits(m) PROVE SwitchFits(n)
  <2>1. m.sw.center \in Nat /\ m.sw.at \in Nat
    BY <1>0, SwitchFields
  <2>2. n.sw.kind = m.sw.kind /\ n.sw.clamped = m.sw.clamped /\ Len(n.ws) = Len(m.ws) + 1
    BY <1>5, <1>7, <1>9
  <2>3. ASSUME IsGesture(m.sw)
        PROVE  n.sw.center \in 1..Len(n.ws) /\ n.sw.at \in 0..Len(n.ws)
    <3>1. m.sw.center \in 1..Len(m.ws) /\ m.sw.at \in 0..Len(m.ws)
      BY <1>10, <2>3 DEF SwitchFits
    <3>2. PICK len, c, a1 \in Nat : len = Len(m.ws) /\ c = m.sw.center /\ a1 = m.sw.at
      BY <1>0, <2>1
    <3>3. n.sw.center \in {c, c + 1} /\ n.sw.at \in {a1, a1 + 1} /\ Len(n.ws) = len + 1
      BY <1>7, <1>9, <2>2, <3>2
    <3>4. c \in 1..len /\ a1 \in 0..len
      BY <3>1, <3>2
    <3> QED BY <3>3, <3>4
  <2>4. n.sw.at = 0 => m.sw.at = 0
    BY <1>7, <1>9
  <2> QED BY <1>10, <2>2, <2>3, <2>4 DEF SwitchFits, IsGesture
<1>11. n.ws[i] = w /\ Spare(n, n.ws[i])
  <2>1. n.ws[i] = w
    BY <1>0, <1>5, <1>9
  <2> QED BY <1>2, <1>9, <2>1 DEF Spare, SameOutput
<1> QED BY <1>1, <1>3, <1>5, <1>6, <1>7, <1>8, <1>9, <1>10, <1>11 DEF Formed

\* add_workspace_top: what was there is one place further down.
LEMMA AddedTop ==
  ASSUME NEW m, Formed(m), NEW id \in Id, NEW n, n = AddWorkspaceTop(m, id)
  PROVE  /\ Formed(n) /\ SameOutput(m, n) /\ Len(n.ws) = Len(m.ws) + 1
         /\ \A j \in 1..Len(m.ws) : n.ws[j + 1] = m.ws[j]
         /\ n.ws[Len(n.ws)] = m.ws[Len(m.ws)]
         /\ Spare(n, n.ws[1])
         /\ n.active = m.active + 1 /\ n.panicked = m.panicked
         /\ n.sw.kind = m.sw.kind /\ (SwitchFits(m) => SwitchFits(n))
<1>1. PICK one : one = 1
  OBVIOUS
<1>2. Len(m.ws) \in Nat /\ m.active \in 1..Len(m.ws)
  BY MonitorFields DEF Formed
<1>3. one \in 1..(Len(m.ws) + 1) /\ n = AddWorkspaceAt(m, one, id)
  BY <1>1, <1>2 DEF AddWorkspaceTop
<1>4. /\ Formed(n) /\ SameOutput(m, n) /\ Len(n.ws) = Len(m.ws) + 1
      /\ \A j \in 1..(Len(m.ws) + 1) :
           n.ws[j] = IF j < one THEN m.ws[j]
                     ELSE IF j = one THEN NewWorkspace(m.output, id) ELSE m.ws[j - 1]
      /\ Spare(n, n.ws[one])
      /\ n.active = IF one <= m.active THEN m.active + 1 ELSE m.active
      /\ n.panicked = m.panicked
      /\ n.sw.kind = m.sw.kind /\ (SwitchFits(m) => SwitchFits(n))
  BY <1>3, AddedAt
<1>5. ASSUME NEW j \in 1..Len(m.ws) PROVE n.ws[j + 1] = m.ws[j]
  <2>1. PICK k : k = j + 1
    OBVIOUS
  <2>2. k \in 1..(Len(m.ws) + 1) /\ ~(k < one) /\ k # one /\ k - 1 = j
    BY <1>1, <1>2, <2>1
  <2>3. n.ws[k] = m.ws[k - 1]
    BY <1>4, <2>2
  <2> QED BY <2>1, <2>2, <2>3
<1>6. n.active = m.active + 1
  BY <1>1, <1>2, <1>4
<1>7. n.ws[Len(n.ws)] = m.ws[Len(m.ws)]
  <2>1. Len(m.ws) \in 1..Len(m.ws)
    BY <1>2
  <2> QED BY <1>4, <1>5, <2>1
<1> QED BY <1>1, <1>4, <1>5, <1>6, <1>7

\* add_workspace_bottom
LEMMA AddedBottom ==
  ASSUME NEW m, Formed(m), NEW id \in Id, NEW n, n = AddWorkspaceBottom(m, id)
  PROVE  /\ Formed(n) /\ SameOutput(m, n) /\ Len(n.ws) = Len(m.ws) + 1
         /\ \A j \in 1..Len(m.ws) : n.ws[j] = m.ws[j]
         /\ Spare(n, n.ws[Len(n.ws)])
         /\ n.active = m.active /\ n.panicked = m.panicked
         /\ n.sw.kind = m.sw.kind /\ (SwitchFits(m) => SwitchFits(n))
<1>1. PICK b : b = Len(m.ws) + 1
  OBVIOUS
<1>2. Len(m.ws) \in Nat /\ m.active \in 1..Len(m.ws)
  BY MonitorFields DEF Formed
<1>3. b \in 1..(Len(m.ws) + 1) /\ n = AddWorkspaceAt(m, b, id)
  BY <1>1, <1>2 DEF AddWorkspaceBottom
<1>4. /\ Formed(n) /\ SameOutput(m, n) /\ Len(n.ws) = Len(m.ws) + 1
      /\ \A j \in 1..(Len(m.ws) + 1) :
           n.ws[j] = IF j < b THEN m.ws[j]
                     ELSE IF j = b THEN NewWorkspace(m.output, id) ELSE m.ws[j - 1]
      /\ Spare(n, n.ws[b])
      /\ n.active = IF b <= m.active THEN m.active + 1 ELSE m.active
      /\ n.panicked = m.panicked
      /\ n.sw.kind = m.sw.kind /\ (SwitchFits(m) => SwitchFits(n))
  BY <1>3, AddedAt
<1>5. \A j \in 1..Len(m.ws) : n.ws[j] = m.ws[j]
  BY <1>1, <1>2, <1>4
<1>6. n.active = m.active
  BY <1>1, <1>2, <1>4
<1> QED BY <1>1, <1>4, <1>5, <1>6

\* activate_workspace: only a switch to another workspace starts one.
LEMMA Activated ==
  ASSUME NEW m, Formed(m), NEW i \in 1..Len(m.ws), NEW n, n = ActivateWorkspace(m, i)
  PROVE  /\ Formed(n) /\ SameOutput(m, n) /\ n.ws = m.ws /\ n.active = i
         /\ n.panicked = m.panicked
         /\ n.sw.kind = "none" => m.sw.kind = "none" /\ m.active = i
         /\ SwitchFits(m) => SwitchFits(n)
<1>0. m \in Monitor /\ m.active \in 1..Len(m.ws) /\ Len(m.ws) \in Nat /\ m.sw \in Switch /\ i \in Nat
  BY MonitorFields DEF Formed
<1>1. m.ws[m.active].id \in Id /\ m.prev \in Id \cup {NoId}
  BY <1>0, MonitorFields
<1>2. PICK sw, scrolled, prev :
         /\ scrolled = MovedTo(m.sw, i, i)
         /\ sw = IF m.sw.kind = "dnd" THEN scrolled ELSE IF m.active = i THEN m.sw ELSE Animation
         /\ prev = IF m.active # i THEN m.ws[m.active].id ELSE m.prev
  OBVIOUS
<1>3. n = [m EXCEPT !.active = i, !.prev = prev, !.sw = sw]
  BY <1>2 DEF ActivateWorkspace, MovedTo
<1>4. prev \in Id \cup {NoId}
  BY <1>1, <1>2
<1>5. /\ scrolled \in Switch /\ scrolled.kind = m.sw.kind /\ scrolled.clamped = m.sw.clamped
      /\ scrolled.center = i /\ scrolled.at = i
  <2>1. PICK old : old = m.sw
    OBVIOUS
  <2>2. old \in Switch /\ i \in Nat
    BY <1>0, <2>1
  <2>3. scrolled = MovedTo(old, i, i)
    BY <1>2, <2>1
  <2>4. /\ MovedTo(old, i, i) \in Switch
        /\ MovedTo(old, i, i).kind = old.kind /\ MovedTo(old, i, i).clamped = old.clamped
        /\ MovedTo(old, i, i).center = i /\ MovedTo(old, i, i).at = i
    BY <2>2, SwitchMoved, Zenon
  <2> QED BY <2>1, <2>3, <2>4
<1>6. sw \in Switch
  BY <1>0, <1>2, <1>5, SwitchesAtRest
<1>7. n \in Monitor
  BY <1>0, <1>3, <1>4, <1>6, Zenon DEF Monitor
<1>8. n.active = i /\ n.ws = m.ws /\ n.sw = sw /\ n.panicked = m.panicked /\ SameOutput(m, n)
  BY <1>0, <1>3 DEF Monitor, SameOutput
<1>9. sw.kind = "none" => m.sw.kind = "none" /\ m.active = i
  BY <1>2, <1>5, SwitchesAtRest
<1>10. ASSUME SwitchFits(m) PROVE SwitchFits(n)
  BY <1>0, <1>2, <1>5, <1>8, <1>10, SwitchesAtRest DEF SwitchFits, IsGesture
<1> QED BY <1>0, <1>7, <1>8, <1>9, <1>10 DEF Formed

\* The windows and the name of workspace i change; that is all.
Rewritten(m, i, w) == [m EXCEPT !.ws = [m.ws EXCEPT ![i] = w]]

\* Replacing workspace i changes nothing else of a monitor.
LEMMA RewrittenFacts ==
  ASSUME NEW m, Formed(m), NEW i \in 1..Len(m.ws), NEW w \in Workspace,
         NEW n, n = Rewritten(m, i, w)
  PROVE  /\ Formed(n) /\ SameOutput(m, n) /\ Len(n.ws) = Len(m.ws)
         /\ n.ws[i] = w /\ \A j \in 1..Len(m.ws) : j # i => n.ws[j] = m.ws[j]
         /\ n.active = m.active /\ n.panicked = m.panicked /\ n.sw = m.sw
<1>0. m \in Monitor /\ m.active \in 1..Len(m.ws) /\ m.ws \in Seq(Workspace)
  BY MonitorFields DEF Formed
<1>1. PICK s, ws : s = m.ws /\ ws = [s EXCEPT ![i] = w]
  OBVIOUS
<1>2. /\ ws \in Seq(Workspace) /\ Len(ws) = Len(s) /\ ws[i] = w
      /\ \A j \in 1..Len(s) : j # i => ws[j] = s[j]
  <2>1. s \in Seq(Workspace) /\ i \in 1..Len(s)
    BY <1>0, <1>1
  <2> QED BY <1>1, <2>1
<1>3. n = [m EXCEPT !.ws = ws]
  BY <1>1 DEF Rewritten
<1>4. n \in Monitor
  BY <1>0, <1>2, <1>3, Zenon DEF Monitor
<1>5. /\ n.ws = ws /\ SameOutput(m, n) /\ n.active = m.active /\ n.panicked = m.panicked
      /\ n.sw = m.sw
  BY <1>0, <1>3 DEF Monitor, SameOutput
<1> QED BY <1>0, <1>1, <1>2, <1>4, <1>5 DEF Formed

\* Taking windows away, or a name, leaves a blank workspace blank.
LEMMA Emptied ==
  ASSUME NEW m, Nearly(m), NEW i \in 1..Len(m.ws), NEW w \in Workspace,
         w.orig = m.ws[i].orig, HasWindowsOrName(w) => HasWindowsOrName(m.ws[i]),
         NEW n, n = Rewritten(m, i, w)
  PROVE  Nearly(n) /\ (Idle(m) => IdleBut(n, i))
<1>0. Formed(m) /\ Len(m.ws) \in Nat /\ m.active \in 1..Len(m.ws)
  BY MonitorFields DEF Nearly, Ready, Formed
<1>1. /\ Formed(n) /\ SameOutput(m, n) /\ Len(n.ws) = Len(m.ws)
      /\ n.ws[i] = w /\ \A j \in 1..Len(m.ws) : j # i => n.ws[j] = m.ws[j]
      /\ n.active = m.active /\ n.panicked = m.panicked /\ n.sw = m.sw
  BY <1>0, RewrittenFacts
<1>2. ASSUME NEW j \in 1..Len(m.ws), Spare(m, m.ws[j]) PROVE Spare(n, n.ws[j])
  BY <1>1, <1>2 DEF Spare, IsBlank, SameOutput
<1>3. SpareEnds(n)
  <2>1. Len(m.ws) \in 1..Len(m.ws) /\ 1 \in 1..Len(m.ws)
    BY <1>0
  <2> QED BY <1>1, <1>2, <2>1 DEF SpareEnds, Nearly, Ready, SameOutput
<1>4. Nearly(n)
  BY <1>1, <1>3 DEF Nearly, Ready, SwitchFits, SameOutput
<1>5. ASSUME Idle(m) PROVE IdleBut(n, i)
  BY <1>1, <1>5 DEF Idle, IdleBut, Excused, AtEnd, SameOutput
<1> QED BY <1>4, <1>5

\* Workspace i of m has been filled, in f, and e has blank workspaces at its ends
\* again: d of them new at the top, and c at the bottom.
FilledAt(m, f, i) ==
  /\ Formed(f) /\ SameOutput(m, f) /\ Len(f.ws) = Len(m.ws)
  /\ f.active = m.active /\ f.panicked = m.panicked /\ f.sw = m.sw
  /\ HasWindowsOrName(f.ws[i]) /\ \A j \in 1..Len(m.ws) : j # i => f.ws[j] = m.ws[j]

\* e is f with d workspaces more at the top and c more at the bottom, because
\* workspace i of f was at an end.
Grown(f, e, i, d, c) ==
  /\ d = 1 <=> f.eaf /\ i = 1
  /\ c = 1 <=> i = Len(f.ws)
  /\ Formed(e) /\ SameOutput(f, e) /\ Len(e.ws) = Len(f.ws) + d + c
  /\ \A j \in 1..Len(f.ws) : e.ws[j + d] = f.ws[j]
  /\ d = 1 => Spare(e, e.ws[1])
  /\ c = 1 => Spare(e, e.ws[Len(e.ws)])
  /\ e.active = f.active + d /\ e.panicked = f.panicked
  /\ e.sw.kind = f.sw.kind /\ (SwitchFits(f) => SwitchFits(e))

\* With workspace i filled, the ends are kept.
LEMMA EndsKept ==
  ASSUME NEW m, Formed(m), NEW i \in 1..Len(m.ws), NEW id \in Id,
         NEW n, n = KeepEnds(m, i, id)
  PROVE  \E d \in 0..1, c \in 0..1 : Grown(m, n, i, d, c) /\ AfterTop(m, i) = i + d
<1>d. PICK d \in 0..1 : d = 1 <=> m.eaf /\ i = 1
  <2>1. CASE m.eaf /\ i = 1
    BY <2>1
  <2>2. CASE ~(m.eaf /\ i = 1)
    BY <2>2
  <2> QED BY <2>1, <2>2
<1>c. PICK c \in 0..1 : c = 1 <=> i = Len(m.ws)
  <2>1. CASE i = Len(m.ws)
    BY <2>1
  <2>2. CASE i # Len(m.ws)
    BY <2>2
  <2> QED BY <2>1, <2>2
<1> USE <1>d, <1>c
<1> WITNESS d \in 0..1, c \in 0..1
<1> SUFFICES /\ Formed(n) /\ SameOutput(m, n) /\ Len(n.ws) = Len(m.ws) + d + c
             /\ \A j \in 1..Len(m.ws) : n.ws[j + d] = m.ws[j]
             /\ d = 1 => Spare(n, n.ws[1])
             /\ c = 1 => Spare(n, n.ws[Len(n.ws)])
             /\ n.active = m.active + d /\ n.panicked = m.panicked
             /\ n.sw.kind = m.sw.kind /\ (SwitchFits(m) => SwitchFits(n))
             /\ AfterTop(m, i) = i + d
  BY DEF Grown
<1>0. /\ m \in Monitor /\ Len(m.ws) \in Nat /\ m.active \in 1..Len(m.ws) /\ i \in Nat
      /\ id + 1 \in Id
  BY MonitorFields DEF Formed, Id
<1>1. PICK m1 : m1 = IF i = Len(m.ws) THEN AddWorkspaceBottom(m, id) ELSE m
  OBVIOUS
<1>2. /\ Formed(m1) /\ SameOutput(m, m1) /\ Len(m1.ws) = Len(m.ws) + c
      /\ \A j \in 1..Len(m.ws) : m1.ws[j] = m.ws[j]
      /\ c = 1 => Spare(m1, m1.ws[Len(m1.ws)])
      /\ m1.active = m.active /\ m1.panicked = m.panicked
      /\ m1.sw.kind = m.sw.kind /\ (SwitchFits(m) => SwitchFits(m1))
  <2>1. CASE i = Len(m.ws)
    BY <1>1, <2>1, AddedBottom
  <2>2. CASE i # Len(m.ws)
    BY <1>0, <1>1, <2>2 DEF SameOutput
  <2> QED BY <2>1, <2>2
<1>3. n = IF m.eaf /\ i = 1 THEN AddWorkspaceTop(m1, id + 1) ELSE m1
  BY <1>1, <1>2 DEF KeepEnds, SameOutput
<1>4. CASE m.eaf /\ i = 1
  <2>2. /\ Formed(n) /\ SameOutput(m1, n) /\ Len(n.ws) = Len(m1.ws) + 1
        /\ \A j \in 1..Len(m1.ws) : n.ws[j + 1] = m1.ws[j]
        /\ n.ws[Len(n.ws)] = m1.ws[Len(m1.ws)]
        /\ Spare(n, n.ws[1])
        /\ n.active = m1.active + 1 /\ n.panicked = m1.panicked
        /\ n.sw.kind = m1.sw.kind /\ (SwitchFits(m1) => SwitchFits(n))
    <3>1. PICK id1 \in Id : id1 = id + 1
      BY <1>0
    <3>2. Formed(m1) /\ n = AddWorkspaceTop(m1, id1)
      BY <1>2, <1>3, <1>4, <3>1
    <3> QED BY <3>2, AddedTop
  <2>3. \A j \in 1..Len(m1.ws) : n.ws[j + 1] = m1.ws[j]
    BY <2>2
  <2>4. ASSUME c = 1 PROVE Spare(n, n.ws[Len(n.ws)])
    BY <1>2, <2>2, <2>4 DEF Spare, SameOutput
  <2>5. d = 1 /\ AfterTop(m, i) = i + d
    BY <1>0, <1>4 DEF AfterTop
  <2>6. \A j \in 1..Len(m.ws) : n.ws[j + d] = m.ws[j]
    BY <1>0, <1>2, <2>3, <2>5
  <2>7. Len(n.ws) = Len(m.ws) + d + c /\ n.active = m.active + d
    BY <1>0, <1>2, <2>2, <2>5
  <2> QED BY <1>2, <2>2, <2>4, <2>5, <2>6, <2>7 DEF SameOutput
<1>5. CASE ~(m.eaf /\ i = 1)
  <2>1. d = 0 /\ AfterTop(m, i) = i + d
    BY <1>0, <1>5 DEF AfterTop
  <2>2. n = m1
    BY <1>3, <1>5
  <2>3. \A j \in 1..Len(m.ws) : n.ws[j + d] = m.ws[j]
    BY <1>0, <1>2, <2>1, <2>2
  <2>4. Len(n.ws) = Len(m.ws) + d + c /\ n.active = m.active + d
    BY <1>0, <1>2, <2>1, <2>2
  <2> QED BY <1>2, <2>1, <2>2, <2>3, <2>4
<1> QED BY <1>4, <1>5

\* The loop of clean_up_workspaces keeps the active workspace and the ends.
LEMMA WhatIsDropped ==
  ASSUME NEW m, Formed(m)
  PROVE  /\ CleanUpDropped(m) \subseteq 1..Len(m.ws)
         /\ \A i \in 1..Len(m.ws) : i \notin CleanUpDropped(m) <=> Excused(m, i)
<1>1. Len(m.ws) \in Nat /\ m.active \in 1..Len(m.ws) /\ m.eaf \in BOOLEAN
  BY MonitorFields DEF Formed
<1>2. CASE m.eaf
  <2>1. CleanUpDropped(m) = {i \in 2..(Len(m.ws) - 1) : i # m.active /\ IsBlank(m.ws[i])}
    BY <1>2 DEF CleanUpDropped
  <2> QED BY <1>1, <1>2, <2>1 DEF Excused, AtEnd, IsBlank
<1>3. CASE ~m.eaf
  <2>1. CleanUpDropped(m) = {i \in 1..(Len(m.ws) - 1) : i # m.active /\ IsBlank(m.ws[i])}
    BY <1>3 DEF CleanUpDropped
  <2> QED BY <1>1, <1>3, <2>1 DEF Excused, AtEnd, IsBlank
<1> QED BY <1>2, <1>3

\* A monitor with one blank workspace is sound.
LEMMA OnlyOne ==
  ASSUME NEW m, Formed(m), ~m.panicked, Len(m.ws) = 1, Spare(m, m.ws[1]), m.sw.kind = "none"
  PROVE  Sound(m)
<1>1. m.active = 1 /\ \A i \in 1..Len(m.ws) : i = m.active
  BY DEF Formed
<1> QED BY <1>1 DEF Sound, Nearly, Ready, SpareEnds, SwitchFits, IsGesture, Idle, Excused

\* clean_up_workspaces makes a monitor sound, and removes only blank workspaces.
LEMMA CleanedUp ==
  ASSUME NEW m, Ready(m), m.sw.kind = "none", NEW n, n = CleanUpWorkspaces(m)
  PROVE  Sound(n) /\ SameOutput(m, n) /\ SameFull(m, n) /\ ShowsAs(m, n)
<1> DEFINE D == CleanUpDropped(m)
           K == (1..Len(m.ws)) \ D
<1>0. /\ Formed(m) /\ m \in Monitor /\ m.ws \in Seq(Workspace) /\ Len(m.ws) \in Nat
      /\ m.active \in 1..Len(m.ws) /\ Len(m.ws) \in 1..Len(m.ws) /\ 1 \in 1..Len(m.ws)
      /\ ~m.panicked /\ SpareEnds(m) /\ m.eaf \in BOOLEAN
  BY MonitorFields DEF Ready, Formed
<1>1. /\ D \subseteq 1..Len(m.ws) /\ K \subseteq 1..Len(m.ws)
      /\ m.active \in K /\ Len(m.ws) \in K /\ (m.eaf => 1 \in K)
      /\ \A i \in K : Excused(m, i)
  BY <1>0, WhatIsDropped DEF Excused, AtEnd
<1> HIDE DEF K
<1>2. PICK ws, a, c : /\ ws = Keep(m.ws, K) /\ c = Cardinality(K)
                      /\ a = m.active - Cardinality({i \in D : i < m.active})
  OBVIOUS
<1>3. /\ ws \in Seq(Workspace) /\ Len(ws) = c /\ c \in 0..Len(m.ws)
      /\ \A j \in 1..c : Nth(K, j) \in K /\ ws[j] = m.ws[Nth(K, j)] /\ RankIn(K, Nth(K, j)) = j
      /\ \A k \in K : RankIn(K, k) \in 1..c /\ ws[RankIn(K, k)] = m.ws[k]
  <2>1. PICK s : s = m.ws
    OBVIOUS
  <2>2. s \in Seq(Workspace) /\ K \in SUBSET (1..Len(s))
    BY <1>0, <1>1, <2>1
  <2> QED BY <1>2, <2>1, <2>2, Kept
<1>4. a = RankIn(K, m.active)
  <2>1. m.active \notin D
    BY <1>1 DEF K
  <2>2. {i \in D : i < m.active} = {i \in D : i <= m.active}
    BY <1>0, <1>1, <2>1
  <2>3. PICK len, b : len = Len(m.ws) /\ b = m.active
    OBVIOUS
  <2>4. len \in Nat /\ D \in SUBSET (1..len) /\ b \in 1..len
    BY <1>0, <1>1, <2>3
  <2>5. RankIn((1..len) \ D, b) = b - Cardinality({i \in D : i <= b})
    BY <2>4, RankWithout
  <2> QED BY <1>2, <2>2, <2>3, <2>5 DEF K
<1>5. RankIn(K, Len(m.ws)) = c
  <2>1. \A x \in K : x <= Len(m.ws)
    BY <1>0, <1>1
  <2>2. {x \in K : x <= Len(m.ws)} = K
    BY <2>1, Zenon
  <2> QED BY <1>2, <2>2 DEF RankIn
<1>6. m.eaf => RankIn(K, 1) = 1
  <2>1. ASSUME 1 \in K PROVE {x \in K : x <= 1} = {1}
    <3>1. \A x \in K : x \in Int /\ x >= 1
      BY <1>0, <1>1
    <3>2. \A x \in K : x <= 1 <=> x = 1
      BY <3>1
    <3> QED BY <2>1, <3>2
  <2> QED BY <1>1, <2>1, FS_Singleton DEF RankIn
<1>7. /\ a \in 1..c /\ ws[a] = m.ws[m.active]
      /\ c \in 1..c /\ ws[c] = m.ws[Len(m.ws)]
      /\ m.eaf => ws[1] = m.ws[1]
  <2>1. a \in 1..c /\ ws[a] = m.ws[m.active]
    BY <1>1, <1>3, <1>4
  <2>2. c \in 1..c /\ ws[c] = m.ws[Len(m.ws)]
    BY <1>1, <1>3, <1>5
  <2>3. ASSUME m.eaf PROVE ws[1] = m.ws[1]
    <3>1. 1 \in K /\ RankIn(K, 1) = 1
      BY <1>1, <1>6, <2>3
    <3> QED BY <1>3, <3>1
  <2> QED BY <2>1, <2>2, <2>3
<1>8. ASSUME NEW j \in 1..c
      PROVE  j = a \/ j = c \/ (m.eaf /\ j = 1) \/ HasWindowsOrName(ws[j])
  <2>1. PICK k \in K : k = Nth(K, j) /\ ws[j] = m.ws[k] /\ RankIn(K, k) = j
    BY <1>3
  <2>2. Excused(m, k)
    BY <1>1
  <2> QED BY <1>4, <1>5, <1>6, <2>1, <2>2 DEF Excused, AtEnd
<1>9. Spare(m, ws[c]) /\ (m.eaf => Spare(m, ws[1]))
  BY <1>0, <1>7 DEF SpareEnds
<1>d. ASSUME NEW C \in SUBSET Full PROVE Only(ws, C) = Only(m.ws, C)
  <2>1. PICK s : s = m.ws
    OBVIOUS
  <2>2. s \in Seq(Workspace) /\ IndicesTo(Len(s), K) /\ ws = Keep(s, K)
    BY <1>0, <1>1, <1>2, <2>1 DEF IndicesTo
  <2>3. ASSUME NEW i \in 1..Len(s), s[i] \in C PROVE i \in K
    <3>1. HasWindowsOrName(m.ws[i]) /\ i \in 1..Len(m.ws)
      BY <2>1, <2>3 DEF Full
    <3>2. i \notin D
      BY <1>0, <3>1, WhatIsDropped DEF Excused
    <3> QED BY <3>1, <3>2 DEF K
  <2>4. WhereOf(s, K, C) = Where(s, C)
    BY <1>1, <2>1, <2>3 DEF WhereOf, Where
  <2>5. Only(ws, C) = Keep(s, WhereOf(s, K, C))
    BY <2>2, KeptTwice
  <2> QED BY <2>1, <2>4, <2>5 DEF Only
<1>10. CASE m.eaf /\ c = 2
  <2>1. ~HasWindowsOrName(ws[1]) /\ ~HasWindowsOrName(ws[2])
    BY <1>9, <1>10 DEF Spare, IsBlank
  <2>2. PICK one : one = <<ws[1]>>
    OBVIOUS
  <2>3. n = [m EXCEPT !.ws = one, !.active = 1, !.panicked = FALSE]
    <3>1. ~\E i \in 1..2 : HasWindowsOrName(ws[i])
      BY <2>1
    <3> QED BY <1>0, <1>2, <1>3, <1>10, <2>2, <3>1 DEF CleanUpWorkspaces, K
  <2>4. one \in Seq(Workspace) /\ Len(one) = 1 /\ one[1] = ws[1]
    <3>1. ws[1] \in Workspace
      <4>1. 1 \in 1..Len(ws)
        BY <1>3, <1>10
      <4> QED BY <1>3, <4>1
    <3> QED BY <2>2, <3>1
  <2>5. n \in Monitor
    <3>1. 1 \in Nat /\ FALSE \in BOOLEAN
      OBVIOUS
    <3> QED BY <1>0, <2>3, <2>4, <3>1, Zenon DEF Monitor
  <2>6. n.ws = one /\ n.active = 1 /\ ~n.panicked /\ SameOutput(m, n) /\ n.sw = m.sw
    BY <1>0, <2>3 DEF Monitor, SameOutput
  <2>7. Sound(n)
    BY <1>9, <1>10, <2>4, <2>5, <2>6, OnlyOne DEF Formed, Spare, SameOutput
  <2>8. ASSUME NEW C \in SUBSET Full PROVE Only(one, C) = Only(m.ws, C)
    <3>1. \A v \in C : HasWindowsOrName(v)
      BY DEF Full
    <3>2. \A i \in 1..Len(ws) : ws[i] \notin C
      <4>1. \A i \in 1..Len(ws) : i = 1 \/ i = 2
        BY <1>3, <1>10
      <4> QED BY <2>1, <3>1, <4>1
    <3>3. \A i \in 1..Len(one) : one[i] \notin C
      <4>1. \A i \in 1..Len(one) : i = 1
        BY <2>4
      <4> QED BY <2>1, <2>4, <3>1, <4>1
    <3>4. Only(ws, C) = <<>>
      BY <1>3, <3>2, OnlyNone
    <3>5. Only(one, C) = <<>>
      BY <2>4, <3>3, OnlyNone
    <3> QED BY <1>d, <3>4, <3>5
  <2>9. ~HasWindowsOrName(m.ws[m.active])
    <3>1. a = 1 \/ a = 2
      BY <1>7, <1>10
    <3> QED BY <1>7, <2>1, <3>1
  <2> QED BY <2>6, <2>7, <2>8, <2>9 DEF SameFull, ShowsAs
<1>11. CASE ~(m.eaf /\ c = 2)
  <2>1. n = [m EXCEPT !.ws = ws, !.active = a, !.panicked = FALSE]
    BY <1>0, <1>2, <1>3, <1>11 DEF CleanUpWorkspaces, K
  <2>2. a \in Nat
    BY <1>7
  <2>3. n \in Monitor
    BY <1>0, <1>3, <2>1, <2>2, Zenon DEF Monitor
  <2>4. n.ws = ws /\ n.active = a /\ ~n.panicked /\ SameOutput(m, n) /\ n.sw = m.sw
    BY <1>0, <2>1 DEF Monitor, SameOutput
  <2>5. Ready(n)
    BY <1>3, <1>7, <1>9, <2>3, <2>4 DEF Ready, Formed, SpareEnds, Spare, SameOutput
  <2>6. Idle(n)
    BY <1>3, <1>8, <2>4 DEF Idle, Excused, AtEnd, SameOutput
  <2>7. m.eaf => c < 2 \/ c > 2
    BY <1>0, <1>3, <1>7, <1>11
  <2>8. Sound(n)
    BY <1>3, <2>4, <2>5, <2>6, <2>7 DEF Sound, Nearly, SwitchFits, IsGesture, SameOutput
  <2>9. SameFull(m, n) /\ ShowsAs(m, n)
    BY <1>7, <1>d, <2>4 DEF SameFull, ShowsAs
  <2> QED BY <2>4, <2>8, <2>9
<1> QED BY <1>10, <1>11

\* The switch of a monitor changes, and nothing else.
LEMMA SwitchSet ==
  ASSUME NEW m, Formed(m), NEW sw \in Switch, NEW n, n = [m EXCEPT !.sw = sw]
  PROVE  /\ Formed(n) /\ SameOutput(m, n) /\ n.ws = m.ws /\ n.active = m.active
         /\ n.panicked = m.panicked /\ n.sw = sw /\ (Ready(m) => Ready(n))
<1>1. m \in Monitor
  BY DEF Formed
<1>2. n \in Monitor
  BY <1>1, Zenon DEF Monitor
<1>3. /\ SameOutput(m, n) /\ n.ws = m.ws /\ n.active = m.active
      /\ n.panicked = m.panicked /\ n.sw = sw
  BY <1>1 DEF Monitor, SameOutput
<1>4. ASSUME Ready(m) PROVE Ready(n)
  BY <1>2, <1>3, <1>4 DEF Ready, Formed, SpareEnds, Spare, SameOutput
<1> QED BY <1>2, <1>3, <1>4 DEF Formed

\* clean_up_workspaces, which ends any switch, leaves a monitor sound.
LEMMA Settled ==
  ASSUME NEW m, Ready(m), NEW n, n = Settle(m)
  PROVE  Sound(n) /\ SameOutput(m, n) /\ SameFull(m, n) /\ ShowsAs(m, n)
<1>1. PICK still : still = [m EXCEPT !.sw = NoSwitch]
  OBVIOUS
<1>2. /\ Ready(still) /\ SameOutput(m, still) /\ still.sw = NoSwitch
      /\ still.ws = m.ws /\ still.active = m.active
  BY <1>1, SwitchSet, SwitchesAtRest DEF Ready
<1>3. n = CleanUpWorkspaces(still)
  BY <1>1 DEF Settle
<1>4. Sound(n) /\ SameOutput(still, n) /\ SameFull(still, n) /\ ShowsAs(still, n)
  BY <1>2, <1>3, CleanedUp, SwitchesAtRest
<1> QED BY <1>2, <1>4 DEF SameOutput, SameFull, ShowsAs

\* clean_up_workspaces when no switch is in progress, likewise.
LEMMA CleanedUpIfIdle ==
  ASSUME NEW m, Nearly(m), NEW n, n = CleanUpIfIdle(m)
  PROVE  Sound(n) /\ SameOutput(m, n)
<1>1. CASE m.sw.kind = "none"
  BY <1>1, CleanedUp DEF CleanUpIfIdle, Nearly
<1>2. CASE m.sw.kind # "none"
  BY <1>2 DEF CleanUpIfIdle, Sound, Idle, SameOutput
<1> QED BY <1>1, <1>2

\* A switch to another workspace leaves none of them idle.
LEMMA SwitchedTo ==
  ASSUME NEW m, Nearly(m), NEW i \in 1..Len(m.ws), NEW n, n = ActivateWorkspace(m, i)
  PROVE  Nearly(n) /\ SameOutput(m, n) /\ (Idle(m) => Idle(n))
<1>1. /\ Formed(n) /\ SameOutput(m, n) /\ n.ws = m.ws /\ n.active = i
      /\ n.panicked = m.panicked
      /\ n.sw.kind = "none" => m.sw.kind = "none" /\ m.active = i
      /\ SwitchFits(m) => SwitchFits(n)
  BY Activated DEF Nearly, Ready
<1>2. Nearly(n)
  BY <1>1 DEF Nearly, Ready, SpareEnds, Spare, SameOutput
<1>3. ASSUME Idle(m) PROVE Idle(n)
  BY <1>1, <1>3 DEF Idle, Excused, AtEnd, SameOutput
<1> QED BY <1>1, <1>2, <1>3

\* What the fields of a workspace are.
LEMMA WorkspaceFields ==
  ASSUME NEW w \in Workspace
  PROVE  /\ w.id \in Id /\ w.orig \in Output \cup {NoOutput} /\ w.name \in Name \cup {NoName}
         /\ w.wins \in SUBSET Window
  BY DEF Workspace

\* Workspace::remove_tile and remove_active_column
LEMMA WindowsTaken ==
  ASSUME NEW m, Nearly(m), NEW i \in 1..Len(m.ws), NEW wins, NEW n, n = TakeWindows(m, i, wins)
  PROVE  /\ Nearly(n) /\ SameOutput(m, n) /\ Len(n.ws) = Len(m.ws)
         /\ n.active = m.active /\ n.sw = m.sw
         /\ \A j \in 1..Len(m.ws) : j # i => n.ws[j] = m.ws[j]
         /\ Idle(m) => IdleBut(n, i)
<1>0. Formed(m) /\ m.ws[i] \in Workspace
  BY MonitorFields DEF Nearly, Ready, Formed
<1>1. PICK w : w = [m.ws[i] EXCEPT !.wins = m.ws[i].wins \ wins]
  OBVIOUS
<1>2. n = Rewritten(m, i, w)
  BY <1>1 DEF TakeWindows, Rewritten
<1>3. w \in Workspace /\ w.orig = m.ws[i].orig /\ (HasWindowsOrName(w) => HasWindowsOrName(m.ws[i]))
  <2>1. PICK v : v = m.ws[i]
    OBVIOUS
  <2>2. v \in Workspace /\ w = [v EXCEPT !.wins = v.wins \ wins]
    BY <1>0, <1>1, <2>1
  <2>3. w \in Workspace /\ w.orig = v.orig /\ w.name = v.name /\ w.wins = v.wins \ wins
    BY <2>2 DEF Workspace
  <2> QED BY <2>1, <2>3 DEF HasWindowsOrName
<1>4. /\ SameOutput(m, n) /\ Len(n.ws) = Len(m.ws) /\ n.active = m.active /\ n.sw = m.sw
      /\ \A j \in 1..Len(m.ws) : j # i => n.ws[j] = m.ws[j]
  <2>1. Formed(m) /\ w \in Workspace
    BY <1>0, <1>3
  <2> QED BY <1>2, <2>1, RewrittenFacts
<1>5. Nearly(n) /\ (Idle(m) => IdleBut(n, i))
  BY <1>2, <1>3, Emptied
<1> QED BY <1>4, <1>5

\* unname_workspace
LEMMA Unnamed ==
  ASSUME NEW m, Nearly(m), NEW i \in 1..Len(m.ws), NEW n, n = UnnameWorkspace(m, i)
  PROVE  Sound(n) /\ SameOutput(m, n)
<1>0. Formed(m) /\ m.ws[i] \in Workspace
  BY MonitorFields DEF Nearly, Ready, Formed
<1>1. PICK w : w = [m.ws[i] EXCEPT !.name = NoName]
  OBVIOUS
<1>2. PICK n1 : n1 = Rewritten(m, i, w)
  OBVIOUS
<1>3. n = CleanUpIfIdle(n1)
  BY <1>1, <1>2 DEF UnnameWorkspace, Rewritten
<1>4. w \in Workspace /\ w.orig = m.ws[i].orig /\ (HasWindowsOrName(w) => HasWindowsOrName(m.ws[i]))
  <2>1. PICK v : v = m.ws[i]
    OBVIOUS
  <2>2. v \in Workspace /\ w = [v EXCEPT !.name = NoName]
    BY <1>0, <1>1, <2>1
  <2>3. w \in Workspace /\ w.orig = v.orig /\ w.name = NoName /\ w.wins = v.wins
    BY <2>2 DEF Workspace
  <2> QED BY <2>1, <2>3 DEF HasWindowsOrName
<1>5. Nearly(n1) /\ SameOutput(m, n1)
  BY <1>0, <1>2, <1>4, Emptied, RewrittenFacts
<1> QED BY <1>3, <1>5, CleanedUpIfIdle DEF SameOutput

\* With workspace i filled: its windows, and the output it now belongs to.
Filled(m, i, wins) ==
  [m EXCEPT !.ws[i].wins = @ \cup wins,
            !.ws[i].orig = IF m.ws[i].name = NoName THEN m.output ELSE @]

\* A workspace that gets windows is not blank, and the others are as they were.
LEMMA FilledFacts ==
  ASSUME NEW m, Formed(m), NEW i \in 1..Len(m.ws), NEW wins \in SUBSET Window, wins # {},
         NEW n, n = Filled(m, i, wins)
  PROVE  /\ Formed(n) /\ SameOutput(m, n) /\ Len(n.ws) = Len(m.ws)
         /\ n.active = m.active /\ n.panicked = m.panicked /\ n.sw = m.sw
         /\ HasWindowsOrName(n.ws[i]) /\ \A j \in 1..Len(m.ws) : j # i => n.ws[j] = m.ws[j]
<1>0. Formed(m) /\ m \in Monitor /\ m.ws[i] \in Workspace /\ m.output \in Output
  BY MonitorFields DEF Formed
<1>1. PICK w : w = [m.ws[i] EXCEPT !.wins = m.ws[i].wins \cup wins]
  OBVIOUS
<1>2. w \in Workspace /\ w.wins # {}
  <2>1. PICK v : v = m.ws[i]
    OBVIOUS
  <2>2. v \in Workspace /\ w = [v EXCEPT !.wins = v.wins \cup wins]
    BY <1>0, <1>1, <2>1
  <2>3. v.wins \cup wins \in SUBSET Window
    BY <2>2, WorkspaceFields
  <2>4. w.wins = v.wins \cup wins
    BY <2>2 DEF Workspace
  <2>5. w \in Workspace
    BY <2>2, <2>3, Zenon DEF Workspace
  <2> QED BY <2>4, <2>5
<1>3. PICK n1 : n1 = Rewritten(m, i, w)
  OBVIOUS
<1>4. /\ Formed(n1) /\ SameOutput(m, n1) /\ Len(n1.ws) = Len(m.ws)
      /\ n1.ws[i] = w /\ \A j \in 1..Len(m.ws) : j # i => n1.ws[j] = m.ws[j]
      /\ n1.active = m.active /\ n1.panicked = m.panicked /\ n1.sw = m.sw
  BY <1>0, <1>2, <1>3, RewrittenFacts
<1>5. PICK orig : orig = IF m.ws[i].name = NoName THEN m.output ELSE n1.ws[i].orig
  OBVIOUS
<1>6. PICK x : x = [w EXCEPT !.orig = orig]
  OBVIOUS
<1>7. x \in Workspace /\ HasWindowsOrName(x)
  <2>1. orig \in Output \cup {NoOutput}
    BY <1>0, <1>2, <1>4, <1>5, WorkspaceFields
  <2>2. x \in Workspace
    BY <1>2, <1>6, <2>1, Zenon DEF Workspace
  <2>3. x.wins = w.wins
    BY <1>2, <1>6 DEF Workspace
  <2> QED BY <1>2, <2>2, <2>3 DEF HasWindowsOrName
<1>8. n = Rewritten(n1, i, x)
  <2>1. n = [n1 EXCEPT !.ws[i].orig = orig]
    BY <1>1, <1>3, <1>5 DEF Filled, Rewritten
  <2> QED BY <1>4, <1>6, <2>1 DEF Rewritten
<1>9. i \in 1..Len(n1.ws)
  BY <1>4
<1>10. /\ Formed(n) /\ SameOutput(n1, n) /\ Len(n.ws) = Len(n1.ws)
       /\ n.ws[i] = x /\ \A j \in 1..Len(n1.ws) : j # i => n.ws[j] = n1.ws[j]
       /\ n.active = n1.active /\ n.panicked = n1.panicked /\ n.sw = n1.sw
  BY <1>4, <1>7, <1>8, <1>9, RewrittenFacts
<1> QED BY <1>4, <1>7, <1>10 DEF SameOutput

\* The workspace that is filled need not be excused for being blank before.
LEMMA EndsFilled ==
  ASSUME NEW m, Nearly(m), NEW i \in 1..Len(m.ws), NEW f, FilledAt(m, f, i),
         NEW e, NEW d \in 0..1, NEW c \in 0..1, Grown(f, e, i, d, c)
  PROVE  /\ Nearly(e) /\ SameOutput(m, e) /\ Len(e.ws) = Len(m.ws) + d + c
         /\ IdleBut(m, i) => Idle(e)
<1>0. /\ Formed(m) /\ Len(m.ws) \in Nat /\ m.active \in 1..Len(m.ws)
      /\ ~m.panicked /\ SpareEnds(m) /\ (m.eaf => Len(m.ws) < 2 \/ Len(m.ws) > 2) /\ SwitchFits(m)
  BY MonitorFields DEF Nearly, Ready, Formed
<1>2. /\ Formed(f) /\ SameOutput(m, f) /\ Len(f.ws) = Len(m.ws)
      /\ f.active = m.active /\ f.panicked = m.panicked /\ f.sw = m.sw
      /\ HasWindowsOrName(f.ws[i]) /\ \A j \in 1..Len(m.ws) : j # i => f.ws[j] = m.ws[j]
  BY DEF FilledAt
<1>6. /\ d = 1 <=> f.eaf /\ i = 1
      /\ c = 1 <=> i = Len(f.ws)
      /\ Formed(e) /\ SameOutput(f, e) /\ Len(e.ws) = Len(f.ws) + d + c
      /\ \A j \in 1..Len(f.ws) : e.ws[j + d] = f.ws[j]
      /\ d = 1 => Spare(e, e.ws[1])
      /\ c = 1 => Spare(e, e.ws[Len(e.ws)])
      /\ e.active = f.active + d /\ e.panicked = f.panicked
      /\ e.sw.kind = f.sw.kind /\ (SwitchFits(f) => SwitchFits(e))
  BY DEF Grown
<1>3. d = 1 <=> m.eaf /\ i = 1
  BY <1>2, <1>6 DEF SameOutput
<1>4. c = 1 <=> i = Len(m.ws)
  BY <1>2, <1>6
<1>7. SameOutput(m, e) /\ Len(e.ws) = Len(m.ws) + d + c /\ e.active = m.active + d
  BY <1>2, <1>6 DEF SameOutput
<1>8. ASSUME NEW j \in 1..Len(m.ws), j # i
      PROVE  /\ e.ws[j + d] = m.ws[j]
             /\ Spare(m, m.ws[j]) => Spare(e, e.ws[j + d])
  BY <1>2, <1>6, <1>7, <1>8 DEF Spare, SameOutput
<1>9. e.ws[i + d] = f.ws[i] /\ HasWindowsOrName(e.ws[i + d])
  BY <1>2, <1>6
<1>10. Spare(e, e.ws[Len(e.ws)])
  <2>1. CASE c = 1
    BY <1>6, <2>1
  <2>2. CASE c = 0
    <3>1. Len(m.ws) \in 1..Len(m.ws) /\ Len(m.ws) # i /\ Len(e.ws) = Len(m.ws) + d
      BY <1>0, <1>4, <1>7, <2>2
    <3> QED BY <1>0, <1>8, <3>1 DEF SpareEnds
  <2> QED BY <2>1, <2>2
<1>11. ASSUME e.eaf PROVE Spare(e, e.ws[1]) /\ Len(e.ws) > 2
  <2>0. m.eaf /\ (Len(m.ws) < 2 \/ Len(m.ws) > 2)
    BY <1>0, <1>7, <1>11 DEF SameOutput
  <2>1. CASE d = 1
    <3>1. Len(m.ws) < 2 => c = 1
      <4>1. PICK len \in Nat : len = Len(m.ws)
        BY <1>0
      <4>2. i \in 1..len /\ (c = 1 <=> i = len)
        BY <1>4, <4>1
      <4>3. len < 2 => i = len
        BY <4>2
      <4> QED BY <4>1, <4>2, <4>3
    <3>2. Len(e.ws) = Len(m.ws) + 1 + c /\ Spare(e, e.ws[1])
      BY <1>6, <1>7, <2>1
    <3> QED BY <1>0, <2>0, <3>1, <3>2
  <2>2. CASE d = 0
    <3>1. 1 \in 1..Len(m.ws) /\ 1 # i /\ Len(m.ws) > 1 /\ 1 + d = 1
      BY <1>0, <1>3, <2>0, <2>2
    <3>2. Spare(e, e.ws[1])
      BY <1>0, <1>8, <2>0, <3>1 DEF SpareEnds
    <3>3. Len(m.ws) > 2
      BY <1>0, <2>0, <3>1
    <3>4. Len(e.ws) = Len(m.ws) + c
      BY <1>0, <1>7, <2>2
    <3> QED BY <1>0, <3>2, <3>3, <3>4
  <2> QED BY <2>1, <2>2
<1>12. Nearly(e)
  BY <1>0, <1>2, <1>6, <1>10, <1>11 DEF Nearly, Ready, SpareEnds, SwitchFits
<1>13. ASSUME IdleBut(m, i) PROVE Idle(e)
  <2>1. SUFFICES ASSUME e.sw.kind = "none", NEW k \in 1..Len(e.ws) PROVE Excused(e, k)
    BY DEF Idle
  <2>2. \A j \in 1..Len(m.ws) : j # i => Excused(m, j)
    BY <1>2, <1>6, <1>13, <2>1 DEF IdleBut
  <2>3. CASE k - d \in 1..Len(m.ws)
    <3>1. PICK j : j = k - d
      OBVIOUS
    <3>2. j \in 1..Len(m.ws) /\ k = j + d
      BY <2>1, <2>3, <3>1
    <3>3. CASE j = i
      BY <1>9, <3>2, <3>3 DEF Excused
    <3>4. CASE j # i
      <4>1. Excused(m, j) /\ e.ws[k] = m.ws[j]
        BY <1>8, <2>2, <3>2, <3>4
      <4>2. j = m.active => k = e.active
        BY <1>7, <3>2
      <4>3. j = Len(m.ws) => k = Len(e.ws)
        BY <1>0, <1>4, <1>7, <3>2, <3>4
      <4>4. m.eaf /\ j = 1 => e.eaf /\ k = 1
        BY <1>3, <1>7, <3>2, <3>4 DEF SameOutput
      <4> QED BY <4>1, <4>2, <4>3, <4>4 DEF Excused, AtEnd
    <3> QED BY <3>3, <3>4
  <2>4. CASE ~(k - d \in 1..Len(m.ws))
    <3>1. k = Len(e.ws) \/ (d = 1 /\ k = 1)
      BY <1>0, <1>7, <2>1, <2>4
    <3>2. d = 1 => e.eaf
      BY <1>3, <1>7 DEF SameOutput
    <3> QED BY <3>1, <3>2 DEF Excused, AtEnd
  <2> QED BY <2>3, <2>4
<1> QED BY <1>7, <1>12, <1>13

\* add_tile and add_column keep the ends blank, and the workspace that gets the
\* windows need not be excused for being blank before.
LEMMA WindowsAdded ==
  ASSUME NEW m, Nearly(m), NEW i \in 1..Len(m.ws), NEW wins \in SUBSET Window, wins # {},
         NEW activate \in BOOLEAN, NEW id \in Id, NEW n, n = AddWindows(m, i, wins, activate, id)
  PROVE  Nearly(n) /\ SameOutput(m, n) /\ (IdleBut(m, i) => Idle(n))
<1>0. Formed(m) /\ Len(m.ws) \in Nat
  BY MonitorFields DEF Nearly, Ready, Formed
<1>1. PICK f : f = Filled(m, i, wins)
  OBVIOUS
<1>2. FilledAt(m, f, i)
  BY <1>0, <1>1, FilledFacts DEF FilledAt
<1>3. Formed(f) /\ i \in 1..Len(f.ws) /\ (f.eaf <=> m.eaf)
  BY <1>2 DEF FilledAt, SameOutput
<1>4. PICK e : e = KeepEnds(f, i, id)
  OBVIOUS
<1>5. PICK d \in 0..1, c \in 0..1 : Grown(f, e, i, d, c) /\ AfterTop(f, i) = i + d
  BY <1>3, <1>4, EndsKept
<1>6. /\ Nearly(e) /\ SameOutput(m, e) /\ Len(e.ws) = Len(m.ws) + d + c
      /\ IdleBut(m, i) => Idle(e)
  BY <1>2, <1>5, EndsFilled
<1>7. CASE ~activate
  BY <1>1, <1>4, <1>6, <1>7 DEF AddWindows, Filled
<1>8. CASE activate
  <2>1. PICK a : a = AfterTop(m, i)
    OBVIOUS
  <2>2. a = i + d
    BY <1>3, <1>5, <2>1 DEF AfterTop
  <2>3. a \in 1..Len(e.ws)
    BY <1>0, <1>6, <2>2
  <2>4. n = ActivateWorkspace(e, a)
    BY <1>1, <1>4, <1>8, <2>1 DEF AddWindows, Filled
  <2> QED BY <1>6, <2>3, <2>4, SwitchedTo DEF SameOutput
<1> QED BY <1>7, <1>8

\* Whether a workspace may be kept at an end depends on the output only.
LEMMA SpareAlike ==
  ASSUME NEW m, NEW n, SameOutput(m, n), NEW w
  PROVE  Spare(m, w) <=> Spare(n, w)
  BY DEF Spare, SameOutput

\* Other workspaces, and another one active; nothing else changes.
Rearrange(m, ws, a) == [m EXCEPT !.ws = ws, !.active = a]

\* Rearranging the workspaces changes nothing else of a monitor.
LEMMA Rearranged ==
  ASSUME NEW m, Formed(m), NEW ws \in Seq(Workspace), NEW a \in 1..Len(ws),
         NEW n, n = Rearrange(m, ws, a)
  PROVE  /\ Formed(n) /\ SameOutput(m, n) /\ n.ws = ws /\ n.active = a
         /\ n.panicked = m.panicked /\ n.sw = m.sw
<1>1. m \in Monitor /\ a \in Nat /\ n = [m EXCEPT !.ws = ws, !.active = a]
  BY DEF Formed, Rearrange
<1>2. n \in Monitor
  BY <1>1, Zenon DEF Monitor
<1>3. /\ SameOutput(m, n) /\ n.ws = ws /\ n.active = a
      /\ n.panicked = m.panicked /\ n.sw = m.sw
  BY <1>1 DEF Monitor, SameOutput
<1> QED BY <1>2, <1>3 DEF Formed

\* remove_workspace_by_idx
LEMMA WorkspaceRemoved ==
  ASSUME NEW m, Ready(m), NEW i \in 1..Len(m.ws), NEW id \in Id,
         NEW n, n = RemoveWorkspace(m, i, id)
  PROVE  Sound(n) /\ SameOutput(m, n)
<1>0. Formed(m) /\ ~m.panicked /\ SpareEnds(m)
  BY DEF Ready
<1>1. PICK len \in Nat : len = Len(m.ws)
  BY <1>0, MonitorFields DEF Formed
<1>2. i \in 1..len /\ m.active \in 1..len
  BY <1>0, <1>1 DEF Formed
<1>3. PICK e : e = KeepEnds(m, i, id)
  OBVIOUS
<1>e. PICK d \in 0..1, c \in 0..1 : Grown(m, e, i, d, c) /\ AfterTop(m, i) = i + d
  BY <1>0, <1>3, EndsKept
<1>4. /\ d = 1 <=> m.eaf /\ i = 1
      /\ c = 1 <=> i = Len(m.ws)
      /\ Formed(e) /\ SameOutput(m, e) /\ Len(e.ws) = Len(m.ws) + d + c
      /\ \A j \in 1..Len(m.ws) : e.ws[j + d] = m.ws[j]
      /\ d = 1 => Spare(e, e.ws[1])
      /\ c = 1 => Spare(e, e.ws[Len(e.ws)])
      /\ e.active = m.active + d /\ e.panicked = m.panicked
      /\ e.sw.kind = m.sw.kind /\ (SwitchFits(m) => SwitchFits(e))
      /\ AfterTop(m, i) = i + d
  BY <1>e DEF Grown
<1>5. PICK at : at = i + d
  OBVIOUS
<1>6. PICK r : r = RemoveAt(e.ws, at)
  OBVIOUS
<1>7. /\ r \in Seq(Workspace) /\ Len(r) = len + d + c - 1
      /\ \A j \in 1..(len + d + c - 1) : r[j] = IF j < at THEN e.ws[j] ELSE e.ws[j + 1]
  <2>1. PICK s : s = e.ws
    OBVIOUS
  <2>2. s \in Seq(Workspace) /\ Len(s) = len + d + c
    BY <1>1, <1>4, <2>1, MonitorFields DEF Formed
  <2>3. at \in 1..Len(s)
    BY <1>2, <1>5, <2>2
  <2>4. RemoveAt(s, at) \in Seq(Workspace) /\ WithRemoved(RemoveAt(s, at), s, at)
    BY <2>2, <2>3, Removed, Zenon
  <2> QED BY <1>6, <2>1, <2>2, <2>4 DEF WithRemoved
<1>8. PICK a : a = IF at <= e.active /\ e.active > 1 THEN e.active - 1 ELSE e.active
  OBVIOUS
<1>9. a \in 1..Len(r)
  <2>1. PICK b \in 1..(len + d) : b = e.active
    <3>1. m.active + d \in 1..(len + d)
      BY <1>2
    <3> QED BY <1>4, <3>1
  <2>2. a = IF at <= b /\ b > 1 THEN b - 1 ELSE b
    BY <1>8, <2>1
  <2>3. c = 1 <=> i = len
    BY <1>1, <1>4
  <2>4. a \in 1..(len + d + c - 1)
    BY <1>2, <1>5, <2>2, <2>3
  <2> QED BY <1>7, <2>4
<1>10. Spare(m, r[Len(r)])
  <2>1. CASE c = 1
    <3>1. i = len
      BY <1>1, <1>4, <2>1
    <3>2. len + d \in 1..(len + d + c - 1) /\ ~(len + d < at) /\ len + d = len + d + c - 1
      BY <1>2, <1>5, <2>1, <3>1
    <3>3. r[len + d] = e.ws[len + d + 1] /\ Len(e.ws) = len + d + 1
      BY <1>1, <1>4, <1>7, <2>1, <3>2
    <3> QED BY <1>4, <1>7, <2>1, <3>2, <3>3, SpareAlike
  <2>2. CASE c = 0
    <3>1. i < len
      BY <1>1, <1>2, <1>4, <2>2
    <3>2. PICK j : j = len + d - 1
      OBVIOUS
    <3>3. j \in 1..(len + d + c - 1) /\ ~(j < at) /\ j = len + d + c - 1 /\ j + 1 = len + d
      BY <1>2, <1>5, <2>2, <3>1, <3>2
    <3>4. r[j] = e.ws[len + d]
      BY <1>7, <3>3
    <3>5. len \in 1..Len(m.ws) /\ e.ws[len + d] = m.ws[len]
      <4>1. \A k \in 1..Len(m.ws) : e.ws[k + d] = m.ws[k]
        BY <1>4
      <4>2. len \in 1..Len(m.ws)
        BY <1>1, <1>2
      <4> QED BY <4>1, <4>2
    <3> QED BY <1>0, <1>1, <1>7, <3>3, <3>4, <3>5 DEF SpareEnds
  <2> QED BY <2>1, <2>2
<1>11. ASSUME m.eaf PROVE Spare(m, r[1])
  <2>1. 1 \in 1..Len(m.ws) /\ 1 \in 1..(len + d + c - 1) /\ 1 < at
    BY <1>1, <1>2, <1>4, <1>5, <1>11
  <2>2. r[1] = e.ws[1]
    BY <1>7, <2>1
  <2>3. CASE d = 1
    BY <1>4, <2>2, <2>3, SpareAlike
  <2>4. CASE d = 0
    <3>1. e.ws[1] = m.ws[1]
      BY <1>4, <2>1, <2>4
    <3> QED BY <1>0, <1>11, <2>2, <3>1 DEF SpareEnds
  <2> QED BY <2>3, <2>4
<1>12. PICK x : x = Rearrange(e, r, a)
  OBVIOUS
<1>13. n = Settle(x)
  BY <1>3, <1>4, <1>5, <1>6, <1>8, <1>12 DEF RemoveWorkspace, Rearrange
<1>14. Formed(x) /\ SameOutput(e, x) /\ x.ws = r /\ x.panicked = e.panicked
  BY <1>4, <1>7, <1>9, <1>12, Rearranged
<1>15. SameOutput(m, x)
  BY <1>4, <1>14 DEF SameOutput
<1>16. Ready(x)
  BY <1>0, <1>4, <1>10, <1>11, <1>14, <1>15, SpareAlike DEF Ready, SpareEnds, SameOutput
<1> QED BY <1>13, <1>15, <1>16, Settled DEF SameOutput

\* insert_workspace never inserts at an end that has to stay blank.
LEMMA WorkspaceInserted ==
  ASSUME NEW m, Ready(m), NEW w \in Workspace, NEW idx \in 1..(Len(m.ws) + 1),
         NEW activate \in BOOLEAN, NEW id \in Id,
         NEW n, n = InsertWorkspace(m, w, idx, activate, id)
  PROVE  Sound(n) /\ SameOutput(m, n)
<1>0. Formed(m) /\ ~m.panicked /\ SpareEnds(m)
  BY DEF Ready
<1>1. PICK len \in Nat : len = Len(m.ws)
  BY <1>0, MonitorFields DEF Formed
<1>2. m.active \in 1..len /\ idx \in 1..(len + 1)
  BY <1>0, <1>1 DEF Formed
<1>3. PICK i0 : i0 = IF idx = Len(m.ws) + 1 THEN idx - 1 ELSE idx
  OBVIOUS
<1>4. i0 \in 1..len
  BY <1>1, <1>2, <1>3
<1>5. PICK m1 : m1 = IF i0 = 1 /\ m.eaf THEN AddWorkspaceTop(m, id) ELSE m
  OBVIOUS
<1>6. PICK i : i = IF i0 = 1 /\ m.eaf THEN 2 ELSE i0
  OBVIOUS
<1>7. /\ Ready(m1) /\ SameOutput(m, m1) /\ i \in 1..Len(m1.ws)
      /\ m.eaf => i > 1
  <2>1. CASE i0 = 1 /\ m.eaf
    <3>2. /\ Formed(m1) /\ SameOutput(m, m1) /\ Len(m1.ws) = Len(m.ws) + 1
          /\ m1.ws[Len(m1.ws)] = m.ws[Len(m.ws)]
          /\ Spare(m1, m1.ws[1]) /\ m1.panicked = m.panicked
      BY <1>0, <1>5, <2>1, AddedTop
    <3>3. m1.ws[len + 1] = m.ws[len] /\ Len(m1.ws) = len + 1
      BY <1>1, <3>2
    <3>4. Ready(m1)
      BY <1>0, <1>1, <3>2, <3>3, SpareAlike DEF Ready, SpareEnds
    <3>5. i = 2
      BY <1>6, <2>1
    <3> QED BY <1>4, <3>2, <3>3, <3>4, <3>5
  <2>2. CASE ~(i0 = 1 /\ m.eaf)
    <3>1. m1 = m /\ i = i0
      BY <1>5, <1>6, <2>2
    <3> QED BY <1>1, <1>4, <2>2, <3>1 DEF SameOutput
  <2> QED BY <2>1, <2>2
<1>8. PICK len1 \in Nat : len1 = Len(m1.ws)
  BY <1>7, MonitorFields DEF Ready, Formed
<1>9. PICK s : s = InsertAt(m1.ws, i, w)
  OBVIOUS
<1>10. /\ s \in Seq(Workspace) /\ Len(s) = len1 + 1
       /\ \A j \in 1..(len1 + 1) :
            s[j] = IF j < i THEN m1.ws[j] ELSE IF j = i THEN w ELSE m1.ws[j - 1]
  <2>1. PICK v : v = m1.ws
    OBVIOUS
  <2>2. v \in Seq(Workspace) /\ i \in 1..(Len(v) + 1)
    BY <1>7, <1>8, <2>1, MonitorFields DEF Ready, Formed
  <2>3. InsertAt(v, i, w) \in Seq(Workspace) /\ WithInserted(InsertAt(v, i, w), v, i, w)
    BY <2>2, Inserted, Zenon
  <2> QED BY <1>8, <1>9, <2>1, <2>3 DEF WithInserted
<1>11. PICK a : a = IF i <= m1.active THEN m1.active + 1 ELSE m1.active
  OBVIOUS
<1>12. a \in 1..Len(s) /\ i \in 1..Len(s)
  <2>1. m1.active \in 1..len1 /\ i \in 1..len1
    BY <1>7, <1>8 DEF Ready, Formed
  <2> QED BY <1>10, <1>11, <2>1
<1>13. Spare(m1, s[Len(s)])
  <2>1. PICK k : k = len1 + 1
    OBVIOUS
  <2>2. k \in 1..(len1 + 1) /\ ~(k < i) /\ k # i /\ k - 1 = len1
    BY <1>7, <1>8, <2>1
  <2>3. s[Len(s)] = m1.ws[len1]
    BY <1>10, <2>1, <2>2
  <2> QED BY <1>7, <1>8, <2>3 DEF Ready, SpareEnds
<1>14. ASSUME m1.eaf PROVE Spare(m1, s[1])
  <2>1. 1 \in 1..(len1 + 1) /\ 1 < i
    BY <1>7, <1>8, <1>14 DEF SameOutput
  <2>2. s[1] = m1.ws[1]
    BY <1>10, <2>1
  <2> QED BY <1>7, <1>14, <2>2 DEF Ready, SpareEnds
<1>15. PICK m2 : m2 = Rearrange(m1, s, a)
  OBVIOUS
<1>16. Formed(m2) /\ SameOutput(m1, m2) /\ m2.ws = s /\ m2.panicked = m1.panicked
  BY <1>7, <1>10, <1>12, <1>15, Rearranged DEF Ready
<1>17. Ready(m2)
  BY <1>7, <1>13, <1>14, <1>16, SpareAlike DEF Ready, SpareEnds, SameOutput
<1>18. PICK still : still = [m2 EXCEPT !.sw = NoSwitch]
  OBVIOUS
<1>19. Ready(still) /\ SameOutput(m2, still) /\ still.ws = s
  BY <1>16, <1>17, <1>18, SwitchSet, SwitchesAtRest
<1>20. PICK m3 : m3 = IF activate THEN ActivateWorkspace(still, i) ELSE m2
  OBVIOUS
<1>21. Ready(m3) /\ SameOutput(m2, m3)
  <2>1. CASE activate
    <3>1. /\ Formed(m3) /\ SameOutput(still, m3) /\ m3.ws = still.ws
          /\ m3.panicked = still.panicked
      BY <1>12, <1>19, <1>20, <2>1, Activated DEF Ready
    <3> QED BY <1>19, <3>1, SpareAlike DEF Ready, SpareEnds, SameOutput
  <2>2. CASE ~activate
    BY <1>17, <1>20, <2>2 DEF SameOutput
  <2> QED BY <2>1, <2>2
<1>22. n = Settle(m3)
  BY <1>3, <1>5, <1>6, <1>9, <1>11, <1>15, <1>18, <1>20 DEF InsertWorkspace, Rearrange
<1> QED BY <1>7, <1>16, <1>21, <1>22, Settled DEF SameOutput

\* append_workspaces, for workspaces that are not blank.
LEMMA WorkspacesAppended ==
  ASSUME NEW m, Sound(m), NEW added \in Seq(Workspace),
         \A i \in 1..Len(added) : HasWindowsOrName(added[i]), NEW id \in Id,
         NEW n, n = AppendWorkspaces(m, added, id)
  PROVE  Sound(n) /\ SameOutput(m, n) /\ Continues(m, added, n) /\ ShowsAs(m, n)
<1>0. Formed(m) /\ ~m.panicked /\ SpareEnds(m)
  BY DEF Sound, Nearly, Ready
<1>1. PICK len \in Nat : len = Len(m.ws)
  BY <1>0, MonitorFields DEF Formed
<1>2. PICK more \in Nat : more = Len(added)
  OBVIOUS
<1>3. m.active \in 1..len
  BY <1>0, <1>1 DEF Formed
<1>4. CASE added = <<>>
  <2>1. n = m
    BY <1>4 DEF AppendWorkspaces
  <2>2. ASSUME NEW C \in SUBSET Full PROVE Only(m.ws, C) = Only(m.ws, C) \o Only(added, C)
    <3>1. Only(added, C) = <<>>
      <4>1. \A i \in 1..Len(added) : added[i] \notin C
        BY <1>4
      <4>2. added \in Seq(Workspace)
        OBVIOUS
      <4> QED BY <4>1, <4>2, OnlyNone, Zenon
    <3>2. PICK s, t : s = m.ws /\ t = Only(s, C)
      OBVIOUS
    <3>3. s \in Seq(Workspace)
      BY <1>0, <3>2, MonitorFields DEF Formed
    <3>4. t \in Seq(Workspace)
      BY <3>2, <3>3, OnlyHas
    <3>5. t \o <<>> = t
      BY <3>4, ConcatEmptySeq
    <3> QED BY <3>1, <3>2, <3>5
  <2> QED BY <2>1, <2>2 DEF SameOutput, Continues, ShowsAs
<1>5. CASE added # <<>>
  <2>0. more > 0
    <3>1. Len(added) # 0
      BY <1>5, EmptySeq
    <3> QED BY <1>2, <3>1
  <2>1. PICK s, p, q : s = m.ws /\ p = SubSeq(m.ws, 1, Len(m.ws) - 1) /\ q = p \o added
    OBVIOUS
  <2>2. PICK ws : ws = q \o <<m.ws[Len(m.ws)]>>
    OBVIOUS
  <2>3. s \in Seq(Workspace) /\ Len(s) = len /\ m.ws[len] \in Workspace
    <3>1. len \in 1..Len(m.ws)
      BY <1>1, <1>3
    <3> QED BY <1>0, <1>1, <2>1, <3>1, MonitorFields DEF Formed
  <2>4. p \in Seq(Workspace) /\ Len(p) = len - 1 /\ \A j \in 1..(len - 1) : p[j] = s[j]
    <3>1. 1 \in 1..(Len(s) + 1) /\ len - 1 \in 0..Len(s) /\ 1 <= (len - 1) + 1
      BY <1>3, <2>3
    <3>2. /\ SubSeq(s, 1, len - 1) \in Seq(Workspace)
          /\ Len(SubSeq(s, 1, len - 1)) = (len - 1) - 1 + 1
          /\ \A j \in 1..((len - 1) - 1 + 1) : SubSeq(s, 1, len - 1)[j] = s[1 + j - 1]
      BY <2>3, <3>1, Part
    <3>3. p = SubSeq(s, 1, len - 1)
      BY <1>1, <2>1
    <3>4. (len - 1) - 1 + 1 = len - 1 /\ \A j \in Int : 1 + j - 1 = j
      OBVIOUS
    <3> QED BY <3>2, <3>3, <3>4
  <2>5. /\ q \in Seq(Workspace) /\ Len(q) = len - 1 + more
        /\ \A j \in 1..(len - 1 + more) : q[j] = IF j <= len - 1 THEN p[j] ELSE added[j - (len - 1)]
    <3>1. /\ q \in Seq(Workspace) /\ Len(q) = Len(p) + Len(added)
          /\ \A j \in 1..(Len(p) + Len(added)) : q[j] = IF j <= Len(p) THEN p[j] ELSE added[j - Len(p)]
      BY <2>1, <2>4, ConcatProperties
    <3> QED BY <1>2, <2>4, <3>1
  <2>6. PICK last : last = <<m.ws[Len(m.ws)]>>
    OBVIOUS
  <2>7. last \in Seq(Workspace) /\ Len(last) = 1 /\ last[1] = m.ws[len]
    BY <1>1, <2>3, <2>6
  <2>8. /\ ws \in Seq(Workspace) /\ Len(ws) = len + more
        /\ \A j \in 1..(len + more) : ws[j] = IF j <= len - 1 + more THEN q[j] ELSE last[j - (len - 1 + more)]
    <3>1. /\ ws \in Seq(Workspace) /\ Len(ws) = Len(q) + Len(last)
          /\ \A j \in 1..(Len(q) + Len(last)) : ws[j] = IF j <= Len(q) THEN q[j] ELSE last[j - Len(q)]
      BY <2>2, <2>5, <2>6, <2>7, ConcatProperties
    <3>2. Len(q) + Len(last) = len + more
      BY <1>3, <2>5, <2>7
    <3> QED BY <2>5, <3>1, <3>2
  <2>9. ws[len + more] = m.ws[len]
    <3>1. PICK k : k = len + more
      OBVIOUS
    <3>2. k \in 1..(len + more) /\ ~(k <= len - 1 + more) /\ k - (len - 1 + more) = 1
      BY <1>3, <3>1
    <3> QED BY <2>7, <2>8, <3>1, <3>2
  <2>10. len > 1 => ws[1] = m.ws[1]
    <3>1. ASSUME len > 1
          PROVE  1 \in 1..(len + more) /\ 1 \in 1..(len - 1 + more) /\ 1 \in 1..(len - 1)
      BY <3>1
    <3>2. ASSUME len > 1 PROVE 1 <= len - 1 /\ 1 <= len - 1 + more
      BY <3>2
    <3> QED BY <2>1, <2>4, <2>5, <2>8, <3>1, <3>2
  <2>11. len = 1 => ws[1] = added[1] /\ 1 \in 1..Len(added)
    <3>1. ASSUME len = 1
          PROVE  /\ 1 \in 1..(len + more) /\ 1 \in 1..(len - 1 + more) /\ 1 <= len - 1 + more
                 /\ ~(1 <= len - 1) /\ 1 - (len - 1) = 1 /\ 1 \in 1..Len(added)
      BY <1>2, <2>0, <3>1
    <3> QED BY <2>5, <2>8, <3>1
  <2>12. PICK m1 : m1 = Rearrange(m, ws, m.active)
    OBVIOUS
  <2>13. Formed(m1) /\ SameOutput(m, m1) /\ m1.ws = ws /\ m1.panicked = m.panicked /\ m1.active = m.active
    <3>1. m.active \in 1..Len(ws)
      BY <1>3, <2>8
    <3> QED BY <1>0, <2>8, <2>12, <3>1, Rearranged
  <2>14. PICK m2 : m2 = IF m1.eaf /\ HasWindowsOrName(m1.ws[1]) THEN AddWorkspaceTop(m1, id) ELSE m1
    OBVIOUS
  <2>15. Ready(m2) /\ SameOutput(m, m2)
    <3>1. CASE m1.eaf /\ HasWindowsOrName(m1.ws[1])
      <4>2. /\ Formed(m2) /\ SameOutput(m1, m2) /\ Len(m2.ws) = Len(m1.ws) + 1
            /\ m2.ws[Len(m2.ws)] = m1.ws[Len(m1.ws)]
            /\ Spare(m2, m2.ws[1]) /\ m2.panicked = m1.panicked
        BY <2>13, <2>14, <3>1, AddedTop
      <4>5. m2.ws[Len(m2.ws)] = m.ws[len]
        BY <2>8, <2>9, <2>13, <4>2
      <4>6. SameOutput(m, m2)
        BY <2>13, <4>2 DEF SameOutput
      <4> QED BY <1>0, <1>1, <2>13, <4>2, <4>5, <4>6, SpareAlike DEF Ready, SpareEnds
    <3>2. CASE ~(m1.eaf /\ HasWindowsOrName(m1.ws[1]))
      <4>1. m2 = m1
        BY <2>14, <3>2
      <4>2. Spare(m, ws[Len(ws)])
        BY <1>0, <1>1, <2>8, <2>9 DEF SpareEnds
      <4>3. ASSUME m.eaf PROVE Spare(m, ws[1])
        <5>1. len > 1
          <6>1. ~HasWindowsOrName(ws[1])
            BY <2>13, <3>2, <4>3 DEF SameOutput
          <6>2. len # 1
            BY <2>11, <6>1
          <6> QED BY <1>3, <6>2
        <5> QED BY <1>0, <2>10, <4>3, <5>1 DEF SpareEnds
      <4> QED BY <1>0, <2>13, <4>1, <4>2, <4>3, SpareAlike DEF Ready, SpareEnds, SameOutput
    <3> QED BY <3>1, <3>2
  <2>16. PICK m3 : m3 = IF m.active = Len(m.ws) THEN [m2 EXCEPT !.active = Len(m2.ws)] ELSE m2
    OBVIOUS
  <2>17. Ready(m3) /\ SameOutput(m, m3)
    <3>1. CASE m.active = Len(m.ws)
      <4>1. /\ m3 = [m2 EXCEPT !.active = Len(m2.ws)] /\ m2 \in Monitor
            /\ Len(m2.ws) \in Nat /\ Len(m2.ws) \in 1..Len(m2.ws)
        BY <2>15, <2>16, <3>1, MonitorFields DEF Ready, Formed
      <4>2. m3 \in Monitor
        BY <4>1, Zenon DEF Monitor
      <4>3. SameOutput(m2, m3) /\ m3.ws = m2.ws /\ m3.panicked = m2.panicked /\ m3.active = Len(m2.ws)
        BY <4>1 DEF Monitor, SameOutput
      <4> QED BY <2>15, <4>1, <4>2, <4>3, SpareAlike DEF Ready, SpareEnds, Formed, SameOutput
    <3>2. CASE m.active # Len(m.ws)
      BY <2>15, <2>16, <3>2
    <3> QED BY <3>1, <3>2
  <2>18. m1 = [m EXCEPT !.ws = ws]
    <3>1. m \in Monitor
      BY <1>0 DEF Formed
    <3> QED BY <2>12, <3>1 DEF Rearrange, Monitor
  <2>19. n = Settle(m3)
    <3> DEFINE Top(x) == IF x.eaf /\ HasWindowsOrName(x.ws[1]) THEN AddWorkspaceTop(x, id) ELSE x
               Bottom(x) == IF m.active = Len(m.ws) THEN [x EXCEPT !.active = Len(x.ws)] ELSE x
               More == [m EXCEPT !.ws = SubSeq(m.ws, 1, Len(m.ws) - 1) \o added \o <<m.ws[Len(m.ws)]>>]
    <3>1. n = Settle(Bottom(Top(More)))
      BY <1>5, Zenon DEF AppendWorkspaces
    <3>2. More = m1
      BY <2>1, <2>2, <2>18
    <3> HIDE DEF More, Top, Bottom
    <3>3. n = Settle(Bottom(Top(m1)))
      BY <3>1, <3>2, Zenon
    <3>4. Top(m1) = m2
      BY <2>14 DEF Top
    <3>5. Bottom(m2) = m3
      BY <2>16 DEF Bottom
    <3> QED BY <3>3, <3>4, <3>5, Zenon
  <2>20. Sound(n) /\ SameOutput(m3, n) /\ SameFull(m3, n) /\ ShowsAs(m3, n)
    BY <2>17, <2>19, Settled
  <2>21. m3.ws = m2.ws /\ (m.active # len => m3.active = m2.active)
    <3>1. CASE m.active = Len(m.ws)
      <4>1. m3 = [m2 EXCEPT !.active = Len(m2.ws)] /\ m2 \in Monitor
        BY <2>15, <2>16, <3>1 DEF Ready, Formed
      <4> QED BY <1>1, <3>1, <4>1 DEF Monitor
    <3>2. CASE m.active # Len(m.ws)
      BY <1>1, <2>16, <3>2
    <3> QED BY <3>1, <3>2
  <2>22. m2.ws[m2.active] = ws[m.active]
    <3>1. CASE m1.eaf /\ HasWindowsOrName(m1.ws[1])
      <4>1. m2.active = m1.active + 1 /\ \A j \in 1..Len(m1.ws) : m2.ws[j + 1] = m1.ws[j]
        BY <2>13, <2>14, <3>1, AddedTop
      <4>2. m1.active \in 1..Len(m1.ws)
        BY <2>13 DEF Formed
      <4> QED BY <2>13, <4>1, <4>2
    <3>2. CASE ~(m1.eaf /\ HasWindowsOrName(m1.ws[1]))
      BY <2>13, <2>14, <3>2
    <3> QED BY <3>1, <3>2
  <2>23. ShowsAs(m, n)
    <3>1. CASE m.active = len
      <4>1. ~HasWindowsOrName(m.ws[m.active])
        BY <1>0, <1>1, <3>1 DEF SpareEnds, Spare, IsBlank
      <4> QED BY <4>1 DEF ShowsAs
    <3>2. CASE m.active # len
      <4>1. PICK i : i = m.active
        OBVIOUS
      <4>2. i \in 1..(len - 1) /\ i \in 1..(len - 1 + more) /\ i \in 1..(len + more)
            /\ i <= len - 1 /\ i <= len - 1 + more
        BY <1>3, <3>2, <4>1
      <4>3. ws[i] = q[i] /\ q[i] = p[i] /\ p[i] = s[i]
        BY <2>4, <2>5, <2>8, <4>2
      <4>4. ws[m.active] = m.ws[m.active]
        BY <2>1, <4>1, <4>3
      <4> QED BY <2>20, <2>21, <2>22, <3>2, <4>4 DEF ShowsAs
    <3> QED BY <3>1, <3>2
  <2>24. ASSUME NEW C \in SUBSET Full PROVE Only(n.ws, C) = Only(m.ws, C) \o Only(added, C)
    <3>0. \A v \in C : v \in Workspace /\ HasWindowsOrName(v)
      BY DEF Full
    <3>1. Only(n.ws, C) = Only(m2.ws, C)
      BY <2>20, <2>21 DEF SameFull
    <3>2. Only(m2.ws, C) = Only(ws, C)
      <4>1. CASE m1.eaf /\ HasWindowsOrName(m1.ws[1])
        <5>1. PICK t, one, e : t = m2.ws /\ one = 1 /\ e = t[1]
          OBVIOUS
        <5>2. /\ Formed(m2) /\ Len(m2.ws) = Len(m1.ws) + 1
              /\ \A j \in 1..Len(m1.ws) : m2.ws[j + 1] = m1.ws[j]
              /\ Spare(m2, m2.ws[1])
          BY <2>13, <2>14, <4>1, AddedTop
        <5>3. t \in Seq(Workspace) /\ Len(t) = Len(ws) + 1 /\ e \notin C
              /\ \A j \in 1..Len(ws) : t[j + 1] = ws[j]
          BY <2>13, <3>0, <5>1, <5>2, MonitorFields DEF Formed, Spare, IsBlank
        <5>4. ASSUME NEW j \in 1..(Len(ws) + 1)
              PROVE  t[j] = IF j < one THEN ws[j] ELSE IF j = one THEN e ELSE ws[j - 1]
          <6>1. CASE j = 1
            BY <5>1, <6>1
          <6>2. CASE j # 1
            <7>1. PICK k : k = j - 1
              OBVIOUS
            <7>2. k \in 1..Len(ws) /\ k + 1 = j
              BY <2>8, <6>2, <7>1
            <7>3. t[k + 1] = ws[k]
              BY <5>3, <7>2
            <7> QED BY <5>1, <6>2, <7>1, <7>2, <7>3
          <6> QED BY <6>1, <6>2
        <5>5. WithInserted(t, ws, one, e)
          BY <5>3, <5>4 DEF WithInserted
        <5>6. one \in 1..(Len(ws) + 1)
          BY <2>8, <5>1
        <5>7. Only(t, C) = Only(ws, C)
          <6>1. ws \in Seq(Workspace) /\ t \in Seq(Workspace) /\ e \notin C
            BY <2>8, <5>3
          <6> QED BY <5>5, <5>6, <6>1, OnlyInserted
        <5> QED BY <5>1, <5>7
      <4>2. CASE ~(m1.eaf /\ HasWindowsOrName(m1.ws[1]))
        BY <2>13, <2>14, <4>2
      <4> QED BY <4>1, <4>2
    <3>3. Only(ws, C) = Only(q, C) \o Only(last, C)
      <4>1. q \in Seq(Workspace) /\ last \in Seq(Workspace)
        BY <2>5, <2>7
      <4>2. Only(q \o last, C) = Only(q, C) \o Only(last, C)
        BY <4>1, OnlyJoined
      <4> QED BY <2>2, <2>6, <4>2, Zenon
    <3>4. Only(q, C) = Only(p, C) \o Only(added, C)
      <4>1. p \in Seq(Workspace) /\ added \in Seq(Workspace)
        BY <2>4
      <4>2. Only(p \o added, C) = Only(p, C) \o Only(added, C)
        BY <4>1, OnlyJoined
      <4> QED BY <2>1, <4>2, Zenon
    <3>5. Only(last, C) = <<>>
      <4>1. ~HasWindowsOrName(m.ws[len])
        BY <1>0, <1>1 DEF SpareEnds, Spare, IsBlank
      <4>2. \A i \in 1..Len(last) : last[i] \notin C
        <5>1. \A i \in 1..Len(last) : i = 1
          BY <2>7
        <5> QED BY <2>7, <3>0, <4>1, <5>1
      <4> QED BY <2>7, <4>2, OnlyNone
    <3>6. s = p \o last
      <4>1. PICK z : z = p \o last
        OBVIOUS
      <4>2. /\ z \in Seq(Workspace) /\ Len(z) = Len(p) + Len(last)
            /\ \A j \in 1..(Len(p) + Len(last)) : z[j] = IF j <= Len(p) THEN p[j] ELSE last[j - Len(p)]
        BY <2>4, <2>7, <4>1, ConcatProperties
      <4>3. Len(z) = len
        BY <2>4, <2>7, <4>2
      <4>4. ASSUME NEW j \in 1..len PROVE z[j] = s[j]
        <5>1. CASE j = len
          <6>1. ~(j <= len - 1) /\ j - (len - 1) = 1 /\ j \in 1..(Len(p) + Len(last))
            BY <2>4, <2>7, <5>1
          <6> QED BY <2>1, <2>4, <2>7, <4>2, <5>1, <6>1
        <5>2. CASE j # len
          <6>1. j <= len - 1 /\ j \in 1..(len - 1) /\ j \in 1..(Len(p) + Len(last))
            BY <2>4, <2>7, <5>2
          <6> QED BY <2>4, <4>2, <6>1
        <5> QED BY <5>1, <5>2
      <4>5. s = [j \in 1..len |-> s[j]] /\ z = [j \in 1..len |-> z[j]]
        BY <2>3, <4>2, <4>3
      <4> QED BY <4>1, <4>4, <4>5
    <3>7. Only(s, C) = Only(p, C) \o Only(last, C)
      BY <2>4, <2>7, <3>6, OnlyJoined
    <3>8. PICK x, y : x = Only(p, C) /\ y = Only(added, C)
      OBVIOUS
    <3>9. x \in Seq(Workspace) /\ y \in Seq(Workspace)
      <4>1. x \in Seq(Workspace)
        BY <2>4, <3>8, OnlyHas
      <4>2. y \in Seq(Workspace)
        BY <3>8, OnlyHas
      <4> QED BY <4>1, <4>2
    <3>10. x \o <<>> = x /\ (x \o y) \o <<>> = x \o y
      <4>1. x \o y \in Seq(Workspace)
        BY <3>9
      <4>2. x \o <<>> = x
        BY <3>9, ConcatEmptySeq
      <4>3. (x \o y) \o <<>> = x \o y
        BY <4>1, ConcatEmptySeq
      <4> QED BY <4>2, <4>3
    <3>11. Only(ws, C) = x \o y
      BY <3>3, <3>4, <3>5, <3>8, <3>10
    <3>12. Only(m.ws, C) = x
      BY <2>1, <3>5, <3>7, <3>8, <3>10
    <3> QED BY <3>1, <3>2, <3>8, <3>11, <3>12
  <2>25. SameOutput(m, n)
    BY <2>17, <2>20 DEF SameOutput
  <2> QED BY <2>20, <2>23, <2>24, <2>25 DEF Continues
<1> QED BY <1>4, <1>5

\* Workspaces from lo to hi have changed places, and the ends that this gave
\* away are blank again.
Refilled(m, x, lo, hi, id) ==
  LET b == IF hi = Len(m.ws) THEN AddWorkspaceBottom(x, id) ELSE x
  IN  IF m.eaf /\ lo = 1 THEN AddWorkspaceTop(b, id + 1) ELSE b

\* The whole of such a move: the ends are made blank, workspace a of the new order
\* is the active one, and the stack is cleaned up.
Reordered(m, ws, lo, hi, a, id) ==
  Settle([Refilled(m, [m EXCEPT !.ws = ws], lo, hi, id) EXCEPT
            !.active = IF m.eaf /\ lo = 1 THEN a + 1 ELSE a])

\* A move that leaves the workspaces outside lo..hi in place leaves the monitor sound.
LEMMA EndsRefilled ==
  ASSUME NEW m, Ready(m), NEW lo \in 1..Len(m.ws), NEW hi \in 1..Len(m.ws), NEW id \in Id,
         NEW ws \in Seq(Workspace), Len(ws) = Len(m.ws),
         hi < Len(m.ws) => ws[Len(m.ws)] = m.ws[Len(m.ws)], lo > 1 => ws[1] = m.ws[1],
         NEW a \in 1..Len(m.ws), NEW n, n = Reordered(m, ws, lo, hi, a, id)
  PROVE  Sound(n) /\ SameOutput(m, n)
<1>0. Formed(m) /\ ~m.panicked /\ SpareEnds(m)
  BY DEF Ready
<1>1. PICK len \in Nat : len = Len(m.ws)
  BY <1>0, MonitorFields DEF Formed
<1>2. m \in Monitor /\ m.active \in 1..len /\ lo \in 1..len /\ hi \in 1..len /\ a \in 1..len
      /\ Len(ws) = len /\ len \in 1..len /\ 1 \in 1..len
  BY <1>0, <1>1 DEF Formed
<1>e. PICK x, c : x = [m EXCEPT !.ws = ws] /\ c = IF m.eaf /\ lo = 1 THEN a + 1 ELSE a
  OBVIOUS
<1>3. /\ Formed(x) /\ SameOutput(m, x) /\ x.ws = ws /\ x.active = m.active
      /\ x.panicked = m.panicked
  <2>1. x \in Monitor
    BY <1>2, <1>e, Zenon DEF Monitor
  <2>2. /\ SameOutput(m, x) /\ x.ws = ws /\ x.active = m.active /\ x.panicked = m.panicked
    BY <1>2, <1>e DEF Monitor, SameOutput
  <2> QED BY <1>2, <2>1, <2>2 DEF Formed
<1>b. PICK b : b = IF hi = Len(m.ws) THEN AddWorkspaceBottom(x, id) ELSE x
  OBVIOUS
<1>4. /\ Formed(b) /\ SameOutput(m, b) /\ b.panicked = m.panicked
      /\ Len(b.ws) \in {len, len + 1}
      /\ b.ws[1] = ws[1] /\ Spare(m, b.ws[Len(b.ws)])
  <2>1. CASE hi = len
    <3>1. b = AddWorkspaceBottom(x, id)
      BY <1>1, <1>2, <1>b, <2>1
    <3>2. /\ Formed(b) /\ SameOutput(x, b) /\ Len(b.ws) = Len(x.ws) + 1
          /\ \A j \in 1..Len(x.ws) : b.ws[j] = x.ws[j]
          /\ Spare(b, b.ws[Len(b.ws)]) /\ b.panicked = x.panicked
      <4>1. Formed(x) /\ id \in Id
        BY <1>3
      <4> QED BY <4>1, <3>1, AddedBottom
    <3>3. SameOutput(m, b)
      BY <1>3, <3>2 DEF SameOutput
    <3>4. Spare(m, b.ws[Len(b.ws)])
      BY <3>2, <3>3, SpareAlike
    <3>5. Len(b.ws) = len + 1 /\ b.ws[1] = ws[1]
      BY <1>2, <1>3, <3>2
    <3> QED BY <1>3, <3>2, <3>3, <3>4, <3>5
  <2>2. CASE hi # len
    <3>1. b = x /\ hi < len
      BY <1>1, <1>2, <1>b, <2>2
    <3>2. Spare(m, ws[len])
      BY <1>0, <1>1, <3>1 DEF SpareEnds
    <3> QED BY <1>2, <1>3, <3>1, <3>2
  <2> QED BY <2>1, <2>2
<1>d. PICK e : e = IF m.eaf /\ lo = 1 THEN AddWorkspaceTop(b, id + 1) ELSE b
  OBVIOUS
<1>5. /\ Formed(e) /\ SameOutput(m, e) /\ e.panicked = m.panicked
      /\ c \in 1..Len(e.ws)
      /\ Spare(m, e.ws[Len(e.ws)]) /\ (m.eaf => Spare(m, e.ws[1]))
  <2>1. CASE m.eaf /\ lo = 1
    <3>1. PICK id1 \in Id : id1 = id + 1
      BY DEF Id
    <3>2. e = AddWorkspaceTop(b, id1) /\ c = a + 1
      BY <1>d, <1>e, <2>1, <3>1
    <3>3. /\ Formed(e) /\ SameOutput(b, e) /\ Len(e.ws) = Len(b.ws) + 1
          /\ e.ws[Len(e.ws)] = b.ws[Len(b.ws)]
          /\ Spare(e, e.ws[1]) /\ e.panicked = b.panicked
      BY <1>4, <3>2, AddedTop
    <3>4. SameOutput(m, e)
      BY <1>4, <3>3 DEF SameOutput
    <3>5. c \in 1..Len(e.ws)
      BY <1>2, <1>4, <3>2, <3>3
    <3> QED BY <1>4, <3>3, <3>4, <3>5, SpareAlike
  <2>2. CASE ~(m.eaf /\ lo = 1)
    <3>1. e = b /\ c = a
      BY <1>d, <1>e, <2>2
    <3>2. ASSUME m.eaf PROVE Spare(m, b.ws[1])
      <4>1. lo > 1
        BY <1>2, <2>2, <3>2
      <4> QED BY <1>0, <1>4, <3>2, <4>1 DEF SpareEnds
    <3>3. c \in 1..Len(e.ws)
      BY <1>2, <1>4, <3>1
    <3> QED BY <1>4, <3>1, <3>2, <3>3
  <2> QED BY <2>1, <2>2
<1>6. PICK y : y = [e EXCEPT !.active = c]
  OBVIOUS
<1>7. /\ Formed(y) /\ SameOutput(m, y) /\ y.ws = e.ws /\ y.panicked = m.panicked
  <2>1. e \in Monitor /\ c \in Nat
    BY <1>5 DEF Formed
  <2>2. y \in Monitor
    BY <1>6, <2>1, Zenon DEF Monitor
  <2>3. /\ SameOutput(e, y) /\ y.ws = e.ws /\ y.panicked = e.panicked /\ y.active = c
    BY <1>6, <2>1 DEF Monitor, SameOutput
  <2> QED BY <1>5, <2>2, <2>3 DEF Formed, SameOutput
<1>8. Ready(y)
  BY <1>0, <1>5, <1>7, SpareAlike DEF Ready, SpareEnds, SameOutput
<1>9. n = Settle(y)
  <2>1. e = Refilled(m, x, lo, hi, id)
    BY <1>b, <1>d DEF Refilled
  <2>2. n = Settle([Refilled(m, x, lo, hi, id) EXCEPT !.active = c])
    BY <1>e, Zenon DEF Reordered
  <2> QED BY <1>6, <2>1, <2>2, Zenon
<1> QED BY <1>7, <1>8, <1>9, Settled DEF SameOutput

\* move_workspace_up and move_workspace_down
LEMMA ActiveSwapped ==
  ASSUME NEW m, Sound(m), NEW to \in 1..Len(m.ws), NEW id \in Id, NEW n, n = SwapActive(m, to, id)
  PROVE  Sound(n) /\ SameOutput(m, n)
<1>0. Formed(m) /\ Ready(m)
  BY DEF Sound, Nearly, Ready
<1>1. PICK len \in Nat : len = Len(m.ws)
  BY <1>0, MonitorFields DEF Formed
<1>2. m.active \in 1..len /\ to \in 1..len
  BY <1>0, <1>1 DEF Formed
<1>3. CASE m.active = to
  BY <1>3 DEF SwapActive, SameOutput
<1>4. CASE m.active # to
  <2>1. PICK ws, lo, hi : /\ ws = Swap(m.ws, m.active, to)
                          /\ lo = MinOf(m.active, to) /\ hi = MaxOf(m.active, to)
    OBVIOUS
  <2>2. PICK s : s = m.ws
    OBVIOUS
  <2>3. /\ ws \in Seq(Workspace) /\ Len(ws) = len
        /\ \A k \in 1..len : ws[k] = IF k = to THEN s[m.active] ELSE IF k = m.active THEN s[to] ELSE s[k]
    <3>1. PICK from : from = m.active
      OBVIOUS
    <3>2. s \in Seq(Workspace) /\ from \in 1..Len(s) /\ to \in 1..Len(s)
      BY <1>0, <1>1, <1>2, <2>2, <3>1, MonitorFields DEF Formed
    <3> HIDE <3>1
    <3>3. Swap(s, from, to) \in Seq(Workspace) /\ WithSwapped(Swap(s, from, to), s, from, to)
      BY <3>2, Swapped, Zenon
    <3> QED BY <1>1, <2>1, <2>2, <3>1, <3>3 DEF WithSwapped
  <2>4. /\ lo \in 1..len /\ hi \in 1..len
        /\ lo \in {m.active, to} /\ hi \in {m.active, to}
        /\ lo <= m.active /\ lo <= to /\ hi >= m.active /\ hi >= to
    BY <1>2, <2>1 DEF MinOf, MaxOf
  <2>5. hi < len => ws[len] = m.ws[len]
    BY <1>2, <2>2, <2>3, <2>4
  <2>6. lo > 1 => ws[1] = m.ws[1]
    BY <1>2, <2>2, <2>3, <2>4
  <2>7. n = Reordered(m, ws, lo, hi, to, id)
    BY <1>4, <2>1, Zenon DEF SwapActive, Reordered, Refilled
  <2> HIDE <2>1
  <2> QED BY <1>0, <1>1, <1>2, <2>3, <2>4, <2>5, <2>6, <2>7, EndsRefilled
<1> QED BY <1>3, <1>4

\* move_workspace_to_idx
LEMMA WorkspaceMoved ==
  ASSUME NEW m, Sound(m), NEW old \in 1..Len(m.ws), NEW idx \in Id, NEW id \in Id,
         NEW n, n = MoveWorkspaceToIdx(m, old, idx, id)
  PROVE  Sound(n) /\ SameOutput(m, n)
<1>0. Formed(m) /\ Ready(m)
  BY DEF Sound, Nearly, Ready
<1>1. PICK len \in Nat : len = Len(m.ws)
  BY <1>0, MonitorFields DEF Formed
<1>2. m.active \in 1..len /\ old \in 1..len
  BY <1>0, <1>1 DEF Formed
<1>3. PICK new : new = MinOf(idx, Len(m.ws))
  OBVIOUS
<1>4. new \in 1..len
  BY <1>1, <1>2, <1>3 DEF MinOf, Id
<1>5. CASE old = new
  BY <1>3, <1>5 DEF MoveWorkspaceToIdx, SameOutput
<1>6. CASE old # new
  <2>1. PICK s, r, ws : /\ s = m.ws /\ r = RemoveAt(m.ws, old)
                        /\ ws = InsertAt(RemoveAt(m.ws, old), new, m.ws[old])
    OBVIOUS
  <2>2. PICK lo, hi, a : lo = MinOf(old, new) /\ hi = MaxOf(old, new) /\ a = ActiveAfterMove(m, old, new)
    OBVIOUS
  <2>3. /\ r \in Seq(Workspace) /\ Len(r) = len - 1
        /\ \A j \in 1..(len - 1) : r[j] = IF j < old THEN s[j] ELSE s[j + 1]
    <3>1. s \in Seq(Workspace) /\ old \in 1..Len(s) /\ Len(s) = len
      BY <1>0, <1>1, <1>2, <2>1, MonitorFields DEF Formed
    <3>2. RemoveAt(s, old) \in Seq(Workspace) /\ WithRemoved(RemoveAt(s, old), s, old)
      BY <3>1, Removed, Zenon
    <3> QED BY <2>1, <3>1, <3>2 DEF WithRemoved
  <2>4. PICK w \in Workspace : w = m.ws[old]
    BY <1>0, MonitorFields DEF Formed
  <2>5. /\ ws \in Seq(Workspace) /\ Len(ws) = len
        /\ \A j \in 1..len : ws[j] = IF j < new THEN r[j] ELSE IF j = new THEN w ELSE r[j - 1]
    <3>0. Len(r) + 1 = len
      BY <1>4, <2>3
    <3>1. r \in Seq(Workspace) /\ new \in 1..(Len(r) + 1)
      BY <1>4, <2>3, <3>0
    <3>2. InsertAt(r, new, w) \in Seq(Workspace) /\ WithInserted(InsertAt(r, new, w), r, new, w)
      BY <3>1, Inserted, Zenon
    <3> QED BY <2>1, <2>4, <3>0, <3>2 DEF WithInserted
  <2>6. /\ lo \in 1..len /\ hi \in 1..len
        /\ lo <= old /\ lo <= new /\ hi >= old /\ hi >= new
    BY <1>2, <1>4, <2>2 DEF MinOf, MaxOf
  <2>7. hi < len => ws[len] = m.ws[len]
    <3>1. SUFFICES ASSUME hi < len PROVE ws[len] = s[len]
      BY <2>1
    <3>2. PICK k : k = len - 1
      OBVIOUS
    <3>3. /\ len \in 1..len /\ ~(len < new) /\ len # new
          /\ k \in 1..(len - 1) /\ ~(k < old) /\ k = len - 1 /\ k + 1 = len
      BY <1>2, <1>4, <2>6, <3>1, <3>2
    <3>4. ws[len] = r[k] /\ r[k] = s[k + 1]
      BY <2>3, <2>5, <3>3
    <3> QED BY <3>3, <3>4
  <2>8. lo > 1 => ws[1] = m.ws[1]
    <3>1. SUFFICES ASSUME lo > 1 PROVE ws[1] = s[1]
      BY <2>1
    <3>2. 1 \in 1..len /\ 1 < new /\ 1 \in 1..(len - 1) /\ 1 < old
      BY <1>2, <1>4, <2>6, <3>1
    <3> QED BY <2>3, <2>5, <3>2
  <2>9. a \in 1..len
    BY <1>2, <1>4, <2>2 DEF ActiveAfterMove
  <2>10. n = Reordered(m, ws, lo, hi, a, id)
    <3>1. ~(old > Len(m.ws) \/ old = new)
      BY <1>1, <1>2, <1>6
    <3>2. PICK c : c = IF m.eaf /\ lo = 1 THEN a + 1 ELSE a
      OBVIOUS
    <3>3. a + (IF m.eaf /\ lo = 1 THEN 1 ELSE 0) = c
      BY <2>9, <3>2
    <3>4. n = Settle([Refilled(m, [m EXCEPT !.ws = ws], lo, hi, id) EXCEPT
                        !.active = a + (IF m.eaf /\ lo = 1 THEN 1 ELSE 0)])
      BY <1>3, <2>1, <2>2, <3>1, Zenon DEF MoveWorkspaceToIdx, Refilled
    <3> QED BY <3>2, <3>3, <3>4, Zenon DEF Reordered
  <2> HIDE <2>1, <2>2
  <2> QED BY <1>0, <1>1, <1>2, <2>5, <2>6, <2>7, <2>8, <2>9, <2>10, EndsRefilled
<1> QED BY <1>5, <1>6

\* The workspace that a new monitor shows is one of those that came with it.
LEMMA FirstActiveThere ==
  ASSUME NEW kept \in Seq(Workspace), NEW id
  PROVE  /\ FirstActive(kept, id) \in 1..(Len(kept) + 1) /\ (kept # <<>> => FirstActive(kept, id) \in 1..Len(kept))
         /\ \A i \in 1..Len(kept) : kept[i].id = id => kept[FirstActive(kept, id)].id = id
<1>0. Len(kept) \in Nat /\ (kept # <<>> => Len(kept) # 0)
  BY EmptySeq
<1>1. PICK hits : hits = {i \in 1..Len(kept) : kept[i].id = id}
  OBVIOUS
<1>2. hits \in SUBSET (1..Len(kept))
  BY <1>1
<1>3. IsFiniteSet(hits) /\ Cardinality(hits) \in 0..Len(kept)
  BY <1>0, <1>2, IndicesFinite
<1>4. CASE hits = {}
  BY <1>0, <1>1, <1>4 DEF FirstActive
<1>5. CASE hits # {}
  <2>1. Cardinality(hits) # 0
    BY <1>3, <1>5, FS_EmptySet
  <2>2. Cardinality(hits) \in 1..Cardinality(hits)
    BY <1>0, <1>3, <2>1
  <2>3. Nth(hits, Cardinality(hits)) \in hits
    BY <1>0, <1>2, <2>2, NthIsThere
  <2>4. FirstActive(kept, id) = Nth(hits, Cardinality(hits))
    BY <1>1, <1>5 DEF FirstActive
  <2>5. FirstActive(kept, id) \in 1..Len(kept) /\ kept[FirstActive(kept, id)].id = id
    BY <1>1, <2>3, <2>4
  <2> QED BY <1>0, <2>5
<1> QED BY <1>4, <1>5

\* Monitor::new, for workspaces that are not blank.
LEMMA MonitorMade ==
  ASSUME NEW o \in Output, NEW kept \in Seq(Workspace),
         \A i \in 1..Len(kept) : HasWindowsOrName(kept[i]),
         NEW last, NEW eaf \in BOOLEAN, NEW id \in Id,
         NEW n, n = NewMonitor(o, kept, last, eaf, id)
  PROVE  Sound(n) /\ n.output = o /\ n.eaf = eaf /\ Brings(n, kept, last)
<1>1. PICK len \in Nat : len = Len(kept)
  OBVIOUS
<1>2. kept = <<>> <=> len = 0
  BY <1>1, EmptySeq
<1>3. PICK first : first = FirstActive(kept, last)
  OBVIOUS
<1>4. first \in 1..(len + 1) /\ (len > 0 => first \in 1..len) /\ (len = 0 => first = 1)
  <2>1. first \in 1..(len + 1) /\ (kept # <<>> => first \in 1..len)
    BY <1>1, <1>3, FirstActiveThere
  <2> QED BY <1>2, <2>1
<1>5. PICK b, t : b = NewWorkspace(o, id) /\ t = NewWorkspace(o, id + 1)
  OBVIOUS
<1>6. /\ b \in Workspace /\ b.orig = o /\ IsBlank(b)
      /\ t \in Workspace /\ t.orig = o /\ IsBlank(t)
  <2>1. id + 1 \in Id
    BY DEF Id
  <2> QED BY <1>5, <2>1, NewWorkspaceFacts
<1>7. PICK body : body = Append(kept, b)
  OBVIOUS
<1>8. /\ body \in Seq(Workspace) /\ Len(body) = len + 1 /\ body[len + 1] = b
      /\ \A j \in 1..len : body[j] = kept[j]
  BY <1>1, <1>6, <1>7
<1>9. PICK ws, a : /\ ws = IF eaf /\ kept # <<>> THEN InsertAt(body, 1, t) ELSE body
                   /\ a = IF eaf /\ kept # <<>> THEN first + 1 ELSE first
  OBVIOUS
<1>10. /\ ws \in Seq(Workspace) /\ Len(ws) \in Nat /\ a \in 1..Len(ws)
       /\ IsBlank(ws[Len(ws)]) /\ ws[Len(ws)].orig = o
       /\ eaf => /\ IsBlank(ws[1]) /\ ws[1].orig = o
                 /\ Len(ws) < 2 \/ Len(ws) > 2
       /\ \A j \in 1..Len(ws) : j = Len(ws) \/ (eaf /\ j = 1) \/ HasWindowsOrName(ws[j])
  <2>1. CASE eaf /\ len > 0
    <3>1. PICK one \in Nat : one = 1
      OBVIOUS
    <3>2. body \in Seq(Workspace) /\ one \in 1..(Len(body) + 1) /\ t \in Workspace
      BY <1>6, <1>8, <3>1
    <3>3. InsertAt(body, one, t) \in Seq(Workspace) /\ WithInserted(InsertAt(body, one, t), body, one, t)
      BY <3>2, Inserted, Zenon
    <3>4. ws = InsertAt(body, one, t) /\ a = first + 1
      BY <1>2, <1>9, <2>1, <3>1
    <3>5. /\ ws \in Seq(Workspace) /\ Len(ws) = len + 2
          /\ ws[1] = t /\ \A j \in 1..(len + 2) : j # 1 => ws[j] = body[j - 1]
      BY <1>8, <3>1, <3>3, <3>4 DEF WithInserted
    <3>6. ws[len + 2] = b
      <4>1. len + 2 \in 1..(len + 2) /\ len + 2 # 1 /\ (len + 2) - 1 = len + 1
        OBVIOUS
      <4> QED BY <1>8, <3>5, <4>1
    <3>7. ASSUME NEW j \in 1..(len + 2), j # 1, j # len + 2 PROVE HasWindowsOrName(ws[j])
      <4>1. PICK k : k = j - 1
        OBVIOUS
      <4>2. k \in 1..len
        BY <3>7, <4>1
      <4> QED BY <1>1, <1>8, <3>5, <3>7, <4>1, <4>2
    <3>8. a \in 1..(len + 2)
      BY <1>4, <2>1, <3>4
    <3> QED BY <1>6, <2>1, <3>5, <3>6, <3>7, <3>8
  <2>2. CASE ~(eaf /\ len > 0)
    <3>1. ws = body /\ a = first
      BY <1>2, <1>9, <2>2
    <3>2. eaf => len = 0 /\ ws[1] = b
      BY <1>8, <2>2, <3>1
    <3> QED BY <1>1, <1>4, <1>6, <1>8, <3>1, <3>2
  <2> QED BY <2>1, <2>2
<1>11. PICK p : p = \E i \in 1..Len(kept) : IsBlank(kept[i])
  OBVIOUS
<1>12. p = FALSE
  BY <1>11 DEF IsBlank
<1>13. n = [output |-> o, eaf |-> eaf, ws |-> ws, active |-> a, prev |-> NoId, sw |-> NoSwitch,
            panicked |-> p]
  BY <1>3, <1>5, <1>7, <1>9, <1>11, Zenon DEF NewMonitor
<1>14. n \in Monitor
  <2>1. a \in Nat /\ ws \in Seq(Workspace)
    BY <1>10
  <2>2. NoId \in Id \cup {NoId} /\ NoSwitch \in Switch
    BY SwitchesAtRest
  <2>3. p \in BOOLEAN
    BY <1>12
  <2> QED BY <1>13, <2>1, <2>2, <2>3 DEF Monitor
<1>15. /\ n.output = o /\ n.eaf = eaf /\ n.ws = ws /\ n.active = a
       /\ n.sw = NoSwitch /\ n.panicked = FALSE
  BY <1>12, <1>13
<1>16. n.sw.kind = "none"
  BY <1>15, SwitchesAtRest
<1>17. Ready(n)
  BY <1>10, <1>14, <1>15 DEF Ready, Formed, SpareEnds, Spare
<1>18. SwitchFits(n)
  BY <1>16 DEF SwitchFits, IsGesture
<1>19. Idle(n)
  BY <1>10, <1>15 DEF Idle, Excused, AtEnd
<1>20. Sound(n)
  BY <1>10, <1>15, <1>17, <1>18, <1>19 DEF Sound, Nearly
<1>21. ASSUME NEW C \in SUBSET Full PROVE Only(ws, C) = Only(kept, C)
  <2>0. b \notin C /\ t \notin C
    <3>1. \A v \in C : HasWindowsOrName(v)
      BY DEF Full
    <3> QED BY <1>6, <3>1 DEF IsBlank
  <2>1. Only(body, C) = Only(kept, C)
    <3>1. PICK i : i = len + 1
      OBVIOUS
    <3>2. ASSUME NEW j \in 1..(Len(kept) + 1)
          PROVE  body[j] = IF j < i THEN kept[j] ELSE IF j = i THEN b ELSE kept[j - 1]
      <4>1. j \in 1..len \/ j = len + 1
        BY <1>1
      <4> QED BY <1>8, <3>1, <4>1
    <3>3. WithInserted(body, kept, i, b)
      BY <1>1, <1>8, <3>2 DEF WithInserted
    <3>4. i \in 1..(Len(kept) + 1)
      BY <1>1, <3>1
    <3> QED BY <1>8, <2>0, <3>3, <3>4, OnlyInserted
  <2>2. CASE eaf /\ kept # <<>>
    <3>1. PICK one : one = 1
      OBVIOUS
    <3>2. one \in 1..(Len(body) + 1)
      BY <1>8, <3>1
    <3>3. InsertAt(body, one, t) \in Seq(Workspace) /\ WithInserted(InsertAt(body, one, t), body, one, t)
      BY <1>6, <1>8, <3>2, Inserted
    <3>4. WithInserted(ws, body, one, t)
      BY <1>9, <2>2, <3>1, <3>3
    <3>5. Only(ws, C) = Only(body, C)
      BY <1>8, <1>10, <2>0, <3>2, <3>4, OnlyInserted
    <3> QED BY <2>1, <3>5
  <2>3. CASE ~(eaf /\ kept # <<>>)
    BY <1>9, <2>1, <2>3
  <2> QED BY <2>2, <2>3
<1>22. ASSUME NEW i \in 1..Len(kept), kept[i].id = last PROVE ws[a].id = last
  <2>1. kept[first].id = last
    BY <1>3, <1>22, FirstActiveThere
  <2>2. len > 0 /\ first \in 1..len /\ kept # <<>>
    BY <1>1, <1>2, <1>4, <1>22
  <2>3. body[first] = kept[first]
    BY <1>8, <2>2
  <2>4. CASE eaf
    <3>1. PICK one, k : one = 1 /\ k = first + 1
      OBVIOUS
    <3>2. one \in 1..(Len(body) + 1)
      BY <1>8, <3>1
    <3>3. InsertAt(body, one, t) \in Seq(Workspace) /\ WithInserted(InsertAt(body, one, t), body, one, t)
      BY <1>6, <1>8, <3>2, Inserted
    <3>4. WithInserted(ws, body, one, t) /\ a = k
      BY <1>9, <2>2, <2>4, <3>1, <3>3
    <3>5. k \in 1..(Len(body) + 1) /\ ~(k < one) /\ k # one /\ k - 1 = first
      BY <1>8, <2>2, <3>1
    <3>6. ws[k] = body[k - 1]
      BY <3>4, <3>5 DEF WithInserted
    <3> QED BY <2>1, <2>3, <3>4, <3>5, <3>6
  <2>5. CASE ~eaf
    BY <1>9, <2>1, <2>3, <2>5
  <2> QED BY <2>4, <2>5
<1> QED BY <1>15, <1>20, <1>21, <1>22 DEF Brings

\* Of the workspaces s those that are not blank, and of them the ones in K.
LEMMA NonBlankKept ==
  ASSUME NEW s \in Seq(Workspace), NEW K \in SUBSET (1..Len(s)),
         \A k \in K : HasWindowsOrName(s[k]), NEW t, t = Keep(s, K)
  PROVE  t \in Seq(Workspace) /\ \A i \in 1..Len(t) : HasWindowsOrName(t[i])
<1>1. /\ t \in Seq(Workspace) /\ Len(t) = Cardinality(K)
      /\ \A j \in 1..Cardinality(K) : Nth(K, j) \in K /\ t[j] = s[Nth(K, j)]
  BY Kept
<1> QED BY <1>1

\* dnd_scroll_gesture_begin
LEMMA DndScrollBegun ==
  ASSUME NEW m, Sound(m), NEW open \in BOOLEAN, NEW n, n = DndScrollBegin(m, open)
  PROVE  Sound(n) /\ SameOutput(m, n)
<1>0. Formed(m)
  BY DEF Sound, Nearly, Ready
<1>1. CASE m.sw.kind # "dnd" /\ open
  <2>1. PICK sw : sw = DndScroll(m.active)
    OBVIOUS
  <2>2. n = [m EXCEPT !.sw = sw]
    BY <1>1, <2>1 DEF DndScrollBegin
  <2>3. m.active \in Nat /\ m.active \in 1..Len(m.ws) /\ Len(m.ws) \in Nat
    BY <1>0, MonitorFields DEF Formed
  <2>4. /\ sw \in Switch /\ sw.kind = "dnd" /\ ~sw.clamped
        /\ sw.center = m.active /\ sw.at = m.active
    BY <2>1, <2>3 DEF DndScroll, Switch, SwitchKind
  <2>5. /\ Formed(n) /\ SameOutput(m, n) /\ n.ws = m.ws /\ n.active = m.active
        /\ n.sw = sw /\ Ready(n)
    BY <1>0, <2>2, <2>4, SwitchSet DEF Sound, Nearly
  <2>6. SwitchFits(n)
    BY <2>3, <2>4, <2>5 DEF SwitchFits, IsGesture
  <2> QED BY <2>4, <2>5, <2>6 DEF Sound, Nearly, Idle, SameOutput
<1>2. CASE ~(m.sw.kind # "dnd" /\ open)
  BY <1>2 DEF DndScrollBegin, SameOutput
<1> QED BY <1>1, <1>2

\* A gesture always has somewhere to end: its clamp() does not cross its bounds.
LEMMA GestureBounds ==
  ASSUME NEW m, Sound(m), IsGesture(m.sw)
  PROVE  /\ GestureMin(m.sw) \in 1..Len(m.ws) /\ GestureMax(m.sw, Len(m.ws)) \in 1..Len(m.ws)
         /\ GestureMin(m.sw) <= GestureMax(m.sw, Len(m.ws))
         /\ GestureEndTargets(m) = GestureMin(m.sw)..GestureMax(m.sw, Len(m.ws))
         /\ GestureEndTargets(m) \subseteq 1..Len(m.ws)
<1>1. PICK len \in Nat : len = Len(m.ws)
  BY MonitorFields DEF Sound, Nearly, Ready, Formed
<1>2. m.sw.center \in 1..len
  BY <1>1 DEF Sound, Nearly, SwitchFits
<1>3. /\ GestureMin(m.sw) \in 1..len /\ GestureMax(m.sw, len) \in 1..len
      /\ GestureMin(m.sw) <= GestureMax(m.sw, len)
  <2>1. CASE m.sw.clamped
    BY <1>2, <2>1 DEF GestureMin, GestureMax, MinOf, MaxOf
  <2>2. CASE ~m.sw.clamped
    BY <1>2, <2>2 DEF GestureMin, GestureMax
  <2> QED BY <2>1, <2>2
<1>4. GestureEndTargets(m) = GestureMin(m.sw)..GestureMax(m.sw, Len(m.ws))
  BY <1>1, <1>3 DEF GestureEndTargets
<1>5. GestureEndTargets(m) \subseteq 1..len
  BY <1>1, <1>3, <1>4
<1> QED BY <1>1, <1>3, <1>4, <1>5

\* workspace_switch_gesture_end and dnd_scroll_gesture_end
LEMMA GestureEnded ==
  ASSUME NEW m, Sound(m), IsGesture(m.sw), NEW i \in GestureEndTargets(m),
         NEW n, n = GestureEnd(m, i)
  PROVE  Sound(n) /\ SameOutput(m, n) /\ n.ws = m.ws
<1>0. /\ m \in Monitor /\ m.active \in 1..Len(m.ws) /\ ~m.panicked /\ SpareEnds(m)
      /\ m.eaf => Len(m.ws) < 2 \/ Len(m.ws) > 2
  BY DEF Sound, Nearly, Ready, Formed
<1>1. i \in 1..Len(m.ws) /\ i \in Nat
  BY GestureBounds
<1>2. ~(GestureMin(m.sw) > GestureMax(m.sw, Len(m.ws)))
  <2>1. PICK a, b : a = GestureMin(m.sw) /\ b = GestureMax(m.sw, Len(m.ws))
    OBVIOUS
  <2>2. a \in Int /\ b \in Int /\ a <= b
    BY <2>1, GestureBounds
  <2>3. ~(a > b)
    BY <2>2
  <2> QED BY <2>1, <2>3
<1>3. PICK prev, panicked :
         /\ prev = IF m.active # i THEN m.ws[m.active].id ELSE m.prev
         /\ panicked = (m.panicked \/ GestureMin(m.sw) > GestureMax(m.sw, Len(m.ws)))
  OBVIOUS
<1>4. n = [m EXCEPT !.active = i, !.prev = prev, !.sw = Animation, !.panicked = panicked]
  BY <1>3 DEF GestureEnd
<1>5. prev \in Id \cup {NoId}
  BY <1>0, <1>3, MonitorFields
<1>6. panicked = FALSE
  BY <1>0, <1>2, <1>3
<1>7. n = [m EXCEPT !.active = i, !.prev = prev, !.sw = Animation, !.panicked = FALSE]
  BY <1>4, <1>6
<1>8. n \in Monitor
  <2>1. FALSE \in BOOLEAN /\ Animation \in Switch
    BY SwitchesAtRest
  <2> QED BY <1>0, <1>1, <1>5, <1>7, <2>1, Zenon DEF Monitor
<1>9. /\ n.ws = m.ws /\ n.active = i /\ n.sw = Animation /\ ~n.panicked /\ SameOutput(m, n)
  BY <1>0, <1>7 DEF Monitor, SameOutput
<1>10. n.sw.kind = "animation"
  BY <1>9, SwitchesAtRest
<1>11. Ready(n)
  BY <1>0, <1>1, <1>8, <1>9, SpareAlike DEF Ready, Formed, SpareEnds, SameOutput
<1> QED BY <1>0, <1>9, <1>10, <1>11 DEF Sound, Nearly, SwitchFits, IsGesture, Idle, SameOutput

\* workspace_switch_gesture_update: the view moves, and nothing else.
Reach(m) ==
  (IF m.sw.kind = "swipe" THEN GestureMin(m.sw) - 1 ELSE GestureMin(m.sw))..GestureMax(m.sw, Len(m.ws))
\* The view has been scrolled to workspace i.
ViewAt(m, i) == [m EXCEPT !.sw.at = i]

\* workspace_switch_gesture_update within the reach of the gesture
LEMMA GestureMoved ==
  ASSUME NEW m, Sound(m), IsGesture(m.sw), NEW i, i \in Reach(m), NEW n, n = ViewAt(m, i)
  PROVE  Sound(n) /\ SameOutput(m, n)
<1>0. Formed(m) /\ Ready(m) /\ m.sw \in Switch /\ SwitchFits(m)
  BY MonitorFields DEF Sound, Nearly, Ready, Formed
<1>1. PICK len \in Nat, lo \in Int, hi \in Int : len = Len(m.ws) /\ lo = GestureMin(m.sw) /\ hi = GestureMax(m.sw, Len(m.ws))
  <2>1. Len(m.ws) \in Nat /\ GestureMin(m.sw) \in Int /\ GestureMax(m.sw, Len(m.ws)) \in Int
    BY <1>0, GestureBounds, MonitorFields DEF Formed
  <2> QED BY <2>1
<1>2. lo \in 1..len /\ hi \in 1..len
  BY <1>1, GestureBounds
<1>3. i \in 0..len /\ (m.sw.kind = "dnd" => i # 0)
  <2>1. i \in (IF m.sw.kind = "swipe" THEN lo - 1 ELSE lo)..hi
    BY <1>1 DEF Reach
  <2>2. CASE m.sw.kind = "swipe"
    BY <1>2, <2>1, <2>2
  <2>3. CASE m.sw.kind # "swipe"
    BY <1>2, <2>1, <2>3
  <2> QED BY <2>2, <2>3
<1>4. PICK old, sw : old = m.sw /\ sw = [old EXCEPT !.at = i]
  OBVIOUS
<1>5. sw \in Switch /\ sw.kind = m.sw.kind /\ sw.clamped = m.sw.clamped /\ sw.center = m.sw.center /\ sw.at = i
  <2>1. old \in Switch /\ i \in Nat
    BY <1>0, <1>3, <1>4
  <2>2. sw \in Switch
    BY <1>4, <2>1, Zenon DEF Switch
  <2>3. sw.kind = old.kind /\ sw.clamped = old.clamped /\ sw.center = old.center /\ sw.at = i
    BY <1>4, <2>1 DEF Switch
  <2> QED BY <1>4, <2>2, <2>3
<1>6. n = [m EXCEPT !.sw = sw]
  BY <1>4 DEF ViewAt
<1>7. /\ Formed(n) /\ SameOutput(m, n) /\ n.ws = m.ws /\ n.active = m.active
      /\ n.sw = sw /\ Ready(n)
  BY <1>0, <1>5, <1>6, SwitchSet
<1>8. SwitchFits(n)
  BY <1>0, <1>1, <1>3, <1>5, <1>7 DEF SwitchFits, IsGesture
<1> QED BY <1>5, <1>7, <1>8 DEF Sound, Nearly, Idle, IsGesture, SameOutput

\* The targets of switch_workspace_up, _down and to an index are there.
LEMMA TargetsThere ==
  ASSUME NEW m, Sound(m)
  PROVE  /\ SwitchUpTargets(m) \subseteq 1..Len(m.ws)
         /\ SwitchDownTargets(m) \subseteq 1..Len(m.ws)
         /\ \A i \in Id : MinOf(i, Len(m.ws)) \in 1..Len(m.ws)
<1>1. PICK len \in Nat : len = Len(m.ws)
  BY MonitorFields DEF Sound, Nearly, Ready, Formed
<1>2. m.active \in 1..len
  BY <1>1 DEF Sound, Nearly, Ready, Formed
<1>3. \A i \in Id : MinOf(i, len) \in 1..len
  BY <1>2 DEF MinOf, Id
<1>4. CASE m.sw.kind = "dnd"
  <2>1. m.sw.at \in 1..len
    BY <1>1, <1>4 DEF Sound, Nearly, SwitchFits, IsGesture
  <2>2. SwitchUpTargets(m) \subseteq 1..len
    BY <1>4, <2>1 DEF SwitchUpTargets, MaxOf
  <2>3. SwitchDownTargets(m) \subseteq 1..len
    BY <1>1, <1>4, <2>1 DEF SwitchDownTargets, MinOf
  <2> QED BY <1>1, <1>3, <2>2, <2>3
<1>5. CASE m.sw.kind # "dnd"
  <2>1. SwitchUpTargets(m) \subseteq 1..len
    BY <1>2, <1>5 DEF SwitchUpTargets, MaxOf
  <2>2. SwitchDownTargets(m) \subseteq 1..len
    BY <1>1, <1>2, <1>5 DEF SwitchDownTargets, MinOf
  <2> QED BY <1>1, <1>3, <2>1, <2>2
<1> QED BY <1>4, <1>5

\* switch_workspace
LEMMA SwitchedWorkspace ==
  ASSUME NEW m, Sound(m), NEW i \in Id, NEW n, n = SwitchWorkspace(m, i)
  PROVE  Sound(n) /\ SameOutput(m, n)
<1>1. PICK k : k = MinOf(i, Len(m.ws))
  OBVIOUS
<1>2. k \in 1..Len(m.ws) /\ n = ActivateWorkspace(m, k)
  BY <1>1, TargetsThere DEF SwitchWorkspace
<1> QED BY <1>2, SwitchedTo DEF Sound

\* With no switch in progress, of the idle workspaces none is blank.
LEMMA NothingToDrop ==
  ASSUME NEW m, Sound(m), m.sw.kind = "none"
  PROVE  CleanUpDropped(m) = {}
<1>1. Formed(m) /\ \A i \in 1..Len(m.ws) : Excused(m, i)
  BY DEF Sound, Nearly, Ready, Idle
<1> QED BY <1>1, WhatIsDropped

\* The clean-up after a window has closed: the workspace it was on need not be
\* excused for being blank now, as long as it is not at an end.
LEMMA CleanedUpAfterClose ==
  ASSUME NEW m, Nearly(m), NEW i \in 1..Len(m.ws), ~AtEnd(m, i), IdleBut(m, i),
         NEW n, n = CleanUpAfterClose(m, i)
  PROVE  Sound(n) /\ SameOutput(m, n)
<1>0. Formed(m) /\ ~m.panicked /\ SpareEnds(m) /\ SwitchFits(m)
  BY DEF Nearly, Ready
<1>1. PICK len \in Nat : len = Len(m.ws)
  BY <1>0, MonitorFields DEF Formed
<1>2. m.active \in 1..len /\ i \in 1..len /\ i < len /\ (m.eaf => i > 1)
  BY <1>0, <1>1 DEF Formed, AtEnd
<1>3. CASE IsBlank(m.ws[i]) /\ i # m.active /\ m.sw.kind = "none"
  <2>1. PICK s, ws, a : /\ s = m.ws /\ ws = RemoveAt(m.ws, i)
                        /\ a = IF i < m.active THEN m.active - 1 ELSE m.active
    OBVIOUS
  <2>2. /\ ws \in Seq(Workspace) /\ Len(ws) = len - 1
        /\ \A j \in 1..(len - 1) : ws[j] = IF j < i THEN s[j] ELSE s[j + 1]
    <3>1. s \in Seq(Workspace) /\ i \in 1..Len(s) /\ Len(s) = len
      BY <1>0, <1>1, <1>2, <2>1, MonitorFields DEF Formed
    <3>2. RemoveAt(s, i) \in Seq(Workspace) /\ WithRemoved(RemoveAt(s, i), s, i)
      BY <3>1, Removed, Zenon
    <3> QED BY <2>1, <3>1, <3>2 DEF WithRemoved
  <2>3. a \in 1..(len - 1) /\ a \in 1..Len(ws)
    BY <1>2, <1>3, <2>1, <2>2
  <2>4. PICK x : x = Rearrange(m, ws, a)
    OBVIOUS
  <2>5. /\ Formed(x) /\ SameOutput(m, x) /\ x.ws = ws /\ x.active = a
        /\ x.panicked = m.panicked /\ x.sw = m.sw
    BY <1>0, <2>2, <2>3, <2>4, Rearranged
  <2>6. ws[len - 1] = m.ws[len]
    <3>1. PICK k : k = len - 1
      OBVIOUS
    <3>2. k \in 1..(len - 1) /\ ~(k < i) /\ k = len - 1 /\ k + 1 = len
      BY <1>2, <3>1
    <3> QED BY <2>1, <2>2, <3>2
  <2>7. m.eaf => ws[1] = m.ws[1]
    <3>1. ASSUME m.eaf PROVE 1 \in 1..(len - 1) /\ 1 < i
      BY <1>2, <3>1
    <3> QED BY <2>1, <2>2, <3>1
  <2>8. Ready(x)
    BY <1>0, <1>1, <2>2, <2>5, <2>6, <2>7, SpareAlike DEF Ready, SpareEnds, SameOutput
  <2>9. \A j \in 1..(len - 1) : j = a \/ j = len - 1 \/ (m.eaf /\ j = 1) \/ HasWindowsOrName(ws[j])
    <3>1. SUFFICES ASSUME NEW j \in 1..(len - 1), j # a, j # len - 1, ~(m.eaf /\ j = 1)
                   PROVE  HasWindowsOrName(ws[j])
      OBVIOUS
    <3>2. PICK k : k = IF j < i THEN j ELSE j + 1
      OBVIOUS
    <3>3. k \in 1..len /\ k # i /\ k # m.active /\ k # len /\ ~(m.eaf /\ k = 1)
      BY <1>2, <1>3, <2>1, <3>1, <3>2
    <3>4. HasWindowsOrName(m.ws[k])
      BY <1>1, <1>3, <3>3 DEF IdleBut, Excused, AtEnd
    <3>5. ws[j] = s[k]
      BY <2>2, <3>2
    <3> QED BY <2>1, <3>4, <3>5
  <2>10. CASE m.eaf /\ len = 3
    <3>1. Len(x.ws) = 2 /\ x.eaf /\ x.sw.kind = "none"
      BY <1>3, <2>2, <2>5, <2>10 DEF SameOutput
    <3>2. \A j \in 1..2 : IsBlank(x.ws[j])
      <4>1. x.ws[1] = m.ws[1] /\ x.ws[2] = m.ws[len]
        BY <2>5, <2>6, <2>7, <2>10
      <4>2. IsBlank(x.ws[1]) /\ IsBlank(x.ws[2])
        BY <1>0, <1>1, <2>10, <4>1 DEF SpareEnds, Spare
      <4> QED BY <4>2
    <3>3. CleanUpDropped(x) = {}
      BY <3>1 DEF CleanUpDropped
    <3>4. PICK p : p = (x.panicked \/ \E j \in 1..2 : HasWindowsOrName(x.ws[j]))
      OBVIOUS
    <3>5. p = FALSE
      BY <1>0, <2>5, <3>2, <3>4 DEF IsBlank
    <3>6. n = [x EXCEPT !.ws = <<x.ws[1]>>, !.active = 1, !.panicked = p]
      <4>1. x = [m EXCEPT !.ws = RemoveAt(m.ws, i), !.active = IF i < m.active THEN m.active - 1 ELSE m.active]
        BY <2>1, <2>4 DEF Rearrange
      <4>2. IsBlank(m.ws[i]) /\ i # m.active /\ i # Len(m.ws) /\ m.sw.kind = "none"
        BY <1>1, <1>2, <1>3
      <4>3. n = LET two == x.eaf /\ Len(x.ws) = 2 /\ x.sw.kind = "none"
                IN  IF two THEN [x EXCEPT !.ws = <<x.ws[1]>>, !.active = 1,
                                          !.panicked = x.panicked \/ \E j \in 1..2 : HasWindowsOrName(x.ws[j])]
                           ELSE x
        BY <4>1, <4>2, Zenon DEF CleanUpAfterClose
      <4> QED BY <3>1, <3>4, <4>3
    <3>7. PICK one, lone : one = x.ws[1] /\ lone = <<one>>
      OBVIOUS
    <3>8. x \in Monitor /\ one \in Workspace
      BY <1>1, <2>2, <2>3, <2>5, <2>10, <3>1, <3>7, MonitorFields DEF Formed
    <3>9. lone \in Seq(Workspace) /\ Len(lone) = 1 /\ lone[1] = one
      BY <3>7, <3>8
    <3>10. n = [x EXCEPT !.ws = lone, !.active = 1, !.panicked = FALSE]
      BY <3>5, <3>6, <3>7
    <3>11. n \in Monitor
      <4>1. 1 \in Nat /\ FALSE \in BOOLEAN
        OBVIOUS
      <4> QED BY <3>8, <3>9, <3>10, <4>1, Zenon DEF Monitor
    <3>12. n.ws = lone /\ n.active = 1 /\ ~n.panicked /\ n.sw = x.sw /\ SameOutput(x, n)
      BY <3>8, <3>10 DEF Monitor, SameOutput
    <3>13. SameOutput(m, n)
      BY <2>5, <3>12 DEF SameOutput
    <3>14. PICK l \in Nat : l = Len(n.ws) /\ l = 1
      BY <3>9, <3>12
    <3>15. Spare(n, n.ws[1])
      BY <1>0, <2>5, <2>7, <2>10, <3>7, <3>9, <3>12, <3>13, SpareAlike DEF SpareEnds
    <3>16. Ready(n)
      BY <3>11, <3>12, <3>14, <3>15 DEF Ready, Formed, SpareEnds
    <3>17. Len(n.ws) < 2
      BY <3>14
    <3>18. Idle(n)
      BY <3>12, <3>14 DEF Idle, Excused
    <3> QED BY <3>1, <3>12, <3>13, <3>16, <3>17, <3>18 DEF Sound, Nearly, SwitchFits, IsGesture
  <2>11. CASE ~(m.eaf /\ len = 3)
    <3>1. x = [m EXCEPT !.ws = RemoveAt(m.ws, i), !.active = IF i < m.active THEN m.active - 1 ELSE m.active]
      BY <2>1, <2>4 DEF Rearrange
    <3>2. IsBlank(m.ws[i]) /\ i # m.active /\ i # Len(m.ws) /\ m.sw.kind = "none"
      BY <1>1, <1>2, <1>3
    <3>3. n = LET two == x.eaf /\ Len(x.ws) = 2 /\ x.sw.kind = "none"
              IN  IF two THEN [x EXCEPT !.ws = <<x.ws[1]>>, !.active = 1,
                                        !.panicked = x.panicked \/ \E j \in 1..2 : HasWindowsOrName(x.ws[j])]
                         ELSE x
      BY <3>1, <3>2, Zenon DEF CleanUpAfterClose
    <3>4. ~(x.eaf /\ Len(x.ws) = 2)
      <4>1. PICK l \in Nat : l = Len(x.ws) /\ l = len - 1
        BY <1>2, <2>2, <2>5
      <4>2. ~(x.eaf /\ l = 2)
        BY <1>2, <2>5, <2>11, <4>1 DEF SameOutput
      <4> QED BY <4>1, <4>2
    <3>5. n = x
      BY <3>3, <3>4
    <3>6. m.eaf => Len(x.ws) < 2 \/ Len(x.ws) > 2
      BY <1>2, <2>2, <2>5, <2>11
    <3>7. Idle(x)
      BY <2>2, <2>5, <2>9 DEF Idle, Excused, AtEnd, SameOutput
    <3> QED BY <1>3, <2>5, <2>8, <3>5, <3>6, <3>7 DEF Sound, Nearly, SwitchFits, IsGesture, SameOutput
  <2> QED BY <2>10, <2>11
<1>4. CASE ~(IsBlank(m.ws[i]) /\ i # m.active /\ m.sw.kind = "none")
  <2>1. ~(IsBlank(m.ws[i]) /\ i # m.active /\ i # Len(m.ws) /\ m.sw.kind = "none")
    BY <1>4
  <2>2. ~(m.eaf /\ Len(m.ws) = 2 /\ m.sw.kind = "none")
    <3>1. ~(m.eaf /\ len = 2)
      BY <1>2
    <3> QED BY <1>1, <3>1
  <2>3. n = m
    BY <2>1, <2>2 DEF CleanUpAfterClose
  <2>4. Idle(m)
    BY <1>4 DEF IdleBut, Idle, Excused, IsBlank
  <2> QED BY <2>3, <2>4 DEF Sound, SameOutput
<1> QED BY <1>3, <1>4

\* The option of a monitor changes, and nothing else.
Optioned(m, eaf) == [m EXCEPT !.eaf = eaf]

\* Setting empty_workspace_above_first changes nothing else of a monitor.
LEMMA OptionSet ==
  ASSUME NEW m, Formed(m), NEW eaf \in BOOLEAN, NEW n, n = Optioned(m, eaf)
  PROVE  /\ Formed(n) /\ n.output = m.output /\ n.eaf = eaf /\ n.ws = m.ws
         /\ n.active = m.active /\ n.panicked = m.panicked /\ n.sw = m.sw
<1>1. m \in Monitor /\ n = [m EXCEPT !.eaf = eaf]
  BY DEF Formed, Optioned
<1>2. n \in Monitor
  BY <1>1, Zenon DEF Monitor
<1>3. /\ n.output = m.output /\ n.eaf = eaf /\ n.ws = m.ws
      /\ n.active = m.active /\ n.panicked = m.panicked /\ n.sw = m.sw
  BY <1>1 DEF Monitor
<1> QED BY <1>2, <1>3 DEF Formed

\* update_config: an empty workspace above the first comes and goes.
LEMMA ConfigUpdated ==
  ASSUME NEW m, Sound(m), NEW eaf \in BOOLEAN, NEW id \in Id, NEW n, n = UpdateConfig(m, eaf, id)
  PROVE  Sound(n) /\ n.output = m.output /\ n.eaf = eaf
<1>0. /\ Formed(m) /\ ~m.panicked /\ SpareEnds(m) /\ SwitchFits(m) /\ Idle(m)
      /\ m.eaf => Len(m.ws) < 2 \/ Len(m.ws) > 2
  BY DEF Sound, Nearly, Ready
<1>1. PICK len \in Nat : len = Len(m.ws)
  BY <1>0, MonitorFields DEF Formed
<1>2. m.active \in 1..len /\ m.eaf \in BOOLEAN
  BY <1>0, <1>1, MonitorFields DEF Formed
<1>3. CASE m.eaf # eaf /\ len > 1 /\ eaf
  <2>1. PICK x : x = AddWorkspaceTop(m, id)
    OBVIOUS
  <2>2. /\ Formed(x) /\ SameOutput(m, x) /\ Len(x.ws) = Len(m.ws) + 1
        /\ \A j \in 1..Len(m.ws) : x.ws[j + 1] = m.ws[j]
        /\ x.ws[Len(x.ws)] = m.ws[Len(m.ws)]
        /\ Spare(x, x.ws[1])
        /\ x.active = m.active + 1 /\ x.panicked = m.panicked
        /\ x.sw.kind = m.sw.kind /\ (SwitchFits(m) => SwitchFits(x))
    BY <1>0, <2>1, AddedTop
  <2>3. n = Optioned(x, eaf)
    BY <1>1, <1>3, <2>1 DEF UpdateConfig, Optioned
  <2>4. /\ Formed(n) /\ n.output = x.output /\ n.eaf = eaf /\ n.ws = x.ws
        /\ n.active = x.active /\ n.panicked = x.panicked /\ n.sw = x.sw
    BY <2>2, <2>3, OptionSet
  <2>5. PICK l \in Nat : l = Len(n.ws) /\ l = len + 1
    BY <1>1, <2>2, <2>4
  <2>6. Ready(n)
    BY <1>0, <1>1, <1>3, <2>2, <2>4 DEF Ready, SpareEnds, Spare, SameOutput
  <2>7. Idle(n)
    <3>1. SUFFICES ASSUME m.sw.kind = "none", NEW j \in 1..l PROVE Excused(n, j)
      BY <2>2, <2>4, <2>5 DEF Idle
    <3>2. CASE j = 1
      BY <1>3, <2>4, <3>2 DEF Excused, AtEnd
    <3>3. CASE j # 1
      <4>1. PICK k \in 1..len : k = j - 1 /\ k + 1 = j
        BY <2>5, <3>3
      <4>2. n.ws[j] = m.ws[k]
        BY <1>1, <2>2, <2>4, <4>1
      <4>3. k = m.active \/ k = len \/ HasWindowsOrName(m.ws[k])
        BY <1>0, <1>1, <1>3, <3>1 DEF Idle, Excused, AtEnd
      <4> QED BY <1>2, <2>2, <2>4, <2>5, <4>1, <4>2, <4>3 DEF Excused, AtEnd
    <3> QED BY <3>2, <3>3
  <2>8. SwitchFits(n)
    BY <1>0, <2>2, <2>4 DEF SwitchFits
  <2>9. Len(n.ws) > 2
    <3>1. len > 1
      BY <1>3
    <3>2. l > 2
      BY <2>5, <3>1
    <3> QED BY <2>5, <3>2
  <2> QED BY <2>2, <2>4, <2>6, <2>7, <2>8, <2>9 DEF Sound, Nearly, SameOutput
<1>4. CASE m.eaf # eaf /\ len > 1 /\ ~eaf /\ m.sw.kind = "none" /\ m.active # 1
  <2>1. m.eaf /\ len > 2
    BY <1>0, <1>1, <1>2, <1>4
  <2>2. PICK s, ws, a : s = m.ws /\ ws = RemoveAt(m.ws, 1) /\ a = m.active - 1
    OBVIOUS
  <2>3. /\ ws \in Seq(Workspace) /\ Len(ws) = len - 1
        /\ \A j \in 1..(len - 1) : ws[j] = s[j + 1]
    <3>1. PICK one \in Nat : one = 1
      OBVIOUS
    <3>2. s \in Seq(Workspace) /\ one \in 1..Len(s) /\ Len(s) = len
      BY <1>0, <1>1, <2>1, <2>2, <3>1, MonitorFields DEF Formed
    <3>3. RemoveAt(s, one) \in Seq(Workspace) /\ WithRemoved(RemoveAt(s, one), s, one)
      BY <3>2, Removed, Zenon
    <3> QED BY <2>2, <3>1, <3>2, <3>3 DEF WithRemoved
  <2>4. a \in 1..Len(ws)
    BY <1>2, <1>4, <2>2, <2>3
  <2>5. PICK x : x = Rearrange(m, ws, a)
    OBVIOUS
  <2>6. /\ Formed(x) /\ SameOutput(m, x) /\ x.ws = ws /\ x.active = a
        /\ x.panicked = m.panicked /\ x.sw = m.sw
    BY <1>0, <2>3, <2>4, <2>5, Rearranged
  <2>7. n = Optioned(x, eaf)
    BY <1>1, <1>4, <2>2, <2>5 DEF UpdateConfig, Optioned, Rearrange
  <2>8. /\ Formed(n) /\ n.output = x.output /\ n.eaf = eaf /\ n.ws = ws
        /\ n.active = a /\ n.panicked = x.panicked /\ n.sw = m.sw
    BY <2>6, <2>7, OptionSet
  <2>9. PICK l \in Nat : l = Len(n.ws) /\ l = len - 1 /\ l > 1
    BY <2>1, <2>3, <2>8
  <2>10. \A j \in 1..l : ws[j] = m.ws[j + 1]
    BY <2>2, <2>3, <2>9
  <2>11. ws[l] = m.ws[len]
    <3>1. l \in 1..l /\ l + 1 = len
      BY <2>9
    <3> QED BY <2>10, <3>1
  <2>12. Ready(n)
    BY <1>0, <1>1, <1>4, <2>6, <2>8, <2>9, <2>11 DEF Ready, SpareEnds, Spare, SameOutput
  <2>13. Idle(n)
    <3>1. SUFFICES ASSUME NEW j \in 1..l PROVE Excused(n, j)
      BY <2>9 DEF Idle
    <3>2. PICK k \in 1..len : k = j + 1 /\ k # 1
      BY <2>9
    <3>3. k = m.active \/ k = len \/ HasWindowsOrName(m.ws[k])
      BY <1>0, <1>1, <1>4, <3>2 DEF Idle, Excused, AtEnd
    <3>4. n.ws[j] = m.ws[k]
      BY <2>8, <2>10, <3>2
    <3> QED BY <1>2, <2>2, <2>8, <2>9, <3>2, <3>3, <3>4 DEF Excused, AtEnd
  <2>14. SwitchFits(n)
    BY <1>4, <2>8 DEF SwitchFits, IsGesture
  <2> QED BY <1>4, <2>6, <2>8, <2>12, <2>13, <2>14 DEF Sound, Nearly, SameOutput
<1>5. CASE ~(m.eaf # eaf /\ len > 1 /\ eaf) /\ ~(m.eaf # eaf /\ len > 1 /\ ~eaf /\ m.sw.kind = "none" /\ m.active # 1)
  <2>1. n = Optioned(m, eaf)
    BY <1>1, <1>2, <1>5 DEF UpdateConfig, Optioned
  <2>2. /\ Formed(n) /\ n.output = m.output /\ n.eaf = eaf /\ n.ws = m.ws
        /\ n.active = m.active /\ n.panicked = m.panicked /\ n.sw = m.sw
    BY <1>0, <2>1, OptionSet
  <2>3. SwitchFits(n)
    BY <1>0, <2>2 DEF SwitchFits
  <2>4. CASE m.eaf = eaf
    BY <1>0, <2>2, <2>3, <2>4 DEF Sound, Nearly, Ready, SpareEnds, Spare, Idle, Excused, AtEnd
  <2>5. CASE m.eaf # eaf /\ len > 1
    <3>1. ~eaf /\ m.eaf /\ ~(m.sw.kind = "none" /\ m.active # 1)
      BY <1>2, <1>5, <2>5
    <3>2. Idle(n)
      BY <1>0, <2>2, <3>1 DEF Idle, Excused, AtEnd
    <3> QED BY <1>0, <2>2, <2>3, <3>1, <3>2 DEF Sound, Nearly, Ready, SpareEnds, Spare
  <2>6. CASE ~(len > 1)
    <3>1. len = 1
      BY <1>2, <2>6
    <3>2. Len(n.ws) < 2 /\ n.ws[Len(n.ws)] = n.ws[1]
      BY <1>1, <2>2, <3>1
    <3>3. Ready(n)
      BY <1>0, <2>2, <3>2 DEF Ready, SpareEnds, Spare
    <3>4. Idle(n)
      BY <1>1, <2>2, <3>1 DEF Idle, Excused, AtEnd
    <3> QED BY <2>2, <2>3, <3>2, <3>3, <3>4 DEF Sound, Nearly
  <2> QED BY <1>2, <2>4, <2>5, <2>6
<1> QED BY <1>3, <1>4, <1>5

\* Workspace i with other contents, for which it need not be excused any less;
\* at an end it has to stay blank.
LEMMA Altered ==
  ASSUME NEW m, Sound(m), NEW i \in 1..Len(m.ws), NEW w \in Workspace,
         HasWindowsOrName(w) \/ IsBlank(m.ws[i]), AtEnd(m, i) => Spare(m, w),
         NEW n, n = Rewritten(m, i, w)
  PROVE  Sound(n) /\ SameOutput(m, n)
<1>0. /\ Formed(m) /\ ~m.panicked /\ SpareEnds(m) /\ SwitchFits(m) /\ Idle(m)
      /\ m.eaf => Len(m.ws) < 2 \/ Len(m.ws) > 2
  BY DEF Sound, Nearly, Ready
<1>1. /\ Formed(n) /\ SameOutput(m, n) /\ Len(n.ws) = Len(m.ws)
      /\ n.ws[i] = w /\ \A j \in 1..Len(m.ws) : j # i => n.ws[j] = m.ws[j]
      /\ n.active = m.active /\ n.panicked = m.panicked /\ n.sw = m.sw
  BY <1>0, RewrittenFacts
<1>2. PICK len \in Nat : len = Len(m.ws)
  BY <1>0, MonitorFields DEF Formed
<1>3. len \in 1..len /\ 1 \in 1..len /\ i \in 1..len
  BY <1>2
<1>4. Spare(m, n.ws[len]) /\ (m.eaf => Spare(m, n.ws[1]))
  BY <1>0, <1>1, <1>2, <1>3 DEF SpareEnds, AtEnd
<1>5. SpareEnds(n)
  BY <1>1, <1>2, <1>4, SpareAlike DEF SpareEnds, SameOutput
<1>6. ASSUME m.sw.kind = "none", NEW j \in 1..Len(m.ws) PROVE Excused(n, j)
  <2>1. Excused(m, j)
    BY <1>0, <1>6 DEF Idle
  <2>2. CASE j = i
    BY <1>1, <2>1, <2>2 DEF Excused, AtEnd, IsBlank, SameOutput
  <2>3. CASE j # i
    BY <1>1, <2>1, <2>3 DEF Excused, AtEnd, SameOutput
  <2> QED BY <2>2, <2>3
<1> QED BY <1>0, <1>1, <1>5, <1>6 DEF Sound, Nearly, Ready, SwitchFits, Idle, SameOutput

\* set_workspace_name, on the focused monitor: workspace i has a name now.
NamedEnds(m, i, id) ==
  LET m1 == IF m.eaf /\ i = 1 THEN AddWorkspaceTop(m, id) ELSE m
  IN  IF i = Len(m.ws) THEN AddWorkspaceBottom(m1, id + 1) ELSE m1

\* set_workspace_name, whose workspace is blank no more
LEMMA Named ==
  ASSUME NEW m, Sound(m), NEW i \in 1..Len(m.ws), NEW w \in Workspace, HasWindowsOrName(w),
         NEW f, f = Rewritten(m, i, w), NEW id \in Id, NEW n, n = NamedEnds(f, i, id)
  PROVE  Sound(n) /\ SameOutput(m, n)
<1>0. Nearly(m) /\ Formed(m) /\ Len(m.ws) \in Nat /\ IdleBut(m, i)
  BY MonitorFields DEF Sound, Nearly, Ready, Formed, Idle, IdleBut
<1>1. FilledAt(m, f, i)
  BY <1>0, RewrittenFacts DEF FilledAt
<1>2. PICK len \in Nat : len = Len(f.ws)
  BY <1>0, <1>1 DEF FilledAt
<1>3. Formed(f) /\ i \in 1..len
  BY <1>0, <1>1, <1>2 DEF FilledAt
<1>4. PICK d \in 0..1 : d = 1 <=> f.eaf /\ i = 1
  <2>1. CASE f.eaf /\ i = 1
    BY <2>1
  <2>2. CASE ~(f.eaf /\ i = 1)
    BY <2>2
  <2> QED BY <2>1, <2>2
<1>5. PICK c \in 0..1 : c = 1 <=> i = Len(f.ws)
  <2>1. CASE i = Len(f.ws)
    BY <2>1
  <2>2. CASE i # Len(f.ws)
    BY <2>2
  <2> QED BY <2>1, <2>2
<1>6. PICK x : x = IF f.eaf /\ i = 1 THEN AddWorkspaceTop(f, id) ELSE f
  OBVIOUS
<1>7. /\ Formed(x) /\ SameOutput(f, x) /\ Len(x.ws) = len + d
      /\ \A j \in 1..len : x.ws[j + d] = f.ws[j]
      /\ d = 1 => Spare(x, x.ws[1])
      /\ x.active = f.active + d /\ x.panicked = f.panicked
      /\ x.sw.kind = f.sw.kind /\ (SwitchFits(f) => SwitchFits(x))
  <2>1. CASE f.eaf /\ i = 1
    <3>1. /\ Formed(x) /\ SameOutput(f, x) /\ Len(x.ws) = Len(f.ws) + 1
          /\ \A j \in 1..Len(f.ws) : x.ws[j + 1] = f.ws[j]
          /\ Spare(x, x.ws[1])
          /\ x.active = f.active + 1 /\ x.panicked = f.panicked
          /\ x.sw.kind = f.sw.kind /\ (SwitchFits(f) => SwitchFits(x))
      BY <1>3, <1>6, <2>1, AddedTop
    <3>2. d = 1
      BY <1>4, <2>1
    <3> QED BY <1>2, <3>1, <3>2
  <2>2. CASE ~(f.eaf /\ i = 1)
    <3>1. d = 0 /\ x = f
      BY <1>4, <1>6, <2>2
    <3>2. f.active \in Nat /\ f.active + d = f.active
      BY <1>3, <3>1 DEF Formed, Monitor
    <3> QED BY <1>2, <1>3, <3>1, <3>2 DEF SameOutput
  <2> QED BY <2>1, <2>2
<1>8. PICK id1 \in Id : id1 = id + 1
  BY DEF Id
<1>9. n = IF i = Len(f.ws) THEN AddWorkspaceBottom(x, id1) ELSE x
  BY <1>6, <1>8 DEF NamedEnds
<1>10. /\ Formed(n) /\ SameOutput(x, n) /\ Len(n.ws) = len + d + c
       /\ \A j \in 1..(len + d) : n.ws[j] = x.ws[j]
       /\ c = 1 => Spare(n, n.ws[Len(n.ws)])
       /\ n.active = x.active /\ n.panicked = x.panicked
       /\ n.sw.kind = x.sw.kind /\ (SwitchFits(x) => SwitchFits(n))
  <2>1. CASE i = Len(f.ws)
    <3>1. /\ Formed(n) /\ SameOutput(x, n) /\ Len(n.ws) = Len(x.ws) + 1
          /\ \A j \in 1..Len(x.ws) : n.ws[j] = x.ws[j]
          /\ Spare(n, n.ws[Len(n.ws)])
          /\ n.active = x.active /\ n.panicked = x.panicked
          /\ n.sw.kind = x.sw.kind /\ (SwitchFits(x) => SwitchFits(n))
      BY <1>7, <1>9, <2>1, AddedBottom
    <3>2. c = 1
      BY <1>5, <2>1
    <3> QED BY <1>7, <3>1, <3>2
  <2>2. CASE i # Len(f.ws)
    <3>1. c = 0 /\ n = x
      BY <1>5, <1>9, <2>2
    <3> QED BY <1>7, <3>1 DEF SameOutput
  <2> QED BY <2>1, <2>2
<1>11. Grown(f, n, i, d, c)
  <2>1. SameOutput(f, n) /\ Len(n.ws) = Len(f.ws) + d + c
    BY <1>2, <1>7, <1>10 DEF SameOutput
  <2>2. \A j \in 1..Len(f.ws) : n.ws[j + d] = f.ws[j]
    <3>1. SUFFICES ASSUME NEW j \in 1..len PROVE n.ws[j + d] = f.ws[j]
      BY <1>2
    <3>2. PICK k : k = j + d
      OBVIOUS
    <3>3. k \in 1..(len + d)
      BY <3>2
    <3> QED BY <1>7, <1>10, <3>2, <3>3
  <2>3. ASSUME d = 1 PROVE Spare(n, n.ws[1])
    <3>1. 1 \in 1..(len + d)
      BY <2>3
    <3> QED BY <1>7, <1>10, <2>3, <3>1, SpareAlike
  <2> QED BY <1>4, <1>5, <1>7, <1>10, <2>1, <2>2, <2>3 DEF Grown
<1> QED BY <1>0, <1>1, <1>11, EndsFilled DEF Sound

-----------------------------------------------------------------------------
(***************************************************************************)
(* What the same operations do to the workspaces that a monitor has:       *)
(* whatever is reordered, dropped or put in, the stack holds each          *)
(* workspace once, and only blank ones come and go.                        *)
(***************************************************************************)

\* The stack s holds the workspaces C: each of them once, but for blank ones that
\* it has dropped.
Holds(s, C) ==
  /\ s \in Seq(Workspace)
  /\ \A i \in 1..Len(s) : s[i] \in C
  /\ \A v \in C : IsBlank(v) \/ \E i \in 1..Len(s) : s[i] = v
  /\ \A i, j \in 1..Len(s) : s[i].id = s[j].id => i = j

\* Blank workspaces that were dropped are not missed.
LEMMA HoldsMore ==
  ASSUME NEW s, NEW C, Holds(s, C), NEW B, \A v \in B : IsBlank(v)
  PROVE  Holds(s, C \cup B)
  BY DEF Holds

\* A blank workspace less is none less.
LEMMA HoldsLess ==
  ASSUME NEW s, NEW C, NEW v, Holds(s, C \ {v}), IsBlank(v), v \in C
  PROVE  Holds(s, C)
<1>1. \A u \in {v} : IsBlank(u)
  OBVIOUS
<1>2. (C \ {v}) \cup {v} = C
  OBVIOUS
<1>3. Holds(s, (C \ {v}) \cup {v})
  BY <1>1, HoldsMore
<1> QED BY <1>2, <1>3

\* A workspace with an id of its own is put in.
LEMMA HoldsInserted ==
  ASSUME NEW s, NEW C, Holds(s, C), NEW i \in 1..(Len(s) + 1), NEW e \in Workspace,
         \A j \in 1..Len(s) : s[j].id # e.id,
         NEW t, t = InsertAt(s, i, e)
  PROVE  Holds(t, C \cup {e})
<1>1. PICK len \in Nat : len = Len(s)
  BY DEF Holds
<1>2. /\ t \in Seq(Workspace) /\ Len(t) = len + 1
      /\ \A j \in 1..(len + 1) : t[j] = IF j < i THEN s[j] ELSE IF j = i THEN e ELSE s[j - 1]
  <2>1. s \in Seq(Workspace)
    BY DEF Holds
  <2>2. t \in Seq(Workspace) /\ WithInserted(t, s, i, e)
    BY <2>1, Inserted, Zenon
  <2> QED BY <1>1, <2>2 DEF WithInserted
<1>3. /\ \A j \in 1..len : s[j] \in C /\ s[j].id # e.id
      /\ \A v \in C : IsBlank(v) \/ \E j \in 1..len : s[j] = v
      /\ \A j, k \in 1..len : s[j].id = s[k].id => j = k
  BY <1>1 DEF Holds
<1>4. \A j \in 1..(len + 1) : j < i => j \in 1..len /\ t[j] = s[j]
  BY <1>1, <1>2
<1>5. \A j \in 1..(len + 1) : i < j => j - 1 \in 1..len /\ t[j] = s[j - 1]
  BY <1>1, <1>2
<1>6. i \in 1..(len + 1) /\ t[i] = e
  BY <1>1, <1>2
<1>7. \A j \in 1..(len + 1) : j < i \/ j = i \/ i < j
  BY <1>6
<1>8. \A j \in 1..(len + 1) : t[j] \in C \cup {e}
  BY <1>3, <1>4, <1>5, <1>6, <1>7
<1>9. ASSUME NEW v \in C \cup {e} PROVE IsBlank(v) \/ \E j \in 1..(len + 1) : t[j] = v
  <2>1. CASE v = e
    BY <1>6, <2>1
  <2>2. ASSUME NEW k \in 1..len, s[k] = v PROVE \E j \in 1..(len + 1) : t[j] = v
    <3>1. CASE k < i
      BY <1>2, <2>2, <3>1
    <3>2. CASE i <= k
      <4>1. PICK l : l = k + 1
        OBVIOUS
      <4>2. l \in 1..(len + 1) /\ i < l /\ l - 1 = k
        BY <1>6, <3>2, <4>1
      <4> QED BY <1>5, <2>2, <4>2
    <3> QED BY <1>6, <3>1, <3>2
  <2> QED BY <1>3, <2>1, <2>2
<1>10. ASSUME NEW j \in 1..(len + 1), NEW k \in 1..(len + 1), t[j].id = t[k].id PROVE j = k
  <2>1. CASE j < i /\ k < i
    BY <1>3, <1>4, <1>10, <2>1
  <2>2. CASE j < i /\ i < k
    <3>1. j = k - 1
      BY <1>3, <1>4, <1>5, <1>10, <2>2
    <3> QED BY <1>6, <2>2, <3>1
  <2>3. CASE i < j /\ k < i
    <3>1. j - 1 = k
      BY <1>3, <1>4, <1>5, <1>10, <2>3
    <3> QED BY <1>6, <2>3, <3>1
  <2>4. CASE i < j /\ i < k
    <3>1. j - 1 = k - 1
      BY <1>3, <1>5, <1>10, <2>4
    <3> QED BY <3>1
  <2>5. CASE j = i
    BY <1>3, <1>4, <1>5, <1>6, <1>7, <1>10, <2>5
  <2>6. CASE k = i
    BY <1>3, <1>4, <1>5, <1>6, <1>7, <1>10, <2>6
  <2> QED BY <1>7, <2>1, <2>2, <2>3, <2>4, <2>5, <2>6
<1> QED BY <1>2, <1>8, <1>9, <1>10 DEF Holds

\* A workspace is taken out.
LEMMA HoldsRemoved ==
  ASSUME NEW s, NEW C, Holds(s, C), NEW i \in 1..Len(s), NEW t, t = RemoveAt(s, i)
  PROVE  Holds(t, C \ {s[i]}) /\ \A j \in 1..Len(t) : t[j].id # s[i].id
<1>1. PICK len \in Nat : len = Len(s)
  BY DEF Holds
<1>2. /\ t \in Seq(Workspace) /\ Len(t) = len - 1
      /\ \A j \in 1..(len - 1) : t[j] = IF j < i THEN s[j] ELSE s[j + 1]
  <2>1. s \in Seq(Workspace)
    BY DEF Holds
  <2>2. t \in Seq(Workspace) /\ WithRemoved(t, s, i)
    BY <2>1, Removed, Zenon
  <2> QED BY <1>1, <2>2 DEF WithRemoved
<1>3. /\ \A j \in 1..len : s[j] \in C
      /\ \A v \in C : IsBlank(v) \/ \E j \in 1..len : s[j] = v
      /\ \A j, k \in 1..len : s[j].id = s[k].id => j = k
  BY <1>1 DEF Holds
<1>4. i \in 1..len
  BY <1>1
<1>5. \A j \in 1..(len - 1) : j < i => j \in 1..len /\ j # i /\ t[j] = s[j]
  BY <1>2, <1>4
<1>6. \A j \in 1..(len - 1) : ~(j < i) => j + 1 \in 1..len /\ j + 1 # i /\ t[j] = s[j + 1]
  BY <1>2, <1>4
<1>7. ASSUME NEW j \in 1..(len - 1) PROVE t[j] \in C /\ t[j].id # s[i].id
  <2>1. PICK k \in 1..len : k # i /\ t[j] = s[k]
    BY <1>5, <1>6
  <2> QED BY <1>3, <1>4, <2>1
<1>8. ASSUME NEW v \in C \ {s[i]} PROVE IsBlank(v) \/ \E j \in 1..(len - 1) : t[j] = v
  <2>1. ASSUME NEW k \in 1..len, s[k] = v PROVE \E j \in 1..(len - 1) : t[j] = v
    <3>1. k # i
      BY <1>8, <2>1
    <3>2. CASE k < i
      <4>1. k \in 1..(len - 1)
        BY <1>4, <3>2
      <4> QED BY <1>5, <2>1, <3>2, <4>1
    <3>3. CASE i < k
      <4>1. k - 1 \in 1..(len - 1) /\ ~(k - 1 < i) /\ k - 1 + 1 = k
        BY <1>4, <3>3
      <4> QED BY <1>6, <2>1, <4>1
    <3> QED BY <1>4, <3>1, <3>2, <3>3
  <2> QED BY <1>3, <2>1
<1>9. ASSUME NEW j \in 1..(len - 1), NEW k \in 1..(len - 1), t[j].id = t[k].id PROVE j = k
  <2>1. CASE j < i /\ k < i
    BY <1>3, <1>5, <1>9, <2>1
  <2>2. CASE j < i /\ ~(k < i)
    <3>1. j = k + 1
      <4>1. PICK a, b \in 1..len : a = j /\ b = k + 1 /\ t[j] = s[a] /\ t[k] = s[b]
        BY <1>5, <1>6, <2>2
      <4> QED BY <1>3, <1>9, <4>1
    <3> QED BY <1>4, <2>2, <3>1
  <2>3. CASE ~(j < i) /\ k < i
    <3>1. j + 1 = k
      <4>1. PICK a, b \in 1..len : a = j + 1 /\ b = k /\ t[j] = s[a] /\ t[k] = s[b]
        BY <1>5, <1>6, <2>3
      <4> QED BY <1>3, <1>9, <4>1
    <3> QED BY <1>4, <2>3, <3>1
  <2>4. CASE ~(j < i) /\ ~(k < i)
    <3>1. t[j] = s[j + 1] /\ t[k] = s[k + 1]
      BY <1>6, <2>4
    <3>2. PICK a, b \in 1..len : a = j + 1 /\ b = k + 1
      BY <1>6, <2>4
    <3>3. s[a].id = s[b].id
      BY <1>9, <3>1, <3>2
    <3>4. a = b
      BY <1>3, <3>3
    <3> QED BY <3>2, <3>4
  <2> QED BY <2>1, <2>2, <2>3, <2>4
<1>10. \A j \in 1..(len - 1) : t[j] \in C \ {s[i]}
  BY <1>7
<1> QED BY <1>2, <1>7, <1>8, <1>9, <1>10 DEF Holds

\* Two workspaces change places.
LEMMA HoldsSwapped ==
  ASSUME NEW s, NEW C, Holds(s, C), NEW i \in 1..Len(s), NEW j \in 1..Len(s), NEW t, t = Swap(s, i, j)
  PROVE  Holds(t, C)
<1>1. PICK len \in Nat : len = Len(s)
  BY DEF Holds
<1>2. /\ t \in Seq(Workspace) /\ Len(t) = len
      /\ \A k \in 1..len : t[k] = IF k = j THEN s[i] ELSE IF k = i THEN s[j] ELSE s[k]
  <2>1. s \in Seq(Workspace)
    BY DEF Holds
  <2>2. t \in Seq(Workspace) /\ WithSwapped(t, s, i, j)
    BY <2>1, Swapped, Zenon
  <2> QED BY <1>1, <2>2 DEF WithSwapped
<1>3. /\ \A k \in 1..len : s[k] \in C
      /\ \A v \in C : IsBlank(v) \/ \E k \in 1..len : s[k] = v
      /\ \A k, l \in 1..len : s[k].id = s[l].id => k = l
  BY <1>1 DEF Holds
<1>4. i \in 1..len /\ j \in 1..len
  BY <1>1
<1>5. \A k \in 1..len : t[k] \in C
  BY <1>2, <1>3, <1>4
<1>6. ASSUME NEW v \in C PROVE IsBlank(v) \/ \E k \in 1..len : t[k] = v
  BY <1>2, <1>3, <1>4
<1>7. \A k, l \in 1..len : t[k].id = t[l].id => k = l
  BY <1>2, <1>3, <1>4
<1> QED BY <1>2, <1>5, <1>6, <1>7 DEF Holds

\* Some of the workspaces stay, and what does not is not in D, or blank.
LEMMA HoldsKept ==
  ASSUME NEW s, NEW C, Holds(s, C), NEW K \in SUBSET (1..Len(s)), NEW D \in SUBSET C,
         \A k \in K : s[k] \in D,
         \A k \in (1..Len(s)) \ K : s[k] \in D => IsBlank(s[k]),
         NEW t, t = Keep(s, K)
  PROVE  Holds(t, D)
<1>0. s \in Seq(Workspace) /\ Len(s) \in Nat
  BY DEF Holds
<1>1. PICK c : c = Cardinality(K)
  OBVIOUS
<1>2. /\ t \in Seq(Workspace) /\ Len(t) = c
      /\ \A j \in 1..c : Nth(K, j) \in K /\ t[j] = s[Nth(K, j)] /\ RankIn(K, Nth(K, j)) = j
      /\ \A k \in K : RankIn(K, k) \in 1..c /\ t[RankIn(K, k)] = s[k]
  BY <1>0, <1>1, Kept
<1>3. \A j \in 1..c : t[j] \in D
  BY <1>2
<1>4. ASSUME NEW v \in D PROVE IsBlank(v) \/ \E j \in 1..c : t[j] = v
  <2>1. ASSUME NEW k \in 1..Len(s), s[k] = v PROVE IsBlank(v) \/ \E j \in 1..c : t[j] = v
    <3>1. CASE k \in K
      BY <1>2, <2>1, <3>1
    <3>2. CASE k \notin K
      BY <2>1, <3>2
    <3> QED BY <3>1, <3>2
  <2> QED BY <2>1 DEF Holds
<1>5. ASSUME NEW i \in 1..c, NEW j \in 1..c, t[i].id = t[j].id PROVE i = j
  <2>1. PICK k, l \in K : t[i] = s[k] /\ t[j] = s[l] /\ RankIn(K, k) = i /\ RankIn(K, l) = j
    BY <1>2
  <2>2. k = l
    BY <1>5, <2>1 DEF Holds
  <2> QED BY <2>1, <2>2
<1> QED BY <1>2, <1>3, <1>4, <1>5 DEF Holds

\* A workspace is changed, but for its id.
LEMMA HoldsExchanged ==
  ASSUME NEW s, NEW C, Holds(s, C), NEW i \in 1..Len(s), NEW w \in Workspace, w.id = s[i].id,
         NEW t, t = [s EXCEPT ![i] = w]
  PROVE  Holds(t, (C \ {s[i]}) \cup {w})
<1>0. s \in Seq(Workspace)
  BY DEF Holds
<1>1. /\ t \in Seq(Workspace) /\ Len(t) = Len(s) /\ t[i] = w
      /\ \A j \in 1..Len(s) : j # i => t[j] = s[j]
  BY <1>0
<1>2. \A j \in 1..Len(s) : t[j] \in (C \ {s[i]}) \cup {w}
  BY <1>1 DEF Holds
<1>3. \A v \in (C \ {s[i]}) \cup {w} : IsBlank(v) \/ \E j \in 1..Len(s) : t[j] = v
  BY <1>1 DEF Holds
<1>4. \A j, k \in 1..Len(s) : t[j].id = t[k].id => j = k
  <2>1. \A j \in 1..Len(s) : t[j].id = s[j].id
    BY <1>1
  <2> QED BY <2>1 DEF Holds
<1> QED BY <1>1, <1>2, <1>3, <1>4 DEF Holds

\* Of two workspaces the second is blank, and goes.
LEMMA HoldsFirst ==
  ASSUME NEW s, NEW C, Holds(s, C), Len(s) = 2, IsBlank(s[2]), NEW t, t = <<s[1]>>
  PROVE  Holds(t, C)
<1>1. s \in Seq(Workspace) /\ 1 \in 1..Len(s) /\ 2 \in 1..Len(s)
  BY DEF Holds
<1>2. t \in Seq(Workspace) /\ Len(t) = 1 /\ t[1] = s[1]
  BY <1>1
<1>3. \A j \in 1..Len(s) : j = 1 \/ j = 2
  OBVIOUS
<1>4. \A j \in 1..1 : j = 1
  OBVIOUS
<1>5. \A v \in C : IsBlank(v) \/ \E j \in 1..Len(t) : t[j] = v
  BY <1>2, <1>3 DEF Holds
<1> QED BY <1>1, <1>2, <1>4, <1>5 DEF Holds

-----------------------------------------------------------------------------
\* All workspaces of C are older than id.
Before(C, id) == \A v \in C : v \in Workspace /\ v.id < id

\* C and the new workspace id of output o.
Plus(C, o, id) == C \cup {NewWorkspace(o, id)}

\* C and the new workspaces id and id + 1 of output o.
Plus2(C, o, id) == Plus(Plus(C, o, id), o, id + 1)

\* C with w instead of v.
Instead(C, v, w) == (C \ {v}) \cup {w}

\* What a new workspace is.
LEMMA NewFields ==
  ASSUME NEW o, NEW id
  PROVE  /\ NewWorkspace(o, id).id = id /\ NewWorkspace(o, id).orig = o
         /\ NewWorkspace(o, id).name = NoName /\ NewWorkspace(o, id).wins = {}
         /\ IsBlank(NewWorkspace(o, id))
  BY DEF NewWorkspace, IsBlank, HasWindowsOrName

\* What is older than id is older than id + 1, and so is the workspace id itself.
LEMMA BeforePlus ==
  ASSUME NEW C, NEW id \in Id, Before(C, id), NEW o \in Output
  PROVE  Before(C, id + 1) /\ Before(Plus(C, o, id), id + 1) /\ id + 1 \in Id
<1>1. id \in Nat /\ id + 1 \in Id /\ id < id + 1
  BY DEF Id
<1>2. ASSUME NEW v \in C PROVE v \in Workspace /\ v.id < id + 1
  <2>1. v \in Workspace /\ v.id < id
    BY DEF Before
  <2>2. v.id \in Nat
    BY <2>1, WorkspaceFields DEF Id
  <2> QED BY <1>1, <2>1, <2>2
<1>3. NewWorkspace(o, id) \in Workspace /\ NewWorkspace(o, id).id = id
  BY NewWorkspaceFacts, NewFields
<1>4. ASSUME NEW v \in Plus(C, o, id) PROVE v \in Workspace /\ v.id < id + 1
  BY <1>1, <1>2, <1>3 DEF Plus
<1> QED BY <1>1, <1>2, <1>4 DEF Before

\* A stack holds no less with a new workspace that it does not show.
LEMMA HoldsPlus ==
  ASSUME NEW s, NEW C, Holds(s, C), NEW o, NEW id
  PROVE  Holds(s, Plus(C, o, id))
<1>1. \A v \in {NewWorkspace(o, id)} : IsBlank(v)
  BY NewFields
<1> QED BY <1>1, HoldsMore DEF Plus

\* add_workspace_at
LEMMA AddedHolds ==
  ASSUME NEW m, Formed(m), NEW C, Holds(m.ws, C), NEW id \in Id, Before(C, id),
         NEW i \in 1..(Len(m.ws) + 1), NEW n, n = AddWorkspaceAt(m, i, id)
  PROVE  Holds(n.ws, Plus(C, m.output, id))
<1>1. PICK s, w : s = m.ws /\ w = NewWorkspace(m.output, id)
  OBVIOUS
<1>2. m \in Monitor /\ w \in Workspace /\ w.id = id
  BY <1>1, NewWorkspaceFacts, NewFields, MonitorFields DEF Formed
<1>3. n.ws = InsertAt(s, i, w)
  BY <1>1, <1>2 DEF AddWorkspaceAt, Monitor
<1>4. \A j \in 1..Len(s) : s[j].id # w.id
  <2>1. ASSUME NEW j \in 1..Len(s) PROVE s[j].id # w.id
    <3>1. s[j] \in C
      BY <1>1 DEF Holds
    <3>2. s[j] \in Workspace /\ s[j].id < id
      BY <3>1 DEF Before
    <3>3. s[j].id \in Nat /\ id \in Nat
      BY <3>2, WorkspaceFields DEF Id
    <3> QED BY <1>2, <3>2, <3>3
  <2> QED BY <2>1
<1>5. Holds(s, C) /\ i \in 1..(Len(s) + 1)
  BY <1>1
<1> QED BY <1>1, <1>2, <1>3, <1>4, <1>5, HoldsInserted DEF Plus

\* add_workspace_top
LEMMA AddedTopHolds ==
  ASSUME NEW m, Formed(m), NEW C, Holds(m.ws, C), NEW id \in Id, Before(C, id),
         NEW n, n = AddWorkspaceTop(m, id)
  PROVE  Holds(n.ws, Plus(C, m.output, id))
<1>1. PICK one \in 1..(Len(m.ws) + 1) : one = 1
  BY MonitorFields DEF Formed
<1> QED BY <1>1, AddedHolds DEF AddWorkspaceTop

\* add_workspace_bottom
LEMMA AddedBottomHolds ==
  ASSUME NEW m, Formed(m), NEW C, Holds(m.ws, C), NEW id \in Id, Before(C, id),
         NEW n, n = AddWorkspaceBottom(m, id)
  PROVE  Holds(n.ws, Plus(C, m.output, id))
<1>1. PICK len \in Nat : len = Len(m.ws)
  BY DEF Holds
<1>2. PICK b \in 1..(Len(m.ws) + 1) : b = Len(m.ws) + 1
  BY <1>1
<1> QED BY <1>2, AddedHolds DEF AddWorkspaceBottom

\* A new workspace at the bottom (if below) and then one at the top (if above).
Ended(m, below, above, id) ==
  LET m1 == IF below THEN AddWorkspaceBottom(m, id) ELSE m
  IN  IF above THEN AddWorkspaceTop(m1, id + 1) ELSE m1

\* The ends get blank workspaces, and nothing else changes.
LEMMA EndedHolds ==
  ASSUME NEW m, Formed(m), NEW C, Holds(m.ws, C), NEW id \in Id, Before(C, id),
         NEW below \in BOOLEAN, NEW above \in BOOLEAN, NEW n, n = Ended(m, below, above, id)
  PROVE  Formed(n) /\ SameOutput(m, n) /\ Holds(n.ws, Plus2(C, m.output, id))
<1>1. PICK m1 : m1 = IF below THEN AddWorkspaceBottom(m, id) ELSE m
  OBVIOUS
<1>2. m.output \in Output
  BY MonitorFields DEF Formed
<1>3. Formed(m1) /\ SameOutput(m, m1) /\ Holds(m1.ws, Plus(C, m.output, id))
  <2>1. CASE below
    BY <1>1, <2>1, AddedBottom, AddedBottomHolds
  <2>2. CASE ~below
    BY <1>1, <2>2, HoldsPlus DEF SameOutput
  <2> QED BY <2>1, <2>2
<1>4. PICK id1 : id1 = id + 1
  OBVIOUS
<1>5. id1 \in Id /\ Before(Plus(C, m.output, id), id1)
  BY <1>2, <1>4, BeforePlus
<1>6. CASE above
  <2>1. n = AddWorkspaceTop(m1, id1)
    BY <1>1, <1>4, <1>6 DEF Ended
  <2>2. Formed(n) /\ SameOutput(m1, n)
    BY <1>3, <1>5, <2>1, AddedTop
  <2>3. Holds(n.ws, Plus(Plus(C, m.output, id), m1.output, id1))
    BY <1>3, <1>5, <2>1, AddedTopHolds
  <2> QED BY <1>3, <1>4, <2>2, <2>3 DEF SameOutput, Plus2
<1>7. CASE ~above
  <2>1. n = m1
    BY <1>1, <1>7 DEF Ended
  <2> QED BY <1>3, <2>1, HoldsPlus DEF Plus2
<1> QED BY <1>6, <1>7

\* The blank workspaces at the ends when workspace i has been filled.
LEMMA KeptEndsHolds ==
  ASSUME NEW m, Formed(m), NEW C, Holds(m.ws, C), NEW id \in Id, Before(C, id),
         NEW i, NEW n, n = KeepEnds(m, i, id)
  PROVE  Formed(n) /\ SameOutput(m, n) /\ Holds(n.ws, Plus2(C, m.output, id))
<1>1. PICK below, above \in BOOLEAN : (below <=> i = Len(m.ws)) /\ (above <=> m.eaf /\ i = 1)
  <2>1. (i = Len(m.ws)) \in BOOLEAN /\ (m.eaf /\ i = 1) \in BOOLEAN
    BY Zenon
  <2> QED BY <2>1, Zenon
<1>2. PICK m1 : m1 = IF below THEN AddWorkspaceBottom(m, id) ELSE m
  OBVIOUS
<1>3. m1.eaf = m.eaf
  BY <1>2, AddedBottom DEF SameOutput
<1>4. n = Ended(m, below, above, id)
  BY <1>1, <1>2, <1>3 DEF KeepEnds, Ended
<1> QED BY <1>1, <1>4, EndedHolds

\* clean_up_workspaces, in which no assertion fails
LEMMA CleanedHolds ==
  ASSUME NEW m \in Monitor, NEW C, Holds(m.ws, C), NEW n, n = CleanUpWorkspaces(m), ~n.panicked
  PROVE  Holds(n.ws, C)
<1> DEFINE K == (1..Len(m.ws)) \ CleanUpDropped(m)
<1>1. PICK ws : ws = Keep(m.ws, K)
  OBVIOUS
<1>2. \A i \in (1..Len(m.ws)) \ K : IsBlank(m.ws[i])
  BY DEF CleanUpDropped
<1>3. Holds(ws, C)
  <2>1. PICK s : s = m.ws
    OBVIOUS
  <2>2. /\ Holds(s, C) /\ K \in SUBSET (1..Len(s)) /\ C \in SUBSET C
        /\ \A i \in (1..Len(s)) \ K : IsBlank(s[i])
    BY <1>2, <2>1
  <2> HIDE DEF K
  <2>3. \A k \in K : s[k] \in C
    BY <2>2 DEF Holds
  <2> QED BY <1>1, <2>1, <2>2, <2>3, HoldsKept
<1>4. CASE m.eaf /\ Len(ws) = 2
  <2>1. n.ws = <<ws[1]>> /\ (n.panicked <=> \/ m.panicked \/ m.sw.kind # "none"
                                            \/ \E i \in 1..2 : HasWindowsOrName(ws[i]))
    BY <1>1, <1>4 DEF CleanUpWorkspaces, Monitor
  <2>2. IsBlank(ws[2])
    <3>1. 2 \in 1..2
      OBVIOUS
    <3> QED BY <2>1, <3>1 DEF IsBlank
  <2> QED BY <1>3, <1>4, <2>1, <2>2, HoldsFirst
<1>5. CASE ~(m.eaf /\ Len(ws) = 2)
  <2>1. n.ws = ws
    BY <1>1, <1>5 DEF CleanUpWorkspaces, Monitor
  <2> QED BY <1>3, <2>1
<1> QED BY <1>4, <1>5

\* The switch ends, and the stack is cleaned up.
LEMMA SettledHolds ==
  ASSUME NEW m \in Monitor, NEW C, Holds(m.ws, C), NEW n, n = Settle(m), ~n.panicked
  PROVE  Holds(n.ws, C)
<1>1. PICK still : still = [m EXCEPT !.sw = NoSwitch]
  OBVIOUS
<1>2. still \in Monitor
  BY <1>1, SwitchesAtRest, Zenon DEF Monitor
<1>3. still.ws = m.ws
  BY <1>1 DEF Monitor
<1> QED BY <1>1, <1>2, <1>3, CleanedHolds DEF Settle

\* With no switch in progress, the stack is cleaned up.
LEMMA CleanedIfIdleHolds ==
  ASSUME NEW m \in Monitor, NEW C, Holds(m.ws, C), NEW n, n = CleanUpIfIdle(m), ~n.panicked
  PROVE  Holds(n.ws, C)
  BY CleanedHolds DEF CleanUpIfIdle

-----------------------------------------------------------------------------
\* A workspace without the windows W (Workspace::remove_window).
Less(v, W) == [v EXCEPT !.wins = @ \ W]

\* A workspace with the windows W as well, which output o owns from then on
\* unless it has a name (Workspace::add_window).
More(v, W, o) == [v EXCEPT !.wins = @ \cup W, !.orig = IF v.name = NoName THEN o ELSE @]

\* A workspace under another name (Workspace::set_name).
Renamed(v, n) == [v EXCEPT !.name = n]

\* What becomes of a workspace that loses windows.
LEMMA LessFields ==
  ASSUME NEW v \in Workspace, NEW W, NEW w, w = Less(v, W)
  PROVE  w \in Workspace /\ w.id = v.id /\ w.orig = v.orig /\ w.name = v.name /\ w.wins = v.wins \ W
<1>1. v.wins \ W \in SUBSET Window
  BY WorkspaceFields
<1>2. w \in Workspace
  BY <1>1, Zenon DEF Less, Workspace
<1> QED BY <1>2 DEF Less, Workspace

\* What becomes of a workspace that gets windows.
LEMMA MoreFields ==
  ASSUME NEW v \in Workspace, NEW W \in SUBSET Window, NEW o \in Output, NEW w, w = More(v, W, o)
  PROVE  /\ w \in Workspace /\ w.id = v.id /\ w.name = v.name /\ w.wins = v.wins \cup W
         /\ (v.name = NoName => w.orig = o) /\ (v.name # NoName => w.orig = v.orig)
<1>1. PICK x : x = v.wins \cup W
  OBVIOUS
<1>2. PICK p : p = IF v.name = NoName THEN o ELSE v.orig
  OBVIOUS
<1>3. x \in SUBSET Window /\ p \in Output \cup {NoOutput}
  BY <1>1, <1>2, WorkspaceFields
<1>4. w = [v EXCEPT !.wins = x, !.orig = p]
  BY <1>1, <1>2 DEF More
<1>5. w \in Workspace
  BY <1>3, <1>4, Zenon DEF Workspace
<1>6. w.id = v.id /\ w.name = v.name /\ w.wins = x /\ w.orig = p
  BY <1>4 DEF Workspace
<1> QED BY <1>1, <1>2, <1>5, <1>6

\* What becomes of a workspace that gets or loses its name.
LEMMA RenamedFields ==
  ASSUME NEW v \in Workspace, NEW n \in Name \cup {NoName}, NEW w, w = Renamed(v, n)
  PROVE  w \in Workspace /\ w.id = v.id /\ w.orig = v.orig /\ w.name = n /\ w.wins = v.wins
<1>1. w \in Workspace
  BY Zenon DEF Renamed, Workspace
<1> QED BY <1>1 DEF Renamed, Workspace

\* A changed workspace is as old as before.
LEMMA BeforeInstead ==
  ASSUME NEW C, NEW id, Before(C, id), NEW v \in C, NEW w \in Workspace, w.id = v.id
  PROVE  Before(Instead(C, v, w), id)
  BY DEF Before, Instead

\* What is older than id is older than id + 2, with the new workspaces of Plus2.
LEMMA BeforePlus2 ==
  ASSUME NEW C, NEW id \in Id, Before(C, id), NEW o \in Output
  PROVE  Before(Plus2(C, o, id), id + 2) /\ id + 2 \in Id
<1>1. PICK id1 \in Id : id1 = id + 1 /\ Before(Plus(C, o, id), id1)
  BY BeforePlus
<1>2. Before(Plus(Plus(C, o, id), o, id1), id1 + 1) /\ id1 + 1 \in Id
  BY <1>1, BeforePlus
<1>3. id1 + 1 = id + 2
  BY <1>1 DEF Id
<1> QED BY <1>1, <1>2, <1>3 DEF Plus2

\* A workspace of the monitor is changed, but for its id.
LEMMA RewrittenHolds ==
  ASSUME NEW m, Formed(m), NEW C, Holds(m.ws, C), NEW i \in 1..Len(m.ws),
         NEW w \in Workspace, w.id = m.ws[i].id, NEW n, n = Rewritten(m, i, w)
  PROVE  /\ Formed(n) /\ SameOutput(m, n) /\ n.ws = [m.ws EXCEPT ![i] = w]
         /\ Holds(n.ws, Instead(C, m.ws[i], w))
<1>1. PICK s, t : s = m.ws /\ t = [m.ws EXCEPT ![i] = w]
  OBVIOUS
<1>2. m \in Monitor
  BY DEF Formed
<1>3. n.ws = t
  BY <1>1, <1>2 DEF Rewritten, Monitor
<1>4. Holds(s, C) /\ i \in 1..Len(s) /\ w.id = s[i].id /\ t = [s EXCEPT ![i] = w]
  BY <1>1
<1>5. Holds(t, (C \ {s[i]}) \cup {w})
  BY <1>4, HoldsExchanged
<1>6. Formed(n) /\ SameOutput(m, n)
  BY RewrittenFacts
<1> QED BY <1>1, <1>3, <1>5, <1>6 DEF Instead

\* Workspace::remove_tile and remove_active_column
LEMMA TakenHolds ==
  ASSUME NEW m, Formed(m), NEW C, Holds(m.ws, C), NEW i \in 1..Len(m.ws), NEW W,
         NEW n, n = TakeWindows(m, i, W)
  PROVE  /\ Formed(n) /\ SameOutput(m, n) /\ n.ws = [m.ws EXCEPT ![i] = Less(m.ws[i], W)]
         /\ Holds(n.ws, Instead(C, m.ws[i], Less(m.ws[i], W)))
<1>0. m.ws[i] \in Workspace
  BY MonitorFields DEF Formed
<1>1. PICK w : w = Less(m.ws[i], W)
  OBVIOUS
<1>2. n = Rewritten(m, i, w)
  BY <1>1 DEF TakeWindows, Rewritten, Less
<1>3. w \in Workspace /\ w.id = m.ws[i].id
  BY <1>0, <1>1, LessFields
<1> QED BY <1>1, <1>2, <1>3, RewrittenHolds

\* add_tile and add_column, before the ends get blank workspaces
LEMMA FilledHolds ==
  ASSUME NEW m, Formed(m), NEW C, Holds(m.ws, C), NEW i \in 1..Len(m.ws),
         NEW W \in SUBSET Window, NEW n, n = Filled(m, i, W)
  PROVE  /\ Formed(n) /\ SameOutput(m, n)
         /\ Holds(n.ws, Instead(C, m.ws[i], More(m.ws[i], W, m.output)))
<1>0. m.ws[i] \in Workspace /\ m.output \in Output /\ m \in Monitor
  BY MonitorFields DEF Formed
<1>1. PICK v, w : v = m.ws[i] /\ w = More(m.ws[i], W, m.output)
  OBVIOUS
<1>2. n = Rewritten(m, i, w)
  <2>1. PICK x : x = [v EXCEPT !.wins = v.wins \cup W]
    OBVIOUS
  <2>2. PICK n1 : n1 = [m EXCEPT !.ws = [m.ws EXCEPT ![i] = x]]
    OBVIOUS
  <2>3. PICK o : o = IF v.name = NoName THEN m.output ELSE v.orig
    OBVIOUS
  <2>4. x.orig = v.orig
    BY <1>0, <1>1, <2>1 DEF Workspace
  <2>5. n1.ws = [m.ws EXCEPT ![i] = x] /\ n1.ws[i] = x
    BY <1>0, <2>2, MonitorFields DEF Monitor
  <2>6. n = [n1 EXCEPT !.ws = [n1.ws EXCEPT ![i] = [x EXCEPT !.orig = o]]]
    <3>1. n = [n1 EXCEPT !.ws[i].orig = IF m.ws[i].name = NoName THEN m.output ELSE n1.ws[i].orig]
      BY <1>1, <2>1, <2>2 DEF Filled
    <3>2. o = IF m.ws[i].name = NoName THEN m.output ELSE n1.ws[i].orig
      BY <1>1, <2>3, <2>4, <2>5
    <3> QED BY <2>5, <3>1, <3>2
  <2>7. w = [x EXCEPT !.orig = o]
    BY <1>1, <2>1, <2>3 DEF More
  <2>8. [n1.ws EXCEPT ![i] = w] = [m.ws EXCEPT ![i] = w]
    BY <2>5
  <2> QED BY <2>2, <2>6, <2>7, <2>8 DEF Rewritten
<1>3. w \in Workspace /\ w.id = m.ws[i].id
  <2>1. PICK o \in Output : o = m.output
    BY <1>0
  <2>2. v \in Workspace /\ w = More(v, W, o)
    BY <1>0, <1>1, <2>1
  <2>3. w \in Workspace /\ w.id = v.id
    BY <2>2, MoreFields, SMT
  <2> QED BY <1>1, <2>3
<1> QED BY <1>1, <1>2, <1>3, RewrittenHolds

\* add_tile and add_column
LEMMA WindowsAddedHolds ==
  ASSUME NEW m, Formed(m), NEW C, Holds(m.ws, C), NEW id \in Id, Before(C, id),
         NEW i \in 1..Len(m.ws), NEW W \in SUBSET Window,
         NEW activate, NEW n, n = AddWindows(m, i, W, activate, id)
  PROVE  /\ SameOutput(m, n)
         /\ Holds(n.ws, Plus2(Instead(C, m.ws[i], More(m.ws[i], W, m.output)), m.output, id))
<1>0. m.ws[i] \in Workspace /\ m.output \in Output /\ m.ws[i] \in C
  BY MonitorFields DEF Formed, Holds
<1>1. PICK f : f = Filled(m, i, W)
  OBVIOUS
<1>2. PICK w, D : w = More(m.ws[i], W, m.output) /\ D = Instead(C, m.ws[i], w)
  OBVIOUS
<1>3. Formed(f) /\ SameOutput(m, f) /\ Holds(f.ws, D)
  BY <1>1, <1>2, FilledHolds
<1>4. Before(D, id)
  <2>1. PICK v, o : v = m.ws[i] /\ o = m.output
    OBVIOUS
  <2>2. v \in Workspace /\ v \in C /\ o \in Output /\ w = More(v, W, o) /\ D = Instead(C, v, w)
    BY <1>0, <1>2, <2>1
  <2>3. v \in Workspace /\ o \in Output /\ w = More(v, W, o)
    BY <2>2
  <2>4. w \in Workspace /\ w.id = v.id
    BY <2>3, MoreFields, SMT
  <2> QED BY <2>2, <2>4, BeforeInstead
<1>5. PICK e : e = KeepEnds(f, i, id)
  OBVIOUS
<1>6. Formed(e) /\ SameOutput(f, e) /\ Holds(e.ws, Plus2(D, f.output, id))
  BY <1>3, <1>4, <1>5, KeptEndsHolds
<1>7. SameOutput(m, e) /\ Holds(e.ws, Plus2(D, m.output, id))
  BY <1>3, <1>6 DEF SameOutput
<1>8. n = e \/ \E a : n = ActivateWorkspace(e, a)
  BY <1>1, <1>5, Zenon DEF AddWindows, Filled
<1>9. n.ws = e.ws /\ SameOutput(e, n)
  BY <1>6, <1>8 DEF ActivateWorkspace, Formed, Monitor, SameOutput
<1> QED BY <1>2, <1>7, <1>9 DEF SameOutput

\* unname_workspace, in which no assertion fails
LEMMA UnnamedHolds ==
  ASSUME NEW m, Formed(m), NEW C, Holds(m.ws, C), NEW i \in 1..Len(m.ws),
         NEW n, n = UnnameWorkspace(m, i), ~n.panicked
  PROVE  Holds(n.ws, Instead(C, m.ws[i], Renamed(m.ws[i], NoName)))
<1>0. m.ws[i] \in Workspace
  BY MonitorFields DEF Formed
<1>1. PICK w : w = Renamed(m.ws[i], NoName)
  OBVIOUS
<1>2. PICK n1 : n1 = Rewritten(m, i, w)
  OBVIOUS
<1>3. n = CleanUpIfIdle(n1)
  BY <1>1, <1>2 DEF UnnameWorkspace, Rewritten, Renamed
<1>4. w \in Workspace /\ w.id = m.ws[i].id
  BY <1>0, <1>1, RenamedFields
<1>5. Formed(n1) /\ Holds(n1.ws, Instead(C, m.ws[i], w))
  BY <1>2, <1>4, RewrittenHolds
<1> QED BY <1>1, <1>3, <1>5, CleanedIfIdleHolds DEF Formed

\* remove_workspace_by_idx, in which no assertion fails
LEMMA RemovedHolds ==
  ASSUME NEW m, Formed(m), NEW C, Holds(m.ws, C), NEW id \in Id, Before(C, id),
         NEW i \in 1..Len(m.ws), NEW n, n = RemoveWorkspace(m, i, id), Sound(n)
  PROVE  Holds(n.ws, Plus2(C, m.output, id) \ {m.ws[i]})
<1>1. PICK e : e = KeepEnds(m, i, id)
  OBVIOUS
<1>2. PICK D : D = Plus2(C, m.output, id)
  OBVIOUS
<1>3. Formed(e) /\ SameOutput(m, e) /\ Holds(e.ws, D)
  BY <1>1, <1>2, KeptEndsHolds
<1>4. PICK at \in 1..Len(e.ws) : at = AfterTop(m, i) /\ e.ws[at] = m.ws[i]
  <2>1. PICK d \in 0..1, c \in 0..1 : Grown(m, e, i, d, c) /\ AfterTop(m, i) = i + d
    BY <1>1, EndsKept
  <2>2. PICK len \in Nat : len = Len(m.ws)
    BY MonitorFields DEF Formed
  <2>3. /\ Len(e.ws) = len + d + c
        /\ \A j \in 1..len : e.ws[j + d] = m.ws[j]
    BY <2>1, <2>2 DEF Grown
  <2>4. PICK at : at = i + d
    OBVIOUS
  <2>5. at \in 1..(len + d + c) /\ i \in 1..len
    BY <2>2, <2>4
  <2> QED BY <2>1, <2>3, <2>4, <2>5
<1>5. PICK s, r, a : /\ s = e.ws /\ r = RemoveAt(e.ws, at)
                     /\ a = IF at <= e.active /\ e.active > 1 THEN e.active - 1 ELSE e.active
  OBVIOUS
<1>6. Holds(r, D \ {m.ws[i]})
  <2>1. Holds(s, D) /\ at \in 1..Len(s) /\ r = RemoveAt(s, at) /\ s[at] = m.ws[i]
    BY <1>3, <1>4, <1>5
  <2>2. Holds(r, D \ {s[at]})
    BY <2>1, HoldsRemoved
  <2> QED BY <2>1, <2>2
<1>7. PICK x : x = [e EXCEPT !.ws = r, !.active = a]
  OBVIOUS
<1>8. n = Settle(x)
  BY <1>1, <1>4, <1>5, <1>7 DEF RemoveWorkspace
<1>9. x \in Monitor /\ x.ws = r
  <2>1. e \in Monitor /\ r \in Seq(Workspace) /\ a \in Nat
    <3>1. e \in Monitor /\ e.active \in Nat
      BY <1>3 DEF Formed, Monitor
    <3> QED BY <1>3, <1>5, <1>6, <3>1 DEF Holds, Formed
  <2>2. x \in Monitor
    BY <1>7, <2>1, Zenon DEF Monitor
  <2> QED BY <1>7, <2>1, <2>2 DEF Monitor
<1>10. Holds(n.ws, D \ {m.ws[i]})
  BY <1>6, <1>8, <1>9, SettledHolds DEF Sound, Nearly, Ready
<1> QED BY <1>2, <1>10

\* insert_workspace, in which no assertion fails, of a workspace that has an id of its own
LEMMA InsertedHolds ==
  ASSUME NEW m, Formed(m), NEW C, Holds(m.ws, C), NEW id \in Id, Before(C, id),
         NEW w \in Workspace, w.id # id, \A v \in C : v.id # w.id,
         NEW idx \in 1..(Len(m.ws) + 1), NEW activate,
         NEW n, n = InsertWorkspace(m, w, idx, activate, id), Sound(n)
  PROVE  Holds(n.ws, Plus(C, m.output, id) \cup {w})
<1>1. PICK len \in Nat : len = Len(m.ws)
  BY MonitorFields DEF Formed
<1>2. m.active \in 1..len /\ idx \in 1..(len + 1)
  BY <1>1 DEF Formed
<1>3. PICK i0 : i0 = IF idx = Len(m.ws) + 1 THEN idx - 1 ELSE idx
  OBVIOUS
<1>4. i0 \in 1..len
  BY <1>1, <1>2, <1>3
<1>5. PICK m1 : m1 = IF i0 = 1 /\ m.eaf THEN AddWorkspaceTop(m, id) ELSE m
  OBVIOUS
<1>6. PICK i : i = IF i0 = 1 /\ m.eaf THEN 2 ELSE i0
  OBVIOUS
<1>7. PICK D : D = Plus(C, m.output, id)
  OBVIOUS
<1>8. Formed(m1) /\ Holds(m1.ws, D) /\ i \in 1..(Len(m1.ws) + 1)
  <2>1. CASE i0 = 1 /\ m.eaf
    <3>1. m1 = AddWorkspaceTop(m, id) /\ i = 2
      BY <1>5, <1>6, <2>1
    <3>2. Formed(m1) /\ Len(m1.ws) = len + 1
      BY <1>1, <3>1, AddedTop
    <3>3. Holds(m1.ws, D)
      BY <1>7, <3>1, AddedTopHolds
    <3> QED BY <1>2, <3>1, <3>2, <3>3
  <2>2. CASE ~(i0 = 1 /\ m.eaf)
    <3>1. m1 = m /\ i = i0
      BY <1>5, <1>6, <2>2
    <3> QED BY <1>1, <1>4, <1>7, <3>1, HoldsPlus
  <2> QED BY <2>1, <2>2
<1>9. \A v \in D : v.id # w.id
  BY <1>7, NewFields DEF Plus
<1>10. PICK v, s, a : /\ v = m1.ws /\ s = InsertAt(m1.ws, i, w)
                      /\ a = IF i <= m1.active THEN m1.active + 1 ELSE m1.active
  OBVIOUS
<1>11. Holds(s, D \cup {w})
  <2>1. Holds(v, D) /\ i \in 1..(Len(v) + 1) /\ s = InsertAt(v, i, w)
    BY <1>8, <1>10
  <2>2. \A j \in 1..Len(v) : v[j].id # w.id
    BY <1>9, <2>1 DEF Holds
  <2> QED BY <2>1, <2>2, HoldsInserted
<1>12. PICK m2 : m2 = [m1 EXCEPT !.ws = s, !.active = a]
  OBVIOUS
<1>13. PICK m3 : m3 = IF activate THEN ActivateWorkspace([m2 EXCEPT !.sw = NoSwitch], i) ELSE m2
  OBVIOUS
<1>14. n = Settle(m3)
  BY <1>3, <1>5, <1>6, <1>10, <1>12, <1>13 DEF InsertWorkspace
<1>15. Formed(m2) /\ m2.ws = s /\ i \in 1..Len(s)
  <2>1. PICK len1 \in Nat : len1 = Len(m1.ws)
    BY <1>8, MonitorFields DEF Formed
  <2>2. Len(s) = len1 + 1
    <3>1. v \in Seq(Workspace) /\ i \in 1..(Len(v) + 1) /\ s = InsertAt(v, i, w) /\ Len(v) = len1
      BY <1>8, <1>10, <2>1 DEF Holds
    <3>2. WithInserted(s, v, i, w)
      BY <3>1, Inserted
    <3> QED BY <3>1, <3>2 DEF WithInserted
  <2>3. m1 \in Monitor /\ m1.active \in 1..len1 /\ i \in 1..(len1 + 1)
    BY <1>8, <2>1 DEF Formed
  <2>4. a \in 1..(len1 + 1)
    BY <1>10, <2>3
  <2>5. s \in Seq(Workspace) /\ a \in Nat
    BY <1>11, <2>4 DEF Holds
  <2>6. m2 \in Monitor
    BY <1>12, <2>3, <2>5, Zenon DEF Monitor
  <2>7. m2.ws = s /\ m2.active = a
    BY <1>12, <2>3 DEF Monitor
  <2> QED BY <2>2, <2>3, <2>4, <2>6, <2>7 DEF Formed
<1>16. m3 \in Monitor /\ m3.ws = s
  <2>1. PICK still : still = [m2 EXCEPT !.sw = NoSwitch]
    OBVIOUS
  <2>2. Formed(still) /\ still.ws = s
    BY <1>15, <2>1, SwitchSet, SwitchesAtRest
  <2>3. CASE activate
    <3>1. m3 = ActivateWorkspace(still, i) /\ i \in 1..Len(still.ws)
      BY <1>13, <1>15, <2>1, <2>2, <2>3
    <3> QED BY <2>2, <3>1, Activated DEF Formed
  <2>4. CASE ~activate
    BY <1>13, <1>15, <2>4 DEF Formed
  <2> QED BY <2>3, <2>4
<1>17. Holds(n.ws, D \cup {w})
  BY <1>11, <1>14, <1>16, SettledHolds DEF Sound, Nearly, Ready
<1> QED BY <1>7, <1>17

\* The workspaces of two stacks, one below the other.
LEMMA HoldsJoined ==
  ASSUME NEW s, NEW C, Holds(s, C), NEW t, NEW B, Holds(t, B),
         \A v \in C, w \in B : v.id # w.id, NEW r, r = s \o t
  PROVE  Holds(r, C \cup B)
<1>1. PICK k \in Nat, l \in Nat : k = Len(s) /\ l = Len(t)
  BY DEF Holds
<1>2. /\ r \in Seq(Workspace) /\ Len(r) = k + l
      /\ \A j \in 1..(k + l) : r[j] = IF j <= k THEN s[j] ELSE t[j - k]
  <2>1. s \in Seq(Workspace) /\ t \in Seq(Workspace)
    BY DEF Holds
  <2> QED BY <1>1, <2>1, ConcatProperties
<1>3. /\ \A j \in 1..k : s[j] \in C
      /\ \A v \in C : IsBlank(v) \/ \E j \in 1..k : s[j] = v
      /\ \A i, j \in 1..k : s[i].id = s[j].id => i = j
  BY <1>1 DEF Holds
<1>4. /\ \A j \in 1..l : t[j] \in B
      /\ \A v \in B : IsBlank(v) \/ \E j \in 1..l : t[j] = v
      /\ \A i, j \in 1..l : t[i].id = t[j].id => i = j
  BY <1>1 DEF Holds
<1>5. \A j \in 1..(k + l) : j <= k => j \in 1..k /\ r[j] = s[j]
  BY <1>2
<1>6. ASSUME NEW j \in 1..(k + l), ~(j <= k) PROVE \E i \in 1..l : j = i + k /\ r[j] = t[i]
  <2>1. PICK i : i = j - k
    OBVIOUS
  <2>2. i \in 1..l /\ j = i + k
    BY <1>6, <2>1
  <2> QED BY <1>2, <1>6, <2>1, <2>2
<1>7. ASSUME NEW j \in 1..(k + l) PROVE r[j] \in C \cup B
  <2>1. CASE j <= k
    BY <1>3, <1>5, <2>1
  <2>2. CASE ~(j <= k)
    BY <1>4, <1>6, <2>2, Zenon
  <2> QED BY <2>1, <2>2
<1>8. \A j \in 1..k : j \in 1..(k + l) /\ r[j] = s[j]
  BY <1>2
<1>9. ASSUME NEW j \in 1..l PROVE \E i \in 1..(k + l) : r[i] = t[j]
  <2>1. PICK i : i = j + k
    OBVIOUS
  <2>2. i \in 1..(k + l) /\ ~(i <= k) /\ i - k = j
    BY <2>1
  <2> QED BY <1>2, <2>2
<1>10. ASSUME NEW v \in C \cup B PROVE IsBlank(v) \/ \E j \in 1..(k + l) : r[j] = v
  <2>1. ASSUME NEW i \in 1..k, s[i] = v PROVE \E j \in 1..(k + l) : r[j] = v
    BY <1>8, <2>1
  <2>2. ASSUME NEW i \in 1..l, t[i] = v PROVE \E j \in 1..(k + l) : r[j] = v
    BY <1>9, <2>2
  <2> QED BY <1>3, <1>4, <2>1, <2>2, Zenon
<1>11. ASSUME NEW i \in 1..(k + l), NEW j \in 1..(k + l), r[i].id = r[j].id PROVE i = j
  <2>1. CASE i <= k /\ j <= k
    BY <1>3, <1>5, <1>11, <2>1
  <2>2. ASSUME i <= k, ~(j <= k) PROVE FALSE
    <3>1. PICK b \in 1..l : r[j] = t[b]
      BY <1>6, <2>2
    <3>2. r[i] \in C /\ t[b] \in B
      BY <1>3, <1>4, <1>5, <2>2
    <3> QED BY <1>11, <3>1, <3>2
  <2>3. ASSUME ~(i <= k), j <= k PROVE FALSE
    <3>1. PICK b \in 1..l : r[i] = t[b]
      BY <1>6, <2>3
    <3>2. r[j] \in C /\ t[b] \in B
      BY <1>3, <1>4, <1>5, <2>3
    <3> QED BY <1>11, <3>1, <3>2
  <2>4. CASE ~(i <= k) /\ ~(j <= k)
    <3>1. PICK a \in 1..l : i = a + k /\ r[i] = t[a]
      BY <1>6, <2>4
    <3>2. PICK b \in 1..l : j = b + k /\ r[j] = t[b]
      BY <1>6, <2>4
    <3>3. a = b
      BY <1>4, <1>11, <3>1, <3>2
    <3> QED BY <3>1, <3>2, <3>3
  <2> QED BY <2>1, <2>2, <2>3, <2>4
<1> QED BY <1>2, <1>7, <1>10, <1>11 DEF Holds

\* The workspaces above the last one, and the last one.
LEMMA HoldsCut ==
  ASSUME NEW s, NEW C, Holds(s, C), NEW n \in 1..Len(s), n = Len(s),
         NEW p, p = SubSeq(s, 1, n - 1), NEW last, last = <<s[n]>>
  PROVE  Holds(p, C \ {s[n]}) /\ Holds(last, {s[n]}) /\ s[n] \in C
<1>1. n \in Nat /\ s \in Seq(Workspace) /\ s[n] \in Workspace
  BY DEF Holds
<1>2. p \in Seq(Workspace) /\ Len(p) = n - 1 /\ \A j \in 1..(n - 1) : p[j] = s[j]
  <2>1. 1 \in 1..(Len(s) + 1) /\ n - 1 \in 0..Len(s) /\ 1 <= (n - 1) + 1
    BY <1>1
  <2>2. /\ SubSeq(s, 1, n - 1) \in Seq(Workspace)
        /\ Len(SubSeq(s, 1, n - 1)) = (n - 1) - 1 + 1
        /\ \A j \in 1..((n - 1) - 1 + 1) : SubSeq(s, 1, n - 1)[j] = s[1 + j - 1]
    BY <1>1, <2>1, Part
  <2>3. (n - 1) - 1 + 1 = n - 1 /\ \A j \in Int : 1 + j - 1 = j
    BY <1>1
  <2> QED BY <2>2, <2>3
<1>3. /\ \A j \in 1..n : s[j] \in C
      /\ \A v \in C : IsBlank(v) \/ \E j \in 1..n : s[j] = v
      /\ \A i, j \in 1..n : s[i].id = s[j].id => i = j
  BY DEF Holds
<1>4. \A j \in 1..(n - 1) : j \in 1..n /\ j # n
  BY <1>1
<1>5. \A j \in 1..(n - 1) : p[j] \in C \ {s[n]} /\ p[j].id # s[n].id
  BY <1>2, <1>3, <1>4
<1>6. \A j \in 1..n : j = n \/ j \in 1..(n - 1)
  BY <1>1
<1>7. \A v \in C \ {s[n]} : IsBlank(v) \/ \E j \in 1..(n - 1) : p[j] = v
  BY <1>2, <1>3, <1>6
<1>8. \A i, j \in 1..(n - 1) : p[i].id = p[j].id => i = j
  BY <1>2, <1>3, <1>4
<1>9. Holds(p, C \ {s[n]})
  BY <1>2, <1>5, <1>7, <1>8 DEF Holds
<1>10. Holds(last, {s[n]})
  <2>1. PICK e \in Workspace : e = s[n]
    BY <1>1
  <2>2. last \in Seq(Workspace) /\ Len(last) = 1 /\ last[1] = e
    BY <2>1
  <2>3. \A j \in 1..1 : j = 1
    OBVIOUS
  <2> QED BY <2>1, <2>2, <2>3 DEF Holds
<1> QED BY <1>3, <1>9, <1>10

\* Workspaces of C that have the same id are the same.
Apart(C) == \A v, w \in C : v.id = w.id => v = w

\* append_workspaces, in which no assertion fails
LEMMA AppendedHolds ==
  ASSUME NEW m, Formed(m), NEW C, Holds(m.ws, C), Apart(C), NEW added, NEW B, Holds(added, B),
         \A v \in C, w \in B : v.id # w.id, NEW id \in Id, Before(C \cup B, id),
         NEW n, n = AppendWorkspaces(m, added, id), Sound(n)
  PROVE  Holds(n.ws, Plus(C \cup B, m.output, id))
<1>1. CASE added = <<>>
  <2>1. Len(added) = 0
    BY <1>1, EmptySeq
  <2>2. \A v \in B : IsBlank(v)
    BY <2>1 DEF Holds
  <2>3. n = m
    BY <1>1 DEF AppendWorkspaces
  <2>4. Holds(n.ws, C \cup B)
    BY <2>2, <2>3, HoldsMore
  <2> QED BY <2>4, HoldsPlus
<1>2. CASE added # <<>>
  <2>1. PICK len \in 1..Len(m.ws) : len = Len(m.ws)
    <3>1. m.active \in 1..Len(m.ws) /\ Len(m.ws) \in Nat
      BY MonitorFields DEF Formed
    <3> QED BY <3>1
  <2>2. PICK s, p, q : s = m.ws /\ p = SubSeq(m.ws, 1, len - 1) /\ q = p \o added
    OBVIOUS
  <2>3. PICK last, ws : last = <<m.ws[len]>> /\ ws = q \o last
    OBVIOUS
  <2>4. PICK v : v = s[len]
    OBVIOUS
  <2>5. Holds(p, C \ {v}) /\ Holds(last, {v}) /\ v \in C
    <3>1. Holds(s, C) /\ len \in 1..Len(s) /\ len = Len(s) /\ p = SubSeq(s, 1, len - 1) /\ last = <<s[len]>>
      BY <2>1, <2>2, <2>3
    <3> QED BY <2>4, <3>1, HoldsCut
  <2>6. Holds(q, (C \ {v}) \cup B)
    <3>1. \A u \in C \ {v}, w \in B : u.id # w.id
      OBVIOUS
    <3> QED BY <2>2, <2>5, <3>1, HoldsJoined
  <2>7. Holds(ws, ((C \ {v}) \cup B) \cup {v})
    <3>1. \A u \in (C \ {v}) \cup B, w \in {v} : u.id # w.id
      <4>1. \A u \in C \ {v} : u.id # v.id
        BY <2>5 DEF Apart
      <4>2. \A u \in B : u.id # v.id
        BY <2>5
      <4> QED BY <4>1, <4>2
    <3> QED BY <2>3, <2>5, <2>6, <3>1, HoldsJoined
  <2>8. ((C \ {v}) \cup B) \cup {v} = C \cup B
    BY <2>5
  <2>9. Holds(ws, C \cup B)
    BY <2>7, <2>8
  <2>10. PICK m1 : m1 = Rearrange(m, ws, m.active)
    OBVIOUS
  <2>11. Formed(m1) /\ SameOutput(m, m1) /\ m1.ws = ws
    <3>1. Len(m.ws) <= Len(ws)
      <4>1. PICK k \in Nat : k = Len(added)
        BY DEF Holds
      <4>2. p \in Seq(Workspace) /\ Len(p) = len - 1
        <5>1. s \in Seq(Workspace) /\ Len(s) = len /\ 1 \in 1..(Len(s) + 1) /\ len - 1 \in 0..Len(s) /\ 1 <= (len - 1) + 1
          BY <2>1, <2>2 DEF Holds
        <5>2. Len(SubSeq(s, 1, len - 1)) = (len - 1) - 1 + 1
          BY <5>1, Part
        <5> QED BY <2>1, <2>2, <2>5, <5>2 DEF Holds
      <4>3. q \in Seq(Workspace) /\ Len(q) = Len(p) + Len(added)
        BY <2>2, <2>5, <2>6, ConcatProperties DEF Holds
      <4>4. Len(ws) = Len(q) + Len(last) /\ Len(last) = 1
        BY <2>3, <2>5, <2>6, ConcatProperties DEF Holds
      <4> QED BY <2>1, <4>1, <4>2, <4>3, <4>4
    <3>2. m.active \in 1..Len(ws) /\ ws \in Seq(Workspace)
      <4>1. ws \in Seq(Workspace) /\ Len(ws) \in Nat /\ m.active \in 1..Len(m.ws)
        BY <2>9 DEF Holds, Formed
      <4> QED BY <2>1, <3>1, <4>1
    <3> QED BY <2>10, <3>2, Rearranged
  <2>12. PICK m2 : m2 = IF m1.eaf /\ HasWindowsOrName(m1.ws[1]) THEN AddWorkspaceTop(m1, id) ELSE m1
    OBVIOUS
  <2>13. Formed(m2) /\ Holds(m2.ws, Plus(C \cup B, m.output, id))
    <3>1. CASE m2 = AddWorkspaceTop(m1, id)
      <4>1. Formed(m2)
        BY <2>11, <3>1, AddedTop
      <4>2. Holds(m2.ws, Plus(C \cup B, m1.output, id))
        BY <2>9, <2>11, <3>1, AddedTopHolds
      <4> QED BY <2>11, <4>1, <4>2 DEF SameOutput
    <3>2. CASE m2 = m1
      BY <2>9, <2>11, <3>2, HoldsPlus
    <3> QED BY <2>12, <3>1, <3>2
  <2>14. PICK m3 : m3 = IF m.active = Len(m.ws) THEN [m2 EXCEPT !.active = Len(m2.ws)] ELSE m2
    OBVIOUS
  <2>15. m3 \in Monitor /\ m3.ws = m2.ws
    <3>1. m2 \in Monitor /\ Len(m2.ws) \in Nat
      BY <2>13, MonitorFields DEF Formed
    <3>2. CASE m3 = [m2 EXCEPT !.active = Len(m2.ws)]
      <4>1. m3 \in Monitor
        BY <3>1, <3>2, Zenon DEF Monitor
      <4> QED BY <3>1, <3>2, <4>1 DEF Monitor
    <3> QED BY <2>14, <3>1, <3>2
  <2>16. n = Settle(m3)
    <3> DEFINE Top(x) == IF x.eaf /\ HasWindowsOrName(x.ws[1]) THEN AddWorkspaceTop(x, id) ELSE x
               Bottom(x) == IF m.active = Len(m.ws) THEN [x EXCEPT !.active = Len(x.ws)] ELSE x
               Fuller == [m EXCEPT !.ws = SubSeq(m.ws, 1, Len(m.ws) - 1) \o added \o <<m.ws[Len(m.ws)]>>]
    <3>1. n = Settle(Bottom(Top(Fuller)))
      BY <1>2, Zenon DEF AppendWorkspaces
    <3>2. Fuller = m1
      <4>1. m \in Monitor
        BY DEF Formed
      <4> QED BY <2>1, <2>2, <2>3, <2>10, <4>1 DEF Rearrange, Monitor
    <3> HIDE DEF Fuller, Top, Bottom
    <3>3. n = Settle(Bottom(Top(m1)))
      BY <3>1, <3>2, Zenon
    <3>4. Top(m1) = m2
      BY <2>12 DEF Top
    <3>5. Bottom(m2) = m3
      BY <2>14 DEF Bottom
    <3> QED BY <3>3, <3>4, <3>5, Zenon
  <2> QED BY <2>13, <2>15, <2>16, SettledHolds DEF Sound, Nearly, Ready
<1> QED BY <1>1, <1>2

\* Monitor::new
LEMMA MadeHolds ==
  ASSUME NEW o \in Output, NEW kept, NEW C, Holds(kept, C), NEW id \in Id, Before(C, id),
         NEW last, NEW eaf, NEW n, n = NewMonitor(o, kept, last, eaf, id)
  PROVE  Holds(n.ws, Plus2(C, o, id))
<1>1. PICK id1 \in Id : id1 = id + 1 /\ Before(Plus(C, o, id), id1)
  BY BeforePlus
<1>2. PICK b, t : b = NewWorkspace(o, id) /\ t = NewWorkspace(o, id1)
  OBVIOUS
<1>3. b \in Workspace /\ b.id = id /\ t \in Workspace /\ t.id = id1
  BY <1>1, <1>2, NewWorkspaceFacts, NewFields
<1>4. PICK len \in Nat : len = Len(kept)
  BY DEF Holds
<1>5. PICK body : body = Append(kept, b)
  OBVIOUS
<1>6. body = InsertAt(kept, len + 1, b)
  <2>1. kept \in Seq(Workspace)
    BY DEF Holds
  <2>2. PICK l \in 1..(Len(kept) + 1) : l = len + 1
    BY <1>4
  <2>3. PICK r : r = InsertAt(kept, l, b)
    OBVIOUS
  <2>4. r \in Seq(Workspace) /\ WithInserted(r, kept, l, b)
    BY <1>3, <2>1, <2>2, <2>3, Inserted
  <2>5. Len(r) = len + 1 /\ \A j \in 1..(len + 1) : r[j] = IF j < l THEN kept[j] ELSE IF j = l THEN b ELSE kept[j - 1]
    BY <1>4, <2>4 DEF WithInserted
  <2>6. body \in Seq(Workspace) /\ Len(body) = len + 1 /\ body[len + 1] = b /\ \A j \in 1..len : body[j] = kept[j]
    BY <1>3, <1>4, <1>5, <2>1
  <2>7. \A j \in 1..(len + 1) : body[j] = r[j]
    BY <2>2, <2>5, <2>6
  <2>8. body = r
    BY <2>4, <2>5, <2>6, <2>7, SeqEqual
  <2> QED BY <2>2, <2>3, <2>8
<1>7. Holds(body, Plus(C, o, id))
  <2>1. \A j \in 1..Len(kept) : kept[j].id # b.id
    <3>1. ASSUME NEW j \in 1..Len(kept) PROVE kept[j].id # b.id
      <4>1. kept[j] \in C
        BY DEF Holds
      <4>2. kept[j] \in Workspace /\ kept[j].id < id
        BY <4>1 DEF Before
      <4>3. kept[j].id \in Nat /\ id \in Nat
        BY <4>2, WorkspaceFields DEF Id
      <4> QED BY <1>3, <4>2, <4>3
    <3> QED BY <3>1
  <2>2. PICK l \in 1..(Len(kept) + 1) : l = len + 1
    BY <1>4
  <2>3. Holds(body, C \cup {b})
    BY <1>3, <1>6, <2>1, <2>2, HoldsInserted
  <2> QED BY <1>2, <2>3 DEF Plus
<1>8. PICK ws : ws = IF eaf /\ kept # <<>> THEN InsertAt(body, 1, t) ELSE body
  OBVIOUS
<1>9. n.ws = ws
  BY <1>1, <1>2, <1>5, <1>8 DEF NewMonitor
<1>10. Holds(ws, Plus2(C, o, id))
  <2>1. CASE ws = body
    BY <1>7, <2>1, HoldsPlus DEF Plus2
  <2>2. CASE ws = InsertAt(body, 1, t)
    <3>1. PICK one \in 1..(Len(body) + 1) : one = 1
      BY <1>7 DEF Holds
    <3>2. \A j \in 1..Len(body) : body[j].id # t.id
      <4>1. ASSUME NEW j \in 1..Len(body) PROVE body[j].id # t.id
        <5>1. body[j] \in Plus(C, o, id)
          BY <1>7 DEF Holds
        <5>2. body[j] \in Workspace /\ body[j].id < id1
          BY <1>1, <5>1 DEF Before
        <5>3. body[j].id \in Nat /\ id1 \in Nat
          BY <5>2, WorkspaceFields DEF Id
        <5> QED BY <1>3, <5>2, <5>3
      <4> QED BY <4>1
    <3>3. Holds(ws, Plus(C, o, id) \cup {t})
      BY <1>3, <1>7, <2>2, <3>1, <3>2, HoldsInserted
    <3> QED BY <1>1, <1>2, <3>3 DEF Plus, Plus2
  <2> QED BY <1>8, <2>1, <2>2
<1> QED BY <1>9, <1>10

\* Workspaces change places, in which no assertion fails.
LEMMA ReorderedHolds ==
  ASSUME NEW m, Formed(m), NEW ws, NEW C, Holds(ws, C), Len(ws) = Len(m.ws),
         NEW id \in Id, Before(C, id),
         NEW lo, NEW hi, NEW a \in Nat, NEW n, n = Reordered(m, ws, lo, hi, a, id), Sound(n)
  PROVE  Holds(n.ws, Plus2(C, m.output, id))
<1>1. PICK x, c : x = [m EXCEPT !.ws = ws] /\ c = IF m.eaf /\ lo = 1 THEN a + 1 ELSE a
  OBVIOUS
<1>2. Formed(x) /\ x.output = m.output /\ x.ws = ws
  <2>1. m \in Monitor /\ ws \in Seq(Workspace) /\ m.active \in 1..Len(ws)
    BY DEF Formed, Holds
  <2>2. x \in Monitor
    BY <1>1, <2>1, Zenon DEF Monitor
  <2>3. x.output = m.output /\ x.ws = ws /\ x.active = m.active
    BY <1>1, <2>1 DEF Monitor
  <2> QED BY <2>1, <2>2, <2>3 DEF Formed
<1>3. PICK below, above \in BOOLEAN : (below <=> hi = Len(m.ws)) /\ (above <=> m.eaf /\ lo = 1)
  <2>1. (hi = Len(m.ws)) \in BOOLEAN /\ (m.eaf /\ lo = 1) \in BOOLEAN
    BY Zenon
  <2> QED BY <2>1, Zenon
<1>4. PICK e : e = Ended(x, below, above, id)
  OBVIOUS
<1>5. Formed(e) /\ Holds(e.ws, Plus2(C, m.output, id))
  BY <1>2, <1>4, EndedHolds
<1>6. e = Refilled(m, x, lo, hi, id)
  BY <1>3, <1>4 DEF Refilled, Ended
<1>7. PICK y : y = [e EXCEPT !.active = c]
  OBVIOUS
<1>8. n = Settle(y)
  <2>1. n = Settle([Refilled(m, x, lo, hi, id) EXCEPT !.active = c])
    BY <1>1, Zenon DEF Reordered
  <2> QED BY <1>6, <1>7, <2>1, Zenon
<1>9. y \in Monitor /\ y.ws = e.ws
  <2>1. e \in Monitor /\ c \in Nat
    BY <1>1, <1>5 DEF Formed
  <2>2. y \in Monitor
    BY <1>7, <2>1, Zenon DEF Monitor
  <2> QED BY <1>7, <2>1, <2>2 DEF Monitor
<1> QED BY <1>5, <1>8, <1>9, SettledHolds DEF Sound, Nearly, Ready

\* move_workspace_down and move_workspace_up, in which no assertion fails
LEMMA ActiveSwappedHolds ==
  ASSUME NEW m, Formed(m), NEW C, Holds(m.ws, C), NEW id \in Id, Before(C, id),
         NEW to \in 1..Len(m.ws), NEW n, n = SwapActive(m, to, id), Sound(n)
  PROVE  Holds(n.ws, Plus2(C, m.output, id))
<1>1. CASE m.active = to
  <2>1. n = m
    BY <1>1 DEF SwapActive
  <2> QED BY <2>1, HoldsPlus DEF Plus2
<1>2. CASE m.active # to
  <2>1. PICK ws, lo, hi : /\ ws = Swap(m.ws, m.active, to)
                          /\ lo = MinOf(m.active, to) /\ hi = MaxOf(m.active, to)
    OBVIOUS
  <2>2. PICK s, from : s = m.ws /\ from = m.active
    OBVIOUS
  <2>3. Holds(s, C) /\ from \in 1..Len(s) /\ to \in 1..Len(s) /\ ws = Swap(s, from, to)
    BY <2>1, <2>2 DEF Formed
  <2>4. Holds(ws, C)
    BY <2>3, HoldsSwapped
  <2>5. Len(ws) = Len(s)
    <3>1. s \in Seq(Workspace)
      BY <2>3 DEF Holds
    <3> QED BY <2>3, <3>1, Swapped DEF WithSwapped
  <2>6. n = Reordered(m, ws, lo, hi, to, id)
    BY <1>2, <2>1, Zenon DEF SwapActive, Reordered, Refilled
  <2>7. to \in Nat /\ Len(ws) = Len(m.ws)
    BY <2>2, <2>5, MonitorFields DEF Formed
  <2> HIDE <2>1
  <2> QED BY <2>4, <2>6, <2>7, ReorderedHolds
<1> QED BY <1>1, <1>2

\* move_workspace_to_idx, in which no assertion fails
LEMMA WorkspaceMovedHolds ==
  ASSUME NEW m, Formed(m), NEW C, Holds(m.ws, C), NEW id \in Id, Before(C, id),
         NEW old \in 1..Len(m.ws), NEW idx \in Id,
         NEW n, n = MoveWorkspaceToIdx(m, old, idx, id), Sound(n)
  PROVE  Holds(n.ws, Plus2(C, m.output, id))
<1>1. PICK len \in Nat : len = Len(m.ws)
  BY MonitorFields DEF Formed
<1>2. m.active \in 1..len /\ old \in 1..len
  BY <1>1 DEF Formed
<1>3. PICK new : new = MinOf(idx, Len(m.ws))
  OBVIOUS
<1>4. new \in 1..len
  BY <1>1, <1>2, <1>3 DEF MinOf, Id
<1>5. CASE old = new
  <2>1. n = m
    BY <1>3, <1>5 DEF MoveWorkspaceToIdx
  <2> QED BY <2>1, HoldsPlus DEF Plus2
<1>6. CASE old # new
  <2>1. PICK s, r : s = m.ws /\ r = RemoveAt(m.ws, old)
    OBVIOUS
  <2>2. PICK w : w = s[old]
    OBVIOUS
  <2>3. PICK ws : ws = InsertAt(r, new, w)
    OBVIOUS
  <2>4. Holds(s, C) /\ old \in 1..Len(s) /\ r = RemoveAt(s, old) /\ w \in Workspace /\ w \in C
    BY <2>1, <2>2 DEF Holds
  <2>5. Holds(r, C \ {w}) /\ \A j \in 1..Len(r) : r[j].id # w.id
    BY <2>2, <2>4, HoldsRemoved
  <2>6. Len(r) = len - 1 /\ r \in Seq(Workspace)
    <3>1. s \in Seq(Workspace) /\ Len(s) = len
      BY <1>1, <2>1, <2>4 DEF Holds
    <3>2. r \in Seq(Workspace) /\ WithRemoved(r, s, old)
      BY <2>4, <3>1, Removed
    <3> QED BY <3>1, <3>2 DEF WithRemoved
  <2>7. new \in 1..(Len(r) + 1)
    BY <1>4, <2>6
  <2>8. Holds(ws, (C \ {w}) \cup {w})
    BY <2>3, <2>4, <2>5, <2>7, HoldsInserted
  <2>9. (C \ {w}) \cup {w} = C
    BY <2>4
  <2>10. Holds(ws, C)
    BY <2>8, <2>9
  <2>11. Len(ws) = Len(m.ws)
    <3>1. WithInserted(ws, r, new, w)
      BY <2>3, <2>4, <2>6, <2>7, Inserted
    <3> QED BY <1>1, <1>2, <2>6, <3>1 DEF WithInserted
  <2>12. PICK lo, hi, a : lo = MinOf(old, new) /\ hi = MaxOf(old, new) /\ a = ActiveAfterMove(m, old, new)
    OBVIOUS
  <2>13. a \in Nat
    BY <1>2, <1>4, <2>12 DEF ActiveAfterMove
  <2>14. n = Reordered(m, ws, lo, hi, a, id)
    <3>1. ~(old > Len(m.ws) \/ old = new)
      BY <1>1, <1>2, <1>6
    <3>2. PICK c : c = IF m.eaf /\ lo = 1 THEN a + 1 ELSE a
      OBVIOUS
    <3>3. a + (IF m.eaf /\ lo = 1 THEN 1 ELSE 0) = c
      BY <2>13, <3>2
    <3>4. n = Settle([Refilled(m, [m EXCEPT !.ws = ws], lo, hi, id) EXCEPT
                        !.active = a + (IF m.eaf /\ lo = 1 THEN 1 ELSE 0)])
      BY <1>3, <2>1, <2>2, <2>3, <2>12, <3>1, Zenon DEF MoveWorkspaceToIdx, Refilled
    <3> QED BY <3>2, <3>3, <3>4, Zenon DEF Reordered
  <2> HIDE <2>1, <2>2, <2>3, <2>12
  <2> QED BY <2>10, <2>11, <2>13, <2>14, ReorderedHolds
<1> QED BY <1>5, <1>6

\* update_config
LEMMA ConfigUpdatedHolds ==
  ASSUME NEW m, Sound(m), NEW C, Holds(m.ws, C), NEW id \in Id, Before(C, id),
         NEW eaf \in BOOLEAN, NEW n, n = UpdateConfig(m, eaf, id)
  PROVE  Holds(n.ws, Plus(C, m.output, id))
<1>0. Formed(m) /\ m \in Monitor /\ SpareEnds(m)
  BY DEF Sound, Nearly, Ready, Formed
<1>1. PICK changed : changed <=> m.eaf # eaf /\ Len(m.ws) > 1
  BY Zenon
<1>2. PICK m1 : m1 = IF m.eaf # eaf /\ Len(m.ws) > 1 /\ eaf THEN AddWorkspaceTop(m, id)
                     ELSE IF m.eaf # eaf /\ Len(m.ws) > 1 /\ m.sw.kind = "none" /\ m.active # 1
                       THEN [m EXCEPT !.ws = RemoveAt(m.ws, 1), !.active = m.active - 1]
                     ELSE m
  OBVIOUS
<1>3. n = [m1 EXCEPT !.eaf = eaf]
  BY <1>2, Zenon DEF UpdateConfig
<1>4. m1 \in Monitor /\ Holds(m1.ws, Plus(C, m.output, id))
  <2>1. CASE m1 = AddWorkspaceTop(m, id)
    BY <1>0, <2>1, AddedTop, AddedTopHolds DEF Formed
  <2>2. CASE m1 = m
    BY <1>0, <2>2, HoldsPlus
  <2>3. CASE /\ m.eaf # eaf /\ Len(m.ws) > 1 /\ ~eaf /\ m.active # 1
             /\ m1 = [m EXCEPT !.ws = RemoveAt(m.ws, 1), !.active = m.active - 1]
    <3>1. PICK s, r, a : s = m.ws /\ r = RemoveAt(m.ws, 1) /\ a = m.active - 1
      OBVIOUS
    <3>2. PICK one \in 1..Len(s) : one = 1
      BY <1>0, <3>1 DEF Formed
    <3>3. Holds(s, C) /\ r = RemoveAt(s, one)
      BY <3>1, <3>2
    <3>4. Holds(r, C \ {s[one]}) /\ s[one] \in C
      <4>1. Holds(r, C \ {s[one]})
        BY <3>2, <3>3, HoldsRemoved
      <4>2. s[one] \in C
        BY <3>2, <3>3 DEF Holds
      <4> QED BY <4>1, <4>2
    <3>5. IsBlank(s[one])
      <4>1. m.eaf
        BY <1>0, <2>3, MonitorFields
      <4> QED BY <1>0, <3>1, <3>2, <4>1 DEF SpareEnds, Spare
    <3>6. Holds(r, C)
      BY <3>4, <3>5, HoldsLess
    <3>7. a \in Nat /\ r \in Seq(Workspace)
      BY <1>0, <2>3, <3>1, <3>6 DEF Formed, Holds
    <3>8. m1 = [m EXCEPT !.ws = r, !.active = a]
      BY <2>3, <3>1
    <3>9. m1 \in Monitor
      BY <1>0, <3>7, <3>8, Zenon DEF Monitor
    <3>10. m1.ws = r
      BY <1>0, <3>8 DEF Monitor
    <3> QED BY <3>6, <3>9, <3>10, HoldsPlus
  <2> QED BY <1>2, <2>1, <2>2, <2>3, Zenon
<1>5. n.ws = m1.ws
  BY <1>3, <1>4 DEF Monitor
<1> QED BY <1>4, <1>5

\* The clean-up after a closed window, in which no assertion fails
LEMMA CleanedAfterCloseHolds ==
  ASSUME NEW m, Formed(m), NEW C, Holds(m.ws, C), NEW i \in 1..Len(m.ws),
         NEW n, n = CleanUpAfterClose(m, i), ~n.panicked
  PROVE  Holds(n.ws, C)
<1>0. m \in Monitor
  BY DEF Formed
<1>1. PICK x : x = IF IsBlank(m.ws[i]) /\ i # m.active /\ i # Len(m.ws) /\ m.sw.kind = "none"
                     THEN [m EXCEPT !.ws = RemoveAt(m.ws, i),
                                    !.active = IF i < m.active THEN m.active - 1 ELSE m.active]
                     ELSE m
  OBVIOUS
<1>2. n = LET two == x.eaf /\ Len(x.ws) = 2 /\ x.sw.kind = "none"
          IN  IF two THEN [x EXCEPT !.ws = <<x.ws[1]>>, !.active = 1,
                                    !.panicked = x.panicked \/ \E j \in 1..2 : HasWindowsOrName(x.ws[j])]
                     ELSE x
  BY <1>1, Zenon DEF CleanUpAfterClose
<1>3. x \in Monitor /\ Holds(x.ws, C)
  <2>1. CASE x = m
    BY <1>0, <2>1
  <2>2. CASE /\ IsBlank(m.ws[i])
             /\ x = [m EXCEPT !.ws = RemoveAt(m.ws, i),
                              !.active = IF i < m.active THEN m.active - 1 ELSE m.active]
    <3>1. PICK s, r, a : /\ s = m.ws /\ r = RemoveAt(m.ws, i)
                         /\ a = IF i < m.active THEN m.active - 1 ELSE m.active
      OBVIOUS
    <3>2. Holds(s, C) /\ i \in 1..Len(s) /\ r = RemoveAt(s, i) /\ IsBlank(s[i])
      BY <2>2, <3>1
    <3>3. Holds(r, C)
      <4>1. Holds(r, C \ {s[i]})
        BY <3>2, HoldsRemoved
      <4>2. s[i] \in C
        BY <3>2 DEF Holds
      <4> QED BY <3>2, <4>1, <4>2, HoldsLess
    <3>4. a \in Nat /\ r \in Seq(Workspace)
      <4>1. m.active \in Nat /\ i \in Nat
        BY <1>0, MonitorFields
      <4> QED BY <3>1, <3>3, <4>1 DEF Holds
    <3>5. x = [m EXCEPT !.ws = r, !.active = a]
      BY <2>2, <3>1
    <3>6. x \in Monitor
      BY <1>0, <3>4, <3>5, Zenon DEF Monitor
    <3>7. x.ws = r
      BY <1>0, <3>5 DEF Monitor
    <3> QED BY <3>3, <3>6, <3>7
  <2> QED BY <1>1, <2>1, <2>2, Zenon
<1>4. CASE x.eaf /\ Len(x.ws) = 2 /\ x.sw.kind = "none"
  <2>1. PICK s : s = x.ws
    OBVIOUS
  <2>2. n = [x EXCEPT !.ws = <<s[1]>>, !.active = 1,
                      !.panicked = x.panicked \/ \E j \in 1..2 : HasWindowsOrName(s[j])]
    BY <1>2, <1>4, <2>1
  <2>3. n.ws = <<s[1]>> /\ (n.panicked <=> x.panicked \/ \E j \in 1..2 : HasWindowsOrName(s[j]))
    BY <1>3, <2>2 DEF Monitor
  <2>4. IsBlank(s[2])
    <3>1. 2 \in 1..2
      OBVIOUS
    <3> QED BY <2>3, <3>1 DEF IsBlank
  <2> QED BY <1>3, <1>4, <2>1, <2>3, <2>4, HoldsFirst
<1>5. CASE ~(x.eaf /\ Len(x.ws) = 2 /\ x.sw.kind = "none")
  BY <1>2, <1>3, <1>5
<1> QED BY <1>4, <1>5

\* The blank workspaces at the ends when workspace i has got a name.
LEMMA NamedEndsHolds ==
  ASSUME NEW m, Formed(m), NEW C, Holds(m.ws, C), NEW id \in Id, Before(C, id),
         NEW i, NEW n, n = NamedEnds(m, i, id)
  PROVE  Holds(n.ws, Plus2(C, m.output, id))
<1>1. PICK x : x = IF m.eaf /\ i = 1 THEN AddWorkspaceTop(m, id) ELSE m
  OBVIOUS
<1>2. Formed(x) /\ SameOutput(m, x) /\ Holds(x.ws, Plus(C, m.output, id))
  <2>1. CASE x = AddWorkspaceTop(m, id)
    BY <2>1, AddedTop, AddedTopHolds
  <2>2. CASE x = m
    BY <2>2, HoldsPlus DEF SameOutput
  <2> QED BY <1>1, <2>1, <2>2
<1>3. m.output \in Output
  BY MonitorFields DEF Formed
<1>4. PICK id1 \in Id : id1 = id + 1 /\ Before(Plus(C, m.output, id), id1)
  BY <1>3, BeforePlus
<1>5. n = x \/ n = AddWorkspaceBottom(x, id1)
  BY <1>1, <1>4 DEF NamedEnds
<1>6. Holds(n.ws, Plus(Plus(C, m.output, id), m.output, id1))
  <2>1. CASE n = x
    BY <1>2, <2>1, HoldsPlus
  <2>2. CASE n = AddWorkspaceBottom(x, id1)
    <3>1. Holds(n.ws, Plus(Plus(C, m.output, id), x.output, id1))
      BY <1>2, <1>4, <2>2, AddedBottomHolds
    <3> QED BY <1>2, <3>1 DEF SameOutput
  <2> QED BY <1>5, <2>1, <2>2
<1> QED BY <1>4, <1>6 DEF Plus2

-----------------------------------------------------------------------------
(***************************************************************************)
(* What the same operations do to the workspace that an output shows: the  *)
(* index of the active one follows it through whatever is inserted,        *)
(* removed, swapped or cleaned up around it.                               *)
(***************************************************************************)
\* The view is on a workspace that is not one of the spare ones.
Inner(m) == m.active < Len(m.ws) /\ (m.eaf => m.active > 1)

\* The workspace that m shows, and whether m and n are alike beside it.
ShownId(m) == m.ws[m.active].id
Alongside(m, n) == n.prev = m.prev /\ n.output = m.output

\* The view stays, from m to n, on the workspace where it is.
Stays(m, n) == Alongside(m, n) /\ (Inner(m) => Inner(n) /\ ShownId(n) = ShownId(m))

\* The view leaves that workspace, and n remembers it as the previous one.
Leaves(m, n) == n.output = m.output /\ (Inner(m) => n.prev = ShownId(m))

\* One or the other.
Seen(m, n) == Stays(m, n) \/ Leaves(m, n)

\* A workspace with windows or a name is not a spare one.
LEMMA FullIsInner ==
  ASSUME NEW m, Ready(m), HasWindowsOrName(m.ws[m.active])
  PROVE  Inner(m)
<1>1. m.active \in 1..Len(m.ws) /\ Len(m.ws) \in Nat
  BY MonitorFields DEF Ready, Formed
<1>2. m.active # Len(m.ws) /\ (m.eaf => m.active # 1)
  BY DEF Ready, SpareEnds, Spare, IsBlank
<1> QED BY <1>1, <1>2 DEF Inner

\* One operation after another.
LEMMA StaysTwice ==
  ASSUME NEW m, NEW n, NEW x, Stays(m, n), Stays(n, x)
  PROVE  Stays(m, x)
  BY DEF Stays, Alongside

LEMMA StaysThenSeen ==
  ASSUME NEW m, NEW n, NEW x, Stays(m, n), Seen(n, x)
  PROVE  Seen(m, x)
  BY DEF Stays, Alongside, Leaves, Seen

LEMMA SeenThenStays ==
  ASSUME NEW m, NEW n, NEW x, Seen(m, n), Stays(n, x)
  PROVE  Seen(m, x)
  BY DEF Stays, Alongside, Leaves, Seen

\* Only activate_workspace changes the workspace that is remembered.
LEMMA AlongsideKept ==
  ASSUME NEW m \in Monitor, NEW ws, NEW a, NEW sw, NEW p
  PROVE  /\ Alongside(m, [m EXCEPT !.ws = ws])
         /\ Alongside(m, [m EXCEPT !.active = a])
         /\ Alongside(m, [m EXCEPT !.sw = sw])
         /\ Alongside(m, [m EXCEPT !.ws = ws, !.active = a])
         /\ Alongside(m, [m EXCEPT !.ws = ws, !.active = a, !.sw = sw])
         /\ Alongside(m, [m EXCEPT !.ws = ws, !.active = a, !.panicked = p])
  BY DEF Monitor, Alongside

\* add_workspace_at
LEMMA AddedAtStays ==
  ASSUME NEW m, Formed(m), NEW i \in 1..(Len(m.ws) + 1), NEW id \in Id,
         NEW n, n = AddWorkspaceAt(m, i, id)
  PROVE  Stays(m, n)
<1>0. m \in Monitor /\ m.active \in 1..Len(m.ws) /\ Len(m.ws) \in Nat
  BY MonitorFields DEF Formed
<1>1. Alongside(m, n)
  <2>1. PICK ws, a, sw : /\ ws = InsertAt(m.ws, i, NewWorkspace(m.output, id))
                         /\ a = IF i <= m.active THEN m.active + 1 ELSE m.active
                         /\ sw = OffsetFor(m.sw, i)
    OBVIOUS
  <2>2. n = [m EXCEPT !.ws = ws, !.active = a, !.sw = sw]
    BY <2>1 DEF AddWorkspaceAt
  <2> HIDE <2>1
  <2> QED BY <1>0, <2>2 DEF Monitor, Alongside
<1>2. /\ SameOutput(m, n) /\ Len(n.ws) = Len(m.ws) + 1
      /\ \A j \in 1..(Len(m.ws) + 1) :
           n.ws[j] = IF j < i THEN m.ws[j]
                     ELSE IF j = i THEN NewWorkspace(m.output, id) ELSE m.ws[j - 1]
      /\ n.active = IF i <= m.active THEN m.active + 1 ELSE m.active
  BY AddedAt
<1>3. n.ws[n.active] = m.ws[m.active]
  <2>1. PICK a, b : a = m.active /\ b = n.active
    OBVIOUS
  <2>2. b \in 1..(Len(m.ws) + 1) /\ (IF b < i THEN b = a ELSE b # i /\ b - 1 = a)
    BY <1>0, <1>2, <2>1
  <2>3. n.ws[b] = m.ws[a]
    BY <1>2, <2>2
  <2> QED BY <2>1, <2>3
<1>4. Inner(m) => Inner(n)
  BY <1>0, <1>2 DEF Inner, SameOutput
<1> QED BY <1>1, <1>3, <1>4 DEF Stays, Alongside, ShownId

\* add_workspace_top
LEMMA AddedTopStays ==
  ASSUME NEW m, Formed(m), NEW id \in Id, NEW n, n = AddWorkspaceTop(m, id)
  PROVE  Stays(m, n)
<1>1. PICK one : one = 1
  OBVIOUS
<1>2. one \in 1..(Len(m.ws) + 1) /\ n = AddWorkspaceAt(m, one, id)
  BY <1>1, MonitorFields DEF AddWorkspaceTop, Formed
<1> QED BY <1>2, AddedAtStays

\* add_workspace_bottom
LEMMA AddedBottomStays ==
  ASSUME NEW m, Formed(m), NEW id \in Id, NEW n, n = AddWorkspaceBottom(m, id)
  PROVE  Stays(m, n)
<1>1. PICK b : b = Len(m.ws) + 1
  OBVIOUS
<1>2. b \in 1..(Len(m.ws) + 1) /\ n = AddWorkspaceAt(m, b, id)
  BY <1>1, MonitorFields DEF AddWorkspaceBottom, Formed
<1> QED BY <1>2, AddedAtStays

\* With workspace i filled, the ends are kept.
LEMMA KeptEndsStays ==
  ASSUME NEW m, Formed(m), NEW i \in 1..Len(m.ws), NEW id \in Id, NEW n, n = KeepEnds(m, i, id)
  PROVE  Stays(m, n)
<1>1. PICK m1 : m1 = IF i = Len(m.ws) THEN AddWorkspaceBottom(m, id) ELSE m
  OBVIOUS
<1>2. Formed(m1) /\ Stays(m, m1)
  BY <1>1, AddedBottom, AddedBottomStays DEF Stays, Alongside
<1>3. PICK id1 \in Id : id1 = id + 1
  BY DEF Id
<1>4. n = IF m1.eaf /\ i = 1 THEN AddWorkspaceTop(m1, id1) ELSE m1
  BY <1>1, <1>3 DEF KeepEnds
<1>5. Stays(m1, n)
  BY <1>2, <1>4, AddedTopStays DEF Stays, Alongside
<1> QED BY <1>2, <1>5, StaysTwice

\* activate_workspace
LEMMA ActivatedSeen ==
  ASSUME NEW m, Formed(m), NEW i \in 1..Len(m.ws), NEW n, n = ActivateWorkspace(m, i)
  PROVE  Seen(m, n)
<1>1. PICK sw, prev : /\ sw = IF m.sw.kind = "dnd" THEN [m.sw EXCEPT !.center = i, !.at = i]
                              ELSE IF m.active = i THEN m.sw ELSE Animation
                      /\ prev = IF m.active # i THEN m.ws[m.active].id ELSE m.prev
  OBVIOUS
<1>2. n = [m EXCEPT !.active = i, !.prev = prev, !.sw = sw]
  BY <1>1 DEF ActivateWorkspace
<1>3. n.output = m.output /\ n.prev = prev /\ n.active = i /\ n.ws = m.ws /\ n.eaf = m.eaf
  BY <1>2 DEF Formed, Monitor
<1>4. CASE m.active = i
  BY <1>1, <1>3, <1>4 DEF Seen, Stays, Alongside, Inner, ShownId
<1>5. CASE m.active # i
  BY <1>1, <1>3, <1>5 DEF Seen, Leaves, Alongside, ShownId
<1> QED BY <1>4, <1>5

\* switch_workspace
LEMMA SwitchedSeen ==
  ASSUME NEW m, Sound(m), NEW i \in Id, NEW n, n = SwitchWorkspace(m, i)
  PROVE  Seen(m, n)
<1>1. PICK k : k = MinOf(i, Len(m.ws))
  OBVIOUS
<1>2. k \in 1..Len(m.ws) /\ n = ActivateWorkspace(m, k) /\ Formed(m)
  BY <1>1, TargetsThere DEF SwitchWorkspace, Sound, Nearly, Ready
<1> QED BY <1>2, ActivatedSeen

\* A workspace with other contents is the same workspace.
LEMMA RewrittenStays ==
  ASSUME NEW m, Formed(m), NEW i \in 1..Len(m.ws), NEW w \in Workspace, w.id = m.ws[i].id,
         NEW n, n = Rewritten(m, i, w)
  PROVE  Stays(m, n)
<1>1. /\ SameOutput(m, n) /\ Len(n.ws) = Len(m.ws) /\ n.active = m.active
      /\ n.ws[i] = w /\ \A j \in 1..Len(m.ws) : j # i => n.ws[j] = m.ws[j]
  BY RewrittenFacts
<1>2. m \in Monitor /\ m.active \in 1..Len(m.ws)
  BY DEF Formed
<1>3. Alongside(m, n)
  BY <1>2, AlongsideKept DEF Rewritten
<1>4. n.ws[m.active].id = m.ws[m.active].id
  BY <1>1, <1>2
<1> QED BY <1>1, <1>3, <1>4 DEF Stays, Alongside, Inner, ShownId, SameOutput

\* Workspace::remove_tile and remove_active_column
LEMMA TakenStays ==
  ASSUME NEW m, Formed(m), NEW i \in 1..Len(m.ws), NEW W, NEW n, n = TakeWindows(m, i, W)
  PROVE  Stays(m, n)
<1>1. m.ws[i] \in Workspace
  BY MonitorFields DEF Formed
<1>2. PICK w : w = Less(m.ws[i], W)
  OBVIOUS
<1>3. n = Rewritten(m, i, w)
  BY <1>2 DEF TakeWindows, Rewritten, Less
<1>4. w \in Workspace /\ w.id = m.ws[i].id
  BY <1>1, <1>2, LessFields
<1> QED BY <1>3, <1>4, RewrittenStays

\* f is m with the windows W on workspace i as well, which is w now.
FilledAs(m, i, W, f, w) ==
  /\ f = Rewritten(m, i, w) /\ w = More(m.ws[i], W, m.output)
  /\ w \in Workspace /\ w.id = m.ws[i].id

\* add_tile and add_column, before the ends get blank workspaces
LEMMA FilledRewrites ==
  ASSUME NEW m, Formed(m), NEW i \in 1..Len(m.ws), NEW W \in SUBSET Window, NEW n, n = Filled(m, i, W)
  PROVE  \E w : FilledAs(m, i, W, n, w)
<1>0. m.ws[i] \in Workspace /\ m.output \in Output /\ m \in Monitor
  BY MonitorFields DEF Formed
<1>1. PICK v, w : v = m.ws[i] /\ w = More(m.ws[i], W, m.output)
  OBVIOUS
<1>2. n = Rewritten(m, i, w)
  <2>1. PICK x : x = [v EXCEPT !.wins = v.wins \cup W]
    OBVIOUS
  <2>2. PICK n1 : n1 = [m EXCEPT !.ws = [m.ws EXCEPT ![i] = x]]
    OBVIOUS
  <2>3. PICK o : o = IF v.name = NoName THEN m.output ELSE v.orig
    OBVIOUS
  <2>4. x.orig = v.orig
    BY <1>0, <1>1, <2>1 DEF Workspace
  <2>5. n1.ws = [m.ws EXCEPT ![i] = x] /\ n1.ws[i] = x
    BY <1>0, <2>2, MonitorFields DEF Monitor
  <2>6. n = [n1 EXCEPT !.ws = [n1.ws EXCEPT ![i] = [x EXCEPT !.orig = o]]]
    <3>1. n = [n1 EXCEPT !.ws[i].orig = IF m.ws[i].name = NoName THEN m.output ELSE n1.ws[i].orig]
      BY <1>1, <2>1, <2>2 DEF Filled
    <3>2. o = IF m.ws[i].name = NoName THEN m.output ELSE n1.ws[i].orig
      BY <1>1, <2>3, <2>4, <2>5
    <3> QED BY <2>5, <3>1, <3>2
  <2>7. w = [x EXCEPT !.orig = o]
    BY <1>1, <2>1, <2>3 DEF More
  <2>8. [n1.ws EXCEPT ![i] = w] = [m.ws EXCEPT ![i] = w]
    BY <2>5
  <2> QED BY <2>2, <2>6, <2>7, <2>8 DEF Rewritten
<1>3. w \in Workspace /\ w.id = m.ws[i].id
  <2>1. PICK o \in Output : o = m.output
    BY <1>0
  <2>2. v \in Workspace /\ w = More(v, W, o)
    BY <1>0, <1>1, <2>1
  <2>3. w \in Workspace /\ w.id = v.id
    <3> HIDE <1>1, <1>2
    <3>1. v \in Workspace /\ W \in SUBSET Window /\ o \in Output /\ w = More(v, W, o)
      BY <2>2
    <3> QED BY <3>1, MoreFields, SMTT(60)
  <2> QED BY <1>1, <2>3
<1> QED BY <1>1, <1>2, <1>3 DEF FilledAs

\* add_tile and add_column
LEMMA WindowsAddedSeen ==
  ASSUME NEW m, Formed(m), NEW i \in 1..Len(m.ws), NEW W \in SUBSET Window, NEW activate \in BOOLEAN,
         NEW id \in Id, NEW n, n = AddWindows(m, i, W, activate, id)
  PROVE  Seen(m, n) /\ (~activate => Stays(m, n))
<1>1. PICK f : f = Filled(m, i, W)
  OBVIOUS
<1>2. PICK w : FilledAs(m, i, W, f, w)
  BY <1>1, FilledRewrites
<1>3. Formed(f) /\ SameOutput(m, f) /\ Len(f.ws) = Len(m.ws) /\ Stays(m, f)
  BY <1>2, RewrittenFacts, RewrittenStays DEF FilledAs
<1>4. i \in 1..Len(f.ws) /\ (f.eaf <=> m.eaf)
  BY <1>3 DEF SameOutput
<1>5. PICK e : e = KeepEnds(f, i, id)
  OBVIOUS
<1>6. PICK d \in 0..1, c \in 0..1 : Grown(f, e, i, d, c) /\ AfterTop(f, i) = i + d
  BY <1>3, <1>4, <1>5, EndsKept
<1>7. Formed(e) /\ Len(e.ws) = Len(f.ws) + d + c
  BY <1>6 DEF Grown
<1>8. Stays(f, e)
  BY <1>3, <1>4, <1>5, KeptEndsStays
<1>9. Stays(m, e)
  BY <1>3, <1>8, StaysTwice
<1>10. CASE ~activate
  BY <1>1, <1>5, <1>9, <1>10 DEF AddWindows, Filled, Seen
<1>11. CASE activate
  <2>1. PICK a : a = AfterTop(m, i)
    OBVIOUS
  <2>2. a = i + d
    BY <1>4, <1>6, <2>1 DEF AfterTop
  <2>3. Len(m.ws) \in Nat
    BY MonitorFields DEF Formed
  <2>4. a \in 1..Len(e.ws)
    BY <1>3, <1>7, <2>2, <2>3
  <2>5. n = ActivateWorkspace(e, a)
    BY <1>1, <1>5, <1>11, <2>1 DEF AddWindows, Filled
  <2>6. Seen(e, n)
    BY <1>7, <2>4, <2>5, ActivatedSeen
  <2> QED BY <1>9, <1>11, <2>6, StaysThenSeen
<1> QED BY <1>10, <1>11

\* clean_up_workspaces removes neither the active workspace nor the ends.
LEMMA CleanedStays ==
  ASSUME NEW m, Formed(m), NEW n, n = CleanUpWorkspaces(m)
  PROVE  Stays(m, n)
<1> DEFINE D == CleanUpDropped(m)
           K == (1..Len(m.ws)) \ D
<1>0. /\ m \in Monitor /\ m.ws \in Seq(Workspace) /\ Len(m.ws) \in Nat
      /\ m.active \in 1..Len(m.ws) /\ Len(m.ws) \in 1..Len(m.ws) /\ 1 \in 1..Len(m.ws)
  BY MonitorFields DEF Formed
<1>1. /\ D \subseteq 1..Len(m.ws) /\ K \subseteq 1..Len(m.ws)
      /\ m.active \in K /\ Len(m.ws) \in K /\ (m.eaf => 1 \in K) /\ m.active \notin D
  BY <1>0, WhatIsDropped DEF Excused, AtEnd
<1> HIDE DEF K
<1>2. PICK ws, a, c, one, p, two :
        /\ ws = Keep(m.ws, K) /\ c = Cardinality(K)
        /\ a = m.active - Cardinality({i \in D : i < m.active})
        /\ one = <<ws[1]>> /\ two = (m.eaf /\ Len(ws) = 2)
        /\ p = (\/ m.panicked \/ m.sw.kind # "none"
                \/ two /\ \E i \in 1..2 : HasWindowsOrName(ws[i]))
  OBVIOUS
<1>3. n = [m EXCEPT !.ws = IF two THEN one ELSE ws, !.active = IF two THEN 1 ELSE a, !.panicked = p]
  BY <1>2, Zenon DEF CleanUpWorkspaces, K
<1>4. /\ Len(ws) = c /\ c \in 0..Len(m.ws)
      /\ \A k \in K : RankIn(K, k) \in 1..c /\ ws[RankIn(K, k)] = m.ws[k]
  <2>1. PICK s : s = m.ws
    OBVIOUS
  <2>2. s \in Seq(Workspace) /\ K \in SUBSET (1..Len(s))
    BY <1>0, <1>1, <2>1
  <2> QED BY <1>2, <2>1, <2>2, Kept
<1>5. a = RankIn(K, m.active)
  <2>1. {i \in D : i < m.active} = {i \in D : i <= m.active}
    BY <1>0, <1>1
  <2>2. PICK len, b : len = Len(m.ws) /\ b = m.active
    OBVIOUS
  <2>3. len \in Nat /\ D \in SUBSET (1..len) /\ b \in 1..len
    BY <1>0, <1>1, <2>2
  <2>4. RankIn((1..len) \ D, b) = b - Cardinality({i \in D : i <= b})
    BY <2>3, RankWithout
  <2> QED BY <1>2, <2>1, <2>2, <2>4 DEF K
<1>6. \A i, j \in K : i < j => RankIn(K, i) < RankIn(K, j)
  <2>1. PICK len \in Nat : len = Len(m.ws) /\ K \in SUBSET (1..len)
    BY <1>0, <1>1
  <2> QED BY <2>1, RankGrows
<1>7. Alongside(m, n)
  BY <1>0, <1>3 DEF Monitor, Alongside
<1>8. ASSUME Inner(m) PROVE Inner(n) /\ ShownId(n) = ShownId(m)
  <2>1. /\ RankIn(K, m.active) \in 1..c /\ RankIn(K, Len(m.ws)) \in 1..c
        /\ RankIn(K, m.active) < RankIn(K, Len(m.ws)) /\ ws[RankIn(K, m.active)] = m.ws[m.active]
    BY <1>1, <1>4, <1>6, <1>8 DEF Inner
  <2>2. a \in 1..c /\ a < c /\ ws[a] = m.ws[m.active]
    BY <1>4, <1>5, <2>1
  <2>3. m.eaf => a > 1
    <3>1. SUFFICES ASSUME m.eaf PROVE a > 1
      OBVIOUS
    <3>2. RankIn(K, 1) \in 1..c /\ RankIn(K, 1) < RankIn(K, m.active)
      BY <1>0, <1>1, <1>4, <1>6, <1>8, <3>1 DEF Inner
    <3> QED BY <1>4, <1>5, <2>1, <3>2
  <2>4. ~two
    <3>1. two => m.eaf /\ c = 2
      BY <1>2, <1>4, Zenon
    <3>2. m.eaf => c > 2
      BY <1>0, <1>4, <2>2, <2>3
    <3> QED BY <3>1, <3>2
  <2>5. n.ws = ws /\ n.active = a /\ n.eaf = m.eaf
    BY <1>0, <1>3, <2>4 DEF Monitor
  <2> QED BY <1>4, <2>2, <2>3, <2>5 DEF Inner, ShownId
<1> QED BY <1>7, <1>8 DEF Stays, Alongside

\* The switch of a monitor changes, and nothing else.
LEMMA SwitchSetStays ==
  ASSUME NEW m, Formed(m), NEW sw \in Switch, NEW n, n = [m EXCEPT !.sw = sw]
  PROVE  Stays(m, n)
<1>1. SameOutput(m, n) /\ n.ws = m.ws /\ n.active = m.active
  BY SwitchSet
<1>2. Alongside(m, n)
  BY AlongsideKept DEF Formed
<1> QED BY <1>1, <1>2 DEF Stays, Alongside, Inner, ShownId, SameOutput

\* clean_up_workspaces, which ends any switch
LEMMA SettledStays ==
  ASSUME NEW m, Formed(m), NEW n, n = Settle(m)
  PROVE  Stays(m, n)
<1>1. PICK still : still = [m EXCEPT !.sw = NoSwitch]
  OBVIOUS
<1>2. Formed(still) /\ Stays(m, still)
  BY <1>1, SwitchSet, SwitchSetStays, SwitchesAtRest
<1>3. n = CleanUpWorkspaces(still)
  BY <1>1 DEF Settle
<1>4. Stays(still, n)
  BY <1>2, <1>3, CleanedStays
<1> QED BY <1>2, <1>4, StaysTwice

\* clean_up_workspaces when no switch is in progress
LEMMA CleanedIfIdleStays ==
  ASSUME NEW m, Formed(m), NEW n, n = CleanUpIfIdle(m)
  PROVE  Stays(m, n)
<1>1. CASE m.sw.kind = "none"
  BY <1>1, CleanedStays DEF CleanUpIfIdle
<1>2. CASE m.sw.kind # "none"
  BY <1>2 DEF CleanUpIfIdle, Stays, Alongside
<1> QED BY <1>1, <1>2

\* unname_workspace
LEMMA UnnamedStays ==
  ASSUME NEW m, Formed(m), NEW i \in 1..Len(m.ws), NEW n, n = UnnameWorkspace(m, i)
  PROVE  Stays(m, n)
<1>1. m.ws[i] \in Workspace
  BY MonitorFields DEF Formed
<1>2. PICK w : w = Renamed(m.ws[i], NoName)
  OBVIOUS
<1>3. PICK n1 : n1 = Rewritten(m, i, w)
  OBVIOUS
<1>4. n = CleanUpIfIdle(n1)
  BY <1>2, <1>3 DEF UnnameWorkspace, Rewritten, Renamed
<1>5. w \in Workspace /\ w.id = m.ws[i].id
  BY <1>1, <1>2, RenamedFields
<1>6. Formed(n1) /\ Stays(m, n1)
  BY <1>3, <1>5, RewrittenFacts, RewrittenStays
<1>7. Stays(n1, n)
  BY <1>4, <1>6, CleanedIfIdleStays
<1> QED BY <1>6, <1>7, StaysTwice

\* dnd_scroll_gesture_begin
LEMMA ScrollBegunStays ==
  ASSUME NEW m, Formed(m), NEW open \in BOOLEAN, NEW n, n = DndScrollBegin(m, open)
  PROVE  Stays(m, n)
<1>1. CASE m.sw.kind # "dnd" /\ open
  <2>1. PICK sw : sw = DndScroll(m.active)
    OBVIOUS
  <2>2. n = [m EXCEPT !.sw = sw]
    BY <1>1, <2>1 DEF DndScrollBegin
  <2>3. m.active \in Nat
    BY MonitorFields DEF Formed
  <2>4. sw \in Switch
    BY <2>1, <2>3 DEF DndScroll, Switch, SwitchKind
  <2> QED BY <2>2, <2>4, SwitchSetStays
<1>2. CASE ~(m.sw.kind # "dnd" /\ open)
  BY <1>2 DEF DndScrollBegin, Stays, Alongside
<1> QED BY <1>1, <1>2

\* Other workspaces, with the one that is shown not at an end.
LEMMA RearrangedStays ==
  ASSUME NEW m, Formed(m), NEW ws \in Seq(Workspace), NEW a \in 1..Len(ws),
         Inner(m) => a < Len(ws) /\ (m.eaf => a > 1) /\ ws[a].id = m.ws[m.active].id,
         NEW n, n = Rearrange(m, ws, a)
  PROVE  Stays(m, n)
<1>1. SameOutput(m, n) /\ n.ws = ws /\ n.active = a
  BY Rearranged
<1>2. m \in Monitor
  BY DEF Formed
<1>3. Alongside(m, n)
  BY <1>2, AlongsideKept DEF Rearrange
<1> QED BY <1>1, <1>3 DEF Stays, Alongside, Inner, ShownId, SameOutput

\* remove_workspace_by_idx, of another workspace than the active one
LEMMA RemovedStays ==
  ASSUME NEW m, Formed(m), NEW i \in 1..Len(m.ws), i # m.active, NEW id \in Id,
         NEW n, n = RemoveWorkspace(m, i, id)
  PROVE  Stays(m, n)
<1>1. PICK len \in Nat : len = Len(m.ws)
  BY MonitorFields DEF Formed
<1>2. i \in 1..len /\ m.active \in 1..len
  BY <1>1 DEF Formed
<1>3. PICK e : e = KeepEnds(m, i, id)
  OBVIOUS
<1>e. PICK d \in 0..1, c \in 0..1 : Grown(m, e, i, d, c) /\ AfterTop(m, i) = i + d
  BY <1>3, EndsKept
<1>4. /\ c = 1 <=> i = Len(m.ws)
      /\ Formed(e) /\ SameOutput(m, e) /\ Len(e.ws) = Len(m.ws) + d + c
      /\ e.active = m.active + d
      /\ AfterTop(m, i) = i + d
  BY <1>e DEF Grown
<1>s. Stays(m, e)
  BY <1>3, KeptEndsStays
<1>5. PICK at, b : at = i + d /\ b = e.active
  OBVIOUS
<1>6. PICK r, s : r = RemoveAt(e.ws, at) /\ s = e.ws
  OBVIOUS
<1>7. /\ r \in Seq(Workspace) /\ Len(r) = len + d + c - 1
      /\ \A j \in 1..(len + d + c - 1) : r[j] = IF j < at THEN s[j] ELSE s[j + 1]
  <2>2. s \in Seq(Workspace) /\ Len(s) = len + d + c
    BY <1>1, <1>4, <1>6, MonitorFields DEF Formed
  <2>3. at \in 1..Len(s)
    BY <1>2, <1>5, <2>2
  <2>4. RemoveAt(s, at) \in Seq(Workspace) /\ WithRemoved(RemoveAt(s, at), s, at)
    BY <2>2, <2>3, Removed, Zenon
  <2> QED BY <1>6, <2>2, <2>4 DEF WithRemoved
<1>8. PICK a : a = IF at <= e.active /\ e.active > 1 THEN e.active - 1 ELSE e.active
  OBVIOUS
<1>9. /\ a \in 1..(len + d + c - 1)
      /\ (IF a < at THEN a = b ELSE a + 1 = b)
      /\ (b < len + d + c => a < len + d + c - 1)
  <2>1. b \in 1..(len + d) /\ b # at
    BY <1>2, <1>4, <1>5
  <2>2. a = IF at <= b /\ b > 1 THEN b - 1 ELSE b
    BY <1>5, <1>8
  <2>3. c = 1 <=> i = len
    BY <1>1, <1>4
  <2> QED BY <1>2, <1>5, <2>1, <2>2, <2>3
<1>10. r[a] = s[b]
  BY <1>7, <1>9
<1>11. ASSUME Inner(e) PROVE a < Len(r) /\ (e.eaf => a > 1) /\ r[a].id = e.ws[e.active].id
  <2>1. b < len + d + c /\ (e.eaf => b > 1)
    BY <1>1, <1>4, <1>5, <1>11 DEF Inner
  <2>2. e.eaf => a > 1
    <3>1. SUFFICES ASSUME e.eaf PROVE a > 1
      OBVIOUS
    <3>2. m.eaf /\ (d = 1 <=> i = 1)
      BY <1>4, <1>e, <3>1 DEF SameOutput, Grown
    <3>3. at > 1
      BY <1>2, <1>5, <3>2
    <3> QED BY <1>2, <1>4, <1>5, <1>9, <2>1, <3>1, <3>3
  <2> QED BY <1>5, <1>6, <1>7, <1>9, <1>10, <2>1, <2>2
<1>12. PICK x : x = Rearrange(e, r, a)
  OBVIOUS
<1>13. n = Settle(x)
  BY <1>3, <1>4, <1>5, <1>6, <1>8, <1>12 DEF RemoveWorkspace, Rearrange
<1>14. a \in 1..Len(r)
  BY <1>7, <1>9
<1>15. Formed(x) /\ Stays(e, x)
  <2>1. Formed(x)
    BY <1>4, <1>7, <1>12, <1>14, Rearranged
  <2> QED BY <1>4, <1>7, <1>11, <1>12, <1>14, <2>1, RearrangedStays
<1>16. Stays(x, n)
  BY <1>13, <1>15, SettledStays
<1>17. Stays(m, x)
  BY <1>s, <1>15, StaysTwice
<1> QED BY <1>16, <1>17, StaysTwice

\* insert_workspace
LEMMA InsertedSeen ==
  ASSUME NEW m, Formed(m), NEW w \in Workspace, NEW idx \in 1..(Len(m.ws) + 1),
         NEW activate \in BOOLEAN, NEW id \in Id,
         NEW n, n = InsertWorkspace(m, w, idx, activate, id)
  PROVE  (activate => Leaves(m, n)) /\ (~activate => Stays(m, n))
<1>1. PICK len \in Nat : len = Len(m.ws)
  BY MonitorFields DEF Formed
<1>2. m.active \in 1..len /\ idx \in 1..(len + 1)
  BY <1>1 DEF Formed
<1>3. PICK i0 : i0 = IF idx = Len(m.ws) + 1 THEN idx - 1 ELSE idx
  OBVIOUS
<1>4. i0 \in 1..len
  BY <1>1, <1>2, <1>3
<1>5. PICK m1 : m1 = IF i0 = 1 /\ m.eaf THEN AddWorkspaceTop(m, id) ELSE m
  OBVIOUS
<1>6. PICK i : i = IF i0 = 1 /\ m.eaf THEN 2 ELSE i0
  OBVIOUS
<1>7. Formed(m1) /\ SameOutput(m, m1) /\ i \in 1..Len(m1.ws) /\ Stays(m, m1)
  <2>1. CASE i0 = 1 /\ m.eaf
    <3>1. m1 = AddWorkspaceTop(m, id) /\ i = 2
      BY <1>5, <1>6, <2>1
    <3>2. Formed(m1) /\ SameOutput(m, m1) /\ Len(m1.ws) = Len(m.ws) + 1
      BY <3>1, AddedTop
    <3>3. Stays(m, m1)
      BY <3>1, AddedTopStays
    <3> QED BY <1>1, <1>4, <3>1, <3>2, <3>3
  <2>2. CASE ~(i0 = 1 /\ m.eaf)
    <3>1. m1 = m /\ i = i0
      BY <1>5, <1>6, <2>2
    <3> QED BY <1>1, <1>4, <3>1 DEF SameOutput, Stays, Alongside
  <2> QED BY <2>1, <2>2
<1>8. PICK len1 \in Nat : len1 = Len(m1.ws)
  BY <1>7, MonitorFields DEF Formed
<1>9. PICK s, v : s = InsertAt(m1.ws, i, w) /\ v = m1.ws
  OBVIOUS
<1>10. /\ s \in Seq(Workspace) /\ Len(s) = len1 + 1
       /\ \A j \in 1..(len1 + 1) :
            s[j] = IF j < i THEN v[j] ELSE IF j = i THEN w ELSE v[j - 1]
  <2>2. v \in Seq(Workspace) /\ i \in 1..(Len(v) + 1)
    BY <1>7, <1>8, <1>9, MonitorFields DEF Formed
  <2>3. InsertAt(v, i, w) \in Seq(Workspace) /\ WithInserted(InsertAt(v, i, w), v, i, w)
    BY <2>2, Inserted, Zenon
  <2> QED BY <1>8, <1>9, <2>3 DEF WithInserted
<1>11. PICK a, b : a = (IF i <= m1.active THEN m1.active + 1 ELSE m1.active) /\ b = m1.active
  OBVIOUS
<1>12. /\ a \in 1..(len1 + 1) /\ i \in 1..(len1 + 1) /\ a # i
       /\ (IF a < i THEN a = b ELSE a - 1 = b)
       /\ (b < len1 => a < len1 + 1) /\ (b > 1 => a > 1)
  <2>1. b \in 1..len1 /\ i \in 1..len1
    BY <1>7, <1>8, <1>11 DEF Formed
  <2> QED BY <1>11, <2>1
<1>13. s[a] = v[b]
  BY <1>10, <1>12
<1>14. ASSUME Inner(m1) PROVE a < Len(s) /\ (m1.eaf => a > 1) /\ s[a].id = m1.ws[m1.active].id
  BY <1>8, <1>9, <1>10, <1>11, <1>12, <1>13, <1>14 DEF Inner
<1>15. PICK m2 : m2 = Rearrange(m1, s, a)
  OBVIOUS
<1>16. a \in 1..Len(s) /\ i \in 1..Len(s)
  BY <1>10, <1>12
<1>17. Formed(m2) /\ m2.ws = s /\ m2.active = a
  BY <1>7, <1>10, <1>15, <1>16, Rearranged
<1>18. Stays(m1, m2)
  BY <1>7, <1>10, <1>14, <1>15, <1>16, RearrangedStays
<1>19. Stays(m, m2)
  BY <1>7, <1>18, StaysTwice
<1>20. PICK still : still = [m2 EXCEPT !.sw = NoSwitch]
  OBVIOUS
<1>21. Formed(still) /\ still.ws = s /\ still.active = a /\ Stays(m2, still)
  BY <1>17, <1>20, SwitchSet, SwitchSetStays, SwitchesAtRest
<1>22. PICK m3 : m3 = IF activate THEN ActivateWorkspace(still, i) ELSE m2
  OBVIOUS
<1>23. n = Settle(m3)
  BY <1>3, <1>5, <1>6, <1>9, <1>11, <1>15, <1>20, <1>22 DEF InsertWorkspace, Rearrange
<1>24. CASE activate
  <2>1. m3 = ActivateWorkspace(still, i) /\ i \in 1..Len(still.ws)
    BY <1>16, <1>21, <1>22, <1>24
  <2>2. Formed(m3)
    BY <1>21, <2>1, Activated
  <2>3. Leaves(still, m3)
    <3>1. PICK p, sw : /\ p = (IF still.active # i THEN still.ws[still.active].id ELSE still.prev)
                       /\ sw = IF still.sw.kind = "dnd" THEN [still.sw EXCEPT !.center = i, !.at = i]
                               ELSE IF still.active = i THEN still.sw ELSE Animation
      OBVIOUS
    <3>2. m3 = [still EXCEPT !.active = i, !.prev = p, !.sw = sw]
      BY <2>1, <3>1 DEF ActivateWorkspace
    <3>3. m3.prev = p /\ m3.output = still.output
      BY <1>21, <3>2 DEF Formed, Monitor
    <3> QED BY <1>12, <1>21, <3>1, <3>3 DEF Leaves, ShownId
  <2>4. Stays(m, still)
    BY <1>19, <1>21, StaysTwice
  <2>5. Stays(m3, n)
    BY <1>23, <2>2, SettledStays
  <2> QED BY <1>24, <2>3, <2>4, <2>5 DEF Stays, Alongside, Leaves
<1>25. CASE ~activate
  <2>1. Stays(m2, n)
    BY <1>17, <1>22, <1>23, <1>25, SettledStays
  <2>2. Stays(m, n)
    BY <1>19, <2>1, StaysTwice
  <2> QED BY <1>25, <2>2
<1> QED BY <1>24, <1>25

\* Workspaces change places, with the one that is shown.
LEMMA ReorderedStays ==
  ASSUME NEW m, Formed(m), NEW lo \in 1..Len(m.ws), NEW hi \in 1..Len(m.ws), NEW id \in Id,
         NEW ws \in Seq(Workspace), Len(ws) = Len(m.ws), NEW a \in 1..Len(m.ws),
         Inner(m) => /\ ws[a].id = m.ws[m.active].id
                     /\ (a = Len(m.ws) => hi = a) /\ (m.eaf /\ a = 1 => lo = a),
         NEW n, n = Reordered(m, ws, lo, hi, a, id)
  PROVE  Stays(m, n)
<1>1. PICK len \in Nat : len = Len(m.ws)
  BY MonitorFields DEF Formed
<1>2. m \in Monitor /\ m.active \in 1..len /\ lo \in 1..len /\ hi \in 1..len /\ a \in 1..len
      /\ Len(ws) = len
  BY <1>1 DEF Formed
<1>e. PICK x, c : x = [m EXCEPT !.ws = ws] /\ c = IF m.eaf /\ lo = 1 THEN a + 1 ELSE a
  OBVIOUS
<1>3. /\ Formed(x) /\ SameOutput(m, x) /\ x.ws = ws /\ Alongside(m, x)
  <2>1. x \in Monitor
    BY <1>2, <1>e, Zenon DEF Monitor
  <2>2. /\ SameOutput(m, x) /\ x.ws = ws /\ x.active = m.active /\ Alongside(m, x)
    BY <1>2, <1>e DEF Monitor, SameOutput, Alongside
  <2> QED BY <1>2, <2>1, <2>2 DEF Formed
<1>b. PICK b : b = IF hi = Len(m.ws) THEN AddWorkspaceBottom(x, id) ELSE x
  OBVIOUS
<1>4. /\ Formed(b) /\ SameOutput(m, b) /\ Alongside(m, b) /\ b.ws[a] = ws[a]
      /\ Len(b.ws) \in Nat /\ (IF hi = len THEN a < Len(b.ws) ELSE Len(b.ws) = len)
  <2>1. CASE hi = len
    <3>1. b = AddWorkspaceBottom(x, id)
      BY <1>1, <1>b, <2>1
    <3>2. /\ Formed(b) /\ SameOutput(x, b) /\ Len(b.ws) = Len(x.ws) + 1
          /\ \A j \in 1..Len(x.ws) : b.ws[j] = x.ws[j]
      <4>1. Formed(x) /\ id \in Id
        BY <1>3
      <4> QED BY <4>1, <3>1, AddedBottom
    <3>3. SameOutput(m, b)
      BY <1>3, <3>2 DEF SameOutput
    <3>4. Alongside(x, b)
      BY <1>3, <3>1, AddedBottomStays DEF Stays, Alongside
    <3>5. Len(b.ws) = len + 1 /\ b.ws[a] = ws[a]
      BY <1>2, <1>3, <3>2
    <3> QED BY <1>2, <1>3, <2>1, <3>2, <3>3, <3>4, <3>5 DEF Alongside
  <2>2. CASE hi # len
    <3>1. b = x
      BY <1>1, <1>b, <2>2
    <3> QED BY <1>2, <1>3, <2>2, <3>1
  <2> QED BY <2>1, <2>2
<1>d. PICK e : e = IF m.eaf /\ lo = 1 THEN AddWorkspaceTop(b, id + 1) ELSE b
  OBVIOUS
<1>5. /\ Formed(e) /\ SameOutput(m, e) /\ Alongside(m, e) /\ e.ws[c] = ws[a] /\ c \in 1..Len(e.ws)
      /\ (a < Len(b.ws) => c < Len(e.ws))
      /\ (m.eaf => c > 1 \/ (lo # 1 /\ c = a))
  <2>1. CASE m.eaf /\ lo = 1
    <3>1. PICK id1 \in Id : id1 = id + 1
      BY DEF Id
    <3>2. e = AddWorkspaceTop(b, id1) /\ c = a + 1
      BY <1>d, <1>e, <2>1, <3>1
    <3>3. /\ Formed(e) /\ SameOutput(b, e) /\ Len(e.ws) = Len(b.ws) + 1
          /\ \A j \in 1..Len(b.ws) : e.ws[j + 1] = b.ws[j]
      BY <1>4, <3>2, AddedTop
    <3>4. SameOutput(m, e)
      BY <1>4, <3>3 DEF SameOutput
    <3>5. a \in 1..Len(b.ws)
      BY <1>2, <1>4
    <3>6. Alongside(b, e)
      BY <1>4, <3>2, AddedTopStays DEF Stays, Alongside
    <3>7. e.ws[c] = b.ws[a]
      BY <3>2, <3>3, <3>5
    <3>8. c \in 1..Len(e.ws) /\ c > 1 /\ (a < Len(b.ws) => c < Len(e.ws))
      BY <1>2, <1>4, <3>2, <3>3, <3>5
    <3> QED BY <1>4, <3>3, <3>4, <3>6, <3>7, <3>8 DEF Alongside
  <2>2. CASE ~(m.eaf /\ lo = 1)
    <3>1. e = b /\ c = a
      BY <1>d, <1>e, <2>2
    <3> QED BY <1>2, <1>4, <2>2, <3>1
  <2> QED BY <2>1, <2>2
<1>6. PICK y : y = [e EXCEPT !.active = c]
  OBVIOUS
<1>7. Formed(y) /\ SameOutput(m, y) /\ y.ws = e.ws /\ y.active = c /\ Alongside(m, y)
  <2>1. e \in Monitor /\ c \in Nat
    BY <1>5 DEF Formed
  <2>2. y \in Monitor
    BY <1>6, <2>1, Zenon DEF Monitor
  <2>3. /\ SameOutput(e, y) /\ y.ws = e.ws /\ y.active = c /\ Alongside(e, y)
    BY <1>6, <2>1 DEF Monitor, SameOutput, Alongside
  <2> QED BY <1>5, <2>2, <2>3 DEF Formed, SameOutput, Alongside
<1>8. ASSUME Inner(m) PROVE Inner(y) /\ ShownId(y) = ShownId(m)
  <2>1. ws[a].id = m.ws[m.active].id /\ (a = len => hi = len) /\ (m.eaf /\ a = 1 => lo = 1)
    BY <1>1, <1>8
  <2>2. a < Len(b.ws)
    BY <1>2, <1>4, <2>1
  <2>3. c < Len(e.ws) /\ (m.eaf => c > 1)
    BY <1>2, <1>5, <2>1, <2>2
  <2> QED BY <1>5, <1>7, <2>1, <2>3 DEF Inner, ShownId, SameOutput
<1>9. n = Settle(y)
  <2>1. e = Refilled(m, x, lo, hi, id)
    BY <1>b, <1>d DEF Refilled
  <2>2. n = Settle([Refilled(m, x, lo, hi, id) EXCEPT !.active = c])
    BY <1>e, Zenon DEF Reordered
  <2> QED BY <1>6, <2>1, <2>2, Zenon
<1>10. Stays(m, y)
  BY <1>7, <1>8 DEF Stays, Alongside
<1>11. Stays(y, n)
  BY <1>7, <1>9, SettledStays
<1> QED BY <1>10, <1>11, StaysTwice

\* move_workspace_up and move_workspace_down
LEMMA ActiveSwappedStays ==
  ASSUME NEW m, Formed(m), NEW to \in 1..Len(m.ws), NEW id \in Id, NEW n, n = SwapActive(m, to, id)
  PROVE  Stays(m, n)
<1>1. PICK len \in Nat : len = Len(m.ws)
  BY MonitorFields DEF Formed
<1>2. m.active \in 1..len /\ to \in 1..len
  BY <1>1 DEF Formed
<1>3. CASE m.active = to
  BY <1>3 DEF SwapActive, Stays, Alongside
<1>4. CASE m.active # to
  <2>1. PICK ws, lo, hi : /\ ws = Swap(m.ws, m.active, to)
                          /\ lo = MinOf(m.active, to) /\ hi = MaxOf(m.active, to)
    OBVIOUS
  <2>2. PICK s : s = m.ws
    OBVIOUS
  <2>3. /\ ws \in Seq(Workspace) /\ Len(ws) = len
        /\ \A k \in 1..len : ws[k] = IF k = to THEN s[m.active] ELSE IF k = m.active THEN s[to] ELSE s[k]
    <3>1. PICK from : from = m.active
      OBVIOUS
    <3>2. s \in Seq(Workspace) /\ from \in 1..Len(s) /\ to \in 1..Len(s)
      BY <1>1, <1>2, <2>2, <3>1, MonitorFields DEF Formed
    <3> HIDE <3>1
    <3>3. Swap(s, from, to) \in Seq(Workspace) /\ WithSwapped(Swap(s, from, to), s, from, to)
      BY <3>2, Swapped, Zenon
    <3> QED BY <1>1, <2>1, <2>2, <3>1, <3>3 DEF WithSwapped
  <2>4. /\ lo \in 1..len /\ hi \in 1..len
        /\ (to = len => hi = to) /\ (to = 1 => lo = to)
    BY <1>2, <2>1 DEF MinOf, MaxOf
  <2>5. ws[to].id = m.ws[m.active].id
    BY <1>2, <2>2, <2>3
  <2>6. n = Reordered(m, ws, lo, hi, to, id)
    BY <1>4, <2>1, Zenon DEF SwapActive, Reordered, Refilled
  <2> HIDE <2>1
  <2>7. lo \in 1..Len(m.ws) /\ hi \in 1..Len(m.ws) /\ (to = Len(m.ws) => hi = to) /\ Len(ws) = Len(m.ws)
    BY <1>1, <2>3, <2>4
  <2> QED BY <2>3, <2>4, <2>5, <2>6, <2>7, ReorderedStays
<1> QED BY <1>3, <1>4

\* move_workspace_to_idx
LEMMA WorkspaceMovedStays ==
  ASSUME NEW m, Formed(m), NEW old \in 1..Len(m.ws), NEW idx \in Id, NEW id \in Id,
         NEW n, n = MoveWorkspaceToIdx(m, old, idx, id)
  PROVE  Stays(m, n)
<1>1. PICK len \in Nat : len = Len(m.ws)
  BY MonitorFields DEF Formed
<1>2. m.active \in 1..len /\ old \in 1..len
  BY <1>1 DEF Formed
<1>3. PICK new : new = MinOf(idx, Len(m.ws))
  OBVIOUS
<1>4. new \in 1..len
  BY <1>1, <1>2, <1>3 DEF MinOf, Id
<1>5. CASE old = new
  BY <1>3, <1>5 DEF MoveWorkspaceToIdx, Stays, Alongside
<1>6. CASE old # new
  <2>1. PICK s, r, ws : /\ s = m.ws /\ r = RemoveAt(m.ws, old)
                        /\ ws = InsertAt(RemoveAt(m.ws, old), new, m.ws[old])
    OBVIOUS
  <2>2. PICK lo, hi, a, b : /\ lo = MinOf(old, new) /\ hi = MaxOf(old, new)
                            /\ a = ActiveAfterMove(m, old, new) /\ b = m.active
    OBVIOUS
  <2>3. /\ r \in Seq(Workspace) /\ Len(r) = len - 1
        /\ \A j \in 1..(len - 1) : r[j] = IF j < old THEN s[j] ELSE s[j + 1]
    <3>1. s \in Seq(Workspace) /\ old \in 1..Len(s) /\ Len(s) = len
      BY <1>1, <1>2, <2>1, MonitorFields DEF Formed
    <3>2. RemoveAt(s, old) \in Seq(Workspace) /\ WithRemoved(RemoveAt(s, old), s, old)
      BY <3>1, Removed, Zenon
    <3> QED BY <2>1, <3>1, <3>2 DEF WithRemoved
  <2>4. PICK w \in Workspace : w = m.ws[old] /\ w = s[old]
    BY <2>1, MonitorFields DEF Formed
  <2>5. /\ ws \in Seq(Workspace) /\ Len(ws) = len
        /\ \A j \in 1..len : ws[j] = IF j < new THEN r[j] ELSE IF j = new THEN w ELSE r[j - 1]
    <3>0. Len(r) + 1 = len
      BY <1>4, <2>3
    <3>1. r \in Seq(Workspace) /\ new \in 1..(Len(r) + 1)
      BY <1>4, <2>3, <3>0
    <3>2. InsertAt(r, new, w) \in Seq(Workspace) /\ WithInserted(InsertAt(r, new, w), r, new, w)
      BY <3>1, Inserted, Zenon
    <3> QED BY <2>1, <2>4, <3>0, <3>2 DEF WithInserted
  <2>6. /\ lo \in 1..len /\ hi \in 1..len /\ a \in 1..len /\ b \in 1..len
        /\ a = (IF b = old THEN new
                ELSE IF old < b /\ b <= new THEN b - 1
                ELSE IF new <= b /\ b < old THEN b + 1
                ELSE b)
    BY <1>2, <1>4, <2>2 DEF MinOf, MaxOf, ActiveAfterMove
  <2>7. ws[a] = s[b]
    <3>1. CASE b = old
      <4>1. a = new
        BY <2>6, <3>1
      <4>2. ws[a] = w
        BY <1>4, <2>5, <4>1
      <4> QED BY <2>4, <3>1, <4>2
    <3>2. CASE b # old
      <4>1. a # new
        BY <1>2, <1>4, <1>6, <2>6, <3>2
      <4>2. PICK k : k = IF a < new THEN a ELSE a - 1
        OBVIOUS
      <4>3. k \in 1..(len - 1) /\ (IF k < old THEN k = b ELSE k + 1 = b)
        BY <1>2, <1>4, <1>6, <2>6, <3>2, <4>1, <4>2
      <4>4. ws[a] = r[k]
        BY <2>5, <2>6, <4>1, <4>2
      <4>5. r[k] = s[b]
        BY <2>3, <4>3
      <4> QED BY <4>4, <4>5
    <3> QED BY <3>1, <3>2
  <2>8. ASSUME Inner(m)
        PROVE  /\ ws[a].id = m.ws[m.active].id
               /\ (a = Len(m.ws) => hi = a) /\ (m.eaf /\ a = 1 => lo = a)
    <3>1. b < len
      BY <1>1, <2>2, <2>8 DEF Inner
    <3>2. a = len => hi = a
      BY <1>2, <1>4, <2>2, <2>6, <3>1 DEF MaxOf
    <3>3. m.eaf /\ a = 1 => lo = a
      BY <1>2, <1>4, <2>2, <2>6, <2>8 DEF MinOf, Inner
    <3> QED BY <1>1, <2>1, <2>2, <2>7, <3>2, <3>3
  <2>10. n = Reordered(m, ws, lo, hi, a, id)
    <3>1. ~(old > Len(m.ws) \/ old = new)
      BY <1>1, <1>2, <1>6
    <3>2. PICK c : c = IF m.eaf /\ lo = 1 THEN a + 1 ELSE a
      OBVIOUS
    <3>3. a + (IF m.eaf /\ lo = 1 THEN 1 ELSE 0) = c
      BY <2>6, <3>2
    <3>4. n = Settle([Refilled(m, [m EXCEPT !.ws = ws], lo, hi, id) EXCEPT
                        !.active = a + (IF m.eaf /\ lo = 1 THEN 1 ELSE 0)])
      BY <1>3, <2>1, <2>2, <3>1, Zenon DEF MoveWorkspaceToIdx, Refilled
    <3> QED BY <3>2, <3>3, <3>4, Zenon DEF Reordered
  <2> HIDE <2>1, <2>2
  <2>11. /\ lo \in 1..Len(m.ws) /\ hi \in 1..Len(m.ws) /\ a \in 1..Len(m.ws) /\ Len(ws) = Len(m.ws)
    BY <1>1, <2>5, <2>6
  <2> QED BY <2>5, <2>8, <2>10, <2>11, ReorderedStays
<1> QED BY <1>5, <1>6

\* update_config
LEMMA ConfigUpdatedShows ==
  ASSUME NEW m, Formed(m), NEW eaf \in BOOLEAN, NEW id \in Id, NEW n, n = UpdateConfig(m, eaf, id)
  PROVE  ShownId(n) = ShownId(m)
<1>1. PICK len \in Nat : len = Len(m.ws)
  BY MonitorFields DEF Formed
<1>2. m.active \in 1..len /\ m.eaf \in BOOLEAN
  BY <1>1, MonitorFields DEF Formed
<1>3. CASE m.eaf # eaf /\ len > 1 /\ eaf
  <2>1. PICK x : x = AddWorkspaceTop(m, id)
    OBVIOUS
  <2>2. /\ Formed(x) /\ Len(x.ws) = Len(m.ws) + 1 /\ x.active = m.active + 1
        /\ \A j \in 1..Len(m.ws) : x.ws[j + 1] = m.ws[j]
    BY <2>1, AddedTop
  <2>3. n = Optioned(x, eaf)
    BY <1>1, <1>3, <2>1 DEF UpdateConfig, Optioned
  <2>4. n.ws = x.ws /\ n.active = x.active
    BY <2>2, <2>3, OptionSet
  <2> QED BY <1>1, <1>2, <2>2, <2>4 DEF ShownId
<1>4. CASE m.eaf # eaf /\ len > 1 /\ ~eaf /\ m.sw.kind = "none" /\ m.active # 1
  <2>2. PICK s, ws, a, b : s = m.ws /\ ws = RemoveAt(m.ws, 1) /\ a = m.active - 1 /\ b = m.active
    OBVIOUS
  <2>3. /\ ws \in Seq(Workspace) /\ Len(ws) = len - 1
        /\ \A j \in 1..(len - 1) : ws[j] = s[j + 1]
    <3>1. PICK one \in Nat : one = 1
      OBVIOUS
    <3>2. s \in Seq(Workspace) /\ one \in 1..Len(s) /\ Len(s) = len
      BY <1>1, <1>4, <2>2, <3>1, MonitorFields DEF Formed
    <3>3. RemoveAt(s, one) \in Seq(Workspace) /\ WithRemoved(RemoveAt(s, one), s, one)
      BY <3>2, Removed, Zenon
    <3> QED BY <2>2, <3>1, <3>2, <3>3 DEF WithRemoved
  <2>4. a \in 1..Len(ws) /\ a + 1 = b
    BY <1>2, <1>4, <2>2, <2>3
  <2>5. PICK x : x = Rearrange(m, ws, a)
    OBVIOUS
  <2>6. Formed(x) /\ x.ws = ws /\ x.active = a
    BY <2>3, <2>4, <2>5, Rearranged
  <2>7. n = Optioned(x, eaf)
    BY <1>1, <1>4, <2>2, <2>5 DEF UpdateConfig, Optioned, Rearrange
  <2>8. n.ws = ws /\ n.active = a
    BY <2>6, <2>7, OptionSet
  <2>9. ws[a] = s[b]
    BY <2>3, <2>4
  <2> QED BY <2>2, <2>8, <2>9 DEF ShownId
<1>5. CASE ~(m.eaf # eaf /\ len > 1 /\ eaf) /\ ~(m.eaf # eaf /\ len > 1 /\ ~eaf /\ m.sw.kind = "none" /\ m.active # 1)
  <2>1. n = Optioned(m, eaf)
    BY <1>1, <1>2, <1>5 DEF UpdateConfig, Optioned
  <2>2. n.ws = m.ws /\ n.active = m.active
    BY <2>1, OptionSet
  <2> QED BY <2>2 DEF ShownId
<1> QED BY <1>3, <1>4, <1>5

\* The clean-up after a closed window
LEMMA CleanedAfterCloseStays ==
  ASSUME NEW m, Formed(m), NEW i \in 1..Len(m.ws), ~AtEnd(m, i), NEW n, n = CleanUpAfterClose(m, i)
  PROVE  Stays(m, n)
<1>0. m \in Monitor
  BY DEF Formed
<1>1. PICK len \in Nat : len = Len(m.ws)
  BY MonitorFields DEF Formed
<1>2. m.active \in 1..len /\ i \in 1..len
  BY <1>1 DEF Formed
<1>3. PICK x : x = IF IsBlank(m.ws[i]) /\ i # m.active /\ i # Len(m.ws) /\ m.sw.kind = "none"
                     THEN [m EXCEPT !.ws = RemoveAt(m.ws, i),
                                    !.active = IF i < m.active THEN m.active - 1 ELSE m.active]
                     ELSE m
  OBVIOUS
<1>4. n = LET two == x.eaf /\ Len(x.ws) = 2 /\ x.sw.kind = "none"
          IN  IF two THEN [x EXCEPT !.ws = <<x.ws[1]>>, !.active = 1,
                                    !.panicked = x.panicked \/ \E j \in 1..2 : HasWindowsOrName(x.ws[j])]
                     ELSE x
  BY <1>3, Zenon DEF CleanUpAfterClose
<1>5. Formed(x) /\ Stays(m, x)
  <2>1. CASE x = m
    BY <2>1 DEF Stays, Alongside
  <2>2. CASE /\ i # m.active /\ i # Len(m.ws)
             /\ x = [m EXCEPT !.ws = RemoveAt(m.ws, i),
                              !.active = IF i < m.active THEN m.active - 1 ELSE m.active]
    <3>1. PICK s, ws, a, b : /\ s = m.ws /\ ws = RemoveAt(m.ws, i) /\ b = m.active
                             /\ a = IF i < m.active THEN m.active - 1 ELSE m.active
      OBVIOUS
    <3>2. /\ ws \in Seq(Workspace) /\ Len(ws) = len - 1
          /\ \A j \in 1..(len - 1) : ws[j] = IF j < i THEN s[j] ELSE s[j + 1]
      <4>1. s \in Seq(Workspace) /\ i \in 1..Len(s) /\ Len(s) = len
        BY <1>1, <1>2, <3>1, MonitorFields DEF Formed
      <4>2. RemoveAt(s, i) \in Seq(Workspace) /\ WithRemoved(RemoveAt(s, i), s, i)
        BY <4>1, Removed, Zenon
      <4> QED BY <3>1, <4>1, <4>2 DEF WithRemoved
    <3>3. /\ a \in 1..(len - 1) /\ (IF a < i THEN a = b ELSE a + 1 = b)
          /\ (b < len => a < len - 1)
      BY <1>1, <1>2, <2>2, <3>1
    <3>4. ws[a] = s[b]
      BY <3>2, <3>3
    <3>5. x = Rearrange(m, ws, a) /\ a \in 1..Len(ws)
      BY <2>2, <3>1, <3>2, <3>3 DEF Rearrange
    <3>6. ASSUME Inner(m) PROVE a < Len(ws) /\ (m.eaf => a > 1) /\ ws[a].id = m.ws[m.active].id
      BY <1>1, <1>2, <3>1, <3>2, <3>3, <3>4, <3>6 DEF Inner, AtEnd
    <3> QED BY <3>2, <3>5, <3>6, Rearranged, RearrangedStays
  <2> QED BY <1>3, <2>1, <2>2, Zenon
<1>6. Stays(x, n)
  <2>1. CASE x.eaf /\ Len(x.ws) = 2 /\ x.sw.kind = "none"
    <3>1. ~Inner(x)
      BY <2>1, <1>5, MonitorFields DEF Inner, Formed
    <3>2. PICK one, p : one = <<x.ws[1]>> /\ p = (x.panicked \/ \E j \in 1..2 : HasWindowsOrName(x.ws[j]))
      OBVIOUS
    <3>3. n = [x EXCEPT !.ws = one, !.active = 1, !.panicked = p]
      BY <1>4, <2>1, <3>2
    <3>4. Alongside(x, n)
      BY <1>5, <3>3 DEF Formed, Monitor, Alongside
    <3> QED BY <3>1, <3>4 DEF Stays, Alongside
  <2>2. CASE ~(x.eaf /\ Len(x.ws) = 2 /\ x.sw.kind = "none")
    BY <1>4, <2>2 DEF Stays, Alongside
  <2> QED BY <2>1, <2>2
<1> QED BY <1>5, <1>6, StaysTwice

\* The blank workspaces at the ends when workspace i has got a name.
LEMMA NamedEndsStay ==
  ASSUME NEW m, Formed(m), NEW id \in Id, NEW i, NEW n, n = NamedEnds(m, i, id)
  PROVE  Stays(m, n)
<1>1. PICK x : x = IF m.eaf /\ i = 1 THEN AddWorkspaceTop(m, id) ELSE m
  OBVIOUS
<1>2. Formed(x) /\ Stays(m, x)
  BY <1>1, AddedTop, AddedTopStays DEF Stays, Alongside
<1>3. PICK id1 \in Id : id1 = id + 1
  BY DEF Id
<1>4. n = x \/ n = AddWorkspaceBottom(x, id1)
  BY <1>1, <1>3 DEF NamedEnds
<1>5. Stays(x, n)
  BY <1>2, <1>4, AddedBottomStays DEF Stays, Alongside
<1> QED BY <1>2, <1>5, StaysTwice
=============================================================================
