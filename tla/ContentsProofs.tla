--------------------------- MODULE ContentsProofs ---------------------------
(***************************************************************************)
(* What is proved of the contents of the layout: no call, hotplug or drag  *)
(* of any length loses a window, doubles one, or leaves a workspace on an  *)
(* output it may not be on, hotplug leaves layouts as they were, and the   *)
(* view of an output never slips to another workspace.                     *)
(***************************************************************************)
EXTENDS LayoutProofs

-----------------------------------------------------------------------------
\* Where a workspace can be: on an output, or with no output at all.
Home == Output \cup {NoOutput}

\* Two workspaces that cannot both be there.
Clash(v, w) ==
  \/ v.id = w.id
  \/ v.name # NoName /\ v.name = w.name
  \/ \E x \in Window : x \in v.wins /\ x \in w.wins

\* With the outputs conn, of which main is the primary one, a workspace that
\* originated on orig may be on output o.
Rightful(orig, o, conn, main) == orig = o \/ (o = main /\ orig \notin conn)

(***************************************************************************)
(* D says which workspaces are at which home: no two of them clash, all    *)
(* are older than id b, the windows a are on one of them or in the hands   *)
(* h, and workspaces are on an output that they may be on.                 *)
(***************************************************************************)
Homes(D) == D \in [Home -> SUBSET Workspace]

\* No two workspaces clash, at one home or at two.
Single(D) == \A o, p \in Home : \A v \in D[o], w \in D[p] : Clash(v, w) => o = p /\ v = w

\* The ids are older than b, and the windows a are on workspaces or in hands h.
Known(D, b, h, a) ==
  /\ \A o \in Home : \A v \in D[o] : v.id < b /\ v.wins \subseteq a /\ v.wins \cap h = {}
  /\ h \subseteq a /\ a \subseteq Window
  /\ \A x \in a : x \in h \/ \E o \in Home : \E v \in D[o] : x \in v.wins

\* Outputs that are not connected have no workspaces, others only rightful ones.
Housed(D, conn, main) ==
  \A o \in Output : \A v \in D[o] : o \in conn /\ Rightful(v.orig, o, conn, main)

\* All of it.
World(D, b, h, a, conn, main) ==
  Homes(D) /\ b \in Id /\ Single(D) /\ Known(D, b, h, a) /\ Housed(D, conn, main)

\* F is D but for X at home o.
Turned(D, F, o, X) == Homes(F) /\ F[o] = X /\ \A p \in Home : p # o => F[p] = D[p]

\* A home can be given any workspaces.
LEMMA CanTurn ==
  ASSUME NEW D, Homes(D), NEW o \in Home, NEW X \in SUBSET Workspace
  PROVE  \E F : Turned(D, F, o, X)
<1>1. PICK F : F = [D EXCEPT ![o] = X]
  OBVIOUS
<1>2. Turned(D, F, o, X)
  BY <1>1 DEF Turned, Homes
<1> QED BY <1>2

\* All workspaces at a home are older than id b, and have ids of their own.
LEMMA WorldBefore ==
  ASSUME NEW D, NEW b, NEW h, NEW a, NEW conn, NEW main, World(D, b, h, a, conn, main), NEW o \in Home
  PROVE  Before(D[o], b) /\ Apart(D[o])
<1>1. Before(D[o], b)
  BY DEF World, Homes, Known, Before
<1>2. Apart(D[o])
  BY DEF World, Single, Clash, Apart
<1> QED BY <1>1, <1>2

\* Ids may be left out.
LEMMA WorldLater ==
  ASSUME NEW D, NEW b, NEW h, NEW a, NEW conn, NEW main, World(D, b, h, a, conn, main),
         NEW c \in Id, b <= c
  PROVE  World(D, c, h, a, conn, main)
<1>1. ASSUME NEW o \in Home, NEW v \in D[o] PROVE v.id < c
  <2>1. v \in Workspace /\ v.id < b /\ b \in Nat /\ c \in Nat
    BY DEF World, Homes, Known, Id
  <2>2. v.id \in Nat
    BY <2>1, WorkspaceFields DEF Id
  <2> QED BY <2>1, <2>2
<1>2. Known(D, c, h, a)
  BY <1>1 DEF World, Known
<1> QED BY <1>2 DEF World

\* New workspaces have neither windows nor a name, and ids of their own.
LEMMA WorldWithNews ==
  ASSUME NEW D, NEW b, NEW h, NEW a, NEW conn, NEW main, World(D, b, h, a, conn, main),
         NEW F, Homes(F), NEW c \in Id, b <= c,
         \A o \in Home : D[o] \subseteq F[o],
         \A o \in Home : \A v \in F[o] \ D[o] :
           v.name = NoName /\ v.wins = {} /\ b <= v.id /\ v.id < c,
         \A o, p \in Home : \A v \in F[o] \ D[o], w \in F[p] \ D[p] : v.id = w.id => o = p /\ v = w,
         \A o \in Output : \A v \in F[o] \ D[o] : o \in conn /\ v.orig = o
  PROVE  World(F, c, h, a, conn, main)
<1>1. /\ b \in Nat /\ c \in Nat
      /\ \A o \in Home : \A v \in F[o] : v \in Workspace /\ v.id \in Nat
  BY WorkspaceFields DEF World, Homes, Id
<1>2. \A o \in Home : \A v \in D[o] : v \in F[o] /\ v.id < b
  BY DEF World, Known
<1>3. Known(F, c, h, a)
  <2>1. ASSUME NEW o \in Home, NEW v \in F[o] PROVE v.id < c /\ v.wins \subseteq a /\ v.wins \cap h = {}
    <3>1. CASE v \in D[o]
      <4>1. v.wins \subseteq a /\ v.wins \cap h = {}
        BY <3>1 DEF World, Known
      <4>2. v.id < b /\ v.id \in Nat
        BY <1>1, <1>2, <3>1
      <4> QED BY <1>1, <4>1, <4>2
    <3>2. CASE v \notin D[o]
      <4>1. v.wins = {} /\ v.id < c
        BY <3>2
      <4> QED BY <4>1
    <3> QED BY <3>1, <3>2
  <2>2. ASSUME NEW x \in a PROVE x \in h \/ \E o \in Home : \E v \in F[o] : x \in v.wins
    BY <1>2 DEF World, Known
  <2> QED BY <2>1, <2>2 DEF World, Known
<1>4. Single(F)
  <2>1. SUFFICES ASSUME NEW o \in Home, NEW p \in Home, NEW v \in F[o], NEW w \in F[p], Clash(v, w)
                 PROVE  o = p /\ v = w
    BY DEF Single
  <2>2. CASE v \in D[o] /\ w \in D[p]
    BY <2>1, <2>2 DEF World, Single
  <2>3. ASSUME v \notin D[o] PROVE v.id = w.id /\ w \notin D[p]
    <3>1. v.name = NoName /\ v.wins = {} /\ b <= v.id /\ v.id \in Nat /\ w.id \in Nat
      BY <1>1, <2>3
    <3>2. v.id = w.id
      BY <2>1, <3>1 DEF Clash
    <3> QED BY <1>1, <1>2, <3>1, <3>2
  <2>4. ASSUME w \notin D[p] PROVE v.id = w.id /\ v \notin D[o]
    <3>1. w.name = NoName /\ w.wins = {} /\ b <= w.id /\ v.id \in Nat /\ w.id \in Nat
      BY <1>1, <2>4
    <3>2. v.id = w.id
      BY <2>1, <3>1 DEF Clash
    <3> QED BY <1>1, <1>2, <3>1, <3>2
  <2> QED BY <2>2, <2>3, <2>4
<1>5. Housed(F, conn, main)
  <2>1. SUFFICES ASSUME NEW o \in Output, NEW v \in F[o]
                 PROVE  o \in conn /\ Rightful(v.orig, o, conn, main)
    BY DEF Housed
  <2>2. o \in Home
    BY DEF Home
  <2> QED BY <2>2 DEF World, Housed, Rightful
<1> QED BY <1>3, <1>4, <1>5 DEF World

\* add_workspace_at, at a home that has an output
LEMMA WorldPlus ==
  ASSUME NEW D, NEW b, NEW h, NEW a, NEW conn, NEW main, World(D, b, h, a, conn, main),
         NEW o \in Output, o \in conn, NEW F, Turned(D, F, o, Plus(D[o], o, b))
  PROVE  World(F, b + 1, h, a, conn, main)
<1>1. PICK n : n = NewWorkspace(o, b)
  OBVIOUS
<1>2. n.id = b /\ n.orig = o /\ n.name = NoName /\ n.wins = {}
  BY <1>1, NewFields
<1>3. o \in Home /\ Homes(F) /\ F[o] = D[o] \cup {n} /\ \A p \in Home : p # o => F[p] = D[p]
  BY <1>1 DEF Turned, Plus, Home
<1>4. PICK c \in Id : c = b + 1 /\ b \in Nat /\ b <= c /\ b < c
  BY DEF World, Id
<1>5. \A p \in Home : \A v \in F[p] \ D[p] : p = o /\ v = n
  BY <1>3
<1>6. World(F, c, h, a, conn, main)
  <2>1. \A p \in Home : D[p] \subseteq F[p]
    BY <1>3
  <2>2. \A p \in Home : \A v \in F[p] \ D[p] : v.name = NoName /\ v.wins = {} /\ b <= v.id /\ v.id < c
    BY <1>2, <1>4, <1>5
  <2>3. \A p, q \in Home : \A v \in F[p] \ D[p], w \in F[q] \ D[q] : v.id = w.id => p = q /\ v = w
    BY <1>5
  <2>4. \A p \in Output : \A v \in F[p] \ D[p] : p \in conn /\ v.orig = p
    <3>1. \A p \in Output : p \in Home
      BY DEF Home
    <3> QED BY <1>2, <1>5, <3>1
  <2>5. Homes(F) /\ b <= c
    BY <1>3, <1>4
  <2> QED BY <2>1, <2>2, <2>3, <2>4, <2>5, WorldWithNews
<1> QED BY <1>4, <1>6

\* The same, twice.
LEMMA WorldPlus2 ==
  ASSUME NEW D, NEW b, NEW h, NEW a, NEW conn, NEW main, World(D, b, h, a, conn, main),
         NEW o \in Output, o \in conn, NEW F, Turned(D, F, o, Plus2(D[o], o, b))
  PROVE  World(F, b + 2, h, a, conn, main)
<1>1. PICK c \in Id : c = b + 1
  BY DEF World, Id
<1>2. o \in Home /\ b \in Id /\ Homes(D)
  BY DEF World, Home
<1>3. Plus(D[o], o, b) \in SUBSET Workspace
  BY <1>2, NewWorkspaceFacts DEF Plus, Homes
<1>4. PICK G : Turned(D, G, o, Plus(D[o], o, b))
  BY <1>2, <1>3, CanTurn
<1>5. World(G, c, h, a, conn, main)
  BY <1>1, <1>4, WorldPlus
<1>6. Turned(G, F, o, Plus(G[o], o, c))
  BY <1>1, <1>4 DEF Turned, Plus2
<1>7. World(F, c + 1, h, a, conn, main)
  BY <1>5, <1>6, WorldPlus
<1>8. c + 1 = b + 2
  BY <1>1, <1>2 DEF Id
<1> QED BY <1>7, <1>8

\* No workspace has the name n.
Fresh(D, n) == \A o \in Home : \A v \in D[o] : v.name # n

\* A workspace is changed and perhaps goes elsewhere; the windows it gets come
\* from the hands, and those it loses go there.
LEMMA WorldMoved ==
  ASSUME NEW D, NEW b, NEW h, NEW a, NEW conn, NEW main, World(D, b, h, a, conn, main),
         NEW o \in Home, NEW p \in Home, NEW v \in D[o], NEW w \in Workspace,
         w.id = v.id, w.name \in {v.name, NoName} \/ Fresh(D, w.name),
         NEW g, w.wins \cup g = v.wins \cup h, w.wins \cap g = {},
         p \in Output => p \in conn /\ Rightful(w.orig, p, conn, main),
         NEW F, Homes(F), w \in F[p],
         \A q \in Home : \A u \in F[q] : (q = p /\ u = w) \/ (u \in D[q] /\ ~(q = o /\ u = v)),
         \A q \in Home : \A u \in D[q] : (q = o /\ u = v) \/ u \in F[q]
  PROVE  World(F, b, g, a, conn, main)
<1>1. /\ \A q \in Home : \A u \in D[q] : u.id < b /\ u.wins \subseteq a /\ u.wins \cap h = {}
      /\ h \subseteq a /\ a \subseteq Window
      /\ \A x \in a : x \in h \/ \E q \in Home : \E u \in D[q] : x \in u.wins
  BY DEF World, Known
<1>2. ASSUME NEW q \in Home, NEW u \in D[q], Clash(v, u) PROVE q = o /\ u = v
  BY <1>2 DEF World, Single
<1>3. ASSUME NEW q \in Home, NEW u \in D[q], ~(q = o /\ u = v) PROVE ~Clash(w, u) /\ ~Clash(u, w)
  <2>0. ~Clash(v, u)
    BY <1>2, <1>3
  <2>1. w.id # u.id
    BY <2>0 DEF Clash
  <2>2. w.name = NoName \/ w.name # u.name
    BY <2>0 DEF Clash, Fresh
  <2>3. ASSUME NEW x \in Window, x \in w.wins, x \in u.wins PROVE FALSE
    <3>1. x \in v.wins \/ x \in h
      BY <2>3
    <3>2. x \notin h
      BY <1>1, <2>3
    <3> QED BY <2>0, <2>3, <3>1, <3>2 DEF Clash
  <2> QED BY <2>1, <2>2, <2>3 DEF Clash
<1>4. Single(F)
  <2>1. SUFFICES ASSUME NEW q \in Home, NEW r \in Home, NEW u \in F[q], NEW t \in F[r], Clash(u, t)
                 PROVE  q = r /\ u = t
    BY DEF Single
  <2>2. CASE u \in D[q] /\ t \in D[r]
    BY <2>1, <2>2 DEF World, Single
  <2>3. CASE q = p /\ u = w
    BY <1>3, <2>1, <2>3
  <2>4. CASE r = p /\ t = w
    BY <1>3, <2>1, <2>4
  <2> QED BY <2>2, <2>3, <2>4
<1>5. Known(F, b, g, a)
  <2>1. v.wins \subseteq a /\ h \subseteq a
    BY <1>1
  <2>2. w.wins \subseteq a /\ g \subseteq a
    BY <2>1
  <2>3. ASSUME NEW q \in Home, NEW u \in D[q], ~(q = o /\ u = v) PROVE u.wins \cap g = {}
    <3>1. SUFFICES ASSUME NEW x \in u.wins, x \in g PROVE FALSE
      OBVIOUS
    <3>2. x \notin h /\ x \in Window
      BY <1>1
    <3>3. x \in v.wins
      BY <3>1, <3>2
    <3> QED BY <1>2, <2>3, <3>2, <3>3 DEF Clash
  <2>4. ASSUME NEW q \in Home, NEW u \in F[q] PROVE u.id < b /\ u.wins \subseteq a /\ u.wins \cap g = {}
    <3>1. CASE q = p /\ u = w
      BY <1>1, <2>2, <3>1
    <3>2. CASE u \in D[q] /\ ~(q = o /\ u = v)
      BY <1>1, <2>3, <3>2
    <3> QED BY <3>1, <3>2
  <2>5. ASSUME NEW x \in a PROVE x \in g \/ \E q \in Home : \E u \in F[q] : x \in u.wins
    <3>1. CASE x \in h \/ x \in v.wins
      <4>1. x \in w.wins \/ x \in g
        BY <3>1
      <4> QED BY <4>1
    <3>2. CASE ~(x \in h \/ x \in v.wins)
      <4>1. PICK q \in Home : \E u \in D[q] : x \in u.wins
        BY <1>1, <3>2
      <4>2. PICK u \in D[q] : x \in u.wins
        BY <4>1
      <4>3. u \in F[q]
        BY <3>2, <4>2
      <4> QED BY <4>2, <4>3
    <3> QED BY <3>1, <3>2
  <2> QED BY <1>1, <2>2, <2>4, <2>5 DEF Known
<1>6. Housed(F, conn, main)
  <2>1. SUFFICES ASSUME NEW q \in Output, NEW u \in F[q]
                 PROVE  q \in conn /\ Rightful(u.orig, q, conn, main)
    BY DEF Housed
  <2>2. q \in Home
    BY DEF Home
  <2>3. CASE q = p /\ u = w
    BY <2>3
  <2>4. CASE u \in D[q]
    BY <2>4 DEF World, Housed
  <2> QED BY <2>2, <2>3, <2>4
<1> QED BY <1>4, <1>5, <1>6 DEF World

\* A workspace is changed where it is.
LEMMA WorldInstead ==
  ASSUME NEW D, NEW b, NEW h, NEW a, NEW conn, NEW main, World(D, b, h, a, conn, main),
         NEW o \in Home, NEW v \in D[o], NEW w \in Workspace,
         w.id = v.id, w.name \in {v.name, NoName} \/ Fresh(D, w.name),
         NEW g, w.wins \cup g = v.wins \cup h, w.wins \cap g = {},
         o \in Output => w.orig \in {v.orig, o},
         NEW F, Turned(D, F, o, Instead(D[o], v, w))
  PROVE  World(F, b, g, a, conn, main)
<1>1. Homes(F) /\ F[o] = (D[o] \ {v}) \cup {w} /\ \A q \in Home : q # o => F[q] = D[q]
  BY DEF Turned, Instead
<1>2. w \in F[o]
  BY <1>1
<1>3. \A q \in Home : \A u \in F[q] : (q = o /\ u = w) \/ (u \in D[q] /\ ~(q = o /\ u = v))
  BY <1>1
<1>4. \A q \in Home : \A u \in D[q] : (q = o /\ u = v) \/ u \in F[q]
  BY <1>1
<1>5. o \in Output => o \in conn /\ Rightful(w.orig, o, conn, main)
  BY DEF World, Housed, Rightful
<1> QED BY <1>1, <1>2, <1>3, <1>4, <1>5, WorldMoved

\* A window appears in the hands of the compositor.
LEMMA WorldOpened ==
  ASSUME NEW D, NEW b, NEW h, NEW a, NEW conn, NEW main, World(D, b, h, a, conn, main),
         NEW x \in Window, x \notin a
  PROVE  World(D, b, h \cup {x}, a \cup {x}, conn, main)
<1>1. Known(D, b, h \cup {x}, a \cup {x})
  <2>1. ASSUME NEW o \in Home, NEW v \in D[o]
        PROVE  v.id < b /\ v.wins \subseteq a \cup {x} /\ v.wins \cap (h \cup {x}) = {}
    <3>1. v.id < b /\ v.wins \subseteq a /\ v.wins \cap h = {}
      BY DEF World, Known
    <3> QED BY <3>1
  <2>2. ASSUME NEW y \in a \cup {x}
        PROVE  y \in h \cup {x} \/ \E o \in Home : \E v \in D[o] : y \in v.wins
    BY DEF World, Known
  <2>3. h \cup {x} \subseteq a \cup {x} /\ a \cup {x} \subseteq Window
    BY DEF World, Known
  <2> QED BY <2>1, <2>2, <2>3 DEF Known
<1> QED BY <1>1 DEF World

\* A window in the hands goes.
LEMMA WorldClosed ==
  ASSUME NEW D, NEW b, NEW h, NEW a, NEW conn, NEW main, World(D, b, h, a, conn, main),
         NEW x \in h
  PROVE  World(D, b, h \ {x}, a \ {x}, conn, main)
<1>1. Known(D, b, h \ {x}, a \ {x})
  <2>1. ASSUME NEW o \in Home, NEW v \in D[o]
        PROVE  v.id < b /\ v.wins \subseteq a \ {x} /\ v.wins \cap (h \ {x}) = {}
    <3>1. v.id < b /\ v.wins \subseteq a /\ v.wins \cap h = {}
      BY DEF World, Known
    <3> QED BY <3>1
  <2>2. ASSUME NEW y \in a \ {x}
        PROVE  y \in h \ {x} \/ \E o \in Home : \E v \in D[o] : y \in v.wins
    BY DEF World, Known
  <2>3. h \ {x} \subseteq a \ {x} /\ a \ {x} \subseteq Window
    BY DEF World, Known
  <2> QED BY <2>1, <2>2, <2>3 DEF Known
<1> QED BY <1>1 DEF World

\* Workspaces are dealt out anew, but for blank ones.
LEMMA WorldDealt ==
  ASSUME NEW D, NEW b, NEW h, NEW a, NEW conn, NEW main, World(D, b, h, a, conn, main),
         NEW F, Homes(F), NEW conn2, NEW main2, Housed(F, conn2, main2),
         \A p \in Home : \A v \in F[p] : \E o \in Home : v \in D[o],
         \A o, p \in Home : \A v \in F[o] : v \in F[p] => o = p,
         \A o \in Home : \A v \in D[o] : IsBlank(v) \/ \E p \in Home : v \in F[p]
  PROVE  World(F, b, h, a, conn2, main2)
<1>1. Single(F)
  <2>1. SUFFICES ASSUME NEW o \in Home, NEW p \in Home, NEW v \in F[o], NEW w \in F[p], Clash(v, w)
                 PROVE  o = p /\ v = w
    BY DEF Single
  <2>2. PICK q \in Home, r \in Home : v \in D[q] /\ w \in D[r]
    BY Zenon
  <2>3. v = w
    BY <2>1, <2>2 DEF World, Single
  <2> QED BY <2>3
<1>2. Known(F, b, h, a)
  <2>1. ASSUME NEW o \in Home, NEW v \in F[o] PROVE v.id < b /\ v.wins \subseteq a /\ v.wins \cap h = {}
    BY DEF World, Known
  <2>2. ASSUME NEW x \in a, x \notin h PROVE \E o \in Home : \E v \in F[o] : x \in v.wins
    <3>1. PICK o \in Home : \E v \in D[o] : x \in v.wins
      BY <2>2 DEF World, Known
    <3>2. PICK v \in D[o] : x \in v.wins
      BY <3>1
    <3>3. ~IsBlank(v)
      BY <3>2 DEF IsBlank, HasWindowsOrName
    <3> QED BY <3>2, <3>3
  <2> QED BY <2>1, <2>2 DEF World, Known
<1> QED BY <1>1, <1>2 DEF World

-----------------------------------------------------------------------------
\* The outputs of the monitors ms, and that of the primary one.
Outs(ms) == {ms[k].output : k \in 1..Len(ms)}
MainOf(ms, pr) == IF Len(ms) = 0 THEN NoOutput ELSE ms[pr].output

\* The stacks of the monitors ms and the stranded workspaces st are those of D.
Sits(ms, st, D) ==
  /\ \A k \in 1..Len(ms) : Holds(ms[k].ws, D[ms[k].output])
  /\ \A j, k \in 1..Len(ms) : ms[j].output = ms[k].output => j = k
  /\ Holds(st, D[NoOutput])

\* What the monitors and the stranded workspaces show is such a world.
Laid(ms, st, pr, b, h, a) ==
  \E D : World(D, b, h, a, Outs(ms), MainOf(ms, pr)) /\ Sits(ms, st, D)

\* The windows in the hands of the user, and what a drag is about.
Hands(mv) == IF mv.kind = "moving" THEN mv.win ELSE {}
DragFits(mv, a) == IF mv.kind = "none" THEN mv.win = {} ELSE \E w \in a : mv.win = {w}

(***************************************************************************)
(* Every workspace is at one home, in one place of its stack, and every    *)
(* window on one workspace or in the hands of the user.                    *)
(***************************************************************************)
AllLaid ==
  /\ Laid(monitors, stranded, primary, nextId, Hands(move), mapped)
  /\ DragFits(move, mapped)

\* Where a spot is: on an output or with the stranded workspaces.
HomeOf(p) == IF p[1] = 0 THEN NoOutput ELSE monitors[p[1]].output

\* A spot is a position in the stack of a home.
LEMMA SpotThere ==
  ASSUME IInv, NEW D, Homes(D), Sits(monitors, stranded, D), NEW p \in Spots
  PROVE  /\ HomeOf(p) \in Home /\ At(p) \in D[HomeOf(p)] /\ p = <<p[1], p[2]>>
         /\ \/ /\ p \in Places /\ p[1] # 0 /\ p[1] \in 1..Len(monitors)
               /\ p[2] \in 1..Len(monitors[p[1]].ws)
               /\ HomeOf(p) = monitors[p[1]].output /\ At(p) = monitors[p[1]].ws[p[2]]
               /\ At(p) = WorkspaceAt(p)
            \/ /\ p[1] = 0 /\ p[2] \in 1..Len(stranded)
               /\ HomeOf(p) = NoOutput /\ At(p) = stranded[p[2]]
<1>1. CASE p \in Places
  <2>1. /\ p[1] \in 1..Len(monitors) /\ p[2] \in 1..Len(monitors[p[1]].ws)
        /\ p = <<p[1], p[2]>> /\ WorkspaceAt(p) = monitors[p[1]].ws[p[2]]
    BY <1>1, PlaceThere
  <2>2. monitors[p[1]].output \in Output /\ p[1] # 0
    BY <2>1, Around
  <2>3. HomeOf(p) = monitors[p[1]].output /\ At(p) = WorkspaceAt(p) /\ HomeOf(p) \in Home
    BY <2>2 DEF HomeOf, At, Home
  <2>4. At(p) \in D[HomeOf(p)]
    BY <2>1, <2>3 DEF Sits, Holds
  <2> QED BY <1>1, <2>1, <2>2, <2>3, <2>4
<1>2. CASE p \notin Places
  <2>1. PICK i \in DOMAIN stranded : p = <<0, i>>
    BY <1>2 DEF Spots
  <2>2. i \in 1..Len(stranded)
    BY <2>1 DEF IInv, Parked
  <2>3. p[1] = 0 /\ p[2] = i
    BY <2>1
  <2>4. HomeOf(p) = NoOutput /\ At(p) = stranded[i] /\ HomeOf(p) \in Home
    BY <2>3 DEF HomeOf, At, Home
  <2>5. At(p) \in D[HomeOf(p)]
    BY <2>2, <2>4 DEF Sits, Holds
  <2> QED BY <2>1, <2>2, <2>3, <2>4, <2>5
<1> QED BY <1>1, <1>2

\* The same workspace is not in two spots.
LEMMA SpotsApart ==
  ASSUME IInv, NEW D, Homes(D), Single(D), Sits(monitors, stranded, D),
         NEW p \in Spots, NEW q \in Spots, Clash(At(p), At(q))
  PROVE  p = q
<1>1. HomeOf(p) = HomeOf(q) /\ At(p) = At(q)
  <2>1. HomeOf(p) \in Home /\ At(p) \in D[HomeOf(p)] /\ HomeOf(q) \in Home /\ At(q) \in D[HomeOf(q)]
    BY SpotThere
  <2> QED BY <2>1 DEF Single
<1>2. p = <<p[1], p[2]>> /\ q = <<q[1], q[2]>>
  BY SpotThere
<1>3. CASE p[1] = 0
  <2>1. /\ p[2] \in 1..Len(stranded) /\ HomeOf(p) = NoOutput /\ At(p) = stranded[p[2]]
    BY <1>3, SpotThere
  <2>2. q[1] = 0
    <3>1. q[1] # 0 => HomeOf(q) \in Output
      BY SpotThere, Around
    <3> QED BY <1>1, <2>1, <3>1, NoValues
  <2>3. q[2] \in 1..Len(stranded) /\ At(q) = stranded[q[2]]
    BY <2>2, SpotThere
  <2>4. p[2] = q[2]
    <3>1. PICK i, j, C : i = p[2] /\ j = q[2] /\ C = D[NoOutput]
      OBVIOUS
    <3>2. Holds(stranded, C) /\ stranded[i] = stranded[j] /\ i \in 1..Len(stranded) /\ j \in 1..Len(stranded)
      BY <1>1, <2>1, <2>3, <3>1 DEF Sits
    <3>3. i = j
      BY <3>2 DEF Holds
    <3> QED BY <3>1, <3>3
  <2> QED BY <1>2, <1>3, <2>2, <2>4
<1>4. CASE p[1] # 0
  <2>1. /\ p[1] \in 1..Len(monitors) /\ p[2] \in 1..Len(monitors[p[1]].ws)
        /\ HomeOf(p) = monitors[p[1]].output /\ At(p) = monitors[p[1]].ws[p[2]]
    BY <1>4, SpotThere
  <2>2. q[1] # 0
    <3>1. q[1] = 0 => HomeOf(q) = NoOutput
      BY SpotThere
    <3> QED BY <1>1, <2>1, <3>1, NoValues, Around
  <2>3. /\ q[1] \in 1..Len(monitors) /\ q[2] \in 1..Len(monitors[q[1]].ws)
        /\ HomeOf(q) = monitors[q[1]].output /\ At(q) = monitors[q[1]].ws[q[2]]
    BY <2>2, SpotThere
  <2>4. p[1] = q[1]
    BY <1>1, <2>1, <2>3 DEF Sits
  <2>5. p[2] = q[2]
    <3>1. PICK i, j, s, C : i = p[2] /\ j = q[2] /\ s = monitors[p[1]].ws /\ C = D[monitors[p[1]].output]
      OBVIOUS
    <3>2. Holds(s, C) /\ s[i] = s[j] /\ i \in 1..Len(s) /\ j \in 1..Len(s)
      BY <1>1, <2>1, <2>3, <2>4, <3>1 DEF Sits
    <3>3. i = j
      BY <3>2 DEF Holds
    <3> QED BY <3>1, <3>3
  <2> QED BY <1>2, <2>4, <2>5
<1> QED BY <1>3, <1>4

\* Each monitor has its own workspaces, and the primary one has the strays.
LEMMA AllLaidOwn ==
  ASSUME IInv, AllLaid
  PROVE  OwnMonitor
<1>1. PICK D : /\ World(D, nextId, Hands(move), mapped, Outs(monitors), MainOf(monitors, primary))
               /\ Sits(monitors, stranded, D)
  BY DEF AllLaid, Laid
<1>2. Outs(monitors) = Connected
  BY Around DEF Outs, Connected
<1>3. SUFFICES ASSUME NEW p \in Places
               PROVE  IF p[1] = primary
                        THEN WorkspaceAt(p).orig \in Connected => WorkspaceAt(p).orig = monitors[p[1]].output
                        ELSE WorkspaceAt(p).orig = monitors[p[1]].output
  BY DEF OwnMonitor
<1>4. PICK k, o : k \in 1..Len(monitors) /\ p[1] = k /\ o = monitors[k].output
  BY PlaceThere
<1>5. WorkspaceAt(p) \in D[o] /\ o \in Output
  <2>1. p \in Spots /\ p[1] # 0
    BY PlaceThere DEF Spots
  <2>2. HomeOf(p) = o /\ At(p) = WorkspaceAt(p)
    BY <1>4, <2>1 DEF HomeOf, At
  <2> QED BY <1>1, <1>4, <2>1, <2>2, SpotThere, Around DEF World
<1>6. Rightful(WorkspaceAt(p).orig, o, Outs(monitors), MainOf(monitors, primary))
  BY <1>1, <1>5 DEF World, Housed
<1>7. MainOf(monitors, primary) = monitors[primary].output /\ primary \in 1..Len(monitors)
  BY <1>4, Around DEF MainOf
<1>8. o = MainOf(monitors, primary) => k = primary
  BY <1>1, <1>4, <1>7 DEF Sits
<1> QED BY <1>2, <1>4, <1>6, <1>8 DEF Rightful

\* No two workspaces have the same id or name.
LEMMA AllLaidUnique ==
  ASSUME IInv, AllLaid
  PROVE  UniqueWorkspaces
<1>1. PICK D : /\ World(D, nextId, Hands(move), mapped, Outs(monitors), MainOf(monitors, primary))
               /\ Sits(monitors, stranded, D)
  BY DEF AllLaid, Laid
<1>2. ASSUME NEW p \in Spots, NEW q \in Spots, p # q
      PROVE  At(p).id # At(q).id /\ (At(p).name # NoName => At(p).name # At(q).name)
  <2>1. ~Clash(At(p), At(q))
    BY <1>1, <1>2, SpotsApart DEF World
  <2> QED BY <2>1 DEF Clash
<1> QED BY <1>2 DEF UniqueWorkspaces

\* The spots whose workspace has window w.
SpotsWith(w) == {p \in Spots : w \in At(p).wins}

\* Who has a window: spots and the user.
LEMMA HoldersAre ==
  ASSUME IInv, NEW w \in Window
  PROVE  /\ \A x \in Holders(w) : x \in SpotsWith(w) \/ (x = <<-1, 0>> /\ w \in Hands(move))
         /\ \A x \in SpotsWith(w) : x \in Holders(w)
         /\ w \in Hands(move) => <<-1, 0>> \in Holders(w)
<1>1. \A p \in Places : p[1] # 0 /\ p \in Spots /\ At(p) = WorkspaceAt(p)
  BY PlaceThere DEF Spots, At
<1>2. \A i \in DOMAIN stranded : <<0, i>> \in Spots /\ At(<<0, i>>) = stranded[i]
  BY DEF Spots, At
<1>3. w \in Hands(move) <=> move.kind = "moving" /\ w \in move.win
  BY DEF Hands
<1>4. ASSUME NEW x \in Holders(w) PROVE x \in SpotsWith(w) \/ (x = <<-1, 0>> /\ w \in Hands(move))
  <2>1. \/ x \in {p \in Places : w \in WorkspaceAt(p).wins}
        \/ x \in {<<0, i>> : i \in {j \in DOMAIN stranded : w \in stranded[j].wins}}
        \/ x \in (IF move.kind = "moving" /\ w \in move.win THEN {<<-1, 0>>} ELSE {})
    BY DEF Holders
  <2>2. CASE x \in {p \in Places : w \in WorkspaceAt(p).wins}
    BY <1>1, <2>2 DEF SpotsWith
  <2>3. CASE x \in {<<0, i>> : i \in {j \in DOMAIN stranded : w \in stranded[j].wins}}
    BY <1>2, <2>3 DEF SpotsWith
  <2>4. CASE x \in (IF move.kind = "moving" /\ w \in move.win THEN {<<-1, 0>>} ELSE {})
    BY <1>3, <2>4
  <2> QED BY <2>1, <2>2, <2>3, <2>4
<1>5. ASSUME NEW x \in SpotsWith(w) PROVE x \in Holders(w)
  <2>1. x \in Spots /\ w \in At(x).wins
    BY DEF SpotsWith
  <2>2. CASE x \in Places
    BY <1>1, <2>1, <2>2 DEF Holders
  <2>3. CASE x \notin Places
    <3>1. PICK i \in DOMAIN stranded : x = <<0, i>>
      BY <2>1, <2>3 DEF Spots
    <3>2. w \in stranded[i].wins
      BY <1>2, <2>1, <3>1
    <3> QED BY <3>1, <3>2 DEF Holders
  <2> QED BY <2>2, <2>3
<1>6. w \in Hands(move) => <<-1, 0>> \in Holders(w)
  BY <1>3 DEF Holders
<1> QED BY <1>4, <1>5, <1>6

\* A workspace with windows or a name is in a spot.
LEMMA FilledInSpot ==
  ASSUME IInv, NEW D, NEW b, NEW h, NEW a, NEW main, World(D, b, h, a, Outs(monitors), main),
         Sits(monitors, stranded, D), NEW o \in Home, NEW v \in D[o], ~IsBlank(v)
  PROVE  \E p \in Spots : At(p) = v
<1>1. CASE o = NoOutput
  <2>1. PICK i \in 1..Len(stranded) : stranded[i] = v
    BY <1>1 DEF Sits, Holds
  <2>2. i \in DOMAIN stranded
    BY DEF IInv, Parked
  <2>3. <<0, i>> \in Spots /\ At(<<0, i>>) = v
    BY <2>1, <2>2 DEF Spots, At
  <2> QED BY <2>3
<1>2. CASE o # NoOutput
  <2>1. o \in Outs(monitors)
    BY <1>2 DEF World, Housed, Home
  <2>2. PICK k \in 1..Len(monitors) : monitors[k].output = o
    BY <2>1 DEF Outs
  <2>3. PICK i \in 1..Len(monitors[k].ws) : monitors[k].ws[i] = v
    BY <2>2 DEF Sits, Holds
  <2>4. k \in DOMAIN monitors /\ i \in DOMAIN monitors[k].ws /\ k # 0
    BY Around
  <2>5. <<k, i>> \in Spots
    BY <2>4 DEF Spots, Places
  <2>6. At(<<k, i>>) = v
    BY <2>3, <2>4 DEF At, WorkspaceAt
  <2> QED BY <2>5, <2>6
<1> QED BY <1>1, <1>2

\* A mapped window is in one place, and no other window in any.
LEMMA AllLaidConserved ==
  ASSUME IInv, AllLaid
  PROVE  WindowsConserved
<1>1. PICK D : /\ World(D, nextId, Hands(move), mapped, Outs(monitors), MainOf(monitors, primary))
               /\ Sits(monitors, stranded, D)
  BY DEF AllLaid, Laid
<1>2. Homes(D) /\ Single(D)
  BY <1>1 DEF World
<1>3. SUFFICES ASSUME NEW w \in Window
               PROVE  Cardinality(Holders(w)) = IF w \in mapped THEN 1 ELSE 0
  BY DEF WindowsConserved
<1>4. \A p, q \in SpotsWith(w) : p = q
  <2>1. SUFFICES ASSUME NEW p \in SpotsWith(w), NEW q \in SpotsWith(w) PROVE p = q
    OBVIOUS
  <2>2. p \in Spots /\ q \in Spots /\ Clash(At(p), At(q))
    BY DEF SpotsWith, Clash
  <2> QED BY <1>1, <1>2, <2>2, SpotsApart
<1>5. \A p \in SpotsWith(w) : w \in mapped /\ w \notin Hands(move)
  <2>1. SUFFICES ASSUME NEW p \in SpotsWith(w) PROVE w \in mapped /\ w \notin Hands(move)
    OBVIOUS
  <2>2. p \in Spots /\ w \in At(p).wins
    BY DEF SpotsWith
  <2>3. HomeOf(p) \in Home /\ At(p) \in D[HomeOf(p)]
    BY <1>1, <1>2, <2>2, SpotThere
  <2> QED BY <1>1, <2>2, <2>3 DEF World, Known
<1>6. CASE w \notin mapped
  <2>1. w \notin Hands(move)
    BY <1>1, <1>6 DEF World, Known
  <2>2. Holders(w) = {}
    BY <1>5, <1>6, <2>1, HoldersAre
  <2> QED BY <1>6, <2>2, FS_EmptySet
<1>7. CASE w \in mapped /\ w \in Hands(move)
  <2>1. <<-1, 0>> \in Holders(w) /\ \A x \in Holders(w) : x = <<-1, 0>>
    BY <1>5, <1>7, HoldersAre
  <2>2. PICK e : e = <<-1, 0>>
    OBVIOUS
  <2>3. Holders(w) = {e}
    BY <2>1, <2>2
  <2> QED BY <1>7, <2>3, FS_Singleton
<1>8. CASE w \in mapped /\ w \notin Hands(move)
  <2>1. PICK o \in Home : \E v \in D[o] : w \in v.wins
    BY <1>1, <1>8 DEF World, Known
  <2>2. PICK v \in D[o] : w \in v.wins
    BY <2>1
  <2>3. PICK p \in Spots : At(p) = v
    <3>1. ~IsBlank(v)
      BY <2>2 DEF IsBlank, HasWindowsOrName
    <3> QED BY <1>1, <3>1, FilledInSpot
  <2>4. p \in SpotsWith(w)
    BY <2>2, <2>3 DEF SpotsWith
  <2>5. Holders(w) = {p}
    BY <1>4, <1>8, <2>4, HoldersAre
  <2> QED BY <1>8, <2>5, FS_Singleton
<1> QED BY <1>6, <1>7, <1>8

-----------------------------------------------------------------------------
\* Turning a home twice is turning it once.
LEMMA TurnedTwice ==
  ASSUME NEW D, NEW F, NEW G, NEW o \in Home, NEW X, NEW Y, Turned(D, F, o, X), Turned(F, G, o, Y)
  PROVE  Turned(D, G, o, Y)
  BY DEF Turned

\* An operation that puts empty workspaces at the ends
LEMMA WorldGrown ==
  ASSUME NEW D, NEW b, NEW h, NEW a, NEW conn, NEW main, World(D, b, h, a, conn, main),
         NEW o \in Output, o \in conn
  PROVE  \E F : Turned(D, F, o, Plus2(D[o], o, b)) /\ World(F, b + 2, h, a, conn, main)
<1>1. o \in Home /\ b \in Id /\ Homes(D)
  BY DEF World, Home
<1>2. D[o] \in SUBSET Workspace /\ b + 1 \in Id
  BY <1>1 DEF Homes, Id
<1>3. Plus2(D[o], o, b) \in SUBSET Workspace
  <2>1. NewWorkspace(o, b) \in Workspace /\ NewWorkspace(o, b + 1) \in Workspace
    BY <1>1, <1>2, NewWorkspaceFacts
  <2> QED BY <1>2, <2>1 DEF Plus2, Plus
<1>4. PICK F : Turned(D, F, o, Plus2(D[o], o, b))
  BY <1>1, <1>3, CanTurn
<1>5. World(F, b + 2, h, a, conn, main)
  BY <1>4, WorldPlus2
<1> QED BY <1>4, <1>5

\* A workspace of a home is put in the place of another one.
LEMMA WorldChanged ==
  ASSUME NEW D, NEW b, NEW h, NEW a, NEW conn, NEW main, World(D, b, h, a, conn, main),
         NEW o \in Home, NEW v \in D[o], NEW w \in Workspace,
         w.id = v.id, w.name \in {v.name, NoName} \/ Fresh(D, w.name),
         NEW g, w.wins \cup g = v.wins \cup h, w.wins \cap g = {},
         o \in Output => w.orig \in {v.orig, o}
  PROVE  \E F : Turned(D, F, o, Instead(D[o], v, w)) /\ World(F, b, g, a, conn, main)
<1>1. Instead(D[o], v, w) \in SUBSET Workspace /\ Homes(D)
  BY DEF World, Homes, Instead
<1>2. PICK F : Turned(D, F, o, Instead(D[o], v, w))
  BY <1>1, CanTurn
<1>3. World(F, b, g, a, conn, main)
  BY <1>2, WorldInstead
<1> QED BY <1>2, <1>3

\* Windows are taken from a workspace into the hands.
LEMMA WorldEmptied ==
  ASSUME NEW D, NEW b, NEW h, NEW a, NEW conn, NEW main, World(D, b, h, a, conn, main),
         NEW o \in Home, NEW v \in D[o], NEW W \in SUBSET v.wins
  PROVE  \E F : Turned(D, F, o, Instead(D[o], v, Less(v, W))) /\ World(F, b, h \cup W, a, conn, main)
<1>1. v \in Workspace /\ v.wins \cap h = {}
  BY DEF World, Homes, Known
<1>2. PICK w : w = Less(v, W)
  OBVIOUS
<1>3. w \in Workspace /\ w.id = v.id /\ w.orig = v.orig /\ w.name = v.name /\ w.wins = v.wins \ W
  BY <1>1, <1>2, LessFields
<1>4. PICK g : g = h \cup W
  OBVIOUS
<1>5. w.wins \cup g = v.wins \cup h /\ w.wins \cap g = {}
  BY <1>1, <1>3, <1>4
<1>6. w.name \in {v.name, NoName} /\ w.orig \in {v.orig, o}
  BY <1>3
<1>7. \E F : Turned(D, F, o, Instead(D[o], v, w)) /\ World(F, b, g, a, conn, main)
  BY <1>3, <1>5, <1>6, WorldChanged
<1> QED BY <1>2, <1>4, <1>7

\* Windows in the hands are put on a workspace.
LEMMA WorldFilled ==
  ASSUME NEW D, NEW b, NEW h, NEW a, NEW conn, NEW main, World(D, b, h, a, conn, main),
         NEW o \in Output, o \in conn, NEW v \in D[o], NEW W \in SUBSET h
  PROVE  \E F : /\ Turned(D, F, o, Plus2(Instead(D[o], v, More(v, W, o)), o, b))
                /\ World(F, b + 2, h \ W, a, conn, main)
<1>1. v \in Workspace /\ v.wins \cap h = {} /\ o \in Home /\ W \in SUBSET Window
  BY DEF World, Homes, Known, Home
<1>2. PICK w : w = More(v, W, o)
  OBVIOUS
<1>3. /\ w \in Workspace /\ w.id = v.id /\ w.name = v.name /\ w.wins = v.wins \cup W
      /\ w.orig \in {v.orig, o}
  BY <1>1, <1>2, MoreFields
<1>4. PICK g : g = h \ W
  OBVIOUS
<1>5. w.wins \cup g = v.wins \cup h /\ w.wins \cap g = {}
  BY <1>1, <1>3, <1>4
<1>6. w.name \in {v.name, NoName}
  BY <1>3
<1>7. PICK F : Turned(D, F, o, Instead(D[o], v, w)) /\ World(F, b, g, a, conn, main)
  BY <1>1, <1>3, <1>5, <1>6, WorldChanged
<1>8. PICK G : Turned(F, G, o, Plus2(F[o], o, b)) /\ World(G, b + 2, g, a, conn, main)
  BY <1>7, WorldGrown
<1>9. F[o] = Instead(D[o], v, w)
  BY <1>7 DEF Turned
<1>10. Turned(D, G, o, Plus2(Instead(D[o], v, w), o, b))
  BY <1>1, <1>7, <1>8, <1>9, TurnedTwice
<1> QED BY <1>2, <1>4, <1>8, <1>10

-----------------------------------------------------------------------------
\* The outputs of the monitors ns are those of ms.
SameOutputs(ms, ns) == Len(ns) = Len(ms) /\ \A k \in 1..Len(ms) : ns[k].output = ms[k].output

\* For where workspaces may be, only the outputs of the monitors matter.
LEMMA WorldSame ==
  ASSUME NEW ms, NEW ns, SameOutputs(ms, ns), NEW pr, IndexFits(pr, Len(ms)),
         NEW D, NEW b, NEW h, NEW a, World(D, b, h, a, Outs(ms), MainOf(ms, pr))
  PROVE  World(D, b, h, a, Outs(ns), MainOf(ns, pr))
<1>1. Outs(ns) = Outs(ms)
  <2>1. \A k \in 1..Len(ms) : ns[k].output = ms[k].output
    BY DEF SameOutputs
  <2>2. ASSUME NEW x \in Outs(ns) PROVE x \in Outs(ms)
    <3>1. PICK k \in 1..Len(ms) : x = ns[k].output
      BY DEF Outs, SameOutputs
    <3> QED BY <2>1, <3>1 DEF Outs
  <2>3. ASSUME NEW x \in Outs(ms) PROVE x \in Outs(ns)
    <3>1. PICK k \in 1..Len(ns) : x = ms[k].output
      BY DEF Outs, SameOutputs
    <3>2. x = ns[k].output
      BY <2>1, <3>1 DEF SameOutputs
    <3> QED BY <3>2 DEF Outs
  <2> QED BY <2>2, <2>3
<1>2. MainOf(ns, pr) = MainOf(ms, pr)
  BY DEF MainOf, IndexFits, SameOutputs
<1> QED BY <1>1, <1>2

\* ns is ms with n in the place of monitor k, and has the workspaces of F.
Placed(ms, k, n, ns, st, F) ==
  /\ Sits(ns, st, F) /\ SameOutputs(ms, ns) /\ ns \in Seq(Monitor)
  /\ ns[k] = n /\ \A j \in 1..Len(ms) : j # k => ns[j] = ms[j]

\* One monitor has other workspaces, and its home is turned.
LEMMA OneSits ==
  ASSUME NEW ms \in Seq(Monitor), NEW st, NEW D, Sits(ms, st, D),
         NEW k \in 1..Len(ms), NEW n \in Monitor, n.output = ms[k].output,
         NEW X, Holds(n.ws, X), NEW F, Turned(D, F, ms[k].output, X),
         NEW ns, ns = Exchanged(ms, k, n)
  PROVE  Placed(ms, k, n, ns, st, F)
<1>1. /\ ns \in Seq(Monitor) /\ Len(ns) = Len(ms) /\ ns[k] = n
      /\ \A j \in 1..Len(ms) : j # k => ns[j] = ms[j]
  BY DEF Exchanged
<1>2. ASSUME NEW j \in 1..Len(ms) PROVE ms[j].output \in Output
  <2>1. ms[j] \in Monitor
    OBVIOUS
  <2> QED BY <2>1, MonitorFields
<1>3. F[ms[k].output] = X /\ \A p \in Home : p # ms[k].output => F[p] = D[p]
  BY DEF Turned
<1>4. ASSUME NEW j \in 1..Len(ms)
      PROVE  ns[j].output = ms[j].output /\ Holds(ns[j].ws, F[ms[j].output])
  <2>1. CASE j = k
    BY <1>1, <1>3, <2>1
  <2>2. CASE j # k
    <3>1. ms[j].output # ms[k].output /\ ms[j].output \in Home
      BY <1>2, <2>2 DEF Sits, Home
    <3> QED BY <1>1, <1>3, <2>2, <3>1 DEF Sits
  <2> QED BY <2>1, <2>2
<1>5. Holds(st, F[NoOutput])
  <2>1. NoOutput # ms[k].output /\ NoOutput \in Home
    BY <1>2, NoValues DEF Home
  <2> QED BY <1>3, <2>1 DEF Sits
<1>6. Sits(ns, st, F)
  BY <1>1, <1>4, <1>5 DEF Sits
<1> QED BY <1>1, <1>4, <1>6 DEF Placed, SameOutputs

\* What AllLaid says of the next state.
LEMMA LaidThen ==
  ASSUME IInv, NEW ns, ns = monitors', SameOutputs(monitors, ns), UNCHANGED primary,
         NEW st, st = stranded', NEW F, Sits(ns, st, F),
         World(F, nextId', Hands(move'), mapped', Outs(monitors), MainOf(monitors, primary)),
         DragFits(move', mapped')
  PROVE  AllLaid'
<1>1. IndexFits(primary, Len(monitors))
  BY DEF IInv
<1>2. World(F, nextId', Hands(move'), mapped', Outs(ns), MainOf(ns, primary))
  BY <1>1, WorldSame
<1> QED BY <1>2 DEF AllLaid, Laid

\* A call about one monitor, after which only the windows in the hands of the
\* user and the mapped ones may be others, too.
LEMMA OneLaid ==
  ASSUME IInv, NEW D, Sits(monitors, stranded, D),
         NEW k \in 1..Len(monitors), NEW n \in Monitor, n.output = monitors[k].output,
         NEW X, Holds(n.ws, X), NEW F, Turned(D, F, monitors[k].output, X),
         World(F, nextId', Hands(move'), mapped', Outs(monitors), MainOf(monitors, primary)),
         monitors' = Exchanged(monitors, k, n), UNCHANGED <<primary, stranded>>,
         DragFits(move', mapped')
  PROVE  AllLaid'
<1>1. monitors \in Seq(Monitor)
  BY DEF IInv, Stacks
<1>2. PICK ns, st : ns = Exchanged(monitors, k, n) /\ st = stranded
  OBVIOUS
<1>3. Placed(monitors, k, n, ns, st, F)
  BY <1>1, <1>2, OneSits
<1> QED BY <1>2, <1>3, LaidThen DEF Placed

\* All workspaces stay where they are.
LEMMA SameLaid ==
  ASSUME IInv, AllLaid, NEW ns, ns = monitors', Len(ns) = Len(monitors),
         \A k \in 1..Len(monitors) : ns[k].ws = monitors[k].ws /\ ns[k].output = monitors[k].output,
         UNCHANGED <<primary, stranded>>, nextId' = nextId,
         Hands(move') = Hands(move), mapped' = mapped, DragFits(move', mapped)
  PROVE  AllLaid'
<1>1. PICK D : /\ World(D, nextId, Hands(move), mapped, Outs(monitors), MainOf(monitors, primary))
               /\ Sits(monitors, stranded, D)
  BY DEF AllLaid, Laid
<1>2. Sits(ns, stranded, D) /\ SameOutputs(monitors, ns)
  BY <1>1 DEF Sits, SameOutputs
<1>3. World(D, nextId', Hands(move'), mapped', Outs(monitors), MainOf(monitors, primary))
  BY <1>1
<1> QED BY <1>2, <1>3, LaidThen

\* What AllLaid says of a monitor.
LEMMA LaidMonitor ==
  ASSUME IInv, NEW D, NEW h, NEW a, NEW main, World(D, nextId, h, a, Outs(monitors), main),
         Sits(monitors, stranded, D), NEW k \in 1..Len(monitors)
  PROVE  /\ monitors[k].output \in Output /\ monitors[k].output \in Outs(monitors)
         /\ monitors[k].output \in Home
         /\ Holds(monitors[k].ws, D[monitors[k].output])
         /\ Before(D[monitors[k].output], nextId) /\ Apart(D[monitors[k].output])
         /\ Sound(monitors[k]) /\ Formed(monitors[k]) /\ monitors[k] \in Monitor
         /\ \A i \in 1..Len(monitors[k].ws) : /\ monitors[k].ws[i] \in D[monitors[k].output]
                                              /\ monitors[k].ws[i] \in Workspace
<1>1. monitors[k].output \in Output /\ Sound(monitors[k])
  BY Around
<1>2. monitors[k].output \in Outs(monitors) /\ monitors[k].output \in Home
  BY <1>1 DEF Outs, Home
<1>3. Holds(monitors[k].ws, D[monitors[k].output])
  BY DEF Sits
<1>4. Before(D[monitors[k].output], nextId) /\ Apart(D[monitors[k].output])
  BY <1>2, WorldBefore
<1>5. Formed(monitors[k]) /\ monitors[k] \in Monitor
  BY <1>1 DEF Sound, Nearly, Ready, Formed
<1>6. \A i \in 1..Len(monitors[k].ws) : /\ monitors[k].ws[i] \in D[monitors[k].output]
                                        /\ monitors[k].ws[i] \in Workspace
  BY <1>2, <1>3 DEF Holds, World, Homes
<1> QED BY <1>1, <1>2, <1>3, <1>4, <1>5, <1>6

-----------------------------------------------------------------------------
\* A call about one monitor that leaves its workspaces where they are, but for
\* blank ones.
LEMMA OneHeld ==
  ASSUME IInv, AllLaid, NEW k \in 1..Len(monitors), NEW n \in Monitor,
         n.output = monitors[k].output, \A C : Holds(monitors[k].ws, C) => Holds(n.ws, C),
         monitors' = Exchanged(monitors, k, n),
         UNCHANGED <<primary, stranded, move, mapped, nextId>>
  PROVE  AllLaid'
<1>1. PICK D : /\ World(D, nextId, Hands(move), mapped, Outs(monitors), MainOf(monitors, primary))
               /\ Sits(monitors, stranded, D)
  BY DEF AllLaid, Laid
<1>2. PICK o, C : o = monitors[k].output /\ C = D[o]
  OBVIOUS
<1>3. Holds(n.ws, C) /\ o \in Home
  BY <1>1, <1>2, LaidMonitor
<1>4. Turned(D, D, o, C)
  BY <1>1, <1>2 DEF Turned, World
<1>5. World(D, nextId', Hands(move'), mapped', Outs(monitors), MainOf(monitors, primary))
  BY <1>1
<1>6. DragFits(move', mapped')
  BY DEF AllLaid
<1> QED BY <1>1, <1>2, <1>3, <1>4, <1>5, <1>6, OneLaid

\* The view of one monitor goes to another workspace.
LEMMA ActivatedLays ==
  ASSUME IInv, AllLaid, NEW k \in 1..Len(monitors), NEW i \in 1..Len(monitors[k].ws),
         monitors' = [monitors EXCEPT ![k] = ActivateWorkspace(monitors[k], i)],
         UNCHANGED <<primary, stranded, move, mapped, nextId>>
  PROVE  AllLaid'
<1>1. PICK m, n : m = monitors[k] /\ n = ActivateWorkspace(m, i)
  OBVIOUS
<1>2. Formed(m) /\ i \in 1..Len(m.ws)
  BY <1>1, Around DEF Ready
<1>3. Formed(n) /\ SameOutput(m, n) /\ n.ws = m.ws
  BY <1>1, <1>2, Activated
<1>4. monitors' = Exchanged(monitors, k, n)
  BY <1>1 DEF Exchanged
<1> QED BY <1>1, <1>3, <1>4, OneHeld DEF Formed, SameOutput

\* focus_output, switch_workspace and its kin
LEMMA SwitchLays ==
  ASSUME IInv, AllLaid, SwitchNext
  PROVE  AllLaid'
<1>0. DOMAIN monitors = 1..Len(monitors)
  BY Around
<1>1. ASSUME monitors' = monitors, UNCHANGED <<primary, stranded, move, mapped, nextId>>
      PROVE  AllLaid'
  BY <1>1 DEF AllLaid
<1>2. ASSUME NEW k \in 1..Len(monitors), NEW i \in 1..Len(monitors[k].ws),
             monitors' = [monitors EXCEPT ![k] = ActivateWorkspace(monitors[k], i)],
             UNCHANGED <<stillVars, userVars, mapped, nextId>>
      PROVE  AllLaid'
  BY <1>2, ActivatedLays DEF stillVars, userVars
<1>3. ASSUME NEW k \in 1..Len(monitors), FocusOutput(k)
      PROVE  AllLaid'
  BY <1>1, <1>3 DEF FocusOutput, stillVars, userVars
<1>4. ASSUME NEW k \in 1..Len(monitors), SwitchUp(k) PROVE AllLaid'
  <2>1. PICK i \in SwitchUpTargets(monitors[k]) : OnMonitor(k, ActivateWorkspace(monitors[k], i))
    BY <1>4 DEF SwitchUp
  <2>2. i \in 1..Len(monitors[k].ws)
    BY Around, TargetsThere
  <2> QED BY <1>2, <1>4, <2>1, <2>2 DEF SwitchUp, OnMonitor, SetMonitor
<1>5. ASSUME NEW k \in 1..Len(monitors), SwitchDown(k) PROVE AllLaid'
  <2>1. PICK i \in SwitchDownTargets(monitors[k]) : OnMonitor(k, ActivateWorkspace(monitors[k], i))
    BY <1>5 DEF SwitchDown
  <2>2. i \in 1..Len(monitors[k].ws)
    BY Around, TargetsThere
  <2> QED BY <1>2, <1>5, <2>1, <2>2 DEF SwitchDown, OnMonitor, SetMonitor
<1>6. ASSUME NEW k \in 1..Len(monitors), AnimationDone(k) PROVE AllLaid'
  <2>1. PICK m, n : m = monitors[k] /\ n = Settle(m)
    OBVIOUS
  <2>2. Ready(m)
    BY <2>1, Around
  <2>3. m \in Monitor /\ n \in Monitor /\ ~n.panicked /\ SameOutput(m, n)
    BY <2>1, <2>2, Settled DEF Sound, Nearly, Ready, Formed
  <2>4. \A C : Holds(m.ws, C) => Holds(n.ws, C)
    BY <2>1, <2>3, SettledHolds
  <2>5. monitors' = Exchanged(monitors, k, n)
    BY <1>6, <2>1 DEF AnimationDone, OnMonitor, SetMonitor, Exchanged
  <2>6. UNCHANGED <<primary, stranded, move, mapped, nextId>>
    BY <1>6 DEF AnimationDone, OnMonitor, stillVars, userVars
  <2>7. n.output = monitors[k].output /\ \A C : Holds(monitors[k].ws, C) => Holds(n.ws, C)
    BY <2>1, <2>3, <2>4 DEF SameOutput
  <2> QED BY <2>3, <2>5, <2>6, <2>7, OneHeld
<1>7. ASSUME NEW k \in 1..Len(monitors), NEW i \in 1..Len(monitors[k].ws),
             monitors' = [monitors EXCEPT ![k] = SwitchWorkspace(monitors[k], i)],
             UNCHANGED <<stillVars, userVars, mapped, nextId>>
      PROVE  AllLaid'
  <2>1. PICK to : to = MinOf(i, Len(monitors[k].ws))
    OBVIOUS
  <2>2. to \in 1..Len(monitors[k].ws)
    BY <2>1, Around DEF MinOf
  <2>3. SwitchWorkspace(monitors[k], i) = ActivateWorkspace(monitors[k], to)
    BY <2>1 DEF SwitchWorkspace
  <2> QED BY <1>2, <1>7, <2>2, <2>3
<1>8. ASSUME NEW p \in Places, p[1] = focused, SwitchTo(p[2]) PROVE AllLaid'
  <2>1. p[1] \in 1..Len(monitors) /\ p[2] \in 1..Len(monitors[p[1]].ws)
    BY PlaceThere
  <2> QED BY <1>7, <1>8, <2>1 DEF SwitchTo, OnMonitor, SetMonitor
<1>9. ASSUME NEW p \in Places, SwitchToOn(p[1], p[2]) PROVE AllLaid'
  <2>1. p[1] \in 1..Len(monitors) /\ p[2] \in 1..Len(monitors[p[1]].ws)
    BY PlaceThere
  <2> QED BY <1>7, <1>9, <2>1 DEF SwitchToOn, SetMonitor
<1>10. ASSUME NEW p \in Places, NEW stay \in BOOLEAN, ActivateWindow(p, stay) PROVE AllLaid'
  <2>1. p[1] \in 1..Len(monitors) /\ p[2] \in 1..Len(monitors[p[1]].ws)
    BY PlaceThere
  <2>2. CASE stay
    BY <1>1, <1>10, <2>2 DEF ActivateWindow, stillVars, userVars
  <2>3. CASE ~stay
    BY <1>7, <1>10, <2>1, <2>3 DEF ActivateWindow
  <2> QED BY <2>2, <2>3
<1>11. ASSUME monitors # <<>>, SwitchPrevious PROVE AllLaid'
  <2>1. PICK i \in PreviousIdx(monitors[focused]) :
          OnMonitor(focused, SwitchWorkspace(monitors[focused], i)) /\ UNCHANGED nextId
    BY <1>11 DEF SwitchPrevious
  <2>2. focused \in 1..Len(monitors) /\ i \in 1..Len(monitors[focused].ws)
    BY <1>11, Around DEF PreviousIdx
  <2> QED BY <1>7, <2>1, <2>2 DEF OnMonitor, SetMonitor
<1> QED BY <1>0, <1>3, <1>4, <1>5, <1>6, <1>8, <1>9, <1>10, <1>11 DEF SwitchNext

\* toggle_overview and toggle_overview_to_workspace
LEMMA OverviewLays ==
  ASSUME IInv, AllLaid, OverviewNext
  PROVE  AllLaid'
<1>1. CASE ToggleOverview
  BY <1>1 DEF ToggleOverview, AllLaid, stillVars
<1>2. ASSUME NEW p \in Places, OpenFromOverview(p) PROVE AllLaid'
  <2>1. p[1] \in 1..Len(monitors) /\ p[2] \in 1..Len(monitors[p[1]].ws)
    BY PlaceThere
  <2> QED BY <1>2, <2>1, ActivatedLays DEF OpenFromOverview, SetMonitor, stillVars
<1> QED BY <1>1, <1>2 DEF OverviewNext

-----------------------------------------------------------------------------
\* workspace_switch_gesture_begin
LEMMA SwipeBeginLays ==
  ASSUME IInv, AllLaid, NEW k \in 1..Len(monitors), NEW f, SwipeBegin(k, f),
         Stacks(monitors'), Len(monitors') = Len(monitors)
  PROVE  AllLaid'
<1>0. DOMAIN monitors = 1..Len(monitors)
  BY Around
<1>1. PICK ns : ns = monitors'
  OBVIOUS
<1>2. ns = [j \in DOMAIN monitors |->
              IF j = k THEN [monitors[k] EXCEPT !.sw = Swipe(monitors[k].active, ~overviewOpen)]
              ELSE IF IsGesture(monitors[j].sw) THEN GestureEnd(monitors[j], f[j])
              ELSE monitors[j]]
  BY <1>1 DEF SwipeBegin
<1>3. ASSUME NEW j \in 1..Len(monitors)
      PROVE  ns[j].ws = monitors[j].ws /\ ns[j].output = monitors[j].output
  <2>1. PICK m : m = monitors[j]
    OBVIOUS
  <2>2. m \in Monitor
    BY <2>1, Around DEF Ready, Formed
  <2>3. CASE j = k
    <3>1. PICK sw : sw = Swipe(m.active, ~overviewOpen)
      OBVIOUS
    <3>2. ns[j] = [m EXCEPT !.sw = sw]
      BY <1>0, <1>2, <2>1, <2>3, <3>1
    <3>3. PICK n : n = [m EXCEPT !.sw = sw]
      OBVIOUS
    <3>4. n.ws = m.ws /\ n.output = m.output
      BY <2>2, <3>3 DEF Monitor
    <3> QED BY <2>1, <3>2, <3>3, <3>4
  <2>4. CASE j # k /\ IsGesture(m.sw)
    <3>1. PICK i, n : i = f[j] /\ n = GestureEnd(m, i)
      OBVIOUS
    <3>2. i \in GestureEndTargets(m)
      BY <1>0, <2>1, <2>4, <3>1 DEF SwipeBegin
    <3>3. n.ws = m.ws /\ SameOutput(m, n)
      BY <2>1, <2>4, <3>1, <3>2, Around, GestureEnded
    <3>4. ns[j] = n
      BY <1>0, <1>2, <2>1, <2>4, <3>1
    <3> QED BY <2>1, <3>3, <3>4 DEF SameOutput
  <2>5. CASE j # k /\ ~IsGesture(m.sw)
    <3>1. ns[j] = m
      BY <1>0, <1>2, <2>1, <2>5
    <3> QED BY <2>1, <3>1
  <2> QED BY <2>3, <2>4, <2>5
<1>4. Len(ns) = Len(monitors)
  BY <1>1
<1>5. UNCHANGED <<primary, stranded, move, mapped, nextId>> /\ DragFits(move, mapped)
  BY DEF SwipeBegin, stillVars, userVars, AllLaid
<1> QED BY <1>1, <1>3, <1>4, <1>5, SameLaid

\* workspace_switch_gesture_update
LEMMA GestureUpdateLays ==
  ASSUME IInv, AllLaid, NEW k \in 1..Len(monitors), NEW i \in Nat, GestureUpdate(k, i)
  PROVE  AllLaid'
<1>1. PICK m, n : m = monitors[k] /\ n = ViewAt(m, i)
  OBVIOUS
<1>2. Sound(m) /\ m \in Monitor
  BY <1>1, Around DEF Ready, Formed
<1>3. IsGesture(m.sw) /\ i \in Reach(m) /\ OnMonitor(k, n) /\ UNCHANGED nextId
  BY <1>1 DEF GestureUpdate, Reach, ViewAt
<1>4. Sound(n) /\ SameOutput(m, n)
  BY <1>1, <1>2, <1>3, GestureMoved
<1>5. n.ws = m.ws
  BY <1>1, <1>2 DEF ViewAt, Monitor
<1>6. monitors' = Exchanged(monitors, k, n)
  BY <1>3 DEF OnMonitor, SetMonitor, Exchanged
<1>7. UNCHANGED <<primary, stranded, move, mapped, nextId>>
  BY <1>3 DEF OnMonitor, stillVars, userVars
<1>8. n \in Monitor /\ n.output = monitors[k].output
  BY <1>1, <1>4 DEF Sound, Nearly, Ready, Formed, SameOutput
<1> QED BY <1>1, <1>5, <1>6, <1>7, <1>8, OneHeld

\* workspace_switch_gesture_end
LEMMA SwipeEndLays ==
  ASSUME IInv, AllLaid, NEW k \in 1..Len(monitors), SwipeEnd(k)
  PROVE  AllLaid'
<1>1. PICK m : m = monitors[k]
  OBVIOUS
<1>2. Sound(m)
  BY <1>1, Around
<1>3. PICK i \in GestureEndTargets(m) : IsGesture(m.sw) /\ OnMonitor(k, GestureEnd(m, i)) /\ UNCHANGED nextId
  BY <1>1 DEF SwipeEnd
<1>4. PICK n : n = GestureEnd(m, i)
  OBVIOUS
<1>5. Sound(n) /\ SameOutput(m, n) /\ n.ws = m.ws
  BY <1>2, <1>3, <1>4, GestureEnded
<1>6. monitors' = Exchanged(monitors, k, n)
  BY <1>3, <1>4 DEF OnMonitor, SetMonitor, Exchanged
<1>7. UNCHANGED <<primary, stranded, move, mapped, nextId>>
  BY <1>3 DEF OnMonitor, stillVars, userVars
<1>8. n \in Monitor /\ n.output = monitors[k].output
  BY <1>1, <1>5 DEF Sound, Nearly, Ready, Formed, SameOutput
<1> QED BY <1>1, <1>5, <1>6, <1>7, <1>8, OneHeld

\* Edge scrolls that begin leave the workspaces where they are.
LEMMA BegunScrollsShow ==
  ASSUME IInv, NEW k \in 1..Len(monitors)
  PROVE  DndScrollsBegun[k].ws = monitors[k].ws /\ DndScrollsBegun[k].output = monitors[k].output
<1>1. PICK m, n : m = monitors[k] /\ n = DndScrollBegin(m, overviewOpen)
  OBVIOUS
<1>2. m \in Monitor /\ DOMAIN monitors = 1..Len(monitors)
  BY <1>1, Around DEF Ready, Formed
<1>3. DndScrollsBegun[k] = n
  BY <1>1, <1>2 DEF DndScrollsBegun
<1>4. PICK sw : sw = DndScroll(m.active)
  OBVIOUS
<1>5. n = m \/ n = [m EXCEPT !.sw = sw]
  BY <1>1, <1>4 DEF DndScrollBegin
<1>6. n.ws = m.ws /\ n.output = m.output
  BY <1>2, <1>5 DEF Monitor
<1> QED BY <1>1, <1>3, <1>6

\* The workspaces stay where they are when edge scrolls begin or end.
LEMMA ScrollLays ==
  ASSUME IInv, AllLaid,
         \/ monitors' = DndScrollsBegun
         \/ \E f \in Landings : monitors' = DndScrollsEnded(f),
         UNCHANGED <<primary, stranded, mapped, nextId>>,
         Hands(move') = Hands(move), DragFits(move', mapped)
  PROVE  AllLaid'
<1>1. PICK ns : ns = monitors'
  OBVIOUS
<1>2. CASE ns = DndScrollsBegun
  <2>1. Len(ns) = Len(monitors)
    BY <1>2, ScrollsBegun
  <2>2. \A k \in 1..Len(monitors) : ns[k].ws = monitors[k].ws /\ ns[k].output = monitors[k].output
    BY <1>2, BegunScrollsShow
  <2> QED BY <1>1, <2>1, <2>2, SameLaid
<1>3. ASSUME NEW f \in Landings, ns = DndScrollsEnded(f) PROVE AllLaid'
  <2>1. Len(ns) = Len(monitors)
    BY <1>3, ScrollsEnded
  <2>2. \A k \in 1..Len(monitors) : ns[k].ws = monitors[k].ws /\ ns[k].output = monitors[k].output
    BY <1>3, ScrollsEnded DEF SameOutput
  <2> QED BY <1>1, <2>1, <2>2, SameLaid
<1> QED BY <1>1, <1>2, <1>3

\* A workspace of a monitor has mapped windows only.
LEMMA MappedThere ==
  ASSUME IInv, AllLaid, NEW p \in Places
  PROVE  WorkspaceAt(p).wins \subseteq mapped /\ WorkspaceAt(p).wins \cap Hands(move) = {}
<1>1. PICK D : /\ World(D, nextId, Hands(move), mapped, Outs(monitors), MainOf(monitors, primary))
               /\ Sits(monitors, stranded, D)
  BY DEF AllLaid, Laid
<1>2. PICK k, i : k = p[1] /\ i = p[2]
  OBVIOUS
<1>3. k \in 1..Len(monitors) /\ i \in 1..Len(monitors[k].ws) /\ WorkspaceAt(p) = monitors[k].ws[i]
  BY <1>2, PlaceThere
<1>4. PICK o : o = monitors[k].output
  OBVIOUS
<1>5. o \in Home /\ WorkspaceAt(p) \in D[o]
  BY <1>1, <1>3, <1>4, LaidMonitor
<1> QED BY <1>1, <1>5 DEF World, Known

\* dnd_begin, dnd_end and the drag of a window up to where it begins and is called off
LEMMA DragLays ==
  ASSUME IInv, AllLaid,
         \/ DndBegin \/ \E w \in Window : InteractiveMoveBegin(w)
         \/ \E f \in Landings : DndEnd(f) \/ InteractiveMoveCancel(f)
  PROVE  AllLaid'
<1>1. DragFits(move, mapped)
  BY DEF AllLaid
<1>2. CASE DndBegin
  BY <1>1, <1>2, ScrollLays DEF DndBegin, stillVars
<1>3. ASSUME NEW w \in Window, InteractiveMoveBegin(w) PROVE AllLaid'
  <2>1. PICK p \in Places : w \in WorkspaceAt(p).wins
    BY <1>3 DEF InteractiveMoveBegin
  <2>2. w \in mapped
    BY <2>1, MappedThere
  <2>3. move = NotMoving /\ move' = Starting(w)
    BY <1>3 DEF InteractiveMoveBegin
  <2>4. Hands(move') = Hands(move)
    BY <2>3 DEF Hands, NotMoving, Starting
  <2>5. DragFits(move', mapped)
    BY <2>2, <2>3 DEF DragFits, Starting
  <2> QED BY <1>3, <2>4, <2>5, ScrollLays DEF InteractiveMoveBegin, stillVars
<1>4. ASSUME NEW f \in Landings, DndEnd(f) PROVE AllLaid'
  BY <1>1, <1>4, ScrollLays DEF DndEnd, stillVars
<1>5. ASSUME NEW f \in Landings, InteractiveMoveCancel(f) PROVE AllLaid'
  <2>1. move.kind = "starting" /\ move' = NotMoving
    BY <1>5 DEF InteractiveMoveCancel
  <2>2. Hands(move') = Hands(move) /\ DragFits(move', mapped)
    BY <2>1 DEF Hands, NotMoving, DragFits
  <2> QED BY <1>5, <2>2, ScrollLays DEF InteractiveMoveCancel, stillVars
<1> QED BY <1>2, <1>3, <1>4, <1>5

\* dnd_hold
LEMMA DndHoldLays ==
  ASSUME IInv, AllLaid, NEW p \in Places, NEW f \in Landings, DndHold(p, f)
  PROVE  AllLaid'
<1>1. PICK k, i, ms, m : k = p[1] /\ i = p[2] /\ ms = DndScrollsEnded(f) /\ m = ms[k]
  OBVIOUS
<1>2. k \in 1..Len(monitors) /\ i \in 1..Len(monitors[k].ws) /\ DOMAIN monitors = 1..Len(monitors)
  BY <1>1, PlaceThere, Around
<1>3. /\ Formed(m) /\ i \in 1..Len(m.ws) /\ m.ws = monitors[k].ws /\ m.output = monitors[k].output
  <2>1. /\ Stacks(ms) /\ Len(ms) = Len(monitors) /\ ms[k].ws = monitors[k].ws
        /\ SameOutput(monitors[k], ms[k])
    BY <1>1, <1>2, ScrollsEnded
  <2> QED BY <1>1, <1>2, <2>1 DEF Stacks, Sound, Nearly, Ready, SameOutput
<1>4. PICK n : n = ActivateWorkspace(m, i)
  OBVIOUS
<1>5. Formed(n) /\ n.ws = m.ws /\ SameOutput(m, n)
  BY <1>3, <1>4, Activated
<1>6. m = IF monitors[k].sw.kind = "dnd" THEN GestureEnd(monitors[k], f[k]) ELSE monitors[k]
  BY <1>1, <1>2 DEF DndScrollsEnded
<1>7. monitors' = Exchanged(monitors, k, n)
  BY <1>1, <1>4, <1>6 DEF DndHold, SetMonitor, Exchanged
<1>8. n \in Monitor /\ n.output = monitors[k].output /\ n.ws = monitors[k].ws
  BY <1>3, <1>5 DEF Formed, SameOutput
<1>9. UNCHANGED <<primary, stranded, move, mapped, nextId>>
  BY DEF DndHold, stillVars
<1> QED BY <1>2, <1>7, <1>8, <1>9, OneHeld

\* interactive_move_update, with the window over another output
LEMMA InteractiveMoveToLays ==
  ASSUME IInv, AllLaid, NEW w \in Window, NEW o \in Output, InteractiveMoveTo(w, o)
  PROVE  AllLaid'
<1>1. move.kind = "moving" /\ move.win = {w} /\ move' = Moving(w, o)
  BY DEF InteractiveMoveTo
<1>2. w \in mapped
  BY <1>1 DEF AllLaid, DragFits
<1>3. Hands(move') = Hands(move) /\ DragFits(move', mapped)
  BY <1>1, <1>2 DEF Hands, DragFits, Moving
<1>4. UNCHANGED <<monitors, primary, stranded, mapped, nextId>>
  BY DEF InteractiveMoveTo, stillVars
<1> QED BY <1>3, <1>4 DEF AllLaid

-----------------------------------------------------------------------------
\* A call takes more ids than it gives to workspaces.
LEMMA IdsTaken ==
  ASSUME IInv, TakeIds, NEW D, NEW b \in {nextId, nextId + 1, nextId + 2, nextId + 3},
         NEW h, NEW a, NEW conn, NEW main, World(D, b, h, a, conn, main)
  PROVE  World(D, nextId', h, a, conn, main)
<1>1. PICK c : c = nextId'
  OBVIOUS
<1>2. c \in Id /\ b <= c
  BY <1>1, Around DEF TakeIds, IdsPerCall, Id
<1>3. World(D, c, h, a, conn, main)
  BY <1>2, WorldLater
<1> QED BY <1>1, <1>3

\* add_window, with outputs
LEMMA AddWindowLays ==
  ASSUME IInv, AllLaid, NEW w \in Window, NEW p \in Places, NEW act \in BOOLEAN, AddWindow(w, p, act)
  PROVE  AllLaid'
<1>1. PICK D : /\ World(D, nextId, Hands(move), mapped, Outs(monitors), MainOf(monitors, primary))
               /\ Sits(monitors, stranded, D)
  BY DEF AllLaid, Laid
<1>2. PICK k, i, m, o, v : k = p[1] /\ i = p[2] /\ m = monitors[k] /\ o = m.output /\ v = m.ws[i]
  OBVIOUS
<1>3. k \in 1..Len(monitors) /\ i \in 1..Len(m.ws) /\ w \notin mapped /\ nextId \in Id
  BY <1>2, PlaceThere, Around DEF AddWindow
<1>4. /\ o \in Output /\ o \in Outs(monitors) /\ Holds(m.ws, D[o]) /\ Before(D[o], nextId)
      /\ Sound(m) /\ Formed(m) /\ v \in D[o]
  BY <1>1, <1>2, <1>3, LaidMonitor
<1>5. PICK h, g, a : h = Hands(move) /\ g = h \cup {w} /\ a = mapped \cup {w}
  OBVIOUS
<1>6. World(D, nextId, g, a, Outs(monitors), MainOf(monitors, primary))
  BY <1>1, <1>3, <1>5, WorldOpened
<1>7. h \subseteq mapped /\ {w} \in SUBSET g
  BY <1>1, <1>5 DEF World, Known
<1>8. g \ {w} = h
  BY <1>3, <1>5, <1>7
<1>9. PICK F : /\ Turned(D, F, o, Plus2(Instead(D[o], v, More(v, {w}, o)), o, nextId))
               /\ World(F, nextId + 2, g \ {w}, a, Outs(monitors), MainOf(monitors, primary))
  BY <1>4, <1>6, <1>7, WorldFilled
<1>10. PICK n : n = AddWindows(m, i, {w}, act, nextId)
  OBVIOUS
<1>11. SameOutput(m, n) /\ Holds(n.ws, Plus2(Instead(D[o], v, More(v, {w}, o)), o, nextId))
  BY <1>2, <1>3, <1>4, <1>10, WindowsAddedHolds
<1>12. n \in Monitor
  BY <1>3, <1>4, <1>10, SoundlyAdded DEF Sound, Nearly, Ready, Formed
<1>13. monitors' = Exchanged(monitors, k, n)
  BY <1>2, <1>10, Zenon DEF AddWindow, SetMonitor, Exchanged
<1>14. /\ UNCHANGED <<primary, stranded, move>> /\ mapped' = a /\ TakeIds
  BY <1>5 DEF AddWindow, stillVars, userVars
<1>15. World(F, nextId', Hands(move'), mapped', Outs(monitors), MainOf(monitors, primary))
  <2>1. World(F, nextId + 2, h, a, Outs(monitors), MainOf(monitors, primary))
    BY <1>8, <1>9
  <2>2. World(F, nextId', h, a, Outs(monitors), MainOf(monitors, primary))
    BY <1>14, <2>1, IdsTaken
  <2> QED BY <1>5, <1>14, <2>2
<1>16. DragFits(move', mapped')
  BY <1>5, <1>14 DEF AllLaid, DragFits
<1>17. n.output = monitors[k].output
  BY <1>2, <1>11 DEF SameOutput
<1>18. PICK X : X = Plus2(Instead(D[o], v, More(v, {w}, o)), o, nextId)
  OBVIOUS
<1>19. Holds(n.ws, X) /\ Turned(D, F, monitors[k].output, X)
  BY <1>2, <1>9, <1>11, <1>18
<1> QED BY <1>1, <1>3, <1>12, <1>13, <1>14, <1>15, <1>16, <1>17, <1>19, OneLaid

\* Monitor n is m after a step that turned its home in D, so that F is now what
\* the homes have.
Stepped(D, F, m, n, b, h, a, conn, main) ==
  /\ Turned(D, F, m.output, F[m.output]) /\ Holds(n.ws, F[m.output])
  /\ World(F, b, h, a, conn, main)
  /\ Nearly(n) /\ SameOutput(m, n)

\* What move_to_workspace and its kin do first: the windows W leave a workspace.
LEMMA TakenOut ==
  ASSUME IInv, NEW D, NEW h, NEW a, NEW main, World(D, nextId, h, a, Outs(monitors), main),
         Sits(monitors, stranded, D), NEW k \in 1..Len(monitors), NEW m, m = monitors[k],
         NEW i \in 1..Len(m.ws), NEW W, W \subseteq m.ws[i].wins,
         NEW t, t = TakeWindows(m, i, W)
  PROVE  /\ \E F : Stepped(D, F, m, t, nextId, h \cup W, a, Outs(monitors), main)
         /\ Len(t.ws) = Len(m.ws)
<1>1. PICK o, v : o = m.output /\ v = m.ws[i]
  OBVIOUS
<1>2. /\ o \in Output /\ o \in Home /\ Holds(m.ws, D[o]) /\ Sound(m) /\ Formed(m) /\ v \in D[o]
  BY <1>1, LaidMonitor
<1>3. PICK F : /\ Turned(D, F, o, Instead(D[o], v, Less(v, W)))
               /\ World(F, nextId, h \cup W, a, Outs(monitors), main)
  BY <1>1, <1>2, WorldEmptied
<1>4. Holds(t.ws, Instead(D[o], v, Less(v, W)))
  BY <1>1, <1>2, TakenHolds
<1>5. F[o] = Instead(D[o], v, Less(v, W))
  BY <1>3 DEF Turned
<1>6. Nearly(t) /\ SameOutput(m, t) /\ Len(t.ws) = Len(m.ws)
  BY <1>2, WindowsTaken DEF Sound
<1>7. Turned(D, F, o, F[o]) /\ Holds(t.ws, F[o])
  BY <1>3, <1>4, <1>5
<1>8. Stepped(D, F, m, t, nextId, h \cup W, a, Outs(monitors), main)
  BY <1>1, <1>3, <1>6, <1>7 DEF Stepped
<1> QED BY <1>6, <1>8

\* What they do next: windows in the hands of the compositor are put on workspace i of
\* a monitor.
LEMMA PutIn ==
  ASSUME NEW D, NEW b, NEW h, NEW a, NEW conn, NEW main, World(D, b, h, a, conn, main),
         NEW m, Nearly(m), m.output \in conn, Holds(m.ws, D[m.output]),
         NEW i \in 1..Len(m.ws), NEW W \in SUBSET h, W # {},
         NEW act \in BOOLEAN, NEW n, n = AddWindows(m, i, W, act, b)
  PROVE  \E F : Stepped(D, F, m, n, b + 2, h \ W, a, conn, main)
<1>1. PICK o, v : o = m.output /\ v = m.ws[i]
  OBVIOUS
<1>2. Formed(m) /\ m \in Monitor
  BY DEF Nearly, Ready, Formed
<1>3. o \in Output /\ o \in Home /\ b \in Id /\ W \in SUBSET Window
  BY <1>1, <1>2, MonitorFields DEF Home, World, Known
<1>4. v \in D[o] /\ Before(D[o], b)
  BY <1>1, <1>3, WorldBefore DEF Holds
<1>5. PICK F : /\ Turned(D, F, o, Plus2(Instead(D[o], v, More(v, W, o)), o, b))
               /\ World(F, b + 2, h \ W, a, conn, main)
  BY <1>1, <1>3, <1>4, WorldFilled
<1>6. Holds(n.ws, Plus2(Instead(D[o], v, More(v, W, o)), o, b))
  BY <1>1, <1>2, <1>3, <1>4, WindowsAddedHolds
<1>7. F[o] = Plus2(Instead(D[o], v, More(v, W, o)), o, b)
  BY <1>5 DEF Turned
<1>8. Nearly(n) /\ SameOutput(m, n)
  BY <1>3, WindowsAdded
<1>9. Turned(D, F, o, F[o]) /\ Holds(n.ws, F[o])
  BY <1>5, <1>6, <1>7
<1>10. Stepped(D, F, m, n, b + 2, h \ W, a, conn, main)
  BY <1>1, <1>5, <1>8, <1>9 DEF Stepped
<1> QED BY <1>10

\* The windows W go from workspace i of monitor `from` to workspace j of monitor k.
Taken(ms, from, i, W) == Exchanged(ms, from, TakeWindows(ms[from], i, W))

\* ... and put on workspace j of monitor k.
Carried(ms, from, i, k, j, W, act, id) ==
  Exchanged(Taken(ms, from, i, W), k, AddWindows(Taken(ms, from, i, W)[k], j, W, act, id))

\* No workspace is lost on the way, and no window.
LEMMA CarriedSits ==
  ASSUME IInv, AllLaid, NEW from \in 1..Len(monitors), NEW k \in 1..Len(monitors),
         NEW i \in 1..Len(monitors[from].ws), NEW j \in 1..Len(monitors[k].ws),
         NEW W, W \subseteq monitors[from].ws[i].wins, W # {}, NEW act \in BOOLEAN,
         NEW as, as = Carried(monitors, from, i, k, j, W, act, nextId)
  PROVE  \E G : /\ Sits(as, stranded, G) /\ SameOutputs(monitors, as) /\ as \in Seq(Monitor)
                /\ World(G, nextId + 2, Hands(move), mapped, Outs(monitors), MainOf(monitors, primary))
                /\ Nearly(as[from]) /\ Homes(G)
<1>1. PICK D : /\ World(D, nextId, Hands(move), mapped, Outs(monitors), MainOf(monitors, primary))
               /\ Sits(monitors, stranded, D)
  BY DEF AllLaid, Laid
<1>2. PICK m, o, t, ts : /\ m = monitors[from] /\ o = m.output /\ t = TakeWindows(m, i, W)
                         /\ ts = Exchanged(monitors, from, t)
  OBVIOUS
<1>3. PICK h, g, conn, main, st : /\ h = Hands(move) /\ g = h \cup W /\ conn = Outs(monitors)
                                  /\ main = MainOf(monitors, primary) /\ st = stranded
  OBVIOUS
<1>4. monitors \in Seq(Monitor) /\ Nearly(monitors[k]) /\ nextId \in Id
  BY Around DEF IInv, Stacks
<1>5. (\E F : Stepped(D, F, m, t, nextId, h \cup W, mapped, Outs(monitors), main)) /\ Len(t.ws) = Len(m.ws)
  <2>1. World(D, nextId, h, mapped, Outs(monitors), main)
    BY <1>1, <1>3
  <2>2. /\ Sits(monitors, stranded, D) /\ m = monitors[from] /\ i \in 1..Len(m.ws)
        /\ W \subseteq m.ws[i].wins /\ t = TakeWindows(m, i, W)
    BY <1>1, <1>2
  <2>3. \E F : Stepped(D, F, m, t, nextId, h \cup W, mapped, Outs(monitors), main)
    BY <2>1, <2>2, TakenOut
  <2>4. Len(t.ws) = Len(m.ws)
    BY <2>2, Around, WindowsTaken
  <2> QED BY <2>3, <2>4
<1>6. PICK F : Stepped(D, F, m, t, nextId, g, mapped, conn, main)
  BY <1>3, <1>5
<1>7. /\ Turned(D, F, o, F[o]) /\ Holds(t.ws, F[o]) /\ World(F, nextId, g, mapped, conn, main)
      /\ Nearly(t) /\ t \in Monitor /\ t.output = monitors[from].output
  BY <1>2, <1>6 DEF Stepped, Nearly, Ready, Formed, SameOutput
<1>8. Placed(monitors, from, t, ts, st, F)
  <2>1. Turned(D, F, monitors[from].output, F[o]) /\ Sits(monitors, st, D)
    BY <1>1, <1>2, <1>3, <1>7
  <2> QED BY <1>2, <1>4, <1>7, <2>1, OneSits
<1>9. /\ Sits(ts, st, F) /\ SameOutputs(monitors, ts) /\ ts \in Seq(Monitor)
      /\ ts[from] = t /\ \A y \in 1..Len(monitors) : y # from => ts[y] = monitors[y]
  BY <1>8 DEF Placed
<1>10. PICK p, q : p = ts[k] /\ q = p.output
  OBVIOUS
<1>11. Nearly(p) /\ j \in 1..Len(p.ws) /\ Holds(p.ws, F[q]) /\ q \in conn /\ k \in 1..Len(ts)
  <2>1. Nearly(p) /\ j \in 1..Len(p.ws)
    BY <1>2, <1>4, <1>5, <1>7, <1>9, <1>10
  <2>2. k \in 1..Len(ts) /\ q = monitors[k].output
    BY <1>9, <1>10 DEF SameOutputs
  <2> QED BY <1>3, <1>9, <1>10, <2>1, <2>2 DEF Sits, Outs
<1>12. PICK x : x = AddWindows(p, j, W, act, nextId)
  OBVIOUS
<1>13. W \in SUBSET g /\ g \ W = h
  <2>1. W \cap h = {}
    <3>1. PICK v : v = m.ws[i]
      OBVIOUS
    <3>2. o \in Home /\ v \in D[o]
      BY <1>1, <1>2, <3>1, LaidMonitor
    <3>3. v.wins \cap h = {}
      BY <1>1, <1>3, <3>2 DEF World, Known
    <3> QED BY <1>2, <3>1, <3>3
  <2> QED BY <1>3, <2>1
<1>14. PICK G : Stepped(F, G, p, x, nextId + 2, h, mapped, conn, main)
  <2>1. Holds(p.ws, F[p.output]) /\ p.output \in conn
    BY <1>10, <1>11
  <2>2. \E G : Stepped(F, G, p, x, nextId + 2, g \ W, mapped, conn, main)
    BY <1>7, <1>11, <1>12, <1>13, <2>1, PutIn
  <2> QED BY <1>13, <2>2
<1>15. /\ Turned(F, G, q, G[q]) /\ Holds(x.ws, G[q]) /\ World(G, nextId + 2, h, mapped, conn, main)
       /\ Nearly(x) /\ x \in Monitor /\ x.output = ts[k].output
  BY <1>10, <1>14 DEF Stepped, Nearly, Ready, Formed, SameOutput
<1>16. as = Exchanged(ts, k, x)
  BY <1>2, <1>10, <1>12 DEF Carried, Taken
<1>17. Placed(ts, k, x, as, st, G)
  <2>1. Turned(F, G, ts[k].output, G[q])
    BY <1>10, <1>15
  <2> QED BY <1>9, <1>11, <1>15, <1>16, <2>1, OneSits
<1>18. /\ Sits(as, st, G) /\ SameOutputs(ts, as) /\ as \in Seq(Monitor)
       /\ as[k] = x /\ \A y \in 1..Len(ts) : y # k => as[y] = ts[y]
  BY <1>17 DEF Placed
<1>19. SameOutputs(monitors, as)
  BY <1>9, <1>18 DEF SameOutputs
<1>20. Nearly(as[from])
  BY <1>7, <1>9, <1>15, <1>18 DEF SameOutputs
<1> QED BY <1>3, <1>15, <1>18, <1>19, <1>20 DEF World

\* move_to_workspace, move_to_output and their likes for columns
LEMMA CarriedLays ==
  ASSUME IInv, AllLaid, NEW from \in 1..Len(monitors), NEW k \in 1..Len(monitors),
         NEW i \in 1..Len(monitors[from].ws), NEW j \in 1..Len(monitors[k].ws),
         NEW W, W \subseteq monitors[from].ws[i].wins, W # {}, NEW act \in BOOLEAN,
         NEW as, as = Carried(monitors, from, i, k, j, W, act, nextId),
         \/ monitors' = as
         \/ monitors' = Exchanged(as, from, CleanUpIfIdle(as[from])),
         TakeIds, UNCHANGED <<primary, stranded, move, mapped>>
  PROVE  AllLaid'
<1>1. PICK G : /\ Sits(as, stranded, G) /\ SameOutputs(monitors, as) /\ as \in Seq(Monitor)
               /\ World(G, nextId + 2, Hands(move), mapped, Outs(monitors), MainOf(monitors, primary))
               /\ Nearly(as[from]) /\ Homes(G)
  BY CarriedSits
<1>2. World(G, nextId', Hands(move), mapped, Outs(monitors), MainOf(monitors, primary))
  BY <1>1, IdsTaken
<1>3. World(G, nextId', Hands(move'), mapped', Outs(monitors), MainOf(monitors, primary))
  BY <1>2
<1>4. DragFits(move', mapped')
  BY DEF AllLaid
<1>5. CASE monitors' = as
  BY <1>1, <1>3, <1>4, <1>5, LaidThen
<1>6. CASE monitors' = Exchanged(as, from, CleanUpIfIdle(as[from]))
  <2>1. PICK m, o, n, ns, st : /\ m = as[from] /\ o = m.output /\ n = CleanUpIfIdle(m)
                                /\ ns = Exchanged(as, from, n) /\ st = stranded
    OBVIOUS
  <2>2. Sound(n) /\ SameOutput(m, n) /\ m \in Monitor
    BY <1>1, <2>1, CleanedUpIfIdle DEF Nearly, Ready, Formed
  <2>3. n \in Monitor /\ n.output = as[from].output /\ ~n.panicked
    BY <2>1, <2>2 DEF Sound, Nearly, Ready, Formed, SameOutput
  <2>4. from \in 1..Len(as) /\ Holds(m.ws, G[o])
    BY <1>1, <2>1 DEF Sits, SameOutputs
  <2>5. Holds(n.ws, G[o])
    BY <2>1, <2>2, <2>3, <2>4, CleanedIfIdleHolds
  <2>6. Turned(G, G, as[from].output, G[o])
    BY <1>1, <2>1 DEF Turned
  <2>7. Placed(as, from, n, ns, st, G)
    BY <1>1, <2>1, <2>3, <2>4, <2>5, <2>6, OneSits
  <2>8. SameOutputs(monitors, ns) /\ Sits(ns, stranded, G)
    BY <1>1, <2>1, <2>7 DEF SameOutputs, Placed
  <2>9. ns = monitors'
    BY <1>6, <2>1
  <2> QED BY <1>3, <1>4, <2>8, <2>9, LaidThen
<1> QED BY <1>5, <1>6

\* The last of two monitors put in the same place is there.
LEMMA ExchangedTwice ==
  ASSUME NEW ms \in Seq(Monitor), NEW k \in 1..Len(ms), NEW x, NEW y
  PROVE  Exchanged(Exchanged(ms, k, x), k, y) = Exchanged(ms, k, y) /\ Exchanged(ms, k, x)[k] = x
<1>1. PICK s : s = [ms EXCEPT ![k] = x]
  OBVIOUS
<1>2. PICK t : t = [s EXCEPT ![k] = y]
  OBVIOUS
<1>3. DOMAIN s = DOMAIN ms /\ s[k] = x /\ \A j \in DOMAIN ms : j # k => s[j] = ms[j]
  BY <1>1
<1>4. t = [j \in DOMAIN ms |-> IF j = k THEN y ELSE ms[j]]
  <2>1. DOMAIN t = DOMAIN ms /\ \A j \in DOMAIN ms : t[j] = IF j = k THEN y ELSE ms[j]
    BY <1>2, <1>3
  <2>2. t = [j \in DOMAIN t |-> t[j]]
    BY <1>2
  <2> QED BY <2>1, <2>2
<1>5. [ms EXCEPT ![k] = y] = [j \in DOMAIN ms |-> IF j = k THEN y ELSE ms[j]]
  OBVIOUS
<1>6. t = [ms EXCEPT ![k] = y]
  BY <1>4, <1>5
<1> QED BY <1>1, <1>2, <1>3, <1>6 DEF Exchanged

\* move_to_workspace
LEMMA MoveToWorkspaceLays ==
  ASSUME IInv, AllLaid, NEW p \in Places, NEW w \in Window, NEW idx \in 1..Len(monitors[p[1]].ws),
         NEW act \in BOOLEAN, MoveToWorkspace(w, p, idx, act)
  PROVE  AllLaid'
<1>1. PICK k, i, m, to, W : /\ k = p[1] /\ i = p[2] /\ m = monitors[k] /\ to = MinOf(idx, Len(m.ws))
                            /\ W = {w}
  OBVIOUS
<1>2. k \in 1..Len(monitors) /\ i \in 1..Len(m.ws) /\ monitors \in Seq(Monitor) /\ WorkspaceAt(p) = m.ws[i]
  BY <1>1, PlaceThere DEF IInv, Stacks
<1>3. to \in 1..Len(m.ws)
  BY <1>1, <1>2, Around DEF MinOf
<1>4. PICK t, x, n, ts, as : /\ t = TakeWindows(m, i, W) /\ x = AddWindows(t, to, W, act, nextId)
                             /\ n = CleanUpIfIdle(x) /\ ts = Exchanged(monitors, k, t)
                             /\ as = Exchanged(ts, k, x)
  OBVIOUS
<1>5. ts[k] = t /\ as = Exchanged(monitors, k, x)
  BY <1>2, <1>4, ExchangedTwice
<1>6. as[k] = x /\ Exchanged(as, k, n) = Exchanged(monitors, k, n)
  BY <1>2, <1>5, ExchangedTwice
<1>7. as = Carried(monitors, k, i, k, to, W, act, nextId)
  BY <1>1, <1>4, <1>5 DEF Carried, Taken
<1>8. monitors' = Exchanged(monitors, k, n)
  BY <1>1, <1>4, Zenon DEF MoveToWorkspace, SetMonitor, Exchanged
<1>9. monitors' = Exchanged(as, k, CleanUpIfIdle(as[k]))
  BY <1>4, <1>6, <1>8
<1>10. W \subseteq monitors[k].ws[i].wins /\ W # {}
  BY <1>1, <1>2 DEF MoveToWorkspace
<1>11. TakeIds /\ UNCHANGED <<primary, stranded, move, mapped>>
  BY DEF MoveToWorkspace, stillVars, userVars
<1>12. i \in 1..Len(monitors[k].ws) /\ to \in 1..Len(monitors[k].ws)
  BY <1>1, <1>2, <1>3
<1> QED BY <1>2, <1>7, <1>9, <1>10, <1>11, <1>12, CarriedLays

\* move_column_to_workspace
LEMMA MoveColumnToWorkspaceLays ==
  ASSUME IInv, AllLaid, monitors # <<>>, NEW W, NEW idx \in 1..Len(monitors[focused].ws),
         NEW act \in BOOLEAN, MoveColumnToWorkspace(W, idx, act)
  PROVE  AllLaid'
<1>1. PICK k, m, i, to : k = focused /\ m = monitors[k] /\ i = m.active /\ to = MinOf(idx, Len(m.ws))
  OBVIOUS
<1>2. k \in 1..Len(monitors) /\ i \in 1..Len(m.ws) /\ monitors \in Seq(Monitor)
  BY <1>1, Around DEF IInv, Stacks
<1>3. to \in 1..Len(m.ws)
  BY <1>1, <1>2, Around DEF MinOf
<1>4. PICK t, x, ts, as : /\ t = TakeWindows(m, i, W) /\ x = AddWindows(t, to, W, act, nextId)
                          /\ ts = Exchanged(monitors, k, t) /\ as = Exchanged(ts, k, x)
  OBVIOUS
<1>5. ts[k] = t /\ as = Exchanged(monitors, k, x)
  BY <1>2, <1>4, ExchangedTwice
<1>6. as = Carried(monitors, k, i, k, to, W, act, nextId)
  BY <1>1, <1>4, <1>5 DEF Carried, Taken
<1>7. monitors' = as
  BY <1>1, <1>4, <1>5, Zenon DEF MoveColumnToWorkspace, SetMonitor, Exchanged
<1>8. W \subseteq monitors[k].ws[i].wins /\ W # {}
  BY <1>1 DEF MoveColumnToWorkspace
<1>9. TakeIds /\ UNCHANGED <<primary, stranded, move, mapped>>
  BY DEF MoveColumnToWorkspace, stillVars, userVars
<1>10. i \in 1..Len(monitors[k].ws) /\ to \in 1..Len(monitors[k].ws)
  BY <1>1, <1>2, <1>3
<1> QED BY <1>2, <1>6, <1>7, <1>8, <1>9, <1>10, CarriedLays

\* move_to_output
LEMMA MoveToOutputLays ==
  ASSUME IInv, AllLaid, NEW p \in Places, NEW w \in Window, NEW q \in Places, NEW act \in BOOLEAN,
         MoveToOutput(w, p, q[1], q[2], act)
  PROVE  AllLaid'
<1>1. PICK from, i, k, j, W : from = p[1] /\ i = p[2] /\ k = q[1] /\ j = q[2] /\ W = {w}
  OBVIOUS
<1>2. /\ from \in 1..Len(monitors) /\ i \in 1..Len(monitors[from].ws)
      /\ k \in 1..Len(monitors) /\ j \in 1..Len(monitors[k].ws)
      /\ WorkspaceAt(p) = monitors[from].ws[i]
  BY <1>1, PlaceThere
<1>3. PICK ts, as : /\ ts = [monitors EXCEPT ![from] = TakeWindows(monitors[from], i, W)]
                    /\ as = [ts EXCEPT ![k] = AddWindows(ts[k], j, W, act, nextId)]
  OBVIOUS
<1>4. as = Carried(monitors, from, i, k, j, W, act, nextId)
  BY <1>3 DEF Carried, Taken, Exchanged
<1>5. monitors' = [as EXCEPT ![from] = CleanUpIfIdle(as[from])]
  BY <1>1, <1>3, Zenon DEF MoveToOutput
<1>6. monitors' = Exchanged(as, from, CleanUpIfIdle(as[from]))
  BY <1>5 DEF Exchanged
<1>7. W \subseteq monitors[from].ws[i].wins /\ W # {}
  BY <1>1, <1>2 DEF MoveToOutput
<1>8. TakeIds /\ UNCHANGED <<primary, stranded, move, mapped>>
  BY DEF MoveToOutput, stillVars, userVars
<1> QED BY <1>2, <1>4, <1>6, <1>7, <1>8, CarriedLays

\* move_column_to_output
LEMMA MoveColumnToOutputLays ==
  ASSUME IInv, AllLaid, monitors # <<>>, NEW W, NEW q \in Places, NEW act \in BOOLEAN,
         MoveColumnToOutput(W, q[1], q[2], act)
  PROVE  AllLaid'
<1>1. PICK from, i, k, j : /\ from = focused /\ i = monitors[from].active /\ k = q[1]
                           /\ j = MinOf(q[2], Len(monitors[k].ws))
  OBVIOUS
<1>2. /\ from \in 1..Len(monitors) /\ i \in 1..Len(monitors[from].ws)
      /\ k \in 1..Len(monitors) /\ q[2] \in 1..Len(monitors[k].ws)
  BY <1>1, Around, PlaceThere
<1>3. j \in 1..Len(monitors[k].ws)
  BY <1>1, <1>2, Around DEF MinOf
<1>4. PICK ts, as : /\ ts = [monitors EXCEPT ![from] = TakeWindows(monitors[from], i, W)]
                    /\ as = [ts EXCEPT ![k] = AddWindows(ts[k], j, W, act, nextId)]
  OBVIOUS
<1>5. as = Carried(monitors, from, i, k, j, W, act, nextId)
  BY <1>4 DEF Carried, Taken, Exchanged
<1>6. monitors' = as
  BY <1>1, <1>4, Zenon DEF MoveColumnToOutput
<1>7. W \subseteq monitors[from].ws[i].wins /\ W # {}
  BY <1>1, <1>2 DEF MoveColumnToOutput
<1>8. TakeIds /\ UNCHANGED <<primary, stranded, move, mapped>>
  BY DEF MoveColumnToOutput, stillVars, userVars
<1> QED BY <1>2, <1>3, <1>5, <1>6, <1>7, <1>8, CarriedLays

-----------------------------------------------------------------------------
\* Taking away a window that is not there changes nothing.
LEMMA LessNone ==
  ASSUME NEW v \in Workspace, NEW w, w \notin v.wins
  PROVE  Less(v, {w}) = v
<1>1. PICK e : e = v.wins \ {w}
  OBVIOUS
<1>2. e = v.wins
  BY <1>1
<1>3. [v EXCEPT !.wins = v.wins] = v
  BY DEF Workspace
<1> QED BY <1>1, <1>2, <1>3 DEF Less

\* The only workspace of a stack that has a window is in one place of it.
LEMMA OnlyThere ==
  ASSUME NEW s, NEW C, Holds(s, C), NEW v \in C, NEW w, w \in v.wins,
         \A u \in C : w \in u.wins => u = v
  PROVE  \E i \in 1..Len(s) : s[i] = v /\ \A j \in 1..Len(s) : w \in s[j].wins <=> j = i
<1>1. ~IsBlank(v)
  BY DEF IsBlank, HasWindowsOrName
<1>2. PICK i \in 1..Len(s) : s[i] = v
  BY <1>1 DEF Holds
<1>3. ASSUME NEW j \in 1..Len(s), w \in s[j].wins PROVE j = i
  <2>1. s[j] \in C
    BY DEF Holds
  <2>2. s[j] = v
    BY <1>3, <2>1
  <2>3. s[j].id = s[i].id
    BY <1>2, <2>2
  <2> QED BY <2>3 DEF Holds
<1> QED BY <1>2, <1>3

\* remove_window takes the window from its workspace and drops only blank ones.
LEMMA WindowOffHolds ==
  ASSUME NEW m, Sound(m), NEW C, Holds(m.ws, C), NEW v \in C, NEW w, w \in v.wins,
         \A u \in C : w \in u.wins => u = v, NEW n, n = WindowOff(m, w)
  PROVE  Holds(n.ws, Instead(C, v, Less(v, {w})))
<1>1. Formed(m) /\ m.ws \in Seq(Workspace) /\ DOMAIN m.ws = 1..Len(m.ws) /\ Len(m.ws) \in Nat
  BY MonitorFields DEF Sound, Nearly, Ready, Formed
<1>2. PICK s, len : s = m.ws /\ len = Len(s)
  OBVIOUS
<1>3. PICK i \in 1..len : s[i] = v /\ \A j \in 1..len : w \in s[j].wins <=> j = i
  BY <1>2, OnlyThere
<1>4. PICK on : on = {j \in DOMAIN m.ws : w \in m.ws[j].wins}
  OBVIOUS
<1>5. on = {i} /\ on \in SUBSET (1..len) /\ len \in Nat
  BY <1>1, <1>2, <1>3, <1>4
<1>6. Nth(on, 1) = i
  <2>1. Cardinality(on) = 1
    BY <1>5, FS_Singleton
  <2>2. 1 \in 1..Cardinality(on)
    BY <2>1
  <2>3. Nth(on, 1) \in on
    BY <1>5, <2>2, NthIsThere
  <2> QED BY <1>5, <2>3
<1>7. PICK t : t = TakeWindows(m, i, {w})
  OBVIOUS
<1>8. n = CleanUpAfterClose(t, i)
  BY <1>4, <1>5, <1>6, <1>7 DEF WindowOff
<1>9. Formed(t) /\ Holds(t.ws, Instead(C, v, Less(v, {w}))) /\ Len(t.ws) = Len(m.ws)
  <2>0. i \in 1..Len(m.ws) /\ Formed(m)
    BY <1>1, <1>2
  <2>1. Holds(t.ws, Instead(C, m.ws[i], Less(m.ws[i], {w})))
    BY <1>7, <2>0, TakenHolds
  <2>3. Formed(t)
    BY <1>7, <2>0, TakenHolds
  <2>2. Len(t.ws) = Len(m.ws)
    BY <1>7, <2>0, WindowsTaken DEF Sound
  <2> QED BY <1>2, <1>3, <2>1, <2>2, <2>3
<1>10. ~n.panicked
  BY WindowRemoved DEF Sound, Nearly, Ready
<1>11. i \in 1..Len(t.ws)
  BY <1>2, <1>9
<1> QED BY <1>8, <1>9, <1>10, <1>11, CleanedAfterCloseHolds

\* A monitor without the window stays as it is.
LEMMA WindowNotThere ==
  ASSUME NEW m, Sound(m), NEW C, Holds(m.ws, C), NEW w, \A u \in C : w \notin u.wins,
         NEW n, n = WindowOff(m, w)
  PROVE  Holds(n.ws, C)
<1>1. DOMAIN m.ws = 1..Len(m.ws)
  BY MonitorFields DEF Sound, Nearly, Ready, Formed
<1>2. {j \in DOMAIN m.ws : w \in m.ws[j].wins} = {}
  BY <1>1 DEF Holds
<1>3. n = m
  BY <1>2 DEF WindowOff
<1> QED BY <1>3

\* The same for the workspaces that no output has.
LEMMA StrandedOffHolds ==
  ASSUME IInv, NEW w, NEW C, Holds(stranded, C), NEW B,
         \/ B = C /\ \A u \in C : w \notin u.wins
         \/ \E v \in C : /\ w \in v.wins /\ \A u \in C : w \in u.wins => u = v
                         /\ B = Instead(C, v, Less(v, {w}))
  PROVE  Holds(StrandedWithout(w), B)
<1>1. PICK s : s = stranded
  OBVIOUS
<1>2. s \in Seq(Workspace) /\ DOMAIN s = 1..Len(s) /\ Len(s) \in Nat
  BY <1>1 DEF IInv, Parked
<1>3. PICK left : left = [i \in DOMAIN s |-> Less(s[i], {w})]
  OBVIOUS
<1>4. PICK K : K = {i \in DOMAIN left : w \in s[i].wins => HasWindowsOrName(left[i])}
  OBVIOUS
<1>5. StrandedWithout(w) = Keep(left, K)
  BY <1>1, <1>3, <1>4, Zenon DEF StrandedWithout, Less
<1>6. \A i \in 1..Len(s) : s[i] \in C /\ left[i] = Less(s[i], {w})
  BY <1>1, <1>2, <1>3 DEF Holds
<1>7. \A i \in 1..Len(s) : w \notin s[i].wins => left[i] = s[i]
  BY <1>2, <1>6, LessNone
<1>8. CASE B = C /\ \A u \in C : w \notin u.wins
  <2>1. \A i \in 1..Len(s) : left[i] = s[i] /\ w \notin s[i].wins
    BY <1>6, <1>7, <1>8
  <2>2. left = s
    <3>1. DOMAIN left = DOMAIN s /\ \A i \in DOMAIN s : left[i] = s[i]
      BY <1>2, <1>3, <2>1
    <3>2. left = [i \in DOMAIN left |-> left[i]]
      BY <1>3
    <3>3. s = [i \in DOMAIN s |-> s[i]]
      BY <1>2
    <3> QED BY <3>1, <3>2, <3>3
  <2>3. K = 1..Len(s)
    BY <1>2, <1>3, <1>4, <2>1
  <2>4. \A k \in K : s[k] \in C
    BY <1>6, <2>3
  <2>5. K \in SUBSET (1..Len(s)) /\ \A k \in (1..Len(s)) \ K : s[k] \in C => IsBlank(s[k])
    BY <2>3
  <2>6. PICK t : t = Keep(s, K)
    OBVIOUS
  <2>7. Holds(t, C)
    BY <1>1, <2>4, <2>5, <2>6, HoldsKept
  <2> QED BY <1>5, <1>8, <2>2, <2>6, <2>7
<1>9. ASSUME NEW v \in C, w \in v.wins, \A u \in C : w \in u.wins => u = v,
             B = Instead(C, v, Less(v, {w}))
      PROVE  Holds(StrandedWithout(w), B)
  <2>1. PICK i \in 1..Len(s) : s[i] = v /\ \A j \in 1..Len(s) : w \in s[j].wins <=> j = i
    BY <1>1, <1>9, OnlyThere
  <2>2. PICK e : e = Less(v, {w})
    OBVIOUS
  <2>3. e \in Workspace /\ e.id = s[i].id
    BY <1>2, <2>1, <2>2, LessFields
  <2>4. left = [s EXCEPT ![i] = e]
    BY <1>2, <1>3, <1>6, <1>7, <2>1, <2>2
  <2>5. Holds(left, (C \ {s[i]}) \cup {e})
    BY <1>1, <2>3, <2>4, HoldsExchanged
  <2>6. Holds(left, B)
    BY <1>9, <2>1, <2>2, <2>5 DEF Instead
  <2>7. DOMAIN left = 1..Len(left)
    BY <2>6 DEF Holds
  <2>8. K \in SUBSET (1..Len(left)) /\ \A k \in K : left[k] \in B
    BY <1>4, <2>6, <2>7 DEF Holds
  <2>9. \A k \in (1..Len(left)) \ K : left[k] \in B => IsBlank(left[k])
    BY <1>4, <2>7 DEF IsBlank
  <2>10. PICK t : t = Keep(left, K)
    OBVIOUS
  <2>11. Holds(t, B)
    BY <2>6, <2>8, <2>9, <2>10, HoldsKept
  <2> QED BY <1>5, <2>10, <2>11
<1> QED BY <1>8, <1>9

\* remove_window, wherever the window is, takes it into the hands of the compositor.
LEMMA WindowGone ==
  ASSUME IInv, NEW ms, Stacks(ms), NEW D, NEW b, NEW h, NEW a, NEW conn, NEW main,
         World(D, b, h, a, conn, main), Sits(ms, stranded, D), NEW w \in a, w \notin h,
         NEW ns, ns = WithoutWindow(ms, w), NEW st, st = StrandedWithout(w)
  PROVE  \E F : World(F, b, h \cup {w}, a, conn, main) /\ Sits(ns, st, F) /\ SameOutputs(ms, ns)
<1>1. PICK o \in Home : \E v \in D[o] : w \in v.wins
  BY DEF World, Known
<1>2. PICK v \in D[o] : w \in v.wins
  BY <1>1
<1>3. w \in Window
  BY DEF World, Known
<1>4. ASSUME NEW p \in Home, NEW u \in D[p], w \in u.wins PROVE p = o /\ u = v
  <2>1. Clash(u, v)
    BY <1>2, <1>3, <1>4 DEF Clash
  <2> QED BY <2>1 DEF World, Single
<1>5. PICK B : B = Instead(D[o], v, Less(v, {w}))
  OBVIOUS
<1>6. PICK F : Turned(D, F, o, B) /\ World(F, b, h \cup {w}, a, conn, main)
  <2>1. {w} \in SUBSET v.wins
    BY <1>2
  <2> QED BY <1>5, <2>1, WorldEmptied
<1>7. F[o] = B /\ \A p \in Home : p # o => F[p] = D[p]
  BY <1>6 DEF Turned
<1>8. DOMAIN ms = 1..Len(ms) /\ \A k \in 1..Len(ms) : Sound(ms[k]) /\ ms[k].output \in Output
  <2>1. \A k \in 1..Len(ms) : Sound(ms[k])
    BY DEF Stacks
  <2>2. \A k \in 1..Len(ms) : ms[k] \in Monitor
    BY <2>1 DEF Sound, Nearly, Ready, Formed
  <2> QED BY <2>1, <2>2, MonitorFields DEF Stacks
<1>9. ns = [k \in DOMAIN ms |-> WindowOff(ms[k], w)] /\ Len(ns) = Len(ms)
  <2>1. ns = [k \in DOMAIN ms |-> WindowOff(ms[k], w)]
    BY Zenon DEF WithoutWindow, WindowOff
  <2>2. Len(ns) = Len(ms)
    BY WindowOffEach
  <2> QED BY <2>1, <2>2
<1>10. ASSUME NEW k \in 1..Len(ms)
       PROVE  ns[k].output = ms[k].output /\ Holds(ns[k].ws, F[ms[k].output])
  <2>1. PICK m, n, p, C : m = ms[k] /\ n = ns[k] /\ p = m.output /\ C = D[p]
    OBVIOUS
  <2>2. n = WindowOff(m, w) /\ Sound(m) /\ p \in Home /\ Holds(m.ws, C)
    BY <1>8, <1>9, <2>1 DEF Sits, Home
  <2>3. SameOutput(m, n)
    BY <2>2, WindowRemoved
  <2>4. CASE p = o
    <3>1. v \in C /\ \A u \in C : w \in u.wins => u = v
      BY <1>4, <2>1, <2>2, <2>4
    <3>2. Holds(n.ws, Instead(C, v, Less(v, {w})))
      BY <1>2, <2>2, <3>1, WindowOffHolds
    <3> QED BY <1>5, <1>7, <2>1, <2>3, <2>4, <3>2 DEF SameOutput
  <2>5. CASE p # o
    <3>1. \A u \in C : w \notin u.wins
      BY <1>4, <2>1, <2>2, <2>5
    <3>2. Holds(n.ws, C)
      BY <2>2, <3>1, WindowNotThere
    <3> QED BY <1>7, <2>1, <2>2, <2>3, <2>5, <3>2 DEF SameOutput
  <2> QED BY <2>4, <2>5
<1>11. Holds(st, F[NoOutput])
  <2>1. PICK C, X : C = D[NoOutput] /\ X = F[NoOutput]
    OBVIOUS
  <2>2. Holds(stranded, C) /\ NoOutput \in Home
    BY <2>1 DEF Sits, Home
  <2>3. CASE o = NoOutput
    <3>1. v \in C /\ (\A u \in C : w \in u.wins => u = v) /\ X = Instead(C, v, Less(v, {w}))
      BY <1>4, <1>5, <1>7, <2>1, <2>2, <2>3
    <3>2. Holds(StrandedWithout(w), X)
      BY <1>2, <2>2, <3>1, StrandedOffHolds
    <3> QED BY <2>1, <3>2
  <2>4. CASE o # NoOutput
    <3>1. X = C /\ \A u \in C : w \notin u.wins
      BY <1>4, <1>7, <2>1, <2>2, <2>4
    <3>2. Holds(StrandedWithout(w), X)
      BY <2>2, <3>1, StrandedOffHolds
    <3> QED BY <2>1, <3>2
  <2> QED BY <2>3, <2>4
<1>12. Sits(ns, st, F) /\ SameOutputs(ms, ns)
  BY <1>9, <1>10, <1>11 DEF Sits, SameOutputs
<1> QED BY <1>6, <1>12

-----------------------------------------------------------------------------
\* The workspaces stay where they are when edge scrolls end.
LEMMA EndedSits ==
  ASSUME IInv, NEW f \in Landings, NEW D, Sits(monitors, stranded, D), NEW ms, ms = DndScrollsEnded(f)
  PROVE  Sits(ms, stranded, D) /\ SameOutputs(monitors, ms) /\ Stacks(ms)
<1>1. Stacks(ms) /\ Len(ms) = Len(monitors)
  BY ScrollsEnded
<1>2. \A k \in 1..Len(monitors) : ms[k].ws = monitors[k].ws /\ ms[k].output = monitors[k].output
  BY ScrollsEnded DEF SameOutput
<1>3. SameOutputs(monitors, ms)
  BY <1>1, <1>2 DEF SameOutputs
<1>4. Sits(ms, stranded, D)
  BY <1>1, <1>2 DEF Sits
<1> QED BY <1>1, <1>3, <1>4

\* One set of outputs is that of another one.
LEMMA SameTwice ==
  ASSUME NEW ms, NEW ns, NEW os, SameOutputs(ms, ns), SameOutputs(ns, os)
  PROVE  SameOutputs(ms, os)
  BY DEF SameOutputs

\* remove_window
LEMMA RemoveWindowLays ==
  ASSUME IInv, AllLaid, NEW w \in Window, NEW f \in Landings, RemoveWindow(w, f)
  PROVE  AllLaid'
<1>1. PICK D : /\ World(D, nextId, Hands(move), mapped, Outs(monitors), MainOf(monitors, primary))
               /\ Sits(monitors, stranded, D)
  BY DEF AllLaid, Laid
<1>2. PICK ended, h, a, conn, main, st :
        /\ ended = DndScrollsEnded(f) /\ h = Hands(move) /\ a = mapped
        /\ conn = Outs(monitors) /\ main = MainOf(monitors, primary) /\ st = StrandedWithout(w)
  OBVIOUS
<1>3. Sits(ended, stranded, D) /\ SameOutputs(monitors, ended) /\ Stacks(ended)
  BY <1>1, <1>2, EndedSits
<1>4. World(D, nextId, h, a, conn, main)
  BY <1>1, <1>2
<1>5. /\ w \in a /\ mapped' = a \ {w} /\ stranded' = st
      /\ UNCHANGED <<primary, nextId>>
      /\ move' = IF w \in move.win THEN NotMoving ELSE move
  BY <1>2 DEF RemoveWindow
<1>6. DragFits(move, mapped) /\ move \in MoveType
  BY DEF AllLaid, IInv, RestOK
<1>7. DragFits(move', mapped')
  BY <1>2, <1>5, <1>6 DEF DragFits, NotMoving
<1>8. Hands(move') = h \ {w}
  <2>1. CASE w \in move.win
    <3>1. Hands(move') = {}
      BY <1>5, <2>1 DEF Hands, NotMoving
    <3>2. move.win = {w}
      BY <1>6, <2>1 DEF DragFits
    <3> QED BY <1>2, <3>1, <3>2 DEF Hands
  <2>2. CASE w \notin move.win
    BY <1>2, <1>5, <2>2 DEF Hands
  <2> QED BY <2>1, <2>2
<1>9. CASE w \notin h
  <2>1. PICK ms : /\ Stacks(ms) /\ Sits(ms, stranded, D) /\ SameOutputs(monitors, ms)
                  /\ monitors' = WithoutWindow(ms, w)
    <3>1. CASE w \notin move.win
      <4>1. Stacks(monitors) /\ SameOutputs(monitors, monitors) /\ Sits(monitors, stranded, D)
        BY <1>1 DEF IInv, SameOutputs
      <4>2. monitors' = WithoutWindow(monitors, w)
        BY <3>1 DEF RemoveWindow
      <4> QED BY <4>1, <4>2
    <3>2. CASE w \in move.win
      <4>1. move.kind = "starting"
        BY <1>2, <1>6, <1>9, <3>2 DEF Hands, DragFits, MoveType
      <4>2. monitors' = WithoutWindow(ended, w)
        BY <1>2, <3>2, <4>1 DEF RemoveWindow
      <4> QED BY <1>3, <4>2
    <3> QED BY <3>1, <3>2
  <2>2. PICK ns : ns = WithoutWindow(ms, w)
    OBVIOUS
  <2>3. PICK F : World(F, nextId, h \cup {w}, a, conn, main) /\ Sits(ns, st, F) /\ SameOutputs(ms, ns)
    BY <1>2, <1>4, <1>5, <1>9, <2>1, <2>2, WindowGone
  <2>4. PICK g : g = h \cup {w}
    OBVIOUS
  <2>5. World(F, nextId, g \ {w}, a \ {w}, conn, main)
    <3>1. w \in g /\ World(F, nextId, g, a, conn, main)
      BY <2>3, <2>4
    <3> QED BY <3>1, WorldClosed
  <2>6. g \ {w} = h \ {w}
    BY <2>4
  <2>7. World(F, nextId', Hands(move'), mapped', Outs(monitors), MainOf(monitors, primary))
    BY <1>2, <1>5, <1>8, <2>5, <2>6
  <2>8. SameOutputs(monitors, ns)
    BY <2>1, <2>3, SameTwice
  <2>9. ns = monitors'
    BY <2>1, <2>2
  <2> QED BY <1>5, <1>7, <2>3, <2>7, <2>8, <2>9, LaidThen
<1>10. CASE w \in h
  <2>1. monitors' = ended
    BY <1>2, <1>10 DEF RemoveWindow, Hands
  <2>2. World(D, nextId, h \ {w}, a \ {w}, conn, main)
    BY <1>4, <1>10, WorldClosed
  <2>3. World(D, nextId', Hands(move'), mapped', Outs(monitors), MainOf(monitors, primary))
    BY <1>2, <1>5, <1>8, <2>2
  <2>4. PICK C : C = D[NoOutput]
    OBVIOUS
  <2>5. \A u \in C : w \notin u.wins
    BY <1>4, <1>10, <2>4 DEF World, Known, Home
  <2>6. Holds(stranded, C)
    BY <1>1, <2>4 DEF Sits
  <2>7. Holds(StrandedWithout(w), C)
    BY <2>5, <2>6, StrandedOffHolds
  <2>8. Sits(ended, st, D)
    BY <1>2, <1>3, <2>4, <2>7 DEF Sits
  <2> QED BY <1>3, <1>5, <1>7, <2>1, <2>3, <2>8, LaidThen
<1> QED BY <1>9, <1>10

\* interactive_move_update, when the window leaves its workspace
LEMMA InteractiveMoveStartLays ==
  ASSUME IInv, AllLaid, NEW w \in Window, NEW o \in Output, InteractiveMoveStart(w, o)
  PROVE  AllLaid'
<1>1. PICK D : /\ World(D, nextId, Hands(move), mapped, Outs(monitors), MainOf(monitors, primary))
               /\ Sits(monitors, stranded, D)
  BY DEF AllLaid, Laid
<1>2. PICK h, a, conn, main, ns, st :
        /\ h = Hands(move) /\ a = mapped /\ conn = Outs(monitors) /\ main = MainOf(monitors, primary)
        /\ ns = WithoutWindow(monitors, w) /\ st = StrandedWithout(w)
  OBVIOUS
<1>3. /\ move = Starting(w) /\ move' = Moving(w, o) /\ monitors' = ns /\ o \in Connected
      /\ UNCHANGED <<primary, stranded, mapped, nextId>>
  BY <1>2 DEF InteractiveMoveStart, stillVars
<1>4. h = {} /\ Hands(move') = {w}
  BY <1>2, <1>3 DEF Hands, Starting, Moving
<1>5. w \in a
  BY <1>2, <1>3 DEF AllLaid, DragFits, Starting
<1>6. DragFits(move', mapped')
  BY <1>2, <1>3, <1>5 DEF DragFits, Moving
<1>7. Stacks(monitors) /\ World(D, nextId, h, a, conn, main) /\ w \notin h
  BY <1>1, <1>2, <1>4 DEF IInv
<1>8. PICK F : World(F, nextId, h \cup {w}, a, conn, main) /\ Sits(ns, st, F) /\ SameOutputs(monitors, ns)
  BY <1>1, <1>2, <1>5, <1>7, WindowGone
<1>9. st = stranded'
  <2>1. Len(monitors) # 0
    BY <1>3, Around DEF Connected
  <2>2. stranded = <<>>
    BY <2>1 DEF IInv, Parked
  <2>3. Parked(st, Len(monitors))
    BY <1>2, StrandedClosed
  <2>4. st = <<>>
    BY <2>1, <2>3 DEF Parked
  <2> QED BY <1>3, <2>2, <2>4
<1>10. h \cup {w} = {w}
  BY <1>4
<1>11. World(F, nextId', Hands(move'), mapped', Outs(monitors), MainOf(monitors, primary))
  BY <1>2, <1>3, <1>4, <1>8, <1>10
<1> QED BY <1>3, <1>6, <1>8, <1>9, <1>11, LaidThen

-----------------------------------------------------------------------------
\* An operation that puts one empty workspace somewhere
LEMMA WorldGrownByOne ==
  ASSUME NEW D, NEW b, NEW h, NEW a, NEW conn, NEW main, World(D, b, h, a, conn, main),
         NEW o \in Output, o \in conn
  PROVE  \E F : Turned(D, F, o, Plus(D[o], o, b)) /\ World(F, b + 1, h, a, conn, main)
<1>1. o \in Home /\ b \in Id /\ Homes(D)
  BY DEF World, Home
<1>2. Plus(D[o], o, b) \in SUBSET Workspace
  BY <1>1, NewWorkspaceFacts DEF Plus, Homes
<1>3. PICK F : Turned(D, F, o, Plus(D[o], o, b))
  BY <1>1, <1>2, CanTurn
<1>4. World(F, b + 1, h, a, conn, main)
  BY <1>3, WorldPlus
<1> QED BY <1>3, <1>4

\* A drop between two workspaces makes at most one new workspace.
LEMMA DroppedOnHolds ==
  ASSUME NEW m, Formed(m), NEW C, Holds(m.ws, C), NEW id \in Id, Before(C, id),
         NEW j \in 1..(Len(m.ws) + 1), NEW n, n = DropOnNew(m, j, id)
  PROVE  Holds(n.ws, Plus(C, m.output, id))
<1>1. n = m \/ n = AddWorkspaceAt(m, j, id)
  BY DEF DropOnNew
<1>2. CASE n = m
  BY <1>2, HoldsPlus
<1>3. CASE n = AddWorkspaceAt(m, j, id)
  BY <1>3, AddedHolds
<1> QED BY <1>1, <1>2, <1>3

\* interactive_move_end, with outputs
LEMMA InteractiveMoveEndLays ==
  ASSUME IInv, AllLaid, monitors # <<>>, NEW w \in Window, NEW f \in Landings, NEW idx \in Nat,
         NEW isNew \in BOOLEAN, InteractiveMoveEnd(w, f, idx, isNew)
  PROVE  AllLaid'
<1>1. PICK D : /\ World(D, nextId, Hands(move), mapped, Outs(monitors), MainOf(monitors, primary))
               /\ Sits(monitors, stranded, D)
  BY DEF AllLaid, Laid
<1>2. PICK ms, h, a, conn, main, st :
        /\ ms = DndScrollsEnded(f) /\ h = Hands(move) /\ a = mapped
        /\ conn = Outs(monitors) /\ main = MainOf(monitors, primary) /\ st = stranded
  OBVIOUS
<1>3. Sits(ms, st, D) /\ SameOutputs(monitors, ms) /\ Stacks(ms)
  BY <1>1, <1>2, EndedSits
<1>4. Dropped(ms, w, monitors')
  BY <1>2, WindowDropped
<1>5. PICK k, m, i : /\ DroppedAt(ms, k, m, i, nextId)
                     /\ monitors' = [ms EXCEPT ![k] = AddWindows(m, i, {w}, ~overviewOpen, nextId + 1)]
  BY <1>4 DEF Dropped
<1>6. PICK m0, o, id : m0 = ms[k] /\ o = m0.output /\ id = nextId
  OBVIOUS
<1>7. /\ k \in 1..Len(ms) /\ Nearly(m) /\ SameOutput(m0, m) /\ i \in 1..Len(m.ws)
      /\ m = m0 \/ \E j \in 1..(Len(m0.ws) + 1) : m = DropOnNew(m0, j, id)
  BY <1>5, <1>6 DEF DroppedAt
<1>8. /\ Formed(m0) /\ o \in Output /\ o \in Home /\ o \in conn /\ id \in Id /\ m.output = o
      /\ World(D, id, h, a, conn, main) /\ Holds(m0.ws, D[o])
  <2>1. Sound(m0)
    BY <1>3, <1>6, <1>7 DEF Stacks
  <2>2. Formed(m0) /\ m0 \in Monitor
    BY <2>1 DEF Sound, Nearly, Ready, Formed
  <2>3. o \in conn
    BY <1>2, <1>3, <1>6, <1>7 DEF SameOutputs, Outs
  <2>4. o \in Output /\ m.output = o
    BY <1>6, <1>7, <2>2, MonitorFields DEF SameOutput
  <2>5. Holds(m0.ws, D[o])
    BY <1>3, <1>6, <1>7 DEF Sits
  <2> QED BY <1>1, <1>2, <1>6, <2>2, <2>3, <2>4, <2>5, Around DEF Home
<1>9. Before(D[o], id)
  BY <1>8, WorldBefore
<1>10. PICK F : Turned(D, F, o, Plus(D[o], o, id)) /\ World(F, id + 1, h, a, conn, main)
  BY <1>8, WorldGrownByOne
<1>11. F[o] = Plus(D[o], o, id)
  BY <1>10 DEF Turned
<1>12. Holds(m.ws, F[m.output])
  <2>1. Holds(m.ws, Plus(D[o], o, id))
    <3>1. CASE m = m0
      BY <1>8, <3>1, HoldsPlus
    <3>2. ASSUME NEW j \in 1..(Len(m0.ws) + 1), m = DropOnNew(m0, j, id)
          PROVE  Holds(m.ws, Plus(D[o], o, id))
      <4>1. Holds(m.ws, Plus(D[o], m0.output, id))
        BY <1>8, <1>9, <3>2, DroppedOnHolds
      <4> QED BY <1>6, <4>1
    <3> QED BY <1>7, <3>1, <3>2
  <2> QED BY <1>8, <1>11, <2>1
<1>13. PICK id1, act, W, n : /\ id1 = id + 1 /\ act = ~overviewOpen /\ W = {w}
                             /\ n = AddWindows(m, i, W, act, id1)
  OBVIOUS
<1>14. W \in SUBSET h /\ W # {} /\ h \ W = {} /\ act \in BOOLEAN
  <2>1. h = {w}
    BY <1>2 DEF InteractiveMoveEnd, Hands
  <2> QED BY <1>13, <2>1
<1>15. PICK G : Stepped(F, G, m, n, id1 + 2, h \ W, a, conn, main)
  <2>1. World(F, id1, h, a, conn, main) /\ m.output \in conn
    BY <1>8, <1>10, <1>13
  <2> QED BY <1>7, <1>12, <1>13, <1>14, <2>1, PutIn
<1>16. /\ Turned(F, G, o, G[o]) /\ Holds(n.ws, G[o]) /\ World(G, id1 + 2, h \ W, a, conn, main)
       /\ n \in Monitor /\ n.output = m0.output
  BY <1>6, <1>8, <1>15 DEF Stepped, Nearly, Ready, Formed, SameOutput
<1>17. Turned(D, G, o, G[o])
  BY <1>8, <1>10, <1>16, TurnedTwice
<1>18. PICK ns : ns = Exchanged(ms, k, n)
  OBVIOUS
<1>19. Placed(ms, k, n, ns, st, G)
  <2>1. ms \in Seq(Monitor) /\ Turned(D, G, ms[k].output, G[o]) /\ n.output = ms[k].output
    BY <1>3, <1>6, <1>16, <1>17 DEF Stacks
  <2> QED BY <1>3, <1>7, <1>16, <1>18, <2>1, OneSits
<1>20. Sits(ns, st, G) /\ SameOutputs(ms, ns)
  BY <1>19 DEF Placed
<1>21. SameOutputs(monitors, ns)
  BY <1>3, <1>20, SameTwice
<1>22. ns = monitors'
  BY <1>5, <1>6, <1>13, <1>18 DEF Exchanged
<1>23. move' = NotMoving /\ TakeIds /\ UNCHANGED <<primary, stranded, mapped>>
  BY DEF InteractiveMoveEnd, stillVars
<1>24. Hands(move') = {} /\ DragFits(move', mapped')
  BY <1>23 DEF Hands, DragFits, NotMoving
<1>25. World(G, nextId', Hands(move'), mapped', Outs(monitors), MainOf(monitors, primary))
  <2>1. id1 + 2 = nextId + 3
    BY <1>6, <1>8, <1>13 DEF Id
  <2>2. World(G, nextId + 3, {}, a, conn, main)
    BY <1>14, <1>16, <2>1
  <2>3. World(G, nextId', {}, a, conn, main)
    BY <1>23, <2>2, IdsTaken
  <2> QED BY <1>2, <1>23, <1>24, <2>3
<1>26. st = stranded'
  BY <1>2, <1>23
<1> QED BY <1>20, <1>21, <1>22, <1>23, <1>24, <1>25, <1>26, LaidThen

-----------------------------------------------------------------------------
\* The workspace v with one more window.
Fuller(v, w) == [v EXCEPT !.wins = @ \cup {w}]

\* What becomes of a workspace that gets a window.
LEMMA FullerFields ==
  ASSUME NEW v \in Workspace, NEW x \in Window, NEW w, w = Fuller(v, x)
  PROVE  w \in Workspace /\ w.id = v.id /\ w.orig = v.orig /\ w.name = v.name /\ w.wins = v.wins \cup {x}
<1>1. PICK e : e = v.wins \cup {x}
  OBVIOUS
<1>2. e \in SUBSET Window /\ w = [v EXCEPT !.wins = e]
  BY <1>1, WorkspaceFields DEF Fuller
<1>3. w \in Workspace
  BY <1>2, Zenon DEF Workspace
<1>4. w.id = v.id /\ w.orig = v.orig /\ w.name = v.name /\ w.wins = e
  BY <1>2 DEF Workspace
<1> QED BY <1>1, <1>3, <1>4

\* With no outputs there is a workspace left over, or a new one.
LEMMA StrandedOrNewHolds ==
  ASSUME IInv, NEW D, NEW h, NEW a, NEW conn, NEW main, World(D, nextId, h, a, conn, main),
         Holds(stranded, D[NoOutput])
  PROVE  \E F : World(F, nextId + 1, h, a, conn, main) /\ Holds(StrandedOrNew, F[NoOutput])
<1>1. PICK b, c : b = nextId /\ c = b + 1
  OBVIOUS
<1>2. b \in Nat /\ b \in Id /\ c \in Id /\ b <= c /\ b < c
  BY <1>1, Around DEF Id
<1>3. CASE stranded # <<>>
  <2>1. StrandedOrNew = stranded
    BY <1>3 DEF StrandedOrNew
  <2>2. World(D, c, h, a, conn, main)
    BY <1>1, <1>2, WorldLater
  <2> QED BY <1>1, <2>1, <2>2
<1>4. CASE stranded = <<>>
  <2>1. PICK e, C : e = NewWorkspace(NoOutput, b) /\ C = D[NoOutput]
    OBVIOUS
  <2>2. e \in Workspace /\ e.id = b /\ e.name = NoName /\ e.wins = {}
    <3>1. e \in Workspace
      BY <1>2, <2>1 DEF NewWorkspace, Workspace
    <3> QED BY <2>1, <3>1, NewFields
  <2>3. PICK s : s = <<e>>
    OBVIOUS
  <2>4. StrandedOrNew = s
    BY <1>1, <1>4, <2>1, <2>3 DEF StrandedOrNew
  <2>5. Holds(s, {e})
    <3>1. s \in Seq(Workspace) /\ Len(s) = 1 /\ s[1] = e
      BY <2>2, <2>3
    <3> QED BY <3>1 DEF Holds
  <2>6. \A v \in C : IsBlank(v)
    <3>1. Len(stranded) = 0
      BY <1>4
    <3> QED BY <2>1, <3>1 DEF Holds
  <2>7. Holds(s, {e} \cup C)
    BY <2>5, <2>6, HoldsMore
  <2>8. NoOutput \in Home /\ C \in SUBSET Workspace /\ {e} \cup C \in SUBSET Workspace
    BY <2>1, <2>2 DEF World, Homes, Home
  <2>9. PICK F : Turned(D, F, NoOutput, {e} \cup C)
    BY <2>8, CanTurn DEF World
  <2>10. Homes(F) /\ F[NoOutput] = {e} \cup D[NoOutput] /\ \A p \in Home : p # NoOutput => F[p] = D[p]
    BY <2>1, <2>9 DEF Turned
  <2>11. \A p \in Home : \A v \in F[p] \ D[p] : p = NoOutput /\ v = e
    BY <2>10
  <2>12. World(F, c, h, a, conn, main)
    <3>1. \A p \in Home : D[p] \subseteq F[p]
      BY <2>10
    <3>2. \A p \in Home : \A v \in F[p] \ D[p] : v.name = NoName /\ v.wins = {} /\ b <= v.id /\ v.id < c
      BY <1>2, <2>2, <2>11
    <3>3. \A p, q \in Home : \A v \in F[p] \ D[p], w \in F[q] \ D[q] : v.id = w.id => p = q /\ v = w
      BY <2>11
    <3>4. \A p \in Output : \A v \in F[p] \ D[p] : p \in conn /\ v.orig = p
      BY <2>11, NoValues DEF Home
    <3>5. Homes(F) /\ b <= c /\ World(D, b, h, a, conn, main)
      BY <1>1, <1>2, <2>10
    <3> QED BY <1>2, <3>1, <3>2, <3>3, <3>4, <3>5, WorldWithNews
  <2>13. Holds(StrandedOrNew, F[NoOutput])
    BY <2>1, <2>4, <2>7, <2>10
  <2> QED BY <1>1, <2>12, <2>13
<1> QED BY <1>3, <1>4

\* A window in the hands of the compositor goes to a workspace with no output.
LEMMA StrandedGets ==
  ASSUME IInv, NEW D, NEW h, NEW a, NEW conn, NEW main, World(D, nextId, h, a, conn, main),
         Holds(stranded, D[NoOutput]), NEW w \in Window, w \in h, NEW i \in DOMAIN StrandedOrNew,
         NEW sts, sts = [StrandedOrNew EXCEPT ![i].wins = @ \cup {w}]
  PROVE  \E F : World(F, nextId + 1, h \ {w}, a, conn, main) /\ Holds(sts, F[NoOutput])
<1>1. PICK s, b : s = StrandedOrNew /\ b = nextId + 1
  OBVIOUS
<1>2. PICK G : World(G, b, h, a, conn, main) /\ Holds(s, G[NoOutput])
  BY <1>1, StrandedOrNewHolds
<1>3. i \in 1..Len(s)
  BY <1>1, <1>2 DEF Holds
<1>4. PICK v, C : v = s[i] /\ C = G[NoOutput]
  OBVIOUS
<1>5. NoOutput \in Home /\ NoOutput \notin Output /\ v \in C /\ v \in Workspace /\ v.wins \cap h = {}
  BY <1>2, <1>3, <1>4, NoValues DEF Holds, Home, World, Homes, Known
<1>6. PICK e : e = Fuller(v, w)
  OBVIOUS
<1>7. e \in Workspace /\ e.id = v.id /\ e.name = v.name /\ e.wins = v.wins \cup {w}
  BY <1>5, <1>6, FullerFields
<1>8. PICK g : g = h \ {w}
  OBVIOUS
<1>9. e.wins \cup g = v.wins \cup h /\ e.wins \cap g = {} /\ e.name \in {v.name, NoName}
  BY <1>5, <1>7, <1>8
<1>10. PICK F : Turned(G, F, NoOutput, Instead(C, v, e)) /\ World(F, b, g, a, conn, main)
  <2>1. v \in G[NoOutput]
    BY <1>4, <1>5
  <2>2. \E F : Turned(G, F, NoOutput, Instead(G[NoOutput], v, e)) /\ World(F, b, g, a, conn, main)
    BY <1>2, <1>5, <1>7, <1>9, <2>1, WorldChanged
  <2> QED BY <1>4, <2>2
<1>11. sts = [s EXCEPT ![i] = e]
  BY <1>1, <1>3, <1>4, <1>6, Zenon DEF Fuller
<1>12. Holds(sts, (C \ {s[i]}) \cup {e})
  BY <1>2, <1>3, <1>4, <1>7, <1>11, HoldsExchanged
<1>13. Holds(sts, F[NoOutput])
  BY <1>4, <1>10, <1>12 DEF Turned, Instead
<1> QED BY <1>1, <1>8, <1>10, <1>13

\* With no outputs, the workspaces are laid out as the stranded ones are.
LEMMA StrandedLaid ==
  ASSUME IInv, monitors = <<>>, UNCHANGED <<monitors, primary>>, NEW st, st = stranded',
         NEW F, Holds(st, F[NoOutput]),
         World(F, nextId', Hands(move'), mapped', Outs(monitors), MainOf(monitors, primary)),
         DragFits(move', mapped')
  PROVE  AllLaid'
<1>1. Sits(monitors, st, F)
  BY Around DEF Sits
<1>2. SameOutputs(monitors, monitors)
  BY DEF SameOutputs
<1> QED BY <1>1, <1>2, LaidThen

\* add_window, with no outputs
LEMMA AddWindowStrandedLays ==
  ASSUME IInv, AllLaid, NEW w \in Window, NEW i \in DOMAIN StrandedOrNew, AddWindowStranded(w, i)
  PROVE  AllLaid'
<1>1. PICK D : /\ World(D, nextId, Hands(move), mapped, Outs(monitors), MainOf(monitors, primary))
               /\ Sits(monitors, stranded, D)
  BY DEF AllLaid, Laid
<1>2. PICK h, g, a, conn, main, st :
        /\ h = Hands(move) /\ g = h \cup {w} /\ a = mapped \cup {w} /\ conn = Outs(monitors)
        /\ main = MainOf(monitors, primary) /\ st = stranded'
  OBVIOUS
<1>3. /\ monitors = <<>> /\ w \notin mapped /\ mapped' = a /\ TakeIds
      /\ st = [StrandedOrNew EXCEPT ![i].wins = @ \cup {w}]
      /\ UNCHANGED <<monitors, primary, move>>
  BY <1>2 DEF AddWindowStranded, userVars
<1>4. World(D, nextId, h, mapped, conn, main)
  BY <1>1, <1>2
<1>5. World(D, nextId, g, a, conn, main)
  BY <1>2, <1>3, <1>4, WorldOpened
<1>6. g \ {w} = h /\ w \in g
  <2>1. h \subseteq mapped
    BY <1>4 DEF World, Known
  <2> QED BY <1>2, <1>3, <2>1
<1>7. PICK F : World(F, nextId + 1, h, a, conn, main) /\ Holds(st, F[NoOutput])
  <2>1. Holds(stranded, D[NoOutput])
    BY <1>1 DEF Sits
  <2>2. \E F : World(F, nextId + 1, g \ {w}, a, conn, main) /\ Holds(st, F[NoOutput])
    BY <1>3, <1>5, <1>6, <2>1, StrandedGets
  <2> QED BY <1>6, <2>2
<1>8. World(F, nextId', h, a, conn, main)
  BY <1>3, <1>7, IdsTaken
<1>9. World(F, nextId', Hands(move'), mapped', Outs(monitors), MainOf(monitors, primary))
  BY <1>2, <1>3, <1>8
<1>10. DragFits(move', mapped')
  BY <1>2, <1>3 DEF AllLaid, DragFits
<1>11. UNCHANGED <<monitors, primary>>
  BY <1>3
<1> QED BY <1>2, <1>3, <1>7, <1>9, <1>10, <1>11, StrandedLaid

\* interactive_move_end, with no outputs
LEMMA DroppedStrandedLays ==
  ASSUME IInv, AllLaid, NEW w \in Window, InteractiveMoveEndStranded(w)
  PROVE  AllLaid'
<1>1. PICK D : /\ World(D, nextId, Hands(move), mapped, Outs(monitors), MainOf(monitors, primary))
               /\ Sits(monitors, stranded, D)
  BY DEF AllLaid, Laid
<1>2. PICK h, a, conn, main, st, one :
        /\ h = Hands(move) /\ a = mapped /\ conn = Outs(monitors)
        /\ main = MainOf(monitors, primary) /\ st = stranded' /\ one = 1
  OBVIOUS
<1>3. /\ monitors = <<>> /\ TakeIds /\ move' = NotMoving /\ mapped' = a
      /\ st = [StrandedOrNew EXCEPT ![one].wins = @ \cup {w}]
      /\ UNCHANGED <<monitors, primary>>
  BY <1>2 DEF InteractiveMoveEndStranded
<1>4. h = {w}
  BY <1>2 DEF InteractiveMoveEndStranded, Hands
<1>5. World(D, nextId, h, a, conn, main) /\ Holds(stranded, D[NoOutput])
  BY <1>1, <1>2 DEF Sits
<1>6. one \in DOMAIN StrandedOrNew
  <2>1. stranded \in Seq(Workspace)
    BY DEF IInv, Parked
  <2>2. CASE stranded = <<>>
    BY <1>2, <2>2 DEF StrandedOrNew
  <2>3. CASE stranded # <<>>
    <3>1. Len(stranded) # 0 /\ Len(stranded) \in Nat
      BY <2>1, <2>3, EmptySeq
    <3> QED BY <1>2, <2>1, <2>3, <3>1 DEF StrandedOrNew
  <2> QED BY <2>2, <2>3
<1>7. PICK F : World(F, nextId + 1, {}, a, conn, main) /\ Holds(st, F[NoOutput])
  <2>1. w \in h /\ h \ {w} = {}
    BY <1>4
  <2>2. \E F : World(F, nextId + 1, h \ {w}, a, conn, main) /\ Holds(st, F[NoOutput])
    BY <1>3, <1>5, <1>6, <2>1, StrandedGets
  <2> QED BY <2>1, <2>2
<1>8. World(F, nextId', {}, a, conn, main)
  BY <1>3, <1>7, IdsTaken
<1>9. Hands(move') = {} /\ DragFits(move', mapped')
  BY <1>3 DEF Hands, DragFits, NotMoving
<1>10. World(F, nextId', Hands(move'), mapped', Outs(monitors), MainOf(monitors, primary))
  BY <1>2, <1>3, <1>8, <1>9
<1>11. UNCHANGED <<monitors, primary>>
  BY <1>3
<1> QED BY <1>2, <1>3, <1>7, <1>9, <1>10, <1>11, StrandedLaid

-----------------------------------------------------------------------------
\* Whatever workspaces m has, n has them too, and perhaps new ones at its ends.
Enlarged(m, n, id) ==
  \A C : Holds(m.ws, C) /\ Before(C, id) => Holds(n.ws, Plus2(C, m.output, id))

\* An operation of one monitor that reorders its workspaces
LEMMA GrownLays ==
  ASSUME IInv, AllLaid, NEW k \in 1..Len(monitors), NEW m, m = monitors[k], NEW n, Sound(n),
         SameOutput(m, n), Enlarged(m, n, nextId), OnMonitor(k, n), TakeIds
  PROVE  AllLaid'
<1>1. PICK D : /\ World(D, nextId, Hands(move), mapped, Outs(monitors), MainOf(monitors, primary))
               /\ Sits(monitors, stranded, D)
  BY DEF AllLaid, Laid
<1>2. PICK o, C, X : o = m.output /\ C = D[o] /\ X = Plus2(C, o, nextId)
  OBVIOUS
<1>3. o \in Output /\ o \in Outs(monitors) /\ Holds(m.ws, C) /\ Before(C, nextId)
  BY <1>1, <1>2, LaidMonitor
<1>4. Holds(n.ws, X)
  BY <1>2, <1>3 DEF Enlarged
<1>5. PICK F : /\ Turned(D, F, o, X)
               /\ World(F, nextId + 2, Hands(move), mapped, Outs(monitors), MainOf(monitors, primary))
  BY <1>1, <1>2, <1>3, WorldGrown
<1>6. UNCHANGED <<primary, stranded, move, mapped>>
  BY DEF OnMonitor, stillVars, userVars
<1>7. World(F, nextId', Hands(move), mapped, Outs(monitors), MainOf(monitors, primary))
  BY <1>5, IdsTaken
<1>8. World(F, nextId', Hands(move'), mapped', Outs(monitors), MainOf(monitors, primary))
  BY <1>6, <1>7
<1>9. n \in Monitor /\ n.output = monitors[k].output
  BY DEF Sound, Nearly, Ready, Formed, SameOutput
<1>10. monitors' = Exchanged(monitors, k, n)
  BY DEF OnMonitor, SetMonitor, Exchanged
<1>11. DragFits(move', mapped') /\ Turned(D, F, monitors[k].output, X)
  BY <1>2, <1>5, <1>6 DEF AllLaid
<1> QED BY <1>1, <1>4, <1>6, <1>8, <1>9, <1>10, <1>11, OneLaid

\* move_workspace_down and move_workspace_up
LEMMA MoveActiveWorkspaceLays ==
  ASSUME IInv, AllLaid, monitors # <<>>, MoveActiveWorkspaceDown \/ MoveActiveWorkspaceUp
  PROVE  AllLaid'
<1>1. PICK k, m, len : k = focused /\ m = monitors[k] /\ len = Len(m.ws)
  OBVIOUS
<1>2. k \in 1..Len(monitors) /\ Sound(m) /\ nextId \in Id /\ len \in Nat /\ m.active \in 1..len
  BY <1>1, Around
<1>3. PICK to : /\ to \in 1..len
                /\ OnMonitor(k, SwapActive(m, to, nextId)) /\ TakeIds
  <2>1. MinOf(m.active + 1, len) \in 1..len /\ MaxOf(m.active - 1, 1) \in 1..len
    BY <1>2 DEF MinOf, MaxOf
  <2>2. CASE MoveActiveWorkspaceDown
    BY <1>1, <2>1, <2>2 DEF MoveActiveWorkspaceDown, MoveWorkspaceDown
  <2>3. CASE MoveActiveWorkspaceUp
    BY <1>1, <2>1, <2>3 DEF MoveActiveWorkspaceUp, MoveWorkspaceUp
  <2> QED BY <2>2, <2>3
<1>4. PICK n : n = SwapActive(m, to, nextId)
  OBVIOUS
<1>5. Sound(n) /\ SameOutput(m, n) /\ Formed(m) /\ to \in 1..Len(m.ws)
  BY <1>1, <1>2, <1>3, <1>4, ActiveSwapped DEF Sound, Nearly, Ready
<1>6. ASSUME NEW C, Holds(m.ws, C), Before(C, nextId) PROVE Holds(n.ws, Plus2(C, m.output, nextId))
  BY <1>2, <1>4, <1>5, <1>6, ActiveSwappedHolds
<1>7. Enlarged(m, n, nextId)
  BY <1>6 DEF Enlarged
<1> QED BY <1>1, <1>2, <1>3, <1>4, <1>5, <1>7, GrownLays

\* move_workspace_to_idx
LEMMA MoveWorkspaceToLays ==
  ASSUME IInv, AllLaid, NEW p \in Places, NEW idx \in 1..Len(monitors[p[1]].ws), MoveWorkspaceTo(p, idx)
  PROVE  AllLaid'
<1>1. PICK k, i, m : k = p[1] /\ i = p[2] /\ m = monitors[k]
  OBVIOUS
<1>2. k \in 1..Len(monitors) /\ i \in 1..Len(m.ws) /\ Sound(m) /\ nextId \in Id
  BY <1>1, PlaceThere, Around
<1>3. idx \in Id
  BY DEF Id
<1>4. PICK n : n = MoveWorkspaceToIdx(m, i, idx, nextId)
  OBVIOUS
<1>5. Sound(n) /\ SameOutput(m, n) /\ Formed(m)
  BY <1>2, <1>3, <1>4, WorkspaceMoved DEF Sound, Nearly, Ready
<1>6. OnMonitor(k, n) /\ TakeIds
  BY <1>1, <1>4 DEF MoveWorkspaceTo
<1>7. ASSUME NEW C, Holds(m.ws, C), Before(C, nextId) PROVE Holds(n.ws, Plus2(C, m.output, nextId))
  BY <1>2, <1>3, <1>4, <1>5, <1>7, WorkspaceMovedHolds
<1>8. Enlarged(m, n, nextId)
  BY <1>7 DEF Enlarged
<1> QED BY <1>1, <1>2, <1>5, <1>6, <1>8, GrownLays

\* unset_workspace_name
LEMMA UnsetWorkspaceNameLays ==
  ASSUME IInv, AllLaid, NEW p \in Places, UnsetWorkspaceName(p)
  PROVE  AllLaid'
<1>1. PICK D : /\ World(D, nextId, Hands(move), mapped, Outs(monitors), MainOf(monitors, primary))
               /\ Sits(monitors, stranded, D)
  BY DEF AllLaid, Laid
<1>2. PICK k, i, m, o, v, h : /\ k = p[1] /\ i = p[2] /\ m = monitors[k] /\ o = m.output /\ v = m.ws[i]
                              /\ h = Hands(move)
  OBVIOUS
<1>3. /\ k \in 1..Len(monitors) /\ i \in 1..Len(m.ws) /\ Nearly(m) /\ Idle(m)
  BY <1>2, PlaceThere, Around DEF Sound
<1>4. PICK n, w : n = UnnameWorkspace(m, i) /\ w = Renamed(v, NoName)
  OBVIOUS
<1>5. Sound(n) /\ SameOutput(m, n) /\ ~n.panicked /\ Formed(m)
  <2>1. Sound(n) /\ SameOutput(m, n)
    BY <1>3, <1>4, Unnamed
  <2> QED BY <1>3, <2>1 DEF Sound, Nearly, Ready
<1>6. OnMonitor(k, n) /\ UNCHANGED nextId
  BY <1>2, <1>4 DEF UnsetWorkspaceName
<1>7. o \in Home /\ Holds(m.ws, D[o]) /\ v \in D[o] /\ v \in Workspace /\ v.wins \cap h = {}
  <2>1. o \in Home /\ Holds(m.ws, D[o]) /\ v \in D[o] /\ v \in Workspace
    BY <1>1, <1>2, <1>3, LaidMonitor
  <2> QED BY <1>1, <1>2, <2>1 DEF World, Known
<1>8. w \in Workspace /\ w.id = v.id /\ w.orig = v.orig /\ w.name = NoName /\ w.wins = v.wins
  BY <1>4, <1>7, RenamedFields
<1>9. PICK X : X = Instead(D[o], v, w)
  OBVIOUS
<1>10. Holds(n.ws, X)
  BY <1>2, <1>3, <1>4, <1>5, <1>7, <1>9, UnnamedHolds
<1>11. PICK F : Turned(D, F, o, X) /\ World(F, nextId, h, mapped, Outs(monitors), MainOf(monitors, primary))
  <2>1. w.wins \cup h = v.wins \cup h /\ w.wins \cap h = {} /\ w.name \in {v.name, NoName} /\ w.orig \in {v.orig, o}
    BY <1>7, <1>8
  <2>2. World(D, nextId, h, mapped, Outs(monitors), MainOf(monitors, primary))
    BY <1>1, <1>2
  <2> QED BY <1>7, <1>8, <1>9, <2>1, <2>2, WorldChanged
<1>12. UNCHANGED <<primary, stranded, move, mapped>>
  BY <1>6 DEF OnMonitor, stillVars, userVars
<1>13. World(F, nextId', Hands(move'), mapped', Outs(monitors), MainOf(monitors, primary))
  BY <1>2, <1>6, <1>11, <1>12
<1>14. n \in Monitor /\ n.output = monitors[k].output
  BY <1>2, <1>5 DEF Sound, Nearly, Ready, Formed, SameOutput
<1>15. monitors' = Exchanged(monitors, k, n)
  BY <1>6 DEF OnMonitor, SetMonitor, Exchanged
<1>16. DragFits(move', mapped') /\ Turned(D, F, monitors[k].output, X)
  BY <1>2, <1>11, <1>12 DEF AllLaid
<1> QED BY <1>1, <1>3, <1>10, <1>12, <1>13, <1>14, <1>15, <1>16, OneLaid

-----------------------------------------------------------------------------
\* A name that is not in use is the name of no workspace.
LEMMA UnusedIsFresh ==
  ASSUME IInv, NEW D, NEW b, NEW h, NEW a, NEW main, World(D, b, h, a, Outs(monitors), main),
         Sits(monitors, stranded, D), NEW n \in Name, n \notin UsedNames
  PROVE  Fresh(D, n)
<1>1. SUFFICES ASSUME NEW o \in Home, NEW v \in D[o], v.name = n PROVE FALSE
  BY DEF Fresh
<1>2. ~IsBlank(v)
  BY <1>1, NoValues DEF IsBlank, HasWindowsOrName
<1>3. PICK p \in Spots : At(p) = v
  BY <1>1, <1>2, FilledInSpot
<1>4. v \in AllWorkspaces
  <2>1. CASE p \in Places
    <3>1. At(p) = WorkspaceAt(p)
      BY <2>1, PlaceThere DEF At
    <3> QED BY <1>3, <2>1, <3>1 DEF AllWorkspaces
  <2>2. CASE p \notin Places
    <3>1. PICK i \in DOMAIN stranded : p = <<0, i>>
      BY <1>3, <2>2 DEF Spots
    <3>2. At(p) = stranded[i]
      BY <3>1 DEF At
    <3> QED BY <1>3, <3>2 DEF AllWorkspaces
  <2> QED BY <2>1, <2>2
<1> QED BY <1>1, <1>4 DEF UsedNames

\* A workspace gets a name that is not in use, where it is.
LEMMA WorldNamed ==
  ASSUME NEW D, NEW b, NEW h, NEW a, NEW conn, NEW main, World(D, b, h, a, conn, main),
         NEW o \in Home, NEW v \in D[o], NEW n \in Name, Fresh(D, n), NEW w, w = Renamed(v, n)
  PROVE  /\ \E F : Turned(D, F, o, Instead(D[o], v, w)) /\ World(F, b, h, a, conn, main)
         /\ w \in Workspace /\ w.id = v.id
<1>1. v \in Workspace /\ v.wins \cap h = {}
  BY DEF World, Homes, Known
<1>2. n \in Name \cup {NoName}
  OBVIOUS
<1>3. w \in Workspace /\ w.id = v.id /\ w.orig = v.orig /\ w.name = n /\ w.wins = v.wins
  BY <1>1, <1>2, RenamedFields
<1>4. /\ w.wins \cup h = v.wins \cup h /\ w.wins \cap h = {} /\ w.orig \in {v.orig, o}
      /\ w.name \in {v.name, NoName} \/ Fresh(D, w.name)
  BY <1>1, <1>3
<1>5. \E F : Turned(D, F, o, Instead(D[o], v, w)) /\ World(F, b, h, a, conn, main)
  BY <1>3, <1>4, WorldChanged
<1> QED BY <1>3, <1>5

\* set_workspace_name, with outputs
LEMMA SetWorkspaceNameLays ==
  ASSUME IInv, AllLaid, NEW n \in Name, NEW p \in Places, SetWorkspaceName(n, p)
  PROVE  AllLaid'
<1>1. PICK D : /\ World(D, nextId, Hands(move), mapped, Outs(monitors), MainOf(monitors, primary))
               /\ Sits(monitors, stranded, D)
  BY DEF AllLaid, Laid
<1>2. PICK k, i, m, o, v, C : /\ k = p[1] /\ i = p[2] /\ m = monitors[k] /\ o = m.output
                              /\ v = m.ws[i] /\ C = D[o]
  OBVIOUS
<1>3. PICK h, a, conn, main : /\ h = Hands(move) /\ a = mapped /\ conn = Outs(monitors)
                              /\ main = MainOf(monitors, primary)
  OBVIOUS
<1>4. k \in 1..Len(monitors) /\ i \in 1..Len(m.ws) /\ nextId \in Id
  BY <1>2, PlaceThere, Around
<1>5. /\ o \in Output /\ o \in Home /\ o \in conn /\ Holds(m.ws, C) /\ v \in C
      /\ Before(C, nextId) /\ Formed(m)
  BY <1>1, <1>2, <1>3, <1>4, LaidMonitor
<1>6. PICK w : w = Renamed(v, n)
  OBVIOUS
<1>7. World(D, nextId, h, a, conn, main) /\ v \in D[o] /\ Fresh(D, n)
  <2>1. n \notin UsedNames
    BY DEF SetWorkspaceName
  <2> QED BY <1>1, <1>2, <1>3, <1>5, <2>1, UnusedIsFresh
<1>8. PICK Y : Y = Instead(C, v, w)
  OBVIOUS
<1>9. PICK G : Turned(D, G, o, Y) /\ World(G, nextId, h, a, conn, main)
  <2>1. \E F : Turned(D, F, o, Instead(D[o], v, w)) /\ World(F, nextId, h, a, conn, main)
    BY <1>5, <1>6, <1>7, WorldNamed
  <2> QED BY <1>2, <1>8, <2>1
<1>10. w \in Workspace /\ w.id = v.id
  BY <1>5, <1>6, <1>7, WorldNamed
<1>11. PICK f : f = Rewritten(m, i, w)
  OBVIOUS
<1>12. Formed(f) /\ SameOutput(m, f) /\ Holds(f.ws, Y)
  <2>1. w.id = m.ws[i].id
    BY <1>2, <1>10
  <2>2. Holds(f.ws, Instead(C, m.ws[i], w))
    BY <1>4, <1>5, <1>10, <1>11, <2>1, RewrittenHolds
  <2>3. Formed(f) /\ SameOutput(m, f)
    BY <1>4, <1>5, <1>10, <1>11, <2>1, RewrittenHolds
  <2> QED BY <1>2, <1>8, <2>2, <2>3
<1>13. PICK named : named = [monitors EXCEPT ![k] = f]
  OBVIOUS
<1>14. named = [monitors EXCEPT ![p[1]].ws[p[2]].name = n]
  BY <1>2, <1>4, <1>6, <1>11, <1>13, Around DEF Rewritten, Renamed
<1>15. UNCHANGED <<primary, stranded, move, mapped>> /\ TakeIds
  BY DEF SetWorkspaceName, stillVars, userVars
<1>16. DragFits(move', mapped')
  BY <1>15 DEF AllLaid
<1>17. CASE k # focused
  <2>1. monitors' = Exchanged(monitors, k, f)
    BY <1>2, <1>13, <1>14, <1>17 DEF SetWorkspaceName, Exchanged
  <2>2. World(G, nextId', h, a, conn, main)
    BY <1>9, <1>15, IdsTaken
  <2>3. World(G, nextId', Hands(move'), mapped', Outs(monitors), MainOf(monitors, primary))
    BY <1>3, <1>15, <2>2
  <2>4. f \in Monitor /\ f.output = monitors[k].output /\ Turned(D, G, monitors[k].output, Y)
    BY <1>2, <1>9, <1>12 DEF Formed, SameOutput
  <2> QED BY <1>1, <1>4, <1>12, <1>15, <1>16, <2>1, <2>3, <2>4, OneLaid
<1>18. CASE k = focused
  <2>1. PICK x, X : x = NamedEnds(f, i, nextId) /\ X = Plus2(Y, o, nextId)
    OBVIOUS
  <2>2. Holds(x.ws, X)
    <3>1. Before(Y, nextId)
      BY <1>2, <1>5, <1>8, <1>10, BeforeInstead
    <3>2. Holds(x.ws, Plus2(Y, f.output, nextId))
      BY <1>4, <1>12, <2>1, <3>1, NamedEndsHolds
    <3> QED BY <1>2, <1>12, <2>1, <3>2 DEF SameOutput
  <2>3. SameOutput(f, x) /\ x \in Monitor
    <3>1. Sound(m) /\ HasWindowsOrName(w)
      <4>1. w.name = n
        <5>1. v \in Workspace /\ n \in Name \cup {NoName}
          BY <1>5 DEF Before
        <5> QED BY <1>6, <5>1, RenamedFields
      <4> QED BY <1>2, <1>4, <4>1, Around, NoValues DEF HasWindowsOrName
    <3>2. Sound(x) /\ SameOutput(m, x)
      BY <1>4, <1>10, <1>11, <2>1, <3>1, Named
    <3> QED BY <1>12, <3>2 DEF Sound, Nearly, Ready, Formed, SameOutput
  <2>4. PICK F : Turned(G, F, o, Plus2(G[o], o, nextId)) /\ World(F, nextId + 2, h, a, conn, main)
    BY <1>5, <1>9, WorldGrown
  <2>5. Turned(D, F, o, X)
    <3>1. G[o] = Y
      BY <1>9 DEF Turned
    <3> QED BY <1>5, <1>9, <2>1, <2>4, <3>1, TurnedTwice
  <2>6. World(F, nextId', h, a, conn, main)
    BY <1>15, <2>4, IdsTaken
  <2>7. World(F, nextId', Hands(move'), mapped', Outs(monitors), MainOf(monitors, primary))
    BY <1>3, <1>15, <2>6
  <2>8. monitors' = [named EXCEPT ![k] = NamedEnds(named[k], i, nextId)]
    BY <1>2, <1>14, <1>18, Zenon DEF SetWorkspaceName, NamedEnds
  <2>9. named[k] = f
    BY <1>4, <1>13, Around
  <2>10. monitors' = Exchanged(monitors, k, x)
    BY <1>13, <2>1, <2>8, <2>9 DEF Exchanged
  <2>11. x.output = monitors[k].output /\ Turned(D, F, monitors[k].output, X)
    BY <1>2, <1>12, <2>3, <2>5 DEF SameOutput
  <2> QED BY <1>1, <1>4, <1>15, <1>16, <2>2, <2>3, <2>7, <2>10, <2>11, OneLaid
<1> QED BY <1>17, <1>18

\* set_workspace_name, with no outputs
LEMMA SetStrandedNameLays ==
  ASSUME IInv, AllLaid, NEW n \in Name, NEW i \in DOMAIN stranded, SetStrandedName(n, i)
  PROVE  AllLaid'
<1>1. PICK D : /\ World(D, nextId, Hands(move), mapped, Outs(monitors), MainOf(monitors, primary))
               /\ Sits(monitors, stranded, D)
  BY DEF AllLaid, Laid
<1>2. PICK h, a, conn, main, s, st, C, v, w :
        /\ h = Hands(move) /\ a = mapped /\ conn = Outs(monitors) /\ main = MainOf(monitors, primary)
        /\ s = stranded /\ st = stranded' /\ C = D[NoOutput] /\ v = s[i] /\ w = Renamed(v, n)
  OBVIOUS
<1>3. Holds(s, C) /\ i \in 1..Len(s) /\ NoOutput \in Home
  BY <1>1, <1>2 DEF Sits, Holds, Home
<1>4. v \in C
  BY <1>2, <1>3 DEF Holds
<1>5. World(D, nextId, h, a, conn, main) /\ Fresh(D, n) /\ v \in D[NoOutput]
  <2>1. n \notin UsedNames
    BY DEF SetStrandedName
  <2> QED BY <1>1, <1>2, <1>4, <2>1, UnusedIsFresh
<1>6. PICK F : Turned(D, F, NoOutput, Instead(D[NoOutput], v, w)) /\ World(F, nextId, h, a, conn, main)
  BY <1>2, <1>3, <1>5, WorldNamed
<1>7. w \in Workspace /\ w.id = v.id
  BY <1>2, <1>3, <1>5, WorldNamed
<1>8. st = [s EXCEPT ![i] = w]
  BY <1>2, Zenon DEF SetStrandedName, Renamed
<1>9. Holds(st, (C \ {s[i]}) \cup {w})
  BY <1>2, <1>3, <1>7, <1>8, HoldsExchanged
<1>10. Holds(st, F[NoOutput])
  BY <1>2, <1>6, <1>9 DEF Turned, Instead
<1>11. monitors = <<>>
  <2>1. Len(stranded) # 0
    BY <1>2, <1>3
  <2> QED BY <2>1, Around DEF IInv, Parked
<1>12. UNCHANGED <<monitors, primary, move, mapped, nextId>>
  BY DEF SetStrandedName, userVars
<1>13. World(F, nextId', Hands(move'), mapped', Outs(monitors), MainOf(monitors, primary))
  BY <1>2, <1>6, <1>12
<1>14. DragFits(move', mapped')
  BY <1>12 DEF AllLaid
<1>15. UNCHANGED <<monitors, primary>>
  BY <1>12
<1> QED BY <1>2, <1>10, <1>11, <1>13, <1>14, <1>15, StrandedLaid

-----------------------------------------------------------------------------
\* unset_workspace_name, with no outputs; a workspace without windows goes.
LEMMA UnsetStrandedNameLays ==
  ASSUME IInv, AllLaid, NEW i \in DOMAIN stranded, UnsetStrandedName(i)
  PROVE  AllLaid'
<1>1. PICK D : /\ World(D, nextId, Hands(move), mapped, Outs(monitors), MainOf(monitors, primary))
               /\ Sits(monitors, stranded, D)
  BY DEF AllLaid, Laid
<1>2. PICK h, a, conn, main, s, st, C, v, w :
        /\ h = Hands(move) /\ a = mapped /\ conn = Outs(monitors) /\ main = MainOf(monitors, primary)
        /\ s = stranded /\ st = stranded' /\ C = D[NoOutput] /\ v = s[i] /\ w = Renamed(v, NoName)
  OBVIOUS
<1>3. Holds(s, C) /\ i \in 1..Len(s) /\ NoOutput \in Home
  BY <1>1, <1>2 DEF Sits, Holds, Home
<1>4. v \in C
  BY <1>2, <1>3 DEF Holds
<1>5. World(D, nextId, h, a, conn, main) /\ v \in D[NoOutput] /\ v \in Workspace /\ v.wins \cap h = {}
  BY <1>1, <1>2, <1>3, <1>4 DEF World, Homes, Known
<1>6. w \in Workspace /\ w.id = v.id /\ w.orig = v.orig /\ w.name = NoName /\ w.wins = v.wins
  BY <1>2, <1>5, RenamedFields
<1>7. PICK F : Turned(D, F, NoOutput, Instead(D[NoOutput], v, w)) /\ World(F, nextId, h, a, conn, main)
  <2>1. w.wins \cup h = v.wins \cup h /\ w.wins \cap h = {} /\ w.name \in {v.name, NoName} /\ w.orig \in {v.orig, NoOutput}
    BY <1>5, <1>6
  <2> QED BY <1>3, <1>5, <1>6, <2>1, WorldChanged
<1>8. Holds(st, (C \ {v}) \cup {w})
  <2>1. CASE v.wins = {}
    <3>1. st = RemoveAt(s, i)
      BY <1>2, <2>1 DEF UnsetStrandedName
    <3>2. Holds(st, C \ {s[i]})
      BY <1>3, <3>1, HoldsRemoved
    <3>3. PICK B : B = {w}
      OBVIOUS
    <3>4. \A u \in B : IsBlank(u)
      BY <1>6, <2>1, <3>3 DEF IsBlank, HasWindowsOrName
    <3>5. Holds(st, (C \ {s[i]}) \cup B)
      BY <3>2, <3>4, HoldsMore
    <3> QED BY <1>2, <3>3, <3>5
  <2>2. CASE v.wins # {}
    <3>1. st = [s EXCEPT ![i] = w]
      BY <1>2, <2>2, Zenon DEF UnsetStrandedName, Renamed
    <3>2. Holds(st, (C \ {s[i]}) \cup {w})
      BY <1>2, <1>3, <1>6, <3>1, HoldsExchanged
    <3> QED BY <1>2, <3>2
  <2> QED BY <2>1, <2>2
<1>9. Holds(st, F[NoOutput])
  BY <1>2, <1>7, <1>8 DEF Turned, Instead
<1>10. monitors = <<>>
  <2>1. Len(stranded) # 0
    BY <1>2, <1>3
  <2> QED BY <2>1, Around DEF IInv, Parked
<1>11. UNCHANGED <<monitors, primary, move, mapped, nextId>>
  BY DEF UnsetStrandedName, userVars
<1>12. World(F, nextId', Hands(move'), mapped', Outs(monitors), MainOf(monitors, primary))
  BY <1>2, <1>7, <1>11
<1>13. DragFits(move', mapped')
  BY <1>11 DEF AllLaid
<1>14. UNCHANGED <<monitors, primary>>
  BY <1>11
<1> QED BY <1>2, <1>9, <1>10, <1>12, <1>13, <1>14, StrandedLaid

-----------------------------------------------------------------------------
\* A workspace with a new id, without windows, comes to a home.
LEMMA WorldAdds ==
  ASSUME NEW D, NEW b, NEW h, NEW a, NEW conn, NEW main, World(D, b, h, a, conn, main),
         NEW o \in Home, NEW e \in Workspace, e.id = b, e.wins = {},
         e.name = NoName \/ Fresh(D, e.name),
         o \in Output => o \in conn /\ Rightful(e.orig, o, conn, main)
  PROVE  \E F : Turned(D, F, o, D[o] \cup {e}) /\ World(F, b + 1, h, a, conn, main)
<1>1. Homes(D) /\ D[o] \cup {e} \in SUBSET Workspace /\ b \in Nat /\ b + 1 \in Id
  BY DEF World, Homes, Id
<1>2. PICK F : Turned(D, F, o, D[o] \cup {e})
  BY <1>1, CanTurn
<1>3. /\ Homes(F)
      /\ \A p \in Home : \A v \in F[p] : v \in D[p] \/ (p = o /\ v = e)
      /\ \A p \in Home : \A v \in D[p] : v \in F[p]
  BY <1>2 DEF Turned
<1>4. ASSUME NEW p \in Home, NEW v \in D[p] PROVE ~Clash(v, e) /\ ~Clash(e, v) /\ v.id < b
  <2>1. v.id < b /\ v \in Workspace
    BY DEF World, Homes, Known
  <2>2. v.id \in Nat
    BY <2>1, WorkspaceFields DEF Id
  <2>3. v.id # e.id
    BY <1>1, <2>1, <2>2
  <2>4. e.name = NoName \/ v.name # e.name
    BY DEF Fresh
  <2> QED BY <2>1, <2>3, <2>4 DEF Clash
<1>5. Single(F)
  <2>1. SUFFICES ASSUME NEW p \in Home, NEW q \in Home, NEW v \in F[p], NEW w \in F[q], Clash(v, w)
                 PROVE  p = q /\ v = w
    BY DEF Single
  <2>2. CASE v \in D[p] /\ w \in D[q]
    BY <2>1, <2>2 DEF World, Single
  <2>3. CASE p = o /\ v = e
    BY <1>3, <1>4, <2>1, <2>3
  <2>4. CASE q = o /\ w = e
    BY <1>3, <1>4, <2>1, <2>4
  <2> QED BY <1>3, <2>2, <2>3, <2>4
<1>6. Known(F, b + 1, h, a)
  <2>1. ASSUME NEW p \in Home, NEW v \in F[p] PROVE v.id < b + 1 /\ v.wins \subseteq a /\ v.wins \cap h = {}
    <3>1. CASE v \in D[p]
      <4>1. v.wins \subseteq a /\ v.wins \cap h = {} /\ v \in Workspace
        BY <3>1 DEF World, Known, Homes
      <4>2. v.id \in Nat
        BY <4>1, WorkspaceFields DEF Id
      <4>3. v.id < b + 1
        BY <1>1, <1>4, <3>1, <4>2
      <4> QED BY <4>1, <4>3
    <3>2. CASE p = o /\ v = e
      <4>1. v.id < b + 1
        BY <1>1, <3>2
      <4> QED BY <3>2, <4>1
    <3> QED BY <1>3, <3>1, <3>2
  <2>2. ASSUME NEW x \in a PROVE x \in h \/ \E p \in Home : \E v \in F[p] : x \in v.wins
    BY <1>3 DEF World, Known
  <2>3. h \subseteq a /\ a \subseteq Window
    BY DEF World, Known
  <2> QED BY <2>1, <2>2, <2>3 DEF Known
<1>7. Housed(F, conn, main)
  <2>1. SUFFICES ASSUME NEW p \in Output, NEW v \in F[p]
                 PROVE  p \in conn /\ Rightful(v.orig, p, conn, main)
    BY DEF Housed
  <2>2. p \in Home
    BY DEF Home
  <2> QED BY <1>3, <2>2 DEF World, Housed
<1>8. World(F, b + 1, h, a, conn, main)
  BY <1>1, <1>3, <1>5, <1>6, <1>7 DEF World
<1> QED BY <1>2, <1>8

\* What becomes of a workspace that changes hands.
LEMMA OwnedFields ==
  ASSUME NEW v \in Workspace, NEW o \in Output, NEW w, w = Owned(v, o)
  PROVE  w \in Workspace /\ w.id = v.id /\ w.orig = o /\ w.name = v.name /\ w.wins = v.wins
<1>1. w \in Workspace
  BY Zenon DEF Owned, Workspace
<1> QED BY <1>1 DEF Owned, Workspace

-----------------------------------------------------------------------------
\* A workspace of the configuration, before it is anywhere.
LEMMA ConfiguredFields ==
  ASSUME NEW o \in Output \cup {NoOutput}, NEW id \in Id, NEW n \in Name,
         NEW w, w = Renamed(NewWorkspace(o, id), n)
  PROVE  w \in Workspace /\ w.id = id /\ w.orig = o /\ w.name = n /\ w.wins = {}
<1>1. PICK v : v = NewWorkspace(o, id)
  OBVIOUS
<1>2. v \in Workspace
  BY <1>1 DEF NewWorkspace, Workspace
<1>3. v.id = id /\ v.orig = o /\ v.name = NoName /\ v.wins = {}
  BY <1>1, NewFields
<1>4. n \in Name \cup {NoName}
  OBVIOUS
<1>5. w = Renamed(v, n)
  BY <1>1
<1>6. w \in Workspace /\ w.id = v.id /\ w.orig = v.orig /\ w.name = n /\ w.wins = v.wins
  BY <1>2, <1>4, <1>5, RenamedFields
<1> QED BY <1>3, <1>6

\* It is put on a monitor: the one of its output, or the primary one.
LEMMA ConfiguredRightful ==
  ASSUME IInv, monitors # <<>>, NEW o \in Output \cup {NoOutput},
         NEW k, k = IF o = NoOutput THEN focused
                    ELSE IF o \in Connected THEN MonitorOf(o) ELSE primary,
         NEW orig, orig = IF o = NoOutput THEN monitors[k].output ELSE o
  PROVE  /\ k \in 1..Len(monitors) /\ orig \in Output
         /\ Rightful(orig, monitors[k].output, Outs(monitors), MainOf(monitors, primary))
<1>1. k \in 1..Len(monitors)
  BY Around, MonitorThere
<1>2. orig \in Output
  BY <1>1, Around
<1>3. CASE o = NoOutput
  BY <1>1, <1>2, <1>3 DEF Rightful
<1>4. CASE o # NoOutput /\ o \in Connected
  <2>1. monitors[k].output = o
    BY <1>4, MonitorThere
  <2> QED BY <1>1, <1>2, <1>4, <2>1 DEF Rightful
<1>5. CASE o # NoOutput /\ o \notin Connected
  <2>1. Outs(monitors) = Connected
    BY Around DEF Outs, Connected
  <2>2. MainOf(monitors, primary) = monitors[k].output
    BY <1>1, <1>5, Around DEF MainOf
  <2> QED BY <1>1, <1>2, <1>5, <2>1, <2>2 DEF Rightful
<1> QED BY <1>1, <1>2, <1>3, <1>4, <1>5

\* ensure_named_workspace, with outputs
LEMMA EnsuredOnMonitorLays ==
  ASSUME IInv, AllLaid, NEW n \in Name, NEW o \in Output \cup {NoOutput},
         EnsureNamedWorkspace(n, o), monitors # <<>>
  PROVE  AllLaid'
<1>1. PICK D : /\ World(D, nextId, Hands(move), mapped, Outs(monitors), MainOf(monitors, primary))
               /\ Sits(monitors, stranded, D)
  BY DEF AllLaid, Laid
<1>2. PICK k : k = IF o = NoOutput THEN focused
                   ELSE IF o \in Connected THEN MonitorOf(o) ELSE primary
  OBVIOUS
<1>3. PICK m, orig : m = monitors[k] /\ orig = IF o = NoOutput THEN monitors[k].output ELSE o
  OBVIOUS
<1>4. /\ k \in 1..Len(monitors) /\ orig \in Output
      /\ Rightful(orig, monitors[k].output, Outs(monitors), MainOf(monitors, primary))
  BY <1>2, <1>3, ConfiguredRightful
<1>5. PICK h, a, conn, main, out, C : /\ h = Hands(move) /\ a = mapped /\ conn = Outs(monitors)
                                      /\ main = MainOf(monitors, primary) /\ out = m.output /\ C = D[out]
  OBVIOUS
<1>6. PICK w : w = Renamed(NewWorkspace(orig, nextId), n)
  OBVIOUS
<1>7. nextId \in Id /\ n \notin UsedNames /\ DOMAIN monitors = 1..Len(monitors)
  BY Around DEF EnsureNamedWorkspace
<1>8. w \in Workspace /\ w.id = nextId /\ w.orig = orig /\ w.name = n /\ w.wins = {}
  <2>1. orig \in Output \cup {NoOutput}
    BY <1>4
  <2> QED BY <1>6, <1>7, <2>1, ConfiguredFields
<1>9. /\ out \in Output /\ out \in Home /\ out \in conn /\ Holds(m.ws, C)
      /\ Before(C, nextId) /\ Formed(m) /\ Ready(m)
  <2>1. Ready(m)
    BY <1>3, <1>4, Around
  <2> QED BY <1>1, <1>3, <1>4, <1>5, <2>1, LaidMonitor
<1>10. World(D, nextId, h, a, conn, main) /\ Fresh(D, n)
  BY <1>1, <1>5, <1>7, UnusedIsFresh
<1>11. PICK b \in Id : b = nextId + 1
  BY <1>7 DEF Id
<1>12. PICK G : Turned(D, G, out, D[out] \cup {w}) /\ World(G, b, h, a, conn, main)
  <2>1. out \in Output => out \in conn /\ Rightful(w.orig, out, conn, main)
    BY <1>3, <1>4, <1>5, <1>8, <1>9
  <2>2. w.name = NoName \/ Fresh(D, w.name)
    BY <1>8, <1>10
  <2>3. \E F : Turned(D, F, out, D[out] \cup {w}) /\ World(F, nextId + 1, h, a, conn, main)
    BY <1>8, <1>9, <1>10, <2>1, <2>2, WorldAdds
  <2> QED BY <1>11, <2>3
<1>13. PICK F : Turned(G, F, out, Plus(G[out], out, b)) /\ World(F, b + 1, h, a, conn, main)
  BY <1>9, <1>12, WorldGrownByOne
<1>14. PICK one \in Nat, no \in BOOLEAN : one = 1 /\ no = FALSE
  OBVIOUS
<1>15. PICK x : x = InsertWorkspace(m, w, one, no, b)
  OBVIOUS
<1>16. one \in 1..(Len(m.ws) + 1)
  BY <1>3, <1>4, <1>14, Around
<1>17. Sound(x) /\ SameOutput(m, x)
  BY <1>8, <1>9, <1>15, <1>16, WorkspaceInserted
<1>18. PICK X : X = Plus(C \cup {w}, out, b)
  OBVIOUS
<1>19. Holds(x.ws, X)
  <2>1. Before(C, b)
    BY <1>7, <1>9, <1>11, BeforePlus
  <2>2. \A v \in C : v.id # w.id
    <3>1. SUFFICES ASSUME NEW v \in C PROVE v.id # w.id
      OBVIOUS
    <3>2. v \in Workspace /\ v.id < nextId
      BY <1>9 DEF Before
    <3>3. v.id \in Nat /\ nextId \in Nat
      BY <1>7, <3>2, WorkspaceFields DEF Id
    <3> QED BY <1>8, <3>2, <3>3
  <2>3. w.id # b
    BY <1>7, <1>8, <1>11 DEF Id
  <2>4. Holds(x.ws, Plus(C, m.output, b) \cup {w})
    BY <1>8, <1>9, <1>15, <1>16, <1>17, <2>1, <2>2, <2>3, InsertedHolds
  <2>5. Plus(C, m.output, b) \cup {w} = X
    BY <1>5, <1>18 DEF Plus
  <2> QED BY <2>4, <2>5
<1>20. Turned(D, F, out, X)
  <2>1. G[out] = C \cup {w}
    BY <1>5, <1>12 DEF Turned
  <2>2. Turned(G, F, out, X)
    BY <1>13, <1>18, <2>1
  <2> QED BY <1>9, <1>12, <2>2, TurnedTwice
<1>21. UNCHANGED <<primary, stranded, move, mapped>> /\ TakeIds
  BY DEF EnsureNamedWorkspace, userVars
<1>22. World(F, nextId', Hands(move'), mapped', Outs(monitors), MainOf(monitors, primary))
  <2>1. nextId' = nextId + 4
    BY <1>21 DEF TakeIds, IdsPerCall
  <2>2. PICK c : c = nextId'
    OBVIOUS
  <2>3. c \in Id /\ b + 1 <= c
    BY <1>7, <1>11, <2>1, <2>2 DEF Id
  <2>4. World(F, c, h, a, conn, main)
    BY <1>13, <2>3, WorldLater
  <2> QED BY <1>5, <1>21, <2>2, <2>4
<1>23. monitors' = Exchanged(monitors, k, x)
  <2>1. monitors' = [monitors EXCEPT ![k] = InsertWorkspace(m, w, 1, FALSE, nextId + 1)]
    BY <1>2, <1>3, <1>6, Zenon DEF EnsureNamedWorkspace, SetMonitor, Renamed
  <2> QED BY <1>11, <1>14, <1>15, <2>1 DEF Exchanged
<1>24. x \in Monitor /\ x.output = monitors[k].output
  BY <1>3, <1>17 DEF Sound, Nearly, Ready, Formed, SameOutput
<1>25. DragFits(move', mapped') /\ Turned(D, F, monitors[k].output, X)
  BY <1>3, <1>5, <1>20, <1>21 DEF AllLaid
<1>26. UNCHANGED <<primary, stranded>>
  BY <1>21
<1> QED BY <1>1, <1>4, <1>19, <1>22, <1>23, <1>24, <1>25, <1>26, OneLaid

\* A single workspace is a stack.
LEMMA HoldsOne ==
  ASSUME NEW w \in Workspace
  PROVE  Holds(<<w>>, {w})
<1>1. PICK s : s = <<w>>
  OBVIOUS
<1>2. s \in Seq(Workspace) /\ Len(s) = 1 /\ s[1] = w
  BY <1>1
<1>3. Holds(s, {w})
  BY <1>2 DEF Holds
<1> QED BY <1>1, <1>3

\* ensure_named_workspace, with no outputs
LEMMA EnsuredStrandedLays ==
  ASSUME IInv, AllLaid, NEW n \in Name, NEW o \in Output \cup {NoOutput},
         EnsureNamedWorkspace(n, o), monitors = <<>>
  PROVE  AllLaid'
<1>1. PICK D : /\ World(D, nextId, Hands(move), mapped, Outs(monitors), MainOf(monitors, primary))
               /\ Sits(monitors, stranded, D)
  BY DEF AllLaid, Laid
<1>2. PICK h, a, conn, main, s, st, C, w :
        /\ h = Hands(move) /\ a = mapped /\ conn = Outs(monitors) /\ main = MainOf(monitors, primary)
        /\ s = stranded /\ st = stranded' /\ C = D[NoOutput] /\ w = Renamed(NewWorkspace(o, nextId), n)
  OBVIOUS
<1>3. Holds(s, C) /\ NoOutput \in Home /\ nextId \in Id /\ n \notin UsedNames /\ NoOutput \notin Output
  BY <1>1, <1>2, Around, NoValues DEF Sits, Home, EnsureNamedWorkspace
<1>4. w \in Workspace /\ w.id = nextId /\ w.orig = o /\ w.name = n /\ w.wins = {}
  BY <1>2, <1>3, ConfiguredFields
<1>5. World(D, nextId, h, a, conn, main) /\ Fresh(D, n)
  BY <1>1, <1>2, <1>3, UnusedIsFresh
<1>6. PICK F : Turned(D, F, NoOutput, D[NoOutput] \cup {w}) /\ World(F, nextId + 1, h, a, conn, main)
  <2>1. w.name = NoName \/ Fresh(D, w.name)
    BY <1>4, <1>5
  <2>2. NoOutput \in Output => NoOutput \in conn /\ Rightful(w.orig, NoOutput, conn, main)
    BY <1>3
  <2> QED BY <1>3, <1>4, <1>5, <2>1, <2>2, WorldAdds
<1>7. st = <<w>> \o s
  BY <1>2, Zenon DEF EnsureNamedWorkspace, Renamed
<1>8. Holds(st, {w} \cup C)
  <2>1. ASSUME NEW v \in C PROVE v.id # w.id
    <3>1. v \in Workspace /\ v.id < nextId
      BY <1>2, <1>3, <1>5 DEF World, Homes, Known
    <3>2. v.id \in Nat /\ nextId \in Nat
      BY <1>3, <3>1, WorkspaceFields DEF Id
    <3> QED BY <1>4, <3>1, <3>2
  <2>2. PICK t, B : t = <<w>> /\ B = {w}
    OBVIOUS
  <2>3. Holds(t, B) /\ st = t \o s
    BY <1>4, <1>7, <2>2, HoldsOne
  <2>4. \A u \in B, v \in C : u.id # v.id
    BY <2>1, <2>2
  <2>5. Holds(st, B \cup C)
    BY <1>3, <2>3, <2>4, HoldsJoined
  <2> QED BY <2>2, <2>5
<1>9. Holds(st, F[NoOutput])
  <2>1. F[NoOutput] = {w} \cup C
    BY <1>2, <1>6 DEF Turned
  <2> QED BY <1>8, <2>1
<1>10. UNCHANGED <<monitors, primary, move, mapped>> /\ TakeIds
  BY DEF EnsureNamedWorkspace, userVars
<1>11. World(F, nextId', h, a, conn, main)
  BY <1>6, <1>10, IdsTaken
<1>12. World(F, nextId', Hands(move'), mapped', Outs(monitors), MainOf(monitors, primary))
  BY <1>2, <1>10, <1>11
<1>13. DragFits(move', mapped')
  BY <1>10 DEF AllLaid
<1>14. UNCHANGED <<monitors, primary>>
  BY <1>10
<1> QED BY <1>2, <1>9, <1>12, <1>13, <1>14, StrandedLaid

-----------------------------------------------------------------------------
\* Workspace v goes from home o to home p, where it is w.
Passed(D, F, o, v, p, w) ==
  /\ Homes(F) /\ F[o] = D[o] \ {v} /\ F[p] = D[p] \cup {w}
  /\ \A q \in Home : q # o /\ q # p => F[q] = D[q]

\* It keeps its windows and its name.
LEMMA WorldPassed ==
  ASSUME NEW D, NEW b, NEW h, NEW a, NEW conn, NEW main, World(D, b, h, a, conn, main),
         NEW o \in Home, NEW p \in Home, o # p, NEW v \in D[o], NEW w \in Workspace,
         w.id = v.id, w.name = v.name, w.wins = v.wins,
         p \in Output => p \in conn /\ Rightful(w.orig, p, conn, main)
  PROVE  \E F : Passed(D, F, o, v, p, w) /\ World(F, b, h, a, conn, main)
<1>1. Homes(D) /\ D[o] \ {v} \in SUBSET Workspace /\ D[p] \cup {w} \in SUBSET Workspace
  BY DEF World, Homes
<1>2. PICK E : Turned(D, E, o, D[o] \ {v})
  BY <1>1, CanTurn
<1>3. Homes(E)
  BY <1>2 DEF Turned
<1>4. PICK F : Turned(E, F, p, D[p] \cup {w})
  BY <1>1, <1>3, CanTurn
<1>5. Passed(D, F, o, v, p, w)
  BY <1>2, <1>4 DEF Turned, Passed
<1>6. World(F, b, h, a, conn, main)
  <2>1. v.wins \cap h = {}
    BY DEF World, Known
  <2>2. w.wins \cup h = v.wins \cup h /\ w.wins \cap h = {} /\ w.name \in {v.name, NoName}
    BY <2>1
  <2>3. Homes(F) /\ w \in F[p]
    BY <1>5 DEF Passed
  <2>4. \A q \in Home : \A u \in F[q] : (q = p /\ u = w) \/ (u \in D[q] /\ ~(q = o /\ u = v))
    BY <1>5 DEF Passed
  <2>5. \A q \in Home : \A u \in D[q] : (q = o /\ u = v) \/ u \in F[q]
    BY <1>5 DEF Passed
  <2> QED BY <2>2, <2>3, <2>4, <2>5, WorldMoved
<1> QED BY <1>5, <1>6

\* move_workspace_to_output_by_id, to the output where the workspace is
LEMMA OwnedInPlaceLays ==
  ASSUME IInv, AllLaid, NEW p \in Places, MoveWorkspaceToOutput(p, p[1])
  PROVE  AllLaid'
<1>1. PICK D : /\ World(D, nextId, Hands(move), mapped, Outs(monitors), MainOf(monitors, primary))
               /\ Sits(monitors, stranded, D)
  BY DEF AllLaid, Laid
<1>2. PICK k, i, m, o, v, C : /\ k = p[1] /\ i = p[2] /\ m = monitors[k] /\ o = m.output
                              /\ v = m.ws[i] /\ C = D[o]
  OBVIOUS
<1>3. PICK h, a, conn, main : /\ h = Hands(move) /\ a = mapped /\ conn = Outs(monitors)
                              /\ main = MainOf(monitors, primary)
  OBVIOUS
<1>4. k \in 1..Len(monitors) /\ i \in 1..Len(m.ws) /\ nextId \in Id /\ WorkspaceAt(p) = v
  BY <1>2, PlaceThere, Around
<1>5. /\ o \in Output /\ o \in Home /\ Holds(m.ws, C) /\ v \in C /\ v \in Workspace /\ Formed(m)
  BY <1>1, <1>2, <1>3, <1>4, LaidMonitor
<1>6. PICK w : w = Owned(v, o)
  OBVIOUS
<1>7. w \in Workspace /\ w.id = v.id /\ w.orig = o /\ w.name = v.name /\ w.wins = v.wins
  BY <1>5, <1>6, OwnedFields
<1>8. PICK X : X = Instead(C, v, w)
  OBVIOUS
<1>9. PICK F : Turned(D, F, o, X) /\ World(F, nextId, h, a, conn, main)
  <2>1. World(D, nextId, h, a, conn, main) /\ v \in D[o]
    BY <1>1, <1>2, <1>3, <1>5
  <2>2. v.wins \cap h = {}
    BY <1>5, <2>1 DEF World, Known
  <2>3. w.wins \cup h = v.wins \cup h /\ w.wins \cap h = {} /\ w.name \in {v.name, NoName} /\ w.orig \in {v.orig, o}
    BY <1>7, <2>2
  <2>4. \E F : Turned(D, F, o, Instead(D[o], v, w)) /\ World(F, nextId, h, a, conn, main)
    BY <1>5, <1>7, <2>1, <2>3, WorldChanged
  <2> QED BY <1>2, <1>8, <2>4
<1>10. PICK n : n = Rewritten(m, i, w)
  OBVIOUS
<1>11. Formed(n) /\ SameOutput(m, n) /\ Holds(n.ws, X)
  <2>1. w.id = m.ws[i].id
    BY <1>2, <1>7
  <2>2. Holds(n.ws, Instead(C, m.ws[i], w))
    BY <1>4, <1>5, <1>7, <1>10, <2>1, RewrittenHolds
  <2>3. Formed(n) /\ SameOutput(m, n)
    BY <1>4, <1>5, <1>7, <1>10, <2>1, RewrittenHolds
  <2> QED BY <1>2, <1>8, <2>2, <2>3
<1>12. monitors' = Exchanged(monitors, k, n)
  BY <1>2, <1>4, <1>6, <1>10 DEF MoveWorkspaceToOutput, Rewritten, Exchanged
<1>13. UNCHANGED <<primary, stranded, move, mapped>> /\ TakeIds
  BY DEF MoveWorkspaceToOutput, stillVars, userVars
<1>14. World(F, nextId', h, a, conn, main)
  BY <1>9, <1>13, IdsTaken
<1>15. World(F, nextId', Hands(move'), mapped', Outs(monitors), MainOf(monitors, primary))
  BY <1>3, <1>13, <1>14
<1>16. n \in Monitor /\ n.output = monitors[k].output
  BY <1>2, <1>11 DEF Formed, SameOutput
<1>17. DragFits(move', mapped') /\ Turned(D, F, monitors[k].output, X)
  BY <1>2, <1>9, <1>13 DEF AllLaid
<1>18. UNCHANGED <<primary, stranded>>
  BY <1>13
<1> QED BY <1>1, <1>4, <1>11, <1>12, <1>15, <1>16, <1>17, <1>18, OneLaid

\* A workspace is passed on, and both outputs may get new workspaces.
LEMMA WorldHanded ==
  ASSUME NEW D, NEW b, NEW h, NEW a, NEW conn, NEW main, World(D, b, h, a, conn, main),
         NEW o \in Output, o \in conn, NEW q \in Output, q \in conn, o # q,
         NEW v \in D[o], NEW w, w = Owned(v, q),
         NEW Y, Y = Plus2(D[o], o, b) \ {v}, NEW X, X = Plus(D[q], q, b + 2) \cup {w}
  PROVE  \E E, F : Turned(D, E, o, Y) /\ Turned(E, F, q, X) /\ World(F, b + 3, h, a, conn, main)
<1>1. o \in Home /\ q \in Home /\ v \in Workspace
  BY DEF World, Homes, Home
<1>2. w \in Workspace /\ w.id = v.id /\ w.orig = q /\ w.name = v.name /\ w.wins = v.wins
  BY <1>1, OwnedFields
<1>3. PICK c \in Id : c = b + 2 /\ c + 1 = b + 3
  BY DEF World, Id
<1>4. PICK G : Turned(D, G, o, Plus2(D[o], o, b)) /\ World(G, b + 2, h, a, conn, main)
  BY WorldGrown
<1>5. v \in G[o] /\ World(G, c, h, a, conn, main)
  BY <1>3, <1>4 DEF Turned, Plus2, Plus
<1>6. PICK H : Passed(G, H, o, v, q, w) /\ World(H, c, h, a, conn, main)
  <2>1. q \in Output => q \in conn /\ Rightful(w.orig, q, conn, main)
    BY <1>2 DEF Rightful
  <2> QED BY <1>1, <1>2, <1>5, <2>1, WorldPassed
<1>7. PICK F : Turned(H, F, q, Plus(H[q], q, c)) /\ World(F, c + 1, h, a, conn, main)
  BY <1>6, WorldGrownByOne
<1>8. Y \in SUBSET Workspace /\ Homes(D)
  BY <1>1, <1>4 DEF Turned, Homes, World
<1>9. PICK E : Turned(D, E, o, Y)
  BY <1>1, <1>8, CanTurn
<1>10. Turned(E, F, q, X)
  <2>1. G[q] = D[q] /\ G[o] = Plus2(D[o], o, b) /\ \A p \in Home : p # o => G[p] = D[p]
    BY <1>1, <1>4 DEF Turned
  <2>2. H[o] = Y /\ H[q] = D[q] \cup {w}
    BY <1>1, <1>6, <2>1 DEF Passed
  <2>3. Plus(H[q], q, c) = X
    BY <1>3, <2>2 DEF Plus
  <2>4. \A p \in Home : p # o /\ p # q => H[p] = D[p]
    BY <1>6, <2>1 DEF Passed
  <2>5. \A p \in Home : p # q => H[p] = E[p]
    BY <1>9, <2>2, <2>4 DEF Turned
  <2>6. Homes(F) /\ F[q] = X /\ \A p \in Home : p # q => F[p] = H[p]
    BY <1>7, <2>3 DEF Turned
  <2> QED BY <2>5, <2>6 DEF Turned
<1>11. World(F, b + 3, h, a, conn, main)
  BY <1>3, <1>7
<1> QED BY <1>9, <1>10, <1>11

\* move_workspace_to_output_by_id, to another output
LEMMA HandedOverLays ==
  ASSUME IInv, AllLaid, NEW p \in Places, NEW k \in 1..Len(monitors), k # p[1],
         MoveWorkspaceToOutput(p, k)
  PROVE  AllLaid'
<1>1. PICK D : /\ World(D, nextId, Hands(move), mapped, Outs(monitors), MainOf(monitors, primary))
               /\ Sits(monitors, stranded, D)
  BY DEF AllLaid, Laid
<1>2. PICK from, i, m, m2, o, q, v :
        /\ from = p[1] /\ i = p[2] /\ m = monitors[from] /\ m2 = monitors[k]
        /\ o = m.output /\ q = m2.output /\ v = m.ws[i]
  OBVIOUS
<1>3. PICK h, a, conn, main, b, C, B : /\ h = Hands(move) /\ a = mapped /\ conn = Outs(monitors)
                                    /\ main = MainOf(monitors, primary) /\ b = nextId
                                    /\ C = D[o] /\ B = D[q]
  OBVIOUS
<1>4. /\ from \in 1..Len(monitors) /\ i \in 1..Len(m.ws) /\ b \in Id /\ WorkspaceAt(p) = v
      /\ Ready(m) /\ Ready(m2) /\ monitors \in Seq(Monitor)
  BY <1>2, <1>3, PlaceThere, Around DEF IInv, Stacks
<1>5. World(D, b, h, a, conn, main)
  BY <1>1, <1>3
<1>6. /\ o \in Output /\ o \in conn /\ o \in Home /\ Holds(m.ws, C) /\ v \in C /\ v \in Workspace
      /\ Before(C, b) /\ Formed(m)
  BY <1>1, <1>2, <1>3, <1>4, LaidMonitor
<1>7. /\ q \in Output /\ q \in conn /\ q \in Home /\ Holds(m2.ws, B) /\ Before(B, b) /\ Formed(m2)
  BY <1>1, <1>2, <1>3, LaidMonitor
<1>8. o # q
  BY <1>1, <1>2, <1>4 DEF Sits
<1>9. PICK w : w = Owned(v, q)
  OBVIOUS
<1>10. w \in Workspace /\ w.id = v.id
  BY <1>6, <1>7, <1>9, OwnedFields
<1>11. PICK c \in Id : c = b + 2
  BY <1>4 DEF Id
<1>12. PICK X, Y : Y = Plus2(C, o, b) \ {v} /\ X = Plus(B, q, c) \cup {w}
  OBVIOUS
<1>13. PICK E, F : Turned(D, E, o, Y) /\ Turned(E, F, q, X) /\ World(F, b + 3, h, a, conn, main)
  <2>1. Y = Plus2(D[o], o, b) \ {v} /\ X = Plus(D[q], q, b + 2) \cup {w} /\ v \in D[o]
    BY <1>3, <1>6, <1>11, <1>12
  <2> QED BY <1>5, <1>6, <1>7, <1>8, <1>9, <2>1, WorldHanded
<1>14. PICK r : r = RemoveWorkspace(m, i, b)
  OBVIOUS
<1>15. Sound(r) /\ SameOutput(m, r) /\ r \in Monitor /\ Holds(r.ws, Y)
  <2>1. Sound(r) /\ SameOutput(m, r)
    BY <1>4, <1>14, WorkspaceRemoved
  <2>2. Holds(r.ws, Plus2(C, m.output, b) \ {m.ws[i]})
    BY <1>4, <1>6, <1>14, <2>1, RemovedHolds
  <2> QED BY <1>2, <1>12, <2>1, <2>2 DEF Sound, Nearly, Ready, Formed
<1>16. PICK rs : rs = Exchanged(monitors, from, r)
  OBVIOUS
<1>17. Placed(monitors, from, r, rs, stranded, E)
  <2>1. r.output = monitors[from].output /\ Turned(D, E, monitors[from].output, Y)
    BY <1>2, <1>13, <1>15 DEF SameOutput
  <2> QED BY <1>1, <1>4, <1>15, <1>16, <2>1, OneSits
<1>18. /\ Sits(rs, stranded, E) /\ SameOutputs(monitors, rs) /\ rs \in Seq(Monitor)
       /\ rs[k] = m2 /\ k \in 1..Len(rs)
  BY <1>2, <1>17 DEF Placed, SameOutputs
<1>act. PICK act \in BOOLEAN : act = (from = focused /\ i = m.active)
  OBVIOUS
<1>19. PICK j : j = m2.active + 1
  OBVIOUS
<1>20. j \in 1..(Len(m2.ws) + 1)
  BY <1>2, <1>19, Around
<1>21. PICK n : n = InsertWorkspace(m2, w, j, act, c)
  OBVIOUS
<1>22. Sound(n) /\ SameOutput(m2, n) /\ n \in Monitor
  <2>1. Sound(n) /\ SameOutput(m2, n)
    BY <1>4, <1>10, <1>20, <1>21, WorkspaceInserted
  <2> QED BY <2>1 DEF Sound, Nearly, Ready, Formed
<1>23. Holds(n.ws, X)
  <2>1. b \in Nat /\ v.id < b /\ v.id \in Nat
    BY <1>4, <1>6, WorkspaceFields DEF Id, Before
  <2>2. w.id # c
    BY <1>10, <1>11, <2>1
  <2>3. Before(B, c)
    <3>1. SUFFICES ASSUME NEW u \in B PROVE u \in Workspace /\ u.id < c
      BY DEF Before
    <3>2. u \in Workspace /\ u.id < b
      BY <1>7 DEF Before
    <3>3. u.id \in Nat
      BY <3>2, WorkspaceFields DEF Id
    <3> QED BY <1>11, <2>1, <3>2, <3>3
  <2>4. \A u \in B : u.id # w.id
    <3>1. SUFFICES ASSUME NEW u \in B, u.id = w.id PROVE FALSE
      OBVIOUS
    <3>2. Clash(u, v)
      BY <1>10, <3>1 DEF Clash
    <3> QED BY <1>3, <1>5, <1>6, <1>7, <1>8, <3>2 DEF World, Single
  <2>5. Holds(n.ws, Plus(B, m2.output, c) \cup {w})
    BY <1>7, <1>10, <1>20, <1>21, <1>22, <2>2, <2>3, <2>4, InsertedHolds
  <2> QED BY <1>2, <1>12, <2>5
<1>24. PICK ns : ns = Exchanged(rs, k, n)
  OBVIOUS
<1>25. Placed(rs, k, n, ns, stranded, F)
  <2>1. n.output = rs[k].output /\ Turned(E, F, rs[k].output, X)
    BY <1>2, <1>13, <1>18, <1>22 DEF SameOutput
  <2> QED BY <1>18, <1>22, <1>23, <1>24, <2>1, OneSits
<1>26. Sits(ns, stranded, F) /\ SameOutputs(monitors, ns)
  BY <1>18, <1>25, SameTwice DEF Placed
<1>27. ns = monitors'
  <2>1. monitors' = [rs EXCEPT ![k] = InsertWorkspace(rs[k], w, rs[k].active + 1, act, b + 2)]
    BY <1>2, <1>3, <1>4, <1>9, <1>14, <1>16, <1>act, Zenon DEF MoveWorkspaceToOutput, Exchanged
  <2> QED BY <1>11, <1>18, <1>19, <1>21, <1>24, <2>1 DEF Exchanged
<1>28. UNCHANGED <<primary, stranded, move, mapped>> /\ TakeIds
  BY DEF MoveWorkspaceToOutput, stillVars, userVars
<1>29. World(F, nextId', h, a, conn, main)
  <2>1. World(F, nextId + 3, h, a, conn, main)
    BY <1>3, <1>13
  <2> QED BY <1>28, <2>1, IdsTaken
<1>30. World(F, nextId', Hands(move'), mapped', Outs(monitors), MainOf(monitors, primary))
  BY <1>3, <1>28, <1>29
<1>31. DragFits(move', mapped')
  BY <1>28 DEF AllLaid
<1>32. stranded = stranded' /\ UNCHANGED primary
  BY <1>28
<1> QED BY <1>26, <1>27, <1>30, <1>31, <1>32, LaidThen

-----------------------------------------------------------------------------
\* F is D and a new workspace for each monitor of ms.
EachPlus(ms, D, F, b) ==
  /\ Homes(F)
  /\ \A o \in Home : D[o] \subseteq F[o]
  /\ \A k \in 1..Len(ms) : F[ms[k].output] = Plus(D[ms[k].output], ms[k].output, b + k)
  /\ \A o \in Home : \A v \in F[o] \ D[o] :
       \E k \in 1..Len(ms) : o = ms[k].output /\ v = NewWorkspace(o, b + k)

\* There is such a layout.
LEMMA WorldEachPlus ==
  ASSUME NEW ms, Len(ms) \in Nat, \A k \in 1..Len(ms) : ms[k].output \in Output,
         \A j, k \in 1..Len(ms) : ms[j].output = ms[k].output => j = k,
         NEW D, NEW b, NEW h, NEW a, NEW main, World(D, b, h, a, Outs(ms), main)
  PROVE  \E F : EachPlus(ms, D, F, b) /\ World(F, b + Len(ms) + 1, h, a, Outs(ms), main)
<1>1. PICK len \in Nat : len = Len(ms)
  OBVIOUS
<1>2. PICK P : P = [o \in Home |-> {NewWorkspace(o, b + k) : k \in {j \in 1..len : ms[j].output = o}}]
  OBVIOUS
<1>3. PICK F : F = [o \in Home |-> D[o] \cup P[o]]
  OBVIOUS
<1>4. b \in Id /\ b \in Nat /\ Homes(D) /\ \A k \in 1..len : b + k \in Id /\ ms[k].output \in Home
  BY <1>1 DEF World, Id, Home
<1>5. \A o \in Home : \A v \in P[o] : \E k \in 1..len : o = ms[k].output /\ v = NewWorkspace(o, b + k)
  BY <1>2
<1>6. \A k \in 1..len : P[ms[k].output] = {NewWorkspace(ms[k].output, b + k)}
  <2>1. SUFFICES ASSUME NEW k \in 1..len PROVE P[ms[k].output] = {NewWorkspace(ms[k].output, b + k)}
    OBVIOUS
  <2>2. PICK o : o = ms[k].output
    OBVIOUS
  <2>3. o \in Home /\ {j \in 1..len : ms[j].output = o} = {k}
    BY <1>1, <1>4, <2>2
  <2>4. P[o] = {NewWorkspace(o, b + j) : j \in {k}}
    BY <1>2, <2>3
  <2> QED BY <2>2, <2>4
<1>7. Homes(F)
  <2>1. \A o \in Home : P[o] \subseteq Workspace
    <3>1. SUFFICES ASSUME NEW o \in Home, NEW v \in P[o] PROVE v \in Workspace
      OBVIOUS
    <3>2. PICK k \in 1..len : o = ms[k].output /\ v = NewWorkspace(o, b + k)
      BY <1>5
    <3>3. o \in Output /\ b + k \in Id
      BY <1>1, <1>4, <3>2
    <3> QED BY <3>2, <3>3, NewWorkspaceFacts
  <2> QED BY <1>3, <1>4, <2>1 DEF Homes
<1>8. EachPlus(ms, D, F, b)
  <2>1. \A k \in 1..Len(ms) : F[ms[k].output] = Plus(D[ms[k].output], ms[k].output, b + k)
    BY <1>1, <1>3, <1>4, <1>6 DEF Plus
  <2>2. \A o \in Home : D[o] \subseteq F[o]
    BY <1>3
  <2>3. \A o \in Home : \A v \in F[o] \ D[o] :
          \E k \in 1..Len(ms) : o = ms[k].output /\ v = NewWorkspace(o, b + k)
    BY <1>1, <1>3, <1>5
  <2> QED BY <1>7, <2>1, <2>2, <2>3 DEF EachPlus
<1>9. PICK c \in Id : c = b + len + 1
  BY <1>4 DEF Id
<1>10. World(F, c, h, a, Outs(ms), main)
  <2>1. \A o \in Home : \A v \in F[o] \ D[o] :
          \E k \in 1..len : o = ms[k].output /\ v = NewWorkspace(o, b + k)
    BY <1>1, <1>8 DEF EachPlus
  <2>2. ASSUME NEW o \in Home, NEW v \in F[o] \ D[o]
        PROVE  v.name = NoName /\ v.wins = {} /\ b <= v.id /\ v.id < c
    <3>1. PICK k \in 1..len : v = NewWorkspace(o, b + k)
      BY <2>1, <2>2
    <3>2. v.name = NoName /\ v.wins = {} /\ v.id = b + k
      BY <3>1, NewFields
    <3> QED BY <1>4, <1>9, <3>2
  <2>3. ASSUME NEW o \in Home, NEW p \in Home, NEW v \in F[o] \ D[o], NEW w \in F[p] \ D[p], v.id = w.id
        PROVE  o = p /\ v = w
    <3>1. PICK k \in 1..len : o = ms[k].output /\ v = NewWorkspace(o, b + k)
      BY <2>1, <2>3
    <3>2. PICK j \in 1..len : p = ms[j].output /\ w = NewWorkspace(p, b + j)
      BY <2>1, <2>3
    <3>3. v.id = b + k
      BY <3>1, NewFields
    <3>4. w.id = b + j
      BY <3>2, NewFields
    <3>5. j = k
      <4>1. b + j = b + k
        BY <2>3, <3>3, <3>4
      <4>2. b \in Nat /\ j \in Nat /\ k \in Nat
        BY <1>4
      <4> QED BY <4>1, <4>2
    <3> QED BY <3>1, <3>2, <3>5
  <2>4. ASSUME NEW o \in Output, NEW v \in F[o] \ D[o] PROVE o \in Outs(ms) /\ v.orig = o
    <3>1. o \in Home
      BY DEF Home
    <3>2. PICK k \in 1..len : o = ms[k].output /\ v = NewWorkspace(o, b + k)
      BY <2>1, <2>4, <3>1
    <3>3. v.orig = o
      BY <3>2, NewFields
    <3> QED BY <1>1, <3>2, <3>3 DEF Outs
  <2>5. b <= c /\ \A o \in Home : D[o] \subseteq F[o]
    BY <1>3, <1>4, <1>9
  <2> QED BY <1>7, <2>2, <2>3, <2>4, <2>5, WorldWithNews
<1> QED BY <1>1, <1>8, <1>9, <1>10

\* update_config
LEMMA ReloadConfigLays ==
  ASSUME IInv, AllLaid, NEW c \in Configs, ReloadConfig(c)
  PROVE  AllLaid'
<1>1. PICK D : /\ World(D, nextId, Hands(move), mapped, Outs(monitors), MainOf(monitors, primary))
               /\ Sits(monitors, stranded, D)
  BY DEF AllLaid, Laid
<1>2. PICK h, a, main, b : h = Hands(move) /\ a = mapped /\ main = MainOf(monitors, primary) /\ b = nextId
  OBVIOUS
<1>3. /\ b \in Id /\ DOMAIN monitors = 1..Len(monitors) /\ Len(monitors) \in Nat
      /\ \A k \in 1..Len(monitors) : monitors[k].output \in Output
  BY <1>2, Around
<1>4. PICK F : EachPlus(monitors, D, F, b) /\ World(F, b + Len(monitors) + 1, h, a, Outs(monitors), main)
  <2>1. World(D, b, h, a, Outs(monitors), main)
    BY <1>1, <1>2
  <2>2. \A j, k \in 1..Len(monitors) : monitors[j].output = monitors[k].output => j = k
    BY <1>1 DEF Sits
  <2> QED BY <1>3, <2>1, <2>2, WorldEachPlus
<1>5. PICK ns : ns = monitors'
  OBVIOUS
<1>6. ns = [k \in DOMAIN monitors |-> UpdateConfig(monitors[k], c[monitors[k].output], b + k)]
  BY <1>2, <1>5 DEF ReloadConfig
<1>7. ASSUME NEW k \in 1..Len(monitors)
      PROVE  ns[k].output = monitors[k].output /\ Holds(ns[k].ws, F[monitors[k].output])
  <2>1. PICK m, o, C, eaf, id, n : /\ m = monitors[k] /\ o = m.output /\ C = D[o] /\ eaf = c[o] /\ id = b + k
                                   /\ n = UpdateConfig(m, eaf, id)
    OBVIOUS
  <2>2. o \in Output /\ Holds(m.ws, C) /\ Before(C, b) /\ Sound(m)
    BY <1>1, <1>2, <2>1, LaidMonitor
  <2>3. eaf \in BOOLEAN
    <3>1. c \in [Output -> BOOLEAN]
      BY ConfigsType
    <3> QED BY <2>1, <2>2, <3>1
  <2>4. id \in Id
    BY <1>3, <2>1 DEF Id
  <2>5. Before(C, id)
    <3>1. SUFFICES ASSUME NEW v \in C PROVE v \in Workspace /\ v.id < id
      BY DEF Before
    <3>2. v \in Workspace /\ v.id < b
      BY <2>2 DEF Before
    <3>3. v.id \in Nat /\ b \in Nat
      BY <1>3, <3>2, WorkspaceFields DEF Id
    <3> QED BY <2>1, <3>2, <3>3
  <2>6. Holds(n.ws, Plus(C, m.output, id))
    BY <2>1, <2>2, <2>3, <2>4, <2>5, ConfigUpdatedHolds
  <2>7. n.output = m.output
    BY <2>1, <2>2, <2>3, <2>4, ConfigUpdated
  <2>8. ns[k] = n
    BY <1>3, <1>6, <2>1
  <2>9. F[o] = Plus(C, o, id)
    BY <1>4, <2>1 DEF EachPlus
  <2> QED BY <2>1, <2>6, <2>7, <2>8, <2>9
<1>8. Len(ns) = Len(monitors)
  BY <1>3, <1>6
<1>9. Holds(stranded, F[NoOutput])
  <2>1. NoOutput \in Home /\ NoOutput \notin Output
    BY NoValues DEF Home
  <2>2. ASSUME NEW v \in F[NoOutput] \ D[NoOutput] PROVE FALSE
    <3>1. \E k \in 1..Len(monitors) : NoOutput = monitors[k].output
      BY <1>4, <2>1, <2>2 DEF EachPlus
    <3> QED BY <1>3, <2>1, <3>1
  <2>3. D[NoOutput] \subseteq F[NoOutput]
    BY <1>4, <2>1 DEF EachPlus
  <2>4. D[NoOutput] = F[NoOutput]
    BY <2>2, <2>3
  <2> QED BY <1>1, <2>4 DEF Sits
<1>10. Sits(ns, stranded, F) /\ SameOutputs(monitors, ns)
  <2>1. SameOutputs(monitors, ns)
    BY <1>7, <1>8 DEF SameOutputs
  <2>2. \A k \in 1..Len(ns) : Holds(ns[k].ws, F[ns[k].output])
    BY <1>7, <1>8
  <2>3. \A j, k \in 1..Len(ns) : ns[j].output = ns[k].output => j = k
    BY <1>1, <1>7, <1>8 DEF Sits
  <2> QED BY <1>9, <2>1, <2>2, <2>3 DEF Sits
<1>11. UNCHANGED <<primary, stranded, move, mapped>> /\ nextId' = b + Len(monitors) + 1
  BY <1>2 DEF ReloadConfig, stillVars
<1>12. World(F, nextId', Hands(move'), mapped', Outs(monitors), MainOf(monitors, primary))
  BY <1>2, <1>4, <1>11
<1>13. DragFits(move', mapped')
  BY <1>11 DEF AllLaid
<1>14. stranded = stranded' /\ UNCHANGED primary
  BY <1>11
<1> QED BY <1>5, <1>10, <1>12, <1>13, <1>14, LaidThen

-----------------------------------------------------------------------------
\* What the primary monitor has left once output o has its workspaces back.
LEMMA WithoutHolds ==
  ASSUME NEW m, Sound(m), NEW C, Holds(m.ws, C), NEW o, o # m.output, NEW n, n = WithoutThoseOf(m, o),
         NEW B, B = NotOf(C, o)
  PROVE  Holds(n.ws, B)
<1>0. m \in Monitor /\ m.ws \in Seq(Workspace) /\ m.active \in Nat /\ DOMAIN m.ws = 1..Len(m.ws)
  BY MonitorFields DEF Sound, Nearly, Ready, Formed
<1>1. PICK len \in Nat : len = Len(m.ws)
  BY <1>0
<1>2. PICK taken : taken = {i \in 1..len : m.ws[i].orig = o}
  OBVIOUS
<1>3. PICK K : K = (1..len) \ taken
  OBVIOUS
<1>4. PICK ws : ws = Keep(m.ws, K)
  OBVIOUS
<1>5. Holds(ws, B)
  <2>1. PICK s : s = m.ws
    OBVIOUS
  <2>2. K \in SUBSET (1..Len(s)) /\ B \in SUBSET C
    BY <1>1, <1>3, <2>1 DEF NotOf
  <2>3. \A k \in K : s[k] \in B
    BY <1>1, <1>2, <1>3, <2>1 DEF Holds, NotOf
  <2>4. \A k \in (1..Len(s)) \ K : s[k] \in B => IsBlank(s[k])
    BY <1>1, <1>2, <1>3, <2>1 DEF NotOf
  <2> QED BY <1>4, <2>1, <2>2, <2>3, <2>4, HoldsKept
<1>6. PICK a : a = ActiveWithout(m, taken)
  OBVIOUS
<1>7. a \in Nat
  <2>1. PICK A : A = {i \in taken : i <= m.active}
    OBVIOUS
  <2>2. A \in SUBSET (1..len)
    BY <1>2, <2>1
  <2>3. Cardinality(A) \in 0..len
    BY <2>2, IndicesFinite
  <2>4. PICK floor \in 1..2 : a = MaxOf(m.active - Cardinality(A), floor)
    BY <1>6, <2>1 DEF ActiveWithout
  <2> QED BY <1>0, <2>3, <2>4 DEF MaxOf
<1>8. PICK sw : sw = IF taken = {} THEN m.sw ELSE NoSwitch
  OBVIOUS
<1>9. sw \in Switch
  BY <1>0, <1>8, MonitorFields, SwitchesAtRest
<1>10. PICK p : p = [m EXCEPT !.ws = ws, !.active = a, !.sw = sw]
  OBVIOUS
<1>11. p \in Monitor
  <2>1. ws \in Seq(Workspace)
    BY <1>5 DEF Holds
  <2> QED BY <1>0, <1>7, <1>9, <1>10, <2>1, Zenon DEF Monitor
<1>12. p.ws = ws
  BY <1>0, <1>10 DEF Monitor
<1>13. n = CleanUpWorkspaces(p) \/ n = p
  <2>1. K = DOMAIN m.ws \ taken /\ taken = {i \in DOMAIN m.ws : m.ws[i].orig = o}
    BY <1>0, <1>1, <1>2, <1>3
  <2>2. n = IF (taken # {} /\ m.sw.kind # "none") \/ (m.eaf /\ Len(p.ws) = 2)
              THEN CleanUpWorkspaces(p) ELSE p
    BY <1>4, <1>6, <1>8, <1>10, <2>1, Zenon DEF WithoutThoseOf
  <2> QED BY <2>2
<1>14. ~n.panicked
  <2>1. Sound(n)
    BY WithoutTaken
  <2> QED BY <2>1 DEF Sound, Nearly, Ready
<1> QED BY <1>5, <1>11, <1>12, <1>13, <1>14, CleanedHolds

\* With an output more, workspaces are where they were or on that output.
LEMMA NoneElsewhere ==
  ASSUME NEW D, NEW b, NEW h, NEW a, NEW conn, NEW main, World(D, b, h, a, conn, main)
  PROVE  \A o \in Output : o \notin conn => D[o] = {}
  BY DEF World, Housed

\* Home o has all that was left over, and two new workspaces.
AllGiven(D, F, o, b) == F[o] = Plus2(D[NoOutput], o, b) /\ F[NoOutput] = {}

\* The first output takes all workspaces.
LEMMA WorldTaken ==
  ASSUME NEW D, NEW b, NEW h, NEW a, NEW main, World(D, b, h, a, {}, main), NEW o \in Output
  PROVE  \E F : World(F, b + 2, h, a, {o}, o) /\ AllGiven(D, F, o, b)
<1>1. o \in Home /\ NoOutput \in Home /\ o # NoOutput /\ Homes(D)
  BY NoValues DEF Home, World
<1>2. PICK C : C = D[NoOutput]
  OBVIOUS
<1>3. PICK F : F = [p \in Home |-> IF p = o THEN C ELSE {}]
  OBVIOUS
<1>4. Homes(F) /\ F[o] = C /\ \A p \in Home : p # o => F[p] = {}
  <2>1. C \in SUBSET Workspace
    BY <1>1, <1>2 DEF Homes
  <2> QED BY <1>1, <1>3, <2>1 DEF Homes
<1>5. World(F, b, h, a, {o}, o)
  <2>1. \A p \in Home : p # NoOutput => D[p] = {}
    BY NoneElsewhere DEF Home
  <2>2. Housed(F, {o}, o)
    <3>1. SUFFICES ASSUME NEW p \in Output, NEW v \in F[p] PROVE p \in {o} /\ Rightful(v.orig, p, {o}, o)
      BY DEF Housed
    <3>2. p = o
      BY <1>4, <3>1 DEF Home
    <3> QED BY <3>2 DEF Rightful
  <2>3. \A p \in Home : \A v \in F[p] : \E q \in Home : v \in D[q]
    BY <1>1, <1>2, <1>4
  <2>4. \A p, q \in Home : \A v \in F[p] : v \in F[q] => p = q
    BY <1>4
  <2>5. \A p \in Home : \A v \in D[p] : IsBlank(v) \/ \E q \in Home : v \in F[q]
    BY <1>1, <1>2, <1>4, <2>1
  <2> QED BY <1>4, <2>2, <2>3, <2>4, <2>5, WorldDealt
<1>6. o \in {o}
  OBVIOUS
<1>7. PICK G : Turned(F, G, o, Plus2(F[o], o, b)) /\ World(G, b + 2, h, a, {o}, o)
  BY <1>5, <1>6, WorldGrown
<1>8. G[o] = Plus2(C, o, b) /\ G[NoOutput] = {}
  BY <1>1, <1>4, <1>7 DEF Turned
<1>9. AllGiven(D, G, o, b)
  BY <1>2, <1>8 DEF AllGiven
<1> QED BY <1>7, <1>9

\* Home o has what belongs to it of home p, and two new workspaces.
GivenBack(D, F, p, o, b) ==
  /\ F[o] = Plus2({v \in D[p] : v.orig = o}, o, b)
  /\ F[p] = {v \in D[p] : v.orig # o}
  /\ \A q \in Home : q # o /\ q # p => F[q] = D[q]

\* Another output takes its workspaces from the primary one.
LEMMA WorldTakenBack ==
  ASSUME NEW D, NEW b, NEW h, NEW a, NEW conn, NEW main, World(D, b, h, a, conn, main),
         NEW o \in Output, o \notin conn, main \in Output, main \in conn
  PROVE  \E F : World(F, b + 2, h, a, conn \cup {o}, main) /\ GivenBack(D, F, main, o, b)
<1>1. o \in Home /\ main \in Home /\ o # main /\ Homes(D)
  BY DEF Home, World
<1>2. PICK A, B : A = {v \in D[main] : v.orig = o} /\ B = {v \in D[main] : v.orig # o}
  OBVIOUS
<1>3. PICK F : F = [p \in Home |-> IF p = o THEN A ELSE IF p = main THEN B ELSE D[p]]
  OBVIOUS
<1>4. Homes(F) /\ F[o] = A /\ F[main] = B /\ \A p \in Home : p # o /\ p # main => F[p] = D[p]
  <2>1. A \in SUBSET Workspace /\ B \in SUBSET Workspace
    BY <1>1, <1>2 DEF Homes
  <2> QED BY <1>1, <1>3, <2>1 DEF Homes
<1>5. PICK all : all = conn \cup {o}
  OBVIOUS
<1>6. World(F, b, h, a, all, main)
  <2>1. D[o] = {} /\ o # NoOutput
    BY NoneElsewhere, NoValues
  <2>2. Housed(F, all, main)
    <3>1. SUFFICES ASSUME NEW p \in Output, NEW v \in F[p] PROVE p \in all /\ Rightful(v.orig, p, all, main)
      BY DEF Housed
    <3>2. p \in Home
      BY DEF Home
    <3>3. CASE p = o
      BY <1>2, <1>4, <1>5, <3>1, <3>3 DEF Rightful
    <3>4. CASE p = main
      <4>1. v \in D[p] /\ v.orig # o
        BY <1>2, <1>4, <3>1, <3>4
      <4> QED BY <1>5, <4>1 DEF World, Housed, Rightful
    <3>5. CASE p # o /\ p # main
      <4>1. v \in D[p]
        BY <1>4, <3>1, <3>2, <3>5
      <4> QED BY <1>5, <3>5, <4>1 DEF World, Housed, Rightful
    <3> QED BY <3>3, <3>4, <3>5
  <2>3. ASSUME NEW p \in Home, NEW v \in F[p]
        PROVE  \/ p = o /\ v \in D[main] /\ v.orig = o
               \/ p = main /\ v \in D[main] /\ v.orig # o
               \/ p # o /\ p # main /\ v \in D[p]
    BY <1>2, <1>4, <2>3
  <2>4. \A p \in Home : \A v \in F[p] : \E q \in Home : v \in D[q]
    BY <1>1, <2>3
  <2>5. ASSUME NEW p \in Home, NEW q \in Home, NEW v \in F[p], v \in F[q] PROVE p = q
    <3>1. \A r, s \in Home : v \in D[r] /\ v \in D[s] => r = s
      BY DEF World, Single, Clash
    <3> QED BY <1>1, <2>3, <2>5, <3>1
  <2>6. ASSUME NEW p \in Home, NEW v \in D[p] PROVE \E q \in Home : v \in F[q]
    BY <1>1, <1>2, <1>4, <2>1, <2>6
  <2> QED BY <1>4, <2>2, <2>4, <2>5, <2>6, WorldDealt
<1>7. o \in all
  BY <1>5
<1>8. PICK G : Turned(F, G, o, Plus2(F[o], o, b)) /\ World(G, b + 2, h, a, all, main)
  BY <1>6, <1>7, WorldGrown
<1>9. G[o] = Plus2(A, o, b) /\ G[main] = B /\ \A p \in Home : p # o /\ p # main => G[p] = D[p]
  BY <1>1, <1>4, <1>8 DEF Turned
<1>10. GivenBack(D, G, main, o, b)
  BY <1>2, <1>9 DEF GivenBack
<1> QED BY <1>5, <1>8, <1>10

\* An output is connected while others are.
LEMMA AddOutputMoreLays ==
  ASSUME IInv, AllLaid, NEW o \in Output, AddOutput(o), monitors # <<>>
  PROVE  AllLaid'
<1>1. PICK D : /\ World(D, nextId, Hands(move), mapped, Outs(monitors), MainOf(monitors, primary))
               /\ Sits(monitors, stranded, D)
  BY DEF AllLaid, Laid
<1>2. PICK h, a, conn, main, b, k, m, len : /\ h = Hands(move) /\ a = mapped /\ conn = Outs(monitors)
                                       /\ main = MainOf(monitors, primary) /\ b = nextId
                                       /\ k = primary /\ m = monitors[k] /\ len = Len(monitors)
  OBVIOUS
<1>3. /\ b \in Id /\ k \in 1..len /\ DOMAIN monitors = 1..len /\ len \in Nat /\ monitors \in Seq(Monitor)
      /\ IndexFits(primary, len) /\ lastActive \in [Output -> Id \cup {NoId}]
      /\ Outs(monitors) = Connected
  BY <1>2, Around DEF IInv, Stacks, RestOK, Outs, Connected
<1>4. /\ main = m.output /\ main \in Output /\ main \in conn /\ Sound(m) /\ Holds(m.ws, D[main])
      /\ o \notin conn /\ o # m.output
  <2>1. m.output \in Output /\ m.output \in Outs(monitors) /\ Sound(m) /\ Holds(m.ws, D[m.output])
    BY <1>1, <1>2, <1>3, LaidMonitor
  <2>2. main = m.output
    BY <1>2, <1>3 DEF MainOf
  <2>3. o \notin conn
    BY <1>2, <1>3 DEF AddOutput
  <2> QED BY <1>2, <2>1, <2>2, <2>3
<1>5. World(D, b, h, a, conn, main)
  BY <1>1, <1>2
<1>6. PICK A, B : A = {v \in D[main] : v.orig = o} /\ B = {v \in D[main] : v.orig # o}
  OBVIOUS
<1>7. PICK all : all = conn \cup {o}
  OBVIOUS
<1>8. PICK F : /\ World(F, b + 2, h, a, all, main)
               /\ F[o] = Plus2(A, o, b) /\ F[main] = B
               /\ \A p \in Home : p # o /\ p # main => F[p] = D[p]
  <2>1. PICK F : World(F, b + 2, h, a, conn \cup {o}, main) /\ GivenBack(D, F, main, o, b)
    BY <1>4, <1>5, WorldTakenBack
  <2> QED BY <1>6, <1>7, <2>1 DEF GivenBack
<1>9. PICK eaf \in BOOLEAN : eaf = config[o]
  <2>1. config \in [Output -> BOOLEAN]
    BY ConfigsType DEF IInv, RestOK
  <2> QED BY <2>1
<1>10. PICK K, past, last : /\ K = {i \in DOMAIN m.ws : m.ws[i].orig = o /\ HasWindowsOrName(m.ws[i])}
                            /\ past = lastActive[o] /\ last = [lastActive EXCEPT ![o] = NoId]
  OBVIOUS
<1>11. PICK back, r : back = Keep(m.ws, K) /\ r = WithoutThoseOf(m, o)
  OBVIOUS
<1>12. Holds(r.ws, B) /\ Sound(r) /\ SameOutput(m, r) /\ r \in Monitor
  <2>1. Sound(r) /\ SameOutput(m, r)
    BY <1>4, <1>11, WithoutTaken
  <2>2. PICK C : C = D[main]
    OBVIOUS
  <2>3. Holds(m.ws, C) /\ B = NotOf(C, o)
    BY <1>4, <1>6, <2>2 DEF NotOf
  <2>4. Holds(r.ws, B)
    BY <1>4, <1>11, <2>3, WithoutHolds
  <2> QED BY <2>1, <2>4 DEF Sound, Nearly, Ready, Formed
<1>13. Holds(back, A)
  <2>1. PICK s, C : s = m.ws /\ C = D[main]
    OBVIOUS
  <2>2. Holds(s, C) /\ DOMAIN s = 1..Len(s)
    BY <1>4, <2>1 DEF Holds
  <2>3. K \in SUBSET (1..Len(s)) /\ A \in SUBSET C
    BY <1>6, <1>10, <2>1, <2>2
  <2>4. \A j \in K : s[j] \in A
    BY <1>6, <1>10, <2>1, <2>2 DEF Holds
  <2>5. \A j \in (1..Len(s)) \ K : s[j] \in A => IsBlank(s[j])
    BY <1>6, <1>10, <2>1, <2>2 DEF IsBlank
  <2> QED BY <1>11, <2>1, <2>2, <2>3, <2>4, <2>5, HoldsKept
<1>14. PICK n : n = NewMonitor(o, back, past, eaf, b)
  OBVIOUS
<1>15. Holds(n.ws, Plus2(A, o, b)) /\ n.output = o /\ n \in Monitor
  <2>1. main \in Home
    BY <1>4 DEF Home
  <2>2. Before(D[main], b)
    BY <1>5, <2>1, WorldBefore
  <2>3. Before(A, b)
    BY <1>6, <2>2 DEF Before
  <2>4. Holds(n.ws, Plus2(A, o, b))
    BY <1>3, <1>13, <1>14, <2>3, MadeHolds
  <2>5. back \in Seq(Workspace) /\ \A i \in 1..Len(back) : HasWindowsOrName(back[i])
    <3>1. PICK s : s = m.ws
      OBVIOUS
    <3>2. s \in Seq(Workspace) /\ K \in SUBSET (1..Len(s)) /\ \A i \in K : HasWindowsOrName(s[i])
      <4>1. s \in Seq(Workspace)
        BY <1>4, <3>1 DEF Holds
      <4> QED BY <1>10, <3>1, <4>1
    <3> QED BY <1>11, <3>1, <3>2, NonBlankKept
  <2>6. Sound(n) /\ n.output = o
    BY <1>3, <1>14, <2>5, MonitorMade
  <2> QED BY <2>4, <2>6 DEF Sound, Nearly, Ready, Formed
<1>16. PICK rs, ns : rs = Exchanged(monitors, k, r) /\ ns = Append(rs, n)
  OBVIOUS
<1>17. /\ rs \in Seq(Monitor) /\ Len(rs) = len /\ rs[k] = r
       /\ \A j \in 1..len : j # k => rs[j] = monitors[j]
  BY <1>2, <1>3, <1>12, <1>16 DEF Exchanged
<1>18. /\ Len(ns) = len + 1 /\ ns[len + 1] = n /\ \A j \in 1..len : ns[j] = rs[j]
  BY <1>3, <1>15, <1>16, <1>17
<1>19. \A j \in 1..len : ns[j].output = monitors[j].output
  BY <1>2, <1>12, <1>17, <1>18 DEF SameOutput
<1>20. Sits(ns, stranded, F)
  <2>1. ASSUME NEW j \in 1..len PROVE Holds(ns[j].ws, F[ns[j].output])
    <3>1. CASE j = k
      BY <1>4, <1>8, <1>12, <1>17, <1>18, <1>19, <1>2, <3>1
    <3>2. CASE j # k
      <4>1. PICK p : p = monitors[j].output
        OBVIOUS
      <4>2. p # main /\ p # o /\ p \in Home /\ Holds(monitors[j].ws, D[p])
        <5>1. p \in Output /\ p \in conn /\ p \in Home /\ Holds(monitors[j].ws, D[p])
          BY <1>1, <1>2, <2>1, <4>1, LaidMonitor
        <5>2. p # main
          BY <1>1, <1>2, <1>3, <1>4, <2>1, <3>2, <4>1 DEF Sits
        <5> QED BY <1>4, <5>1, <5>2
      <4>3. F[p] = D[p]
        BY <1>8, <4>2
      <4> QED BY <1>17, <1>18, <3>2, <4>1, <4>2, <4>3
    <3> QED BY <3>1, <3>2
  <2>2. Holds(ns[len + 1].ws, F[ns[len + 1].output])
    BY <1>8, <1>15, <1>18
  <2>3. \A j \in 1..Len(ns) : j \in 1..len \/ j = len + 1
    BY <1>3, <1>18
  <2>4. \A i, j \in 1..len : ns[i].output = ns[j].output => i = j
    BY <1>1, <1>2, <1>19 DEF Sits
  <2>5. \A j \in 1..len : ns[j].output # o
    BY <1>2, <1>4, <1>19 DEF Outs
  <2>6. \A i, j \in 1..Len(ns) : ns[i].output = ns[j].output => i = j
    BY <1>15, <1>18, <2>3, <2>4, <2>5
  <2>7. Holds(stranded, F[NoOutput])
    <3>1. NoOutput \in Home /\ NoOutput # o /\ NoOutput # main
      BY <1>4, NoValues DEF Home
    <3> QED BY <1>1, <1>8, <3>1 DEF Sits
  <2> QED BY <2>1, <2>2, <2>3, <2>6, <2>7 DEF Sits
<1>21. Outs(ns) = all /\ MainOf(ns, primary) = main
  <2>1. \A j \in 1..Len(ns) : j \in 1..len \/ j = len + 1
    BY <1>3, <1>18
  <2>2. \A j \in 1..len : j \in 1..Len(ns) /\ len + 1 \in 1..Len(ns) /\ Len(ns) # 0
    BY <1>3, <1>18
  <2>3. ASSUME NEW x \in Outs(ns) PROVE x \in all
    <3>1. PICK j \in 1..Len(ns) : x = ns[j].output
      BY <2>3 DEF Outs
    <3>2. CASE j \in 1..len
      BY <1>2, <1>7, <1>19, <3>1, <3>2 DEF Outs
    <3>3. CASE j = len + 1
      BY <1>7, <1>15, <1>18, <3>1, <3>3
    <3> QED BY <2>1, <3>2, <3>3
  <2>4. ASSUME NEW x \in all PROVE x \in Outs(ns)
    <3>1. CASE x = o
      <4>1. ns[len + 1].output = x /\ len + 1 \in 1..Len(ns)
        BY <1>3, <1>15, <1>18, <3>1
      <4> QED BY <4>1 DEF Outs
    <3>2. CASE x \in conn
      <4>1. PICK j \in 1..len : x = monitors[j].output
        BY <1>2, <3>2 DEF Outs
      <4>2. ns[j].output = x /\ j \in 1..Len(ns)
        BY <1>19, <2>2, <4>1
      <4> QED BY <4>2 DEF Outs
    <3> QED BY <1>7, <2>4, <3>1, <3>2
  <2>5. MainOf(ns, primary) = main
    <3>1. MainOf(ns, primary) = ns[k].output
      BY <1>2, <1>3, <2>2 DEF MainOf
    <3> QED BY <1>2, <1>3, <1>4, <1>19, <3>1
  <2> QED BY <2>3, <2>4, <2>5
<1>22. PICK L : L = Connect(Outputs, o, eaf, b)
  OBVIOUS
<1>23. monitors' = ns /\ UNCHANGED <<primary, stranded>>
  <2>1. Outputs.monitors = monitors /\ Outputs.primary = k /\ Outputs.lastActive = lastActive
    BY <1>2 DEF Outputs
  <2>2. L = [Outputs EXCEPT
               !.monitors = Append([Outputs.monitors EXCEPT ![Outputs.primary] = WithoutThoseOf(m, o)], n),
               !.lastActive = last]
    BY <1>2, <1>10, <1>11, <1>14, <1>22, <2>1 DEF Connect
  <2>3. L = [Outputs EXCEPT !.monitors = ns, !.lastActive = last]
    BY <1>11, <1>16, <2>1, <2>2 DEF Exchanged
  <2>4. L.monitors = ns /\ L.primary = primary /\ L.stranded = stranded
    BY <2>3 DEF Outputs
  <2>5. monitors' = L.monitors /\ primary' = L.primary /\ stranded' = L.stranded
    BY <1>2, <1>9, <1>22 DEF AddOutput, SetOutputs
  <2> QED BY <2>4, <2>5
<1>24. UNCHANGED <<move, mapped>> /\ TakeIds
  BY DEF AddOutput
<1>25. World(F, nextId', h, a, all, main)
  <2>1. World(F, nextId + 2, h, a, all, main)
    BY <1>2, <1>8
  <2> QED BY <1>24, <2>1, IdsTaken
<1>26. World(F, nextId', Hands(move'), mapped', Outs(monitors'), MainOf(monitors', primary'))
  BY <1>2, <1>21, <1>23, <1>24, <1>25
<1>27. Sits(monitors', stranded', F)
  BY <1>20, <1>23
<1>28. DragFits(move', mapped')
  BY <1>24 DEF AllLaid
<1> QED BY <1>26, <1>27, <1>28 DEF AllLaid, Laid

\* The first output is connected.
LEMMA AddOutputFirstLays ==
  ASSUME IInv, AllLaid, NEW o \in Output, AddOutput(o), monitors = <<>>
  PROVE  AllLaid'
<1>1. PICK D : /\ World(D, nextId, Hands(move), mapped, Outs(monitors), MainOf(monitors, primary))
               /\ Sits(monitors, stranded, D)
  BY DEF AllLaid, Laid
<1>2. PICK h, a, main, b, C : /\ h = Hands(move) /\ a = mapped /\ main = MainOf(monitors, primary)
                              /\ b = nextId /\ C = D[NoOutput]
  OBVIOUS
<1>3. /\ b \in Id /\ Len(monitors) = 0 /\ NoOutput \in Home /\ stranded \in Seq(Workspace)
      /\ \A j \in 1..Len(stranded) : HasWindowsOrName(stranded[j])
  BY <1>2, Around DEF IInv, Parked, Home
<1>4. Outs(monitors) = {}
  BY <1>3 DEF Outs
<1>5. World(D, b, h, a, {}, main) /\ Holds(stranded, C)
  BY <1>1, <1>2, <1>4 DEF Sits
<1>6. PICK F : World(F, b + 2, h, a, {o}, o) /\ F[o] = Plus2(D[NoOutput], o, b) /\ F[NoOutput] = {}
  <2>1. PICK F : World(F, b + 2, h, a, {o}, o) /\ AllGiven(D, F, o, b)
    BY <1>5, WorldTaken
  <2> QED BY <2>1 DEF AllGiven
<1>7. PICK eaf \in BOOLEAN : eaf = config[o]
  <2>1. config \in [Output -> BOOLEAN]
    BY ConfigsType DEF IInv, RestOK
  <2> QED BY <2>1
<1>8. PICK past, last : past = lastActive[o] /\ last = [lastActive EXCEPT ![o] = NoId]
  OBVIOUS
<1>9. PICK n : n = NewMonitor(o, stranded, past, eaf, b)
  OBVIOUS
<1>10. Holds(n.ws, F[o]) /\ n.output = o
  <2>1. Before(C, b)
    BY <1>2, <1>3, <1>5, WorldBefore
  <2>2. Holds(n.ws, Plus2(C, o, b))
    BY <1>3, <1>5, <1>9, <2>1, MadeHolds
  <2>3. n.output = o
    BY <1>3, <1>9, MonitorMade
  <2> QED BY <1>2, <1>6, <2>2, <2>3
<1>11. monitors' = <<n>> /\ primary' = 1 /\ stranded' = <<>>
  <2>1. PICK L : L = Connect(Outputs, o, eaf, b)
    OBVIOUS
  <2>2. L = [monitors |-> <<n>>, primary |-> 1, focused |-> 1, stranded |-> <<>>, lastActive |-> last]
    BY <1>8, <1>9, <2>1 DEF Connect, Outputs
  <2>3. monitors' = L.monitors /\ primary' = L.primary /\ stranded' = L.stranded
    BY <1>2, <1>7, <2>1 DEF AddOutput, SetOutputs
  <2> QED BY <2>2, <2>3
<1>12. PICK ns, st, pr : ns = <<n>> /\ st = <<>> /\ pr = 1
  OBVIOUS
<1>13. Len(ns) = 1 /\ ns[1] = n /\ \A j \in 1..Len(ns) : j = 1
  BY <1>12
<1>14. Sits(ns, st, F)
  <2>1. Holds(st, F[NoOutput])
    BY <1>6, <1>12 DEF Holds
  <2> QED BY <1>10, <1>13, <2>1 DEF Sits
<1>15. Outs(ns) = {o} /\ MainOf(ns, pr) = o
  BY <1>10, <1>12, <1>13 DEF Outs, MainOf
<1>16. UNCHANGED <<move, mapped>> /\ TakeIds
  BY DEF AddOutput
<1>17. World(F, nextId', h, a, {o}, o)
  <2>1. World(F, nextId + 2, h, a, {o}, o)
    BY <1>2, <1>6
  <2> QED BY <1>16, <2>1, IdsTaken
<1>18. World(F, nextId', Hands(move'), mapped', Outs(monitors'), MainOf(monitors', primary'))
  BY <1>2, <1>11, <1>12, <1>15, <1>16, <1>17
<1>19. Sits(monitors', stranded', F)
  BY <1>11, <1>12, <1>14
<1>20. DragFits(move', mapped')
  BY <1>16 DEF AllLaid
<1> QED BY <1>18, <1>19, <1>20 DEF AllLaid, Laid

-----------------------------------------------------------------------------
\* What an output leaves behind: the workspaces that are not blank.
LEMMA IntoHolds ==
  ASSUME NEW m, NEW C, Holds(m.ws, C), NEW t, t = IntoWorkspaces(m)
  PROVE  Holds(t, C)
<1>1. PICK s : s = m.ws
  OBVIOUS
<1>2. PICK K : K = {i \in 1..Len(s) : HasWindowsOrName(s[i])}
  OBVIOUS
<1>3. t = Keep(s, K)
  BY <1>1, <1>2 DEF IntoWorkspaces
<1>4. K \in SUBSET (1..Len(s)) /\ \A k \in K : s[k] \in C
  BY <1>1, <1>2 DEF Holds
<1>5. \A k \in (1..Len(s)) \ K : s[k] \in C => IsBlank(s[k])
  BY <1>2 DEF IsBlank
<1>6. C \in SUBSET C
  OBVIOUS
<1> QED BY <1>1, <1>3, <1>4, <1>5, <1>6, HoldsKept

\* Home p has what home o had, too.
GivenAway(D, F, o, p, X) == F[o] = {} /\ F[p] = X /\ \A q \in Home : q # o /\ q # p => F[q] = D[q]

\* The last output goes, and its workspaces are left over.
LEMMA WorldStranded ==
  ASSUME NEW D, NEW o \in Output, NEW b, NEW h, NEW a, NEW main, World(D, b, h, a, {o}, main),
         \A v \in D[NoOutput] : IsBlank(v), NEW main2
  PROVE  \E F : World(F, b, h, a, {}, main2) /\ GivenAway(D, F, o, NoOutput, D[o])
<1>1. o \in Home /\ NoOutput \in Home /\ o # NoOutput /\ Homes(D)
  BY NoValues DEF Home, World
<1>2. PICK C : C = D[o]
  OBVIOUS
<1>3. PICK F : F = [p \in Home |-> IF p = NoOutput THEN C ELSE {}]
  OBVIOUS
<1>4. Homes(F) /\ F[NoOutput] = C /\ \A p \in Home : p # NoOutput => F[p] = {}
  <2>1. C \in SUBSET Workspace
    BY <1>1, <1>2 DEF Homes
  <2> QED BY <1>1, <1>3, <2>1 DEF Homes
<1>5. \A p \in Home : p # NoOutput /\ p # o => D[p] = {}
  BY NoneElsewhere DEF Home
<1>6. World(F, b, h, a, {}, main2)
  <2>1. Housed(F, {}, main2)
    BY <1>4, NoValues DEF Housed, Home
  <2>2. \A p \in Home : \A v \in F[p] : \E q \in Home : v \in D[q]
    BY <1>1, <1>2, <1>4
  <2>3. \A p, q \in Home : \A v \in F[p] : v \in F[q] => p = q
    BY <1>4
  <2>4. \A p \in Home : \A v \in D[p] : IsBlank(v) \/ \E q \in Home : v \in F[q]
    BY <1>1, <1>2, <1>4, <1>5
  <2> QED BY <1>4, <2>1, <2>2, <2>3, <2>4, WorldDealt
<1>7. GivenAway(D, F, o, NoOutput, D[o])
  BY <1>1, <1>2, <1>4, <1>5 DEF GivenAway
<1> QED BY <1>6, <1>7

\* Another output goes, and the primary one takes its workspaces.
LEMMA WorldGathered ==
  ASSUME NEW D, NEW b, NEW h, NEW a, NEW conn, NEW main, World(D, b, h, a, conn, main),
         NEW o \in conn, o \in Output, NEW p \in conn, p \in Output, p # o, o # main => p = main
  PROVE  \E F : /\ World(F, b + 1, h, a, conn \ {o}, p)
                /\ GivenAway(D, F, o, p, Plus(D[p] \cup D[o], p, b))
<1>1. o \in Home /\ p \in Home /\ Homes(D)
  BY DEF Home, World
<1>2. PICK C, rest : C = D[p] \cup D[o] /\ rest = conn \ {o}
  OBVIOUS
<1>3. PICK F : F = [q \in Home |-> IF q = o THEN {} ELSE IF q = p THEN C ELSE D[q]]
  OBVIOUS
<1>4. Homes(F) /\ F[o] = {} /\ F[p] = C /\ \A q \in Home : q # o /\ q # p => F[q] = D[q]
  <2>1. C \in SUBSET Workspace
    BY <1>1, <1>2 DEF Homes
  <2> QED BY <1>1, <1>3, <2>1 DEF Homes
<1>5. World(F, b, h, a, rest, p)
  <2>1. Housed(F, rest, p)
    <3>1. SUFFICES ASSUME NEW q \in Output, NEW v \in F[q] PROVE q \in rest /\ Rightful(v.orig, q, rest, p)
      BY DEF Housed
    <3>2. q \in Home /\ q # o
      BY <1>4, <3>1 DEF Home
    <3>3. PICK r \in Output : r \in Home /\ v \in D[r] /\ (r = q \/ (r = o /\ q = p))
      BY <1>1, <1>2, <1>4, <3>1, <3>2
    <3>4. r \in conn /\ (v.orig = r \/ (r = main /\ v.orig \notin conn))
      BY <3>3 DEF World, Housed, Rightful
    <3> QED BY <1>2, <3>2, <3>3, <3>4 DEF Rightful
  <2>2. \A q \in Home : \A v \in F[q] : \E r \in Home : v \in D[r]
    BY <1>1, <1>2, <1>4
  <2>3. ASSUME NEW q \in Home, NEW r \in Home, NEW v \in F[q], v \in F[r] PROVE q = r
    <3>1. \A s, t \in Home : v \in D[s] /\ v \in D[t] => s = t
      BY DEF World, Single, Clash
    <3>2. ASSUME NEW s \in Home, v \in F[s] PROVE s # o /\ (v \in D[s] \/ (s = p /\ v \in D[o]))
      BY <1>1, <1>2, <1>4, <3>2
    <3> QED BY <1>1, <2>3, <3>1, <3>2
  <2>4. ASSUME NEW q \in Home, NEW v \in D[q] PROVE \E r \in Home : v \in F[r]
    BY <1>1, <1>2, <1>4, <2>4
  <2> QED BY <1>4, <2>1, <2>2, <2>3, <2>4, WorldDealt
<1>6. p \in rest
  BY <1>2
<1>7. PICK G : Turned(F, G, p, Plus(F[p], p, b)) /\ World(G, b + 1, h, a, rest, p)
  BY <1>5, <1>6, WorldGrownByOne
<1>8. GivenAway(D, G, o, p, Plus(D[p] \cup D[o], p, b))
  BY <1>1, <1>2, <1>4, <1>7 DEF Turned, GivenAway
<1> QED BY <1>2, <1>7, <1>8

\* The last output is disconnected.
LEMMA RemoveOutputLastLays ==
  ASSUME IInv, AllLaid, NEW o \in Output, RemoveOutput(o), Len(monitors) = 1
  PROVE  AllLaid'
<1>1. PICK D : /\ World(D, nextId, Hands(move), mapped, Outs(monitors), MainOf(monitors, primary))
               /\ Sits(monitors, stranded, D)
  BY DEF AllLaid, Laid
<1>2. PICK h, a, main, b, k, m : /\ h = Hands(move) /\ a = mapped /\ main = MainOf(monitors, primary)
                                 /\ b = nextId /\ k = MonitorOf(o) /\ m = monitors[k]
  OBVIOUS
<1>3. k \in 1..Len(monitors) /\ m.output = o /\ monitors \in Seq(Monitor)
  BY <1>2, MonitorThere DEF RemoveOutput, IInv, Stacks
<1>4. k = 1 /\ Outs(monitors) = {o} /\ stranded = <<>>
  BY <1>2, <1>3 DEF Outs, IInv, Parked
<1>5. World(D, b, h, a, {o}, main) /\ Holds(m.ws, D[o]) /\ \A v \in D[NoOutput] : IsBlank(v)
  BY <1>1, <1>2, <1>3, <1>4 DEF Sits, Holds
<1>6. PICK none, ns, st, pr : none = NoOutput /\ ns = <<>> /\ st = IntoWorkspaces(m) /\ pr = 0
  OBVIOUS
<1>7. PICK F : World(F, b, h, a, {}, none) /\ GivenAway(D, F, o, NoOutput, D[o])
  BY <1>5, WorldStranded
<1>8. Sits(ns, st, F)
  <2>1. PICK C : C = D[o]
    OBVIOUS
  <2>2. Holds(st, C)
    BY <1>5, <1>6, <2>1, IntoHolds
  <2>3. Holds(st, F[NoOutput])
    BY <1>7, <2>1, <2>2 DEF GivenAway
  <2> QED BY <1>6, <2>3 DEF Sits
<1>9. Outs(ns) = {} /\ MainOf(ns, pr) = none
  BY <1>6 DEF Outs, MainOf
<1>10. monitors' = ns /\ primary' = pr /\ stranded' = st
  <2>1. PICK L, rest, last : /\ L = Disconnect(Outputs, k, b) /\ rest = RemoveAt(monitors, k)
                             /\ last = [lastActive EXCEPT ![m.output] = m.ws[m.active].id]
    OBVIOUS
  <2>2. rest = <<>>
    <3>1. PICK ms : ms = monitors
      OBVIOUS
    <3>2. ms \in Seq(Monitor) /\ k \in 1..Len(ms) /\ Len(ms) = 1
      BY <1>3, <3>1
    <3>3. RemoveAt(ms, k) \in Seq(Monitor) /\ WithRemoved(RemoveAt(ms, k), ms, k)
      BY <3>2, Removed, Zenon
    <3> QED BY <2>1, <3>1, <3>2, <3>3, EmptySeq DEF WithRemoved
  <2>3. L = [monitors |-> <<>>, primary |-> 0, focused |-> 0, stranded |-> st, lastActive |-> last]
    BY <1>2, <1>6, <2>1, <2>2 DEF Disconnect, Outputs
  <2>4. monitors' = L.monitors /\ primary' = L.primary /\ stranded' = L.stranded
    BY <1>2, <2>1 DEF RemoveOutput, SetOutputs
  <2> QED BY <1>6, <2>3, <2>4
<1>11. UNCHANGED <<move, mapped>> /\ TakeIds
  BY DEF RemoveOutput
<1>12. World(F, nextId', h, a, {}, none)
  <2>1. World(F, nextId, h, a, {}, none)
    BY <1>2, <1>7
  <2> QED BY <1>11, <2>1, IdsTaken
<1>13. World(F, nextId', Hands(move'), mapped', Outs(monitors'), MainOf(monitors', primary'))
  BY <1>2, <1>9, <1>10, <1>11, <1>12
<1>14. Sits(monitors', stranded', F)
  BY <1>8, <1>10
<1>15. DragFits(move', mapped')
  BY <1>11 DEF AllLaid
<1> QED BY <1>13, <1>14, <1>15 DEF AllLaid, Laid

\* One output of several is disconnected.
LEMMA RemoveOutputMoreLays ==
  ASSUME IInv, AllLaid, NEW o \in Output, RemoveOutput(o), Len(monitors) # 1
  PROVE  AllLaid'
<1>1. PICK D : /\ World(D, nextId, Hands(move), mapped, Outs(monitors), MainOf(monitors, primary))
               /\ Sits(monitors, stranded, D)
  BY DEF AllLaid, Laid
<1>2. PICK h, a, conn, main, b, k, m, len :
        /\ h = Hands(move) /\ a = mapped /\ conn = Outs(monitors) /\ main = MainOf(monitors, primary)
        /\ b = nextId /\ k = MonitorOf(o) /\ m = monitors[k] /\ len = Len(monitors)
  OBVIOUS
<1>3. /\ k \in 1..len /\ m.output = o /\ monitors \in Seq(Monitor) /\ len \in Nat /\ len > 1 /\ b \in Id
      /\ primary \in 1..len /\ Len(monitors) # 0
  <2>1. k \in 1..len /\ m.output = o /\ monitors \in Seq(Monitor) /\ len \in Nat /\ b \in Id
    BY <1>2, MonitorThere, Around DEF RemoveOutput, IInv, Stacks
  <2>2. len > 1
    BY <1>2, <2>1
  <2> QED BY <1>2, <2>1, <2>2 DEF IInv, IndexFits
<1>4. main = monitors[primary].output /\ stranded = <<>>
  BY <1>2, <1>3 DEF MainOf, IInv, Parked
<1>5. World(D, b, h, a, conn, main) /\ o \in conn /\ Holds(m.ws, D[o])
  BY <1>1, <1>2, <1>3, LaidMonitor
<1>6. PICK rest, st : rest = RemoveAt(monitors, k) /\ st = IntoWorkspaces(m)
  OBVIOUS
<1>7. /\ rest \in Seq(Monitor) /\ Len(rest) = len - 1
      /\ \A j \in 1..(len - 1) : rest[j] = IF j < k THEN monitors[j] ELSE monitors[j + 1]
  <2>1. PICK ms : ms = monitors
    OBVIOUS
  <2>2. ms \in Seq(Monitor) /\ k \in 1..Len(ms) /\ Len(ms) = len
    BY <1>2, <1>3, <2>1
  <2>3. RemoveAt(ms, k) \in Seq(Monitor) /\ WithRemoved(RemoveAt(ms, k), ms, k)
    BY <2>2, Removed, Zenon
  <2> QED BY <1>6, <2>1, <2>2, <2>3 DEF WithRemoved
<1>8. PICK p : p = IndexWithout(primary, k)
  OBVIOUS
<1>9. p \in 1..(len - 1)
  BY <1>3, <1>8 DEF IndexWithout, MaxOf
<1>10. \A j \in 1..(len - 1) : \E i \in 1..len : i # k /\ rest[j] = monitors[i]
  <2>1. SUFFICES ASSUME NEW j \in 1..(len - 1) PROVE \E i \in 1..len : i # k /\ rest[j] = monitors[i]
    OBVIOUS
  <2>2. CASE j < k
    <3>1. j \in 1..len /\ j # k /\ rest[j] = monitors[j]
      BY <1>3, <1>7, <2>2
    <3> QED BY <3>1
  <2>3. CASE ~(j < k)
    <3>1. j + 1 \in 1..len /\ j + 1 # k /\ rest[j] = monitors[j + 1]
      BY <1>3, <1>7, <2>3
    <3> QED BY <3>1
  <2> QED BY <2>2, <2>3
<1>11. \A i \in 1..len : i # k => \E j \in 1..(len - 1) : rest[j] = monitors[i]
  <2>1. SUFFICES ASSUME NEW i \in 1..len, i # k PROVE \E j \in 1..(len - 1) : rest[j] = monitors[i]
    OBVIOUS
  <2>2. CASE i < k
    <3>1. i \in 1..(len - 1) /\ rest[i] = monitors[i]
      BY <1>3, <1>7, <2>2
    <3> QED BY <3>1
  <2>3. CASE ~(i < k)
    <3>1. PICK j : j = i - 1
      OBVIOUS
    <3>2. j \in 1..(len - 1) /\ ~(j < k) /\ j + 1 = i
      BY <1>3, <2>1, <2>3, <3>1
    <3>3. rest[j] = monitors[i]
      BY <1>7, <3>2
    <3> QED BY <3>2, <3>3
  <2> QED BY <2>2, <2>3
<1>12. \A i, j \in 1..len : monitors[i].output = monitors[j].output => i = j
  BY <1>1, <1>2 DEF Sits
<1>13. PICK r, q : r = rest[p] /\ q = r.output
  OBVIOUS
<1>14. /\ q \in Output /\ q \in conn /\ q \in Home /\ Holds(r.ws, D[q]) /\ Sound(r) /\ Formed(r)
       /\ Apart(D[q]) /\ q # o
  <2>1. PICK i \in 1..len : i # k /\ r = monitors[i]
    BY <1>9, <1>10, <1>13
  <2>2. /\ q \in Output /\ q \in conn /\ q \in Home /\ Holds(r.ws, D[q]) /\ Sound(r) /\ Formed(r)
        /\ Apart(D[q])
    BY <1>1, <1>2, <1>13, <2>1, LaidMonitor
  <2>3. q # o
    BY <1>2, <1>3, <1>12, <1>13, <2>1
  <2> QED BY <2>2, <2>3
<1>15. o # main => q = main
  <2>1. SUFFICES ASSUME o # main PROVE r = monitors[primary]
    BY <1>4, <1>13
  <2>2. primary # k
    BY <1>2, <1>3, <1>4, <2>1
  <2>3. CASE primary < k
    <3>1. p = primary
      BY <1>3, <1>8, <2>3 DEF IndexWithout
    <3> QED BY <1>7, <1>9, <1>13, <2>3, <3>1
  <2>4. CASE primary > k
    <3>1. p = primary - 1 /\ p + 1 = primary /\ ~(p < k)
      BY <1>3, <1>8, <2>4 DEF IndexWithout, MaxOf
    <3> QED BY <1>7, <1>9, <1>13, <3>1
  <2> QED BY <1>3, <2>2, <2>3, <2>4
<1>16. PICK X, left : X = Plus(D[q] \cup D[o], q, b) /\ left = conn \ {o}
  OBVIOUS
<1>17. PICK F : World(F, b + 1, h, a, left, q) /\ GivenAway(D, F, o, q, X)
  <2>1. PICK F : /\ World(F, b + 1, h, a, conn \ {o}, q)
                 /\ GivenAway(D, F, o, q, Plus(D[q] \cup D[o], q, b))
    BY <1>5, <1>14, <1>15, WorldGathered
  <2> QED BY <1>16, <2>1
<1>18. PICK n : n = AppendWorkspaces(r, st, b)
  OBVIOUS
<1>19. Sound(n) /\ SameOutput(r, n) /\ n \in Monitor /\ Holds(n.ws, X)
  <2>1. PICK s, K : s = m.ws /\ K = {i \in 1..Len(m.ws) : HasWindowsOrName(m.ws[i])}
    OBVIOUS
  <2>2. st = Keep(s, K)
    BY <1>6, <2>1 DEF IntoWorkspaces
  <2>3. s \in Seq(Workspace) /\ K \in SUBSET (1..Len(s)) /\ \A i \in K : HasWindowsOrName(s[i])
    BY <1>5, <2>1 DEF Holds
  <2>4. st \in Seq(Workspace) /\ \A i \in 1..Len(st) : HasWindowsOrName(st[i])
    BY <2>2, <2>3, NonBlankKept
  <2>5. Sound(n)
    BY <1>3, <1>14, <1>18, <2>4, WorkspacesAppended
  <2>6. SameOutput(r, n)
    BY <1>3, <1>14, <1>18, <2>4, WorkspacesAppended
  <2>7. PICK C, B : C = D[q] /\ B = D[o]
    OBVIOUS
  <2>8. Holds(st, B)
    BY <1>5, <1>6, <2>7, IntoHolds
  <2>9. \A v \in C, w \in B : v.id # w.id
    BY <1>3, <1>5, <1>14, <2>7 DEF World, Single, Clash, Home
  <2>10. Before(C \cup B, b)
    BY <1>5, <1>14, <2>7 DEF World, Homes, Known, Before, Home
  <2>11. Holds(n.ws, Plus(C \cup B, r.output, b))
    BY <1>3, <1>14, <1>18, <2>5, <2>7, <2>8, <2>9, <2>10, AppendedHolds
  <2>12. Holds(n.ws, X)
    BY <1>13, <1>16, <2>7, <2>11
  <2> QED BY <2>5, <2>6, <2>12 DEF Sound, Nearly, Ready, Formed
<1>20. PICK E : Turned(D, E, o, {})
  <2>1. Homes(D) /\ o \in Home
    BY <1>5 DEF World, Home
  <2> QED BY <2>1, CanTurn
<1>21. Sits(rest, stranded, E)
  <2>1. ASSUME NEW j \in 1..(len - 1) PROVE Holds(rest[j].ws, E[rest[j].output])
    <3>1. PICK i \in 1..len : i # k /\ rest[j] = monitors[i]
      BY <1>10
    <3>2. monitors[i].output \in Home /\ Holds(monitors[i].ws, D[monitors[i].output])
      BY <1>1, <1>2, LaidMonitor
    <3>3. monitors[i].output # o
      BY <1>2, <1>3, <1>12, <3>1
    <3> QED BY <1>20, <3>1, <3>2, <3>3 DEF Turned
  <2>2. ASSUME NEW i \in 1..(len - 1), NEW j \in 1..(len - 1), rest[i].output = rest[j].output PROVE i = j
    <3>1. PICK x, y : x = (IF i < k THEN i ELSE i + 1) /\ y = (IF j < k THEN j ELSE j + 1)
      OBVIOUS
    <3>2. rest[i] = monitors[x] /\ rest[j] = monitors[y]
      BY <1>7, <3>1
    <3>3. x \in 1..len /\ y \in 1..len /\ (x = y => i = j)
      BY <1>3, <3>1
    <3> QED BY <1>12, <2>2, <3>2, <3>3
  <2>3. Holds(stranded, E[NoOutput])
    <3>1. NoOutput \in Home /\ NoOutput # o
      BY NoValues DEF Home
    <3> QED BY <1>1, <1>20, <3>1 DEF Sits, Turned
  <2> QED BY <1>7, <2>1, <2>2, <2>3 DEF Sits
<1>22. PICK ns : ns = Exchanged(rest, p, n)
  OBVIOUS
<1>23. Placed(rest, p, n, ns, stranded, F)
  <2>1. Turned(E, F, q, X)
    <3>1. Homes(F)
      BY <1>17 DEF World
    <3> QED BY <1>14, <1>17, <1>20, <3>1 DEF Turned, GivenAway
  <2>2. p \in 1..Len(rest) /\ n.output = rest[p].output /\ Turned(E, F, rest[p].output, X)
    BY <1>7, <1>9, <1>13, <1>19, <2>1 DEF SameOutput
  <2> QED BY <1>7, <1>19, <1>21, <1>22, <2>2, OneSits
<1>24. Sits(ns, stranded, F) /\ SameOutputs(rest, ns)
  BY <1>23 DEF Placed
<1>25. Outs(rest) = left /\ MainOf(rest, p) = q /\ IndexFits(p, Len(rest))
  <2>1. ASSUME NEW x \in Outs(rest) PROVE x \in left
    <3>1. PICK j \in 1..(len - 1) : x = rest[j].output
      BY <1>7 DEF Outs
    <3>2. PICK i \in 1..len : i # k /\ rest[j] = monitors[i]
      BY <1>10
    <3>3. x # o
      BY <1>2, <1>3, <1>12, <3>1, <3>2
    <3> QED BY <1>2, <1>16, <3>1, <3>2, <3>3 DEF Outs
  <2>2. ASSUME NEW x \in left PROVE x \in Outs(rest)
    <3>1. PICK i \in 1..len : x = monitors[i].output
      BY <1>2, <1>16, <2>2 DEF Outs
    <3>2. i # k
      BY <1>2, <1>3, <1>16, <2>2, <3>1
    <3>3. PICK j \in 1..(len - 1) : rest[j] = monitors[i]
      BY <1>11, <3>2
    <3> QED BY <1>7, <3>1, <3>3 DEF Outs
  <2>3. MainOf(rest, p) = q /\ IndexFits(p, Len(rest))
    BY <1>3, <1>7, <1>9, <1>13 DEF MainOf, IndexFits
  <2> QED BY <2>1, <2>2, <2>3
<1>26. monitors' = ns /\ primary' = p /\ stranded' = stranded
  <2>1. PICK L, last, f : /\ L = Disconnect(Outputs, k, b) /\ f = IndexWithout(focused, k)
                          /\ last = [lastActive EXCEPT ![m.output] = m.ws[m.active].id]
    OBVIOUS
  <2>2. rest # <<>>
    BY <1>3, <1>7, EmptySeq
  <2>3. ns = [rest EXCEPT ![p] = AppendWorkspaces(rest[p], st, b)]
    BY <1>13, <1>18, <1>22 DEF Exchanged
  <2>4. L = [monitors |-> ns, primary |-> p, focused |-> f, stranded |-> <<>>, lastActive |-> last]
    <3>1. /\ Outputs.monitors = monitors /\ Outputs.primary = primary /\ Outputs.focused = focused
          /\ Outputs.lastActive = lastActive
      BY DEF Outputs
    <3> QED BY <1>2, <1>6, <1>8, <2>1, <2>2, <2>3, <3>1 DEF Disconnect
  <2>5. monitors' = L.monitors /\ primary' = L.primary /\ stranded' = L.stranded
    BY <1>2, <2>1 DEF RemoveOutput, SetOutputs
  <2> QED BY <1>4, <2>4, <2>5
<1>27. UNCHANGED <<move, mapped>> /\ TakeIds
  BY DEF RemoveOutput
<1>28. World(F, nextId', h, a, left, q)
  <2>1. World(F, nextId + 1, h, a, left, q)
    BY <1>2, <1>17
  <2> QED BY <1>27, <2>1, IdsTaken
<1>29. World(F, nextId', h, a, Outs(ns), MainOf(ns, p))
  <2>1. World(F, nextId', h, a, Outs(rest), MainOf(rest, p))
    BY <1>25, <1>28
  <2>2. PICK c : c = nextId'
    OBVIOUS
  <2>3. World(F, c, h, a, Outs(ns), MainOf(ns, p))
    BY <1>24, <1>25, <2>1, <2>2, WorldSame
  <2> QED BY <2>2, <2>3
<1>30. World(F, nextId', Hands(move'), mapped', Outs(monitors'), MainOf(monitors', primary'))
  BY <1>2, <1>26, <1>27, <1>29
<1>31. Sits(monitors', stranded', F)
  BY <1>24, <1>26
<1>32. DragFits(move', mapped')
  BY <1>27 DEF AllLaid
<1> QED BY <1>30, <1>31, <1>32 DEF AllLaid, Laid

-----------------------------------------------------------------------------
\* The layout is created without an output, a workspace or a window
\* (Layout::with_options).
LEMMA InitAllLaid ==
  ASSUME Init
  PROVE  AllLaid
<1>1. PICK D : D = [o \in Home |-> {}]
  OBVIOUS
<1>2. D \in [Home -> SUBSET Workspace] /\ \A o \in Home : D[o] = {}
  BY <1>1
<1>3. Len(monitors) = 0 /\ stranded = <<>> /\ nextId = 1 /\ mapped = {} /\ move = NotMoving
  BY DEF Init
<1>4. Hands(move) = {} /\ DragFits(move, mapped)
  BY <1>3 DEF Hands, DragFits, NotMoving
<1>5. Homes(D) /\ Single(D)
  BY <1>2 DEF Homes, Single
<1>6. Known(D, nextId, Hands(move), mapped)
  BY <1>2, <1>3, <1>4 DEF Known
<1>7. Housed(D, Outs(monitors), MainOf(monitors, primary))
  BY <1>2 DEF Housed, Home
<1>8. World(D, nextId, Hands(move), mapped, Outs(monitors), MainOf(monitors, primary))
  BY <1>3, <1>5, <1>6, <1>7 DEF World, Id
<1>9. Holds(stranded, D[NoOutput])
  <2>1. D[NoOutput] = {}
    BY <1>2 DEF Home
  <2>2. stranded \in Seq(Workspace) /\ Len(stranded) = 0
    BY <1>3
  <2> QED BY <2>1, <2>2 DEF Holds
<1>10. Sits(monitors, stranded, D)
  BY <1>3, <1>9 DEF Sits
<1> QED BY <1>4, <1>8, <1>10 DEF AllLaid, Laid

\* The start of a swipe leaves as many monitors as there were
\* (Layout::workspace_switch_gesture_begin).
LEMMA SwipeBeginLaysAll ==
  ASSUME IInv, AllLaid, NEW k \in 1..Len(monitors), NEW f, SwipeBegin(k, f)
  PROVE  AllLaid'
<1>1. PICK ms : ms = monitors'
  OBVIOUS
<1>2. IInv'
  BY SwipeBeginKeeps
<1>3. Stacks(ms)
  BY <1>1, <1>2 DEF IInv
<1>4. ms \in Seq(Monitor) /\ monitors \in Seq(Monitor)
  BY <1>3 DEF IInv, Stacks
<1>5. DOMAIN ms = DOMAIN monitors
  BY <1>1 DEF SwipeBegin
<1>6. Len(ms) = Len(monitors)
  BY <1>4, <1>5
<1> QED BY <1>1, <1>3, <1>6, SwipeBeginLays

\* The calls about windows: Layout::add_window, remove_window, move_to_workspace,
\* move_to_output and those about columns.
LEMMA WindowNextLays ==
  ASSUME ~NameUnfocusedEdge, IInv, AllLaid, WindowNext
  PROVE  AllLaid'
<1>0. /\ DOMAIN monitors = 1..Len(monitors) /\ (monitors = <<>> <=> Len(monitors) = 0)
      /\ Stacks(monitors) /\ Len(monitors) \in Nat
      /\ \A k \in 1..Len(monitors) : DOMAIN monitors[k].ws = 1..Len(monitors[k].ws) /\ Len(monitors[k].ws) \in Nat
  BY Around DEF IInv
<1>1. ASSUME NEW p \in Places, NEW w \in WorkspaceAt(p).wins PROVE w \in Window
  <2>1. WorkspaceAt(p) \in Workspace
    BY PlaceThere
  <2>2. WorkspaceAt(p).wins \in SUBSET Window
    BY <2>1, WorkspaceFields
  <2> QED BY <2>2
<1>2. ASSUME NEW p \in Places, p = <<focused, monitors[focused].active>>
      PROVE  monitors # <<>> /\ DOMAIN monitors[focused].ws = 1..Len(monitors[focused].ws)
  <2>1. focused \in 1..Len(monitors)
    BY <1>2, PlaceThere
  <2> QED BY <1>0, <2>1
<1>3. CASE \E w \in Window, p \in Places, act \in BOOLEAN : AddWindow(w, p, act)
  BY <1>3, AddWindowLays
<1>4. CASE \E w \in Window, i \in DOMAIN StrandedOrNew : AddWindowStranded(w, i)
  BY <1>4, AddWindowStrandedLays
<1>5. CASE \E w \in Window, f \in Landings : RemoveWindow(w, f)
  BY <1>5, RemoveWindowLays
<1>6. ASSUME NEW p \in Places, NEW act \in BOOLEAN, NEW w \in WorkspaceAt(p).wins,
             NEW i \in DOMAIN monitors[p[1]].ws, MoveToWorkspace(w, p, i, act)
      PROVE  AllLaid'
  <2>1. w \in Window /\ i \in 1..Len(monitors[p[1]].ws)
    BY <1>0, <1>1, PlaceThere
  <2> QED BY <1>6, <2>1, MoveToWorkspaceLays
<1>7. ASSUME NEW p \in Places, NEW act \in BOOLEAN, NEW w \in WorkspaceAt(p).wins,
             NEW q \in Places, MoveToOutput(w, p, q[1], q[2], act)
      PROVE  AllLaid'
  BY <1>1, <1>7, MoveToOutputLays
<1>8. ASSUME NEW p \in Places, NEW act \in BOOLEAN, p = <<focused, monitors[focused].active>>,
             NEW wins, NEW i \in DOMAIN monitors[focused].ws, MoveColumnToWorkspace(wins, i, act)
      PROVE  AllLaid'
  BY <1>2, <1>8, MoveColumnToWorkspaceLays
<1>9. ASSUME NEW p \in Places, NEW act \in BOOLEAN, p = <<focused, monitors[focused].active>>,
             NEW wins, NEW q \in Places, MoveColumnToOutput(wins, q[1], q[2], act)
      PROVE  AllLaid'
  BY <1>2, <1>9, MoveColumnToOutputLays
<1> QED BY <1>3, <1>4, <1>5, <1>6, <1>7, <1>8, <1>9 DEF WindowNext

\* The calls about workspaces: moves, names, outputs and a new configuration.
LEMMA WorkspaceNextLays ==
  ASSUME ~NameUnfocusedEdge, IInv, AllLaid, WorkspaceNext
  PROVE  AllLaid'
<1>0. /\ DOMAIN monitors = 1..Len(monitors)
      /\ \A k \in 1..Len(monitors) : DOMAIN monitors[k].ws = 1..Len(monitors[k].ws)
  BY Around DEF IInv
<1>1. CASE monitors # <<>> /\ (MoveActiveWorkspaceDown \/ MoveActiveWorkspaceUp)
  BY <1>1, MoveActiveWorkspaceLays
<1>2. ASSUME NEW p \in Places, NEW i \in DOMAIN monitors[p[1]].ws, MoveWorkspaceTo(p, i) PROVE AllLaid'
  <2>1. i \in 1..Len(monitors[p[1]].ws)
    BY <1>0, PlaceThere
  <2> QED BY <1>2, <2>1, MoveWorkspaceToLays
<1>3. ASSUME NEW p \in Places, NEW k \in DOMAIN monitors, MoveWorkspaceToOutput(p, k) PROVE AllLaid'
  <2>1. CASE k = p[1]
    BY <1>3, <2>1, OwnedInPlaceLays
  <2>2. CASE k # p[1]
    BY <1>0, <1>3, <2>2, HandedOverLays
  <2> QED BY <2>1, <2>2
<1>4. ASSUME NEW n \in Name, NEW p \in Places, SetWorkspaceName(n, p) PROVE AllLaid'
  BY <1>4, SetWorkspaceNameLays
<1>5. ASSUME NEW n \in Name, NEW i \in DOMAIN stranded, SetStrandedName(n, i) PROVE AllLaid'
  BY <1>5, SetStrandedNameLays
<1>6. ASSUME NEW p \in Places, UnsetWorkspaceName(p) PROVE AllLaid'
  BY <1>6, UnsetWorkspaceNameLays
<1>7. ASSUME NEW i \in DOMAIN stranded, UnsetStrandedName(i) PROVE AllLaid'
  BY <1>7, UnsetStrandedNameLays
<1>8. ASSUME NEW n \in Name, NEW o \in Output \cup {NoOutput}, EnsureNamedWorkspace(n, o) PROVE AllLaid'
  BY <1>8, EnsuredOnMonitorLays, EnsuredStrandedLays
<1>9. ASSUME NEW c \in Configs, ReloadConfig(c) PROVE AllLaid'
  BY <1>9, ReloadConfigLays
<1> QED BY <1>1, <1>2, <1>3, <1>4, <1>5, <1>6, <1>7, <1>8, <1>9 DEF WorkspaceNext

\* Gestures, drags and drops, and windows that are moved by hand.
LEMMA DragNextLays ==
  ASSUME ~NameUnfocusedEdge, IInv, AllLaid, DragNext
  PROVE  AllLaid'
<1>0. DOMAIN monitors = 1..Len(monitors) /\ (monitors = <<>> <=> Len(monitors) = 0)
  BY Around DEF IInv
<1>1. ASSUME NEW k \in DOMAIN monitors, NEW f, SwipeBegin(k, f) PROVE AllLaid'
  BY <1>0, <1>1, SwipeBeginLaysAll
<1>2. ASSUME NEW k \in DOMAIN monitors, NEW i \in 0..Len(monitors[k].ws), GestureUpdate(k, i) PROVE AllLaid'
  <2>1. k \in 1..Len(monitors) /\ i \in Nat
    BY <1>0
  <2> QED BY <1>2, <2>1, GestureUpdateLays
<1>3. ASSUME NEW k \in DOMAIN monitors, SwipeEnd(k) PROVE AllLaid'
  BY <1>0, <1>3, SwipeEndLays
<1>4. ASSUME DndBegin \/ \E f \in Landings : DndEnd(f) \/ InteractiveMoveCancel(f) PROVE AllLaid'
  BY <1>4, DragLays
<1>5. ASSUME NEW p \in Places, NEW f \in Landings, DndHold(p, f) PROVE AllLaid'
  BY <1>5, DndHoldLays
<1>6. ASSUME NEW w \in Window, NEW o \in Output,
             InteractiveMoveBegin(w) \/ InteractiveMoveStart(w, o) \/ InteractiveMoveTo(w, o)
      PROVE  AllLaid'
  BY <1>6, DragLays, InteractiveMoveStartLays, InteractiveMoveToLays
<1>7. ASSUME NEW w \in Window, NEW f \in Landings, NEW isNew \in BOOLEAN,
             NEW i \in UNION {1..(Len(monitors[k].ws) + 1) : k \in DOMAIN monitors},
             InteractiveMoveEnd(w, f, i, isNew)
      PROVE  AllLaid'
  <2>1. PICK k \in DOMAIN monitors : i \in 1..(Len(monitors[k].ws) + 1)
    OBVIOUS
  <2>2. i \in Nat
    BY <2>1
  <2>3. monitors # <<>>
    BY <2>1
  <2> QED BY <1>7, <2>2, <2>3, InteractiveMoveEndLays
<1>8. ASSUME NEW w \in Window, InteractiveMoveEndStranded(w) PROVE AllLaid'
  BY <1>8, DroppedStrandedLays
<1> QED BY <1>1, <1>2, <1>3, <1>4, <1>5, <1>6, <1>7, <1>8 DEF DragNext

\* No call loses a window or a workspace, or has it at two places.
LEMMA NextAllLaid ==
  ASSUME ~NameUnfocusedEdge, IInv, AllLaid, [Next]_vars
  PROVE  AllLaid'
<1>1. CASE UNCHANGED vars
  BY <1>1 DEF vars, AllLaid
<1>2. CASE HotplugNext
  BY <1>2, AddOutputMoreLays, AddOutputFirstLays, RemoveOutputLastLays, RemoveOutputMoreLays DEF HotplugNext
<1>3. CASE WindowNext
  BY <1>3, WindowNextLays
<1>4. CASE WorkspaceNext
  BY <1>4, WorkspaceNextLays
<1>5. CASE SwitchNext
  BY <1>5, SwitchLays
<1>6. CASE OverviewNext
  BY <1>6, OverviewLays
<1>7. CASE DragNext
  BY <1>7, DragNextLays
<1> QED BY <1>1, <1>2, <1>3, <1>4, <1>5, <1>6, <1>7 DEF Next

\* What AllLaid says of spots: the checks of Layout::verify_invariants.
LEMMA LaidIsNothingLost ==
  ASSUME IInv, AllLaid
  PROVE  NothingLost
<1>1. TypeOK
  BY IInvImplies
<1>2. OwnMonitor
  BY AllLaidOwn
<1>3. UniqueWorkspaces
  BY AllLaidUnique
<1>4. WindowsConserved
  BY AllLaidConserved
<1> QED BY <1>1, <1>2, <1>3, <1>4 DEF NothingLost, WorkspacesInPlace

-----------------------------------------------------------------------------
\* Those of C that originated on o.
From(C, o) == {v \in C : v.orig = o}

\* What an output leaves behind is what it has that is not blank.
LEMMA IntoFull ==
  ASSUME NEW m \in Monitor
  PROVE  IntoWorkspaces(m) = Only(m.ws, Full)
<1>1. {i \in 1..Len(m.ws) : HasWindowsOrName(m.ws[i])} = Where(m.ws, Full)
  BY MonitorFields DEF Where, Full
<1> QED BY <1>1 DEF IntoWorkspaces, Only

\* A selection from a selection, by what is selected.
LEMMA OnlyTwice ==
  ASSUME NEW S, NEW s \in Seq(S), NEW C, NEW t, t = Only(s, C), NEW B
  PROVE  Only(t, B) = Only(s, C \cap B)
<1>1. PICK K : K = Where(s, C)
  OBVIOUS
<1>2. IndicesTo(Len(s), K) /\ t = Keep(s, K)
  BY <1>1, WhereFacts DEF Only
<1>3. Only(t, B) = Keep(s, WhereOf(s, K, B))
  BY <1>2, KeptTwice
<1>4. WhereOf(s, K, B) = Where(s, C \cap B)
  BY <1>1 DEF WhereOf, Where
<1> QED BY <1>3, <1>4 DEF Only

\* A and B have the same of the elements of s.
Agree(s, A, B) == \A i \in 1..Len(s) : s[i] \in A <=> s[i] \in B

LEMMA AgreedOnly ==
  ASSUME NEW s, NEW A, NEW B, Agree(s, A, B)
  PROVE  Only(s, A) = Only(s, B)
<1>1. Where(s, A) = Where(s, B)
  BY DEF Agree, Where
<1> QED BY <1>1 DEF Only

\* The workspaces n has that are not blank are those of m that are in C.
LEMMA SameByOnly ==
  ASSUME NEW m \in Monitor, m.active \in 1..Len(m.ws), NEW n \in Monitor,
         NEW G, NEW C, C = {v \in Full : v.orig \notin G},
         Only(n.ws, Full) = Only(m.ws, C),
         m.ws[m.active] \in C => n.ws[n.active].id = m.ws[m.active].id
  PROVE  SameWorkspaces(m, n, G)
<1>1. PICK K : K = {i \in DOMAIN m.ws : HasWindowsOrName(m.ws[i]) /\ m.ws[i].orig \notin G}
  OBVIOUS
<1>2. K = Where(m.ws, C)
  <2>1. DOMAIN m.ws = 1..Len(m.ws) /\ \A i \in 1..Len(m.ws) : m.ws[i] \in Workspace
    BY MonitorFields
  <2> QED BY <1>1, <2>1 DEF Where, Full
<1>3. IntoWorkspaces(n) = Keep(m.ws, K)
  BY <1>2, IntoFull DEF Only
<1>4. m.active \in K => m.ws[m.active] \in C
  BY <1>2 DEF Where
<1> QED BY <1>1, <1>3, <1>4 DEF SameWorkspaces

\* The index of an output, when no other monitor is that output.
LEMMA IndexThere ==
  ASSUME NEW L, NEW o, NEW j \in DOMAIN L.monitors, L.monitors[j].output = o,
         \A i \in DOMAIN L.monitors : L.monitors[i].output = o => i = j
  PROVE  IndexIn(L, o) = j
  BY DEF IndexIn

\* What Connect makes of monitors ms with primary k: r is what it leaves of the
\* primary one and n the monitor of output o, which showed workspace `last`.
Regained(R, ms, k, o, last, r, n) ==
  /\ R.monitors \in Seq(Monitor) /\ Len(R.monitors) = Len(ms) + 1
  /\ R.monitors[Len(ms) + 1] = n /\ R.monitors[k] = r
  /\ \A j \in 1..Len(ms) : j # k => R.monitors[j] = ms[j]
  /\ Sound(r) /\ SameOutput(ms[k], r) /\ Without(ms[k], o, r)
  /\ Sound(n) /\ n.output = o /\ Brings(n, Only(ms[k].ws, From(Full, o)), last)

LEMMA ConnectRegains ==
  ASSUME NEW ms \in Seq(Monitor), NEW k \in 1..Len(ms), Sound(ms[k]),
         NEW o \in Output, o # ms[k].output, NEW f, NEW st, NEW la, NEW eaf \in BOOLEAN, NEW id \in Id,
         NEW L, L = [monitors |-> ms, primary |-> k, focused |-> f, stranded |-> st, lastActive |-> la],
         NEW R, R = Connect(L, o, eaf, id)
  PROVE  \E r, n : Regained(R, ms, k, o, la[o], r, n)
<1>1. PICK m, len : m = ms[k] /\ len = Len(ms)
  OBVIOUS
<1>2. m \in Monitor /\ m.ws \in Seq(Workspace) /\ DOMAIN m.ws = 1..Len(m.ws) /\ len \in Nat /\ len # 0
  BY <1>1, MonitorFields
<1>3. PICK r : r = WithoutThoseOf(m, o)
  OBVIOUS
<1>4. Sound(r) /\ SameOutput(m, r) /\ Without(m, o, r)
  BY <1>1, <1>3, WithoutTaken
<1>5. PICK K, back : /\ K = {i \in DOMAIN m.ws : m.ws[i].orig = o /\ HasWindowsOrName(m.ws[i])}
                     /\ back = Keep(m.ws, K)
  OBVIOUS
<1>6. back = Only(m.ws, From(Full, o))
  <2>1. PICK s : s = m.ws
    OBVIOUS
  <2>2. s \in Seq(Workspace) /\ \A i \in 1..Len(s) : s[i] \in Workspace
    BY <1>2, <2>1
  <2>3. K = Where(s, From(Full, o))
    BY <1>2, <1>5, <2>1, <2>2 DEF Where, From, Full
  <2> QED BY <1>5, <2>1, <2>3 DEF Only
<1>7. back \in Seq(Workspace) /\ \A i \in 1..Len(back) : HasWindowsOrName(back[i])
  <2>1. PICK s : s = m.ws
    OBVIOUS
  <2>2. s \in Seq(Workspace) /\ K \in SUBSET (1..Len(s)) /\ \A i \in K : HasWindowsOrName(s[i])
    BY <1>2, <1>5, <2>1
  <2> QED BY <1>5, <2>1, <2>2, NonBlankKept
<1>8. PICK last, n : last = la[o] /\ n = NewMonitor(o, back, last, eaf, id)
  OBVIOUS
<1>9. Sound(n) /\ n.output = o /\ Brings(n, back, last)
  BY <1>7, <1>8, MonitorMade
<1>10. r \in Monitor /\ n \in Monitor
  BY <1>4, <1>9 DEF Sound, Nearly, Ready, Formed
<1>11. PICK rs, ns : rs = Exchanged(ms, k, r) /\ ns = Append(rs, n)
  OBVIOUS
<1>12. /\ rs \in Seq(Monitor) /\ Len(rs) = len /\ rs[k] = r
       /\ \A j \in 1..len : j # k => rs[j] = ms[j]
  BY <1>1, <1>10, <1>11 DEF Exchanged
<1>13. ns \in Seq(Monitor) /\ Len(ns) = len + 1 /\ ns[len + 1] = n /\ \A j \in 1..len : ns[j] = rs[j]
  BY <1>2, <1>10, <1>11, <1>12
<1>14. R.monitors = ns
  <2>1. L.monitors = ms /\ L.primary = k /\ L.lastActive = la /\ L.monitors # <<>>
    BY <1>1, <1>2
  <2>2. PICK x : x = [la EXCEPT ![o] = NoId]
    OBVIOUS
  <2>3. R = [L EXCEPT !.monitors = Append([ms EXCEPT ![k] = r], n), !.lastActive = x]
    BY <1>1, <1>3, <1>5, <1>8, <2>1, <2>2 DEF Connect
  <2>4. R = [L EXCEPT !.monitors = ns, !.lastActive = x]
    BY <1>11, <2>3 DEF Exchanged
  <2> QED BY <2>4
<1>15. Regained(R, ms, k, o, last, r, n)
  BY <1>1, <1>4, <1>6, <1>9, <1>12, <1>13, <1>14 DEF Regained
<1> QED BY <1>8, <1>15

\* v is an element of s.
In(s, v) == \E i \in 1..Len(s) : s[i] = v

\* What is in a selection.
LEMMA OnlyIn ==
  ASSUME NEW S, NEW s \in Seq(S), NEW C, NEW v
  PROVE  In(Only(s, C), v) <=> v \in C /\ In(s, v)
<1>1. PICK t : t = Only(s, C)
  OBVIOUS
<1>2. /\ \A j \in 1..Len(t) : t[j] \in C /\ \E i \in 1..Len(s) : t[j] = s[i]
      /\ \A i \in 1..Len(s) : s[i] \in C => \E j \in 1..Len(t) : t[j] = s[i]
  BY <1>1, OnlyHas
<1>3. In(t, v) => v \in C /\ In(s, v)
  BY <1>2 DEF In
<1>4. v \in C /\ In(s, v) => In(t, v)
  BY <1>2 DEF In
<1> QED BY <1>1, <1>3, <1>4

\* What is not blank in t is what there is of C in s.
LEMMA FullIn ==
  ASSUME NEW s \in Seq(Workspace), NEW t \in Seq(Workspace), NEW C, Only(t, Full) = Only(s, C), NEW v
  PROVE  HasWindowsOrName(v) /\ In(t, v) <=> v \in C /\ In(s, v)
<1>1. In(Only(t, Full), v) <=> v \in Full /\ In(t, v)
  BY OnlyIn
<1>2. In(Only(s, C), v) <=> v \in C /\ In(s, v)
  BY OnlyIn
<1>3. In(t, v) => v \in Workspace
  BY DEF In
<1> QED BY <1>1, <1>2, <1>3 DEF Full

\* What NonBlank has.
LEMMA NonBlankHas ==
  ASSUME NEW L, L.stranded \in Seq(Workspace), L.monitors \in Seq(Monitor), NEW v
  PROVE  v \in NonBlank(L) <=> /\ HasWindowsOrName(v)
                               /\ In(L.stranded, v) \/ \E k \in 1..Len(L.monitors) : In(L.monitors[k].ws, v)
<1>1. PICK st, ms : st = L.stranded /\ ms = L.monitors
  OBVIOUS
<1>2. /\ DOMAIN st = 1..Len(st) /\ DOMAIN ms = 1..Len(ms)
      /\ \A k \in 1..Len(ms) : DOMAIN ms[k].ws = 1..Len(ms[k].ws)
  <2>1. st \in Seq(Workspace) /\ ms \in Seq(Monitor)
    BY <1>1
  <2>2. ASSUME NEW k \in 1..Len(ms) PROVE DOMAIN ms[k].ws = 1..Len(ms[k].ws)
    BY <2>1, MonitorFields
  <2> QED BY <2>1, <2>2
<1>3. v \in NonBlank(L) <=> /\ HasWindowsOrName(v)
                            /\ \/ v \in {st[i] : i \in 1..Len(st)}
                               \/ \E k \in 1..Len(ms) : v \in {ms[k].ws[i] : i \in 1..Len(ms[k].ws)}
  <2>1. PICK A, M : A = {st[i] : i \in 1..Len(st)} /\ M = {{ms[k].ws[i] : i \in 1..Len(ms[k].ws)} : k \in 1..Len(ms)}
    OBVIOUS
  <2>2. A = {st[i] : i \in DOMAIN st}
    BY <1>2, <2>1
  <2>3. M = {{ms[k].ws[i] : i \in DOMAIN ms[k].ws} : k \in DOMAIN ms}
    BY <1>2, <2>1
  <2>4. NonBlank(L) = {w \in A \cup UNION M : HasWindowsOrName(w)}
    BY <1>1, <2>2, <2>3 DEF NonBlank
  <2>5. v \in UNION M <=> \E k \in 1..Len(ms) : v \in {ms[k].ws[i] : i \in 1..Len(ms[k].ws)}
    BY <2>1
  <2> QED BY <2>1, <2>4, <2>5
<1>4. v \in {st[i] : i \in 1..Len(st)} <=> In(st, v)
  BY DEF In
<1>5. ASSUME NEW k \in 1..Len(ms)
      PROVE  v \in {ms[k].ws[i] : i \in 1..Len(ms[k].ws)} <=> In(ms[k].ws, v)
  BY DEF In
<1> QED BY <1>1, <1>3, <1>4, <1>5

\* What AddOutput and RemoveOutput find: the state as a record.
LEMMA OutputsAre ==
  Outputs = [monitors |-> monitors, primary |-> primary, focused |-> focused,
             stranded |-> stranded, lastActive |-> lastActive]
  BY DEF Outputs

\* What a new output leaves of the workspaces of the others (Layout::add_output).
LEMMA ConnectMoreKeeps ==
  ASSUME IInv, AllLaid, NEW o \in Output \ Connected, monitors # <<>>,
         NEW L, L = Connect(Outputs, o, config[o], nextId)
  PROVE  /\ NonBlank(L) = NonBlank(Outputs)
         /\ \A k \in DOMAIN monitors : SameWorkspaces(monitors[k], L.monitors[k], {o})
<1>1. PICK k, len : k = primary /\ len = Len(monitors)
  OBVIOUS
<1>2. /\ nextId \in Id /\ k \in 1..len /\ DOMAIN monitors = 1..len /\ len \in Nat
      /\ monitors \in Seq(Monitor) /\ Connected = Outs(monitors) /\ stranded = <<>>
      /\ \A j \in 1..len : Sound(monitors[j])
  BY <1>1, Around DEF IInv, Stacks, RestOK, Outs, Connected, Parked
<1>3. PICK m : m = monitors[k]
  OBVIOUS
<1>4. /\ m \in Monitor /\ Sound(m) /\ m.ws \in Seq(Workspace) /\ m.active \in 1..Len(m.ws)
      /\ o \in Output /\ o # m.output
      /\ \A j \in 1..len : monitors[j].output # o
  <2>1. \A j \in 1..len : monitors[j].output # o
    BY <1>1, <1>2 DEF Outs
  <2> QED BY <1>2, <1>3, <2>1, MonitorFields DEF Sound, Nearly, Ready, Formed
<1>5. PICK eaf \in BOOLEAN : eaf = config[o]
  <2>1. config \in [Output -> BOOLEAN]
    BY ConfigsType DEF IInv, RestOK
  <2> QED BY <1>4, <2>1
<1>6. L.stranded = stranded /\ \E r, n : Regained(L, monitors, k, o, lastActive[o], r, n)
  <2>1. PICK ms, id, O, la, f, st : /\ ms = monitors /\ id = nextId /\ O = Outputs /\ la = lastActive
                                    /\ f = focused /\ st = stranded
    OBVIOUS
  <2>2. O = [monitors |-> ms, primary |-> k, focused |-> f, stranded |-> st, lastActive |-> la]
    BY <1>1, <2>1, OutputsAre
  <2>3. /\ ms \in Seq(Monitor) /\ k \in 1..Len(ms) /\ Sound(ms[k]) /\ o \in Output
        /\ o # ms[k].output /\ id \in Id /\ L = Connect(O, o, eaf, id)
    BY <1>1, <1>2, <1>3, <1>4, <1>5, <2>1
  <2>4. \E r, n : Regained(L, ms, k, o, la[o], r, n)
    BY <2>2, <2>3, ConnectRegains, Zenon
  <2>5. L.stranded = stranded
    BY DEF Connect, Outputs
  <2> QED BY <2>1, <2>4, <2>5
<1>7. PICK r, n : Regained(L, monitors, k, o, lastActive[o], r, n)
  BY <1>6
<1>8. PICK ns : ns = L.monitors
  OBVIOUS
<1>9. /\ ns \in Seq(Monitor) /\ Len(ns) = len + 1 /\ ns[len + 1] = n /\ ns[k] = r
      /\ \A j \in 1..len : j # k => ns[j] = monitors[j]
  BY <1>1, <1>7, <1>8 DEF Regained
<1>10. /\ Sound(r) /\ SameOutput(m, r) /\ Without(m, o, r) /\ Sound(n) /\ n.output = o
       /\ Brings(n, Only(m.ws, From(Full, o)), lastActive[o])
  BY <1>3, <1>7 DEF Regained
<1>11. r \in Monitor /\ n \in Monitor /\ r.ws \in Seq(Workspace) /\ n.ws \in Seq(Workspace)
  <2>1. r \in Monitor /\ n \in Monitor
    BY <1>10 DEF Sound, Nearly, Ready, Formed
  <2> QED BY <2>1, MonitorFields
<1>12. Full \in SUBSET Full
  OBVIOUS
<1>13. Only(r.ws, Full) = Only(m.ws, NotOf(Full, o))
  BY <1>10, <1>12 DEF Without
<1>14. NonBlank(L) = NonBlank(Outputs)
  <2>1. PICK back : back = Only(m.ws, From(Full, o))
    OBVIOUS
  <2>2. back \in Seq(Workspace) /\ Only(n.ws, Full) = Only(back, Full)
    <3>1. back \in Seq(Workspace)
      BY <1>4, <2>1, OnlyHas
    <3> QED BY <1>10, <1>12, <2>1, <3>1 DEF Brings
  <2>3. ASSUME NEW v
        PROVE  /\ HasWindowsOrName(v) /\ In(r.ws, v) <=> v \in NotOf(Full, o) /\ In(m.ws, v)
               /\ HasWindowsOrName(v) /\ In(n.ws, v) <=> v \in From(Full, o) /\ In(m.ws, v)
    <3>1. HasWindowsOrName(v) /\ In(r.ws, v) <=> v \in NotOf(Full, o) /\ In(m.ws, v)
      BY <1>4, <1>11, <1>13, FullIn
    <3>2. HasWindowsOrName(v) /\ In(n.ws, v) <=> v \in Full /\ In(back, v)
      BY <1>11, <2>2, FullIn
    <3>3. In(back, v) <=> v \in From(Full, o) /\ In(m.ws, v)
      BY <1>4, <2>1, OnlyIn
    <3> QED BY <3>1, <3>2, <3>3 DEF From
  <2>4. \A v : In(m.ws, v) => v \in Workspace
    BY <1>4 DEF In
  <2>5. \A v : ~In(stranded, v)
    BY <1>2 DEF In
  <2>6. ASSUME NEW v
        PROVE  v \in NonBlank(Outputs) <=> /\ HasWindowsOrName(v)
                                           /\ \E j \in 1..len : In(monitors[j].ws, v)
    <3>1. PICK O : O = Outputs
      OBVIOUS
    <3>2. O.stranded = stranded /\ O.monitors = monitors
      BY <3>1, OutputsAre
    <3>3. v \in NonBlank(O) <=> /\ HasWindowsOrName(v)
                                /\ In(O.stranded, v) \/ \E j \in 1..Len(O.monitors) : In(O.monitors[j].ws, v)
      <4>1. O.stranded \in Seq(Workspace) /\ O.monitors \in Seq(Monitor)
        BY <1>2, <3>2
      <4> QED BY <4>1, NonBlankHas
    <3> QED BY <1>1, <2>5, <3>1, <3>2, <3>3
  <2>7. ASSUME NEW v
        PROVE  v \in NonBlank(L) <=> /\ HasWindowsOrName(v)
                                     /\ \E j \in 1..(len + 1) : In(ns[j].ws, v)
    <3>1. v \in NonBlank(L) <=> /\ HasWindowsOrName(v)
                                /\ In(L.stranded, v) \/ \E j \in 1..Len(L.monitors) : In(L.monitors[j].ws, v)
      <4>1. L.stranded \in Seq(Workspace) /\ L.monitors \in Seq(Monitor)
        BY <1>2, <1>6, <1>8, <1>9
      <4> QED BY <4>1, NonBlankHas
    <3> QED BY <1>6, <1>8, <1>9, <2>5, <3>1
  <2>8. ASSUME NEW v \in NonBlank(Outputs) PROVE v \in NonBlank(L)
    <3>1. HasWindowsOrName(v)
      BY <2>6
    <3>2. PICK j \in 1..len : In(monitors[j].ws, v)
      BY <2>6
    <3>3. CASE j # k
      <4>1. In(ns[j].ws, v) /\ j \in 1..(len + 1)
        BY <1>2, <1>9, <3>2, <3>3
      <4> QED BY <2>7, <3>1, <4>1
    <3>4. CASE j = k
      <4>1. v \in Full /\ In(m.ws, v)
        BY <1>3, <2>4, <3>1, <3>2, <3>4 DEF Full
      <4>2. In(r.ws, v) \/ In(n.ws, v)
        BY <2>3, <4>1 DEF NotOf, From
      <4>3. In(ns[k].ws, v) \/ In(ns[len + 1].ws, v)
        BY <1>9, <4>2
      <4>4. k \in 1..(len + 1) /\ len + 1 \in 1..(len + 1)
        BY <1>2
      <4> QED BY <2>7, <3>1, <4>3, <4>4
    <3> QED BY <3>3, <3>4
  <2>9. ASSUME NEW v \in NonBlank(L) PROVE v \in NonBlank(Outputs)
    <3>1. HasWindowsOrName(v)
      BY <2>7
    <3>2. PICK j \in 1..(len + 1) : In(ns[j].ws, v)
      BY <2>7
    <3>3. CASE j # k /\ j # len + 1
      <4>1. j \in 1..len /\ In(monitors[j].ws, v)
        BY <1>2, <1>9, <3>2, <3>3
      <4> QED BY <2>6, <3>1, <4>1
    <3>4. CASE j = k \/ j = len + 1
      <4>1. In(r.ws, v) \/ In(n.ws, v)
        BY <1>9, <3>2, <3>4
      <4>2. In(monitors[k].ws, v)
        BY <1>3, <2>3, <3>1, <4>1
      <4> QED BY <1>2, <2>6, <3>1, <4>2
    <3> QED BY <3>3, <3>4
  <2> QED BY <2>8, <2>9
<1>15. ASSUME NEW j \in 1..len PROVE SameWorkspaces(monitors[j], ns[j], {o})
  <2>1. PICK x, y, C, G : x = monitors[j] /\ y = ns[j] /\ C = {v \in Full : v.orig \notin G} /\ G = {o}
    OBVIOUS
  <2>2. x \in Monitor /\ x.active \in 1..Len(x.ws) /\ x.ws \in Seq(Workspace)
    BY <1>2, <2>1, MonitorFields DEF Sound, Nearly, Ready, Formed
  <2>3. C = NotOf(Full, o)
    BY <2>1 DEF NotOf
  <2>4. CASE j = k
    <3>1. x = m /\ y = r
      BY <1>3, <1>9, <2>1, <2>4
    <3>2. x.ws[x.active] \in C => ShowsAs(x, y) /\ HasWindowsOrName(x.ws[x.active])
      BY <1>10, <2>3, <3>1 DEF Without, NotOf, Full
    <3>3. x.ws[x.active] \in C => y.ws[y.active].id = x.ws[x.active].id
      BY <3>2 DEF ShowsAs
    <3>4. Only(y.ws, Full) = Only(x.ws, C) /\ y \in Monitor
      BY <1>11, <1>13, <2>3, <3>1
    <3>5. SameWorkspaces(x, y, G)
      BY <2>1, <2>2, <3>3, <3>4, SameByOnly
    <3> QED BY <2>1, <3>5
  <2>5. CASE j # k
    <3>1. y = x
      BY <1>9, <2>1, <2>5
    <3>2. \A i \in 1..Len(x.ws) : x.ws[i].orig # o
      <4>1. ASSUME NEW i \in 1..Len(x.ws) PROVE x.ws[i].orig # o
        <5>1. PICK p : p = <<j, i>>
          OBVIOUS
        <5>2. p \in Places /\ WorkspaceAt(p) = x.ws[i] /\ p[1] = j
          <6>1. DOMAIN x.ws = 1..Len(x.ws)
            BY <2>2
          <6> QED BY <1>2, <2>1, <5>1, <6>1 DEF Places, WorkspaceAt
        <5>3. x.ws[i].orig = x.output
          BY <1>1, <2>1, <2>5, <5>2, AllLaidOwn DEF OwnMonitor
        <5> QED BY <1>4, <2>1, <5>3
      <4> QED BY <4>1
    <3>3. Agree(x.ws, Full, C)
      BY <2>3, <3>2 DEF Agree, NotOf
    <3>4. Only(y.ws, Full) = Only(x.ws, C)
      BY <3>1, <3>3, AgreedOnly
    <3>5. SameWorkspaces(x, y, G)
      BY <2>1, <2>2, <3>1, <3>4, SameByOnly
    <3> QED BY <2>1, <3>5
  <2> QED BY <2>4, <2>5
<1> QED BY <1>2, <1>8, <1>14, <1>15

\* The first output brings the stranded workspaces.
LEMMA ConnectFirstKeeps ==
  ASSUME IInv, NEW o \in Output \ Connected, monitors = <<>>,
         NEW L, L = Connect(Outputs, o, config[o], nextId)
  PROVE  /\ NonBlank(L) = NonBlank(Outputs)
         /\ \A k \in DOMAIN monitors : SameWorkspaces(monitors[k], L.monitors[k], {o})
<1>1. /\ nextId \in Id /\ o \in Output /\ stranded \in Seq(Workspace)
      /\ \A i \in 1..Len(stranded) : HasWindowsOrName(stranded[i])
  BY Around DEF IInv, Parked
<1>2. PICK eaf \in BOOLEAN : eaf = config[o]
  <2>1. config \in [Output -> BOOLEAN]
    BY ConfigsType DEF IInv, RestOK
  <2> QED BY <1>1, <2>1
<1>3. PICK st, last, n : st = stranded /\ last = lastActive[o] /\ n = NewMonitor(o, st, last, eaf, nextId)
  OBVIOUS
<1>4. Sound(n) /\ Brings(n, st, last)
  <2>1. st \in Seq(Workspace) /\ \A i \in 1..Len(st) : HasWindowsOrName(st[i])
    BY <1>1, <1>3
  <2> QED BY <1>1, <1>3, <2>1, MonitorMade
<1>5. L.monitors = <<n>> /\ L.stranded = <<>>
  BY <1>2, <1>3 DEF Connect, Outputs
<1>6. n \in Monitor
  BY <1>4 DEF Sound, Nearly, Ready, Formed
<1>7. n.ws \in Seq(Workspace) /\ st \in Seq(Workspace) /\ Only(n.ws, Full) = Only(st, Full)
  BY <1>1, <1>3, <1>4, <1>6, MonitorFields DEF Brings
<1>8. ASSUME NEW v PROVE v \in NonBlank(L) <=> v \in NonBlank(Outputs)
  <2>1. v \in NonBlank(L) <=> HasWindowsOrName(v) /\ In(n.ws, v)
    <3>1. L.stranded \in Seq(Workspace) /\ L.monitors \in Seq(Monitor)
      BY <1>5, <1>6
    <3>2. v \in NonBlank(L) <=> /\ HasWindowsOrName(v)
                                /\ In(L.stranded, v) \/ \E j \in 1..Len(L.monitors) : In(L.monitors[j].ws, v)
      BY <3>1, NonBlankHas
    <3>3. ~In(L.stranded, v)
      BY <1>5 DEF In
    <3>4. Len(L.monitors) = 1 /\ L.monitors[1] = n /\ 1 \in 1..1 /\ \A j \in 1..1 : j = 1
      BY <1>5
    <3> QED BY <3>2, <3>3, <3>4
  <2>2. v \in NonBlank(Outputs) <=> HasWindowsOrName(v) /\ In(st, v)
    <3>1. PICK O : O = Outputs
      OBVIOUS
    <3>2. O.stranded = st /\ O.monitors = <<>>
      BY <1>3, <3>1, OutputsAre
    <3>3. O.stranded \in Seq(Workspace) /\ O.monitors \in Seq(Monitor)
      BY <1>7, <3>2
    <3>4. v \in NonBlank(O) <=> /\ HasWindowsOrName(v)
                                /\ In(O.stranded, v) \/ \E j \in 1..Len(O.monitors) : In(O.monitors[j].ws, v)
      BY <3>3, NonBlankHas
    <3>5. \A j \in 1..Len(O.monitors) : FALSE
      BY <3>2
    <3> QED BY <3>1, <3>2, <3>4, <3>5
  <2>3. HasWindowsOrName(v) /\ In(n.ws, v) <=> v \in Full /\ In(st, v)
    BY <1>7, FullIn
  <2>4. In(st, v) => v \in Workspace
    BY <1>7 DEF In
  <2> QED BY <2>1, <2>2, <2>3, <2>4 DEF Full
<1>9. NonBlank(L) = NonBlank(Outputs)
  <2>1. ASSUME NEW v \in NonBlank(L) PROVE v \in NonBlank(Outputs)
    BY <1>8
  <2>2. ASSUME NEW v \in NonBlank(Outputs) PROVE v \in NonBlank(L)
    BY <1>8
  <2> QED BY <2>1, <2>2
<1>10. \A k \in DOMAIN monitors : FALSE
  OBVIOUS
<1> QED BY <1>9, <1>10

\* A new output changes nothing for the workspaces that were never on it.
LEMMA LaidKeepsOthers ==
  ASSUME IInv, AllLaid
  PROVE  ConnectKeepsOthers
<1>1. ASSUME NEW o \in Output \ Connected, NEW L, L = Connect(Outputs, o, config[o], nextId)
      PROVE  /\ NonBlank(L) = NonBlank(Outputs)
             /\ \A k \in DOMAIN monitors : SameWorkspaces(monitors[k], L.monitors[k], {o})
  <2>1. CASE monitors = <<>>
    BY <1>1, <2>1, ConnectFirstKeeps
  <2>2. CASE monitors # <<>>
    BY <1>1, <2>2, ConnectMoreKeeps
  <2> QED BY <2>1, <2>2
<1> QED BY <1>1 DEF ConnectKeepsOthers

-----------------------------------------------------------------------------
\* An output that comes back with all it had.
LEMMA BroughtBack ==
  ASSUME NEW m \in Monitor, m.active \in 1..Len(m.ws), NEW n \in Monitor,
         NEW back, back = Only(m.ws, Full), NEW last, last = m.ws[m.active].id, Brings(n, back, last)
  PROVE  SameWorkspaces(m, n, {})
<1>1. m.ws \in Seq(Workspace) /\ Full \in SUBSET Full
  BY MonitorFields
<1>2. PICK G, C : G = {} /\ C = {v \in Full : v.orig \notin G}
  OBVIOUS
<1>3. C = Full /\ Full \cap Full = Full
  BY <1>2
<1>4. Only(n.ws, Full) = Only(m.ws, C)
  <2>1. Only(back, Full) = Only(m.ws, Full \cap Full)
    BY <1>1, OnlyTwice
  <2> QED BY <1>1, <1>3, <2>1 DEF Brings
<1>5. ASSUME m.ws[m.active] \in C PROVE n.ws[n.active].id = m.ws[m.active].id
  <2>1. In(m.ws, m.ws[m.active])
    BY DEF In
  <2>2. In(back, m.ws[m.active])
    BY <1>1, <1>3, <1>5, <2>1, OnlyIn
  <2>3. PICK i \in 1..Len(back) : back[i] = m.ws[m.active]
    BY <2>2 DEF In
  <2> QED BY <2>3 DEF Brings
<1>6. SameWorkspaces(m, n, G)
  BY <1>2, <1>4, <1>5, SameByOnly
<1> QED BY <1>2, <1>6

\* An output that has come and gone leaves another one as it was.
LEMMA SameAsItself ==
  ASSUME NEW m \in Monitor, m.active \in 1..Len(m.ws)
  PROVE  SameWorkspaces(m, m, {})
<1>1. PICK G, C : G = {} /\ C = {v \in Full : v.orig \notin G}
  OBVIOUS
<1>2. Only(m.ws, Full) = Only(m.ws, C)
  <2>1. C = Full
    BY <1>1
  <2> QED BY <2>1
<1>3. SameWorkspaces(m, m, G)
  BY <1>1, <1>2, SameByOnly
<1> QED BY <1>1, <1>3

\* Monitor k, which goes, and what it leaves behind.
LEMMA LeftBehind ==
  ASSUME IInv, NEW k \in 1..Len(monitors), NEW m, m = monitors[k], NEW lost, lost = IntoWorkspaces(m)
  PROVE  /\ Sound(m) /\ m \in Monitor /\ m.ws \in Seq(Workspace) /\ m.active \in 1..Len(m.ws)
         /\ m.output \in Output /\ m.ws[m.active].id \in Id
         /\ lost \in Seq(Workspace) /\ lost = Only(m.ws, Full)
         /\ \A i \in 1..Len(lost) : HasWindowsOrName(lost[i])
<1>1. Sound(m)
  BY Around DEF IInv
<1>2. /\ m \in Monitor /\ m.ws \in Seq(Workspace) /\ m.active \in 1..Len(m.ws)
      /\ m.output \in Output /\ m.ws[m.active].id \in Id
  BY <1>1, MonitorFields DEF Sound, Nearly, Ready, Formed
<1>3. lost = Only(m.ws, Full)
  BY <1>2, IntoFull
<1>4. lost \in Seq(Workspace) /\ \A j \in 1..Len(lost) : lost[j] \in Full
  <2>1. lost \in Seq(Workspace)
    BY <1>2, <1>3, OnlyHas
  <2>2. ASSUME NEW j \in 1..Len(lost) PROVE lost[j] \in Full
    <3>1. In(lost, lost[j])
      BY DEF In
    <3> QED BY <1>2, <1>3, <3>1, OnlyIn
  <2> QED BY <2>1, <2>2
<1> QED BY <1>1, <1>2, <1>3, <1>4 DEF Full

\* The only output leaves and comes back.
LEMMA ReplugLastKeeps ==
  ASSUME IInv, Len(monitors) = 1, NEW k \in 1..Len(monitors)
  PROVE  SameLayout(Outputs, Replugged(k))
<1>1. PICK m, o, lost, last, id, x : /\ m = monitors[k] /\ o = m.output /\ lost = IntoWorkspaces(m)
                                     /\ last = [lastActive EXCEPT ![o] = x] /\ id = nextId + IdsPerCall
                                     /\ x = m.ws[m.active].id
  OBVIOUS
<1>2. /\ Sound(m) /\ m \in Monitor /\ m.active \in 1..Len(m.ws) /\ o \in Output
      /\ lost \in Seq(Workspace) /\ lost = Only(m.ws, Full)
      /\ \A i \in 1..Len(lost) : HasWindowsOrName(lost[i])
  BY <1>1, LeftBehind
<1>3. /\ nextId \in Id /\ id \in Id /\ monitors \in Seq(Monitor) /\ k = 1
      /\ lastActive \in [Output -> Id \cup {NoId}]
  BY <1>1, Around DEF IInv, Stacks, RestOK, Id, IdsPerCall
<1>4. PICK eaf \in BOOLEAN : eaf = config[o]
  <2>1. config \in [Output -> BOOLEAN]
    BY ConfigsType DEF IInv, RestOK
  <2> QED BY <1>2, <2>1
<1>5. PICK L : L = Disconnect(Outputs, k, nextId)
  OBVIOUS
<1>6. L = [monitors |-> <<>>, primary |-> 0, focused |-> 0, stranded |-> lost, lastActive |-> last]
  <2>1. RemoveAt(monitors, k) = <<>>
    <3>1. PICK ms : ms = monitors
      OBVIOUS
    <3>2. ms \in Seq(Monitor) /\ k \in 1..Len(ms) /\ Len(ms) = 1
      BY <1>3, <3>1
    <3>3. RemoveAt(ms, k) \in Seq(Monitor) /\ WithRemoved(RemoveAt(ms, k), ms, k)
      BY <3>2, Removed, Zenon
    <3>4. Len(RemoveAt(ms, k)) = 0
      BY <3>2, <3>3 DEF WithRemoved
    <3> QED BY <3>1, <3>3, <3>4, EmptySeq
  <2>2. Outputs.monitors = monitors /\ Outputs.lastActive = lastActive
    BY OutputsAre
  <2> QED BY <1>1, <1>5, <2>1, <2>2 DEF Disconnect
<1>7. PICK R : R = Replugged(k)
  OBVIOUS
<1>8. PICK n : n = NewMonitor(o, lost, x, eaf, id)
  OBVIOUS
<1>9. R.monitors = <<n>>
  <2>1. R = Connect(L, o, eaf, id)
    BY <1>1, <1>4, <1>5, <1>7 DEF Replugged
  <2>2. last[o] = x
    BY <1>1, <1>2, <1>3
  <2> QED BY <1>6, <1>8, <2>1, <2>2 DEF Connect
<1>10. Sound(n) /\ n.output = o /\ Brings(n, lost, x)
  BY <1>2, <1>3, <1>8, MonitorMade
<1>11. SameWorkspaces(m, n, {})
  <2>1. n \in Monitor
    BY <1>10 DEF Sound, Nearly, Ready, Formed
  <2> QED BY <1>1, <1>2, <1>10, <2>1, BroughtBack
<1>12. IndexIn(R, o) = 1 /\ R.monitors[1] = n
  <2>1. 1 \in DOMAIN R.monitors /\ R.monitors[1] = n /\ \A i \in DOMAIN R.monitors : i = 1
    BY <1>9
  <2>2. IndexIn(R, o) = 1
    BY <1>10, <2>1 DEF IndexIn
  <2> QED BY <2>1, <2>2
<1>13. Outputs.monitors = monitors /\ DOMAIN monitors = 1..1
  BY <1>3, OutputsAre
<1>14. \A j \in 1..1 : j = k
  BY <1>3
<1> QED BY <1>1, <1>7, <1>11, <1>12, <1>13, <1>14 DEF SameLayout

\* One of several outputs leaves and comes back.
LEMMA ReplugMoreKeeps ==
  ASSUME IInv, AllLaid, Len(monitors) # 1, NEW k \in 1..Len(monitors), AllOwn(k)
  PROVE  SameLayout(Outputs, Replugged(k))
<1>1. PICK m, o, lost, last, id, x, len : /\ m = monitors[k] /\ o = m.output /\ lost = IntoWorkspaces(m)
                                          /\ last = [lastActive EXCEPT ![o] = x] /\ id = nextId + IdsPerCall
                                          /\ x = m.ws[m.active].id /\ len = Len(monitors)
  OBVIOUS
<1>2. /\ Sound(m) /\ m \in Monitor /\ m.ws \in Seq(Workspace) /\ m.active \in 1..Len(m.ws) /\ o \in Output
      /\ lost \in Seq(Workspace) /\ lost = Only(m.ws, Full)
      /\ \A i \in 1..Len(lost) : HasWindowsOrName(lost[i])
  BY <1>1, LeftBehind
<1>3. /\ nextId \in Id /\ id \in Id /\ monitors \in Seq(Monitor) /\ len \in Nat /\ len > 1
      /\ k \in 1..len /\ primary \in 1..len /\ DOMAIN monitors = 1..len
      /\ lastActive \in [Output -> Id \cup {NoId}]
      /\ \A j \in 1..len : Sound(monitors[j])
  BY <1>1, Around DEF IInv, Stacks, RestOK, Id, IdsPerCall
<1>4. PICK eaf \in BOOLEAN : eaf = config[o]
  <2>1. config \in [Output -> BOOLEAN]
    BY ConfigsType DEF IInv, RestOK
  <2> QED BY <1>2, <2>1
<1>5. \A i, j \in 1..len : monitors[i].output = monitors[j].output => i = j
  <2>1. PICK D : Sits(monitors, stranded, D)
    BY DEF AllLaid, Laid
  <2> QED BY <1>1, <2>1 DEF Sits
<1>6. ASSUME NEW j \in 1..len, j # k, NEW i \in 1..Len(monitors[j].ws) PROVE monitors[j].ws[i].orig # o
  <2>1. PICK p : p = <<j, i>>
    OBVIOUS
  <2>2. p \in Places /\ WorkspaceAt(p) = monitors[j].ws[i] /\ p[1] = j
    <3>1. monitors[j] \in Monitor
      BY <1>3
    <3>2. DOMAIN monitors[j].ws = 1..Len(monitors[j].ws)
      BY <3>1, MonitorFields
    <3> QED BY <1>3, <1>6, <2>1, <3>2 DEF Places, WorkspaceAt
  <2>3. monitors[j].output # o /\ o \in Connected
    BY <1>1, <1>3, <1>5, <1>6 DEF Connected
  <2> QED BY <2>2, <2>3, AllLaidOwn DEF OwnMonitor
<1>7. PICK rest, p : rest = RemoveAt(monitors, k) /\ p = IndexWithout(primary, k)
  OBVIOUS
<1>8. PICK back \in [1..(len - 1) -> 1..len] : back = [j \in 1..(len - 1) |-> IF j < k THEN j ELSE j + 1]
  <2>1. [j \in 1..(len - 1) |-> IF j < k THEN j ELSE j + 1] \in [1..(len - 1) -> 1..len]
    BY <1>3
  <2> QED BY <2>1
<1>9. /\ rest \in Seq(Monitor) /\ Len(rest) = len - 1 /\ rest # <<>>
      /\ \A j \in 1..(len - 1) : rest[j] = monitors[back[j]] /\ back[j] \in 1..len /\ back[j] # k
  <2>1. PICK ms : ms = monitors
    OBVIOUS
  <2>2. ms \in Seq(Monitor) /\ k \in 1..Len(ms) /\ Len(ms) = len
    BY <1>1, <1>3, <2>1
  <2>3. RemoveAt(ms, k) \in Seq(Monitor) /\ WithRemoved(RemoveAt(ms, k), ms, k)
    BY <2>2, Removed, Zenon
  <2>4. rest \in Seq(Monitor) /\ Len(rest) = len - 1
    BY <1>7, <2>1, <2>2, <2>3 DEF WithRemoved
  <2>5. ASSUME NEW j \in 1..(len - 1) PROVE rest[j] = monitors[back[j]] /\ back[j] \in 1..len /\ back[j] # k
    <3>1. rest[j] = IF j < k THEN ms[j] ELSE ms[j + 1]
      BY <1>7, <2>1, <2>2, <2>3 DEF WithRemoved
    <3>2. back[j] = IF j < k THEN j ELSE j + 1
      BY <1>8
    <3> QED BY <1>3, <2>1, <3>1, <3>2
  <2>6. rest # <<>>
    BY <1>3, <2>4
  <2> QED BY <2>4, <2>5, <2>6
<1>10. ASSUME NEW j \in 1..len, j # k PROVE \E i \in 1..(len - 1) : back[i] = j
  <2>1. CASE j < k
    <3>1. j \in 1..(len - 1) /\ back[j] = j
      BY <1>3, <1>8, <2>1
    <3> QED BY <3>1
  <2>2. CASE ~(j < k)
    <3>1. PICK i : i = j - 1
      OBVIOUS
    <3>2. i \in 1..(len - 1) /\ ~(i < k) /\ i + 1 = j
      BY <1>3, <1>10, <2>2, <3>1
    <3>3. back[i] = j
      BY <1>8, <3>2
    <3> QED BY <3>2, <3>3
  <2> QED BY <2>1, <2>2
<1>11. \A i, j \in 1..(len - 1) : back[i] = back[j] => i = j
  BY <1>3, <1>8
<1>12. p \in 1..(len - 1)
  BY <1>3, <1>7 DEF IndexWithout, MaxOf
<1>13. PICK q, t : q = rest[p] /\ t = AppendWorkspaces(q, lost, nextId)
  OBVIOUS
<1>14. /\ Sound(q) /\ q \in Monitor /\ q.ws \in Seq(Workspace) /\ q.active \in 1..Len(q.ws)
       /\ q.output # o /\ \A i \in 1..Len(q.ws) : q.ws[i].orig # o
  <2>1. q = monitors[back[p]] /\ back[p] \in 1..len /\ back[p] # k
    BY <1>9, <1>12, <1>13
  <2>2. Sound(q)
    BY <1>3, <2>1
  <2>3. q \in Monitor /\ q.ws \in Seq(Workspace) /\ q.active \in 1..Len(q.ws)
    BY <2>2, MonitorFields DEF Sound, Nearly, Ready, Formed
  <2>4. q.output # o
    BY <1>1, <1>3, <1>5, <2>1
  <2> QED BY <1>6, <2>1, <2>2, <2>3, <2>4
<1>15. Sound(t) /\ SameOutput(q, t) /\ Continues(q, lost, t) /\ ShowsAs(q, t)
  BY <1>2, <1>3, <1>13, <1>14, WorkspacesAppended
<1>16. t \in Monitor /\ t.ws \in Seq(Workspace) /\ t.active \in 1..Len(t.ws) /\ t.output = q.output
  BY <1>15, MonitorFields DEF Sound, Nearly, Ready, Formed, SameOutput
<1>17. PICK ms : ms = Exchanged(rest, p, t)
  OBVIOUS
<1>18. /\ ms \in Seq(Monitor) /\ Len(ms) = len - 1 /\ ms[p] = t
       /\ \A j \in 1..(len - 1) : j # p => ms[j] = rest[j]
  BY <1>9, <1>12, <1>16, <1>17 DEF Exchanged
<1>19. PICK L, f : /\ L = Disconnect(Outputs, k, nextId)
                   /\ f = IndexWithout(focused, k)
  OBVIOUS
<1>20. L = [monitors |-> ms, primary |-> p, focused |-> f, stranded |-> <<>>, lastActive |-> last]
  <2>1. /\ Outputs.monitors = monitors /\ Outputs.primary = primary /\ Outputs.focused = focused
        /\ Outputs.lastActive = lastActive
    BY OutputsAre
  <2>2. ms = [rest EXCEPT ![p] = AppendWorkspaces(rest[p], lost, nextId)]
    BY <1>13, <1>17 DEF Exchanged
  <2> QED BY <1>1, <1>7, <1>9, <1>19, <2>1, <2>2 DEF Disconnect
<1>21. PICK R : R = Replugged(k)
  OBVIOUS
<1>22. PICK r, n : Regained(R, ms, p, o, x, r, n)
  <2>1. R = Connect(L, o, eaf, id)
    BY <1>1, <1>4, <1>19, <1>21 DEF Replugged
  <2>2. PICK st : st = <<>>
    OBVIOUS
  <2>3. L = [monitors |-> ms, primary |-> p, focused |-> f, stranded |-> st, lastActive |-> last]
    BY <1>20, <2>2
  <2>4. /\ ms \in Seq(Monitor) /\ p \in 1..Len(ms) /\ Sound(ms[p]) /\ o \in Output
        /\ o # ms[p].output /\ id \in Id /\ eaf \in BOOLEAN
    BY <1>2, <1>3, <1>12, <1>14, <1>15, <1>16, <1>18
  <2>5. \E r, n : Regained(R, ms, p, o, last[o], r, n)
    BY <2>1, <2>3, <2>4, ConnectRegains, Zenon
  <2>6. last[o] = x
    BY <1>1, <1>2, <1>3
  <2> QED BY <2>5, <2>6
<1>23. PICK ns : ns = R.monitors
  OBVIOUS
<1>24. /\ ns \in Seq(Monitor) /\ Len(ns) = len /\ ns[len] = n /\ ns[p] = r
       /\ \A j \in 1..(len - 1) : j # p => ns[j] = rest[j]
       /\ Sound(r) /\ SameOutput(t, r) /\ Without(t, o, r) /\ Sound(n) /\ n.output = o
       /\ Brings(n, Only(t.ws, From(Full, o)), x)
  BY <1>3, <1>18, <1>22, <1>23 DEF Regained
<1>25. r \in Monitor /\ n \in Monitor /\ r.output = q.output
  BY <1>16, <1>24 DEF Sound, Nearly, Ready, Formed, SameOutput
<1>26. \A j \in 1..(len - 1) : ns[j].output = rest[j].output /\ ns[j].output # o
  <2>1. ASSUME NEW j \in 1..(len - 1) PROVE ns[j].output = rest[j].output /\ ns[j].output # o
    <3>1. ns[j].output = rest[j].output
      BY <1>13, <1>24, <1>25
    <3>2. rest[j].output # o
      BY <1>1, <1>3, <1>5, <1>9
    <3> QED BY <3>1, <3>2
  <2> QED BY <2>1
<1>27. IndexIn(R, o) = len
  <2>1. DOMAIN ns = 1..len /\ len \in 1..len /\ \A i \in 1..len : i \in 1..(len - 1) \/ i = len
    BY <1>3, <1>24
  <2>2. \A i \in DOMAIN ns : ns[i].output = o <=> i = len
    BY <1>24, <1>26, <2>1
  <2> QED BY <1>23, <2>1, <2>2 DEF IndexIn
<1>28. ASSUME NEW j \in 1..(len - 1) PROVE IndexIn(R, rest[j].output) = j
  <2>1. DOMAIN ns = 1..len /\ len \in 1..len /\ j \in 1..len /\ \A i \in 1..len : i \in 1..(len - 1) \/ i = len
    BY <1>3, <1>24
  <2>2. \A i \in 1..(len - 1) : rest[i].output = rest[j].output => i = j
    BY <1>5, <1>9, <1>11
  <2>3. \A i \in DOMAIN ns : ns[i].output = rest[j].output <=> i = j
    BY <1>24, <1>26, <2>1, <2>2
  <2> QED BY <1>23, <2>1, <2>3 DEF IndexIn
<1>29. Full \in SUBSET Full /\ From(Full, o) \in SUBSET Full /\ NotOf(Full, o) \in SUBSET Full
  BY DEF From, NotOf
<1>30. SameWorkspaces(m, n, {})
  <2>1. PICK A, a, b : A = From(Full, o) /\ a = Only(q.ws, A) /\ b = Only(lost, A)
    OBVIOUS
  <2>2. Only(t.ws, A) = a \o b
    BY <1>15, <1>29, <2>1 DEF Continues
  <2>3. a = <<>>
    <3>1. PICK s : s = q.ws
      OBVIOUS
    <3>2. s \in Seq(Workspace) /\ \A i \in 1..Len(s) : s[i] \notin A
      BY <1>14, <2>1, <3>1 DEF From
    <3> QED BY <2>1, <3>1, <3>2, OnlyNone
  <2>4. b \in Seq(Workspace) /\ <<>> \o b = b
    <3>1. b \in Seq(Workspace)
      BY <1>2, <2>1, OnlyHas
    <3> QED BY <3>1, ConcatEmptySeq
  <2>5. b = Only(m.ws, Full)
    <3>1. b = Only(m.ws, Full \cap A)
      BY <1>2, <2>1, OnlyTwice
    <3>2. Agree(m.ws, Full \cap A, Full)
      <4>1. \A i \in 1..Len(m.ws) : m.ws[i].orig = o
        <5>1. DOMAIN m.ws = 1..Len(m.ws)
          BY <1>2
        <5> QED BY <1>1, <5>1 DEF AllOwn
      <4> QED BY <2>1, <4>1 DEF Agree, From
    <3> QED BY <3>1, <3>2, AgreedOnly
  <2>6. Brings(n, b, x)
    BY <1>24, <2>1, <2>2, <2>3, <2>4
  <2> QED BY <1>1, <1>2, <1>25, <2>5, <2>6, BroughtBack
<1>31. SameWorkspaces(q, r, {})
  <2>1. PICK B, a, b : B = NotOf(Full, o) /\ a = Only(q.ws, B) /\ b = Only(lost, B)
    OBVIOUS
  <2>2. Only(r.ws, Full) = a \o b
    <3>1. Only(r.ws, Full) = Only(t.ws, B)
      BY <1>24, <1>29, <2>1 DEF Without
    <3>2. Only(t.ws, B) = a \o b
      BY <1>15, <1>29, <2>1 DEF Continues
    <3> QED BY <3>1, <3>2
  <2>3. b = <<>>
    <3>1. \A i \in 1..Len(lost) : lost[i] \notin B
      <4>1. ASSUME NEW i \in 1..Len(lost) PROVE lost[i] \notin B
        <5>1. In(lost, lost[i])
          BY DEF In
        <5>2. In(m.ws, lost[i])
          BY <1>2, <5>1, OnlyIn
        <5>3. PICK j \in 1..Len(m.ws) : m.ws[j] = lost[i]
          BY <5>2 DEF In
        <5>4. DOMAIN m.ws = 1..Len(m.ws)
          BY <1>2
        <5> QED BY <1>1, <2>1, <5>3, <5>4 DEF AllOwn, NotOf
      <4> QED BY <4>1
    <3> QED BY <1>2, <2>1, <3>1, OnlyNone
  <2>4. a \in Seq(Workspace) /\ a \o <<>> = a
    <3>1. a \in Seq(Workspace)
      BY <1>14, <2>1, OnlyHas
    <3> QED BY <3>1, ConcatEmptySeq
  <2>5. PICK G, C : G = {} /\ C = {v \in Full : v.orig \notin G}
    OBVIOUS
  <2>6. C = Full
    BY <2>5
  <2>7. Agree(q.ws, B, C)
    BY <1>14, <2>1, <2>6 DEF Agree, NotOf
  <2>8. a = Only(q.ws, C)
    BY <2>1, <2>7, AgreedOnly
  <2>9. Only(r.ws, Full) = Only(q.ws, C)
    BY <2>2, <2>3, <2>4, <2>8
  <2>10. q.ws[q.active] \in C => r.ws[r.active].id = q.ws[q.active].id
    <3>1. ASSUME q.ws[q.active] \in C PROVE r.ws[r.active].id = q.ws[q.active].id
      <4>1. HasWindowsOrName(q.ws[q.active]) /\ q.ws[q.active].orig # o
        BY <1>14, <2>6, <3>1 DEF Full
      <4>2. t.ws[t.active] = q.ws[q.active]
        BY <1>15, <4>1 DEF ShowsAs
      <4>3. r.ws[r.active] = t.ws[t.active]
        BY <1>24, <4>1, <4>2 DEF Without, ShowsAs
      <4> QED BY <4>2, <4>3
    <3> QED BY <3>1
  <2>11. SameWorkspaces(q, r, G)
    BY <1>14, <1>25, <2>5, <2>9, <2>10, SameByOnly
  <2> QED BY <2>5, <2>11
<1>32. ASSUME NEW j \in 1..len
       PROVE  SameWorkspaces(monitors[j], ns[IndexIn(R, monitors[j].output)], {})
  <2>1. CASE j = k
    BY <1>1, <1>24, <1>27, <1>30, <2>1
  <2>2. CASE j # k
    <3>1. PICK i \in 1..(len - 1) : back[i] = j
      BY <1>10, <2>2
    <3>2. monitors[j] = rest[i] /\ IndexIn(R, monitors[j].output) = i
      BY <1>9, <1>28, <3>1
    <3>3. CASE i = p
      BY <1>13, <1>24, <1>31, <3>2, <3>3
    <3>4. CASE i # p
      <4>1. monitors[j] \in Monitor /\ monitors[j].active \in 1..Len(monitors[j].ws)
        BY <1>3 DEF Sound, Nearly, Ready, Formed
      <4>2. ns[i] = monitors[j]
        BY <1>24, <3>2, <3>4
      <4> QED BY <3>2, <4>1, <4>2, SameAsItself
    <3> QED BY <3>3, <3>4
  <2> QED BY <2>1, <2>2
<1>33. Outputs.monitors = monitors
  BY OutputsAre
<1> QED BY <1>3, <1>21, <1>23, <1>32, <1>33 DEF SameLayout

\* What the principles of the layout promise of a hotplug.
LEMMA LaidKeepsLayout ==
  ASSUME IInv, AllLaid
  PROVE  HotplugKeepsLayout
<1>1. ASSUME NEW k \in DOMAIN monitors, AllOwn(k) PROVE SameLayout(Outputs, Replugged(k))
  <2>1. k \in 1..Len(monitors)
    BY Around
  <2>2. CASE Len(monitors) = 1
    BY <2>1, <2>2, ReplugLastKeeps
  <2>3. CASE Len(monitors) # 1
    BY <1>1, <2>1, <2>3, ReplugMoreKeeps
  <2> QED BY <2>2, <2>3
<1>2. ReplugKeepsLayout
  BY <1>1 DEF ReplugKeepsLayout
<1>3. ConnectKeepsOthers
  BY LaidKeepsOthers
<1> QED BY <1>2, <1>3 DEF HotplugKeepsLayout

-----------------------------------------------------------------------------
(***************************************************************************)
(* After every call the monitors and the stranded workspaces show one      *)
(* world: the invariant that NothingLost follows from.                     *)
(***************************************************************************)
THEOREM ContentsInvariant ==
  ASSUME ~NameUnfocusedEdge
  PROVE  Spec => [](IInv /\ AllLaid)
<1>1. Init => IInv /\ AllLaid
  BY InitIInv, InitAllLaid
<1>2. IInv /\ AllLaid /\ [Next]_vars => (IInv /\ AllLaid)'
  BY NextIInv, NextAllLaid
<1> QED BY <1>1, <1>2, PTL DEF Spec

(***************************************************************************)
(* Every open window is on exactly one workspace or in the hands of the    *)
(* user, and closed ones are nowhere; ids, names and outputs of workspaces *)
(* are unique, and each workspace is on the output that it originated on,  *)
(* or on the primary one while that is away (Layout::verify_invariants).   *)
(***************************************************************************)
THEOREM NothingIsLost ==
  ASSUME ~NameUnfocusedEdge
  PROVE  Spec => []NothingLost
<1>1. IInv /\ AllLaid => NothingLost
  BY LaidIsNothingLost
<1> QED BY <1>1, ContentsInvariant, PTL

(***************************************************************************)
(* "Disconnecting and reconnecting the same output must not change the     *)
(* layout" and "Connecting an output must not change the layout for any    *)
(* workspaces that were never on that output" (mod.rs:16-18), in every     *)
(* state that the calls lead to, the former for outputs whose workspaces   *)
(* are all their own: workspaces come back in order, and each output shows *)
(* the one that it showed.                                                 *)
(***************************************************************************)
THEOREM HotplugKeepsTheLayout ==
  ASSUME ~NameUnfocusedEdge
  PROVE  Spec => []HotplugKeepsLayout
<1>1. IInv /\ AllLaid => HotplugKeepsLayout
  BY LaidKeepsLayout
<1> QED BY <1>1, ContentsInvariant, PTL

-----------------------------------------------------------------------------
(***************************************************************************)
(* The views of the outputs: where workspaces change hands, and all steps.  *)
(***************************************************************************)
\* Every output has one monitor.
LEMMA OutputsOnce ==
  ASSUME AllLaid
  PROVE  OneEach(monitors)
  BY DEF AllLaid, Laid, Sits, OneEach

\* ViewKept, when no output comes or goes.
LEMMA KeptViews ==
  ASSUME IInv, IInv', AllLaid, MonitorsKeep(monitors, monitors')
  PROVE  ViewKept
<1>1. PICK ns : ns = monitors'
  OBVIOUS
<1>2. Stacks(ns) /\ MonitorsKeep(monitors, ns) /\ OneEach(monitors)
  BY <1>1, OutputsOnce DEF IInv
<1>3. ASSUME NEW k \in 1..Len(monitors), NEW j \in 1..Len(ns), monitors[k].output = ns[j].output
      PROVE  Keeps(monitors[k], ns[j]) \/ Elsewhere(ShownId(monitors[k]), ns, j)
  <2>1. j \in 1..Len(monitors) /\ ns[j].output = monitors[j].output
    BY <1>2 DEF MonitorsKeep
  <2>2. j = k
    BY <1>2, <1>3, <2>1 DEF OneEach
  <2> QED BY <1>2, <2>2 DEF MonitorsKeep
<1> QED BY <1>1, <1>2, <1>3, ViewsThen

\* A workspace that monitor `from` hands over to monitor k is among those of k.
LEMMA HandedIsThere ==
  ASSUME IInv, AllLaid, NEW from \in 1..Len(monitors), NEW k \in 1..Len(monitors), k # from,
         NEW i \in 1..Len(monitors[from].ws), HasWindowsOrName(monitors[from].ws[i]),
         NEW w, w = Owned(monitors[from].ws[i], monitors[k].output),
         NEW j \in 1..(Len(monitors[k].ws) + 1), NEW act \in BOOLEAN, NEW c \in Id, c = nextId + 2,
         NEW n, n = InsertWorkspace(monitors[k], w, j, act, c)
  PROVE  In(n.ws, w)
<1>1. PICK D : /\ World(D, nextId, Hands(move), mapped, Outs(monitors), MainOf(monitors, primary))
               /\ Sits(monitors, stranded, D)
  BY DEF AllLaid, Laid
<1>2. PICK m, m2, o, q, v : /\ m = monitors[from] /\ m2 = monitors[k]
                            /\ o = m.output /\ q = m2.output /\ v = m.ws[i]
  OBVIOUS
<1>3. PICK h, a, conn, main, b, C, B : /\ h = Hands(move) /\ a = mapped /\ conn = Outs(monitors)
                                    /\ main = MainOf(monitors, primary) /\ b = nextId
                                    /\ C = D[o] /\ B = D[q]
  OBVIOUS
<1>4. b \in Id /\ Ready(m) /\ Ready(m2) /\ monitors \in Seq(Monitor) /\ i \in 1..Len(m.ws)
  BY <1>2, <1>3, Around DEF IInv, Stacks
<1>5. World(D, b, h, a, conn, main)
  BY <1>1, <1>3
<1>6. o \in Home /\ Holds(m.ws, C) /\ v \in C /\ v \in Workspace /\ Before(C, b)
  BY <1>1, <1>2, <1>3, <1>4, LaidMonitor
<1>7. q \in Output /\ q \in Home /\ Holds(m2.ws, B) /\ Before(B, b) /\ Formed(m2)
  BY <1>1, <1>2, <1>3, LaidMonitor
<1>8. o # q
  BY <1>1, <1>2, <1>4 DEF Sits
<1>9. w = Owned(v, q)
  BY <1>2
<1>10. w \in Workspace /\ w.id = v.id /\ HasWindowsOrName(w)
  <2>1. w \in Workspace /\ w.id = v.id
    BY <1>6, <1>7, <1>9, OwnedFields
  <2>2. HasWindowsOrName(w)
    BY <1>2, <1>6, <1>7, <1>9, OwnedFacts
  <2> QED BY <2>1, <2>2
<1>11. Sound(n)
  BY <1>2, <1>4, <1>10, WorkspaceInserted
<1>12. b \in Nat /\ v.id < b /\ v.id \in Nat
  BY <1>4, <1>6, WorkspaceFields DEF Id, Before
<1>13. w.id # c
  BY <1>3, <1>10, <1>12
<1>14. Before(B, c)
  <2>1. SUFFICES ASSUME NEW u \in B PROVE u \in Workspace /\ u.id < c
    BY DEF Before
  <2>2. u \in Workspace /\ u.id < b
    BY <1>7 DEF Before
  <2>3. u.id \in Nat
    BY <2>2, WorkspaceFields DEF Id
  <2> QED BY <1>3, <1>12, <2>2, <2>3
<1>15. \A u \in B : u.id # w.id
  <2>1. SUFFICES ASSUME NEW u \in B, u.id = w.id PROVE FALSE
    OBVIOUS
  <2>2. Clash(u, v)
    BY <1>10, <2>1 DEF Clash
  <2> QED BY <1>3, <1>5, <1>6, <1>7, <1>8, <2>2 DEF World, Single
<1>16. Holds(n.ws, Plus(B, m2.output, c) \cup {w})
  BY <1>2, <1>7, <1>10, <1>11, <1>13, <1>14, <1>15, InsertedHolds
<1>17. w \in Plus(B, m2.output, c) \cup {w} /\ ~IsBlank(w)
  BY <1>10 DEF IsBlank
<1>18. PICK s, E : s = n.ws /\ E = Plus(B, m2.output, c) \cup {w}
  OBVIOUS
<1>19. Holds(s, E) /\ w \in E /\ ~IsBlank(w)
  BY <1>16, <1>17, <1>18
<1>20. \E x \in 1..Len(s) : s[x] = w
  BY <1>19 DEF Holds
<1> QED BY <1>18, <1>20 DEF In

\* move_workspace_to_output_by_id
LEMMA MoveWorkspaceToOutputViews ==
  ASSUME IInv, AllLaid, NEW p \in Places, NEW k \in 1..Len(monitors), MoveWorkspaceToOutput(p, k)
  PROVE  MonitorsKeep(monitors, monitors')
<1>1. PICK from, i, m, w : from = p[1] /\ i = p[2] /\ m = monitors[from] /\ w = WorkspaceAt(p)
  OBVIOUS
<1>2. /\ from \in 1..Len(monitors) /\ i \in 1..Len(m.ws) /\ Sound(m) /\ Ready(m) /\ Formed(m)
      /\ monitors[k].output \in Output /\ w = m.ws[i] /\ w \in Workspace
      /\ DOMAIN monitors = 1..Len(monitors) /\ Len(monitors) \in Nat
  BY <1>1, PlaceThere, Around DEF Ready
<1>id. nextId \in Id
  BY Around
<1>3. PICK moved : moved = Owned(w, monitors[k].output)
  OBVIOUS
<1>4. moved \in Workspace /\ moved.id = w.id
  BY <1>2, <1>3, OwnedFields
<1>5. CASE from = k
  <2>1. PICK n : n = Rewritten(m, i, moved)
    OBVIOUS
  <2>2. Seen(m, n)
    BY <1>2, <1>4, <2>1, RewrittenStays DEF Seen
  <2>3. monitors' = Exchanged(monitors, from, n)
    BY <1>1, <1>3, <1>5, <2>1 DEF MoveWorkspaceToOutput, Rewritten, Exchanged
  <2> QED BY <1>1, <1>2, <2>2, <2>3, OneSeen
<1>6. CASE from # k
  <2>1. PICK r : r = RemoveWorkspace(m, i, nextId)
    OBVIOUS
  <2>2. PICK rs : rs = Exchanged(monitors, from, r)
    OBVIOUS
  <2>3. DOMAIN rs = 1..Len(monitors) /\ rs[from] = r
        /\ \A h \in 1..Len(monitors) : h # from => rs[h] = monitors[h]
    BY <1>2, <2>2 DEF Exchanged
  <2>4. PICK m2, j : m2 = monitors[k] /\ j = m2.active + 1
    OBVIOUS
  <2>5. Formed(m2) /\ Ready(m2) /\ j \in 1..(Len(m2.ws) + 1)
    BY <2>4, Around DEF Ready
  <2>6. PICK id2 \in Id : id2 = nextId + 2
    BY <1>id DEF Id
  <2>7. PICK act \in BOOLEAN : act = (from = focused /\ i = m.active)
    OBVIOUS
  <2>8. PICK n : n = InsertWorkspace(m2, moved, j, act, id2)
    OBVIOUS
  <2>9. PICK ns : ns = Exchanged(rs, k, n)
    OBVIOUS
  <2>10. monitors' = ns
    <3>1. monitors' = [rs EXCEPT ![k] = InsertWorkspace(rs[k], moved, rs[k].active + 1, act, nextId + 2)]
      BY <1>1, <1>3, <1>6, <2>1, <2>2, <2>7, Zenon DEF MoveWorkspaceToOutput, Exchanged
    <3>2. rs[k] = m2
      BY <1>6, <2>3, <2>4
    <3> QED BY <2>4, <2>6, <2>8, <2>9, <3>1, <3>2 DEF Exchanged
  <2>11. DOMAIN ns = 1..Len(monitors) /\ ns[k] = n /\ ns[from] = r
         /\ \A h \in 1..Len(monitors) : h # from /\ h # k => ns[h] = monitors[h]
    BY <1>2, <1>6, <2>3, <2>9 DEF Exchanged
  <2>12. Len(ns) = Len(monitors)
    <3>1. Sound(r)
      BY <1>2, <1>id, <2>1, WorkspaceRemoved
    <3>2. Sound(n)
      BY <1>4, <2>5, <2>8, WorkspaceInserted
    <3>3. Stacks(monitors)
      BY DEF IInv
    <3>4. Stacks(rs) /\ Len(rs) = Len(monitors)
      BY <1>2, <2>2, <3>1, <3>3, OneChanged
    <3>5. k \in 1..Len(rs)
      BY <3>4
    <3>6. Len(ns) = Len(rs)
      BY <2>9, <3>2, <3>4, <3>5, OneChanged
    <3> QED BY <3>4, <3>6
  <2>13. n.output = m2.output /\ Keeps(m2, n)
    <3>1. Seen(m2, n)
      BY <1>4, <2>5, <2>7, <2>8, InsertedSeen DEF Seen
    <3> QED BY <2>5, <3>1, SeenKeeps
  <2>14. r.output = m.output /\ (Keeps(m, r) \/ Elsewhere(ShownId(m), ns, from))
    <3>0. r.output = m.output
      BY <1>2, <1>id, <2>1, WorkspaceRemoved DEF SameOutput
    <3>1. CASE i # m.active
      <4>1. Seen(m, r)
        BY <1>2, <1>id, <2>1, <3>1, RemovedStays DEF Seen
      <4>2. Ready(m)
        BY <1>1, <1>2, Around
      <4> QED BY <4>1, <4>2, SeenKeeps
    <3>2. CASE i = m.active /\ ~HasWindowsOrName(w)
      <4>1. Keeps(m, r)
        BY <1>2, <3>2 DEF Keeps, IsBlank
      <4> QED BY <3>0, <4>1
    <3>3. CASE i = m.active /\ HasWindowsOrName(w)
      <4>1. PICK q \in 1..Len(n.ws) : n.ws[q] = moved
        <5>1. /\ k # from /\ i \in 1..Len(monitors[from].ws)
              /\ HasWindowsOrName(monitors[from].ws[i])
              /\ moved = Owned(monitors[from].ws[i], monitors[k].output)
              /\ j \in 1..(Len(monitors[k].ws) + 1)
              /\ n = InsertWorkspace(monitors[k], moved, j, act, id2)
              /\ from \in 1..Len(monitors) /\ act \in BOOLEAN /\ id2 \in Id /\ id2 = nextId + 2
          BY <2>6, <2>7, <1>1, <1>2, <1>3, <1>6, <2>4, <2>5, <2>8, <3>3
        <5>2. In(n.ws, moved)
          BY <5>1, HandedIsThere
        <5> QED BY <5>2 DEF In
      <4>2. ns[k].ws[q].id = ShownId(m)
        BY <1>2, <1>4, <2>11, <3>3, <4>1 DEF ShownId
      <4>3. Elsewhere(ShownId(m), ns, from)
        BY <1>6, <2>11, <2>12, <4>1, <4>2 DEF Elsewhere
      <4> QED BY <3>0, <4>3
    <3> QED BY <3>1, <3>2, <3>3
  <2>15. ASSUME NEW h \in 1..Len(monitors)
         PROVE  /\ ns[h].output = monitors[h].output
                /\ Keeps(monitors[h], ns[h]) \/ Elsewhere(ShownId(monitors[h]), ns, h)
    <3>1. CASE h = from
      BY <1>1, <2>11, <2>14, <3>1
    <3>2. CASE h = k
      BY <2>4, <2>11, <2>13, <3>2
    <3>3. CASE h # from /\ h # k
      BY <2>11, <3>3, KeepsItself
    <3> QED BY <3>1, <3>2, <3>3
  <2> QED BY <2>10, <2>12, <2>15 DEF MonitorsKeep
<1> QED BY <1>5, <1>6

\* add_output, while others are connected: what the primary one showed is still
\* there, or on the new one.
LEMMA AddOutputViews ==
  ASSUME IInv, IInv', AllLaid, NEW o \in Output, AddOutput(o)
  PROVE  ViewKept
<1>0. CASE monitors = <<>>
  BY <1>0, NoViews
<1>1. CASE monitors # <<>>
  <2>1. PICK k, len : k = primary /\ len = Len(monitors)
    OBVIOUS
  <2>2. /\ nextId \in Id /\ k \in 1..len /\ DOMAIN monitors = 1..len /\ len \in Nat
        /\ monitors \in Seq(Monitor)
        /\ \A j \in 1..len : Sound(monitors[j]) /\ monitors[j].output # o
    <3>1. \A j \in DOMAIN monitors : monitors[j].output # o
      BY DEF AddOutput, Connected
    <3> QED BY <1>1, <2>1, <3>1, Around DEF IInv, Stacks
  <2>3. PICK m : m = monitors[k]
    OBVIOUS
  <2>4. m \in Monitor /\ Sound(m) /\ m.ws \in Seq(Workspace) /\ m.active \in 1..Len(m.ws) /\ o # m.output
    BY <2>2, <2>3, MonitorFields DEF Sound, Nearly, Ready, Formed
  <2>5. PICK eaf \in BOOLEAN : eaf = config[o]
    <3>1. config \in [Output -> BOOLEAN]
      BY ConfigsType DEF IInv, RestOK
    <3> QED BY <3>1
  <2>6. PICK L : L = Connect(Outputs, o, config[o], nextId)
    OBVIOUS
  <2>7. PICK r, n : Regained(L, monitors, k, o, lastActive[o], r, n)
    <3>1. PICK ms, id, O, la, f, st : /\ ms = monitors /\ id = nextId /\ O = Outputs /\ la = lastActive
                                      /\ f = focused /\ st = stranded
      OBVIOUS
    <3>2. O = [monitors |-> ms, primary |-> k, focused |-> f, stranded |-> st, lastActive |-> la]
      BY <2>1, <3>1, OutputsAre
    <3>3. /\ ms \in Seq(Monitor) /\ k \in 1..Len(ms) /\ Sound(ms[k]) /\ o \in Output
          /\ o # ms[k].output /\ id \in Id /\ L = Connect(O, o, eaf, id)
      BY <2>1, <2>2, <2>5, <2>6, <3>1
    <3>4. \E r, n : Regained(L, ms, k, o, la[o], r, n)
      BY <3>2, <3>3, ConnectRegains, Zenon
    <3> QED BY <3>1, <3>4
  <2>8. PICK ns : ns = L.monitors
    OBVIOUS
  <2>9. monitors' = ns /\ Stacks(ns)
    <3>1. monitors' = ns
      BY <2>6, <2>8 DEF AddOutput, SetOutputs
    <3> QED BY <3>1 DEF IInv
  <2>10. /\ ns \in Seq(Monitor) /\ Len(ns) = len + 1 /\ ns[len + 1] = n /\ ns[k] = r
         /\ \A j \in 1..len : j # k => ns[j] = monitors[j]
         /\ SameOutput(m, r) /\ Without(m, o, r) /\ Sound(n) /\ n.output = o
         /\ Brings(n, Only(m.ws, From(Full, o)), lastActive[o])
    BY <2>1, <2>3, <2>7, <2>8 DEF Regained
  <2>11. n.ws \in Seq(Workspace)
    BY <2>10, MonitorFields DEF Sound, Nearly, Ready, Formed
  <2>12. PICK shown : shown = m.ws[m.active]
    OBVIOUS
  <2>13. shown \in Workspace /\ In(m.ws, shown)
    BY <2>4, <2>12 DEF In
  <2>14. ASSUME HasWindowsOrName(shown), shown.orig = o PROVE In(n.ws, shown)
    <3>1. PICK back : back = Only(m.ws, From(Full, o))
      OBVIOUS
    <3>2. back \in Seq(Workspace) /\ Only(n.ws, Full) = Only(back, Full)
      <4>1. back \in Seq(Workspace)
        BY <2>4, <3>1, OnlyHas
      <4>2. Full \in SUBSET Full
        OBVIOUS
      <4> QED BY <2>10, <3>1, <4>1, <4>2 DEF Brings
    <3>3. shown \in Full /\ shown \in From(Full, o)
      BY <2>13, <2>14 DEF Full, From
    <3>4. In(back, shown) <=> shown \in From(Full, o) /\ In(m.ws, shown)
      BY <2>4, <3>1, OnlyIn
    <3>5. HasWindowsOrName(shown) /\ In(n.ws, shown) <=> shown \in Full /\ In(back, shown)
      BY <2>11, <3>2, FullIn
    <3> QED BY <2>13, <3>3, <3>4, <3>5
  <2>15. Keeps(m, r) \/ Elsewhere(ShownId(m), ns, k)
    <3>1. CASE ~HasWindowsOrName(shown)
      BY <2>12, <3>1 DEF Keeps, IsBlank
    <3>2. CASE HasWindowsOrName(shown) /\ shown.orig # o
      <4>1. r.ws[r.active] = shown
        BY <2>10, <2>12, <3>2 DEF Without, ShowsAs
      <4> QED BY <2>12, <4>1 DEF Keeps, ShownId
    <3>3. CASE HasWindowsOrName(shown) /\ shown.orig = o
      <4>1. PICK i \in 1..Len(n.ws) : n.ws[i] = shown
        BY <2>14, <3>3 DEF In
      <4>2. PICK q : q = len + 1
        OBVIOUS
      <4>3. q \in 1..Len(ns) /\ q # k /\ ns[q] = n
        BY <2>2, <2>10, <4>2
      <4>4. ns[q].ws[i].id = ShownId(m) /\ i \in 1..Len(ns[q].ws)
        BY <2>12, <4>1, <4>3 DEF ShownId
      <4> QED BY <4>3, <4>4 DEF Elsewhere
    <3> QED BY <3>1, <3>2, <3>3
  <2>16. OneEach(monitors)
    BY OutputsOnce
  <2>17. ASSUME NEW h \in 1..Len(monitors), NEW j \in 1..Len(ns), monitors[h].output = ns[j].output
         PROVE  Keeps(monitors[h], ns[j]) \/ Elsewhere(ShownId(monitors[h]), ns, j)
    <3>1. j \in 1..len
      <4>1. j # len + 1
        BY <2>1, <2>2, <2>10, <2>17
      <4> QED BY <2>2, <2>10, <4>1
    <3>2. ns[j].output = monitors[j].output
      <4>1. CASE j = k
        BY <2>3, <2>10, <4>1 DEF SameOutput
      <4>2. CASE j # k
        BY <2>10, <3>1, <4>2
      <4> QED BY <4>1, <4>2
    <3>3. h = j
      BY <2>1, <2>16, <2>17, <3>1, <3>2 DEF OneEach
    <3>4. CASE j = k
      BY <2>3, <2>10, <2>15, <3>3, <3>4
    <3>5. CASE j # k
      BY <2>10, <3>1, <3>3, <3>5, KeepsItself
    <3> QED BY <3>4, <3>5
  <2> QED BY <2>9, <2>17, ViewsThen
<1> QED BY <1>0, <1>1

\* remove_output: the one that takes over the workspaces still shows its own.
LEMMA RemoveOutputViews ==
  ASSUME IInv, IInv', AllLaid, NEW o \in Output, RemoveOutput(o)
  PROVE  ViewKept
<1>1. PICK k, m, len : k = MonitorOf(o) /\ m = monitors[k] /\ len = Len(monitors)
  OBVIOUS
<1>2. /\ k \in 1..len /\ monitors \in Seq(Monitor) /\ len \in Nat /\ nextId \in Id
      /\ primary \in 1..len /\ \A j \in 1..len : Sound(monitors[j])
  <2>1. k \in 1..len /\ monitors \in Seq(Monitor) /\ len \in Nat /\ nextId \in Id
    BY <1>1, MonitorThere, Around DEF RemoveOutput, IInv, Stacks
  <2> QED BY <1>1, <2>1, Around DEF IInv, IndexFits
<1>3. PICK lost, L, last : /\ lost = IntoWorkspaces(m) /\ L = Disconnect(Outputs, k, nextId)
                           /\ last = [lastActive EXCEPT ![m.output] = m.ws[m.active].id]
  OBVIOUS
<1>4. monitors' = L.monitors
  BY <1>1, <1>3 DEF RemoveOutput, SetOutputs
<1>5. PICK rest, p, f : /\ rest = RemoveAt(monitors, k) /\ p = IndexWithout(primary, k)
                        /\ f = IndexWithout(focused, k)
  OBVIOUS
<1>6. /\ rest \in Seq(Monitor) /\ Len(rest) = len - 1
      /\ \A j \in 1..(len - 1) : rest[j] = IF j < k THEN monitors[j] ELSE monitors[j + 1]
  <2>1. PICK ms : ms = monitors
    OBVIOUS
  <2>2. ms \in Seq(Monitor) /\ k \in 1..Len(ms) /\ Len(ms) = len
    BY <1>1, <1>2, <2>1
  <2>3. RemoveAt(ms, k) \in Seq(Monitor) /\ WithRemoved(RemoveAt(ms, k), ms, k)
    BY <2>2, Removed, Zenon
  <2> QED BY <1>5, <2>1, <2>2, <2>3 DEF WithRemoved
<1>7. /\ Outputs.monitors = monitors /\ Outputs.primary = primary /\ Outputs.focused = focused
      /\ Outputs.lastActive = lastActive
  BY OutputsAre
<1>8. CASE rest = <<>>
  <2>1. L = [monitors |-> <<>>, primary |-> 0, focused |-> 0, stranded |-> lost, lastActive |-> last]
    BY <1>1, <1>3, <1>5, <1>7, <1>8 DEF Disconnect
  <2>2. monitors' = <<>>
    BY <1>4, <2>1
  <2> QED BY <2>2, NoViews
<1>9. CASE rest # <<>>
  <2>1. len > 1 /\ p \in 1..(len - 1)
    <3>1. len > 1
      BY <1>2, <1>6, <1>9, EmptySeq
    <3> QED BY <1>2, <1>5, <3>1 DEF IndexWithout, MaxOf
  <2>2. ASSUME NEW j \in 1..(len - 1) PROVE \E i \in 1..len : rest[j] = monitors[i]
    <3>1. j \in 1..len /\ j + 1 \in 1..len
      BY <1>2
    <3> QED BY <1>6, <3>1
  <2>3. PICK r, n : r = rest[p] /\ n = AppendWorkspaces(r, lost, nextId)
    OBVIOUS
  <2>4. Sound(r)
    BY <1>2, <2>1, <2>2, <2>3
  <2>5. lost \in Seq(Workspace) /\ \A i \in 1..Len(lost) : HasWindowsOrName(lost[i])
    BY <1>1, <1>2, <1>3, LeftBehind
  <2>6. SameOutput(r, n) /\ ShowsAs(r, n) /\ Sound(n)
    BY <1>2, <2>3, <2>4, <2>5, WorkspacesAppended
  <2>7. Keeps(r, n)
    BY <2>6 DEF ShowsAs, Keeps, ShownId, IsBlank
  <2>8. PICK ns : ns = Exchanged(rest, p, n)
    OBVIOUS
  <2>9. /\ Len(ns) = len - 1 /\ ns[p] = n /\ \A j \in 1..(len - 1) : j # p => ns[j] = rest[j]
    BY <1>6, <2>1, <2>6, <2>8 DEF Exchanged, Sound, Nearly, Ready, Formed
  <2>10. L = [monitors |-> ns, primary |-> p, focused |-> f, stranded |-> <<>>, lastActive |-> last]
    <3>1. ns = [rest EXCEPT ![p] = AppendWorkspaces(rest[p], lost, nextId)]
      BY <2>3, <2>8 DEF Exchanged
    <3> QED BY <1>1, <1>3, <1>5, <1>7, <1>9, <3>1 DEF Disconnect
  <2>11. monitors' = ns /\ Stacks(ns)
    <3>1. monitors' = ns
      BY <1>4, <2>10
    <3> QED BY <3>1 DEF IInv
  <2>12. OneEach(monitors)
    BY OutputsOnce
  <2>13. ASSUME NEW h \in 1..Len(monitors), NEW j \in 1..Len(ns), monitors[h].output = ns[j].output
         PROVE  Keeps(monitors[h], ns[j]) \/ Elsewhere(ShownId(monitors[h]), ns, j)
    <3>1. j \in 1..(len - 1)
      BY <2>9
    <3>2. PICK i \in 1..len : rest[j] = monitors[i]
      BY <2>2, <3>1
    <3>3. ns[j].output = monitors[i].output /\ Keeps(monitors[i], ns[j])
      <4>1. CASE j = p
        BY <2>3, <2>6, <2>7, <2>9, <3>2, <4>1 DEF SameOutput
      <4>2. CASE j # p
        <5>1. ns[j] = monitors[i]
          BY <2>9, <3>1, <3>2, <4>2
        <5> QED BY <5>1, KeepsItself
      <4> QED BY <4>1, <4>2
    <3>4. h = i
      BY <1>1, <2>12, <2>13, <3>3 DEF OneEach
    <3> QED BY <3>3, <3>4
  <2> QED BY <2>11, <2>13, ViewsThen
<1> QED BY <1>8, <1>9

\* The calls about windows.
LEMMA WindowNextViews ==
  ASSUME IInv, IInv', WindowNext
  PROVE  MonitorsKeep(monitors, monitors')
<1>0. /\ DOMAIN monitors = 1..Len(monitors) /\ (monitors = <<>> <=> Len(monitors) = 0)
      /\ Stacks(monitors') /\ Len(monitors) \in Nat
      /\ \A k \in 1..Len(monitors) : DOMAIN monitors[k].ws = 1..Len(monitors[k].ws) /\ Len(monitors[k].ws) \in Nat
  BY Around DEF IInv
<1>1. ASSUME NEW p \in Places, NEW w \in WorkspaceAt(p).wins PROVE w \in Window
  <2>1. WorkspaceAt(p) \in Workspace
    BY PlaceThere
  <2>2. WorkspaceAt(p).wins \in SUBSET Window
    BY <2>1, WorkspaceFields
  <2> QED BY <2>2
<1>2. ASSUME NEW p \in Places, p = <<focused, monitors[focused].active>>
      PROVE  monitors # <<>> /\ DOMAIN monitors[focused].ws = 1..Len(monitors[focused].ws)
  <2>1. focused \in 1..Len(monitors)
    BY <1>2, PlaceThere
  <2> QED BY <1>0, <2>1
<1>3. CASE \E w \in Window, p \in Places, act \in BOOLEAN : AddWindow(w, p, act)
  BY <1>3, AddWindowViews
<1>4. CASE \E w \in Window, i \in DOMAIN StrandedOrNew : AddWindowStranded(w, i)
  BY <1>4, NoneChanges DEF AddWindowStranded
<1>5. CASE \E w \in Window, f \in Landings : RemoveWindow(w, f)
  BY <1>5, RemoveWindowViews
<1>6. ASSUME NEW p \in Places, NEW act \in BOOLEAN, NEW w \in WorkspaceAt(p).wins,
             NEW i \in DOMAIN monitors[p[1]].ws, MoveToWorkspace(w, p, i, act)
      PROVE  MonitorsKeep(monitors, monitors')
  <2>1. w \in Window /\ i \in 1..Len(monitors[p[1]].ws)
    BY <1>0, <1>1, PlaceThere
  <2> QED BY <1>6, <2>1, MoveToWorkspaceViews
<1>7. ASSUME NEW p \in Places, NEW act \in BOOLEAN, NEW w \in WorkspaceAt(p).wins,
             NEW q \in Places, MoveToOutput(w, p, q[1], q[2], act)
      PROVE  MonitorsKeep(monitors, monitors')
  BY <1>0, <1>1, <1>7, MoveToOutputViews
<1>8. ASSUME NEW p \in Places, NEW act \in BOOLEAN, p = <<focused, monitors[focused].active>>,
             NEW wins, NEW i \in DOMAIN monitors[focused].ws, MoveColumnToWorkspace(wins, i, act)
      PROVE  MonitorsKeep(monitors, monitors')
  BY <1>2, <1>8, MoveColumnToWorkspaceViews
<1>9. ASSUME NEW p \in Places, NEW act \in BOOLEAN, p = <<focused, monitors[focused].active>>,
             NEW wins, NEW q \in Places, MoveColumnToOutput(wins, q[1], q[2], act)
      PROVE  MonitorsKeep(monitors, monitors')
  BY <1>0, <1>2, <1>9, MoveColumnToOutputViews
<1> QED BY <1>3, <1>4, <1>5, <1>6, <1>7, <1>8, <1>9 DEF WindowNext

\* The calls about workspaces: moves, names, outputs and a new configuration.
LEMMA WorkspaceNextViews ==
  ASSUME IInv, IInv', AllLaid, WorkspaceNext
  PROVE  MonitorsKeep(monitors, monitors')
<1>0. /\ DOMAIN monitors = 1..Len(monitors) /\ Stacks(monitors')
      /\ \A k \in 1..Len(monitors) : DOMAIN monitors[k].ws = 1..Len(monitors[k].ws)
  BY Around DEF IInv
<1>1. CASE monitors # <<>> /\ (MoveActiveWorkspaceDown \/ MoveActiveWorkspaceUp)
  BY <1>1, MoveActiveWorkspaceViews
<1>2. ASSUME NEW p \in Places, NEW i \in DOMAIN monitors[p[1]].ws, MoveWorkspaceTo(p, i)
      PROVE  MonitorsKeep(monitors, monitors')
  <2>1. i \in 1..Len(monitors[p[1]].ws)
    BY <1>0, PlaceThere
  <2> QED BY <1>2, <2>1, MoveWorkspaceToViews
<1>3. ASSUME NEW p \in Places, NEW k \in DOMAIN monitors, MoveWorkspaceToOutput(p, k)
      PROVE  MonitorsKeep(monitors, monitors')
  BY <1>0, <1>3, MoveWorkspaceToOutputViews
<1>4. ASSUME NEW n \in Name, NEW p \in Places, SetWorkspaceName(n, p) PROVE MonitorsKeep(monitors, monitors')
  BY <1>4, SetWorkspaceNameViews
<1>5. ASSUME NEW n \in Name, NEW i \in DOMAIN stranded, SetStrandedName(n, i)
      PROVE  MonitorsKeep(monitors, monitors')
  BY <1>5, NoneChanges DEF SetStrandedName
<1>6. ASSUME NEW p \in Places, UnsetWorkspaceName(p) PROVE MonitorsKeep(monitors, monitors')
  BY <1>6, UnsetWorkspaceNameViews
<1>7. ASSUME NEW i \in DOMAIN stranded, UnsetStrandedName(i) PROVE MonitorsKeep(monitors, monitors')
  BY <1>7, NoneChanges DEF UnsetStrandedName
<1>8. ASSUME NEW n \in Name, NEW o \in Output \cup {NoOutput}, EnsureNamedWorkspace(n, o)
      PROVE  MonitorsKeep(monitors, monitors')
  BY <1>8, EnsureNamedWorkspaceViews
<1>9. ASSUME NEW c \in Configs, ReloadConfig(c) PROVE MonitorsKeep(monitors, monitors')
  BY <1>0, <1>9, ReloadConfigViews
<1> QED BY <1>1, <1>2, <1>3, <1>4, <1>5, <1>6, <1>7, <1>8, <1>9 DEF WorkspaceNext

\* Gestures, drags and drops, and windows that are moved by hand.
LEMMA DragNextViews ==
  ASSUME IInv, IInv', DragNext
  PROVE  MonitorsKeep(monitors, monitors')
<1>0. DOMAIN monitors = 1..Len(monitors) /\ Stacks(monitors')
  BY Around DEF IInv
<1>1. ASSUME NEW k \in DOMAIN monitors, NEW f, SwipeBegin(k, f) PROVE MonitorsKeep(monitors, monitors')
  BY <1>0, <1>1, SwipeBeginViews
<1>2. ASSUME NEW k \in DOMAIN monitors, NEW i \in 0..Len(monitors[k].ws), GestureUpdate(k, i)
      PROVE  MonitorsKeep(monitors, monitors')
  <2>1. k \in 1..Len(monitors) /\ i \in Nat
    BY <1>0
  <2> QED BY <1>2, <2>1, SwipeViews
<1>3. ASSUME NEW k \in DOMAIN monitors, SwipeEnd(k) PROVE MonitorsKeep(monitors, monitors')
  BY <1>0, <1>3, SwipeViews
<1>4. ASSUME DndBegin \/ \E f \in Landings : DndEnd(f) \/ InteractiveMoveCancel(f)
      PROVE  MonitorsKeep(monitors, monitors')
  BY <1>4, ScrollViews
<1>5. ASSUME NEW p \in Places, NEW f \in Landings, DndHold(p, f) PROVE MonitorsKeep(monitors, monitors')
  BY <1>5, DndHoldViews
<1>6. ASSUME NEW w \in Window, NEW o \in Output,
             InteractiveMoveBegin(w) \/ InteractiveMoveStart(w, o) \/ InteractiveMoveTo(w, o)
      PROVE  MonitorsKeep(monitors, monitors')
  BY <1>6, ScrollViews, InteractiveMoveViews
<1>7. ASSUME NEW w \in Window, NEW f \in Landings, NEW isNew \in BOOLEAN,
             NEW i \in UNION {1..(Len(monitors[k].ws) + 1) : k \in DOMAIN monitors},
             InteractiveMoveEnd(w, f, i, isNew)
      PROVE  MonitorsKeep(monitors, monitors')
  <2>1. PICK k \in DOMAIN monitors : i \in 1..(Len(monitors[k].ws) + 1)
    OBVIOUS
  <2>2. i \in Nat
    BY <2>1
  <2>3. monitors # <<>>
    BY <2>1
  <2> QED BY <1>0, <1>7, <2>2, <2>3, InteractiveMoveEndViews
<1>8. ASSUME NEW w \in Window, InteractiveMoveEndStranded(w) PROVE MonitorsKeep(monitors, monitors')
  BY <1>8, NoneChanges DEF InteractiveMoveEndStranded
<1> QED BY <1>1, <1>2, <1>3, <1>4, <1>5, <1>6, <1>7, <1>8 DEF DragNext

\* No call makes the view of an output slip.
LEMMA NextViewKept ==
  ASSUME IInv, IInv', AllLaid, [Next]_vars
  PROVE  ViewKept
<1>1. CASE HotplugNext
  BY <1>1, AddOutputViews, RemoveOutputViews DEF HotplugNext
<1>2. CASE UNCHANGED vars
  BY <1>2, NoneChanges, KeptViews DEF vars
<1>3. CASE WindowNext \/ WorkspaceNext \/ SwitchNext \/ OverviewNext \/ DragNext
  <2>1. MonitorsKeep(monitors, monitors')
    BY <1>3, WindowNextViews, WorkspaceNextViews, SwitchViews, OverviewViews, DragNextViews
  <2> QED BY <2>1, KeptViews
<1> QED BY <1>1, <1>2, <1>3 DEF Next

(***************************************************************************)
(* Whatever is called, and through drags, gestures and hotplug, an output  *)
(* leaves a workspace with windows or a name only by a switch that         *)
(* remembers it as the previous one, or when that workspace itself goes to *)
(* another output; what is inserted, removed, swapped or cleaned up around *)
(* it never shifts the view (the index adjustments of monitor.rs).         *)
(***************************************************************************)
THEOREM ViewStays ==
  ASSUME ~NameUnfocusedEdge
  PROVE  Spec => ViewNeverSlips
<1>1. IInv /\ AllLaid /\ IInv' /\ [Next]_vars => [ViewKept]_vars
  BY NextViewKept
<1> QED BY <1>1, ContentsInvariant, PTL DEF Spec, ViewNeverSlips
=============================================================================
