---------------------------- MODULE FloatingStack ----------------------------
(***************************************************************************)
(* The floating layout of a workspace (layout/floating.rs, FloatingSpace): *)
(* a stack of windows, dialogs above their parents.  The operators take    *)
(* the layer f, a record:                                                  *)
(*   stack   the windows, topmost first,                                   *)
(*   active  the focused one,                                              *)
(*   resize  the window of the interactive resize, if any.                 *)
(* parent[w] is the parent of w's toplevel, or NoWindow.                   *)
(***************************************************************************)
EXTENDS Strip

EmptyLayer == [stack |-> <<>>, active |-> NoWindow, resize |-> NoWindow]

Floats(f) == ToSet(f.stack)
HeightOf(f, w) == CHOOSE i \in DOMAIN f.stack : f.stack[i] = w

\* Descendants below the window at i, found walking up from the bottom.
DescendantsBelow(stack, i, parent) ==
    FoldRight(LAMBDA w, found :
                 IF parent[w] = stack[i] \/ parent[w] \in found THEN found \cup {w} ELSE found,
              SubSeq(stack, i + 1, Len(stack)), {})

BadBroughtUp(stack, i, parent) ==
    LET below    == SubSeq(stack, i + 1, Len(stack))
        children == {w \in ToSet(below) : parent[w] = stack[i]}
    IN  SubSeq(stack, 1, i - 1) \o SelectSeq(below, LAMBDA w : w \in children)
            \o <<stack[i]>> \o SelectSeq(below, LAMBDA w : w \notin children)

\* bring_up_descendants_of: they go right above the window, in their order.
BroughtUp(stack, i, parent) ==
    LET below    == SubSeq(stack, i + 1, Len(stack))
        children == DescendantsBelow(stack, i, parent)
    IN  SubSeq(stack, 1, i - 1) \o SelectSeq(below, LAMBDA w : w \in children)
            \o <<stack[i]>> \o SelectSeq(below, LAMBDA w : w \notin children)

\* add_tile_at: never below its parent.
AddFloatAt(f, i, w, activate, parent) ==
    LET above == {k \in 1..(i - 1) : f.stack[k] = parent[w]}
        at    == IF above = {} THEN i ELSE CHOOSE k \in above : TRUE
    IN  [f EXCEPT !.stack = BroughtUp(InsertAt(@, at, w), at, parent),
                  !.active = IF activate \/ f.stack = <<>> THEN w ELSE @]
AddFloat(f, w, activate, parent) == AddFloatAt(f, 1, w, activate, parent)

\* add_tile_above.
AddFloatAbove(f, v, w, activate, parent) == AddFloatAt(f, HeightOf(f, v), w, activate, parent)

\* remove_tile_by_idx.
RemoveFloat(f, w) ==
    LET left == RemoveAt(f.stack, HeightOf(f, w))
    IN  [stack  |-> left,
         active |-> IF left = <<>> THEN NoWindow ELSE IF f.active = w THEN left[1] ELSE f.active,
         resize |-> IF f.resize = w THEN NoWindow ELSE f.resize]

\* activate_window: the window is raised with its descendants.
RaiseFloat(f, w, parent) ==
    [f EXCEPT !.stack = BroughtUp(<<w>> \o RemoveAt(@, HeightOf(f, w)), 1, parent),
              !.active = w]

\* descendants_added.
DescendantsAdded(f, w, parent) == [f EXCEPT !.stack = BroughtUp(@, HeightOf(f, w), parent)]

\* verify_invariants: children are stacked above parents.
ChildrenAbove(f, parent) ==
    \A i, k \in DOMAIN f.stack : i < k => parent[f.stack[k]] # f.stack[i]
=============================================================================
