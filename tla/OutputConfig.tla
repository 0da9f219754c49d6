---------------------------- MODULE OutputConfig ----------------------------
(***************************************************************************)
(* What the configuration says of an output (ymir-config/src/output.rs),   *)
(* the mode picked for it (src/src/backend/tty.rs) and where outputs are   *)
(* placed (reposition_outputs, src/src/ymir.rs).                           *)
(*                                                                         *)
(* The name of an output is its connector and the make of its monitor,     *)
(* which stands for make, model and serial.  A mode is its width; outputs  *)
(* are placed along one line, as they are unless a position says otherwise.*)
(***************************************************************************)
EXTENDS Integers, Sequences, FiniteSets, SequencesExt, FiniteSetsExt

CONSTANTS
  Connector,
  Make,         \* the makes of monitors
  Unnamed,      \* the make of a monitor that tells none, or has that of another
  Order         \* all connectors and makes, in the order of their names

ASSUME NamesDiffer == Connector \cap Make = {} /\ Unnamed \notin Connector \cup Make

NoX == -1                                \* no position
Auto == [width |-> 0, custom |-> FALSE]  \* no configured mode
NoMode == Auto

\* OutputName::matches
Matches(c, make, key) == key = c \/ (make # Unnamed /\ key = make)

\* format_make_model_serial_or_connector
Formatted(c, make) == IF make = Unnamed THEN c ELSE make

DefaultEntry(key) == [key |-> key, off |-> FALSE, mode |-> Auto, x |-> NoX]

Matching(config, c, make) == {i \in DOMAIN config : Matches(c, make, config[i].key)}
First(I) == CHOOSE i \in I : \A j \in I : i <= j

\* Outputs::find, with the default for an output of which nothing is said.
Find(config, c, make) ==
  LET I == Matching(config, c, make)
  IN  IF I = {} THEN DefaultEntry(Formatted(c, make)) ELSE config[First(I)]

\* modify_output_config: change the entry of the output that key names, which
\* is c if any is, or add one.
Modified(config, key, c, make, field, value) ==
  LET I == Matching(config, c, make)
  IN  IF I = {} THEN Append(config, [DefaultEntry(key) EXCEPT ![field] = value])
                ELSE [config EXCEPT ![First(I)][field] = value]

(***************************************************************************)
(* pick_mode, for a connector with these widths, the preferred one first.  *)
(***************************************************************************)
PickMode(widths, target) ==
  CASE target.custom -> target
    [] ~target.custom /\ widths = <<>> -> NoMode
    [] ~target.custom /\ widths # <<>> ->
         [width |-> IF \E i \in DOMAIN widths : widths[i] = target.width
                      THEN target.width ELSE widths[1],
          custom |-> FALSE]

(***************************************************************************)
(* reposition_outputs.  outputs[c] has the make, the width and the         *)
(* configured position of an output.                                       *)
(***************************************************************************)
Rank(key) == CHOOSE i \in DOMAIN Order : Order[i] = key

\* OutputName::compare, after the outputs with a configured position.
Before(outputs, c, d) ==
  LET a == outputs[c]
      b == outputs[d]
      byName == IF (a.make = Unnamed) # (b.make = Unnamed) THEN b.make = Unnamed
                ELSE IF a.make # b.make THEN Rank(a.make) < Rank(b.make)
                ELSE Rank(c) < Rank(d)
  IN  IF (a.x = NoX) # (b.x = NoX) THEN b.x = NoX ELSE byName

\* (mistake) The outputs are placed as they come.
BadSortedOutputs(outputs) ==
  [i \in 1..Cardinality(DOMAIN outputs) |->
     CHOOSE c \in DOMAIN outputs :
       Cardinality({d \in DOMAIN outputs : Rank(d) > Rank(c)}) = i - 1]

SortedOutputs(outputs) ==
  [i \in 1..Cardinality(DOMAIN outputs) |->
     CHOOSE c \in DOMAIN outputs :
       Cardinality({d \in DOMAIN outputs : Before(outputs, d, c)}) = i - 1]

Overlap(x, w, y, v) == x < y + v /\ y < x + w

\* The position of each output, the configured one unless it overlaps another.
Placed(outputs) ==
  LET X(placed, c) ==
        LET x == outputs[c].x
            ends == {placed[d] + outputs[d].width : d \in DOMAIN placed}
            free == \A d \in DOMAIN placed :
                      ~Overlap(x, outputs[c].width, placed[d], outputs[d].width)
        IN  IF x # NoX /\ free THEN x
            ELSE IF ends = {} THEN 0 ELSE Max(ends)
  IN  FoldLeft(LAMBDA placed, c : placed @@ (c :> X(placed, c)), <<>>, SortedOutputs(outputs))
=============================================================================
