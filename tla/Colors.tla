------------------------------- MODULE Colors -------------------------------
(***************************************************************************)
(* From a depth to a color: colors.js, which stretches the gradients of a  *)
(* list to the scale, the inputs of gui.js that change it between frames,  *)
(* and ColorMapper, which lays the gradients end to end and looks depths   *)
(* up in them (color_mapper.hpp).                                          *)
(*                                                                         *)
(* Scales count hundredths and offsets tenths.  A color is opaque; depths, *)
(* and where gradients start and end, are numbers modulo DepthModulus,     *)
(* where the code has uint32_t.                                            *)
(***************************************************************************)
EXTENDS Integers, Sequences, FiniteSets

LOCAL INSTANCE SequencesExt

CONSTANTS
    Lists,          \* the options: sequences color, count, color, ..., color
    Scales,         \* color_scale: the wheel keeps it at 4 or more, and knows no
                    \* upper bound
    Offsets,        \* color_offset
    MinDepths,      \* statistics.minDepth of a frame
    Depths,         \* depths looked up
    Shifts,         \* what the color cycle adds
    DepthModulus    \* 2^32

ASSUME ColorsAssumption ==
    /\ \A list \in Lists :
          /\ Len(list) % 2 = 1 /\ Len(list) >= 3
          /\ \A i \in DOMAIN list : i % 2 = 0 => list[i] \in Nat \ {0}
    /\ Scales \subseteq {s \in Nat : s >= 400}
    /\ Offsets \subseteq 0..10
    /\ MinDepths \cup Depths \subseteq 0 .. DepthModulus - 1
    /\ Shifts \subseteq Nat

VARIABLES
    gradients,      \* this.gradients of Colors
    scaleLength, offset,
    mapped,         \* gradients of ColorMapper: start_depth and length
    total,          \* history: their lengths together, as numbers without end
    colorOffset     \* color_offset of ColorMapper

colorVars == <<gradients, scaleLength, offset, mapped, total, colorOffset>>

\* parse, of lists that are well formed.
Parse(list) ==
    [i \in 1 .. Len(list) \div 2 |->
        [from |-> list[2 * i - 1], count |-> list[2 * i], to |-> list[2 * i + 1]]]

\* The inputs set all three before the first frame.
ColorsInit ==
    /\ gradients \in {Parse(list) : list \in Lists}
    /\ scaleLength \in Scales /\ offset \in Offsets
    /\ mapped = <<>> /\ total = 0 /\ colorOffset = 0

-----------------------------------------------------------------------------

\* gradientsSize
SizeOf(gs) == FoldLeft(LAMBDA size, g : size + g.count, 0, gs)

\* Mutant of Stretched: Math.floor, and no Math.max.
StretchedDown(count) == (count * scaleLength) \div (100 * SizeOf(gradients))

\* Math.max(1, Math.round(count * scaleLength / gradientsSize))
Stretched(count) ==
    LET size == SizeOf(gradients)
        rounded == (2 * count * scaleLength + 100 * size) \div (200 * size) IN
    IF rounded < 1 THEN 1 ELSE rounded

\* end(), a sum of two uint32_t.
EndOf(m) == (m.start + m.length) % DepthModulus

\* Mutant of StartOf: one depth is left free.
StartAfter(ms) == IF ms = <<>> THEN 0 ELSE (EndOf(ms[Len(ms)]) + 1) % DepthModulus

\* add_gradient starts where the one before ends.
StartOf(ms) == IF ms = <<>> THEN 0 ELSE EndOf(ms[Len(ms)])

AddGradients(gs) ==
    FoldLeft(LAMBDA ms, g :
                 Append(ms, [start |-> StartOf(ms), length |-> Stretched(g.count) % DepthModulus]),
             <<>>, gs)

\* setScreenColors, before every frame.
SetScreenColors(minDepth) ==
    /\ mapped' = AddGradients(gradients)
    /\ total' = FoldLeft(LAMBDA sum, g : sum + Stretched(g.count), 0, gradients)
    /\ colorOffset' = IF offset < 10 THEN ((scaleLength * offset) \div 1000) % DepthModulus
                      ELSE minDepth
    /\ UNCHANGED <<gradients, scaleLength, offset>>

SetColors(list) ==
    /\ gradients' = Parse(list)
    /\ UNCHANGED <<scaleLength, offset, mapped, total, colorOffset>>

SetScaleLength(scale) ==
    /\ scaleLength' = scale
    /\ UNCHANGED <<gradients, offset, mapped, total, colorOffset>>

SetColorOffset(tenths) ==
    /\ offset' = tenths
    /\ UNCHANGED <<gradients, scaleLength, mapped, total, colorOffset>>

ColorsNext ==
    \/ \E minDepth \in MinDepths : SetScreenColors(minDepth)
    \/ \E list \in Lists : SetColors(list)
    \/ \E scale \in Scales : SetScaleLength(scale)
    \/ \E tenths \in Offsets : SetColorOffset(tenths)

\* constrain_depth
ConstrainDepth(depth, shift) ==
    ((depth - colorOffset + shift) % DepthModulus) % EndOf(mapped[Len(mapped)])

\* in_range
InRange(m, depth) == m.start <= depth /\ depth < EndOf(m)

-----------------------------------------------------------------------------
(* Properties.                                                             *)

ColorsTypeOK ==
    /\ \A i \in DOMAIN gradients : gradients[i].count \in Nat \ {0}
    /\ scaleLength \in Scales /\ offset \in Offsets
    /\ \A i \in DOMAIN mapped : /\ mapped[i].start \in 0 .. DepthModulus - 1
                                /\ mapped[i].length \in 0 .. DepthModulus - 1
    /\ total \in Nat
    /\ colorOffset \in 0 .. DepthModulus - 1

\* Whatever was turned since, a frame is painted with gradients that leave no
\* gap, as long as they fit into the depths there are: every depth finds exactly
\* one (none would be painted as an error), and each has a depth.  Beyond, the
\* sums wrap: gradients overlap or have no depth, and the remainder by an end
\* of 0 is undefined.  Nothing but the patience of the user keeps the scale
\* below that (gui.js:212).
EveryColorShows ==
    mapped # <<>> /\ total < DepthModulus =>
        /\ \A i \in DOMAIN mapped : mapped[i].length > 0
        /\ \A depth \in Depths, shift \in Shifts :
              Cardinality({i \in DOMAIN mapped :
                  InRange(mapped[i], ConstrainDepth(depth, shift))}) = 1
=============================================================================
