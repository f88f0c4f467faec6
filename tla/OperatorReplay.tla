--------------------------- MODULE OperatorReplay ---------------------------
(***************************************************************************)
(* A caller of the operator catalog: it has a sequence of symbols of one   *)
(* floor, views it through an operator (apply_symbols), and another caller *)
(* restores it (invert_symbols).  An unknown operator, an unknown width or *)
(* a symbol outside the alphabet is refused.                               *)
(***************************************************************************)
EXTENDS OperatorCatalog

CONSTANTS
    AskedWidths,    \* widths callers ask for, known or not
    AskedIds,       \* operators callers ask for, known or not
    Feed(_, _),     \* the symbols that may come at a place of a sequence
    MaxLength       \* bound: symbols

ASSUME ReplayAssumption ==
    MaxLength \in Nat /\ \A bits \in AskedWidths, n \in 0 .. MaxLength : Feed(bits, n) \subseteq Nat

VARIABLES
    phase,      \* grow, viewed, restored or rejected
    viewer,     \* the operator asked for
    viewerBits, \* the width asked for
    sequence,   \* what is viewed
    shown       \* what the operator gave, or the inverse gave back

replayVars == <<phase, viewer, viewerBits, sequence, shown>>

ReplayInit ==
    /\ phase = "grow"
    /\ viewer \in AskedIds /\ viewerBits \in AskedWidths
    /\ sequence = <<>>
    /\ shown = <<>>

Grow ==
    /\ phase = "grow"
    /\ Len(sequence) < MaxLength
    /\ \E s \in Feed(viewerBits, Len(sequence)) : sequence' = Append(sequence, s)
    /\ UNCHANGED <<phase, viewer, viewerBits, shown>>

Reject ==
    /\ phase = "grow"
    /\ ~Valid(viewer, viewerBits, sequence)
    /\ phase' = "rejected"
    /\ UNCHANGED <<viewer, viewerBits, sequence, shown>>

View ==
    /\ phase = "grow"
    /\ Valid(viewer, viewerBits, sequence)
    /\ shown' = Apply(viewer, viewerBits, sequence)
    /\ phase' = "viewed"
    /\ UNCHANGED <<viewer, viewerBits, sequence>>

Restore ==
    /\ phase = "viewed"
    /\ Valid(viewer, viewerBits, shown)
    /\ shown' = Invert(viewer, viewerBits, shown)
    /\ phase' = "restored"
    /\ UNCHANGED <<viewer, viewerBits, sequence>>

ReplayNext == Grow \/ Reject \/ View \/ Restore

ReplaySpec == ReplayInit /\ [][ReplayNext]_replayVars
-----------------------------------------------------------------------------
(* Properties.                                                             *)

\* Every operator restores what it viewed, at every length (empty chunks,
\* short last chunks, several chunks), and keeps symbols in their alphabet.
InverseRestores ==
    /\ phase = "viewed" => Valid(viewer, viewerBits, shown)
    /\ phase = "restored" => shown = sequence

\* A lens looks at the near faces first: along its order the distance from the
\* focal face, as the length of a shortest path of shared edges, never falls,
\* every face is reached, and equally distant faces keep their order.
PathLength ==
    [f, g \in Faces |->
        LET Ball[n \in Nat] ==
                IF n = 0 THEN {f}
                ELSE LET inner == Ball[n - 1]
                     IN inner \cup {b \in Faces : \E a \in inner : Adjacent[a, b]}
        IN CHOOSE n \in 0 .. 19 : g \in Ball[n] /\ \A m \in 0 .. n - 1 : g \notin Ball[m]]

NearFacesFirst ==
    phase = "viewed" /\ viewer \in Lenses /\ sequence = Ascending =>
        /\ {shown[i] : i \in 1 .. 20} = Faces
        /\ \A i \in 1 .. 19 :
              LET near == PathLength[viewer - 20, shown[i]]
                  far == PathLength[viewer - 20, shown[i + 1]]
              IN near < far \/ (near = far /\ shown[i] < shown[i + 1])

\* What the experts of the hyper codec see through their cached position maps
\* is what the operator itself would show of the window.
WindowsAreViews ==
    phase = "viewed" /\ Len(sequence) <= 20 => CanonicalWindow(viewer, viewerBits, sequence) = shown
=============================================================================
