----------------------------- MODULE FloorCodec -----------------------------
(***************************************************************************)
(* The two levels of the floor codec, by turns: a behaviour codes one      *)
(* payload (FloorPayload) or nests the floors of an archive (FloorNested,  *)
(* to which a payload is what FloorPayload shows it to be).  The level     *)
(* that is not at work stays at its start.                                 *)
(***************************************************************************)
EXTENDS FloorPayload

CONSTANTS FLOORS, ArchiveDirections, MaxU64, ArchiveSources, ArchiveLanes,
          ArchiveRequests, DecoderCharges, MaxEdits

VARIABLES nestedPc, edits, request, input, child, floor, archive, disk, headers, external

nestedVars == <<nestedPc, edits, request, input, child, floor, archive, disk, headers, external>>

Nested == INSTANCE FloorNested WITH
    pc <- nestedPc,
    MaxDirections <- ArchiveDirections,
    Sources <- ArchiveSources,
    Lanes <- ArchiveLanes,
    Requested <- ArchiveRequests

ASSUME ArchiveAssumption == Nested!NestedAssumption

NestedIdle == nestedPc = "idle"

NestedAtStart ==
    /\ nestedPc = "idle"
    /\ edits = 0 /\ request = 0 /\ input = 0 /\ child = 0 /\ floor = 0
    /\ archive = 0 /\ disk = 0 /\ headers = 0 /\ external = 0

\* One initial state of the payload level will do where it is not at work.
PayloadAtStart ==
    /\ Init
    /\ seed = CHOOSE s \in Seeds : TRUE
    /\ requested = CHOOSE n \in Requested : TRUE
    /\ \A i \in DOMAIN draws : draws[i] = 0

CodecInit ==
    \/ Init /\ NestedAtStart
    \/ PayloadAtStart /\ Nested!Init

CodecNext ==
    \/ NestedIdle /\ Next /\ UNCHANGED nestedVars
    \/ ~NestedIdle /\ Nested!Next /\ UNCHANGED vars

CodecSpec == CodecInit /\ [][CodecNext]_<<vars, nestedVars>>
-----------------------------------------------------------------------------
\* A file pack has put on disk is unpacked to its input: charges that overflow
\* are noticed before the file is written, not when it is read.
PackedUnpacks == ~NestedIdle => Nested!PackedUnpacks

\* Of any archive, only one that encode_nested could have made of the bytes it
\* gives back, up to the charges and controls of its floors, is accepted.
AcceptedAsEncoded == ~NestedIdle => Nested!AcceptedAsEncoded
=============================================================================
