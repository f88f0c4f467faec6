----------------------------- MODULE HyperCodec -----------------------------
(***************************************************************************)
(* The two levels of the hyper codec, by turns: a behaviour codes one      *)
(* Path 3 payload (HyperPathThree) or chains the stages of an archive      *)
(* (HyperChain, to which a payload is what HyperPathThree shows it to be). *)
(* The level that is not at work stays at its start.                       *)
(***************************************************************************)
EXTENDS HyperPathThree

CONSTANTS FLOORS, ChainSources, ChainModes, ChainControls, ChainPasses, MaxEdits

VARIABLES chainPc, edits, request, source, child, seed, floor, archive, headers

chainVars == <<chainPc, edits, request, source, child, seed, floor, archive, headers>>

Chain == INSTANCE HyperChain WITH
    pc <- chainPc,
    input <- source,
    Sources <- ChainSources,
    Modes <- ChainModes,
    Controls <- ChainControls,
    Passes <- ChainPasses

ASSUME ArchiveAssumption == Chain!ChainAssumption

ChainIdle == chainPc = "idle"

ChainAtStart ==
    /\ chainPc = "idle"
    /\ edits = 0 /\ request = 0 /\ source = 0 /\ child = 0 /\ seed = 0
    /\ floor = 0 /\ archive = 0 /\ headers = 0

\* One initial state of the payload level will do where it is not at work.
PayloadAtStart ==
    /\ Init
    /\ control = CHOOSE c \in Controls : TRUE
    /\ input = CHOOSE i \in Inputs : TRUE

CodecInit ==
    \/ Init /\ ChainAtStart
    \/ PayloadAtStart /\ Chain!Init

CodecNext ==
    \/ ChainIdle /\ Next /\ UNCHANGED chainVars
    \/ ~ChainIdle /\ Chain!Next /\ UNCHANGED vars

CodecSpec == CodecInit /\ [][CodecNext]_<<vars, chainVars>>
-----------------------------------------------------------------------------
\* An archive pack has written is never refused, and decodes to its input.
WrittenIsRestored == ~ChainIdle => Chain!WrittenIsRestored

\* An archive that is accepted is what encode_file makes of the output, but for
\* mode, control and pass count of its floors.
AcceptedAsEncoded == ~ChainIdle => Chain!AcceptedAsEncoded
=============================================================================
