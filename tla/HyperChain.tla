----------------------------- MODULE HyperChain -----------------------------
(***************************************************************************)
(* The archive of the hyper codec (omega_hyper_codec_v0.rs): four nested   *)
(* stages, each seeded with the Omega of the one inside it, the innermost  *)
(* with the compiled genesis, and a file header with the outermost Omega.  *)
(* Byte strings are tagged records that know their size; a hash is the     *)
(* record of what it is taken of.  A Path 3 payload decodes to the one     *)
(* string whose encoding it is (HyperPathThree).                           *)
(***************************************************************************)
EXTENDS Integers, Sequences

CONSTANTS
    FLOORS,         \* the labels, innermost first: 64, 256, 1024, 4096
    Sources,        \* inputs, as [name, size]
    Modes, Controls, Passes,    \* what callers and foreign stages may ask for
    MaxEdits        \* bound: foreign edits of one archive

ChainAssumption ==
    /\ FLOORS \in Seq(Nat) /\ Len(FLOORS) > 0
    /\ Modes \subseteq {"Raw", "Path3Hook", "Path123"}
    /\ Controls \subseteq {"Unique", "DuplicateSharedState", "ShufflePriorHistory",
                           "Reset", "Persistent"}
    /\ Passes \subseteq Nat /\ MaxEdits \in Nat
    /\ \A s \in Sources : s.size \in Nat

VARIABLES
    pc,         \* encode, file, decode, done or rejected
    edits,      \* foreign edits so far: zero for an archive of pack
    request,    \* mode, control and pass count of the caller
    input,
    child,      \* the stage encoded last, then the stage to decode next
    seed,       \* its Omega, then the Omega expected of it
    floor,      \* floors encoded, then floors left to decode
    archive,    \* the file
    headers     \* mode, control and passes of the decoded stages, innermost first

vars == <<pc, edits, request, input, child, seed, floor, archive, headers>>

AllModes == {"Raw", "Path3Hook", "Path123"}
AllControls == {"Unique", "DuplicateSharedState", "ShufflePriorHistory", "Reset", "Persistent"}

Bytes(source) == [tag |-> "bytes", name |-> source.name, size |-> source.size]
Sha(bytes) == [tag |-> "sha", of |-> bytes]
GenesisOmega == [tag |-> "genesis"]
-----------------------------------------------------------------------------
(* A stage.                                                                *)

\* Nothing in the hook tells Unique from Persistent.
Key(f, s, control) ==
    [floor |-> f, seed |-> s, votes |-> IF control = "Persistent" THEN "Unique" ELSE control]

P3Encode(key, bytes) ==
    IF bytes.tag = "unfolded" /\ bytes.key = key
      THEN bytes.payload
      ELSE [tag |-> "p3", key |-> key, of |-> bytes, size |-> bytes.size + 1]

\* A payload of another key, or read with another length, is some other string.
P3Decode(key, payload, length) ==
    IF payload.key = key /\ payload.of.size = length
      THEN payload.of
      ELSE [tag |-> "unfolded", key |-> key, payload |-> payload, size |-> length]

Payload(r, f, s, bytes) ==
    IF r.mode = "Raw" THEN bytes ELSE P3Encode(Key(f, s, r.control), bytes)

\* encode_stage refuses; the hook makes one pass only.
Refused(r) ==
    \/ r.passes = 0
    \/ r.mode = "Path123"
    \/ r.mode = "Path3Hook" /\ r.passes # 1

Stage(r, f, s, bytes) ==
    LET payload == Payload(r, f, s, bytes)
    IN [tag |-> "stage", floor |-> f, mode |-> r.mode, control |-> r.control,
        passes |-> r.passes, decodedLen |-> bytes.size, seed |-> s, decodedSha |-> Sha(bytes),
        model |-> r.mode, payload |-> payload, size |-> payload.size + 1]

\* derive_floor_omega; what the forty directions and the replayed experts add
\* is a function of these and of the catalog.
FloorOmega(stage) ==
    [tag |-> "omega", floor |-> stage.floor, seed |-> stage.seed, control |-> stage.control,
     passes |-> stage.passes, decodedLen |-> stage.decodedLen, decodedSha |-> stage.decodedSha,
     model |-> stage.model, path3 |-> stage.mode, payload |-> Sha(stage.payload)]

\* parse_stage: a known floor, mode and control, the model blob of the mode.
Parses(bytes) ==
    /\ bytes.tag = "stage"
    /\ \E k \in DOMAIN FLOORS : bytes.floor = FLOORS[k]
    /\ bytes.mode \in AllModes /\ bytes.control \in AllControls
    /\ bytes.passes > 0
    /\ bytes.model = bytes.mode

\* decode_stage, before it compares: RAW may claim any number of passes.
CanDecode(stage) ==
    \/ stage.mode = "Raw" /\ stage.payload.size = stage.decodedLen
    \/ stage.mode = "Path3Hook" /\ stage.passes = 1 /\ stage.payload.tag = "p3"

Decoded(stage) ==
    IF stage.mode = "Raw" THEN stage.payload
    ELSE P3Decode(Key(stage.floor, stage.seed, stage.control), stage.payload, stage.decodedLen)
-----------------------------------------------------------------------------
Init ==
    /\ pc = "encode"
    /\ edits = 0
    /\ request \in [mode : Modes, control : Controls, passes : Passes]
    /\ \E s \in Sources : input = Bytes(s)
    /\ child = input /\ seed = GenesisOmega /\ floor = 0
    /\ archive = [length |-> 0, sha |-> Sha(input), omega |-> GenesisOmega, outer |-> input]
    /\ headers = <<>>

\* Mutant: every floor is seeded with the genesis.
EncodeFloorUnchained ==
    /\ pc = "encode" /\ floor < Len(FLOORS)
    /\ IF Refused(request)
         THEN pc' = "rejected" /\ UNCHANGED <<child, seed, floor>>
         ELSE /\ child' = Stage(request, FLOORS[floor + 1], seed, child)
              /\ seed' = IF floor + 1 = Len(FLOORS) THEN FloorOmega(child') ELSE GenesisOmega
              /\ floor' = floor + 1
              /\ UNCHANGED pc
    /\ UNCHANGED <<edits, request, input, archive, headers>>

\* One turn of encode_file.
EncodeFloor ==
    /\ pc = "encode" /\ floor < Len(FLOORS)
    /\ IF Refused(request)
         THEN pc' = "rejected" /\ UNCHANGED <<child, seed, floor>>
         ELSE /\ child' = Stage(request, FLOORS[floor + 1], seed, child)
              /\ seed' = FloorOmega(child')
              /\ floor' = floor + 1
              /\ UNCHANGED pc
    /\ UNCHANGED <<edits, request, input, archive, headers>>

\* Another program's stage: another request, or one field that is not the code's.
\* The Omegas outside it are taken of what it wrote.
Edited(stage) ==
    {[stage EXCEPT !.floor = f] : f \in {FLOORS[k] : k \in DOMAIN FLOORS} \cup {0}}
    \cup {[stage EXCEPT !.mode = pair[1], !.model = pair[2]] : pair \in AllModes \X AllModes}
    \cup {[stage EXCEPT !.control = c] : c \in AllControls}
    \cup {[stage EXCEPT !.passes = n] : n \in {0, 1, 2}}
    \cup {[stage EXCEPT !.decodedLen = @ + 1]}
    \cup {[stage EXCEPT !.seed = s] : s \in {GenesisOmega, FloorOmega(stage)}}
    \cup {[stage EXCEPT !.decodedSha = Sha(Decoded([stage EXCEPT !.payload = p])),
                        !.payload = p] :
              p \in {q \in {Payload(stage, stage.floor, GenesisOmega, child),
                            Payload(stage, stage.floor, stage.seed, input)} :
                        q.tag = "p3" \/ stage.mode = "Raw"}}

ForeignFloor ==
    /\ pc = "encode" /\ floor < Len(FLOORS)
    /\ edits < MaxEdits /\ edits' = edits + 1
    /\ \/ child' \in Edited(Stage(request, FLOORS[floor + 1], seed, child))
       \/ \E r \in [mode : Modes, control : Controls, passes : Passes] :
             child' = Stage(r, FLOORS[floor + 1], seed, child)
    /\ seed' = FloorOmega(child')
    /\ floor' = floor + 1
    /\ UNCHANGED <<pc, request, input, archive, headers>>

\* The file header; a foreign one may leave floors out or name another source.
File ==
    /\ pc = "encode"
    /\ floor = Len(FLOORS) \/ edits > 0
    /\ \E s \in IF edits > 0 THEN {input} \cup {Bytes(t) : t \in Sources} ELSE {input} :
          archive' = [length |-> s.size, sha |-> Sha(s), omega |-> seed, outer |-> child]
    /\ floor' = Len(FLOORS)
    /\ pc' = "decode"
    /\ UNCHANGED <<edits, request, input, child, seed, headers>>

\* One turn of decode_file: preflight, floor order, decode, commitments.
DecodeFloor ==
    /\ pc = "decode" /\ floor > 0
    /\ IF /\ Parses(child)
          /\ child.floor = FLOORS[floor]
          /\ CanDecode(child)
          /\ Decoded(child).size = child.decodedLen
          /\ Sha(Decoded(child)) = child.decodedSha
          /\ FloorOmega(child) = seed
         THEN /\ child' = Decoded(child)
              /\ seed' = child.seed
              /\ headers' = <<[mode |-> child.mode, control |-> child.control,
                               passes |-> child.passes]>> \o headers
              /\ floor' = floor - 1
              /\ UNCHANGED pc
         ELSE pc' = "rejected" /\ UNCHANGED <<child, seed, headers, floor>>
    /\ UNCHANGED <<edits, request, input, archive>>

\* Mutant: the innermost seed is not compared with the genesis.
DecodeEndRootless ==
    /\ pc = "decode" /\ floor = 0
    /\ pc' = IF child.size = archive.length /\ Sha(child) = archive.sha
               THEN "done" ELSE "rejected"
    /\ UNCHANGED <<edits, request, input, child, seed, floor, archive, headers>>

DecodeEnd ==
    /\ pc = "decode" /\ floor = 0
    /\ pc' = IF /\ seed = GenesisOmega
                /\ child.size = archive.length /\ Sha(child) = archive.sha
               THEN "done" ELSE "rejected"
    /\ UNCHANGED <<edits, request, input, child, seed, floor, archive, headers>>

Next == EncodeFloor \/ ForeignFloor \/ File \/ DecodeFloor \/ DecodeEnd

Spec == Init /\ [][Next]_vars
-----------------------------------------------------------------------------
(* Properties.                                                             *)

\* pack writes its archive before it decodes it: no archive it has written is
\* ever refused, and decoding it gives the input back.
WrittenIsRestored ==
    edits = 0 /\ archive.outer # input =>
        /\ pc # "rejected"
        /\ pc = "done" => child = input

\* A file that is accepted is, but for the mode, control and pass count each of
\* its floors may choose, what encode_file makes of the output: lengths,
\* hashes, seeds, payloads and the order of the floors are forced.
Rebuilt ==
    LET At[k \in 0 .. Len(FLOORS)] ==
            IF k = 0 THEN [child |-> child, seed |-> GenesisOmega]
            ELSE LET inner == At[k - 1]
                     stage == Stage(headers[k], FLOORS[k], inner.seed, inner.child)
                 IN [child |-> stage, seed |-> FloorOmega(stage)]
        outer == At[Len(FLOORS)]
    IN [length |-> child.size, sha |-> Sha(child), omega |-> outer.seed, outer |-> outer.child]

AcceptedAsEncoded == pc = "done" => archive = Rebuilt
=============================================================================
