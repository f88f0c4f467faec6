----------------------------- MODULE FloorNested -----------------------------
(***************************************************************************)
(* The archive of the floor codec (omega_floor_codec_v0.rs, encode_stage   *)
(* to parse_header, pack and unpack): the input wrapped once per floor,    *)
(* the external charges on the outermost floor only, and pack decoding     *)
(* what it is about to write.  Byte strings are tagged records that know   *)
(* their size; a commitment is the record of what it is taken of.  A       *)
(* payload is what FloorPayload encodes: it has several spellings (what    *)
(* follows the bits the decoder reads), any of them decodes to some string *)
(* under any key and length.                                               *)
(***************************************************************************)
EXTENDS Integers, Sequences

CONSTANTS
    FLOORS,         \* innermost first: 64, 256, 1024, 4096
    MaxDirections,  \* 64
    MaxU64,         \* the largest charge, charge total and charged size
    Sources,        \* inputs, as [name, size]
    Lanes, Requested, DecoderCharges,   \* what callers ask for
    MaxEdits        \* bound: foreign edits of one archive

AllLanes == {"Baseline", "DuplicateSharedState", "Unique", "Reset",
             "BookkeepingPermutation", "ShuffleDeterministicPriorHistory"}

NestedAssumption ==
    /\ FLOORS \in Seq(Nat) /\ Len(FLOORS) > 0
    /\ MaxDirections \in Nat /\ MaxU64 \in Nat /\ MaxEdits \in Nat
    /\ \A s \in Sources : s.size \in Nat
    /\ Lanes \subseteq AllLanes
    /\ Requested \subseteq Nat /\ DecoderCharges \subseteq Nat

VARIABLES
    pc,         \* encode, verify, unpack, done or rejected
    edits,      \* foreign edits so far: zero for an archive of pack
    request,    \* lane and directions of the caller, and its decoder charge
    input,
    child,      \* the stage encoded last, then the stage to decode next
    floor,      \* floors encoded, then floors left to decode
    archive,    \* what was encoded
    disk,       \* the archive file, or NoFile
    headers,    \* headers decode_nested has reported, innermost first
    external    \* the charges it has added up

vars == <<pc, edits, request, input, child, floor, archive, disk, headers, external>>

\* There is one empty byte string.
Bytes(source) ==
    [tag |-> "bytes", name |-> IF source.size = 0 THEN "nothing" ELSE source.name,
     size |-> source.size]
Commitment(bytes) == [tag |-> "hash", of |-> bytes]
NoFile == [tag |-> "none"]
Provider == "GENERIC"
NoCharges == <<0, 0>>       \* the decoder's, and those of the four other kinds

Flags(lane) == IF lane = "Reset" THEN "RESET_CONTROL" ELSE "PERSISTENT"
-----------------------------------------------------------------------------
(* Payloads.                                                               *)

\* What the payload of a lane depends on; the two bookkeeping lanes add nothing
\* (ControlsAddNothing of FloorPayload), and the baseline asks one direction.
Key(f, lane, directions, omega) ==
    CASE lane \in {"Baseline", "DuplicateSharedState"} ->
            [floor |-> f, votes |-> "Baseline", directions |-> 1, omega |-> omega]
      [] lane = "BookkeepingPermutation" ->
            [floor |-> f, votes |-> "Unique", directions |-> directions, omega |-> omega]
      [] OTHER -> [floor |-> f, votes |-> lane, directions |-> directions, omega |-> omega]

EncodePayload(bytes, key, spelling) ==
    IF bytes.size = 0 THEN [tag |-> "empty", size |-> 0]
    ELSE [tag |-> "code", key |-> key, of |-> bytes, spelling |-> spelling, size |-> bytes.size]

\* The lengths must agree on whether there is anything.
Decodable(payload, length) == (length = 0) = (payload.size = 0)

DecodePayload(payload, length, key) ==
    IF length = 0 THEN Bytes([name |-> "", size |-> 0])
    ELSE IF payload.tag = "code" /\ payload.key = key /\ payload.of.size = length
      THEN payload.of
      ELSE [tag |-> "unfolded", key |-> key, payload |-> payload, size |-> length]
-----------------------------------------------------------------------------
(* Stages.                                                                 *)

ValidDirections(n) == 0 < n /\ n <= MaxDirections

\* Charges::total, where it does not overflow.
Total(charges) == charges[1] + charges[2]

\* encode_stage: refused if the directions are invalid (by the plan, or for an
\* empty input by serialize_header) or the charges overflow.
Encodable(directions, charges) == ValidDirections(directions) /\ Total(charges) <= MaxU64

Stage(f, lane, directions, charges, spelling, bytes) ==
    LET payload == EncodePayload(bytes, Key(f, lane, directions, Commitment(bytes)), spelling)
    IN [tag |-> "stage", floor |-> f, lane |-> lane, provider |-> Provider,
        directions |-> directions, pass |-> 1, flags |-> Flags(lane), inputLen |-> bytes.size,
        inputSha |-> Commitment(bytes), childOmega |-> Commitment(bytes),
        payloadSha |-> Commitment(payload), charges |-> charges, total |-> Total(charges),
        payload |-> payload, size |-> payload.size + 1]

ParseHeader(bytes) ==
    /\ bytes.tag = "stage"
    /\ \E k \in DOMAIN FLOORS : bytes.floor = FLOORS[k]
    /\ bytes.lane \in AllLanes
    /\ ValidDirections(bytes.directions)
    /\ bytes.pass = 1
    /\ bytes.flags = Flags(bytes.lane)
    /\ Total(bytes.charges) <= MaxU64 /\ Total(bytes.charges) = bytes.total
    /\ bytes.payloadSha = Commitment(bytes.payload)

Decoded(stage) ==
    DecodePayload(stage.payload, stage.inputLen,
                  Key(stage.floor, stage.lane, stage.directions, stage.childOmega))

\* Mutant: the Omega of the child is not recomputed.
DecodesUncommitted(stage) ==
    /\ stage.provider = Provider
    /\ Decodable(stage.payload, stage.inputLen)
    /\ Commitment(Decoded(stage)) = stage.inputSha

\* decode_stage, after parse_header.
Decodes(stage) ==
    /\ stage.provider = Provider
    /\ Decodable(stage.payload, stage.inputLen)
    /\ Commitment(Decoded(stage)) = stage.inputSha
    /\ Commitment(Decoded(stage)) = stage.childOmega
-----------------------------------------------------------------------------
Init ==
    /\ pc = "encode"
    /\ edits = 0
    /\ request \in [lane : Lanes, directions : Requested, charge : DecoderCharges]
    /\ \E s \in Sources : input = Bytes(s)
    /\ child = input /\ floor = 0
    /\ archive = NoFile /\ disk = NoFile
    /\ headers = <<>> /\ external = 0

Charges(k) == IF k = Len(FLOORS) THEN <<request.charge, 0>> ELSE NoCharges

\* One turn of encode_nested.
EncodeFloor ==
    /\ pc = "encode" /\ floor < Len(FLOORS)
    /\ IF Encodable(request.directions, Charges(floor + 1))
         THEN /\ child' = Stage(FLOORS[floor + 1], request.lane, request.directions,
                                Charges(floor + 1), 0, child)
              /\ floor' = floor + 1
              /\ UNCHANGED pc
         ELSE pc' = "rejected" /\ UNCHANGED <<child, floor>>
    /\ UNCHANGED <<edits, request, input, archive, disk, headers, external>>

\* Another program's stage: other lanes, directions, charges and spellings, or
\* one field that is not the code's; the floors outside it commit to it.
ForeignStages(f, k) ==
    LET stage == Stage(f, request.lane, request.directions, Charges(k), 0, child)
    IN {Stage(f, lane, n, charges, spelling, child) :
            lane \in AllLanes, n \in Requested, spelling \in {0, 1},
            charges \in {NoCharges, <<1, 1>>, <<0, MaxU64>>, <<1, MaxU64>>}}
       \cup {[stage EXCEPT !.floor = g] : g \in {FLOORS[i] : i \in DOMAIN FLOORS} \cup {0}}
       \cup {[stage EXCEPT !.lane = lane] : lane \in AllLanes}
       \cup {[stage EXCEPT !.provider = "OTHER"]}
       \cup {[stage EXCEPT !.pass = 2]}
       \cup {[stage EXCEPT !.inputLen = @ + 1]}
       \cup {[stage EXCEPT !.total = @ + 1]}
       \cup {[stage EXCEPT !.payload = [tag |-> "empty", size |-> 0]]}
       \cup {[stage EXCEPT !.inputSha = Commitment(Decoded([stage EXCEPT !.childOmega = o])),
                           !.childOmega = o] : o \in {Commitment(input), Commitment(NoFile)}}
       \cup {LET payload == EncodePayload(child, Key(f, stage.lane, stage.directions, o), 0)
             IN [stage EXCEPT !.childOmega = o, !.payload = payload,
                              !.payloadSha = Commitment(payload)] :
                o \in {Commitment(input), Commitment(NoFile)}}

ForeignFloor ==
    /\ pc = "encode" /\ floor < Len(FLOORS)
    /\ edits < MaxEdits /\ edits' = edits + 1
    /\ child' \in ForeignStages(FLOORS[floor + 1], floor + 1)
    /\ floor' = floor + 1
    /\ UNCHANGED <<pc, request, input, archive, disk, headers, external>>

\* Mutant: the archive is written as soon as it is encoded.
EncodedUnread ==
    /\ pc = "encode"
    /\ floor = Len(FLOORS) \/ edits > 0
    /\ archive' = child /\ disk' = child
    /\ pc' = "unpack"
    /\ floor' = Len(FLOORS)
    /\ UNCHANGED <<edits, request, input, child, headers, external>>

\* pack decodes what it has encoded; a foreign file (perhaps of fewer floors)
\* is unpacked.
Encoded ==
    /\ pc = "encode"
    /\ floor = Len(FLOORS) \/ edits > 0
    /\ archive' = child
    /\ IF edits = 0 THEN pc' = "verify" /\ UNCHANGED disk
                    ELSE pc' = "unpack" /\ disk' = child
    /\ floor' = Len(FLOORS)
    /\ UNCHANGED <<edits, request, input, child, headers, external>>

\* One turn of decode_nested: preflight, floor order, decode, charges, and the
\* header of the child unless this is the innermost floor.
DecodeFloor ==
    /\ pc \in {"verify", "unpack"} /\ floor > 0
    /\ IF /\ ParseHeader(child)
          /\ child.floor = FLOORS[floor]
          /\ Decodes(child)
          /\ external + child.total <= MaxU64
          /\ floor > 1 => /\ ParseHeader(Decoded(child))
                          /\ Decoded(child).floor = FLOORS[floor - 1]
         THEN /\ child' = Decoded(child)
              /\ external' = external + child.total
              /\ headers' = <<[lane |-> child.lane, directions |-> child.directions,
                               charges |-> child.charges,
                               spelling |-> IF child.payload.tag = "code"
                                              THEN child.payload.spelling ELSE 0]>> \o headers
              /\ floor' = floor - 1
              /\ UNCHANGED pc
         ELSE pc' = "rejected" /\ UNCHANGED <<child, floor, headers, external>>
    /\ UNCHANGED <<edits, request, input, archive, disk>>

ChargedSizeFits == archive.size + external <= MaxU64

\* The rest of pack: compare, write the file; someone unpacks it later.
PackEnd ==
    /\ pc = "verify" /\ floor = 0
    /\ IF ChargedSizeFits /\ child = input
         THEN /\ disk' = archive /\ child' = archive
              /\ pc' = "unpack" /\ floor' = Len(FLOORS)
              /\ headers' = <<>> /\ external' = 0
         ELSE pc' = "rejected" /\ UNCHANGED <<disk, child, floor, headers, external>>
    /\ UNCHANGED <<edits, request, input, archive>>

\* The rest of unpack: child is what it writes.
UnpackEnd ==
    /\ pc = "unpack" /\ floor = 0
    /\ pc' = IF ChargedSizeFits THEN "done" ELSE "rejected"
    /\ UNCHANGED <<edits, request, input, child, floor, archive, disk, headers, external>>

Next == EncodeFloor \/ ForeignFloor \/ Encoded \/ DecodeFloor \/ PackEnd \/ UnpackEnd

Spec == Init /\ [][Next]_vars
-----------------------------------------------------------------------------
(* Properties.                                                             *)

\* What pack has left on disk unpacks, and to its input: whatever a header, a
\* charge total or a charged size cannot hold is found out before the write.
PackedUnpacks ==
    edits = 0 /\ disk # NoFile =>
        /\ pc # "rejected"
        /\ pc = "done" => child = input

\* An archive that is accepted is, but for the lane, directions, charges and
\* spelling each of its floors may choose, what encode_nested makes of the
\* output, and the charges it reports are those of its floors.
Rebuilt ==
    LET At[k \in 0 .. Len(FLOORS)] ==
            IF k = 0 THEN child
            ELSE LET h == headers[k]
                 IN Stage(FLOORS[k], h.lane, h.directions, h.charges, h.spelling, At[k - 1])
    IN At[Len(FLOORS)]

AllCharges ==
    LET Sum[k \in 0 .. Len(headers)] ==
            IF k = 0 THEN 0 ELSE Sum[k - 1] + Total(headers[k].charges)
    IN Sum[Len(headers)]

AcceptedAsEncoded == pc = "done" => disk = Rebuilt /\ external = AllCharges
=============================================================================
