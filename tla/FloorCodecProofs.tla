-------------------------- MODULE FloorCodecProofs --------------------------
(***************************************************************************)
(* What pack of the floor codec leaves on disk unpacks to its input, and   *)
(* whatever unpack accepts is what encode_nested makes of its output: for  *)
(* every list of floors, source, lane, number of directions and charge.    *)
(*                                                                         *)
(* The stages of an archive are named by a function of the floor: st[0] is *)
(* the input, st[k] the stage encoded at floor k.  pack walks it back once *)
(* before it writes, unpack once after; what the two walks add is that the *)
(* charges, which only the outermost floor carries, fit beside the size of *)
(* the archive: pack has found that out before it writes (IInv).           *)
(*                                                                         *)
(* Of an archive another program had a hand in, one only knows that each   *)
(* of its stages lies over another or over the input (Known).  That is     *)
(* enough: a stage that passes the checks is the one encode_stage makes of *)
(* its header and what it decodes to, so on the way down there is always a *)
(* tower tt of such stages from what is decoded now to the file, and a sum *)
(* of their charges (AcceptInv).                                           *)
(*                                                                         *)
(* Of the payload level: the control lanes predict what the lanes they     *)
(* control predict, so they code the same bits (LanesInv), and no payload  *)
(* takes either coder out of its interval (RangeInv).  The loops of the    *)
(* coder are functions of the number of turns; that such a function exists *)
(* is LoopRuns, what holds at its last turn is EveryTurn.                  *)
(*                                                                         *)
(* That a payload decodes to its input rests on the window: what the bits  *)
(* of the payload spell up to where the decoder has read, less what both   *)
(* sides have moved their intervals down by.  finish puts it into the last *)
(* interval of the encoder (FinishedInside), so it was inside all earlier  *)
(* ones (TurnInside, BitInside, ByteInside, TraceInside), and a decoder    *)
(* whose code is the window takes the encoder's turns and finds its bits   *)
(* and bytes (TurnMirrored, BitMirrored, ByteMirrored).  ReplayInv keeps   *)
(* the states the encoder went through and the decoder among them.         *)
(***************************************************************************)
EXTENDS FloorCodec, Numbers

Requests == [lane : Nested!AllLanes, directions : Nat, charge : Nat]

Empty == Nested!Bytes([name |-> "", size |-> 0])

\* A byte string as the codec knows it: there is one empty one.
Sized(bytes) ==
    /\ bytes.tag \in {"bytes", "stage"}
    /\ bytes.size \in Nat
    /\ bytes.size = 0 => bytes = Empty

\* What is encoded over what st has at the floor below.
Above(st, k) ==
    Nested!Stage(FLOORS[k], request.lane, request.directions, Nested!Charges(k), 0, st[k - 1])

Chain(st, n) ==
    /\ st[0] = input
    /\ \A k \in 0 .. n : Sized(st[k])
    /\ \A k \in 1 .. n : st[k] = Above(st, k)

\* Every floor up to n was encoded, so its header holds its directions and charges.
Held(n) == \A k \in 1 .. n : Nested!Encodable(request.directions, Nested!Charges(k))

Built == \E st : Chain(st, floor) /\ child = st[floor]

Walked ==
    /\ \E st : Chain(st, Len(FLOORS)) /\ child = st[floor] /\ archive = st[Len(FLOORS)]
    /\ Held(Len(FLOORS))
    /\ external = IF floor = Len(FLOORS) THEN 0 ELSE request.charge

TypeInv ==
    /\ nestedPc \in {"encode", "verify", "unpack", "done", "rejected"}
    /\ edits \in Nat
    /\ request \in Requests
    /\ floor \in 0 .. Len(FLOORS)
    /\ Sized(input) /\ input.tag = "bytes"

EncodeInv == nestedPc = "encode" => Built /\ Held(floor) /\ disk = Nested!NoFile /\ external = 0
VerifyInv == nestedPc = "verify" => Walked /\ disk = Nested!NoFile
UnpackInv == nestedPc = "unpack" => Walked /\ archive.size + request.charge <= MaxU64
EndInv == (nestedPc = "rejected" => disk = Nested!NoFile) /\ (nestedPc = "done" => child = input)

\* Nothing is claimed of archives another program had a hand in.
IInv == TypeInv /\ (edits = 0 => EncodeInv /\ VerifyInv /\ UnpackInv /\ EndInv)
-----------------------------------------------------------------------------
\* parse_header and decode_stage accept a stage and give a byte string back.
Returns(stage, f, charges, bytes) ==
    /\ Nested!ParseHeader(stage) /\ stage.floor = f
    /\ Nested!Decodes(stage) /\ Nested!Decoded(stage) = bytes
    /\ stage.total = Nested!Total(charges)

\* A stage that encode_stage makes of a byte string passes every check of
\* parse_header and decode_stage and gives the byte string back, empty or not.
LEMMA StageDecodes ==
    ASSUME Nested!NestedAssumption, NEW l \in Nested!AllLanes, NEW n \in Nat,
           NEW charges, Nested!Encodable(n, charges), NEW k \in 1 .. Len(FLOORS),
           NEW bytes, Sized(bytes),
           NEW stage, stage = Nested!Stage(FLOORS[k], l, n, charges, 0, bytes)
    PROVE  Returns(stage, FLOORS[k], charges, bytes) /\ Sized(stage)
<1> DEFINE key == Nested!Key(FLOORS[k], l, n, Nested!Commitment(bytes))
           coded == Nested!EncodePayload(bytes, key, 0)
<1> HIDE DEF key, coded
<1>1. /\ stage.tag = "stage" /\ stage.floor = FLOORS[k] /\ stage.lane = l
      /\ stage.provider = Nested!Provider /\ stage.directions = n /\ stage.pass = 1
      /\ stage.flags = Nested!Flags(l) /\ stage.inputLen = bytes.size
      /\ stage.inputSha = Nested!Commitment(bytes) /\ stage.childOmega = Nested!Commitment(bytes)
      /\ stage.payloadSha = Nested!Commitment(coded) /\ stage.charges = charges
      /\ stage.total = Nested!Total(charges) /\ stage.payload = coded
      /\ stage.size = coded.size + 1
  BY DEF Nested!Stage, key, coded
<1>2. coded.size = bytes.size /\ coded.size \in Nat
  BY DEF coded, Nested!EncodePayload, Sized
<1>3. Sized(stage)
  BY <1>1, <1>2 DEF Sized
<1>4. Nested!ParseHeader(stage)
  <2>1. \E j \in DOMAIN FLOORS : FLOORS[k] = FLOORS[j]
    BY DEF Nested!NestedAssumption
  <2>2. Nested!ValidDirections(n) /\ Nested!Total(charges) <= MaxU64
    BY DEF Nested!Encodable
  <2> QED
    BY <1>1, <2>1, <2>2 DEF Nested!ParseHeader
<1>5. Nested!Decoded(stage) = bytes
  <2>1. Nested!Decoded(stage) = Nested!DecodePayload(coded, bytes.size, key)
    BY <1>1 DEF Nested!Decoded, key
  <2>2. CASE bytes.size = 0
    BY <2>1, <2>2 DEF Nested!DecodePayload, Sized, Empty
  <2>3. CASE bytes.size # 0
    <3>1. coded = [tag |-> "code", key |-> key, of |-> bytes, spelling |-> 0,
                     size |-> bytes.size]
      BY <2>3 DEF coded, Nested!EncodePayload
    <3>2. coded.tag = "code" /\ coded.key = key /\ coded.of = bytes
      BY <3>1
    <3> QED
      BY <2>1, <2>3, <3>2 DEF Nested!DecodePayload
  <2> QED
    BY <2>2, <2>3
<1>6. Nested!Decodes(stage)
  BY <1>1, <1>2, <1>5 DEF Nested!Decodes, Nested!Decodable
<1> QED
  BY <1>1, <1>3, <1>4, <1>5, <1>6 DEF Returns

\* Every stage of a chain gives back what is below it.
LEMMA FloorReturns ==
    ASSUME Nested!NestedAssumption, TypeInv, NEW st, Chain(st, Len(FLOORS)), Held(Len(FLOORS)),
           NEW k \in 1 .. Len(FLOORS)
    PROVE  Returns(st[k], FLOORS[k], Nested!Charges(k), st[k - 1])
<1>1. st[k] = Nested!Stage(FLOORS[k], request.lane, request.directions, Nested!Charges(k), 0,
                           st[k - 1])
  BY DEF Chain, Above
<1>2. Nested!Encodable(request.directions, Nested!Charges(k))
  BY DEF Held
<1>3. request.lane \in Nested!AllLanes /\ request.directions \in Nat
  BY DEF TypeInv, Requests
<1>4. Sized(st[k - 1])
  <2>1. k - 1 \in 0 .. Len(FLOORS)
    BY DEF Nested!NestedAssumption
  <2> QED
    BY <2>1 DEF Chain
<1> HIDE DEF Nested!Charges
<1> QED
  BY <1>1, <1>2, <1>3, <1>4, StageDecodes

LEMMA OuterCharge ==
    ASSUME Nested!NestedAssumption, TypeInv, Held(Len(FLOORS)), NEW k \in 1 .. Len(FLOORS)
    PROVE  /\ Nested!Total(Nested!Charges(k)) = IF k = Len(FLOORS) THEN request.charge ELSE 0
           /\ request.charge \in Nat /\ request.charge <= MaxU64
<1>1. request.charge \in Nat
  BY DEF TypeInv, Requests
<1>2. Len(FLOORS) \in 1 .. Len(FLOORS)
  BY DEF Nested!NestedAssumption
<1>3. Nested!Total(Nested!Charges(Len(FLOORS))) <= MaxU64
  BY <1>2 DEF Held, Nested!Encodable
<1> QED
  BY <1>1, <1>3 DEF Nested!Charges, Nested!Total, Nested!NoCharges
-----------------------------------------------------------------------------
LEMMA InitInv ==
    ASSUME Nested!NestedAssumption, Nested!Init
    PROVE  IInv
<1>1. request \in Requests
  BY DEF Nested!NestedAssumption, Nested!Init, Requests
<1>2. Sized(input) /\ input.tag = "bytes"
  <2>1. PICK s \in ArchiveSources : input = Nested!Bytes(s)
    BY DEF Nested!Init
  <2>2. s.size \in Nat
    BY DEF Nested!NestedAssumption
  <2>3. input.tag = "bytes" /\ input.size = s.size
    BY <2>1 DEF Nested!Bytes
  <2>4. s.size = 0 => input = Empty
    BY <2>1 DEF Nested!Bytes, Empty
  <2> QED
    BY <2>2, <2>3, <2>4 DEF Sized
<1>3. 0 \in 0 .. Len(FLOORS)
  BY DEF Nested!NestedAssumption
<1>4. Built
  <2> DEFINE st == [k \in {0} |-> input]
  <2>1. st[0] = input
    OBVIOUS
  <2>2. floor = 0 /\ child = input
    BY DEF Nested!Init
  <2>3. \A k \in 0 .. 0 : k = 0
    OBVIOUS
  <2> HIDE DEF st
  <2>4. Chain(st, 0)
    BY <1>2, <2>1, <2>3 DEF Chain
  <2> QED
    BY <2>1, <2>2, <2>4 DEF Built
<1>5. Held(0)
  BY DEF Held
<1>6. TypeInv
  BY <1>1, <1>2, <1>3 DEF Nested!Init, TypeInv
<1> QED
  BY <1>4, <1>5, <1>6 DEF Nested!Init, IInv, EncodeInv, VerifyInv, UnpackInv, EndInv

LEMMA EncodeFloorInv ==
    ASSUME Nested!NestedAssumption, IInv, Nested!EncodeFloor
    PROVE  IInv'
<1>1. /\ nestedPc = "encode" /\ floor < Len(FLOORS) /\ Len(FLOORS) \in Nat /\ floor \in Nat
      /\ UNCHANGED <<edits, request, input, archive, disk, headers, external>>
  BY DEF Nested!NestedAssumption, Nested!EncodeFloor, IInv, TypeInv
<1>2. CASE ~Nested!Encodable(request.directions, Nested!Charges(floor + 1))
  <2>1. nestedPc' = "rejected" /\ UNCHANGED <<child, floor>>
    BY <1>2 DEF Nested!EncodeFloor
  <2>2. TypeInv'
    BY <1>1, <2>1 DEF IInv, TypeInv
  <2> QED
    BY <1>1, <2>1, <2>2 DEF IInv, EncodeInv, VerifyInv, UnpackInv, EndInv
<1>3. CASE Nested!Encodable(request.directions, Nested!Charges(floor + 1))
  <2>1. /\ child' = Nested!Stage(FLOORS[floor + 1], request.lane, request.directions,
                          Nested!Charges(floor + 1), 0, child)
        /\ floor' = floor + 1 /\ nestedPc' = "encode"
    BY <1>1, <1>3 DEF Nested!EncodeFloor
  <2>2. TypeInv'
    BY <1>1, <2>1 DEF IInv, TypeInv
  <2>3. ASSUME edits = 0 PROVE Built' /\ Held(floor)' /\ disk' = Nested!NoFile /\ external' = 0
    <3>0. Built /\ Held(floor) /\ disk = Nested!NoFile /\ external = 0
      BY <1>1, <2>3 DEF IInv, EncodeInv
    <3>1. PICK st : Chain(st, floor) /\ child = st[floor]
      BY <3>0 DEF Built
    <3>2. PICK tt : (\A k \in 0 .. floor : tt[k] = st[k]) /\ tt[floor + 1] = child'
      <4> DEFINE extended == [k \in 0 .. floor + 1 |-> IF k <= floor THEN st[k] ELSE child']
      <4>1. (\A k \in 0 .. floor : extended[k] = st[k]) /\ extended[floor + 1] = child'
        BY <1>1
      <4> QED
        BY <4>1
    <3>3. tt[floor + 1] = Above(tt, floor + 1)
      <4>1. (floor + 1) - 1 = floor /\ floor \in 0 .. floor
        BY <1>1
      <4> QED
        BY <2>1, <3>1, <3>2, <4>1 DEF Above
    <3>4. Sized(child')
      <4>1. request.lane \in Nested!AllLanes /\ request.directions \in Nat
        BY DEF IInv, TypeInv, Requests
      <4>2. Sized(child) /\ floor + 1 \in 1 .. Len(FLOORS)
        BY <1>1, <3>1 DEF Chain
      <4> HIDE DEF Nested!Charges
      <4> QED
        BY <1>3, <2>1, <4>1, <4>2, StageDecodes
    <3>5. Chain(tt, floor + 1)
      <4>1. tt[0] = input
        BY <1>1, <3>1, <3>2 DEF Chain
      <4>2. ASSUME NEW k \in 0 .. floor + 1 PROVE Sized(tt[k])
        <5>1. k \in 0 .. floor \/ k = floor + 1
          BY <1>1
        <5> QED
          BY <3>1, <3>2, <3>4, <5>1 DEF Chain
      <4>3. ASSUME NEW k \in 1 .. floor + 1 PROVE tt[k] = Above(tt, k)
        <5>1. CASE k = floor + 1
          BY <3>3, <5>1
        <5>2. CASE k \in 1 .. floor
          <6>1. tt[k] = st[k] /\ tt[k - 1] = st[k - 1]
            BY <1>1, <3>2, <5>2
          <6> QED
            BY <3>1, <5>2, <6>1 DEF Chain, Above
        <5> QED
          BY <1>1, <5>1, <5>2
      <4> QED
        BY <4>1, <4>2, <4>3 DEF Chain
    <3>6. Chain(tt, floor)'
      BY <1>1, <2>1, <3>5 DEF Chain, Above, Nested!Charges
    <3>7. Built'
      BY <2>1, <3>2, <3>6 DEF Built
    <3>8. Held(floor + 1)
      <4>1. \A k \in 1 .. floor + 1 : k \in 1 .. floor \/ k = floor + 1
        BY <1>1
      <4> QED
        BY <1>3, <3>0, <4>1 DEF Held
    <3>9. Held(floor)'
      BY <1>1, <2>1, <3>8 DEF Held, Nested!Charges
    <3> QED
      BY <1>1, <3>0, <3>7, <3>9
  <2> QED
    BY <1>1, <2>1, <2>2, <2>3 DEF IInv, EncodeInv, VerifyInv, UnpackInv, EndInv
<1> QED
  BY <1>2, <1>3

LEMMA ForeignFloorInv ==
    ASSUME Nested!NestedAssumption, IInv, Nested!ForeignFloor
    PROVE  IInv'
<1>1. /\ nestedPc = "encode" /\ floor < Len(FLOORS) /\ floor \in Nat /\ Len(FLOORS) \in Nat
      /\ edits \in Nat /\ edits' = edits + 1 /\ floor' = floor + 1
      /\ UNCHANGED <<nestedPc, request, input, archive, disk, headers, external>>
  BY DEF Nested!NestedAssumption, IInv, TypeInv, Nested!ForeignFloor
<1>2. TypeInv'
  BY <1>1 DEF IInv, TypeInv
<1>3. edits' # 0
  BY <1>1
<1> QED
  BY <1>2, <1>3 DEF IInv

LEMMA EncodedInv ==
    ASSUME Nested!NestedAssumption, IInv, Nested!Encoded
    PROVE  IInv'
<1>1. /\ nestedPc = "encode" /\ nestedPc' \in {"verify", "unpack"} /\ floor' = Len(FLOORS)
      /\ archive' = child /\ Len(FLOORS) \in Nat
      /\ UNCHANGED <<edits, request, input, child, headers, external>>
  BY DEF Nested!NestedAssumption, Nested!Encoded
<1>2. TypeInv'
  BY <1>1 DEF IInv, TypeInv
<1>3. ASSUME edits = 0
      PROVE  Walked' /\ disk' = Nested!NoFile /\ nestedPc' = "verify"
  <2>1. /\ floor = Len(FLOORS) /\ nestedPc' = "verify" /\ disk' = disk
        /\ Built /\ Held(floor) /\ disk = Nested!NoFile /\ external = 0
    BY <1>1, <1>3 DEF Nested!Encoded, IInv, EncodeInv
  <2>2. PICK st : Chain(st, Len(FLOORS)) /\ child = st[floor]
    BY <2>1 DEF Built
  <2>3. Chain(st, Len(FLOORS))' /\ child' = st[floor'] /\ archive' = st[Len(FLOORS)]
    BY <1>1, <2>1, <2>2 DEF Chain, Above, Nested!Charges
  <2>4. Held(Len(FLOORS))'
    BY <1>1, <2>1 DEF Held, Nested!Charges
  <2>5. Walked'
    BY <1>1, <2>1, <2>3, <2>4 DEF Walked
  <2> QED
    BY <2>1, <2>5
<1> QED
  BY <1>1, <1>2, <1>3 DEF IInv, EncodeInv, VerifyInv, UnpackInv, EndInv

\* A turn of decode_nested on an archive of encode_nested accepts its stage,
\* finds the header of the one below, and goes one floor down.
LEMMA DecodeFloorWalks ==
    ASSUME Nested!NestedAssumption, TypeInv, Walked, Nested!DecodeFloor
    PROVE  Walked' /\ nestedPc' = nestedPc
<1>1. /\ floor \in 1 .. Len(FLOORS) /\ Len(FLOORS) \in Nat
      /\ UNCHANGED <<edits, request, input, archive, disk>>
  BY DEF Nested!NestedAssumption, TypeInv, Nested!DecodeFloor
<1>2. PICK st : Chain(st, Len(FLOORS)) /\ child = st[floor] /\ archive = st[Len(FLOORS)]
  BY DEF Walked
<1>3. Held(Len(FLOORS)) /\ external = IF floor = Len(FLOORS) THEN 0 ELSE request.charge
  BY DEF Walked
<1>4. Returns(child, FLOORS[floor], Nested!Charges(floor), st[floor - 1])
  BY <1>1, <1>2, <1>3, FloorReturns
<1>5. /\ child.total = IF floor = Len(FLOORS) THEN request.charge ELSE 0
      /\ request.charge \in Nat /\ request.charge <= MaxU64
  BY <1>1, <1>3, <1>4, OuterCharge DEF Returns
<1>6. external + child.total <= MaxU64 /\ external + child.total = request.charge
  BY <1>3, <1>5
<1>7. floor > 1 => /\ Nested!ParseHeader(Nested!Decoded(child))
                   /\ Nested!Decoded(child).floor = FLOORS[floor - 1]
  <2> SUFFICES ASSUME floor > 1
               PROVE  /\ Nested!ParseHeader(Nested!Decoded(child))
                      /\ Nested!Decoded(child).floor = FLOORS[floor - 1]
    OBVIOUS
  <2>1. floor - 1 \in 1 .. Len(FLOORS)
    BY <1>1
  <2>2. Returns(st[floor - 1], FLOORS[floor - 1], Nested!Charges(floor - 1), st[(floor - 1) - 1])
    BY <1>2, <1>3, <2>1, FloorReturns
  <2> QED
    BY <1>4, <2>2 DEF Returns
<1>8. /\ child' = st[floor - 1] /\ external' = request.charge
      /\ floor' = floor - 1 /\ nestedPc' = nestedPc
  BY <1>1, <1>4, <1>6, <1>7 DEF Nested!DecodeFloor, Returns
<1>9. Chain(st, Len(FLOORS))' /\ Held(Len(FLOORS))'
  BY <1>1, <1>2, <1>3 DEF Chain, Above, Nested!Charges, Held
<1>10. external' = IF floor' = Len(FLOORS) THEN 0 ELSE request'.charge
  BY <1>1, <1>8
<1> QED
  BY <1>1, <1>2, <1>8, <1>9, <1>10 DEF Walked

LEMMA DecodeFloorInv ==
    ASSUME Nested!NestedAssumption, IInv, Nested!DecodeFloor
    PROVE  IInv'
<1>1. /\ nestedPc \in {"verify", "unpack"} /\ nestedPc' \in {nestedPc, "rejected"}
      /\ floor \in 1 .. Len(FLOORS) /\ floor' \in {floor, floor - 1} /\ Len(FLOORS) \in Nat
      /\ UNCHANGED <<edits, request, input, archive, disk>>
  BY DEF Nested!NestedAssumption, IInv, TypeInv, Nested!DecodeFloor
<1>2. TypeInv'
  BY <1>1 DEF IInv, TypeInv
<1>3. ASSUME edits = 0 PROVE Walked' /\ nestedPc' = nestedPc
  <2>1. Walked
    BY <1>1, <1>3 DEF IInv, VerifyInv, UnpackInv
  <2> QED
    BY <2>1, DecodeFloorWalks DEF IInv
<1> QED
  BY <1>1, <1>2, <1>3 DEF IInv, EncodeInv, VerifyInv, UnpackInv, EndInv

\* At the end of a walk child is the input and every charge was counted.
LEMMA WalkEnds ==
    ASSUME Nested!NestedAssumption, Walked, floor = 0
    PROVE  child = input /\ external = request.charge
<1>1. Len(FLOORS) # 0
  BY DEF Nested!NestedAssumption
<1> QED
  BY <1>1 DEF Walked, Chain

LEMMA PackEndInv ==
    ASSUME Nested!NestedAssumption, IInv, Nested!PackEnd
    PROVE  IInv'
<1>1. /\ nestedPc = "verify" /\ floor = 0 /\ nestedPc' \in {"unpack", "rejected"}
      /\ floor' \in {0, Len(FLOORS)} /\ Len(FLOORS) \in Nat
      /\ UNCHANGED <<edits, request, input, archive>>
  BY DEF Nested!NestedAssumption, Nested!PackEnd
<1>2. TypeInv'
  BY <1>1 DEF IInv, TypeInv
<1>3. ASSUME edits = 0, nestedPc' = "unpack"
      PROVE  Walked' /\ archive.size + request.charge <= MaxU64
  <2>1. Walked
    BY <1>1, <1>3 DEF IInv, VerifyInv
  <2>2. /\ Nested!ChargedSizeFits /\ child' = archive /\ floor' = Len(FLOORS) /\ external' = 0
    BY <1>3 DEF Nested!PackEnd
  <2>3. external = request.charge
    BY <1>1, <2>1, WalkEnds
  <2>4. PICK st : Chain(st, Len(FLOORS)) /\ archive = st[Len(FLOORS)]
    BY <2>1 DEF Walked
  <2>5. Chain(st, Len(FLOORS))'
    BY <1>1, <2>4 DEF Chain, Above, Nested!Charges
  <2>6. Held(Len(FLOORS))'
    BY <1>1, <2>1 DEF Walked, Held, Nested!Charges
  <2>7. Walked'
    BY <1>1, <2>2, <2>4, <2>5, <2>6 DEF Walked
  <2> QED
    BY <2>2, <2>3, <2>7 DEF Nested!ChargedSizeFits
<1>4. ASSUME edits = 0, nestedPc' = "rejected"
      PROVE  disk' = Nested!NoFile
  <2>1. disk = Nested!NoFile
    BY <1>1, <1>4 DEF IInv, VerifyInv
  <2> QED
    BY <1>4, <2>1 DEF Nested!PackEnd
<1> QED
  BY <1>1, <1>2, <1>3, <1>4 DEF IInv, EncodeInv, VerifyInv, UnpackInv, EndInv

LEMMA UnpackEndInv ==
    ASSUME Nested!NestedAssumption, IInv, Nested!UnpackEnd
    PROVE  IInv'
<1>1. /\ nestedPc = "unpack" /\ floor = 0 /\ nestedPc' \in {"done", "rejected"}
      /\ UNCHANGED <<edits, request, input, child, floor, archive, disk, headers, external>>
  BY DEF Nested!UnpackEnd
<1>2. TypeInv'
  BY <1>1 DEF IInv, TypeInv
<1>3. ASSUME edits = 0 PROVE nestedPc' = "done" /\ child' = input'
  <2>1. Walked /\ archive.size + request.charge <= MaxU64
    BY <1>1, <1>3 DEF IInv, UnpackInv
  <2>2. child = input /\ external = request.charge
    BY <1>1, <2>1, WalkEnds
  <2> QED
    BY <1>1, <2>1, <2>2 DEF Nested!UnpackEnd, Nested!ChargedSizeFits
<1> QED
  BY <1>1, <1>2, <1>3 DEF IInv, EncodeInv, VerifyInv, UnpackInv, EndInv

LEMMA StutterInv ==
    ASSUME IInv, UNCHANGED Nested!vars
    PROVE  IInv'
<1>1. UNCHANGED <<nestedPc, edits, request, input, child, floor, archive, disk, headers, external>>
  BY DEF Nested!vars
<1>2. TypeInv'
  BY <1>1 DEF IInv, TypeInv
<1>3. (Built => Built') /\ (Held(floor) => Held(floor)')
  BY <1>1 DEF Built, Chain, Above, Held, Nested!Charges
<1>4. Walked => Walked'
  BY <1>1 DEF Walked, Chain, Above, Held, Nested!Charges
<1> QED
  BY <1>1, <1>2, <1>3, <1>4 DEF IInv, EncodeInv, VerifyInv, UnpackInv, EndInv

LEMMA NextInv ==
    ASSUME Nested!NestedAssumption, IInv, [Nested!Next]_(Nested!vars)
    PROVE  IInv'
BY EncodeFloorInv, ForeignFloorInv, EncodedInv, DecodeFloorInv, PackEndInv, UnpackEndInv,
   StutterInv DEF Nested!Next

LEMMA CodecInvInit == ASSUME CodecInit PROVE NestedIdle \/ IInv
BY ArchiveAssumption, InitInv DEF CodecInit, NestedAtStart, NestedIdle

LEMMA CodecInvNext ==
    ASSUME NestedIdle \/ IInv, [CodecNext]_<<vars, nestedVars>>
    PROVE  (NestedIdle \/ IInv)'
<1>1. CASE NestedIdle /\ (UNCHANGED nestedVars \/ CodecNext)
  BY <1>1 DEF NestedIdle, CodecNext, nestedVars
<1>2. CASE ~NestedIdle /\ CodecNext
  BY <1>2, ArchiveAssumption, NextInv DEF CodecNext
<1>3. CASE ~NestedIdle /\ UNCHANGED nestedVars
  BY <1>3, ArchiveAssumption, NextInv DEF nestedVars, Nested!vars
<1> QED
  BY <1>1, <1>2, <1>3

LEMMA InvImplies == NestedIdle \/ IInv => PackedUnpacks
BY DEF IInv, EndInv, PackedUnpacks, NestedIdle, Nested!PackedUnpacks

\* Whatever pack of the floor codec has put on disk is never refused by unpack,
\* and gives the input back.
THEOREM PackedRestored == CodecSpec => []PackedUnpacks
<1>1. CodecInit => NestedIdle \/ IInv
  BY CodecInvInit
<1>2. (NestedIdle \/ IInv) /\ [CodecNext]_<<vars, nestedVars>> => (NestedIdle \/ IInv)'
  BY CodecInvNext
<1> QED
  BY <1>1, <1>2, InvImplies, PTL DEF CodecSpec
-----------------------------------------------------------------------------

\* A stage has the fields encode_stage writes and no others.
StageFields(s) ==
    s = [tag |-> "stage", floor |-> s.floor, lane |-> s.lane, provider |-> s.provider,
         directions |-> s.directions, pass |-> s.pass, flags |-> s.flags,
         inputLen |-> s.inputLen, inputSha |-> s.inputSha, childOmega |-> s.childOmega,
         payloadSha |-> s.payloadSha, charges |-> s.charges, total |-> s.total,
         payload |-> s.payload, size |-> s.size]

NoPayload == [tag |-> "empty", size |-> 0]

PayloadOf(coded, below) ==
    \/ coded = NoPayload
    \/ \E key : \E spelling \in {0, 1} :
          /\ below.size # 0
          /\ coded = [tag |-> "code", key |-> key, of |-> below, spelling |-> spelling,
                      size |-> below.size]

\* What any program at hand wraps around a byte string.
Over(s, below) ==
    /\ StageFields(s)
    /\ s.lane \in Nested!AllLanes /\ s.directions \in Nat /\ s.charges \in Nat \X Nat
    /\ \E committed : /\ s.childOmega = Nested!Commitment(committed)
                      /\ committed.tag # "unfolded"
    /\ PayloadOf(s.payload, below)
    /\ s.payloadSha = Nested!Commitment(s.payload) => s.size = s.payload.size + 1

\* Another stage with the same payload and commitment is one over the same bytes.
LEMMA OverToo ==
    ASSUME NEW s, NEW below, Over(s, below), NEW t, StageFields(t),
           t.lane \in Nested!AllLanes, t.directions = s.directions,
           t.charges = s.charges, t.payload = s.payload, t.payloadSha = s.payloadSha,
           t.size = s.size, t.childOmega = s.childOmega
    PROVE  Over(t, below)
BY DEF Over

LEMMA StageOver ==
    ASSUME NEW f, NEW l \in Nested!AllLanes, NEW n \in Nat, NEW c \in Nat \X Nat,
           NEW sp \in {0, 1}, NEW below, below.tag # "unfolded"
    PROVE  Over(Nested!Stage(f, l, n, c, sp, below), below)
<1> DEFINE key == Nested!Key(f, l, n, Nested!Commitment(below))
           coded == Nested!EncodePayload(below, key, sp)
           s == Nested!Stage(f, l, n, c, sp, below)
<1> HIDE DEF key
<1>1. PayloadOf(coded, below)
  BY DEF PayloadOf, Nested!EncodePayload, NoPayload
<1> HIDE DEF coded
<1>2. s = [tag |-> "stage", floor |-> f, lane |-> l, provider |-> Nested!Provider,
        directions |-> n, pass |-> 1, flags |-> Nested!Flags(l), inputLen |-> below.size,
        inputSha |-> Nested!Commitment(below), childOmega |-> Nested!Commitment(below),
        payloadSha |-> Nested!Commitment(coded), charges |-> c, total |-> Nested!Total(c),
        payload |-> coded, size |-> coded.size + 1]
  BY DEF coded, key, Nested!Stage
<1> HIDE DEF s
<1>3. StageFields(s)
  BY <1>2 DEF StageFields
<1>4. /\ s.lane = l /\ s.directions = n /\ s.charges = c /\ s.payload = coded
      /\ s.childOmega = Nested!Commitment(below) /\ s.size = s.payload.size + 1
  BY <1>2
<1>5. Over(s, below)
  BY <1>1, <1>3, <1>4 DEF Over
<1> QED
  BY <1>5 DEF s

\* One field may be another one.
LEMMA EditOver ==
    ASSUME NEW s, NEW below, Over(s, below), NEW g, NEW l \in Nested!AllLanes
    PROVE  /\ Over([s EXCEPT !.floor = g], below)
           /\ Over([s EXCEPT !.lane = l], below)
           /\ Over([s EXCEPT !.provider = g], below)
           /\ Over([s EXCEPT !.pass = g], below)
           /\ Over([s EXCEPT !.inputLen = g], below)
           /\ Over([s EXCEPT !.total = g], below)
<1>1. StageFields(s) /\ s.lane \in Nested!AllLanes
  BY DEF Over
<1>2. Over([s EXCEPT !.floor = g], below)
  <2>1. PICK t : t = [s EXCEPT !.floor = g]
    OBVIOUS
  <2>2. /\ StageFields(t) /\ t.lane \in Nested!AllLanes /\ t.directions = s.directions
        /\ t.charges = s.charges /\ t.childOmega = s.childOmega
        /\ t.payload = s.payload /\ t.payloadSha = s.payloadSha /\ t.size = s.size
    BY <1>1, <2>1 DEF StageFields
  <2> QED
    BY <2>1, <2>2, OverToo
<1>3. Over([s EXCEPT !.lane = l], below)
  <2>1. PICK t : t = [s EXCEPT !.lane = l]
    OBVIOUS
  <2>2. /\ StageFields(t) /\ t.lane \in Nested!AllLanes /\ t.directions = s.directions
        /\ t.charges = s.charges /\ t.childOmega = s.childOmega
        /\ t.payload = s.payload /\ t.payloadSha = s.payloadSha /\ t.size = s.size
    BY <1>1, <2>1 DEF StageFields
  <2> QED
    BY <2>1, <2>2, OverToo
<1>4. Over([s EXCEPT !.provider = g], below)
  <2>1. PICK t : t = [s EXCEPT !.provider = g]
    OBVIOUS
  <2>2. /\ StageFields(t) /\ t.lane \in Nested!AllLanes /\ t.directions = s.directions
        /\ t.charges = s.charges /\ t.childOmega = s.childOmega
        /\ t.payload = s.payload /\ t.payloadSha = s.payloadSha /\ t.size = s.size
    BY <1>1, <2>1 DEF StageFields
  <2> QED
    BY <2>1, <2>2, OverToo
<1>5. Over([s EXCEPT !.pass = g], below)
  <2>1. PICK t : t = [s EXCEPT !.pass = g]
    OBVIOUS
  <2>2. /\ StageFields(t) /\ t.lane \in Nested!AllLanes /\ t.directions = s.directions
        /\ t.charges = s.charges /\ t.childOmega = s.childOmega
        /\ t.payload = s.payload /\ t.payloadSha = s.payloadSha /\ t.size = s.size
    BY <1>1, <2>1 DEF StageFields
  <2> QED
    BY <2>1, <2>2, OverToo
<1>6. Over([s EXCEPT !.inputLen = g], below)
  <2>1. PICK t : t = [s EXCEPT !.inputLen = g]
    OBVIOUS
  <2>2. /\ StageFields(t) /\ t.lane \in Nested!AllLanes /\ t.directions = s.directions
        /\ t.charges = s.charges /\ t.childOmega = s.childOmega
        /\ t.payload = s.payload /\ t.payloadSha = s.payloadSha /\ t.size = s.size
    BY <1>1, <2>1 DEF StageFields
  <2> QED
    BY <2>1, <2>2, OverToo
<1>7. Over([s EXCEPT !.total = g], below)
  <2>1. PICK t : t = [s EXCEPT !.total = g]
    OBVIOUS
  <2>2. /\ StageFields(t) /\ t.lane \in Nested!AllLanes /\ t.directions = s.directions
        /\ t.charges = s.charges /\ t.childOmega = s.childOmega
        /\ t.payload = s.payload /\ t.payloadSha = s.payloadSha /\ t.size = s.size
    BY <1>1, <2>1 DEF StageFields
  <2> QED
    BY <2>1, <2>2, OverToo
<1> QED
  BY <1>2, <1>3, <1>4, <1>5, <1>6, <1>7

\* So may the payload, with what is said of it and what it is keyed with.
LEMMA PayloadEditOver ==
    ASSUME NEW s, NEW below, Over(s, below), s.payloadSha = Nested!Commitment(s.payload),
           s.payload.size = IF below.size = 0 THEN 0 ELSE below.size,
           NEW known, known.tag # "unfolded", NEW hash,
           NEW coded, PayloadOf(coded, below), coded.size = s.payload.size
    PROVE  /\ Over([s EXCEPT !.payload = NoPayload], below)
           /\ Over([s EXCEPT !.inputSha = hash, !.childOmega = Nested!Commitment(known)], below)
           /\ Over([s EXCEPT !.childOmega = Nested!Commitment(known), !.payload = coded,
                             !.payloadSha = Nested!Commitment(coded)], below)
<1>1. StageFields(s) /\ s.lane \in Nested!AllLanes
  BY DEF Over
<1>2. Over([s EXCEPT !.payload = NoPayload], below)
  <2>1. PICK t : t = [s EXCEPT !.payload = NoPayload]
    OBVIOUS
  <2>2. /\ StageFields(t) /\ t.lane \in Nested!AllLanes /\ t.directions = s.directions
        /\ t.charges = s.charges /\ t.childOmega = s.childOmega
        /\ t.payload = NoPayload /\ t.payloadSha = s.payloadSha /\ t.size = s.size
    BY <1>1, <2>1 DEF StageFields
  <2>3. ASSUME t.payloadSha = Nested!Commitment(t.payload) PROVE t.size = t.payload.size + 1
    <3>1. s.payload = NoPayload
      BY <2>2, <2>3 DEF Nested!Commitment
    <3> QED
      BY <2>2, <3>1 DEF Over
  <2>4. PayloadOf(t.payload, below)
    BY <2>2 DEF PayloadOf
  <2>5. Over(t, below)
    BY <2>2, <2>3, <2>4 DEF Over
  <2> QED
    BY <2>1, <2>5
<1>3. Over([s EXCEPT !.inputSha = hash, !.childOmega = Nested!Commitment(known)], below)
  <2>0. PICK t0 : t0 = [s EXCEPT !.inputSha = hash]
    OBVIOUS
  <2>a. /\ StageFields(t0) /\ t0.lane = s.lane /\ t0.directions = s.directions
        /\ t0.charges = s.charges
        /\ t0.payload = s.payload /\ t0.payloadSha = s.payloadSha /\ t0.size = s.size
    BY <1>1, <2>0 DEF StageFields
  <2>1. PICK t : t = [t0 EXCEPT !.childOmega = Nested!Commitment(known)]
    OBVIOUS
  <2>b. t = [s EXCEPT !.inputSha = hash, !.childOmega = Nested!Commitment(known)]
    BY <2>0, <2>1, Zenon
  <2>2. /\ StageFields(t) /\ t.lane \in Nested!AllLanes /\ t.directions = s.directions
        /\ t.charges = s.charges /\ t.childOmega = Nested!Commitment(known)
        /\ t.payload = s.payload /\ t.payloadSha = s.payloadSha /\ t.size = s.size
    BY <1>1, <2>a, <2>1 DEF StageFields
  <2>3. Over(t, below)
    BY <2>2 DEF Over
  <2> QED
    BY <2>b, <2>3
<1>4. Over([s EXCEPT !.childOmega = Nested!Commitment(known), !.payload = coded,
                    !.payloadSha = Nested!Commitment(coded)], below)
  <2>0. PICK t0 : t0 = [s EXCEPT !.childOmega = Nested!Commitment(known)]
    OBVIOUS
  <2>a. /\ StageFields(t0) /\ t0.lane = s.lane /\ t0.directions = s.directions
        /\ t0.charges = s.charges
        /\ t0.childOmega = Nested!Commitment(known) /\ t0.size = s.size
    BY <1>1, <2>0 DEF StageFields
  <2>c. PICK t1 : t1 = [t0 EXCEPT !.payload = coded]
    OBVIOUS
  <2>d. /\ StageFields(t1) /\ t1.lane = s.lane /\ t1.directions = s.directions
        /\ t1.charges = s.charges
        /\ t1.childOmega = Nested!Commitment(known) /\ t1.payload = coded /\ t1.size = s.size
    BY <2>a, <2>c DEF StageFields
  <2>1. PICK t : t = [t1 EXCEPT !.payloadSha = Nested!Commitment(coded)]
    OBVIOUS
  <2>b. t = [s EXCEPT !.childOmega = Nested!Commitment(known), !.payload = coded,
                              !.payloadSha = Nested!Commitment(coded)]
    BY <2>0, <2>c, <2>1, Zenon
  <2>2. /\ StageFields(t) /\ t.lane \in Nested!AllLanes /\ t.directions = s.directions
        /\ t.charges = s.charges /\ t.childOmega = Nested!Commitment(known)
        /\ t.payload = coded /\ t.payloadSha = Nested!Commitment(coded) /\ t.size = s.size
    BY <1>1, <2>d, <2>1 DEF StageFields
  <2>3. Over(t, below)
    BY <2>2 DEF Over
  <2> QED
    BY <2>b, <2>3
<1> QED
  BY <1>2, <1>3, <1>4

LEMMA ForeignOver ==
    ASSUME Nested!NestedAssumption, TypeInv, child.tag # "unfolded", NEW f,
           NEW k \in 1 .. Len(FLOORS), NEW t \in Nested!ForeignStages(f, k)
    PROVE  Over(t, child)
<1>1. /\ request.lane \in Nested!AllLanes /\ request.directions \in Nat /\ request.charge \in Nat
      /\ input.tag # "unfolded"
  BY DEF TypeInv, Requests
<1>2. Nested!Charges(k) \in Nat \X Nat
  BY <1>1 DEF Nested!Charges, Nested!NoCharges
<1>0. PICK s : s = Nested!Stage(f, request.lane, request.directions, Nested!Charges(k), 0, child)
  OBVIOUS
<1>3. Over(s, child)
  <2>1. PICK l \in Nested!AllLanes, n \in Nat, c \in Nat \X Nat :
           l = request.lane /\ n = request.directions /\ c = Nested!Charges(k)
    BY <1>1, <1>2
  <2>2. \A sp \in {0, 1} : Over(Nested!Stage(f, l, n, c, sp, child), child)
    BY StageOver
  <2> QED
    BY <1>0, <2>1, <2>2
<1>4. /\ s.payload.size = IF child.size = 0 THEN 0 ELSE child.size
      /\ s.payloadSha = Nested!Commitment(s.payload)
  <2>1. PICK coded : coded = Nested!EncodePayload(child, Nested!Key(f, request.lane,
                                  request.directions, Nested!Commitment(child)), 0)
    OBVIOUS
  <2>2. coded.size = IF child.size = 0 THEN 0 ELSE child.size
    BY <2>1 DEF Nested!EncodePayload
  <2>3. s.payload = coded /\ s.payloadSha = Nested!Commitment(coded)
    BY <1>0, <2>1 DEF Nested!Stage
  <2> QED
    BY <2>2, <2>3
<1>5. ASSUME NEW key, NEW coded, coded = Nested!EncodePayload(child, key, 0)
      PROVE  PayloadOf(coded, child) /\ coded.size = s.payload.size
  BY <1>4, <1>5 DEF PayloadOf, Nested!EncodePayload, NoPayload
<1>6. ASSUME NEW o \in {Nested!Commitment(input), Nested!Commitment(Nested!NoFile)}
      PROVE  \E known : o = Nested!Commitment(known) /\ known.tag # "unfolded"
  BY <1>1 DEF Nested!NoFile
<1>7. ASSUME NEW l \in Nested!AllLanes, NEW n \in ArchiveRequests, NEW sp \in {0, 1},
             NEW c \in {Nested!NoCharges, <<1, 1>>, <<0, MaxU64>>, <<1, MaxU64>>},
             t = Nested!Stage(f, l, n, c, sp, child)
      PROVE  Over(t, child)
  <2>2. n \in Nat /\ c \in Nat \X Nat
    BY DEF Nested!NestedAssumption, Nested!NoCharges
  <2> QED
    BY <1>7, <2>2, StageOver
<1>8. /\ \A g : Over([s EXCEPT !.floor = g], child)
      /\ \A l \in Nested!AllLanes : Over([s EXCEPT !.lane = l], child)
      /\ Over([s EXCEPT !.provider = "OTHER"], child)
      /\ Over([s EXCEPT !.pass = 2], child)
      /\ \A g : Over([s EXCEPT !.inputLen = g], child)
      /\ \A g : Over([s EXCEPT !.total = g], child)
  BY <1>1, <1>3, EditOver
<1>9. /\ Over([s EXCEPT !.payload = NoPayload], child)
      /\ \A known, hash : known.tag # "unfolded" =>
            Over([s EXCEPT !.inputSha = hash, !.childOmega = Nested!Commitment(known)], child)
      /\ \A known, coded : known.tag # "unfolded" /\ PayloadOf(coded, child)
                             /\ coded.size = s.payload.size =>
            Over([s EXCEPT !.childOmega = Nested!Commitment(known), !.payload = coded,
                           !.payloadSha = Nested!Commitment(coded)], child)
  <2>1. ASSUME NEW known, NEW hash, NEW coded, known.tag # "unfolded", PayloadOf(coded, child),
               coded.size = s.payload.size
        PROVE  /\ Over([s EXCEPT !.payload = NoPayload], child)
               /\ Over([s EXCEPT !.inputSha = hash, !.childOmega = Nested!Commitment(known)], child)
               /\ Over([s EXCEPT !.childOmega = Nested!Commitment(known), !.payload = coded,
                                  !.payloadSha = Nested!Commitment(coded)], child)
    BY <1>3, <1>4, <2>1, PayloadEditOver
  <2>2. \E coded : PayloadOf(coded, child) /\ coded.size = s.payload.size
    BY <1>3 DEF Over
  <2> QED
    BY <1>1, <2>1, <2>2
<1>10. ASSUME NEW o \in {Nested!Commitment(input), Nested!Commitment(Nested!NoFile)}, NEW hash
       PROVE  Over([s EXCEPT !.inputSha = hash, !.childOmega = o], child)
  BY <1>6, <1>9
<1>11. ASSUME NEW o \in {Nested!Commitment(input), Nested!Commitment(Nested!NoFile)}, NEW key,
              NEW coded, coded = Nested!EncodePayload(child, key, 0)
       PROVE  Over([s EXCEPT !.childOmega = o, !.payload = coded,
                             !.payloadSha = Nested!Commitment(coded)], child)
  <2>1. PICK known : o = Nested!Commitment(known) /\ known.tag # "unfolded"
    BY <1>6
  <2>2. PayloadOf(coded, child) /\ coded.size = s.payload.size
    BY <1>5, <1>11
  <2> QED
    BY <1>9, <2>1, <2>2
<1> DEFINE Known == {Nested!Commitment(input), Nested!Commitment(Nested!NoFile)}
           Edited(x) ==
               {[x EXCEPT !.floor = g] : g \in {FLOORS[i] : i \in DOMAIN FLOORS} \cup {0}}
               \cup {[x EXCEPT !.lane = l] : l \in Nested!AllLanes}
               \cup {[x EXCEPT !.provider = "OTHER"]}
               \cup {[x EXCEPT !.pass = 2]}
               \cup {[x EXCEPT !.inputLen = @ + 1]}
               \cup {[x EXCEPT !.total = @ + 1]}
               \cup {[x EXCEPT !.payload = [tag |-> "empty", size |-> 0]]}
           S1 == {Nested!Stage(f, l, n, c, sp, child) :
                    l \in Nested!AllLanes, n \in ArchiveRequests, sp \in {0, 1},
                    c \in {Nested!NoCharges, <<1, 1>>, <<0, MaxU64>>, <<1, MaxU64>>}}
           S2(x) == {[x EXCEPT !.inputSha =
                              Nested!Commitment(Nested!Decoded([x EXCEPT !.childOmega = o])),
                            !.childOmega = o] : o \in Known}
           Coded(x, o) == Nested!EncodePayload(child, Nested!Key(f, x.lane, x.directions, o), 0)
           S3(x) == {[x EXCEPT !.childOmega = o, !.payload = Coded(x, o),
                            !.payloadSha = Nested!Commitment(Coded(x, o))] : o \in Known}
<1>12. t \in S1 \cup Edited(s) \cup S2(s) \cup S3(s)
  <2> DEFINE s0 == Nested!Stage(f, request.lane, request.directions, Nested!Charges(k), 0, child)
  <2>1. t \in S1 \cup Edited(s0) \cup S2(s0) \cup S3(s0)
    BY SMTT(60) DEF Nested!ForeignStages
  <2>2. s = s0
    BY <1>0
  <2> HIDE DEF S1, Edited, S2, S3, s0
  <2> QED
    BY <2>1, <2>2
<1>13. CASE t \in S1
  BY <1>7, <1>13
<1>14. CASE t \in S2(s)
  <2>1. PICK o \in Known : t = [s EXCEPT !.inputSha =
             Nested!Commitment(Nested!Decoded([s EXCEPT !.childOmega = o])), !.childOmega = o]
    BY <1>14
  <2> QED
    BY <1>10, <2>1
<1>15. CASE t \in S3(s)
  <2>1. PICK o \in Known : t = [s EXCEPT !.childOmega = o, !.payload = Coded(s, o),
                            !.payloadSha = Nested!Commitment(Coded(s, o))]
    BY <1>15
  <2> QED
    BY <1>11, <2>1
<1>16. CASE t \in Edited(s)
  <2>1. \/ \E g : t = [s EXCEPT !.floor = g]
        \/ \E l \in Nested!AllLanes : t = [s EXCEPT !.lane = l]
        \/ t = [s EXCEPT !.provider = "OTHER"]
        \/ t = [s EXCEPT !.pass = 2]
        \/ t = [s EXCEPT !.inputLen = s.inputLen + 1]
        \/ t = [s EXCEPT !.total = s.total + 1]
        \/ t = [s EXCEPT !.payload = NoPayload]
    BY <1>16, Zenon DEF NoPayload
  <2> HIDE DEF Edited
  <2>2. CASE \E g : t = [s EXCEPT !.floor = g]
    BY <1>8, <2>2, ZenonT(30)
  <2>3. CASE \E l \in Nested!AllLanes : t = [s EXCEPT !.lane = l]
    BY <1>8, <2>3
  <2>4. CASE t = [s EXCEPT !.provider = "OTHER"] \/ t = [s EXCEPT !.pass = 2]
    BY <1>8, <2>4
  <2>5. CASE t = [s EXCEPT !.inputLen = s.inputLen + 1]
    <3>1. PICK g : g = s.inputLen + 1
      OBVIOUS
    <3>2. t = [s EXCEPT !.inputLen = g]
      BY <2>5, <3>1, Zenon
    <3> QED
      BY <1>8, <3>2
  <2>7. CASE t = [s EXCEPT !.total = s.total + 1]
    <3>1. PICK g : g = s.total + 1
      OBVIOUS
    <3>2. t = [s EXCEPT !.total = g]
      BY <2>7, <3>1, Zenon
    <3> QED
      BY <1>8, <3>2
  <2>6. CASE t = [s EXCEPT !.payload = NoPayload]
    BY <1>9, <2>6
  <2> QED
    BY <2>1, <2>2, <2>3, <2>4, <2>5, <2>6, <2>7
<1> HIDE DEF S1, S2, S3, Edited
<1> QED
  BY <1>12, <1>13, <1>14, <1>15, <1>16
-----------------------------------------------------------------------------
Layered(st, n) == st[0].tag = "bytes" /\ \A k \in 1 .. n : Over(st[k], st[k - 1])

\* What an archive may hold at any depth.
Known(v) == \E n \in Nat : \E st : Layered(st, n) /\ v = st[n]

LEMMA BytesKnown ==
    ASSUME NEW v, v.tag = "bytes"
    PROVE  Known(v)
<1>1. PICK st : st = [k \in {0} |-> v]
  OBVIOUS
<1>2. Layered(st, 0) /\ st[0] = v
  BY <1>1 DEF Layered
<1> QED
  BY <1>2 DEF Known

LEMMA OverKnown ==
    ASSUME NEW below, Known(below), NEW v, Over(v, below)
    PROVE  Known(v)
<1>a. PICK n \in Nat : \E st : Layered(st, n) /\ below = st[n]
  BY DEF Known
<1>1. PICK st : Layered(st, n) /\ below = st[n]
  BY <1>a
<1>2. PICK tt : tt = [k \in 0 .. n + 1 |-> IF k <= n THEN st[k] ELSE v]
  OBVIOUS
<1>3. tt[n + 1] = v /\ \A k \in 0 .. n : tt[k] = st[k]
  BY <1>2
<1>4. ASSUME NEW k \in 1 .. n + 1 PROVE Over(tt[k], tt[k - 1])
  <2>1. CASE k = n + 1
    <3>1. k - 1 = n /\ n \in 0 .. n
      BY <2>1
    <3> QED
      BY <1>1, <1>3, <2>1, <3>1
  <2>2. CASE k \in 1 .. n
    <3>1. k \in 0 .. n /\ k - 1 \in 0 .. n
      BY <2>2
    <3> QED
      BY <1>1, <1>3, <2>2, <3>1 DEF Layered
  <2> QED
    BY <2>1, <2>2
<1>5. Layered(tt, n + 1)
  BY <1>1, <1>3, <1>4 DEF Layered
<1> QED
  BY <1>3, <1>5 DEF Known

LEMMA KnownTags ==
    ASSUME NEW v, Known(v)
    PROVE  \/ v.tag = "bytes"
           \/ v.tag = "stage" /\ \E below : Known(below) /\ Over(v, below)
<1>a. PICK n \in Nat : \E st : Layered(st, n) /\ v = st[n]
  BY DEF Known
<1>1. PICK st : Layered(st, n) /\ v = st[n]
  BY <1>a
<1>2. CASE n = 0
  BY <1>1, <1>2 DEF Layered
<1>3. CASE n # 0
  <2>1. n \in 1 .. n /\ n - 1 \in Nat /\ \A k \in 1 .. n - 1 : k \in 1 .. n
    BY <1>3
  <2>2. Over(v, st[n - 1])
    BY <1>1, <2>1 DEF Layered
  <2>3. Layered(st, n - 1)
    BY <1>1, <2>1 DEF Layered
  <2>4. Known(st[n - 1])
    BY <2>1, <2>3 DEF Known
  <2>5. v.tag = "stage"
    BY <2>2 DEF Over, StageFields
  <2> QED
    BY <2>2, <2>4, <2>5
<1> QED
  BY <1>2, <1>3

Headers == [lane : Nested!AllLanes, directions : Nat, charges : Nat \X Nat, spelling : {0, 1}]

\* What decode_nested reports of a stage.
HeaderOf(v) ==
    [lane |-> v.lane, directions |-> v.directions, charges |-> v.charges,
     spelling |-> IF v.payload.tag = "code" THEN v.payload.spelling ELSE 0]

Rewritten(v, h, bytes) ==
    /\ h \in Headers /\ Known(bytes)
    /\ v = Nested!Stage(v.floor, h.lane, h.directions, h.charges, h.spelling, bytes)
    /\ v.total = Nested!Total(h.charges)

LEMMA AcceptedIsRewritten ==
    ASSUME NEW v, Known(v), Nested!ParseHeader(v), Nested!Decodes(v)
    PROVE  Rewritten(v, HeaderOf(v), Nested!Decoded(v))
<1>1. PICK below : Known(below) /\ Over(v, below)
  BY KnownTags DEF Nested!ParseHeader
<1>2. PICK bytes : bytes = Nested!Decoded(v)
  OBVIOUS
<1>3. PICK key : key = Nested!Key(v.floor, v.lane, v.directions, v.childOmega)
  OBVIOUS
<1>4. /\ v.provider = Nested!Provider /\ Nested!Decodable(v.payload, v.inputLen)
      /\ v.inputSha = Nested!Commitment(bytes) /\ v.childOmega = Nested!Commitment(bytes)
      /\ v.tag = "stage" /\ v.pass = 1 /\ v.flags = Nested!Flags(v.lane)
      /\ v.total = Nested!Total(v.charges) /\ v.payloadSha = Nested!Commitment(v.payload)
  BY <1>2 DEF Nested!ParseHeader, Nested!Decodes
<1>5. bytes = Nested!DecodePayload(v.payload, v.inputLen, key)
  BY <1>2, <1>3 DEF Nested!Decoded
<1>6. bytes.tag # "unfolded"
  BY <1>1, <1>4 DEF Over, Nested!Commitment
<1>7. /\ Known(bytes) /\ bytes.size = v.inputLen
      /\ v.payload = Nested!EncodePayload(bytes, key, HeaderOf(v).spelling)
      /\ HeaderOf(v).spelling \in {0, 1}
  <2>1. CASE v.payload = NoPayload
    <3>1. v.inputLen = 0
      BY <1>4, <2>1 DEF NoPayload, Nested!Decodable
    <3>2. bytes = Empty
      BY <1>5, <3>1 DEF Nested!DecodePayload, Empty
    <3>3. Empty.tag = "bytes" /\ Empty.size = 0
      BY DEF Empty, Nested!Bytes
    <3>4. Known(bytes)
      BY <3>2, <3>3, BytesKnown
    <3>5. HeaderOf(v).spelling = 0
      BY <2>1 DEF NoPayload, HeaderOf
    <3> QED
      BY <2>1, <3>1, <3>2, <3>3, <3>4, <3>5 DEF NoPayload, Nested!EncodePayload
  <2>2. CASE v.payload # NoPayload
    <3>1. PICK kk, spelling :
             /\ spelling \in {0, 1}
             /\ below.size # 0
             /\ v.payload = [tag |-> "code", key |-> kk, of |-> below,
                              spelling |-> spelling, size |-> below.size]
      BY <1>1, <2>2 DEF Over, PayloadOf
    <3>2. /\ v.payload.tag = "code" /\ v.payload.key = kk /\ v.payload.of = below
          /\ v.payload.spelling = spelling /\ v.payload.size = below.size
      BY <3>1
    <3>3. v.inputLen # 0
      BY <1>4, <3>1, <3>2 DEF Nested!Decodable
    <3>4. kk = key /\ below.size = v.inputLen /\ bytes = below
      BY <1>5, <1>6, <3>2, <3>3 DEF Nested!DecodePayload
    <3>5. HeaderOf(v).spelling = spelling
      BY <3>2 DEF HeaderOf
    <3> QED
      BY <1>1, <3>1, <3>4, <3>5 DEF Nested!EncodePayload
  <2> QED
    BY <2>1, <2>2
<1>8. HeaderOf(v) \in Headers
  BY <1>1, <1>7 DEF Over, HeaderOf, Headers
<1>9. v = Nested!Stage(v.floor, v.lane, v.directions, v.charges, HeaderOf(v).spelling, bytes)
  <2>1. v.size = v.payload.size + 1 /\ StageFields(v)
    BY <1>1, <1>4 DEF Over
  <2>2. v.payload = Nested!EncodePayload(bytes,
                       Nested!Key(v.floor, v.lane, v.directions, Nested!Commitment(bytes)),
                       HeaderOf(v).spelling)
    BY <1>3, <1>4, <1>7
  <2>3. Nested!Stage(v.floor, v.lane, v.directions, v.charges, HeaderOf(v).spelling, bytes)
          = [tag |-> "stage", floor |-> v.floor, lane |-> v.lane, provider |-> Nested!Provider,
        directions |-> v.directions, pass |-> 1, flags |-> Nested!Flags(v.lane),
        inputLen |-> bytes.size,
        inputSha |-> Nested!Commitment(bytes), childOmega |-> Nested!Commitment(bytes),
        payloadSha |-> Nested!Commitment(v.payload), charges |-> v.charges,
        total |-> Nested!Total(v.charges), payload |-> v.payload, size |-> v.payload.size + 1]
    BY <2>2 DEF Nested!Stage
  <2>4. v = [tag |-> "stage", floor |-> v.floor, lane |-> v.lane, provider |-> Nested!Provider,
        directions |-> v.directions, pass |-> 1, flags |-> Nested!Flags(v.lane),
        inputLen |-> bytes.size,
        inputSha |-> Nested!Commitment(bytes), childOmega |-> Nested!Commitment(bytes),
        payloadSha |-> Nested!Commitment(v.payload), charges |-> v.charges,
        total |-> Nested!Total(v.charges), payload |-> v.payload, size |-> v.payload.size + 1]
    BY <1>4, <1>7, <2>1, Zenon DEF StageFields
  <2> QED
    BY <2>3, <2>4
<1>10. /\ HeaderOf(v).lane = v.lane /\ HeaderOf(v).directions = v.directions
       /\ HeaderOf(v).charges = v.charges
  BY DEF HeaderOf
<1> QED
  BY <1>2, <1>4, <1>7, <1>8, <1>9, <1>10 DEF Rewritten
-----------------------------------------------------------------------------
\* tt goes from what is decoded now up to the archive, each stage as encode_stage
\* makes it of the one below and of the header decode_nested reported.
Written(tt, h, f) ==
    /\ tt[Len(FLOORS)] = archive /\ tt[f] = child
    /\ \A k \in f + 1 .. Len(FLOORS) :
          tt[k] = Nested!Stage(FLOORS[k], h[k - f].lane, h[k - f].directions, h[k - f].charges,
                               h[k - f].spelling, tt[k - 1])

Sums(s, h) ==
    s[0] = 0 /\ \A k \in 1 .. Len(h) : s[k] = s[k - 1] + Nested!Total(h[k].charges)

SumTyped(s, h) == Sums(s, h) /\ s[Len(h)] = external /\ \A k \in 0 .. Len(h) : s[k] \in Nat

Reported ==
    /\ headers \in Seq(Headers) /\ Len(headers) = Len(FLOORS) - floor
    /\ \E tt : Written(tt, headers, floor)
    /\ \E s : SumTyped(s, headers)

AcceptInv ==
    /\ TypeInv
    /\ Known(child) /\ external \in Nat
    /\ nestedPc = "encode" => external = 0 /\ headers = <<>>
    /\ nestedPc \in {"verify", "unpack"} => Reported /\ Known(archive)
    /\ nestedPc \in {"unpack", "done"} => disk = archive
    /\ nestedPc = "done" => floor = 0 /\ Reported

\* Nothing is reported of an archive that has just been opened.
LEMMA FreshReport ==
    ASSUME Nested!NestedAssumption, child' = archive', floor' = Len(FLOORS), headers' = <<>>,
           external' = 0
    PROVE  Reported'
<1>1. Len(FLOORS) \in Nat
  BY DEF Nested!NestedAssumption
<1>2. PICK tt : tt = [k \in {Len(FLOORS)} |-> child']
  OBVIOUS
<1>3. Written(tt, headers, floor)'
  BY <1>1, <1>2 DEF Written
<1>4. PICK s : s = [k \in {0} |-> 0]
  OBVIOUS
<1>5. SumTyped(s, headers)'
  BY <1>4 DEF SumTyped, Sums
<1>6. headers' \in Seq(Headers) /\ Len(headers') = Len(FLOORS) - floor'
  BY <1>1
<1> QED
  BY <1>3, <1>5, <1>6 DEF Reported

LEMMA Prepended ==
    ASSUME NEW S, NEW h \in S, NEW t \in Seq(S)
    PROVE  /\ <<h>> \o t \in Seq(S) /\ Len(<<h>> \o t) = Len(t) + 1
           /\ (<<h>> \o t)[1] = h /\ \A k \in 1 .. Len(t) : (<<h>> \o t)[k + 1] = t[k]
<1>1. <<h>> \in Seq(S) /\ Len(<<h>>) = 1 /\ <<h>>[1] = h
  OBVIOUS
<1> QED
  BY <1>1

\* One floor further down the report grows by a header in front.
LEMMA ReportGrows ==
    ASSUME Nested!NestedAssumption, floor \in 1 .. Len(FLOORS), Reported, external \in Nat,
           NEW h, Rewritten(child, h, child'), child.floor = FLOORS[floor],
           headers' = <<h>> \o headers, external' = external + child.total,
           floor' = floor - 1, UNCHANGED archive
    PROVE  Reported' /\ external' \in Nat
<1>1. /\ Len(FLOORS) \in Nat /\ floor \in Nat /\ headers \in Seq(Headers)
      /\ Len(headers) = Len(FLOORS) - floor /\ h \in Headers
  BY DEF Nested!NestedAssumption, Reported, Rewritten
<1>2. /\ headers' \in Seq(Headers) /\ Len(headers') = Len(headers) + 1
      /\ headers'[1] = h /\ \A k \in 1 .. Len(headers) : headers'[k + 1] = headers[k]
  <2>1. PICK t \in Seq(Headers), g \in Headers : t = headers /\ g = h
    BY <1>1
  <2>2. /\ <<g>> \o t \in Seq(Headers) /\ Len(<<g>> \o t) = Len(t) + 1
        /\ (<<g>> \o t)[1] = g /\ \A k \in 1 .. Len(t) : (<<g>> \o t)[k + 1] = t[k]
    BY Prepended
  <2> QED
    BY <2>1, <2>2
<1>0. Len(headers) \in Nat /\ floor <= Len(FLOORS) /\ floor >= 1
  BY <1>1
<1>3. \E tt : Written(tt, headers, floor)'
  <2>1. PICK st : Written(st, headers, floor)
    BY DEF Reported
  <2>2. PICK tt : tt = [k \in floor - 1 .. Len(FLOORS) |-> IF k = floor - 1 THEN child' ELSE st[k]]
    OBVIOUS
  <2>3. tt[floor - 1] = child' /\ \A k \in floor .. Len(FLOORS) : tt[k] = st[k]
    BY <1>1, <2>2
  <2>4. tt[Len(FLOORS)] = archive'
    BY <1>1, <2>1, <2>3 DEF Written
  <2>5. ASSUME NEW k \in (floor - 1) + 1 .. Len(FLOORS)
        PROVE  tt[k] = Nested!Stage(FLOORS[k], headers'[k - (floor - 1)].lane,
                          headers'[k - (floor - 1)].directions, headers'[k - (floor - 1)].charges,
                          headers'[k - (floor - 1)].spelling, tt[k - 1])
    <3>1. CASE k = floor
      <4>1. k - (floor - 1) = 1 /\ k - 1 = floor - 1 /\ floor \in floor .. Len(FLOORS)
        BY <1>1, <3>1
      <4>2. tt[k] = child
        BY <2>1, <2>3, <3>1, <4>1 DEF Written
      <4>3. child = Nested!Stage(FLOORS[k], h.lane, h.directions, h.charges, h.spelling, child')
        BY <3>1 DEF Rewritten
      <4> QED
        BY <1>2, <2>3, <4>1, <4>2, <4>3
    <3>2. CASE k # floor
      <4>1. /\ k \in floor + 1 .. Len(FLOORS) /\ k - floor \in 1 .. Len(headers)
            /\ k - (floor - 1) = (k - floor) + 1
            /\ k \in floor .. Len(FLOORS) /\ k - 1 \in floor .. Len(FLOORS)
        <5>1. k \in Int /\ k > floor /\ k <= Len(FLOORS)
          BY <1>0, <1>1, <3>2
        <5>2. Len(FLOORS) \in Nat /\ floor \in Nat /\ Len(headers) = Len(FLOORS) - floor
          BY <1>1
        <5>3. PICK n \in Nat, f \in Nat, j \in Int : n = Len(FLOORS) /\ f = floor /\ j = k
          BY <5>1, <5>2
        <5>4. /\ j \in f + 1 .. n /\ j - f \in 1 .. n - f /\ j - (f - 1) = (j - f) + 1
              /\ j \in f .. n /\ j - 1 \in f .. n
          <6>1. j > f /\ j <= n
            BY <5>1, <5>3
          <6> QED
            BY <6>1
        <5> QED
          BY <5>2, <5>3, <5>4
      <4>2. headers'[k - (floor - 1)] = headers[k - floor]
        BY <1>2, <4>1
      <4>3. tt[k] = st[k] /\ tt[k - 1] = st[k - 1]
        BY <2>3, <4>1
      <4> QED
        BY <2>1, <4>1, <4>2, <4>3 DEF Written
    <3> QED
      BY <3>1, <3>2
  <2> QED
    BY <1>1, <2>3, <2>4, <2>5 DEF Written
<1>4. \E s : SumTyped(s, headers)'
  <2>1. PICK s : SumTyped(s, headers)
    BY DEF Reported
  <2>2. PICK x \in Nat : x = Nested!Total(h.charges) /\ child.total = x
    <3>1. h.charges \in Nat \X Nat
      BY <1>1 DEF Headers
    <3>2. Nested!Total(h.charges) \in Nat
      BY <3>1 DEF Nested!Total
    <3> QED
      BY <3>2 DEF Rewritten
  <2>3. PICK ss : ss = [k \in 0 .. Len(headers) + 1 |-> IF k = 0 THEN 0 ELSE x + s[k - 1]]
    OBVIOUS
  <2>4. \A k \in 0 .. Len(headers) : s[k] \in Nat
    BY <2>1 DEF SumTyped
  <2>5. ss[0] = 0 /\ \A k \in 1 .. Len(headers) + 1 : ss[k] = x + s[k - 1]
    BY <1>1, <2>3
  <2>6. ASSUME NEW k \in 1 .. Len(headers) + 1
        PROVE  ss[k] = ss[k - 1] + Nested!Total(headers'[k].charges) /\ ss[k] \in Nat
    <3>1. CASE k = 1
      <4>1. s[0] = 0
        BY <2>1 DEF SumTyped, Sums
      <4> QED
        BY <1>2, <2>2, <2>5, <3>1, <4>1
    <3>2. CASE k # 1
      <4>1. /\ k - 1 \in 1 .. Len(headers) /\ k - 1 \in 1 .. Len(headers) + 1
            /\ (k - 1) + 1 = k /\ (k - 1) - 1 \in 0 .. Len(headers) /\ k - 1 \in 0 .. Len(headers)
        BY <1>1, <3>2
      <4>2. headers'[k] = headers[k - 1]
        BY <1>2, <4>1
      <4>3. s[k - 1] = s[(k - 1) - 1] + Nested!Total(headers[k - 1].charges)
        BY <2>1, <4>1 DEF SumTyped, Sums
      <4>4. ss[k] = x + s[k - 1] /\ ss[k - 1] = x + s[(k - 1) - 1]
        BY <2>5, <4>1
      <4>5. Nested!Total(headers[k - 1].charges) \in Int
        <5>1. headers[k - 1] \in Headers
          BY <1>1, <4>1
        <5> QED
          BY <5>1 DEF Headers, Nested!Total
      <4>6. s[k - 1] \in Nat /\ s[(k - 1) - 1] \in Nat
        BY <2>4, <4>1
      <4>7. k \in 1 .. Len(headers) + 1
        OBVIOUS
      <4>8. ss[k] = ss[k - 1] + Nested!Total(headers[k - 1].charges) /\ ss[k] \in Nat
        <5>1. PICK a \in Nat, b \in Nat, c \in Int :
                 a = s[k - 1] /\ b = s[(k - 1) - 1] /\ c = Nested!Total(headers[k - 1].charges)
          BY <4>5, <4>6
        <5>2. a = b + c /\ ss[k] = x + a /\ ss[k - 1] = x + b
          BY <4>3, <4>4, <5>1
        <5>3. x + a = (x + b) + c /\ x + a \in Nat
          <6>1. a = b + c /\ x \in Nat
            BY <2>2, <5>2
          <6>2. a \in Nat /\ b \in Nat /\ c \in Int
            BY <5>1
          <6> QED
            BY <6>1, <6>2
        <5> QED
          BY <5>1, <5>2, <5>3
      <4> QED
        BY <4>2, <4>8
    <3> QED
      BY <3>1, <3>2
  <2>7. s[Len(headers)] = external
    BY <2>1 DEF SumTyped
  <2>8. ss[Len(headers')] = external'
    <3>1. Len(headers) + 1 \in 1 .. Len(headers) + 1 /\ (Len(headers) + 1) - 1 = Len(headers)
      BY <1>0
    <3>2. ss[Len(headers) + 1] = x + s[Len(headers)]
      BY <2>5, <3>1
    <3> QED
      BY <1>2, <2>2, <2>7, <3>2
  <2>9. \A k \in 0 .. Len(headers') : ss[k] \in Nat
    BY <1>1, <1>2, <2>5, <2>6
  <2> QED
    BY <1>2, <2>5, <2>6, <2>8, <2>9 DEF SumTyped, Sums
<1>5. external' \in Nat
  <2>1. h.charges \in Nat \X Nat
    BY <1>1 DEF Headers
  <2>2. Nested!Total(h.charges) \in Nat
    BY <2>1 DEF Nested!Total
  <2> QED
    BY <2>2 DEF Rewritten
<1>6. Len(headers') = Len(FLOORS) - floor'
  BY <1>0, <1>1, <1>2
<1> QED
  BY <1>2, <1>3, <1>4, <1>5, <1>6 DEF Reported
-----------------------------------------------------------------------------
(* What the recursive definitions of the property compute.                 *)

LEMMA RebuiltIs ==
    ASSUME Nested!NestedAssumption, NEW tt, Written(tt, headers, 0)
    PROVE  Nested!Rebuilt = archive
<1> DEFINE Body(At) == [k \in 0 .. Len(FLOORS) |->
              IF k = 0 THEN child
              ELSE LET h == headers[k]
                   IN Nested!Stage(FLOORS[k], h.lane, h.directions, h.charges, h.spelling,
                                   At[k - 1])]
           At == CHOOSE At : At = Body(At)
<1>1. Nested!Rebuilt = At[Len(FLOORS)]
  BY DEF Nested!Rebuilt
<1>2. Len(FLOORS) \in Nat
  BY DEF Nested!NestedAssumption
<1>3. /\ tt[Len(FLOORS)] = archive /\ tt[0] = child
      /\ \A k \in 1 .. Len(FLOORS) :
          tt[k] = Nested!Stage(FLOORS[k], headers[k].lane, headers[k].directions,
                               headers[k].charges, headers[k].spelling, tt[k - 1])
  BY <1>2 DEF Written
<1>4. PICK g : g = [k \in 0 .. Len(FLOORS) |-> tt[k]]
  OBVIOUS
<1>5. g = Body(g)
  <2>1. ASSUME NEW k \in 0 .. Len(FLOORS) PROVE g[k] = Body(g)[k]
    <3>1. CASE k = 0
      BY <1>3, <1>4, <3>1
    <3>2. CASE k # 0
      <4>1. k \in 1 .. Len(FLOORS) /\ k - 1 \in 0 .. Len(FLOORS)
        BY <1>2, <3>2
      <4> QED
        BY <1>3, <1>4, <3>2, <4>1
    <3> QED
      BY <3>1, <3>2
  <2> QED
    BY <1>4, <2>1
<1>6. At = Body(At)
  BY <1>5
<1> HIDE DEF At
<1>7. At[0] = child /\ \A k \in 1 .. Len(FLOORS) : At[k] =
          Nested!Stage(FLOORS[k], headers[k].lane, headers[k].directions, headers[k].charges,
                               headers[k].spelling, At[k - 1])
  BY <1>2, <1>6
<1>8. \A k \in 1 .. Len(FLOORS) : At[k - 1] = tt[k - 1] => At[k] = tt[k]
  BY <1>3, <1>7
<1>9. \A k \in 0 .. Len(FLOORS) : At[k] = tt[k]
  <2>1. PICK a : a = At
    OBVIOUS
  <2>2. PICK n \in Nat : n = Len(FLOORS)
    BY <1>2
  <2>3. a[0] = tt[0] /\ \A k \in 1 .. n : a[k - 1] = tt[k - 1] => a[k] = tt[k]
    BY <1>3, <1>7, <1>8, <2>1, <2>2
  <2>4. \A k \in 0 .. n : a[k] = tt[k]
    BY <2>3, SameRecursion
  <2> QED
    BY <2>1, <2>2, <2>4
<1> QED
  BY <1>1, <1>2, <1>3, <1>9

LEMMA AllChargesIs ==
    ASSUME headers \in Seq(Headers), NEW s, SumTyped(s, headers)
    PROVE  Nested!AllCharges = external
<1> DEFINE Body(At) == [k \in 0 .. Len(headers) |->
              IF k = 0 THEN 0 ELSE At[k - 1] + Nested!Total(headers[k].charges)]
           At == CHOOSE At : At = Body(At)
<1>1. Nested!AllCharges = At[Len(headers)]
  BY DEF Nested!AllCharges
<1>2. Len(headers) \in Nat
  OBVIOUS
<1>3. /\ s[Len(headers)] = external /\ s[0] = 0
      /\ \A k \in 1 .. Len(headers) : s[k] = s[k - 1] + Nested!Total(headers[k].charges)
  BY <1>2 DEF SumTyped, Sums
<1>4. PICK g : g = [k \in 0 .. Len(headers) |-> s[k]]
  OBVIOUS
<1>5. g = Body(g)
  <2>1. ASSUME NEW k \in 0 .. Len(headers) PROVE g[k] = Body(g)[k]
    <3>1. CASE k = 0
      BY <1>3, <1>4, <3>1
    <3>2. CASE k # 0
      <4>1. k \in 1 .. Len(headers) /\ k - 1 \in 0 .. Len(headers)
        BY <1>2, <3>2
      <4> QED
        BY <1>3, <1>4, <3>2, <4>1
    <3> QED
      BY <3>1, <3>2
  <2> QED
    BY <1>4, <2>1
<1>6. At = Body(At)
  BY <1>5
<1> HIDE DEF At
<1>7. At[0] = 0 /\ \A k \in 1 .. Len(headers) : At[k] = At[k - 1] + Nested!Total(headers[k].charges)
  BY <1>2, <1>6
<1>8. \A k \in 1 .. Len(headers) : At[k - 1] = s[k - 1] => At[k] = s[k]
  BY <1>3, <1>7
<1>9. \A k \in 0 .. Len(headers) : At[k] = s[k]
  <2>1. At[0] = s[0]
    BY <1>3, <1>7
  <2> HIDE DEF Body
  <2> QED
    BY <1>2, <1>8, <2>1, SameRecursion
<1> QED
  BY <1>1, <1>2, <1>3, <1>9
-----------------------------------------------------------------------------
LEMMA AcceptInit ==
    ASSUME Nested!NestedAssumption, Nested!Init
    PROVE  AcceptInv
<1>1. TypeInv
  BY InitInv DEF IInv
<1>2. nestedPc = "encode" /\ child = input /\ external = 0 /\ headers = <<>>
  BY DEF Nested!Init
<1>3. Known(child)
  BY <1>1, <1>2, BytesKnown DEF TypeInv
<1> QED
  BY <1>1, <1>2, <1>3 DEF AcceptInv

LEMMA AcceptEncode ==
    ASSUME Nested!NestedAssumption, AcceptInv, Nested!EncodeFloor, TypeInv'
    PROVE  AcceptInv'
<1>1. /\ nestedPc = "encode" /\ floor < Len(FLOORS) /\ Len(FLOORS) \in Nat /\ floor \in Nat
      /\ nestedPc' \in {"encode", "rejected"}
      /\ UNCHANGED <<request, archive, disk, headers, external>>
  BY DEF Nested!EncodeFloor, Nested!NestedAssumption, AcceptInv, TypeInv
<1>2. Known(child) /\ external = 0 /\ headers = <<>>
  BY <1>1 DEF AcceptInv
<1>3. Known(child')
  <2>1. CASE child' = child
    BY <1>2, <2>1
  <2>2. CASE child' # child
    <3>1. child' = Nested!Stage(FLOORS[floor + 1], request.lane, request.directions,
                                Nested!Charges(floor + 1), 0, child)
      BY <2>2 DEF Nested!EncodeFloor
    <3>2. /\ request.lane \in Nested!AllLanes /\ request.directions \in Nat
          /\ request.charge \in Nat
      BY DEF AcceptInv, TypeInv, Requests
    <3>0. PICK f : f = FLOORS[floor + 1]
      OBVIOUS
    <3>c. Nested!Charges(floor + 1) \in Nat \X Nat
      BY <3>2 DEF Nested!Charges, Nested!NoCharges
    <3>3. PICK l \in Nested!AllLanes, n \in Nat, c \in Nat \X Nat :
             /\ l = request.lane /\ n = request.directions
             /\ c = Nested!Charges(floor + 1)
      BY <3>2, <3>c
    <3>4. child.tag # "unfolded"
      BY <1>2, KnownTags
    <3>5. \A sp \in {0, 1} : Over(Nested!Stage(f, l, n, c, sp, child), child)
      BY <3>4, StageOver
    <3> QED
      BY <1>2, <3>0, <3>1, <3>3, <3>5, OverKnown
  <2> QED
    BY <2>1, <2>2
<1> QED
  BY <1>1, <1>2, <1>3 DEF AcceptInv

LEMMA AcceptForeign ==
    ASSUME Nested!NestedAssumption, AcceptInv, Nested!ForeignFloor, TypeInv'
    PROVE  AcceptInv'
<1>1. /\ nestedPc = "encode" /\ floor < Len(FLOORS) /\ Len(FLOORS) \in Nat /\ floor \in Nat
      /\ child' \in Nested!ForeignStages(FLOORS[floor + 1], floor + 1)
      /\ UNCHANGED <<nestedPc, request, archive, disk, headers, external>>
  BY DEF Nested!ForeignFloor, Nested!NestedAssumption, AcceptInv, TypeInv
<1>2. Known(child) /\ external = 0 /\ headers = <<>> /\ TypeInv
  BY <1>1 DEF AcceptInv
<1>3. child.tag # "unfolded"
  BY <1>2, KnownTags
<1>4. PICK k \in 1 .. Len(FLOORS) : k = floor + 1
  BY <1>1
<1>5. Over(child', child)
  BY <1>1, <1>2, <1>3, <1>4, ForeignOver
<1>6. Known(child')
  BY <1>2, <1>5, OverKnown
<1> QED
  BY <1>1, <1>2, <1>6 DEF AcceptInv

LEMMA AcceptEncoded ==
    ASSUME Nested!NestedAssumption, AcceptInv, Nested!Encoded, TypeInv'
    PROVE  AcceptInv'
<1>1. /\ nestedPc = "encode" /\ archive' = child /\ child' = child /\ floor' = Len(FLOORS)
      /\ \/ nestedPc' = "verify"
         \/ nestedPc' = "unpack" /\ disk' = child
      /\ UNCHANGED <<headers, external>>
  BY DEF Nested!Encoded
<1>2. Known(child) /\ external = 0 /\ headers = <<>>
  BY <1>1 DEF AcceptInv
<1>3. Reported'
  BY <1>1, <1>2, FreshReport
<1> QED
  BY <1>1, <1>2, <1>3 DEF AcceptInv

LEMMA AcceptDecode ==
    ASSUME Nested!NestedAssumption, AcceptInv, Nested!DecodeFloor, TypeInv'
    PROVE  AcceptInv'
<1>1. /\ nestedPc \in {"verify", "unpack"} /\ floor > 0 /\ floor \in 1 .. Len(FLOORS)
      /\ UNCHANGED <<edits, request, input, archive, disk>>
  BY DEF Nested!DecodeFloor, Nested!NestedAssumption, AcceptInv, TypeInv
<1>2. Known(child) /\ external \in Nat /\ Reported /\ Known(archive)
      /\ (nestedPc = "unpack" => disk = archive)
  BY <1>1 DEF AcceptInv
<1>3. CASE nestedPc' = "rejected" /\ UNCHANGED <<child, floor, headers, external>>
  BY <1>1, <1>2, <1>3 DEF AcceptInv
<1>4. CASE /\ Nested!ParseHeader(child) /\ child.floor = FLOORS[floor] /\ Nested!Decodes(child)
           /\ child' = Nested!Decoded(child) /\ external' = external + child.total
           /\ headers' = <<HeaderOf(child)>> \o headers /\ floor' = floor - 1
           /\ UNCHANGED nestedPc
  <2>1. Rewritten(child, HeaderOf(child), child')
    BY <1>2, <1>4, AcceptedIsRewritten
  <2>2. Reported' /\ external' \in Nat
    BY <1>1, <1>2, <1>4, <2>1, ReportGrows
  <2>3. Known(child')
    BY <2>1 DEF Rewritten
  <2> QED
    BY <1>1, <1>2, <1>4, <2>2, <2>3 DEF AcceptInv
<1> QED
  BY <1>3, <1>4 DEF Nested!DecodeFloor, HeaderOf

LEMMA AcceptPackEnd ==
    ASSUME Nested!NestedAssumption, AcceptInv, Nested!PackEnd, TypeInv'
    PROVE  AcceptInv'
<1>1. nestedPc = "verify" /\ UNCHANGED <<edits, request, input, archive>>
  BY DEF Nested!PackEnd
<1>2. Known(archive) /\ Known(child) /\ external \in Nat
  BY <1>1 DEF AcceptInv
<1>3. CASE /\ disk' = archive /\ child' = archive /\ nestedPc' = "unpack"
           /\ floor' = Len(FLOORS) /\ headers' = <<>> /\ external' = 0
  <2>1. Reported'
    BY <1>1, <1>3, FreshReport
  <2> QED
    BY <1>1, <1>2, <1>3, <2>1 DEF AcceptInv
<1>4. CASE nestedPc' = "rejected" /\ UNCHANGED <<disk, child, floor, headers, external>>
  BY <1>1, <1>2, <1>4 DEF AcceptInv
<1> QED
  BY <1>3, <1>4 DEF Nested!PackEnd

LEMMA ReportedKept ==
    ASSUME Reported, UNCHANGED <<child, floor, archive, headers, external>>
    PROVE  Reported'
BY DEF Reported, Written, SumTyped, Sums

LEMMA AcceptUnpackEnd ==
    ASSUME Nested!NestedAssumption, AcceptInv, Nested!UnpackEnd, TypeInv'
    PROVE  AcceptInv'
<1>1. /\ nestedPc = "unpack" /\ floor = 0 /\ nestedPc' \in {"done", "rejected"}
      /\ UNCHANGED <<edits, request, input, child, floor, archive, disk, headers, external>>
  BY DEF Nested!UnpackEnd
<1>2. Known(archive) /\ Known(child) /\ external \in Nat /\ Reported /\ disk = archive
  BY <1>1 DEF AcceptInv
<1>3. Reported'
  BY <1>1, <1>2, ReportedKept
<1> QED
  BY <1>1, <1>2, <1>3 DEF AcceptInv

LEMMA AcceptStutter ==
    ASSUME AcceptInv, UNCHANGED Nested!vars, TypeInv'
    PROVE  AcceptInv'
<1>1. UNCHANGED <<nestedPc, edits, request, input, child, floor, archive, disk, headers, external>>
  BY DEF Nested!vars
<1>2. Reported => Reported'
  BY <1>1, ReportedKept
<1> QED
  BY <1>1, <1>2 DEF AcceptInv

LEMMA TypeKept ==
    ASSUME Nested!NestedAssumption, TypeInv, [Nested!Next]_(Nested!vars)
    PROVE  TypeInv'
<1>1. /\ floor \in 0 .. Len(FLOORS) /\ Len(FLOORS) \in Nat /\ edits \in Nat
      /\ nestedPc \in {"encode", "verify", "unpack", "done", "rejected"}
  BY DEF TypeInv, Nested!NestedAssumption
<1>2. UNCHANGED <<request, input>>
  BY DEF Nested!Next, Nested!vars, Nested!EncodeFloor, Nested!ForeignFloor, Nested!Encoded,
         Nested!DecodeFloor, Nested!PackEnd, Nested!UnpackEnd
<1>3. edits' \in Nat
  BY <1>1 DEF Nested!Next, Nested!vars, Nested!EncodeFloor, Nested!ForeignFloor, Nested!Encoded,
         Nested!DecodeFloor, Nested!PackEnd, Nested!UnpackEnd
<1>4. floor' \in 0 .. Len(FLOORS)
  <2>1. \/ floor < Len(FLOORS) /\ floor' \in {floor, floor + 1}
        \/ floor' \in {floor, Len(FLOORS)}
        \/ floor > 0 /\ floor' = floor - 1
    BY DEF Nested!Next, Nested!vars, Nested!EncodeFloor, Nested!ForeignFloor, Nested!Encoded,
           Nested!DecodeFloor, Nested!PackEnd, Nested!UnpackEnd
  <2> QED
    BY <1>1, <2>1
<1>5. nestedPc' \in {"encode", "verify", "unpack", "done", "rejected"}
  BY <1>1 DEF Nested!Next, Nested!vars, Nested!EncodeFloor, Nested!ForeignFloor, Nested!Encoded,
         Nested!DecodeFloor, Nested!PackEnd, Nested!UnpackEnd
<1> QED
  BY <1>2, <1>3, <1>4, <1>5 DEF TypeInv

LEMMA AcceptNext ==
    ASSUME Nested!NestedAssumption, AcceptInv, [Nested!Next]_(Nested!vars)
    PROVE  AcceptInv'
<1>1. TypeInv'
  BY TypeKept DEF AcceptInv
<1> QED
  BY <1>1, AcceptEncode, AcceptForeign, AcceptEncoded, AcceptDecode, AcceptPackEnd,
     AcceptUnpackEnd, AcceptStutter DEF Nested!Next

LEMMA AcceptImplies ==
    ASSUME Nested!NestedAssumption, AcceptInv
    PROVE  Nested!AcceptedAsEncoded
<1> SUFFICES ASSUME nestedPc = "done"
             PROVE  disk = Nested!Rebuilt /\ external = Nested!AllCharges
  BY DEF Nested!AcceptedAsEncoded
<1>1. Reported /\ floor = 0 /\ disk = archive
  BY DEF AcceptInv
<1>2. PICK tt : Written(tt, headers, 0)
  BY <1>1 DEF Reported
<1>3. PICK s : SumTyped(s, headers)
  BY <1>1 DEF Reported
<1>4. Nested!Rebuilt = archive
  BY <1>2, RebuiltIs
<1>5. Nested!AllCharges = external
  BY <1>1, <1>3, AllChargesIs DEF Reported
<1> QED
  BY <1>1, <1>4, <1>5

LEMMA CodecAcceptInit == ASSUME CodecInit PROVE NestedIdle \/ AcceptInv
BY ArchiveAssumption, AcceptInit DEF CodecInit, NestedAtStart, NestedIdle

LEMMA CodecAcceptNext ==
    ASSUME NestedIdle \/ AcceptInv, [CodecNext]_<<vars, nestedVars>>
    PROVE  (NestedIdle \/ AcceptInv)'
<1>1. CASE NestedIdle /\ (UNCHANGED nestedVars \/ CodecNext)
  BY <1>1 DEF NestedIdle, CodecNext, nestedVars
<1>2. CASE ~NestedIdle /\ CodecNext
  BY <1>2, ArchiveAssumption, AcceptNext DEF CodecNext
<1>3. CASE ~NestedIdle /\ UNCHANGED nestedVars
  BY <1>3, ArchiveAssumption, AcceptNext DEF nestedVars, Nested!vars
<1> QED
  BY <1>1, <1>2, <1>3

LEMMA CodecAcceptImplies == NestedIdle \/ AcceptInv => AcceptedAsEncoded
BY ArchiveAssumption, AcceptImplies DEF AcceptedAsEncoded

\* Whoever made it, an archive that unpack accepts is the one encode_nested
\* makes of the bytes it gives back, but for what the headers may choose, and
\* the charges reported are those of its floors.
THEOREM AcceptedIsEncoded == CodecSpec => []AcceptedAsEncoded
<1>1. CodecInit => NestedIdle \/ AcceptInv
  BY CodecAcceptInit
<1>2. (NestedIdle \/ AcceptInv) /\ [CodecNext]_<<vars, nestedVars>>
        => (NestedIdle \/ AcceptInv)'
  BY CodecAcceptNext
<1>3. NestedIdle \/ AcceptInv => AcceptedAsEncoded
  BY CodecAcceptImplies
<1> QED
  BY <1>1, <1>2, <1>3, PTL DEF CodecSpec
-----------------------------------------------------------------------------
(* The control lanes.                                                      *)

HeaderInv ==
    /\ seed \in Seeds
    /\ requested \in 1 .. MaxDirections
    /\ draws \in [1 .. MaxDirections - 1 -> 0 .. MaxDirections - 1]
    /\ \A i \in DOMAIN draws : draws[i] <= i

Directions(n) == [i \in 1 .. n |-> i - 1]

Orders(n) == Bijection(1 .. n, 0 .. n - 1)

LEMMA SwapKeepsOrders ==
    ASSUME NEW n \in Nat, NEW p \in Orders(n), NEW i \in 1 .. n, NEW j \in 1 .. n
    PROVE  Swapped(p, i, j) \in Orders(n)
<1>1. p \in [1 .. n -> 0 .. n - 1] /\ IsInjective(p) /\ \A t \in 0 .. n - 1 : \E s \in 1 .. n : p[s] = t
  BY DEF Orders, Bijection, Injection, Surjection
<1> DEFINE q == Swapped(p, i, j)
<1>2. q \in [1 .. n -> 0 .. n - 1]
  BY <1>1 DEF Swapped
<1>3. \A k \in 1 .. n : q[k] = IF k = j THEN p[i] ELSE IF k = i THEN p[j] ELSE p[k]
  BY <1>1 DEF Swapped
<1> HIDE DEF q
<1>4. IsInjective(q)
  BY <1>1, <1>2, <1>3 DEF IsInjective
<1>5. \A t \in 0 .. n - 1 : \E s \in 1 .. n : q[s] = t
  <2> TAKE t \in 0 .. n - 1
  <2>1. PICK s \in 1 .. n : p[s] = t
    BY <1>1
  <2>2. CASE s = i
    BY <2>1, <2>2, <1>3
  <2>3. CASE s = j
    BY <2>1, <2>3, <1>3
  <2>4. CASE s # i /\ s # j
    BY <2>1, <2>4, <1>3
  <2> QED
    BY <2>2, <2>3, <2>4
<1>6. q \in Orders(n)
  BY <1>2, <1>4, <1>5 DEF Orders, Bijection, Injection, Surjection
<1> QED
  BY <1>6 DEF q

LEMMA DirectionsInOrder ==
    ASSUME NEW n \in Nat \ {0}
    PROVE  Directions(n) \in Orders(n)
<1>1. Directions(n) \in [1 .. n -> 0 .. n - 1] /\ IsInjective(Directions(n))
  BY DEF Directions, IsInjective
<1>2. \A t \in 0 .. n - 1 : \E s \in 1 .. n : Directions(n)[s] = t
  <2> TAKE t \in 0 .. n - 1
  <2>1. t + 1 \in 1 .. n /\ Directions(n)[t + 1] = t
    BY DEF Directions
  <2> QED
    BY <2>1
<1> QED
  BY <1>1, <1>2 DEF Orders, Bijection, Injection, Surjection

\* Fisher-Yates leaves every direction in the plan once.
LEMMA ShuffleKeepsDirections ==
    ASSUME HeaderInv, NEW n \in 1 .. MaxDirections, MaxDirections \in Nat
    PROVE  Shuffled(Directions(n)) \in Orders(n)
<1> DEFINE plan == Directions(n)
           S == Orders(n)
           Turn(k, p) == Swapped(p, (n - k) + 1, draws[n - k] + 1)
           F == [x \in (1 .. n - 1) \X S |-> Turn(x[1], x[2])]
<1>1. n \in Nat \ {0} /\ n - 1 \in Nat
  OBVIOUS
<1>2. plan \in S /\ Len(plan) = n
  BY <1>1, DirectionsInOrder DEF Directions
<1>3. ASSUME NEW k \in 1 .. n - 1, NEW p \in S PROVE Turn(k, p) \in S
  <2>1. n - k \in 1 .. MaxDirections - 1 /\ (n - k) + 1 \in 1 .. n
    OBVIOUS
  <2>2. draws[n - k] \in Nat /\ draws[n - k] <= n - k
    BY <2>1 DEF HeaderInv
  <2>3. draws[n - k] + 1 \in 1 .. n
    BY <2>2
  <2> HIDE DEF S
  <2> QED
    BY <1>1, <2>1, <2>3, SwapKeepsOrders DEF S
<1> HIDE DEF S, plan
<1>4. F \in [(1 .. n - 1) \X S -> S]
  BY <1>3
<1>5. PICK g \in Runs(S, plan, F, n - 1) : TRUE
  <2> HIDE DEF F
  <2>1. Runs(S, plan, F, n - 1) # {}
    BY <1>1, <1>2, <1>4, LoopRuns, Zenon
  <2> QED
    BY <2>1
<1>6. /\ g \in [0 .. n - 1 -> S] /\ g[0] = plan
      /\ \A k \in 1 .. n - 1 : g[k] = F[<<k, g[k - 1]>>]
  <2> HIDE DEF F
  <2> QED
    BY <1>5 DEF Runs
<1>7. ASSUME NEW k \in 1 .. n - 1 PROVE g[k] = Turn(k, g[k - 1])
  <2>1. k - 1 \in 0 .. n - 1
    OBVIOUS
  <2>2. <<k, g[k - 1]>> \in (1 .. n - 1) \X S
    BY <1>6, <2>1
  <2>3. F[<<k, g[k - 1]>>] = Turn(k, g[k - 1])
    <3> HIDE DEF Turn
    <3> QED
      BY <2>2
  <2> QED
    BY <1>6, <2>3
<1> HIDE DEF F
<1> DEFINE Body(f) == [k \in 0 .. n - 1 |-> IF k = 0 THEN plan ELSE Turn(k, f[k - 1])]
<1>8. g = Body(g)
  <2>1. \A k \in 0 .. n - 1 : g[k] = IF k = 0 THEN plan ELSE Turn(k, g[k - 1])
    BY <1>6, <1>7
  <2> QED
    BY <1>6, <2>1
<1> DEFINE After == CHOOSE f : f = Body(f)
<1>9. After = Body(After)
  BY <1>8
<1>10. Shuffled(plan) = After[n - 1]
  BY <1>2 DEF Shuffled
<1> HIDE DEF After
<1> DEFINE P == {k \in 0 .. n - 1 : After[k] \in S}
<1>11. 0 \in P
  BY <1>1, <1>2, <1>9
<1>12. ASSUME NEW k \in 1 .. n - 1, k - 1 \in P PROVE k \in P
  <2>1. After[k] = Turn(k, After[k - 1])
    BY <1>9
  <2> QED
    BY <1>3, <1>12, <2>1
<1> HIDE DEF P
<1>13. n - 1 \in P
  BY <1>1, <1>11, <1>12, EveryTurn
<1> QED
  BY <1>10, <1>13 DEF P, S, plan

\* The ones among the directions of a plan, at one place.
LEMMA SameMajority ==
    ASSUME NEW n \in Nat \ {0}, NEW p \in Orders(n), NEW Ones
    PROVE  Cardinality({i \in 1 .. n : p[i] \in Ones})
           = Cardinality({i \in 1 .. n : Directions(n)[i] \in Ones})
<1> DEFINE A == {i \in 1 .. n : p[i] \in Ones}
           B == {i \in 1 .. n : Directions(n)[i] \in Ones}
           m == [i \in A |-> p[i] + 1]
<1>1. p \in [1 .. n -> 0 .. n - 1] /\ IsInjective(p) /\ \A t \in 0 .. n - 1 : \E s \in 1 .. n : p[s] = t
  BY DEF Orders, Bijection, Injection, Surjection
<1>0. \A t \in 1 .. n : Directions(n)[t] = t - 1
  BY DEF Directions
<1>2. ASSUME NEW i \in A PROVE p[i] + 1 \in B
  <2>1. p[i] \in 0 .. n - 1 /\ p[i] \in Ones
    BY <1>1
  <2>2. p[i] + 1 \in 1 .. n /\ (p[i] + 1) - 1 = p[i]
    BY <2>1
  <2>3. Directions(n)[p[i] + 1] = p[i]
    BY <1>0, <2>2
  <2> QED
    BY <2>1, <2>2, <2>3
<1>3. m \in [A -> B]
  BY <1>2
<1>4. IsInjective(m)
  <2> SUFFICES ASSUME NEW i \in A, NEW j \in A, m[i] = m[j] PROVE i = j
    BY DEF IsInjective
  <2>1. p[i] \in Int /\ p[j] \in Int /\ p[i] + 1 = p[j] + 1
    BY <1>1
  <2>2. p[i] = p[j]
    BY <2>1
  <2> QED
    BY <1>1, <2>2 DEF IsInjective
<1>5. \A t \in B : \E s \in A : m[s] = t
  <2> TAKE t \in B
  <2>1. t \in 1 .. n /\ t - 1 \in Ones /\ t - 1 \in 0 .. n - 1
    BY <1>0
  <2>2. PICK s \in 1 .. n : p[s] = t - 1
    BY <1>1, <2>1
  <2>3. s \in A /\ m[s] = t
    BY <2>1, <2>2
  <2> QED
    BY <2>3
<1>6. m \in Bijection(A, B)
  BY <1>3, <1>4, <1>5 DEF Bijection, Injection, Surjection
<1>7. IsFiniteSet(A)
  BY FS_Interval, FS_Subset
<1> HIDE DEF A, B, m
<1>8. Cardinality(B) = Cardinality(A)
  BY <1>6, <1>7, FS_Bijection DEF ExistsBijection
<1> QED
  BY <1>8 DEF A, B

OnesOf(history, k) == {d \in Nat : Bit(DirectionValue(history, d), k) = 1}

LEMMA PermutedPredictsTheSame ==
    ASSUME HeaderInv, MaxDirections \in Nat, NEW history
    PROVE  Predict(history, DirectionPlan("BookkeepingPermutation"))
           = Predict(history, DirectionPlan("Unique"))
<1> DEFINE n == requested
           p == DirectionPlan("BookkeepingPermutation")
           q == DirectionPlan("Unique")
<1>1. n \in 1 .. MaxDirections /\ n \in Nat \ {0}
  BY DEF HeaderInv
<1>2. q = Directions(n)
  BY DEF DirectionPlan, Pool, Directions
<1>3. p = Shuffled(Directions(n))
  BY DEF DirectionPlan, Pool, Directions
<1>4. p \in Orders(n)
  BY <1>1, <1>3, ShuffleKeepsDirections
<1> HIDE DEF p, q, n
<1>5. p \in [1 .. n -> 0 .. n - 1] /\ q \in [1 .. n -> 0 .. n - 1]
  BY <1>1, <1>2, <1>4 DEF Orders, Bijection, Injection, Directions
<1>6. DOMAIN p = 1 .. n /\ DOMAIN q = 1 .. n /\ Len(p) = n /\ Len(q) = n
  BY <1>1, <1>5
<1>7. ASSUME NEW k
      PROVE  Cardinality({i \in DOMAIN p : Bit(DirectionValue(history, p[i]), k) = 1})
             = Cardinality({i \in DOMAIN q : Bit(DirectionValue(history, q[i]), k) = 1})
  <2>1. \A i \in 1 .. n : p[i] \in Nat /\ q[i] \in Nat
    BY <1>5
  <2>2. {i \in DOMAIN p : Bit(DirectionValue(history, p[i]), k) = 1}
        = {i \in 1 .. n : p[i] \in OnesOf(history, k)}
    BY <1>6, <2>1 DEF OnesOf
  <2>3. {i \in DOMAIN q : Bit(DirectionValue(history, q[i]), k) = 1}
        = {i \in 1 .. n : q[i] \in OnesOf(history, k)}
    BY <1>6, <2>1 DEF OnesOf
  <2> QED
    <3>0. PICK ones : ones = OnesOf(history, k)
      OBVIOUS
    <3>1. Cardinality({i \in 1 .. n : p[i] \in ones})
          = Cardinality({i \in 1 .. n : Directions(n)[i] \in ones})
      BY <1>1, <1>4, SameMajority
    <3> QED
      BY <1>2, <2>2, <2>3, <3>0, <3>1
<1> DEFINE Ones(plan, k) == Cardinality({i \in DOMAIN plan : Bit(DirectionValue(history, plan[i]), k) = 1})
           Chosen(plan, k) ==
               \/ 2 * Ones(plan, k) > Len(plan)
               \/ 2 * Ones(plan, k) = Len(plan) /\ Bit(DirectionValue(history, 0), k) = 1
<1>8. ASSUME NEW plan
      PROVE  Predict(history, plan) = NumberOf(ByteBits, {k \in 0 .. ByteBits - 1 : Chosen(plan, k)})
  BY DEF Predict
<1>9. {k \in 0 .. ByteBits - 1 : Chosen(p, k)} = {k \in 0 .. ByteBits - 1 : Chosen(q, k)}
  <2>1. \A k : Ones(p, k) = Ones(q, k)
    BY <1>7
  <2> HIDE DEF Ones
  <2> QED
    BY <1>6, <2>1
<1> HIDE DEF Chosen
<1> QED
  BY <1>8, <1>9 DEF p, q

LEMMA RepeatedPredictsTheSame ==
    ASSUME HeaderInv, MaxDirections \in Nat, NEW history
    PROVE  Predict(history, DirectionPlan("DuplicateSharedState"))
           = Predict(history, DirectionPlan("Baseline"))
<1> DEFINE n == requested
           p == DirectionPlan("DuplicateSharedState")
           q == DirectionPlan("Baseline")
<1>1. n \in Nat \ {0}
  BY DEF HeaderInv
<1>2. p = [i \in 1 .. n |-> 0] /\ q = <<0>>
  BY DEF DirectionPlan, Pool
<1> HIDE DEF p, q, n
<1>3. DOMAIN p = 1 .. n /\ DOMAIN q = {1} /\ Len(p) = n /\ Len(q) = 1
  BY <1>1, <1>2
<1>4. ASSUME NEW k
      PROVE  LET One == Bit(DirectionValue(history, 0), k) = 1
             IN  /\ Cardinality({i \in DOMAIN p : Bit(DirectionValue(history, p[i]), k) = 1})
                    = IF One THEN n ELSE 0
                 /\ Cardinality({i \in DOMAIN q : Bit(DirectionValue(history, q[i]), k) = 1})
                    = IF One THEN 1 ELSE 0
  <2> DEFINE One == Bit(DirectionValue(history, 0), k) = 1
  <2>1. {i \in DOMAIN p : Bit(DirectionValue(history, p[i]), k) = 1}
        = IF One THEN 1 .. n ELSE {}
    BY <1>2, <1>3
  <2>2. {i \in DOMAIN q : Bit(DirectionValue(history, q[i]), k) = 1}
        = IF One THEN {1} ELSE {}
    BY <1>2, <1>3
  <2>3. Cardinality(1 .. n) = n /\ Cardinality({1}) = 1 /\ Cardinality({}) = 0
    <3>1. n \in Int /\ 1 \in Int /\ ~(1 > n) /\ (n - 1) + 1 = n
      BY <1>1
    <3>2. Cardinality(1 .. n) = n
      BY <3>1, FS_Interval
    <3> QED
      BY <3>2, FS_Singleton, FS_EmptySet
  <2> HIDE DEF One
  <2> QED
    BY <2>1, <2>2, <2>3 DEF One
<1> DEFINE Ones(plan, k) == Cardinality({i \in DOMAIN plan : Bit(DirectionValue(history, plan[i]), k) = 1})
           Chosen(plan, k) ==
               \/ 2 * Ones(plan, k) > Len(plan)
               \/ 2 * Ones(plan, k) = Len(plan) /\ Bit(DirectionValue(history, 0), k) = 1
<1>5. ASSUME NEW k PROVE Chosen(p, k) <=> Chosen(q, k)
  <2>1. CASE Bit(DirectionValue(history, 0), k) = 1
    <3>1. Ones(p, k) = n /\ Ones(q, k) = 1
      BY <1>4, <2>1
    <3> HIDE DEF Ones
    <3> QED
      BY <1>1, <1>3, <3>1
  <2>2. CASE Bit(DirectionValue(history, 0), k) # 1
    <3>1. Ones(p, k) = 0 /\ Ones(q, k) = 0
      BY <1>4, <2>2
    <3> HIDE DEF Ones
    <3> QED
      BY <1>1, <1>3, <3>1
  <2> QED
    BY <2>1, <2>2
<1>6. ASSUME NEW plan
      PROVE  Predict(history, plan) = NumberOf(ByteBits, {k \in 0 .. ByteBits - 1 : Chosen(plan, k)})
  BY DEF Predict
<1> HIDE DEF Chosen
<1>7. {k \in 0 .. ByteBits - 1 : Chosen(p, k)} = {k \in 0 .. ByteBits - 1 : Chosen(q, k)}
  BY <1>5
<1> QED
  BY <1>6, <1>7 DEF p, q

LanesInv ==
    /\ HeaderInv
    /\ DOMAIN enc = Lanes
    /\ enc["DuplicateSharedState"] = enc["Baseline"]
    /\ enc["BookkeepingPermutation"] = enc["Unique"]

LEMMA LanesInit == Init => LanesInv
<1>1. Requested \subseteq 1 .. MaxDirections
  BY FloorAssumption
<1> QED
  BY <1>1 DEF Init, LanesInv, HeaderInv, Lanes

LEMMA LanesNext == LanesInv /\ [Next]_vars => LanesInv'
<1> SUFFICES ASSUME LanesInv, [Next]_vars PROVE LanesInv'
  OBVIOUS
<1>1. MaxDirections \in Nat
  BY FloorAssumption
<1>2. CASE UNCHANGED <<header, enc>>
  BY <1>2 DEF LanesInv, HeaderInv, header
<1>3. ASSUME NEW byte, EncodeByte(byte) PROVE LanesInv'
  <2>1. UNCHANGED header /\ enc' = [l \in Lanes |-> ByteEncoded(l, enc[l], byte, Len(source))]
    BY <1>3 DEF EncodeByte
  <2>2. HeaderInv'
    BY <2>1 DEF LanesInv, HeaderInv, header
  <2>3. ASSUME NEW s PROVE /\ ByteEncoded("DuplicateSharedState", s, byte, Len(source))
                              = ByteEncoded("Baseline", s, byte, Len(source))
                           /\ ByteEncoded("BookkeepingPermutation", s, byte, Len(source))
                              = ByteEncoded("Unique", s, byte, Len(source))
    <3>1. \A l \in {"DuplicateSharedState", "Baseline", "BookkeepingPermutation", "Unique"} :
             Reset(l, s, Len(source)) = s
      BY DEF Reset
    <3> QED
      BY <1>1, <3>1, RepeatedPredictsTheSame, PermutedPredictsTheSame DEF ByteEncoded, LanesInv
  <2>4. /\ enc'["DuplicateSharedState"] = enc'["Baseline"]
        /\ enc'["BookkeepingPermutation"] = enc'["Unique"]
    BY <2>1, <2>3 DEF LanesInv, Lanes
  <2> QED
    BY <2>1, <2>2, <2>4 DEF LanesInv
<1>4. CASE UNCHANGED vars
  BY <1>2, <1>4 DEF vars
<1>5. CASE Deliver \/ DeliverForeign \/ DecodeByte \/ DecodeEnd
  BY <1>2, <1>5 DEF Deliver, DeliverForeign, Start, DecodeByte, DecodeEnd
<1> QED
  BY <1>3, <1>4, <1>5 DEF Next, Encode

LEMMA LanesImply == LanesInv => ControlsAddNothing
BY DEF LanesInv, ControlsAddNothing, Payload

\* A behaviour of the codec is one of its payload level, which may rest.
LEMMA PayloadInit == CodecInit => Init
BY DEF CodecInit, PayloadAtStart

LEMMA PayloadNext == [CodecNext]_<<vars, nestedVars>> => [Next]_vars
BY DEF CodecNext, vars, nestedVars

\* The two control lanes code what their models do: repeating one direction and
\* permuting the directions change no bit of the payload.
THEOREM ControlsAreBookkeeping == CodecSpec => []ControlsAddNothing
<1>1. CodecInit => LanesInv
  BY PayloadInit, LanesInit
<1>2. LanesInv /\ [CodecNext]_<<vars, nestedVars>> => LanesInv'
  BY PayloadNext, LanesNext
<1> QED
  BY <1>1, <1>2, LanesImply, PTL DEF CodecSpec
-----------------------------------------------------------------------------
(* SubsetSums over finite sets.  A sum adds up a set from what it chooses first  *)
(* and the sum of the rest, by a function on all subsets.                  *)

First(s) == CHOOSE x \in s : TRUE
Rest(s) == s \ {First(s)}

SumsBy(f, S, sum) == [s \in SUBSET S |-> IF s = {} THEN 0 ELSE f[First(s)] + sum[Rest(s)]]

SubsetSums(f, S) == CHOOSE sum : sum = SumsBy(f, S, sum)

LEMMA SumIsSums ==
    ASSUME NEW f, NEW S
    PROVE  SumFunctionOnSet(f, S) = SubsetSums(f, S)[S]
BY DEF SumFunctionOnSet, FoldFunctionOnSet, MapThenFoldSet, SubsetSums, SumsBy, First, Rest

LEMMA RestIsSmaller ==
    ASSUME NEW S, IsFiniteSet(S), NEW s \in SUBSET S, s # {}
    PROVE  /\ First(s) \in s /\ First(s) \in S
           /\ Rest(s) \in SUBSET S
           /\ Cardinality(s) \in Nat \ {0}
           /\ Cardinality(Rest(s)) = Cardinality(s) - 1
<1>1. First(s) \in s
  BY DEF First
<1>2. IsFiniteSet(s)
  BY FS_Subset
<1>3. Cardinality(s) \in Nat /\ Cardinality(s) # 0
  BY <1>2, FS_CardinalityType, FS_EmptySet
<1>4. Cardinality(Rest(s)) = Cardinality(s) - 1
  BY <1>1, <1>2, FS_RemoveElement DEF Rest
<1> QED
  BY <1>1, <1>3, <1>4 DEF Rest

\* The subsets of at most n members, and the sums over them.
Small(S, n) == {s \in SUBSET S : Cardinality(s) <= n}

SumsUpTo(f, S, n) ==
    {sum \in [Small(S, n) -> Int] :
        \A s \in Small(S, n) :
            sum[s] = IF s = {} THEN 0 ELSE f[First(s)] + sum[Rest(s)]}

LEMMA SumsUpToExist ==
    ASSUME NEW S, IsFiniteSet(S), NEW f, \A x \in S : f[x] \in Int, NEW n \in Nat
    PROVE  SumsUpTo(f, S, n) # {}
<1> DEFINE P == {k \in Nat : SumsUpTo(f, S, k) # {}}
<1>1. 0 \in P
  <2> DEFINE sum == [s \in Small(S, 0) |-> 0]
  <2>1. ASSUME NEW s \in Small(S, 0) PROVE s = {}
    BY FS_Subset, FS_EmptySet, FS_CardinalityType DEF Small
  <2>2. sum \in SumsUpTo(f, S, 0)
    BY <2>1 DEF SumsUpTo
  <2> QED
    BY <2>2
<1>2. ASSUME NEW k \in Nat, k \in P PROVE k + 1 \in P
  <2>1. PICK sum \in SumsUpTo(f, S, k) : TRUE
    BY <1>2
  <2>2. /\ sum \in [Small(S, k) -> Int]
        /\ \A s \in Small(S, k) : sum[s] = IF s = {} THEN 0 ELSE f[First(s)] + sum[Rest(s)]
    BY <2>1 DEF SumsUpTo
  <2> DEFINE more == [s \in Small(S, k + 1) |->
                         IF s = {} THEN 0 ELSE f[First(s)] + sum[Rest(s)]]
  <2>3. ASSUME NEW s \in Small(S, k + 1), s # {}
        PROVE  Rest(s) \in Small(S, k) /\ Rest(s) \in Small(S, k + 1) /\ f[First(s)] \in Int
    <3>1. s \in SUBSET S /\ Cardinality(s) <= k + 1
      BY DEF Small
    <3>2. First(s) \in S /\ Rest(s) \in SUBSET S /\ Cardinality(s) \in Nat
          /\ Cardinality(Rest(s)) = Cardinality(s) - 1
      BY <2>3, <3>1, RestIsSmaller
    <3>3. Cardinality(Rest(s)) <= k /\ Cardinality(Rest(s)) <= k + 1
      BY <3>1, <3>2
    <3> QED
      BY <3>2, <3>3 DEF Small
  <2>4. ASSUME NEW s \in Small(S, k + 1) PROVE more[s] \in Int
    <3>1. CASE s = {}
      BY <3>1
    <3>2. CASE s # {}
      <4>1. sum[Rest(s)] \in Int /\ f[First(s)] \in Int
        BY <2>2, <2>3, <3>2
      <4> QED
        BY <3>2, <4>1
    <3> QED
      BY <3>1, <3>2
  <2>5. ASSUME NEW s \in Small(S, k) PROVE more[s] = sum[s]
    <3>1. s \in SUBSET S /\ Cardinality(s) <= k /\ Cardinality(s) \in Nat
      BY FS_Subset, FS_CardinalityType DEF Small
    <3>2. s \in Small(S, k + 1)
      BY <3>1 DEF Small
    <3> QED
      BY <2>2, <3>2
  <2>6. ASSUME NEW s \in Small(S, k + 1)
        PROVE  more[s] = IF s = {} THEN 0 ELSE f[First(s)] + more[Rest(s)]
    BY <2>3, <2>5
  <2>7. more \in [Small(S, k + 1) -> Int]
    BY <2>4
  <2> HIDE DEF more
  <2>8. more \in SumsUpTo(f, S, k + 1)
    BY <2>6, <2>7 DEF SumsUpTo
  <2> QED
    BY <2>8
<1> HIDE DEF P
<1>3. n \in P
  BY <1>1, <1>2, EveryNumber
<1> QED
  BY <1>3 DEF P

LEMMA SumsAddUp ==
    ASSUME NEW S, IsFiniteSet(S), NEW f, \A x \in S : f[x] \in Int
    PROVE  SubsetSums(f, S) = SumsBy(f, S, SubsetSums(f, S))
<1>1. PICK n \in Nat : n = Cardinality(S)
  BY FS_CardinalityType
<1>2. PICK sum \in SumsUpTo(f, S, n) : TRUE
  BY SumsUpToExist
<1>3. Small(S, n) = SUBSET S
  BY <1>1, FS_Subset DEF Small
<1>4. sum = SumsBy(f, S, sum)
  BY <1>2, <1>3 DEF SumsUpTo, SumsBy
<1> QED
  BY <1>4 DEF SubsetSums

\* It does not matter which summand is taken first.
AddsUp(F, f, S) ==
    /\ F[{}] = 0
    /\ \A s \in SUBSET S : F[s] \in Int /\ \A x \in s : F[s] = f[x] + F[s \ {x}]

LEMMA SumInAnyOrder ==
    ASSUME NEW S, IsFiniteSet(S), NEW f, \A x \in S : f[x] \in Int
    PROVE  AddsUp(SubsetSums(f, S), f, S)
<1> DEFINE F == SubsetSums(f, S)
           Fine(s) == /\ F[s] \in Int
                      /\ \A x \in s : F[s] = f[x] + F[s \ {x}]
           P == {k \in Nat : \A s \in Small(S, k) : Fine(s)}
<1>1. F = SumsBy(f, S, F)
  BY SumsAddUp
<1> HIDE DEF F
<1>2. \A s \in SUBSET S : F[s] = IF s = {} THEN 0 ELSE f[First(s)] + F[Rest(s)]
  BY <1>1 DEF SumsBy
<1>3. 0 \in P
  <2>1. ASSUME NEW s \in Small(S, 0) PROVE s = {} /\ s \in SUBSET S
    BY FS_Subset, FS_EmptySet, FS_CardinalityType DEF Small
  <2> QED
    BY <2>1, <1>2
<1>4. ASSUME NEW k \in Nat, k \in P PROVE k + 1 \in P
  <2>1. ASSUME NEW s \in Small(S, k + 1) PROVE Fine(s)
    <3>1. s \in SUBSET S /\ Cardinality(s) <= k + 1
      BY DEF Small
    <3>2. CASE s = {}
      BY <1>2, <3>2
    <3>3. CASE s # {}
      <4> DEFINE c == First(s)
      <4>1. /\ c \in s /\ c \in S /\ Rest(s) \in SUBSET S /\ Cardinality(s) \in Nat
            /\ Cardinality(Rest(s)) = Cardinality(s) - 1
        BY <3>1, <3>3, RestIsSmaller
      <4>2. F[s] = f[c] + F[s \ {c}]
        BY <1>2, <3>1, <3>3 DEF Rest
      <4>3. ASSUME NEW x \in s PROVE s \ {x} \in Small(S, k) /\ Fine(s \ {x})
        <5>1. IsFiniteSet(s) /\ s \ {x} \in SUBSET S
          BY <3>1, FS_Subset
        <5>2. Cardinality(s \ {x}) = Cardinality(s) - 1
          BY <5>1, FS_RemoveElement
        <5>3. s \ {x} \in Small(S, k)
          BY <3>1, <4>1, <5>1, <5>2 DEF Small
        <5> QED
          BY <1>4, <5>3
      <4>4. F[s] \in Int
        <5>1. f[c] \in Int /\ F[s \ {c}] \in Int
          BY <4>1, <4>3
        <5> QED
          BY <4>2, <5>1
      <4>5. ASSUME NEW x \in s PROVE F[s] = f[x] + F[s \ {x}]
        <5>1. CASE x = c
          BY <4>2, <5>1
        <5>2. CASE x # c
          <6>1. x \in s \ {c} /\ c \in s \ {x} /\ (s \ {c}) \ {x} = (s \ {x}) \ {c}
            BY <4>1, <5>2
          <6>2. (s \ {c}) \ {x} \in Small(S, k)
            <7>1. IsFiniteSet(s \ {c}) /\ s \ {c} \in Small(S, k)
              BY <4>1, <4>3, FS_Subset DEF Small
            <7>2. Cardinality((s \ {c}) \ {x}) = Cardinality(s \ {c}) - 1
              BY <6>1, <7>1, FS_RemoveElement
            <7>3. Cardinality(s \ {c}) \in Nat /\ Cardinality(s \ {c}) <= k
              BY <7>1, FS_CardinalityType DEF Small
            <7> QED
              BY <7>1, <7>2, <7>3 DEF Small
          <6>3. PICK a \in Int, b \in Int, d \in Int :
                   a = f[x] /\ b = f[c] /\ d = F[(s \ {c}) \ {x}]
            <7>1. Fine((s \ {c}) \ {x})
              BY <1>4, <6>2
            <7> QED
              BY <3>1, <4>1, <7>1
          <6>4. F[s \ {c}] = a + d
            BY <4>1, <4>3, <6>1, <6>3
          <6>5. F[s \ {x}] = b + d
            BY <4>3, <6>1, <6>3
          <6>6. F[s] = b + (a + d)
            BY <4>2, <6>3, <6>4
          <6>7. b + (a + d) = a + (b + d)
            OBVIOUS
          <6> QED
            BY <6>3, <6>5, <6>6, <6>7, Zenon
        <5> QED
          BY <5>1, <5>2
      <4> QED
        BY <4>4, <4>5
    <3> QED
      BY <3>2, <3>3
  <2> HIDE DEF Fine
  <2> QED
    BY <2>1
<1> HIDE DEF P
<1>5. PICK n \in Nat : n = Cardinality(S)
  BY FS_CardinalityType
<1>6. n \in P
  BY <1>3, <1>4, EveryNumber
<1>7. ASSUME NEW s \in SUBSET S PROVE Fine(s)
  <2>1. s \in Small(S, n)
    BY <1>5, FS_Subset DEF Small
  <2> QED
    BY <1>6, <2>1 DEF P
<1>8. F[{}] = 0
  BY <1>2
<1> QED
  BY <1>7, <1>8 DEF F, AddsUp
-----------------------------------------------------------------------------
(* Numbers of a given width.                                               *)

LEMMA NumberFits ==
    ASSUME NEW width \in Nat, NEW ones \in SUBSET (0 .. width - 1)
    PROVE  NumberOf(width, ones) \in 0 .. 2 ^ width - 1
<1>0. PICK f : f = [k \in 0 .. width - 1 |-> 2 ^ k]
  OBVIOUS
<1> DEFINE F == SubsetSums(f, ones)
           P == {n \in Nat : \A s \in SUBSET ones : s \subseteq 0 .. n - 1 => F[s] \in 0 .. 2 ^ n - 1}
<1>1. IsFiniteSet(ones)
  <2>1. 0 \in Int /\ width - 1 \in Int
    OBVIOUS
  <2> QED
    BY <2>1, FS_Interval, FS_Subset
<1>2. \A x \in ones : f[x] = 2 ^ x /\ x \in Nat /\ f[x] \in Int
  BY <1>0, PowersOfTwo
<1>3. NumberOf(width, ones) = F[ones]
  BY <1>0, SumIsSums DEF NumberOf
<1>4. /\ F[{}] = 0
      /\ \A s \in SUBSET ones : F[s] \in Int /\ \A x \in s : F[s] = f[x] + F[s \ {x}]
  <2>1. \A x \in ones : f[x] \in Int
    BY <1>2
  <2>2. AddsUp(F, f, ones)
    BY <1>1, <2>1, SumInAnyOrder
  <2> QED
    BY <2>2 DEF AddsUp
<1> HIDE DEF F
<1>5. 0 \in P
  <2>1. ASSUME NEW s \in SUBSET ones, s \subseteq 0 .. 0 - 1 PROVE s = {}
    BY <2>1
  <2>2. F[{}] \in 0 .. 2 ^ 0 - 1
    BY <1>4, PowersOfTwo
  <2> QED
    BY <2>1, <2>2
<1>6. ASSUME NEW n \in Nat, n \in P PROVE n + 1 \in P
  <2> SUFFICES ASSUME NEW s \in SUBSET ones, s \subseteq 0 .. (n + 1) - 1
               PROVE  F[s] \in 0 .. 2 ^ (n + 1) - 1
    OBVIOUS
  <2>1. PICK t \in Nat : t = 2 ^ n /\ 2 ^ (n + 1) = 2 * t /\ t >= 1
    BY PowersOfTwo
  <2>2. CASE n \in s
    <3>1. s \ {n} \subseteq 0 .. n - 1 /\ s \ {n} \in SUBSET ones
      OBVIOUS
    <3>2. F[s \ {n}] \in 0 .. t - 1
      BY <1>6, <2>1, <3>1
    <3>3. F[s] = t + F[s \ {n}]
      BY <1>2, <1>4, <2>1, <2>2
    <3> QED
      BY <2>1, <3>2, <3>3
  <2>3. CASE n \notin s
    <3>1. s \subseteq 0 .. n - 1
      BY <2>3
    <3>2. F[s] \in 0 .. t - 1
      BY <1>6, <2>1, <3>1
    <3> QED
      BY <2>1, <3>2
  <2> QED
    BY <2>2, <2>3
<1> HIDE DEF P
<1>7. width \in P
  BY <1>5, <1>6, EveryNumber
<1> QED
  BY <1>3, <1>7 DEF P
-----------------------------------------------------------------------------
(* Intervals.                                                              *)

Encoders == {c \in [low : 0 .. Top, high : 0 .. Top, pending : Nat, bits : Seq({0, 1})] :
                c.low <= c.high}

\* The window of a decoder lies in its interval.
Decoders == {c \in [low : 0 .. Top, high : 0 .. Top, code : 0 .. Top, position : Nat \ {0}] :
                c.low <= c.code /\ c.code <= c.high}

Size(c) == (c.high - c.low) + 1

LEMMA RegisterFacts ==
    /\ Quarter \in Nat \ {0} /\ Scale \in 1 .. Quarter
    /\ Top \in Nat /\ Half \in Nat /\ Top = 4 * Quarter - 1 /\ Half = 2 * Quarter
    /\ RegisterBits \in Nat \ {0} /\ 2 ^ RegisterBits = Top + 1
    /\ ByteBits \in Nat \ {0} /\ Floor \in Nat \ {0}
    /\ Bytes = 0 .. 2 ^ ByteBits - 1 /\ 2 ^ ByteBits \in Nat \ {0}
<1>1. /\ Quarter \in Nat \ {0} /\ Scale \in 1 .. Quarter
      /\ ByteBits \in Nat \ {0} /\ Floor \in Nat \ {0}
  BY FloorAssumption
<1>2. \E n \in 1 .. Top : 2 ^ n = Top + 1
  BY FloorAssumption
<1>3. RegisterBits \in 1 .. Top /\ 2 ^ RegisterBits = Top + 1
  BY <1>2 DEF RegisterBits
<1>4. Top = 4 * Quarter - 1 /\ Half = 2 * Quarter
  BY DEF Top, Half
<1> QED
  BY <1>1, <1>3, <1>4, PowersOfTwo DEF Bytes

\* Between two bits the interval is wider than a quarter.
LEMMA SettledIsWide ==
    ASSUME NEW c, c.low \in 0 .. Top, c.high \in 0 .. Top, Settled(c)
    PROVE  c.high - c.low >= Quarter
BY RegisterFacts DEF Settled, Straddles

LEMMA WholeIsSettled ==
    ASSUME NEW c, c.low \in 0 .. Top, c.high \in 0 .. Top, Size(c) >= Top + 1
    PROVE  Settled(c)
BY RegisterFacts DEF Settled, Straddles, Size

LEMMA SplitIsInside ==
    ASSUME NEW c, c.low \in 0 .. Top, c.high \in 0 .. Top, Settled(c),
           NEW one \in 1 .. Scale - 1
    PROVE  Split(c, one) \in Int /\ c.low <= Split(c, one) /\ Split(c, one) < c.high
<1>1. PICK range \in Nat : range = c.high - c.low + 1 /\ range >= 2
  BY RegisterFacts, SettledIsWide
<1>2. PICK product \in Int : product = range * (Scale - one)
  BY RegisterFacts
<1>3. PICK quotient \in Int : quotient = product \div Scale
  BY RegisterFacts
<1>4. Split(c, one) = c.low + ClampTo(quotient, 1, range - 1) - 1
  BY <1>1, <1>2, <1>3 DEF Split
<1>5. ClampTo(quotient, 1, range - 1) \in 1 .. range - 1
  BY <1>1 DEF ClampTo
<1> QED
  BY <1>1, <1>4, <1>5

LEMMA NarrowedEncoder ==
    ASSUME NEW c \in Encoders, Settled(c), NEW one \in 1 .. Scale - 1, NEW bit
    PROVE  Narrowed(c, one, bit) \in Encoders
<1>1. /\ c \in [low : 0 .. Top, high : 0 .. Top, pending : Nat, bits : Seq({0, 1})]
      /\ c.low \in 0 .. Top /\ c.high \in 0 .. Top
  BY DEF Encoders
<1>2. PICK split \in Int : split = Split(c, one) /\ c.low <= split /\ split < c.high
  BY <1>1, SplitIsInside
<1>3. split \in 0 .. Top /\ split + 1 \in 0 .. Top
  BY <1>1, <1>2, RegisterFacts
<1>4. [c EXCEPT !.high = split] \in Encoders
  BY <1>1, <1>2, <1>3 DEF Encoders
<1>5. [c EXCEPT !.low = split + 1] \in Encoders
  <2>1. split + 1 <= c.high
    BY <1>1, <1>2
  <2> QED
    BY <1>1, <1>3, <2>1 DEF Encoders
<1> QED
  BY <1>2, <1>4, <1>5 DEF Narrowed

\* decode_bit goes to the side its window is on.
LEMMA NarrowedDecoder ==
    ASSUME NEW c \in Decoders, Settled(c), NEW one \in 1 .. Scale - 1
    PROVE  Narrowed(c, one, IF c.code <= Split(c, one) THEN 0 ELSE 1) \in Decoders
<1>1. /\ c \in [low : 0 .. Top, high : 0 .. Top, code : 0 .. Top, position : Nat \ {0}]
      /\ c.low \in 0 .. Top /\ c.high \in 0 .. Top /\ c.code \in 0 .. Top
      /\ c.low <= c.code /\ c.code <= c.high
  BY DEF Decoders
<1>2. PICK split \in Int : split = Split(c, one) /\ c.low <= split /\ split < c.high
  BY <1>1, SplitIsInside
<1>3. split \in 0 .. Top /\ split + 1 \in 0 .. Top
  BY <1>1, <1>2, RegisterFacts
<1>4. CASE c.code <= split
  <2>1. [c EXCEPT !.high = split] \in Decoders
    BY <1>1, <1>3, <1>4 DEF Decoders
  <2> QED
    BY <1>2, <1>4, <2>1 DEF Narrowed
<1>5. CASE ~(c.code <= split)
  <2>1. split + 1 <= c.code
    BY <1>1, <1>2, <1>5
  <2>2. [c EXCEPT !.low = split + 1] \in Decoders
    BY <1>1, <1>3, <2>1 DEF Decoders
  <2> QED
    BY <1>2, <1>5, <2>2 DEF Narrowed
<1> QED
  BY <1>4, <1>5

\* What a turn subtracts leaves room to double.
LEMMA DoubledStays ==
    ASSUME NEW c, c.low \in 0 .. Top, c.high \in 0 .. Top, c.low <= c.high, ~Settled(c)
    PROVE  /\ Offset(c) \in Nat /\ Offset(c) <= c.low
           /\ 2 * (c.low - Offset(c)) \in 0 .. Top
           /\ 2 * (c.high - Offset(c)) + 1 \in 0 .. Top
           /\ Straddles(c) => Offset(c) = Quarter
<1>1. CASE c.high < Half
  BY <1>1, RegisterFacts DEF Offset, Straddles
<1>2. CASE ~(c.high < Half) /\ c.low >= Half
  BY <1>2, RegisterFacts DEF Offset, Straddles
<1>3. CASE ~(c.high < Half) /\ ~(c.low >= Half)
  <2>1. Straddles(c) /\ Offset(c) = Quarter
    BY <1>3, RegisterFacts DEF Settled, Offset
  <2>2. /\ Quarter \in Nat /\ Top = 4 * Quarter - 1
        /\ Quarter <= c.low /\ c.low <= c.high /\ c.high < 3 * Quarter
    BY <2>1, RegisterFacts DEF Straddles
  <2>3. PICK a \in Nat, b \in Nat : a = c.low /\ b = c.high
    BY RegisterFacts
  <2>4. 2 * (a - Quarter) \in 0 .. Top /\ 2 * (b - Quarter) + 1 \in 0 .. Top
    BY <2>2, <2>3
  <2> QED
    BY <2>1, <2>2, <2>3, <2>4
<1> QED
  BY <1>1, <1>2, <1>3

LEMMA EncoderTurnDoubles ==
    ASSUME NEW c \in Encoders, ~Settled(c)
    PROVE  EncoderTurn(c) \in Encoders /\ Size(EncoderTurn(c)) = 2 * Size(c)
<1>1. /\ c = [low |-> c.low, high |-> c.high, pending |-> c.pending, bits |-> c.bits]
      /\ c.low \in 0 .. Top /\ c.high \in 0 .. Top /\ c.low <= c.high
      /\ c.pending \in Nat /\ c.bits \in Seq({0, 1})
  BY DEF Encoders
<1>2. PICK lo \in 0 .. Top, hi \in 0 .. Top :
         lo = 2 * (c.low - Offset(c)) /\ hi = 2 * (c.high - Offset(c)) + 1
  BY <1>1, DoubledStays
<1>3. Offset(c) \in Nat
  BY <1>1, DoubledStays
<1>a. PICK a \in Nat : a = c.low
  BY <1>1
<1>b. PICK b \in Nat : b = c.high
  BY <1>1
<1>o. PICK o \in Nat : o = Offset(c)
  BY <1>3
<1>4. lo <= hi /\ (hi - lo) + 1 = 2 * Size(c)
  <2>1. lo = 2 * (a - o) /\ hi = 2 * (b - o) + 1 /\ a <= b /\ Size(c) = (b - a) + 1
    BY <1>1, <1>2, <1>a, <1>b, <1>o DEF Size
  <2> QED
    BY <2>1
<1>5. Doubled(c) = [low |-> lo, high |-> hi, pending |-> c.pending, bits |-> c.bits]
  <2>1. Doubled(c) = [c EXCEPT !.low = lo, !.high = hi]
    BY <1>2, Zenon DEF Doubled
  <2>2. [c EXCEPT !.low = lo, !.high = hi] = [[c EXCEPT !.low = lo] EXCEPT !.high = hi]
    OBVIOUS
  <2>3. PICK d : d = [c EXCEPT !.low = lo]
    OBVIOUS
  <2>4. d = [low |-> lo, high |-> c.high, pending |-> c.pending, bits |-> c.bits]
    BY <1>1, <2>3
  <2>5. [d EXCEPT !.high = hi] = [low |-> lo, high |-> hi, pending |-> c.pending, bits |-> c.bits]
    BY <2>4
  <2> QED
    BY <2>1, <2>2, <2>3, <2>5
<1>6. CASE Straddles(c)
  <2>1. EncoderTurn(c) = [low |-> lo, high |-> hi, pending |-> c.pending + 1, bits |-> c.bits]
    BY <1>5, <1>6 DEF EncoderTurn
  <2> QED
    BY <1>1, <1>4, <2>1 DEF Encoders, Size
<1>7. CASE ~Straddles(c)
  <2>1. PICK bit \in {0, 1} : bit = IF c.high < Half THEN 0 ELSE 1
    OBVIOUS
  <2>2. PICK tail : tail = [i \in 1 .. c.pending |-> 1 - bit]
    OBVIOUS
  <2>3. tail \in Seq({0, 1})
    <3>1. 1 - bit \in {0, 1}
      BY <2>1
    <3> QED
      BY <1>1, <2>2, <3>1
  <2>4. PICK more \in Seq({0, 1}) : more = Append(c.bits, bit) \o tail
    <3>1. ASSUME NEW T, NEW p \in Seq(T), NEW q \in Seq(T), NEW e \in T
          PROVE  Append(p, e) \o q \in Seq(T)
      OBVIOUS
    <3> QED
      BY <1>1, <2>1, <2>3, <3>1
  <2>5. EncoderTurn(c) = [low |-> lo, high |-> hi, pending |-> 0, bits |-> more]
    <3>1. PICK d : d = Doubled(c)
      OBVIOUS
    <3>2. EncoderTurn(c) = Emit(d, bit)
      BY <1>7, <2>1, <3>1, Zenon DEF EncoderTurn
    <3>3. d = [low |-> lo, high |-> hi, pending |-> c.pending, bits |-> c.bits]
      BY <1>5, <3>1
    <3>4. Emit(d, bit) = [[d EXCEPT !.bits = more] EXCEPT !.pending = 0]
      BY <2>2, <2>4, <3>3 DEF Emit
    <3> QED
      BY <3>2, <3>3, <3>4
  <2> QED
    BY <1>4, <2>5 DEF Encoders, Size
<1> QED
  BY <1>6, <1>7

LEMMA DecoderTurnDoubles ==
    ASSUME payload \in Seq({0, 1}), NEW c \in Decoders, ~Settled(c)
    PROVE  DecoderTurn(c) \in Decoders /\ Size(DecoderTurn(c)) = 2 * Size(c)
<1>1. /\ c = [low |-> c.low, high |-> c.high, code |-> c.code, position |-> c.position]
      /\ c.low \in 0 .. Top /\ c.high \in 0 .. Top /\ c.code \in 0 .. Top
      /\ c.low <= c.code /\ c.code <= c.high
      /\ c.position \in Nat \ {0}
  BY DEF Decoders
<1>2. PICK lo \in 0 .. Top, hi \in 0 .. Top :
         lo = 2 * (c.low - Offset(c)) /\ hi = 2 * (c.high - Offset(c)) + 1
  BY <1>1, DoubledStays
<1>3. Offset(c) \in Nat
  BY <1>1, DoubledStays
<1>a. PICK a \in Nat : a = c.low
  BY <1>1
<1>b. PICK b \in Nat : b = c.high
  BY <1>1
<1>o. PICK o \in Nat : o = Offset(c)
  BY <1>3
<1>4. lo <= hi /\ (hi - lo) + 1 = 2 * Size(c)
  <2>1. lo = 2 * (a - o) /\ hi = 2 * (b - o) + 1 /\ a <= b /\ Size(c) = (b - a) + 1
    BY <1>1, <1>2, <1>a, <1>b, <1>o DEF Size
  <2> QED
    BY <2>1
<1>5. Doubled(c) = [low |-> lo, high |-> hi, code |-> c.code, position |-> c.position]
  <2>1. Doubled(c) = [c EXCEPT !.low = lo, !.high = hi]
    BY <1>2, Zenon DEF Doubled
  <2>2. [c EXCEPT !.low = lo, !.high = hi] = [[c EXCEPT !.low = lo] EXCEPT !.high = hi]
    OBVIOUS
  <2>3. PICK d : d = [c EXCEPT !.low = lo]
    OBVIOUS
  <2>4. d = [low |-> lo, high |-> c.high, code |-> c.code, position |-> c.position]
    BY <1>1, <2>3
  <2>5. [d EXCEPT !.high = hi] = [low |-> lo, high |-> hi, code |-> c.code, position |-> c.position]
    BY <2>4
  <2> QED
    BY <2>1, <2>2, <2>3, <2>5
<1>6. PICK bit \in {0, 1} : bit = ReadBit(c.position)
  BY <1>1 DEF ReadBit
<1>c. PICK e \in Nat : e = c.code
  BY <1>1
<1>7. PICK code \in Int : code = 2 * (e - o) + bit
  BY <1>6
<1>8. lo <= code /\ code <= hi
  <2>1. lo = 2 * (a - o) /\ hi = 2 * (b - o) + 1 /\ a <= e /\ e <= b
    BY <1>1, <1>2, <1>a, <1>b, <1>c, <1>o
  <2> QED
    BY <2>1, <1>6, <1>7
<1>9. DecoderTurn(c) = [low |-> lo, high |-> hi, code |-> code, position |-> c.position + 1]
  <2>1. PICK d : d = Doubled(c)
    OBVIOUS
  <2>2. d = [low |-> lo, high |-> hi, code |-> c.code, position |-> c.position]
    BY <1>5, <2>1
  <2>3. DecoderTurn(c) = [d EXCEPT !.code = 2 * (@ - Offset(c)) + ReadBit(c.position),
                                   !.position = @ + 1]
    BY <2>1, Zenon DEF DecoderTurn
  <2>4. d.code = e
    BY <1>c, <2>2
  <2>5. DecoderTurn(c) = [[d EXCEPT !.code = code] EXCEPT !.position = c.position + 1]
    BY <1>6, <1>7, <1>o, <2>2, <2>3, <2>4
  <2> QED
    BY <2>2, <2>5
<1>10. code \in 0 .. Top
  BY <1>2, <1>8, RegisterFacts
<1> QED
  BY <1>1, <1>4, <1>8, <1>9, <1>10 DEF Decoders, Size

\* The turns of a renormalisation, the last of them its result.
EncoderRuns(c) ==
    {g \in [0 .. RegisterBits -> Encoders] :
        /\ g[0] = c /\ g[RegisterBits] = EncoderSettled(c)
        /\ \A k \in 1 .. RegisterBits :
              g[k] = IF Settled(g[k - 1]) THEN g[k - 1] ELSE EncoderTurn(g[k - 1])}

DecoderRuns(c) ==
    {g \in [0 .. RegisterBits -> Decoders] :
        /\ g[0] = c /\ g[RegisterBits] = DecoderSettled(c)
        /\ \A k \in 1 .. RegisterBits :
              g[k] = IF Settled(g[k - 1]) THEN g[k - 1] ELSE DecoderTurn(g[k - 1])}

LEMMA EncoderRun ==
    ASSUME NEW c \in Encoders
    PROVE  EncoderRuns(c) # {}
<1> DEFINE R == RegisterBits
           Turn(d) == IF Settled(d) THEN d ELSE EncoderTurn(d)
           F == [x \in (1 .. R) \X Encoders |-> Turn(x[2])]
           Body(f) == [k \in 0 .. R |-> IF k = 0 THEN c ELSE Turn(f[k - 1])]
           After == CHOOSE f : f = Body(f)
<1>1. R \in Nat \ {0}
  BY RegisterFacts
<1>2. ASSUME NEW d \in Encoders PROVE Turn(d) \in Encoders
  BY EncoderTurnDoubles
<1>3. EncoderSettled(c) = After[R]
  BY DEF EncoderSettled
<1>4. ASSUME NEW g \in [0 .. R -> Encoders], g[0] = c, g[R] = EncoderSettled(c),
             \A k \in 1 .. R : g[k] = Turn(g[k - 1])
      PROVE  g \in EncoderRuns(c)
  BY <1>4 DEF EncoderRuns
<1> HIDE DEF Turn, R
<1>5. F \in [(1 .. R) \X Encoders -> Encoders]
  BY <1>2
<1>6. \A k \in 1 .. R : \A d \in Encoders : F[<<k, d>>] = Turn(d)
  OBVIOUS
<1> HIDE DEF F
<1>7. Runs(Encoders, c, F, R) # {}
  BY <1>1, <1>5, LoopRuns
<1>8. PICK g \in Runs(Encoders, c, F, R) : TRUE
  BY <1>7
<1>9. g \in [0 .. R -> Encoders] /\ g[0] = c /\ \A k \in 1 .. R : g[k] = F[<<k, g[k - 1]>>]
  BY <1>8 DEF Runs
<1>10. ASSUME NEW k \in 1 .. R PROVE g[k] = Turn(g[k - 1])
  <2>1. k - 1 \in 0 .. R
    BY <1>1
  <2> QED
    BY <1>6, <1>9, <2>1
<1>11. g = Body(g)
  <2>1. \A k \in 0 .. R : g[k] = IF k = 0 THEN c ELSE Turn(g[k - 1])
    BY <1>9, <1>10
  <2> QED
    BY <1>9, <2>1
<1>12. After = Body(After)
  BY <1>11
<1> HIDE DEF After
<1>13. After[0] = c /\ \A k \in 1 .. R : After[k] = Turn(After[k - 1])
  <2>1. \A k \in 0 .. R : Body(After)[k] = IF k = 0 THEN c ELSE Turn(After[k - 1])
    OBVIOUS
  <2>2. 0 \in 0 .. R /\ \A k \in 1 .. R : k \in 0 .. R /\ k # 0
    BY <1>1
  <2> HIDE DEF Body
  <2> QED
    BY <1>12, <2>1, <2>2
<1> DEFINE Same == {k \in 0 .. R : After[k] = g[k]}
<1>s. \A k \in 0 .. R : k \in Same => After[k] = g[k]
  OBVIOUS
<1>u. 0 \in Same
  BY <1>1, <1>9, <1>13
<1>v. ASSUME NEW k \in 1 .. R, k - 1 \in Same PROVE k \in Same
  <2>1. k \in 0 .. R /\ After[k - 1] = g[k - 1]
    BY <1>v, <1>1
  <2> QED
    BY <1>10, <1>13, <2>1
<1> HIDE DEF Same
<1>14. \A k \in 0 .. R : After[k] = g[k]
  <2>1. 0 .. R \subseteq Same
    BY <1>1, <1>u, <1>v, EveryTurn
  <2> QED
    BY <1>s, <2>1
<1>15. g[R] = EncoderSettled(c)
  <2>1. R \in 0 .. R
    BY <1>1
  <2> QED
    BY <1>3, <1>14, <2>1
<1>16. g \in EncoderRuns(c)
  BY <1>4, <1>9, <1>10, <1>15
<1> QED
  BY <1>16

LEMMA EncoderSettles ==
    ASSUME NEW c \in Encoders
    PROVE  EncoderSettled(c) \in Encoders /\ Settled(EncoderSettled(c))
<1>1. RegisterBits \in Nat \ {0} /\ 2 ^ RegisterBits = Top + 1
  BY RegisterFacts
<1>2. PICK g \in EncoderRuns(c) : TRUE
  BY EncoderRun
<1>3. /\ g \in [0 .. RegisterBits -> Encoders]
      /\ g[0] = c /\ g[RegisterBits] = EncoderSettled(c)
      /\ \A k \in 1 .. RegisterBits :
            g[k] = IF Settled(g[k - 1]) THEN g[k - 1] ELSE EncoderTurn(g[k - 1])
  BY <1>2 DEF EncoderRuns
<1> DEFINE P == {k \in 0 .. RegisterBits : Settled(g[k]) \/ Size(g[k]) >= 2 ^ k}
<1>4. 0 \in P
  <2>1. c.low \in Int /\ c.high \in Int /\ c.low <= c.high
    BY DEF Encoders
  <2>2. Size(c) >= 2 ^ 0
    BY <2>1, PowersOfTwo DEF Size
  <2> QED
    BY <1>1, <1>3, <2>2
<1>5. ASSUME NEW k \in 1 .. RegisterBits, k - 1 \in P PROVE k \in P
  <2>1. k - 1 \in Nat /\ (k - 1) + 1 = k /\ k \in 0 .. RegisterBits /\ k - 1 \in 0 .. RegisterBits
    BY <1>1
  <2>2. PICK d \in Encoders : d = g[k - 1] /\ (Settled(d) \/ Size(d) >= 2 ^ (k - 1))
    BY <1>3, <1>5, <2>1
  <2>3. g[k] = IF Settled(d) THEN d ELSE EncoderTurn(d)
    BY <1>3, <2>2
  <2>4. CASE Settled(d)
    BY <2>1, <2>3, <2>4
  <2>5. CASE ~Settled(d)
    <3>1. PICK t \in Nat : t = 2 ^ (k - 1) /\ 2 ^ k = 2 * t
      BY <2>1, PowersOfTwo
    <3>2. PICK z \in Int : z = Size(d)
      BY DEF Size, Encoders
    <3>3. Size(EncoderTurn(d)) = 2 * z /\ z >= t
      BY <2>2, <2>5, <3>1, <3>2, EncoderTurnDoubles
    <3>4. Size(g[k]) >= 2 ^ k
      BY <2>3, <2>5, <3>1, <3>3
    <3> QED
      BY <2>1, <3>4
  <2> QED
    BY <2>4, <2>5
<1> HIDE DEF P
<1>6. RegisterBits \in P
  <2>1. 0 .. RegisterBits \subseteq P
    BY <1>1, <1>4, <1>5, EveryTurn
  <2> QED
    BY <1>1, <2>1
<1>7. PICK d \in Encoders : d = EncoderSettled(c) /\ (Settled(d) \/ Size(d) >= Top + 1)
  BY <1>1, <1>3, <1>6 DEF P
<1>8. d.low \in 0 .. Top /\ d.high \in 0 .. Top
  BY DEF Encoders
<1> QED
  BY <1>7, <1>8, WholeIsSettled

LEMMA DecoderRun ==
    ASSUME payload \in Seq({0, 1}), NEW c \in Decoders
    PROVE  DecoderRuns(c) # {}
<1> DEFINE R == RegisterBits
           Turn(d) == IF Settled(d) THEN d ELSE DecoderTurn(d)
           F == [x \in (1 .. R) \X Decoders |-> Turn(x[2])]
           Body(f) == [k \in 0 .. R |-> IF k = 0 THEN c ELSE Turn(f[k - 1])]
           After == CHOOSE f : f = Body(f)
<1>1. R \in Nat \ {0}
  BY RegisterFacts
<1>2. ASSUME NEW d \in Decoders PROVE Turn(d) \in Decoders
  BY DecoderTurnDoubles
<1>3. DecoderSettled(c) = After[R]
  BY DEF DecoderSettled
<1>4. ASSUME NEW g \in [0 .. R -> Decoders], g[0] = c, g[R] = DecoderSettled(c),
             \A k \in 1 .. R : g[k] = Turn(g[k - 1])
      PROVE  g \in DecoderRuns(c)
  BY <1>4 DEF DecoderRuns
<1> HIDE DEF Turn, R
<1>5. F \in [(1 .. R) \X Decoders -> Decoders]
  BY <1>2
<1>6. \A k \in 1 .. R : \A d \in Decoders : F[<<k, d>>] = Turn(d)
  OBVIOUS
<1> HIDE DEF F
<1>7. Runs(Decoders, c, F, R) # {}
  BY <1>1, <1>5, LoopRuns
<1>8. PICK g \in Runs(Decoders, c, F, R) : TRUE
  BY <1>7
<1>9. g \in [0 .. R -> Decoders] /\ g[0] = c /\ \A k \in 1 .. R : g[k] = F[<<k, g[k - 1]>>]
  BY <1>8 DEF Runs
<1>10. ASSUME NEW k \in 1 .. R PROVE g[k] = Turn(g[k - 1])
  <2>1. k - 1 \in 0 .. R
    BY <1>1
  <2> QED
    BY <1>6, <1>9, <2>1
<1>11. g = Body(g)
  <2>1. \A k \in 0 .. R : g[k] = IF k = 0 THEN c ELSE Turn(g[k - 1])
    BY <1>9, <1>10
  <2> QED
    BY <1>9, <2>1
<1>12. After = Body(After)
  BY <1>11
<1> HIDE DEF After
<1>13. After[0] = c /\ \A k \in 1 .. R : After[k] = Turn(After[k - 1])
  <2>1. \A k \in 0 .. R : Body(After)[k] = IF k = 0 THEN c ELSE Turn(After[k - 1])
    OBVIOUS
  <2>2. 0 \in 0 .. R /\ \A k \in 1 .. R : k \in 0 .. R /\ k # 0
    BY <1>1
  <2> HIDE DEF Body
  <2> QED
    BY <1>12, <2>1, <2>2
<1> DEFINE Same == {k \in 0 .. R : After[k] = g[k]}
<1>s. \A k \in 0 .. R : k \in Same => After[k] = g[k]
  OBVIOUS
<1>u. 0 \in Same
  BY <1>1, <1>9, <1>13
<1>v. ASSUME NEW k \in 1 .. R, k - 1 \in Same PROVE k \in Same
  <2>1. k \in 0 .. R /\ After[k - 1] = g[k - 1]
    BY <1>v, <1>1
  <2> QED
    BY <1>10, <1>13, <2>1
<1> HIDE DEF Same
<1>14. \A k \in 0 .. R : After[k] = g[k]
  <2>1. 0 .. R \subseteq Same
    BY <1>1, <1>u, <1>v, EveryTurn
  <2> QED
    BY <1>s, <2>1
<1>15. g[R] = DecoderSettled(c)
  <2>1. R \in 0 .. R
    BY <1>1
  <2> QED
    BY <1>3, <1>14, <2>1
<1>16. g \in DecoderRuns(c)
  BY <1>4, <1>9, <1>10, <1>15
<1> QED
  BY <1>16

LEMMA DecoderSettles ==
    ASSUME payload \in Seq({0, 1}), NEW c \in Decoders
    PROVE  DecoderSettled(c) \in Decoders /\ Settled(DecoderSettled(c))
<1>1. RegisterBits \in Nat \ {0} /\ 2 ^ RegisterBits = Top + 1
  BY RegisterFacts
<1>2. PICK g \in DecoderRuns(c) : TRUE
  BY DecoderRun
<1>3. /\ g \in [0 .. RegisterBits -> Decoders]
      /\ g[0] = c /\ g[RegisterBits] = DecoderSettled(c)
      /\ \A k \in 1 .. RegisterBits :
            g[k] = IF Settled(g[k - 1]) THEN g[k - 1] ELSE DecoderTurn(g[k - 1])
  BY <1>2 DEF DecoderRuns
<1> DEFINE P == {k \in 0 .. RegisterBits : Settled(g[k]) \/ Size(g[k]) >= 2 ^ k}
<1>4. 0 \in P
  <2>1. c.low \in Int /\ c.high \in Int /\ c.low <= c.high
    BY DEF Decoders
  <2>2. Size(c) >= 2 ^ 0
    BY <2>1, PowersOfTwo DEF Size
  <2> QED
    BY <1>1, <1>3, <2>2
<1>5. ASSUME NEW k \in 1 .. RegisterBits, k - 1 \in P PROVE k \in P
  <2>1. k - 1 \in Nat /\ (k - 1) + 1 = k /\ k \in 0 .. RegisterBits /\ k - 1 \in 0 .. RegisterBits
    BY <1>1
  <2>2. PICK d \in Decoders : d = g[k - 1] /\ (Settled(d) \/ Size(d) >= 2 ^ (k - 1))
    BY <1>3, <1>5, <2>1
  <2>3. g[k] = IF Settled(d) THEN d ELSE DecoderTurn(d)
    BY <1>3, <2>2
  <2>4. CASE Settled(d)
    BY <2>1, <2>3, <2>4
  <2>5. CASE ~Settled(d)
    <3>1. PICK t \in Nat : t = 2 ^ (k - 1) /\ 2 ^ k = 2 * t
      BY <2>1, PowersOfTwo
    <3>2. PICK z \in Int : z = Size(d)
      BY DEF Size, Decoders
    <3>3. Size(DecoderTurn(d)) = 2 * z /\ z >= t
      BY <2>2, <2>5, <3>1, <3>2, DecoderTurnDoubles
    <3>4. Size(g[k]) >= 2 ^ k
      BY <2>3, <2>5, <3>1, <3>3
    <3> QED
      BY <2>1, <3>4
  <2> QED
    BY <2>4, <2>5
<1> HIDE DEF P
<1>6. RegisterBits \in P
  <2>1. 0 .. RegisterBits \subseteq P
    BY <1>1, <1>4, <1>5, EveryTurn
  <2> QED
    BY <1>1, <2>1
<1>7. PICK d \in Decoders : d = DecoderSettled(c) /\ (Settled(d) \/ Size(d) >= Top + 1)
  BY <1>1, <1>3, <1>6 DEF P
<1>8. d.low \in 0 .. Top /\ d.high \in 0 .. Top
  BY DEF Decoders
<1> QED
  BY <1>7, <1>8, WholeIsSettled

-----------------------------------------------------------------------------
(* Cells and bits.                                                         *)

Cells == {c \in [zero : 1 .. CountLimit, one : 1 .. CountLimit] : c.zero + c.one <= CountLimit}

Models == [0 .. Floor - 1 -> Cells]

LEMMA NewModel == NewCells \in Models
<1>1. CountLimit \in Nat /\ CountLimit >= 2
  BY FloorAssumption
<1> QED
  BY <1>1 DEF NewCells, Models, Cells

LEMMA CellFacts ==
    ASSUME NEW c \in Cells, NEW bit \in {0, 1}
    PROVE  ProbabilityOne(c) \in 1 .. Scale - 1 /\ CellUpdated(c, bit) \in Cells
<1>1. /\ c = [zero |-> c.zero, one |-> c.one]
      /\ c.zero \in 1 .. CountLimit /\ c.one \in 1 .. CountLimit /\ c.zero + c.one <= CountLimit
  BY DEF Cells
<1>2. CountLimit \in Nat /\ 2 <= CountLimit /\ CountLimit <= Scale - 1 /\ Scale \in Nat
  BY FloorAssumption
<1>3. PICK z \in Nat \ {0} : z = c.zero
  BY <1>1, <1>2
<1>4. PICK o \in Nat \ {0} : o = c.one
  BY <1>1, <1>2
<1>5. ProbabilityOne(c) \in 1 .. Scale - 1
  <2>1. PICK product \in Int : product = o * Scale
    BY <1>2
  <2>2. PICK quotient \in Int : quotient = product \div (z + o)
    OBVIOUS
  <2>3. ProbabilityOne(c) = ClampTo(quotient, 1, Scale - 1)
    BY <1>3, <1>4, <2>1, <2>2 DEF ProbabilityOne
  <2> QED
    BY <1>2, <2>3 DEF ClampTo
<1>6. ASSUME NEW a \in Nat \ {0}, NEW b \in Nat \ {0}, a + b <= CountLimit + 1
      PROVE  (IF a + b > CountLimit THEN [zero |-> (a + 1) \div 2, one |-> (b + 1) \div 2]
              ELSE [zero |-> a, one |-> b]) \in Cells
  <2>1. CASE a + b > CountLimit
    <3>1. PICK h \in Nat \ {0} : h = (a + 1) \div 2 /\ 2 * h <= a + 1
      OBVIOUS
    <3>2. PICK k \in Nat \ {0} : k = (b + 1) \div 2 /\ 2 * k <= b + 1
      OBVIOUS
    <3>3. h + k <= CountLimit
      BY <1>2, <1>6, <3>1, <3>2
    <3>4. [zero |-> h, one |-> k] \in Cells
      BY <1>2, <3>3 DEF Cells
    <3> QED
      BY <2>1, <3>1, <3>2, <3>4
  <2>2. CASE ~(a + b > CountLimit)
    <3>1. [zero |-> a, one |-> b] \in Cells
      BY <1>2, <2>2 DEF Cells
    <3> QED
      BY <2>2, <3>1
  <2> QED
    BY <2>1, <2>2
<1>7. CellUpdated(c, bit) \in Cells
  <2>1. CASE bit = 0
    <3>1. PICK d : d = [c EXCEPT !.zero = z + 1]
      OBVIOUS
    <3>2. d = [zero |-> z + 1, one |-> o]
      BY <1>1, <1>4, <3>1
    <3>3. CellUpdated(c, bit) =
             IF d.zero + d.one > CountLimit
               THEN [zero |-> (d.zero + 1) \div 2, one |-> (d.one + 1) \div 2] ELSE d
      BY <1>3, <2>1, <3>1 DEF CellUpdated
    <3>4. z + 1 \in Nat \ {0} /\ (z + 1) + o <= CountLimit + 1
      BY <1>1, <1>2, <1>3, <1>4
    <3> QED
      BY <1>6, <3>2, <3>3, <3>4
  <2>2. CASE bit = 1
    <3>1. PICK d : d = [c EXCEPT !.one = o + 1]
      OBVIOUS
    <3>2. d = [zero |-> z, one |-> o + 1]
      BY <1>1, <1>3, <3>1
    <3>3. CellUpdated(c, bit) =
             IF d.zero + d.one > CountLimit
               THEN [zero |-> (d.zero + 1) \div 2, one |-> (d.one + 1) \div 2] ELSE d
      BY <1>4, <2>2, <3>1 DEF CellUpdated
    <3>4. o + 1 \in Nat \ {0} /\ z + (o + 1) <= CountLimit + 1
      BY <1>1, <1>2, <1>3, <1>4
    <3> QED
      BY <1>6, <3>2, <3>3, <3>4
  <2> QED
    BY <2>1, <2>2
<1> QED
  BY <1>5, <1>7

LEMMA BitIsBit ==
    ASSUME NEW v \in Nat, NEW k \in Nat
    PROVE  Bit(v, k) \in {0, 1}
<1>1. PICK t \in Nat \ {0} : t = 2 ^ k
  BY PowersOfTwo
<1>2. PICK q \in Int : q = v \div t
  OBVIOUS
<1> QED
  BY <1>1, <1>2 DEF Bit

LEMMA IndexIsCell ==
    ASSUME seed \in Seeds, NEW history \in Seq(Bytes), NEW predicted \in Bytes,
           NEW prefix \in Bytes, NEW position \in 1 .. ByteBits
    PROVE  Index(history, predicted, prefix, position) \in 0 .. Floor - 1
<1> DEFINE first == ClampTo(Len(history) - 3, 1, Len(history))
           recent == SubSeq(history, first, Len(history))
           context == <<seed, predicted, prefix, position, recent>>
<1>1. PICK n \in Nat : n = Len(history) /\ history \in [1 .. n -> Bytes]
  OBVIOUS
<1>2. PICK m \in 0 .. 4 : recent \in [1 .. m -> Bytes]
  <2>1. CASE n = 0
    <3>1. first = 1 /\ history = <<>>
      BY <1>1, <2>1 DEF ClampTo
    <3>2. recent = SubSeq(<<>>, 1, 0)
      BY <1>1, <2>1, <3>1
    <3>3. SubSeq(<<>>, 1, 0) \in [1 .. 0 -> Bytes]
      OBVIOUS
    <3> QED
      BY <3>2, <3>3
  <2>2. CASE n > 0
    <3>1. first \in 1 .. n /\ n - first <= 3
      BY <1>1, <2>2 DEF ClampTo
    <3> HIDE DEF first
    <3>2. PICK m \in 1 .. 4 : m = (n - first) + 1
      BY <3>1
    <3>3. recent \in Seq(Bytes) /\ Len(recent) = m
      BY <1>1, <3>1, <3>2
    <3> HIDE DEF recent
    <3>4. recent \in [1 .. m -> Bytes] /\ m \in 0 .. 4
      BY <3>2, <3>3
    <3> QED
      BY <3>4
  <2> QED
    BY <2>1, <2>2
<1> HIDE DEF recent
<1>3. context \in Contexts
  BY <1>2 DEF Contexts
<1>4. Index(history, predicted, prefix, position) = Hash(context) % Floor
  BY DEF Index, recent
<1> HIDE DEF context
<1>5. PICK h \in Nat : h = Hash(context)
  BY <1>3, FloorAssumption
<1> QED
  BY <1>4, <1>5, RegisterFacts

\* A prefix of a byte is one.
LEMMA PrefixIsByte ==
    ASSUME NEW v \in Bytes, NEW k \in Nat
    PROVE  v \div 2 ^ k \in Bytes
<1>1. PICK t \in Nat \ {0} : t = 2 ^ k
  BY PowersOfTwo
<1>2. PICK top \in Nat : top = 2 ^ ByteBits - 1 /\ Bytes = 0 .. top
  BY RegisterFacts
<1>3. PICK q \in Int : q = v \div t /\ t * q <= v /\ v < t * (q + 1)
  BY <1>2
<1>4. q >= 0
  <2>1. SUFFICES ASSUME q < 0 PROVE FALSE
    BY <1>3
  <2>2. t * (q + 1) <= 0
    BY <1>3, <2>1
  <2> QED
    BY <1>2, <1>3, <2>2
<1>5. q <= v
  <2>1. t * q >= q
    BY <1>4
  <2> QED
    BY <1>2, <1>3, <2>1
<1> QED
  BY <1>1, <1>2, <1>3, <1>4, <1>5

LEMMA ByteFacts ==
    /\ \A ones \in SUBSET (0 .. ByteBits - 1) : NumberOf(ByteBits, ones) \in Bytes
    /\ \A a, b : Xor(a, b) \in Bytes
    /\ \A history, plan : Predict(history, plan) \in Bytes
<1>1. ASSUME NEW ones \in SUBSET (0 .. ByteBits - 1) PROVE NumberOf(ByteBits, ones) \in Bytes
  BY RegisterFacts, NumberFits
<1>2. ASSUME NEW a, NEW b PROVE Xor(a, b) \in Bytes
  <2>1. Xor(a, b) = NumberOf(ByteBits, {k \in 0 .. ByteBits - 1 : Bit(a, k) # Bit(b, k)})
    BY DEF Xor
  <2> QED
    BY <1>1, <2>1
<1>3. ASSUME NEW history, NEW plan PROVE Predict(history, plan) \in Bytes
  <2> DEFINE Ones(k) == Cardinality({i \in DOMAIN plan : Bit(DirectionValue(history, plan[i]), k) = 1})
             Chosen(k) == \/ 2 * Ones(k) > Len(plan)
                          \/ 2 * Ones(k) = Len(plan) /\ Bit(DirectionValue(history, 0), k) = 1
  <2>1. Predict(history, plan) = NumberOf(ByteBits, {k \in 0 .. ByteBits - 1 : Chosen(k)})
    BY DEF Predict
  <2> HIDE DEF Chosen
  <2> QED
    BY <1>1, <2>1
<1> QED
  BY <1>1, <1>2, <1>3
-----------------------------------------------------------------------------
(* The bits of a byte, on either side.                                     *)

EncoderSides ==
    {s \in [coder : Encoders, cells : Models] : Settled(s.coder)}

DecoderSides ==
    {s \in [coder : Decoders, cells : Models, residual : Bytes] : Settled(s.coder)}

LEMMA ModelStays ==
    ASSUME NEW cells \in Models, NEW i \in 0 .. Floor - 1, NEW bit \in {0, 1}
    PROVE  /\ ProbabilityOne(cells[i]) \in 1 .. Scale - 1
           /\ [cells EXCEPT ![i] = CellUpdated(@, bit)] \in Models
<1>1. cells[i] \in Cells
  BY DEF Models
<1>2. PICK cell \in Cells : cell = CellUpdated(cells[i], bit)
  BY <1>1, CellFacts
<1>3. [cells EXCEPT ![i] = cell] \in Models
  BY <1>2 DEF Models
<1> QED
  BY <1>1, <1>2, <1>3, CellFacts

LEMMA ResidualGrows ==
    ASSUME NEW k \in 1 .. ByteBits, NEW r \in Nat, r < 2 ^ (k - 1), NEW bit \in {0, 1}
    PROVE  2 * r + bit \in Bytes /\ 2 * r + bit < 2 ^ k
<1>1. k - 1 \in Nat /\ (k - 1) + 1 = k /\ k \in 0 .. ByteBits /\ ByteBits \in Nat
  BY RegisterFacts
<1>2. PICK a \in Nat : a = 2 ^ (k - 1) /\ 2 ^ k = 2 * a
  BY <1>1, PowersOfTwo
<1>3. PICK b \in Nat : b = 2 ^ ByteBits /\ 2 * a <= b /\ Bytes = 0 .. b - 1
  BY <1>1, <1>2, PowersGrow, RegisterFacts
<1> QED
  BY <1>2, <1>3

\* The bits of a byte, one by one.
EncoderBit(s, history, predicted, residual, n) ==
    LET bit == Bit(residual, ByteBits - n)
        prefix == residual \div 2 ^ (ByteBits + 1 - n)
        i == Index(history, predicted, prefix, n)
        narrowed == Narrowed(s.coder, ProbabilityOne(s.cells[i]), bit)
    IN [coder |-> EncoderSettled(narrowed),
        cells |-> [s.cells EXCEPT ![i] = CellUpdated(@, bit)]]

DecoderBit(s, history, predicted, n) ==
    LET i == Index(history, predicted, s.residual, n)
        one == ProbabilityOne(s.cells[i])
        bit == IF s.coder.code <= Split(s.coder, one) THEN 0 ELSE 1
    IN [coder |-> DecoderSettled(Narrowed(s.coder, one, bit)),
        cells |-> [s.cells EXCEPT ![i] = CellUpdated(@, bit)],
        residual |-> 2 * s.residual + bit]

EncoderBitIs(s, history, predicted, residual, n, bit, i, one) ==
    /\ bit = Bit(residual, ByteBits - n)
    /\ i = Index(history, predicted, residual \div 2 ^ (ByteBits + 1 - n), n)
    /\ one = ProbabilityOne(s.cells[i])
    /\ EncoderBit(s, history, predicted, residual, n)
       = [coder |-> EncoderSettled(Narrowed(s.coder, one, bit)),
          cells |-> [s.cells EXCEPT ![i] = CellUpdated(@, bit)]]

DecoderBitIs(s, history, predicted, n, bit, i, one) ==
    /\ i = Index(history, predicted, s.residual, n)
    /\ one = ProbabilityOne(s.cells[i])
    /\ bit = IF s.coder.code <= Split(s.coder, one) THEN 0 ELSE 1
    /\ DecoderBit(s, history, predicted, n)
       = [coder |-> DecoderSettled(Narrowed(s.coder, one, bit)),
          cells |-> [s.cells EXCEPT ![i] = CellUpdated(@, bit)],
          residual |-> 2 * s.residual + bit]

\* What a bit of the encoder, respectively the decoder, is made of.
LEMMA EncoderBitParts ==
    ASSUME seed \in Seeds, NEW history \in Seq(Bytes), NEW predicted \in Bytes,
           NEW residual \in Bytes, NEW s \in EncoderSides, NEW n \in 1 .. ByteBits
    PROVE  \E bit \in {0, 1}, i \in 0 .. Floor - 1, one \in 1 .. Scale - 1 :
              EncoderBitIs(s, history, predicted, residual, n, bit, i, one)
<1>1. PICK bit \in {0, 1} : bit = Bit(residual, ByteBits - n)
  <2>1. residual \in Nat /\ ByteBits - n \in Nat
    BY RegisterFacts
  <2> QED
    BY <2>1, BitIsBit
<1>2. PICK prefix \in Bytes : prefix = residual \div 2 ^ (ByteBits + 1 - n)
  <2>1. ByteBits + 1 - n \in Nat
    BY RegisterFacts
  <2> QED
    BY <2>1, PrefixIsByte
<1>3. PICK i \in 0 .. Floor - 1 : i = Index(history, predicted, prefix, n)
  BY <1>2, IndexIsCell
<1>4. s.cells \in Models
  BY DEF EncoderSides
<1>5. PICK one \in 1 .. Scale - 1 : one = ProbabilityOne(s.cells[i])
  BY <1>3, <1>4, ModelStays
<1>6. EncoderBit(s, history, predicted, residual, n)
      = [coder |-> EncoderSettled(Narrowed(s.coder, one, bit)),
         cells |-> [s.cells EXCEPT ![i] = CellUpdated(@, bit)]]
  BY <1>1, <1>2, <1>3, <1>5, Zenon DEF EncoderBit
<1> QED
  BY <1>1, <1>2, <1>3, <1>5, <1>6 DEF EncoderBitIs

LEMMA EncoderBitStays ==
    ASSUME seed \in Seeds, NEW history \in Seq(Bytes), NEW predicted \in Bytes,
           NEW residual \in Bytes, NEW s \in EncoderSides, NEW n \in 1 .. ByteBits
    PROVE  EncoderBit(s, history, predicted, residual, n) \in EncoderSides
<1>0. PICK bit \in {0, 1}, i \in 0 .. Floor - 1, one \in 1 .. Scale - 1 :
         EncoderBitIs(s, history, predicted, residual, n, bit, i, one)
  BY EncoderBitParts
<1>1. EncoderBit(s, history, predicted, residual, n)
      = [coder |-> EncoderSettled(Narrowed(s.coder, one, bit)),
         cells |-> [s.cells EXCEPT ![i] = CellUpdated(@, bit)]]
  BY <1>0 DEF EncoderBitIs
<1>2. s.coder \in Encoders /\ s.cells \in Models /\ Settled(s.coder)
  BY DEF EncoderSides
<1>3. PICK coder \in Encoders : coder = EncoderSettled(Narrowed(s.coder, one, bit)) /\ Settled(coder)
  BY <1>2, NarrowedEncoder, EncoderSettles
<1>4. PICK cells \in Models : cells = [s.cells EXCEPT ![i] = CellUpdated(@, bit)]
  BY <1>2, ModelStays
<1>5. [coder |-> coder, cells |-> cells] \in EncoderSides
  BY <1>3, <1>4 DEF EncoderSides
<1> QED
  BY <1>1, <1>3, <1>4, <1>5

LEMMA DecoderBitParts ==
    ASSUME seed \in Seeds, NEW history \in Seq(Bytes), NEW predicted \in Bytes,
           NEW s \in DecoderSides, NEW n \in 1 .. ByteBits
    PROVE  \E bit \in {0, 1}, i \in 0 .. Floor - 1, one \in 1 .. Scale - 1 :
              DecoderBitIs(s, history, predicted, n, bit, i, one)
<1>1. s.cells \in Models /\ s.residual \in Bytes
  BY DEF DecoderSides
<1>2. PICK i \in 0 .. Floor - 1 : i = Index(history, predicted, s.residual, n)
  BY <1>1, IndexIsCell
<1>3. PICK one \in 1 .. Scale - 1 : one = ProbabilityOne(s.cells[i])
  BY <1>1, <1>2, ModelStays
<1>4. PICK bit \in {0, 1} : bit = IF s.coder.code <= Split(s.coder, one) THEN 0 ELSE 1
  OBVIOUS
<1>5. DecoderBit(s, history, predicted, n)
      = [coder |-> DecoderSettled(Narrowed(s.coder, one, bit)),
         cells |-> [s.cells EXCEPT ![i] = CellUpdated(@, bit)],
         residual |-> 2 * s.residual + bit]
  BY <1>2, <1>3, <1>4, Zenon DEF DecoderBit
<1> QED
  BY <1>2, <1>3, <1>4, <1>5 DEF DecoderBitIs

LEMMA DecoderBitStays ==
    ASSUME payload \in Seq({0, 1}), seed \in Seeds, NEW history \in Seq(Bytes),
           NEW predicted \in Bytes, NEW s \in DecoderSides, NEW n \in 1 .. ByteBits,
           s.residual < 2 ^ (n - 1)
    PROVE  /\ DecoderBit(s, history, predicted, n) \in DecoderSides
           /\ DecoderBit(s, history, predicted, n).residual < 2 ^ n
<1>0. PICK bit \in {0, 1}, i \in 0 .. Floor - 1, one \in 1 .. Scale - 1 :
         DecoderBitIs(s, history, predicted, n, bit, i, one)
  BY DecoderBitParts
<1>1. /\ bit = IF s.coder.code <= Split(s.coder, one) THEN 0 ELSE 1
      /\ DecoderBit(s, history, predicted, n)
         = [coder |-> DecoderSettled(Narrowed(s.coder, one, bit)),
            cells |-> [s.cells EXCEPT ![i] = CellUpdated(@, bit)],
            residual |-> 2 * s.residual + bit]
  BY <1>0 DEF DecoderBitIs
<1>2. /\ s.coder \in Decoders /\ s.cells \in Models /\ Settled(s.coder)
      /\ s.residual \in Bytes /\ s.residual \in Nat
  BY RegisterFacts DEF DecoderSides
<1>3. PICK narrowed \in Decoders : narrowed = Narrowed(s.coder, one, bit)
  BY <1>1, <1>2, NarrowedDecoder
<1>4. PICK coder \in Decoders : coder = DecoderSettled(narrowed) /\ Settled(coder)
  BY DecoderSettles
<1>5. PICK cells \in Models : cells = [s.cells EXCEPT ![i] = CellUpdated(@, bit)]
  BY <1>2, ModelStays
<1>6. PICK r \in Bytes : r = 2 * s.residual + bit /\ r < 2 ^ n
  BY <1>2, ResidualGrows
<1>7. DecoderBit(s, history, predicted, n) = [coder |-> coder, cells |-> cells, residual |-> r]
  BY <1>1, <1>3, <1>4, <1>5, <1>6
<1>8. [coder |-> coder, cells |-> cells, residual |-> r] \in DecoderSides
  BY <1>4, <1>5 DEF DecoderSides
<1> QED
  BY <1>6, <1>7, <1>8

EncodedRuns(t, history, predicted, residual) ==
    {g \in [0 .. ByteBits -> EncoderSides] :
        /\ g[0] = t /\ g[ByteBits] = EncodedBits(t, history, predicted, residual)
        /\ \A k \in 1 .. ByteBits : g[k] = EncoderBit(g[k - 1], history, predicted, residual, k)}

\* After n bits the residual has n bits.
DecodedRuns(t, history, predicted) ==
    {g \in [0 .. ByteBits -> DecoderSides] :
        /\ g[0] = t /\ g[ByteBits] = DecodedBits(t, history, predicted)
        /\ \A k \in 0 .. ByteBits : g[k].residual < 2 ^ k
        /\ \A k \in 1 .. ByteBits : g[k] = DecoderBit(g[k - 1], history, predicted, k)}

LEMMA EncodedRun ==
    ASSUME seed \in Seeds, NEW history \in Seq(Bytes), NEW predicted \in Bytes,
           NEW residual \in Bytes, NEW t \in EncoderSides
    PROVE  EncodedRuns(t, history, predicted, residual) # {}
<1> DEFINE R == ByteBits
           Turn(s, n) == EncoderBit(s, history, predicted, residual, n)
           F == [x \in (1 .. R) \X EncoderSides |-> Turn(x[2], x[1])]
           Body(f) == [n \in 0 .. R |-> IF n = 0 THEN t ELSE Turn(f[n - 1], n)]
           After == CHOOSE f : f = Body(f)
<1>1. R \in Nat \ {0}
  BY RegisterFacts
<1>2. ASSUME NEW s \in EncoderSides, NEW n \in 1 .. R PROVE Turn(s, n) \in EncoderSides
  BY EncoderBitStays
<1>3. EncodedBits(t, history, predicted, residual) = After[R]
  BY DEF EncodedBits, EncoderBit
<1>4. ASSUME NEW g \in [0 .. R -> EncoderSides], g[0] = t,
             g[R] = EncodedBits(t, history, predicted, residual),
             \A k \in 1 .. R : g[k] = Turn(g[k - 1], k)
      PROVE  g \in EncodedRuns(t, history, predicted, residual)
  BY <1>4 DEF EncodedRuns
<1> HIDE DEF Turn, R
<1>5. F \in [(1 .. R) \X EncoderSides -> EncoderSides]
  BY <1>2
<1>6. \A k \in 1 .. R : \A s \in EncoderSides : F[<<k, s>>] = Turn(s, k)
  OBVIOUS
<1> HIDE DEF F
<1>7. Runs(EncoderSides, t, F, R) # {}
  BY <1>1, <1>5, LoopRuns
<1>8. PICK g \in Runs(EncoderSides, t, F, R) : TRUE
  BY <1>7
<1>9. g \in [0 .. R -> EncoderSides] /\ g[0] = t /\ \A k \in 1 .. R : g[k] = F[<<k, g[k - 1]>>]
  BY <1>8 DEF Runs
<1>10. ASSUME NEW k \in 1 .. R PROVE g[k] = Turn(g[k - 1], k)
  <2>1. k - 1 \in 0 .. R
    BY <1>1
  <2> QED
    BY <1>6, <1>9, <2>1
<1>11. g = Body(g)
  <2>1. \A k \in 0 .. R : g[k] = IF k = 0 THEN t ELSE Turn(g[k - 1], k)
    BY <1>9, <1>10
  <2> QED
    BY <1>9, <2>1
<1>12. After = Body(After)
  BY <1>11
<1> HIDE DEF After
<1>13. After[0] = t /\ \A k \in 1 .. R : After[k] = Turn(After[k - 1], k)
  <2>1. \A k \in 0 .. R : Body(After)[k] = IF k = 0 THEN t ELSE Turn(After[k - 1], k)
    OBVIOUS
  <2>2. 0 \in 0 .. R /\ \A k \in 1 .. R : k \in 0 .. R /\ k # 0
    BY <1>1
  <2> HIDE DEF Body
  <2> QED
    BY <1>12, <2>1, <2>2
<1> DEFINE Same == {k \in 0 .. R : After[k] = g[k]}
<1>s. \A k \in 0 .. R : k \in Same => After[k] = g[k]
  OBVIOUS
<1>u. 0 \in Same
  BY <1>1, <1>9, <1>13
<1>v. ASSUME NEW k \in 1 .. R, k - 1 \in Same PROVE k \in Same
  <2>1. k \in 0 .. R /\ After[k - 1] = g[k - 1]
    BY <1>v, <1>1
  <2> QED
    BY <1>10, <1>13, <2>1
<1> HIDE DEF Same
<1>14. \A k \in 0 .. R : After[k] = g[k]
  <2>1. 0 .. R \subseteq Same
    BY <1>1, <1>u, <1>v, EveryTurn
  <2> QED
    BY <1>s, <2>1
<1>15. g[R] = EncodedBits(t, history, predicted, residual)
  <2>1. R \in 0 .. R
    BY <1>1
  <2> QED
    BY <1>3, <1>14, <2>1
<1>16. g \in EncodedRuns(t, history, predicted, residual)
  BY <1>4, <1>9, <1>10, <1>15
<1> QED
  BY <1>16

LEMMA DecodedRun ==
    ASSUME payload \in Seq({0, 1}), seed \in Seeds, NEW history \in Seq(Bytes),
           NEW predicted \in Bytes, NEW t \in DecoderSides, t.residual = 0
    PROVE  DecodedRuns(t, history, predicted) # {}
<1> DEFINE R == ByteBits
           Turn(s, n) == DecoderBit(s, history, predicted, n)
           F == [x \in (1 .. R) \X DecoderSides |->
                    IF x[2].residual < 2 ^ (x[1] - 1) THEN Turn(x[2], x[1]) ELSE x[2]]
           Body(f) == [n \in 0 .. R |-> IF n = 0 THEN t ELSE Turn(f[n - 1], n)]
           After == CHOOSE f : f = Body(f)
<1>1. R \in Nat \ {0}
  BY RegisterFacts
<1>2. ASSUME NEW s \in DecoderSides, NEW n \in 1 .. R, s.residual < 2 ^ (n - 1)
      PROVE  Turn(s, n) \in DecoderSides /\ Turn(s, n).residual < 2 ^ n
  BY <1>2, DecoderBitStays
<1>3. DecodedBits(t, history, predicted) = After[R]
  BY DEF DecodedBits, DecoderBit
<1>4. ASSUME NEW g \in [0 .. R -> DecoderSides], g[0] = t,
             g[R] = DecodedBits(t, history, predicted),
             \A k \in 0 .. R : g[k].residual < 2 ^ k,
             \A k \in 1 .. R : g[k] = Turn(g[k - 1], k)
      PROVE  g \in DecodedRuns(t, history, predicted)
  BY <1>4 DEF DecodedRuns
<1> HIDE DEF Turn, R
<1>5. F \in [(1 .. R) \X DecoderSides -> DecoderSides]
  BY <1>2
<1>6. \A k \in 1 .. R : \A s \in DecoderSides :
         s.residual < 2 ^ (k - 1) => F[<<k, s>>] = Turn(s, k)
  OBVIOUS
<1> HIDE DEF F
<1>7. Runs(DecoderSides, t, F, R) # {}
  BY <1>1, <1>5, LoopRuns
<1>8. PICK g \in Runs(DecoderSides, t, F, R) : TRUE
  BY <1>7
<1>9. g \in [0 .. R -> DecoderSides] /\ g[0] = t /\ \A k \in 1 .. R : g[k] = F[<<k, g[k - 1]>>]
  BY <1>8 DEF Runs
<1> DEFINE G == {k \in 0 .. R : g[k].residual < 2 ^ k}
<1>a. ASSUME NEW k \in 1 .. R, k - 1 \in G PROVE k \in G /\ g[k] = Turn(g[k - 1], k)
  <2>1. k - 1 \in 0 .. R /\ k \in 0 .. R
    BY <1>1
  <2>2. PICK s \in DecoderSides : s = g[k - 1] /\ s.residual < 2 ^ (k - 1)
    BY <1>9, <1>a, <2>1
  <2>3. g[k] = Turn(s, k)
    BY <1>6, <1>9, <2>2
  <2> QED
    BY <1>2, <2>1, <2>2, <2>3
<1>b. 0 \in G
  <2>1. g[0].residual = 0 /\ 2 ^ 0 = 1 /\ 0 \in 0 .. R
    BY <1>1, <1>9, PowersOfTwo
  <2> QED
    BY <2>1
<1>d. \A k \in 0 .. R : k \in G => g[k].residual < 2 ^ k
  OBVIOUS
<1> HIDE DEF G
<1>c. 0 .. R \subseteq G
  BY <1>1, <1>a, <1>b, EveryTurn
<1>10. ASSUME NEW k \in 1 .. R PROVE g[k] = Turn(g[k - 1], k)
  <2>1. k - 1 \in 0 .. R
    BY <1>1
  <2> QED
    BY <1>a, <1>c, <2>1
<1>11. g = Body(g)
  <2>1. \A k \in 0 .. R : g[k] = IF k = 0 THEN t ELSE Turn(g[k - 1], k)
    BY <1>9, <1>10
  <2> QED
    BY <1>9, <2>1
<1>12. After = Body(After)
  BY <1>11
<1> HIDE DEF After
<1>13. After[0] = t /\ \A k \in 1 .. R : After[k] = Turn(After[k - 1], k)
  <2>1. \A k \in 0 .. R : Body(After)[k] = IF k = 0 THEN t ELSE Turn(After[k - 1], k)
    OBVIOUS
  <2>2. 0 \in 0 .. R /\ \A k \in 1 .. R : k \in 0 .. R /\ k # 0
    BY <1>1
  <2> HIDE DEF Body
  <2> QED
    BY <1>12, <2>1, <2>2
<1> DEFINE Same == {k \in 0 .. R : After[k] = g[k]}
<1>s. \A k \in 0 .. R : k \in Same => After[k] = g[k]
  OBVIOUS
<1>u. 0 \in Same
  BY <1>1, <1>9, <1>13
<1>v. ASSUME NEW k \in 1 .. R, k - 1 \in Same PROVE k \in Same
  <2>1. k \in 0 .. R /\ After[k - 1] = g[k - 1]
    BY <1>v, <1>1
  <2> QED
    BY <1>10, <1>13, <2>1
<1> HIDE DEF Same
<1>14. \A k \in 0 .. R : After[k] = g[k]
  <2>1. 0 .. R \subseteq Same
    BY <1>1, <1>u, <1>v, EveryTurn
  <2> QED
    BY <1>s, <2>1
<1>15. g[R] = DecodedBits(t, history, predicted)
  <2>1. R \in 0 .. R
    BY <1>1
  <2> QED
    BY <1>3, <1>14, <2>1
<1>16. g \in DecodedRuns(t, history, predicted)
  BY <1>4, <1>9, <1>10, <1>15, <1>c, <1>d
<1> QED
  BY <1>16

LEMMA EncodedBitsSettled ==
    ASSUME seed \in Seeds, NEW history \in Seq(Bytes), NEW predicted \in Bytes,
           NEW residual \in Bytes, NEW t \in EncoderSides
    PROVE  EncodedBits(t, history, predicted, residual) \in EncoderSides
<1>1. PICK g \in EncodedRuns(t, history, predicted, residual) : TRUE
  BY EncodedRun
<1> QED
  BY <1>1, RegisterFacts DEF EncodedRuns

LEMMA DecodedBitsSettled ==
    ASSUME payload \in Seq({0, 1}), seed \in Seeds, NEW history \in Seq(Bytes),
           NEW predicted \in Bytes, NEW t \in DecoderSides, t.residual = 0
    PROVE  DecodedBits(t, history, predicted) \in DecoderSides
<1>1. PICK g \in DecodedRuns(t, history, predicted) : TRUE
  BY DecodedRun
<1> QED
  BY <1>1, RegisterFacts DEF DecodedRuns

-----------------------------------------------------------------------------
(* The coder's range, of every lane and of the decoder.                    *)

EncoderStates ==
    {s \in [coder : Encoders, cells : Models, history : Seq(Bytes)] : Settled(s.coder)}

DecoderStates ==
    {s \in [coder : Decoders, cells : Models, history : Seq(Bytes)] : Settled(s.coder)}

LEMMA FreshEncoder ==
    /\ Fresh(NewEncoder) \in EncoderStates
    /\ \A s \in EncoderStates : Fresh(s.coder) \in EncoderStates
<1>1. NewEncoder \in Encoders
  BY RegisterFacts DEF NewEncoder, Encoders
<1>2. Settled(NewEncoder)
  <2>1. NewEncoder.low \in 0 .. Top /\ NewEncoder.high \in 0 .. Top /\ Size(NewEncoder) >= Top + 1
    BY RegisterFacts DEF NewEncoder, Size
  <2> QED
    BY <2>1, WholeIsSettled
<1>3. ASSUME NEW c \in Encoders, Settled(c) PROVE Fresh(c) \in EncoderStates
  <2>1. <<>> \in Seq(Bytes)
    OBVIOUS
  <2> QED
    BY <1>3, <2>1, NewModel DEF Fresh, EncoderStates
<1>4. ASSUME NEW s \in EncoderStates PROVE s.coder \in Encoders /\ Settled(s.coder)
  BY DEF EncoderStates
<1> QED
  BY <1>1, <1>2, <1>3, <1>4

LEMMA FreshDecoder ==
    /\ \A bits : Fresh(NewDecoder(bits)) \in DecoderStates
    /\ \A s \in DecoderStates : Fresh(s.coder) \in DecoderStates
<1>1. ASSUME NEW bits PROVE NewDecoder(bits) \in Decoders /\ Settled(NewDecoder(bits))
  <2> DEFINE ones == {k \in 0 .. RegisterBits - 1 :
                          RegisterBits - k <= Len(bits) /\ bits[RegisterBits - k] = 1}
  <2>1. ones \in SUBSET (0 .. RegisterBits - 1)
    OBVIOUS
  <2> HIDE DEF ones
  <2>2. PICK code \in 0 .. Top : code = NumberOf(RegisterBits, ones)
    BY <2>1, NumberFits, RegisterFacts
  <2>3. PICK c : c = [low |-> 0, high |-> Top, position |-> RegisterBits + 1, code |-> code]
    OBVIOUS
  <2>4. NewDecoder(bits) = c
    BY <2>2, <2>3 DEF NewDecoder, ones
  <2>5. c \in Decoders
    BY <2>2, <2>3, RegisterFacts DEF Decoders
  <2>6. c.low \in 0 .. Top /\ c.high \in 0 .. Top /\ Size(c) >= Top + 1
    BY <2>3, RegisterFacts DEF Size
  <2> QED
    BY <2>4, <2>5, <2>6, WholeIsSettled
<1>2. ASSUME NEW c \in Decoders, Settled(c) PROVE Fresh(c) \in DecoderStates
  <2>1. <<>> \in Seq(Bytes)
    OBVIOUS
  <2> QED
    BY <1>2, <2>1, NewModel DEF Fresh, DecoderStates
<1>3. ASSUME NEW s \in DecoderStates PROVE s.coder \in Decoders /\ Settled(s.coder)
  BY DEF DecoderStates
<1> QED
  BY <1>1, <1>2, <1>3

LEMMA FinishedIsBits ==
    ASSUME NEW c \in Encoders
    PROVE  Finished(c) \in Seq({0, 1})
<1>1. /\ c = [low |-> c.low, high |-> c.high, pending |-> c.pending, bits |-> c.bits]
      /\ c.pending \in Nat /\ c.bits \in Seq({0, 1})
  BY DEF Encoders
<1>2. PICK bit \in {0, 1} : bit = IF c.low < Quarter THEN 0 ELSE 1
  OBVIOUS
<1>3. PICK tail \in Seq({0, 1}) : tail = [i \in 1 .. c.pending + 1 |-> 1 - bit]
  <2>1. 1 - bit \in {0, 1}
    BY <1>2
  <2>2. PICK n \in Nat : n = c.pending + 1
    BY <1>1
  <2>3. [i \in 1 .. n |-> 1 - bit] \in Seq({0, 1})
    BY <2>1, <2>2
  <2> QED
    BY <2>2, <2>3
<1>4. ASSUME NEW T, NEW p \in Seq(T), NEW q \in Seq(T), NEW e \in T
      PROVE  Append(p, e) \o q \in Seq(T) /\ p \o q \in Seq(T)
  OBVIOUS
<1>5. PICK bits \in Seq({0, 1}) : bits = Append(c.bits, bit) \o tail
  BY <1>1, <1>2, <1>3, <1>4
<1>6. bits = Emit([c EXCEPT !.pending = @ + 1], bit).bits
  <2>1. PICK d : d = [c EXCEPT !.pending = c.pending + 1]
    OBVIOUS
  <2>2. d = [low |-> c.low, high |-> c.high, pending |-> c.pending + 1, bits |-> c.bits]
    BY <1>1, <2>1
  <2>3. Emit(d, bit) = [[d EXCEPT !.bits = bits] EXCEPT !.pending = 0]
    BY <1>3, <1>5, <2>2 DEF Emit
  <2>4. Emit(d, bit).bits = bits
    BY <2>2, <2>3
  <2> QED
    BY <2>1, <2>4
<1>7. PICK zeros \in Seq({0, 1}) : zeros = [i \in 1 .. (-Len(bits)) % ByteBits |-> 0]
  <2>1. PICK n \in Nat : n = (-Len(bits)) % ByteBits
    BY RegisterFacts
  <2>2. [i \in 1 .. n |-> 0] \in Seq({0, 1})
    BY <2>1
  <2> QED
    BY <2>1, <2>2
<1>8. Finished(c) = bits \o zeros
  BY <1>2, <1>6, <1>7 DEF Finished
<1> QED
  BY <1>4, <1>8

LEMMA ByteEncodedStays ==
    ASSUME seed \in Seeds, NEW l, NEW s0 \in EncoderStates, NEW byte \in Bytes, NEW count
    PROVE  ByteEncoded(l, s0, byte, count) \in EncoderStates
<1>1. PICK s \in EncoderStates : s = Reset(l, s0, count)
  BY FreshEncoder DEF Reset
<1>2. PICK t \in EncoderSides : t = [coder |-> s.coder, cells |-> s.cells]
  BY DEF EncoderStates, EncoderSides
<1>3. s.history \in Seq(Bytes)
  BY DEF EncoderStates
<1>4. PICK predicted \in Bytes : predicted = Predict(s.history, DirectionPlan(l))
  BY ByteFacts
<1>5. PICK residual \in Bytes : residual = Xor(byte, predicted)
  BY ByteFacts
<1>6. PICK coded \in EncoderSides : coded = EncodedBits(t, s.history, predicted, residual)
  BY <1>3, EncodedBitsSettled
<1>7. PICK history \in Seq(Bytes) : history = Append(s.history, byte)
  <2>1. \A T : \A p \in Seq(T), e \in T : Append(p, e) \in Seq(T)
    OBVIOUS
  <2> QED
    BY <1>3, <2>1
<1>8. ByteEncoded(l, s0, byte, count)
      = [coder |-> coded.coder, cells |-> coded.cells, history |-> history]
  BY <1>1, <1>2, <1>4, <1>5, <1>6, <1>7, Zenon DEF ByteEncoded
<1> QED
  BY <1>8 DEF EncoderStates, EncoderSides

LEMMA ByteDecodedStays ==
    ASSUME seed \in Seeds, payload \in Seq({0, 1}), NEW l, NEW s0 \in DecoderStates, NEW count
    PROVE  ByteDecoded(l, s0, count) \in DecoderStates
<1>1. PICK s \in DecoderStates : s = Reset(l, s0, count)
  BY FreshDecoder DEF Reset
<1>2. PICK t \in DecoderSides : /\ t = [coder |-> s.coder, cells |-> s.cells, residual |-> 0]
                                /\ t.residual = 0
  <2>1. 0 \in Bytes
    BY RegisterFacts
  <2>2. s.coder \in Decoders /\ s.cells \in Models /\ Settled(s.coder)
    BY DEF DecoderStates
  <2>3. PICK x : x = [coder |-> s.coder, cells |-> s.cells, residual |-> 0]
    OBVIOUS
  <2>4. x \in [coder : Decoders, cells : Models, residual : Bytes] /\ x.coder = s.coder
    BY <2>1, <2>2, <2>3
  <2> QED
    BY <2>2, <2>3, <2>4 DEF DecoderSides
<1>3. s.history \in Seq(Bytes)
  BY DEF DecoderStates
<1>4. PICK predicted \in Bytes : predicted = Predict(s.history, DirectionPlan(l))
  BY ByteFacts
<1>5. PICK coded \in DecoderSides : coded = DecodedBits(t, s.history, predicted)
  BY <1>2, <1>3, DecodedBitsSettled
<1>6. PICK byte \in Bytes : byte = Xor(coded.residual, predicted)
  BY ByteFacts
<1>7. PICK history \in Seq(Bytes) : history = Append(s.history, byte)
  <2>1. \A T : \A p \in Seq(T), e \in T : Append(p, e) \in Seq(T)
    OBVIOUS
  <2> QED
    BY <1>3, <2>1
<1>8. ByteDecoded(l, s0, count)
      = [coder |-> coded.coder, cells |-> coded.cells, history |-> history]
  BY <1>1, <1>2, <1>4, <1>5, <1>6, <1>7, Zenon DEF ByteDecoded
<1> QED
  BY <1>8 DEF DecoderStates, DecoderSides

RangeInv ==
    /\ seed \in Seeds
    /\ enc \in [Lanes -> EncoderStates]
    /\ payload \in Seq({0, 1})
    /\ dec \in DecoderStates

LEMMA RangeInit == Init => RangeInv
<1> SUFFICES ASSUME Init PROVE RangeInv
  OBVIOUS
<1>1. <<>> \in Seq({0, 1})
  OBVIOUS
<1> QED
  BY <1>1, FreshEncoder, FreshDecoder DEF Init, RangeInv

LEMMA StartInRange ==
    ASSUME RangeInv, NEW l, NEW bits \in Seq({0, 1}), NEW n, Start(l, bits, n)
    PROVE  RangeInv'
BY FreshDecoder DEF Start, RangeInv, header

LEMMA RangeNext == RangeInv /\ [Next]_vars => RangeInv'
<1> SUFFICES ASSUME RangeInv, [Next]_vars PROVE RangeInv'
  OBVIOUS
<1>1. ASSUME NEW byte \in Bytes, EncodeByte(byte) PROVE RangeInv'
  <2>1. /\ UNCHANGED <<seed, payload, dec>>
        /\ enc' = [l \in Lanes |-> ByteEncoded(l, enc[l], byte, Len(source))]
    BY <1>1 DEF EncodeByte, header
  <2>2. ASSUME NEW l \in Lanes PROVE ByteEncoded(l, enc[l], byte, Len(source)) \in EncoderStates
    BY ByteEncodedStays DEF RangeInv
  <2>3. enc' \in [Lanes -> EncoderStates]
    BY <2>1, <2>2
  <2> QED
    BY <2>1, <2>3 DEF RangeInv
<1>2. CASE Deliver
  <2>1. PICK l \in Lanes : Start(l, Payload(l), Len(source))
    BY <1>2 DEF Deliver
  <2>2. enc[l].coder \in Encoders
    BY DEF RangeInv, EncoderStates
  <2>3. Payload(l) \in Seq({0, 1})
    <3>1. <<>> \in Seq({0, 1})
      OBVIOUS
    <3> QED
      BY <2>2, <3>1, FinishedIsBits DEF Payload
  <2> QED
    BY <2>1, <2>3, StartInRange
<1>3. CASE DeliverForeign
  <2>1. PICK l \in Lanes, bits \in Foreign, n \in 0 .. MaxBytes : Start(l, bits, n)
    BY <1>3 DEF DeliverForeign
  <2>2. bits \in Seq({0, 1})
    BY <2>1, FloorAssumption
  <2> QED
    BY <2>1, <2>2, StartInRange
<1>4. CASE DecodeByte
  <2>1. /\ UNCHANGED <<seed, payload, enc>>
        /\ dec' = ByteDecoded(lane, dec, Len(output))
    BY <1>4 DEF DecodeByte, header
  <2>2. ByteDecoded(lane, dec, Len(output)) \in DecoderStates
    BY ByteDecodedStays DEF RangeInv
  <2> QED
    BY <2>1, <2>2 DEF RangeInv
<1>5. CASE DecodeEnd \/ UNCHANGED vars
  BY <1>5 DEF DecodeEnd, RangeInv, vars, header
<1> QED
  BY <1>1, <1>2, <1>3, <1>4, <1>5 DEF Next, Encode

LEMMA RangeImplies == RangeInv => CoderStaysInRange
<1> SUFFICES ASSUME RangeInv PROVE CoderStaysInRange
  OBVIOUS
<1>1. ASSUME NEW l \in Lanes PROVE enc[l].coder.high - enc[l].coder.low >= Quarter
  <2>1. PICK c \in Encoders : c = enc[l].coder /\ Settled(c)
    BY DEF RangeInv, EncoderStates
  <2>2. c.low \in 0 .. Top /\ c.high \in 0 .. Top
    BY DEF Encoders
  <2> QED
    BY <2>1, <2>2, SettledIsWide
<1>2. PICK c \in Decoders : c = dec.coder /\ Settled(c)
  BY DEF RangeInv, DecoderStates
<1>3. /\ c.low \in 0 .. Top /\ c.high \in 0 .. Top /\ c.code \in 0 .. Top
      /\ c.low <= c.code /\ c.code <= c.high
  BY DEF Decoders
<1>4. c.high <= Top /\ c.high - c.low >= Quarter
  BY <1>2, <1>3, SettledIsWide, RegisterFacts
<1> QED
  BY <1>1, <1>2, <1>3, <1>4 DEF CoderStaysInRange

\* Whatever the payload, the decoder's window stays inside its interval and on
\* both sides the interval is wider than a quarter between two bits: for every
\* width of byte and register, number of cells, lane, seed and hash.
THEOREM CoderInRange == CodecSpec => []CoderStaysInRange
<1>1. CodecInit => RangeInv
  BY PayloadInit, RangeInit
<1>2. RangeInv /\ [CodecNext]_<<vars, nestedVars>> => RangeInv'
  BY PayloadNext, RangeNext
<1> QED
  BY <1>1, <1>2, RangeImplies, PTL DEF CodecSpec
-----------------------------------------------------------------------------
(* What a stream of bits spells.                                           *)

\* The number the first m bits of a stream spell, the first of them its highest.
OnesBefore(b, m) == {k \in 0 .. m - 1 : b[m - k] = 1}

Spelled(b) == [m \in Nat |-> NumberOf(m, OnesBefore(b, m))]

Up(s) == {k + 1 : k \in s}

\* Moving all places up by one doubles a number.
LEMMA NumberDoubles ==
    ASSUME NEW m \in Nat, NEW low \in SUBSET (0 .. m - 1), NEW high \in SUBSET (0 .. m),
           high \ {0} = Up(low)
    PROVE  NumberOf(m + 1, high) = 2 * NumberOf(m, low) + (IF 0 \in high THEN 1 ELSE 0)
<1>0. PICK f, g : f = [k \in 0 .. m - 1 |-> 2 ^ k] /\ g = [k \in 0 .. (m + 1) - 1 |-> 2 ^ k]
  OBVIOUS
<1> DEFINE F == SubsetSums(f, low)
           G == SubsetSums(g, high)
           P == {n \in Nat : \A s \in SUBSET low : s \subseteq 0 .. n - 1 => G[Up(s)] = 2 * F[s]}
<1>1. IsFiniteSet(low) /\ IsFiniteSet(high)
  <2>1. 0 \in Int /\ m - 1 \in Int /\ m \in Int
    OBVIOUS
  <2> QED
    BY <2>1, FS_Interval, FS_Subset
<1>2. \A x \in low : f[x] = 2 ^ x /\ x \in Nat /\ f[x] \in Int
  BY <1>0, PowersOfTwo
<1>3. \A x \in high : g[x] = 2 ^ x /\ x \in Nat /\ g[x] \in Int
  BY <1>0, PowersOfTwo
<1>4. NumberOf(m, low) = F[low] /\ NumberOf(m + 1, high) = G[high]
  BY <1>0, SumIsSums DEF NumberOf
<1>5. /\ F[{}] = 0
      /\ \A s \in SUBSET low : F[s] \in Int /\ \A x \in s : F[s] = f[x] + F[s \ {x}]
  <2>1. \A x \in low : f[x] \in Int
    BY <1>2
  <2>2. AddsUp(F, f, low)
    BY <1>1, <2>1, SumInAnyOrder
  <2> QED
    BY <2>2 DEF AddsUp
<1>6. /\ G[{}] = 0
      /\ \A s \in SUBSET high : G[s] \in Int /\ \A x \in s : G[s] = g[x] + G[s \ {x}]
  <2>1. \A x \in high : g[x] \in Int
    BY <1>3
  <2>2. AddsUp(G, g, high)
    BY <1>1, <2>1, SumInAnyOrder
  <2> QED
    BY <2>2 DEF AddsUp
<1> HIDE DEF F, G
<1>7. 0 \in P
  <2>1. ASSUME NEW s \in SUBSET low, s \subseteq 0 .. 0 - 1 PROVE G[Up(s)] = 2 * F[s]
    <3>1. s = {}
      BY <2>1
    <3>2. Up(s) = {}
      BY <3>1 DEF Up
    <3> QED
      <4>1. F[s] = 0 /\ G[Up(s)] = 0
        BY <1>5, <1>6, <3>1, <3>2, Zenon
      <4> QED
        BY <4>1
  <2> QED
    BY <2>1
<1>8. ASSUME NEW n \in Nat, n \in P PROVE n + 1 \in P
  <2> SUFFICES ASSUME NEW s \in SUBSET low, s \subseteq 0 .. (n + 1) - 1
               PROVE  G[Up(s)] = 2 * F[s]
    OBVIOUS
  <2>1. CASE n \in s
    <3>1. s \ {n} \subseteq 0 .. n - 1 /\ s \ {n} \in SUBSET low
      OBVIOUS
    <3>2. G[Up(s \ {n})] = 2 * F[s \ {n}]
      BY <1>8, <3>1
    <3>3. Up(s) \in SUBSET high /\ n + 1 \in Up(s)
      <4>1. Up(s) \subseteq Up(low) /\ n + 1 \in Up(s)
        BY <2>1 DEF Up
      <4> QED
        BY <4>1
    <3>4. Up(s) \ {n + 1} = Up(s \ {n})
      <4>1. \A k \in s : k \in Nat /\ (k + 1 = n + 1 <=> k = n)
        BY <1>2
      <4> QED
        BY <4>1 DEF Up
    <3>5. PICK a \in Nat : a = 2 ^ n /\ 2 ^ (n + 1) = 2 * a
      BY PowersOfTwo
    <3>6. F[s] = a + F[s \ {n}] /\ F[s \ {n}] \in Int
      BY <1>2, <1>5, <2>1, <3>1, <3>5
    <3>7. G[Up(s)] = g[n + 1] + G[Up(s) \ {n + 1}]
      BY <1>6, <3>3
    <3>8. g[n + 1] = 2 * a
      BY <1>3, <3>3, <3>5
    <3> QED
      <4>1. PICK e \in Int : e = F[s \ {n}]
        BY <3>6
      <4>2. G[Up(s)] = 2 * a + 2 * e
        BY <3>2, <3>4, <3>7, <3>8, <4>1
      <4>3. F[s] = a + e
        BY <3>6, <4>1
      <4>4. 2 * a + 2 * e = 2 * (a + e)
        OBVIOUS
      <4> QED
        BY <4>2, <4>3, <4>4
  <2>2. CASE n \notin s
    <3>1. s \subseteq 0 .. n - 1
      BY <2>2
    <3> QED
      BY <1>8, <3>1
  <2> QED
    BY <2>1, <2>2
<1> HIDE DEF P
<1>9. m \in P
  BY <1>7, <1>8, EveryNumber
<1>10. G[Up(low)] = 2 * F[low]
  BY <1>9 DEF P
<1>11. CASE 0 \in high
  <2>2. G[high] = g[0] + G[high \ {0}]
    BY <1>6, <1>11
  <2>3. g[0] = 1
    BY <1>3, <1>11, PowersOfTwo
  <2>4. F[low] \in Int
    BY <1>5
  <2> QED
    BY <1>4, <1>10, <1>11, <2>2, <2>3, <2>4
<1>12. CASE 0 \notin high
  <2>1. high = Up(low)
    BY <1>12
  <2>2. F[low] \in Int
    BY <1>5
  <2> QED
    BY <1>4, <1>10, <1>12, <2>1, <2>2
<1> QED
  BY <1>11, <1>12

LEMMA SpelledGrows ==
    ASSUME NEW b, \A k \in Nat \ {0} : b[k] \in {0, 1}
    PROVE  /\ Spelled(b)[0] = 0
           /\ \A m \in Nat : /\ Spelled(b)[m] \in Nat
                             /\ Spelled(b)[m + 1] = 2 * Spelled(b)[m] + b[m + 1]
<1>1. ASSUME NEW m \in Nat
      PROVE  /\ OnesBefore(b, m) \in SUBSET (0 .. m - 1)
             /\ Spelled(b)[m] = NumberOf(m, OnesBefore(b, m))
             /\ Spelled(b)[m] \in 0 .. 2 ^ m - 1
  <2>1. OnesBefore(b, m) \in SUBSET (0 .. m - 1)
    BY DEF OnesBefore
  <2>2. Spelled(b)[m] = NumberOf(m, OnesBefore(b, m))
    BY DEF Spelled
  <2>3. NumberOf(m, OnesBefore(b, m)) \in 0 .. 2 ^ m - 1
    BY <2>1, NumberFits
  <2> QED
    BY <2>1, <2>2, <2>3
<1>2. ASSUME NEW m \in Nat PROVE Spelled(b)[m] \in Nat
  <2>1. PICK a \in Nat : a = 2 ^ m
    BY PowersOfTwo
  <2> QED
    BY <1>1, <2>1
<1>3. Spelled(b)[0] = 0
  <2>1. Spelled(b)[0] \in 0 .. 2 ^ 0 - 1
    BY <1>1
  <2> QED
    BY <2>1, PowersOfTwo
<1>4. ASSUME NEW m \in Nat PROVE Spelled(b)[m + 1] = 2 * Spelled(b)[m] + b[m + 1]
  <2>1. PICK low : low = OnesBefore(b, m)
    OBVIOUS
  <2>2. PICK high : high = OnesBefore(b, m + 1)
    OBVIOUS
  <2>3. low \in SUBSET (0 .. m - 1)
    BY <1>1, <2>1
  <2>4. high \in SUBSET (0 .. m)
    BY <2>2 DEF OnesBefore
  <2>5. ASSUME NEW k \in low PROVE k + 1 \in high \ {0}
    <3>1. k \in 0 .. m - 1 /\ b[m - k] = 1
      BY <2>1 DEF OnesBefore
    <3>2. (m + 1) - (k + 1) = m - k /\ k + 1 \in 0 .. (m + 1) - 1 /\ k + 1 # 0
      BY <3>1
    <3> QED
      BY <2>2, <3>1, <3>2 DEF OnesBefore
  <2>6. ASSUME NEW k \in high \ {0} PROVE k - 1 \in low /\ k = (k - 1) + 1
    <3>1. k \in 0 .. (m + 1) - 1 /\ b[(m + 1) - k] = 1 /\ k # 0
      BY <2>2 DEF OnesBefore
    <3>2. (m + 1) - k = m - (k - 1) /\ k - 1 \in 0 .. m - 1 /\ k = (k - 1) + 1
      BY <3>1
    <3> QED
      BY <2>1, <3>1, <3>2 DEF OnesBefore
  <2>a. high \ {0} = Up(low)
    BY <2>5, <2>6 DEF Up
  <2>7. NumberOf(m + 1, high) = 2 * NumberOf(m, low) + (IF 0 \in high THEN 1 ELSE 0)
    BY <2>3, <2>4, <2>a, NumberDoubles
  <2>8. (IF 0 \in high THEN 1 ELSE 0) = b[m + 1]
    <3>1. 0 \in 0 .. (m + 1) - 1 /\ (m + 1) - 0 = m + 1 /\ m + 1 \in Nat \ {0}
      OBVIOUS
    <3>2. 0 \in high <=> b[m + 1] = 1
      BY <2>2, <3>1 DEF OnesBefore
    <3>3. b[m + 1] \in {0, 1}
      BY <3>1
    <3> QED
      BY <3>2, <3>3
  <2>9. Spelled(b)[m + 1] = NumberOf(m + 1, high)
    <3>1. m + 1 \in Nat
      OBVIOUS
    <3> QED
      BY <1>1, <2>2, <3>1
  <2> QED
    BY <1>1, <2>1, <2>7, <2>8, <2>9
<1> QED
  BY <1>2, <1>3, <1>4

\* The bits of a number are its ones, and no other number has them.
LEMMA BitsOfNumber ==
    ASSUME NEW w \in Nat, NEW ones \in SUBSET (0 .. w - 1)
    PROVE  /\ NumberOf(w, ones) \in 0 .. 2 ^ w - 1
           /\ \A k \in 0 .. w - 1 : Bit(NumberOf(w, ones), k) = IF k \in ones THEN 1 ELSE 0
           /\ \A r \in 0 .. 2 ^ w - 1 :
                 (\A k \in 0 .. w - 1 : Bit(r, k) = IF k \in ones THEN 1 ELSE 0) => NumberOf(w, ones) = r
<1>1. PICK b : b = [j \in Nat |-> IF w - j \in ones THEN 1 ELSE 0]
  OBVIOUS
<1>2. PICK v : v = Spelled(b)
  OBVIOUS
<1>3. v[0] = 0 /\ \A m \in Nat : v[m] \in Nat /\ v[m + 1] = 2 * v[m] + b[m + 1]
  <2>1. \A k \in Nat \ {0} : b[k] \in {0, 1}
    BY <1>1
  <2> QED
    BY <1>2, <2>1, SpelledGrows
<1>4. CountUp(v, b, w)
  <2>1. ASSUME NEW k \in 1 .. w PROVE b[k] \in {0, 1} /\ v[k] = (2 * v[k - 1]) + b[k]
    <3>1. k - 1 \in Nat /\ (k - 1) + 1 = k /\ k \in Nat
      OBVIOUS
    <3> QED
      BY <1>1, <1>3, <3>1
  <2> QED
    BY <1>3, <2>1 DEF CountUp
<1>5. v[w] = NumberOf(w, ones)
  <2>1. OnesBefore(b, w) = ones
    <3>1. ASSUME NEW k \in 0 .. w - 1 PROVE b[w - k] = 1 <=> k \in ones
      <4>1. w - k \in Nat /\ w - (w - k) = k
        OBVIOUS
      <4> QED
        BY <1>1, <4>1
    <3> QED
      BY <3>1 DEF OnesBefore
  <2>2. v[w] = NumberOf(w, OnesBefore(b, w))
    BY <1>2 DEF Spelled
  <2> QED
    BY <2>1, <2>2
<1>6. /\ v[w] \in 0 .. 2 ^ w - 1
      /\ \A k \in 1 .. w : (v[w] \div 2 ^ (w - k)) % 2 = b[k]
  BY <1>4, Counted
<1>7. ASSUME NEW k \in 0 .. w - 1 PROVE Bit(v[w], k) = IF k \in ones THEN 1 ELSE 0
  <2>1. w - k \in 1 .. w /\ w - (w - k) = k /\ w - k \in Nat
    OBVIOUS
  <2>2. (v[w] \div 2 ^ k) % 2 = b[w - k]
    BY <1>6, <2>1
  <2>3. b[w - k] = IF k \in ones THEN 1 ELSE 0
    BY <1>1, <2>1
  <2> QED
    BY <2>2, <2>3 DEF Bit
<1>8. ASSUME NEW r \in 0 .. 2 ^ w - 1,
             \A k \in 0 .. w - 1 : Bit(r, k) = IF k \in ones THEN 1 ELSE 0
      PROVE  v[w] = r
  <2>1. ASSUME NEW k \in 1 .. w PROVE b[k] = (r \div 2 ^ (w - k)) % 2
    <3>1. w - k \in 0 .. w - 1 /\ k \in Nat
      OBVIOUS
    <3>2. Bit(r, w - k) = IF w - k \in ones THEN 1 ELSE 0
      BY <1>8, <3>1
    <3> QED
      BY <1>1, <3>1, <3>2 DEF Bit
  <2> QED
    BY <1>4, <2>1, Counting
<1> QED
  BY <1>5, <1>6, <1>7, <1>8

\* What an exclusive or changes, the same exclusive or changes back.
LEMMA XorBack ==
    ASSUME NEW byte \in Bytes, NEW p \in Bytes
    PROVE  Xor(Xor(byte, p), p) = byte
<1>1. byte \in Nat /\ p \in Nat /\ byte \in 0 .. 2 ^ ByteBits - 1 /\ ByteBits \in Nat
  BY RegisterFacts
<1>2. PICK ones : ones = {k \in 0 .. ByteBits - 1 : Bit(byte, k) # Bit(p, k)}
  OBVIOUS
<1>3. ones \in SUBSET (0 .. ByteBits - 1)
  BY <1>2
<1>4. PICK x : x = Xor(byte, p)
  OBVIOUS
<1>5. \A k \in 0 .. ByteBits - 1 : Bit(x, k) = IF k \in ones THEN 1 ELSE 0
  BY <1>1, <1>2, <1>3, <1>4, BitsOfNumber DEF Xor
<1>6. PICK again : again = {k \in 0 .. ByteBits - 1 : Bit(x, k) # Bit(p, k)}
  OBVIOUS
<1>7. again \in SUBSET (0 .. ByteBits - 1)
  BY <1>6
<1>8. ASSUME NEW k \in 0 .. ByteBits - 1 PROVE Bit(byte, k) = IF k \in again THEN 1 ELSE 0
  <2>1. k \in Nat
    BY <1>1
  <2>2. Bit(byte, k) \in {0, 1} /\ Bit(p, k) \in {0, 1}
    BY <1>1, <2>1, BitIsBit
  <2>3. Bit(x, k) = IF Bit(byte, k) # Bit(p, k) THEN 1 ELSE 0
    BY <1>2, <1>5
  <2>4. k \in again <=> Bit(x, k) # Bit(p, k)
    BY <1>6
  <2> QED
    BY <2>2, <2>3, <2>4
<1>9. NumberOf(ByteBits, again) = byte
  BY <1>1, <1>7, <1>8, BitsOfNumber
<1> QED
  BY <1>4, <1>6, <1>9 DEF Xor
-----------------------------------------------------------------------------
(* The window of a payload.  A decoder that has taken the turns of an      *)
(* encoder holds, in its register, the bits of the payload less what both  *)
(* have moved their intervals down by.                                     *)


Streams == [Nat -> {0, 1}]

\* Twice the number the written bits spell and a half, doubled once for each bit held back.
Middle(b, c) == (2 * Spelled(b)[Len(c.bits)] + 1) * 2 ^ c.pending

Shifts(c) == Len(c.bits) + c.pending

\* The register of a decoder that has taken the turns of this encoder.
WindowOf(b, c) == Spelled(b)[Shifts(c) + RegisterBits] - Half * (Middle(b, c) - 1)

Agrees(b, c) == \A i \in 1 .. Len(c.bits) : c.bits[i] = b[i]

\* The bits written are those of the stream, and its window is in the interval.
Inside(b, c) == Agrees(b, c) /\ c.low <= WindowOf(b, c) /\ WindowOf(b, c) <= c.high

\* The decoder d of the stream b, where c is its encoder.
Mirrors(b, d, c) ==
    /\ d.low = c.low /\ d.high = c.high
    /\ d.position = Shifts(c) + RegisterBits + 1
    /\ d.code = WindowOf(b, c)

LEMMA StreamSpelled ==
    ASSUME NEW b \in Streams
    PROVE  /\ Spelled(b)[0] = 0
           /\ \A m \in Nat : /\ Spelled(b)[m] \in Nat /\ b[m + 1] \in {0, 1}
                             /\ Spelled(b)[m + 1] = 2 * Spelled(b)[m] + b[m + 1]
<1>1. \A k \in Nat \ {0} : b[k] \in {0, 1}
  BY DEF Streams
<1> QED
  BY <1>1, SpelledGrows

\* A bit and the opposite bits held back behind it.
LEMMA EmissionSpelled ==
    ASSUME NEW b \in Streams, NEW n \in Nat, NEW k \in Nat, NEW bit \in {0, 1},
           b[n + 1] = bit, \A i \in 1 .. k : b[n + 1 + i] = 1 - bit
    PROVE  Spelled(b)[n + 1 + k] = (2 * Spelled(b)[n] + 1) * 2 ^ k - 1 + bit
<1> DEFINE v == Spelled(b)[n]
           P == {j \in 0 .. k : Spelled(b)[n + 1 + j] = (2 * v + 1) * 2 ^ j - 1 + bit}
<1>1. v \in Nat
  BY StreamSpelled
<1>2. 0 \in P
  <2>1. Spelled(b)[n + 1] = 2 * v + bit
    BY StreamSpelled
  <2>2. (2 * v + 1) * 1 = 2 * v + 1 /\ n + 1 + 0 = n + 1
    BY <1>1
  <2> HIDE DEF v
  <2>3. (2 * v + 1) * 2 ^ 0 = 2 * v + 1
    BY <2>2, PowersOfTwo
  <2> QED
    BY <1>1, <2>1, <2>2, <2>3
<1> HIDE DEF v
<1>3. ASSUME NEW j \in 1 .. k, j - 1 \in P PROVE j \in P
  <2>1. j - 1 \in Nat /\ (j - 1) + 1 = j /\ j \in 0 .. k
    OBVIOUS
  <2>2. PICK a \in Nat : a = 2 ^ (j - 1) /\ 2 ^ j = 2 * a
    BY <2>1, PowersOfTwo
  <2>3. PICK x \in Nat : x = (2 * v + 1) * a
    BY <1>1
  <2>4. (2 * v + 1) * (2 * a) = 2 * x
    BY <1>1, <2>3
  <2>5. PICK m \in Nat : m = n + 1 + (j - 1) /\ m + 1 = n + 1 + j
    BY <2>1
  <2>6. Spelled(b)[m] = x - 1 + bit
    BY <1>3, <2>2, <2>3, <2>5
  <2>7. Spelled(b)[m + 1] = 2 * Spelled(b)[m] + b[m + 1]
    BY StreamSpelled
  <2>8. b[m + 1] = 1 - bit
    BY <2>5
  <2>9. Spelled(b)[m + 1] = 2 * x - 1 + bit
    BY <2>6, <2>7, <2>8
  <2> QED
    BY <2>1, <2>2, <2>4, <2>5, <2>9
<1> HIDE DEF P
<1>4. k \in P
  <2>1. 0 .. k \subseteq P
    BY <1>2, <1>3, EveryTurn
  <2> QED
    BY <2>1
<1> QED
  BY <1>4 DEF P, v

\* A turn of the loop, field by field.
LEMMA EncoderTurnIs ==
    ASSUME NEW c \in Encoders, ~Settled(c)
    PROVE  /\ EncoderTurn(c).low = 2 * (c.low - Offset(c))
           /\ EncoderTurn(c).high = 2 * (c.high - Offset(c)) + 1
           /\ Straddles(c) => /\ EncoderTurn(c).pending = c.pending + 1
                              /\ EncoderTurn(c).bits = c.bits
           /\ ~Straddles(c) => /\ EncoderTurn(c).pending = 0
                               /\ EncoderTurn(c).bits
                                  = Append(c.bits, IF c.high < Half THEN 0 ELSE 1)
                                    \o [i \in 1 .. c.pending |-> 1 - (IF c.high < Half THEN 0 ELSE 1)]
<1>1. /\ c = [low |-> c.low, high |-> c.high, pending |-> c.pending, bits |-> c.bits]
      /\ c.low \in 0 .. Top /\ c.high \in 0 .. Top /\ c.low <= c.high
      /\ c.pending \in Nat /\ c.bits \in Seq({0, 1})
  BY DEF Encoders
<1>2. PICK lo, hi :
         lo = 2 * (c.low - Offset(c)) /\ hi = 2 * (c.high - Offset(c)) + 1
  OBVIOUS
<1>5. Doubled(c) = [low |-> lo, high |-> hi, pending |-> c.pending, bits |-> c.bits]
  <2>1. Doubled(c) = [c EXCEPT !.low = lo, !.high = hi]
    BY <1>2, Zenon DEF Doubled
  <2>2. [c EXCEPT !.low = lo, !.high = hi] = [[c EXCEPT !.low = lo] EXCEPT !.high = hi]
    OBVIOUS
  <2>3. PICK d : d = [c EXCEPT !.low = lo]
    OBVIOUS
  <2>4. d = [low |-> lo, high |-> c.high, pending |-> c.pending, bits |-> c.bits]
    BY <1>1, <2>3
  <2>5. [d EXCEPT !.high = hi] = [low |-> lo, high |-> hi, pending |-> c.pending, bits |-> c.bits]
    BY <2>4
  <2> QED
    BY <2>1, <2>2, <2>3, <2>5
<1>6. CASE Straddles(c)
  <2>1. EncoderTurn(c) = [low |-> lo, high |-> hi, pending |-> c.pending + 1, bits |-> c.bits]
    BY <1>5, <1>6 DEF EncoderTurn
  <2> QED
    BY <1>2, <1>6, <2>1
<1>7. CASE ~Straddles(c)
  <2>1. PICK bit \in {0, 1} : bit = IF c.high < Half THEN 0 ELSE 1
    OBVIOUS
  <2>2. PICK tail : tail = [i \in 1 .. c.pending |-> 1 - bit]
    OBVIOUS
  <2>4. PICK more : more = Append(c.bits, bit) \o tail
    OBVIOUS
  <2>5. EncoderTurn(c) = [low |-> lo, high |-> hi, pending |-> 0, bits |-> more]
    <3>1. PICK d : d = Doubled(c)
      OBVIOUS
    <3>2. EncoderTurn(c) = Emit(d, bit)
      BY <1>7, <2>1, <3>1, Zenon DEF EncoderTurn
    <3>3. d = [low |-> lo, high |-> hi, pending |-> c.pending, bits |-> c.bits]
      BY <1>5, <3>1
    <3>4. Emit(d, bit) = [[d EXCEPT !.bits = more] EXCEPT !.pending = 0]
      BY <2>2, <2>4, <3>3 DEF Emit
    <3> QED
      BY <3>2, <3>3, <3>4
  <2>6. more = Append(c.bits, IF c.high < Half THEN 0 ELSE 1)
               \o [i \in 1 .. c.pending |-> 1 - (IF c.high < Half THEN 0 ELSE 1)]
    BY <2>1, <2>2, <2>4, Zenon
  <2>7. PICK e : e = EncoderTurn(c)
    OBVIOUS
  <2>8. e.low = lo /\ e.high = hi /\ e.pending = 0 /\ e.bits = more
    BY <2>5, <2>7
  <2> QED
    BY <1>2, <1>7, <2>6, <2>7, <2>8, Zenon
<1> QED
  BY <1>6, <1>7

Emitted(b, bits, bit, k, more) ==
    /\ more \in Seq({0, 1}) /\ Len(more) = Len(bits) + 1 + k
    /\ \A i \in 1 .. Len(bits) : bits[i] = b[i]
    /\ Spelled(b)[Len(bits) + 1 + k] = (2 * Spelled(b)[Len(bits)] + 1) * 2 ^ k - 1 + bit

\* What Emit writes, read back from the stream it is in.
LEMMA EmittedBits ==
    ASSUME NEW b \in Streams, NEW bits \in Seq({0, 1}), NEW bit \in {0, 1}, NEW k \in Nat,
           NEW more, more = Append(bits, bit) \o [i \in 1 .. k |-> 1 - bit],
           \A i \in 1 .. Len(more) : more[i] = b[i]
    PROVE  Emitted(b, bits, bit, k, more)
<1>1. PICK tail \in Seq({0, 1}) : /\ tail = [i \in 1 .. k |-> 1 - bit] /\ Len(tail) = k
                                  /\ \A i \in 1 .. k : tail[i] = 1 - bit
  <2>1. 1 - bit \in {0, 1}
    OBVIOUS
  <2>2. PICK tail : tail = [i \in 1 .. k |-> 1 - bit]
    OBVIOUS
  <2>3. tail \in Seq({0, 1}) /\ Len(tail) = k /\ \A i \in 1 .. k : tail[i] = 1 - bit
    BY <2>1, <2>2
  <2> QED
    BY <2>2, <2>3
<1>2. PICK n \in Nat : n = Len(bits)
  OBVIOUS
<1>3. PICK front \in Seq({0, 1}) : /\ front = Append(bits, bit) /\ Len(front) = n + 1
                                   /\ front[n + 1] = bit
                                   /\ \A i \in 1 .. n : front[i] = bits[i]
  <2>1. ASSUME NEW T, NEW p \in Seq(T), NEW e \in T
        PROVE  /\ Append(p, e) \in Seq(T) /\ Len(Append(p, e)) = Len(p) + 1
               /\ Append(p, e)[Len(p) + 1] = e
               /\ \A i \in 1 .. Len(p) : Append(p, e)[i] = p[i]
    OBVIOUS
  <2>2. PICK front : front = Append(bits, bit)
    OBVIOUS
  <2>3. /\ front \in Seq({0, 1}) /\ Len(front) = n + 1 /\ front[n + 1] = bit
        /\ \A i \in 1 .. n : front[i] = bits[i]
    BY <1>2, <2>1, <2>2
  <2> QED
    BY <2>2, <2>3
<1>4. /\ more = front \o tail /\ more \in Seq({0, 1}) /\ Len(more) = n + 1 + k
      /\ \A i \in 1 .. n + 1 : more[i] = front[i]
  <2>1. more = front \o tail
    BY <1>1, <1>3
  <2>2. more \in Seq({0, 1}) /\ Len(more) = n + 1 + k
    <3>1. PICK T : T = {0, 1}
      OBVIOUS
    <3>2. front \in Seq(T) /\ tail \in Seq(T)
      BY <3>1
    <3>3. front \o tail \in Seq(T) /\ Len(front \o tail) = Len(front) + Len(tail)
      BY <3>2, Joined
    <3> QED
      BY <1>1, <1>3, <2>1, <3>1, <3>3
  <2>3. \A i \in 1 .. n + 1 : more[i] = front[i]
    BY <1>1, <1>3, <2>1
  <2> QED
    BY <2>1, <2>2, <2>3
<1>5. \A i \in 1 .. n : bits[i] = b[i]
  <2>1. ASSUME NEW i \in 1 .. n PROVE bits[i] = b[i]
    <3>1. i \in 1 .. n + 1 /\ i \in 1 .. Len(more)
      BY <1>4
    <3> QED
      BY <1>3, <1>4, <3>1
  <2> QED
    BY <2>1
<1>6. b[n + 1] = bit
  <2>1. n + 1 \in 1 .. n + 1 /\ n + 1 \in 1 .. Len(more)
    BY <1>4
  <2> QED
    BY <1>3, <1>4, <2>1
<1>7. ASSUME NEW i \in 1 .. k PROVE b[n + 1 + i] = 1 - bit
  <2>1. n + 1 + i \in 1 .. Len(more) /\ i \in 1 .. Len(tail)
    BY <1>1, <1>4
  <2>2. more[n + 1 + i] = tail[i]
    BY <1>1, <1>3, <1>4, <2>1, JoinedAt
  <2> QED
    BY <1>1, <2>1, <2>2
<1>8. Spelled(b)[n + 1 + k] = (2 * Spelled(b)[n] + 1) * 2 ^ k - 1 + bit
  BY <1>6, <1>7, EmissionSpelled
<1> QED
  BY <1>2, <1>4, <1>5, <1>8 DEF Emitted

LEMMA WindowFacts ==
    ASSUME NEW b \in Streams, NEW c \in Encoders
    PROVE  /\ Shifts(c) \in Nat /\ Middle(b, c) \in Nat \ {0} /\ WindowOf(b, c) \in Int
           /\ Spelled(b)[Len(c.bits)] \in Nat
           /\ Spelled(b)[Shifts(c) + RegisterBits] \in Nat
<1>1. c.pending \in Nat /\ Len(c.bits) \in Nat
  BY DEF Encoders
<1>2. PICK v \in Nat : v = Spelled(b)[Len(c.bits)]
  BY <1>1, StreamSpelled
<1>3. PICK a \in Nat \ {0} : a = 2 ^ c.pending
  BY <1>1, PowersOfTwo
<1>4. (2 * v + 1) * a \in Nat \ {0}
  <2>1. (2 * v + 1) * a \in Nat /\ (2 * v + 1) * a >= a
    OBVIOUS
  <2> QED
    BY <2>1
<1>5. PICK m \in Nat \ {0} : m = Middle(b, c)
  BY <1>2, <1>3, <1>4 DEF Middle
<1>6. Shifts(c) \in Nat /\ Shifts(c) + RegisterBits \in Nat
  BY <1>1, RegisterFacts DEF Shifts
<1>7. PICK p \in Nat : p = Spelled(b)[Shifts(c) + RegisterBits]
  BY <1>6, StreamSpelled
<1>8. p - Half * (m - 1) \in Int
  BY RegisterFacts
<1> QED
  BY <1>2, <1>5, <1>6, <1>7, <1>8 DEF WindowOf

\* A turn moves the window of the stream as the decoder moves its code.
LEMMA TurnFollowed ==
    ASSUME NEW b \in Streams, NEW c \in Encoders, ~Settled(c), Agrees(b, EncoderTurn(c))
    PROVE  /\ Agrees(b, c)
           /\ Shifts(EncoderTurn(c)) = Shifts(c) + 1
           /\ WindowOf(b, EncoderTurn(c))
              = 2 * (WindowOf(b, c) - Offset(c)) + b[Shifts(c) + RegisterBits + 1]
<1>1. PICK e \in Encoders : e = EncoderTurn(c)
  BY EncoderTurnDoubles
<1>2. c.pending \in Nat /\ c.bits \in Seq({0, 1}) /\ Len(c.bits) \in Nat
      /\ c.low \in 0 .. Top /\ c.high \in 0 .. Top /\ c.low <= c.high
  BY DEF Encoders
<1>3. PICK y \in Nat \ {0} : y = Middle(b, c)
  BY WindowFacts
<1>4. PICK n \in Nat : n = Shifts(c)
  BY WindowFacts
<1>5. PICK p \in Nat : p = Spelled(b)[n + RegisterBits]
  BY <1>4, WindowFacts
<1>6. PICK bit \in {0, 1} : /\ bit = b[n + RegisterBits + 1]
                            /\ Spelled(b)[n + RegisterBits + 1] = 2 * p + bit
  <2>1. n + RegisterBits \in Nat
    BY RegisterFacts
  <2> QED
    BY <1>5, <2>1, StreamSpelled
<1>7. PICK h \in Int : h = Half * (y - 1) /\ Half * (2 * y - 1 - 1) = 2 * h
  <2>1. PICK q \in Nat : q = Half
    BY RegisterFacts
  <2>2. q * (y - 1) \in Int /\ q * (2 * y - 1 - 1) = 2 * (q * (y - 1))
    OBVIOUS
  <2> QED
    BY <2>1, <2>2
<1>8. WindowOf(b, c) = p - h
  BY <1>3, <1>4, <1>5, <1>7 DEF WindowOf
<1>9. CASE Straddles(c)
  <2>1. e.pending = c.pending + 1 /\ e.bits = c.bits
    BY <1>1, <1>9, EncoderTurnIs
  <2>2. Agrees(b, c)
    BY <1>1, <2>1 DEF Agrees
  <2>3. Shifts(e) = n + 1
    BY <1>2, <1>4, <2>1 DEF Shifts
  <2>4. Offset(c) = Quarter
    BY <1>2, <1>9, DoubledStays
  <2>5. Middle(b, e) = 2 * y
    <3>1. PICK v \in Nat : v = Spelled(b)[Len(c.bits)]
      BY WindowFacts
    <3>2. PICK a \in Nat : a = 2 ^ c.pending /\ 2 ^ (c.pending + 1) = 2 * a
      BY <1>2, PowersOfTwo
    <3>3. y = (2 * v + 1) * a
      BY <1>3, <3>1, <3>2 DEF Middle
    <3>4. Middle(b, e) = (2 * v + 1) * (2 * a)
      BY <2>1, <3>1, <3>2 DEF Middle
    <3> QED
      BY <3>3, <3>4
  <2>6. Half * (2 * y - 1) = 2 * h + Half
    <3>1. PICK q \in Nat : q = Half
      BY RegisterFacts
    <3>2. q * (2 * y - 1) = 2 * (q * (y - 1)) + q
      OBVIOUS
    <3> QED
      BY <1>7, <3>1, <3>2
  <2>7. WindowOf(b, e) = (2 * p + bit) - (2 * h + Half)
    <3>1. n + 1 + RegisterBits = n + RegisterBits + 1
      BY RegisterFacts
    <3> QED
      BY <1>6, <2>3, <2>5, <2>6, <3>1 DEF WindowOf
  <2>8. (2 * p + bit) - (2 * h + Half) = 2 * ((p - h) - Quarter) + bit
    BY RegisterFacts
  <2> QED
    BY <1>1, <1>4, <1>6, <1>8, <2>2, <2>3, <2>4, <2>7, <2>8
<1>10. CASE ~Straddles(c)
  <2>1. PICK out \in {0, 1} : out = IF c.high < Half THEN 0 ELSE 1
    OBVIOUS
  <2>2. /\ e.pending = 0
        /\ e.bits = Append(c.bits, out) \o [i \in 1 .. c.pending |-> 1 - out]
    BY <1>1, <1>10, <2>1, EncoderTurnIs
  <2>3. \A i \in 1 .. Len(e.bits) : e.bits[i] = b[i]
    BY <1>1 DEF Agrees
  <2>4. /\ Len(e.bits) = Len(c.bits) + 1 + c.pending
        /\ \A i \in 1 .. Len(c.bits) : c.bits[i] = b[i]
        /\ Spelled(b)[Len(c.bits) + 1 + c.pending]
           = (2 * Spelled(b)[Len(c.bits)] + 1) * 2 ^ c.pending - 1 + out
    <3>0. PICK more : more = e.bits
      OBVIOUS
    <3>1. PICK bits \in Seq({0, 1}), k \in Nat :
             bits = c.bits /\ k = c.pending /\ more = e.bits
      BY <1>2, <3>0
    <3>2. more = Append(bits, out) \o [i \in 1 .. k |-> 1 - out]
      BY <2>2, <3>1
    <3>3. \A i \in 1 .. Len(more) : more[i] = b[i]
      BY <2>3, <3>1
    <3>4. Emitted(b, bits, out, k, more)
      BY <3>2, <3>3, EmittedBits
    <3> QED
      BY <3>1, <3>4 DEF Emitted
  <2>5. Agrees(b, c)
    BY <2>4 DEF Agrees
  <2>6. Shifts(e) = n + 1
    BY <1>2, <1>4, <2>2, <2>4 DEF Shifts
  <2>7. Offset(c) = out * Half
    <3>1. Settled(c) \/ c.high < Half \/ c.low >= Half
      BY <1>2, <1>10, RegisterFacts DEF Settled
    <3>2. c.low < Half \/ c.high >= Half
      BY <1>2, RegisterFacts
    <3> QED
      BY <2>1, <3>1, <3>2, RegisterFacts DEF Offset
  <2>8. Spelled(b)[Len(e.bits)] = y - 1 + out
    BY <1>3, <2>4 DEF Middle
  <2>9. Middle(b, e) = 2 * (y - 1 + out) + 1
    <3>1. Middle(b, e) = (2 * (y - 1 + out) + 1) * 1
      BY <2>2, <2>8, PowersOfTwo DEF Middle
    <3> QED
      BY <3>1
  <2>10. Half * (Middle(b, e) - 1) = 2 * h + 2 * (out * Half)
    <3>1. PICK q \in Nat : q = Half
      BY RegisterFacts
    <3>2. q * ((2 * (y - 1 + out) + 1) - 1) = 2 * (q * (y - 1)) + 2 * (out * q)
      BY <2>1
    <3> QED
      BY <1>7, <2>9, <3>1, <3>2
  <2>11. WindowOf(b, e) = (2 * p + bit) - (2 * h + 2 * (out * Half))
    <3>1. n + 1 + RegisterBits = n + RegisterBits + 1
      BY RegisterFacts
    <3> QED
      BY <1>6, <2>6, <2>10, <3>1 DEF WindowOf
  <2>12. (2 * p + bit) - (2 * h + 2 * (out * Half)) = 2 * ((p - h) - out * Half) + bit
    BY <2>1, RegisterFacts
  <2> QED
    BY <1>1, <1>4, <1>6, <1>8, <2>5, <2>6, <2>7, <2>11, <2>12
<1> QED
  BY <1>9, <1>10

\* If the window lies in the interval after a turn, it lay in the one before.
LEMMA TurnInside ==
    ASSUME NEW b \in Streams, NEW c \in Encoders, ~Settled(c), Inside(b, EncoderTurn(c))
    PROVE  Inside(b, c)
<1>1. Agrees(b, EncoderTurn(c))
  BY DEF Inside
<1>2. PICK bit \in {0, 1} : bit = b[Shifts(c) + RegisterBits + 1]
  <2>1. Shifts(c) + RegisterBits \in Nat
    BY WindowFacts, RegisterFacts
  <2> QED
    BY <2>1, StreamSpelled
<1>3. PICK w \in Int : w = WindowOf(b, c)
  BY WindowFacts
<1>4. PICK o \in Nat : o = Offset(c)
  <2>1. c.low \in 0 .. Top /\ c.high \in 0 .. Top /\ c.low <= c.high
    BY DEF Encoders
  <2> QED
    BY <2>1, DoubledStays
<1>5. Agrees(b, c) /\ WindowOf(b, EncoderTurn(c)) = 2 * (w - o) + bit
  BY <1>1, <1>2, <1>3, <1>4, TurnFollowed
<1>6. PICK l \in Int, h \in Int : l = c.low /\ h = c.high
  BY DEF Encoders
<1>7. 2 * (l - o) <= 2 * (w - o) + bit /\ 2 * (w - o) + bit <= 2 * (h - o) + 1
  BY <1>4, <1>5, <1>6, EncoderTurnIs DEF Inside
<1>8. l <= w /\ w <= h
  BY <1>7
<1> QED
  BY <1>3, <1>5, <1>6, <1>8 DEF Inside

\* What BitReader reads: zeros past the end.
Stream(bits) == [n \in Nat |-> IF n \in 1 .. Len(bits) THEN bits[n] ELSE 0]

LEMMA StreamIsStream ==
    ASSUME NEW bits \in Seq({0, 1})
    PROVE  Stream(bits) \in Streams
BY DEF Stream, Streams

\* A turn of the decoder is the same turn.
LEMMA TurnMirrored ==
    ASSUME payload \in Seq({0, 1}), NEW b \in Streams, b = Stream(payload),
           NEW c \in Encoders, ~Settled(c), Agrees(b, EncoderTurn(c)),
           NEW d \in Decoders, Mirrors(b, d, c)
    PROVE  Mirrors(b, DecoderTurn(d), EncoderTurn(c))
<1>1. d = [low |-> d.low, high |-> d.high, code |-> d.code, position |-> d.position]
      /\ d.position \in Nat \ {0}
  BY DEF Decoders
<1>2. /\ d.low = c.low /\ d.high = c.high /\ d.position = Shifts(c) + RegisterBits + 1
      /\ d.code = WindowOf(b, c)
  BY DEF Mirrors
<1>3. Offset(d) = Offset(c)
  BY <1>2 DEF Offset
<1>4. PICK bit : bit = b[d.position]
  OBVIOUS
<1>5. ReadBit(d.position) = bit
  <2>1. b[d.position] = IF d.position \in 1 .. Len(payload) THEN payload[d.position] ELSE 0
    BY <1>1 DEF Stream
  <2>2. Len(payload) \in Nat
    OBVIOUS
  <2> QED
    BY <1>1, <1>4, <2>1, <2>2 DEF ReadBit
<1>6. PICK lo, hi : lo = 2 * (d.low - Offset(d)) /\ hi = 2 * (d.high - Offset(d)) + 1
  OBVIOUS
<1>7. PICK code : code = 2 * (d.code - Offset(d)) + bit
  OBVIOUS
<1>8. DecoderTurn(d) = [low |-> lo, high |-> hi, code |-> code, position |-> d.position + 1]
  <2>1. Doubled(d) = [d EXCEPT !.low = lo, !.high = hi]
    BY <1>6, Zenon DEF Doubled
  <2>2. [d EXCEPT !.low = lo, !.high = hi] = [[d EXCEPT !.low = lo] EXCEPT !.high = hi]
    OBVIOUS
  <2>3. PICK f : f = [d EXCEPT !.low = lo]
    OBVIOUS
  <2>4. f = [low |-> lo, high |-> d.high, code |-> d.code, position |-> d.position]
    BY <1>1, <2>3
  <2>5. PICK g : g = Doubled(d)
    OBVIOUS
  <2>6. g = [low |-> lo, high |-> hi, code |-> d.code, position |-> d.position]
    BY <2>1, <2>2, <2>3, <2>4, <2>5
  <2>7. DecoderTurn(d) = [g EXCEPT !.code = 2 * (@ - Offset(d)) + ReadBit(d.position),
                                   !.position = @ + 1]
    BY <2>5, Zenon DEF DecoderTurn
  <2>8. DecoderTurn(d) = [[g EXCEPT !.code = code] EXCEPT !.position = d.position + 1]
    BY <1>5, <1>7, <2>6, <2>7
  <2> QED
    BY <2>6, <2>8
<1>9. /\ Shifts(EncoderTurn(c)) = Shifts(c) + 1
      /\ WindowOf(b, EncoderTurn(c)) = 2 * (WindowOf(b, c) - Offset(c)) + b[Shifts(c) + RegisterBits + 1]
  BY TurnFollowed
<1>10. /\ EncoderTurn(c).low = 2 * (c.low - Offset(c))
       /\ EncoderTurn(c).high = 2 * (c.high - Offset(c)) + 1
  BY EncoderTurnIs
<1>11. d.position + 1 = Shifts(EncoderTurn(c)) + RegisterBits + 1
  <2>1. PICK n \in Nat : n = Shifts(c)
    BY WindowFacts
  <2> QED
    BY <1>2, <1>9, <2>1, RegisterFacts
<1>12. code = WindowOf(b, EncoderTurn(c))
  BY <1>2, <1>3, <1>4, <1>7, <1>9
<1> QED
  BY <1>2, <1>3, <1>6, <1>8, <1>10, <1>11, <1>12 DEF Mirrors

\* A window that lies in the interval once it is settled lay there before.
LEMMA SettledInside ==
    ASSUME NEW b \in Streams, NEW c \in Encoders, NEW g \in EncoderRuns(c),
           Inside(b, EncoderSettled(c))
    PROVE  \A k \in 0 .. RegisterBits : Inside(b, g[k])
<1>1. RegisterBits \in Nat \ {0}
  BY RegisterFacts
<1>2. /\ g \in [0 .. RegisterBits -> Encoders]
      /\ g[0] = c /\ g[RegisterBits] = EncoderSettled(c)
      /\ \A k \in 1 .. RegisterBits :
            g[k] = IF Settled(g[k - 1]) THEN g[k - 1] ELSE EncoderTurn(g[k - 1])
  BY DEF EncoderRuns
<1> DEFINE P == {k \in 0 .. RegisterBits : Inside(b, g[RegisterBits - k])}
<1>3. 0 \in P
  <2>1. RegisterBits - 0 = RegisterBits /\ 0 \in 0 .. RegisterBits
    BY <1>1
  <2> QED
    BY <1>2, <2>1
<1>4. ASSUME NEW k \in 1 .. RegisterBits, k - 1 \in P PROVE k \in P
  <2>1. PICK j \in 1 .. RegisterBits : j = RegisterBits - (k - 1) /\ j - 1 = RegisterBits - k
    BY <1>1
  <2>2. j - 1 \in 0 .. RegisterBits /\ k \in 0 .. RegisterBits
    BY <1>1
  <2>3. PICK d \in Encoders : d = g[j - 1]
    BY <1>2, <2>2
  <2>4. g[j] = IF Settled(d) THEN d ELSE EncoderTurn(d)
    BY <1>2, <2>3
  <2>5. Inside(b, g[j])
    BY <1>4, <2>1
  <2>6. Inside(b, d)
    BY <2>4, <2>5, TurnInside
  <2> QED
    BY <2>1, <2>2, <2>3, <2>6
<1> HIDE DEF P
<1>5. 0 .. RegisterBits \subseteq P
  BY <1>1, <1>3, <1>4, EveryTurn
<1>6. ASSUME NEW k \in 0 .. RegisterBits PROVE Inside(b, g[k])
  <2>1. RegisterBits - k \in P /\ RegisterBits - (RegisterBits - k) = k
    BY <1>1, <1>5
  <2> QED
    BY <2>1 DEF P
<1> QED
  BY <1>6

\* Both renormalisations take the same turns.
LEMMA SettledMirrored ==
    ASSUME payload \in Seq({0, 1}), NEW b \in Streams, b = Stream(payload),
           NEW c \in Encoders, Inside(b, EncoderSettled(c)),
           NEW d \in Decoders, Mirrors(b, d, c)
    PROVE  Inside(b, c) /\ Mirrors(b, DecoderSettled(d), EncoderSettled(c))
<1>1. RegisterBits \in Nat \ {0}
  BY RegisterFacts
<1>2. PICK g \in EncoderRuns(c) : TRUE
  BY EncoderRun
<1>3. PICK e \in DecoderRuns(d) : TRUE
  BY DecoderRun
<1>4. /\ g \in [0 .. RegisterBits -> Encoders]
      /\ g[0] = c /\ g[RegisterBits] = EncoderSettled(c)
      /\ \A k \in 1 .. RegisterBits :
            g[k] = IF Settled(g[k - 1]) THEN g[k - 1] ELSE EncoderTurn(g[k - 1])
  BY DEF EncoderRuns
<1>5. /\ e \in [0 .. RegisterBits -> Decoders]
      /\ e[0] = d /\ e[RegisterBits] = DecoderSettled(d)
      /\ \A k \in 1 .. RegisterBits :
            e[k] = IF Settled(e[k - 1]) THEN e[k - 1] ELSE DecoderTurn(e[k - 1])
  BY DEF DecoderRuns
<1>6. \A k \in 0 .. RegisterBits : Inside(b, g[k])
  BY SettledInside
<1> DEFINE P == {k \in 0 .. RegisterBits : Mirrors(b, e[k], g[k])}
<1>7. 0 \in P
  BY <1>1, <1>4, <1>5
<1>8. ASSUME NEW k \in 1 .. RegisterBits, k - 1 \in P PROVE k \in P
  <2>1. k - 1 \in 0 .. RegisterBits /\ k \in 0 .. RegisterBits
    BY <1>1
  <2>2. PICK x \in Encoders : x = g[k - 1]
    BY <1>4, <2>1
  <2>3. PICK y \in Decoders : y = e[k - 1]
    BY <1>5, <2>1
  <2>4. Mirrors(b, y, x)
    BY <1>8, <2>2, <2>3
  <2>5. Settled(y) <=> Settled(x)
    BY <2>4 DEF Mirrors, Settled, Straddles
  <2>6. /\ g[k] = IF Settled(x) THEN x ELSE EncoderTurn(x)
        /\ e[k] = IF Settled(y) THEN y ELSE DecoderTurn(y)
    BY <1>4, <1>5, <2>2, <2>3
  <2>7. CASE Settled(x)
    BY <2>1, <2>4, <2>5, <2>6, <2>7
  <2>8. CASE ~Settled(x)
    <3>1. Agrees(b, EncoderTurn(x))
      BY <1>6, <2>1, <2>6, <2>8 DEF Inside
    <3>2. Mirrors(b, DecoderTurn(y), EncoderTurn(x))
      BY <2>4, <2>8, <3>1, TurnMirrored
    <3> QED
      BY <2>1, <2>5, <2>6, <2>8, <3>2
  <2> QED
    BY <2>7, <2>8
<1> HIDE DEF P
<1>9. RegisterBits \in P
  <2>1. 0 .. RegisterBits \subseteq P
    BY <1>1, <1>7, <1>8, EveryTurn
  <2> QED
    BY <1>1, <2>1
<1>10. Inside(b, c)
  BY <1>1, <1>4, <1>6
<1> QED
  BY <1>4, <1>5, <1>9, <1>10 DEF P

\* The bit of the encoder is the side of the split its window lies on.
LEMMA NarrowedInside ==
    ASSUME NEW b \in Streams, NEW c \in Encoders, Settled(c), NEW one \in 1 .. Scale - 1,
           NEW bit \in {0, 1}, Inside(b, Narrowed(c, one, bit))
    PROVE  /\ Inside(b, c)
           /\ bit = IF WindowOf(b, c) <= Split(c, one) THEN 0 ELSE 1
<1>1. /\ c = [low |-> c.low, high |-> c.high, pending |-> c.pending, bits |-> c.bits]
      /\ c.low \in 0 .. Top /\ c.high \in 0 .. Top
  BY DEF Encoders
<1>2. PICK split \in Int : split = Split(c, one) /\ c.low <= split /\ split < c.high
  BY <1>1, SplitIsInside
<1>3. PICK w \in Int : w = WindowOf(b, c)
  BY WindowFacts
<1>4. CASE bit = 0
  <2>1. PICK e : e = [c EXCEPT !.high = split]
    OBVIOUS
  <2>2. e = [low |-> c.low, high |-> split, pending |-> c.pending, bits |-> c.bits]
    BY <1>1, <2>1
  <2>3. Narrowed(c, one, bit) = e
    BY <1>2, <1>4, <2>1 DEF Narrowed
  <2>4. Agrees(b, e) /\ c.low <= WindowOf(b, e) /\ WindowOf(b, e) <= split
    BY <2>2, <2>3 DEF Inside
  <2>5. WindowOf(b, e) = w
    BY <1>3, <2>2 DEF WindowOf, Shifts, Middle
  <2>6. Agrees(b, c)
    BY <2>2, <2>4 DEF Agrees
  <2> QED
    BY <1>1, <1>2, <1>3, <1>4, <2>4, <2>5, <2>6 DEF Inside
<1>5. CASE bit = 1
  <2>1. PICK e : e = [c EXCEPT !.low = split + 1]
    OBVIOUS
  <2>2. e = [low |-> split + 1, high |-> c.high, pending |-> c.pending, bits |-> c.bits]
    BY <1>1, <2>1
  <2>3. Narrowed(c, one, bit) = e
    BY <1>2, <1>5, <2>1 DEF Narrowed
  <2>4. Agrees(b, e) /\ split + 1 <= WindowOf(b, e) /\ WindowOf(b, e) <= c.high
    BY <2>2, <2>3 DEF Inside
  <2>5. WindowOf(b, e) = w
    BY <1>3, <2>2 DEF WindowOf, Shifts, Middle
  <2>6. Agrees(b, c)
    BY <2>2, <2>4 DEF Agrees
  <2> QED
    BY <1>1, <1>2, <1>3, <1>5, <2>4, <2>5, <2>6 DEF Inside
<1> QED
  BY <1>4, <1>5

\* The decoder finds that side, so it finds the bit.
LEMMA NarrowedMirrored ==
    ASSUME NEW b \in Streams, NEW c \in Encoders, NEW d \in Decoders, Mirrors(b, d, c),
           NEW one, NEW bit
    PROVE  Mirrors(b, Narrowed(d, one, bit), Narrowed(c, one, bit))
<1>1. c = [low |-> c.low, high |-> c.high, pending |-> c.pending, bits |-> c.bits]
  BY DEF Encoders
<1>2. d = [low |-> d.low, high |-> d.high, code |-> d.code, position |-> d.position]
  BY DEF Decoders
<1>3. d.low = c.low /\ d.high = c.high /\ d.position = Shifts(c) + RegisterBits + 1
      /\ d.code = WindowOf(b, c)
  BY DEF Mirrors
<1>4. PICK split : split = Split(c, one) /\ split = Split(d, one)
  BY <1>3 DEF Split
<1>5. ASSUME NEW lo, NEW hi,
             NEW e, e = [low |-> lo, high |-> hi, pending |-> c.pending, bits |-> c.bits],
             NEW f, f = [low |-> lo, high |-> hi, code |-> d.code, position |-> d.position]
      PROVE  Mirrors(b, f, e)
  <2>1. e.pending = c.pending /\ e.bits = c.bits /\ e.low = lo /\ e.high = hi
    BY <1>5
  <2>2. Shifts(e) = Shifts(c) /\ WindowOf(b, e) = WindowOf(b, c)
    BY <2>1 DEF Shifts, WindowOf, Middle
  <2>3. f.low = lo /\ f.high = hi /\ f.code = d.code /\ f.position = d.position
    BY <1>5
  <2> QED
    BY <1>3, <2>1, <2>2, <2>3 DEF Mirrors
<1>6. CASE bit = 0
  <2>1. [c EXCEPT !.high = split] = [low |-> c.low, high |-> split, pending |-> c.pending, bits |-> c.bits]
    BY <1>1
  <2>2. [d EXCEPT !.high = split] = [low |-> c.low, high |-> split, code |-> d.code, position |-> d.position]
    BY <1>2, <1>3
  <2>3. Mirrors(b, [d EXCEPT !.high = split], [c EXCEPT !.high = split])
    BY <1>5, <2>1, <2>2
  <2> QED
    BY <1>4, <1>6, <2>3 DEF Narrowed
<1>7. CASE bit # 0
  <2>1. [c EXCEPT !.low = split + 1] = [low |-> split + 1, high |-> c.high, pending |-> c.pending, bits |-> c.bits]
    BY <1>1
  <2>2. [d EXCEPT !.low = split + 1] = [low |-> split + 1, high |-> c.high, code |-> d.code, position |-> d.position]
    BY <1>2, <1>3
  <2>3. Mirrors(b, [d EXCEPT !.low = split + 1], [c EXCEPT !.low = split + 1])
    BY <1>5, <2>1, <2>2
  <2> QED
    BY <1>4, <1>7, <2>3 DEF Narrowed
<1> QED
  BY <1>6, <1>7

\* One side mirrors the other within a byte; the residual so far is the prefix.
MirrorsSide(b, r, s, prefix) ==
    /\ Mirrors(b, r.coder, s.coder)
    /\ r.cells = s.cells
    /\ r.residual = prefix

LEMMA BitInside ==
    ASSUME NEW b \in Streams, seed \in Seeds, NEW history \in Seq(Bytes), NEW predicted \in Bytes,
           NEW residual \in Bytes, NEW s \in EncoderSides, NEW n \in 1 .. ByteBits,
           Inside(b, EncoderBit(s, history, predicted, residual, n).coder)
    PROVE  Inside(b, s.coder)
<1>1. PICK bit \in {0, 1}, i \in 0 .. Floor - 1, one \in 1 .. Scale - 1 :
         EncoderBitIs(s, history, predicted, residual, n, bit, i, one)
  BY EncoderBitParts
<1>2. EncoderBit(s, history, predicted, residual, n).coder
      = EncoderSettled(Narrowed(s.coder, one, bit))
  BY <1>1 DEF EncoderBitIs
<1>3. s.coder \in Encoders /\ Settled(s.coder)
  BY DEF EncoderSides
<1>4. PICK narrowed \in Encoders : narrowed = Narrowed(s.coder, one, bit)
  BY <1>3, NarrowedEncoder
<1>5. PICK g \in EncoderRuns(narrowed) : TRUE
  BY EncoderRun
<1>6. Inside(b, EncoderSettled(narrowed))
  BY <1>2, <1>4
<1>7. Inside(b, g[0])
  <2>1. 0 \in 0 .. RegisterBits
    BY RegisterFacts
  <2> QED
    BY <1>6, <2>1, SettledInside
<1>8. Inside(b, narrowed)
  BY <1>7 DEF EncoderRuns
<1> QED
  BY <1>3, <1>4, <1>8, NarrowedInside

LEMMA PrefixGrows ==
    ASSUME NEW residual \in Bytes, NEW n \in 1 .. ByteBits
    PROVE  2 * (residual \div 2 ^ (ByteBits + 1 - n)) + Bit(residual, ByteBits - n)
           = residual \div 2 ^ (ByteBits - n)
<1>1. ByteBits - n \in Nat /\ (ByteBits - n) + 1 = ByteBits + 1 - n /\ residual \in Nat
  BY RegisterFacts
<1>2. PICK a \in Nat \ {0} : a = 2 ^ (ByteBits - n) /\ 2 ^ (ByteBits + 1 - n) = 2 * a
  BY <1>1, PowersOfTwo
<1>3. PICK q \in Nat : q = residual \div a
  BY <1>1
<1>4. q \div 2 = residual \div (2 * a)
  BY <1>1, <1>3, Halved
<1>5. PICK h \in Nat, bit \in {0, 1} : q \div 2 = h /\ q % 2 = bit /\ 2 * h + bit = q
  OBVIOUS
<1> QED
  BY <1>2, <1>3, <1>4, <1>5 DEF Bit

LEMMA BitMirrored ==
    ASSUME payload \in Seq({0, 1}), NEW b \in Streams, b = Stream(payload),
           seed \in Seeds, NEW history \in Seq(Bytes), NEW predicted \in Bytes,
           NEW residual \in Bytes, NEW s \in EncoderSides, NEW n \in 1 .. ByteBits,
           Inside(b, EncoderBit(s, history, predicted, residual, n).coder),
           NEW r \in DecoderSides,
           MirrorsSide(b, r, s, residual \div 2 ^ (ByteBits + 1 - n))
    PROVE  MirrorsSide(b, DecoderBit(r, history, predicted, n),
                       EncoderBit(s, history, predicted, residual, n),
                       residual \div 2 ^ (ByteBits - n))
<1>1. PICK bit \in {0, 1}, i \in 0 .. Floor - 1, one \in 1 .. Scale - 1 :
         EncoderBitIs(s, history, predicted, residual, n, bit, i, one)
  BY EncoderBitParts
<1>2. /\ bit = Bit(residual, ByteBits - n)
      /\ i = Index(history, predicted, residual \div 2 ^ (ByteBits + 1 - n), n)
      /\ one = ProbabilityOne(s.cells[i])
      /\ EncoderBit(s, history, predicted, residual, n)
         = [coder |-> EncoderSettled(Narrowed(s.coder, one, bit)),
            cells |-> [s.cells EXCEPT ![i] = CellUpdated(@, bit)]]
  BY <1>1 DEF EncoderBitIs
<1>3. /\ Mirrors(b, r.coder, s.coder) /\ r.cells = s.cells
      /\ r.residual = residual \div 2 ^ (ByteBits + 1 - n)
  BY DEF MirrorsSide
<1>4. PICK bit2 \in {0, 1}, i2 \in 0 .. Floor - 1, one2 \in 1 .. Scale - 1 :
         DecoderBitIs(r, history, predicted, n, bit2, i2, one2)
  BY DecoderBitParts
<1>5. /\ i2 = Index(history, predicted, r.residual, n)
      /\ one2 = ProbabilityOne(r.cells[i2])
      /\ bit2 = IF r.coder.code <= Split(r.coder, one2) THEN 0 ELSE 1
      /\ DecoderBit(r, history, predicted, n)
         = [coder |-> DecoderSettled(Narrowed(r.coder, one2, bit2)),
            cells |-> [r.cells EXCEPT ![i2] = CellUpdated(@, bit2)],
            residual |-> 2 * r.residual + bit2]
  BY <1>4 DEF DecoderBitIs
<1>6. i2 = i /\ one2 = one
  BY <1>2, <1>3, <1>5
<1>7. s.coder \in Encoders /\ Settled(s.coder) /\ r.coder \in Decoders /\ Settled(r.coder)
  BY DEF EncoderSides, DecoderSides
<1>8. PICK narrowed \in Encoders : narrowed = Narrowed(s.coder, one, bit)
  BY <1>7, NarrowedEncoder
<1>9. Inside(b, EncoderSettled(narrowed))
  BY <1>2, <1>8
<1>10. PICK g \in EncoderRuns(narrowed) : TRUE
  BY EncoderRun
<1>11. Inside(b, narrowed)
  <2>1. 0 \in 0 .. RegisterBits
    BY RegisterFacts
  <2>2. Inside(b, g[0])
    BY <1>9, <2>1, SettledInside
  <2> QED
    BY <2>2 DEF EncoderRuns
<1>12. bit = IF WindowOf(b, s.coder) <= Split(s.coder, one) THEN 0 ELSE 1
  BY <1>7, <1>8, <1>11, NarrowedInside
<1>13. bit2 = bit
  <2>1. Split(r.coder, one) = Split(s.coder, one) /\ r.coder.code = WindowOf(b, s.coder)
    BY <1>3 DEF Mirrors, Split
  <2> QED
    BY <1>5, <1>6, <1>12, <2>1
<1>14. PICK window \in Decoders : window = Narrowed(r.coder, one, bit)
  BY <1>5, <1>6, <1>7, <1>13, NarrowedDecoder
<1>15. Mirrors(b, window, narrowed)
  BY <1>3, <1>7, <1>8, <1>14, NarrowedMirrored
<1>16. Mirrors(b, DecoderSettled(window), EncoderSettled(narrowed))
  BY <1>9, <1>15, SettledMirrored
<1>17. 2 * r.residual + bit = residual \div 2 ^ (ByteBits - n)
  BY <1>2, <1>3, PrefixGrows
<1>18. EncoderBit(s, history, predicted, residual, n)
       = [coder |-> EncoderSettled(narrowed), cells |-> [s.cells EXCEPT ![i] = CellUpdated(@, bit)]]
  BY <1>2, <1>8
<1>19. DecoderBit(r, history, predicted, n)
       = [coder |-> DecoderSettled(window), cells |-> [s.cells EXCEPT ![i] = CellUpdated(@, bit)],
          residual |-> 2 * r.residual + bit]
  BY <1>3, <1>5, <1>6, <1>13, <1>14
<1> QED
  BY <1>16, <1>17, <1>18, <1>19 DEF MirrorsSide

LEMMA BitsInside ==
    ASSUME NEW b \in Streams, seed \in Seeds, NEW history \in Seq(Bytes), NEW predicted \in Bytes,
           NEW residual \in Bytes, NEW t \in EncoderSides,
           NEW g \in EncodedRuns(t, history, predicted, residual),
           Inside(b, EncodedBits(t, history, predicted, residual).coder)
    PROVE  \A k \in 0 .. ByteBits : Inside(b, g[k].coder)
<1>1. ByteBits \in Nat \ {0}
  BY RegisterFacts
<1>2. /\ g \in [0 .. ByteBits -> EncoderSides]
      /\ g[0] = t /\ g[ByteBits] = EncodedBits(t, history, predicted, residual)
      /\ \A k \in 1 .. ByteBits : g[k] = EncoderBit(g[k - 1], history, predicted, residual, k)
  BY DEF EncodedRuns
<1> DEFINE P == {k \in 0 .. ByteBits : Inside(b, g[ByteBits - k].coder)}
<1>3. 0 \in P
  <2>1. ByteBits - 0 = ByteBits /\ 0 \in 0 .. ByteBits
    BY <1>1
  <2> QED
    BY <1>2, <2>1
<1>4. ASSUME NEW k \in 1 .. ByteBits, k - 1 \in P PROVE k \in P
  <2>1. PICK j \in 1 .. ByteBits : j = ByteBits - (k - 1) /\ j - 1 = ByteBits - k
    BY <1>1
  <2>2. j - 1 \in 0 .. ByteBits /\ k \in 0 .. ByteBits
    BY <1>1
  <2>3. PICK s \in EncoderSides : s = g[j - 1]
    BY <1>2, <2>2
  <2>4. g[j] = EncoderBit(s, history, predicted, residual, j)
    BY <1>2, <2>3
  <2>5. Inside(b, g[j].coder)
    BY <1>4, <2>1
  <2>6. Inside(b, s.coder)
    BY <2>4, <2>5, BitInside
  <2> QED
    BY <2>1, <2>2, <2>3, <2>6
<1> HIDE DEF P
<1>5. 0 .. ByteBits \subseteq P
  BY <1>1, <1>3, <1>4, EveryTurn
<1>6. ASSUME NEW k \in 0 .. ByteBits PROVE Inside(b, g[k].coder)
  <2>1. ByteBits - k \in P /\ ByteBits - (ByteBits - k) = k
    BY <1>1, <1>5
  <2> QED
    BY <2>1 DEF P
<1> QED
  BY <1>6

\* Both loops over the bits of a byte go through the same states.
LEMMA BitsMirrored ==
    ASSUME payload \in Seq({0, 1}), NEW b \in Streams, b = Stream(payload),
           seed \in Seeds, NEW history \in Seq(Bytes), NEW predicted \in Bytes,
           NEW residual \in Bytes, NEW t \in EncoderSides, NEW u \in DecoderSides,
           MirrorsSide(b, u, t, 0),
           Inside(b, EncodedBits(t, history, predicted, residual).coder)
    PROVE  /\ Inside(b, t.coder)
           /\ MirrorsSide(b, DecodedBits(u, history, predicted),
                          EncodedBits(t, history, predicted, residual), residual)
<1>1. ByteBits \in Nat \ {0}
  BY RegisterFacts
<1>2. PICK g \in EncodedRuns(t, history, predicted, residual) : TRUE
  BY EncodedRun
<1>3. /\ g \in [0 .. ByteBits -> EncoderSides]
      /\ g[0] = t /\ g[ByteBits] = EncodedBits(t, history, predicted, residual)
      /\ \A k \in 1 .. ByteBits : g[k] = EncoderBit(g[k - 1], history, predicted, residual, k)
  BY DEF EncodedRuns
<1>4. u.residual = 0
  BY DEF MirrorsSide
<1>5. PICK e \in DecodedRuns(u, history, predicted) : TRUE
  BY <1>4, DecodedRun
<1>6. /\ e \in [0 .. ByteBits -> DecoderSides]
      /\ e[0] = u /\ e[ByteBits] = DecodedBits(u, history, predicted)
      /\ \A k \in 1 .. ByteBits : e[k] = DecoderBit(e[k - 1], history, predicted, k)
  BY DEF DecodedRuns
<1>7. \A k \in 0 .. ByteBits : Inside(b, g[k].coder)
  BY BitsInside
<1>8. residual \in 0 .. 2 ^ ByteBits - 1 /\ 2 ^ ByteBits \in Nat \ {0}
  BY RegisterFacts
<1> DEFINE P == {k \in 0 .. ByteBits :
                    MirrorsSide(b, e[k], g[k], residual \div 2 ^ (ByteBits - k))}
<1>9. 0 \in P
  <2>1. residual \div 2 ^ ByteBits = 0
    <3>1. PICK a \in Nat \ {0} : a = 2 ^ ByteBits
      BY <1>8
    <3>2. residual \in 0 .. a - 1
      BY <1>8, <3>1
    <3>3. residual \div a = 0
      BY <3>2
    <3> QED
      BY <3>1, <3>3
  <2>2. ByteBits - 0 = ByteBits /\ 0 \in 0 .. ByteBits
    BY <1>1
  <2> QED
    BY <1>3, <1>6, <2>1, <2>2
<1>10. ASSUME NEW k \in 1 .. ByteBits, k - 1 \in P PROVE k \in P
  <2>1. k - 1 \in 0 .. ByteBits /\ k \in 0 .. ByteBits /\ ByteBits - (k - 1) = ByteBits + 1 - k
    BY <1>1
  <2>2. PICK s \in EncoderSides : s = g[k - 1]
    BY <1>3, <2>1
  <2>3. PICK r \in DecoderSides : r = e[k - 1]
    BY <1>6, <2>1
  <2>4. MirrorsSide(b, r, s, residual \div 2 ^ (ByteBits + 1 - k))
    BY <1>10, <2>1, <2>2, <2>3
  <2>5. /\ g[k] = EncoderBit(s, history, predicted, residual, k)
        /\ e[k] = DecoderBit(r, history, predicted, k)
    BY <1>3, <1>6, <2>2, <2>3
  <2>6. Inside(b, EncoderBit(s, history, predicted, residual, k).coder)
    BY <1>7, <2>1, <2>5
  <2>7. MirrorsSide(b, DecoderBit(r, history, predicted, k),
                    EncoderBit(s, history, predicted, residual, k),
                    residual \div 2 ^ (ByteBits - k))
    BY <2>4, <2>6, BitMirrored
  <2> QED
    BY <2>1, <2>5, <2>7
<1> HIDE DEF P
<1>11. ByteBits \in P
  <2>1. 0 .. ByteBits \subseteq P
    BY <1>1, <1>9, <1>10, EveryTurn
  <2> QED
    BY <1>1, <2>1
<1>12. residual \div 2 ^ (ByteBits - ByteBits) = residual
  <2>1. ByteBits - ByteBits = 0 /\ residual \in Nat /\ 2 ^ 0 = 1
    BY <1>1, <1>8, PowersOfTwo
  <2>2. residual \div 1 = residual
    BY <2>1
  <2> QED
    BY <2>1, <2>2
<1>13. Inside(b, t.coder)
  <2>1. 0 \in 0 .. ByteBits
    BY <1>1
  <2> QED
    BY <1>3, <1>7, <2>1
<1>14. MirrorsSide(b, e[ByteBits], g[ByteBits], residual)
  BY <1>11, <1>12 DEF P
<1> QED
  BY <1>3, <1>6, <1>13, <1>14

\* Zeros only double what is spelled before them.
LEMMA ZerosSpelled ==
    ASSUME NEW b \in Streams, NEW n \in Nat, NEW k \in Nat, \A i \in 1 .. k : b[n + i] = 0
    PROVE  Spelled(b)[n + k] = Spelled(b)[n] * 2 ^ k
<1> DEFINE v == Spelled(b)[n]
           P == {j \in 0 .. k : Spelled(b)[n + j] = v * 2 ^ j}
<1>1. v \in Nat
  BY StreamSpelled
<1>2. 0 \in P
  <2>1. v * 1 = v /\ n + 0 = n /\ 0 \in 0 .. k
    BY <1>1
  <2>2. v * 2 ^ 0 = v
    BY <2>1, PowersOfTwo
  <2> QED
    BY <2>1, <2>2
<1> HIDE DEF v
<1>3. ASSUME NEW j \in 1 .. k, j - 1 \in P PROVE j \in P
  <2>1. j - 1 \in Nat /\ (j - 1) + 1 = j /\ j \in 0 .. k
    OBVIOUS
  <2>2. PICK a \in Nat : a = 2 ^ (j - 1) /\ 2 ^ j = 2 * a
    BY <2>1, PowersOfTwo
  <2>3. PICK m \in Nat : m = n + (j - 1) /\ m + 1 = n + j
    BY <2>1
  <2>4. Spelled(b)[m] = v * a
    BY <1>3, <2>2, <2>3
  <2>5. Spelled(b)[m + 1] = 2 * Spelled(b)[m] + b[m + 1]
    BY StreamSpelled
  <2>6. b[m + 1] = 0
    BY <2>3
  <2>7. 2 * (v * a) + 0 = v * (2 * a)
    BY <1>1
  <2> QED
    BY <2>1, <2>2, <2>3, <2>4, <2>5, <2>6, <2>7
<1> HIDE DEF P
<1>4. k \in P
  <2>1. 0 .. k \subseteq P
    BY <1>2, <1>3, EveryTurn
  <2> QED
    BY <2>1
<1> QED
  BY <1>4 DEF P, v

\* What finish writes puts the window at the end into the interval: at its
\* quarter or at its half, whichever the interval holds.
LEMMA FinishedInside ==
    ASSUME NEW c \in Encoders, Settled(c)
    PROVE  /\ Inside(Stream(Finished(c)), c)
           /\ Finished(c) \in Seq({0, 1}) /\ Finished(c) # <<>>
<1>1. /\ c = [low |-> c.low, high |-> c.high, pending |-> c.pending, bits |-> c.bits]
      /\ c.pending \in Nat /\ c.bits \in Seq({0, 1})
      /\ c.low \in 0 .. Top /\ c.high \in 0 .. Top
  BY DEF Encoders
<1>2. PICK bit \in {0, 1} : bit = IF c.low < Quarter THEN 0 ELSE 1
  OBVIOUS
<1>3. PICK k \in Nat : k = c.pending + 1
  BY <1>1
<1>4. PICK front \in Seq({0, 1}) : front = c.bits
  BY <1>1
<1>5. PICK n \in Nat : n = Len(front)
  OBVIOUS
<1>6. PICK bits : bits = Append(front, bit) \o [i \in 1 .. k |-> 1 - bit]
  OBVIOUS
<1>7. bits = Emit([c EXCEPT !.pending = @ + 1], bit).bits
  <2>1. PICK d : d = [c EXCEPT !.pending = c.pending + 1]
    OBVIOUS
  <2>2. d = [low |-> c.low, high |-> c.high, pending |-> k, bits |-> front]
    BY <1>1, <1>3, <1>4, <2>1
  <2>3. Emit(d, bit) = [[d EXCEPT !.bits = bits] EXCEPT !.pending = 0]
    BY <1>6, <2>2 DEF Emit
  <2>4. Emit(d, bit).bits = bits
    BY <2>2, <2>3
  <2> QED
    BY <2>1, <2>4
<1>8. PICK m \in Nat : m = (-Len(bits)) % ByteBits
  <2>1. Len(bits) \in Int
    <3>1. 1 - bit \in {0, 1}
      BY <1>2
    <3>2. [i \in 1 .. k |-> 1 - bit] \in Seq({0, 1})
      BY <3>1
    <3>3. ASSUME NEW T, NEW p \in Seq(T), NEW q \in Seq(T), NEW e \in T
          PROVE  Append(p, e) \o q \in Seq(T)
      OBVIOUS
    <3>4. bits \in Seq({0, 1})
      BY <1>6, <3>2, <3>3
    <3> QED
      BY <3>4
  <2> QED
    BY <2>1, RegisterFacts
<1>9. PICK zeros \in Seq({0, 1}) : /\ zeros = [i \in 1 .. m |-> 0] /\ Len(zeros) = m
                                   /\ \A i \in 1 .. m : zeros[i] = 0
  <2>1. PICK zeros : zeros = [i \in 1 .. m |-> 0]
    OBVIOUS
  <2>2. zeros \in Seq({0, 1}) /\ Len(zeros) = m /\ \A i \in 1 .. m : zeros[i] = 0
    BY <2>1
  <2> QED
    BY <2>1, <2>2
<1>10. Finished(c) = bits \o zeros
  BY <1>2, <1>7, <1>8, <1>9 DEF Finished
<1>11. PICK whole \in Seq({0, 1}) : whole = Finished(c)
  BY FinishedIsBits
<1>12. PICK b \in Streams : b = Stream(whole)
  BY StreamIsStream
<1>13. bits \in Seq({0, 1}) /\ Len(bits) = n + 1 + k
  <2>1. 1 - bit \in {0, 1}
    BY <1>2
  <2>2. PICK tail : tail = [i \in 1 .. k |-> 1 - bit]
    OBVIOUS
  <2>3. tail \in Seq({0, 1}) /\ Len(tail) = k
    BY <2>1, <2>2
  <2>4. ASSUME NEW T, NEW p \in Seq(T), NEW q \in Seq(T), NEW e \in T
        PROVE  Append(p, e) \o q \in Seq(T) /\ Len(Append(p, e) \o q) = Len(p) + 1 + Len(q)
    OBVIOUS
  <2> QED
    BY <1>5, <1>6, <2>2, <2>3, <2>4
<1>14. PICK e \in Nat : e = Len(bits) /\ e = n + 1 + k
  BY <1>13
<1>15. /\ Len(whole) = e + m
       /\ \A i \in 1 .. e : whole[i] = bits[i]
       /\ \A i \in 1 .. m : whole[e + i] = 0
  <2>1. PICK T : T = {0, 1}
    OBVIOUS
  <2>2. bits \in Seq(T) /\ zeros \in Seq(T)
    BY <1>13, <2>1
  <2>6. ASSUME NEW p \in Seq(T), NEW q \in Seq(T)
        PROVE  /\ Len(p \o q) = Len(p) + Len(q)
               /\ \A i \in 1 .. Len(p) : (p \o q)[i] = p[i]
               /\ \A i \in 1 .. Len(q) : (p \o q)[Len(p) + i] = q[i]
    OBVIOUS
  <2>7. /\ Len(bits \o zeros) = Len(bits) + Len(zeros)
        /\ \A i \in 1 .. Len(bits) : (bits \o zeros)[i] = bits[i]
        /\ \A i \in 1 .. Len(zeros) : (bits \o zeros)[Len(bits) + i] = zeros[i]
    BY <2>2, <2>6
  <2>3. Len(bits \o zeros) = e + m
    BY <1>9, <1>14, <2>7
  <2>4. \A i \in 1 .. e : (bits \o zeros)[i] = bits[i]
    BY <1>14, <2>7
  <2>5. \A i \in 1 .. m : (bits \o zeros)[e + i] = zeros[i]
    BY <1>9, <1>14, <2>7
  <2> QED
    BY <1>9, <1>10, <1>11, <2>3, <2>4, <2>5
<1>16. \A i \in 1 .. e : bits[i] = b[i]
  <2>1. ASSUME NEW i \in 1 .. e PROVE bits[i] = b[i]
    <3>1. i \in Nat /\ i \in 1 .. Len(whole)
      BY <1>15
    <3>2. b[i] = whole[i]
      BY <1>12, <3>1 DEF Stream
    <3> QED
      BY <1>15, <3>2
  <2> QED
    BY <2>1
<1>17. ASSUME NEW i \in Nat \ {0} PROVE b[e + i] = 0
  <2>1. e + i \in Nat
    OBVIOUS
  <2>2. b[e + i] = IF e + i \in 1 .. Len(whole) THEN whole[e + i] ELSE 0
    BY <1>12, <2>1 DEF Stream
  <2>3. CASE i <= m
    <3>1. i \in 1 .. m
      BY <2>3
    <3> QED
      BY <1>15, <2>2, <3>1
  <2>4. CASE ~(i <= m)
    <3>1. e + i \notin 1 .. Len(whole)
      BY <1>15, <2>4
    <3> QED
      BY <2>2, <3>1
  <2> QED
    BY <2>3, <2>4
<1>18. Emitted(b, front, bit, k, bits)
  BY <1>6, <1>14, <1>16, EmittedBits
<1>19. Agrees(b, c)
  BY <1>4, <1>18 DEF Agrees, Emitted
<1>20. PICK r \in Nat : r + 2 = RegisterBits /\ 2 ^ r = Quarter
  <2>1. PICK q \in Nat \ {0} : q = Quarter /\ 2 ^ RegisterBits = 4 * q
    BY RegisterFacts
  <2>2. PICK x \in Nat : x + 1 = RegisterBits
    BY RegisterFacts
  <2>3. PICK p \in Nat \ {0} : p = 2 ^ x /\ 2 ^ RegisterBits = 2 * p
    BY <2>2, PowersOfTwo
  <2>4. p = 2 * q
    BY <2>1, <2>3
  <2>5. x # 0
    <3>1. SUFFICES ASSUME x = 0 PROVE FALSE
      OBVIOUS
    <3>2. p = 1
      BY <2>3, <3>1, PowersOfTwo
    <3>3. p = 2 * q /\ q \in Nat
      BY <2>1, <2>4
    <3> QED
      BY <3>2, <3>3
  <2>6. PICK y \in Nat : y + 1 = x
    BY <2>5
  <2>7. 2 ^ x = 2 * 2 ^ y /\ 2 ^ y \in Nat
    BY <2>6, PowersOfTwo
  <2>8. 2 ^ y = q
    BY <2>3, <2>4, <2>7
  <2>9. y + 2 = RegisterBits
    BY <2>2, <2>6
  <2> QED
    BY <2>1, <2>8, <2>9
<1>21. PICK v \in Nat : v = Spelled(b)[n]
  BY StreamSpelled
<1>22. PICK a \in Nat \ {0} : a = 2 ^ c.pending /\ 2 ^ k = 2 * a
  BY <1>1, <1>3, PowersOfTwo
<1>23. PICK y \in Nat : y = (2 * v + 1) * a /\ (2 * v + 1) * (2 * a) = 2 * y
  <2>1. (2 * v + 1) * a \in Nat /\ (2 * v + 1) * (2 * a) = 2 * ((2 * v + 1) * a)
    OBVIOUS
  <2> QED
    BY <2>1
<1>24. Middle(b, c) = y
  BY <1>4, <1>5, <1>21, <1>22, <1>23 DEF Middle
<1>25. Spelled(b)[e] = 2 * y - 1 + bit
  BY <1>5, <1>14, <1>18, <1>21, <1>22, <1>23 DEF Emitted
<1>26. Spelled(b)[e + r] = (2 * y - 1 + bit) * Quarter
  <2>1. \A i \in 1 .. r : b[e + i] = 0
    BY <1>17
  <2>2. Spelled(b)[e + r] = Spelled(b)[e] * 2 ^ r
    BY <2>1, ZerosSpelled
  <2> QED
    BY <1>20, <1>25, <2>2
<1>27. e + r = Shifts(c) + RegisterBits
  <2>1. PICK g \in Nat : g = c.pending
    BY <1>1
  <2>2. Shifts(c) = n + g
    BY <1>4, <1>5, <2>1 DEF Shifts
  <2>3. e = n + 1 + (g + 1)
    BY <1>3, <1>14, <2>1
  <2>4. PICK w \in Nat : w = RegisterBits
    BY RegisterFacts
  <2>5. r + 2 = w
    BY <1>20, <2>4
  <2>6. e + r = n + g + w
    BY <2>3, <2>5
  <2> QED
    BY <2>2, <2>4, <2>6
<1>28. WindowOf(b, c) = (2 * y - 1 + bit) * Quarter - Half * (y - 1)
  BY <1>24, <1>26, <1>27 DEF WindowOf
<1>29. WindowOf(b, c) = Quarter + bit * Quarter
  <2>1. PICK q \in Nat : q = Quarter /\ Half = 2 * q
    BY RegisterFacts
  <2>2. (2 * y - 1 + bit) * q - (2 * q) * (y - 1) = q + bit * q
    BY <1>2
  <2> QED
    BY <1>28, <2>1, <2>2
<1>30. c.low <= WindowOf(b, c) /\ WindowOf(b, c) <= c.high
  <2>1. PICK q \in Nat : q = Quarter /\ Half = q + q
    BY RegisterFacts
  <2>2. PICK low \in Nat, high \in Nat : low = c.low /\ high = c.high
    BY <1>1
  <2>3. PICK window : window = WindowOf(b, c)
    OBVIOUS
  <2>4. low < q + q /\ high >= q + q
    BY <2>1, <2>2 DEF Settled
  <2>5. window = q + bit * q
    BY <1>29, <2>1, <2>3
  <2>6. CASE bit = 0
    <3>1. low < q /\ window = q
      BY <1>2, <2>1, <2>2, <2>5, <2>6
    <3>2. low <= window /\ window <= high
      BY ONLY <2>4, <3>1, low \in Nat, high \in Nat, q \in Nat
    <3> QED
      BY <2>2, <2>3, <3>2
  <2>7. CASE bit = 1
    <3>1. window = q + q
      BY <2>5, <2>7
    <3>2. low <= window /\ window <= high
      BY ONLY <2>4, <3>1, low \in Nat, high \in Nat, q \in Nat
    <3> QED
      BY <2>2, <2>3, <3>2
  <2> QED
    BY <2>6, <2>7
<1>31. whole # <<>>
  <2>1. Len(whole) > 0
    BY <1>14, <1>15
  <2> QED
    BY <2>1
<1> QED
  BY <1>11, <1>12, <1>19, <1>30, <1>31 DEF Inside
-----------------------------------------------------------------------------
(* Bytes, inputs, and the replay of an input.                              *)

MirrorsState(b, d, e) ==
    /\ Mirrors(b, d.coder, e.coder)
    /\ d.cells = e.cells
    /\ d.history = e.history

\* The parts of a turn of either byte loop.
EncodedParts(l, s0, byte, count, s, predicted, coded) ==
    /\ s = Reset(l, s0, count)
    /\ predicted = Predict(s.history, DirectionPlan(l))
    /\ coded = EncodedBits([coder |-> s.coder, cells |-> s.cells], s.history, predicted,
                           Xor(byte, predicted))
    /\ ByteEncoded(l, s0, byte, count)
       = [coder |-> coded.coder, cells |-> coded.cells, history |-> Append(s.history, byte)]

LEMMA ByteEncodedParts ==
    ASSUME seed \in Seeds, NEW l, NEW s0 \in EncoderStates, NEW byte \in Bytes, NEW count
    PROVE  \E s \in EncoderStates, predicted \in Bytes, coded \in EncoderSides :
              EncodedParts(l, s0, byte, count, s, predicted, coded)
<1>1. PICK s \in EncoderStates : s = Reset(l, s0, count)
  BY FreshEncoder DEF Reset
<1>2. PICK t \in EncoderSides : t = [coder |-> s.coder, cells |-> s.cells]
  BY DEF EncoderStates, EncoderSides
<1>3. s.history \in Seq(Bytes)
  BY DEF EncoderStates
<1>4. PICK predicted \in Bytes : predicted = Predict(s.history, DirectionPlan(l))
  BY ByteFacts
<1>5. PICK residual \in Bytes : residual = Xor(byte, predicted)
  BY ByteFacts
<1>6. PICK coded \in EncoderSides : coded = EncodedBits(t, s.history, predicted, residual)
  BY <1>3, EncodedBitsSettled
<1>7. ByteEncoded(l, s0, byte, count)
      = [coder |-> coded.coder, cells |-> coded.cells, history |-> Append(s.history, byte)]
  BY <1>1, <1>2, <1>4, <1>5, <1>6, Zenon DEF ByteEncoded
<1>8. coded = EncodedBits([coder |-> s.coder, cells |-> s.cells], s.history, predicted,
                          Xor(byte, predicted))
  BY <1>2, <1>5, <1>6
<1> QED
  BY <1>1, <1>4, <1>7, <1>8 DEF EncodedParts

\* A window inside the interval after a byte was inside it before.
LEMMA ByteInside ==
    ASSUME NEW b \in Streams, seed \in Seeds, NEW l, NEW s0 \in EncoderStates,
           NEW byte \in Bytes, NEW count,
           Inside(b, ByteEncoded(l, s0, byte, count).coder)
    PROVE  Inside(b, s0.coder)
<1>1. PICK s \in EncoderStates, predicted \in Bytes, coded \in EncoderSides :
         EncodedParts(l, s0, byte, count, s, predicted, coded)
  BY ByteEncodedParts
<1>2. PICK t \in EncoderSides : t = [coder |-> s.coder, cells |-> s.cells]
  BY DEF EncoderStates, EncoderSides
<1>3. PICK history \in Seq(Bytes) : history = s.history
  BY DEF EncoderStates
<1>4. PICK residual \in Bytes : residual = Xor(byte, predicted)
  BY ByteFacts
<1>5. coded = EncodedBits(t, history, predicted, residual)
  BY <1>1, <1>2, <1>3, <1>4 DEF EncodedParts
<1>6. Inside(b, EncodedBits(t, history, predicted, residual).coder)
  BY <1>1, <1>5 DEF EncodedParts
<1>7. PICK g \in EncodedRuns(t, history, predicted, residual) : TRUE
  BY EncodedRun
<1>8. Inside(b, g[0].coder)
  <2>1. 0 \in 0 .. ByteBits
    BY RegisterFacts
  <2> QED
    BY <1>6, <2>1, BitsInside
<1>9. Inside(b, s.coder)
  BY <1>2, <1>8 DEF EncodedRuns
<1>10. s.coder = s0.coder
  BY <1>1 DEF EncodedParts, Reset, Fresh
<1> QED
  BY <1>9, <1>10

\* A turn of decode_payload mirrors the turn of encode_payload, and finds its byte.
LEMMA ByteMirrored ==
    ASSUME payload \in Seq({0, 1}), NEW b \in Streams, b = Stream(payload),
           seed \in Seeds, NEW l, NEW s0 \in EncoderStates, NEW byte \in Bytes, NEW count,
           Inside(b, ByteEncoded(l, s0, byte, count).coder),
           NEW d0 \in DecoderStates, MirrorsState(b, d0, s0)
    PROVE  MirrorsState(b, ByteDecoded(l, d0, count), ByteEncoded(l, s0, byte, count))
<1>1. PICK s \in EncoderStates, predicted \in Bytes, coded \in EncoderSides :
         EncodedParts(l, s0, byte, count, s, predicted, coded)
  BY ByteEncodedParts
<1>2. /\ s = Reset(l, s0, count)
      /\ predicted = Predict(s.history, DirectionPlan(l))
      /\ coded = EncodedBits([coder |-> s.coder, cells |-> s.cells], s.history, predicted,
                             Xor(byte, predicted))
      /\ ByteEncoded(l, s0, byte, count)
         = [coder |-> coded.coder, cells |-> coded.cells, history |-> Append(s.history, byte)]
  BY <1>1 DEF EncodedParts
<1>3. PICK t \in EncoderSides : t = [coder |-> s.coder, cells |-> s.cells]
  BY DEF EncoderStates, EncoderSides
<1>4. PICK history \in Seq(Bytes) : history = s.history
  BY DEF EncoderStates
<1>5. PICK residual \in Bytes : residual = Xor(byte, predicted)
  BY ByteFacts
<1>6. coded = EncodedBits(t, history, predicted, residual)
  BY <1>2, <1>3, <1>4, <1>5
<1>7. PICK d \in DecoderStates : d = Reset(l, d0, count)
  BY FreshDecoder DEF Reset
<1>8. Mirrors(b, d.coder, s.coder) /\ d.cells = s.cells /\ d.history = s.history
  BY <1>2, <1>7 DEF MirrorsState, Reset, Fresh
<1>9. PICK u \in DecoderSides : u = [coder |-> d.coder, cells |-> d.cells, residual |-> 0]
  <2>1. 0 \in Bytes
    BY RegisterFacts
  <2>2. d.coder \in Decoders /\ d.cells \in Models /\ Settled(d.coder)
    BY DEF DecoderStates
  <2>3. PICK x : x = [coder |-> d.coder, cells |-> d.cells, residual |-> 0]
    OBVIOUS
  <2>4. x \in [coder : Decoders, cells : Models, residual : Bytes] /\ x.coder = d.coder
    BY <2>1, <2>2, <2>3
  <2> QED
    BY <2>2, <2>3, <2>4 DEF DecoderSides
<1>10. MirrorsSide(b, u, t, 0)
  BY <1>3, <1>8, <1>9 DEF MirrorsSide
<1>11. Inside(b, EncodedBits(t, history, predicted, residual).coder)
  BY <1>2, <1>6
<1>12. PICK back : back = DecodedBits(u, history, predicted)
  OBVIOUS
<1>13. MirrorsSide(b, back, coded, residual)
  BY <1>6, <1>10, <1>11, <1>12, BitsMirrored
<1>14. Xor(back.residual, predicted) = byte
  BY <1>5, <1>13, XorBack DEF MirrorsSide
<1>15. ByteDecoded(l, d0, count)
       = [coder |-> back.coder, cells |-> back.cells, history |-> Append(d.history, byte)]
  <2>1. predicted = Predict(d.history, DirectionPlan(l)) /\ history = d.history
    BY <1>2, <1>4, <1>8
  <2> QED
    BY <1>7, <1>9, <1>12, <1>14, <2>1, Zenon DEF ByteDecoded
<1>16. Mirrors(b, back.coder, coded.coder) /\ back.cells = coded.cells
  BY <1>13 DEF MirrorsSide
<1> QED
  BY <1>2, <1>8, <1>15, <1>16 DEF MirrorsState

\* A turn of the byte loop looks at the header and at what it is given.
LEMMA HeaderKept ==
    ASSUME UNCHANGED header, NEW CONSTANT l, NEW CONSTANT s0, NEW CONSTANT byte, NEW CONSTANT n
    PROVE  ByteEncoded(l, s0, byte, n)' = ByteEncoded(l, s0, byte, n)
<1>1. PICK s : s = Reset(l, s0, n)
  OBVIOUS
<1>2. DirectionPlan(l)' = DirectionPlan(l)
  BY DEF header, DirectionPlan, Shuffled, Swapped, Pool
<1>3. PICK plan : plan = DirectionPlan(l)
  OBVIOUS
<1>4. Predict(s.history, plan)' = Predict(s.history, plan)
  BY DEF header, Predict, DirectionValue
<1>5. PICK predicted : predicted = Predict(s.history, plan)
  OBVIOUS
<1>6. PICK t, r : t = [coder |-> s.coder, cells |-> s.cells] /\ r = Xor(byte, predicted)
  OBVIOUS
<1>7. EncodedBits(t, s.history, predicted, r)' = EncodedBits(t, s.history, predicted, r)
  BY DEF header, EncodedBits, Index
<1>8. PICK coded : coded = EncodedBits(t, s.history, predicted, r)
  OBVIOUS
<1>9. ByteEncoded(l, s0, byte, n)
      = [coder |-> coded.coder, cells |-> coded.cells, history |-> Append(s.history, byte)]
  BY <1>1, <1>3, <1>5, <1>6, <1>8, Zenon DEF ByteEncoded
<1>10. ByteEncoded(l, s0, byte, n)'
      = [coder |-> coded.coder, cells |-> coded.cells, history |-> Append(s.history, byte)]
  BY <1>1, <1>2, <1>3, <1>4, <1>5, <1>6, <1>7, <1>8, Zenon DEF ByteEncoded
<1> QED
  BY <1>9, <1>10
-----------------------------------------------------------------------------
\* The states of the encoder of a lane, byte by byte, up to the last one.
Trace(tr, l, w, last) ==
    /\ tr \in [0 .. Len(w) -> EncoderStates]
    /\ tr[0] = Fresh(NewEncoder)
    /\ \A i \in 1 .. Len(w) : tr[i] = ByteEncoded(l, tr[i - 1], w[i], i - 1)
    /\ tr[Len(w)] = last

LEMMA TraceKept ==
    ASSUME UNCHANGED header, NEW CONSTANT tr, NEW CONSTANT l, NEW CONSTANT w, NEW CONSTANT last,
           Trace(tr, l, w, last)
    PROVE  Trace(tr, l, w, last)'
<1>1. ASSUME NEW i \in 1 .. Len(w) PROVE (tr[i] = ByteEncoded(l, tr[i - 1], w[i], i - 1))'
  <2>1. PICK s, byte, n : s = tr[i - 1] /\ byte = w[i] /\ n = i - 1
    OBVIOUS
  <2>2. tr[i] = ByteEncoded(l, s, byte, n)
    BY <2>1 DEF Trace
  <2>3. ByteEncoded(l, s, byte, n)' = ByteEncoded(l, s, byte, n)
    BY HeaderKept
  <2> QED
    BY <2>1, <2>2, <2>3
<1> QED
  BY <1>1 DEF Trace

LEMMA TraceGrows ==
    ASSUME NEW tr, NEW l, NEW w \in Seq(Bytes), NEW last \in EncoderStates,
           Trace(tr, l, w, last), NEW byte \in Bytes, seed \in Seeds
    PROVE  \E longer : Trace(longer, l, Append(w, byte), ByteEncoded(l, last, byte, Len(w)))
<1>1. PICK n \in Nat : n = Len(w)
  OBVIOUS
<1>2. PICK next \in EncoderStates : next = ByteEncoded(l, last, byte, n)
  BY ByteEncodedStays
<1>3. PICK more : more = Append(w, byte)
  OBVIOUS
<1>4. /\ Len(more) = n + 1
      /\ more[n + 1] = byte
      /\ \A i \in 1 .. n : more[i] = w[i]
  BY <1>1, <1>3
<1>5. PICK longer : longer = [i \in 0 .. n + 1 |-> IF i = n + 1 THEN next ELSE tr[i]]
  OBVIOUS
<1>6. /\ tr \in [0 .. n -> EncoderStates]
      /\ tr[0] = Fresh(NewEncoder) /\ tr[n] = last
      /\ \A i \in 1 .. n : tr[i] = ByteEncoded(l, tr[i - 1], w[i], i - 1)
  BY <1>1 DEF Trace
<1>7. longer \in [0 .. n + 1 -> EncoderStates]
  BY <1>5, <1>6
<1>8. \A i \in 0 .. n : longer[i] = tr[i]
  BY <1>5
<1>9. longer[n + 1] = next
  BY <1>5
<1>10. ASSUME NEW i \in 1 .. n + 1
       PROVE  longer[i] = ByteEncoded(l, longer[i - 1], more[i], i - 1)
  <2>1. CASE i = n + 1
    <3>1. i - 1 = n /\ n \in 0 .. n
      BY <2>1
    <3>2. longer[i - 1] = last
      BY <1>6, <1>8, <3>1
    <3> QED
      BY <1>2, <1>4, <1>9, <2>1, <3>1, <3>2
  <2>2. CASE i # n + 1
    <3>1. i \in 1 .. n /\ i \in 0 .. n /\ i - 1 \in 0 .. n
      BY <2>2
    <3>2. longer[i] = tr[i] /\ longer[i - 1] = tr[i - 1] /\ more[i] = w[i]
      BY <1>4, <1>8, <3>1
    <3>3. tr[i] = ByteEncoded(l, tr[i - 1], w[i], i - 1)
      BY <1>6, <3>1
    <3> QED
      BY <3>2, <3>3
  <2> QED
    BY <2>1, <2>2
<1>11. longer[0] = Fresh(NewEncoder)
  BY <1>6, <1>8
<1>12. Trace(longer, l, more, next)
  BY <1>4, <1>7, <1>9, <1>10, <1>11 DEF Trace
<1> QED
  BY <1>1, <1>2, <1>3, <1>12

\* A window inside the interval at the end was inside it all along.
LEMMA TraceInside ==
    ASSUME NEW b \in Streams, seed \in Seeds, NEW tr, NEW l, NEW w \in Seq(Bytes),
           NEW last \in EncoderStates, Trace(tr, l, w, last), Inside(b, last.coder)
    PROVE  \A i \in 0 .. Len(w) : Inside(b, tr[i].coder)
<1>1. PICK n \in Nat : n = Len(w)
  OBVIOUS
<1> DEFINE P == {j \in 0 .. n : Inside(b, tr[n - j].coder)}
<1>2. 0 \in P
  <2>1. n - 0 = n /\ 0 \in 0 .. n /\ tr[n] = last
    BY <1>1 DEF Trace
  <2> QED
    BY <2>1
<1>3. ASSUME NEW j \in 1 .. n, j - 1 \in P PROVE j \in P
  <2>1. PICK i \in 1 .. n : i = n - (j - 1) /\ i - 1 = n - j
    OBVIOUS
  <2>2. PICK s \in EncoderStates : s = tr[i - 1]
    BY <1>1 DEF Trace
  <2>3. PICK byte \in Bytes : byte = w[i]
    BY <1>1
  <2>4. PICK count : count = i - 1
    OBVIOUS
  <2>5. tr[i] = ByteEncoded(l, s, byte, count)
    BY <1>1, <2>2, <2>3, <2>4 DEF Trace
  <2>6. Inside(b, tr[i].coder)
    BY <1>3, <2>1
  <2>7. Inside(b, ByteEncoded(l, s, byte, count).coder)
    BY <2>5, <2>6
  <2>8. Inside(b, s.coder)
    BY <2>7, ByteInside
  <2> QED
    BY <2>1, <2>2, <2>8
<1> HIDE DEF P
<1>4. 0 .. n \subseteq P
  BY <1>2, <1>3, EveryTurn
<1>5. ASSUME NEW i \in 0 .. n PROVE Inside(b, tr[i].coder)
  <2>1. n - i \in 0 .. n /\ n - (n - i) = i
    OBVIOUS
  <2>2. n - i \in P
    BY <1>4, <2>1
  <2> QED
    BY <2>1, <2>2 DEF P
<1> QED
  BY <1>1, <1>5

\* The new decoder, which has read the first bits, mirrors the new encoder.
LEMMA NewMirrored ==
    ASSUME NEW bits \in Seq({0, 1})
    PROVE  MirrorsState(Stream(bits), Fresh(NewDecoder(bits)), Fresh(NewEncoder))
<1>1. PICK b \in Streams : b = Stream(bits)
  BY StreamIsStream
<1>2. PICK r \in Nat \ {0} : r = RegisterBits
  BY RegisterFacts
<1>3. PICK ones : ones = {k \in 0 .. r - 1 : r - k <= Len(bits) /\ bits[r - k] = 1}
  OBVIOUS
<1>4. ones = OnesBefore(b, r)
  <2>1. ASSUME NEW k \in 0 .. r - 1
        PROVE  b[r - k] = 1 <=> r - k <= Len(bits) /\ bits[r - k] = 1
    <3>1. PICK m \in Nat \ {0} : m = r - k
      OBVIOUS
    <3>2. b[m] = IF m \in 1 .. Len(bits) THEN bits[m] ELSE 0
      BY <1>1 DEF Stream
    <3>3. m \in 1 .. Len(bits) <=> m <= Len(bits)
      OBVIOUS
    <3> QED
      BY <3>1, <3>2, <3>3
  <2> QED
    BY <1>3, <2>1 DEF OnesBefore
<1>5. NewDecoder(bits)
      = [low |-> 0, high |-> Top, position |-> r + 1, code |-> NumberOf(r, ones)]
  BY <1>2, <1>3 DEF NewDecoder
<1>6. Spelled(b)[r] = NumberOf(r, ones)
  BY <1>4 DEF Spelled
<1>7. Spelled(b)[0] = 0 /\ Spelled(b)[r] \in Nat
  BY StreamSpelled
<1>8. PICK c : c = NewEncoder
  OBVIOUS
<1>9. c.low = 0 /\ c.high = Top /\ c.pending = 0 /\ c.bits = <<>> /\ Len(c.bits) = 0
  BY <1>8 DEF NewEncoder
<1>10. Shifts(c) + RegisterBits = r
  BY <1>2, <1>9 DEF Shifts
<1>11. Middle(b, c) = 1
  <2>1. 2 ^ 0 = 1
    BY PowersOfTwo
  <2>2. (2 * Spelled(b)[Len(c.bits)] + 1) * 2 ^ c.pending = (2 * 0 + 1) * 1
    BY <1>7, <1>9, <2>1
  <2> QED
    BY <2>2 DEF Middle
<1>12. WindowOf(b, c) = Spelled(b)[r]
  <2>1. PICK h \in Nat : h = Half
    BY RegisterFacts
  <2>2. Spelled(b)[r] - h * (1 - 1) = Spelled(b)[r]
    BY <1>7
  <2> QED
    BY <1>10, <1>11, <2>1, <2>2 DEF WindowOf
<1>13. Mirrors(b, NewDecoder(bits), c)
  BY <1>5, <1>6, <1>9, <1>10, <1>12 DEF Mirrors
<1> QED
  BY <1>1, <1>8, <1>13 DEF MirrorsState, Fresh
\* The encoder of a lane is where its turns over the input lead.
Traced(l) == \E w, last, tr : w = source /\ last = enc[l] /\ Trace(tr, l, w, last)

\* The decoder is where the encoder of its lane was after as many bytes.
FollowsEncoder ==
    \E l, w, last, n, tr :
        /\ l = lane /\ w = source /\ last = enc[lane] /\ n = Len(output)
        /\ Trace(tr, l, w, last)
        /\ MirrorsState(Stream(payload), dec, tr[n])

\* What holds of the decoder of a payload that is an encoder's.
Follows ==
    /\ pc # "rejected"
    /\ Len(output) <= Len(source)
    /\ output = SubSeq(source, 1, Len(output))
    /\ pc = "done" => Len(output) = Len(source)
    /\ source # <<>> => FollowsEncoder

ReplayInv ==
    /\ pc \in {"encode", "decode", "done", "rejected"}
    /\ source \in Seq(Bytes)
    /\ output \in Seq(Bytes)
    /\ lane \in Lanes
    /\ \A l \in Lanes : Traced(l)
    /\ pc = "encode" => output = <<>>
    /\ pc # "encode" /\ Honest => Follows

LEMMA ReplayInit == Init => ReplayInv
<1> SUFFICES ASSUME Init PROVE ReplayInv
  OBVIOUS
<1>1. ASSUME NEW l \in Lanes PROVE Traced(l)
  <2>1. PICK last \in EncoderStates : last = Fresh(NewEncoder)
    BY FreshEncoder
  <2>2. PICK w : w = <<>>
    OBVIOUS
  <2>3. PICK tr : tr = [i \in 0 .. 0 |-> last]
    OBVIOUS
  <2>4. Len(w) = 0
    BY <2>2
  <2>5. tr \in [0 .. 0 -> EncoderStates] /\ tr[0] = last
    BY <2>3
  <2>6. Trace(tr, l, w, last)
    BY <2>1, <2>4, <2>5 DEF Trace
  <2> QED
    BY <2>1, <2>2, <2>6 DEF Init, Traced
<1>2. <<>> \in Seq(Bytes)
  OBVIOUS
<1>3. "Unique" \in Lanes
  BY DEF Lanes
<1> QED
  BY <1>1, <1>2, <1>3 DEF Init, ReplayInv

LEMMA TracedKept ==
    ASSUME UNCHANGED <<header, source, enc>>, NEW CONSTANT l, Traced(l)
    PROVE  Traced(l)'
<1>1. PICK w, last, tr : w = source /\ last = enc[l] /\ Trace(tr, l, w, last)
  BY DEF Traced
<1>2. Trace(tr, l, w, last)'
  BY <1>1, TraceKept
<1>3. (w = source)' /\ (last = enc[l])'
  BY <1>1
<1> QED
  BY <1>2, <1>3 DEF Traced

LEMMA EncodeTraced ==
    ASSUME RangeInv, ReplayInv, NEW CONSTANT byte \in Bytes, EncodeByte(byte)
    PROVE  ReplayInv'
<1>1. /\ pc = "encode" /\ UNCHANGED <<pc, header, lane, output>>
      /\ source' = Append(source, byte)
      /\ enc' = [l \in Lanes |-> ByteEncoded(l, enc[l], byte, Len(source))]
  BY DEF EncodeByte
<1>2. ASSUME NEW CONSTANT l \in Lanes PROVE Traced(l)'
  <2>1. PICK w, last, tr : w = source /\ last = enc[l] /\ Trace(tr, l, w, last)
    BY DEF ReplayInv, Traced
  <2>2. w \in Seq(Bytes) /\ last \in EncoderStates /\ seed \in Seeds
    BY <2>1 DEF ReplayInv, RangeInv
  <2>3. PICK longer : Trace(longer, l, Append(w, byte), ByteEncoded(l, last, byte, Len(w)))
    BY <2>1, <2>2, TraceGrows
  <2>4. PICK more, next : more = Append(w, byte) /\ next = ByteEncoded(l, last, byte, Len(w))
    OBVIOUS
  <2>5. Trace(longer, l, more, next)
    BY <2>3, <2>4
  <2>6. Trace(longer, l, more, next)'
    BY <1>1, <2>5, TraceKept
  <2>7. (more = source)' /\ (next = enc[l])'
    BY <1>1, <2>1, <2>4
  <2> QED
    BY <2>6, <2>7 DEF Traced
<1>3. source' \in Seq(Bytes)
  BY <1>1 DEF ReplayInv
<1> QED
  BY <1>1, <1>2, <1>3 DEF ReplayInv

LEMMA StartFollows ==
    ASSUME RangeInv, ReplayInv, NEW CONSTANT l \in Lanes, NEW CONSTANT bits \in Seq({0, 1}),
           NEW CONSTANT n, Start(l, bits, n)
    PROVE  ReplayInv'
<1>1. /\ pc = "encode" /\ UNCHANGED <<header, source, enc, output>>
      /\ lane' = l /\ payload' = bits /\ length' = n
      /\ pc' = IF (n = 0) # (bits = <<>>) THEN "rejected" ELSE "decode"
      /\ dec' = Fresh(NewDecoder(bits))
  BY DEF Start
<1>2. /\ source \in Seq(Bytes) /\ output = <<>> /\ Len(output) = 0
  BY <1>1 DEF ReplayInv
<1>3. ASSUME NEW CONSTANT k \in Lanes PROVE Traced(k)'
  BY <1>1, TracedKept DEF ReplayInv
<1>4. ASSUME Honest' PROVE Follows'
  <2>1. bits = Payload(l) /\ n = Len(source)
    BY <1>1, <1>4 DEF Honest, Payload
  <2>2. n = 0 <=> source = <<>>
    BY <1>2, <2>1
  <2>3. bits = <<>> <=> source = <<>>
    <3>1. CASE source = <<>>
      BY <2>1, <3>1 DEF Payload
    <3>2. CASE source # <<>>
      <4>1. bits = Finished(enc[l].coder)
        BY <2>1, <3>2 DEF Payload
      <4>2. enc[l].coder \in Encoders /\ Settled(enc[l].coder)
        BY DEF RangeInv, EncoderStates
      <4>3. Finished(enc[l].coder) # <<>>
        BY <4>2, FinishedInside
      <4> QED
        BY <3>2, <4>1, <4>3
    <3> QED
      BY <3>1, <3>2
  <2>4. pc' = "decode"
    BY <1>1, <2>2, <2>3
  <2>5. PICK w, last, tr : w = source /\ last = enc[l] /\ Trace(tr, l, w, last)
    BY DEF ReplayInv, Traced
  <2>6. Trace(tr, l, w, last)'
    BY <1>1, <2>5, TraceKept
  <2>7. tr[0] = Fresh(NewEncoder)
    BY <2>5 DEF Trace
  <2>8. MirrorsState(Stream(bits), dec', tr[0])
    BY <1>1, <2>7, NewMirrored
  <2>9. PICK m : m = 0
    OBVIOUS
  <2>10. /\ (l = lane)' /\ (w = source)' /\ (last = enc[lane])' /\ (m = Len(output))'
         /\ MirrorsState(Stream(payload), dec, tr[m])'
    BY <1>1, <1>2, <2>5, <2>8, <2>9
  <2>11. FollowsEncoder'
    BY <2>6, <2>10 DEF FollowsEncoder
  <2>12. Len(output') = 0 /\ Len(source') \in Nat /\ output' = SubSeq(source', 1, 0)
    BY <1>1, <1>2
  <2> QED
    BY <2>4, <2>11, <2>12 DEF Follows
<1> QED
  BY <1>1, <1>2, <1>3, <1>4 DEF ReplayInv

\* A byte decoded from a payload of the encoder's is the next of the input.
LEMMA DecodeFollows ==
    ASSUME RangeInv, ReplayInv, DecodeByte, Honest
    PROVE  /\ FollowsEncoder'
           /\ Len(output) < Len(source)
           /\ output' = SubSeq(source, 1, Len(output) + 1)
           /\ Len(output') = Len(output) + 1
<1>1. /\ pc = "decode" /\ Len(output) < length
      /\ dec' = ByteDecoded(lane, dec, Len(output))
      /\ output' = Append(output, dec'.history[Len(dec'.history)])
      /\ UNCHANGED <<pc, header, source, enc, lane, payload, length>>
  BY DEF DecodeByte
<1>2. PICK w \in Seq(Bytes) : w = source
  BY DEF ReplayInv
<1>3. PICK n \in Nat : n = Len(output)
  BY DEF ReplayInv
<1>4. n < Len(w) /\ w # <<>>
  BY <1>1, <1>2, <1>3 DEF Honest
<1>5. Follows
  BY <1>1 DEF ReplayInv
<1>6. PICK l, last, tr :
         /\ l = lane /\ last = enc[lane] /\ Trace(tr, l, w, last)
         /\ MirrorsState(Stream(payload), dec, tr[n])
  BY <1>2, <1>3, <1>4, <1>5 DEF Follows, FollowsEncoder
<1>7. /\ l \in Lanes /\ last \in EncoderStates /\ last.coder \in Encoders /\ Settled(last.coder)
      /\ seed \in Seeds /\ payload \in Seq({0, 1}) /\ dec \in DecoderStates
  BY <1>6 DEF ReplayInv, RangeInv, EncoderStates
<1>8. payload = Finished(last.coder)
  BY <1>2, <1>4, <1>6 DEF Honest, Payload
<1>9. PICK b \in Streams : b = Stream(payload)
  BY <1>7, StreamIsStream
<1>10. Inside(b, last.coder)
  BY <1>7, <1>8, <1>9, FinishedInside
<1>11. PICK i \in 1 .. Len(w) : i = n + 1 /\ i - 1 = n
  BY <1>4
<1>12. PICK s0 \in EncoderStates : s0 = tr[n]
  BY <1>4, <1>6 DEF Trace
<1>13. PICK s \in EncoderStates : s = tr[i]
  BY <1>6 DEF Trace
<1>14. PICK byte \in Bytes : byte = w[i]
  OBVIOUS
<1>15. s = ByteEncoded(l, s0, byte, n)
  BY <1>6, <1>11, <1>12, <1>13, <1>14 DEF Trace
<1>16. Inside(b, s.coder)
  <2>1. i \in 0 .. Len(w)
    OBVIOUS
  <2>2. \A k \in 0 .. Len(w) : Inside(b, tr[k].coder)
    BY <1>6, <1>7, <1>10, TraceInside
  <2> QED
    BY <1>13, <2>1, <2>2
<1>17. PICK d0 \in DecoderStates : d0 = dec
  BY <1>7
<1>18. MirrorsState(b, ByteDecoded(l, d0, n), s)
  <2>1. MirrorsState(b, d0, s0)
    BY <1>6, <1>9, <1>12, <1>17
  <2>2. Inside(b, ByteEncoded(l, s0, byte, n).coder)
    BY <1>15, <1>16
  <2>3. MirrorsState(b, ByteDecoded(l, d0, n), ByteEncoded(l, s0, byte, n))
    BY <1>7, <1>9, <2>1, <2>2, ByteMirrored
  <2> QED
    BY <1>15, <2>3
<1>19. PICK d : d = dec'
  OBVIOUS
<1>20. MirrorsState(b, d, s)
  BY <1>1, <1>3, <1>6, <1>17, <1>18, <1>19
<1>21. d.history[Len(d.history)] = byte
  <2>1. PICK s1 \in EncoderStates, predicted \in Bytes, coded \in EncoderSides :
           EncodedParts(l, s0, byte, n, s1, predicted, coded)
    BY <1>7, ByteEncodedParts
  <2>2. PICK h \in Seq(Bytes) : h = s1.history
    BY DEF EncoderStates
  <2>3. s.history = Append(h, byte)
    BY <1>15, <2>1, <2>2 DEF EncodedParts
  <2>4. d.history = Append(h, byte)
    BY <1>20, <2>3 DEF MirrorsState
  <2> QED
    BY <2>2, <2>4
<1>22. output' = Append(output, byte)
  BY <1>1, <1>19, <1>21
<1>23. output = SubSeq(w, 1, n) /\ output \in Seq(Bytes)
  BY <1>2, <1>3, <1>5 DEF Follows, ReplayInv
<1>24. output' = SubSeq(w, 1, n + 1) /\ Len(output') = n + 1
  <2>1. Append(SubSeq(w, 1, n), w[n + 1]) = SubSeq(w, 1, n + 1)
    BY <1>4
  <2> QED
    BY <1>3, <1>11, <1>14, <1>22, <1>23, <2>1
<1>25. FollowsEncoder'
  <2>1. Trace(tr, l, w, last)'
    BY <1>1, <1>6, TraceKept
  <2>2. /\ (l = lane)' /\ (w = source)' /\ (last = enc[lane])' /\ (i = Len(output))'
        /\ MirrorsState(Stream(payload), dec, tr[i])'
    BY <1>1, <1>2, <1>6, <1>9, <1>11, <1>13, <1>19, <1>20, <1>24
  <2> QED
    BY <2>1, <2>2 DEF FollowsEncoder
<1> QED
  BY <1>2, <1>3, <1>4, <1>24, <1>25

\* What DecodeByte does to a state that follows, or to one nobody claims to know.
LEMMA DecodeKeeps ==
    ASSUME RangeInv, ReplayInv, DecodeByte
    PROVE  ReplayInv'
<1>1. /\ pc = "decode" /\ dec' = ByteDecoded(lane, dec, Len(output))
      /\ output' = Append(output, dec'.history[Len(dec'.history)])
      /\ UNCHANGED <<pc, header, source, enc, lane, payload, length>>
  BY DEF DecodeByte
<1>2. ASSUME NEW CONSTANT k \in Lanes PROVE Traced(k)'
  BY <1>1, TracedKept DEF ReplayInv
<1>3. Honest' <=> Honest
  BY <1>1 DEF Honest, Payload
<1>4. output' \in Seq(Bytes)
  <2>1. PICK d \in DecoderStates : d = dec
    BY DEF RangeInv
  <2>2. PICK s : s = Reset(lane, d, Len(output))
    OBVIOUS
  <2>3. s \in DecoderStates
    BY <2>2, FreshDecoder DEF Reset
  <2>4. PICK h \in Seq(Bytes) : h = s.history
    BY <2>3 DEF DecoderStates
  <2>5. PICK predicted \in Bytes : predicted = Predict(h, DirectionPlan(lane))
    BY ByteFacts DEF RangeInv
  <2>6. PICK coded : coded = DecodedBits([coder |-> s.coder, cells |-> s.cells, residual |-> 0],
                                         h, predicted)
    OBVIOUS
  <2>7. dec'.history = Append(h, Xor(coded.residual, predicted))
    BY <1>1, <2>1, <2>2, <2>4, <2>5, <2>6 DEF ByteDecoded
  <2>8. PICK byte \in Bytes : byte = Xor(coded.residual, predicted)
    BY ByteFacts
  <2>9. dec'.history[Len(dec'.history)] = byte
    BY <2>4, <2>7, <2>8
  <2> QED
    BY <1>1, <2>9 DEF ReplayInv
<1>5. ASSUME Honest' PROVE Follows'
  <2>1. /\ FollowsEncoder'
        /\ Len(output) < Len(source)
        /\ output' = SubSeq(source, 1, Len(output) + 1)
        /\ Len(output') = Len(output) + 1
    BY <1>3, <1>5, DecodeFollows
  <2>2. Len(output) \in Nat /\ Len(source) \in Nat
    BY DEF ReplayInv
  <2>3. /\ pc' = "decode" /\ source' = source
        /\ Len(output') <= Len(source')
        /\ output' = SubSeq(source', 1, Len(output'))
    BY <1>1, <2>1, <2>2
  <2> QED
    BY <2>1, <2>3 DEF Follows
<1> QED
  BY <1>1, <1>2, <1>4, <1>5 DEF ReplayInv

LEMMA ReplayKept ==
    ASSUME ReplayInv, UNCHANGED <<header, source, enc, lane, payload, length, dec, output>>,
           pc' = pc \/ (pc = "decode" /\ pc' = "done" /\ Len(output) = length)
    PROVE  ReplayInv'
<1>1. ASSUME NEW CONSTANT k \in Lanes PROVE Traced(k)'
  BY TracedKept DEF ReplayInv
<1>2. Honest' <=> Honest
  BY DEF Honest, Payload
<1>3. ASSUME FollowsEncoder PROVE FollowsEncoder'
  <2>1. PICK l, w, last, n, tr :
           /\ l = lane /\ w = source /\ last = enc[lane] /\ n = Len(output)
           /\ Trace(tr, l, w, last)
           /\ MirrorsState(Stream(payload), dec, tr[n])
    BY <1>3 DEF FollowsEncoder
  <2>2. Trace(tr, l, w, last)'
    BY <2>1, TraceKept
  <2>3. /\ (l = lane)' /\ (w = source)' /\ (last = enc[lane])' /\ (n = Len(output))'
        /\ MirrorsState(Stream(payload), dec, tr[n])'
    BY <2>1
  <2> QED
    BY <2>2, <2>3 DEF FollowsEncoder
<1>4. ASSUME pc' # "encode", Honest' PROVE Follows'
  <2>1. Honest /\ pc # "encode"
    BY <1>2, <1>4
  <2>2. Follows
    BY <2>1 DEF ReplayInv
  <2>3. pc' # "rejected"
    BY <2>2 DEF Follows
  <2>4. pc' = "done" => Len(output') = Len(source')
    BY <2>1, <2>2 DEF Follows, Honest
  <2> QED
    BY <1>3, <2>2, <2>3, <2>4 DEF Follows
<1> QED
  BY <1>1, <1>4 DEF ReplayInv

LEMMA ReplayNext == RangeInv /\ ReplayInv /\ [Next]_vars => ReplayInv'
<1> SUFFICES ASSUME RangeInv, ReplayInv, [Next]_vars PROVE ReplayInv'
  OBVIOUS
<1>1. ASSUME NEW CONSTANT byte \in Bytes, EncodeByte(byte) PROVE ReplayInv'
  BY <1>1, EncodeTraced
<1>2. CASE Deliver
  <2>1. PICK l \in Lanes : Start(l, Payload(l), Len(source))
    BY <1>2 DEF Deliver
  <2>2. enc[l].coder \in Encoders
    BY DEF RangeInv, EncoderStates
  <2>3. <<>> \in Seq({0, 1})
    OBVIOUS
  <2>4. Payload(l) \in Seq({0, 1})
    BY <2>2, <2>3, FinishedIsBits DEF Payload
  <2>5. PICK bits \in Seq({0, 1}) : bits = Payload(l)
    BY <2>4
  <2>6. PICK n : n = Len(source)
    OBVIOUS
  <2>7. Start(l, bits, n)
    BY <2>1, <2>5, <2>6
  <2> QED
    BY <2>7, StartFollows
<1>3. CASE DeliverForeign
  <2>1. PICK l \in Lanes, bits \in Foreign, n \in 0 .. MaxBytes : Start(l, bits, n)
    BY <1>3 DEF DeliverForeign
  <2>2. bits \in Seq({0, 1})
    BY <2>1, FloorAssumption
  <2> QED
    BY <2>1, <2>2, StartFollows
<1>4. CASE DecodeByte
  BY <1>4, DecodeKeeps
<1>5. CASE DecodeEnd
  <2>1. /\ pc = "decode" /\ Len(output) = length /\ pc' = "done"
        /\ UNCHANGED <<header, source, enc, lane, payload, length, dec, output>>
    BY <1>5 DEF DecodeEnd
  <2> QED
    BY <2>1, ReplayKept
<1>6. CASE UNCHANGED vars
  BY <1>6, ReplayKept DEF vars
<1> QED
  BY <1>1, <1>2, <1>3, <1>4, <1>5, <1>6 DEF Next, Encode

LEMMA ReplayedAtStart == Init => Replay!Init
BY DEF Init, Replay!Init

\* What is handed back is what the decoder has put out, when the payload is an encoder's.
LEMMA NothingReplayed ==
    ASSUME UNCHANGED source, (pc' # "encode") <=> (pc # "encode"),
           (IF Honest THEN output ELSE <<>>)' = (IF Honest THEN output ELSE <<>>)
    PROVE  UNCHANGED Replay!vars
BY DEF Replay!vars

LEMMA ReplaySteps == RangeInv /\ ReplayInv /\ [Next]_vars => [Replay!Next]_(Replay!vars)
<1> SUFFICES ASSUME RangeInv, ReplayInv, [Next]_vars PROVE [Replay!Next]_(Replay!vars)
  OBVIOUS
<1>1. ASSUME NEW CONSTANT byte \in Bytes, EncodeByte(byte) PROVE Replay!Accept
  <2>1. /\ pc = "encode" /\ UNCHANGED <<pc, output>> /\ source' = Append(source, byte)
    BY <1>1 DEF EncodeByte
  <2>2. output = <<>> /\ output' = <<>> /\ source \in Seq(Bytes)
    BY <2>1 DEF ReplayInv
  <2>3. /\ source' \in Seq(Bytes) /\ Len(source') > Len(source)
        /\ SubSeq(source', 1, Len(source)) = source
    BY <2>1, <2>2
  <2>4. (IF Honest THEN output ELSE <<>>)' = (IF Honest THEN output ELSE <<>>)
    BY <2>2
  <2> QED
    BY <2>1, <2>3, <2>4 DEF Replay!Accept
<1>2. CASE Deliver \/ DeliverForeign
  <2>1. PICK l, bits, n : Start(l, bits, n)
    BY <1>2 DEF Deliver, DeliverForeign
  <2>2. /\ pc = "encode" /\ pc' # "encode" /\ UNCHANGED <<source, output>>
    BY <2>1 DEF Start
  <2>3. output = <<>> /\ output' = <<>>
    BY <2>2 DEF ReplayInv
  <2>4. (IF Honest THEN output ELSE <<>>)' = (IF Honest THEN output ELSE <<>>)
    BY <2>3
  <2> QED
    BY <2>2, <2>4 DEF Replay!Next, Replay!Seal
<1>3. CASE DecodeByte
  <2>1. /\ pc = "decode" /\ UNCHANGED <<pc, source, enc, lane, payload, length>>
    BY <1>3 DEF DecodeByte
  <2>2. Honest' <=> Honest
    BY <2>1 DEF Honest, Payload
  <2>3. CASE Honest
    <3>1. /\ Len(output) < Len(source)
          /\ output' = SubSeq(source, 1, Len(output) + 1)
      BY <1>3, <2>3, DecodeFollows
    <3>2. PICK n \in Nat, m \in Nat : n = Len(output) /\ m = Len(source)
      BY DEF ReplayInv
    <3>3. PICK k \in n + 1 .. m : k = n + 1
      BY <3>1, <3>2
    <3>4. output' = SubSeq(source, 1, k)
      BY <3>1, <3>2, <3>3
    <3>5. (IF Honest THEN output ELSE <<>>) = output /\ (IF Honest THEN output ELSE <<>>)' = output'
      BY <2>2, <2>3
    <3> QED
      BY <2>1, <3>2, <3>3, <3>4, <3>5 DEF Replay!Next, Replay!Replay
  <2>4. CASE ~Honest
    <3>1. (IF Honest THEN output ELSE <<>>)' = (IF Honest THEN output ELSE <<>>)
      BY <2>2, <2>4
    <3> QED
      BY <2>1, <3>1, NothingReplayed
  <2> QED
    BY <2>3, <2>4
<1>4. CASE DecodeEnd \/ UNCHANGED vars
  <2>1. /\ (pc' # "encode") <=> (pc # "encode")
        /\ UNCHANGED <<source, enc, lane, payload, length, output>>
    BY <1>4 DEF DecodeEnd, vars
  <2>2. Honest' <=> Honest
    BY <2>1 DEF Honest, Payload
  <2>3. (IF Honest THEN output ELSE <<>>)' = (IF Honest THEN output ELSE <<>>)
    BY <2>1, <2>2
  <2> QED
    BY <2>1, <2>3, NothingReplayed
<1> QED
  BY <1>1, <1>2, <1>3, <1>4 DEF Next, Encode, Replay!Next

LEMMA ReplayedAtEnd ==
    ReplayInv => (Honest => pc # "rejected" /\ (pc = "done" => output = source))
<1> SUFFICES ASSUME ReplayInv, Honest, pc # "encode"
             PROVE  pc # "rejected" /\ (pc = "done" => output = source)
  OBVIOUS
<1>1. Follows
  BY DEF ReplayInv
<1>2. source \in Seq(Bytes)
  BY DEF ReplayInv
<1>3. SubSeq(source, 1, Len(source)) = source
  BY <1>2
<1> QED
  BY <1>1, <1>3 DEF Follows

\* Every payload of every lane decodes to the input it was made of, byte by
\* byte as the decoder goes, and is never rejected.
THEOREM PayloadReplays == CodecSpec => ImplementsExactReplay
<1>1. CodecInit => RangeInv /\ ReplayInv /\ Replay!Init
  BY PayloadInit, RangeInit, ReplayInit, ReplayedAtStart
<1>2. RangeInv /\ ReplayInv /\ [CodecNext]_<<vars, nestedVars>> => RangeInv' /\ ReplayInv'
  BY PayloadNext, RangeNext, ReplayNext
<1>3. RangeInv /\ ReplayInv /\ [CodecNext]_<<vars, nestedVars>> => [Replay!Next]_(Replay!vars)
  BY PayloadNext, ReplaySteps
<1> QED
  BY <1>1, <1>2, <1>3, ReplayedAtEnd, PTL DEF CodecSpec, Replay!Spec, ImplementsExactReplay
=============================================================================
