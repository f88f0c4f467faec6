-------------------------- MODULE HyperCodecProofs --------------------------
(***************************************************************************)
(* The hyper codec at its two levels, and the operators of its catalog.    *)
(* Operators: each restores what it showed, at every width and length, and *)
(* the position maps of the experts show what the operators show (Moved).  *)
(* Archives: what pack writes is never refused and decodes to              *)
(* the input, and whatever is accepted is what encode_file makes of its    *)
(* output; for every list of floors, source, mode, control and pass count. *)
(* Payloads: the same of p3_encode and p3_decode, bit for bit, and the     *)
(* expert state that is signed is the one the decoder was left with; for   *)
(* every width, window, reset interval, hash and shuffle.                  *)
(*                                                                         *)
(* The stages of an archive are named by a function st of the floor: st[0] *)
(* is the input under the genesis, st[k] the stage encoded at floor k with *)
(* its Omega.  It grows while the archive is encoded and is walked back    *)
(* while it is decoded (IInv).                                             *)
(*                                                                         *)
(* Of an archive another program had a hand in, one only knows that each   *)
(* of its stages lies over another or over the input (Known).  A stage     *)
(* that is accepted is the one encode_stage makes of its header and what   *)
(* it decodes to, so that the tower tt of such stages goes on growing down *)
(* from the file (AcceptInv).  The one exception is a payload of the input *)
(* at an outer floor (Torn): it decodes to what is no stage, and the next  *)
(* floor refuses (Doomed).                                                 *)
(*                                                                         *)
(* Of a payload, Trace names the states of a coder, symbol after symbol,   *)
(* and Residual what it writes.  The decoder is where a coder of its own   *)
(* symbols would be and has read the residuals that coder would have       *)
(* written (DecoderFollows); when it is done, the zeros it has checked     *)
(* leave one body only (FilledOnce).                                       *)
(***************************************************************************)
EXTENDS HyperCodec, OperatorReplay, Numbers

(* Operators. *)

\* A rotation back and forth within a chunk of n values.
LEMMA RotationInverts ==
    ASSUME NEW n \in 1 .. 12, NEW o \in 0 .. n - 1, NEW k \in 0 .. 11
    PROVE  /\ (o + n - (k % n)) % n \in 0 .. n - 1
           /\ (((o + n - (k % n)) % n) + k) % n = o
<1>1. CASE n = 1 BY <1>1
<1>2. CASE n = 2 BY <1>2
<1>3. CASE n = 3 BY <1>3
<1>4. CASE n = 4 BY <1>4
<1>5. CASE n = 5 BY <1>5
<1>6. CASE n = 6 BY <1>6
<1>7. CASE n = 7 BY <1>7
<1>8. CASE n = 8 BY <1>8
<1>9. CASE n = 9 BY <1>9
<1>10. CASE n = 10 BY <1>10
<1>11. CASE n = 11 BY <1>11
<1>12. CASE n = 12 BY <1>12
<1> QED
  BY <1>1, <1>2, <1>3, <1>4, <1>5, <1>6, <1>7, <1>8, <1>9, <1>10, <1>11, <1>12

\* The chunk of a position: where it starts and how long it is.
LEMMA ChunkOfPosition ==
    ASSUME NEW count \in Nat, NEW i \in 0 .. count - 1
    PROVE  /\ ChunkStart(i, 12) \in 0 .. i
           /\ ChunkLen(i, 12, count) \in 1 .. 12
           /\ i - ChunkStart(i, 12) \in 0 .. ChunkLen(i, 12, count) - 1
           /\ ChunkStart(i, 12) + ChunkLen(i, 12, count) <= count
           /\ ChunkStart(i, 12) % 12 = 0
BY DEF ChunkStart, ChunkLen

\* Every position of a chunk has the same start and the same count.
LEMMA SameChunk ==
    ASSUME NEW count \in Nat, NEW i \in 0 .. count - 1,
           NEW t \in 0 .. ChunkLen(i, 12, count) - 1
    PROVE  /\ ChunkStart(i, 12) + t \in 0 .. count - 1
           /\ ChunkStart(ChunkStart(i, 12) + t, 12) = ChunkStart(i, 12)
           /\ ChunkLen(ChunkStart(i, 12) + t, 12, count) = ChunkLen(i, 12, count)
<1> DEFINE start == ChunkStart(i, 12)
           n == ChunkLen(i, 12, count)
<1>1. /\ start \in Nat /\ n \in 1 .. 12 /\ start + n <= count /\ (start % 12) = 0
  BY ChunkOfPosition
<1>2. start + t \in 0 .. count - 1
  BY <1>1
<1>3. ChunkStart(start + t, 12) = start
  <2>1. t \in 0 .. 11
    BY <1>1
  <2>2. (start + t) % 12 = t
    <3> HIDE DEF start
    <3> QED
      BY <1>1, <2>1
  <2> QED
    BY <1>1, <2>1, <2>2 DEF ChunkStart
<1>4. ChunkLen(start + t, 12, count) = n
  BY <1>3 DEF ChunkLen
<1> QED
  BY <1>2, <1>3, <1>4

\* The place a rotation takes a symbol from is the place its inverse puts it at.
LEMMA SourceOfTarget ==
    ASSUME NEW id \in Sectors, NEW count \in Nat, NEW i \in 0 .. count - 1
    PROVE  /\ SectorTarget(id, count, i) \in 0 .. count - 1
           /\ SectorSource(id, count, SectorTarget(id, count, i)) = i
<1> DEFINE start == ChunkStart(i, 12)
           n == ChunkLen(i, 12, count)
           o == i - start
           k == id - 8
           t == (o + n - (k % n)) % n
<1>1. /\ start \in 0 .. i /\ n \in 1 .. 12 /\ o \in 0 .. n - 1 /\ k \in 0 .. 11
  BY ChunkOfPosition DEF Sectors
<1>2. t \in 0 .. n - 1 /\ (t + k) % n = o
  <2> HIDE DEF start, n, o, k
  <2> QED
    BY <1>1, RotationInverts
<1>3. SectorTarget(id, count, i) = start + t
  BY DEF SectorTarget
<1> HIDE DEF t
<1>4. /\ start + t \in 0 .. count - 1
      /\ ChunkStart(start + t, 12) = start
      /\ ChunkLen(start + t, 12, count) = n
  BY <1>2, SameChunk
<1>5. SectorSource(id, count, start + t) = start + ((((start + t) - start) + k) % n)
  BY <1>4 DEF SectorSource
<1>6. (start + t) - start = t /\ start + o = i
  <2>1. start \in Int /\ t \in Int /\ i \in Int
    BY <1>1, <1>2
  <2> QED
    BY <2>1
<1> QED
  BY <1>2, <1>3, <1>4, <1>5, <1>6

\* invert_sector gives back what apply_sector was given: the short last chunk,
\* which rotates within its own length, is no exception.
THEOREM SectorsRestore ==
    ASSUME NEW S, NEW values \in Seq(S), NEW id \in Sectors
    PROVE  InvertSector(id, ApplySector(id, values)) = values
<1> DEFINE count == Len(values)
           view == ApplySector(id, values)
<1>1. count \in Nat /\ DOMAIN values = 1 .. count
  OBVIOUS
<1>2. view = [j \in 1 .. count |-> values[SectorSource(id, count, j - 1) + 1]]
  BY <1>1 DEF ApplySector, Gathered
<1>3. DOMAIN view = 1 .. count /\ Len(view) = count
  <2> HIDE DEF view
  <2> QED
    BY <1>1, <1>2
<1>4. InvertSector(id, view) = [j \in 1 .. count |-> view[SectorTarget(id, count, j - 1) + 1]]
  <2> HIDE DEF view
  <2> QED
    BY <1>3 DEF InvertSector, Gathered
<1>5. ASSUME NEW j \in 1 .. count
      PROVE  view[SectorTarget(id, count, j - 1) + 1] = values[j]
  <2> DEFINE target == SectorTarget(id, count, j - 1)
  <2>1. j - 1 \in 0 .. count - 1
    BY <1>1
  <2>2. target \in 0 .. count - 1 /\ SectorSource(id, count, target) = j - 1
    BY <1>1, <2>1, SourceOfTarget
  <2> HIDE DEF target, view
  <2>3. target + 1 \in 1 .. count /\ (target + 1) - 1 = target /\ (j - 1) + 1 = j
    BY <1>1, <2>2
  <2>4. view[target + 1] = values[SectorSource(id, count, (target + 1) - 1) + 1]
    BY <1>2, <2>3
  <2> QED
    BY <2>2, <2>3, <2>4 DEF target
<1>6. values = [j \in 1 .. count |-> values[j]]
  BY <1>1
<1> QED
  BY <1>4, <1>5, <1>6
-----------------------------------------------------------------------------
(* The archive. *)

Requests == [mode : Chain!AllModes, control : Chain!AllControls, passes : Nat]

\* What is encoded over what st has at the floor below.
Above(st, k) == Chain!Stage(request, FLOORS[k], st[k - 1].seed, st[k - 1].child)

Chained(st, n) ==
    /\ st[0].child = source /\ st[0].seed = Chain!GenesisOmega
    /\ \A k \in 1 .. n : st[k].child = Above(st, k) /\ st[k].seed = Chain!FloorOmega(Above(st, k))

OnChain(n) == \E st : /\ Chained(st, n)
                      /\ child = st[floor].child
                      /\ seed = st[floor].seed

TypeInv ==
    /\ chainPc \in {"encode", "decode", "done", "rejected"}
    /\ edits \in Nat
    /\ request \in Requests
    /\ floor \in 0 .. Len(FLOORS)
    /\ source.tag = "bytes"

EncodeInv ==
    chainPc = "encode" =>
        /\ OnChain(floor)
        /\ archive.outer = source
        /\ floor > 0 => ~Chain!Refused(request)

DecodeInv ==
    chainPc = "decode" =>
        /\ OnChain(Len(FLOORS))
        /\ ~Chain!Refused(request)
        /\ archive.length = source.size /\ archive.sha = Chain!Sha(source)

EndInv ==
    /\ chainPc = "rejected" => archive.outer = source
    /\ chainPc = "done" => child = source

\* Nothing is claimed of archives another program had a hand in.
IInv == TypeInv /\ (edits = 0 => EncodeInv /\ DecodeInv /\ EndInv)
-----------------------------------------------------------------------------
\* decode_stage accepts a stage and gives a byte string and a seed back.
Returns(stage, f, s, bytes) ==
    /\ Chain!Parses(stage) /\ Chain!CanDecode(stage)
    /\ stage.floor = f /\ stage.seed = s
    /\ Chain!Decoded(stage) = bytes
    /\ stage.decodedLen = bytes.size
    /\ stage.decodedSha = Chain!Sha(bytes)

\* A stage that encode_stage makes of a byte string passes every check of
\* decode_stage and gives the byte string back.
LEMMA StageDecodes ==
    ASSUME Chain!ChainAssumption, NEW r \in Requests, ~Chain!Refused(r), NEW k \in 1 .. Len(FLOORS),
           NEW s, NEW bytes, bytes.tag # "unfolded",
           NEW stage, stage = Chain!Stage(r, FLOORS[k], s, bytes)
    PROVE  Returns(stage, FLOORS[k], s, bytes)
<1> DEFINE key == Chain!Key(FLOORS[k], s, r.control)
<1>1. /\ stage.tag = "stage" /\ stage.floor = FLOORS[k] /\ stage.seed = s
      /\ stage.mode = r.mode /\ stage.control = r.control /\ stage.passes = r.passes
      /\ stage.decodedLen = bytes.size /\ stage.decodedSha = Chain!Sha(bytes)
      /\ stage.model = r.mode /\ stage.payload = Chain!Payload(r, FLOORS[k], s, bytes)
  BY DEF Chain!Stage
<1>2. /\ r.mode \in {"Raw", "Path3Hook"} /\ r.control \in Chain!AllControls
      /\ r.passes \in Nat /\ r.passes # 0
      /\ r.mode = "Path3Hook" => r.passes = 1
  BY DEF Requests, Chain!Refused, Chain!AllModes
<1>3. Chain!Parses(stage)
  <2>1. \E j \in DOMAIN FLOORS : FLOORS[k] = FLOORS[j]
    BY DEF Chain!ChainAssumption
  <2>2. r.mode \in Chain!AllModes /\ r.passes > 0
    BY <1>2 DEF Chain!AllModes
  <2> QED
    BY <1>1, <1>2, <2>1, <2>2 DEF Chain!Parses
<1>4. CASE r.mode = "Raw"
  <2>1. stage.payload = bytes
    BY <1>1, <1>4 DEF Chain!Payload
  <2> QED
    BY <1>1, <1>3, <1>4, <2>1 DEF Chain!CanDecode, Chain!Decoded, Returns
<1>5. CASE r.mode = "Path3Hook"
  <2>1. stage.payload = [tag |-> "p3", key |-> key, of |-> bytes, size |-> bytes.size + 1]
    BY <1>1, <1>5 DEF Chain!Payload, Chain!P3Encode
  <2>2. stage.payload.tag = "p3" /\ stage.payload.key = key /\ stage.payload.of = bytes
    BY <2>1
  <2>3. Chain!CanDecode(stage)
    BY <1>1, <1>2, <1>5, <2>2 DEF Chain!CanDecode
  <2>4. Chain!Decoded(stage) = Chain!P3Decode(key, stage.payload, bytes.size)
    BY <1>1, <1>5 DEF Chain!Decoded
  <2>5. Chain!Decoded(stage) = bytes
    BY <2>2, <2>4 DEF Chain!P3Decode
  <2> QED
    BY <1>1, <1>3, <2>3, <2>5 DEF Returns
<1> QED
  BY <1>2, <1>4, <1>5

\* What a chain has at any floor is the input or a stage.
LEMMA NeverUnfolded ==
    ASSUME TypeInv, NEW st, NEW n \in 0 .. Len(FLOORS), Chained(st, n), NEW k \in 0 .. n
    PROVE  st[k].child.tag # "unfolded"
<1>1. CASE k = 0
  BY <1>1 DEF Chained, TypeInv
<1>2. CASE k > 0
  <2>1. st[k].child = Above(st, k)
    BY <1>2 DEF Chained
  <2>2. Above(st, k).tag = "stage"
    BY DEF Above, Chain!Stage
  <2> QED
    BY <2>1, <2>2
<1> QED
  BY <1>1, <1>2
-----------------------------------------------------------------------------
LEMMA InitInv ==
    ASSUME Chain!ChainAssumption, Chain!Init
    PROVE  IInv
<1>1. request \in Requests
  BY DEF Chain!ChainAssumption, Chain!Init, Requests, Chain!AllModes, Chain!AllControls
<1>2. source.tag = "bytes"
  BY DEF Chain!Init, Chain!Bytes
<1>3. 0 \in 0 .. Len(FLOORS)
  BY DEF Chain!ChainAssumption
<1>4. OnChain(floor)
  <2> DEFINE st == [k \in {0} |-> [child |-> source, seed |-> Chain!GenesisOmega]]
  <2>1. st[0].child = source /\ st[0].seed = Chain!GenesisOmega
    OBVIOUS
  <2>2. floor = 0 /\ child = source /\ seed = Chain!GenesisOmega
    BY DEF Chain!Init
  <2>3. Chained(st, 0)
    BY <2>1 DEF Chained
  <2> HIDE DEF st
  <2> QED
    BY <2>1, <2>2, <2>3 DEF OnChain
<1>5. archive.outer = source
  BY DEF Chain!Init
<1> QED
  BY <1>1, <1>2, <1>3, <1>4, <1>5 DEF Chain!Init, IInv, TypeInv, EncodeInv, DecodeInv, EndInv

\* A chain read in another state is the same chain if input and request are.
LEMMA ChainKept ==
    ASSUME UNCHANGED <<request, source>>, NEW st, NEW n, Chained(st, n)
    PROVE  Chained(st, n)'
BY DEF Chained, Above

LEMMA EncodeFloorInv ==
    ASSUME Chain!ChainAssumption, IInv, Chain!EncodeFloor
    PROVE  IInv'
<1> USE DEF IInv
<1>1. /\ chainPc = "encode" /\ floor < Len(FLOORS) /\ Len(FLOORS) \in Nat /\ floor \in Nat
      /\ UNCHANGED <<edits, request, source, archive, headers>>
  BY DEF Chain!ChainAssumption, Chain!EncodeFloor, TypeInv
<1>2. CASE Chain!Refused(request)
  <2>1. chainPc' = "rejected" /\ UNCHANGED <<child, seed, floor>>
    BY <1>2 DEF Chain!EncodeFloor
  <2>2. TypeInv'
    BY <1>1, <2>1 DEF TypeInv
  <2> QED
    BY <1>1, <2>1, <2>2 DEF EncodeInv, DecodeInv, EndInv
<1>3. CASE ~Chain!Refused(request)
  <2>1. /\ child' = Chain!Stage(request, FLOORS[floor + 1], seed, child)
        /\ seed' = Chain!FloorOmega(child')
        /\ floor' = floor + 1 /\ chainPc' = "encode"
    BY <1>1, <1>3 DEF Chain!EncodeFloor
  <2>2. TypeInv'
    BY <1>1, <2>1 DEF TypeInv
  <2>3. ASSUME edits = 0 PROVE OnChain(floor)'
    <3>1. PICK st : Chained(st, floor) /\ child = st[floor].child /\ seed = st[floor].seed
      BY <1>1, <2>3 DEF EncodeInv, OnChain
    <3>2. PICK tt : /\ \A k \in 0 .. floor : tt[k] = st[k]
                    /\ tt[floor + 1] = [child |-> child', seed |-> seed']
      <4> DEFINE extended == [k \in 0 .. floor + 1 |->
                                 IF k <= floor THEN st[k] ELSE [child |-> child', seed |-> seed']]
      <4>1. /\ \A k \in 0 .. floor : extended[k] = st[k]
            /\ extended[floor + 1] = [child |-> child', seed |-> seed']
        BY <1>1
      <4> QED
        BY <4>1
    <3>3. tt[floor + 1].child = child' /\ tt[floor + 1].seed = seed'
      BY <3>2
    <3>4. child' = Above(tt, floor + 1)
      <4>1. (floor + 1) - 1 = floor /\ floor \in 0 .. floor
        BY <1>1
      <4> QED
        BY <2>1, <3>1, <3>2, <4>1 DEF Above
    <3>5. \A k \in 1 .. floor : Above(tt, k) = Above(st, k)
      <4> TAKE k \in 1 .. floor
      <4>1. k - 1 \in 0 .. floor
        BY <1>1
      <4> QED
        BY <3>2, <4>1 DEF Above
    <3>6. Chained(tt, floor + 1)
      <4>1. tt[0].child = source /\ tt[0].seed = Chain!GenesisOmega
        BY <1>1, <3>1, <3>2 DEF Chained
      <4>2. ASSUME NEW k \in 1 .. floor + 1
            PROVE  tt[k].child = Above(tt, k) /\ tt[k].seed = Chain!FloorOmega(Above(tt, k))
        <5>1. CASE k = floor + 1
          BY <2>1, <3>3, <3>4, <5>1
        <5>2. CASE k \in 1 .. floor
          <6>1. tt[k] = st[k]
            BY <1>1, <3>2, <5>2
          <6>2. st[k].child = Above(st, k) /\ st[k].seed = Chain!FloorOmega(Above(st, k))
            BY <3>1, <5>2 DEF Chained
          <6> QED
            BY <3>5, <5>2, <6>1, <6>2
        <5> QED
          BY <1>1, <5>1, <5>2
      <4> QED
        BY <4>1, <4>2 DEF Chained
    <3>7. Chained(tt, floor)'
      BY <1>1, <2>1, <3>6 DEF Chained, Above
    <3> QED
      BY <2>1, <3>3, <3>7 DEF OnChain
  <2>4. edits = 0 => archive.outer = source
    BY <1>1 DEF EncodeInv
  <2>5. ~Chain!Refused(request)'
    BY <1>1, <1>3 DEF Chain!Refused
  <2> QED
    BY <1>1, <2>1, <2>2, <2>3, <2>4, <2>5 DEF EncodeInv, DecodeInv, EndInv
<1> QED
  BY <1>2, <1>3

LEMMA ForeignFloorInv ==
    ASSUME Chain!ChainAssumption, IInv, Chain!ForeignFloor
    PROVE  IInv'
<1>1. /\ chainPc = "encode" /\ floor < Len(FLOORS) /\ floor \in Nat /\ Len(FLOORS) \in Nat
      /\ edits \in Nat /\ edits' = edits + 1 /\ floor' = floor + 1
      /\ UNCHANGED <<chainPc, request, source, archive, headers>>
  BY DEF Chain!ChainAssumption, IInv, TypeInv, Chain!ForeignFloor
<1>2. TypeInv'
  BY <1>1 DEF IInv, TypeInv
<1>3. edits' # 0
  BY <1>1
<1> QED
  BY <1>2, <1>3 DEF IInv

LEMMA FileInv ==
    ASSUME Chain!ChainAssumption, IInv, Chain!File
    PROVE  IInv'
<1>1. /\ chainPc = "encode" /\ chainPc' = "decode" /\ floor' = Len(FLOORS) /\ Len(FLOORS) \in Nat
      /\ Len(FLOORS) > 0 /\ UNCHANGED <<edits, request, source, child, seed, headers>>
  BY DEF Chain!ChainAssumption, Chain!File
<1>2. TypeInv'
  BY <1>1 DEF IInv, TypeInv
<1>3. ASSUME edits = 0
      PROVE  /\ OnChain(Len(FLOORS))' /\ ~Chain!Refused(request)'
             /\ archive'.length = source'.size /\ archive'.sha = Chain!Sha(source)'
  <2>1. floor = Len(FLOORS)
    BY <1>3 DEF Chain!File
  <2>2. OnChain(floor) /\ ~Chain!Refused(request)
    BY <1>1, <1>3, <2>1 DEF IInv, EncodeInv
  <2>3. PICK st : /\ Chained(st, Len(FLOORS))
                  /\ child = st[floor].child /\ seed = st[floor].seed
    BY <2>1, <2>2 DEF OnChain
  <2>4. Chained(st, Len(FLOORS))'
    BY <1>1, <2>3 DEF Chained, Above
  <2>5. OnChain(Len(FLOORS))'
    BY <1>1, <2>1, <2>3, <2>4 DEF OnChain
  <2>6. archive' = [length |-> source.size, sha |-> Chain!Sha(source), omega |-> seed, outer |-> child]
    BY <1>3 DEF Chain!File
  <2>7. archive'.length = source.size /\ archive'.sha = Chain!Sha(source)
    BY <2>6
  <2>8. ~Chain!Refused(request)'
    BY <1>1, <2>2 DEF Chain!Refused
  <2> QED
    BY <1>1, <2>5, <2>7, <2>8 DEF Chain!Sha
<1> QED
  BY <1>1, <1>2, <1>3 DEF IInv, EncodeInv, DecodeInv, EndInv

\* Every turn of decode_file on an archive of encode_file accepts its stage and
\* goes one floor down the chain.
LEMMA DecodeFloorInv ==
    ASSUME Chain!ChainAssumption, IInv, Chain!DecodeFloor
    PROVE  IInv'
<1>1. /\ chainPc = "decode" /\ floor > 0 /\ floor \in 1 .. Len(FLOORS) /\ Len(FLOORS) \in Nat
      /\ UNCHANGED <<edits, request, source, archive>>
      /\ chainPc' \in {"decode", "rejected"} /\ floor' \in {floor, floor - 1}
  BY DEF Chain!ChainAssumption, IInv, TypeInv, Chain!DecodeFloor
<1>2. TypeInv'
  BY <1>1 DEF IInv, TypeInv
<1>3. ASSUME edits = 0
      PROVE  chainPc' = "decode" /\ OnChain(Len(FLOORS))'
  <2>1. OnChain(Len(FLOORS)) /\ ~Chain!Refused(request) /\ request \in Requests
    BY <1>1, <1>3 DEF IInv, DecodeInv, TypeInv
  <2>2. PICK st : /\ Chained(st, Len(FLOORS))
                  /\ child = st[floor].child /\ seed = st[floor].seed
    BY <2>1 DEF OnChain
  <2> DEFINE below == st[floor - 1].child
  <2>3. child = Chain!Stage(request, FLOORS[floor], st[floor - 1].seed, below)
    BY <1>1, <2>2 DEF Chained, Above
  <2>4. seed = Chain!FloorOmega(child)
    BY <1>1, <2>2 DEF Chained
  <2>5. floor - 1 \in 0 .. Len(FLOORS) /\ Len(FLOORS) \in 0 .. Len(FLOORS)
    BY <1>1
  <2>6. below.tag # "unfolded"
    BY <2>2, <2>5, NeverUnfolded DEF IInv
  <2>7. Returns(child, FLOORS[floor], st[floor - 1].seed, below)
    <3> HIDE DEF below
    <3> QED
      BY <1>1, <2>1, <2>3, <2>6, StageDecodes
  <2>8. /\ child' = below /\ seed' = st[floor - 1].seed
        /\ floor' = floor - 1 /\ chainPc' = "decode"
    BY <1>1, <2>4, <2>7 DEF Chain!DecodeFloor, Returns
  <2>9. Chained(st, Len(FLOORS))'
    BY <1>1, <2>2 DEF Chained, Above
  <2> QED
    BY <2>8, <2>9 DEF OnChain
<1>4. ~Chain!Refused(request)' <=> ~Chain!Refused(request)
  BY <1>1 DEF Chain!Refused
<1>5. Chain!Sha(source)' = Chain!Sha(source)
  BY <1>1 DEF Chain!Sha
<1> QED
  BY <1>1, <1>2, <1>3, <1>4, <1>5 DEF IInv, EncodeInv, DecodeInv, EndInv

LEMMA DecodeEndInv ==
    ASSUME Chain!ChainAssumption, IInv, Chain!DecodeEnd
    PROVE  IInv'
<1>1. /\ chainPc = "decode" /\ floor = 0 /\ chainPc' \in {"done", "rejected"}
      /\ UNCHANGED <<edits, request, source, child, seed, floor, archive, headers>>
  BY DEF Chain!DecodeEnd
<1>2. TypeInv'
  BY <1>1 DEF IInv, TypeInv
<1>3. ASSUME edits = 0
      PROVE  chainPc' = "done" /\ child = source
  <2>1. /\ OnChain(Len(FLOORS))
        /\ archive.length = source.size /\ archive.sha = Chain!Sha(source)
    BY <1>1, <1>3 DEF IInv, DecodeInv
  <2>2. child = source /\ seed = Chain!GenesisOmega
    BY <1>1, <2>1 DEF OnChain, Chained
  <2> QED
    BY <2>1, <2>2 DEF Chain!DecodeEnd
<1> QED
  BY <1>1, <1>2, <1>3 DEF IInv, EncodeInv, DecodeInv, EndInv

LEMMA StutterInv ==
    ASSUME IInv, UNCHANGED Chain!vars
    PROVE  IInv'
<1>1. UNCHANGED <<chainPc, edits, request, source, child, seed, floor, archive, headers>>
  BY DEF Chain!vars
<1>2. TypeInv'
  BY <1>1 DEF IInv, TypeInv
<1>3. OnChain(floor) => OnChain(floor)'
  BY <1>1 DEF OnChain, Chained, Above
<1>4. OnChain(Len(FLOORS)) => OnChain(Len(FLOORS))'
  BY <1>1 DEF OnChain, Chained, Above
<1>5. /\ Chain!Refused(request)' <=> Chain!Refused(request)
      /\ Chain!Sha(source)' = Chain!Sha(source)
  BY <1>1 DEF Chain!Refused, Chain!Sha
<1> QED
  BY <1>1, <1>2, <1>3, <1>4, <1>5 DEF IInv, EncodeInv, DecodeInv, EndInv

LEMMA NextInv ==
    ASSUME Chain!ChainAssumption, IInv, [Chain!Next]_(Chain!vars)
    PROVE  IInv'
BY EncodeFloorInv, ForeignFloorInv, FileInv, DecodeFloorInv, DecodeEndInv, StutterInv DEF Chain!Next

LEMMA CodecInvInit == ASSUME CodecInit PROVE ChainIdle \/ IInv
BY ArchiveAssumption, InitInv DEF CodecInit, ChainAtStart, ChainIdle

LEMMA CodecInvNext ==
    ASSUME ChainIdle \/ IInv, [CodecNext]_<<vars, chainVars>>
    PROVE  (ChainIdle \/ IInv)'
<1>1. CASE ChainIdle /\ (UNCHANGED chainVars \/ CodecNext)
  BY <1>1 DEF ChainIdle, CodecNext, chainVars
<1>2. CASE ~ChainIdle /\ CodecNext
  BY <1>2, ArchiveAssumption, NextInv DEF CodecNext
<1>3. CASE ~ChainIdle /\ UNCHANGED chainVars
  BY <1>3, ArchiveAssumption, NextInv DEF chainVars, Chain!vars
<1> QED
  BY <1>1, <1>2, <1>3

LEMMA InvImplies == ChainIdle \/ IInv => WrittenIsRestored
BY DEF IInv, EndInv, WrittenIsRestored, ChainIdle, Chain!WrittenIsRestored

\* No archive that pack of the hyper codec has written is ever refused, and
\* decoding it gives the input back.
THEOREM WrittenRestored == CodecSpec => []WrittenIsRestored
<1>1. CodecInit => ChainIdle \/ IInv
  BY CodecInvInit
<1>2. (ChainIdle \/ IInv) /\ [CodecNext]_<<vars, chainVars>> => (ChainIdle \/ IInv)'
  BY CodecInvNext
<1> QED
  BY <1>1, <1>2, InvImplies, PTL DEF CodecSpec
-----------------------------------------------------------------------------

\* A stage has the fields encode_stage writes and no others.
StageFields(s) ==
    s = [tag |-> "stage", floor |-> s.floor, mode |-> s.mode, control |-> s.control,
         passes |-> s.passes, decodedLen |-> s.decodedLen, seed |-> s.seed,
         decodedSha |-> s.decodedSha, model |-> s.model, payload |-> s.payload, size |-> s.size]

Fitting(s) == s.size = s.payload.size + 1

\* A payload of the input in place of the stage below, of another length than is
\* said: it decodes to nothing, or to what is no stage.
Torn(s, below) ==
    /\ below.tag = "stage"
    /\ IF s.mode = "Raw" THEN s.payload.size # s.decodedLen
                         ELSE s.payload.tag = "p3" => s.payload.of.size # s.decodedLen

PayloadOf(coded, below) ==
    \/ coded = below \/ coded = source
    \/ \E key : \E bytes \in {below, source} :
          coded = [tag |-> "p3", key |-> key, of |-> bytes, size |-> bytes.size + 1]

\* What any program at hand wraps around a byte string.
Over(s, below) ==
    /\ StageFields(s) /\ s.passes \in Nat
    /\ PayloadOf(s.payload, below)
    /\ Fitting(s) \/ Torn(s, below)

\* From the input up, each stage over the one below.
Layered(st, n) ==
    /\ st[0] = source
    /\ \A k \in 1 .. n : Over(st[k], st[k - 1])

\* What an archive may hold of at most n floors.
Known(v, n) == \E k \in 0 .. n : \E st : Layered(st, k) /\ v = st[k]

LEMMA KnownKept ==
    ASSUME UNCHANGED source, NEW v, NEW n, Known(v, n)
    PROVE  Known(v, n)'
BY DEF Known, Layered, Over, PayloadOf

LEMMA SourceKnown ==
    ASSUME NEW n \in Nat
    PROVE  Known(source, n)
<1>1. PICK st : st = [k \in {0} |-> source]
  OBVIOUS
<1>2. Layered(st, 0) /\ st[0] = source /\ 0 \in 0 .. n
  BY <1>1 DEF Layered
<1> QED
  BY <1>2 DEF Known

LEMMA OverKnown ==
    ASSUME NEW m \in Nat, NEW below, Known(below, m), NEW v, Over(v, below)
    PROVE  Known(v, m + 1)
<1>a. PICK n \in 0 .. m : \E st : Layered(st, n) /\ below = st[n]
  BY DEF Known
<1>1. PICK st : Layered(st, n) /\ below = st[n]
  BY <1>a
<1>2. PICK tt : tt = [k \in 0 .. n + 1 |-> IF k <= n THEN st[k] ELSE v]
  OBVIOUS
<1>3. tt[n + 1] = v /\ \A k \in 0 .. n : tt[k] = st[k]
  BY <1>2
<1>4. ASSUME NEW k \in 1 .. n + 1 PROVE Over(tt[k], tt[k - 1])
  <2>1. CASE k = n + 1
    <3>1. k - 1 = n /\ n \in 0 .. n
      BY <2>1
    <3> QED
      BY <1>1, <1>3, <2>1, <3>1
  <2>2. CASE k \in 1 .. n
    <3>1. k \in 0 .. n /\ k - 1 \in 0 .. n
      BY <2>2
    <3> QED
      BY <1>1, <1>3, <2>2, <3>1 DEF Layered
  <2> QED
    BY <2>1, <2>2
<1>5. Layered(tt, n + 1) /\ n + 1 \in 0 .. m + 1
  BY <1>1, <1>3, <1>4 DEF Layered
<1> QED
  BY <1>3, <1>5 DEF Known

LEMMA KnownOver ==
    ASSUME source.tag = "bytes", NEW m \in Nat, NEW v, Known(v, m)
    PROVE  \/ v = source
           \/ /\ m # 0 /\ v.tag = "stage"
              /\ \E below : /\ Known(below, m - 1) /\ Over(v, below)
                            /\ below.tag = "stage" => m > 1
<1>a. PICK n \in 0 .. m : \E st : Layered(st, n) /\ v = st[n]
  BY DEF Known
<1>1. PICK st : Layered(st, n) /\ v = st[n]
  BY <1>a
<1>2. CASE n = 0
  BY <1>1, <1>2 DEF Layered
<1>3. CASE n # 0
  <2>1. n \in 1 .. n /\ n - 1 \in 0 .. m - 1 /\ m # 0 /\ \A k \in 1 .. n - 1 : k \in 1 .. n
    BY <1>3
  <2>2. Over(v, st[n - 1])
    BY <1>1, <2>1 DEF Layered
  <2>3. Layered(st, n - 1)
    BY <1>1, <2>1 DEF Layered
  <2>4. Known(st[n - 1], m - 1)
    BY <2>1, <2>3 DEF Known
  <2>5. v.tag = "stage"
    BY <2>2 DEF Over, StageFields
  <2>6. n = 1 => st[n - 1].tag = "bytes"
    BY <2>3 DEF Layered
  <2>7. n # 1 => m > 1
    BY <2>1
  <2> QED
    BY <2>1, <2>2, <2>4, <2>5, <2>6, <2>7
<1> QED
  BY <1>2, <1>3

LEMMA KnownTags ==
    ASSUME source.tag = "bytes", NEW m \in Nat, NEW v, Known(v, m)
    PROVE  v.tag \in {"bytes", "stage"} /\ (v = source \/ v.tag = "stage")
BY KnownOver
-----------------------------------------------------------------------------
LEMMA StageOver ==
    ASSUME NEW r \in Requests, NEW f, NEW s, NEW below, below.tag # "unfolded",
           NEW stage, stage = Chain!Stage(r, f, s, below)
    PROVE  Over(stage, below) /\ Fitting(stage)
<1>1. PICK coded : coded = Chain!Payload(r, f, s, below)
  OBVIOUS
<1>2. stage = [tag |-> "stage", floor |-> f, mode |-> r.mode, control |-> r.control,
        passes |-> r.passes, decodedLen |-> below.size, seed |-> s,
        decodedSha |-> Chain!Sha(below), model |-> r.mode, payload |-> coded,
        size |-> coded.size + 1]
  BY <1>1 DEF Chain!Stage
<1>3. StageFields(stage)
  BY <1>2 DEF StageFields
<1>4. stage.passes = r.passes /\ stage.payload = coded /\ stage.size = coded.size + 1
  BY <1>2
<1>5. PayloadOf(coded, below)
  BY <1>1 DEF PayloadOf, Chain!Payload, Chain!P3Encode
<1>6. r.passes \in Nat
  BY DEF Requests
<1> QED
  BY <1>3, <1>4, <1>5, <1>6 DEF Over, Fitting

\* Whatever else is changed, a stage keeps its size and payload.
LEMMA OverToo ==
    ASSUME NEW s, NEW below, Over(s, below), Fitting(s), NEW t, StageFields(t), t.passes \in Nat,
           t.payload = s.payload, t.size = s.size
    PROVE  Over(t, below)
BY DEF Over, Fitting

LEMMA EditOver ==
    ASSUME NEW s, NEW below, Over(s, below), Fitting(s), NEW g, NEW h, NEW n \in Nat
    PROVE  /\ Over([s EXCEPT !.floor = g], below)
           /\ Over([s EXCEPT !.mode = g, !.model = h], below)
           /\ Over([s EXCEPT !.control = g], below)
           /\ Over([s EXCEPT !.passes = n], below)
           /\ Over([s EXCEPT !.decodedLen = g], below)
           /\ Over([s EXCEPT !.seed = g], below)
<1>1. StageFields(s) /\ s.passes \in Nat
  BY DEF Over
<1>2. Over([s EXCEPT !.floor = g], below)
  <2>1. PICK t : t = [s EXCEPT !.floor = g]
    OBVIOUS
  <2>2. StageFields(t) /\ t.passes \in Nat /\ t.payload = s.payload /\ t.size = s.size
    BY <1>1, <2>1 DEF StageFields
  <2> QED
    BY <2>1, <2>2, OverToo
<1>3. Over([s EXCEPT !.mode = g, !.model = h], below)
  <2>1. PICK u : u = [s EXCEPT !.mode = g]
    OBVIOUS
  <2>2. StageFields(u) /\ u.passes \in Nat /\ u.payload = s.payload /\ u.size = s.size
    BY <1>1, <2>1 DEF StageFields
  <2>3. PICK t : t = [u EXCEPT !.model = h]
    OBVIOUS
  <2>4. StageFields(t) /\ t.passes \in Nat /\ t.payload = s.payload /\ t.size = s.size
    BY <2>2, <2>3 DEF StageFields
  <2>5. t = [s EXCEPT !.mode = g, !.model = h]
    BY <2>1, <2>3, Zenon
  <2> QED
    BY <2>4, <2>5, OverToo
<1>4. Over([s EXCEPT !.control = g], below)
  <2>1. PICK t : t = [s EXCEPT !.control = g]
    OBVIOUS
  <2>2. StageFields(t) /\ t.passes \in Nat /\ t.payload = s.payload /\ t.size = s.size
    BY <1>1, <2>1 DEF StageFields
  <2> QED
    BY <2>1, <2>2, OverToo
<1>5. Over([s EXCEPT !.passes = n], below)
  <2>1. PICK t : t = [s EXCEPT !.passes = n]
    OBVIOUS
  <2>2. StageFields(t) /\ t.passes \in Nat /\ t.payload = s.payload /\ t.size = s.size
    BY <1>1, <2>1 DEF StageFields
  <2> QED
    BY <2>1, <2>2, OverToo
<1>6. Over([s EXCEPT !.decodedLen = g], below)
  <2>1. PICK t : t = [s EXCEPT !.decodedLen = g]
    OBVIOUS
  <2>2. StageFields(t) /\ t.passes \in Nat /\ t.payload = s.payload /\ t.size = s.size
    BY <1>1, <2>1 DEF StageFields
  <2> QED
    BY <2>1, <2>2, OverToo
<1>7. Over([s EXCEPT !.seed = g], below)
  <2>1. PICK t : t = [s EXCEPT !.seed = g]
    OBVIOUS
  <2>2. StageFields(t) /\ t.passes \in Nat /\ t.payload = s.payload /\ t.size = s.size
    BY <1>1, <2>1 DEF StageFields
  <2> QED
    BY <2>1, <2>2, OverToo
<1> QED
  BY <1>2, <1>3, <1>4, <1>5, <1>6, <1>7

\* Another payload, with the hash of what it decodes to.
LEMMA PayloadEditOver ==
    ASSUME source.tag = "bytes", NEW r \in Requests, NEW f, NEW x, NEW below,
           below = source \/ below.tag = "stage",
           NEW s, s = Chain!Stage(r, f, x, below),
           NEW y, NEW bytes \in {below, source}, NEW coded, coded = Chain!Payload(s, s.floor, y, bytes),
           NEW hash
    PROVE  Over([s EXCEPT !.decodedSha = hash, !.payload = coded], below)
<1>1. Over(s, below) /\ Fitting(s)
  BY StageOver
<1>2. StageFields(s) /\ s.passes \in Nat
  BY <1>1 DEF Over
<1>3. /\ s.mode = r.mode /\ s.control = r.control /\ s.decodedLen = below.size
      /\ s.payload = Chain!Payload(r, f, x, below)
  BY DEF Chain!Stage
<1>4. PICK u : u = [s EXCEPT !.decodedSha = hash]
  OBVIOUS
<1>5. /\ StageFields(u) /\ u.passes \in Nat /\ u.size = s.size /\ u.mode = s.mode
      /\ u.decodedLen = s.decodedLen
  BY <1>2, <1>4 DEF StageFields
<1>6. PICK t : t = [u EXCEPT !.payload = coded]
  OBVIOUS
<1>7. /\ StageFields(t) /\ t.passes \in Nat /\ t.size = s.size /\ t.mode = s.mode
      /\ t.decodedLen = s.decodedLen /\ t.payload = coded
  BY <1>5, <1>6 DEF StageFields
<1>8. t = [s EXCEPT !.decodedSha = hash, !.payload = coded]
  BY <1>4, <1>6, Zenon
<1>9. bytes.tag # "unfolded" /\ below.tag # "unfolded"
  OBVIOUS
<1>10. CASE r.mode = "Raw"
  <2>1. coded = bytes /\ s.payload = below
    BY <1>3, <1>10 DEF Chain!Payload
  <2>2. PayloadOf(coded, below)
    BY <2>1 DEF PayloadOf
  <2>3. Fitting(t) \/ Torn(t, below)
    BY <1>1, <1>3, <1>7, <1>10, <2>1 DEF Fitting, Torn
  <2> QED
    BY <1>7, <1>8, <2>2, <2>3 DEF Over
<1>11. CASE r.mode # "Raw"
  <2>1. PICK k1, k2 :
          /\ coded = [tag |-> "p3", key |-> k1, of |-> bytes, size |-> bytes.size + 1]
          /\ s.payload = [tag |-> "p3", key |-> k2, of |-> below, size |-> below.size + 1]
    <3>1. PICK k1 : k1 = Chain!Key(s.floor, y, s.control)
      OBVIOUS
    <3>2. PICK k2 : k2 = Chain!Key(f, x, r.control)
      OBVIOUS
    <3> QED
      BY <1>3, <1>9, <1>11, <3>1, <3>2 DEF Chain!Payload, Chain!P3Encode
  <2>2. PayloadOf(coded, below)
    BY <2>1 DEF PayloadOf
  <2>3. /\ coded.size = bytes.size + 1 /\ coded.of = bytes /\ coded.tag = "p3"
        /\ s.payload.size = below.size + 1
    BY <2>1
  <2>4. Fitting(t) \/ Torn(t, below)
    BY <1>1, <1>3, <1>7, <1>11, <2>3 DEF Fitting, Torn
  <2> QED
    BY <1>7, <1>8, <2>2, <2>4 DEF Over
<1> QED
  BY <1>10, <1>11

\* The stages another program may have made of one of the code's.
Changed(z, t) ==
    \/ \E g : t = [z EXCEPT !.floor = g]
    \/ \E pair : t = [z EXCEPT !.mode = pair[1], !.model = pair[2]]
    \/ \E g : t = [z EXCEPT !.control = g]
    \/ \E n \in Nat : t = [z EXCEPT !.passes = n]
    \/ t = [z EXCEPT !.decodedLen = z.decodedLen + 1]
    \/ \E g : t = [z EXCEPT !.seed = g]
    \/ \E p \in {q \in {Chain!Payload(z, z.floor, Chain!GenesisOmega, child),
                      Chain!Payload(z, z.floor, z.seed, source)} :
                  q.tag = "p3" \/ z.mode = "Raw"} :
          t = [z EXCEPT !.decodedSha = Chain!Sha(Chain!Decoded([z EXCEPT !.payload = p])),
                        !.payload = p]

LEMMA EditedIsChanged ==
    ASSUME NEW z, NEW t \in Chain!Edited(z)
    PROVE  Changed(z, t)
BY Zenon DEF Chain!Edited, Changed

LEMMA EditedOver ==
    ASSUME source.tag = "bytes", request \in Requests, child = source \/ child.tag = "stage",
           NEW f, NEW t \in Chain!Edited(Chain!Stage(request, f, seed, child))
    PROVE  Over(t, child)
<1>1. PICK s : s = Chain!Stage(request, f, seed, child)
  OBVIOUS
<1>3. Over(s, child) /\ Fitting(s)
  BY <1>1, StageOver
<1>4. /\ \A g : Over([s EXCEPT !.floor = g], child)
      /\ \A g, h : Over([s EXCEPT !.mode = g, !.model = h], child)
      /\ \A g : Over([s EXCEPT !.control = g], child)
      /\ \A n \in Nat : Over([s EXCEPT !.passes = n], child)
      /\ \A g : Over([s EXCEPT !.decodedLen = g], child)
      /\ \A g : Over([s EXCEPT !.seed = g], child)
  <2>1. ASSUME NEW g, NEW h, NEW n \in Nat
        PROVE  /\ Over([s EXCEPT !.floor = g], child)
               /\ Over([s EXCEPT !.mode = g, !.model = h], child)
               /\ Over([s EXCEPT !.control = g], child)
               /\ Over([s EXCEPT !.passes = n], child)
               /\ Over([s EXCEPT !.decodedLen = g], child)
               /\ Over([s EXCEPT !.seed = g], child)
    BY <1>3, EditOver
  <2>2. 0 \in Nat
    OBVIOUS
  <2> QED
    BY <2>1, <2>2
<1>5. ASSUME NEW y, NEW bytes \in {child, source}, NEW coded,
             coded = Chain!Payload(s, s.floor, y, bytes), NEW hash
      PROVE  Over([s EXCEPT !.decodedSha = hash, !.payload = coded], child)
  BY <1>1, <1>5, PayloadEditOver
<1>6. Changed(s, t)
  BY <1>1, EditedIsChanged
<1>7. CASE \E g : t = [s EXCEPT !.floor = g]
  BY <1>4, <1>7
<1>8. CASE \E pair : t = [s EXCEPT !.mode = pair[1], !.model = pair[2]]
  <2>1. PICK pair : t = [s EXCEPT !.mode = pair[1], !.model = pair[2]]
    BY <1>8
  <2>2. PICK g, h : g = pair[1] /\ h = pair[2]
    OBVIOUS
  <2>3. Over([s EXCEPT !.mode = g, !.model = h], child)
    BY <1>4, Zenon
  <2> QED
    BY <2>1, <2>2, <2>3, Zenon
<1>9. CASE \/ \E g : t = [s EXCEPT !.control = g]
           \/ \E n \in Nat : t = [s EXCEPT !.passes = n]
  BY <1>4, <1>9
<1>10. CASE t = [s EXCEPT !.decodedLen = s.decodedLen + 1]
  <2>1. PICK g : g = s.decodedLen + 1
    OBVIOUS
  <2>2. t = [s EXCEPT !.decodedLen = g]
    BY <1>10, <2>1, Zenon
  <2> QED
    BY <1>4, <2>2
<1>11. CASE \E g : t = [s EXCEPT !.seed = g]
  BY <1>4, <1>11
<1>12. CASE \E p \in {q \in {Chain!Payload(s, s.floor, Chain!GenesisOmega, child),
                          Chain!Payload(s, s.floor, s.seed, source)} :
                      q.tag = "p3" \/ s.mode = "Raw"} :
              t = [s EXCEPT !.decodedSha = Chain!Sha(Chain!Decoded([s EXCEPT !.payload = p])),
                            !.payload = p]
  <2>1. PICK p, y : /\ \E bytes \in {child, source} : p = Chain!Payload(s, s.floor, y, bytes)
                    /\ t = [s EXCEPT !.decodedSha =
                               Chain!Sha(Chain!Decoded([s EXCEPT !.payload = p])), !.payload = p]
    BY <1>12
  <2>2. PICK hash : hash = Chain!Sha(Chain!Decoded([s EXCEPT !.payload = p]))
    OBVIOUS
  <2>3. t = [s EXCEPT !.decodedSha = hash, !.payload = p]
    BY <2>1, <2>2, Zenon
  <2>4. PICK bytes \in {child, source} : p = Chain!Payload(s, s.floor, y, bytes)
    BY <2>1
  <2>5. Over([s EXCEPT !.decodedSha = hash, !.payload = p], child)
    BY <1>5, <2>4
  <2> QED
    BY <2>3, <2>5, Zenon
<1> QED
  BY <1>6, <1>7, <1>8, <1>9, <1>10, <1>11, <1>12 DEF Changed
-----------------------------------------------------------------------------
\* What decode_file has seen of a stage.
HeaderOf(v) == [mode |-> v.mode, control |-> v.control, passes |-> v.passes]

Accepts(v, s) ==
    /\ Chain!Parses(v) /\ Chain!CanDecode(v)
    /\ Chain!Decoded(v).size = v.decodedLen
    /\ Chain!Sha(Chain!Decoded(v)) = v.decodedSha
    /\ Chain!FloorOmega(v) = s

\* encode_stage, asked for what the header says, makes a stage it accepts of
\* what it decodes to.
LEMMA AcceptedIsRewritten ==
    ASSUME NEW v, StageFields(v), v.passes \in Nat, Fitting(v), NEW s, Accepts(v, s),
           NEW below, PayloadOf(v.payload, below), below.tag \in {"bytes", "stage"}, source.tag = "bytes"
    PROVE  /\ HeaderOf(v) \in Requests
           /\ v = Chain!Stage(HeaderOf(v), v.floor, v.seed, Chain!Decoded(v))
<1>1. PICK bytes : bytes = Chain!Decoded(v)
  OBVIOUS
<1>2. /\ v.mode \in Chain!AllModes /\ v.control \in Chain!AllControls /\ v.model = v.mode
      /\ v.mode \in {"Raw", "Path3Hook"} /\ bytes.size = v.decodedLen
      /\ v.decodedSha = Chain!Sha(bytes) /\ Chain!CanDecode(v)
  BY <1>1 DEF Accepts, Chain!Parses, Chain!CanDecode
<1>3. /\ HeaderOf(v).mode = v.mode /\ HeaderOf(v).control = v.control
      /\ HeaderOf(v).passes = v.passes
  BY DEF HeaderOf
<1>4. v.payload = Chain!Payload(HeaderOf(v), v.floor, v.seed, bytes)
  <2>1. CASE v.mode = "Raw"
    BY <1>1, <1>3, <2>1 DEF Chain!Decoded, Chain!Payload
  <2>2. CASE v.mode # "Raw"
    <3>1. PICK key : key = Chain!Key(v.floor, v.seed, v.control)
      OBVIOUS
    <3>2. v.payload.tag = "p3"
      BY <1>2, <2>2 DEF Chain!CanDecode
    <3>3. bytes = Chain!P3Decode(key, v.payload, v.decodedLen)
      BY <1>1, <2>2, <3>1 DEF Chain!Decoded
    <3>4. Chain!Payload(HeaderOf(v), v.floor, v.seed, bytes) = Chain!P3Encode(key, bytes)
      BY <1>3, <2>2, <3>1 DEF Chain!Payload
    <3>5. CASE v.payload.key = key /\ v.payload.of.size = v.decodedLen
      <4>1. bytes = v.payload.of
        BY <3>3, <3>5 DEF Chain!P3Decode
      <4>2. PICK k : \E of \in {below, source} :
                 v.payload = [tag |-> "p3", key |-> k, of |-> of, size |-> of.size + 1]
        <5>1. v.payload # source /\ v.payload # below
          BY <3>2
        <5>2. v.payload = below \/ \E k : \E of \in {below, source} :
                 v.payload = [tag |-> "p3", key |-> k, of |-> of, size |-> of.size + 1]
          BY <5>1 DEF PayloadOf
        <5> QED
          BY <5>1, <5>2
      <4>3. PICK of \in {below, source} :
                 v.payload = [tag |-> "p3", key |-> k, of |-> of, size |-> of.size + 1]
        BY <4>2
      <4>4. k = key /\ of = bytes /\ bytes.tag # "unfolded"
        BY <3>5, <4>1, <4>3
      <4> QED
        BY <3>4, <4>3, <4>4 DEF Chain!P3Encode
    <3>6. CASE ~(v.payload.key = key /\ v.payload.of.size = v.decodedLen)
      <4>1. bytes = [tag |-> "unfolded", key |-> key, payload |-> v.payload,
                      size |-> v.decodedLen]
        BY <3>3, <3>6 DEF Chain!P3Decode
      <4>2. bytes.tag = "unfolded" /\ bytes.key = key /\ bytes.payload = v.payload
        BY <4>1
      <4> QED
        BY <3>4, <4>2 DEF Chain!P3Encode
    <3> QED
      BY <3>5, <3>6
  <2> QED
    BY <2>1, <2>2
<1>5. HeaderOf(v) \in Requests
  BY <1>2 DEF HeaderOf, Requests
<1>6. Chain!Stage(HeaderOf(v), v.floor, v.seed, bytes)
        = [tag |-> "stage", floor |-> v.floor, mode |-> v.mode, control |-> v.control,
           passes |-> v.passes, decodedLen |-> bytes.size, seed |-> v.seed,
           decodedSha |-> Chain!Sha(bytes), model |-> v.mode, payload |-> v.payload,
           size |-> v.payload.size + 1]
  BY <1>3, <1>4 DEF Chain!Stage
<1>7. v = [tag |-> "stage", floor |-> v.floor, mode |-> v.mode, control |-> v.control,
           passes |-> v.passes, decodedLen |-> bytes.size, seed |-> v.seed,
           decodedSha |-> Chain!Sha(bytes), model |-> v.mode, payload |-> v.payload,
           size |-> v.payload.size + 1]
  BY <1>2, Zenon DEF StageFields, Fitting
<1> QED
  BY <1>1, <1>5, <1>6, <1>7
-----------------------------------------------------------------------------
\* tt goes from what is decoded now up to the file, each stage as encode_stage
\* makes it of the one below and of the header decode_file has seen.
Written(tt, h, f) ==
    /\ tt[Len(FLOORS)].child = archive.outer /\ tt[Len(FLOORS)].seed = archive.omega
    /\ tt[f].child = child /\ tt[f].seed = seed
    /\ \A k \in f + 1 .. Len(FLOORS) :
          /\ tt[k].child = Chain!Stage(h[k - f], FLOORS[k], tt[k - 1].seed, tt[k - 1].child)
          /\ tt[k].seed = Chain!FloorOmega(tt[k].child)

Reported ==
    /\ headers \in Seq(Requests) /\ Len(headers) = Len(FLOORS) - floor
    /\ \E tt : Written(tt, headers, floor)

HeaderOnly ==
    archive = [length |-> archive.length, sha |-> archive.sha, omega |-> archive.omega,
               outer |-> archive.outer]

\* What is to be decoded next is no stage: the file will be refused.
Doomed == floor > 0 /\ child.tag # "stage"

AcceptInv ==
    /\ TypeInv
    /\ chainPc = "encode" => Known(child, floor) /\ headers = <<>>
    /\ chainPc = "decode" =>
          /\ HeaderOnly
          /\ Doomed \/ (Reported /\ (floor = 0 \/ Known(child, floor)))
    /\ chainPc = "done" =>
          /\ HeaderOnly /\ floor = 0 /\ Reported
          /\ seed = Chain!GenesisOmega
          /\ child.size = archive.length /\ Chain!Sha(child) = archive.sha

LEMMA Prepended ==
    ASSUME NEW S, NEW h \in S, NEW t \in Seq(S)
    PROVE  /\ <<h>> \o t \in Seq(S) /\ Len(<<h>> \o t) = Len(t) + 1
           /\ (<<h>> \o t)[1] = h /\ \A k \in 1 .. Len(t) : (<<h>> \o t)[k + 1] = t[k]
<1>1. <<h>> \in Seq(S) /\ Len(<<h>>) = 1 /\ <<h>>[1] = h
  OBVIOUS
<1> QED
  BY <1>1

\* A stage that is accepted and fits is one more of the tower.
LEMMA ReportGrows ==
    ASSUME Chain!ChainAssumption, floor \in 1 .. Len(FLOORS), Reported,
           NEW h \in Requests, child = Chain!Stage(h, FLOORS[floor], seed', child'),
           Chain!FloorOmega(child) = seed,
           headers' = <<h>> \o headers, floor' = floor - 1, UNCHANGED archive
    PROVE  Reported'
<1>1. /\ Len(FLOORS) \in Nat /\ floor \in Nat /\ headers \in Seq(Requests)
      /\ Len(headers) = Len(FLOORS) - floor
  BY DEF Chain!ChainAssumption, Reported
<1>2. /\ headers' \in Seq(Requests) /\ Len(headers') = Len(headers) + 1
      /\ headers'[1] = h /\ \A k \in 1 .. Len(headers) : headers'[k + 1] = headers[k]
  <2>1. PICK t \in Seq(Requests) : t = headers
    BY <1>1
  <2>2. /\ <<h>> \o t \in Seq(Requests) /\ Len(<<h>> \o t) = Len(t) + 1
        /\ (<<h>> \o t)[1] = h /\ \A k \in 1 .. Len(t) : (<<h>> \o t)[k + 1] = t[k]
    BY Prepended
  <2> QED
    BY <2>1, <2>2
<1>0. Len(headers) \in Nat /\ floor <= Len(FLOORS) /\ floor >= 1
  BY <1>1
<1>3. \E tt : Written(tt, headers, floor)'
  <2>1. PICK st : Written(st, headers, floor)
    BY DEF Reported
  <2>2. PICK bottom : bottom.child = child' /\ bottom.seed = seed'
    <3>1. [child |-> child', seed |-> seed'].child = child'
          /\ [child |-> child', seed |-> seed'].seed = seed'
      OBVIOUS
    <3> QED
      BY <3>1
  <2>3. PICK tt : tt = [k \in floor - 1 .. Len(FLOORS) |->
                           IF k = floor - 1 THEN bottom ELSE st[k]]
    OBVIOUS
  <2>4. tt[floor - 1] = bottom /\ \A k \in floor .. Len(FLOORS) : tt[k] = st[k]
    BY <1>1, <2>3
  <2>5. tt[Len(FLOORS)].child = archive'.outer /\ tt[Len(FLOORS)].seed = archive'.omega
    <3>1. Len(FLOORS) \in floor .. Len(FLOORS)
      BY <1>0, <1>1
    <3>2. tt[Len(FLOORS)] = st[Len(FLOORS)]
      BY <2>4, <3>1
    <3> QED
      BY <2>1, <3>2 DEF Written
  <2>6. ASSUME NEW k \in (floor - 1) + 1 .. Len(FLOORS)
        PROVE  /\ tt[k].child = Chain!Stage(headers'[k - (floor - 1)], FLOORS[k],
                                            tt[k - 1].seed, tt[k - 1].child)
               /\ tt[k].seed = Chain!FloorOmega(tt[k].child)
    <3>1. CASE k = floor
      <4>1. k - (floor - 1) = 1 /\ k - 1 = floor - 1 /\ floor \in floor .. Len(FLOORS)
        BY <1>1, <3>1
      <4>2. tt[k].child = child /\ tt[k].seed = seed
        BY <2>1, <2>4, <3>1, <4>1 DEF Written
      <4> QED
        BY <1>2, <2>2, <2>4, <3>1, <4>1, <4>2
    <3>2. CASE k # floor
      <4>1. /\ k \in floor + 1 .. Len(FLOORS) /\ k - floor \in 1 .. Len(headers)
            /\ k - (floor - 1) = (k - floor) + 1
            /\ k \in floor .. Len(FLOORS) /\ k - 1 \in floor .. Len(FLOORS)
        <5>1. k \in Int /\ k > floor /\ k <= Len(FLOORS)
          BY <1>0, <1>1, <3>2
        <5>2. PICK n \in Nat, f \in Nat, j \in Int : n = Len(FLOORS) /\ f = floor /\ j = k
          BY <1>1, <5>1
        <5>3. /\ j \in f + 1 .. n /\ j - f \in 1 .. n - f /\ j - (f - 1) = (j - f) + 1
              /\ j \in f .. n /\ j - 1 \in f .. n
          <6>1. j > f /\ j <= n
            BY <5>1, <5>2
          <6> QED
            BY <6>1
        <5> QED
          BY <1>1, <5>2, <5>3
      <4>2. headers'[k - (floor - 1)] = headers[k - floor]
        BY <1>2, <4>1
      <4>3. tt[k] = st[k] /\ tt[k - 1] = st[k - 1]
        BY <2>4, <4>1
      <4> QED
        BY <2>1, <4>1, <4>2, <4>3 DEF Written
    <3> QED
      BY <3>1, <3>2
  <2> QED
    BY <1>1, <2>2, <2>4, <2>5, <2>6 DEF Written
<1>4. Len(headers') = Len(FLOORS) - floor'
  BY <1>0, <1>1, <1>2
<1> QED
  BY <1>2, <1>3, <1>4 DEF Reported

\* The next stage is known, or it is none.
NextKnown == \E v : v = child' /\ Known(v, floor - 1)

GoesOn == Doomed' \/ (Reported' /\ (floor' = 0 \/ NextKnown))

\* One turn of decode_file that goes down.
LEMMA AcceptedGoesOn ==
    ASSUME Chain!ChainAssumption, TypeInv, Reported, Known(child, floor), floor \in 1 .. Len(FLOORS),
           Accepts(child, seed), child.floor = FLOORS[floor],
           child' = Chain!Decoded(child), seed' = child.seed,
           headers' = <<HeaderOf(child)>> \o headers, floor' = floor - 1, UNCHANGED archive
    PROVE  GoesOn
<1>1. source.tag = "bytes" /\ floor \in Nat /\ Len(FLOORS) \in Nat
  BY DEF TypeInv, Chain!ChainAssumption
<1>2. child.tag = "stage"
  BY DEF Accepts, Chain!Parses
<1>3. PICK below : /\ Known(below, floor - 1) /\ Over(child, below)
                   /\ below.tag = "stage" => floor > 1
  BY <1>1, <1>2, KnownOver
<1>4. /\ below.tag \in {"bytes", "stage"} /\ StageFields(child) /\ child.passes \in Nat
      /\ PayloadOf(child.payload, below)
  <2>1. floor - 1 \in Nat
    BY <1>1
  <2>2. below.tag \in {"bytes", "stage"}
    BY <1>1, <1>3, <2>1, KnownTags
  <2> QED
    BY <1>3, <2>2 DEF Over
<1>7. \/ child.payload.tag = "p3" /\ child.payload.of \in {below, source}
      \/ child.payload \in {below, source} /\ child.payload.tag # "p3"
  <2>1. CASE child.payload \in {below, source}
    BY <1>1, <1>4, <2>1
  <2>2. CASE child.payload \notin {below, source}
    <3>1. PICK key : \E bytes \in {below, source} : child.payload =
             [tag |-> "p3", key |-> key, of |-> bytes, size |-> bytes.size + 1]
      BY <1>4, <2>2 DEF PayloadOf
    <3> QED
      BY <3>1
  <2> QED
    BY <2>1, <2>2
<1>5. CASE Fitting(child)
  <2>1. /\ HeaderOf(child) \in Requests
        /\ child = Chain!Stage(HeaderOf(child), child.floor, child.seed, Chain!Decoded(child))
    BY <1>1, <1>4, <1>5, AcceptedIsRewritten
  <2>2. PICK h \in Requests : h = HeaderOf(child)
    BY <2>1
  <2>3. /\ child = Chain!Stage(h, FLOORS[floor], seed', child')
        /\ headers' = <<h>> \o headers /\ Chain!FloorOmega(child) = seed
    BY <2>1, <2>2 DEF Accepts
  <2>4. Reported'
    BY <2>3, ReportGrows
  <2>5. child'.tag # "stage" \/ NextKnown
    <3>1. \/ Chain!Decoded(child) \in {below, source}
          \/ Chain!Decoded(child).tag # "stage"
      <4>1. CASE child.mode = "Raw"
        <5>1. Chain!Decoded(child) = child.payload
          BY <4>1 DEF Chain!Decoded
        <5> QED
          BY <1>7, <5>1
      <4>2. CASE child.mode # "Raw"
        <5>1. child.payload.tag = "p3"
          BY <4>2 DEF Accepts, Chain!CanDecode
        <5>2. child.payload.of \in {below, source}
          BY <1>7, <5>1
        <5>3. PICK key : key = Chain!Key(child.floor, child.seed, child.control)
          OBVIOUS
        <5>4. Chain!Decoded(child) = Chain!P3Decode(key, child.payload, child.decodedLen)
          BY <4>2, <5>3 DEF Chain!Decoded
        <5>5. CASE child.payload.key = key /\ child.payload.of.size = child.decodedLen
          BY <5>2, <5>4, <5>5 DEF Chain!P3Decode
        <5>6. CASE ~(child.payload.key = key /\ child.payload.of.size = child.decodedLen)
          <6>1. Chain!Decoded(child) = [tag |-> "unfolded", key |-> key,
                     payload |-> child.payload, size |-> child.decodedLen]
            BY <5>4, <5>6 DEF Chain!P3Decode
          <6> QED
            BY <6>1
        <5> QED
          BY <5>5, <5>6
      <4> QED
        BY <4>1, <4>2
    <3>2. Known(source, floor - 1)
      <4>1. floor - 1 \in Nat
        BY <1>1
      <4> QED
        BY <4>1, SourceKnown
    <3>3. PICK v : v = child'
      OBVIOUS
    <3>4. v.tag # "stage" \/ Known(v, floor - 1)
      BY <1>3, <3>1, <3>2, <3>3
    <3> QED
      BY <3>3, <3>4 DEF NextKnown
  <2>6. floor' \in Nat
    BY <1>1
  <2>7. floor' = 0 \/ NextKnown \/ Doomed'
    BY <2>5, <2>6 DEF Doomed
  <2> QED
    BY <2>4, <2>7 DEF GoesOn
<1>6. CASE Torn(child, below)
  <2>1. child.mode # "Raw"
    BY <1>6 DEF Torn, Accepts, Chain!CanDecode
  <2>2. child.payload.tag = "p3"
    BY <2>1 DEF Accepts, Chain!CanDecode
  <2>3. child.payload.of.size # child.decodedLen
    BY <1>6, <2>1, <2>2 DEF Torn
  <2>4. PICK key : key = Chain!Key(child.floor, child.seed, child.control)
    OBVIOUS
  <2>5. Chain!Decoded(child) = [tag |-> "unfolded", key |-> key,
             payload |-> child.payload, size |-> child.decodedLen]
    BY <2>1, <2>3, <2>4 DEF Chain!Decoded, Chain!P3Decode
  <2>6. child'.tag = "unfolded"
    BY <2>5
  <2>7. floor' > 0
    <3>1. floor > 1
      BY <1>3, <1>6 DEF Torn
    <3> QED
      BY <1>1, <3>1
  <2>8. Doomed'
    BY <2>6, <2>7 DEF Doomed
  <2> QED
    BY <2>8 DEF GoesOn
<1> QED
  BY <1>3, <1>5, <1>6 DEF Over
-----------------------------------------------------------------------------
(* What the recursive definition of the property computes.                 *)

LEMMA RebuiltIs ==
    ASSUME Chain!ChainAssumption, HeaderOnly, NEW tt, Written(tt, headers, 0),
           seed = Chain!GenesisOmega, child.size = archive.length, Chain!Sha(child) = archive.sha
    PROVE  archive = Chain!Rebuilt
<1> DEFINE Body(At) == [k \in 0 .. Len(FLOORS) |->
              IF k = 0 THEN [child |-> child, seed |-> Chain!GenesisOmega]
              ELSE LET inner == At[k - 1]
                       stage == Chain!Stage(headers[k], FLOORS[k], inner.seed, inner.child)
                   IN [child |-> stage, seed |-> Chain!FloorOmega(stage)]]
           At == CHOOSE At : At = Body(At)
<1>1. Chain!Rebuilt = [length |-> child.size, sha |-> Chain!Sha(child),
                       omega |-> At[Len(FLOORS)].seed, outer |-> At[Len(FLOORS)].child]
  BY DEF Chain!Rebuilt
<1>2. Len(FLOORS) \in Nat
  BY DEF Chain!ChainAssumption
<1>3. /\ tt[Len(FLOORS)].child = archive.outer /\ tt[Len(FLOORS)].seed = archive.omega
      /\ tt[0].child = child /\ tt[0].seed = Chain!GenesisOmega
      /\ \A k \in 1 .. Len(FLOORS) :
          /\ tt[k].child = Chain!Stage(headers[k], FLOORS[k], tt[k - 1].seed, tt[k - 1].child)
          /\ tt[k].seed = Chain!FloorOmega(tt[k].child)
  BY <1>2 DEF Written
<1>4. PICK g : g = [k \in 0 .. Len(FLOORS) |-> [child |-> tt[k].child, seed |-> tt[k].seed]]
  OBVIOUS
<1>5. \A k \in 0 .. Len(FLOORS) : /\ g[k] = [child |-> tt[k].child, seed |-> tt[k].seed]
                                  /\ g[k].child = tt[k].child /\ g[k].seed = tt[k].seed
  BY <1>4
<1>6. g = Body(g)
  <2>1. ASSUME NEW k \in 0 .. Len(FLOORS) PROVE g[k] = Body(g)[k]
    <3>1. CASE k = 0
      BY <1>3, <1>5, <3>1
    <3>2. CASE k # 0
      <4>1. k \in 1 .. Len(FLOORS) /\ k - 1 \in 0 .. Len(FLOORS)
        BY <1>2, <3>2
      <4>2. g[k - 1].child = tt[k - 1].child /\ g[k - 1].seed = tt[k - 1].seed
        BY <1>5, <4>1
      <4>3. tt[k].child = Chain!Stage(headers[k], FLOORS[k], g[k - 1].seed, g[k - 1].child)
        BY <1>3, <4>1, <4>2
      <4> QED
        BY <1>3, <1>5, <3>2, <4>1, <4>3
    <3> QED
      BY <3>1, <3>2
  <2> QED
    BY <1>4, <2>1
<1>7. At = Body(At)
  BY <1>6
<1> HIDE DEF At
<1>8. /\ At[0] = [child |-> child, seed |-> Chain!GenesisOmega]
      /\ \A k \in 1 .. Len(FLOORS) : At[k] =
           [child |-> Chain!Stage(headers[k], FLOORS[k], At[k - 1].seed, At[k - 1].child),
            seed |-> Chain!FloorOmega(
               Chain!Stage(headers[k], FLOORS[k], At[k - 1].seed, At[k - 1].child))]
  BY <1>2, <1>7
<1> HIDE DEF Body
<1>9. ASSUME NEW k \in 1 .. Len(FLOORS), At[k - 1] = g[k - 1] PROVE At[k] = g[k]
  <2>1. k \in 0 .. Len(FLOORS) /\ k - 1 \in 0 .. Len(FLOORS)
    BY <1>2
  <2>2. At[k - 1].child = tt[k - 1].child /\ At[k - 1].seed = tt[k - 1].seed
    BY <1>5, <1>9, <2>1
  <2>3. tt[k].child = Chain!Stage(headers[k], FLOORS[k], At[k - 1].seed, At[k - 1].child)
    BY <1>3, <2>2
  <2>4. At[k] = [child |-> tt[k].child, seed |-> tt[k].seed]
    BY <1>3, <1>8, <2>3
  <2> QED
    BY <1>5, <2>1, <2>4
<1>10. \A k \in 0 .. Len(FLOORS) : At[k] = g[k]
  <2>1. PICK a : a = At
    OBVIOUS
  <2>2. PICK n \in Nat : n = Len(FLOORS)
    BY <1>2
  <2>3. a[0] = g[0] /\ \A k \in 1 .. n : a[k - 1] = g[k - 1] => a[k] = g[k]
    BY <1>2, <1>3, <1>5, <1>8, <1>9, <2>1, <2>2
  <2>4. \A k \in 0 .. n : a[k] = g[k]
    BY <2>3, SameRecursion
  <2> QED
    BY <2>1, <2>2, <2>4
<1>11. At[Len(FLOORS)].child = archive.outer /\ At[Len(FLOORS)].seed = archive.omega
  <2>1. Len(FLOORS) \in 0 .. Len(FLOORS)
    BY <1>2
  <2> QED
    BY <1>3, <1>5, <1>10, <2>1
<1> QED
  BY <1>1, <1>11 DEF HeaderOnly
-----------------------------------------------------------------------------
LEMMA AcceptInit ==
    ASSUME Chain!ChainAssumption, Chain!Init
    PROVE  AcceptInv
<1>1. TypeInv
  BY InitInv DEF IInv
<1>2. chainPc = "encode" /\ child = source /\ floor = 0 /\ headers = <<>>
  BY DEF Chain!Init
<1>3. Known(child, floor)
  BY <1>2, SourceKnown
<1> QED
  BY <1>1, <1>2, <1>3 DEF AcceptInv

LEMMA AcceptEncode ==
    ASSUME Chain!ChainAssumption, AcceptInv, Chain!EncodeFloor, TypeInv'
    PROVE  AcceptInv'
<1>1. /\ chainPc = "encode" /\ floor \in Nat /\ UNCHANGED <<source, headers>>
      /\ Known(child, floor) /\ headers = <<>> /\ source.tag = "bytes" /\ request \in Requests
  BY DEF Chain!EncodeFloor, AcceptInv, TypeInv
<1>2. CASE chainPc' = "rejected"
  BY <1>2 DEF AcceptInv
<1>3. CASE chainPc' # "rejected"
  <2>1. /\ child' = Chain!Stage(request, FLOORS[floor + 1], seed, child)
        /\ floor' = floor + 1 /\ chainPc' = "encode"
    BY <1>1, <1>3 DEF Chain!EncodeFloor
  <2>2. child.tag # "unfolded"
    BY <1>1, KnownTags
  <2>3. Over(child', child)
    BY <1>1, <2>1, <2>2, StageOver
  <2>4. Known(child', floor + 1)
    BY <1>1, <2>3, OverKnown
  <2>5. Known(child, floor)'
    BY <1>1, <2>1, <2>4 DEF Known, Layered, Over, PayloadOf
  <2> QED
    BY <1>1, <2>1, <2>5 DEF AcceptInv
<1> QED
  BY <1>2, <1>3

LEMMA AcceptForeign ==
    ASSUME Chain!ChainAssumption, AcceptInv, Chain!ForeignFloor, TypeInv'
    PROVE  AcceptInv'
<1>1. /\ chainPc = "encode" /\ floor \in Nat /\ UNCHANGED <<chainPc, source, headers>>
      /\ floor' = floor + 1
      /\ Known(child, floor) /\ headers = <<>> /\ source.tag = "bytes" /\ request \in Requests
  BY DEF Chain!ForeignFloor, AcceptInv, TypeInv
<1>2. child = source \/ child.tag = "stage"
  BY <1>1, KnownTags
<1>3. PICK t : t = child'
  OBVIOUS
<1>4. PICK f : f = FLOORS[floor + 1]
  OBVIOUS
<1>5. \/ t \in Chain!Edited(Chain!Stage(request, f, seed, child))
      \/ \E r \in [mode : ChainModes, control : ChainControls, passes : ChainPasses] :
            t = Chain!Stage(r, f, seed, child)
  BY <1>3, <1>4 DEF Chain!ForeignFloor
<1>6. ASSUME t \in Chain!Edited(Chain!Stage(request, f, seed, child))
      PROVE  Over(t, child)
  BY <1>1, <1>2, <1>6, EditedOver
<1>7. ASSUME \E r \in [mode : ChainModes, control : ChainControls, passes : ChainPasses] :
                t = Chain!Stage(r, f, seed, child)
      PROVE  Over(t, child)
  <2>1. PICK r \in Requests : t = Chain!Stage(r, f, seed, child)
    BY <1>7 DEF Chain!ChainAssumption, Requests, Chain!AllModes, Chain!AllControls
  <2>2. child.tag # "unfolded"
    BY <1>1, <1>2
  <2> QED
    BY <2>1, <2>2, StageOver
<1>8. Over(t, child)
  BY <1>5, <1>6, <1>7
<1>9. Known(t, floor + 1)
  BY <1>1, <1>8, OverKnown
<1>10. Known(child, floor)'
  BY <1>1, <1>3, <1>9 DEF Known, Layered, Over, PayloadOf
<1> QED
  BY <1>1, <1>10 DEF AcceptInv

LEMMA AcceptFile ==
    ASSUME Chain!ChainAssumption, AcceptInv, Chain!File, TypeInv'
    PROVE  AcceptInv'
<1>1. /\ chainPc = "encode" /\ chainPc' = "decode" /\ floor' = Len(FLOORS)
      /\ UNCHANGED <<source, child, seed, headers>>
      /\ Known(child, floor) /\ headers = <<>> /\ floor \in 0 .. Len(FLOORS)
      /\ Len(FLOORS) \in Nat
  BY DEF Chain!File, AcceptInv, TypeInv, Chain!ChainAssumption
<1>2. PICK s : archive' = [length |-> s.size, sha |-> Chain!Sha(s), omega |-> seed, outer |-> child]
  BY DEF Chain!File
<1>3. HeaderOnly'
  BY <1>2 DEF HeaderOnly
<1>4. Reported'
  <2>1. PICK top : top.child = child /\ top.seed = seed
    <3>1. [child |-> child, seed |-> seed].child = child
          /\ [child |-> child, seed |-> seed].seed = seed
      OBVIOUS
    <3> QED
      BY <3>1
  <2>2. PICK tt : tt = [k \in {Len(FLOORS)} |-> top]
    OBVIOUS
  <2>3. archive'.outer = child /\ archive'.omega = seed
    BY <1>2
  <2>4. Written(tt, headers, floor)'
    BY <1>1, <2>1, <2>2, <2>3 DEF Written
  <2> QED
    BY <1>1, <2>4 DEF Reported
<1>5. Known(child, floor)'
  <2>1. Known(child, Len(FLOORS))
    BY <1>1 DEF Known
  <2> QED
    BY <1>1, <2>1 DEF Known, Layered, Over, PayloadOf
<1> QED
  BY <1>1, <1>3, <1>4, <1>5 DEF AcceptInv

LEMMA AcceptDecode ==
    ASSUME Chain!ChainAssumption, AcceptInv, Chain!DecodeFloor, TypeInv'
    PROVE  AcceptInv'
<1>1. /\ chainPc = "decode" /\ floor > 0 /\ floor \in 1 .. Len(FLOORS)
      /\ UNCHANGED <<source, archive>> /\ TypeInv /\ HeaderOnly
      /\ Doomed \/ (Reported /\ (floor = 0 \/ Known(child, floor)))
  BY DEF Chain!DecodeFloor, AcceptInv, TypeInv
<1>2. HeaderOnly'
  BY <1>1 DEF HeaderOnly
<1>3. CASE chainPc' = "rejected"
  BY <1>3 DEF AcceptInv
<1>4. CASE chainPc' # "rejected"
  <2>1. /\ Accepts(child, seed) /\ child.floor = FLOORS[floor]
        /\ child' = Chain!Decoded(child) /\ seed' = child.seed
        /\ headers' = <<HeaderOf(child)>> \o headers /\ floor' = floor - 1
        /\ chainPc' = "decode" /\ archive' = archive
    BY <1>1, <1>4 DEF Chain!DecodeFloor, Accepts, HeaderOf
  <2>2. ~Doomed
    BY <2>1 DEF Doomed, Accepts, Chain!Parses
  <2>3. Reported /\ Known(child, floor)
    BY <1>1, <2>2
  <2>4. GoesOn
    BY <1>1, <2>1, <2>3, AcceptedGoesOn
  <2>5. NextKnown => Known(child, floor)'
    <3> SUFFICES ASSUME NextKnown PROVE Known(child, floor)'
      OBVIOUS
    <3>1. PICK v : v = child' /\ Known(v, floor - 1)
      BY DEF NextKnown
    <3>2. PICK n : n = floor - 1
      OBVIOUS
    <3>3. Known(v, n)'
      BY <1>1, <3>1, <3>2, KnownKept
    <3> QED
      BY <2>1, <3>1, <3>2, <3>3 DEF Known
  <2> QED
    BY <1>2, <2>1, <2>4, <2>5 DEF AcceptInv, GoesOn
<1> QED
  BY <1>3, <1>4

LEMMA AcceptEnd ==
    ASSUME Chain!ChainAssumption, AcceptInv, Chain!DecodeEnd, TypeInv'
    PROVE  AcceptInv'
<1>1. /\ chainPc = "decode" /\ floor = 0
      /\ UNCHANGED <<child, seed, floor, archive, headers>>
      /\ HeaderOnly /\ Reported
  BY DEF Chain!DecodeEnd, AcceptInv, Doomed
<1>2. HeaderOnly' /\ Reported'
  BY <1>1 DEF HeaderOnly, Reported, Written
<1>3. CASE chainPc' = "rejected"
  BY <1>3 DEF AcceptInv
<1>4. CASE chainPc' # "rejected"
  <2>1. /\ chainPc' = "done" /\ seed = Chain!GenesisOmega
        /\ child.size = archive.length /\ Chain!Sha(child) = archive.sha
    BY <1>4 DEF Chain!DecodeEnd
  <2>2. Chain!Sha(child)' = Chain!Sha(child) /\ Chain!GenesisOmega' = Chain!GenesisOmega
    BY <1>1 DEF Chain!Sha, Chain!GenesisOmega
  <2> QED
    BY <1>1, <1>2, <2>1, <2>2 DEF AcceptInv
<1> QED
  BY <1>3, <1>4

LEMMA AcceptStutter ==
    ASSUME AcceptInv, UNCHANGED Chain!vars, TypeInv'
    PROVE  AcceptInv'
<1>1. UNCHANGED <<chainPc, edits, request, source, child, seed, floor, archive, headers>>
  BY DEF Chain!vars
<1>2. /\ Reported => Reported'
      /\ HeaderOnly => HeaderOnly'
      /\ Doomed => Doomed'
  BY <1>1 DEF Reported, Written, HeaderOnly, Doomed
<1>3. Known(child, floor) => Known(child, floor)'
  BY <1>1 DEF Known, Layered, Over, PayloadOf
<1>4. Chain!Sha(child)' = Chain!Sha(child) /\ Chain!GenesisOmega' = Chain!GenesisOmega
  BY <1>1 DEF Chain!Sha, Chain!GenesisOmega
<1> QED
  BY <1>1, <1>2, <1>3, <1>4 DEF AcceptInv

LEMMA TypeKept ==
    ASSUME Chain!ChainAssumption, TypeInv, [Chain!Next]_(Chain!vars)
    PROVE  TypeInv'
<1>1. /\ floor \in 0 .. Len(FLOORS) /\ Len(FLOORS) \in Nat /\ edits \in Nat
      /\ chainPc \in {"encode", "decode", "done", "rejected"}
  BY DEF TypeInv, Chain!ChainAssumption
<1>2. UNCHANGED <<request, source>>
  BY DEF Chain!Next, Chain!vars, Chain!EncodeFloor, Chain!ForeignFloor, Chain!File,
         Chain!DecodeFloor, Chain!DecodeEnd
<1>3. edits' \in Nat
  BY <1>1 DEF Chain!Next, Chain!vars, Chain!EncodeFloor, Chain!ForeignFloor, Chain!File,
         Chain!DecodeFloor, Chain!DecodeEnd
<1>4. floor' \in 0 .. Len(FLOORS)
  <2>1. \/ floor < Len(FLOORS) /\ floor' \in {floor, floor + 1}
        \/ floor' \in {floor, Len(FLOORS)}
        \/ floor > 0 /\ floor' = floor - 1
    BY DEF Chain!Next, Chain!vars, Chain!EncodeFloor, Chain!ForeignFloor, Chain!File,
           Chain!DecodeFloor, Chain!DecodeEnd
  <2> QED
    BY <1>1, <2>1
<1>5. chainPc' \in {"encode", "decode", "done", "rejected"}
  BY <1>1 DEF Chain!Next, Chain!vars, Chain!EncodeFloor, Chain!ForeignFloor, Chain!File,
         Chain!DecodeFloor, Chain!DecodeEnd
<1> QED
  BY <1>2, <1>3, <1>4, <1>5 DEF TypeInv

LEMMA AcceptNext ==
    ASSUME Chain!ChainAssumption, AcceptInv, [Chain!Next]_(Chain!vars)
    PROVE  AcceptInv'
<1>1. TypeInv'
  BY TypeKept DEF AcceptInv
<1> QED
  BY <1>1, AcceptEncode, AcceptForeign, AcceptFile, AcceptDecode, AcceptEnd, AcceptStutter
     DEF Chain!Next

LEMMA AcceptImplies ==
    ASSUME Chain!ChainAssumption, AcceptInv
    PROVE  Chain!AcceptedAsEncoded
<1> SUFFICES ASSUME chainPc = "done"
             PROVE  archive = Chain!Rebuilt
  BY DEF Chain!AcceptedAsEncoded
<1>1. /\ HeaderOnly /\ floor = 0 /\ Reported /\ seed = Chain!GenesisOmega
      /\ child.size = archive.length /\ Chain!Sha(child) = archive.sha
  BY DEF AcceptInv
<1>2. PICK tt : Written(tt, headers, 0)
  BY <1>1 DEF Reported
<1> QED
  BY <1>1, <1>2, RebuiltIs

LEMMA CodecAcceptInit == ASSUME CodecInit PROVE ChainIdle \/ AcceptInv
BY ArchiveAssumption, AcceptInit DEF CodecInit, ChainAtStart, ChainIdle

LEMMA CodecAcceptNext ==
    ASSUME ChainIdle \/ AcceptInv, [CodecNext]_<<vars, chainVars>>
    PROVE  (ChainIdle \/ AcceptInv)'
<1>1. CASE ChainIdle /\ (UNCHANGED chainVars \/ CodecNext)
  BY <1>1 DEF ChainIdle, CodecNext, chainVars
<1>2. CASE ~ChainIdle /\ CodecNext
  BY <1>2, ArchiveAssumption, AcceptNext DEF CodecNext
<1>3. CASE ~ChainIdle /\ UNCHANGED chainVars
  BY <1>3, ArchiveAssumption, AcceptNext DEF chainVars, Chain!vars
<1> QED
  BY <1>1, <1>2, <1>3

LEMMA CodecAcceptImplies == ChainIdle \/ AcceptInv => AcceptedAsEncoded
BY ArchiveAssumption, AcceptImplies DEF AcceptedAsEncoded

\* Whoever made it, a file that is accepted is the one encode_file makes of the
\* bytes it decodes to, but for the mode, control and pass count of its floors.
THEOREM AcceptedIsEncoded == CodecSpec => []AcceptedAsEncoded
<1>1. CodecInit => ChainIdle \/ AcceptInv
  BY CodecAcceptInit
<1>2. (ChainIdle \/ AcceptInv) /\ [CodecNext]_<<vars, chainVars>> => (ChainIdle \/ AcceptInv)'
  BY CodecAcceptNext
<1> QED
  BY <1>1, <1>2, CodecAcceptImplies, PTL DEF CodecSpec
-----------------------------------------------------------------------------
(* Numbers and their bits.                                                 *)

\* What is read of a bit string at a place: zeros past its end.
BitAt(bits, p) == IF p <= Len(bits) THEN bits[p] ELSE 0

Slice(bits, n, w) == [k \in 1 .. w |-> BitAt(bits, (n * w) + k)]

LEMMA BitAtIsBit ==
    ASSUME NEW bits \in Seq({0, 1}), NEW p \in Nat \ {0}
    PROVE  BitAt(bits, p) \in {0, 1}
BY DEF BitAt

LEMMA ValueCounts ==
    ASSUME NEW bits \in Seq({0, 1}), NEW n \in Nat, NEW w \in Nat
    PROVE  \E v : CountUp(v, Slice(bits, n, w), w) /\ v[w] = ValueAt(bits, n, w)
<1> DEFINE Bit(p) == IF p <= Len(bits) THEN bits[p] ELSE 0
           b == Slice(bits, n, w)
           Turn(u, k) == (2 * u) + Bit((n * w) + k)
           F == [x \in (1 .. w) \X Nat |-> Turn(x[2], x[1])]
<1>1. ASSUME NEW k \in 1 .. w PROVE b[k] \in {0, 1} /\ Bit((n * w) + k) = b[k]
  <2>1. b[k] = BitAt(bits, (n * w) + k)
    BY DEF Slice
  <2>2. (n * w) + k \in Nat \ {0}
    <3>1. n * w \in Nat
      OBVIOUS
    <3> QED
      BY <3>1
  <2> QED
    BY <2>1, <2>2, BitAtIsBit DEF BitAt
<1> HIDE DEF b
<1>2. ASSUME NEW k \in 1 .. w, NEW u \in Nat PROVE Turn(u, k) \in Nat /\ Turn(u, k) = (2 * u) + b[k]
  BY <1>1
<1> HIDE DEF Bit
<1>3. ValueAt(bits, n, w)
      = (CHOOSE f : f = [k \in 0 .. w |-> IF k = 0 THEN 0 ELSE Turn(f[k - 1], k)])[w]
  BY DEF ValueAt, Bit
<1> HIDE DEF Turn
<1>4. F \in [(1 .. w) \X Nat -> Nat] /\ 0 \in Nat
  BY <1>2
<1>5. \A k \in 1 .. w : \A u \in Nat : F[<<k, u>>] = Turn(u, k)
  OBVIOUS
<1> HIDE DEF F
<1>6. PICK g \in Runs(Nat, 0, F, w) : TRUE
  <2>1. Runs(Nat, 0, F, w) # {}
    BY <1>4, LoopRuns
  <2> QED
    BY <2>1
<1>7. /\ g \in [0 .. w -> Nat] /\ g[0] = 0
      /\ \A k \in 1 .. w : g[k] = F[<<k, g[k - 1]>>]
  BY <1>6 DEF Runs
<1>8. ASSUME NEW k \in 1 .. w PROVE g[k] = Turn(g[k - 1], k)
  <2>1. k - 1 \in 0 .. w
    OBVIOUS
  <2> QED
    BY <1>5, <1>7, <2>1
<1> DEFINE Body(f) == [k \in 0 .. w |-> IF k = 0 THEN 0 ELSE Turn(f[k - 1], k)]
<1>9. g = Body(g)
  <2>1. \A k \in 0 .. w : g[k] = IF k = 0 THEN 0 ELSE Turn(g[k - 1], k)
    BY <1>7, <1>8
  <2> QED
    BY <1>7, <2>1
<1> DEFINE v == CHOOSE f : f = Body(f)
<1>10. v = Body(v)
  BY <1>9
<1>11. ValueAt(bits, n, w) = v[w]
  BY <1>3
<1> HIDE DEF v
<1>12. ASSUME NEW k \in 1 .. w PROVE v[k] = Turn(v[k - 1], k) /\ k \in 0 .. w
  <2>1. k \in 0 .. w /\ k # 0
    OBVIOUS
  <2>2. Body(v)[k] = Turn(v[k - 1], k)
    BY <2>1
  <2> HIDE DEF Body
  <2> QED
    BY <1>10, <2>1, <2>2
<1>13. v[0] = 0
  <2>1. 0 \in 0 .. w
    OBVIOUS
  <2>2. Body(v)[0] = 0
    BY <2>1
  <2> HIDE DEF Body
  <2> QED
    BY <1>10, <2>2
<1> HIDE DEF Body
<1> DEFINE P == {k \in 0 .. w : v[k] \in Nat}
<1>14. 0 \in P
  BY <1>13
<1>15. ASSUME NEW k \in 1 .. w, k - 1 \in P PROVE k \in P
  BY <1>2, <1>12, <1>15
<1> HIDE DEF P
<1>16. 0 .. w \subseteq P
  BY <1>14, <1>15, EveryTurn
<1>17. ASSUME NEW k \in 1 .. w PROVE b[k] \in {0, 1} /\ v[k] = (2 * v[k - 1]) + b[k]
  <2>1. k - 1 \in 0 .. w
    OBVIOUS
  <2>2. v[k - 1] \in Nat
    BY <1>16, <2>1 DEF P
  <2> QED
    BY <1>1, <1>2, <1>12, <2>2
<1>18. CountUp(v, b, w)
  BY <1>13, <1>17 DEF CountUp
<1> QED
  BY <1>11, <1>18 DEF b

\* The value read has the bits that were read ...
LEMMA ValueOfBits ==
    ASSUME NEW bits \in Seq({0, 1}), NEW n \in Nat, NEW w \in Nat
    PROVE  /\ ValueAt(bits, n, w) \in 0 .. 2 ^ w - 1
           /\ \A k \in 1 .. w : (ValueAt(bits, n, w) \div 2 ^ (w - k)) % 2 = BitAt(bits, (n * w) + k)
<1>1. PICK v : CountUp(v, Slice(bits, n, w), w) /\ v[w] = ValueAt(bits, n, w)
  BY ValueCounts
<1>2. PICK b : b = Slice(bits, n, w)
  OBVIOUS
<1>3. \A k \in 1 .. w : b[k] = BitAt(bits, (n * w) + k)
  BY <1>2 DEF Slice
<1>4. /\ v[w] \in 0 .. 2 ^ w - 1
      /\ \A k \in 1 .. w : (v[w] \div 2 ^ (w - k)) % 2 = b[k]
  BY <1>1, <1>2, Counted
<1> QED
  BY <1>1, <1>3, <1>4

\* ... and a value that has them is the one that is read.
LEMMA ValueWithBits ==
    ASSUME NEW bits \in Seq({0, 1}), NEW n \in Nat, NEW w \in Nat, NEW r \in 0 .. 2 ^ w - 1,
           \A k \in 1 .. w : BitAt(bits, (n * w) + k) = (r \div 2 ^ (w - k)) % 2
    PROVE  ValueAt(bits, n, w) = r
<1>1. PICK v : CountUp(v, Slice(bits, n, w), w) /\ v[w] = ValueAt(bits, n, w)
  BY ValueCounts
<1>2. PICK b : b = Slice(bits, n, w)
  OBVIOUS
<1>3. \A k \in 1 .. w : b[k] = (r \div 2 ^ (w - k)) % 2
  BY <1>2 DEF Slice
<1>4. CountUp(v, b, w)
  BY <1>1, <1>2
<1>5. v[w] = r
  <2> HIDE <1>1, <1>2
  <2> QED
    BY <1>3, <1>4, Counting
<1> QED
  BY <1>1, <1>5

\* The places of a string of values.
LEMMA PlaceOfBit ==
    ASSUME NEW w \in Nat \ {0}, NEW m \in Nat, NEW n \in 0 .. m - 1, NEW k \in 1 .. w
    PROVE  /\ (n * w) + k \in 1 .. w * m
           /\ (((n * w) + k) - 1) \div w = n
           /\ (((n * w) + k) - 1) % w = k - 1
<1>1. PICK a \in Nat : a = w * n /\ a = n * w
  OBVIOUS
<1>2. PICK d \in Nat \ {0} : m = n + d
  <2>1. m - n \in Nat \ {0} /\ m = n + (m - n)
    OBVIOUS
  <2> QED
    BY <2>1
<1>3. w * m = a + w * d
  BY <1>1, <1>2
<1>4. w * d >= w
  <2>1. PICK e \in Nat : d = e + 1
    <3>1. d - 1 \in Nat /\ d = (d - 1) + 1
      OBVIOUS
    <3> QED
      BY <3>1
  <2>2. w * d = w * e + w /\ w * e \in Nat
    BY <2>1
  <2> QED
    BY <2>2
<1>5. (a + k) - 1 = (w * n) + (k - 1) /\ k - 1 \in 0 .. w - 1 /\ (a + k) - 1 \in Nat
  BY <1>1
<1>6. ((a + k) - 1) \div w = n /\ ((a + k) - 1) % w = k - 1
  <2>1. PICK x \in Nat : x = (a + k) - 1
    BY <1>5
  <2>2. x = (w * n) + (k - 1) /\ n \in Int /\ x \in Int /\ k - 1 \in 0 .. w - 1
    BY <1>5, <2>1
  <2>3. x \div w = n /\ x % w = k - 1
    BY <2>2, QuotientIs
  <2> QED
    BY <2>1, <2>3
<1>7. PICK wd \in Nat : wd = w * d
  OBVIOUS
<1>8. a + k \in 1 .. w * m
  BY <1>3, <1>4, <1>7
<1> QED
  BY <1>1, <1>6, <1>8

LEMMA BitOfPlace ==
    ASSUME NEW w \in Nat \ {0}, NEW m \in Nat, NEW p \in 1 .. w * m
    PROVE  \E n \in 0 .. m - 1, k \in 1 .. w : p = (n * w) + k
<1>1. PICK n \in Nat, o \in 0 .. w - 1 : p - 1 = (w * n) + o
  <2>1. /\ (p - 1) \div w \in Nat /\ (p - 1) % w \in 0 .. w - 1
        /\ p - 1 = (w * ((p - 1) \div w)) + ((p - 1) % w)
    OBVIOUS
  <2> QED
    BY <2>1
<1>2. n < m
  <2> SUFFICES ASSUME ~(n < m) PROVE FALSE
    OBVIOUS
  <2>1. PICK d \in Nat : n = m + d
    <3>1. n - m \in Nat /\ n = m + (n - m)
      OBVIOUS
    <3> QED
      BY <3>1
  <2>2. w * n = w * m + w * d /\ w * d \in Nat /\ w * m \in Nat
    BY <2>1
  <2>3. PICK a \in Nat, b \in Nat : a = w * m /\ b = w * d
    BY <2>2
  <2> QED
    BY <1>1, <2>2, <2>3
<1>3. p = (n * w) + (o + 1)
  <2>1. PICK a \in Nat : a = w * n /\ a = n * w
    OBVIOUS
  <2> QED
    BY <1>1, <2>1
<1> QED
  BY <1>2, <1>3

\* A string has the bits of its values, each at the place ValueAt reads it from.
LEMMA StringBits ==
    ASSUME NEW w \in Nat \ {0}, NEW values \in Seq(Nat)
    PROVE  /\ BitString(values, w) \in Seq({0, 1})
           /\ Len(BitString(values, w)) = w * Len(values)
           /\ \A n \in 0 .. Len(values) - 1, k \in 1 .. w :
                 BitAt(BitString(values, w), (n * w) + k)
                 = (values[n + 1] \div 2 ^ (w - k)) % 2
<1>1. PICK m \in Nat : m = Len(values)
  OBVIOUS
<1>2. PICK size \in Nat : size = w * m
  OBVIOUS
<1>3. PICK bits : bits = BitString(values, w)
  OBVIOUS
<1>4. bits = [p \in 1 .. size |->
                 (values[((p - 1) \div w) + 1] \div 2 ^ (w - 1 - ((p - 1) % w))) % 2]
  BY <1>1, <1>2, <1>3 DEF BitString
<1>5. ASSUME NEW n \in 0 .. m - 1, NEW k \in 1 .. w
      PROVE  /\ (n * w) + k \in 1 .. size
             /\ bits[(n * w) + k] = (values[n + 1] \div 2 ^ (w - k)) % 2
             /\ bits[(n * w) + k] \in {0, 1}
  <2>1. PICK p : p = (n * w) + k
    OBVIOUS
  <2>2. p \in 1 .. size /\ (p - 1) \div w = n /\ (p - 1) % w = k - 1
    BY <1>2, <2>1, PlaceOfBit
  <2>3. w - 1 - (k - 1) = w - k /\ w - k \in Nat /\ n + 1 \in 1 .. m
    OBVIOUS
  <2>4. bits[p] = (values[n + 1] \div 2 ^ (w - k)) % 2
    BY <1>4, <2>2, <2>3
  <2>5. PICK a \in Nat \ {0} : a = 2 ^ (w - k)
    BY <2>3, PowersOfTwo
  <2>6. values[n + 1] \in Nat
    BY <1>1, <2>3
  <2>7. (values[n + 1] \div a) % 2 \in {0, 1}
    BY <2>6
  <2> QED
    BY <2>1, <2>2, <2>4, <2>5, <2>7
<1>6. bits \in [1 .. size -> {0, 1}]
  <2>1. ASSUME NEW p \in 1 .. size PROVE bits[p] \in {0, 1}
    <3>1. PICK n \in 0 .. m - 1, k \in 1 .. w : p = (n * w) + k
      BY <1>2, BitOfPlace
    <3> QED
      BY <1>5, <3>1
  <2> QED
    BY <1>4, <2>1
<1>7. bits \in Seq({0, 1}) /\ Len(bits) = size
  BY <1>6
<1>8. ASSUME NEW n \in 0 .. m - 1, NEW k \in 1 .. w
      PROVE  BitAt(bits, (n * w) + k) = (values[n + 1] \div 2 ^ (w - k)) % 2
  <2>1. PICK p : p = (n * w) + k
    OBVIOUS
  <2>2. p \in 1 .. size /\ bits[p] = (values[n + 1] \div 2 ^ (w - k)) % 2
    BY <1>5, <2>1
  <2>3. p <= Len(bits)
    BY <1>7, <2>2
  <2> QED
    BY <2>1, <2>2, <2>3 DEF BitAt
<1> QED
  BY <1>1, <1>2, <1>3, <1>7, <1>8
-----------------------------------------------------------------------------
(* Bytes and symbols.                                                      *)

\* The values that are read off a string, one after the other.
ReadOff(bits, m, w) == [n \in 1 .. m |-> ValueAt(bits, n - 1, w)]

\* Values read off a string spell it again, zeros past its end included.
LEMMA Respelled ==
    ASSUME NEW bits \in Seq({0, 1}), NEW w \in Nat \ {0}, NEW m \in Nat, NEW values,
           values = ReadOff(bits, m, w)
    PROVE  /\ values \in Seq(0 .. 2 ^ w - 1) /\ Len(values) = m
           /\ BitString(values, w) \in Seq({0, 1}) /\ Len(BitString(values, w)) = w * m
           /\ \A p \in 1 .. w * m : BitAt(BitString(values, w), p) = BitAt(bits, p)
<1>0. PICK top \in Nat : top = 2 ^ w - 1
  BY PowersOfTwo
<1>1. ASSUME NEW n \in 1 .. m PROVE ValueAt(bits, n - 1, w) \in 0 .. top
  <2>1. n - 1 \in Nat
    OBVIOUS
  <2> QED
    BY <1>0, <2>1, ValueOfBits
<1>2. values \in [1 .. m -> 0 .. top]
  BY <1>1 DEF ReadOff
<1>3. values \in Seq(0 .. top) /\ values \in Seq(Nat) /\ Len(values) = m
  <2>1. values \in [1 .. m -> Nat]
    BY <1>2
  <2> QED
    BY <1>2, <2>1
<1>4. PICK spelled : spelled = BitString(values, w)
  OBVIOUS
<1>5. /\ spelled \in Seq({0, 1}) /\ Len(spelled) = w * m
      /\ \A n \in 0 .. m - 1, k \in 1 .. w :
            BitAt(spelled, (n * w) + k) = (values[n + 1] \div 2 ^ (w - k)) % 2
  BY <1>3, <1>4, StringBits
<1>6. ASSUME NEW p \in 1 .. w * m PROVE BitAt(spelled, p) = BitAt(bits, p)
  <2>1. PICK n \in 0 .. m - 1, k \in 1 .. w : p = (n * w) + k
    BY BitOfPlace
  <2>2. n \in Nat /\ n + 1 \in 1 .. m /\ (n + 1) - 1 = n
    OBVIOUS
  <2>3. values[n + 1] = ValueAt(bits, n, w)
    BY <2>2 DEF ReadOff
  <2>4. (ValueAt(bits, n, w) \div 2 ^ (w - k)) % 2 = BitAt(bits, (n * w) + k)
    BY <2>2, ValueOfBits
  <2>5. BitAt(spelled, (n * w) + k) = (values[n + 1] \div 2 ^ (w - k)) % 2
    BY <1>5
  <2> QED
    BY <2>1, <2>3, <2>4, <2>5
<1> QED
  BY <1>0, <1>3, <1>4, <1>5, <1>6

\* A string that spells values gives them back.
LEMMA Reread ==
    ASSUME NEW bits \in Seq({0, 1}), NEW w \in Nat \ {0}, NEW m \in Nat,
           NEW values \in Seq(0 .. 2 ^ w - 1), Len(values) = m,
           \A p \in 1 .. w * m : BitAt(bits, p) = BitAt(BitString(values, w), p)
    PROVE  ReadOff(bits, m, w) = values
<1>0. PICK top \in Nat : top = 2 ^ w - 1
  BY PowersOfTwo
<1>1. values \in [1 .. m -> 0 .. top] /\ values \in Seq(Nat)
  <2>1. values \in [1 .. m -> 0 .. top]
    BY <1>0
  <2>2. values \in [1 .. m -> Nat]
    BY <2>1
  <2> QED
    BY <2>1, <2>2
<1>2. \A n \in 0 .. m - 1, k \in 1 .. w :
         BitAt(BitString(values, w), (n * w) + k) = (values[n + 1] \div 2 ^ (w - k)) % 2
  BY <1>1, StringBits
<1>3. ASSUME NEW n \in 1 .. m PROVE ValueAt(bits, n - 1, w) = values[n]
  <2>1. PICK c \in 0 .. m - 1 : c = n - 1 /\ n = c + 1
    <3>1. n - 1 \in 0 .. m - 1 /\ n = (n - 1) + 1
      OBVIOUS
    <3> QED
      BY <3>1
  <2>2. PICK r \in 0 .. top : r = values[n]
    BY <1>1
  <2>3. ASSUME NEW k \in 1 .. w
        PROVE  BitAt(bits, (c * w) + k) = (r \div 2 ^ (w - k)) % 2
    <3>1. (c * w) + k \in 1 .. w * m
      BY PlaceOfBit
    <3>2. PICK p \in 1 .. w * m : p = (c * w) + k
      BY <3>1
    <3> QED
      BY <1>2, <2>1, <2>2, <3>2
  <2> QED
    <3>1. r \in 0 .. 2 ^ w - 1 /\ c \in Nat
      BY <1>0
    <3>2. ValueAt(bits, c, w) = r
      BY <2>3, <3>1, ValueWithBits
    <3> QED
      BY <2>1, <2>2, <3>2
<1> QED
  BY <1>1, <1>3 DEF ReadOff
-----------------------------------------------------------------------------
LEMMA CeilingFacts ==
    ASSUME NEW a \in Nat, NEW b \in Nat \ {0}
    PROVE  /\ Ceiling(a, b) \in Nat
           /\ b * Ceiling(a, b) \in Nat
           /\ a <= b * Ceiling(a, b) /\ b * Ceiling(a, b) - a < b
           /\ a + ((-a) % b) = b * Ceiling(a, b)
<1>1. PICK q \in Nat, r \in 0 .. b - 1 : a = (b * q) + r
  <2>1. a \div b \in Nat /\ a % b \in 0 .. b - 1 /\ a = (b * (a \div b)) + (a % b)
    OBVIOUS
  <2> QED
    BY <2>1
<1>2. PICK x \in Nat : x = b * q
  OBVIOUS
<1>3. CASE r = 0
  <2>1. a + b - 1 = (b * q) + (b - 1) /\ a + b - 1 \in Nat /\ b - 1 \in 0 .. b - 1
    BY <1>1, <1>2, <1>3
  <2>2. Ceiling(a, b) = q
    BY <2>1, QuotientIs DEF Ceiling
  <2>3. (-a) % b = 0
    <3>1. a = b * q
      BY <1>1, <1>2, <1>3
    <3>2. PICK t \in Int, s \in Int : t = -a /\ s = -q
      OBVIOUS
    <3>3. t = (b * s) + 0 /\ 0 \in 0 .. b - 1
      BY <3>1, <3>2
    <3>4. t % b = 0
      BY <3>3, QuotientIs
    <3> QED
      BY <3>2, <3>4
  <2> QED
    BY <1>1, <1>2, <1>3, <2>2, <2>3
<1>4. CASE r # 0
  <2>1. b * (q + 1) = x + b /\ b * q = x /\ q + 1 \in Nat
    BY <1>2
  <2>2. a + b - 1 = (b * (q + 1)) + (r - 1) /\ a + b - 1 \in Nat /\ r - 1 \in 0 .. b - 1
    BY <1>1, <1>4, <2>1
  <2>3. Ceiling(a, b) = q + 1
    BY <2>1, <2>2, QuotientIs DEF Ceiling
  <2>4. (-a) % b = b - r
    <3>1. -a = (b * (-q - 1)) + (b - r) /\ b - r \in 0 .. b - 1 /\ -q - 1 \in Int
      <4>1. b * (-q - 1) = -x - b
        BY <1>2
      <4> QED
        BY <1>1, <1>2, <1>4, <4>1
    <3>2. PICK t \in Int, s \in Int : t = -a /\ s = -q - 1
      OBVIOUS
    <3>3. t = (b * s) + (b - r) /\ b - r \in 0 .. b - 1
      BY <3>1, <3>2
    <3>4. t % b = b - r
      BY <3>3, QuotientIs
    <3> QED
      BY <3>2, <3>4
  <2> QED
    BY <1>1, <1>2, <1>4, <2>1, <2>3, <2>4
<1> QED
  BY <1>3, <1>4
-----------------------------------------------------------------------------
(* Bytes and symbols.                                                      *)

Octets == 0 .. 2 ^ ByteBits - 1     \* the values of a byte
Values == 0 .. 2 ^ Bits - 1         \* the values of a symbol

LEMMA Widths ==
    /\ Bits \in Nat \ {0} /\ ByteBits \in Nat \ {0}
    /\ Size \in Nat \ {0} /\ Size = 2 ^ Bits /\ Values = 0 .. Size - 1 /\ Values \subseteq Nat
    /\ Octets \subseteq Nat
<1>1. Bits \in Nat \ {0} /\ ByteBits \in Nat \ {0}
  BY HookAssumption
<1>2. PICK a \in Nat \ {0}, b \in Nat \ {0} : a = 2 ^ Bits /\ b = 2 ^ ByteBits
  BY <1>1, PowersOfTwo
<1> QED
  BY <1>1, <1>2 DEF Size, Values, Octets

\* The symbols of a byte string spell it, and zeros fill up the last of them.
LEMMA SymbolsOfBytes ==
    ASSUME NEW bytes \in Seq(Octets), NEW values, values = BytesToSymbols(bytes)
    PROVE  /\ values \in Seq(Values)
           /\ Len(values) = Ceiling(Len(bytes) * ByteBits, Bits)
           /\ BitString(values, Bits) \in Seq({0, 1})
           /\ Len(BitString(values, Bits)) = Bits * Len(values)
           /\ \A p \in 1 .. Bits * Len(values) :
                 BitAt(BitString(values, Bits), p) = BitAt(BitString(bytes, ByteBits), p)
<1>1. bytes \in Seq(Nat) /\ Len(bytes) \in Nat
  <2>1. Octets \subseteq Nat
    BY Widths
  <2>2. bytes \in Seq(Nat)
    BY <2>1, SequenceOfMore
  <2> QED
    BY <2>2
<1>2. PICK bits : bits = BitString(bytes, ByteBits)
  OBVIOUS
<1>3. bits \in Seq({0, 1}) /\ Len(bits) = ByteBits * Len(bytes)
  BY <1>1, <1>2, Widths, StringBits
<1>4. ByteBits * Len(bytes) = Len(bytes) * ByteBits /\ Len(bytes) * ByteBits \in Nat
  BY <1>1, Widths
<1>5. PICK m \in Nat : m = Ceiling(Len(bytes) * ByteBits, Bits)
  BY <1>4, Widths, CeilingFacts
<1>6. values = ReadOff(bits, m, Bits)
  BY <1>2, <1>3, <1>4, <1>5 DEF BytesToSymbols, ReadOff
<1>7. /\ values \in Seq(0 .. 2 ^ Bits - 1) /\ Len(values) = m
      /\ BitString(values, Bits) \in Seq({0, 1}) /\ Len(BitString(values, Bits)) = Bits * m
      /\ \A p \in 1 .. Bits * m : BitAt(BitString(values, Bits), p) = BitAt(bits, p)
  <2>1. Bits \in Nat \ {0}
    BY Widths
  <2> QED
    BY <1>3, <1>6, <2>1, Respelled
<1> QED
  BY <1>2, <1>5, <1>7 DEF Values

LEMMA BytesOfSymbols ==
    ASSUME NEW values \in Seq(Values), NEW n \in Nat, NEW bytes, bytes = SymbolsToBytes(values, n)
    PROVE  /\ bytes \in Seq(Octets) /\ Len(bytes) = n
           /\ BitString(bytes, ByteBits) \in Seq({0, 1})
           /\ Len(BitString(bytes, ByteBits)) = ByteBits * n
           /\ \A p \in 1 .. ByteBits * n :
                 BitAt(BitString(bytes, ByteBits), p) = BitAt(BitString(values, Bits), p)
<1>1. values \in Seq(Nat)
  BY Widths, SequenceOfMore
<1>2. PICK bits : bits = BitString(values, Bits)
  OBVIOUS
<1>3. bits \in Seq({0, 1})
  BY <1>1, <1>2, Widths, StringBits
<1>4. bytes = ReadOff(bits, n, ByteBits)
  BY <1>2 DEF SymbolsToBytes, ReadOff
<1>5. /\ bytes \in Seq(0 .. 2 ^ ByteBits - 1) /\ Len(bytes) = n
      /\ BitString(bytes, ByteBits) \in Seq({0, 1}) /\ Len(BitString(bytes, ByteBits)) = ByteBits * n
      /\ \A p \in 1 .. ByteBits * n : BitAt(BitString(bytes, ByteBits), p) = BitAt(bits, p)
  <2>1. ByteBits \in Nat \ {0}
    BY Widths
  <2> QED
    BY <1>3, <1>4, <2>1, Respelled
<1> QED
  BY <1>2, <1>5 DEF Octets

\* Packing a byte string into symbols loses nothing.
LEMMA BytesRestored ==
    ASSUME NEW bytes \in Seq(Octets), NEW values, values = BytesToSymbols(bytes)
    PROVE  SymbolsToBytes(values, Len(bytes)) = bytes /\ TailIsZero(values, Len(bytes))
<1>1. PICK n \in Nat : n = Len(bytes)
  OBVIOUS
<1>2. PICK m \in Nat : m = Ceiling(n * ByteBits, Bits) /\ m = Len(values)
  <2>1. n * ByteBits \in Nat
    BY Widths
  <2> QED
    BY <1>1, <2>1, Widths, CeilingFacts, SymbolsOfBytes
<1>3. PICK b \in Nat, s \in Nat : /\ b = n * ByteBits /\ b = ByteBits * n
                                  /\ s = Bits * m /\ s = m * Bits
  BY Widths
<1>4. b <= s /\ s - b < Bits
  <2>1. Bits \in Nat \ {0} /\ m = Ceiling(b, Bits)
    BY <1>2, <1>3, Widths
  <2>2. b <= Bits * m /\ Bits * m - b < Bits
    BY <1>3, <2>1, CeilingFacts
  <2> QED
    BY <1>3, <2>2
<1>5. PICK bits : bits = BitString(values, Bits)
  OBVIOUS
<1>6. /\ bits \in Seq({0, 1}) /\ Len(bits) = s
      /\ \A p \in 1 .. s : BitAt(bits, p) = BitAt(BitString(bytes, ByteBits), p)
  BY <1>2, <1>3, <1>5, SymbolsOfBytes
<1>7. bytes \in Seq(Nat)
  BY Widths, SequenceOfMore
<1>8. Len(BitString(bytes, ByteBits)) = b
  BY <1>1, <1>3, <1>7, Widths, StringBits
<1>9. SymbolsToBytes(values, n) = bytes
  <2>1. \A p \in 1 .. ByteBits * n : BitAt(bits, p) = BitAt(BitString(bytes, ByteBits), p)
    BY <1>3, <1>4, <1>6
  <2>2. bytes \in Seq(0 .. 2 ^ ByteBits - 1) /\ Len(bytes) = n
    BY <1>1 DEF Octets
  <2>3. ReadOff(bits, n, ByteBits) = bytes
    BY <1>6, <2>1, <2>2, Widths, Reread
  <2> QED
    BY <1>5, <2>3 DEF SymbolsToBytes, ReadOff
<1>10. \A p \in b + 1 .. s : bits[p] = 0
  <2> TAKE p \in b + 1 .. s
  <2>1. p \in 1 .. s /\ ~(p <= b)
    BY <1>3
  <2>2. BitAt(bits, p) = bits[p]
    BY <1>6, <2>1 DEF BitAt
  <2>3. BitAt(BitString(bytes, ByteBits), p) = 0
    BY <1>8, <2>1 DEF BitAt
  <2> QED
    BY <1>6, <2>1, <2>2, <2>3
<1>11. TailIsZero(values, n)
  BY <1>2, <1>3, <1>4, <1>5, <1>10 DEF TailIsZero
<1> QED
  BY <1>1, <1>9, <1>11

\* Nor does unpacking, of as many symbols as it takes and with a zero tail.
LEMMA SymbolsRestored ==
    ASSUME NEW values \in Seq(Values), NEW n \in Nat,
           Len(values) = Ceiling(n * ByteBits, Bits), TailIsZero(values, n)
    PROVE  BytesToSymbols(SymbolsToBytes(values, n)) = values
<1>1. PICK bytes : bytes = SymbolsToBytes(values, n)
  OBVIOUS
<1>2. PICK m \in Nat : m = Len(values)
  OBVIOUS
<1>3. PICK b \in Nat, s \in Nat : /\ b = n * ByteBits /\ b = ByteBits * n
                                  /\ s = Bits * m /\ s = m * Bits
  BY Widths
<1>4. PICK spelled, bits : spelled = BitString(values, Bits) /\ bits = BitString(bytes, ByteBits)
  OBVIOUS
<1>5. /\ bytes \in Seq(Octets) /\ Len(bytes) = n
      /\ bits \in Seq({0, 1}) /\ Len(bits) = b
      /\ \A p \in 1 .. b : BitAt(bits, p) = BitAt(spelled, p)
  <2>1. /\ bytes \in Seq(Octets) /\ Len(bytes) = n
        /\ bits \in Seq({0, 1}) /\ Len(bits) = ByteBits * n
        /\ \A p \in 1 .. ByteBits * n : BitAt(bits, p) = BitAt(BitString(values, Bits), p)
    BY <1>1, <1>4, BytesOfSymbols
  <2> QED
    BY <1>3, <1>4, <2>1
<1>6. values \in Seq(Nat)
  BY Widths, SequenceOfMore
<1>7. Len(spelled) = s
  BY <1>2, <1>3, <1>4, <1>6, Widths, StringBits
<1>8. ASSUME NEW p \in 1 .. s PROVE BitAt(bits, p) = BitAt(spelled, p)
  <2>1. CASE p <= b
    BY <1>5, <2>1
  <2>2. CASE ~(p <= b)
    <3>1. p \in b + 1 .. s
      BY <1>3, <2>2
    <3>2. spelled[p] = 0
      BY <1>2, <1>3, <1>4, <3>1 DEF TailIsZero
    <3>3. BitAt(spelled, p) = 0
      BY <1>7, <3>2 DEF BitAt
    <3>4. BitAt(bits, p) = 0
      BY <1>5, <2>2 DEF BitAt
    <3> QED
      BY <3>3, <3>4
  <2> QED
    BY <2>1, <2>2
<1>9. ReadOff(bits, m, Bits) = values
  <2>1. \A p \in 1 .. Bits * m : BitAt(bits, p) = BitAt(BitString(values, Bits), p)
    BY <1>3, <1>4, <1>8
  <2>2. values \in Seq(0 .. 2 ^ Bits - 1) /\ Len(values) = m
    BY <1>2 DEF Values
  <2> QED
    BY <1>5, <2>1, <2>2, Widths, Reread
<1>10. BytesToSymbols(bytes) = ReadOff(bits, m, Bits)
  <2>1. Ceiling(Len(bits), Bits) = m
    BY <1>2, <1>3, <1>5
  <2> QED
    BY <1>4, <2>1 DEF BytesToSymbols, ReadOff
<1> QED
  BY <1>1, <1>9, <1>10
-----------------------------------------------------------------------------
(* The views of a window.                                                  *)

\* What is reversed is counted up from the lowest bit on.
LEMMA ReversedCounts ==
    ASSUME NEW value \in Nat, NEW width \in Nat,
           NEW b, b = [k \in 1 .. width |-> (value \div 2 ^ (k - 1)) % 2]
    PROVE  \E v : CountUp(v, b, width) /\ v[width] = ReverseBits(value, width)
<1> DEFINE Turn(u, k) == (2 * u) + ((value \div 2 ^ (k - 1)) % 2)
           F == [x \in (1 .. width) \X Nat |-> Turn(x[2], x[1])]
           Body(f) == [k \in 0 .. width |-> IF k = 0 THEN 0 ELSE Turn(f[k - 1], k)]
           v == CHOOSE f : f = Body(f)
<1>1. ReverseBits(value, width) = v[width]
  BY DEF ReverseBits
<1>2. ASSUME NEW k \in 1 .. width PROVE (value \div 2 ^ (k - 1)) % 2 \in {0, 1}
  <2>1. k - 1 \in Nat
    OBVIOUS
  <2>2. PICK a \in Nat \ {0} : a = 2 ^ (k - 1)
    BY <2>1, PowersOfTwo
  <2>3. (value \div a) % 2 \in {0, 1}
    OBVIOUS
  <2> QED
    BY <2>2, <2>3
<1>3. ASSUME NEW k \in 1 .. width, NEW u \in Nat PROVE Turn(u, k) \in Nat
  <2>1. PICK bit \in {0, 1} : bit = (value \div 2 ^ (k - 1)) % 2
    BY <1>2
  <2>2. (2 * u) + bit \in Nat
    OBVIOUS
  <2> QED
    BY <2>1, <2>2
<1>4. \A k \in 1 .. width : \A u \in Nat : Turn(u, k) = (2 * u) + ((value \div 2 ^ (k - 1)) % 2)
  OBVIOUS
<1>5. \A k \in 1 .. width : Turn(v[k - 1], k) = (2 * v[k - 1]) + b[k]
  OBVIOUS
<1> HIDE DEF Turn
<1>6. v = Body(v)
  <2>1. F \in [(1 .. width) \X Nat -> Nat] /\ 0 \in Nat
    BY <1>3
  <2>2. \A k \in 1 .. width : \A u \in Nat : F[<<k, u>>] = Turn(u, k)
    OBVIOUS
  <2> HIDE DEF F
  <2>3. PICK g \in Runs(Nat, 0, F, width) : TRUE
    <3>1. Runs(Nat, 0, F, width) # {}
      BY <2>1, LoopRuns
    <3> QED
      BY <3>1
  <2>4. /\ g \in [0 .. width -> Nat] /\ g[0] = 0
        /\ \A k \in 1 .. width : g[k] = F[<<k, g[k - 1]>>]
    BY <2>3 DEF Runs
  <2>5. ASSUME NEW k \in 1 .. width PROVE g[k] = Turn(g[k - 1], k)
    <3>1. k - 1 \in 0 .. width
      OBVIOUS
    <3> QED
      BY <2>2, <2>4, <3>1
  <2>6. g = Body(g)
    <3>1. \A k \in 0 .. width : g[k] = IF k = 0 THEN 0 ELSE Turn(g[k - 1], k)
      BY <2>4, <2>5
    <3> QED
      BY <2>4, <3>1
  <2> QED
    BY <2>6
<1> HIDE DEF v
<1>7. v[0] = 0 /\ \A k \in 1 .. width : v[k] = Turn(v[k - 1], k)
  <2>1. Body(v)[0] = 0 /\ \A k \in 1 .. width : Body(v)[k] = Turn(v[k - 1], k)
    OBVIOUS
  <2> HIDE DEF Body
  <2> QED
    BY <1>6, <2>1
<1>8. \A k \in 1 .. width : b[k] \in {0, 1}
  BY <1>2
<1>9. CountUp(v, b, width)
  BY <1>5, <1>7, <1>8 DEF CountUp
<1> QED
  BY <1>1, <1>9

LEMMA ReversedNumber ==
    ASSUME NEW value \in Nat, NEW width \in Nat
    PROVE  ReverseBits(value, width) \in Nat /\ ReverseBits(value, width) \in 0 .. 2 ^ width - 1
<1> DEFINE b == [k \in 1 .. width |-> (value \div 2 ^ (k - 1)) % 2]
<1>1. PICK v : CountUp(v, b, width) /\ v[width] = ReverseBits(value, width)
  BY ReversedCounts
<1>2. PICK a \in Nat : a = 2 ^ width
  BY PowersOfTwo
<1>3. v[width] \in 0 .. a - 1
  BY <1>1, <1>2, Counted
<1> QED
  BY <1>1, <1>2, <1>3

\* Bits reversed twice are where they were.
LEMMA ReversedTwice ==
    ASSUME NEW width \in Nat, NEW value \in 0 .. 2 ^ width - 1
    PROVE  ReverseBits(ReverseBits(value, width), width) = value
<1>1. value \in Nat
  <2>1. PICK a \in Nat : a = 2 ^ width
    BY PowersOfTwo
  <2> QED
    BY <2>1
<1> DEFINE b == [k \in 1 .. width |-> (value \div 2 ^ (k - 1)) % 2]
<1>2. PICK v : CountUp(v, b, width) /\ v[width] = ReverseBits(value, width)
  BY <1>1, ReversedCounts
<1>0. \A k \in 1 .. width : b[k] = (value \div 2 ^ (k - 1)) % 2
  OBVIOUS
<1> HIDE DEF b
<1>3. /\ v[width] \in 0 .. 2 ^ width - 1
      /\ \A k \in 1 .. width : (v[width] \div 2 ^ (width - k)) % 2 = b[k]
  BY <1>2, Counted
<1>4. PICK r \in Nat : r = v[width]
  <2>1. PICK a \in Nat : a = 2 ^ width
    BY PowersOfTwo
  <2> QED
    BY <1>3, <2>1
<1> DEFINE c == [k \in 1 .. width |-> (r \div 2 ^ (k - 1)) % 2]
<1>5. PICK u : CountUp(u, c, width) /\ u[width] = ReverseBits(r, width)
  BY ReversedCounts
<1>6. ASSUME NEW k \in 1 .. width PROVE c[k] = (value \div 2 ^ (width - k)) % 2
  <2>1. PICK j \in 1 .. width : j = width + 1 - k
    OBVIOUS
  <2>2. width - j = k - 1 /\ j - 1 = width - k
    BY <2>1
  <2>3. (r \div 2 ^ (width - j)) % 2 = (value \div 2 ^ (j - 1)) % 2
    BY <1>0, <1>3, <1>4
  <2> QED
    BY <2>2, <2>3
<1> HIDE DEF c
<1>7. u[width] = value
  BY <1>5, <1>6, Counting
<1> QED
  BY <1>2, <1>4, <1>5, <1>7

\* A symbol is two halves of as many bits.
Half(bits) == bits \div 2

LEMMA HalvesOfSymbol ==
    ASSUME NEW bits \in FloorBits, NEW h, h = 2 ^ Half(bits)
    PROVE  /\ Half(bits) \in Nat /\ bits \in Nat
           /\ h \in Nat \ {0}
           /\ 2 ^ bits = h * h
<1>1. bits \in Nat /\ bits % 2 = 0
  BY CatalogAssumption
<1>2. PICK half \in Nat : half = Half(bits) /\ bits = half + half
  BY <1>1 DEF Half
<1>3. h \in Nat \ {0}
  BY <1>2, PowersOfTwo
<1>4. 2 ^ (half + half) = 2 ^ half * 2 ^ half
  BY PowersAdd
<1> QED
  BY <1>1, <1>2, <1>3, <1>4

\* Of two halves below h a symbol below h * h is made, and of every such symbol
\* the halves are read back.
LEMMA Halves ==
    ASSUME NEW h \in Nat \ {0}
    PROVE  /\ \A a \in 0 .. h - 1, b \in 0 .. h - 1 :
                 /\ (a * h) + b \in 0 .. (h * h) - 1
                 /\ ((a * h) + b) \div h = a /\ ((a * h) + b) % h = b
           /\ \A x \in 0 .. (h * h) - 1 : \E a \in 0 .. h - 1, b \in 0 .. h - 1 : x = (a * h) + b
<1>1. ASSUME NEW a \in 0 .. h - 1, NEW b \in 0 .. h - 1
      PROVE  /\ (a * h) + b \in 0 .. (h * h) - 1
             /\ ((a * h) + b) \div h = a /\ ((a * h) + b) % h = b
  <2>1. (a * h) + b = (h * a) + b /\ (h * a) + b \in Int
    OBVIOUS
  <2>2. PICK y \in Int : y = (a * h) + b
    OBVIOUS
  <2>3. y = (h * a) + b /\ a \in Int
    BY <2>1, <2>2
  <2>4. y \div h = a /\ y % h = b
    BY <2>3, QuotientIs
  <2>5. y \in 0 .. (h * h) - 1
    <3>1. PICK c \in Nat : c = (h - 1) - a
      OBVIOUS
    <3>2. a = (h - 1) - c
      BY <3>1
    <3>3. a * h = (h * h) - h - (c * h) /\ c * h \in Nat /\ h * h \in Nat /\ a * h \in Nat
      BY <3>2
    <3> QED
      BY <2>2, <3>3
  <2> QED
    BY <2>2, <2>4, <2>5
<1>2. ASSUME NEW x \in 0 .. (h * h) - 1
      PROVE  \E a \in 0 .. h - 1, b \in 0 .. h - 1 : x = (a * h) + b
  <2>1. PICK a \in Nat, b \in 0 .. h - 1 : x = (h * a) + b
    <3>1. x \div h \in Nat /\ x % h \in 0 .. h - 1 /\ x = (h * (x \div h)) + (x % h)
      OBVIOUS
    <3> QED
      BY <3>1
  <2>2. a < h
    <3>1. SUFFICES ASSUME a >= h PROVE FALSE
      OBVIOUS
    <3>2. PICK c \in Nat : a = h + c
      BY <3>1
    <3>3. h * a = (h * h) + (h * c) /\ h * c \in Nat /\ h * h \in Nat
      BY <3>2
    <3> QED
      BY <2>1, <3>3
  <2>3. h * a = a * h
    OBVIOUS
  <2> QED
    BY <2>1, <2>2, <2>3
<1> QED
  BY <1>1, <1>2

\* What N and Q do to a symbol.
Swapped(bits, x) ==
    LET h == 2 ^ (bits \div 2) IN ((x % h) * h) + ((x \div h) % h)

Mirrored(bits, x) ==
    LET half == bits \div 2
        h == 2 ^ half
    IN ReverseBits(x \div h, half) * h + ReverseBits(x % h, half)

\* Each keeps a symbol in its alphabet and undoes itself, and they commute.
LEMMA SymbolReflections ==
    ASSUME NEW bits \in FloorBits
    PROVE  \A x \in 0 .. 2 ^ bits - 1 :
              /\ Swapped(bits, x) \in 0 .. 2 ^ bits - 1
              /\ Mirrored(bits, x) \in 0 .. 2 ^ bits - 1
              /\ Swapped(bits, Swapped(bits, x)) = x
              /\ Mirrored(bits, Mirrored(bits, x)) = x
              /\ Mirrored(bits, Swapped(bits, x)) = Swapped(bits, Mirrored(bits, x))
<1>1. PICK half \in Nat : half = bits \div 2 /\ half = Half(bits)
  BY HalvesOfSymbol DEF Half
<1>2. PICK h \in Nat \ {0} : h = 2 ^ half /\ 2 ^ bits = h * h
  BY <1>1, HalvesOfSymbol
<1> DEFINE Sides == 0 .. h - 1
           Rev(a) == ReverseBits(a, half)
<1>3. \A a \in Sides : Rev(a) \in Sides /\ Rev(Rev(a)) = a
  <2>1. Sides \subseteq Nat /\ Sides = 0 .. 2 ^ half - 1
    BY <1>2
  <2> QED
    BY <2>1, ReversedNumber, ReversedTwice
<1> HIDE DEF Sides
<1>4. ASSUME NEW a \in Sides, NEW b \in Sides, NEW y, y = (a * h) + b
      PROVE  Swapped(bits, y) = (b * h) + a
  <2>1. y \div h = a /\ y % h = b
    BY <1>4, Halves DEF Sides
  <2>2. a % h = a
    BY DEF Sides
  <2> QED
    BY <1>1, <1>2, <2>1, <2>2 DEF Swapped
<1>5. ASSUME NEW a \in Sides, NEW b \in Sides, NEW y, y = (a * h) + b
      PROVE  Mirrored(bits, y) = (Rev(a) * h) + Rev(b)
  <2>1. y \div h = a /\ y % h = b
    BY <1>5, Halves DEF Sides
  <2> QED
    BY <1>1, <1>2, <2>1 DEF Mirrored
<1> HIDE DEF Rev
<1>6. SUFFICES ASSUME NEW x \in 0 .. (h * h) - 1
               PROVE  /\ Swapped(bits, x) \in 0 .. (h * h) - 1
                      /\ Mirrored(bits, x) \in 0 .. (h * h) - 1
                      /\ Swapped(bits, Swapped(bits, x)) = x
                      /\ Mirrored(bits, Mirrored(bits, x)) = x
                      /\ Mirrored(bits, Swapped(bits, x)) = Swapped(bits, Mirrored(bits, x))
  BY <1>2
<1>7. PICK a \in Sides, b \in Sides : x = (a * h) + b
  BY Halves DEF Sides
<1>8. /\ Rev(a) \in Sides /\ Rev(b) \in Sides /\ Rev(Rev(a)) = a /\ Rev(Rev(b)) = b
  BY <1>3
<1>9. Swapped(bits, x) = (b * h) + a
  BY <1>4, <1>7
<1>10. Mirrored(bits, x) = (Rev(a) * h) + Rev(b)
  BY <1>5, <1>7
<1>11. Swapped(bits, Swapped(bits, x)) = x
  BY <1>4, <1>7, <1>9
<1>12. Mirrored(bits, Mirrored(bits, x)) = x
  BY <1>5, <1>7, <1>8, <1>10
<1>13. Mirrored(bits, Swapped(bits, x)) = (Rev(b) * h) + Rev(a)
  BY <1>5, <1>9
<1>14. Swapped(bits, Mirrored(bits, x)) = (Rev(b) * h) + Rev(a)
  BY <1>4, <1>8, <1>10
<1>15. Swapped(bits, x) \in 0 .. (h * h) - 1 /\ Mirrored(bits, x) \in 0 .. (h * h) - 1
  <2>1. (b * h) + a \in 0 .. (h * h) - 1
    BY Halves DEF Sides
  <2>2. (Rev(a) * h) + Rev(b) \in 0 .. (h * h) - 1
    BY <1>8, Halves DEF Sides
  <2> QED
    BY <1>9, <1>10, <2>1, <2>2
<1> QED
  BY <1>11, <1>12, <1>13, <1>14, <1>15

Strip(bits, n) == [1 .. n -> 0 .. 2 ^ bits - 1]

\* R, N and Q on sequences of symbols.
LEMMA Reflections ==
    ASSUME NEW bits \in FloorBits, NEW n \in Nat, NEW s \in Strip(bits, n)
    PROVE  /\ R(s) \in Strip(bits, n) /\ N(bits, s) \in Strip(bits, n) /\ Q(bits, s) \in Strip(bits, n)
           /\ R(R(s)) = s /\ N(bits, N(bits, s)) = s /\ Q(bits, Q(bits, s)) = s
           /\ N(bits, R(s)) = R(N(bits, s)) /\ Q(bits, R(s)) = R(Q(bits, s))
           /\ Q(bits, N(bits, s)) = N(bits, Q(bits, s))
<1> DEFINE V == 0 .. 2 ^ bits - 1
<1>1. \A t \in [1 .. n -> V] : DOMAIN t = 1 .. n /\ Len(t) = n
  OBVIOUS
<1>2. \A i \in 1 .. n : n + 1 - i \in 1 .. n /\ n + 1 - (n + 1 - i) = i
  OBVIOUS
<1>3. \A t \in [1 .. n -> V] : R(t) = [i \in 1 .. n |-> t[n + 1 - i]]
  BY <1>1 DEF R
<1>4. \A t \in [1 .. n -> V] : N(bits, t) = [i \in 1 .. n |-> Swapped(bits, t[i])]
  BY <1>1 DEF N, Swapped
<1>5. \A t \in [1 .. n -> V] : Q(bits, t) = [i \in 1 .. n |-> Mirrored(bits, t[i])]
  BY <1>1 DEF Q, Mirrored
<1>6. \A x \in V :
         /\ Swapped(bits, x) \in V /\ Mirrored(bits, x) \in V
         /\ Swapped(bits, Swapped(bits, x)) = x
         /\ Mirrored(bits, Mirrored(bits, x)) = x
         /\ Mirrored(bits, Swapped(bits, x)) = Swapped(bits, Mirrored(bits, x))
  BY SymbolReflections
<1> HIDE DEF V
<1>7. s \in [1 .. n -> V]
  BY DEF Strip, V
<1>8. \A t \in [1 .. n -> V] : R(t) \in [1 .. n -> V]
  BY <1>2, <1>3
<1>9. \A t \in [1 .. n -> V] : N(bits, t) \in [1 .. n -> V] /\ Q(bits, t) \in [1 .. n -> V]
  BY <1>4, <1>5, <1>6
<1>10. PICK r \in [1 .. n -> V] : r = R(s)
  BY <1>7, <1>8
<1>11. PICK a \in [1 .. n -> V], b \in [1 .. n -> V] : a = N(bits, s) /\ b = Q(bits, s)
  BY <1>7, <1>9
<1>12. R(r) = s
  BY <1>2, <1>3, <1>7, <1>10
<1>13. N(bits, a) = s
  BY <1>4, <1>6, <1>7, <1>11
<1>14. Q(bits, b) = s
  BY <1>5, <1>6, <1>7, <1>11
<1>15. N(bits, r) = R(a)
  <2>1. N(bits, r) = [i \in 1 .. n |-> Swapped(bits, s[n + 1 - i])]
    BY <1>2, <1>3, <1>4, <1>7, <1>10
  <2>2. R(a) = [i \in 1 .. n |-> a[n + 1 - i]]
    BY <1>3
  <2>3. \A i \in 1 .. n : a[i] = Swapped(bits, s[i])
    BY <1>4, <1>7, <1>11
  <2>4. \A i \in 1 .. n : a[n + 1 - i] = Swapped(bits, s[n + 1 - i])
    BY <1>2, <2>3
  <2> QED
    BY <2>1, <2>2, <2>4
<1>16. Q(bits, r) = R(b)
  <2>1. Q(bits, r) = [i \in 1 .. n |-> Mirrored(bits, s[n + 1 - i])]
    BY <1>2, <1>3, <1>5, <1>7, <1>10
  <2>2. R(b) = [i \in 1 .. n |-> b[n + 1 - i]]
    BY <1>3
  <2>3. \A i \in 1 .. n : b[i] = Mirrored(bits, s[i])
    BY <1>5, <1>7, <1>11
  <2>4. \A i \in 1 .. n : b[n + 1 - i] = Mirrored(bits, s[n + 1 - i])
    BY <1>2, <2>3
  <2> QED
    BY <2>1, <2>2, <2>4
<1>17. Q(bits, a) = N(bits, b)
  BY <1>4, <1>5, <1>6, <1>7, <1>11
<1>18. [1 .. n -> V] = Strip(bits, n)
  BY DEF Strip, V
<1> QED
  BY <1>10, <1>11, <1>12, <1>13, <1>14, <1>15, <1>16, <1>17, <1>18

\* A composition of reflections restores what it showed.
LEMMA CubeRestores ==
    ASSUME NEW mask, NEW bits \in FloorBits, NEW n \in Nat, NEW s \in Strip(bits, n)
    PROVE  /\ ApplyCube(mask, bits, s) \in Strip(bits, n)
           /\ ApplyCube(mask, bits, ApplyCube(mask, bits, s)) = s
<1> DEFINE F == Strip(bits, n)
           Turned(t) == IF HasBit(mask, 0) THEN R(t) ELSE t
           Flipped(t) == IF HasBit(mask, 1) THEN N(bits, t) ELSE t
           Folded(t) == IF HasBit(mask, 2) THEN Q(bits, t) ELSE t
<1>1. \A t : ApplyCube(mask, bits, t) = Folded(Flipped(Turned(t)))
  BY DEF ApplyCube
<1>2. /\ \A t \in F : R(t) \in F /\ N(bits, t) \in F /\ Q(bits, t) \in F
      /\ \A t \in F : R(R(t)) = t /\ N(bits, N(bits, t)) = t /\ Q(bits, Q(bits, t)) = t
      /\ \A t \in F : N(bits, R(t)) = R(N(bits, t)) /\ Q(bits, R(t)) = R(Q(bits, t))
                      /\ Q(bits, N(bits, t)) = N(bits, Q(bits, t))
  BY Reflections
<1> HIDE DEF F
<1>3. \A t \in F : Turned(t) \in F /\ Flipped(t) \in F /\ Folded(t) \in F
  BY <1>2
<1>4. \A t \in F : Turned(Turned(t)) = t /\ Flipped(Flipped(t)) = t /\ Folded(Folded(t)) = t
  BY <1>2
<1>5. \A t \in F : /\ Flipped(Turned(t)) = Turned(Flipped(t))
                   /\ Folded(Turned(t)) = Turned(Folded(t))
                   /\ Folded(Flipped(t)) = Flipped(Folded(t))
  BY <1>2
<1>6. s \in F
  BY DEF F
<1> HIDE DEF Turned, Flipped, Folded
<1>7. PICK a \in F : a = Turned(s)
  BY <1>3, <1>6
<1>8. PICK b \in F : b = Flipped(a)
  BY <1>3
<1>9. PICK c \in F : c = Folded(b)
  BY <1>3
<1>10. Folded(Flipped(Turned(c))) = s
  <2>1. Turned(c) = Folded(Turned(b))
    BY <1>5, <1>9
  <2>2. PICK d \in F : d = Turned(b)
    BY <1>3
  <2>3. Flipped(Folded(d)) = Folded(Flipped(d))
    BY <1>5
  <2>4. Flipped(d) = s
    <3>1. d = Flipped(Turned(a))
      BY <1>5, <1>8, <2>2
    <3>2. Turned(a) = s
      BY <1>4, <1>6, <1>7
    <3> QED
      BY <1>4, <1>6, <3>1, <3>2
  <2>5. Folded(Folded(s)) = s
    BY <1>4, <1>6
  <2> QED
    BY <2>1, <2>2, <2>3, <2>4, <2>5
<1> QED
  BY <1>1, <1>7, <1>8, <1>9, <1>10 DEF F

LEMMA CubeOfNumbers ==
    ASSUME NEW mask, NEW n \in Nat, NEW s \in [1 .. n -> Nat]
    PROVE  ApplyCube(mask, Bits, s) \in [1 .. n -> Nat]
<1>1. PICK half \in Nat : half = Bits \div 2
  BY Widths
<1>2. PICK h \in Nat \ {0} : h = 2 ^ half
  BY PowersOfTwo
<1>3. ASSUME NEW t \in [1 .. n -> Nat] PROVE R(t) \in [1 .. n -> Nat]
  <2>1. Len(t) = n
    OBVIOUS
  <2>2. \A i \in 1 .. n : n + 1 - i \in 1 .. n
    OBVIOUS
  <2> QED
    BY <2>1, <2>2 DEF R
<1>4. ASSUME NEW t \in [1 .. n -> Nat] PROVE N(Bits, t) \in [1 .. n -> Nat]
  <2>1. ASSUME NEW x \in Nat PROVE ((x % h) * h) + ((x \div h) % h) \in Nat
    <3>1. x % h \in Nat /\ x \div h \in Nat
      OBVIOUS
    <3>2. (x \div h) % h \in Nat /\ (x % h) * h \in Nat
      BY <3>1
    <3> QED
      BY <3>2
  <2>2. N(Bits, t) = [i \in 1 .. n |-> ((t[i] % h) * h) + ((t[i] \div h) % h)]
    BY <1>1, <1>2 DEF N
  <2> QED
    BY <2>1, <2>2
<1>5. ASSUME NEW t \in [1 .. n -> Nat] PROVE Q(Bits, t) \in [1 .. n -> Nat]
  <2>1. ASSUME NEW x \in Nat
        PROVE  ReverseBits(x \div h, half) * h + ReverseBits(x % h, half) \in Nat
    <3>1. x % h \in Nat /\ x \div h \in Nat
      OBVIOUS
    <3>2. PICK a \in Nat, b \in Nat : a = ReverseBits(x \div h, half) /\ b = ReverseBits(x % h, half)
      BY <3>1, ReversedNumber
    <3>3. a * h + b \in Nat
      OBVIOUS
    <3> QED
      BY <3>2, <3>3
  <2>2. Q(Bits, t) = [i \in 1 .. n |-> ReverseBits(t[i] \div h, half) * h
                                       + ReverseBits(t[i] % h, half)]
    BY <1>1, <1>2 DEF Q
  <2> QED
    BY <2>1, <2>2
<1> QED
  BY <1>3, <1>4, <1>5 DEF ApplyCube

LEMMA SectorSourceIn ==
    ASSUME NEW id \in Sectors, NEW n \in Nat, NEW i \in 0 .. n - 1
    PROVE  SectorSource(id, n, i) \in 0 .. n - 1
<1>1. PICK start \in 0 .. i, len \in 1 .. 12 :
         start = ChunkStart(i, 12) /\ len = ChunkLen(i, 12, n) /\ start + len <= n
  BY ChunkOfPosition
<1>2. ((i - start) + (id - 8)) % len \in 0 .. len - 1
  BY DEF Sectors
<1> QED
  BY <1>1, <1>2 DEF SectorSource

LEMMA FacesOfPosition ==
    ASSUME NEW count \in Nat, NEW i \in 0 .. count - 1
    PROVE  /\ ChunkStart(i, 20) \in 0 .. i
           /\ ChunkLen(i, 20, count) \in 1 .. 20
           /\ i - ChunkStart(i, 20) \in 0 .. ChunkLen(i, 20, count) - 1
           /\ ChunkStart(i, 20) + ChunkLen(i, 20, count) <= count
           /\ ChunkStart(i, 20) % 20 = 0
BY DEF ChunkStart, ChunkLen

LEMMA SameFaces ==
    ASSUME NEW count \in Nat, NEW i \in 0 .. count - 1,
           NEW t \in 0 .. ChunkLen(i, 20, count) - 1
    PROVE  /\ ChunkStart(i, 20) + t \in 0 .. count - 1
           /\ ChunkStart(ChunkStart(i, 20) + t, 20) = ChunkStart(i, 20)
           /\ ChunkLen(ChunkStart(i, 20) + t, 20, count) = ChunkLen(i, 20, count)
<1> DEFINE start == ChunkStart(i, 20)
           n == ChunkLen(i, 20, count)
<1>1. /\ start \in Nat /\ n \in 1 .. 20 /\ start + n <= count /\ (start % 20) = 0
  BY FacesOfPosition
<1>2. start + t \in 0 .. count - 1
  BY <1>1
<1>3. ChunkStart(start + t, 20) = start
  <2>1. t \in 0 .. 19
    BY <1>1
  <2>2. (start + t) % 20 = t
    <3> HIDE DEF start
    <3> QED
      BY <1>1, <2>1
  <2> QED
    BY <1>1, <2>1, <2>2 DEF ChunkStart
<1>4. ChunkLen(start + t, 20, count) = n
  BY <1>3 DEF ChunkLen
<1> QED
  BY <1>2, <1>3, <1>4

\* The place a lens takes a symbol from, and the place its inverse does.
LensSource(id, count, i) ==
    ChunkStart(i, 20) + LensOrder(id, ChunkLen(i, 20, count))[i - ChunkStart(i, 20) + 1]

LensTarget(id, count, i) ==
    LET order == LensOrder(id, ChunkLen(i, 20, count))
    IN ChunkStart(i, 20) + (CHOOSE k \in DOMAIN order : order[k] = i - ChunkStart(i, 20)) - 1

LEMMA LensSources ==
    ASSUME NEW id \in Lenses, NEW count \in Nat, NEW i \in 0 .. count - 1
    PROVE  /\ LensSource(id, count, i) \in 0 .. count - 1
           /\ LensTarget(id, count, i) \in 0 .. count - 1
           /\ LensSource(id, count, LensTarget(id, count, i)) = i
<1>1. PICK start \in 0 .. i, n \in 1 .. 20 :
         /\ start = ChunkStart(i, 20) /\ n = ChunkLen(i, 20, count)
         /\ i - start \in 0 .. n - 1 /\ start + n <= count
  BY FacesOfPosition
<1>2. PICK o \in 0 .. n - 1 : o = i - start /\ start + o = i
  BY <1>1
<1>3. PICK order \in [1 .. n -> 0 .. n - 1] :
         /\ order = LensOrder(id, n)
         /\ \A place \in 0 .. n - 1 : \E k \in 1 .. n : order[k] = place
  BY LensesArePermutations
<1>4. LensSource(id, count, i) \in 0 .. count - 1
  <2>1. LensSource(id, count, i) = start + order[o + 1]
    BY <1>1, <1>2, <1>3 DEF LensSource
  <2>2. PICK p \in 0 .. n - 1 : p = order[o + 1]
    <3>1. o + 1 \in 1 .. n
      BY <1>2
    <3> QED
      BY <3>1
  <2>3. start + p \in 0 .. count - 1
    <3>1. start \in Nat /\ start + n <= count
      BY <1>1
    <3> QED
      BY <3>1
  <2> QED
    BY <2>1, <2>2, <2>3
<1>5. PICK k \in 1 .. n : k = (CHOOSE j \in 1 .. n : order[j] = o) /\ order[k] = o
  BY <1>3
<1>6. PICK t \in 0 .. n - 1 : t = k - 1 /\ t + 1 = k
  OBVIOUS
<1>7. LensTarget(id, count, i) = start + t
  <2>1. LensTarget(id, count, i) = start + k - 1
    BY <1>1, <1>2, <1>3, <1>5 DEF LensTarget
  <2> QED
    BY <1>6, <2>1
<1>8. /\ start + t \in 0 .. count - 1
      /\ ChunkStart(start + t, 20) = start
      /\ ChunkLen(start + t, 20, count) = n
  BY <1>1, SameFaces
<1>9. LensSource(id, count, start + t) = i
  <2>1. PICK p \in Int : p = start + t
    OBVIOUS
  <2>2. p - start + 1 = k
    BY <1>6, <2>1
  <2>3. LensSource(id, count, p) = start + order[k]
    BY <1>3, <1>8, <2>1, <2>2 DEF LensSource
  <2> QED
    BY <1>2, <1>5, <2>1, <2>3
<1> QED
  BY <1>4, <1>7, <1>8, <1>9

\* The place a sector or a lens takes a symbol from.
SourceOf(id, count, i) ==
    IF id \in Sectors THEN SectorSource(id, count, i) ELSE LensSource(id, count, i)

TargetOf(id, count, i) ==
    IF id \in Sectors THEN SectorTarget(id, count, i) ELSE LensTarget(id, count, i)

LEMMA SourcesOf ==
    ASSUME NEW id \in Sectors \cup Lenses, NEW count \in Nat, NEW i \in 0 .. count - 1
    PROVE  /\ SourceOf(id, count, i) \in 0 .. count - 1
           /\ TargetOf(id, count, i) \in 0 .. count - 1
           /\ SourceOf(id, count, TargetOf(id, count, i)) = i
<1>1. CASE id \in Sectors
  BY <1>1, SectorSourceIn, SourceOfTarget DEF SourceOf, TargetOf
<1>2. CASE id \notin Sectors
  BY <1>2, LensSources DEF SourceOf, TargetOf
<1> QED
  BY <1>1, <1>2

\* What is moved, and what is moved back.
Moved(id, n, s) == [j \in 1 .. n |-> s[SourceOf(id, n, j - 1) + 1]]
MovedBack(id, n, s) == [j \in 1 .. n |-> s[TargetOf(id, n, j - 1) + 1]]

LEMMA MovedAndBack ==
    ASSUME NEW id \in Sectors \cup Lenses, NEW S, NEW n \in Nat, NEW s \in [1 .. n -> S]
    PROVE  /\ Moved(id, n, s) \in [1 .. n -> S]
           /\ DOMAIN Moved(id, n, s) = 1 .. n /\ Len(Moved(id, n, s)) = n
           /\ MovedBack(id, n, Moved(id, n, s)) = s
<1>1. ASSUME NEW j \in 1 .. n PROVE s[SourceOf(id, n, j - 1) + 1] \in S
  <2>1. j - 1 \in 0 .. n - 1
    OBVIOUS
  <2>2. PICK p \in 0 .. n - 1 : p = SourceOf(id, n, j - 1)
    BY <2>1, SourcesOf
  <2>3. p + 1 \in 1 .. n
    BY <2>2
  <2> QED
    BY <2>2, <2>3
<1>2. Moved(id, n, s) \in [1 .. n -> S]
  BY <1>1 DEF Moved
<1>3. DOMAIN Moved(id, n, s) = 1 .. n /\ Len(Moved(id, n, s)) = n
  <2>1. PICK view \in [1 .. n -> S] : view = Moved(id, n, s)
    BY <1>2
  <2>2. DOMAIN view = 1 .. n /\ Len(view) = n
    OBVIOUS
  <2> QED
    BY <2>1, <2>2
<1>4. ASSUME NEW j \in 1 .. n PROVE Moved(id, n, s)[TargetOf(id, n, j - 1) + 1] = s[j]
  <2>1. j - 1 \in 0 .. n - 1 /\ (j - 1) + 1 = j
    OBVIOUS
  <2>2. PICK p \in 0 .. n - 1 : p = TargetOf(id, n, j - 1) /\ SourceOf(id, n, p) = j - 1
    BY <2>1, SourcesOf
  <2>3. p + 1 \in 1 .. n /\ (p + 1) - 1 = p
    BY <2>2
  <2>4. Moved(id, n, s)[p + 1] = s[SourceOf(id, n, p) + 1]
    BY <2>3 DEF Moved
  <2> QED
    BY <2>1, <2>2, <2>4
<1>5. MovedBack(id, n, Moved(id, n, s)) = [j \in 1 .. n |-> s[j]]
  BY <1>4 DEF MovedBack
<1>6. s = [j \in 1 .. n |-> s[j]]
  OBVIOUS
<1> QED
  BY <1>2, <1>3, <1>5, <1>6

LEMMA AppliedIs ==
    ASSUME NEW id \in Sectors \cup Lenses, NEW bits, NEW n \in Nat, NEW s, DOMAIN s = 1 .. n, Len(s) = n
    PROVE  /\ Apply(id, bits, s) = Moved(id, n, s)
           /\ Invert(id, bits, s) = MovedBack(id, n, s)
<1>1. id \notin Cube
  BY DEF Cube, Sectors, Lenses
<1>2. CASE id \in Sectors
  <2>1. id \notin Lenses
    BY <1>2 DEF Sectors, Lenses
  <2>2. Apply(id, bits, s) = ApplySector(id, s)
    BY <1>1, <1>2, <2>1, Zenon DEF Apply
  <2>3. Invert(id, bits, s) = InvertSector(id, s)
    BY <1>1, <1>2, <2>1, Zenon DEF Invert
  <2> QED
    BY <1>2, <2>2, <2>3
       DEF Moved, MovedBack, ApplySector, InvertSector, Gathered, SourceOf, TargetOf
<1>3. CASE id \in Lenses
  <2>1. id \notin Sectors
    BY <1>3 DEF Sectors, Lenses
  <2>2. Apply(id, bits, s) = ApplyLens(id, s)
    BY <1>1, <1>3, <2>1, Zenon DEF Apply
  <2>3. Invert(id, bits, s) = InvertLens(id, s)
    BY <1>1, <1>3, <2>1, Zenon DEF Invert
  <2> QED
    BY <2>1, <2>2, <2>3
       DEF Moved, MovedBack, ApplyLens, InvertLens, Gathered, SourceOf, TargetOf, LensSource, LensTarget
<1> QED
  BY <1>2, <1>3

\* Every operator keeps symbols in their alphabet and restores what it showed,
\* at every width and length.
THEOREM OperatorsRestore ==
    ASSUME NEW id \in Operators, NEW bits \in FloorBits, NEW n \in Nat, NEW s \in Strip(bits, n)
    PROVE  /\ Apply(id, bits, s) \in Strip(bits, n)
           /\ Invert(id, bits, Apply(id, bits, s)) = s
<1>1. CASE id \in Cube
  <2>1. id \notin Sectors /\ id \notin Lenses
    BY <1>1 DEF Cube, Sectors, Lenses
  <2>2. \A t : Apply(id, bits, t) = ApplyCube(id, bits, t)
    BY <1>1, <2>1, Zenon DEF Apply
  <2>3. \A t : Invert(id, bits, t) = ApplyCube(id, bits, t)
    BY <1>1, <2>1, Zenon DEF Invert, InverseId
  <2> QED
    BY <2>2, <2>3, CubeRestores
<1>2. CASE id \notin Cube
  <2>1. id \in Sectors \cup Lenses
    BY <1>2 DEF Operators, Cube, Sectors, Lenses
  <2> DEFINE V == 0 .. 2 ^ bits - 1
  <2>2. Strip(bits, n) = [1 .. n -> V]
    BY DEF Strip
  <2> HIDE DEF V
  <2>3. s \in [1 .. n -> V]
    BY <2>2
  <2>4. DOMAIN s = 1 .. n /\ Len(s) = n
    BY <2>3
  <2>5. Apply(id, bits, s) = Moved(id, n, s)
    BY <2>1, <2>4, AppliedIs
  <2>6. /\ Moved(id, n, s) \in [1 .. n -> V]
        /\ DOMAIN Moved(id, n, s) = 1 .. n /\ Len(Moved(id, n, s)) = n
        /\ MovedBack(id, n, Moved(id, n, s)) = s
    BY <2>1, <2>3, MovedAndBack, SMTT(30)
  <2>7. PICK view : view = Moved(id, n, s)
    OBVIOUS
  <2>8. Invert(id, bits, view) = MovedBack(id, n, view)
    BY <2>1, <2>6, <2>7, AppliedIs
  <2> QED
    BY <2>2, <2>5, <2>6, <2>7, <2>8
<1> QED
  BY <1>1, <1>2

\* Through the view of the identity a window is seen as through the operator.
LEMMA WindowIsView ==
    ASSUME NEW id \in Operators, NEW bits, NEW S, NEW n \in Nat, NEW s \in [1 .. n -> S]
    PROVE  CanonicalWindow(id, bits, s) = Apply(id, bits, s)
<1>1. CASE id \in Cube
  BY <1>1 DEF CanonicalWindow
<1>2. CASE id \notin Cube
  <2>1. id \in Sectors \cup Lenses
    BY <1>2 DEF Operators, Cube, Sectors, Lenses
  <2>2. PICK places : places = [i \in 1 .. n |-> i - 1]
    OBVIOUS
  <2>3. DOMAIN places = 1 .. n /\ Len(places) = n /\ DOMAIN s = 1 .. n /\ Len(s) = n
    BY <2>2
  <2>4. PICK view : view = Apply(id, 12, places)
    OBVIOUS
  <2>5. view = Moved(id, n, places)
    BY <2>1, <2>3, <2>4, AppliedIs
  <2>6. Apply(id, bits, s) = Moved(id, n, s)
    BY <2>1, <2>3, AppliedIs
  <2>7. CanonicalWindow(id, bits, s) = [j \in 1 .. n |-> s[view[j] + 1]]
    BY <1>2, <2>2, <2>3, <2>4 DEF CanonicalWindow
  <2>8. ASSUME NEW j \in 1 .. n PROVE view[j] = SourceOf(id, n, j - 1)
    <3>1. PICK p \in 0 .. n - 1 : p = SourceOf(id, n, j - 1)
      <4>1. j - 1 \in 0 .. n - 1
        OBVIOUS
      <4> QED
        BY <2>1, <4>1, SourcesOf
    <3>2. p + 1 \in 1 .. n /\ (p + 1) - 1 = p
      OBVIOUS
    <3> QED
      BY <2>2, <2>5, <3>1, <3>2 DEF Moved
  <2> QED
    BY <2>6, <2>7, <2>8 DEF Moved
<1> QED
  BY <1>1, <1>2

\* Whatever an expert looks through, it sees numbers where there were numbers.
LEMMA WindowOfNumbers ==
    ASSUME NEW id \in Operators, NEW n \in 1 .. Window, NEW s \in [1 .. n -> Nat]
    PROVE  CanonicalWindow(id, Bits, s) \in [1 .. n -> Nat]
<1>1. n \in Nat /\ DOMAIN s = 1 .. n /\ Len(s) = n
  <2>1. Window \in 1 .. 20
    BY HookAssumption
  <2> QED
    BY <2>1
<1>2. CanonicalWindow(id, Bits, s) = Apply(id, Bits, s)
  BY <1>1, WindowIsView
<1>3. CASE id \in Cube
  <2>1. id \notin Sectors /\ id \notin Lenses
    BY <1>3 DEF Cube, Sectors, Lenses
  <2>2. Apply(id, Bits, s) = ApplyCube(id, Bits, s)
    BY <1>3, <2>1, Zenon DEF Apply
  <2> QED
    <3>1. ApplyCube(id, Bits, s) \in [1 .. n -> Nat]
      BY <1>1, CubeOfNumbers
    <3> QED
      BY <1>2, <2>2, <3>1
<1>4. CASE id \notin Cube
  <2>1. id \in Sectors \cup Lenses
    BY <1>4 DEF Operators, Cube, Sectors, Lenses
  <2>2. Apply(id, Bits, s) = Moved(id, n, s)
    BY <1>1, <2>1, AppliedIs
  <2>3. Moved(id, n, s) \in [1 .. n -> Nat]
    BY <1>1, <2>1, MovedAndBack
  <2> QED
    BY <1>2, <2>2, <2>3
<1> QED
  BY <1>3, <1>4

LEMMA SummedNumbers ==
    ASSUME NEW f \in [Operators -> Nat]
    PROVE  Summed(f) \in Nat /\ Summed(f) >= f[0]
<1> DEFINE Turn(u, k) == u + f[k - 1]
           F == [x \in (1 .. 40) \X Nat |-> Turn(x[2], x[1])]
           Body(g) == [k \in 0 .. 40 |-> IF k = 0 THEN 0 ELSE Turn(g[k - 1], k)]
           v == CHOOSE g : g = Body(g)
<1>1. Summed(f) = v[40]
  BY DEF Summed
<1>2. ASSUME NEW k \in 1 .. 40, NEW u \in Nat PROVE Turn(u, k) \in Nat /\ Turn(u, k) >= u
  <2>1. k - 1 \in Operators
    BY DEF Operators
  <2>2. f[k - 1] \in Nat
    BY <2>1
  <2> QED
    BY <2>2
<1>3. Turn(0, 1) = f[0]
  <2>1. 0 \in Operators /\ 1 - 1 = 0
    BY DEF Operators
  <2>2. f[0] \in Nat
    BY <2>1
  <2> QED
    BY <2>1, <2>2
<1> HIDE DEF Turn
<1>4. v = Body(v)
  <2>1. F \in [(1 .. 40) \X Nat -> Nat] /\ 0 \in Nat
    BY <1>2
  <2>2. \A k \in 1 .. 40 : \A u \in Nat : F[<<k, u>>] = Turn(u, k)
    OBVIOUS
  <2> HIDE DEF F
  <2>3. PICK g \in Runs(Nat, 0, F, 40) : TRUE
    <3>1. 40 \in Nat
      OBVIOUS
    <3>2. Runs(Nat, 0, F, 40) # {}
      BY <2>1, <3>1, LoopRuns
    <3> QED
      BY <3>2
  <2>4. /\ g \in [0 .. 40 -> Nat] /\ g[0] = 0
        /\ \A k \in 1 .. 40 : g[k] = F[<<k, g[k - 1]>>]
    BY <2>3 DEF Runs
  <2>5. ASSUME NEW k \in 1 .. 40 PROVE g[k] = Turn(g[k - 1], k)
    <3>1. k - 1 \in 0 .. 40
      OBVIOUS
    <3> QED
      BY <2>2, <2>4, <3>1
  <2>6. g = Body(g)
    <3>1. \A k \in 0 .. 40 : g[k] = IF k = 0 THEN 0 ELSE Turn(g[k - 1], k)
      BY <2>4, <2>5
    <3> QED
      BY <2>4, <3>1
  <2> QED
    BY <2>6
<1> HIDE DEF v
<1>5. v[0] = 0 /\ \A k \in 1 .. 40 : v[k] = Turn(v[k - 1], k)
  <2>1. Body(v)[0] = 0 /\ \A k \in 1 .. 40 : Body(v)[k] = Turn(v[k - 1], k)
    OBVIOUS
  <2> HIDE DEF Body
  <2> QED
    BY <1>4, <2>1
<1>6. f[0] \in Nat
  <2>1. 0 \in Operators
    BY DEF Operators
  <2> QED
    BY <2>1
<1> DEFINE P == {k \in 0 .. 40 : v[k] \in Nat /\ (k # 0 => v[k] >= f[0])}
<1>7. 0 \in P
  BY <1>5
<1>8. ASSUME NEW k \in 1 .. 40, k - 1 \in P PROVE k \in P
  <2>1. PICK u \in Nat : u = v[k - 1] /\ v[k] = Turn(u, k)
    BY <1>5, <1>8
  <2>2. v[k] \in Nat /\ v[k] >= u
    BY <1>2, <2>1
  <2>3. CASE k = 1
    BY <1>3, <1>5, <1>6, <2>1, <2>2, <2>3
  <2>4. CASE k # 1
    <3>1. k - 1 # 0
      BY <2>4
    <3>2. u >= f[0]
      BY <1>8, <2>1, <3>1
    <3> QED
      BY <1>6, <2>2, <3>2
  <2> QED
    BY <2>3, <2>4
<1> HIDE DEF P
<1>9. 0 .. 40 \subseteq P
  BY <1>7, <1>8, EveryTurn
<1>10. 40 \in P
  BY <1>9
<1> QED
  BY <1>1, <1>10 DEF P

LEMMA ShuffledNumbers ==
    ASSUME NEW n \in 1 .. Window, NEW values \in [1 .. n -> Nat], NEW position \in Positions
    PROVE  Shuffled(values, position) \in [1 .. n -> Nat]
<1> DEFINE S == [1 .. n -> Nat]
           Turn(v, k) == LET i == n - k
                             j == Swap(position, n, i)
                         IN [v EXCEPT ![i + 1] = v[j + 1], ![j + 1] = v[i + 1]]
           F == [x \in (1 .. n - 1) \X S |-> Turn(x[2], x[1])]
           Body(g) == [k \in 0 .. n - 1 |-> IF k = 0 THEN values ELSE Turn(g[k - 1], k)]
           after == CHOOSE g : g = Body(g)
<1>0. n \in Nat \ {0} /\ n - 1 \in Nat /\ Len(values) = n
  <2>1. Window \in 1 .. 20
    BY HookAssumption
  <2> QED
    BY <2>1
<1>1. Shuffled(values, position) = after[n - 1]
  BY <1>0 DEF Shuffled
<1>2. ASSUME NEW k \in 1 .. n - 1, NEW v \in S PROVE Turn(v, k) \in S
  <2>1. PICK i \in 1 .. n - 1 : i = n - k
    BY <1>0
  <2>2. PICK j \in 0 .. i : j = Swap(position, n, i)
    BY HookAssumption
  <2>3. i + 1 \in 1 .. n /\ j + 1 \in 1 .. n
    BY <1>0
  <2>4. PICK a \in Nat, b \in Nat : a = v[j + 1] /\ b = v[i + 1]
    BY <2>3
  <2>5. [[v EXCEPT ![i + 1] = a] EXCEPT ![j + 1] = b] \in S
    BY <2>3
  <2>6. Turn(v, k) = [v EXCEPT ![i + 1] = a, ![j + 1] = b]
    BY <2>1, <2>2, <2>4
  <2> QED
    BY <2>5, <2>6
<1> HIDE DEF S, Turn
<1>3. after = Body(after)
  <2>1. F \in [(1 .. n - 1) \X S -> S] /\ values \in S
    BY <1>2 DEF S
  <2>2. \A k \in 1 .. n - 1 : \A u \in S : F[<<k, u>>] = Turn(u, k)
    OBVIOUS
  <2> HIDE DEF F
  <2>3. PICK g \in Runs(S, values, F, n - 1) : TRUE
    <3>1. Runs(S, values, F, n - 1) # {}
      BY <1>0, <2>1, LoopRuns
    <3> QED
      BY <3>1
  <2>4. /\ g \in [0 .. n - 1 -> S] /\ g[0] = values
        /\ \A k \in 1 .. n - 1 : g[k] = F[<<k, g[k - 1]>>]
    BY <2>3 DEF Runs
  <2>5. ASSUME NEW k \in 1 .. n - 1 PROVE g[k] = Turn(g[k - 1], k)
    <3>1. k - 1 \in 0 .. n - 1
      BY <1>0
    <3> QED
      BY <2>2, <2>4, <3>1
  <2>6. g = Body(g)
    <3>1. \A k \in 0 .. n - 1 : g[k] = IF k = 0 THEN values ELSE Turn(g[k - 1], k)
      BY <1>0, <2>4, <2>5
    <3> QED
      BY <2>4, <3>1
  <2> QED
    BY <2>6
<1> HIDE DEF after
<1>4. after[0] = values /\ \A k \in 1 .. n - 1 : after[k] = Turn(after[k - 1], k)
  <2>1. Body(after)[0] = values /\ \A k \in 1 .. n - 1 : Body(after)[k] = Turn(after[k - 1], k)
    BY <1>0
  <2> HIDE DEF Body
  <2> QED
    BY <1>3, <2>1
<1> DEFINE P == {k \in 0 .. n - 1 : after[k] \in S}
<1>5. 0 \in P
  BY <1>0, <1>4 DEF S
<1>6. ASSUME NEW k \in 1 .. n - 1, k - 1 \in P PROVE k \in P
  BY <1>2, <1>4, <1>6
<1> HIDE DEF P
<1>7. 0 .. n - 1 \subseteq P
  BY <1>0, <1>5, <1>6, EveryTurn
<1>8. n - 1 \in P
  BY <1>0, <1>7
<1> QED
  BY <1>1, <1>8 DEF P, S

LEMMA BaseOfNumbers ==
    ASSUME NEW c, NEW history \in Seq(Nat), history # <<>>, NEW position \in Positions
    PROVE  \E n \in 1 .. Window : Base(c, history, position) \in [1 .. n -> Nat]
<1>1. PICK m \in Nat \ {0} : m = Len(history)
  OBVIOUS
<1>2. PICK w \in Nat \ {0} : w = Window
  <2>1. Window \in 1 .. 20
    BY HookAssumption
  <2> QED
    BY <2>1
<1>3. PICK first \in 1 .. m : /\ first = IF m > Window THEN m - Window + 1 ELSE 1
                              /\ (m - first) + 1 \in 1 .. w
  <2>1. CASE m > w
    <3>1. (m - w) + 1 \in 1 .. m /\ m - ((m - w) + 1) + 1 = w
      BY <2>1
    <3>2. m - Window + 1 = (m - w) + 1 /\ m > Window
      BY <1>2, <2>1
    <3> QED
      BY <3>1, <3>2
  <2>2. CASE ~(m > w)
    <3>1. 1 \in 1 .. m /\ (m - 1) + 1 \in 1 .. w
      BY <2>2
    <3> QED
      BY <1>2, <2>2, <3>1
  <2> QED
    BY <2>1, <2>2
<1>4. PICK n \in 1 .. Window : n = (m - first) + 1 /\ n \in Nat
  <2>1. (m - first) + 1 \in 1 .. Window /\ (m - first) + 1 \in Nat
    BY <1>2, <1>3
  <2> QED
    BY <2>1
<1>5. PICK base : base = SubSeq(history, first, m)
  OBVIOUS
<1>6. base \in [1 .. n -> Nat]
  <2>1. history \in Seq(Nat) /\ m \in Nat /\ m = Len(history)
    BY <1>1
  <2>2. first \in 1 .. m /\ n = (m - first) + 1
    BY <1>3, <1>4
  <2>3. base \in Seq(Nat) /\ Len(base) = n
    BY <1>5, <2>1, <2>2
  <2> HIDE <1>5
  <2> QED
    BY <2>3
<1>7. Base(c, history, position) = IF c = "ShufflePriorHistory" THEN Shuffled(base, position) ELSE base
  BY <1>1, <1>3, <1>5 DEF Base
<1>8. n \in 1 .. Window /\ n \in Nat
  BY <1>4
<1>9. Shuffled(base, position) \in [1 .. n -> Nat]
  BY <1>6, <1>8, ShuffledNumbers
<1> QED
  BY <1>6, <1>7, <1>8, <1>9

LEMMA CandidatesAreNumbers ==
    ASSUME NEW c, NEW history \in Seq(Nat), NEW position \in Positions
    PROVE  Candidates(c, history, position) \in [Operators -> Nat]
<1>1. CASE history = <<>>
  BY <1>1 DEF Candidates
<1>2. CASE history # <<>>
  <2>1. PICK base : base = Base(c, history, position)
    OBVIOUS
  <2>2. PICK n \in 1 .. Window : base \in [1 .. n -> Nat]
    BY <1>2, <2>1, BaseOfNumbers
  <2>3. Len(base) = n /\ n \in Nat \ {0}
    <3>1. Window \in 1 .. 20
      BY HookAssumption
    <3> QED
      BY <2>2, <3>1
  <2>4. position \in Nat
    BY DEF Positions
  <2>5. ASSUME NEW operator \in Operators
        PROVE  AffineEncode(CanonicalWindow(operator, Bits, base)
                                [((position + operator) % Len(base)) + 1], operator) \in Nat
    <3>1. PICK view \in [1 .. n -> Nat] : view = CanonicalWindow(operator, Bits, base)
      BY <2>2, WindowOfNumbers
    <3>2. ((position + operator) % n) + 1 \in 1 .. n
      BY <2>3, <2>4 DEF Operators
    <3>3. PICK x \in Nat : x = view[((position + operator) % n) + 1]
      BY <3>2
    <3>4. operator + 1 \in 1 .. 40
      BY DEF Operators
    <3>5. PICK book \in [multiplier : Nat, offset : Nat] : book = Codebooks[operator + 1]
      BY <3>4, HookAssumption
    <3>6. x * book.multiplier + book.offset \in Nat
      OBVIOUS
    <3>7. (x * book.multiplier + book.offset) % Size \in Nat
      BY <3>6, Widths
    <3> QED
      BY <2>3, <3>1, <3>3, <3>5, <3>7 DEF AffineEncode
  <2>6. Candidates(c, history, position)
        = [operator \in Operators |->
              IF operator \in Effective(c)
                THEN AffineEncode(CanonicalWindow(operator, Bits, base)
                                      [((position + operator) % Len(base)) + 1], operator)
                ELSE 0]
    BY <1>2, <2>1 DEF Candidates
  <2> QED
    BY <2>5, <2>6
<1> QED
  BY <1>1, <1>2
-----------------------------------------------------------------------------
(* Banks of experts.                                                       *)

Experts == [weight : 1 .. MaxWeight, hits : Nat, seen : Nat]
Banks == [Operators -> Experts]
States == [bank : Banks, history : Seq(Values)]

LEMMA WeightsAreBounded == MaxWeight \in Nat \ {0}
BY HookAssumption

LEMMA FreshIsState == Fresh \in States
<1>1. [weight |-> 1, hits |-> 0, seen |-> 0] \in Experts
  BY WeightsAreBounded DEF Experts
<1>2. NewBank \in Banks
  BY <1>1 DEF NewBank, Banks
<1>3. <<>> \in Seq(Values)
  OBVIOUS
<1> QED
  BY <1>2, <1>3 DEF Fresh, States

\* Operator 0 votes under every control, so that there is a mean to take.
LEMMA PredictionIsNumber ==
    ASSUME NEW c, NEW bank \in Banks, NEW candidates \in [Operators -> Nat]
    PROVE  Prediction(c, bank, candidates) \in Nat
<1>1. PICK weight : weight = [operator \in Operators |->
                                 IF operator \in Effective(c) THEN bank[operator].weight ELSE 0]
  OBVIOUS
<1>2. ASSUME NEW operator \in Operators PROVE bank[operator].weight \in Nat \ {0}
  BY WeightsAreBounded DEF Banks, Experts
<1>3. weight \in [Operators -> Nat]
  BY <1>1, <1>2
<1>4. weight[0] \in Nat \ {0}
  <2>1. 0 \in Operators /\ 0 \in Effective(c)
    BY DEF Operators, Effective
  <2> QED
    BY <1>1, <1>2, <2>1
<1>5. PICK total \in Nat \ {0} : total = Summed(weight)
  <2>1. Summed(weight) \in Nat /\ Summed(weight) >= weight[0]
    BY <1>3, SummedNumbers
  <2> QED
    BY <1>4, <2>1
<1>6. PICK products \in [Operators -> Nat] :
         products = [operator \in Operators |-> weight[operator] * candidates[operator]]
  <2>1. \A operator \in Operators : weight[operator] * candidates[operator] \in Nat
    <3> TAKE operator \in Operators
    <3>1. PICK a \in Nat, b \in Nat : a = weight[operator] /\ b = candidates[operator]
      BY <1>3
    <3>2. a * b \in Nat
      OBVIOUS
    <3> QED
      BY <3>1, <3>2
  <2> QED
    BY <2>1
<1>7. PICK sum \in Nat : sum = Summed(products)
  BY SummedNumbers
<1>8. (sum + (total \div 2)) \div total \in Nat
  OBVIOUS
<1>9. ((sum + (total \div 2)) \div total) % Size \in Nat
  BY <1>8, Widths
<1>10. Prediction(c, bank, candidates) = ((sum + (total \div 2)) \div total) % Size
  BY <1>1, <1>5, <1>6, <1>7 DEF Prediction
<1> QED
  BY <1>9, <1>10

LEMMA UpdatedIsBank ==
    ASSUME NEW c, NEW bank \in Banks, NEW candidates, NEW actual
    PROVE  Updated(c, bank, candidates, actual) \in Banks
<1>1. ASSUME NEW e \in Experts
      PROVE  /\ [weight |-> IF e.weight + 3 > MaxWeight THEN MaxWeight ELSE e.weight + 3,
                 hits |-> e.hits + 1, seen |-> e.seen + 1] \in Experts
             /\ [weight |-> IF e.weight > 2 THEN e.weight - 1 ELSE 1,
                 hits |-> e.hits, seen |-> e.seen + 1] \in Experts
  <2>1. PICK top \in Nat \ {0} : top = MaxWeight
    BY WeightsAreBounded
  <2>2. e.weight \in 1 .. top /\ e.hits \in Nat /\ e.seen \in Nat
    BY <2>1 DEF Experts
  <2>3. /\ (IF e.weight + 3 > top THEN top ELSE e.weight + 3) \in 1 .. top
        /\ (IF e.weight > 2 THEN e.weight - 1 ELSE 1) \in 1 .. top
    BY <2>2
  <2>4. e.hits + 1 \in Nat /\ e.seen + 1 \in Nat
    BY <2>2
  <2> QED
    BY <2>1, <2>2, <2>3, <2>4 DEF Experts
<1>2. \A operator \in Operators : bank[operator] \in Experts
  BY DEF Banks
<1>3. \A operator \in Operators : Updated(c, bank, candidates, actual)[operator] \in Experts
  <2> TAKE operator \in Operators
  <2>1. PICK e \in Experts : e = bank[operator]
    BY <1>2
  <2>2. \/ Updated(c, bank, candidates, actual)[operator] = e
        \/ Updated(c, bank, candidates, actual)[operator]
           = [weight |-> IF e.weight + 3 > MaxWeight THEN MaxWeight ELSE e.weight + 3,
              hits |-> e.hits + 1, seen |-> e.seen + 1]
        \/ Updated(c, bank, candidates, actual)[operator]
           = [weight |-> IF e.weight > 2 THEN e.weight - 1 ELSE 1,
              hits |-> e.hits, seen |-> e.seen + 1]
    BY <2>1 DEF Updated
  <2> QED
    BY <1>1, <2>2
<1>4. Updated(c, bank, candidates, actual)
      = [operator \in Operators |-> Updated(c, bank, candidates, actual)[operator]]
  BY DEF Updated
<1> QED
  BY <1>3, <1>4 DEF Banks

LEMMA AskedNumbers ==
    ASSUME NEW c, NEW s \in States, NEW position \in Positions
    PROVE  /\ Ask(c, s, position).prediction \in Nat
           /\ Ask(c, s, position).bank \in Banks
           /\ Ask(c, s, position).history \in Seq(Values)
<1>1. PICK t \in States : t = Reset(c, s, position)
  BY FreshIsState DEF Reset
<1>2. t.bank \in Banks /\ t.history \in Seq(Values) /\ t.history \in Seq(Nat)
  <2>1. t.bank \in Banks /\ t.history \in Seq(Values)
    BY DEF States
  <2> QED
    BY <2>1, Widths, SequenceOfMore
<1>3. PICK candidates \in [Operators -> Nat] : candidates = Candidates(c, t.history, position)
  BY <1>2, CandidatesAreNumbers
<1>4. PICK prediction \in Nat :
         prediction = IF t.history = <<>> THEN 0 ELSE Prediction(c, t.bank, candidates)
  BY <1>2, PredictionIsNumber
<1>5. Ask(c, s, position) = [bank |-> t.bank, history |-> t.history, candidates |-> candidates,
                             prediction |-> prediction]
  BY <1>1, <1>3, <1>4 DEF Ask
<1> QED
  BY <1>2, <1>5

LEMMA LearnedState ==
    ASSUME NEW c, NEW s \in States, NEW position \in Positions, NEW actual \in Values
    PROVE  Learn(c, Ask(c, s, position), actual) \in States
<1>1. PICK asked : asked = Ask(c, s, position)
  OBVIOUS
<1>2. asked.bank \in Banks /\ asked.history \in Seq(Values)
  BY <1>1, AskedNumbers
<1>3. Updated(c, asked.bank, asked.candidates, actual) \in Banks
  BY <1>2, UpdatedIsBank
<1>4. Append(asked.history, actual) \in Seq(Values)
  BY <1>2
<1> QED
  BY <1>1, <1>3, <1>4 DEF Learn, States
-----------------------------------------------------------------------------
(* What is written of a residual.                                          *)

LEMMA WrittenValue ==
    ASSUME NEW value \in Nat, NEW width \in Nat
    PROVE  /\ WriteValue(value, width) \in Seq({0, 1})
           /\ Len(WriteValue(value, width)) = width
           /\ \A k \in 1 .. width : WriteValue(value, width)[k] = (value \div 2 ^ (width - k)) % 2
<1>1. \A k \in 1 .. width : (value \div 2 ^ (width - k)) % 2 \in {0, 1}
  <2> TAKE k \in 1 .. width
  <2>1. width - k \in Nat
    OBVIOUS
  <2>2. PICK a \in Nat \ {0} : a = 2 ^ (width - k)
    BY <2>1, PowersOfTwo
  <2>3. (value \div a) % 2 \in {0, 1}
    OBVIOUS
  <2> QED
    BY <2>2, <2>3
<1>2. WriteValue(value, width) \in [1 .. width -> {0, 1}]
  BY <1>1 DEF WriteValue
<1>3. \A k \in 1 .. width : WriteValue(value, width)[k] = (value \div 2 ^ (width - k)) % 2
  BY DEF WriteValue
<1>4. PICK bits \in [1 .. width -> {0, 1}] : bits = WriteValue(value, width)
  BY <1>2
<1> QED
  BY <1>3, <1>4

\* Quotient and remainder by the step, side by side, are the bits of the residual.
LEMMA ResidualIsWritten ==
    ASSUME NEW r \in Nat
    PROVE  /\ ResidualBits(r) \in Seq({0, 1})
           /\ Len(ResidualBits(r)) = Bits
           /\ \A k \in 1 .. Bits : ResidualBits(r)[k] = (r \div 2 ^ (Bits - k)) % 2
<1>1. PICK low \in 0 .. Bits : Step = 2 ^ low /\ RemainderBits = low
  <2>1. \E k \in 0 .. Bits : Step = 2 ^ k
    BY HookAssumption
  <2> QED
    BY <2>1 DEF RemainderBits
<1>2. PICK high \in Nat : high = Bits - low /\ low \in Nat /\ Bits = high + low
  <2>1. Bits - low \in Nat /\ low \in Nat /\ Bits = (Bits - low) + low
    BY Widths
  <2> QED
    BY <2>1
<1>3. PICK d \in Nat \ {0} : d = 2 ^ low
  BY <1>2, PowersOfTwo
<1>4. PICK quotient \in Nat, rest \in Nat : quotient = r \div d /\ rest = r % d
  OBVIOUS
<1>5. PICK a, b : a = WriteValue(quotient, high) /\ b = WriteValue(rest, low)
  OBVIOUS
<1>6. /\ a \in Seq({0, 1}) /\ Len(a) = high
      /\ \A k \in 1 .. high : a[k] = (quotient \div 2 ^ (high - k)) % 2
  BY <1>5, WrittenValue
<1>7. /\ b \in Seq({0, 1}) /\ Len(b) = low
      /\ \A k \in 1 .. low : b[k] = (rest \div 2 ^ (low - k)) % 2
  BY <1>2, <1>5, WrittenValue
<1>8. ResidualBits(r) = a \o b
  BY <1>1, <1>2, <1>3, <1>4, <1>5 DEF ResidualBits
<1>9. PICK bits : bits = a \o b
  OBVIOUS
<1>10. /\ bits \in Seq({0, 1}) /\ Len(bits) = Bits
       /\ \A k \in 1 .. high : bits[k] = a[k]
       /\ \A k \in 1 .. low : bits[high + k] = b[k]
  <2>1. bits \in Seq({0, 1}) /\ Len(bits) = high + low
    BY <1>6, <1>7, <1>9, Joined
  <2>2. \A k \in 1 .. high : bits[k] = a[k]
    BY <1>6, <1>7, <1>9
  <2>3. \A k \in 1 .. low : bits[high + k] = b[k]
    <3> TAKE k \in 1 .. low
    <3>1. high + k \in 1 .. high + low /\ ~(high + k <= high) /\ (high + k) - high = k
      OBVIOUS
    <3> QED
      BY <1>6, <1>7, <1>9, <3>1
  <2> QED
    BY <1>2, <2>1, <2>2, <2>3
<1>11. ASSUME NEW k \in 1 .. Bits PROVE bits[k] = (r \div 2 ^ (Bits - k)) % 2
  <2>1. CASE k \in 1 .. high
    <3>1. high - k \in Nat /\ low + (high - k) = Bits - k
      BY <1>2, <2>1
    <3>2. PICK e \in Nat : e = high - k
      BY <3>1
    <3>3. PICK t : t = Bits - k /\ t = low + e
      BY <3>1, <3>2
    <3>4. (r \div 2 ^ low) \div 2 ^ e = r \div 2 ^ t
      BY <1>2, <3>2, <3>3, DividedTwice
    <3>5. quotient \div 2 ^ (high - k) = r \div 2 ^ (Bits - k)
      BY <1>3, <1>4, <3>2, <3>3, <3>4
    <3> QED
      BY <1>6, <1>10, <2>1, <3>5
  <2>2. CASE k \notin 1 .. high
    <3>1. PICK e \in 1 .. low : k = high + e /\ low - e = Bits - k /\ low - e \in 0 .. low - 1
      <4>1. k - high \in 1 .. low /\ k = high + (k - high) /\ low - (k - high) = Bits - k
            /\ low - (k - high) \in 0 .. low - 1
        BY <1>2, <2>2
      <4> QED
        BY <4>1
    <3>2. PICK j \in 0 .. low - 1 : j = low - e
      BY <3>1
    <3>3. ((r % 2 ^ low) \div 2 ^ j) % 2 = (r \div 2 ^ j) % 2
      BY <1>2, LowBits
    <3>4. (rest \div 2 ^ (low - e)) % 2 = (r \div 2 ^ (low - e)) % 2
      BY <1>3, <1>4, <3>2, <3>3
    <3>5. bits[k] = b[e]
      BY <1>10, <3>1
    <3> QED
      BY <1>7, <3>1, <3>4, <3>5
  <2> QED
    BY <2>1, <2>2
<1> QED
  BY <1>8, <1>9, <1>10, <1>11
-----------------------------------------------------------------------------
(* A coder, symbol after symbol.                                           *)

MaxSymbols == Ceiling(MaxBytes * ByteBits, Bits)

LEMMA PlacesOfSymbols ==
    /\ MaxSymbols \in Nat
    /\ \A k \in 1 .. MaxSymbols : k - 1 \in Positions
<1>1. MaxBytes * ByteBits \in Nat
  <2>1. MaxBytes \in Nat
    BY HookAssumption
  <2> QED
    BY <2>1, Widths
<1>2. MaxSymbols \in Nat
  BY <1>1, Widths, CeilingFacts DEF MaxSymbols
<1>3. PICK m \in Nat : m = MaxSymbols
  BY <1>2
<1>4. Positions = 0 .. m - 1
  BY <1>3 DEF Positions, MaxSymbols
<1> QED
  BY <1>3, <1>4

\* The strings of symbols there are.
Strings == {values \in Seq(Values) : Len(values) <= MaxSymbols}

\* The states of a coder, symbol after symbol.
Trace(c, values) ==
    CHOOSE f : f = [position \in 0 .. Len(values) |->
        IF position = 0 THEN Fresh
        ELSE Learn(c, Ask(c, f[position - 1], position - 1), values[position])]

LEMMA TraceIs ==
    ASSUME NEW c, NEW values \in Strings
    PROVE  /\ Trace(c, values)[0] = Fresh
           /\ \A k \in 1 .. Len(values) :
                 Trace(c, values)[k] = Learn(c, Ask(c, Trace(c, values)[k - 1], k - 1), values[k])
           /\ \A k \in 0 .. Len(values) : Trace(c, values)[k] \in States
<1>0. PICK m \in Nat : m = Len(values) /\ m <= MaxSymbols /\ values \in Seq(Values)
  BY DEF Strings
<1> DEFINE Turn(s, k) == Learn(c, Ask(c, s, k - 1), values[k])
           F == [x \in (1 .. m) \X States |-> Turn(x[2], x[1])]
           Body(f) == [k \in 0 .. m |-> IF k = 0 THEN Fresh ELSE Turn(f[k - 1], k)]
           v == CHOOSE f : f = Body(f)
<1>1. Trace(c, values) = v
  BY <1>0 DEF Trace
<1>2. ASSUME NEW k \in 1 .. m, NEW s \in States PROVE Turn(s, k) \in States
  <2>1. k \in 1 .. MaxSymbols
    BY <1>0, PlacesOfSymbols
  <2>2. k - 1 \in Positions /\ values[k] \in Values
    BY <1>0, <2>1, PlacesOfSymbols
  <2> QED
    BY <2>2, LearnedState
<1> HIDE DEF Turn
<1>3. v = Body(v)
  <2>1. F \in [(1 .. m) \X States -> States] /\ Fresh \in States
    BY <1>2, FreshIsState
  <2>2. \A k \in 1 .. m : \A s \in States : F[<<k, s>>] = Turn(s, k)
    OBVIOUS
  <2> HIDE DEF F
  <2>3. PICK g \in Runs(States, Fresh, F, m) : TRUE
    <3>1. Runs(States, Fresh, F, m) # {}
      BY <2>1, LoopRuns
    <3> QED
      BY <3>1
  <2>4. /\ g \in [0 .. m -> States] /\ g[0] = Fresh
        /\ \A k \in 1 .. m : g[k] = F[<<k, g[k - 1]>>]
    BY <2>3 DEF Runs
  <2>5. ASSUME NEW k \in 1 .. m PROVE g[k] = Turn(g[k - 1], k)
    <3>1. k - 1 \in 0 .. m
      OBVIOUS
    <3> QED
      BY <2>2, <2>4, <3>1
  <2>6. g = Body(g)
    <3>1. \A k \in 0 .. m : g[k] = IF k = 0 THEN Fresh ELSE Turn(g[k - 1], k)
      BY <2>4, <2>5
    <3> QED
      BY <2>4, <3>1
  <2> QED
    BY <2>6
<1> HIDE DEF v
<1>4. v[0] = Fresh /\ \A k \in 1 .. m : v[k] = Turn(v[k - 1], k)
  <2>1. Body(v)[0] = Fresh /\ \A k \in 1 .. m : Body(v)[k] = Turn(v[k - 1], k)
    OBVIOUS
  <2> HIDE DEF Body
  <2> QED
    BY <1>3, <2>1
<1> DEFINE P == {k \in 0 .. m : v[k] \in States}
<1>5. 0 \in P
  BY <1>4, FreshIsState
<1>6. ASSUME NEW k \in 1 .. m, k - 1 \in P PROVE k \in P
  BY <1>2, <1>4, <1>6
<1> HIDE DEF P
<1>7. 0 .. m \subseteq P
  BY <1>5, <1>6, EveryTurn
<1>8. \A k \in 0 .. m : v[k] \in States
  BY <1>7 DEF P
<1> QED
  BY <1>0, <1>1, <1>4, <1>8 DEF Turn

\* Strings that begin alike are traced alike.
LEMMA TracesAgree ==
    ASSUME NEW c, NEW values \in Strings, NEW others \in Strings, NEW m \in Nat,
           m <= Len(values), m <= Len(others), \A k \in 1 .. m : values[k] = others[k]
    PROVE  \A k \in 0 .. m : Trace(c, values)[k] = Trace(c, others)[k]
<1>1. PICK f, g : f = Trace(c, values) /\ g = Trace(c, others)
  OBVIOUS
<1>2. Len(values) \in Nat /\ Len(others) \in Nat
  BY DEF Strings
<1>3. f[0] = g[0]
  BY <1>1, TraceIs
<1>4. ASSUME NEW k \in 1 .. m, f[k - 1] = g[k - 1] PROVE f[k] = g[k]
  <2>1. k \in 1 .. Len(values) /\ k \in 1 .. Len(others)
    BY <1>2
  <2>2. f[k] = Learn(c, Ask(c, f[k - 1], k - 1), values[k])
    BY <1>1, <2>1, TraceIs
  <2>3. g[k] = Learn(c, Ask(c, g[k - 1], k - 1), others[k])
    BY <1>1, <2>1, TraceIs
  <2> QED
    BY <1>4, <2>2, <2>3
<1> DEFINE P == {k \in 0 .. m : f[k] = g[k]}
<1>5. 0 \in P
  BY <1>3
<1>6. \A k \in 1 .. m : k - 1 \in P => k \in P
  BY <1>4
<1> HIDE DEF P
<1>7. 0 .. m \subseteq P
  BY <1>5, <1>6, EveryTurn
<1> QED
  BY <1>1, <1>7 DEF P

\* The vote before a symbol, and what is written of the symbol.
Vote(c, values, k) == Ask(c, Trace(c, values)[k - 1], k - 1).prediction
Residual(c, values, k) == (values[k] - Vote(c, values, k)) % Size

LEMMA ResidualIsValue ==
    ASSUME NEW c, NEW values \in Strings, NEW k \in 1 .. Len(values)
    PROVE  /\ Vote(c, values, k) \in Nat /\ Residual(c, values, k) \in Values
           /\ (Vote(c, values, k) + Residual(c, values, k)) % Size = values[k]
<1>1. PICK m \in Nat : m = Len(values) /\ m <= MaxSymbols /\ values \in Seq(Values)
  BY DEF Strings
<1>2. k - 1 \in Positions /\ k - 1 \in 0 .. m /\ values[k] \in Values
  <2>1. k \in 1 .. MaxSymbols
    BY <1>1, PlacesOfSymbols
  <2> QED
    BY <1>1, <2>1, PlacesOfSymbols
<1>3. PICK s \in States : s = Trace(c, values)[k - 1]
  BY <1>1, <1>2, TraceIs
<1>4. PICK vote \in Nat : vote = Vote(c, values, k)
  BY <1>2, <1>3, AskedNumbers DEF Vote
<1>5. PICK size \in Nat \ {0} : size = Size /\ Values = 0 .. size - 1
  BY Widths
<1>6. PICK x \in 0 .. size - 1 : x = values[k]
  BY <1>2, <1>5
<1>7. PICK r \in 0 .. size - 1 : r = (x - vote) % size
  OBVIOUS
<1>8. (vote + r) % size = x
  <2>1. PICK q \in Int : x - vote = (size * q) + r
    <3>1. (x - vote) \div size \in Int /\ x - vote = (size * ((x - vote) \div size)) + r
      BY <1>7
    <3> QED
      BY <3>1
  <2>2. PICK a \in Int, b \in Int : a = size * q /\ b = -q /\ size * b = -a
    <3>1. size * q \in Int /\ -q \in Int /\ size * (-q) = -(size * q)
      OBVIOUS
    <3> QED
      BY <3>1
  <2>3. vote + r = (size * b) + x
    BY <2>1, <2>2
  <2>4. vote + r \in Int
    OBVIOUS
  <2> QED
    BY <2>3, <2>4, QuotientIs
<1> QED
  BY <1>4, <1>5, <1>6, <1>7, <1>8 DEF Residual
-----------------------------------------------------------------------------
(* The body of a payload.                                                  *)

\* A body has the residuals of values, each at the place ReadResidual reads it.
Spells(bits, c, values, m) ==
    /\ bits \in Seq({0, 1}) /\ Len(bits) = Bits * m
    /\ \A n \in 0 .. m - 1, k \in 1 .. Bits :
          BitAt(bits, (n * Bits) + k) = (Residual(c, values, n + 1) \div 2 ^ (Bits - k)) % 2

LEMMA SpellsMore ==
    ASSUME NEW c, NEW values \in Strings, NEW m \in Nat, m + 1 <= Len(values),
           NEW bits, Spells(bits, c, values, m),
           NEW more, more = bits \o ResidualBits(Residual(c, values, m + 1))
    PROVE  Spells(more, c, values, m + 1)
<1>1. PICK r \in Nat : r = Residual(c, values, m + 1)
  <2>1. Len(values) \in Nat
    BY DEF Strings
  <2>2. m + 1 \in 1 .. Len(values)
    BY <2>1
  <2> QED
    BY <2>2, ResidualIsValue, Widths
<1>2. PICK tail : tail = ResidualBits(r)
  OBVIOUS
<1>3. /\ tail \in Seq({0, 1}) /\ Len(tail) = Bits
      /\ \A k \in 1 .. Bits : tail[k] = (r \div 2 ^ (Bits - k)) % 2
  BY <1>2, ResidualIsWritten
<1>4. PICK size \in Nat : size = Bits * m /\ size = m * Bits /\ Bits * (m + 1) = size + Bits
  BY Widths
<1>5. bits \in Seq({0, 1}) /\ Len(bits) = size
  BY <1>4 DEF Spells
<1>6. more \in Seq({0, 1}) /\ Len(more) = size + Bits
  BY <1>1, <1>2, <1>3, <1>5, Joined
<1>7. \A p \in 1 .. size : BitAt(more, p) = BitAt(bits, p)
  <2> TAKE p \in 1 .. size
  <2>1. p <= Len(more) /\ p <= Len(bits)
    BY <1>4, <1>5, <1>6, Widths
  <2>2. more[p] = bits[p]
    BY <1>1, <1>2, <1>3, <1>5
  <2> QED
    BY <2>1, <2>2 DEF BitAt
<1>8. \A k \in 1 .. Bits : BitAt(more, size + k) = tail[k]
  <2> TAKE k \in 1 .. Bits
  <2>1. size + k \in 1 .. size + Bits /\ ~(size + k <= size) /\ (size + k) - size = k
    BY Widths
  <2>2. more[size + k] = tail[k]
    <3>1. more = bits \o tail
      BY <1>1, <1>2
    <3>2. k \in 1 .. Len(tail) /\ tail \in Seq({0, 1}) /\ bits \in Seq({0, 1})
      BY <1>3, <1>5
    <3>3. (bits \o tail)[Len(bits) + k] = tail[k]
      BY <3>2, JoinedAt
    <3> QED
      BY <1>5, <3>1, <3>3
  <2> QED
    BY <1>6, <2>1, <2>2 DEF BitAt
<1>9. ASSUME NEW n \in 0 .. m, NEW k \in 1 .. Bits
      PROVE  BitAt(more, (n * Bits) + k) = (Residual(c, values, n + 1) \div 2 ^ (Bits - k)) % 2
  <2>1. CASE n = m
    BY <1>1, <1>3, <1>4, <1>8, <2>1
  <2>2. CASE n # m
    <3>1. n \in 0 .. m - 1
      BY <2>2
    <3>2. PICK p \in 1 .. size : p = (n * Bits) + k
      BY <1>4, <3>1, Widths, PlaceOfBit
    <3>3. BitAt(bits, p) = (Residual(c, values, n + 1) \div 2 ^ (Bits - k)) % 2
      BY <3>1, <3>2 DEF Spells
    <3> QED
      BY <1>7, <3>2, <3>3
  <2> QED
    BY <2>1, <2>2
<1>10. (m + 1) - 1 = m
  OBVIOUS
<1> QED
  BY <1>4, <1>6, <1>9, <1>10 DEF Spells

LEMMA EncodedSpells ==
    ASSUME NEW c, NEW values \in Strings
    PROVE  Spells(Encoded(c, values), c, values, Len(values))
<1>0. PICK m \in Nat : m = Len(values) /\ m <= MaxSymbols /\ values \in Seq(Values)
  BY DEF Strings
<1> DEFINE Bodies == [state : States, bits : Seq({0, 1})]
           Spelled(asked, k) == ResidualBits((values[k] - asked.prediction) % Size)
           Turn(s, k) == LET asked == Ask(c, s.state, k - 1)
                         IN [state |-> Learn(c, asked, values[k]), bits |-> s.bits \o Spelled(asked, k)]
           start == [state |-> Fresh, bits |-> <<>>]
           F == [x \in (1 .. m) \X Bodies |-> Turn(x[2], x[1])]
           Body(f) == [k \in 0 .. m |-> IF k = 0 THEN start ELSE Turn(f[k - 1], k)]
           v == CHOOSE f : f = Body(f)
<1>1. Encoded(c, values) = v[m].bits
  BY <1>0 DEF Encoded
<1>2. ASSUME NEW k \in 1 .. m, NEW s \in Bodies PROVE Turn(s, k) \in Bodies
  <2>1. k \in 1 .. MaxSymbols
    BY <1>0, PlacesOfSymbols
  <2>2. k - 1 \in Positions /\ values[k] \in Values
    BY <1>0, <2>1, PlacesOfSymbols
  <2>3. PICK asked : asked = Ask(c, s.state, k - 1)
    OBVIOUS
  <2>4. asked.prediction \in Nat /\ Learn(c, asked, values[k]) \in States
    BY <2>2, <2>3, AskedNumbers, LearnedState
  <2>5. (values[k] - asked.prediction) % Size \in Nat
    <3>1. PICK size \in Nat \ {0} : size = Size
      BY Widths
    <3>2. PICK x \in Nat : x = values[k]
      BY <2>2, Widths
    <3>3. (x - asked.prediction) % size \in Nat
      BY <2>4
    <3> QED
      BY <3>1, <3>2, <3>3
  <2>6. s.bits \o Spelled(asked, k) \in Seq({0, 1})
    BY <2>5, ResidualIsWritten, Joined
  <2> HIDE DEF Spelled
  <2> QED
    BY <2>3, <2>4, <2>6
<1>3. start \in Bodies
  BY FreshIsState
<1> HIDE DEF Turn, start, Bodies
<1>4. v = Body(v)
  <2>1. F \in [(1 .. m) \X Bodies -> Bodies]
    BY <1>2
  <2>2. \A k \in 1 .. m : \A s \in Bodies : F[<<k, s>>] = Turn(s, k)
    OBVIOUS
  <2> HIDE DEF F
  <2>3. PICK g \in Runs(Bodies, start, F, m) : TRUE
    <3>1. Runs(Bodies, start, F, m) # {}
      BY <1>3, <2>1, LoopRuns
    <3> QED
      BY <3>1
  <2>4. /\ g \in [0 .. m -> Bodies] /\ g[0] = start
        /\ \A k \in 1 .. m : g[k] = F[<<k, g[k - 1]>>]
    BY <2>3 DEF Runs
  <2>5. ASSUME NEW k \in 1 .. m PROVE g[k] = Turn(g[k - 1], k)
    <3>1. k - 1 \in 0 .. m
      OBVIOUS
    <3> QED
      BY <2>2, <2>4, <3>1
  <2>6. g = Body(g)
    <3>1. \A k \in 0 .. m : g[k] = IF k = 0 THEN start ELSE Turn(g[k - 1], k)
      BY <2>4, <2>5
    <3> QED
      BY <2>4, <3>1
  <2> QED
    BY <2>6
<1> HIDE DEF v
<1>5. v[0] = start /\ \A k \in 1 .. m : v[k] = Turn(v[k - 1], k)
  <2>1. Body(v)[0] = start /\ \A k \in 1 .. m : Body(v)[k] = Turn(v[k - 1], k)
    OBVIOUS
  <2> HIDE DEF Body
  <2> QED
    BY <1>4, <2>1
<1> DEFINE P == {k \in 0 .. m : /\ v[k].state = Trace(c, values)[k]
                                /\ Spells(v[k].bits, c, values, k)}
<1>6. 0 \in P
  <2>1. v[0].state = Fresh /\ v[0].bits = <<>>
    BY <1>5 DEF start
  <2>2. Spells(<<>>, c, values, 0)
    <3>1. Bits * 0 = 0 /\ Len(<<>>) = 0 /\ <<>> \in Seq({0, 1}) /\ 0 .. 0 - 1 = {}
      BY Widths
    <3> QED
      BY <3>1 DEF Spells
  <2> QED
    BY <2>1, <2>2, TraceIs
<1>7. ASSUME NEW k \in 1 .. m, k - 1 \in P PROVE k \in P
  <2>1. PICK j \in Nat : j = k - 1 /\ k = j + 1 /\ j + 1 <= Len(values)
    <3>1. k - 1 \in Nat /\ k = (k - 1) + 1
      OBVIOUS
    <3> QED
      BY <1>0, <3>1
  <2>2. PICK s : s = v[j]
    OBVIOUS
  <2>3. s.state = Trace(c, values)[k - 1] /\ Spells(s.bits, c, values, j)
    BY <1>7, <2>1, <2>2
  <2>4. PICK asked : asked = Ask(c, Trace(c, values)[k - 1], k - 1)
    OBVIOUS
  <2>5. v[k] = [state |-> Learn(c, asked, values[k]), bits |-> s.bits \o Spelled(asked, k)]
    BY <1>5, <2>1, <2>2, <2>3, <2>4 DEF Turn
  <2>6. Spelled(asked, k) = ResidualBits(Residual(c, values, j + 1))
    BY <2>1, <2>4 DEF Residual, Vote
  <2> HIDE DEF Spelled
  <2>7. v[k].state = Learn(c, asked, values[k]) /\ v[k].bits = s.bits \o Spelled(asked, k)
    BY <2>5
  <2>8. v[k].state = Trace(c, values)[k]
    BY <1>0, <2>4, <2>7, TraceIs
  <2>9. Spells(v[k].bits, c, values, j + 1)
    BY <2>1, <2>3, <2>6, <2>7, SpellsMore
  <2> QED
    BY <2>1, <2>8, <2>9
<1> HIDE DEF P
<1>8. 0 .. m \subseteq P
  BY <1>6, <1>7, EveryTurn
<1>9. m \in P
  BY <1>8
<1> QED
  BY <1>0, <1>1, <1>9 DEF P

\* The one body there is for a string of symbols: residuals, then zeros.
Filled(body, c, values) ==
    /\ body \in Seq({0, 1})
    /\ Len(body) = ByteBits * Ceiling(Len(values) * Bits, ByteBits)
    /\ \A n \in 0 .. Len(values) - 1, k \in 1 .. Bits :
          BitAt(body, (n * Bits) + k) = (Residual(c, values, n + 1) \div 2 ^ (Bits - k)) % 2
    /\ \A p \in Len(values) * Bits + 1 .. Len(body) : body[p] = 0

LEMMA EncodedFills ==
    ASSUME NEW c, NEW values \in Strings
    PROVE  Filled(Padded(Encoded(c, values)), c, values)
<1>1. PICK m \in Nat : m = Len(values)
  BY DEF Strings
<1>2. PICK bits : bits = Encoded(c, values)
  OBVIOUS
<1>3. Spells(bits, c, values, m)
  BY <1>1, <1>2, EncodedSpells
<1>4. PICK size \in Nat : size = Bits * m /\ size = m * Bits
  BY Widths
<1>5. bits \in Seq({0, 1}) /\ Len(bits) = size
  BY <1>3, <1>4 DEF Spells
<1>6. PICK zeros : zeros = [i \in 1 .. (-size) % ByteBits |-> 0]
  OBVIOUS
<1>7. PICK z \in Nat : z = (-size) % ByteBits /\ size + z = ByteBits * Ceiling(size, ByteBits)
  <2>1. (-size) % ByteBits \in Nat
    BY Widths
  <2> QED
    BY <2>1, Widths, CeilingFacts
<1>8. zeros \in Seq({0, 1}) /\ Len(zeros) = z /\ \A i \in 1 .. z : zeros[i] = 0
  <2>1. zeros \in [1 .. z -> {0, 1}]
    BY <1>6, <1>7
  <2>2. \A i \in 1 .. z : zeros[i] = 0
    BY <1>6, <1>7
  <2> QED
    BY <2>1, <2>2
<1>9. PICK body : body = bits \o zeros
  OBVIOUS
<1>10. Padded(bits) = body
  BY <1>5, <1>6, <1>9 DEF Padded
<1>11. body \in Seq({0, 1}) /\ Len(body) = size + z
  BY <1>5, <1>8, <1>9, Joined
<1>12. ASSUME NEW p \in 1 .. size PROVE BitAt(body, p) = BitAt(bits, p)
  <2>1. p <= Len(body) /\ p <= Len(bits)
    BY <1>5, <1>11
  <2>2. body[p] = bits[p]
    BY <1>5, <1>8, <1>9
  <2> QED
    BY <2>1, <2>2 DEF BitAt
<1>13. ASSUME NEW n \in 0 .. m - 1, NEW k \in 1 .. Bits
       PROVE  BitAt(body, (n * Bits) + k) = (Residual(c, values, n + 1) \div 2 ^ (Bits - k)) % 2
  <2>1. PICK p \in 1 .. size : p = (n * Bits) + k
    BY <1>4, Widths, PlaceOfBit
  <2>2. BitAt(bits, p) = (Residual(c, values, n + 1) \div 2 ^ (Bits - k)) % 2
    BY <1>3, <2>1 DEF Spells
  <2> QED
    BY <1>12, <2>1, <2>2
<1>14. ASSUME NEW p \in size + 1 .. size + z PROVE body[p] = 0
  <2>1. PICK i \in 1 .. z : p = size + i
    <3>1. p - size \in 1 .. z /\ p = size + (p - size)
      OBVIOUS
    <3> QED
      BY <3>1
  <2>2. i \in 1 .. Len(zeros) /\ bits \in Seq({0, 1}) /\ zeros \in Seq({0, 1})
    BY <1>5, <1>8
  <2>3. (bits \o zeros)[Len(bits) + i] = zeros[i]
    BY <2>2, JoinedAt
  <2> QED
    BY <1>5, <1>8, <1>9, <2>1, <2>3
<1> QED
  BY <1>1, <1>2, <1>4, <1>7, <1>10, <1>11, <1>13, <1>14 DEF Filled

LEMMA FilledOnce ==
    ASSUME NEW c, NEW values \in Strings, NEW a, NEW b, Filled(a, c, values), Filled(b, c, values)
    PROVE  a = b
<1>1. PICK m \in Nat : m = Len(values)
  BY DEF Strings
<1>2. PICK size \in Nat : size = Bits * m /\ size = m * Bits
  BY Widths
<1>3. PICK len \in Nat : len = ByteBits * Ceiling(size, ByteBits) /\ size <= len
  BY <1>2, Widths, CeilingFacts
<1>4. /\ a \in Seq({0, 1}) /\ Len(a) = len
      /\ b \in Seq({0, 1}) /\ Len(b) = len
  BY <1>1, <1>2, <1>3 DEF Filled
<1>5. ASSUME NEW p \in 1 .. len PROVE a[p] = b[p]
  <2>1. CASE p <= size
    <3>1. p \in 1 .. Bits * m
      BY <1>2, <2>1
    <3>2. PICK n \in 0 .. m - 1, k \in 1 .. Bits : p = (n * Bits) + k
      <4>1. Bits \in Nat \ {0}
        BY Widths
      <4> QED
        BY <3>1, <4>1, BitOfPlace
    <3>3. BitAt(a, p) = BitAt(b, p)
      BY <1>1, <3>2 DEF Filled
    <3> QED
      BY <1>4, <3>3 DEF BitAt
  <2>2. CASE ~(p <= size)
    <3>1. p \in size + 1 .. len
      BY <2>2
    <3>2. a[p] = 0 /\ b[p] = 0
      BY <1>1, <1>2, <1>4, <3>1 DEF Filled
    <3> QED
      BY <3>2
  <2> QED
    BY <2>1, <2>2
<1>6. a = [p \in 1 .. len |-> a[p]] /\ b = [p \in 1 .. len |-> b[p]]
  BY <1>4
<1> QED
  BY <1>5, <1>6

\* What is read at the place of a symbol is the residual that was filled in.
LEMMA ReadBack ==
    ASSUME NEW c, NEW values \in Strings, NEW body, Filled(body, c, values),
           NEW n \in 0 .. Len(values) - 1
    PROVE  ValueAt(body, n, Bits) = Residual(c, values, n + 1)
<1>1. Len(values) \in Nat
  BY DEF Strings
<1>2. n + 1 \in 1 .. Len(values) /\ n \in Nat
  BY <1>1
<1>3. PICK r \in 0 .. 2 ^ Bits - 1 : r = Residual(c, values, n + 1)
  BY <1>2, ResidualIsValue DEF Values
<1>4. body \in Seq({0, 1})
      /\ \A k \in 1 .. Bits : BitAt(body, (n * Bits) + k) = (r \div 2 ^ (Bits - k)) % 2
  BY <1>3 DEF Filled
<1>5. Bits \in Nat
  BY Widths
<1>6. ValueAt(body, n, Bits) = r
  BY <1>2, <1>4, <1>5, ValueWithBits
<1> QED
  BY <1>3, <1>6

LEMMA CeilingGrows ==
    ASSUME NEW b \in Nat \ {0}, NEW x \in Nat, NEW y \in Nat, x <= y
    PROVE  Ceiling(x, b) <= Ceiling(y, b)
<1>1. PICK q \in Nat, r \in 0 .. b - 1 : q = Ceiling(x, b) /\ x + b - 1 = (b * q) + r
  <2>1. x + b - 1 \in Nat
    OBVIOUS
  <2>2. /\ (x + b - 1) \div b \in Nat /\ (x + b - 1) % b \in 0 .. b - 1
        /\ x + b - 1 = (b * ((x + b - 1) \div b)) + ((x + b - 1) % b)
    BY <2>1
  <2> QED
    BY <2>2 DEF Ceiling
<1>2. PICK t \in Nat, u \in 0 .. b - 1 : t = Ceiling(y, b) /\ y + b - 1 = (b * t) + u
  <2>1. y + b - 1 \in Nat
    OBVIOUS
  <2>2. /\ (y + b - 1) \div b \in Nat /\ (y + b - 1) % b \in 0 .. b - 1
        /\ y + b - 1 = (b * ((y + b - 1) \div b)) + ((y + b - 1) % b)
    BY <2>1
  <2> QED
    BY <2>2 DEF Ceiling
<1>3. q <= t
  <2> SUFFICES ASSUME ~(q <= t) PROVE FALSE
    OBVIOUS
  <2>1. PICK d \in Nat : q = t + 1 + d
    <3>1. q - t - 1 \in Nat /\ q = t + 1 + (q - t - 1)
      OBVIOUS
    <3> QED
      BY <3>1
  <2>2. b * q = (b * t) + b + (b * d) /\ b * d \in Nat
    BY <2>1
  <2>3. PICK v \in Nat, w \in Nat : v = b * t /\ w = b * d
    BY <2>2
  <2>4. b * q = v + b + w
    BY <2>2, <2>3
  <2> QED
    BY <1>1, <1>2, <2>3, <2>4
<1> QED
  BY <1>1, <1>2, <1>3

\* The symbols of a string of bytes are within their bound.
LEMMA SymbolsOfLength ==
    ASSUME NEW n \in 0 .. MaxBytes
    PROVE  Ceiling(n * ByteBits, Bits) \in Nat /\ Ceiling(n * ByteBits, Bits) <= MaxSymbols
<1>1. PICK most \in Nat : most = MaxBytes
  <2>1. MaxBytes \in Nat
    BY HookAssumption
  <2> QED
    BY <2>1
<1>2. PICK w \in Nat \ {0} : w = ByteBits
  BY Widths
<1>3. PICK rest \in Nat : most = n + rest
  <2>1. most - n \in Nat /\ most = n + (most - n)
    BY <1>1
  <2> QED
    BY <2>1
<1>4. PICK x \in Nat, y \in Nat : x = n * w /\ y = most * w /\ x <= y
  <2>1. n \in Nat
    BY <1>1
  <2>2. n * w \in Nat /\ rest * w \in Nat /\ most * w = (n * w) + (rest * w)
    BY <1>3, <2>1
  <2> QED
    BY <2>2
<1>5. Ceiling(x, Bits) \in Nat /\ Ceiling(x, Bits) <= Ceiling(y, Bits)
  BY <1>4, Widths, CeilingFacts, CeilingGrows
<1> QED
  BY <1>1, <1>2, <1>4, <1>5 DEF MaxSymbols

\* What p3_encode makes of a byte string.
LEMMA EncodedPayload ==
    ASSUME NEW c, NEW bytes \in Seq(Octets), Len(bytes) <= MaxBytes, NEW values,
           values = BytesToSymbols(bytes), NEW p, p = P3Encode(c, bytes)
    PROVE  /\ values \in Strings
           /\ p.symbols = Len(values) /\ p.symbols = Ceiling(Len(bytes) * ByteBits, Bits)
           /\ p.bytes = Ceiling(p.symbols * Bits, ByteBits) /\ p.bytes \in Nat
           /\ p.bytes * ByteBits = Len(p.body)
           /\ Filled(p.body, c, values)
           /\ p = [symbols |-> p.symbols, bytes |-> p.bytes, body |-> p.body]
<1>1. PICK n \in 0 .. MaxBytes : n = Len(bytes)
  <2>1. MaxBytes \in Nat /\ Len(bytes) \in Nat
    <3>1. MaxBytes \in Nat
      BY HookAssumption
    <3> QED
      BY <3>1
  <2> QED
    BY <2>1
<1>2. values \in Seq(Values) /\ Len(values) = Ceiling(n * ByteBits, Bits)
  BY <1>1, SymbolsOfBytes
<1>3. values \in Strings
  BY <1>2, SymbolsOfLength DEF Strings
<1>4. PICK m \in Nat : m = Len(values)
  BY <1>2
<1>5. PICK body : body = Padded(Encoded(c, values)) /\ Filled(body, c, values)
  BY <1>3, EncodedFills
<1>6. p = [symbols |-> m, bytes |-> Ceiling(m * Bits, ByteBits), body |-> body]
  BY <1>4, <1>5 DEF P3Encode
<1>7. PICK w \in Nat : w = Ceiling(m * Bits, ByteBits)
  <2>1. m * Bits \in Nat
    BY Widths
  <2> QED
    BY <2>1, Widths, CeilingFacts
<1>8. p.symbols = m /\ p.bytes = w /\ p.body = body
  BY <1>6, <1>7
<1>9. Len(body) = ByteBits * w /\ ByteBits * w = w * ByteBits
  BY <1>4, <1>5, <1>7, Widths DEF Filled
<1> QED
  BY <1>1, <1>2, <1>3, <1>4, <1>5, <1>6, <1>7, <1>8, <1>9
-----------------------------------------------------------------------------
(* The decoder follows the encoder.                                        *)

Payloads == [symbols : Nat, bytes : Nat, body : Seq({0, 1})]

Honest == payload = P3Encode(control, input) /\ length = Len(input)

CountsAgree ==
    /\ Len(payload.body) = payload.bytes * ByteBits
    /\ payload.symbols = Ceiling(length * ByteBits, Bits)
    /\ payload.bytes = Ceiling(payload.symbols * Bits, ByteBits)
    /\ Len(symbols) <= payload.symbols

\* The decoder is where a coder of its symbols would be, and has read the
\* residuals that coder would have written.
DecoderFollows ==
    /\ dec = Trace(control, symbols)[Len(symbols)]
    /\ \A n \in 1 .. Len(symbols) :
          ValueAt(payload.body, n - 1, Bits) = Residual(control, symbols, n)

DecoderDone ==
    /\ Len(symbols) = payload.symbols
    /\ \A p \in Len(symbols) * Bits + 1 .. Len(payload.body) : payload.body[p] = 0
    /\ TailIsZero(symbols, length)
    /\ output = SymbolsToBytes(symbols, length)

\* What has been decoded is a beginning of what was encoded.
DecodesInput == \A n \in 1 .. Len(symbols) : symbols[n] = BytesToSymbols(input)[n]

PayloadInv ==
    /\ pc \in {"encode", "decode", "done", "rejected"}
    /\ input \in Inputs /\ payload \in Payloads /\ length \in 0 .. MaxBytes
    /\ symbols \in Strings
    /\ pc = "encode" => symbols = <<>> /\ dec = Fresh
    /\ pc \in {"decode", "done"} => CountsAgree /\ DecoderFollows
    /\ pc = "done" => DecoderDone
    /\ Honest => pc # "rejected" /\ DecodesInput

LEMMA InputFacts ==
    ASSUME NEW bytes \in Inputs
    PROVE  bytes \in Seq(Octets) /\ Len(bytes) <= MaxBytes /\ Len(bytes) \in 0 .. MaxBytes
<1>1. bytes \in Seq(0 .. 2 ^ ByteBits - 1) /\ Len(bytes) <= MaxBytes /\ MaxBytes \in Nat
  BY HookAssumption
<1>2. bytes \in Seq(Octets)
  BY <1>1 DEF Octets
<1>3. Len(bytes) \in Nat
  BY <1>2
<1> QED
  BY <1>1, <1>2, <1>3

LEMMA NoSymbols == <<>> \in Strings /\ Len(<<>>) = 0
<1>1. <<>> \in Seq(Values) /\ Len(<<>>) = 0
  OBVIOUS
<1> QED
  BY <1>1, PlacesOfSymbols DEF Strings

LEMMA HookInit ==
    ASSUME Init
    PROVE  PayloadInv
<1>1. payload \in Payloads
  <2>1. <<>> \in Seq({0, 1}) /\ 0 \in Nat
    OBVIOUS
  <2> QED
    BY <2>1 DEF Init, Payloads
<1>2. length \in 0 .. MaxBytes
  <2>1. MaxBytes \in Nat
    BY HookAssumption
  <2> QED
    BY <2>1 DEF Init
<1>3. pc = "encode" /\ input \in Inputs /\ symbols = <<>> /\ dec = Fresh
  BY DEF Init
<1>4. DecodesInput
  BY <1>3, NoSymbols DEF DecodesInput
<1> QED
  BY <1>1, <1>2, <1>3, <1>4, NoSymbols DEF PayloadInv

\* The encoder's own payload passes the checks that come first.
LEMMA HonestStarts ==
    ASSUME NEW c, NEW bytes \in Inputs, NEW p, p = P3Encode(c, bytes)
    PROVE  /\ p.bytes * ByteBits = Len(p.body)
           /\ p.symbols = Ceiling(Len(bytes) * ByteBits, Bits)
           /\ p.bytes = Ceiling(p.symbols * Bits, ByteBits)
           /\ p \in Payloads
<1>1. bytes \in Seq(Octets) /\ Len(bytes) <= MaxBytes
  BY InputFacts
<1>2. PICK values : values = BytesToSymbols(bytes)
  OBVIOUS
<1>3. /\ values \in Strings
      /\ p.symbols = Len(values) /\ p.symbols = Ceiling(Len(bytes) * ByteBits, Bits)
      /\ p.bytes = Ceiling(p.symbols * Bits, ByteBits) /\ p.bytes \in Nat
      /\ p.bytes * ByteBits = Len(p.body)
      /\ Filled(p.body, c, values)
      /\ p = [symbols |-> p.symbols, bytes |-> p.bytes, body |-> p.body]
  BY <1>1, <1>2, EncodedPayload
<1>4. p.symbols \in Nat /\ p.body \in Seq({0, 1})
  <2>1. p.body \in Seq({0, 1})
    BY <1>3 DEF Filled
  <2>2. values \in Seq(Values)
    BY <1>3 DEF Strings
  <2>3. Len(values) \in Nat
    BY <2>2
  <2> QED
    BY <1>3, <2>1, <2>3
<1>5. [symbols |-> p.symbols, bytes |-> p.bytes, body |-> p.body] \in Payloads
  BY <1>3, <1>4 DEF Payloads
<1> QED
  BY <1>3, <1>5

LEMMA StartKeeps ==
    ASSUME PayloadInv, NEW p \in Payloads, NEW n \in 0 .. MaxBytes, Start(p, n)
    PROVE  PayloadInv'
<1>1. /\ pc = "encode" /\ payload' = p /\ length' = n
      /\ UNCHANGED <<control, input, dec, symbols, output>>
      /\ symbols = <<>> /\ dec = Fresh /\ input \in Inputs
  BY DEF Start, PayloadInv
<1>2. PICK checked \in BOOLEAN :
         checked = (/\ p.bytes * ByteBits = Len(p.body)
                    /\ p.symbols = Ceiling(n * ByteBits, Bits)
                    /\ p.bytes = Ceiling(p.symbols * Bits, ByteBits))
  OBVIOUS
<1>3. pc' = IF checked THEN "decode" ELSE "rejected"
  BY <1>2 DEF Start
<1>4. symbols' = <<>> /\ Len(symbols') = 0 /\ symbols' \in Strings
  BY <1>1, NoSymbols
<1>5. ASSUME pc' = "decode" PROVE CountsAgree' /\ DecoderFollows'
  <2>1. checked
    BY <1>3, <1>5
  <2>2. CountsAgree'
    <3>1. p.symbols \in Nat /\ 0 <= p.symbols
      BY DEF Payloads
    <3> QED
      BY <1>1, <1>2, <1>4, <2>1, <3>1 DEF CountsAgree
  <2>3. Trace(control, <<>>)[0] = Fresh
    BY NoSymbols, TraceIs
  <2>4. DecoderFollows'
    BY <1>1, <1>4, <2>3 DEF DecoderFollows
  <2> QED
    BY <2>2, <2>4
<1>6. DecodesInput'
  BY <1>4 DEF DecodesInput
<1>7. Honest' => pc' = "decode"
  <2> SUFFICES ASSUME Honest' PROVE checked
    BY <1>3
  <2>1. p = P3Encode(control, input) /\ n = Len(input)
    BY <1>1 DEF Honest
  <2> QED
    BY <1>1, <1>2, <2>1, HonestStarts
<1> QED
  BY <1>1, <1>3, <1>4, <1>5, <1>6, <1>7 DEF PayloadInv

LEMMA DeliverKeeps ==
    ASSUME PayloadInv, Deliver
    PROVE  PayloadInv'
<1>1. input \in Inputs
  BY DEF PayloadInv
<1>2. P3Encode(control, input) \in Payloads
  BY <1>1, HonestStarts
<1>3. Len(input) \in 0 .. MaxBytes
  BY <1>1, InputFacts
<1>4. PICK p \in Payloads, n \in 0 .. MaxBytes : Start(p, n)
  BY <1>2, <1>3 DEF Deliver
<1> QED
  BY <1>4, StartKeeps

LEMMA DeliverForeignKeeps ==
    ASSUME PayloadInv, DeliverForeign
    PROVE  PayloadInv'
<1>1. PICK n \in 0 .. ForeignBytes, count \in ForeignCounts, bytes \in ForeignCounts :
         \E body \in [1 .. ByteBits * bytes -> {0, 1}] :
             Start([symbols |-> count, bytes |-> bytes, body |-> body], n)
  BY DEF DeliverForeign
<1>2. PICK body \in [1 .. ByteBits * bytes -> {0, 1}] :
         Start([symbols |-> count, bytes |-> bytes, body |-> body], n)
  BY <1>1
<1>3. count \in Nat /\ bytes \in Nat /\ n \in 0 .. MaxBytes
  <2>1. ForeignCounts \subseteq Nat /\ ForeignBytes \in 0 .. MaxBytes /\ MaxBytes \in Nat
    BY HookAssumption
  <2> QED
    BY <2>1
<1>4. body \in Seq({0, 1})
  <2>1. ByteBits * bytes \in Nat
    BY <1>3, Widths
  <2> QED
    BY <2>1
<1>5. PICK p \in Payloads : p = [symbols |-> count, bytes |-> bytes, body |-> body]
  BY <1>3, <1>4 DEF Payloads
<1> QED
  BY <1>2, <1>3, <1>5, StartKeeps

\* Strings that begin alike leave the same residuals.
LEMMA ResidualsAgree ==
    ASSUME NEW c, NEW values \in Strings, NEW others \in Strings, NEW m \in Nat,
           m <= Len(values), m <= Len(others), \A k \in 1 .. m : values[k] = others[k]
    PROVE  \A k \in 1 .. m : Residual(c, values, k) = Residual(c, others, k)
<1> TAKE k \in 1 .. m
<1>1. k - 1 \in 0 .. m
  OBVIOUS
<1>2. Trace(c, values)[k - 1] = Trace(c, others)[k - 1]
  BY <1>1, TracesAgree
<1> QED
  BY <1>2 DEF Residual, Vote

LEMMA ResidualOfSum ==
    ASSUME NEW vote \in Nat, NEW r \in Values
    PROVE  (vote + r) % Size \in Values /\ (((vote + r) % Size) - vote) % Size = r
<1>1. PICK size \in Nat \ {0} : size = Size /\ Values = 0 .. size - 1
  BY Widths
<1>2. PICK q \in Int, x \in 0 .. size - 1 : vote + r = (size * q) + x /\ x = (vote + r) % size
  <2>1. vote + r \in Nat
    BY <1>1
  <2>2. PICK t \in Nat : t = vote + r
    BY <2>1
  <2>3. t \div size \in Int /\ t % size \in 0 .. size - 1 /\ t = (size * (t \div size)) + (t % size)
    OBVIOUS
  <2> QED
    BY <2>2, <2>3
<1>3. PICK a \in Int, b \in Int : a = size * q /\ b = -q /\ size * b = -a
  <2>1. size * q \in Int /\ -q \in Int /\ size * (-q) = -(size * q)
    OBVIOUS
  <2> QED
    BY <2>1
<1>4. r \in 0 .. size - 1
  BY <1>1
<1>5. x - vote = (size * b) + r /\ x - vote \in Int
  BY <1>2, <1>3, <1>4
<1>6. (x - vote) % size = r
  BY <1>4, <1>5, QuotientIs
<1> QED
  BY <1>1, <1>2, <1>6

\* What the decoder is asked next, and the string one symbol longer.
Asked(c, values) == Ask(c, Trace(c, values)[Len(values)], Len(values))
Answer(c, values, r) == (Asked(c, values).prediction + r) % Size
Longer(c, values, r) == Append(values, Answer(c, values, r))

\* One symbol more: the decoder is still where a coder of its symbols would be.
LEMMA FollowsOnce ==
    ASSUME NEW c, NEW values \in Strings, Len(values) < MaxSymbols, NEW r \in Values
    PROVE  /\ Longer(c, values, r) \in Strings
           /\ \A k \in 1 .. Len(values) + 1 :
                 Residual(c, Longer(c, values, r), k)
                 = IF k <= Len(values) THEN Residual(c, values, k) ELSE r
           /\ Trace(c, Longer(c, values, r))[Len(Longer(c, values, r))]
              = Learn(c, Asked(c, values), Answer(c, values, r))
<1>a. PICK n \in Nat : n = Len(values)
  BY DEF Strings
<1>b. PICK more, state, asked, actual :
        /\ state = Trace(c, values)[n] /\ asked = Ask(c, state, n)
        /\ actual = (asked.prediction + r) % Size /\ more = Append(values, actual)
  OBVIOUS
<1>0. /\ n \in Nat /\ n = Len(values) /\ state = Trace(c, values)[n] /\ asked = Ask(c, state, n)
      /\ actual = (asked.prediction + r) % Size /\ more = Append(values, actual)
  BY <1>a, <1>b
<1>1. values \in Seq(Values)
  BY DEF Strings
<1>2. n + 1 \in 1 .. MaxSymbols /\ MaxSymbols \in Nat
  BY <1>0, PlacesOfSymbols
<1>3. n \in Positions
  <2>1. (n + 1) - 1 \in Positions /\ (n + 1) - 1 = n
    BY <1>2, PlacesOfSymbols
  <2> QED
    BY <2>1
<1>4. state \in States
  BY <1>0, TraceIs
<1>5. asked.prediction \in Nat
  BY <1>0, <1>3, <1>4, AskedNumbers
<1>6. actual \in Values /\ (actual - asked.prediction) % Size = r
  BY <1>0, <1>5, ResidualOfSum
<1>7. /\ more \in Seq(Values) /\ Len(more) = n + 1 /\ more[n + 1] = actual
      /\ \A k \in 1 .. n : more[k] = values[k]
  BY <1>0, <1>1, <1>6
<1>8. more \in Strings
  BY <1>2, <1>7 DEF Strings
<1>9. n <= Len(values) /\ n <= Len(more) /\ \A k \in 1 .. n : more[k] = values[k]
  BY <1>0, <1>7
<1>10. \A k \in 0 .. n : Trace(c, more)[k] = Trace(c, values)[k]
  BY <1>a, <1>8, <1>9, TracesAgree
<1>11. \A k \in 1 .. n : Residual(c, more, k) = Residual(c, values, k)
  BY <1>a, <1>8, <1>9, ResidualsAgree
<1>12. Trace(c, more)[n] = state
  BY <1>0, <1>10
<1>13. (n + 1) - 1 = n /\ n + 1 \in 1 .. Len(more)
  BY <1>7
<1>14. Trace(c, more)[n + 1] = Learn(c, asked, actual)
  <2>1. Trace(c, more)[n + 1] = Learn(c, Ask(c, Trace(c, more)[(n + 1) - 1], (n + 1) - 1), more[n + 1])
    BY <1>8, <1>13, TraceIs
  <2>2. asked = Ask(c, state, n) /\ more[n + 1] = actual
    BY <1>0, <1>7
  <2> QED
    BY <1>12, <1>13, <2>1, <2>2
<1>15. Residual(c, more, n + 1) = r
  BY <1>0, <1>6, <1>7, <1>12, <1>13 DEF Residual, Vote
<1>16. Asked(c, values) = asked /\ Answer(c, values, r) = actual /\ Longer(c, values, r) = more
  BY <1>0 DEF Asked, Answer, Longer
<1>17. \A k \in 1 .. n + 1 :
          Residual(c, more, k) = IF k <= n THEN Residual(c, values, k) ELSE r
  <2> TAKE k \in 1 .. n + 1
  <2>1. CASE k \in 1 .. n
    BY <1>0, <1>11, <2>1
  <2>2. CASE k = n + 1
    BY <1>0, <1>15, <2>2
  <2> QED
    BY <1>0, <2>1, <2>2
<1> QED
  BY <1>0, <1>7, <1>8, <1>14, <1>16, <1>17

\* The next symbol of an honest payload is the one that was encoded.
LEMMA HonestSymbol ==
    ASSUME NEW c, NEW values \in Strings, NEW read \in Strings, Len(read) < Len(values),
           \A k \in 1 .. Len(read) : read[k] = values[k],
           NEW body, Filled(body, c, values)
    PROVE  Answer(c, read, ValueAt(body, Len(read), Bits)) = values[Len(read) + 1]
<1>1. PICK n \in Nat, m \in Nat : n = Len(read) /\ m = Len(values)
  BY DEF Strings
<1>2. n \in 0 .. m - 1 /\ n + 1 \in 1 .. m /\ (n + 1) - 1 = n
  BY <1>1
<1>3. ValueAt(body, n, Bits) = Residual(c, values, n + 1)
  BY <1>1, <1>2, ReadBack
<1>4. n <= Len(read) /\ n <= Len(values) /\ n \in 0 .. n
  BY <1>1
<1>5. \A k \in 1 .. n : read[k] = values[k]
  BY <1>1
<1>6. Trace(c, read)[n] = Trace(c, values)[n]
  BY <1>1, <1>4, <1>5, TracesAgree
<1>7. Asked(c, read).prediction = Vote(c, values, n + 1)
  BY <1>1, <1>2, <1>6 DEF Vote, Asked
<1>8. (Vote(c, values, n + 1) + Residual(c, values, n + 1)) % Size = values[n + 1]
  BY <1>1, <1>2, ResidualIsValue
<1> QED
  BY <1>1, <1>3, <1>7, <1>8 DEF Answer

LEMMA DecodeSymbolKeeps ==
    ASSUME PayloadInv, DecodeSymbol
    PROVE  PayloadInv'
<1>1. /\ pc = "decode" /\ Len(symbols) < payload.symbols
      /\ UNCHANGED <<pc, control, input, payload, length, output>>
  BY DEF DecodeSymbol
<1>2. /\ input \in Inputs /\ payload \in Payloads /\ length \in 0 .. MaxBytes
      /\ symbols \in Strings /\ CountsAgree /\ DecoderFollows
      /\ Honest => DecodesInput
  BY <1>1 DEF PayloadInv
<1>3. PICK n \in Nat : n = Len(symbols)
  BY <1>2 DEF Strings
<1>4. n < MaxSymbols /\ n + 1 <= payload.symbols
  <2>1. payload.symbols \in Nat /\ payload.symbols <= MaxSymbols
    BY <1>2, SymbolsOfLength DEF CountsAgree
  <2> QED
    BY <1>1, <1>3, <2>1, PlacesOfSymbols
<1>5. payload.body \in Seq({0, 1})
  BY <1>2 DEF Payloads
<1>6. PICK r \in Values : r = ValueAt(payload.body, n, Bits)
  <2>1. ValueAt(payload.body, n, Bits) \in 0 .. 2 ^ Bits - 1
    BY <1>5, Widths, ValueOfBits
  <2> QED
    BY <2>1 DEF Values
<1>7. PICK more : more = Longer(control, symbols, r)
  OBVIOUS
<1>8. Ask(control, dec, n) = Asked(control, symbols)
  BY <1>2, <1>3 DEF DecoderFollows, Asked
<1>9. PICK asked, actual : asked = Asked(control, symbols) /\ actual = Answer(control, symbols, r)
  OBVIOUS
<1>10. dec' = Learn(control, asked, actual) /\ symbols' = more /\ more = Append(symbols, actual)
  BY <1>3, <1>6, <1>7, <1>8, <1>9 DEF DecodeSymbol, ReadResidual, Answer, Longer
<1>11. Len(symbols) < MaxSymbols
  BY <1>3, <1>4
<1>12. /\ more \in Strings
       /\ \A k \in 1 .. n + 1 :
             Residual(control, more, k) = IF k <= n THEN Residual(control, symbols, k) ELSE r
       /\ Trace(control, more)[Len(more)] = Learn(control, asked, actual)
  BY <1>2, <1>3, <1>6, <1>7, <1>9, <1>11, FollowsOnce
<1>13. Len(more) = n + 1 /\ more[n + 1] = actual /\ \A k \in 1 .. n : more[k] = symbols[k]
  <2>1. symbols \in Seq(Values) /\ more \in Seq(Values)
    BY <1>2, <1>12 DEF Strings
  <2> QED
    BY <1>3, <1>10, <2>1
<1>14. CountsAgree'
  BY <1>1, <1>2, <1>4, <1>10, <1>13 DEF CountsAgree
<1>15. ASSUME NEW k \in 1 .. n + 1
       PROVE  ValueAt(payload.body, k - 1, Bits) = Residual(control, more, k)
  <2>1. CASE k \in 1 .. n
    BY <1>2, <1>3, <1>12, <2>1 DEF DecoderFollows
  <2>2. CASE k = n + 1
    <3>1. k - 1 = n
      BY <2>2
    <3> QED
      BY <1>6, <1>12, <2>2, <3>1
  <2> QED
    BY <2>1, <2>2
<1>16. DecoderFollows'
  BY <1>1, <1>10, <1>12, <1>13, <1>15 DEF DecoderFollows
<1>17. ASSUME Honest PROVE \A k \in 1 .. n + 1 : more[k] = BytesToSymbols(input)[k]
  <2>1. PICK values : values = BytesToSymbols(input)
    OBVIOUS
  <2>2. payload = P3Encode(control, input) /\ \A k \in 1 .. n : symbols[k] = values[k]
    BY <1>2, <1>3, <1>17, <2>1 DEF Honest, DecodesInput
  <2>3. input \in Seq(Octets) /\ Len(input) <= MaxBytes
    BY <1>2, InputFacts
  <2>4. values \in Strings /\ payload.symbols = Len(values) /\ Filled(payload.body, control, values)
    BY <2>1, <2>2, <2>3, EncodedPayload
  <2>5. n < Len(values)
    BY <1>1, <1>3, <2>4
  <2>6. actual = values[n + 1]
    <3>1. PICK c, read, body : c = control /\ read = symbols /\ body = payload.body
      OBVIOUS
    <3>2. /\ read \in Strings /\ \A k \in 1 .. Len(read) : read[k] = values[k]
          /\ Filled(body, c, values) /\ Len(read) < Len(values)
      BY <1>2, <1>3, <2>2, <2>4, <2>5, <3>1
    <3>3. Answer(c, read, ValueAt(body, Len(read), Bits)) = values[Len(read) + 1]
      BY <2>4, <3>2, HonestSymbol
    <3> QED
      BY <1>3, <1>6, <1>9, <3>1, <3>3
  <2> TAKE k \in 1 .. n + 1
  <2>7. CASE k \in 1 .. n
    BY <1>13, <2>1, <2>2, <2>7
  <2>8. CASE k = n + 1
    BY <1>13, <2>1, <2>6, <2>8
  <2> QED
    BY <2>7, <2>8
<1>18. Honest' => pc' # "rejected" /\ DecodesInput'
  <2>1. Honest' => Honest
    BY <1>1 DEF Honest
  <2> QED
    BY <1>1, <1>10, <1>13, <1>17, <2>1 DEF DecodesInput
<1> QED
  BY <1>1, <1>2, <1>10, <1>12, <1>14, <1>16, <1>18 DEF PayloadInv

LEMMA DecodeEndKeeps ==
    ASSUME PayloadInv, DecodeEnd
    PROVE  PayloadInv'
<1>1. /\ pc = "decode" /\ Len(symbols) = payload.symbols
      /\ UNCHANGED <<control, input, payload, length, dec, symbols>>
  BY DEF DecodeEnd
<1>2. /\ input \in Inputs /\ payload \in Payloads /\ length \in 0 .. MaxBytes
      /\ symbols \in Strings /\ CountsAgree /\ DecoderFollows
      /\ Honest => DecodesInput
  BY <1>1 DEF PayloadInv
<1>3. PICK ends \in BOOLEAN :
         ends = (/\ \A p \in Len(symbols) * Bits + 1 .. Len(payload.body) : payload.body[p] = 0
                 /\ TailIsZero(symbols, length))
  OBVIOUS
<1>4. IF ends THEN pc' = "done" /\ output' = SymbolsToBytes(symbols, length)
              ELSE pc' = "rejected" /\ output' = output
  BY <1>3 DEF DecodeEnd
<1>5. CountsAgree' /\ DecoderFollows'
  BY <1>1, <1>2 DEF CountsAgree, DecoderFollows
<1>6. pc' = "done" => DecoderDone'
  BY <1>1, <1>3, <1>4 DEF DecoderDone
<1>7. ASSUME Honest PROVE ends
  <2>1. PICK values : values = BytesToSymbols(input)
    OBVIOUS
  <2>2. /\ payload = P3Encode(control, input) /\ length = Len(input)
        /\ \A k \in 1 .. Len(symbols) : symbols[k] = values[k]
    BY <1>2, <1>7, <2>1 DEF Honest, DecodesInput
  <2>3. input \in Seq(Octets) /\ Len(input) <= MaxBytes
    BY <1>2, InputFacts
  <2>4. values \in Strings /\ payload.symbols = Len(values) /\ Filled(payload.body, control, values)
    BY <2>1, <2>2, <2>3, EncodedPayload
  <2>5. symbols = values
    <3>1. symbols \in Seq(Values) /\ values \in Seq(Values) /\ Len(symbols) = Len(values)
      BY <1>1, <1>2, <2>4 DEF Strings
    <3> QED
      BY <2>2, <3>1
  <2>6. \A p \in Len(symbols) * Bits + 1 .. Len(payload.body) : payload.body[p] = 0
    BY <2>4, <2>5 DEF Filled
  <2>7. TailIsZero(values, Len(input))
    BY <2>1, <2>3, BytesRestored
  <2> QED
    BY <1>3, <2>2, <2>5, <2>6, <2>7
<1>8. Honest' => pc' # "rejected" /\ DecodesInput'
  <2>1. (Honest' => Honest) /\ (DecodesInput => DecodesInput')
    BY <1>1 DEF Honest, DecodesInput
  <2> QED
    BY <1>2, <1>4, <1>7, <2>1
<1> QED
  BY <1>1, <1>2, <1>4, <1>5, <1>6, <1>8 DEF PayloadInv

LEMMA HookNext ==
    ASSUME PayloadInv, [Next]_vars
    PROVE  PayloadInv'
<1>1. CASE Deliver
  BY <1>1, DeliverKeeps
<1>2. CASE DeliverForeign
  BY <1>2, DeliverForeignKeeps
<1>3. CASE DecodeSymbol
  BY <1>3, DecodeSymbolKeeps
<1>4. CASE DecodeEnd
  BY <1>4, DecodeEndKeeps
<1>5. CASE UNCHANGED vars
  BY <1>5 DEF vars, PayloadInv, Honest, CountsAgree, DecoderFollows, DecoderDone, DecodesInput
<1> QED
  BY <1>1, <1>2, <1>3, <1>4, <1>5 DEF Next

LEMMA RestoredFromInv ==
    ASSUME PayloadInv
    PROVE  HonestIsRestored
<1> SUFFICES ASSUME Honest PROVE pc # "rejected" /\ (pc = "done" => output = input)
  BY DEF Honest, HonestIsRestored
<1>1. pc # "rejected" /\ DecodesInput /\ input \in Inputs /\ symbols \in Strings
  BY DEF PayloadInv
<1>2. ASSUME pc = "done" PROVE output = input
  <2>1. PICK values : values = BytesToSymbols(input)
    OBVIOUS
  <2>2. DecoderDone
    BY <1>2 DEF PayloadInv
  <2>3. /\ payload = P3Encode(control, input) /\ length = Len(input)
        /\ \A k \in 1 .. Len(symbols) : symbols[k] = values[k]
    BY <1>1, <2>1 DEF Honest, DecodesInput
  <2>4. input \in Seq(Octets) /\ Len(input) <= MaxBytes
    BY <1>1, InputFacts
  <2>5. values \in Strings /\ payload.symbols = Len(values)
    BY <2>1, <2>3, <2>4, EncodedPayload
  <2>6. symbols = values
    <3>1. symbols \in Seq(Values) /\ values \in Seq(Values) /\ Len(symbols) = Len(values)
      BY <1>1, <2>2, <2>5 DEF Strings, DecoderDone
    <3> QED
      BY <2>3, <3>1
  <2>7. SymbolsToBytes(values, Len(input)) = input
    BY <2>1, <2>4, BytesRestored
  <2> QED
    BY <2>2, <2>3, <2>6, <2>7 DEF DecoderDone
<1> QED
  BY <1>1, <1>2

\* The decoded symbols are what encoding the output starts from.
LEMMA OutputSpelled ==
    ASSUME PayloadInv, pc = "done"
    PROVE  /\ output \in Seq(Octets) /\ Len(output) = length /\ length <= MaxBytes
           /\ BytesToSymbols(output) = symbols
<1>1. /\ length \in 0 .. MaxBytes /\ symbols \in Seq(Values) /\ CountsAgree /\ DecoderDone
  BY DEF PayloadInv, Strings
<1>2. length \in Nat /\ length <= MaxBytes
  <2>1. MaxBytes \in Nat
    BY HookAssumption
  <2> QED
    BY <1>1, <2>1
<1>3. Len(symbols) = Ceiling(length * ByteBits, Bits) /\ TailIsZero(symbols, length)
      /\ output = SymbolsToBytes(symbols, length)
  BY <1>1 DEF CountsAgree, DecoderDone
<1>4. output \in Seq(Octets) /\ Len(output) = length
  BY <1>1, <1>2, <1>3, BytesOfSymbols
<1>5. BytesToSymbols(output) = symbols
  BY <1>1, <1>2, <1>3, SymbolsRestored
<1> QED
  BY <1>2, <1>4, <1>5

LEMMA CanonicalFromInv ==
    ASSUME PayloadInv
    PROVE  OnlyCanonicalIsAccepted
<1> SUFFICES ASSUME pc = "done" PROVE payload = P3Encode(control, output)
  BY DEF OnlyCanonicalIsAccepted
<1>1. /\ payload \in Payloads /\ symbols \in Strings
      /\ CountsAgree /\ DecoderFollows /\ DecoderDone
  BY DEF PayloadInv
<1>2. /\ output \in Seq(Octets) /\ Len(output) = length /\ Len(output) <= MaxBytes
      /\ BytesToSymbols(output) = symbols
  BY OutputSpelled
<1>3. PICK p : p = P3Encode(control, output)
  OBVIOUS
<1>4. /\ p.symbols = Len(symbols)
      /\ p.bytes = Ceiling(p.symbols * Bits, ByteBits)
      /\ Filled(p.body, control, symbols)
      /\ p = [symbols |-> p.symbols, bytes |-> p.bytes, body |-> p.body]
  BY <1>2, <1>3, EncodedPayload
<1>5. PICK m \in Nat : m = Len(symbols)
  BY <1>1 DEF Strings
<1>6. payload.symbols = m /\ payload.bytes = Ceiling(m * Bits, ByteBits)
      /\ payload.body \in Seq({0, 1}) /\ Len(payload.body) = payload.bytes * ByteBits
  BY <1>1, <1>5 DEF Payloads, CountsAgree, DecoderDone
<1>7. Len(payload.body) = ByteBits * Ceiling(Len(symbols) * Bits, ByteBits)
  <2>1. payload.bytes \in Nat
    BY <1>1 DEF Payloads
  <2>2. PICK w \in Nat : w = payload.bytes
    BY <2>1
  <2>3. w * ByteBits = ByteBits * w
    BY Widths
  <2> QED
    BY <1>5, <1>6, <2>2, <2>3
<1>8. ASSUME NEW n \in 0 .. Len(symbols) - 1, NEW k \in 1 .. Bits
      PROVE  BitAt(payload.body, (n * Bits) + k)
             = (Residual(control, symbols, n + 1) \div 2 ^ (Bits - k)) % 2
  <2>1. n \in Nat /\ n + 1 \in 1 .. Len(symbols) /\ (n + 1) - 1 = n
    BY <1>5
  <2>2. ValueAt(payload.body, n, Bits) = Residual(control, symbols, n + 1)
    BY <1>1, <2>1 DEF DecoderFollows
  <2>3. (ValueAt(payload.body, n, Bits) \div 2 ^ (Bits - k)) % 2
        = BitAt(payload.body, (n * Bits) + k)
    BY <1>6, <2>1, Widths, ValueOfBits
  <2> QED
    BY <2>2, <2>3
<1>9. \A q \in Len(symbols) * Bits + 1 .. Len(payload.body) : payload.body[q] = 0
  BY <1>1 DEF DecoderDone
<1>10. Filled(payload.body, control, symbols)
  BY <1>6, <1>7, <1>8, <1>9 DEF Filled
<1>11. payload.body = p.body
  BY <1>1, <1>4, <1>10, FilledOnce
<1>12. payload = [symbols |-> payload.symbols, bytes |-> payload.bytes, body |-> payload.body]
  BY <1>1 DEF Payloads
<1> QED
  BY <1>3, <1>4, <1>5, <1>6, <1>11, <1>12

LEMMA OmegaFromInv ==
    ASSUME PayloadInv
    PROVE  OmegaSignsTheCodersState
<1> SUFFICES ASSUME pc = "done"
             PROVE  ReplayExpertState(control, BytesToSymbols(output)) = dec.bank
  BY DEF OmegaSignsTheCodersState
<1>1. DecoderFollows
  BY DEF PayloadInv
<1>2. BytesToSymbols(output) = symbols
  BY OutputSpelled
<1>3. ReplayExpertState(control, symbols) = Trace(control, symbols)[Len(symbols)].bank
  BY DEF ReplayExpertState, Trace
<1> QED
  BY <1>1, <1>2, <1>3 DEF DecoderFollows

LEMMA CodecPayloadInit == ASSUME CodecInit PROVE PayloadInv
BY HookInit DEF CodecInit, PayloadAtStart

LEMMA CodecPayloadNext ==
    ASSUME PayloadInv, [CodecNext]_<<vars, chainVars>>
    PROVE  PayloadInv'
<1>1. [Next]_vars
  BY DEF CodecNext
<1> QED
  BY <1>1, HookNext

\* Whatever the hash behind the codebooks and the shuffle draws, and whatever the
\* control: p3_decode follows the votes of p3_encode, refuses nothing p3_encode
\* wrote and gives the bytes back.
THEOREM HonestRestored == CodecSpec => []HonestIsRestored
<1>1. CodecInit => PayloadInv
  BY CodecPayloadInit
<1>2. PayloadInv /\ [CodecNext]_<<vars, chainVars>> => PayloadInv'
  BY CodecPayloadNext
<1> QED
  BY <1>1, <1>2, RestoredFromInv, PTL DEF CodecSpec

\* A payload p3_decode accepts, whoever wrote it, is bit for bit the one p3_encode
\* writes of the decoded bytes.
THEOREM OnlyCanonical == CodecSpec => []OnlyCanonicalIsAccepted
<1>1. CodecInit => PayloadInv
  BY CodecPayloadInit
<1>2. PayloadInv /\ [CodecNext]_<<vars, chainVars>> => PayloadInv'
  BY CodecPayloadNext
<1> QED
  BY <1>1, <1>2, CanonicalFromInv, PTL DEF CodecSpec

\* The bank replay_expert_state recomputes from the decoded bytes, for the Omega of
\* the floor, is the bank the decoder was left with.
THEOREM OmegaSigned == CodecSpec => []OmegaSignsTheCodersState
<1>1. CodecInit => PayloadInv
  BY CodecPayloadInit
<1>2. PayloadInv /\ [CodecNext]_<<vars, chainVars>> => PayloadInv'
  BY CodecPayloadNext
<1> QED
  BY <1>1, <1>2, OmegaFromInv, PTL DEF CodecSpec
-----------------------------------------------------------------------------
(* A caller of the catalog. *)

\* What was not refused is shown as the operator shows it, and was restored.
ReplayInv ==
    /\ viewerBits \in AskedWidths
    /\ sequence \in Seq(Nat) /\ Len(sequence) <= MaxLength
    /\ phase \in {"viewed", "restored"} => Valid(viewer, viewerBits, sequence)
    /\ phase = "viewed" => shown = Apply(viewer, viewerBits, sequence)
    /\ phase = "restored" => shown = sequence

\* What is not refused is a strip of symbols.
LEMMA ValidIsStrip ==
    ASSUME NEW id, NEW bits, NEW s \in Seq(Nat), Valid(id, bits, s)
    PROVE  id \in Operators /\ bits \in FloorBits /\ s \in Strip(bits, Len(s))
<1>1. id \in Operators /\ bits \in FloorBits /\ \A i \in DOMAIN s : s[i] < 2 ^ bits
  BY DEF Valid
<1>2. PICK a \in Nat : a = 2 ^ bits
  BY <1>1, HalvesOfSymbol, PowersOfTwo
<1>3. DOMAIN s = 1 .. Len(s) /\ s \in [1 .. Len(s) -> Nat]
  OBVIOUS
<1>4. \A i \in 1 .. Len(s) : s[i] \in 0 .. a - 1
  BY <1>1, <1>2, <1>3
<1>5. s \in [1 .. Len(s) -> 0 .. a - 1]
  BY <1>3, <1>4
<1> QED
  BY <1>1, <1>2, <1>5 DEF Strip

LEMMA StripIsValid ==
    ASSUME NEW id \in Operators, NEW bits \in FloorBits, NEW n \in Nat, NEW s \in Strip(bits, n)
    PROVE  Valid(id, bits, s)
<1>1. PICK a \in Nat : a = 2 ^ bits
  BY HalvesOfSymbol, PowersOfTwo
<1>2. s \in [1 .. n -> 0 .. a - 1]
  BY <1>1 DEF Strip
<1> QED
  BY <1>1, <1>2 DEF Valid

LEMMA ReplayStarts ==
    ASSUME ReplayInit
    PROVE  ReplayInv
<1>1. sequence \in Seq(Nat) /\ Len(sequence) <= MaxLength
  BY ReplayAssumption DEF ReplayInit
<1> QED
  BY <1>1 DEF ReplayInit, ReplayInv

LEMMA ReplayNextInv ==
    ASSUME ReplayInv, [ReplayNext]_replayVars
    PROVE  ReplayInv'
<1>1. CASE Grow
  <2>1. PICK x \in Feed(viewerBits, Len(sequence)) : sequence' = Append(sequence, x)
    BY <1>1 DEF Grow
  <2>2. Len(sequence) \in 0 .. MaxLength /\ Len(sequence) < MaxLength /\ sequence \in Seq(Nat)
    BY <1>1, ReplayAssumption DEF ReplayInv, Grow
  <2>3. x \in Nat
    BY <2>1, <2>2, ReplayAssumption DEF ReplayInv
  <2>4. sequence' \in Seq(Nat) /\ Len(sequence') = Len(sequence) + 1
    BY <2>1, <2>2, <2>3
  <2>5. Len(sequence') <= MaxLength
    BY <2>2, <2>4, ReplayAssumption
  <2>6. phase' = "grow" /\ viewerBits' = viewerBits
    BY <1>1 DEF Grow
  <2> QED
    BY <2>4, <2>5, <2>6 DEF ReplayInv
<1>2. CASE Reject
  BY <1>2 DEF ReplayInv, Reject
<1>3. CASE View
  BY <1>3 DEF ReplayInv, View
<1>4. CASE Restore
  <2>1. /\ viewer \in Operators /\ viewerBits \in FloorBits
        /\ sequence \in Strip(viewerBits, Len(sequence)) /\ Len(sequence) \in Nat
    BY <1>4, ValidIsStrip DEF ReplayInv, Restore
  <2>2. shown = Apply(viewer, viewerBits, sequence)
    BY <1>4 DEF ReplayInv, Restore
  <2>3. shown' = sequence
    BY <1>4, <2>1, <2>2, OperatorsRestore DEF Restore
  <2> QED
    BY <1>4, <2>3 DEF ReplayInv, Restore
<1>5. CASE UNCHANGED replayVars
  BY <1>5 DEF ReplayInv, replayVars
<1> QED
  BY <1>1, <1>2, <1>3, <1>4, <1>5 DEF ReplayNext

LEMMA InverseFromInv == ReplayInv => InverseRestores
<1> SUFFICES ASSUME ReplayInv, phase = "viewed" PROVE Valid(viewer, viewerBits, shown)
  BY DEF ReplayInv, InverseRestores
<1>1. /\ viewer \in Operators /\ viewerBits \in FloorBits
      /\ sequence \in Strip(viewerBits, Len(sequence)) /\ Len(sequence) \in Nat
  BY ValidIsStrip DEF ReplayInv
<1>2. shown \in Strip(viewerBits, Len(sequence))
  BY <1>1, OperatorsRestore DEF ReplayInv
<1> QED
  BY <1>1, <1>2, StripIsValid

LEMMA ViewsFromInv == ReplayInv => WindowsAreViews
<1> SUFFICES ASSUME ReplayInv, phase = "viewed"
             PROVE  CanonicalWindow(viewer, viewerBits, sequence) = shown
  BY DEF WindowsAreViews
<1>1. /\ viewer \in Operators
      /\ sequence \in [1 .. Len(sequence) -> Nat] /\ Len(sequence) \in Nat
  BY ValidIsStrip DEF ReplayInv
<1>2. shown = Apply(viewer, viewerBits, sequence)
  BY DEF ReplayInv
<1> QED
  BY <1>1, <1>2, WindowIsView

\* Every operator of the catalog restores what it viewed: at every width of an
\* even number of bits and every length, whatever the symbols; and what it shows
\* could itself be viewed.
THEOREM InversesRestore == ReplaySpec => []InverseRestores
<1>1. ReplayInit => ReplayInv
  BY ReplayStarts
<1>2. ReplayInv /\ [ReplayNext]_replayVars => ReplayInv'
  BY ReplayNextInv
<1> QED
  BY <1>1, <1>2, InverseFromInv, PTL DEF ReplaySpec

\* What the experts see through their position maps is what the operator shows.
THEOREM WindowsView == ReplaySpec => []WindowsAreViews
<1>1. ReplayInit => ReplayInv
  BY ReplayStarts
<1>2. ReplayInv /\ [ReplayNext]_replayVars => ReplayInv'
  BY ReplayNextInv
<1> QED
  BY <1>1, <1>2, ViewsFromInv, PTL DEF ReplaySpec
=============================================================================
