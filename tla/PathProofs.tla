----------------------------- MODULE PathProofs -----------------------------
(***************************************************************************)
(* The lossless paths of Path123, for every value of the constants.        *)
(*                                                                         *)
(* Path 1 replays its input, for every window, every match limit and every *)
(* source, and its parser lets nothing through that its decoder refuses.   *)
(* Where a token starts is a sum over the tokens before it.  The invariant *)
(* names these places by functions that grow with the tokens: at, counted  *)
(* in bytes of output, and cut, counted in bytes of the token stream.      *)
(*                                                                         *)
(* Path 2 finds the one symbol of every pair of residues, and accepts no   *)
(* residue but a canonical one, for every width whose moduli are coprime.  *)
(* Its invariant says that the search has passed no solution, and that the *)
(* bits of the bytes written are those of the symbols read.                *)
(*                                                                         *)
(* The archive around them restores what it was given in every mode, and   *)
(* what decode_p123 accepts is what encode_p123 would write.  The values   *)
(* on the way down are a chain in which each layer folds what is below it. *)
(***************************************************************************)
EXTENDS PathOne, PathTwo, PathArchive, Numbers, TLAPS

Size(t) == IF t.match THEN 5 ELSE 2

\* Token i of a list is at[i-1] .. at[i] of total
Layout(at, list, total) ==
    /\ at \in [0 .. Len(list) -> 0 .. total]
    /\ at[0] = 0 /\ at[Len(list)] = total
    /\ \A i \in 1 .. Len(list) : at[i] = at[i - 1] + list[i].length

\* and its bytes are cut[i-1] .. cut[i] of bytes
Cuts(cut, list, bytes) ==
    /\ cut \in [0 .. Len(list) -> 0 .. Len(bytes)]
    /\ cut[0] = 0 /\ cut[Len(list)] = Len(bytes)
    /\ \A i \in 1 .. Len(list) :
          /\ cut[i] = cut[i - 1] + Size(list[i])
          /\ \A k \in 1 .. Size(list[i]) :
                bytes[cut[i - 1] + k] = Serialized(list[i])[k]

\* A token of the encoder, after a bytes: within its limits, and true
Says(t, a) ==
    /\ t.length >= 1
    /\ ~t.match => t.byte = source[a + 1]
    /\ t.match => /\ t.distance \in 1 .. a /\ t.distance <= Window
                  /\ t.length \in MinMatch .. MaxMatch
                  /\ \A j \in 1 .. t.length :
                        source[a + j] = source[(a + j) - t.distance]

SentInv(at, cut) ==
    /\ Layout(at, sent, position) /\ Cuts(cut, sent, wire)
    /\ \A i \in 1 .. Len(sent) : Says(sent[i], at[i - 1])

Running == {"encode", "refused", "deliver"}
Rejected == {"badstream", "badmode", "badtoken"}

ShapeInv ==
    /\ sent \in Seq(Tokens) /\ tokens \in Seq(Tokens)
    /\ expected \in Nat

EncodedInv ==
    /\ mode = "literals" => ~HasMatch(sent)
    /\ pc # "encode" => position = Len(source)
    /\ (mode = "require" /\ pc \notin {"encode", "refused"}) => HasMatch(sent)

\* What the decoder has done before its turn: nothing
WaitInv ==
    /\ pc \in Running => /\ stream = <<>> /\ cursor = 0
                        /\ produced = 0 /\ tokens = <<>>
    /\ pc \in Running \cup {"parse", "validate"} =>
          decoded = 0 /\ copied = 0 /\ output = <<>>
    /\ pc = "parse" => cursor > 0 \/ tokens = <<>>

\* A match that is being copied was legal where it began
CopyInv ==
    copied > 0 => /\ decoded < Len(tokens) /\ Token.match
                  /\ copied < Token.length /\ copied <= Len(output)
                  /\ Legal(Token, Len(output) - copied)

FromParser == cursor > 0 \/ tokens = <<>>

\* Tokens of the parser are legal one after the other
ParsedInv(at) ==
    /\ Layout(at, tokens, produced)
    /\ \A i \in 1 .. Len(tokens) :
          /\ tokens[i].length >= 1
          /\ tokens[i].match => Legal(tokens[i], at[i - 1])
    /\ Len(output) = at[decoded] + copied

FullInv ==
    cursor > 0 => /\ pc \in {"validate", "decode", "done"} => produced = expected
                  /\ pc # "badtoken"

\* On the encoder's bytes the parser finds the encoder's tokens, and the
\* decoder its source
FollowInv(at, cut) ==
    Honest /\ pc \notin Running =>
        /\ pc \notin Rejected
        /\ Len(tokens) <= Len(sent)
        /\ \A i \in 1 .. Len(tokens) : tokens[i] = sent[i]
        /\ cursor = cut[Len(tokens)] /\ produced = at[Len(tokens)]
        /\ pc # "parse" => Len(tokens) = Len(sent)
        /\ Len(output) = at[decoded] + copied
        /\ \A i \in 1 .. Len(output) : output[i] = source[i]
        /\ pc = "done" => Len(output) = Len(source)

LegalInv == FromParser => \E at : ParsedInv(at)

SourceInv == \E at, cut : SentInv(at, cut) /\ FollowInv(at, cut)

IInv ==
    /\ TypeOK /\ ShapeInv /\ EncodedInv /\ WaitInv /\ CopyInv /\ FullInv
    /\ LegalInv /\ SourceInv
-----------------------------------------------------------------------------
(* Facts about the helpers.                                                *)

LEMMA Constants ==
    /\ Base \in Nat /\ Base > 1
    /\ Window \in Nat \ {0} /\ Window \in Words
    /\ MinMatch \in Nat \ {0} /\ MaxMatch \in Nat /\ MaxMatch \in Words
    /\ MinMatch <= MaxMatch
    /\ Modes \subseteq {"auto", "literals", "require"}
    /\ Sources \subseteq Seq(Bytes) /\ Streams \subseteq Seq(Bytes)
    /\ TokenLists \subseteq Seq(Tokens) /\ Lengths \subseteq Nat
  BY PathOneAssumption DEF Words

LEMMA WordSplits ==
    ASSUME NEW d \in Words
    PROVE  /\ d % Base \in Bytes /\ d \div Base \in Bytes
           /\ (d % Base) + Base * (d \div Base) = d
<1>1. Base \in Nat /\ Base > 1 /\ d \in Nat /\ d < Base * Base
  <2>1. Base \in Nat /\ Base > 1
    BY Constants
  <2>2. Base * Base \in Nat
    BY <2>1, SMT
  <2> QED
    BY <2>1, <2>2 DEF Words
<1>2. /\ d = Base * (d \div Base) + (d % Base)
      /\ d % Base \in 0 .. Base - 1 /\ d \div Base \in Nat
  BY <1>1, SMT
<1>3. d \div Base < Base
  <2> DEFINE q == d \div Base
  <2>1. q \in Nat /\ Base * q <= d
    BY <1>1, <1>2, SMT
  <2> HIDE DEF q
  <2>2. ASSUME q >= Base PROVE FALSE
    <3>1. Base * q >= Base * Base
      BY <1>1, <2>1, <2>2, SMT
    <3>2. Base * q \in Nat /\ Base * Base \in Nat
      BY <1>1, <2>1, SMT
    <3> QED
      BY <1>1, <2>1, <3>1, <3>2
  <2>3. q < Base
    BY <1>1, <2>1, <2>2
  <2> QED
    BY <2>3 DEF q
<1>4. Base * (d \div Base) \in Nat
  BY <1>1, <1>2, SMT
<1> QED
  BY <1>1, <1>2, <1>3, <1>4 DEF Bytes

LEMMA WordOfBytes ==
    ASSUME NEW a \in Bytes, NEW b \in Bytes
    PROVE  a + Base * b \in Words
<1>1. Base \in Nat /\ Base > 1
  BY Constants
<1>2. a \in Nat /\ a <= Base - 1 /\ b \in Nat /\ b <= Base - 1
  BY <1>1 DEF Bytes
<1>3. Base * b <= Base * (Base - 1) /\ Base * (Base - 1) = Base * Base - Base
  BY <1>1, <1>2, SMT
<1>4. Base * b \in Nat /\ Base * Base \in Nat
  BY <1>1, <1>2, SMT
<1>5. a + Base * b \in Nat /\ a + Base * b <= Base * Base - 1
  BY <1>1, <1>2, <1>3, <1>4
<1> QED
  BY <1>4, <1>5 DEF Words

\* A token is a literal or a match, by its fields
LEMMA TokenFacts ==
    ASSUME NEW t \in Tokens
    PROVE  /\ t.match \in BOOLEAN /\ t.length \in Nat /\ t.distance \in Nat
           /\ ~t.match => /\ t = Literal(t.byte) /\ t.byte \in Bytes
                          /\ t.length = 1
           /\ t.match => /\ t = Match(t.distance, t.length)
                         /\ t.distance \in Words /\ t.length \in Words
<1>0. Words \subseteq Nat
  BY DEF Words
<1>1. CASE \E b \in Bytes : t = Literal(b)
  BY <1>1 DEF Literal
<1>2. CASE \E d, n \in Words : t = Match(d, n)
  BY <1>0, <1>2 DEF Match
<1> QED
  BY <1>1, <1>2 DEF Tokens

LEMMA LiteralIsToken ==
    ASSUME NEW b \in Bytes
    PROVE  /\ Literal(b) \in Tokens /\ ~Literal(b).match
           /\ Literal(b).byte = b /\ Literal(b).length = 1
<1>1. Literal(b) \in {Literal(x) : x \in Bytes}
  OBVIOUS
<1>2. Literal(b) \in Tokens
  BY <1>1 DEF Tokens
<1> QED
  BY <1>2 DEF Literal

LEMMA MatchIsToken ==
    ASSUME NEW d \in Words, NEW n \in Words
    PROVE  /\ Match(d, n) \in Tokens /\ Match(d, n).match
           /\ Match(d, n).distance = d /\ Match(d, n).length = n
<1>1. Match(d, n) \in {Match(x, y) : x, y \in Words}
  OBVIOUS
<1>2. Match(d, n) \in Tokens
  BY <1>1 DEF Tokens
<1> QED
  BY <1>2 DEF Match

LEMMA SerializedFacts ==
    ASSUME NEW t \in Tokens
    PROVE  /\ Serialized(t) \in Seq(Bytes) /\ Len(Serialized(t)) = Size(t)
           /\ ~t.match => Serialized(t)[1] = 0 /\ Serialized(t)[2] = t.byte
           /\ t.match => /\ Serialized(t)[1] = 1
                         /\ Serialized(t)[2] + Base * Serialized(t)[3] = t.distance
                         /\ Serialized(t)[4] + Base * Serialized(t)[5] = t.length
<1>0. 0 \in Bytes /\ 1 \in Bytes
  BY Constants DEF Bytes
<1>1. CASE ~t.match
  BY <1>0, <1>1, TokenFacts DEF Serialized, Size
<1>2. CASE t.match
  <2>1. t.distance \in Words /\ t.length \in Words
    BY <1>2, TokenFacts
  <2> DEFINE a == t.distance % Base
             b == t.distance \div Base
             c == t.length % Base
             d == t.length \div Base
  <2>2. /\ a \in Bytes /\ b \in Bytes /\ a + Base * b = t.distance
        /\ c \in Bytes /\ d \in Bytes /\ c + Base * d = t.length
    BY <2>1, WordSplits
  <2>3. Serialized(t) = <<1, a, b, c, d>>
    BY <1>2 DEF Serialized
  <2> HIDE DEF a, b, c, d
  <2> QED
    BY <1>0, <1>2, <2>2, <2>3 DEF Size
<1> QED
  BY <1>1, <1>2, TokenFacts

LEMMA AppendFacts ==
    ASSUME NEW S, NEW s \in Seq(S), NEW x \in S
    PROVE  /\ Append(s, x) \in Seq(S)
           /\ Len(s) \in Nat /\ Len(Append(s, x)) = Len(s) + 1
           /\ \A i \in 1 .. Len(s) : Append(s, x)[i] = s[i]
           /\ Append(s, x)[Len(s) + 1] = x
  OBVIOUS

LEMMA ConcatFacts ==
    ASSUME NEW S, NEW s \in Seq(S), NEW t \in Seq(S)
    PROVE  /\ s \o t \in Seq(S)
           /\ Len(s) \in Nat /\ Len(t) \in Nat /\ Len(s \o t) = Len(s) + Len(t)
           /\ \A i \in 1 .. Len(s) : (s \o t)[i] = s[i]
           /\ \A i \in 1 .. Len(t) : (s \o t)[Len(s) + i] = t[i]
  OBVIOUS

LEMMA PrefixFacts ==
    ASSUME NEW S, NEW s \in Seq(S), NEW t \in Seq(S), Len(s) <= Len(t),
           \A i \in 1 .. Len(s) : s[i] = t[i]
    PROVE  /\ s = SubSeq(t, 1, Len(s))
           /\ Len(s) = Len(t) => s = t
<1> DEFINE u == SubSeq(t, 1, Len(s))
<1>1. /\ u \in Seq(S) /\ Len(u) = Len(s) /\ Len(s) \in Nat /\ Len(t) \in Nat
      /\ \A i \in 1 .. Len(s) : u[i] = t[i]
  OBVIOUS
<1> HIDE DEF u
<1>2. s = u
  BY <1>1
<1>3. Len(s) = Len(t) => s = t
  OBVIOUS
<1> QED
  BY <1>2, <1>3 DEF u

LEMMA ElementOfSequence ==
    ASSUME NEW S, NEW s \in Seq(S), NEW i \in 1 .. Len(s)
    PROVE  s[i] \in S /\ Len(s) \in Nat
  OBVIOUS

LEMMA EmptyLayout == Layout([i \in 0 .. 0 |-> 0], <<>>, 0)
  BY DEF Layout

\* One more token, one more place
Extended(at, n, total) == [i \in 0 .. n + 1 |-> IF i <= n THEN at[i] ELSE total]

LEMMA LayoutExtends ==
    ASSUME NEW list \in Seq(Tokens), NEW total \in Nat, NEW at, NEW t \in Tokens,
           Layout(at, list, total)
    PROVE  /\ Layout(Extended(at, Len(list), total + t.length),
                     Append(list, t), total + t.length)
           /\ \A i \in 0 .. Len(list) :
                 Extended(at, Len(list), total + t.length)[i] = at[i]
<1> DEFINE n == Len(list)
           more == total + t.length
           new == Extended(at, n, more)
           longer == Append(list, t)
<1>1. /\ longer \in Seq(Tokens) /\ n \in Nat /\ Len(longer) = n + 1
      /\ \A i \in 1 .. n : longer[i] = list[i]
      /\ longer[n + 1] = t
  BY AppendFacts
<1>2. t.length \in Nat /\ more \in Nat /\ total <= more
  BY TokenFacts
<1>3. /\ at \in [0 .. n -> 0 .. total] /\ at[0] = 0 /\ at[n] = total
      /\ \A i \in 1 .. n : at[i] = at[i - 1] + list[i].length
  BY DEF Layout
<1>4. /\ \A i \in 0 .. n : new[i] = at[i]
      /\ new[n + 1] = more
  BY <1>1 DEF Extended
<1>5. new \in [0 .. n + 1 -> 0 .. more]
  <2>1. ASSUME NEW i \in 0 .. n + 1
        PROVE  (IF i <= n THEN at[i] ELSE more) \in 0 .. more
    <3> HIDE DEF more, n
    <3>1. CASE i <= n
      <4>1. i \in 0 .. n
        BY <1>1, <3>1
      <4>2. at[i] \in 0 .. total
        BY <1>3, <4>1
      <4> QED
        BY <1>2, <3>1, <4>2
    <3>2. CASE ~(i <= n)
      BY <1>2, <3>2
    <3> QED
      BY <3>1, <3>2
  <2> QED
    BY <2>1 DEF Extended
<1> HIDE DEF new, longer, more
<1>6. ASSUME NEW i \in 1 .. n + 1 PROVE new[i] = new[i - 1] + longer[i].length
  <2>1. CASE i = n + 1
    <3>1. new[i - 1] = total
      BY <1>1, <1>3, <1>4, <2>1
    <3> QED
      BY <1>1, <1>4, <2>1, <3>1 DEF more
  <2>2. CASE i \in 1 .. n
    <3>1. new[i] = at[i] /\ new[i - 1] = at[i - 1] /\ longer[i] = list[i]
      BY <1>1, <1>4, <2>2
    <3> QED
      BY <1>3, <2>2, <3>1
  <2> QED
    BY <1>1, <2>1, <2>2
<1>7. new[0] = 0
  BY <1>1, <1>3, <1>4
<1>8. Layout(new, longer, more)
  BY <1>1, <1>4, <1>5, <1>6, <1>7 DEF Layout
<1> QED
  BY <1>4, <1>8 DEF new, longer, more

LEMMA EmptyCuts == Cuts([i \in 0 .. 0 |-> 0], <<>>, <<>>)
  BY DEF Cuts

LEMMA SizeFacts ==
    ASSUME NEW t \in Tokens
    PROVE  Size(t) \in {2, 5}
  BY DEF Size

LEMMA CutsExtend ==
    ASSUME NEW list \in Seq(Tokens), NEW bytes \in Seq(Bytes), NEW cut,
           NEW t \in Tokens, Cuts(cut, list, bytes)
    PROVE  Cuts(Extended(cut, Len(list), Len(bytes) + Size(t)),
                Append(list, t), bytes \o Serialized(t))
<1> DEFINE n == Len(list)
           m == Len(bytes)
           more == m + Size(t)
           new == Extended(cut, n, more)
           longer == Append(list, t)
           written == bytes \o Serialized(t)
<1>1. /\ longer \in Seq(Tokens) /\ n \in Nat /\ Len(longer) = n + 1
      /\ \A i \in 1 .. n : longer[i] = list[i]
      /\ longer[n + 1] = t
  BY AppendFacts
<1>2. /\ m \in Nat /\ Size(t) \in {2, 5} /\ more \in Nat /\ m <= more
      /\ Len(written) = more
      /\ \A k \in 1 .. m : written[k] = bytes[k]
      /\ \A k \in 1 .. Size(t) : written[m + k] = Serialized(t)[k]
  <2>1. Serialized(t) \in Seq(Bytes) /\ Len(Serialized(t)) = Size(t)
    BY SerializedFacts
  <2>2. /\ m \in Nat /\ Len(written) = m + Len(Serialized(t))
        /\ \A k \in 1 .. m : written[k] = bytes[k]
        /\ \A k \in 1 .. Len(Serialized(t)) : written[m + k] = Serialized(t)[k]
    BY <2>1, ConcatFacts
  <2>3. Size(t) \in {2, 5}
    BY SizeFacts
  <2> QED
    BY <2>1, <2>2, <2>3
<1>3. /\ cut \in [0 .. n -> 0 .. m] /\ cut[0] = 0 /\ cut[n] = m
      /\ \A i \in 1 .. n :
            /\ cut[i] = cut[i - 1] + Size(list[i])
            /\ \A k \in 1 .. Size(list[i]) :
                  bytes[cut[i - 1] + k] = Serialized(list[i])[k]
  BY DEF Cuts
<1>4. /\ \A i \in 0 .. n : new[i] = cut[i]
      /\ new[n + 1] = more
  BY <1>1 DEF Extended
<1>5. new \in [0 .. n + 1 -> 0 .. more]
  <2>1. ASSUME NEW i \in 0 .. n + 1
        PROVE  (IF i <= n THEN cut[i] ELSE more) \in 0 .. more
    <3> HIDE DEF more, m, n
    <3>1. CASE i <= n
      <4>1. i \in 0 .. n
        BY <1>1, <3>1
      <4>2. cut[i] \in 0 .. m
        BY <1>3, <4>1
      <4> QED
        BY <1>2, <3>1, <4>2
    <3>2. CASE ~(i <= n)
      BY <1>2, <3>2
    <3> QED
      BY <3>1, <3>2
  <2> QED
    BY <2>1 DEF Extended
<1>6. ASSUME NEW i \in 1 .. n + 1
      PROVE  /\ new[i] = new[i - 1] + Size(longer[i])
             /\ \A k \in 1 .. Size(longer[i]) :
                   written[new[i - 1] + k] = Serialized(longer[i])[k]
  <2> HIDE DEF new, longer, written, n, m
  <2>1. CASE i = n + 1
    <3>1. new[i - 1] = m /\ longer[i] = t /\ new[i] = more
      BY <1>1, <1>3, <1>4, <2>1
    <3> QED
      BY <1>2, <3>1 DEF more
  <2>2. CASE i \in 1 .. n
    <3> HIDE DEF more
    <3>1. new[i] = cut[i] /\ new[i - 1] = cut[i - 1] /\ longer[i] = list[i]
      BY <1>1, <1>4, <2>2
    <3>2. cut[i] = cut[i - 1] + Size(list[i])
      BY <1>3, <2>2
    <3>3. ASSUME NEW k \in 1 .. Size(list[i])
          PROVE  written[cut[i - 1] + k] = Serialized(list[i])[k]
      <4>1. list[i] \in Tokens
        BY <2>2, ElementOfSequence DEF n
      <4>2. Size(list[i]) \in Nat
        BY <4>1, SizeFacts
      <4>3. cut[i - 1] \in 0 .. m /\ cut[i] \in 0 .. m
        BY <1>1, <1>3, <2>2
      <4>4. cut[i - 1] + k \in 1 .. m
        BY SMTT(40), <1>2, <3>2, <4>2, <4>3
      <4>5. bytes[cut[i - 1] + k] = Serialized(list[i])[k]
        BY <1>3, <2>2
      <4> QED
        BY <1>2, <4>4, <4>5
    <3> QED
      BY <3>1, <3>2, <3>3
  <2> QED
    BY <1>1, <2>1, <2>2
<1>7. new[0] = 0
  BY <1>1, <1>3, <1>4
<1> HIDE DEF new, longer, written, more
<1>8. Cuts(new, longer, written)
  BY <1>1, <1>2, <1>4, <1>5, <1>6, <1>7 DEF Cuts
<1> QED
  BY <1>8 DEF new, longer, written, more
-----------------------------------------------------------------------------
(* What a step that leaves the variables of a part alone keeps.            *)

LEMMA SentKept ==
    ASSUME NEW at, NEW cut, SentInv(at, cut), UNCHANGED encoder
    PROVE  SentInv(at, cut)'
<1>1. /\ sent' = sent /\ position' = position
      /\ wire' = wire /\ source' = source
  BY DEF encoder
<1>2. Layout(at, sent, position)'
  BY <1>1 DEF SentInv, Layout
<1>3. Cuts(cut, sent, wire)'
  BY <1>1 DEF SentInv, Cuts
<1>4. ASSUME NEW i \in 1 .. Len(sent) PROVE Says(sent[i], at[i - 1])'
  <2>1. Says(sent[i], at[i - 1])
    BY DEF SentInv
  <2> QED
    BY <1>1, <2>1 DEF Says
<1> QED
  BY <1>1, <1>2, <1>3, <1>4 DEF SentInv

LEMMA CopyKept ==
    ASSUME CopyInv, UNCHANGED <<parser, restorer>>
    PROVE  CopyInv'
  BY DEF CopyInv, Token, Legal, parser, restorer

LEMMA LegalKept ==
    ASSUME LegalInv, UNCHANGED <<parser, restorer>>
    PROVE  LegalInv'
<1>1. FromParser' = FromParser
  BY DEF FromParser, parser
<1>2. ASSUME NEW at, ParsedInv(at) PROVE ParsedInv(at)'
  BY <1>2 DEF ParsedInv, Layout, Legal, parser, restorer
<1> QED
  BY <1>1, <1>2 DEF LegalInv

\* Before the decoder's turn nothing is parsed, copied or followed
LEMMA BeforeDecoding ==
    ASSUME ShapeInv', WaitInv', pc' \in Running, NEW at, NEW cut, SentInv(at, cut)'
    PROVE  CopyInv' /\ FullInv' /\ LegalInv' /\ SourceInv'
<1>1. /\ cursor' = 0 /\ produced' = 0 /\ tokens' = <<>>
      /\ decoded' = 0 /\ copied' = 0 /\ output' = <<>>
  BY DEF WaitInv
<1>2. CopyInv' /\ FullInv'
  BY <1>1 DEF CopyInv, FullInv
<1>3. ParsedInv([i \in 0 .. 0 |-> 0])'
  BY <1>1, EmptyLayout DEF ParsedInv
<1>4. FollowInv(at, cut)'
  BY DEF FollowInv
<1> QED
  BY <1>2, <1>3, <1>4 DEF LegalInv, SourceInv

\* The token after the first n, where it starts and where it ends
LEMMA NextToken ==
    ASSUME TypeOK, ShapeInv, NEW at, NEW cut, SentInv(at, cut),
           NEW n \in 0 .. Len(sent)
    PROVE  /\ at[n] \in 0 .. position /\ cut[n] \in 0 .. Len(wire)
           /\ n < Len(sent) =>
                 LET t == sent[n + 1] IN
                 /\ t \in Tokens /\ t.length >= 1 /\ Says(t, at[n])
                 /\ at[n + 1] = at[n] + t.length /\ at[n + 1] <= position
                 /\ cut[n + 1] = cut[n] + Size(t) /\ cut[n + 1] <= Len(wire)
                 /\ \A k \in 1 .. Size(t) : wire[cut[n] + k] = Serialized(t)[k]
<1>1. sent \in Seq(Tokens) /\ Len(sent) \in Nat
  BY DEF ShapeInv
<1>2. Layout(at, sent, position) /\ Cuts(cut, sent, wire)
  BY DEF SentInv
<1>3. at[n] \in 0 .. position /\ cut[n] \in 0 .. Len(wire)
  BY <1>2 DEF Layout, Cuts
<1>4. ASSUME n < Len(sent)
      PROVE  /\ sent[n + 1] \in Tokens /\ Says(sent[n + 1], at[n])
             /\ at[n + 1] = at[n] + sent[n + 1].length
             /\ cut[n + 1] = cut[n] + Size(sent[n + 1])
             /\ \A k \in 1 .. Size(sent[n + 1]) :
                   wire[cut[n] + k] = Serialized(sent[n + 1])[k]
             /\ at[n + 1] \in 0 .. position /\ cut[n + 1] \in 0 .. Len(wire)
             /\ sent[n + 1].length >= 1
  <2> DEFINE i == n + 1
  <2>1. i \in 1 .. Len(sent) /\ i \in 0 .. Len(sent) /\ i - 1 = n
    BY <1>1, <1>4
  <2> HIDE DEF i
  <2>2. sent[i] \in Tokens
    BY <1>1, <2>1, ElementOfSequence
  <2>3. Says(sent[i], at[i - 1])
    BY <2>1 DEF SentInv
  <2>4. at[i] = at[i - 1] + sent[i].length /\ at[i] \in 0 .. position
    BY <1>2, <2>1 DEF Layout
  <2>5. /\ cut[i] = cut[i - 1] + Size(sent[i]) /\ cut[i] \in 0 .. Len(wire)
        /\ \A k \in 1 .. Size(sent[i]) :
              wire[cut[i - 1] + k] = Serialized(sent[i])[k]
    BY <1>2, <2>1 DEF Cuts
  <2>6. sent[i].length >= 1
    BY <2>3 DEF Says
  <2> QED
    BY <2>1, <2>2, <2>3, <2>4, <2>5, <2>6 DEF i
<1>5. position \in Nat /\ Len(wire) \in Nat
  BY DEF TypeOK
<1> QED
  BY <1>3, <1>4, <1>5
-----------------------------------------------------------------------------
(* The encoder.                                                            *)

LEMMA InitInvariant == Init => IInv
<1> SUFFICES ASSUME Init PROVE IInv
  OBVIOUS
<1> DEFINE zero == [i \in 0 .. 0 |-> 0]
<1>0. source \in Seq(Bytes) /\ Len(source) \in Nat
  BY Constants DEF Init
<1>1. TypeOK /\ ShapeInv
  BY <1>0, Constants DEF Init, TypeOK, ShapeInv
<1>2. EncodedInv /\ WaitInv /\ CopyInv /\ FullInv
  BY DEF Init, EncodedInv, HasMatch, WaitInv, CopyInv, FullInv, Running
<1>3. ParsedInv(zero)
  BY EmptyLayout DEF Init, ParsedInv
<1>4. SentInv(zero, zero)
  BY EmptyLayout, EmptyCuts DEF Init, SentInv
<1>5. FollowInv(zero, zero)
  BY DEF Init, FollowInv, Running
<1> HIDE DEF zero
<1> QED
  BY <1>1, <1>2, <1>3, <1>4, <1>5 DEF IInv, LegalInv, SourceInv

LEMMA EmitKeeps ==
    ASSUME IInv, pc = "encode", NEW t \in Tokens, Emit(t),
           Says(t, position), position + t.length <= Len(source),
           mode = "literals" => ~t.match
    PROVE  IInv'
<1>1. TypeOK /\ ShapeInv /\ EncodedInv /\ WaitInv
  BY DEF IInv
<1>2. PICK at, cut : SentInv(at, cut)
  BY DEF IInv, SourceInv
<1> DEFINE n == Len(sent)
<1>3. /\ sent' \in Seq(Tokens) /\ n \in Nat /\ Len(sent') = n + 1
      /\ \A i \in 1 .. n : sent'[i] = sent[i]
      /\ sent'[n + 1] = t
  BY <1>1, AppendFacts DEF ShapeInv, Emit
<1>4. position \in Nat /\ t.length \in Nat /\ source \in Seq(Bytes)
      /\ Len(source) \in Nat /\ wire \in Seq(Bytes)
  BY <1>1, TokenFacts, Constants DEF TypeOK
<1>5. PICK newat : /\ Layout(newat, sent', position')
                   /\ \A i \in 0 .. n : newat[i] = at[i]
  <2>1. Layout(at, sent, position) /\ sent \in Seq(Tokens)
    BY <1>1, <1>2 DEF SentInv, ShapeInv
  <2>2. sent' = Append(sent, t) /\ position' = position + t.length
    BY DEF Emit
  <2> DEFINE new == Extended(at, n, position + t.length)
  <2>3. /\ Layout(new, Append(sent, t), position + t.length)
        /\ \A i \in 0 .. n : new[i] = at[i]
    BY ZenonT(40), <1>4, <2>1, LayoutExtends
  <2> HIDE DEF new, n
  <2> QED
    BY <2>2, <2>3
<1>6. PICK newcut : Cuts(newcut, sent', wire')
  <2>1. Cuts(cut, sent, wire) /\ sent \in Seq(Tokens)
    BY <1>1, <1>2 DEF SentInv, ShapeInv
  <2>2. sent' = Append(sent, t) /\ wire' = wire \o Serialized(t)
    BY DEF Emit
  <2> QED
    BY <1>4, <2>1, <2>2, CutsExtend
<1> HIDE DEF n
<1>7. ASSUME NEW i \in 1 .. n + 1 PROVE Says(sent'[i], newat[i - 1])
  <2>1. CASE i \in 1 .. n
    <3>1. sent'[i] = sent[i] /\ newat[i - 1] = at[i - 1]
      BY <1>3, <1>5, <2>1
    <3> QED
      BY <1>2, <2>1, <3>1 DEF SentInv, n
  <2>2. CASE i = n + 1
    <3>1. at[n] = position
      BY <1>2 DEF SentInv, Layout, n
    <3>2. newat[i - 1] = position /\ sent'[i] = t
      BY <1>3, <1>5, <2>2, <3>1
    <3> QED
      BY <3>2
  <2> QED
    BY <1>3, <2>1, <2>2
<1>8. SentInv(newat, newcut)'
  <2>0. source' = source
    BY DEF Emit
  <2>1. ASSUME NEW i \in 1 .. Len(sent') PROVE Says(sent[i], newat[i - 1])'
    BY <1>3, <1>7, <2>0 DEF Says
  <2> QED
    BY <1>5, <1>6, <2>1 DEF SentInv, Layout, Cuts
<1>9. TypeOK' /\ ShapeInv'
  <2>1. wire' \in Seq(Bytes)
    BY <1>4, SerializedFacts, ConcatFacts DEF Emit
  <2>2. position' \in 0 .. Len(source)
    BY <1>4 DEF Emit
  <2>3. ASSUME NEW i \in 1 .. Len(sent'), sent'[i].match
        PROVE  /\ sent'[i].distance \in 1 .. Window
               /\ sent'[i].length \in MinMatch .. MaxMatch
    <3>1. Says(sent'[i], newat[i - 1])
      BY <1>3, <1>7
    <3> QED
      BY <2>3, <3>1, Constants DEF Says
  <2>4. UNCHANGED <<pc, mode, source, parser, restorer>>
    BY DEF Emit
  <2> QED
    BY <1>1, <1>3, <2>1, <2>2, <2>3, <2>4 DEF TypeOK, ShapeInv, parser, restorer
<1>10. EncodedInv' /\ WaitInv'
  <2>1. pc' = "encode" /\ mode' = mode /\ UNCHANGED <<parser, restorer>>
    BY DEF Emit
  <2>2. mode = "literals" => ~HasMatch(sent')
    BY <1>1, <1>3 DEF EncodedInv, HasMatch, n
  <2>3. EncodedInv'
    BY <2>1, <2>2 DEF EncodedInv, HasMatch
  <2> QED
    BY <1>1, <2>1, <2>3 DEF WaitInv, parser, restorer
<1>11. pc' \in Running
  BY DEF Emit, Running
<1> QED
  BY <1>8, <1>9, <1>10, <1>11, BeforeDecoding DEF IInv

LEMMA EncodeMatchKeeps == IInv /\ EncodeMatch => IInv'
<1> SUFFICES ASSUME IInv, EncodeMatch PROVE IInv'
  OBVIOUS
<1>1. PICK d \in Distances : \E n \in Repeats(d) :
          Worthwhile(d, n) /\ Emit(Match(d, n))
  BY DEF EncodeMatch
<1>2. PICK n \in Repeats(d) : Worthwhile(d, n) /\ Emit(Match(d, n))
  BY <1>1
<1>3. position \in Nat /\ source \in Seq(Bytes) /\ Len(source) \in Nat
      /\ position <= Len(source)
  BY Constants DEF IInv, TypeOK
<1>4. mode # "literals" /\ d \in 1 .. position /\ d <= Window /\ d \in Nat
  BY <1>3, Constants DEF Distances, Lesser
<1>5. /\ n \in Nat /\ n >= MinMatch /\ n <= MaxMatch
      /\ position + n <= Len(source)
      /\ \A j \in 1 .. n : source[position + j] = source[(position + j) - d]
  BY <1>2, <1>3, Constants DEF Repeats, Worthwhile, Lesser
<1>6. d \in Words /\ n \in Words
  BY <1>4, <1>5, PathOneAssumption DEF Words
<1>7. /\ Match(d, n) \in Tokens /\ Match(d, n).match
      /\ Match(d, n).distance = d /\ Match(d, n).length = n
  BY <1>6, MatchIsToken
<1>8. Says(Match(d, n), position)
  BY <1>4, <1>5, <1>7, Constants DEF Says
<1>9. pc = "encode"
  BY DEF EncodeMatch
<1> QED
  BY <1>2, <1>4, <1>5, <1>7, <1>8, <1>9, EmitKeeps

LEMMA EncodeLiteralKeeps == IInv /\ EncodeLiteral => IInv'
<1> SUFFICES ASSUME IInv, EncodeLiteral PROVE IInv'
  OBVIOUS
<1>1. position \in Nat /\ source \in Seq(Bytes) /\ Len(source) \in Nat
      /\ position < Len(source)
  BY Constants DEF IInv, TypeOK, EncodeLiteral
<1>2. source[position + 1] \in Bytes
  BY <1>1, ElementOfSequence
<1> DEFINE t == Literal(source[position + 1])
<1>3. t \in Tokens /\ ~t.match /\ t.byte = source[position + 1] /\ t.length = 1
  BY <1>2, LiteralIsToken
<1>4. pc = "encode" /\ Emit(t)
  BY DEF EncodeLiteral
<1> HIDE DEF t
<1>5. Says(t, position)
  BY <1>3 DEF Says
<1> QED
  BY <1>1, <1>3, <1>4, <1>5, EmitKeeps

LEMMA EncodeEndKeeps == IInv /\ EncodeEnd => IInv'
<1> SUFFICES ASSUME IInv, EncodeEnd PROVE IInv'
  OBVIOUS
<1>1. /\ pc = "encode" /\ position = Len(source) /\ pc' \in {"refused", "deliver"}
      /\ (mode = "require" /\ pc' # "refused") => HasMatch(sent)
      /\ UNCHANGED encoder /\ UNCHANGED <<parser, restorer>>
  BY DEF EncodeEnd
<1>2. TypeOK' /\ ShapeInv'
  BY <1>1 DEF IInv, TypeOK, ShapeInv, encoder, parser, restorer
<1>3. EncodedInv'
  BY <1>1 DEF IInv, EncodedInv, HasMatch, encoder
<1>4. WaitInv' /\ pc' \in Running
  BY <1>1 DEF IInv, WaitInv, Running, parser, restorer
<1>5. PICK at, cut : SentInv(at, cut)
  BY DEF IInv, SourceInv
<1>6. SentInv(at, cut)'
  BY <1>1, <1>5, SentKept
<1> QED
  BY <1>2, <1>3, <1>4, <1>6, BeforeDecoding DEF IInv
-----------------------------------------------------------------------------
(* The stream or the tokens arrive.                                        *)

LEMMA FreshStart ==
    ASSUME cursor' = 0, produced' = 0, tokens' = <<>>,
           decoded' = 0, copied' = 0, output' = <<>>, pc' \in {"parse", "decode"},
           NEW at, NEW cut, SentInv(at, cut)',
           Honest' /\ pc' = "decode" => Len(sent') = 0
    PROVE  CopyInv' /\ FullInv' /\ LegalInv' /\ SourceInv'
<1>1. CopyInv' /\ FullInv'
  BY DEF CopyInv, FullInv
<1>2. ParsedInv([i \in 0 .. 0 |-> 0])'
  BY EmptyLayout DEF ParsedInv
<1>3. at[0] = 0 /\ cut[0] = 0 /\ Len(sent') \in Nat
  BY DEF SentInv, Layout, Cuts
<1>4. FollowInv(at, cut)'
  BY <1>3 DEF FollowInv, Rejected
<1> QED
  BY <1>1, <1>2, <1>4 DEF LegalInv, SourceInv

LEMMA DeliverKeeps == IInv /\ Deliver => IInv'
<1> SUFFICES ASSUME IInv, Deliver PROVE IInv'
  OBVIOUS
<1>1. /\ pc = "deliver" /\ pc' = "parse"
      /\ UNCHANGED encoder /\ UNCHANGED <<cursor, produced, tokens>>
      /\ UNCHANGED restorer
  BY DEF Deliver
<1>2. /\ cursor = 0 /\ produced = 0 /\ tokens = <<>>
      /\ decoded = 0 /\ copied = 0 /\ output = <<>>
  BY <1>1 DEF IInv, WaitInv, Running
<1>3. stream' \in Seq(Bytes) /\ expected' \in Nat
  <2>1. source \in Seq(Bytes) /\ wire \in Seq(Bytes)
    BY Constants DEF IInv, TypeOK
  <2>2. Len(source) \in Nat
    BY <2>1
  <2>3. \/ stream' = wire /\ expected' = Len(source)
        \/ stream' \in Streams /\ expected' \in Lengths
    BY DEF Deliver
  <2> QED
    BY <2>1, <2>2, <2>3, Constants
<1>4. TypeOK' /\ ShapeInv'
  BY <1>1, <1>2, <1>3 DEF IInv, TypeOK, ShapeInv, encoder, restorer
<1>5. EncodedInv'
  BY <1>1 DEF IInv, EncodedInv, HasMatch, encoder
<1>6. WaitInv'
  BY <1>1, <1>2 DEF WaitInv, Running, restorer
<1>7. PICK at, cut : SentInv(at, cut)
  BY DEF IInv, SourceInv
<1>8. SentInv(at, cut)'
  BY <1>1, <1>7, SentKept
<1>9. CopyInv' /\ FullInv' /\ LegalInv' /\ SourceInv'
  BY <1>1, <1>2, <1>8, FreshStart DEF restorer
<1> QED
  BY <1>4, <1>5, <1>6, <1>9 DEF IInv

\* Tokens that did not come through the parser; only without any can the
\* empty stream pass for what the encoder wrote
LEMMA HandTokensKeeps == IInv /\ HandTokens => IInv'
<1> SUFFICES ASSUME IInv, HandTokens PROVE IInv'
  OBVIOUS
<1>1. /\ pc = "deliver" /\ pc' = "decode"
      /\ tokens' \in Seq(Tokens) /\ expected' \in Nat
      /\ UNCHANGED encoder /\ UNCHANGED <<stream, cursor, produced>>
      /\ UNCHANGED restorer
  BY Constants DEF HandTokens
<1>2. /\ cursor = 0 /\ produced = 0 /\ stream = <<>>
      /\ decoded = 0 /\ copied = 0 /\ output = <<>>
  BY <1>1 DEF IInv, WaitInv, Running
<1>3. TypeOK' /\ ShapeInv'
  BY <1>1, <1>2 DEF IInv, TypeOK, ShapeInv, encoder, restorer
<1>4. EncodedInv'
  BY <1>1 DEF IInv, EncodedInv, HasMatch, encoder
<1>5. WaitInv'
  BY <1>1, <1>2 DEF WaitInv, Running, restorer
<1>6. PICK at, cut : SentInv(at, cut)
  BY DEF IInv, SourceInv
<1>7. SentInv(at, cut)'
  BY <1>1, <1>6, SentKept
<1>8. CopyInv' /\ FullInv'
  BY <1>1, <1>2 DEF CopyInv, FullInv, restorer
<1>9. CASE tokens' = <<>>
  <2>1. wire = <<>> => Len(sent) = 0
    <3>1. TypeOK /\ ShapeInv
      BY DEF IInv
    <3>2. 0 \in 0 .. Len(sent) /\ Len(sent) \in Nat
      BY <3>1 DEF ShapeInv
    <3>3. cut[0] = 0
      BY <1>6 DEF SentInv, Cuts
    <3>4. Len(sent) > 0 => /\ sent[1] \in Tokens
                           /\ cut[1] = Size(sent[1]) /\ cut[1] <= Len(wire)
      BY <1>6, <3>1, <3>2, <3>3, NextToken, SizeFacts
    <3> QED
      BY <3>2, <3>4, SizeFacts
  <2>2. Honest' => Len(sent') = 0
    BY <1>1, <1>2, <2>1 DEF Honest, encoder
  <2> QED
    BY <1>1, <1>2, <1>3, <1>4, <1>5, <1>7, <1>9, <2>2, FreshStart
    DEF IInv, restorer
<1>10. CASE tokens' # <<>>
  <2>1. ~FromParser' /\ ~Honest'
    BY <1>1, <1>2, <1>10 DEF FromParser, Honest
  <2>2. LegalInv' /\ FollowInv(at, cut)'
    BY <2>1 DEF LegalInv, FollowInv
  <2> QED
    BY <1>3, <1>4, <1>5, <1>7, <1>8, <2>2 DEF IInv, SourceInv
<1> QED
  BY <1>9, <1>10
-----------------------------------------------------------------------------
(* The parser.                                                             *)

\* On the encoder's bytes the parser reads the encoder's next token
LEMMA HonestToken ==
    ASSUME IInv, pc = "parse", Honest,
           NEW at, NEW cut, SentInv(at, cut), FollowInv(at, cut),
           Len(tokens) < Len(sent)
    PROVE  LET t == sent[Len(tokens) + 1] IN
           /\ t \in Tokens /\ Has(Size(t))
           /\ t.match => /\ Tag(1) /\ ~Tag(0)
                         /\ t = Match(Word(2), Word(4)) /\ Legal(t, produced)
           /\ ~t.match => Tag(0) /\ ~Tag(1) /\ t = Literal(ByteAt(2))
           /\ cursor + Size(t) = cut[Len(tokens) + 1]
           /\ produced + t.length = at[Len(tokens) + 1]
           /\ at[Len(tokens) + 1] <= expected
<1> DEFINE n == Len(tokens)
           t == sent[n + 1]
<1>1. TypeOK /\ ShapeInv
  BY DEF IInv
<1>2. /\ stream = wire /\ expected = Len(source) /\ position = Len(source)
      /\ cursor = cut[n] /\ produced = at[n]
  BY DEF IInv, EncodedInv, Honest, FollowInv, Running
<1>3. n \in 0 .. Len(sent) /\ n < Len(sent)
  BY <1>1 DEF ShapeInv
<1>4. /\ at[n] \in 0 .. position /\ cut[n] \in 0 .. Len(wire)
      /\ t \in Tokens /\ t.length >= 1 /\ Says(t, at[n])
      /\ at[n + 1] = at[n] + t.length /\ at[n + 1] <= position
      /\ cut[n + 1] = cut[n] + Size(t) /\ cut[n + 1] <= Len(wire)
      /\ \A k \in 1 .. Size(t) : wire[cut[n] + k] = Serialized(t)[k]
  BY <1>1, <1>3, NextToken
<1>5. /\ Size(t) \in {2, 5} /\ Len(stream) \in Nat /\ cursor \in Nat
      /\ produced \in Nat /\ expected \in Nat
  BY SMTT(40), <1>1, <1>4, SizeFacts DEF TypeOK, ShapeInv
<1> HIDE DEF t, n
<1>6. Has(Size(t)) /\ Has(1)
  BY <1>2, <1>4, <1>5 DEF Has
<1>7. \A k \in 1 .. Size(t) : ByteAt(k) = Serialized(t)[k]
  BY <1>2, <1>4 DEF ByteAt
<1>8. CASE t.match
  <2>1. Size(t) = 5
    BY <1>8 DEF Size
  <2>2. /\ Serialized(t)[1] = 1
        /\ Serialized(t)[2] + Base * Serialized(t)[3] = t.distance
        /\ Serialized(t)[4] + Base * Serialized(t)[5] = t.length
    BY <1>4, <1>8, SerializedFacts
  <2>3. /\ ByteAt(1) = 1 /\ ByteAt(2) = Serialized(t)[2]
        /\ ByteAt(3) = Serialized(t)[3] /\ ByteAt(4) = Serialized(t)[4]
        /\ ByteAt(5) = Serialized(t)[5]
    BY <1>7, <2>1, <2>2
  <2>4. Word(2) = t.distance /\ Word(4) = t.length
    BY <2>2, <2>3 DEF Word
  <2>5. t = Match(t.distance, t.length)
    BY <1>4, <1>8, TokenFacts
  <2>6. Legal(t, produced)
    BY <1>2, <1>4, <1>5, <1>8, Constants DEF Says, Legal
  <2>7. Tag(1) /\ ~Tag(0)
    BY <1>6, <2>3 DEF Tag
  <2> QED
    BY <1>2, <1>4, <1>6, <1>8, <2>4, <2>5, <2>6, <2>7 DEF n, t
<1>9. CASE ~t.match
  <2>1. Size(t) = 2
    BY <1>9 DEF Size
  <2>2. Serialized(t)[1] = 0 /\ Serialized(t)[2] = t.byte /\ t = Literal(t.byte)
    BY <1>4, <1>9, SerializedFacts, TokenFacts
  <2>3. ByteAt(1) = 0 /\ ByteAt(2) = t.byte
    BY <1>7, <2>1, <2>2
  <2>4. Tag(0) /\ ~Tag(1)
    BY <1>6, <2>3 DEF Tag
  <2> QED
    BY <1>2, <1>4, <1>6, <1>9, <2>2, <2>3, <2>4 DEF n, t
<1> QED
  BY <1>8, <1>9

\* As long as output is missing, so is a token
LEMMA HonestIsBehind ==
    ASSUME IInv, pc = "parse", Honest,
           NEW at, NEW cut, SentInv(at, cut), FollowInv(at, cut)
    PROVE  produced < expected <=> Len(tokens) < Len(sent)
<1> DEFINE n == Len(tokens)
<1>1. TypeOK /\ ShapeInv
  BY DEF IInv
<1>2. /\ expected = position /\ produced = at[n] /\ n <= Len(sent)
  BY DEF IInv, EncodedInv, Honest, FollowInv, Running
<1>3. n \in 0 .. Len(sent) /\ Len(sent) \in Nat /\ position \in Nat
  BY <1>1, <1>2 DEF ShapeInv, TypeOK
<1>4. at[Len(sent)] = position
  BY DEF SentInv, Layout
<1>5. n < Len(sent) => at[n] + sent[n + 1].length <= position
                       /\ sent[n + 1].length >= 1
                       /\ sent[n + 1] \in Tokens /\ at[n] \in Nat
  BY <1>1, <1>3, NextToken
<1> HIDE DEF n
<1>6. CASE n < Len(sent)
  <2>1. sent[n + 1].length \in Nat
    BY <1>5, <1>6, TokenFacts
  <2> QED
    BY <1>2, <1>3, <1>5, <1>6, <2>1 DEF n
<1>7. CASE ~(n < Len(sent))
  BY <1>2, <1>3, <1>4, <1>7 DEF n
<1> QED
  BY <1>6, <1>7

LEMMA ParsedKeeps ==
    ASSUME IInv, pc = "parse", NEW t \in Tokens, Parsed(t, Size(t)),
           Has(Size(t)), t.length >= 1, produced + t.length <= expected,
           t.match => Legal(t, produced),
           \A at, cut : (Honest /\ SentInv(at, cut) /\ FollowInv(at, cut)) =>
               /\ Len(tokens) < Len(sent) /\ t = sent[Len(tokens) + 1]
               /\ cursor + Size(t) = cut[Len(tokens) + 1]
               /\ produced + t.length = at[Len(tokens) + 1]
    PROVE  IInv'
<1> DEFINE n == Len(tokens)
<1>1. TypeOK /\ ShapeInv /\ WaitInv /\ FromParser
  BY DEF IInv, WaitInv, FromParser
<1>2. /\ tokens' = Append(tokens, t) /\ cursor' = cursor + Size(t)
      /\ produced' = produced + t.length /\ pc' = pc
      /\ UNCHANGED encoder /\ UNCHANGED <<stream, expected>> /\ UNCHANGED restorer
  BY DEF Parsed
<1>3. /\ n \in Nat /\ tokens' \in Seq(Tokens) /\ Len(tokens') = n + 1
      /\ \A i \in 1 .. n : tokens'[i] = tokens[i]
      /\ tokens'[n + 1] = t
  BY <1>1, <1>2, AppendFacts DEF ShapeInv
<1>4. /\ Size(t) \in {2, 5} /\ t.length \in Nat /\ cursor \in Nat
      /\ produced \in Nat /\ expected \in Nat
      /\ cursor' \in 0 .. Len(stream) /\ cursor' > 0
  <2>1. /\ Size(t) \in {2, 5} /\ t.length \in Nat /\ expected \in Nat
        /\ cursor \in 0 .. Len(stream) /\ produced \in 0 .. expected
        /\ Len(stream) \in Nat
    BY <1>1, SizeFacts, TokenFacts DEF TypeOK, ShapeInv
  <2>2. cursor + Size(t) <= Len(stream)
    BY DEF Has
  <2> QED
    BY <1>2, <2>1, <2>2
<1>5. decoded = 0 /\ copied = 0 /\ output = <<>>
  BY <1>1 DEF WaitInv
<1>6. decoded' = 0 /\ copied' = 0 /\ output' = <<>>
  BY <1>2, <1>5 DEF restorer
<1>7. TypeOK' /\ ShapeInv'
  <2>1. /\ produced' \in 0 .. expected' /\ cursor' \in 0 .. Len(stream')
        /\ decoded' \in 0 .. Len(tokens') /\ copied' \in Nat
    BY <1>2, <1>3, <1>4, <1>6
  <2>2. output' \in Seq(Bytes) /\ Len(output') <= expected'
    BY <1>2, <1>4, <1>6
  <2> QED
    BY <1>1, <1>2, <1>3, <2>1, <2>2 DEF TypeOK, ShapeInv, encoder
<1>8. EncodedInv' /\ WaitInv' /\ CopyInv' /\ FullInv'
  <2>1. EncodedInv'
    BY <1>2 DEF IInv, EncodedInv, HasMatch, encoder
  <2>2. WaitInv'
    BY <1>2, <1>4, <1>6 DEF WaitInv, Running
  <2> QED
    BY <1>2, <1>6, <2>1, <2>2 DEF CopyInv, FullInv
<1>9. LegalInv'
  <2>1. PICK at : ParsedInv(at)
    BY <1>1 DEF IInv, LegalInv
  <2>2. Layout(at, tokens, produced) /\ tokens \in Seq(Tokens)
    BY <1>1, <2>1 DEF ParsedInv, ShapeInv
  <2>3. PICK new : /\ Layout(new, Append(tokens, t), produced + t.length)
                   /\ \A i \in 0 .. n : new[i] = at[i]
    <3> DEFINE ext == Extended(at, n, produced + t.length)
    <3>1. /\ Layout(ext, Append(tokens, t), produced + t.length)
          /\ \A i \in 0 .. n : ext[i] = at[i]
      BY ZenonT(40), <1>4, <2>2, LayoutExtends
    <3> HIDE DEF ext, n
    <3> QED
      BY <3>1
  <2>4. at[0] = 0 /\ at[n] = produced
    BY <2>2 DEF Layout
  <2>5. Layout(new, tokens, produced)'
    BY <1>2, <2>3 DEF Layout
  <2> HIDE DEF n
  <2>6. ASSUME NEW i \in 1 .. n + 1
        PROVE  /\ tokens'[i].length >= 1
               /\ tokens'[i].match => Legal(tokens'[i], new[i - 1])
    <3>1. CASE i = n + 1
      <4>1. tokens'[i] = t /\ new[i - 1] = produced
        BY <1>3, <2>3, <2>4, <3>1
      <4> QED
        BY <4>1
    <3>2. CASE i \in 1 .. n
      <4>1. tokens'[i] = tokens[i] /\ new[i - 1] = at[i - 1]
        BY <1>3, <2>3, <3>2
      <4>2. /\ tokens[i].length >= 1
            /\ tokens[i].match => Legal(tokens[i], at[i - 1])
        BY <2>1, <3>2 DEF ParsedInv, n
      <4> QED
        BY <4>1, <4>2
    <3> QED
      BY <1>3, <3>1, <3>2
  <2>7. new[0] = 0
    BY <1>3, <2>3, <2>4
  <2>8. ParsedInv(new)'
    BY <1>2, <1>3, <1>6, <2>5, <2>6, <2>7 DEF ParsedInv, Legal
  <2> QED
    BY <2>8 DEF LegalInv
<1>10. SourceInv'
  <2>1. PICK at, cut : SentInv(at, cut) /\ FollowInv(at, cut)
    BY DEF IInv, SourceInv
  <2>2. SentInv(at, cut)'
    BY <1>2, <2>1, SentKept
  <2>3. ASSUME Honest' PROVE FollowInv(at, cut)'
    <3>1. Honest
      BY <1>1, <1>2, <2>3 DEF Honest, FromParser, encoder
    <3>2. /\ n < Len(sent) /\ t = sent[n + 1]
          /\ cursor' = cut[n + 1] /\ produced' = at[n + 1]
      BY <1>2, <2>1, <3>1
    <3>3. \A i \in 1 .. n : tokens[i] = sent[i]
      BY <2>1, <3>1 DEF FollowInv, Running
    <3>4. sent' = sent /\ source' = source /\ Len(sent) \in Nat
      BY <1>1, <1>2 DEF encoder, ShapeInv
    <3>5. at[0] = 0
      BY <2>1 DEF SentInv, Layout
    <3> HIDE DEF n
    <3>6. \A i \in 1 .. n + 1 : tokens'[i] = sent[i]
      BY <1>3, <3>2, <3>3
    <3>7. Len(tokens') <= Len(sent)
      BY <1>3, <3>2, <3>4
    <3> QED
      BY <1>2, <1>3, <1>6, <3>2, <3>4, <3>5, <3>6, <3>7 DEF FollowInv, Rejected
  <2> QED
    BY <2>2, <2>3 DEF SourceInv, FollowInv
<1> QED
  BY <1>7, <1>8, <1>9, <1>10 DEF IInv

LEMMA ParseLiteralKeeps == IInv /\ ParseLiteral => IInv'
<1> SUFFICES ASSUME IInv, ParseLiteral PROVE IInv'
  OBVIOUS
<1> DEFINE t == Literal(ByteAt(2))
<1>1. /\ pc = "parse" /\ produced < expected /\ Tag(0) /\ Has(2) /\ Parsed(t, 2)
  BY DEF ParseLiteral, Parsing
<1>2. ByteAt(2) \in Bytes
  <2>1. stream \in Seq(Bytes) /\ Len(stream) \in Nat /\ cursor \in Nat
    BY DEF IInv, TypeOK
  <2>2. cursor + 2 \in 1 .. Len(stream)
    BY <1>1, <2>1 DEF Has
  <2> QED
    BY <2>1, <2>2, ElementOfSequence DEF ByteAt
<1>3. t \in Tokens /\ ~t.match /\ t.length = 1
  BY <1>2, LiteralIsToken
<1> HIDE DEF t
<1>4. Size(t) = 2
  BY <1>3 DEF Size
<1>5. produced + t.length <= expected
  BY <1>1, <1>3 DEF IInv, TypeOK, ShapeInv
<1>6. ASSUME NEW at, NEW cut, Honest, SentInv(at, cut), FollowInv(at, cut)
      PROVE  /\ Len(tokens) < Len(sent) /\ t = sent[Len(tokens) + 1]
             /\ cursor + Size(t) = cut[Len(tokens) + 1]
             /\ produced + t.length = at[Len(tokens) + 1]
  <2>1. Len(tokens) < Len(sent)
    BY <1>1, <1>6, HonestIsBehind
  <2>2. ~Tag(1)
    BY <1>1 DEF Tag
  <2>3. t = sent[Len(tokens) + 1]
    BY <1>1, <1>6, <2>1, <2>2, HonestToken DEF t
  <2> QED
    BY <1>1, <1>6, <2>1, <2>3, HonestToken
<1> QED
  BY <1>1, <1>3, <1>4, <1>5, <1>6, ParsedKeeps

LEMMA ParseMatchKeeps == IInv /\ ParseMatch => IInv'
<1> SUFFICES ASSUME IInv, ParseMatch PROVE IInv'
  OBVIOUS
<1> DEFINE t == Match(Word(2), Word(4))
<1>1. /\ pc = "parse" /\ produced < expected /\ Tag(1) /\ Has(5)
      /\ Parsed(t, 5) /\ Legal(t, produced)
  BY DEF ParseMatch, Parsing
<1>2. Word(2) \in Words /\ Word(4) \in Words
  <2>1. stream \in Seq(Bytes) /\ Len(stream) \in Nat /\ cursor \in Nat
    BY DEF IInv, TypeOK
  <2>2. /\ cursor + 2 \in 1 .. Len(stream) /\ cursor + 3 \in 1 .. Len(stream)
        /\ cursor + 4 \in 1 .. Len(stream) /\ cursor + 5 \in 1 .. Len(stream)
    BY <1>1, <2>1 DEF Has
  <2>3. /\ ByteAt(2) \in Bytes /\ ByteAt(3) \in Bytes
        /\ ByteAt(4) \in Bytes /\ ByteAt(5) \in Bytes
    BY <2>1, <2>2, ElementOfSequence DEF ByteAt
  <2> QED
    BY <2>3, WordOfBytes DEF Word
<1>3. t \in Tokens /\ t.match
  BY <1>2, MatchIsToken
<1> HIDE DEF t
<1>4. Size(t) = 5
  BY <1>3 DEF Size
<1>5. t.length >= 1 /\ produced + t.length <= expected
  BY <1>1, <1>3, TokenFacts, Constants DEF Legal
<1>6. ASSUME NEW at, NEW cut, Honest, SentInv(at, cut), FollowInv(at, cut)
      PROVE  /\ Len(tokens) < Len(sent) /\ t = sent[Len(tokens) + 1]
             /\ cursor + Size(t) = cut[Len(tokens) + 1]
             /\ produced + t.length = at[Len(tokens) + 1]
  <2>1. Len(tokens) < Len(sent)
    BY <1>1, <1>6, HonestIsBehind
  <2>2. ~Tag(0)
    BY <1>1 DEF Tag
  <2>3. t = sent[Len(tokens) + 1]
    BY <1>1, <1>6, <2>1, <2>2, HonestToken DEF t
  <2> QED
    BY <1>1, <1>6, <2>1, <2>3, HonestToken
<1> QED
  BY <1>1, <1>3, <1>4, <1>5, <1>6, ParsedKeeps

\* A step that only moves the decoder on, or stops it
LEMMA MovesOn ==
    ASSUME IInv, UNCHANGED <<encoder, parser, restorer>>,
           pc \in {"parse", "validate", "decode"},
           pc' \in {"validate", "decode", "done"} \cup Rejected,
           pc' = "validate" => pc = "parse",
           cursor > 0 => /\ pc' # "badtoken"
                         /\ pc' \notin Rejected => produced = expected,
           \A at, cut : (Honest /\ SentInv(at, cut) /\ FollowInv(at, cut)) =>
               /\ pc' \notin Rejected /\ Len(tokens) = Len(sent)
               /\ pc' = "done" => Len(output) = Len(source)
    PROVE  IInv'
<1>1. /\ UNCHANGED encoder /\ UNCHANGED parser /\ UNCHANGED restorer
      /\ UNCHANGED <<parser, restorer>>
  OBVIOUS
<1>2. TypeOK' /\ ShapeInv'
  BY <1>1 DEF IInv, TypeOK, ShapeInv, Rejected, encoder, parser, restorer
<1>3. EncodedInv'
  BY <1>1 DEF IInv, EncodedInv, HasMatch, Rejected, encoder
<1>4. WaitInv'
  BY <1>1 DEF IInv, WaitInv, Running, Rejected, parser, restorer
<1>5. CopyInv' /\ LegalInv'
  BY <1>1, CopyKept, LegalKept DEF IInv
<1>6. FullInv'
  BY <1>1 DEF FullInv, Rejected, parser
<1>7. SourceInv'
  <2>1. PICK at, cut : SentInv(at, cut) /\ FollowInv(at, cut)
    BY DEF IInv, SourceInv
  <2>2. SentInv(at, cut)'
    BY <1>1, <2>1, SentKept
  <2>3. Honest' = Honest
    BY <1>1 DEF Honest, encoder, parser
  <2>4. FollowInv(at, cut)'
    BY <1>1, <2>1, <2>3 DEF FollowInv, Running, Rejected, encoder, parser, restorer
  <2> QED
    BY <2>2, <2>4 DEF SourceInv
<1> QED
  BY <1>2, <1>3, <1>4, <1>5, <1>6, <1>7 DEF IInv

LEMMA ParseErrorKeeps == IInv /\ ParseError => IInv'
<1> SUFFICES ASSUME IInv, ParseError PROVE IInv'
  OBVIOUS
<1>1. /\ pc = "parse" /\ produced < expected /\ pc' = "badstream"
      /\ UNCHANGED <<encoder, parser, restorer>>
      /\ \/ ~Tag(0) /\ ~Tag(1)
         \/ Tag(0) /\ ~Has(2)
         \/ Tag(1) /\ ~Has(5)
         \/ Tag(1) /\ Has(5) /\ ~Legal(Match(Word(2), Word(4)), produced)
  BY DEF ParseError, Parsing
<1>2. ASSUME NEW at, NEW cut, Honest, SentInv(at, cut), FollowInv(at, cut)
      PROVE  FALSE
  <2> DEFINE t == sent[Len(tokens) + 1]
  <2>1. Len(tokens) < Len(sent)
    BY <1>1, <1>2, HonestIsBehind
  <2>2. /\ t \in Tokens /\ Has(Size(t))
        /\ t.match => /\ Tag(1) /\ ~Tag(0)
                      /\ t = Match(Word(2), Word(4)) /\ Legal(t, produced)
        /\ ~t.match => Tag(0) /\ ~Tag(1)
    BY <1>1, <1>2, <2>1, HonestToken
  <2> HIDE DEF t
  <2>3. Size(t) = IF t.match THEN 5 ELSE 2
    BY DEF Size
  <2> QED
    BY <1>1, <2>2, <2>3
<1> QED
  BY <1>1, <1>2, MovesOn DEF Rejected

LEMMA ParseEndKeeps == IInv /\ ParseEnd => IInv'
<1> SUFFICES ASSUME IInv, ParseEnd PROVE IInv'
  OBVIOUS
<1>1. /\ pc = "parse" /\ produced >= expected
      /\ pc' = IF cursor = Len(stream) THEN "validate" ELSE "badstream"
      /\ UNCHANGED <<encoder, parser, restorer>>
  BY DEF ParseEnd
<1>2. /\ produced \in Nat /\ expected \in Nat /\ produced <= expected
  BY DEF IInv, TypeOK, ShapeInv
<1>3. produced = expected
  BY <1>1, <1>2
<1>4. ASSUME NEW at, NEW cut, Honest, SentInv(at, cut), FollowInv(at, cut)
      PROVE  pc' \notin Rejected /\ Len(tokens) = Len(sent) /\ pc' # "done"
  <2>1. ~(Len(tokens) < Len(sent))
    BY <1>1, <1>2, <1>4, HonestIsBehind
  <2>2. /\ Len(tokens) <= Len(sent) /\ cursor = cut[Len(tokens)]
        /\ stream = wire
    BY <1>1, <1>4 DEF FollowInv, Running, Honest
  <2>3. Len(tokens) \in Nat /\ Len(sent) \in Nat
    BY DEF IInv, ShapeInv
  <2>4. Len(tokens) = Len(sent)
    BY <2>1, <2>2, <2>3
  <2>5. cursor = Len(stream)
    BY <1>4, <2>2, <2>4 DEF SentInv, Cuts
  <2> QED
    BY <1>1, <2>4, <2>5 DEF Rejected
<1> QED
  BY <1>1, <1>3, <1>4, MovesOn DEF Rejected

LEMMA ValidateKeeps == IInv /\ Validate => IInv'
<1> SUFFICES ASSUME IInv, Validate PROVE IInv'
  OBVIOUS
<1>1. /\ pc = "validate"
      /\ pc' = IF ModeAllows(tokens) THEN "decode" ELSE "badmode"
      /\ UNCHANGED <<encoder, parser, restorer>>
  BY DEF Validate
<1>2. cursor > 0 => produced = expected
  BY <1>1 DEF IInv, FullInv
<1>3. ASSUME NEW at, NEW cut, Honest, SentInv(at, cut), FollowInv(at, cut)
      PROVE  pc' = "decode" /\ Len(tokens) = Len(sent)
  <2>1. Len(tokens) = Len(sent) /\ \A i \in 1 .. Len(tokens) : tokens[i] = sent[i]
    BY <1>1, <1>3 DEF FollowInv, Running
  <2>2. HasMatch(tokens) = HasMatch(sent)
    BY <2>1 DEF HasMatch
  <2>3. ModeAllows(tokens)
    BY <1>1, <2>2 DEF IInv, EncodedInv, ModeAllows
  <2> QED
    BY <1>1, <2>1, <2>3
<1> QED
  BY <1>1, <1>2, <1>3, MovesOn DEF Rejected
-----------------------------------------------------------------------------
(* The decoder.                                                            *)

LEMMA TokenAtHand ==
    ASSUME TypeOK, ShapeInv, Decoding
    PROVE  /\ Token \in Tokens /\ decoded \in Nat /\ Len(tokens) \in Nat
           /\ decoded + 1 \in 1 .. Len(tokens)
           /\ decoded \in 0 .. Len(tokens) /\ decoded + 1 \in 0 .. Len(tokens)
<1>1. tokens \in Seq(Tokens) /\ Len(tokens) \in Nat /\ decoded \in 0 .. Len(tokens)
  BY DEF TypeOK, ShapeInv
<1>2. decoded + 1 \in 1 .. Len(tokens) /\ decoded + 1 \in 0 .. Len(tokens)
  BY <1>1 DEF Decoding
<1> QED
  BY <1>1, <1>2, ElementOfSequence DEF Token

\* On the encoder's tokens the decoder stands inside the encoder's token
LEMMA HonestPlace ==
    ASSUME IInv, Decoding, Honest,
           NEW at, NEW cut, SentInv(at, cut), FollowInv(at, cut)
    PROVE  /\ Says(Token, at[decoded]) /\ Len(output) = at[decoded] + copied
           /\ at[decoded] \in Nat /\ expected = Len(source)
           /\ at[decoded] + Token.length <= expected
           /\ at[decoded + 1] = at[decoded] + Token.length
           /\ \A i \in 1 .. Len(output) : output[i] = source[i]
<1>1. TypeOK /\ ShapeInv /\ pc = "decode" /\ decoded < Len(tokens)
  BY DEF IInv, Decoding
<1>2. /\ Len(tokens) = Len(sent) /\ \A i \in 1 .. Len(tokens) : tokens[i] = sent[i]
      /\ Len(output) = at[decoded] + copied
      /\ \A i \in 1 .. Len(output) : output[i] = source[i]
  BY <1>1 DEF FollowInv, Running
<1>3. /\ decoded + 1 \in 1 .. Len(tokens) /\ decoded \in 0 .. Len(sent)
      /\ decoded < Len(sent)
  BY <1>1, <1>2, TokenAtHand
<1>4. Token = sent[decoded + 1]
  BY <1>2, <1>3 DEF Token
<1>5. /\ at[decoded] \in 0 .. position /\ Says(sent[decoded + 1], at[decoded])
      /\ at[decoded + 1] = at[decoded] + sent[decoded + 1].length
      /\ at[decoded + 1] <= position
  BY <1>1, <1>3, NextToken
<1>6. expected = Len(source) /\ position = Len(source) /\ position \in Nat
  BY <1>1 DEF IInv, EncodedInv, Honest, TypeOK
<1>7. at[decoded] \in Nat
  BY <1>5, <1>6
<1> QED
  BY <1>2, <1>4, <1>5, <1>6, <1>7

\* One more byte of output, of the token at hand
LEMMA RestoredKeeps ==
    ASSUME IInv, Decoding, NEW b \in Bytes, output' = Append(output, b),
           Len(output) < expected, UNCHANGED <<pc, encoder, parser>>,
           IF copied + 1 = Token.length
             THEN copied' = 0 /\ decoded' = decoded + 1
             ELSE copied' = copied + 1 /\ decoded' = decoded,
           copied + 1 # Token.length =>
               /\ Token.match /\ copied + 1 < Token.length
               /\ Legal(Token, Len(output) - copied),
           \A at, cut : (Honest /\ SentInv(at, cut) /\ FollowInv(at, cut)) =>
               b = source[Len(output) + 1]
    PROVE  IInv'
<1>1. TypeOK /\ ShapeInv /\ CopyInv /\ pc = "decode"
  BY DEF IInv, Decoding
<1>2. /\ UNCHANGED encoder /\ UNCHANGED parser /\ pc' = "decode"
      /\ Token' = tokens[decoded' + 1]
  BY <1>1 DEF parser, Token
<1>3. /\ Token \in Tokens /\ decoded \in Nat /\ Len(tokens) \in Nat
      /\ decoded + 1 \in 1 .. Len(tokens)
      /\ decoded \in 0 .. Len(tokens) /\ decoded + 1 \in 0 .. Len(tokens)
  BY <1>1, TokenAtHand
<1>4. /\ output' \in Seq(Bytes) /\ Len(output) \in Nat
      /\ Len(output') = Len(output) + 1
      /\ \A i \in 1 .. Len(output) : output'[i] = output[i]
      /\ output'[Len(output) + 1] = b
  BY <1>1, AppendFacts DEF TypeOK
<1>5. copied \in Nat /\ Token.length \in Nat /\ expected \in Nat
  BY <1>1, <1>3, TokenFacts DEF TypeOK, ShapeInv
<1>6. TypeOK' /\ ShapeInv'
  <2>1. decoded' \in 0 .. Len(tokens) /\ copied' \in Nat
    BY <1>3, <1>5
  <2>2. Len(output') <= expected
    BY <1>4, <1>5
  <2> QED
    BY <1>1, <1>2, <1>4, <2>1, <2>2 DEF TypeOK, ShapeInv, encoder, parser
<1>7. EncodedInv' /\ WaitInv' /\ FullInv'
  <2>1. EncodedInv'
    BY <1>1, <1>2 DEF IInv, EncodedInv, HasMatch, encoder
  <2>2. FullInv'
    BY <1>1, <1>2 DEF IInv, FullInv, parser
  <2>3. WaitInv'
    BY <1>2 DEF WaitInv, Running
  <2> QED
    BY <2>1, <2>2, <2>3
<1>8. CopyInv'
  <2>1. CASE copied + 1 = Token.length
    BY <2>1 DEF CopyInv
  <2>2. CASE copied + 1 # Token.length
    <3>1. /\ copied' = copied + 1 /\ decoded' = decoded /\ Token.match
          /\ copied + 1 < Token.length /\ Legal(Token, Len(output) - copied)
      BY <2>2
    <3>2. Token' = Token /\ expected' = expected /\ tokens' = tokens
      BY <1>2, <3>1 DEF Token, parser
    <3>3. /\ Len(output') - copied' = Len(output) - copied
          /\ copied <= Len(output)
      <4>1. copied > 0 => copied <= Len(output)
        BY <1>1 DEF CopyInv
      <4> QED
        BY <1>4, <1>5, <3>1, <4>1
    <3>4. copied' <= Len(output')
      BY <1>4, <1>5, <3>1, <3>3
    <3> QED
      BY <1>3, <3>1, <3>2, <3>3, <3>4 DEF CopyInv, Legal, Decoding
  <2> QED
    BY <2>1, <2>2
<1>9. LegalInv'
  <2>1. ASSUME FromParser' PROVE LegalInv'
    <3>1. FromParser
      BY <1>2, <2>1 DEF FromParser, parser
    <3>2. PICK at : ParsedInv(at)
      BY <3>1 DEF IInv, LegalInv
    <3>3. /\ at[decoded + 1] = at[decoded] + Token.length
          /\ at[decoded] \in Nat /\ Len(output) = at[decoded] + copied
      <4>1. /\ at \in [0 .. Len(tokens) -> 0 .. produced] /\ produced \in Nat
            /\ \A i \in 1 .. Len(tokens) : at[i] = at[i - 1] + tokens[i].length
            /\ Len(output) = at[decoded] + copied
        BY <1>1, <1>5, <3>2 DEF ParsedInv, Layout, TypeOK
      <4>2. at[decoded] \in 0 .. produced
        BY <1>3, <4>1
      <4>3. (decoded + 1) - 1 = decoded
        BY <1>3
      <4>4. at[decoded + 1] = at[(decoded + 1) - 1] + tokens[decoded + 1].length
        BY <1>3, <4>1
      <4> QED
        BY <4>1, <4>2, <4>3, <4>4 DEF Token
    <3>4. Len(output') = at[decoded'] + copied'
      <4>1. PICK o \in Nat, y \in Nat :
              o = Len(output) /\ Len(output') = o + 1 /\ y = at[decoded] /\ o = y + copied
        BY <1>4, <3>3
      <4>2. CASE copied + 1 = Token.length
        <5>1. decoded' = decoded + 1 /\ copied' = 0
          BY <4>2
        <5>2. at[decoded'] = y + (copied + 1)
          BY <3>3, <4>1, <4>2, <5>1
        <5>3. y + (copied + 1) = o + 1
          BY <1>5, <4>1
        <5> QED
          BY <4>1, <5>1, <5>2, <5>3
      <4>3. CASE copied + 1 # Token.length
        <5>1. decoded' = decoded /\ copied' = copied + 1
          BY <4>3
        <5>2. at[decoded'] = y
          BY <4>1, <5>1
        <5>3. y + (copied + 1) = (y + copied) + 1
          BY <1>5, <4>1
        <5> QED
          BY <4>1, <5>1, <5>2, <5>3
      <4> QED
        BY <4>2, <4>3
    <3>5. ParsedInv(at)'
      BY <1>2, <3>2, <3>4 DEF ParsedInv, Layout, Legal, parser
    <3> QED
      BY <3>5 DEF LegalInv
  <2> QED
    BY <2>1 DEF LegalInv
<1>10. SourceInv'
  <2>1. PICK at, cut : SentInv(at, cut) /\ FollowInv(at, cut)
    BY DEF IInv, SourceInv
  <2>2. SentInv(at, cut)'
    BY <1>2, <2>1, SentKept
  <2>3. ASSUME Honest' PROVE FollowInv(at, cut)'
    <3>1. Honest
      BY <1>2, <2>3 DEF Honest, encoder, parser
    <3>2. /\ Len(output) = at[decoded] + copied /\ at[decoded] \in Nat
          /\ at[decoded + 1] = at[decoded] + Token.length
          /\ \A i \in 1 .. Len(output) : output[i] = source[i]
      BY <2>1, <3>1, HonestPlace
    <3>3. b = source[Len(output) + 1]
      BY <2>1, <3>1
    <3>4. Len(output') = at[decoded'] + copied'
      BY SMTT(40), <1>3, <1>4, <1>5, <3>2
    <3>5. \A i \in 1 .. Len(output') : output'[i] = source[i]
      BY <1>4, <3>2, <3>3
    <3>6. /\ Len(tokens) <= Len(sent)
          /\ \A i \in 1 .. Len(tokens) : tokens[i] = sent[i]
          /\ cursor = cut[Len(tokens)] /\ produced = at[Len(tokens)]
          /\ Len(tokens) = Len(sent)
      BY <1>1, <2>1, <3>1 DEF FollowInv, Running
    <3> QED
      BY <1>2, <3>4, <3>5, <3>6 DEF FollowInv, Rejected, encoder, parser
  <2> QED
    BY <2>2, <2>3 DEF SourceInv, FollowInv
<1> QED
  BY <1>6, <1>7, <1>8, <1>9, <1>10 DEF IInv

LEMMA DecodeLiteralKeeps == IInv /\ DecodeLiteral => IInv'
<1> SUFFICES ASSUME IInv, DecodeLiteral PROVE IInv'
  OBVIOUS
<1>1. /\ Decoding /\ ~Token.match /\ Len(output) < expected
      /\ output' = Append(output, Token.byte) /\ decoded' = decoded + 1
      /\ UNCHANGED <<pc, encoder, parser>> /\ copied' = copied
  BY DEF DecodeLiteral
<1>2. Token \in Tokens
  BY <1>1, TokenAtHand DEF IInv
<1>3. Token.byte \in Bytes /\ Token.length = 1
  BY <1>1, <1>2, TokenFacts
<1>4. copied = 0
  BY <1>1 DEF IInv, TypeOK, CopyInv
<1>5. ASSUME NEW at, NEW cut, Honest, SentInv(at, cut), FollowInv(at, cut)
      PROVE  Token.byte = source[Len(output) + 1]
  <2>1. Says(Token, at[decoded]) /\ Len(output) = at[decoded] + 0
        /\ at[decoded] \in Nat
    BY <1>1, <1>4, <1>5, HonestPlace
  <2> QED
    BY <1>1, <2>1 DEF Says
<1> QED
  BY <1>1, <1>3, <1>4, <1>5, RestoredKeeps

LEMMA CopyByteKeeps == IInv /\ CopyByte => IInv'
<1> SUFFICES ASSUME IInv, CopyByte PROVE IInv'
  OBVIOUS
<1> DEFINE a == Len(output) - copied
           s == (Len(output) + 1) - Token.distance
<1>1. /\ Decoding /\ Token.match /\ (copied > 0 \/ Legal(Token, Len(output)))
      /\ output' = Append(output, output[s])
      /\ IF copied + 1 = Token.length
           THEN copied' = 0 /\ decoded' = decoded + 1
           ELSE copied' = copied + 1 /\ decoded' = decoded
      /\ UNCHANGED <<pc, encoder, parser>>
  BY DEF CopyByte
<1>2. /\ Token \in Tokens /\ Token.length \in Nat /\ Token.distance \in Nat
      /\ copied \in Nat /\ output \in Seq(Bytes) /\ Len(output) \in Nat
      /\ expected \in Nat
  <2>1. Decoding /\ TypeOK /\ ShapeInv
    BY <1>1 DEF IInv
  <2>2. Token \in Tokens
    BY <2>1, TokenAtHand
  <2>3. Token.length \in Nat /\ Token.distance \in Nat
    BY <2>2, TokenFacts
  <2> QED
    BY <2>1, <2>2, <2>3 DEF TypeOK, ShapeInv
<1>3. /\ Legal(Token, a) /\ copied < Token.length /\ copied <= Len(output)
  <2>1. CASE copied > 0
    BY <2>1 DEF IInv, CopyInv
  <2>2. CASE copied = 0
    <3>1. Legal(Token, Len(output)) /\ a = Len(output)
      BY <1>1, <1>2, <2>2
    <3> HIDE DEF a
    <3>2. Token.length >= 1
      BY <1>2, <3>1, Constants DEF Legal
    <3> QED
      BY <1>2, <2>2, <3>1, <3>2
  <2> QED
    BY <1>2, <2>1, <2>2
<1>4. /\ Token.distance \in 1 .. a /\ a + Token.length <= expected /\ a \in Nat
      /\ Len(output) = a + copied
  BY <1>2, <1>3 DEF Legal
<1> HIDE DEF a
<1>5. s \in 1 .. Len(output) /\ Len(output) < expected
  BY SMTT(40), <1>2, <1>3, <1>4
<1>6. output[s] \in Bytes
  BY <1>2, <1>5, ElementOfSequence
<1>7. ASSUME NEW at, NEW cut, Honest, SentInv(at, cut), FollowInv(at, cut)
      PROVE  output[s] = source[Len(output) + 1]
  <2>1. /\ Says(Token, at[decoded]) /\ Len(output) = at[decoded] + copied
        /\ at[decoded] \in Nat
        /\ \A i \in 1 .. Len(output) : output[i] = source[i]
    <3>1. Decoding
      BY <1>1
    <3> QED
      BY <1>7, <3>1, HonestPlace
  <2>2. at[decoded] = a
    BY <1>2, <1>4, <2>1
  <2>3. copied + 1 \in 1 .. Token.length
    BY <1>2, <1>3
  <2>4. source[a + (copied + 1)] = source[(a + (copied + 1)) - Token.distance]
    <3>1. \A j \in 1 .. Token.length :
              source[a + j] = source[(a + j) - Token.distance]
      BY <1>1, <2>1, <2>2 DEF Says
    <3> QED
      BY <2>3, <3>1
  <2>5. a + (copied + 1) = Len(output) + 1
    BY <1>2, <1>4
  <2>6. output[s] = source[s]
    BY <1>5, <2>1
  <2> QED
    BY <2>4, <2>5, <2>6
<1>8. copied + 1 # Token.length => copied + 1 < Token.length
  BY <1>2, <1>3
<1>9. Legal(Token, Len(output) - copied)
  BY <1>3 DEF a
<1>10. \A at, cut : (Honest /\ SentInv(at, cut) /\ FollowInv(at, cut)) =>
           output[s] = source[Len(output) + 1]
  BY <1>7
<1> HIDE DEF s
<1> QED
  BY <1>1, <1>5, <1>6, <1>8, <1>9, <1>10, RestoredKeeps

LEMMA BadTokenKeeps == IInv /\ BadToken => IInv'
<1> SUFFICES ASSUME IInv, BadToken PROVE IInv'
  OBVIOUS
<1>1. /\ Decoding /\ pc = "decode" /\ copied = 0 /\ pc' = "badtoken"
      /\ UNCHANGED <<encoder, parser, restorer>>
      /\ IF Token.match THEN ~Legal(Token, Len(output)) ELSE Len(output) >= expected
  BY DEF BadToken, Decoding
<1>2. TypeOK /\ ShapeInv
  BY DEF IInv
<1>3. /\ Token \in Tokens /\ decoded \in Nat /\ Len(tokens) \in Nat
      /\ decoded + 1 \in 1 .. Len(tokens)
      /\ decoded \in 0 .. Len(tokens) /\ decoded + 1 \in 0 .. Len(tokens)
      /\ Token.length \in Nat /\ expected \in Nat /\ produced \in 0 .. expected
  <2>1. Decoding
    BY <1>1
  <2>2. Token \in Tokens
    BY <1>2, <2>1, TokenAtHand
  <2>3. Token.length \in Nat
    BY <2>2, TokenFacts
  <2> QED
    BY <1>2, <2>1, <2>2, <2>3, TokenAtHand DEF TypeOK, ShapeInv
<1>4. ASSUME FromParser PROVE FALSE
  <2>1. PICK at : ParsedInv(at)
    BY <1>4 DEF IInv, LegalInv
  <2>2. /\ at \in [0 .. Len(tokens) -> 0 .. produced]
        /\ \A i \in 1 .. Len(tokens) : at[i] = at[i - 1] + tokens[i].length
        /\ \A i \in 1 .. Len(tokens) :
              /\ tokens[i].length >= 1
              /\ tokens[i].match => Legal(tokens[i], at[i - 1])
        /\ Len(output) = at[decoded] + 0
    BY <1>1, <2>1 DEF ParsedInv, Layout
  <2>3. (decoded + 1) - 1 = decoded
    BY <1>3
  <2>4. /\ at[decoded + 1] = at[decoded] + Token.length /\ Token.length >= 1
        /\ Token.match => Legal(Token, at[decoded])
    BY <1>3, <2>2, <2>3 DEF Token
  <2>5. at[decoded] \in 0 .. produced /\ at[decoded + 1] \in 0 .. produced
    BY <1>3, <2>2
  <2>6. Len(output) = at[decoded] /\ Len(output) < expected
    BY <1>3, <2>2, <2>4, <2>5
  <2>7. CASE Token.match
    <3>1. Legal(Token, Len(output))
      BY <2>4, <2>6, <2>7, Zenon
    <3> QED
      BY <1>1, <2>7, <3>1
  <2>8. CASE ~Token.match
    <3>1. Len(output) >= expected
      BY <1>1, <2>8
    <3>2. Len(output) \in Nat
      BY <2>5, <2>6
    <3> QED
      BY <1>3, <2>6, <3>1, <3>2
  <2> QED
    BY <2>7, <2>8
<1>5. cursor = 0 /\ ~Honest
  BY <1>2, <1>4 DEF FromParser, Honest, TypeOK
<1> QED
  BY <1>1, <1>5, MovesOn DEF Rejected

LEMMA DecodeEndKeeps == IInv /\ DecodeEnd => IInv'
<1> SUFFICES ASSUME IInv, DecodeEnd PROVE IInv'
  OBVIOUS
<1>1. /\ pc = "decode" /\ decoded = Len(tokens)
      /\ pc' = IF Len(output) = expected THEN "done" ELSE "badtoken"
      /\ UNCHANGED <<encoder, parser, restorer>>
  BY DEF DecodeEnd
<1>2. TypeOK /\ ShapeInv /\ Len(tokens) \in Nat
  BY DEF IInv, ShapeInv
<1>3. copied = 0
  BY <1>1, <1>2 DEF IInv, CopyInv, TypeOK
<1>4. ASSUME cursor > 0 PROVE produced = expected /\ Len(output) = expected
  <2>1. PICK at : ParsedInv(at)
    BY <1>4 DEF IInv, LegalInv, FromParser
  <2>2. Len(output) = at[Len(tokens)] + 0 /\ at[Len(tokens)] = produced
    BY <1>1, <1>3, <2>1 DEF ParsedInv, Layout
  <2>3. produced = expected
    BY <1>1, <1>4 DEF IInv, FullInv
  <2>4. expected \in Nat
    BY <1>2 DEF ShapeInv
  <2> QED
    BY <2>2, <2>3, <2>4
<1>5. ASSUME NEW at, NEW cut, Honest, SentInv(at, cut), FollowInv(at, cut)
      PROVE  Len(tokens) = Len(sent) /\ Len(output) = expected
             /\ expected = Len(source)
  <2>1. Len(tokens) = Len(sent) /\ Len(output) = at[Len(sent)] + 0
    BY <1>1, <1>3, <1>5 DEF FollowInv, Running
  <2>2. at[Len(sent)] = position /\ position = Len(source) /\ expected = Len(source)
    BY <1>1, <1>5 DEF IInv, EncodedInv, Honest, SentInv, Layout
  <2>3. position \in Nat
    BY <1>2 DEF TypeOK
  <2> QED
    BY <2>1, <2>2, <2>3
<1>6. pc' \in {"done", "badtoken"}
      /\ (Len(output) = expected => pc' = "done")
  BY <1>1
<1> QED
  BY <1>1, <1>4, <1>5, <1>6, MovesOn DEF Rejected

LEMMA StutterKeeps == IInv /\ UNCHANGED vars => IInv'
<1> SUFFICES ASSUME IInv, UNCHANGED vars PROVE IInv'
  OBVIOUS
<1>1. /\ UNCHANGED encoder /\ UNCHANGED parser /\ UNCHANGED restorer /\ pc' = pc
      /\ UNCHANGED <<parser, restorer>>
  BY DEF vars
<1>2. TypeOK' /\ ShapeInv'
  BY <1>1 DEF IInv, TypeOK, ShapeInv, encoder, parser, restorer
<1>3. EncodedInv' /\ WaitInv' /\ FullInv'
  BY <1>1 DEF IInv, EncodedInv, HasMatch, WaitInv, FullInv, encoder, parser, restorer
<1>4. CopyInv' /\ LegalInv'
  BY <1>1, CopyKept, LegalKept DEF IInv
<1>5. SourceInv'
  <2>1. PICK at, cut : SentInv(at, cut) /\ FollowInv(at, cut)
    BY DEF IInv, SourceInv
  <2>2. SentInv(at, cut)'
    BY <1>1, <2>1, SentKept
  <2>3. Honest' = Honest
    BY <1>1 DEF Honest, encoder, parser
  <2>4. FollowInv(at, cut)'
    BY <1>1, <2>1, <2>3 DEF FollowInv, encoder, parser, restorer
  <2> QED
    BY <2>2, <2>4 DEF SourceInv
<1> QED
  BY <1>2, <1>3, <1>4, <1>5 DEF IInv
-----------------------------------------------------------------------------
(* The theorems.                                                           *)

LEMMA NextKeeps == IInv /\ [Next]_vars => IInv'
<1> SUFFICES ASSUME IInv, [Next]_vars PROVE IInv'
  OBVIOUS
<1>1. CASE EncodeMatch \/ EncodeLiteral \/ EncodeEnd
  BY <1>1, EncodeMatchKeeps, EncodeLiteralKeeps, EncodeEndKeeps
<1>2. CASE Deliver \/ HandTokens
  BY <1>2, DeliverKeeps, HandTokensKeeps
<1>3. CASE ParseLiteral \/ ParseMatch \/ ParseError \/ ParseEnd \/ Validate
  BY <1>3, ParseLiteralKeeps, ParseMatchKeeps, ParseErrorKeeps, ParseEndKeeps,
     ValidateKeeps
<1>4. CASE DecodeLiteral \/ CopyByte \/ BadToken \/ DecodeEnd
  BY <1>4, DecodeLiteralKeeps, CopyByteKeeps, BadTokenKeeps, DecodeEndKeeps
<1>5. CASE UNCHANGED vars
  BY <1>5, StutterKeeps
<1> QED
  BY <1>1, <1>2, <1>3, <1>4, <1>5 DEF Next

LEMMA InvariantHolds == Spec => []IInv
<1> QED
  BY InitInvariant, NextKeeps, PTL DEF Spec

\* For every window, match limit, source and stream: the tokens the encoder
\* sends stay within the limits of encode_path1, the parser within its stream
\* and the declared length, and decode_path1 never restores more than that.
THEOREM TypeCorrect == Spec => []TypeOK
<1>1. IInv => TypeOK
  BY DEF IInv
<1> QED
  BY <1>1, InvariantHolds, PTL

\* Whatever bytes deserialize_path1 accepts, decode_path1 never refuses.
THEOREM ParsedTokensDecode == Spec => []ParsedIsDecodable
<1>1. IInv => ParsedIsDecodable
  BY DEF IInv, FullInv, ParsedIsDecodable
<1> QED
  BY <1>1, InvariantHolds, PTL

\* Every stream of the encoder passes deserialize_path1, the check of its own
\* mode and decode_path1.
THEOREM HonestStreamAccepted == Spec => []HonestIsAccepted
<1>1. IInv => HonestIsAccepted
  BY DEF IInv, SourceInv, FollowInv, HonestIsAccepted, Running, Rejected
<1> QED
  BY <1>1, InvariantHolds, PTL

\* decode_path1 restores the encoder's input from the encoder's stream, byte
\* by byte and through matches that overlap what they write.
THEOREM ExactReplayOfSource == Spec => []OutputIsSource
<1>1. ASSUME IInv, Honest, pc \in {"decode", "done"}
      PROVE  /\ output = SubSeq(source, 1, Len(output))
             /\ pc = "done" => output = source
  <2>1. PICK at, cut : FollowInv(at, cut)
    BY <1>1 DEF IInv, SourceInv
  <2>2. /\ \A i \in 1 .. Len(output) : output[i] = source[i]
        /\ pc = "done" => Len(output) = Len(source)
    BY <1>1, <2>1 DEF FollowInv, Running
  <2>3. /\ output \in Seq(Bytes) /\ source \in Seq(Bytes)
        /\ Len(output) <= Len(source)
    BY <1>1, Constants DEF IInv, TypeOK, Honest
  <2> QED
    BY <2>2, <2>3, PrefixFacts
<1>2. IInv => OutputIsSource
  BY <1>1 DEF OutputIsSource
<1> QED
  BY <1>2, InvariantHolds, PTL

\* Every source survives encoding and decoding: its stream is never refused
\* and gives it back.
THEOREM HonestStreamRestored == Spec => []HonestIsRestored
  BY HonestStreamAccepted, ExactReplayOfSource, PTL DEF HonestIsRestored

-----------------------------------------------------------------------------
(* Remainders.                                                             *)

LEMMA Divided ==
    ASSUME NEW a \in Nat, NEW d \in Nat \ {0}
    PROVE  /\ a % d \in 0 .. d - 1
           /\ \E q \in Nat : a = (d * q) + (a % d)
<1>1. a \div d \in Nat /\ a % d \in 0 .. d - 1 /\ a = (d * (a \div d)) + (a % d)
  OBVIOUS
<1> QED
  BY <1>1

LEMMA MultipleAdded ==
    ASSUME NEW a \in Nat, NEW d \in Nat \ {0}, NEW k \in Nat
    PROVE  (a + d * k) % d = a % d
<1>1. PICK q \in Nat : a = (d * q) + (a % d) /\ a % d \in 0 .. d - 1
  BY Divided
<1>2. PICK r \in 0 .. d - 1 : r = a % d
  BY <1>1
<1>3. PICK x \in Nat : x = a + d * k
  <2>1. d * k \in Nat
    OBVIOUS
  <2> QED
    BY <2>1
<1>4. x = (d * (q + k)) + r
  <2>1. d * (q + k) = d * q + d * k
    OBVIOUS
  <2>2. PICK u \in Nat, v \in Nat : u = d * q /\ v = d * k
    <3>1. d * q \in Nat /\ d * k \in Nat
      OBVIOUS
    <3> QED
      BY <3>1
  <2> QED
    BY <1>1, <1>2, <1>3, <2>1, <2>2
<1>5. x % d = r
  <2>1. q + k \in Int /\ x \in Int
    OBVIOUS
  <2> QED
    BY <1>4, <2>1, QuotientIs
<1> QED
  BY <1>2, <1>3, <1>5

Reached(x, y, d) == \E k \in Nat : x = y + d * k

LEMMA SameRemainder ==
    ASSUME NEW x \in Nat, NEW y \in Nat, y <= x, NEW d \in Nat \ {0}, x % d = y % d
    PROVE  Reached(x, y, d)
<1>1. PICK p \in Nat : x = (d * p) + (x % d)
  BY Divided
<1>2. PICK q \in Nat : y = (d * q) + (y % d)
  BY Divided
<1>3. PICK r \in Nat : r = x % d /\ r = y % d
  BY Divided
<1>4. q <= p
  <2> SUFFICES ASSUME ~(q <= p) PROVE FALSE
    OBVIOUS
  <2>1. PICK e \in Nat : q = p + 1 + e
    <3>1. q - p - 1 \in Nat /\ q = p + 1 + (q - p - 1)
      OBVIOUS
    <3> QED
      BY <3>1
  <2>2. d * q = d * p + d + d * e
    BY <2>1
  <2>3. PICK u \in Nat, v \in Nat, w \in Nat : u = d * q /\ v = d * p /\ w = d * e
    <3>1. d * q \in Nat /\ d * p \in Nat /\ d * e \in Nat
      OBVIOUS
    <3> QED
      BY <3>1
  <2> QED
    BY <1>1, <1>2, <1>3, <2>2, <2>3
<1>5. p - q \in Nat /\ d * p = d * q + d * (p - q)
  BY <1>4
<1>6. PICK u \in Nat, v \in Nat, w \in Nat : u = d * q /\ v = d * p /\ w = d * (p - q)
  <2>1. d * q \in Nat /\ d * p \in Nat /\ d * (p - q) \in Nat
    BY <1>5
  <2> QED
    BY <2>1
<1>7. x = y + d * (p - q)
  BY <1>1, <1>2, <1>3, <1>5, <1>6
<1> QED
  BY <1>5, <1>7 DEF Reached

-----------------------------------------------------------------------------
(* Coprime moduli.                                                         *)

Coprime(a, b) == \A k \in 1 .. b - 1 : (k * a) % b # 0

\* Of two multiples of a whose factors differ by less than b, neither is
\* reached from the other by steps of b.
LEMMA MultiplesDiffer ==
    ASSUME NEW a \in Nat \ {0}, NEW b \in Nat \ {0}, Coprime(a, b),
           NEW k \in 0 .. b - 1, NEW m \in Nat, a * k = b * m
    PROVE  k = 0
<1> SUFFICES ASSUME k # 0 PROVE FALSE
  OBVIOUS
<1>1. k \in 1 .. b - 1 /\ k * a = a * k
  OBVIOUS
<1>2. (0 + b * m) % b = 0 % b
  BY MultipleAdded
<1>3. 0 % b = 0 /\ 0 + b * m = b * m
  <2>1. PICK u \in Nat : u = b * m
    <3>1. b * m \in Nat
      OBVIOUS
    <3> QED
      BY <3>1
  <2> QED
    BY <2>1
<1>4. (k * a) % b = 0
  BY <1>1, <1>2, <1>3
<1> QED
  BY <1>1, <1>4 DEF Coprime

\* Below the product, a number is known by its two residues.
LEMMA ResiduesTell ==
    ASSUME NEW a \in Nat \ {0}, NEW b \in Nat \ {0}, Coprime(a, b),
           NEW x \in Nat, NEW y \in Nat, x < a * b, y < a * b,
           x % a = y % a, x % b = y % b
    PROVE  x = y
<1>1. ASSUME NEW p \in Nat, NEW q \in Nat, q <= p, p < a * b, p % a = q % a, p % b = q % b
      PROVE  p = q
  <2>1. PICK k \in Nat : p = q + a * k
    <3>1. Reached(p, q, a)
      BY <1>1, SameRemainder
    <3> QED
      BY <3>1 DEF Reached
  <2>2. PICK m \in Nat : p = q + b * m
    <3>1. Reached(p, q, b)
      BY <1>1, SameRemainder
    <3> QED
      BY <3>1 DEF Reached
  <2>3. PICK u \in Nat, v \in Nat, w \in Nat : u = a * k /\ v = b * m /\ w = a * b
    <3>1. a * k \in Nat /\ b * m \in Nat /\ a * b \in Nat
      OBVIOUS
    <3> QED
      BY <3>1
  <2>4. u = v
    BY <2>1, <2>2, <2>3
  <2>5. k < b
    <3> SUFFICES ASSUME ~(k < b) PROVE FALSE
      OBVIOUS
    <3>1. PICK e \in Nat : k = b + e
      <4>1. k - b \in Nat /\ k = b + (k - b)
        OBVIOUS
      <4> QED
        BY <4>1
    <3>2. a * k = a * b + a * e /\ a * e \in Nat
      BY <3>1
    <3>3. PICK z \in Nat : z = a * e
      BY <3>2
    <3> QED
      BY <1>1, <2>1, <2>3, <3>2, <3>3
  <2>6. k \in 0 .. b - 1 /\ a * k = b * m
    BY <2>3, <2>4, <2>5
  <2>7. k = 0
    BY <2>6, MultiplesDiffer
  <2>8. u = 0
    BY <2>3, <2>7
  <2> QED
    BY <2>1, <2>3, <2>8
<1>2. CASE y <= x
  BY <1>1, <1>2
<1>3. CASE ~(y <= x)
  <2>1. x <= y
    BY <1>3
  <2> QED
    BY <1>1, <2>1
<1> QED
  BY <1>2, <1>3

Met(a, b, c, r) == \E k \in 0 .. b - 1 : (c + a * k) % b = r

\* Steps of a from any number meet every residue of b.
LEMMA ResiduesMet ==
    ASSUME NEW a \in Nat \ {0}, NEW b \in Nat \ {0}, Coprime(a, b),
           NEW c \in Nat, NEW r \in 0 .. b - 1
    PROVE  Met(a, b, c, r)
<1> DEFINE S == 0 .. b - 1
           g == [k \in S |-> (c + a * k) % b]
<1>1. \A k \in S : c + a * k \in Nat
  <2> TAKE k \in S
  <2>1. a * k \in Nat
    OBVIOUS
  <2> QED
    BY <2>1
<1>2. g \in [S -> S]
  BY <1>1, Divided
<1>3. ASSUME NEW k \in S, NEW l \in S, l <= k, g[k] = g[l] PROVE k = l
  <2>1. (c + a * k) % b = (c + a * l) % b
    BY <1>3
  <2>2. PICK x \in Nat, y \in Nat : x = c + a * k /\ y = c + a * l
    BY <1>1
  <2>3. k - l \in Nat /\ a * k = a * l + a * (k - l)
    BY <1>3
  <2>4. PICK u \in Nat, v \in Nat, w \in Nat : u = a * k /\ v = a * l /\ w = a * (k - l)
    <3>1. a * k \in Nat /\ a * l \in Nat /\ a * (k - l) \in Nat
      BY <2>3
    <3> QED
      BY <3>1
  <2>5. y <= x
    BY <2>2, <2>3, <2>4
  <2>6. PICK m \in Nat : x = y + b * m
    <3>1. x % b = y % b
      BY <2>1, <2>2
    <3>2. Reached(x, y, b)
      BY <2>5, <3>1, SameRemainder
    <3> QED
      BY <3>2 DEF Reached
  <2>7. PICK z \in Nat : z = b * m
    <3>1. b * m \in Nat
      OBVIOUS
    <3> QED
      BY <3>1
  <2>8. a * (k - l) = b * m
    BY <2>2, <2>3, <2>4, <2>6, <2>7
  <2>9. k - l \in 0 .. b - 1
    BY <2>3
  <2>10. k - l = 0
    BY <2>8, <2>9, MultiplesDiffer
  <2> QED
    BY <2>10
<1>4. ASSUME NEW k \in S, NEW l \in S, g[k] = g[l] PROVE k = l
  <2>1. CASE l <= k
    BY <1>3, <1>4, <2>1
  <2>2. CASE ~(l <= k)
    <3>1. k <= l
      BY <2>2
    <3> QED
      BY <1>3, <1>4, <3>1
  <2> QED
    BY <2>1, <2>2
<1> HIDE DEF g
<1>5. g \in Injection(S, S)
  BY <1>2, <1>4 DEF Injection, IsInjective
<1>6. IsFiniteSet(S)
  <2>1. 0 \in Int /\ b - 1 \in Int
    OBVIOUS
  <2> QED
    BY <2>1, FS_Interval
<1>7. g \in Surjection(S, S)
  BY <1>5, <1>6, FS_Injection
<1>8. PICK k \in S : g[k] = r
  BY <1>7 DEF Surjection
<1> QED
  BY <1>8 DEF g, Met

-----------------------------------------------------------------------------
(* Numbers of bits.                                                        *)

LEMMA NumberCounts ==
    ASSUME NEW n \in Nat, NEW b \in [1 .. n -> {0, 1}]
    PROVE  \E v : CountUp(v, b, n) /\ v[n] = Number(b)
<1> DEFINE Turn(u, k) == 2 * u + b[k]
           F == [x \in (1 .. n) \X Nat |-> Turn(x[2], x[1])]
           Body(f) == [k \in 0 .. n |-> IF k = 0 THEN 0 ELSE Turn(f[k - 1], k)]
           v == CHOOSE f : f = Body(f)
<1>1. ASSUME NEW k \in 1 .. n, NEW u \in Nat PROVE Turn(u, k) \in Nat /\ Turn(u, k) = (2 * u) + b[k]
  <2>1. b[k] \in {0, 1}
    OBVIOUS
  <2> QED
    BY <2>1
<1>2. Len(b) = n
  OBVIOUS
<1>3. Number(b) = v[n]
  BY <1>2 DEF Number
<1> HIDE DEF Turn
<1>4. F \in [(1 .. n) \X Nat -> Nat] /\ 0 \in Nat
  BY <1>1
<1>5. \A k \in 1 .. n : \A u \in Nat : F[<<k, u>>] = Turn(u, k)
  OBVIOUS
<1> HIDE DEF F
<1>6. PICK g \in Runs(Nat, 0, F, n) : TRUE
  <2>1. Runs(Nat, 0, F, n) # {}
    BY <1>4, LoopRuns
  <2> QED
    BY <2>1
<1>7. /\ g \in [0 .. n -> Nat] /\ g[0] = 0
      /\ \A k \in 1 .. n : g[k] = F[<<k, g[k - 1]>>]
  BY <1>6 DEF Runs
<1>8. ASSUME NEW k \in 1 .. n PROVE g[k] = Turn(g[k - 1], k)
  <2>1. k - 1 \in 0 .. n
    OBVIOUS
  <2> QED
    BY <1>5, <1>7, <2>1
<1>9. g = Body(g)
  <2>1. \A k \in 0 .. n : g[k] = IF k = 0 THEN 0 ELSE Turn(g[k - 1], k)
    BY <1>7, <1>8
  <2> QED
    BY <1>7, <2>1
<1>10. v = Body(v)
  BY <1>9
<1> HIDE DEF v
<1>11. ASSUME NEW k \in 1 .. n PROVE v[k] = Turn(v[k - 1], k) /\ k \in 0 .. n
  <2>1. k \in 0 .. n /\ k # 0
    OBVIOUS
  <2>2. Body(v)[k] = Turn(v[k - 1], k)
    BY <2>1
  <2> HIDE DEF Body
  <2> QED
    BY <1>10, <2>1, <2>2
<1>12. v[0] = 0
  <2>1. 0 \in 0 .. n
    OBVIOUS
  <2>2. Body(v)[0] = 0
    BY <2>1
  <2> HIDE DEF Body
  <2> QED
    BY <1>10, <2>2
<1> HIDE DEF Body
<1> DEFINE P == {k \in 0 .. n : v[k] \in Nat}
<1>13. 0 \in P
  BY <1>12
<1>14. ASSUME NEW k \in 1 .. n, k - 1 \in P PROVE k \in P
  BY <1>1, <1>11, <1>14
<1> HIDE DEF P
<1>15. 0 .. n \subseteq P
  BY <1>13, <1>14, EveryTurn
<1>16. ASSUME NEW k \in 1 .. n PROVE b[k] \in {0, 1} /\ v[k] = (2 * v[k - 1]) + b[k]
  <2>1. k - 1 \in 0 .. n
    OBVIOUS
  <2>2. v[k - 1] \in Nat
    BY <1>15, <2>1 DEF P
  <2> QED
    BY <1>1, <1>11, <2>2
<1>17. CountUp(v, b, n)
  BY <1>12, <1>16 DEF CountUp
<1> QED
  BY <1>3, <1>17

\* A number has the bits it is made of ...
LEMMA NumberOfBits ==
    ASSUME NEW n \in Nat, NEW b \in [1 .. n -> {0, 1}]
    PROVE  /\ Number(b) \in 0 .. 2 ^ n - 1
           /\ \A j \in 1 .. n : Bit(Number(b), n, j) = b[j]
<1>1. PICK v : CountUp(v, b, n) /\ v[n] = Number(b)
  BY NumberCounts
<1>2. /\ v[n] \in 0 .. 2 ^ n - 1
      /\ \A k \in 1 .. n : (v[n] \div 2 ^ (n - k)) % 2 = b[k]
  BY <1>1, Counted
<1> QED
  BY <1>1, <1>2 DEF Bit

\* ... and is the only one of its width that has them.
LEMMA NumberWithBits ==
    ASSUME NEW n \in Nat, NEW b \in [1 .. n -> {0, 1}], NEW r \in 0 .. 2 ^ n - 1,
           \A j \in 1 .. n : b[j] = Bit(r, n, j)
    PROVE  Number(b) = r
<1>1. PICK v : CountUp(v, b, n) /\ v[n] = Number(b)
  BY NumberCounts
<1>2. \A k \in 1 .. n : b[k] = (r \div 2 ^ (n - k)) % 2
  BY DEF Bit
<1>3. v[n] = r
  BY <1>1, <1>2, Counting
<1> QED
  BY <1>1, <1>3

LEMMA BitIsBit ==
    ASSUME NEW r \in Nat, NEW n \in Nat, NEW j \in 1 .. n
    PROVE  Bit(r, n, j) \in {0, 1}
<1>1. n - j \in Nat
  OBVIOUS
<1>2. PICK a \in Nat \ {0} : a = 2 ^ (n - j)
  BY <1>1, PowersOfTwo
<1>3. (r \div a) % 2 \in {0, 1}
  <2>1. r \div a \in Nat
    OBVIOUS
  <2> QED
    BY <2>1
<1> QED
  BY <1>2, <1>3 DEF Bit

\* Places in a string of values of one width.
LEMMA PlaceOf ==
    ASSUME NEW w \in Nat \ {0}, NEW m \in Nat, NEW n \in 0 .. m - 1, NEW k \in 1 .. w
    PROVE  /\ (n * w) + k \in 1 .. w * m
           /\ (((n * w) + k) - 1) \div w = n
           /\ (((n * w) + k) - 1) % w = k - 1
<1>1. PICK a \in Nat : a = w * n /\ a = n * w
  OBVIOUS
<1>2. PICK d \in Nat \ {0} : m = n + d
  <2>1. m - n \in Nat \ {0} /\ m = n + (m - n)
    OBVIOUS
  <2> QED
    BY <2>1
<1>3. w * m = a + w * d
  BY <1>1, <1>2
<1>4. w * d >= w
  <2>1. PICK e \in Nat : d = e + 1
    <3>1. d - 1 \in Nat /\ d = (d - 1) + 1
      OBVIOUS
    <3> QED
      BY <3>1
  <2>2. w * d = w * e + w /\ w * e \in Nat
    BY <2>1
  <2> QED
    BY <2>2
<1>5. (a + k) - 1 = (w * n) + (k - 1) /\ k - 1 \in 0 .. w - 1 /\ (a + k) - 1 \in Nat
  BY <1>1
<1>6. ((a + k) - 1) \div w = n /\ ((a + k) - 1) % w = k - 1
  <2>1. PICK x \in Nat : x = (a + k) - 1
    BY <1>5
  <2>2. x = (w * n) + (k - 1) /\ n \in Int /\ x \in Int /\ k - 1 \in 0 .. w - 1
    BY <1>5, <2>1
  <2>3. x \div w = n /\ x % w = k - 1
    BY <2>2, QuotientIs
  <2> QED
    BY <2>1, <2>3
<1>7. PICK wd \in Nat : wd = w * d
  OBVIOUS
<1>8. a + k \in 1 .. w * m
  BY <1>3, <1>4, <1>7
<1> QED
  BY <1>1, <1>6, <1>8

\* Bit p of a byte string, from 0.
LEMMA BitOfByte ==
    ASSUME ByteBits \in Nat \ {0}, NEW s \in Seq(ByteValues),
           NEW i \in 1 .. Len(s), NEW j \in 1 .. ByteBits
    PROVE  /\ (((i - 1) * ByteBits) + j) - 1 < ByteBits * Len(s)
           /\ BitOf(s, (((i - 1) * ByteBits) + j) - 1) = Bit(s[i], ByteBits, j)
<1>1. PICK w \in Nat \ {0}, m \in Nat : w = ByteBits /\ m = Len(s)
  OBVIOUS
<1>2. PICK n \in 0 .. m - 1 : n = i - 1 /\ i = n + 1
  <2>1. i - 1 \in 0 .. m - 1 /\ i = (i - 1) + 1
    BY <1>1
  <2> QED
    BY <2>1
<1>3. /\ (n * w) + j \in 1 .. w * m
      /\ (((n * w) + j) - 1) \div w = n
      /\ (((n * w) + j) - 1) % w = j - 1
  BY <1>1, PlaceOf
<1>4. PICK p \in Nat, all \in Nat : p = ((n * w) + j) - 1 /\ all = w * m
  <2>1. PICK a \in Nat, b \in Nat : a = n * w /\ b = w * m
    <3>1. n * w \in Nat /\ w * m \in Nat
      OBVIOUS
    <3> QED
      BY <3>1
  <2>2. (a + j) - 1 \in Nat
    BY <1>3, <2>1
  <2> QED
    BY <2>1, <2>2
<1>5. p < all /\ p \div w = n /\ p % w = j - 1
  BY <1>3, <1>4
<1>6. (j - 1) + 1 = j
  BY <1>1
<1>7. BitOf(s, p) = Bit(s[i], ByteBits, j)
  BY <1>1, <1>2, <1>4, <1>5, <1>6 DEF BitOf
<1> QED
  BY <1>1, <1>2, <1>4, <1>5, <1>7

LEMMA BitsOfString ==
    ASSUME ByteBits \in Nat \ {0}, NEW s \in Seq(ByteValues), NEW p \in Nat
    PROVE  BitOf(s, p) \in {0, 1}
<1>1. PICK w \in Nat \ {0}, m \in Nat : w = ByteBits /\ m = Len(s)
  OBVIOUS
<1>2. CASE p < w * m
  <2>1. PICK q \in Nat : p = (w * q) + (p % w) /\ p % w \in 0 .. w - 1
    BY Divided
  <2>2. PICK r \in 0 .. w - 1 : r = p % w
    BY <2>1
  <2>3. p \div w = q
    <3>1. p = (w * q) + r /\ q \in Int /\ p \in Int
      BY <2>1, <2>2
    <3> QED
      BY <3>1, QuotientIs
  <2>4. q < m
    <3> SUFFICES ASSUME ~(q < m) PROVE FALSE
      OBVIOUS
    <3>1. PICK d \in Nat : q = m + d
      <4>1. q - m \in Nat /\ q = m + (q - m)
        OBVIOUS
      <4> QED
        BY <4>1
    <3>2. w * q = w * m + w * d /\ w * d \in Nat /\ w * m \in Nat
      BY <3>1
    <3>3. PICK u \in Nat, v \in Nat : u = w * m /\ v = w * d
      BY <3>2
    <3> QED
      BY <1>2, <2>1, <2>2, <3>2, <3>3
  <2>5. q + 1 \in 1 .. Len(s) /\ r + 1 \in 1 .. ByteBits
    BY <1>1, <2>2, <2>4
  <2>6. s[q + 1] \in Nat
    <3>1. s[q + 1] \in ByteValues
      BY <2>5
    <3> QED
      BY <3>1 DEF ByteValues
  <2>7. Bit(s[q + 1], ByteBits, r + 1) \in {0, 1}
    BY <2>5, <2>6, BitIsBit
  <2> QED
    BY <1>1, <1>2, <2>2, <2>3, <2>7 DEF BitOf
<1>3. CASE ~(p < w * m)
  BY <1>1, <1>3 DEF BitOf
<1> QED
  BY <1>2, <1>3

\* A symbol has the bits of its places, zeros past the end of the string.
LEMMA SymbolBitsAt ==
    ASSUME ByteBits \in Nat \ {0}, NEW s \in Seq(ByteValues), NEW i \in Nat \ {0},
           NEW w \in Nat \ {0}
    PROVE  /\ SymbolAt(s, i, w) \in 0 .. 2 ^ w - 1
           /\ \A j \in 1 .. w : Bit(SymbolAt(s, i, w), w, j) = BitOf(s, (((i - 1) * w) + j) - 1)
<1>1. PICK b : b = [j \in 1 .. w |-> BitOf(s, ((i - 1) * w + j) - 1)]
  OBVIOUS
<1>2. ASSUME NEW j \in 1 .. w PROVE BitOf(s, ((i - 1) * w + j) - 1) \in {0, 1}
  <2>1. (i - 1) * w \in Nat
    OBVIOUS
  <2>2. ((i - 1) * w + j) - 1 \in Nat
    BY <2>1
  <2> QED
    BY <2>2, BitsOfString
<1>3. b \in [1 .. w -> {0, 1}]
  BY <1>1, <1>2
<1>4. w \in Nat /\ SymbolAt(s, i, w) = Number(b)
  BY <1>1 DEF SymbolAt
<1>5. /\ Number(b) \in 0 .. 2 ^ w - 1
      /\ \A j \in 1 .. w : Bit(Number(b), w, j) = b[j]
  BY <1>3, <1>4, NumberOfBits
<1> QED
  BY <1>1, <1>4, <1>5

LEMMA SymbolBitAt ==
    ASSUME ByteBits \in Nat \ {0}, NEW s \in Seq(ByteValues), NEW i \in Nat \ {0},
           NEW w \in Nat \ {0}, NEW j \in 1 .. w
    PROVE  Bit(SymbolAt(s, i, w), w, j) = BitOf(s, (((i - 1) * w) + j) - 1)
  BY SymbolBitsAt

\* The one symbol with the bits of its places is the one packed.
LEMMA SymbolWithBits ==
    ASSUME ByteBits \in Nat \ {0}, NEW s \in Seq(ByteValues), NEW i \in Nat \ {0},
           NEW w \in Nat \ {0}, NEW r \in 0 .. 2 ^ w - 1,
           \A j \in 1 .. w : BitOf(s, (((i - 1) * w) + j) - 1) = Bit(r, w, j)
    PROVE  SymbolAt(s, i, w) = r
<1>1. PICK b : b = [j \in 1 .. w |-> BitOf(s, ((i - 1) * w + j) - 1)]
  OBVIOUS
<1>2. r \in Nat
  BY PowersOfTwo
<1>3. ASSUME NEW j \in 1 .. w PROVE b[j] = Bit(r, w, j) /\ b[j] \in {0, 1}
  BY <1>1, <1>2, BitIsBit
<1>4. b \in [1 .. w -> {0, 1}] /\ w \in Nat
  BY <1>1, <1>3
<1>5. Number(b) = r
  <2>1. \A j \in 1 .. w : b[j] = Bit(r, w, j)
    BY <1>3
  <2> QED
    BY <1>4, <2>1, NumberWithBits
<1> QED
  BY <1>1, <1>5 DEF SymbolAt

LEMMA CountOfSymbols ==
    ASSUME ByteBits \in Nat \ {0}, NEW n \in Nat, NEW w \in Nat \ {0}
    PROVE  /\ SymbolCount(n, w) \in Nat
           /\ ByteBits * n <= SymbolCount(n, w) * w
           /\ SymbolCount(n, w) * w < (ByteBits * n) + w
<1>1. PICK a \in Nat : a = ByteBits * n
  <2>1. ByteBits * n \in Nat
    OBVIOUS
  <2> QED
    BY <2>1
<1>2. PICK x \in Nat : x = a + w - 1
  OBVIOUS
<1>3. PICK q \in Nat : x = (w * q) + (x % w) /\ x % w \in 0 .. w - 1
  BY Divided
<1>4. PICK r \in 0 .. w - 1 : r = x % w
  BY <1>3
<1>5. x \div w = q
  <2>1. x = (w * q) + r /\ q \in Int /\ x \in Int
    BY <1>3, <1>4
  <2> QED
    BY <2>1, QuotientIs
<1>6. SymbolCount(n, w) = q
  BY <1>1, <1>2, <1>5 DEF SymbolCount
<1>7. PICK y \in Nat : y = w * q /\ y = q * w
  <2>1. w * q \in Nat /\ w * q = q * w
    OBVIOUS
  <2> QED
    BY <2>1
<1>8. a <= y /\ y < a + w
  BY <1>2, <1>3, <1>4, <1>7
<1> QED
  BY <1>1, <1>6, <1>7, <1>8

-----------------------------------------------------------------------------
(* The invariant.                                                          *)

CrtErrors == {"residue", "nosolution", "outside", "length", "padding"}

Count == SymbolCount(Len(original), floor.bits)

CrtTypeInv ==
    /\ phase \in {"pack", "encode", "deliver", "decode", "search", "unpack", "done"} \cup CrtErrors
    /\ floor \in Floors /\ original \in Seq(ByteValues)
    /\ symbols \in Seq(0 .. Limit(floor) - 1) /\ residues \in Seq(Nat \X Nat)
    /\ given \in Seq(Nat \X Nat) /\ candidate \in Nat
    /\ restored \in Seq(0 .. Limit(floor) - 1)
    /\ unpacked = [bits |-> unpacked.bits, symbols |-> unpacked.symbols]
    /\ unpacked.bits \in Seq({0, 1}) /\ unpacked.symbols \in 0 .. Len(restored)

PackedInv ==
    /\ Len(symbols) <= Count
    /\ \A i \in 1 .. Len(symbols) : symbols[i] = SymbolAt(original, i, floor.bits)
    /\ phase # "pack" => Len(symbols) = Count
    /\ phase \notin {"pack", "encode"} =>
          residues = [i \in 1 .. Len(symbols) |-> Pair(symbols[i])]

\* What the decoder has done before its turn: nothing.
IdleInv ==
    /\ phase \in {"pack", "encode", "deliver"} => given = <<>> /\ restored = <<>>
    /\ phase \in {"pack", "encode", "deliver", "decode", "search"} =>
          unpacked = [bits |-> <<>>, symbols |-> 0]

RestoredInv ==
    /\ Len(restored) <= Len(given)
    /\ \A i \in 1 .. Len(restored) : given[i] = Pair(restored[i])

\* The search has passed over numbers with the first residue, none of which
\* had the second.
SearchInv ==
    phase = "search" =>
        /\ Len(restored) < Len(given)
        /\ Current[1] < floor.first /\ Current[2] < floor.second
        /\ \E k \in Nat :
              /\ candidate = Current[1] + floor.first * k
              /\ \A l \in 0 .. k - 1 : (Current[1] + floor.first * l) % floor.second # Current[2]

\* Bit k of symbol n + 1 is written back if the output reaches that far.
WrittenBack(n, k) ==
    IF (n * floor.bits) + k <= Needed
      THEN unpacked.bits[(n * floor.bits) + k] = Bit(restored[n + 1], floor.bits, k)
      ELSE Bit(restored[n + 1], floor.bits, k) = 0

UnpackInv ==
    /\ phase \in {"unpack", "done"} =>
          /\ Len(restored) = Len(given) /\ Len(restored) = Count
          /\ Len(unpacked.bits) = (IF unpacked.symbols * floor.bits <= Needed
                                     THEN unpacked.symbols * floor.bits ELSE Needed)
          /\ \A n \in 0 .. unpacked.symbols - 1 : \A k \in 1 .. floor.bits : WrittenBack(n, k)
    /\ phase = "done" => unpacked.symbols = Len(restored)

NothingRefused == phase # "nosolution" /\ (given = residues => phase \notin CrtErrors)

CrtInv ==
    /\ CrtTypeInv /\ PackedInv /\ IdleInv /\ RestoredInv /\ SearchInv /\ UnpackInv
    /\ NothingRefused

LEMMA FloorFacts ==
    ASSUME NEW f \in Floors
    PROVE  /\ f.bits \in Nat \ {0} /\ f.first \in Nat \ {0} /\ f.second \in Nat \ {0}
           /\ Limit(f) \in Nat \ {0} /\ Product(f) \in Nat /\ Limit(f) <= Product(f)
           /\ Coprime(f.first, f.second) /\ Inputs(f) \subseteq Seq(ByteValues)
<1>1. /\ f.bits \in Nat \ {0} /\ f.first \in Nat \ {0} /\ f.second \in Nat \ {0}
      /\ Product(f) >= Limit(f) /\ Inputs(f) \subseteq Seq(ByteValues)
      /\ \A k \in 1 .. f.second - 1 : (k * f.first) % f.second # 0
  BY PathTwoAssumption
<1>2. Limit(f) \in Nat \ {0}
  BY <1>1, PowersOfTwo DEF Limit
<1>3. Product(f) \in Nat
  <2>1. f.first * f.second \in Nat
    BY <1>1
  <2> QED
    BY <2>1 DEF Product
<1> QED
  BY <1>1, <1>2, <1>3 DEF Coprime

LEMMA InitCrtInv == CrtInit => CrtInv
<1> SUFFICES ASSUME CrtInit PROVE CrtInv
  OBVIOUS
<1>1. original \in Seq(ByteValues) /\ floor.bits \in Nat \ {0}
  BY FloorFacts DEF CrtInit
<1>2. CrtTypeInv
  BY <1>1 DEF CrtInit, CrtTypeInv
<1>3. Count \in Nat
  <2>1. Len(original) \in Nat /\ ByteBits \in Nat \ {0}
    BY <1>1, PathTwoAssumption
  <2> QED
    BY <1>1, <2>1, CountOfSymbols DEF Count
<1> QED
  BY <1>2, <1>3 DEF CrtInit, CrtInv, PackedInv, IdleInv, RestoredInv, SearchInv, UnpackInv,
     NothingRefused, CrtErrors

LEMMA PairOf ==
    ASSUME floor \in Floors, NEW x \in Nat
    PROVE  Pair(x) \in (0 .. floor.first - 1) \X (0 .. floor.second - 1)
<1>1. floor.first \in Nat \ {0} /\ floor.second \in Nat \ {0}
  BY FloorFacts
<1>2. x % floor.first \in 0 .. floor.first - 1 /\ x % floor.second \in 0 .. floor.second - 1
  BY <1>1, Divided
<1> QED
  BY <1>2 DEF Pair

LEMMA PackSymbolKeeps == CrtInv /\ PackSymbol => CrtInv'
<1> SUFFICES ASSUME CrtInv, PackSymbol PROVE CrtInv'
  OBVIOUS
<1>1. /\ phase = "pack" /\ CrtTypeInv /\ PackedInv /\ IdleInv /\ RestoredInv /\ UnpackInv
      /\ UNCHANGED <<floor, original, residues, given, candidate, restored, unpacked>>
  BY DEF CrtInv, PackSymbol
<1>2. floor \in Floors /\ original \in Seq(ByteValues) /\ ByteBits \in Nat \ {0} /\ floor.bits \in Nat \ {0}
  BY <1>1, FloorFacts, PathTwoAssumption DEF CrtTypeInv
<1>3. Count \in Nat /\ Count' = Count
  <2>1. Len(original) \in Nat
    BY <1>2
  <2>2. Count \in Nat
    BY <1>2, <2>1, CountOfSymbols DEF Count
  <2> QED
    BY <1>1, <2>2 DEF Count
<1>4. symbols \in Seq(0 .. Limit(floor) - 1) /\ Len(symbols) \in Nat
  BY <1>1 DEF CrtTypeInv
<1>5. CASE Len(symbols) < Count
  <2>1. symbols' = Append(symbols, SymbolAt(original, Len(symbols) + 1, floor.bits)) /\ phase' = phase
    BY <1>5 DEF PackSymbol, Count
  <2>2. PICK n \in Nat \ {0} : n = Len(symbols) + 1
    BY <1>4
  <2>3. PICK x \in 0 .. 2 ^ floor.bits - 1 : x = SymbolAt(original, n, floor.bits)
    BY <1>2, SymbolBitsAt
  <2>4. symbols' = Append(symbols, x) /\ x \in 0 .. Limit(floor) - 1
    BY <2>1, <2>2, <2>3 DEF Limit
  <2>5. CrtTypeInv'
    <3>1. symbols' \in Seq(0 .. Limit(floor) - 1)
      BY <1>4, <2>4
    <3> QED
      BY <1>1, <2>1, <3>1 DEF CrtTypeInv
  <2>6. PackedInv'
    <3>1. Len(symbols') = n /\ n <= Count
      BY <1>3, <1>4, <1>5, <2>2, <2>4
    <3>2. ASSUME NEW i \in 1 .. n PROVE symbols'[i] = SymbolAt(original, i, floor.bits)
      <4>1. CASE i = n
        BY <1>4, <2>2, <2>3, <2>4, <4>1
      <4>2. CASE i # n
        <5>1. i \in 1 .. Len(symbols)
          BY <1>4, <2>2, <4>2
        <5> QED
          BY <1>1, <1>4, <2>4, <5>1 DEF PackedInv
      <4> QED
        BY <4>1, <4>2
    <3> QED
      BY <1>1, <1>3, <2>1, <3>1, <3>2 DEF PackedInv
  <2> QED
    BY <1>1, <2>1, <2>5, <2>6 DEF CrtInv, IdleInv, RestoredInv, Pair, SearchInv, UnpackInv, NothingRefused, CrtErrors
<1>6. CASE ~(Len(symbols) < Count)
  <2>1. phase' = "encode" /\ symbols' = symbols
    BY <1>6 DEF PackSymbol, Count
  <2>2. CrtTypeInv'
    BY <1>1, <2>1 DEF CrtTypeInv
  <2>3. PackedInv'
    <3>1. Len(symbols) = Count
      BY <1>1, <1>3, <1>4, <1>6 DEF PackedInv
    <3> QED
      BY <1>1, <1>3, <2>1, <3>1 DEF PackedInv
  <2> QED
    BY <1>1, <2>1, <2>2, <2>3 DEF CrtInv, IdleInv, RestoredInv, Pair, SearchInv, UnpackInv, NothingRefused, CrtErrors
<1> QED
  BY <1>5, <1>6

LEMMA EncodeResiduesKeeps == CrtInv /\ EncodeResidues => CrtInv'
<1> SUFFICES ASSUME CrtInv, EncodeResidues PROVE CrtInv'
  OBVIOUS
<1>1. /\ phase = "encode" /\ CrtTypeInv /\ PackedInv /\ IdleInv /\ RestoredInv /\ UnpackInv
      /\ UNCHANGED <<floor, original, symbols, given, candidate, restored, unpacked>>
  BY DEF CrtInv, EncodeResidues
<1>2. floor \in Floors /\ Limit(floor) \in Nat /\ symbols \in Seq(0 .. Limit(floor) - 1)
  BY <1>1, FloorFacts DEF CrtTypeInv
<1>3. \A i \in 1 .. Len(symbols) : symbols[i] < Limit(floor) /\ symbols[i] \in Nat
  <2> TAKE i \in 1 .. Len(symbols)
  <2>1. symbols[i] \in 0 .. Limit(floor) - 1
    BY <1>2
  <2> QED
    BY <1>2, <2>1
<1>4. phase' = "deliver" /\ residues' = [i \in 1 .. Len(symbols) |-> Pair(symbols[i])]
  BY <1>3 DEF EncodeResidues
<1>5. residues' \in Seq(Nat \X Nat)
  <2>1. \A i \in 1 .. Len(symbols) : Pair(symbols[i]) \in Nat \X Nat
    <3> TAKE i \in 1 .. Len(symbols)
    <3>1. Pair(symbols[i]) \in (0 .. floor.first - 1) \X (0 .. floor.second - 1)
      BY <1>2, <1>3, PairOf
    <3> QED
      BY <3>1
  <2>2. Len(symbols) \in Nat
    BY <1>2
  <2> QED
    BY <1>4, <2>1, <2>2
<1>6. CrtTypeInv'
  BY <1>1, <1>4, <1>5 DEF CrtTypeInv
<1>7. PackedInv'
  BY <1>1, <1>4 DEF PackedInv, Count, Pair
<1> QED
  BY <1>1, <1>4, <1>6, <1>7 DEF CrtInv, IdleInv, RestoredInv, Pair, SearchInv, UnpackInv, NothingRefused, CrtErrors

LEMMA HandResiduesKeeps == CrtInv /\ HandResidues => CrtInv'
<1> SUFFICES ASSUME CrtInv, HandResidues PROVE CrtInv'
  OBVIOUS
<1>1. /\ phase = "deliver" /\ phase' = "decode" /\ CrtTypeInv /\ PackedInv /\ IdleInv
      /\ UNCHANGED <<floor, original, symbols, residues, candidate, restored, unpacked>>
  BY DEF CrtInv, HandResidues
<1>2. given' \in Seq(Nat \X Nat)
  <2>1. CASE given' = residues
    BY <1>1, <2>1 DEF CrtTypeInv
  <2>2. CASE Readable(given')
    <3>1. ResidueValues \subseteq Nat
      <4>1. 2 * ByteBits \in Nat
        BY PathTwoAssumption
      <4>2. 2 ^ (2 * ByteBits) \in Nat
        BY <4>1, PowersOfTwo
      <4> QED
        BY <4>2 DEF ResidueValues
    <3>2. given' \in Seq(ResidueValues \X ResidueValues)
      BY <2>2 DEF Readable
    <3>3. \A i \in 1 .. Len(given') : given'[i] \in Nat \X Nat
      <4> TAKE i \in 1 .. Len(given')
      <4>1. given'[i] \in ResidueValues \X ResidueValues
        BY <3>2
      <4> QED
        BY <3>1, <4>1
    <3>4. given' = [i \in 1 .. Len(given') |-> given'[i]] /\ Len(given') \in Nat
      BY <3>2
    <3> QED
      BY <3>3, <3>4
  <2> QED
    BY <2>1, <2>2 DEF HandResidues
<1>3. CrtTypeInv'
  BY <1>1, <1>2 DEF CrtTypeInv
<1>4. PackedInv'
  BY <1>1 DEF PackedInv, Count, Pair
<1> QED
  BY <1>1, <1>2, <1>3, <1>4 DEF CrtInv, IdleInv, RestoredInv, Pair, SearchInv, UnpackInv, NothingRefused, CrtErrors

LEMMA OpenPairKeeps == CrtInv /\ OpenPair => CrtInv'
<1> SUFFICES ASSUME CrtInv, OpenPair PROVE CrtInv'
  OBVIOUS
<1>1. /\ phase = "decode" /\ CrtTypeInv /\ PackedInv /\ IdleInv /\ RestoredInv
      /\ Len(restored) < Len(given) /\ candidate' = Current[1]
      /\ phase' = IF Current[1] < floor.first /\ Current[2] < floor.second
                    THEN "search" ELSE "residue"
      /\ UNCHANGED <<floor, original, symbols, residues, given, restored, unpacked>>
  BY DEF CrtInv, OpenPair
<1>2. floor \in Floors /\ given \in Seq(Nat \X Nat) /\ Len(restored) \in Nat /\ Len(given) \in Nat
  BY <1>1 DEF CrtTypeInv
<1>3. Len(restored) + 1 \in 1 .. Len(given)
  BY <1>1, <1>2
<1>4. Current \in Nat \X Nat
  BY <1>2, <1>3 DEF Current
<1>5. CrtTypeInv'
  <2>1. candidate' \in Nat
    BY <1>1, <1>4
  <2> QED
    BY <1>1, <2>1 DEF CrtTypeInv, CrtErrors
<1>6. SearchInv'
  <2> SUFFICES ASSUME phase' = "search" PROVE SearchInv'
    BY DEF SearchInv
  <2>1. Current' = Current
    BY <1>1 DEF Current
  <2>2. Current[1] < floor.first /\ Current[2] < floor.second
    BY <1>1
  <2>3. candidate' = Current[1] + floor.first * 0
    <3>1. floor.first \in Nat
      BY <1>2, FloorFacts
    <3> QED
      BY <1>1, <1>4, <3>1
  <2>4. \A l \in 0 .. 0 - 1 : (Current[1] + floor.first * l) % floor.second # Current[2]
    OBVIOUS
  <2> QED
    BY <1>1, <2>1, <2>2, <2>3, <2>4 DEF SearchInv
<1>7. NothingRefused'
  <2> SUFFICES ASSUME given = residues PROVE phase' # "residue"
    BY <1>1 DEF NothingRefused, CrtErrors
  <2>1. residues = [i \in 1 .. Len(symbols) |-> Pair(symbols[i])] /\ Len(symbols) \in Nat
    BY <1>1 DEF PackedInv, CrtTypeInv
  <2>2. PICK i \in 1 .. Len(symbols) : i = Len(restored) + 1
    BY <1>3, <2>1
  <2>3. Current = Pair(symbols[i]) /\ symbols[i] \in 0 .. Limit(floor) - 1
    <3>1. symbols \in Seq(0 .. Limit(floor) - 1)
      BY <1>1 DEF CrtTypeInv
    <3>2. Current = residues[i]
      BY <2>2 DEF Current
    <3>3. residues[i] = Pair(symbols[i])
      BY <2>1
    <3>4. symbols[i] \in 0 .. Limit(floor) - 1
      <4>1. Limit(floor) \in Nat
        BY <1>2, FloorFacts
      <4> QED
        BY <2>2, <3>1, <4>1
    <3> QED
      BY <3>2, <3>3, <3>4
  <2>4. symbols[i] \in Nat
    BY <1>2, <2>3, FloorFacts
  <2>5. Current \in (0 .. floor.first - 1) \X (0 .. floor.second - 1)
    BY <1>2, <2>3, <2>4, PairOf
  <2>6. Current[1] < floor.first /\ Current[2] < floor.second
    BY <1>2, <2>5, FloorFacts
  <2> QED
    BY <1>1, <2>6
<1>8. IdleInv' /\ RestoredInv' /\ UnpackInv' /\ PackedInv'
  BY <1>1 DEF IdleInv, RestoredInv, UnpackInv, Pair, PackedInv, Count
<1> QED
  BY <1>5, <1>6, <1>7, <1>8 DEF CrtInv

\* What a search under way is about.
LEMMA Sought ==
    ASSUME CrtInv, phase = "search"
    PROVE  /\ floor \in Floors /\ given \in Seq(Nat \X Nat)
           /\ Len(restored) + 1 \in 1 .. Len(given) /\ Len(restored) \in Nat
           /\ Current[1] \in 0 .. floor.first - 1 /\ Current[2] \in 0 .. floor.second - 1
           /\ candidate \in Nat /\ candidate % floor.first = Current[1]
           /\ Current = <<Current[1], Current[2]>>
<1>1. CrtTypeInv /\ SearchInv
  BY DEF CrtInv
<1>2. floor \in Floors /\ given \in Seq(Nat \X Nat) /\ candidate \in Nat /\ Len(restored) \in Nat
  BY <1>1 DEF CrtTypeInv
<1>3. /\ Len(restored) < Len(given) /\ Current[1] < floor.first /\ Current[2] < floor.second
      /\ \E k \in Nat : candidate = Current[1] + floor.first * k
  BY <1>1 DEF SearchInv
<1>4. Len(restored) + 1 \in 1 .. Len(given)
  BY <1>2, <1>3
<1>5. Current \in Nat \X Nat
  BY <1>2, <1>4 DEF Current
<1>6. PICK a \in Nat \ {0}, b \in Nat \ {0} : a = floor.first /\ b = floor.second
  BY <1>2, FloorFacts
<1>7. PICK c \in Nat, d \in Nat : c = Current[1] /\ d = Current[2]
  BY <1>5
<1>8. PICK k \in Nat : candidate = c + a * k
  BY <1>3, <1>6, <1>7
<1>9. candidate % a = c
  <2>1. c < a
    BY <1>3, <1>6, <1>7
  <2>2. c % a = c
    BY <2>1
  <2> QED
    BY <1>8, <2>2, MultipleAdded
<1>10. c \in 0 .. a - 1 /\ d \in 0 .. b - 1
  <2>1. c < a /\ d < b
    BY <1>3, <1>6, <1>7
  <2> QED
    BY <2>1
<1> QED
  BY <1>2, <1>4, <1>5, <1>6, <1>7, <1>9, <1>10

LEMMA SearchOnKeeps == CrtInv /\ SearchOn => CrtInv'
<1> SUFFICES ASSUME CrtInv, SearchOn PROVE CrtInv'
  OBVIOUS
<1>1. /\ phase = "search" /\ CrtTypeInv /\ PackedInv /\ IdleInv /\ RestoredInv /\ SearchInv
      /\ NothingRefused /\ Searching /\ candidate' = candidate + floor.first
      /\ UNCHANGED <<phase, floor, original, symbols, residues, given, restored, unpacked>>
  BY DEF CrtInv, SearchOn
<1>2. PICK a \in Nat \ {0}, b \in Nat \ {0} : a = floor.first /\ b = floor.second
  BY <1>1, FloorFacts DEF CrtTypeInv
<1>3. PICK c \in Nat, d \in Nat : c = Current[1] /\ d = Current[2]
  <2>1. Current[1] \in 0 .. floor.first - 1 /\ Current[2] \in 0 .. floor.second - 1
    BY <1>1, Sought
  <2> QED
    BY <2>1
<1>4. PICK k \in Nat :
        /\ candidate = c + a * k
        /\ \A l \in 0 .. k - 1 : (c + a * l) % b # d
  BY <1>1, <1>2, <1>3 DEF SearchInv
<1>5. candidate % b # d
  BY <1>1, <1>2, <1>3 DEF Searching
<1>6. candidate' = c + a * (k + 1)
  <2>1. a * (k + 1) = a * k + a
    OBVIOUS
  <2>2. PICK u \in Nat : u = a * k
    <3>1. a * k \in Nat
      OBVIOUS
    <3> QED
      BY <3>1
  <2> QED
    BY <1>1, <1>2, <1>4, <2>1, <2>2
<1>7. ASSUME NEW l \in 0 .. (k + 1) - 1 PROVE (c + a * l) % b # d
  <2>1. CASE l = k
    BY <1>4, <1>5, <2>1
  <2>2. CASE l # k
    <3>1. l \in 0 .. k - 1
      BY <2>2
    <3> QED
      BY <1>4, <3>1
  <2> QED
    BY <2>1, <2>2
<1>8. Current' = Current
  BY <1>1 DEF Current
<1>9. SearchInv'
  <2>1. k + 1 \in Nat
    OBVIOUS
  <2>2. /\ Len(restored) < Len(given) /\ Current[1] < floor.first /\ Current[2] < floor.second
    BY <1>1 DEF SearchInv
  <2> QED
    BY <1>1, <1>2, <1>3, <1>6, <1>7, <1>8, <2>1, <2>2 DEF SearchInv
<1>10. CrtTypeInv'
  <2>1. candidate' \in Nat
    <3>1. candidate \in Nat /\ candidate' = candidate + a
      BY <1>1, <1>2 DEF CrtTypeInv
    <3> QED
      BY ONLY <3>1, <1>2
  <2> QED
    BY <1>1, <2>1 DEF CrtTypeInv
<1>11. IdleInv' /\ RestoredInv' /\ UnpackInv' /\ PackedInv' /\ NothingRefused'
  BY <1>1 DEF IdleInv, RestoredInv, UnpackInv, Pair, PackedInv, Count, NothingRefused
<1> QED
  BY <1>9, <1>10, <1>11 DEF CrtInv

\* The search ends below the product of the moduli: it meets every residue
\* before it gets there.
LEMMA SearchSolves ==
    ASSUME CrtInv, SearchEnd
    PROVE  candidate < Product(floor) /\ candidate % floor.second = Current[2]
<1>1. phase = "search" /\ SearchInv /\ ~Searching
  BY DEF CrtInv, SearchEnd
<1>2. floor \in Floors
  BY <1>1, Sought
<1>3. PICK a \in Nat \ {0}, b \in Nat \ {0} :
        a = floor.first /\ b = floor.second /\ Coprime(a, b)
  BY <1>2, FloorFacts
<1>4. PICK c \in 0 .. a - 1, d \in 0 .. b - 1 : c = Current[1] /\ d = Current[2]
  <2>1. Current[1] \in 0 .. a - 1 /\ Current[2] \in 0 .. b - 1
    BY <1>1, <1>3, Sought
  <2> QED
    BY <2>1
<1>5. PICK k \in Nat :
        /\ candidate = c + a * k
        /\ \A l \in 0 .. k - 1 : (c + a * l) % b # d
  BY <1>1, <1>3, <1>4 DEF SearchInv
<1>6. PICK m \in 0 .. b - 1 : (c + a * m) % b = d
  <2>1. a \in Nat \ {0} /\ b \in Nat \ {0} /\ Coprime(a, b)
    BY <1>3
  <2>2. c \in Nat
    BY <1>4
  <2>3. d \in 0 .. b - 1
    BY <1>4
  <2>4. Met(a, b, c, d)
    BY <2>1, <2>2, <2>3, ResiduesMet
  <2> QED
    BY <2>4 DEF Met
<1>7. k <= m
  <2> SUFFICES ASSUME ~(k <= m) PROVE FALSE
    OBVIOUS
  <2>1. m \in 0 .. k - 1
    OBVIOUS
  <2> QED
    BY <1>5, <1>6, <2>1
<1>8. candidate < a * b
  <2>1. PICK e \in Nat : b = k + 1 + e
    <3>1. b - k - 1 \in Nat /\ b = k + 1 + (b - k - 1)
      BY <1>7
    <3> QED
      BY <3>1
  <2>2. a * b = a * k + a + a * e
    BY <2>1
  <2>3. PICK u \in Nat, v \in Nat, w \in Nat : u = a * k /\ v = a * e /\ w = a * b
    <3>1. a * k \in Nat /\ a * e \in Nat /\ a * b \in Nat
      OBVIOUS
    <3> QED
      BY <3>1
  <2> QED
    BY <1>5, <2>2, <2>3
<1>9. candidate < Product(floor)
  BY <1>3, <1>8 DEF Product
<1> QED
  BY <1>1, <1>9 DEF Searching

\* What was packed is what is found.
LEMMA Found ==
    ASSUME floor \in Floors, NEW x \in Nat, NEW y \in Nat,
           x < Product(floor), y < Product(floor), Pair(x) = Pair(y)
    PROVE  x = y
<1>1. PICK a \in Nat \ {0}, b \in Nat \ {0} :
        a = floor.first /\ b = floor.second /\ Coprime(a, b)
  BY FloorFacts
<1>2. x < a * b /\ y < a * b
  BY <1>1 DEF Product
<1>3. x % a = y % a /\ x % b = y % b
  BY <1>1 DEF Pair
<1> QED
  BY <1>1, <1>2, <1>3, ResiduesTell

LEMMA SearchEndKeeps == CrtInv /\ SearchEnd => CrtInv'
<1> SUFFICES ASSUME CrtInv, SearchEnd PROVE CrtInv'
  OBVIOUS
<1>1. /\ phase = "search" /\ CrtTypeInv /\ PackedInv /\ IdleInv /\ RestoredInv /\ SearchInv
      /\ UNCHANGED <<floor, original, symbols, residues, given, candidate, unpacked>>
  BY DEF CrtInv, SearchEnd
<1>2. candidate < Product(floor) /\ candidate % floor.second = Current[2]
  BY SearchSolves
<1>3. /\ floor \in Floors /\ given \in Seq(Nat \X Nat)
      /\ Len(restored) + 1 \in 1 .. Len(given) /\ Len(restored) \in Nat
      /\ candidate \in Nat /\ candidate % floor.first = Current[1]
      /\ Current = <<Current[1], Current[2]>>
  BY <1>1, Sought
<1>4. Pair(candidate) = Current
  BY <1>2, <1>3 DEF Pair
<1>5. PICK limit \in Nat : limit = Limit(floor) /\ Limit(floor) <= Product(floor) /\ Product(floor) \in Nat
  BY <1>3, FloorFacts
<1>6. PackedInv'
  BY <1>1 DEF PackedInv, Count, Pair
<1>7. CASE candidate < Limit(floor)
  <2>1. phase' = "decode" /\ restored' = Append(restored, candidate)
    BY <1>2, <1>7 DEF SearchEnd
  <2>2. candidate \in 0 .. Limit(floor) - 1 /\ restored \in Seq(0 .. Limit(floor) - 1)
    BY <1>1, <1>3, <1>5, <1>7 DEF CrtTypeInv
  <2>3. restored' \in Seq(0 .. Limit(floor) - 1) /\ Len(restored') = Len(restored) + 1
    BY <2>1, <2>2
  <2>4. CrtTypeInv'
    <3>1. unpacked.symbols \in 0 .. Len(restored')
      BY <1>1, <2>3 DEF CrtTypeInv
    <3> QED
      BY <1>1, <2>1, <2>3, <3>1 DEF CrtTypeInv
  <2>5. RestoredInv'
    <3>1. ASSUME NEW i \in 1 .. Len(restored') PROVE given[i] = Pair(restored'[i])
      <4>1. CASE i = Len(restored) + 1
        BY <1>4, <2>1, <2>2, <4>1 DEF Current
      <4>2. CASE i # Len(restored) + 1
        <5>1. i \in 1 .. Len(restored)
          BY <1>3, <2>3, <4>2
        <5> QED
          BY <1>1, <2>1, <2>2, <5>1 DEF RestoredInv
      <4> QED
        BY <4>1, <4>2
    <3>2. Len(restored') <= Len(given)
      BY <1>3, <2>3
    <3> QED
      BY <1>1, <3>1, <3>2 DEF RestoredInv, Pair
  <2> QED
    BY <1>1, <1>6, <2>1, <2>4, <2>5 DEF CrtInv, IdleInv, SearchInv, UnpackInv, NothingRefused, CrtErrors
<1>8. CASE ~(candidate < Limit(floor))
  <2>1. phase' = "outside" /\ restored' = restored
    BY <1>2, <1>8 DEF SearchEnd
  <2>2. given # residues
    <3> SUFFICES ASSUME given = residues PROVE FALSE
      OBVIOUS
    <3>1. residues = [i \in 1 .. Len(symbols) |-> Pair(symbols[i])] /\ Len(symbols) \in Nat
      BY <1>1 DEF PackedInv, CrtTypeInv
    <3>2. PICK i \in 1 .. Len(symbols) : i = Len(restored) + 1
      BY <1>3, <3>1
    <3>3. Current = Pair(symbols[i]) /\ symbols[i] \in 0 .. limit - 1
      BY <1>1, <1>5, <3>1, <3>2 DEF Current, CrtTypeInv
    <3>4. PICK x \in Nat : x = symbols[i] /\ x < limit
      BY <1>5, <3>3
    <3>5. x < Product(floor) /\ Pair(candidate) = Pair(x)
      BY <1>4, <1>5, <3>3, <3>4
    <3>6. candidate = x
      BY <1>2, <1>3, <3>5, Found
    <3> QED
      BY <1>5, <1>8, <3>4, <3>6
  <2>3. CrtTypeInv'
    BY <1>1, <2>1 DEF CrtTypeInv, CrtErrors
  <2> QED
    BY <1>1, <1>6, <2>1, <2>2, <2>3 DEF CrtInv, IdleInv, RestoredInv, Pair, SearchInv, UnpackInv, NothingRefused, CrtErrors
<1> QED
  BY <1>7, <1>8

LEMMA HonestFinds ==
    ASSUME CrtInv, given = residues, phase \notin {"pack", "encode"}
    PROVE  /\ Len(given) = Count
           /\ \A i \in 1 .. Len(restored) : restored[i] = SymbolAt(original, i, floor.bits)
<1>1. CrtTypeInv /\ PackedInv /\ RestoredInv
  BY DEF CrtInv
<1>2. /\ residues = [i \in 1 .. Len(symbols) |-> Pair(symbols[i])] /\ Len(symbols) = Count
      /\ symbols \in Seq(0 .. Limit(floor) - 1) /\ restored \in Seq(0 .. Limit(floor) - 1)
      /\ floor \in Floors /\ given \in Seq(Nat \X Nat)
  BY <1>1 DEF PackedInv, CrtTypeInv
<1>3. Len(given) = Len(symbols)
  <2>1. Len(symbols) \in Nat
    BY <1>2
  <2> QED
    BY <1>2, <2>1
<1>4. PICK limit \in Nat : limit = Limit(floor) /\ limit <= Product(floor) /\ Product(floor) \in Nat
  BY <1>2, FloorFacts
<1>5. ASSUME NEW i \in 1 .. Len(restored) PROVE restored[i] = SymbolAt(original, i, floor.bits)
  <2>1. i \in 1 .. Len(symbols)
    BY <1>1, <1>2, <1>3 DEF RestoredInv
  <2>2. PICK x \in Nat : x = restored[i] /\ x < limit
    <3>1. restored \in Seq(0 .. limit - 1)
      BY <1>2, <1>4
    <3>2. restored[i] \in 0 .. limit - 1
      BY <3>1
    <3> QED
      BY <3>2
  <2>3. PICK y \in Nat : y = symbols[i] /\ y < limit
    <3>1. symbols \in Seq(0 .. limit - 1)
      BY <1>2, <1>4
    <3>2. symbols[i] \in 0 .. limit - 1
      BY <2>1, <3>1
    <3> QED
      BY <3>2
  <2>4. Pair(x) = Pair(y)
    <3>1. given[i] = Pair(restored[i])
      BY <1>1 DEF RestoredInv
    <3>2. residues[i] = Pair(symbols[i])
      BY <1>2, <2>1
    <3> QED
      BY <2>2, <2>3, <3>1, <3>2
  <2>5. x < Product(floor) /\ y < Product(floor)
    BY <1>4, <2>2, <2>3
  <2>6. x = y
    BY <1>2, <2>4, <2>5, Found
  <2> QED
    BY <1>1, <2>1, <2>2, <2>3, <2>6 DEF PackedInv
<1> QED
  BY <1>2, <1>3, <1>5

LEMMA BeginUnpackKeeps == CrtInv /\ BeginUnpack => CrtInv'
<1> SUFFICES ASSUME CrtInv, BeginUnpack PROVE CrtInv'
  OBVIOUS
<1>1. /\ phase = "decode" /\ CrtTypeInv /\ PackedInv /\ IdleInv /\ RestoredInv
      /\ Len(restored) = Len(given)
      /\ phase' = IF Len(restored) = Count THEN "unpack" ELSE "length"
      /\ UNCHANGED <<floor, original, symbols, residues, given, candidate, restored, unpacked>>
  BY DEF CrtInv, BeginUnpack, Count
<1>2. CrtTypeInv' /\ PackedInv' /\ RestoredInv'
  BY <1>1 DEF CrtTypeInv, CrtErrors, PackedInv, RestoredInv, Count, Pair
<1>3. NothingRefused'
  <2> SUFFICES ASSUME given = residues PROVE phase' # "length"
    BY <1>1 DEF NothingRefused, CrtErrors
  <2>1. Len(given) = Count
    BY <1>1, HonestFinds
  <2> QED
    BY <1>1, <2>1
<1>4. UnpackInv'
  <2>1. unpacked = [bits |-> <<>>, symbols |-> 0]
    BY <1>1 DEF IdleInv
  <2>2. 0 * floor.bits = 0 /\ Needed \in Nat
    <3>1. Len(original) \in Nat /\ floor.bits \in Nat /\ ByteBits \in Nat
      BY <1>1, FloorFacts, PathTwoAssumption DEF CrtTypeInv
    <3> QED
      BY <3>1 DEF Needed
  <2>3. Len(unpacked.bits) = (IF unpacked.symbols * floor.bits <= Needed
                                THEN unpacked.symbols * floor.bits ELSE Needed)
    BY <2>1, <2>2
  <2>4. \A n \in 0 .. unpacked.symbols - 1 : \A k \in 1 .. floor.bits : WrittenBack(n, k)
    BY <2>1
  <2> QED
    BY <1>1, <2>3, <2>4 DEF UnpackInv, WrittenBack, Needed, Count
<1> QED
  BY <1>1, <1>2, <1>3, <1>4 DEF CrtInv, IdleInv, SearchInv

\* What the next symbol writes.
NextSymbol(w, n, a, h, x) ==
    /\ w = floor.bits /\ n = unpacked.symbols /\ a = n * w /\ h = Needed
    /\ a + w = (n + 1) * w
    /\ x = restored[n + 1] /\ x < Limit(floor) /\ n + 1 \in 1 .. Len(restored)
    /\ Len(unpacked.bits) = (IF a <= h THEN a ELSE h)
    /\ unpacked.bits \in Seq({0, 1})
    /\ \A k \in 1 .. w : Bit(x, w, k) \in {0, 1} /\ SymbolBits(x)[k] = Bit(x, w, k)
    /\ SymbolBits(x) \in Seq({0, 1}) /\ Len(SymbolBits(x)) = w
    /\ given = residues => x = SymbolAt(original, n + 1, w)

LEMMA NextWritten ==
    ASSUME CrtInv, phase = "unpack", unpacked.symbols < Len(restored)
    PROVE  \E w \in Nat \ {0}, n \in Nat, a \in Nat, h \in Nat, x \in Nat :
              NextSymbol(w, n, a, h, x)
<1>1. CrtTypeInv /\ UnpackInv
  BY DEF CrtInv
<1>2. /\ floor \in Floors /\ Len(original) \in Nat /\ restored \in Seq(0 .. Limit(floor) - 1)
      /\ unpacked.bits \in Seq({0, 1}) /\ unpacked.symbols \in Nat /\ Len(restored) \in Nat
  BY <1>1 DEF CrtTypeInv
<1>3. PICK w \in Nat \ {0}, n \in Nat : w = floor.bits /\ n = unpacked.symbols
  BY <1>2, FloorFacts
<1>4. PICK a \in Nat : a = n * w /\ a + w = (n + 1) * w
  <2>1. n * w \in Nat /\ n * w + w = (n + 1) * w
    OBVIOUS
  <2> QED
    BY <2>1
<1>5. PICK h \in Nat : h = Needed
  <2>1. ByteBits * Len(original) \in Nat
    BY <1>2, PathTwoAssumption
  <2> QED
    BY <2>1 DEF Needed
<1>6. n + 1 \in 1 .. Len(restored)
  BY <1>2, <1>3
<1>7. PICK x \in Nat : x = restored[n + 1] /\ x < Limit(floor)
  <2>1. Limit(floor) \in Nat
    BY <1>2, FloorFacts
  <2>2. restored[n + 1] \in 0 .. Limit(floor) - 1
    BY <1>2, <1>6, <2>1
  <2> QED
    BY <2>1, <2>2
<1>8. Len(unpacked.bits) = (IF a <= h THEN a ELSE h)
  BY <1>1, <1>3, <1>4, <1>5 DEF UnpackInv
<1>9. ASSUME NEW k \in 1 .. w PROVE Bit(x, w, k) \in {0, 1}
  BY BitIsBit
<1>10. SymbolBits(x) = [j \in 1 .. w |-> Bit(x, w, j)]
  BY <1>3 DEF SymbolBits
<1>11. SymbolBits(x) \in Seq({0, 1}) /\ Len(SymbolBits(x)) = w
  BY <1>9, <1>10
<1>12. \A k \in 1 .. w : Bit(x, w, k) \in {0, 1} /\ SymbolBits(x)[k] = Bit(x, w, k)
  BY <1>9, <1>10
<1>13. given = residues => x = SymbolAt(original, n + 1, w)
  BY <1>3, <1>6, <1>7, HonestFinds
<1>14. NextSymbol(w, n, a, h, x)
  BY <1>2, <1>3, <1>4, <1>5, <1>6, <1>7, <1>8, <1>11, <1>12, <1>13 DEF NextSymbol
<1> QED
  BY <1>14

\* The honest list fills its last symbol up with zeros.
LEMMA HonestPadding ==
    ASSUME CrtInv, phase = "unpack", unpacked.symbols < Len(restored), given = residues,
           NEW k \in 1 .. floor.bits, (unpacked.symbols * floor.bits) + k > Needed
    PROVE  Bit(restored[unpacked.symbols + 1], floor.bits, k) = 0
<1>0. PICK w \in Nat \ {0}, n \in Nat, a \in Nat, h \in Nat, x \in Nat :
        NextSymbol(w, n, a, h, x)
  BY NextWritten
<1>1. /\ w = floor.bits /\ n = unpacked.symbols /\ a = n * w /\ h = Needed
      /\ x = restored[n + 1] /\ x = SymbolAt(original, n + 1, w)
  BY <1>0 DEF NextSymbol
<1>2. original \in Seq(ByteValues) /\ ByteBits \in Nat \ {0}
  BY PathTwoAssumption DEF CrtInv, CrtTypeInv
<1>3. PICK m \in Nat \ {0} : m = n + 1 /\ m - 1 = n
  <2>1. n + 1 \in Nat \ {0} /\ (n + 1) - 1 = n
    OBVIOUS
  <2> QED
    BY <2>1
<1>4. Bit(x, w, k) = BitOf(original, (((m - 1) * w) + k) - 1)
  <2>1. k \in 1 .. w /\ x = SymbolAt(original, m, w)
    BY <1>1, <1>3
  <2>2. Bit(SymbolAt(original, m, w), w, k) = BitOf(original, (((m - 1) * w) + k) - 1)
    BY <1>2, <2>1, SymbolBitAt
  <2> QED
    BY <2>1, <2>2
<1>5. (((m - 1) * w) + k) - 1 = (a + k) - 1 /\ ~((a + k) - 1 < h)
  <2>1. k \in Nat /\ (m - 1) * w = a
    BY <1>1, <1>3
  <2>2. PICK c \in Nat : c = a + k
    BY <2>1
  <2>3. h \in Nat /\ c > h
    BY <1>1, <2>1, <2>2
  <2> QED
    BY <2>1, <2>2, <2>3
<1>6. BitOf(original, (a + k) - 1) = 0
  BY <1>1, <1>5 DEF BitOf, Needed
<1> QED
  BY <1>1, <1>4, <1>5, <1>6

LEMMA UnpackSymbolKeeps == CrtInv /\ UnpackSymbol => CrtInv'
<1> SUFFICES ASSUME CrtInv, UnpackSymbol PROVE CrtInv'
  OBVIOUS
<1>1. /\ phase = "unpack" /\ unpacked.symbols < Len(restored)
      /\ CrtTypeInv /\ PackedInv /\ RestoredInv /\ UnpackInv
      /\ UNCHANGED <<floor, original, symbols, residues, given, candidate, restored>>
  BY DEF CrtInv, UnpackSymbol
<1>2. PICK w \in Nat \ {0}, n \in Nat, a \in Nat, h \in Nat, x \in Nat :
        NextSymbol(w, n, a, h, x)
  BY <1>1, NextWritten
<1>3. /\ w = floor.bits /\ n = unpacked.symbols /\ a = n * w /\ h = Needed
      /\ a + w = (n + 1) * w
      /\ x = restored[n + 1] /\ x < Limit(floor) /\ n + 1 \in 1 .. Len(restored)
      /\ Len(unpacked.bits) = (IF a <= h THEN a ELSE h)
      /\ unpacked.bits \in Seq({0, 1})
      /\ \A k \in 1 .. w : Bit(x, w, k) \in {0, 1} /\ SymbolBits(x)[k] = Bit(x, w, k)
      /\ SymbolBits(x) \in Seq({0, 1}) /\ Len(SymbolBits(x)) = w
  BY <1>2 DEF NextSymbol
<1>4. PICK len \in Nat : len = Len(unpacked.bits) /\ len = (IF a <= h THEN a ELSE h)
  BY <1>3
<1>5. PICK m \in 0 .. w : m = Kept(unpacked.bits) /\ m = (IF h - len < w THEN h - len ELSE w)
  <2>1. Kept(unpacked.bits) = (IF h - len < w THEN h - len ELSE w)
    BY <1>3, <1>4 DEF Kept
  <2>2. h - len \in Nat
    BY <1>4
  <2>3. (IF h - len < w THEN h - len ELSE w) \in 0 .. w
    BY <2>2
  <2> QED
    BY <2>1, <2>3
<1>6. PackedInv' /\ RestoredInv'
  <2>1. phase' \in {"unpack", "padding", "outside"}
    BY <1>1 DEF UnpackSymbol
  <2> QED
    BY <1>1, <2>1 DEF PackedInv, RestoredInv, Count, Pair
<1>7. CASE \A j \in m + 1 .. floor.bits : SymbolBits(x)[j] = 0
  <2>1. phase' = phase
    BY <1>3, <1>5, <1>7 DEF UnpackSymbol
  <2>2. unpacked' = [bits |-> unpacked.bits \o SubSeq(SymbolBits(x), 1, m), symbols |-> n + 1]
    BY <1>3, <1>5, <1>7 DEF UnpackSymbol
  <2>3. PICK new \in Seq({0, 1}) :
          /\ new = SubSeq(SymbolBits(x), 1, m) /\ Len(new) = m
          /\ \A k \in 1 .. m : new[k] = Bit(x, w, k)
    <3>1. SubSeq(SymbolBits(x), 1, m) \in Seq({0, 1}) /\ Len(SubSeq(SymbolBits(x), 1, m)) = m
      <4>1. PICK all \in Seq({0, 1}) : all = SymbolBits(x) /\ Len(all) = w
        BY <1>3
      <4>2. \A k \in 1 .. m : all[k] \in {0, 1}
        BY <4>1
      <4>3. SubSeq(all, 1, m) = [k \in 1 .. m |-> all[k]]
        BY <4>1
      <4>4. SubSeq(all, 1, m) \in Seq({0, 1}) /\ Len(SubSeq(all, 1, m)) = m
        BY <4>2, <4>3
      <4> QED
        BY <4>1, <4>4
    <3>2. ASSUME NEW k \in 1 .. m PROVE SubSeq(SymbolBits(x), 1, m)[k] = Bit(x, w, k)
      <4>1. SubSeq(SymbolBits(x), 1, m)[k] = SymbolBits(x)[k]
        BY <1>3
      <4>2. k \in 1 .. w
        OBVIOUS
      <4> QED
        BY <1>3, <4>1, <4>2
    <3> QED
      BY <3>1, <3>2
  <2>4. PICK bits \in Seq({0, 1}) : bits = unpacked.bits /\ Len(bits) = len
    BY <1>3, <1>4
  <2>5. PICK out \in Seq({0, 1}) : out = bits \o new
    <3>1. bits \o new \in Seq({0, 1})
      BY <2>3, <2>4
    <3> QED
      BY <3>1
  <2>6. /\ unpacked'.bits = out /\ unpacked'.symbols = n + 1
        /\ unpacked' = [bits |-> unpacked'.bits, symbols |-> unpacked'.symbols]
    BY <2>2, <2>3, <2>4, <2>5
  <2>7. CrtTypeInv'
    <3>1. unpacked'.symbols \in 0 .. Len(restored')
      BY <1>1, <1>3, <2>6
    <3> QED
      BY <1>1, <2>1, <2>5, <2>6, <3>1 DEF CrtTypeInv
  <2>8. /\ Len(out) = len + m
        /\ \A k \in 1 .. len : out[k] = bits[k]
        /\ \A k \in 1 .. m : out[len + k] = new[k]
    <3>1. Len(bits) = len /\ Len(new) = m /\ bits \in Seq({0, 1}) /\ new \in Seq({0, 1})
      BY <2>3, <2>4
    <3>2. /\ Len(bits \o new) = Len(bits) + Len(new)
          /\ \A k \in 1 .. Len(bits) : (bits \o new)[k] = bits[k]
          /\ \A k \in 1 .. Len(new) : (bits \o new)[Len(bits) + k] = new[k]
      <4>1. PICK S : S = {0, 1} /\ bits \in Seq(S) /\ new \in Seq(S)
        BY <3>1
      <4> QED
        BY ONLY <4>1, ConcatFacts
    <3> QED
      BY <2>5, <3>1, <3>2
  <2>9. Len(out) = (IF a + w <= h THEN a + w ELSE h)
    BY <1>4, <1>5, <2>8
  <2>10. ASSUME NEW i \in 0 .. n, NEW k \in 1 .. w
         PROVE  IF (i * w) + k <= h THEN out[(i * w) + k] = Bit(restored[i + 1], w, k)
                                    ELSE Bit(restored[i + 1], w, k) = 0
    <3>1. CASE i < n
      <4>1. i \in 0 .. n - 1
        BY <3>1
      <4>2. WrittenBack(i, k)
        BY <1>1, <1>3, <4>1 DEF UnpackInv
      <4>3. PICK p \in Nat : p = (i * w) + k /\ p <= a
        <5>1. PICK e \in Nat : n = i + 1 + e
          <6>1. n - i - 1 \in Nat /\ n = i + 1 + (n - i - 1)
            BY <4>1
          <6> QED
            BY <6>1
        <5>2. n * w = i * w + w + e * w
          BY <5>1
        <5>3. PICK u \in Nat, v \in Nat : u = i * w /\ v = e * w
          <6>1. i * w \in Nat /\ e * w \in Nat
            OBVIOUS
          <6> QED
            BY <6>1
        <5>4. a = u + w + v /\ k <= w
          BY <1>3, <5>2, <5>3
        <5>5. u + k \in Nat /\ u + k <= a
          BY <5>4
        <5> QED
          BY <5>3, <5>5
      <4>4. p >= 1
        <5>1. i * w \in Nat
          OBVIOUS
        <5> QED
          BY <4>3, <5>1
      <4>5. CASE p <= h
        <5>1. p \in 1 .. len
          BY <1>4, <4>3, <4>4, <4>5
        <5>2. out[p] = unpacked.bits[p]
          BY <2>4, <2>8, <5>1
        <5> QED
          BY <1>3, <4>2, <4>3, <4>5, <5>2 DEF WrittenBack
      <4>6. CASE ~(p <= h)
        BY <1>3, <4>2, <4>3, <4>6 DEF WrittenBack
      <4> QED
        BY <4>5, <4>6
    <3>2. CASE i = n
      <4>1. (i * w) + k = a + k /\ restored[i + 1] = x
        BY <1>3, <3>2
      <4>2. CASE a + k <= h
        <5>1. len = a /\ k \in 1 .. m
          BY <1>4, <1>5, <4>2
        <5>2. out[a + k] = Bit(x, w, k)
          BY <2>3, <2>8, <5>1
        <5> QED
          BY <4>1, <4>2, <5>2
      <4>3. CASE ~(a + k <= h)
        <5>1. k \in m + 1 .. floor.bits
          <6>1. k > m
            BY <1>4, <1>5, <4>3
          <6> QED
            BY <1>3, <6>1
        <5>2. Bit(x, w, k) = 0
          BY <1>3, <1>7, <5>1
        <5> QED
          BY <4>1, <4>3, <5>2
      <4> QED
        BY <4>2, <4>3
    <3> QED
      BY <3>1, <3>2
  <2>11. UnpackInv'
    <3>1. ASSUME NEW i \in 0 .. n, NEW k \in 1 .. w PROVE WrittenBack(i, k)'
      <4>1. IF (i * w) + k <= h THEN out[(i * w) + k] = Bit(restored[i + 1], w, k)
                                ELSE Bit(restored[i + 1], w, k) = 0
        BY <2>10
      <4> QED
        BY <1>1, <1>3, <2>6, <4>1 DEF WrittenBack, Needed
    <3>2. Len(unpacked.bits)' = (IF unpacked.symbols * floor.bits <= Needed
                                   THEN unpacked.symbols * floor.bits ELSE Needed)'
      BY <1>1, <1>3, <2>6, <2>9 DEF Needed
    <3>3. (n + 1) - 1 = n /\ floor'.bits = w
      BY <1>1, <1>3
    <3>4. \A i \in 0 .. unpacked'.symbols - 1 : \A k \in 1 .. floor'.bits : WrittenBack(i, k)'
      BY <2>6, <3>1, <3>3
    <3>5. (Len(restored) = Len(given) /\ Len(restored) = Count)'
      BY <1>1 DEF UnpackInv, Count
    <3> QED
      BY <1>1, <2>1, <3>2, <3>4, <3>5 DEF UnpackInv
  <2> QED
    BY <1>1, <1>6, <2>1, <2>7, <2>11 DEF CrtInv, IdleInv, SearchInv, NothingRefused, CrtErrors
<1>8. CASE ~(\A j \in m + 1 .. floor.bits : SymbolBits(x)[j] = 0)
  <2>1. phase' = "padding" /\ unpacked' = unpacked
    BY <1>3, <1>5, <1>8 DEF UnpackSymbol
  <2>2. given # residues
    <3> SUFFICES ASSUME given = residues PROVE FALSE
      OBVIOUS
    <3>1. PICK k \in m + 1 .. w : SymbolBits(x)[k] # 0
      BY <1>3, <1>8
    <3>2. k \in 1 .. w /\ a + k > h
      BY <1>4, <1>5, <3>1
    <3>3. Bit(restored[unpacked.symbols + 1], floor.bits, k) = 0
      BY <1>1, <1>3, <3>2, HonestPadding
    <3> QED
      BY <1>3, <3>1, <3>2, <3>3
  <2>3. CrtTypeInv'
    BY <1>1, <2>1 DEF CrtTypeInv, CrtErrors
  <2> QED
    BY <1>1, <1>6, <2>1, <2>2, <2>3 DEF CrtInv, IdleInv, SearchInv, UnpackInv, NothingRefused, CrtErrors
<1> QED
  BY <1>7, <1>8

LEMMA UnpackEndKeeps == CrtInv /\ UnpackEnd => CrtInv'
<1> SUFFICES ASSUME CrtInv, UnpackEnd PROVE CrtInv'
  OBVIOUS
<1>1. /\ phase = "unpack" /\ phase' = "done" /\ unpacked.symbols = Len(restored)
      /\ UNCHANGED <<floor, original, symbols, residues, given, candidate, restored, unpacked>>
  BY DEF UnpackEnd
<1> QED
  BY <1>1 DEF CrtInv, CrtTypeInv, PackedInv, IdleInv, RestoredInv, SearchInv, UnpackInv,
     WrittenBack, Needed, Count, Pair, NothingRefused, CrtErrors

LEMMA CrtStays == CrtInv /\ UNCHANGED crtVars => CrtInv'
<1> SUFFICES ASSUME CrtInv, UNCHANGED crtVars PROVE CrtInv'
  OBVIOUS
<1>1. UNCHANGED <<phase, floor, original, symbols, residues, given, candidate, restored, unpacked>>
  BY DEF crtVars
<1> QED
  BY <1>1 DEF CrtInv, CrtTypeInv, PackedInv, IdleInv, RestoredInv, SearchInv, Current, UnpackInv,
     WrittenBack, Needed, Count, Pair, NothingRefused, CrtErrors

-----------------------------------------------------------------------------
(* The end of a decoding.                                                  *)

\* Number p in runs of w.
LEMMA PlaceIn ==
    ASSUME NEW w \in Nat \ {0}, NEW c \in Nat, NEW p \in Nat, p < c * w
    PROVE  \E n \in 0 .. c - 1 : \E k \in 1 .. w : p + 1 = (n * w) + k
<1>1. PICK q \in Nat : p = (w * q) + (p % w) /\ p % w \in 0 .. w - 1
  BY Divided
<1>2. PICK r \in 0 .. w - 1 : r = p % w
  BY <1>1
<1>3. q < c
  <2> SUFFICES ASSUME ~(q < c) PROVE FALSE
    OBVIOUS
  <2>1. PICK d \in Nat : q = c + d
    <3>1. q - c \in Nat /\ q = c + (q - c)
      OBVIOUS
    <3> QED
      BY <3>1
  <2>2. w * q = c * w + w * d
    BY <2>1
  <2>3. PICK u \in Nat, v \in Nat : u = c * w /\ v = w * d
    <3>1. c * w \in Nat /\ w * d \in Nat
      OBVIOUS
    <3> QED
      BY <3>1
  <2> QED
    BY <1>1, <1>2, <2>2, <2>3
<1>4. q \in 0 .. c - 1 /\ r + 1 \in 1 .. w
  BY <1>2, <1>3
<1>5. p + 1 = (q * w) + (r + 1)
  <2>1. PICK u \in Nat : u = w * q /\ u = q * w
    <3>1. w * q \in Nat /\ w * q = q * w
      OBVIOUS
    <3> QED
      BY <3>1
  <2> QED
    BY <1>1, <1>2, <2>1
<1> QED
  BY <1>4, <1>5

\* All the bits are there, each the bit of a symbol found.
AllWritten(b, l, w, bits) ==
    /\ b = ByteBits /\ l = Len(original) /\ w = floor.bits /\ bits = unpacked.bits
    /\ Len(bits) = b * l /\ l = Len(OutputBytes) /\ OutputBytes \in Seq(ByteValues)
    /\ \A i \in 1 .. l : \A j \in 1 .. b : Bit(OutputBytes[i], b, j) = bits[((i - 1) * b) + j]
    /\ \A i \in 1 .. l :
          /\ [j \in 1 .. b |-> bits[((i - 1) * b) + j]] \in [1 .. b -> {0, 1}]
          /\ OutputBytes[i] = Number([j \in 1 .. b |-> bits[((i - 1) * b) + j]])

LEMMA Finished ==
    ASSUME CrtInv, phase = "done"
    PROVE  \E b \in Nat \ {0}, l \in Nat, w \in Nat \ {0}, bits \in Seq({0, 1}) :
              AllWritten(b, l, w, bits)
<1>1. CrtTypeInv /\ UnpackInv
  BY DEF CrtInv
<1>2. /\ floor \in Floors /\ original \in Seq(ByteValues) /\ ByteBits \in Nat \ {0}
      /\ unpacked.bits \in Seq({0, 1})
  BY <1>1, PathTwoAssumption DEF CrtTypeInv
<1>3. PICK b \in Nat \ {0}, w \in Nat \ {0} : b = ByteBits /\ w = floor.bits
  BY <1>2, FloorFacts
<1>4. PICK l \in Nat : l = Len(original)
  BY <1>2
<1>5. PICK bits \in Seq({0, 1}) : bits = unpacked.bits
  BY <1>2
<1>6. Len(bits) = b * l
  <2>1. PICK c \in Nat : c = Count /\ b * l <= c * w
    BY <1>3, <1>4, CountOfSymbols DEF Count
  <2>2. unpacked.symbols = c
    BY <1>1, <2>1 DEF UnpackInv
  <2>3. PICK u \in Nat, v \in Nat : u = c * w /\ v = b * l
    <3>1. c * w \in Nat /\ b * l \in Nat
      OBVIOUS
    <3> QED
      BY <3>1
  <2>4. Len(bits) = IF u <= v THEN u ELSE v
    BY <1>1, <1>3, <1>4, <1>5, <2>2, <2>3 DEF UnpackInv, Needed
  <2> QED
    BY <2>1, <2>3, <2>4
<1>7. Len(bits) \div b = l
  <2>1. PICK v \in Nat : v = b * l
    <3>1. b * l \in Nat
      OBVIOUS
    <3> QED
      BY <3>1
  <2>2. v = (b * l) + 0 /\ 0 \in 0 .. b - 1 /\ l \in Int /\ v \in Int
    BY <2>1
  <2>3. v \div b = l
    BY <2>2, QuotientIs
  <2> QED
    BY <1>6, <2>1, <2>3
<1>8. OutputBytes = [i \in 1 .. l |-> Number(SubSeq(bits, ((i - 1) * b) + 1, i * b))]
  BY <1>3, <1>5, <1>7 DEF OutputBytes
<1>9. ASSUME NEW i \in 1 .. l
      PROVE  /\ SubSeq(bits, ((i - 1) * b) + 1, i * b) = [j \in 1 .. b |-> bits[((i - 1) * b) + j]]
             /\ [j \in 1 .. b |-> bits[((i - 1) * b) + j]] \in [1 .. b -> {0, 1}]
  <2>1. PICK n \in 0 .. l - 1 : n = i - 1 /\ i = n + 1
    <3>1. i - 1 \in 0 .. l - 1 /\ i = (i - 1) + 1
      OBVIOUS
    <3> QED
      BY <3>1
  <2>2. PICK a \in Nat : a = n * b
    <3>1. n * b \in Nat
      OBVIOUS
    <3> QED
      BY <3>1
  <2>3. i * b = a + b
    <3>1. (n + 1) * b = n * b + b
      OBVIOUS
    <3> QED
      BY <2>1, <2>2, <3>1
  <2>4. ASSUME NEW j \in 1 .. b PROVE a + j \in 1 .. Len(bits)
    <3>1. (n * b) + j \in 1 .. b * l
      BY PlaceOf
    <3> QED
      BY <1>6, <2>2, <3>1
  <2>5. \A j \in 1 .. b : bits[a + j] \in {0, 1}
    <3> TAKE j \in 1 .. b
    <3>1. a + j \in 1 .. Len(bits)
      BY <2>4
    <3> QED
      BY <1>5, <3>1
  <2>6. SubSeq(bits, a + 1, a + b) = [j \in 1 .. b |-> bits[a + j]]
    <3>1. SubSeq(bits, a + 1, a + b) = [j \in 1 .. (a + b) - (a + 1) + 1 |-> bits[j + (a + 1) - 1]]
      BY <2>4
    <3>2. (a + b) - (a + 1) + 1 = b /\ \A j \in 1 .. b : j + (a + 1) - 1 = a + j
      OBVIOUS
    <3> QED
      BY <3>1, <3>2
  <2> QED
    BY <2>1, <2>2, <2>3, <2>5, <2>6
<1>10. ASSUME NEW i \in 1 .. l
       PROVE  /\ OutputBytes[i] = Number([j \in 1 .. b |-> bits[((i - 1) * b) + j]])
              /\ OutputBytes[i] \in ByteValues
              /\ \A j \in 1 .. b : Bit(OutputBytes[i], b, j) = bits[((i - 1) * b) + j]
  <2>1. PICK g : g = [j \in 1 .. b |-> bits[((i - 1) * b) + j]]
    OBVIOUS
  <2>2. OutputBytes[i] = Number(g) /\ g \in [1 .. b -> {0, 1}] /\ b \in Nat
    BY <1>8, <1>9, <2>1
  <2>3. /\ Number(g) \in 0 .. 2 ^ b - 1
        /\ \A j \in 1 .. b : Bit(Number(g), b, j) = g[j]
    BY <2>2, NumberOfBits
  <2> QED
    BY <1>3, <2>1, <2>2, <2>3 DEF ByteValues
<1>11. OutputBytes \in Seq(ByteValues) /\ Len(OutputBytes) = l
  <2>1. \A i \in 1 .. l : OutputBytes[i] \in ByteValues
    BY <1>10
  <2>2. OutputBytes = [i \in 1 .. l |-> OutputBytes[i]] /\ l \in Nat
    BY <1>8
  <2> QED
    BY <2>1, <2>2
<1>12. AllWritten(b, l, w, bits)
  BY <1>3, <1>4, <1>5, <1>6, <1>9, <1>10, <1>11 DEF AllWritten
<1> QED
  BY <1>12

\* A place of the output is a place in one of the symbols.
LEMMA PlaceWritten ==
    ASSUME CrtInv, phase = "done", NEW n \in 0 .. Count - 1, NEW k \in 1 .. floor.bits
    PROVE  WrittenBack(n, k)
<1>1. /\ unpacked.symbols = Count
      /\ \A i \in 0 .. unpacked.symbols - 1 : \A j \in 1 .. floor.bits : WrittenBack(i, j)
  BY DEF CrtInv, UnpackInv
<1> QED
  BY <1>1

LEMMA HonestEnd ==
    ASSUME CrtInv, phase = "done", given = residues
    PROVE  OutputBytes = original
<1>1. PICK b \in Nat \ {0}, l \in Nat, w \in Nat \ {0}, bits \in Seq({0, 1}) :
        AllWritten(b, l, w, bits)
  BY Finished
<1>2. /\ b = ByteBits /\ l = Len(original) /\ w = floor.bits /\ bits = unpacked.bits
      /\ Len(bits) = b * l /\ l = Len(OutputBytes) /\ OutputBytes \in Seq(ByteValues)
      /\ \A i \in 1 .. l :
            /\ [j \in 1 .. b |-> bits[((i - 1) * b) + j]] \in [1 .. b -> {0, 1}]
            /\ OutputBytes[i] = Number([j \in 1 .. b |-> bits[((i - 1) * b) + j]])
  BY <1>1 DEF AllWritten
<1>3. /\ original \in Seq(ByteValues) /\ ByteBits \in Nat \ {0} /\ CrtTypeInv /\ UnpackInv
      /\ \A i \in 1 .. Len(restored) : restored[i] = SymbolAt(original, i, floor.bits)
      /\ Len(restored) = Count
  BY PathTwoAssumption, HonestFinds DEF CrtInv, CrtTypeInv, UnpackInv
<1>4. PICK c \in Nat : c = Count /\ b * l <= c * w
  BY <1>2, <1>3, CountOfSymbols DEF Count
<1>5. PICK all \in Nat, top \in Nat : all = b * l /\ top = c * w
  <2>1. b * l \in Nat /\ c * w \in Nat
    OBVIOUS
  <2> QED
    BY <2>1
<1>6. ASSUME NEW p \in Nat, p < all PROVE bits[p + 1] = BitOf(original, p)
  <2>1. p < c * w
    BY <1>4, <1>5, <1>6
  <2>2. PICK n \in 0 .. c - 1, k \in 1 .. w : p + 1 = (n * w) + k
    BY <2>1, PlaceIn
  <2>3. WrittenBack(n, k)
    BY <1>2, <1>4, PlaceWritten
  <2>4. PICK i \in Nat \ {0} : i = n + 1 /\ i - 1 = n /\ i \in 1 .. Len(restored)
    <3>1. n + 1 \in Nat \ {0} /\ (n + 1) - 1 = n /\ n + 1 \in 1 .. Len(restored)
      BY <1>3, <1>4
    <3> QED
      BY <3>1
  <2>5. bits[p + 1] = Bit(restored[i], w, k)
    <3>1. p + 1 <= all
      BY <1>6
    <3> QED
      BY <1>2, <1>5, <2>2, <2>3, <2>4, <3>1 DEF WrittenBack, Needed
  <2>6. Bit(SymbolAt(original, i, w), w, k) = BitOf(original, (((i - 1) * w) + k) - 1)
    BY <1>3, SymbolBitAt
  <2>7. Bit(restored[i], w, k) = BitOf(original, (((i - 1) * w) + k) - 1)
    BY <1>2, <1>3, <2>4, <2>6
  <2>8. (((i - 1) * w) + k) - 1 = p
    <3>1. ((i - 1) * w) + k = p + 1
      BY <2>2, <2>4
    <3> QED
      BY <3>1
  <2> QED
    BY <2>5, <2>7, <2>8
<1>7. ASSUME NEW i \in 1 .. l PROVE OutputBytes[i] = original[i]
  <2>1. PICK g : g = [j \in 1 .. b |-> bits[((i - 1) * b) + j]]
    OBVIOUS
  <2>2. g \in [1 .. b -> {0, 1}] /\ OutputBytes[i] = Number(g) /\ b \in Nat
    BY <1>2, <2>1
  <2>3. ASSUME NEW j \in 1 .. b PROVE g[j] = Bit(original[i], b, j)
    <3>1. /\ (((i - 1) * b) + j) - 1 < b * l
          /\ BitOf(original, (((i - 1) * b) + j) - 1) = Bit(original[i], b, j)
      <4>1. i \in 1 .. Len(original) /\ j \in 1 .. ByteBits
        BY <1>2
      <4> QED
        BY <1>2, <1>3, <4>1, BitOfByte
    <3>2. PICK p \in Nat : p = (((i - 1) * b) + j) - 1 /\ p + 1 = ((i - 1) * b) + j
      <4>1. (i - 1) * b \in Nat
        <5>1. i - 1 \in Nat
          OBVIOUS
        <5> QED
          BY <5>1
      <4>2. (((i - 1) * b) + j) - 1 \in Nat
        BY <4>1
      <4> QED
        BY <4>1, <4>2
    <3>3. bits[p + 1] = BitOf(original, p)
      BY <1>5, <1>6, <3>1, <3>2
    <3> QED
      BY <2>1, <3>1, <3>2, <3>3
  <2>4. original[i] \in 0 .. 2 ^ b - 1
    <3>1. i \in 1 .. Len(original)
      BY <1>2
    <3>2. original[i] \in ByteValues
      BY <1>3, <3>1
    <3> QED
      BY <1>2, <3>2 DEF ByteValues
  <2>5. Number(g) = original[i]
    BY <2>2, <2>3, <2>4, NumberWithBits
  <2> QED
    BY <2>2, <2>5
<1>8. OutputBytes = [i \in 1 .. l |-> OutputBytes[i]] /\ original = [i \in 1 .. l |-> original[i]]
  <2>1. OutputBytes = [i \in 1 .. Len(OutputBytes) |-> OutputBytes[i]]
    <3>1. OutputBytes \in Seq(ByteValues)
      BY <1>2
    <3> QED
      BY <3>1
  <2>2. original = [i \in 1 .. Len(original) |-> original[i]]
    BY <1>3
  <2> QED
    BY <1>2, <2>1, <2>2
<1> QED
  BY <1>7, <1>8

LEMMA CanonicalEnd ==
    ASSUME CrtInv, phase = "done"
    PROVE  /\ Len(given) = SymbolCount(Len(OutputBytes), floor.bits)
           /\ \A i \in 1 .. Len(given) : given[i] = Pair(SymbolAt(OutputBytes, i, floor.bits))
<1>1. PICK b \in Nat \ {0}, l \in Nat, w \in Nat \ {0}, bits \in Seq({0, 1}) :
        AllWritten(b, l, w, bits)
  BY Finished
<1>2. /\ b = ByteBits /\ l = Len(original) /\ w = floor.bits /\ bits = unpacked.bits
      /\ Len(bits) = b * l /\ l = Len(OutputBytes) /\ OutputBytes \in Seq(ByteValues)
      /\ \A i \in 1 .. l : \A j \in 1 .. b : Bit(OutputBytes[i], b, j) = bits[((i - 1) * b) + j]
  BY <1>1 DEF AllWritten
<1>3. /\ CrtTypeInv /\ RestoredInv /\ ByteBits \in Nat \ {0} /\ floor \in Floors
      /\ Len(restored) = Len(given) /\ Len(restored) = Count
      /\ restored \in Seq(0 .. Limit(floor) - 1)
  BY PathTwoAssumption DEF CrtInv, CrtTypeInv, UnpackInv
<1>4. Len(given) = SymbolCount(Len(OutputBytes), floor.bits)
  BY <1>2, <1>3 DEF Count
<1>5. PICK all \in Nat : all = b * l
  <2>1. b * l \in Nat
    OBVIOUS
  <2> QED
    BY <2>1
<1>6. ASSUME NEW p \in Nat, p < all PROVE bits[p + 1] = BitOf(OutputBytes, p)
  <2>1. p < l * b
    BY <1>5, <1>6
  <2>2. PICK n \in 0 .. l - 1, j \in 1 .. b : p + 1 = (n * b) + j
    BY <2>1, PlaceIn
  <2>3. PICK i \in 1 .. l : i = n + 1 /\ i - 1 = n
    <3>1. n + 1 \in 1 .. l /\ (n + 1) - 1 = n
      OBVIOUS
    <3> QED
      BY <3>1
  <2>4. BitOf(OutputBytes, (((i - 1) * b) + j) - 1) = Bit(OutputBytes[i], b, j)
    BY <1>2, <1>3, BitOfByte
  <2>5. (((i - 1) * b) + j) - 1 = p
    <3>1. ((i - 1) * b) + j = p + 1
      BY <2>2, <2>3
    <3> QED
      BY <3>1
  <2>6. bits[((i - 1) * b) + j] = Bit(OutputBytes[i], b, j)
    BY <1>2
  <2>7. ((i - 1) * b) + j = p + 1
    BY <2>2, <2>3
  <2> QED
    BY <2>4, <2>5, <2>6, <2>7
<1>7. ASSUME NEW i \in 1 .. Len(given) PROVE SymbolAt(OutputBytes, i, w) = restored[i]
  <2>1. PICK n \in 0 .. Count - 1 : n = i - 1 /\ i = n + 1
    <3>1. i - 1 \in 0 .. Count - 1 /\ i = (i - 1) + 1
      <4>1. Len(given) \in Nat /\ Len(given) = Count
        BY <1>3 DEF CrtTypeInv
      <4> QED
        BY <4>1
    <3> QED
      BY <3>1
  <2>2. PICK a \in Nat : a = n * w
    <3>1. n \in Nat
      BY <2>1
    <3>2. n * w \in Nat
      BY <3>1
    <3> QED
      BY <3>2
  <2>3. ASSUME NEW j \in 1 .. w PROVE BitOf(OutputBytes, (((i - 1) * w) + j) - 1) = Bit(restored[i], w, j)
    <3>1. WrittenBack(n, j)
      BY <1>2, PlaceWritten
    <3>2. PICK p \in Nat : p = (((i - 1) * w) + j) - 1 /\ p = (a + j) - 1 /\ p + 1 = a + j
      <4>1. (a + j) - 1 \in Nat /\ ((a + j) - 1) + 1 = a + j
        OBVIOUS
      <4> QED
        BY <2>1, <2>2, <4>1
    <3>3. CASE p < all
      <4>1. p + 1 <= all
        BY <3>3
      <4>2. bits[p + 1] = Bit(restored[i], w, j)
        BY <1>2, <1>5, <2>1, <2>2, <3>1, <3>2, <4>1 DEF WrittenBack, Needed
      <4> QED
        BY <1>6, <3>2, <3>3, <4>2
    <3>4. CASE ~(p < all)
      <4>1. ~(p + 1 <= all)
        BY <3>4
      <4>2. Bit(restored[i], w, j) = 0
        BY <1>2, <1>5, <2>1, <2>2, <3>1, <3>2, <4>1 DEF WrittenBack, Needed
      <4>3. BitOf(OutputBytes, p) = 0
        BY <1>2, <1>5, <3>4 DEF BitOf
      <4> QED
        BY <3>2, <4>2, <4>3
    <3> QED
      BY <3>3, <3>4
  <2>4. restored[i] \in 0 .. 2 ^ w - 1
    <3>1. restored[i] \in 0 .. Limit(floor) - 1
      <4>1. Limit(floor) \in Nat
        BY <1>3, FloorFacts
      <4> QED
        BY <1>3, <4>1
    <3> QED
      BY <1>2, <3>1 DEF Limit
  <2>5. i \in Nat \ {0}
    BY <1>3
  <2>6. PICK r \in 0 .. 2 ^ w - 1 : r = restored[i]
    BY <2>4
  <2>7. PICK o \in Seq(ByteValues) : o = OutputBytes
    BY <1>2
  <2>8. \A j \in 1 .. w : BitOf(o, (((i - 1) * w) + j) - 1) = Bit(r, w, j)
    BY <2>3, <2>6, <2>7
  <2>9. SymbolAt(o, i, w) = r
    BY <1>3, <2>5, <2>6, <2>7, <2>8, SymbolWithBits
  <2> QED
    BY <2>6, <2>7, <2>9
<1>8. \A i \in 1 .. Len(given) : given[i] = Pair(SymbolAt(OutputBytes, i, floor.bits))
  BY <1>2, <1>3, <1>7 DEF RestoredInv
<1> QED
  BY <1>4, <1>8

-----------------------------------------------------------------------------
(* The theorems.                                                           *)

\* The invariant holds at every step of packing, search and unpacking.
THEOREM CrtCorrect == CrtSpec => []CrtInv
<1>1. CrtInit => CrtInv
  BY InitCrtInv
<1>2. CrtInv /\ [CrtNext]_crtVars => CrtInv'
  <2> SUFFICES ASSUME CrtInv, [CrtNext]_crtVars PROVE CrtInv'
    OBVIOUS
  <2>1. CASE PackSymbol
    BY <2>1, PackSymbolKeeps
  <2>2. CASE EncodeResidues
    BY <2>2, EncodeResiduesKeeps
  <2>3. CASE HandResidues
    BY <2>3, HandResiduesKeeps
  <2>4. CASE OpenPair
    BY <2>4, OpenPairKeeps
  <2>5. CASE SearchOn
    BY <2>5, SearchOnKeeps
  <2>6. CASE SearchEnd
    BY <2>6, SearchEndKeeps
  <2>7. CASE BeginUnpack
    BY <2>7, BeginUnpackKeeps
  <2>8. CASE UnpackSymbol
    BY <2>8, UnpackSymbolKeeps
  <2>9. CASE UnpackEnd
    BY <2>9, UnpackEndKeeps
  <2>10. CASE UNCHANGED crtVars
    BY <2>10, CrtStays
  <2> QED
    BY <2>1, <2>2, <2>3, <2>4, <2>5, <2>6, <2>7, <2>8, <2>9, <2>10 DEF CrtNext
<1> QED
  BY <1>1, <1>2, PTL DEF CrtSpec

\* decode_path2_crt never reports a pair without solution: for coprime moduli
\* the steps through one residue meet every other.
THEOREM PairsAreSolved == CrtSpec => []EveryPairHasASolution
<1>1. CrtInv => EveryPairHasASolution
  BY DEF CrtInv, NothingRefused, EveryPairHasASolution
<1> QED
  BY <1>1, CrtCorrect, PTL

\* The encoder's residues are never refused and decode to the bytes encoded.
THEOREM ResiduesDecoded == CrtSpec => []HonestIsDecoded
<1>1. CrtInv => HonestIsDecoded
  BY HonestEnd DEF CrtInv, NothingRefused, CrtErrors, HonestIsDecoded
<1> QED
  BY <1>1, CrtCorrect, PTL

\* A residue list that decodes is the one the encoder makes of the bytes it
\* decodes to.
THEOREM CanonicalResidues == CrtSpec => []OnlyCanonicalIsAccepted
<1>1. CrtInv => OnlyCanonicalIsAccepted
  BY CanonicalEnd DEF OnlyCanonicalIsAccepted
<1> QED
  BY <1>1, CrtCorrect, PTL

-----------------------------------------------------------------------------
(* The archive: what a layer makes of a value.                             *)

LayerNames == {"map", "p1", "pack", "crt", "p3"}
ModeNames == {"Path1Only", "Path2Only", "Path3Only", "P123"}
Texts == {Plain(s) : s \in Originals}

\* Values that come about by folding, not by unfolding.
Whole(v) == v.tag \in {"nothing", "bytes", "code"} /\ v.size \in Nat /\ (v.size = 0 <=> v = Nothing)

\* The code of a layer, in Fold's last case.
Coded(layer, c, style, spelled, v) ==
    [tag |-> "code", key |-> IF v = Nothing THEN [layer |-> "p3"] ELSE Key(layer, c, style),
     of |-> v, size |-> CodeSize(layer, c, style, v), repeats |-> v.repeats,
     spelling |-> IF layer = "p3" THEN spelled ELSE Usual]

LEMMA TextIsWhole == \A v \in Texts : Whole(v) /\ v.repeats \in BOOLEAN
<1> SUFFICES ASSUME NEW s \in Originals PROVE Whole(Plain(s)) /\ Plain(s).repeats \in BOOLEAN
  BY DEF Texts
<1>1. s.size \in Nat /\ s.repeats \in BOOLEAN
  BY ArchiveAssumption
<1> QED
  BY <1>1 DEF Whole, Plain, Nothing

LEMMA CeilingFacts ==
    ASSUME NEW a \in Nat, NEW b \in Nat \ {0}
    PROVE  /\ Ceiling(8 * a, b) \in Nat
           /\ a = 0 => Ceiling(8 * a, b) = 0
           /\ a # 0 => Ceiling(8 * a, b) # 0
<1>1. PICK x \in Nat : x = 8 * a + b - 1
  OBVIOUS
<1>2. Ceiling(8 * a, b) = x \div b
  BY <1>1 DEF Ceiling
<1>3. x \div b \in Nat
  OBVIOUS
<1>4. ASSUME a = 0 PROVE x \div b = 0
  <2>1. x = (b * 0) + x /\ x \in 0 .. b - 1 /\ 0 \in Int /\ x \in Int
    BY <1>1, <1>4
  <2> QED
    BY <2>1, QuotientIs
<1>5. ASSUME a # 0 PROVE x \div b # 0
  <2>1. x \in Int /\ b \in Nat \ {0} /\ x >= b
    BY <1>1, <1>5
  <2>2. x \div b = 0 => x = (b * 0) + (x % b) /\ x % b \in 0 .. b - 1
    OBVIOUS
  <2>3. x % b \in 0 .. b - 1
    OBVIOUS
  <2> QED
    BY <2>1, <2>2, <2>3
<1> QED
  BY <1>2, <1>3, <1>4, <1>5

LEMMA CodeIsWhole ==
    ASSUME NEW v, Whole(v), NEW layer \in LayerNames, NEW c, c.bits \in Nat \ {0},
           NEW style, NEW spelled, v # Nothing \/ layer = "p3"
    PROVE  Whole(Coded(layer, c, style, spelled, v))
<1>1. v.size \in Nat /\ (v.size = 0 <=> v = Nothing)
  BY DEF Whole
<1>2. PICK n \in Nat : n = v.size
  BY <1>1
<1>3. CodeSize(layer, c, style, v) \in Nat /\ CodeSize(layer, c, style, v) # 0
  <2>1. CASE layer = "pack"
    <3>1. CodeSize(layer, c, style, v) = Ceiling(8 * n, c.bits)
      BY <1>2, <2>1 DEF CodeSize, FloorSymbols
    <3>2. n # 0
      BY <1>1, <1>2, <2>1
    <3> QED
      BY <3>1, <3>2, CeilingFacts
  <2>2. CASE layer \in {"map", "crt"}
    <3>1. CodeSize(layer, c, style, v) = n /\ n # 0
      BY <1>1, <1>2, <2>2 DEF CodeSize
    <3> QED
      BY <3>1
  <2>3. CASE layer = "p3"
    <3>1. CodeSize(layer, c, style, v) = n + 1
      BY <1>2, <2>3 DEF CodeSize
    <3> QED
      BY <3>1
  <2>4. CASE layer = "p1"
    <3>1. CodeSize(layer, c, style, v) \in {2 * n, n + 1} /\ n # 0
      BY <1>1, <1>2, <2>4 DEF CodeSize
    <3> QED
      BY <3>1
  <2> QED
    BY <2>1, <2>2, <2>3, <2>4 DEF LayerNames
<1>4. Coded(layer, c, style, spelled, v) # Nothing
  BY DEF Coded, Nothing
<1> QED
  BY <1>3, <1>4 DEF Whole, Coded

LEMMA FoldOfWhole ==
    ASSUME NEW v, Whole(v), NEW layer \in LayerNames, NEW c, c.bits \in Nat \ {0},
           NEW style, NEW spelled \in {Usual, Longer}
    PROVE  /\ Fold(layer, c, style, spelled, v) =
                 IF v = Nothing /\ layer # "p3" THEN Nothing ELSE Coded(layer, c, style, spelled, v)
           /\ Whole(Fold(layer, c, style, spelled, v))
<1>1. v.tag # "unfolded"
  BY DEF Whole
<1>2. Fold(layer, c, style, spelled, v) =
         IF v = Nothing /\ layer # "p3" THEN Nothing ELSE Coded(layer, c, style, spelled, v)
  BY <1>1 DEF Fold, Coded
<1>3. Whole(Nothing)
  BY DEF Whole, Nothing
<1> QED
  BY <1>2, <1>3, CodeIsWhole

\* The choice of tokens is the business of Path 1.
LEMMA StyleOfOthers ==
    ASSUME NEW layer \in LayerNames, layer # "p1", NEW c, NEW a, NEW b, NEW spelled, NEW v
    PROVE  Fold(layer, c, a, spelled, v) = Fold(layer, c, b, spelled, v)
<1>1. Key(layer, c, a) = Key(layer, c, b)
  BY DEF Key, LayerNames
<1>2. CodeSize(layer, c, a, v) = CodeSize(layer, c, b, v)
  BY DEF CodeSize, LayerNames
<1> QED
  BY <1>1, <1>2 DEF Fold

-----------------------------------------------------------------------------
(* The values a string passes through.                                     *)

LEMMA LayersOf ==
    ASSUME NEW m \in ModeNames
    PROVE  /\ Len(Layers(m)) \in 2 .. 5
           /\ \A k \in 1 .. Len(Layers(m)) : Layers(m)[k] \in LayerNames
           /\ Layers(m) \in Seq(LayerNames)
           /\ DOMAIN Layers(m) = 1 .. Len(Layers(m))
<1>1. CASE m = "Path1Only"
  BY <1>1 DEF Layers, LayerNames
<1>2. CASE m = "Path2Only"
  BY <1>2 DEF Layers, LayerNames
<1>3. CASE m = "Path3Only"
  BY <1>3 DEF Layers, LayerNames
<1>4. CASE m = "P123"
  BY <1>4 DEF Layers, LayerNames
<1> QED
  BY <1>1, <1>2, <1>3, <1>4 DEF ModeNames

Ascent(t, c, style, spelled, v) ==
    /\ t = [k \in 0 .. Len(Layers(c.mode)) |-> t[k]] /\ t[0] = v
    /\ \A k \in 1 .. Len(Layers(c.mode)) :
          t[k] = Fold(Layers(c.mode)[k], c, style, spelled, t[k - 1])

LEMMA FoldedAscends ==
    ASSUME NEW c, c.mode \in ModeNames, NEW style, NEW spelled, NEW v
    PROVE  Ascent(Folded(c, style, spelled, v), c, style, spelled, v)
<1>1. PICK l : l = Layers(c.mode)
  OBVIOUS
<1>2. PICK n \in 2 .. 5 : n = Len(l)
  BY <1>1, LayersOf
<1> DEFINE Turn(u, k) == Fold(l[k], c, style, spelled, u)
           Body(f) == [k \in 0 .. n |-> IF k = 0 THEN v ELSE Turn(f[k - 1], k)]
           g == CHOOSE f : f = Body(f)
           v1 == Turn(v, 1)
           v2 == Turn(v1, 2)
           v3 == Turn(v2, 3)
           v4 == Turn(v3, 4)
           v5 == Turn(v4, 5)
           h == [k \in 0 .. n |-> CASE k = 0 -> v [] k = 1 -> v1 [] k = 2 -> v2
                                    [] k = 3 -> v3 [] k = 4 -> v4 [] k = 5 -> v5]
<1>3. Folded(c, style, spelled, v) = [k \in 0 .. n |-> g[k]]
  BY <1>1, <1>2 DEF Folded
<1> HIDE DEF Turn
<1>4. h = Body(h)
  <2>1. ASSUME NEW k \in 0 .. n PROVE h[k] = IF k = 0 THEN v ELSE Turn(h[k - 1], k)
    <3>1. k \in {0, 1, 2, 3, 4, 5}
      OBVIOUS
    <3>2. k # 0 => k - 1 \in 0 .. n
      OBVIOUS
    <3> QED
      BY <3>1, <3>2
  <2>2. h = [k \in 0 .. n |-> h[k]]
    OBVIOUS
  <2> HIDE DEF h
  <2> QED
    BY <2>1, <2>2
<1> HIDE DEF h
<1>5. g = Body(g)
  BY <1>4
<1> HIDE DEF g
<1>6. [k \in 0 .. n |-> g[k]] = g
  BY <1>5
<1>7. g[0] = v /\ \A k \in 1 .. n : g[k] = Turn(g[k - 1], k)
  <2>1. g[0] = v
    <3>1. Body(g)[0] = v
      OBVIOUS
    <3> HIDE DEF Body
    <3> QED
      BY <1>5, <3>1
  <2>2. ASSUME NEW k \in 1 .. n PROVE g[k] = Turn(g[k - 1], k)
    <3>1. Body(g)[k] = Turn(g[k - 1], k)
      OBVIOUS
    <3> HIDE DEF Body
    <3> QED
      BY <1>5, <3>1
  <2> QED
    BY <2>1, <2>2
<1> HIDE DEF Body
<1> QED
  BY <1>1, <1>2, <1>3, <1>6, <1>7 DEF Ascent, Turn

LEMMA AscentIsFolded ==
    ASSUME NEW c, c.mode \in ModeNames, NEW style, NEW spelled, NEW v, NEW t,
           Ascent(t, c, style, spelled, v)
    PROVE  t = Folded(c, style, spelled, v)
<1>1. PICK f : f = Folded(c, style, spelled, v) /\ Ascent(f, c, style, spelled, v)
  BY FoldedAscends
<1>2. PICK n \in Nat : n = Len(Layers(c.mode))
  BY LayersOf
<1>3. t[0] = f[0]
  BY <1>1 DEF Ascent
<1>4. ASSUME NEW k \in 1 .. n, t[k - 1] = f[k - 1] PROVE t[k] = f[k]
  <2>1. t[k] = Fold(Layers(c.mode)[k], c, style, spelled, t[k - 1])
    BY <1>2 DEF Ascent
  <2>2. f[k] = Fold(Layers(c.mode)[k], c, style, spelled, f[k - 1])
    BY <1>1, <1>2 DEF Ascent
  <2> QED
    BY <1>4, <2>1, <2>2
<1>5. \A k \in 0 .. n : t[k] = f[k]
  <2>1. n \in Nat /\ \A k \in 1 .. n : t[k - 1] = f[k - 1] => t[k] = f[k]
    BY <1>2, <1>4
  <2> QED
    BY ONLY <1>3, <2>1, SameRecursion
<1>6. t = [k \in 0 .. n |-> t[k]] /\ f = [k \in 0 .. n |-> f[k]]
  BY <1>1, <1>2 DEF Ascent
<1> QED
  BY <1>1, <1>5, <1>6

\* On the way up from a text every value is whole.
AllWhole(t, c, style, spelled) ==
    /\ \A k \in 0 .. Len(Layers(c.mode)) : Whole(t[k])
    /\ \A k \in 1 .. Len(Layers(c.mode)) :
          /\ Layers(c.mode)[k] \in LayerNames
          /\ t[k] = IF t[k - 1] = Nothing /\ Layers(c.mode)[k] # "p3" THEN Nothing
                    ELSE Coded(Layers(c.mode)[k], c, style, spelled, t[k - 1])

LEMMA WholeAscent ==
    ASSUME NEW c, c.mode \in ModeNames, c.bits \in Nat \ {0}, NEW style,
           NEW spelled \in {Usual, Longer}, NEW v, Whole(v), NEW t,
           Ascent(t, c, style, spelled, v)
    PROVE  AllWhole(t, c, style, spelled)
<1>1. PICK l : l = Layers(c.mode)
  OBVIOUS
<1>2. PICK n \in Nat : n = Len(l) /\ \A k \in 1 .. n : l[k] \in LayerNames
  BY <1>1, LayersOf
<1>3. t[0] = v /\ \A k \in 1 .. n : t[k] = Fold(l[k], c, style, spelled, t[k - 1])
  BY <1>1, <1>2 DEF Ascent
<1> DEFINE P == {k \in 0 .. n : Whole(t[k])}
<1>4. 0 \in P
  BY <1>3
<1>5. ASSUME NEW k \in 1 .. n, k - 1 \in P PROVE k \in P
  <2>1. Whole(t[k - 1]) /\ l[k] \in LayerNames /\ t[k] = Fold(l[k], c, style, spelled, t[k - 1])
    BY <1>2, <1>3, <1>5
  <2>2. Whole(t[k])
    BY <2>1, FoldOfWhole
  <2> QED
    BY <2>2
<1> HIDE DEF P
<1>6. 0 .. n \subseteq P
  BY <1>4, <1>5, EveryTurn
<1>7. ASSUME NEW k \in 1 .. n
      PROVE  t[k] = IF t[k - 1] = Nothing /\ l[k] # "p3" THEN Nothing
                    ELSE Coded(l[k], c, style, spelled, t[k - 1])
  <2>1. k - 1 \in 0 .. n
    OBVIOUS
  <2>2. Whole(t[k - 1])
    BY <1>6, <2>1 DEF P
  <2> QED
    BY <1>2, <1>3, <2>2, FoldOfWhole
<1> QED
  BY <1>1, <1>2, <1>6, <1>7 DEF P, AllWhole

-----------------------------------------------------------------------------
(* Taking a layer off, whatever wrote the payload.                         *)

\* A value met on the way down: one that was met on the way up, or the
\* unfolding of one.
Encountered(v, t, n) ==
    \/ v = Nothing
    \/ v.tag = "unfolded" /\ v.size \in Nat \ {0}
    \/ \E k \in 0 .. n : v = t[k]

Climbed(t, n) ==
    \E c, style, spelled, v :
        /\ c.mode \in ModeNames /\ c.bits \in Nat \ {0} /\ spelled \in {Usual, Longer}
        /\ v \in Texts /\ Ascent(t, c, style, spelled, v) /\ n = Len(Layers(c.mode))

LEMMA MetFacts ==
    ASSUME NEW t, NEW n, Climbed(t, n), NEW v, Encountered(v, t, n)
    PROVE  /\ v.size \in Nat /\ (v.size = 0 <=> v = Nothing)
           /\ v \notin {Usual, Longer}
<1>1. PICK c, style, spelled, s :
        /\ c.mode \in ModeNames /\ c.bits \in Nat \ {0} /\ spelled \in {Usual, Longer}
        /\ s \in Texts /\ Ascent(t, c, style, spelled, s) /\ n = Len(Layers(c.mode))
  BY DEF Climbed
<1>2. CASE v.tag = "unfolded" /\ v.size \in Nat \ {0}
  BY <1>2 DEF Nothing, Usual, Longer
<1>3. CASE \E k \in 0 .. n : v = t[k]
  <2>1. Whole(s)
    BY <1>1, TextIsWhole
  <2>2. \A k \in 0 .. n : Whole(t[k])
    <3>1. AllWhole(t, c, style, spelled)
      BY <1>1, <2>1, WholeAscent
    <3> QED
      BY <1>1, <3>1 DEF AllWhole
  <2>3. Whole(v)
    BY <1>3, <2>2
  <2> QED
    BY <2>3 DEF Whole, Usual, Longer
<1>4. CASE v = Nothing
  BY <1>4 DEF Nothing, Usual, Longer
<1> QED
  BY <1>2, <1>3, <1>4 DEF Encountered

LEMMA KeyTells ==
    ASSUME NEW a \in LayerNames, NEW b \in LayerNames, NEW c, NEW d, NEW st, NEW su,
           Key(a, c, st) = Key(b, d, su)
    PROVE  a = b /\ \A v : CodeSize(a, c, st, v) = CodeSize(b, d, su, v)
<1>1. a = b
  BY DEF Key
<1>2. Key(a, c, st).with = Key(b, d, su).with
  OBVIOUS
<1>3. a = "p1" => st = su
  BY <1>1, <1>2 DEF Key
<1>4. a = "pack" => c.bits = d.bits
  BY <1>1, <1>2 DEF Key
<1> QED
  BY <1>1, <1>3, <1>4 DEF CodeSize, FloorSymbols

\* What a layer takes off it can put on again.
PutOn(t, n, layer, c, style, spelled, code, size) ==
    /\ Encountered(Unfold(layer, c, style, code, size), t, n)
    /\ Unfold(layer, c, style, code, size).size = size
    /\ Fold(layer, c, style, spelled, Unfold(layer, c, style, code, size)) = code

LEMMA PutOnAgain ==
    ASSUME NEW t, NEW n, Climbed(t, n), NEW code, Encountered(code, t, n), NEW layer \in LayerNames,
           NEW c, NEW style, NEW spelled, NEW size \in Nat,
           size = 0 /\ layer # "p3" => code.size = 0,
           layer = "p3" =>
              spelled = IF size = 0 THEN code ELSE IF code.tag = "code" THEN code.spelling ELSE Usual
    PROVE  PutOn(t, n, layer, c, style, spelled, code, size)
<1> USE DEF PutOn
<1>0. PICK v : v = Unfold(layer, c, style, code, size)
  OBVIOUS
<1>1. code.size \in Nat /\ (code.size = 0 <=> code = Nothing) /\ code \notin {Usual, Longer}
  BY MetFacts
<1>2. CASE size = 0
  <2>1. v = Nothing /\ v.size = 0 /\ v.tag = "nothing"
    BY <1>0, <1>2 DEF Unfold, Nothing
  <2>0. Encountered(v, t, n)
    BY <2>1 DEF Encountered
  <2>2. CASE layer # "p3"
    <3>1. code = Nothing
      BY <1>1, <1>2, <2>2
    <3> QED
      BY <1>0, <1>2, <2>0, <2>1, <2>2, <3>1 DEF Fold
  <2>3. CASE layer = "p3"
    <3>1. spelled = code
      BY <1>2, <2>3
    <3> QED
      BY <1>0, <1>1, <1>2, <2>0, <2>1, <2>3, <3>1 DEF Fold
  <2> QED
    BY <2>2, <2>3
<1>3. CASE size > 0 /\ code.tag = "code" /\ code.key = Key(layer, c, style) /\ code.of.size = size
  <2>1. v = code.of
    BY <1>0, <1>3 DEF Unfold
  <2>2. PICK d, su, sq, s :
          /\ d.mode \in ModeNames /\ d.bits \in Nat \ {0} /\ sq \in {Usual, Longer}
          /\ s \in Texts /\ Ascent(t, d, su, sq, s) /\ n = Len(Layers(d.mode))
    BY DEF Climbed
  <2>3. PICK k \in 0 .. n : code = t[k]
    BY <1>3 DEF Encountered, Nothing
  <2>4. Whole(s) /\ s.tag # "code"
    BY <2>2, TextIsWhole DEF Texts, Plain, Nothing
  <2>5. t[0] = s /\ n \in Nat
    BY <2>2, LayersOf DEF Ascent
  <2>6. k \in 1 .. n /\ k - 1 \in 0 .. n
    BY <1>3, <2>3, <2>4, <2>5
  <2>7. PICK l : l = Layers(d.mode)[k]
    OBVIOUS
  <2>8. /\ Whole(t[k - 1]) /\ l \in LayerNames
        /\ t[k] = IF t[k - 1] = Nothing /\ l # "p3" THEN Nothing ELSE Coded(l, d, su, sq, t[k - 1])
    <3>1. /\ \A j \in 0 .. n : Whole(t[j])
          /\ \A j \in 1 .. n :
                /\ Layers(d.mode)[j] \in LayerNames
                /\ t[j] = IF t[j - 1] = Nothing /\ Layers(d.mode)[j] # "p3" THEN Nothing
                          ELSE Coded(Layers(d.mode)[j], d, su, sq, t[j - 1])
      <4>1. AllWhole(t, d, su, sq)
        BY <2>2, <2>4, WholeAscent
      <4> QED
        BY <2>2, <4>1 DEF AllWhole
    <3> QED
      BY <2>6, <2>7, <3>1
  <2>9. code = Coded(l, d, su, sq, t[k - 1])
    BY <1>3, <2>3, <2>8 DEF Nothing
  <2>10. v = t[k - 1] /\ v.size = size /\ v # Nothing /\ v.tag # "unfolded"
    BY <1>3, <2>1, <2>8, <2>9 DEF Coded, Whole
  <2>11. Key(layer, c, style) = Key(l, d, su)
    BY <1>3, <2>9, <2>10 DEF Coded
  <2>12. layer = l /\ CodeSize(layer, c, style, v) = CodeSize(l, d, su, v)
    BY <2>8, <2>11, KeyTells
  <2>13. layer = "p3" => spelled = sq
    BY <1>3, <2>9, <2>12 DEF Coded
  <2>14. Coded(layer, c, style, spelled, v) = code
    BY <2>9, <2>10, <2>11, <2>12, <2>13 DEF Coded
  <2>15. Fold(layer, c, style, spelled, v) = code
    BY <2>10, <2>14 DEF Fold, Coded
  <2>16. Encountered(v, t, n)
    BY <2>6, <2>10 DEF Encountered
  <2> QED
    BY <1>0, <2>10, <2>15, <2>16
<1>4. CASE ~(size = 0) /\ ~(code.tag = "code" /\ code.key = Key(layer, c, style) /\ code.of.size = size)
  <2>1. v = [tag |-> "unfolded", key |-> Key(layer, c, style), code |-> code,
             size |-> size, repeats |-> code.repeats]
    BY <1>0, <1>4 DEF Unfold
  <2>2. v.tag = "unfolded" /\ v.key = Key(layer, c, style) /\ v.code = code /\ v.size = size
    BY <2>1
  <2>3. Fold(layer, c, style, spelled, v) = code
    BY <2>2 DEF Fold, Nothing
  <2> QED
    BY <1>0, <1>4, <2>2, <2>3 DEF Encountered
<1> QED
  BY <1>2, <1>3, <1>4

-----------------------------------------------------------------------------
(* Archives.                                                               *)

\* A header with its payload, and nothing else.
IsArchive(a) ==
    /\ a = [mode |-> a.mode, bits |-> a.bits, lane |-> a.lane, p1 |-> a.p1, seed |-> a.seed,
            originalLen |-> a.originalLen, path1Len |-> a.path1Len,
            floorSymbols |-> a.floorSymbols, path3Symbols |-> a.path3Symbols,
            originalSha |-> a.originalSha, payloadSha |-> a.payloadSha, payload |-> a.payload]
    /\ a.mode \in ModeNames /\ a.bits \in Nat \ {0}
    /\ a.originalLen \in Nat /\ a.path1Len \in Nat /\ a.floorSymbols \in Nat
    /\ a.path3Symbols \in Nat

\* The payload is the top of a climb.
Topped(a) == \E t, n : Climbed(t, n) /\ a.payload = t[n] /\ n \in Nat

LEMMA SizesAfter ==
    ASSUME NEW c, c.mode \in ModeNames, NEW values
    PROVE  /\ SizeAfter(c, values, "p1") =
                 IF c.mode \in {"Path1Only", "P123"} THEN values[2].size ELSE 0
           /\ SizeAfter(c, values, "pack") =
                 IF c.mode = "Path1Only" THEN 0
                 ELSE IF c.mode = "P123" THEN values[3].size ELSE values[2].size
<1> DEFINE l == Layers(c.mode)
<1>0. ASSUME NEW layer, NEW k \in DOMAIN l, l[k] = layer,
             \A j \in DOMAIN l : l[j] = layer => j = k
      PROVE  SizeAfter(c, values, layer) = values[k].size
  <2>1. (CHOOSE j \in DOMAIN l : l[j] = layer) = k
    BY <1>0
  <2> HIDE DEF l
  <2> QED
    BY <1>0, <2>1 DEF SizeAfter, l
<1>1. CASE c.mode = "Path1Only"
  <2>1. l = <<"map", "p1">> /\ DOMAIN l = {1, 2}
    BY <1>1 DEF Layers
  <2>2. SizeAfter(c, values, "p1") = values[2].size
    <3> HIDE DEF l
    <3> QED
      BY <1>0, <2>1
  <2>3. SizeAfter(c, values, "pack") = 0
    <3> HIDE DEF l
    <3> QED
      BY <2>1 DEF SizeAfter, l
  <2> QED
    BY <1>1, <2>2, <2>3
<1>2. CASE c.mode = "Path2Only"
  <2>1. l = <<"map", "pack", "crt">> /\ DOMAIN l = {1, 2, 3}
    BY <1>2 DEF Layers
  <2>2. SizeAfter(c, values, "pack") = values[2].size
    <3> HIDE DEF l
    <3> QED
      BY <1>0, <2>1
  <2>3. SizeAfter(c, values, "p1") = 0
    <3> HIDE DEF l
    <3> QED
      BY <2>1 DEF SizeAfter, l
  <2> QED
    BY <1>2, <2>2, <2>3
<1>3. CASE c.mode = "Path3Only"
  <2>1. l = <<"map", "pack", "p3">> /\ DOMAIN l = {1, 2, 3}
    BY <1>3 DEF Layers
  <2>2. SizeAfter(c, values, "pack") = values[2].size
    <3> HIDE DEF l
    <3> QED
      BY <1>0, <2>1
  <2>3. SizeAfter(c, values, "p1") = 0
    <3> HIDE DEF l
    <3> QED
      BY <2>1 DEF SizeAfter, l
  <2> QED
    BY <1>3, <2>2, <2>3
<1>4. CASE c.mode = "P123"
  <2>1. l = <<"map", "p1", "pack", "crt", "p3">> /\ DOMAIN l = {1, 2, 3, 4, 5}
    BY <1>4 DEF Layers
  <2>2. SizeAfter(c, values, "p1") = values[2].size
    <3> HIDE DEF l
    <3> QED
      BY <1>0, <2>1
  <2>3. SizeAfter(c, values, "pack") = values[3].size
    <3> HIDE DEF l
    <3> QED
      BY <1>0, <2>1
  <2> QED
    BY <1>4, <2>2, <2>3
<1> QED
  BY <1>1, <1>2, <1>3, <1>4 DEF ModeNames

LEMMA EncodedIsArchive ==
    ASSUME NEW c, c.mode \in ModeNames, c.bits \in Nat \ {0}, NEW style,
           NEW spelled \in {Usual, Longer}, NEW v \in Texts
    PROVE  /\ IsArchive(Encoded(c, style, spelled, v)) /\ Topped(Encoded(c, style, spelled, v))
<1>1. PICK t : t = Folded(c, style, spelled, v)
  OBVIOUS
<1>2. PICK n \in 2 .. 5 : n = Len(Layers(c.mode))
  BY LayersOf
<1>3. Ascent(t, c, style, spelled, v) /\ Whole(v)
  BY <1>1, FoldedAscends, TextIsWhole
<1>4. Climbed(t, n)
  BY <1>2, <1>3 DEF Climbed
<1>5. \A k \in 0 .. n : Whole(t[k])
  BY <1>2, <1>3, WholeAscent DEF AllWhole
<1>6. PICK a : a = Encoded(c, style, spelled, v)
  OBVIOUS
<1>7. a = [mode |-> c.mode, bits |-> c.bits, lane |-> c.lane, p1 |-> c.p1, seed |-> c.seed,
        originalLen |-> v.size, path1Len |-> SizeAfter(c, t, "p1"),
        floorSymbols |-> SizeAfter(c, t, "pack"), path3Symbols |-> Path3Symbols(c, t),
        originalSha |-> Sha(v), payloadSha |-> Sha(t[n]), payload |-> t[n]]
  BY <1>1, <1>2, <1>6 DEF Encoded
<1>8. (t[2].size \in Nat /\ t[3].size \in Nat) \/ n = 2
  BY <1>5 DEF Whole
<1>9. t[2].size \in Nat /\ (c.mode # "Path1Only" => t[3].size \in Nat)
  <2>1. c.mode # "Path1Only" => n # 2
    BY <1>2 DEF Layers, ModeNames
  <2>2. 2 \in 0 .. n
    OBVIOUS
  <2> QED
    BY <1>5, <1>8, <2>1, <2>2 DEF Whole
<1>10. /\ SizeAfter(c, t, "p1") \in Nat /\ SizeAfter(c, t, "pack") \in Nat
  BY <1>9, SizesAfter
<1>11. Path3Symbols(c, t) \in Nat
  <2>1. PICK m \in Nat : m = SizeAfter(c, t, "pack")
    BY <1>10
  <2> QED
    BY <2>1 DEF Path3Symbols
<1>12. IsArchive(a)
  BY <1>3, <1>7, <1>10, <1>11 DEF IsArchive, Whole
<1>13. Topped(a)
  BY <1>4, <1>7 DEF Topped
<1> QED
  BY <1>6, <1>12, <1>13

LEMMA EditedIsArchive ==
    ASSUME NEW a, IsArchive(a), Topped(a), NEW b \in Edited(a)
    PROVE  IsArchive(b) /\ Topped(b)
<1>1. PipelineModes \subseteq ModeNames /\ FloorBits \subseteq Nat \ {0}
  BY ArchiveAssumption DEF ModeNames
<1>2. CASE \E m \in PipelineModes : b = [a EXCEPT !.mode = m]
  BY <1>1, <1>2 DEF IsArchive, Topped
<1>3. CASE \E w \in FloorBits : b = [a EXCEPT !.bits = w]
  BY <1>1, <1>3 DEF IsArchive, Topped
<1>4. CASE \E l \in Lanes : b = [a EXCEPT !.lane = l]
  BY <1>4 DEF IsArchive, Topped
<1>5. CASE \E p \in P1Modes : b = [a EXCEPT !.p1 = p]
  BY <1>5 DEF IsArchive, Topped
<1>6. CASE \E s \in Seeds : b = [a EXCEPT !.seed = s]
  BY <1>6 DEF IsArchive, Topped
<1>7. CASE b = [a EXCEPT !.originalLen = @ + 1]
  BY <1>7 DEF IsArchive, Topped
<1>8. CASE b = [a EXCEPT !.path1Len = @ + 1]
  BY <1>8 DEF IsArchive, Topped
<1>9. CASE b = [a EXCEPT !.floorSymbols = @ + 1]
  BY <1>9 DEF IsArchive, Topped
<1>10. CASE b = [a EXCEPT !.path3Symbols = @ + 1]
  BY <1>10 DEF IsArchive, Topped
<1>11. CASE b = [a EXCEPT !.originalSha = Sha(a.payload)]
  BY <1>11 DEF IsArchive, Topped
<1>12. CASE \E p \in {Encoded(a, "literals", Usual, Plain(s)).payload : s \in Originals} :
              b = [a EXCEPT !.payload = p, !.payloadSha = Sha(p)]
  <2>1. PICK s \in Originals :
          b = [a EXCEPT !.payload = Encoded(a, "literals", Usual, Plain(s)).payload,
                        !.payloadSha = Sha(Encoded(a, "literals", Usual, Plain(s)).payload)]
    BY <1>12
  <2>2. PICK e : e = Encoded(a, "literals", Usual, Plain(s))
    OBVIOUS
  <2>3. Topped(e)
    <3>1. Plain(s) \in Texts /\ a.mode \in ModeNames /\ a.bits \in Nat \ {0}
      BY DEF Texts, IsArchive
    <3> QED
      BY <2>2, <3>1, EncodedIsArchive
  <2>4. b = [mode |-> a.mode, bits |-> a.bits, lane |-> a.lane, p1 |-> a.p1, seed |-> a.seed,
            originalLen |-> a.originalLen, path1Len |-> a.path1Len,
            floorSymbols |-> a.floorSymbols, path3Symbols |-> a.path3Symbols,
            originalSha |-> a.originalSha, payloadSha |-> Sha(e.payload), payload |-> e.payload]
    <3>1. PICK p : p = e.payload
      OBVIOUS
    <3>2. b = [[a EXCEPT !.payload = p] EXCEPT !.payloadSha = Sha(p)]
      BY <2>1, <2>2, <3>1
    <3>3. [a EXCEPT !.payload = p] =
            [mode |-> a.mode, bits |-> a.bits, lane |-> a.lane, p1 |-> a.p1, seed |-> a.seed,
            originalLen |-> a.originalLen, path1Len |-> a.path1Len,
            floorSymbols |-> a.floorSymbols, path3Symbols |-> a.path3Symbols,
            originalSha |-> a.originalSha, payloadSha |-> a.payloadSha, payload |-> p]
      BY DEF IsArchive
    <3> QED
      BY <3>1, <3>2, <3>3
  <2>5. IsArchive(b)
    BY <2>4 DEF IsArchive
  <2> QED
    BY <2>3, <2>4, <2>5 DEF Topped
<1> QED
  BY <1>2, <1>3, <1>4, <1>5, <1>6, <1>7, <1>8, <1>9, <1>10, <1>11, <1>12 DEF Edited

-----------------------------------------------------------------------------
(* The invariant of the archive.                                           *)

\* From the payload down to the value at hand each layer folds what is below.
Descent(w) ==
    /\ Len(layers) <= Len(Layers(archive.mode))
    /\ layers = SubSeq(Layers(archive.mode), 1, Len(layers))
    /\ w = [k \in 0 .. Len(Layers(archive.mode)) |-> w[k]]
    /\ w[Len(Layers(archive.mode))] = archive.payload /\ w[Len(layers)] = value
    /\ \A k \in Len(layers) + 1 .. Len(Layers(archive.mode)) :
          /\ w[k] = Fold(Layers(archive.mode)[k], archive, tokenStyle, spelling, w[k - 1])
          /\ w[k - 1].size = SizeBefore(archive, Layers(archive.mode)[k])

DecodingInv ==
    /\ IsArchive(archive) /\ Parses(archive) /\ HeaderInvariants(archive)
    /\ \E t, n, w : Climbed(t, n) /\ Encountered(value, t, n) /\ Descent(w)

ReadInv ==
    layers = <<>> /\ value.size = archive.originalLen /\ Sha(value) = archive.originalSha

HonestArchive == Encoded(config, Style(config, input), Usual, input)
HonestValues == Folded(config, Style(config, input), Usual, input)

HandedInv ==
    ~foreign /\ stage \in {"decode", "done", "rejected"} =>
        /\ stage # "rejected" /\ Encodable(config, input) /\ archive = HonestArchive
        /\ value = HonestValues[Len(layers)]

ArchiveInv ==
    /\ config.mode \in ModeNames /\ config.bits \in Nat \ {0} /\ input \in Texts
    /\ stage \in {"decode", "done"} => DecodingInv
    /\ stage = "done" => ReadInv
    /\ HandedInv

LEMMA InitArchiveInv == ArchiveInit => ArchiveInv
<1> SUFFICES ASSUME ArchiveInit PROVE ArchiveInv
  OBVIOUS
<1>1. config.mode \in PipelineModes /\ config.bits \in FloorBits /\ input \in Texts /\ stage = "encode"
  BY DEF ArchiveInit, Texts
<1>2. config.mode \in ModeNames /\ config.bits \in Nat \ {0}
  BY <1>1, ArchiveAssumption DEF ModeNames
<1> QED
  BY <1>1, <1>2 DEF ArchiveInv, HandedInv

LEMMA HandedOver ==
    ASSUME NEW a, IsArchive(a), Topped(a), HandArchive(a), stage' = "decode"
    PROVE  DecodingInv'
<1>1. /\ archive' = a /\ value' = a.payload /\ layers' = Layers(a.mode)
      /\ Parses(a) /\ HeaderInvariants(a)
  BY DEF HandArchive
<1>2. PICK t, n : Climbed(t, n) /\ a.payload = t[n] /\ n \in Nat
  BY DEF Topped
<1>3. Encountered(a.payload, t, n)
  <2>1. n \in 0 .. n
    BY <1>2
  <2> QED
    BY <1>2, <2>1 DEF Encountered
<1>4. PICK l \in Seq(LayerNames) : l = Layers(a.mode) /\ Len(l) \in Nat
  BY LayersOf DEF IsArchive
<1> DEFINE w == [k \in 0 .. Len(l) |-> a.payload]
<1>5. SubSeq(l, 1, Len(l)) = l /\ w[Len(l)] = a.payload
  BY <1>4
<1>6. w = [k \in 0 .. Len(l) |-> w[k]] /\ Len(l) + 1 .. Len(l) = {} /\ Len(l) <= Len(l)
  BY <1>4
<1> HIDE DEF w
<1>7. Descent(w)'
  BY <1>1, <1>4, <1>5, <1>6 DEF Descent
<1> QED
  BY <1>1, <1>2, <1>3, <1>7 DEF DecodingInv, Climbed, Encountered

-----------------------------------------------------------------------------
(* What encode_p123 hands out.                                             *)

\* The code u of v is taken off again, and says the size of v.
Comes(layer, a, st, u, v) ==
    /\ Unfold(layer, a, StyleOf(u), u, v.size) = v
    /\ layer \in {"map", "crt"} => u.size = v.size
    /\ layer = "pack" => u.size = Ceiling(8 * v.size, a.bits)
    /\ layer = "p1" => /\ (u = Nothing) = (v.size = 0)
                       /\ StyleOf(u) = IF v.size = 0 THEN "literals" ELSE st

LEMMA OneDown ==
    ASSUME NEW v, Whole(v), NEW layer \in LayerNames, NEW c, c.bits \in Nat \ {0}, NEW st,
           NEW a, a.bits = c.bits, a.seed = c.seed, a.lane = c.lane, NEW u,
           u = IF v = Nothing /\ layer # "p3" THEN Nothing ELSE Coded(layer, c, st, Usual, v)
    PROVE  Comes(layer, a, st, u, v)
<1>1. v.size \in Nat /\ (v.size = 0 <=> v = Nothing)
  BY DEF Whole
<1>2. CASE v = Nothing
  <2>1. Unfold(layer, a, StyleOf(u), u, v.size) = v
    BY <1>1, <1>2 DEF Unfold
  <2>2. layer # "p3" => u = Nothing /\ u.size = 0
    BY <1>2 DEF Nothing
  <2>3. layer = "pack" => u.size = Ceiling(8 * v.size, c.bits)
    BY <1>1, <1>2, <2>2, CeilingFacts
  <2>4. layer = "p1" => StyleOf(u) = "literals"
    BY <2>2 DEF StyleOf, Nothing
  <2> QED
    BY <1>1, <1>2, <2>1, <2>2, <2>3, <2>4 DEF Comes
<1>3. CASE v # Nothing
  <2>1. u = Coded(layer, c, st, Usual, v)
    BY <1>3
  <2>2. /\ u.tag = "code" /\ u.key = Key(layer, c, st) /\ u.of = v
        /\ u.size = CodeSize(layer, c, st, v) /\ u # Nothing
    BY <1>3, <2>1 DEF Coded, Nothing
  <2>3. layer = "p1" => StyleOf(u) = st
    <3> SUFFICES ASSUME layer = "p1" PROVE StyleOf(u) = st
      OBVIOUS
    <3>1. u.key.layer = "p1" /\ u.key.with = <<st>>
      BY <2>2 DEF Key
    <3> QED
      BY <2>2, <3>1 DEF StyleOf
  <2>4. Key(layer, a, StyleOf(u)) = Key(layer, c, st)
    BY <2>3 DEF Key, LayerNames
  <2>5. Unfold(layer, a, StyleOf(u), u, v.size) = v
    BY <1>1, <1>3, <2>2, <2>4 DEF Unfold
  <2>6. layer \in {"map", "crt"} => u.size = v.size
    BY <2>2 DEF CodeSize
  <2>7. layer = "pack" => u.size = Ceiling(8 * v.size, c.bits)
    BY <2>2 DEF CodeSize, FloorSymbols
  <2> QED
    BY <1>1, <1>3, <2>2, <2>3, <2>5, <2>6, <2>7 DEF Comes
<1> QED
  BY <1>2, <1>3

LEMMA HonestFacts ==
    ASSUME ArchiveInv
    PROVE  /\ Ascent(HonestValues, config, Style(config, input), Usual, input)
           /\ AllWhole(HonestValues, config, Style(config, input), Usual)
           /\ HonestValues[0] = input /\ Whole(input) /\ input.repeats \in BOOLEAN
           /\ IsArchive(HonestArchive) /\ Topped(HonestArchive)
<1>1. config.mode \in ModeNames /\ config.bits \in Nat \ {0} /\ input \in Texts
  BY DEF ArchiveInv
<1>2. Ascent(HonestValues, config, Style(config, input), Usual, input)
  BY <1>1, FoldedAscends DEF HonestValues
<1>3. Whole(input) /\ input.repeats \in BOOLEAN
  BY <1>1, TextIsWhole
<1>4. AllWhole(HonestValues, config, Style(config, input), Usual)
  BY <1>1, <1>2, <1>3, WholeAscent
<1>5. IsArchive(HonestArchive) /\ Topped(HonestArchive)
  BY <1>1, EncodedIsArchive DEF HonestArchive
<1> QED
  BY <1>2, <1>3, <1>4, <1>5 DEF Ascent

\* The fields of the header encode_p123 writes.
LEMMA HonestHeader ==
    ASSUME ArchiveInv
    PROVE  /\ HonestArchive.mode = config.mode /\ HonestArchive.bits = config.bits
           /\ HonestArchive.seed = config.seed /\ HonestArchive.lane = config.lane
           /\ HonestArchive.p1 = config.p1
           /\ HonestArchive.originalLen = input.size /\ HonestArchive.originalSha = Sha(input)
           /\ HonestArchive.path1Len = SizeAfter(config, HonestValues, "p1")
           /\ HonestArchive.floorSymbols = SizeAfter(config, HonestValues, "pack")
           /\ HonestArchive.path3Symbols = Path3Symbols(config, HonestValues)
           /\ HonestArchive.payload = HonestValues[Len(Layers(config.mode))]
           /\ HonestArchive.payloadSha = Sha(HonestArchive.payload)
<1>1. PICK t : t = HonestValues
  OBVIOUS
<1>2. HonestArchive =
        [mode |-> config.mode, bits |-> config.bits, lane |-> config.lane, p1 |-> config.p1,
         seed |-> config.seed, originalLen |-> input.size,
         path1Len |-> SizeAfter(config, t, "p1"), floorSymbols |-> SizeAfter(config, t, "pack"),
         path3Symbols |-> Path3Symbols(config, t), originalSha |-> Sha(input),
         payloadSha |-> Sha(t[Len(Layers(config.mode))]), payload |-> t[Len(Layers(config.mode))]]
  BY <1>1 DEF HonestArchive, HonestValues, Encoded
<1> HIDE DEF HonestArchive
<1> QED
  BY <1>1, <1>2

LEMMA HonestParses ==
    ASSUME ArchiveInv, Encodable(config, input)
    PROVE  Parses(HonestArchive) /\ HeaderInvariants(HonestArchive)
<1>1. PICK a : a = HonestArchive
  OBVIOUS
<1>2. PICK t : t = HonestValues
  OBVIOUS
<1>3. /\ a.mode = config.mode /\ a.bits = config.bits /\ a.p1 = config.p1
      /\ a.path1Len = SizeAfter(config, t, "p1") /\ a.floorSymbols = SizeAfter(config, t, "pack")
      /\ a.path3Symbols = Path3Symbols(config, t)
      /\ a.payload = t[Len(Layers(config.mode))] /\ a.payloadSha = Sha(a.payload)
  BY <1>1, <1>2, HonestHeader
<1>4. Parses(a)
  BY <1>3 DEF Parses, Encodable
<1>5. config.mode \in {"Path2Only", "Path3Only"} => config.p1 = "Auto"
  BY DEF Encodable
<1>6. config.mode \in ModeNames
  BY DEF ArchiveInv
<1>7. config.mode = "Path1Only" => Len(Layers(config.mode)) = 2
  BY DEF Layers
<1>8. HeaderInvariants(a)
  <2>1. /\ SizeAfter(config, t, "p1") =
              IF config.mode \in {"Path1Only", "P123"} THEN t[2].size ELSE 0
        /\ SizeAfter(config, t, "pack") =
              IF config.mode = "Path1Only" THEN 0
              ELSE IF config.mode = "P123" THEN t[3].size ELSE t[2].size
    BY <1>6, SizesAfter
  <2>2. CASE config.mode = "Path1Only"
    BY <1>3, <1>7, <2>1, <2>2 DEF HeaderInvariants, Path3Symbols
  <2>3. CASE config.mode = "Path2Only"
    BY <1>3, <1>5, <2>1, <2>3 DEF HeaderInvariants, Path3Symbols
  <2>4. CASE config.mode = "Path3Only"
    BY <1>3, <1>5, <2>1, <2>4 DEF HeaderInvariants, Path3Symbols
  <2>5. CASE config.mode = "P123"
    BY <1>3, <2>1, <2>5 DEF HeaderInvariants, Path3Symbols
  <2> QED
    BY <1>6, <2>2, <2>3, <2>4, <2>5 DEF ModeNames
<1> QED
  BY <1>1, <1>4, <1>8

LEMMA HonestDown ==
    ASSUME ArchiveInv, Encodable(config, input), NEW h \in 1 .. Len(Layers(config.mode)),
           NEW layer, layer = Layers(config.mode)[h]
    PROVE  /\ Demands(HonestArchive, layer, HonestValues[h], StyleOf(HonestValues[h]))
           /\ Unfold(layer, HonestArchive, StyleOf(HonestValues[h]), HonestValues[h],
                     SizeBefore(HonestArchive, layer)) = HonestValues[h - 1]
<1>1. PICK a : a = HonestArchive
  OBVIOUS
<1>2. PICK t : t = HonestValues
  OBVIOUS
<1>3. PICK st : st = Style(config, input)
  OBVIOUS
<1>4. PICK l : l = Layers(config.mode)
  OBVIOUS
<1>5. PICK n \in 2 .. 5 : n = Len(l)
  BY <1>4, LayersOf DEF ArchiveInv
<1>6. /\ a.mode = config.mode /\ a.bits = config.bits /\ a.p1 = config.p1
      /\ a.seed = config.seed /\ a.lane = config.lane /\ a.originalLen = input.size
      /\ a.path1Len = SizeAfter(config, t, "p1") /\ a.floorSymbols = SizeAfter(config, t, "pack")
  BY <1>1, <1>2, HonestHeader
<1>7. config.mode \in ModeNames /\ config.bits \in Nat \ {0}
  BY DEF ArchiveInv
<1>8. /\ SizeAfter(config, t, "p1") = IF config.mode \in {"Path1Only", "P123"} THEN t[2].size ELSE 0
      /\ SizeAfter(config, t, "pack") =
            IF config.mode = "Path1Only" THEN 0
            ELSE IF config.mode = "P123" THEN t[3].size ELSE t[2].size
  BY <1>7, SizesAfter
<1>9. /\ \A k \in 0 .. n : Whole(t[k])
      /\ \A k \in 1 .. n :
            /\ l[k] \in LayerNames
            /\ t[k] = IF t[k - 1] = Nothing /\ l[k] # "p3" THEN Nothing
                      ELSE Coded(l[k], config, st, Usual, t[k - 1])
      /\ t[0] = input
  BY <1>2, <1>3, <1>4, <1>5, HonestFacts DEF AllWhole
<1>10. ASSUME NEW k \in 1 .. n
       PROVE  /\ Unfold(l[k], a, StyleOf(t[k]), t[k], t[k - 1].size) = t[k - 1]
              /\ l[k] \in {"map", "crt"} => t[k].size = t[k - 1].size
              /\ l[k] = "pack" => t[k].size = Ceiling(8 * t[k - 1].size, config.bits)
              /\ l[k] = "p1" =>
                    /\ (t[k] = Nothing) = (t[k - 1].size = 0)
                    /\ StyleOf(t[k]) = IF t[k - 1].size = 0 THEN "literals" ELSE st
  <2>1. PICK v : v = t[k - 1] /\ Whole(v)
    <3>1. k - 1 \in 0 .. n
      OBVIOUS
    <3> QED
      BY <1>9, <3>1
  <2>2. PICK u : u = t[k]
    OBVIOUS
  <2>3. u = IF v = Nothing /\ l[k] # "p3" THEN Nothing ELSE Coded(l[k], config, st, Usual, v)
    BY <1>9, <2>1, <2>2
  <2>4. l[k] \in LayerNames
    BY <1>9
  <2> QED
    <3>1. Comes(l[k], a, st, u, v)
      BY <1>6, <1>7, <2>1, <2>3, <2>4, OneDown
    <3> QED
      BY <1>6, <2>1, <2>2, <3>1 DEF Comes
<1>11. h \in 1 .. n /\ layer = l[h] /\ l[1] = "map"
  BY <1>4, <1>5, <1>7 DEF Layers, ModeNames
<1>12. t[1].size = input.size
  <2>1. 1 \in 1 .. n /\ 1 - 1 = 0
    OBVIOUS
  <2> QED
    BY <1>9, <1>10, <1>11, <2>1
<1>13. SizeBefore(a, layer) = t[h - 1].size
  <2>1. CASE config.mode = "Path1Only"
    <3>1. l = <<"map", "p1">>
      BY <1>4, <2>1 DEF Layers
    <3>2. h = 1 \/ h = 2
      BY <1>5, <1>11, <3>1
    <3> QED
      BY <1>6, <1>9, <1>11, <1>12, <3>1, <3>2 DEF SizeBefore
  <2>2. CASE config.mode = "Path2Only"
    <3>1. l = <<"map", "pack", "crt">>
      BY <1>4, <2>2 DEF Layers
    <3>2. h = 1 \/ h = 2 \/ h = 3
      BY <1>5, <1>11, <3>1
    <3> QED
      BY <1>6, <1>8, <1>9, <1>11, <1>12, <2>2, <3>1, <3>2 DEF SizeBefore
  <2>3. CASE config.mode = "Path3Only"
    <3>1. l = <<"map", "pack", "p3">>
      BY <1>4, <2>3 DEF Layers
    <3>2. h = 1 \/ h = 2 \/ h = 3
      BY <1>5, <1>11, <3>1
    <3> QED
      BY <1>6, <1>8, <1>9, <1>11, <1>12, <2>3, <3>1, <3>2 DEF SizeBefore
  <2>4. CASE config.mode = "P123"
    <3>1. l = <<"map", "p1", "pack", "crt", "p3">>
      BY <1>4, <2>4 DEF Layers
    <3>2. h = 1 \/ h = 2 \/ h = 3 \/ h = 4 \/ h = 5
      BY <1>5, <1>11, <3>1
    <3>3. t[4].size = t[3].size
      <4>1. 4 \in 1 .. n /\ l[4] = "crt" /\ 4 - 1 = 3
        BY <1>5, <3>1
      <4> QED
        BY <1>10, <4>1
    <3> QED
      BY <1>6, <1>8, <1>9, <1>11, <1>12, <2>4, <3>1, <3>2, <3>3 DEF SizeBefore
  <2> QED
    BY <1>7, <2>1, <2>2, <2>3, <2>4 DEF ModeNames
<1>14. layer = "crt" => t[h].size = a.floorSymbols
  <2>1. layer = "crt" => SizeBefore(a, layer) = a.floorSymbols
    BY DEF SizeBefore
  <2> QED
    BY <1>10, <1>11, <1>13, <2>1
<1>15. layer = "pack" => t[h].size = Ceiling(8 * SizeBefore(a, layer), a.bits)
  BY <1>6, <1>10, <1>11, <1>13
<1>16. ASSUME layer = "p1"
       PROVE  /\ (t[h] = Nothing) = (a.originalLen = 0)
              /\ a.p1 = "LiteralOnly" => StyleOf(t[h]) = "literals"
              /\ a.p1 = "RequireMatch" => StyleOf(t[h]) # "literals"
  <2>1. SizeBefore(a, layer) = a.originalLen
    BY <1>16 DEF SizeBefore
  <2>2. t[h - 1].size = input.size /\ a.originalLen = input.size
    BY <1>6, <1>13, <2>1
  <2>3. /\ (t[h] = Nothing) = (a.originalLen = 0)
        /\ StyleOf(t[h]) = IF input.size = 0 THEN "literals" ELSE st
    BY <1>10, <1>11, <1>16, <2>2
  <2>4. a.p1 = "LiteralOnly" => st = "literals"
    BY <1>3, <1>6 DEF Style
  <2>5. a.p1 = "RequireMatch" => st # "literals" /\ input.size # 0
    <3> SUFFICES ASSUME config.p1 = "RequireMatch" PROVE st # "literals" /\ input.size # 0
      BY <1>6
    <3>1. input.repeats /\ Whole(input)
      BY HonestFacts DEF Encodable
    <3>2. input # Nothing
      BY <3>1 DEF Nothing
    <3>3. st = "greedy"
      BY <1>3, <3>1 DEF Style
    <3> QED
      BY <3>1, <3>2, <3>3 DEF Whole
  <2> QED
    BY <2>3, <2>4, <2>5
<1>17. Demands(a, layer, t[h], StyleOf(t[h]))
  BY <1>14, <1>15, <1>16 DEF Demands
<1> QED
  BY <1>1, <1>2, <1>10, <1>11, <1>13, <1>17

-----------------------------------------------------------------------------
(* The steps of the archive.                                               *)

LEMMA EncodeKeeps == ArchiveInv /\ Encode => ArchiveInv'
<1> SUFFICES ASSUME ArchiveInv, Encode PROVE ArchiveInv'
  OBVIOUS
<1>1. /\ Encodable(config, input) /\ HandArchive(HonestArchive)
      /\ UNCHANGED <<config, input>> /\ foreign' = FALSE
  BY DEF Encode, HonestArchive, HandArchive
<1>2. IsArchive(HonestArchive) /\ Topped(HonestArchive)
  BY HonestFacts
<1>3. Parses(HonestArchive) /\ HeaderInvariants(HonestArchive)
  BY <1>1, HonestParses
<1>4. /\ stage' = "decode" /\ archive' = HonestArchive /\ value' = HonestArchive.payload
      /\ layers' = Layers(HonestArchive.mode)
  BY <1>1, <1>3 DEF HandArchive
<1>5. DecodingInv'
  BY <1>1, <1>2, <1>4, HandedOver
<1>6. HonestArchive' = HonestArchive /\ HonestValues' = HonestValues
  BY <1>1 DEF HonestArchive, HonestValues
<1>7. HonestArchive.payload = HonestValues[Len(Layers(HonestArchive.mode))]
  BY HonestHeader
<1>8. HandedInv'
  <2>1. Encodable(config, input)'
    BY <1>1
  <2> QED
    BY <1>4, <1>6, <1>7, <2>1 DEF HandedInv
<1> QED
  BY <1>1, <1>4, <1>5, <1>8 DEF ArchiveInv

LEMMA RefuseKeeps == ArchiveInv /\ Refuse => ArchiveInv'
<1> SUFFICES ASSUME ArchiveInv, Refuse PROVE ArchiveInv'
  OBVIOUS
<1> QED
  BY DEF ArchiveInv, Refuse, HandedInv

LEMMA EncodeForeignKeeps == ArchiveInv /\ EncodeForeign => ArchiveInv'
<1> SUFFICES ASSUME ArchiveInv, EncodeForeign PROVE ArchiveInv'
  OBVIOUS
<1>1. PICK style \in {"literals", "greedy", "other"}, spelled \in {Usual, Longer} :
        \E a \in Edited(Encoded(config, style, spelled, input)) :
           HandArchive(a) \/ \E b \in Edited(a) : HandArchive(b)
  BY DEF EncodeForeign
<1>2. PICK e : e = Encoded(config, style, spelled, input)
  OBVIOUS
<1>3. IsArchive(e) /\ Topped(e)
  BY <1>1, <1>2, EncodedIsArchive DEF ArchiveInv
<1>4. PICK a : IsArchive(a) /\ Topped(a) /\ HandArchive(a)
  <2>1. PICK d \in Edited(e) : HandArchive(d) \/ \E b \in Edited(d) : HandArchive(b)
    BY <1>1, <1>2
  <2>2. IsArchive(d) /\ Topped(d)
    BY <1>3, <2>1, EditedIsArchive
  <2>3. CASE HandArchive(d)
    BY <2>2, <2>3
  <2>4. CASE \E b \in Edited(d) : HandArchive(b)
    <3>1. PICK b \in Edited(d) : HandArchive(b)
      BY <2>4
    <3>2. IsArchive(b) /\ Topped(b)
      BY <2>2, <3>1, EditedIsArchive
    <3> QED
      BY <3>1, <3>2
  <2> QED
    BY <2>1, <2>3, <2>4
<1>5. stage' \in {"decode", "rejected"} /\ foreign' = TRUE /\ UNCHANGED <<config, input>>
  BY <1>4 DEF EncodeForeign, HandArchive
<1>6. stage' = "decode" => DecodingInv'
  BY <1>4, HandedOver
<1> QED
  BY <1>5, <1>6 DEF ArchiveInv, HandedInv

LEMMA LayerPlaces ==
    ASSUME NEW m \in ModeNames, NEW h \in 1 .. Len(Layers(m))
    PROVE  /\ Layers(m)[h] \in LayerNames
           /\ Layers(m)[h] = "p3" => h = Len(Layers(m))
           /\ Layers(m)[h] = "map" => h = 1
           /\ \A k \in 1 .. Len(Layers(m)) : Layers(m)[h] = "p1" /\ k # h => Layers(m)[k] # "p1"
           /\ Layers(m)[2] = "p1" \/ (Layers(m)[2] = "pack" /\ m # "P123")
<1>1. CASE m = "Path1Only"
  BY <1>1 DEF Layers, LayerNames
<1>2. CASE m = "Path2Only"
  BY <1>2 DEF Layers, LayerNames
<1>3. CASE m = "Path3Only"
  BY <1>3 DEF Layers, LayerNames
<1>4. CASE m = "P123"
  BY <1>4 DEF Layers, LayerNames
<1> QED
  BY <1>1, <1>2, <1>3, <1>4 DEF ModeNames

\* The spelling after a layer is taken off.
SpellingMet(layer) ==
    CASE layer # "p3" -> spelling
      [] layer = "p3" /\ archive.floorSymbols = 0 -> value
      [] OTHER -> IF value.tag = "code" THEN value.spelling ELSE Usual

\* What is below a layer has the size the header says, and its fold is the value.
Remade(layer, style, spelled, below) ==
    /\ layer \in LayerNames /\ below.size = SizeBefore(archive, layer)
    /\ Fold(layer, archive, style, spelled, below) = value
    /\ \E t, n : Climbed(t, n) /\ Encountered(below, t, n)

\* A layer taken off whose demands are met is put on again by its fold.
LEMMA StepDown ==
    ASSUME DecodingInv, NEW h \in 1 .. Len(Layers(archive.mode)), h = Len(layers),
           NEW layer, layer = Layers(archive.mode)[h], NEW style,
           Demands(archive, layer, value, style),
           NEW below, below = Unfold(layer, archive, style, value, SizeBefore(archive, layer)),
           NEW spelled, spelled = SpellingMet(layer)
    PROVE  Remade(layer, style, spelled, below)
<1>1. PICK t, n, w : Climbed(t, n) /\ Encountered(value, t, n) /\ Descent(w)
  BY DEF DecodingInv
<1>2. IsArchive(archive) /\ archive.mode \in ModeNames
  BY DEF DecodingInv, IsArchive
<1>3. PICK l : l = Layers(archive.mode)
  OBVIOUS
<1>4. PICK z \in 2 .. 5 : z = Len(l)
  BY <1>2, <1>3, LayersOf
<1>5. /\ layer \in LayerNames /\ (layer = "map" => h = 1)
      /\ l[2] = "p1" \/ (l[2] = "pack" /\ archive.mode # "P123")
  BY <1>2, <1>3, LayerPlaces
<1>6. PICK size \in Nat : size = SizeBefore(archive, layer)
  BY <1>2 DEF SizeBefore, IsArchive
<1>7. value.size \in Nat /\ (value = Nothing => value.size = 0)
  BY <1>1, MetFacts
<1>8. ASSUME size = 0, layer # "p3" PROVE value.size = 0
  <2>1. CASE layer = "crt"
    BY <1>6, <1>8, <2>1 DEF Demands, SizeBefore
  <2>2. CASE layer = "pack"
    <3>1. value.size = Ceiling(8 * size, archive.bits) /\ archive.bits \in Nat \ {0}
      BY <1>2, <1>6, <2>2 DEF Demands, IsArchive
    <3> QED
      BY <1>8, <3>1, CeilingFacts
  <2>3. CASE layer = "p1"
    <3>1. archive.originalLen = 0
      BY <1>6, <1>8, <2>3 DEF SizeBefore
    <3>2. value = Nothing
      BY <2>3, <3>1 DEF Demands
    <3> QED
      BY <1>7, <3>2
  <2>4. CASE layer = "map"
    <3>1. h = 1 /\ archive.originalLen = 0
      BY <1>5, <1>6, <1>8, <2>4 DEF SizeBefore
    <3>2. w[1] = value /\ w[2 - 1].size = SizeBefore(archive, l[2])
      <4>1. 2 \in Len(layers) + 1 .. Len(l)
        BY <1>4, <3>1
      <4> QED
        BY <1>1, <1>3, <3>1, <4>1 DEF Descent
    <3>3. SizeBefore(archive, l[2]) = archive.originalLen
      BY <1>5 DEF SizeBefore
    <3> QED
      BY <3>1, <3>2, <3>3
  <2> QED
    BY <1>5, <1>8, <2>1, <2>2, <2>3, <2>4 DEF LayerNames
<1>9. layer = "p3" =>
         spelled = IF size = 0 THEN value ELSE IF value.tag = "code" THEN value.spelling ELSE Usual
  BY <1>6 DEF SizeBefore, SpellingMet
<1>10. /\ Encountered(below, t, n) /\ below.size = size
       /\ Fold(layer, archive, style, spelled, below) = value
  <2>1. Climbed(t, n) /\ Encountered(value, t, n)
    BY <1>1
  <2>2. size = 0 /\ layer # "p3" => value.size = 0
    BY <1>8
  <2>3. PutOn(t, n, layer, archive, style, spelled, value, size)
    BY <1>5, <1>9, <2>1, <2>2, PutOnAgain
  <2> QED
    BY <1>6, <2>3 DEF PutOn
<1> QED
  BY <1>1, <1>5, <1>6, <1>10 DEF Remade

\* Nothing of the descent depends on the configuration, or the stage.
LEMMA DecodingStays ==
    ASSUME DecodingInv, UNCHANGED <<archive, value, layers, tokenStyle, spelling>>
    PROVE  DecodingInv'
<1>1. PICK t, n, w : Climbed(t, n) /\ Encountered(value, t, n) /\ Descent(w)
  BY DEF DecodingInv
<1>2. Descent(w)'
  BY <1>1 DEF Descent
<1>3. Encountered(value', t, n)
  <2>1. value' = value
    OBVIOUS
  <2> QED
    BY <1>1, <2>1
<1>4. (IsArchive(archive) /\ Parses(archive) /\ HeaderInvariants(archive))'
  <2>1. archive' = archive
    OBVIOUS
  <2>2. IsArchive(archive) /\ Parses(archive) /\ HeaderInvariants(archive)
    BY DEF DecodingInv
  <2> QED
    BY <2>1, <2>2
<1> QED
  BY <1>1, <1>2, <1>3, <1>4 DEF DecodingInv

\* The layers left are those of the mode, up to the one to take off next.
LEMMA LayerAtHand ==
    ASSUME DecodingInv
    PROVE  /\ Len(layers) \in 0 .. Len(Layers(archive.mode)) /\ archive.mode \in ModeNames
           /\ layers \in Seq(LayerNames)
           /\ layers # <<>> => /\ Len(layers) \in 1 .. Len(Layers(archive.mode))
                               /\ layers[Len(layers)] = Layers(archive.mode)[Len(layers)]
           /\ layers = <<>> <=> Len(layers) = 0
<1>1. PICK w : Descent(w)
  BY DEF DecodingInv
<1>2. archive.mode \in ModeNames
  BY DEF DecodingInv, IsArchive
<1>3. PICK l \in Seq(LayerNames) : l = Layers(archive.mode) /\ Len(l) \in 2 .. 5
  BY <1>2, LayersOf
<1>4. PICK h : h = Len(layers) /\ h <= Len(l) /\ layers = SubSeq(l, 1, h)
  BY <1>1, <1>3 DEF Descent
<1>5. h \in 0 .. Len(l)
  <2>1. layers = [k \in 1 .. h |-> l[k]]
    BY <1>4 DEF SubSeq
  <2> QED
    BY <1>3, <1>4
<1>6. layers \in Seq(LayerNames) /\ \A k \in 1 .. h : layers[k] = l[k]
  BY <1>3, <1>4, <1>5
<1>7. layers = <<>> <=> h = 0
  BY <1>4, <1>6
<1> QED
  BY <1>2, <1>3, <1>4, <1>5, <1>6, <1>7

LEMMA TakeOffKeeps == ArchiveInv /\ TakeOff => ArchiveInv'
<1> SUFFICES ASSUME ArchiveInv, TakeOff PROVE ArchiveInv'
  OBVIOUS
<1>1. /\ stage = "decode" /\ layers # <<>> /\ DecodingInv /\ HandedInv
      /\ UNCHANGED <<foreign, config, input, archive>>
  BY DEF ArchiveInv, TakeOff
<1>2. PICK l \in Seq(LayerNames) : l = Layers(archive.mode) /\ Len(l) \in 2 .. 5
  BY <1>1, LayersOf DEF DecodingInv, IsArchive
<1>3. PICK z \in 2 .. 5 : z = Len(l)
  BY <1>2
<1>4. PICK h \in 1 .. z : h = Len(layers)
  BY <1>1, <1>2, <1>3, LayerAtHand
<1>5. PICK layer : layer = layers[Len(layers)] /\ layer = l[h]
  BY <1>1, <1>2, <1>4, LayerAtHand
<1>6. PICK style : style = StyleOf(value)
  OBVIOUS
<1>7. HonestArchive' = HonestArchive /\ HonestValues' = HonestValues
  BY <1>1 DEF HonestArchive, HonestValues
<1>8. ~foreign =>
         /\ Demands(archive, layer, value, style)
         /\ Unfold(layer, archive, style, value, SizeBefore(archive, layer)) = HonestValues[h - 1]
  <2> SUFFICES ASSUME ~foreign
               PROVE  /\ Demands(archive, layer, value, style)
                      /\ Unfold(layer, archive, style, value, SizeBefore(archive, layer))
                            = HonestValues[h - 1]
    OBVIOUS
  <2>1. /\ Encodable(config, input) /\ archive = HonestArchive
        /\ value = HonestValues[h]
    BY <1>1, <1>4 DEF HandedInv
  <2>2. config.mode = archive.mode
    BY <2>1, HonestHeader
  <2>3. h \in 1 .. Len(Layers(config.mode)) /\ layer = Layers(config.mode)[h]
    BY <1>2, <1>3, <1>5, <2>2
  <2>4. /\ Demands(HonestArchive, layer, HonestValues[h], StyleOf(HonestValues[h]))
        /\ Unfold(layer, HonestArchive, StyleOf(HonestValues[h]), HonestValues[h],
                  SizeBefore(HonestArchive, layer)) = HonestValues[h - 1]
    BY <2>1, <2>3, HonestDown
  <2> QED
    BY <1>6, <2>1, <2>4
<1>9. CASE ~Demands(archive, layer, value, style)
  <2>1. stage' = "rejected" /\ foreign
    BY <1>5, <1>6, <1>8, <1>9 DEF TakeOff
  <2> QED
    BY <1>1, <2>1 DEF ArchiveInv, HandedInv
<1>10. CASE Demands(archive, layer, value, style)
  <2>1. /\ value' = Unfold(layer, archive, style, value, SizeBefore(archive, layer))
        /\ layers' = SubSeq(layers, 1, Len(layers) - 1)
        /\ tokenStyle' = IF layer = "p1" THEN style ELSE tokenStyle
        /\ spelling' = SpellingMet(layer)
        /\ stage' = stage
    BY <1>5, <1>6, <1>10 DEF TakeOff, SpellingMet
  <2>2. PICK w : Descent(w)
    BY <1>1 DEF DecodingInv
  <2>3. /\ layers = SubSeq(l, 1, h) /\ w = [k \in 0 .. z |-> w[k]]
        /\ w[z] = archive.payload /\ w[h] = value
        /\ \A k \in h + 1 .. z :
              /\ w[k] = Fold(l[k], archive, tokenStyle, spelling, w[k - 1])
              /\ w[k - 1].size = SizeBefore(archive, l[k])
    BY <1>2, <1>3, <1>4, <2>2 DEF Descent
  <2>4. layers' = SubSeq(l, 1, h - 1) /\ Len(layers') = h - 1
    <3>1. SubSeq(SubSeq(l, 1, h), 1, h - 1) = SubSeq(l, 1, h - 1)
      BY <1>2, <1>3, <1>4
    <3>2. Len(SubSeq(l, 1, h - 1)) = h - 1
      BY <1>2, <1>3, <1>4
    <3> QED
      BY <1>4, <2>1, <2>3, <3>1, <3>2
  <2>5. /\ layer \in LayerNames /\ value'.size = SizeBefore(archive, layer)
        /\ Fold(layer, archive, style, spelling', value') = value
        /\ \E t, n : Climbed(t, n) /\ Encountered(value', t, n)
    <3>1. h \in 1 .. Len(Layers(archive.mode)) /\ layer = Layers(archive.mode)[h]
      BY <1>2, <1>3, <1>5
    <3>2. PICK below : below = value'
      OBVIOUS
    <3>3. PICK spelled : spelled = spelling'
      OBVIOUS
    <3>4. Remade(layer, style, spelled, below)
      <4>1. below = Unfold(layer, archive, style, value, SizeBefore(archive, layer))
        BY <2>1, <3>2
      <4>2. spelled = SpellingMet(layer)
        BY <2>1, <3>3
      <4>3. DecodingInv /\ h = Len(layers) /\ Demands(archive, layer, value, style)
        BY <1>1, <1>4, <1>10
      <4> QED
        BY ONLY <3>1, <4>1, <4>2, <4>3, StepDown
    <3> QED
      BY <3>2, <3>3, <3>4 DEF Remade
  <2>6. Fold(layer, archive, tokenStyle', spelling', value') = value
    <3>1. CASE layer = "p1"
      BY <2>1, <2>5, <3>1
    <3>2. CASE layer # "p1"
      BY <2>5, <3>2, StyleOfOthers
    <3> QED
      BY <3>1, <3>2
  <2>7. ASSUME NEW k \in h + 1 .. z
        PROVE  /\ w[k] = Fold(l[k], archive, tokenStyle', spelling', w[k - 1])
               /\ k \in 1 .. z /\ k # h
    <3>1. k \in 1 .. z /\ k # h /\ h # z
      OBVIOUS
    <3>2. /\ layer = "p3" => h = z
          /\ layer = "p1" => l[k] # "p1"
          /\ l[k] \in LayerNames
      BY <1>1, <1>2, <1>3, <1>5, <3>1, LayerPlaces DEF DecodingInv, IsArchive
    <3>3. spelling' = spelling
      <4>1. layer # "p3"
        BY <3>1, <3>2
      <4> QED
        BY <2>1, <4>1 DEF SpellingMet
    <3>6. w[k] = Fold(l[k], archive, tokenStyle, spelling, w[k - 1])
      BY <2>3
    <3>4. CASE layer = "p1"
      <4>1. l[k] \in LayerNames /\ l[k] # "p1"
        BY <3>2, <3>4
      <4>2. PICK a, b : a = tokenStyle /\ b = tokenStyle'
        OBVIOUS
      <4>3. Fold(l[k], archive, a, spelling, w[k - 1]) = Fold(l[k], archive, b, spelling, w[k - 1])
        BY <4>1, StyleOfOthers
      <4> QED
        BY <3>1, <3>3, <3>6, <4>2, <4>3
    <3>5. CASE layer # "p1"
      <4>1. tokenStyle' = tokenStyle
        BY <2>1, <3>5
      <4> QED
        BY <3>1, <3>3, <3>6, <4>1
    <3> QED
      BY <3>4, <3>5
  <2>8. PICK x : /\ x = [k \in 0 .. z |-> x[k]] /\ x[h - 1] = value'
                 /\ \A k \in h .. z : x[k] = w[k]
    <3> DEFINE y == [k \in 0 .. z |-> IF k = h - 1 THEN value' ELSE w[k]]
    <3>1. y = [k \in 0 .. z |-> y[k]] /\ y[h - 1] = value' /\ \A k \in h .. z : y[k] = w[k]
      OBVIOUS
    <3> HIDE DEF y
    <3> QED
      BY <3>1
  <2>9. ASSUME NEW k \in h .. z
        PROVE  /\ x[k] = Fold(l[k], archive, tokenStyle', spelling', x[k - 1])
               /\ x[k - 1].size = SizeBefore(archive, l[k])
    <3>1. CASE k = h
      BY <1>5, <2>3, <2>5, <2>6, <2>8, <3>1
    <3>2. CASE k # h
      <4>1. k \in h + 1 .. z /\ k - 1 \in h .. z
        BY <3>2
      <4>2. x[k] = w[k] /\ x[k - 1] = w[k - 1]
        BY <2>8, <4>1
      <4> QED
        BY <2>3, <2>7, <4>1, <4>2
    <3> QED
      BY <3>1, <3>2
  <2>10. Descent(x)'
    <3>1. x[z] = archive.payload
      <4>1. z \in h .. z
        OBVIOUS
      <4> QED
        BY <2>3, <2>8, <4>1
    <3>2. Len(layers') + 1 = h /\ Len(layers') <= z /\ Len(layers') = h - 1
      BY <2>4
    <3>3. archive' = archive /\ l = Layers(archive'.mode) /\ z = Len(Layers(archive'.mode))
      BY <1>1, <1>2, <1>3
    <3>4. layers' = SubSeq(Layers(archive'.mode), 1, Len(layers'))
      BY <1>2, <2>4, <3>2, <3>3
    <3>5. x = [k \in 0 .. Len(Layers(archive'.mode)) |-> x[k]]
      BY <2>8, <3>3
    <3>6. x[Len(Layers(archive'.mode))] = archive'.payload /\ x[Len(layers')] = value'
      BY <2>8, <3>1, <3>2, <3>3
    <3>7. ASSUME NEW k \in Len(layers') + 1 .. Len(Layers(archive'.mode))
          PROVE  /\ x[k] = Fold(Layers(archive'.mode)[k], archive', tokenStyle', spelling', x[k - 1])
                 /\ x[k - 1].size = SizeBefore(archive', Layers(archive'.mode)[k])
      <4>1. k \in h .. z
        BY <3>2, <3>3
      <4>2. /\ x[k] = Fold(l[k], archive, tokenStyle', spelling', x[k - 1])
            /\ x[k - 1].size = SizeBefore(archive, l[k])
        BY <2>9, <4>1
      <4>3. l[k] = Layers(archive'.mode)[k]
        BY <3>3
      <4> QED
        BY <3>3, <4>2, <4>3
    <3>8. Len(layers') <= Len(Layers(archive'.mode))
      BY <3>2, <3>3
    <3> QED
      BY <3>4, <3>5, <3>6, <3>7, <3>8 DEF Descent
  <2>11. DecodingInv'
    <3>1. PICK t, n : Climbed(t, n) /\ Encountered(value', t, n)
      BY <2>5
    <3>2. (IsArchive(archive) /\ Parses(archive) /\ HeaderInvariants(archive))'
      BY <1>1 DEF DecodingInv
    <3> QED
      BY <2>10, <3>1, <3>2 DEF DecodingInv
  <2>12. HandedInv'
    BY <1>1, <1>7, <1>8, <2>1, <2>4 DEF HandedInv
  <2> QED
    BY <1>1, <2>1, <2>11, <2>12 DEF ArchiveInv
<1> QED
  BY <1>9, <1>10

LEMMA CheckOriginalKeeps == ArchiveInv /\ CheckOriginal => ArchiveInv'
<1> SUFFICES ASSUME ArchiveInv, CheckOriginal PROVE ArchiveInv'
  OBVIOUS
<1>1. /\ stage = "decode" /\ layers = <<>> /\ DecodingInv /\ HandedInv
      /\ UNCHANGED <<foreign, config, input, archive, value, layers, tokenStyle, spelling>>
      /\ stage' = IF value.size = archive.originalLen /\ Sha(value) = archive.originalSha
                    THEN "done" ELSE "rejected"
  BY DEF ArchiveInv, CheckOriginal
<1>2. DecodingInv'
  BY <1>1, DecodingStays
<1>3. stage' = "done" => ReadInv'
  BY <1>1 DEF ReadInv
<1>4. ~foreign => stage' = "done"
  <2> SUFFICES ASSUME ~foreign PROVE stage' = "done"
    OBVIOUS
  <2>1. archive = HonestArchive /\ value = HonestValues[0]
    BY <1>1, LayerAtHand DEF HandedInv
  <2>2. value = input
    BY <2>1, HonestFacts
  <2>3. archive.originalLen = input.size /\ archive.originalSha = Sha(input)
    BY <2>1, HonestHeader
  <2> QED
    BY <1>1, <2>2, <2>3
<1>5. HandedInv'
  <2>1. HonestArchive' = HonestArchive /\ HonestValues' = HonestValues
    BY <1>1 DEF HonestArchive, HonestValues
  <2> QED
    BY <1>1, <1>4, <2>1 DEF HandedInv
<1> QED
  BY <1>1, <1>2, <1>3, <1>5 DEF ArchiveInv

LEMMA ArchiveStays == ArchiveInv /\ UNCHANGED archiveVars => ArchiveInv'
<1> SUFFICES ASSUME ArchiveInv, UNCHANGED archiveVars PROVE ArchiveInv'
  OBVIOUS
<1>1. UNCHANGED <<stage, foreign, config, input, archive, value, layers, tokenStyle, spelling>>
  BY DEF archiveVars
<1>2. DecodingInv => DecodingInv'
  BY <1>1, DecodingStays
<1>3. HandedInv'
  <2>1. HonestArchive' = HonestArchive /\ HonestValues' = HonestValues
    BY <1>1 DEF HonestArchive, HonestValues
  <2> QED
    BY <1>1, <2>1 DEF ArchiveInv, HandedInv
<1> QED
  BY <1>1, <1>2, <1>3 DEF ArchiveInv, ReadInv

-----------------------------------------------------------------------------
(* The tokens met, once Path 1 has been taken off.                         *)

TokensAllowed == /\ archive.p1 = "LiteralOnly" => tokenStyle = "literals"
                 /\ archive.p1 = "RequireMatch" => tokenStyle # "literals"

TokensInv ==
    (/\ stage \in {"decode", "done"}
     /\ archive.mode \in {"Path1Only", "P123"}
     /\ Len(layers) < 2)
    => TokensAllowed

LEMMA TokensKept ==
    ASSUME ArchiveInv, TokensInv, stage' \in {"decode", "done"} => stage = "decode" \/ stage' = stage,
           UNCHANGED <<archive, layers, tokenStyle>>
    PROVE  TokensInv'
BY DEF TokensInv, TokensAllowed

LEMMA TokensTakenOff == ArchiveInv /\ TokensInv /\ TakeOff => TokensInv'
<1> SUFFICES ASSUME ArchiveInv, TokensInv, TakeOff, stage' \in {"decode", "done"},
                    archive.mode \in {"Path1Only", "P123"}, Len(layers') < 2
             PROVE  TokensAllowed'
  BY DEF TokensInv, TakeOff
<1>1. stage = "decode" /\ layers # <<>> /\ DecodingInv /\ archive' = archive
  BY DEF ArchiveInv, TakeOff
<1>2. /\ Len(layers) \in 1 .. Len(Layers(archive.mode)) /\ archive.mode \in ModeNames
      /\ layers \in Seq(LayerNames) /\ layers[Len(layers)] = Layers(archive.mode)[Len(layers)]
  BY <1>1, LayerAtHand
<1>3. Layers(archive.mode)[2] = "p1" /\ Layers(archive.mode)[1] = "map"
  BY DEF Layers
<1>4. PICK layer, style : layer = layers[Len(layers)] /\ style = StyleOf(value)
  OBVIOUS
<1>5. /\ Demands(archive, layer, value, style)
      /\ layers' = SubSeq(layers, 1, Len(layers) - 1)
      /\ tokenStyle' = IF layer = "p1" THEN style ELSE tokenStyle
  BY <1>1, <1>4 DEF TakeOff
<1>6. Len(layers') = Len(layers) - 1
  <2>1. Len(layers) \in Nat /\ Len(layers) >= 1 /\ layers \in Seq(LayerNames)
    BY <1>2
  <2>2. PICK n \in Nat : n = Len(layers) /\ n >= 1
    BY <2>1
  <2>3. Len(SubSeq(layers, 1, n - 1)) = n - 1
    BY <2>1, <2>2
  <2> QED
    BY <1>5, <2>2, <2>3
<1>7. CASE Len(layers) = 2
  <2>1. layer = "p1" /\ tokenStyle' = style
    BY <1>2, <1>3, <1>4, <1>5, <1>7
  <2> QED
    BY <1>1, <1>5, <2>1 DEF Demands, TokensAllowed
<1>8. CASE Len(layers) # 2
  <2>1. Len(layers) = 1 /\ layer = "map"
    BY <1>2, <1>3, <1>4, <1>6, <1>8
  <2>2. TokensAllowed /\ tokenStyle' = tokenStyle
    BY <1>1, <1>5, <2>1 DEF TokensInv
  <2> QED
    BY <1>1, <2>2 DEF TokensAllowed
<1> QED
  BY <1>7, <1>8

LEMMA TokensHanded == ArchiveInv' /\ (Encode \/ EncodeForeign) => TokensInv'
<1> SUFFICES ASSUME ArchiveInv', Encode \/ EncodeForeign, stage' = "decode" \/ stage' = "done",
                    archive'.mode \in {"Path1Only", "P123"}
             PROVE  ~(Len(layers') < 2)
  BY DEF TokensInv
<1>1. layers' = Layers(archive'.mode)
  BY DEF Encode, EncodeForeign, HandArchive
<1> QED
  BY <1>1 DEF Layers

-----------------------------------------------------------------------------
(* The theorems on archives.                                               *)

LEMMA DoneIsEncoded ==
    ASSUME ArchiveInv, stage = "done"
    PROVE  archive = Encoded(archive, tokenStyle, spelling, value)
<1>1. /\ IsArchive(archive) /\ Parses(archive) /\ HeaderInvariants(archive)
      /\ layers = <<>> /\ value.size = archive.originalLen /\ Sha(value) = archive.originalSha
      /\ archive.mode \in ModeNames
  BY DEF ArchiveInv, DecodingInv, ReadInv, IsArchive
<1>2. PICK w : Descent(w)
  BY DEF ArchiveInv, DecodingInv
<1>3. PICK l : l = Layers(archive.mode)
  OBVIOUS
<1>4. PICK z \in 2 .. 5 : z = Len(l)
  BY <1>1, <1>3, LayersOf
<1>5. /\ w = [k \in 0 .. z |-> w[k]] /\ w[z] = archive.payload /\ w[0] = value
      /\ \A k \in 1 .. z :
            /\ w[k] = Fold(l[k], archive, tokenStyle, spelling, w[k - 1])
            /\ w[k - 1].size = SizeBefore(archive, l[k])
  <2>1. Len(layers) = 0 /\ 0 + 1 = 1
    BY <1>1
  <2>2. /\ w = [k \in 0 .. z |-> w[k]] /\ w[z] = archive.payload /\ w[Len(layers)] = value
        /\ \A k \in Len(layers) + 1 .. z :
              /\ w[k] = Fold(l[k], archive, tokenStyle, spelling, w[k - 1])
              /\ w[k - 1].size = SizeBefore(archive, l[k])
    BY <1>2, <1>3, <1>4 DEF Descent
  <2> QED
    BY <2>1, <2>2
<1>6. Ascent(w, archive, tokenStyle, spelling, value)
  BY <1>3, <1>4, <1>5 DEF Ascent
<1>7. w = Folded(archive, tokenStyle, spelling, value)
  BY <1>1, <1>6, AscentIsFolded
<1>8. /\ SizeAfter(archive, w, "p1") = IF archive.mode \in {"Path1Only", "P123"} THEN w[2].size ELSE 0
      /\ SizeAfter(archive, w, "pack") =
            IF archive.mode = "Path1Only" THEN 0
            ELSE IF archive.mode = "P123" THEN w[3].size ELSE w[2].size
  BY <1>1, SizesAfter
<1>9. /\ archive.path1Len = SizeAfter(archive, w, "p1")
      /\ archive.floorSymbols = SizeAfter(archive, w, "pack")
      /\ archive.path3Symbols = Path3Symbols(archive, w)
  <2>1. CASE archive.mode = "Path1Only"
    <3>1. z = 2
      BY <1>3, <1>4, <2>1 DEF Layers
    <3> QED
      BY <1>1, <1>5, <1>8, <2>1, <3>1 DEF HeaderInvariants, Path3Symbols
  <2>2. CASE archive.mode = "Path2Only"
    <3>1. l = <<"map", "pack", "crt">> /\ 3 \in 1 .. z /\ 3 - 1 = 2
      BY <1>3, <1>4, <2>2 DEF Layers
    <3>2. w[2].size = archive.floorSymbols
      <4>1. w[3 - 1].size = SizeBefore(archive, l[3]) /\ l[3] = "crt" /\ 3 - 1 = 2
        BY <1>5, <3>1
      <4> QED
        BY <4>1 DEF SizeBefore
    <3> QED
      BY <1>1, <1>8, <2>2, <3>2 DEF HeaderInvariants, Path3Symbols
  <2>3. CASE archive.mode = "Path3Only"
    <3>1. l = <<"map", "pack", "p3">> /\ 3 \in 1 .. z /\ 3 - 1 = 2
      BY <1>3, <1>4, <2>3 DEF Layers
    <3>2. w[2].size = archive.floorSymbols
      <4>1. w[3 - 1].size = SizeBefore(archive, l[3]) /\ l[3] = "p3" /\ 3 - 1 = 2
        BY <1>5, <3>1
      <4> QED
        BY <4>1 DEF SizeBefore
    <3> QED
      BY <1>1, <1>8, <2>3, <3>2 DEF HeaderInvariants, Path3Symbols
  <2>4. CASE archive.mode = "P123"
    <3>1. l = <<"map", "p1", "pack", "crt", "p3">> /\ 3 \in 1 .. z /\ 3 - 1 = 2 /\ 4 \in 1 .. z /\ 4 - 1 = 3
      BY <1>3, <1>4, <2>4 DEF Layers
    <3>2. w[2].size = archive.path1Len
      <4>1. w[3 - 1].size = SizeBefore(archive, l[3]) /\ l[3] = "pack" /\ 3 - 1 = 2
        BY <1>5, <3>1
      <4> QED
        BY <2>4, <4>1 DEF SizeBefore
    <3>3. w[3].size = archive.floorSymbols
      <4>1. w[4 - 1].size = SizeBefore(archive, l[4]) /\ l[4] = "crt" /\ 4 - 1 = 3
        BY <1>5, <3>1
      <4> QED
        BY <4>1 DEF SizeBefore
    <3> QED
      BY <1>1, <1>8, <2>4, <3>2, <3>3 DEF HeaderInvariants, Path3Symbols
  <2> QED
    BY <1>1, <2>1, <2>2, <2>3, <2>4 DEF ModeNames
<1>10. archive.payloadSha = Sha(w[z]) /\ archive.payload = w[z]
  BY <1>1, <1>5 DEF Parses
<1>11. Encoded(archive, tokenStyle, spelling, value) =
         [mode |-> archive.mode, bits |-> archive.bits, lane |-> archive.lane, p1 |-> archive.p1,
          seed |-> archive.seed, originalLen |-> value.size,
          path1Len |-> SizeAfter(archive, w, "p1"), floorSymbols |-> SizeAfter(archive, w, "pack"),
          path3Symbols |-> Path3Symbols(archive, w), originalSha |-> Sha(value),
          payloadSha |-> Sha(w[z]), payload |-> w[z]]
  BY <1>3, <1>4, <1>7 DEF Encoded
<1> QED
  BY <1>1, <1>9, <1>10, <1>11 DEF IsArchive

LEMMA ArchiveCorrect == ArchiveSpec => []ArchiveInv
<1>1. ArchiveInit => ArchiveInv
  BY InitArchiveInv
<1>2. ArchiveInv /\ [ArchiveNext]_archiveVars => ArchiveInv'
  BY EncodeKeeps, RefuseKeeps, EncodeForeignKeeps, TakeOffKeeps, CheckOriginalKeeps, ArchiveStays
     DEF ArchiveNext
<1> QED
  BY <1>1, <1>2, PTL DEF ArchiveSpec

LEMMA TokensCorrect == ArchiveSpec => []TokensInv
<1>1. ArchiveInit => TokensInv
  BY DEF ArchiveInit, TokensInv
<1>2. ArchiveInv /\ ArchiveInv' /\ TokensInv /\ [ArchiveNext]_archiveVars => TokensInv'
  <2> SUFFICES ASSUME ArchiveInv, ArchiveInv', TokensInv, [ArchiveNext]_archiveVars
               PROVE  TokensInv'
    OBVIOUS
  <2>1. CASE Encode \/ EncodeForeign
    BY <2>1, TokensHanded
  <2>2. CASE Refuse
    BY <2>2 DEF Refuse, TokensInv
  <2>3. CASE TakeOff
    BY <2>3, TokensTakenOff
  <2>4. CASE CheckOriginal
    <3>1. stage = "decode" /\ UNCHANGED <<archive, layers, tokenStyle>>
      BY <2>4 DEF CheckOriginal
    <3> QED
      BY <3>1, TokensKept
  <2>5. CASE UNCHANGED archiveVars
    <3>1. UNCHANGED <<stage, archive, layers, tokenStyle>>
      BY <2>5 DEF archiveVars
    <3> QED
      BY <3>1, TokensKept
  <2> QED
    BY <2>1, <2>2, <2>3, <2>4, <2>5 DEF ArchiveNext
<1> QED
  BY <1>1, <1>2, ArchiveCorrect, PTL DEF ArchiveSpec

\* What encode_p123 hands out, in every mode and for every string, is accepted
\* by decode_p123 and gives the string back.
THEOREM HandedOutRestored == ArchiveSpec => []HandedOutIsRestored
<1>1. ArchiveInv => HandedOutIsRestored
  <2> SUFFICES ASSUME ArchiveInv, ~foreign
               PROVE  stage # "rejected" /\ (stage = "done" => value = input)
    BY DEF HandedOutIsRestored
  <2>1. stage # "rejected"
    BY DEF ArchiveInv, HandedInv
  <2>2. ASSUME stage = "done" PROVE value = input
    <3>1. layers = <<>> /\ value = HonestValues[Len(layers)]
      BY <2>2 DEF ArchiveInv, HandedInv, ReadInv
    <3>2. HonestValues[0] = input
      BY HonestFacts
    <3> QED
      BY <3>1, <3>2
  <2> QED
    BY <2>1, <2>2
<1> QED
  BY <1>1, ArchiveCorrect, PTL

\* An archive decode_p123 accepts is the one encode_p123 would write for what
\* comes out, but for the choice of tokens and the spelling of the payload; and
\* the tokens are of the kind the Path 1 mode in its header allows.
THEOREM AcceptedIsEncoded == ArchiveSpec => []AcceptedAsEncoded
<1>1. ArchiveInv /\ TokensInv => AcceptedAsEncoded
  <2> SUFFICES ASSUME ArchiveInv, TokensInv, stage = "done"
               PROVE  archive = Encoded(archive, tokenStyle, spelling, value) /\ TokensAllowed
    BY DEF AcceptedAsEncoded, TokensAllowed
  <2>1. layers = <<>> /\ IsArchive(archive) /\ HeaderInvariants(archive)
    BY DEF ArchiveInv, ReadInv, DecodingInv
  <2>2. CASE archive.mode \in {"Path1Only", "P123"}
    BY <2>1, <2>2, DoneIsEncoded DEF TokensInv
  <2>3. CASE archive.mode \in {"Path2Only", "Path3Only"}
    <3>1. archive.p1 = "Auto"
      BY <2>1, <2>3 DEF HeaderInvariants
    <3> QED
      BY <3>1, DoneIsEncoded DEF TokensAllowed
  <2> QED
    BY <2>1, <2>2, <2>3 DEF IsArchive, ModeNames
<1> QED
  BY <1>1, ArchiveCorrect, TokensCorrect, PTL
=============================================================================
