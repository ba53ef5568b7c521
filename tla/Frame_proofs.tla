---------------------------- MODULE Frame_proofs ----------------------------
(***************************************************************************)
(* Proofs about Frame: recv_frame returns only what was sent, in order,    *)
(* and skips nothing without an error, for any number of frames, any       *)
(* sizes, any damage and any dropped calls.                                *)
(*                                                                         *)
(* The argument is about the stream the reader has not used up yet: what   *)
(* is in its buffer, then what is on the wire, then the byte the sender    *)
(* will write next.  It never has a gap, and it is never empty, so its     *)
(* first place says where the reader is.                                   *)
(***************************************************************************)
EXTENDS Frame, TLAPS

WireBytes == [frame : Ids, pos : Nat \ {0}, intact : BOOLEAN]
FrameTypes ==
    /\ sizes \in [Ids -> Sizes]
    /\ sent \in 1 .. Frames + 1
    /\ written \in Nat
    /\ sent \in Ids => written < HeaderSize + WireLength(sent)
    /\ sent \notin Ids => written = 0
    /\ wire \in Seq(WireBytes)
    /\ stage \in {"header", "payload", "failed"}
    /\ buf \in Seq(WireBytes)
    /\ header.length \in Nat
    /\ header.checksum \in Ids \cup {NoSum}
    /\ delivered \in Seq(Ids)
    /\ torn \in BOOLEAN
    /\ ignored \in BOOLEAN
    /\ damage \in Nat
    /\ drops \in Nat

(* The unread stream, its length, and the frame and position of a place.   *)
Ahead == Len(buf) + Len(wire) + 1
Unread(i) ==
    IF i <= Len(buf) THEN buf[i]
    ELSE IF i <= Len(buf) + Len(wire) THEN wire[i - Len(buf)]
    ELSE Byte(sent, written + 1)
FrameAt(i) == Unread(i).frame
PosAt(i) == Unread(i).pos
FrameEnd(f) == HeaderSize + WireLength(f)

(* Every unread byte is a byte of a frame; frames come in their order; the *)
(* bytes of one frame are consecutive up to its last; the first byte of    *)
(* the next frame follows.                                                 *)
Gapless ==
    /\ \A i \in 1 .. Ahead - 1 : FrameAt(i) \in Ids
    /\ \A i, j \in 1 .. Ahead : i <= j => FrameAt(i) <= FrameAt(j)
    /\ \A i \in 1 .. Ahead - 1, j \in 1 .. Ahead :
          i < j /\ PosAt(i) + (j - i) <= FrameEnd(FrameAt(i)) =>
              FrameAt(j) = FrameAt(i) /\ PosAt(j) = PosAt(i) + (j - i)
    /\ \A i \in 1 .. Ahead - 1 :
          /\ PosAt(i) <= FrameEnd(FrameAt(i))
          /\ PosAt(i) = FrameEnd(FrameAt(i)) =>
                 FrameAt(i + 1) = FrameAt(i) + 1 /\ PosAt(i + 1) = 1

(* What was returned lies before the first unread byte.                    *)
ReturnedBefore ==
    /\ \A i \in DOMAIN delivered : delivered[i] < FrameAt(1)
    /\ \A i, j \in DOMAIN delivered : i < j => delivered[i] < delivered[j]

StreamInv == FrameTypes /\ Gapless /\ ReturnedBefore

(* The number of the frame the reader is at when nothing was skipped.      *)
Due == Len(delivered) + 1

(* Until a call is torn the reader is at the beginning of the frame that   *)
(* is due, or of its payload with the checksum of that frame or of none;   *)
(* after one it is never again at the beginning of a frame with a checksum *)
(* that could agree.                                                       *)
InStep ==
    /\ damage = 0 => \A i \in 1 .. Len(buf) : buf[i].intact
    /\ damage = 0 => \A i \in 1 .. Len(wire) : wire[i].intact
    /\ drops = 0 => ~torn
    /\ ~ignored /\ (drops = 0 \/ (drops = 1 /\ damage = 0)) =>
          /\ \A i \in DOMAIN delivered : delivered[i] = i
          /\ ~torn /\ stage = "header" => FrameAt(1) = Due /\ PosAt(1) = 1
          /\ ~torn /\ stage = "payload" =>
                /\ FrameAt(1) = Due /\ PosAt(1) = HeaderSize + 1
                /\ Due \in Ids
                /\ header.checksum \in {Due, NoSum}
                /\ damage = 0 => header.length = WireLength(Due)
          /\ torn /\ stage = "header" => PosAt(1) # 1
          /\ torn /\ stage = "payload" => header.checksum = NoSum

FrameInv == StreamInv /\ InStep

-----------------------------------------------------------------------------
(* A wire length is at least one byte.                                     *)
LEMMA WireLengths ==
    ASSUME FrameTypes, NEW f \in Ids
    PROVE  WireLength(f) \in Nat /\ WireLength(f) >= 1
BY FrameAssumption DEF FrameTypes, Sizes, WireLength

(* The stream has at least one place, and every place has a frame and a    *)
(* position.                                                               *)
LEMMA UnreadType ==
    ASSUME FrameTypes
    PROVE  /\ Ahead \in Nat /\ Ahead >= 1
           /\ Len(buf) \in Nat /\ Len(wire) \in Nat
           /\ \A i \in 1 .. Ahead : FrameAt(i) \in Nat /\ PosAt(i) \in Nat /\ PosAt(i) >= 1
           /\ FrameAt(Ahead) = sent /\ PosAt(Ahead) = written + 1
<1>1. /\ Len(buf) \in Nat /\ Len(wire) \in Nat
      /\ \A i \in 1 .. Len(buf) : buf[i] \in WireBytes
      /\ \A i \in 1 .. Len(wire) : wire[i] \in WireBytes
  BY DEF FrameTypes
<1>2. \A b \in WireBytes : b.frame \in Nat /\ b.pos \in Nat /\ b.pos >= 1
  BY FrameAssumption DEF WireBytes, Ids
<1>3. /\ Byte(sent, written + 1).frame = sent
      /\ Byte(sent, written + 1).pos = written + 1
      /\ sent \in Nat /\ written \in Nat
  BY FrameAssumption DEF Byte, FrameTypes
<1>4. ASSUME NEW i \in 1 .. Ahead
      PROVE  FrameAt(i) \in Nat /\ PosAt(i) \in Nat /\ PosAt(i) >= 1
  <2>1. CASE i <= Len(buf)
    BY <1>1, <1>2, <2>1 DEF FrameAt, PosAt, Unread
  <2>2. CASE ~(i <= Len(buf)) /\ i <= Len(buf) + Len(wire)
    <3>1. i - Len(buf) \in 1 .. Len(wire)
      BY <1>1, <2>2
    <3> QED
      BY <1>1, <1>2, <2>2, <3>1 DEF FrameAt, PosAt, Unread
  <2>3. CASE ~(i <= Len(buf)) /\ ~(i <= Len(buf) + Len(wire))
    BY <1>3, <2>3 DEF FrameAt, PosAt, Unread
  <2> QED
    BY <2>1, <2>2, <2>3
<1>5. FrameAt(Ahead) = sent /\ PosAt(Ahead) = written + 1
  BY <1>1, <1>3 DEF FrameAt, PosAt, Unread, Ahead
<1> QED
  BY <1>1, <1>4, <1>5 DEF Ahead

(* Bytes leave the stream only at its front: what is left has no gap       *)
(* either.  (Also: a damaged byte keeps its place.)                        *)
LEMMA FrontTaken ==
    ASSUME FrameTypes, Gapless, FrameTypes', UNCHANGED sizes,
           NEW k \in Nat, Ahead' = Ahead - k,
           \A i \in 1 .. Ahead' :
               FrameAt(i)' = FrameAt(i + k) /\ PosAt(i)' = PosAt(i + k)
    PROVE  Gapless'
<1>1. Ahead \in Nat /\ Ahead' \in Nat /\ Ahead' >= 1
  BY UnreadType DEF FrameTypes, Ahead
<1>2. \A f : FrameEnd(f)' = FrameEnd(f)
  BY DEF FrameEnd, WireLength
<1>3. \A i \in 1 .. Ahead' : i + k \in 1 .. Ahead
  BY <1>1
<1>4. \A i \in 1 .. Ahead' - 1 : i + k \in 1 .. Ahead - 1 /\ i \in 1 .. Ahead'
  BY <1>1
<1>5. \A i \in 1 .. Ahead' - 1 : FrameAt(i)' \in Ids
  BY <1>4 DEF Gapless
<1>6. \A i, j \in 1 .. Ahead' : i <= j => FrameAt(i)' <= FrameAt(j)'
  BY <1>1, <1>3 DEF Gapless
<1>7. ASSUME NEW i \in 1 .. Ahead' - 1, NEW j \in 1 .. Ahead',
             i < j, PosAt(i)' + (j - i) <= FrameEnd(FrameAt(i)')
      PROVE  FrameAt(j)' = FrameAt(i)' /\ PosAt(j)' = PosAt(i)' + (j - i)
  <2>1. /\ i + k \in 1 .. Ahead - 1 /\ j + k \in 1 .. Ahead
        /\ i + k < j + k /\ (j + k) - (i + k) = j - i
    BY <1>1, <1>3, <1>4, <1>7
  <2>2. /\ FrameAt(i)' = FrameAt(i + k) /\ PosAt(i)' = PosAt(i + k)
        /\ FrameAt(j)' = FrameAt(j + k) /\ PosAt(j)' = PosAt(j + k)
    BY <1>1
  <2>3. PosAt(i + k) + ((j + k) - (i + k)) <= FrameEnd(FrameAt(i + k))
    BY <1>7, <2>1, <2>2
  <2>4. /\ FrameAt(j + k) = FrameAt(i + k)
        /\ PosAt(j + k) = PosAt(i + k) + ((j + k) - (i + k))
    BY <2>1, <2>3 DEF Gapless
  <2> QED
    BY <2>1, <2>2, <2>4
<1>8. ASSUME NEW i \in 1 .. Ahead' - 1
      PROVE  /\ PosAt(i)' <= FrameEnd(FrameAt(i)')
             /\ PosAt(i)' = FrameEnd(FrameAt(i)') =>
                    FrameAt(i + 1)' = FrameAt(i)' + 1 /\ PosAt(i + 1)' = 1
  <2>1. /\ i + k \in 1 .. Ahead - 1 /\ i + 1 \in 1 .. Ahead' /\ (i + 1) + k = (i + k) + 1
    BY <1>1, <1>4
  <2>2. /\ FrameAt(i)' = FrameAt(i + k) /\ PosAt(i)' = PosAt(i + k)
        /\ FrameAt(i + 1)' = FrameAt((i + k) + 1) /\ PosAt(i + 1)' = PosAt((i + k) + 1)
    BY <1>1, <2>1
  <2> QED
    BY <2>1, <2>2 DEF Gapless
<1> QED
  BY <1>2, <1>5, <1>6, <1>7, <1>8 DEF Gapless

(* send_frame lengthens the stream at its back: the place it writes next   *)
(* is behind the byte it has just written.                                 *)
LEMMA BackGrows ==
    ASSUME FrameTypes, Gapless, FrameTypes', UNCHANGED sizes, sent \in Ids,
           NEW n, Ahead = n, Ahead' = n + 1,
           \A i \in 1 .. n : FrameAt(i)' = FrameAt(i) /\ PosAt(i)' = PosAt(i),
           FrameAt(n + 1)' = IF written + 1 = FrameEnd(sent) THEN sent + 1 ELSE sent,
           PosAt(n + 1)' = IF written + 1 = FrameEnd(sent) THEN 1 ELSE written + 2
    PROVE  Gapless'
<1>1. /\ n \in Nat /\ n >= 1 /\ Ahead' = n + 1
      /\ FrameAt(n) = sent /\ PosAt(n) = written + 1
      /\ sent \in Nat /\ written \in Nat
      /\ \A i \in 1 .. n : FrameAt(i) \in Nat /\ PosAt(i) \in Nat /\ PosAt(i) >= 1
  BY UnreadType, FrameAssumption DEF FrameTypes
<1>2. /\ \A f : FrameEnd(f)' = FrameEnd(f)
      /\ \A f \in Ids : FrameEnd(f) \in Nat
      /\ written + 1 <= FrameEnd(sent)
  <2>1. \A f : FrameEnd(f)' = FrameEnd(f)
    BY DEF FrameEnd, WireLength
  <2>2. \A f \in Ids : FrameEnd(f) \in Nat
    BY WireLengths, FrameAssumption DEF FrameEnd
  <2>3. written + 1 <= FrameEnd(sent)
    <3>1. WireLength(sent) \in Nat /\ written < HeaderSize + WireLength(sent)
      BY WireLengths DEF FrameTypes
    <3> QED
      BY <1>1, <3>1, FrameAssumption DEF FrameEnd
  <2> QED
    BY <2>1, <2>2, <2>3
<1>3. /\ \A i \in 1 .. n : FrameAt(i)' = FrameAt(i) /\ PosAt(i)' = PosAt(i)
      /\ FrameAt(n + 1)' = IF written + 1 = FrameEnd(sent) THEN sent + 1 ELSE sent
      /\ PosAt(n + 1)' = IF written + 1 = FrameEnd(sent) THEN 1 ELSE written + 2
  OBVIOUS
<1>4. \A i \in 1 .. n : FrameAt(i) \in Ids
  BY <1>1 DEF Gapless
<1>5. \A i \in 1 .. Ahead' - 1 : FrameAt(i)' \in Ids
  BY <1>1, <1>3, <1>4
<1>6. ASSUME NEW i \in 1 .. Ahead', NEW j \in 1 .. Ahead', i <= j
      PROVE  FrameAt(i)' <= FrameAt(j)'
  <2>1. \A k, l \in 1 .. n : k <= l => FrameAt(k) <= FrameAt(l)
    BY DEF Gapless
  <2>2. sent <= FrameAt(n + 1)'
    BY <1>1, <1>3
  <2>3. CASE j <= n
    <3>1. i \in 1 .. n /\ j \in 1 .. n
      BY <1>1, <1>6, <2>3
    <3> QED
      BY <1>3, <1>6, <2>1, <3>1
  <2>4. CASE j = n + 1 /\ i <= n
    <3>1. i \in 1 .. n /\ n \in 1 .. n
      BY <1>1, <2>4
    <3>2. FrameAt(i) <= sent
      BY <1>1, <2>1, <3>1
    <3> QED
      BY <1>1, <1>3, <2>2, <2>4, <3>1, <3>2
  <2>5. CASE j = n + 1 /\ i = n + 1
    BY <1>1, <1>3, <2>5
  <2> QED
    BY <1>1, <1>6, <2>3, <2>4, <2>5
<1>7. ASSUME NEW i \in 1 .. Ahead' - 1, NEW j \in 1 .. Ahead',
             i < j, PosAt(i)' + (j - i) <= FrameEnd(FrameAt(i)')
      PROVE  FrameAt(j)' = FrameAt(i)' /\ PosAt(j)' = PosAt(i)' + (j - i)
  <2>1. i \in 1 .. n /\ FrameAt(i)' = FrameAt(i) /\ PosAt(i)' = PosAt(i)
    BY <1>1, <1>3
  <2>2. \A k \in 1 .. n - 1, l \in 1 .. n :
           k < l /\ PosAt(k) + (l - k) <= FrameEnd(FrameAt(k)) =>
               FrameAt(l) = FrameAt(k) /\ PosAt(l) = PosAt(k) + (l - k)
    BY DEF Gapless
  <2>3. CASE j <= n
    <3>1. i \in 1 .. n - 1 /\ j \in 1 .. n
      BY <1>1, <1>7, <2>3
    <3> QED
      BY <1>3, <1>7, <2>1, <2>2, <3>1
  <2>4. CASE j = n + 1
    <3>1. FrameAt(i) = sent /\ PosAt(i) + (n - i) = written + 1
      <4>1. CASE i = n
        BY <1>1, <4>1
      <4>2. CASE i < n
        <5>1. i \in 1 .. n - 1 /\ n \in 1 .. n
          BY <1>1, <2>1, <4>2
        <5>2. PosAt(i) + (n - i) <= FrameEnd(FrameAt(i))
          BY <1>1, <1>2, <1>4, <1>7, <2>1, <2>4
        <5> QED
          BY <1>1, <2>2, <4>2, <5>1, <5>2
      <4> QED
        BY <1>1, <2>1, <4>1, <4>2
    <3>2. PosAt(i) + (j - i) = written + 2
      BY <1>1, <2>1, <2>4, <3>1
    <3>3. written + 2 <= FrameEnd(sent)
      BY <1>7, <2>1, <3>1, <3>2
    <3>4. FrameAt(n + 1)' = sent /\ PosAt(n + 1)' = written + 2
      BY <1>1, <1>2, <1>3, <3>3
    <3> QED
      BY <2>1, <2>4, <3>1, <3>2, <3>4
  <2> QED
    BY <1>1, <2>3, <2>4
<1>8. ASSUME NEW i \in 1 .. Ahead' - 1
      PROVE  /\ PosAt(i)' <= FrameEnd(FrameAt(i)')
             /\ PosAt(i)' = FrameEnd(FrameAt(i)') =>
                    FrameAt(i + 1)' = FrameAt(i)' + 1 /\ PosAt(i + 1)' = 1
  <2>1. i \in 1 .. n /\ FrameAt(i)' = FrameAt(i) /\ PosAt(i)' = PosAt(i)
    BY <1>1, <1>3
  <2>2. CASE i = n
    BY <1>1, <1>2, <1>3, <2>1, <2>2
  <2>3. CASE i < n
    <3>1. i \in 1 .. n - 1 /\ i + 1 \in 1 .. n
      BY <1>1, <2>1, <2>3
    <3>2. FrameAt(i + 1)' = FrameAt(i + 1) /\ PosAt(i + 1)' = PosAt(i + 1)
      BY <1>3, <3>1
    <3>3. /\ PosAt(i) <= FrameEnd(FrameAt(i))
          /\ PosAt(i) = FrameEnd(FrameAt(i)) =>
                 FrameAt(i + 1) = FrameAt(i) + 1 /\ PosAt(i + 1) = 1
      BY <3>1 DEF Gapless
    <3> QED
      BY <2>1, <3>2, <3>3
  <2> QED
    BY <1>1, <2>1, <2>2, <2>3
<1> QED
  BY <1>2, <1>5, <1>6, <1>7, <1>8 DEF Gapless

-----------------------------------------------------------------------------
(* A header has a length, and the checksum of a message or of none.        *)
LEMMA HeaderTypes ==
    ASSUME FrameTypes, Len(buf) = HeaderSize, NEW h \in Headers(buf)
    PROVE  h.length \in Nat /\ h.checksum \in Ids \cup {NoSum}
<1>1. 1 \in 1 .. Len(buf) /\ buf[1] \in WireBytes
  BY FrameAssumption DEF FrameTypes
<1>2. buf[1].frame \in Ids
  BY <1>1 DEF WireBytes
<1>3. CASE h = FrameHeader(buf[1].frame)
  <2>1. h.length = WireLength(buf[1].frame) /\ h.checksum = buf[1].frame
    BY <1>3 DEF FrameHeader
  <2> QED
    BY <1>2, <2>1, WireLengths
<1>4. CASE h # FrameHeader(buf[1].frame)
  <2>1. h.length \in 0 .. MaxPayloadSize + 1 /\ h.checksum \in {buf[1].frame, NoSum}
    BY <1>4 DEF Headers
  <2> QED
    BY <1>2, <2>1, FrameAssumption
<1> QED
  BY <1>3, <1>4

(* Every action keeps the types.                                           *)
LEMMA TypesStep == FrameTypes /\ [Next]_vars => FrameTypes'
<1> SUFFICES ASSUME FrameTypes, [Next]_vars
             PROVE  FrameTypes'
  OBVIOUS
<1>1. CASE Write
  <2>1. sent \in Ids /\ Byte(sent, written + 1) \in WireBytes
    BY <1>1, FrameAssumption DEF Write, FrameTypes, Ids, Byte, WireBytes
  <2>2. wire' \in Seq(WireBytes)
    BY <1>1, <2>1 DEF Write, FrameTypes
  <2>3. \A f : WireLength(f)' = WireLength(f)
    BY <1>1 DEF Write, WireLength
  <2>4. WireLength(sent) \in Nat /\ sent \in Nat /\ sent \in 1 .. Frames /\ written \in Nat
    BY <2>1, WireLengths, FrameAssumption DEF FrameTypes, Ids
  <2>5. /\ sent' \in 1 .. Frames + 1
        /\ written' \in Nat
        /\ sent' \in Ids => written' < HeaderSize + WireLength(sent')
        /\ sent' \notin Ids => written' = 0
    <3>1. CASE written + 1 = HeaderSize + WireLength(sent)
      <4>1. sent' = sent + 1 /\ written' = 0
        BY <1>1, <3>1 DEF Write
      <4>2. sent' \in Ids => WireLength(sent') \in Nat /\ WireLength(sent') >= 1
        BY WireLengths
      <4> QED
        BY <2>4, <4>1, <4>2, FrameAssumption
    <3>2. CASE written + 1 # HeaderSize + WireLength(sent)
      <4>1. sent' = sent /\ written' = written + 1
        BY <1>1, <3>2 DEF Write
      <4>2. written < HeaderSize + WireLength(sent)
        BY <2>1 DEF FrameTypes
      <4> QED
        BY <2>1, <2>4, <3>2, <4>1, <4>2, FrameAssumption
    <3> QED
      BY <3>1, <3>2
  <2> QED
    BY <1>1, <2>2, <2>3, <2>5 DEF Write, readVars, FrameTypes
<1>2. ASSUME NEW i \in DOMAIN wire, Damage(i)
      PROVE  FrameTypes'
  <2>1. [wire[i] EXCEPT !.intact = FALSE] \in WireBytes
    <3>1. wire[i] \in WireBytes
      BY <1>2 DEF FrameTypes
    <3> QED
      BY <3>1 DEF WireBytes
  <2>2. wire' \in Seq(WireBytes)
    BY <1>2, <2>1 DEF Damage, FrameTypes
  <2>3. damage' \in Nat
    BY <1>2 DEF Damage, FrameTypes
  <2> QED
    BY <1>2, <2>2, <2>3 DEF Damage, readVars, FrameTypes, WireLength
<1>3. CASE Read
  <2>1. wire' \in Seq(WireBytes) /\ buf' \in Seq(WireBytes)
    BY <1>3 DEF Read, FrameTypes
  <2> QED
    BY <1>3, <2>1 DEF Read, FrameTypes, WireLength
<1>4. CASE ReadHeader
  <2>1. header'.length \in Nat /\ header'.checksum \in Ids \cup {NoSum}
    BY <1>4, HeaderTypes DEF ReadHeader
  <2>2. stage' \in {"header", "payload", "failed"} /\ buf' \in Seq(WireBytes)
    BY <1>4 DEF ReadHeader
  <2> QED
    BY <1>4, <2>1, <2>2 DEF ReadHeader, FrameTypes, WireLength
<1>5. CASE ReadPayload
  <2>1. delivered' \in Seq(Ids)
    <3>1. CASE \E f \in Ids : Decoded(f) /\ header.checksum = f
      <4>1. header.checksum \in Ids /\ delivered' = Append(delivered, header.checksum)
        BY <1>5, <3>1, Zenon DEF ReadPayload
      <4> QED
        BY <4>1 DEF FrameTypes
    <3>2. CASE ~ \E f \in Ids : Decoded(f) /\ header.checksum = f
      BY <1>5, <3>2 DEF ReadPayload, FrameTypes
    <3> QED
      BY <3>1, <3>2
  <2>2. stage' \in {"header", "payload", "failed"} /\ buf' \in Seq(WireBytes)
    BY <1>5 DEF ReadPayload
  <2> QED
    BY <1>5, <2>1, <2>2 DEF ReadPayload, FrameTypes, WireLength
<1>6. CASE Drop
  <2>1. torn' \in BOOLEAN
    BY <1>6, Zenon DEF Drop
  <2>2. buf' \in Seq(WireBytes) /\ drops' \in Nat /\ stage' = "header"
    BY <1>6 DEF Drop, FrameTypes
  <2> QED
    BY <1>6, <2>1, <2>2 DEF Drop, FrameTypes, WireLength
<1>7. CASE PeekIgnores
  <2>1. ignored' \in BOOLEAN
    BY <1>7, Zenon DEF PeekIgnores
  <2> QED
    BY <1>7, <2>1 DEF PeekIgnores, FrameTypes, WireLength
<1>8. CASE UNCHANGED vars
  BY <1>8 DEF vars, readVars, FrameTypes, WireLength
<1> QED
  BY <1>1, <1>2, <1>3, <1>4, <1>5, <1>6, <1>7, <1>8 DEF Next, Reader

(* read_exact moves a byte from the wire to the buffer, and the wire       *)
(* damages one: no place of the stream changes.                            *)
LEMMA PlacesKept ==
    ASSUME FrameTypes, FrameTypes', Read \/ \E k \in DOMAIN wire : Damage(k)
    PROVE  /\ Ahead' = Ahead
           /\ \A i \in 1 .. Ahead : FrameAt(i)' = FrameAt(i) /\ PosAt(i)' = PosAt(i)
<1>1. /\ buf \in Seq(WireBytes) /\ wire \in Seq(WireBytes)
      /\ Len(buf) \in Nat /\ Len(wire) \in Nat
  BY DEF FrameTypes
<1>2. CASE Read
  <2>1. /\ Len(buf') = Len(buf) + 1
        /\ Len(wire') = Len(wire) - 1
        /\ \A i \in 1 .. Len(buf) : buf'[i] = buf[i]
        /\ buf'[Len(buf) + 1] = wire[1]
        /\ \A i \in 1 .. Len(wire) - 1 : wire'[i] = wire[i + 1]
    BY <1>1, <1>2 DEF Read
  <2>2. sent' = sent /\ written' = written /\ Len(wire) >= 1
    BY <1>1, <1>2 DEF Read
  <2>3. ASSUME NEW i \in 1 .. Ahead
        PROVE  Unread(i)' = Unread(i)
    <3>1. CASE i <= Len(buf)
      BY <1>1, <2>1, <2>2, <3>1 DEF Unread
    <3>2. CASE i = Len(buf) + 1
      BY <1>1, <2>1, <2>2, <3>2 DEF Unread
    <3>3. CASE i > Len(buf) + 1 /\ i <= Len(buf) + Len(wire)
      <4>1. i - (Len(buf) + 1) \in 1 .. Len(wire) - 1
        BY <1>1, <3>3
      <4>2. wire'[i - (Len(buf) + 1)] = wire[i - Len(buf)]
        BY <1>1, <2>1, <4>1
      <4> QED
        BY <1>1, <2>1, <2>2, <3>3, <4>2 DEF Unread
    <3>4. CASE i = Len(buf) + Len(wire) + 1
      BY <1>1, <2>1, <2>2, <3>4 DEF Unread, Byte
    <3> QED
      BY <1>1, <3>1, <3>2, <3>3, <3>4 DEF Ahead
  <2> QED
    BY <1>1, <2>1, <2>3 DEF Ahead, FrameAt, PosAt
<1>3. ASSUME NEW k \in DOMAIN wire, Damage(k)
      PROVE  /\ Ahead' = Ahead
             /\ \A i \in 1 .. Ahead : FrameAt(i)' = FrameAt(i) /\ PosAt(i)' = PosAt(i)
  <2>1. /\ Len(wire') = Len(wire)
        /\ buf' = buf /\ sent' = sent /\ written' = written
    BY <1>1, <1>3 DEF Damage, readVars
  <2>2. \A i \in 1 .. Len(wire) : wire'[i].frame = wire[i].frame /\ wire'[i].pos = wire[i].pos
    <3>1. \A b \in WireBytes : [b EXCEPT !.intact = FALSE].frame = b.frame
                               /\ [b EXCEPT !.intact = FALSE].pos = b.pos
      BY DEF WireBytes
    <3>2. \A i \in 1 .. Len(wire) :
             wire[i] \in WireBytes
             /\ wire'[i] = IF i = k THEN [wire[i] EXCEPT !.intact = FALSE] ELSE wire[i]
      <4>1. \A i \in 1 .. Len(wire) : wire[i] \in WireBytes
        BY <1>1
      <4>2. wire' = [wire EXCEPT ![k] = [wire[k] EXCEPT !.intact = FALSE]]
        BY <1>3 DEF Damage
      <4>3. wire \in [1 .. Len(wire) -> WireBytes] /\ k \in 1 .. Len(wire)
        BY <1>1, <1>3
      <4> QED
        BY <4>1, <4>2, <4>3, Zenon
    <3> QED
      BY <3>1, <3>2
  <2>3. ASSUME NEW i \in 1 .. Ahead
        PROVE  FrameAt(i)' = FrameAt(i) /\ PosAt(i)' = PosAt(i)
    <3>1. CASE i <= Len(buf)
      BY <2>1, <3>1 DEF FrameAt, PosAt, Unread
    <3>2. CASE ~(i <= Len(buf)) /\ i <= Len(buf) + Len(wire)
      <4>1. i - Len(buf) \in 1 .. Len(wire)
        BY <1>1, <3>2
      <4> QED
        BY <1>1, <2>1, <2>2, <3>2, <4>1 DEF FrameAt, PosAt, Unread
    <3>3. CASE ~(i <= Len(buf)) /\ ~(i <= Len(buf) + Len(wire))
      BY <2>1, <3>3 DEF FrameAt, PosAt, Unread, Byte
    <3> QED
      BY <3>1, <3>2, <3>3
  <2> QED
    BY <2>1, <2>3 DEF Ahead
<1> QED
  BY <1>2, <1>3

(* The buffer is used up, or lost: its k bytes leave the stream.           *)
LEMMA BufferEmptied ==
    ASSUME FrameTypes, FrameTypes', buf' = <<>>, UNCHANGED <<wire, sent, written>>,
           NEW k, k = Len(buf)
    PROVE  /\ k \in Nat /\ Ahead' = Ahead - k
           /\ \A i \in 1 .. Ahead' :
                 FrameAt(i)' = FrameAt(i + k) /\ PosAt(i)' = PosAt(i + k)
<1>1. Len(buf) \in Nat /\ Len(wire) \in Nat /\ Len(buf') = 0 /\ Len(wire') = Len(wire)
  BY DEF FrameTypes
<1>2. Ahead' = Len(wire) + 1 /\ Ahead = k + Len(wire) + 1
  BY <1>1 DEF Ahead
<1>3. ASSUME NEW i \in 1 .. Len(wire) + 1
      PROVE  Unread(i)' = Unread(i + k)
  <2>1. Unread(i)' = IF i <= Len(wire) THEN wire[i] ELSE Byte(sent, written + 1)
    BY <1>1 DEF Unread, Byte
  <2>2. Unread(i + k) = IF i <= Len(wire) THEN wire[i] ELSE Byte(sent, written + 1)
    BY <1>1 DEF Unread
  <2> QED
    BY <2>1, <2>2
<1> QED
  BY <1>1, <1>2, <1>3 DEF FrameAt, PosAt

(* send_frame writes a byte: the stream is longer by the place behind it.  *)
LEMMA Written ==
    ASSUME FrameTypes, FrameTypes', Write, NEW n, n = Ahead
    PROVE  /\ sent \in Ids /\ Ahead' = n + 1
           /\ \A i \in 1 .. n : FrameAt(i)' = FrameAt(i) /\ PosAt(i)' = PosAt(i)
           /\ FrameAt(n + 1)' = IF written + 1 = FrameEnd(sent) THEN sent + 1 ELSE sent
           /\ PosAt(n + 1)' = IF written + 1 = FrameEnd(sent) THEN 1 ELSE written + 2
<1>1. /\ buf \in Seq(WireBytes) /\ wire \in Seq(WireBytes)
      /\ Len(buf) \in Nat /\ Len(wire) \in Nat /\ written \in Nat
  BY DEF FrameTypes
<1>2. sent \in Ids /\ Byte(sent, written + 1) \in WireBytes
  BY FrameAssumption DEF Write, FrameTypes, Ids, Byte, WireBytes
<1>3. /\ Len(wire') = Len(wire) + 1
      /\ \A i \in 1 .. Len(wire) : wire'[i] = wire[i]
      /\ wire'[Len(wire) + 1] = Byte(sent, written + 1)
      /\ buf' = buf
  BY <1>1, <1>2 DEF Write, readVars
<1>4. Ahead' = n + 1 /\ n = Len(buf) + Len(wire) + 1
  BY <1>1, <1>3 DEF Ahead
<1>5. ASSUME NEW i \in 1 .. n
      PROVE  Unread(i)' = Unread(i)
  <2>1. CASE i <= Len(buf)
    BY <1>1, <1>3, <2>1 DEF Unread
  <2>2. CASE ~(i <= Len(buf)) /\ i <= Len(buf) + Len(wire)
    <3>1. i - Len(buf) \in 1 .. Len(wire)
      BY <1>1, <2>2
    <3> QED
      BY <1>1, <1>3, <2>2, <3>1 DEF Unread
  <2>3. CASE i = Len(buf) + Len(wire) + 1
    <3>1. i - Len(buf) = Len(wire) + 1
      BY <1>1, <2>3
    <3>2. Unread(i)' = wire'[Len(wire) + 1]
      BY <1>1, <1>3, <2>3, <3>1 DEF Unread
    <3> QED
      BY <1>1, <1>3, <2>3, <3>2 DEF Unread
  <2> QED
    BY <1>1, <1>4, <2>1, <2>2, <2>3
<1>6. Unread(n + 1)' = Byte(sent, written + 1)'
  BY <1>1, <1>3, <1>4 DEF Unread
<1>7. FrameAt(n + 1)' = sent' /\ PosAt(n + 1)' = written' + 1
  BY <1>6 DEF FrameAt, PosAt, Byte
<1>8. /\ sent' = IF written + 1 = FrameEnd(sent) THEN sent + 1 ELSE sent
      /\ written' = IF written + 1 = FrameEnd(sent) THEN 0 ELSE written + 1
  BY DEF Write, FrameEnd
<1> QED
  BY <1>1, <1>2, <1>4, <1>5, <1>7, <1>8 DEF FrameAt, PosAt

(* A payload that decodes to f begins behind the header of f, and the next *)
(* frame begins behind it.                                                 *)
LEMMA DecodedPlace ==
    ASSUME FrameTypes, Gapless, NEW f \in Ids, Decoded(f), NEW k, k = Len(buf)
    PROVE  /\ k = WireLength(f)
           /\ FrameAt(1) = f
           /\ FrameAt(k + 1) = f + 1 /\ PosAt(k + 1) = 1
<1>1. WireLength(f) \in Nat /\ WireLength(f) >= 1 /\ Len(wire) \in Nat /\ HeaderSize \in Nat
  BY WireLengths, FrameAssumption DEF FrameTypes
<1>2. buf = [i \in 1 .. WireLength(f) |-> Byte(f, HeaderSize + i)]
  <2>1. (HeaderSize + WireLength(f)) - (HeaderSize + 1) + 1 = WireLength(f)
    BY <1>1
  <2>2. \A i \in 1 .. WireLength(f) : HeaderSize + 1 + i - 1 = HeaderSize + i
    BY <1>1
  <2> QED
    BY <2>1, <2>2 DEF Decoded, Bytes
<1>3. Len(buf) = WireLength(f)
  BY <1>1, <1>2
<1>4. /\ buf[1].frame = f
      /\ buf[k].frame = f /\ buf[k].pos = HeaderSize + WireLength(f)
  BY <1>1, <1>2, <1>3 DEF Byte
<1>5. /\ FrameAt(1) = f
      /\ FrameAt(k) = f /\ PosAt(k) = FrameEnd(f)
      /\ k \in 1 .. Ahead - 1
  BY <1>1, <1>3, <1>4 DEF FrameAt, PosAt, Unread, FrameEnd, Ahead
<1> QED
  BY <1>3, <1>5 DEF Gapless

(* What was returned are numbers.                                          *)
LEMMA DeliveredType ==
    ASSUME FrameTypes
    PROVE  /\ delivered \in Seq(Ids)
           /\ Len(delivered) \in Nat /\ DOMAIN delivered = 1 .. Len(delivered)
           /\ \A i \in DOMAIN delivered : delivered[i] \in Nat
<1>1. delivered \in Seq(Ids)
  BY DEF FrameTypes
<1>2. Ids \subseteq Nat
  BY FrameAssumption DEF Ids
<1>3. /\ Len(delivered) \in Nat /\ DOMAIN delivered = 1 .. Len(delivered)
      /\ \A i \in DOMAIN delivered : delivered[i] \in Ids
  BY <1>1
<1> QED
  BY <1>1, <1>2, <1>3

(* Every action keeps the stream without gaps, behind what was returned.   *)
LEMMA StreamStep == StreamInv /\ [Next]_vars => StreamInv'
<1> SUFFICES ASSUME StreamInv, [Next]_vars
             PROVE  StreamInv'
  OBVIOUS
<1>1. FrameTypes /\ FrameTypes' /\ Gapless /\ ReturnedBefore
  BY TypesStep DEF StreamInv
<1>2. Ahead \in Nat /\ Ahead >= 1 /\ 1 \in 1 .. Ahead
  BY <1>1, UnreadType
<1>3. CASE Write
  <2>1. PICK n : n = Ahead
    OBVIOUS
  <2>2. Gapless'
    BY <1>1, <1>3, <2>1, Written, BackGrows DEF Write
  <2>3. FrameAt(1)' = FrameAt(1) /\ delivered' = delivered
    BY <1>1, <1>2, <1>3, <2>1, Written DEF Write, readVars
  <2> QED
    BY <1>1, <2>2, <2>3 DEF StreamInv, ReturnedBefore
<1>4. CASE Read \/ \E k \in DOMAIN wire : Damage(k)
  <2>1. /\ Ahead' = Ahead - 0
        /\ \A i \in 1 .. Ahead : FrameAt(i)' = FrameAt(i + 0) /\ PosAt(i)' = PosAt(i + 0)
    <3>1. \A i \in 1 .. Ahead : i + 0 = i
      BY <1>2
    <3> QED
      BY <1>1, <1>2, <1>4, <3>1, PlacesKept
  <2>2. sizes' = sizes /\ delivered' = delivered
    BY <1>4 DEF Read, Damage, readVars
  <2>3. Gapless'
    BY <1>1, <1>2, <2>1, <2>2, FrontTaken
  <2>4. FrameAt(1)' = FrameAt(1)
    BY <1>1, <1>2, <1>4, PlacesKept
  <2> QED
    BY <1>1, <2>2, <2>3, <2>4 DEF StreamInv, ReturnedBefore
<1>5. ASSUME buf' = <<>>, UNCHANGED <<sizes, wire, sent, written>>
      PROVE  /\ Gapless'
             /\ \E k : k = Len(buf) /\ FrameAt(1)' = FrameAt(k + 1) /\ FrameAt(1) <= FrameAt(k + 1)
  <2>1. PICK k : k = Len(buf)
    OBVIOUS
  <2>2. /\ k \in Nat /\ Ahead' = Ahead - k
        /\ \A i \in 1 .. Ahead' :
              FrameAt(i)' = FrameAt(i + k) /\ PosAt(i)' = PosAt(i + k)
    BY <1>1, <1>5, <2>1, BufferEmptied
  <2>3. Gapless'
    BY <1>1, <1>5, <2>2, FrontTaken
  <2>4. k + 1 \in 1 .. Ahead /\ 1 \in 1 .. Ahead'
    BY <1>1, <1>2, <2>1, <2>2 DEF FrameTypes, Ahead
  <2>5. FrameAt(1)' = FrameAt(k + 1)
    <3>1. 1 + k = k + 1
      BY <2>2
    <3> QED
      BY <2>2, <2>4, <3>1
  <2>6. FrameAt(1) <= FrameAt(k + 1)
    BY <1>1, <1>2, <2>2, <2>4 DEF Gapless
  <2> QED
    BY <2>1, <2>3, <2>5, <2>6
<1>6. ASSUME buf' = <<>>, UNCHANGED <<sizes, wire, sent, written, delivered>>
      PROVE  StreamInv'
  <2>1. PICK k : k = Len(buf) /\ FrameAt(1)' = FrameAt(k + 1) /\ FrameAt(1) <= FrameAt(k + 1)
    BY <1>5, <1>6
  <2>2. Gapless'
    BY <1>5, <1>6
  <2>3. \A i \in DOMAIN delivered : delivered[i] \in Nat
    BY <1>1, DeliveredType
  <2>4. FrameAt(1) \in Nat /\ FrameAt(k + 1) \in Nat
    <3>1. k + 1 \in 1 .. Ahead
      BY <1>1, <2>1 DEF FrameTypes, Ahead
    <3> QED
      BY <1>1, <1>2, <3>1, UnreadType
  <2> QED
    BY <1>1, <1>6, <2>1, <2>2, <2>3, <2>4 DEF StreamInv, ReturnedBefore
<1>7. CASE ReadHeader \/ Drop
  BY <1>6, <1>7 DEF ReadHeader, Drop
<1>8. CASE ReadPayload
  <2>1. CASE \E f \in Ids : Decoded(f) /\ header.checksum = f
    <3>1. PICK f \in Ids : Decoded(f) /\ header.checksum = f
      BY <2>1
    <3>2. PICK k : k = Len(buf) /\ FrameAt(1)' = FrameAt(k + 1)
      BY <1>5, <1>8 DEF ReadPayload
    <3>3. FrameAt(1) = f /\ FrameAt(1)' = f + 1
      BY <1>1, <3>1, <3>2, DecodedPlace
    <3>4. delivered' = Append(delivered, f) /\ delivered \in Seq(Ids) /\ f \in Nat
      BY <1>1, <1>8, <2>1, <3>1, FrameAssumption DEF ReadPayload, FrameTypes, Ids
    <3>5. \A i \in DOMAIN delivered : delivered[i] \in Nat /\ delivered[i] < f
      BY <1>1, <3>3, DeliveredType DEF ReturnedBefore
    <3>6. /\ DOMAIN delivered' = 1 .. Len(delivered) + 1
          /\ \A i \in 1 .. Len(delivered) : delivered'[i] = delivered[i]
          /\ delivered'[Len(delivered) + 1] = f
      BY <3>4
    <3>7. DOMAIN delivered = 1 .. Len(delivered) /\ Len(delivered) \in Nat
      BY <3>4
    <3>8. \A i \in DOMAIN delivered' : delivered'[i] < f + 1
      BY <3>4, <3>5, <3>6, <3>7
    <3>9. ASSUME NEW i \in DOMAIN delivered', NEW j \in DOMAIN delivered', i < j
          PROVE  delivered'[i] < delivered'[j]
      <4>1. CASE j = Len(delivered) + 1
        BY <3>5, <3>6, <3>7, <3>9, <4>1
      <4>2. CASE j # Len(delivered) + 1
        <5>1. i \in DOMAIN delivered /\ j \in DOMAIN delivered
          BY <3>6, <3>7, <3>9, <4>2
        <5> QED
          BY <1>1, <3>6, <3>7, <3>9, <5>1 DEF ReturnedBefore
      <4> QED
        BY <4>1, <4>2
    <3>10. Gapless'
      BY <1>5, <1>8 DEF ReadPayload
    <3> QED
      BY <1>1, <3>3, <3>8, <3>9, <3>10 DEF StreamInv, ReturnedBefore
  <2>2. CASE ~ \E f \in Ids : Decoded(f) /\ header.checksum = f
    BY <1>6, <1>8, <2>2 DEF ReadPayload
  <2> QED
    BY <2>1, <2>2
<1>9. CASE PeekIgnores \/ UNCHANGED vars
  <2>1. UNCHANGED <<sizes, sent, written, wire, buf, delivered>>
    BY <1>9 DEF PeekIgnores, vars, readVars
  <2> QED
    BY <1>1, <2>1 DEF StreamInv, Gapless, ReturnedBefore, Ahead, FrameAt, PosAt, Unread, Byte,
                      FrameEnd, WireLength
<1> QED
  BY <1>3, <1>4, <1>7, <1>8, <1>9 DEF Next, Reader

-----------------------------------------------------------------------------
(* Nothing is written or read yet: the stream is the first place.          *)
LEMMA StreamInit == Init => StreamInv
<1> SUFFICES ASSUME Init PROVE StreamInv
  OBVIOUS
<1>1. FrameTypes
  <2>1. WireLength(1) \in Nat /\ WireLength(1) >= 1 /\ 1 \in Ids
    BY FrameAssumption DEF Init, WireLength, Sizes, Ids
  <2>2. NoHeader.length \in Nat /\ NoHeader.checksum = NoSum
    BY DEF NoHeader
  <2>3. torn \in BOOLEAN /\ ignored \in BOOLEAN
    BY Zenon DEF Init
  <2>4. /\ wire \in Seq(WireBytes) /\ buf \in Seq(WireBytes) /\ delivered \in Seq(Ids)
    BY DEF Init
  <2> QED
    BY <2>1, <2>2, <2>3, <2>4, FrameAssumption DEF Init, FrameTypes
<1>2. Ahead = 1 /\ DOMAIN delivered = {}
  BY DEF Init, Ahead
<1>3. Gapless
  <2>1. FrameAt(1) \in Nat
    BY <1>1, <1>2, UnreadType
  <2> QED
    BY <1>2, <2>1 DEF Gapless
<1> QED
  BY <1>1, <1>2, <1>3 DEF StreamInv, ReturnedBefore

(* The unread stream has no gap and lies behind what was returned,         *)
(* whatever the wire damages and the caller of recv_frame drops.           *)
LEMMA StreamInductive == Spec => []StreamInv
BY StreamInit, StreamStep, PTL DEF Spec

(* recv_frame returns only messages that were sent, in the order they were *)
(* sent, each once: for every number of frames, every size, and however    *)
(* many bytes are damaged and calls dropped.                               *)
THEOREM OnlyWhatWasSentCorrect == Spec => []OnlyWhatWasSent
<1>1. StreamInv => OnlyWhatWasSent
  <2> SUFFICES ASSUME StreamInv PROVE OnlyWhatWasSent
    OBVIOUS
  <2>1. FrameTypes /\ Gapless /\ ReturnedBefore
    BY DEF StreamInv
  <2>2. FrameAt(1) <= sent /\ FrameAt(1) \in Nat /\ sent \in Nat
    BY <2>1, UnreadType DEF Gapless
  <2>3. \A i \in DOMAIN delivered : delivered[i] \in Ids
    BY <2>1 DEF FrameTypes
  <2> QED
    BY <2>1, <2>2, <2>3, DeliveredType DEF OnlyWhatWasSent, ReturnedBefore
<1> QED
  BY <1>1, StreamInductive, PTL

-----------------------------------------------------------------------------
(* What a header read from the beginning of frame f, or from anywhere      *)
(* else, can say.                                                          *)
LEMMA HeaderRead ==
    ASSUME FrameTypes, Gapless, Len(buf) = HeaderSize, NEW h \in Headers(buf)
    PROVE  /\ FrameAt(1) \in Ids /\ 1 + HeaderSize \in 1 .. Ahead
           /\ PosAt(1) = 1 => h.checksum \in {FrameAt(1), NoSum}
           /\ PosAt(1) # 1 => h.checksum = NoSum
           /\ PosAt(1) = 1 /\ (\A i \in 1 .. Len(buf) : buf[i].intact) =>
                 h.length = WireLength(FrameAt(1))
<1>1. /\ HeaderSize \in Nat /\ HeaderSize >= 1 /\ Len(buf) \in Nat /\ Len(wire) \in Nat
      /\ 1 \in 1 .. HeaderSize
  BY FrameAssumption DEF FrameTypes
<1>2. /\ FrameAt(1) = buf[1].frame /\ PosAt(1) = buf[1].pos
      /\ 1 \in 1 .. Ahead - 1 /\ 1 + HeaderSize \in 1 .. Ahead
  BY <1>1 DEF FrameAt, PosAt, Unread, Ahead
<1>3. FrameAt(1) \in Ids
  BY <1>2 DEF Gapless
<1>4. h.checksum \in {FrameAt(1), NoSum}
  BY <1>2 DEF Headers, FrameHeader
<1>5. ASSUME PosAt(1) # 1
      PROVE  h.checksum = NoSum
  <2>1. ~ \A i \in 1 .. HeaderSize : buf[i].frame = buf[1].frame /\ buf[i].pos = i
    BY <1>1, <1>2, <1>5
  <2>2. buf # Bytes(buf[1].frame, 1, HeaderSize)
    <3>1. Bytes(buf[1].frame, 1, HeaderSize)[1].pos = 1
      BY <1>1 DEF Bytes, Byte
    <3> QED
      BY <1>2, <1>5, <3>1
  <2> QED
    BY <2>1, <2>2 DEF Headers
<1>6. ASSUME PosAt(1) = 1, \A i \in 1 .. Len(buf) : buf[i].intact
      PROVE  h.length = WireLength(FrameAt(1))
  <2>1. WireLength(FrameAt(1)) \in Nat /\ WireLength(FrameAt(1)) >= 1
    BY <1>3, WireLengths
  <2>2. ASSUME NEW i \in 1 .. HeaderSize
        PROVE  buf[i] = Byte(buf[1].frame, i)
    <3>1. FrameAt(i) = buf[i].frame /\ PosAt(i) = buf[i].pos /\ i \in 1 .. Ahead
      BY <1>1 DEF FrameAt, PosAt, Unread, Ahead
    <3>2. buf[i].frame = buf[1].frame /\ buf[i].pos = i
      <4>1. CASE i = 1
        BY <1>2, <1>6, <4>1
      <4>2. CASE i > 1
        <5>1. PosAt(1) + (i - 1) <= FrameEnd(FrameAt(1))
          BY <1>1, <1>6, <2>1 DEF FrameEnd
        <5>2. FrameAt(i) = FrameAt(1) /\ PosAt(i) = PosAt(1) + (i - 1)
          BY <1>2, <3>1, <4>2, <5>1 DEF Gapless
        <5> QED
          BY <1>1, <1>2, <1>6, <3>1, <5>2
      <4> QED
        BY <1>1, <4>1, <4>2
    <3>3. buf[i].intact = TRUE /\ buf[i] \in WireBytes
      <4>1. buf[i] \in WireBytes /\ i \in 1 .. Len(buf)
        BY <1>1 DEF FrameTypes
      <4>2. buf[i].intact \in BOOLEAN
        BY <4>1 DEF WireBytes
      <4> QED
        BY <1>6, <4>1, <4>2, Zenon
    <3> QED
      BY <3>2, <3>3 DEF WireBytes, Byte
  <2>3. buf = [i \in 1 .. HeaderSize |-> Byte(buf[1].frame, i)]
    <3>1. buf \in [1 .. HeaderSize -> WireBytes]
      BY <1>1 DEF FrameTypes
    <3> QED
      BY <2>2, <3>1
  <2>4. Bytes(buf[1].frame, 1, HeaderSize) = [i \in 1 .. HeaderSize |-> Byte(buf[1].frame, i)]
    <3>1. HeaderSize - 1 + 1 = HeaderSize /\ \A i \in 1 .. HeaderSize : 1 + i - 1 = i
      BY <1>1
    <3> QED
      BY <3>1 DEF Bytes
  <2>5. h = FrameHeader(buf[1].frame)
    BY <2>3, <2>4 DEF Headers
  <2> QED
    BY <1>2, <2>5 DEF FrameHeader
<1> QED
  BY <1>2, <1>3, <1>4, <1>5, <1>6

(* The invariant, step by step.                                            *)
LEMMA InStepStep == FrameInv /\ [Next]_vars => InStep'
<1> SUFFICES ASSUME FrameInv, [Next]_vars
             PROVE  InStep'
  OBVIOUS
<1>1. FrameTypes /\ FrameTypes' /\ Gapless /\ InStep
  BY StreamStep DEF FrameInv, StreamInv
<1>2. /\ Ahead \in Nat /\ Ahead >= 1 /\ 1 \in 1 .. Ahead
      /\ Len(buf) \in Nat /\ Len(wire) \in Nat
      /\ damage \in Nat /\ drops \in Nat /\ HeaderSize \in Nat /\ HeaderSize >= 1
      /\ FrameAt(1) \in Nat /\ PosAt(1) \in Nat
      /\ NoSum \notin Ids
  BY <1>1, UnreadType, FrameAssumption DEF FrameTypes, NoSum, Ids
<1>3. CASE Write
  <2>1. PICK n : n = Ahead
    OBVIOUS
  <2>2. FrameAt(1)' = FrameAt(1) /\ PosAt(1)' = PosAt(1)
    BY <1>1, <1>2, <1>3, <2>1, Written
  <2>3. UNCHANGED <<sizes, stage, buf, header, delivered, torn, ignored, drops,
                    damage>>
    BY <1>3 DEF Write, readVars
  <2>4. damage = 0 => \A i \in 1 .. Len(wire') : wire'[i].intact
    <3>1. wire \in Seq(WireBytes) /\ Byte(sent, written + 1) \in WireBytes
      BY <1>1, <1>3, FrameAssumption DEF Write, FrameTypes, Ids, Byte, WireBytes
    <3>2. /\ Len(wire') = Len(wire) + 1
          /\ \A i \in 1 .. Len(wire) : wire'[i] = wire[i]
          /\ wire'[Len(wire) + 1] = Byte(sent, written + 1)
      BY <1>3, <3>1 DEF Write
    <3>3. Byte(sent, written + 1).intact
      BY DEF Byte
    <3>4. \A i \in 1 .. Len(wire') : i \in 1 .. Len(wire) \/ i = Len(wire) + 1
      BY <1>2, <3>2
    <3> QED
      BY <1>1, <3>2, <3>3, <3>4 DEF InStep
  <2>5. /\ Due' = Due /\ WireLength(Due)' = WireLength(Due)
        /\ drops' = drops /\ damage' = damage /\ torn' = torn /\ ignored' = ignored /\ stage' = stage
        /\ header' = header /\ delivered' = delivered /\ buf' = buf
    BY <2>3 DEF Due, WireLength
  <2> QED
    BY <1>1, <2>2, <2>4, <2>5 DEF InStep
<1>4. CASE Read
  <2>1. FrameAt(1)' = FrameAt(1) /\ PosAt(1)' = PosAt(1)
    BY <1>1, <1>2, <1>4, PlacesKept
  <2>2. /\ Due' = Due /\ WireLength(Due)' = WireLength(Due)
        /\ drops' = drops /\ damage' = damage /\ torn' = torn /\ ignored' = ignored /\ stage' = stage
        /\ header' = header /\ delivered' = delivered
    BY <1>4 DEF Read, Due, WireLength
  <2>3. /\ Len(buf') = Len(buf) + 1
        /\ Len(wire') = Len(wire) - 1 /\ Len(wire) >= 1
        /\ \A i \in 1 .. Len(buf) : buf'[i] = buf[i]
        /\ buf'[Len(buf) + 1] = wire[1]
        /\ \A i \in 1 .. Len(wire) - 1 : wire'[i] = wire[i + 1]
    BY <1>1, <1>4 DEF Read, FrameTypes
  <2>4. /\ \A i \in 1 .. Len(buf') : i \in 1 .. Len(buf) \/ i = Len(buf) + 1
        /\ \A i \in 1 .. Len(wire') : i \in 1 .. Len(wire) - 1 /\ i + 1 \in 1 .. Len(wire)
        /\ 1 \in 1 .. Len(wire)
    BY <1>2, <2>3
  <2>5. damage = 0 => \A i \in 1 .. Len(buf') : buf'[i].intact
    BY <1>1, <2>3, <2>4 DEF InStep
  <2>6. damage = 0 => \A i \in 1 .. Len(wire') : wire'[i].intact
    BY <1>1, <2>3, <2>4 DEF InStep
  <2> QED
    BY <1>1, <2>1, <2>2, <2>5, <2>6 DEF InStep
<1>5. ASSUME NEW k \in DOMAIN wire, Damage(k)
      PROVE  InStep'
  <2>1. FrameAt(1)' = FrameAt(1) /\ PosAt(1)' = PosAt(1)
    BY <1>1, <1>2, <1>5, PlacesKept
  <2>2. /\ Due' = Due
        /\ drops' = drops /\ torn' = torn /\ ignored' = ignored /\ stage' = stage
        /\ header' = header /\ delivered' = delivered
        /\ damage' # 0
    BY <1>2, <1>5 DEF Damage, readVars, Due
  <2> QED
    BY <1>1, <2>1, <2>2 DEF InStep
<1> DEFINE Counts == ~ignored /\ (drops = 0 \/ (drops = 1 /\ damage = 0))
<1>6. ASSUME buf' = <<>>, UNCHANGED <<sizes, wire, sent, written, damage>>
      PROVE  /\ damage' = 0 => \A i \in 1 .. Len(buf') : buf'[i].intact
             /\ damage' = 0 => \A i \in 1 .. Len(wire') : wire'[i].intact
             /\ \E k : /\ k = Len(buf)
                      /\ FrameAt(1)' = FrameAt(k + 1) /\ PosAt(1)' = PosAt(k + 1)
  <2>1. PICK k : k = Len(buf)
    OBVIOUS
  <2>2. /\ k \in Nat /\ Ahead' = Ahead - k
        /\ \A i \in 1 .. Ahead' :
              FrameAt(i)' = FrameAt(i + k) /\ PosAt(i)' = PosAt(i + k)
    BY <1>1, <1>6, <2>1, BufferEmptied
  <2>3. 1 \in 1 .. Ahead' /\ 1 + k = k + 1
    BY <1>2, <2>1, <2>2 DEF Ahead
  <2>4. FrameAt(1)' = FrameAt(k + 1) /\ PosAt(1)' = PosAt(k + 1)
    BY <2>2, <2>3
  <2>5. Len(buf') = 0
    BY <1>6
  <2> QED
    BY <1>1, <1>6, <2>1, <2>4, <2>5 DEF InStep
<1>7. CASE ReadHeader
  <2>1. PICK h \in Headers(buf) : /\ header' = h
                                 /\ stage' \in {"payload", "failed"}
    BY <1>7 DEF ReadHeader
  <2>2. PICK k : /\ k = Len(buf)
                 /\ FrameAt(1)' = FrameAt(k + 1) /\ PosAt(1)' = PosAt(k + 1)
    BY <1>6, <1>7 DEF ReadHeader
  <2>3. /\ k = HeaderSize /\ stage = "header"
        /\ delivered' = delivered /\ torn' = torn /\ ignored' = ignored
        /\ drops' = drops /\ damage' = damage
        /\ Due' = Due /\ WireLength(Due)' = WireLength(Due)
    BY <1>7, <2>2 DEF ReadHeader, Due, WireLength
  <2>4. /\ FrameAt(1) \in Ids /\ 1 + HeaderSize \in 1 .. Ahead
        /\ PosAt(1) = 1 => h.checksum \in {FrameAt(1), NoSum}
        /\ PosAt(1) # 1 => h.checksum = NoSum
        /\ PosAt(1) = 1 /\ (\A i \in 1 .. Len(buf) : buf[i].intact) =>
              h.length = WireLength(FrameAt(1))
    BY <1>1, <2>2, <2>3, HeaderRead
  <2>5. PosAt(1) = 1 => FrameAt(1)' = FrameAt(1) /\ PosAt(1)' = HeaderSize + 1
    <3>1. WireLength(FrameAt(1)) \in Nat /\ WireLength(FrameAt(1)) >= 1
      BY <1>1, <2>4, WireLengths
    <3>2. 1 \in 1 .. Ahead - 1 /\ 1 < 1 + HeaderSize /\ (1 + HeaderSize) - 1 = HeaderSize
      BY <1>2, <2>4
    <3>3. PosAt(1) = 1 => PosAt(1) + ((1 + HeaderSize) - 1) <= FrameEnd(FrameAt(1))
      BY <1>2, <3>1, <3>2 DEF FrameEnd
    <3>4. PosAt(1) = 1 => FrameAt(1 + HeaderSize) = FrameAt(1)
                          /\ PosAt(1 + HeaderSize) = PosAt(1) + ((1 + HeaderSize) - 1)
      BY <1>1, <2>4, <3>2, <3>3 DEF Gapless
    <3>5. k + 1 = 1 + HeaderSize
      BY <1>2, <2>3
    <3> QED
      BY <1>2, <2>2, <3>2, <3>4, <3>5
  <2>6. /\ damage' = 0 => \A i \in 1 .. Len(buf') : buf'[i].intact
        /\ damage' = 0 => \A i \in 1 .. Len(wire') : wire'[i].intact
    BY <1>6, <1>7 DEF ReadHeader
  <2>7. CASE Counts /\ ~torn
    <3>1. FrameAt(1) = Due /\ PosAt(1) = 1
      BY <1>1, <2>3, <2>7 DEF InStep
    <3>2. damage = 0 => h.length = WireLength(Due)
      BY <1>1, <2>4, <3>1 DEF InStep
    <3> QED
      BY <1>1, <2>1, <2>3, <2>4, <2>5, <2>6, <2>7, <3>1, <3>2 DEF InStep
  <2>8. CASE Counts /\ torn
    <3>1. h.checksum = NoSum
      BY <1>1, <2>3, <2>4, <2>8 DEF InStep
    <3> QED
      BY <1>1, <2>1, <2>3, <2>6, <2>8, <3>1 DEF InStep
  <2>9. CASE ~Counts
    BY <1>1, <2>3, <2>6, <2>9 DEF InStep
  <2> QED
    BY <2>7, <2>8, <2>9
<1>8. CASE ReadPayload
  <2>1. PICK k : /\ k = Len(buf)
                 /\ FrameAt(1)' = FrameAt(k + 1) /\ PosAt(1)' = PosAt(k + 1)
    BY <1>6, <1>8 DEF ReadPayload
  <2>2. /\ stage = "payload" /\ header' = header
        /\ torn' = torn /\ ignored' = ignored /\ drops' = drops /\ damage' = damage
    BY <1>8 DEF ReadPayload
  <2>3. /\ damage' = 0 => \A i \in 1 .. Len(buf') : buf'[i].intact
        /\ damage' = 0 => \A i \in 1 .. Len(wire') : wire'[i].intact
    BY <1>6, <1>8 DEF ReadPayload
  <2>4. CASE \E f \in Ids : Decoded(f) /\ header.checksum = f
    <3>1. PICK f \in Ids : Decoded(f) /\ header.checksum = f
      BY <2>4
    <3>2. FrameAt(1) = f /\ FrameAt(1)' = f + 1 /\ PosAt(1)' = 1
      BY <1>1, <2>1, <3>1, DecodedPlace
    <3>3. stage' = "header" /\ delivered' = Append(delivered, f)
      BY <1>8, <2>4, <3>1 DEF ReadPayload
    <3>4. /\ Len(delivered') = Len(delivered) + 1
          /\ DOMAIN delivered' = 1 .. Len(delivered) + 1
          /\ \A i \in 1 .. Len(delivered) : delivered'[i] = delivered[i]
          /\ delivered'[Len(delivered) + 1] = f
          /\ DOMAIN delivered = 1 .. Len(delivered) /\ Len(delivered) \in Nat
      BY <1>1, <3>3, DeliveredType
    <3>5. Counts => ~torn /\ f = Due
      BY <1>1, <1>2, <2>2, <3>1, <3>2 DEF InStep
    <3>6. f = Due => Due' = f + 1
      BY <3>4 DEF Due
    <3>7. Counts => \A i \in DOMAIN delivered' : delivered'[i] = i
      <4>1. Counts => \A i \in DOMAIN delivered : delivered[i] = i
        BY <1>1 DEF InStep
      <4>2. \A i \in DOMAIN delivered' : i \in DOMAIN delivered \/ i = Len(delivered) + 1
        BY <3>4
      <4> QED
        BY <3>4, <3>5, <4>1, <4>2 DEF Due
    <3> QED
      BY <1>1, <2>2, <2>3, <3>2, <3>3, <3>5, <3>6, <3>7 DEF InStep
  <2>5. CASE ~ \E f \in Ids : Decoded(f) /\ header.checksum = f
    <3>1. stage' = "failed" /\ delivered' = delivered
      BY <1>8, <2>5 DEF ReadPayload
    <3> QED
      BY <1>1, <2>2, <2>3, <3>1 DEF InStep
  <2> QED
    BY <2>4, <2>5
<1>9. CASE Drop
  <2>1. PICK k : /\ k = Len(buf)
                 /\ FrameAt(1)' = FrameAt(k + 1) /\ PosAt(1)' = PosAt(k + 1)
    BY <1>6, <1>9 DEF Drop
  <2>2. /\ stage \in {"header", "payload"} /\ stage' = "header" /\ header' = header
        /\ drops' = drops + 1 /\ damage' = damage /\ delivered' = delivered /\ Due' = Due
        /\ ignored' = ignored
        /\ k < Wanted /\ Ahead = k + 1 /\ k \in Nat
    BY <1>1, <1>2, <1>9, <2>1 DEF Drop, Waiting, Due, Ahead
  <2>3. torn' <=> (torn \/ stage = "payload" \/ k # 0)
    <3>1. buf # <<>> <=> k # 0
      BY <1>1, <2>1 DEF FrameTypes
    <3> QED
      BY <1>9, <3>1, Zenon DEF Drop
  <2>4. /\ damage' = 0 => \A i \in 1 .. Len(buf') : buf'[i].intact
        /\ damage' = 0 => \A i \in 1 .. Len(wire') : wire'[i].intact
    BY <1>6, <1>9 DEF Drop
  <2>5. CASE ~ignored /\ drops = 0 /\ damage = 0
    <3>1. ~torn
      BY <1>1, <2>5 DEF InStep
    <3>2. k # 0 /\ PosAt(1) + k <= FrameEnd(FrameAt(1)) => PosAt(k + 1) = PosAt(1) + k
      <4>1. k # 0 => 1 \in 1 .. Ahead - 1 /\ k + 1 \in 1 .. Ahead /\ 1 < k + 1
        BY <2>2
      <4>2. (k + 1) - 1 = k
        BY <2>2
      <4> QED
        BY <1>1, <4>1, <4>2 DEF Gapless
    <3>3. k # 0 => FrameAt(1) \in Ids
      BY <1>1, <2>2 DEF Gapless
    <3>4. CASE stage = "header" /\ k = 0
      <4>1. ~torn' /\ k + 1 = 1
        BY <2>3, <3>1, <3>4
      <4>2. FrameAt(1) = Due /\ PosAt(1) = 1
        BY <1>1, <2>5, <3>1, <3>4 DEF InStep
      <4> QED
        BY <1>1, <1>2, <2>1, <2>2, <2>4, <2>5, <4>1, <4>2 DEF InStep
    <3>5. CASE stage = "header" /\ k # 0
      <4>1. FrameAt(1) = Due /\ PosAt(1) = 1
        BY <1>1, <2>5, <3>1, <3>5 DEF InStep
      <4>2. k < HeaderSize
        BY <2>2, <3>5 DEF Wanted
      <4>3. WireLength(Due) \in Nat
        BY <1>1, <3>3, <3>5, <4>1, WireLengths
      <4>4. PosAt(k + 1) = 1 + k
        BY <1>2, <2>2, <3>2, <3>5, <4>1, <4>2, <4>3 DEF FrameEnd
      <4>5. PosAt(1)' # 1 /\ torn'
        BY <2>1, <2>2, <2>3, <3>5, <4>4
      <4> QED
        BY <1>1, <1>2, <2>2, <2>4, <2>5, <4>5 DEF InStep
    <3>6. CASE stage = "payload"
      <4>1. FrameAt(1) = Due /\ PosAt(1) = HeaderSize + 1 /\ header.length = WireLength(Due)
            /\ Due \in Ids
        BY <1>1, <2>5, <3>1, <3>6 DEF InStep
      <4>2. k < WireLength(Due) /\ WireLength(Due) \in Nat
        BY <1>1, <2>2, <3>6, <4>1, WireLengths DEF Wanted
      <4>3. PosAt(k + 1) = HeaderSize + 1 + k
        <5>1. CASE k = 0
          BY <1>2, <4>1, <5>1
        <5>2. CASE k # 0
          BY <1>2, <2>2, <3>2, <4>1, <4>2, <5>2 DEF FrameEnd
        <5> QED
          BY <5>1, <5>2
      <4>4. PosAt(1)' # 1 /\ torn'
        BY <1>2, <2>1, <2>2, <2>3, <3>6, <4>3
      <4> QED
        BY <1>1, <1>2, <2>2, <2>4, <2>5, <4>4 DEF InStep
    <3> QED
      BY <2>2, <3>4, <3>5, <3>6
  <2>6. CASE ~(~ignored /\ drops = 0 /\ damage = 0)
    <3>1. drops' # 0 /\ (~ignored' => ~(drops' = 1 /\ damage' = 0))
      BY <1>2, <2>2, <2>6
    <3> QED
      BY <2>4, <3>1 DEF InStep
  <2> QED
    BY <2>5, <2>6
<1>10. CASE UNCHANGED vars
  <2>1. UNCHANGED <<sizes, sent, written, wire, stage, buf, header, delivered, torn, ignored,
                    damage, drops>>
    BY <1>10 DEF vars, readVars
  <2> QED
    BY <1>1, <2>1 DEF InStep, FrameAt, PosAt, Unread, Byte, Due, WireLength
<1>11. CASE PeekIgnores
  <2>1. /\ UNCHANGED <<wire, buf, torn, drops, damage>>
        /\ ignored'
    BY <1>11 DEF PeekIgnores
  <2> QED
    BY <1>1, <2>1 DEF InStep
<1> QED
  BY <1>3, <1>4, <1>5, <1>7, <1>8, <1>9, <1>10, <1>11 DEF Next, Reader

(* The reader is in step with the sender, or has lost it for good.         *)
LEMMA FrameInductive == Spec => []FrameInv
<1>1. Init => InStep
  <2> SUFFICES ASSUME Init PROVE InStep
    OBVIOUS
  <2>1. /\ Len(buf) = 0 /\ Len(wire) = 0 /\ Len(delivered) = 0 /\ DOMAIN delivered = {}
        /\ sent = 1 /\ written = 0 /\ stage = "header" /\ torn = FALSE
    BY DEF Init
  <2>2. FrameAt(1) = 1 /\ PosAt(1) = 1 /\ Due = 1
    BY <2>1 DEF FrameAt, PosAt, Unread, Byte, Due
  <2> QED
    BY <2>1, <2>2 DEF InStep
<1>2. FrameInv /\ [Next]_vars => FrameInv'
  BY StreamStep, InStepStep DEF FrameInv
<1>3. Init => StreamInv
  BY StreamInit
<1> QED
  BY <1>1, <1>2, <1>3, PTL DEF Spec, FrameInv

(* recv_frame skips no message without an error: until a caller ignores an *)
(* error, as the peek of run_coordinator does, and as long as no call was  *)
(* dropped, or one and nothing is damaged, what it has returned are the    *)
(* first messages that were sent, for every number of frames and every     *)
(* size.                                                                   *)
THEOREM NoSilentSkipCorrect == Spec => []NoSilentSkip
<1>1. FrameInv => NoSilentSkip
  <2> SUFFICES ASSUME FrameInv, ~ignored, drops = 0 \/ (drops = 1 /\ damage = 0)
               PROVE  delivered = [i \in 1 .. Len(delivered) |-> i]
    BY DEF NoSilentSkip
  <2>1. \A i \in DOMAIN delivered : delivered[i] = i
    BY DEF FrameInv, InStep
  <2>2. delivered \in Seq(Ids)
    BY DEF FrameInv, StreamInv, FrameTypes
  <2> QED
    BY <2>1, <2>2
<1> QED
  BY <1>1, FrameInductive, PTL
=============================================================================
