-------------------------------- MODULE Frame -------------------------------
(***************************************************************************)
(* One direction of a connection at the level of bytes (protocol/frame.rs):*)
(* send_frame_with_threshold writes a header and a payload, recv_frame     *)
(* reads them with two read_exact, and a caller may drop recv_frame in the *)
(* middle, as the 50 ms peek of run_coordinator does.  The peek also       *)
(* forgets an error: the stream is kept and read again.                    *)
(*                                                                         *)
(* A byte is known by the frame and the position it was written at, and by *)
(* whether the wire has damaged it.  A header that is not the intact       *)
(* header of one frame reads as an arbitrary one.  CRC32C and LZ4 are      *)
(* external: a checksum agrees with the payload it was computed on and     *)
(* with no other, and only what was compressed decompresses to it.         *)
(***************************************************************************)
EXTENDS Naturals, Sequences

CONSTANTS
    Frames,             \* number of messages to send
    HeaderSize,         \* FRAME_HEADER_SIZE
    MaxEncoded,         \* longest encoding of a message
    MaxPayloadSize,     \* max_payload_size of the reader
    Threshold,          \* compression_threshold of the sender
    MaxDamage,          \* bytes the wire may damage
    MaxDrops            \* calls of recv_frame that may be dropped

ASSUME FrameAssumption ==
    /\ Frames \in Nat \ {0}
    /\ HeaderSize \in Nat \ {0}
    /\ MaxEncoded \in Nat \ {0}
    /\ MaxPayloadSize \in Nat
    /\ Threshold \in Nat
    /\ MaxDamage \in Nat
    /\ MaxDrops \in Nat

Ids == 1 .. Frames
NoSum == 0                          \* the checksum of no message

VARIABLES
    sizes,          \* of every message: encoded length, length on the wire
    sent, written,  \* frame being written, bytes of it written
    wire,           \* bytes on their way
    stage,          \* recv_frame: "header", "payload", or "failed"
    buf,            \* the buffer read_exact is filling
    header,         \* the FrameHeader, once read
    delivered,      \* messages recv_frame has returned
    torn,           \* history: a call was dropped in the middle of a frame
    ignored,        \* history: the peek forgot an error and read on
    damage, drops

readVars == <<stage, buf, header, delivered, torn, ignored, drops>>
vars == <<sizes, sent, written, wire, readVars, damage>>

-----------------------------------------------------------------------------
(* Compression happens from the threshold on; with its size prefix it may  *)
(* also lengthen a payload.                                                *)
Sizes ==
    {z \in [encoded : 1 .. MaxEncoded, onwire : 1 .. MaxEncoded + 1] :
        z.encoded < Threshold => z.onwire = z.encoded}
Compressed(f) == sizes[f].encoded >= Threshold
WireLength(f) == sizes[f].onwire

(* The header of frame f: the length is the one on the wire, the checksum  *)
(* the one of the uncompressed message.                                    *)
FrameHeader(f) ==
    [length |-> WireLength(f), checksum |-> f, compressed |-> Compressed(f),
     unknown |-> FALSE]

Byte(f, i) == [frame |-> f, pos |-> i, intact |-> TRUE]
Bytes(f, from, to) == [i \in 1 .. to - from + 1 |-> Byte(f, from + i - 1)]

NoHeader == [length |-> 0, checksum |-> NoSum, compressed |-> FALSE, unknown |-> FALSE]

Init ==
    /\ sizes \in [Ids -> Sizes]
    /\ sent = 1
    /\ written = 0
    /\ wire = <<>>
    /\ stage = "header"
    /\ buf = <<>>
    /\ header = NoHeader
    /\ delivered = <<>>
    /\ torn = FALSE
    /\ ignored = FALSE
    /\ damage = 0
    /\ drops = 0

-----------------------------------------------------------------------------
(* Mutant of Write: the last byte waits for a flush that never comes.      *)
WriteUnflushed ==
    /\ sent <= Frames
    /\ sent < Frames \/ written + 1 < HeaderSize + WireLength(sent)
    /\ wire' = Append(wire, Byte(sent, written + 1))
    /\ LET last == written + 1 = HeaderSize + WireLength(sent)
       IN  /\ sent' = IF last THEN sent + 1 ELSE sent
           /\ written' = IF last THEN 0 ELSE written + 1
    /\ UNCHANGED <<sizes, readVars, damage>>

(* send_frame: header, then payload; the wire takes them byte by byte.     *)
Write ==
    /\ sent <= Frames
    /\ wire' = Append(wire, Byte(sent, written + 1))
    /\ LET last == written + 1 = HeaderSize + WireLength(sent)
       IN  /\ sent' = IF last THEN sent + 1 ELSE sent
           /\ written' = IF last THEN 0 ELSE written + 1
    /\ UNCHANGED <<sizes, readVars, damage>>

Damage(i) ==
    /\ damage < MaxDamage
    /\ damage' = damage + 1
    /\ wire[i].intact
    /\ wire' = [wire EXCEPT ![i].intact = FALSE]
    /\ UNCHANGED <<sizes, sent, written, readVars>>

-----------------------------------------------------------------------------
(***************************************************************************)
(* recv_frame.                                                             *)
(***************************************************************************)
Wanted == IF stage = "header" THEN HeaderSize ELSE header.length

Read ==
    /\ stage \in {"header", "payload"}
    /\ Len(buf) < Wanted
    /\ wire # <<>>
    /\ buf' = Append(buf, Head(wire))
    /\ wire' = Tail(wire)
    /\ UNCHANGED <<sizes, sent, written, stage, header, delivered, torn,
                   ignored, drops, damage>>

(* What nine bytes may read as.  Damage to a header of one frame can leave *)
(* its checksum alone; the checksum of anything else agrees with nothing.  *)
Headers(bytes) ==
    LET f == bytes[1].frame
    IN  IF bytes = Bytes(f, 1, HeaderSize) THEN {FrameHeader(f)}
        ELSE [length : 0 .. MaxPayloadSize + 1,
              checksum : IF \A i \in 1 .. HeaderSize : bytes[i].frame = f /\ bytes[i].pos = i
                         THEN {f, NoSum} ELSE {NoSum},
              compressed : BOOLEAN, unknown : BOOLEAN]

(* Unknown flags, then the size, are refused before the payload buffer is  *)
(* allocated.                                                              *)
ReadHeader ==
    /\ stage = "header"
    /\ Len(buf) = HeaderSize
    /\ \E h \in Headers(buf) :
          /\ header' = h
          /\ IF h.unknown \/ h.length > MaxPayloadSize
             THEN stage' = "failed"
             ELSE stage' = "payload"
    /\ buf' = <<>>
    /\ UNCHANGED <<sizes, sent, written, wire, delivered, torn, ignored, drops,
                   damage>>

(* The payload of frame f, decompressed as the header says, is message f.  *)
Decoded(f) ==
    /\ buf = Bytes(f, HeaderSize + 1, HeaderSize + WireLength(f))
    /\ header.compressed = Compressed(f)

(* Mutant of ReadPayload: the checksum is not compared.                    *)
ReadPayloadUnchecked ==
    /\ stage = "payload"
    /\ Len(buf) = header.length
    /\ IF header.compressed /\ ~ \E f \in Ids : Decoded(f)
       THEN stage' = "failed" /\ delivered' = delivered
       ELSE stage' = "header" /\ delivered' = Append(delivered,
                IF \E f \in Ids : Decoded(f) THEN CHOOSE f \in Ids : Decoded(f) ELSE NoSum)
    /\ buf' = <<>>
    /\ UNCHANGED <<sizes, sent, written, wire, header, torn, ignored, drops, damage>>

(* Mutant of ReadPayload: a bad frame is skipped and the next one read.    *)
ReadPayloadSkips ==
    /\ stage = "payload"
    /\ Len(buf) = header.length
    /\ delivered' = IF \E f \in Ids : Decoded(f) /\ header.checksum = f
                    THEN Append(delivered, header.checksum) ELSE delivered
    /\ stage' = "header"
    /\ buf' = <<>>
    /\ UNCHANGED <<sizes, sent, written, wire, header, torn, ignored, drops, damage>>

(* Decompress, compare the checksum of the result, decode.                 *)
ReadPayload ==
    /\ stage = "payload"
    /\ Len(buf) = header.length
    /\ IF \E f \in Ids : Decoded(f) /\ header.checksum = f
       THEN stage' = "header" /\ delivered' = Append(delivered, header.checksum)
       ELSE stage' = "failed" /\ delivered' = delivered
    /\ buf' = <<>>
    /\ UNCHANGED <<sizes, sent, written, wire, header, torn, ignored, drops, damage>>

(* tokio::time::timeout drops recv_frame while it waits for bytes: those   *)
(* it has taken are gone.                                                  *)
Waiting ==
    /\ stage \in {"header", "payload"}
    /\ wire = <<>>
    /\ Len(buf) < Wanted

Drop ==
    /\ Waiting
    /\ drops < MaxDrops
    /\ drops' = drops + 1
    /\ torn' = (torn \/ stage = "payload" \/ buf # <<>>)
    /\ stage' = "header"
    /\ buf' = <<>>
    /\ UNCHANGED <<sizes, sent, written, wire, header, delivered, ignored,
                   damage>>

(* The peek of run_coordinator matches only Ok(Ok(..)): a call that ended  *)
(* in an error leaves the stream in place, and the next call reads on.     *)
PeekIgnores ==
    /\ stage = "failed"
    /\ stage' = "header"
    /\ ignored' = TRUE
    /\ UNCHANGED <<sizes, sent, written, wire, buf, header, delivered, torn, drops,
                   damage>>

Reader == Read \/ ReadHeader \/ ReadPayload

Next ==
    \/ Write
    \/ \E i \in DOMAIN wire : Damage(i)
    \/ Reader
    \/ Drop
    \/ PeekIgnores

(* The sender finishes what it began, the reader reads what is there.      *)
Spec == Init /\ [][Next]_vars /\ WF_vars(Write) /\ WF_vars(Reader)
-----------------------------------------------------------------------------
(* Whatever is damaged, dropped or misread, recv_frame returns only        *)
(* messages that were sent, in the order they were sent, each once.        *)
OnlyWhatWasSent ==
    /\ \A i \in DOMAIN delivered : delivered[i] \in Ids /\ delivered[i] < sent
    /\ \A i, j \in DOMAIN delivered : i < j => delivered[i] < delivered[j]

(* recv_frame skips no message without an error: after damage, or after    *)
(* one call was dropped in the middle of a frame, the stream is mute or    *)
(* the next call fails, and nothing that was sent later is returned before *)
(* a caller has ignored an error, as only the peek of run_coordinator      *)
(* does.  (Two dropped calls may put the reader in step again, one message *)
(* short, with no error at all.)                                           *)
NoSilentSkip ==
    ~ignored /\ (drops = 0 \/ (drops = 1 /\ damage = 0)) =>
        delivered = [i \in 1 .. Len(delivered) |-> i]

(* Every message of an undisturbed stream is returned, the one of exactly  *)
(* max_payload_size and the one at the compression threshold included.     *)
AllArrive ==
    <>(\/ Len(delivered) = Frames
       \/ torn \/ damage > 0 \/ \E f \in Ids : WireLength(f) > MaxPayloadSize)
=============================================================================
