------------------------------ MODULE BarcoFrame ------------------------------
(***************************************************************************)
(* The framing of the projector protocol (protocol.py): building, escaping, *)
(* unescaping and parsing, and the reader that cuts the byte stream into   *)
(* frames.  Bytes are numbers; TLC takes a handful of them.                *)
(***************************************************************************)
EXTENDS Naturals, Sequences, SequencesExt

CONSTANTS
    Addresses,   \* addresses of projectors
    Bytes,       \* the byte values of payloads
    Noise,       \* what may precede a frame: bytes without a STOP
    MaxPayload,  \* bound: bytes in a command and its data
    MaxFrames    \* bound: frames sent

START == 254
STOP == 255
ESCAPE == 128

ASSUME BytesAssumption == Addresses \cup Bytes \subseteq 0 .. 255
ASSUME NoiseAssumption == \A n \in Noise : n \in Seq((0 .. 255) \ {STOP})
ASSUME BoundsAssumption == MaxPayload \in Nat \ {0} /\ MaxFrames \in Nat

\* The escaped bytes and what follows ESCAPE in their place: 0, 126, 127.
Escaped == [b \in {ESCAPE, START, STOP} |-> b - ESCAPE]

_escape(payload) ==
    FlattenSeq([n \in 1 .. Len(payload) |->
        IF payload[n] \in DOMAIN Escaped THEN <<ESCAPE, Escaped[payload[n]]>> ELSE <<payload[n]>>])

\* One byte more: after an escape byte it stands for another one, unless the
\* pair is no escape sequence; then both are kept.
UnescapeByte(sofar, byte) ==
    IF sofar.escape
      THEN [escape |-> FALSE,
            out |-> IF \E b \in DOMAIN Escaped : Escaped[b] = byte
                      THEN Append(sofar.out, CHOOSE b \in DOMAIN Escaped : Escaped[b] = byte)
                      ELSE sofar.out \o <<ESCAPE, byte>>]
      ELSE [escape |-> byte = ESCAPE,
            out |-> IF byte = ESCAPE THEN sofar.out ELSE Append(sofar.out, byte)]

_unescape(payload) ==
    LET all == FoldLeft(UnescapeByte, [escape |-> FALSE, out |-> <<>>], payload)
    IN IF all.escape THEN Append(all.out, ESCAPE) ELSE all.out

Sum256(bytes) == FoldLeft(LAMBDA total, b : (total + b) % 256, 0, bytes)

\* Mutant: the checksum goes out as it is.
build_frame_raw_checksum(address, body) ==
    <<START>> \o _escape(<<address>>) \o _escape(body)
        \o <<Sum256(<<address>> \o body), STOP>>

build_frame(address, body) ==
    <<START>> \o _escape(<<address>>) \o _escape(body)
        \o _escape(<<Sum256(<<address>> \o body)>>) \o <<STOP>>

\* Mutant: a frame begins at the first START.
FirstStart(raw) == SelectInSeq(raw, LAMBDA b : b = START)
LastStart(raw) == SelectLastInSeq(raw, LAMBDA b : b = START)

\* BarcoProtocolError, for which no frame is taken.
Malformed == <<>>

\* A wrong checksum is only logged.
parse_frame(raw) ==
    LET start == LastStart(raw)
        content == _unescape(SubSeq(raw, start + 1, Len(raw) - 1))
    IN IF start = 0 \/ raw[Len(raw)] # STOP \/ Len(content) < 3
         THEN Malformed
         ELSE <<content[1], SubSeq(content, 2, Len(content) - 1)>>
------------------------------------------------------------------------------
VARIABLES
    wire,     \* bytes sent and not yet read
    sent,     \* <<address, payload>> of the frames sent
    received  \* what parse_frame made of the frames read

vars == <<wire, sent, received>>

Init == wire = <<>> /\ sent = <<>> /\ received = <<>>

Payloads == UNION {[1 .. n -> Bytes] : n \in 1 .. MaxPayload}

Send(address, payload, noise) ==
    /\ Len(sent) < MaxFrames
    /\ wire' = wire \o noise \o build_frame(address, payload)
    /\ sent' = Append(sent, <<address, payload>>)
    /\ UNCHANGED received

\* readuntil(STOP).
_read_frame ==
    LET stop == SelectInSeq(wire, LAMBDA b : b = STOP) IN
    /\ stop # 0
    /\ received' = Append(received, parse_frame(SubSeq(wire, 1, stop)))
    /\ wire' = SubSeq(wire, stop + 1, Len(wire))
    /\ UNCHANGED sent

Next ==
    \/ \E address \in Addresses, payload \in Payloads, noise \in Noise : Send(address, payload, noise)
    \/ _read_frame

Spec == Init /\ [][Next]_vars
------------------------------------------------------------------------------
\* What is read is what was sent, frame by frame: no byte of an address, a
\* payload or a checksum ends a frame or begins one, no two payloads share a
\* frame, and neither noise nor the beginning of a frame that was cut off takes
\* the frame behind it along.
ReadAsSent == IsPrefix(received, sent)

\* Once the wire is empty, every frame has been read.
NothingLost == wire = <<>> => received = sent
==============================================================================
