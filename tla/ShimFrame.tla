------------------------------ MODULE ShimFrame ------------------------------
(***************************************************************************)
(* The bytes of a shim-to-cosca frame (elevation/shim/protocol.rs) and how *)
(* ShimLink reads them (link/state.rs, read_frame): in whatever pieces the *)
(* connection gives, decoding again after each piece, until the outcome is *)
(* settled or the connection ends.                                         *)
(***************************************************************************)
EXTENDS Integers, Sequences, SequencesExt

CONSTANTS
  Payload,   \* the payload bytes of the instance
  MaxWire    \* bound: bytes a shim writes, of a frame or of anything else

ASSUME FrameAssumption == Payload \subseteq 0 .. 255 /\ 0 \in Payload /\ MaxWire \in Nat

VARIABLES
  wire,      \* what the shim writes before its end closes
  got,       \* Inner.frame[..frame_len]
  failed,    \* a read failed
  outcome    \* Inner.outcome

vars == <<wire, got, failed, outcome>>

H == 72
S == 83
L == 76
U == 85
F == 70
R == 82

FRAME_LEN == 5
Refusals == 122 .. 125
Kinds == 1 .. 4

\* i32::to_le_bytes and from_le_bytes
LeBytes(v) == [i \in 1 .. 4 |-> (v \div 256 ^ (i - 1)) % 256]
FromLeBytes(p) == p[1] + 256 * p[2] + 65536 * p[3] + 16777216 * (IF p[4] < 128 THEN p[4] ELSE p[4] - 256)

\* Frame: a tag and what it carries.
Status(tag, ws) == [tag |-> tag, ws |-> ws]
NotExecuted(kind, value) == [tag |-> F, kind |-> kind, value |-> value]
Refused(code) == [tag |-> R, code |-> code]
Hello == [tag |-> H]
StatusLost == [tag |-> U]

\* Frame::encode
Encode(f) ==
  CASE f.tag = H -> <<H>>
    [] f.tag \in {S, L} -> <<f.tag>> \o LeBytes(f.ws)
    [] f.tag = U -> <<U>> \o LeBytes(0)
    [] f.tag = F -> <<F>> \o LeBytes(65536 * f.kind + f.value)
    [] f.tag = R -> <<R>> \o LeBytes(f.code)

\* payload_byte_ok: whether p[i] can belong to a frame, given what precedes it.
PayloadByteOk(tag, p, i) ==
  CASE tag = U \/ (tag = R /\ i > 1) -> p[i] = 0
    [] tag = R /\ i = 1 -> p[1] \in Refusals
    [] tag = F /\ i = 2 -> p[1] # 0 \/ p[2] # 0
    [] tag = F /\ i = 3 -> p[3] \in Kinds
    [] tag = F /\ i = 4 -> p[4] = 0
    [] OTHER -> TRUE

\* A whole payload's frame.
Decoded(tag, p) ==
  LET value == FromLeBytes(p) IN
  CASE tag \in {S, L} -> Status(tag, value)
    [] tag = U -> StatusLost
    [] tag = R -> Refused(p[1])
    [] tag = F -> NotExecuted(value \div 65536, value % 65536)

\* decode_frame: a frame, or why not.
DecodeFrame(bytes) ==
  IF bytes = <<>> THEN [error |-> "Truncated"]
  ELSE LET tag == Head(bytes)
           p == Tail(bytes)
       IN IF tag \notin {H, S, L, U, F, R} THEN [error |-> "Garbled"]
          ELSE IF tag = H THEN (IF p = <<>> THEN [ok |-> Hello] ELSE [error |-> "Garbled"])
          ELSE IF Len(p) > 4 \/ \E i \in DOMAIN p : i <= 4 /\ ~PayloadByteOk(tag, p, i) THEN [error |-> "Garbled"]
          ELSE IF Len(p) < 4 THEN [error |-> "Truncated"]
          ELSE [ok |-> Decoded(tag, p)]

\* LinkOutcome
Unsettled == [is |-> "none"]
ShimLost == [is |-> "ShimLost"]
Of(frame) == [is |-> "frame", frame |-> frame]

\* Mutant: a frame not yet whole is given up.
ClassifyHasty(bytes, eof) ==
  LET d == DecodeFrame(bytes) IN
  IF "ok" \in DOMAIN d THEN Of(d.ok) ELSE IF eof \/ bytes # <<>> THEN ShimLost ELSE Unsettled

\* classify: the outcome the bytes read so far settle, if any.
Classify(bytes, eof) ==
  LET d == DecodeFrame(bytes) IN
  CASE "ok" \in DOMAIN d -> IF d.ok = Hello THEN ShimLost ELSE Of(d.ok)
    [] "error" \in DOMAIN d -> IF eof \/ d.error = "Garbled" THEN ShimLost ELSE Unsettled

-----------------------------------------------------------------------------
(* read_frame over any chunking of the wire *)

Init ==
  /\ wire \in UNION {[1 .. n -> Payload] : n \in 0 .. MaxWire - 1}
              \cup {<<t>> \o p : t \in {H, S, L, U, F, R}, p \in UNION {[1 .. n -> Payload] : n \in 0 .. MaxWire - 1}}
  /\ got = <<>> /\ failed = FALSE /\ outcome = Unsettled

Reading == outcome.is = "none" /\ UNCHANGED wire

\* Read::Bytes(n): as much as is there, and fits.
ReadsBytes(n) ==
  /\ Reading /\ Len(got) + n <= Len(wire) /\ Len(got) + n <= FRAME_LEN
  /\ got' = SubSeq(wire, 1, Len(got) + n)
  /\ outcome' = Classify(got', FALSE)
  /\ UNCHANGED failed

ReadsEof ==
  /\ Reading /\ got = wire
  /\ outcome' = Classify(got, TRUE)
  /\ UNCHANGED <<got, failed>>

ReadFails ==
  /\ Reading /\ outcome' = ShimLost /\ failed' = TRUE /\ UNCHANGED got

Settled == outcome.is # "none" /\ UNCHANGED vars

Next == (\E n \in 1 .. FRAME_LEN : ReadsBytes(n)) \/ ReadsEof \/ ReadFails \/ Settled

Spec == Init /\ [][Next]_vars

-----------------------------------------------------------------------------
(* The frames of the protocol, as the reference *)

Words == {FromLeBytes(p) : p \in [1 .. 4 -> Payload]}

AllFrames ==
  {Hello, StatusLost} \cup {Status(t, w) : t \in {S, L}, w \in Words} \cup {Refused(c) : c \in Refusals}
  \cup {NotExecuted(k, v) : k \in Kinds, v \in {p[1] + 256 * p[2] : p \in [1 .. 2 -> Payload]} \ {0}}

Encodings == {Encode(f) : f \in AllFrames}
Beginnings == UNION {Prefixes(e) : e \in Encodings}

\* Frame::encode and decode_frame are inverse, and an outcome depends on the
\* bytes and not on the pieces they came in: it is the frame that was written,
\* and ShimLost if none was.  A hello in its place is no outcome.  A frame is
\* given up before the connection ends only if what was read is no frame's
\* beginning, "whatever follows" (FrameError), and the reader goes on only while
\* it is one.
OutcomeIsTheFrame ==
  LET first == SubSeq(wire, 1, IF Len(wire) < FRAME_LEN THEN Len(wire) ELSE FRAME_LEN)
      frames == AllFrames \ {Hello}
  IN /\ outcome.is = "frame" => outcome.frame \in frames /\ Encode(outcome.frame) = first
     /\ outcome.is = "ShimLost" /\ ~failed => first \notin Encodings \ {<<H>>}
     /\ outcome.is = "none" => got \in Beginnings
     /\ outcome.is = "ShimLost" /\ ~failed /\ got # <<H>> => got \notin Beginnings \/ got = wire
=============================================================================
