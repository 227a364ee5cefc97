------------------------------ MODULE FrameStream ------------------------------
(***************************************************************************)
(* The two stream parsers: XR frames from the client (parserPush and       *)
(* parserPop of external_radio_protocol.cpp, driven by XrSession::feed)    *)
(* and DATA frames from the daemon (parser_push and parser_pop of          *)
(* loraham_framing.cpp, driven by LorahamBackend).  Both keep at most one  *)
(* frame's worth of bytes and are driven by the same loop; they differ in  *)
(* the header and in what they reject.                                     *)
(*                                                                         *)
(* A field of a header is one cell of the stream, whatever its width, and  *)
(* a payload byte is one cell: header <<magic, type, length, seq>> for XR  *)
(* and <<type, length>> for DATA.  Reads cut the stream anywhere.  Mutants *)
(* are as in LorahamBackend.                                               *)
(***************************************************************************)
EXTENDS Integers, Sequences, SequencesExt

CONSTANTS
    Cells,       \* values of a cell, an initial part of Nat
    MaxPayload,  \* kMaxPayload or kRxPayloadMax
    MaxStream,   \* bound on the length of a stream
    MaxRead      \* bound on the length of one read

ASSUME StreamAssumption ==
    /\ Cells \subseteq Nat /\ MaxPayload \in Nat
    /\ MaxStream \in Nat /\ MaxRead \in Nat

VARIABLES
    proto,     \* the protocol of this stream
    received,  \* everything read since the parser was reset
    chunk,     \* the last read
    off,       \* how much of it the parser has taken
    buf,       \* the parser's buffer
    frames,    \* the frames handed on
    pc         \* idle, feeding, failed (the parser gave the connection up) or
               \* closed (the handler of a frame did)

vars == <<proto, received, chunk, off, buf, frames, pc>>

HeaderLen(p) == IF p = "XR" THEN 4 ELSE 2
LengthOf(p, bytes) == IF p = "XR" THEN bytes[3] ELSE bytes[2]
Capacity == HeaderLen(proto) + MaxPayload

Magic == 1
KnownTypes == {1, 2}

LegalXr(bytes) == bytes[1] = Magic /\ bytes[2] \in KnownTypes
LegalData(bytes) == bytes[1] \in KnownTypes

(* Mutants: the largest frame is refused; any length is accepted. *)
LengthBelowMax(bytes) == LengthOf(proto, bytes) < MaxPayload
AnyLength(bytes) == TRUE

LengthLegal(bytes) == LengthOf(proto, bytes) <= MaxPayload

(* What a pop finds at the front of bytes. *)
PopResult(bytes) ==
    IF Len(bytes) < HeaderLen(proto) THEN "need_more"
    ELSE IF ~(IF proto = "XR" THEN LegalXr(bytes) ELSE LegalData(bytes))
            \/ ~LengthLegal(bytes) THEN "error"
    ELSE IF Len(bytes) < HeaderLen(proto) + LengthOf(proto, bytes) THEN "need_more"
    ELSE "frame"

FrontFrame(bytes) == SubSeq(bytes, 1, HeaderLen(proto) + LengthOf(proto, bytes))

Init ==
    /\ proto \in {"XR", "DATA"}
    /\ received = <<>> /\ chunk = <<>> /\ off = 0
    /\ buf = <<>> /\ frames = <<>> /\ pc = "idle"

(* recv returns some bytes. *)
Read ==
    /\ pc = "idle"
    /\ \E n \in 1 .. MaxRead : \E bytes \in [1 .. n -> Cells] :
          /\ Len(received) + n <= MaxStream
          /\ chunk' = bytes
          /\ received' = received \o bytes
    /\ off' = 0 /\ pc' = "feeding"
    /\ UNCHANGED <<proto, buf, frames>>

(* The frame goes to handle_frame or dispatch, which may end the connection: *)
(* the loop then returns, and the rest of the read is dropped.               *)
PopFrame ==
    /\ pc = "feeding" /\ PopResult(buf) = "frame"
    /\ pc' \in {"feeding", "closed"}
    /\ frames' = Append(frames, FrontFrame(buf))
    /\ buf' = SubSeq(buf, Len(FrontFrame(buf)) + 1, Len(buf))
    /\ UNCHANGED <<proto, received, chunk, off>>

PopError ==
    /\ pc = "feeding" /\ PopResult(buf) = "error"
    /\ pc' = "failed"
    /\ UNCHANGED <<proto, received, chunk, off, buf, frames>>

(* How many of the n bytes on offer a push takes. *)
Take(n) == IF n < Capacity - Len(buf) THEN n ELSE Capacity - Len(buf)

Push ==
    /\ pc = "feeding" /\ PopResult(buf) = "need_more" /\ off < Len(chunk)
    /\ LET took == Take(Len(chunk) - off)
           fits == SubSeq(chunk, off + 1, off + took)
       IN /\ buf' = buf \o fits
          /\ off' = off + took
          /\ pc' = IF took = 0 THEN "failed" ELSE "feeding"
    /\ UNCHANGED <<proto, received, chunk, frames>>

(* All of the read is in the parser, and no frame is complete. *)
ReadDone ==
    /\ pc = "feeding" /\ PopResult(buf) = "need_more" /\ off = Len(chunk)
    /\ pc' = "idle"
    /\ UNCHANGED <<proto, received, chunk, off, buf, frames>>

(* A new connection, after parserReset or parser_reset. *)
Reset ==
    /\ pc \in {"idle", "failed", "closed"}
    /\ buf' = <<>>
    /\ received' = <<>> /\ chunk' = <<>> /\ off' = 0 /\ frames' = <<>>
    /\ pc' = "idle"
    /\ UNCHANGED proto

Next == Read \/ PopFrame \/ PopError \/ Push \/ ReadDone \/ Reset
Spec == Init /\ [][Next]_vars
-------------------------------------------------------------------------------
(* Properties. *)

(* The reference: the frames of a stream of protocol p that is there in one *)
(* piece, up to its end or to the first complete header that is not legal.  *)
HeaderOK(p, s) ==
    IF p = "XR"
    THEN s[1] = Magic /\ s[2] \in KnownTypes /\ s[3] \in 0 .. MaxPayload
    ELSE s[1] \in KnownTypes /\ s[2] \in 0 .. MaxPayload
FirstFrame(p, s) == SubSeq(s, 1, HeaderLen(p) + LengthOf(p, s))
BehindFirst(p, s) == SubSeq(s, HeaderLen(p) + LengthOf(p, s) + 1, Len(s))
Decoding(p, s, ofRest) ==
    IF Len(s) < HeaderLen(p) THEN [frames |-> <<>>, bad |-> FALSE]
    ELSE IF ~HeaderOK(p, s) THEN [frames |-> <<>>, bad |-> TRUE]
    ELSE IF Len(s) < HeaderLen(p) + LengthOf(p, s) THEN [frames |-> <<>>, bad |-> FALSE]
    ELSE [frames |-> <<FirstFrame(p, s)>> \o ofRest[BehindFirst(p, s)].frames,
          bad |-> ofRest[BehindFirst(p, s)].bad]
Decode(p) ==
    LET decode[s \in Seq(Cells)] == Decoding(p, s, decode) IN decode

(* However the reads cut the stream, the loop hands on the frames that are  *)
(* in it, no more, no less and in order, and gives up exactly when it comes *)
(* to an illegal header.  Nothing of an earlier connection is in them.      *)
FramesExact ==
    /\ IsPrefix(frames, Decode(proto)[received].frames)
    /\ pc \in {"idle", "failed"} =>
          /\ frames = Decode(proto)[received].frames
          /\ (pc = "failed") = Decode(proto)[received].bad

(* The buffer never holds more than the largest frame, and a full one       *)
(* always yields a frame or an error: the branch that closes the connection *)
(* because a push took nothing is never reached.                            *)
NeverStuck ==
    /\ Len(buf) <= Capacity
    /\ PopResult(buf) = "need_more" => Len(buf) < Capacity
===============================================================================
