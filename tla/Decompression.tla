--------------------------- MODULE Decompression ----------------------------
(***************************************************************************)
(* DecompressingStream: the chunks of a response body are fed to the       *)
(* decoder of its Content-Encoding, whose output goes through Sink.write   *)
(* into a body ring that another process drains at the same time.          *)
(*                                                                         *)
(* The compressed body is InputLen units, every one of which decodes to    *)
(* Ratio units of plaintext; plaintext units are named by their position,  *)
(* 0 being garbage.  What sets the decoders apart is where they think they *)
(* are in the stream: identity copies, gzip and deflate remember (and may  *)
(* hold back output of what they have taken in), and the brotli and zstd   *)
(* decoders of the engine start afresh on every call.                      *)
(***************************************************************************)
EXTENDS Naturals, Sequences

CONSTANTS
  Codings,     \* codings a body may have
  InputLen,    \* units of the compressed body
  Ratio,       \* plaintext units of a compressed unit
  OutCap,      \* out_buf: plaintext units one decoder call may produce
  Capacity     \* of the body ring

ASSUME DecompressionAssumption ==
  /\ Codings \subseteq {"identity", "gzip", "br", "zstd"}
  /\ {InputLen, Ratio, OutCap, Capacity} \subseteq Nat \ {0}

VARIABLES
  coding,      \* DecompressingStream.coding
  consumed,    \* input units identity, gzip or deflate has taken in
  produced,    \* plaintext units it has handed out
  fed,         \* units of the chunks that feed has accepted
  chunkEnd,    \* end of the chunk being fed
  in_offset,   \* feedImpl: position in the body of the rest of the chunk
  pending,     \* plaintext sink.write has yet to place
  call,        \* "none", "decode" or "write"
  caller,      \* "feeding" or "failed": feed returned an error
  written,     \* all plaintext committed to the ring
  used,        \* ring bytes not yet released
  is_closed    \* BodyRingDescriptor.is_closed

feedVars == <<consumed, produced, fed, chunkEnd, in_offset, pending>>
vars == <<coding, consumed, produced, fed, chunkEnd, in_offset, pending, call,
          caller, written, used, is_closed>>

PlainRatio == IF coding = "identity" THEN 1 ELSE Ratio
BodyLen      == InputLen * PlainRatio

(* The plaintext of n units of it from position p on. *)
Plain(p, n) == [i \in 1 .. n |-> p + i]
Garbage(n)  == [i \in 1 .. n |-> 0]

Smaller(a, b) == IF a < b THEN a ELSE b

Init ==
  /\ coding \in Codings
  /\ consumed = 0 /\ produced = 0 /\ fed = 0 /\ chunkEnd = 0 /\ in_offset = 0
  /\ pending = << >> /\ call = "none" /\ caller = "feeding"
  /\ written = << >> /\ used = 0 /\ is_closed = FALSE

-----------------------------------------------------------------------------
(* DecompressingStream.feed of the next n units. *)
Feed(n) ==
  /\ call = "none" /\ caller = "feeding" /\ ~is_closed
  /\ fed + n <= InputLen
  /\ chunkEnd' = fed + n
  /\ in_offset' = fed
  /\ call' = "decode"
  /\ UNCHANGED <<coding, consumed, produced, fed, pending, caller, written, used,
                 is_closed>>

(* Identity hands the whole chunk to the sink. *)
DecodeIdentity ==
  /\ call = "decode" /\ coding = "identity" /\ in_offset < chunkEnd
  /\ pending' = Plain(in_offset, chunkEnd - in_offset)
  /\ in_offset' = chunkEnd
  /\ consumed' = chunkEnd /\ produced' = chunkEnd
  /\ call' = "write"
  /\ UNCHANGED <<coding, fed, chunkEnd, caller, written, used, is_closed>>

(* gzip and deflate take n units of the rest of the chunk and hand out k   *)
(* of the plaintext units they have by then, as many as out_buf holds; the *)
(* others stay in the decoder.  Without output the loop goes on only when  *)
(* the chunk is used up.  If the chunk is not what follows the units taken *)
(* before, the output is garbage.                                          *)
DecodeGzip(n, k) ==
  /\ call = "decode" /\ coding = "gzip" /\ in_offset < chunkEnd
  /\ in_offset + n <= chunkEnd
  /\ k <= OutCap /\ produced + k <= (consumed + n) * Ratio
  /\ k > 0 \/ in_offset + n = chunkEnd
  /\ consumed' = consumed + n /\ produced' = produced + k
  /\ pending' = IF in_offset = consumed THEN Plain(produced, k) ELSE Garbage(k)
  /\ in_offset' = in_offset + n
  /\ call' = "write"
  /\ UNCHANGED <<coding, fed, chunkEnd, caller, written, used, is_closed>>

(* brotli and zstd: a fresh decoder reads the rest of the chunk into       *)
(* out_buf, once.  in_offset advances by what was produced.  Away from the *)
(* start of the body, brotli may take the bytes for another stream.        *)
DecodeStateless(n) ==
  /\ call = "decode" /\ coding \in {"br", "zstd"} /\ in_offset < chunkEnd
  /\ n <= Smaller(OutCap, (chunkEnd - in_offset) * Ratio)
  /\ in_offset = 0 \/ coding = "br"
  /\ pending' = IF in_offset = 0 THEN Plain(0, n) ELSE Garbage(n)
  /\ in_offset' = in_offset + n
  /\ call' = "write"
  /\ UNCHANGED <<coding, consumed, produced, fed, chunkEnd, caller, written, used,
                 is_closed>>

DecodeSpins ==                 \* mutant: the test for a stalled decoder dropped
  /\ call = "decode" /\ coding # "identity" /\ in_offset < chunkEnd
  /\ UNCHANGED vars

(* DecompressionFailed or DecompressionStalled: the bytes are not of a     *)
(* stream the decoder could start or go on with, or gave no output yet.    *)
DecodeFails ==
  /\ call = "decode" /\ coding # "identity" /\ in_offset < chunkEnd
  /\ call' = "none" /\ caller' = "failed"
  /\ UNCHANGED <<coding, feedVars, written, used, is_closed>>

SinkWriteDrops ==              \* mutant: one pass over the slices, no loop
  /\ call = "write" /\ pending # << >> /\ used < Capacity
  /\ LET n == Smaller(Capacity - used, Len(pending))
     IN  /\ written' = written \o SubSeq(pending, 1, n)
         /\ used' = used + n
         /\ pending' = << >>
  /\ UNCHANGED <<coding, consumed, produced, fed, chunkEnd, in_offset, call,
                 caller, is_closed>>

SinkWriteFromStart ==          \* mutant: every pass copies from data[0]
  /\ call = "write" /\ pending # << >> /\ used < Capacity
  /\ LET n == Smaller(Capacity - used, Len(pending))
     IN  /\ written' = written \o SubSeq(pending, 1, n)
         /\ used' = used + n
         /\ pending' = SubSeq(pending, 1, Len(pending) - n)
  /\ UNCHANGED <<coding, consumed, produced, fed, chunkEnd, in_offset, call,
                 caller, is_closed>>

(* A turn of Sink.write's loop: as much as the free slices hold. *)
SinkWrite ==
  /\ call = "write" /\ pending # << >> /\ used < Capacity
  /\ LET n == Smaller(Capacity - used, Len(pending))
     IN  /\ written' = written \o SubSeq(pending, 1, n)
         /\ used' = used + n
         /\ pending' = SubSeq(pending, n + 1, Len(pending))
  /\ UNCHANGED <<coding, consumed, produced, fed, chunkEnd, in_offset, call,
                 caller, is_closed>>

(* Full: feed gives up with part of its output in the ring. *)
SinkFull ==
  /\ call = "write" /\ pending # << >> /\ used = Capacity
  /\ pending' = << >>
  /\ call' = "none" /\ caller' = "failed"
  /\ UNCHANGED <<coding, consumed, produced, fed, chunkEnd, in_offset, written,
                 used, is_closed>>

SinkDone ==
  /\ call = "write" /\ pending = << >>
  /\ call' = "decode"
  /\ UNCHANGED <<coding, feedVars, caller, written, used, is_closed>>

FeedReturn ==
  /\ call = "decode" /\ in_offset >= chunkEnd
  /\ fed' = chunkEnd /\ call' = "none"
  /\ UNCHANGED <<coding, consumed, produced, chunkEnd, in_offset, pending, caller,
                 written, used, is_closed>>

(* DecompressingStream.finish asks neither how much was fed nor whether    *)
(* feed has failed: it closes the ring.                                    *)
Finish ==
  /\ call = "none" /\ ~is_closed
  /\ is_closed' = TRUE
  /\ UNCHANGED <<coding, feedVars, call, caller, written, used>>

(* The process at the other end of the ring. *)
Consume(n) ==
  /\ n <= used
  /\ used' = used - n
  /\ UNCHANGED <<coding, feedVars, call, caller, written, is_closed>>

FeedStep ==
  \/ DecodeIdentity
  \/ \E n \in 0 .. InputLen, k \in 0 .. OutCap : DecodeGzip(n, k)
  \/ \E n \in 1 .. OutCap : DecodeStateless(n)
  \/ DecodeFails
  \/ SinkWrite \/ SinkFull \/ SinkDone \/ FeedReturn

Next ==
  \/ \E n \in 1 .. InputLen : Feed(n)
  \/ FeedStep
  \/ Finish
  \/ \E n \in 1 .. Capacity : Consume(n)

Spec == Init /\ [][Next]_vars

(* A call of feed in progress goes on. *)
FairSpec == Spec /\ WF_vars(FeedStep)

-----------------------------------------------------------------------------
(* Properties. *)

(* For the codings whose decoder remembers where it is, what is in the     *)
(* ring is a prefix of the body: chunk boundaries, the limits of out_buf   *)
(* and of the ring and the reader on its other side never lose, repeat or  *)
(* reorder a byte, also when feed fails half way.                          *)
RingIsPrefix ==
  coding \in {"identity", "gzip"} => \A i \in DOMAIN written : written[i] = i

(* Between calls, as long as none has failed, a stateful decoder has taken *)
(* in every unit accepted, and all it has handed out is in the ring.  So   *)
(* when finish closes the ring, which does not ask the decoder for more,   *)
(* it lacks nothing but the output the decoder still holds.                *)
AcceptedIsAccounted ==
  coding \in {"identity", "gzip"} /\ call = "none" /\ caller = "feeding"
    => consumed = fed /\ Len(written) = produced

(* The reader takes is_closed for the end of the body: when every feed of  *)
(* the whole body succeeded and finish has closed the ring, the body is in *)
(* it.                                                                     *)
ClosedIsComplete ==
  is_closed /\ fed = InputLen /\ caller = "feeding" => Len(written) = BodyLen

(* feed returns whatever the decoder produces: with in_offset advanced by  *)
(* input consumed or, for brotli and zstd, by output produced, and with    *)
(* or without a reader that drains the ring.                               *)
FeedReturns == call # "none" ~> call = "none"
=============================================================================
