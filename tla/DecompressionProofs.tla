------------------------- MODULE DecompressionProofs ------------------------
(***************************************************************************)
(* For the codings whose decoder remembers where it is, what reaches the   *)
(* ring is the body: for every length, expansion, output buffer and ring,  *)
(* and however the chunks are cut and the reader drains.                   *)
(***************************************************************************)
EXTENDS Decompression, SequenceTheorems, TLAPS

Stateful == coding \in {"identity", "gzip"}

TypeOK ==
  /\ coding \in Codings
  /\ {consumed, produced, fed, chunkEnd, in_offset} \subseteq Nat
  /\ fed <= InputLen /\ chunkEnd <= InputLen
  /\ pending \in Seq(Nat) /\ written \in Seq(Nat)
  /\ call \in {"none", "decode", "write"} /\ caller \in {"feeding", "failed"}
  /\ used \in 0 .. Capacity /\ is_closed \in BOOLEAN

(* Between the turns of Sink.write's loop alone is there plaintext to      *)
(* place; a call that failed has ended, and so has every one when finish   *)
(* is called.                                                              *)
CallsInStep ==
  /\ call # "write" => pending = << >>
  /\ caller = "failed" => call = "none"
  /\ is_closed => call = "none"

(* The decoder stands where the chunk's rest begins, and the ring and the  *)
(* plaintext still to place hold what it has handed out.                   *)
DecoderInStep ==
  Stateful /\ caller = "feeding" =>
    /\ consumed = in_offset
    /\ coding = "identity" => produced = in_offset
    /\ Len(written) + Len(pending) = produced
    /\ in_offset <= chunkEnd
    /\ call = "none" => in_offset = fed

(* The plaintext to place is what follows in the body. *)
PendingInStep ==
  Stateful => \A i \in DOMAIN pending : pending[i] = Len(written) + i

DecodeInv ==
  TypeOK /\ CallsInStep /\ DecoderInStep /\ PendingInStep /\ RingIsPrefix

(* What Sink.write places is the beginning of what it has to place, and    *)
(* goes behind what is in the ring.                                        *)
PlacedAs(w, p, n, v, q) ==
  /\ v \in Seq(Nat) /\ q \in Seq(Nat)
  /\ Len(v) = Len(w) + n /\ Len(q) = Len(p) - n
  /\ \A i \in 1 .. Len(w) : v[i] = w[i]
  /\ \A i \in 1 .. n : v[Len(w) + i] = p[i]
  /\ \A i \in 1 .. Len(p) - n : q[i] = p[n + i]

LEMMA Placed ==
  ASSUME NEW w \in Seq(Nat), NEW p \in Seq(Nat), NEW n \in 1 .. Len(p),
         NEW v, v = w \o SubSeq(p, 1, n), NEW q, q = SubSeq(p, n + 1, Len(p))
  PROVE  PlacedAs(w, p, n, v, q)
<1> DEFINE a == SubSeq(p, 1, n)
<1>1. Len(p) \in Nat /\ Len(w) \in Nat /\ \A i \in 1 .. Len(p) : p[i] \in Nat
  BY ElementOfSeq
<1>2. a \in Seq(Nat) /\ Len(a) = n /\ \A i \in 1 .. n : a[i] = p[i]
  <2>1. 1 \in Int /\ n \in Int /\ \A i \in 1 .. n : p[i] \in Nat
    BY <1>1
  <2>2. /\ a \in Seq(Nat) /\ Len(a) = (IF 1 <= n THEN n - 1 + 1 ELSE 0)
        /\ \A i \in 1 .. n - 1 + 1 : a[i] = p[1 + i - 1]
    BY <2>1, SubSeqProperties
  <2> QED BY <1>1, <2>2
<1>3. q \in Seq(Nat) /\ Len(q) = Len(p) - n /\ \A i \in 1 .. Len(p) - n : q[i] = p[n + i]
  <2>1. n + 1 \in Int /\ Len(p) \in Int /\ \A i \in n + 1 .. Len(p) : p[i] \in Nat
    BY <1>1
  <2>2. /\ q \in Seq(Nat)
        /\ Len(q) = (IF n + 1 <= Len(p) THEN Len(p) - (n + 1) + 1 ELSE 0)
        /\ \A i \in 1 .. Len(p) - (n + 1) + 1 : q[i] = p[(n + 1) + i - 1]
    BY <2>1, SubSeqProperties
  <2> QED BY <1>1, <2>2
<1> HIDE DEF a
<1>4. /\ v \in Seq(Nat) /\ Len(v) = Len(w) + n
      /\ \A i \in 1 .. Len(w) + n : v[i] = IF i <= Len(w) THEN w[i] ELSE a[i - Len(w)]
  <2>1. v = w \o a
    BY DEF a
  <2> QED BY SMTT(60), <1>2, <2>1, ConcatProperties
<1>5. \A i \in 1 .. Len(w) : v[i] = w[i]
  BY SMTT(60), <1>1, <1>4
<1>6. \A i \in 1 .. n : v[Len(w) + i] = p[i]
  <2> SUFFICES ASSUME NEW i \in 1 .. n PROVE v[Len(w) + i] = p[i]
    OBVIOUS
  <2>1. Len(w) + i \in 1 .. Len(w) + n /\ ~(Len(w) + i <= Len(w)) /\ (Len(w) + i) - Len(w) = i
    BY <1>1
  <2>2. v[Len(w) + i] = a[(Len(w) + i) - Len(w)]
    BY <1>4, <2>1
  <2> QED BY <1>2, <2>1, <2>2
<1> QED
  BY <1>3, <1>4, <1>5, <1>6 DEF PlacedAs

(* The plaintext of n units, as a sequence. *)
LEMMA PlainIs ==
  ASSUME NEW p \in Nat, NEW n \in Nat
  PROVE  /\ Plain(p, n) \in Seq(Nat) /\ Len(Plain(p, n)) = n
         /\ \A i \in DOMAIN Plain(p, n) : Plain(p, n)[i] = p + i
         /\ Garbage(n) \in Seq(Nat)
BY DEF Plain, Garbage

LEMMA DecodeInit == Init => DecodeInv
<1> SUFFICES ASSUME Init PROVE DecodeInv
  OBVIOUS
<1>1. InputLen \in Nat /\ Ratio \in Nat /\ Capacity \in Nat
  BY DecompressionAssumption
<1>2. << >> \in Seq(Nat) /\ Len(<< >>) = 0 /\ DOMAIN << >> = {}
  OBVIOUS
<1>3. TypeOK
  <2>1. {consumed, produced, fed, chunkEnd, in_offset} \subseteq Nat /\ fed <= InputLen /\ chunkEnd <= InputLen
    BY <1>1 DEF Init
  <2>2. pending \in Seq(Nat) /\ written \in Seq(Nat)
    BY <1>2 DEF Init
  <2>3. used \in 0 .. Capacity
    BY <1>1 DEF Init
  <2> QED BY <2>1, <2>2, <2>3 DEF Init, TypeOK
<1>5. CallsInStep /\ DecoderInStep /\ PendingInStep /\ RingIsPrefix
  BY <1>2 DEF Init, CallsInStep, DecoderInStep, PendingInStep, RingIsPrefix
<1> QED
  BY <1>3, <1>5 DEF DecodeInv

(* A step that leaves the decoder's place and its output alone. *)
LEMMA DecoderUntouched ==
  ASSUME DecodeInv, TypeOK', CallsInStep', DecoderInStep',
         UNCHANGED <<coding, pending, written>>
  PROVE  DecodeInv'
BY DEF DecodeInv, PendingInStep, RingIsPrefix, Stateful

(* A decoder call with output out: what it decoded is what comes next. *)
LEMMA Decoded ==
  ASSUME DecodeInv, call = "decode", call' = "write", caller' = caller,
         coding' = coding, written' = written, chunkEnd' = chunkEnd, fed' = fed,
         used' = used, is_closed' = is_closed,
         NEW out \in Seq(Nat), pending' = out,
         consumed' \in Nat, produced' \in Nat, in_offset' \in Nat,
         Stateful => /\ consumed' = in_offset'
                     /\ coding = "identity" => produced' = in_offset'
                     /\ in_offset' <= chunkEnd
                     /\ produced + Len(out) = produced'
                     /\ \A i \in DOMAIN out : out[i] = produced + i
  PROVE  DecodeInv'
<1>0. TypeOK /\ CallsInStep /\ DecoderInStep /\ PendingInStep /\ RingIsPrefix
  BY DEF DecodeInv
<1>1. TypeOK'
  BY <1>0 DEF TypeOK
<1>2. caller = "feeding" /\ pending = << >> /\ ~is_closed
  BY <1>0 DEF CallsInStep, TypeOK
<1>3. CallsInStep'
  BY <1>2 DEF CallsInStep
<1>4. Stateful => Len(written) = produced
  <2>1. Len(written) \in Nat /\ Len(pending) = 0
    BY <1>0, <1>2 DEF TypeOK
  <2> QED BY <1>0, <1>2, <2>1 DEF DecoderInStep
<1>5. DecoderInStep'
  BY <1>2, <1>4 DEF DecoderInStep, Stateful
<1>6. PendingInStep'
  BY <1>4 DEF PendingInStep, Stateful
<1>7. RingIsPrefix'
  BY <1>0 DEF RingIsPrefix
<1> QED
  BY <1>1, <1>3, <1>5, <1>6, <1>7 DEF DecodeInv

LEMMA DecodeStep == DecodeInv /\ [Next]_vars => DecodeInv'
<1> SUFFICES ASSUME DecodeInv, [Next]_vars PROVE DecodeInv'
  OBVIOUS
<1>0. TypeOK /\ CallsInStep /\ DecoderInStep /\ PendingInStep /\ RingIsPrefix
  BY DEF DecodeInv
<1>a. InputLen \in Nat /\ Ratio \in Nat /\ OutCap \in Nat /\ Capacity \in Nat
  BY DecompressionAssumption
<1>b. /\ consumed \in Nat /\ produced \in Nat /\ fed \in Nat /\ chunkEnd \in Nat /\ in_offset \in Nat
      /\ pending \in Seq(Nat) /\ written \in Seq(Nat) /\ used \in 0 .. Capacity
  BY <1>0 DEF TypeOK
<1>1. ASSUME NEW n \in 1 .. InputLen, Feed(n) PROVE DecodeInv'
  <2>1. /\ call = "none" /\ caller = "feeding" /\ fed + n <= InputLen
        /\ chunkEnd' = fed + n /\ in_offset' = fed /\ call' = "decode" /\ caller' = "feeding"
        /\ UNCHANGED <<coding, consumed, produced, fed, pending, written, used, is_closed>>
        /\ ~is_closed
    BY <1>1 DEF Feed
  <2>2. TypeOK'
    BY <1>0, <1>a, <1>b, <2>1 DEF TypeOK
  <2>3. CallsInStep'
    BY <1>0, <2>1 DEF CallsInStep
  <2>4. DecoderInStep'
    BY <1>0, <1>a, <1>b, <2>1 DEF DecoderInStep, Stateful
  <2> QED BY <2>1, <2>2, <2>3, <2>4, DecoderUntouched
<1>2. ASSUME DecodeIdentity PROVE DecodeInv'
  <2> DEFINE n == chunkEnd - in_offset
             out == Plain(in_offset, n)
  <2>1. /\ call = "decode" /\ coding = "identity" /\ in_offset < chunkEnd
        /\ pending' = out /\ in_offset' = chunkEnd /\ call' = "write"
        /\ consumed' = chunkEnd /\ produced' = chunkEnd
        /\ UNCHANGED <<coding, fed, chunkEnd, caller, written, used, is_closed>>
    BY <1>2 DEF DecodeIdentity
  <2>2. n \in Nat /\ in_offset + n = chunkEnd
    BY <1>b, <2>1
  <2>3. out \in Seq(Nat) /\ Len(out) = n /\ \A i \in DOMAIN out : out[i] = in_offset + i
    BY <1>b, <2>2, PlainIs
  <2>4. produced = in_offset
    BY <1>0, <2>1 DEF CallsInStep, DecoderInStep, Stateful, TypeOK
  <2> HIDE DEF n, out
  <2>5. consumed' \in Nat /\ produced' \in Nat /\ in_offset' \in Nat
    BY <1>b, <2>1
  <2>6. /\ consumed' = in_offset' /\ in_offset' <= chunkEnd
        /\ produced' = in_offset' /\ produced + Len(out) = produced'
        /\ \A i \in DOMAIN out : out[i] = produced + i
    BY <1>b, <2>1, <2>2, <2>3, <2>4
  <2> QED BY <2>1, <2>3, <2>5, <2>6, Decoded
<1>3. ASSUME NEW n \in 0 .. InputLen, NEW k \in 0 .. OutCap, DecodeGzip(n, k)
      PROVE  DecodeInv'
  <2> DEFINE out == IF in_offset = consumed THEN Plain(produced, k) ELSE Garbage(k)
  <2>1. /\ call = "decode" /\ coding = "gzip" /\ in_offset + n <= chunkEnd
        /\ consumed' = consumed + n /\ produced' = produced + k
        /\ pending' = out /\ in_offset' = in_offset + n /\ call' = "write"
        /\ UNCHANGED <<coding, fed, chunkEnd, caller, written, used, is_closed>>
    BY <1>3 DEF DecodeGzip
  <2>2. consumed = in_offset
    BY <1>0, <2>1 DEF CallsInStep, DecoderInStep, Stateful, TypeOK
  <2>3. k \in Nat /\ n \in Nat
    BY <1>a
  <2>4. /\ out \in Seq(Nat) /\ Len(out) = k
        /\ \A i \in DOMAIN out : out[i] = produced + i
    BY <1>b, <2>2, <2>3, PlainIs
  <2> HIDE DEF out
  <2>5. consumed' \in Nat /\ produced' \in Nat /\ in_offset' \in Nat
    BY <1>b, <2>1, <2>3
  <2>6. /\ consumed' = in_offset' /\ in_offset' <= chunkEnd
        /\ coding = "identity" => produced' = in_offset'
        /\ produced + Len(out) = produced'
    BY <2>1, <2>2, <2>4
  <2> QED BY <2>1, <2>4, <2>5, <2>6, Decoded
<1>4. ASSUME NEW n \in 1 .. OutCap, DecodeStateless(n) PROVE DecodeInv'
  <2> DEFINE out == IF in_offset = 0 THEN Plain(0, n) ELSE Garbage(n)
  <2>1. /\ call = "decode" /\ coding \in {"br", "zstd"}
        /\ pending' = out /\ in_offset' = in_offset + n /\ call' = "write"
        /\ UNCHANGED <<coding, consumed, produced, fed, chunkEnd, caller, written, used, is_closed>>
    BY <1>4 DEF DecodeStateless
  <2>2. out \in Seq(Nat)
    <3>1. n \in Nat /\ 0 \in Nat
      BY <1>a
    <3>2. Plain(0, n) \in Seq(Nat) /\ Garbage(n) \in Seq(Nat)
      BY <3>1, PlainIs
    <3> QED BY <3>2
  <2> HIDE DEF out
  <2>3. ~Stateful /\ in_offset' \in Nat
    BY <1>a, <1>b, <2>1 DEF Stateful
  <2> QED BY <1>b, <2>1, <2>2, <2>3, Decoded
<1>5. ASSUME DecodeFails PROVE DecodeInv'
  <2>1. /\ call = "decode" /\ call' = "none" /\ caller' = "failed"
        /\ UNCHANGED <<coding, consumed, produced, fed, chunkEnd, in_offset, pending, written, used, is_closed>>
    BY <1>5 DEF DecodeFails, feedVars
  <2>2. TypeOK' /\ CallsInStep' /\ DecoderInStep'
    BY <1>0, <2>1 DEF TypeOK, CallsInStep, DecoderInStep
  <2> QED BY <2>1, <2>2, DecoderUntouched
<1>6. ASSUME SinkWrite PROVE DecodeInv'
  <2> DEFINE n == Smaller(Capacity - used, Len(pending))
  <2>1. /\ call = "write" /\ pending # << >> /\ used < Capacity
        /\ written' = written \o SubSeq(pending, 1, n)
        /\ used' = used + n
        /\ pending' = SubSeq(pending, n + 1, Len(pending))
        /\ UNCHANGED <<coding, consumed, produced, fed, chunkEnd, in_offset, call, caller, is_closed>>
    BY <1>6 DEF SinkWrite
  <2>2. Len(pending) \in Nat \ {0} /\ Len(written) \in Nat
    BY <1>b, <2>1, EmptySeq
  <2>3. n \in 1 .. Len(pending) /\ used + n \in 0 .. Capacity
    BY <1>a, <1>b, <2>1, <2>2 DEF Smaller
  <2> HIDE DEF n
  <2>4. /\ written' \in Seq(Nat) /\ pending' \in Seq(Nat)
        /\ Len(written') = Len(written) + n /\ Len(pending') = Len(pending) - n
        /\ \A i \in 1 .. Len(written) : written'[i] = written[i]
        /\ \A i \in 1 .. n : written'[Len(written) + i] = pending[i]
        /\ \A i \in 1 .. Len(pending) - n : pending'[i] = pending[n + i]
    <3>1. pending \in Seq(Nat) /\ written \in Seq(Nat)
      BY <1>b
    <3>2. /\ written' = written \o SubSeq(pending, 1, n)
          /\ pending' = SubSeq(pending, n + 1, Len(pending))
      BY <2>1
    <3>3. PlacedAs(written, pending, n, written', pending')
      BY <2>3, <3>1, <3>2, Placed
    <3> QED BY <3>3 DEF PlacedAs
  <2>5. TypeOK'
    BY <1>0, <2>1, <2>3, <2>4 DEF TypeOK
  <2>6. CallsInStep'
    BY <1>0, <2>1 DEF CallsInStep
  <2>7. DecoderInStep'
    <3>1. Len(written') + Len(pending') = Len(written) + Len(pending)
      BY <2>2, <2>3, <2>4
    <3> QED BY <1>0, <2>1, <3>1 DEF DecoderInStep, Stateful
  <2>8. DOMAIN pending' = 1 .. Len(pending) - n /\ DOMAIN written' = 1 .. Len(written) + n
        /\ DOMAIN pending = 1 .. Len(pending) /\ DOMAIN written = 1 .. Len(written)
    BY <1>b, <2>4
  <2>9. PendingInStep'
    <3> SUFFICES ASSUME Stateful, NEW i \in 1 .. Len(pending) - n
                 PROVE  pending'[i] = Len(written') + i
      BY <2>1, <2>8 DEF PendingInStep, Stateful
    <3>1. n + i \in DOMAIN pending
      BY <2>2, <2>3, <2>8
    <3>2. pending[n + i] = Len(written) + (n + i)
      BY <1>0, <3>1 DEF PendingInStep
    <3> QED BY <2>2, <2>3, <2>4, <3>2
  <2>10. RingIsPrefix'
    <3> SUFFICES ASSUME Stateful, NEW i \in 1 .. Len(written) + n
                 PROVE  written'[i] = i
      BY <2>1, <2>8 DEF RingIsPrefix, Stateful
    <3>1. CASE i \in 1 .. Len(written)
      BY <1>0, <2>4, <2>8, <3>1 DEF RingIsPrefix, Stateful
    <3>2. CASE i \notin 1 .. Len(written)
      <4>1. PICK j : j = i - Len(written)
        OBVIOUS
      <4>2. j \in 1 .. n /\ i = Len(written) + j /\ j \in DOMAIN pending
        BY <2>2, <2>3, <2>8, <3>2, <4>1
      <4>3. pending[j] = Len(written) + j
        BY <1>0, <4>2 DEF PendingInStep
      <4> QED BY <2>4, <4>2, <4>3
    <3> QED BY <3>1, <3>2
  <2> QED BY <2>5, <2>6, <2>7, <2>9, <2>10 DEF DecodeInv
<1>7. ASSUME SinkFull PROVE DecodeInv'
  <2>1. /\ call = "write" /\ pending' = << >> /\ call' = "none" /\ caller' = "failed"
        /\ UNCHANGED <<coding, consumed, produced, fed, chunkEnd, in_offset, written, used, is_closed>>
    BY <1>7 DEF SinkFull
  <2>2. << >> \in Seq(Nat) /\ DOMAIN << >> = {}
    OBVIOUS
  <2>3. TypeOK' /\ CallsInStep' /\ DecoderInStep'
    BY <1>0, <2>1, <2>2 DEF TypeOK, CallsInStep, DecoderInStep
  <2>4. PendingInStep' /\ RingIsPrefix'
    BY <1>0, <2>1, <2>2 DEF PendingInStep, RingIsPrefix
  <2> QED BY <2>3, <2>4 DEF DecodeInv
<1>8. ASSUME SinkDone PROVE DecodeInv'
  <2>1. /\ call = "write" /\ pending = << >> /\ call' = "decode"
        /\ UNCHANGED <<coding, consumed, produced, fed, chunkEnd, in_offset, pending, caller, written, used,
                       is_closed>>
    BY <1>8 DEF SinkDone, feedVars
  <2>2. TypeOK' /\ CallsInStep'
    BY <1>0, <2>1 DEF TypeOK, CallsInStep
  <2>3. DecoderInStep'
    BY <1>0, <2>1 DEF DecoderInStep, Stateful
  <2> QED BY <2>1, <2>2, <2>3, DecoderUntouched
<1>9. ASSUME FeedReturn PROVE DecodeInv'
  <2>1. /\ call = "decode" /\ in_offset >= chunkEnd /\ fed' = chunkEnd /\ call' = "none"
        /\ UNCHANGED <<coding, consumed, produced, chunkEnd, in_offset, pending, caller, written, used,
                       is_closed>>
    BY <1>9 DEF FeedReturn
  <2>2. TypeOK'
    BY <1>0, <2>1 DEF TypeOK
  <2>3. CallsInStep'
    BY <1>0, <2>1 DEF CallsInStep
  <2>4. DecoderInStep'
    BY <1>0, <1>b, <2>1 DEF DecoderInStep, Stateful
  <2> QED BY <2>1, <2>2, <2>3, <2>4, DecoderUntouched
<1>10. ASSUME Finish PROVE DecodeInv'
  <2>1. /\ call = "none" /\ is_closed' = TRUE
        /\ UNCHANGED <<coding, consumed, produced, fed, chunkEnd, in_offset, pending, call, caller, written,
                       used>>
    BY <1>10 DEF Finish, feedVars
  <2>2. TypeOK' /\ CallsInStep'
    BY <1>0, <2>1 DEF TypeOK, CallsInStep
  <2>3. DecoderInStep'
    BY <1>0, <2>1 DEF DecoderInStep, Stateful
  <2> QED BY <2>1, <2>2, <2>3, DecoderUntouched
<1>11. ASSUME NEW n \in 1 .. Capacity, Consume(n) PROVE DecodeInv'
  <2>1. /\ n <= used /\ used' = used - n
        /\ UNCHANGED <<coding, consumed, produced, fed, chunkEnd, in_offset, pending, call, caller, written,
                       is_closed>>
    BY <1>11 DEF Consume, feedVars
  <2>2. used' \in 0 .. Capacity
    BY <1>a, <1>b, <2>1
  <2>3. TypeOK' /\ CallsInStep'
    BY <1>0, <2>1, <2>2 DEF TypeOK, CallsInStep
  <2>4. DecoderInStep'
    BY <1>0, <2>1 DEF DecoderInStep, Stateful
  <2> QED BY <2>1, <2>3, <2>4, DecoderUntouched
<1>12. CASE UNCHANGED vars
  <2>1. TypeOK' /\ CallsInStep'
    BY <1>0, <1>12 DEF vars, TypeOK, CallsInStep
  <2>2. DecoderInStep'
    BY <1>0, <1>12 DEF vars, DecoderInStep, Stateful
  <2> QED BY <1>12, <2>1, <2>2, DecoderUntouched DEF vars
<1> QED
  BY <1>1, <1>2, <1>3, <1>4, <1>5, <1>6, <1>7, <1>8, <1>9, <1>10, <1>11, <1>12
     DEF Next, FeedStep

(* identity, gzip and deflate put a prefix of the body into the ring, also *)
(* when feed fails half way.                                               *)
THEOREM RingHoldsAPrefix == Spec => []RingIsPrefix
<1>1. DecodeInv => RingIsPrefix
  BY DEF DecodeInv
<1> QED
  BY <1>1, DecodeInit, DecodeStep, PTL DEF Spec

(* With identity, gzip and deflate, and as long as no feed fails, nothing  *)
(* that was accepted is missing from the ring but what the decoder holds,  *)
(* when finish closes it or at any other moment between calls.             *)
THEOREM NothingAcceptedIsLost == Spec => []AcceptedIsAccounted
<1>1. ASSUME DecodeInv PROVE AcceptedIsAccounted
  <2> SUFFICES ASSUME Stateful, call = "none", caller = "feeding"
               PROVE  consumed = fed /\ Len(written) = produced
    BY DEF AcceptedIsAccounted, Stateful
  <2>1. pending = << >>
    BY <1>1 DEF DecodeInv, CallsInStep
  <2>2. /\ consumed = in_offset /\ in_offset = fed
        /\ Len(written) + Len(pending) = produced
    BY <1>1 DEF DecodeInv, DecoderInStep
  <2>3. Len(written) \in Nat /\ Len(pending) = 0
    BY <1>1, <2>1 DEF DecodeInv, TypeOK
  <2> QED BY <2>2, <2>3
<1> QED
  BY <1>1, DecodeInit, DecodeStep, PTL DEF Spec
=============================================================================
