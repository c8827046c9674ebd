------------------------------ MODULE TlsProofs -----------------------------
(***************************************************************************)
(* Proofs about both TLS surfaces, EngineTls and StandaloneTls, for any    *)
(* number of requests, any send buffer and any verdict of the root store.  *)
(*                                                                         *)
(* Both count on rustls keeping its queues in order over a run of records, *)
(* ProcessAll, and the properties on the application records of a queue,   *)
(* Numbers; both are recursive functions.  What holds of them for every    *)
(* length is proved by induction, with a set in the place of a predicate.  *)
(* EngineInv and HandleInv, the inductive invariants, then say that the    *)
(* requests a server has, those in the socket and those the client holds   *)
(* back are together 1, 2, ... up to the last one accepted.                *)
(***************************************************************************)
EXTENDS EngineTls, StandaloneTls, WellFoundedInduction, SequenceTheorems, TLAPS

-----------------------------------------------------------------------------
(* Induction over the naturals, with a set in the place of a predicate. *)

LEMMA LeastNatural ==
  ASSUME NEW S \in SUBSET Nat, S # {}
  PROVE  \E n \in S : \A m \in S : n <= m
<1>1. \E x \in S : \A y \in S : <<y, x>> \notin OpToRel(<, Nat)
  BY NatLessThanWellFounded, WFMin
<1>2. PICK n \in S : \A y \in S : <<y, n>> \notin OpToRel(<, Nat)
  BY <1>1
<1>3. \A m \in S : ~(m < n)
  BY <1>2 DEF OpToRel
<1> QED
  BY <1>3

LEMMA SetInduction ==
  ASSUME NEW S, 0 \in S, \A n \in Nat : n \in S => n + 1 \in S
  PROVE  Nat \subseteq S
<1> SUFFICES ASSUME Nat \ S # {} PROVE FALSE
  OBVIOUS
<1>1. PICK n \in Nat \ S : \A m \in Nat \ S : n <= m
  BY LeastNatural
<1>2. n # 0 /\ n - 1 \in Nat
  OBVIOUS
<1>3. n - 1 \in S
  BY <1>1, <1>2
<1> QED
  BY <1>1, <1>2, <1>3

LEMMA SeqInduction ==
  ASSUME NEW R, NEW G, << >> \in G,
         \A s \in Seq(R), r \in R : s \in G => Append(s, r) \in G
  PROVE  Seq(R) \subseteq G
<1> DEFINE S == {k \in Nat : \A s \in Seq(R) : Len(s) = k => s \in G}
<1>1. 0 \in S
  BY EmptySeq
<1>2. ASSUME NEW k \in Nat, k \in S PROVE k + 1 \in S
  <2> SUFFICES ASSUME NEW s \in Seq(R), Len(s) = k + 1 PROVE s \in G
    OBVIOUS
  <2>1. s # << >>
    OBVIOUS
  <2>2. PICK u \in Seq(R), r \in R : s = Append(u, r)
    BY <2>1, SequenceEmptyOrAppend
  <2>3. Len(u) = k
    BY <2>2, AppendProperties
  <2>4. u \in G
    BY <1>2, <2>3
  <2> QED BY <2>2, <2>4
<1>3. Nat \subseteq S
  <2> HIDE DEF S
  <2> QED BY <1>1, <1>2, SetInduction
<1>4. \A s \in Seq(R) : Len(s) \in Nat
  OBVIOUS
<1> QED
  BY <1>3, <1>4

-----------------------------------------------------------------------------
(* Numbers goes through the records one by one. *)
Add(x, rec) == IF rec.type = "APP" THEN Append(x, rec.num) ELSE x

LEMMA NumbersIs ==
  ASSUME NEW recs, Len(recs) \in Nat
  PROVE  \E upto : /\ upto[0] = << >>
                   /\ \A i \in 1 .. Len(recs) : upto[i] = Add(upto[i - 1], recs[i])
                   /\ Numbers(recs) = upto[Len(recs)]
<1> DEFINE Is(g, k) == g = [i \in 0 .. k |-> IF i = 0 THEN << >> ELSE Add(g[i - 1], recs[i])]
           S == {k \in Nat : \E g : Is(g, k)}
<1>1. 0 \in S
  <2>1. Is([i \in 0 .. 0 |-> << >>], 0)
    OBVIOUS
  <2> QED BY <2>1
<1>2. ASSUME NEW k \in Nat, k \in S PROVE k + 1 \in S
  <2>1. PICK g : Is(g, k)
    BY <1>2
  <2> DEFINE h == [i \in 0 .. k + 1 |-> IF i = k + 1 THEN Add(g[k], recs[k + 1]) ELSE g[i]]
  <2>2. ASSUME NEW i \in 0 .. k + 1
        PROVE  h[i] = IF i = 0 THEN << >> ELSE Add(h[i - 1], recs[i])
    <3>1. CASE i = k + 1
      BY <3>1
    <3>2. CASE i # k + 1 /\ i # 0
      <4>1. i \in 0 .. k /\ i - 1 \in 0 .. k + 1 /\ i - 1 # k + 1
        BY <3>2
      <4>2. h[i] = g[i] /\ h[i - 1] = g[i - 1]
        BY <4>1
      <4>3. g[i] = Add(g[i - 1], recs[i])
        BY <2>1, <3>2, <4>1
      <4> QED BY <3>2, <4>2, <4>3
    <3>3. CASE i = 0
      BY <2>1, <3>3
    <3> QED BY <3>1, <3>2, <3>3
  <2>3. Is(h, k + 1)
    BY <2>2
  <2> HIDE DEF h, Is
  <2> QED BY <2>3
<1>3. Len(recs) \in S
  <2> HIDE DEF S
  <2> QED BY <1>1, <1>2, SetInduction
<1> DEFINE up == CHOOSE g : Is(g, Len(recs))
<1>4. Is(up, Len(recs))
  BY <1>3
<1>5. Numbers(recs) = up[Len(recs)]
  BY DEF Numbers, Add
<1> HIDE DEF up
<1>6. up[0] = << >> /\ \A i \in 1 .. Len(recs) : up[i] = Add(up[i - 1], recs[i])
  BY <1>4
<1> QED
  BY <1>5, <1>6

LEMMA NumbersEmpty == Numbers(<< >>) = << >>
<1>1. Len(<< >>) = 0
  OBVIOUS
<1> QED
  BY <1>1, NumbersIs

(* One record more. *)
LEMMA NumbersAppend ==
  ASSUME NEW R, NEW s \in Seq(R), NEW r \in R
  PROVE  Numbers(Append(s, r)) = Add(Numbers(s), r)
<1> DEFINE t == Append(s, r)
           L == Len(s)
<1>1. L \in Nat /\ Len(t) = L + 1 /\ t[L + 1] = r /\ \A i \in 1 .. L : t[i] = s[i]
  BY AppendProperties
<1>2. PICK g : /\ g[0] = << >> /\ \A i \in 1 .. L : g[i] = Add(g[i - 1], s[i])
               /\ Numbers(s) = g[L]
  BY <1>1, NumbersIs
<1> HIDE DEF t, L
<1>3. PICK h : /\ h[0] = << >> /\ \A i \in 1 .. L + 1 : h[i] = Add(h[i - 1], t[i])
               /\ Numbers(t) = h[L + 1]
  <2>1. Len(t) \in Nat
    BY <1>1
  <2>2. PICK h : /\ h[0] = << >> /\ \A i \in 1 .. Len(t) : h[i] = Add(h[i - 1], t[i])
                 /\ Numbers(t) = h[Len(t)]
    BY <2>1, NumbersIs
  <2>3. Len(t) = L + 1
    BY <1>1
  <2> QED BY <2>2, <2>3
<1> DEFINE S == {k \in Nat : k <= L => g[k] = h[k]}
<1>6. 0 \in S
  BY <1>2, <1>3
<1>7. ASSUME NEW k \in Nat, k \in S PROVE k + 1 \in S
  <2> SUFFICES ASSUME k + 1 <= L PROVE g[k + 1] = h[k + 1]
    OBVIOUS
  <2>1. k + 1 \in 1 .. L /\ k + 1 \in 1 .. L + 1 /\ (k + 1) - 1 = k /\ k <= L
    BY <1>1
  <2>2. g[k] = h[k] /\ t[k + 1] = s[k + 1]
    BY <1>1, <1>7, <2>1
  <2> QED BY <1>2, <1>3, <2>1, <2>2
<1>8. L \in S
  <2> HIDE DEF S
  <2> QED BY <1>1, <1>6, <1>7, SetInduction
<1>9. h[L] = Numbers(s)
  BY <1>1, <1>2, <1>8
<1>10. Numbers(t) = Add(h[L], r)
  <2>1. L + 1 \in 1 .. L + 1 /\ (L + 1) - 1 = L
    BY <1>1
  <2> QED BY <1>1, <1>3, <2>1
<1> QED
  BY <1>9, <1>10 DEF t

LEMMA NumbersType ==
  ASSUME NEW R, \A r \in R : r.num \in Nat
  PROVE  \A s \in Seq(R) : Numbers(s) \in Seq(Nat)
<1> DEFINE G == {s \in Seq(R) : Numbers(s) \in Seq(Nat)}
<1>0. << >> \in Seq(R) /\ << >> \in Seq(Nat)
  OBVIOUS
<1>1. << >> \in G
  BY <1>0, NumbersEmpty
<1>2. ASSUME NEW s \in Seq(R), NEW r \in R, s \in G PROVE Append(s, r) \in G
  <2>1. Append(s, r) \in Seq(R) /\ Numbers(Append(s, r)) = Add(Numbers(s), r)
    BY AppendProperties, NumbersAppend
  <2>2. Numbers(s) \in Seq(Nat) /\ r.num \in Nat
    BY <1>2
  <2>3. Add(Numbers(s), r) \in Seq(Nat)
    BY <2>2, AppendProperties DEF Add
  <2> QED BY <2>1, <2>3
<1>3. Seq(R) \subseteq G
  <2> HIDE DEF G
  <2> QED BY <1>1, <1>2, SeqInduction
<1> QED
  BY <1>3

LEMMA NumbersConcat ==
  ASSUME NEW R, \A r \in R : r.num \in Nat, NEW s \in Seq(R)
  PROVE  \A t \in Seq(R) : Numbers(s \o t) = Numbers(s) \o Numbers(t)
<1> DEFINE G == {t \in Seq(R) : Numbers(s \o t) = Numbers(s) \o Numbers(t)}
<1>0. Numbers(s) \in Seq(Nat) /\ << >> \in Seq(R)
  BY NumbersType
<1>1. << >> \in G
  <2>1. s \o << >> = s
    BY ConcatEmptySeq
  <2>2. Numbers(s) \o << >> = Numbers(s)
    BY <1>0, ConcatEmptySeq
  <2> QED BY <1>0, <2>1, <2>2, NumbersEmpty
<1>2. ASSUME NEW t \in Seq(R), NEW r \in R, t \in G PROVE Append(t, r) \in G
  <2>1. Append(t, r) \in Seq(R) /\ s \o t \in Seq(R) /\ <<r>> \in Seq(R)
    BY AppendProperties, ConcatProperties
  <2>2. s \o Append(t, r) = Append(s \o t, r)
    <3>1. Append(t, r) = t \o <<r>>
      BY AppendIsConcat
    <3>2. Append(s \o t, r) = (s \o t) \o <<r>>
      BY <2>1, AppendIsConcat
    <3> QED BY <2>1, <3>1, <3>2, ConcatAssociative
  <2>3. Numbers(s \o Append(t, r)) = Add(Numbers(s) \o Numbers(t), r)
    BY <1>2, <2>1, <2>2, NumbersAppend
  <2>4. Numbers(Append(t, r)) = Add(Numbers(t), r)
    BY NumbersAppend
  <2>5. Add(Numbers(s) \o Numbers(t), r) = Numbers(s) \o Add(Numbers(t), r)
    <3> DEFINE a == Numbers(s)
               b == Numbers(t)
               n == r.num
    <3>1. a \in Seq(Nat) /\ b \in Seq(Nat) /\ n \in Nat
      BY <1>0, NumbersType
    <3> HIDE DEF a, b, n
    <3>2. Append(a \o b, n) = a \o Append(b, n)
      <4>1. a \o b \in Seq(Nat) /\ <<n>> \in Seq(Nat)
        BY <3>1, ConcatProperties
      <4>2. Append(a \o b, n) = (a \o b) \o <<n>>
        BY <3>1, <4>1, AppendIsConcat
      <4>3. Append(b, n) = b \o <<n>>
        BY <3>1, AppendIsConcat
      <4> QED BY SMTT(60), <3>1, <4>1, <4>2, <4>3, ConcatAssociative
    <3> QED BY <3>2 DEF Add, a, b, n
  <2> QED BY <2>1, <2>3, <2>4, <2>5
<1>3. Seq(R) \subseteq G
  <2> HIDE DEF G
  <2> QED BY <1>1, <1>2, SeqInduction
<1> QED
  BY <1>3

(* Numbers is empty where there is no application record, and there only. *)
LEMMA NumbersNone ==
  ASSUME NEW R, \A r \in R : r.num \in Nat
  PROVE  \A s \in Seq(R) : Numbers(s) = << >> <=> \A i \in DOMAIN s : s[i].type # "APP"
<1> DEFINE G == {s \in Seq(R) : Numbers(s) = << >> <=> \A i \in DOMAIN s : s[i].type # "APP"}
<1>0. << >> \in Seq(R) /\ DOMAIN << >> = {}
  OBVIOUS
<1>1. << >> \in G
  BY <1>0, NumbersEmpty
<1>2. ASSUME NEW s \in Seq(R), NEW r \in R, s \in G PROVE Append(s, r) \in G
  <2> DEFINE t == Append(s, r)
             L == Len(s)
  <2>1. t \in Seq(R) /\ Numbers(t) = Add(Numbers(s), r)
    BY AppendProperties, NumbersAppend
  <2>2. /\ L \in Nat /\ DOMAIN s = 1 .. L /\ DOMAIN t = 1 .. L + 1
        /\ t[L + 1] = r /\ \A i \in 1 .. L : t[i] = s[i]
    BY AppendProperties
  <2> HIDE DEF t, L
  <2>3. (\A i \in DOMAIN t : t[i].type # "APP")
          <=> r.type # "APP" /\ \A i \in DOMAIN s : s[i].type # "APP"
    BY <2>2
  <2>4. Numbers(s) \in Seq(Nat) /\ r.num \in Nat
    BY NumbersType
  <2>5. Append(Numbers(s), r.num) # << >>
    BY ZenonT(60), <2>4, AppendProperties
  <2>6. Numbers(t) = << >> <=> r.type # "APP" /\ Numbers(s) = << >>
    BY <2>1, <2>5 DEF Add
  <2>7. Numbers(s) = << >> <=> \A i \in DOMAIN s : s[i].type # "APP"
    BY <1>2
  <2> QED BY <2>1, <2>3, <2>6, <2>7 DEF t
<1>3. Seq(R) \subseteq G
  <2> HIDE DEF G
  <2> QED BY <1>1, <1>2, SeqInduction
<1> QED
  BY <1>3

-----------------------------------------------------------------------------
(* process_new_packets goes through the records up to the first error. *)
Fed(x, rec, t) == IF x.failed THEN x ELSE Process(x, rec, t)

LEMMA ProcessAllIs ==
  ASSUME NEW c, NEW recs, Len(recs) \in Nat, NEW t
  PROVE  \E after : /\ after[0] = c
                    /\ \A i \in 1 .. Len(recs) : after[i] = Fed(after[i - 1], recs[i], t)
                    /\ ProcessAll(c, recs, t) = after[Len(recs)]
<1> DEFINE Is(g, k) == g = [i \in 0 .. k |-> IF i = 0 THEN c ELSE Fed(g[i - 1], recs[i], t)]
           S == {k \in Nat : \E g : Is(g, k)}
<1>1. 0 \in S
  <2>1. Is([i \in 0 .. 0 |-> c], 0)
    OBVIOUS
  <2> QED BY <2>1
<1>2. ASSUME NEW k \in Nat, k \in S PROVE k + 1 \in S
  <2>1. PICK g : Is(g, k)
    BY <1>2
  <2> DEFINE h == [i \in 0 .. k + 1 |-> IF i = k + 1 THEN Fed(g[k], recs[k + 1], t) ELSE g[i]]
  <2>2. ASSUME NEW i \in 0 .. k + 1
        PROVE  h[i] = IF i = 0 THEN c ELSE Fed(h[i - 1], recs[i], t)
    <3>1. CASE i = k + 1
      BY <3>1
    <3>2. CASE i # k + 1 /\ i # 0
      <4>1. i \in 0 .. k /\ i - 1 \in 0 .. k + 1 /\ i - 1 # k + 1
        BY <3>2
      <4>2. h[i] = g[i] /\ h[i - 1] = g[i - 1]
        BY <4>1
      <4>3. g[i] = Fed(g[i - 1], recs[i], t)
        BY <2>1, <3>2, <4>1
      <4> QED BY <3>2, <4>2, <4>3
    <3>3. CASE i = 0
      BY <2>1, <3>3
    <3> QED BY <3>1, <3>2, <3>3
  <2>3. Is(h, k + 1)
    BY <2>2
  <2> HIDE DEF h, Is
  <2> QED BY <2>3
<1>3. Len(recs) \in S
  <2> HIDE DEF S
  <2> QED BY <1>1, <1>2, SetInduction
<1> DEFINE after == CHOOSE g : Is(g, Len(recs))
<1>4. Is(after, Len(recs))
  BY <1>3
<1>5. ProcessAll(c, recs, t) = after[Len(recs)]
  BY DEF ProcessAll, Fed
<1> HIDE DEF after
<1>6. after[0] = c /\ \A i \in 1 .. Len(recs) : after[i] = Fed(after[i - 1], recs[i], t)
  BY <1>4
<1> QED
  BY <1>5, <1>6

(* What every record keeps, a run of records keeps: G holds the clients    *)
(* that may be there after so many records.                                *)
LEMMA ProcessAllKeeps ==
  ASSUME NEW c, NEW recs, Len(recs) \in Nat, NEW t, NEW G, <<0, c>> \in G,
         \A i \in 1 .. Len(recs) : \A x :
           <<i - 1, x>> \in G => <<i, Fed(x, recs[i], t)>> \in G
  PROVE  <<Len(recs), ProcessAll(c, recs, t)>> \in G
<1> DEFINE L == Len(recs)
<1>1. PICK g : /\ g[0] = c /\ \A i \in 1 .. L : g[i] = Fed(g[i - 1], recs[i], t)
               /\ ProcessAll(c, recs, t) = g[L]
  BY SMTT(60), ProcessAllIs
<1> DEFINE S == {k \in Nat : k <= L => <<k, g[k]>> \in G}
<1>2. 0 \in S
  BY <1>1
<1>3. ASSUME NEW k \in Nat, k \in S PROVE k + 1 \in S
  <2> SUFFICES ASSUME k + 1 <= L PROVE <<k + 1, g[k + 1]>> \in G
    OBVIOUS
  <2>1. k + 1 \in 1 .. L /\ (k + 1) - 1 = k /\ k <= L
    OBVIOUS
  <2>2. <<k, g[k]>> \in G
    BY <1>3, <2>1
  <2>3. g[k + 1] = Fed(g[k], recs[k + 1], t)
    BY <1>1, <2>1
  <2> QED BY <2>1, <2>2, <2>3
<1>4. L \in S
  <2> HIDE DEF S
  <2> QED BY <1>2, <1>3, SetInduction
<1> QED
  BY <1>1, <1>4

-----------------------------------------------------------------------------
(* Records of some types, and the rustls client. *)
Record(T) == [type : T, num : Nat]
AnyType == {"CH", "SF", "FIN", "ALERT", "APP", "CLEAR"}

Clients ==
  [shaking : BOOLEAN, out : Seq(Record(AnyType)), early : Seq(Record(AnyType)),
   plain : Seq(Record(AnyType)), torn : BOOLEAN, failed : BOOLEAN]

SentType == {"CH", "FIN", "APP", "ALERT"}

(* A client of a server whose chain is verified, t, or is not: it has no   *)
(* application record to send before the chain was verified, and does not  *)
(* hold plaintext back once it was.  Behind a verified chain only a gap in *)
(* the stream makes it fail.                                               *)
ClientOK(x, t) ==
  /\ x \in Clients
  /\ x.early \in Seq(Record({"APP"})) /\ x.plain \in Seq(Record({"APP"}))
  /\ IF x.shaking THEN x.out \in Seq(Record({"CH", "ALERT"}))
     ELSE t /\ x.early = << >>
  /\ x.out \in Seq(Record(SentType))
  /\ t /\ ~x.torn => ~x.failed

Iota(n) == [i \in 1 .. n |-> i]

EngineType ==
  /\ {trusted, named, pumps, bound, closed} \subseteq BOOLEAN
  /\ written \in Nat /\ served \in Seq(Nat) /\ answers \in Seq(Nat)
  /\ {c2s, s2c, raw, lost} \subseteq Seq(Record(AnyType)) /\ Len(c2s) <= SockBuf

(* With tlsconn: what each queue may hold. *)
NamedTypes ==
  named =>
    /\ ClientOK(cli, trusted)
    /\ s2c \in Seq(Record({"SF", "APP"}))
    /\ cli.shaking => c2s \in Seq(Record({"CH", "ALERT"})) /\ served = << >>
    /\ c2s \in Seq(Record(SentType))
    /\ ~trusted => s2c \in Seq(Record({"SF"}))
    /\ ~bound => raw = << >>

(* With tlsconn: the requests not yet served are queued in order. *)
RequestsQueued ==
  named =>
    served \o (Numbers(c2s) \o (Numbers(cli.out) \o Numbers(cli.early))) = Iota(written)

(* Without tlsconn nothing is encrypted. *)
PlainPath ==
  ~named =>
    /\ cli = NewClient /\ served = << >> /\ answers = << >>
    /\ c2s \in Seq(Record({"CLEAR"})) /\ s2c \in Seq(Record({"ALERT"}))
    /\ raw \in Seq(Record({"ALERT"})) /\ lost = << >>

EngineInv == EngineType /\ NamedTypes /\ RequestsQueued /\ PlainPath /\ AnswersInOnePlace

-----------------------------------------------------------------------------
LEMMA SeqMono ==
  ASSUME NEW S, NEW T, S \subseteq T
  PROVE  Seq(S) \subseteq Seq(T)
<1> SUFFICES ASSUME NEW s \in Seq(S) PROVE s \in Seq(T)
  OBVIOUS
<1>1. Len(s) \in Nat /\ s \in [1 .. Len(s) -> S]
  BY LenProperties
<1>2. s \in [1 .. Len(s) -> T]
  BY <1>1
<1> QED
  BY <1>1, <1>2, IsASeq

LEMMA RecordMono ==
  ASSUME NEW T, NEW U, T \subseteq U
  PROVE  Record(T) \subseteq Record(U) /\ Seq(Record(T)) \subseteq Seq(Record(U))
<1>1. Record(T) \subseteq Record(U)
  BY DEF Record
<1> QED
  BY <1>1, SeqMono

LEMMA RecordIs ==
  ASSUME NEW T, NEW rec \in Record(T)
  PROVE  rec.type \in T /\ rec.num \in Nat
BY DEF Record

LEMMA NumbersOne ==
  ASSUME NEW rec
  PROVE  Numbers(<<rec>>) = IF rec.type = "APP" THEN <<rec.num>> ELSE << >>
<1>1. << >> \in Seq({rec}) /\ Append(<< >>, rec) = <<rec>>
  OBVIOUS
<1>2. Numbers(Append(<< >>, rec)) = Add(Numbers(<< >>), rec)
  BY <1>1, NumbersAppend
<1>3. Append(<< >>, rec.num) = <<rec.num>>
  OBVIOUS
<1> QED
  BY <1>1, <1>2, <1>3, NumbersEmpty DEF Add

(* The record that goes in is one of the server's: its flight or an answer. *)
LEMMA FedKeeps ==
  ASSUME NEW t \in BOOLEAN, NEW x, ClientOK(x, t),
         NEW rec \in Record({"SF", "APP"}), ~t => rec.type = "SF"
  PROVE  LET y == Fed(x, rec, t) IN
         /\ ClientOK(y, t) /\ (y.shaking => x.shaking) /\ y.torn = x.torn
         /\ Numbers(y.out) \o Numbers(y.early) = Numbers(x.out) \o Numbers(x.early)
         /\ x.torn => Numbers(y.plain) = Numbers(x.plain)
         /\ ~x.torn => Numbers(y.plain) = Numbers(x.plain) \o Numbers(<<rec>>)
<1> DEFINE y == Fed(x, rec, t)
           A == Record(AnyType)
<1>a. /\ x \in Clients /\ x.shaking \in BOOLEAN /\ x.torn \in BOOLEAN /\ x.failed \in BOOLEAN
      /\ x.out \in Seq(A) /\ x.early \in Seq(A) /\ x.plain \in Seq(A)
      /\ x = [shaking |-> x.shaking, out |-> x.out, early |-> x.early,
              plain |-> x.plain, torn |-> x.torn, failed |-> x.failed]
  BY DEF ClientOK, Clients
<1>b. /\ x.early \in Seq(Record({"APP"})) /\ x.plain \in Seq(Record({"APP"}))
      /\ x.shaking => x.out \in Seq(Record({"CH", "ALERT"}))
      /\ ~x.shaking => t /\ x.early = << >>
      /\ x.out \in Seq(Record(SentType)) /\ (t /\ ~x.torn => ~x.failed)
  BY DEF ClientOK
<1>c. rec.type \in {"SF", "APP"} /\ rec.num \in Nat /\ rec \in A
  BY RecordIs, RecordMono DEF AnyType
<1>d. \A r \in A : r.num \in Nat
  BY RecordIs
<1>e. <<rec>> \in Seq(A) /\ << >> \in Seq(A) /\ Append(<< >>, rec) = <<rec>>
  BY <1>c
<1>f. rec.type = "SF" => Numbers(<<rec>>) = << >>
  BY NumbersOne
<1>g. \A s \in Seq(A) : Numbers(s) \in Seq(Nat) /\ Numbers(s) \o << >> = Numbers(s)
  BY <1>d, NumbersType, ConcatEmptySeq
<1>h. \A s, u \in Seq(A) : s \o u \in Seq(A) /\ Numbers(s \o u) = Numbers(s) \o Numbers(u)
  BY <1>d, NumbersConcat, ConcatProperties
<1> HIDE DEF A
<1>1. CASE x.failed
  <2>1. y = x
    BY <1>1 DEF Fed
  <2>2. ~x.torn => Numbers(<<rec>>) = << >>
    BY <1>1, <1>b, <1>f
  <2> QED BY <1>a, <1>g, <2>1, <2>2
<1>2. CASE ~x.failed /\ ~x.torn /\ rec.type = "SF" /\ t
  <2> DEFINE fin == <<Handshake("FIN")>>
             o == (x.out \o fin) \o x.early
  <2>1. y = [shaking |-> FALSE, out |-> o, early |-> << >>, plain |-> x.plain,
             torn |-> x.torn, failed |-> x.failed]
    BY <1>2, <1>a DEF Fed, Process
  <2>2. Handshake("FIN") \in Record(SentType) /\ Handshake("FIN") \in A
    BY DEF Handshake, Record, A, AnyType, SentType
  <2>3. fin \in Seq(Record(SentType)) /\ fin \in Seq(A)
    BY <2>2
  <2>4. Numbers(fin) = << >>
    BY NumbersOne DEF Handshake
  <2> HIDE DEF fin
  <2>5. o \in Seq(Record(SentType))
    <3>1. x.early \in Seq(Record(SentType))
      BY <1>b, RecordMono DEF SentType
    <3> QED BY <1>2, <1>b, <2>3, <3>1, ConcatProperties
  <2>6. o \in Seq(A) /\ Numbers(o) = Numbers(x.out) \o Numbers(x.early)
    <3>1. x.out \o fin \in Seq(A) /\ Numbers(x.out \o fin) = Numbers(x.out)
      <4>1. x.out \o fin \in Seq(A) /\ Numbers(x.out \o fin) = Numbers(x.out) \o Numbers(fin)
        BY <1>a, <1>h, <2>3
      <4>2. Numbers(x.out) \o << >> = Numbers(x.out)
        BY <1>a, <1>g
      <4> QED BY <2>4, <4>1, <4>2
    <3> QED BY <1>a, <1>h, <3>1
  <2>0. /\ y.shaking = FALSE /\ y.out = o /\ y.early = << >> /\ y.plain = x.plain
        /\ y.torn = x.torn /\ y.failed = x.failed
    <3> HIDE DEF y, o
    <3> QED BY <2>1
  <2> HIDE DEF o
  <2>7. << >> \in Seq(Record({"APP"}))
    OBVIOUS
  <2>8. ClientOK(y, t)
    <3>1. y \in Clients
      BY <1>a, <1>e, <2>1, <2>6 DEF Clients, A
    <3> HIDE DEF y
    <3> QED BY <1>2, <1>b, <2>0, <2>5, <2>7, <3>1 DEF ClientOK
  <2>9. Numbers(y.out) \o Numbers(y.early) = Numbers(x.out) \o Numbers(x.early)
    <3> HIDE DEF y
    <3> QED BY <1>a, <2>0, <2>6, <1>g, NumbersEmpty
  <2>10. Numbers(y.plain) = Numbers(x.plain) \o Numbers(<<rec>>)
    <3> HIDE DEF y
    <3> QED BY <1>2, <1>a, <1>f, <1>g, <2>0
  <2> QED BY <1>2, <2>0, <2>8, <2>9, <2>10
<1>3. CASE ~x.failed /\ (x.torn \/ (rec.type = "SF" /\ ~t))
  <2> DEFINE o == Append(x.out, Handshake("ALERT"))
  <2>1. y = [shaking |-> x.shaking, out |-> o, early |-> x.early, plain |-> x.plain,
             torn |-> x.torn, failed |-> TRUE]
    BY <1>3, <1>a DEF Fed, Process
  <2>2. /\ Handshake("ALERT") \in Record({"CH", "ALERT"}) /\ Handshake("ALERT") \in A
        /\ Handshake("ALERT") \in Record(SentType)
    BY DEF Handshake, Record, A, AnyType, SentType
  <2>3. x.shaking => o \in Seq(Record({"CH", "ALERT"}))
    BY <1>b, <2>2, AppendProperties
  <2>4. o \in Seq(Record(SentType)) /\ o \in Seq(A)
    BY <1>a, <1>b, <2>2, AppendProperties
  <2>5. Numbers(o) = Numbers(x.out)
    <3>1. Numbers(o) = Add(Numbers(x.out), Handshake("ALERT"))
      BY <1>a, <2>2, NumbersAppend
    <3> QED BY <3>1 DEF Add, Handshake
  <2>0. /\ y.shaking = x.shaking /\ y.out = o /\ y.early = x.early /\ y.plain = x.plain
        /\ y.torn = x.torn
    BY <2>1
  <2> HIDE DEF o
  <2>8. ClientOK(y, t)
    BY <1>3, <1>a, <1>b, <2>1, <2>3, <2>4 DEF ClientOK, Clients, A
  <2>10. ~x.torn => Numbers(y.plain) = Numbers(x.plain) \o Numbers(<<rec>>)
    <3> HIDE DEF y
    <3> QED BY <1>3, <1>a, <1>f, <1>g, <2>0
  <2> QED BY <2>0, <2>5, <2>8, <2>10
<1>4. CASE ~x.failed /\ ~x.torn /\ rec.type = "APP"
  <2> DEFINE p == Append(x.plain, rec)
  <2>1. y = [shaking |-> x.shaking, out |-> x.out, early |-> x.early, plain |-> p,
             torn |-> x.torn, failed |-> x.failed]
    BY <1>4, <1>a DEF Fed, Process
  <2>2. rec \in Record({"APP"})
    BY <1>4 DEF Record
  <2>3. p \in Seq(Record({"APP"})) /\ p \in Seq(A)
    BY <1>a, <1>b, <1>c, <2>2, AppendProperties
  <2>4. p = x.plain \o <<rec>>
    BY <1>a, <1>c, AppendIsConcat
  <2>5. Numbers(p) = Numbers(x.plain) \o Numbers(<<rec>>)
    BY <1>a, <1>e, <1>h, <2>4
  <2>0. /\ y.shaking = x.shaking /\ y.out = x.out /\ y.early = x.early /\ y.plain = p
        /\ y.torn = x.torn
    BY <2>1
  <2> HIDE DEF p
  <2>8. ClientOK(y, t)
    BY <1>4, <1>a, <1>b, <2>1, <2>3 DEF ClientOK, Clients, A
  <2> HIDE DEF y
  <2> QED BY <1>4, <2>0, <2>5, <2>8 DEF y
<1> QED
  BY <1>1, <1>2, <1>3, <1>4, <1>a, <1>c

(* A sequence cut after its first k elements. *)
LEMMA Cut ==
  ASSUME NEW R, NEW b \in Seq(R), NEW k \in 0 .. Len(b)
  PROVE  LET front == SubSeq(b, 1, k)
             rest  == SubSeq(b, k + 1, Len(b))
         IN  front \in Seq(R) /\ rest \in Seq(R) /\ Len(front) = k /\ front \o rest = b
<1> DEFINE front == SubSeq(b, 1, k)
           rest  == SubSeq(b, k + 1, Len(b))
<1>1. Len(b) \in Nat /\ \A i \in 1 .. Len(b) : b[i] \in R
  BY ElementOfSeq
<1>2. front \in Seq(R) /\ Len(front) = k
  <2>1. 1 \in Int /\ k \in Int /\ \A i \in 1 .. k : b[i] \in R
    BY <1>1
  <2>2. front \in Seq(R) /\ Len(front) = IF 1 <= k THEN k - 1 + 1 ELSE 0
    BY <2>1, SubSeqProperties
  <2> QED BY <2>1, <2>2
<1>3. rest \in Seq(R)
  <2>1. k + 1 \in Int /\ Len(b) \in Int /\ \A i \in k + 1 .. Len(b) : b[i] \in R
    BY <1>1
  <2> QED BY <2>1, SubSeqProperties
<1>4. front \o rest = b
  <2>1. 1 \in 1 .. Len(b) + 1 /\ k \in 1 - 1 .. Len(b) /\ Len(b) \in k .. Len(b)
    BY <1>1
  <2>2. front \o rest = SubSeq(b, 1, Len(b))
    BY <2>1, ConcatAdjacentSubSeq
  <2> QED BY <2>2, SubSeqFull
<1> QED
  BY <1>2, <1>3, <1>4

LEMMA NatSeqs ==
  /\ \A a, b, d \in Seq(Nat) : (a \o b) \o d = a \o (b \o d)
  /\ \A a, b \in Seq(Nat) : a \o b \in Seq(Nat)
  /\ \A a \in Seq(Nat) : a \o << >> = a /\ << >> \o a = a
BY SMTT(60), ConcatAssociative, ConcatProperties, ConcatEmptySeq

(* The same under a name, which keeps the provers from taking longer       *)
(* concatenations apart.                                                   *)
Cat(a, b) == a \o b

LEMMA CatIn ==
  ASSUME NEW R
  PROVE  /\ \A a, b, d \in Seq(R) : Cat(Cat(a, b), d) = Cat(a, Cat(b, d))
         /\ \A a, b \in Seq(R) : Cat(a, b) \in Seq(R)
BY ConcatAssociative, ConcatProperties DEF Cat

LEMMA CatAssociative ==
  /\ \A a, b, d \in Seq(Nat) : Cat(Cat(a, b), d) = Cat(a, Cat(b, d))
  /\ \A a, b \in Seq(Nat) : Cat(a, b) \in Seq(Nat)
BY CatIn

(* The numbers of records of any type. *)
LEMMA NumbersAny ==
  /\ \A s \in Seq(Record(AnyType)) : Numbers(s) \in Seq(Nat)
  /\ \A s, u \in Seq(Record(AnyType)) :
        s \o u \in Seq(Record(AnyType)) /\ Numbers(s \o u) = Numbers(s) \o Numbers(u)
<1> DEFINE A == Record(AnyType)
<1>1. \A r \in A : r.num \in Nat
  BY RecordIs
<1> HIDE DEF A
<1>2. \A s \in Seq(A) : Numbers(s) \in Seq(Nat)
  BY <1>1, NumbersType
<1>3. \A s, u \in Seq(A) : s \o u \in Seq(A) /\ Numbers(s \o u) = Numbers(s) \o Numbers(u)
  BY <1>1, NumbersConcat, ConcatProperties
<1> QED
  BY <1>2, <1>3 DEF A

(* What a client c that is fed recs, and is y then, keeps: in front of a   *)
(* gap it has all of them, behind one it has none.                         *)
Took(c, recs, t, y) ==
  /\ ClientOK(y, t) /\ (y.shaking => c.shaking) /\ y.torn = c.torn
  /\ Numbers(y.out) \o Numbers(y.early) = Numbers(c.out) \o Numbers(c.early)
  /\ c.torn => Numbers(y.plain) = Numbers(c.plain)
  /\ ~c.torn => Numbers(y.plain) = Numbers(c.plain) \o Numbers(recs)

(* A run of the server's records. *)
LEMMA Processed ==
  ASSUME NEW t \in BOOLEAN, NEW c, ClientOK(c, t),
         NEW recs \in Seq(Record({"SF", "APP"})), ~t => recs \in Seq(Record({"SF"}))
  PROVE  Took(c, recs, t, ProcessAll(c, recs, t))
<1> DEFINE L == Len(recs)
           A == Record(AnyType)
           Upto(i) == SubSeq(recs, 1, i)
           Good(i, x) == /\ ClientOK(x, t) /\ (x.shaking => c.shaking) /\ x.torn = c.torn
                         /\ Numbers(x.out) \o Numbers(x.early)
                              = Numbers(c.out) \o Numbers(c.early)
                         /\ c.torn => Numbers(x.plain) = Numbers(c.plain)
                         /\ ~c.torn => Numbers(x.plain) = Numbers(c.plain) \o Numbers(Upto(i))
           G == {p \in Nat \X Clients : Good(p[1], p[2])}
<1>1. L \in Nat /\ recs \in Seq(A) /\ c \in Clients /\ c.plain \in Seq(A)
  BY RecordMono DEF AnyType, ClientOK, Clients
<1>2. \A i \in 1 .. L : recs[i] \in Record({"SF", "APP"}) /\ (~t => recs[i].type = "SF")
  <2>1. ASSUME NEW i \in 1 .. L PROVE recs[i] \in Record({"SF", "APP"})
    BY ElementOfSeq
  <2>2. ASSUME NEW i \in 1 .. L, ~t PROVE recs[i].type = "SF"
    BY <2>2, ElementOfSeq, RecordIs
  <2> QED BY <2>1, <2>2
<1>3. \A i \in 0 .. L : Upto(i) \in Seq(A)
  BY <1>1, Cut
<1>4. <<0, c>> \in G
  <2>1. Upto(0) = << >>
    BY SubSeqEmpty
  <2>2. Numbers(c.plain) \o Numbers(Upto(0)) = Numbers(c.plain)
    <3>1. Numbers(c.plain) \in Seq(Nat)
      BY <1>1, NumbersAny
    <3> QED BY <2>1, <3>1, NumbersEmpty, ConcatEmptySeq
  <2>3. Good(0, c)
    BY <2>2
  <2> HIDE DEF Good
  <2> QED BY <1>1, <2>3
<1>5. ASSUME NEW i \in 1 .. L, NEW x, <<i - 1, x>> \in G
      PROVE  <<i, Fed(x, recs[i], t)>> \in G
  <2> DEFINE r == recs[i]
             y == Fed(x, r, t)
  <2>1. x \in Clients /\ Good(i - 1, x) /\ i \in Nat /\ i - 1 \in 0 .. L
    <3>1. i \in Nat /\ i - 1 \in 0 .. L
      BY <1>1
    <3> HIDE DEF Good
    <3>2. <<i - 1, x>>[1] = i - 1 /\ <<i - 1, x>>[2] = x
      OBVIOUS
    <3>3. <<i - 1, x>> \in Nat \X Clients /\ Good(<<i - 1, x>>[1], <<i - 1, x>>[2])
      BY <1>5
    <3> QED BY <3>1, <3>2, <3>3
  <2>2. r \in Record({"SF", "APP"}) /\ (~t => r.type = "SF") /\ r \in A
    BY <1>2, RecordMono DEF AnyType
  <2>3. /\ ClientOK(y, t) /\ (y.shaking => x.shaking) /\ y.torn = x.torn
        /\ Numbers(y.out) \o Numbers(y.early) = Numbers(x.out) \o Numbers(x.early)
        /\ x.torn => Numbers(y.plain) = Numbers(x.plain)
        /\ ~x.torn => Numbers(y.plain) = Numbers(x.plain) \o Numbers(<<r>>)
    <3> HIDE DEF r
    <3> QED BY <2>1, <2>2, FedKeeps
  <2>4. Upto(i) = Upto(i - 1) \o <<r>>
    <3>1. 1 \in 1 .. L /\ i \in 1 .. L
      BY <1>1
    <3> QED BY <3>1, <1>1, SubSeqRecursiveSecond
  <2>5. Numbers(Upto(i)) = Numbers(Upto(i - 1)) \o Numbers(<<r>>)
    <3>1. Upto(i - 1) \in Seq(A) /\ <<r>> \in Seq(A)
      BY <1>3, <2>1, <2>2
    <3> HIDE DEF r, Upto
    <3> QED BY <2>4, <3>1, NumbersAny DEF A
  <2>6. ~c.torn => Numbers(y.plain) = Numbers(c.plain) \o Numbers(Upto(i))
    <3> DEFINE n1 == Numbers(c.plain)
               n2 == Numbers(Upto(i - 1))
               n3 == Numbers(<<r>>)
    <3>1. n1 \in Seq(Nat) /\ n2 \in Seq(Nat) /\ n3 \in Seq(Nat)
      <4>1. c.plain \in Seq(A) /\ Upto(i - 1) \in Seq(A) /\ <<r>> \in Seq(A)
        BY <1>1, <1>3, <2>1, <2>2
      <4> HIDE DEF Upto, r
      <4> QED BY <4>1, NumbersAny DEF A
    <3>2. (n1 \o n2) \o n3 = n1 \o (n2 \o n3)
      <4> HIDE DEF n1, n2, n3
      <4> QED BY SMTT(60), <3>1, NatSeqs
    <3> QED BY <2>1, <2>3, <2>5, <3>2
  <2> HIDE DEF y, Upto
  <2>7. Good(i, y) /\ y \in Clients
    BY <2>1, <2>3, <2>6 DEF ClientOK
  <2> HIDE DEF Good
  <2> QED BY <2>1, <2>7 DEF y
<1>6. <<L, ProcessAll(c, recs, t)>> \in G
  <2> HIDE DEF G
  <2> QED BY <1>1, <1>4, <1>5, ProcessAllKeeps
<1>7. Upto(L) = recs
  BY SubSeqFull
<1>8. Good(L, ProcessAll(c, recs, t))
  BY <1>6
<1> HIDE DEF Upto
<1> QED
  BY <1>7, <1>8 DEF Took

-----------------------------------------------------------------------------
(* The other operations of the client. *)

LEMMA ClientParts ==
  ASSUME NEW t \in BOOLEAN, NEW c, ClientOK(c, t)
  PROVE  /\ c.shaking \in BOOLEAN /\ c.torn \in BOOLEAN /\ c.failed \in BOOLEAN
         /\ c.out \in Seq(Record(AnyType)) /\ c.early \in Seq(Record(AnyType))
         /\ c.plain \in Seq(Record(AnyType))
         /\ c.early \in Seq(Record({"APP"})) /\ c.plain \in Seq(Record({"APP"}))
         /\ c.shaking => c.out \in Seq(Record({"CH", "ALERT"}))
         /\ ~c.shaking => t /\ c.early = << >>
         /\ c.out \in Seq(Record(SentType)) /\ (t /\ ~c.torn => ~c.failed)
         /\ c = [shaking |-> c.shaking, out |-> c.out, early |-> c.early,
                 plain |-> c.plain, torn |-> c.torn, failed |-> c.failed]
BY DEF ClientOK, Clients

LEMMA ClientIs ==
  ASSUME NEW t \in BOOLEAN, NEW sh \in BOOLEAN, NEW g \in BOOLEAN, NEW f \in BOOLEAN,
         NEW o \in Seq(Record(SentType)),
         NEW e \in Seq(Record({"APP"})), NEW p \in Seq(Record({"APP"})),
         sh => o \in Seq(Record({"CH", "ALERT"})),
         ~sh => t /\ e = << >>,
         t /\ ~g => ~f
  PROVE  ClientOK([shaking |-> sh, out |-> o, early |-> e, plain |-> p, torn |-> g,
                   failed |-> f], t)
<1>1. e \in Seq(Record(AnyType)) /\ p \in Seq(Record(AnyType)) /\ o \in Seq(Record(AnyType))
  BY RecordMono DEF AnyType, SentType
<1> DEFINE A == Record(AnyType)
           B == Record({"APP"})
           C == Record({"CH", "ALERT"})
           D == Record(SentType)
<1> HIDE DEF A, B, C, D
<1> QED
  BY <1>1 DEF ClientOK, Clients, A, B, C, D

LEMMA ClientExcept ==
  ASSUME NEW t, NEW c, ClientOK(c, t), NEW v
  PROVE  /\ [c EXCEPT !.out = v] = [shaking |-> c.shaking, out |-> v, early |-> c.early,
                                    plain |-> c.plain, torn |-> c.torn, failed |-> c.failed]
         /\ [c EXCEPT !.early = v] = [shaking |-> c.shaking, out |-> c.out, early |-> v,
                                      plain |-> c.plain, torn |-> c.torn, failed |-> c.failed]
         /\ [c EXCEPT !.plain = v] = [shaking |-> c.shaking, out |-> c.out, early |-> c.early,
                                      plain |-> v, torn |-> c.torn, failed |-> c.failed]
         /\ [c EXCEPT !.torn = v] = [shaking |-> c.shaking, out |-> c.out, early |-> c.early,
                                     plain |-> c.plain, torn |-> v, failed |-> c.failed]
BY DEF ClientOK, Clients

(* A gap in front of the client changes nothing else. *)
LEMMA TornKeeps ==
  ASSUME NEW t \in BOOLEAN, NEW c, ClientOK(c, t), NEW g \in BOOLEAN, c.torn => g
  PROVE  LET y == [c EXCEPT !.torn = g] IN
         /\ ClientOK(y, t) /\ y.shaking = c.shaking /\ y.plain = c.plain /\ y.torn = g
         /\ y.out = c.out /\ y.early = c.early /\ y.failed = c.failed
<1> DEFINE y == [c EXCEPT !.torn = g]
<1>1. y = [shaking |-> c.shaking, out |-> c.out, early |-> c.early, plain |-> c.plain,
           torn |-> g, failed |-> c.failed]
  BY ClientExcept
<1>2. ClientOK(y, t)
  BY <1>1, ClientParts, ClientIs
<1>3. /\ y.shaking = c.shaking /\ y.plain = c.plain /\ y.torn = g
      /\ y.out = c.out /\ y.early = c.early /\ y.failed = c.failed
  <2> HIDE DEF y
  <2> QED BY <1>1
<1> QED
  BY <1>2, <1>3

(* One call of read_tls: what it does not take, and what comes behind a    *)
(* gap, is missed; the rest comes out as plaintext in order.               *)
LEMMA ReadTlsKeeps ==
  ASSUME NEW t \in BOOLEAN, NEW c, ClientOK(c, t),
         NEW recs \in Seq(Record({"SF", "APP"})), ~t => recs \in Seq(Record({"SF"})),
         NEW m \in 0 .. Len(recs)
  PROVE  LET y    == ReadTls(c, recs, m, t)
             miss == Missed(c, recs, m) IN
         /\ ClientOK(y, t) /\ (y.shaking => c.shaking) /\ (c.torn => y.torn)
         /\ Numbers(y.out) \o Numbers(y.early) = Numbers(c.out) \o Numbers(c.early)
         /\ miss \in Seq(Record(AnyType))
         /\ Numbers(y.plain) \o Numbers(miss) = Numbers(c.plain) \o Numbers(recs)
         /\ c.torn => Numbers(y.plain) = Numbers(c.plain) /\ Numbers(miss) = Numbers(recs)
         /\ ~y.torn => Numbers(miss) = << >>
<1> DEFINE A == Record(AnyType)
           front == SubSeq(recs, 1, m)
           rest  == SubSeq(recs, m + 1, Len(recs))
           z == ProcessAll(c, front, t)
           g == c.torn \/ m < Len(recs)
           y == ReadTls(c, recs, m, t)
           miss == Missed(c, recs, m)
<1>1. /\ front \in Seq(Record({"SF", "APP"})) /\ rest \in Seq(Record({"SF", "APP"}))
      /\ front \o rest = recs
  BY Cut
<1>2. ~t => front \in Seq(Record({"SF"}))
  BY Cut
<1>3. front \in Seq(A) /\ rest \in Seq(A) /\ recs \in Seq(A)
  <2>1. {"SF", "APP"} \subseteq AnyType
    BY DEF AnyType
  <2>2. Seq(Record({"SF", "APP"})) \subseteq Seq(A)
    BY <2>1, RecordMono
  <2> HIDE DEF A, front, rest
  <2> QED BY <1>1, <2>2
<1>4. c.torn \in BOOLEAN /\ c.plain \in Seq(A)
  BY ClientParts
<1>5. miss = IF c.torn THEN recs ELSE rest
  <2>1. c.torn => miss = SubSeq(recs, 0 + 1, Len(recs))
    BY DEF Missed
  <2>2. SubSeq(recs, 0 + 1, Len(recs)) = recs
    BY SubSeqFull
  <2>3. ~c.torn => miss = rest
    BY DEF Missed
  <2> QED BY <2>1, <2>2, <2>3
<1>6. y = [z EXCEPT !.torn = g]
  BY DEF ReadTls
<1>7. m = Len(recs) => rest = << >>
  <2>1. Len(recs) \in Nat
    OBVIOUS
  <2> QED BY <2>1, SubSeqEmpty
<1>8. g \in BOOLEAN /\ (~g => ~c.torn /\ m = Len(recs))
  <2>1. Len(recs) \in Nat
    OBVIOUS
  <2> QED BY <1>4, <2>1
<1> HIDE DEF front, rest, g, y, miss
<1>9. /\ ClientOK(z, t) /\ (z.shaking => c.shaking) /\ z.torn = c.torn
      /\ Numbers(z.out) \o Numbers(z.early) = Numbers(c.out) \o Numbers(c.early)
      /\ c.torn => Numbers(z.plain) = Numbers(c.plain)
      /\ ~c.torn => Numbers(z.plain) = Numbers(c.plain) \o Numbers(front)
  <2>1. front \in Seq(Record({"SF", "APP"})) /\ (~t => front \in Seq(Record({"SF"})))
    BY <1>1, <1>2
  <2>2. Took(c, front, t, z)
    BY <2>1, Processed
  <2> HIDE DEF z
  <2> QED BY <2>2 DEF Took
<1> HIDE DEF z
<1>10. /\ ClientOK(y, t) /\ y.shaking = z.shaking /\ y.plain = z.plain /\ y.torn = g
       /\ y.out = z.out /\ y.early = z.early
  <2>1. z.torn => g
    BY <1>9 DEF g
  <2> QED BY ZenonT(60), <1>6, <1>8, <1>9, <2>1, TornKeeps
<1>11. ~g => Numbers(miss) = << >>
  BY <1>5, <1>7, <1>8, NumbersEmpty
<1>12. c.torn => y.torn
  BY <1>10 DEF g
<1>13. miss \in Seq(A)
  BY <1>3, <1>5
<1>14. c.torn => Numbers(y.plain) = Numbers(c.plain) /\ Numbers(miss) = Numbers(recs)
  BY <1>5, <1>9, <1>10
<1>15. Numbers(y.plain) \o Numbers(miss) = Numbers(c.plain) \o Numbers(recs)
  <2>1. CASE c.torn
    BY <1>14, <2>1
  <2>2. CASE ~c.torn
    <3> DEFINE p1 == Numbers(c.plain)
               p2 == Numbers(front)
               p3 == Numbers(rest)
    <3>1. p1 \in Seq(Nat) /\ p2 \in Seq(Nat) /\ p3 \in Seq(Nat) /\ Numbers(recs) = p2 \o p3
      BY <1>1, <1>3, <1>4, NumbersAny
    <3>2. Numbers(y.plain) = p1 \o p2 /\ Numbers(miss) = p3
      BY <1>5, <1>9, <1>10, <2>2
    <3> HIDE DEF p1, p2, p3
    <3>3. Cat(Cat(p1, p2), p3) = Cat(p1, Cat(p2, p3))
      BY <3>1, CatAssociative
    <3>4. (p1 \o p2) \o p3 = p1 \o (p2 \o p3)
      BY <3>3 DEF Cat
    <3> QED BY <3>1, <3>2, <3>4 DEF p1
  <2> QED BY <1>4, <2>1, <2>2
<1> QED
  BY <1>9, <1>10, <1>11, <1>12, <1>13, <1>14, <1>15 DEF y, miss

LEMMA WriteKeeps ==
  ASSUME NEW t \in BOOLEAN, NEW c, ClientOK(c, t), NEW k \in Nat
  PROVE  LET y == Write(c, App(k)) IN
         /\ ClientOK(y, t) /\ y.shaking = c.shaking /\ y.plain = c.plain /\ y.torn = c.torn
         /\ Numbers(y.out) \o Numbers(y.early)
              = (Numbers(c.out) \o Numbers(c.early)) \o <<k>>
<1> DEFINE y == Write(c, App(k))
           a == App(k)
           A == Record(AnyType)
<1>1. a \in A /\ a \in Record({"APP"}) /\ a \in Record(SentType)
  BY DEF App, Record, AnyType, SentType
<1>2. Numbers(<<a>>) = <<k>>
  <2>1. a.type = "APP" /\ a.num = k
    BY DEF App
  <2> HIDE DEF a
  <2> QED BY <2>1, NumbersOne
<1>3. \A s \in Seq(A) : Numbers(Append(s, a)) = Numbers(s) \o <<k>>
  <2> HIDE DEF a
  <2>1. ASSUME NEW s \in Seq(A) PROVE Append(s, a) = s \o <<a>> /\ <<a>> \in Seq(A)
    BY <1>1, AppendIsConcat
  <2> QED BY <1>2, <2>1, NumbersAny DEF A
<1>4. <<k>> \in Seq(Nat) /\ Numbers(c.out) \in Seq(Nat) /\ Numbers(c.early) \in Seq(Nat)
  BY ClientParts, NumbersAny
<1>5. CASE c.shaking
  <2> DEFINE e == Append(c.early, a)
  <2>1. y = [shaking |-> c.shaking, out |-> c.out, early |-> e, plain |-> c.plain,
             torn |-> c.torn, failed |-> c.failed]
    BY <1>5, ClientExcept DEF Write
  <2>2. e \in Seq(Record({"APP"})) /\ Numbers(e) = Numbers(c.early) \o <<k>>
    BY <1>1, <1>3, ClientParts, AppendProperties
  <2> HIDE DEF e
  <2>3. ClientOK(y, t)
    <3>1. c.out \in Seq(Record(SentType)) /\ c.out \in Seq(Record({"CH", "ALERT"}))
      BY <1>5, ClientParts
    <3>2. /\ c.shaking \in BOOLEAN /\ c.failed \in BOOLEAN /\ c.torn \in BOOLEAN
          /\ c.plain \in Seq(Record({"APP"}))
      BY ClientParts
    <3>3. t /\ ~c.torn => ~c.failed
      BY ClientParts
    <3>4. c.shaking => c.out \in Seq(Record({"CH", "ALERT"}))
      BY <3>1
    <3>5. ~c.shaking => t /\ e = << >>
      BY <1>5
    <3>6. ClientOK([shaking |-> c.shaking, out |-> c.out, early |-> e, plain |-> c.plain,
                    torn |-> c.torn, failed |-> c.failed], t)
      BY ZenonT(60), <2>2, <3>1, <3>2, <3>3, <3>4, <3>5, ClientIs
    <3> QED BY <2>1, <3>6, Zenon
  <2>4. /\ y.shaking = c.shaking /\ y.plain = c.plain /\ y.out = c.out /\ y.early = e
        /\ y.torn = c.torn
    <3> HIDE DEF y
    <3> QED BY <2>1
  <2>5. Numbers(c.out) \o (Numbers(c.early) \o <<k>>)
          = (Numbers(c.out) \o Numbers(c.early)) \o <<k>>
    BY <1>4, NatSeqs
  <2> HIDE DEF y
  <2> QED BY <2>2, <2>3, <2>4, <2>5 DEF y
<1>6. CASE ~c.shaking
  <2> DEFINE o == Append(c.out, a)
  <2>1. y = [shaking |-> c.shaking, out |-> o, early |-> c.early, plain |-> c.plain,
             torn |-> c.torn, failed |-> c.failed]
    BY <1>6, ClientExcept DEF Write
  <2>2. /\ o \in Seq(Record(SentType)) /\ o \in Seq(A)
        /\ Numbers(o) = Numbers(c.out) \o <<k>>
    BY <1>1, <1>3, <1>6, ClientParts, AppendProperties
  <2> HIDE DEF o
  <2>3. ClientOK(y, t)
    BY <1>6, <2>1, <2>2, ClientParts, ClientIs
  <2>4. /\ y.shaking = c.shaking /\ y.plain = c.plain /\ y.out = o /\ y.early = c.early
        /\ y.torn = c.torn
    <3> HIDE DEF y
    <3> QED BY <2>1
  <2>5. Numbers(c.early) = << >>
    BY <1>6, ClientParts, NumbersEmpty
  <2>6. (Numbers(c.out) \o <<k>>) \o << >> = (Numbers(c.out) \o << >>) \o <<k>>
    BY <1>4, NatSeqs
  <2> HIDE DEF y
  <2> QED BY <2>2, <2>3, <2>4, <2>5, <2>6 DEF y
<1> QED
  BY <1>5, <1>6, ClientParts

LEMMA WroteKeeps ==
  ASSUME NEW t \in BOOLEAN, NEW c, ClientOK(c, t), NEW n \in 0 .. Len(c.out)
  PROVE  LET y == Wrote(c, n)
             front == SubSeq(c.out, 1, n) IN
         /\ ClientOK(y, t) /\ y.shaking = c.shaking /\ y.plain = c.plain /\ y.torn = c.torn
         /\ y.early = c.early /\ y.out = SubSeq(c.out, n + 1, Len(c.out))
         /\ front \in Seq(Record(AnyType)) /\ Len(front) = n
         /\ c.shaking => front \in Seq(Record({"CH", "ALERT"}))
         /\ front \in Seq(Record(SentType))
         /\ Numbers(c.out) = Numbers(front) \o Numbers(y.out)
<1> DEFINE y == Wrote(c, n)
           front == SubSeq(c.out, 1, n)
           rest  == SubSeq(c.out, n + 1, Len(c.out))
<1>1. /\ front \in Seq(Record(AnyType)) /\ rest \in Seq(Record(AnyType))
      /\ Len(front) = n /\ front \o rest = c.out
  <2>1. c.out \in Seq(Record(AnyType))
    BY ClientParts
  <2> QED BY <2>1, Cut
<1>2. ASSUME c.shaking
      PROVE  front \in Seq(Record({"CH", "ALERT"})) /\ rest \in Seq(Record({"CH", "ALERT"}))
  BY <1>2, ClientParts, Cut
<1>3. front \in Seq(Record(SentType)) /\ rest \in Seq(Record(SentType))
  BY ClientParts, Cut
<1>4. y = [shaking |-> c.shaking, out |-> rest, early |-> c.early, plain |-> c.plain,
           torn |-> c.torn, failed |-> c.failed]
  <2>1. y = [c EXCEPT !.out = rest]
    BY DEF Wrote
  <2> HIDE DEF y, rest
  <2> QED BY <2>1, ClientExcept
<1> HIDE DEF front, rest
<1>5. ClientOK(y, t)
  BY <1>1, <1>2, <1>3, <1>4, ClientParts, ClientIs
<1>6. /\ y.shaking = c.shaking /\ y.plain = c.plain /\ y.out = rest /\ y.early = c.early
      /\ y.torn = c.torn
  <2> HIDE DEF y
  <2> QED BY <1>4
<1>7. Numbers(c.out) = Numbers(front) \o Numbers(rest)
  BY <1>1, NumbersAny
<1> HIDE DEF y
<1> QED
  BY <1>1, <1>2, <1>3, <1>5, <1>6, <1>7 DEF y, front, rest

LEMMA ReadPlainKeeps ==
  ASSUME NEW t \in BOOLEAN, NEW c, ClientOK(c, t), c.plain # << >>
  PROVE  LET y == ReadPlain(c) IN
         /\ ClientOK(y, t) /\ y.shaking = c.shaking /\ y.out = c.out /\ y.early = c.early
         /\ y.torn = c.torn
         /\ Head(c.plain).num \in Nat
         /\ Numbers(c.plain) = <<Head(c.plain).num>> \o Numbers(y.plain)
<1> DEFINE y == ReadPlain(c)
           h == Head(c.plain)
           u == Tail(c.plain)
<1>1. h \in Record({"APP"}) /\ u \in Seq(Record({"APP"})) /\ c.plain = <<h>> \o u
  <2> DEFINE q == c.plain
             B == Record({"APP"})
  <2>1. q \in Seq(B) /\ q # << >>
    BY ClientParts
  <2> HIDE DEF q, B
  <2>2. Head(q) \in B /\ Tail(q) \in Seq(B) /\ q = <<Head(q)>> \o Tail(q)
    BY <2>1, HeadTailProperties
  <2> QED BY <2>2 DEF q, B
<1>2. <<h>> \in Seq(Record(AnyType)) /\ u \in Seq(Record(AnyType))
  BY <1>1, RecordMono DEF AnyType
<1>3. Numbers(<<h>>) = <<h.num>> /\ h.num \in Nat
  <2> HIDE DEF h
  <2>1. h.type = "APP" /\ h.num \in Nat
    BY <1>1, RecordIs
  <2> QED BY <2>1, NumbersOne
<1>4. y = [shaking |-> c.shaking, out |-> c.out, early |-> c.early, plain |-> u,
           torn |-> c.torn, failed |-> c.failed]
  BY ClientExcept DEF ReadPlain
<1> HIDE DEF h, u
<1>5. ClientOK(y, t)
  BY <1>1, <1>4, ClientParts, ClientIs
<1>6. /\ y.shaking = c.shaking /\ y.out = c.out /\ y.early = c.early /\ y.plain = u
      /\ y.torn = c.torn
  <2> HIDE DEF y
  <2> QED BY <1>4
<1>7. Numbers(c.plain) = <<h.num>> \o Numbers(u)
  BY <1>1, <1>2, <1>3, NumbersAny
<1> HIDE DEF y
<1> QED
  BY <1>3, <1>5, <1>6, <1>7 DEF y, h

-----------------------------------------------------------------------------
(* The steps of an engine connection. *)

(* Flush moves records from the client to the socket, as many as it takes. *)
LEMMA FlushKeeps ==
  ASSUME EngineType, NEW c, ClientOK(c, trusted), Flush(c)
  PROVE  /\ ClientOK(cli', trusted) /\ cli'.shaking = c.shaking /\ cli'.plain = c.plain
         /\ cli'.torn = c.torn
         /\ c2s' \in Seq(Record(AnyType)) /\ Len(c2s') <= SockBuf
         /\ c.shaking /\ c2s \in Seq(Record({"CH", "ALERT"}))
              => c2s' \in Seq(Record({"CH", "ALERT"}))
         /\ c2s \in Seq(Record(SentType)) => c2s' \in Seq(Record(SentType))
         /\ Numbers(c2s') \o (Numbers(cli'.out) \o Numbers(cli'.early))
              = Numbers(c2s) \o (Numbers(c.out) \o Numbers(c.early))
<1> DEFINE A == Record(AnyType)
           C == Record({"CH", "ALERT"})
           D == Record(SentType)
<1>1. /\ trusted \in BOOLEAN /\ c2s \in Seq(A) /\ Len(c2s) \in Nat /\ Len(c2s) <= SockBuf
      /\ SockBuf \in Nat /\ c.out \in Seq(A) /\ Len(c.out) \in Nat /\ c.early \in Seq(A)
  BY EngineTlsAssumption, ClientParts DEF EngineType
<1>2. PICK n \in 0 .. Len(c.out) :
        /\ c2s' = c2s \o SubSeq(c.out, 1, n) /\ cli' = Wrote(c, n) /\ n <= SockBuf - Len(c2s)
  <2> DEFINE room == SockBuf - Len(c2s)
             m    == IF Len(c.out) <= room THEN Len(c.out) ELSE room
  <2>1. m \in 0 .. Len(c.out) /\ m <= room
    BY <1>1
  <2>2. c2s' = c2s \o SubSeq(c.out, 1, m) /\ cli' = Wrote(c, m)
    BY DEF Flush
  <2> HIDE DEF m
  <2> QED BY <2>1, <2>2
<1> DEFINE front == SubSeq(c.out, 1, n)
           y == Wrote(c, n)
<1>3. /\ ClientOK(y, trusted) /\ y.shaking = c.shaking /\ y.plain = c.plain /\ y.torn = c.torn
      /\ y.early = c.early /\ front \in Seq(A) /\ Len(front) = n
      /\ c.shaking => front \in Seq(C)
      /\ front \in Seq(D)
      /\ Numbers(c.out) = Numbers(front) \o Numbers(y.out)
  BY <1>1, WroteKeeps
<1>4. y.out \in Seq(A)
  BY <1>1, <1>3, ClientParts
<1>5. Numbers(c2s) \in Seq(Nat) /\ Numbers(front) \in Seq(Nat) /\ Numbers(y.out) \in Seq(Nat)
      /\ Numbers(y.early) \in Seq(Nat) /\ Numbers(c2s \o front) = Numbers(c2s) \o Numbers(front)
  BY <1>1, <1>3, <1>4, NumbersAny
<1> HIDE DEF front, y, A, C, D
<1>6. (Numbers(c2s) \o Numbers(front)) \o (Numbers(y.out) \o Numbers(y.early))
        = Numbers(c2s) \o ((Numbers(front) \o Numbers(y.out)) \o Numbers(y.early))
  <2> DEFINE p1 == Numbers(c2s)
             p2 == Numbers(front)
             p3 == Numbers(y.out)
             p4 == Numbers(y.early)
  <2>1. p1 \in Seq(Nat) /\ p2 \in Seq(Nat) /\ p3 \in Seq(Nat) /\ p4 \in Seq(Nat)
    BY <1>5
  <2> HIDE DEF p1, p2, p3, p4
  <2>2. Cat(Cat(p1, p2), Cat(p3, p4)) = Cat(p1, Cat(Cat(p2, p3), p4))
    BY <2>1, CatAssociative
  <2> QED BY <2>2 DEF p1, p2, p3, p4, Cat
<1>7. c2s \o front \in Seq(A) /\ Len(c2s \o front) = Len(c2s) + n
  BY <1>1, <1>3, ConcatProperties
<1>8. c.shaking /\ c2s \in Seq(C) => c2s \o front \in Seq(C)
  BY <1>3, ConcatProperties
<1>9. c2s \in Seq(D) => c2s \o front \in Seq(D)
  BY <1>3, ConcatProperties
<1>10. c2s' = c2s \o front /\ cli' = y
  BY <1>2 DEF front, y
<1>11. Len(c2s) + n <= SockBuf
  BY <1>1, <1>2
<1> QED
  BY <1>3, <1>5, <1>6, <1>7, <1>8, <1>9, <1>10, <1>11 DEF A, C, D

LEMMA IotaIs ==
  ASSUME NEW k \in Nat
  PROVE  Iota(k) \in Seq(Nat) /\ Len(Iota(k)) = k /\ \A i \in 1 .. k : Iota(k)[i] = i
<1>1. Iota(k) \in Seq(Nat)
  BY IsASeq DEF Iota
<1> QED
  BY <1>1 DEF Iota

LEMMA IotaNext ==
  ASSUME NEW n \in Nat
  PROVE  Iota(n) \in Seq(Nat) /\ Iota(n) \o <<n + 1>> = Iota(n + 1)
<1> DEFINE a == Iota(n)
           s == Append(a, n + 1)
           u == Iota(n + 1)
<1>1. a \in Seq(Nat) /\ Len(a) = n /\ (\A i \in 1 .. n : a[i] = i) /\ n + 1 \in Nat
  BY IotaIs
<1>2. u \in Seq(Nat) /\ Len(u) = n + 1 /\ \A i \in 1 .. n + 1 : u[i] = i
  BY <1>1, IotaIs
<1> HIDE DEF a, u
<1>3. s = a \o <<n + 1>>
  BY <1>1, AppendIsConcat
<1>4. s \in Seq(Nat) /\ Len(s) = n + 1 /\ s[n + 1] = n + 1 /\ \A i \in 1 .. n : s[i] = a[i]
  BY <1>1, AppendProperties
<1> HIDE DEF s
<1>5. \A i \in 1 .. n + 1 : s[i] = u[i]
  BY <1>1, <1>2, <1>4
<1>6. s = u
  BY <1>2, <1>4, <1>5, SeqEqual
<1> QED
  BY <1>1, <1>3, <1>6 DEF a, u

(* Both writing calls with tlsconn: c is the client when the flush begins. *)
LEMMA WritesKeep ==
  ASSUME EngineInv, named, NEW c, Flush(c), ClientOK(c, trusted),
         c.shaking = cli.shaking, c.plain = cli.plain, c.torn = cli.torn,
         UNCHANGED <<config, bound, s2c, srv, served, closed, answers, raw, lost>>,
         written' \in Nat,
         served \o (Numbers(c2s) \o (Numbers(c.out) \o Numbers(c.early))) = Iota(written')
  PROVE  EngineInv'
<1>1. /\ ClientOK(cli', trusted) /\ cli'.shaking = c.shaking /\ cli'.plain = c.plain
      /\ cli'.torn = c.torn
      /\ c2s' \in Seq(Record(AnyType)) /\ Len(c2s') <= SockBuf
      /\ c.shaking /\ c2s \in Seq(Record({"CH", "ALERT"}))
           => c2s' \in Seq(Record({"CH", "ALERT"}))
      /\ c2s \in Seq(Record(SentType)) => c2s' \in Seq(Record(SentType))
      /\ Numbers(c2s') \o (Numbers(cli'.out) \o Numbers(cli'.early))
           = Numbers(c2s) \o (Numbers(c.out) \o Numbers(c.early))
  BY FlushKeeps DEF EngineInv
<1>2. EngineType'
  BY <1>1 DEF EngineInv, EngineType, config
<1>3. NamedTypes'
  BY <1>1 DEF EngineInv, NamedTypes, config
<1>4. RequestsQueued'
  BY <1>1 DEF RequestsQueued, config
<1>5. PlainPath'
  BY DEF PlainPath, config
<1>6. AnswersInOnePlace'
  BY <1>1 DEF EngineInv, AnswersInOnePlace
<1> QED
  BY <1>2, <1>3, <1>4, <1>5, <1>6 DEF EngineInv

LEMMA NetWriteKeeps == EngineInv /\ NetWrite => EngineInv'
<1> SUFFICES ASSUME EngineInv, NetWrite PROVE EngineInv'
  OBVIOUS
<1> DEFINE k == written + 1
           c == Write(cli, App(k))
           p1 == served
           p2 == Numbers(c2s)
           p3 == Numbers(cli.out) \o Numbers(cli.early)
<1>1. /\ named /\ trusted \in BOOLEAN /\ ClientOK(cli, trusted) /\ written \in Nat
      /\ served \in Seq(Nat) /\ c2s \in Seq(Record(AnyType))
      /\ written' = k /\ Flush(c)
      /\ UNCHANGED <<config, bound, s2c, srv, served, closed, answers, raw, lost>>
  BY DEF NetWrite, EngineInv, EngineType, NamedTypes
<1>2. /\ ClientOK(c, trusted) /\ c.shaking = cli.shaking /\ c.plain = cli.plain
      /\ c.torn = cli.torn
      /\ Numbers(c.out) \o Numbers(c.early) = p3 \o <<k>>
  <2>1. k \in Nat
    BY <1>1
  <2> HIDE DEF k
  <2> QED BY <1>1, <2>1, WriteKeeps
<1>3. p1 \in Seq(Nat) /\ p2 \in Seq(Nat) /\ p3 \in Seq(Nat) /\ <<k>> \in Seq(Nat)
  <2>1. Numbers(cli.out) \in Seq(Nat) /\ Numbers(cli.early) \in Seq(Nat)
    BY <1>1, ClientParts, NumbersAny
  <2> QED BY <1>1, <2>1, NumbersAny, NatSeqs
<1>4. p1 \o (p2 \o p3) = Iota(written)
  BY <1>1 DEF EngineInv, RequestsQueued
<1>5. Iota(written) \o <<k>> = Iota(k)
  BY <1>1, IotaNext
<1> HIDE DEF p1, p2, p3, c
<1>6. p1 \o (p2 \o (p3 \o <<k>>)) = (p1 \o (p2 \o p3)) \o <<k>>
  <2> DEFINE p4 == <<k>>
  <2>1. p4 \in Seq(Nat)
    BY <1>3
  <2> HIDE DEF p4
  <2>2. Cat(p1, Cat(p2, Cat(p3, p4))) = Cat(Cat(p1, Cat(p2, p3)), p4)
    BY <1>3, <2>1, CatAssociative
  <2> QED BY <2>2 DEF p4, Cat
<1>7. served \o (Numbers(c2s) \o (Numbers(c.out) \o Numbers(c.early))) = Iota(written')
  BY <1>1, <1>2, <1>4, <1>5, <1>6 DEF p1, p2
<1>8. written' \in Nat
  BY <1>1
<1> QED
  BY <1>1, <1>2, <1>7, <1>8, WritesKeep

LEMMA NetWriteEmptyKeeps == EngineInv /\ NetWriteEmpty => EngineInv'
<1> SUFFICES ASSUME EngineInv, NetWriteEmpty PROVE EngineInv'
  OBVIOUS
<1>1. /\ named /\ ClientOK(cli, trusted) /\ written' = written /\ written \in Nat /\ Flush(cli)
      /\ UNCHANGED <<config, bound, s2c, srv, served, closed, answers, raw, lost>>
  BY DEF NetWriteEmpty, EngineInv, EngineType, NamedTypes
<1>2. served \o (Numbers(c2s) \o (Numbers(cli.out) \o Numbers(cli.early))) = Iota(written')
  BY <1>1 DEF EngineInv, RequestsQueued
<1> QED
  BY <1>1, <1>2, WritesKeep

(* The reading calls with tlsconn and no ring. *)
LEMMA ReadsKeep ==
  ASSUME EngineInv, named, ~bound, ClientOK(cli', trusted), cli'.shaking => cli.shaking,
         Numbers(cli'.out) \o Numbers(cli'.early) = Numbers(cli.out) \o Numbers(cli.early),
         s2c' \in Seq(Record({"SF", "APP"})), ~trusted => s2c' \in Seq(Record({"SF"})),
         answers' \in Seq(Nat), lost' \in Seq(Record(AnyType)),
         answers' \o (Numbers(cli'.plain) \o (Numbers(lost') \o Numbers(s2c')))
           = answers \o (Numbers(cli.plain) \o (Numbers(lost) \o Numbers(s2c))),
         Numbers(lost') # << >> => cli'.torn,
         UNCHANGED <<config, bound, c2s, srv, served, closed, written, raw>>
  PROVE  EngineInv'
<1>0. /\ trusted \in BOOLEAN /\ answers \in Seq(Nat) /\ raw = << >>
      /\ cli.plain \in Seq(Record(AnyType)) /\ s2c \in Seq(Record(AnyType))
      /\ cli'.plain \in Seq(Record(AnyType)) /\ s2c' \in Seq(Record(AnyType))
      /\ lost \in Seq(Record(AnyType))
  <2>1. trusted \in BOOLEAN /\ raw = << >> /\ ClientOK(cli, trusted) /\ answers \in Seq(Nat)
    BY DEF EngineInv, EngineType, NamedTypes
  <2>2. s2c' \in Seq(Record(AnyType))
    BY SMTT(60), RecordMono DEF AnyType
  <2>3. s2c \in Seq(Record(AnyType)) /\ lost \in Seq(Record(AnyType))
    BY DEF EngineInv, EngineType
  <2> QED BY <2>1, <2>2, <2>3, ClientParts
<1>2. EngineType'
  BY <1>0 DEF EngineInv, EngineType, config
<1>3. NamedTypes'
  BY DEF EngineInv, NamedTypes, config
<1>4. RequestsQueued'
  BY DEF EngineInv, RequestsQueued, config
<1>5. PlainPath'
  BY DEF PlainPath, config
<1>6. AnswersInOnePlace'
  <2> DEFINE a0 == answers
             p0 == Numbers(cli.plain)
             l0 == Numbers(lost)
             r0 == Numbers(s2c)
             a1 == answers'
             p1 == Numbers(cli'.plain)
             l1 == Numbers(lost')
             r1 == Numbers(s2c')
             w  == Numbers(raw)
  <2>1. /\ a0 \in Seq(Nat) /\ p0 \in Seq(Nat) /\ l0 \in Seq(Nat) /\ r0 \in Seq(Nat)
        /\ a1 \in Seq(Nat) /\ p1 \in Seq(Nat) /\ l1 \in Seq(Nat) /\ r1 \in Seq(Nat)
    BY <1>0, NumbersAny
  <2>2. w = << >> /\ Numbers(raw') = w /\ served' = served
    BY <1>0, NumbersEmpty
  <2>3. served = (((a0 \o p0) \o l0) \o w) \o r0
    BY DEF EngineInv, AnswersInOnePlace
  <2>4. Cat(a1, Cat(p1, Cat(l1, r1))) = Cat(a0, Cat(p0, Cat(l0, r0)))
    BY DEF Cat
  <2> HIDE DEF a0, p0, l0, r0, a1, p1, l1, r1, w
  <2>5. /\ Cat(Cat(Cat(a0, p0), l0), r0) = Cat(a0, Cat(p0, Cat(l0, r0)))
        /\ Cat(Cat(Cat(a1, p1), l1), r1) = Cat(a1, Cat(p1, Cat(l1, r1)))
        /\ Cat(Cat(a0, p0), l0) \in Seq(Nat) /\ Cat(Cat(a1, p1), l1) \in Seq(Nat)
    <3>1. ASSUME NEW a \in Seq(Nat), NEW p \in Seq(Nat), NEW l \in Seq(Nat), NEW r \in Seq(Nat)
          PROVE  /\ Cat(Cat(Cat(a, p), l), r) = Cat(a, Cat(p, Cat(l, r)))
                 /\ Cat(Cat(a, p), l) \in Seq(Nat)
      <4>1. Cat(a, p) \in Seq(Nat) /\ Cat(l, r) \in Seq(Nat) /\ Cat(Cat(a, p), l) \in Seq(Nat)
        BY CatAssociative
      <4>2. Cat(Cat(Cat(a, p), l), r) = Cat(Cat(a, p), Cat(l, r))
        BY <4>1, CatAssociative
      <4>3. Cat(Cat(a, p), Cat(l, r)) = Cat(a, Cat(p, Cat(l, r)))
        BY <4>1, CatAssociative
      <4> QED BY <4>1, <4>2, <4>3
    <3> QED BY <2>1, <3>1
  <2>6. /\ Cat(Cat(Cat(a0, p0), l0), << >>) = Cat(Cat(a0, p0), l0)
        /\ Cat(Cat(Cat(a1, p1), l1), << >>) = Cat(Cat(a1, p1), l1)
    BY <2>5, NatSeqs DEF Cat
  <2>7. served = Cat(Cat(Cat(Cat(a1, p1), l1), << >>), r1)
    <3>1. served = Cat(Cat(Cat(Cat(a0, p0), l0), << >>), r0)
      BY <2>2, <2>3 DEF Cat
    <3> QED BY <2>4, <2>5, <2>6, <3>1
  <2>8. served' = (((a1 \o p1) \o l1) \o Numbers(raw')) \o r1
    BY <2>2, <2>7 DEF Cat
  <2> QED BY <2>8 DEF AnswersInOnePlace, a1, p1, l1, r1
<1> QED
  BY <1>2, <1>3, <1>4, <1>5, <1>6 DEF EngineInv

(* What reader() hands out is the next answer: c is the client it is asked *)
(* of.                                                                     *)
LEMMA HandOutKeeps ==
  ASSUME trusted \in BOOLEAN, answers \in Seq(Nat), NEW c, ClientOK(c, trusted), HandOut(c)
  PROVE  /\ ClientOK(cli', trusted) /\ cli'.shaking = c.shaking /\ cli'.torn = c.torn
         /\ cli'.out = c.out /\ cli'.early = c.early
         /\ answers' \in Seq(Nat)
         /\ answers' \o Numbers(cli'.plain) = answers \o Numbers(c.plain)
<1>1. CASE c.plain = << >>
  BY <1>1 DEF HandOut
<1>2. CASE c.plain # << >>
  <2> DEFINE h == Head(c.plain).num
             y == ReadPlain(c)
             v == Numbers(y.plain)
             q == Numbers(c.plain)
  <2>1. cli' = y /\ answers' = Append(answers, h)
    BY <1>2 DEF HandOut
  <2>2. /\ ClientOK(y, trusted) /\ y.shaking = c.shaking /\ y.out = c.out /\ y.early = c.early
        /\ y.torn = c.torn /\ h \in Nat /\ q = <<h>> \o v
    BY <1>2, ReadPlainKeeps
  <2>3. v \in Seq(Nat) /\ <<h>> \in Seq(Nat)
    BY <2>2, ClientParts, NumbersAny
  <2> HIDE DEF h, y, q
  <2>4. answers' = answers \o <<h>> /\ answers' \in Seq(Nat)
    BY <2>1, <2>2, AppendIsConcat, AppendProperties
  <2> HIDE DEF v
  <2>5. (answers \o <<h>>) \o v = answers \o (<<h>> \o v)
    <3>1. Cat(Cat(answers, <<h>>), v) = Cat(answers, Cat(<<h>>, v))
      BY ZenonT(60), <2>3, CatAssociative
    <3> QED BY <3>1 DEF Cat
  <2>6. Numbers(cli'.plain) = v
    BY <2>1 DEF v
  <2> QED BY <2>1, <2>2, <2>4, <2>5, <2>6 DEF q
<1> QED
  BY <1>1, <1>2

LEMMA NetReadBytesKeeps ==
  ASSUME EngineInv, NEW n \in 1 .. MaxReq + 1, NEW m \in 0 .. MaxReq + 1, NetReadBytes(n, m)
  PROVE  EngineInv'
<1> DEFINE front == SubSeq(s2c, 1, n)
           rest  == SubSeq(s2c, n + 1, Len(s2c))
           c == ReadTls(cli, front, m, trusted)
           miss == Missed(cli, front, m)
           A == Record(AnyType)
<1>1. /\ named /\ ~bound /\ trusted \in BOOLEAN /\ ClientOK(cli, trusted) /\ s2c' = rest
      /\ (IF c.failed THEN cli' = c /\ UNCHANGED answers ELSE HandOut(c))
      /\ lost' = lost \o miss
      /\ s2c \in Seq(Record({"SF", "APP"})) /\ (~trusted => s2c \in Seq(Record({"SF"})))
      /\ s2c \in Seq(A) /\ lost \in Seq(A) /\ answers \in Seq(Nat) /\ n <= Len(s2c) /\ m <= n
      /\ UNCHANGED <<config, bound, c2s, srv, served, closed, written, raw>>
  BY DEF NetReadBytes, EngineInv, EngineType, NamedTypes
<1>2. n \in 0 .. Len(s2c)
  BY <1>1, TlsWireAssumption
<1>3. /\ front \in Seq(Record({"SF", "APP"})) /\ rest \in Seq(Record({"SF", "APP"}))
      /\ front \o rest = s2c /\ Len(front) = n
  BY <1>1, <1>2, Cut
<1>4. ~trusted => front \in Seq(Record({"SF"})) /\ rest \in Seq(Record({"SF"}))
  BY <1>1, <1>2, Cut
<1>5. front \in Seq(A) /\ rest \in Seq(A)
  BY <1>1, <1>2, Cut
<1> HIDE DEF front, rest
<1>6. /\ ClientOK(c, trusted) /\ (c.shaking => cli.shaking) /\ (cli.torn => c.torn)
      /\ Numbers(c.out) \o Numbers(c.early) = Numbers(cli.out) \o Numbers(cli.early)
      /\ miss \in Seq(A)
      /\ Numbers(c.plain) \o Numbers(miss) = Numbers(cli.plain) \o Numbers(front)
      /\ cli.torn => Numbers(c.plain) = Numbers(cli.plain) /\ Numbers(miss) = Numbers(front)
      /\ ~c.torn => Numbers(miss) = << >>
  <2>1. trusted \in BOOLEAN /\ ClientOK(cli, trusted)
    BY <1>1
  <2>2. front \in Seq(Record({"SF", "APP"})) /\ (~trusted => front \in Seq(Record({"SF"})))
    BY <1>3, <1>4
  <2>3. m \in 0 .. Len(front)
    BY <1>1, <1>2, <1>3
  <2> QED BY ZenonT(60), <2>1, <2>2, <2>3, ReadTlsKeeps
<1> HIDE DEF c, miss
<1>7. /\ ClientOK(cli', trusted) /\ cli'.shaking = c.shaking /\ cli'.torn = c.torn
      /\ cli'.out = c.out /\ cli'.early = c.early
      /\ answers' \in Seq(Nat)
      /\ answers' \o Numbers(cli'.plain) = answers \o Numbers(c.plain)
  <2>1. CASE c.failed
    BY <1>1, <1>6, <2>1
  <2>2. CASE ~c.failed
    BY <1>1, <1>6, <2>2, HandOutKeeps
  <2> QED BY <2>1, <2>2
<1> DEFINE a0 == answers
           p0 == Numbers(cli.plain)
           l0 == Numbers(lost)
           a1 == answers'
           p1 == Numbers(cli'.plain)
           cp == Numbers(c.plain)
           ms == Numbers(miss)
           fr == Numbers(front)
           re == Numbers(rest)
<1>8. /\ a0 \in Seq(Nat) /\ p0 \in Seq(Nat) /\ l0 \in Seq(Nat) /\ a1 \in Seq(Nat)
      /\ p1 \in Seq(Nat) /\ cp \in Seq(Nat) /\ ms \in Seq(Nat) /\ fr \in Seq(Nat) /\ re \in Seq(Nat)
  BY <1>1, <1>5, <1>6, <1>7, ClientParts, NumbersAny
<1>9. Numbers(s2c) = fr \o re /\ lost' \in Seq(A) /\ Numbers(lost') = l0 \o ms
  BY <1>1, <1>3, <1>5, <1>6, NumbersAny
<1>10. l0 # << >> => cli.torn
  BY DEF EngineInv, AnswersInOnePlace
<1>11. Cat(cp, Cat(l0, ms)) = Cat(p0, Cat(l0, fr))
  <2>1. CASE cli.torn
    BY <1>6, <2>1
  <2>2. CASE ~cli.torn
    <3>1. l0 = << >> /\ << >> \o ms = ms /\ << >> \o fr = fr
      BY <1>8, <1>10, <2>2, NatSeqs
    <3>2. cp \o ms = p0 \o fr
      BY <1>6
    <3> HIDE DEF l0, ms, fr, cp, p0
    <3> QED BY <3>1, <3>2 DEF Cat
  <2> QED BY <2>1, <2>2
<1>12. Cat(a1, p1) = Cat(a0, cp)
  BY <1>7 DEF Cat
<1>13. Numbers(lost') # << >> => cli'.torn
  <2>1. CASE ~c.torn
    <3>1. ms = << >> /\ l0 = << >>
      BY <1>6, <1>10, <2>1
    <3> HIDE DEF ms, l0
    <3>2. Numbers(lost') = << >>
      BY <1>9, <3>1
    <3> QED BY <3>2
  <2>2. CASE c.torn
    BY <1>7, <2>2
  <2> QED BY <2>1, <2>2
<1> HIDE DEF a0, p0, l0, a1, p1, cp, ms, fr, re
<1>14. Cat(a1, Cat(p1, Cat(Cat(l0, ms), re))) = Cat(a0, Cat(p0, Cat(l0, Cat(fr, re))))
  <2> DEFINE x == Cat(l0, ms)
             z == Cat(l0, fr)
  <2>1. x \in Seq(Nat) /\ z \in Seq(Nat) /\ Cat(l0, Cat(fr, re)) = Cat(z, re)
    BY <1>8, CatAssociative
  <2>2. Cat(cp, x) = Cat(p0, z)
    BY <1>11
  <2> HIDE DEF x, z
  <2>3. Cat(a1, Cat(p1, Cat(x, re))) = Cat(Cat(Cat(a1, p1), x), re)
    <3>1. Cat(a1, p1) \in Seq(Nat) /\ Cat(x, re) \in Seq(Nat)
      BY <1>8, <2>1, CatAssociative
    <3>2. Cat(a1, Cat(p1, Cat(x, re))) = Cat(Cat(a1, p1), Cat(x, re))
      BY <1>8, <3>1, CatAssociative
    <3>3. Cat(Cat(a1, p1), Cat(x, re)) = Cat(Cat(Cat(a1, p1), x), re)
      BY <1>8, <2>1, <3>1, CatAssociative
    <3> QED BY <3>2, <3>3
  <2>4. Cat(Cat(Cat(a0, cp), x), re) = Cat(Cat(a0, Cat(cp, x)), re)
    BY <1>8, <2>1, CatAssociative
  <2>5. Cat(Cat(a0, Cat(p0, z)), re) = Cat(a0, Cat(p0, Cat(z, re)))
    BY <1>8, <2>1, CatAssociative
  <2> QED BY <1>12, <2>1, <2>2, <2>3, <2>4, <2>5 DEF x
<1>15. answers' \o (Numbers(cli'.plain) \o (Numbers(lost') \o Numbers(s2c')))
         = answers \o (Numbers(cli.plain) \o (Numbers(lost) \o Numbers(s2c)))
  <2>1. a1 \o (p1 \o ((l0 \o ms) \o re)) = a0 \o (p0 \o (l0 \o (fr \o re)))
    BY <1>14 DEF Cat
  <2>2. /\ answers' = a1 /\ Numbers(cli'.plain) = p1 /\ Numbers(s2c') = re
        /\ answers = a0 /\ Numbers(cli.plain) = p0 /\ Numbers(lost) = l0
    BY <1>1 DEF a1, p1, re, a0, p0, l0
  <2> QED BY <1>9, <2>1, <2>2
<1> QED
  BY <1>1, <1>3, <1>4, <1>6, <1>7, <1>9, <1>13, <1>15, ReadsKeep

(* read_tls refuses: the records of the socket go the same way. *)
LEMMA NetReadFullKeeps ==
  ASSUME EngineInv, NEW n \in 1 .. MaxReq + 1, NetReadFull(n)
  PROVE  EngineInv'
<1> DEFINE front == SubSeq(s2c, 1, n)
           rest  == SubSeq(s2c, n + 1, Len(s2c))
           A == Record(AnyType)
<1>1. /\ named /\ ~bound /\ trusted \in BOOLEAN /\ ClientOK(cli, trusted) /\ s2c' = rest
      /\ cli' = [cli EXCEPT !.torn = TRUE] /\ lost' = lost \o front /\ answers' = answers
      /\ s2c \in Seq(Record({"SF", "APP"})) /\ (~trusted => s2c \in Seq(Record({"SF"})))
      /\ s2c \in Seq(A) /\ lost \in Seq(A) /\ answers \in Seq(Nat) /\ n <= Len(s2c)
      /\ UNCHANGED <<config, bound, c2s, srv, served, closed, written, raw>>
  BY DEF NetReadFull, EngineInv, EngineType, NamedTypes
<1>2. n \in 0 .. Len(s2c)
  BY <1>1, TlsWireAssumption
<1>3. front \in Seq(A) /\ rest \in Seq(Record({"SF", "APP"})) /\ front \o rest = s2c /\ rest \in Seq(A)
  BY <1>1, <1>2, Cut
<1>4. ~trusted => rest \in Seq(Record({"SF"}))
  BY <1>1, <1>2, Cut
<1> HIDE DEF front, rest
<1>5. /\ ClientOK(cli', trusted) /\ cli'.shaking = cli.shaking /\ cli'.plain = cli.plain
      /\ cli'.torn = TRUE /\ cli'.out = cli.out /\ cli'.early = cli.early
  BY <1>1, TornKeeps, Zenon
<1> DEFINE l0 == Numbers(lost)
           fr == Numbers(front)
           re == Numbers(rest)
<1>6. l0 \in Seq(Nat) /\ fr \in Seq(Nat) /\ re \in Seq(Nat)
  BY <1>1, <1>3, NumbersAny
<1>7. Numbers(s2c) = fr \o re /\ lost' \in Seq(A) /\ Numbers(lost') = l0 \o fr
  BY <1>1, <1>3, NumbersAny
<1> HIDE DEF l0, fr, re
<1>8. (l0 \o fr) \o re = l0 \o (fr \o re)
  <2>1. Cat(Cat(l0, fr), re) = Cat(l0, Cat(fr, re))
    BY <1>6, CatAssociative
  <2> QED BY <2>1 DEF Cat
<1>9. Numbers(lost') \o Numbers(s2c') = Numbers(lost) \o Numbers(s2c)
  BY <1>1, <1>7, <1>8 DEF l0, re
<1> QED
  BY <1>1, <1>3, <1>4, <1>5, <1>7, <1>9, ReadsKeep

LEMMA NetReadWouldBlockKeeps == EngineInv /\ NetReadWouldBlock => EngineInv'
<1> SUFFICES ASSUME EngineInv, NetReadWouldBlock PROVE EngineInv'
  OBVIOUS
<1>1. /\ named /\ ~bound /\ trusted \in BOOLEAN /\ ClientOK(cli, trusted) /\ HandOut(cli)
      /\ s2c' = s2c /\ lost' = lost /\ answers \in Seq(Nat)
      /\ s2c \in Seq(Record({"SF", "APP"})) /\ (~trusted => s2c \in Seq(Record({"SF"})))
      /\ s2c \in Seq(Record(AnyType)) /\ lost \in Seq(Record(AnyType))
      /\ UNCHANGED <<config, bound, c2s, srv, served, closed, written, raw>>
  BY DEF NetReadWouldBlock, EngineInv, EngineType, NamedTypes
<1>2. /\ ClientOK(cli', trusted) /\ cli'.shaking = cli.shaking /\ cli'.torn = cli.torn
      /\ cli'.out = cli.out /\ cli'.early = cli.early
      /\ answers' \in Seq(Nat)
      /\ answers' \o Numbers(cli'.plain) = answers \o Numbers(cli.plain)
  BY <1>1, HandOutKeeps
<1> DEFINE a0 == answers
           p0 == Numbers(cli.plain)
           a1 == answers'
           p1 == Numbers(cli'.plain)
           x  == Numbers(lost) \o Numbers(s2c)
<1>3. a0 \in Seq(Nat) /\ p0 \in Seq(Nat) /\ a1 \in Seq(Nat) /\ p1 \in Seq(Nat) /\ x \in Seq(Nat)
  <2>1. Numbers(lost) \in Seq(Nat) /\ Numbers(s2c) \in Seq(Nat)
    BY <1>1, NumbersAny
  <2> QED BY <1>1, <1>2, <2>1, ClientParts, NumbersAny, NatSeqs
<1>4. Cat(a1, p1) = Cat(a0, p0)
  BY <1>2 DEF Cat
<1> HIDE DEF a0, p0, a1, p1, x
<1>5. Cat(a1, Cat(p1, x)) = Cat(a0, Cat(p0, x))
  BY <1>3, <1>4, CatAssociative
<1>6. answers' \o (Numbers(cli'.plain) \o (Numbers(lost') \o Numbers(s2c')))
        = answers \o (Numbers(cli.plain) \o (Numbers(lost) \o Numbers(s2c)))
  <2>1. a1 \o (p1 \o x) = a0 \o (p0 \o x)
    BY <1>5 DEF Cat
  <2>2. Numbers(lost') \o Numbers(s2c') = x
    BY <1>1 DEF x
  <2> QED BY <2>1, <2>2 DEF a0, p0, a1, p1, x
<1>7. Numbers(lost') # << >> => cli'.torn
  BY <1>1, <1>2 DEF EngineInv, AnswersInOnePlace
<1> QED
  BY <1>1, <1>2, <1>6, <1>7, ReadsKeep

(* The ring, or the host without tlsconn, takes records as they are. *)
LEMMA TakeRawKeeps ==
  ASSUME EngineInv, NEW n \in 1 .. MaxReq + 1, TakeRaw(n), named => bound
  PROVE  EngineInv'
<1> DEFINE front == SubSeq(s2c, 1, n)
           rest  == SubSeq(s2c, n + 1, Len(s2c))
           A == Record(AnyType)
<1>1. /\ s2c' = rest /\ raw' = raw \o front /\ n <= Len(s2c)
      /\ s2c \in Seq(A) /\ raw \in Seq(A) /\ lost \in Seq(A) /\ answers \in Seq(Nat)
      /\ UNCHANGED <<config, bound, cli, c2s, srv, served, closed, written, answers, lost>>
  BY DEF TakeRaw, EngineInv, EngineType
<1>2. n \in 0 .. Len(s2c)
  BY <1>1, TlsWireAssumption
<1>3. front \in Seq(A) /\ rest \in Seq(A) /\ front \o rest = s2c /\ raw \o front \in Seq(A)
  BY <1>1, <1>2, Cut, ConcatProperties
<1>4. \A T : s2c \in Seq(Record(T)) => front \in Seq(Record(T)) /\ rest \in Seq(Record(T))
  BY <1>2, Cut
<1> HIDE DEF front, rest
<1>5. EngineType'
  BY <1>1, <1>3 DEF EngineInv, EngineType, config, A
<1>6. NamedTypes'
  <2> SUFFICES ASSUME named PROVE NamedTypes'
    BY <1>1 DEF NamedTypes, config
  <2>1. /\ s2c \in Seq(Record({"SF", "APP"})) /\ (~trusted => s2c \in Seq(Record({"SF"})))
    BY DEF EngineInv, NamedTypes
  <2>2. rest \in Seq(Record({"SF", "APP"})) /\ (~trusted => rest \in Seq(Record({"SF"})))
    BY <1>4, <2>1
  <2> QED BY <1>1, <2>2 DEF EngineInv, NamedTypes, config
<1>7. RequestsQueued'
  BY <1>1 DEF EngineInv, RequestsQueued, config
<1>8. PlainPath'
  <2> SUFFICES ASSUME ~named PROVE PlainPath'
    BY <1>1 DEF PlainPath, config
  <2>1. s2c \in Seq(Record({"ALERT"})) /\ raw \in Seq(Record({"ALERT"}))
    BY DEF EngineInv, PlainPath
  <2>2. rest \in Seq(Record({"ALERT"})) /\ raw \o front \in Seq(Record({"ALERT"}))
    BY <1>4, <2>1, ConcatProperties
  <2> QED BY <1>1, <2>2 DEF EngineInv, PlainPath, config
<1>9. AnswersInOnePlace'
  <2> DEFINE p0 == answers \o Numbers(cli.plain) \o Numbers(lost)
             p1 == Numbers(raw)
             p2 == Numbers(front)
             p3 == Numbers(rest)
  <2>1. p1 \in Seq(Nat) /\ p2 \in Seq(Nat) /\ p3 \in Seq(Nat) /\ Numbers(s2c) = p2 \o p3
        /\ Numbers(raw \o front) = p1 \o p2
    BY <1>1, <1>3, NumbersAny
  <2>2. p0 \in Seq(Nat)
    <3>1. Numbers(cli.plain) \in Seq(Nat)
      <4>1. CASE named
        <5>1. ClientOK(cli, trusted) /\ trusted \in BOOLEAN
          BY <4>1 DEF EngineInv, NamedTypes, EngineType
        <5> QED BY <5>1, ClientParts, NumbersAny
      <4>2. CASE ~named
        <5>1. cli.plain = << >>
          BY <4>2 DEF EngineInv, PlainPath, NewClient
        <5>2. << >> \in Seq(Nat)
          OBVIOUS
        <5> QED BY <5>1, <5>2, NumbersEmpty
      <4> QED BY <4>1, <4>2
    <3>2. Numbers(lost) \in Seq(Nat) /\ answers \o Numbers(cli.plain) \in Seq(Nat)
      BY <1>1, <3>1, NumbersAny, NatSeqs
    <3> QED BY <3>2, NatSeqs
  <2>3. served = (p0 \o p1) \o (p2 \o p3)
    BY <2>1 DEF EngineInv, AnswersInOnePlace
  <2> HIDE DEF p0, p1, p2, p3
  <2>4. Cat(Cat(p0, p1), Cat(p2, p3)) = Cat(Cat(p0, Cat(p1, p2)), p3)
    BY <2>1, <2>2, CatAssociative
  <2>5. served = (p0 \o (p1 \o p2)) \o p3
    BY <2>3, <2>4 DEF Cat
  <2>6. /\ answers' \o Numbers(cli'.plain) \o Numbers(lost') = p0
        /\ Numbers(raw') = p1 \o p2 /\ Numbers(s2c') = p3 /\ served' = served
    BY <1>1, <2>1 DEF p0, p3
  <2>7. Numbers(lost') # << >> => cli'.torn
    BY <1>1 DEF EngineInv, AnswersInOnePlace
  <2> QED BY <2>5, <2>6, <2>7 DEF AnswersInOnePlace
<1> QED
  BY <1>5, <1>6, <1>7, <1>8, <1>9 DEF EngineInv

LEMMA ServerStepIs ==
  ASSUME NEW s, NEW rec \in Record(AnyType)
  PROVE  LET step == ServerStep(s, rec) IN
         /\ rec.type = "CH" => step.send = <<Handshake("SF")>>
         /\ rec.type \in {"FIN", "ALERT"} => step.send = << >>
         /\ rec.type = "CLEAR" => step.send = <<Handshake("ALERT")>>
         /\ rec.type = "APP" => step.send = <<rec>>
BY RecordIs DEF ServerStep, AnyType

(* What the server adds to the answers is what it adds to the requests it  *)
(* has received.                                                           *)
LEMMA ServerAdds ==
  ASSUME NEW t \in BOOLEAN, NEW s, NEW rec \in Record(AnyType), rec.type \in SentType,
         rec.type = "APP" => t
  PROVE  LET step == ServerStep(s, rec) IN
         /\ step.send \in Seq(Record({"SF", "APP"})) /\ step.send \in Seq(Record(AnyType))
         /\ ~t => step.send \in Seq(Record({"SF"}))
         /\ Numbers(step.send) = Numbers(<<rec>>)
<1> DEFINE step == ServerStep(s, rec)
           sf == Handshake("SF")
           send == step.send
<1>1. /\ rec.type = "CH" => send = <<sf>>
      /\ rec.type \in {"FIN", "ALERT"} => send = << >>
      /\ rec.type = "APP" => send = <<rec>> /\ t
  BY ServerStepIs
<1>2. sf \in Record({"SF"}) /\ sf.type = "SF"
  BY DEF Handshake, Record
<1> HIDE DEF sf
<1>3. Numbers(<<sf>>) = << >> /\ (rec.type # "APP" => Numbers(<<rec>>) = << >>)
  BY <1>2, NumbersOne
<1>4. rec.type = "APP" => rec \in Record({"APP"})
  BY DEF Record
<1>5. /\ << >> \in Seq(Record({"SF"})) /\ <<sf>> \in Seq(Record({"SF"}))
      /\ rec.type = "APP" => <<rec>> \in Seq(Record({"APP"}))
  BY <1>2, <1>4
<1> HIDE DEF send, step
<1>6. send \in Seq(Record({"SF"})) \/ (t /\ send \in Seq(Record({"APP"})))
  BY <1>1, <1>5 DEF SentType
<1>7. Numbers(send) = Numbers(<<rec>>)
  BY <1>1, <1>3, NumbersEmpty DEF SentType
<1>8. send \in Seq(Record({"SF", "APP"})) /\ send \in Seq(Record(AnyType))
  BY <1>6, RecordMono DEF AnyType
<1>9. ~t => send \in Seq(Record({"SF"}))
  BY <1>6
<1> QED
  BY <1>7, <1>8, <1>9 DEF send, step

(* The first record of the socket, and the rest. *)
LEMMA Front ==
  ASSUME NEW R, NEW q \in Seq(R), q # << >>
  PROVE  /\ Head(q) \in R /\ Tail(q) \in Seq(R) /\ q = <<Head(q)>> \o Tail(q)
         /\ Len(Tail(q)) <= Len(q)
BY HeadTailProperties

LEMMA ServerKeepsNamed ==
  ASSUME EngineInv, named, Server
  PROVE  EngineInv'
<1> DEFINE rec  == Head(c2s)
           step == ServerStep(srv, rec)
           send == step.send
           rest == Tail(c2s)
           A == Record(AnyType)
           n == Numbers(<<rec>>)
<1>1. /\ trusted \in BOOLEAN /\ ClientOK(cli, trusted) /\ c2s \in Seq(A) /\ c2s # << >>
      /\ s2c \in Seq(A) /\ s2c \in Seq(Record({"SF", "APP"}))
      /\ (~trusted => s2c \in Seq(Record({"SF"})))
      /\ c2s \in Seq(Record(SentType)) /\ lost \in Seq(A)
      /\ (cli.shaking => c2s \in Seq(Record({"CH", "ALERT"})) /\ served = << >>)
      /\ served \in Seq(Nat) /\ answers \in Seq(Nat) /\ raw \in Seq(A)
      /\ srv' = step.state /\ s2c' = s2c \o send /\ c2s' = rest
      /\ served' = (IF rec.type = "APP" THEN Append(served, rec.num) ELSE served)
      /\ UNCHANGED <<config, bound, cli, closed, written, answers, raw, lost>>
  BY DEF Server, EngineInv, EngineType, NamedTypes
<1>2. rec \in A /\ rest \in Seq(A) /\ c2s = <<rec>> \o rest /\ Len(rest) <= Len(c2s)
  BY <1>1, Front
<1>3. rec.type \in SentType /\ rest \in Seq(Record(SentType))
  BY <1>1, Front, RecordIs
<1>4. cli.shaking => rec.type \in {"CH", "ALERT"} /\ rest \in Seq(Record({"CH", "ALERT"}))
  BY <1>1, Front, RecordIs
<1>5. ~cli.shaking => trusted
  BY <1>1, ClientParts
<1> HIDE DEF rec, rest
<1>6. /\ send \in Seq(Record({"SF", "APP"})) /\ send \in Seq(A)
      /\ (~trusted => send \in Seq(Record({"SF"})))
      /\ Numbers(send) = n
  <2>1. /\ trusted \in BOOLEAN /\ rec \in Record(AnyType) /\ rec.type \in SentType
        /\ rec.type = "APP" => trusted
    BY <1>1, <1>2, <1>3, <1>4, <1>5
  <2> QED BY <2>1, ServerAdds
<1> HIDE DEF send, step
<1>7. n \in Seq(Nat) /\ <<rec>> \in Seq(A) /\ rec.num \in Nat
  <2>1. <<rec>> \in Seq(A)
    BY <1>2
  <2> QED BY <1>2, <2>1, RecordIs, NumbersAny
<1>8. served' = served \o n /\ served' \in Seq(Nat)
  <2>1. CASE rec.type = "APP"
    <3>1. n = <<rec.num>> /\ served' = Append(served, rec.num)
      BY <1>1, <2>1, NumbersOne
    <3>2. served \in Seq(Nat) /\ rec.num \in Nat
      BY <1>1, <1>7
    <3>3. Append(served, rec.num) = served \o <<rec.num>> /\ Append(served, rec.num) \in Seq(Nat)
      BY <3>2, AppendIsConcat, AppendProperties
    <3> HIDE DEF n
    <3> QED BY <3>1, <3>3, Zenon
  <2>2. CASE rec.type # "APP"
    <3>1. n = << >> /\ served' = served
      BY <1>1, <2>2, NumbersOne
    <3> HIDE DEF n
    <3> QED BY <1>1, <3>1, NatSeqs
  <2> QED BY <2>1, <2>2
<1>9. cli.shaking => served' = << >>
  BY <1>1, <1>4
<1>10. s2c \o send \in Seq(A) /\ s2c \o send \in Seq(Record({"SF", "APP"}))
  BY <1>1, <1>6, ConcatProperties
<1>11. ~trusted => s2c \o send \in Seq(Record({"SF"}))
  BY <1>1, <1>6, ConcatProperties
<1>12. EngineType'
  BY <1>1, <1>2, <1>8, <1>10, EngineTlsAssumption DEF EngineInv, EngineType, config
<1>13. NamedTypes'
  BY <1>1, <1>3, <1>4, <1>6, <1>9, <1>10, <1>11 DEF EngineInv, NamedTypes, config
<1>14. RequestsQueued'
  <2> DEFINE p2 == Numbers(rest)
             p3 == Numbers(cli.out) \o Numbers(cli.early)
  <2>1. Numbers(cli.out) \in Seq(Nat) /\ Numbers(cli.early) \in Seq(Nat)
    BY <1>1, ClientParts, NumbersAny
  <2>2. p2 \in Seq(Nat) /\ p3 \in Seq(Nat) /\ Numbers(c2s) = n \o p2
    BY <1>2, <1>7, <2>1, NumbersAny, NatSeqs
  <2>3. served \o ((n \o p2) \o p3) = Iota(written)
    BY <2>2 DEF EngineInv, RequestsQueued
  <2>4. Numbers(c2s') = p2 /\ Numbers(cli'.out) \o Numbers(cli'.early) = p3 /\ written' = written
    BY <1>1
  <2> HIDE DEF n, p2, p3
  <2>5. Cat(served, Cat(Cat(n, p2), p3)) = Cat(Cat(served, n), Cat(p2, p3))
    BY <1>1, <1>7, <2>2, CatAssociative
  <2>6. (served \o n) \o (p2 \o p3) = Iota(written)
    BY <2>3, <2>5 DEF Cat
  <2> QED BY <1>8, <2>4, <2>6 DEF RequestsQueued
<1>15. PlainPath'
  BY <1>1 DEF PlainPath, config
<1>16. AnswersInOnePlace'
  <2> DEFINE p0 == answers \o Numbers(cli.plain) \o Numbers(lost) \o Numbers(raw)
             p1 == Numbers(s2c)
  <2>1. /\ Numbers(cli.plain) \in Seq(Nat) /\ Numbers(raw) \in Seq(Nat) /\ p1 \in Seq(Nat)
        /\ Numbers(lost) \in Seq(Nat)
    BY <1>1, ClientParts, NumbersAny
  <2>2. p0 \in Seq(Nat)
    <3>1. answers \o Numbers(cli.plain) \in Seq(Nat)
      BY <1>1, <2>1, NatSeqs
    <3>2. answers \o Numbers(cli.plain) \o Numbers(lost) \in Seq(Nat)
      BY <2>1, <3>1, NatSeqs
    <3> QED BY <2>1, <3>2, NatSeqs
  <2>3. Numbers(s2c') = p1 \o n
    <3>1. s2c \in Seq(A) /\ send \in Seq(A) /\ s2c' = s2c \o send /\ Numbers(send) = n
      BY <1>1, <1>6
    <3> HIDE DEF n
    <3>2. Numbers(s2c \o send) = Numbers(s2c) \o Numbers(send)
      BY <3>1, NumbersAny
    <3> QED BY <3>1, <3>2
  <2>4. served = p0 \o p1
    BY DEF EngineInv, AnswersInOnePlace
  <2>5. answers' \o Numbers(cli'.plain) \o Numbers(lost') \o Numbers(raw') = p0
    BY <1>1
  <2> HIDE DEF p0, p1, n
  <2>6. Cat(Cat(p0, p1), n) = Cat(p0, Cat(p1, n))
    BY <1>7, <2>1, <2>2, CatAssociative
  <2>7. served \o n = p0 \o (p1 \o n)
    BY <2>4, <2>6 DEF Cat
  <2>8. Numbers(lost') # << >> => cli'.torn
    BY <1>1 DEF EngineInv, AnswersInOnePlace
  <2> QED BY <1>8, <2>3, <2>5, <2>7, <2>8 DEF AnswersInOnePlace
<1> QED
  BY <1>12, <1>13, <1>14, <1>15, <1>16 DEF EngineInv

(* Without tlsconn there are no application records anywhere. *)
LEMMA PlainAnswers ==
  ASSUME NEW s \in Seq(Record({"ALERT"}))
  PROVE  Numbers(s) = << >>
<1> DEFINE R == Record({"ALERT"})
<1>1. \A r \in R : r.num \in Nat /\ r.type # "APP"
  BY RecordIs
<1> HIDE DEF R
<1>2. s \in Seq(R) /\ \A i \in DOMAIN s : s[i] \in R
  <2>1. s \in Seq(R)
    BY DEF R
  <2> QED BY <2>1, ElementOfSeq, LenProperties
<1> QED
  BY <1>1, <1>2, NumbersNone

LEMMA ServerKeepsPlain ==
  ASSUME EngineInv, ~named, Server
  PROVE  EngineInv'
<1> DEFINE rec  == Head(c2s)
           step == ServerStep(srv, rec)
           send == step.send
           rest == Tail(c2s)
           al   == Handshake("ALERT")
<1>1. /\ c2s \in Seq(Record({"CLEAR"})) /\ c2s # << >> /\ s2c \in Seq(Record({"ALERT"}))
      /\ s2c' = s2c \o send /\ c2s' = rest /\ Len(c2s) <= SockBuf /\ cli = NewClient
      /\ raw \in Seq(Record({"ALERT"})) /\ served = << >> /\ answers = << >> /\ lost = << >>
      /\ served' = (IF rec.type = "APP" THEN Append(served, rec.num) ELSE served)
      /\ UNCHANGED <<config, bound, cli, closed, written, answers, raw, lost>>
  BY DEF Server, EngineInv, EngineType, PlainPath
<1>2. rec \in Record({"CLEAR"}) /\ rest \in Seq(Record({"CLEAR"})) /\ Len(rest) <= Len(c2s)
  BY <1>1, Front
<1>3. rec.type = "CLEAR" /\ rec \in Record(AnyType)
  BY <1>2, RecordIs, RecordMono DEF AnyType
<1> HIDE DEF rec, rest
<1>4. send = <<al>>
  BY <1>3, ServerStepIs
<1>5. al \in Record({"ALERT"})
  BY DEF Handshake, Record
<1> HIDE DEF send, step, al
<1>6. send \in Seq(Record({"ALERT"}))
  <2>1. << >> \in Seq(Record({"ALERT"})) /\ <<al>> \in Seq(Record({"ALERT"}))
    BY <1>5
  <2> QED BY <1>4, <2>1, Zenon
<1>7. s2c \o send \in Seq(Record({"ALERT"}))
  BY <1>1, <1>6, ConcatProperties
<1>8. served' = << >>
  BY <1>1, <1>3
<1>9. s2c \o send \in Seq(Record(AnyType)) /\ rest \in Seq(Record(AnyType))
  BY <1>2, <1>7, RecordMono DEF AnyType
<1>10. EngineType'
  <2>1. Len(rest) <= SockBuf
    <3>1. Len(rest) \in Nat /\ Len(c2s) \in Nat /\ SockBuf \in Nat
      BY <1>1, <1>2, EngineTlsAssumption
    <3> QED BY <1>1, <1>2, <3>1
  <2>2. << >> \in Seq(Nat)
    OBVIOUS
  <2> QED BY <1>1, <1>8, <1>9, <2>1, <2>2 DEF EngineInv, EngineType, config
<1>11. NamedTypes' /\ RequestsQueued'
  BY <1>1 DEF NamedTypes, RequestsQueued, config
<1>12. PlainPath'
  BY <1>1, <1>2, <1>7, <1>8 DEF PlainPath, config
<1>13. AnswersInOnePlace'
  <2>1. Numbers(s2c') = << >> /\ Numbers(raw') = << >> /\ Numbers(lost') = << >>
    BY <1>1, <1>7, PlainAnswers, NumbersEmpty
  <2>2. Numbers(cli'.plain) = << >>
    BY <1>1, NumbersEmpty DEF NewClient
  <2>3. answers' = << >>
    BY <1>1
  <2>4. << >> \o << >> = << >>
    OBVIOUS
  <2> QED BY <1>8, <2>1, <2>2, <2>3, <2>4 DEF AnswersInOnePlace
<1> QED
  BY <1>10, <1>11, <1>12, <1>13 DEF EngineInv

LEMMA NetWritePlainKeeps == EngineInv /\ NetWritePlain => EngineInv'
<1> SUFFICES ASSUME EngineInv, NetWritePlain PROVE EngineInv'
  OBVIOUS
<1> DEFINE x == [type |-> "CLEAR", num |-> written + 1]
<1>1. /\ ~named /\ written \in Nat /\ written' = written + 1 /\ c2s' = Append(c2s, x)
      /\ c2s \in Seq(Record({"CLEAR"})) /\ Len(c2s) < SockBuf
      /\ UNCHANGED <<config, bound, cli, s2c, srv, served, closed, answers, raw, lost>>
  BY DEF NetWritePlain, EngineInv, EngineType, PlainPath
<1>2. x \in Record({"CLEAR"})
  BY <1>1 DEF Record
<1> HIDE DEF x
<1>3. c2s' \in Seq(Record({"CLEAR"})) /\ Len(c2s') = Len(c2s) + 1
  BY <1>1, <1>2, AppendProperties
<1>4. c2s' \in Seq(Record(AnyType)) /\ Len(c2s') <= SockBuf
  <2>1. Len(c2s) \in Nat /\ SockBuf \in Nat
    BY <1>1, EngineTlsAssumption
  <2> QED BY <1>1, <1>3, <2>1, RecordMono DEF AnyType
<1>5. EngineType'
  BY <1>1, <1>4 DEF EngineInv, EngineType, config
<1>6. NamedTypes' /\ RequestsQueued'
  BY <1>1 DEF NamedTypes, RequestsQueued, config
<1>7. PlainPath'
  BY <1>1, <1>3 DEF EngineInv, PlainPath, config
<1>8. AnswersInOnePlace'
  BY <1>1 DEF EngineInv, AnswersInOnePlace
<1> QED
  BY <1>5, <1>6, <1>7, <1>8 DEF EngineInv

LEMMA EngineInit == Init => EngineInv
<1> SUFFICES ASSUME Init PROVE EngineInv
  OBVIOUS
<1> DEFINE ch == Handshake("CH")
<1>1. ch \in Record({"CH", "ALERT"}) /\ ch \in Record(SentType)
      /\ ch \in Record(AnyType) /\ ch.type = "CH"
  BY DEF Handshake, Record, AnyType, SentType
<1>2. /\ cli = [shaking |-> TRUE, out |-> <<ch>>, early |-> << >>, plain |-> << >>,
               torn |-> FALSE, failed |-> FALSE]
      /\ cli = NewClient
  BY DEF Init, NewClient
<1>3. \A T : << >> \in Seq(Record(T))
  OBVIOUS
<1>4. /\ trusted \in BOOLEAN /\ named \in BOOLEAN /\ pumps \in BOOLEAN /\ bound = FALSE
      /\ c2s = << >> /\ s2c = << >> /\ srv = "hello" /\ served = << >> /\ closed = FALSE
      /\ written = 0 /\ answers = << >> /\ raw = << >> /\ lost = << >>
  BY TlsWireAssumption, EngineTlsAssumption DEF Init
<1> HIDE DEF ch
<1>5. /\ <<ch>> \in Seq(Record({"CH", "ALERT"})) /\ <<ch>> \in Seq(Record(SentType))
      /\ <<ch>> \in Seq(Record(AnyType))
  BY <1>1
<1>6. ClientOK(cli, trusted)
  BY <1>2, <1>3, <1>4, <1>5, ClientIs
<1>7. << >> \in Seq(Nat) /\ Len(<< >>) = 0 /\ << >> \o << >> = << >> /\ 0 <= SockBuf
  BY EngineTlsAssumption
<1>8. EngineType
  BY <1>3, <1>4, <1>7 DEF EngineType
<1>9. NamedTypes
  BY <1>3, <1>4, <1>6 DEF NamedTypes
<1>10. RequestsQueued
  <2>1. Numbers(cli.out) = << >> /\ cli.early = << >>
    <3>1. cli.out = <<ch>> /\ cli.early = << >>
      BY <1>2
    <3> QED BY <1>1, <3>1, NumbersOne
  <2>2. Iota(0) = << >>
    <3>1. Iota(0) \in Seq(Nat) /\ Len(Iota(0)) = 0
      BY IotaIs
    <3> QED BY <3>1, EmptySeq
  <2> QED BY <1>4, <1>7, <2>1, <2>2, NumbersEmpty DEF RequestsQueued
<1>11. PlainPath
  BY <1>2, <1>3, <1>4 DEF PlainPath
<1>12. AnswersInOnePlace
  <2>1. cli.plain = << >>
    BY <1>2
  <2> QED BY <1>4, <1>7, <2>1, NumbersEmpty DEF AnswersInOnePlace
<1> QED
  BY <1>8, <1>9, <1>10, <1>11, <1>12 DEF EngineInv

LEMMA EngineStep == EngineInv /\ [Next]_vars => EngineInv'
<1> SUFFICES ASSUME EngineInv, [Next]_vars PROVE EngineInv'
  OBVIOUS
<1>1. CASE NetWrite
  BY <1>1, NetWriteKeeps
<1>2. CASE NetWriteEmpty
  BY <1>2, NetWriteEmptyKeeps
<1>3. CASE NetWritePlain
  BY <1>3, NetWritePlainKeeps
<1>4. CASE BindBodyRing
  BY <1>4 DEF BindBodyRing, EngineInv, EngineType, NamedTypes, RequestsQueued, PlainPath,
              AnswersInOnePlace, config
<1>5. ASSUME NEW n \in 1 .. MaxReq + 1,
             \/ \E m \in 0 .. MaxReq + 1 : NetReadBytes(n, m)
             \/ NetReadFull(n) \/ NetReadRing(n) \/ NetReadPlain(n)
      PROVE  EngineInv'
  <2>1. CASE \E m \in 0 .. MaxReq + 1 : NetReadBytes(n, m)
    BY <2>1, NetReadBytesKeeps
  <2>4. CASE NetReadFull(n)
    BY <2>4, NetReadFullKeeps
  <2>2. CASE NetReadRing(n)
    BY <2>2, TakeRawKeeps DEF NetReadRing
  <2>3. CASE NetReadPlain(n)
    BY <2>3, TakeRawKeeps DEF NetReadPlain
  <2> QED BY <1>5, <2>1, <2>2, <2>3, <2>4
<1>6. CASE NetReadWouldBlock
  BY <1>6, NetReadWouldBlockKeeps
<1>7. CASE Server
  BY <1>7, ServerKeepsNamed, ServerKeepsPlain
<1>8. CASE ServerClose
  BY <1>8 DEF ServerClose, EngineInv, EngineType, NamedTypes, RequestsQueued, PlainPath,
              AnswersInOnePlace, config
<1>9. CASE UNCHANGED vars
  BY <1>9 DEF vars, EngineInv, EngineType, NamedTypes, RequestsQueued, PlainPath,
              AnswersInOnePlace
<1> QED
  BY <1>1, <1>2, <1>3, <1>4, <1>5, <1>6, <1>7, <1>8, <1>9 DEF Next, NetRead

LEMMA EngineAlways == Spec => []EngineInv
BY EngineInit, EngineStep, PTL DEF Spec

(* net_write's requests reach the server in the order they were accepted,  *)
(* none twice and none skipped, for any number of requests, any send       *)
(* buffer and wherever the handshake ends between them.                    *)
THEOREM EngineRequestsInOrder == Spec => []RequestsInOrder
<1>1. EngineInv => RequestsInOrder
  <2> SUFFICES ASSUME EngineInv PROVE RequestsInOrder
    OBVIOUS
  <2>1. written \in Nat /\ served \in Seq(Nat)
    BY DEF EngineInv, EngineType
  <2>2. CASE named
    <3> DEFINE more == Numbers(c2s) \o (Numbers(cli.out) \o Numbers(cli.early))
    <3>1. more \in Seq(Nat)
      <4>1. /\ trusted \in BOOLEAN /\ ClientOK(cli, trusted) /\ c2s \in Seq(Record(AnyType))
        BY <2>2 DEF EngineInv, EngineType, NamedTypes
      <4>2. /\ Numbers(cli.out) \in Seq(Nat) /\ Numbers(cli.early) \in Seq(Nat)
            /\ Numbers(c2s) \in Seq(Nat)
        BY <4>1, ClientParts, NumbersAny
      <4>3. Numbers(cli.out) \o Numbers(cli.early) \in Seq(Nat)
        BY <4>2, NatSeqs
      <4> QED BY <4>2, <4>3, NatSeqs
    <3>2. served \o more = Iota(written)
      BY <2>2 DEF EngineInv, RequestsQueued
    <3> DEFINE all == Iota(written)
    <3>3. all \in Seq(Nat) /\ Len(all) = written /\ \A i \in 1 .. written : all[i] = i
      BY <2>1, IotaIs
    <3> HIDE DEF more, all
    <3>4. /\ Len(served \o more) = Len(served) + Len(more)
          /\ \A i \in 1 .. Len(served) + Len(more) :
                (served \o more)[i] = IF i <= Len(served) THEN served[i] ELSE more[i - Len(served)]
      BY <2>1, <3>1, ConcatProperties
    <3>5. served \o more = all
      BY <3>2 DEF all
    <3>6. Len(served) \in Nat /\ Len(more) \in Nat
      BY <2>1, <3>1
    <3>7. /\ written = Len(served) + Len(more)
          /\ \A i \in 1 .. Len(served) : all[i] = served[i]
      BY <3>3, <3>4, <3>5, <3>6
    <3> QED BY <3>3, <3>6, <3>7 DEF RequestsInOrder
  <2>3. CASE ~named
    <3>1. served = << >>
      BY <2>3 DEF EngineInv, PlainPath
    <3> QED BY <2>1, <3>1 DEF RequestsInOrder
  <2> QED BY <2>2, <2>3
<1> QED
  BY <1>1, EngineAlways, PTL

(* Every answer of the server is in one place, in order: with the host,    *)
(* decrypted and not read, lost in front of rustls, handed over as         *)
(* ciphertext, or in the socket; whatever part of a read rustls takes,     *)
(* none is lost but behind a gap, and none is handed out behind one.       *)
THEOREM EngineAnswersInOnePlace == Spec => []AnswersInOnePlace
<1>1. EngineInv => AnswersInOnePlace
  BY DEF EngineInv
<1> QED
  BY <1>1, EngineAlways, PTL

(* No request leaves the client before the server's chain was verified,    *)
(* and nothing goes out in the clear on a connection with tlsconn.         *)
THEOREM EngineNothingBeforeVerified == Spec => []NothingBeforeVerified
<1>1. EngineInv => NothingBeforeVerified
  <2> SUFFICES ASSUME EngineInv PROVE NothingBeforeVerified
    OBVIOUS
  <2>1. CASE named
    <3>1. /\ trusted \in BOOLEAN /\ ClientOK(cli, trusted) /\ c2s \in Seq(Record(AnyType))
          /\ (cli.shaking => c2s \in Seq(Record({"CH", "ALERT"})) /\ served = << >>)
          /\ c2s \in Seq(Record(SentType))
      BY <2>1 DEF EngineInv, EngineType, NamedTypes
    <3>2. cli.shaking \in BOOLEAN /\ (~cli.shaking => trusted)
      BY <3>1, ClientParts
    <3>3. \A T : c2s \in Seq(Record(T)) => \A i \in 1 .. Len(c2s) : c2s[i].type \in T
      BY ElementOfSeq, RecordIs
    <3>4. ASSUME NEW i \in 1 .. Len(c2s)
          PROVE  /\ c2s[i].type # "CLEAR"
                 /\ cli.shaking => c2s[i].type # "APP"
      BY <3>1, <3>2, <3>3 DEF SentType
    <3> QED BY <2>1, <3>1, <3>2, <3>4 DEF NothingBeforeVerified
  <2>2. CASE ~named
    <3>1. c2s \in Seq(Record({"CLEAR"})) /\ served = << >>
      BY <2>2 DEF EngineInv, PlainPath
    <3>2. ASSUME NEW i \in 1 .. Len(c2s) PROVE c2s[i].type = "CLEAR"
      BY <3>1, ElementOfSeq, RecordIs
    <3> QED BY <2>2, <3>1, <3>2 DEF NothingBeforeVerified
  <2> QED BY <2>1, <2>2
<1> QED
  BY <1>1, EngineAlways, PTL

-----------------------------------------------------------------------------
(***************************************************************************)
(* The standalone handle: a TlsState with the same kind of client and of   *)
(* server, on a blocking socket that takes all of what is written.         *)
(***************************************************************************)

(* On the way from the client to the server, in a queue q: the ClientHello *)
(* is first and unread, and a request is behind the client's Finished if   *)
(* the server s does not have that yet; so is one that is yet to be        *)
(* written, once the handshake is over.                                    *)
Past(s) == s \notin {"hello", "flight"}

HasFin(q) == \E i \in 1 .. Len(q) : q[i].type = "FIN"

Ordered(q, s) ==
  \A i \in 1 .. Len(q) :
    /\ q[i].type = "CH" => i = 1 /\ s = "hello"
    /\ q[i].type = "APP" => Past(s) \/ \E j \in 1 .. i - 1 : q[j].type = "FIN"

Ready(q, shaking, s) == Ordered(q, s) /\ (~shaking => Past(s) \/ HasFin(q))

LEMMA OrderedConcat ==
  ASSUME NEW R, NEW q \in Seq(R), NEW e \in Seq(R), NEW s, Ordered(q, s),
         \A i \in 1 .. Len(e) : e[i].type # "CH",
         \A i \in 1 .. Len(e) : e[i].type = "APP" => Past(s) \/ HasFin(q)
  PROVE  /\ q \o e \in Seq(R) /\ Ordered(q \o e, s)
         /\ HasFin(q) \/ HasFin(e) => HasFin(q \o e)
<1> DEFINE u == q \o e
           L == Len(q)
           M == Len(e)
<1>1. /\ u \in Seq(R) /\ Len(u) = L + M /\ L \in Nat /\ M \in Nat
      /\ \A i \in 1 .. L + M : u[i] = IF i <= L THEN q[i] ELSE e[i - L]
  BY ConcatProperties
<1> HIDE DEF u, L, M
<1>2. (\A i \in 1 .. L : u[i] = q[i]) /\ \A i \in 1 .. M : u[L + i] = e[i]
  BY <1>1
<1>3. HasFin(q) => \E j \in 1 .. L : u[j].type = "FIN"
  BY <1>2 DEF HasFin, L
<1>4. HasFin(e) => \E j \in 1 .. L + M : u[j].type = "FIN"
  <2> SUFFICES ASSUME HasFin(e) PROVE \E j \in 1 .. L + M : u[j].type = "FIN"
    OBVIOUS
  <2>1. PICK i \in 1 .. M : e[i].type = "FIN"
    BY DEF HasFin, M
  <2>2. L + i \in 1 .. L + M /\ u[L + i].type = "FIN"
    BY <1>1, <1>2, <2>1
  <2> QED BY <2>2
<1>5. ASSUME NEW i \in 1 .. L + M
      PROVE  /\ u[i].type = "CH" => i = 1 /\ s = "hello"
             /\ u[i].type = "APP" => Past(s) \/ \E j \in 1 .. i - 1 : u[j].type = "FIN"
  <2>1. CASE i \in 1 .. L
    <3>1. /\ q[i].type = "CH" => i = 1 /\ s = "hello"
          /\ q[i].type = "APP" => Past(s) \/ \E j \in 1 .. i - 1 : q[j].type = "FIN"
      BY <2>1 DEF Ordered, L
    <3>2. \A j \in 1 .. i - 1 : j \in 1 .. L
      BY <1>1, <2>1
    <3> QED BY <1>2, <2>1, <3>1, <3>2
  <2>2. CASE i \notin 1 .. L
    <3>1. i - L \in 1 .. M /\ u[i] = e[i - L]
      BY <1>1, <2>2
    <3>2. u[i].type # "CH" /\ (u[i].type = "APP" => Past(s) \/ HasFin(q))
      BY <3>1 DEF M
    <3>3. \A j \in 1 .. L : j \in 1 .. i - 1
      BY <1>1, <2>2
    <3> QED BY <1>3, <3>2, <3>3
  <2> QED BY <2>1, <2>2
<1>6. Ordered(u, s)
  BY <1>1, <1>5 DEF Ordered
<1>7. HasFin(q) \/ HasFin(e) => HasFin(u)
  <2>1. \A j \in 1 .. L : j \in 1 .. L + M
    BY <1>1
  <2>2. HasFin(u) <=> \E j \in 1 .. L + M : u[j].type = "FIN"
    BY <1>1 DEF HasFin
  <2> QED BY <1>3, <1>4, <2>1, <2>2
<1> QED
  BY <1>1, <1>6, <1>7 DEF u

(* The first record of the queue leaves it for the server. *)
LEMMA OrderedTail ==
  ASSUME NEW R, NEW q \in Seq(R), q # << >>, NEW s, NEW z, Ordered(q, s),
         Past(s) /\ Head(q).type # "CH" => Past(z),
         Head(q).type = "FIN" => Past(z)
  PROVE  /\ Ordered(Tail(q), z)
         /\ Past(s) \/ HasFin(q) => Past(z) \/ HasFin(Tail(q))
         /\ Head(q).type = "APP" => Past(s)
<1> DEFINE u == Tail(q)
           L == Len(q)
           h == Head(q)
<1>1. /\ u \in Seq(R) /\ L \in Nat /\ L > 0 /\ Len(u) = L - 1 /\ h = q[1]
      /\ \A i \in 1 .. L - 1 : u[i] = q[i + 1]
  BY HeadTailProperties
<1> HIDE DEF u, L, h
<1>2. \A i \in 1 .. L : /\ q[i].type = "CH" => i = 1 /\ s = "hello"
                        /\ q[i].type = "APP" => Past(s) \/ \E j \in 1 .. i - 1 : q[j].type = "FIN"
  BY DEF Ordered, L
<1>3. Past(s) => Past(z)
  <2>1. 1 \in 1 .. L
    BY <1>1
  <2>2. Past(s) => h.type # "CH"
    BY <1>1, <1>2, <2>1 DEF Past
  <2> QED BY <2>2 DEF h
<1>4. ASSUME NEW j \in 1 .. L, q[j].type = "FIN", ~Past(z)
      PROVE  j - 1 \in 1 .. L - 1 /\ u[j - 1].type = "FIN"
  <2>1. j # 1
    BY <1>1, <1>4 DEF h
  <2>2. j - 1 \in 1 .. L - 1 /\ (j - 1) + 1 = j
    BY <1>1, <2>1
  <2> QED BY <1>1, <1>4, <2>2
<1>5. ASSUME NEW i \in 1 .. L - 1
      PROVE  /\ u[i].type # "CH"
             /\ u[i].type = "APP" => Past(z) \/ \E j \in 1 .. i - 1 : u[j].type = "FIN"
  <2>1. i + 1 \in 1 .. L /\ i + 1 # 1 /\ u[i] = q[i + 1] /\ (i + 1) - 1 = i
    BY <1>1
  <2>2. u[i].type # "CH"
    BY <1>2, <2>1
  <2>3. ASSUME u[i].type = "APP", ~Past(z)
        PROVE  \E j \in 1 .. i - 1 : u[j].type = "FIN"
    <3>1. PICK j \in 1 .. i : q[j].type = "FIN"
      BY <1>2, <1>3, <2>1, <2>3
    <3>2. j \in 1 .. L
      BY <1>1
    <3>3. u[j - 1].type = "FIN" /\ j - 1 \in 1 .. L - 1
      BY <1>4, <2>3, <3>1, <3>2
    <3>4. j - 1 \in 1 .. i - 1
      BY <3>3
    <3> QED BY <3>3, <3>4
  <2> QED BY <2>2, <2>3
<1>6. Ordered(u, z)
  BY <1>1, <1>5 DEF Ordered
<1>7. ASSUME Past(s) \/ HasFin(q), ~Past(z) PROVE HasFin(u)
  <2>1. PICK j \in 1 .. L : q[j].type = "FIN"
    BY <1>3, <1>7 DEF HasFin, L
  <2>2. j - 1 \in 1 .. L - 1 /\ u[j - 1].type = "FIN"
    BY <1>4, <1>7, <2>1
  <2> QED BY <1>1, <2>2 DEF HasFin
<1>8. h.type = "APP" => Past(s)
  <2>1. 1 \in 1 .. L /\ 1 .. (1 - 1) = {}
    BY <1>1
  <2> QED BY <1>1, <1>2, <2>1
<1> QED
  BY <1>6, <1>7, <1>8 DEF u, h

(* Appending one record: the client's Finished, an alert or a request. *)
LEMMA OrderedOne ==
  ASSUME NEW R, NEW q \in Seq(R), NEW r \in R, NEW s, Ordered(q, s), r.type # "CH",
         r.type = "APP" => Past(s) \/ HasFin(q)
  PROVE  /\ Append(q, r) \in Seq(R) /\ Ordered(Append(q, r), s)
         /\ HasFin(q) \/ r.type = "FIN" => HasFin(Append(q, r))
<1> DEFINE e == <<r>>
<1>1. e \in Seq(R) /\ Len(e) = 1 /\ e[1] = r /\ Append(q, r) = q \o e
  BY AppendIsConcat
<1> HIDE DEF e
<1>2. \A i \in 1 .. Len(e) : e[i] = r
  BY <1>1
<1>3. r.type = "FIN" => HasFin(e)
  BY <1>1 DEF HasFin
<1>4. /\ q \o e \in Seq(R) /\ Ordered(q \o e, s)
      /\ HasFin(q) \/ HasFin(e) => HasFin(q \o e)
  <2>1. \A i \in 1 .. Len(e) : e[i].type # "CH"
    BY <1>2
  <2>2. \A i \in 1 .. Len(e) : e[i].type = "APP" => Past(s) \/ HasFin(q)
    BY <1>2
  <2> QED BY <1>1, <2>1, <2>2, OrderedConcat
<1> QED
  BY <1>1, <1>3, <1>4

LEMMA FedReady ==
  ASSUME NEW t \in BOOLEAN, NEW x, ClientOK(x, t), NEW b \in Seq(Record(AnyType)), NEW s,
         NEW rec, Ready(b \o x.out, x.shaking, s)
  PROVE  LET y == Fed(x, rec, t) IN Ready(b \o y.out, y.shaking, s)
<1> DEFINE y == Fed(x, rec, t)
           A == Record(AnyType)
           q == b \o x.out
<1>1. x.out \in Seq(A) /\ x.early \in Seq(A) /\ x.early \in Seq(Record({"APP"}))
      /\ x.shaking \in BOOLEAN /\ (~x.shaking => t)
  BY ClientParts
<1>2. q \in Seq(A) /\ Ordered(q, s) /\ (~x.shaking => Past(s) \/ HasFin(q))
  BY <1>1, ConcatProperties DEF Ready
<1>3. CASE x.failed \/ (~x.torn /\ rec.type # "SF")
  <2>1. y.out = x.out /\ y.shaking = x.shaking
    <3>1. x \in Clients
      BY DEF ClientOK
    <3> QED BY <1>3, <3>1 DEF Fed, Process, Clients
  <2> HIDE DEF y
  <2> QED BY <2>1 DEF y
<1>4. CASE ~x.failed /\ ~x.torn /\ rec.type = "SF" /\ t
  <2> DEFINE fin == Handshake("FIN")
             q1 == Append(q, fin)
             e == x.early
  <2>1. y.out = (x.out \o <<fin>>) \o e /\ y.shaking = FALSE
    <3>1. x \in Clients
      BY DEF ClientOK
    <3> QED BY <1>4, <3>1 DEF Fed, Process, Clients
  <2>2. fin \in A /\ fin.type = "FIN"
    BY DEF Handshake, Record, AnyType
  <2> HIDE DEF fin, A
  <2>3. q1 \in Seq(A) /\ Ordered(q1, s) /\ HasFin(q1)
    <3> HIDE DEF q
    <3> QED BY <1>2, <2>2, OrderedOne
  <2>4. b \o y.out = q1 \o e
    <3> DEFINE f == <<fin>>
    <3>1. f \in Seq(A) /\ q1 = q \o f /\ b \in Seq(A)
      <4> HIDE DEF q
      <4>1. f \in Seq(A) /\ q1 = q \o f
        BY <1>2, <2>2, AppendIsConcat
      <4> QED BY <4>1 DEF A
    <3> DEFINE o == x.out
    <3>2. o \in Seq(A) /\ e \in Seq(A)
      BY <1>1
    <3> HIDE DEF f, o, e
    <3>3. Cat(b, Cat(Cat(o, f), e)) = Cat(Cat(Cat(b, o), f), e)
      BY <3>1, <3>2, CatIn
    <3>4. b \o ((o \o f) \o e) = ((b \o o) \o f) \o e
      BY <3>3 DEF Cat
    <3>5. q = b \o o
      BY DEF o
    <3>6. y.out = (o \o f) \o e
      BY <2>1 DEF o, f
    <3> HIDE DEF y, q, q1
    <3> QED BY <3>1, <3>4, <3>5, <3>6, Zenon
  <2>5. \A i \in 1 .. Len(e) : e[i].type = "APP"
    <3>1. e \in Seq(Record({"APP"}))
      BY <1>1
    <3> HIDE DEF e
    <3> QED BY <3>1, ElementOfSeq, RecordIs
  <2>6. e \in Seq(A)
    BY <1>1
  <2> HIDE DEF q1, e, y
  <2>7. Ordered(q1 \o e, s) /\ HasFin(q1 \o e)
    BY <2>3, <2>5, <2>6, OrderedConcat
  <2>8. Ordered(b \o y.out, s) /\ HasFin(b \o y.out)
    BY <2>4, <2>7
  <2> QED BY <2>8 DEF Ready, y
<1>5. CASE ~x.failed /\ (x.torn \/ (rec.type = "SF" /\ ~t))
  <2> DEFINE al == Handshake("ALERT")
  <2>1. y.out = Append(x.out, al) /\ y.shaking = x.shaking
    <3>1. x \in Clients
      BY DEF ClientOK
    <3> QED BY <1>1, <1>5, <3>1 DEF Fed, Process, Clients
  <2>2. al \in A /\ al.type = "ALERT"
    BY DEF Handshake, Record, AnyType
  <2> HIDE DEF al, A
  <2>3. b \o y.out = Append(q, al)
    <3> DEFINE o == x.out
               f == <<al>>
    <3>1. o \in Seq(A) /\ f \in Seq(A) /\ b \in Seq(A)
      BY <1>1, <2>2 DEF A
    <3>2. y.out = o \o f
      <4> HIDE DEF y
      <4> QED BY <2>1, <2>2, <3>1, AppendIsConcat
    <3>3. Append(q, al) = q \o f
      <4> HIDE DEF q
      <4> QED BY <1>2, <2>2, AppendIsConcat
    <3>4. q = b \o o
      OBVIOUS
    <3> HIDE DEF o, f, y, q
    <3>5. b \o (o \o f) = (b \o o) \o f
      BY <3>1, ConcatAssociative
    <3> QED BY <3>2, <3>3, <3>4, <3>5, Zenon
  <2> HIDE DEF q, y
  <2>4. Ordered(Append(q, al), s) /\ (HasFin(q) => HasFin(Append(q, al)))
    BY <1>2, <2>2, OrderedOne
  <2>5. Ordered(b \o y.out, s) /\ (HasFin(q) => HasFin(b \o y.out))
    BY <2>3, <2>4
  <2> QED BY <1>2, <2>1, <2>5 DEF Ready, y
<1> QED
  BY <1>3, <1>4, <1>5, ClientParts

LEMMA ProcessedReady ==
  ASSUME NEW t \in BOOLEAN, NEW c, ClientOK(c, t), NEW b \in Seq(Record(AnyType)), NEW s,
         NEW recs \in Seq(Record({"SF", "APP"})), ~t => recs \in Seq(Record({"SF"})),
         Ready(b \o c.out, c.shaking, s)
  PROVE  LET y == ProcessAll(c, recs, t) IN Ready(b \o y.out, y.shaking, s)
<1> DEFINE L == Len(recs)
           Good(x) == ClientOK(x, t) /\ Ready(b \o x.out, x.shaking, s)
           G == {p \in Nat \X Clients : Good(p[2])}
<1>1. L \in Nat /\ c \in Clients
  BY DEF ClientOK
<1>2. \A i \in 1 .. L : recs[i] \in Record({"SF", "APP"}) /\ (~t => recs[i].type = "SF")
  <2>1. ASSUME NEW i \in 1 .. L PROVE recs[i] \in Record({"SF", "APP"})
    BY ElementOfSeq
  <2>2. ASSUME NEW i \in 1 .. L, ~t PROVE recs[i].type = "SF"
    BY <2>2, ElementOfSeq, RecordIs
  <2> QED BY <2>1, <2>2
<1>3. <<0, c>> \in G
  <2>1. Good(c)
    OBVIOUS
  <2> HIDE DEF Good
  <2> QED BY <1>1, <2>1
<1>4. ASSUME NEW i \in 1 .. L, NEW x, <<i - 1, x>> \in G
      PROVE  <<i, Fed(x, recs[i], t)>> \in G
  <2> DEFINE r == recs[i]
             y == Fed(x, r, t)
  <2>1. x \in Clients /\ Good(x) /\ i \in Nat
    <3>1. i \in Nat
      BY <1>1
    <3> HIDE DEF Good
    <3>2. <<i - 1, x>>[2] = x
      OBVIOUS
    <3>3. <<i - 1, x>> \in Nat \X Clients /\ Good(<<i - 1, x>>[2])
      BY <1>4
    <3> QED BY <3>1, <3>2, <3>3
  <2>2. r \in Record({"SF", "APP"}) /\ (~t => r.type = "SF")
    BY <1>2
  <2> HIDE DEF r
  <2>3. ClientOK(y, t)
    BY <2>1, <2>2, FedKeeps
  <2>4. Ready(b \o y.out, y.shaking, s)
    BY <2>1, FedReady
  <2> HIDE DEF y
  <2>5. Good(y) /\ y \in Clients
    BY <2>3, <2>4 DEF ClientOK
  <2> HIDE DEF Good
  <2> QED BY <2>1, <2>5 DEF y, r
<1>5. <<L, ProcessAll(c, recs, t)>> \in G
  <2> HIDE DEF G
  <2> QED BY <1>1, <1>3, <1>4, ProcessAllKeeps
<1>6. Good(ProcessAll(c, recs, t))
  BY <1>5
<1> QED
  BY <1>6

(* One call of read_tls. *)
LEMMA ReadTlsReady ==
  ASSUME NEW t \in BOOLEAN, NEW c, ClientOK(c, t), NEW b \in Seq(Record(AnyType)), NEW s,
         NEW recs \in Seq(Record({"SF", "APP"})), ~t => recs \in Seq(Record({"SF"})),
         NEW m \in 0 .. Len(recs), Ready(b \o c.out, c.shaking, s)
  PROVE  LET y == ReadTls(c, recs, m, t) IN Ready(b \o y.out, y.shaking, s)
<1> DEFINE front == SubSeq(recs, 1, m)
           z == ProcessAll(c, front, t)
           g == c.torn \/ m < Len(recs)
           y == ReadTls(c, recs, m, t)
<1>1. front \in Seq(Record({"SF", "APP"})) /\ (~t => front \in Seq(Record({"SF"})))
  BY Cut
<1>2. y = [z EXCEPT !.torn = g]
  BY DEF ReadTls
<1>3. c.torn \in BOOLEAN
  BY ClientParts
<1>4. g \in BOOLEAN
  BY <1>3
<1> HIDE DEF front, y, g
<1>5. Ready(b \o z.out, z.shaking, s)
  BY <1>1, ProcessedReady, Zenon
<1>6. ClientOK(z, t) /\ z.torn = c.torn
  <2>1. Took(c, front, t, z)
    BY <1>1, Processed
  <2> HIDE DEF z
  <2> QED BY <2>1 DEF Took
<1> HIDE DEF z
<1>7. z.torn => g
  BY <1>6 DEF g
<1>8. y.out = z.out /\ y.shaking = z.shaking
  BY SMTT(60), <1>2, <1>4, <1>6, <1>7, TornKeeps
<1> QED
  BY <1>5, <1>8 DEF y

-----------------------------------------------------------------------------
(* The steps of a standalone handle. *)

HandleType ==
  /\ trusted \in BOOLEAN /\ written \in Nat /\ served \in Seq(Nat)
  /\ c2s \in Seq(Record(AnyType)) /\ s2c \in Seq(Record(AnyType))

(* What each queue may hold. *)
HandleQueues ==
  /\ ClientOK(cli, trusted)
  /\ s2c \in Seq(Record({"SF", "APP"}))
  /\ cli.shaking => c2s \in Seq(Record({"CH", "ALERT"})) /\ served = << >>
  /\ c2s \in Seq(Record(SentType))
  /\ ~trusted => s2c \in Seq(Record({"SF"}))

(* The requests not yet served are queued in order... *)
HandleQueued ==
  served \o (Numbers(c2s) \o (Numbers(cli.out) \o Numbers(cli.early))) = Iota(written)

(* ...and behind the client's Finished. *)
HandleReady ==
  Ready(c2s \o cli.out, cli.shaking, srv) /\ (served # << >> => Past(srv))

WireInv == HandleType /\ HandleQueues /\ HandleQueued /\ HandleReady

(* A handle was given out only when the handshake was over. *)
HandleInv == WireInv /\ (handle \in {"open", "closed"} => ~cli.shaking)

(* net_tls_create and net_tls_write send all the client has: c is the      *)
(* client when write_tls is called.                                        *)
LEMMA SendsKeep ==
  ASSUME WireInv, NEW c, ClientOK(c, trusted), c.shaking = cli.shaking,
         c2s' = c2s \o c.out, cli' = Wrote(c, Len(c.out)),
         Ready(c2s \o c.out, c.shaking, srv), written' \in Nat,
         served \o (Numbers(c2s) \o (Numbers(c.out) \o Numbers(c.early))) = Iota(written'),
         UNCHANGED <<trusted, s2c, srv, served>>
  PROVE  WireInv' /\ cli'.shaking = cli.shaking
<1> DEFINE A == Record(AnyType)
           C == Record({"CH", "ALERT"})
           D == Record(SentType)
           L == Len(c.out)
           y == Wrote(c, L)
           q == c2s \o c.out
<1>1. /\ trusted \in BOOLEAN /\ c2s \in Seq(A) /\ c.out \in Seq(A) /\ c.early \in Seq(A)
      /\ L \in Nat /\ L \in 0 .. L
  BY ClientParts DEF WireInv, HandleType
<1>2. SubSeq(c.out, 1, L) = c.out /\ SubSeq(c.out, L + 1, L) = << >>
  BY <1>1, SubSeqFull, SubSeqEmpty
<1>3. /\ ClientOK(y, trusted) /\ y.shaking = c.shaking /\ y.early = c.early /\ y.out = << >>
      /\ c.shaking => c.out \in Seq(C)
      /\ c.out \in Seq(D)
  <2>1. trusted \in BOOLEAN /\ ClientOK(c, trusted) /\ L \in 0 .. Len(c.out)
    BY <1>1
  <2> HIDE DEF L
  <2>2. /\ ClientOK(y, trusted) /\ y.shaking = c.shaking /\ y.early = c.early
        /\ y.out = SubSeq(c.out, L + 1, Len(c.out))
    BY <2>1, WroteKeeps, Zenon
  <2>3. y.out = << >>
    BY <1>2, <2>2 DEF L
  <2>4. (c.shaking => c.out \in Seq(C)) /\ c.out \in Seq(D)
    BY <2>1, ClientParts
  <2> QED BY <2>2, <2>3, <2>4
<1> HIDE DEF y, L
<1>4. cli' = y
  BY DEF y, L
<1>5. q \in Seq(A) /\ Numbers(q) = Numbers(c2s) \o Numbers(c.out)
  BY <1>1, NumbersAny
<1>6. c.shaking => q \in Seq(C)
  BY <1>3, ConcatProperties DEF WireInv, HandleQueues
<1>7. q \in Seq(D)
  BY <1>3, ConcatProperties DEF WireInv, HandleQueues
<1>8. HandleType'
  BY <1>5 DEF WireInv, HandleType
<1>9. HandleQueues'
  BY <1>3, <1>4, <1>6, <1>7 DEF WireInv, HandleQueues
<1>10. HandleQueued'
  <2> DEFINE p1 == Numbers(c2s)
             p2 == Numbers(c.out)
             p3 == Numbers(c.early)
  <2>1. p1 \in Seq(Nat) /\ p2 \in Seq(Nat) /\ p3 \in Seq(Nat)
    BY <1>1, NumbersAny
  <2>2. Numbers(c2s') = p1 \o p2 /\ Numbers(cli'.early) = p3 /\ Numbers(cli'.out) = << >>
    BY <1>3, <1>4, <1>5, NumbersEmpty
  <2>3. served \o (p1 \o (p2 \o p3)) = Iota(written')
    OBVIOUS
  <2> HIDE DEF p1, p2, p3
  <2>4. << >> \o p3 = p3
    BY <2>1, NatSeqs
  <2>5. Cat(Cat(p1, p2), p3) = Cat(p1, Cat(p2, p3))
    BY <2>1, CatAssociative
  <2>6. served \o ((p1 \o p2) \o p3) = Iota(written')
    BY <2>3, <2>5 DEF Cat
  <2>7. served' = served
    OBVIOUS
  <2> QED BY <2>2, <2>4, <2>6, <2>7 DEF HandleQueued
<1>11. HandleReady'
  <2>1. q \o << >> = q
    BY <1>5, ConcatEmptySeq
  <2>2. c2s' \o cli'.out = q \o << >>
    BY <1>3, <1>4
  <2>3. Ready(q, c.shaking, srv) /\ cli'.shaking = c.shaking
    BY <1>3, <1>4
  <2> HIDE DEF q
  <2> QED BY <2>1, <2>2, <2>3 DEF WireInv, HandleReady
<1> QED
  BY <1>3, <1>4, <1>8, <1>9, <1>10, <1>11 DEF WireInv

LEMMA CreateSendKeeps == HandleInv /\ CreateSend => HandleInv'
<1> SUFFICES ASSUME HandleInv, CreateSend PROVE HandleInv'
  OBVIOUS
<1>1. /\ WireInv /\ ClientOK(cli, trusted) /\ c2s' = c2s \o cli.out
      /\ cli' = Wrote(cli, Len(cli.out)) /\ Ready(c2s \o cli.out, cli.shaking, srv)
      /\ written' = written /\ written \in Nat
      /\ UNCHANGED <<trusted, s2c, srv, served>> /\ handle = "creating" /\ handle' = handle
  BY DEF CreateSend, serverVars, HandleInv, WireInv, HandleType, HandleQueues,
                    HandleReady
<1>2. served \o (Numbers(c2s) \o (Numbers(cli.out) \o Numbers(cli.early))) = Iota(written')
  BY <1>1 DEF WireInv, HandleQueued
<1>3. WireInv'
  BY <1>1, <1>2, SendsKeep
<1> QED
  BY <1>1, <1>3 DEF HandleInv

LEMMA TlsWriteKeeps == HandleInv /\ TlsWrite => HandleInv'
<1> SUFFICES ASSUME HandleInv, TlsWrite PROVE HandleInv'
  OBVIOUS
<1> DEFINE k == written + 1
           a == App(k)
           c == Write(cli, a)
           p1 == served
           p2 == Numbers(c2s)
           p3 == Numbers(cli.out) \o Numbers(cli.early)
           A == Record(AnyType)
<1>1. /\ WireInv /\ ClientOK(cli, trusted) /\ trusted \in BOOLEAN /\ c2s' = c2s \o c.out
      /\ cli' = Wrote(c, Len(c.out)) /\ Ready(c2s \o cli.out, cli.shaking, srv)
      /\ written' = k /\ written \in Nat /\ served \in Seq(Nat) /\ c2s \in Seq(A)
      /\ UNCHANGED <<trusted, s2c, srv, served>> /\ handle' = handle /\ ~cli.shaking
  BY DEF TlsWrite, serverVars, HandleInv, WireInv, HandleType, HandleQueues,
                    HandleReady
<1>2. /\ ClientOK(c, trusted) /\ c.shaking = cli.shaking
      /\ Numbers(c.out) \o Numbers(c.early) = p3 \o <<k>>
  <2>1. k \in Nat
    BY <1>1
  <2> HIDE DEF k
  <2> QED BY <1>1, <2>1, WriteKeeps
<1>3. p1 \in Seq(Nat) /\ p2 \in Seq(Nat) /\ p3 \in Seq(Nat) /\ <<k>> \in Seq(Nat)
  <2>1. Numbers(cli.out) \in Seq(Nat) /\ Numbers(cli.early) \in Seq(Nat)
    BY <1>1, ClientParts, NumbersAny
  <2> QED BY <1>1, <2>1, NumbersAny, NatSeqs
<1>4. p1 \o (p2 \o p3) = Iota(written)
  BY <1>1 DEF WireInv, HandleQueued
<1>5. Iota(written) \o <<k>> = Iota(k)
  BY <1>1, IotaNext
<1>6. Ready(c2s \o c.out, c.shaking, srv)
  <2> DEFINE q == c2s \o cli.out
             o == cli.out
             f == <<a>>
  <2>1. a \in A /\ a.type = "APP"
    BY <1>1 DEF App, Record, AnyType
  <2>2. o \in Seq(A) /\ q \in Seq(A)
    BY <1>1, ClientParts, ConcatProperties
  <2>3. Ordered(q, srv) /\ (Past(srv) \/ HasFin(q))
    BY <1>1 DEF Ready
  <2>4. c.out = Append(o, a)
    <3>1. c = [cli EXCEPT !.out = Append(o, a)]
      BY <1>1 DEF Write
    <3> HIDE DEF c, a, o
    <3>2. cli \in Clients
      BY <1>1 DEF ClientOK
    <3> QED BY <3>1, <3>2 DEF Clients
  <2> HIDE DEF a, A, c
  <2>5. f \in Seq(A) /\ c.out = o \o f
    BY <2>1, <2>2, <2>4, AppendIsConcat
  <2>6. Append(q, a) = q \o f
    <3> HIDE DEF q
    <3> QED BY <2>1, <2>2, AppendIsConcat
  <2>7. c2s \in Seq(A)
    BY <1>1 DEF A
  <2>8. c2s \o c.out = Append(q, a)
    <3>1. q = c2s \o o
      OBVIOUS
    <3> HIDE DEF f, o, q
    <3>2. c2s \o (o \o f) = (c2s \o o) \o f
      BY SMTT(60), <2>2, <2>5, <2>7, ConcatAssociative
    <3> QED BY <2>5, <2>6, <3>1, <3>2, Zenon
  <2> HIDE DEF q
  <2>9. Ordered(Append(q, a), srv) /\ (HasFin(q) => HasFin(Append(q, a)))
    BY <2>1, <2>2, <2>3, OrderedOne
  <2>10. Ready(Append(q, a), c.shaking, srv)
    BY <2>3, <2>9 DEF Ready
  <2> QED BY <2>8, <2>10
<1> HIDE DEF p1, p2, p3, c
<1>7. p1 \o (p2 \o (p3 \o <<k>>)) = (p1 \o (p2 \o p3)) \o <<k>>
  <2> DEFINE p4 == <<k>>
  <2>1. p4 \in Seq(Nat)
    BY <1>3
  <2> HIDE DEF p4
  <2>2. Cat(p1, Cat(p2, Cat(p3, p4))) = Cat(Cat(p1, Cat(p2, p3)), p4)
    BY <1>3, <2>1, CatAssociative
  <2> QED BY <2>2 DEF p4, Cat
<1>8. served \o (Numbers(c2s) \o (Numbers(c.out) \o Numbers(c.early))) = Iota(written')
  BY <1>1, <1>2, <1>4, <1>5, <1>7 DEF p1, p2
<1>9. written' \in Nat
  BY <1>1
<1>10. WireInv' /\ cli'.shaking = cli.shaking
  BY <1>1, <1>2, <1>6, <1>8, <1>9, SendsKeep
<1> QED
  BY <1>1, <1>10 DEF HandleInv

(* The handshake loop and net_tls_read feed rustls what the stream has. *)
LEMMA ReceivesKeep ==
  ASSUME WireInv, NEW n \in 1 .. MaxReq + 1, NEW m \in 0 .. MaxReq + 1, Feed(n, m),
         UNCHANGED <<trusted, c2s, srv, served, written>>
  PROVE  WireInv' /\ (cli'.shaking => cli.shaking)
<1> DEFINE front == SubSeq(s2c, 1, n)
           rest  == SubSeq(s2c, n + 1, Len(s2c))
           c == ReadTls(cli, front, m, trusted)
           A == Record(AnyType)
<1>1. /\ trusted \in BOOLEAN /\ ClientOK(cli, trusted) /\ s2c \in Seq(A) /\ c2s \in Seq(A)
      /\ s2c \in Seq(Record({"SF", "APP"})) /\ (~trusted => s2c \in Seq(Record({"SF"})))
      /\ Ready(c2s \o cli.out, cli.shaking, srv)
      /\ n <= Len(s2c) /\ m <= n /\ cli' = c /\ s2c' = rest
  BY DEF Feed, WireInv, HandleType, HandleQueues, HandleReady
<1>2. n \in 0 .. Len(s2c)
  BY <1>1, TlsWireAssumption
<1>3. /\ front \in Seq(Record({"SF", "APP"})) /\ rest \in Seq(Record({"SF", "APP"}))
      /\ Len(front) = n
  BY <1>1, <1>2, Cut
<1>4. ~trusted => front \in Seq(Record({"SF"})) /\ rest \in Seq(Record({"SF"}))
  BY <1>1, <1>2, Cut
<1>5. rest \in Seq(A)
  BY <1>1, <1>2, Cut
<1>a. m \in 0 .. Len(front)
  BY <1>1, <1>2, <1>3
<1> HIDE DEF front, rest
<1>6. /\ ClientOK(c, trusted) /\ (c.shaking => cli.shaking)
      /\ Numbers(c.out) \o Numbers(c.early) = Numbers(cli.out) \o Numbers(cli.early)
  <2>1. trusted \in BOOLEAN /\ ClientOK(cli, trusted)
    BY <1>1
  <2>2. front \in Seq(Record({"SF", "APP"})) /\ (~trusted => front \in Seq(Record({"SF"})))
    BY <1>3, <1>4
  <2> DEFINE miss == Missed(cli, front, m)
  <2>3. /\ ClientOK(c, trusted) /\ (c.shaking => cli.shaking) /\ (cli.torn => c.torn)
        /\ Numbers(c.out) \o Numbers(c.early) = Numbers(cli.out) \o Numbers(cli.early)
        /\ miss \in Seq(A)
        /\ Numbers(c.plain) \o Numbers(miss) = Numbers(cli.plain) \o Numbers(front)
        /\ cli.torn => Numbers(c.plain) = Numbers(cli.plain) /\ Numbers(miss) = Numbers(front)
        /\ ~c.torn => Numbers(miss) = << >>
    BY ZenonT(60), <1>a, <2>1, <2>2, ReadTlsKeeps
  <2> QED BY <2>3
<1>7. Ready(c2s \o c.out, c.shaking, srv)
  <2>1. trusted \in BOOLEAN /\ ClientOK(cli, trusted) /\ c2s \in Seq(Record(AnyType))
    BY <1>1
  <2>2. front \in Seq(Record({"SF", "APP"})) /\ (~trusted => front \in Seq(Record({"SF"})))
    BY <1>3, <1>4
  <2>3. Ready(c2s \o cli.out, cli.shaking, srv)
    BY <1>1
  <2> QED BY ZenonT(60), <1>a, <2>1, <2>2, <2>3, ReadTlsReady
<1> HIDE DEF c
<1>8. cli' = c /\ s2c' = rest
  BY <1>1
<1>9. HandleType'
  BY <1>5, <1>8 DEF WireInv, HandleType
<1>10. HandleQueues'
  BY <1>3, <1>4, <1>6, <1>8 DEF WireInv, HandleQueues
<1>11. HandleQueued'
  BY <1>6, <1>8 DEF WireInv, HandleQueued
<1>12. HandleReady'
  BY <1>7, <1>8 DEF WireInv, HandleReady
<1> QED
  BY <1>6, <1>8, <1>9, <1>10, <1>11, <1>12 DEF WireInv

LEMMA CreateReceiveKeeps ==
  ASSUME HandleInv, NEW n \in 1 .. MaxReq + 1, NEW m \in 0 .. MaxReq + 1, CreateReceive(n, m)
  PROVE  HandleInv'
<1>1. /\ WireInv /\ Feed(n, m)
      /\ UNCHANGED <<trusted, c2s, srv, served, written>>
      /\ handle' = (IF cli'.failed THEN "null" ELSE IF cli'.shaking THEN "creating" ELSE "open")
  BY DEF CreateReceive, serverVars, HandleInv
<1>2. WireInv'
  BY <1>1, ReceivesKeep
<1> QED
  BY <1>1, <1>2 DEF HandleInv

LEMMA TlsReadMoreKeeps ==
  ASSUME HandleInv, NEW n \in 1 .. MaxReq + 1, NEW m \in 0 .. MaxReq + 1, TlsReadMore(n, m)
  PROVE  HandleInv'
<1>1. /\ WireInv /\ Feed(n, m)
      /\ UNCHANGED <<trusted, c2s, srv, served, written>> /\ handle' = handle
  BY DEF TlsReadMore, serverVars, HandleInv
<1>2. WireInv' /\ (cli'.shaking => cli.shaking)
  BY <1>1, ReceivesKeep
<1> QED
  BY <1>1, <1>2 DEF HandleInv

LEMMA TlsReadFullKeeps ==
  ASSUME HandleInv, NEW n \in 1 .. MaxReq + 1, TlsReadFull(n)
  PROVE  HandleInv'
<1> DEFINE rest == SubSeq(s2c, n + 1, Len(s2c))
<1>1. /\ trusted \in BOOLEAN /\ ClientOK(cli, trusted) /\ s2c' = rest /\ n <= Len(s2c)
      /\ cli' = [cli EXCEPT !.torn = TRUE] /\ s2c \in Seq(Record(AnyType))
      /\ s2c \in Seq(Record({"SF", "APP"})) /\ (~trusted => s2c \in Seq(Record({"SF"})))
      /\ UNCHANGED <<trusted, c2s, srv, served, written>> /\ handle' = handle
  BY DEF TlsReadFull, serverVars, HandleInv, WireInv, HandleType, HandleQueues
<1>2. n \in 0 .. Len(s2c)
  BY <1>1, TlsWireAssumption
<1>3. \A T : s2c \in Seq(Record(T)) => rest \in Seq(Record(T))
  BY <1>2, Cut
<1> HIDE DEF rest
<1>4. /\ ClientOK(cli', trusted) /\ cli'.shaking = cli.shaking
      /\ cli'.out = cli.out /\ cli'.early = cli.early
  BY <1>1, TornKeeps, Zenon
<1>5. HandleType'
  BY <1>1, <1>3 DEF HandleInv, WireInv, HandleType
<1>6. HandleQueues'
  <2>1. rest \in Seq(Record({"SF", "APP"})) /\ (~trusted => rest \in Seq(Record({"SF"})))
    BY <1>1, <1>3
  <2> QED BY <1>1, <1>4, <2>1 DEF HandleInv, WireInv, HandleQueues
<1>7. HandleQueued' /\ HandleReady'
  BY <1>1, <1>4 DEF HandleInv, WireInv, HandleQueued, HandleReady
<1> QED
  BY <1>1, <1>4, <1>5, <1>6, <1>7 DEF HandleInv, WireInv

LEMMA HandleServerKeeps == HandleInv /\ TlsServer => HandleInv'
<1> SUFFICES ASSUME HandleInv, TlsServer PROVE HandleInv'
  OBVIOUS
<1> DEFINE rec  == Head(c2s)
           step == ServerStep(srv, rec)
           send == step.send
           rest == Tail(c2s)
           A == Record(AnyType)
           n == Numbers(<<rec>>)
<1>1. /\ trusted \in BOOLEAN /\ ClientOK(cli, trusted) /\ c2s \in Seq(A) /\ c2s # << >>
      /\ s2c \in Seq(A) /\ s2c \in Seq(Record({"SF", "APP"}))
      /\ (~trusted => s2c \in Seq(Record({"SF"})))
      /\ c2s \in Seq(Record(SentType))
      /\ (cli.shaking => c2s \in Seq(Record({"CH", "ALERT"})) /\ served = << >>)
      /\ served \in Seq(Nat)
      /\ srv' = step.state /\ s2c' = s2c \o send /\ c2s' = rest
      /\ served' = (IF rec.type = "APP" THEN Append(served, rec.num) ELSE served)
      /\ UNCHANGED <<trusted, handle, cli, written>>
  BY DEF TlsServer, HandleInv, WireInv, HandleType, HandleQueues
<1>2. rec \in A /\ rest \in Seq(A) /\ c2s = <<rec>> \o rest
  BY <1>1, Front
<1>3. rec.type \in SentType /\ rest \in Seq(Record(SentType))
  BY <1>1, Front, RecordIs
<1>4. cli.shaking => rec.type \in {"CH", "ALERT"} /\ rest \in Seq(Record({"CH", "ALERT"}))
  BY <1>1, Front, RecordIs
<1>5. cli.shaking \in BOOLEAN /\ (~cli.shaking => trusted)
  BY <1>1, ClientParts
<1>a. /\ rec.type = "FIN" => Past(step.state)
      /\ rec.type = "ALERT" => Past(step.state)
      /\ rec.type = "APP" => step.state = srv
  BY DEF ServerStep, Past
<1> HIDE DEF rec, rest
<1>6. /\ send \in Seq(Record({"SF", "APP"})) /\ send \in Seq(A)
      /\ (~trusted => send \in Seq(Record({"SF"})))
  <2>1. /\ trusted \in BOOLEAN /\ rec \in Record(AnyType) /\ rec.type \in SentType
        /\ rec.type = "APP" => trusted
    BY <1>1, <1>2, <1>3, <1>4, <1>5
  <2> QED BY <2>1, ServerAdds
<1> HIDE DEF send, step
<1>7. n \in Seq(Nat) /\ <<rec>> \in Seq(A) /\ rec.num \in Nat
  <2>1. <<rec>> \in Seq(A)
    BY <1>2
  <2> QED BY <1>2, <2>1, RecordIs, NumbersAny
<1>8. served' = served \o n /\ served' \in Seq(Nat)
  <2>1. CASE rec.type = "APP"
    <3>1. n = <<rec.num>> /\ served' = Append(served, rec.num)
      BY <1>1, <2>1, NumbersOne
    <3>2. served \in Seq(Nat) /\ rec.num \in Nat
      BY <1>1, <1>7
    <3>3. Append(served, rec.num) = served \o <<rec.num>> /\ Append(served, rec.num) \in Seq(Nat)
      BY SMTT(60), <3>2, AppendIsConcat, AppendProperties
    <3> HIDE DEF n
    <3> QED BY <3>1, <3>3, Zenon
  <2>2. CASE rec.type # "APP"
    <3>1. n = << >> /\ served' = served
      BY <1>1, <2>2, NumbersOne
    <3> HIDE DEF n
    <3> QED BY <1>1, <3>1, NatSeqs
  <2> QED BY <2>1, <2>2
<1>9. cli.shaking => served' = << >>
  BY <1>1, <1>4
<1>10. s2c' \in Seq(A) /\ s2c' \in Seq(Record({"SF", "APP"}))
  <2>1. s2c \o send \in Seq(A) /\ s2c \o send \in Seq(Record({"SF", "APP"}))
    BY <1>1, <1>6, ConcatProperties
  <2> QED BY <1>1, <2>1
<1>11. ~trusted => s2c' \in Seq(Record({"SF"}))
  <2>1. ~trusted => s2c \o send \in Seq(Record({"SF"}))
    BY <1>1, <1>6, ConcatProperties
  <2> QED BY <1>1, <2>1
<1>12. HandleType'
  BY <1>1, <1>2, <1>8, <1>10 DEF HandleInv, WireInv, HandleType
<1>13. HandleQueues'
  BY <1>1, <1>3, <1>4, <1>6, <1>9, <1>10, <1>11 DEF HandleQueues
<1>14. HandleQueued'
  <2> DEFINE p2 == Numbers(rest)
             p3 == Numbers(cli.out) \o Numbers(cli.early)
  <2>1. Numbers(cli.out) \in Seq(Nat) /\ Numbers(cli.early) \in Seq(Nat)
    BY <1>1, ClientParts, NumbersAny
  <2>2. p2 \in Seq(Nat) /\ p3 \in Seq(Nat) /\ Numbers(c2s) = n \o p2
    BY <1>2, <1>7, <2>1, NumbersAny, NatSeqs
  <2>3. served \o ((n \o p2) \o p3) = Iota(written)
    BY <2>2 DEF HandleInv, WireInv, HandleQueued
  <2>4. Numbers(c2s') = p2 /\ Numbers(cli'.out) \o Numbers(cli'.early) = p3 /\ written' = written
    BY <1>1
  <2> HIDE DEF n, p2, p3
  <2>5. Cat(served, Cat(Cat(n, p2), p3)) = Cat(Cat(served, n), Cat(p2, p3))
    BY <1>1, <1>7, <2>2, CatAssociative
  <2>6. (served \o n) \o (p2 \o p3) = Iota(written)
    BY <2>3, <2>5 DEF Cat
  <2> QED BY <1>8, <2>4, <2>6 DEF HandleQueued
<1>15. HandleReady'
  <2> DEFINE o == cli.out
             q == c2s \o o
  <2>0. Ready(q, cli.shaking, srv) /\ (served # << >> => Past(srv))
    BY DEF HandleInv, WireInv, HandleReady
  <2>1. o \in Seq(A) /\ (cli.shaking => o \in Seq(Record({"CH", "ALERT"})))
    BY <1>1, ClientParts
  <2> HIDE DEF A
  <2>2. q \in Seq(A) /\ q # << >> /\ Head(q) = rec /\ Tail(q) = rest \o o
    <3> HIDE DEF o
    <3> DEFINE f == <<rec>>
               r == rest \o o
    <3>1. q = f \o r /\ f \in Seq(A) /\ r \in Seq(A)
      <4>1. f \in Seq(A) /\ rest \in Seq(A) /\ c2s = f \o rest
        BY <1>2
      <4> HIDE DEF f
      <4>2. (f \o rest) \o o = f \o (rest \o o) /\ rest \o o \in Seq(A)
        BY <2>1, <4>1, ConcatAssociative, ConcatProperties
      <4> QED BY <4>1, <4>2
    <3>2. f # << >> /\ Head(f) = rec /\ Tail(f) = << >>
      OBVIOUS
    <3> HIDE DEF f, r
    <3>3. Head(f \o r) = Head(f) /\ Tail(f \o r) = Tail(f) \o r /\ f \o r # << >> /\ f \o r \in Seq(A)
      BY <3>1, <3>2
    <3>4. << >> \o r = r
      BY <3>1, ConcatEmptySeq
    <3> HIDE DEF q
    <3> QED BY <3>1, <3>2, <3>3, <3>4 DEF r
  <2>3. c2s' \o cli'.out = Tail(q) /\ cli'.shaking = cli.shaking
    BY <1>1, <2>2
  <2> HIDE DEF q
  <2>4. /\ Past(srv) /\ Head(q).type # "CH" => Past(srv')
        /\ Head(q).type = "FIN" => Past(srv')
    BY <1>1, <1>3, <1>a, <2>2 DEF SentType
  <2>5. /\ Ordered(Tail(q), srv')
        /\ Past(srv) \/ HasFin(q) => Past(srv') \/ HasFin(Tail(q))
        /\ Head(q).type = "APP" => Past(srv)
        /\ Past(srv) => Head(q).type # "CH"
    <3>1. Ordered(q, srv)
      BY <2>0 DEF Ready
    <3>2. /\ Ordered(Tail(q), srv')
          /\ Past(srv) \/ HasFin(q) => Past(srv') \/ HasFin(Tail(q))
          /\ Head(q).type = "APP" => Past(srv)
      BY <2>2, <2>4, <3>1, OrderedTail
    <3>3. 1 \in 1 .. Len(q) /\ Head(q) = q[1]
      BY <2>2
    <3>4. Past(srv) => Head(q).type # "CH"
      BY <3>1, <3>3 DEF Ordered, Past
    <3> QED BY <3>2, <3>4
  <2>6. served' # << >> => Past(srv')
    <3>1. CASE rec.type = "APP"
      BY <1>1, <1>a, <2>2, <2>5, <3>1
    <3>2. CASE rec.type # "APP"
      BY <1>1, <2>0, <2>2, <2>4, <2>5, <3>2
    <3> QED BY <3>1, <3>2
  <2>7. Ready(Tail(q), cli.shaking, srv')
    BY <2>0, <2>5 DEF Ready
  <2> QED BY <2>3, <2>6, <2>7 DEF HandleReady
<1> QED
  BY <1>1, <1>12, <1>13, <1>14, <1>15 DEF HandleInv, WireInv

LEMMA HandleInitially == TlsInit => HandleInv
<1> SUFFICES ASSUME TlsInit PROVE HandleInv
  OBVIOUS
<1> DEFINE ch == Handshake("CH")
<1>1. ch \in Record({"CH", "ALERT"}) /\ ch \in Record(SentType)
      /\ ch \in Record(AnyType) /\ ch.type = "CH"
  BY DEF Handshake, Record, AnyType, SentType
<1>2. cli = [shaking |-> TRUE, out |-> <<ch>>, early |-> << >>, plain |-> << >>,
             torn |-> FALSE, failed |-> FALSE]
  BY DEF TlsInit, NewClient
<1>3. \A T : << >> \in Seq(Record(T))
  OBVIOUS
<1>4. /\ trusted \in BOOLEAN /\ c2s = << >> /\ s2c = << >> /\ srv = "hello" /\ served = << >>
      /\ written = 0 /\ handle = "none"
  BY TlsWireAssumption DEF TlsInit
<1> HIDE DEF ch
<1>5. /\ <<ch>> \in Seq(Record({"CH", "ALERT"})) /\ <<ch>> \in Seq(Record(SentType))
      /\ <<ch>> \in Seq(Record(AnyType))
  BY <1>1
<1>6. ClientOK(cli, trusted)
  BY <1>2, <1>3, <1>4, <1>5, ClientIs
<1>7. << >> \in Seq(Nat) /\ << >> \o << >> = << >>
  OBVIOUS
<1>8. cli.out = <<ch>> /\ cli.early = << >> /\ cli.shaking = TRUE
  BY <1>2
<1>9. HandleType
  BY <1>3, <1>4, <1>7 DEF HandleType
<1>10. HandleQueues
  BY <1>3, <1>4, <1>6 DEF HandleQueues
<1>11. HandleQueued
  <2>1. Numbers(cli.out) = << >>
    BY <1>1, <1>8, NumbersOne
  <2>2. Iota(0) = << >>
    <3>1. Iota(0) \in Seq(Nat) /\ Len(Iota(0)) = 0
      BY IotaIs
    <3> QED BY <3>1, EmptySeq
  <2> QED BY <1>4, <1>7, <1>8, <2>1, <2>2, NumbersEmpty DEF HandleQueued
<1>12. HandleReady
  <2> DEFINE q == <<ch>>
  <2>1. << >> \o q = q /\ Len(q) = 1 /\ q[1] = ch
    BY <1>5, ConcatEmptySeq
  <2> HIDE DEF q
  <2>2. Ordered(q, "hello")
    BY <1>1, <2>1 DEF Ordered
  <2>3. c2s \o cli.out = q
    BY <1>4, <1>8, <2>1 DEF q
  <2> QED BY <1>4, <1>8, <2>2, <2>3 DEF HandleReady, Ready
<1> QED
  BY <1>4, <1>9, <1>10, <1>11, <1>12 DEF HandleInv, WireInv

LEMMA HandleStep == HandleInv /\ [TlsNext]_(tlsVars) => HandleInv'
<1> SUFFICES ASSUME HandleInv, [TlsNext]_(tlsVars) PROVE HandleInv'
  OBVIOUS
<1>0. ASSUME UNCHANGED <<trusted, cli, c2s, s2c, srv, served, written>> PROVE WireInv'
  BY <1>0 DEF HandleInv, WireInv, HandleType, HandleQueues, HandleQueued, HandleReady
<1>1. CASE CreateBegin \/ CreateUnreachable \/ CreateEof
  BY <1>0, <1>1 DEF CreateBegin, CreateUnreachable, CreateEof, serverVars, HandleInv
<1>2. CASE CreateSend
  BY <1>2, CreateSendKeeps
<1>3. ASSUME NEW n \in 1 .. MaxReq + 1, NEW m \in 0 .. MaxReq + 1, CreateReceive(n, m)
      PROVE  HandleInv'
  BY <1>3, CreateReceiveKeeps
<1>4. CASE TlsWrite
  BY <1>4, TlsWriteKeeps
<1>5. CASE TlsReadBegin \/ TlsReadEof
  BY <1>0, <1>5 DEF TlsReadBegin, TlsReadEof, serverVars, HandleInv
<1>6. ASSUME NEW n \in 1 .. MaxReq + 1, NEW m \in 0 .. MaxReq + 1, TlsReadMore(n, m)
      PROVE  HandleInv'
  BY <1>6, TlsReadMoreKeeps
<1>11. ASSUME NEW n \in 1 .. MaxReq + 1, TlsReadFull(n) PROVE HandleInv'
  BY <1>11, TlsReadFullKeeps
<1>7. CASE TlsClose
  BY <1>0, <1>7 DEF TlsClose, serverVars, HandleInv
<1>8. CASE TlsServer
  BY <1>8, HandleServerKeeps
<1>9. CASE TlsServerClose
  BY <1>0, <1>9 DEF TlsServerClose, HandleInv
<1>10. CASE UNCHANGED tlsVars
  BY <1>0, <1>10 DEF tlsVars, HandleInv
<1> QED
  BY <1>1, <1>2, <1>3, <1>4, <1>5, <1>6, <1>7, <1>8, <1>9, <1>10, <1>11
     DEF TlsNext, CreateStep, ReadStep

LEMMA HandleAlways == TlsSpec => []HandleInv
BY HandleInitially, HandleStep, PTL DEF TlsSpec

(* net_tls_create gives a handle out only for a chain the root store       *)
(* verified and after the handshake, and net_tls_verify_result accepts no  *)
(* other, for any number of requests.                                      *)
THEOREM StandaloneHandleMeansVerified == TlsSpec => []HandleMeansVerified
<1>1. HandleInv => HandleMeansVerified
  <2> SUFFICES ASSUME HandleInv PROVE HandleMeansVerified
    OBVIOUS
  <2>1. ~cli.shaking => trusted
    <3>1. trusted \in BOOLEAN /\ ClientOK(cli, trusted)
      BY DEF HandleInv, WireInv, HandleType, HandleQueues
    <3> QED BY <3>1, ClientParts
  <2>2. handle \in {"open", "closed"} => ~cli.shaking
    BY DEF HandleInv
  <2> QED BY <2>1, <2>2 DEF HandleMeansVerified, VerifyResult, PeerCertificates
<1> QED
  BY <1>1, HandleAlways, PTL

(* The requests of net_tls_write reach the server in order, each once, and *)
(* never before the client's Finished, which net_tls_create leaves queued. *)
THEOREM StandaloneRequestsInOrder == TlsSpec => []TlsRequestsInOrder
<1>1. HandleInv => TlsRequestsInOrder
  <2> SUFFICES ASSUME HandleInv PROVE TlsRequestsInOrder
    OBVIOUS
  <2> DEFINE more == Numbers(c2s) \o (Numbers(cli.out) \o Numbers(cli.early))
             all == Iota(written)
  <2>1. /\ written \in Nat /\ served \in Seq(Nat) /\ trusted \in BOOLEAN /\ ClientOK(cli, trusted)
        /\ c2s \in Seq(Record(AnyType)) /\ (served # << >> => Past(srv))
        /\ served \o more = all
    BY DEF HandleInv, WireInv, HandleType, HandleQueues, HandleQueued, HandleReady
  <2>2. more \in Seq(Nat)
    <3>1. /\ Numbers(cli.out) \in Seq(Nat) /\ Numbers(cli.early) \in Seq(Nat)
          /\ Numbers(c2s) \in Seq(Nat)
      BY <2>1, ClientParts, NumbersAny
    <3>2. Numbers(cli.out) \o Numbers(cli.early) \in Seq(Nat)
      BY <3>1, NatSeqs
    <3> QED BY <3>1, <3>2, NatSeqs
  <2>3. all \in Seq(Nat) /\ Len(all) = written /\ \A i \in 1 .. written : all[i] = i
    BY <2>1, IotaIs
  <2> HIDE DEF more, all
  <2>4. /\ Len(served \o more) = Len(served) + Len(more)
        /\ \A i \in 1 .. Len(served) + Len(more) :
              (served \o more)[i] = IF i <= Len(served) THEN served[i] ELSE more[i - Len(served)]
    BY <2>1, <2>2, ConcatProperties
  <2>5. Len(served) \in Nat /\ Len(more) \in Nat
    BY <2>1, <2>2
  <2>6. written = Len(served) + Len(more) /\ \A i \in 1 .. Len(served) : all[i] = served[i]
    BY <2>1, <2>3, <2>4, <2>5
  <2> QED BY <2>1, <2>3, <2>5, <2>6 DEF TlsRequestsInOrder, Past
<1> QED
  BY <1>1, HandleAlways, PTL
=============================================================================
