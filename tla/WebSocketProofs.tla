--------------------------- MODULE WebSocketProofs --------------------------
(***************************************************************************)
(* What the WebSocket manager promises for any number of URLs, connections *)
(* and frames, any timeout and however the stream of frames is cut into    *)
(* reads: an entry by URL never goes stale, a connection that is closing   *)
(* is never taken back into use, and fragments are heard in order.         *)
(***************************************************************************)
EXTENDS WebSocket, SequenceTheorems, TLAPS

(* The types of the pool's own state. *)
PoolType ==
  /\ next_connection_id \in Nat \ {0}
  /\ connections \subseteq Ids
  /\ \A c \in connections : c < next_connection_id
  /\ url \in [Ids -> Urls \cup {"none"}]
  /\ state \in [Ids -> {"CONNECTING", "OPEN", "CLOSING"}]
  /\ url_to_connection \in [Urls -> Nat]

PoolInv == PoolType /\ UrlNamesNewest

(* A call that leaves the pool's maps alone keeps the invariant. *)
LEMMA PoolUntouched ==
  ASSUME PoolInv, UNCHANGED poolVars,
         state' \in [Ids -> {"CONNECTING", "OPEN", "CLOSING"}]
  PROVE  PoolInv'
BY DEF PoolInv, PoolType, UrlNamesNewest, poolVars, Ids

(* The initial pool is empty. *)
LEMMA PoolInit == Init => PoolInv
BY DEF Init, PoolInv, PoolType, UrlNamesNewest, Ids

(* Every call keeps the invariant.  A new connection is newer than all     *)
(* others; cleanup clears the entry of every URL it removes a connection   *)
(* of, so an entry that stays names a connection that stays.               *)
LEMMA PoolStep == PoolInv /\ [Next]_vars => PoolInv'
<1> SUFFICES ASSUME PoolInv, [Next]_vars PROVE PoolInv'
  OBVIOUS
<1> USE WebSocketAssumption
<1>1. ASSUME NEW u \in Urls, ConnectReuse(u) PROVE PoolInv'
  BY <1>1, PoolUntouched DEF ConnectReuse, PoolInv, PoolType
<1>2. ASSUME NEW u \in Urls, ConnectNew(u) PROVE PoolInv'
  <2> DEFINE c == next_connection_id
  <2>1. c \in Ids /\ c \in Nat /\ c # 0 /\ c \notin connections
    <3>1. c \in Ids
      BY <1>2 DEF ConnectNew
    <3>2. c \in Nat \ {0} /\ \A d \in connections : d < c
      BY DEF PoolInv, PoolType
    <3> HIDE DEF c
    <3> QED BY <3>1, <3>2
  <2>2. PoolType'
    <3>1. /\ next_connection_id' = c + 1 /\ connections' = connections \cup {c}
          /\ url' = [url EXCEPT ![c] = u]
          /\ state' = [state EXCEPT ![c] = "OPEN"]
          /\ url_to_connection' = [url_to_connection EXCEPT ![u] = c]
      BY <1>2 DEF ConnectNew
    <3>2. c \in Nat \ {0} /\ (\A d \in connections : d < c) /\ connections \subseteq Nat
      BY DEF PoolInv, PoolType, Ids
    <3>3. url' \in [Ids -> Urls \cup {"none"}] /\ url_to_connection' \in [Urls -> Nat]
      BY <2>1, <3>1 DEF PoolInv, PoolType
    <3>4. state' \in [Ids -> {"CONNECTING", "OPEN", "CLOSING"}]
      BY <2>1, <3>1 DEF PoolInv, PoolType
    <3>5. connections' \subseteq Ids
      BY <2>1, <3>1 DEF PoolInv, PoolType
    <3> HIDE DEF c
    <3>6. next_connection_id' \in Nat \ {0} /\ \A d \in connections' : d < next_connection_id'
      BY <3>1, <3>2
    <3> QED BY <3>3, <3>4, <3>5, <3>6 DEF PoolType
  <2>3. UrlNamesNewest'
    <3> SUFFICES ASSUME NEW v \in Urls, url_to_connection'[v] # 0
                 PROVE  /\ url_to_connection'[v] \in connections'
                        /\ url'[url_to_connection'[v]] = v
                        /\ \A d \in connections' :
                             url'[d] = v => d <= url_to_connection'[v]
      BY DEF UrlNamesNewest
    <3>1. CASE v = u
      BY <1>2, <2>1, <3>1 DEF ConnectNew, PoolInv, PoolType, Ids
    <3>2. CASE v # u
      BY <1>2, <2>1, <3>2 DEF ConnectNew, PoolInv, PoolType, UrlNamesNewest, Ids
    <3> QED BY <3>1, <3>2
  <2> QED BY <2>2, <2>3 DEF PoolInv
<1>3. ASSUME NEW c \in Ids, Host(c) PROVE PoolInv'
  BY <1>3, PoolUntouched
     DEF Host, Disconnect, AddEventListener, RemoveEventListener,
         PoolInv, PoolType
<1>4. ASSUME NEW c \in Ids, ProcessIncomingData(c) PROVE PoolInv'
  <2>1. UNCHANGED poolVars
    BY <1>4 DEF ProcessIncomingData, ProcessDataFrame, ProcessContinuationFrame,
                ProcessPingOrPong, ProcessCloseFrame, DecodeFails, InvalidOpcode,
                Take, Read
  <2>2. state' \in [Ids -> {"CONNECTING", "OPEN", "CLOSING"}]
    BY <1>4 DEF ProcessIncomingData, ProcessDataFrame, ProcessContinuationFrame,
                ProcessPingOrPong, ProcessCloseFrame, DecodeFails, InvalidOpcode,
                PoolInv, PoolType
  <2> QED BY <2>1, <2>2, PoolUntouched
<1>5. ASSUME NEW c \in Ids, Peer(c) PROVE PoolInv'
  BY <1>5, PoolUntouched
     DEF Peer, PeerBegins, PeerContinues, PeerControls, PeerSends, PoolInv, PoolType
<1>6. ASSUME Cleanup PROVE PoolInv'
  <2> DEFINE gone == {c \in connections : Inactive(c)}
  <2>1. /\ connections' = connections \ gone
        /\ url_to_connection' =
             [u \in Urls |-> IF \E c \in gone : url[c] = u THEN 0
                             ELSE url_to_connection[u]]
        /\ url' = [c \in Ids |-> IF c \in gone THEN "none" ELSE url[c]]
        /\ state' = [c \in Ids |-> IF c \in gone THEN "CONNECTING" ELSE state[c]]
        /\ next_connection_id' = next_connection_id
    BY <1>6 DEF Cleanup, Deinit
  <2> HIDE DEF gone
  <2>2. PoolType'
    BY <2>1 DEF PoolInv, PoolType
  <2>3. UrlNamesNewest'
    BY <2>1 DEF PoolInv, PoolType, UrlNamesNewest, Ids
  <2> QED BY <2>2, <2>3 DEF PoolInv
<1>7. CASE Tick
  BY <1>7, PoolUntouched DEF Tick, PoolInv, PoolType
<1>8. CASE UNCHANGED vars
  BY <1>8, PoolUntouched DEF vars, PoolInv, PoolType
<1> QED
  BY <1>1, <1>2, <1>3, <1>4, <1>5, <1>6, <1>7, <1>8 DEF Next

(* url_to_connection names pooled connections only, the newest of the URL. *)
THEOREM UrlEntriesAreCurrent == Spec => []UrlNamesNewest
<1>1. PoolInv => UrlNamesNewest
  BY DEF PoolInv
<1> QED
  BY <1>1, PoolInit, PoolStep, PTL DEF Spec

(* No call takes a closing connection back to open. *)
THEOREM ClosingNeverReopens == Spec => ClosingIsFinal
<1>1. PoolInv /\ [Next]_vars =>
        [\A c \in connections \cap connections' :
           state[c] = "CLOSING" => state'[c] = "CLOSING"]_vars
  <2> SUFFICES ASSUME PoolInv, Next,
                      NEW c \in connections \cap connections',
                      state[c] = "CLOSING"
               PROVE  state'[c] = "CLOSING"
    OBVIOUS
  <2> USE DEF PoolInv, PoolType, Ids
  <2>1. ASSUME NEW u \in Urls, ConnectReuse(u) PROVE state'[c] = "CLOSING"
    BY <2>1 DEF ConnectReuse, Reusable
  <2>7. ASSUME NEW u \in Urls, ConnectNew(u) PROVE state'[c] = "CLOSING"
    <3>1. c \in connections /\ c # next_connection_id
      OBVIOUS
    <3>2. state' = [state EXCEPT ![next_connection_id] = "OPEN"]
      BY <2>7 DEF ConnectNew
    <3> QED BY <3>1, <3>2
  <2>2. ASSUME NEW d \in Ids, Host(d) PROVE state'[c] = "CLOSING"
    BY <2>2 DEF Host, Disconnect, AddEventListener, RemoveEventListener
  <2>3. ASSUME NEW d \in Ids, ProcessIncomingData(d) PROVE state'[c] = "CLOSING"
    BY <2>3 DEF ProcessIncomingData, ProcessDataFrame, ProcessContinuationFrame,
                ProcessPingOrPong, ProcessCloseFrame, DecodeFails, InvalidOpcode
  <2>4. ASSUME NEW d \in Ids, Peer(d) PROVE state'[c] = "CLOSING"
    BY <2>4 DEF Peer, PeerBegins, PeerContinues, PeerControls, PeerSends
  <2>5. ASSUME Cleanup PROVE state'[c] = "CLOSING"
    BY <2>5 DEF Cleanup, Deinit
  <2>6. ASSUME Tick PROVE state'[c] = "CLOSING"
    BY <2>6 DEF Tick
  <2> QED
    BY <2>1, <2>2, <2>3, <2>4, <2>5, <2>6, <2>7 DEF Next
<1> QED
  BY <1>1, PoolInit, PoolStep, PTL DEF Spec, ClosingIsFinal

-----------------------------------------------------------------------------
(* Fragments.  The numbers of the frames grow along a connection's stream: *)
(* what was heard, then what is being assembled, then what is on the wire. *)

Fragment == [msg : Nat, no : Nat]
Frame == [op : {"TEXT", "CONTINUATION", "PING", "PONG", "CLOSE"}, fin : BOOLEAN,
          big : BOOLEAN, msg : Nat, no : Nat]

Sorted(s) ==
  \A i, j \in DOMAIN s :
    i < j /\ s[i].msg # 0 /\ s[j].msg # 0 => s[i].no < s[j].no
Before(s, t) ==
  \A i \in DOMAIN s, j \in DOMAIN t :
    s[i].msg # 0 /\ t[j].msg # 0 => s[i].no < t[j].no

(* What is in s is of the peer of c and was sent; junk takes a cut. *)
OwnFragment(c, e) ==
  IF e.msg = 0 THEN MaxCuts > 0
  ELSE e.msg \in DOMAIN msgs /\ msgs[e.msg] = c /\ e.no <= frames
OwnFragments(c, s) == \A i \in DOMAIN s : OwnFragment(c, s[i])
OwnFrames(c) ==
  \A i \in DOMAIN wire[c] :
    wire[c][i].msg # 0 \/ wire[c][i].op \in {"TEXT", "CONTINUATION"}
      => OwnFragment(c, wire[c][i]) /\ wire[c][i].msg # 0

MailType ==
  /\ msgs \in Seq(Ids) /\ frames \in Nat
  /\ wire \in [Ids -> Seq(Frame)] /\ cut \in [Ids -> 0 .. MaxCuts]
  /\ current \in [Ids -> Seq(Fragment)] /\ heard \in [Ids -> Seq(Fragment)]
  /\ talking \in [Ids -> Nat]

TalkOf(c) ==
  talking[c] # 0 => talking[c] \in DOMAIN msgs /\ msgs[talking[c]] = c
OwnOf(c) == OwnFragments(c, heard[c]) /\ OwnFragments(c, current[c]) /\ OwnFrames(c)
OrderOf(c) ==
  /\ Sorted(heard[c]) /\ Sorted(current[c]) /\ Sorted(wire[c])
  /\ Before(heard[c], current[c]) /\ Before(heard[c], wire[c])
  /\ Before(current[c], wire[c])

MailOf(c) == TalkOf(c) /\ OwnOf(c) /\ OrderOf(c)
MailInv == MailType /\ \A c \in Ids : MailOf(c)

LEMMA MailInit == Init => MailInv
BY WebSocketAssumption
   DEF Init, MailInv, MailType, MailOf, TalkOf, OwnOf, OrderOf, OwnFragments,
       OwnFrames, Sorted, Before

(* What SubSeq leaves of the wire when n frames are taken. *)
LEMMA Suffix ==
  ASSUME NEW S, NEW s \in Seq(S), NEW L, L = Len(s), NEW n \in 0 .. L, NEW t,
         t = SubSeq(s, n + 1, L)
  PROVE  /\ t \in Seq(S) /\ DOMAIN t = 1 .. L - n
         /\ \A i \in DOMAIN t : n + i \in DOMAIN s /\ t[i] = s[n + i]
<1>1. L \in Nat /\ DOMAIN s = 1 .. L /\ \A i \in 1 .. L : s[i] \in S
  BY ElementOfSeq
<1>2. n + 1 \in Int /\ L \in Int /\ \A i \in n + 1 .. L : s[i] \in S
  BY <1>1
<1>3. /\ t \in Seq(S) /\ Len(t) = (IF n + 1 <= L THEN L - (n + 1) + 1 ELSE 0)
      /\ \A i \in 1 .. L - (n + 1) + 1 : t[i] = s[(n + 1) + i - 1]
  BY <1>2, SubSeqProperties
<1>4. DOMAIN t = 1 .. Len(t)
  BY <1>3, LenProperties
<1>5. PICK k : k = Len(t)
  OBVIOUS
<1>6. k = IF n + 1 <= L THEN L - (n + 1) + 1 ELSE 0
  BY <1>3, <1>5
<1>7. L \in Nat /\ n \in 0 .. L
  BY <1>1
<1>8. k = L - n
  BY <1>6, <1>7
<1>9. ASSUME NEW i \in 1 .. L - n PROVE n + i \in DOMAIN s /\ t[i] = s[n + i]
  <2>1. i \in 1 .. L - (n + 1) + 1 /\ (n + 1) + i - 1 = n + i /\ n + i \in 1 .. L
    BY <1>7
  <2>2. t[i] = s[(n + 1) + i - 1]
    BY <1>3, <2>1
  <2> QED BY <1>1, <2>1, <2>2
<1> QED
  BY <1>3, <1>4, <1>5, <1>8, <1>9

(* A sequence with one more element at its end. *)
LEMMA Longer ==
  ASSUME NEW S, NEW s \in Seq(S), NEW e \in S
  PROVE  /\ Append(s, e) \in Seq(S)
         /\ \A i \in DOMAIN Append(s, e) :
              \/ i \in DOMAIN s /\ Append(s, e)[i] = s[i]
              \/ /\ Append(s, e)[i] = e /\ i = Len(s) + 1
                 /\ \A j \in DOMAIN Append(s, e) : j # i => j < i
OBVIOUS

LEMMA Joined ==
  ASSUME NEW S, NEW s \in Seq(S), NEW t \in Seq(S)
  PROVE  /\ s \o t \in Seq(S)
         /\ \A i \in DOMAIN (s \o t) :
              \/ i \in DOMAIN s /\ (s \o t)[i] = s[i]
              \/ i - Len(s) \in DOMAIN t /\ i > Len(s) /\ (s \o t)[i] = t[i - Len(s)]
OBVIOUS

LEMMA FragmentsNumbered ==
  ASSUME NEW s \in Seq(Fragment)
  PROVE  \A i \in DOMAIN s : s[i].msg \in Nat /\ s[i].no \in Nat
<1> SUFFICES ASSUME NEW i \in DOMAIN s PROVE s[i].msg \in Nat /\ s[i].no \in Nat
  OBVIOUS
<1>1. i \in 1 .. Len(s)
  BY LenProperties
<1>2. s[i] \in Fragment
  BY <1>1, ElementOfSeq
<1> QED
  BY <1>2 DEF Fragment

LEMMA FramesNumbered ==
  ASSUME NEW s \in Seq(Frame)
  PROVE  \A i \in DOMAIN s : s[i].msg \in Nat /\ s[i].no \in Nat
<1> SUFFICES ASSUME NEW i \in DOMAIN s PROVE s[i].msg \in Nat /\ s[i].no \in Nat
  OBVIOUS
<1>1. i \in 1 .. Len(s)
  BY LenProperties
<1>2. s[i] \in Frame
  BY <1>1, ElementOfSeq
<1> QED
  BY <1>2 DEF Frame

(* A connection whose stream and messages are left alone. *)
LEMMA MailOfOthers ==
  ASSUME MailType, NEW c \in Ids, MailOf(c),
         wire'[c] = wire[c], talking'[c] = talking[c],
         current'[c] = current[c], heard'[c] = heard[c],
         frames \in Nat, frames' \in Nat, frames <= frames',
         \A m \in DOMAIN msgs : m \in DOMAIN msgs' /\ msgs'[m] = msgs[m]
  PROVE  MailOf(c)'
<1>1. TalkOf(c)'
  BY DEF MailOf, TalkOf
<1>3. OwnFragments(c, heard[c])' /\ OwnFragments(c, current[c])' /\ OwnFrames(c)'
  <2>1. /\ \A i \in DOMAIN heard[c] : heard[c][i].no \in Nat
        /\ \A i \in DOMAIN current[c] : current[c][i].no \in Nat
        /\ \A i \in DOMAIN wire[c] : wire[c][i].no \in Nat
    <3>1. heard[c] \in Seq(Fragment) /\ current[c] \in Seq(Fragment) /\ wire[c] \in Seq(Frame)
      BY DEF MailType
    <3> QED BY <3>1, FragmentsNumbered, FramesNumbered
  <2>2. /\ \A i \in DOMAIN heard[c] : OwnFragment(c, heard[c][i])
        /\ \A i \in DOMAIN current[c] : OwnFragment(c, current[c][i])
        /\ OwnFrames(c)
    BY DEF MailOf, OwnOf, OwnFragments
  <2>3. /\ \A i \in DOMAIN heard[c] : OwnFragment(c, heard[c][i])'
        /\ \A i \in DOMAIN current[c] : OwnFragment(c, current[c][i])'
    <3>1. ASSUME NEW i \in DOMAIN heard[c] PROVE OwnFragment(c, heard[c][i])'
      <4>1. PICK e : e = heard[c][i]
        OBVIOUS
      <4>2. e.no \in Nat /\ OwnFragment(c, e) /\ e = heard'[c][i]
        BY <2>1, <2>2, <4>1
      <4> QED BY <4>2 DEF OwnFragment
    <3>2. ASSUME NEW i \in DOMAIN current[c] PROVE OwnFragment(c, current[c][i])'
      <4>1. PICK e : e = current[c][i]
        OBVIOUS
      <4>2. e.no \in Nat /\ OwnFragment(c, e) /\ e = current'[c][i]
        BY <2>1, <2>2, <4>1
      <4> QED BY <4>2 DEF OwnFragment
    <3> QED BY <3>1, <3>2
  <2>4. OwnFrames(c)'
    <3> SUFFICES ASSUME NEW i \in DOMAIN wire[c],
                        wire[c][i].msg # 0 \/ wire[c][i].op \in {"TEXT", "CONTINUATION"}
                 PROVE  OwnFragment(c, wire[c][i])' /\ wire[c][i].msg # 0
      BY DEF OwnFrames
    <3>1. PICK e : e = wire[c][i]
      OBVIOUS
    <3>2. e.no \in Nat /\ OwnFragment(c, e) /\ e.msg # 0 /\ e = wire'[c][i]
      BY <2>1, <2>2, <3>1 DEF OwnFrames
    <3> QED BY <3>1, <3>2 DEF OwnFragment
  <2> QED BY <2>3, <2>4 DEF OwnFragments
<1>4. OrderOf(c)'
  BY DEF MailOf, OrderOf
<1> QED
  BY <1>1, <1>3, <1>4 DEF MailOf, OwnOf

(* decode takes the first frame of the wire, or makes one up after a cut. *)
LEMMA TakeIs ==
  ASSUME MailType, NEW c \in Ids, NEW f, Take(c, f)
  PROVE  /\ \E n \in 0 .. Len(wire[c]) :
              /\ wire' = [wire EXCEPT ![c] = SubSeq(wire[c], n + 1, Len(wire[c]))]
              /\ \/ f \in Junk /\ MaxCuts > 0
                 \/ n > 0 /\ f = wire[c][1]
         /\ cut' \in [Ids -> 0 .. MaxCuts]
         /\ UNCHANGED peerVars
<1>1. PICK n \in 0 .. Len(wire[c]), within \in BOOLEAN :
        Read(c, n, within) /\ f \in Decoded(c, n)
  BY DEF Take
<1>2. cut[c] \in 0 .. MaxCuts /\ MaxCuts \in Nat
  BY WebSocketAssumption DEF MailType
<1>3. (f \in Junk /\ MaxCuts > 0) \/ (n > 0 /\ f = wire[c][1])
  BY <1>1, <1>2 DEF Decoded
<1>4. cut' \in [Ids -> 0 .. MaxCuts]
  BY <1>1, <1>2 DEF Read, MailType
<1> QED
  BY <1>1, <1>3, <1>4 DEF Read

(* What is left of the wire keeps its order, and stays behind what was      *)
(* before it.                                                              *)
LEMMA SuffixOrder ==
  ASSUME NEW w \in Seq(Frame), NEW n \in 0 .. Len(w), NEW t,
         t = SubSeq(w, n + 1, Len(w)), NEW s
  PROVE  /\ Sorted(w) => Sorted(t)
         /\ Before(s, w) => Before(s, t)
<1>1. PICK L : L = Len(w)
  OBVIOUS
<1>2. /\ DOMAIN t = 1 .. L - n
      /\ \A i \in DOMAIN t : n + i \in DOMAIN w /\ t[i] = w[n + i]
  BY <1>1, Suffix
<1>3. L \in Nat /\ n \in Nat
  BY <1>1, LenProperties
<1>4. ASSUME Sorted(w) PROVE Sorted(t)
  BY <1>2, <1>3, <1>4 DEF Sorted
<1>5. ASSUME Before(s, w) PROVE Before(s, t)
  BY <1>2, <1>5 DEF Before
<1> QED BY <1>4, <1>5

(* The fragment of the first frame of the wire, or one that nobody sent,    *)
(* goes behind the fragments being assembled.                              *)
LEMMA AppendOrder ==
  ASSUME NEW w \in Seq(Frame), NEW n \in 0 .. Len(w), NEW t,
         t = SubSeq(w, n + 1, Len(w)),
         NEW s \in Seq(Fragment), NEW g \in Fragment, NEW h \in Seq(Fragment),
         g.msg = 0 \/ (n > 0 /\ g.msg = w[1].msg /\ g.no = w[1].no),
         Sorted(s), Sorted(w), Before(s, w), Before(h, s), Before(h, w)
  PROVE  /\ Sorted(Append(s, g)) /\ Before(h, Append(s, g))
         /\ Before(Append(s, g), t)
<1>1. PICK L : L = Len(w)
  OBVIOUS
<1>2. PICK d : d = Append(s, g)
  OBVIOUS
<1>3. L \in Nat /\ n \in 0 .. L /\ DOMAIN w = 1 .. L
  BY <1>1, LenProperties
<1>4. /\ DOMAIN t = 1 .. L - n
      /\ \A i \in DOMAIN t : n + i \in DOMAIN w /\ t[i] = w[n + i]
  BY <1>1, Suffix
<1>5. \A i \in DOMAIN d :
        \/ i \in DOMAIN s /\ d[i] = s[i]
        \/ d[i] = g /\ \A j \in DOMAIN d : j # i => j < i
  BY <1>2, Longer
<1>6. /\ DOMAIN d \subseteq Nat /\ DOMAIN s \subseteq Nat
  <2>1. d \in Seq(Fragment)
    BY <1>2, Longer
  <2> QED BY <2>1, LenProperties
<1>7. g.msg = 0 \/ (n > 0 /\ 1 \in DOMAIN w /\ g.msg = w[1].msg /\ g.no = w[1].no)
  BY <1>3
<1>8. Sorted(d)
  <2> SUFFICES ASSUME NEW i \in DOMAIN d, NEW j \in DOMAIN d, i < j,
                      d[i].msg # 0, d[j].msg # 0
               PROVE  d[i].no < d[j].no
    BY DEF Sorted
  <2>1. i \in Nat /\ j \in Nat /\ ~(j < i) /\ i # j
    BY <1>6
  <2>2. i \in DOMAIN s /\ d[i] = s[i]
    BY <1>5, <2>1
  <2>3. CASE j \in DOMAIN s /\ d[j] = s[j]
    BY <2>2, <2>3 DEF Sorted
  <2>4. CASE d[j] = g
    BY <1>7, <2>2, <2>4 DEF Before
  <2> QED BY <1>5, <2>3, <2>4
<1>9. Before(h, d)
  <2> SUFFICES ASSUME NEW i \in DOMAIN h, NEW j \in DOMAIN d,
                      h[i].msg # 0, d[j].msg # 0
               PROVE  h[i].no < d[j].no
    BY DEF Before
  <2>1. CASE j \in DOMAIN s /\ d[j] = s[j]
    BY <2>1 DEF Before
  <2>2. CASE d[j] = g
    BY <1>7, <2>2 DEF Before
  <2> QED BY <1>5, <2>1, <2>2
<1>10. Before(d, t)
  <2> SUFFICES ASSUME NEW i \in DOMAIN d, NEW j \in DOMAIN t,
                      d[i].msg # 0, t[j].msg # 0
               PROVE  d[i].no < t[j].no
    BY DEF Before
  <2>1. n + j \in DOMAIN w /\ t[j] = w[n + j] /\ j \in 1 .. L - n
    BY <1>4
  <2>2. CASE i \in DOMAIN s /\ d[i] = s[i]
    BY <2>1, <2>2 DEF Before
  <2>3. CASE d[i] = g
    <3>1. n > 0 /\ 1 \in DOMAIN w /\ g.msg = w[1].msg /\ g.no = w[1].no
      BY <1>7, <2>3
    <3>2. 1 < n + j
      BY <1>3, <2>1, <3>1
    <3> QED BY <2>1, <2>3, <3>1, <3>2 DEF Sorted
  <2> QED BY <1>5, <2>2, <2>3
<1> QED BY <1>2, <1>8, <1>9, <1>10

(* A message goes behind the fragments heard before. *)
LEMMA JoinOrder ==
  ASSUME NEW h \in Seq(Fragment), NEW d \in Seq(Fragment), NEW t,
         Sorted(h), Sorted(d), Before(h, d), Before(h, t), Before(d, t)
  PROVE  Sorted(h \o d) /\ Before(h \o d, t)
<1>1. PICK k, x : k = Len(h) /\ x = h \o d
  OBVIOUS
<1>2. \A i \in DOMAIN x :
        \/ i \in DOMAIN h /\ x[i] = h[i]
        \/ i - k \in DOMAIN d /\ i > k /\ x[i] = d[i - k]
  BY <1>1, Joined
<1>3. k \in Nat /\ DOMAIN h = 1 .. k /\ DOMAIN x \subseteq Nat
  <2>1. x \in Seq(Fragment)
    BY <1>1, Joined
  <2> QED BY <1>1, <2>1, LenProperties
<1>4. Sorted(x)
  <2> SUFFICES ASSUME NEW i \in DOMAIN x, NEW j \in DOMAIN x, i < j,
                      x[i].msg # 0, x[j].msg # 0
               PROVE  x[i].no < x[j].no
    BY DEF Sorted
  <2>1. i \in Nat /\ j \in Nat
    BY <1>3
  <2>2. CASE j \in DOMAIN h /\ x[j] = h[j]
    <3>1. i \in DOMAIN h /\ x[i] = h[i]
      BY <1>2, <1>3, <2>1, <2>2
    <3> QED BY <2>2, <3>1 DEF Sorted
  <2>3. CASE j - k \in DOMAIN d /\ j > k /\ x[j] = d[j - k]
    <3>1. CASE i \in DOMAIN h /\ x[i] = h[i]
      BY <2>3, <3>1 DEF Before
    <3>2. CASE i - k \in DOMAIN d /\ i > k /\ x[i] = d[i - k]
      <4>1. i - k < j - k
        BY <1>3, <2>1
      <4> QED BY <2>3, <3>2, <4>1 DEF Sorted
    <3> QED BY <1>2, <3>1, <3>2
  <2> QED BY <1>2, <2>2, <2>3
<1>5. Before(x, t)
  BY <1>2 DEF Before
<1> QED BY <1>1, <1>4, <1>5

(* A fragment that a read of n frames may yield: of the first of them, or  *)
(* one that nobody sent.                                                   *)
FragmentOf(g, w, n) ==
  \/ g.msg = 0 /\ MaxCuts > 0
  \/ n > 0 /\ g.msg # 0 /\ g.msg = w[1].msg /\ g.no = w[1].no

(* The connection whose data is processed: the wire loses its front, and a *)
(* fragment g of it, if any, is kept with the others or heard with them.   *)
LEMMA MailOfReader ==
  ASSUME MailType, NEW c \in Ids, MailOf(c), UNCHANGED peerVars,
         NEW n \in 0 .. Len(wire[c]),
         wire'[c] = SubSeq(wire[c], n + 1, Len(wire[c])),
         NEW g \in Fragment,
         \/ current'[c] = current[c] /\ heard'[c] = heard[c]
         \/ /\ FragmentOf(g, wire[c], n)
            /\ \/ current'[c] = Append(current[c], g) /\ heard'[c] = heard[c]
               \/ current'[c] = << >> /\ heard'[c] = heard[c]
               \/ /\ current'[c] = << >>
                  /\ heard'[c] = heard[c] \o Append(current[c], g)
  PROVE  MailOf(c)'
<1> DEFINE w == wire[c]  t == wire'[c]  s == current[c]  h == heard[c]
           d == Append(s, g)
<1>1. w \in Seq(Frame) /\ s \in Seq(Fragment) /\ h \in Seq(Fragment)
  BY DEF MailType
<1>2. d \in Seq(Fragment)
  BY <1>1, Longer
<1>3. msgs' = msgs /\ frames' = frames /\ talking' = talking
  BY DEF peerVars
<1>4. TalkOf(c)'
  BY <1>3 DEF MailOf, TalkOf
<1>5. OwnFragments(c, h) /\ OwnFragments(c, s) /\ OwnFrames(c)
  BY DEF MailOf, OwnOf
<1>6. ASSUME FragmentOf(g, w, n) PROVE OwnFragment(c, g)
  <2>1. CASE g.msg = 0 /\ MaxCuts > 0
    BY <2>1 DEF OwnFragment
  <2>2. CASE n > 0 /\ g.msg # 0 /\ g.msg = w[1].msg /\ g.no = w[1].no
    <3>1. 1 \in DOMAIN w
      BY <1>1, <2>2, LenProperties
    <3>2. OwnFragment(c, w[1])
      BY <1>5, <2>2, <3>1 DEF OwnFrames
    <3> QED BY <2>2, <3>2 DEF OwnFragment
  <2> QED BY <1>6, <2>1, <2>2 DEF FragmentOf
<1>7. ASSUME FragmentOf(g, w, n) PROVE OwnFragments(c, d)
  BY <1>1, <1>5, <1>6, <1>7, Longer DEF OwnFragments
<1>8. ASSUME FragmentOf(g, w, n) PROVE OwnFragments(c, h \o d)
  <2>1. PICK x, k : x = h \o d /\ k = Len(h)
    OBVIOUS
  <2> HIDE DEF d, h
  <2>2. \A i \in DOMAIN x : (i \in DOMAIN h /\ x[i] = h[i])
                           \/ (i - k \in DOMAIN d /\ x[i] = d[i - k])
    BY <1>1, <1>2, <2>1, Joined
  <2>3. OwnFragments(c, x)
    BY <1>5, <1>7, <1>8, <2>2 DEF OwnFragments
  <2> QED BY <2>1, <2>3
<1>9. OwnFragments(c, << >>)
  BY DEF OwnFragments
<1>10. OwnFragments(c, heard[c])' /\ OwnFragments(c, current[c])'
  <2>1. OwnFragments(c, heard'[c]) /\ OwnFragments(c, current'[c])
    BY <1>5, <1>7, <1>8, <1>9
  <2> QED BY <1>3, <2>1 DEF OwnFragments, OwnFragment
<1>11. OwnFrames(c)'
  <2>1. \A i \in DOMAIN t : n + i \in DOMAIN w /\ t[i] = w[n + i]
    BY SMTT(60), <1>1, Suffix
  <2> QED BY <1>3, <1>5, <2>1 DEF OwnFrames, OwnFragment
<1>12. OrderOf(c)'
  <2>1. /\ Sorted(h) /\ Sorted(s) /\ Sorted(w)
        /\ Before(h, s) /\ Before(h, w) /\ Before(s, w)
    BY DEF MailOf, OrderOf
  <2>2. Sorted(t) /\ Before(h, t) /\ Before(s, t)
    BY <1>1, <2>1, SuffixOrder
  <2>3. ASSUME FragmentOf(g, w, n) PROVE Sorted(d) /\ Before(h, d) /\ Before(d, t)
    BY <1>1, <2>1, <2>3, AppendOrder DEF FragmentOf
  <2>4. ASSUME FragmentOf(g, w, n) PROVE Sorted(h \o d) /\ Before(h \o d, t)
    BY <1>1, <1>2, <2>1, <2>2, <2>3, <2>4, JoinOrder
  <2>5. \A q : Sorted(<< >>) /\ Before(<< >>, q) /\ Before(q, << >>)
    BY DEF Sorted, Before
  <2> HIDE DEF t, s, h, d
  <2>6. /\ Sorted(heard'[c]) /\ Sorted(current'[c])
        /\ Before(heard'[c], current'[c]) /\ Before(heard'[c], t)
        /\ Before(current'[c], t)
    BY <2>1, <2>2, <2>3, <2>4, <2>5 DEF s, h, d, w
  <2> QED BY <2>2, <2>6 DEF OrderOf, t, Sorted, Before
<1> QED
  BY <1>4, <1>10, <1>11, <1>12 DEF MailOf, OwnOf

(* Processing data keeps the invariant: which fragment each kind of frame  *)
(* contributes, if any.                                                    *)
LEMMA MailOfData ==
  ASSUME MailType, NEW c \in Ids, MailOf(c), ProcessIncomingData(c)
  PROVE  /\ MailOf(c)' /\ UNCHANGED peerVars
         /\ cut' \in [Ids -> 0 .. MaxCuts]
         /\ wire' \in [Ids -> Seq(Frame)]
         /\ current' \in [Ids -> Seq(Fragment)] /\ heard' \in [Ids -> Seq(Fragment)]
         /\ \A o \in Ids \ {c} : /\ wire'[o] = wire[o] /\ current'[o] = current[o]
                                 /\ heard'[o] = heard[o]
<1> DEFINE Goal ==
     /\ MailOf(c)' /\ UNCHANGED peerVars
     /\ cut' \in [Ids -> 0 .. MaxCuts]
     /\ wire' \in [Ids -> Seq(Frame)]
     /\ current' \in [Ids -> Seq(Fragment)] /\ heard' \in [Ids -> Seq(Fragment)]
     /\ \A o \in Ids \ {c} : /\ wire'[o] = wire[o] /\ current'[o] = current[o]
                             /\ heard'[o] = heard[o]
<1>1. /\ wire \in [Ids -> Seq(Frame)] /\ current \in [Ids -> Seq(Fragment)]
      /\ heard \in [Ids -> Seq(Fragment)]
  BY DEF MailType
<1>2. ASSUME NEW n \in 0 .. Len(wire[c]),
             wire' = [wire EXCEPT ![c] = SubSeq(wire[c], n + 1, Len(wire[c]))]
      PROVE  /\ wire' \in [Ids -> Seq(Frame)]
             /\ \A o \in Ids \ {c} : wire'[o] = wire[o]
             /\ wire'[c] = SubSeq(wire[c], n + 1, Len(wire[c]))
  <2>1. wire[c] \in Seq(Frame)
    BY <1>1
  <2>2. SubSeq(wire[c], n + 1, Len(wire[c])) \in Seq(Frame)
    BY <2>1, Suffix
  <2> QED BY <1>1, <1>2, <2>2
<1>3. ASSUME NEW n \in 0 .. Len(wire[c]),
             wire' = [wire EXCEPT ![c] = SubSeq(wire[c], n + 1, Len(wire[c]))],
             cut' \in [Ids -> 0 .. MaxCuts],
             UNCHANGED peerVars, current' = current, heard' = heard
      PROVE  Goal
  <2>1. [msg |-> 0, no |-> 0] \in Fragment
    BY DEF Fragment
  <2>2. MailOf(c)'
    BY <1>2, <1>3, <2>1, MailOfReader
  <2> QED BY <1>1, <1>2, <1>3, <2>2
<1>4. ASSUME NEW f, Take(c, f), f.op \in {"TEXT", "CONTINUATION"}, AppendFrame(c, f)
      PROVE  Goal
  <2>1. PICK n \in 0 .. Len(wire[c]) :
          /\ wire' = [wire EXCEPT ![c] = SubSeq(wire[c], n + 1, Len(wire[c]))]
          /\ (f \in Junk /\ MaxCuts > 0) \/ (n > 0 /\ f = wire[c][1])
    BY <1>4, TakeIs
  <2>2. cut' \in [Ids -> 0 .. MaxCuts] /\ UNCHANGED peerVars
    BY <1>4, TakeIs
  <2> DEFINE g == [msg |-> f.msg, no |-> f.no]
  <2>3. g \in Fragment /\ FragmentOf(g, wire[c], n)
    <3>1. CASE f \in Junk /\ MaxCuts > 0
      <4>1. f.msg = 0 /\ f.no = 0
        BY <3>1 DEF Junk
      <4> QED BY <3>1, <4>1 DEF Fragment, FragmentOf
    <3>2. CASE n > 0 /\ f = wire[c][1]
      <4>1. wire[c] \in Seq(Frame) /\ 1 \in DOMAIN wire[c]
        BY <1>1, <3>2, LenProperties
      <4>2. f.msg \in Nat /\ f.no \in Nat
        BY <3>2, <4>1, FramesNumbered
      <4>3. f.msg # 0
        BY <1>4, <3>2, <4>1 DEF MailOf, OwnOf, OwnFrames
      <4> QED BY <3>2, <4>2, <4>3 DEF Fragment, FragmentOf
    <3> QED BY <2>1, <3>1, <3>2
  <2> DEFINE d == Append(current[c], g)
  <2>4. \/ current' = [current EXCEPT ![c] = d] /\ heard' = heard
        \/ /\ current' = [current EXCEPT ![c] = << >>]
           /\ \/ heard' = [heard EXCEPT ![c] = heard[c]]
              \/ heard' = [heard EXCEPT ![c] = heard[c] \o d]
    BY <1>4 DEF AppendFrame, HandleCompletedMessage
  <2>5. current[c] \in Seq(Fragment) /\ heard[c] \in Seq(Fragment)
    BY <1>1
  <2>6. d \in Seq(Fragment)
    BY <2>3, <2>5, Longer
  <2>7. heard[c] \o d \in Seq(Fragment)
    BY <2>5, <2>6, Joined
  <2> HIDE DEF g
  <2>8. MailOf(c)'
    <3>1. wire'[c] = SubSeq(wire[c], n + 1, Len(wire[c]))
      BY <1>2, <2>1
    <3>2. \/ current'[c] = d /\ heard'[c] = heard[c]
          \/ current'[c] = << >> /\ heard'[c] = heard[c]
          \/ current'[c] = << >> /\ heard'[c] = heard[c] \o d
      <4> HIDE DEF d
      <4> QED BY <1>1, <2>4
    <3> QED BY <2>2, <2>3, <3>1, <3>2, MailOfReader
  <2>9. /\ current' \in [Ids -> Seq(Fragment)] /\ heard' \in [Ids -> Seq(Fragment)]
        /\ \A o \in Ids \ {c} : current'[o] = current[o] /\ heard'[o] = heard[o]
    <3> HIDE DEF d
    <3>1. << >> \in Seq(Fragment)
      OBVIOUS
    <3> QED BY <1>1, <2>4, <2>6, <2>7, <3>1
  <2> QED BY <1>2, <2>1, <2>2, <2>8, <2>9
<1>5. ASSUME NEW f, Take(c, f), UNCHANGED <<current, heard>> PROVE Goal
  BY <1>3, <1>5, TakeIs
<1>6. ASSUME NEW n \in 0 .. Len(wire[c]), NEW within \in BOOLEAN, Read(c, n, within),
             UNCHANGED mailVars
      PROVE  Goal
  <2>1. cut[c] \in 0 .. MaxCuts /\ MaxCuts \in Nat
    BY WebSocketAssumption DEF MailType
  <2>2. cut' \in [Ids -> 0 .. MaxCuts]
    BY <1>6, <2>1 DEF Read, MailType
  <2> QED BY <1>3, <1>6, <2>2 DEF Read, mailVars
<1> HIDE DEF Goal
<1>7. ASSUME NEW f, ProcessDataFrame(c, f) PROVE Goal
  BY <1>4, <1>5, <1>7 DEF ProcessDataFrame
<1>8. ASSUME NEW f, ProcessContinuationFrame(c, f) PROVE Goal
  BY <1>4, <1>5, <1>8 DEF ProcessContinuationFrame, mailVars
<1>9. ASSUME NEW f, ProcessPingOrPong(c, f) \/ ProcessCloseFrame(c, f) PROVE Goal
  BY <1>5, <1>9 DEF ProcessPingOrPong, ProcessCloseFrame, mailVars
<1>10. ASSUME DecodeFails(c) \/ InvalidOpcode(c) PROVE Goal
  BY <1>6, <1>10 DEF DecodeFails, InvalidOpcode, mailVars
<1>11. Goal
  BY <1>7, <1>8, <1>9, <1>10 DEF ProcessIncomingData
<1> QED
  BY <1>11 DEF Goal

(* The peer puts a frame on the wire: it is the newest of all.  A fragment *)
(* carries the message that the peer is in the middle of.                  *)
LEMMA MailOfSender ==
  ASSUME MailType, NEW c \in Ids, MailOf(c),
         NEW f \in Frame, f.no = frames + 1, frames' = frames + 1,
         f.msg # 0 \/ f.op \in {"TEXT", "CONTINUATION"}
           => f.msg # 0 /\ f.msg \in DOMAIN msgs' /\ msgs'[f.msg] = c,
         \A m \in DOMAIN msgs : m \in DOMAIN msgs' /\ msgs'[m] = msgs[m],
         wire'[c] = Append(wire[c], f), current' = current, heard' = heard,
         TalkOf(c)'
  PROVE  MailOf(c)'
<1>1. /\ heard[c] \in Seq(Fragment) /\ current[c] \in Seq(Fragment)
      /\ wire[c] \in Seq(Frame) /\ frames \in Nat
  BY DEF MailType
<1>2. /\ \A i \in DOMAIN heard[c] : heard[c][i].no \in Nat
      /\ \A i \in DOMAIN current[c] : current[c][i].no \in Nat
      /\ \A i \in DOMAIN wire[c] : wire[c][i].no \in Nat
  BY <1>1, FragmentsNumbered, FramesNumbered
<1>3. /\ \A i \in DOMAIN heard[c] : OwnFragment(c, heard[c][i])
      /\ \A i \in DOMAIN current[c] : OwnFragment(c, current[c][i])
      /\ OwnFrames(c)
  BY DEF MailOf, OwnOf, OwnFragments
<1>4. ASSUME NEW e, e.no \in Nat, OwnFragment(c, e)
      PROVE  /\ IF e.msg = 0 THEN MaxCuts > 0
                ELSE /\ e.msg \in DOMAIN msgs' /\ msgs'[e.msg] = c
                     /\ e.no <= frames'
             /\ e.msg # 0 => e.no < f.no
  BY <1>1, <1>4 DEF OwnFragment
<1>5. OwnFragments(c, heard[c])'
  BY <1>2, <1>3, <1>4 DEF OwnFragments, OwnFragment
<1>6. OwnFragments(c, current[c])'
  BY <1>2, <1>3, <1>4 DEF OwnFragments, OwnFragment
<1>7. \A i \in DOMAIN wire'[c] :
        \/ i \in DOMAIN wire[c] /\ wire'[c][i] = wire[c][i]
        \/ wire'[c][i] = f /\ \A j \in DOMAIN wire'[c] : j # i => j < i
  BY <1>1, Longer
<1>8. OwnFrames(c)'
  <2> SUFFICES ASSUME NEW i \in DOMAIN wire'[c],
                      wire'[c][i].msg # 0 \/ wire'[c][i].op \in {"TEXT", "CONTINUATION"}
               PROVE  /\ wire'[c][i].msg # 0
                      /\ wire'[c][i].msg \in DOMAIN msgs' /\ msgs'[wire'[c][i].msg] = c
                      /\ wire'[c][i].no <= frames'
    BY DEF OwnFrames, OwnFragment
  <2>1. CASE i \in DOMAIN wire[c] /\ wire'[c][i] = wire[c][i]
    <3>1. OwnFragment(c, wire[c][i]) /\ wire[c][i].msg # 0 /\ wire[c][i].no \in Nat
      BY <1>2, <1>3, <2>1 DEF OwnFrames
    <3> QED BY <1>4, <2>1, <3>1
  <2>2. CASE wire'[c][i] = f
    BY <1>1, <2>2
  <2> QED BY <1>7, <2>1, <2>2
<1>9. OrderOf(c)'
  <2>1. /\ Sorted(heard[c]) /\ Sorted(current[c]) /\ Sorted(wire[c])
        /\ Before(heard[c], current[c]) /\ Before(heard[c], wire[c])
        /\ Before(current[c], wire[c])
    BY DEF MailOf, OrderOf
  <2>2. Before(heard[c], wire'[c])
    BY <1>2, <1>3, <1>4, <1>7, <2>1 DEF Before
  <2>3. Before(current[c], wire'[c])
    BY <1>2, <1>3, <1>4, <1>7, <2>1 DEF Before
  <2>4. Sorted(wire'[c])
    <3> SUFFICES ASSUME NEW i \in DOMAIN wire'[c], NEW j \in DOMAIN wire'[c], i < j,
                        wire'[c][i].msg # 0, wire'[c][j].msg # 0
                 PROVE  wire'[c][i].no < wire'[c][j].no
      BY DEF Sorted
    <3>1. i \in Nat /\ j \in Nat /\ ~(j < i) /\ i # j
      <4>1. wire'[c] \in Seq(Frame)
        BY <1>1, Longer
      <4> QED BY <4>1, LenProperties
    <3>2. i \in DOMAIN wire[c] /\ wire'[c][i] = wire[c][i]
      BY <1>7, <3>1
    <3>3. CASE j \in DOMAIN wire[c] /\ wire'[c][j] = wire[c][j]
      BY <2>1, <3>2, <3>3 DEF Sorted
    <3>4. CASE wire'[c][j] = f
      <4>1. OwnFragment(c, wire[c][i]) /\ wire[c][i].no \in Nat
        BY <1>2, <1>3, <3>2 DEF OwnFrames
      <4> QED BY <1>4, <3>2, <3>4, <4>1
    <3> QED BY <1>7, <3>3, <3>4
  <2> QED BY <2>1, <2>2, <2>3, <2>4 DEF OrderOf, Sorted, Before
<1> QED
  BY <1>5, <1>6, <1>8, <1>9 DEF MailOf, OwnOf

(* Every step keeps the invariant. *)
LEMMA MailStep == MailInv /\ [Next]_vars => MailInv'
<1> SUFFICES ASSUME MailInv, [Next]_vars PROVE MailInv'
  OBVIOUS
<1> USE WebSocketAssumption
<1>1. MailType /\ (\A c \in Ids : MailOf(c)) /\ frames \in Nat /\ msgs \in Seq(Ids)
  BY DEF MailInv, MailType
<1>2. ASSUME UNCHANGED <<peerVars, wireVars, mailVars>> PROVE MailInv'
  <2>1. MailType'
    BY <1>1, <1>2 DEF MailType, peerVars, wireVars, mailVars
  <2>2. ASSUME NEW c \in Ids PROVE MailOf(c)'
    BY <1>1, <1>2, MailOfOthers DEF peerVars, wireVars, mailVars
  <2> QED BY <2>1, <2>2 DEF MailInv
<1>3. ASSUME NEW u \in Urls, ConnectReuse(u) \/ ConnectNew(u) PROVE MailInv'
  BY <1>2, <1>3 DEF ConnectReuse, ConnectNew
<1>4. ASSUME NEW c \in Ids, Host(c) PROVE MailInv'
  BY <1>2, <1>4 DEF Host, Disconnect, AddEventListener, RemoveEventListener
<1>5. ASSUME NEW c \in Ids, ProcessIncomingData(c) PROVE MailInv'
  <2>1. /\ MailOf(c)' /\ msgs' = msgs /\ frames' = frames /\ talking' = talking
        /\ cut' \in [Ids -> 0 .. MaxCuts]
        /\ wire' \in [Ids -> Seq(Frame)]
        /\ current' \in [Ids -> Seq(Fragment)] /\ heard' \in [Ids -> Seq(Fragment)]
        /\ \A o \in Ids \ {c} : /\ wire'[o] = wire[o] /\ current'[o] = current[o]
                                /\ heard'[o] = heard[o]
    BY <1>1, <1>5, MailOfData DEF peerVars
  <2>2. MailType'
    BY <1>1, <2>1 DEF MailType
  <2>3. ASSUME NEW o \in Ids \ {c} PROVE MailOf(o)'
    BY <1>1, <2>1, MailOfOthers
  <2> QED BY <2>1, <2>2, <2>3 DEF MailInv
<1>6. ASSUME NEW c \in Ids, Peer(c) PROVE MailInv'
  <2>1. ASSUME NEW f \in Frame, f.no = frames + 1, frames' = frames + 1,
               f.msg # 0 \/ f.op \in {"TEXT", "CONTINUATION"}
                 => f.msg # 0 /\ f.msg \in DOMAIN msgs' /\ msgs'[f.msg] = c,
               \A m \in DOMAIN msgs : m \in DOMAIN msgs' /\ msgs'[m] = msgs[m],
               wire' = [wire EXCEPT ![c] = Append(wire[c], f)],
               current' = current, heard' = heard, cut' = cut,
               msgs' \in Seq(Ids), talking' \in [Ids -> Nat],
               \A o \in Ids \ {c} : talking'[o] = talking[o],
               TalkOf(c)'
        PROVE  MailInv'
    <3>1. wire \in [Ids -> Seq(Frame)]
      BY <1>1 DEF MailType
    <3>2. Append(wire[c], f) \in Seq(Frame)
      BY <2>1, <3>1, Longer
    <3>3. /\ wire' \in [Ids -> Seq(Frame)] /\ wire'[c] = Append(wire[c], f)
          /\ \A o \in Ids \ {c} : wire'[o] = wire[o]
      BY <2>1, <3>1, <3>2
    <3>4. MailType'
      BY <1>1, <2>1, <3>3 DEF MailType
    <3>5. MailOf(c)'
      BY <1>1, <2>1, <3>3, MailOfSender
    <3>6. ASSUME NEW o \in Ids \ {c} PROVE MailOf(o)'
      BY <1>1, <2>1, <3>3, MailOfOthers
    <3> QED BY <3>4, <3>5, <3>6 DEF MailInv
  <2> DEFINE M == Len(msgs) + 1
  <2>2. talking \in [Ids -> Nat] /\ TalkOf(c)
    BY <1>1 DEF MailType, MailOf
  <2>3. ASSUME NEW fin \in BOOLEAN, NEW big \in BOOLEAN, PeerBegins(c, fin, big)
        PROVE  MailInv'
    <3> DEFINE f == [op |-> "TEXT", fin |-> fin, big |-> big, msg |-> M, no |-> frames + 1]
    <3>1. Append(msgs, c) \in Seq(Ids) /\ M \in Nat \ {0}
      BY <1>1
    <3>2. /\ M \in DOMAIN Append(msgs, c) /\ Append(msgs, c)[M] = c
          /\ \A m \in DOMAIN msgs : m \in DOMAIN Append(msgs, c) /\ Append(msgs, c)[m] = msgs[m]
      BY <1>1
    <3>3. /\ frames' = frames + 1 /\ msgs' = Append(msgs, c)
          /\ wire' = [wire EXCEPT ![c] = Append(wire[c], f)]
          /\ current' = current /\ heard' = heard /\ cut' = cut
          /\ talking' = [talking EXCEPT ![c] = IF fin THEN 0 ELSE M]
      BY <2>3 DEF PeerBegins, PeerSends, mailVars
    <3> HIDE DEF M
    <3>4. f \in Frame /\ f.no = frames + 1 /\ f.msg = M
      BY <1>1, <3>1 DEF Frame
    <3> HIDE DEF f
    <3>5. /\ talking' \in [Ids -> Nat] /\ talking'[c] \in {0, M}
          /\ \A o \in Ids \ {c} : talking'[o] = talking[o]
      BY <2>2, <3>1, <3>3
    <3>6. TalkOf(c)'
      BY <3>2, <3>3, <3>5 DEF TalkOf
    <3> QED BY <2>1, <3>1, <3>2, <3>3, <3>4, <3>5, <3>6
  <2>4. ASSUME NEW fin \in BOOLEAN, PeerContinues(c, fin) PROVE MailInv'
    <3> DEFINE f == [op |-> "CONTINUATION", fin |-> fin, big |-> FALSE,
                     msg |-> talking[c], no |-> frames + 1]
    <3>1. /\ frames' = frames + 1 /\ msgs' = msgs /\ talking[c] # 0
          /\ wire' = [wire EXCEPT ![c] = Append(wire[c], f)]
          /\ current' = current /\ heard' = heard /\ cut' = cut
          /\ talking' = [talking EXCEPT ![c] = IF fin THEN 0 ELSE talking[c]]
      BY <2>4 DEF PeerContinues, PeerSends, mailVars
    <3>2. f \in Frame /\ f.no = frames + 1 /\ f.msg = talking[c]
      BY <1>1, <2>2 DEF Frame
    <3> HIDE DEF f
    <3>3. /\ talking' \in [Ids -> Nat] /\ talking'[c] \in {0, talking[c]}
          /\ \A o \in Ids \ {c} : talking'[o] = talking[o]
      BY <2>2, <3>1
    <3>4. TalkOf(c)'
      BY <2>2, <3>1, <3>3 DEF TalkOf
    <3>5. talking[c] \in DOMAIN msgs /\ msgs[talking[c]] = c
      BY <2>2, <3>1 DEF TalkOf
    <3> QED BY <1>1, <2>1, <3>1, <3>2, <3>3, <3>4, <3>5
  <2>5. ASSUME NEW op \in {"PING", "PONG", "CLOSE"}, PeerControls(c, op) PROVE MailInv'
    <3> DEFINE f == [op |-> op, fin |-> TRUE, big |-> FALSE, msg |-> 0, no |-> frames + 1]
    <3>1. /\ frames' = frames + 1 /\ msgs' = msgs /\ talking' = talking
          /\ wire' = [wire EXCEPT ![c] = Append(wire[c], f)]
          /\ current' = current /\ heard' = heard /\ cut' = cut
      BY <2>5 DEF PeerControls, PeerSends, mailVars
    <3>2. f \in Frame /\ f.no = frames + 1 /\ f.msg = 0 /\ f.op = op
      BY <1>1 DEF Frame
    <3>3. f.op \notin {"TEXT", "CONTINUATION"}
      BY <3>2
    <3> HIDE DEF f
    <3>4. TalkOf(c)'
      BY <2>2, <3>1 DEF TalkOf
    <3> QED BY <1>1, <2>1, <2>2, <3>1, <3>2, <3>3, <3>4
  <2> QED BY <1>6, <2>3, <2>4, <2>5 DEF Peer
<1>7. ASSUME Cleanup PROVE MailInv'
  <2> DEFINE gone == {c \in connections : Inactive(c)}
  <2>1. /\ current' = [c \in Ids |-> IF c \in gone THEN << >> ELSE current[c]]
        /\ wire' = [c \in Ids |-> IF c \in gone THEN << >> ELSE wire[c]]
        /\ cut' = [c \in Ids |-> IF c \in gone THEN 0 ELSE cut[c]]
        /\ talking' = [c \in Ids |-> IF c \in gone THEN 0 ELSE talking[c]]
        /\ heard' = heard /\ frames' = frames /\ msgs' = msgs
    BY <1>7 DEF Cleanup, Deinit
  <2> HIDE DEF gone
  <2>2. MailType'
    BY <1>1, <2>1 DEF MailType
  <2>3. ASSUME NEW c \in Ids, c \notin gone PROVE MailOf(c)'
    BY <1>1, <2>1, <2>3, MailOfOthers
  <2>4. ASSUME NEW c \in Ids, c \in gone PROVE MailOf(c)'
    <3>1. current'[c] = << >> /\ wire'[c] = << >> /\ talking'[c] = 0
      BY <2>1, <2>4
    <3>2. OwnFragments(c, heard[c]) /\ Sorted(heard[c])
      BY <1>1 DEF MailOf, OwnOf, OrderOf
    <3> QED
      BY <2>1, <3>1, <3>2 DEF MailOf, TalkOf, OwnOf, OrderOf, OwnFragments, OwnFragment,
                              OwnFrames, Sorted, Before
  <2> QED BY <2>2, <2>3, <2>4 DEF MailInv
<1>8. CASE Tick
  BY <1>2, <1>8 DEF Tick
<1>9. CASE UNCHANGED vars
  BY <1>2, <1>9 DEF vars
<1> QED
  BY <1>3, <1>4, <1>5, <1>6, <1>7, <1>8, <1>9 DEF Next

(* However a stream is cut and whatever of it is dropped or refused, what a *)
(* listener hears of its peer is in order, without repetition, and of no    *)
(* other peer.                                                             *)
THEOREM FragmentsAreInOrder == Spec => []FragmentsInOrder
<1>1. MailInv => FragmentsInOrder
  BY DEF MailInv, MailOf, OwnOf, OrderOf, OwnFragments, OwnFragment, Sorted,
         FragmentsInOrder
<1> QED
  BY <1>1, MailInit, MailStep, PTL DEF Spec
=============================================================================
