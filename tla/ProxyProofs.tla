----------------------------- MODULE ProxyProofs ----------------------------
(***************************************************************************)
(* Proofs about the proxy code, for every script, pattern, rule string and *)
(* buffer: glob_match (GlobInv), the loop of evaluate_minimal (EvalInv)    *)
(* and the loop of znet_proxy_parse_first (HopInv).                        *)
(***************************************************************************)
EXTENDS Proxy, WellFoundedInduction, FiniteSetTheorems, SequenceTheorems, TLAPS

-----------------------------------------------------------------------------
(* Induction over the naturals, with a set in the place of a predicate. *)

LEMMA LeastNatural ==
  ASSUME NEW S \in SUBSET Nat, S # {}
  PROVE  \E n \in S : \A m \in S : n <= m
<1>1. \E x \in S : \A y \in S : <<y, x>> \notin OpToRel(<, Nat)
  BY NatLessThanWellFounded, WFMin
<1>2. PICK n \in S : \A y \in S : <<y, n>> \notin OpToRel(<, Nat)
  BY <1>1
<1>3. \A m \in S : ~(m < n)
  BY <1>2 DEF OpToRel
<1> QED
  BY <1>3

LEMMA SetInduction ==
  ASSUME NEW S, 0 \in S, \A n \in Nat : n \in S => n + 1 \in S
  PROVE  Nat \subseteq S
<1> SUFFICES ASSUME Nat \ S # {} PROVE FALSE
  OBVIOUS
<1>1. PICK n \in Nat \ S : \A m \in Nat \ S : n <= m
  BY LeastNatural
<1>2. n # 0 /\ n - 1 \in Nat
  OBVIOUS
<1>3. n - 1 \in S
  BY <1>1, <1>2
<1> QED
  BY <1>1, <1>2, <1>3

-----------------------------------------------------------------------------
(* Patterns.  The rest of a pattern from i on, by the rest behind it. *)
BeginsAt(pt, s, i, behind) ==
  IF i = Len(pt) THEN {Len(s)}
  ELSE IF pt[i + 1] = "*" THEN {j \in 0 .. Len(s) : \E k \in behind : j <= k}
  ELSE {j \in 0 .. Len(s) - 1 : pt[i + 1] \in {"?", s[j + 1]} /\ j + 1 \in behind}

(* Begins is the function its recursion describes. *)
LEMMA BeginsIs ==
  ASSUME NEW pt, NEW s, Len(pt) \in Nat
  PROVE  \A i \in 0 .. Len(pt) :
           Begins(pt, s)[i] = BeginsAt(pt, s, i, Begins(pt, s)[i + 1])
<1> DEFINE L == Len(pt)
           Is(g, n) == g = [i \in L - n .. L |-> BeginsAt(pt, s, i, g[i + 1])]
           S == {n \in Nat : n <= L => \E g : Is(g, n)}
<1>1. 0 \in S
  <2>1. Is([i \in L - 0 .. L |-> {Len(s)}], 0)
    BY DEF BeginsAt
  <2> QED BY <2>1
<1>2. ASSUME NEW n \in Nat, n \in S PROVE n + 1 \in S
  <2> SUFFICES ASSUME n + 1 <= L PROVE \E g : Is(g, n + 1)
    OBVIOUS
  <2>1. PICK g : Is(g, n)
    BY <1>2
  <2> DEFINE m == L - (n + 1)
             h == [i \in m .. L |-> IF i = m THEN BeginsAt(pt, s, m, g[m + 1]) ELSE g[i]]
  <2>2. ASSUME NEW i \in m .. L PROVE h[i] = BeginsAt(pt, s, i, h[i + 1])
    <3>1. CASE i = m
      <4>1. h[m + 1] = g[m + 1]
        OBVIOUS
      <4> QED BY <3>1, <4>1
    <3>2. CASE i # m /\ i # L
      <4>1. i \in L - n .. L /\ i + 1 \in m .. L /\ i + 1 # m
        BY <3>2
      <4>2. h[i] = g[i] /\ h[i + 1] = g[i + 1]
        BY <3>2, <4>1
      <4> QED BY <2>1, <4>1, <4>2
    <3>3. CASE i = L /\ i # m
      <4>1. i \in L - n .. L /\ h[i] = g[i]
        BY <3>3
      <4> QED BY <2>1, <3>3, <4>1 DEF BeginsAt
    <3> QED BY <3>1, <3>2, <3>3
  <2>3. Is(h, n + 1)
    BY <2>2
  <2> HIDE DEF h, Is
  <2> QED BY <2>3
<1>3. L \in S
  <2> HIDE DEF S
  <2> QED BY <1>1, <1>2, SetInduction
<1> DEFINE Whole(g) == g = [i \in 0 .. L |-> BeginsAt(pt, s, i, g[i + 1])]
           F == CHOOSE g : Whole(g)
<1>4. Whole(F)
  <2>1. PICK g : Is(g, L)
    BY <1>3
  <2>2. L - L = 0
    OBVIOUS
  <2>3. Whole(g)
    BY <2>1, <2>2
  <2> QED BY <2>3
<1>5. Begins(pt, s) = F
  BY DEF Begins, BeginsAt
<1> HIDE DEF F
<1> QED
  BY <1>4, <1>5

(* The cases of BeginsIs. *)
LEMMA BeginsCases ==
  ASSUME NEW pt, NEW s, Len(pt) \in Nat, Len(s) \in Nat
  PROVE  /\ Begins(pt, s)[Len(pt)] = {Len(s)}
         /\ \A i \in 0 .. Len(pt) - 1 : pt[i + 1] = "*" =>
              Begins(pt, s)[i] = {j \in 0 .. Len(s) : \E k \in Begins(pt, s)[i + 1] : j <= k}
         /\ \A i \in 0 .. Len(pt) - 1 : pt[i + 1] # "*" =>
              Begins(pt, s)[i] = {j \in 0 .. Len(s) - 1 :
                 pt[i + 1] \in {"?", s[j + 1]} /\ j + 1 \in Begins(pt, s)[i + 1]}
         /\ \A i \in 0 .. Len(pt) : Begins(pt, s)[i] \subseteq 0 .. Len(s)
<1> DEFINE B == Begins(pt, s)
<1>1. \A i \in 0 .. Len(pt) : B[i] = BeginsAt(pt, s, i, B[i + 1])
  BY BeginsIs
<1> HIDE DEF B
<1>2. B[Len(pt)] = {Len(s)}
  <2>1. B[Len(pt)] = BeginsAt(pt, s, Len(pt), B[Len(pt) + 1])
    BY <1>1
  <2> QED BY <2>1, Zenon DEF BeginsAt
<1>3. ASSUME NEW i \in 0 .. Len(pt) - 1
      PROVE  /\ pt[i + 1] = "*" => B[i] = {j \in 0 .. Len(s) : \E k \in B[i + 1] : j <= k}
             /\ pt[i + 1] # "*" =>
                  B[i] = {j \in 0 .. Len(s) - 1 :
                            pt[i + 1] \in {"?", s[j + 1]} /\ j + 1 \in B[i + 1]}
  <2>1. i \in 0 .. Len(pt) /\ i # Len(pt)
    OBVIOUS
  <2>2. B[i] = BeginsAt(pt, s, i, B[i + 1])
    BY <1>1, <2>1
  <2> DEFINE b == B[i + 1]
  <2> HIDE DEF b
  <2>3. /\ pt[i + 1] = "*" =>
             BeginsAt(pt, s, i, b) = {j \in 0 .. Len(s) : \E k \in b : j <= k}
        /\ pt[i + 1] # "*" =>
             BeginsAt(pt, s, i, b) = {j \in 0 .. Len(s) - 1 :
                                        pt[i + 1] \in {"?", s[j + 1]} /\ j + 1 \in b}
    BY <2>1, Zenon DEF BeginsAt
  <2> USE DEF b
  <2> QED BY <2>2, <2>3
<1>4. ASSUME NEW i \in 0 .. Len(pt) PROVE B[i] \subseteq 0 .. Len(s)
  <2>1. CASE i = Len(pt)
    BY <1>2, <2>1
  <2>2. CASE i # Len(pt)
    <3>1. i \in 0 .. Len(pt) - 1
      BY <2>2
    <3>2. CASE pt[i + 1] = "*"
      BY <1>3, <3>1, <3>2
    <3>3. CASE pt[i + 1] # "*"
      BY <1>3, <3>1, <3>3
    <3> QED BY <3>2, <3>3
  <2> QED BY <2>1, <2>2
<1> USE DEF B
<1> QED
  BY <1>2, <1>3, <1>4

(* A piece of the pattern without a star takes as many characters as it    *)
(* has.                                                                    *)
LEMMA PieceIsLiteral ==
  ASSUME NEW pt, NEW s, Len(pt) \in Nat, Len(s) \in Nat,
         NEW a \in Nat, NEW n \in Nat, a + n <= Len(pt),
         \A i \in a + 1 .. a + n : pt[i] # "*",
         NEW k \in Begins(pt, s)[a]
  PROVE  k + n \in Begins(pt, s)[a + n]
<1> DEFINE B == Begins(pt, s)
           S == {m \in Nat : m <= n => k + m \in B[a + m]}
<1>0. k \in Nat
  <2>1. a \in 0 .. Len(pt)
    OBVIOUS
  <2>2. Begins(pt, s)[a] \subseteq 0 .. Len(s)
    BY <2>1, BeginsCases
  <2> QED BY <2>2
<1>1. 0 \in S
  BY <1>0
<1>2. ASSUME NEW m \in Nat, m \in S PROVE m + 1 \in S
  <2> SUFFICES ASSUME m + 1 <= n PROVE k + (m + 1) \in B[a + (m + 1)]
    OBVIOUS
  <2>1. k + m \in B[a + m]
    BY <1>2
  <2>2. a + m \in 0 .. Len(pt) - 1 /\ pt[(a + m) + 1] # "*"
    OBVIOUS
  <2>3. (k + m) + 1 \in B[(a + m) + 1]
    <3> HIDE DEF S
    <3>1. B[a + m] = {j \in 0 .. Len(s) - 1 :
                        pt[(a + m) + 1] \in {"?", s[j + 1]} /\ j + 1 \in B[(a + m) + 1]}
      BY <2>2, BeginsCases
    <3> HIDE DEF B
    <3> QED BY <2>1, <3>1
  <2>4. (k + m) + 1 = k + (m + 1) /\ (a + m) + 1 = a + (m + 1)
    BY <1>0
  <2> QED BY <2>3, <2>4
<1>3. n \in S
  <2> HIDE DEF S
  <2> QED BY <1>1, <1>2, SetInduction
<1> QED
  BY <1>3

-----------------------------------------------------------------------------
(* The loop of glob_match.  Rest(i, j): pat from i on matches str from j   *)
(* on.                                                                     *)
Rest(i, j) == j \in Begins(pat, str)[i]

GlobType ==
  /\ {pat, str} \subseteq Seq(STRING)
  /\ p \in 0 .. Len(pat) /\ si \in 0 .. Len(str)
  /\ star \in [some : BOOLEAN, at : Nat] /\ match_pos \in Nat
  /\ verdict \in {"none", "running", "match", "fail"}

(* The pattern matches if what is left of it does, from here or with more  *)
(* given to the last star.                                                 *)
HereOrBacktrack ==
  Matches(pat, str) <=>
    \/ Rest(p, si)
    \/ star.some /\ \E k \in match_pos + 1 .. Len(str) : Rest(star.at + 1, k)

(* Between the last star and p are as many characters as between match_pos *)
(* and si, and no star.                                                    *)
SinceStar ==
  star.some =>
    /\ star.at + 1 <= p /\ match_pos <= si
    /\ p - (star.at + 1) = si - match_pos
    /\ \A i \in star.at + 2 .. p : pat[i] # "*"

GlobInv ==
  /\ GlobType
  /\ verdict = "running" /\ si < Len(str) => HereOrBacktrack /\ SinceStar
  /\ verdict = "running" /\ si = Len(str) => (Matches(pat, str) <=> Rest(p, si))
  /\ GlobExact

-----------------------------------------------------------------------------
(* If the last star can take more, what comes behind p can begin further   *)
(* on: the piece between the star and p takes as much as it did.           *)
LEMMA StarTakesMore ==
  ASSUME GlobType, SinceStar, star.some,
         NEW k \in match_pos + 1 .. Len(str), Rest(star.at + 1, k)
  PROVE  \E m \in Begins(pat, str)[p] : m \in 0 .. Len(str) /\ m > si
<1>1. /\ Len(pat) \in Nat /\ Len(str) \in Nat /\ star.at \in Nat /\ match_pos \in Nat
      /\ p \in 0 .. Len(pat) /\ si \in 0 .. Len(str)
  BY DEF GlobType
<1> DEFINE a == star.at + 1
           n == p - a
<1>2. /\ a <= p /\ match_pos <= si /\ n = si - match_pos
      /\ \A i \in a + 1 .. p : pat[i] # "*"
  <2>1. a + 1 = star.at + 2
    BY <1>1
  <2> QED BY <2>1 DEF SinceStar
<1>3. a \in Nat /\ n \in Nat /\ a + n = p /\ k \in Nat /\ k + n > si
  <2>1. a \in Nat /\ n \in Nat /\ a + n = p
    BY SMTT(60), <1>1, <1>2
  <2>2. k \in Nat /\ k > match_pos
    BY <1>1
  <2> HIDE DEF n, a
  <2> QED BY <1>1, <1>2, <2>1, <2>2
<1>4. k \in Begins(pat, str)[a]
  BY DEF Rest
<1> HIDE DEF a, n
<1>5. a + n <= Len(pat) /\ \A i \in a + 1 .. a + n : pat[i] # "*"
  BY <1>1, <1>2, <1>3
<1>6. k + n \in Begins(pat, str)[a + n]
  BY <1>1, <1>3, <1>4, <1>5, PieceIsLiteral
<1>7. k + n \in Begins(pat, str)[p]
  BY <1>3, <1>6
<1>8. Begins(pat, str)[p] \subseteq 0 .. Len(str)
  BY <1>1, BeginsCases
<1> QED
  BY <1>3, <1>7, <1>8

LEMMA CallKeeps ==
  ASSUME NEW pt \in Seq(STRING), NEW s \in Seq(STRING), Call(pt, s)
  PROVE  GlobInv'
<1>1. GlobType'
  BY DEF Call, GlobType, NoStar
<1>2. Matches(pat, str)' <=> Rest(p, si)'
  BY DEF Call, Matches, Rest
<1>3. ~star'.some /\ verdict' = "running"
  BY DEF Call, NoStar
<1> QED
  BY <1>1, <1>2, <1>3 DEF GlobInv, HereOrBacktrack, SinceStar, GlobExact

LEMMA StarKeeps ==
  ASSUME GlobInv, Star
  PROVE  GlobInv'
<1>0. Len(pat) \in Nat /\ Len(str) \in Nat
  BY DEF GlobInv, GlobType
<1> DEFINE B == Begins(pat, str)
<1>1. /\ verdict = "running" /\ si \in Nat /\ si < Len(str) /\ p \in Nat /\ p < Len(pat) /\ pat[p + 1] = "*"
      /\ pat' = pat /\ str' = str /\ si' = si /\ verdict' = verdict
      /\ p' = p + 1 /\ match_pos' = si /\ star' = [some |-> TRUE, at |-> p]
  BY <1>0 DEF GlobInv, GlobType, Star, InString, PatIs, args
<1>2. B[p] = {j \in 0 .. Len(str) : \E k \in B[p + 1] : j <= k}
  <2>1. p \in 0 .. Len(pat) - 1
    BY <1>0, <1>1
  <2> QED BY <1>0, <1>1, <2>1, BeginsCases
<1>3. B[p + 1] \subseteq 0 .. Len(str)
  <2>1. p + 1 \in 0 .. Len(pat)
    BY <1>0, <1>1
  <2> QED BY <1>0, <2>1, BeginsCases
<1>4. HereOrBacktrack /\ SinceStar
  BY <1>1 DEF GlobInv
<1>5. ASSUME star.some, NEW k \in match_pos + 1 .. Len(str), Rest(star.at + 1, k)
      PROVE  \E j \in B[p + 1] : si <= j
  <2>1. GlobType
    BY DEF GlobInv
  <2>2. PICK m \in B[p] : m \in 0 .. Len(str) /\ m > si
    BY <1>4, <1>5, <2>1, StarTakesMore
  <2>3. PICK j \in B[p + 1] : m <= j
    BY <1>2, <2>2
  <2>4. j \in Nat
    BY <1>0, <1>3
  <2> HIDE DEF B
  <2>5. si <= j
    BY <1>1, <2>2, <2>3, <2>4
  <2> QED BY <2>5
<1>6. Rest(p, si) <=> \E j \in B[p + 1] : si <= j
  BY <1>0, <1>1, <1>2 DEF Rest
<1>7. Matches(pat, str) <=> \E j \in B[p + 1] : si <= j
  BY <1>4, <1>5, <1>6 DEF HereOrBacktrack
<1>8. (\E j \in B[p + 1] : si <= j) <=> si \in B[p + 1] \/ \E k \in si + 1 .. Len(str) : k \in B[p + 1]
  BY <1>0, <1>1, <1>3
<1>9. HereOrBacktrack'
  <2>1. Matches(pat, str)' = Matches(pat, str)
    BY <1>1 DEF Matches
  <2>2. \A i, j : Rest(i, j)' <=> j \in B[i]
    BY <1>1 DEF Rest
  <2>3. star'.some /\ star'.at = p
    BY <1>1
  <2> QED BY <1>1, <1>7, <1>8, <2>1, <2>2, <2>3 DEF HereOrBacktrack
<1>10. SinceStar'
  BY <1>0, <1>1 DEF SinceStar
<1>11. GlobType'
  BY <1>0, <1>1 DEF GlobInv, GlobType
<1> QED
  BY <1>0, <1>1, <1>9, <1>10, <1>11 DEF GlobInv, GlobExact

(* A literal or a ? takes a character. *)
LEMMA AdvanceKeeps ==
  ASSUME GlobInv, Advance
  PROVE  GlobInv'
<1>0. Len(pat) \in Nat /\ Len(str) \in Nat
  BY DEF GlobInv, GlobType
<1>1. /\ verdict = "running" /\ si \in Nat /\ si < Len(str) /\ p \in Nat /\ p < Len(pat)
      /\ pat[p + 1] # "*" /\ pat[p + 1] \in {"?", str[si + 1]}
      /\ pat' = pat /\ str' = str /\ si' = si + 1 /\ verdict' = verdict
      /\ p' = p + 1 /\ match_pos' = match_pos /\ star' = star
  BY <1>0 DEF GlobInv, GlobType, Advance, InString, PatIs, PatFits, args
<1>2. Rest(p, si) <=> Rest(p + 1, si + 1)
  <2> DEFINE B == Begins(pat, str)
  <2>1. p \in 0 .. Len(pat) - 1 /\ si \in 0 .. Len(str) - 1
    BY <1>0, <1>1
  <2>2. B[p] = {j \in 0 .. Len(str) - 1 :
                  pat[p + 1] \in {"?", str[j + 1]} /\ j + 1 \in B[p + 1]}
    BY <1>0, <1>1, <2>1, BeginsCases
  <2>3. Rest(p, si) <=> si \in B[p]
    BY DEF Rest
  <2>4. Rest(p + 1, si + 1) <=> si + 1 \in B[p + 1]
    BY DEF Rest
  <2> HIDE DEF B
  <2> QED BY <1>1, <2>1, <2>2, <2>3, <2>4
<1>3. \A i, j : Rest(i, j)' <=> Rest(i, j)
  BY <1>1 DEF Rest
<1>4. Matches(pat, str)' <=> Matches(pat, str)
  BY <1>1 DEF Matches
<1>5. HereOrBacktrack /\ SinceStar
  BY <1>1 DEF GlobInv
<1>6. HereOrBacktrack'
  BY <1>1, <1>2, <1>3, <1>4, <1>5 DEF HereOrBacktrack
<1>7. GlobType'
  BY <1>0, <1>1 DEF GlobInv, GlobType
<1>8. SinceStar'
  <2>1. match_pos \in Nat /\ star.at \in Nat
    BY DEF GlobInv, GlobType
  <2> QED BY <1>0, <1>1, <1>5, <2>1 DEF SinceStar
<1>9. si' = Len(str') => (Matches(pat, str)' <=> Rest(p, si)')
  <2> SUFFICES ASSUME si + 1 = Len(str), star.some,
                      NEW k \in match_pos + 1 .. Len(str), Rest(star.at + 1, k)
               PROVE  FALSE
    BY <1>1, <1>3, <1>6 DEF HereOrBacktrack
  <2>1. PICK m \in Begins(pat, str)[p] : m \in 0 .. Len(str) /\ m > si
    BY <1>5, StarTakesMore DEF GlobInv
  <2>2. p \in 0 .. Len(pat) - 1
    BY <1>0, <1>1
  <2>3. Begins(pat, str)[p] = {j \in 0 .. Len(str) - 1 :
          pat[p + 1] \in {"?", str[j + 1]} /\ j + 1 \in Begins(pat, str)[p + 1]}
    BY SMTT(60), <1>0, <1>1, <2>2, BeginsCases
  <2>4. m \in 0 .. Len(str) - 1
    BY <2>1, <2>3
  <2> QED BY <1>0, <1>1, <2>1, <2>4
<1> QED
  BY <1>0, <1>1, <1>6, <1>7, <1>8, <1>9 DEF GlobInv, GlobExact

(* Nothing fits here. *)
LEMMA NothingFits ==
  ASSUME GlobType, si < Len(str), ~PatIs("*"), ~PatFits
  PROVE  ~Rest(p, si)
<1>1. /\ Len(pat) \in Nat /\ Len(str) \in Nat
      /\ p \in 0 .. Len(pat) /\ si \in 0 .. Len(str) - 1
  BY DEF GlobType
<1>2. CASE p = Len(pat)
  <2>1. Begins(pat, str)[p] = {Len(str)}
    BY <1>1, <1>2, BeginsCases
  <2> QED BY <1>1, <2>1 DEF Rest
<1>3. CASE p < Len(pat)
  <2>1. p \in 0 .. Len(pat) - 1 /\ pat[p + 1] # "*" /\ pat[p + 1] \notin {"?", str[si + 1]}
    BY <1>1, <1>3 DEF PatIs, PatFits
  <2>2. Begins(pat, str)[p] = {j \in 0 .. Len(str) - 1 :
          pat[p + 1] \in {"?", str[j + 1]} /\ j + 1 \in Begins(pat, str)[p + 1]}
    BY <1>1, <2>1, BeginsCases
  <2> QED BY <2>1, <2>2 DEF Rest
<1> QED
  BY <1>1, <1>2, <1>3

LEMMA BacktrackKeeps ==
  ASSUME GlobInv, Backtrack
  PROVE  GlobInv'
<1>0. Len(pat) \in Nat /\ Len(str) \in Nat
  BY DEF GlobInv, GlobType
<1>1. /\ verdict = "running" /\ si \in Nat /\ si < Len(str) /\ p \in Nat /\ p <= Len(pat)
      /\ match_pos \in Nat /\ star.at \in Nat /\ star.some
      /\ pat' = pat /\ str' = str /\ si' = match_pos + 1 /\ verdict' = verdict
      /\ p' = star.at + 1 /\ match_pos' = match_pos + 1 /\ star' = star
  BY <1>0 DEF GlobInv, GlobType, Backtrack, InString, args
<1>2. HereOrBacktrack /\ SinceStar
  BY <1>1 DEF GlobInv
<1>3. star.at + 1 <= p /\ match_pos <= si
  BY <1>1, <1>2 DEF SinceStar
<1>4. ~Rest(p, si)
  BY <1>1, NothingFits DEF GlobInv, Backtrack
<1>5. Matches(pat, str) <=> \E k \in match_pos + 1 .. Len(str) : Rest(star.at + 1, k)
  BY <1>1, <1>2, <1>4 DEF HereOrBacktrack
<1>6. match_pos + 1 \in match_pos + 1 .. Len(str)
  BY <1>0, <1>1, <1>3
<1>7. ASSUME NEW k
      PROVE  k \in match_pos + 1 .. Len(str)
               <=> k = match_pos + 1 \/ k \in match_pos + 2 .. Len(str)
  BY <1>0, <1>1, <1>6
<1>8. \A i, j : Rest(i, j)' <=> Rest(i, j)
  BY <1>1 DEF Rest
<1>9. Matches(pat, str)' <=> Matches(pat, str)
  BY <1>1 DEF Matches
<1>10. HereOrBacktrack'
  <2>1. match_pos' + 1 = match_pos + 2
    BY <1>1
  <2> QED BY <1>1, <1>5, <1>7, <1>8, <1>9, <2>1 DEF HereOrBacktrack
<1>11. GlobType'
  BY <1>0, <1>1, <1>3 DEF GlobInv, GlobType
<1>12. SinceStar'
  BY <1>1 DEF SinceStar
<1>13. si' = Len(str') => (Matches(pat, str)' <=> Rest(p, si)')
  <2>1. si' = Len(str') => match_pos' + 1 .. Len(str') = {}
    BY <1>0, <1>1
  <2> QED BY <1>10, <2>1 DEF HereOrBacktrack
<1> QED
  BY <1>1, <1>10, <1>11, <1>12, <1>13 DEF GlobInv, GlobExact

LEMMA MismatchKeeps ==
  ASSUME GlobInv, Mismatch
  PROVE  GlobInv'
<1>1. /\ verdict = "running" /\ si < Len(str) /\ ~star.some
      /\ pat' = pat /\ str' = str /\ verdict' = "fail"
      /\ p' = p /\ si' = si /\ match_pos' = match_pos /\ star' = star
  BY DEF Mismatch, InString, args, locals
<1>2. ~Rest(p, si)
  BY <1>1, NothingFits DEF GlobInv, Mismatch
<1>3. ~Matches(pat, str)
  BY <1>1, <1>2 DEF GlobInv, HereOrBacktrack
<1>4. Matches(pat, str)' <=> Matches(pat, str)
  BY <1>1 DEF Matches
<1>5. GlobType'
  BY <1>1 DEF GlobInv, GlobType
<1>6. Matches(pat, str)' \in BOOLEAN
  BY DEF Matches
<1> QED
  BY <1>1, <1>3, <1>4, <1>5, <1>6 DEF GlobInv, GlobExact

LEMMA TrailingStarKeeps ==
  ASSUME GlobInv, TrailingStar
  PROVE  GlobInv'
<1>0. Len(pat) \in Nat /\ Len(str) \in Nat
  BY DEF GlobInv, GlobType
<1>1. /\ verdict = "running" /\ si = Len(str) /\ p \in Nat /\ p < Len(pat) /\ pat[p + 1] = "*"
      /\ pat' = pat /\ str' = str /\ si' = si /\ verdict' = verdict
      /\ p' = p + 1 /\ match_pos' = match_pos /\ star' = star
  BY <1>0 DEF GlobInv, GlobType, TrailingStar, PatIs, args
<1>2. Rest(p, si) <=> Rest(p + 1, si)
  <2> DEFINE B == Begins(pat, str)
  <2>1. p \in 0 .. Len(pat) - 1 /\ p + 1 \in 0 .. Len(pat)
    BY <1>0, <1>1
  <2>2. B[p] = {j \in 0 .. Len(str) : \E k \in B[p + 1] : j <= k}
    BY <1>0, <1>1, <2>1, BeginsCases
  <2>3. B[p + 1] \subseteq 0 .. Len(str)
    BY <1>0, <2>1, BeginsCases
  <2>4. (Rest(p, si) <=> si \in B[p]) /\ (Rest(p + 1, si) <=> si \in B[p + 1])
    BY DEF Rest
  <2> HIDE DEF B
  <2> QED BY <1>0, <1>1, <2>2, <2>3, <2>4
<1>3. Rest(p, si)' <=> Rest(p + 1, si)
  BY <1>1 DEF Rest
<1>4. Matches(pat, str)' <=> Matches(pat, str)
  BY <1>1 DEF Matches
<1>5. GlobType'
  BY <1>0, <1>1 DEF GlobInv, GlobType
<1> QED
  BY <1>0, <1>1, <1>2, <1>3, <1>4, <1>5 DEF GlobInv, GlobExact

LEMMA FinishKeeps ==
  ASSUME GlobInv, Finish
  PROVE  GlobInv'
<1>0. Len(pat) \in Nat /\ Len(str) \in Nat
  BY DEF GlobInv, GlobType
<1>1. /\ verdict = "running" /\ si = Len(str) /\ p \in 0 .. Len(pat) /\ ~PatIs("*")
      /\ pat' = pat /\ str' = str /\ verdict' = IF p = Len(pat) THEN "match" ELSE "fail"
      /\ p' = p /\ si' = si /\ match_pos' = match_pos /\ star' = star
  BY <1>0 DEF GlobInv, GlobType, Finish, args, locals
<1>2. Rest(p, si) <=> p = Len(pat)
  <2>1. CASE p = Len(pat)
    <3>1. Begins(pat, str)[p] = {Len(str)}
      BY <1>0, <2>1, BeginsCases
    <3> QED BY <1>1, <2>1, <3>1 DEF Rest
  <2>2. CASE p # Len(pat)
    <3>1. p \in 0 .. Len(pat) - 1 /\ pat[p + 1] # "*"
      BY <1>0, <1>1, <2>2 DEF PatIs
    <3>2. Begins(pat, str)[p] = {j \in 0 .. Len(str) - 1 :
            pat[p + 1] \in {"?", str[j + 1]} /\ j + 1 \in Begins(pat, str)[p + 1]}
      BY <1>0, <3>1, BeginsCases
    <3> QED BY <1>0, <1>1, <2>2, <3>2 DEF Rest
  <2> QED BY <2>1, <2>2
<1>3. Matches(pat, str) <=> p = Len(pat)
  BY <1>1, <1>2 DEF GlobInv
<1>4. Matches(pat, str)' <=> Matches(pat, str)
  BY <1>1 DEF Matches
<1>5. GlobType'
  BY <1>0, <1>1 DEF GlobInv, GlobType
<1>6. Matches(pat, str) \in BOOLEAN
  BY DEF Matches
<1> QED
  BY <1>1, <1>3, <1>4, <1>5, <1>6 DEF GlobInv, GlobExact

LEMMA GlobStepKeeps == GlobInv /\ GlobStep => GlobInv'
BY StarKeeps, AdvanceKeeps, BacktrackKeeps, MismatchKeeps, TrailingStarKeeps, FinishKeeps
   DEF GlobStep

LEMMA GlobUntouched == GlobInv /\ UNCHANGED globVars => GlobInv'
BY DEF GlobInv, GlobType, GlobExact, HereOrBacktrack, SinceStar, Matches, Rest, globVars,
       args, locals

-----------------------------------------------------------------------------
(* glob_match is called by an evaluation only, with the arguments of its   *)
(* call.                                                                   *)
Called == at \notin {"discover", "done"} => call \in Calls

LEMMA StepsOfGlob ==
  ASSUME ProxyNext
  PROVE  /\ call' = call
         /\ at \in {"discover", "done"} => at' = "done"
         /\ \/ UNCHANGED globVars
            \/ GlobStep
            \/ at = "scan" /\ Call(call.pattern, call.text)
<1>1. CASE ParseFirst
  BY <1>1, Zenon DEF ParseFirst, ParseBegin, ParsePart, ParseReturns, evalVars
<1>2. CASE \E n \in EnvSizes, len \in OutLens : DiscoverEnv(n, len)
  BY <1>2, Zenon DEF DiscoverEnv, evalVars
<1>3. CASE EvaluateRefuses \/ FindBody \/ EvaluateNone \/ EvaluateWrite
  BY <1>3, Zenon DEF EvaluateRefuses, FindBody, EvaluateNone, EvaluateWrite, evalVars
<1>4. CASE ScanReturn \/ ScanReturnBare \/ ScanOther \/ ScanIfNoBlock
  BY <1>4, Zenon DEF ScanReturn, ScanReturnBare, ScanOther, ScanIfNoBlock, evalVars
<1>5. CASE ScanIf
  BY <1>5, Zenon DEF ScanIf
<1>6. CASE MatchGlob \/ GlobReturns
  BY <1>6, Zenon DEF MatchGlob, GlobReturns, evalVars
<1>7. CASE BlockPanics \/ BlockUnclosed \/ TakeBlock
  BY <1>7, Zenon DEF BlockPanics, BlockUnclosed, TakeBlock, evalVars
<1> QED
  BY <1>1, <1>2, <1>3, <1>4, <1>5, <1>6, <1>7, Zenon DEF ProxyNext, Evaluate

LEMMA GlobInvHolds == ProxySpec => [](Called /\ GlobInv)
<1>1. ProxyInit => Called /\ GlobInv
  <2> SUFFICES ASSUME ProxyInit PROVE Called /\ GlobInv
    OBVIOUS
  <2>1. Called
    BY Zenon DEF ProxyInit, Called
  <2>2. GlobInit
    BY DEF ProxyInit
  <2>3. GlobInv
    BY <2>2 DEF GlobInit, GlobInv, GlobType, GlobExact, NoStar
  <2> QED BY <2>1, <2>3
<1>2. Called /\ GlobInv /\ [ProxyNext]_proxyVars => Called' /\ GlobInv'
  <2> SUFFICES ASSUME Called, GlobInv, [ProxyNext]_proxyVars PROVE Called' /\ GlobInv'
    OBVIOUS
  <2>1. CASE UNCHANGED proxyVars
    BY <2>1, GlobUntouched DEF Called, proxyVars, evalVars
  <2>2. CASE ProxyNext
    <3>1. Called'
      BY <2>2, StepsOfGlob, Zenon DEF Called
    <3>2. ASSUME at = "scan", Call(call.pattern, call.text) PROVE GlobInv'
      <4>1. call \in Calls
        BY <3>2 DEF Called
      <4>2. call.pattern \in Seq(STRING) /\ call.text \in Seq(STRING)
        BY <4>1, ProxyAssumption, Zenon DEF ProxyAssumption
      <4> QED BY <3>2, <4>2, CallKeeps
    <3> QED BY <2>2, <3>1, <3>2, StepsOfGlob, GlobStepKeeps, GlobUntouched, Zenon
  <2> QED BY <2>1, <2>2
<1> QED
  BY <1>1, <1>2, PTL DEF ProxySpec

(* glob_match, which only ever goes back to the last star, says match for  *)
(* exactly the strings that the pattern means, for every pattern and every *)
(* string: HereOrBacktrack is what the loop keeps, and what a star before  *)
(* the last could still offer the last one offers too.                     *)
THEOREM PatternsAreExact == ProxySpec => []GlobExact
<1>1. GlobInv => GlobExact
  BY DEF GlobInv
<1> QED
  BY <1>1, GlobInvHolds, PTL

-----------------------------------------------------------------------------
(* Searching.  A token found is the first; 0 says there is none. *)

LEMMA MinIs ==
  ASSUME NEW S \in SUBSET Nat, S # {}
  PROVE  Min(S) \in S /\ \A i \in S : Min(S) <= i
BY LeastNatural DEF Min

LEMMA FirstIs ==
  ASSUME NEW s, Len(s) \in Nat, NEW from \in Nat \ {0}, NEW ts
  PROVE  \/ First(s, from, ts) = 0 /\ \A i \in from .. Len(s) : s[i] \notin ts
         \/ /\ First(s, from, ts) \in from .. Len(s) /\ s[First(s, from, ts)] \in ts
            /\ \A i \in from .. First(s, from, ts) - 1 : s[i] \notin ts
<1> DEFINE I == {i \in from .. Len(s) : s[i] \in ts}
<1>1. First(s, from, ts) = IF I # {} THEN Min(I) ELSE 0
  BY DEF First, SelectInSubSeq
<1>2. CASE I = {}
  BY <1>1, <1>2
<1>3. CASE I # {}
  <2>1. I \in SUBSET Nat
    OBVIOUS
  <2>2. Min(I) \in I /\ \A i \in I : Min(I) <= i
    BY <1>3, <2>1, MinIs
  <2>3. First(s, from, ts) = Min(I)
    BY <1>1, <1>3
  <2> DEFINE m == Min(I)
  <2> HIDE DEF m
  <2>4. m \in from .. Len(s) /\ s[m] \in ts
    BY <2>2 DEF m
  <2>5. ASSUME NEW i \in from .. m - 1 PROVE s[i] \notin ts
    <3>1. i \in from .. Len(s) /\ ~(m <= i)
      BY <2>4
    <3> QED BY <2>2, <3>1 DEF m
  <2> QED BY <2>3, <2>4, <2>5 DEF m
<1> QED
  BY <1>2, <1>3

-----------------------------------------------------------------------------
(* Braces.  The depth at i of s, counted from f on. *)
Open  == "{"
Close == "}"
Count(s, t, f, i) == Cardinality({n \in f .. i : s[n] = t})
Depth(s, f, i) == Count(s, Open, f, i) - Count(s, Close, f, i)
Delta(tok) == IF tok = Open THEN 1 ELSE IF tok = Close THEN -1 ELSE 0

LEMMA OpenIsNotClose == Open # Close
BY Zenon DEF Open, Close

LEMMA CountIs ==
  ASSUME NEW s, NEW t, NEW f \in Nat \ {0}, NEW i \in Nat, f - 1 <= i
  PROVE  /\ Count(s, t, f, f - 1) = 0 /\ Count(s, t, f, i) \in Nat
         /\ Count(s, t, f, i + 1) = Count(s, t, f, i) + IF s[i + 1] = t THEN 1 ELSE 0
<1> DEFINE At(k) == {n \in f .. k : s[n] = t}
<1>1. IsFiniteSet(At(i))
  <2>1. IsFiniteSet(f .. i)
    BY FS_Interval
  <2>2. At(i) \subseteq f .. i
    OBVIOUS
  <2> QED BY <2>1, <2>2, FS_Subset
<1>2. At(f - 1) = {}
  OBVIOUS
<1>3. At(i + 1) = IF s[i + 1] = t THEN At(i) \cup {i + 1} ELSE At(i)
  OBVIOUS
<1>4. i + 1 \notin At(i)
  OBVIOUS
<1> HIDE DEF At
<1>5. Cardinality(At(i)) \in Nat
  BY <1>1, FS_CardinalityType
<1>6. Cardinality(At(i + 1)) = Cardinality(At(i)) + IF s[i + 1] = t THEN 1 ELSE 0
  <2>1. CASE s[i + 1] = t
    <3>1. At(i + 1) = At(i) \cup {i + 1}
      BY <1>3, <2>1
    <3>2. Cardinality(At(i) \cup {i + 1}) = Cardinality(At(i)) + 1
      BY <1>1, <1>4, FS_AddElement
    <3> QED BY <2>1, <3>1, <3>2
  <2>2. CASE s[i + 1] # t
    <3>1. At(i + 1) = At(i)
      BY <1>3, <2>2
    <3> QED BY <1>5, <2>2, <3>1
  <2> QED BY <2>1, <2>2
<1>7. Cardinality(At(f - 1)) = 0
  BY <1>2, FS_EmptySet
<1> QED
  BY <1>5, <1>6, <1>7 DEF At, Count

LEMMA DepthIs ==
  ASSUME NEW s, NEW f \in Nat \ {0}, NEW i \in Nat, f - 1 <= i
  PROVE  /\ Depth(s, f, f - 1) = 0 /\ Depth(s, f, i) \in Int
         /\ Depth(s, f, i + 1) = Depth(s, f, i) + Delta(s[i + 1])
<1>1. ASSUME NEW t
      PROVE  /\ Count(s, t, f, f - 1) = 0 /\ Count(s, t, f, i) \in Nat
             /\ Count(s, t, f, i + 1) = Count(s, t, f, i) + IF s[i + 1] = t THEN 1 ELSE 0
  BY CountIs
<1> QED
  BY <1>1, OpenIsNotClose DEF Depth, Delta

(* b has from f to e the tokens that s has o places further on.  The same  *)
(* tokens give the same depths, but for the depth where they begin.        *)
Shifted(b, s, o, f, e) == \A i \in f .. e : b[i] = s[o + i]

LEMMA DepthShift ==
  ASSUME NEW s, NEW b, NEW o \in Nat, NEW f \in Nat \ {0}, NEW e \in Nat,
         NEW g \in 1 .. o + f, Shifted(b, s, o, f, e)
  PROVE  \A i \in f - 1 .. e : Depth(b, f, i) = Depth(s, g, o + i) - Depth(s, g, o + (f - 1))
<1> DEFINE Same(i) == Depth(b, f, i) = Depth(s, g, o + i) - Depth(s, g, o + (f - 1))
           S == {n \in Nat : (f - 1) + n <= e => Same((f - 1) + n)}
<1>1. 0 \in S
  <2>0. f - 1 \in Nat /\ f - 1 <= f - 1
    OBVIOUS
  <2>1. Depth(b, f, f - 1) = 0
    BY <2>0, DepthIs
  <2>2. o + (f - 1) \in Nat /\ g \in Nat \ {0} /\ g - 1 <= o + (f - 1)
    OBVIOUS
  <2>3. Depth(s, g, o + (f - 1)) \in Int
    BY <2>2, DepthIs
  <2>4. (f - 1) + 0 = f - 1
    OBVIOUS
  <2> QED BY <2>1, <2>3, <2>4
<1>2. ASSUME NEW n \in Nat, n \in S PROVE n + 1 \in S
  <2> DEFINE i == (f - 1) + n
  <2> SUFFICES ASSUME i + 1 <= e PROVE Same(i + 1)
    <3>1. (f - 1) + (n + 1) = i + 1
      OBVIOUS
    <3> QED BY <3>1
  <2>1. Same(i) /\ i \in Nat /\ f - 1 <= i /\ i + 1 \in f .. e
    BY <1>2
  <2>2. o + i \in Nat /\ g \in Nat \ {0} /\ g - 1 <= o + i /\ (o + i) + 1 = o + (i + 1)
        /\ o + (f - 1) \in Nat /\ g - 1 <= o + (f - 1)
    OBVIOUS
  <2> HIDE DEF i
  <2>3. Depth(b, f, i + 1) = Depth(b, f, i) + Delta(b[i + 1])
    BY <2>1, DepthIs
  <2>4. /\ Depth(s, g, (o + i) + 1) = Depth(s, g, o + i) + Delta(s[(o + i) + 1])
        /\ Depth(s, g, o + i) \in Int /\ Depth(s, g, o + (f - 1)) \in Int
    BY <2>2, DepthIs
  <2>5. b[i + 1] = s[o + (i + 1)]
    BY <2>1 DEF Shifted
  <2>6. Delta(b[i + 1]) \in Int
    BY DEF Delta
  <2> QED BY <2>1, <2>2, <2>3, <2>4, <2>5, <2>6
<1>3. Nat \subseteq S
  <2> HIDE DEF S
  <2> QED BY <1>1, <1>2, SetInduction
<1> SUFFICES ASSUME NEW i \in f - 1 .. e PROVE Same(i)
  OBVIOUS
<1> DEFINE n == i - (f - 1)
<1>4. n \in Nat /\ (f - 1) + n = i /\ (f - 1) + n <= e
  OBVIOUS
<1> HIDE DEF n
<1>5. Same((f - 1) + n)
  <2> HIDE DEF Same
  <2> QED BY <1>3, <1>4
<1> QED
  BY <1>4, <1>5

LEMMA DepthInBlock ==
  ASSUME NEW s, NEW b, NEW o \in Nat \ {0}, NEW e \in Nat, Shifted(b, s, o, 1, e),
         NEW i \in 0 .. e
  PROVE  Depth(b, 1, i) = Depth(s, o, o + i) - Depth(s, o, o)
<1>1. \A f, g \in Nat \ {0} : Shifted(b, s, o, f, e) /\ g <= o + f =>
        \A n \in f - 1 .. e : Depth(b, f, n) = Depth(s, g, o + n) - Depth(s, g, o + (f - 1))
  BY DepthShift
<1>2. 1 \in Nat \ {0} /\ o \in Nat \ {0} /\ o <= o + 1
  OBVIOUS
<1>3. \A n \in 1 - 1 .. e : Depth(b, 1, n) = Depth(s, o, o + n) - Depth(s, o, o + (1 - 1))
  BY <1>1, <1>2, Zenon
<1> QED
  BY <1>3

LEMMA DepthFrom ==
  ASSUME NEW s, NEW o \in Nat \ {0}, NEW e \in Nat, NEW i \in o .. e
  PROVE  Depth(s, o, i) = Depth(s, 1, i) - Depth(s, 1, o - 1)
<1>0. Shifted(s, s, 0, o, e)
  BY DEF Shifted
<1>1. \A z \in Nat, g \in Nat \ {0} : Shifted(s, s, z, o, e) /\ g <= z + o =>
        \A n \in o - 1 .. e : Depth(s, o, n) = Depth(s, g, z + n) - Depth(s, g, z + (o - 1))
  BY DepthShift
<1>2. 0 \in Nat /\ 1 \in Nat \ {0} /\ 1 <= 0 + o
  OBVIOUS
<1>3. \A n \in o - 1 .. e : Depth(s, o, n) = Depth(s, 1, 0 + n) - Depth(s, 1, 0 + (o - 1))
  BY <1>0, <1>1, <1>2, Zenon
<1> QED
  BY <1>3

(* Behind an opening brace the depth stays above 0 up to the place where   *)
(* it is closed.                                                           *)
LEMMA DepthPositive ==
  ASSUME NEW s, NEW f \in Nat \ {0}, s[f] = Open, NEW e \in Nat,
         \A i \in f .. e : ~(s[i] = Close /\ Depth(s, f, i) = 0)
  PROVE  \A i \in f .. e : Depth(s, f, i) \in Int /\ Depth(s, f, i) >= 1
<1> DEFINE Pos(i) == Depth(s, f, i) \in Int /\ Depth(s, f, i) >= 1
           S == {n \in Nat : f + n <= e => Pos(f + n)}
<1>1. 0 \in S
  <2>1. f - 1 \in Nat /\ f - 1 <= f - 1 /\ (f - 1) + 1 = f
    OBVIOUS
  <2>2. Depth(s, f, f - 1) = 0 /\ Depth(s, f, (f - 1) + 1) = Depth(s, f, f - 1) + Delta(s[(f - 1) + 1])
    BY <2>1, DepthIs
  <2>3. Depth(s, f, f) = 0 + 1
    BY <2>1, <2>2 DEF Delta
  <2> QED BY <2>3
<1>2. ASSUME NEW n \in Nat, n \in S PROVE n + 1 \in S
  <2> DEFINE i == f + n
  <2> SUFFICES ASSUME i + 1 <= e PROVE Pos(i + 1)
    <3>1. f + (n + 1) = i + 1
      OBVIOUS
    <3> QED BY <3>1
  <2>1. Pos(i) /\ i \in Nat /\ f - 1 <= i /\ i + 1 \in f .. e
    BY <1>2
  <2> HIDE DEF i
  <2>2. Depth(s, f, i + 1) = Depth(s, f, i) + Delta(s[i + 1])
    BY <2>1, DepthIs
  <2>3. ~(s[i + 1] = Close /\ Depth(s, f, i + 1) = 0)
    BY <2>1
  <2>4. s[i + 1] = Close => Depth(s, f, i + 1) = Depth(s, f, i) + -1
    BY <2>2, OpenIsNotClose DEF Delta
  <2>5. s[i + 1] # Close => Depth(s, f, i + 1) >= Depth(s, f, i) /\ Depth(s, f, i + 1) \in Int
    BY <2>1, <2>2 DEF Delta
  <2> QED BY <2>1, <2>3, <2>4, <2>5
<1>3. Nat \subseteq S
  <2> HIDE DEF S
  <2> QED BY <1>1, <1>2, SetInduction
<1> SUFFICES ASSUME NEW i \in f .. e PROVE Pos(i)
  OBVIOUS
<1>4. i - f \in Nat /\ f + (i - f) = i
  OBVIOUS
<1> QED
  BY <1>3, <1>4

(* match_brace finds the first place where the depth is back at 0. *)
LEMMA MatchBraceIs ==
  ASSUME NEW s, Len(s) \in Nat, NEW f \in Nat \ {0}
  PROVE  \/ /\ match_brace(s, f) = 0
            /\ \A i \in f .. Len(s) : ~(s[i] = Close /\ Depth(s, f, i) = 0)
         \/ /\ match_brace(s, f) \in f .. Len(s)
            /\ s[match_brace(s, f)] = Close /\ Depth(s, f, match_brace(s, f)) = 0
            /\ \A i \in f .. match_brace(s, f) - 1 : ~(s[i] = Close /\ Depth(s, f, i) = 0)
<1> DEFINE C == {i \in f .. Len(s) : s[i] = Close /\ Count(s, Open, f, i) = Count(s, Close, f, i)}
<1>1. match_brace(s, f) = IF C = {} THEN 0 ELSE Min(C)
  BY Zenon DEF match_brace, Count, Open, Close
<1>2. ASSUME NEW i \in f .. Len(s)
      PROVE  i \in C <=> s[i] = Close /\ Depth(s, f, i) = 0
  <2>1. i \in Nat /\ f - 1 <= i
    OBVIOUS
  <2>2. Count(s, Open, f, i) \in Nat /\ Count(s, Close, f, i) \in Nat
    BY <2>1, CountIs
  <2> QED BY <2>2 DEF Depth
<1>3. C \in SUBSET (f .. Len(s))
  OBVIOUS
<1> HIDE DEF C
<1>4. CASE C = {}
  BY <1>1, <1>2, <1>4
<1>5. CASE C # {}
  <2> DEFINE m == Min(C)
  <2>1. C \in SUBSET Nat
    BY <1>3
  <2>2. m \in C /\ \A i \in C : m <= i
    BY <1>5, <2>1, MinIs
  <2>3. match_brace(s, f) = m
    BY <1>1, <1>5
  <2> HIDE DEF m
  <2>4. m \in f .. Len(s)
    BY <1>3, <2>2
  <2>5. ASSUME NEW i \in f .. m - 1 PROVE ~(s[i] = Close /\ Depth(s, f, i) = 0)
    <3>1. i \in f .. Len(s) /\ ~(m <= i)
      BY <2>4
    <3> QED BY <1>2, <2>2, <3>1
  <2> QED BY <1>2, <2>2, <2>3, <2>4, <2>5
<1> QED
  BY <1>4, <1>5

(* The depth of a body is never negative, and 0 at its end. *)
Balanced(s) ==
  /\ \A i \in 0 .. Len(s) : Depth(s, 1, i) \in Int /\ Depth(s, 1, i) >= 0
  /\ Depth(s, 1, Len(s)) = 0

(* What match_brace cuts out is balanced. *)
LEMMA BlockIsBalanced ==
  ASSUME NEW s \in Seq(Tokens), NEW o \in DOMAIN s, s[o] = Open,
         match_brace(s, o) # 0
  PROVE  /\ SubSeq(s, o + 1, match_brace(s, o) - 1) \in Seq(Tokens)
         /\ Balanced(SubSeq(s, o + 1, match_brace(s, o) - 1))
         /\ o + Len(SubSeq(s, o + 1, match_brace(s, o) - 1)) + 1 = match_brace(s, o)
         /\ match_brace(s, o) \in o + 1 .. Len(s)
<1> DEFINE m == match_brace(s, o)
           b == SubSeq(s, o + 1, m - 1)
<1>1. Len(s) \in Nat /\ o \in Nat \ {0} /\ o <= Len(s)
  OBVIOUS
<1>2. /\ m \in o .. Len(s) /\ s[m] = Close /\ Depth(s, o, m) = 0
      /\ \A i \in o .. m - 1 : ~(s[i] = Close /\ Depth(s, o, i) = 0)
  BY <1>1, MatchBraceIs
<1> HIDE DEF m
<1>3. m > o
  BY <1>1, <1>2, OpenIsNotClose
<1>4. \A i \in o .. m - 1 : Depth(s, o, i) \in Int /\ Depth(s, o, i) >= 1
  <2>1. m - 1 \in Nat
    BY <1>1, <1>2, <1>3
  <2> QED BY <1>1, <1>2, <2>1, DepthPositive
<1>5. Depth(s, o, m - 1) = 1
  <2>1. m - 1 \in Nat /\ o - 1 <= m - 1 /\ (m - 1) + 1 = m /\ m - 1 \in o .. m - 1
    BY <1>1, <1>2, <1>3
  <2>2. Depth(s, o, (m - 1) + 1) = Depth(s, o, m - 1) + Delta(s[(m - 1) + 1])
    BY <1>1, <2>1, DepthIs
  <2>3. Delta(s[m]) = -1
    BY <1>2, OpenIsNotClose DEF Delta
  <2> QED BY <1>2, <1>4, <2>1, <2>2, <2>3
<1>6. b \in Seq(Tokens) /\ Len(b) = m - 1 - o /\ \A i \in 1 .. Len(b) : b[i] = s[o + i]
  <2>1. Len(s) \in Nat /\ o + 1 \in 1 .. Len(s) + 1 /\ m - 1 \in o .. Len(s)
    BY <1>1, <1>2, <1>3
  <2>2. b \in Seq(Tokens) /\ Len(b) = m - 1 - o
    BY <1>1, <2>1, <1>2, <1>3, SubSeqProperties
  <2>3. ASSUME NEW i \in 1 .. Len(b) PROVE b[i] = s[o + i]
    <3>1. i \in 1 .. (m - 1) - (o + 1) + 1
      BY <1>1, <1>2, <2>2
    <3>2. b[i] = s[(o + 1) + i - 1]
      <4>1. o + 1 \in Int /\ m - 1 \in Int /\ \A j \in o + 1 .. m - 1 : s[j] \in Tokens
        BY <1>1, <1>2, <2>1
      <4>2. \A j \in 1 .. (m - 1) - (o + 1) + 1 :
              SubSeq(s, o + 1, m - 1)[j] = s[(o + 1) + j - 1]
        BY <4>1, SubSeqProperties
      <4> QED BY <3>1, <4>2
    <3>3. (o + 1) + i - 1 = o + i
      BY <1>1, <3>1
    <3> QED BY <3>2, <3>3
  <2> QED BY <2>2, <2>3
<1> HIDE DEF b
<1>7. ASSUME NEW i \in 0 .. Len(b)
      PROVE  Depth(b, 1, i) = Depth(s, o, o + i) - 1
  <2>1. /\ Len(b) \in Nat /\ o \in 1 .. o + 1 /\ i \in 1 - 1 .. Len(b) /\ o = o + (1 - 1)
        /\ o \in Nat /\ 1 \in Nat \ {0}
    BY <1>1, <1>2, <1>3, <1>6
  <2>0. Shifted(b, s, o, 1, Len(b))
    BY <1>6 DEF Shifted
  <2>2. Depth(b, 1, i) = Depth(s, o, o + i) - Depth(s, o, o)
    BY <1>1, <2>0, <2>1, DepthInBlock
  <2>3. Depth(s, o, o) = 1
    <3>1. o - 1 \in Nat /\ o - 1 <= o - 1 /\ (o - 1) + 1 = o
      BY <1>1
    <3>2. Depth(s, o, o - 1) = 0 /\ Depth(s, o, (o - 1) + 1) = Depth(s, o, o - 1) + Delta(s[(o - 1) + 1])
      BY <1>1, <3>1, DepthIs
    <3> QED BY <3>1, <3>2 DEF Delta
  <2> QED BY <2>1, <2>2, <2>3
<1>8. Balanced(b)
  <2>1. ASSUME NEW i \in 0 .. Len(b) PROVE Depth(b, 1, i) \in Int /\ Depth(b, 1, i) >= 0
    <3>1. o + i \in o .. m - 1
      BY <1>1, <1>2, <1>3, <1>6
    <3> QED BY <1>4, <1>7, <3>1
  <2>2. Len(b) \in 0 .. Len(b) /\ o + Len(b) = m - 1
    BY <1>1, <1>2, <1>3, <1>6
  <2> QED BY <1>5, <1>7, <2>1, <2>2 DEF Balanced
<1> QED
  BY <1>1, <1>2, <1>3, <1>6, <1>8 DEF b, m

(* In a balanced body every brace that opens is closed, at the depth at    *)
(* which it opened, and the depth is more in between.                      *)
LEMMA BraceIsClosed ==
  ASSUME NEW s, Len(s) \in Nat, Balanced(s), NEW o \in 1 .. Len(s), s[o] = Open
  PROVE  /\ match_brace(s, o) \in o + 1 .. Len(s) /\ s[match_brace(s, o)] = Close
         /\ Depth(s, 1, match_brace(s, o)) = Depth(s, 1, o - 1)
         /\ \A i \in o .. match_brace(s, o) - 1 : Depth(s, 1, i) > Depth(s, 1, o - 1)
<1> DEFINE m == match_brace(s, o)
           d == Depth(s, 1, o - 1)
<1>1. o \in Nat \ {0} /\ o - 1 \in 0 .. Len(s) /\ Len(s) \in o .. Len(s) /\ Len(s) \in 0 .. Len(s)
  OBVIOUS
<1>2. d \in Int /\ d >= 0 /\ Depth(s, 1, Len(s)) = 0
  BY <1>1 DEF Balanced
<1>3. ASSUME NEW i \in o .. Len(s) PROVE Depth(s, o, i) = Depth(s, 1, i) - d
  BY <1>1, DepthFrom
<1> HIDE DEF d
<1>4. m # 0
  <2> SUFFICES ASSUME m = 0 PROVE FALSE
    OBVIOUS
  <2>1. \A i \in o .. Len(s) : ~(s[i] = Close /\ Depth(s, o, i) = 0)
    BY <1>1, MatchBraceIs
  <2>2. Depth(s, o, Len(s)) >= 1
    BY <1>1, <2>1, DepthPositive
  <2> QED BY <1>1, <1>2, <1>3, <2>2
<1>5. /\ m \in o .. Len(s) /\ s[m] = Close /\ Depth(s, o, m) = 0
      /\ \A i \in o .. m - 1 : ~(s[i] = Close /\ Depth(s, o, i) = 0)
  BY <1>1, <1>4, MatchBraceIs
<1> HIDE DEF m
<1>6. m \in o + 1 .. Len(s)
  BY <1>1, <1>5, OpenIsNotClose
<1>7. ASSUME NEW i \in o .. Len(s) PROVE Depth(s, 1, i) \in Int
  BY DEF Balanced
<1>8. Depth(s, 1, m) = d
  BY <1>2, <1>3, <1>5, <1>7
<1>9. ASSUME NEW i \in o .. m - 1 PROVE Depth(s, 1, i) > d
  <2>1. m - 1 \in Nat /\ i \in o .. Len(s)
    BY <1>1, <1>6
  <2>2. Depth(s, o, i) >= 1
    BY <1>1, <1>5, <2>1, DepthPositive
  <2> QED BY <1>2, <1>3, <1>7, <2>1, <2>2
<1> QED
  BY <1>5, <1>6, <1>8, <1>9 DEF m, d

-----------------------------------------------------------------------------
(* The loop over the body.  Blanks and nothing else are passed over on the *)
(* way to the token it looks at.                                           *)
LEMMA CursorIs ==
  ASSUME body \in Seq(Tokens), pos \in Nat \ {0}
  PROVE  \/ Cursor = 0 /\ \A i \in pos .. Len(body) : body[i] = "sp"
         \/ /\ Cursor \in pos .. Len(body) /\ body[Cursor] \in Visible
            /\ \A i \in pos .. Cursor - 1 : body[i] = "sp"
<1>1. Len(body) \in Nat
  OBVIOUS
<1>2. ASSUME NEW i \in pos .. Len(body), body[i] \notin Visible PROVE body[i] = "sp"
  <2>1. body[i] \in Tokens
    BY <1>1
  <2> QED BY <1>2, <2>1, Zenon DEF Visible
<1>3. CASE pos > Len(body)
  BY <1>1, <1>3 DEF Cursor
<1>4. CASE ~(pos > Len(body))
  <2> DEFINE c == First(body, pos, Visible)
  <2>1. Cursor = c
    BY <1>4, Zenon DEF Cursor
  <2>2. \/ c = 0 /\ \A i \in pos .. Len(body) : body[i] \notin Visible
        \/ /\ c \in pos .. Len(body) /\ body[c] \in Visible
           /\ \A i \in pos .. c - 1 : body[i] \notin Visible
    BY <1>1, FirstIs
  <2> HIDE DEF c
  <2> QED BY <1>1, <1>2, <2>1, <2>2
<1> QED
  BY <1>3, <1>4

(* What the proofs of the two properties keep. *)
EvalInv ==
  /\ Called
  /\ body \in Seq(Tokens) /\ Balanced(body)
  /\ pos \in Nat \ {0}
  /\ at \in {"idle", "discover"} => body = << >> /\ pos = 1
  /\ at \in {"glob", "block"} =>
       pos \in 1 .. Len(body) /\ body[pos] = Open /\ (indented => IfIndented(body))
  /\ at \in {"evaluated", "parse"} => out.written
  /\ StopsShortIndented

LEMMA EmptyIsBalanced == Balanced(<< >>)
<1>1. Len(<< >>) = 0 /\ 1 \in Nat \ {0} /\ 0 \in Nat /\ 1 - 1 = 0 /\ 1 - 1 <= 0
  OBVIOUS
<1>2. Depth(<< >>, 1, 1 - 1) = 0
  BY <1>1, DepthIs
<1> QED
  BY <1>1, <1>2 DEF Balanced

LEMMA EvalInvInit == ProxyInit => EvalInv
<1> SUFFICES ASSUME ProxyInit PROVE EvalInv
  OBVIOUS
<1>1. Called /\ at \in {"idle", "discover"} /\ body = << >> /\ pos = 1
  BY Zenon DEF ProxyInit, Called
<1>2. body \in Seq(Tokens) /\ Balanced(body)
  BY <1>1, EmptyIsBalanced
<1>3. StopsShortIndented
  BY <1>1, Zenon DEF StopsShortIndented
<1> QED
  BY <1>1, <1>2, <1>3 DEF EvalInv

LEMMA FindBodyKeeps ==
  ASSUME EvalInv, FindBody
  PROVE  EvalInv'
<1> DEFINE src == call.source
           nm  == First(src, 1, {"name"})
           o   == IF nm = 0 THEN 0 ELSE First(src, nm, {Open})
           c   == IF o = 0 THEN 0 ELSE match_brace(src, o)
<1>0. at = "idle" /\ call' = call
  BY Zenon DEF FindBody
<1>1. IF c = 0 THEN at' = "done" /\ body' = body /\ pos' = pos
      ELSE body' = SubSeq(src, o + 1, c - 1) /\ pos' = 1 /\ at' = "scan"
  BY Zenon DEF FindBody, Open
<1>2. src \in Seq(Tokens) /\ Len(src) \in Nat
  <2>1. call \in Calls
    BY <1>0, Zenon DEF EvalInv, Called
  <2>2. src \in Seq(Tokens)
    BY <2>1, ProxyAssumption, Zenon DEF ProxyAssumption
  <2> QED BY <2>2
<1>3. CASE c = 0
  <2>1. at' = "done" /\ body' = << >> /\ pos' = 1
    BY <1>0, <1>1, <1>3, Zenon DEF EvalInv
  <2>2. Cursor' = 0
    BY <2>1 DEF Cursor
  <2>3. Called'
    BY <2>1 DEF Called
  <2>4. body' \in Seq(Tokens) /\ Balanced(body')
    BY <2>1, EmptyIsBalanced
  <2>5. StopsShortIndented'
    BY <2>1, <2>2, Zenon DEF StopsShortIndented
  <2> QED BY <2>1, <2>3, <2>4, <2>5 DEF EvalInv
<1>4. CASE c # 0
  <2>1. nm # 0 /\ o # 0 /\ o = First(src, nm, {Open}) /\ c = match_brace(src, o)
    BY <1>4
  <2>2. nm \in 1 .. Len(src)
    <3>1. nm = 0 \/ nm \in 1 .. Len(src)
      BY <1>2, FirstIs
    <3> QED BY <2>1, <3>1
  <2>3. o \in DOMAIN src /\ src[o] = Open
    <3> HIDE DEF nm
    <3>1. o \in nm .. Len(src) /\ src[o] \in {Open}
      BY <1>2, <2>1, <2>2, FirstIs
    <3> QED BY <1>2, <2>2, <3>1
  <2> HIDE DEF o, nm
  <2>4. body' \in Seq(Tokens) /\ Balanced(body')
    <3>1. body' = SubSeq(src, o + 1, match_brace(src, o) - 1)
      BY <1>1, <1>4, <2>1
    <3> QED BY <1>2, <1>4, <2>1, <2>3, <3>1, BlockIsBalanced
  <2>5. pos' = 1 /\ at' = "scan"
    BY <1>1, <1>4
  <2>6. Called'
    BY <1>0, <2>5 DEF EvalInv, Called
  <2>7. StopsShortIndented'
    BY <2>5, Zenon DEF StopsShortIndented
  <2> QED BY <2>4, <2>5, <2>6, <2>7 DEF EvalInv
<1> QED
  BY <1>3, <1>4

LEMMA SkipStatementIs ==
  ASSUME NEW i \in Nat \ {0}, body \in Seq(Tokens), SkipStatement(i)
  PROVE  pos' \in Nat \ {0}
<1> DEFINE semi == First(body, i, {";"})
<1>1. pos' = IF semi = 0 THEN Len(body) + 1 ELSE semi + 1
  BY Zenon DEF SkipStatement
<1>2. Len(body) \in Nat
  OBVIOUS
<1>3. semi = 0 \/ semi \in i .. Len(body)
  BY <1>2, FirstIs
<1> HIDE DEF semi
<1> QED
  BY <1>1, <1>2, <1>3

LEMMA ScanKeeps ==
  ASSUME EvalInv, ScanReturn \/ ScanReturnBare \/ ScanOther
  PROVE  EvalInv'
<1>1. /\ at = "scan" /\ at' = "scan" /\ call' = call /\ body' = body
      /\ Cursor # 0 /\ (SkipStatement(Cursor) \/ pos' \in Cursor + 1 .. Cursor + 2)
  BY Zenon DEF ScanReturn, ScanReturnBare, ScanOther
<1>2. Cursor \in Nat \ {0}
  BY <1>1, CursorIs DEF EvalInv
<1>3. pos' \in Nat \ {0}
  <2>1. CASE SkipStatement(Cursor)
    BY <1>2, <2>1, SkipStatementIs DEF EvalInv
  <2>2. CASE pos' \in Cursor + 1 .. Cursor + 2
    BY <1>2, <2>2
  <2> QED BY <1>1, <2>1, <2>2
<1>4. Called'
  BY <1>1 DEF EvalInv, Called
<1>5. StopsShortIndented'
  BY <1>1, Zenon DEF StopsShortIndented
<1> QED
  BY <1>1, <1>3, <1>4, <1>5 DEF EvalInv

LEMMA ScanIfKeeps ==
  ASSUME EvalInv, ScanIf
  PROVE  EvalInv'
<1>1. /\ at = "scan" /\ at' \in {"glob", "block"} /\ call' = call /\ body' = body
      /\ Cursor # 0 /\ body[Cursor] \in Ifs /\ First(body, Cursor, {Open}) # 0
      /\ pos' = First(body, Cursor, {Open}) /\ indented' = (Cursor > pos)
  BY Zenon DEF ScanIf, Open
<1>2. /\ Len(body) \in Nat /\ pos \in Nat \ {0}
      /\ Cursor \in pos .. Len(body) /\ \A i \in pos .. Cursor - 1 : body[i] = "sp"
  BY <1>1, CursorIs DEF EvalInv
<1>3. pos' \in 1 .. Len(body) /\ body[pos'] = Open
  <2>1. Cursor \in Nat \ {0}
    BY <1>2
  <2>2. pos' \in Cursor .. Len(body) /\ body[pos'] \in {Open}
    BY <1>1, <1>2, <2>1, FirstIs
  <2> QED BY <1>2, <2>1, <2>2
<1>4. indented' => IfIndented(body)
  <2> SUFFICES ASSUME Cursor > pos PROVE IfIndented(body)
    BY <1>1
  <2>1. Cursor \in 2 .. Len(body) /\ body[Cursor - 1] = "sp"
    BY <1>2
  <2> QED BY <1>1, <2>1, Zenon DEF IfIndented
<1>5. Called'
  BY <1>1 DEF EvalInv, Called
<1>6. StopsShortIndented'
  BY <1>1, Zenon DEF StopsShortIndented
<1>7. IfIndented(body)' = IfIndented(body)
  BY <1>1 DEF IfIndented
<1> QED
  BY <1>1, <1>3, <1>4, <1>5, <1>6, <1>7 DEF EvalInv

(* Steps that leave the body and the place in it alone. *)
LEMMA CursorKeeps ==
  ASSUME body' = body, pos' = pos
  PROVE  /\ Cursor' = Cursor /\ IfIndented(body)' = IfIndented(body)
         /\ Balanced(body)' = Balanced(body)
BY DEF Cursor, IfIndented, Balanced

LEMMA GlobStepsKeep ==
  ASSUME EvalInv, MatchGlob \/ GlobReturns
  PROVE  EvalInv'
<1>1. /\ at = "glob" /\ at' \in {"glob", "block"} /\ call' = call /\ body' = body
      /\ pos' = pos /\ indented' = indented
  BY Zenon DEF MatchGlob, GlobReturns, evalVars
<1>2. Called'
  BY <1>1 DEF EvalInv, Called
<1>3. StopsShortIndented'
  BY <1>1, Zenon DEF StopsShortIndented
<1> QED
  BY <1>1, <1>2, <1>3, CursorKeeps DEF EvalInv

LEMMA EndsKeep ==
  ASSUME EvalInv,
         \/ EvaluateRefuses \/ ScanIfNoBlock \/ EvaluateNone \/ ParseReturns
         \/ \E n \in EnvSizes, len \in OutLens : DiscoverEnv(n, len)
  PROVE  EvalInv'
<1>1. at' = "done" /\ body' = body /\ pos' = pos
  BY Zenon DEF EvaluateRefuses, ScanIfNoBlock, EvaluateNone, ParseReturns, DiscoverEnv, evalVars
<1>2. Cursor' = Cursor
  BY <1>1, CursorKeeps
<1>3. StopsShortIndented'
  <2>1. CASE EvaluateRefuses \/ \E n \in EnvSizes, len \in OutLens : DiscoverEnv(n, len)
    <3>1. at \in {"idle", "discover"}
      BY <2>1, Zenon DEF EvaluateRefuses, DiscoverEnv
    <3>2. body = << >> /\ pos = 1
      BY <3>1, Zenon DEF EvalInv
    <3>3. Cursor = 0
      BY <3>2 DEF Cursor
    <3> QED BY <1>1, <1>2, <3>3, Zenon DEF StopsShortIndented
  <2>2. CASE EvaluateNone
    <3>1. Cursor = 0
      BY <2>2, Zenon DEF EvaluateNone
    <3> QED BY <1>1, <1>2, <3>1, Zenon DEF StopsShortIndented
  <2>3. CASE ScanIfNoBlock
    <3>1. body[Cursor] \in Ifs /\ First(body, Cursor, {"{"}) = 0
      BY <2>3, Zenon DEF ScanIfNoBlock
    <3>2. body'[Cursor'] \in Ifs /\ First(body', Cursor', {"{"}) = 0
      BY <1>1, <1>2, <3>1, Zenon
    <3> QED BY <3>2, Zenon DEF StopsShortIndented
  <2>4. CASE ParseReturns
    <3>1. out' = out /\ at = "parse"
      BY <2>4, Zenon DEF ParseReturns
    <3>2. out'.written
      BY <3>1, Zenon DEF EvalInv
    <3> QED BY <1>1, <3>2, Zenon DEF StopsShortIndented
  <2> QED BY <2>1, <2>2, <2>3, <2>4
<1>4. Called'
  BY <1>1 DEF Called
<1> QED
  BY <1>1, <1>3, <1>4, CursorKeeps DEF EvalInv

(* Steps behind the evaluation. *)
LEMMA LaterKeeps ==
  ASSUME EvalInv, EvaluateWrite \/ ParseBegin \/ ParsePart
  PROVE  EvalInv'
<1>1. /\ at \in {"scan", "evaluated", "parse"} /\ at' \in {"evaluated", "parse"}
      /\ body' = body /\ pos' = pos /\ call' = call
  BY Zenon DEF EvaluateWrite, ParseBegin, ParsePart, evalVars
<1>2. out'.written
  <2>1. CASE EvaluateWrite
    BY <2>1 DEF EvaluateWrite
  <2>2. CASE ParseBegin \/ ParsePart
    <3>1. out' = out /\ at \in {"evaluated", "parse"}
      BY <2>2, Zenon DEF ParseBegin, ParsePart
    <3> QED BY <3>1, Zenon DEF EvalInv
  <2> QED BY <2>1, <2>2
<1>3. Called'
  BY <1>1 DEF EvalInv, Called
<1>4. StopsShortIndented'
  BY <1>1, Zenon DEF StopsShortIndented
<1> QED
  BY <1>1, <1>2, <1>3, <1>4, CursorKeeps DEF EvalInv

(* The block of an `if` that is not indented is closed, as the body is     *)
(* balanced.                                                               *)
LEMMA BlockStopsKeep ==
  ASSUME EvalInv, BlockPanics \/ BlockUnclosed
  PROVE  EvalInv'
<1>1. /\ at = "block" /\ at' \in {"aborted", "done"} /\ call' = call
      /\ body' = body /\ pos' = pos
  BY Zenon DEF BlockPanics, BlockUnclosed, evalVars
<1>2. /\ body \in Seq(Tokens) /\ Len(body) \in Nat /\ Balanced(body)
      /\ pos \in 1 .. Len(body) /\ body[pos] = Open /\ (indented => IfIndented(body))
  <2>1. at \in {"glob", "block"} /\ body \in Seq(Tokens)
    BY <1>1 DEF EvalInv
  <2>2. Len(body) \in Nat
    BY <2>1
  <2> QED BY <2>1, <2>2, Zenon DEF EvalInv
<1>3. IfIndented(body)
  <2> SUFFICES ASSUME ~indented PROVE FALSE
    BY <1>2
  <2>1. Landings = {pos}
    BY DEF Landings
  <2>2. CASE BlockPanics
    <3>1. Len(body) + 2 \in Landings
      BY <2>2 DEF BlockPanics
    <3> QED BY <1>2, <2>1, <3>1
  <2>3. CASE BlockUnclosed
    <3>1. match_brace(body, pos) = 0
      BY <2>1, <2>3, Zenon DEF BlockUnclosed
    <3>2. match_brace(body, pos) \in pos + 1 .. Len(body)
      BY <1>2, BraceIsClosed
    <3> QED BY <1>2, <3>1, <3>2
  <2> QED BY <2>2, <2>3
<1>4. IfIndented(body')
  BY <1>1, <1>3
<1>5. StopsShortIndented'
  BY <1>4, Zenon DEF StopsShortIndented, IfIndented
<1>6. Called'
  BY <1>1 DEF EvalInv, Called
<1> QED
  BY <1>1, <1>5, <1>6, CursorKeeps DEF EvalInv

LEMMA TakeBlockKeeps ==
  ASSUME EvalInv, TakeBlock
  PROVE  EvalInv'
<1>1. /\ at = "block" /\ at' = "scan" /\ call' = call /\ body' = body
      /\ \E b \in Landings \ {Len(body) + 2} :
           match_brace(body, b) # 0 /\ pos' = match_brace(body, b) + 1
  BY Zenon DEF TakeBlock
<1>2. body \in Seq(Tokens) /\ Len(body) \in Nat /\ pos \in Nat \ {0}
  BY DEF EvalInv
<1>3. PICK b \in Landings : match_brace(body, b) # 0 /\ pos' = match_brace(body, b) + 1
  BY <1>1
<1>4. b \in Nat \ {0}
  BY <1>2 DEF Landings
<1>5. match_brace(body, b) \in b .. Len(body)
  BY <1>2, <1>3, <1>4, MatchBraceIs
<1>6. pos' \in Nat \ {0}
  BY <1>2, <1>3, <1>4, <1>5
<1>7. Called'
  BY <1>1 DEF EvalInv, Called
<1>8. StopsShortIndented'
  BY <1>1, Zenon DEF StopsShortIndented
<1>9. Balanced(body)'
  BY <1>1 DEF EvalInv, Balanced
<1> QED
  BY <1>1, <1>6, <1>7, <1>8, <1>9 DEF EvalInv

LEMMA EvalInvStep == EvalInv /\ [ProxyNext]_proxyVars => EvalInv'
<1> SUFFICES ASSUME EvalInv, [ProxyNext]_proxyVars PROVE EvalInv'
  OBVIOUS
<1>1. CASE UNCHANGED proxyVars
  <2>1. /\ at' = at /\ call' = call /\ body' = body /\ pos' = pos /\ indented' = indented
        /\ out' = out /\ rc' = rc
    BY <1>1, Zenon DEF proxyVars, evalVars
  <2>2. StopsShortIndented'
    BY <2>1, CursorKeeps, Zenon DEF EvalInv, StopsShortIndented
  <2>3. Called'
    BY <2>1 DEF EvalInv, Called
  <2> QED BY <2>1, <2>2, <2>3, CursorKeeps DEF EvalInv
<1>2. CASE ProxyNext
  BY <1>2, FindBodyKeeps, ScanKeeps, ScanIfKeeps, GlobStepsKeep, EndsKeep, LaterKeeps,
     BlockStopsKeep, TakeBlockKeeps, Zenon DEF ProxyNext, Evaluate, ParseFirst
<1> QED
  BY <1>1, <1>2

(* An evaluation stops before the end of the body, with None or by the     *)
(* panic of the slice, only for an `if` behind blanks or one with no block *)
(* at all: what FindBody cut out is balanced, so every other block that is *)
(* looked for closes.                                                      *)
THEOREM ShortStopsAreIndented == ProxySpec => []StopsShortIndented
<1>1. EvalInv => StopsShortIndented
  BY DEF EvalInv
<1> QED
  BY <1>1, EvalInvInit, EvalInvStep, PTL DEF ProxySpec

-----------------------------------------------------------------------------
(* The rule string. *)
Semi == ";"
Symbols == STRING \cup {Semi}

LEMMA MaxIs ==
  ASSUME NEW S \in SUBSET Nat, NEW m \in S, \A y \in S : y <= m
  PROVE  Max(S) = m
<1>1. \E x \in S : \A y \in S : x >= y
  OBVIOUS
<1>2. Max(S) \in S /\ \A y \in S : Max(S) >= y
  BY <1>1 DEF Max
<1> DEFINE n == Max(S)
<1>3. n \in S /\ n >= m
  BY <1>2
<1> HIDE DEF n
<1>4. n <= m /\ n \in Nat /\ m \in Nat
  BY <1>3
<1>5. n = m
  BY <1>3, <1>4
<1> QED
  BY <1>5 DEF n

LEMMA CutCut ==
  ASSUME NEW t \in Seq(Symbols), NEW k \in Nat, NEW x \in Nat \ {0}, NEW y \in Nat,
         k + y <= Len(t), x <= y + 1
  PROVE  SubSeq(SubSeq(t, k + 1, Len(t)), x, y) = SubSeq(t, k + x, k + y)
<1> DEFINE r == SubSeq(t, k + 1, Len(t))
           a == SubSeq(r, x, y)
           b == SubSeq(t, k + x, k + y)
<1>1. Len(t) \in Nat /\ k <= Len(t) /\ \A i \in 1 .. Len(t) : t[i] \in Symbols
  OBVIOUS
<1>2. /\ r \in Seq(Symbols) /\ Len(r) = Len(t) - k
      /\ \A i \in 1 .. Len(t) - k : r[i] = t[k + i]
  <2>1. \A i \in k + 1 .. Len(t) : t[i] \in Symbols
    BY <1>1
  <2>2. /\ r \in Seq(Symbols)
        /\ Len(r) = IF k + 1 <= Len(t) THEN Len(t) - (k + 1) + 1 ELSE 0
        /\ \A i \in 1 .. Len(t) - (k + 1) + 1 : r[i] = t[(k + 1) + i - 1]
    BY <1>1, <2>1, SubSeqProperties
  <2>3. ASSUME NEW i \in 1 .. Len(t) - k PROVE r[i] = t[k + i]
    <3>1. i \in 1 .. Len(t) - (k + 1) + 1 /\ (k + 1) + i - 1 = k + i
      BY <1>1
    <3> QED BY <2>2, <3>1
  <2> QED BY <1>1, <2>2, <2>3
<1> HIDE DEF r
<1>3. /\ a \in Seq(Symbols) /\ Len(a) = y - x + 1
      /\ \A i \in 1 .. y - x + 1 : a[i] = r[x + i - 1]
  <2>1. \A i \in x .. y : r[i] \in Symbols
    BY <1>1, <1>2
  <2>2. /\ a \in Seq(Symbols) /\ Len(a) = IF x <= y THEN y - x + 1 ELSE 0
        /\ \A i \in 1 .. y - x + 1 : a[i] = r[x + i - 1]
    BY <2>1, SubSeqProperties
  <2> QED BY <2>2
<1>4. /\ b \in Seq(Symbols) /\ Len(b) = y - x + 1
      /\ \A i \in 1 .. y - x + 1 : b[i] = t[k + (x + i - 1)]
  <2>1. \A i \in k + x .. k + y : t[i] \in Symbols
    BY <1>1
  <2>2. /\ b \in Seq(Symbols) /\ Len(b) = IF k + x <= k + y THEN (k + y) - (k + x) + 1 ELSE 0
        /\ \A i \in 1 .. (k + y) - (k + x) + 1 : b[i] = t[(k + x) + i - 1]
    BY <2>1, SubSeqProperties
  <2>3. (k + y) - (k + x) + 1 = y - x + 1
    OBVIOUS
  <2>4. ASSUME NEW i \in 1 .. y - x + 1 PROVE b[i] = t[k + (x + i - 1)]
    <3>1. (k + x) + i - 1 = k + (x + i - 1)
      OBVIOUS
    <3> QED BY <2>2, <2>3, <3>1
  <2> QED BY <2>2, <2>3, <2>4
<1> HIDE DEF a, b
<1>5. ASSUME NEW i \in 1 .. Len(a) PROVE a[i] = b[i]
  <2>1. i \in 1 .. y - x + 1 /\ x + i - 1 \in 1 .. Len(t) - k
    BY <1>1, <1>3
  <2> QED BY <1>2, <1>3, <1>4, <2>1
<1>6. a = b
  BY <1>3, <1>4, <1>5, SeqEqual
<1> QED
  BY <1>6 DEF a, b, r

(* fd is what the last part recognised up to k makes, if any. *)
FoundBefore(s, fd, k) ==
  \/ fd = NoRule /\ \A i \in Known(s) : i > k
  \/ \E j \in Known(s) :
       j <= k /\ fd = RuleOf(PartAt(s, j)) /\ (\A i \in Known(s) : i <= k => i <= j)

(* Up to k the string is split, behind a semicolon. *)
SplitAt(k) ==
  /\ rest = SubSeq(Append(out.text, Semi), k + 1, Len(Append(out.text, Semi)))
  /\ k = 0 \/ k \in Semicolons(out.text)
  /\ FoundBefore(out.text, found, k)

LEMMA SemicolonsAre ==
  ASSUME NEW s \in Seq(Symbols)
  PROVE  /\ Append(s, Semi) \in Seq(Symbols) /\ Len(Append(s, Semi)) = Len(s) + 1
         /\ Semicolons(s) = {i \in 1 .. Len(s) + 1 : Append(s, Semi)[i] = Semi}
         /\ Len(s) + 1 \in Semicolons(s)
         /\ \A i : PartAt(s, i) = SubSeq(Append(s, Semi),
                      Max({0} \cup {j \in Semicolons(s) : j < i}) + 1, i - 1)
<1>1. Semicolons(s) = {i \in 1 .. Len(s) + 1 : Append(s, Semi)[i] = Semi}
  BY Zenon DEF Semicolons, Semi
<1>2. \A i : PartAt(s, i) = SubSeq(Append(s, Semi),
                 Max({0} \cup {j \in Semicolons(s) : j < i}) + 1, i - 1)
  BY Zenon DEF PartAt, Semi
<1>3. Semi \in Symbols
  BY Zenon DEF Symbols
<1>4. /\ Append(s, Semi) \in Seq(Symbols) /\ Len(Append(s, Semi)) = Len(s) + 1
      /\ Append(s, Semi)[Len(s) + 1] = Semi
  BY <1>3, AppendProperties
<1>5. Len(s) + 1 \in Semicolons(s)
  <2>1. Len(s) + 1 \in 1 .. Len(s) + 1
    OBVIOUS
  <2> QED BY <1>1, <1>4, <2>1, Zenon
<1> QED
  BY <1>1, <1>2, <1>4, <1>5, Zenon

LEMMA ParsePartSplits ==
  ASSUME NEW s \in Seq(Symbols), out.text = s, NEW k \in 0 .. Len(s) + 1, SplitAt(k),
         ParsePart
  PROVE  \E n \in 0 .. Len(s) + 1 : SplitAt(n)'
<1> DEFINE t == Append(s, Semi)
           L == Len(s) + 1
<1>0. PICK f : f = First(rest, 1, {Semi})
  OBVIOUS
<1>1. /\ t \in Seq(Symbols) /\ Len(t) = L /\ Len(s) \in Nat
      /\ Semicolons(s) = {i \in 1 .. L : t[i] = Semi} /\ L \in Semicolons(s)
      /\ \A i : PartAt(s, i) = SubSeq(t, Max({0} \cup {j \in Semicolons(s) : j < i}) + 1, i - 1)
  <2>1. Len(s) \in Nat
    OBVIOUS
  <2> QED BY <2>1, SemicolonsAre, Zenon
<1>2. /\ rest = SubSeq(t, k + 1, L) /\ (k = 0 \/ k \in Semicolons(s))
      /\ FoundBefore(s, found, k)
  BY <1>1 DEF SplitAt
<1>3. /\ rest # << >> /\ out' = out
      /\ NextPart = SubSeq(rest, 1, f - 1)
      /\ found' = IF Recognised(NextPart) THEN RuleOf(NextPart) ELSE found
      /\ rest' = SubSeq(rest, Len(NextPart) + 2, Len(rest))
  BY <1>0, Zenon DEF ParsePart, NextPart, Semi
<1> HIDE DEF t, L
<1>4. L = Len(s) + 1 /\ L \in Nat \ {0}
  BY <1>1 DEF L
<1>5. k \in Nat /\ k < L
  <2>1. k \in 0 .. L
    BY <1>4
  <2>2. k # L
    <3> SUFFICES ASSUME k = L PROVE FALSE
      OBVIOUS
    <3>1. SubSeq(t, k + 1, L) = << >>
      BY <1>4, SubSeqEmpty
    <3> QED BY <1>2, <1>3, <3>1
  <2> QED BY <1>4, <2>1, <2>2
<1>6. Len(rest) = L - k /\ \A i \in 1 .. L - k : rest[i] = t[k + i]
  <2>1. \A i \in k + 1 .. L : t[i] \in Symbols
    BY <1>1, <1>4, <1>5
  <2>2. /\ Len(rest) = IF k + 1 <= L THEN L - (k + 1) + 1 ELSE 0
        /\ \A i \in 1 .. L - (k + 1) + 1 : rest[i] = t[(k + 1) + i - 1]
    BY <1>2, <1>4, <1>5, <2>1, SubSeqProperties
  <2>3. ASSUME NEW i \in 1 .. L - k PROVE rest[i] = t[k + i]
    <3>1. i \in 1 .. L - (k + 1) + 1 /\ (k + 1) + i - 1 = k + i
      BY <1>4, <1>5
    <3> QED BY <2>2, <3>1
  <2> QED BY <1>4, <1>5, <2>2, <2>3
<1>7. /\ f \in 1 .. L - k /\ t[k + f] = Semi
      /\ \A i \in 1 .. f - 1 : t[k + i] # Semi
  <2>1. Len(rest) \in Nat /\ 1 \in Nat \ {0} /\ L - k \in 1 .. L - k /\ k + (L - k) = L
    BY <1>4, <1>5, <1>6
  <2>2. rest[L - k] = Semi
    BY <1>1, <1>6, <2>1
  <2>3. \/ f = 0 /\ \A i \in 1 .. Len(rest) : rest[i] \notin {Semi}
        \/ /\ f \in 1 .. Len(rest) /\ rest[f] \in {Semi}
           /\ \A i \in 1 .. f - 1 : rest[i] \notin {Semi}
    BY <1>0, <2>1, FirstIs
  <2>4. f \in 1 .. L - k /\ rest[f] = Semi /\ \A i \in 1 .. f - 1 : rest[i] # Semi
    BY <1>6, <2>1, <2>2, <2>3
  <2>5. \A i \in 1 .. f - 1 : i \in 1 .. L - k
    BY <1>4, <1>5, <2>4
  <2> QED BY <1>6, <2>4, <2>5
<1> DEFINE n == k + f
<1>8. n \in 1 .. L /\ n > k /\ n \in Semicolons(s)
  BY <1>1, <1>4, <1>5, <1>7
<1>9. \A i \in Semicolons(s) : i \in 1 .. L /\ ~(k < i /\ i < n)
  <2> SUFFICES ASSUME NEW i \in Semicolons(s) PROVE i \in 1 .. L /\ ~(k < i /\ i < n)
    OBVIOUS
  <2>1. i \in 1 .. L /\ t[i] = Semi
    BY <1>1
  <2>2. ASSUME k < i, i < n PROVE FALSE
    <3>1. i - k \in 1 .. f - 1 /\ k + (i - k) = i
      BY <1>4, <1>5, <1>7, <2>1, <2>2
    <3>2. t[k + (i - k)] # Semi
      BY <1>7, <3>1
    <3> QED BY <2>1, <3>1, <3>2
  <2> QED BY <2>1, <2>2
<1>10. NextPart = SubSeq(t, k + 1, n - 1) /\ Len(NextPart) = f - 1
  <2>1. f - 1 \in Nat /\ k + (f - 1) <= Len(t) /\ 1 <= (f - 1) + 1 /\ k + (f - 1) = n - 1
        /\ 1 \in Nat \ {0}
    BY <1>1, <1>4, <1>5, <1>7
  <2>2. SubSeq(SubSeq(t, k + 1, Len(t)), 1, f - 1) = SubSeq(t, k + 1, k + (f - 1))
    BY <1>1, <1>5, <2>1, CutCut
  <2>3. NextPart = SubSeq(t, k + 1, n - 1)
    BY <1>1, <1>2, <1>3, <2>1, <2>2
  <2>4. Len(SubSeq(t, k + 1, n - 1)) = IF k + 1 <= n - 1 THEN (n - 1) - (k + 1) + 1 ELSE 0
    <3>1. \A i \in k + 1 .. n - 1 : t[i] \in Symbols
      BY <1>1, <1>4, <1>5, <1>8
    <3>2. k + 1 \in Int /\ n - 1 \in Int
      BY <1>5, <1>8, <1>4
    <3> QED BY <3>1, <3>2, SubSeqProperties
  <2> QED BY <1>4, <1>5, <1>7, <2>3, <2>4
<1>11. PartAt(s, n) = NextPart
  <2> DEFINE S == {0} \cup {j \in Semicolons(s) : j < n}
  <2>1. S \in SUBSET Nat /\ k \in S /\ \A y \in S : y <= k
    BY <1>2, <1>4, <1>5, <1>8, <1>9
  <2>2. Max(S) = k
    BY <2>1, MaxIs
  <2> QED BY <1>1, <1>10, <2>2
<1>12. rest' = SubSeq(t, n + 1, L)
  <2>1. L - k \in Nat /\ f + 1 \in Nat \ {0} /\ k + (L - k) <= Len(t) /\ f + 1 <= (L - k) + 1
        /\ k + (f + 1) = n + 1 /\ k + (L - k) = L /\ (f - 1) + 2 = f + 1
    BY <1>1, <1>4, <1>5, <1>7
  <2>2. SubSeq(SubSeq(t, k + 1, Len(t)), f + 1, L - k) = SubSeq(t, k + (f + 1), k + (L - k))
    <3> DEFINE x == f + 1
               y == L - k
    <3>1. x \in Nat \ {0} /\ y \in Nat /\ k + y <= Len(t) /\ x <= y + 1
      BY <2>1
    <3> HIDE DEF x, y
    <3>2. SubSeq(SubSeq(t, k + 1, Len(t)), x, y) = SubSeq(t, k + x, k + y)
      BY <1>1, <1>5, <3>1, CutCut
    <3> QED BY <3>2 DEF x, y
  <2> QED BY <1>1, <1>2, <1>3, <1>6, <1>10, <2>1, <2>2
<1> HIDE DEF n
<1>13. \A i \in Known(s) : i \in Semicolons(s)
  BY Zenon DEF Known
<1>14. FoundBefore(s, found', n)
  <2>1. CASE Recognised(NextPart)
    <3>1. n \in Known(s) /\ found' = RuleOf(PartAt(s, n))
      BY <1>3, <1>8, <1>11, <2>1, Zenon DEF Known
    <3>2. n <= n
      BY <1>4, <1>8
    <3> QED BY <3>1, <3>2, Zenon DEF FoundBefore
  <2>2. CASE ~Recognised(NextPart)
    <3>1. n \notin Known(s) /\ found' = found
      BY <1>3, <1>11, <2>2, Zenon DEF Known
    <3>2. ASSUME NEW i \in Known(s) PROVE (i > k => i > n) /\ (i <= n => i <= k) /\ (i <= k => i <= n)
      <4>1. i \in 1 .. L /\ ~(k < i /\ i < n) /\ i # n
        BY <1>9, <1>13, <3>1
      <4> QED BY <1>4, <1>5, <1>8, <4>1
    <3>3. CASE found = NoRule /\ \A i \in Known(s) : i > k
      BY <3>1, <3>2, <3>3 DEF FoundBefore
    <3>4. CASE \E j \in Known(s) :
          j <= k /\ found = RuleOf(PartAt(s, j)) /\ (\A i \in Known(s) : i <= k => i <= j)
      <4>1. PICK j \in Known(s) :
          j <= k /\ found = RuleOf(PartAt(s, j)) /\ (\A i \in Known(s) : i <= k => i <= j)
        BY <3>4
      <4>2. j <= n /\ found' = RuleOf(PartAt(s, j)) /\ \A i \in Known(s) : i <= n => i <= j
        BY <3>1, <3>2, <4>1
      <4> QED BY <4>2, Zenon DEF FoundBefore
    <3> QED BY <1>2, <3>3, <3>4, Zenon DEF FoundBefore
  <2> QED BY <2>1, <2>2
<1>15. SplitAt(n)'
  <2>1. out'.text = s
    BY <1>3
  <2>2. rest' = SubSeq(Append(out'.text, Semi), n + 1, Len(Append(out'.text, Semi)))
    BY <1>1, <1>12, <2>1 DEF t
  <2> QED BY <1>8, <1>14, <2>1, <2>2, Zenon DEF SplitAt
<1>16. n \in 0 .. Len(s) + 1
  BY <1>4, <1>8
<1> QED
  BY <1>15, <1>16

(* The buffer holds what the script returned, as far as it fits. *)
Filled ==
  /\ call \in Calls /\ last_return \in DOMAIN call.source /\ call.out_len > 0
  /\ out.text = SubSeq(call.values[last_return], 1,
                       Min({Len(call.values[last_return]), call.out_len - 1}))
  /\ out.size = call.out_len

HopInv ==
  /\ last_return \in 0 .. Len(body)
  /\ at \in {"idle", "discover"} => last_return = 0
  /\ at \in {"idle", "discover", "scan", "glob", "block", "aborted"} => ~out.written
  /\ at \in {"scan", "glob", "block"} => Len(body) <= Len(call.source) /\ call.out_len > 0
  /\ at \in {"evaluated", "parse"} => Filled
  /\ at = "parse" => \E k \in 0 .. Len(out.text) + 1 : SplitAt(k)
  /\ at = "done" /\ out.written /\ last_return # 0 =>
       Filled /\ FoundBefore(out.text, found, Len(out.text) + 1)
  /\ out.written => Len(out.text) < out.size

(* What a buffer that was filled holds. *)
LEMMA FilledIs ==
  ASSUME Filled
  PROVE  /\ call.values[last_return] \in Seq(Symbols) /\ call.out_len \in Nat \ {0}
         /\ out.text \in Seq(Symbols) /\ Len(out.text) < out.size
         /\ Len(call.values[last_return]) < out.size => out.text = call.values[last_return]
         /\ out.text = SubSeq(call.values[last_return], 1, Len(out.text))
<1> DEFINE v == call.values[last_return]
           S == {Len(v), call.out_len - 1}
<1>1. call.values \in [DOMAIN call.source -> Seq(STRING)] /\ call.out_len \in Nat
  BY ProxyAssumption, Zenon DEF ProxyAssumption, Filled
<1>2. v \in Seq(STRING)
  BY <1>1, Zenon DEF Filled
<1>3. v \in Seq(Symbols)
  <2>1. STRING \subseteq Symbols
    BY Zenon DEF Symbols
  <2> QED BY <1>2, <2>1, SeqMonotonic
<1>4. call.out_len \in Nat \ {0} /\ out.size = call.out_len /\ out.text = SubSeq(v, 1, Min(S))
  BY <1>1 DEF Filled
<1> HIDE DEF v
<1>5. Len(v) \in Nat /\ \A i \in 1 .. Len(v) : v[i] \in Symbols
  BY <1>3
<1>6. Min(S) \in S /\ \A i \in S : Min(S) <= i
  <2>1. S \in SUBSET Nat /\ S # {}
    BY <1>4, <1>5
  <2> QED BY <2>1, MinIs
<1> DEFINE m == Min(S)
<1>7. m \in Nat /\ m <= Len(v) /\ m <= call.out_len - 1 /\ (m = Len(v) \/ m = call.out_len - 1)
  <2> HIDE DEF m
  <2>1. m \in S /\ m <= Len(v) /\ m <= call.out_len - 1
    BY <1>6 DEF m
  <2> QED BY <1>4, <1>5, <2>1
<1> HIDE DEF m
<1>8. /\ out.text \in Seq(Symbols) /\ Len(out.text) = m
      /\ \A i \in 1 .. m : out.text[i] = v[i]
      /\ out.text = SubSeq(v, 1, m)
  <2>1. \A i \in 1 .. m : v[i] \in Symbols
    BY <1>5, <1>7
  <2>2. /\ SubSeq(v, 1, m) \in Seq(Symbols)
        /\ Len(SubSeq(v, 1, m)) = IF 1 <= m THEN m - 1 + 1 ELSE 0
        /\ \A i \in 1 .. m - 1 + 1 : SubSeq(v, 1, m)[i] = v[1 + i - 1]
    BY <1>7, <2>1, SubSeqProperties
  <2>3. m - 1 + 1 = m /\ \A i \in 1 .. m : 1 + i - 1 = i
    BY <1>7
  <2>4. out.text = SubSeq(v, 1, m)
    BY <1>4 DEF m
  <2> QED BY <1>7, <2>2, <2>3, <2>4
<1>9. ASSUME Len(v) < out.size PROVE out.text = v
  <2>1. m = Len(v)
    BY <1>4, <1>5, <1>7, <1>9
  <2> QED BY <1>3, <1>8, <2>1, SeqEqual
<1>10. Len(out.text) < out.size
  BY <1>4, <1>5, <1>7, <1>8
<1> QED
  BY <1>3, <1>4, <1>8, <1>9, <1>10, Zenon DEF v

LEMMA FilledFits == Filled => Len(out.text) < out.size
BY FilledIs

LEMMA FilledFitsNext == Filled' => (Len(out.text) < out.size)'
BY FilledFits, PTL

LEMMA FilledKeeps ==
  ASSUME call' = call, last_return' = last_return, out' = out
  PROVE  Filled' = Filled
BY Zenon DEF Filled

LEMMA HopInvInit == ProxyInit => HopInv
<1> SUFFICES ASSUME ProxyInit PROVE HopInv
  OBVIOUS
<1>1. /\ at \in {"idle", "discover"} /\ last_return = 0 /\ ~out.written /\ body = << >>
  <2>1. at \in {"idle", "discover"} /\ last_return = 0 /\ out = NoBuffer /\ body = << >>
    BY Zenon DEF ProxyInit
  <2> QED BY <2>1 DEF NoBuffer
<1>2. last_return \in 0 .. Len(body)
  BY <1>1
<1> QED
  BY <1>1, <1>2 DEF HopInv

(* Before anything is written. *)
LEMMA FindBodyHop ==
  ASSUME EvalInv, HopInv, FindBody, EvalInv'
  PROVE  HopInv'
<1> DEFINE src == call.source
           nm  == First(src, 1, {"name"})
           o   == IF nm = 0 THEN 0 ELSE First(src, nm, {Open})
           c   == IF o = 0 THEN 0 ELSE match_brace(src, o)
<1>0. /\ at = "idle" /\ call' = call /\ last_return' = last_return /\ out' = out
      /\ call.out_len > 0
  BY Zenon DEF FindBody
<1>1. IF c = 0 THEN at' = "done" /\ body' = body /\ pos' = pos
      ELSE body' = SubSeq(src, o + 1, c - 1) /\ pos' = 1 /\ at' = "scan"
  BY Zenon DEF FindBody, Open
<1>2. last_return' = 0 /\ ~out'.written
  BY <1>0 DEF HopInv
<1>3. body' \in Seq(Tokens) /\ last_return' \in 0 .. Len(body')
  BY <1>2 DEF EvalInv
<1>4. at' = "scan" => Len(body') <= Len(call'.source)
  <2> SUFFICES ASSUME at' = "scan" PROVE Len(body') <= Len(src)
    BY <1>0
  <2>1. c # 0 /\ nm # 0 /\ o # 0 /\ o = First(src, nm, {Open}) /\ c = match_brace(src, o)
    BY <1>1
  <2>2. src \in Seq(Tokens) /\ Len(src) \in Nat
    <3>1. call \in Calls
      BY <1>0, Zenon DEF EvalInv, Called
    <3>2. src \in Seq(Tokens)
      BY <3>1, ProxyAssumption, Zenon DEF ProxyAssumption
    <3> QED BY <3>2
  <2>3. nm \in 1 .. Len(src)
    <3>1. nm = 0 \/ nm \in 1 .. Len(src)
      BY <2>2, FirstIs
    <3> QED BY <2>1, <3>1
  <2>4. o \in DOMAIN src /\ src[o] = Open
    <3> HIDE DEF nm
    <3>1. o \in nm .. Len(src) /\ src[o] \in {Open}
      BY <2>1, <2>2, <2>3, FirstIs
    <3> QED BY <2>2, <2>3, <3>1
  <2> HIDE DEF o, nm
  <2>5. body' = SubSeq(src, o + 1, match_brace(src, o) - 1)
    BY <1>1, <2>1
  <2>6. o + Len(body') + 1 = match_brace(src, o) /\ match_brace(src, o) \in o + 1 .. Len(src)
    BY <2>1, <2>2, <2>4, <2>5, BlockIsBalanced
  <2>7. Len(body') \in Nat /\ o \in Nat
    BY <1>3, <2>2, <2>4
  <2> QED BY <2>2, <2>6, <2>7
<1>5. at' \in {"scan", "done"}
  BY <1>1
<1> QED
  BY <1>0, <1>2, <1>3, <1>4, <1>5 DEF HopInv

LEMMA ScanHop ==
  ASSUME EvalInv, HopInv,
         \/ ScanReturn \/ ScanReturnBare \/ ScanOther \/ ScanIf
         \/ MatchGlob \/ GlobReturns \/ TakeBlock
  PROVE  HopInv'
<1>1. /\ at \in {"scan", "glob", "block"} /\ at' \in {"scan", "glob", "block"}
      /\ call' = call /\ body' = body /\ out' = out
  BY Zenon DEF ScanReturn, ScanReturnBare, ScanOther, ScanIf, MatchGlob, GlobReturns, TakeBlock, evalVars
<1>2. body \in Seq(Tokens) /\ Len(body) \in Nat /\ pos \in Nat \ {0}
  BY DEF EvalInv
<1>3. last_return' \in 0 .. Len(body)
  <2>0. last_return \in 0 .. Len(body)
    BY DEF HopInv
  <2>1. CASE ScanReturn \/ ScanReturnBare
    <3>1. Cursor # 0 /\ last_return' = Cursor
      BY <2>1, Zenon DEF ScanReturn, ScanReturnBare
    <3>2. Cursor \in pos .. Len(body)
      BY <1>2, <3>1, CursorIs
    <3> QED BY <1>2, <3>1, <3>2
  <2>2. CASE ScanOther \/ ScanIf \/ MatchGlob \/ GlobReturns
    <3>1. last_return' = last_return
      BY <2>2, Zenon DEF ScanOther, ScanIf, MatchGlob, GlobReturns, evalVars
    <3> QED BY <2>0, <3>1
  <2>3. CASE TakeBlock
    <3>1. PICK b \in Landings :
            /\ match_brace(body, b) # 0
            /\ last_return' = IF matched /\ SelectInSubSeq(body, b + 1, match_brace(body, b) - 1,
                                                           LAMBDA tok : tok \in Returns) # 0
                              THEN SelectInSubSeq(body, b + 1, match_brace(body, b) - 1,
                                                  LAMBDA tok : tok \in Returns)
                              ELSE last_return
      BY <2>3, Zenon DEF TakeBlock
    <3> DEFINE m == match_brace(body, b)
               R == {i \in b + 1 .. m - 1 : body[i] \in Returns}
    <3>2. b \in Nat \ {0}
      BY <1>2 DEF Landings
    <3>3. m \in b .. Len(body)
      BY <1>2, <3>1, <3>2, MatchBraceIs
    <3>4. last_return' = last_return \/ (R # {} /\ last_return' = Min(R)) \/ last_return' = 0
      BY <3>1, Zenon DEF SelectInSubSeq
    <3> HIDE DEF m
    <3>5. R \in SUBSET (0 .. Len(body)) /\ R \in SUBSET Nat
      BY <1>2, <3>2, <3>3
    <3> HIDE DEF R
    <3>6. R # {} => Min(R) \in 0 .. Len(body)
      BY <3>5, MinIs
    <3> QED BY <1>2, <2>0, <3>4, <3>6
  <2> QED BY <2>1, <2>2, <2>3
<1> QED
  BY <1>1, <1>3 DEF HopInv

LEMMA StopHop ==
  ASSUME EvalInv, HopInv,
         \/ EvaluateRefuses \/ ScanIfNoBlock \/ EvaluateNone \/ BlockPanics \/ BlockUnclosed
  PROVE  HopInv'
<1>1. /\ at \in {"idle", "scan", "block"} /\ at' \in {"done", "aborted"}
      /\ body' = body /\ out' = out /\ last_return' = last_return
  BY Zenon DEF EvaluateRefuses, ScanIfNoBlock, EvaluateNone, BlockPanics, BlockUnclosed, evalVars
<1>2. ~out'.written
  BY <1>1 DEF HopInv
<1> QED
  BY <1>1, <1>2 DEF HopInv

LEMMA WriteHop ==
  ASSUME EvalInv, HopInv, EvaluateWrite
  PROVE  HopInv'
<1> DEFINE v == call.values[last_return]
<1>1. /\ at = "scan" /\ at' = "evaluated" /\ last_return # 0 /\ body' = body /\ call' = call
      /\ last_return' = last_return
      /\ out' = [text |-> SubSeq(v, 1, Min({Len(v), call.out_len - 1})),
                 size |-> call.out_len, written |-> TRUE]
  BY Zenon DEF EvaluateWrite, evalVars
<1>2. call \in Calls /\ call.source \in Seq(Tokens)
  <2>1. call \in Calls
    BY <1>1, Zenon DEF EvalInv, Called
  <2> QED BY <2>1, ProxyAssumption, Zenon DEF ProxyAssumption
<1>3. last_return \in DOMAIN call.source /\ call.out_len > 0 /\ last_return \in 0 .. Len(body)
  <2>1. /\ last_return \in 0 .. Len(body) /\ Len(body) <= Len(call.source)
        /\ call.out_len > 0 /\ body \in Seq(Tokens)
    BY <1>1 DEF HopInv, EvalInv
  <2> QED BY <1>1, <1>2, <2>1
<1>4. Filled'
  BY <1>1, <1>2, <1>3 DEF Filled
<1>5. Len(out'.text) < out'.size
  BY <1>4, FilledFitsNext
<1> QED
  BY <1>1, <1>3, <1>4, <1>5 DEF HopInv

LEMMA ParseBeginHop ==
  ASSUME HopInv, ParseBegin
  PROVE  HopInv'
<1>1. /\ at = "evaluated" /\ at' = "parse" /\ rest' = Append(out.text, Semi) /\ found' = NoRule
      /\ out' = out /\ body' = body /\ call' = call /\ last_return' = last_return
  BY Zenon DEF ParseBegin, evalVars, Semi
<1>2. Filled /\ Filled'
  BY <1>1, FilledKeeps DEF HopInv
<1>3. PICK s : s = out.text
  OBVIOUS
<1>4. s \in Seq(Symbols)
  BY <1>2, <1>3, FilledIs
<1> DEFINE t == Append(s, Semi)
<1>5. t \in Seq(Symbols) /\ Semicolons(s) \subseteq 1 .. Len(s) + 1
  BY <1>4, SemicolonsAre, Zenon DEF Semicolons
<1> HIDE DEF t
<1>6. t = SubSeq(t, 0 + 1, Len(t))
  <2> DEFINE u == SubSeq(t, 0 + 1, Len(t))
  <2>1. Len(t) \in Nat /\ \A i \in 1 .. Len(t) : t[i] \in Symbols
    BY <1>5
  <2>2. /\ SubSeq(t, 1, Len(t)) \in Seq(Symbols)
        /\ Len(SubSeq(t, 1, Len(t))) = IF 1 <= Len(t) THEN Len(t) - 1 + 1 ELSE 0
        /\ \A i \in 1 .. Len(t) - 1 + 1 : SubSeq(t, 1, Len(t))[i] = t[1 + i - 1]
    BY <2>1, SubSeqProperties
  <2>3. 0 + 1 = 1 /\ Len(t) - 1 + 1 = Len(t) /\ \A i \in 1 .. Len(t) : 1 + i - 1 = i
    BY <2>1
  <2>4. /\ u \in Seq(Symbols) /\ Len(u) = Len(t)
        /\ \A i \in 1 .. Len(t) : u[i] = t[i]
    BY <2>1, <2>2, <2>3
  <2> HIDE DEF u
  <2>5. t = u
    BY <1>5, <2>4, SeqEqual
  <2> QED BY <2>5 DEF u
<1>7. FoundBefore(s, NoRule, 0)
  <2>1. \A i \in Known(s) : i \in Semicolons(s)
    BY Zenon DEF Known
  <2>2. \A i \in Known(s) : i > 0
    BY <1>4, <1>5, <2>1
  <2> QED BY <2>2, Zenon DEF FoundBefore
<1>8. SplitAt(0)'
  <2>1. out'.text = s /\ rest' = t
    BY <1>1, <1>3 DEF t
  <2>2. rest' = SubSeq(Append(out'.text, Semi), 0 + 1, Len(Append(out'.text, Semi)))
    BY <1>6, <2>1, Zenon DEF t
  <2> QED BY <1>1, <1>7, <2>1, <2>2, Zenon DEF SplitAt
<1>9. 0 \in 0 .. Len(out'.text) + 1
  BY <1>1, <1>3, <1>4
<1>10. \E k \in 0 .. Len(out'.text) + 1 : SplitAt(k)'
  BY <1>8, <1>9, Zenon
<1> QED
  BY <1>1, <1>2, <1>10 DEF HopInv

LEMMA ParsePartHop ==
  ASSUME HopInv, ParsePart
  PROVE  HopInv'
<1>1. /\ at = "parse" /\ at' = "parse" /\ out' = out /\ body' = body /\ call' = call
      /\ last_return' = last_return
  BY Zenon DEF ParsePart, evalVars
<1>2. Filled /\ Filled'
  BY <1>1, FilledKeeps DEF HopInv
<1>3. PICK s : s = out.text
  OBVIOUS
<1>4. s \in Seq(Symbols)
  BY <1>2, <1>3, FilledIs
<1>5. PICK k \in 0 .. Len(s) + 1 : SplitAt(k)
  BY <1>1, <1>3 DEF HopInv
<1>6. \E n \in 0 .. Len(s) + 1 : SplitAt(n)'
  BY <1>3, <1>4, <1>5, ParsePartSplits
<1>7. \E n \in 0 .. Len(out'.text) + 1 : SplitAt(n)'
  BY <1>1, <1>3, <1>6, Zenon
<1> QED
  BY <1>1, <1>2, <1>7 DEF HopInv

LEMMA ParseReturnsHop ==
  ASSUME HopInv, ParseReturns
  PROVE  HopInv'
<1>1. /\ at = "parse" /\ at' = "done" /\ out' = out /\ body' = body /\ call' = call
      /\ last_return' = last_return /\ rest = << >> /\ found' = found
  BY Zenon DEF ParseReturns, evalVars, parseVars
<1>2. Filled /\ Filled'
  BY <1>1, FilledKeeps DEF HopInv
<1>3. PICK s : s = out.text
  OBVIOUS
<1>4. s \in Seq(Symbols)
  BY <1>2, <1>3, FilledIs
<1>5. PICK k \in 0 .. Len(s) + 1 : SplitAt(k)
  BY <1>1, <1>3 DEF HopInv
<1> DEFINE t == Append(s, Semi)
<1>6. t \in Seq(Symbols) /\ Len(t) = Len(s) + 1 /\ Len(s) \in Nat
  <2>1. Len(s) \in Nat
    BY <1>4
  <2> QED BY <1>4, <2>1, SemicolonsAre, Zenon
<1>7. rest = SubSeq(t, k + 1, Len(t)) /\ FoundBefore(s, found, k)
  BY <1>3, <1>5 DEF SplitAt
<1> HIDE DEF t
<1>8. k = Len(s) + 1
  <2> SUFFICES ASSUME k < Len(s) + 1 PROVE FALSE
    BY <1>6
  <2>1. \A i \in k + 1 .. Len(t) : t[i] \in Symbols
    BY <1>6
  <2>2. Len(rest) = IF k + 1 <= Len(t) THEN Len(t) - (k + 1) + 1 ELSE 0
    BY <1>6, <1>7, <2>1, SubSeqProperties
  <2>3. Len(rest) = 0
    BY <1>1
  <2> QED BY <1>6, <2>2, <2>3
<1>9. FoundBefore(out'.text, found', Len(out'.text) + 1)
  BY <1>1, <1>3, <1>7, <1>8, Zenon
<1> QED
  BY <1>1, <1>2, <1>9 DEF HopInv

LEMMA DiscoverHop ==
  ASSUME HopInv, NEW n \in EnvSizes, NEW len \in OutLens, DiscoverEnv(n, len)
  PROVE  HopInv'
<1>1. /\ at = "discover" /\ at' = "done" /\ body' = body /\ last_return' = last_return
      /\ \/ out' = out
         \/ ~(n >= len) /\ out' = [text |-> [i \in 1 .. n |-> "env"], size |-> len, written |-> TRUE]
  BY Zenon DEF DiscoverEnv, evalVars
<1>2. n \in Nat /\ len \in Nat
  BY ProxyAssumption, Zenon DEF ProxyAssumption
<1>3. last_return' = 0 /\ ~out.written
  BY <1>1 DEF HopInv
<1>4. out'.written => Len(out'.text) < out'.size
  <2>1. CASE out' = out
    BY <1>3, <2>1
  <2>2. CASE ~(n >= len) /\ out' = [text |-> [i \in 1 .. n |-> "env"], size |-> len, written |-> TRUE]
    <3>1. Len([i \in 1 .. n |-> "env"]) = n
      BY <1>2
    <3> QED BY <1>2, <2>2, <3>1
  <2> QED BY <1>1, <2>1, <2>2
<1> QED
  BY <1>1, <1>3, <1>4 DEF HopInv

LEMMA HopInvStep ==
  ASSUME EvalInv, HopInv, [ProxyNext]_proxyVars, EvalInv'
  PROVE  HopInv'
<1>1. CASE UNCHANGED proxyVars
  <2>1. /\ at' = at /\ call' = call /\ body' = body /\ last_return' = last_return
        /\ out' = out /\ rest' = rest /\ found' = found
    BY <1>1, Zenon DEF proxyVars, evalVars, parseVars
  <2>2. Filled' = Filled
    BY <2>1, FilledKeeps
  <2>3. \A k : SplitAt(k)' = SplitAt(k)
    BY <2>1, Zenon DEF SplitAt
  <2> QED BY <2>1, <2>2, <2>3 DEF HopInv
<1>2. CASE ProxyNext
  BY <1>2, FindBodyHop, ScanHop, StopHop, WriteHop, ParseBeginHop, ParsePartHop, ParseReturnsHop,
     DiscoverHop, Zenon DEF ProxyNext, Evaluate, ParseFirst
<1> QED
  BY <1>1, <1>2

LEMMA HopInvIs ==
  ASSUME HopInv
  PROVE  HopIsOneRule
<1> DEFINE v == call.values[last_return]
           s == out.text
           K == Known(s)
           R == {RuleOf(PartAt(s, i)) : i \in K}
<1>1. out.written => Len(out.text) < out.size
  BY DEF HopInv
<1>2. ASSUME at = "done", last_return # 0, out.written
      PROVE  /\ s = SubSeq(v, 1, Len(s)) /\ (Len(v) < out.size => s = v)
             /\ found \in IF R = {} THEN {NoRule} ELSE R
             /\ Cardinality(K) = 1 /\ found.some /\ found # Direct => found = parseFirstProxy(s)
  <2>1. Filled /\ FoundBefore(s, found, Len(s) + 1)
    BY <1>2 DEF HopInv
  <2>2. s \in Seq(Symbols) /\ s = SubSeq(v, 1, Len(s)) /\ (Len(v) < out.size => s = v)
    BY <2>1, FilledIs
  <2> HIDE DEF v, s
  <2>3. ASSUME NEW i \in K PROVE i \in 1 .. Len(s) + 1
    BY Zenon DEF Known, Semicolons
  <2>4. Len(s) \in Nat
    BY <2>2
  <2>5. CASE found = NoRule /\ \A i \in K : i > Len(s) + 1
    <3>1. \A i \in K : FALSE
      BY <2>3, <2>4, <2>5
    <3>2. K = {}
      BY <3>1, Zenon
    <3>3. Cardinality(K) = 0 /\ R = {}
      BY <3>2, FS_EmptySet
    <3> QED BY <2>2, <2>5, <3>2, <3>3
  <2>6. ASSUME NEW j \in K, found = RuleOf(PartAt(s, j))
        PROVE  /\ found \in IF R = {} THEN {NoRule} ELSE R
               /\ Cardinality(K) = 1 /\ found.some /\ found # Direct => found = parseFirstProxy(s)
    <3>0. found \in R
      BY <2>6, Zenon
    <3> HIDE DEF K
    <3>1. K \in SUBSET Nat
      BY <2>3, <2>4
    <3>3. ASSUME Cardinality(K) = 1, found.some, found # Direct PROVE found = parseFirstProxy(s)
      <4>1. IsFiniteSet(K)
        <5>1. IsFiniteSet(1 .. Len(s) + 1)
          BY <2>4, FS_Interval
        <5>2. K \subseteq 1 .. Len(s) + 1
          BY <2>3
        <5> QED BY <5>1, <5>2, FS_Subset
      <4>2. \E x : K = {x}
        BY <3>3, <4>1, FS_Singleton
      <4>3. K = {j} /\ K # {}
        BY <2>6, <4>2
      <4>4. Min(K) \in K
        BY <3>1, <4>3, MinIs
      <4>5. Min(K) = j
        BY <4>3, <4>4
      <4> DEFINE part == PartAt(s, j)
      <4>6. part # <<"DIRECT">>
        <5> SUFFICES ASSUME part = <<"DIRECT">> PROVE FALSE
          OBVIOUS
        <5> HIDE DEF part
        <5>1. Len(part) = 1
          OBVIOUS
        <5>2. ~HasKeyword(part)
          BY <5>1 DEF HasKeyword
        <5>3. RuleOf(part) = Direct
          BY <5>2, Zenon DEF RuleOf
        <5> QED BY <2>6, <3>3, <5>3 DEF part
      <4>7. Known(s) # {} /\ Min(Known(s)) = j
        BY <4>3, <4>5 DEF K
      <4> HIDE DEF part
      <4>8. RuleOf(part).some /\ found = RuleOf(part) /\ PartAt(s, Min(Known(s))) = part
        BY <2>6, <3>3, <4>7 DEF part
      <4> QED BY <4>6, <4>7, <4>8, Zenon DEF parseFirstProxy
    <3>4. R # {}
      BY <3>0, Zenon
    <3> HIDE DEF R
    <3> QED BY <3>0, <3>3, <3>4
  <2>7. \/ found = NoRule /\ \A i \in K : i > Len(s) + 1
        \/ \E j \in K : found = RuleOf(PartAt(s, j))
    BY <2>1, Zenon DEF FoundBefore
  <2> HIDE DEF K, R
  <2> QED BY <2>2, <2>5, <2>6, <2>7
<1> QED
  BY <1>1, <1>2, Zenon DEF HopIsOneRule

(* For every script, rule string and buffer: what is written is terminated *)
(* inside the buffer and begins the string returned, and what              *)
(* znet_proxy_parse_first makes of it is the rule of one of the parts of   *)
(* the text in the buffer, or none if no part is known; where one part is, *)
(* and it is good, the parser of proxy.zig makes the same of it.           *)
THEOREM TheHopIsOneRule == ProxySpec => []HopIsOneRule
<1>1. EvalInv /\ HopInv /\ [ProxyNext]_proxyVars => EvalInv' /\ HopInv'
  BY EvalInvStep, HopInvStep
<1>2. HopInv => HopIsOneRule
  BY HopInvIs
<1> QED
  BY <1>1, <1>2, EvalInvInit, HopInvInit, PTL DEF ProxySpec
=============================================================================
