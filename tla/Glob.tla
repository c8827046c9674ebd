-------------------------------- MODULE Glob --------------------------------
(***************************************************************************)
(* glob_match, the `*` and `?` matcher behind shExpMatch of a PAC script,  *)
(* as the loop it is: one action per branch.  pat, str, p, si, star and    *)
(* match_pos are its variables, indices counted from 0 as in the code.     *)
(* The globMatch of pac.zig is the same loop.                              *)
(***************************************************************************)
EXTENDS Naturals, Sequences

VARIABLES pat, str, p, si, star, match_pos,
          verdict   \* "none" before the call, "running", "match", "fail"

args   == <<pat, str>>
locals == <<p, si, star, match_pos>>
globVars == <<args, locals, verdict>>

NoStar == [some |-> FALSE, at |-> 0]

GlobInit ==
  /\ pat = << >> /\ str = << >>
  /\ p = 0 /\ si = 0 /\ star = NoStar /\ match_pos = 0
  /\ verdict = "none"

Call(pt, s) ==
  /\ pat' = pt /\ str' = s
  /\ p' = 0 /\ si' = 0 /\ star' = NoStar /\ match_pos' = 0
  /\ verdict' = "running"

InString == verdict = "running" /\ si < Len(str)
PatIs(c) == p < Len(pat) /\ pat[p + 1] = c
PatFits  == p < Len(pat) /\ pat[p + 1] \in {"?", str[si + 1]}

StarKeepsFirst ==   \* mutant: backtracks to the first star, not the last
  /\ InString /\ PatIs("*")
  /\ star' = IF star.some THEN star ELSE [some |-> TRUE, at |-> p]
  /\ match_pos' = si
  /\ p' = p + 1
  /\ UNCHANGED <<args, si, verdict>>

(* A star: matches nothing yet, remembered with where it began. *)
Star ==
  /\ InString /\ PatIs("*")
  /\ star' = [some |-> TRUE, at |-> p]
  /\ match_pos' = si
  /\ p' = p + 1
  /\ UNCHANGED <<args, si, verdict>>

Advance ==
  /\ InString /\ ~PatIs("*") /\ PatFits
  /\ p' = p + 1 /\ si' = si + 1
  /\ UNCHANGED <<args, star, match_pos, verdict>>

(* The last star takes one character more. *)
Backtrack ==
  /\ InString /\ ~PatIs("*") /\ ~PatFits /\ star.some
  /\ p' = star.at + 1
  /\ match_pos' = match_pos + 1
  /\ si' = match_pos + 1
  /\ UNCHANGED <<args, star, verdict>>

Mismatch ==
  /\ InString /\ ~PatIs("*") /\ ~PatFits /\ ~star.some
  /\ verdict' = "fail"
  /\ UNCHANGED <<args, locals>>

(* The string is used up: stars may be left over in the pattern. *)
TrailingStar ==
  /\ verdict = "running" /\ si >= Len(str) /\ PatIs("*")
  /\ p' = p + 1
  /\ UNCHANGED <<args, si, star, match_pos, verdict>>

Finish ==
  /\ verdict = "running" /\ si >= Len(str) /\ ~PatIs("*")
  /\ verdict' = IF p = Len(pat) THEN "match" ELSE "fail"
  /\ UNCHANGED <<args, locals>>

GlobStep ==
  \/ Star \/ Advance \/ Backtrack \/ Mismatch \/ TrailingStar \/ Finish

-----------------------------------------------------------------------------
(* What a pattern means: `*` stands for any characters, `?` for any one.   *)
(* Begins(pt, s)[i] is where the rest of pt, from i on, may begin in s to  *)
(* match all of s from there on.                                           *)
Begins(pt, s) ==
  LET from[i \in 0 .. Len(pt)] ==
        IF i = Len(pt) THEN {Len(s)}
        ELSE IF pt[i + 1] = "*" THEN {j \in 0 .. Len(s) : \E k \in from[i + 1] : j <= k}
        ELSE {j \in 0 .. Len(s) - 1 :
                pt[i + 1] \in {"?", s[j + 1]} /\ j + 1 \in from[i + 1]}
  IN  from

Matches(pt, s) == 0 \in Begins(pt, s)[0]

(* Backtracking to the last star only, and never to one before it, decides *)
(* every pattern: the loop says match exactly where the pattern matches.   *)
GlobExact == verdict \in {"match", "fail"} => (verdict = "match") = Matches(pat, str)
=============================================================================
