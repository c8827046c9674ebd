------------------------------- MODULE Proxy --------------------------------
(***************************************************************************)
(* The Rust side of proxy selection: znet_pac_evaluate runs a PAC script   *)
(* and writes the rule string into the caller's buffer, and                *)
(* znet_proxy_parse_first makes a hop of what the buffer holds;            *)
(* znet_proxy_discover_env fills such a buffer from the environment.       *)
(*                                                                         *)
(* evaluate_minimal works on text.  Here a script is a sequence of tokens, *)
(* each standing for one character or more:                                *)
(*   "name"  FindProxyForURL       "sp"  blanks and newlines               *)
(*   "{", "}", ";"                 "return"  a return of a quoted string   *)
(*   "returnBare"  a return and unquoted text up to a ";" or a newline     *)
(*   "ifPlain", "ifDomain", "ifGlob"  an `if` and its condition,           *)
(*      isPlainHostName, dnsDomainIs or shExpMatch, up to the brace        *)
(*   "ifParen"  an `if` with the parentheses JavaScript asks for           *)
(*   "word"  any other text                                                *)
(* The returns of a script are told apart by their positions.  A rule      *)
(* string is a sequence of symbols: keywords, names, ":", digits and ";".  *)
(***************************************************************************)
EXTENDS Glob, FiniteSets, SequencesExt

CONSTANTS
  Calls,      \* what znet_pac_evaluate is called with: the script, the string
              \* that a return at an index of its body names, whether the
              \* host ends with the domain asked for, the arguments of
              \* shExpMatch and the size of the buffer
  EnvSizes,   \* sizes the environment's proxy settings may have
  OutLens     \* sizes of the buffer given to znet_proxy_discover_env

Ifs    == {"ifPlain", "ifDomain", "ifGlob", "ifParen"}
Returns == {"return", "returnBare"}
Tokens == Ifs \cup Returns \cup {"name", "sp", "{", "}", ";", "word"}
Visible == Tokens \ {"sp"}
Digits == {"1", "2", "3"}
Schemes == {"PROXY", "SOCKS5", "SOCKS4"}

(* A condition that is recognised reaches to the next brace, and unquoted  *)
(* text to a semicolon, a newline or the brace that ends the script.       *)
ASSUME ProxyAssumption ==
  /\ EnvSizes \subseteq Nat /\ OutLens \subseteq Nat
  /\ \A c \in Calls :
       /\ c.source \in Seq(Tokens)
       /\ \A i \in DOMAIN c.source : c.source[i] \in Ifs \ {"ifParen"} =>
            i < Len(c.source) /\ c.source[i + 1] = "{"
       /\ \A i \in DOMAIN c.source : c.source[i] = "returnBare" /\ i < Len(c.source) =>
            \/ c.source[i + 1] \in {";", "sp"}
            \/ c.source[i + 1] = "}" /\ i + 1 = Len(c.source)
       /\ c.values \in [DOMAIN c.source -> Seq(STRING)]
       /\ c.domain \in BOOLEAN /\ c.out_len \in Nat
       /\ {c.pattern, c.text} \subseteq Seq(STRING)

VARIABLES
  at,            \* where the calls are
  call,          \* the call of znet_pac_evaluate
  body,          \* the tokens of FindProxyForURL's body
  pos,           \* index of the next token in body
  indented,      \* whether blanks were skipped before the `if`
  matched,       \* value of the `if`'s condition
  last_return,   \* index in body of the return taken last, 0 for None
  out,           \* the caller's buffer up to the NUL, and its size
  rest,          \* what znet_proxy_parse_first has yet to split
  found,         \* found: the rule it has come to
  rc             \* result of the last call: "ok" or "error"

evalVars  == <<call, body, pos, indented, matched, last_return>>
parseVars == <<rest, found>>
proxyVars == <<globVars, at, evalVars, out, parseVars, rc>>

NoBuffer == [text |-> << >>, size |-> 0, written |-> FALSE]
NoRule   == [some |-> FALSE]
NoCall   == [source |-> << >>]

ProxyInit ==
  /\ GlobInit
  /\ \/ at = "idle" /\ call \in Calls
     \/ at = "discover" /\ call = NoCall
  /\ body = << >> /\ pos = 1 /\ indented = FALSE /\ matched = FALSE
  /\ last_return = 0
  /\ out = NoBuffer /\ rest = << >> /\ found = NoRule /\ rc = "none"

-----------------------------------------------------------------------------
(* Helpers.  A position is found by its token; 0 says there is none. *)

(* The first of the tokens ts of a sequence from an index on. *)
First(s, from, ts) == SelectInSubSeq(s, from, Len(s), LAMBDA tok : tok \in ts)

(* match_brace, from an index on: where as many braces have closed as have *)
(* opened.                                                                 *)
match_brace(s, from) ==
  LET Of(b, i) == {n \in from .. i : s[n] = b}
      closes == {i \in from .. Len(s) :
                   s[i] = "}" /\ Cardinality(Of("{", i)) = Cardinality(Of("}", i))}
  IN  IF closes = {} THEN 0 ELSE Min(closes)

-----------------------------------------------------------------------------
(* znet_pac_evaluate and evaluate_minimal. *)

(* A null pointer, or a buffer of no bytes. *)
EvaluateRefuses ==
  /\ at = "idle" /\ call.out_len = 0
  /\ at' = "done" /\ rc' = "error"
  /\ UNCHANGED <<globVars, evalVars, out, parseVars>>

(* The body of the function, between its braces. *)
FindBody ==
  /\ at = "idle" /\ call.out_len > 0
  /\ LET src == call.source
         open == IF First(src, 1, {"name"}) = 0 THEN 0
                 ELSE First(src, First(src, 1, {"name"}), {"{"})
         close == IF open = 0 THEN 0 ELSE match_brace(src, open)
     IN  IF close = 0
         THEN at' = "done" /\ rc' = "error" /\ UNCHANGED <<body, pos>>
         ELSE /\ body' = SubSeq(src, open + 1, close - 1)
              /\ pos' = 1 /\ at' = "scan"
              /\ UNCHANGED rc
  /\ UNCHANGED <<globVars, call, indented, matched, last_return, out, parseVars>>

(* The token the loop looks at: the first that is not blank. *)
Cursor == IF pos > Len(body) THEN 0
          ELSE First(body, pos, Visible)

(* Behind the next semicolon, or at the end of the body. *)
SkipStatement(i) ==
  LET semi == First(body, i, {";"})
  IN  pos' = IF semi = 0 THEN Len(body) + 1 ELSE semi + 1

(* A return is noted and the loop goes on, from the closing quote, whose   *)
(* text is a statement of no kind: it is skipped with the semicolon.       *)
ScanReturn ==
  /\ at = "scan" /\ Cursor # 0 /\ body[Cursor] = "return"
  /\ last_return' = Cursor
  /\ SkipStatement(Cursor)
  /\ UNCHANGED <<globVars, at, call, body, indented, matched, out, parseVars, rc>>

(* Unquoted text ends with its semicolon or its newline, which is passed:  *)
(* other blanks may come behind the newline or not.                        *)
ScanReturnBare ==
  /\ at = "scan" /\ Cursor # 0 /\ body[Cursor] = "returnBare"
  /\ last_return' = Cursor
  /\ pos' \in {n \in Cursor + 1 .. Cursor + 2 :
                 n <= Len(body) + 1 /\ (n = Cursor + 1 => n > Len(body) \/ body[n] = "sp")}
  /\ UNCHANGED <<globVars, at, call, body, indented, matched, out, parseVars, rc>>

ScanOtherStays ==   \* mutant: the semicolon found but not passed
  /\ at = "scan" /\ Cursor # 0 /\ body[Cursor] \notin Ifs \cup Returns
  /\ pos' = LET semi == First(body, Cursor, {";"})
            IN  IF semi = 0 THEN Len(body) + 1 ELSE semi
  /\ UNCHANGED <<globVars, at, call, body, indented, matched, last_return, out,
                 parseVars, rc>>

(* Any other text, `else` and what its block begins with included. *)
ScanOther ==
  /\ at = "scan" /\ Cursor # 0 /\ body[Cursor] \notin Ifs \cup Returns
  /\ SkipStatement(Cursor)
  /\ UNCHANGED <<globVars, at, call, body, indented, matched, last_return, out,
                 parseVars, rc>>

(* An `if` without a brace behind it ends the evaluation with None. *)
ScanIfNoBlock ==
  /\ at = "scan" /\ Cursor # 0 /\ body[Cursor] \in Ifs
  /\ First(body, Cursor, {"{"}) = 0
  /\ at' = "done" /\ rc' = "error"
  /\ UNCHANGED <<globVars, evalVars, out, parseVars>>

(* eval_cond: isPlainHostName tests the text of its argument, a name       *)
(* without a dot, and text that begins with a parenthesis is no condition. *)
EvalCond(cond) ==
  CASE cond = "ifPlain"  -> TRUE
    [] cond = "ifDomain" -> call.domain
    [] cond = "ifParen"  -> FALSE

(* The condition is decided at once; shExpMatch runs glob_match first. *)
ScanIf ==
  /\ at = "scan" /\ Cursor # 0 /\ body[Cursor] \in Ifs
  /\ First(body, Cursor, {"{"}) # 0
  /\ indented' = (Cursor > pos)
  /\ pos' = First(body, Cursor, {"{"})
  /\ IF body[Cursor] = "ifGlob"
     THEN /\ Call(call.pattern, call.text)
          /\ at' = "glob" /\ UNCHANGED matched
     ELSE /\ matched' = EvalCond(body[Cursor])
          /\ at' = "block" /\ UNCHANGED globVars
  /\ UNCHANGED <<call, body, last_return, out, parseVars, rc>>

MatchGlob ==
  /\ at = "glob" /\ verdict = "running"
  /\ GlobStep
  /\ UNCHANGED <<at, evalVars, out, parseVars, rc>>

GlobReturns ==
  /\ at = "glob" /\ verdict # "running"
  /\ matched' = (verdict = "match")
  /\ at' = "block"
  /\ UNCHANGED <<globVars, call, body, pos, indented, last_return, out,
                 parseVars, rc>>

LandingsBeyond == pos + 1 .. Len(body) + 2   \* mutant: off the brace always

(* Where the block is taken to begin.  The blanks before the `if` are      *)
(* counted twice, so behind blanks the place is not the brace but as many  *)
(* characters further on: at or inside any later token, at the end of the  *)
(* body (Len + 1), or beyond it (Len + 2), as their number may be.         *)
Landings == IF indented THEN pos + 1 .. Len(body) + 2 ELSE {pos}

(* The slice begins beyond the end of the body: a panic in an extern "C"   *)
(* function aborts the process.                                            *)
BlockPanics ==
  /\ at = "block" /\ Len(body) + 2 \in Landings
  /\ at' = "aborted"
  /\ UNCHANGED <<globVars, evalVars, out, parseVars, rc>>

BlockUnclosed ==
  /\ at = "block"
  /\ \E b \in Landings \ {Len(body) + 2} : match_brace(body, b) = 0
  /\ at' = "done" /\ rc' = "error"
  /\ UNCHANGED <<globVars, evalVars, out, parseVars>>

(* The first return of the block, when the condition holds. *)
TakeBlock ==
  /\ at = "block"
  /\ \E b \in Landings \ {Len(body) + 2} :
       LET close == match_brace(body, b)
           ret   == SelectInSubSeq(body, b + 1, close - 1,
                                   LAMBDA tok : tok \in Returns)
       IN  /\ close # 0
           /\ last_return' = IF matched /\ ret # 0 THEN ret ELSE last_return
           /\ pos' = close + 1
  /\ at' = "scan"
  /\ UNCHANGED <<globVars, call, body, indented, matched, out, parseVars, rc>>

(* Nothing is left of the body and nothing was returned. *)
EvaluateNone ==
  /\ at = "scan" /\ Cursor = 0 /\ last_return = 0
  /\ at' = "done" /\ rc' = "error"
  /\ UNCHANGED <<globVars, evalVars, out, parseVars>>

EvaluateWriteNoRoom ==   \* mutant: no byte kept for the NUL
  /\ at = "scan" /\ Cursor = 0 /\ last_return # 0
  /\ LET value == call.values[last_return]
     IN  out' = [text |-> SubSeq(value, 1, Min({Len(value), call.out_len})),
                 size |-> call.out_len, written |-> TRUE]
  /\ at' = "evaluated" /\ rc' = "ok"
  /\ UNCHANGED <<globVars, evalVars, parseVars>>

(* As much of the string as fits is written, and a NUL. *)
EvaluateWrite ==
  /\ at = "scan" /\ Cursor = 0 /\ last_return # 0
  /\ LET value == call.values[last_return]
     IN  out' = [text |-> SubSeq(value, 1, Min({Len(value), call.out_len - 1})),
                 size |-> call.out_len, written |-> TRUE]
  /\ at' = "evaluated" /\ rc' = "ok"
  /\ UNCHANGED <<globVars, evalVars, parseVars>>

-----------------------------------------------------------------------------
(* znet_proxy_parse_first, of the string in the buffer. *)

(* parse_host_port: the port is a u16 behind the last colon. *)
parse_host_port(s, sch) ==
  LET colon == SelectLastInSeq(s, LAMBDA c : c = ":")
      port  == SubSeq(s, colon + 1, Len(s))
  IN  IF colon # 0 /\ port # << >> /\ ToSet(port) \subseteq Digits
      THEN [some |-> TRUE, scheme |-> sch, host |-> SubSeq(s, 1, colon - 1),
            port |-> port]
      ELSE NoRule

Direct == [some |-> TRUE, scheme |-> "DIRECT", host |-> << >>, port |-> << >>]

(* A part of the string: a keyword with its blank and something behind it, *)
(* DIRECT alone, or a part that is passed over.                            *)
HasKeyword(part) == Len(part) > 1 /\ part[1] \in Schemes
Recognised(part) == HasKeyword(part) \/ part = <<"DIRECT">>
RuleOf(part) == IF HasKeyword(part) THEN parse_host_port(Tail(part), part[1])
                ELSE Direct

ParseBegin ==
  /\ at = "evaluated"
  /\ rest' = Append(out.text, ";") /\ found' = NoRule
  /\ at' = "parse"
  /\ UNCHANGED <<globVars, evalVars, out, rc>>

NextPart == SubSeq(rest, 1, First(rest, 1, {";"}) - 1)

(* Each part that is recognised replaces what was found before. *)
ParsePart ==
  /\ at = "parse" /\ rest # << >>
  /\ found' = IF Recognised(NextPart) THEN RuleOf(NextPart) ELSE found
  /\ rest' = SubSeq(rest, Len(NextPart) + 2, Len(rest))
  /\ UNCHANGED <<globVars, at, evalVars, out, rc>>

ParseReturns ==
  /\ at = "parse" /\ rest = << >>
  /\ rc' = IF found.some THEN "ok" ELSE "error"
  /\ at' = "done"
  /\ UNCHANGED <<globVars, evalVars, out, parseVars>>

(* znet_proxy_discover_env: the settings as a whole, with a NUL behind     *)
(* them, or an error.                                                      *)
DiscoverEnv(n, len) ==
  /\ at = "discover"
  /\ IF len = 0 \/ n >= len
     THEN rc' = "error" /\ UNCHANGED out
     ELSE /\ rc' = "ok"
          /\ out' = [text |-> [i \in 1 .. n |-> "env"], size |-> len,
                     written |-> TRUE]
  /\ at' = "done"
  /\ UNCHANGED <<globVars, evalVars, parseVars>>

-----------------------------------------------------------------------------
Evaluate ==
  \/ EvaluateRefuses \/ FindBody
  \/ ScanReturn \/ ScanReturnBare \/ ScanOther \/ ScanIfNoBlock \/ ScanIf
  \/ MatchGlob \/ GlobReturns
  \/ BlockPanics \/ BlockUnclosed \/ TakeBlock
  \/ EvaluateNone \/ EvaluateWrite

ParseFirst == ParseBegin \/ ParsePart \/ ParseReturns

ProxyNext ==
  \/ Evaluate \/ ParseFirst
  \/ \E n \in EnvSizes, len \in OutLens : DiscoverEnv(n, len)

ProxySpec == ProxyInit /\ [][ProxyNext]_proxyVars

(* The calls are loops of one thread: it goes on. *)
FairProxySpec == ProxySpec /\ WF_proxyVars(Evaluate) /\ WF_proxyVars(ParseFirst)

-----------------------------------------------------------------------------
(* Properties. *)

IfIndented(s) == \E i \in 2 .. Len(s) : s[i] \in Ifs /\ s[i - 1] = "sp"

(* The evaluation stops before the end of the body, by an abort or with    *)
(* None, only for an `if` behind a blank, or one that has no block at all: *)
(* the block of any other is found and closed, whatever else the script    *)
(* holds.                                                                  *)
StopsShortIndented ==
  at = "aborted" \/ (at = "done" /\ rc = "error" /\ ~out.written /\ Cursor # 0)
    => \/ IfIndented(body)
       \/ body[Cursor] \in Ifs /\ First(body, Cursor, {"{"}) = 0

(* Every evaluation comes to an end: each round of the loop, and of        *)
(* glob_match with its backtracking, gets on.                              *)
EvaluateReturns == at = "scan" ~> at \in {"done", "aborted"}

(* The parts of a rule string, each by the semicolon that ends it, the     *)
(* last by one behind the string.                                          *)
Semicolons(s) == {i \in 1 .. Len(s) + 1 : Append(s, ";")[i] = ";"}
PartAt(s, i) ==
  SubSeq(Append(s, ";"), Max({0} \cup {j \in Semicolons(s) : j < i}) + 1, i - 1)
Known(s) == {i \in Semicolons(s) : Recognised(PartAt(s, i))}

(* parseFirstProxy of proxy.zig: the first part decides, null for DIRECT,  *)
(* and a port that is missing or bad is the scheme's default.              *)
parseFirstProxy(s) ==
  LET part == PartAt(s, Min(Known(s)))
      colon == SelectLastInSeq(part, LAMBDA c : c = ":")
  IN  CASE Known(s) = {} -> NoRule
        [] Known(s) # {} /\ part = <<"DIRECT">> -> NoRule
        [] Known(s) # {} /\ part # <<"DIRECT">> /\ RuleOf(part).some -> RuleOf(part)
        [] OTHER -> [some |-> TRUE, scheme |-> part[1], port |-> <<"default">>,
                     host |-> SubSeq(part, 2, IF colon = 0 THEN Len(part) ELSE colon - 1)]

(* What is in the buffer is terminated inside its size and begins the      *)
(* string returned, all of it if there was room; the hop is the rule of a  *)
(* part of the buffer's own text, also where the text is cut, and none     *)
(* when no part is known; and on a string with one rule, a good one, the   *)
(* two parsers of the repository agree.  Which of several rules it is, the *)
(* two do not agree on, and this property does not say.                    *)
HopIsOneRule ==
  /\ out.written => Len(out.text) < out.size
  /\ at = "done" /\ last_return # 0 /\ out.written =>
       LET value == call.values[last_return]
           rules == {RuleOf(PartAt(out.text, i)) : i \in Known(out.text)}
       IN  /\ out.text = SubSeq(value, 1, Len(out.text))
           /\ Len(value) < out.size => out.text = value
           /\ found \in IF rules = {} THEN {NoRule} ELSE rules
           /\ Cardinality(Known(out.text)) = 1 /\ found.some /\ found # Direct =>
                found = parseFirstProxy(out.text)
=============================================================================
