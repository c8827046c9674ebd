------------------------------ MODULE MCProxy -------------------------------
(* Proxy for TLC: scripts of up to three statements, rule strings of up to  *)
(* three parts with buffers from none to enough, and every short pattern   *)
(* on every short text.                                                    *)
EXTENDS Proxy

Statements ==
  {<<"return", ";">>, <<"sp">>, <<"word", ";">>, <<"ifParen">>,
   <<"ifParen", "{", "return", ";", "}">>, <<"ifPlain", "{", "}">>,
   <<"returnBare", ";">>, <<"returnBare", "sp">>,
   <<"ifPlain", "{", "returnBare", ";", "}">>,
   <<"ifDomain", "{", "return", ";", "return", ";", "}">>,
   <<"ifDomain", "{", "ifParen", "{", "return", ";", "}", "}">>,
   <<"word", "{", "return", ";", "sp", "}">>}

Source(stmts) == <<"name", "{">> \o FlattenSeq(stmts) \o <<"}">>

Sources == {Source(b) : b \in BoundedSeq(Statements, 3)}
             \cup {<< >>, <<"name">>, <<"name", "{", "return", ";">>,
                   <<"name", "{", "returnBare", "}">>,
                   <<"word", "{", "return", ";", "}">>}

Script(src, dom, pt, s) ==
  [source |-> src, values |-> [i \in DOMAIN src |-> <<"DIRECT">>],
   domain |-> dom, pattern |-> pt, text |-> s, out_len |-> 2]

ScriptCalls == {Script(src, dom, << >>, << >>) : src \in Sources, dom \in BOOLEAN}

GlobSource == <<"name", "{", "ifGlob", "{", "return", ";", "}", "}">>
GlobCalls  == {Script(GlobSource, FALSE, pt, s) :
                 pt \in BoundedSeq({"a", "b", "*", "?"}, 4),
                 s \in BoundedSeq({"a", "b"}, 4)}

RuleParts == {<< >>, <<"DIRECT">>, <<"PROXY", "h", ":", "1", "2">>,
              <<"SOCKS5", "g", ":", "3">>, <<"SOCKS4", "h">>,
              <<"PROXY", "h", ":", "99999">>, <<"HTTPS", "h", ":", "1">>}

Joined(ps) == Tail(FlattenSeq([i \in DOMAIN ps |-> <<";">> \o ps[i]]))

RuleSource == <<"name", "{", "return", ";", "}">>
RuleCalls  == {[source |-> RuleSource,
                values |-> [i \in DOMAIN RuleSource |-> Joined(ps)],
                domain |-> FALSE, pattern |-> << >>, text |-> << >>,
                out_len |-> n] :
                 ps \in UNION {[1 .. k -> RuleParts] : k \in 1 .. 3},
                 n \in {0, 1, 5, 20}}

MCCalls == ScriptCalls \cup GlobCalls \cup RuleCalls
=============================================================================
