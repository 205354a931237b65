------------------------------ MODULE MCRobots ------------------------------
(* Paths, patterns and lines of robots.txt, and the scan rules and names they *)
(* are checked on, for TLC.                                                   *)
EXTENDS LinkRules

CONSTANTS e1, e2

MCEntries == <<e1, e2>>

A == <<"/", "a">>
AB == <<"/", "a", "b">>
BB == <<"/", "b", "b">>

MCPaths == {A, AB, BB}
MCIsolated == {BB}
MCInvited == {AB}

MCLines ==
    {[k |-> "agent", who |-> w] : w \in {"us", "any", "other"}}
    \cup {[k |-> "other"]}
    \cup {[k |-> "rule", allow |-> FALSE, pat |-> p] :
             p \in {A, <<"/", "*", "b">>, <<"/", "a", "b", "b">>}}
    \cup {[k |-> "rule", allow |-> TRUE, pat |-> p] :
             p \in {A, <<"/", "*", "b", "$">>, <<"/", "a", "b", "b", "b">>}}

-----------------------------------------------------------------------------
MCAlphabet == {"a", "b", "?"}

Tokens == {Char("a"), Char("b"), Star, Class({"a"}, FALSE), Class({"a"}, TRUE),
           EndMark, SizeClause("<", 2)}

SeqsUpTo(S, n) == UNION {[1 .. l -> S] : l \in 0 .. n}
MCNames == SeqsUpTo(MCAlphabet, 3)
MCPatterns == SeqsUpTo(Tokens, 3) \cup [1 .. 4 -> Tokens \ {EndMark, SizeClause("<", 2)}]
MCSizes == {Unknown, 1, 2}

RulePats == {<<Star>>, <<Class({"a"}, TRUE), Star>>, <<Star, SizeClause("<", 2)>>,
             <<Star, EndMark, SizeClause("<", 2)>>}
MCRuleLists == SeqsUpTo(RulePats, 3)
=============================================================================
