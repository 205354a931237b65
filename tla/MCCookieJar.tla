---- MODULE MCCookieJar ----
(* A domain with a host under it and a second host, two cookies, two nested
   paths, and a jar of three or four records.  The file may hold a cookie for
   the whole suffix, and more of one host than its share.  A cookie may be
   replaced by a longer one. *)
EXTENDS CookieJar
CONSTANTS example, www, other, com, small, large
MCParent == [h \in {example, www, other} |-> IF h = www THEN example ELSE com]
Size(n) == IF n = small THEN 1 ELSE 2
Rec(d, n, p, s, o) ==
    [dom |-> d, name |-> n, size |-> Size(n), path |-> p, secure |-> s, hostOnly |-> o]
MCFile == {Rec(com, small, 0, FALSE, FALSE), Rec(other, large, 1, TRUE, TRUE),
           Rec(other, small, 1, FALSE, TRUE), Rec(other, small, 0, FALSE, TRUE),
           Rec(example, small, 1, TRUE, FALSE)}
\* A Domain of its own changes nothing for a host with none under it, and it is
\* enough that the small cookies are Secure or not.
MCOffers ==
    {Rec(d, n, p, FALSE, TRUE) : d \in {example, www, other}, n \in {small, large}, p \in {0, 1}}
    \cup {Rec(d, small, p, TRUE, TRUE) : d \in {example, www}, p \in {0, 1}}
    \cup {Rec(example, small, p, s, FALSE) : p \in {0, 1}, s \in BOOLEAN}
    \cup {Rec(com, small, 0, FALSE, FALSE), Rec(example, large, 1, FALSE, FALSE)}
    \cup {[Rec(example, small, p, FALSE, TRUE) EXCEPT !.size = 3] : p \in {0, 1}}
====
