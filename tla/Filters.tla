------------------------------ MODULE Filters -------------------------------
(***************************************************************************)
(* The scan rules (htsfilters.c): the wildcard matcher strjoker(), which    *)
(* backtracks under a depth cap with a memo of the pairs that failed, and   *)
(* the order of rules, whose last match decides.                            *)
(*                                                                         *)
(* A pattern is a sequence of tokens: a character, a star with the set of   *)
(* characters it may pass (several, or one as in *(..)), *[] which ends the *)
(* text, and a size clause.  Case folding and the syntax of classes are     *)
(* left out, and the budget of steps, which only adds refusals.             *)
(***************************************************************************)
EXTENDS Integers, SequencesExt, FiniteSetsExt

CONSTANTS
    Alphabet,  \* the characters of a name
    MaxDepth,  \* STRJOKER_MAXDEPTH
    Names,     \* names of links
    Sizes,     \* sizes of their files
    Patterns,  \* patterns of rules
    RuleLists  \* lists of them, as the user wrote them

Token == [k : {"char"}, c : Alphabet]
         \cup [k : {"star"}, pass : SUBSET Alphabet, once : BOOLEAN]
         \cup [k : {"end"}]
         \cup [k : {"size"}, op : {"<", ">"}, limit : Int]

ASSUME RulesAssumption ==
    /\ MaxDepth \in Nat
    /\ Names \subseteq Seq(Alphabet)
    /\ Sizes \subseteq Int
    /\ Patterns \subseteq Seq(Token)
    /\ RuleLists \subseteq Seq(Seq(Token))

Char(c) == [k |-> "char", c |-> c]
Class(cs, once) == [k |-> "star", pass |-> cs, once |-> once]
Star == Class(Alphabet, FALSE)
EndMark == [k |-> "end"]
SizeClause(op, limit) == [k |-> "size", op |-> op, limit |-> limit]
Unknown == -1 \* no size: at the scan of a page

\* A size clause is met, or has nothing to test.
SizeMet(t, size) == IF t.op = "<" THEN size < t.limit ELSE size > t.limit

-----------------------------------------------------------------------------
(* strjoker(): m is what the search carries along, the memo of the pairs    *)
(* that failed and whether a branch met the depth cap max.                  *)

\* The places a star may leave the text at, in the order they are tried: none
\* passed, then one more each time, then the end of what it may pass.
Tries(t, text, i) ==
    LET most == IF t.once THEN (IF i < Len(text) THEN 1 ELSE 0) ELSE Len(text) - i
        run == CHOOSE r \in 0 .. most :
                 /\ \A n \in 1 .. r : text[i + n] \in t.pass
                 /\ r = most \/ text[i + r + 1] \notin t.pass
    IN (IF t.once THEN <<>> ELSE <<i>>)
         \o [n \in 1 .. run |-> i + n]
         \o (IF run = most THEN <<i + most>> ELSE <<>>)

\* How many characters stand in the pattern from j to the next star
Word(pat, j) ==
    CHOOSE n \in 0 .. Len(pat) - j + 1 :
        /\ \A l \in 0 .. n - 1 : pat[j + l].k = "char"
        /\ j + n > Len(pat) \/ pat[j + n].k # "char"

\* a fault: one bit for each place in the pattern, whatever the text
KeyPattern(pat, i, j) == j

\* The bit of the memo for a place in the text and a place in the pattern
Key(pat, i, j) == i * (Len(pat) + 1) + (j - 1)

\* What the search carries, what it looks at, and what it comes back with
Memos == [failed : SUBSET Nat, cut : BOOLEAN]
Visits(text, pat) == [m : Memos, i : 0 .. Len(text), j : 1 .. Len(pat) + 1]
Visit(m, i, j) == [m |-> m, i |-> i, j |-> j]
Result(ok, m) == [ok |-> ok, m |-> m]

\* The next place is tried if none before matched.
Try(rec, acc, at, j) == IF acc.ok THEN acc ELSE rec[Visit(acc.m, at, j)]

\* One place after another, with the memo that the last one left
TryAll(rec, m, tries, j) ==
    LET after[k \in 0 .. Len(tries)] ==
            IF k = 0 THEN Result(FALSE, m) ELSE Try(rec, after[k - 1], tries[k], j)
    IN after[Len(tries)]

\* The n characters of the pattern from j on stand in the text after i.
WordStands(text, pat, i, j, n) ==
    i + n <= Len(text) /\ \A l \in 0 .. n - 1 : text[i + l + 1] = pat[j + l].c

\* strjoker_impl(): the text after its first v.i characters against the pattern
\* from v.j on.  A star alone at the end passes whatever is left.
Impl(text, pat, size, rec, v) ==
    LET t == pat[v.j]
        n == Word(pat, v.j)
        when(b) == Result(b, v.m)
    IN IF v.j > Len(pat) THEN when(v.i = Len(text) \/ text[v.i + 1] = "?")
       ELSE IF t = Star /\ v.j = Len(pat) THEN when(TRUE)
       ELSE IF t.k = "end" THEN when(v.i = Len(text))
       ELSE IF t.k = "size" THEN when(size # Unknown /\ SizeMet(t, size))
       ELSE IF t.k = "star" THEN TryAll(rec, v.m, Tries(t, text, v.i), v.j + 1)
       ELSE IF WordStands(text, pat, v.i, v.j, n) THEN rec[Visit(v.m, v.i + n, v.j + n)]
       ELSE when(FALSE)

\* strjoker_rec(): once a branch has met the cap no failure is noted any more.
Rec(text, pat, size, rec, v) ==
    LET key == Key(pat, v.i, v.j)
        r == Impl(text, pat, size, rec, v)
    IN IF key \in v.m.failed THEN Result(FALSE, v.m)
       ELSE IF r.ok \/ r.m.cut THEN r
       ELSE [r EXCEPT !.m.failed = @ \cup {key}]

\* With n calls left to nest
Search(text, pat, size) ==
    LET search[n \in 0 .. MaxDepth] ==
            [v \in Visits(text, pat) |->
                IF n = 0 THEN Result(FALSE, [v.m EXCEPT !.cut = TRUE])
                ELSE Rec(text, pat, size, search[n - 1], v)]
    IN search

Joker(text, pat, size) ==
    Search(text, pat, size)[MaxDepth][Visit([failed |-> {}, cut |-> FALSE], 0, 1)].ok

-----------------------------------------------------------------------------
(* The rules, each [accept, pat]; a verdict is the number of the rule that   *)
(* decides, 0 if none does.                                                 *)

Hits(rules, text, size) == {n \in DOMAIN rules : Joker(text, rules[n].pat, size)}
LastOf(hits) == IF hits = {} THEN 0 ELSE Max(hits)

\* fa_strjoker(): every rule is tried, the last one that matches decides.
LastMatch(rules, text, size) == LastOf(Hits(rules, text, size))

\* fa_strjoker_dual(): a link goes by two names, with and without its scheme;
\* the first is used unless only the second matches, or a later rule does.
Dual(rules, name1, name2, size) ==
    LET n1 == LastMatch(rules, name1, size)
        n2 == LastMatch(rules, name2, size)
    IN IF n2 = 0 \/ (n1 # 0 /\ n1 >= n2) THEN n1 ELSE n2

-----------------------------------------------------------------------------
(* What a pattern means (html/filters.html): the places of the text each     *)
(* token may lead to.  A class is a run that may be empty, and *(..) is      *)
(* exactly one character of it.                                             *)

Step(t, text, from) ==
    IF t.k = "char" THEN {p + 1 : p \in {q \in from : q < Len(text) /\ text[q + 1] = t.c}}
    ELSE IF t.k = "star" THEN
        {q \in 0 .. Len(text) : \E p \in from :
            /\ p <= q
            /\ \A n \in p + 1 .. q : text[n] \in t.pass
            /\ t.once => q = p + 1}
    ELSE {}

\* The places that the first n tokens may lead to, for each n
Reach(text, pat) ==
    LET reach[n \in 0 .. Len(pat)] ==
            IF n = 0 THEN {0} ELSE Step(pat[n], text, reach[n - 1])
    IN reach

\* The pattern as a whole: a size clause that is met ends it, and so does *[]
\* at the end of the text; a query the pattern does not name is let through.
Glob(text, pat, size) ==
    LET reach == Reach(text, pat)
    IN \/ \E p \in reach[Len(pat)] : p = Len(text) \/ text[p + 1] = "?"
       \/ \E n \in DOMAIN pat :
            \/ pat[n].k = "size" /\ size # Unknown /\ SizeMet(pat[n], size) /\ reach[n - 1] # {}
            \/ pat[n].k = "end" /\ Len(text) \in reach[n - 1]

\* The tokens before a *(..) may pass the whole text, and leave it nothing.
OneAtEnd(text, pat) ==
    \E n \in DOMAIN pat :
        pat[n].k = "star" /\ pat[n].once /\ Len(text) \in Reach(text, pat)[n - 1]

\* strjoker_rec() nests once for each star or word, and once for the end.
Groups(pat) == Cardinality({j \in DOMAIN pat : pat[j].k # "char" \/ j = 1 \/ pat[j - 1].k # "char"})

\* The matcher finds what the pattern means, whatever its memo has kept of the
\* branches that failed; a pattern deeper than the cap matches less, never
\* more (strjoker_rec(), strjoker_impl()).  It finds more in one case only,
\* where *(..) is left nothing: the loop that "tests the empty string" last
\* lets it pass none there, and one character is what filters.html says.
MatchIsGlob ==
    \A pat \in Patterns, name \in Names, size \in Sizes :
        /\ Joker(name, pat, size) => Glob(name, pat, size) \/ OneAtEnd(name, pat)
        /\ Groups(pat) < MaxDepth /\ Glob(name, pat, size) => Joker(name, pat, size)

\* A pattern that a size must match, if it is known
Sized(pat) ==
    \E j \in DOMAIN pat : pat[j].k = "size" /\ \A l \in 1 .. j - 1 : pat[l].k # "end"

\* The last rule that means either name of a link decides, and while its
\* size is unknown the size rules are as if they were not there
\* (fa_strjoker_dual()), where no *(..) of the list is left nothing.
LastRuleDecides ==
    \A pats \in RuleLists, n1, n2 \in Names, size \in Sizes :
        (\A i \in DOMAIN pats : /\ Groups(pats[i]) < MaxDepth
                                /\ ~OneAtEnd(n1, pats[i]) /\ ~OneAtEnd(n2, pats[i])) =>
        LET rules == [i \in DOMAIN pats |-> [pat |-> pats[i]]]
            hits == {i \in DOMAIN pats : Glob(n1, pats[i], size) \/ Glob(n2, pats[i], size)}
            n == Dual(rules, n1, n2, size)
        IN /\ n = LastOf(hits)
           /\ size = Unknown /\ n # 0 => ~Sized(pats[n])
=============================================================================
