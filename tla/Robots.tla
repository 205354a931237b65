------------------------------- MODULE Robots -------------------------------
(***************************************************************************)
(* robots.txt (htsrobots.c, and its callers in htsparse.c, htscore.c and    *)
(* htswizard.c): the first page of a host that is linked queues the host's  *)
(* robots.txt ahead of itself, the crawl reads it when its turn comes, and  *)
(* every link found from then on is judged by the rules read.               *)
(*                                                                         *)
(* One host is followed, whose links are found on pages of other hosts      *)
(* (Entries) and on its own.  Every link found is one the rest of the       *)
(* wizard accepts.  Redirects are left out, and so are FTP, file:// and     *)
(* links only tested.                                                       *)
(***************************************************************************)
EXTENDS Integers, SequencesExt, FiniteSetsExt

CONSTANTS
    RobotsTxt, \* the host's /robots.txt
    NoToken,   \* no entry in the rule table
    Entries,   \* the pages of other hosts already queued, in order
    Paths,     \* the host's links, each the sequence of its characters
    Isolated,  \* those that are surely no page (ishtml() = 0)
    Invited,   \* those a "+" filter names
    Mode,      \* opt->robots: "sometimes" or "always"
    Lines,     \* lines a robots.txt is made of
    LineSize,  \* HTS_ROBOTS_LINE_SIZE
    KeyAllow, KeyDisallow, \* what the keyword takes of a line
    MaxRules,  \* HTS_ROBOTS_MAX_TOKEN_SIZE, counted in rules
    MaxLines, MaxLinks     \* bounds of the model

Agent == [k : {"agent"}, who : {"us", "any", "other"}]
Rule == [k : {"rule"}, allow : BOOLEAN, pat : Seq(STRING)]
Other == [k : {"other"}] \* Sitemap: records and lines nobody reads
Kepts == [allow : BOOLEAN, pat : Seq(STRING), line : Nat] \* what a blob keeps of one

ASSUME LinesAssumption == Lines \subseteq Agent \cup Rule \cup Other
ASSUME LinksAssumption ==
    /\ Entries \in Seq(ToSet(Entries))
    /\ Paths \subseteq Seq(STRING)
    /\ Isolated \subseteq Paths
    /\ ToSet(Entries) \cap Paths = {}
    /\ RobotsTxt \notin ToSet(Entries) \cup Paths
    /\ Mode \in {"sometimes", "always"}
ASSUME TokenAssumption == NoToken \notin Seq(Kepts)
ASSUME SizesAssumption ==
    /\ {LineSize, KeyAllow, KeyDisallow, MaxRules, MaxLines, MaxLinks} \subseteq Nat
    /\ KeyAllow <= LineSize
    /\ KeyDisallow <= LineSize

VARIABLES
    heap,   \* the links, in the order they are taken
    ptr,    \* the one being handled
    token,  \* the host's entry in the rule table
    body,   \* the lines of robots.txt read so far
    parser  \* the locals of robots_parse()

vars == <<heap, ptr, token, body, parser>>

-----------------------------------------------------------------------------
(* A pattern against a path *)

Anchored(pat) == pat # <<>> /\ Last(pat) = "$"
Unanchored(pat) == IF Anchored(pat) THEN Front(pat) ELSE pat

At(piece, path, i) ==
    /\ i + Len(piece) <= Len(path)
    /\ SubSeq(path, i + 1, i + Len(piece)) = piece

\* robots_find(): the leftmost place of a piece at or after i, -1 if none
Find(piece, path, i) ==
    LET places == {j \in i .. Len(path) : At(piece, path, j)}
    IN IF places = {} THEN -1 ELSE Min(places)

\* A piece of a text ends at a star or past the last character, and begins
\* after the star before it, if there is one.
Ends(text) == {i \in DOMAIN text : text[i] = "*"} \cup {Len(text) + 1}
StarBefore(text, e) == Max({0} \cup {d \in Ends(text) : d < e})
Piece(text, e) == SubSeq(text, StarBefore(text, e) + 1, e - 1)

\* Where the piece that ends at e stands in the path, by its last character,
\* if the piece before it ended at p; -1 if it is nowhere.
PieceEnd(pat, path, e, p) ==
    LET text == Unanchored(pat)
        piece == Piece(text, e)
    IN IF p = -1 THEN -1
       ELSE IF StarBefore(text, e) = 0 THEN IF At(piece, path, 0) THEN Len(piece) ELSE -1
       ELSE IF e = Len(text) + 1 /\ Anchored(pat) THEN
            IF /\ Len(piece) <= Len(path) - p
               /\ At(piece, path, Len(path) - Len(piece))
            THEN Len(path) ELSE -1
       ELSE LET at == Find(piece, path, p)
            IN IF at = -1 THEN -1 ELSE at + Len(piece)

\* robots_pattern_match(): each piece between two stars is searched once,
\* from the end of the piece before.
PatternMatch(pat, path) ==
    LET text == Unanchored(pat)
        end == Len(text) + 1
        pos[e \in Ends(text)] ==
            LET star == StarBefore(text, e)
            IN PieceEnd(pat, path, e, IF star = 0 THEN 0 ELSE pos[star])
    IN IF Anchored(pat) /\ StarBefore(text, end) = 0 THEN pos[end] = Len(path)
       ELSE pos[end] # -1

\* What the scan keeps of the rules read so far.
NoRule == [matched |-> FALSE, len |-> 0, allow |-> FALSE]

\* a fault: an Allow on a tie does not win
BetterFirst(best, r, path) ==
    PatternMatch(r.pat, path) /\ (~best.matched \/ Len(r.pat) > best.len)

Better(best, r, path) ==
    /\ PatternMatch(r.pat, path)
    /\ \/ ~best.matched
       \/ Len(r.pat) > best.len
       \/ Len(r.pat) = best.len /\ r.allow

\* checkrobots(): the scan of a host's rules, keeping the best one so far
Best(rules, path) ==
    LET best[n \in 0 .. Len(rules)] ==
            IF n = 0 THEN NoRule
            ELSE IF Better(best[n - 1], rules[n], path)
                 THEN [matched |-> TRUE, len |-> Len(rules[n].pat), allow |-> rules[n].allow]
            ELSE best[n - 1]
    IN best[Len(rules)]

Disallowed(path) ==
    token # NoToken /\ LET best == Best(token, path) IN best.matched /\ ~best.allow

\* a fault: a link no filter decided is let through as well
ForbidsIfAlways(path) == Disallowed(path) /\ Mode # "sometimes"

\* hts_robots_forbids()
Forbids(path) == Disallowed(path) /\ ~(Mode = "sometimes" /\ path \in Invited)

-----------------------------------------------------------------------------
(* robots_parse(), a line at a time *)

Start == [record |-> 0, inAgents |-> FALSE, specific |-> FALSE, blob |-> <<>>]

\* a fault: a rule does not close the group's User-agent lines
OnAgentJoins(p, who) ==
    [p EXCEPT !.inAgents = TRUE,
              !.record = IF who = "us" THEN 2
                         ELSE IF who = "any" /\ ~p.specific /\ @ = 0 THEN 1 ELSE @,
              !.specific = @ \/ who = "us",
              !.blob = IF who = "us" /\ ~p.specific THEN <<>> ELSE @]

\* Consecutive User-agent: lines name one group, and the first one after a
\* rule opens a new group; once a group has named us the others are not ours.
OnAgent(p, who) ==
    LET record == IF p.inAgents THEN p.record ELSE 0
    IN [p EXCEPT !.inAgents = TRUE,
                 !.record = IF who = "us" THEN 2
                            ELSE IF who = "any" /\ ~p.specific /\ record = 0 THEN 1
                            ELSE record,
                 !.specific = @ \/ who = "us",
                 !.blob = IF who = "us" /\ ~p.specific THEN <<>> ELSE @]

Room(line) == LineSize - (IF line.allow THEN KeyAllow ELSE KeyDisallow)
Cut(line) == Len(line.pat) > Room(line)
Kept(line) == SubSeq(line.pat, 1, IF Cut(line) THEN Room(line) ELSE Len(line.pat))

\* A cut Allow is dropped, a cut Disallow stays, and so does nothing past the
\* cap.  n is the number of the line, which the blob does not record.
OnRule(p, line, n) ==
    [p EXCEPT !.inAgents = FALSE,
              !.blob = IF \/ p.record = 0
                          \/ Kept(line) = <<>>
                          \/ Cut(line) /\ line.allow
                          \/ Len(@) >= MaxRules
                       THEN @
                       ELSE Append(@, [allow |-> line.allow, pat |-> Kept(line), line |-> n])]

OnLine(p, line, n) ==
    IF line.k = "agent" THEN OnAgent(p, line.who)
    ELSE IF line.k = "rule" THEN OnRule(p, line, n)
    ELSE p

-----------------------------------------------------------------------------
(* The crawl *)

Init ==
    /\ heap = [i \in DOMAIN Entries |-> [url |-> Entries[i], from |-> 0]]
    /\ ptr = 1
    /\ token = NoToken
    /\ body = <<>>
    /\ parser = Start

Handled(url) == ptr <= Len(heap) /\ heap[ptr].url = url
IsPage(url) == url \in ToSet(Entries) \cup (Paths \ Isolated)
Known(url) == \E i \in DOMAIN heap : heap[i].url = url
Link(url) == [url |-> url, from |-> ptr]

\* a fault: robots.txt is queued behind the link
RecordBehind(path) ==
    IF token = NoToken /\ path \notin Isolated
    THEN token' = <<>> /\ heap' = heap \o <<Link(path), Link(RobotsTxt)>>
    ELSE heap' = Append(heap, Link(path)) /\ UNCHANGED token

\* A link to a page of a host the table does not know claims the host and
\* queues its robots.txt first.
Record(path) ==
    IF token = NoToken /\ path \notin Isolated
    THEN /\ token' = <<>>
         /\ heap' = heap \o <<Link(RobotsTxt), Link(path)>>
    ELSE /\ heap' = Append(heap, Link(path))
         /\ UNCHANGED token

FindLink(path) ==
    /\ ptr <= Len(heap) /\ IsPage(heap[ptr].url)
    /\ ~Known(path)
    /\ ~Forbids(path)
    /\ Len(heap) < MaxLinks
    /\ Record(path)
    /\ UNCHANGED <<ptr, body, parser>>

NextLink ==
    /\ ptr <= Len(heap)
    /\ ~Handled(RobotsTxt)
    /\ ptr' = ptr + 1
    /\ UNCHANGED <<heap, token, body, parser>>

ReadLine(line) ==
    /\ Handled(RobotsTxt)
    /\ Len(body) < MaxLines
    /\ body' = Append(body, line)
    /\ parser' = OnLine(parser, line, Len(body) + 1)
    /\ UNCHANGED <<heap, ptr, token>>

\* The end of the body, or no body at all: a host without rules keeps the
\* empty entry of its claim.
Install ==
    /\ Handled(RobotsTxt)
    /\ token' = IF parser.blob # <<>> THEN parser.blob ELSE token
    /\ ptr' = ptr + 1
    /\ UNCHANGED <<heap, body, parser>>

Next ==
    \/ \E path \in Paths : FindLink(path)
    \/ NextLink
    \/ \E line \in Lines : ReadLine(line)
    \/ Install

Spec == Init /\ [][Next]_vars

-----------------------------------------------------------------------------
(* The groups of a robots.txt, read from the whole of it (RFC 9309 2.2.1) *)

IsAgent(i) == i \in DOMAIN body /\ body[i].k = "agent"
IsRule(i) == i \in DOMAIN body /\ body[i].k = "rule"

\* User-agent line i heads the group of rule j: no rule before j closes the
\* group with another User-agent line after it.
Heads(i, j) ==
    /\ IsAgent(i) /\ IsRule(j) /\ i < j
    /\ \A k \in i .. j : IsRule(k) => \A l \in k .. j : ~IsAgent(l)

NamesUs == \E i \in DOMAIN body : IsAgent(i) /\ body[i].who = "us"

OursAt(j) ==
    /\ \E i \in DOMAIN body :
         Heads(i, j) /\ body[i].who = (IF NamesUs THEN "us" ELSE "any")
    /\ Kept(body[j]) # <<>>
    /\ ~(Cut(body[j]) /\ body[j].allow)

Ours == {j \in DOMAIN body : OursAt(j)}
InBlob == {parser.blob[i].line : i \in DOMAIN parser.blob}

\* The rules kept are those of the groups that name us or, when none does, of
\* the groups for everyone, whatever the order and the merging of the groups;
\* only the cap may leave one out (robots_parse()).
GroupsHonoured ==
    /\ InBlob \subseteq Ours
    /\ Len(parser.blob) < MaxRules => InBlob = Ours

\* What a pattern means: the places of the path it may have got to
Covers(pat, path) ==
    LET text == Unanchored(pat)
        reach[n \in 0 .. Len(text)] ==
            IF n = 0 THEN {0}
            ELSE IF text[n] = "*" THEN {q \in 0 .. Len(path) : \E p \in reach[n - 1] : p <= q}
            ELSE {q \in 1 .. Len(path) : q - 1 \in reach[n - 1] /\ path[q] = text[n]}
    IN IF Anchored(pat) THEN Len(path) \in reach[Len(text)] ELSE reach[Len(text)] # {}

\* The longest pattern that covers a path decides, an Allow on a tie (RFC 9309
\* 2.2.2), whatever the order of the rules.
Banned(rules, path) ==
    LET over == {r \in ToSet(rules) : Covers(r.pat, path)}
    IN \E r \in over : ~r.allow /\ \A s \in over :
          Len(s.pat) < Len(r.pat) \/ (Len(s.pat) = Len(r.pat) /\ ~s.allow)

\* checkrobots() forbids exactly the links the rules ban, though it searches
\* each piece of a pattern once and keeps one rule as it goes.
LongestWins ==
    token # NoToken => \A path \in Paths : Disallowed(path) = Banned(token, path)

IndexOf(url) == CHOOSE i \in DOMAIN heap : heap[i].url = url

\* A link the rules ban is in the mirror only if the page that named it was
\* handled before robots.txt was, or if the user's "+" filter may override
\* (hts_acceptlink(), and the claim that queues robots.txt).
BannedCameBefore ==
    token # NoToken => \A i \in DOMAIN heap :
        heap[i].url \in Paths /\ Banned(token, heap[i].url)
          => \/ heap[i].from < IndexOf(RobotsTxt)
             \/ Mode = "sometimes" /\ heap[i].url \in Invited

\* No page of a host is parsed before the host's robots.txt was read.
RulesBeforePages ==
    \A i \in DOMAIN heap : i <= ptr /\ heap[i].url \in Paths \ Isolated
        => \E j \in 1 .. i - 1 : heap[j].url = RobotsTxt

\* cmdguide.html: "By default HTTrack obeys robots.txt (-s2)."
ObeysRobots ==
    token # NoToken /\ Mode = "always" => \A i \in DOMAIN heap :
        i <= ptr => ~(heap[i].url \in Paths /\ Banned(token, heap[i].url))

=============================================================================
