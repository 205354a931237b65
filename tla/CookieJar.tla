----------------------------- MODULE CookieJar ------------------------------
(***************************************************************************)
(* The jar of a mirror: which cookies a response may set, replace, hide or  *)
(* erase, what a full jar evicts, and what a request is sent (htsbauth.c,   *)
(* and treathead_opt() and append_cookie_header() in htslib.c).             *)
(*                                                                         *)
(* The jar is a list of records, longest path first, with no age: records   *)
(* of one path length are stored oldest first.  The paths of a request are  *)
(* nested, so a path is its length.  The parts of a record (its domain,     *)
(* path, name and value) have a size; the rest of it takes Literals, and    *)
(* the room asked for beyond the parts is Headroom.                         *)
(***************************************************************************)
EXTENDS Naturals, SequencesExt, FiniteSetsExt

CONSTANTS
    Hosts,      \* the hosts of the mirror, each a domain too
    Parent,     \* Parent[h]: the domain above h, or a public suffix
    Names,      \* names of cookies
    Depths,     \* lengths of the nested paths of requests
    MaxLen,     \* COOKIE_MAX_JAR
    HostMaxCount, HostMaxBytes,  \* COOKIE_HOST_MAX_*
    Literals, Headroom,
    FileRecords, \* records of the cookies file
    Offers       \* cookies a response may set

Domains == Hosts \cup {Parent[h] : h \in Hosts}
Cookie == [dom : Domains, name : Names, size : Nat, path : Nat, secure : BOOLEAN,
           hostOnly : BOOLEAN]

ASSUME SizesAssumption ==
    /\ {MaxLen, HostMaxCount, HostMaxBytes, Literals, Headroom} \subseteq Nat
    /\ Literals <= Headroom
    /\ Depths \subseteq Nat
    /\ FileRecords \cup Offers \subseteq Cookie

VARIABLES
    data,     \* cookie->data, the jar
    crawling  \* the cookies file has been loaded

jarVars == <<data, crawling>>

-----------------------------------------------------------------------------
(* Records and domains *)

\* A domain that is no host of the mirror stands for a public suffix.
Suffix(d) == d \notin Hosts

\* cookie_domain_match(): the same host, or a parent domain of it
DomainMatch(d, h) == d = h \/ (h \in Hosts /\ d = Parent[h])

\* cookie_domain_allowed()
DomainAllowed(d, h) == d = h \/ (DomainMatch(d, h) /\ ~Suffix(d))

\* Domain, name and path are a cookie's identity (RFC 6265 5.3 step 11).
Same(c, d) == c.dom = d.dom /\ c.name = d.name /\ c.path = d.path

\* cookie_path_covers(), on nested paths
PathCovers(p, q) == p <= q

\* What a record takes, and the room asked for it.
Bytes(c) == c.size + Literals
Need(c)  == c.size + Headroom

\* The bytes of the records at the places S of a jar
Used(j, S) ==
    LET u[n \in 0 .. Len(j)] ==
            IF n = 0 THEN 0 ELSE u[n - 1] + IF n \in S THEN Bytes(j[n]) ELSE 0
    IN u[Len(j)]

\* The jar cut down to the places S
Only(j, S) ==
    LET o[n \in 0 .. Len(j)] ==
            IF n = 0 THEN <<>> ELSE IF n \in S THEN Append(o[n - 1], j[n]) ELSE o[n - 1]
    IN o[Len(j)]

Others(j, c) == {i \in DOMAIN j : ~Same(j[i], c)}
Without(j, c) == Only(j, Others(j, c))

\* cookie_fits(), of the records at S: the one it replaces is counted free.
FitsIn(j, S, c) == Used(j, S \cap Others(j, c)) + Need(c) <= MaxLen
Fits(j, c) == FitsIn(j, DOMAIN j, c)

-----------------------------------------------------------------------------
(* cookie_make_room() *)

\* The tally of a host over the places S, with the new record in its own host's.
OfHost(j, S, h) == {i \in S : j[i].dom = h}
HostCount(j, S, h, c) == Cardinality(OfHost(j, S, h)) + IF h = c.dom THEN 1 ELSE 0
HostBytes(j, S, h, c) == Used(j, OfHost(j, S, h)) + IF h = c.dom THEN c.size ELSE 0
OverShare(j, S, h, c) ==
    HostCount(j, S, h, c) > HostMaxCount \/ HostBytes(j, S, h, c) > HostMaxBytes

\* Hosts are tallied in the order the jar first names them, the setter's first.
Tallied(j, c) == {c.dom} \cup {j[i].dom : i \in DOMAIN j}
Rank(j, h, c) == IF h = c.dom THEN 0 ELSE Min(OfHost(j, DOMAIN j, h))

\* The oldest record is the first one of the shortest path.
Oldest(j, S) == CHOOSE i \in S : \A k \in S : j[i].path < j[k].path \/ (j[i].path = j[k].path /\ i <= k)

\* Mutant of Round: the oldest record of the whole jar goes, whoever set it.
RoundOldest(j, c, s) ==
    LET victims == s.kept \cap Others(j, c)
    IN IF FitsIn(j, s.kept, c) \/ victims = {} THEN s
       ELSE [s EXCEPT !.kept = @ \ {Oldest(j, victims)}]

\* A round of the loop, while the new record does not fit: the largest host over
\* its share loses its oldest record, the one to be replaced aside.  spent are
\* the hosts with none left to give.
Round(j, c, s) ==
    LET over == {h \in Tallied(j, c) \ s.spent : OverShare(j, s.kept, h, c)}
        Larger(h, k) == \/ HostBytes(j, s.kept, h, c) > HostBytes(j, s.kept, k, c)
                        \/ /\ HostBytes(j, s.kept, h, c) = HostBytes(j, s.kept, k, c)
                           /\ Rank(j, h, c) <= Rank(j, k, c)
        best == CHOOSE h \in over : \A k \in over : Larger(h, k)
        victims == OfHost(j, s.kept, best) \cap Others(j, c)
    IN IF FitsIn(j, s.kept, c) \/ over = {} THEN s
       ELSE IF victims = {} THEN [s EXCEPT !.spent = @ \cup {best}]
       ELSE [s EXCEPT !.kept = @ \ {Oldest(j, victims)}]

\* The places kept.  A round takes a record or spends a host, of which there are
\* at most one more than records; nothing goes unless the new record then fits.
Rounds(j, c) ==
    LET r[n \in 0 .. 2 * Len(j) + 1] ==
            IF n = 0 THEN [kept |-> DOMAIN j, spent |-> {}] ELSE Round(j, c, r[n - 1])
    IN r
MakeRoom(j, c) ==
    LET kept == Rounds(j, c)[2 * Len(j) + 1].kept
    IN IF Need(c) <= MaxLen /\ FitsIn(j, kept, c) THEN kept ELSE DOMAIN j

-----------------------------------------------------------------------------
(* cookie_set() and cookie_remove() *)

\* A record goes before the first shorter path, so behind those of its own length.
Insert(j, c) ==
    LET shorter == {i \in DOMAIN j : j[i].path < c.path}
    IN  InsertAt(j, IF shorter = {} THEN Len(j) + 1 ELSE Min(shorter), c)

\* A public suffix reaches only that host.
Stored(c) == [c EXCEPT !.hostOnly = @ \/ Suffix(c.dom)]

SetIn(j, c) == IF Fits(j, c) THEN Insert(Without(j, c), Stored(c)) ELSE j
SetCapped(j, c) == SetIn(IF Fits(j, c) THEN j ELSE Only(j, MakeRoom(j, c)), c)

\* Mutant of SecureRecord: only the very record it would replace is protected.
SecureReplaced(j, c) == \E i \in DOMAIN j : Same(j[i], c) /\ j[i].secure

\* cookie_is_secure_record(): a Secure cookie of this name the new one would hide
SecureRecord(j, c) ==
    \E i \in DOMAIN j : /\ j[i].name = c.name /\ j[i].secure
                        /\ DomainMatch(j[i].dom, c.dom) \/ DomainMatch(c.dom, j[i].dom)
                        /\ PathCovers(j[i].path, c.path)

\* cookie_find() and cookie_sendable(): the places of the records that a request
\* for path p of h is sent, in the order of the jar
SentTo(c, h) == DomainMatch(c.dom, h) /\ (c.hostOnly => c.dom = h)
Header(j, h, p, https) ==
    {i \in DOMAIN j : SentTo(j[i], h) /\ PathCovers(j[i].path, p) /\ (j[i].secure => https)}

-----------------------------------------------------------------------------
JarInit == data = <<>> /\ crawling = FALSE

\* A record of the cookies file, which no share caps.
LoadRecord ==
    /\ ~crawling
    /\ \E c \in FileRecords : data' = SetIn(data, c)
    /\ UNCHANGED crawling

Crawl == ~crawling /\ crawling' = TRUE /\ UNCHANGED data

\* treathead_opt(): the jar after the Set-Cookie of a response of host h.  A Domain
\* it may not claim drops the cookie; plain http may neither set a Secure cookie
\* nor shadow, replace or erase one; a date in the past erases.
After(j, h, https, c, past) ==
    IF \/ ~c.hostOnly /\ ~DomainAllowed(c.dom, h)
       \/ ~https /\ (c.secure \/ SecureRecord(j, c))
    THEN j
    ELSE IF past THEN Without(j, c)
    ELSE SetCapped(j, c)

\* Without a Domain the cookie is its host's alone.
Settable(h) == {c \in Offers : c.hostOnly => c.dom = h}

SetCookieHeader(h) ==
    /\ crawling
    /\ \E https \in BOOLEAN, c \in Settable(h), past \in BOOLEAN : data' = After(data, h, https, c, past)
    /\ UNCHANGED crawling

JarNext ==
    \/ LoadRecord
    \/ Crawl
    \/ \E h \in Hosts : SetCookieHeader(h)

JarSpec == JarInit /\ [][JarNext]_jarVars

-----------------------------------------------------------------------------
(* Properties.  Each says of every jar the program may hold what any response
   makes of it. *)

Lost(j, k) == {i \in DOMAIN j : \A l \in DOMAIN k : ~Same(j[i], k[l])}

\* A host within its share loses no cookie to a full jar, with the one it is setting
\* counted and the one that this replaces: only a host over its share pays, and the
\* last cookie it loses was one too many.
WithinShareKept ==
    crawling => \A h \in Hosts : \A c \in Settable(h) :
        LET lost == Lost(data, After(data, h, TRUE, c, FALSE))
            kept == DOMAIN data \ lost
        IN  \A i \in lost :
                /\ OverShare(data, DOMAIN data, data[i].dom, c)
                /\ \E l \in lost : /\ data[l].dom = data[i].dom
                                   /\ OverShare(data, kept \cup {l}, data[l].dom, c)

\* Plain http cannot reach a Secure cookie: for every https page, the cookie of a
\* name that is sent first is the one sent before the response, if that was
\* Secure and its host not over its share.
FirstSent(j, h, p, n) ==
    LET sent == {i \in Header(j, h, p, TRUE) : j[i].name = n}
    IN {j[i] : i \in {i \in sent : \A l \in sent : i <= l}}
SecureStaysFirst ==
    crawling => \A h \in Hosts : \A c \in Settable(h), past \in BOOLEAN :
        LET after == After(data, h, FALSE, c, past)
        IN  \A k \in Hosts, p \in Depths :
                \A d \in FirstSent(data, k, p, c.name) :
                    d.secure /\ ~OverShare(data, DOMAIN data, d.dom, c)
                        => d \in FirstSent(after, k, p, c.name)

=============================================================================
