-------------------------- MODULE LinkRulesProofs ---------------------------
(***************************************************************************)
(* For a robots.txt of any length, any set of links and any bounds: the     *)
(* rules kept are those of the groups that are ours, no page of a host is   *)
(* handled before its robots.txt, the link forbidden is the one the rules   *)
(* ban, and a link they ban was found before they were read, or is let      *)
(* through by the user.  For scan rules of any length: the matcher finds    *)
(* what each pattern means, and the last rule that means a link decides.    *)
(*                                                                         *)
(* The parser keeps three flags in place of the lines it has read.  The     *)
(* invariant says what each flag remembers of them, in terms of Open(i):    *)
(* User-agent line i would head a rule that came now.                       *)
(*                                                                         *)
(* The matcher of robots.txt is compared with Covers, the set of places of  *)
(* the path that a prefix of the pattern may get to.  After a star that set *)
(* is all that follows its least element, so the search need only keep the  *)
(* least one: GreedyPlaces says that it does, piece by piece.               *)
(*                                                                         *)
(* The matcher of the scan rules is compared with Meant, the sets of places *)
(* from which the rest of the pattern is met.  A call is Right if it finds  *)
(* the place it is asked about in its set, and if all that the memo notes   *)
(* has failed for good: a failure is noted only when no branch met the cap, *)
(* and with a call left for each star and word none does.  Meant allows a   *)
(* *(..) no character at the end of a name, as the matcher does; GlobIs     *)
(* says that only there is it more than what the pattern means.             *)
(***************************************************************************)
EXTENDS LinkRules, TLAPS, WellFoundedInduction, FiniteSetTheorems

Open(i) == IsAgent(i) /\ \A k \in DOMAIN body :
              k > i /\ IsRule(k) => \A l \in DOMAIN body : k < l => ~IsAgent(l)
Fresh(i) == IsAgent(i) /\ \A k \in DOMAIN body : k > i => ~IsRule(k)
OpenTo(who) == \E i \in DOMAIN body : Open(i) /\ body[i].who = who

Shapes == Agent \cup Rule \cup Other

ParserType ==
    /\ body \in Seq(Shapes)
    /\ parser \in [record : 0 .. 2, inAgents : BOOLEAN, specific : BOOLEAN, blob : Seq(Kepts)]

InAgentsSays == parser.inAgents <=> \E i \in DOMAIN body : Fresh(i)
SpecificSays == parser.specific <=> NamesUs
RecordSays ==
    /\ parser.record = 2 <=> OpenTo("us")
    /\ parser.record = 1 <=> ~NamesUs /\ OpenTo("any")

PInv == ParserType /\ InAgentsSays /\ SpecificSays /\ RecordSays /\ GroupsHonoured

-----------------------------------------------------------------------------
LEMMA KeptType ==
    ASSUME NEW line \in Rule
    PROVE  Kept(line) \in Seq(STRING)
<1>1. line.pat \in Seq(STRING)
  BY DEF Rule
<1>2. Room(line) \in Int
  BY SizesAssumption DEF Room
<1>3. CASE Cut(line)
  <2>1. Room(line) <= Len(line.pat)
    BY <1>1, <1>2, <1>3 DEF Cut
  <2>2. Kept(line) = SubSeq(line.pat, 1, Room(line))
    BY <1>3 DEF Kept
  <2> QED BY <1>1, <1>2, <2>1, <2>2
<1>4. CASE ~Cut(line)
  BY <1>1, <1>4 DEF Kept
<1> QED BY <1>3, <1>4

LEMMA AppendIs ==
    ASSUME NEW S, NEW s \in Seq(S), NEW x, NEW t, t = Append(s, x)
    PROVE  /\ DOMAIN t = DOMAIN s \cup {Len(s) + 1}
           /\ t[Len(s) + 1] = x
           /\ \A i \in DOMAIN s : t[i] = s[i]
  OBVIOUS

\* What appending a line does to what is said of the lines.
LEMMA Appended ==
    ASSUME body \in Seq(Shapes), NEW line \in Shapes, body' = Append(body, line)
    PROVE  /\ body' \in Seq(Shapes)
           /\ DOMAIN body' = 1 .. Len(body) + 1
           /\ DOMAIN body = 1 .. Len(body)
           /\ Len(body) \in Nat
           /\ body'[Len(body) + 1] = line
           /\ \A i \in DOMAIN body : body'[i] = body[i]
  OBVIOUS

LEMMA ShapesApart ==
    /\ \A a \in Agent : a.k = "agent" /\ a.who \in {"us", "any", "other"}
    /\ \A r \in Rule : r.k = "rule"
    /\ \A o \in Other : o.k = "other"
  BY DEF Agent, Rule, Other

-----------------------------------------------------------------------------
(* A line nobody reads *)

LEMMA OtherLine ==
    ASSUME PInv, NEW line \in Other, body' = Append(body, line), parser' = parser
    PROVE  PInv'
<1>1. line \in Shapes /\ line.k = "other"
  BY ShapesApart DEF Shapes
<1>n. PICK n \in Nat : n = Len(body)
  BY DEF PInv, ParserType
<1>2. /\ DOMAIN body' = 1 .. n + 1 /\ DOMAIN body = 1 .. n /\ n \in Nat
      /\ body'[n + 1] = line /\ \A i \in DOMAIN body : body'[i] = body[i]
      /\ body' \in Seq(Shapes)
  BY <1>1, <1>n, Appended DEF PInv, ParserType
<1>3. \A i : (IsAgent(i)' <=> IsAgent(i)) /\ (IsRule(i)' <=> IsRule(i))
  BY <1>1, <1>2 DEF IsAgent, IsRule
<1>4. \A i \in DOMAIN body : (Open(i)' <=> Open(i)) /\ (Fresh(i)' <=> Fresh(i))
  BY <1>2, <1>3 DEF Open, Fresh, IsAgent, IsRule
<1>5. NamesUs' <=> NamesUs
  BY <1>2, <1>3 DEF NamesUs, IsAgent
<1>6. \A i, j : Heads(i, j)' <=> Heads(i, j)
  BY <1>3 DEF Heads
<1>7. Ours' = Ours
  BY <1>2, <1>3, <1>5, <1>6 DEF Ours, OursAt, Heads, IsAgent, IsRule
<1>8. (OpenTo("us")' <=> OpenTo("us")) /\ (OpenTo("any")' <=> OpenTo("any"))
  <2>1. ASSUME NEW w PROVE OpenTo(w)' <=> OpenTo(w)
    <3>1. ~Open(n + 1)'
      BY <1>1, <1>2 DEF Open, IsAgent
    <3>2. \A i \in DOMAIN body' : i \in DOMAIN body \/ i = n + 1
      BY <1>2
    <3>3. \A i \in DOMAIN body : i \in DOMAIN body'
      BY <1>2
    <3>4. \A i \in DOMAIN body : Open(i)' /\ body'[i].who = w <=> Open(i) /\ body[i].who = w
      BY <1>2, <1>4
    <3> QED BY <3>1, <3>2, <3>3, <3>4 DEF OpenTo
  <2> QED BY <2>1
<1>9. InAgentsSays'
  BY <1>2, <1>3, <1>4 DEF PInv, InAgentsSays, Fresh, IsAgent
<1>10. SpecificSays' /\ RecordSays'
  BY <1>5, <1>8 DEF PInv, SpecificSays, RecordSays
<1>11. GroupsHonoured'
  BY <1>7 DEF PInv, GroupsHonoured, InBlob
<1>12. ParserType'
  BY <1>2 DEF PInv, ParserType
<1> QED BY <1>9, <1>10, <1>11, <1>12 DEF PInv

-----------------------------------------------------------------------------
(* A User-agent line *)

LEMMA AgentLine ==
    ASSUME PInv, NEW line \in Agent, body' = Append(body, line),
           parser' = OnAgent(parser, line.who)
    PROVE  PInv'
<1>1. line \in Shapes /\ line.k = "agent" /\ line.who \in {"us", "any", "other"}
  BY ShapesApart DEF Shapes
<1>n. PICK n \in Nat : n = Len(body)
  BY DEF PInv, ParserType
<1>2. /\ DOMAIN body' = 1 .. n + 1 /\ DOMAIN body = 1 .. n /\ n \in Nat
      /\ body'[n + 1] = line /\ \A i \in DOMAIN body : body'[i] = body[i]
      /\ body' \in Seq(Shapes)
  BY <1>1, <1>n, Appended DEF PInv, ParserType
<1>3. /\ \A i \in DOMAIN body : (IsAgent(i)' <=> IsAgent(i)) /\ (IsRule(i)' <=> IsRule(i))
      /\ IsAgent(n + 1)' /\ ~IsRule(n + 1)'
  BY <1>1, <1>2 DEF IsAgent, IsRule
<1> DEFINE r == IF parser.inAgents THEN parser.record ELSE 0
<1>p. /\ parser'.record = IF line.who = "us" THEN 2
                         ELSE IF line.who = "any" /\ ~parser.specific /\ r = 0 THEN 1 ELSE r
      /\ parser'.inAgents
      /\ parser'.specific <=> parser.specific \/ line.who = "us"
      /\ parser' \in [record : 0 .. 2, inAgents : BOOLEAN, specific : BOOLEAN, blob : Seq(Kepts)]
  <2>1. /\ parser.record \in 0 .. 2 /\ parser.inAgents \in BOOLEAN
        /\ parser.specific \in BOOLEAN /\ parser.blob \in Seq(Kepts) /\ <<>> \in Seq(Kepts)
        /\ parser = [record |-> parser.record, inAgents |-> parser.inAgents,
                     specific |-> parser.specific, blob |-> parser.blob]
    BY DEF PInv, ParserType
  <2>2. parser' = [record |-> IF line.who = "us" THEN 2
                             ELSE IF line.who = "any" /\ ~parser.specific /\ r = 0 THEN 1 ELSE r,
                   inAgents |-> TRUE,
                   specific |-> parser.specific \/ line.who = "us",
                   blob |-> IF line.who = "us" /\ ~parser.specific THEN <<>> ELSE parser.blob]
    BY <2>1 DEF OnAgent
  <2>3. r \in 0 .. 2
    BY <2>1
  <2> HIDE DEF r
  <2>4. (parser.specific \/ line.who = "us") \in BOOLEAN
    OBVIOUS
  <2>5. parser' \in [record : 0 .. 2, inAgents : BOOLEAN, specific : BOOLEAN, blob : Seq(Kepts)]
    BY <2>1, <2>2, <2>3, <2>4
  <2>6. parser'.specific = (parser.specific \/ line.who = "us")
    BY <2>2
  <2>7. parser'.record = (IF line.who = "us" THEN 2
                         ELSE IF line.who = "any" /\ ~parser.specific /\ r = 0 THEN 1 ELSE r)
    BY <2>2
  <2>8. parser'.inAgents
    BY <2>2
  <2> QED BY <2>5, <2>6, <2>7, <2>8
\* Who heads the group now: the new line, and those that no rule has followed.
<1>4. Open(n + 1)' /\ Fresh(n + 1)'
  BY <1>2, <1>3 DEF Open, Fresh
<1>5. \A i \in DOMAIN body : Fresh(i)' <=> Fresh(i)
  BY <1>2, <1>3 DEF Fresh
<1>6. \A i \in DOMAIN body : Open(i)' <=> Fresh(i)
  BY <1>2, <1>3 DEF Open, Fresh
<1>7. ASSUME parser.inAgents
      PROVE  /\ OpenTo("us")' <=> OpenTo("us") \/ line.who = "us"
             /\ OpenTo("any")' <=> OpenTo("any") \/ line.who = "any"
  <2>1. \A i \in DOMAIN body : Open(i)' <=> Open(i)
    <3>1. PICK f \in DOMAIN body : Fresh(f)
      BY <1>7 DEF PInv, InAgentsSays
    <3>2. \A i \in DOMAIN body : Open(i) => Fresh(i)
      BY <1>2, <3>1 DEF Open, Fresh, IsAgent, IsRule
    <3>3. \A i \in DOMAIN body : Fresh(i) => Open(i)
      BY DEF Open, Fresh
    <3> QED BY <1>6, <3>2, <3>3
  <2>2. OpenTo("us")' <=> OpenTo("us") \/ line.who = "us"
    BY <1>2, <1>4, <2>1 DEF OpenTo
  <2>3. OpenTo("any")' <=> OpenTo("any") \/ line.who = "any"
    BY <1>2, <1>4, <2>1 DEF OpenTo
  <2> QED BY <1>7, <2>2, <2>3
<1>8. ASSUME ~parser.inAgents
      PROVE  /\ OpenTo("us")' <=> line.who = "us"
             /\ OpenTo("any")' <=> line.who = "any"
  <2>1. \A i \in DOMAIN body : ~Open(i)'
    BY <1>6, <1>8 DEF PInv, InAgentsSays
  <2>2. OpenTo("us")' <=> line.who = "us"
    BY <1>2, <1>4, <2>1 DEF OpenTo
  <2>3. OpenTo("any")' <=> line.who = "any"
    BY <1>2, <1>4, <2>1 DEF OpenTo
  <2> QED BY <1>8, <2>2, <2>3
<1>9. /\ OpenTo("us")' <=> (parser.inAgents /\ OpenTo("us")) \/ line.who = "us"
      /\ OpenTo("any")' <=> (parser.inAgents /\ OpenTo("any")) \/ line.who = "any"
  BY <1>7, <1>8
<1>10. NamesUs' <=> NamesUs \/ line.who = "us"
  BY <1>2, <1>3 DEF NamesUs, IsAgent
<1>11. \A i, j : Heads(i, j)' <=> Heads(i, j)
  <2>1. ASSUME NEW i, NEW j PROVE Heads(i, j)' <=> Heads(i, j)
    <3>1. CASE j \in DOMAIN body
      BY <1>2, <1>3, <3>1 DEF Heads, IsAgent, IsRule
    <3>2. CASE j \notin DOMAIN body
      BY <1>2, <1>3, <3>2 DEF Heads, IsRule
    <3> QED BY <3>1, <3>2
  <2> QED BY <2>1
<1>12. InAgentsSays'
  BY <1>1, <1>2, <1>4 DEF PInv, ParserType, InAgentsSays, OnAgent
<1>13. SpecificSays'
  BY <1>1, <1>10 DEF PInv, ParserType, SpecificSays, OnAgent
<1>14. RecordSays'
  <2>1. OpenTo("us") => NamesUs
    BY DEF OpenTo, Open, NamesUs
  <2>2. /\ r = 2 <=> parser.inAgents /\ OpenTo("us")
        /\ r = 1 <=> parser.inAgents /\ ~NamesUs /\ OpenTo("any")
        /\ r \in 0 .. 2
    BY DEF PInv, ParserType, RecordSays
  <2> HIDE DEF r
  <2>3. parser'.record = 2 <=> OpenTo("us")'
    BY <1>1, <1>9, <1>p, <2>2
  <2>4. parser'.record = 1 <=> ~NamesUs' /\ OpenTo("any")'
    BY <1>1, <1>9, <1>10, <1>p, <2>1, <2>2 DEF PInv, SpecificSays
  <2> QED BY <2>3, <2>4 DEF RecordSays
<1>15. ParserType'
  BY <1>2, <1>p DEF ParserType
<1>16. GroupsHonoured'
  <2>1. CASE line.who = "us" /\ ~parser.specific
    <3>1. parser'.blob = <<>>
      BY <2>1 DEF PInv, ParserType, OnAgent
    <3>2. \A i, j : Heads(i, j)' => body'[i].who # "us"
      BY <1>2, <1>3, <1>11, <2>1 DEF PInv, SpecificSays, NamesUs, Heads, IsAgent
    <3>3. Ours' = {}
      BY <1>10, <2>1, <3>2 DEF Ours, OursAt
    <3> QED BY <3>1, <3>3 DEF GroupsHonoured, InBlob
  <2>2. CASE ~(line.who = "us" /\ ~parser.specific)
    <3>1. parser'.blob = parser.blob
      BY <1>1, <2>2 DEF PInv, ParserType, OnAgent
    <3>2. NamesUs' <=> NamesUs
      BY <1>10, <2>2 DEF PInv, SpecificSays
    <3>3. Ours' = Ours
      <4>1. ASSUME NEW j \in DOMAIN body PROVE OursAt(j)' <=> OursAt(j)
        <5>1. IsRule(j)' <=> IsRule(j)
          BY <1>2, <1>3 DEF IsRule
        <5>2. \A i : Heads(i, j) => i \in DOMAIN body /\ body'[i] = body[i]
          BY <1>3 DEF Heads, IsAgent
        <5> QED BY <1>11, <3>2, <5>1, <5>2 DEF OursAt
      <4>2. ~OursAt(n + 1)'
        BY <1>3 DEF OursAt, Heads
      <4> QED BY <1>2, <4>1, <4>2 DEF Ours
    <3> QED BY <3>1, <3>3 DEF PInv, GroupsHonoured, InBlob
  <2> QED BY <2>1, <2>2
<1> QED BY <1>12, <1>13, <1>14, <1>15, <1>16 DEF PInv

-----------------------------------------------------------------------------
(* A rule *)

LEMMA RuleLine ==
    ASSUME PInv, NEW line \in Rule, body' = Append(body, line),
           parser' = OnRule(parser, line, Len(body) + 1)
    PROVE  PInv'
<1>1. line \in Shapes /\ line.k = "rule"
  BY ShapesApart DEF Shapes
<1>n. PICK n \in Nat : n = Len(body)
  BY DEF PInv, ParserType
<1>2. /\ DOMAIN body' = 1 .. n + 1 /\ DOMAIN body = 1 .. n /\ n \in Nat
      /\ body'[n + 1] = line /\ \A i \in DOMAIN body : body'[i] = body[i]
      /\ body' \in Seq(Shapes)
  BY <1>1, <1>n, Appended DEF PInv, ParserType
<1>3. /\ \A i \in DOMAIN body : (IsAgent(i)' <=> IsAgent(i)) /\ (IsRule(i)' <=> IsRule(i))
      /\ ~IsAgent(n + 1)' /\ IsRule(n + 1)'
  BY <1>1, <1>2 DEF IsAgent, IsRule
<1> DEFINE kept == [allow |-> line.allow, pat |-> Kept(line), line |-> n + 1]
           skip == \/ parser.record = 0
                   \/ Kept(line) = <<>>
                   \/ Cut(line) /\ line.allow
                   \/ Len(parser.blob) >= MaxRules
<1>p. /\ parser'.inAgents = FALSE
      /\ parser'.record = parser.record
      /\ parser'.specific = parser.specific
      /\ parser'.blob = IF skip THEN parser.blob ELSE Append(parser.blob, kept)
      /\ parser' \in [record : 0 .. 2, inAgents : BOOLEAN, specific : BOOLEAN, blob : Seq(Kepts)]
  <2>1. /\ parser.record \in 0 .. 2 /\ parser.specific \in BOOLEAN /\ parser.blob \in Seq(Kepts)
        /\ parser = [record |-> parser.record, inAgents |-> parser.inAgents,
                     specific |-> parser.specific, blob |-> parser.blob]
    BY DEF PInv, ParserType
  <2>2. kept \in Kepts
    BY <1>n, KeptType DEF Kepts, Rule
  <2>3. Append(parser.blob, kept) \in Seq(Kepts)
    BY <2>1, <2>2
  <2>4. parser' = [record |-> parser.record, inAgents |-> FALSE, specific |-> parser.specific,
                   blob |-> IF skip THEN parser.blob ELSE Append(parser.blob, kept)]
    BY <1>n, <2>1 DEF OnRule
  <2> HIDE DEF kept, skip
  <2>5. (IF skip THEN parser.blob ELSE Append(parser.blob, kept)) \in Seq(Kepts)
    BY <2>1, <2>3
  <2> DEFINE blob == IF skip THEN parser.blob ELSE Append(parser.blob, kept)
  <2> HIDE DEF blob
  <2>6. blob \in Seq(Kepts)
    BY <2>5 DEF blob
  <2>7. parser' = [record |-> parser.record, inAgents |-> FALSE, specific |-> parser.specific,
                   blob |-> blob]
    BY <2>4 DEF blob
  <2>8. parser' \in [record : 0 .. 2, inAgents : BOOLEAN, specific : BOOLEAN, blob : Seq(Kepts)]
    <3>1. [record |-> parser.record, inAgents |-> FALSE, specific |-> parser.specific,
           blob |-> blob]
            \in [record : 0 .. 2, inAgents : BOOLEAN, specific : BOOLEAN, blob : Seq(Kepts)]
      BY <2>1, <2>6
    <3> QED BY <2>7, <3>1
  <2>9. /\ parser'.inAgents = FALSE /\ parser'.record = parser.record
        /\ parser'.specific = parser.specific /\ parser'.blob = blob
    BY <2>7
  <2> QED BY <2>8, <2>9 DEF blob
\* Who heads the group now, and the group of the rule just read
<1>4. \A i \in DOMAIN body : Open(i)' <=> Open(i)
  BY <1>2, <1>3 DEF Open
<1>5. \A i \in DOMAIN body' : ~Fresh(i)'
  BY <1>2, <1>3 DEF Fresh
<1>6. \A i \in DOMAIN body : Heads(i, n + 1)' <=> Open(i)
  BY <1>2, <1>3 DEF Open, Heads, IsAgent, IsRule
<1>7. \A j \in DOMAIN body : \A i : Heads(i, j)' <=> Heads(i, j)
  BY <1>2, <1>3 DEF Heads, IsAgent, IsRule
<1>8. NamesUs' <=> NamesUs
  BY <1>2, <1>3 DEF NamesUs
<1>9. (OpenTo("us")' <=> OpenTo("us")) /\ (OpenTo("any")' <=> OpenTo("any"))
  BY <1>2, <1>3, <1>4 DEF OpenTo, Open
<1>10. InAgentsSays'
  BY <1>5, <1>p DEF InAgentsSays
<1>11. SpecificSays' /\ RecordSays'
  BY <1>8, <1>9, <1>p DEF PInv, SpecificSays, RecordSays
<1>12. ParserType'
  BY <1>2, <1>p DEF ParserType
<1>13. GroupsHonoured'
  <2>1. \A j \in DOMAIN body : OursAt(j)' <=> OursAt(j)
    BY <1>2, <1>7, <1>8 DEF OursAt, Heads, IsAgent, IsRule
  <2>2. parser.record # 0 <=> OpenTo(IF NamesUs THEN "us" ELSE "any")
    <3>1. OpenTo("us") => NamesUs
      BY DEF OpenTo, Open, NamesUs
    <3> QED BY <3>1 DEF PInv, ParserType, RecordSays
  <2>3. OpenTo(IF NamesUs THEN "us" ELSE "any") <=>
          \E i \in DOMAIN body' :
             Heads(i, n + 1)' /\ body'[i].who = (IF NamesUs' THEN "us" ELSE "any")
    BY <1>2, <1>3, <1>6, <1>8 DEF OpenTo, Open, Heads
  <2>4. OursAt(n + 1)' <=> /\ parser.record # 0
                           /\ Kept(line) # <<>>
                           /\ ~(Cut(line) /\ line.allow)
    BY <1>2, <2>2, <2>3 DEF OursAt
  <2>5. Ours' = Ours \cup (IF OursAt(n + 1)' THEN {n + 1} ELSE {})
    BY <1>2, <2>1 DEF Ours
  <2>6. parser.blob \in Seq(Kepts)
    BY DEF PInv, ParserType
  <2>7. CASE skip
    <3>1. parser'.blob = parser.blob
      BY <1>p, <2>7
    <3>2. InBlob' = InBlob
      BY <3>1 DEF InBlob
    <3>3. Len(parser.blob) < MaxRules => ~OursAt(n + 1)'
      BY <2>4, <2>6, <2>7, SizesAssumption
    <3> QED BY <2>5, <3>1, <3>2, <3>3 DEF PInv, GroupsHonoured
  <2>8. CASE ~skip
    <3>1. parser'.blob = Append(parser.blob, kept)
      BY <1>p, <2>8
    <3>2. InBlob' = InBlob \cup {n + 1}
      <4>1. /\ DOMAIN parser'.blob = DOMAIN parser.blob \cup {Len(parser.blob) + 1}
            /\ parser'.blob[Len(parser.blob) + 1] = kept
            /\ \A i \in DOMAIN parser.blob : parser'.blob[i] = parser.blob[i]
        <5> HIDE DEF kept, skip
        <5>1. \A t : t = Append(parser.blob, kept) =>
                 /\ DOMAIN t = DOMAIN parser.blob \cup {Len(parser.blob) + 1}
                 /\ t[Len(parser.blob) + 1] = kept
                 /\ \A i \in DOMAIN parser.blob : t[i] = parser.blob[i]
          BY <2>6, AppendIs
        <5> QED BY <3>1, <5>1
      <4> QED BY <4>1 DEF InBlob
    <3>3. OursAt(n + 1)' /\ Len(parser.blob) < MaxRules
      BY <2>4, <2>6, <2>8, SizesAssumption
    <3> QED BY <2>5, <3>2, <3>3 DEF PInv, GroupsHonoured
  <2> QED BY <2>7, <2>8
<1> QED BY <1>10, <1>11, <1>12, <1>13 DEF PInv

-----------------------------------------------------------------------------
(* The links *)

Urls == ToSet(Entries) \cup Paths \cup {RobotsTxt}

\* A page of the host stands behind robots.txt in the heap, which the claim of
\* the host put there.
HInv ==
    /\ heap \in Seq([url : Urls, from : Nat])
    /\ ptr \in Nat \ {0}
    /\ token # NoToken => \E j \in DOMAIN heap : heap[j].url = RobotsTxt
    /\ \A i \in DOMAIN heap : heap[i].url \in Paths \ Isolated
          => \E j \in 1 .. i - 1 : heap[j].url = RobotsTxt

IInv == PInv /\ HInv

LEMMA InitIInv == Init => IInv
<1> SUFFICES ASSUME Init PROVE IInv
  OBVIOUS
<1>1. PInv
  BY SizesAssumption DEF Init, PInv, ParserType, InAgentsSays, SpecificSays, RecordSays,
     GroupsHonoured, InBlob, Ours, OursAt, Start, Fresh, NamesUs, OpenTo
<1>2. HInv
  <2>1. heap \in Seq([url : Urls, from : Nat])
    <3> PICK m \in Nat : DOMAIN Entries = 1 .. m
      BY LinksAssumption
    <3>1. \A i \in 1 .. m : [url |-> Entries[i], from |-> 0] \in [url : Urls, from : Nat]
      BY DEF Urls, ToSet
    <3>2. heap = [i \in 1 .. m |-> [url |-> Entries[i], from |-> 0]]
      BY DEF Init
    <3> QED BY <3>1, <3>2
  <2>2. \A i \in DOMAIN heap : heap[i].url \notin Paths
    BY LinksAssumption DEF Init, ToSet
  <2> QED BY <2>1, <2>2 DEF Init, HInv
<1> QED BY <1>1, <1>2 DEF IInv

LEMMA Parsed == PInv /\ UNCHANGED <<body, parser>> => PInv'
<1> SUFFICES ASSUME PInv, body' = body, parser' = parser PROVE PInv'
  OBVIOUS
<1>1. ParserType'
  BY DEF PInv, ParserType
<1>2. InAgentsSays'
  BY DEF PInv, InAgentsSays, Fresh, IsAgent, IsRule
<1>3. NamesUs' <=> NamesUs
  BY DEF NamesUs, IsAgent
<1>4. (OpenTo("us")' <=> OpenTo("us")) /\ (OpenTo("any")' <=> OpenTo("any"))
  BY DEF OpenTo, Open, IsAgent, IsRule
<1>5. Ours' = Ours
  BY DEF Ours, OursAt, Heads, NamesUs, IsAgent, IsRule
<1> QED
  BY <1>1, <1>2, <1>3, <1>4, <1>5 DEF PInv, SpecificSays, RecordSays, GroupsHonoured, InBlob

LEMMA Found ==
    ASSUME IInv, NEW path \in Paths, FindLink(path)
    PROVE  IInv'
<1>1. PInv'
  BY Parsed DEF IInv, FindLink
<1> PICK n \in Nat : n = Len(heap)
  BY DEF IInv, HInv
<1>2. Link(path) \in [url : Urls, from : Nat] /\ Link(RobotsTxt) \in [url : Urls, from : Nat]
  BY DEF IInv, HInv, Link, Urls
<1>3. CASE token = NoToken /\ path \notin Isolated
  <2>1. heap' = heap \o <<Link(RobotsTxt), Link(path)>> /\ ptr' = ptr
    BY <1>3 DEF FindLink, Record
  <2>2. /\ heap' \in Seq([url : Urls, from : Nat])
        /\ DOMAIN heap' = 1 .. n + 2
        /\ \A i \in 1 .. n : heap'[i] = heap[i]
        /\ DOMAIN heap = 1 .. n
        /\ heap'[n + 1].url = RobotsTxt
        /\ RobotsTxt \notin Paths
    BY <1>2, <2>1, LinksAssumption DEF IInv, HInv, Link
  <2>3. \A i \in 1 .. n : heap'[i].url \in Paths \ Isolated
          => \E j \in 1 .. i - 1 : heap'[j].url = RobotsTxt
    <3> TAKE i \in 1 .. n
    <3> HAVE heap'[i].url \in Paths \ Isolated
    <3>1. PICK j \in 1 .. i - 1 : heap[j].url = RobotsTxt
      BY <2>2 DEF IInv, HInv
    <3>2. j \in 1 .. n /\ heap'[j] = heap[j]
      BY <2>2
    <3> QED BY <3>1, <3>2
  <2>4. n + 1 \in 1 .. (n + 2) - 1 /\ n + 1 \in DOMAIN heap'
    BY <2>2
  <2>5. \A i \in DOMAIN heap' : heap'[i].url \in Paths \ Isolated
          => \E j \in 1 .. i - 1 : heap'[j].url = RobotsTxt
    <3> TAKE i \in DOMAIN heap'
    <3>1. i \in 1 .. n \/ i = n + 1 \/ i = n + 2
      BY <2>2
    <3> QED BY <2>2, <2>3, <2>4, <3>1
  <2> QED BY <1>1, <2>1, <2>2, <2>4, <2>5 DEF IInv, HInv
<1>4. CASE ~(token = NoToken /\ path \notin Isolated)
  <2>1. heap' = Append(heap, Link(path)) /\ ptr' = ptr /\ token' = token
    BY <1>4 DEF FindLink, Record
  <2>2. /\ heap' \in Seq([url : Urls, from : Nat])
        /\ DOMAIN heap' = 1 .. n + 1
        /\ DOMAIN heap = 1 .. n
        /\ \A i \in 1 .. n : heap'[i] = heap[i]
        /\ heap'[n + 1].url = path
    BY <1>2, <2>1 DEF IInv, HInv, Link
  <2> QED BY <1>1, <1>4, <2>1, <2>2 DEF IInv, HInv
<1> QED BY <1>3, <1>4

LEMMA StepIInv == IInv /\ [Next]_vars => IInv'
<1> SUFFICES ASSUME IInv, [Next]_vars PROVE IInv'
  OBVIOUS
<1>1. ASSUME NEW path \in Paths, FindLink(path) PROVE IInv'
  BY <1>1, Found
<1>2. CASE NextLink
  BY <1>2, Parsed DEF IInv, HInv, NextLink
<1>3. ASSUME NEW line \in Lines, ReadLine(line) PROVE IInv'
  <2>1. line \in Agent \cup Rule \cup Other
    BY LinesAssumption
  <2>2. parser' = OnLine(parser, line, Len(body) + 1) /\ body' = Append(body, line)
    BY <1>3 DEF ReadLine
  <2>3. ASSUME line \in Agent PROVE PInv'
    <3>1. parser' = OnAgent(parser, line.who)
      BY <2>2, <2>3, ShapesApart DEF OnLine
    <3> QED BY <2>2, <2>3, <3>1, AgentLine DEF IInv
  <2>4. ASSUME line \in Rule PROVE PInv'
    <3>1. parser' = OnRule(parser, line, Len(body) + 1)
      BY <2>2, <2>4, ShapesApart DEF OnLine
    <3> QED BY <2>2, <2>4, <3>1, RuleLine DEF IInv
  <2>5. ASSUME line \in Other PROVE PInv'
    <3>1. parser' = parser
      BY <2>2, <2>5, ShapesApart DEF OnLine
    <3> QED BY <2>2, <2>5, <3>1, OtherLine DEF IInv
  <2>6. PInv'
    BY <2>1, <2>3, <2>4, <2>5
  <2> QED BY <1>3, <2>6 DEF IInv, HInv, ReadLine
<1>4. CASE Install
  BY <1>4, Parsed DEF IInv, HInv, Install, Handled
<1>5. CASE UNCHANGED vars
  BY <1>5, Parsed DEF IInv, HInv, vars
<1> QED BY <1>1, <1>2, <1>3, <1>4, <1>5 DEF Next

-----------------------------------------------------------------------------
(* The links the rules ban *)

\* The host has one robots.txt, queued when the host was claimed.  While it is
\* still to come, every link was found on a page handled before it; from then
\* on, the rules that judge the links stay as they were read.
CInv ==
    /\ \A i, j \in DOMAIN heap : heap[i].url = RobotsTxt /\ heap[j].url = RobotsTxt => i = j
    /\ \A k \in DOMAIN heap : heap[k].url = RobotsTxt =>
          /\ token # NoToken
          /\ \A i \in DOMAIN heap :
                \/ heap[i].from < k
                \/ ptr > k /\ (heap[i].url \in Paths => ~Forbids(heap[i].url))
    /\ \A i \in DOMAIN heap : heap[i].from <= ptr

LEMMA HeapFacts ==
    ASSUME HInv
    PROVE  DOMAIN heap = 1 .. Len(heap) /\ \A i \in DOMAIN heap : heap[i].from \in Nat
<1> DEFINE Links == [url : Urls, from : Nat]
<1>1. heap \in Seq(Links)
  BY DEF HInv
<1>2. \A l \in Links : l.from \in Nat
  OBVIOUS
<1> HIDE DEF Links
<1>3. \A i \in DOMAIN heap : heap[i] \in Links
  BY <1>1
<1> QED BY <1>1, <1>2, <1>3

LEMMA InitCame == Init => CInv
<1> SUFFICES ASSUME Init PROVE CInv
  OBVIOUS
<1>1. DOMAIN heap = DOMAIN Entries /\ ptr = 1
  BY DEF Init
<1>2. \A i \in DOMAIN heap : heap[i].url # RobotsTxt /\ heap[i].from = 0
  BY LinksAssumption DEF Init, ToSet
<1> QED BY <1>1, <1>2 DEF CInv

LEMMA FoundCame ==
    ASSUME IInv, CInv, NEW path \in Paths, FindLink(path)
    PROVE  CInv'
<1> PICK n \in Nat : n = Len(heap)
  BY DEF IInv, HInv
<1>1. /\ DOMAIN heap = 1 .. n /\ heap \in Seq([url : Urls, from : Nat])
      /\ ptr \in 1 .. n /\ ptr' = ptr
  BY DEF FindLink, IInv, HInv
<1>2. heap[ptr].url # RobotsTxt /\ path # RobotsTxt /\ ~Forbids(path)
  BY LinksAssumption DEF FindLink, IsPage
<1>3. CASE token = NoToken /\ path \notin Isolated
  <2>1. heap' = heap \o <<Link(RobotsTxt), Link(path)>> /\ token' = <<>>
    BY <1>3 DEF FindLink, Record
  <2>2. /\ DOMAIN heap' = 1 .. n + 2
        /\ \A i \in 1 .. n : heap'[i] = heap[i]
        /\ heap'[n + 1].url = RobotsTxt /\ heap'[n + 1].from = ptr
        /\ heap'[n + 2].url = path /\ heap'[n + 2].from = ptr
    BY <1>1, <2>1 DEF Link
  <2>3. \A i \in 1 .. n : heap[i].url # RobotsTxt
    BY <1>1, <1>3 DEF CInv
  <2>4. \A i \in 1 .. n : heap[i].from \in Nat /\ heap[i].from <= ptr
    BY <1>1, HeapFacts DEF CInv, IInv
  <2>5. <<>> # NoToken
    <3>1. <<>> \in Seq(Kepts)
      OBVIOUS
    <3> QED BY <3>1, TokenAssumption
  <2>6. \A i \in DOMAIN heap' : i \in 1 .. n \/ i = n + 1 \/ i = n + 2
    BY <2>2
  <2>7. \A k \in DOMAIN heap' : heap'[k].url = RobotsTxt => k = n + 1
    BY <1>2, <2>2, <2>3, <2>6
  <2>8. \A i \in DOMAIN heap' : heap'[i].from < n + 1 /\ heap'[i].from <= ptr
    <3> TAKE i \in DOMAIN heap'
    <3>1. CASE i \in 1 .. n
      BY <1>1, <2>2, <2>4, <3>1
    <3>2. CASE i = n + 1 \/ i = n + 2
      BY <1>1, <2>2, <3>2
    <3> QED BY <2>6, <3>1, <3>2
  <2> QED BY <1>1, <2>1, <2>5, <2>7, <2>8 DEF CInv
<1>4. CASE ~(token = NoToken /\ path \notin Isolated)
  <2>1. heap' = Append(heap, Link(path)) /\ token' = token
    BY <1>4 DEF FindLink, Record
  <2>2. /\ DOMAIN heap' = 1 .. n + 1
        /\ \A i \in 1 .. n : heap'[i] = heap[i]
        /\ heap'[n + 1].url = path /\ heap'[n + 1].from = ptr
    BY <1>1, <2>1 DEF Link
  <2>3. \A i \in DOMAIN heap' : i \in 1 .. n \/ i = n + 1
    BY <2>2
  <2>4. \A k \in DOMAIN heap' : heap'[k].url = RobotsTxt => k \in 1 .. n /\ k # ptr
    BY <1>2, <2>2, <2>3
  <2>5. \A u : Forbids(u)' <=> Forbids(u)
    BY <2>1 DEF Forbids, Disallowed
  <2>6. ASSUME NEW k \in 1 .. n, heap[k].url = RobotsTxt
        PROVE  /\ token # NoToken
               /\ \A i \in DOMAIN heap' :
                     \/ heap'[i].from < k
                     \/ ptr > k /\ (heap'[i].url \in Paths => ~Forbids(heap'[i].url))
    <3>1. token # NoToken
      BY <1>1, <2>6 DEF CInv
    <3>2. ASSUME NEW i \in 1 .. n
          PROVE  \/ heap'[i].from < k
                 \/ ptr > k /\ (heap'[i].url \in Paths => ~Forbids(heap'[i].url))
      <4>1. heap'[i] = heap[i] /\ i \in DOMAIN heap /\ k \in DOMAIN heap
        BY <1>1, <2>2, <2>6
      <4>2. \A g \in DOMAIN heap :
                \/ heap[g].from < k
                \/ ptr > k /\ (heap[g].url \in Paths => ~Forbids(heap[g].url))
        BY <2>6, <4>1, Zenon DEF CInv
      <4> QED BY <4>1, <4>2
    <3>3. ptr < k \/ ptr > k
      BY <1>1, <1>2, <2>6
    <3>4. \/ heap'[n + 1].from < k
          \/ ptr > k /\ (heap'[n + 1].url \in Paths => ~Forbids(heap'[n + 1].url))
      BY <1>2, <2>2, <3>3
    <3> QED BY <2>3, <3>1, <3>2, <3>4
  <2>7. \A i \in DOMAIN heap' : heap'[i].from <= ptr
    BY <1>1, <2>2, <2>3 DEF CInv
  <2>8. \A i, j \in DOMAIN heap' :
          heap'[i].url = RobotsTxt /\ heap'[j].url = RobotsTxt => i = j
    BY <1>1, <2>2, <2>4 DEF CInv
  <2>9. ASSUME NEW k \in DOMAIN heap', heap'[k].url = RobotsTxt
        PROVE  /\ token' # NoToken
               /\ \A i \in DOMAIN heap' :
                     \/ heap'[i].from < k
                     \/ ptr' > k /\ (heap'[i].url \in Paths => ~Forbids(heap[i].url)')
    <3>1. k \in 1 .. n /\ heap[k].url = RobotsTxt
      BY <2>2, <2>4, <2>9
    <3>2. /\ token # NoToken
          /\ \A i \in DOMAIN heap' :
                \/ heap'[i].from < k
                \/ ptr > k /\ (heap'[i].url \in Paths => ~Forbids(heap'[i].url))
      BY <2>6, <3>1
    <3> QED BY <1>1, <2>1, <2>5, <3>2
  <2> QED BY <1>1, <2>7, <2>8, <2>9 DEF CInv
<1> QED BY <1>3, <1>4

LEMMA StepCame == IInv /\ CInv /\ [Next]_vars => CInv'
<1> SUFFICES ASSUME IInv, CInv, [Next]_vars PROVE CInv'
  OBVIOUS
<1> PICK n \in Nat : n = Len(heap)
  BY DEF IInv, HInv
<1>1. /\ DOMAIN heap = 1 .. n /\ ptr \in Nat \ {0}
      /\ \A i \in 1 .. n : heap[i].from \in Nat
  BY HeapFacts DEF IInv, HInv
<1>2. ASSUME NEW path \in Paths, FindLink(path) PROVE CInv'
  BY <1>2, FoundCame
<1>3. CASE NextLink
  <2>1. UNCHANGED <<heap, token>> /\ ptr' = ptr + 1
    BY <1>3 DEF NextLink
  <2>2. \A u : Forbids(u)' <=> Forbids(u)
    BY <2>1 DEF Forbids, Disallowed
  <2> QED BY <1>1, <2>1, <2>2 DEF CInv
<1>4. CASE Install
  <2>1. /\ heap' = heap /\ ptr' = ptr + 1
        /\ token' = IF parser.blob # <<>> THEN parser.blob ELSE token
        /\ ptr \in 1 .. n /\ heap[ptr].url = RobotsTxt
    BY <1>1, <1>4 DEF Install, Handled
  <2>2. token # NoToken /\ \A k \in 1 .. n : heap[k].url = RobotsTxt => k = ptr
    BY <1>1, <2>1 DEF CInv
  <2>3. token' # NoToken
    BY <2>1, <2>2, TokenAssumption DEF IInv, PInv, ParserType
  <2>4. \A i \in 1 .. n : heap[i].from < ptr
    BY <1>1, <2>1 DEF CInv
  <2> QED BY <1>1, <2>1, <2>2, <2>3, <2>4 DEF CInv
<1>5. CASE UNCHANGED <<heap, ptr, token>>
  <2>1. \A u : Forbids(u)' <=> Forbids(u)
    BY <1>5 DEF Forbids, Disallowed
  <2> QED BY <1>5, <2>1 DEF CInv
<1> QED BY <1>2, <1>3, <1>4, <1>5 DEF Next, ReadLine, vars

-----------------------------------------------------------------------------
(* Induction and recursion over numbers, with sets in place of predicates *)

LEMMA NatSetInduction ==
    ASSUME NEW S, 0 \in S, \A n \in Nat : n \in S => n + 1 \in S
    PROVE  Nat \subseteq S
<1> DEFINE T == Nat \ S
<1> SUFFICES ASSUME T # {} PROVE FALSE
  OBVIOUS
<1>1. PICK n \in T : \A m \in T : ~(<<m, n>> \in OpToRel(<, Nat))
  <2> HIDE DEF T
  <2>1. T \subseteq Nat
    BY DEF T
  <2> QED BY <2>1, WFMin, NatLessThanWellFounded, Zenon
<1>2. n # 0 /\ n - 1 \in Nat /\ n - 1 \notin S
  BY DEF T
<1>3. <<n - 1, n>> \in OpToRel(<, Nat)
  BY <1>2 DEF OpToRel
<1> QED BY <1>1, <1>2, <1>3

\* What a recursive function on a finite set of numbers needs: T[n] looks at
\* the values below n only.
Recursion(N, D, X, T) ==
    /\ N \in Nat /\ D \subseteq 0 .. N /\ X # {}
    /\ T \in [D -> [[D -> X] -> X]]
    /\ \A n \in D : \A f, g \in [D -> X] :
           (\A k \in D : k < n => f[k] = g[k]) => T[n][f] = T[n][g]

LEMMA RecursionExists ==
    ASSUME NEW N, NEW D, NEW X, NEW T, Recursion(N, D, X, T)
    PROVE  \E f \in [D -> X] : \A n \in D : f[n] = T[n][f]
<1> USE DEF Recursion
<1> DEFINE Upto(m) == \E f \in [D -> X] : \A n \in D : n < m => f[n] = T[n][f]
<1> DEFINE S == {m \in Nat : Upto(m)}
<1>1. 0 \in S
  <2>1. PICK x \in X : TRUE
    OBVIOUS
  <2>2. [n \in D |-> x] \in [D -> X]
    OBVIOUS
  <2>3. \A n \in D : ~(n < 0)
    OBVIOUS
  <2> QED BY <2>2, <2>3
<1>2. ASSUME NEW m \in Nat, m \in S PROVE m + 1 \in S
  <2>1. PICK f \in [D -> X] : \A n \in D : n < m => f[n] = T[n][f]
    BY <1>2
  <2>2. CASE m \in D
    <3> DEFINE g == [f EXCEPT ![m] = T[m][f]]
    <3>1. g \in [D -> X]
      BY <2>2
    <3>2. \A k \in D : k # m => g[k] = f[k]
      OBVIOUS
    <3>3. ASSUME NEW n \in D, n < m + 1 PROVE g[n] = T[n][g]
      <4>1. \A k \in D : k < n => f[k] = g[k]
        BY <3>2, <3>3
      <4>2. T[n][f] = T[n][g]
        <5> HIDE DEF g
        <5> QED BY <3>1, <4>1
      <4>3. CASE n = m
        BY <2>2, <4>2, <4>3
      <4>4. CASE n < m
        BY <2>1, <3>2, <4>2, <4>4
      <4> QED BY <3>3, <4>3, <4>4
    <3> HIDE DEF g
    <3> QED BY <3>1, <3>3
  <2>3. CASE m \notin D
    <3>1. ASSUME NEW n \in D, n < m + 1 PROVE n < m
      <4>1. n \in Nat /\ n # m
        BY <2>3
      <4> QED BY <3>1, <4>1
    <3>2. Upto(m + 1)
      BY <2>1, <3>1
    <3> QED BY <3>2
  <2> QED BY <2>2, <2>3
<1>3. N + 1 \in S
  <2> HIDE DEF S
  <2> QED BY <1>1, <1>2, NatSetInduction
<1>4. \A n \in D : n < N + 1
  OBVIOUS
<1> QED BY <1>3, <1>4

-----------------------------------------------------------------------------
(* What Best computes *)

Scans == [matched : BOOLEAN, len : Nat, allow : BOOLEAN]

BestStep(g, n, rules, path) ==
    IF n = 0 THEN NoRule
    ELSE IF Better(g[n - 1], rules[n], path)
         THEN [matched |-> TRUE, len |-> Len(rules[n].pat), allow |-> rules[n].allow]
    ELSE g[n - 1]

LEMMA BestScan ==
    ASSUME NEW rules \in Seq(Kepts), NEW path
    PROVE  \E f : /\ Best(rules, path) = f[Len(rules)]
                  /\ f = [n \in 0 .. Len(rules) |-> BestStep(f, n, rules, path)]
<1> DEFINE D == 0 .. Len(rules)
           T == [n \in D |-> [g \in [D -> Scans] |-> BestStep(g, n, rules, path)]]
           h == CHOOSE f : f = [n \in D |-> BestStep(f, n, rules, path)]
<1>1. ASSUME NEW g \in [D -> Scans], NEW n \in D
      PROVE  BestStep(g, n, rules, path) \in Scans
  <2>1. CASE n = 0
    BY <2>1 DEF BestStep, NoRule, Scans
  <2>2. CASE n # 0
    <3>1. n - 1 \in D /\ n \in 1 .. Len(rules)
      BY <2>2
    <3>2. rules[n] \in Kepts
      BY <3>1
    <3>3. Len(rules[n].pat) \in Nat /\ rules[n].allow \in BOOLEAN
      BY <3>2 DEF Kepts
    <3>4. g[n - 1] \in Scans
      BY <3>1
    <3> QED BY <2>2, <3>3, <3>4 DEF BestStep, Scans
  <2> QED BY <2>1, <2>2
<1>2. T \in [D -> [[D -> Scans] -> Scans]]
  BY <1>1
<1>3. ASSUME NEW n \in D, NEW f \in [D -> Scans], NEW g \in [D -> Scans],
             \A k \in D : k < n => f[k] = g[k]
      PROVE  T[n][f] = T[n][g]
  <2>1. n = 0 \/ f[n - 1] = g[n - 1]
    BY <1>3
  <2> QED BY <2>1 DEF BestStep
<1>4. PICK f \in [D -> Scans] : \A n \in D : f[n] = T[n][f]
  <2>1. NoRule \in Scans
    BY DEF NoRule, Scans
  <2>2. Recursion(Len(rules), D, Scans, T)
    <3>1. D \subseteq 0 .. Len(rules) /\ Len(rules) \in Nat /\ Scans # {}
      BY <2>1
    <3> HIDE DEF T, D
    <3> QED BY <1>2, <1>3, <3>1 DEF Recursion
  <2> HIDE DEF T, D
  <2> QED BY <2>2, RecursionExists
<1>5. f = [n \in D |-> BestStep(f, n, rules, path)]
  BY <1>4
<1>6. h = [n \in D |-> BestStep(h, n, rules, path)]
  BY <1>5
<1>7. Best(rules, path) = h[Len(rules)]
  BY DEF Best, BestStep
<1> QED BY <1>6, <1>7

\* The least and the greatest of a set of numbers
LEMMA LeastExists ==
    ASSUME NEW S \in SUBSET Nat, S # {}
    PROVE  \E m \in S : \A k \in S : m <= k
<1>1. PICK m \in S : \A k \in S : ~(<<k, m>> \in OpToRel(<, Nat))
  BY WFMin, NatLessThanWellFounded, Zenon
<1>2. ASSUME NEW k \in S PROVE m <= k
  <2>1. m \in Nat /\ k \in Nat
    OBVIOUS
  <2>2. ASSUME k < m PROVE <<k, m>> \in OpToRel(<, Nat)
    BY <2>1, <2>2 DEF OpToRel
  <2>3. ~(<<k, m>> \in OpToRel(<, Nat))
    BY <1>1
  <2>4. ~(k < m)
    BY <2>2, <2>3, Zenon
  <2> QED BY <2>1, <2>4
<1> QED BY <1>2

LEMMA MinIs ==
    ASSUME NEW S \in SUBSET Nat, S # {}
    PROVE  Min(S) \in S /\ \A k \in S : Min(S) <= k
<1>1. \E m \in S : \A k \in S : m <= k
  BY LeastExists
<1> QED BY <1>1 DEF Min

LEMMA MaxIs ==
    ASSUME NEW N \in Nat, NEW S \in SUBSET (0 .. N), S # {}
    PROVE  Max(S) \in S /\ \A k \in S : k <= Max(S)
<1> DEFINE D == {N - k : k \in S}
<1>1. D \in SUBSET Nat /\ D # {}
  <2>1. \A k \in S : N - k \in Nat
    OBVIOUS
  <2>2. \E k \in S : TRUE
    OBVIOUS
  <2> QED BY <2>1, <2>2
<1>2. PICK d \in D : \A k \in D : d <= k
  <2> HIDE DEF D
  <2> QED BY <1>1, LeastExists
<1>3. PICK m \in S : d = N - m
  OBVIOUS
<1>4. ASSUME NEW k \in S PROVE k <= m
  <2>1. N - m <= N - k
    BY <1>2, <1>3
  <2> QED BY <2>1
<1>5. \E x \in S : \A y \in S : x >= y
  BY <1>4
<1> QED BY <1>5 DEF Max

-----------------------------------------------------------------------------
(* The pieces of a text *)

Texts == Seq(STRING)

\* The text from s + 1 to n stands in the path after its first i characters.
Stands(text, path, s, n, i) ==
    /\ i + (n - s) <= Len(path)
    /\ \A k \in 1 .. n - s : path[i + k] = text[s + k]

LEMMA AtStands ==
    ASSUME NEW text \in Texts, NEW path \in Texts,
           NEW n \in 0 .. Len(text), NEW s \in 0 .. n, NEW i \in Nat
    PROVE  /\ Len(SubSeq(text, s + 1, n)) = n - s
           /\ At(SubSeq(text, s + 1, n), path, i) <=> Stands(text, path, s, n, i)
<1> DEFINE piece == SubSeq(text, s + 1, n)
           span == SubSeq(path, i + 1, i + (n - s))
<1>1. /\ Len(piece) = n - s /\ DOMAIN piece = 1 .. n - s
      /\ \A k \in 1 .. n - s : piece[k] = text[s + k]
  BY DEF Texts
<1>2. CASE i + (n - s) <= Len(path)
  <2>1. /\ Len(span) = n - s /\ DOMAIN span = 1 .. n - s
        /\ \A k \in 1 .. n - s : span[k] = path[i + k]
    BY <1>2 DEF Texts
  <2>2. span = piece <=> \A k \in 1 .. n - s : span[k] = piece[k]
    <3>1. span \in Seq(STRING) /\ piece \in Seq(STRING)
      BY <1>2 DEF Texts
    <3> HIDE DEF span, piece
    <3> QED BY <1>1, <2>1, <3>1
  <2> QED BY <1>1, <1>2, <2>1, <2>2 DEF At, Stands
<1>3. CASE ~(i + (n - s) <= Len(path))
  BY <1>1, <1>3 DEF At, Stands
<1> QED BY <1>1, <1>2, <1>3

LEMMA StarIsBefore ==
    ASSUME NEW text \in Texts, NEW e \in Ends(text)
    PROVE  /\ e \in 1 .. Len(text) + 1
           /\ StarBefore(text, e) \in 0 .. e - 1
           /\ StarBefore(text, e) # 0 => /\ StarBefore(text, e) \in Ends(text)
                                         /\ StarBefore(text, e) \in DOMAIN text
                                         /\ text[StarBefore(text, e)] = "*"
           /\ \A i \in StarBefore(text, e) + 1 .. e - 1 : i \in DOMAIN text /\ text[i] # "*"
<1> DEFINE S == {0} \cup {d \in Ends(text) : d < e}
<1>1. Len(text) \in Nat /\ DOMAIN text = 1 .. Len(text) /\ Ends(text) \subseteq 1 .. Len(text) + 1
  BY DEF Texts, Ends
<1>2. S \in SUBSET (0 .. Len(text) + 1) /\ S # {} /\ Len(text) + 1 \in Nat
  BY <1>1
<1>3. Max(S) \in S /\ \A k \in S : k <= Max(S)
  <2> HIDE DEF S
  <2> QED BY <1>2, MaxIs
<1>4. StarBefore(text, e) = Max(S)
  BY DEF StarBefore
<1> DEFINE m == Max(S)
<1>5. m \in S /\ \A k \in S : k <= m
  BY <1>3
<1> HIDE DEF m
<1>6. m \in 0 .. e - 1 /\ (m # 0 => m \in Ends(text) /\ m < e)
  BY <1>1, <1>5
<1>7. m # 0 => m \in DOMAIN text /\ text[m] = "*"
  <2>1. m # 0 => m # Len(text) + 1
    BY <1>1, <1>6
  <2> QED BY <1>6, <2>1 DEF Ends
<1>8. ASSUME NEW i \in m + 1 .. e - 1 PROVE i \in DOMAIN text /\ text[i] # "*"
  <2>1. i \in 1 .. Len(text)
    BY <1>1, <1>6
  <2>2. i \notin S
    BY <1>5, <1>6, <2>1
  <2>3. i \notin Ends(text)
    BY <1>1, <2>1, <2>2
  <2> QED BY <1>1, <2>1, <2>3 DEF Ends
<1>9. StarBefore(text, e) = m
  BY <1>4 DEF m
<1> QED BY <1>1, <1>6, <1>7, <1>8, <1>9

-----------------------------------------------------------------------------
(* What Covers computes *)

ReachStep(R, n, text, path) ==
    IF n = 0 THEN {0}
    ELSE IF text[n] = "*" THEN {q \in 0 .. Len(path) : \E p \in R[n - 1] : p <= q}
    ELSE {q \in 1 .. Len(path) : q - 1 \in R[n - 1] /\ path[q] = text[n]}

Reaches(R, text, path) ==
    /\ R \in [0 .. Len(text) -> SUBSET (0 .. Len(path))]
    /\ \A n \in 0 .. Len(text) : R[n] = ReachStep(R, n, text, path)

CoversAt(R, pat, path) ==
    IF Anchored(pat) THEN Len(path) \in R[Len(Unanchored(pat))]
    ELSE R[Len(Unanchored(pat))] # {}

LEMMA TextType ==
    ASSUME NEW pat \in Texts
    PROVE  Unanchored(pat) \in Texts
<1>1. CASE Anchored(pat)
  <2>1. pat # <<>>
    BY <1>1 DEF Anchored
  <2>2. SubSeq(pat, 1, Len(pat) - 1) \in Seq(STRING)
    BY <2>1 DEF Texts
  <2> QED BY <1>1, <2>2 DEF Unanchored, Front, Texts
<1>2. CASE ~Anchored(pat)
  BY <1>2 DEF Unanchored
<1> QED BY <1>1, <1>2

LEMMA CoversReaches ==
    ASSUME NEW pat \in Texts, NEW path \in Texts
    PROVE  \E R : /\ Reaches(R, Unanchored(pat), path)
                  /\ Covers(pat, path) <=> CoversAt(R, pat, path)
<1> DEFINE text == Unanchored(pat)
           D == 0 .. Len(text)
           X == SUBSET (0 .. Len(path))
           T == [n \in D |-> [g \in [D -> X] |-> ReachStep(g, n, text, path)]]
           h == CHOOSE f : f = [n \in D |-> ReachStep(f, n, text, path)]
<1>0. text \in Texts /\ Len(text) \in Nat /\ Len(path) \in Nat
  BY TextType DEF Texts
<1>1. ASSUME NEW g, NEW n \in D
      PROVE  ReachStep(g, n, text, path) \in X
  <2>1. {0} \in X
    BY <1>0
  <2>2. {q \in 0 .. Len(path) : \E p \in g[n - 1] : p <= q} \in X
    OBVIOUS
  <2>3. {q \in 1 .. Len(path) : q - 1 \in g[n - 1] /\ path[q] = text[n]} \in X
    OBVIOUS
  <2> QED BY <2>1, <2>2, <2>3 DEF ReachStep
<1>2. T \in [D -> [[D -> X] -> X]]
  <2> HIDE DEF D, X
  <2> QED BY <1>1
<1>3. ASSUME NEW n \in D, NEW f \in [D -> X], NEW g \in [D -> X],
             \A k \in D : k < n => f[k] = g[k]
      PROVE  T[n][f] = T[n][g]
  <2>1. n = 0 \/ f[n - 1] = g[n - 1]
    BY <1>3, <1>0
  <2>2. ReachStep(f, n, text, path) = ReachStep(g, n, text, path)
    BY <2>1 DEF ReachStep
  <2> HIDE DEF D, X
  <2> QED BY <2>2
<1>4. PICK f \in [D -> X] : \A n \in D : f[n] = T[n][f]
  <2>1. D \subseteq 0 .. Len(text) /\ X # {}
    OBVIOUS
  <2>2. Recursion(Len(text), D, X, T)
    <3> HIDE DEF T, D, X
    <3> QED BY <1>0, <1>2, <1>3, <2>1 DEF Recursion
  <2> HIDE DEF T, D, X
  <2> QED BY <2>2, RecursionExists
<1>5. f = [n \in D |-> ReachStep(f, n, text, path)]
  <2>1. \A n \in D : f[n] = ReachStep(f, n, text, path)
    <3> HIDE DEF D, X
    <3> QED BY <1>4
  <2> HIDE DEF D, X
  <2> QED BY <2>1
<1>6. h = [n \in D |-> ReachStep(h, n, text, path)]
  <2> HIDE DEF D
  <2> QED BY <1>5
<1>7. Reaches(h, text, path)
  <2>1. \A n \in D : h[n] \in X
    <3> HIDE DEF X, D, h
    <3> QED BY <1>1, <1>6
  <2> HIDE DEF h
  <2> QED BY <1>6, <2>1 DEF Reaches
<1>8. Covers(pat, path) <=> CoversAt(h, pat, path)
  BY DEF Covers, CoversAt, ReachStep
<1> QED BY <1>7, <1>8

-----------------------------------------------------------------------------
(* What PatternMatch computes *)

PosStep(pos, e, pat, path) ==
    PieceEnd(pat, path, e,
             IF StarBefore(Unanchored(pat), e) = 0 THEN 0
             ELSE pos[StarBefore(Unanchored(pat), e)])

Places(pos, pat, path) ==
    \A e \in Ends(Unanchored(pat)) : pos[e] = PosStep(pos, e, pat, path)

MatchAt(pos, pat, path) ==
    LET end == Len(Unanchored(pat)) + 1
    IN IF Anchored(pat) /\ StarBefore(Unanchored(pat), end) = 0
       THEN pos[end] = Len(path) ELSE pos[end] # -1

LEMMA FindIs ==
    ASSUME NEW path \in Texts, NEW piece, NEW p \in Nat
    PROVE  \/ /\ Find(piece, path, p) = -1
              /\ \A j \in p .. Len(path) : ~At(piece, path, j)
           \/ /\ Find(piece, path, p) \in p .. Len(path)
              /\ At(piece, path, Find(piece, path, p))
              /\ \A j \in p .. Len(path) : At(piece, path, j) => Find(piece, path, p) <= j
<1> DEFINE S == {j \in p .. Len(path) : At(piece, path, j)}
<1>1. S \in SUBSET Nat
  BY DEF Texts
<1>2. CASE S = {}
  BY <1>2 DEF Find
<1>3. CASE S # {}
  <2>1. Min(S) \in S /\ \A k \in S : Min(S) <= k
    <3> HIDE DEF S
    <3> QED BY <1>1, <1>3, MinIs
  <2>2. Find(piece, path, p) = Min(S)
    BY <1>3 DEF Find
  <2> QED BY <2>1, <2>2
<1> QED BY <1>2, <1>3

Spots == Nat \cup {-1}

LEMMA PieceLength ==
    ASSUME NEW text \in Texts, NEW e \in Ends(text)
    PROVE  Len(Piece(text, e)) = e - 1 - StarBefore(text, e)
<1>1. e \in 1 .. Len(text) + 1 /\ StarBefore(text, e) \in 0 .. e - 1 /\ Len(text) \in Nat
  BY StarIsBefore DEF Texts
<1> DEFINE s == StarBefore(text, e)
           n == e - 1
<1>2. n \in 0 .. Len(text) /\ s \in 0 .. n
  BY <1>1
<1> HIDE DEF s, n
<1>3. <<>> \in Texts /\ 0 \in Nat
  BY DEF Texts
<1>4. Len(SubSeq(text, s + 1, n)) = n - s
  BY <1>2, <1>3, AtStands
<1> QED BY <1>4 DEF Piece, s, n

LEMMA PieceEndType ==
    ASSUME NEW pat \in Texts, NEW path \in Texts, NEW e \in Ends(Unanchored(pat)), NEW p \in Spots
    PROVE  PieceEnd(pat, path, e, p) \in Spots
<1> DEFINE text == Unanchored(pat)
           piece == Piece(text, e)
<1>1. Len(piece) \in Nat /\ Len(path) \in Nat
  <2>1. text \in Texts /\ e \in Ends(text)
    BY TextType
  <2> HIDE DEF text
  <2> QED BY <2>1, StarIsBefore, PieceLength DEF Texts
<1>2. p # -1 => Find(piece, path, p) \in Spots
  BY <1>1, FindIs DEF Spots
<1> HIDE DEF piece
<1>3. -1 \in Spots /\ Nat \subseteq Spots
  BY DEF Spots
<1>4. Find(piece, path, p) \in Spots /\ Find(piece, path, p) # -1
        => Find(piece, path, p) + Len(piece) \in Nat
  BY <1>1 DEF Spots
<1> QED BY <1>1, <1>2, <1>3, <1>4 DEF PieceEnd, piece

LEMMA MatchPlaces ==
    ASSUME NEW pat \in Texts, NEW path \in Texts
    PROVE  \E pos : /\ Places(pos, pat, path)
                    /\ PatternMatch(pat, path) <=> MatchAt(pos, pat, path)
<1> DEFINE D == Ends(Unanchored(pat))
           N == Len(Unanchored(pat)) + 1
           T == [n \in D |-> [g \in [D -> Spots] |-> PosStep(g, n, pat, path)]]
           h == CHOOSE f : f = [n \in D |-> PosStep(f, n, pat, path)]
<1>0. Unanchored(pat) \in Texts /\ N \in Nat
  BY TextType DEF Texts
<1>1. \A n \in D : StarBefore(Unanchored(pat), n) # 0
        => StarBefore(Unanchored(pat), n) \in D /\ StarBefore(Unanchored(pat), n) < n
  BY <1>0, StarIsBefore
<1>2. ASSUME NEW g \in [D -> Spots], NEW n \in D
      PROVE  PosStep(g, n, pat, path) \in Spots
  <2> DEFINE p == IF StarBefore(Unanchored(pat), n) = 0 THEN 0
                  ELSE g[StarBefore(Unanchored(pat), n)]
  <2>1. p \in Spots
    <3> HIDE DEF D
    <3> QED BY <1>1, <1>2 DEF Spots
  <2> HIDE DEF p
  <2>2. PieceEnd(pat, path, n, p) \in Spots
    BY <2>1, PieceEndType
  <2> QED BY <2>2 DEF PosStep, p
<1>3. T \in [D -> [[D -> Spots] -> Spots]]
  <2> HIDE DEF D
  <2> QED BY <1>2
<1>4. ASSUME NEW n \in D, NEW f \in [D -> Spots], NEW g \in [D -> Spots],
             \A k \in D : k < n => f[k] = g[k]
      PROVE  T[n][f] = T[n][g]
  <2>1. \/ StarBefore(Unanchored(pat), n) = 0
        \/ f[StarBefore(Unanchored(pat), n)] = g[StarBefore(Unanchored(pat), n)]
    BY <1>1, <1>4
  <2>2. PosStep(f, n, pat, path) = PosStep(g, n, pat, path)
    BY <2>1 DEF PosStep
  <2> HIDE DEF D
  <2> QED BY <2>2
<1>5. PICK f \in [D -> Spots] : \A n \in D : f[n] = T[n][f]
  <2>1. D \subseteq 0 .. N /\ Spots # {}
    <3>1. \A n \in D : n \in 1 .. N
      BY <1>0, StarIsBefore
    <3> QED BY <1>0, <3>1 DEF Spots
  <2>2. Recursion(N, D, Spots, T)
    <3> HIDE DEF T, D, N
    <3> QED BY <1>0, <1>3, <1>4, <2>1 DEF Recursion
  <2> HIDE DEF T, D, N
  <2> QED BY <2>2, RecursionExists
<1>6. f = [n \in D |-> PosStep(f, n, pat, path)]
  <2>1. \A n \in D : f[n] = PosStep(f, n, pat, path)
    <3> HIDE DEF D
    <3> QED BY <1>5
  <2> HIDE DEF D
  <2> QED BY <2>1
<1>7. h = [n \in D |-> PosStep(h, n, pat, path)]
  <2> HIDE DEF D
  <2> QED BY <1>6
<1>8. PatternMatch(pat, path) <=> MatchAt(h, pat, path)
  BY DEF PatternMatch, MatchAt, PosStep
<1>9. \A n \in D : h[n] = PosStep(h, n, pat, path)
  <2> HIDE DEF D, h
  <2> QED BY <1>7
<1> QED BY <1>7, <1>8, <1>9 DEF Places

-----------------------------------------------------------------------------
(* Greedy search finds what there is *)

Plain(text, s, n) == \A i \in s + 1 .. n : text[i] # "*"

\* What is reached from the places of s by the text from s + 1 to n.
ReadOn(R, text, path, s, n) ==
    {q \in 0 .. Len(path) : q - (n - s) \in R[s] /\ Stands(text, path, s, n, q - (n - s))}

LEMMA ReadOnIs ==
    ASSUME NEW R, NEW text, NEW path, NEW s
    PROVE  \A m, q : q \in ReadOn(R, text, path, s, m) <=>
              /\ q \in 0 .. Len(path) /\ q - (m - s) \in R[s]
              /\ Stands(text, path, s, m, q - (m - s))
  BY DEF ReadOn

\* With no star between s and n the text read from s to n is taken as it is.
LEMMA LiteralReach ==
    ASSUME NEW text \in Texts, NEW path \in Texts, NEW R, Reaches(R, text, path),
           NEW n \in 0 .. Len(text), NEW s \in 0 .. n,
           Plain(text, s, n)
    PROVE  R[n] = ReadOn(R, text, path, s, n)
<1> DEFINE L == Len(path)
           From(m) == ReadOn(R, text, path, s, m)
           S == {d \in Nat : s + d <= n => R[s + d] = From(s + d)}
<1>r. \A m, q : q \in From(m) <=> /\ q \in 0 .. L /\ q - (m - s) \in R[s]
                                  /\ Stands(text, path, s, m, q - (m - s))
  BY ReadOnIs
<1>0. Len(text) \in Nat /\ L \in Nat
  BY DEF Texts
<1>1. 0 \in S
  <2>1. R[s] \subseteq 0 .. L
    BY <1>0 DEF Reaches
  <2>2. \A q \in 0 .. L : Stands(text, path, s, s, q)
    BY <1>0 DEF Stands
  <2>3. \A q \in 0 .. L : q - (s - s) = q
    BY <1>0
  <2>4. From(s) = R[s]
    <3> HIDE DEF From
    <3>1. ASSUME NEW q PROVE q \in From(s) <=> q \in R[s]
      <4>1. q \in From(s) <=> /\ q \in 0 .. L /\ q - (s - s) \in R[s]
                              /\ Stands(text, path, s, s, q - (s - s))
        BY <1>r
      <4> QED BY <2>1, <2>2, <2>3, <4>1
    <3> QED BY <3>1
  <2>5. s + 0 = s
    OBVIOUS
  <2> QED BY <2>4, <2>5
<1>2. ASSUME NEW d \in Nat, d \in S PROVE d + 1 \in S
  <2> SUFFICES ASSUME s + (d + 1) <= n PROVE R[s + (d + 1)] = From(s + (d + 1))
    OBVIOUS
  <2> DEFINE m == s + d
  <2>1. m \in Nat /\ m + 1 = s + (d + 1) /\ m + 1 \in 1 .. Len(text) /\ m \in 0 .. Len(text)
        /\ m + 1 \in s + 1 .. n /\ m - s = d /\ m + 1 - s = d + 1
    BY <1>0
  <2>2. R[m] = From(m)
    BY <1>2, <2>1
  <2>3. text[m + 1] # "*"
    BY <2>1 DEF Plain
  <2>4. R[m + 1] = {q \in 1 .. L : q - 1 \in R[m] /\ path[q] = text[m + 1]}
    <3>1. R[m + 1] = ReachStep(R, m + 1, text, path) /\ m + 1 # 0 /\ (m + 1) - 1 = m
      BY <1>0, <2>1 DEF Reaches
    <3> HIDE DEF m
    <3> QED BY <2>3, <3>1 DEF ReachStep
  <2>5. ASSUME NEW q \in 0 .. L
        PROVE  q \in R[m + 1] <=> q \in From(m + 1)
    <3>1. q - 1 - d = q - (d + 1) /\ q = (q - 1 - d) + (d + 1) /\ s + (d + 1) = m + 1
      BY <1>0, <2>1
    <3> DEFINE i == q - (d + 1)
    <3>2. i \in R[s] => i \in Nat
      BY <1>0 DEF Reaches
    <3>3. ASSUME i \in Nat
          PROVE  Stands(text, path, s, m + 1, i)
                   <=> Stands(text, path, s, m, i) /\ i + (d + 1) <= L /\ path[i + (d + 1)] = text[s + (d + 1)]
      <4>1. \A k \in 1 .. d + 1 : k \in 1 .. d \/ k = d + 1
        OBVIOUS
      <4>2. d + 1 \in 1 .. d + 1 /\ \A k \in 1 .. d : k \in 1 .. d + 1
        OBVIOUS
      <4>3. i + d <= L \/ ~(i + (d + 1) <= L)
        BY <1>0, <3>3
      <4> HIDE DEF i, m
      <4>4. Stands(text, path, s, m, i) <=>
              i + d <= L /\ \A k \in 1 .. d : path[i + k] = text[s + k]
        BY <2>1 DEF Stands
      <4>5. Stands(text, path, s, m + 1, i) <=>
              i + (d + 1) <= L /\ \A k \in 1 .. d + 1 : path[i + k] = text[s + k]
        BY <2>1 DEF Stands
      <4> QED BY <4>1, <4>2, <4>3, <4>4, <4>5
    <3>4. q \in From(m + 1) <=> i \in R[s] /\ Stands(text, path, s, m + 1, i)
      <4> PICK g : g = m + 1
        OBVIOUS
      <4>1. q - (g - s) = i
        BY <2>1
      <4> HIDE DEF i, m, From
      <4>2. q \in From(g) <=> /\ q \in 0 .. L /\ q - (g - s) \in R[s]
                              /\ Stands(text, path, s, g, q - (g - s))
        BY <1>r, Zenon
      <4> QED BY <4>1, <4>2
    <3>5. q - 1 \in 0 .. L => (q - 1 \in From(m) <=> i \in R[s] /\ Stands(text, path, s, m, i))
      <4>1. q - 1 - (m - s) = i
        BY <2>1, <3>1
      <4>2. q - 1 \in From(m) <=> /\ q - 1 \in 0 .. L /\ q - 1 - (m - s) \in R[s]
                                  /\ Stands(text, path, s, m, q - 1 - (m - s))
        <5> HIDE DEF i, m, From
        <5> QED BY <1>r
      <4> HIDE DEF i, m, From
      <4> QED BY <4>1, <4>2
    <3>6. From(m) \subseteq 0 .. L
      BY <1>r
    <3>7. q \in R[m + 1] <=> q \in 1 .. L /\ q - 1 \in From(m) /\ path[q] = text[m + 1]
      BY <2>2, <2>4
    <3>8. i \in Nat => i + (d + 1) = q /\ q \in 1 .. L /\ q - 1 \in 0 .. L /\ q <= L
      BY <1>0
    <3> HIDE DEF From, i, m
    <3> QED BY <3>1, <3>2, <3>3, <3>4, <3>5, <3>6, <3>7, <3>8
  <2>6. R[m + 1] \subseteq 0 .. L /\ From(m + 1) \subseteq 0 .. L
    BY <1>r, <2>4, <1>0
  <2>7. R[m + 1] = From(m + 1)
    <3> HIDE DEF From, m
    <3> QED BY <2>5, <2>6
  <2> QED BY <2>1, <2>7
<1>3. n - s \in S
  <2>1. n - s \in Nat
    BY <1>0
  <2> HIDE DEF S
  <2> QED BY <1>1, <1>2, <2>1, NatSetInduction
<1>4. s + (n - s) = n
  BY <1>0
<1>5. R[s + (n - s)] = From(s + (n - s))
  <2> HIDE DEF From
  <2> QED BY <1>3, <1>4
<1>6. R[n] = From(n)
  <2> HIDE DEF From
  <2> QED BY <1>4, <1>5
<1> QED BY <1>6

\* p is the first place of the set, -1 if there is none.
First(p, S) == IF p = -1 THEN S = {} ELSE p \in S /\ \A q \in S : p <= q

\* Where a first piece, or one after the star s, leaves off, if p is the first
\* place before that star.
FirstPlaces(text, path, e) ==
    {q \in 0 .. Len(path) : q = e - 1 /\ Stands(text, path, 0, e - 1, 0)}
LaterPlaces(text, path, s, e, p) ==
    {q \in 0 .. Len(path) : /\ p # -1 /\ p <= q - (e - 1 - s)
                            /\ Stands(text, path, s, e - 1, q - (e - 1 - s))}

\* A piece that a star precedes is found at the first place it has.
LEMMA PieceFound ==
    ASSUME NEW pat \in Texts, NEW path \in Texts, NEW R, Reaches(R, Unanchored(pat), path),
           NEW e \in Ends(Unanchored(pat)), NEW s, s = StarBefore(Unanchored(pat), e), s # 0,
           NEW p, First(p, R[s - 1])
    PROVE  /\ R[s] = {q \in 0 .. Len(path) : p # -1 /\ p <= q}
           /\ p # -1 => p \in 0 .. Len(path)
           /\ R[e - 1] = LaterPlaces(Unanchored(pat), path, s, e, p)
<1> DEFINE text == Unanchored(pat)
           L == Len(path)
<1>0. text \in Texts /\ Len(text) \in Nat /\ L \in Nat
  BY TextType DEF Texts
<1>1. /\ e \in 1 .. Len(text) + 1 /\ s \in 1 .. e - 1 /\ s \in 1 .. Len(text) /\ text[s] = "*"
      /\ \A i \in s + 1 .. e - 1 : text[i] # "*"
  <2> HIDE DEF text
  <2>1. /\ e \in 1 .. Len(text) + 1 /\ s \in 0 .. e - 1 /\ s \in DOMAIN text /\ text[s] = "*"
        /\ \A i \in s + 1 .. e - 1 : text[i] # "*"
    BY <1>0, StarIsBefore DEF text
  <2> QED BY <1>0, <2>1 DEF Texts
<1> HIDE DEF text
<1>2. R[s] = {q \in 0 .. L : \E r \in R[s - 1] : r <= q} /\ R[s - 1] \subseteq 0 .. L
  <2>1. s \in 0 .. Len(text) /\ s - 1 \in 0 .. Len(text) /\ s # 0
    BY <1>1
  <2>2. R[s] = ReachStep(R, s, text, path) /\ R[s - 1] \in SUBSET (0 .. L)
    BY <2>1 DEF Reaches, text
  <2> QED BY <1>1, <2>1, <2>2 DEF ReachStep
<1>3. p # -1 => p \in 0 .. L
  BY <1>2 DEF First
<1>4. R[s] = {q \in 0 .. L : p # -1 /\ p <= q}
  <2>1. ASSUME NEW q \in 0 .. L
        PROVE  (\E r \in R[s - 1] : r <= q) <=> (p # -1 /\ p <= q)
    <3>1. CASE p = -1
      BY <3>1 DEF First
    <3>2. CASE p # -1
      <4>1. p \in R[s - 1] /\ \A r \in R[s - 1] : p <= r /\ r \in 0 .. L
        BY <1>2, <3>2 DEF First
      <4> QED BY <1>0, <1>3, <3>2, <4>1
    <3> QED BY <3>1, <3>2
  <2> QED BY <1>2, <2>1
<1>5. R[e - 1] = {q \in 0 .. L :
                    q - (e - 1 - s) \in R[s] /\ Stands(text, path, s, e - 1, q - (e - 1 - s))}
  <2>1. e - 1 \in 0 .. Len(text) /\ s \in 0 .. e - 1
    BY <1>0, <1>1
  <2> DEFINE n == e - 1
  <2>2. n \in 0 .. Len(text) /\ s \in 0 .. n /\ Plain(text, s, n)
    BY <1>1, <2>1 DEF Plain
  <2>3. Reaches(R, text, path)
    BY DEF text
  <2> HIDE DEF n
  <2>4. R[n] = ReadOn(R, text, path, s, n)
    BY <1>0, <2>2, <2>3, LiteralReach
  <2> QED BY <2>4 DEF n, ReadOn
<1>6. \A q \in 0 .. L : q - (e - 1 - s) \in R[s] <=> p # -1 /\ p <= q - (e - 1 - s)
  <2>1. \A q \in 0 .. L : q - (e - 1 - s) <= L
    BY <1>0, <1>1
  <2>2. \A q \in 0 .. L : q - (e - 1 - s) \in Int
    BY <1>0, <1>1
  <2>3. p # -1 => \A i \in Int : p <= i => 0 <= i
    BY <1>3
  <2> QED BY <1>4, <2>1, <2>2, <2>3
<1> QED BY <1>3, <1>4, <1>5, <1>6 DEF text, LaterPlaces

\* The first piece begins the path.
LEMMA FirstPiece ==
    ASSUME NEW pat \in Texts, NEW path \in Texts, NEW R, Reaches(R, Unanchored(pat), path),
           NEW e \in Ends(Unanchored(pat)), StarBefore(Unanchored(pat), e) = 0
    PROVE  R[e - 1] = FirstPlaces(Unanchored(pat), path, e)
<1> DEFINE text == Unanchored(pat)
           L == Len(path)
           n == e - 1
<1>0. text \in Texts /\ Len(text) \in Nat /\ L \in Nat
  BY TextType DEF Texts
<1>1. e \in 1 .. Len(text) + 1 /\ \A i \in 1 .. e - 1 : text[i] # "*"
  <2> HIDE DEF text
  <2>1. e \in 1 .. Len(text) + 1 /\ \A i \in StarBefore(text, e) + 1 .. e - 1 : text[i] # "*"
    BY <1>0, StarIsBefore DEF text
  <2> QED BY <2>1 DEF text
<1>2. n \in 0 .. Len(text) /\ 0 \in 0 .. n /\ Plain(text, 0, n)
  BY <1>0, <1>1 DEF Plain
<1>3. R[0] = {0}
  <2>1. 0 \in 0 .. Len(text)
    BY <1>0
  <2> QED BY <2>1 DEF Reaches, ReachStep
<1> HIDE DEF text, n
<1>4. Reaches(R, text, path)
  BY DEF text
<1>5. R[n] = {q \in 0 .. L : q - (n - 0) \in R[0] /\ Stands(text, path, 0, n, q - (n - 0))}
  <2>1. R[n] = ReadOn(R, text, path, 0, n)
    BY <1>0, <1>2, <1>4, LiteralReach
  <2> QED BY <2>1 DEF ReadOn
<1>6. \A q \in 0 .. L : q - (n - 0) \in R[0] <=> q = n
  BY <1>2, <1>3
<1>7. n - (n - 0) = 0
  BY <1>2
<1>8. R[n] = {q \in 0 .. L : q = n /\ Stands(text, path, 0, n, 0)}
  BY <1>5, <1>6, <1>7
<1> QED BY <1>8 DEF text, n, FirstPlaces

LEMMA PieceStands ==
    ASSUME NEW text \in Texts, NEW path \in Texts, NEW e \in Ends(text), NEW i \in Nat
    PROVE  At(Piece(text, e), path, i) <=> Stands(text, path, StarBefore(text, e), e - 1, i)
<1> DEFINE s == StarBefore(text, e)
           n == e - 1
<1>1. n \in 0 .. Len(text) /\ s \in 0 .. n
  <2>1. e \in 1 .. Len(text) + 1 /\ s \in 0 .. e - 1 /\ Len(text) \in Nat
    BY StarIsBefore DEF Texts
  <2> HIDE DEF s
  <2> QED BY <2>1
<1> HIDE DEF s, n
<1>2. At(SubSeq(text, s + 1, n), path, i) <=> Stands(text, path, s, n, i)
  BY <1>1, AtStands
<1> QED BY <1>2 DEF Piece, s, n

\* The place the code gives a piece is the first that it can have, whatever the
\* pieces before it might have done; the last piece of an anchored pattern aside.
LEMMA GreedyStep ==
    ASSUME NEW pat \in Texts, NEW path \in Texts, NEW R, Reaches(R, Unanchored(pat), path),
           NEW e \in Ends(Unanchored(pat)), NEW s, s = StarBefore(Unanchored(pat), e),
           NEW p, IF s = 0 THEN p = 0 ELSE First(p, R[s - 1]),
           ~(e = Len(Unanchored(pat)) + 1 /\ Anchored(pat))
    PROVE  First(PieceEnd(pat, path, e, p), R[e - 1])
<1> DEFINE text == Unanchored(pat)
           L == Len(path)
           piece == Piece(text, e)
           l == e - 1 - s
<1>0. text \in Texts /\ L \in Nat
  BY TextType DEF Texts
<1>1. /\ Len(piece) = l /\ l \in Nat /\ e - 1 \in Nat /\ s \in Nat
      /\ \A i \in Nat : At(piece, path, i) <=> Stands(text, path, s, e - 1, i)
  <2> HIDE DEF text
  <2>1. Len(piece) = l /\ \A i \in Nat : At(piece, path, i) <=> Stands(text, path, s, e - 1, i)
    BY <1>0, PieceLength, PieceStands DEF text
  <2>2. e \in 1 .. Len(text) + 1 /\ s \in 0 .. e - 1
    BY <1>0, StarIsBefore DEF text
  <2>3. l \in Nat /\ e - 1 \in Nat /\ s \in Nat
    BY <1>0, <2>2 DEF Texts
  <2> QED BY <2>1, <2>3
<1>2. CASE s = 0
  <2>1. R[e - 1] = {q \in 0 .. L : q = e - 1 /\ Stands(text, path, 0, e - 1, 0)}
    <3>1. R[e - 1] = FirstPlaces(text, path, e)
      BY <1>2, FirstPiece
    <3> QED BY <3>1 DEF FirstPlaces
  <2>2. PieceEnd(pat, path, e, p) = IF Stands(text, path, 0, e - 1, 0) THEN e - 1 ELSE -1
    <3>1. p = 0 /\ p # -1
      BY <1>2
    <3>2. l = e - 1 /\ (At(piece, path, 0) <=> Stands(text, path, 0, e - 1, 0))
      BY <1>1, <1>2
    <3> QED BY <1>1, <1>2, <3>1, <3>2 DEF PieceEnd
  <2>3. Stands(text, path, 0, e - 1, 0) => e - 1 \in 0 .. L
    BY <1>0, <1>1 DEF Stands
  <2> HIDE DEF text
  <2>4. CASE Stands(text, path, 0, e - 1, 0)
    <3>1. e - 1 # -1
      BY <1>1
    <3> QED BY <2>1, <2>2, <2>3, <2>4, <3>1 DEF First
  <2>5. CASE ~Stands(text, path, 0, e - 1, 0)
    BY <2>1, <2>2, <2>5 DEF First
  <2> QED BY <2>4, <2>5
<1>3. CASE s # 0
  <2>0. First(p, R[s - 1])
    BY <1>3
  <2>1. /\ p # -1 => p \in 0 .. L
        /\ R[e - 1] = {q \in 0 .. L : /\ p # -1 /\ p <= q - l
                                      /\ Stands(text, path, s, e - 1, q - l)}
    <3>1. /\ p # -1 => p \in 0 .. L
          /\ R[e - 1] = LaterPlaces(text, path, s, e, p)
      BY <1>3, <2>0, PieceFound
    <3> QED BY <3>1 DEF LaterPlaces
  <2>2. CASE p = -1
    <3>1. PieceEnd(pat, path, e, p) = -1
      BY <2>2 DEF PieceEnd
    <3>2. R[e - 1] = {}
      BY <2>1, <2>2
    <3> QED BY <3>1, <3>2 DEF First
  <2>3. CASE p # -1
    <3> DEFINE at == Find(piece, path, p)
    <3>1. PieceEnd(pat, path, e, p) = IF at = -1 THEN -1 ELSE at + l
      BY <1>1, <1>3, <2>3 DEF PieceEnd
    <3>2. p \in 0 .. L /\ p \in Nat
      BY <1>0, <2>1, <2>3
    <3>3. \/ at = -1 /\ \A j \in p .. L : ~At(piece, path, j)
          \/ /\ at \in p .. L /\ At(piece, path, at)
             /\ \A j \in p .. L : At(piece, path, j) => at <= j
      BY <3>2, FindIs
    <3>4. \A q \in 0 .. L : q \in R[e - 1] <=> p <= q - l /\ Stands(text, path, s, e - 1, q - l)
      BY <2>1, <2>3
    <3>5. R[e - 1] \subseteq 0 .. L
      BY <2>1
    <3> HIDE DEF text, piece, at, L, l
    <3>6. \A q \in R[e - 1] : q - l \in p .. L /\ At(piece, path, q - l)
      <4> TAKE q \in R[e - 1]
      <4>1. p <= q - l /\ Stands(text, path, s, e - 1, q - l) /\ q \in 0 .. L
        BY <3>4, <3>5
      <4>2. q - l \in p .. L /\ q - l \in Nat
        BY <1>0, <1>1, <3>2, <4>1
      <4> QED BY <1>1, <4>1, <4>2
    <3>7. CASE at = -1
      <4>1. R[e - 1] = {}
        BY <1>0, <3>2, <3>3, <3>6, <3>7
      <4> QED BY <3>1, <3>7, <4>1 DEF First
    <3>8. CASE at # -1
      <4>1. at \in p .. L /\ At(piece, path, at) /\ at \in Nat
        BY <1>0, <3>2, <3>3, <3>8
      <4>2. Stands(text, path, s, e - 1, at)
        BY <1>1, <4>1
      <4>3. at + l <= L
        BY <4>2 DEF Stands, l, L
      <4>4. at + l \in 0 .. L /\ (at + l) - l = at /\ at + l # -1
        BY <1>0, <1>1, <4>1, <4>3
      <4>5. at + l \in R[e - 1]
        BY <3>2, <3>4, <4>1, <4>2, <4>4
      <4>6. \A q \in R[e - 1] : at + l <= q
        <5> TAKE q \in R[e - 1]
        <5>1. at <= q - l /\ q \in 0 .. L
          BY <3>3, <3>5, <3>6, <3>8
        <5> QED BY <1>0, <1>1, <4>1, <5>1
      <4> QED BY <3>1, <3>8, <4>4, <4>5, <4>6 DEF First
    <3> QED BY <3>7, <3>8
  <2> QED BY <2>2, <2>3
<1> QED BY <1>2, <1>3

LEMMA GreedyPlaces ==
    ASSUME NEW pat \in Texts, NEW path \in Texts, NEW R, Reaches(R, Unanchored(pat), path),
           NEW pos, Places(pos, pat, path), NEW e \in Ends(Unanchored(pat)),
           ~(e = Len(Unanchored(pat)) + 1 /\ Anchored(pat))
    PROVE  First(pos[e], R[e - 1])
<1> DEFINE text == Unanchored(pat)
           Final(d) == d = Len(text) + 1 /\ Anchored(pat)
           S == {m \in Nat : \A d \in Ends(text) : d <= m /\ ~Final(d) => First(pos[d], R[d - 1])}
<1>0. text \in Texts
  BY TextType
<1>1. \A d \in Ends(text) :
        /\ d \in Nat \ {0} /\ StarBefore(text, d) \in Nat /\ StarBefore(text, d) < d
        /\ StarBefore(text, d) # 0 => /\ StarBefore(text, d) \in Ends(text)
                                      /\ StarBefore(text, d) # Len(text) + 1
  <2> HIDE DEF text
  <2> SUFFICES ASSUME NEW d \in Ends(text)
               PROVE  /\ d \in Nat \ {0} /\ StarBefore(text, d) \in Nat /\ StarBefore(text, d) < d
                      /\ StarBefore(text, d) # 0 => /\ StarBefore(text, d) \in Ends(text)
                                                    /\ StarBefore(text, d) # Len(text) + 1
    OBVIOUS
  <2>1. /\ d \in 1 .. Len(text) + 1 /\ StarBefore(text, d) \in 0 .. d - 1
        /\ StarBefore(text, d) # 0 => /\ StarBefore(text, d) \in Ends(text)
                                      /\ StarBefore(text, d) \in DOMAIN text
    BY <1>0, StarIsBefore
  <2>2. Len(text) \in Nat /\ DOMAIN text = 1 .. Len(text)
    BY <1>0 DEF Texts
  <2> HIDE DEF Texts
  <2> QED BY <2>1, <2>2
<1>2. 0 \in S
  <2>1. ASSUME NEW d \in Ends(text) PROVE ~(d <= 0)
    <3>1. d \in Nat /\ d # 0
      <4> HIDE DEF text
      <4> QED BY <1>1
    <3> QED BY <3>1
  <2> QED BY <2>1
<1>3. ASSUME NEW m \in Nat, m \in S PROVE m + 1 \in S
  <2> SUFFICES ASSUME NEW d \in Ends(text), d <= m + 1, ~Final(d)
               PROVE  First(pos[d], R[d - 1])
    OBVIOUS
  <2> DEFINE s == StarBefore(text, d)
             p == IF s = 0 THEN 0 ELSE pos[s]
  <2>1. pos[d] = PieceEnd(pat, path, d, p)
    BY DEF Places, PosStep
  <2>2. s # 0 => First(pos[s], R[s - 1])
    <3>1. s # 0 => s \in Ends(text) /\ s <= m /\ ~Final(s)
      <4> HIDE DEF text
      <4>1. d \in Nat /\ s \in Nat /\ s < d /\ (s # 0 => s \in Ends(text) /\ s # Len(text) + 1)
        BY <1>1
      <4> HIDE DEF s
      <4> QED BY <4>1
    <3> HIDE DEF text, Final, s
    <3> QED BY <1>3, <3>1
  <2>3. IF s = 0 THEN p = 0 ELSE First(p, R[s - 1])
    BY <2>2
  <2>4. First(PieceEnd(pat, path, d, p), R[d - 1])
    <3>1. s = StarBefore(Unanchored(pat), d) /\ ~(d = Len(Unanchored(pat)) + 1 /\ Anchored(pat))
      OBVIOUS
    <3> HIDE DEF s, p
    <3> QED BY <2>3, <3>1, GreedyStep
  <2> QED BY <2>1, <2>4
<1>4. e \in S
  <2>1. e \in Nat
    <3> HIDE DEF text
    <3>1. e \in Ends(text)
      BY DEF text
    <3> QED BY <1>1, <3>1
  <2> HIDE DEF S
  <2> QED BY <1>2, <1>3, <2>1, NatSetInduction
<1>5. e <= e
  <2>1. e \in Nat
    BY <1>4
  <2> QED BY <2>1
<1> QED BY <1>4, <1>5

(* For every pattern and path the matcher, which searches each piece once and
   never goes back, finds what the pattern means (robots_pattern_match()). *)
THEOREM MatchIsCovers ==
    ASSUME NEW pat \in Texts, NEW path \in Texts
    PROVE  PatternMatch(pat, path) <=> Covers(pat, path)
<1> DEFINE text == Unanchored(pat)
           L == Len(path)
           N == Len(text)
           end == N + 1
           s == StarBefore(text, end)
<1>1. PICK R : Reaches(R, text, path) /\ (Covers(pat, path) <=> CoversAt(R, pat, path))
  BY CoversReaches
<1>2. PICK pos : Places(pos, pat, path) /\ (PatternMatch(pat, path) <=> MatchAt(pos, pat, path))
  BY MatchPlaces
<1>3. text \in Texts /\ N \in Nat /\ L \in Nat /\ end - 1 = N /\ end \in Ends(text)
  <2>1. text \in Texts
    BY TextType
  <2>2. N \in Nat /\ L \in Nat
    BY <2>1 DEF Texts
  <2> QED BY <2>1, <2>2 DEF Ends
<1>4. s \in 0 .. N /\ (s # 0 => s \in Ends(text) /\ s # end)
  <2> HIDE DEF text
  <2>1. s \in 0 .. end - 1 /\ (s # 0 => s \in Ends(text))
    BY <1>3, StarIsBefore
  <2> HIDE DEF s
  <2> QED BY <1>3, <2>1
<1>5. CASE ~Anchored(pat)
  <2>1. First(pos[end], R[end - 1])
    <3> HIDE DEF N
    <3> QED BY <1>1, <1>2, <1>3, <1>5, GreedyPlaces DEF N
  <2>2. Covers(pat, path) <=> R[N] # {}
    BY <1>1, <1>5 DEF CoversAt
  <2>3. PatternMatch(pat, path) <=> pos[end] # -1
    BY <1>2, <1>5 DEF MatchAt
  <2>4. pos[end] # -1 <=> R[N] # {}
    <3> HIDE DEF end, N
    <3> QED BY <1>3, <2>1 DEF First
  <2> QED BY <2>2, <2>3, <2>4
<1>6. CASE Anchored(pat)
  <2> DEFINE p == IF s = 0 THEN 0 ELSE pos[s]
             piece == Piece(text, end)
             l == N - s
  <2>1. Covers(pat, path) <=> L \in R[N]
    BY <1>1, <1>6 DEF CoversAt
  <2>2. pos[end] = PieceEnd(pat, path, end, p)
    BY <1>2, <1>3 DEF Places, PosStep
  <2>3. /\ Len(piece) = l /\ l \in Nat
        /\ \A i \in Nat : At(piece, path, i) <=> Stands(text, path, s, N, i)
    <3> HIDE DEF text
    <3>1. Len(piece) = end - 1 - s
      BY <1>3, PieceLength
    <3>2. \A i \in Nat : At(piece, path, i) <=> Stands(text, path, s, end - 1, i)
      BY <1>3, PieceStands
    <3> HIDE DEF N, end, s, piece
    <3> QED BY <1>3, <1>4, <3>1, <3>2
  <2>4. CASE s = 0
    <3>1. PatternMatch(pat, path) <=> pos[end] = L
      BY <1>2, <1>6, <2>4 DEF MatchAt
    <3>2. pos[end] = IF Stands(text, path, 0, N, 0) THEN N ELSE -1
      <4>1. p = 0 /\ p # -1 /\ l = N
        BY <1>3, <2>4
      <4> HIDE DEF p
      <4> QED BY <2>2, <2>3, <2>4, <4>1 DEF PieceEnd
    <3>3. R[N] = {q \in 0 .. L : q = N /\ Stands(text, path, 0, N, 0)}
      <4>1. R[end - 1] = FirstPlaces(text, path, end)
        BY <1>1, <1>3, <2>4, FirstPiece
      <4> HIDE DEF text, N, L, end
      <4> QED BY <1>3, <4>1 DEF FirstPlaces, L
    <3> HIDE DEF text, N, L, end
    <3>4. L # -1 /\ L \in 0 .. L
      BY <1>3
    <3> QED BY <2>1, <3>1, <3>2, <3>3, <3>4
  <2>5. CASE s # 0
    <3>1. PatternMatch(pat, path) <=> pos[end] # -1
      BY <1>2, <1>6, <2>5 DEF MatchAt
    <3>2. First(pos[s], R[s - 1])
      <4>1. s \in Ends(Unanchored(pat)) /\ s # Len(Unanchored(pat)) + 1
        BY <1>4, <2>5
      <4> HIDE DEF s
      <4> QED BY <1>1, <1>2, <4>1, GreedyPlaces
    <3>3. /\ p # -1 => p \in 0 .. L
          /\ R[N] = {q \in 0 .. L : /\ p # -1 /\ p <= q - l /\ Stands(text, path, s, N, q - l)}
      <4>1. First(p, R[s - 1])
        BY <2>5, <3>2
      <4>2. s = StarBefore(Unanchored(pat), end) /\ end \in Ends(Unanchored(pat))
        BY <1>3
      <4> HIDE DEF s, end, p
      <4>3. /\ p # -1 => p \in 0 .. L
            /\ R[end - 1] = LaterPlaces(text, path, s, end, p)
        BY <1>1, <2>5, <4>1, <4>2, PieceFound
      <4> HIDE DEF text, N, L
      <4> QED BY <1>3, <4>3 DEF LaterPlaces, L
    <3>4. pos[end] # -1 <=> p # -1 /\ l <= L - p /\ Stands(text, path, s, N, L - l)
      <4>1. CASE p = -1
        BY <2>2, <4>1 DEF PieceEnd
      <4>2. CASE p # -1
        <5>1. p \in 0 .. L /\ L # -1
          BY <1>3, <3>3, <4>2
        <5>2. l <= L - p => L - l \in Nat
          BY <1>3, <2>3, <5>1
        <5>3. pos[end] = IF l <= L - p /\ At(piece, path, L - l) THEN L ELSE -1
          <6> HIDE DEF p, l, piece
          <6> QED BY <1>6, <2>2, <2>3, <2>5, <4>2 DEF PieceEnd, piece
        <5> HIDE DEF p, l, piece, L, s, N, text, end
        <5> QED BY <2>3, <4>2, <5>1, <5>2, <5>3
      <4> QED BY <4>1, <4>2
    <3>5. L \in R[N] <=> p # -1 /\ l <= L - p /\ Stands(text, path, s, N, L - l)
      <4> HIDE DEF p, l, L, s, N, text, end
      <4>1. L \in 0 .. L
        BY <1>3
      <4>2. p # -1 => (p <= L - l <=> l <= L - p)
        BY <1>3, <2>3, <3>3
      <4> QED BY <3>3, <4>1, <4>2
    <3> QED BY <2>1, <3>1, <3>4, <3>5
  <2> QED BY <2>4, <2>5
<1> QED BY <1>5, <1>6

-----------------------------------------------------------------------------
(* The scan of the rules *)

RuleHits(rules, path, n) == {k \in 1 .. n : PatternMatch(rules[k].pat, path)}

\* The scan has the longest of the rules that match, an Allow if one is as long.
Leads(best, rules, path, n) ==
    /\ best \in Scans
    /\ best.matched <=> RuleHits(rules, path, n) # {}
    /\ best.matched =>
         /\ \E k \in RuleHits(rules, path, n) :
               Len(rules[k].pat) = best.len /\ rules[k].allow = best.allow
         /\ \A k \in RuleHits(rules, path, n) :
               /\ Len(rules[k].pat) <= best.len
               /\ Len(rules[k].pat) = best.len /\ rules[k].allow => best.allow

LEMMA BestLeads ==
    ASSUME NEW rules \in Seq(Kepts), NEW path
    PROVE  Leads(Best(rules, path), rules, path, Len(rules))
<1>1. PICK f : /\ Best(rules, path) = f[Len(rules)]
               /\ f = [n \in 0 .. Len(rules) |-> BestStep(f, n, rules, path)]
  BY BestScan
<1>2. \A n \in 0 .. Len(rules) : f[n] = BestStep(f, n, rules, path)
  BY <1>1
<1>3. \A k \in 1 .. Len(rules) : Len(rules[k].pat) \in Nat /\ rules[k].allow \in BOOLEAN
  <2>1. \A k \in 1 .. Len(rules) : rules[k] \in Kepts
    OBVIOUS
  <2> QED BY <2>1 DEF Kepts
<1> DEFINE S == {n \in Nat : n <= Len(rules) => Leads(f[n], rules, path, n)}
<1>4. 0 \in S
  <2>1. f[0] = NoRule
    <3>1. 0 \in 0 .. Len(rules)
      OBVIOUS
    <3> QED BY <1>2, <3>1 DEF BestStep
  <2>2. RuleHits(rules, path, 0) = {}
    BY DEF RuleHits
  <2>3. NoRule \in Scans /\ NoRule.matched = FALSE
    BY DEF NoRule, Scans
  <2>4. Leads(NoRule, rules, path, 0)
    BY <2>2, <2>3 DEF Leads
  <2> QED BY <2>1, <2>4
<1>5. ASSUME NEW m \in Nat, m \in S PROVE m + 1 \in S
  <2> SUFFICES ASSUME m + 1 <= Len(rules) PROVE Leads(f[m + 1], rules, path, m + 1)
    OBVIOUS
  <2> DEFINE n == m + 1
             r == rules[n]
             best == f[m]
  <2>1. Leads(best, rules, path, m)
    BY <1>5
  <2>2. n \in 1 .. Len(rules) /\ n # 0 /\ n - 1 = m /\ n \in 0 .. Len(rules)
    OBVIOUS
  <2>3. Len(r.pat) \in Nat /\ r.allow \in BOOLEAN
    BY <1>3, <2>2
  <2>4. f[n] = IF Better(best, r, path)
               THEN [matched |-> TRUE, len |-> Len(r.pat), allow |-> r.allow]
               ELSE best
    <3>1. f[n] = BestStep(f, n, rules, path)
      BY <1>2, <2>2
    <3> HIDE DEF n
    <3> QED BY <2>2, <3>1 DEF BestStep
  <2>5. RuleHits(rules, path, n) = RuleHits(rules, path, m)
                                 \cup (IF PatternMatch(r.pat, path) THEN {n} ELSE {})
    BY DEF RuleHits
  <2>6. \A k \in RuleHits(rules, path, m) : Len(rules[k].pat) \in Nat /\ rules[k].allow \in BOOLEAN
    BY <1>3 DEF RuleHits
  <2>7. best.matched \in BOOLEAN /\ best.len \in Nat /\ best.allow \in BOOLEAN
    BY <2>1 DEF Leads, Scans
  <2> HIDE DEF n, best
  <2>8. CASE Better(best, r, path)
    <3> DEFINE b == [matched |-> TRUE, len |-> Len(r.pat), allow |-> r.allow]
    <3>1. b.matched = TRUE /\ b.len = Len(r.pat) /\ b.allow = r.allow /\ b \in Scans
      BY <2>3 DEF Scans
    <3>2. f[n] = b /\ PatternMatch(r.pat, path)
      BY <2>4, <2>8 DEF Better
    <3>3. n \in RuleHits(rules, path, n)
      BY <2>5, <3>2
    <3>4. ASSUME NEW k \in RuleHits(rules, path, n)
          PROVE  /\ Len(rules[k].pat) <= b.len
                 /\ Len(rules[k].pat) = b.len /\ rules[k].allow => b.allow
      <4>1. CASE k = n
        BY <2>3, <3>1, <4>1
      <4>2. CASE k \in RuleHits(rules, path, m)
        <5>1. /\ best.matched /\ Len(rules[k].pat) <= best.len
              /\ Len(rules[k].pat) = best.len /\ rules[k].allow => best.allow
          BY <2>1, <4>2 DEF Leads
        <5>2. Len(r.pat) > best.len \/ (Len(r.pat) = best.len /\ r.allow)
          BY <2>8, <5>1 DEF Better
        <5> HIDE DEF b, r
        <5> QED BY <2>3, <2>6, <2>7, <3>1, <4>2, <5>1, <5>2
      <4> QED BY <2>5, <3>2, <4>1, <4>2
    <3>5. \E k \in RuleHits(rules, path, n) : Len(rules[k].pat) = b.len /\ rules[k].allow = b.allow
      BY <3>1, <3>3
    <3> HIDE DEF b, r
    <3>6. Leads(b, rules, path, n)
      BY <3>1, <3>3, <3>4, <3>5 DEF Leads
    <3> QED BY <3>2, <3>6 DEF n
  <2>9. CASE ~Better(best, r, path)
    <3>1. f[n] = best
      BY <2>4, <2>9
    <3>2. CASE ~PatternMatch(r.pat, path)
      <4>1. RuleHits(rules, path, n) = RuleHits(rules, path, m)
        BY <2>5, <3>2
      <4>2. Leads(best, rules, path, n)
        BY <2>1, <4>1 DEF Leads
      <4> QED BY <3>1, <4>2 DEF n
    <3>3. CASE PatternMatch(r.pat, path)
      <4>1. /\ best.matched /\ ~(Len(r.pat) > best.len)
            /\ ~(Len(r.pat) = best.len /\ r.allow)
        BY <2>9, <3>3 DEF Better
      <4>2. /\ Len(r.pat) <= best.len
            /\ Len(r.pat) = best.len /\ r.allow => best.allow
        <5> HIDE DEF r
        <5> QED BY <2>3, <2>7, <4>1
      <4>3. RuleHits(rules, path, n) = RuleHits(rules, path, m) \cup {n}
        BY <2>5, <3>3
      <4> HIDE DEF r
      <4>4. \A k \in RuleHits(rules, path, n) :
               /\ Len(rules[k].pat) <= best.len
               /\ Len(rules[k].pat) = best.len /\ rules[k].allow => best.allow
        <5>1. \A k \in RuleHits(rules, path, m) :
                 /\ Len(rules[k].pat) <= best.len
                 /\ Len(rules[k].pat) = best.len /\ rules[k].allow => best.allow
          BY <2>1, <4>1 DEF Leads
        <5> QED BY <4>2, <4>3, <5>1 DEF r
      <4>5. \E k \in RuleHits(rules, path, n) :
               Len(rules[k].pat) = best.len /\ rules[k].allow = best.allow
        BY <2>1, <4>1, <4>3 DEF Leads
      <4>6. Leads(best, rules, path, n)
        BY <2>1, <4>1, <4>3, <4>4, <4>5 DEF Leads
      <4> QED BY <3>1, <4>6 DEF n
    <3> QED BY <3>2, <3>3
  <2> QED BY <2>8, <2>9
<1>6. Len(rules) \in S
  <2>1. Len(rules) \in Nat
    OBVIOUS
  <2> HIDE DEF S
  <2> QED BY <1>4, <1>5, <2>1, NatSetInduction
<1>7. Len(rules) <= Len(rules)
  OBVIOUS
<1> QED BY <1>1, <1>6, <1>7

\* The rule the scan keeps decides as the rules mean.
LEMMA BestBans ==
    ASSUME NEW rules \in Seq(Kepts), NEW path \in Texts
    PROVE  (Best(rules, path).matched /\ ~Best(rules, path).allow) <=> Banned(rules, path)
<1> DEFINE best == Best(rules, path)
           H == RuleHits(rules, path, Len(rules))
           over == {r \in ToSet(rules) : Covers(r.pat, path)}
<1>1. Leads(best, rules, path, Len(rules))
  BY BestLeads
<1>2. \A k \in 1 .. Len(rules) :
        /\ rules[k].pat \in Texts /\ Len(rules[k].pat) \in Nat /\ rules[k].allow \in BOOLEAN
  <2>1. \A k \in 1 .. Len(rules) : rules[k] \in Kepts
    OBVIOUS
  <2> QED BY <2>1 DEF Kepts, Texts
<1>3. ASSUME NEW k \in 1 .. Len(rules) PROVE k \in H <=> rules[k] \in over
  <2>1. PatternMatch(rules[k].pat, path) <=> Covers(rules[k].pat, path)
    BY <1>2, MatchIsCovers
  <2>2. rules[k] \in ToSet(rules)
    BY DEF ToSet
  <2> QED BY <2>1, <2>2 DEF RuleHits
<1>4. \A r \in over : \E k \in H : r = rules[k]
  <2>1. \A r \in ToSet(rules) : \E k \in 1 .. Len(rules) : r = rules[k]
    BY DEF ToSet
  <2> HIDE DEF H
  <2> QED BY <1>3, <2>1
<1>5. H \subseteq 1 .. Len(rules)
  BY DEF RuleHits
<1>6. Banned(rules, path) <=>
        \E k \in H : ~rules[k].allow /\ \A j \in H :
           Len(rules[j].pat) < Len(rules[k].pat)
             \/ (Len(rules[j].pat) = Len(rules[k].pat) /\ ~rules[j].allow)
  <2> HIDE DEF H, over
  <2>1. \A k \in H : rules[k] \in over
    BY <1>3, <1>5
  <2> QED BY <1>4, <2>1 DEF Banned, over
<1> HIDE DEF H, over, best
<1>7. /\ best.matched <=> H # {}
      /\ best.matched => /\ \E k \in H : Len(rules[k].pat) = best.len /\ rules[k].allow = best.allow
                         /\ \A k \in H : /\ Len(rules[k].pat) <= best.len
                                         /\ Len(rules[k].pat) = best.len /\ rules[k].allow => best.allow
      /\ best.len \in Nat /\ best.allow \in BOOLEAN
  BY <1>1 DEF Leads, Scans, H
<1>8. ASSUME best.matched, ~best.allow PROVE Banned(rules, path)
  <2>1. PICK k \in H : Len(rules[k].pat) = best.len /\ rules[k].allow = best.allow
    BY <1>7, <1>8
  <2>2. \A j \in H : Len(rules[j].pat) < Len(rules[k].pat)
                       \/ (Len(rules[j].pat) = Len(rules[k].pat) /\ ~rules[j].allow)
    BY <1>2, <1>5, <1>7, <1>8, <2>1
  <2> QED BY <1>6, <1>8, <2>1, <2>2
<1>9. ASSUME Banned(rules, path) PROVE best.matched /\ ~best.allow
  <2>1. PICK k \in H : ~rules[k].allow /\ \A j \in H :
           Len(rules[j].pat) < Len(rules[k].pat)
             \/ (Len(rules[j].pat) = Len(rules[k].pat) /\ ~rules[j].allow)
    BY <1>6, <1>9
  <2>2. best.matched
    BY <1>7, <2>1
  <2>3. PICK j \in H : Len(rules[j].pat) = best.len /\ rules[j].allow = best.allow
    BY <1>7, <2>2
  <2> QED BY <1>2, <1>5, <1>7, <2>1, <2>2, <2>3
<1> QED BY <1>8, <1>9 DEF best

-----------------------------------------------------------------------------
(* Functions whose values each follow from the one before *)

Chain(N, X, a, G) == N \in Nat /\ a \in X /\ G \in [1 .. N -> [X -> X]]

LEMMA ChainExists ==
    ASSUME NEW N, NEW X, NEW a, NEW G, Chain(N, X, a, G)
    PROVE  \E f \in [0 .. N -> X] : f[0] = a /\ \A k \in 1 .. N : f[k] = G[k][f[k - 1]]
<1> USE DEF Chain
<1> DEFINE D == 0 .. N
           T == [n \in D |-> [f \in [D -> X] |-> IF n = 0 THEN a ELSE G[n][f[n - 1]]]]
<1>1. ASSUME NEW n \in D, NEW f \in [D -> X]
      PROVE  (IF n = 0 THEN a ELSE G[n][f[n - 1]]) \in X
  <2>1. CASE n = 0
    BY <2>1
  <2>2. CASE n # 0
    <3>1. n \in 1 .. N /\ n - 1 \in D
      BY <2>2
    <3>2. f[n - 1] \in X /\ G[n] \in [X -> X]
      BY <3>1
    <3> QED BY <2>2, <3>2
  <2> QED BY <2>1, <2>2
<1>2. T \in [D -> [[D -> X] -> X]]
  <2> HIDE DEF D
  <2> QED BY <1>1
<1>3. ASSUME NEW n \in D, NEW f \in [D -> X], NEW g \in [D -> X],
             \A k \in D : k < n => f[k] = g[k]
      PROVE  T[n][f] = T[n][g]
  <2>1. n = 0 \/ f[n - 1] = g[n - 1]
    BY <1>3
  <2>2. \A e \in [D -> X] : T[n][e] = IF n = 0 THEN a ELSE G[n][e[n - 1]]
    <3> HIDE DEF D
    <3> QED OBVIOUS
  <2> HIDE DEF T, D
  <2> QED BY <2>1, <2>2
<1>4. Recursion(N, D, X, T)
  <2>1. D \subseteq 0 .. N /\ X # {}
    OBVIOUS
  <2> HIDE DEF T, D
  <2> QED BY <1>2, <1>3, <2>1 DEF Recursion
<1>5. PICK f \in [D -> X] : \A n \in D : f[n] = T[n][f]
  <2> HIDE DEF T, D
  <2> QED BY <1>4, RecursionExists
<1>6. \A n \in D : f[n] = IF n = 0 THEN a ELSE G[n][f[n - 1]]
  <2>1. \A n \in D : T[n][f] = IF n = 0 THEN a ELSE G[n][f[n - 1]]
    <3> HIDE DEF D
    <3> QED OBVIOUS
  <2> HIDE DEF T, D
  <2> QED BY <1>5, <2>1
<1>7. 0 \in D /\ \A n \in 1 .. N : n \in D /\ n # 0
  OBVIOUS
<1> HIDE DEF T
<1> QED BY <1>6, <1>7

LEMMA ChainTyped ==
    ASSUME NEW N \in Nat, NEW X, NEW h, h[0] \in X,
           \A k \in 1 .. N : h[k - 1] \in X => h[k] \in X
    PROVE  \A k \in 0 .. N : h[k] \in X
<1> DEFINE S == {k \in Nat : k <= N => h[k] \in X}
<1>1. 0 \in S
  OBVIOUS
<1>2. ASSUME NEW k \in Nat, k \in S PROVE k + 1 \in S
  <2> SUFFICES ASSUME k + 1 <= N PROVE h[k + 1] \in X
    OBVIOUS
  <2>1. k + 1 \in 1 .. N /\ h[k] \in X /\ (k + 1) - 1 = k
    BY <1>2
  <2> QED BY <2>1
<1>3. Nat \subseteq S
  <2> HIDE DEF S
  <2> QED BY <1>1, <1>2, NatSetInduction
<1> QED BY <1>3

\* A set that goes down to what is below it holds the claim down to 1.
LEMMA DownTo ==
    ASSUME NEW N \in Nat, NEW S, N \in S,
           \A k \in 1 .. N : k \in S => k - 1 \in S
    PROVE  \A k \in 0 .. N : k \in S
<1> DEFINE R == {k \in Nat : k <= N => N - k \in S}
<1>1. 0 \in R
  OBVIOUS
<1>2. ASSUME NEW k \in Nat, k \in R PROVE k + 1 \in R
  <2> SUFFICES ASSUME k + 1 <= N PROVE N - (k + 1) \in S
    OBVIOUS
  <2>1. N - k \in 1 .. N /\ N - k \in S /\ (N - k) - 1 = N - (k + 1)
    BY <1>2
  <2> QED BY <2>1
<1>3. Nat \subseteq R
  <2> HIDE DEF R
  <2> QED BY <1>1, <1>2, NatSetInduction
<1>4. ASSUME NEW k \in 0 .. N PROVE k \in S
  <2>1. N - k \in Nat /\ N - k <= N /\ N - (N - k) = k
    OBVIOUS
  <2> QED BY <1>3, <2>1
<1> QED BY <1>4

-----------------------------------------------------------------------------
(* Tokens and the steps they take *)

Text == Seq(Alphabet)
Pattern == Seq(Token)

LEMMA TokenIs ==
    ASSUME NEW t \in Token
    PROVE  /\ t.k \in {"char", "star", "end", "size"}
           /\ t.k = "char" => t.c \in Alphabet
           /\ t.k = "star" => t.pass \subseteq Alphabet /\ t.once \in BOOLEAN
           /\ t.k = "size" => t.op \in {"<", ">"} /\ t.limit \in Int
  BY DEF Token

LEMMA PatternIs ==
    ASSUME NEW pat \in Pattern
    PROVE  /\ Len(pat) \in Nat /\ DOMAIN pat = 1 .. Len(pat)
           /\ \A j \in 1 .. Len(pat) : pat[j] \in Token
  BY DEF Pattern

LEMMA TextIs ==
    ASSUME NEW text \in Text
    PROVE  Len(text) \in Nat /\ \A i \in 1 .. Len(text) : text[i] \in Alphabet
  BY DEF Text

\* q is where the matcher may be led from i by the token t: where the pattern
\* means it to be, or nowhere further when *(..) is left nothing.
Leads1(t, text, i, q) ==
    /\ q \in 0 .. Len(text)
    /\ \/ t.k = "char" /\ q = i + 1 /\ i < Len(text) /\ text[i + 1] = t.c
       \/ /\ t.k = "star" /\ i <= q
          /\ \A n \in i + 1 .. q : text[n] \in t.pass
          /\ t.once => q = i + 1 \/ (q = i /\ i = Len(text))

\* One of the places in F leaves the token t nothing, where it wants one.
LeftNone(t, text, F) == t.k = "star" /\ t.once /\ Len(text) \in F

\* The places F may lead to, and where they do lead to
LEMMA StepIs ==
    ASSUME NEW t \in Token, NEW text \in Text, NEW F \in SUBSET (0 .. Len(text))
    PROVE  LET led == {q \in 0 .. Len(text) : \E i \in F : Leads1(t, text, i, q)}
           IN Step(t, text, F) \subseteq led /\ (~LeftNone(t, text, F) => Step(t, text, F) = led)
<1> DEFINE led == {q \in 0 .. Len(text) : \E i \in F : Leads1(t, text, i, q)}
<1>1. t.k \in {"char", "star", "end", "size"} /\ Len(text) \in Nat
  BY TokenIs, TextIs
<1>2. CASE t.k = "char"
  <2>1. Step(t, text, F) = {p + 1 : p \in {q \in F : q < Len(text) /\ text[q + 1] = t.c}}
    BY <1>2 DEF Step
  <2>2. ASSUME NEW p \in F, p < Len(text), text[p + 1] = t.c
        PROVE  p + 1 \in 0 .. Len(text) /\ Leads1(t, text, p, p + 1)
    <3>1. p \in 0 .. Len(text)
      OBVIOUS
    <3>2. p + 1 \in 0 .. Len(text)
      BY <1>1, <2>2, <3>1
    <3> QED BY <1>2, <2>2, <3>2 DEF Leads1
  <2>3. ASSUME NEW q \in 0 .. Len(text), NEW i \in F, Leads1(t, text, i, q)
        PROVE  q = i + 1 /\ i < Len(text) /\ text[i + 1] = t.c
    BY <1>2, <2>3 DEF Leads1
  <2>4. Step(t, text, F) = led
    BY <2>1, <2>2, <2>3
  <2> QED BY <2>4
<1>3. CASE t.k = "star"
  <2>1. Step(t, text, F) =
            {q \in 0 .. Len(text) : \E p \in F :
                /\ p <= q
                /\ \A n \in p + 1 .. q : text[n] \in t.pass
                /\ t.once => q = p + 1}
    BY <1>3 DEF Step
  <2>2. ASSUME NEW q \in 0 .. Len(text), NEW p \in F
        PROVE  Leads1(t, text, p, q) <=>
                /\ p <= q
                /\ \A n \in p + 1 .. q : text[n] \in t.pass
                /\ t.once => q = p + 1 \/ (q = p /\ p = Len(text))
    BY <1>3 DEF Leads1
  <2>3. Step(t, text, F) \subseteq led
    BY <2>1, <2>2
  <2>4. ASSUME ~LeftNone(t, text, F), NEW q \in led PROVE q \in Step(t, text, F)
    <3>1. PICK p \in F : Leads1(t, text, p, q)
      OBVIOUS
    <3>2. ~t.once \/ p # Len(text)
      BY <1>3, <2>4 DEF LeftNone
    <3> QED BY <2>1, <2>2, <3>1, <3>2
  <2> QED BY <2>3, <2>4
<1>4. CASE t.k \in {"end", "size"}
  <2>1. Step(t, text, F) = {}
    BY <1>4 DEF Step
  <2>2. \A i \in F, q \in 0 .. Len(text) : ~Leads1(t, text, i, q)
    BY <1>4 DEF Leads1
  <2> QED BY <2>1, <2>2
<1> QED BY <1>1, <1>2, <1>3, <1>4

-----------------------------------------------------------------------------
(* What is left of the pattern means what is left of the text: B[j] is the  *)
(* set of places from which the pattern from j on is met.                   *)

\* The pattern may end with the token t, the text being after its first i.
MayEnd(t, text, size, i) ==
    \/ t.k = "size" /\ size # Unknown /\ SizeMet(t, size)
    \/ t.k = "end" /\ i = Len(text)

Lets(t, text, size, S) ==
    {i \in 0 .. Len(text) : MayEnd(t, text, size, i) \/ \E q \in S : Leads1(t, text, i, q)}

Meant(B, text, pat, size) ==
    /\ B \in [1 .. Len(pat) + 1 -> SUBSET (0 .. Len(text))]
    /\ B[Len(pat) + 1] = {i \in 0 .. Len(text) : i = Len(text) \/ text[i + 1] = "?"}
    /\ \A j \in 1 .. Len(pat) : B[j] = Lets(pat[j], text, size, B[j + 1])

LEMMA MeantExists ==
    ASSUME NEW text \in Text, NEW pat \in Pattern, NEW size
    PROVE  \E B : Meant(B, text, pat, size)
<1> PICK P : P = Len(pat)
  OBVIOUS
<1> DEFINE X == SUBSET (0 .. Len(text))
           last == {i \in 0 .. Len(text) : i = Len(text) \/ text[i + 1] = "?"}
           G == [k \in 1 .. P |-> [S \in X |-> Lets(pat[P + 1 - k], text, size, S)]]
<1>1. P \in Nat
  BY PatternIs
<1>2. last \in X
  OBVIOUS
<1>3. \A t, S : Lets(t, text, size, S) \in X
  BY DEF Lets
<1>4. G \in [1 .. P -> [X -> X]]
  <2> HIDE DEF X
  <2> QED BY <1>3
<1>5. PICK f \in [0 .. P -> X] : f[0] = last /\ \A k \in 1 .. P : f[k] = G[k][f[k - 1]]
  <2> HIDE DEF X, last, G
  <2>1. Chain(P, X, last, G)
    BY <1>1, <1>2, <1>4 DEF Chain
  <2> QED BY <2>1, ChainExists
<1> DEFINE B == [j \in 1 .. P + 1 |-> f[P + 1 - j]]
<1>6. B \in [1 .. P + 1 -> X]
  <2>1. \A j \in 1 .. P + 1 : P + 1 - j \in 0 .. P
    BY <1>1
  <2> HIDE DEF X
  <2> QED BY <2>1
<1>7. B[P + 1] = last
  <2>1. P + 1 \in 1 .. P + 1 /\ P + 1 - (P + 1) = 0
    BY <1>1
  <2> HIDE DEF last
  <2> QED BY <1>5, <2>1
<1>8. ASSUME NEW j \in 1 .. P PROVE B[j] = Lets(pat[j], text, size, B[j + 1])
  <2>1. PICK k \in 1 .. P : k = P + 1 - j
    <3>1. P + 1 - j \in 1 .. P
      BY <1>1
    <3> QED BY <3>1
  <2>2. k - 1 = P + 1 - (j + 1) /\ j = P + 1 - k /\ j \in 1 .. P + 1 /\ j + 1 \in 1 .. P + 1
        /\ k - 1 \in 0 .. P
    BY <1>1, <2>1
  <2>3. B[j] = f[k] /\ B[j + 1] = f[k - 1]
    <3> HIDE DEF X, G
    <3> QED BY <2>1, <2>2
  <2>4. f[k - 1] \in X
    BY <2>2
  <2>5. G[k][f[k - 1]] = Lets(pat[j], text, size, f[k - 1])
    <3> HIDE DEF X
    <3> QED BY <2>2, <2>4
  <2> HIDE DEF X, G, B
  <2> QED BY <1>5, <2>3, <2>5
<1> HIDE DEF B
<1> QED BY <1>6, <1>7, <1>8 DEF Meant

LEMMA MeantIs ==
    ASSUME NEW text \in Text, NEW pat \in Pattern, NEW size, NEW B, Meant(B, text, pat, size)
    PROVE  /\ \A j \in 1 .. Len(pat) + 1 : B[j] \subseteq 0 .. Len(text)
           /\ \A i \in 0 .. Len(text) :
                 i \in B[Len(pat) + 1] <=> i = Len(text) \/ text[i + 1] = "?"
           /\ \A j \in 1 .. Len(pat), i \in 0 .. Len(text) :
                 i \in B[j] <=> \/ MayEnd(pat[j], text, size, i)
                                \/ \E q \in B[j + 1] : Leads1(pat[j], text, i, q)
  BY DEF Meant, Lets

\* The match of the whole pattern, by the places reached after each token
Ended(reach, text, pat, size) ==
    \/ \E p \in reach[Len(pat)] : p = Len(text) \/ text[p + 1] = "?"
    \/ \E n \in 1 .. Len(pat) : \E p \in reach[n - 1] : MayEnd(pat[n], text, size, p)

ReachIs(reach, text, pat) ==
    /\ reach \in [0 .. Len(pat) -> SUBSET (0 .. Len(text))]
    /\ reach[0] = {0}
    /\ \A n \in 1 .. Len(pat) : reach[n] = Step(pat[n], text, reach[n - 1])

\* Some *(..) of the pattern may be left nothing.
LeftOne(reach, text, pat) == \E n \in 1 .. Len(pat) : LeftNone(pat[n], text, reach[n - 1])

LEMMA GlobReach ==
    ASSUME NEW text \in Text, NEW pat \in Pattern, NEW size
    PROVE  \E reach : /\ ReachIs(reach, text, pat)
                      /\ Glob(text, pat, size) <=> Ended(reach, text, pat, size)
                      /\ OneAtEnd(text, pat) <=> LeftOne(reach, text, pat)
<1> PICK N : N = Len(pat)
  OBVIOUS
<1> DEFINE X == SUBSET (0 .. Len(text))
           G == [k \in 1 .. N |-> [S \in X |-> Step(pat[k], text, S)]]
           h == CHOOSE reach : reach = [n \in 0 .. N |->
                    IF n = 0 THEN {0} ELSE Step(pat[n], text, reach[n - 1])]
<1>1. N \in Nat /\ {0} \in X /\ \A k \in 1 .. N : pat[k] \in Token
  BY PatternIs, TextIs
<1>2. \A k \in 1 .. N, S \in X : Step(pat[k], text, S) \in X
  <2> SUFFICES ASSUME NEW k \in 1 .. N, NEW S \in X PROVE Step(pat[k], text, S) \in X
    OBVIOUS
  <2>1. pat[k] \in Token
    BY <1>1
  <2>2. Step(pat[k], text, S) \subseteq
            {q \in 0 .. Len(text) : \E i \in S : Leads1(pat[k], text, i, q)}
    BY <2>1, StepIs
  <2> QED BY <2>2
<1>3. G \in [1 .. N -> [X -> X]]
  <2> HIDE DEF X
  <2> QED BY <1>2
<1>4. PICK f \in [0 .. N -> X] : f[0] = {0} /\ \A k \in 1 .. N : f[k] = G[k][f[k - 1]]
  <2> HIDE DEF X, G
  <2>1. Chain(N, X, {0}, G)
    BY <1>1, <1>3 DEF Chain
  <2> QED BY <2>1, ChainExists
<1>5. ASSUME NEW k \in 1 .. N PROVE f[k] = Step(pat[k], text, f[k - 1])
  <2>1. f[k] = G[k][f[k - 1]]
    <3> HIDE DEF X, G
    <3> QED BY <1>4
  <2>2. f[k - 1] \in X
    <3>1. k - 1 \in 0 .. N
      BY <1>1
    <3> HIDE DEF X, G
    <3> QED BY <3>1
  <2>3. \A S \in X : G[k][S] = Step(pat[k], text, S)
    <3> HIDE DEF X
    <3> QED OBVIOUS
  <2> HIDE DEF X, G
  <2> QED BY <2>1, <2>2, <2>3
<1>6. f = [n \in 0 .. N |-> IF n = 0 THEN {0} ELSE Step(pat[n], text, f[n - 1])]
  <2>1. ASSUME NEW n \in 0 .. N
        PROVE  f[n] = IF n = 0 THEN {0} ELSE Step(pat[n], text, f[n - 1])
    <3>1. n = 0 \/ n \in 1 .. N
      BY <1>1
    <3> HIDE DEF X, G, h
    <3> QED BY <1>4, <1>5, <3>1
  <2> HIDE DEF X, G, h
  <2> QED BY <2>1
<1>7. h = [n \in 0 .. N |-> IF n = 0 THEN {0} ELSE Step(pat[n], text, h[n - 1])]
  BY <1>6
<1>8. h[0] = {0} /\ \A k \in 1 .. N : h[k] = Step(pat[k], text, h[k - 1])
  <2> HIDE DEF h
  <2>1. \A n \in 0 .. N : h[n] = IF n = 0 THEN {0} ELSE Step(pat[n], text, h[n - 1])
    BY <1>7
  <2>2. 0 \in 0 .. N /\ \A k \in 1 .. N : k \in 0 .. N /\ k # 0
    BY <1>1
  <2> QED BY <2>1, <2>2
<1>9. \A k \in 0 .. N : h[k] \in X
  <2> HIDE DEF h, X
  <2>1. h[0] \in X /\ \A k \in 1 .. N : h[k - 1] \in X => h[k] \in X
    BY <1>1, <1>2, <1>8
  <2> QED BY <1>1, <2>1, ChainTyped
<1>10. ReachIs(h, text, pat)
  <2>1. h = [k \in 0 .. N |-> h[k]]
    <3> HIDE DEF h
    <3> QED BY <1>7
  <2>2. h \in [0 .. N -> X]
    <3> HIDE DEF h, X
    <3> QED BY <1>9, <2>1
  <2> HIDE DEF h
  <2> QED BY <1>8, <2>2 DEF ReachIs
<1>11. h = Reach(text, pat)
  BY DEF Reach
<1>12. Glob(text, pat, size) <=>
           \/ \E p \in h[N] : p = Len(text) \/ text[p + 1] = "?"
           \/ \E n \in DOMAIN pat :
                \/ pat[n].k = "size" /\ size # Unknown /\ SizeMet(pat[n], size) /\ h[n - 1] # {}
                \/ pat[n].k = "end" /\ Len(text) \in h[n - 1]
  <2> HIDE DEF h
  <2> QED BY <1>11 DEF Glob
<1>13. Glob(text, pat, size) <=> Ended(h, text, pat, size)
  <2> HIDE DEF h
  <2>1. DOMAIN pat = 1 .. N
    BY PatternIs
  <2>2. \A n \in 1 .. N :
           (\E p \in h[n - 1] : MayEnd(pat[n], text, size, p)) <=>
                \/ pat[n].k = "size" /\ size # Unknown /\ SizeMet(pat[n], size) /\ h[n - 1] # {}
                \/ pat[n].k = "end" /\ Len(text) \in h[n - 1]
    BY DEF MayEnd
  <2> QED BY <1>12, <2>1, <2>2 DEF Ended
<1>14. OneAtEnd(text, pat) <=> LeftOne(h, text, pat)
  <2> HIDE DEF h
  <2> QED BY <1>11, PatternIs DEF OneAtEnd, LeftOne, LeftNone
<1> HIDE DEF h
<1> QED BY <1>10, <1>13, <1>14

\* Where no *(..) is left nothing, the pattern means what the matcher is led to;
\* where one is, the matcher may find more.
LEMMA GlobIs ==
    ASSUME NEW text \in Text, NEW pat \in Pattern, NEW size, NEW B, Meant(B, text, pat, size)
    PROVE  /\ Glob(text, pat, size) => 0 \in B[1]
           /\ 0 \in B[1] => Glob(text, pat, size) \/ OneAtEnd(text, pat)
<1> PICK N : N = Len(pat)
  OBVIOUS
<1>1. N \in Nat /\ Len(text) \in Nat /\ \A k \in 1 .. N : pat[k] \in Token
  BY PatternIs, TextIs
<1>2. PICK reach : /\ ReachIs(reach, text, pat)
                   /\ Glob(text, pat, size) <=> Ended(reach, text, pat, size)
                   /\ OneAtEnd(text, pat) <=> LeftOne(reach, text, pat)
  BY GlobReach
<1>3. \A n \in 0 .. N : reach[n] \in SUBSET (0 .. Len(text))
  BY <1>2 DEF ReachIs
<1> DEFINE Ended1(n) == \E m \in 1 .. N :
                            m <= n /\ \E p \in reach[m - 1] : MayEnd(pat[m], text, size, p)
           Met(n) == Ended1(n) \/ \E p \in reach[n] : p \in B[n + 1]
           Claim(n) == /\ Met(n) => 0 \in B[1]
                       /\ 0 \in B[1] => Met(n) \/ OneAtEnd(text, pat)
           S == {n \in Nat : n <= N => Claim(n)}
<1>4. 0 \in S
  <2>1. ~Ended1(0)
    OBVIOUS
  <2>2. \A p : p \in reach[0] <=> p = 0
    BY <1>2 DEF ReachIs
  <2>3. (\E p \in reach[0] : p \in B[0 + 1]) <=> 0 \in B[1]
    BY <2>2
  <2> HIDE DEF Ended1
  <2> QED BY <2>1, <2>3
<1>5. ASSUME NEW n \in Nat, n \in S PROVE n + 1 \in S
  <2> SUFFICES ASSUME n + 1 <= N PROVE Claim(n + 1)
    <3> HIDE DEF Claim
    <3> QED OBVIOUS
  <2> DEFINE Led == {q \in 0 .. Len(text) : \E p \in reach[n] : Leads1(pat[n + 1], text, p, q)}
  <2>1. n + 1 \in 1 .. N /\ n \in 0 .. N /\ (n + 1) - 1 = n
    BY <1>1
  <2>2. Claim(n)
    <3>1. n <= N
      BY <1>1
    <3> HIDE DEF Claim
    <3> QED BY <1>5, <3>1
  <2>3. reach[n] \in SUBSET (0 .. Len(text)) /\ pat[n + 1] \in Token
    BY <1>1, <1>3, <2>1
  <2>4. \A p \in reach[n] : p \in B[n + 1] <=>
            MayEnd(pat[n + 1], text, size, p) \/ \E q \in B[n + 2] : Leads1(pat[n + 1], text, p, q)
    BY <2>1, <2>3, MeantIs
  <2>5. /\ reach[n + 1] \subseteq Led
        /\ reach[n + 1] = Led \/ OneAtEnd(text, pat)
    <3>1. reach[n + 1] = Step(pat[n + 1], text, reach[n])
      BY <1>2, <2>1 DEF ReachIs
    <3>2. LeftNone(pat[n + 1], text, reach[n]) => OneAtEnd(text, pat)
      BY <1>2, <2>1 DEF LeftOne
    <3> QED BY <2>3, <3>1, <3>2, StepIs
  <2>6. B[n + 2] \subseteq 0 .. Len(text)
    <3>1. n + 2 \in 1 .. N + 1
      BY <1>1
    <3> QED BY <3>1, MeantIs
  <2>7. (\E p \in reach[n] : p \in B[n + 1]) <=>
            \/ \E p \in reach[n] : MayEnd(pat[n + 1], text, size, p)
            \/ \E q \in Led : q \in B[n + 2]
    BY <2>4, <2>6
  <2>8. Ended1(n + 1) <=> Ended1(n) \/ \E p \in reach[n] : MayEnd(pat[n + 1], text, size, p)
    <3>1. \A m \in 1 .. N : m <= n + 1 <=> m <= n \/ m = n + 1
      OBVIOUS
    <3> QED BY <2>1, <3>1
  <2>9. (n + 1) + 1 = n + 2
    OBVIOUS
  <2> HIDE DEF Ended1, Led
  <2>10. Met(n + 1) => Met(n)
    BY <2>5, <2>7, <2>8, <2>9
  <2>11. Met(n) => Met(n + 1) \/ OneAtEnd(text, pat)
    BY <2>5, <2>7, <2>8, <2>9
  <2> HIDE DEF Met
  <2> QED BY <2>2, <2>10, <2>11
<1>6. N \in S
  <2>1. Nat \subseteq S
    <3> HIDE DEF S
    <3> QED BY <1>4, <1>5, NatSetInduction
  <2> QED BY <1>1, <2>1
<1>7. \A p \in reach[N] : p \in B[N + 1] <=> p = Len(text) \/ text[p + 1] = "?"
  <2>1. N \in 0 .. N
    BY <1>1
  <2> QED BY <1>3, <2>1, MeantIs
<1>8. Ended1(N) <=> \E m \in 1 .. N : \E p \in reach[m - 1] : MayEnd(pat[m], text, size, p)
  <2>1. \A m \in 1 .. N : m <= N
    BY <1>1
  <2> QED BY <2>1
<1>9. Claim(N)
  <2>1. N \in Nat /\ N <= N
    BY <1>1
  <2> HIDE DEF Claim
  <2> QED BY <1>6, <2>1
<1>10. Met(N) <=> Ended(reach, text, pat, size)
  <2> HIDE DEF Ended1
  <2> QED BY <1>7, <1>8 DEF Ended
<1> HIDE DEF Met
<1> QED BY <1>2, <1>9, <1>10

-----------------------------------------------------------------------------
(* What strjoker_impl() tries *)

LEMMA LeastUpTo ==
    ASSUME NEW N \in Nat, NEW S, N \in S
    PROVE  \E n \in 0 .. N : n \in S /\ \A l \in 0 .. n - 1 : l \notin S
<1> DEFINE R == {n \in 0 .. N : n \in S}
<1>1. R \in SUBSET Nat /\ R # {}
  <2>1. N \in R
    OBVIOUS
  <2> QED BY <2>1
<1>2. PICK n \in R : \A k \in R : n <= k
  <2> HIDE DEF R
  <2> QED BY <1>1, LeastExists
<1>3. ASSUME NEW l \in 0 .. n - 1 PROVE l \notin S
  <2>1. l \in 0 .. N /\ ~(n <= l)
    BY <1>2
  <2> QED BY <1>2, <2>1
<1> QED BY <1>2, <1>3

LEMMA WordIs ==
    ASSUME NEW pat \in Pattern, NEW j \in 1 .. Len(pat), pat[j].k = "char"
    PROVE  /\ Word(pat, j) \in 1 .. Len(pat) - j + 1
           /\ \A l \in 0 .. Word(pat, j) - 1 : pat[j + l].k = "char"
           /\ j + Word(pat, j) > Len(pat) \/ pat[j + Word(pat, j)].k # "char"
<1> PICK P : P = Len(pat)
  OBVIOUS
<1> DEFINE N == P - j + 1
           S == {n \in 0 .. N : j + n > P \/ pat[j + n].k # "char"}
<1>1. P \in Nat /\ N \in Nat /\ j \in Nat /\ N \in S
  BY PatternIs
<1>2. PICK n \in 0 .. N : n \in S /\ \A l \in 0 .. n - 1 : l \notin S
  <2> HIDE DEF S, N
  <2> QED BY <1>1, LeastUpTo
<1>3. \A l \in 0 .. n - 1 : pat[j + l].k = "char"
  <2> SUFFICES ASSUME NEW l \in 0 .. n - 1 PROVE pat[j + l].k = "char"
    OBVIOUS
  <2>1. l \in 0 .. N /\ l \notin S
    BY <1>1, <1>2
  <2> QED BY <2>1
<1>4. \E m \in 0 .. P - j + 1 :
        /\ \A l \in 0 .. m - 1 : pat[j + l].k = "char"
        /\ j + m > P \/ pat[j + m].k # "char"
  BY <1>2, <1>3
<1>5. /\ Word(pat, j) \in 0 .. P - j + 1
      /\ \A l \in 0 .. Word(pat, j) - 1 : pat[j + l].k = "char"
      /\ j + Word(pat, j) > P \/ pat[j + Word(pat, j)].k # "char"
  <2> HIDE DEF S, N
  <2> QED BY <1>4 DEF Word
<1>6. Word(pat, j) # 0
  <2> SUFFICES ASSUME Word(pat, j) = 0 PROVE FALSE
    OBVIOUS
  <2>1. j + 0 = j /\ ~(j > P)
    BY <1>1
  <2> QED BY <1>5, <2>1
<1> HIDE DEF S, N
<1> QED BY <1>1, <1>5, <1>6

\* A word is met where it stands, if what follows it is.
LEMMA WordMeant ==
    ASSUME NEW text \in Text, NEW pat \in Pattern, NEW size, NEW B, Meant(B, text, pat, size),
           NEW i \in 0 .. Len(text), NEW j \in 1 .. Len(pat), pat[j].k = "char"
    PROVE  i \in B[j] <=> /\ WordStands(text, pat, i, j, Word(pat, j))
                          /\ i + Word(pat, j) \in B[j + Word(pat, j)]
<1> PICK n : n = Word(pat, j)
  OBVIOUS
<1>1. /\ Len(pat) \in Nat /\ Len(text) \in Nat
      /\ n \in 1 .. Len(pat) - j + 1 /\ \A l \in 0 .. n - 1 : pat[j + l].k = "char"
  BY PatternIs, TextIs, WordIs
<1>0. Len(pat) \in Nat /\ Len(text) \in Nat /\ n \in 1 .. Len(pat) - j + 1
  BY <1>1
<1> DEFINE Claim(m) == i \in B[j] <=> WordStands(text, pat, i, j, m) /\ i + m \in B[j + m]
           S == {m \in Nat : m <= n => Claim(m)}
<1>2. 0 \in S
  <2>1. WordStands(text, pat, i, j, 0)
    BY <1>1 DEF WordStands
  <2>2. i + 0 = i /\ j + 0 = j
    OBVIOUS
  <2> QED BY <2>1, <2>2
<1>3. ASSUME NEW m \in Nat, m \in S PROVE m + 1 \in S
  <2> SUFFICES ASSUME m + 1 <= n PROVE Claim(m + 1)
    <3> HIDE DEF Claim
    <3> QED OBVIOUS
  <2>1. Claim(m)
    <3>1. m <= n
      BY <1>0
    <3> HIDE DEF Claim
    <3> QED BY <1>3, <3>1
  <2> HIDE DEF S, Claim
  <2>2. m \in 0 .. n - 1 /\ j + m \in 1 .. Len(pat) /\ pat[j + m].k = "char"
    <3>1. m \in 0 .. n - 1
      BY <1>0
    <3>2. j + m \in 1 .. Len(pat)
      BY <1>0
    <3>3. pat[j + m].k = "char"
      BY <1>1, <3>1, Zenon
    <3> QED BY <3>1, <3>2, <3>3
  <2>3. B[j + m + 1] \subseteq 0 .. Len(text)
    <3>1. j + m + 1 \in 1 .. Len(pat) + 1
      BY <1>0
    <3>2. PICK k \in 1 .. Len(pat) + 1 : k = j + m + 1
      BY <3>1
    <3>3. B[k] \subseteq 0 .. Len(text)
      BY MeantIs
    <3> QED BY <3>2, <3>3
  <2>4. ASSUME i + m <= Len(text)
        PROVE  i + m \in B[j + m] <=>
                  /\ i + m < Len(text) /\ text[i + m + 1] = pat[j + m].c
                  /\ i + m + 1 \in B[j + m + 1]
    <3>1. i + m \in 0 .. Len(text)
      BY <1>0, <2>4
    <3>2. i + m \in B[j + m] <=> \/ MayEnd(pat[j + m], text, size, i + m)
                                 \/ \E q \in B[j + m + 1] : Leads1(pat[j + m], text, i + m, q)
      BY <2>2, <3>1, MeantIs
    <3>3. ~MayEnd(pat[j + m], text, size, i + m)
      BY <2>2 DEF MayEnd
    <3>4. \A q \in B[j + m + 1] : Leads1(pat[j + m], text, i + m, q) <=>
              q = i + m + 1 /\ i + m < Len(text) /\ text[i + m + 1] = pat[j + m].c
      BY <2>2, <2>3 DEF Leads1
    <3> QED BY <3>2, <3>3, <3>4
  <2>5. WordStands(text, pat, i, j, m + 1) <=>
            /\ WordStands(text, pat, i, j, m)
            /\ i + m < Len(text) /\ text[i + m + 1] = pat[j + m].c
    <3>1. \A l : l \in 0 .. (m + 1) - 1 <=> l \in 0 .. m - 1 \/ l = m
      OBVIOUS
    <3>2. i + (m + 1) <= Len(text) <=> i + m <= Len(text) /\ i + m < Len(text)
      BY <1>0
    <3> QED BY <3>1, <3>2 DEF WordStands
  <2>6. WordStands(text, pat, i, j, m) => i + m <= Len(text)
    BY DEF WordStands
  <2>7. i + (m + 1) = i + m + 1 /\ j + (m + 1) = j + m + 1
    BY <1>0
  <2> QED BY <2>1, <2>4, <2>5, <2>6, <2>7 DEF Claim
<1>4. n \in S
  <2>1. Nat \subseteq S
    <3> HIDE DEF S
    <3> QED BY <1>2, <1>3, NatSetInduction
  <2> QED BY <1>1, <2>1
<1>5. Claim(n)
  <2>1. n \in Nat /\ n <= n
    BY <1>1
  <2> HIDE DEF Claim
  <2> QED BY <1>4, <2>1
<1> QED BY <1>5

\* The sequence s is of members of S, and R is what stands in it.
Holds(s, S, R) ==
    s \in Seq(S) /\ \A q : q \in R <=> \E k \in 1 .. Len(s) : s[k] = q

LEMMA EmptyHolds == ASSUME NEW S PROVE Holds(<<>>, S, {})
  BY DEF Holds

LEMMA OneHolds == ASSUME NEW S, NEW x, x \in S PROVE Holds(<<x>>, S, {x})
<1>1. <<x>> \in Seq(S) /\ Len(<<x>>) = 1 /\ <<x>>[1] = x
  OBVIOUS
<1>2. \A k : k \in 1 .. 1 <=> k = 1
  OBVIOUS
<1> QED BY <1>1, <1>2 DEF Holds

LEMMA ConcatHolds ==
    ASSUME NEW S, NEW R, NEW T, NEW a, NEW b, Holds(a, S, R), Holds(b, S, T)
    PROVE  Holds(a \o b, S, R \cup T)
<1>0. a \in Seq(S) /\ b \in Seq(S)
  BY DEF Holds
<1>1. /\ a \o b \in Seq(S) /\ Len(a \o b) = Len(a) + Len(b)
      /\ Len(a) \in Nat /\ Len(b) \in Nat
      /\ \A k \in 1 .. Len(a) + Len(b) :
            (a \o b)[k] = IF k <= Len(a) THEN a[k] ELSE b[k - Len(a)]
  BY <1>0
<1>2. ASSUME NEW k \in 1 .. Len(b)
      PROVE  k + Len(a) \in 1 .. Len(a \o b) /\ (a \o b)[k + Len(a)] = b[k]
  <2>1. PICK m \in 1 .. Len(a) + Len(b) : m = k + Len(a) /\ ~(m <= Len(a)) /\ m - Len(a) = k
    <3>1. k + Len(a) \in 1 .. Len(a) + Len(b) /\ ~(k + Len(a) <= Len(a)) /\ k + Len(a) - Len(a) = k
      BY <1>1
    <3> QED BY <3>1
  <2>2. (a \o b)[m] = b[m - Len(a)]
    BY <1>1, <2>1
  <2> QED BY <1>1, <2>1, <2>2
<1>3. ASSUME NEW k \in 1 .. Len(a) PROVE k \in 1 .. Len(a \o b) /\ (a \o b)[k] = a[k]
  BY <1>1
<1>4. ASSUME NEW k \in 1 .. Len(a \o b)
      PROVE  \/ k \in 1 .. Len(a) /\ (a \o b)[k] = a[k]
             \/ k - Len(a) \in 1 .. Len(b) /\ (a \o b)[k] = b[k - Len(a)]
  BY <1>1
<1>5. ASSUME NEW q PROVE q \in R \cup T <=> \E k \in 1 .. Len(a \o b) : (a \o b)[k] = q
  <2>0. /\ q \in R <=> \E k \in 1 .. Len(a) : a[k] = q
        /\ q \in T <=> \E k \in 1 .. Len(b) : b[k] = q
    BY DEF Holds
  <2>1. ASSUME NEW k \in 1 .. Len(a), a[k] = q PROVE \E m \in 1 .. Len(a \o b) : (a \o b)[m] = q
    BY <1>3, <2>1
  <2>2. ASSUME NEW k \in 1 .. Len(b), b[k] = q PROVE \E m \in 1 .. Len(a \o b) : (a \o b)[m] = q
    BY <1>2, <2>2
  <2>3. ASSUME NEW k \in 1 .. Len(a \o b), (a \o b)[k] = q PROVE q \in R \cup T
    BY <1>4, <2>0, <2>3
  <2> QED BY <2>0, <2>1, <2>2, <2>3
<1> QED BY <1>1, <1>5 DEF Holds

\* The places tried after a star are those it may lead to.
Tried(s, t, text, i) ==
    /\ s \in Seq(0 .. Len(text))
    /\ \A q : (\E k \in 1 .. Len(s) : s[k] = q) <=> Leads1(t, text, i, q)

LEMMA TriesAre ==
    ASSUME NEW text \in Text, NEW t \in Token, t.k = "star", NEW i \in 0 .. Len(text)
    PROVE  Tried(Tries(t, text, i), t, text, i)
<1> PICK L : L = Len(text)
  OBVIOUS
<1> DEFINE most == IF t.once THEN (IF i < Len(text) THEN 1 ELSE 0) ELSE Len(text) - i
           Passes(r) == /\ \A n \in 1 .. r : text[i + n] \in t.pass
                        /\ r = most \/ text[i + r + 1] \notin t.pass
           run == CHOOSE r \in 0 .. most : Passes(r)
           S == {r \in 0 .. most : r = most \/ text[i + r + 1] \notin t.pass}
<1>1. L \in Nat /\ most \in Nat /\ i + most <= L /\ t.once \in BOOLEAN
  BY TextIs, TokenIs
<1>2. PICK r \in 0 .. most : r \in S /\ \A l \in 0 .. r - 1 : l \notin S
  <2>1. most \in S
    BY <1>1
  <2> HIDE DEF S, most
  <2> QED BY <1>1, <2>1, LeastUpTo
<1>3. \A n \in 1 .. r : text[i + n] \in t.pass
  <2> SUFFICES ASSUME NEW n \in 1 .. r PROVE text[i + n] \in t.pass
    OBVIOUS
  <2> HIDE DEF most
  <2>1. n - 1 \in 0 .. r - 1 /\ n - 1 \in 0 .. most /\ i + (n - 1) + 1 = i + n
    BY <1>1
  <2>2. n - 1 \notin S
    BY <1>2, <2>1
  <2>3. text[i + (n - 1) + 1] \in t.pass
    BY <2>1, <2>2
  <2> QED BY <2>1, <2>3
<1>4. run \in 0 .. most /\ Passes(run)
  <2>1. \E x \in 0 .. most : Passes(x)
    BY <1>2, <1>3
  <2> HIDE DEF most, Passes
  <2> QED BY <2>1
<1> DEFINE a == IF t.once THEN <<>> ELSE <<i>>
           b == [n \in 1 .. run |-> i + n]
           c == IF run = most THEN <<i + most>> ELSE <<>>
<1>5. Tries(t, text, i) = a \o b \o c
  BY DEF Tries
<1> HIDE DEF run, most
<1> DEFINE Ra == IF t.once THEN {} ELSE {i}
           Rb == {i + k : k \in 1 .. run}
           Rc == IF run = most THEN {i + most} ELSE {}
<1>6. Holds(a, 0 .. L, Ra) /\ Holds(b, 0 .. L, Rb) /\ Holds(c, 0 .. L, Rc)
  <2>1. Holds(<<>>, 0 .. L, {}) /\ \A x \in 0 .. L : Holds(<<x>>, 0 .. L, {x})
    BY EmptyHolds, OneHolds
  <2>2. i \in 0 .. L /\ i + most \in 0 .. L
    BY <1>1
  <2>3. Holds(a, 0 .. L, Ra)
    <3>1. CASE t.once
      BY <2>1, <3>1
    <3>2. CASE ~t.once
      <4>1. Holds(<<i>>, 0 .. L, {i})
        BY <2>1, <2>2
      <4> QED BY <3>2, <4>1
    <3> QED BY <3>1, <3>2
  <2>4. Holds(b, 0 .. L, Rb)
    <3>1. \A n \in 1 .. run : i + n \in 0 .. L
      BY <1>1, <1>4
    <3>2. Len(b) = run /\ b \in Seq(0 .. L) /\ \A n \in 1 .. run : b[n] = i + n
      BY <1>1, <1>4, <3>1
    <3> HIDE DEF b
    <3> QED BY <3>2 DEF Holds
  <2>5. Holds(c, 0 .. L, Rc)
    <3>1. CASE run = most
      <4>1. Holds(<<i + most>>, 0 .. L, {i + most})
        BY <2>1, <2>2
      <4> QED BY <3>1, <4>1
    <3>2. CASE run # most
      BY <2>1, <3>2
    <3> QED BY <3>1, <3>2
  <2> QED BY <2>3, <2>4, <2>5
<1>7. Holds(a \o b \o c, 0 .. L, Ra \cup Rb \cup Rc)
  <2> HIDE DEF a, b, c, Ra, Rb, Rc
  <2>1. Holds(a \o b, 0 .. L, Ra \cup Rb)
    BY <1>6, ConcatHolds
  <2> QED BY <1>6, <2>1, ConcatHolds
<1> HIDE DEF a, b, c
<1>8. ASSUME NEW q
      PROVE  \/ ~t.once /\ q = i
             \/ \E k \in 1 .. run : q = i + k
             \/ run = most /\ q = i + most
             <=> Leads1(t, text, i, q)
  <2> USE DEF most
  <2>1. CASE t.once /\ i < L
    <3>1. most = 1 /\ run \in 0 .. 1
      BY <1>4, <2>1
    <3>2. run = 1 <=> text[i + 1] \in t.pass
      BY <1>4, <3>1
    <3>3. Leads1(t, text, i, q) <=> q = i + 1 /\ text[i + 1] \in t.pass
      <4>1. ASSUME q = i + 1 PROVE \A n \in i + 1 .. q : n = i + 1
        BY <4>1
      <4> QED BY <1>1, <2>1, <4>1 DEF Leads1
    <3> HIDE DEF most
    <3> QED BY <2>1, <3>1, <3>2, <3>3
  <2>2. CASE t.once /\ i = L
    <3>1. most = 0 /\ run = 0
      BY <1>4, <2>2
    <3>2. Leads1(t, text, i, q) <=> q = i
      BY <1>1, <2>2 DEF Leads1
    <3> HIDE DEF most
    <3> QED BY <2>2, <3>1, <3>2
  <2>3. CASE ~t.once
    <3>1. most = L - i /\ run \in 0 .. L - i
      BY <1>4, <2>3
    <3> HIDE DEF most
    <3>2. Leads1(t, text, i, q) <=>
             q \in 0 .. L /\ i <= q /\ \A n \in i + 1 .. q : text[n] \in t.pass
      BY <2>3 DEF Leads1
    <3>3. \A n \in i + 1 .. i + run : text[n] \in t.pass
      <4> SUFFICES ASSUME NEW n \in i + 1 .. i + run PROVE text[n] \in t.pass
        OBVIOUS
      <4>1. n - i \in 1 .. run /\ i + (n - i) = n
        BY <1>1, <3>1
      <4> QED BY <1>4, <4>1
    <3>4. ASSUME q \in i .. i + run PROVE Leads1(t, text, i, q)
      BY <1>1, <3>1, <3>2, <3>3, <3>4
    <3>5. ASSUME Leads1(t, text, i, q) PROVE q \in i .. i + run
      <4>1. CASE run = L - i
        BY <1>1, <3>2, <3>5, <4>1
      <4>2. CASE run # L - i
        <5>1. text[i + run + 1] \notin t.pass
          BY <1>4, <3>1, <4>2
        <5>2. q \in 0 .. L /\ i <= q /\ ~(i + run + 1 \in i + 1 .. q)
          BY <3>2, <3>5, <5>1
        <5> QED BY <1>1, <3>1, <5>2
      <4> QED BY <4>1, <4>2
    <3>6. q \in i .. i + run <=>
             \/ q = i
             \/ \E k \in 1 .. run : q = i + k
             \/ run = most /\ q = i + most
      <4>1. ASSUME q \in i .. i + run PROVE q = i \/ \E k \in 1 .. run : q = i + k
        <5>1. q # i => q - i \in 1 .. run /\ q = i + (q - i)
          BY <1>1, <3>1, <4>1
        <5> QED BY <5>1
      <4>2. ASSUME NEW k \in 1 .. run PROVE i + k \in i .. i + run
        BY <1>1, <3>1
      <4>3. i \in i .. i + run /\ i + run \in i .. i + run
        BY <1>1, <3>1
      <4> QED BY <4>1, <4>2, <4>3
    <3> QED BY <2>3, <3>4, <3>5, <3>6
  <2> QED BY <1>1, <2>1, <2>2, <2>3
<1>9. \A q : q \in Ra \cup Rb \cup Rc <=> Leads1(t, text, i, q)
  <2> SUFFICES ASSUME NEW q PROVE q \in Ra \cup Rb \cup Rc <=> Leads1(t, text, i, q)
    OBVIOUS
  <2>1. q \in Ra \cup Rb \cup Rc <=> \/ ~t.once /\ q = i
                                     \/ \E k \in 1 .. run : q = i + k
                                     \/ run = most /\ q = i + most
    OBVIOUS
  <2> QED BY <1>8, <2>1
<1> HIDE DEF Ra, Rb, Rc
<1> QED BY <1>5, <1>7, <1>9 DEF Tried, Holds

LEMMA LastStarMeant ==
    ASSUME NEW text \in Text, NEW pat \in Pattern, NEW size, NEW B, Meant(B, text, pat, size),
           NEW i \in 0 .. Len(text), Len(pat) \in 1 .. Len(pat), pat[Len(pat)] = Star
    PROVE  i \in B[Len(pat)]
<1>1. Len(text) \in Nat /\ \A n \in 1 .. Len(text) : text[n] \in Alphabet
  BY TextIs
<1>2. Len(text) \in B[Len(pat) + 1]
  BY <1>1, MeantIs
<1>3. Leads1(Star, text, i, Len(text))
  <2>1. Star.k = "star" /\ Star.pass = Alphabet /\ Star.once = FALSE
    BY DEF Star, Class
  <2> QED BY <1>1, <2>1 DEF Leads1
<1> QED BY <1>2, <1>3, MeantIs

\* The bits of the first i rows, for rows of N.
Row(i, N) == i * N

LEMMA RowIs ==
    ASSUME NEW i \in Nat, NEW N \in Nat
    PROVE  Row(i, N) \in Nat
  BY DEF Row

LEMMA RowAfter ==
    ASSUME NEW a \in Nat, NEW e \in Nat, NEW N \in Nat
    PROVE  Row(a + 1 + e, N) = Row(a, N) + N + Row(e, N)
  BY DEF Row

LEMMA RowsApart ==
    ASSUME NEW N \in Nat, NEW a \in Nat, NEW b \in Nat, a < b,
           NEW c \in 1 .. N, NEW d \in 1 .. N
    PROVE  Row(a, N) + (c - 1) # Row(b, N) + (d - 1)
<1>1. PICK e \in Nat : b = a + 1 + e
  <2>1. b - a - 1 \in Nat /\ b = a + 1 + (b - a - 1)
    OBVIOUS
  <2> QED BY <2>1
<1>2. Row(a + 1 + e, N) = Row(a, N) + N + Row(e, N)
  BY RowAfter
<1> PICK x \in Nat, y \in Nat, z \in Nat : x = Row(a, N) /\ y = Row(b, N) /\ z = Row(e, N)
  BY RowIs
<1>3. y = x + N + z
  BY <1>1, <1>2
<1> QED BY <1>3

\* No two places share a bit.
LEMMA KeysApart ==
    ASSUME NEW pat \in Pattern, NEW i \in Nat, NEW k \in Nat,
           NEW j \in 1 .. Len(pat) + 1, NEW l \in 1 .. Len(pat) + 1,
           Key(pat, i, j) = Key(pat, k, l)
    PROVE  i = k /\ j = l
<1> PICK N : N = Len(pat) + 1
  OBVIOUS
<1>1. N \in Nat /\ N >= 1 /\ j \in 1 .. N /\ l \in 1 .. N
  BY PatternIs
<1>2. Row(i, N) + (j - 1) = Row(k, N) + (l - 1)
  BY DEF Key, Row
<1>4. ~(i < k) /\ ~(k < i)
  <2>1. i < k => Row(i, N) + (j - 1) # Row(k, N) + (l - 1)
    BY <1>1, RowsApart
  <2>2. k < i => Row(k, N) + (l - 1) # Row(i, N) + (j - 1)
    BY <1>1, RowsApart
  <2> QED BY <1>2, <2>1, <2>2
<1>5. i = k
  BY <1>4
<1>6. Row(i, N) \in Nat
  BY <1>1, RowIs
<1> QED BY <1>1, <1>2, <1>5, <1>6

LEMMA KeyIs ==
    ASSUME NEW pat \in Pattern, NEW i \in Nat, NEW j \in 1 .. Len(pat) + 1
    PROVE  Key(pat, i, j) \in Nat
<1>1. Len(pat) \in Nat
  BY PatternIs
<1> QED BY <1>1 DEF Key

-----------------------------------------------------------------------------
(* The calls that the pattern needs from j on: one for each star or word,   *)
(* and one for the end                                                      *)

Starts(pat) == {j \in DOMAIN pat : pat[j].k # "char" \/ j = 1 \/ pat[j - 1].k # "char"}
From(pat, j) == {g \in Starts(pat) : g >= j}
Left(pat, j) == Cardinality(From(pat, j))
AtStart(pat, j) == j = Len(pat) + 1 \/ j \in Starts(pat)

LEMMA LeftIs ==
    ASSUME NEW pat \in Pattern, NEW j \in Nat
    PROVE  IsFiniteSet(From(pat, j)) /\ Left(pat, j) \in Nat
<1>1. Len(pat) \in Nat /\ DOMAIN pat = 1 .. Len(pat)
  BY PatternIs
<1>2. IsFiniteSet(1 .. Len(pat)) /\ From(pat, j) \subseteq 1 .. Len(pat)
  BY <1>1, FS_Interval DEF From, Starts
<1>3. IsFiniteSet(From(pat, j))
  BY <1>2, FS_Subset
<1> QED BY <1>3, FS_CardinalityType DEF Left

\* A call further on needs fewer.
LEMMA LeftLess ==
    ASSUME NEW pat \in Pattern, NEW j \in Starts(pat), NEW k \in Nat, j < k
    PROVE  Left(pat, k) < Left(pat, j)
<1>1. Len(pat) \in Nat /\ j \in 1 .. Len(pat) /\ Starts(pat) \subseteq 1 .. Len(pat)
  BY PatternIs DEF Starts
<1>2. From(pat, k) \subseteq From(pat, j) /\ j \in From(pat, j) /\ j \notin From(pat, k)
  BY <1>1 DEF From
<1>3. IsFiniteSet(From(pat, j)) /\ IsFiniteSet(From(pat, k))
  BY <1>1, LeftIs
<1>4. Cardinality(From(pat, k)) < Cardinality(From(pat, j))
  <2>1. From(pat, k) # From(pat, j)
    BY <1>2
  <2>2. Cardinality(From(pat, k)) <= Cardinality(From(pat, j))
    BY <1>2, <1>3, FS_Subset
  <2>3. Cardinality(From(pat, k)) # Cardinality(From(pat, j))
    BY <1>2, <1>3, <2>1, FS_Subset
  <2> QED BY <1>1, <2>2, <2>3, LeftIs DEF Left
<1> QED BY <1>4 DEF Left

\* A star, and a word, lead to the start of what follows.
LEMMA NextStarts ==
    ASSUME NEW pat \in Pattern, NEW j \in 1 .. Len(pat)
    PROVE  /\ pat[j].k # "char" => j \in Starts(pat) /\ AtStart(pat, j + 1)
           /\ pat[j].k = "char" => AtStart(pat, j + Word(pat, j))
<1>1. Len(pat) \in Nat /\ DOMAIN pat = 1 .. Len(pat)
  BY PatternIs
<1>2. ASSUME pat[j].k # "char" PROVE j \in Starts(pat) /\ AtStart(pat, j + 1)
  <2>1. j \in Starts(pat)
    BY <1>1, <1>2 DEF Starts
  <2>2. j + 1 = Len(pat) + 1 \/ j + 1 \in 1 .. Len(pat)
    BY <1>1
  <2>3. (j + 1) - 1 = j
    OBVIOUS
  <2> QED BY <1>1, <1>2, <2>1, <2>2, <2>3 DEF Starts, AtStart
<1>3. ASSUME pat[j].k = "char" PROVE AtStart(pat, j + Word(pat, j))
  <2>1. /\ Word(pat, j) \in 1 .. Len(pat) - j + 1
        /\ j + Word(pat, j) > Len(pat) \/ pat[j + Word(pat, j)].k # "char"
    BY <1>3, WordIs
  <2>2. PICK k \in Nat : k = j + Word(pat, j)
    BY <1>1, <2>1
  <2>3. k \in 1 .. Len(pat) + 1 /\ (k > Len(pat) \/ pat[k].k # "char")
    BY <1>1, <2>1, <2>2
  <2>4. k = Len(pat) + 1 \/ (k \in 1 .. Len(pat) /\ pat[k].k # "char")
    BY <1>1, <2>3
  <2> QED BY <1>1, <2>2, <2>4 DEF Starts, AtStart
<1> QED BY <1>2, <1>3

-----------------------------------------------------------------------------
(* The search: what a visit comes back with, and what its memo remembers *)

Results == [ok : BOOLEAN, m : Memos]
Searches(text, pat) == [Visits(text, pat) -> Results]

\* The pairs noted did fail.
Sound(m, B, text, pat) ==
    \A i \in 0 .. Len(text), j \in 1 .. Len(pat) + 1 : Key(pat, i, j) \in m.failed => i \notin B[j]

\* The result r is right for the place i of the text and j of the pattern, with
\* the memo m before it and n calls left: a branch that fails without meeting
\* the cap has failed for good, and with enough calls none meets it.
Right(r, m, i, j, n, B, text, pat) ==
    /\ Sound(r.m, B, text, pat)
    /\ r.ok => i \in B[j]
    /\ ~r.ok /\ ~r.m.cut => i \notin B[j]
    /\ m.cut => r.m.cut
    /\ AtStart(pat, j) /\ Left(pat, j) < n => r.m.cut = m.cut

RightSearch(rec, n, B, text, pat) ==
    /\ rec \in Searches(text, pat)
    /\ \A m \in Memos, i \in 0 .. Len(text), j \in 1 .. Len(pat) + 1 :
          Sound(m, B, text, pat) => Right(rec[Visit(m, i, j)], m, i, j, n, B, text, pat)

LEMMA VisitIs ==
    ASSUME NEW text, NEW pat, NEW m \in Memos, NEW i \in 0 .. Len(text), NEW j \in 1 .. Len(pat) + 1
    PROVE  /\ Visit(m, i, j) \in Visits(text, pat)
           /\ Visit(m, i, j).m = m /\ Visit(m, i, j).i = i /\ Visit(m, i, j).j = j
  BY DEF Visit, Visits

LEMMA VisitsAre ==
    ASSUME NEW text, NEW pat, NEW v \in Visits(text, pat)
    PROVE  /\ v.m \in Memos /\ v.i \in 0 .. Len(text) /\ v.j \in 1 .. Len(pat) + 1
           /\ v = Visit(v.m, v.i, v.j)
  BY DEF Visit, Visits

LEMMA ResultIs ==
    ASSUME NEW ok \in BOOLEAN, NEW m \in Memos
    PROVE  Result(ok, m) \in Results /\ Result(ok, m).ok = ok /\ Result(ok, m).m = m
  BY DEF Result, Results

LEMMA ResultsAre ==
    ASSUME NEW r \in Results
    PROVE  r.ok \in BOOLEAN /\ r.m \in Memos /\ r.m.failed \subseteq Nat /\ r.m.cut \in BOOLEAN
  BY DEF Results, Memos

LEMMA RecIs ==
    ASSUME NEW text, NEW pat, NEW rec \in Searches(text, pat), NEW m \in Memos,
           NEW i \in 0 .. Len(text), NEW j \in 1 .. Len(pat) + 1
    PROVE  rec[Visit(m, i, j)] \in Results
  BY VisitIs DEF Searches

LEMMA TryTyped ==
    ASSUME NEW text, NEW pat, NEW rec \in Searches(text, pat), NEW acc \in Results,
           NEW i \in 0 .. Len(text), NEW j \in 1 .. Len(pat) + 1
    PROVE  Try(rec, acc, i, j) \in Results
  BY RecIs, ResultsAre DEF Try

Trail(after, rec, m, tries, j) ==
    /\ after \in [0 .. Len(tries) -> Results]
    /\ after[0] = Result(FALSE, m)
    /\ \A k \in 1 .. Len(tries) : after[k] = Try(rec, after[k - 1], tries[k], j)
    /\ TryAll(rec, m, tries, j) = after[Len(tries)]

LEMMA TryAllIs ==
    ASSUME NEW text, NEW pat, NEW rec \in Searches(text, pat), NEW m \in Memos,
           NEW tries \in Seq(0 .. Len(text)), NEW j \in 1 .. Len(pat) + 1
    PROVE  \E after : Trail(after, rec, m, tries, j)
<1> PICK N : N = Len(tries)
  OBVIOUS
<1> DEFINE a == Result(FALSE, m)
           G == [k \in 1 .. N |-> [r \in Results |-> Try(rec, r, tries[k], j)]]
           h == CHOOSE after : after = [k \in 0 .. N |->
                    IF k = 0 THEN Result(FALSE, m) ELSE Try(rec, after[k - 1], tries[k], j)]
<1>1. N \in Nat /\ a \in Results /\ \A k \in 1 .. N : tries[k] \in 0 .. Len(text)
  <2>1. FALSE \in BOOLEAN
    OBVIOUS
  <2>2. Result(FALSE, m) \in Results
    BY <2>1, ResultIs
  <2>3. N \in Nat
    OBVIOUS
  <2>4. \A k \in 1 .. N : tries[k] \in 0 .. Len(text)
    OBVIOUS
  <2> QED BY <2>2, <2>3, <2>4
<1>2. \A k \in 1 .. N, r \in Results : Try(rec, r, tries[k], j) \in Results
  BY <1>1, TryTyped
<1>3. G \in [1 .. N -> [Results -> Results]]
  BY <1>2
<1>4. PICK f \in [0 .. N -> Results] : f[0] = a /\ \A k \in 1 .. N : f[k] = G[k][f[k - 1]]
  <2> HIDE DEF a, G
  <2>1. Chain(N, Results, a, G)
    BY <1>1, <1>3 DEF Chain
  <2> QED BY <2>1, ChainExists
<1>5. ASSUME NEW k \in 1 .. N PROVE f[k] = Try(rec, f[k - 1], tries[k], j)
  <2>1. f[k] = G[k][f[k - 1]]
    <3> HIDE DEF G
    <3> QED BY <1>4
  <2>2. f[k - 1] \in Results
    <3>1. k - 1 \in 0 .. N
      BY <1>1
    <3> QED BY <3>1
  <2>3. \A r \in Results : G[k][r] = Try(rec, r, tries[k], j)
    OBVIOUS
  <2> HIDE DEF G
  <2> QED BY <2>1, <2>2, <2>3
<1>6. f = [k \in 0 .. N |-> IF k = 0 THEN a ELSE Try(rec, f[k - 1], tries[k], j)]
  <2>1. ASSUME NEW k \in 0 .. N PROVE f[k] = IF k = 0 THEN a ELSE Try(rec, f[k - 1], tries[k], j)
    <3>1. k = 0 \/ k \in 1 .. N
      BY <1>1
    <3> HIDE DEF a, G, h
    <3> QED BY <1>4, <1>5, <3>1
  <2> HIDE DEF a, G, h
  <2> QED BY <2>1
<1>7. h = [k \in 0 .. N |-> IF k = 0 THEN a ELSE Try(rec, h[k - 1], tries[k], j)]
  BY <1>6
<1>8. TryAll(rec, m, tries, j) = h[N]
  BY DEF TryAll
<1>9. h[0] = a /\ \A k \in 1 .. N : h[k] = Try(rec, h[k - 1], tries[k], j)
  <2> HIDE DEF a, h
  <2>1. \A k \in 0 .. N : h[k] = IF k = 0 THEN a ELSE Try(rec, h[k - 1], tries[k], j)
    BY <1>7
  <2>2. 0 \in 0 .. N /\ \A k \in 1 .. N : k \in 0 .. N /\ k # 0
    BY <1>1
  <2> QED BY <2>1, <2>2
<1>10. \A k \in 0 .. N : h[k] \in Results
  <2> HIDE DEF a, h
  <2>1. h[0] \in Results /\ \A k \in 1 .. N : h[k - 1] \in Results => h[k] \in Results
    BY <1>1, <1>2, <1>9
  <2> QED BY <1>1, <2>1, ChainTyped
<1>11. h = [k \in 0 .. N |-> h[k]]
  <2> HIDE DEF h
  <2> QED BY <1>7
<1>12. h \in [0 .. N -> Results]
  <2> HIDE DEF h
  <2> QED BY <1>10, <1>11
<1> HIDE DEF h
<1> QED BY <1>8, <1>9, <1>12 DEF Trail

\* What the tries of a star come back with: as Right, with any of their places
\* in the stead of one.
RightTries(r, m, places, j, n, B, text, pat) ==
    /\ r \in Results
    /\ Sound(r.m, B, text, pat)
    /\ r.ok => \E q \in places : q \in B[j]
    /\ ~r.ok /\ ~r.m.cut => \A q \in places : q \notin B[j]
    /\ m.cut => r.m.cut
    /\ AtStart(pat, j) /\ Left(pat, j) < n => r.m.cut = m.cut

LEMMA TryRight ==
    ASSUME NEW text \in Text, NEW pat \in Pattern, NEW B, NEW rec, NEW n,
           RightSearch(rec, n, B, text, pat),
           NEW m \in Memos, NEW acc, NEW places,
           NEW i \in 0 .. Len(text), NEW j \in 1 .. Len(pat) + 1,
           RightTries(acc, m, places, j, n, B, text, pat)
    PROVE  RightTries(Try(rec, acc, i, j), m, places \cup {i}, j, n, B, text, pat)
<1>1. acc \in Results /\ acc.m \in Memos /\ Sound(acc.m, B, text, pat)
  BY ResultsAre DEF RightTries
<1>2. CASE acc.ok
  BY <1>2 DEF Try, RightTries
<1>3. CASE ~acc.ok
  <2> PICK r : r = rec[Visit(acc.m, i, j)]
    OBVIOUS
  <2>1. Try(rec, acc, i, j) = r
    BY <1>3 DEF Try
  <2>2. Right(r, acc.m, i, j, n, B, text, pat)
    BY <1>1 DEF RightSearch
  <2>3. r \in Results
    BY <1>1, RecIs DEF RightSearch
  <2>4. r.ok \in BOOLEAN /\ r.m.cut \in BOOLEAN /\ acc.m.cut \in BOOLEAN
    BY <1>1, <2>3, ResultsAre
  <2>5. ~r.ok /\ ~r.m.cut => \A q \in places \cup {i} : q \notin B[j]
    <3> SUFFICES ASSUME ~r.ok, ~r.m.cut PROVE \A q \in places \cup {i} : q \notin B[j]
      OBVIOUS
    <3>1. ~acc.m.cut
      BY <2>2 DEF Right
    <3>2. \A q \in places : q \notin B[j]
      BY <1>3, <3>1 DEF RightTries
    <3>3. i \notin B[j]
      BY <2>2 DEF Right
    <3> QED BY <3>2, <3>3
  <2>6. r.ok => \E q \in places \cup {i} : q \in B[j]
    BY <2>2 DEF Right
  <2>7. m.cut => r.m.cut
    BY <2>2 DEF Right, RightTries
  <2>8. AtStart(pat, j) /\ Left(pat, j) < n => r.m.cut = m.cut
    BY <2>2 DEF Right, RightTries
  <2>9. Sound(r.m, B, text, pat)
    BY <2>2 DEF Right
  <2> QED BY <2>1, <2>3, <2>5, <2>6, <2>7, <2>8, <2>9 DEF RightTries
<1> QED BY <1>2, <1>3

LEMMA TryAllRight ==
    ASSUME NEW text \in Text, NEW pat \in Pattern, NEW B, NEW rec, NEW n,
           RightSearch(rec, n, B, text, pat),
           NEW m \in Memos, Sound(m, B, text, pat),
           NEW tries \in Seq(0 .. Len(text)), NEW j \in 1 .. Len(pat) + 1
    PROVE  RightTries(TryAll(rec, m, tries, j), m, {tries[k] : k \in 1 .. Len(tries)},
                      j, n, B, text, pat)
<1>1. /\ Len(tries) \in Nat /\ rec \in Searches(text, pat)
      /\ \A k \in 1 .. Len(tries) : tries[k] \in 0 .. Len(text)
  BY DEF RightSearch
<1>2. PICK after : Trail(after, rec, m, tries, j)
  BY <1>1, TryAllIs
<1> USE DEF Trail
<1> DEFINE PlacesTo(k) == {tries[l] : l \in 1 .. k}
           Claim(k) == RightTries(after[k], m, PlacesTo(k), j, n, B, text, pat)
           S == {k \in Nat : k <= Len(tries) => Claim(k)}
<1>3. 0 \in S
  <2>1. after[0] \in Results /\ after[0].ok = FALSE /\ after[0].m = m
    <3>1. FALSE \in BOOLEAN
      OBVIOUS
    <3>2. /\ Result(FALSE, m) \in Results
          /\ Result(FALSE, m).ok = FALSE /\ Result(FALSE, m).m = m
      BY <3>1, ResultIs
    <3> QED BY <1>2, <3>2
  <2>2. PlacesTo(0) = {}
    OBVIOUS
  <2>3. Claim(0)
    <3> HIDE DEF PlacesTo
    <3> QED BY <2>1, <2>2 DEF RightTries
  <2> QED BY <2>3
<1>4. ASSUME NEW k \in Nat, k \in S PROVE k + 1 \in S
  <2> SUFFICES ASSUME k + 1 <= Len(tries) PROVE Claim(k + 1)
    <3> HIDE DEF Claim
    <3> QED OBVIOUS
  <2>1. Claim(k) /\ k + 1 \in 1 .. Len(tries) /\ (k + 1) - 1 = k
    <3> HIDE DEF Claim
    <3> QED BY <1>1, <1>4
  <2>2. after[k + 1] = Try(rec, after[k], tries[k + 1], j)
    BY <1>2, <2>1
  <2>3. tries[k + 1] \in 0 .. Len(text)
    BY <1>1, <2>1
  <2>4. PlacesTo(k + 1) = PlacesTo(k) \cup {tries[k + 1]}
    <3>1. \A l : l \in 1 .. k + 1 <=> l \in 1 .. k \/ l = k + 1
      OBVIOUS
    <3> QED BY <3>1
  <2> HIDE DEF PlacesTo
  <2>5. RightTries(Try(rec, after[k], tries[k + 1], j), m, PlacesTo(k) \cup {tries[k + 1]},
                   j, n, B, text, pat)
    BY <2>1, <2>3, TryRight
  <2> QED BY <2>2, <2>4, <2>5
<1>5. Len(tries) \in S
  <2>1. Nat \subseteq S
    <3> HIDE DEF S
    <3> QED BY <1>3, <1>4, NatSetInduction
  <2> QED BY <1>1, <2>1
<1>6. Claim(Len(tries))
  <2> HIDE DEF Claim
  <2> QED BY <1>1, <1>5
<1> QED BY <1>2, <1>6

\* The ways a visit may go
Outcome(r, text, pat, size, rec, m, i, j) ==
    \/ j = Len(pat) + 1 /\ r = Result(i = Len(text) \/ text[i + 1] = "?", m)
    \/ j \in 1 .. Len(pat) /\ pat[j] = Star /\ j = Len(pat) /\ r = Result(TRUE, m)
    \/ j \in 1 .. Len(pat) /\ pat[j].k = "end" /\ r = Result(i = Len(text), m)
    \/ /\ j \in 1 .. Len(pat) /\ pat[j].k = "size"
       /\ r = Result(size # Unknown /\ SizeMet(pat[j], size), m)
    \/ /\ j \in 1 .. Len(pat) /\ pat[j].k = "star"
       /\ r = TryAll(rec, m, Tries(pat[j], text, i), j + 1)
    \/ /\ j \in 1 .. Len(pat) /\ pat[j].k = "char"
       /\ WordStands(text, pat, i, j, Word(pat, j))
       /\ r = rec[Visit(m, i + Word(pat, j), j + Word(pat, j))]
    \/ /\ j \in 1 .. Len(pat) /\ pat[j].k = "char"
       /\ ~WordStands(text, pat, i, j, Word(pat, j))
       /\ r = Result(FALSE, m)

LEMMA ImplIs ==
    ASSUME NEW text \in Text, NEW pat \in Pattern, NEW size, NEW rec, NEW m,
           NEW i, NEW j \in 1 .. Len(pat) + 1,
           NEW r, r = Impl(text, pat, size, rec, Visit(m, i, j))
    PROVE  Outcome(r, text, pat, size, rec, m, i, j)
<1> PICK v : v = Visit(m, i, j)
  OBVIOUS
<1>1. v.m = m /\ v.i = i /\ v.j = j
  BY DEF Visit
<1>2. r = Impl(text, pat, size, rec, v)
  OBVIOUS
<1>3. CASE j = Len(pat) + 1
  <2>1. Len(pat) \in Nat /\ j > Len(pat)
    BY <1>3, PatternIs
  <2> QED BY <1>1, <1>2, <1>3, <2>1 DEF Impl, Outcome
<1>4. CASE j # Len(pat) + 1
  <2>1. j \in 1 .. Len(pat) /\ ~(j > Len(pat))
    BY <1>4, PatternIs
  <2>2. pat[j].k \in {"char", "star", "end", "size"}
    BY <2>1, PatternIs, TokenIs
  <2> QED BY <1>1, <1>2, <2>1, <2>2 DEF Impl, Outcome
<1> QED BY <1>3, <1>4

\* Where a word ends
LEMMA AfterWord ==
    ASSUME NEW text \in Text, NEW pat \in Pattern, NEW i \in 0 .. Len(text),
           NEW j \in 1 .. Len(pat), pat[j].k = "char",
           WordStands(text, pat, i, j, Word(pat, j))
    PROVE  /\ i + Word(pat, j) \in 0 .. Len(text)
           /\ j + Word(pat, j) \in 1 .. Len(pat) + 1
           /\ j < j + Word(pat, j)
<1>1. Len(pat) \in Nat /\ Len(text) \in Nat /\ Word(pat, j) \in 1 .. Len(pat) - j + 1
  BY PatternIs, TextIs, WordIs
<1>2. i + Word(pat, j) <= Len(text)
  BY DEF WordStands
<1> QED BY <1>1, <1>2

LEMMA ImplTyped ==
    ASSUME NEW text \in Text, NEW pat \in Pattern, NEW size, NEW rec \in Searches(text, pat),
           NEW m \in Memos, NEW i \in 0 .. Len(text), NEW j \in 1 .. Len(pat) + 1
    PROVE  Impl(text, pat, size, rec, Visit(m, i, j)) \in Results
<1> PICK r : r = Impl(text, pat, size, rec, Visit(m, i, j))
  OBVIOUS
<1>1. \A b \in BOOLEAN : Result(b, m) \in Results
  BY ResultIs
<1>2. Len(pat) \in Nat /\ Len(text) \in Nat
  BY PatternIs, TextIs
<1>3. ASSUME j \in 1 .. Len(pat), pat[j].k = "star"
      PROVE  TryAll(rec, m, Tries(pat[j], text, i), j + 1) \in Results
  <2>1. pat[j] \in Token
    BY <1>3, PatternIs
  <2>2. PICK s \in Seq(0 .. Len(text)) : s = Tries(pat[j], text, i)
    BY <1>3, <2>1, TriesAre DEF Tried
  <2>3. j + 1 \in 1 .. Len(pat) + 1
    BY <1>2, <1>3
  <2>4. PICK after : Trail(after, rec, m, s, j + 1)
    BY <2>3, TryAllIs
  <2>5. Len(s) \in Nat /\ Len(s) \in 0 .. Len(s)
    OBVIOUS
  <2> QED BY <2>2, <2>4, <2>5 DEF Trail
<1>4. ASSUME j \in 1 .. Len(pat), pat[j].k = "char", WordStands(text, pat, i, j, Word(pat, j))
      PROVE  rec[Visit(m, i + Word(pat, j), j + Word(pat, j))] \in Results
  BY <1>4, AfterWord, RecIs
<1>5. r \in Results
  <2>1. \/ \E b \in BOOLEAN : r = Result(b, m)
        \/ /\ j \in 1 .. Len(pat) /\ pat[j].k = "star"
           /\ r = TryAll(rec, m, Tries(pat[j], text, i), j + 1)
        \/ /\ j \in 1 .. Len(pat) /\ pat[j].k = "char"
           /\ WordStands(text, pat, i, j, Word(pat, j))
           /\ r = rec[Visit(m, i + Word(pat, j), j + Word(pat, j))]
    <3>1. PICK b \in BOOLEAN : b = (i = Len(text) \/ text[i + 1] = "?")
      OBVIOUS
    <3>2. PICK c \in BOOLEAN : c = (i = Len(text))
      OBVIOUS
    <3>3. PICK d \in BOOLEAN : d = (size # Unknown /\ SizeMet(pat[j], size))
      OBVIOUS
    <3>4. TRUE \in BOOLEAN /\ FALSE \in BOOLEAN
      OBVIOUS
    <3>5. Outcome(r, text, pat, size, rec, m, i, j)
      BY ImplIs
    <3> QED BY <3>1, <3>2, <3>3, <3>4, <3>5 DEF Outcome
  <2> QED BY <1>1, <1>3, <1>4, <2>1
<1> QED BY <1>5

\* A test that leaves the memo as it is
LEMMA TestRight ==
    ASSUME NEW text, NEW pat, NEW B, NEW m \in Memos, NEW i, NEW j, NEW n,
           Sound(m, B, text, pat), NEW b \in BOOLEAN, b <=> i \in B[j]
    PROVE  Right(Result(b, m), m, i, j, n, B, text, pat)
<1>1. Result(b, m).ok = b /\ Result(b, m).m = m
  BY DEF Result
<1> QED BY <1>1 DEF Right

LEMMA ImplRight ==
    ASSUME NEW text \in Text, NEW pat \in Pattern, NEW size, NEW B, Meant(B, text, pat, size),
           NEW rec, NEW n \in Nat, RightSearch(rec, n, B, text, pat),
           NEW m \in Memos, Sound(m, B, text, pat),
           NEW i \in 0 .. Len(text), NEW j \in 1 .. Len(pat) + 1
    PROVE  Right(Impl(text, pat, size, rec, Visit(m, i, j)), m, i, j, n + 1, B, text, pat)
<1> PICK r : r = Impl(text, pat, size, rec, Visit(m, i, j))
  OBVIOUS
<1>1. Len(pat) \in Nat /\ Len(text) \in Nat /\ \A l \in 1 .. Len(pat) : pat[l] \in Token
  BY PatternIs, TextIs
<1>2. CASE j = Len(pat) + 1 /\ r = Result(i = Len(text) \/ text[i + 1] = "?", m)
  <2>1. PICK b \in BOOLEAN : b = (i = Len(text) \/ text[i + 1] = "?")
    OBVIOUS
  <2>2. b <=> i \in B[j]
    BY <1>2, <2>1, MeantIs
  <2>3. r = Result(b, m)
    BY <1>2, <2>1
  <2> QED BY <2>2, <2>3, TestRight
<1>3. CASE j \in 1 .. Len(pat) /\ pat[j] = Star /\ j = Len(pat) /\ r = Result(TRUE, m)
  <2>1. i \in B[j]
    BY <1>3, LastStarMeant
  <2>2. PICK b \in BOOLEAN : b = TRUE
    OBVIOUS
  <2>3. r = Result(b, m) /\ (b <=> i \in B[j])
    BY <1>3, <2>1, <2>2
  <2> QED BY <2>3, TestRight
<1>4. CASE j \in 1 .. Len(pat) /\ pat[j].k = "end" /\ r = Result(i = Len(text), m)
  <2>1. PICK b \in BOOLEAN : b = (i = Len(text))
    OBVIOUS
  <2>2. b <=> i \in B[j]
    <3>1. MayEnd(pat[j], text, size, i) <=> i = Len(text)
      BY <1>4 DEF MayEnd
    <3>2. \A q : ~Leads1(pat[j], text, i, q)
      BY <1>4 DEF Leads1
    <3> QED BY <1>4, <2>1, <3>1, <3>2, MeantIs
  <2>3. r = Result(b, m)
    BY <1>4, <2>1
  <2> QED BY <2>2, <2>3, TestRight
<1>5. CASE /\ j \in 1 .. Len(pat) /\ pat[j].k = "size"
           /\ r = Result(size # Unknown /\ SizeMet(pat[j], size), m)
  <2>1. PICK b \in BOOLEAN : b = (size # Unknown /\ SizeMet(pat[j], size))
    OBVIOUS
  <2>2. b <=> i \in B[j]
    <3>1. MayEnd(pat[j], text, size, i) <=> size # Unknown /\ SizeMet(pat[j], size)
      BY <1>5 DEF MayEnd
    <3>2. \A q : ~Leads1(pat[j], text, i, q)
      BY <1>5 DEF Leads1
    <3> QED BY <1>5, <2>1, <3>1, <3>2, MeantIs
  <2>3. r = Result(b, m)
    BY <1>5, <2>1
  <2> QED BY <2>2, <2>3, TestRight
<1>6. CASE /\ j \in 1 .. Len(pat) /\ pat[j].k = "star"
           /\ r = TryAll(rec, m, Tries(pat[j], text, i), j + 1)
  <2>1. pat[j] \in Token /\ j + 1 \in 1 .. Len(pat) + 1
    BY <1>1, <1>6
  <2>2. PICK s \in Seq(0 .. Len(text)) : s = Tries(pat[j], text, i)
    BY <1>6, <2>1, TriesAre DEF Tried
  <2> DEFINE places == {s[k] : k \in 1 .. Len(s)}
  <2>3. RightTries(r, m, places, j + 1, n, B, text, pat)
    <3>1. PICK c \in 1 .. Len(pat) + 1 : c = j + 1
      BY <2>1
    <3>2. RightTries(TryAll(rec, m, s, c), m, {s[k] : k \in 1 .. Len(s)}, c, n, B, text, pat)
      BY TryAllRight
    <3>3. RightTries(TryAll(rec, m, s, c), m, places, c, n, B, text, pat)
      BY <3>2
    <3> HIDE DEF places
    <3> QED BY <1>6, <2>2, <3>1, <3>3
  <2>4. \A q : q \in places <=> Leads1(pat[j], text, i, q)
    <3>1. Tried(s, pat[j], text, i)
      BY <1>6, <2>1, <2>2, TriesAre
    <3> QED BY <3>1 DEF Tried
  <2>5. i \in B[j] <=> \E q \in places : q \in B[j + 1]
    <3>1. ~MayEnd(pat[j], text, size, i)
      BY <1>6 DEF MayEnd
    <3> HIDE DEF places
    <3> QED BY <1>6, <2>4, <3>1, MeantIs
  <2>6. AtStart(pat, j + 1) /\ (AtStart(pat, j) /\ Left(pat, j) < n + 1 => Left(pat, j + 1) < n)
    <3>1. j \in Starts(pat) /\ AtStart(pat, j + 1)
      BY <1>6, NextStarts
    <3>2. Left(pat, j + 1) < Left(pat, j)
      BY <1>6, <3>1, LeftLess
    <3>3. Left(pat, j + 1) \in Nat /\ Left(pat, j) \in Nat
      BY <1>6, LeftIs
    <3> QED BY <3>1, <3>2, <3>3
  <2> HIDE DEF places
  <2>7. Right(r, m, i, j, n + 1, B, text, pat)
    BY <2>3, <2>5, <2>6 DEF Right, RightTries
  <2> QED BY <2>7
<1>7. CASE /\ j \in 1 .. Len(pat) /\ pat[j].k = "char"
           /\ WordStands(text, pat, i, j, Word(pat, j))
           /\ r = rec[Visit(m, i + Word(pat, j), j + Word(pat, j))]
  <2>1. PICK a \in 0 .. Len(text), b \in 1 .. Len(pat) + 1 :
            a = i + Word(pat, j) /\ b = j + Word(pat, j) /\ j < b
    BY <1>7, AfterWord
  <2>2. Right(r, m, a, b, n, B, text, pat)
    BY <1>7, <2>1 DEF RightSearch
  <2>3. i \in B[j] <=> a \in B[b]
    BY <1>7, <2>1, WordMeant
  <2>4. AtStart(pat, b)
    BY <1>7, <2>1, NextStarts
  <2>5. AtStart(pat, j) /\ Left(pat, j) < n + 1 => Left(pat, b) < n
    <3>1. AtStart(pat, j) => j \in Starts(pat)
      BY <1>1, <1>7 DEF AtStart
    <3>2. j \in Starts(pat) => Left(pat, b) < Left(pat, j)
      BY <1>1, <2>1, LeftLess
    <3>3. Left(pat, b) \in Nat /\ Left(pat, j) \in Nat
      BY <1>1, LeftIs
    <3> QED BY <3>1, <3>2, <3>3
  <2>6. Right(r, m, i, j, n + 1, B, text, pat)
    BY <2>2, <2>3, <2>4, <2>5 DEF Right
  <2> QED BY <2>6
<1>8. CASE /\ j \in 1 .. Len(pat) /\ pat[j].k = "char"
           /\ ~WordStands(text, pat, i, j, Word(pat, j))
           /\ r = Result(FALSE, m)
  <2>1. PICK b \in BOOLEAN : b = FALSE
    OBVIOUS
  <2>2. r = Result(b, m) /\ (b <=> i \in B[j])
    BY <1>8, <2>1, WordMeant
  <2> QED BY <2>2, TestRight
<1>9. Outcome(r, text, pat, size, rec, m, i, j)
  BY ImplIs
<1>10. Right(r, m, i, j, n + 1, B, text, pat)
  BY <1>2, <1>3, <1>4, <1>5, <1>6, <1>7, <1>8, <1>9 DEF Outcome
<1> QED BY <1>10

-----------------------------------------------------------------------------
(* One call more, with the memo looked at before and written after *)

Cap(text, pat) == [v \in Visits(text, pat) |-> Result(FALSE, [v.m EXCEPT !.cut = TRUE])]
More(text, pat, size, rec) == [v \in Visits(text, pat) |-> Rec(text, pat, size, rec, v)]

LEMMA RecTyped ==
    ASSUME NEW text \in Text, NEW pat \in Pattern, NEW size, NEW rec \in Searches(text, pat)
    PROVE  More(text, pat, size, rec) \in Searches(text, pat)
<1> SUFFICES ASSUME NEW v \in Visits(text, pat) PROVE Rec(text, pat, size, rec, v) \in Results
  BY DEF More, Searches
<1> PICK r : r = Impl(text, pat, size, rec, v)
  OBVIOUS
<1> PICK key : key = Key(pat, v.i, v.j)
  OBVIOUS
<1>1. /\ v.m \in Memos /\ v.i \in 0 .. Len(text) /\ v.j \in 1 .. Len(pat) + 1
      /\ v = Visit(v.m, v.i, v.j)
  BY VisitsAre
<1>2. r \in Results
  BY <1>1, ImplTyped
<1>3. key \in Nat
  <2>1. v.i \in Nat
    BY <1>1, TextIs
  <2> QED BY <1>1, <2>1, KeyIs
<1>4. Result(FALSE, v.m) \in Results
  BY <1>1 DEF Result, Results
<1>5. [r EXCEPT !.m.failed = @ \cup {key}] \in Results
  BY <1>2, <1>3 DEF Results, Memos
<1> QED BY <1>2, <1>4, <1>5 DEF Rec

LEMMA CapTyped ==
    ASSUME NEW text, NEW pat
    PROVE  Cap(text, pat) \in Searches(text, pat)
<1> SUFFICES ASSUME NEW v \in Visits(text, pat)
             PROVE  Result(FALSE, [v.m EXCEPT !.cut = TRUE]) \in Results
  BY DEF Cap, Searches
<1>1. v.m \in Memos
  BY VisitsAre
<1> QED BY <1>1 DEF Result, Results, Memos

LEMMA RecRight ==
    ASSUME NEW text \in Text, NEW pat \in Pattern, NEW size, NEW B, Meant(B, text, pat, size),
           NEW rec, NEW n \in Nat, RightSearch(rec, n, B, text, pat)
    PROVE  RightSearch(More(text, pat, size, rec), n + 1, B, text, pat)
<1>1. rec \in Searches(text, pat) /\ More(text, pat, size, rec) \in Searches(text, pat)
  BY RecTyped DEF RightSearch
<1> SUFFICES ASSUME NEW m \in Memos, NEW i \in 0 .. Len(text), NEW j \in 1 .. Len(pat) + 1,
                    Sound(m, B, text, pat)
             PROVE  Right(More(text, pat, size, rec)[Visit(m, i, j)], m, i, j, n + 1, B, text, pat)
  BY <1>1 DEF RightSearch
<1> PICK v : v = Visit(m, i, j)
  OBVIOUS
<1> PICK r : r = Impl(text, pat, size, rec, v)
  OBVIOUS
<1> PICK key : key = Key(pat, i, j)
  OBVIOUS
<1> PICK s : s = Rec(text, pat, size, rec, v)
  OBVIOUS
<1>2. v \in Visits(text, pat) /\ v.m = m /\ v.i = i /\ v.j = j
  <2>1. /\ Visit(m, i, j) \in Visits(text, pat)
        /\ Visit(m, i, j).m = m /\ Visit(m, i, j).i = i /\ Visit(m, i, j).j = j
    BY VisitIs
  <2> QED BY <2>1
<1>3. More(text, pat, size, rec)[v] = s
  BY <1>2 DEF More
<1>4. Right(r, m, i, j, n + 1, B, text, pat)
  <2>1. Right(Impl(text, pat, size, rec, Visit(m, i, j)), m, i, j, n + 1, B, text, pat)
    BY ImplRight
  <2> QED BY <2>1
<1>5. r \in Results
  BY <1>1, ImplTyped
<1>6. \/ key \in m.failed /\ s = Result(FALSE, m)
      \/ (r.ok \/ r.m.cut) /\ s = r
      \/ ~r.ok /\ ~r.m.cut /\ s = [r EXCEPT !.m.failed = @ \cup {key}]
  BY <1>2 DEF Rec
<1>7. CASE key \in m.failed /\ s = Result(FALSE, m)
  <2>1. i \notin B[j]
    BY <1>7 DEF Sound
  <2>2. PICK b \in BOOLEAN : b = FALSE
    OBVIOUS
  <2>3. Right(Result(b, m), m, i, j, n + 1, B, text, pat)
    BY <2>1, <2>2, TestRight
  <2> QED BY <1>3, <1>7, <2>2, <2>3
<1>8. CASE s = r
  BY <1>3, <1>4, <1>8
<1>9. CASE ~r.ok /\ ~r.m.cut /\ s = [r EXCEPT !.m.failed = @ \cup {key}]
  <2>1. i \notin B[j]
    BY <1>4, <1>9 DEF Right
  <2>2. s.ok = r.ok /\ s.m.cut = r.m.cut /\ s.m.failed = r.m.failed \cup {key}
    BY <1>5, <1>9 DEF Results, Memos
  <2>3. Sound(s.m, B, text, pat)
    <3> SUFFICES ASSUME NEW a \in 0 .. Len(text), NEW c \in 1 .. Len(pat) + 1,
                        Key(pat, a, c) \in s.m.failed
                 PROVE  a \notin B[c]
      BY DEF Sound
    <3>1. CASE Key(pat, a, c) \in r.m.failed
      BY <1>4, <3>1 DEF Right, Sound
    <3>2. CASE Key(pat, a, c) = key
      <4>1. a \in Nat /\ i \in Nat
        BY TextIs
      <4>2. a = i /\ c = j
        BY <3>2, <4>1, KeysApart
      <4> QED BY <2>1, <4>2
    <3> QED BY <2>2, <3>1, <3>2
  <2> QED BY <1>3, <1>4, <2>2, <2>3 DEF Right
<1> QED BY <1>6, <1>7, <1>8, <1>9

\* No call is left: every branch meets the cap.
LEMMA CapRight ==
    ASSUME NEW text \in Text, NEW pat \in Pattern, NEW B
    PROVE  RightSearch(Cap(text, pat), 0, B, text, pat)
<1> SUFFICES ASSUME NEW m \in Memos, NEW i \in 0 .. Len(text), NEW j \in 1 .. Len(pat) + 1,
                    Sound(m, B, text, pat)
             PROVE  Right(Cap(text, pat)[Visit(m, i, j)], m, i, j, 0, B, text, pat)
  BY CapTyped DEF RightSearch
<1> PICK v : v = Visit(m, i, j)
  OBVIOUS
<1> PICK r : r = Cap(text, pat)[v]
  OBVIOUS
<1>1. v \in Visits(text, pat) /\ v.m = m
  BY VisitIs
<1>2. r = Result(FALSE, [m EXCEPT !.cut = TRUE])
  BY <1>1 DEF Cap
<1>3. r.ok = FALSE /\ r.m.cut = TRUE /\ r.m.failed = m.failed
  BY <1>2 DEF Result, Memos
<1>4. ~(Left(pat, j) < 0)
  <2>1. j \in Nat
    BY PatternIs
  <2> QED BY <2>1, LeftIs
<1> QED BY <1>3, <1>4 DEF Right, Sound

Deepens(s, text, pat, size) ==
    /\ s[0] = Cap(text, pat)
    /\ \A n \in 1 .. MaxDepth : s[n] = More(text, pat, size, s[n - 1])

LEMMA SearchIs ==
    ASSUME NEW text \in Text, NEW pat \in Pattern, NEW size
    PROVE  Deepens(Search(text, pat, size), text, pat, size)
<1> DEFINE V == Visits(text, pat)
           X == Searches(text, pat)
           G == [n \in 1 .. MaxDepth |-> [rec \in X |-> More(text, pat, size, rec)]]
           h == CHOOSE search : search = [n \in 0 .. MaxDepth |->
                    [v \in V |->
                        IF n = 0 THEN Result(FALSE, [v.m EXCEPT !.cut = TRUE])
                        ELSE Rec(text, pat, size, search[n - 1], v)]]
<1>1. MaxDepth \in Nat /\ Cap(text, pat) \in X
  BY RulesAssumption, CapTyped
<1>2. \A rec \in X : More(text, pat, size, rec) \in X
  BY RecTyped
<1>3. G \in [1 .. MaxDepth -> [X -> X]]
  <2> HIDE DEF X
  <2> QED BY <1>2
<1>4. PICK f \in [0 .. MaxDepth -> X] :
          f[0] = Cap(text, pat) /\ \A k \in 1 .. MaxDepth : f[k] = G[k][f[k - 1]]
  <2> HIDE DEF X, G
  <2>1. Chain(MaxDepth, X, Cap(text, pat), G)
    BY <1>1, <1>3 DEF Chain
  <2> QED BY <2>1, ChainExists
<1>5. ASSUME NEW k \in 1 .. MaxDepth PROVE f[k] = More(text, pat, size, f[k - 1])
  <2>1. f[k] = G[k][f[k - 1]]
    <3> HIDE DEF X, G
    <3> QED BY <1>4
  <2>2. f[k - 1] \in X
    <3>1. k - 1 \in 0 .. MaxDepth
      BY <1>1
    <3> HIDE DEF X, G
    <3> QED BY <3>1
  <2>3. \A rec \in X : G[k][rec] = More(text, pat, size, rec)
    <3> HIDE DEF X
    <3> QED OBVIOUS
  <2> HIDE DEF X, G
  <2> QED BY <2>1, <2>2, <2>3
<1> DEFINE Body(g, n) == [v \in V |-> IF n = 0 THEN Result(FALSE, [v.m EXCEPT !.cut = TRUE])
                                      ELSE Rec(text, pat, size, g[n - 1], v)]
<1>6. f = [n \in 0 .. MaxDepth |-> Body(f, n)]
  <2>1. ASSUME NEW n \in 0 .. MaxDepth PROVE f[n] = Body(f, n)
    <3>1. CASE n = 0
      BY <1>4, <3>1 DEF Cap
    <3>2. CASE n # 0
      <4>1. n \in 1 .. MaxDepth
        BY <1>1, <3>2
      <4>2. f[n] = More(text, pat, size, f[n - 1])
        BY <1>5, <4>1
      <4> HIDE DEF G, h
      <4> QED BY <3>2, <4>2 DEF More
    <3> QED BY <3>1, <3>2
  <2> HIDE DEF X, G, h, Body
  <2> QED BY <2>1
<1>7. h = [n \in 0 .. MaxDepth |-> Body(h, n)]
  <2> HIDE DEF X, G
  <2> QED BY <1>6
<1>8. Search(text, pat, size) = h
  BY DEF Search
<1> HIDE DEF h
<1>9. \A n \in 0 .. MaxDepth : h[n] = Body(h, n)
  <2> HIDE DEF Body
  <2> QED BY <1>7
<1>10. h[0] = Cap(text, pat)
  <2>1. 0 \in 0 .. MaxDepth
    BY <1>1
  <2>2. h[0] = Body(h, 0)
    <3> HIDE DEF Body
    <3> QED BY <1>9, <2>1
  <2> QED BY <2>2 DEF Cap
<1>11. ASSUME NEW n \in 1 .. MaxDepth PROVE h[n] = More(text, pat, size, h[n - 1])
  <2>1. n \in 0 .. MaxDepth /\ n # 0
    BY <1>1
  <2>2. h[n] = Body(h, n)
    <3> HIDE DEF Body
    <3> QED BY <1>9, <2>1
  <2> QED BY <2>1, <2>2 DEF More
<1> HIDE DEF Body
<1> QED BY <1>8, <1>10, <1>11 DEF Deepens

LEMMA SearchRight ==
    ASSUME NEW text \in Text, NEW pat \in Pattern, NEW size, NEW B, Meant(B, text, pat, size)
    PROVE  RightSearch(Search(text, pat, size)[MaxDepth], MaxDepth, B, text, pat)
<1> PICK s : s = Search(text, pat, size)
  OBVIOUS
<1>1. Deepens(s, text, pat, size) /\ MaxDepth \in Nat
  BY SearchIs, RulesAssumption
<1> DEFINE Claim(n) == RightSearch(s[n], n, B, text, pat)
           S == {n \in Nat : n <= MaxDepth => Claim(n)}
<1>2. 0 \in S
  <2>1. Claim(0)
    BY <1>1, CapRight DEF Deepens
  <2> QED BY <2>1
<1>3. ASSUME NEW n \in Nat, n \in S PROVE n + 1 \in S
  <2> SUFFICES ASSUME n + 1 <= MaxDepth PROVE Claim(n + 1)
    <3> HIDE DEF Claim
    <3> QED OBVIOUS
  <2>1. Claim(n) /\ n + 1 \in 1 .. MaxDepth /\ (n + 1) - 1 = n
    <3> HIDE DEF Claim
    <3> QED BY <1>1, <1>3
  <2>2. s[n + 1] = More(text, pat, size, s[n])
    BY <1>1, <2>1 DEF Deepens
  <2> QED BY <2>1, <2>2, RecRight
<1>4. Nat \subseteq S
  <2> HIDE DEF S
  <2> QED BY <1>2, <1>3, NatSetInduction
<1>5. Claim(MaxDepth)
  <2> HIDE DEF Claim
  <2> QED BY <1>1, <1>4
<1> QED BY <1>5

\* The matcher finds nothing that the pattern does not mean, unless a *(..) is
\* left nothing, and all of it when the cap leaves it the calls it needs.
LEMMA JokerIsGlob ==
    ASSUME NEW text \in Text, NEW pat \in Pattern, NEW size
    PROVE  /\ Joker(text, pat, size) \in BOOLEAN
           /\ Joker(text, pat, size) => Glob(text, pat, size) \/ OneAtEnd(text, pat)
           /\ Groups(pat) < MaxDepth /\ Glob(text, pat, size) => Joker(text, pat, size)
<1>1. PICK B : Meant(B, text, pat, size)
  BY MeantExists
<1> PICK m : m = [failed |-> {}, cut |-> FALSE]
  OBVIOUS
<1> PICK rec : rec = Search(text, pat, size)[MaxDepth]
  OBVIOUS
<1> PICK r : r = rec[Visit(m, 0, 1)]
  OBVIOUS
<1>2. m \in Memos /\ m.failed = {} /\ m.cut = FALSE
  BY DEF Memos
<1>3. Len(pat) \in Nat /\ Len(text) \in Nat /\ 0 \in 0 .. Len(text) /\ 1 \in 1 .. Len(pat) + 1
  BY PatternIs, TextIs
<1>4. Sound(m, B, text, pat)
  BY <1>2 DEF Sound
<1>5. RightSearch(rec, MaxDepth, B, text, pat)
  BY <1>1, SearchRight
<1>6. Right(r, m, 0, 1, MaxDepth, B, text, pat) /\ r \in Results
  <2>1. rec \in Searches(text, pat)
    BY <1>5 DEF RightSearch
  <2>2. r \in Results
    BY <1>2, <1>3, <2>1, RecIs
  <2>3. Right(r, m, 0, 1, MaxDepth, B, text, pat)
    BY <1>2, <1>3, <1>4, <1>5 DEF RightSearch
  <2> QED BY <2>2, <2>3
<1>7. Joker(text, pat, size) = r.ok
  BY DEF Joker
<1>8. r.ok \in BOOLEAN
  BY <1>6, ResultsAre
<1>9. r.ok => Glob(text, pat, size) \/ OneAtEnd(text, pat)
  BY <1>1, <1>6, GlobIs DEF Right
<1>10. ASSUME Groups(pat) < MaxDepth, Glob(text, pat, size) PROVE r.ok
  <2>1. 0 \in B[1]
    BY <1>1, <1>10, GlobIs
  <2>2. Left(pat, 1) = Groups(pat)
    <3>1. From(pat, 1) = Starts(pat)
      BY PatternIs DEF From, Starts
    <3> QED BY <3>1 DEF Left, Groups, Starts
  <2>3. AtStart(pat, 1)
    <3>1. 1 = Len(pat) + 1 \/ 1 \in DOMAIN pat
      BY <1>3, PatternIs
    <3> QED BY <3>1 DEF AtStart, Starts
  <2>4. ~r.m.cut
    BY <1>2, <1>6, <1>10, <2>2, <2>3 DEF Right
  <2> QED BY <1>6, <2>1, <2>4 DEF Right
<1> QED BY <1>7, <1>8, <1>9, <1>10

-----------------------------------------------------------------------------
(* The rule that decides *)

\* While no size is known, a pattern that needs one means nothing.
LEMMA SizedMeansNothing ==
    ASSUME NEW text \in Text, NEW pat \in Pattern, Sized(pat)
    PROVE  ~Glob(text, pat, Unknown)
<1>1. PICK B : Meant(B, text, pat, Unknown)
  BY MeantExists
<1>2. Len(pat) \in Nat /\ Len(text) \in Nat /\ DOMAIN pat = 1 .. Len(pat)
  BY PatternIs, TextIs
<1>3. PICK j \in 1 .. Len(pat) : pat[j].k = "size" /\ \A l \in 1 .. j - 1 : pat[l].k # "end"
  BY <1>2 DEF Sized
<1>4. ASSUME NEW l \in 1 .. Len(pat), l <= j, l = j \/ B[l + 1] = {} PROVE B[l] = {}
  <2>1. B[l] \subseteq 0 .. Len(text)
    <3>1. l \in 1 .. Len(pat) + 1
      BY <1>2
    <3> QED BY <1>1, <3>1, MeantIs
  <2> SUFFICES ASSUME NEW i \in 0 .. Len(text), i \in B[l] PROVE FALSE
    BY <2>1
  <2>2. MayEnd(pat[l], text, Unknown, i) \/ \E q \in B[l + 1] : Leads1(pat[l], text, i, q)
    BY <1>1, MeantIs
  <2>3. pat[l].k # "end"
    BY <1>2, <1>3, <1>4
  <2>4. \E q \in B[l + 1] : Leads1(pat[l], text, i, q)
    BY <2>2, <2>3 DEF MayEnd
  <2>5. l # j
    BY <1>3, <2>4 DEF Leads1
  <2> QED BY <1>4, <2>4, <2>5
<1> DEFINE S == {k \in Nat : B[k + 1] = {}}
<1>5. j - 1 \in Nat /\ j - 1 \in S
  <2>1. j - 1 \in Nat /\ (j - 1) + 1 = j /\ j <= j
    BY <1>2
  <2>2. B[j] = {}
    BY <1>4, <2>1
  <2> QED BY <2>1, <2>2
<1>6. ASSUME NEW k \in 1 .. j - 1, k \in S PROVE k - 1 \in S
  <2>1. k \in 1 .. Len(pat) /\ k <= j /\ k - 1 \in Nat /\ (k - 1) + 1 = k
    BY <1>2
  <2>2. B[k] = {}
    BY <1>4, <1>6, <2>1
  <2> QED BY <2>1, <2>2
<1>7. 0 \in S
  <2> HIDE DEF S
  <2>1. \A k \in 0 .. j - 1 : k \in S
    BY <1>5, <1>6, DownTo
  <2> QED BY <1>5, <2>1
<1>8. B[1] = {}
  BY <1>7
<1> QED BY <1>1, <1>8, GlobIs

LEMMA LastIs ==
    ASSUME NEW N \in Nat, NEW S \in SUBSET (1 .. N)
    PROVE  /\ LastOf(S) \in 0 .. N
           /\ LastOf(S) = 0 <=> S = {}
           /\ S # {} => LastOf(S) \in S /\ \A k \in S : k <= LastOf(S)
<1>1. CASE S = {}
  BY <1>1 DEF LastOf
<1>2. CASE S # {}
  <2>1. S \in SUBSET (0 .. N)
    OBVIOUS
  <2>2. Max(S) \in S /\ \A k \in S : k <= Max(S)
    BY <1>2, <2>1, MaxIs
  <2>3. LastOf(S) = Max(S)
    BY <1>2 DEF LastOf
  <2>4. LastOf(S) \in 1 .. N
    BY <2>2, <2>3
  <2>5. LastOf(S) # 0 /\ LastOf(S) \in 0 .. N
    BY <2>4
  <2> QED BY <1>2, <2>2, <2>3, <2>5
<1> QED BY <1>1, <1>2

\* The later of two verdicts, as Dual() takes it
Later(a, b) == IF b = 0 \/ (a # 0 /\ a >= b) THEN a ELSE b

LEMMA LastOfBoth ==
    ASSUME NEW N \in Nat, NEW S \in SUBSET (1 .. N), NEW T \in SUBSET (1 .. N)
    PROVE  LastOf(S \cup T) = Later(LastOf(S), LastOf(T))
<1> USE DEF Later
<1>1. S \cup T \in SUBSET (1 .. N)
  OBVIOUS
<1>2. CASE S = {} \/ T = {}
  <2>1. S \cup T = T \/ S \cup T = S
    BY <1>2
  <2>2. (S = {} => S \cup T = T) /\ (T = {} => S \cup T = S)
    OBVIOUS
  <2> QED BY <1>2, <2>2, LastIs
<1>3. CASE S # {} /\ T # {}
  <2>1. /\ LastOf(S) \in S /\ \A k \in S : k <= LastOf(S)
        /\ LastOf(T) \in T /\ \A k \in T : k <= LastOf(T)
        /\ LastOf(S \cup T) \in S \cup T /\ \A k \in S \cup T : k <= LastOf(S \cup T)
    BY <1>1, <1>3, LastIs
  <2>2. LastOf(S) \in 1 .. N /\ LastOf(T) \in 1 .. N /\ LastOf(S \cup T) \in 1 .. N
    BY <2>1
  <2> QED BY <2>1, <2>2
<1> QED BY <1>2, <1>3

LEMMA MatchMeant == MatchIsGlob
<1> SUFFICES ASSUME NEW pat \in Patterns, NEW name \in Names, NEW size \in Sizes
             PROVE  /\ Joker(name, pat, size) => Glob(name, pat, size) \/ OneAtEnd(name, pat)
                    /\ Groups(pat) < MaxDepth /\ Glob(name, pat, size) => Joker(name, pat, size)
  BY DEF MatchIsGlob
<1>1. name \in Text /\ pat \in Pattern
  BY RulesAssumption DEF Text, Pattern
<1> QED BY <1>1, JokerIsGlob

LEMMA LastMeant == LastRuleDecides
<1> SUFFICES ASSUME NEW pats \in RuleLists, NEW n1 \in Names, NEW n2 \in Names,
                    NEW size \in Sizes,
                    \A i \in DOMAIN pats : /\ Groups(pats[i]) < MaxDepth
                                           /\ ~OneAtEnd(n1, pats[i]) /\ ~OneAtEnd(n2, pats[i]),
                    NEW rules, rules = [i \in DOMAIN pats |-> [pat |-> pats[i]]],
                    NEW n, n = Dual(rules, n1, n2, size),
                    NEW hits,
                    hits = {i \in DOMAIN pats : Glob(n1, pats[i], size) \/ Glob(n2, pats[i], size)}
             PROVE  n = LastOf(hits) /\ (size = Unknown /\ n # 0 => ~Sized(pats[n]))
  BY DEF LastRuleDecides
<1> PICK N : N = Len(pats)
  OBVIOUS
<1>1. N \in Nat /\ DOMAIN pats = 1 .. N /\ \A i \in 1 .. N : pats[i] \in Pattern
  <2>1. pats \in Seq(Pattern)
    BY RulesAssumption DEF Pattern
  <2> QED BY <2>1
<1>2. n1 \in Text /\ n2 \in Text
  BY RulesAssumption DEF Text
<1>3. ASSUME NEW name \in {n1, n2}
      PROVE  Hits(rules, name, size) = {i \in 1 .. N : Glob(name, pats[i], size)}
  <2>1. Hits(rules, name, size) = {i \in 1 .. N : Joker(name, pats[i], size)}
    BY <1>1 DEF Hits
  <2>2. \A i \in 1 .. N : Joker(name, pats[i], size) <=> Glob(name, pats[i], size)
    BY <1>1, <1>2, JokerIsGlob
  <2> QED BY <2>1, <2>2
<1> PICK S : S = Hits(rules, n1, size)
  OBVIOUS
<1> PICK T : T = Hits(rules, n2, size)
  OBVIOUS
<1>4. S \in SUBSET (1 .. N) /\ T \in SUBSET (1 .. N) /\ hits = S \cup T
  BY <1>1, <1>2, <1>3
<1>5. n = Later(LastOf(S), LastOf(T))
  BY DEF Dual, LastMatch, Later
<1>6. n = LastOf(hits)
  <2>1. LastOf(S \cup T) = Later(LastOf(S), LastOf(T))
    <3>1. N \in Nat
      BY <1>1
    <3>2. S \in SUBSET (1 .. N)
      BY <1>4
    <3>3. T \in SUBSET (1 .. N)
      BY <1>4
    <3> QED BY <3>1, <3>2, <3>3, LastOfBoth, Zenon
  <2> QED BY <1>4, <1>5, <2>1
<1>7. ASSUME size = Unknown, n # 0 PROVE ~Sized(pats[n])
  <2>1. hits \in SUBSET (1 .. N)
    BY <1>4
  <2>2. n \in hits
    BY <1>1, <1>6, <1>7, <2>1, LastIs
  <2>3. n \in 1 .. N /\ (Glob(n1, pats[n], Unknown) \/ Glob(n2, pats[n], Unknown))
    BY <1>1, <1>7, <2>2
  <2> QED BY <1>1, <1>2, <2>3, SizedMeansNothing
<1> QED BY <1>6, <1>7

-----------------------------------------------------------------------------
(* The flags of the parser say what the lines read say, and a page of the host
   stands behind robots.txt (robots_parse(), and the claim in htsparse.c). *)
THEOREM Inductive == Spec => []IInv
  BY InitIInv, StepIInv, PTL DEF Spec

(* The rules installed are rules the parser kept. *)
TokenType == token = NoToken \/ token \in Seq(Kepts)

LEMMA TokenTyped == Spec => []TokenType
<1>1. Init => TokenType
  BY DEF Init, TokenType
<1>2. IInv /\ TokenType /\ [Next]_vars => TokenType'
  <2> SUFFICES ASSUME IInv, TokenType, [Next]_vars PROVE TokenType'
    OBVIOUS
  <2>1. parser.blob \in Seq(Kepts) /\ <<>> \in Seq(Kepts)
    BY DEF IInv, PInv, ParserType
  <2>2. token' = token \/ token' = <<>> \/ token' = parser.blob
    BY DEF Next, FindLink, Record, NextLink, ReadLine, Install, vars
  <2> QED BY <2>1, <2>2 DEF TokenType
<1> QED BY <1>1, <1>2, Inductive, PTL DEF Spec

(* Whatever the order, the number and the merging of its groups, the rules kept
   of a robots.txt are those of the groups that name us or, when none does, of
   the groups for everyone, but for the cap (robots_parse()). *)
THEOREM GroupsAreHonoured == Spec => []GroupsHonoured
<1>1. IInv => GroupsHonoured
  BY DEF IInv, PInv
<1> QED BY <1>1, Inductive, PTL

(* No page of a host is handled before the host's robots.txt (the claim in
   htsparse.c, which queues robots.txt ahead of the link). *)
THEOREM RulesComeFirst == Spec => []RulesBeforePages
<1>1. IInv => RulesBeforePages
  BY DEF IInv, HInv, RulesBeforePages
<1> QED BY <1>1, Inductive, PTL

(* checkrobots() forbids exactly the links the rules ban, for rules and paths
   of any length: searching each piece of a pattern once finds what the pattern
   means (robots_pattern_match()), and the one rule the scan keeps decides. *)
THEOREM LongestWinsHolds == Spec => []LongestWins
<1>1. TokenType => LongestWins
  <2> SUFFICES ASSUME TokenType, token # NoToken, NEW path \in Paths
               PROVE  Disallowed(path) = Banned(token, path)
    BY DEF LongestWins
  <2>1. token \in Seq(Kepts) /\ path \in Texts
    BY LinksAssumption DEF TokenType, Texts
  <2>2. (Best(token, path).matched /\ ~Best(token, path).allow) <=> Banned(token, path)
    BY <2>1, BestBans
  <2>3. Disallowed(path) <=> Banned(token, path)
    BY <2>2 DEF Disallowed
  <2>4. Disallowed(path) \in BOOLEAN /\ Banned(token, path) \in BOOLEAN
    BY DEF Disallowed, Banned
  <2> QED BY <2>3, <2>4
<1> QED BY <1>1, Inductive, TokenTyped, PTL

(* A link the rules ban is in the mirror only if the page that named it was
   handled before robots.txt was, or if a "+" filter may override: no order of
   the links and of the hosts' pages lets one in (hts_acceptlink()). *)
THEOREM BannedComeBefore == Spec => []BannedCameBefore
<1>1. IInv /\ CInv /\ LongestWins => BannedCameBefore
  <2> SUFFICES ASSUME IInv, CInv, LongestWins, token # NoToken,
                      NEW i \in DOMAIN heap,
                      heap[i].url \in Paths, Banned(token, heap[i].url)
               PROVE  \/ heap[i].from < IndexOf(RobotsTxt)
                      \/ Mode = "sometimes" /\ heap[i].url \in Invited
    BY DEF BannedCameBefore
  <2>1. PICK j \in DOMAIN heap : heap[j].url = RobotsTxt
    BY DEF IInv, HInv
  <2>2. IndexOf(RobotsTxt) \in DOMAIN heap /\ heap[IndexOf(RobotsTxt)].url = RobotsTxt
    BY <2>1 DEF IndexOf
  <2>3. Disallowed(heap[i].url)
    BY DEF LongestWins
  <2> QED BY <2>2, <2>3 DEF CInv, Forbids
<1> QED BY <1>1, Inductive, LongestWinsHolds, InitCame, StepCame, PTL DEF Spec

(* The matcher of the scan rules finds what a pattern means, whatever its memo
   has kept of the branches that failed, and never more however deep the
   pattern, but where a *(..) is left nothing (strjoker_rec(), strjoker_impl());
   the last rule that means either name of a link decides, and none that needs
   a size does while it is not known (fa_strjoker_dual()).  For names, patterns
   and lists of any length. *)
THEOREM RulesMeantHolds == Spec => []RulesMeant
<1>1. RulesMeant
  BY MatchMeant, LastMeant DEF RulesMeant
<1> QED BY <1>1, PTL
=============================================================================
