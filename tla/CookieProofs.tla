----------------------------- MODULE CookieProofs -----------------------------
(***************************************************************************)
(* The cookies of a mirror: the file they are kept in between runs          *)
(* (CookieFile), and the jar of one run (CookieJar).  That the cookies file *)
(* and its .bak are never cut short, and that no line owed to the user is   *)
(* lost, for every set of runs, cookies and odd lines and any number of     *)
(* starts and edits; that a full jar takes cookies only from a host over    *)
(* its share, and that plain http reaches no Secure cookie, for any hosts,  *)
(* records, sizes and bounds.                                               *)
(***************************************************************************)
EXTENDS CookieFile, CookieJar, FiniteSetTheorems, WellFoundedInduction, TLAPS

-----------------------------------------------------------------------------
(* The cookies file *)

\* A content that a power loss leaves as it is.
Settled(c) == c.kind \in {"absent", "zero", "whole"} /\ (c.kind # "whole" => c.has = {})

\* The disk holds what the names lead to now, among what it may hold.
DiskSettled ==
    /\ <<file, bak>> \in onDisk
    /\ \A d \in onDisk : Settled(d[1]) /\ Settled(d[2])

\* How far each run is, what it may write and what it has written.
Loading(r) == pc[r] \in {"off", "starting"}
Ready == {"recheck"} \cup (Saving \ {"syncdir"})
StagedAt(r) ==
    /\ pc[r] = "starting" => verdict[r] = Keep
    /\ pc[r] \in {"write", "flush", "syncdir"} \cup Ready => MaySave(r)
    /\ pc[r] = "flush" => tmp[r] = Loose(jar[r])
    /\ pc[r] \in Ready => tmp[r] = Whole(jar[r])
    /\ pc[r] = "flushcopy" => Settled(Flushed(next[r]))
    /\ pc[r] = "movebak" => Settled(next[r])
Staged == \A r \in Runs : StagedAt(r)

\* Where the lines owed to the user are: in the file, or in the .bak of a file
\* no run will touch.  A run that may save holds all that the file holds.
InFile == \A d \in onDisk : owed \subseteq d[1].has
InBak ==
    /\ given /\ Stranded
    /\ onDisk = {<<file, bak>>} /\ owed \subseteq bak.has
    /\ \A r \in Runs : pc[r] \notin Saving
Placed == owed = {} \/ InFile \/ InBak
CarriedBy(r) == ~Loading(r) /\ MaySave(r) => owed \subseteq jar[r]
Carried == owed \subseteq file.has => \A r \in Runs : CarriedBy(r)
OwedCookies == ~given => owed \subseteq Cookies

IInv == TypeOK /\ DiskSettled /\ Staged /\ Placed /\ Carried /\ OwedCookies

-----------------------------------------------------------------------------
\* The kinds and lines of the contents a step writes.
LEMMA ContentFacts ==
    /\ Absent \in Contents /\ Zero \in Contents /\ Torn \in Contents
    /\ \A lines \in SUBSET Lines : Loose(lines) \in Contents /\ Whole(lines) \in Contents
    /\ \A c \in Contents : Flushed(c) \in Contents /\ AfterPowerLoss(c) \in Contents
    /\ \A c \in Contents : Settled(c) => AfterPowerLoss(c) = c /\ Flushed(c) = c
    /\ \A c \in Contents : Settled(c) /\ ~Bulk(c) => c.has = {}
    /\ Settled(Absent) /\ Settled(Zero) /\ \A lines : Settled(Whole(lines))
    /\ Absent.has = {} /\ Zero.has = {} /\ \A lines : Whole(lines).has = lines
    /\ \A lines : Flushed(Loose(lines)) = Whole(lines)
  BY DEF Absent, Zero, Torn, Loose, Whole, Contents, Flushed, AfterPowerLoss, Settled, Bulk

\* What the user leaves is settled.
LEMMA UserFacts ==
    /\ UserContents \subseteq Contents
    /\ \A c \in UserContents : Settled(c) /\ c.has \subseteq Cookies \cup OddLines
  BY DEF UserContents, Contents, Lines, Absent, Zero, Whole, Settled

\* No line is two things.
LEMMA LineFacts ==
    /\ Cookies \subseteq Lines /\ OddLines \subseteq Lines /\ Runs \subseteq Lines
    /\ Cookies \cap OddLines = {} /\ Runs \cap OddLines = {}
    /\ \A lines \in SUBSET Lines : lines \ OddLines \subseteq Cookies \cup Runs
  BY LinesAssumption DEF Lines

LEMMA InitInv == Init => IInv
<1> SUFFICES ASSUME Init PROVE IInv
  OBVIOUS
<1> USE DEF Init
<1>0. file \in UserContents /\ bak \in UserContents
  BY DEF UserContents
<1>1. TypeOK
  BY UserFacts, ContentFacts, BoundsAssumption DEF TypeOK, Places, Verdicts, OwedIn
<1>2. DiskSettled
  BY <1>0, UserFacts DEF DiskSettled
<1>3. Staged
  BY DEF Staged, StagedAt, Ready, Saving, Keep
<1>4. Placed
  BY UserFacts, ContentFacts DEF Placed, InFile, InBak, OwedIn, Stranded, Saving, Bulk, Exists
<1>5. Carried
  BY DEF Carried, CarriedBy, Loading
<1>6. OwedCookies
  BY DEF OwedCookies, OwedIn, UserLines
<1> QED
  BY <1>1, <1>2, <1>3, <1>4, <1>5, <1>6 DEF IInv

\* A save that fails leaves the disk alone and the run is over.
LEMMA GiveUpInv ==
    ASSUME NEW r \in Runs PROVE IInv /\ GiveUp(r) /\ UNCHANGED <<user, verdict, jar, starts>> => IInv'
<1> SUFFICES ASSUME IInv, GiveUp(r), UNCHANGED <<user, verdict, jar, starts>> PROVE IInv'
  OBVIOUS
<1> USE DEF IInv, GiveUp, disk, user
<1>1. TypeOK'
  BY ContentFacts DEF TypeOK, Places
<1>2. DiskSettled'
  BY ContentFacts DEF DiskSettled, Staged, StagedAt, Ready, Saving
<1>3. Staged'
  <2>1. StagedAt(r)'
    BY DEF TypeOK, StagedAt, Ready, Saving
  <2>2. ASSUME NEW q \in Runs, q # r PROVE StagedAt(q)'
    BY DEF TypeOK, Staged, StagedAt, Ready, Saving, MaySave
  <2> QED
    BY <2>1, <2>2 DEF Staged
<1>4. Placed'
  BY DEF Placed, InFile, InBak, Stranded, Saving
<1>5. Carried'
  <2> SUFFICES ASSUME (owed \subseteq file.has)' PROVE \A q \in Runs : CarriedBy(q)'
    BY DEF Carried
  <2>1. CarriedBy(r)'
    BY DEF Carried, CarriedBy, Loading, MaySave
  <2>2. ASSUME NEW q \in Runs, q # r PROVE CarriedBy(q)'
    BY DEF Carried, CarriedBy, Loading, MaySave
  <2> QED
    BY <2>1, <2>2 DEF Carried
<1>6. OwedCookies'
  BY DEF OwedCookies
<1> QED
  BY <1>1, <1>2, <1>3, <1>4, <1>5, <1>6

LEMMA StartInv ==
    ASSUME NEW r \in Runs PROVE IInv /\ Start(r) => IInv'
<1> SUFFICES ASSUME IInv, Start(r) PROVE IInv'
  OBVIOUS
<1> USE DEF IInv, Start, disk, user, Keep
<1>1. TypeOK'
  BY ContentFacts, BoundsAssumption DEF TypeOK, Places, Verdicts
<1>2. DiskSettled'
  BY ContentFacts DEF DiskSettled, Staged, StagedAt, Ready, Saving
<1>3. Staged'
  <2>1. StagedAt(r)'
    BY DEF TypeOK, StagedAt, Ready, Saving
  <2>2. ASSUME NEW q \in Runs, q # r PROVE StagedAt(q)'
    BY DEF TypeOK, Staged, StagedAt, Ready, Saving, MaySave
  <2> QED
    BY <2>1, <2>2 DEF Staged
<1>4. Placed'
  BY DEF Placed, InFile, InBak, Stranded, Saving
<1>5. Carried'
  <2> SUFFICES ASSUME (owed \subseteq file.has)' PROVE \A q \in Runs : CarriedBy(q)'
    BY DEF Carried
  <2>1. CarriedBy(r)'
    BY DEF CarriedBy, Loading
  <2>2. ASSUME NEW q \in Runs, q # r PROVE CarriedBy(q)'
    BY DEF Carried, CarriedBy, Loading, MaySave
  <2> QED
    BY <2>1, <2>2 DEF Carried
<1>6. OwedCookies'
  BY DEF OwedCookies
<1> QED
  BY <1>1, <1>2, <1>3, <1>4, <1>5, <1>6

LEMMA LoadInv ==
    ASSUME NEW r \in Runs PROVE IInv /\ Load(r) => IInv'
<1> SUFFICES ASSUME IInv, Load(r) PROVE IInv'
  OBVIOUS
<1> USE DEF IInv, Load, disk, user, LoadVerdicts, Loaded, Verdicts, Keep, Clean, Lossy, Created
<1>v. PICK v \in LoadVerdicts :
      \E lines \in Loaded(v) :
        /\ verdict' = [verdict EXCEPT ![r] = v]
        /\ jar' = [jar EXCEPT ![r] = lines]
        /\ owed' = IF ~given /\ v = Lossy THEN owed \cap lines ELSE owed
  OBVIOUS
<1>b. PICK lines \in Loaded(v) :
        /\ verdict' = [verdict EXCEPT ![r] = v]
        /\ jar' = [jar EXCEPT ![r] = lines]
        /\ owed' = IF ~given /\ v = Lossy THEN owed \cap lines ELSE owed
  BY <1>v
<1>c. v \in Verdicts /\ lines \subseteq Cookies \cup Runs /\ owed' \subseteq owed
  BY <1>b, LineFacts DEF TypeOK, Contents
<1>1. TypeOK'
  BY <1>b, <1>c DEF TypeOK, Places
<1>2. DiskSettled'
  BY ContentFacts DEF DiskSettled, Staged, StagedAt, Ready, Saving
<1>3. Staged'
  <2>1. StagedAt(r)'
    BY DEF TypeOK, StagedAt, Ready, Saving
  <2>2. ASSUME NEW q \in Runs, q # r PROVE StagedAt(q)'
    <3>1. pc'[q] = pc[q] /\ verdict'[q] = verdict[q] /\ jar'[q] = jar[q]
      BY <2>2 DEF TypeOK
    <3> QED
      BY <3>1 DEF Staged, StagedAt, MaySave
  <2> QED
    BY <2>1, <2>2 DEF Staged
<1>4. Placed'
  <2>3. \A q \in Runs : pc[q] \notin Saving => pc'[q] \notin Saving
    BY DEF TypeOK, Saving
  <2> QED
    BY <1>c, <2>3 DEF Placed, InFile, InBak, Stranded
<1>5. Carried'
  <2> SUFFICES ASSUME (owed \subseteq file.has)' PROVE \A q \in Runs : CarriedBy(q)'
    BY DEF Carried
  <2>3. verdict'[r] = v /\ jar'[r] = lines
    BY <1>b DEF TypeOK
  <2>4. CarriedBy(r)'
    <3>1. CASE v = Keep
      BY <2>3, <3>1 DEF CarriedBy, MaySave
    <3>2. CASE v = Created
      <4>1. file.has = {}
        BY <1>b, <3>2, ContentFacts DEF DiskSettled, TypeOK, Exists, Bulk
      <4> QED
        BY <4>1 DEF CarriedBy
    <3>3. CASE v = Clean
      <4>1. file.has \cap OddLines = {} /\ lines = file.has \ OddLines
        BY <1>b, <3>3
      <4> QED
        BY <4>1, <2>3 DEF CarriedBy
    <3>4. CASE v = Lossy
      BY <1>b, <2>3, <3>4 DEF CarriedBy, MaySave
    <3> QED
      BY <1>c, <3>1, <3>2, <3>3, <3>4
  <2>5. owed \subseteq file.has
    <3>1. CASE InFile
      BY <3>1 DEF InFile, DiskSettled
    <3>2. CASE InBak
      <4>1. v = Keep
        BY <1>b, <3>2 DEF InBak
      <4> QED
        BY <4>1, <1>b
    <3> QED
      BY <3>1, <3>2 DEF Placed
  <2>6. ASSUME NEW q \in Runs, q # r PROVE CarriedBy(q)'
    <3>1. verdict'[q] = verdict[q] /\ jar'[q] = jar[q] /\ pc'[q] = pc[q]
      BY <2>6 DEF TypeOK
    <3> QED
      BY <1>c, <2>5, <3>1 DEF Carried, CarriedBy, Loading, MaySave
  <2> QED
    BY <2>4, <2>6
<1>6. OwedCookies'
  BY <1>c DEF OwedCookies
<1> QED
  BY <1>1, <1>2, <1>3, <1>4, <1>5, <1>6

LEMMA BailOutInv ==
    ASSUME NEW r \in Runs PROVE IInv /\ BailOut(r) => IInv'
<1> SUFFICES ASSUME IInv, BailOut(r) PROVE IInv'
  OBVIOUS
<1> USE DEF IInv, BailOut, disk, user
<1>1. TypeOK'
  BY DEF TypeOK, Places
<1>2. DiskSettled'
  BY ContentFacts DEF DiskSettled, Staged, StagedAt, Ready, Saving
<1>3. Staged'
  <2>1. StagedAt(r)'
    BY DEF Staged, StagedAt, Ready, Saving
  <2>2. ASSUME NEW q \in Runs, q # r PROVE StagedAt(q)'
    BY DEF Staged, StagedAt, Ready, Saving, MaySave
  <2> QED
    BY <2>1, <2>2 DEF Staged
<1>4. Placed'
  BY DEF Placed, InFile, InBak, Stranded, Saving
<1>5. Carried'
  <2> SUFFICES ASSUME (owed \subseteq file.has)' PROVE \A q \in Runs : CarriedBy(q)'
    BY DEF Carried
  <2>1. CarriedBy(r)'
    BY DEF CarriedBy, MaySave, Staged, StagedAt
  <2>2. ASSUME NEW q \in Runs, q # r PROVE CarriedBy(q)'
    BY DEF Carried, CarriedBy, Loading, MaySave, Staged, StagedAt
  <2> QED
    BY <2>1, <2>2 DEF Carried
<1>6. OwedCookies'
  BY DEF OwedCookies
<1> QED
  BY <1>1, <1>2, <1>3, <1>4, <1>5, <1>6

LEMMA BundleFailsInv ==
    ASSUME NEW r \in Runs PROVE IInv /\ BundleFails(r) => IInv'
<1> SUFFICES ASSUME IInv, BundleFails(r) PROVE IInv'
  OBVIOUS
<1> USE DEF IInv, BundleFails, disk, user, Keep
<1>1. TypeOK'
  BY DEF TypeOK, Places, Verdicts
<1>2. DiskSettled'
  BY ContentFacts DEF DiskSettled, Staged, StagedAt, Ready, Saving
<1>3. Staged'
  <2>1. StagedAt(r)'
    BY DEF StagedAt, Ready, Saving
  <2>2. ASSUME NEW q \in Runs, q # r PROVE StagedAt(q)'
    BY DEF Staged, StagedAt, Ready, Saving, MaySave
  <2> QED
    BY <2>1, <2>2 DEF Staged
<1>4. Placed'
  BY DEF Placed, InFile, InBak, Stranded, Saving
<1>5. Carried'
  <2> SUFFICES ASSUME (owed \subseteq file.has)' PROVE \A q \in Runs : CarriedBy(q)'
    BY DEF Carried
  <2>1. CarriedBy(r)'
    BY DEF Carried, CarriedBy, Loading, MaySave
  <2>2. ASSUME NEW q \in Runs, q # r PROVE CarriedBy(q)'
    BY DEF Carried, CarriedBy, Loading, MaySave
  <2> QED
    BY <2>1, <2>2 DEF Carried
<1>6. OwedCookies'
  BY DEF OwedCookies
<1> QED
  BY <1>1, <1>2, <1>3, <1>4, <1>5, <1>6

LEMMA BeginCrawlInv ==
    ASSUME NEW r \in Runs PROVE IInv /\ BeginCrawl(r) => IInv'
<1> SUFFICES ASSUME IInv, BeginCrawl(r) PROVE IInv'
  OBVIOUS
<1> USE DEF IInv, BeginCrawl, disk, user
<1>1. TypeOK'
  BY DEF TypeOK, Places
<1>2. DiskSettled'
  BY ContentFacts DEF DiskSettled, Staged, StagedAt, Ready, Saving
<1>3. Staged'
  <2>1. StagedAt(r)'
    BY DEF StagedAt, Ready, Saving
  <2>2. ASSUME NEW q \in Runs, q # r PROVE StagedAt(q)'
    BY DEF Staged, StagedAt, Ready, Saving, MaySave
  <2> QED
    BY <2>1, <2>2 DEF Staged
<1>4. Placed'
  BY DEF Placed, InFile, InBak, Stranded, Saving
<1>5. Carried'
  <2> SUFFICES ASSUME (owed \subseteq file.has)' PROVE \A q \in Runs : CarriedBy(q)'
    BY DEF Carried
  <2>1. CarriedBy(r)'
    BY DEF Carried, CarriedBy, Loading, MaySave
  <2>2. ASSUME NEW q \in Runs, q # r PROVE CarriedBy(q)'
    BY DEF Carried, CarriedBy, Loading, MaySave
  <2> QED
    BY <2>1, <2>2 DEF Carried
<1>6. OwedCookies'
  BY DEF OwedCookies
<1> QED
  BY <1>1, <1>2, <1>3, <1>4, <1>5, <1>6

LEMMA SetCookieInv ==
    ASSUME NEW r \in Runs PROVE IInv /\ SetCookie(r) => IInv'
<1> SUFFICES ASSUME IInv, SetCookie(r) PROVE IInv'
  OBVIOUS
<1> USE DEF IInv, SetCookie, disk, user
<1>1. TypeOK'
  BY DEF TypeOK
<1>2. DiskSettled'
  BY ContentFacts DEF DiskSettled, Staged, StagedAt, Ready, Saving
<1>3. Staged'
  <2>1. StagedAt(r)'
    BY DEF StagedAt, Ready, Saving
  <2>2. ASSUME NEW q \in Runs, q # r PROVE StagedAt(q)'
    BY DEF Staged, StagedAt, Ready, Saving, MaySave
  <2> QED
    BY <2>1, <2>2 DEF Staged
<1>4. Placed'
  BY DEF Placed, InFile, InBak, Stranded
<1>5. Carried'
  <2> SUFFICES ASSUME (owed \subseteq file.has)' PROVE \A q \in Runs : CarriedBy(q)'
    BY DEF Carried
  <2>1. CarriedBy(r)'
    BY DEF Carried, CarriedBy, Loading, MaySave
  <2>2. ASSUME NEW q \in Runs, q # r PROVE CarriedBy(q)'
    BY DEF Carried, CarriedBy, Loading, MaySave
  <2> QED
    BY <2>1, <2>2 DEF Carried
<1>6. OwedCookies'
  BY DEF OwedCookies
<1> QED
  BY <1>1, <1>2, <1>3, <1>4, <1>5, <1>6

LEMMA DeleteCookieInv ==
    ASSUME NEW r \in Runs PROVE IInv /\ DeleteCookie(r) => IInv'
<1> SUFFICES ASSUME IInv, DeleteCookie(r) PROVE IInv'
  OBVIOUS
<1> USE DEF IInv, DeleteCookie, disk, user
<1>1. TypeOK'
  BY DEF TypeOK
<1>2. DiskSettled'
  BY ContentFacts DEF DiskSettled, Staged, StagedAt, Ready, Saving
<1>3. Staged'
  <2>1. StagedAt(r)'
    BY DEF StagedAt, Ready, Saving
  <2>2. ASSUME NEW q \in Runs, q # r PROVE StagedAt(q)'
    BY DEF Staged, StagedAt, Ready, Saving, MaySave
  <2> QED
    BY <2>1, <2>2 DEF Staged
<1>4. Placed'
  BY DEF Placed, InFile, InBak, Stranded
<1>5. Carried'
  <2> SUFFICES ASSUME (owed \subseteq file.has)', NEW q \in Runs PROVE CarriedBy(q)'
    BY DEF Carried
  <2>1. PICK c \in jar[r] \cap Cookies : jar' = [jar EXCEPT ![r] = @ \ {c}] /\ owed' = owed \ {c}
    OBVIOUS
  <2>2. owed = {} \/ owed' = {} \/ owed \subseteq file.has
    BY ContentFacts DEF TypeOK, Placed, InFile, InBak, DiskSettled, Stranded, Exists, Bulk
  <2> QED
    BY <2>1, <2>2 DEF TypeOK, Carried, CarriedBy, Loading, MaySave
<1>6. OwedCookies'
  BY DEF OwedCookies
<1> QED
  BY <1>1, <1>2, <1>3, <1>4, <1>5, <1>6

LEMMA EndMirrorInv ==
    ASSUME NEW r \in Runs PROVE IInv /\ EndMirror(r) => IInv'
<1> SUFFICES ASSUME IInv, EndMirror(r) PROVE IInv'
  OBVIOUS
<1> USE DEF IInv, EndMirror, disk, user
<1>1. TypeOK'
  BY DEF TypeOK, Places
<1>2. DiskSettled'
  BY ContentFacts DEF DiskSettled, Staged, StagedAt, Ready, Saving
<1>3. Staged'
  <2>1. StagedAt(r)'
    BY DEF StagedAt, Ready, Saving
  <2>2. ASSUME NEW q \in Runs, q # r PROVE StagedAt(q)'
    BY DEF Staged, StagedAt, Ready, Saving, MaySave
  <2> QED
    BY <2>1, <2>2 DEF Staged
<1>4. Placed'
  BY DEF Placed, InFile, InBak, Stranded, Saving
<1>5. Carried'
  <2> SUFFICES ASSUME (owed \subseteq file.has)' PROVE \A q \in Runs : CarriedBy(q)'
    BY DEF Carried
  <2>1. CarriedBy(r)'
    BY DEF Carried, CarriedBy, Loading, MaySave
  <2>2. ASSUME NEW q \in Runs, q # r PROVE CarriedBy(q)'
    BY DEF Carried, CarriedBy, Loading, MaySave
  <2> QED
    BY <2>1, <2>2 DEF Carried
<1>6. OwedCookies'
  BY DEF OwedCookies
<1> QED
  BY <1>1, <1>2, <1>3, <1>4, <1>5, <1>6

LEMMA EnterSaveInv ==
    ASSUME NEW r \in Runs PROVE IInv /\ EnterSave(r) => IInv'
<1> SUFFICES ASSUME IInv, EnterSave(r) PROVE IInv'
  OBVIOUS
<1>a. CASE GiveUp(r)
  BY <1>a, GiveUpInv DEF EnterSave
<1> SUFFICES ASSUME ~GiveUp(r) PROVE IInv'
  BY <1>a
<1> HIDE DEF GiveUp
<1> USE DEF IInv, EnterSave, disk, user
<1>1. TypeOK'
  BY DEF TypeOK, Places
<1>2. DiskSettled'
  BY ContentFacts DEF DiskSettled, Staged, StagedAt, Ready, Saving
<1>3. Staged'
  <2>1. StagedAt(r)'
    BY DEF TypeOK, StagedAt, Ready, Saving, MaySave
  <2>2. ASSUME NEW q \in Runs, q # r PROVE StagedAt(q)'
    BY DEF TypeOK, Staged, StagedAt, Ready, Saving, MaySave
  <2> QED
    BY <2>1, <2>2 DEF Staged
<1>4. Placed'
  BY DEF TypeOK, Placed, InFile, InBak, Stranded, Saving
<1>5. Carried'
  <2> SUFFICES ASSUME (owed \subseteq file.has)' PROVE \A q \in Runs : CarriedBy(q)'
    BY DEF Carried
  <2>1. CarriedBy(r)'
    BY DEF Carried, CarriedBy, Loading
  <2>2. ASSUME NEW q \in Runs, q # r PROVE CarriedBy(q)'
    BY DEF TypeOK, Carried, CarriedBy, Loading, MaySave
  <2> QED
    BY <2>1, <2>2 DEF Carried
<1>6. OwedCookies'
  BY DEF OwedCookies
<1> QED
  BY <1>1, <1>2, <1>3, <1>4, <1>5, <1>6

LEMMA WriteInv ==
    ASSUME NEW r \in Runs PROVE IInv /\ Write(r) => IInv'
<1> SUFFICES ASSUME IInv, Write(r) PROVE IInv'
  OBVIOUS
<1>a. CASE GiveUp(r)
  BY <1>a, GiveUpInv DEF Write
<1> SUFFICES ASSUME ~GiveUp(r) PROVE IInv'
  BY <1>a
<1> HIDE DEF GiveUp
<1> USE DEF IInv, Write, disk, user
<1>1. TypeOK'
  BY ContentFacts DEF TypeOK, Places, Lines
<1>2. DiskSettled'
  BY ContentFacts DEF DiskSettled, Staged, StagedAt, Ready, Saving
<1>3. Staged'
  <2>1. StagedAt(r)'
    BY DEF TypeOK, Staged, StagedAt, Ready, Saving, MaySave
  <2>2. ASSUME NEW q \in Runs, q # r PROVE StagedAt(q)'
    BY DEF TypeOK, Staged, StagedAt, Ready, Saving, MaySave
  <2> QED
    BY <2>1, <2>2 DEF Staged
<1>4. Placed'
  BY DEF TypeOK, Placed, InFile, InBak, Stranded, Saving
<1>5. Carried'
  <2> SUFFICES ASSUME (owed \subseteq file.has)' PROVE \A q \in Runs : CarriedBy(q)'
    BY DEF Carried
  <2>1. CarriedBy(r)'
    BY DEF Carried, CarriedBy, Loading, Staged, StagedAt
  <2>2. ASSUME NEW q \in Runs, q # r PROVE CarriedBy(q)'
    BY DEF TypeOK, Carried, CarriedBy, Loading, MaySave
  <2> QED
    BY <2>1, <2>2 DEF Carried
<1>6. OwedCookies'
  BY DEF OwedCookies
<1> QED
  BY <1>1, <1>2, <1>3, <1>4, <1>5, <1>6

LEMMA FlushInv ==
    ASSUME NEW r \in Runs PROVE IInv /\ Flush(r) => IInv'
<1> SUFFICES ASSUME IInv, Flush(r) PROVE IInv'
  OBVIOUS
<1>a. CASE GiveUp(r)
  BY <1>a, GiveUpInv DEF Flush
<1> SUFFICES ASSUME ~GiveUp(r) PROVE IInv'
  BY <1>a
<1> HIDE DEF GiveUp
<1> USE DEF IInv, Flush, disk, user
<1>1. TypeOK'
  BY ContentFacts DEF TypeOK, Places
<1>2. DiskSettled'
  BY ContentFacts DEF DiskSettled, Staged, StagedAt, Ready, Saving
<1>3. Staged'
  <2>1. tmp' = [tmp EXCEPT ![r] = Flushed(@)] /\ pc' = [pc EXCEPT ![r] = "recheck"]
    OBVIOUS
  <2>2. StagedAt(r)'
    BY <2>1, ContentFacts DEF TypeOK, Staged, StagedAt, Ready, Saving, MaySave
  <2>3. ASSUME NEW q \in Runs, q # r PROVE StagedAt(q)'
    <3>1. pc'[q] = pc[q] /\ tmp'[q] = tmp[q]
      BY <2>1, <2>3 DEF TypeOK
    <3> QED
      BY <3>1 DEF Staged, StagedAt, MaySave
  <2> QED
    BY <2>2, <2>3 DEF Staged
<1>4. Placed'
  BY DEF TypeOK, Placed, InFile, InBak, Stranded, Saving
<1>5. Carried'
  <2> SUFFICES ASSUME (owed \subseteq file.has)' PROVE \A q \in Runs : CarriedBy(q)'
    BY DEF Carried
  <2>1. CarriedBy(r)'
    BY DEF Carried, CarriedBy, Loading, Staged, StagedAt
  <2>2. ASSUME NEW q \in Runs, q # r PROVE CarriedBy(q)'
    BY DEF TypeOK, Carried, CarriedBy, Loading, MaySave
  <2> QED
    BY <2>1, <2>2 DEF Carried
<1>6. OwedCookies'
  BY DEF OwedCookies
<1> QED
  BY <1>1, <1>2, <1>3, <1>4, <1>5, <1>6

LEMMA RecheckInv ==
    ASSUME NEW r \in Runs PROVE IInv /\ Recheck(r) => IInv'
<1> SUFFICES ASSUME IInv, Recheck(r) PROVE IInv'
  OBVIOUS
<1>a. CASE GiveUp(r)
  BY <1>a, GiveUpInv DEF Recheck
<1> SUFFICES ASSUME ~GiveUp(r) PROVE IInv'
  BY <1>a
<1> HIDE DEF GiveUp
<1> USE DEF IInv, Recheck, disk, user
<1>1. TypeOK'
  BY DEF TypeOK, Places
<1>2. DiskSettled'
  BY ContentFacts DEF DiskSettled, Staged, StagedAt, Ready, Saving
<1>3. Staged'
  <2>1. pc' \in {[pc EXCEPT ![r] = "copy"], [pc EXCEPT ![r] = "replace"]} /\ UNCHANGED <<tmp, next>>
    OBVIOUS
  <2>2. StagedAt(r)'
    BY <2>1 DEF TypeOK, Staged, StagedAt, Ready, Saving, MaySave
  <2>3. ASSUME NEW q \in Runs, q # r PROVE StagedAt(q)'
    <3>1. pc'[q] = pc[q]
      BY <2>1, <2>3 DEF TypeOK
    <3> QED
      BY <2>1, <3>1 DEF Staged, StagedAt, MaySave
  <2> QED
    BY <2>2, <2>3 DEF Staged
<1>4. Placed'
  BY DEF Placed, InFile, InBak
<1>5. Carried'
  <2> SUFFICES ASSUME (owed \subseteq file.has)' PROVE \A q \in Runs : CarriedBy(q)'
    BY DEF Carried
  <2>1. CarriedBy(r)'
    BY DEF Carried, CarriedBy, Loading, Staged, StagedAt, Ready
  <2>2. ASSUME NEW q \in Runs, q # r PROVE CarriedBy(q)'
    BY DEF TypeOK, Carried, CarriedBy, Loading, MaySave
  <2> QED
    BY <2>1, <2>2 DEF Carried
<1>6. OwedCookies'
  BY DEF OwedCookies
<1> QED
  BY <1>1, <1>2, <1>3, <1>4, <1>5, <1>6

LEMMA CopyOldInv ==
    ASSUME NEW r \in Runs PROVE IInv /\ CopyOld(r) => IInv'
<1> SUFFICES ASSUME IInv, CopyOld(r) PROVE IInv'
  OBVIOUS
<1>a. CASE GiveUp(r)
  BY <1>a, GiveUpInv DEF CopyOld
<1> SUFFICES ASSUME ~GiveUp(r) PROVE IInv'
  BY <1>a
<1> HIDE DEF GiveUp
<1> USE DEF IInv, CopyOld, disk, user
<1>1. TypeOK'
  <2>1. \/ next' = [next EXCEPT ![r] = file] /\ pc' = [pc EXCEPT ![r] = "movebak"]
        \/ /\ next' = [next EXCEPT ![r] = IF Bulk(file) THEN Loose(file.has) ELSE file]
           /\ pc' = [pc EXCEPT ![r] = "flushcopy"]
    OBVIOUS
  <2>2. file.has \in SUBSET Lines
    BY DEF TypeOK, Contents
  <2> QED
    BY <2>1, <2>2, ContentFacts DEF TypeOK, Places
<1>2. DiskSettled'
  BY ContentFacts DEF DiskSettled, Staged, StagedAt, Ready, Saving
<1>3. Staged'
  <2>1. \/ next' = [next EXCEPT ![r] = file] /\ pc' = [pc EXCEPT ![r] = "movebak"]
        \/ /\ next' = [next EXCEPT ![r] = IF Bulk(file) THEN Loose(file.has) ELSE file]
           /\ pc' = [pc EXCEPT ![r] = "flushcopy"]
    OBVIOUS
  <2>2. Settled(file) /\ Settled(Flushed(file)) /\ Settled(Flushed(Loose(file.has)))
    BY ContentFacts DEF DiskSettled, TypeOK
  <2>3. StagedAt(r)'
    BY <2>1, <2>2 DEF TypeOK, Staged, StagedAt, Ready, Saving, MaySave
  <2>4. ASSUME NEW q \in Runs, q # r PROVE StagedAt(q)'
    <3>1. pc'[q] = pc[q] /\ next'[q] = next[q]
      BY <2>1, <2>4 DEF TypeOK
    <3> QED
      BY <3>1 DEF Staged, StagedAt, MaySave
  <2> QED
    BY <2>3, <2>4 DEF Staged
<1>4. Placed'
  BY DEF Placed, InFile, InBak, Saving
<1>5. Carried'
  <2> SUFFICES ASSUME (owed \subseteq file.has)' PROVE \A q \in Runs : CarriedBy(q)'
    BY DEF Carried
  <2>1. CarriedBy(r)'
    BY DEF Carried, CarriedBy, Loading, Staged, StagedAt, Ready, Saving
  <2>2. ASSUME NEW q \in Runs, q # r PROVE CarriedBy(q)'
    BY DEF TypeOK, Carried, CarriedBy, Loading, MaySave
  <2> QED
    BY <2>1, <2>2 DEF Carried
<1>6. OwedCookies'
  BY DEF OwedCookies
<1> QED
  BY <1>1, <1>2, <1>3, <1>4, <1>5, <1>6

LEMMA FlushCopyInv ==
    ASSUME NEW r \in Runs PROVE IInv /\ FlushCopy(r) => IInv'
<1> SUFFICES ASSUME IInv, FlushCopy(r) PROVE IInv'
  OBVIOUS
<1>a. CASE GiveUp(r)
  BY <1>a, GiveUpInv DEF FlushCopy
<1> SUFFICES ASSUME ~GiveUp(r) PROVE IInv'
  BY <1>a
<1> HIDE DEF GiveUp
<1> USE DEF IInv, FlushCopy, disk, user
<1>1. TypeOK'
  BY ContentFacts DEF TypeOK, Places
<1>2. DiskSettled'
  BY ContentFacts DEF DiskSettled, Staged, StagedAt, Ready, Saving
<1>3. Staged'
  <2>1. StagedAt(r)'
    BY DEF TypeOK, Staged, StagedAt, Ready, Saving, MaySave
  <2>2. ASSUME NEW q \in Runs, q # r PROVE StagedAt(q)'
    BY DEF TypeOK, Staged, StagedAt, Ready, Saving, MaySave
  <2> QED
    BY <2>1, <2>2 DEF Staged
<1>4. Placed'
  BY DEF Placed, InFile, InBak, Saving
<1>5. Carried'
  <2> SUFFICES ASSUME (owed \subseteq file.has)' PROVE \A q \in Runs : CarriedBy(q)'
    BY DEF Carried
  <2>1. CarriedBy(r)'
    BY DEF Carried, CarriedBy, Loading, Staged, StagedAt, Ready, Saving
  <2>2. ASSUME NEW q \in Runs, q # r PROVE CarriedBy(q)'
    BY DEF TypeOK, Carried, CarriedBy, Loading, MaySave
  <2> QED
    BY <2>1, <2>2 DEF Carried
<1>6. OwedCookies'
  BY DEF OwedCookies
<1> QED
  BY <1>1, <1>2, <1>3, <1>4, <1>5, <1>6

LEMMA MoveBakInv ==
    ASSUME NEW r \in Runs PROVE IInv /\ MoveBak(r) => IInv'
<1> SUFFICES ASSUME IInv, MoveBak(r) PROVE IInv'
  OBVIOUS
<1>a. CASE GiveUp(r)
  BY <1>a, GiveUpInv DEF MoveBak
<1> SUFFICES ASSUME ~GiveUp(r) PROVE IInv'
  BY <1>a
<1> HIDE DEF GiveUp
<1> USE DEF IInv, MoveBak, disk, user, RenameToBak
<1>1. TypeOK'
  BY ContentFacts DEF TypeOK, Places
<1>2. DiskSettled'
  BY ContentFacts DEF DiskSettled, Staged, StagedAt, Ready, Saving
<1>3. Staged'
  <2>1. StagedAt(r)'
    BY DEF TypeOK, Staged, StagedAt, Ready, Saving, MaySave
  <2>2. ASSUME NEW q \in Runs, q # r PROVE StagedAt(q)'
    BY DEF TypeOK, Staged, StagedAt, Ready, Saving, MaySave
  <2> QED
    BY <2>1, <2>2 DEF Staged
<1>4. Placed'
  BY DEF Placed, InFile, InBak, Saving
<1>5. Carried'
  <2> SUFFICES ASSUME (owed \subseteq file.has)' PROVE \A q \in Runs : CarriedBy(q)'
    BY DEF Carried
  <2>1. CarriedBy(r)'
    BY DEF Carried, CarriedBy, Loading, Staged, StagedAt, Ready, Saving
  <2>2. ASSUME NEW q \in Runs, q # r PROVE CarriedBy(q)'
    BY DEF TypeOK, Carried, CarriedBy, Loading, MaySave
  <2> QED
    BY <2>1, <2>2 DEF Carried
<1>6. OwedCookies'
  BY DEF OwedCookies
<1> QED
  BY <1>1, <1>2, <1>3, <1>4, <1>5, <1>6

LEMMA ReplaceInv ==
    ASSUME NEW r \in Runs PROVE IInv /\ Replace(r) => IInv'
<1> SUFFICES ASSUME IInv, Replace(r) PROVE IInv'
  OBVIOUS
<1>a. CASE GiveUp(r)
  BY <1>a, GiveUpInv DEF Replace
<1> SUFFICES ASSUME ~GiveUp(r) PROVE IInv'
  BY <1>a
<1> HIDE DEF GiveUp
<1> USE DEF IInv, Replace, disk, user, RenameToFile
<1>1. TypeOK'
  BY ContentFacts DEF TypeOK, Places
<1>2. DiskSettled'
  BY ContentFacts DEF DiskSettled, Staged, StagedAt, Ready, Saving
<1>3. Staged'
  <2>1. StagedAt(r)'
    BY DEF TypeOK, Staged, StagedAt, Ready, Saving, MaySave
  <2>2. ASSUME NEW q \in Runs, q # r PROVE StagedAt(q)'
    BY DEF TypeOK, Staged, StagedAt, Ready, Saving, MaySave
  <2> QED
    BY <2>1, <2>2 DEF Staged
<1>4. Placed'
  <2>1. tmp[r].has = jar[r] /\ MaySave(r) /\ ~Loading(r)
    BY ContentFacts DEF Staged, StagedAt, Ready, Saving, Loading
  <2>2. CASE InFile
    <3>1. owed \subseteq jar[r]
      BY <2>1, <2>2 DEF InFile, DiskSettled, Carried, CarriedBy
    <3> QED
      BY <2>1, <2>2, <3>1 DEF Placed, InFile
  <2> QED
    BY <2>2 DEF Placed, InBak, Saving
<1>5. Carried'
  <2>1. owed = {} \/ owed \subseteq file.has
    BY DEF Placed, InFile, InBak, DiskSettled, Saving
  <2>2. ASSUME NEW q \in Runs PROVE CarriedBy(q)'
    BY <2>1 DEF TypeOK, Carried, CarriedBy, Loading, MaySave
  <2> QED
    BY <2>2 DEF Carried
<1>6. OwedCookies'
  BY DEF OwedCookies
<1> QED
  BY <1>1, <1>2, <1>3, <1>4, <1>5, <1>6

LEMMA SyncDirInv ==
    ASSUME NEW r \in Runs PROVE IInv /\ SyncDir(r) => IInv'
<1> SUFFICES ASSUME IInv, SyncDir(r) PROVE IInv'
  OBVIOUS
<1> USE DEF IInv, SyncDir, disk, user
<1>1. TypeOK'
  BY DEF TypeOK, Places
<1>2. DiskSettled'
  BY ContentFacts DEF DiskSettled, Staged, StagedAt, Ready, Saving
<1>3. Staged'
  <2>1. StagedAt(r)'
    BY DEF Staged, StagedAt, Ready, Saving, MaySave
  <2>2. ASSUME NEW q \in Runs, q # r PROVE StagedAt(q)'
    BY DEF Staged, StagedAt, Ready, Saving, MaySave
  <2> QED
    BY <2>1, <2>2 DEF Staged
<1>4. Placed'
  BY DEF Placed, InFile, InBak, Saving, DiskSettled
<1>5. Carried'
  <2> SUFFICES ASSUME (owed \subseteq file.has)' PROVE \A q \in Runs : CarriedBy(q)'
    BY DEF Carried
  <2>1. CarriedBy(r)'
    BY DEF Carried, CarriedBy, Loading, Staged, StagedAt
  <2>2. ASSUME NEW q \in Runs, q # r PROVE CarriedBy(q)'
    BY DEF Carried, CarriedBy, Loading, MaySave
  <2> QED
    BY <2>1, <2>2 DEF Carried
<1>6. OwedCookies'
  BY DEF OwedCookies
<1> QED
  BY <1>1, <1>2, <1>3, <1>4, <1>5, <1>6

LEMMA KillInv ==
    ASSUME NEW r \in Runs PROVE IInv /\ Kill(r) => IInv'
<1> SUFFICES ASSUME IInv, Kill(r) PROVE IInv'
  OBVIOUS
<1> USE DEF IInv, Kill, disk, user
<1>1. TypeOK'
  BY DEF TypeOK, Places
<1>2. DiskSettled'
  BY ContentFacts DEF DiskSettled, Staged, StagedAt, Ready, Saving
<1>3. Staged'
  <2>1. StagedAt(r)'
    BY DEF Staged, StagedAt, Ready, Saving, MaySave
  <2>2. ASSUME NEW q \in Runs, q # r PROVE StagedAt(q)'
    BY DEF Staged, StagedAt, Ready, Saving, MaySave
  <2> QED
    BY <2>1, <2>2 DEF Staged
<1>4. Placed'
  BY DEF Placed, InFile, InBak, Stranded, Saving
<1>5. Carried'
  <2> SUFFICES ASSUME (owed \subseteq file.has)' PROVE \A q \in Runs : CarriedBy(q)'
    BY DEF Carried
  <2>1. CarriedBy(r)'
    BY DEF Carried, CarriedBy, Loading, MaySave
  <2>2. ASSUME NEW q \in Runs, q # r PROVE CarriedBy(q)'
    BY DEF Carried, CarriedBy, Loading, MaySave
  <2> QED
    BY <2>1, <2>2 DEF Carried
<1>6. OwedCookies'
  BY DEF OwedCookies
<1> QED
  BY <1>1, <1>2, <1>3, <1>4, <1>5, <1>6

\* A power loss leaves one of the pairs the disk may hold.
LEMMA PowerLossInv == IInv /\ PowerLoss => IInv'
<1> SUFFICES ASSUME IInv, PowerLoss PROVE IInv'
  OBVIOUS
<1> USE DEF IInv, PowerLoss, user
<1>0. PICK d \in onDisk : file' = d[1] /\ bak' = d[2] /\ onDisk' = {<<file', bak'>>}
  BY ContentFacts DEF DiskSettled, TypeOK
<1>a. d[1] \in Contents /\ d[2] \in Contents /\ Settled(d[1]) /\ Settled(d[2])
  BY <1>0 DEF TypeOK, DiskSettled
<1>1. TypeOK'
  BY <1>0, <1>a, ContentFacts DEF TypeOK, Places
<1>2. DiskSettled'
  BY <1>0, <1>a DEF DiskSettled
<1>3. Staged'
  BY DEF Staged, StagedAt, Ready, Saving
<1>4. Placed'
  <2>1. CASE InFile
    BY <1>0, <2>1 DEF Placed, InFile
  <2>2. CASE InBak
    <3>1. file' = file /\ bak' = bak
      BY <1>0, <2>2 DEF InBak
    <3> QED
      BY <1>0, <2>2, <3>1 DEF Placed, InBak, Stranded, Exists, Bulk, Saving
  <2> QED
    BY <2>1, <2>2 DEF Placed
<1>5. Carried'
  BY DEF Carried, CarriedBy, Loading
<1>6. OwedCookies'
  BY DEF OwedCookies
<1> QED
  BY <1>1, <1>2, <1>3, <1>4, <1>5, <1>6

\* What is owed after the user has touched the file is what is then found.
LEMMA EditInv ==
    ASSUME IInv, file' \in Contents, bak' \in Contents, Settled(file)', Settled(bak)',
           OwedIn(file', bak') \subseteq Cookies \cup OddLines,
           onDisk' = {<<file', bak'>>}, owed' = OwedIn(file', bak'),
           UNCHANGED <<given, pc, verdict, jar, tmp, next, starts>>,
           edits' \in 0..MaxEdits,
           \A r \in Runs : pc[r] \notin Saving,
           (\A r \in Runs : pc[r] = "off") \/ file'.has = {}
    PROVE  IInv'
<1> USE DEF IInv
<1>1. TypeOK'
  BY DEF TypeOK
<1>2. DiskSettled'
  BY DEF DiskSettled
<1>3. Staged'
  BY DEF Staged, StagedAt, MaySave
<1>4. Placed'
  <2>1. CASE Bulk(file)'
    BY <2>1 DEF Placed, InFile, OwedIn
  <2>2. CASE ~Bulk(file)' /\ Exists(bak)' /\ given
    <3>1. CASE Stranded'
      BY <2>2, <3>1 DEF Placed, InBak, OwedIn
    <3>2. CASE ~Stranded'
      <4>1. (bak.has = {})'
        BY <2>2, <3>2, ContentFacts DEF Stranded, Bulk, Exists
      <4> QED
        BY <2>2, <4>1 DEF Placed, OwedIn
    <3> QED
      BY <3>1, <3>2
  <2> QED
    BY <2>1, <2>2 DEF Placed, OwedIn
<1>5. Carried'
  BY DEF Carried, CarriedBy, Loading
<1>6. OwedCookies'
  BY DEF OwedCookies, OwedIn, UserLines
<1> QED
  BY <1>1, <1>2, <1>3, <1>4, <1>5, <1>6

\* The lines of a user's own are never those of a run alone.
LEMMA OwedFacts ==
    \A f, b : OwedIn(f, b) \subseteq Cookies \cup OddLines
  BY DEF OwedIn, UserLines

LEMMA EditFileInv == IInv /\ EditFile => IInv'
<1> SUFFICES ASSUME IInv, EditFile PROVE IInv'
  OBVIOUS
<1>1. edits' \in 0..MaxEdits
  BY BoundsAssumption DEF EditFile, MayEdit, IInv, TypeOK
<1>2. file \in Contents /\ bak \in Contents /\ Settled(file) /\ Settled(bak)
  BY DEF IInv, TypeOK, DiskSettled
<1>3. file' \in Contents /\ bak' \in Contents /\ Settled(file)' /\ Settled(bak)'
  BY <1>2, UserFacts, ContentFacts DEF EditFile, MayEdit, Settled
<1> QED
  BY <1>1, <1>3, OwedFacts, EditInv DEF EditFile, Saving

LEMMA LoseFileInv == IInv /\ LoseFile => IInv'
<1> SUFFICES ASSUME IInv, LoseFile PROVE IInv'
  OBVIOUS
<1>1. edits' \in 0..MaxEdits
  BY BoundsAssumption DEF LoseFile, MayEdit, IInv, TypeOK
<1>2. bak \in Contents /\ Settled(bak)
  BY DEF IInv, TypeOK, DiskSettled
<1>3. /\ file' \in Contents /\ bak' \in Contents /\ Settled(file)' /\ Settled(bak)'
      /\ file'.has = {}
  BY <1>2, ContentFacts DEF LoseFile, Settled
<1>4. owed' = OwedIn(file', bak') /\ onDisk' = {<<file', bak'>>}
  BY DEF LoseFile
<1> QED
  BY <1>1, <1>3, <1>4, OwedFacts, EditInv DEF LoseFile

LEMMA StutterInv == IInv /\ UNCHANGED vars => IInv'
<1> SUFFICES ASSUME IInv, UNCHANGED vars PROVE IInv'
  OBVIOUS
<1> USE DEF vars
<1>1. TypeOK' /\ DiskSettled' /\ OwedCookies'
  BY DEF IInv, TypeOK, DiskSettled, OwedCookies
<1>2. Staged'
  BY DEF IInv, Staged, StagedAt, MaySave
<1>3. Placed' /\ Carried'
  BY DEF IInv, Placed, InFile, InBak, Stranded, Carried, CarriedBy, Loading, MaySave
<1> QED
  BY <1>1, <1>2, <1>3 DEF IInv

\* Every step of every run, every fault and every edit keeps the invariant.
THEOREM Inductive == Spec => []IInv
<1>1. IInv /\ [Next]_vars => IInv'
  <2> SUFFICES ASSUME IInv, [Next]_vars PROVE IInv'
    OBVIOUS
  <2>1. ASSUME NEW r \in Runs, Step(r) PROVE IInv'
    BY <2>1, StartInv, LoadInv, BailOutInv, BundleFailsInv, BeginCrawlInv, SetCookieInv, DeleteCookieInv,
       EndMirrorInv, EnterSaveInv, WriteInv, FlushInv, RecheckInv, CopyOldInv, FlushCopyInv, MoveBakInv,
       ReplaceInv, SyncDirInv, KillInv DEF Step
  <2> QED
    BY <2>1, PowerLossInv, EditFileInv, LoseFileInv, StutterInv DEF Next
<1> QED
  BY <1>1, InitInv, PTL DEF Spec

\* No content is ever cut short, whatever fails, is killed or loses power.
THEOREM NeverCutShort == Spec => []JarsWhole
<1>1. IInv => JarsWhole
  BY DEF IInv, DiskSettled, Settled, JarsWhole
<1> QED
  BY <1>1, Inductive, PTL

\* No line owed to the user is lost, now or after a power loss.
THEOREM NoLineLost == Spec => []LinesKept
<1>1. IInv => LinesKept
  BY DEF IInv, DiskSettled, Placed, InFile, InBak, LinesKept
<1> QED
  BY <1>1, Inductive, PTL

-----------------------------------------------------------------------------
(* The jar: least elements, induction and recursion over numbers *)

LEMMA LeastExists ==
    ASSUME NEW S, S \subseteq Nat, S # {}
    PROVE  \E i \in S : \A j \in S : i <= j
<1>1. PICK n \in S : \A m \in S : ~(<<m, n>> \in OpToRel(<, Nat))
  BY WFMin, NatLessThanWellFounded, Zenon
<1>2. \A m \in S : ~(m < n)
  BY <1>1 DEF OpToRel
<1> QED BY <1>2

LEMMA NatSetInduction ==
    ASSUME NEW S, 0 \in S, \A n \in Nat : n \in S => n + 1 \in S
    PROVE  Nat \subseteq S
<1> DEFINE T == Nat \ S
<1> SUFFICES ASSUME T # {} PROVE FALSE
  OBVIOUS
<1>1. PICK n \in T : \A m \in T : n <= m
  <2>1. T \subseteq Nat
    OBVIOUS
  <2> HIDE DEF T
  <2> QED BY <2>1, LeastExists
<1>2. n # 0 /\ n - 1 \in Nat /\ n - 1 \in T
  OBVIOUS
<1> QED BY <1>1, <1>2

\* A function whose values each follow from the one before.
Recursion(N, X, a, G) == N \in Nat /\ a \in X /\ G \in [1 .. N -> [X -> X]]

LEMMA RecursionExists ==
    ASSUME NEW N, NEW X, NEW a, NEW G, Recursion(N, X, a, G)
    PROVE  \E f \in [0 .. N -> X] :
              f[0] = a /\ \A k \in 1 .. N : f[k] = G[k][f[k - 1]]
<1> USE DEF Recursion
<1> DEFINE Upto(f, m) == f[0] = a /\ \A k \in 1 .. N : k <= m => f[k] = G[k][f[k - 1]]
           S == {m \in Nat : \E f \in [0 .. N -> X] : Upto(f, m)}
<1>1. 0 \in S
  <2> DEFINE c == [k \in 0 .. N |-> a]
  <2>1. c \in [0 .. N -> X] /\ c[0] = a
    OBVIOUS
  <2>2. Upto(c, 0)
    BY <2>1
  <2> QED BY <2>1, <2>2
<1>2. ASSUME NEW m \in Nat, m \in S PROVE m + 1 \in S
  <2>1. PICK f \in [0 .. N -> X] : Upto(f, m)
    BY <1>2
  <2>2. CASE m + 1 \in 1 .. N
    <3> DEFINE g == [f EXCEPT ![m + 1] = G[m + 1][f[m]]]
    <3>1. f[m] \in X /\ G[m + 1] \in [X -> X]
      BY <2>2
    <3>2. g \in [0 .. N -> X]
      BY <2>2, <3>1
    <3>3. g[m + 1] = G[m + 1][f[m]] /\ \A k \in 0 .. N : k # m + 1 => g[k] = f[k]
      BY <2>2
    <3> HIDE DEF g
    <3>4. Upto(g, m + 1)
      <4> SUFFICES ASSUME NEW k \in 1 .. N, k <= m + 1 PROVE g[k] = G[k][g[k - 1]]
        BY <2>1, <3>3
      <4>1. g[k - 1] = f[k - 1]
        BY <3>3
      <4>2. CASE k = m + 1
        BY <3>3, <4>1, <4>2
      <4>3. CASE k <= m
        BY <2>1, <3>3, <4>1, <4>3
      <4> QED BY <4>2, <4>3
    <3> QED BY <3>2, <3>4
  <2>3. CASE m + 1 \notin 1 .. N
    BY <2>1, <2>3
  <2> QED BY <2>2, <2>3
<1>3. N \in S
  <2> HIDE DEF S
  <2> QED BY <1>1, <1>2, NatSetInduction
<1> QED BY <1>3

-----------------------------------------------------------------------------
(* The jar as a sequence: what its places use, and what is cut out of it *)

Jars == Seq(Cookie)

LEMMA BytesAre ==
    /\ \A c \in Cookie : Bytes(c) \in Nat /\ Need(c) \in Nat /\ c.size \in Nat
    /\ \A c \in Cookie : c.path \in Nat
    /\ HostMaxCount \in Nat /\ HostMaxBytes \in Nat /\ MaxLen \in Nat
  BY SizesAssumption DEF Bytes, Need, Cookie

LEMMA PlacesAre ==
    ASSUME NEW j \in Jars
    PROVE  /\ Len(j) \in Nat /\ DOMAIN j = 1 .. Len(j)
           /\ \A i \in DOMAIN j : j[i] \in Cookie
           /\ \A S \in SUBSET DOMAIN j : IsFiniteSet(S)
<1>1. Len(j) \in Nat /\ DOMAIN j = 1 .. Len(j) /\ \A i \in DOMAIN j : j[i] \in Cookie
  BY DEF Jars
<1>2. IsFiniteSet(DOMAIN j)
  BY <1>1, FS_Interval
<1>3. \A S \in SUBSET DOMAIN j : IsFiniteSet(S)
  BY <1>2, FS_Subset
<1> QED BY <1>1, <1>3

\* u counts what the places S of the jar j take, place by place.
Counts(u, j, S) ==
    /\ u \in [0 .. Len(j) -> Nat] /\ u[0] = 0
    /\ \A k \in 1 .. Len(j) : u[k] = u[k - 1] + IF k \in S THEN Bytes(j[k]) ELSE 0
    /\ Used(j, S) = u[Len(j)]

LEMMA UsedIs ==
    ASSUME NEW j \in Jars, NEW S
    PROVE  \E u : Counts(u, j, S)
<1> PICK N : N = Len(j)
  OBVIOUS
<1> DEFINE G == [k \in 1 .. N |-> [x \in Nat |-> x + IF k \in S THEN Bytes(j[k]) ELSE 0]]
           h == CHOOSE u : u = [n \in 0 .. N |-> IF n = 0 THEN 0 ELSE
                                   u[n - 1] + IF n \in S THEN Bytes(j[n]) ELSE 0]
<1>1. N \in Nat /\ \A k \in 1 .. N : Bytes(j[k]) \in Nat
  BY PlacesAre, BytesAre
<1>2. G \in [1 .. N -> [Nat -> Nat]]
  BY <1>1
<1>3. PICK f \in [0 .. N -> Nat] : f[0] = 0 /\ \A k \in 1 .. N : f[k] = G[k][f[k - 1]]
  <2> HIDE DEF G
  <2>1. Recursion(N, Nat, 0, G)
    BY <1>1, <1>2 DEF Recursion
  <2> QED BY <2>1, RecursionExists
<1>4. ASSUME NEW k \in 1 .. N PROVE f[k] = f[k - 1] + IF k \in S THEN Bytes(j[k]) ELSE 0
  <2>1. f[k] = G[k][f[k - 1]] /\ f[k - 1] \in Nat
    <3> HIDE DEF G
    <3>1. k - 1 \in 0 .. N
      BY <1>1
    <3>2. f[k - 1] \in Nat
      BY <3>1
    <3> QED BY <1>3, <3>2
  <2>2. \A x \in Nat : G[k][x] = x + IF k \in S THEN Bytes(j[k]) ELSE 0
    OBVIOUS
  <2> HIDE DEF G
  <2> QED BY <2>1, <2>2
<1>5. f = [n \in 0 .. N |-> IF n = 0 THEN 0 ELSE f[n - 1] + IF n \in S THEN Bytes(j[n]) ELSE 0]
  <2>1. ASSUME NEW n \in 0 .. N
        PROVE  f[n] = IF n = 0 THEN 0 ELSE f[n - 1] + IF n \in S THEN Bytes(j[n]) ELSE 0
    <3>1. n = 0 \/ n \in 1 .. N
      BY <1>1
    <3> QED BY <1>3, <1>4, <3>1
  <2> HIDE DEF G, h
  <2> QED BY <1>3, <2>1
<1>6. h = [n \in 0 .. N |-> IF n = 0 THEN 0 ELSE h[n - 1] + IF n \in S THEN Bytes(j[n]) ELSE 0]
  <2> QED BY <1>5
<1>7. Used(j, S) = h[N]
  BY DEF Used
<1>8. DOMAIN h = 0 .. N
  <2> HIDE DEF h
  <2> QED BY <1>6
<1>9. h[0] = 0 /\ \A k \in 1 .. N : h[k] = h[k - 1] + IF k \in S THEN Bytes(j[k]) ELSE 0
  <2> HIDE DEF h
  <2>1. \A n \in 0 .. N : h[n] = IF n = 0 THEN 0 ELSE h[n - 1] + IF n \in S THEN Bytes(j[n]) ELSE 0
    BY <1>6
  <2>2. 0 \in 0 .. N /\ \A k \in 1 .. N : k \in 0 .. N /\ k # 0
    BY <1>1
  <2> QED BY <2>1, <2>2
<1>10. \A k \in 0 .. N : h[k] \in Nat
  <2> DEFINE I == {k \in Nat : k <= N => h[k] \in Nat}
  <2> HIDE DEF h
  <2>1. 0 \in I
    BY <1>9
  <2>2. ASSUME NEW k \in Nat, k \in I PROVE k + 1 \in I
    <3> SUFFICES ASSUME k + 1 <= N PROVE h[k + 1] \in Nat
      OBVIOUS
    <3>1. PICK m \in 1 .. N : m = k + 1
      BY <1>1
    <3>2. h[m - 1] \in Nat
      BY <1>1, <2>2, <3>1
    <3>3. h[m] = h[m - 1] + IF m \in S THEN Bytes(j[m]) ELSE 0
      BY <1>9
    <3> QED BY <1>1, <3>1, <3>2, <3>3
  <2>3. Nat \subseteq I
    <3> HIDE DEF I
    <3> QED BY <2>1, <2>2, NatSetInduction
  <2> QED BY <1>1, <2>3
<1>11. h = [k \in 0 .. N |-> h[k]]
  <2> HIDE DEF h
  <2> QED BY <1>6
<1>12. h \in [0 .. N -> Nat]
  <2> HIDE DEF h
  <2> QED BY <1>10, <1>11
<1> HIDE DEF h
<1> QED BY <1>1, <1>7, <1>9, <1>12 DEF Counts

\* The places used are worth no less when there are more of them.
LEMMA UsedGrows ==
    ASSUME NEW j \in Jars, NEW S, NEW R, S \subseteq R
    PROVE  Used(j, S) \in Nat /\ Used(j, R) \in Nat /\ Used(j, S) <= Used(j, R)
<1>1. Len(j) \in Nat /\ \A k \in 1 .. Len(j) : Bytes(j[k]) \in Nat
  BY PlacesAre, BytesAre
<1>u. PICK u : Counts(u, j, S)
  BY UsedIs
<1>v. PICK v : Counts(v, j, R)
  BY UsedIs
<1>2. /\ u \in [0 .. Len(j) -> Nat] /\ u[0] = 0
      /\ \A k \in 1 .. Len(j) : u[k] = u[k - 1] + IF k \in S THEN Bytes(j[k]) ELSE 0
      /\ Used(j, S) = u[Len(j)]
  BY <1>u DEF Counts
<1>3. /\ v \in [0 .. Len(j) -> Nat] /\ v[0] = 0
      /\ \A k \in 1 .. Len(j) : v[k] = v[k - 1] + IF k \in R THEN Bytes(j[k]) ELSE 0
      /\ Used(j, R) = v[Len(j)]
  BY <1>v DEF Counts
<1> DEFINE I == {k \in Nat : k <= Len(j) => u[k] <= v[k]}
<1>4. 0 \in I
  BY <1>2, <1>3
<1>5. ASSUME NEW k \in Nat, k \in I PROVE k + 1 \in I
  <2> SUFFICES ASSUME k + 1 <= Len(j) PROVE u[k + 1] <= v[k + 1]
    OBVIOUS
  <2>1. PICK m \in 1 .. Len(j) : m = k + 1
    BY <1>1
  <2>2. m - 1 \in 0 .. Len(j) /\ u[m - 1] <= v[m - 1]
    BY <1>1, <1>5, <2>1
  <2>3. u[m - 1] \in Nat /\ v[m - 1] \in Nat
    BY <1>2, <1>3, <2>2
  <2>4. u[m] = u[m - 1] + (IF m \in S THEN Bytes(j[m]) ELSE 0)
    BY <1>2
  <2>5. v[m] = v[m - 1] + (IF m \in R THEN Bytes(j[m]) ELSE 0)
    BY <1>3
  <2>6. u[m] <= v[m]
    <3> PICK x \in Nat, y \in Nat, b \in Nat : x = u[m - 1] /\ y = v[m - 1] /\ b = Bytes(j[m])
      BY <1>1, <2>3
    <3>1. x <= y /\ (m \in S => m \in R)
      BY <2>2
    <3>2. u[m] = x + (IF m \in S THEN b ELSE 0) /\ v[m] = y + (IF m \in R THEN b ELSE 0)
      BY <2>4, <2>5
    <3> QED BY <3>1, <3>2
  <2> QED BY <2>1, <2>6
<1>6. Nat \subseteq I
  <2> HIDE DEF I
  <2> QED BY <1>4, <1>5, NatSetInduction
<1> QED BY <1>1, <1>2, <1>3, <1>6

\* k is the jar j cut down to the places S: f says where each record was.
Cut(f, k, j, S) ==
    /\ k \in Jars /\ f \in [DOMAIN k -> DOMAIN j]
    /\ \A a \in DOMAIN k : f[a] \in S /\ k[a] = j[f[a]]
    /\ \A i \in S : \E a \in DOMAIN k : f[a] = i
    /\ \A a, b \in DOMAIN k : a < b => f[a] < f[b]

LEMMA OnlyIs ==
    ASSUME NEW j \in Jars, NEW S
    PROVE  \E o \in [0 .. Len(j) -> Jars] :
              /\ o[0] = <<>>
              /\ \A k \in 1 .. Len(j) :
                    o[k] = IF k \in S THEN Append(o[k - 1], j[k]) ELSE o[k - 1]
              /\ Only(j, S) = o[Len(j)]
<1> PICK N : N = Len(j)
  OBVIOUS
<1> DEFINE G == [k \in 1 .. N |-> [x \in Jars |-> IF k \in S THEN Append(x, j[k]) ELSE x]]
           h == CHOOSE o : o = [n \in 0 .. N |-> IF n = 0 THEN <<>> ELSE
                                   IF n \in S THEN Append(o[n - 1], j[n]) ELSE o[n - 1]]
<1>1. N \in Nat /\ <<>> \in Jars /\ \A k \in 1 .. N : j[k] \in Cookie
  BY PlacesAre DEF Jars
<1>0. \A k \in 1 .. N, x \in Jars : Append(x, j[k]) \in Jars
  BY <1>1 DEF Jars
<1>2. G \in [1 .. N -> [Jars -> Jars]]
  BY <1>0
<1>3. PICK f \in [0 .. N -> Jars] : f[0] = <<>> /\ \A k \in 1 .. N : f[k] = G[k][f[k - 1]]
  <2> HIDE DEF G
  <2>1. Recursion(N, Jars, <<>>, G)
    BY <1>1, <1>2 DEF Recursion
  <2> QED BY <2>1, RecursionExists
<1>4. ASSUME NEW k \in 1 .. N PROVE f[k] = IF k \in S THEN Append(f[k - 1], j[k]) ELSE f[k - 1]
  <2>1. f[k] = G[k][f[k - 1]] /\ f[k - 1] \in Jars
    <3> HIDE DEF G
    <3>1. k - 1 \in 0 .. N
      BY <1>1
    <3>2. f[k - 1] \in Jars
      BY <3>1
    <3> QED BY <1>3, <3>2
  <2>2. \A x \in Jars : G[k][x] = IF k \in S THEN Append(x, j[k]) ELSE x
    OBVIOUS
  <2> HIDE DEF G
  <2> QED BY <2>1, <2>2
<1>5. f = [n \in 0 .. N |-> IF n = 0 THEN <<>> ELSE
                              IF n \in S THEN Append(f[n - 1], j[n]) ELSE f[n - 1]]
  <2>1. ASSUME NEW n \in 0 .. N
        PROVE  f[n] = IF n = 0 THEN <<>> ELSE IF n \in S THEN Append(f[n - 1], j[n]) ELSE f[n - 1]
    <3>1. n = 0 \/ n \in 1 .. N
      BY <1>1
    <3> QED BY <1>3, <1>4, <3>1
  <2> HIDE DEF G, h
  <2> QED BY <1>3, <2>1
<1>6. h = [n \in 0 .. N |-> IF n = 0 THEN <<>> ELSE
                              IF n \in S THEN Append(h[n - 1], j[n]) ELSE h[n - 1]]
  <2> QED BY <1>5
<1>7. Only(j, S) = h[N]
  BY DEF Only
<1>9. h[0] = <<>> /\ \A k \in 1 .. N : h[k] = IF k \in S THEN Append(h[k - 1], j[k]) ELSE h[k - 1]
  <2> HIDE DEF h
  <2>1. \A n \in 0 .. N : h[n] = IF n = 0 THEN <<>> ELSE
                              IF n \in S THEN Append(h[n - 1], j[n]) ELSE h[n - 1]
    BY <1>6
  <2>2. 0 \in 0 .. N /\ \A k \in 1 .. N : k \in 0 .. N /\ k # 0
    BY <1>1
  <2> QED BY <2>1, <2>2
<1>10. \A k \in 0 .. N : h[k] \in Jars
  <2> DEFINE I == {k \in Nat : k <= N => h[k] \in Jars}
  <2> HIDE DEF h
  <2>1. 0 \in I
    BY <1>1, <1>9
  <2>2. ASSUME NEW k \in Nat, k \in I PROVE k + 1 \in I
    <3> SUFFICES ASSUME k + 1 <= N PROVE h[k + 1] \in Jars
      OBVIOUS
    <3>1. PICK m \in 1 .. N : m = k + 1
      BY <1>1
    <3>2. h[m - 1] \in Jars
      BY <1>1, <2>2, <3>1
    <3>3. h[m] = IF m \in S THEN Append(h[m - 1], j[m]) ELSE h[m - 1]
      BY <1>9
    <3> QED BY <1>0, <3>1, <3>2, <3>3
  <2>3. Nat \subseteq I
    <3> HIDE DEF I
    <3> QED BY <2>1, <2>2, NatSetInduction
  <2> QED BY <1>1, <2>3
<1>11. h = [k \in 0 .. N |-> h[k]]
  <2> HIDE DEF h
  <2> QED BY <1>6
<1>12. h \in [0 .. N -> Jars]
  <2> HIDE DEF h
  <2> QED BY <1>10, <1>11
<1> HIDE DEF h
<1> QED BY <1>7, <1>9, <1>12

LEMMA OnlyCuts ==
    ASSUME NEW j \in Jars, NEW S, S \subseteq DOMAIN j
    PROVE  \E f : Cut(f, Only(j, S), j, S)
<1> PICK N : N = Len(j)
  OBVIOUS
<1>1. N \in Nat /\ DOMAIN j = 1 .. N /\ \A k \in 1 .. N : j[k] \in Cookie
  BY PlacesAre
<1>2. PICK o \in [0 .. N -> Jars] :
          /\ o[0] = <<>>
          /\ \A k \in 1 .. N : o[k] = IF k \in S THEN Append(o[k - 1], j[k]) ELSE o[k - 1]
          /\ Only(j, S) = o[N]
  BY OnlyIs
<1> DEFINE I == {k \in Nat : k <= N => \E f : Cut(f, o[k], j, S \cap 1 .. k)}
<1>3. 0 \in I
  <2>1. Cut(<<>>, <<>>, j, {})
    BY DEF Cut, Jars
  <2>2. S \cap 1 .. 0 = {}
    OBVIOUS
  <2> QED BY <1>2, <2>1, <2>2
<1>4. ASSUME NEW k \in Nat, k \in I PROVE k + 1 \in I
  <2> SUFFICES ASSUME k + 1 <= N PROVE \E f : Cut(f, o[k + 1], j, S \cap 1 .. (k + 1))
    OBVIOUS
  <2>1. PICK m \in 1 .. N : m = k + 1
    BY <1>1
  <2>2. PICK f : Cut(f, o[k], j, S \cap 1 .. k)
    BY <1>1, <1>4, <2>1
  <2>3. o[m] = IF m \in S THEN Append(o[k], j[m]) ELSE o[k]
    BY <1>2, <2>1
  <2>4. CASE m \notin S
    <3>1. S \cap 1 .. m = S \cap 1 .. k
      BY <2>1, <2>4
    <3> QED BY <2>1, <2>2, <2>3, <2>4, <3>1
  <2>5. CASE m \in S
    <3>1. PICK x : x = o[k]
      OBVIOUS
    <3>2. x \in Jars /\ Len(x) \in Nat /\ DOMAIN x = 1 .. Len(x)
      BY <2>2, <3>1, PlacesAre DEF Cut
    <3>3. PICK L \in Nat : L = Len(x)
      BY <3>2
    <3>4. PICK y : y = o[m]
      OBVIOUS
    <3>5. /\ y \in Jars /\ DOMAIN y = 1 .. L + 1
          /\ y[L + 1] = j[m] /\ \A a \in 1 .. L : y[a] = x[a]
      <4>1. y = Append(x, j[m]) /\ j[m] \in Cookie
        BY <1>1, <2>3, <2>5, <3>1, <3>4
      <4> QED BY <3>2, <3>3, <4>1 DEF Jars
    <3> DEFINE g == [a \in 1 .. L + 1 |-> IF a = L + 1 THEN m ELSE f[a]]
    <3>6. g[L + 1] = m /\ (\A a \in 1 .. L : g[a] = f[a]) /\ DOMAIN g = 1 .. L + 1
          /\ g = [a \in 1 .. L + 1 |-> g[a]]
      OBVIOUS
    <3> HIDE DEF g
    <3>7. \A a \in 1 .. L : f[a] \in S \cap 1 .. k /\ x[a] = j[f[a]]
      BY <2>2, <3>1, <3>2, <3>3 DEF Cut
    <3>8. \A a \in 1 .. L + 1 : a = L + 1 \/ a \in 1 .. L
      OBVIOUS
    <3>9. \A a \in DOMAIN y : g[a] \in S \cap 1 .. m /\ y[a] = j[g[a]] /\ g[a] \in DOMAIN j
      <4>1. m \in 1 .. m /\ \A i \in 1 .. k : i \in 1 .. m /\ i \in 1 .. N
        BY <1>1, <2>1
      <4>2. g[L + 1] \in S \cap 1 .. m /\ y[L + 1] = j[g[L + 1]] /\ g[L + 1] \in DOMAIN j
        BY <1>1, <2>5, <3>5, <3>6, <4>1
      <4>3. ASSUME NEW a \in 1 .. L
            PROVE g[a] \in S \cap 1 .. m /\ y[a] = j[g[a]] /\ g[a] \in DOMAIN j
        BY <1>1, <3>5, <3>6, <3>7, <4>1
      <4> QED BY <3>5, <3>8, <4>2, <4>3
    <3>10. g \in [DOMAIN y -> DOMAIN j]
      BY <3>5, <3>6, <3>9
    <3>11. ASSUME NEW i \in S \cap 1 .. m PROVE \E a \in DOMAIN y : g[a] = i
      <4>1. CASE i = m
        BY <3>5, <3>6, <4>1
      <4>2. CASE i # m
        <5>1. i \in S \cap 1 .. k
          BY <2>1, <4>2
        <5>2. DOMAIN o[k] = 1 .. L
          BY <3>1, <3>2, <3>3
        <5>3. PICK a \in 1 .. L : f[a] = i
          BY <2>2, <5>1, <5>2 DEF Cut
        <5>4. a \in DOMAIN y
          BY <3>5
        <5> QED BY <3>6, <5>3, <5>4
      <4> QED BY <4>1, <4>2
    <3>12. ASSUME NEW a \in DOMAIN y, NEW b \in DOMAIN y, a < b PROVE g[a] < g[b]
      <4>1. a \in 1 .. L
        BY <3>5, <3>12
      <4>2. CASE b = L + 1
        <5>1. g[b] = m /\ g[a] = f[a] /\ f[a] \in 1 .. k
          BY <3>6, <3>7, <4>1, <4>2
        <5> QED BY <2>1, <5>1
      <4>3. CASE b \in 1 .. L
        BY <2>2, <3>1, <3>2, <3>3, <3>6, <3>12, <4>1, <4>3 DEF Cut
      <4> QED BY <3>5, <3>8, <4>2, <4>3
    <3>13. Cut(g, y, j, S \cap 1 .. m)
      BY <3>5, <3>9, <3>10, <3>11, <3>12 DEF Cut
    <3> QED BY <2>1, <3>4, <3>13
  <2> QED BY <2>4, <2>5
<1>5. N \in I
  <2> HIDE DEF I
  <2> QED BY <1>1, <1>3, <1>4, NatSetInduction
<1>6. S \cap 1 .. N = S
  <2>1. \A i \in S : i \in 1 .. N
    BY <1>1
  <2> QED BY <2>1
<1>7. \E f : Cut(f, o[N], j, S \cap 1 .. N)
  <2>1. N <= N
    BY <1>1
  <2> QED BY <1>5, <2>1
<1> HIDE DEF I
<1> QED BY <1>2, <1>6, <1>7

\* A jar is longest path first, and no two of its records are one cookie.
Sorted(j) == \A a, b \in DOMAIN j : a < b => j[b].path <= j[a].path
Apart(j) == \A a, b \in DOMAIN j : Same(j[a], j[b]) => a = b

LEMMA CutKeeps ==
    ASSUME NEW f, NEW k, NEW j \in Jars, NEW S, Cut(f, k, j, S), Sorted(j), Apart(j)
    PROVE  Sorted(k) /\ Apart(k)
<1>1. \A a \in DOMAIN k : f[a] \in DOMAIN j /\ k[a] = j[f[a]]
  BY DEF Cut
<1>2. \A a, b \in DOMAIN k : a < b => f[a] < f[b]
  BY DEF Cut
<1>3. DOMAIN k = 1 .. Len(k) /\ Len(k) \in Nat /\ DOMAIN j = 1 .. Len(j) /\ Len(j) \in Nat
  BY PlacesAre DEF Cut
<1>4. Sorted(k)
  BY <1>1, <1>2 DEF Sorted
<1>5. ASSUME NEW a \in DOMAIN k, NEW b \in DOMAIN k, Same(k[a], k[b]) PROVE a = b
  <2>1. f[a] = f[b]
    BY <1>1, <1>5 DEF Apart
  <2>2. ~(a < b) /\ ~(b < a)
    BY <1>1, <1>2, <1>3, <2>1
  <2> QED BY <1>3, <2>2
<1> QED BY <1>4, <1>5 DEF Apart

\* k is the jar j with c put at p, the first place of a shorter path.
Put(p, k, j, c) ==
    /\ k \in Jars /\ Len(k) = Len(j) + 1 /\ p \in 1 .. Len(j) + 1
    /\ k[p] = c
    /\ \A a \in 1 .. p - 1 : k[a] = j[a] /\ c.path <= j[a].path
    /\ \A a \in p .. Len(j) : k[a + 1] = j[a]
    /\ p <= Len(j) => j[p].path < c.path

LEMMA InsertPuts ==
    ASSUME NEW j \in Jars, NEW c \in Cookie
    PROVE  \E p \in 1 .. Len(j) + 1 : Put(p, Insert(j, c), j, c)
<1> DEFINE shorter == {i \in DOMAIN j : j[i].path < c.path}
           p == IF shorter = {} THEN Len(j) + 1 ELSE Min(shorter)
<1>1. Len(j) \in Nat /\ DOMAIN j = 1 .. Len(j) /\ c.path \in Nat
      /\ \A i \in DOMAIN j : j[i] \in Cookie /\ j[i].path \in Nat
  BY PlacesAre, BytesAre
<1>2. /\ p \in 1 .. Len(j) + 1 /\ p \in Nat
      /\ \A a \in 1 .. p - 1 : c.path <= j[a].path
      /\ p <= Len(j) => j[p].path < c.path
  <2>1. CASE shorter = {}
    <3>1. p = Len(j) + 1
      BY <2>1
    <3>2. \A a \in DOMAIN j : c.path <= j[a].path
      BY <1>1, <2>1
    <3> HIDE DEF p, shorter
    <3> QED BY <1>1, <3>1, <3>2
  <2>2. CASE shorter # {}
    <3>1. PICK m \in shorter : \A i \in shorter : m <= i
      <4>1. shorter \subseteq Nat
        BY <1>1
      <4> HIDE DEF shorter
      <4> QED BY <2>2, <4>1, LeastExists
    <3>2. Min(shorter) \in shorter /\ \A i \in shorter : Min(shorter) <= i
      <4> HIDE DEF shorter
      <4> QED BY <3>1 DEF Min
    <3>3. p = Min(shorter)
      BY <2>2
    <3>4. p \in DOMAIN j /\ j[p].path < c.path /\ \A i \in DOMAIN j : j[i].path < c.path => p <= i
      BY <3>2, <3>3
    <3> HIDE DEF p, shorter
    <3> QED BY <1>1, <3>4
  <2> QED BY <2>1, <2>2
<1>3. Insert(j, c) = InsertAt(j, p, c)
  BY DEF Insert
<1> HIDE DEF p, shorter
<1>4. PICK L \in Nat : L = Len(j)
  BY <1>1
<1>5. PICK s : s = SubSeq(j, 1, p - 1)
  OBVIOUS
<1>6. PICK t : t = SubSeq(j, p, L)
  OBVIOUS
<1>7. s \in Jars /\ Len(s) = p - 1 /\ \A a \in 1 .. p - 1 : s[a] = j[a]
  BY <1>1, <1>2, <1>4, <1>5 DEF Jars
<1>8. t \in Jars /\ Len(t) = L + 1 - p /\ \A a \in 1 .. L + 1 - p : t[a] = j[a + p - 1]
  BY <1>1, <1>2, <1>4, <1>6 DEF Jars
<1>9. PICK k : k = s \o <<c>> \o t
  OBVIOUS
<1>10. Insert(j, c) = k
  BY <1>3, <1>4, <1>5, <1>6, <1>9 DEF InsertAt
<1>11. PICK u : u = s \o <<c>>
  OBVIOUS
<1>12. u \in Jars /\ Len(u) = p /\ u[p] = c /\ \A a \in 1 .. p - 1 : u[a] = s[a]
  BY <1>2, <1>7, <1>11 DEF Jars
<1>13. k \in Jars /\ Len(k) = L + 1
  <2>1. k = u \o t
    BY <1>9, <1>11
  <2>2. k \in Jars /\ Len(k) = Len(u) + Len(t)
    BY <1>8, <1>12, <2>1 DEF Jars
  <2> QED BY <1>2, <1>8, <1>12, <2>2
<1>14. \A a \in 1 .. p : k[a] = u[a]
  BY <1>2, <1>4, <1>8, <1>9, <1>11, <1>12 DEF Jars
<1>15. \A a \in 1 .. L + 1 - p : k[p + a] = t[a]
  BY <1>2, <1>4, <1>8, <1>9, <1>11, <1>12 DEF Jars
<1>16. k[p] = c /\ \A a \in 1 .. p - 1 : k[a] = j[a]
  BY <1>2, <1>7, <1>12, <1>14
<1>17. ASSUME NEW a \in p .. Len(j) PROVE k[a + 1] = j[a]
  <2>1. PICK b \in 1 .. L + 1 - p : b = a - p + 1
    BY <1>2, <1>4
  <2>2. p + b = a + 1 /\ b + p - 1 = a
    BY <1>2, <1>4, <2>1
  <2> QED BY <1>8, <1>15, <2>2
<1> QED BY <1>2, <1>4, <1>10, <1>13, <1>16, <1>17 DEF Put

LEMMA PutPlaces ==
    ASSUME NEW j \in Jars, NEW c \in Cookie, NEW p, NEW k, Put(p, k, j, c)
    PROVE  /\ \A b \in DOMAIN k : b = p \/ (b \in 1 .. p - 1 /\ b \in DOMAIN j /\ k[b] = j[b])
                                  \/ (b \in p + 1 .. Len(j) + 1 /\ b - 1 \in DOMAIN j
                                      /\ k[b] = j[b - 1])
           /\ \A a \in DOMAIN j : (a \in 1 .. p - 1 /\ a \in DOMAIN k /\ k[a] = j[a])
                                  \/ (a \in p .. Len(j) /\ a + 1 \in DOMAIN k /\ k[a + 1] = j[a])
           /\ p \in DOMAIN k /\ p \in Nat /\ k[p] = c
<1>1. Len(j) \in Nat /\ DOMAIN j = 1 .. Len(j) /\ DOMAIN k = 1 .. Len(j) + 1 /\ p \in 1 .. Len(j) + 1
  BY PlacesAre DEF Put
<1>2. ASSUME NEW b \in DOMAIN k, b # p
      PROVE  \/ b \in 1 .. p - 1 /\ b \in DOMAIN j /\ k[b] = j[b]
             \/ b \in p + 1 .. Len(j) + 1 /\ b - 1 \in DOMAIN j /\ k[b] = j[b - 1]
  <2>1. CASE b < p
    BY <1>1, <2>1 DEF Put
  <2>2. CASE b > p
    <3>1. PICK a \in p .. Len(j) : a = b - 1
      BY <1>1, <2>2
    <3>2. k[a + 1] = j[a] /\ a + 1 = b /\ a \in DOMAIN j
      BY <1>1, <3>1 DEF Put
    <3> QED BY <1>1, <2>2, <3>1, <3>2
  <2> QED BY <1>1, <1>2, <2>1, <2>2
<1>3. ASSUME NEW a \in DOMAIN j
      PROVE  \/ a \in 1 .. p - 1 /\ a \in DOMAIN k /\ k[a] = j[a]
             \/ a \in p .. Len(j) /\ a + 1 \in DOMAIN k /\ k[a + 1] = j[a]
  BY <1>1 DEF Put
<1>4. k[p] = c
  BY DEF Put
<1> QED BY <1>1, <1>2, <1>3, <1>4

\* The records in front of the new one keep their place, those after it move by one.
LEMMA PutBeside ==
    ASSUME NEW j \in Jars, NEW c \in Cookie, NEW p, NEW k, Put(p, k, j, c), NEW b \in DOMAIN k
    PROVE  /\ b < p => b \in DOMAIN j /\ k[b] = j[b]
           /\ b > p => b - 1 \in DOMAIN j /\ k[b] = j[b - 1] /\ b - 1 >= p
<1>1. p \in Nat /\ b \in Nat /\ Len(j) \in Nat
  BY PlacesAre DEF Put
<1>2. CASE b = p
  BY <1>1, <1>2
<1>3. CASE b \in 1 .. p - 1 /\ b \in DOMAIN j /\ k[b] = j[b]
  BY <1>1, <1>3
<1>4. CASE b \in p + 1 .. Len(j) + 1 /\ b - 1 \in DOMAIN j /\ k[b] = j[b - 1]
  BY <1>1, <1>4
<1> QED BY <1>2, <1>3, <1>4, PutPlaces

LEMMA PutKeeps ==
    ASSUME NEW j \in Jars, NEW c \in Cookie, NEW p, NEW k, Put(p, k, j, c),
           Sorted(j), Apart(j), \A i \in DOMAIN j : ~Same(j[i], c)
    PROVE  Sorted(k) /\ Apart(k)
<1>1. Len(j) \in Nat /\ DOMAIN j = 1 .. Len(j) /\ DOMAIN k = 1 .. Len(j) + 1 /\ p \in 1 .. Len(j) + 1
      /\ c.path \in Nat /\ \A i \in DOMAIN j : j[i].path \in Nat
  BY PlacesAre, BytesAre DEF Put
<1>2. \A a \in DOMAIN j : a < p => c.path <= j[a].path
  BY <1>1 DEF Put
<1>3. ASSUME NEW a \in DOMAIN j, a >= p PROVE j[a].path < c.path
  <2>1. p \in DOMAIN j /\ j[p].path < c.path
    BY <1>1, <1>3 DEF Put
  <2>2. j[a].path <= j[p].path
    BY <1>1, <1>3, <2>1 DEF Sorted
  <2>3. c.path \in Nat /\ j[p].path \in Nat /\ j[a].path \in Nat
    BY <1>1, <2>1
  <2> QED BY <2>1, <2>2, <2>3
<1>4. ASSUME NEW a \in DOMAIN k, NEW b \in DOMAIN k, a < b PROVE k[b].path <= k[a].path
  <2>1. CASE b < p
    <3>0. a < p
      BY <1>1, <1>4, <2>1
    <3>1. a \in DOMAIN j /\ b \in DOMAIN j /\ k[a] = j[a] /\ k[b] = j[b]
      BY <2>1, <3>0, PutBeside
    <3> QED BY <1>4, <3>1 DEF Sorted
  <2>2. CASE b = p
    BY <1>1, <1>2, <1>4, <2>2, PutPlaces
  <2>3. CASE b > p
    <3>1. b - 1 \in DOMAIN j /\ k[b] = j[b - 1] /\ b - 1 >= p
      BY <2>3, PutBeside
    <3>2. CASE a = p
      BY <1>1, <1>3, <3>1, <3>2, PutPlaces
    <3>3. CASE a < p
      <4>1. a \in DOMAIN j /\ k[a] = j[a]
        BY <3>3, PutBeside
      <4>2. a < b - 1
        BY <1>1, <3>1, <3>3
      <4> QED BY <3>1, <4>1, <4>2 DEF Sorted
    <3>4. CASE a > p
      <4>1. a - 1 \in DOMAIN j /\ k[a] = j[a - 1]
        BY <3>4, PutBeside
      <4>2. a - 1 < b - 1
        BY <1>1, <1>4
      <4> QED BY <3>1, <4>1, <4>2 DEF Sorted
    <3> QED BY <1>1, <3>2, <3>3, <3>4
  <2> QED BY <1>1, <2>1, <2>2, <2>3
<1>5. \A i \in DOMAIN j : ~Same(c, j[i])
  BY DEF Same
<1>6. ASSUME NEW a \in DOMAIN k, NEW b \in DOMAIN k, Same(k[a], k[b]) PROVE a = b
  <2>1. CASE a = p \/ b = p
    BY <1>5, <1>6, <2>1, PutPlaces
  <2>2. CASE a # p /\ b # p
    <3>1. PICK m \in DOMAIN j : k[a] = j[m] /\ (a < p => m = a) /\ (a > p => m = a - 1)
      <4>1. a \in Nat /\ p \in Nat /\ a # p
        BY <1>1, <2>2
      <4>2. CASE a < p
        BY <4>1, <4>2, PutPlaces
      <4>3. CASE a > p
        BY <4>1, <4>3, PutPlaces
      <4> QED BY <4>1, <4>2, <4>3
    <3>2. PICK n \in DOMAIN j : k[b] = j[n] /\ (b < p => n = b) /\ (b > p => n = b - 1)
      <4>1. b \in Nat /\ p \in Nat /\ b # p
        BY <1>1, <2>2
      <4>2. CASE b < p
        BY <4>1, <4>2, PutPlaces
      <4>3. CASE b > p
        BY <4>1, <4>3, PutPlaces
      <4> QED BY <4>1, <4>2, <4>3
    <3>3. m = n
      BY <1>6, <3>1, <3>2 DEF Apart
    <3> QED BY <1>1, <2>2, <3>1, <3>2, <3>3
  <2> QED BY <2>1, <2>2
<1> QED BY <1>4, <1>6 DEF Sorted, Apart

-----------------------------------------------------------------------------
(* What cookie_make_room() takes *)

LEMMA TallyGrows ==
    ASSUME NEW j \in Jars, NEW c \in Cookie, NEW S, NEW R, NEW h,
           S \subseteq R, R \subseteq DOMAIN j
    PROVE  /\ HostCount(j, S, h, c) \in Nat /\ HostCount(j, R, h, c) \in Nat
           /\ HostBytes(j, S, h, c) \in Nat /\ HostBytes(j, R, h, c) \in Nat
           /\ HostCount(j, S, h, c) <= HostCount(j, R, h, c)
           /\ HostBytes(j, S, h, c) <= HostBytes(j, R, h, c)
           /\ OverShare(j, S, h, c) => OverShare(j, R, h, c)
<1>1. OfHost(j, S, h) \subseteq OfHost(j, R, h) /\ OfHost(j, R, h) \subseteq DOMAIN j
  BY DEF OfHost
<1>2. /\ Used(j, OfHost(j, S, h)) \in Nat /\ Used(j, OfHost(j, R, h)) \in Nat
      /\ Used(j, OfHost(j, S, h)) <= Used(j, OfHost(j, R, h))
  BY <1>1, UsedGrows
<1>3. IsFiniteSet(OfHost(j, R, h)) /\ IsFiniteSet(OfHost(j, S, h))
  BY <1>1, PlacesAre
<1>4. /\ Cardinality(OfHost(j, S, h)) \in Nat /\ Cardinality(OfHost(j, R, h)) \in Nat
      /\ Cardinality(OfHost(j, S, h)) <= Cardinality(OfHost(j, R, h))
  BY <1>1, <1>3, FS_Subset, FS_CardinalityType
<1>5. c.size \in Nat /\ HostMaxCount \in Nat /\ HostMaxBytes \in Nat
  BY BytesAre
<1>6. /\ HostCount(j, S, h, c) \in Nat /\ HostCount(j, R, h, c) \in Nat
      /\ HostCount(j, S, h, c) <= HostCount(j, R, h, c)
  BY <1>4 DEF HostCount
<1>7. /\ HostBytes(j, S, h, c) \in Nat /\ HostBytes(j, R, h, c) \in Nat
      /\ HostBytes(j, S, h, c) <= HostBytes(j, R, h, c)
  BY <1>2, <1>5 DEF HostBytes
<1> QED BY <1>5, <1>6, <1>7 DEF OverShare

LEMMA OldestIsOne ==
    ASSUME NEW j \in Jars, NEW S, S \subseteq DOMAIN j, S # {}
    PROVE  Oldest(j, S) \in S
<1> DEFINE paths == {j[i].path : i \in S}
<1>1. \A i \in S : i \in Nat /\ j[i].path \in Nat
  BY PlacesAre, BytesAre
<1>2. PICK m \in paths : \A q \in paths : m <= q
  <2>1. paths \subseteq Nat /\ paths # {}
    BY <1>1
  <2> HIDE DEF paths
  <2> QED BY <2>1, LeastExists
<1> DEFINE first == {i \in S : j[i].path = m}
<1>3. PICK i \in first : \A k \in first : i <= k
  <2>1. first \subseteq Nat /\ first # {}
    BY <1>1, <1>2
  <2> HIDE DEF first
  <2> QED BY <2>1, LeastExists
<1>4. i \in S /\ \A k \in S : j[i].path < j[k].path \/ (j[i].path = j[k].path /\ i <= k)
  <2>1. i \in S /\ j[i].path = m /\ m \in Nat
    BY <1>1, <1>3
  <2>2. ASSUME NEW k \in S, j[k].path # m PROVE m < j[k].path
    <3>1. j[k].path \in paths
      OBVIOUS
    <3>2. m <= j[k].path
      BY <1>2, <3>1
    <3> HIDE DEF paths, first
    <3> QED BY <1>1, <2>1, <2>2, <3>2
  <2>3. ASSUME NEW k \in S, j[k].path = m PROVE i <= k
    BY <1>3, <2>3
  <2> QED BY <2>1, <2>2, <2>3
<1> QED BY <1>4 DEF Oldest

LEMMA LargestIsOne ==
    ASSUME NEW j \in Jars, NEW c \in Cookie, NEW S, S \subseteq DOMAIN j,
           NEW over, over \subseteq Tallied(j, c), over # {}
    PROVE  \E h \in over : \A k \in over :
              \/ HostBytes(j, S, h, c) > HostBytes(j, S, k, c)
              \/ /\ HostBytes(j, S, h, c) = HostBytes(j, S, k, c)
                 /\ Rank(j, h, c) <= Rank(j, k, c)
<1> DEFINE B == Used(j, DOMAIN j) + c.size
           H(h) == HostBytes(j, S, h, c)
           room == {B - H(h) : h \in over}
<1>1. \A h : H(h) \in Nat /\ B \in Nat /\ B - H(h) \in Nat
  <2> TAKE h
  <2>1. OfHost(j, S, h) \subseteq DOMAIN j
    BY DEF OfHost
  <2>2. /\ Used(j, OfHost(j, S, h)) \in Nat /\ Used(j, DOMAIN j) \in Nat
        /\ Used(j, OfHost(j, S, h)) <= Used(j, DOMAIN j)
    BY <2>1, UsedGrows
  <2> QED BY <2>2, BytesAre DEF HostBytes
<1>2. PICK m \in room : \A q \in room : m <= q
  <2>1. room \subseteq Nat /\ room # {}
    BY <1>1
  <2> HIDE DEF room
  <2> QED BY <2>1, LeastExists
<1> DEFINE top == {h \in over : B - H(h) = m}
           ranks == {Rank(j, h, c) : h \in top}
<1>3. \A h \in over : Rank(j, h, c) \in Nat
  <2> TAKE h \in over
  <2>1. CASE h = c.dom
    BY <2>1 DEF Rank
  <2>2. CASE h # c.dom
    <3>1. PICK i \in DOMAIN j : j[i].dom = h
      BY <2>2 DEF Tallied
    <3>2. OfHost(j, DOMAIN j, h) \subseteq Nat /\ OfHost(j, DOMAIN j, h) # {}
      BY <3>1, PlacesAre DEF OfHost
    <3>3. PICK n \in OfHost(j, DOMAIN j, h) : \A k \in OfHost(j, DOMAIN j, h) : n <= k
      BY <3>2, LeastExists
    <3>4. Min(OfHost(j, DOMAIN j, h)) \in OfHost(j, DOMAIN j, h)
      BY <3>3 DEF Min
    <3> QED BY <2>2, <3>2, <3>4 DEF Rank
  <2> QED BY <2>1, <2>2
<1>4. PICK r \in ranks : \A q \in ranks : r <= q
  <2>1. ranks \subseteq Nat /\ ranks # {}
    BY <1>2, <1>3
  <2> HIDE DEF ranks
  <2> QED BY <2>1, LeastExists
<1>5. PICK h \in top : r = Rank(j, h, c)
  OBVIOUS
<1>6. h \in over /\ B - H(h) = m
  OBVIOUS
<1>7. \A k \in over : B - H(h) <= B - H(k)
  BY <1>2, <1>6
<1>8. ASSUME NEW k \in over PROVE H(h) > H(k) \/ (H(h) = H(k) /\ Rank(j, h, c) <= Rank(j, k, c))
  <2>1. H(k) <= H(h)
    <3> HIDE DEF B, H
    <3> QED BY <1>1, <1>7
  <2>2. CASE H(k) = H(h)
    <3>1. Rank(j, k, c) \in ranks
      BY <1>6, <2>2
    <3> QED BY <1>4, <1>5, <2>2, <3>1
  <2>3. CASE H(k) # H(h)
    <3> HIDE DEF B, H
    <3> QED BY <1>1, <2>1, <2>3
  <2> QED BY <2>2, <2>3
<1> QED BY <1>6, <1>8

States(j, c) == [kept : SUBSET DOMAIN j, spent : SUBSET Tallied(j, c)]

\* A round takes nothing, or a record of a host then over its share.
LEMMA RoundTakes ==
    ASSUME NEW j \in Jars, NEW c \in Cookie, NEW s \in States(j, c)
    PROVE  /\ Round(j, c, s) \in States(j, c)
           /\ \/ Round(j, c, s).kept = s.kept
              \/ \E e \in s.kept \cap Others(j, c) :
                    /\ Round(j, c, s).kept = s.kept \ {e}
                    /\ OverShare(j, s.kept, j[e].dom, c)
<1> DEFINE over == {h \in Tallied(j, c) \ s.spent : OverShare(j, s.kept, h, c)}
           Larger(h, k) == \/ HostBytes(j, s.kept, h, c) > HostBytes(j, s.kept, k, c)
                           \/ /\ HostBytes(j, s.kept, h, c) = HostBytes(j, s.kept, k, c)
                              /\ Rank(j, h, c) <= Rank(j, k, c)
           best == CHOOSE h \in over : \A k \in over : Larger(h, k)
           victims == OfHost(j, s.kept, best) \cap Others(j, c)
<1>1. s = [kept |-> s.kept, spent |-> s.spent]
      /\ s.kept \in SUBSET DOMAIN j /\ s.spent \in SUBSET Tallied(j, c)
  BY DEF States
<1>2. Round(j, c, s) =
          IF FitsIn(j, s.kept, c) \/ over = {} THEN s
          ELSE IF victims = {} THEN [s EXCEPT !.spent = @ \cup {best}]
          ELSE [s EXCEPT !.kept = @ \ {Oldest(j, victims)}]
  BY DEF Round
<1>3. over # {} => best \in over
  <2> SUFFICES ASSUME over # {} PROVE best \in over
    OBVIOUS
  <2>1. over \subseteq Tallied(j, c)
    OBVIOUS
  <2>2. \E h \in over : \A k \in over : Larger(h, k)
    <3> HIDE DEF over
    <3> QED BY <1>1, <2>1, LargestIsOne
  <2> HIDE DEF over, Larger
  <2> QED BY <2>2
<1>4. CASE FitsIn(j, s.kept, c) \/ over = {}
  BY <1>2, <1>4
<1>5. CASE ~(FitsIn(j, s.kept, c) \/ over = {}) /\ victims = {}
  <2>1. Round(j, c, s) = [s EXCEPT !.spent = @ \cup {best}]
    <3> HIDE DEF over, best, victims
    <3> QED BY <1>2, <1>5
  <2>2. best \in Tallied(j, c)
    BY <1>3, <1>5
  <2> HIDE DEF over, best, victims
  <2>3. Round(j, c, s) = [kept |-> s.kept, spent |-> s.spent \cup {best}]
    BY <1>1, <2>1
  <2> QED BY <1>1, <2>2, <2>3 DEF States
<1>6. CASE ~(FitsIn(j, s.kept, c) \/ over = {}) /\ victims # {}
  <2>1. Round(j, c, s) = [s EXCEPT !.kept = @ \ {Oldest(j, victims)}]
    <3> HIDE DEF over, best, victims
    <3> QED BY <1>2, <1>6
  <2>2. OverShare(j, s.kept, best, c)
    BY <1>3, <1>6
  <2>3. victims \subseteq s.kept \cap Others(j, c) /\ \A i \in victims : j[i].dom = best
    BY DEF OfHost
  <2> HIDE DEF over, best, victims
  <2>4. Oldest(j, victims) \in victims
    BY <1>1, <1>6, <2>3, OldestIsOne
  <2>5. Round(j, c, s) = [kept |-> s.kept \ {Oldest(j, victims)}, spent |-> s.spent]
    BY <1>1, <2>1
  <2> QED BY <1>1, <2>2, <2>3, <2>4, <2>5 DEF States
<1> QED BY <1>4, <1>5, <1>6

LEMMA RoundsAre ==
    ASSUME NEW j \in Jars, NEW c \in Cookie
    PROVE  /\ \A n \in 0 .. 2 * Len(j) + 1 : Rounds(j, c)[n] \in States(j, c)
           /\ Rounds(j, c)[0] = [kept |-> DOMAIN j, spent |-> {}]
           /\ \A n \in 1 .. 2 * Len(j) + 1 :
                 Rounds(j, c)[n] = Round(j, c, Rounds(j, c)[n - 1])
<1> PICK N : N = 2 * Len(j) + 1
  OBVIOUS
<1> DEFINE a == [kept |-> DOMAIN j, spent |-> {}]
           G == [n \in 1 .. N |-> [s \in States(j, c) |-> Round(j, c, s)]]
           h == CHOOSE r : r = [n \in 0 .. N |-> IF n = 0 THEN a ELSE Round(j, c, r[n - 1])]
<1>1. N \in Nat /\ a \in States(j, c)
  BY PlacesAre DEF States
<1>2. G \in [1 .. N -> [States(j, c) -> States(j, c)]]
  BY RoundTakes
<1>3. PICK f \in [0 .. N -> States(j, c)] : f[0] = a /\ \A n \in 1 .. N : f[n] = G[n][f[n - 1]]
  <2> HIDE DEF G, a
  <2>1. Recursion(N, States(j, c), a, G)
    BY <1>1, <1>2 DEF Recursion
  <2> QED BY <2>1, RecursionExists
<1>4. ASSUME NEW n \in 1 .. N PROVE f[n] = Round(j, c, f[n - 1])
  <2>1. f[n] = G[n][f[n - 1]] /\ f[n - 1] \in States(j, c)
    <3> HIDE DEF G, a
    <3>1. n - 1 \in 0 .. N
      BY <1>1
    <3>2. f[n - 1] \in States(j, c)
      BY <3>1
    <3> QED BY <1>3, <3>2
  <2>2. \A s \in States(j, c) : G[n][s] = Round(j, c, s)
    OBVIOUS
  <2> HIDE DEF G, a
  <2> QED BY <2>1, <2>2
<1>5. f = [n \in 0 .. N |-> IF n = 0 THEN a ELSE Round(j, c, f[n - 1])]
  <2>1. ASSUME NEW n \in 0 .. N PROVE f[n] = IF n = 0 THEN a ELSE Round(j, c, f[n - 1])
    <3> HIDE DEF G, a
    <3>1. n = 0 \/ n \in 1 .. N
      BY <1>1
    <3> QED BY <1>3, <1>4, <3>1
  <2> HIDE DEF G, h, a
  <2> QED BY <1>3, <2>1
<1>6. h = [n \in 0 .. N |-> IF n = 0 THEN a ELSE Round(j, c, h[n - 1])]
  <2> HIDE DEF a
  <2> QED BY <1>5
<1>7. Rounds(j, c) = h
  BY DEF Rounds
<1> HIDE DEF h, a
<1>8. h[0] = a /\ \A n \in 1 .. N : h[n] = Round(j, c, h[n - 1])
  <2>1. \A n \in 0 .. N : h[n] = IF n = 0 THEN a ELSE Round(j, c, h[n - 1])
    BY <1>6
  <2>2. 0 \in 0 .. N /\ \A n \in 1 .. N : n \in 0 .. N /\ n # 0
    BY <1>1
  <2> QED BY <2>1, <2>2
<1>9. \A n \in 0 .. N : h[n] \in States(j, c)
  <2> DEFINE I == {n \in Nat : n <= N => h[n] \in States(j, c)}
  <2>1. 0 \in I
    BY <1>1, <1>8
  <2>2. ASSUME NEW n \in Nat, n \in I PROVE n + 1 \in I
    <3> SUFFICES ASSUME n + 1 <= N PROVE h[n + 1] \in States(j, c)
      OBVIOUS
    <3>1. PICK m \in 1 .. N : m = n + 1
      BY <1>1
    <3>2. h[m - 1] \in States(j, c)
      BY <1>1, <2>2, <3>1
    <3>3. h[m] = Round(j, c, h[m - 1])
      BY <1>8
    <3> QED BY <3>1, <3>2, <3>3, RoundTakes
  <2>3. Nat \subseteq I
    <3> HIDE DEF I
    <3> QED BY <2>1, <2>2, NatSetInduction
  <2> QED BY <1>1, <2>3
<1> QED BY <1>7, <1>8, <1>9 DEF a

\* The jar j can be cut to K for c: only hosts over their share paid for it, and the
\* last record each lost was one too many.
Paid(j, c, K) ==
    /\ K \subseteq DOMAIN j
    /\ \A i \in DOMAIN j \ K :
          /\ i \in Others(j, c)
          /\ OverShare(j, DOMAIN j, j[i].dom, c)
          /\ \E l \in DOMAIN j \ K : /\ j[l].dom = j[i].dom
                                     /\ OverShare(j, K \cup {l}, j[l].dom, c)

LEMMA PaidOnce ==
    ASSUME NEW j \in Jars, NEW c \in Cookie, NEW K, Paid(j, c, K),
           NEW e \in K \cap Others(j, c), OverShare(j, K, j[e].dom, c)
    PROVE  Paid(j, c, K \ {e})
<1>1. K \subseteq DOMAIN j /\ K \ {e} \subseteq DOMAIN j
  BY DEF Paid
<1>2. OverShare(j, DOMAIN j, j[e].dom, c)
  BY <1>1, TallyGrows
<1>3. (K \ {e}) \cup {e} = K
  OBVIOUS
<1>4. ASSUME NEW i \in DOMAIN j \ (K \ {e})
      PROVE  /\ i \in Others(j, c) /\ OverShare(j, DOMAIN j, j[i].dom, c)
             /\ \E l \in DOMAIN j \ (K \ {e}) :
                   /\ j[l].dom = j[i].dom
                   /\ OverShare(j, (K \ {e}) \cup {l}, j[l].dom, c)
  <2>1. CASE j[i].dom = j[e].dom
    <3>1. i = e \/ i \in DOMAIN j \ K
      OBVIOUS
    <3>2. i \in Others(j, c)
      BY <3>1 DEF Paid
    <3>3. e \in DOMAIN j \ (K \ {e})
      BY <1>1
    <3> QED BY <1>2, <1>3, <2>1, <3>2, <3>3
  <2>2. CASE j[i].dom # j[e].dom
    <3>1. i \in DOMAIN j \ K
      BY <2>2
    <3>2. PICK l \in DOMAIN j \ K : j[l].dom = j[i].dom /\ OverShare(j, K \cup {l}, j[l].dom, c)
      BY <3>1 DEF Paid
    <3>3. OfHost(j, (K \ {e}) \cup {l}, j[l].dom) = OfHost(j, K \cup {l}, j[l].dom)
      BY <2>2, <3>2 DEF OfHost
    <3>4. OverShare(j, (K \ {e}) \cup {l}, j[l].dom, c)
      BY <3>2, <3>3 DEF OverShare, HostCount, HostBytes
    <3> QED BY <3>1, <3>2, <3>4 DEF Paid
  <2> QED BY <2>1, <2>2
<1> QED BY <1>1, <1>4 DEF Paid

LEMMA MakeRoomPaid ==
    ASSUME NEW j \in Jars, NEW c \in Cookie
    PROVE  Paid(j, c, MakeRoom(j, c))
<1> PICK N : N = 2 * Len(j) + 1
  OBVIOUS
<1> PICK r : r = Rounds(j, c)
  OBVIOUS
<1>1. N \in Nat
  BY PlacesAre
<1>2. /\ \A n \in 0 .. N : r[n] \in States(j, c)
      /\ r[0].kept = DOMAIN j
      /\ \A n \in 1 .. N : r[n] = Round(j, c, r[n - 1])
  <2>1. r[0] = [kept |-> DOMAIN j, spent |-> {}]
    BY RoundsAre
  <2>2. r[0].kept = DOMAIN j
    BY <2>1
  <2>3. \A n \in 0 .. N : r[n] \in States(j, c)
    BY RoundsAre
  <2>4. \A n \in 1 .. N : r[n] = Round(j, c, r[n - 1])
    BY RoundsAre
  <2> QED BY <2>2, <2>3, <2>4
<1>3. Paid(j, c, DOMAIN j)
  BY DEF Paid
<1> DEFINE I == {n \in Nat : n <= N => Paid(j, c, r[n].kept)}
<1>4. 0 \in I
  BY <1>2, <1>3
<1>5. ASSUME NEW n \in Nat, n \in I PROVE n + 1 \in I
  <2> SUFFICES ASSUME n + 1 <= N PROVE Paid(j, c, r[n + 1].kept)
    OBVIOUS
  <2>1. PICK m \in 1 .. N : m = n + 1
    BY <1>1
  <2>2. n \in 0 .. N /\ m - 1 = n
    BY <1>1, <2>1
  <2>3. Paid(j, c, r[n].kept) /\ r[n] \in States(j, c)
    BY <1>1, <1>2, <1>5, <2>2
  <2>4. r[m] = Round(j, c, r[n])
    BY <1>2, <2>2
  <2>5. \/ r[m].kept = r[n].kept
        \/ \E e \in r[n].kept \cap Others(j, c) :
              r[m].kept = r[n].kept \ {e} /\ OverShare(j, r[n].kept, j[e].dom, c)
    <3> HIDE DEF I
    <3> PICK s \in States(j, c) : s = r[n]
      BY <2>3
    <3>1. \/ Round(j, c, s).kept = s.kept
          \/ \E e \in s.kept \cap Others(j, c) :
                Round(j, c, s).kept = s.kept \ {e} /\ OverShare(j, s.kept, j[e].dom, c)
      BY RoundTakes
    <3> QED BY <2>4, <3>1
  <2>6. CASE r[m].kept = r[n].kept
    BY <2>1, <2>3, <2>6
  <2>7. CASE \E e \in r[n].kept \cap Others(j, c) :
                r[m].kept = r[n].kept \ {e} /\ OverShare(j, r[n].kept, j[e].dom, c)
    <3>1. PICK e \in r[n].kept \cap Others(j, c) :
              r[m].kept = r[n].kept \ {e} /\ OverShare(j, r[n].kept, j[e].dom, c)
      BY <2>7
    <3>2. Paid(j, c, r[n].kept \ {e})
      BY <2>3, <3>1, PaidOnce
    <3> QED BY <2>1, <3>1, <3>2
  <2> QED BY <2>5, <2>6, <2>7
<1>6. Paid(j, c, r[N].kept)
  <2>1. N \in I
    <3> HIDE DEF I
    <3> QED BY <1>1, <1>4, <1>5, NatSetInduction
  <2> QED BY <1>1, <2>1
<1> HIDE DEF I
<1> QED BY <1>3, <1>6 DEF MakeRoom

-----------------------------------------------------------------------------
(* The jar after a cookie is set or erased *)

JarType == data \in Jars /\ Sorted(data) /\ Apart(data)

LEMMA StoredIs ==
    ASSUME NEW c \in Cookie
    PROVE  /\ Stored(c) \in Cookie /\ Stored(c).path = c.path /\ Stored(c).dom = c.dom
           /\ Stored(c).name = c.name /\ (c.hostOnly => Stored(c).hostOnly)
           /\ \A d : (Same(d, Stored(c)) <=> Same(d, c)) /\ (Same(Stored(c), d) <=> Same(c, d))
  BY DEF Stored, Cookie, Same

\* What cookie_set() makes of a jar: as it was, or the new record put among the others.
LEMMA SetInIs ==
    ASSUME NEW j \in Jars, NEW c \in Cookie
    PROVE  \/ SetIn(j, c) = j
           \/ \E f, w, p : /\ Cut(f, w, j, Others(j, c))
                           /\ Put(p, SetIn(j, c), w, Stored(c))
<1> SUFFICES ASSUME SetIn(j, c) # j
             PROVE  \E f, w, p : Cut(f, w, j, Others(j, c)) /\ Put(p, SetIn(j, c), w, Stored(c))
  OBVIOUS
<1>1. SetIn(j, c) = Insert(Without(j, c), Stored(c))
  BY DEF SetIn
<1>2. PICK f : Cut(f, Only(j, Others(j, c)), j, Others(j, c))
  BY OnlyCuts DEF Others
<1>3. PICK w : w = Without(j, c)
  OBVIOUS
<1>4. w \in Jars /\ Cut(f, w, j, Others(j, c))
  BY <1>2, <1>3 DEF Without, Cut
<1>5. PICK p : Put(p, Insert(w, Stored(c)), w, Stored(c))
  BY <1>4, InsertPuts, StoredIs
<1> QED BY <1>1, <1>3, <1>4, <1>5

LEMMA SetInKeeps ==
    ASSUME NEW j \in Jars, Sorted(j), Apart(j), NEW c \in Cookie
    PROVE  SetIn(j, c) \in Jars /\ Sorted(SetIn(j, c)) /\ Apart(SetIn(j, c))
<1> SUFFICES ASSUME SetIn(j, c) # j
             PROVE  SetIn(j, c) \in Jars /\ Sorted(SetIn(j, c)) /\ Apart(SetIn(j, c))
  OBVIOUS
<1>1. PICK f, w, p : Cut(f, w, j, Others(j, c)) /\ Put(p, SetIn(j, c), w, Stored(c))
  BY SetInIs
<1>2. w \in Jars /\ Sorted(w) /\ Apart(w)
  <2>1. w \in Jars
    BY <1>1 DEF Cut
  <2>2. Sorted(w) /\ Apart(w)
    BY <1>1, <2>1, CutKeeps
  <2> QED BY <2>1, <2>2
<1>3. \A i \in DOMAIN w : ~Same(w[i], Stored(c))
  BY <1>1, StoredIs DEF Cut, Others
<1>4. Sorted(SetIn(j, c)) /\ Apart(SetIn(j, c))
  BY <1>1, <1>2, <1>3, StoredIs, PutKeeps
<1> QED BY <1>1, <1>4 DEF Put

LEMMA UncutCuts ==
    ASSUME NEW j \in Jars
    PROVE  \E f : Cut(f, j, j, DOMAIN j)
<1> DEFINE f == [a \in DOMAIN j |-> a]
<1>1. Cut(f, j, j, DOMAIN j)
  BY DEF Cut
<1> QED BY <1>1

\* What is left of the jar before the new record is set
LEMMA CappedIs ==
    ASSUME NEW j \in Jars, NEW c \in Cookie
    PROVE  \E f, k, K : Paid(j, c, K) /\ Cut(f, k, j, K) /\ SetCapped(j, c) = SetIn(k, c)
<1>1. CASE Fits(j, c)
  <2>1. Paid(j, c, DOMAIN j)
    BY DEF Paid
  <2> QED BY <1>1, <2>1, UncutCuts DEF SetCapped
<1>2. CASE ~Fits(j, c)
  <2>1. PICK K : K = MakeRoom(j, c)
    OBVIOUS
  <2>2. Paid(j, c, K) /\ K \subseteq DOMAIN j
    BY <2>1, MakeRoomPaid DEF Paid
  <2>3. PICK f : Cut(f, Only(j, K), j, K)
    BY <2>2, OnlyCuts
  <2> QED BY <1>2, <2>1, <2>2, <2>3 DEF SetCapped
<1> QED BY <1>1, <1>2

LEMMA CappedKeeps ==
    ASSUME NEW j \in Jars, Sorted(j), Apart(j), NEW c \in Cookie
    PROVE  SetCapped(j, c) \in Jars /\ Sorted(SetCapped(j, c)) /\ Apart(SetCapped(j, c))
<1>1. PICK f, k, K : Paid(j, c, K) /\ Cut(f, k, j, K) /\ SetCapped(j, c) = SetIn(k, c)
  BY CappedIs
<1>2. k \in Jars /\ Sorted(k) /\ Apart(k)
  BY <1>1, CutKeeps DEF Cut
<1> QED BY <1>1, <1>2, SetInKeeps

LEMMA WithoutCuts ==
    ASSUME NEW j \in Jars, NEW c
    PROVE  \E f : Cut(f, Without(j, c), j, Others(j, c))
  BY OnlyCuts DEF Others, Without

LEMMA AfterKeeps ==
    ASSUME NEW j \in Jars, Sorted(j), Apart(j), NEW c \in Cookie,
           NEW h, NEW https, NEW past
    PROVE  /\ After(j, h, https, c, past) \in Jars
           /\ Sorted(After(j, h, https, c, past)) /\ Apart(After(j, h, https, c, past))
<1>1. PICK f : Cut(f, Without(j, c), j, Others(j, c))
  BY WithoutCuts
<1>2. Without(j, c) \in Jars /\ Sorted(Without(j, c)) /\ Apart(Without(j, c))
  BY <1>1, CutKeeps DEF Cut
<1> QED BY <1>2, CappedKeeps DEF After

LEMMA JarTypeHolds == JarSpec => []JarType
<1>1. JarInit => JarType
  BY DEF JarInit, JarType, Jars, Sorted, Apart
<1>2. JarType /\ [JarNext]_jarVars => JarType'
  <2> SUFFICES ASSUME JarType, [JarNext]_jarVars PROVE JarType'
    OBVIOUS
  <2> USE DEF JarType
  <2>1. CASE UNCHANGED jarVars
    BY <2>1 DEF jarVars
  <2>2. CASE LoadRecord
    <3>1. PICK c \in FileRecords : data' = SetIn(data, c)
      BY <2>2 DEF LoadRecord
    <3>2. c \in Cookie
      BY SizesAssumption
    <3> QED BY <3>1, <3>2, SetInKeeps
  <2>3. CASE Crawl
    BY <2>3 DEF Crawl
  <2>4. ASSUME NEW h \in Hosts, SetCookieHeader(h) PROVE JarType'
    <3>1. PICK https \in BOOLEAN, c \in Settable(h), past \in BOOLEAN :
              data' = After(data, h, https, c, past)
      BY <2>4 DEF SetCookieHeader
    <3>2. c \in Cookie
      BY SizesAssumption DEF Settable
    <3> QED BY <3>1, <3>2, AfterKeeps
  <2> QED BY <2>1, <2>2, <2>3, <2>4 DEF JarNext
<1> QED BY <1>1, <1>2, PTL DEF JarSpec

-----------------------------------------------------------------------------
(* Only a host over its share pays *)

LEMMA LostIs ==
    ASSUME NEW j \in Jars, Sorted(j), Apart(j), NEW c \in Cookie,
           NEW f, NEW k, NEW K, Paid(j, c, K), Cut(f, k, j, K)
    PROVE  Lost(j, SetIn(k, c)) = DOMAIN j \ K
<1>1. k \in Jars /\ K \subseteq DOMAIN j
      /\ (\A a \in DOMAIN k : f[a] \in K /\ k[a] = j[f[a]])
      /\ \A i \in K : \E a \in DOMAIN k : k[a] = j[i]
  BY DEF Cut, Paid
<1>2. \A i \in DOMAIN j \ K : i \in Others(j, c)
  BY DEF Paid
<1>3. \A i \in DOMAIN j \ K : \A a \in DOMAIN k : ~Same(j[i], k[a])
  BY <1>1 DEF Apart
<1>4. CASE SetIn(k, c) = k
  <2>1. \A i \in K : \E a \in DOMAIN k : Same(j[i], k[a])
    BY <1>1 DEF Same
  <2> QED BY <1>1, <1>3, <1>4, <2>1 DEF Lost
<1>5. CASE SetIn(k, c) # k
  <2>1. PICK g, w, p : Cut(g, w, k, Others(k, c)) /\ Put(p, SetIn(k, c), w, Stored(c))
    BY <1>1, <1>5, SetInIs
  <2>2. w \in Jars /\ Stored(c) \in Cookie
    BY <2>1, StoredIs DEF Cut
  <2>3. PICK t : t = SetIn(k, c)
    OBVIOUS
  <2>4. /\ \A b \in DOMAIN t : t[b] = Stored(c) \/ \E a \in DOMAIN w : t[b] = w[a]
        /\ \A a \in DOMAIN w : \E b \in DOMAIN t : t[b] = w[a]
        /\ \E b \in DOMAIN t : t[b] = Stored(c)
    BY <2>1, <2>2, <2>3, PutPlaces
  <2>5. /\ \A a \in DOMAIN w : \E b \in DOMAIN k : w[a] = k[b]
        /\ \A b \in DOMAIN k : ~Same(k[b], c) => \E a \in DOMAIN w : w[a] = k[b]
    BY <2>1 DEF Cut, Others
  <2>6. ASSUME NEW i \in K PROVE \E b \in DOMAIN t : Same(j[i], t[b])
    <3>1. PICK a \in DOMAIN k : k[a] = j[i]
      BY <1>1
    <3>2. CASE Same(j[i], c)
      BY <2>4, <3>2, StoredIs
    <3>3. CASE ~Same(j[i], c)
      <4>1. PICK b \in DOMAIN t : t[b] = j[i]
        BY <2>4, <2>5, <3>1, <3>3
      <4> QED BY <4>1 DEF Same
    <3> QED BY <3>2, <3>3
  <2>7. ASSUME NEW i \in DOMAIN j \ K, NEW b \in DOMAIN t PROVE ~Same(j[i], t[b])
    <3>1. CASE t[b] = Stored(c)
      BY <1>2, <3>1, StoredIs DEF Others
    <3>2. CASE \E a \in DOMAIN w : t[b] = w[a]
      BY <1>3, <2>5, <3>2
    <3> QED BY <2>4, <3>1, <3>2
  <2> QED BY <1>1, <2>3, <2>6, <2>7 DEF Lost
<1> QED BY <1>4, <1>5

LEMMA NoneLost ==
    ASSUME NEW j PROVE Lost(j, j) = {}
  BY DEF Lost, Same

\* WithinShareKept (htsbauth.c, cookie_make_room()), for any hosts, records, sizes and bounds
THEOREM WithinShareKeptHolds == JarSpec => []WithinShareKept
<1>1. JarType => WithinShareKept
  <2> SUFFICES ASSUME JarType, NEW h \in Hosts, NEW c \in Settable(h)
               PROVE  LET lost == Lost(data, After(data, h, TRUE, c, FALSE))
                          kept == DOMAIN data \ lost
                      IN  \A i \in lost :
                            /\ OverShare(data, DOMAIN data, data[i].dom, c)
                            /\ \E l \in lost : /\ data[l].dom = data[i].dom
                                               /\ OverShare(data, kept \cup {l}, data[l].dom, c)
    BY DEF WithinShareKept
  <2>0. c \in Cookie
    BY SizesAssumption DEF Settable
  <2>1. CASE After(data, h, TRUE, c, FALSE) = data
    BY <2>1, NoneLost
  <2>2. CASE After(data, h, TRUE, c, FALSE) # data
    <3>1. After(data, h, TRUE, c, FALSE) = SetCapped(data, c)
      BY <2>2 DEF After
    <3>2. PICK f, k, K : Paid(data, c, K) /\ Cut(f, k, data, K) /\ SetCapped(data, c) = SetIn(k, c)
      BY <2>0, CappedIs DEF JarType
    <3>3. Lost(data, SetIn(k, c)) = DOMAIN data \ K
      BY <2>0, <3>2, LostIs DEF JarType
    <3>4. DOMAIN data \ (DOMAIN data \ K) = K
      BY <3>2 DEF Paid
    <3>5. \A i \in DOMAIN data \ K :
              /\ OverShare(data, DOMAIN data, data[i].dom, c)
              /\ \E l \in DOMAIN data \ K : /\ data[l].dom = data[i].dom
                                            /\ OverShare(data, K \cup {l}, data[l].dom, c)
      BY <3>2 DEF Paid
    <3>6. Lost(data, After(data, h, TRUE, c, FALSE)) = DOMAIN data \ K
      BY <3>1, <3>2, <3>3
    <3> QED BY <3>4, <3>5, <3>6
  <2> QED BY <2>1, <2>2
<1> QED BY <1>1, JarTypeHolds, PTL

-----------------------------------------------------------------------------
(* What plain http cannot reach *)

\* A cookie sent to an https page, and the place of the first one of a name
Sent(c, h, p) == SentTo(c, h) /\ PathCovers(c.path, p)
First(j, h, p, n, i) ==
    /\ i \in DOMAIN j /\ Sent(j[i], h, p) /\ j[i].name = n
    /\ \A l \in DOMAIN j : Sent(j[l], h, p) /\ j[l].name = n => i <= l

LEMMA FirstIs ==
    ASSUME NEW j, NEW h, NEW p, NEW n, NEW d
    PROVE  d \in FirstSent(j, h, p, n) <=> \E i : First(j, h, p, n, i) /\ j[i] = d
  BY DEF FirstSent, First, Header, Sent

LEMMA CutFirst ==
    ASSUME NEW j \in Jars, NEW f, NEW k, NEW S, Cut(f, k, j, S),
           NEW h, NEW p, NEW n, NEW i \in S, First(j, h, p, n, i)
    PROVE  \E a : First(k, h, p, n, a) /\ k[a] = j[i]
<1>1. PICK a \in DOMAIN k : f[a] = i
  BY DEF Cut
<1>2. \A b \in DOMAIN k : f[b] \in DOMAIN j /\ f[b] \in Nat /\ b \in Nat /\ k[b] = j[f[b]]
  BY PlacesAre DEF Cut
<1>3. ASSUME NEW l \in DOMAIN k, Sent(k[l], h, p), k[l].name = n PROVE a <= l
  <2>1. i <= f[l]
    BY <1>2, <1>3 DEF First
  <2>2. ~(l < a)
    BY <1>1, <1>2, <2>1 DEF Cut
  <2> QED BY <1>2, <2>2
<1> QED BY <1>1, <1>2, <1>3 DEF First

LEMMA PutFirst ==
    ASSUME NEW w \in Jars, Sorted(w), NEW e \in Cookie, NEW q, NEW t, Put(q, t, w, e),
           NEW h, NEW p, NEW n, NEW a, First(w, h, p, n, a),
           Sent(e, h, p) /\ e.name = n => e.path <= w[a].path
    PROVE  \E b : First(t, h, p, n, b) /\ t[b] = w[a]
<1>1. Len(w) \in Nat /\ DOMAIN w = 1 .. Len(w) /\ DOMAIN t = 1 .. Len(w) + 1 /\ q \in 1 .. Len(w) + 1
      /\ a \in DOMAIN w /\ e.path \in Nat /\ \A i \in DOMAIN w : w[i].path \in Nat
  BY PlacesAre, BytesAre DEF Put, First
<1>2. CASE a < q
  <2>1. a \in DOMAIN t /\ t[a] = w[a]
    BY <1>1, <1>2, PutPlaces
  <2>2. ASSUME NEW l \in DOMAIN t, Sent(t[l], h, p), t[l].name = n PROVE a <= l
    <3>1. CASE l < q
      <4>1. l \in DOMAIN w /\ t[l] = w[l]
        BY <1>1, <3>1, PutPlaces
      <4> QED BY <2>2, <4>1 DEF First
    <3>2. CASE l >= q
      BY <1>1, <1>2, <3>2
    <3> QED BY <1>1, <3>1, <3>2
  <2> QED BY <2>1, <2>2 DEF First
<1>3. CASE a >= q
  <2>1. a + 1 \in DOMAIN t /\ t[a + 1] = w[a]
    BY <1>1, <1>3, PutPlaces
  <2>2. q \in DOMAIN w /\ w[q].path < e.path
    BY <1>1, <1>3 DEF Put
  <2>3. w[a].path <= w[q].path
    BY <1>1, <1>3, <2>2 DEF Sorted
  <2>4. ~(Sent(e, h, p) /\ e.name = n)
    BY <1>1, <2>2, <2>3
  <2>5. ASSUME NEW l \in DOMAIN t, Sent(t[l], h, p), t[l].name = n PROVE a + 1 <= l
    <3>1. CASE l < q
      <4>1. l \in DOMAIN w /\ t[l] = w[l]
        BY <1>1, <3>1, PutPlaces
      <4>2. a <= l
        BY <2>5, <4>1 DEF First
      <4> QED BY <1>1, <1>3, <3>1, <4>2
    <3>2. CASE l = q
      BY <2>4, <2>5, <3>2, PutPlaces
    <3>3. CASE l > q
      <4>1. l - 1 \in DOMAIN w /\ t[l] = w[l - 1]
        BY <1>1, <3>3, PutPlaces
      <4>2. a <= l - 1
        BY <2>5, <4>1 DEF First
      <4> QED BY <1>1, <4>2
    <3> QED BY <1>1, <3>1, <3>2, <3>3
  <2> QED BY <2>1, <2>5, <2>4 DEF First
<1> QED BY <1>1, <1>2, <1>3

\* Two records sent to one host have domains that match one another.
LEMMA BothSent ==
    ASSUME NEW c, NEW d, NEW h, SentTo(c, h), SentTo(d, h)
    PROVE  DomainMatch(d.dom, c.dom) \/ DomainMatch(c.dom, d.dom)
  BY DEF SentTo, DomainMatch

\* A cookie that plain http may set is neither the Secure one sent first nor put
\* before it.
LEMMA Unhidden ==
    ASSUME NEW j \in Jars, NEW c \in Cookie, ~SecureRecord(j, c),
           NEW h, NEW p, NEW i, First(j, h, p, c.name, i), j[i].secure
    PROVE  /\ i \in Others(j, c)
           /\ Sent(Stored(c), h, p) => Stored(c).path <= j[i].path
<1>1. i \in DOMAIN j /\ Sent(j[i], h, p) /\ j[i].name = c.name
  BY DEF First
<1>2. j[i].path \in Nat /\ c.path \in Nat
  BY <1>1, PlacesAre, BytesAre
<1>3. ~Same(j[i], c)
  <2> SUFFICES ASSUME Same(j[i], c) PROVE FALSE
    OBVIOUS
  <2>1. DomainMatch(j[i].dom, c.dom)
    BY DEF Same, DomainMatch
  <2>2. PathCovers(j[i].path, c.path)
    BY <1>2 DEF Same, PathCovers
  <2> QED BY <1>1, <2>1, <2>2 DEF SecureRecord
<1>4. ASSUME Sent(Stored(c), h, p) PROVE Stored(c).path <= j[i].path
  <2>1. DomainMatch(j[i].dom, Stored(c).dom) \/ DomainMatch(Stored(c).dom, j[i].dom)
    BY <1>1, <1>4, BothSent DEF Sent
  <2>2. DomainMatch(j[i].dom, c.dom) \/ DomainMatch(c.dom, j[i].dom)
    BY <2>1, StoredIs
  <2>3. ~PathCovers(j[i].path, c.path)
    BY <1>1, <2>2 DEF SecureRecord
  <2> QED BY <1>2, <2>3, StoredIs DEF PathCovers
<1> QED BY <1>1, <1>3, <1>4 DEF Others

\* SecureStaysFirst (htslib.c, treathead_opt(), and htsbauth.c, cookie_is_secure_record()),
\* for any hosts, records, sizes and bounds
THEOREM SecureStaysFirstHolds == JarSpec => []SecureStaysFirst
<1>1. JarType => SecureStaysFirst
  <2> SUFFICES ASSUME JarType, NEW h \in Hosts, NEW c \in Settable(h), NEW past \in BOOLEAN
               PROVE  \A k \in Hosts, p \in Depths :
                         \A d \in FirstSent(data, k, p, c.name) :
                            d.secure /\ ~OverShare(data, DOMAIN data, d.dom, c)
                               => d \in FirstSent(After(data, h, FALSE, c, past), k, p, c.name)
    BY Zenon DEF SecureStaysFirst
  <2> SUFFICES ASSUME NEW k \in Hosts, NEW p \in Depths,
                      NEW d \in FirstSent(data, k, p, c.name),
                      d.secure, ~OverShare(data, DOMAIN data, d.dom, c)
               PROVE  d \in FirstSent(After(data, h, FALSE, c, past), k, p, c.name)
    OBVIOUS
  <2>0. c \in Cookie /\ data \in Jars /\ Sorted(data) /\ Apart(data)
    BY SizesAssumption DEF Settable, JarType
  <2>1. CASE After(data, h, FALSE, c, past) = data
    BY <2>1
  <2>2. CASE After(data, h, FALSE, c, past) # data
    <3>1. ~SecureRecord(data, c)
          /\ After(data, h, FALSE, c, past) = IF past THEN Without(data, c) ELSE SetCapped(data, c)
      BY <2>2 DEF After
    <3>2. PICK i : First(data, k, p, c.name, i) /\ data[i] = d
      BY FirstIs
    <3>3. i \in Others(data, c) /\ (Sent(Stored(c), k, p) => Stored(c).path <= data[i].path)
      BY <2>0, <3>1, <3>2, Unhidden
    <3>4. CASE past
      <4>1. PICK f : Cut(f, Without(data, c), data, Others(data, c))
        BY <2>0, WithoutCuts
      <4>2. \E a : First(Without(data, c), k, p, c.name, a) /\ Without(data, c)[a] = data[i]
        BY <2>0, <3>2, <3>3, <4>1, CutFirst
      <4> QED BY <3>1, <3>2, <3>4, <4>2, FirstIs
    <3>5. CASE ~past
      <4>1. PICK f, j, K : Paid(data, c, K) /\ Cut(f, j, data, K) /\ SetCapped(data, c) = SetIn(j, c)
        BY <2>0, CappedIs
      <4>2. i \in K
        BY <3>2, <4>1 DEF Paid, First
      <4>3. j \in Jars /\ Sorted(j) /\ Apart(j)
        BY <2>0, <4>1, CutKeeps DEF Cut
      <4>4. PICK a : First(j, k, p, c.name, a) /\ j[a] = d
        BY <2>0, <3>2, <4>1, <4>2, CutFirst
      <4>5. CASE SetIn(j, c) = j
        <5>1. d \in FirstSent(j, k, p, c.name)
          BY <4>4, FirstIs
        <5> QED BY <3>1, <3>5, <4>1, <4>5, <5>1
      <4>6. CASE SetIn(j, c) # j
        <5>1. PICK g, w, q : Cut(g, w, j, Others(j, c)) /\ Put(q, SetIn(j, c), w, Stored(c))
          BY <2>0, <4>3, <4>6, SetInIs
        <5>2. w \in Jars /\ Sorted(w) /\ Stored(c) \in Cookie
          <6>1. Sorted(w)
            BY <4>3, <5>1, CutKeeps
          <6>2. w \in Jars /\ Stored(c) \in Cookie
            BY <2>0, <5>1, StoredIs DEF Cut
          <6> QED BY <6>1, <6>2
        <5>3. a \in Others(j, c)
          BY <3>2, <3>3, <4>4 DEF First, Others
        <5>4. PICK b : First(w, k, p, c.name, b) /\ w[b] = d
          BY <4>3, <4>4, <5>1, <5>3, CutFirst
        <5>5. \E l : First(SetIn(j, c), k, p, c.name, l) /\ SetIn(j, c)[l] = w[b]
          BY <3>2, <3>3, <5>1, <5>2, <5>4, PutFirst
        <5>6. d \in FirstSent(SetIn(j, c), k, p, c.name)
          BY <5>4, <5>5, FirstIs
        <5> QED BY <3>1, <3>5, <4>1, <5>6
      <4> QED BY <4>5, <4>6
    <3> QED BY <3>4, <3>5
  <2> QED BY <2>1, <2>2
<1> QED BY <1>1, JarTypeHolds, PTL

=============================================================================
