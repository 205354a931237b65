----------------------------- MODULE CookieFile -----------------------------
(***************************************************************************)
(* The cookies file and its .bak: what a run reads of them when it starts,  *)
(* the verdict that decides whether the run may write the file back, and    *)
(* the save at the end of the mirror (htsbauth.c, XH_uninit in htscore.c).  *)
(*                                                                         *)
(* Several runs share one file.  A run may be killed between any two steps, *)
(* each step of a save may fail, and the machine may lose power: then a     *)
(* rename not yet covered by a directory sync may be lost, each on its own, *)
(* and data that was never flushed is gone.  The user edits the file        *)
(* between runs, and removes or empties it at any time but during a save.   *)
(*                                                                         *)
(* A file is the set of its lines.  Odd lines are those a load cannot keep  *)
(* (an unknown comment, a record twice, a field too long).  A header is a   *)
(* line nobody counts: a saved empty jar is a whole file with no line.      *)
(***************************************************************************)
EXTENDS FiniteSets, Naturals

CONSTANTS
    Runs,       \* processes (or threads) that mirror with this cookies file
    Cookies,    \* the user's cookies
    OddLines,   \* lines of the user a rewrite of the file would lose
    MaxStarts,  \* bound: how many times a run is started
    MaxEdits    \* bound: how many times the user touches the file

ASSUME BoundsAssumption == MaxStarts \in Nat /\ MaxEdits \in Nat
ASSUME LinesAssumption == Cookies \cap OddLines = {} /\ Runs \cap (Cookies \cup OddLines) = {}

\* A run's own cookie, the one its sites set, is written as the run's name.
Lines == Cookies \cup OddLines \cup Runs

VARIABLES
    given,    \* TRUE for the user's --cookies-file, FALSE for the project's own jar
    file,     \* what the name of the file leads to
    bak,      \* what the name of its .bak leads to
    onDisk,   \* the pairs <<file, bak>> a power loss may leave
    pc,       \* where each run is
    verdict,  \* cookies_file_refused of each run
    jar,      \* opt->cookie of each run
    tmp,      \* the run's <file>.<pid>.<n>.tmp
    next,     \* the run's <bak>.<pid>.<n>.tmp
    owed,     \* the user's lines that must still be found in the file or its .bak
    starts, edits

vars == <<given, file, bak, onDisk, pc, verdict, jar, tmp, next, owed, starts, edits>>
disk == <<file, bak, onDisk>>
user == <<given, owed, edits>>

-----------------------------------------------------------------------------
(* Contents.  "loose" data has been written and not flushed. *)

Absent == [kind |-> "absent", has |-> {}]
Zero   == [kind |-> "zero", has |-> {}]
Torn   == [kind |-> "torn", has |-> {}]
Loose(lines) == [kind |-> "loose", has |-> lines]
Whole(lines) == [kind |-> "whole", has |-> lines]

Flushed(c) == IF c.kind = "loose" THEN Whole(c.has) ELSE c
AfterPowerLoss(c) == IF c.kind = "loose" THEN Torn ELSE c

Contents == [kind : {"absent", "zero", "torn", "loose", "whole"}, has : SUBSET Lines]

Exists(c) == c.kind # "absent"
Bulk(c)   == c.kind \notin {"absent", "zero"}

\* cookie_bak_stranded(): the file is missing beside its .bak, or empty beside
\* one that is not.
Stranded == \/ ~Exists(file) /\ Exists(bak)
            \/ file.kind = "zero" /\ Bulk(bak)

\* COOKIE_LOAD_KEEP, a count of lost lines, nothing lost, no file yet.
Keep == "keep"
Lossy == "lossy"
Clean == "clean"
Created == "created"
Verdicts == {Keep, Lossy, Clean, Created}

Places == {"off", "starting", "loaded", "crawl", "save", "write", "flush", "recheck", "copy", "flushcopy",
           "movebak", "replace", "syncdir"}
Saving == {"copy", "flushcopy", "movebak", "replace", "syncdir"}

TypeOK ==
    /\ given \in BOOLEAN
    /\ file \in Contents /\ bak \in Contents
    /\ onDisk \subseteq Contents \X Contents
    /\ pc \in [Runs -> Places]
    /\ verdict \in [Runs -> Verdicts]
    /\ jar \in [Runs -> SUBSET (Cookies \cup Runs)]
    /\ tmp \in [Runs -> Contents] /\ next \in [Runs -> Contents]
    /\ owed \subseteq Cookies \cup OddLines
    /\ starts \in 0..MaxStarts /\ edits \in 0..MaxEdits

-----------------------------------------------------------------------------
(* What the user can count on finding: the lines of the file, or of the .bak
   when the file is missing or empty.  The project's own jar is HTTrack's to
   rewrite, so there only cookies are owed. *)

UserLines == IF given THEN Cookies \cup OddLines ELSE Cookies
OwedIn(f, b) == IF Bulk(f) THEN f.has \cap UserLines
                ELSE IF Exists(b) /\ given THEN b.has \cap UserLines
                ELSE {}

UserContents == {Absent, Zero} \cup {Whole(lines) : lines \in SUBSET (Cookies \cup OddLines)}

\* The project's own jar has no .bak.
Init ==
    /\ given \in BOOLEAN
    /\ file \in UserContents
    /\ bak \in IF given THEN UserContents ELSE {Absent}
    /\ onDisk = {<<file, bak>>}
    /\ pc = [r \in Runs |-> "off"]
    /\ verdict = [r \in Runs |-> Keep]
    /\ jar = [r \in Runs |-> {}]
    /\ tmp = [r \in Runs |-> Absent]
    /\ next = [r \in Runs |-> Absent]
    /\ owed = OwedIn(file, bak)
    /\ starts = 0 /\ edits = 0

-----------------------------------------------------------------------------
(* The run: httpmirror() *)

\* A given file is loaded once the start URLs are known, "and left alone until
\* then"; the project's own jar is loaded at once.
Start(r) ==
    /\ pc[r] = "off" /\ starts < MaxStarts
    /\ starts' = starts + 1
    /\ pc' = [pc EXCEPT ![r] = "starting"]
    /\ verdict' = [verdict EXCEPT ![r] = Keep]
    /\ jar' = [jar EXCEPT ![r] = {}]
    /\ tmp' = [tmp EXCEPT ![r] = Absent]
    /\ next' = [next EXCEPT ![r] = Absent]
    /\ UNCHANGED <<disk, user>>

\* cookie_load_file(): what the load can find of the file.  No memory, a file
\* that cannot be opened, a dangling link and (for a given file, whose cookies
\* are loaded all the same) a document.cookie string keep the file; a line that
\* would be lost, or a read that stops early, is counted.  The project's own jar
\* is rewritten even so: it owes nobody what its load could not read.
LoadVerdicts ==
    IF Stranded THEN {Keep}
    ELSE IF ~Exists(file) THEN {Created}
    ELSE {Keep, Lossy} \cup (IF file.has \cap OddLines = {} THEN {Clean} ELSE {})

Loaded(v) ==
    CASE v = Keep  -> {{}, file.has \ OddLines}
      [] v = Lossy -> SUBSET (file.has \ OddLines)
      [] OTHER     -> {file.has \ OddLines}

Load(r) ==
    /\ pc[r] = "starting"
    /\ \E v \in LoadVerdicts :
         /\ verdict' = [verdict EXCEPT ![r] = v]
         /\ \E lines \in Loaded(v) :
              /\ jar' = [jar EXCEPT ![r] = lines]
              /\ owed' = IF ~given /\ v = Lossy THEN owed \cap lines ELSE owed
    /\ pc' = [pc EXCEPT ![r] = "loaded"]
    /\ UNCHANGED <<disk, given, edits, tmp, next, starts>>

\* A bailout before the load: XH_uninit runs all the same.  It needs a given
\* file, since the project's own jar is loaded before the first bailout.
BailOut(r) ==
    /\ pc[r] = "starting" /\ given
    /\ pc' = [pc EXCEPT ![r] = "save"]
    /\ UNCHANGED <<disk, user, verdict, jar, tmp, next, starts>>

\* bundle_start() failed: the jar may hold half a bundle, so it is not saved.
BundleFails(r) ==
    /\ pc[r] = "loaded"
    /\ jar' = [jar EXCEPT ![r] = @ \cup {r}]
    /\ verdict' = [verdict EXCEPT ![r] = Keep]
    /\ pc' = [pc EXCEPT ![r] = "save"]
    /\ UNCHANGED <<disk, user, tmp, next, starts>>

BeginCrawl(r) ==
    /\ pc[r] = "loaded"
    /\ pc' = [pc EXCEPT ![r] = "crawl"]
    /\ UNCHANGED <<disk, user, verdict, jar, tmp, next, starts>>

\* A site sets a cookie.
SetCookie(r) ==
    /\ pc[r] = "crawl" /\ r \notin jar[r]
    /\ jar' = [jar EXCEPT ![r] = @ \cup {r}]
    /\ UNCHANGED <<disk, user, pc, verdict, tmp, next, starts>>

\* A site deletes one, which is no longer owed to the user.
DeleteCookie(r) ==
    /\ pc[r] = "crawl"
    /\ \E c \in jar[r] \cap Cookies :
         /\ jar' = [jar EXCEPT ![r] = @ \ {c}]
         /\ owed' = owed \ {c}
    /\ UNCHANGED <<disk, given, edits, pc, verdict, tmp, next, starts>>

EndMirror(r) ==
    /\ pc[r] = "crawl"
    /\ pc' = [pc EXCEPT ![r] = "save"]
    /\ UNCHANGED <<disk, user, verdict, jar, tmp, next, starts>>

-----------------------------------------------------------------------------
(* The save.  Every failure removes the run's temporaries and leaves the file
   as it is. *)

GiveUp(r) ==
    /\ pc' = [pc EXCEPT ![r] = "off"]
    /\ tmp' = [tmp EXCEPT ![r] = Absent]
    /\ next' = [next EXCEPT ![r] = Absent]
    /\ UNCHANGED disk

\* Mutant of Recheck: the check of the load is not made again.
RecheckNot(r) ==
    /\ pc[r] = "recheck"
    /\ pc' = [pc EXCEPT ![r] = IF given /\ Exists(file) THEN "copy" ELSE "replace"]
    /\ UNCHANGED <<disk, user, verdict, jar, tmp, next, starts>>

\* XH_uninit and cookie_save_to(): a given file is rewritten when its load lost
\* nothing, the project's own unless its load says keep.  An empty jar does not
\* create a file.
MaySave(r) == verdict[r] # Keep /\ (given => verdict[r] # Lossy)

EnterSave(r) ==
    /\ pc[r] = "save"
    /\ IF MaySave(r) /\ (jar[r] # {} \/ Exists(file))
       THEN pc' = [pc EXCEPT ![r] = "write"] /\ UNCHANGED <<tmp, next, disk>>
       ELSE GiveUp(r)
    /\ UNCHANGED <<user, verdict, jar, starts>>

\* cookie_write() into a temporary of its own, which the close flushes.
Write(r) ==
    /\ pc[r] = "write"
    /\ \/ /\ tmp' = [tmp EXCEPT ![r] = Loose(jar[r])]
          /\ pc' = [pc EXCEPT ![r] = "flush"]
          /\ UNCHANGED <<next, disk>>
       \/ GiveUp(r)
    /\ UNCHANGED <<user, verdict, jar, starts>>

\* Mutant of Flush: fsync() forgotten before the rename
FlushNot(r) ==
    /\ pc[r] = "flush"
    /\ pc' = [pc EXCEPT ![r] = "recheck"]
    /\ UNCHANGED <<disk, user, verdict, jar, tmp, next, starts>>

\* cookie_close_synced()
Flush(r) ==
    /\ pc[r] = "flush"
    /\ \/ /\ tmp' = [tmp EXCEPT ![r] = Flushed(@)]
          /\ pc' = [pc EXCEPT ![r] = "recheck"]
          /\ UNCHANGED <<next, disk>>
       \/ GiveUp(r)
    /\ UNCHANGED <<user, verdict, jar, starts>>

\* cookie_commit(): the file may have changed since the load checked it.  Only
\* a given file has a .bak.
Recheck(r) ==
    /\ pc[r] = "recheck"
    /\ IF given /\ Stranded THEN GiveUp(r)
       ELSE /\ pc' = [pc EXCEPT ![r] = IF given /\ Exists(file) THEN "copy" ELSE "replace"]
            /\ UNCHANGED <<tmp, next, disk>>
    /\ UNCHANGED <<user, verdict, jar, starts>>

\* cookie_backup(): a hard link to the file, or a copy where there are none.
CopyOld(r) ==
    /\ pc[r] = "copy"
    /\ \/ /\ next' = [next EXCEPT ![r] = file]
          /\ pc' = [pc EXCEPT ![r] = "movebak"]
          /\ UNCHANGED <<tmp, disk>>
       \/ /\ next' = [next EXCEPT ![r] = IF Bulk(file) THEN Loose(file.has) ELSE file]
          /\ pc' = [pc EXCEPT ![r] = "flushcopy"]
          /\ UNCHANGED <<tmp, disk>>
       \/ GiveUp(r)
    /\ UNCHANGED <<user, verdict, jar, starts>>

FlushCopy(r) ==
    /\ pc[r] = "flushcopy"
    /\ \/ /\ next' = [next EXCEPT ![r] = Flushed(@)]
          /\ pc' = [pc EXCEPT ![r] = "movebak"]
          /\ UNCHANGED <<tmp, disk>>
       \/ GiveUp(r)
    /\ UNCHANGED <<user, verdict, jar, starts>>

\* A rename takes effect at once and reaches the disk some time later.
RenameToBak(c) ==
    /\ bak' = c /\ UNCHANGED file
    /\ onDisk' = onDisk \cup {<<d[1], c>> : d \in onDisk}
RenameToFile(c) ==
    /\ file' = c /\ UNCHANGED bak
    /\ onDisk' = onDisk \cup {<<c, d[2]>> : d \in onDisk}

MoveBak(r) ==
    /\ pc[r] = "movebak"
    /\ \/ /\ RenameToBak(next[r])
          /\ next' = [next EXCEPT ![r] = Absent]
          /\ pc' = [pc EXCEPT ![r] = "replace"]
          /\ UNCHANGED tmp
       \/ GiveUp(r)
    /\ UNCHANGED <<user, verdict, jar, starts>>

\* cookie_replace()
Replace(r) ==
    /\ pc[r] = "replace"
    /\ \/ /\ RenameToFile(tmp[r])
          /\ tmp' = [tmp EXCEPT ![r] = Absent]
          /\ pc' = [pc EXCEPT ![r] = "syncdir"]
          /\ UNCHANGED next
       \/ GiveUp(r)
    /\ UNCHANGED <<user, verdict, jar, starts>>

\* cookie_sync_dir(): a failure is ignored.
SyncDir(r) ==
    /\ pc[r] = "syncdir"
    /\ pc' = [pc EXCEPT ![r] = "off"]
    /\ onDisk' \in {onDisk, {<<file, bak>>}}
    /\ UNCHANGED <<file, bak, user, verdict, jar, tmp, next, starts>>

-----------------------------------------------------------------------------
(* Faults and the user *)

\* A kill leaves the temporaries behind; no later run reads them.
Kill(r) ==
    /\ pc[r] # "off"
    /\ pc' = [pc EXCEPT ![r] = "off"]
    /\ UNCHANGED <<disk, user, verdict, jar, tmp, next, starts>>

PowerLoss ==
    /\ \E d \in onDisk :
         /\ file' = AfterPowerLoss(d[1])
         /\ bak' = AfterPowerLoss(d[2])
         /\ onDisk' = {<<file', bak'>>}
    /\ pc' = [r \in Runs |-> "off"]
    /\ tmp' = [r \in Runs |-> Absent]
    /\ next' = [r \in Runs |-> Absent]
    /\ UNCHANGED <<user, verdict, jar, starts>>

MayEdit == edits < MaxEdits /\ edits' = edits + 1

\* The user writes the file, restores its .bak, or deletes the .bak while no
\* run is up.
EditFile ==
    /\ \A r \in Runs : pc[r] = "off"
    /\ MayEdit
    /\ \/ file' \in UserContents /\ UNCHANGED bak
       \/ given /\ Exists(bak) /\ file' = bak /\ bak' = Absent
       \/ bak' = Absent /\ UNCHANGED file
    /\ onDisk' = {<<file', bak'>>}
    /\ owed' = OwedIn(file', bak')
    /\ UNCHANGED <<given, pc, verdict, jar, tmp, next, starts>>

\* An editor removes or empties the file at any time, but not within a save.
LoseFile ==
    /\ \A r \in Runs : pc[r] \notin Saving
    /\ MayEdit
    /\ file' \in {Absent, Zero} /\ UNCHANGED bak
    /\ onDisk' = {<<file', bak>>}
    /\ owed' = OwedIn(file', bak)
    /\ UNCHANGED <<given, pc, verdict, jar, tmp, next, starts>>

Step(r) == \/ Start(r) \/ Load(r) \/ BailOut(r) \/ BundleFails(r) \/ BeginCrawl(r)
           \/ SetCookie(r) \/ DeleteCookie(r) \/ EndMirror(r) \/ EnterSave(r) \/ Write(r) \/ Flush(r)
           \/ Recheck(r) \/ CopyOld(r) \/ FlushCopy(r) \/ MoveBak(r) \/ Replace(r)
           \/ SyncDir(r) \/ Kill(r)

Next == (\E r \in Runs : Step(r)) \/ PowerLoss \/ EditFile \/ LoseFile

Spec == Init /\ [][Next]_vars

-----------------------------------------------------------------------------
(* Properties *)

\* Neither the file nor its .bak is ever cut short: each holds a jar some run
\* wrote out, or what the user put there, whatever step failed, whenever a run
\* was killed or the machine lost power ("file holds the old or the new jar
\* whatever fails"; "a crash after the rename must not leave an empty file").
JarsWhole == {file.kind, bak.kind} \cap {"torn", "loose"} = {}

\* No line the user can count on is lost: it is in the file or in its .bak, and
\* would be after a power loss now.  It takes a load that lost a line, a run
\* that ended before its load or found the file stranded, and a second run that
\* turns the .bak over, to break it.
LinesKept ==
    /\ owed \subseteq file.has \cup bak.has
    /\ \A d \in onDisk : owed \subseteq d[1].has \cup d[2].has

==============================================================================
