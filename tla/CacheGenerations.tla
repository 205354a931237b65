--------------------------- MODULE CacheGenerations ---------------------------
(***************************************************************************)
(* The two generations of the HTTrack cache on disk (hts-cache/new.zip,    *)
(* hts-cache/old.zip), the two lists of mirrored files that go with them   *)
(* (new.lst, old.lst) and the mirrored files themselves, across successive *)
(* runs of the program: startup reconcile (htscoremain.c), cache_init()    *)
(* (htscache.c), the crawl, the end-of-mirror verdict, the --purge-old     *)
(* pass (htscore.c) and the closing reconcile.                             *)
(*                                                                         *)
(* One action per file system call that changes a name or a file, so that  *)
(* Kill (a signal, a power cut) may strike between any two of them.  A     *)
(* rename is one atomic step: hts_rename_over() is rename(2) on POSIX.     *)
(***************************************************************************)
EXTENDS Naturals, FiniteSets

CONSTANTS
    Links,      \* the URLs of the site; each has one file in the mirror
    MaxRun,     \* bound: number of times the program is started
    MaxKill,    \* bound: number of runs cut by a kill
    MaxFault,   \* bound: number of file system calls that fail
    DeleteOld   \* opt->delete_old: is --purge-old on?

ASSUME BoundsAssumption ==
    /\ MaxRun \in Nat /\ MaxKill \in Nat /\ MaxFault \in Nat
    /\ DeleteOld \in BOOLEAN

ASSUME LinksAssumption == IsFiniteSet(Links)

VARIABLES
    newZip, oldZip,     \* the two cache generations
    newLst, oldLst,     \* the lists of files of the two generations
    files,              \* the links whose file is on disk
    lock,               \* hts-in_progress.lock
    pc,                 \* the next step of the running program, or "down"
    run,                \* number of the current run, 0 before the first
    flags,              \* the flags of the running program, see Flags
    loaded,             \* the generation whose index cache_init() loaded
    after,              \* the step that follows a promotion
    kills, faults,      \* kills and failed calls so far
    \* history, never read by an action's guard:
    found,              \* the usable cache and list the run found, and the lock
                        \* it found, which says that the run before it was cut
    marks               \* "faulty": a call of the current run failed; "torn": a
                        \* kill fell between an archive's move and its list's, or
                        \* a list was moved back that no archive went with

disk == <<newZip, oldZip, newLst, oldLst, files, lock>>
setup == <<run, loaded, found>>
environment == <<kills, faults, marks>>
vars == <<newZip, oldZip, newLst, oldLst, files, lock, pc, run, flags, loaded,
          after, kills, faults, found, marks>>

(* The flags of the program.                                                *)
Flags == {"cacheOn",    \* opt->cache != 0
          "keepOld",    \* keep_old in cache_init()
          "zipOut",     \* cache->zipOutput != NULL
          "saved",      \* stat_files > 0: this run wrote a file
          "unqueued",   \* opt->links_unqueued
          "aborted",    \* state.stop or state.exit_xh is set
          "rollback",   \* rollback in httpmirror()
          "completed"}  \* completed in htscoremain.c

CacheOn == "cacheOn" \in flags
KeepOld == "keepOld" \in flags
ZipOut == "zipOut" \in flags
Saved == "saved" \in flags
Unqueued == "unqueued" \in flags
Aborted == "aborted" \in flags
Rollback == "rollback" \in flags
Completed == "completed" \in flags
Faulty == "faulty" \in marks
Torn == "torn" \in marks

-----------------------------------------------------------------------------
(* Archives and lists.  An archive knows the run that wrote it, the links   *)
(* it has an entry for, and whether its central directory was written,      *)
(* which is what unzOpen() needs.  The local headers of an archive without  *)
(* a directory are all on disk (zipFlush() after every entry).              *)

Archive == [run : 0..MaxRun, entries : SUBSET Links, directory : {"none", "written"}]
List == [run : 0..MaxRun, files : SUBSET Links]

NoArchive == [run |-> 0, entries |-> {}, directory |-> "none"]
NoList == [run |-> 0, files |-> {}]
NothingFound == [zip |-> NoArchive, lst |-> NoList, lock |-> "none"]

Exists(f) == f.run # 0                          \* fexist_utf8()
Opens(z) == Exists(z) /\ z.directory = "written"      \* hts_unzOpen_utf8()
SizePositive(z) ==                              \* fsize_utf8() > 0
    z.directory = "written" \/ z.entries # {}
Repairable(z) == z.entries # {}                 \* cache_repair() succeeds
\* zipClose(), or cache_repair(), writes the central directory.
Repaired(z) == [z EXCEPT !.directory = "written"]

\* Mutant: the comparison is the wrong way round.
OldReachesLess ==
    /\ Opens(newZip)
    /\ Opens(oldZip)
    /\ Cardinality(oldZip.entries) < Cardinality(newZip.entries)

\* reconcile_entries(old.zip) > kept, for a new.zip that opens.
OldReachesFurther ==
    /\ Opens(newZip)
    /\ Opens(oldZip)
    /\ Cardinality(oldZip.entries) > Cardinality(newZip.entries)

\* CACHE_RECONCILE_INTERRUPTED: does it promote the previous generation?
InterruptedPromotes == CacheOn /\ lock = "held" /\ OldReachesFurther

TypeOK ==
    /\ newZip \in Archive /\ oldZip \in Archive
    /\ newLst \in List /\ oldLst \in List
    /\ files \in SUBSET Links
    /\ pc \in {"down", "promote", "interrupted", "promoteZip", "promoteLst",
               "takeLock", "checkNew", "setAsideZip", "setAsideLst",
               "rotateZip", "load", "createZip", "unlinkOldLst", "rotateLst",
               "openLst", "crawl", "purge", "closeZip", "verdict", "unlock"}
    /\ run \in 0..MaxRun
    /\ lock \in {"none", "held"}
    /\ flags \in SUBSET Flags
    /\ loaded \in Archive
    /\ after \in {"takeLock", "verdict", "unlock"}
    /\ kills \in 0..MaxKill /\ faults \in 0..MaxFault
    /\ found \in [zip : Archive, lst : List, lock : {"none", "held"}]
    /\ marks \in SUBSET {"faulty", "torn"}

Init ==
    /\ newZip = NoArchive /\ oldZip = NoArchive
    /\ newLst = NoList /\ oldLst = NoList
    /\ files = {} /\ lock = "none"
    /\ pc = "down" /\ run = 0
    /\ flags = {}
    /\ loaded = NoArchive
    /\ after = "takeLock"
    /\ kills = 0 /\ faults = 0
    /\ found = NothingFound
    /\ marks = {}

-----------------------------------------------------------------------------
(* Startup, htscoremain.c.                                                  *)

\* A file system call of the current run fails, or does not.
Fault ==
    /\ faults < MaxFault
    /\ faults' = faults + 1
    /\ marks' = marks \cup {"faulty"}
    /\ kills' = kills

NoFault == UNCHANGED environment

\* The program ends, and its memory with it.
Exit ==
    /\ pc' = "down" /\ flags' = {} /\ loaded' = NoArchive
    /\ after' = "takeLock"
    /\ found' = NothingFound
    /\ run' = run

\* The program starts; -C0 turns the cache off.
Start ==
    /\ pc = "down" /\ run < MaxRun
    /\ pc' = "promote"
    /\ run' = run + 1
    /\ flags' \in {{}, {"cacheOn"}}
    /\ UNCHANGED <<disk, loaded, found, after, environment>>

\* CACHE_RECONCILE_PROMOTE: no new.zip but an old one, which comes back.
Promote ==
    /\ pc = "promote"
    /\ pc' = "interrupted"
    /\ \/ /\ ~Exists(newZip) /\ Exists(oldZip)
          /\ newZip' = oldZip /\ oldZip' = NoArchive
          /\ NoFault
       \/ /\ ~Exists(newZip) /\ Exists(oldZip)
          /\ Fault /\ UNCHANGED <<newZip, oldZip>>
       \/ /\ Exists(newZip) \/ ~Exists(oldZip)
          /\ NoFault /\ UNCHANGED <<newZip, oldZip>>
    /\ UNCHANGED <<newLst, oldLst, files, lock, flags, setup, after>>

\* CACHE_RECONCILE_INTERRUPTED, on the lock a cut run left behind.
ReconcileAtStart ==
    /\ pc = "interrupted"
    /\ pc' = IF InterruptedPromotes THEN "promoteZip" ELSE "takeLock"
    /\ after' = "takeLock"
    /\ UNCHANGED <<disk, flags, setup, environment>>

\* Mutant: the arguments of the rename are swapped.
PromoteZipSwapped ==
    /\ pc = "promoteZip"
    /\ pc' = "promoteLst"
    /\ IF Exists(oldZip) THEN oldZip' = newZip /\ newZip' = NoArchive
                         ELSE UNCHANGED <<newZip, oldZip>>
    /\ NoFault
    /\ UNCHANGED <<newLst, oldLst, files, lock, flags, setup, after>>

\* reconcile_promote(old.zip, new.zip).
PromoteZip ==
    /\ pc = "promoteZip"
    /\ pc' = "promoteLst"
    /\ \/ /\ Exists(oldZip)
          /\ newZip' = oldZip /\ oldZip' = NoArchive
          /\ NoFault
       \/ /\ Exists(oldZip)
          /\ Fault /\ UNCHANGED <<newZip, oldZip>>
       \/ /\ ~Exists(oldZip)
          /\ marks' = IF Exists(oldLst) THEN marks \cup {"torn"} ELSE marks
          /\ UNCHANGED <<newZip, oldZip, kills, faults>>
    /\ UNCHANGED <<newLst, oldLst, files, lock, flags, setup, after>>

\* Mutant: a new.lst without an old one is kept.
PromoteLstKept ==
    /\ pc = "promoteLst"
    /\ pc' = after
    /\ newLst' = IF Exists(oldLst) THEN oldLst ELSE newLst
    /\ oldLst' = NoList
    /\ NoFault
    /\ UNCHANGED <<newZip, oldZip, files, lock, flags, setup, after>>

\* reconcile_promote_sidecar(old.lst, new.lst): a new.lst without an old one
\* lists the run being replaced, and is dropped.
PromoteLst ==
    /\ pc = "promoteLst"
    /\ pc' = after
    /\ \/ newLst' = oldLst /\ oldLst' = NoList /\ NoFault
       \/ Exists(oldLst) /\ Fault /\ UNCHANGED <<newLst, oldLst>>
    /\ UNCHANGED <<newZip, oldZip, files, lock, flags, setup, after>>

\* hts-in_progress.lock is moved into place, then httpmirror() starts.  With
\* the cache off, cache_init() does nothing.
TakeLock ==
    /\ pc = "takeLock"
    /\ lock' = "held"
    /\ pc' = IF CacheOn THEN "checkNew" ELSE "crawl"
    /\ found' = [zip |-> newZip, lst |-> newLst, lock |-> lock]
    /\ UNCHANGED <<newZip, oldZip, newLst, oldLst, files, run, flags, loaded,
                   after, environment>>

-----------------------------------------------------------------------------
(* cache_init(), htscache.c.                                                *)

\* cache_new_generation_usable(): an unreadable new.zip is repaired in place,
\* unless old.zip holds nothing the rotation could destroy.
CheckNew ==
    /\ pc = "checkNew"
    /\ \/ /\ ~Exists(newZip)
          /\ pc' = "load"
          /\ found' = [found EXCEPT !.zip = oldZip]
          /\ UNCHANGED <<newZip, flags>>
       \/ /\ Exists(newZip)
          /\ Opens(newZip) \/ ~SizePositive(oldZip)
          /\ pc' = "rotateZip"
          /\ UNCHANGED <<newZip, flags, found>>
       \/ /\ Exists(newZip) /\ ~Opens(newZip) /\ SizePositive(oldZip)
          /\ Repairable(newZip)
          /\ newZip' = Repaired(newZip)
          /\ pc' = "rotateZip"
          /\ found' = [found EXCEPT !.zip = Repaired(newZip)]
          /\ flags' = flags
       \/ /\ Exists(newZip) /\ ~Opens(newZip) /\ SizePositive(oldZip)
          /\ ~Repairable(newZip)
          /\ flags' = flags \cup {"keepOld"}
          /\ pc' = "setAsideZip"
          /\ found' = [found EXCEPT !.zip = oldZip, !.lst = oldLst]
          /\ newZip' = newZip
    /\ UNCHANGED <<oldZip, newLst, oldLst, files, lock, run, loaded, after,
                   environment>>

\* cache_set_aside_damaged(): new.zip, then new.lst, become damaged.*, which
\* nothing reads back.
SetAsideZip ==
    /\ pc = "setAsideZip"
    /\ pc' = "setAsideLst"
    /\ \/ newZip' = NoArchive /\ NoFault
       \/ Fault /\ newZip' = newZip
    /\ UNCHANGED <<oldZip, newLst, oldLst, files, lock, flags, setup, after>>

SetAsideLst ==
    /\ pc = "setAsideLst"
    /\ pc' = "load"
    /\ \/ newLst' = NoList /\ NoFault
       \/ Exists(newLst) /\ Fault /\ newLst' = newLst
    /\ UNCHANGED <<newZip, oldZip, oldLst, files, lock, flags, setup, after>>

\* new.zip becomes old.zip.  A failure is logged and the run goes on.
RotateZip ==
    /\ pc = "rotateZip"
    /\ pc' = "load"
    /\ \/ oldZip' = newZip /\ newZip' = NoArchive /\ NoFault
       \/ Fault /\ UNCHANGED <<newZip, oldZip>>
    /\ UNCHANGED <<newLst, oldLst, files, lock, flags, setup, after>>

\* old.zip is opened, repaired first if it has to be, and its index loaded.
LoadOld ==
    /\ pc = "load"
    /\ pc' = "createZip"
    /\ oldZip' = IF SizePositive(oldZip) THEN Repaired(oldZip) ELSE oldZip
    /\ loaded' = oldZip'
    /\ UNCHANGED <<newZip, newLst, oldLst, files, lock, run, flags, found,
                   after, environment>>

\* new.zip is created empty, which truncates one that is still there; when it
\* cannot be, the run goes on without a cache and without lists.
CreateZip ==
    /\ pc = "createZip"
    /\ \/ /\ newZip' = [run |-> run, entries |-> {}, directory |-> "none"]
          /\ flags' = flags \cup {"zipOut"}
          /\ pc' = IF KeepOld THEN "openLst" ELSE "unlinkOldLst"
          /\ NoFault
       \/ /\ Fault
          /\ pc' = "crawl"
          /\ UNCHANGED <<newZip, flags>>
    /\ UNCHANGED <<oldZip, newLst, oldLst, files, lock, setup, after>>

UnlinkOldLst ==
    /\ pc = "unlinkOldLst"
    /\ pc' = "rotateLst"
    /\ oldLst' = NoList
    /\ UNCHANGED <<newZip, oldZip, newLst, files, lock, flags, setup, after,
                   environment>>

RotateLst ==
    /\ pc = "rotateLst"
    /\ pc' = "openLst"
    /\ \/ oldLst' = newLst /\ newLst' = NoList /\ NoFault
       \/ Exists(newLst) /\ Fault /\ UNCHANGED <<newLst, oldLst>>
    /\ UNCHANGED <<newZip, oldZip, files, lock, flags, setup, after>>

OpenLst ==
    /\ pc = "openLst"
    /\ pc' = "crawl"
    /\ newLst' = [run |-> run, files |-> {}]
    /\ UNCHANGED <<newZip, oldZip, oldLst, files, lock, flags, setup, after,
                   environment>>

-----------------------------------------------------------------------------
(* The crawl, as far as these files are concerned.                          *)

\* filenote() names a file in new.lst when the run writes it, which counts in
\* stat_files, or keeps the copy that is there.  There is no list to name it in
\* when cache_init() opened none.
NoteFile(l, noted) ==
    /\ pc = "crawl"
    /\ noted = "written" \/ l \in files
    /\ files' = files \cup {l}
    /\ flags' = IF noted = "written" THEN flags \cup {"saved"} ELSE flags
    /\ newLst' = IF ZipOut THEN [newLst EXCEPT !.files = @ \cup {l}]
                           ELSE newLst
    /\ UNCHANGED <<newZip, oldZip, oldLst, lock, pc, setup, after, environment>>

\* cache_add(): the entry is written and flushed.
AddEntry(l) ==
    /\ pc = "crawl" /\ ZipOut
    /\ newZip' = [newZip EXCEPT !.entries = @ \cup {l}]
    /\ UNCHANGED <<oldZip, newLst, oldLst, files, lock, pc, flags, setup, after,
                   environment>>

\* A page that may carry links gave up (opt->links_unqueued); a stop, a cap or
\* a fatal cache write (state.stop, state.exit_xh).
Raise(flag) ==
    /\ pc = "crawl"
    /\ flags' = flags \cup {flag}
    /\ UNCHANGED <<disk, pc, setup, after, environment>>

GiveUp == Raise("unqueued")

Abort == Raise("aborted")

-----------------------------------------------------------------------------
(* End of the mirror, htscore.c, and the closing lines of htscoremain.c.    *)

\* No file saved and hardly a byte received: the run is rolled back.
EndWithNothing ==
    /\ pc = "crawl" /\ ~Saved
    /\ flags' = flags \cup {"rollback"}
    /\ pc' = "closeZip"
    /\ UNCHANGED <<disk, setup, after, environment>>

\* A step of the loop asked to leave at once: goto cleanup, not completed.
EndAtOnce ==
    /\ pc = "crawl"
    /\ pc' = "closeZip"
    /\ UNCHANGED <<disk, flags, setup, after, environment>>

\* old.lst minus new.lst, the files --purge-old is to delete.
Dropped == files \cap (oldLst.files \ newLst.files)

\* Mutant: the purge no longer asks whether a page was left unscanned.
PurgeRunsUnscanned == DeleteOld /\ ~Aborted /\ ZipOut /\ Exists(oldLst)

PurgeRuns == DeleteOld /\ ~Unqueued /\ ~Aborted /\ ZipOut /\ Exists(oldLst)

EndOfMirror ==
    /\ pc = "crawl"
    /\ flags' = IF Aborted THEN flags ELSE flags \cup {"completed"}
    /\ pc' = IF PurgeRuns THEN "purge" ELSE "closeZip"
    /\ UNCHANGED <<disk, setup, after, environment>>

PurgeFile(l) ==
    /\ pc = "purge" /\ l \in Dropped
    /\ files' = files \ {l}
    /\ UNCHANGED <<newZip, oldZip, newLst, oldLst, lock, pc, flags, setup,
                   after, environment>>

PurgeDone ==
    /\ pc = "purge" /\ Dropped = {}
    /\ pc' = "closeZip"
    /\ UNCHANGED <<disk, flags, setup, after, environment>>

\* Mutant: the rollback is forgotten.
CloseZipOnly ==
    /\ pc = "closeZip"
    /\ newZip' = IF ZipOut THEN Repaired(newZip) ELSE newZip
    /\ flags' = flags \ {"zipOut"}
    /\ pc' = "verdict"
    /\ after' = "verdict"
    /\ UNCHANGED <<oldZip, newLst, oldLst, files, lock, setup, environment>>

\* zipClose() writes the central directory; a rollback promotes after it.
CloseZip ==
    /\ pc = "closeZip"
    /\ newZip' = IF ZipOut THEN Repaired(newZip) ELSE newZip
    /\ flags' = flags \ {"zipOut"}
    /\ pc' = IF Rollback THEN "promoteZip" ELSE "verdict"
    /\ after' = "verdict"
    /\ UNCHANGED <<oldZip, newLst, oldLst, files, lock, setup, environment>>

\* CACHE_RECONCILE_INTERRUPTED again, when the mirror did not complete.
ReconcileAtEnd ==
    /\ pc = "verdict"
    /\ pc' = IF ~Completed /\ InterruptedPromotes THEN "promoteZip"
                                                  ELSE "unlock"
    /\ after' = "unlock"
    /\ UNCHANGED <<disk, flags, setup, environment>>

Unlock ==
    /\ pc = "unlock"
    /\ lock' = "none"
    /\ marks' = marks \ {"faulty"}
    /\ Exit
    /\ UNCHANGED <<newZip, oldZip, newLst, oldLst, files, kills, faults>>

-----------------------------------------------------------------------------
\* An archive has moved and its list has not followed it yet.
MidMove == {"setAsideLst", "promoteLst", "unlinkOldLst", "rotateLst"}

Kill ==
    /\ pc # "down" /\ kills < MaxKill
    /\ kills' = kills + 1
    /\ marks' = IF pc \in MidMove THEN {"torn"} ELSE marks \ {"faulty"}
    /\ Exit
    /\ UNCHANGED <<disk, faults>>

Startup == \/ Start \/ Promote \/ ReconcileAtStart \/ TakeLock

Promotion == PromoteZip \/ PromoteLst

CacheInit == \/ CheckNew \/ SetAsideZip \/ SetAsideLst \/ RotateZip \/ LoadOld
             \/ CreateZip \/ UnlinkOldLst \/ RotateLst \/ OpenLst

Crawl == \/ \E l \in Links : \/ \E noted \in {"written", "kept"} :
                                   NoteFile(l, noted)
                             \/ AddEntry(l)
         \/ GiveUp \/ Abort

Ending == \/ EndWithNothing \/ EndAtOnce \/ EndOfMirror
          \/ \E l \in Links : PurgeFile(l)
          \/ PurgeDone \/ CloseZip \/ ReconcileAtEnd \/ Unlock

\* MaxRun runs have been made: nothing more to explore.
Finished ==
    /\ pc = "down" /\ run = MaxRun
    /\ UNCHANGED vars

Next == Startup \/ Promotion \/ CacheInit \/ Crawl \/ Ending \/ Kill \/ Finished

Spec == Init /\ [][Next]_vars

-----------------------------------------------------------------------------
(* Properties.                                                              *)

\* The steps of a run that come after cache_init() has loaded a generation.
AfterLoad == {"createZip", "unlinkOldLst", "rotateLst", "openLst", "crawl",
              "purge", "closeZip", "promoteZip", "promoteLst", "verdict",
              "unlock"}

\* At every instant a kill can strike, from cache_init() (htscache.c) to the
\* removal of the lock, the generation this run reads from is whole on disk,
\* as old.zip or promoted back to new.zip.
LoadedSurvives ==
    pc \in AfterLoad /\ Exists(loaded) => loaded \in {newZip, oldZip}

\* A generation that differs from another by its central directory only.
Same(z, f) == z.run = f.run /\ z.entries = f.entries

\* A rolled back run (htscore.c "restoring previous one!") leaves the cache
\* and the list the run found, whatever kills earlier runs died of.
RestoresFound == Same(newZip, found.zip) /\ newLst = found.lst

RollbackRestores ==
    pc = "unlock" /\ Rollback /\ CacheOn /\ ~Faulty /\ Exists(found.zip)
        => RestoresFound

\* A run that ends by itself without completing leaves as new.zip a cache at
\* least as far-reaching as the one it found (hts_cache_reconcile, "keep the
\* generation reaching further").
AbortKeepsFurthest ==
    pc = "unlock" /\ CacheOn /\ ~Completed /\ ~Faulty
        => Cardinality(newZip.entries) >= Cardinality(found.zip.entries)

\* A run that mirrored nothing, or was cut short, takes nothing from the next:
\* the cache is what it found, or reaches at least as far.
FoundOutlives == RollbackRestores /\ AbortKeepsFurthest

\* A list describes the run of the archive beside it.
Paired(zip, lst) == Exists(zip) /\ Exists(lst) => zip.run = lst.run

\* "old.lst never describes a different run than old.zip" (htscache.c), nor
\* new.lst than new.zip, once cache_init() is over, unless a call failed, a kill
\* fell between an archive's move and its list's, or a run with the cache off
\* was rolled back when only an old.lst was there: that list then comes back
\* beside a newer new.zip.
ListsPaired ==
    ~Torn /\ faults = 0 /\ pc \in {"crawl", "purge", "closeZip", "unlock"}
        => Paired(newZip, newLst) /\ Paired(oldZip, oldLst)

\* --purge-old (htscore.c) deletes a file only in a run that was neither
\* aborted nor left with unscanned pages, and only if the list of the
\* generation the run found names it and the run's own list does not.
PurgeRespectsLists ==
    [][\A l \in files \ files' :
            /\ ~Aborted /\ ~Unqueued /\ ~Rollback
            /\ l \in found.lst.files
            /\ l \notin newLst.files]_vars

-----------------------------------------------------------------------------
(* CacheGenerations implements PreviousMirror.  With a cache the mirror the *)
(* next run works from is the one this run found until it ends; without, it *)
(* is what is on disk.                                                      *)

MirrorOf(zip, lst) == [run |-> zip.run, entries |-> zip.entries, list |-> lst]

Untroubled == kills = 0 /\ faults = 0

\* A run with a cache has taken note of the mirror it found.
Working ==
    /\ CacheOn
    /\ pc \notin {"promote", "interrupted", "takeLock"}

\* A run without a cache that brought back nothing has had its rollback.
Undone == ~CacheOn /\ Rollback /\ pc \notin {"closeZip", "promoteZip"}

MirrorNow ==
    IF ~Untroubled THEN MirrorOf(NoArchive, NoList)
    ELSE IF Working THEN MirrorOf(found.zip, found.lst)
    ELSE IF pc = "promoteLst" THEN MirrorOf(newZip, oldLst)
    ELSE MirrorOf(newZip, newLst)

\* The rotation is what makes a run with a cache forget it.
MirrorBefore ==
    IF \/ ~Untroubled \/ pc = "promoteLst"
       \/ Working /\ pc \notin {"checkNew", "rotateZip"}
    THEN MirrorOf(NoArchive, NoList)
    ELSE MirrorOf(oldZip, oldLst)

Phase ==
    IF ~Untroubled THEN "troubled"
    ELSE IF pc = "down" \/ Undone THEN "idle"
    ELSE IF ~CacheOn THEN "plain"
    ELSE IF Rollback THEN "void"
    ELSE IF Completed THEN "whole" ELSE "caching"

Previous == INSTANCE PreviousMirror WITH
    mirror <- MirrorNow, before <- MirrorBefore, phase <- Phase

\* The archive and the list that a run works from (htscore.c, "restoring
\* previous one!"; hts_cache_reconcile) are replaced both or neither by the
\* runs that no kill and no failed call disturbs.
PreviousKept == Previous!Spec

=============================================================================
