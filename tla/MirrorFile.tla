------------------------------ MODULE MirrorFile ------------------------------
(***************************************************************************)
(* One file of the mirror that is not HTML and is sent without a content   *)
(* coding, across successive runs of HTTrack: what back_add() asks for     *)
(* (a plain, conditional or Range request), what back_wait() makes of the  *)
(* answer, the backup of the previous copy, the direct-to-disk body,       *)
(* back_finalize(), the slot's end and the verdict of                      *)
(* hts_mirror_check_moved() (retry, restart, give up), with the error page *)
(* that is saved in the file's name.                                       *)
(*                                                                         *)
(* One action per file system call, so that Kill may strike between any    *)
(* two of them.  The site may change at any time.  Its server honours the  *)
(* conditions of a request and frames its bodies (Content-Length or        *)
(* chunks); it may ignore a Range, send back an earlier or an unusable     *)
(* one, and answer 304 to a Range request.                                 *)
(***************************************************************************)
EXTENDS Naturals

CONSTANTS
    MaxVersion, \* bound: number of versions of the resource on the site
    Size,       \* the length of the body of each version
    Retries,    \* opt->retry
    PageSizes,  \* the lengths of the server's error pages
    MaxRun,     \* bound: number of times the program is started
    MaxTrouble  \* bound: number of kills and of file system calls that fail

Versions == 1..MaxVersion
Page == MaxVersion + 1  \* not a version: the bytes of an error page

ASSUME BoundsAssumption ==
    /\ MaxVersion \in Nat /\ Retries \in Nat
    /\ MaxRun \in Nat /\ MaxTrouble \in Nat
    /\ Size \in [Versions -> Nat \ {0}] /\ PageSizes \subseteq Nat

VARIABLES
    site,       \* the version the server sends now, 0 before the first
    sav,        \* the mirrored file, url_sav
    bak,        \* ~hts-tmp/*.bak, the backup of the copy being re-fetched
    ref,        \* the version hts-cache/ref describes, 0 if there is no ref
    cached,     \* the link's entry in the generation this run loaded
    entry,      \* the link's entry in the generation this run writes
    pc,         \* the next step of the program for the link, or "down"
    run,        \* number of the current run
    flags,      \* see Flags
    retry,      \* heap(ptr)->retry
    req,        \* the request sent
    resp,       \* the version the slot's response r describes, 0 if none
    tmp,        \* back->tmpfile
    code,       \* r.statuscode
    troubles,   \* the kills and the failed calls so far
    \* history, never read by an action's guard:
    found,      \* what the run found of the file, see Found
    marks       \* see Marks

files == <<sav, bak, ref>>
link == <<run, retry, found>>
slot == <<req, resp, tmp, code>>
vars == <<site, sav, bak, ref, cached, entry, pc, run, flags, retry, req, resp,
          tmp, code, troubles, found, marks>>

Flags == {"update",     \* cache->type is 2 (--update), not 1 (--continue)
          "stopped",    \* state.stop
          "noted",      \* new.lst names the file
          "isWrite",    \* r.is_write
          "isFile",     \* r.is_file
          "wholeNext",  \* r.refetch_wholefile
          "latched",    \* heap(ptr)->refetch_whole
          "leftPartial"}\* opt->abort_left_partial

Marks == {"faulty",     \* a file system call of this run failed
          "stray",      \* a kill fell between a restore and the ref's removal
          "misdated",   \* a resume relied on the date of another version
          "pageResumed",\* a resume took an error page for the partial
          "lookalike"}  \* a file passed for the entry's by its length

OfRun == {"faulty", "lookalike"}                \* marks that end with the run
Slotted == {"isWrite", "isFile", "wholeNext"}   \* flags that die with the slot

-----------------------------------------------------------------------------
(* Files, entries and requests.  A file is known by the version its bytes   *)
(* come from (Page for an error page, 0 for none or for bytes of more than  *)
(* one), its length and its date, which is that of the version that was     *)
(* current, or that Last-Modified named, when it was set.                   *)

File == [there : {"yes", "no"}, ver : 0..Page, size : Nat,
         time : 0..MaxVersion]
NoFile == [there |-> "no", ver |-> 0, size |-> 0, time |-> 0]
Empty(t) == [there |-> "yes", ver |-> 0, size |-> 0, time |-> t]
PageOf(n) == [there |-> "yes", ver |-> Page, size |-> n, time |-> site]

Exists(f) == f.there = "yes"                        \* fexist_utf8()
Whole(f) == Exists(f) /\ f.ver \in Versions /\ f.size = Size[f.ver]

\* One more byte of version v, written at date t.
Grown(f, v, t) ==
    [there |-> "yes", size |-> f.size + 1, time |-> t,
     ver |-> IF f.size = 0 \/ f.ver = v THEN v ELSE 0]

\* The file cut at the first n bytes.
Cut(f, n, t) ==
    [f EXCEPT !.size = n, !.time = t, !.ver = IF n = 0 THEN 0 ELSE @]

\* What an answer was entered as, or "kept", for a copy a failed transfer left.
EntryStates == {"none", "ok", "error", "retryable", "stale", "kept"}
Entry == [state : EntryStates, ver : 0..MaxVersion]
NoEntry == [state |-> "none", ver |-> 0]

\* accepts: the versions for which the request's condition holds.
Request == [kind : {"none", "plain", "cond", "range"}, size : Nat,
            accepts : SUBSET (0..MaxVersion)]
NoRequest == [kind |-> "none", size |-> 0, accepts |-> {}]
Plain == [NoRequest EXCEPT !.kind = "plain"]

Codes == {"none", "ok", "notmod", "error", "retryable", "stale", "failed",
          "short", "badchunk", "nonfatal", "invalid", "toobig", "nocreate"}

TypeOK ==
    /\ site \in 0..MaxVersion
    /\ sav \in File /\ bak \in File /\ ref \in 0..MaxVersion
    /\ cached \in Entry /\ entry \in Entry
    /\ pc \in {"down", "queued", "asked", "notmod", "backup", "create",
               "truncate", "writeRef", "body", "commit", "unref", "store",
               "dropRef", "dropSav", "restore", "unrefOld", "survivor",
               "flush", "verdict", "staleSav", "staleRef", "page", "done"}
    /\ run \in 0..MaxRun
    /\ flags \in SUBSET Flags
    /\ retry \in Nat
    /\ req \in Request /\ resp \in 0..MaxVersion
    /\ tmp \in {"none", "bak"} /\ code \in Codes
    /\ troubles \in 0..MaxTrouble
    /\ found \in {"nothing", "copy", "vouched"}
    /\ marks \in SUBSET Marks

Init ==
    /\ site = 0
    /\ sav = NoFile /\ bak = NoFile /\ ref = 0
    /\ cached = NoEntry /\ entry = NoEntry
    /\ pc = "down" /\ run = 0 /\ flags = {}
    /\ retry = 0
    /\ req = NoRequest /\ resp = 0 /\ tmp = "none" /\ code = "none"
    /\ troubles = 0
    /\ found = "nothing"
    /\ marks = {}

-----------------------------------------------------------------------------
(* The site, the user and the file system.                                  *)

Change ==
    /\ site < MaxVersion
    /\ site' = site + 1
    /\ UNCHANGED <<files, cached, entry, pc, link, flags, slot, troubles,
                   marks>>

Stop ==
    /\ pc \notin {"down", "done"} /\ "stopped" \notin flags
    /\ flags' = flags \cup {"stopped"}
    /\ UNCHANGED <<files, cached, entry, pc, link, slot, site, troubles, marks>>

Fault ==
    /\ troubles < MaxTrouble
    /\ troubles' = troubles + 1
    /\ marks' = marks \cup {"faulty"}

NoFault == UNCHANGED <<troubles, marks>>

\* A whole copy, with an entry in the cache that does not call it a partial to be
\* dropped (412, 416).  It is vouched for when the entry will answer for it, or
\* have the server asked about it; with any other entry the whole file is asked
\* for, without a condition.
Found(mode) ==
    CASE ~Whole(sav) \/ cached.state \in {"none", "stale"} -> "nothing"
      [] /\ Whole(sav) /\ cached.state = "ok"
         /\ mode = {"update"} \/ sav.size = Size[cached.ver] -> "vouched"
      [] OTHER -> "copy"

\* The program is started, in either cache mode, and reaches the link.
Start ==
    /\ pc = "down" /\ run < MaxRun /\ site > 0
    /\ pc' = "queued"
    /\ run' = run + 1
    /\ \E mode \in {{}, {"update"}} : flags' = mode /\ found' = Found(mode)
    /\ retry' = Retries
    /\ entry' = NoEntry
    /\ UNCHANGED <<files, cached, slot, site, troubles, marks>>

-----------------------------------------------------------------------------
(* back_add(): what to ask the server for.                                  *)

\* An entry whose body is on disk is none when the file is missing or empty.
InCache == /\ cached.state # "none"
           /\ cached.state \in {"ok", "kept"} => sav.size > 0

\* cache_read() or cache_readex_new() of an entry whose body is on disk.
ReadsFromDisk ==
    cached.state = "ok" /\ Exists(sav) /\ sav.size = Size[cached.ver]

TakenForEntry ==
    marks' = IF sav.ver # cached.ver THEN marks \cup {"lookalike"} ELSE marks

\* cache_is_prioritary: the cache answers, if what it names is on disk.
AnswersFromCache == /\ "update" \notin flags \/ "stopped" \in flags
                    /\ \/ ReadsFromDisk
                       \/ cached.state \in {"error", "retryable", "stale"}

\* An answered request: the slot is READY, its response describes version v.
Ready(v, c, step) ==
    /\ pc' = step
    /\ resp' = v
    /\ code' = c

\* Mutant: the resumed request carries no condition.
RangeUnconditioned(f) ==
    [kind |-> "range", size |-> f.size, accepts |-> Versions]

\* Range, with If-Match on what the ref says or with If-Unmodified-Since on the
\* date of the file.
RangeRequest(f) ==
    [kind |-> "range", size |-> f.size,
     accepts |-> IF ref # 0 THEN {ref} ELSE {v \in Versions : v <= f.time}]

\* A copy the cache names is asked about by an update; by a --continue that found
\* it of another length, the whole file is asked for.
ChosenRequest ==
    CASE cached.state = "ok" /\ InCache /\ "update" \in flags ->
             [kind |-> "cond", size |-> 0, accepts |-> {cached.ver}]
      [] ~InCache /\ "latched" \notin flags /\ sav.size > 0 -> RangeRequest(sav)
      [] OTHER -> Plain

\* The link is answered from the cache, without a request.
AddFromCache ==
    /\ pc = "queued" /\ AnswersFromCache
    /\ Ready(cached.ver, cached.state, "commit")
    /\ IF cached.state = "ok"
         THEN flags' = flags \cup {"noted", "isWrite"} /\ TakenForEntry
         ELSE UNCHANGED <<flags, marks>>
    /\ ref' = IF "latched" \in flags THEN 0 ELSE ref
    /\ req' = NoRequest
    /\ UNCHANGED <<sav, bak, cached, entry, link, tmp, site, troubles>>

\* state.stop: "mirror stopped by user", found before the cache is looked up when
\* the run loaded no cache, after it otherwise.
AddStopped ==
    /\ pc = "queued" /\ "stopped" \in flags /\ ~AnswersFromCache
    /\ Ready(0, "invalid", "restore")
    /\ ref' \in IF "latched" \in flags THEN {0}
               ELSE IF ~InCache /\ sav.size = 0 THEN {0, ref} ELSE {ref}
    /\ req' = NoRequest
    /\ UNCHANGED <<sav, bak, cached, entry, flags, link, tmp, site, troubles,
                   marks>>

\* What a resume takes its partial for.
Mistaken == CASE sav.ver = Page -> {"pageResumed"}
              [] sav.ver # Page /\ ref = 0 /\ sav.time # sav.ver -> {"misdated"}
              [] OTHER -> {}

\* The request is sent.  A ref whose file is missing or empty is removed, and
\* so is any ref when the whole file is asked for again.
AddRequest ==
    /\ pc = "queued" /\ "stopped" \notin flags /\ ~AnswersFromCache
    /\ req' = ChosenRequest
    /\ ref' = IF \/ "latched" \in flags
                 \/ ~InCache /\ sav.size = 0 THEN 0 ELSE ref
    /\ Ready(0, "none", "asked")
    /\ marks' = IF ChosenRequest.kind = "range" THEN marks \cup Mistaken
                                                ELSE marks
    /\ UNCHANGED <<sav, bak, cached, entry, flags, link, tmp, site, troubles>>

-----------------------------------------------------------------------------
(* back_wait(), once the headers are in.                                    *)

Conditional == req.kind = "cond"
Ranged == req.kind = "range"
Accepts == site \in req.accepts
SlotKept ==
    UNCHANGED <<files, cached, entry, link, req, tmp, site, troubles, marks>>

\* No connection, no answer, a timeout before the headers; or a length over
\* the limit.
NoAnswer ==
    /\ pc = "asked"
    /\ \E c \in {"failed", "toobig"} : Ready(0, c, "restore")
    /\ flags' = flags
    /\ SlotKept

\* 304 to a conditional request.
Answer304 ==
    /\ pc = "asked" /\ Conditional /\ Accepts
    /\ Ready(0, "notmod", "notmod")
    /\ flags' = flags
    /\ SlotKept

\* 304 to a Range request, or a 206 whose range cannot be used: the partial
\* goes and the retry will ask for the whole file.
AnswerUnusable ==
    /\ pc = "asked" /\ Ranged /\ Accepts
    /\ Ready(0, "nonfatal", "dropRef")
    /\ flags' = flags \cup {"wholeNext"}
    /\ SlotKept

\* Mutant: an update no longer takes an error for a 304.
ErrorUnmasked(c) ==
    /\ pc = "asked" /\ c \in {"error", "retryable"}
    /\ Ready(0, c, "commit")
    /\ flags' = flags
    /\ SlotKept

\* 404, 500, 503...: an update keeps the copy it has and takes the answer for
\* a 304.
AnswerError(c) ==
    /\ pc = "asked" /\ c \in {"error", "retryable"}
    /\ IF Conditional /\ Exists(sav) THEN Ready(0, "notmod", "notmod")
                                     ELSE Ready(0, c, "commit")
    /\ flags' = flags
    /\ SlotKept

\* 412, or 416: the whole file was already there when the sizes agree.
AnswerStale ==
    /\ pc = "asked" /\ Ranged
    /\ \/ /\ ~Accepts
          /\ Ready(0, "stale", "commit") /\ flags' = flags
       \/ /\ Accepts /\ req.size > Size[site]
          /\ Ready(0, "stale", "commit") /\ flags' = flags
       \/ /\ Accepts /\ req.size = Size[site]
          /\ Ready(0, "notmod", "notmod") /\ flags' = flags \cup {"noted"}
    /\ SlotKept

\* 206 from an offset no later than the one asked for.
Answer206 ==
    /\ pc = "asked" /\ Ranged /\ Accepts /\ req.size < Size[site]
    /\ \E start \in 0..req.size :
          /\ req' = [req EXCEPT !.size = start]
          /\ Ready(site, "ok", "truncate")
          /\ flags' = flags \cup {"noted"}
    /\ UNCHANGED <<files, cached, entry, link, tmp, site, troubles, marks>>

\* 200: the whole body follows.
Answer200 ==
    /\ pc = "asked" /\ (Ranged => Accepts)
    /\ Ready(site, "ok", "backup")
    /\ flags' = flags
    /\ SlotKept

\* HTTP_NOT_MODIFIED: the entry of the cache stands for the answer; without a
\* usable one the file on disk does, and is not entered in the cache.
NotModified ==
    /\ pc = "notmod"
    /\ \/ /\ ReadsFromDisk
          /\ Ready(cached.ver, "ok", "commit")
          /\ flags' = flags \cup {"noted", "isWrite"}
          /\ TakenForEntry
       \/ /\ ~ReadsFromDisk /\ Exists(sav)
          /\ Ready(0, "ok", "commit")
          /\ flags' = flags \cup {"isFile"} /\ marks' = marks
       \/ /\ ~Exists(sav)
          /\ Ready(0, "invalid", "restore")
          /\ UNCHANGED <<flags, marks>>
    /\ UNCHANGED <<files, cached, entry, link, req, tmp, site, troubles>>

-----------------------------------------------------------------------------
(* The body, written to url_sav as it comes.                                *)

Step(next) == pc' = next
KeepSlot == UNCHANGED <<req, resp, code>>
KeepRest == UNCHANGED <<cached, entry, link, site>>

\* back_refetch_backup(): a backup left by a killed run is replaced.
Backup ==
    /\ pc = "backup"
    /\ Step("create")
    /\ \/ /\ Exists(sav)
          /\ bak' = sav /\ sav' = NoFile /\ tmp' = "bak"
          /\ NoFault
       \/ /\ Exists(sav) /\ Fault
          /\ tmp' = "none" /\ UNCHANGED <<sav, bak>>
       \/ /\ ~Exists(sav)
          /\ tmp' = "none" /\ UNCHANGED <<sav, bak>> /\ NoFault
    /\ UNCHANGED <<ref, flags>> /\ KeepSlot /\ KeepRest

\* filecreate(): when it fails the slot is READY with nothing received.
Create ==
    /\ pc = "create"
    /\ \/ /\ sav' = Empty(site)
          /\ flags' = flags \cup {"noted", "isWrite"}
          /\ Step("writeRef") /\ code' = code
          /\ NoFault
       \/ /\ Fault
          /\ flags' = flags \cup {"noted"}
          /\ Step("restore") /\ code' = "nocreate"
          /\ sav' = sav
    /\ UNCHANGED <<bak, ref, req, resp, tmp>> /\ KeepRest

\* The partial is opened, and cut where the server's bytes start: one that cannot
\* be opened is left, one that cannot be cut is removed.
Truncate ==
    /\ pc = "truncate"
    /\ \/ /\ sav' = Cut(sav, req.size, site)
          /\ flags' = flags \cup {"isWrite"}
          /\ Step("writeRef") /\ code' = code
          /\ NoFault
       \/ /\ Fault
          /\ flags' = flags \cup {"wholeNext"}
          /\ Step("restore") /\ code' = "nonfatal"
          /\ sav' = sav
       \/ /\ Fault
          /\ flags' = flags \cup {"wholeNext", "isWrite"}
          /\ Step("dropRef") /\ code' = "nonfatal"
          /\ sav' = sav
    /\ UNCHANGED <<bak, ref, req, resp, tmp>> /\ KeepRest

\* back_serialize_ref().
WriteRef ==
    /\ pc = "writeRef"
    /\ ref' = resp
    /\ Step("body")
    /\ UNCHANGED <<sav, bak, flags, tmp, troubles, marks>>
    /\ KeepSlot /\ KeepRest

Receive ==
    /\ pc = "body" /\ sav.size < Size[resp]
    /\ sav' = Grown(sav, resp, site)
    /\ Step("body")
    /\ UNCHANGED <<bak, ref, flags, tmp, troubles, marks>>
    /\ KeepSlot /\ KeepRest

\* The body ends whole, or short of its length or of its last chunk; or a chunk
\* cannot be read.
BodyEnds ==
    /\ pc = "body"
    /\ \/ sav.size = Size[resp] /\ Step("commit") /\ code' = code
       \/ Step("restore") /\ code' \in {"short", "badchunk"}
    /\ UNCHANGED <<files, flags, req, resp, tmp, troubles, marks>> /\ KeepRest

\* A socket error or a timeout; a write error; a chunk that takes the body over
\* the size limit, which removes a file no backup replaces.
BodyFails ==
    /\ pc = "body"
    /\ \/ Step("restore") /\ code' = "failed" /\ NoFault
       \/ Step("restore") /\ code' = "invalid" /\ Fault
       \/ /\ sav.size < Size[resp]
          /\ Step(IF tmp = "none" THEN "dropRef" ELSE "restore")
          /\ code' = "toobig" /\ NoFault
    /\ UNCHANGED <<files, flags, req, resp, tmp>> /\ KeepRest

\* back_abort_slot() on the slots of a stopped mirror.
AbortStopped ==
    /\ pc \in {"asked", "body"} /\ "stopped" \in flags
    /\ flags' = IF "isWrite" \in flags THEN flags \cup {"leftPartial"} ELSE flags
    /\ Step("restore") /\ code' = "invalid"
    /\ UNCHANGED <<files, req, resp, tmp, troubles, marks>> /\ KeepRest

\* The unusable partial and its ref are removed.
DropRef ==
    /\ pc = "dropRef"
    /\ ref' = 0
    /\ Step("dropSav")
    /\ UNCHANGED <<sav, bak, flags, tmp, troubles, marks>>
    /\ KeepSlot /\ KeepRest

DropSav ==
    /\ pc = "dropSav"
    /\ sav' = NoFile
    /\ Step("restore")
    /\ UNCHANGED <<bak, ref, flags, tmp, troubles, marks>>
    /\ KeepSlot /\ KeepRest

-----------------------------------------------------------------------------
(* back_finalize(), then back_flush_output() as the slot is freed.          *)

\* back_finalize_backup(HTS_TRUE).
Commit ==
    /\ pc = "commit"
    /\ bak' = IF tmp = "bak" THEN NoFile ELSE bak
    /\ tmp' = "none"
    /\ Step(IF "isWrite" \in flags THEN "unref" ELSE "store")
    /\ UNCHANGED <<sav, ref, flags, troubles, marks>> /\ KeepSlot /\ KeepRest

Unref ==
    /\ pc = "unref"
    /\ ref' = 0
    /\ Step("store")
    /\ UNCHANGED <<sav, bak, flags, tmp, troubles, marks>>
    /\ KeepSlot /\ KeepRest

\* cache_mayadd(): any answer is entered, except a file the cache did not name.
Store ==
    /\ pc = "store"
    /\ entry' = IF "isFile" \in flags THEN entry
                ELSE [state |-> code, ver |-> IF code = "ok" THEN resp ELSE 0]
    /\ Step("flush")
    /\ UNCHANGED <<files, cached, flags, tmp, link, site, troubles, marks>>
    /\ KeepSlot

\* Mutant: the backup is forgotten.
RestoreForgotten ==
    /\ pc = "restore"
    /\ tmp' = "none"
    /\ Step("survivor")
    /\ NoFault
    /\ UNCHANGED <<files, flags>> /\ KeepSlot /\ KeepRest

\* Mutant: the ref outlives the partial it describes.
RestoreKeepsRef ==
    /\ pc = "restore"
    /\ IF tmp = "bak" THEN sav' = bak /\ bak' = NoFile
                      ELSE UNCHANGED <<sav, bak>>
    /\ tmp' = "none"
    /\ Step("survivor")
    /\ NoFault
    /\ UNCHANGED <<ref, flags>> /\ KeepSlot /\ KeepRest

\* back_finalize_backup(HTS_FALSE).
Restore ==
    /\ pc = "restore"
    /\ tmp' = "none"
    /\ \/ /\ tmp = "bak"
          /\ sav' = bak /\ bak' = NoFile
          /\ Step("unrefOld") /\ NoFault
       \/ /\ tmp = "bak" /\ Fault
          /\ Step("survivor") /\ UNCHANGED <<sav, bak>>
       \/ /\ tmp = "none"
          /\ Step("survivor") /\ UNCHANGED <<sav, bak>> /\ NoFault
    /\ UNCHANGED <<ref, flags>> /\ KeepSlot /\ KeepRest

UnrefOld ==
    /\ pc = "unrefOld"
    /\ ref' = 0
    /\ Step("survivor")
    /\ UNCHANGED <<sav, bak, flags, tmp, troubles, marks>>
    /\ KeepSlot /\ KeepRest

\* back_transfer_failed(), of a slot that was not cut short.
TransferFailed == code \in {"failed", "nonfatal", "invalid"}

\* Mutant: the copy a failed transfer left in place is not noted.
SurvivorUnnoted ==
    /\ pc = "survivor"
    /\ flags' = flags
    /\ entry' = IF Exists(sav) /\ TransferFailed /\ cached.state # "none"
                  THEN [state |-> "kept", ver |-> 0] ELSE entry
    /\ Step("flush")
    /\ UNCHANGED <<files, cached, tmp, link, site, troubles, marks>> /\ KeepSlot

\* filenote() and cache_keep_previous(); a body cut short has only the first.
Survivor ==
    /\ pc = "survivor"
    /\ flags' = IF Exists(sav) /\ code # "toobig" THEN flags \cup {"noted"}
                                                 ELSE flags
    /\ entry' = IF Exists(sav) /\ TransferFailed /\ cached.state # "none"
                  THEN [state |-> "kept", ver |-> 0] ELSE entry
    /\ Step("flush")
    /\ UNCHANGED <<files, cached, tmp, link, site, troubles, marks>> /\ KeepSlot

\* set_filetime_rfc822(): the file takes the response's Last-Modified.
Flush ==
    /\ pc = "flush"
    /\ sav' = IF "isWrite" \in flags /\ Exists(sav)
                THEN [sav EXCEPT !.time = resp] ELSE sav
    /\ Step("verdict")
    /\ UNCHANGED <<bak, ref, flags, tmp, troubles, marks>>
    /\ KeepSlot /\ KeepRest

-----------------------------------------------------------------------------
(* hts_mirror_check_moved(): retry, restart or give up.                     *)

CanRetry == code \in {"failed", "short", "nonfatal", "retryable"}
RestartWhole == "wholeNext" \in flags /\ "latched" \notin flags

\* The link is recorded again, with the budget and the latch given.
Requeue(budget, latch) ==
    /\ pc' = "queued"
    /\ retry' = budget
    /\ flags' = (flags \ (Slotted \cup {"latched"})) \cup latch
    /\ req' = NoRequest /\ resp' = 0 /\ code' = "none" /\ tmp' = "none"
    /\ UNCHANGED <<files, cached, entry, run, found, site, troubles, marks>>

NextLatch == IF "wholeNext" \in flags THEN {"latched"} ELSE {}

\* Mutant: a retry does not spend the budget.
RetryForFree ==
    /\ pc = "verdict" /\ CanRetry /\ ~RestartWhole /\ retry > 0
    /\ Requeue(retry, NextLatch)

Retry ==
    /\ pc = "verdict" /\ CanRetry /\ ~RestartWhole /\ retry > 0
    /\ Requeue(retry - 1, NextLatch)

Restart ==
    /\ pc = "verdict" /\ RestartWhole
    /\ Requeue(retry, NextLatch)

\* 412 or 416: the partial and its ref go, and the link is recorded again.
DropStale ==
    /\ pc = "verdict" /\ code = "stale"
    /\ pc' = IF ref # 0 \/ Exists(sav) THEN "staleSav" ELSE "done"
    /\ UNCHANGED <<files, cached, entry, link, slot, flags, site, troubles, marks>>

StaleSav ==
    /\ pc = "staleSav"
    /\ sav' = NoFile
    /\ Step("staleRef")
    /\ UNCHANGED <<bak, ref, flags, tmp, troubles, marks>>
    /\ KeepSlot /\ KeepRest

StaleRef ==
    /\ pc = "staleRef"
    /\ ref' = 0
    /\ pc' = "queued"
    /\ flags' = flags \ Slotted
    /\ req' = NoRequest /\ resp' = 0 /\ code' = "none" /\ tmp' = "none"
    /\ UNCHANGED <<sav, bak, troubles, marks>> /\ KeepRest

\* The link is given up, or was mirrored.
Settles == /\ pc = "verdict" /\ ~RestartWhole
           /\ \/ code \in {"ok", "error", "badchunk", "invalid", "toobig"}
              \/ CanRetry /\ retry = 0

\* The file is left as it is: always when nothing was answered or the body is
\* written; on an error, without -o or for a link the user gave.
Settle ==
    /\ Settles
    /\ pc' = "done"
    /\ UNCHANGED <<files, cached, entry, link, slot, flags, site, troubles, marks>>

\* store_errpage: the error page of an answer given up on is saved in the name of
\* the file, whatever is there.  filesave() notes, creates and writes.
SavePage ==
    /\ Settles /\ code \in {"error", "retryable"}
    /\ flags' = flags \cup {"noted"}
    /\ \/ sav' = PageOf(0) /\ Step("page") /\ NoFault
       \/ sav' = sav /\ Step("done") /\ Fault
    /\ UNCHANGED <<bak, ref, tmp>> /\ KeepSlot /\ KeepRest

WritePage ==
    /\ pc = "page"
    /\ Step("done")
    /\ \/ \E n \in PageSizes : sav' = PageOf(n) /\ NoFault
       \/ sav' = sav /\ Fault
    /\ UNCHANGED <<bak, ref, flags, tmp>> /\ KeepSlot /\ KeepRest

\* A 200 whose file could not be created still reads 200: an empty body is
\* saved in its name (filesave()).
SettleUncreated ==
    /\ pc = "verdict" /\ code = "nocreate"
    /\ pc' = "done"
    /\ \/ sav' = Empty(site) /\ NoFault
       \/ Fault /\ sav' = sav
    /\ flags' = flags \cup {"noted"}
    /\ UNCHANGED <<bak, ref, tmp>> /\ KeepSlot /\ KeepRest

-----------------------------------------------------------------------------
(* The end of a run.                                                        *)

Down ==
    /\ pc' = "down" /\ flags' = {}
    /\ entry' = NoEntry
    /\ retry' = 0
    /\ found' = "nothing"
    /\ req' = NoRequest /\ resp' = 0 /\ tmp' = "none" /\ code' = "none"
    /\ UNCHANGED <<site, sav, bak, run>>

\* The run ends: hts-cache/ref is emptied unless a partial was left for it, or a
\* failed write was fatal (exit_xh).
\* The generation the next run loads is this one, or the previous one when
\* this run saved nothing or did not complete (module CacheGenerations).
EndRun ==
    /\ pc = "done"
    /\ Down
    /\ ref' \in IF "leftPartial" \in flags THEN {ref}
               ELSE IF "faulty" \in marks THEN {0, ref} ELSE {0}
    /\ \/ cached' = entry
       \/ /\ entry.state # "ok" \/ "stopped" \in flags
          /\ cached' = cached
    /\ marks' = marks \ OfRun
    /\ UNCHANGED troubles

\* The program is killed; the next start loads either generation.
Kill ==
    /\ pc # "down" /\ troubles < MaxTrouble
    /\ troubles' = troubles + 1
    /\ Down
    /\ cached' \in {cached, entry}
    /\ marks' = (marks \ OfRun)
                  \cup (IF pc = "unrefOld" THEN {"stray"} ELSE {})
    /\ UNCHANGED ref

Adding == AddFromCache \/ AddStopped \/ AddRequest

Answering == \/ NoAnswer \/ Answer304 \/ AnswerUnusable \/ AnswerStale
             \/ \E c \in Codes : AnswerError(c)
             \/ Answer206 \/ Answer200 \/ NotModified

Transfer == \/ Backup \/ Create \/ Truncate \/ WriteRef \/ Receive \/ BodyEnds
            \/ BodyFails \/ AbortStopped \/ DropRef \/ DropSav

Finalize == \/ Commit \/ Unref \/ Store \/ Restore \/ UnrefOld \/ Survivor
            \/ Flush

Verdict == \/ Retry \/ Restart \/ DropStale \/ StaleSav \/ StaleRef
           \/ Settle \/ SavePage \/ WritePage \/ SettleUncreated

\* The steps of the program, in which its timeouts answer for the network.
Work == Adding \/ Answering \/ Transfer \/ Finalize \/ Verdict

Finished ==
    /\ pc = "down" /\ run = MaxRun /\ site = MaxVersion
    /\ UNCHANGED vars

Next == Change \/ Stop \/ Start \/ Work \/ EndRun \/ Kill \/ Finished

Spec == Init /\ [][Next]_vars /\ WF_vars(Work)

-----------------------------------------------------------------------------
(* Properties.                                                              *)

\* The error page of a link given up on took the place of the copy.
PageOver == sav.ver = Page /\ found # "vouched"

\* At no instant of a re-fetch (back_refetch_backup, back_finalize_backup) is
\* the disk without a whole copy, in place or as the backup, of a file the run
\* found whole: whatever a kill interrupts, the bytes are still there.  Only an
\* error page is ever put over them, and never over a copy the cache vouches for.
CopyAlwaysOnDisk ==
    found # "nothing" /\ "faulty" \notin marks =>
        Whole(sav) \/ Whole(bak) \/ PageOver

\* A re-fetch that came to nothing (#77, #562, #746) leaves in place, when the
\* link is settled, a whole copy of a file the run found whole: unless an error
\* page was saved over a copy the cache did not vouch for.
CopyBackInPlace ==
    pc = "done" /\ found # "nothing" /\ "faulty" \notin marks =>
        Whole(sav) \/ PageOver

\* The link is settled without an answer or with a good one, and has a file.
Survives == /\ pc = "done" /\ Exists(sav)
            /\ code \in {"ok", "failed", "short", "badchunk", "nonfatal",
                        "invalid"}

\* The file that survives so is in new.lst, or --purge-old would delete it
\* (#562, #746): unless it stands for an answer the cache could not give.
SurvivorNoted == Survives /\ "isFile" \notin flags => "noted" \in flags

\* What the run enters in the cache as mirrored is on disk, whole and of one
\* version.
EnteredWhole == pc = "done" /\ entry.state = "ok" => Whole(sav)

\* The same unless a file was mistaken for another: by its date, when a resume
\* has no ref; by a ref a kill left behind; an error page for the partial it was
\* saved over; by its length, when the cache answers.  Nothing else makes the
\* cache name bytes that are not there: no other kill, no failed call, no answer.
EnteredWholeUnlessMistaken ==
    marks \subseteq {"faulty"} => EnteredWhole

\* The ref a run may resume from describes the bytes on disk (#1595), but for the
\* mistakes above and for an error page saved over the partial it was written for.
RefDescribesPartial ==
    ref # 0 /\ sav.size > 0 /\ pc # "unrefOld" =>
        \/ marks \cap {"stray", "misdated", "pageResumed"} # {}
        \/ sav.ver \in {ref, Page}

\* A link that is queued is settled, whatever the server answers and however
\* often it refuses to resume (#206, #581): or the program is killed.
LinkSettles == (pc = "queued") ~> (pc \in {"done", "down"})

=============================================================================
