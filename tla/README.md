# A verification project for HTTrack

TLA+ specifications of the parts of HTTrack (`src/src/*.c`) whose correctness
depends on the order of things: what is on disk when the program is killed, what
a re-fetch leaves behind when it fails, which transfer belongs to which link, who
owns a slot shared with a thread, and what the program tells of a mirror that was
cut short. TLC checks each one on a small instance; TLAPS proves the main safety
properties of eight of them for every value of their constants.

Contents: 1 the system, 2 the modules, 3 the runs, 4 fairness, 5 the proofs,
6 disagreements between the code and what it says, 7 met while modelling,
8 what is left out, 9 the plan.

## 1. The system

HTTrack mirrors a web site: from a first page it follows links, saves each
answer under a local name and rewrites the links between the saved pages. A later
run *updates* a mirror or *continues* an interrupted one with the help of a cache
of the previous run's answers. The program is one thread that pumps its sockets
(`back_wait()`); FTP transfers and DNS look-ups have threads of their own.

| component | state | operations | modelled by |
|---|---|---|---|
| cache generations (`htscache.c`, `htscore.c`, `htscoremain.c`) | `hts-cache/new.zip`, `old.zip`, `new.lst`, `old.lst`, `hts-in_progress.lock` | startup reconcile, `cache_init()` (repair, rotation, load), `cache_add()`, `filenote()`, end-of-mirror verdict, `--purge-old`, `zipClose()`, final reconcile | `CacheGenerations`, promise in `PreviousMirror` |
| one file of the mirror (`htsback.c`, `htsparse.c`) | the file, its backup in `hts-tmp`, `hts-cache/ref`, its cache entry, the slot's request and answer, the link's retries and latch | `back_add()`, the answers in `back_wait()`, `back_refetch_backup()`, direct-to-disk body, `back_finalize()`, `back_transfer_failed()`, `hts_mirror_check_moved()`, the error page saved over the file | `MirrorFile` |
| link heap, prefetch, waits, transfer slots (`htscore.c`, `htsparse.c`, `htsback.c`, `htshash.c`) | `opt->liens` and its hashes, `ptr` and the pass, the prefetch cursor, `sback->lnk`, `sback->ready` and its spool files, the locks of slots | `hts_record_link()`, `back_fill()`, `hts_mirror_wait_for_next_file()`, `hts_wait_delayed()`, `back_clean()`, `back_cleanup_background()`, `back_index_ready()` | `LinkQueue` |
| limits, stop, grace, Retry-After (`htsback.c`, `htscore.c`, `httrack.c`) | `state.stop`, `state.exit_xh`, the caps and their grace, `retry_after_until`, the fault flag, the verdict and exit status | `hts_request_stop()`, `back_checkmirror()`, `back_abort_stopped()`, `back_abort_limit()`, `back_set_retry_after()`, `sig_finish()`, `sig_leave()`, `back_delete_all()` | `StopAndLimits` |
| FTP workers (`htsftp.c`, `htsthread.c`) | a slot lent to a thread, the list of live workers, the stop flag of each slot | `launch_ftp()`, `run_launch_ftp()`, `ftp_worker_release()`, `ftp_stop_workers()`, reaping, cancel, teardown | `FtpWorkers`, promise in `SlotOwner` |
| DNS cache and resolver threads (`htslib.c`) | the cache's records, a job with its reference count | `hts_dns_resolve_all_bounded()`, `dns_resolve_thread()`, `dns_job_release()` | `DnsResolver` |
| connection set-up (`htsback.c`, `htslib.c`) | the slot's socket, candidate address, timers, TLS state | `back_add()`'s open, `back_connect_next()`, the fallback, the handshake, the timeouts | `ConnectionSetup` over `DnsResolver` |
| body framing and codings (`htsback.c`, `htscodec.c`) | the chunk decoder, the spool files, the backup | chunk states of `back_wait()`, unpacking in `back_finalize()` | `CodedBody` |
| cookies (`htsbauth.c`, `htslib.c`) | the cookies file, its `.bak` and temporary; the jar | load, `cookie_save_to()` and its steps, `cookie_add()`, `cookie_make_room()`, matching | `CookieFile`, `CookieJar` |
| rules (`htsrobots.c`, `htsfilters.c`, `htswizard.c`, `htsparse.c`) | the robots table, the parser's flags; filters | `robots_parse()`, `checkrobots()`, the claim of robots.txt; `strjoker()`, `fa_strjoker_dual()` | `Robots`, `Filters`, `LinkRules` |
| local names (`htsname.c`) | names taken, delayed extensions | `url_savename()` | a constant function in `LinkQueue` |
| HTML parser, libraries, front ends, WARC, reports, ProxyTrack, vendored zip | text, tables, logs | | no: see 8 |

How they interact. `httpmirror()` takes the links of the heap in turn and waits for
each one's slot; while it waits, or parses a page, the prefetch launches later
links, and `back_clean()` saves finished files in background or swaps other
finished transfers to disk (`LinkQueue`). Before a slot asks anything it resolves
and connects (`ConnectionSetup`, which calls `DnsResolver`), or is lent to an FTP
thread (`FtpWorkers`). It then receives its body (`CodedBody`) and finalizes one
file of the mirror (`MirrorFile`), which enters the answer in the cache and notes
the file in `new.lst`; `CacheGenerations` is what happens to that cache and those
lists between the start of a run and the next one. Rules decide which links enter
the heap (`Robots`, `Filters`), and a stop, a cap or a fault ends it all
(`StopAndLimits`). The modules share interfaces, not state: a link's slot is
"busy, then ready with one of these answers" in `LinkQueue` and `StopAndLimits`,
and what happens in between is the subject of the four modules named above. The
composition that shares state is `ConnectionSetup` with `DnsResolver`.

What is hard. Every file system call may be the last one of a run; a re-fetch
destroys the copy it replaces unless the backup, the ref and the list agree; a
slot's index is kept across pumps that may save, swap or reuse slots; `pass2` is a
number in some places and a truth value in others; one integer (`exit_xh`) holds
the exits of the user and of the engine; two kinds of threads write what the main
loop reads without a lock of its own.

## 2. The modules

`CacheGenerations` has one action per system call that changes a name or a file,
from `Promote` (the reconcile at start) through `SetAsideZip` ... `OpenLst`
(`cache_init()`), `NoteFile`/`AddEntry` (the crawl), `EndOfMirror` (the verdict
`rollback`), `PurgeFile`, `CloseZip`, to `ReconcileAtEnd` and `Unlock`; `Kill` may
strike between any two. An archive is the run that wrote it, the links it has
entries for and whether its central directory was written. `PreviousMirror` is the
promise to the next run: what it works from, an archive with its list, is one thing
that a run replaces or leaves. `MirrorNow`, `MirrorBefore` and `Phase` map one to the
other: with a cache the mirror is the one the run found until the run is over, and the
one before it is forgotten at the rotation; without a cache it is what is on disk.

`MirrorFile` follows one non-HTML file with no content coding through successive
runs. Bytes are known by the version of the resource they come from, and by their
number; a file whose bytes come from two versions has version 0. `ChosenRequest`
is `back_add()`'s choice of a plain, conditional or Range request; each answer is
an action; `Backup`, `Create`, `Truncate`, `WriteRef`, `Receive`, `Commit`,
`Restore`, ... are the file system calls, each of which may fail or be the last.
The bytes of an error page are a version of their own (`Page`): `SavePage` and
`WritePage` put them in the file's name when an answered error is given up on
(`errpage`), and an entry keeps which kind of answer it was, so that a later run may
be answered with it from the cache. `found` says what the run found of the file: a
whole copy, and whether the cache vouches for it, that is, will answer for it or have
the server asked about it.

`LinkQueue` has an action for the code between two pumps. `pc` names the place in
the program: the loop (`Top`, `Advance`), `hts_mirror_wait_for_next_file()`
(`Plug`, `Plugged`, `Want`, `Look`, `Receive`, `Consume`), `back_fill()`
(`FillStart`, `FillAdd`, `FillEnd`, with the step it returns to), the parser
(`Parse...`) and `hts_wait_delayed()` (`SocketWait`, `Type...`, `Named`). A site is
given by constants: the links of its pages, the answers its server may give, the
redirects, and `url_savename()` as a function.

`StopAndLimits` reduces the heap and the slots to what a stop meets on its way, and
has instead everyone who stops a mirror: `CtrlC`, `Sigterm`, the two caps and
their grace, the link cap, the full disk, `FtpFaults`. The five waits of the program are
five values of `pc`, because they do not all read the same flags. `Pumped` is what
`back_wait()` drops, `Verdict`, `Teardown` and `Exit` what the run tells of itself.
Time is a `Tick` that moves timers which saturate where the code compares them.

`FtpWorkers` has one action per step at which a worker or the main loop can be
overtaken: `Lend`, `Register`, `Spawn` (or `SpawnFails`), `Start`, `Transfer`,
`Finish`, `Halt`, `Crash`, `Conclude`, `Publish` (under the lock), `Unlink`; and
`Reap`, `CancelRead`/`CancelAct` (a status read, then acted upon), `StopWorkers`,
`Delete`, with `OtherEngine` for the teardown of a second engine of the process.
`SlotOwner` is the promise: a slot has one owner, who gives it back with a whole
outcome. `Promise == Lent!Spec` is the refinement, checked and, for its safety part,
proved.

`DnsResolver` is the call of a resolver as the main loop and an FTP worker make it;
a job has a count of those who still use it. `ConnectionSetup` extends it with one
slot from `back_add()` to its request: `Dial`, `Probe`, `Fallback`, `DialNext`,
`HandshakeDone`, `TimeOut`.

`CodedBody` gives one response a wire of units (a size line, bytes, line ends, a
trailer, an end), every prefix of it and every one with a spoiled unit, and reads it
with the decoder's two line states and its shared block size; then come `Accept` or
`Refuse`, `Spool`, `Unpack`, `Swap`, `Commit`, `Restore`, each with its failure.

`CookieFile` is the file and its `.bak` as the names on disk, the set of what a power
loss may leave of them (`onDisk`), and a temporary per run; two runs may overlap. A
save is `EnterSave`, `Write`, `Flush`, `Recheck`, `CopyOld`, `FlushCopy`, `MoveBak`,
`Replace`, `SyncDir`. `CookieJar` is one jar as the sequence of its records, each with its size; `SetCookieHeader`
and `LoadRecord` are the two ways in, `MakeRoom` the eviction, one `Round` of its loop
after another over the places still kept, `SentTo` the way out.

`Robots` has the parser as a fold over lines (`OnLine`), `checkrobots()` as the
pattern matcher and the longest match, and the crawl that claims a host's
robots.txt, queues it and judges each new link. `Filters` is the wildcard matcher
with its memo of failed pairs threaded through as in the code (`Search` is the matcher
with so many calls left to nest), and the lists of rules; `Glob` is what `html/filters.html`
says a pattern means, and `OneAtEnd` the case where the matcher goes its own way.
`LinkRules` puts both beside each other, and `MCRobots` gives them paths, lines, names
and patterns.

The MC modules give sets, sites and symmetry; the `...Proofs` modules extend the
specifications with the theorems. `TypeOK` is kept where the proofs use it; there
it is a theorem, not a run's property.

## 3. The runs

| run | result | states | bounds and why they are enough |
|---|---|---|---|
| `cache_generations` | 5 properties hold | 12.0 M | 2 links, 4 starts, 2 kills, 1 failed call. Generations are two deep, so three runs make one be rotated out; a kill, then a kill of the repair, then a good run; the fourth start is what it takes to roll back a run without a cache beside an `old.lst` that a killed run left alone; two links are what "shorter than" needs |
| `mirror_file` | 6 hold | 2.4 M | 2 versions of 2 and 3 bytes (a shorter copy, a partial, an overlap), error pages of 2 (as long as the first version, short of the second, so that a later Range may start behind one), 1 retry, 3 runs, 1 kill or failed call. A partial takes one run, a resume a second, its consequence a third |
| `mirror_splice` | violation | until found | 3 runs, no trouble, error pages of no byte, which nothing resumes |
| `link_queue` | 4 hold | 354 k | 6 URLs, 3 slots, 2 connections, 1 retry, 1 spool file lost, `Spare` 1 |
| `stop_limits` | 5 hold | 80 k | 2 links, 2 sockets, 1 retry, delays under and over the cap of 2, six option sets: no timeout with an untyped link, an update with an FTP link, a timeout with both, a cap on time, a cap on size with a timeout and with none |
| `ftp_hand_over` | 5 hold | 195 k | 2 slots, 3 transfers (so a slot is used again), 1 cancel, crashes |
| `connection` | 4 hold | 1.4 M | 2 addresses, 2 attempts, an FTP worker asking once, 2 jobs, `--timeout` unset, under and over the cap of a candidate |
| `coded_body` | 2 hold | 417 k | up to 3 chunks of 1 or 2 bytes, size limit 4: the smallest with a middle chunk and a body over the limit |
| `cookie_file` | 2 hold | 4.2 M | 2 runs, 3 starts, 1 edit of the user, one cookie, one line a rewrite would lose |
| `cookie_jar` | 2 hold | 17 k | 3 hosts (one under another), 2 cookies and 3 sizes (a cookie may be replaced by a longer one), 2 paths, a jar of 10 units: three or four records, so that each offer may evict |
| `link_rules` | 5 hold | 1.1 M | every robots.txt of 4 lines out of 10, 3 paths and 2 rules kept; every pattern of up to 4 tokens on every name of up to 3 characters |
| `robots_obeyed` | violation | until found | the same, in the mode the option promises |

What the passing runs show:

- `LoadedSurvives`, `FoundOutlives`, `ListsPaired`: the rotation, the repair and the
  three reconciles keep the generation a run reads, restore what a run that mirrored nothing found, do not leave an aborted run's
  shorter cache, and keep each list with its archive, whatever is killed and within
  the conditions each property names (`FoundOutlives`: the cache is on and no
  call of the run failed; `ListsPaired`: no call failed, no kill fell between an
  archive's rename and its list's, and no run without a cache was rolled back on top
  of an `old.lst` without its archive). `FoundOutlives` is both `RollbackRestores` and
  `AbortKeepsFurthest`. `PurgeRespectsLists` is an action property of the purge.
  `PreviousKept`: as long as no run is killed and no call fails, all of it is
  `PreviousMirror`: a completed run replaces archive and list together, a rolled back
  one leaves both, one cut short does one or the other and never for an archive that
  reaches less far; a run without a cache, when rolled back, undoes the run before it,
  and a first run with nothing to come back to leaves its archive without a list.
- `CopyAlwaysOnDisk`, `CopyBackInPlace`, `SurvivorNoted`, `RefDescribesPartial`,
  `EnteredWholeUnlessMistaken`: the transfer's file handling. The last one says
  that only four things make the cache name bytes that are not there: a resume by
  date alone, a ref a kill left behind, a resume of an error page as if it were the
  partial it was saved over, a file of the right length. The first two say that only
  such a page ever takes the place of a copy (`PageOver`), and never of one the cache
  vouches for: an update keeps it and takes the error for a 304. The ref, too, speaks
  of the bytes on disk but where a page was saved over them.
  `LinkSettles`: 412, 416, a useless 206 or a 304 to a Range request cannot keep a
  link queued.
- `HeldSlotKeepsLink`: the index `hts_wait_delayed()` holds across its pumps stays
  its link's, thanks to the locks and the pin. `RequestedOnce`: a URL has one transfer
  at a time (`OneTransfer`); in the normal order of passes no answer is asked for
  twice, and the duplicate `back_cleanup_background()` looks for does not happen. `EveryLinkTaken`: at the
  end, without stop or trouble, each link was handled or saved in background.
  `MirrorEnds`: no wait is for ever.
- `EndTold`: what the run leaves behind tells what happened to it. It is the
  conjunction of `CompleteMeansAll` (a mirror told complete dropped no link and cut
  no body), `FaultTold` (a worker's crash reaches the exit status at whatever step
  it fell) and `TornKeepsRef` (a body cut short keeps its resume data).
  `DelaysHonoured`: no request starts under a running Retry-After, by any of the
  three ways one starts. `GraceHonoured`: a cap cuts no transfer before its grace is
  over, a ^C on top of it included. `StopEnds`, `ExitEnds`: each of the five waits
  ends on a stop, and on an exit, though no peer ever answers and no timeout is set: but
  for a stop within the grace of a size cap (`SizeGraced`), which then waits for a peer.
- `WriterAlone`, `OutcomeWhole`, `StopOnlyLent`, `TeardownEnds`, `Promise`: two threads
  never write one slot, the outcome read is whole, a stop lands on no slot handed
  back, the teardown returns, and all of it is `SlotOwner`.
- `JobCounted`: a resolve's job is freed once, by the last to leave it.
  `AnswersOnly`: a deadline, a stop or a crash blacklists no host.
  `EveryAddressTried`: a link fails for its connection only when every address was
  dialed or one could not be. `ConnectEnds`.
- `WholeOrRefused`: a body that came cut, spoiled or undecodable is never entered as
  the file. `CopyOutlivesFailure`: whatever step fails, the copy found is on disk.
- `JarsWhole`, `LinesKept`: the cookies file and its `.bak` are never cut short, and
  no line owed to the user is lost. Owed are the lines of the file as the user left
  it, or of its `.bak` where the file is missing or empty.
- `WithinShareKept`: a host within its share loses no cookie to a full jar, and one over
  it none beyond the last that was too many. The cookie being set is counted in its host,
  and so is the one it replaces.
  `SecureStaysFirst`: plain http cannot shadow or erase a Secure cookie.
- `GroupsHonoured`, `LongestWins`, `BannedCameBefore`, `RulesBeforePages`: the rules kept
  are those of the groups that are ours; the longest match decides, an Allow at a tie;
  a banned link in the heap was found before the rules were known; a host's pages
  stand behind its robots.txt. `RulesMeant`: the scan rule matcher finds what the
  documentation says a pattern means, a pattern deeper than the cap less but never more,
  and the last rule that matches decides: all but where a `*(..)` is left nothing
  (`OneAtEnd`), where the matcher finds more.

The site of `link_queue` is chosen so that the interesting cases meet: a page that
redirects to a page of the same local name, a file that fails and is retried, a
file whose type needs a redirect to be known, a link of the parsed page that the
prefetch has already launched. In the code there are 1024 slots and more and 8 are
spared; 3 slots make every shortage happen, and 2 would be too few for the one
that is held, the one that is wanted and the one that comes back from disk. Both
values of `HTS_GETMODE_HTML_FIRST` are initial states of the same run.

Counters are capped in guards by constants whose names begin with `Max` (runs,
kills, failed calls, troubles, edits, starts, cancels, jobs, links, lines); timers
saturate and need no bound. When the runs are used up the models stutter
(`Finished`, `Done`), so that deadlock is checked; `cookie_file`, `link_rules` and
`robots_obeyed` do not check it, since a user who starts no other run and a crawl
with nothing left to take really stop.

## 4. Fairness

`MirrorFile`: `WF_vars(Work)`, the steps of the program. A network that does not
answer is answered for by `opt->timeout`, which `back_wait()` applies to every live
slot; stops, kills and changes of the site are not fair.

`LinkQueue`: `WF_vars(Work)`, as the program never sleeps for ever; strong fairness
of `Answered`, the pumps that finish a transfer (the same timeouts), and of
`GoesOn`: at a step of `Waits` the program pumps as often as it likes, but the
parser (every two seconds only) goes on with its page, `url_savename()` pumps a
finite number of times, and a wait for a connection ends once one may be opened.
With `--timeout=0` and a silent server the code waits for ever, and so would these.

`StopAndLimits`: weak fairness of the engine's steps, of the workers' and of the
clock. The peers are under no obligation: what ends a wait is a stop, an exit, a cap
or a timeout of the program. An FTP worker on a silent server needs `--timeout`,
which `StopEnds` says.

`FtpWorkers`: each thread runs, and no wait of a worker outlasts `--timeout`. The
main loop is fair in each of its own steps; it owes the user no cancel.

`ConnectionSetup`: the main loop and the clock are fair. Resolver threads and peers
are not: a resolver may never return, and its caller leaves at the deadline.

## 5. The proofs

All proofs are checked to the last leaf. They assume what the modules assume of
their constants, by name: `BoundsAssumption` (the bounds are natural numbers, sizes are
positive), `FtpAssumption`, `LinesAssumption` (no line is two things), and the like.

| theorem | of | argument |
|---|---|---|
| `TypeCorrect` | cache, file, FTP | inductive as it is, one step per action |
| `LoadedSurvivesHolds` | `LoadedSurvives` | `LoadedPlace`: the loaded generation is `old.zip` until the last promotion, then `new.zip`. The property alone is not inductive: it does not say *which* of the two it is, so a rename might move the wrong one over it |
| `RollbackRestoresHolds` | `RollbackRestores` | `FoundPlace` says at each step where the archive and list the run found are; it rests on `BeforeRotation`: the startup reconcile leaves no `old.zip` without a `new.zip`, and only a run that mirrored nothing rolls back |
| `CopyAlwaysOnDiskHolds`, `CopyBackInPlaceHolds` | those | `CodePlace` (at which steps a response has which status), `Bearings` (when a backup is pending, what the response describes) and `CopyPlace`: a link with an entry is never resumed, so the copy is the backup while a body is received and the file otherwise. `SelfAnswered`: where the cache vouches for the copy, no error is the link's answer, so no page is saved over it |
| `RefDescribesPartialHolds` | `RefDescribesPartial` | `SiteAhead` (versions only grow), `PartialThere`, `PartialPlace`: a conditional resume accepted by the server is of the version of the partial, or of that of the partial a page replaced |
| `EnteredWholeHolds` | `EnteredWholeUnlessMistaken` | `EntryPlace`: an answer about to be entered has a whole file of its version; a resume that took a page for its partial is marked when it is asked for |
| `OneWriter`, `WholeOutcomes`, `StopsOnlyLent` | `WriterAlone`, `OutcomeWhole`, `StopOnlyLent` | `Numbered` (workers launched so far are the ones that exist), `Listed` (a worker is on the list until its last step), `Exclusive` (workers past their publication aside, a slot has one worker), `Whole` (what was left is what is in the slot once handed), `Aimed` (the cancel's stale read was of that slot), `Owned` |
| `Handover` | safety part of `Promise` | each step of `FtpWorkers` is one step of `SlotOwner` or none, under the same invariant |
| `NeverCutShort`, `NoLineLost` | `JarsWhole`, `LinesKept` | `DiskSettled` (every state a power loss may leave is whole), `Staged` (what each step of a save has in its temporary), `Placed` (the lines owed are in the file, or in the `.bak` of a file no run will touch), `Carried` (a run that may save carries them) |
| `WithinShareKeptHolds` | `WithinShareKept` | `JarType`: the jar is longest path first and no two of its records are one cookie. `Paid`, by induction over the rounds of the eviction: the record replaced is still there, and each host that lost a record was over its share with it (`PaidOnce`: a round changes the tally of one host only). `LostIs`: what a response takes from the jar is what the rounds took |
| `SecureStaysFirstHolds` | `SecureStaysFirst` | `Unhidden`: a record that would stand before a Secure one, both sent to one page, has a longer path and a domain that matches, so plain http was refused; `CutFirst`, `PutFirst`: the first record sent stays first when others are cut or one is put behind it |
| `JobsCounted`, `CachedAnswers` | `JobCounted`, `AnswersOnly` | `JobCounted` is inductive with the types; `Told` says that an answer is what the resolver told its job, or nothing, in the job and in the caller about to store it |
| `AddressesTried` | `EveryAddressTried` | `Errand` (what the crawl thread resolves for says where its slot is) and `Dialed` (the addresses up to the one in turn were dialed): a timeout with addresses left has met the fallback's, since `Least(timeout, Cap)` is no later |
| `WholeOrRefusedHolds` | `WholeOrRefused` | `Decoder`: until a line is found to be wrong, the decoder is at a line or in a chunk of what the server meant to send, with the bytes before it taken (`OnTrack`); after a spoiled line it is where no line that is due can follow (`Astray`); so a block size of -1 means the whole body. `Bearings` and `Clean` carry it from the verdict of `back_finalize()` to the cache |
| `CopyOutlivesFailureHolds` | `CopyOutlivesFailure` | `CopyPlace`: at each step of the way out, which file has the copy, and whether the list already names it; what passes for whole is whole (`TakenIsWhole`), so a page that replaces the copy is one |
| `RunTold` | `EndTold` | `Slots` (a busy slot is of a link ahead or at hand, so with nothing ahead every slot is free), `Causes` (what dropped a link or cut a body is still in the stop flag, an exit, the fault flag or a cap past its grace when the verdict reads them; such a cap has raised the stop at the pump that dropped the link), `Judged` (what the verdict, the teardown and the exit keep) |
| `SlotStaysHeld` | `HeldSlotKeepsLink` | `HeldGuarded`: a held slot is locked or pinned. `back_clean()` takes unlocked slots only, `back_add()` takes a free one unless the URL has a slot, and the prefetch looks for that first (`KeepsGuarded`) |
| `OneTransferEach` | `OneTransfer`, half of `RequestedOnce` | `Labelled`: a swapped transfer is known by its local name only, so a slot that has a name must have the one of its URL, with its link in the heap; `Fewer`: cleaning moves transfers and makes none |
| `AbortKeepsFurthestHolds` | `AbortKeepsFurthest` | `ReachKept`: until the rotation the generation found is one of the two on disk, after it `old.zip` still has it, and the closing reconcile compares what is closed |
| `FoundOutlivesHolds` | `FoundOutlives` | the two above |
| `PreviousKeptHolds` | `PreviousKept` | each step of `CacheGenerations` is one step of `PreviousMirror` or none. `PlacedMirror`: without trouble, the lock tells of no kill, nothing has to be repaired, the mirror found is `new.zip` and `new.lst` until the rotation, `old.zip` and `old.lst` after it and in front again after a promotion, and the run's own is in front of it otherwise (`WorkPlace`). Which of them the end leaves, and with what reach, is `SettleStep`, which uses `AbortKeepsFurthest`; after a kill or a failed call nothing is promised (`TroubleMapped`) |
| `ListsPairedHolds` | `ListsPaired` | `PairedInStep`: at each step of a promotion or of a rotation, which of the two moves is done, hence with which archive each list stands; `PairedAtRest` between runs: with no `new.zip` it is `old.zip` that `new.lst` describes, and with no archive there is no list of one |
| `PurgeRespectsListsHolds` | `PurgeRespectsLists` | `ListToPurge`: what the purge goes through is the list the run found, under its name of that moment |
| `SurvivorNotedHolds` | `SurvivorNoted` | `NotedPlace`: along which steps the file gets its name in `new.lst`: as its body begins, as the cache answers for it, or as the slot of a failed transfer is freed |
| `DelaysHonouredHolds`, `GraceHonouredHolds` | those | `Gate`: the gate holds at least what is still owed, and no step behind the wait for a socket (`Launching`) finds it shut unless the mirror is ending |
| `RequestedOnceHolds` | `RequestedOnce` | `Once`: in one pass the links of a name are taken in turn, an answer that is there has a link and none still to come, and a transfer is for a link still to come whose answer is not there. It assumes that redirects to aliases end (`AliasesEnd`: a rank on URLs falls at each one), see below |
| `EveryLinkTakenInOnePass` | `EveryLinkTaken` | `AllTaken`: `InOrder` (what is behind the loop is done, what is at hand is in its slot or on disk), `Roomy` (how many slots may be held, so that one is free when a transfer comes back from disk), `SlotsOwned` (whose each slot is, and why it is locked), `Shelved` (what is on disk has its link ahead). It assumes one pass, more slots than connections, one slot spared and that redirects to aliases end |
| `GroupsAreHonoured`, `RulesComeFirst` | `GroupsHonoured`, `RulesBeforePages` | one lemma per kind of line relating the three flags and the blob to the lines read (`InAgentsSays`, `SpecificSays`, `RecordSays`), and `HInv`: while the claim has no rules, the robots.txt is in the heap before any link to a page |
| `MatchIsCovers` | the matcher of robots.txt against `Covers` | what a prefix of a pattern may reach is, after a star, everything from its least place on; the greedy search keeps that least place (`GreedyPlaces`), and the last piece of an anchored pattern is compared at the one place it may have |
| `LongestWinsHolds` | `LongestWins` | `MatchIsCovers`, and `BestLeads`: the rule kept is the longest so far, an Allow if one is as long |
| `BannedComeBefore` | `BannedCameBefore` | `CInv`: a link is forbidden by no rule known when it was found, so a banned one came from a page before robots.txt; with `LongestWins` |
| `RulesMeantHolds` | `RulesMeant` | `Meant`: the places of the text from which the rest of the pattern is met, token by token from its end; the matcher's own star is used there, and `GlobIs` compares it with the documented one: a name that is meant has 0 among the places of the whole pattern, and one that has it is meant, or a `*(..)` was left nothing (`LeftNone`). `Right`, by induction on the calls left: a call finds the place it is asked about, and the memo holds only places that are in no such set (`KeysApart`: no two share a bit). A failure is final unless a branch met the cap, and with a call left for each star and word of the rest (`LeftLess`) none meets it |

`EndTold` speaks of the end only; its invariant has to say at every step who may still
be blamed for what is missing. `JarsWhole` alone is not inductive either: it does not know that the renamed temporary is
the flushed one. `LinesKept` is not either: a save started from a jar that holds less
would lose what the file holds, and `Carried` is what excludes it.

Two theorems have hypotheses the code does not enforce, and each is necessary.
`AliasesEnd`: two URLs with one local file that redirect to each other are recorded
again without end (`htsparse.c:4202`; only the wait for a type counts its redirects),
and TLC finds `RequestedOnce` violated on such a site. More slots than connections: with
as many, TLC finds a link lost because no slot is free for what is on disk; the code has
32 slots per connection and 1024 more (`htsback.c:216`) and spares 8.

What a recursive function computes for every input is proved for the two matchers,
the scan of the rules of robots.txt, the stream a server means to send, and the bytes, the
cuts and the rounds of a full jar, with the induction over numbers stated for
sets (`NatSetInduction`) and the existence of a recursive function for the functions
themselves (`RecursionExists`), as the library's theorems take operators.

Only model-checked: `EveryLinkTaken` with pages first, where the second pass asks again
for links that are done (section 7); and the liveness properties, which are out of this
prover's reach. Every other property of the runs that hold has its theorem.

`ConnectionProofs` holds the proofs of `ConnectionSetup` and of `CodedBody`: what a
connection is set up by, and what comes over it. `CookieProofs` holds those of
`CookieFile` and of `CookieJar`, `LinkRulesProofs` those of `Robots` and of `Filters`. The
modules of each pair share no variable.

## 6. Disagreements

Each is a run whose property states what the code's own comment or page says.

1. `mirror_splice`: the copy restored after a short body takes the failed answer's
   date, by which the next run resumes it (`htsback.c:2426`), and a file spliced from
   two versions is entered as complete.
2. `robots_obeyed`: links of a host found before its robots.txt is handled are
   accepted by an empty table and never judged again (`htsparse.c:3737`);
   `html/cmdguide.html:201` says that robots.txt is obeyed.

## 7. Met while modelling

Behaviour the models have and no run reports. Where a property of section 3 has an
exception, it is one of these.

- The rollback of a run without a cache (`-C0`) restores the generation before the
  previous one (`htscore.c:2646`).
- A killed run's archive is repaired and rotated over a fuller one
  (`htscache.c:1157`); a kill after the purge lets the reconcile promote a generation
  whose files are gone, which are then fetched again (`htscore.c:2483`).
- A kill between an archive's rename and its list's pairs the archive with the list
  of another run (`htscache.c:1120`).
- A run killed between the rotation and the new archive leaves the lists one step
  behind: the next start promotes `old.zip` and keeps `old.lst`. The rollback of a later
  run without a cache then moves that list over the newer `new.lst`, beside a `new.zip`
  that it does not describe (`htscache.c:1122`). Found by the proof of `ListsPaired`.
- The latch against a second free restart is rewritten by the retry that follows
  (`htsparse.c:4575`).
- A file that cannot be created after its backup was taken blanks the restored copy
  (`htscore.c:2225`); one that cannot be created for a coded body delimited by the
  close enters an empty page (`htsback.c:4238`).
- The error page of an answer given up on is saved in the file's name
  (`opt->errpage`, on by default, for a link that another page named): "This prevent the
  engine from wiping all data if the website has been deleted (or moved)" is the comment
  on it (`htsparse.c:4497`), and "On update, keep the good copy on error (mask as 304)"
  the one that protects a copy (`htsback.c:4943`). But a copy kept after a failed transfer
  has an entry that no request is built from (`htscache.c:779`), so the next run asks with
  a plain GET, and a 404 or a 500 given up on puts its page over the copy
  (`htscore.c:2225`); that of a Range request puts it over the partial, and leaves the ref
  that described it, by which the next run may resume the page and enter the splice as
  the file. Hence `PageOver`, and `pageResumed` among the mistakes.
- A ^C within the grace of a size cap spares the transfers under way, as the cap alone
  would (`htsback.c:3502`), until the body of one takes the size over the grace. With no
  `--timeout` and no cap on time, a silent peer then keeps the program waiting; a second
  ^C still ends it. Hence `SizeGraced` in `StopEnds`.
- A file kept because a 304 answered a masked error may be in no list
  (`htsback.c:5187`).
- With pages first, the prefetch of the second pass takes the links marked done,
  whose `pass2` is -1 (`htscore.c:4452`), and asks for a file again that the first pass
  saved in background. Two links of a chain of redirects with one local name are then
  in transfer together: the duplicate that `back_cleanup_background()` says "should NOT
  happend" (`htsback.c:775`) does, and one is woken for another. The skip of done links
  at the top of the loop does not look at the pass either (`htscore.c:1521`), so it may
  stop at a page of the first pass, which is fetched and parsed again. Hence the
  `htmlFirst` in `RequestedOnce` and `EveryLinkTaken`.
- A swapped transfer that cannot be read back is taken for one saved in background
  (`htsback.c:478`): its page is not parsed and nothing is retried.
- Two URLs with one local file that redirect to each other are recorded again
  without end, up to the cap on links (`htsparse.c:4202`). Hence `AliasesEnd`.
- `exit_xh = 1` overwrites the engine's -1 (`htsparse.c:4921`); the fault flag, read
  again at the exit, is what keeps `FaultTold`.
- The wait for a type and the wait for a connection before it never read `exit_xh`
  (`htsparse.c:5405`, `htscore.c:4401`), hence the condition in `ExitEnds`.
- The status of a slot whose TLS handshake just finished is "connecting" again, with
  the timer of its connect: a handshake of ten seconds or more is closed by the
  fallback to the next address (`htsback.c:4041`).
- The fault flag is tested, then set (`worker_faulted`): a worker that crashes after the
  verdict is in the exit status and not in the verdict.
- A cut `Disallow` is kept because it "can only forbid more" (`htsrobots.c:273`);
  being shorter, it can also lose to an `Allow` that the whole line would have beaten.
  `keep_root_disallow` is true in both modes that read robots.txt (`htscore.c:2138`).
- `*(..)` "matches exactly one" character (`html/filters.html:177`, and the comment at
  `tests/01_engine-filter.test:93`), but the loop that tries it ends by "tester chaîne
  vide" at the place after what it may pass (`htsfilters.c:474`), which at the end of a name
  is that end: `a*(b)` matches `a`. Hence `OneAtEnd` in `RulesMeant`; it is the one way in
  which the matcher and the page differ, and the exception says so for every pattern.
- The tally of a full jar counts the new cookie and still the one it replaces: a host just
  at its share that replaces a cookie by a longer one is over it, and loses another
  (`htsbauth.c:428`). The comment of `cookie_make_room()` says so; that of the limits
  (`htsbauth.c:308`) says that a host may hold that many. Hence the last sentence of `WithinShareKept`
  in section 3.
- Two engines that save one cookies file each write their own jar: the last wins.

## 8. What is left out

- `CacheGenerations`: the `.dat`/`.ndx` caches of old versions and what an entry
  holds; `new.txt`. A rename is one step, as on POSIX.
- `MirrorFile`: content codings (`CodedBody`), HTML and the in-memory resume of it,
  tolerant mode (`-%B`), test links, HEAD, the exclusion by MIME type, `norecatch`.
  Whether an error page is saved (`-o`, and not for a link the user gave) is chosen each
  time a link is given up on, not once.
- `LinkQueue`: idle keep-alive slots count as free; test links, links without a name,
  the caps (`StopAndLimits`), the user's cancel of one slot (`FtpWorkers`), live
  filters and added URLs, `opt->maxlink`, the look-up of a type in the cache
  (`-%D1`), the limit of seven redirects while a type is unknown (the sites used have
  fewer). The delays that hold a launch back may do so at any time.
- `StopAndLimits`: the user's pause, the loop callback of a front end, the connection
  rate and the pause between files. SIGTERM's second signal kills the process.
- `FtpWorkers`: the FTP dialogue, which only decides between outcomes.
- `DnsResolver`, `ConnectionSetup`: proxies and tunnels (one address, no fallback),
  keep-alive reuse, the rate cap. Jobs beyond `MaxJobs` are resolved inline, as when
  no thread can be made. One slot connects at a time.
- `CodedBody`: the codecs (a stream decodes if and only if it is whole), the adoption
  of the spool by the WARC archive, the bound on a body in memory.
- `CookieFile`: the file is edited between runs only, and removed or emptied at any
  time except between the copy and the directory sync of a save. A rename not yet
  synced may be lost by a power loss, each on its own. The project's own jar (a file
  the user did not give) is rewritten even when lines were lost in its load. An expired
  record, which the load skips and does not count (`htsbauth.c:1346`), is no line here,
  neither a cookie nor an odd one.
- `CookieJar`: nested paths as depths, sizes in units, of a record's parts together; the `freeable` pre-check of
  `cookie_make_room()`, which only saves work; expiry is "in the past" or not.
- `Robots`: one host; redirects, FTP and `file://` links, test links, sitemap claims,
  pages first, meta robots. A robots.txt that cannot be had is one without rules.
- `Filters`: the budget of steps, case, the syntax of classes, size reporting and MIME
  rules. The depth cap of 256 is a parameter, 4 where it must be met.
- Not modelled at all: the HTML scanner and the character set tables (their state is
  text), `url_savename()` (string building, its collisions are a constant function),
  the HTTP and system library, WARC and the reports (logs nothing reads back), the
  command line, the front ends (they set the stop flag, which is modelled),
  ProxyTrack (another program), the vendored zip code, the generated Public Suffix
  List, HTTP authentication.

The map covers about a twentieth of the implementation. Half of those lines are
tables (entities, code pages, public suffixes), self-tests, vendored code and a second
program; of the other half, most is scanning and building of text, option parsing and
logging. A larger share could only be had by naming lines that no definition stands for.

## 9. The plan

1. `LocalNames`: the collision loop of `url_savename()` over a small set of names.
2. `PreviousMirror` with kills: what is then promised needs both generations, as it is
   the next run that chooses between them.
3. `EveryLinkTaken` with pages first, for every site.
