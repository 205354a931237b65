---------------------------- MODULE StopAndLimits ----------------------------
(***************************************************************************)
(* How a mirror stops: the user's ^C and SIGTERM, the caps on time and     *)
(* size with their grace, the engine's own aborts, the crash of a worker   *)
(* thread the front end recovers, and the Retry-After gate that holds      *)
(* launches back.  The links and the slots are those of LinkQueue reduced  *)
(* to what the stop meets on its way: a first page at hand, one slot per   *)
(* link, and the waits of the program that pump the sockets.               *)
(*                                                                         *)
(* Time is a Tick that moves every timer.  A timer saturates where the     *)
(* code compares it, so the model needs no bound on time.                  *)
(***************************************************************************)
EXTENDS Integers, Sequences, FiniteSetsExt

CONSTANTS
    NLinks,     \* the links of the first page
    Options,    \* the option sets a mirror may run under
    MaxSoc,     \* opt->maxsoc
    MaxDelay,   \* opt->max_retry_after
    Delays,     \* the delays a server may ask for
    Retries     \* opt->retry

Link == 1 .. NLinks     \* in the order of the page

ASSUME OptionsAssumption ==
    \A o \in Options : /\ {o.maxtime, o.timeGrace, o.maxsite, o.sizeGrace, o.timeout}
                             \subseteq Nat
                       /\ o.ftp \subseteq Link /\ o.untyped \subseteq Link
                       /\ o.update \in BOOLEAN

ASSUME ConstantsAssumption ==
    /\ NLinks \in Nat
    /\ MaxSoc \in Nat \ {0} /\ MaxDelay \in Nat /\ Delays \subseteq Int /\ Retries \in Nat

VARIABLES
    opt,        \* the options of this run
    stop,       \* state.stop
    exitXh,     \* state.exit_xh
    elapsed,    \* hts_mirror_elapsed_ms(), up to the end of the grace
    recv,       \* HTS_TOTAL_RECV, up to the end of the grace
    gate,       \* sback->retry_after_until, as the time left
    slot,       \* the slot of each link
    heap,       \* opt->liens after the first page: link and tries left
    ptr,        \* the link at hand; 0 is the first page
    seen,       \* the links of the first page the parser has met
    pc, after,  \* the step of the program, and the one a pause leads to
    term,       \* SIGTERM was sent (a second one kills the process)
    faulted,    \* hts_worker_faulted()
    partial,    \* opt->abort_left_partial
    files,      \* HTS_STAT.stat_files > 0
    completed,  \* the verdict of httpmirror()
    exitCode,   \* what the process returns
    ref,        \* hts-cache/ref is on disk
    \* history, never read by an action's guard:
    owed,       \* the longest Retry-After still running
    gaveUp,     \* the engine decided an abort
    torn,       \* links whose body a stop, a cap or the end cut
    unseen      \* links of the page dropped by a stop, a cap or an abort

control == <<stop, exitXh, term, faulted>>
timers == <<elapsed, recv, gate, owed>>
place == <<heap, ptr, seen, pc, after>>
verdict == <<files, completed, exitCode, ref>>
history == <<gaveUp, torn, unseen>>
vars == <<opt, stop, exitXh, elapsed, recv, gate, slot, heap, ptr, seen, pc, after,
          term, faulted, partial, files, completed, exitCode, ref, owed, gaveUp, torn,
          unseen>>

(* The stage of a slot:                                                     *)
(*   "none"     no slot                                                     *)
(*   "connect"  resolving, connecting or in the TLS handshake               *)
(*   "headers"  request sent                                                *)
(*   "body"     part of the body is on disk                                 *)
(*   "ftp"      an FTP worker owns the slot                                 *)
(*   "handed"   STATUS_FTP_READY: the worker is done                        *)
(*   "ready"    STATUS_READY, with the answer "ok", "busy", "bad" or "fatal" *)
Empty == [stage |-> "none", idle |-> 0, ans |-> "bad"]

-----------------------------------------------------------------------------
\* The two caps, and the grace of each.
Reached(o, time, size) == \/ o.maxtime > 0 /\ time >= o.maxtime
                          \/ o.maxsite > 0 /\ size >= o.maxsite
Overrun(o, time, size) == \/ o.maxtime > 0 /\ time >= o.maxtime + o.timeGrace
                          \/ o.maxsite > 0 /\ size >= o.maxsite + o.sizeGrace
Capped == Reached(opt, elapsed, recv)
Over == Overrun(opt, elapsed, recv)

\* back_is_live() and back_is_preconnect()
Live(s) == s.stage \in {"connect", "headers", "body"}
Preconnect(s) == s.stage = "connect"
Busy(s) == Live(s) \/ s.stage \in {"ftp", "handed"}

\* back_pluggable_sockets_strict()
Room(sl) == MaxSoc - Cardinality({l \in Link : Busy(sl[l])})
Pluggable(sl) == IF Room(sl) > 0 /\ ~stop /\ gate > 0 THEN 0 ELSE Room(sl)

\* Mutant of Later: a delay over the cap is ignored.
LaterIgnored(now, asked) == IF asked > now /\ asked <= MaxDelay THEN asked ELSE now

\* back_set_retry_after()
Later(now, asked) == LET d == IF asked > MaxDelay THEN MaxDelay ELSE asked
                     IN  IF d > now THEN d ELSE now

\* back_abort_slot() on a set of links.
Abort(sl, ls, ans) ==
    [l \in Link |-> IF l \in ls THEN [sl[l] EXCEPT !.stage = "ready", !.ans = ans, !.idle = 0]
                    ELSE sl[l]]
Written(sl, ls) == {l \in ls : sl[l].stage = "body"}

\* Mutants of StopDrops: no grace; nothing dropped.
StopDropsAll(sl) == {l \in Link : stop /\ Live(sl[l])}
StopDropsNone(sl) == {l \in Link : stop /\ Capped /\ Preconnect(sl[l])}

\* What back_abort_stopped() drops.
StopDrops(sl) ==
    {l \in Link : stop /\ Live(sl[l]) /\ (Capped => Preconnect(sl[l]))}

\* What a socket that stayed silent for opt->timeout loses.
Silent(sl) ==
    {l \in Link : opt.timeout > 0 /\ Live(sl[l]) /\ sl[l].idle >= opt.timeout}

\* The FTP slots back_wait() reaps once their worker handed them back.
Reap(sl) == [l \in Link |-> IF sl[l].stage = "handed" THEN [sl[l] EXCEPT !.stage = "ready"]
                            ELSE sl[l]]

(***************************************************************************)
(* back_wait() over silent sockets: the stop drops what it drops, the caps *)
(* and a worker's crash raise the stop, and a cap past its grace drops     *)
(* everything and returns.  What a socket brings is Receive.               *)
(***************************************************************************)
Pumped ==
    LET kept == Abort(slot, StopDrops(slot), "fatal")
    IN  IF Over THEN Abort(kept, {l \in Link : Live(kept[l])}, "bad")
        ELSE Reap(Abort(kept, Silent(kept), "bad"))

\* The bodies a pump cut because of a stop or a cap.
PumpTears == Written(slot, StopDrops(slot))
                 \cup IF Over THEN Written(slot, Link) ELSE {}

\* back_checkmirror() and back_check_worker_fault()
Stopping == stop \/ Capped \/ faulted
CheckFault(x) == IF faulted THEN -1 ELSE x

Pump == /\ slot' = Pumped
        /\ stop' = Stopping
        /\ exitXh' = CheckFault(exitXh)
        /\ gaveUp' = (gaveUp \/ faulted)
        /\ torn' = torn \cup PumpTears
        /\ partial' = (partial \/ PumpTears # {})
        /\ UNCHANGED <<opt, elapsed, recv, gate, owed, heap, ptr, seen, term, faulted,
                       files, completed, exitCode, ref, unseen>>

\* back_add(): a request, or at once "mirror stopped by user".
Started(l) == IF stop THEN [Empty EXCEPT !.stage = "ready", !.ans = "fatal"]
              ELSE [Empty EXCEPT !.stage = IF l \in opt.ftp THEN "ftp" ELSE "connect"]

\* back_fillmax() gives a slot to one of the links ahead, or is held back.
Ahead(sl) == {heap[i].link : i \in ptr + 1 .. Len(heap)} \ {l \in Link : sl[l] # Empty}
Fills(sl) == {sl} \cup
    IF Stopping \/ Pluggable(sl) <= 0 THEN {}
    ELSE {[sl EXCEPT ![l] = Started(l)] : l \in Ahead(sl)}

-----------------------------------------------------------------------------
Init == /\ opt \in Options
        /\ stop = FALSE /\ exitXh = 0 /\ elapsed = 0 /\ recv = 0 /\ gate = 0
        /\ slot = [l \in Link |-> Empty]
        /\ heap = <<>> /\ ptr = 0 /\ seen = 0 /\ pc = "parse" /\ after = "parse"
        /\ term = FALSE /\ faulted = FALSE /\ partial = FALSE /\ files = FALSE
        /\ completed = FALSE /\ exitCode = "none" /\ ref = TRUE
        /\ owed = 0 /\ gaveUp = FALSE /\ torn = {} /\ unseen = {}

NextLink == seen + 1
Goto(step) == pc' = step /\ UNCHANGED after

\* htsparse(): a link met on the page, whose local name needs no answer.
Record(l) == /\ heap' = Append(heap, [link |-> l, tries |-> Retries])
             /\ UNCHANGED unseen
Drop(ls) == unseen' = unseen \cup ls /\ UNCHANGED heap

\* A stop keeps the parser from taking new links, except in an update.
NoCatch == stop /\ ~opt.update

ParseTyped == /\ pc = "parse" /\ ~Over /\ NextLink \in Link \ opt.untyped
              /\ IF NoCatch THEN Drop({NextLink}) ELSE Record(NextLink)
              /\ seen' = NextLink
              /\ UNCHANGED <<opt, control, timers, slot, ptr, pc, after, partial, verdict,
                             gaveUp, torn>>

\* maxlinks_give_up(): the link finds no room, and the parse goes on.
LinkCap == /\ pc = "parse" /\ ~Over /\ NextLink \in Link \ opt.untyped /\ ~NoCatch
           /\ exitXh' = -1 /\ gaveUp' = TRUE
           /\ Drop({NextLink}) /\ seen' = NextLink
           /\ UNCHANGED <<opt, stop, term, faulted, timers, slot, ptr, pc, after, partial,
                          verdict, torn>>

\* A link whose type needs an answer leads to hts_wait_delayed().
ParseUntyped == /\ pc = "parse" /\ ~Over /\ NextLink \in opt.untyped
                /\ IF NoCatch THEN Drop({NextLink}) /\ seen' = NextLink /\ UNCHANGED pc
                   ELSE pc' = "sockets" /\ UNCHANGED <<unseen, heap, seen>>
                /\ UNCHANGED <<opt, control, timers, slot, ptr, after, partial, verdict,
                               gaveUp, torn>>

\* A cap past its grace ends the page; so does its end.
ParseEnd == /\ pc = "parse" /\ (Over \/ NextLink \notin Link)
            /\ Drop({l \in Link : l > seen})
            /\ Goto("advance")
            /\ UNCHANGED <<opt, control, timers, slot, ptr, seen, partial, verdict,
                           gaveUp, torn>>

\* The sockets are pumped every 2 seconds while a page is parsed.
ParsePump == /\ pc = "parse"
             /\ slot' \in Fills(Pumped)
             /\ stop' = Stopping
             /\ exitXh' = CheckFault(exitXh) /\ gaveUp' = (gaveUp \/ faulted)
             /\ torn' = torn \cup PumpTears
             /\ partial' = (partial \/ PumpTears # {})
             /\ UNCHANGED <<opt, timers, place, term, faulted, verdict, unseen>>

-----------------------------------------------------------------------------
\* hts_wait_available_socket(): nothing here reads state.exit_xh.
WaitSocket == /\ pc = "sockets"
              /\ IF Pluggable(slot) > 0 THEN Goto("delayed") /\ UNCHANGED
                         <<opt, control, timers, slot, heap, ptr, seen, partial, verdict,
                           history>>
                 ELSE Pump /\ Goto(IF Over THEN "delayed" ELSE "sockets")

\* hts_wait_delayed() requests the link before the parser records it.
AddDelayed == /\ pc = "delayed"
              /\ IF stop
                 THEN /\ Drop({NextLink}) /\ seen' = NextLink /\ Goto("parse")
                      /\ UNCHANGED slot
                 ELSE /\ slot' = [slot EXCEPT ![NextLink] = Started(NextLink)]
                      /\ Goto("type") /\ UNCHANGED <<heap, unseen, seen>>
              /\ UNCHANGED <<opt, control, timers, ptr, partial, verdict, gaveUp, torn>>

\* Its wait for the headers; nothing here reads state.exit_xh either.
WaitType == /\ pc = "type"
            /\ slot[NextLink].stage \in {"connect", "headers"}
            /\ stop' = Stopping
            /\ exitXh' = CheckFault(exitXh) /\ gaveUp' = (gaveUp \/ faulted)
            /\ torn' = torn \cup PumpTears
            /\ partial' = (partial \/ PumpTears # {})
            /\ \E sl \in Fills(Pumped) :
                 IF Over
                 THEN /\ slot' = [sl EXCEPT ![NextLink] = Empty]
                      /\ Drop({NextLink}) /\ seen' = NextLink /\ Goto("parse")
                 ELSE slot' = sl /\ UNCHANGED <<pc, after, seen, heap, unseen>>
            /\ UNCHANGED <<opt, timers, ptr, term, faulted, verdict>>

\* The type is known, or the transfer failed and the link may be left out.
TypeKnown == /\ pc = "type"
             /\ slot[NextLink].stage \notin {"connect", "headers"}
             /\ \/ Record(NextLink) /\ UNCHANGED slot
                \/ /\ slot[NextLink].stage = "ready" /\ slot[NextLink].ans # "ok"
                   /\ slot' = [slot EXCEPT ![NextLink] = Empty]
                   /\ IF slot[NextLink].ans = "fatal" THEN Drop({NextLink})
                      ELSE UNCHANGED <<heap, unseen>>
             /\ seen' = NextLink /\ Goto("parse")
             /\ UNCHANGED <<opt, control, timers, ptr, partial, verdict, gaveUp, torn>>

-----------------------------------------------------------------------------
At == heap[ptr].link

\* Mutant of Pause: the exit is not read while the program waits for a socket.
PauseDeaf == /\ pc = "pause"
             /\ IF Pluggable(slot) > 0
                THEN pc' = after /\ UNCHANGED <<opt, control, timers, slot, heap, ptr, seen,
                                                after, partial, verdict, history>>
                ELSE Pump /\ UNCHANGED after /\ pc' = IF Over THEN after ELSE "pause"

\* hts_mirror_process_user_interaction(): wait for a free socket.
Pause == /\ pc = "pause"
         /\ IF Pluggable(slot) > 0
            THEN pc' = after /\ UNCHANGED <<opt, control, timers, slot, heap, ptr, seen,
                                            after, partial, verdict, history>>
            ELSE /\ Pump /\ UNCHANGED after
                 /\ pc' = IF Over \/ exitXh' # 0 THEN after ELSE "pause"

\* hts_mirror_wait_for_next_file(): request the link at hand if nothing did.
AddCurrent == /\ pc = "add"
              /\ LET mine == IF slot[At] # Empty THEN slot
                             ELSE [slot EXCEPT ![At] = Started(At)]
                 IN  slot' \in Fills(mine)
              /\ pc' = "pause" /\ after' = "wait"
              /\ UNCHANGED <<opt, control, timers, heap, ptr, seen, partial, verdict,
                             history>>

\* Its loop: pump, leave on a cap or an exit, fill, and pause again.
WaitFile == /\ pc = "wait" /\ Busy(slot[At])
            /\ stop' = Stopping
            /\ exitXh' = IF Over THEN 1 ELSE CheckFault(exitXh)
            /\ gaveUp' = (gaveUp \/ faulted)
            /\ torn' = torn \cup PumpTears
            /\ partial' = (partial \/ PumpTears # {})
            /\ IF exitXh' # 0 THEN slot' = Pumped /\ Goto("advance")
               ELSE slot' \in Fills(Pumped) /\ pc' = "pause" /\ after' = "wait"
            /\ UNCHANGED <<opt, timers, heap, ptr, seen, term, faulted, verdict, unseen>>

FileReady == /\ pc = "wait" /\ slot[At].stage = "ready"
             /\ exitXh' = IF Over THEN 1 ELSE CheckFault(exitXh)
             /\ stop' = Stopping /\ gaveUp' = (gaveUp \/ faulted)
             /\ Goto(IF exitXh' # 0 THEN "advance" ELSE "handle")
             /\ UNCHANGED <<opt, timers, slot, heap, ptr, seen, term, faulted, partial,
                            verdict, torn, unseen>>

\* The link is handled: saved, or retried, or given up.
Saved == /\ pc = "handle" /\ slot[At].ans = "ok"
         /\ files' = TRUE
         /\ UNCHANGED <<heap, gate, owed>>

\* hts_mirror_check_moved(): the retry, and the delay its answer asked for.
Retry == /\ pc = "handle" /\ slot[At].ans \in {"busy", "bad"} /\ heap[ptr].tries > 0
         /\ heap' = Append(heap, [heap[ptr] EXCEPT !.tries = @ - 1])
         /\ \E d \in IF slot[At].ans = "busy" THEN Delays ELSE {-1} :
              /\ gate' = IF d >= 0 THEN Later(gate, d) ELSE gate
              /\ owed' = IF d >= 0 THEN Max({owed, Min({d, MaxDelay})}) ELSE owed
         /\ UNCHANGED files

GiveUp == /\ pc = "handle"
          /\ slot[At].ans = "fatal" \/ (slot[At].ans # "ok" /\ heap[ptr].tries = 0)
          /\ UNCHANGED <<heap, gate, owed, files>>

Handle == /\ Saved \/ Retry \/ GiveUp
          /\ slot' = [slot EXCEPT ![At] = Empty]
          /\ Goto("advance")
          /\ UNCHANGED <<opt, control, elapsed, recv, ptr, seen, partial, completed,
                         exitCode, ref, history>>

\* filesave() meets a full disk: the page is lost and the engine gives up.
DiskFull == /\ pc = "handle" /\ slot[At].ans = "ok"
            /\ exitXh' = -1 /\ gaveUp' = TRUE
            /\ slot' = [slot EXCEPT ![At] = Empty]
            /\ Goto("advance")
            /\ UNCHANGED <<opt, stop, term, faulted, timers, heap, ptr, seen, partial,
                           verdict, torn, unseen>>

\* The end of the loop of httpmirror().
Advance == /\ pc = "advance"
           /\ stop' = Stopping
           /\ exitXh' = CheckFault(exitXh) /\ gaveUp' = (gaveUp \/ faulted)
           /\ IF Over \/ exitXh' # 0 \/ ptr = Len(heap)
              THEN pc' = "verdict" /\ UNCHANGED <<ptr, after>>
              ELSE pc' = "pause" /\ after' = "add" /\ ptr' = ptr + 1
           /\ UNCHANGED <<opt, timers, slot, heap, seen, term, faulted, partial, verdict,
                          torn, unseen>>

-----------------------------------------------------------------------------
\* Mutant of Aborted: the stop flag is not read.
AbortedByCode(stopped, code) == code # 0

\* A stop or an exit cut the mirror short.
Aborted(stopped, code) == stopped \/ code # 0

\* httpmirror(): the verdict, with the fault read once more; a session that
\* brought nothing is rolled back.
Verdict == /\ pc = "verdict"
           /\ LET code == CheckFault(exitXh)
              IN  /\ exitXh' = IF ~files /\ code # -1 THEN 2 ELSE code
                  /\ completed' = (files /\ ~Aborted(stop \/ faulted, code))
           /\ stop' = (stop \/ faulted) /\ gaveUp' = (gaveUp \/ faulted)
           /\ Goto("teardown")
           /\ UNCHANGED <<opt, timers, slot, heap, ptr, seen, term, faulted, partial, files,
                          exitCode, ref, torn, unseen>>

\* back_delete_all(), once ftp_stop_workers() has seen every worker leave.
Teardown == /\ pc = "teardown"
            /\ \A l \in Link : slot[l].stage # "ftp"
            /\ torn' = torn \cup Written(slot, Link)
            /\ partial' = (partial \/ Written(slot, Link) # {})
            /\ slot' = [l \in Link |-> Empty]
            /\ Goto("exit")
            /\ UNCHANGED <<opt, control, timers, heap, ptr, seen, verdict, gaveUp, unseen>>

\* hts_main(): the exit status, and the resume data erased or kept.
Exit == /\ pc = "exit"
        /\ exitCode' = IF exitXh = -1 \/ faulted THEN "aborted" ELSE "ok"
        /\ ref' = ~(exitXh = 0 /\ ~partial)
        /\ Goto("closed")
        /\ UNCHANGED <<opt, control, timers, slot, heap, ptr, seen, partial, files,
                       completed, history>>

-----------------------------------------------------------------------------
\* A pump finds something on the socket of a link it did not just drop.
Pumping == pc \in {"parse", "sockets", "type", "pause", "wait"}

Receive(l) ==
    /\ Pumping /\ ~Over /\ Live(slot[l]) /\ l \notin StopDrops(slot)
    /\ \/ \E stage \in {"headers", "body"} :
            /\ <<slot[l].stage, stage>> \in {<<"connect", "headers">>, <<"headers", "body">>}
            /\ slot' = [slot EXCEPT ![l] = [@ EXCEPT !.stage = stage, !.idle = 0]]
       \/ \E ans \in {"ok", "busy", "bad"} :
            /\ ans = "busy" => slot[l].stage = "headers"
            /\ ans = "ok" => slot[l].stage = "body"
            /\ slot' = Abort(slot, {l}, ans)
    /\ recv' = IF slot[l].stage = "connect" THEN recv
               ELSE Min({recv + 1, opt.maxsite + opt.sizeGrace})
    /\ UNCHANGED <<opt, control, elapsed, gate, owed, place, partial, verdict, history>>

\* The FTP worker of a link hands its slot back: it is done, it waited for
\* opt->timeout, or the teardown told it to stop.
FtpEnd(l) == /\ slot[l].stage = "ftp"
             /\ \E ans \in {"ok", "bad"} :
                  slot' = [slot EXCEPT ![l] = [stage |-> "handed", idle |-> 0, ans |-> ans]]
             /\ UNCHANGED <<opt, control, timers, place, partial, verdict, history>>

FtpGivesUp(l) == /\ slot[l].stage = "ftp"
                 /\ pc = "teardown" \/ (opt.timeout > 0 /\ slot[l].idle >= opt.timeout)
                 /\ slot' = [slot EXCEPT ![l] = [stage |-> "handed", idle |-> 0,
                                                 ans |-> "bad"]]
                 /\ UNCHANGED <<opt, control, timers, place, partial, verdict, history>>

\* It crashes, the front end recovers the crash, and the tail of the thread
\* hands the slot back.
FtpFaults(l) == /\ slot[l].stage = "ftp"
                /\ faulted' = TRUE
                /\ slot' = [slot EXCEPT ![l] = [stage |-> "handed", idle |-> 0,
                                                ans |-> "fatal"]]
                /\ UNCHANGED <<opt, stop, exitXh, term, timers, place, partial, verdict,
                               history>>

\* ^C, and SIGTERM (or the abort lock file); a second SIGTERM kills.
CtrlC == /\ pc # "closed" /\ ~stop
         /\ stop' = TRUE
         /\ UNCHANGED <<opt, exitXh, term, faulted, timers, slot, place, partial, verdict,
                        history>>

Sigterm == /\ pc # "closed" /\ ~term
           /\ term' = TRUE /\ exitXh' = 1
           /\ UNCHANGED <<opt, stop, faulted, timers, slot, place, partial, verdict, history>>

\* Time passes.
Sooner(t) == IF t > 0 THEN t - 1 ELSE 0
Tick == /\ pc # "closed"
        /\ elapsed' = IF opt.maxtime = 0 THEN 0
                      ELSE Min({elapsed + 1, opt.maxtime + opt.timeGrace})
        /\ gate' = Sooner(gate) /\ owed' = Sooner(owed)
        /\ slot' = [l \in Link |->
                       IF Busy(slot[l]) /\ slot[l].stage # "handed"
                       THEN [slot[l] EXCEPT !.idle = Min({@ + 1, opt.timeout})]
                       ELSE slot[l]]
        /\ UNCHANGED <<opt, control, recv, place, partial, verdict, history>>

Done == pc = "closed" /\ UNCHANGED vars

Engine == \/ ParseTyped \/ ParseUntyped \/ ParseEnd
          \/ WaitSocket \/ AddDelayed \/ WaitType \/ TypeKnown
          \/ Pause \/ AddCurrent \/ WaitFile \/ FileReady \/ Handle
          \/ Advance \/ Verdict \/ Teardown \/ Exit
World == \/ LinkCap \/ DiskFull \/ ParsePump \/ CtrlC \/ Sigterm
         \/ \E l \in Link : Receive(l) \/ FtpEnd(l) \/ FtpFaults(l)
Worker == \E l \in Link : FtpGivesUp(l)

Next == Engine \/ World \/ Worker \/ Tick \/ Done

\* The program runs, its workers run and time passes; no peer ever answers.
Spec == Init /\ [][Next]_vars /\ WF_vars(Engine) /\ WF_vars(Worker) /\ WF_vars(Tick)

-----------------------------------------------------------------------------
\* A request is started only once every Retry-After asked for has run out,
\* cut at --max-retry-after, unless the mirror is ending: not by back_fill,
\* not for the link at hand and not in the wait for a type.  Meanwhile no link
\* is handled either, whose own delay could meet the one running.
DelaysHonoured ==
    [][/\ \A l \in Link : slot[l] = Empty /\ slot'[l].stage \in {"connect", "ftp"}
              => owed = 0 \/ stop \/ exitXh # 0
       /\ pc' = "handle" => owed = 0 \/ stop \/ exitXh # 0]_vars

\* A transfer that had begun when a cap was reached is not cut before the
\* grace is over, though the cap raised the stop flag, and though the user
\* stops the mirror too: only the end of the mirror cuts it.
GraceHonoured ==
    [][Capped /\ ~Over /\ pc # "teardown" => torn' = torn]_vars

\* When a stop, a cap or the end of the mirror left a body half written, the
\* resume data that describes it outlives the run, whatever the exit code.
TornKeepsRef == pc = "closed" /\ torn # {} => ref

\* A mirror told complete met every link of its page: none was dropped by a
\* stop, a cap, an abort of the engine or the cap on links, and nothing is
\* left in the heap.  The purge of old files has the same condition.
CompleteMeansAll ==
    pc = "closed" /\ completed => unseen = {} /\ ptr = Len(heap) /\ torn = {}

\* The crash of a worker the front end recovered is told by the exit status,
\* at whatever step it fell, and a crash before the verdict is in the verdict.
FaultTold == pc = "closed" /\ faulted =>
                 exitCode = "aborted" /\ (gaveUp => ~completed)

\* What the run leaves behind tells what happened to it, whoever stopped it and
\* in whatever order: its verdict, its exit status and its resume data.
EndTold == CompleteMeansAll /\ FaultTold /\ TornKeepsRef

\* A transfer in the grace of the cap on size, which its own bytes alone can end:
\* back_abort_stopped() spares it whoever raised the stop, and no timer runs.
SizeGraced ==
    /\ opt.maxsite > 0 /\ Capped /\ ~Over
    /\ opt.timeout = 0 /\ opt.maxtime = 0
    /\ \E l \in Link : Live(slot[l]) /\ ~Preconnect(slot[l])

\* A stop ends the mirror even when no peer ever answers and no timeout is
\* set: but an FTP worker needs the timeout, and so does a peer that falls
\* silent in the grace of the cap on size.
StopEnds == (stop /\ (opt.timeout > 0 \/ opt.ftp = {}))
                ~> (pc = "closed" \/ SizeGraced)

\* An exit asked of the engine ends the mirror, no timeout set and an FTP
\* worker on a silent server included, when no link's type had to be awaited.
ExitEnds == (exitXh # 0 /\ opt.untyped = {}) ~> (pc = "closed")

=============================================================================
