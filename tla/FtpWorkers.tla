------------------------------ MODULE FtpWorkers ------------------------------
(***************************************************************************)
(* The worker threads of FTP transfers (htsftp.c, htsthread.c) and the     *)
(* slots the crawl thread lends them.  A worker writes its slot with plain *)
(* stores and publishes the status last, with a release the crawl thread   *)
(* pairs with an acquire; the list of live workers keeps the teardown from *)
(* freeing a slot under one.                                               *)
(*                                                                         *)
(* What the crawl thread may read of a slot is `seen': the plain stores of *)
(* a worker reach it only through the status.  The mutex is modelled where *)
(* it is held over two stores.  A second engine of the same process shares *)
(* the list, because it is static.                                         *)
(***************************************************************************)
EXTENDS Integers

CONSTANTS
    Slot,       \* the slots of the backlog
    MaxWorkers, \* bound: transfers launched
    MaxCancels, \* bound: cancels of the user
    Crashes     \* whether a front end recovers the crash of a worker

ASSUME FtpAssumption == /\ MaxWorkers \in Nat /\ MaxCancels \in Nat
                        /\ Crashes \in BOOLEAN

Worker == 1 .. MaxWorkers
Code == {"none", "part", "ok", "bad"}
Final == {"ok", "bad"}
Nobody == 0
NoSlot == "no slot"

VARIABLES
    status,     \* lien_back.status: "free", "transfer", "handed" or "ready"
    code,       \* the fields a worker writes: r.statuscode, r.msg, r.size, tmpfile
    seen,       \* what the crawl thread may read of them
    stopFtp,    \* lien_back.stop_ftp
    live,       \* ftp_workers, the list
    slotOf,     \* FTPDownloadStruct.pBack
    returned,   \* FTPDownloadStruct.body_returned
    wpc,        \* where each worker is
    launched,   \* the workers made so far
    holder,     \* who holds ftp_workers_mutex over more than one store
    cpc,        \* where the crawl thread is
    target,     \* the slot it is about to cancel, and the status it read
    cancels,    \* cancels so far
    left        \* history: what the last worker of a slot left there

crawl == <<cpc, target, cancels>>
vars == <<status, code, seen, stopFtp, live, slotOf, returned, wpc, launched, holder, cpc,
          target, cancels, left>>

WorkerSteps == {"none", "made", "listed", "spawned", "body", "tail", "lock", "unlink",
                "gone"}

Init == /\ status = [s \in Slot |-> "free"]
        /\ code = [s \in Slot |-> "none"] /\ seen = [s \in Slot |-> "none"]
        /\ stopFtp = [s \in Slot |-> FALSE]
        /\ live = {} /\ slotOf = [w \in Worker |-> NoSlot] /\ returned = {}
        /\ wpc = [w \in Worker |-> "none"]
        /\ launched = 0 /\ holder = Nobody
        /\ cpc = "run" /\ target = <<>> /\ cancels = 0
        /\ left = [s \in Slot |-> "none"]

-----------------------------------------------------------------------------
\* back_add(): a slot of its own becomes an FTP transfer.
Lend(s) == /\ cpc = "run" /\ status[s] = "free" /\ launched < MaxWorkers
           /\ launched' = launched + 1
           /\ slotOf' = [slotOf EXCEPT ![launched + 1] = s]
           /\ status' = [status EXCEPT ![s] = "transfer"]
           /\ code' = [code EXCEPT ![s] = "none"] /\ seen' = [seen EXCEPT ![s] = "none"]
           /\ stopFtp' = [stopFtp EXCEPT ![s] = FALSE]
           /\ left' = [left EXCEPT ![s] = "none"]
           /\ wpc' = [wpc EXCEPT ![launched + 1] = "made"]
           /\ cpc' = "launch"
           /\ UNCHANGED <<live, returned, holder, target, cancels>>

\* For a mutant of Register: listed by the thread itself, once it runs.
RegisterLate ==
    /\ cpc = "launch" /\ wpc[launched] = "made"
    /\ wpc' = [wpc EXCEPT ![launched] = "listed"]
    /\ UNCHANGED <<status, code, seen, stopFtp, live, slotOf, returned, launched, holder,
                   crawl, left>>

\* launch_ftp(): listed first, so a worker not scheduled yet already counts.
Register == /\ cpc = "launch" /\ wpc[launched] = "made" /\ holder = Nobody
            /\ live' = live \cup {launched}
            /\ wpc' = [wpc EXCEPT ![launched] = "listed"]
            /\ UNCHANGED <<status, code, seen, stopFtp, slotOf, returned, launched, holder,
                           crawl, left>>

Spawn == /\ cpc = "launch" /\ wpc[launched] = "listed"
         /\ wpc' = [wpc EXCEPT ![launched] = "spawned"]
         /\ cpc' = "run"
         /\ UNCHANGED <<status, code, seen, stopFtp, live, slotOf, returned, launched,
                        holder, target, cancels, left>>

\* For a mutant of SpawnFails: the worker that never was stays on the list.
SpawnFailsListed ==
    /\ cpc = "launch" /\ wpc[launched] = "listed"
    /\ LET s == slotOf[launched] IN
         /\ code' = [code EXCEPT ![s] = "bad"] /\ seen' = [seen EXCEPT ![s] = "bad"]
         /\ left' = [left EXCEPT ![s] = "bad"]
         /\ status' = [status EXCEPT ![s] = "handed"]
    /\ wpc' = [wpc EXCEPT ![launched] = "gone"] /\ cpc' = "run"
    /\ UNCHANGED <<stopFtp, live, slotOf, returned, launched, holder, target, cancels>>

\* The thread cannot be made: the crawl thread releases the slot itself.
SpawnFails == /\ cpc = "launch" /\ wpc[launched] = "listed" /\ holder = Nobody
              /\ LET s == slotOf[launched] IN
                   /\ code' = [code EXCEPT ![s] = "bad"]
                   /\ seen' = [seen EXCEPT ![s] = "bad"]
                   /\ left' = [left EXCEPT ![s] = "bad"]
                   /\ status' = [status EXCEPT ![s] = "handed"]
              /\ live' = live \ {launched}
              /\ wpc' = [wpc EXCEPT ![launched] = "gone"]
              /\ cpc' = "run"
              /\ UNCHANGED <<stopFtp, slotOf, returned, launched, holder, target, cancels>>

-----------------------------------------------------------------------------
\* run_launch_ftp(): the worker writes its slot as it goes.
Start(w) == /\ wpc[w] = "spawned"
            /\ wpc' = [wpc EXCEPT ![w] = "body"]
            /\ code' = [code EXCEPT ![slotOf[w]] = "none"]
            /\ UNCHANGED <<status, seen, stopFtp, live, slotOf, returned, launched, holder,
                           crawl, left>>

Transfer(w) == /\ wpc[w] = "body" /\ ~stopFtp[slotOf[w]]
               /\ code' = [code EXCEPT ![slotOf[w]] = "part"]
               /\ UNCHANGED <<status, seen, stopFtp, live, slotOf, returned, wpc, launched,
                              holder, crawl, left>>

Finish(w) == /\ wpc[w] = "body"
             /\ \E c \in Final : code' = [code EXCEPT ![slotOf[w]] = c]
             /\ returned' = returned \cup {w}
             /\ wpc' = [wpc EXCEPT ![w] = "tail"]
             /\ UNCHANGED <<status, seen, stopFtp, live, slotOf, launched, holder, crawl,
                            left>>

\* stop_ftp(), or a wait that lasts --timeout: "Cancelled by User", "Time out".
Halt(w) == /\ wpc[w] = "body"
           /\ code' = [code EXCEPT ![slotOf[w]] = "bad"]
           /\ returned' = returned \cup {w}
           /\ wpc' = [wpc EXCEPT ![w] = "tail"]
           /\ UNCHANGED <<status, seen, stopFtp, live, slotOf, launched, holder, crawl, left>>

\* The body crashes and the front end recovers: the tail still runs.
Crash(w) == /\ Crashes /\ wpc[w] = "body"
            /\ wpc' = [wpc EXCEPT ![w] = "tail"]
            /\ UNCHANGED <<status, code, seen, stopFtp, live, slotOf, returned, launched,
                           holder, crawl, left>>

\* ftp_worker_done(): a body cut short becomes an error.
Conclude(w) ==
    /\ wpc[w] = "tail"
    /\ LET c == IF w \in returned THEN code[slotOf[w]] ELSE "bad" IN
         /\ code' = [code EXCEPT ![slotOf[w]] = c]
         /\ left' = [left EXCEPT ![slotOf[w]] = c]
    /\ wpc' = [wpc EXCEPT ![w] = "lock"]
    /\ UNCHANGED <<status, seen, stopFtp, live, slotOf, returned, launched, holder, crawl>>

\* For mutants of Publish: the lock is taken for the unlinking alone; the
\* status is left as it was.
PublishUnlocked(w) ==
    /\ wpc[w] = "lock"
    /\ status' = [status EXCEPT ![slotOf[w]] = "handed"]
    /\ wpc' = [wpc EXCEPT ![w] = "unlink"]
    /\ UNCHANGED <<code, seen, stopFtp, live, slotOf, returned, launched, holder, crawl,
                   left>>
PublishNot(w) ==
    /\ wpc[w] = "lock" /\ holder = Nobody /\ holder' = w
    /\ wpc' = [wpc EXCEPT ![w] = "unlink"]
    /\ UNCHANGED <<status, code, seen, stopFtp, live, slotOf, returned, launched, crawl,
                   left>>

\* ftp_worker_release(): publish, then leave the list, under one lock.
Publish(w) == /\ wpc[w] = "lock" /\ holder = Nobody
              /\ holder' = w
              /\ status' = [status EXCEPT ![slotOf[w]] = "handed"]
              /\ wpc' = [wpc EXCEPT ![w] = "unlink"]
              /\ UNCHANGED <<code, seen, stopFtp, live, slotOf, returned, launched, crawl,
                             left>>

Unlink(w) == /\ wpc[w] = "unlink"
             /\ live' = live \ {w} /\ holder' = Nobody
             /\ wpc' = [wpc EXCEPT ![w] = "gone"]
             /\ UNCHANGED <<status, code, seen, stopFtp, slotOf, returned, launched, crawl,
                            left>>

-----------------------------------------------------------------------------
\* For a mutant of Reap: the fields read before the status.
ReapStale(s) == /\ cpc = "run" /\ status[s] = "handed"
                /\ status' = [status EXCEPT ![s] = "ready"]
                /\ UNCHANGED <<code, seen, stopFtp, live, slotOf, returned, wpc, launched,
                               holder, crawl, left>>

\* back_wait() reaps a slot it finds handed back: an acquire, then the fields.
Reap(s) == /\ cpc = "run" /\ status[s] = "handed"
           /\ status' = [status EXCEPT ![s] = "ready"]
           /\ seen' = [seen EXCEPT ![s] = code[s]]
           /\ UNCHANGED <<code, stopFtp, live, slotOf, returned, wpc, launched, holder,
                          crawl, left>>

\* The link is handled, or its slot swapped to disk: slot_can_be_cached_on_disk().
Free(s) == /\ cpc = "run" /\ status[s] = "ready"
           /\ status' = [status EXCEPT ![s] = "free"]
           /\ code' = [code EXCEPT ![s] = "none"] /\ seen' = [seen EXCEPT ![s] = "none"]
           /\ stopFtp' = [stopFtp EXCEPT ![s] = FALSE]
           /\ UNCHANGED <<live, slotOf, returned, wpc, launched, holder, crawl, left>>

\* A cancel of the user reads the status once, then acts on what it read.
CancelRead(s) == /\ cpc = "run" /\ cancels < MaxCancels
                 /\ status[s] \in {"transfer", "handed"}
                 /\ cancels' = cancels + 1
                 /\ target' = <<s, status[s]>> /\ cpc' = "cancel"
                 /\ UNCHANGED <<status, code, seen, stopFtp, live, slotOf, returned, wpc,
                                launched, holder, left>>

CancelAct == /\ cpc = "cancel"
             /\ LET s == target[1] IN
                  IF target[2] = "transfer"
                  THEN /\ stopFtp' = [stopFtp EXCEPT ![s] = TRUE]
                       /\ UNCHANGED <<status, code, seen, left>>
                  ELSE /\ status' = [status EXCEPT ![s] = "ready"]
                       /\ code' = [code EXCEPT ![s] = "bad"]
                       /\ seen' = [seen EXCEPT ![s] = "bad"]
                       /\ left' = [left EXCEPT ![s] = "bad"]
                       /\ UNCHANGED stopFtp
             /\ cpc' = "run" /\ target' = <<>>
             /\ UNCHANGED <<live, slotOf, returned, wpc, launched, holder, cancels>>

-----------------------------------------------------------------------------
\* ftp_stop_workers(), of this engine or of another one of the process: every
\* slot on the list is told to stop, pass after pass until the list is empty.
Told == [s \in Slot |-> stopFtp[s] \/ \E w \in live : slotOf[w] = s]

OtherEngine == /\ holder = Nobody /\ live # {}
               /\ stopFtp' = Told
               /\ UNCHANGED <<status, code, seen, live, slotOf, returned, wpc, launched,
                              holder, crawl, left>>

Stop == /\ cpc = "run" /\ cpc' = "teardown"
        /\ UNCHANGED <<status, code, seen, stopFtp, live, slotOf, returned, wpc, launched,
                       holder, target, cancels, left>>

StopWorkers == /\ cpc = "teardown" /\ holder = Nobody
               /\ stopFtp' = Told
               /\ cpc' = IF live = {} THEN "delete" ELSE "teardown"
               /\ UNCHANGED <<status, code, seen, live, slotOf, returned, wpc, launched,
                              holder, target, cancels, left>>

\* back_delete_all(), then back_free(): the slots are gone.
Delete == /\ cpc = "delete"
          /\ status' = [s \in Slot |-> "free"]
          /\ code' = [s \in Slot |-> "none"] /\ seen' = [s \in Slot |-> "none"]
          /\ stopFtp' = [s \in Slot |-> FALSE]
          /\ cpc' = "closed"
          /\ UNCHANGED <<live, slotOf, returned, wpc, launched, holder, target, cancels,
                         left>>

Done == cpc = "closed" /\ UNCHANGED vars

Thread(w) == \/ Start(w) \/ Halt(w) \/ Conclude(w) \/ Publish(w) \/ Unlink(w)
Crawl == Register \/ Spawn \/ SpawnFails \/ CancelAct \/ StopWorkers \/ Delete
Choice == \/ \E s \in Slot : Lend(s) \/ Free(s) \/ CancelRead(s)
          \/ \E w \in Worker : Transfer(w) \/ Finish(w) \/ Crash(w)
          \/ OtherEngine \/ Stop

Next == \/ Choice \/ Crawl \/ \E s \in Slot : Reap(s)
        \/ \E w \in Worker : Thread(w)
        \/ Done

\* Each thread runs, and no wait of a worker outlasts --timeout (unset, only
\* the teardown and a cancel end a wait on a silent server).
Spec == /\ Init /\ [][Next]_vars
        /\ WF_vars(Crawl) /\ \A s \in Slot : WF_vars(Reap(s))
        /\ \A w \in Worker : WF_vars(Thread(w))

-----------------------------------------------------------------------------
Working == {w \in Worker : wpc[w] \notin {"none", "gone"}}

TypeOK == /\ status \in [Slot -> {"free", "transfer", "handed", "ready"}]
          /\ code \in [Slot -> Code]
          /\ seen \in [Slot -> {"none"} \cup Final] /\ left \in [Slot -> {"none"} \cup Final]
          /\ stopFtp \in [Slot -> BOOLEAN]
          /\ live \subseteq Worker /\ returned \subseteq Worker
          /\ launched \in 0 .. MaxWorkers
          /\ slotOf \in [Worker -> Slot \cup {NoSlot}]
          /\ wpc \in [Worker -> WorkerSteps]
          /\ holder \in {Nobody} \cup Worker
          /\ cpc \in {"run", "launch", "cancel", "teardown", "delete", "closed"}
          /\ target \in {<<>>} \cup (Slot \X {"transfer", "handed"})
          /\ cancels \in 0 .. MaxCancels

\* A thread that still writes a slot is on the list, its slot is lent, and no
\* other thread writes that slot: the main loop, which swaps, cleans, deletes
\* or reuses a slot, and the teardown never find one under it.
WriterAlone ==
    \A w \in Worker : wpc[w] \in {"listed", "spawned", "body", "tail", "lock"} =>
        /\ w \in live /\ status[slotOf[w]] = "transfer" /\ cpc # "closed"
        /\ \A v \in Working : slotOf[v] = slotOf[w] /\ v # w => wpc[v] = "unlink"

\* A slot the crawl thread takes for finished holds the whole outcome its
\* worker left, the error of a crashed or unspawned worker included.
OutcomeWhole ==
    \A s \in Slot : status[s] = "ready" => seen[s] = left[s] /\ seen[s] \in Final

\* A teardown, this engine's or another's, raises the stop of no slot that
\* was handed back: publishing and leaving the list is one step to it.
StopOnlyLent ==
    [][(OtherEngine \/ StopWorkers) =>
          \A s \in Slot : stopFtp'[s] # stopFtp[s] => status[s] = "transfer"]_vars

\* The teardown returns: every worker leaves the list, whatever it was doing,
\* whether it was spawned, crashed or never scheduled yet.
TeardownEnds == (cpc = "teardown") ~> (cpc = "closed")

\* A slot as its promise sees it.
SlotOutcome(s) == IF status[s] = "transfer" \/ cpc = "closed" THEN "none"
                  ELSE IF status[s] = "ready" THEN seen[s]
                  ELSE IF status[s] = "handed" THEN code[s] ELSE "none"
Lent == INSTANCE SlotOwner WITH
            Outcome <- Final,
            owner <- [s \in Slot |-> IF status[s] = "transfer" THEN "worker" ELSE "crawl"],
            outcome <- [s \in Slot |-> SlotOutcome(s)]

\* The hand-over keeps the promise: one owner, the whole outcome, and every
\* slot lent comes back.
Promise == Lent!Spec
=============================================================================
