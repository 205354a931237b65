--------------------------- MODULE FtpWorkersProofs ---------------------------
(***************************************************************************)
(* That every slot of the backlog has one writer, that the crawl thread    *)
(* takes whole outcomes only, and that the hand-over keeps the promise of  *)
(* SlotOwner, for every number of slots, transfers and cancels.            *)
(***************************************************************************)
EXTENDS FtpWorkers, TLAPS

Writing == {"listed", "spawned", "body", "tail", "lock"}

\* Workers are numbered in the order of their launches, and only the last one
\* may still be in launch_ftp().
Numbered ==
    /\ \A w \in Worker : wpc[w] # "none" => w \in 1 .. launched /\ slotOf[w] \in Slot
    /\ \A w \in Worker : wpc[w] \in {"made", "listed"} =>
           cpc = "launch" /\ w = launched /\ status[slotOf[w]] = "transfer"
    /\ cpc = "launch" => launched # 0 /\ wpc[launched] \in {"made", "listed"}

\* The list holds the workers between their registration and their unlinking,
\* and the lock covers the step between publishing and unlinking.
Listed ==
    /\ \A w \in Worker : w \in live <=> wpc[w] \in Writing \cup {"unlink"}
    /\ \A w \in Worker : wpc[w] = "unlink" <=> holder = w
    /\ cpc \in {"delete", "closed"} => live = {}

\* A slot is lent to one worker at a time.
Exclusive ==
    \A w, v \in Worker :
        /\ wpc[w] \in Writing \cup {"made"} => status[slotOf[w]] = "transfer"
        /\ wpc[w] \in Writing \cup {"made"} /\ wpc[v] \in Writing \cup {"made"}
              /\ slotOf[v] = slotOf[w] => v = w

\* What a worker leaves is an outcome from its last store on, and stays one
\* until the crawl thread has read it.
Whole ==
    /\ \A w \in Worker :
           /\ w \in returned => wpc[w] \in {"tail", "lock", "unlink", "gone"}
           /\ wpc[w] = "tail" /\ w \in returned => code[slotOf[w]] \in Final
           /\ wpc[w] = "lock" => /\ code[slotOf[w]] \in Final
                                 /\ left[slotOf[w]] = code[slotOf[w]]
    /\ \A s \in Slot :
           /\ status[s] = "handed" => code[s] \in Final /\ left[s] = code[s]
           /\ status[s] = "ready" => seen[s] = left[s] /\ seen[s] \in Final

\* A cancel acts on a status that only the worker may have changed since.
Aimed == cpc = "cancel" => /\ target \in Slot \X {"transfer", "handed"}
                           /\ target[2] = "handed" => status[target[1]] = "handed"

\* A slot in transfer has a worker that will give it back.
Owned == \A s \in Slot : status[s] = "transfer" =>
             \E w \in Worker : wpc[w] \in Writing \cup {"made"} /\ slotOf[w] = s

IInv == TypeOK /\ Numbered /\ Listed /\ Exclusive /\ Whole /\ Aimed /\ Owned

-----------------------------------------------------------------------------
\* Nothing is lent, launched or handed back at the start.
LEMMA InitInv == Init => IInv
  BY FtpAssumption DEF Init, IInv, TypeOK, Numbered, Listed, Exclusive, Whole, Aimed, Owned, Worker,
     Code, Final, Nobody, WorkerSteps, Writing

LEMMA LendInv ==
    ASSUME NEW s \in Slot PROVE IInv /\ Lend(s) => IInv'
<1> SUFFICES ASSUME IInv, Lend(s) PROVE IInv'
  OBVIOUS
<1> USE FtpAssumption DEF IInv, TypeOK, Lend, crawl, Worker, Nobody
<1>1. TypeOK'
  BY DEF Code, Final, WorkerSteps, Numbered
<1>2. Numbered'
  BY DEF Numbered, Exclusive, Writing, Listed
<1>3. Listed'
  BY DEF Listed, Writing, Numbered
<1>4. Exclusive'
  BY DEF Exclusive, Writing, Numbered, Listed
<1>5. Whole'
  BY DEF Whole, Exclusive, Numbered, Writing, Final, Aimed, Listed
<1>6. Aimed'
  BY DEF Aimed, Exclusive, Numbered, Writing
<1>7. Owned'
  BY DEF Owned, Exclusive, Writing, Numbered, Listed
<1> QED
  BY <1>1, <1>2, <1>3, <1>4, <1>5, <1>6, <1>7

LEMMA RegisterInv ==
    IInv /\ Register => IInv'
<1> SUFFICES ASSUME IInv, Register PROVE IInv'
  OBVIOUS
<1> USE FtpAssumption DEF IInv, TypeOK, Register, crawl, Worker, Nobody
<1>1. TypeOK'
  BY DEF Code, Final, WorkerSteps, Numbered
<1>2. Numbered'
  BY DEF Numbered, Exclusive, Writing, Listed
<1>3. Listed'
  BY DEF Listed, Writing, Numbered
<1>4. Exclusive'
  BY DEF Exclusive, Writing, Numbered, Listed
<1>5. Whole'
  BY DEF Whole, Exclusive, Numbered, Writing, Final, Aimed, Listed
<1>6. Aimed'
  BY DEF Aimed, Exclusive, Numbered, Writing
<1>7. Owned'
  BY DEF Owned, Exclusive, Writing, Numbered, Listed
<1> QED
  BY <1>1, <1>2, <1>3, <1>4, <1>5, <1>6, <1>7

LEMMA SpawnInv ==
    IInv /\ Spawn => IInv'
<1> SUFFICES ASSUME IInv, Spawn PROVE IInv'
  OBVIOUS
<1> USE FtpAssumption DEF IInv, TypeOK, Spawn, crawl, Worker, Nobody
<1>1. TypeOK'
  BY DEF Code, Final, WorkerSteps, Numbered
<1>2. Numbered'
  BY DEF Numbered, Exclusive, Writing, Listed
<1>3. Listed'
  BY DEF Listed, Writing, Numbered
<1>4. Exclusive'
  BY DEF Exclusive, Writing, Numbered, Listed
<1>5. Whole'
  BY DEF Whole, Exclusive, Numbered, Writing, Final, Aimed, Listed
<1>6. Aimed'
  BY DEF Aimed, Exclusive, Numbered, Writing
<1>7. Owned'
  BY DEF Owned, Exclusive, Writing, Numbered, Listed
<1> QED
  BY <1>1, <1>2, <1>3, <1>4, <1>5, <1>6, <1>7

LEMMA SpawnFailsInv ==
    IInv /\ SpawnFails => IInv'
<1> SUFFICES ASSUME IInv, SpawnFails PROVE IInv'
  OBVIOUS
<1> USE FtpAssumption DEF IInv, TypeOK, SpawnFails, crawl, Worker, Nobody
<1>1. TypeOK'
  BY DEF Code, Final, WorkerSteps, Numbered
<1>2. Numbered'
  BY DEF Numbered, Exclusive, Writing, Listed
<1>3. Listed'
  BY DEF Listed, Writing, Numbered
<1>4. Exclusive'
  BY DEF Exclusive, Writing, Numbered, Listed
<1>5. Whole'
  BY DEF Whole, Exclusive, Numbered, Writing, Final, Aimed, Listed
<1>6. Aimed'
  BY DEF Aimed, Exclusive, Numbered, Writing
<1>7. Owned'
  BY DEF Owned, Exclusive, Writing, Numbered, Listed
<1> QED
  BY <1>1, <1>2, <1>3, <1>4, <1>5, <1>6, <1>7

LEMMA StartInv ==
    ASSUME NEW w \in Worker PROVE IInv /\ Start(w) => IInv'
<1> SUFFICES ASSUME IInv, Start(w) PROVE IInv'
  OBVIOUS
<1> USE FtpAssumption DEF IInv, TypeOK, Start, crawl, Worker, Nobody
<1>1. TypeOK'
  BY DEF Code, Final, WorkerSteps, Numbered
<1>2. Numbered'
  BY DEF Numbered, Exclusive, Writing, Listed
<1>3. Listed'
  BY DEF Listed, Writing, Numbered
<1>4. Exclusive'
  BY DEF Exclusive, Writing, Numbered, Listed
<1>5. Whole'
  BY DEF Whole, Exclusive, Numbered, Writing, Final, Aimed, Listed
<1>6. Aimed'
  BY DEF Aimed, Exclusive, Numbered, Writing
<1>7. Owned'
  BY DEF Owned, Exclusive, Writing, Numbered, Listed
<1> QED
  BY <1>1, <1>2, <1>3, <1>4, <1>5, <1>6, <1>7

LEMMA TransferInv ==
    ASSUME NEW w \in Worker PROVE IInv /\ Transfer(w) => IInv'
<1> SUFFICES ASSUME IInv, Transfer(w) PROVE IInv'
  OBVIOUS
<1> USE FtpAssumption DEF IInv, TypeOK, Transfer, crawl, Worker, Nobody
<1>1. TypeOK'
  BY DEF Code, Final, WorkerSteps, Numbered
<1>2. Numbered'
  BY DEF Numbered, Exclusive, Writing, Listed
<1>3. Listed'
  BY DEF Listed, Writing, Numbered
<1>4. Exclusive'
  BY DEF Exclusive, Writing, Numbered, Listed
<1>5. Whole'
  BY DEF Whole, Exclusive, Numbered, Writing, Final, Aimed, Listed
<1>6. Aimed'
  BY DEF Aimed, Exclusive, Numbered, Writing
<1>7. Owned'
  BY DEF Owned, Exclusive, Writing, Numbered, Listed
<1> QED
  BY <1>1, <1>2, <1>3, <1>4, <1>5, <1>6, <1>7

LEMMA FinishInv ==
    ASSUME NEW w \in Worker PROVE IInv /\ Finish(w) => IInv'
<1> SUFFICES ASSUME IInv, Finish(w) PROVE IInv'
  OBVIOUS
<1> USE FtpAssumption DEF IInv, TypeOK, Finish, crawl, Worker, Nobody
<1>1. TypeOK'
  BY DEF Code, Final, WorkerSteps, Numbered
<1>2. Numbered'
  BY DEF Numbered, Exclusive, Writing, Listed
<1>3. Listed'
  BY DEF Listed, Writing, Numbered
<1>4. Exclusive'
  BY DEF Exclusive, Writing, Numbered, Listed
<1>5. Whole'
  BY DEF Whole, Exclusive, Numbered, Writing, Final, Aimed, Listed
<1>6. Aimed'
  BY DEF Aimed, Exclusive, Numbered, Writing
<1>7. Owned'
  BY DEF Owned, Exclusive, Writing, Numbered, Listed
<1> QED
  BY <1>1, <1>2, <1>3, <1>4, <1>5, <1>6, <1>7

LEMMA HaltInv ==
    ASSUME NEW w \in Worker PROVE IInv /\ Halt(w) => IInv'
<1> SUFFICES ASSUME IInv, Halt(w) PROVE IInv'
  OBVIOUS
<1> USE FtpAssumption DEF IInv, TypeOK, Halt, crawl, Worker, Nobody
<1>1. TypeOK'
  BY DEF Code, Final, WorkerSteps, Numbered
<1>2. Numbered'
  BY DEF Numbered, Exclusive, Writing, Listed
<1>3. Listed'
  BY DEF Listed, Writing, Numbered
<1>4. Exclusive'
  BY DEF Exclusive, Writing, Numbered, Listed
<1>5. Whole'
  BY DEF Whole, Exclusive, Numbered, Writing, Final, Aimed, Listed
<1>6. Aimed'
  BY DEF Aimed, Exclusive, Numbered, Writing
<1>7. Owned'
  BY DEF Owned, Exclusive, Writing, Numbered, Listed
<1> QED
  BY <1>1, <1>2, <1>3, <1>4, <1>5, <1>6, <1>7

LEMMA CrashInv ==
    ASSUME NEW w \in Worker PROVE IInv /\ Crash(w) => IInv'
<1> SUFFICES ASSUME IInv, Crash(w) PROVE IInv'
  OBVIOUS
<1> USE FtpAssumption DEF IInv, TypeOK, Crash, crawl, Worker, Nobody
<1>1. TypeOK'
  BY DEF Code, Final, WorkerSteps, Numbered
<1>2. Numbered'
  BY DEF Numbered, Exclusive, Writing, Listed
<1>3. Listed'
  BY DEF Listed, Writing, Numbered
<1>4. Exclusive'
  BY DEF Exclusive, Writing, Numbered, Listed
<1>5. Whole'
  BY DEF Whole, Exclusive, Numbered, Writing, Final, Aimed, Listed
<1>6. Aimed'
  BY DEF Aimed, Exclusive, Numbered, Writing
<1>7. Owned'
  BY DEF Owned, Exclusive, Writing, Numbered, Listed
<1> QED
  BY <1>1, <1>2, <1>3, <1>4, <1>5, <1>6, <1>7

LEMMA ConcludeInv ==
    ASSUME NEW w \in Worker PROVE IInv /\ Conclude(w) => IInv'
<1> SUFFICES ASSUME IInv, Conclude(w) PROVE IInv'
  OBVIOUS
<1> USE FtpAssumption DEF IInv, TypeOK, Conclude, crawl, Worker, Nobody
<1>1. TypeOK'
  BY DEF Code, Final, WorkerSteps, Numbered, Whole
<1>2. Numbered'
  BY DEF Numbered, Exclusive, Writing, Listed
<1>3. Listed'
  BY DEF Listed, Writing, Numbered
<1>4. Exclusive'
  BY DEF Exclusive, Writing, Numbered, Listed
<1>5. Whole'
  BY DEF Whole, Exclusive, Numbered, Writing, Final, Aimed, Listed
<1>6. Aimed'
  BY DEF Aimed, Exclusive, Numbered, Writing
<1>7. Owned'
  BY DEF Owned, Exclusive, Writing, Numbered, Listed
<1> QED
  BY <1>1, <1>2, <1>3, <1>4, <1>5, <1>6, <1>7

LEMMA PublishInv ==
    ASSUME NEW w \in Worker PROVE IInv /\ Publish(w) => IInv'
<1> SUFFICES ASSUME IInv, Publish(w) PROVE IInv'
  OBVIOUS
<1> USE FtpAssumption DEF IInv, TypeOK, Publish, crawl, Worker, Nobody
<1>1. TypeOK'
  BY DEF Code, Final, WorkerSteps, Numbered
<1>2. Numbered'
  BY DEF Numbered, Exclusive, Writing, Listed
<1>3. Listed'
  BY DEF Listed, Writing, Numbered
<1>4. Exclusive'
  BY DEF Exclusive, Writing, Numbered, Listed
<1>5. Whole'
  BY DEF Whole, Exclusive, Numbered, Writing, Final, Aimed, Listed
<1>6. Aimed'
  BY DEF Aimed, Exclusive, Numbered, Writing
<1>7. Owned'
  BY DEF Owned, Exclusive, Writing, Numbered, Listed
<1> QED
  BY <1>1, <1>2, <1>3, <1>4, <1>5, <1>6, <1>7

LEMMA UnlinkInv ==
    ASSUME NEW w \in Worker PROVE IInv /\ Unlink(w) => IInv'
<1> SUFFICES ASSUME IInv, Unlink(w) PROVE IInv'
  OBVIOUS
<1> USE FtpAssumption DEF IInv, TypeOK, Unlink, crawl, Worker, Nobody
<1>1. TypeOK'
  BY DEF Code, Final, WorkerSteps, Numbered
<1>2. Numbered'
  BY DEF Numbered, Exclusive, Writing, Listed
<1>3. Listed'
  BY DEF Listed, Writing, Numbered
<1>4. Exclusive'
  BY DEF Exclusive, Writing, Numbered, Listed
<1>5. Whole'
  BY DEF Whole, Exclusive, Numbered, Writing, Final, Aimed, Listed
<1>6. Aimed'
  BY DEF Aimed, Exclusive, Numbered, Writing
<1>7. Owned'
  <2> SUFFICES ASSUME NEW s \in Slot, status[s] = "transfer"
               PROVE  \E v \in Worker : wpc'[v] \in Writing \cup {"made"} /\ slotOf'[v] = s
    BY DEF Owned
  <2>1. PICK v \in Worker : wpc[v] \in Writing \cup {"made"} /\ slotOf[v] = s
    BY DEF Owned
  <2>2. wpc'[v] = wpc[v] /\ slotOf'[v] = slotOf[v]
    BY <2>1 DEF Writing
  <2> QED BY <2>1, <2>2
<1> QED
  BY <1>1, <1>2, <1>3, <1>4, <1>5, <1>6, <1>7

LEMMA ReapInv ==
    ASSUME NEW s \in Slot PROVE IInv /\ Reap(s) => IInv'
<1> SUFFICES ASSUME IInv, Reap(s) PROVE IInv'
  OBVIOUS
<1> USE FtpAssumption DEF IInv, TypeOK, Reap, crawl, Worker, Nobody
<1>1. TypeOK'
  BY DEF Code, Final, WorkerSteps, Numbered, Whole
<1>2. Numbered'
  BY DEF Numbered, Exclusive, Writing, Listed
<1>3. Listed'
  BY DEF Listed, Writing, Numbered
<1>4. Exclusive'
  BY DEF Exclusive, Writing, Numbered, Listed
<1>5. Whole'
  BY DEF Whole, Exclusive, Numbered, Writing, Final, Aimed, Listed
<1>6. Aimed'
  BY DEF Aimed, Exclusive, Numbered, Writing
<1>7. Owned'
  BY DEF Owned, Exclusive, Writing, Numbered, Listed
<1> QED
  BY <1>1, <1>2, <1>3, <1>4, <1>5, <1>6, <1>7

LEMMA FreeInv ==
    ASSUME NEW s \in Slot PROVE IInv /\ Free(s) => IInv'
<1> SUFFICES ASSUME IInv, Free(s) PROVE IInv'
  OBVIOUS
<1> USE FtpAssumption DEF IInv, TypeOK, Free, crawl, Worker, Nobody
<1>1. TypeOK'
  BY DEF Code, Final, WorkerSteps, Numbered
<1>2. Numbered'
  BY DEF Numbered, Exclusive, Writing, Listed
<1>3. Listed'
  BY DEF Listed, Writing, Numbered
<1>4. Exclusive'
  BY DEF Exclusive, Writing, Numbered, Listed
<1>5. Whole'
  BY DEF Whole, Exclusive, Numbered, Writing, Final, Aimed, Listed
<1>6. Aimed'
  BY DEF Aimed, Exclusive, Numbered, Writing
<1>7. Owned'
  BY DEF Owned, Exclusive, Writing, Numbered, Listed
<1> QED
  BY <1>1, <1>2, <1>3, <1>4, <1>5, <1>6, <1>7

LEMMA CancelReadInv ==
    ASSUME NEW s \in Slot PROVE IInv /\ CancelRead(s) => IInv'
<1> SUFFICES ASSUME IInv, CancelRead(s) PROVE IInv'
  OBVIOUS
<1> USE FtpAssumption DEF IInv, TypeOK, CancelRead, crawl, Worker, Nobody
<1>1. TypeOK'
  BY DEF Code, Final, WorkerSteps, Numbered
<1>2. Numbered'
  BY DEF Numbered, Exclusive, Writing, Listed
<1>3. Listed'
  BY DEF Listed, Writing, Numbered
<1>4. Exclusive'
  BY DEF Exclusive, Writing, Numbered, Listed
<1>5. Whole'
  BY DEF Whole, Exclusive, Numbered, Writing, Final, Aimed, Listed
<1>6. Aimed'
  BY DEF Aimed, Exclusive, Numbered, Writing
<1>7. Owned'
  BY DEF Owned, Exclusive, Writing, Numbered, Listed
<1> QED
  BY <1>1, <1>2, <1>3, <1>4, <1>5, <1>6, <1>7

LEMMA CancelActInv ==
    IInv /\ CancelAct => IInv'
<1> SUFFICES ASSUME IInv, CancelAct PROVE IInv'
  OBVIOUS
<1> USE FtpAssumption DEF IInv, TypeOK, Worker, Nobody
<1>1. PICK s \in Slot, st \in {"transfer", "handed"} : target = <<s, st>>
  BY DEF Aimed, CancelAct
<1>2. /\ cpc = "cancel" /\ cpc' = "run" /\ target' = <<>>
      /\ UNCHANGED <<live, slotOf, returned, wpc, launched, holder, cancels>>
  BY DEF CancelAct
<1>3. CASE st = "transfer"
  <2>1. /\ stopFtp' = [stopFtp EXCEPT ![s] = TRUE]
        /\ UNCHANGED <<status, code, seen, left>>
    BY <1>1, <1>3 DEF CancelAct
  <2> QED
    BY <1>2, <2>1 DEF Code, Final, WorkerSteps, Numbered, Listed, Exclusive, Whole, Aimed,
                      Owned
<1>4. CASE st = "handed"
  <2>1. /\ status[s] = "handed"
        /\ status' = [status EXCEPT ![s] = "ready"]
        /\ code' = [code EXCEPT ![s] = "bad"] /\ seen' = [seen EXCEPT ![s] = "bad"]
        /\ left' = [left EXCEPT ![s] = "bad"] /\ UNCHANGED stopFtp
    BY <1>1, <1>4 DEF CancelAct, Aimed
  <2>2. TypeOK'
    BY <1>2, <2>1 DEF Code, Final
  <2>3. Numbered' /\ Listed' /\ Aimed'
    BY <1>2, <2>1 DEF Numbered, Listed, Aimed, Exclusive, Writing
  <2>4. Exclusive' /\ Owned'
    BY <1>2, <2>1 DEF Numbered, Exclusive, Owned, Writing
  <2>5. Whole'
    BY <1>2, <2>1 DEF Whole, Exclusive, Numbered, Writing, Final
  <2> QED
    BY <2>2, <2>3, <2>4, <2>5
<1> QED
  BY <1>3, <1>4

LEMMA OtherEngineInv ==
    IInv /\ OtherEngine => IInv'
<1> SUFFICES ASSUME IInv, OtherEngine PROVE IInv'
  OBVIOUS
<1> USE FtpAssumption DEF IInv, TypeOK, OtherEngine, Told, crawl, Worker, Nobody
<1>1. TypeOK'
  BY DEF Code, Final, WorkerSteps, Numbered
<1>2. Numbered'
  BY DEF Numbered, Exclusive, Writing, Listed
<1>3. Listed'
  BY DEF Listed, Writing, Numbered
<1>4. Exclusive'
  BY DEF Exclusive, Writing, Numbered, Listed
<1>5. Whole'
  BY DEF Whole, Exclusive, Numbered, Writing, Final, Aimed, Listed
<1>6. Aimed'
  BY DEF Aimed, Exclusive, Numbered, Writing
<1>7. Owned'
  BY DEF Owned, Exclusive, Writing, Numbered, Listed
<1> QED
  BY <1>1, <1>2, <1>3, <1>4, <1>5, <1>6, <1>7

LEMMA StopInv ==
    IInv /\ Stop => IInv'
<1> SUFFICES ASSUME IInv, Stop PROVE IInv'
  OBVIOUS
<1> USE FtpAssumption DEF IInv, TypeOK, Stop, crawl, Worker, Nobody
<1>1. TypeOK'
  BY DEF Code, Final, WorkerSteps, Numbered
<1>2. Numbered'
  BY DEF Numbered, Exclusive, Writing, Listed
<1>3. Listed'
  BY DEF Listed, Writing, Numbered
<1>4. Exclusive'
  BY DEF Exclusive, Writing, Numbered, Listed
<1>5. Whole'
  BY DEF Whole, Exclusive, Numbered, Writing, Final, Aimed, Listed
<1>6. Aimed'
  BY DEF Aimed, Exclusive, Numbered, Writing
<1>7. Owned'
  BY DEF Owned, Exclusive, Writing, Numbered, Listed
<1> QED
  BY <1>1, <1>2, <1>3, <1>4, <1>5, <1>6, <1>7

LEMMA StopWorkersInv ==
    IInv /\ StopWorkers => IInv'
<1> SUFFICES ASSUME IInv, StopWorkers PROVE IInv'
  OBVIOUS
<1> USE FtpAssumption DEF IInv, TypeOK, StopWorkers, Told, crawl, Worker, Nobody
<1>1. TypeOK'
  BY DEF Code, Final, WorkerSteps, Numbered
<1>2. Numbered'
  BY DEF Numbered, Exclusive, Writing, Listed
<1>3. Listed'
  BY DEF Listed, Writing, Numbered
<1>4. Exclusive'
  BY DEF Exclusive, Writing, Numbered, Listed
<1>5. Whole'
  BY DEF Whole, Exclusive, Numbered, Writing, Final, Aimed, Listed
<1>6. Aimed'
  BY DEF Aimed, Exclusive, Numbered, Writing
<1>7. Owned'
  BY DEF Owned, Exclusive, Writing, Numbered, Listed
<1> QED
  BY <1>1, <1>2, <1>3, <1>4, <1>5, <1>6, <1>7

LEMMA DeleteInv ==
    IInv /\ Delete => IInv'
<1> SUFFICES ASSUME IInv, Delete PROVE IInv'
  OBVIOUS
<1> USE FtpAssumption DEF IInv, TypeOK, Delete, crawl, Worker, Nobody
<1>1. TypeOK'
  BY DEF Code, Final, WorkerSteps, Numbered
<1>2. Numbered'
  BY DEF Numbered, Exclusive, Writing, Listed
<1>3. Listed'
  BY DEF Listed, Writing, Numbered
<1>4. Exclusive'
  BY DEF Exclusive, Writing, Numbered, Listed
<1>5. Whole'
  BY DEF Whole, Exclusive, Numbered, Writing, Final, Aimed, Listed
<1>6. Aimed'
  BY DEF Aimed, Exclusive, Numbered, Writing
<1>7. Owned'
  BY DEF Owned, Exclusive, Writing, Numbered, Listed
<1> QED
  BY <1>1, <1>2, <1>3, <1>4, <1>5, <1>6, <1>7

-----------------------------------------------------------------------------
\* The invariant is inductive: every step of the crawl thread, of a worker or
\* of another engine keeps it.
LEMMA NextInv == IInv /\ [Next]_vars => IInv'
<1> SUFFICES ASSUME IInv, [Next]_vars PROVE IInv'
  OBVIOUS
<1>1. CASE Choice
  BY <1>1, LendInv, FreeInv, CancelReadInv, TransferInv, FinishInv, CrashInv,
     OtherEngineInv, StopInv DEF Choice
<1>2. CASE Crawl
  BY <1>2, RegisterInv, SpawnInv, SpawnFailsInv, CancelActInv, StopWorkersInv, DeleteInv
     DEF Crawl
<1>3. CASE \E s \in Slot : Reap(s)
  BY <1>3, ReapInv
<1>4. CASE \E w \in Worker : Thread(w)
  BY <1>4, StartInv, HaltInv, ConcludeInv, PublishInv, UnlinkInv DEF Thread
<1>5. CASE UNCHANGED vars
  BY <1>5 DEF vars, IInv, TypeOK, Numbered, Listed, Exclusive, Whole, Aimed, Owned
<1> QED
  BY <1>1, <1>2, <1>3, <1>4, <1>5 DEF Next, Done

\* The state of the hand-over keeps its type and its invariant for every
\* number of slots, transfers and cancels.
THEOREM Invariant == Spec => []IInv
<1>1. Init => IInv
  BY InitInv
<1>2. IInv /\ [Next]_vars => IInv'
  BY NextInv
<1> QED
  BY <1>1, <1>2, PTL DEF Spec

\* TypeOK, and with it that the crawl thread never reads a transfer's middle.
THEOREM TypeCorrect == Spec => []TypeOK
<1>1. IInv => TypeOK
  BY DEF IInv
<1> QED
  BY <1>1, Invariant, PTL

\* No two threads write one slot, and no slot is freed under its worker.
THEOREM OneWriter == Spec => []WriterAlone
<1>1. IInv => WriterAlone
  BY DEF IInv, TypeOK, Listed, Exclusive, WriterAlone, Writing, Working, WorkerSteps
<1> QED
  BY <1>1, Invariant, PTL

\* The crawl thread takes whole outcomes, a crashed worker's included.
THEOREM WholeOutcomes == Spec => []OutcomeWhole
<1>1. IInv => OutcomeWhole
  BY DEF IInv, Whole, OutcomeWhole
<1> QED
  BY <1>1, Invariant, PTL

\* Publishing and unlinking under one lock keeps every teardown's stop off a
\* slot that was handed back.
THEOREM StopsOnlyLent == Spec => StopOnlyLent
<1>1. IInv /\ [Next]_vars =>
         [(OtherEngine \/ StopWorkers) =>
             \A s \in Slot : stopFtp'[s] # stopFtp[s] => status[s] = "transfer"]_vars
  <2> SUFFICES ASSUME IInv, OtherEngine \/ StopWorkers, NEW s \in Slot,
                      stopFtp'[s] # stopFtp[s]
               PROVE  status[s] = "transfer"
    OBVIOUS
  <2>1. PICK w \in live : slotOf[w] = s
    BY DEF OtherEngine, StopWorkers, Told, IInv, TypeOK
  <2>2. holder = Nobody /\ w \in Worker
    BY DEF OtherEngine, StopWorkers, IInv, TypeOK
  <2>3. wpc[w] \in Writing
    BY <2>2, FtpAssumption DEF IInv, Listed, Nobody, Worker, Writing
  <2> QED
    BY <2>1, <2>2, <2>3 DEF IInv, Exclusive
<1> QED
  BY <1>1, Invariant, PTL DEF Spec, StopOnlyLent

-----------------------------------------------------------------------------
\* The slots of FtpWorkers are slots of SlotOwner at the start, and every step
\* is a step of SlotOwner or leaves what it sees alone.
LEMMA PromisedInit == Init => Lent!Init
  BY DEF Init, Lent!Init, SlotOutcome, Lent!NoOutcome

LEMMA LendStep == ASSUME NEW s \in Slot, IInv, Lend(s) PROVE Lent!Lend(s)
  BY DEF Lend, Lent!Lend, SlotOutcome, Lent!NoOutcome, IInv, TypeOK

LEMMA SpawnFailsStep == IInv /\ SpawnFails => \E s \in Slot : Lent!GiveBack(s)
<1> SUFFICES ASSUME IInv, SpawnFails PROVE \E s \in Slot : Lent!GiveBack(s)
  OBVIOUS
<1>1. PICK s \in Slot : s = slotOf[launched] /\ status[s] = "transfer" /\ cpc # "closed"
  BY FtpAssumption DEF SpawnFails, IInv, TypeOK, Numbered, Worker
<1>2. /\ status' = [status EXCEPT ![s] = "handed"]
      /\ code' = [code EXCEPT ![s] = "bad"] /\ seen' = [seen EXCEPT ![s] = "bad"]
      /\ cpc' = "run"
  BY <1>1 DEF SpawnFails
<1>3. Lent!GiveBack(s)
  <2>1. \A t \in Slot : SlotOutcome(t)' = IF t = s THEN "bad" ELSE SlotOutcome(t)
    BY <1>1, <1>2 DEF SlotOutcome, IInv, TypeOK
  <2>2. \A t \in Slot : status'[t] = IF t = s THEN "handed" ELSE status[t]
    BY <1>1, <1>2 DEF IInv, TypeOK
  <2> QED
    BY <1>1, <2>1, <2>2 DEF Lent!GiveBack, Final
<1> QED
  BY <1>1, <1>3

LEMMA PublishStep == ASSUME NEW w \in Worker, IInv, Publish(w)
                     PROVE  \E s \in Slot : Lent!GiveBack(s)
<1>1. PICK s \in Slot : /\ s = slotOf[w] /\ status[s] = "transfer"
                        /\ cpc # "closed" /\ code[s] \in Final
  BY DEF Publish, IInv, Numbered, Exclusive, Writing, Listed, Whole
<1>2. /\ status' = [status EXCEPT ![s] = "handed"]
      /\ UNCHANGED <<code, seen, cpc>>
  BY <1>1 DEF Publish, crawl
<1>3. Lent!GiveBack(s)
  <2>1. \A t \in Slot : SlotOutcome(t)' = IF t = s THEN code[s] ELSE SlotOutcome(t)
    BY <1>1, <1>2 DEF SlotOutcome, IInv, TypeOK
  <2>2. \A t \in Slot : status'[t] = IF t = s THEN "handed" ELSE status[t]
    BY <1>1, <1>2 DEF IInv, TypeOK
  <2> QED
    BY <1>1, <2>1, <2>2 DEF Lent!GiveBack
<1> QED
  BY <1>1, <1>3

LEMMA FreeStep == ASSUME NEW s \in Slot, IInv, Free(s) PROVE Lent!Use({s})
  BY DEF Free, Lent!Use, SlotOutcome, Lent!NoOutcome, IInv, TypeOK, crawl

LEMMA CancelActStep == IInv /\ CancelAct =>
                          \/ UNCHANGED Lent!ownerVars
                          \/ \E s \in Slot : Lent!Cancel(s)
<1> SUFFICES ASSUME IInv, CancelAct
             PROVE  UNCHANGED Lent!ownerVars \/ \E s \in Slot : Lent!Cancel(s)
  OBVIOUS
<1>1. CASE target[2] = "transfer"
  BY <1>1 DEF CancelAct, Lent!ownerVars, SlotOutcome
<1>2. CASE target[2] = "handed"
  <2>1. PICK s \in Slot : s = target[1] /\ status[s] = "handed" /\ code[s] \in Final
    BY <1>2 DEF IInv, Aimed, CancelAct, Whole
  <2>2. /\ status' = [status EXCEPT ![s] = "ready"]
        /\ seen' = [seen EXCEPT ![s] = "bad"] /\ code' = [code EXCEPT ![s] = "bad"]
        /\ cpc = "cancel" /\ cpc' = "run"
    BY <1>2, <2>1 DEF CancelAct
  <2>3. Lent!Cancel(s)
    <3>1. \A t \in Slot : SlotOutcome(t)' = IF t = s THEN "bad" ELSE SlotOutcome(t)
      BY <2>1, <2>2 DEF SlotOutcome, IInv, TypeOK
    <3>2. \A t \in Slot : status'[t] = "transfer" <=> status[t] = "transfer"
      BY <2>1, <2>2 DEF IInv, TypeOK
    <3>3. SlotOutcome(s) # Lent!NoOutcome
      BY <2>1, <2>2 DEF SlotOutcome, Lent!NoOutcome, Final
    <3> QED
      BY <2>1, <3>1, <3>2, <3>3 DEF Lent!Cancel, Final
  <2> QED
    BY <2>1, <2>3
<1> QED
  BY <1>1, <1>2 DEF IInv, Aimed, CancelAct

LEMMA DeleteStep == IInv /\ Delete => Lent!Use(Slot)
<1> SUFFICES ASSUME IInv, Delete PROVE Lent!Use(Slot)
  OBVIOUS
<1>1. \A s \in Slot : status[s] # "transfer"
  BY DEF Delete, IInv, Owned, Listed, Numbered, Writing
<1> QED
  BY <1>1 DEF Delete, Lent!Use, SlotOutcome, Lent!NoOutcome

\* The steps that only the crawl thread or only a worker sees.
LEMMA CrawlStep == IInv /\ (Register \/ Spawn \/ Stop \/ StopWorkers \/ OtherEngine)
                      => UNCHANGED Lent!ownerVars
  BY DEF Register, Spawn, Stop, StopWorkers, OtherEngine, Lent!ownerVars, SlotOutcome, IInv,
         crawl

LEMMA ReadStep == ASSUME NEW s \in Slot, IInv, Reap(s) \/ CancelRead(s)
                  PROVE  UNCHANGED Lent!ownerVars
<1>1. CASE Reap(s)
  BY <1>1 DEF Reap, Lent!ownerVars, SlotOutcome, IInv, TypeOK, crawl
<1>2. CASE CancelRead(s)
  BY <1>2 DEF CancelRead, Lent!ownerVars, SlotOutcome
<1> QED
  BY <1>1, <1>2

LEMMA WorkerStep == ASSUME NEW w \in Worker, IInv,
                           \/ Start(w) \/ Transfer(w) \/ Finish(w) \/ Halt(w)
                           \/ Crash(w) \/ Conclude(w) \/ Unlink(w)
                    PROVE  UNCHANGED Lent!ownerVars
<1>1. CASE Crash(w) \/ Unlink(w)
  BY <1>1 DEF Crash, Unlink, Lent!ownerVars, SlotOutcome, crawl
<1>2. CASE Start(w) \/ Transfer(w) \/ Finish(w) \/ Halt(w) \/ Conclude(w)
  <2>1. slotOf[w] \in Slot /\ status[slotOf[w]] = "transfer"
    BY <1>2 DEF Start, Transfer, Finish, Halt, Conclude, IInv, Numbered, Exclusive, Writing
  <2>2. UNCHANGED <<status, seen, cpc>>
    BY <1>2 DEF Start, Transfer, Finish, Halt, Conclude, crawl
  <2>3. \A s \in Slot : status[s] # "transfer" => code'[s] = code[s]
    BY <1>2, <2>1 DEF Start, Transfer, Finish, Halt, Conclude, IInv, TypeOK
  <2>4. \A s \in Slot : SlotOutcome(s)' = SlotOutcome(s)
    BY <2>2, <2>3 DEF SlotOutcome
  <2> QED
    BY <2>2, <2>4 DEF Lent!ownerVars
<1> QED
  BY <1>1, <1>2

\* Every step of the hand-over is a step of its promise, or is hidden from it.
LEMMA PromisedStep == IInv /\ [Next]_vars => [Lent!Next]_(Lent!ownerVars)
<1> SUFFICES ASSUME IInv, [Next]_vars
             PROVE  Lent!Next \/ UNCHANGED Lent!ownerVars
  OBVIOUS
<1>1. CASE Choice
  <2>1. CASE \E s \in Slot : Lend(s) \/ Free(s) \/ CancelRead(s)
    BY <2>1, LendStep, FreeStep, ReadStep DEF Lent!Next
  <2>2. CASE \E w \in Worker : Transfer(w) \/ Finish(w) \/ Crash(w)
    BY <2>2, WorkerStep
  <2> QED
    BY <1>1, <2>1, <2>2, CrawlStep DEF Choice
<1>2. CASE Crawl
  BY <1>2, CrawlStep, SpawnFailsStep, CancelActStep, DeleteStep DEF Crawl, Lent!Next
<1>3. CASE \E s \in Slot : Reap(s)
  BY <1>3, ReadStep
<1>4. CASE \E w \in Worker : Thread(w)
  BY <1>4, WorkerStep, PublishStep DEF Thread, Lent!Next
<1>5. CASE UNCHANGED vars
  BY <1>5 DEF vars, Lent!ownerVars, SlotOutcome
<1> QED
  BY <1>1, <1>2, <1>3, <1>4, <1>5 DEF Next, Done

\* The hand-over implements its promise: one owner per slot, and the crawl
\* thread sees each outcome whole and once.  That a lent slot comes back is
\* left to the run.
THEOREM Handover == Spec => Lent!Init /\ [][Lent!Next]_(Lent!ownerVars)
<1>1. Init => Lent!Init
  BY PromisedInit
<1>2. IInv /\ [Next]_vars => [Lent!Next]_(Lent!ownerVars)
  BY PromisedStep
<1> QED
  BY <1>1, <1>2, Invariant, PTL DEF Spec

=============================================================================
