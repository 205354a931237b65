--------------------------- MODULE MirrorFileProofs ---------------------------
(***************************************************************************)
(* Type correctness, and the safety of the copy a run found: for every     *)
(* number of versions of the resource, whatever their lengths, and every   *)
(* number of runs, retries, kills and failed calls.                        *)
(***************************************************************************)
EXTENDS MirrorFile, TLAPS

\* What the operators on files, entries and requests return is of its type.
LEMMA ConstantTypes ==
    /\ NoFile \in File /\ NoEntry \in Entry
    /\ NoRequest \in Request /\ Plain \in Request
  BY BoundsAssumption DEF BoundsAssumption, NoFile, File, Page, NoEntry, Entry,
     EntryStates, NoRequest, Plain, Request

LEMMA FileTypes ==
    ASSUME NEW f \in File, NEW t \in 0..MaxVersion
    PROVE  /\ Empty(t) \in File
           /\ [f EXCEPT !.time = t] \in File
           /\ \A n \in Nat : Cut(f, n, t) \in File
           /\ \A v \in 0..MaxVersion : Grown(f, v, t) \in File
<1>1. 0 \in 0..MaxVersion /\ 0 \in 0..Page /\ 0..MaxVersion \subseteq 0..Page
  BY BoundsAssumption DEF BoundsAssumption, Page
<1>2. /\ f.there \in {"yes", "no"} /\ f.ver \in 0..Page
      /\ f.size \in Nat /\ f.time \in 0..MaxVersion
  BY DEF File
<1>3. Empty(t) \in File
  BY <1>1 DEF Empty, File
<1>4. [f EXCEPT !.time = t] \in File
  BY DEF File
<1>5. \A n \in Nat : Cut(f, n, t) \in File
  <2> SUFFICES ASSUME NEW n \in Nat PROVE Cut(f, n, t) \in File
    OBVIOUS
  <2>1. (IF n = 0 THEN 0 ELSE f.ver) \in 0..Page
    BY <1>1, <1>2
  <2> QED
    BY <2>1 DEF Cut, File
<1>6. \A v \in 0..MaxVersion : Grown(f, v, t) \in File
  <2> SUFFICES ASSUME NEW v \in 0..MaxVersion PROVE Grown(f, v, t) \in File
    OBVIOUS
  <2>1. (IF f.size = 0 \/ f.ver = v THEN v ELSE 0) \in 0..Page
    BY <1>1
  <2>2. f.size + 1 \in Nat
    BY <1>2
  <2> QED
    BY <2>1, <2>2 DEF Grown, File
<1> QED
  BY <1>3, <1>4, <1>5, <1>6

LEMMA PageTypes == ASSUME TypeOK PROVE \A n \in Nat : PageOf(n) \in File
  BY BoundsAssumption DEF BoundsAssumption, TypeOK, PageOf, Page, File

LEMMA EntryTypes ==
    ASSUME NEW s \in EntryStates, NEW v \in 0..MaxVersion
    PROVE  [state |-> s, ver |-> v] \in Entry
  BY DEF Entry

LEMMA ChosenType == ASSUME TypeOK PROVE ChosenRequest \in Request
<1>1. sav.size \in Nat /\ sav.time \in 0..MaxVersion /\ cached.ver \in 0..MaxVersion
  BY DEF TypeOK, File, Entry
<1>2. /\ {cached.ver} \in SUBSET (0..MaxVersion)
      /\ {ref} \in SUBSET (0..MaxVersion)
      /\ {v \in Versions : v <= sav.time} \in SUBSET (0..MaxVersion)
  BY <1>1, BoundsAssumption DEF BoundsAssumption, TypeOK, Versions
<1> QED
  BY <1>1, <1>2, ConstantTypes DEF ChosenRequest, RangeRequest, Request

LEMMA FaultTypes ==
    ASSUME TypeOK, Fault \/ NoFault
    PROVE  troubles' \in 0..MaxTrouble /\ marks' \in SUBSET Marks
<1>1. CASE Fault
  BY <1>1, BoundsAssumption DEF BoundsAssumption, TypeOK, Fault, Marks
<1>2. CASE NoFault
  BY <1>2 DEF TypeOK, NoFault
<1> QED
  BY <1>1, <1>2

LEMMA ReqTypes == ASSUME TypeOK PROVE req.size \in Nat
  BY DEF TypeOK, Request

\* A body is received under a good answer, and what is entered in the cache is an
\* answer.
CodePlace ==
    /\ pc \in {"backup", "create", "truncate", "writeRef", "body"} => code = "ok"
    /\ pc \in {"commit", "unref", "store"} =>
           code \in {"ok", "error", "retryable", "stale"}

LEMMA CodePlaceHolds == Spec => []CodePlace
<1>1. Init => CodePlace
  BY DEF Init, CodePlace
<1>2. CodePlace /\ [Next]_vars => CodePlace'
  <2> SUFFICES ASSUME CodePlace, [Next]_vars PROVE CodePlace'
    OBVIOUS
  <2> USE DEF CodePlace, Step, Ready, KeepSlot, slot
  <2>1. CASE Adding
    BY <2>1 DEF Adding, AddFromCache, AddStopped, AddRequest, AnswersFromCache,
       ReadsFromDisk
  <2>2. CASE Answering
    BY <2>2 DEF Answering, NoAnswer, Answer304, AnswerUnusable, AnswerStale,
       AnswerError, Answer206, Answer200, NotModified
  <2>3. CASE Transfer
    BY <2>3 DEF Transfer, Backup, Create, Truncate, WriteRef, Receive, BodyEnds,
       BodyFails, AbortStopped, DropRef, DropSav
  <2>4. CASE Finalize
    BY <2>4 DEF Finalize, Commit, Unref, Store, Restore, UnrefOld, Survivor,
       Flush
  <2>5. CASE Verdict
    BY <2>5 DEF Verdict, Retry, Restart, Requeue, DropStale, StaleSav, StaleRef,
       Settle, SavePage, WritePage, SettleUncreated
  <2>6. CASE Change \/ Stop \/ Start \/ EndRun \/ Kill \/ UNCHANGED vars
    BY <2>6 DEF Change, Stop, Start, EndRun, Kill, Down, vars
  <2> QED
    BY <2>1, <2>2, <2>3, <2>4, <2>5, <2>6 DEF Next, Work, Finished
<1> QED
  BY <1>1, <1>2, PTL DEF Spec

\* Every state of the program is of its type, whatever the constants.
THEOREM TypeCorrect == Spec => []TypeOK
<1>1. Init => TypeOK
  BY ConstantTypes, BoundsAssumption
     DEF BoundsAssumption, Init, TypeOK, Flags, Marks, Codes
<1>2. TypeOK /\ CodePlace /\ [Next]_vars => TypeOK'
  <2> SUFFICES ASSUME TypeOK, CodePlace, [Next]_vars PROVE TypeOK'
    OBVIOUS
  <2>0. /\ 0 \in 0..MaxVersion /\ cached.ver \in 0..MaxVersion
        /\ cached.state \in EntryStates
    BY BoundsAssumption DEF BoundsAssumption, TypeOK, Entry
  <2> USE DEF TypeOK, Flags, files, link, slot
  <2>1. CASE Change
    BY <2>1, BoundsAssumption, <2>0 DEF Change, BoundsAssumption
  <2>2. CASE Stop
    BY <2>2, <2>0 DEF Stop
  <2>3. CASE Start
    BY <2>3, BoundsAssumption, ConstantTypes, <2>0 DEF Start, Found,
       BoundsAssumption
  <2>4. CASE AddFromCache
    BY <2>4, ConstantTypes, <2>0 DEF AddFromCache, Ready, TakenForEntry,
       AnswersFromCache, ReadsFromDisk, Codes, Marks
  <2>5. CASE AddStopped
    BY <2>5, ConstantTypes, <2>0 DEF AddStopped, Ready, Codes
  <2>6. CASE AddRequest
    BY <2>6, ChosenType, <2>0 DEF AddRequest, Mistaken, Ready, Codes, Marks
  <2>7. CASE NoAnswer
    BY <2>7, <2>0 DEF NoAnswer, Ready, SlotKept, Codes
  <2>8. CASE Answer304
    BY <2>8, <2>0 DEF Answer304, Ready, SlotKept, Codes
  <2>9. CASE AnswerUnusable
    BY <2>9, <2>0 DEF AnswerUnusable, Ready, SlotKept, Codes
  <2>10. CASE AnswerStale
    BY <2>10, <2>0 DEF AnswerStale, Ready, SlotKept, Codes
  <2>11. ASSUME NEW c \in Codes, AnswerError(c)
        PROVE  TypeOK'
    BY <2>11, <2>0 DEF AnswerError, Ready, SlotKept, Codes
  <2>12. CASE Answer206
    <3>1. PICK start \in 0..req.size :
                 req' = [req EXCEPT !.size = start]
      BY <2>12 DEF Answer206
    <3>2. req' \in Request
      BY <3>1, ReqTypes DEF TypeOK, Request
    <3> QED
      BY <2>12, <3>2, <2>0 DEF Answer206, Ready, Codes
  <2>13. CASE Answer200
    BY <2>13, <2>0 DEF Answer200, Ready, SlotKept, Codes
  <2>14. CASE NotModified
    BY <2>14, <2>0 DEF NotModified, Ready, TakenForEntry, Codes, Marks
  <2>15. CASE Backup
    <3>1. Fault \/ NoFault
      BY <2>15 DEF Backup
    <3>2. /\ sav' \in File /\ bak' \in File /\ tmp' \in {"none", "bak"}
          /\ pc' = "create"
      BY <2>15, FileTypes, ConstantTypes DEF Backup, Step
    <3> QED
      BY <2>15, <3>1, <3>2, FaultTypes DEF Backup, KeepSlot, KeepRest
  <2>16. CASE Create
    <3>1. Fault \/ NoFault
      BY <2>16 DEF Create
    <3>2. sav' \in File
      BY <2>16, FileTypes DEF Create
    <3>3. flags' \in SUBSET Flags /\ code' \in Codes /\ pc' \in {"writeRef", "restore"}
      BY <2>16 DEF Create, Step, Codes
    <3> QED
      BY <2>16, <3>1, <3>2, <3>3, FaultTypes DEF Create, KeepRest
  <2>17. CASE Truncate
    <3>1. Fault \/ NoFault
      BY <2>17 DEF Truncate
    <3>2. Cut(sav, req.size, site) \in File
      BY FileTypes, ReqTypes
    <3>3. /\ sav' \in File /\ flags' \in SUBSET Flags /\ code' \in Codes
          /\ pc' \in {"writeRef", "dropRef", "restore"}
      BY <2>17, <3>2 DEF Truncate, Step, Codes
    <3> QED
      BY <2>17, <3>1, <3>3, FaultTypes DEF Truncate, KeepRest
  <2>18. CASE WriteRef
    BY <2>18, <2>0 DEF WriteRef, Step, KeepSlot, KeepRest
  <2>19. CASE Receive
    BY <2>19, FileTypes, <2>0 DEF Receive, Step, KeepSlot, KeepRest
  <2>20. CASE BodyEnds
    BY <2>20, <2>0 DEF BodyEnds, Step, KeepSlot, KeepRest, Codes
  <2>21. CASE BodyFails
    <3>1. Fault \/ NoFault
      BY <2>21 DEF BodyFails
    <3> QED
      BY <2>21, <3>1, FaultTypes, <2>0, FileTypes, ConstantTypes DEF
         BodyFails, Step, KeepSlot, KeepRest, Codes
  <2>22. CASE AbortStopped
    BY <2>22, <2>0 DEF AbortStopped, Step, KeepSlot, KeepRest, Codes
  <2>23. CASE DropRef
    BY <2>23, <2>0 DEF DropRef, Step, KeepSlot, KeepRest
  <2>24. CASE DropSav
    BY <2>24, ConstantTypes, <2>0 DEF DropSav, Step, KeepSlot, KeepRest
  <2>25. CASE Commit
    BY <2>25, ConstantTypes, <2>0 DEF Commit, Step, KeepSlot, KeepRest
  <2>26. CASE Unref
    BY <2>26, <2>0 DEF Unref, Step, KeepSlot, KeepRest
  <2>27. CASE Store
    <3>1. code \in EntryStates
      BY <2>27 DEF Store, CodePlace, EntryStates
    <3> QED
      BY <2>27, <3>1, EntryTypes, <2>0 DEF Store, Step, KeepSlot
  <2>28. CASE Restore
    <3>1. Fault \/ NoFault
      BY <2>28 DEF Restore
    <3> QED
      BY <2>28, <3>1, FaultTypes, <2>0, FileTypes, ConstantTypes DEF
         Restore, Step, KeepSlot, KeepRest, Codes
  <2>29. CASE UnrefOld
    BY <2>29, <2>0 DEF UnrefOld, Step, KeepSlot, KeepRest
  <2>30. CASE Survivor
    <3>1. "kept" \in EntryStates
      BY DEF EntryStates
    <3> QED
      BY <2>30, <3>1, EntryTypes, <2>0 DEF Survivor, Step, KeepSlot
  <2>31. CASE Flush
    BY <2>31, FileTypes, <2>0 DEF Flush, Step, KeepSlot, KeepRest
  <2>32. CASE Retry
    BY <2>32, ConstantTypes, <2>0 DEF Retry, Requeue, NextLatch, Codes,
       Slotted
  <2>33. CASE Restart
    BY <2>33, ConstantTypes, <2>0 DEF Restart, Requeue, NextLatch, Codes,
       Slotted
  <2>34. CASE DropStale
    BY <2>34, <2>0 DEF DropStale
  <2>35. CASE StaleSav
    BY <2>35, ConstantTypes, <2>0 DEF StaleSav, Step, KeepSlot, KeepRest
  <2>36. CASE StaleRef
    BY <2>36, ConstantTypes, <2>0 DEF StaleRef, Step, KeepSlot, KeepRest,
       Codes, Slotted
  <2>37. CASE Settle
    BY <2>37, <2>0 DEF Settle, Settles
  <2>38. CASE SavePage
    <3>1. Fault \/ NoFault
      BY <2>38 DEF SavePage
    <3>2. sav' \in File /\ pc' \in {"page", "done"}
      BY <2>38, PageTypes DEF SavePage, Step
    <3> QED
      BY <2>38, <3>1, <3>2, FaultTypes DEF SavePage, KeepSlot, KeepRest
  <2>39. CASE WritePage
    <3>1. Fault \/ NoFault
      BY <2>39 DEF WritePage
    <3>2. sav' \in File
      BY <2>39, PageTypes, BoundsAssumption DEF WritePage, BoundsAssumption
    <3> QED
      BY <2>39, <3>1, <3>2, FaultTypes DEF WritePage, Step, KeepSlot, KeepRest
  <2>40. CASE SettleUncreated
    <3>1. Fault \/ NoFault
      BY <2>40 DEF SettleUncreated
    <3> QED
      BY <2>40, <3>1, FaultTypes, <2>0, FileTypes, ConstantTypes DEF
         SettleUncreated, Step, KeepSlot, KeepRest, Codes
  <2>41. CASE EndRun
    BY <2>41, ConstantTypes, <2>0 DEF EndRun, Down, Marks, Codes
  <2>42. CASE Kill
    <3>1. marks' \in SUBSET Marks
      BY <2>42 DEF Kill, Marks
    <3>2. troubles' \in 0..MaxTrouble
      BY <2>42, BoundsAssumption DEF Kill, BoundsAssumption
    <3> QED
      BY <2>42, <3>1, <3>2, ConstantTypes, <2>0 DEF Kill, Down, Codes
  <2>43. CASE UNCHANGED vars
    BY <2>43, <2>0 DEF vars
  <2> QED
    BY <2>1, <2>2, <2>3, <2>4, <2>5, <2>6, <2>7, <2>8, <2>9, <2>10, <2>11,
       <2>12, <2>13, <2>14, <2>15, <2>16, <2>17, <2>18, <2>19, <2>20, <2>21,
       <2>22, <2>23, <2>24, <2>25, <2>26, <2>27, <2>28, <2>29, <2>30, <2>31,
       <2>32, <2>33, <2>34, <2>35, <2>36, <2>37, <2>38, <2>39, <2>40, <2>41,
       <2>42, <2>43
       DEF Next, Work, Adding, Answering, Transfer, Finalize, Verdict,
       Finished
<1> QED
  BY <1>1, <1>2, CodePlaceHolds, PTL DEF Spec

-----------------------------------------------------------------------------
(* The copy.  While a body is received the copy is the backup; it is the     *)
(* mirrored file before, and again after, whichever way the transfer ends.   *)

\* The run found a whole copy with an entry, and no call of it failed.
Guarded == found # "nothing" /\ "faulty" \notin marks

\* What the steps leave alone, and where a backup is pending.
Bearings ==
    /\ pc = "down" => found = "nothing" /\ req = NoRequest /\ code = "none"
    /\ pc # "down" => site \in Versions
    /\ found # "nothing" => cached.state \notin {"none", "stale"}
    /\ found = "vouched" => cached.state = "ok"
    /\ tmp = "bak" => pc \in {"create", "writeRef", "body", "commit", "restore"}
    /\ pc \in {"backup", "create", "truncate", "writeRef", "body"} =>
           resp \in Versions

\* The cache answers for a copy of the length it names, without a request.
SelfAnswered ==
    found = "vouched" /\ "update" \notin flags =>
        /\ Exists(sav) /\ sav.size = Size[cached.ver] /\ cached.state = "ok"
        /\ pc \in {"queued", "commit", "unref", "store", "flush", "verdict", "done"}
        /\ code \in {"none", "ok"}

\* A link the cache names is never resumed, so nothing removes its copy but the
\* end of a whole body, and the error page of a request without a condition.
CopyPlace ==
    Guarded =>
        /\ req.kind # "range"
        /\ pc \notin {"truncate", "dropRef", "dropSav", "staleSav", "staleRef"}
        /\ code \notin {"stale", "nocreate"}
        /\ tmp = "bak" => Whole(bak)
        /\ tmp = "bak" /\ pc = "commit" => Whole(sav)
        /\ tmp = "none" => pc \notin {"create", "writeRef", "body"}
        /\ tmp = "none" => Whole(sav) \/ (pc \in {"page", "done"} /\ PageOver)
        /\ pc = "page" => PageOver
        /\ found = "vouched" => /\ code \notin {"error", "retryable"}
                                /\ pc = "asked" => Conditional
        /\ pc \in {"writeRef", "body"} => Exists(sav) /\ (sav.size = 0 \/ sav.ver = resp)

LEMMA WholeFacts ==
    ASSUME NEW f \in File
    PROVE  /\ Whole(f) => Exists(f)
           /\ \A t : Whole(f) => Whole([f EXCEPT !.time = t])
           /\ \A v \in Versions :
                Exists(f) /\ f.size = Size[v] /\ (f.size = 0 \/ f.ver = v)
                  => Whole(f)
<1>1. \A v \in Versions : Size[v] # 0
  BY BoundsAssumption DEF BoundsAssumption
<1> QED
  BY <1>1 DEF Whole, Exists, File

LEMMA GrownFacts ==
    ASSUME NEW f \in File, NEW v \in Versions, NEW t,
           f.size = 0 \/ f.ver = v
    PROVE  Exists(Grown(f, v, t)) /\ Grown(f, v, t).ver = v
  BY DEF Grown, Exists

LEMMA PageFacts ==
    \A n : /\ PageOf(n).ver = Page /\ PageOf(n).size = n
            /\ PageOf(n).time = site /\ Exists(PageOf(n))
  BY DEF PageOf, Exists

LEMMA BearingsHold == Spec => []Bearings
<1>1. Init => Bearings
  BY DEF Init, Bearings
<1>2. TypeOK /\ Bearings /\ [Next]_vars => Bearings'
  <2> SUFFICES ASSUME TypeOK, Bearings, [Next]_vars PROVE Bearings'
    OBVIOUS
  <2> USE DEF TypeOK, Bearings, files, link, slot
  <2>1. CASE Change
    BY <2>1, BoundsAssumption DEF Change, Versions, BoundsAssumption
  <2>2. CASE Stop
    BY <2>2 DEF Stop
  <2>3. CASE Start
    BY <2>3, BoundsAssumption DEF Start, Found, Versions, BoundsAssumption
  <2>4. CASE AddFromCache
    BY <2>4 DEF AddFromCache, Ready, TakenForEntry
  <2>5. CASE AddStopped
    BY <2>5 DEF AddStopped, Ready
  <2>6. CASE AddRequest
    BY <2>6 DEF AddRequest, Ready
  <2>7. CASE NoAnswer
    BY <2>7 DEF NoAnswer, Ready, SlotKept
  <2>8. CASE Answer304
    BY <2>8 DEF Answer304, Ready, SlotKept
  <2>9. CASE AnswerUnusable
    BY <2>9 DEF AnswerUnusable, Ready, SlotKept
  <2>10. CASE AnswerStale
    BY <2>10 DEF AnswerStale, Ready, SlotKept
  <2>11. ASSUME NEW c \in Codes, AnswerError(c)
        PROVE  Bearings'
    BY <2>11 DEF AnswerError, Ready, SlotKept
  <2>12. CASE Answer206
    BY <2>12 DEF Answer206, Ready, Ranged
  <2>13. CASE Answer200
    BY <2>13 DEF Answer200, Ready, SlotKept
  <2>14. CASE NotModified
    BY <2>14 DEF NotModified, Ready, TakenForEntry
  <2>15. CASE Backup
    BY <2>15 DEF Backup, Step, KeepSlot, KeepRest, Fault, NoFault
  <2>16. CASE Create
    BY <2>16 DEF Create, Step, KeepSlot, KeepRest, Fault, NoFault
  <2>17. CASE Truncate
    BY <2>17 DEF Truncate, Step, KeepSlot, KeepRest, Fault, NoFault
  <2>18. CASE WriteRef
    BY <2>18 DEF WriteRef, Step, KeepSlot, KeepRest
  <2>19. CASE Receive
    BY <2>19 DEF Receive, Step, KeepSlot, KeepRest
  <2>20. CASE BodyEnds
    BY <2>20 DEF BodyEnds, Step, KeepSlot, KeepRest
  <2>21. CASE BodyFails
    BY <2>21 DEF BodyFails, Step, KeepSlot, KeepRest, Fault, NoFault
  <2>22. CASE AbortStopped
    BY <2>22 DEF AbortStopped, Step, KeepSlot, KeepRest
  <2>23. CASE DropRef
    BY <2>23 DEF DropRef, Step, KeepSlot, KeepRest
  <2>24. CASE DropSav
    BY <2>24 DEF DropSav, Step, KeepSlot, KeepRest
  <2>25. CASE Commit
    BY <2>25 DEF Commit, Step, KeepSlot, KeepRest
  <2>26. CASE Unref
    BY <2>26 DEF Unref, Step, KeepSlot, KeepRest
  <2>27. CASE Store
    BY <2>27 DEF Store, Step, KeepSlot
  <2>28. CASE Restore
    BY <2>28 DEF Restore, Step, KeepSlot, KeepRest, Fault, NoFault
  <2>29. CASE UnrefOld
    BY <2>29 DEF UnrefOld, Step, KeepSlot, KeepRest
  <2>30. CASE Survivor
    BY <2>30 DEF Survivor, Step, KeepSlot
  <2>31. CASE Flush
    BY <2>31 DEF Flush, Step, KeepSlot, KeepRest
  <2>32. CASE Retry
    BY <2>32 DEF Retry, Requeue, NextLatch
  <2>33. CASE Restart
    BY <2>33 DEF Restart, Requeue, NextLatch
  <2>34. CASE DropStale
    BY <2>34 DEF DropStale
  <2>35. CASE StaleSav
    BY <2>35 DEF StaleSav, Step, KeepSlot, KeepRest
  <2>36. CASE StaleRef
    BY <2>36 DEF StaleRef, Step, KeepSlot, KeepRest
  <2>37. CASE Settle
    BY <2>37 DEF Settle, Settles
  <2>38. CASE SavePage
    BY <2>38 DEF SavePage, Settles, Step, KeepSlot, KeepRest, Fault,
       NoFault
  <2>39. CASE WritePage
    BY <2>39 DEF WritePage, Step, KeepSlot, KeepRest, Fault, NoFault
  <2>40. CASE SettleUncreated
    BY <2>40 DEF SettleUncreated, Step, KeepSlot, KeepRest, Fault, NoFault
  <2>41. CASE EndRun
    BY <2>41 DEF EndRun, Down
  <2>42. CASE Kill
    BY <2>42 DEF Kill, Down
  <2>43. CASE UNCHANGED vars
    BY <2>43 DEF vars
  <2> QED
    BY <2>1, <2>2, <2>3, <2>4, <2>5, <2>6, <2>7, <2>8, <2>9, <2>10, <2>11,
       <2>12, <2>13, <2>14, <2>15, <2>16, <2>17, <2>18, <2>19, <2>20, <2>21,
       <2>22, <2>23, <2>24, <2>25, <2>26, <2>27, <2>28, <2>29, <2>30, <2>31,
       <2>32, <2>33, <2>34, <2>35, <2>36, <2>37, <2>38, <2>39, <2>40, <2>41,
       <2>42, <2>43
       DEF Next, Work, Adding, Answering, Transfer, Finalize, Verdict,
       Finished
<1> QED
  BY <1>1, <1>2, TypeCorrect, PTL DEF Spec

LEMMA SelfAnsweredHolds == Spec => []SelfAnswered
<1>1. Init => SelfAnswered
  BY DEF Init, SelfAnswered
<1>2. TypeOK /\ Bearings /\ SelfAnswered /\ [Next]_vars => SelfAnswered'
  <2> SUFFICES ASSUME TypeOK, Bearings, SelfAnswered, [Next]_vars
               PROVE  SelfAnswered'
    OBVIOUS
  <2> USE DEF SelfAnswered, files, link, slot
  <2>1. CASE Change \/ Stop \/ EndRun \/ Kill \/ UNCHANGED vars
    BY <2>1 DEF Change, Stop, EndRun, Kill, Down, vars
  <2>2. CASE Start
    <3>1. sav' = sav /\ cached' = cached /\ pc' = "queued" /\ code' = "none"
      BY <2>2 DEF Start, Bearings
    <3>2. found' = "vouched" /\ "update" \notin flags' =>
             /\ Exists(sav) /\ sav.size = Size[cached.ver] /\ cached.state = "ok"
      BY <2>2 DEF Start, Found, Whole
    <3> QED
      BY <3>1, <3>2 DEF Exists
  <2>3. CASE Adding
    BY <2>3 DEF Adding, AddFromCache, AddStopped, AddRequest, AnswersFromCache,
       ReadsFromDisk, Ready, Exists
  <2>4. CASE Answering
    BY <2>4 DEF Answering, NoAnswer, Answer304, AnswerUnusable, AnswerStale,
       AnswerError, Answer206, Answer200, NotModified, SlotKept
  <2>5. CASE Transfer
    BY <2>5 DEF Transfer, Backup, Create, Truncate, WriteRef, Receive, BodyEnds,
       BodyFails, AbortStopped, DropRef, DropSav, KeepRest
  <2>6. CASE Finalize
    <3>1. CASE Flush
      <4>1. sav'.there = sav.there /\ sav'.size = sav.size
        BY <3>1 DEF Flush, TypeOK, File
      <4> QED
        BY <3>1, <4>1 DEF Flush, Step, KeepSlot, KeepRest, Exists
    <3>2. CASE Commit \/ Unref \/ Store \/ Restore \/ UnrefOld \/ Survivor
      BY <3>2 DEF Commit, Unref, Store, Restore, UnrefOld, Survivor, Step,
         KeepSlot, KeepRest, Exists
    <3> QED
      BY <2>6, <3>1, <3>2 DEF Finalize
  <2>7. CASE Verdict
    BY <2>7 DEF Verdict, Retry, Restart, Requeue, NextLatch, DropStale, StaleSav,
       StaleRef, Settle, SavePage, Settles, WritePage, SettleUncreated, CanRetry,
       Step, KeepSlot, KeepRest, Exists, Slotted
  <2> QED
    BY <2>1, <2>2, <2>3, <2>4, <2>5, <2>6, <2>7 DEF Next, Work, Finished
<1> QED
  BY <1>1, <1>2, TypeCorrect, BearingsHold, PTL DEF Spec

LEMMA CopyPlaceHolds == Spec => []CopyPlace
<1>1. Init => CopyPlace
  BY DEF Init, CopyPlace, Guarded
<1>2. TypeOK /\ Bearings /\ SelfAnswered /\ CopyPlace /\ [Next]_vars
        => CopyPlace'
  <2> SUFFICES ASSUME TypeOK, Bearings, SelfAnswered, CopyPlace, [Next]_vars
               PROVE  CopyPlace'
    OBVIOUS
  <2> USE DEF TypeOK, Bearings, CopyPlace, Guarded, PageOver, Conditional,
              files, link, slot
  <2>1. CASE Change
    BY <2>1 DEF Change
  <2>2. CASE Stop
    BY <2>2 DEF Stop
  <2>3. CASE Start
    <3>1. found' # "nothing" => Whole(sav)
      BY <2>3 DEF Start, Found
    <3>2. pc' = "queued" /\ tmp' = "none" /\ code' = "none" /\ req' = NoRequest
      BY <2>3 DEF Start
    <3> QED
      BY <2>3, <3>1, <3>2 DEF Start, NoRequest
  <2>4. CASE AddFromCache
    BY <2>4 DEF AddFromCache, Ready, TakenForEntry, NoRequest,
       AnswersFromCache, ReadsFromDisk
  <2>5. CASE AddStopped
    BY <2>5 DEF AddStopped, Ready, NoRequest
  <2>6. CASE AddRequest
    <3>1. Guarded => sav.size > 0 /\ InCache
      BY <2>6, BoundsAssumption DEF AddRequest, Whole, InCache, BoundsAssumption,
         File
    <3>2. Guarded => ChosenRequest.kind # "range"
      BY <3>1 DEF ChosenRequest, Plain, NoRequest
    <3>3. Guarded /\ found = "vouched" => ChosenRequest.kind = "cond"
      BY <2>6, <3>1 DEF AddRequest, AnswersFromCache, ReadsFromDisk, SelfAnswered,
         ChosenRequest
    <3>4. Guarded' => Guarded
      BY <2>6 DEF AddRequest
    <3> QED
      BY <2>6, <3>2, <3>3, <3>4 DEF AddRequest, Ready
  <2>7. CASE NoAnswer
    BY <2>7 DEF NoAnswer, Ready, SlotKept
  <2>8. CASE Answer304
    BY <2>8 DEF Answer304, Ready, SlotKept
  <2>9. CASE AnswerUnusable
    BY <2>9 DEF AnswerUnusable, Ready, SlotKept, Ranged
  <2>10. CASE AnswerStale
    BY <2>10 DEF AnswerStale, Ready, SlotKept, Ranged
  <2>11. ASSUME NEW c \in Codes, AnswerError(c)
        PROVE  CopyPlace'
    BY <2>11, WholeFacts DEF AnswerError, Ready, SlotKept
  <2>12. CASE Answer206
    BY <2>12 DEF Answer206, Ready, Ranged
  <2>13. CASE Answer200
    BY <2>13 DEF Answer200, Ready, SlotKept
  <2>14. CASE NotModified
    BY <2>14 DEF NotModified, Ready, TakenForEntry
  <2>15. CASE Backup
    BY <2>15, WholeFacts DEF Backup, Step, KeepSlot, KeepRest, Fault,
       NoFault
  <2>16. CASE Create
    BY <2>16 DEF Create, Step, KeepSlot, KeepRest, Fault, NoFault, Empty,
       Exists
  <2>17. CASE Truncate
    BY <2>17 DEF Truncate, Step, KeepSlot, KeepRest, Fault, NoFault
  <2>18. CASE WriteRef
    BY <2>18 DEF WriteRef, Step, KeepSlot, KeepRest
  <2>19. CASE Receive
    <3>1. Guarded /\ pc = "body" => Exists(sav') /\ sav'.ver = resp
      BY <2>19, GrownFacts DEF Receive
    <3> QED
      BY <2>19, <3>1 DEF Receive, Step, KeepSlot, KeepRest
  <2>20. CASE BodyEnds
    <3>1. Guarded /\ sav.size = Size[resp] => Whole(sav)
      BY <2>20, WholeFacts DEF BodyEnds
    <3> QED
      BY <2>20, <3>1 DEF BodyEnds, Step, KeepRest
  <2>21. CASE BodyFails
    BY <2>21 DEF BodyFails, Step, KeepSlot, KeepRest, Fault, NoFault
  <2>22. CASE AbortStopped
    BY <2>22 DEF AbortStopped, Step, KeepSlot, KeepRest
  <2>23. CASE DropRef
    BY <2>23 DEF DropRef, Step, KeepSlot, KeepRest
  <2>24. CASE DropSav
    BY <2>24 DEF DropSav, Step, KeepSlot, KeepRest
  <2>25. CASE Commit
    <3>1. Guarded => Whole(sav)
      BY <2>25 DEF Commit
    <3>2. pc' \in {"unref", "store"} /\ tmp' = "none" /\ sav' = sav
      BY <2>25 DEF Commit, Step
    <3> QED
      BY <2>25, <3>1, <3>2 DEF Commit, KeepSlot, KeepRest
  <2>26. CASE Unref
    BY <2>26 DEF Unref, Step, KeepSlot, KeepRest
  <2>27. CASE Store
    BY <2>27 DEF Store, Step, KeepSlot
  <2>28. CASE Restore
    <3>1. Guarded' => Guarded /\ Whole(sav')
      BY <2>28 DEF Restore, KeepRest, Fault, NoFault
    <3>2. pc' \in {"unrefOld", "survivor"} /\ tmp' = "none"
      BY <2>28 DEF Restore, Step
    <3> QED
      BY <2>28, <3>1, <3>2 DEF Restore, KeepSlot, KeepRest
  <2>29. CASE UnrefOld
    BY <2>29 DEF UnrefOld, Step, KeepSlot, KeepRest
  <2>30. CASE Survivor
    BY <2>30 DEF Survivor, Step, KeepSlot
  <2>31. CASE Flush
    BY <2>31, WholeFacts DEF Flush, Step, KeepSlot, KeepRest
  <2>32. CASE Retry
    BY <2>32 DEF Retry, Requeue, NextLatch, NoRequest
  <2>33. CASE Restart
    BY <2>33 DEF Restart, Requeue, NextLatch, NoRequest
  <2>34. CASE DropStale
    BY <2>34 DEF DropStale
  <2>35. CASE StaleSav
    BY <2>35 DEF StaleSav, Step, KeepSlot, KeepRest
  <2>36. CASE StaleRef
    BY <2>36 DEF StaleRef, Step, KeepSlot, KeepRest, NoRequest
  <2>37. CASE Settle
    BY <2>37 DEF Settle, Settles
  <2>38. CASE SavePage
    BY <2>38, PageFacts DEF SavePage, Settles, Step, KeepSlot, KeepRest, Fault,
       NoFault
  <2>39. CASE WritePage
    BY <2>39, PageFacts DEF WritePage, Step, KeepSlot, KeepRest, Fault, NoFault
  <2>40. CASE SettleUncreated
    BY <2>40 DEF SettleUncreated, Step, KeepSlot, KeepRest, Fault, NoFault
  <2>41. CASE EndRun
    BY <2>41 DEF EndRun, Down, NoFile
  <2>42. CASE Kill
    BY <2>42 DEF Kill, Down, NoFile
  <2>43. CASE UNCHANGED vars
    BY <2>43 DEF vars
  <2> QED
    BY <2>1, <2>2, <2>3, <2>4, <2>5, <2>6, <2>7, <2>8, <2>9, <2>10, <2>11,
       <2>12, <2>13, <2>14, <2>15, <2>16, <2>17, <2>18, <2>19, <2>20, <2>21,
       <2>22, <2>23, <2>24, <2>25, <2>26, <2>27, <2>28, <2>29, <2>30, <2>31,
       <2>32, <2>33, <2>34, <2>35, <2>36, <2>37, <2>38, <2>39, <2>40, <2>41,
       <2>42, <2>43
       DEF Next, Work, Adding, Answering, Transfer, Finalize, Verdict,
       Finished
<1> QED
  BY <1>1, <1>2, TypeCorrect, BearingsHold, SelfAnsweredHolds,
     PTL DEF Spec

\* At every step of every run, those a kill may fall between included, a copy
\* the run found whole is on the disk, in place or as the backup.
THEOREM CopyAlwaysOnDiskHolds == Spec => []CopyAlwaysOnDisk
<1>1. TypeOK /\ CopyPlace => CopyAlwaysOnDisk
  BY DEF TypeOK, CopyPlace, Guarded, CopyAlwaysOnDisk
<1> QED
  BY <1>1, TypeCorrect, CopyPlaceHolds, PTL

\* However the re-fetch ends, the link is settled with a whole file in place.
THEOREM CopyBackInPlaceHolds == Spec => []CopyBackInPlace
<1>1. TypeOK /\ Bearings /\ CopyPlace => CopyBackInPlace
  BY DEF TypeOK, Bearings, CopyPlace, Guarded, CopyBackInPlace
<1> QED
  BY <1>1, TypeCorrect, BearingsHold, CopyPlaceHolds, PTL

-----------------------------------------------------------------------------
(* The partial and the cache.  A file is resumed from the version its ref    *)
(* names, or from the one its date names; what is entered in the cache is    *)
(* what was then on disk.                                                    *)

\* No resume was misled by a date or an error page, and no kill left a ref to
\* another file.
Genuine == marks \cap {"stray", "misdated", "pageResumed"} = {}

\* The site never goes back to an earlier version.
SiteAhead ==
    /\ sav.ver <= site \/ sav.ver = Page
    /\ bak.ver <= site \/ bak.ver = Page
    /\ pc \in {"backup", "create", "truncate", "writeRef", "body"} => resp <= site

\* A file with bytes is there, and so is the partial a request resumes.
PartialThere ==
    /\ sav.size > 0 => Exists(sav)
    /\ bak.size > 0 => Exists(bak)
    /\ pc = "asked" /\ Ranged => Exists(sav)
    /\ pc = "truncate" => Exists(sav)

PartialPlace ==
    Genuine =>
        /\ ref # 0 /\ sav.size > 0 /\ pc # "unrefOld" => sav.ver \in {ref, Page}
        /\ pc = "asked" /\ Ranged =>
               /\ req.size = sav.size
               /\ \A v \in req.accepts : v >= site => v = sav.ver
        /\ pc = "truncate" => /\ req.size <= sav.size
                              /\ req.size = 0 \/ sav.ver = resp
        /\ pc \in {"writeRef", "body"} =>
               Exists(sav) /\ (sav.size = 0 \/ sav.ver = resp)
        /\ pc = "body" => ref = resp

\* The answer of a slot about to be entered is a good one, with a body.
Entering == /\ pc \in {"commit", "unref", "store"}
            /\ code = "ok" /\ "isFile" \notin flags

EntryPlace ==
    /\ pc \in {"down", "queued", "asked", "notmod"} \/ code = "ok" =>
           "wholeNext" \notin flags
    /\ cached.state = "ok" => cached.ver \in Versions
    /\ entry.state = "ok" =>
           /\ entry.ver \in Versions
           /\ pc \in {"flush", "verdict", "done"} /\ code = "ok"
    /\ Entering => resp \in Versions
    /\ marks \subseteq {"faulty"} /\ (Entering \/ entry.state = "ok") => Whole(sav)

LEMMA FileFacts ==
    ASSUME NEW f \in File
    PROVE  /\ f.size \in Nat /\ f.ver \in 0..Page /\ f.time \in 0..MaxVersion
           /\ \A t : /\ [f EXCEPT !.time = t].ver = f.ver
                     /\ [f EXCEPT !.time = t].size = f.size
                     /\ Exists([f EXCEPT !.time = t]) <=> Exists(f)
  BY DEF File, Exists

LEMMA CutFacts ==
    ASSUME NEW f \in File, NEW n \in Nat, NEW t, Exists(f), n <= f.size
    PROVE  /\ Exists(Cut(f, n, t)) /\ Cut(f, n, t).size = n
           /\ Cut(f, n, t).ver \in {0, f.ver}
           /\ n > 0 => Cut(f, n, t).ver = f.ver /\ f.size > 0
  BY FileFacts DEF Cut, Exists, File

LEMMA GrownBound ==
    ASSUME NEW f \in File, NEW v \in 0..MaxVersion, NEW t
    PROVE  /\ Grown(f, v, t).ver \in {0, v} /\ Exists(Grown(f, v, t))
           /\ f.size = 0 \/ f.ver = v => Grown(f, v, t).ver = v
  BY DEF Grown, Exists

LEMMA EmptyFacts ==
    /\ NoFile.ver = 0 /\ NoFile.size = 0
    /\ \A t : Empty(t).ver = 0 /\ Empty(t).size = 0 /\ Exists(Empty(t))
  BY DEF NoFile, Empty, Exists

LEMMA SiteAheadHolds == Spec => []SiteAhead
<1>1. Init => SiteAhead
  BY EmptyFacts DEF Init, SiteAhead
<1>2. TypeOK /\ Bearings /\ SiteAhead /\ [Next]_vars => SiteAhead'
  <2> SUFFICES ASSUME TypeOK, Bearings, SiteAhead, [Next]_vars
               PROVE  SiteAhead'
    OBVIOUS
  <2>0. /\ site \in Nat /\ resp \in Nat /\ MaxVersion \in Nat
        /\ sav.ver \in Nat /\ bak.ver \in Nat /\ sav.size \in Nat
    BY FileFacts, BoundsAssumption DEF BoundsAssumption, TypeOK
  <2> USE DEF TypeOK, Bearings, SiteAhead, files, link, slot
  <2>1. CASE Change
    BY <2>1, <2>0, EmptyFacts DEF Change, BoundsAssumption
  <2>2. CASE Stop
    BY <2>2, <2>0, EmptyFacts DEF Stop
  <2>3. CASE Start
    BY <2>3, <2>0, EmptyFacts DEF Start, BoundsAssumption
  <2>4. CASE AddFromCache
    BY <2>4, <2>0, EmptyFacts DEF AddFromCache, Ready, TakenForEntry
  <2>5. CASE AddStopped
    BY <2>5, <2>0, EmptyFacts DEF AddStopped, Ready
  <2>6. CASE AddRequest
    BY <2>6, <2>0, EmptyFacts DEF AddRequest, Ready
  <2>7. CASE NoAnswer
    BY <2>7, <2>0, EmptyFacts DEF NoAnswer, Ready, SlotKept
  <2>8. CASE Answer304
    BY <2>8, <2>0, EmptyFacts DEF Answer304, Ready, SlotKept
  <2>9. CASE AnswerUnusable
    BY <2>9, <2>0, EmptyFacts DEF AnswerUnusable, Ready, SlotKept
  <2>10. CASE AnswerStale
    BY <2>10, <2>0, EmptyFacts DEF AnswerStale, Ready, SlotKept
  <2>11. ASSUME NEW c \in Codes, AnswerError(c)
        PROVE  SiteAhead'
    BY <2>11, <2>0, EmptyFacts DEF AnswerError, Ready, SlotKept
  <2>12. CASE Answer206
    BY <2>12, <2>0, EmptyFacts DEF Answer206, Ready
  <2>13. CASE Answer200
    BY <2>13, <2>0, EmptyFacts DEF Answer200, Ready, SlotKept
  <2>14. CASE NotModified
    BY <2>14, <2>0, EmptyFacts DEF NotModified, Ready, TakenForEntry
  <2>15. CASE Backup
    BY <2>15, <2>0, EmptyFacts DEF Backup, Step, KeepSlot, KeepRest, Fault,
       NoFault
  <2>16. CASE Create
    BY <2>16, <2>0, EmptyFacts DEF Create, Step, KeepSlot, KeepRest, Fault,
       NoFault
  <2>17. CASE Truncate
    <3>1. Cut(sav, req.size, site).ver \in {0, sav.ver}
      BY FileFacts DEF Cut, File
    <3>2. sav'.ver <= site \/ sav'.ver = Page
      BY <2>17, <2>0, <3>1 DEF Truncate
    <3> QED
      BY <2>17, <2>0, <3>2 DEF Truncate, Step, KeepSlot, KeepRest
  <2>18. CASE WriteRef
    BY <2>18, <2>0, EmptyFacts DEF WriteRef, Step, KeepSlot, KeepRest
  <2>19. CASE Receive
    BY <2>19, <2>0, GrownBound DEF Receive, Step, KeepSlot, KeepRest
  <2>20. CASE BodyEnds
    BY <2>20, <2>0, EmptyFacts DEF BodyEnds, Step, KeepSlot, KeepRest
  <2>21. CASE BodyFails
    BY <2>21, <2>0, EmptyFacts DEF BodyFails, Step, KeepSlot, KeepRest,
       Fault, NoFault
  <2>22. CASE AbortStopped
    BY <2>22, <2>0, EmptyFacts DEF AbortStopped, Step, KeepSlot, KeepRest
  <2>23. CASE DropRef
    BY <2>23, <2>0, EmptyFacts DEF DropRef, Step, KeepSlot, KeepRest
  <2>24. CASE DropSav
    BY <2>24, <2>0, EmptyFacts DEF DropSav, Step, KeepSlot, KeepRest
  <2>25. CASE Commit
    BY <2>25, <2>0, EmptyFacts DEF Commit, Step, KeepSlot, KeepRest
  <2>26. CASE Unref
    BY <2>26, <2>0, EmptyFacts DEF Unref, Step, KeepSlot, KeepRest
  <2>27. CASE Store
    BY <2>27, <2>0, EmptyFacts DEF Store, Step, KeepSlot
  <2>28. CASE Restore
    BY <2>28, <2>0, EmptyFacts DEF Restore, Step, KeepSlot, KeepRest, Fault,
       NoFault
  <2>29. CASE UnrefOld
    BY <2>29, <2>0, EmptyFacts DEF UnrefOld, Step, KeepSlot, KeepRest
  <2>30. CASE Survivor
    BY <2>30, <2>0, EmptyFacts DEF Survivor, Step, KeepSlot
  <2>31. CASE Flush
    BY <2>31, <2>0, FileFacts DEF Flush, Step, KeepSlot, KeepRest
  <2>32. CASE Retry
    BY <2>32, <2>0, EmptyFacts DEF Retry, Requeue, NextLatch
  <2>33. CASE Restart
    BY <2>33, <2>0, EmptyFacts DEF Restart, Requeue, NextLatch
  <2>34. CASE DropStale
    BY <2>34, <2>0, EmptyFacts DEF DropStale
  <2>35. CASE StaleSav
    BY <2>35, <2>0, EmptyFacts DEF StaleSav, Step, KeepSlot, KeepRest
  <2>36. CASE StaleRef
    BY <2>36, <2>0, EmptyFacts DEF StaleRef, Step, KeepSlot, KeepRest
  <2>37. CASE Settle
    BY <2>37, <2>0, EmptyFacts DEF Settle, Settles
  <2>38. CASE SavePage
    BY <2>38, <2>0, PageFacts DEF SavePage, Settles, Step, KeepSlot, KeepRest, Fault,
       NoFault
  <2>39. CASE WritePage
    BY <2>39, <2>0, PageFacts DEF WritePage, Step, KeepSlot, KeepRest, Fault, NoFault
  <2>40. CASE SettleUncreated
    BY <2>40, <2>0, EmptyFacts DEF SettleUncreated, Step, KeepSlot,
       KeepRest, Fault, NoFault
  <2>41. CASE EndRun
    BY <2>41, <2>0, EmptyFacts DEF EndRun, Down
  <2>42. CASE Kill
    BY <2>42, <2>0, EmptyFacts DEF Kill, Down
  <2>43. CASE UNCHANGED vars
    BY <2>43, <2>0, EmptyFacts DEF vars
  <2> QED
    BY <2>1, <2>2, <2>3, <2>4, <2>5, <2>6, <2>7, <2>8, <2>9, <2>10, <2>11,
       <2>12, <2>13, <2>14, <2>15, <2>16, <2>17, <2>18, <2>19, <2>20, <2>21,
       <2>22, <2>23, <2>24, <2>25, <2>26, <2>27, <2>28, <2>29, <2>30, <2>31,
       <2>32, <2>33, <2>34, <2>35, <2>36, <2>37, <2>38, <2>39, <2>40, <2>41,
       <2>42, <2>43
       DEF Next, Work, Adding, Answering, Transfer, Finalize, Verdict,
       Finished
<1> QED
  BY <1>1, <1>2, TypeCorrect, BearingsHold, PTL DEF Spec

LEMMA PartialThereHolds == Spec => []PartialThere
<1>1. Init => PartialThere
  BY EmptyFacts DEF Init, PartialThere
<1>2. TypeOK /\ PartialThere /\ [Next]_vars => PartialThere'
  <2> SUFFICES ASSUME TypeOK, PartialThere, [Next]_vars PROVE PartialThere'
    OBVIOUS
  <2> USE DEF TypeOK, PartialThere, Ranged, files, link, slot
  <2>1. CASE Change
    BY <2>1 DEF Change
  <2>2. CASE Stop
    BY <2>2 DEF Stop
  <2>3. CASE Start
    BY <2>3 DEF Start
  <2>4. CASE AddFromCache
    BY <2>4 DEF AddFromCache, Ready, TakenForEntry, NoRequest, Ranged
  <2>5. CASE AddStopped
    BY <2>5 DEF AddStopped, Ready, NoRequest, Ranged
  <2>6. CASE AddRequest
    BY <2>6 DEF AddRequest, Ready, ChosenRequest, Plain, RangeRequest,
       NoRequest, Ranged
  <2>7. CASE NoAnswer
    BY <2>7 DEF NoAnswer, Ready, SlotKept
  <2>8. CASE Answer304
    BY <2>8 DEF Answer304, Ready, SlotKept
  <2>9. CASE AnswerUnusable
    BY <2>9 DEF AnswerUnusable, Ready, SlotKept, Ranged
  <2>10. CASE AnswerStale
    BY <2>10 DEF AnswerStale, Ready, SlotKept, Ranged
  <2>11. ASSUME NEW c \in Codes, AnswerError(c)
        PROVE  PartialThere'
    BY <2>11 DEF AnswerError, Ready, SlotKept
  <2>12. CASE Answer206
    BY <2>12 DEF Answer206, Ready, Ranged
  <2>13. CASE Answer200
    BY <2>13 DEF Answer200, Ready, SlotKept
  <2>14. CASE NotModified
    BY <2>14 DEF NotModified, Ready, TakenForEntry
  <2>15. CASE Backup
    BY <2>15, EmptyFacts DEF Backup, Step, KeepSlot, KeepRest, Fault,
       NoFault
  <2>16. CASE Create
    BY <2>16, EmptyFacts DEF Create, Step, KeepSlot, KeepRest, Fault,
       NoFault
  <2>17. CASE Truncate
    <3>1. Exists(Cut(sav, req.size, site))
      BY <2>17 DEF Truncate, Cut, Exists
    <3> QED
      BY <2>17, <3>1 DEF Truncate, Step, KeepSlot, KeepRest
  <2>18. CASE WriteRef
    BY <2>18 DEF WriteRef, Step, KeepSlot, KeepRest
  <2>19. CASE Receive
    BY <2>19, GrownBound DEF Receive, Step, KeepSlot, KeepRest
  <2>20. CASE BodyEnds
    BY <2>20 DEF BodyEnds, Step, KeepSlot, KeepRest
  <2>21. CASE BodyFails
    BY <2>21 DEF BodyFails, Step, KeepSlot, KeepRest, Fault, NoFault
  <2>22. CASE AbortStopped
    BY <2>22 DEF AbortStopped, Step, KeepSlot, KeepRest
  <2>23. CASE DropRef
    BY <2>23 DEF DropRef, Step, KeepSlot, KeepRest
  <2>24. CASE DropSav
    BY <2>24, EmptyFacts DEF DropSav, Step, KeepSlot, KeepRest
  <2>25. CASE Commit
    BY <2>25, EmptyFacts DEF Commit, Step, KeepSlot, KeepRest
  <2>26. CASE Unref
    BY <2>26 DEF Unref, Step, KeepSlot, KeepRest
  <2>27. CASE Store
    BY <2>27 DEF Store, Step, KeepSlot
  <2>28. CASE Restore
    BY <2>28, EmptyFacts DEF Restore, Step, KeepSlot, KeepRest, Fault,
       NoFault
  <2>29. CASE UnrefOld
    BY <2>29 DEF UnrefOld, Step, KeepSlot, KeepRest
  <2>30. CASE Survivor
    BY <2>30 DEF Survivor, Step, KeepSlot
  <2>31. CASE Flush
    BY <2>31, FileFacts DEF Flush, Step, KeepSlot, KeepRest
  <2>32. CASE Retry
    BY <2>32 DEF Retry, Requeue, NextLatch, NoRequest
  <2>33. CASE Restart
    BY <2>33 DEF Restart, Requeue, NextLatch, NoRequest
  <2>34. CASE DropStale
    BY <2>34 DEF DropStale
  <2>35. CASE StaleSav
    BY <2>35, EmptyFacts DEF StaleSav, Step, KeepSlot, KeepRest
  <2>36. CASE StaleRef
    BY <2>36 DEF StaleRef, Step, KeepSlot, KeepRest, NoRequest
  <2>37. CASE Settle
    BY <2>37 DEF Settle, Settles
  <2>38. CASE SavePage
    BY <2>38, PageFacts DEF SavePage, Settles, Step, KeepSlot, KeepRest, Fault,
       NoFault
  <2>39. CASE WritePage
    BY <2>39, PageFacts DEF WritePage, Step, KeepSlot, KeepRest, Fault, NoFault
  <2>40. CASE SettleUncreated
    BY <2>40, EmptyFacts DEF SettleUncreated, Step, KeepSlot, KeepRest,
       Fault, NoFault
  <2>41. CASE EndRun
    BY <2>41, EmptyFacts DEF EndRun, Down, NoRequest
  <2>42. CASE Kill
    BY <2>42, EmptyFacts DEF Kill, Down, NoRequest
  <2>43. CASE UNCHANGED vars
    BY <2>43 DEF vars
  <2> QED
    BY <2>1, <2>2, <2>3, <2>4, <2>5, <2>6, <2>7, <2>8, <2>9, <2>10, <2>11,
       <2>12, <2>13, <2>14, <2>15, <2>16, <2>17, <2>18, <2>19, <2>20, <2>21,
       <2>22, <2>23, <2>24, <2>25, <2>26, <2>27, <2>28, <2>29, <2>30, <2>31,
       <2>32, <2>33, <2>34, <2>35, <2>36, <2>37, <2>38, <2>39, <2>40, <2>41,
       <2>42, <2>43
       DEF Next, Work, Adding, Answering, Transfer, Finalize, Verdict,
       Finished
<1> QED
  BY <1>1, <1>2, TypeCorrect, PTL DEF Spec

LEMMA PartialPlaceHolds == Spec => []PartialPlace
<1>1. Init => PartialPlace
  BY EmptyFacts DEF Init, PartialPlace
<1>2. TypeOK /\ Bearings /\ SiteAhead /\ PartialThere /\ PartialPlace /\ [Next]_vars
        => PartialPlace'
  <2> SUFFICES ASSUME TypeOK, Bearings, SiteAhead, PartialThere, PartialPlace,
                      [Next]_vars
               PROVE  PartialPlace'
    OBVIOUS
  <2>0. /\ site \in Nat /\ resp \in Nat /\ MaxVersion \in Nat /\ ref \in Nat
        /\ sav.ver \in Nat /\ sav.size \in Nat /\ sav.time \in Nat
        /\ req.size \in Nat /\ req.accepts \in SUBSET (0..MaxVersion)
    BY FileFacts, BoundsAssumption
       DEF BoundsAssumption, TypeOK, Request
  <2> USE DEF TypeOK, Bearings, SiteAhead, PartialThere, PartialPlace, Genuine,
              Ranged, files, link, slot
  <2>1. CASE Change
    BY <2>1, <2>0, EmptyFacts DEF Change
  <2>2. CASE Stop
    BY <2>2, <2>0, EmptyFacts DEF Stop
  <2>3. CASE Start
    BY <2>3, <2>0, EmptyFacts DEF Start
  <2>4. CASE AddFromCache
    BY <2>4, <2>0, EmptyFacts DEF AddFromCache, Ready, TakenForEntry,
       NoRequest
  <2>5. CASE AddStopped
    BY <2>5, <2>0, EmptyFacts DEF AddStopped, Ready, NoRequest
  <2>6. CASE AddRequest
    <3>1. CASE req'.kind # "range"
      BY <2>6, <3>1, <2>0 DEF AddRequest, Ready
    <3>2. CASE req'.kind = "range"
      <4>1. /\ ~InCache /\ "latched" \notin flags /\ sav.size > 0
            /\ req' = RangeRequest(sav)
        BY <2>6, <3>2 DEF AddRequest, ChosenRequest, Plain, NoRequest
      <4>2. req'.size = sav.size /\ ref' = ref
        BY <2>6, <4>1, <2>0 DEF AddRequest, RangeRequest
      <4>5. Genuine' => /\ Genuine /\ sav.ver # Page
                        /\ ref = 0 => sav.time = sav.ver
        BY <2>6, <3>2 DEF AddRequest, Mistaken
      <4>3. CASE ref # 0
        <5>1. req'.accepts = {ref}
          BY <4>1, <4>3 DEF RangeRequest
        <5> QED
          BY <2>6, <4>1, <4>2, <4>3, <4>5, <5>1, <2>0 DEF AddRequest, Ready
      <4>4. CASE ref = 0
        <5>1. req'.accepts = {v \in Versions : v <= sav.time}
          BY <4>1, <4>4 DEF RangeRequest
        <5>2. Genuine' => sav.time = sav.ver
          BY <4>4, <4>5
        <5>3. Genuine' => \A v \in req'.accepts : v >= site => v = sav.ver
          BY <4>5, <5>1, <5>2, <2>0 DEF Versions
        <5> QED
          BY <2>6, <4>2, <4>4, <5>3, <2>0 DEF AddRequest, Ready
      <4> QED
        BY <4>3, <4>4
    <3> QED
      BY <3>1, <3>2
  <2>7. CASE NoAnswer
    BY <2>7, <2>0, EmptyFacts DEF NoAnswer, Ready, SlotKept
  <2>8. CASE Answer304
    BY <2>8, <2>0, EmptyFacts DEF Answer304, Ready, SlotKept
  <2>9. CASE AnswerUnusable
    BY <2>9, <2>0, EmptyFacts DEF AnswerUnusable, Ready, SlotKept
  <2>10. CASE AnswerStale
    BY <2>10, <2>0, EmptyFacts DEF AnswerStale, Ready, SlotKept
  <2>11. ASSUME NEW c \in Codes, AnswerError(c)
        PROVE  PartialPlace'
    BY <2>11, <2>0, EmptyFacts DEF AnswerError, Ready, SlotKept
  <2>12. CASE Answer206
    <3>1. PICK start \in 0..req.size :
                 req' = [req EXCEPT !.size = start]
      BY <2>12 DEF Answer206
    <3>2. req'.size = start /\ start <= req.size
      BY <3>1, <2>0 DEF Request
    <3>3. Genuine => site = sav.ver /\ req.size = sav.size
      BY <2>12, <2>0 DEF Answer206, Accepts
    <3> QED
      BY <2>12, <3>2, <3>3, <2>0 DEF Answer206, Ready
  <2>13. CASE Answer200
    BY <2>13, <2>0, EmptyFacts DEF Answer200, Ready, SlotKept
  <2>14. CASE NotModified
    BY <2>14, <2>0, EmptyFacts DEF NotModified, Ready, TakenForEntry
  <2>15. CASE Backup
    BY <2>15, <2>0, EmptyFacts DEF Backup, Step, KeepSlot, KeepRest, Fault,
       NoFault
  <2>16. CASE Create
    BY <2>16, <2>0, EmptyFacts DEF Create, Step, KeepSlot, KeepRest, Fault,
       NoFault
  <2>17. CASE Truncate
    <3>1. CASE sav' = sav /\ pc' \in {"dropRef", "restore"} /\ Fault
      BY <2>17, <3>1, <2>0 DEF Truncate, KeepRest, Fault, NoFault, Step
    <3>2. CASE sav' = Cut(sav, req.size, site) /\ pc' = "writeRef" /\ NoFault
      <4>1. Genuine => Exists(sav') /\ sav'.size = req.size
        BY <2>17, <3>2, <2>0, CutFacts DEF Truncate
      <4>2. Genuine /\ sav'.size > 0 => sav'.ver = sav.ver /\ sav.size > 0
        BY <2>17, <3>2, <4>1, <2>0, CutFacts DEF Truncate
      <4> QED
        BY <2>17, <3>2, <4>1, <4>2, <2>0 DEF Truncate, NoFault, KeepRest
    <3> QED
      BY <2>17, <3>1, <3>2 DEF Truncate, Step
  <2>18. CASE WriteRef
    BY <2>18, <2>0, EmptyFacts DEF WriteRef, Step, KeepSlot, KeepRest
  <2>19. CASE Receive
    BY <2>19, <2>0, GrownBound DEF Receive, Step, KeepSlot, KeepRest
  <2>20. CASE BodyEnds
    BY <2>20, <2>0, EmptyFacts DEF BodyEnds, Step, KeepSlot, KeepRest
  <2>21. CASE BodyFails
    BY <2>21, <2>0, EmptyFacts DEF BodyFails, Step, KeepSlot, KeepRest,
       Fault, NoFault
  <2>22. CASE AbortStopped
    BY <2>22, <2>0, EmptyFacts DEF AbortStopped, Step, KeepSlot, KeepRest
  <2>23. CASE DropRef
    BY <2>23, <2>0, EmptyFacts DEF DropRef, Step, KeepSlot, KeepRest
  <2>24. CASE DropSav
    BY <2>24, <2>0, EmptyFacts DEF DropSav, Step, KeepSlot, KeepRest
  <2>25. CASE Commit
    BY <2>25, <2>0, EmptyFacts DEF Commit, Step, KeepSlot, KeepRest
  <2>26. CASE Unref
    BY <2>26, <2>0, EmptyFacts DEF Unref, Step, KeepSlot, KeepRest
  <2>27. CASE Store
    BY <2>27, <2>0, EmptyFacts DEF Store, Step, KeepSlot
  <2>28. CASE Restore
    BY <2>28, <2>0, EmptyFacts DEF Restore, Step, KeepSlot, KeepRest, Fault,
       NoFault
  <2>29. CASE UnrefOld
    BY <2>29, <2>0, EmptyFacts DEF UnrefOld, Step, KeepSlot, KeepRest
  <2>30. CASE Survivor
    BY <2>30, <2>0, EmptyFacts DEF Survivor, Step, KeepSlot
  <2>31. CASE Flush
    BY <2>31, <2>0, FileFacts DEF Flush, Step, KeepSlot, KeepRest
  <2>32. CASE Retry
    BY <2>32, <2>0, EmptyFacts DEF Retry, Requeue, NextLatch, NoRequest
  <2>33. CASE Restart
    BY <2>33, <2>0, EmptyFacts DEF Restart, Requeue, NextLatch, NoRequest
  <2>34. CASE DropStale
    BY <2>34, <2>0, EmptyFacts DEF DropStale
  <2>35. CASE StaleSav
    BY <2>35, <2>0, EmptyFacts DEF StaleSav, Step, KeepSlot, KeepRest
  <2>36. CASE StaleRef
    BY <2>36, <2>0, EmptyFacts DEF StaleRef, Step, KeepSlot, KeepRest,
       NoRequest
  <2>37. CASE Settle
    BY <2>37, <2>0, EmptyFacts DEF Settle, Settles
  <2>38. CASE SavePage
    BY <2>38, <2>0, PageFacts DEF SavePage, Settles, Step, KeepSlot, KeepRest, Fault,
       NoFault
  <2>39. CASE WritePage
    BY <2>39, <2>0, PageFacts DEF WritePage, Step, KeepSlot, KeepRest, Fault, NoFault
  <2>40. CASE SettleUncreated
    BY <2>40, <2>0, EmptyFacts DEF SettleUncreated, Step, KeepSlot,
       KeepRest, Fault, NoFault
  <2>41. CASE EndRun
    <3>1. Genuine' => Genuine
      BY <2>41 DEF EndRun, OfRun
    <3>2. pc = "done" /\ pc' = "down" /\ sav' = sav /\ ref' \in {0, ref}
      BY <2>41 DEF EndRun, Down
    <3> QED
      BY <2>41, <3>1, <3>2, <2>0
  <2>42. CASE Kill
    <3>1. Genuine' => Genuine /\ pc # "unrefOld"
      BY <2>42 DEF Kill, OfRun
    <3>2. pc' = "down" /\ sav' = sav /\ ref' = ref
      BY <2>42 DEF Kill, Down
    <3> QED
      BY <2>42, <3>1, <3>2, <2>0
  <2>43. CASE UNCHANGED vars
    BY <2>43, <2>0, EmptyFacts DEF vars
  <2> QED
    BY <2>1, <2>2, <2>3, <2>4, <2>5, <2>6, <2>7, <2>8, <2>9, <2>10, <2>11,
       <2>12, <2>13, <2>14, <2>15, <2>16, <2>17, <2>18, <2>19, <2>20, <2>21,
       <2>22, <2>23, <2>24, <2>25, <2>26, <2>27, <2>28, <2>29, <2>30, <2>31,
       <2>32, <2>33, <2>34, <2>35, <2>36, <2>37, <2>38, <2>39, <2>40, <2>41,
       <2>42, <2>43
       DEF Next, Work, Adding, Answering, Transfer, Finalize, Verdict,
       Finished
<1> QED
  BY <1>1, <1>2, TypeCorrect, BearingsHold, SiteAheadHolds, PartialThereHolds,
     PTL DEF Spec

LEMMA EntryPlaceHolds == Spec => []EntryPlace
<1>1. Init => EntryPlace
  BY DEF Init, EntryPlace, Entering, NoEntry
<1>2. TypeOK /\ Bearings /\ PartialPlace /\ EntryPlace /\ [Next]_vars
        => EntryPlace'
  <2> SUFFICES ASSUME TypeOK, Bearings, PartialPlace, EntryPlace, [Next]_vars
               PROVE  EntryPlace'
    OBVIOUS
  <2>0. cached.state \in EntryStates
    BY DEF TypeOK, Entry
  <2> USE DEF TypeOK, Bearings, EntryPlace, Entering, files, link, slot
  <2>1. CASE Change
    BY <2>1 DEF Change
  <2>2. CASE Stop
    BY <2>2 DEF Stop
  <2>3. CASE Start
    BY <2>3 DEF Start, NoEntry
  <2>4. CASE AddFromCache
    <3>1. cached.state = "ok" /\ marks' \subseteq {"faulty"} => Whole(sav)
      BY <2>4 DEF AddFromCache, AnswersFromCache, ReadsFromDisk, TakenForEntry,
         Whole
    <3> QED
      BY <2>4, <3>1 DEF AddFromCache, Ready, TakenForEntry
  <2>5. CASE AddStopped
    BY <2>5 DEF AddStopped, Ready
  <2>6. CASE AddRequest
    BY <2>6 DEF AddRequest, Ready
  <2>7. CASE NoAnswer
    BY <2>7 DEF NoAnswer, Ready, SlotKept
  <2>8. CASE Answer304
    BY <2>8 DEF Answer304, Ready, SlotKept
  <2>9. CASE AnswerUnusable
    BY <2>9 DEF AnswerUnusable, Ready, SlotKept
  <2>10. CASE AnswerStale
    BY <2>10 DEF AnswerStale, Ready, SlotKept
  <2>11. ASSUME NEW c \in Codes, AnswerError(c)
        PROVE  EntryPlace'
    BY <2>11 DEF AnswerError, Ready, SlotKept
  <2>12. CASE Answer206
    BY <2>12, <2>0 DEF Answer206, Ready
  <2>13. CASE Answer200
    BY <2>13, <2>0 DEF Answer200, Ready, SlotKept
  <2>14. CASE NotModified
    <3>1. ReadsFromDisk /\ marks' \subseteq {"faulty"} /\ TakenForEntry => Whole(sav)
      BY DEF ReadsFromDisk, TakenForEntry, Whole
    <3> QED
      BY <2>14, <3>1 DEF NotModified, Ready, ReadsFromDisk, TakenForEntry
  <2>15. CASE Backup
    BY <2>15 DEF Backup, Step, KeepSlot, KeepRest, Fault, NoFault
  <2>16. CASE Create
    BY <2>16 DEF Create, Step, KeepSlot, KeepRest, Fault, NoFault
  <2>17. CASE Truncate
    BY <2>17 DEF Truncate, Step, KeepSlot, KeepRest, Fault, NoFault
  <2>18. CASE WriteRef
    BY <2>18 DEF WriteRef, Step, KeepSlot, KeepRest
  <2>19. CASE Receive
    BY <2>19 DEF Receive, Step, KeepSlot, KeepRest
  <2>20. CASE BodyEnds
    <3>1. marks \subseteq {"faulty"} /\ sav.size = Size[resp] => Whole(sav)
      BY <2>20, WholeFacts DEF BodyEnds, PartialPlace, Genuine
    <3> QED
      BY <2>20, <3>1 DEF BodyEnds, Step, KeepRest
  <2>21. CASE BodyFails
    BY <2>21 DEF BodyFails, Step, KeepSlot, KeepRest, Fault, NoFault
  <2>22. CASE AbortStopped
    BY <2>22 DEF AbortStopped, Step, KeepSlot, KeepRest
  <2>23. CASE DropRef
    BY <2>23 DEF DropRef, Step, KeepSlot, KeepRest
  <2>24. CASE DropSav
    BY <2>24 DEF DropSav, Step, KeepSlot, KeepRest
  <2>25. CASE Commit
    BY <2>25 DEF Commit, Step, KeepSlot, KeepRest
  <2>26. CASE Unref
    BY <2>26 DEF Unref, Step, KeepSlot, KeepRest
  <2>27. CASE Store
    BY <2>27, <2>0 DEF Store, Step, KeepSlot
  <2>28. CASE Restore
    BY <2>28 DEF Restore, Step, KeepSlot, KeepRest, Fault, NoFault
  <2>29. CASE UnrefOld
    BY <2>29 DEF UnrefOld, Step, KeepSlot, KeepRest
  <2>30. CASE Survivor
    BY <2>30, <2>0 DEF Survivor, Step, KeepSlot, TransferFailed
  <2>31. CASE Flush
    BY <2>31, WholeFacts DEF Flush, Step, KeepSlot, KeepRest
  <2>32. CASE Retry
    BY <2>32 DEF Retry, Requeue, NextLatch, CanRetry, RestartWhole, Slotted
  <2>33. CASE Restart
    BY <2>33 DEF Restart, Requeue, NextLatch, RestartWhole, Slotted
  <2>34. CASE DropStale
    BY <2>34 DEF DropStale
  <2>35. CASE StaleSav
    BY <2>35 DEF StaleSav, Step, KeepSlot, KeepRest
  <2>36. CASE StaleRef
    BY <2>36 DEF StaleRef, Step, KeepSlot, KeepRest, Slotted
  <2>37. CASE Settle
    BY <2>37 DEF Settle, Settles, RestartWhole, CanRetry
  <2>38. CASE SavePage
    BY <2>38, PageFacts DEF SavePage, Settles, Step, KeepSlot, KeepRest, Fault,
       NoFault
  <2>39. CASE WritePage
    BY <2>39, PageFacts DEF WritePage, Step, KeepSlot, KeepRest, Fault, NoFault
  <2>40. CASE SettleUncreated
    BY <2>40 DEF SettleUncreated, Step, KeepSlot, KeepRest, Fault, NoFault
  <2>41. CASE EndRun
    BY <2>41 DEF EndRun, Down, NoEntry
  <2>42. CASE Kill
    BY <2>42 DEF Kill, Down, NoEntry
  <2>43. CASE UNCHANGED vars
    BY <2>43 DEF vars
  <2> QED
    BY <2>1, <2>2, <2>3, <2>4, <2>5, <2>6, <2>7, <2>8, <2>9, <2>10, <2>11,
       <2>12, <2>13, <2>14, <2>15, <2>16, <2>17, <2>18, <2>19, <2>20, <2>21,
       <2>22, <2>23, <2>24, <2>25, <2>26, <2>27, <2>28, <2>29, <2>30, <2>31,
       <2>32, <2>33, <2>34, <2>35, <2>36, <2>37, <2>38, <2>39, <2>40, <2>41,
       <2>42, <2>43
       DEF Next, Work, Adding, Answering, Transfer, Finalize, Verdict,
       Finished
<1> QED
  BY <1>1, <1>2, TypeCorrect, BearingsHold, PartialPlaceHolds, PTL DEF Spec

\* The ref a run may resume from describes the bytes on disk, whatever kills and
\* failed calls came before.
THEOREM RefDescribesPartialHolds == Spec => []RefDescribesPartial
<1>1. PartialPlace => RefDescribesPartial
  BY DEF PartialPlace, Genuine, RefDescribesPartial
<1> QED
  BY <1>1, PartialPlaceHolds, PTL

\* The cache names no bytes that are not on disk, unless a date, a length or a
\* stray ref made one file pass for another.
THEOREM EnteredWholeHolds == Spec => []EnteredWholeUnlessMistaken
<1>1. EntryPlace => EnteredWholeUnlessMistaken
  BY DEF EntryPlace, EnteredWholeUnlessMistaken, EnteredWhole
<1> QED
  BY <1>1, EntryPlaceHolds, PTL

-----------------------------------------------------------------------------
(* The list.  The body, the cache and the slot's end each name the file.     *)

\* Along which steps the file gets its name in new.lst: as its body is begun, as
\* the cache answers for it, or as the slot of a failed transfer is freed.
NotedPlace ==
    /\ CodePlace
    /\ pc \in {"truncate", "writeRef", "body"} => "noted" \in flags
    /\ pc \in {"commit", "unref", "store"} /\ code = "ok"
           /\ "isFile" \notin flags => "noted" \in flags
    /\ pc = "page" => "noted" \in flags
    /\ pc \in {"flush", "verdict", "done"} /\ Exists(sav)
           /\ code \in {"ok", "failed", "short", "badchunk", "nonfatal", "invalid"}
           /\ "isFile" \notin flags => "noted" \in flags

LEMMA NotedPlaceHolds == Spec => []NotedPlace
<1>1. Init => NotedPlace
  BY DEF Init, NotedPlace, CodePlace
<1>2. TypeOK /\ NotedPlace /\ [Next]_vars => NotedPlace'
  <2> SUFFICES ASSUME TypeOK, NotedPlace, [Next]_vars PROVE NotedPlace'
    OBVIOUS
  <2> USE DEF TypeOK, NotedPlace, CodePlace, Exists, files, link, slot
  <2>1. CASE Change
    BY <2>1, BoundsAssumption DEF Change, Versions, BoundsAssumption
  <2>2. CASE Stop
    BY <2>2 DEF Stop
  <2>3. CASE Start
    BY <2>3, BoundsAssumption DEF Start, Versions, BoundsAssumption
  <2>4. CASE AddFromCache
    BY <2>4 DEF AddFromCache, AnswersFromCache, ReadsFromDisk, Ready,
       TakenForEntry
  <2>5. CASE AddStopped
    BY <2>5 DEF AddStopped, Ready
  <2>6. CASE AddRequest
    BY <2>6 DEF AddRequest, Ready
  <2>7. CASE NoAnswer
    BY <2>7 DEF NoAnswer, Ready, SlotKept
  <2>8. CASE Answer304
    BY <2>8 DEF Answer304, Ready, SlotKept
  <2>9. CASE AnswerUnusable
    BY <2>9 DEF AnswerUnusable, Ready, SlotKept
  <2>10. CASE AnswerStale
    BY <2>10 DEF AnswerStale, Ready, SlotKept
  <2>11. ASSUME NEW c \in Codes, AnswerError(c)
        PROVE  NotedPlace'
    BY <2>11 DEF AnswerError, Ready, SlotKept
  <2>12. CASE Answer206
    BY <2>12 DEF Answer206, Ready, Ranged
  <2>13. CASE Answer200
    BY <2>13 DEF Answer200, Ready, SlotKept
  <2>14. CASE NotModified
    BY <2>14 DEF NotModified, Ready, TakenForEntry
  <2>15. CASE Backup
    BY <2>15 DEF Backup, Step, KeepSlot, KeepRest, Fault, NoFault
  <2>16. CASE Create
    BY <2>16 DEF Create, Step, KeepSlot, KeepRest, Fault, NoFault
  <2>17. CASE Truncate
    BY <2>17 DEF Truncate, Step, KeepSlot, KeepRest, Fault, NoFault
  <2>18. CASE WriteRef
    BY <2>18 DEF WriteRef, Step, KeepSlot, KeepRest
  <2>19. CASE Receive
    BY <2>19 DEF Receive, Step, KeepSlot, KeepRest
  <2>20. CASE BodyEnds
    BY <2>20 DEF BodyEnds, Step, KeepSlot, KeepRest
  <2>21. CASE BodyFails
    BY <2>21 DEF BodyFails, Step, KeepSlot, KeepRest, Fault, NoFault
  <2>22. CASE AbortStopped
    BY <2>22 DEF AbortStopped, Step, KeepSlot, KeepRest
  <2>23. CASE DropRef
    BY <2>23 DEF DropRef, Step, KeepSlot, KeepRest
  <2>24. CASE DropSav
    BY <2>24 DEF DropSav, Step, KeepSlot, KeepRest
  <2>25. CASE Commit
    BY <2>25 DEF Commit, Step, KeepSlot, KeepRest
  <2>26. CASE Unref
    BY <2>26 DEF Unref, Step, KeepSlot, KeepRest
  <2>27. CASE Store
    BY <2>27 DEF Store, Step, KeepSlot
  <2>28. CASE Restore
    BY <2>28 DEF Restore, Step, KeepSlot, KeepRest, Fault, NoFault
  <2>29. CASE UnrefOld
    BY <2>29 DEF UnrefOld, Step, KeepSlot, KeepRest
  <2>30. CASE Survivor
    BY <2>30 DEF Survivor, Step, KeepSlot
  <2>31. CASE Flush
    BY <2>31 DEF File, Flush, Step, KeepSlot, KeepRest
  <2>32. CASE Retry
    BY <2>32 DEF Retry, Requeue, NextLatch, Slotted
  <2>33. CASE Restart
    BY <2>33 DEF Restart, Requeue, NextLatch, Slotted
  <2>34. CASE DropStale
    BY <2>34 DEF DropStale
  <2>35. CASE StaleSav
    BY <2>35 DEF StaleSav, Step, KeepSlot, KeepRest
  <2>36. CASE StaleRef
    BY <2>36 DEF StaleRef, Step, KeepSlot, KeepRest
  <2>37. CASE Settle
    BY <2>37 DEF Settle, Settles
  <2>38. CASE SavePage
    BY <2>38 DEF SavePage, Settles, Step, KeepSlot, KeepRest, Fault,
       NoFault
  <2>39. CASE WritePage
    BY <2>39 DEF WritePage, Step, KeepSlot, KeepRest, Fault, NoFault
  <2>40. CASE SettleUncreated
    BY <2>40 DEF SettleUncreated, Step, KeepSlot, KeepRest, Fault, NoFault
  <2>41. CASE EndRun
    BY <2>41 DEF EndRun, Down
  <2>42. CASE Kill
    BY <2>42 DEF Kill, Down
  <2>43. CASE UNCHANGED vars
    BY <2>43 DEF vars
  <2> QED
    BY <2>1, <2>2, <2>3, <2>4, <2>5, <2>6, <2>7, <2>8, <2>9, <2>10, <2>11,
       <2>12, <2>13, <2>14, <2>15, <2>16, <2>17, <2>18, <2>19, <2>20, <2>21,
       <2>22, <2>23, <2>24, <2>25, <2>26, <2>27, <2>28, <2>29, <2>30, <2>31,
       <2>32, <2>33, <2>34, <2>35, <2>36, <2>37, <2>38, <2>39, <2>40, <2>41,
       <2>42, <2>43
       DEF Next, Work, Adding, Answering, Transfer, Finalize, Verdict,
       Finished
<1> QED
  BY <1>1, <1>2, TypeCorrect, PTL DEF Spec

\* A file that survives the last try of its link is in new.lst, where --purge-old
\* looks for it, whichever way the tries before it ended.
THEOREM SurvivorNotedHolds == Spec => []SurvivorNoted
<1>1. NotedPlace => SurvivorNoted
  BY DEF NotedPlace, SurvivorNoted, Survives
<1> QED
  BY <1>1, NotedPlaceHolds, PTL

=============================================================================
