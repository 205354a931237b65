------------------------ MODULE CacheGenerationsProofs ------------------------
(***************************************************************************)
(* Type correctness, the survival of the loaded generation, the effect of  *)
(* a rollback, the reach of what an aborted run leaves, the pairing of     *)
(* lists with archives and what the purge may delete, for every site and   *)
(* every number of runs, kills and failed calls; then that the runs no     *)
(* kill and no failed call disturbs implement PreviousMirror.              *)
(***************************************************************************)
EXTENDS CacheGenerations, FiniteSetTheorems, TLAPS

\* What the helpers return is of its type.
LEMMA EmptyTypes ==
    /\ NoArchive \in Archive
    /\ NoList \in List
    /\ NothingFound \in [zip : Archive, lst : List, lock : {"none", "held"}]
  BY BoundsAssumption DEF BoundsAssumption, NoArchive, Archive, NoList, List,
     NothingFound

LEMMA FaultTypes ==
    ASSUME TypeOK, Fault \/ NoFault
    PROVE  /\ kills' \in 0..MaxKill /\ faults' \in 0..MaxFault
           /\ marks' \in SUBSET {"faulty", "torn"}
<1>1. CASE Fault
  BY <1>1, BoundsAssumption DEF BoundsAssumption, TypeOK, Fault
<1>2. CASE NoFault
  BY <1>2 DEF TypeOK, NoFault, environment
<1> QED
  BY <1>1, <1>2

LEMMA ExitTypes ==
    ASSUME TypeOK, Exit
    PROVE  /\ pc' = "down" /\ flags' \in SUBSET Flags /\ loaded' \in Archive
           /\ after' = "takeLock" /\ run' \in 0..MaxRun
           /\ found' \in [zip : Archive, lst : List, lock : {"none", "held"}]
  BY EmptyTypes DEF TypeOK, Exit

\* Repairing an archive writes its directory and nothing else.
LEMMA RepairedFields ==
    ASSUME NEW z \in Archive
    PROVE  /\ Repaired(z) \in Archive /\ Repaired(z).directory = "written"
           /\ Repaired(z).run = z.run /\ Repaired(z).entries = z.entries
  BY DEF Archive, Repaired

\* Every state of the program is of its type, whatever the constants.
THEOREM TypeCorrect == Spec => []TypeOK
<1> USE EmptyTypes
<1>1. Init => TypeOK
  BY BoundsAssumption DEF BoundsAssumption, Init, TypeOK
<1>2. TypeOK /\ [Next]_vars => TypeOK'
  <2> SUFFICES ASSUME TypeOK, [Next]_vars PROVE TypeOK'
    OBVIOUS
  <2> USE DEF TypeOK, Flags, disk, setup, environment
  <2>1. CASE Start
    BY <2>1, BoundsAssumption DEF Start, BoundsAssumption
  <2>2. CASE Promote
    <3>1. Fault \/ NoFault
      BY <2>2 DEF Promote
    <3> QED
      BY <2>2, <3>1, FaultTypes DEF Promote
  <2>3. CASE ReconcileAtStart
    BY <2>3 DEF ReconcileAtStart
  <2>4. CASE TakeLock
    BY <2>4 DEF TakeLock
  <2>5. CASE PromoteZip
    <3>1. CASE Exists(oldZip)
      <4>1. Fault \/ NoFault
        BY <2>5, <3>1 DEF PromoteZip
      <4> QED
        BY <2>5, <3>1, <4>1, FaultTypes DEF PromoteZip
    <3>2. CASE ~Exists(oldZip)
      BY <2>5, <3>2 DEF PromoteZip
    <3> QED
      BY <3>1, <3>2
  <2>6. CASE PromoteLst
    <3>1. Fault \/ NoFault
      BY <2>6 DEF PromoteLst
    <3> QED
      BY <2>6, <3>1, FaultTypes DEF PromoteLst
  <2>7. CASE CheckNew
    <3>1. Repaired(newZip) \in Archive
      BY RepairedFields
    <3>2. newZip' \in Archive
      BY <2>7, <3>1 DEF CheckNew
    <3>3. found' \in [zip : Archive, lst : List, lock : {"none", "held"}]
      <4>1. /\ found.zip \in Archive /\ found.lst \in List
            /\ found = [zip |-> found.zip, lst |-> found.lst, lock |-> found.lock]
        OBVIOUS
      <4>2. \/ found' = found
            \/ found' = [found EXCEPT !.zip = oldZip]
            \/ found' = [found EXCEPT !.zip = Repaired(newZip)]
            \/ found' = [found EXCEPT !.zip = oldZip, !.lst = oldLst]
        BY <2>7 DEF CheckNew
      <4> QED BY <3>1, <4>1, <4>2
    <3>4. flags' \in SUBSET Flags /\ pc' \in {"load", "rotateZip", "setAsideZip"}
      BY <2>7 DEF CheckNew
    <3> QED BY <2>7, <3>2, <3>3, <3>4 DEF CheckNew
  <2>8. CASE SetAsideZip
    <3>1. Fault \/ NoFault
      BY <2>8 DEF SetAsideZip
    <3> QED
      BY <2>8, <3>1, FaultTypes DEF SetAsideZip
  <2>9. CASE SetAsideLst
    <3>1. Fault \/ NoFault
      BY <2>9 DEF SetAsideLst
    <3> QED
      BY <2>9, <3>1, FaultTypes DEF SetAsideLst
  <2>10. CASE RotateZip
    <3>1. Fault \/ NoFault
      BY <2>10 DEF RotateZip
    <3> QED
      BY <2>10, <3>1, FaultTypes DEF RotateZip
  <2>11. CASE LoadOld
    BY <2>11, RepairedFields DEF LoadOld
  <2>12. CASE CreateZip
    <3>1. Fault \/ NoFault
      BY <2>12 DEF CreateZip
    <3>2. newZip' \in Archive
      BY <2>12 DEF CreateZip, Archive
    <3> QED
      BY <2>12, <3>1, <3>2, FaultTypes DEF CreateZip
  <2>13. CASE UnlinkOldLst
    BY <2>13 DEF UnlinkOldLst
  <2>14. CASE RotateLst
    <3>1. Fault \/ NoFault
      BY <2>14 DEF RotateLst
    <3> QED
      BY <2>14, <3>1, FaultTypes DEF RotateLst
  <2>15. CASE OpenLst
    BY <2>15 DEF OpenLst, List
  <2>16. ASSUME NEW l \in Links, NEW noted \in {"written", "kept"}, NoteFile(l, noted)
        PROVE  TypeOK'
    BY <2>16 DEF NoteFile, List
  <2>17. ASSUME NEW l \in Links, AddEntry(l)
        PROVE  TypeOK'
    BY <2>17 DEF AddEntry, Archive
  <2>18. CASE GiveUp
    BY <2>18 DEF GiveUp, Raise
  <2>19. CASE Abort
    BY <2>19 DEF Abort, Raise
  <2>20. CASE EndWithNothing
    BY <2>20 DEF EndWithNothing
  <2>21. CASE EndAtOnce
    BY <2>21 DEF EndAtOnce
  <2>22. CASE EndOfMirror
    BY <2>22 DEF EndOfMirror
  <2>23. ASSUME NEW l \in Links, PurgeFile(l)
        PROVE  TypeOK'
    BY <2>23 DEF PurgeFile
  <2>24. CASE PurgeDone
    BY <2>24 DEF PurgeDone
  <2>25. CASE CloseZip
    BY <2>25, RepairedFields DEF CloseZip
  <2>26. CASE ReconcileAtEnd
    BY <2>26 DEF ReconcileAtEnd
  <2>27. CASE Unlock
    <3>1. Exit
      BY <2>27 DEF Unlock
    <3> QED
      BY <2>27, <3>1, ExitTypes DEF Unlock
  <2>28. CASE Kill
    <3>1. Exit
      BY <2>28 DEF Kill
    <3> QED
      BY <2>28, <3>1, ExitTypes, BoundsAssumption DEF Kill, BoundsAssumption
  <2>29. CASE UNCHANGED vars
    BY <2>29 DEF vars
  <2> HIDE DEF TypeOK, Flags, disk, setup, environment
  <2> QED
    BY <2>1, <2>2, <2>3, <2>4, <2>5, <2>6, <2>7, <2>8, <2>9, <2>10, <2>11,
       <2>12, <2>13, <2>14, <2>15, <2>16, <2>17, <2>18, <2>19, <2>20, <2>21,
       <2>22, <2>23, <2>24, <2>25, <2>26, <2>27, <2>28, <2>29 DEF Next,
       Startup, Promotion, CacheInit, Crawl, Ending, Finished
<1> QED
  BY <1>1, <1>2, PTL DEF Spec

\* Where the loaded generation is: nowhere before cache_init() has loaded it,
\* then old.zip, until a promotion makes it new.zip.
LoadedPlace ==
    /\ pc \notin AfterLoad => loaded = NoArchive
    /\ pc \in {"promoteZip", "promoteLst"} /\ after = "takeLock"
           => loaded = NoArchive
    /\ pc \in AfterLoad \ {"promoteLst", "verdict", "unlock"} /\ Exists(loaded)
           => oldZip = loaded
    /\ pc \in {"promoteLst", "verdict", "unlock"} /\ Exists(loaded)
           => \/ oldZip = loaded
              \/ newZip = loaded /\ ~Exists(oldZip)

\* The generation a run reads from survives every step of the run, those a
\* kill may fall between included.
THEOREM LoadedSurvivesHolds == Spec => []LoadedSurvives
<1>1. Init => LoadedPlace
  BY DEF Init, LoadedPlace, AfterLoad
<1>2. TypeOK /\ LoadedPlace /\ [Next]_vars => LoadedPlace'
  <2> SUFFICES ASSUME TypeOK, LoadedPlace, [Next]_vars PROVE LoadedPlace'
    OBVIOUS
  <2> USE DEF TypeOK, LoadedPlace, AfterLoad, Exists, NoArchive, disk, setup
  <2>1. CASE Start
    BY <2>1 DEF Start
  <2>2. CASE Promote
    BY <2>2 DEF Promote
  <2>3. CASE ReconcileAtStart
    BY <2>3 DEF ReconcileAtStart
  <2>4. CASE TakeLock
    BY <2>4 DEF TakeLock
  <2>5. CASE PromoteZip
    BY <2>5 DEF PromoteZip
  <2>6. CASE PromoteLst
    BY <2>6 DEF PromoteLst
  <2>7. CASE CheckNew
    BY <2>7 DEF CheckNew
  <2>8. CASE SetAsideZip
    BY <2>8 DEF SetAsideZip
  <2>9. CASE SetAsideLst
    BY <2>9 DEF SetAsideLst
  <2>10. CASE RotateZip
    BY <2>10 DEF RotateZip
  <2>11. CASE LoadOld
    BY <2>11 DEF LoadOld, Repaired
  <2>12. CASE CreateZip
    BY <2>12 DEF CreateZip
  <2>13. CASE UnlinkOldLst
    BY <2>13 DEF UnlinkOldLst
  <2>14. CASE RotateLst
    BY <2>14 DEF RotateLst
  <2>15. CASE OpenLst
    BY <2>15 DEF OpenLst
  <2>16. ASSUME NEW l \in Links, NEW noted \in {"written", "kept"}, NoteFile(l, noted)
        PROVE  LoadedPlace'
    BY <2>16 DEF NoteFile
  <2>17. ASSUME NEW l \in Links, AddEntry(l)
        PROVE  LoadedPlace'
    BY <2>17 DEF AddEntry
  <2>18. CASE GiveUp
    BY <2>18 DEF GiveUp, Raise
  <2>19. CASE Abort
    BY <2>19 DEF Abort, Raise
  <2>20. CASE EndWithNothing
    BY <2>20 DEF EndWithNothing
  <2>21. CASE EndAtOnce
    BY <2>21 DEF EndAtOnce
  <2>22. CASE EndOfMirror
    BY <2>22 DEF EndOfMirror
  <2>23. ASSUME NEW l \in Links, PurgeFile(l)
        PROVE  LoadedPlace'
    BY <2>23 DEF PurgeFile
  <2>24. CASE PurgeDone
    BY <2>24 DEF PurgeDone
  <2>25. CASE CloseZip
    BY <2>25 DEF CloseZip
  <2>26. CASE ReconcileAtEnd
    BY <2>26 DEF ReconcileAtEnd, InterruptedPromotes, OldReachesFurther, Opens
  <2>27. CASE Unlock
    BY <2>27 DEF Unlock, Exit
  <2>28. CASE Kill
    BY <2>28 DEF Kill, Exit
  <2>29. CASE UNCHANGED vars
    BY <2>29 DEF vars
  <2> HIDE DEF TypeOK, LoadedPlace, AfterLoad, Exists, NoArchive, disk, setup
  <2> QED
    BY <2>1, <2>2, <2>3, <2>4, <2>5, <2>6, <2>7, <2>8, <2>9, <2>10, <2>11,
       <2>12, <2>13, <2>14, <2>15, <2>16, <2>17, <2>18, <2>19, <2>20, <2>21,
       <2>22, <2>23, <2>24, <2>25, <2>26, <2>27, <2>28, <2>29 DEF Next,
       Startup, Promotion, CacheInit, Crawl, Ending, Finished
<1>3. LoadedPlace => LoadedSurvives
  BY DEF LoadedPlace, LoadedSurvives, AfterLoad
<1> QED
  BY <1>1, <1>2, <1>3, TypeCorrect, PTL DEF Spec

\* Before the rotation: the reconcile at startup leaves no old.zip without a
\* new.zip, nothing is rolled back, and keep_old is still unset.
BeforeRotation ==
    /\ ~Faulty /\ (\/ pc \in {"interrupted", "takeLock", "checkNew"}
                   \/ pc = "promoteLst" /\ after = "takeLock")
           => Exists(newZip) \/ ~Exists(oldZip)
    /\ pc = "promoteZip" /\ after = "takeLock" => Exists(oldZip)
    /\ pc \in {"down", "promote", "interrupted", "takeLock", "checkNew",
               "rotateZip"}
           => ~KeepOld
    /\ pc \in {"promoteZip", "promoteLst"} /\ after = "takeLock"
           => ~KeepOld /\ ~Rollback
    /\ Rollback
           => pc \in {"closeZip", "promoteZip", "promoteLst", "verdict",
                      "unlock"}

\* Where the generation the run found is, at each step of a run.
FoundPlace ==
    /\ pc = "checkNew" => newZip = found.zip /\ newLst = found.lst
    /\ ~Faulty /\ CacheOn /\ Exists(found.zip) =>
        /\ pc = "rotateZip" => newZip = found.zip /\ newLst = found.lst
        /\ pc \in {"setAsideZip", "setAsideLst"}
               => KeepOld /\ oldZip = found.zip /\ oldLst = found.lst
        /\ pc \in {"load", "createZip"}
               => /\ Same(oldZip, found.zip)
                  /\ KeepOld => oldLst = found.lst
                  /\ ~KeepOld => newLst = found.lst
        /\ pc \in {"unlinkOldLst", "rotateLst"}
               => Same(oldZip, found.zip) /\ newLst = found.lst
        /\ pc \in {"openLst", "crawl", "purge", "closeZip"}
               => Same(oldZip, found.zip) /\ oldLst = found.lst
        /\ pc = "promoteZip" /\ after = "verdict"
               => Same(oldZip, found.zip) /\ oldLst = found.lst
        /\ pc = "promoteLst" /\ after = "verdict"
               => /\ Same(newZip, found.zip) /\ oldLst = found.lst
                  /\ ~Exists(oldZip)
        /\ pc = "verdict" /\ Rollback
               => /\ Same(newZip, found.zip) /\ newLst = found.lst
                  /\ ~Exists(oldZip)
        /\ pc \in {"promoteZip", "promoteLst"} /\ after = "unlock" => ~Rollback
        /\ pc = "unlock" /\ Rollback
               => Same(newZip, found.zip) /\ newLst = found.lst

LEMMA FoundKept == Spec => [](BeforeRotation /\ FoundPlace)
<1>1. Init => BeforeRotation /\ FoundPlace
  BY DEF Init, BeforeRotation, FoundPlace, KeepOld, Rollback, CacheOn
<1>2. TypeOK /\ BeforeRotation /\ [Next]_vars => BeforeRotation'
  <2> SUFFICES ASSUME TypeOK, BeforeRotation, [Next]_vars PROVE BeforeRotation'
    OBVIOUS
  <2> USE DEF TypeOK, BeforeRotation, Exists, NoArchive, disk, setup,
              environment, KeepOld, Rollback, Faulty
  <2>1. CASE Start
    BY <2>1 DEF Start
  <2>2. CASE Promote
    BY <2>2 DEF Promote, Fault, NoFault
  <2>3. CASE ReconcileAtStart
    BY <2>3 DEF ReconcileAtStart, InterruptedPromotes, OldReachesFurther, Opens
  <2>4. CASE TakeLock
    BY <2>4 DEF TakeLock
  <2>5. CASE PromoteZip
    BY <2>5 DEF PromoteZip, Fault, NoFault
  <2>6. CASE PromoteLst
    BY <2>6 DEF PromoteLst, Fault, NoFault
  <2>7. CASE CheckNew
    BY <2>7 DEF CheckNew, Repaired
  <2>8. CASE SetAsideZip
    BY <2>8 DEF SetAsideZip, Fault, NoFault
  <2>9. CASE SetAsideLst
    BY <2>9 DEF SetAsideLst, Fault, NoFault
  <2>10. CASE RotateZip
    BY <2>10 DEF RotateZip, Fault, NoFault
  <2>11. CASE LoadOld
    BY <2>11 DEF LoadOld, Repaired
  <2>12. CASE CreateZip
    BY <2>12 DEF CreateZip, Fault, NoFault
  <2>13. CASE UnlinkOldLst
    BY <2>13 DEF UnlinkOldLst
  <2>14. CASE RotateLst
    BY <2>14 DEF RotateLst, Fault, NoFault
  <2>15. CASE OpenLst
    BY <2>15 DEF OpenLst
  <2>16. ASSUME NEW l \in Links, NEW noted \in {"written", "kept"}, NoteFile(l, noted)
        PROVE  BeforeRotation'
    BY <2>16 DEF NoteFile
  <2>17. ASSUME NEW l \in Links, AddEntry(l)
        PROVE  BeforeRotation'
    BY <2>17 DEF AddEntry
  <2>18. CASE GiveUp
    BY <2>18 DEF GiveUp, Raise
  <2>19. CASE Abort
    BY <2>19 DEF Abort, Raise
  <2>20. CASE EndWithNothing
    BY <2>20 DEF EndWithNothing
  <2>21. CASE EndAtOnce
    BY <2>21 DEF EndAtOnce
  <2>22. CASE EndOfMirror
    BY <2>22 DEF EndOfMirror
  <2>23. ASSUME NEW l \in Links, PurgeFile(l)
        PROVE  BeforeRotation'
    BY <2>23 DEF PurgeFile
  <2>24. CASE PurgeDone
    BY <2>24 DEF PurgeDone
  <2>25. CASE CloseZip
    BY <2>25 DEF CloseZip
  <2>26. CASE ReconcileAtEnd
    BY <2>26 DEF ReconcileAtEnd, InterruptedPromotes, OldReachesFurther, Opens
  <2>27. CASE Unlock
    BY <2>27 DEF Unlock, Exit
  <2>28. CASE Kill
    BY <2>28 DEF Kill, Exit
  <2>29. CASE UNCHANGED vars
    BY <2>29 DEF vars
  <2> HIDE DEF TypeOK, BeforeRotation, Exists, NoArchive, disk, setup,
               environment, KeepOld, Rollback, Faulty
  <2> QED
    BY <2>1, <2>2, <2>3, <2>4, <2>5, <2>6, <2>7, <2>8, <2>9, <2>10, <2>11,
       <2>12, <2>13, <2>14, <2>15, <2>16, <2>17, <2>18, <2>19, <2>20, <2>21,
       <2>22, <2>23, <2>24, <2>25, <2>26, <2>27, <2>28, <2>29 DEF Next,
       Startup, Promotion, CacheInit, Crawl, Ending, Finished
<1>3. TypeOK /\ BeforeRotation /\ FoundPlace /\ [Next]_vars => FoundPlace'
  <2> SUFFICES ASSUME TypeOK, BeforeRotation, FoundPlace, [Next]_vars
               PROVE  FoundPlace'
    OBVIOUS
  <2> USE DEF TypeOK, BeforeRotation, FoundPlace, Same, Exists, NoArchive,
              disk, setup, environment, CacheOn, KeepOld, Rollback, Faulty
  <2>1. CASE Start
    BY <2>1 DEF Start
  <2>2. CASE Promote
    BY <2>2 DEF Promote, Fault, NoFault
  <2>3. CASE ReconcileAtStart
    BY <2>3 DEF ReconcileAtStart, InterruptedPromotes, OldReachesFurther, Opens
  <2>4. CASE TakeLock
    BY <2>4 DEF TakeLock
  <2>5. CASE PromoteZip
    BY <2>5 DEF PromoteZip, Fault, NoFault
  <2>6. CASE PromoteLst
    BY <2>6 DEF PromoteLst, Fault, NoFault
  <2>7. CASE CheckNew
    <3>1. CASE ~Exists(newZip)
      BY <2>7, <3>1 DEF CheckNew, Exists
    <3>2. CASE Exists(newZip) /\ (Opens(newZip) \/ ~SizePositive(oldZip))
      BY <2>7, <3>2 DEF CheckNew
    <3>3. CASE /\ Exists(newZip) /\ ~Opens(newZip) /\ SizePositive(oldZip)
               /\ Repairable(newZip)
      <4>1. found'.zip = newZip' /\ found'.lst = found.lst
        BY <2>7, <3>3 DEF CheckNew
      <4>2. Repaired(newZip).run = newZip.run
        BY DEF Repaired, Archive
      <4> QED
        BY <2>7, <3>3, <4>1, <4>2 DEF CheckNew
    <3>4. CASE /\ Exists(newZip) /\ ~Opens(newZip) /\ SizePositive(oldZip)
               /\ ~Repairable(newZip)
      BY <2>7, <3>4 DEF CheckNew
    <3> QED
      BY <2>7, <3>1, <3>2, <3>3, <3>4 DEF CheckNew
  <2>8. CASE SetAsideZip
    BY <2>8 DEF SetAsideZip, Fault, NoFault
  <2>9. CASE SetAsideLst
    BY <2>9 DEF SetAsideLst, Fault, NoFault
  <2>10. CASE RotateZip
    BY <2>10 DEF RotateZip, Fault, NoFault
  <2>11. CASE LoadOld
    BY <2>11 DEF LoadOld, Repaired
  <2>12. CASE CreateZip
    BY <2>12 DEF CreateZip, Fault, NoFault
  <2>13. CASE UnlinkOldLst
    BY <2>13 DEF UnlinkOldLst
  <2>14. CASE RotateLst
    BY <2>14 DEF RotateLst, Fault, NoFault
  <2>15. CASE OpenLst
    BY <2>15 DEF OpenLst
  <2>16. ASSUME NEW l \in Links, NEW noted \in {"written", "kept"}, NoteFile(l, noted)
        PROVE  FoundPlace'
    BY <2>16 DEF NoteFile
  <2>17. ASSUME NEW l \in Links, AddEntry(l)
        PROVE  FoundPlace'
    BY <2>17 DEF AddEntry
  <2>18. CASE GiveUp
    BY <2>18 DEF GiveUp, Raise
  <2>19. CASE Abort
    BY <2>19 DEF Abort, Raise
  <2>20. CASE EndWithNothing
    BY <2>20 DEF EndWithNothing
  <2>21. CASE EndAtOnce
    BY <2>21 DEF EndAtOnce
  <2>22. CASE EndOfMirror
    BY <2>22 DEF EndOfMirror
  <2>23. ASSUME NEW l \in Links, PurgeFile(l)
        PROVE  FoundPlace'
    BY <2>23 DEF PurgeFile
  <2>24. CASE PurgeDone
    BY <2>24 DEF PurgeDone
  <2>25. CASE CloseZip
    BY <2>25 DEF CloseZip
  <2>26. CASE ReconcileAtEnd
    BY <2>26 DEF ReconcileAtEnd, InterruptedPromotes, OldReachesFurther, Opens
  <2>27. CASE Unlock
    BY <2>27 DEF Unlock, Exit
  <2>28. CASE Kill
    BY <2>28 DEF Kill, Exit
  <2>29. CASE UNCHANGED vars
    BY <2>29 DEF vars
  <2> HIDE DEF TypeOK, BeforeRotation, FoundPlace, Same, Exists, NoArchive,
               disk, setup, environment, CacheOn, KeepOld, Rollback, Faulty
  <2> QED
    BY <2>1, <2>2, <2>3, <2>4, <2>5, <2>6, <2>7, <2>8, <2>9, <2>10, <2>11,
       <2>12, <2>13, <2>14, <2>15, <2>16, <2>17, <2>18, <2>19, <2>20, <2>21,
       <2>22, <2>23, <2>24, <2>25, <2>26, <2>27, <2>28, <2>29 DEF Next,
       Startup, Promotion, CacheInit, Crawl, Ending, Finished
<1> QED
  BY <1>1, <1>2, <1>3, TypeCorrect, PTL DEF Spec

\* Whatever kills and failed calls came before, a run that rolls back with the
\* cache on and no failed call of its own leaves the generation it found.
THEOREM RollbackRestoresHolds == Spec => []RollbackRestores
<1>1. FoundPlace => RollbackRestores
  BY DEF FoundPlace, RollbackRestores, RestoresFound
<1> QED
  BY <1>1, FoundKept, PTL

\* The links of an archive can be counted.
LEMMA ReachIsNat ==
    /\ \A S \in SUBSET Links : Cardinality(S) \in Nat
    /\ Cardinality({}) = 0
  BY LinksAssumption, FS_Subset, FS_CardinalityType, FS_EmptySet
    DEF LinksAssumption

\* A run has a number, the archive it writes into is there, and an archive that
\* is not there has neither entries nor a directory.
ArchivesSound ==
    /\ pc # "down" => run # 0
    /\ ~Exists(newZip) => newZip = NoArchive
    /\ ~Exists(oldZip) => oldZip = NoArchive
    /\ ~Exists(found.zip) => found.zip = NoArchive
    /\ ZipOut => /\ Exists(newZip)
                 /\ pc \in {"unlinkOldLst", "rotateLst", "openLst", "crawl",
                           "purge", "closeZip"}

\* What cache_init() makes of the archive it finds: the archive itself, or its
\* repaired form, and it takes one of the two archives as the one found.
LEMMA CheckNewFacts ==
    ASSUME TypeOK, CheckNew
    PROVE  /\ newZip' = newZip \/ (Exists(newZip) /\ newZip' = Repaired(newZip))
           /\ \/ found'.zip = found.zip
              \/ found'.zip = oldZip
              \/ (Exists(newZip) /\ found'.zip = Repaired(newZip))
           /\ Exists(newZip') <=> Exists(newZip)
           /\ Exists(Repaired(newZip)) <=> Exists(newZip)
           /\ ZipOut' = ZipOut
           /\ UNCHANGED <<oldZip, run>> /\ pc = "checkNew"
<1>1. newZip' = newZip \/ (Exists(newZip) /\ newZip' = Repaired(newZip))
  BY DEF CheckNew
<1>2. Repaired(newZip).run = newZip.run
  BY RepairedFields DEF TypeOK
<1>3. DOMAIN found = {"zip", "lst", "lock"}
  BY DEF TypeOK
<1>4. \/ found' = found
      \/ found' = [found EXCEPT !.zip = oldZip]
      \/ (Exists(newZip) /\ found' = [found EXCEPT !.zip = Repaired(newZip)])
      \/ found' = [found EXCEPT !.zip = oldZip, !.lst = oldLst]
  BY DEF CheckNew
<1>5. \/ found'.zip = found.zip
      \/ found'.zip = oldZip
      \/ (Exists(newZip) /\ found'.zip = Repaired(newZip))
  BY <1>3, <1>4
<1>6. ZipOut' = ZipOut
  BY DEF CheckNew, ZipOut
<1>7. UNCHANGED <<oldZip, run>> /\ pc = "checkNew"
  BY DEF CheckNew
<1> QED
  BY <1>1, <1>2, <1>5, <1>6, <1>7 DEF Exists

\* Every step keeps the archives sound.
LEMMA SoundStep ==
    ASSUME TypeOK, BeforeRotation, FoundPlace, ArchivesSound, [Next]_vars
    PROVE  ArchivesSound'
<1> USE DEF ArchivesSound, NothingFound, ZipOut, Archive, List, TypeOK,
            Exists, NoArchive, disk, setup, environment
<1>1. CASE Start
  BY <1>1 DEF Start
<1>2. CASE Promote
  BY <1>2 DEF Promote, Fault, NoFault
<1>3. CASE ReconcileAtStart
  BY <1>3 DEF ReconcileAtStart, InterruptedPromotes, OldReachesFurther, Opens
<1>4. CASE TakeLock
  BY <1>4 DEF TakeLock
<1>5. CASE PromoteZip
  BY <1>5 DEF PromoteZip, Fault, NoFault
<1>6. CASE PromoteLst
  BY <1>6 DEF PromoteLst, Fault, NoFault
<1>7. CASE CheckNew
  <2> HIDE DEF Archive, List, TypeOK
  <2>1. /\ ~Exists(newZip') => newZip' = NoArchive
        /\ ~Exists(found'.zip) => found'.zip = NoArchive
        /\ ZipOut => Exists(newZip')
        /\ UNCHANGED <<oldZip, run>> /\ pc = "checkNew" /\ ZipOut' = ZipOut
    BY <1>7, CheckNewFacts
  <2> QED
    BY <2>1
<1>8. CASE SetAsideZip
  BY <1>8 DEF SetAsideZip, Fault, NoFault
<1>9. CASE SetAsideLst
  BY <1>9 DEF SetAsideLst, Fault, NoFault
<1>10. CASE RotateZip
  BY <1>10 DEF RotateZip, Fault, NoFault
<1>11. CASE LoadOld
  <2>1. CASE SizePositive(oldZip)
    <3>1. Exists(oldZip)
      BY <2>1 DEF SizePositive
    <3> QED
      BY <1>11, <2>1, <3>1, RepairedFields DEF LoadOld
  <2>2. CASE ~SizePositive(oldZip)
    BY <1>11, <2>2 DEF LoadOld
  <2> QED
    BY <2>1, <2>2
<1>12. CASE CreateZip
  BY <1>12 DEF CreateZip, Fault, NoFault
<1>13. CASE UnlinkOldLst
  BY <1>13 DEF UnlinkOldLst
<1>14. CASE RotateLst
  BY <1>14 DEF RotateLst, Fault, NoFault
<1>15. CASE OpenLst
  BY <1>15 DEF OpenLst
<1>16. ASSUME NEW l \in Links, NEW noted \in {"written", "kept"}, NoteFile(l, noted)
      PROVE  ArchivesSound'
  BY <1>16 DEF NoteFile
<1>17. ASSUME NEW l \in Links, AddEntry(l)
      PROVE  ArchivesSound'
  BY <1>17 DEF AddEntry
<1>18. CASE GiveUp
  BY <1>18 DEF GiveUp, Raise
<1>19. CASE Abort
  BY <1>19 DEF Abort, Raise
<1>20. CASE EndWithNothing
  BY <1>20 DEF EndWithNothing
<1>21. CASE EndAtOnce
  BY <1>21 DEF EndAtOnce
<1>22. CASE EndOfMirror
  BY <1>22 DEF EndOfMirror
<1>23. ASSUME NEW l \in Links, PurgeFile(l)
      PROVE  ArchivesSound'
  BY <1>23 DEF PurgeFile
<1>24. CASE PurgeDone
  BY <1>24 DEF PurgeDone
<1>25. CASE CloseZip
  BY <1>25 DEF CloseZip, Repaired
<1>26. CASE ReconcileAtEnd
  BY <1>26 DEF ReconcileAtEnd, InterruptedPromotes, OldReachesFurther, Opens
<1>27. CASE Unlock
  BY <1>27 DEF Unlock, Exit
<1>28. CASE Kill
  BY <1>28 DEF Kill, Exit
<1>29. CASE UNCHANGED vars
  BY <1>29 DEF vars
<1> HIDE DEF ArchivesSound, NothingFound, ZipOut, Archive, List, TypeOK,
             Exists, NoArchive, disk, setup, environment
<1> QED
  BY <1>1, <1>2, <1>3, <1>4, <1>5, <1>6, <1>7, <1>8, <1>9, <1>10, <1>11, <1>12,
     <1>13, <1>14, <1>15, <1>16, <1>17, <1>18, <1>19, <1>20, <1>21, <1>22, <1>23,
     <1>24, <1>25, <1>26, <1>27, <1>28, <1>29 DEF Next, Startup, Promotion,
     CacheInit, Crawl, Ending, Finished

\* Where the list of the run before is until the purge reads it as old.lst, and
\* what the purge was started on.
ListToPurge ==
    /\ pc \in {"checkNew", "rotateZip", "unlinkOldLst", "rotateLst"}
           => newLst = found.lst
    /\ pc \in {"setAsideZip", "setAsideLst"} => KeepOld /\ oldLst = found.lst
    /\ pc \in {"load", "createZip"}
           => /\ KeepOld => oldLst = found.lst
              /\ ~KeepOld => newLst = found.lst
    /\ pc = "rotateLst" => oldLst = NoList
    /\ pc = "openLst" => oldLst \in {found.lst, NoList}
    /\ ZipOut /\ pc \in {"crawl", "purge"} => oldLst \in {found.lst, NoList}
    /\ pc = "purge" => ZipOut /\ ~Aborted /\ ~Unqueued

\* Every step keeps track of the list that the purge is to read.
LEMMA ListToPurgeStep ==
    ASSUME TypeOK, ArchivesSound, BeforeRotation, FoundPlace, ListToPurge,
           [Next]_vars
    PROVE  ListToPurge'
<1> USE DEF ArchivesSound, BeforeRotation, FoundPlace, ListToPurge, CacheOn,
            KeepOld, ZipOut, Aborted, Unqueued, Rollback, TypeOK, Exists,
            NoArchive, disk, setup, environment
<1>1. CASE Start
  BY <1>1 DEF Start
<1>2. CASE Promote
  BY <1>2 DEF Promote, Fault, NoFault
<1>3. CASE ReconcileAtStart
  BY <1>3 DEF ReconcileAtStart, InterruptedPromotes, OldReachesFurther, Opens
<1>4. CASE TakeLock
  BY <1>4 DEF TakeLock
<1>5. CASE PromoteZip
  BY <1>5 DEF PromoteZip, Fault, NoFault
<1>6. CASE PromoteLst
  BY <1>6 DEF PromoteLst, Fault, NoFault
<1>7. CASE CheckNew
  BY <1>7 DEF CheckNew, Repaired
<1>8. CASE SetAsideZip
  BY <1>8 DEF SetAsideZip, Fault, NoFault
<1>9. CASE SetAsideLst
  BY <1>9 DEF SetAsideLst, Fault, NoFault
<1>10. CASE RotateZip
  BY <1>10 DEF RotateZip, Fault, NoFault
<1>11. CASE LoadOld
  BY <1>11 DEF LoadOld, Repaired
<1>12. CASE CreateZip
  BY <1>12 DEF CreateZip, Fault, NoFault
<1>13. CASE UnlinkOldLst
  BY <1>13 DEF UnlinkOldLst
<1>14. CASE RotateLst
  BY <1>14 DEF RotateLst, Fault, NoFault
<1>15. CASE OpenLst
  BY <1>15 DEF OpenLst
<1>16. ASSUME NEW l \in Links, NEW noted \in {"written", "kept"}, NoteFile(l, noted)
      PROVE  ListToPurge'
  BY <1>16 DEF NoteFile
<1>17. ASSUME NEW l \in Links, AddEntry(l)
      PROVE  ListToPurge'
  BY <1>17 DEF AddEntry
<1>18. CASE GiveUp
  BY <1>18 DEF GiveUp, Raise
<1>19. CASE Abort
  BY <1>19 DEF Abort, Raise
<1>20. CASE EndWithNothing
  BY <1>20 DEF EndWithNothing
<1>21. CASE EndAtOnce
  BY <1>21 DEF EndAtOnce
<1>22. CASE EndOfMirror
  BY <1>22 DEF EndOfMirror, PurgeRuns
<1>23. ASSUME NEW l \in Links, PurgeFile(l)
      PROVE  ListToPurge'
  BY <1>23 DEF PurgeFile
<1>24. CASE PurgeDone
  BY <1>24 DEF PurgeDone
<1>25. CASE CloseZip
  BY <1>25 DEF CloseZip, Repaired
<1>26. CASE ReconcileAtEnd
  BY <1>26 DEF ReconcileAtEnd, InterruptedPromotes, OldReachesFurther, Opens
<1>27. CASE Unlock
  BY <1>27 DEF Unlock, Exit
<1>28. CASE Kill
  BY <1>28 DEF Kill, Exit
<1>29. CASE UNCHANGED vars
  BY <1>29 DEF vars
<1> HIDE DEF ArchivesSound, BeforeRotation, FoundPlace, ListToPurge, CacheOn,
             KeepOld, ZipOut, Aborted, Unqueued, Rollback, TypeOK, Exists,
             NoArchive, disk, setup, environment
<1> QED
  BY <1>1, <1>2, <1>3, <1>4, <1>5, <1>6, <1>7, <1>8, <1>9, <1>10, <1>11, <1>12,
     <1>13, <1>14, <1>15, <1>16, <1>17, <1>18, <1>19, <1>20, <1>21, <1>22, <1>23,
     <1>24, <1>25, <1>26, <1>27, <1>28, <1>29 DEF Next, Startup, Promotion,
     CacheInit, Crawl, Ending, Finished

\* Only the purge removes a file, and what it may remove is in the list of the
\* run before and not in this run's own.
LEMMA PurgeStep ==
    ASSUME TypeOK, BeforeRotation, ListToPurge, [Next]_vars
    PROVE  \A l \in files \ files' :
               /\ ~Aborted /\ ~Unqueued /\ ~Rollback
               /\ l \in found.lst.files
               /\ l \notin newLst.files
<1>1. ASSUME NEW l \in Links, PurgeFile(l)
      PROVE  /\ files \ files' \subseteq {l}
             /\ ~Aborted /\ ~Unqueued /\ ~Rollback
             /\ l \in found.lst.files /\ l \notin newLst.files
  BY <1>1 DEF PurgeFile, Dropped, ListToPurge, BeforeRotation, NoList
<1>2. CASE ~(\E l \in Links : PurgeFile(l))
  <2>1. files \subseteq files'
    BY <1>2 DEF Next, Startup, Promotion, CacheInit, Crawl, Ending, Finished, vars,
       disk, Start, Promote, ReconcileAtStart, TakeLock, PromoteZip, PromoteLst,
       CheckNew, SetAsideZip, SetAsideLst, RotateZip, LoadOld, CreateZip,
       UnlinkOldLst, RotateLst, OpenLst, NoteFile, AddEntry, GiveUp, Abort, Raise,
       EndWithNothing, EndAtOnce, EndOfMirror, PurgeDone, CloseZip,
       ReconcileAtEnd, Unlock, Kill
  <2> QED
    BY <2>1
<1> QED
  BY <1>1, <1>2

LEMMA ListToPurgeKept == Spec => [](ArchivesSound /\ ListToPurge)
<1>1. Init => ArchivesSound /\ ListToPurge
  BY DEF Init, ArchivesSound, ListToPurge, ZipOut, NothingFound
<1> QED
  BY <1>1, SoundStep, ListToPurgeStep, TypeCorrect, FoundKept, PTL DEF Spec

\* --purge-old deletes nothing but what the list of the generation that the run
\* found names and its own list does not, in a run it may judge by.
THEOREM PurgeRespectsListsHolds == Spec => PurgeRespectsLists
<1>1. TypeOK /\ BeforeRotation /\ ListToPurge /\ [Next]_vars
        => [\A l \in files \ files' :
                /\ ~Aborted /\ ~Unqueued /\ ~Rollback
                /\ l \in found.lst.files
                /\ l \notin newLst.files]_vars
  BY PurgeStep
<1> QED
  BY <1>1, TypeCorrect, FoundKept, ListToPurgeKept, PTL DEF Spec, PurgeRespectsLists

\* How far the two generations reach once the crawl has begun, in a run with a
\* cache and no failed call.
ReachKept ==
    /\ pc \notin {"down", "promote", "interrupted", "takeLock"} => lock = "held"
    /\ pc \in {"promoteZip", "promoteLst"} /\ after = "verdict" => Rollback
    /\ CacheOn /\ ~Faulty =>
        /\ pc \in AfterLoad \ {"unlock"} /\ oldZip.entries # {}
               => Opens(oldZip)
        /\ pc \in {"unlinkOldLst", "rotateLst", "openLst", "crawl", "purge",
                   "closeZip"}
               => ZipOut /\ Exists(newZip)
        /\ pc = "verdict" /\ ~Rollback
               => /\ Opens(newZip)
                  /\ Exists(found.zip) => Same(oldZip, found.zip)
        /\ pc = "promoteZip" /\ after = "unlock"
               => /\ Exists(oldZip)
                  /\ Exists(found.zip) => Same(oldZip, found.zip)
        /\ pc = "promoteLst" /\ after = "unlock" /\ Exists(found.zip)
               => Same(newZip, found.zip)
        /\ pc = "unlock" /\ ~Completed
               => Cardinality(newZip.entries) >= Cardinality(found.zip.entries)

\* An archive reaches as far as one with the same entries, and one that is not
\* there reaches nowhere.
LEMMA NoFurther ==
    ASSUME NEW z \in Archive, NEW f \in Archive, Same(z, f) \/ f = NoArchive
    PROVE  Cardinality(z.entries) >= Cardinality(f.entries)
<1>1. PICK n \in Nat : n = Cardinality(z.entries)
  BY ReachIsNat DEF Archive
<1>2. Cardinality(f.entries) = n \/ Cardinality(f.entries) = 0
  BY <1>1, ReachIsNat DEF Same, NoArchive
<1> QED
  BY <1>1, <1>2

\* Every step keeps what the verdict will compare.
LEMMA ReachStep ==
    ASSUME TypeOK, ArchivesSound, BeforeRotation, FoundPlace, ListToPurge, ReachKept,
           [Next]_vars
    PROVE  ReachKept'
<1> USE DEF ArchivesSound, BeforeRotation, FoundPlace, ListToPurge, ReachKept,
            AfterLoad, CacheOn, KeepOld, ZipOut, Rollback, Faulty, Completed,
            Same, Opens, TypeOK, Exists, NoArchive, disk, setup, environment
<1>1. CASE Start
  BY <1>1 DEF Start
<1>2. CASE Promote
  BY <1>2 DEF Promote, Fault, NoFault
<1>3. CASE ReconcileAtStart
  BY <1>3 DEF ReconcileAtStart, InterruptedPromotes, OldReachesFurther, Opens
<1>4. CASE TakeLock
  BY <1>4 DEF TakeLock
<1>5. CASE PromoteZip
  BY <1>5 DEF PromoteZip, Fault, NoFault
<1>6. CASE PromoteLst
  <2>1. CASE after = "takeLock"
    BY <1>6, <2>1 DEF PromoteLst, Fault, NoFault
  <2>2. CASE after = "verdict"
    BY <1>6, <2>2 DEF PromoteLst, Fault, NoFault
  <2>3. CASE after = "unlock"
    <3>1. CacheOn /\ ~Faulty' => Same(newZip, found.zip) \/ ~Exists(found.zip)
      BY <1>6, <2>3 DEF PromoteLst, Fault, NoFault
    <3>2. newZip \in Archive /\ found.zip \in Archive
      OBVIOUS
    <3>3. CacheOn /\ ~Faulty' =>
             Cardinality(newZip.entries) >= Cardinality(found.zip.entries)
      <4> HIDE DEF TypeOK, ReachKept, FoundPlace, BeforeRotation, ListToPurge,
                   Same, Exists, NoArchive, Archive
      <4> QED BY <3>1, <3>2, NoFurther DEF ArchivesSound
    <3>4. pc' = "unlock" /\ UNCHANGED <<newZip, found, flags>>
          /\ lock' = "held"
      BY <1>6, <2>3 DEF PromoteLst
    <3> QED
      BY <3>3, <3>4
  <2> QED
    BY <2>1, <2>2, <2>3
<1>7. CASE CheckNew
  BY <1>7 DEF CheckNew, Repaired
<1>8. CASE SetAsideZip
  BY <1>8 DEF SetAsideZip, Fault, NoFault
<1>9. CASE SetAsideLst
  BY <1>9 DEF SetAsideLst, Fault, NoFault
<1>10. CASE RotateZip
  BY <1>10 DEF RotateZip, Fault, NoFault
<1>11. CASE LoadOld
  <2>1. CASE SizePositive(oldZip)
    <3>1. oldZip'.directory = "written" /\ oldZip'.run = oldZip.run
      BY <1>11, <2>1, RepairedFields DEF LoadOld
    <3>2. Exists(oldZip)
      BY <2>1 DEF SizePositive
    <3> QED
      BY <1>11, <3>1, <3>2 DEF LoadOld
  <2>2. CASE ~SizePositive(oldZip)
    BY <1>11, <2>2 DEF LoadOld, SizePositive
  <2> QED
    BY <2>1, <2>2
<1>12. CASE CreateZip
  BY <1>12 DEF CreateZip, Fault, NoFault
<1>13. CASE UnlinkOldLst
  BY <1>13 DEF UnlinkOldLst
<1>14. CASE RotateLst
  BY <1>14 DEF RotateLst, Fault, NoFault
<1>15. CASE OpenLst
  BY <1>15 DEF OpenLst
<1>16. ASSUME NEW l \in Links, NEW noted \in {"written", "kept"}, NoteFile(l, noted)
      PROVE  ReachKept'
  BY <1>16 DEF NoteFile
<1>17. ASSUME NEW l \in Links, AddEntry(l)
      PROVE  ReachKept'
  BY <1>17 DEF AddEntry
<1>18. CASE GiveUp
  BY <1>18 DEF GiveUp, Raise
<1>19. CASE Abort
  BY <1>19 DEF Abort, Raise
<1>20. CASE EndWithNothing
  BY <1>20 DEF EndWithNothing
<1>21. CASE EndAtOnce
  BY <1>21 DEF EndAtOnce
<1>22. CASE EndOfMirror
  BY <1>22 DEF EndOfMirror
<1>23. ASSUME NEW l \in Links, PurgeFile(l)
      PROVE  ReachKept'
  BY <1>23 DEF PurgeFile
<1>24. CASE PurgeDone
  BY <1>24 DEF PurgeDone
<1>25. CASE CloseZip
  BY <1>25, RepairedFields DEF CloseZip
<1>26. CASE ReconcileAtEnd
  BY <1>26, ReachIsNat DEF ReconcileAtEnd, InterruptedPromotes,
     OldReachesFurther, Archive
<1>27. CASE Unlock
  BY <1>27 DEF Unlock, Exit
<1>28. CASE Kill
  BY <1>28 DEF Kill, Exit
<1>29. CASE UNCHANGED vars
  BY <1>29 DEF vars
<1> HIDE DEF ArchivesSound, BeforeRotation, FoundPlace, ListToPurge, ReachKept,
             AfterLoad, CacheOn, KeepOld, ZipOut, Rollback, Faulty, Completed,
             Same, Opens, TypeOK, Exists, NoArchive, disk, setup, environment
<1> QED
  BY <1>1, <1>2, <1>3, <1>4, <1>5, <1>6, <1>7, <1>8, <1>9, <1>10, <1>11, <1>12,
     <1>13, <1>14, <1>15, <1>16, <1>17, <1>18, <1>19, <1>20, <1>21, <1>22, <1>23,
     <1>24, <1>25, <1>26, <1>27, <1>28, <1>29 DEF Next, Startup, Promotion,
     CacheInit, Crawl, Ending, Finished

\* A run that ends by itself without completing leaves as new.zip a cache at
\* least as far-reaching as the one it found.
THEOREM AbortKeepsFurthestHolds == Spec => []AbortKeepsFurthest
<1>1. Init => ReachKept
  BY DEF Init, ReachKept, AfterLoad, CacheOn
<1>2. ReachKept => AbortKeepsFurthest
  BY DEF ReachKept, AbortKeepsFurthest
<1> QED
  BY <1>1, <1>2, ReachStep, TypeCorrect, FoundKept, ListToPurgeKept, PTL DEF Spec

\* No call has failed and no archive and list have been torn apart.
InStep == ~Torn /\ faults = 0

\* What a new run needs of the names on disk: with no new.zip it is old.zip that
\* new.lst describes, and with no archive at all there is no list of one.
PairedAtRest ==
    /\ Exists(newZip) => Paired(newZip, newLst) /\ Paired(oldZip, oldLst)
    /\ ~Exists(newZip) => Paired(oldZip, newLst)
    /\ ~Exists(newZip) /\ ~Exists(oldZip) => ~Exists(newLst)

\* Which list describes which archive at each step of a run.
PairedInStep ==
    InStep =>
      /\ pc \notin MidMove => PairedAtRest
      /\ pc \in {"interrupted", "takeLock", "checkNew", "rotateZip",
                 "setAsideZip", "crawl", "purge", "closeZip", "promoteZip",
                 "verdict", "unlock"}
             => Paired(newZip, newLst) /\ Paired(oldZip, oldLst)
      /\ pc \in {"interrupted", "takeLock", "checkNew", "crawl", "purge",
                 "closeZip", "promoteZip"}
             => Exists(newZip) \/ ~Exists(oldZip)
      /\ pc \in {"rotateZip", "unlinkOldLst", "rotateLst", "openLst"}
             => Exists(newZip)
      /\ pc \in {"setAsideZip", "setAsideLst"}
             => Exists(oldZip) /\ Paired(oldZip, oldLst) /\ KeepOld
      /\ pc = "setAsideLst" => ~Exists(newZip)
      /\ pc \in {"load", "createZip"}
             => /\ ~Exists(newZip)
                /\ KeepOld => /\ Exists(oldZip) /\ Paired(oldZip, oldLst)
                              /\ ~Exists(newLst)
                /\ ~KeepOld => /\ Paired(oldZip, newLst)
                               /\ ~Exists(oldZip) => ~Exists(newLst)
      /\ pc \in {"unlinkOldLst", "rotateLst"}
             => /\ newZip.run = run /\ Paired(oldZip, newLst)
                /\ ~Exists(oldZip) => ~Exists(newLst)
      /\ pc = "rotateLst" => oldLst = NoList
      /\ pc = "openLst" => ~Exists(newLst) /\ newZip.run = run
      /\ pc = "openLst" => Paired(oldZip, oldLst)
      /\ pc = "promoteZip" /\ after # "verdict" => Exists(oldZip)
      /\ pc = "promoteLst"
             => /\ Paired(newZip, oldLst) /\ ~Exists(oldZip)
                /\ ~Exists(newZip) => ~Exists(oldLst)

\* Every step keeps lists and archives together, or leaves a mark.
LEMMA PairedStep ==
    ASSUME TypeOK, ArchivesSound, BeforeRotation, PairedInStep, [Next]_vars
    PROVE  PairedInStep'
<1> USE DEF ArchivesSound, BeforeRotation, PairedInStep, PairedAtRest, Paired,
            InStep, MidMove, NoList, KeepOld, Rollback, Faulty, Torn, TypeOK,
            Exists, NoArchive, disk, setup, environment
<1>1. CASE Start
  BY <1>1 DEF Start
<1>2. CASE Promote
  BY <1>2 DEF Promote, Fault, NoFault
<1>3. CASE ReconcileAtStart
  BY <1>3 DEF ReconcileAtStart, InterruptedPromotes, OldReachesFurther, Opens
<1>4. CASE TakeLock
  BY <1>4 DEF TakeLock
<1>5. CASE PromoteZip
  BY <1>5 DEF PromoteZip, Fault, NoFault
<1>6. CASE PromoteLst
  BY <1>6 DEF PromoteLst, Fault, NoFault
<1>7. CASE CheckNew
  BY <1>7, RepairedFields DEF CheckNew, SizePositive
<1>8. CASE SetAsideZip
  BY <1>8 DEF SetAsideZip, Fault, NoFault
<1>9. CASE SetAsideLst
  BY <1>9 DEF SetAsideLst, Fault, NoFault
<1>10. CASE RotateZip
  BY <1>10 DEF RotateZip, Fault, NoFault
<1>11. CASE LoadOld
  BY <1>11, RepairedFields DEF LoadOld
<1>12. CASE CreateZip
  BY <1>12 DEF CreateZip, Fault, NoFault
<1>13. CASE UnlinkOldLst
  BY <1>13 DEF UnlinkOldLst
<1>14. CASE RotateLst
  BY <1>14 DEF RotateLst, Fault, NoFault
<1>15. CASE OpenLst
  BY <1>15 DEF OpenLst
<1>16. ASSUME NEW l \in Links, NEW noted \in {"written", "kept"}, NoteFile(l, noted)
      PROVE  PairedInStep'
  BY <1>16 DEF NoteFile
<1>17. ASSUME NEW l \in Links, AddEntry(l)
      PROVE  PairedInStep'
  BY <1>17 DEF AddEntry
<1>18. CASE GiveUp
  BY <1>18 DEF GiveUp, Raise
<1>19. CASE Abort
  BY <1>19 DEF Abort, Raise
<1>20. CASE EndWithNothing
  BY <1>20 DEF EndWithNothing
<1>21. CASE EndAtOnce
  BY <1>21 DEF EndAtOnce
<1>22. CASE EndOfMirror
  BY <1>22 DEF EndOfMirror
<1>23. ASSUME NEW l \in Links, PurgeFile(l)
      PROVE  PairedInStep'
  BY <1>23 DEF PurgeFile
<1>24. CASE PurgeDone
  BY <1>24 DEF PurgeDone
<1>25. CASE CloseZip
  <2>1. newZip'.run = newZip.run
    BY <1>25, RepairedFields DEF CloseZip
  <2> QED
    BY <1>25, <2>1 DEF CloseZip
<1>26. CASE ReconcileAtEnd
  BY <1>26 DEF ReconcileAtEnd, InterruptedPromotes, OldReachesFurther, Opens
<1>27. CASE Unlock
  BY <1>27 DEF Unlock, Exit
<1>28. CASE Kill
  BY <1>28 DEF Kill, Exit
<1>29. CASE UNCHANGED vars
  BY <1>29 DEF vars
<1> HIDE DEF ArchivesSound, BeforeRotation, PairedInStep, PairedAtRest, Paired,
             InStep, MidMove, NoList, KeepOld, Rollback, Faulty, Torn, TypeOK,
             Exists, NoArchive, disk, setup, environment
<1> QED
  BY <1>1, <1>2, <1>3, <1>4, <1>5, <1>6, <1>7, <1>8, <1>9, <1>10, <1>11, <1>12,
     <1>13, <1>14, <1>15, <1>16, <1>17, <1>18, <1>19, <1>20, <1>21, <1>22, <1>23,
     <1>24, <1>25, <1>26, <1>27, <1>28, <1>29 DEF Next, Startup, Promotion,
     CacheInit, Crawl, Ending, Finished

\* Lists describe the archives beside them, whatever runs, kills and rollbacks
\* came before, as long as no call failed and no pair was torn apart.
THEOREM ListsPairedHolds == Spec => []ListsPaired
<1>1. Init => PairedInStep
  BY DEF Init, PairedInStep, PairedAtRest, Paired, Exists, NoArchive, NoList
<1>2. PairedInStep => ListsPaired
  BY DEF PairedInStep, ListsPaired, InStep
<1> QED
  BY <1>1, <1>2, PairedStep, TypeCorrect, FoundKept, ListToPurgeKept, PTL DEF Spec

-----------------------------------------------------------------------------
(* CacheGenerations implements PreviousMirror.                              *)

\* Archives and lists between two runs: what is there can be read, nothing is
\* there without new.zip, and no old.lst without old.zip.
Settled ==
    /\ Opens(newZip) \/ (newZip = NoArchive /\ newLst = NoList)
    /\ Opens(oldZip) \/ (oldZip = NoArchive /\ oldLst = NoList)
    /\ Exists(newZip) \/ ~Exists(oldZip)

\* The generation found, as old.zip and old.lst.
SetBehind == oldZip = found.zip /\ oldLst = found.lst

\* The run's own archive, and nothing behind.
OwnZip == newZip.run = run /\ Opens(newZip)

\* The generation found has come back, where there was one.
CameBack ==
    /\ IF Exists(found.zip) THEN newZip = found.zip ELSE OwnZip
    /\ oldZip = NoArchive

\* Without trouble: the lock tells of no kill, no archive has to be repaired
\* or set aside, and a run promotes at its end only.
Orderly ==
    /\ ~Faulty /\ ~KeepOld
    /\ pc \notin {"setAsideZip", "setAsideLst"}
    /\ pc \in {"promoteZip", "promoteLst"} => after # "takeLock"
    /\ pc \in {"down", "promote", "interrupted", "takeLock"} => lock = "none"
    /\ newZip.run <= run /\ oldZip.run <= run
    /\ pc = "down" => ~CacheOn
    /\ pc \in {"promote", "interrupted", "takeLock"} => newZip.run < run
    /\ Rollback \/ Completed
           => pc \in {"purge", "closeZip", "promoteZip", "promoteLst",
                     "verdict", "unlock"}
    /\ pc \in {"promoteZip", "promoteLst"} /\ after = "unlock"
           => ~Rollback /\ ~Completed /\ Exists(found.zip)

\* A run without a cache, and one that has not come to it yet, leave archives
\* and lists alone; the first moves them in its rollback only.
PlainPlace ==
    /\ ~ZipOut
    /\ pc \in {"down", "promote", "interrupted", "takeLock", "crawl",
               "closeZip", "promoteZip", "promoteLst", "verdict", "unlock"}
    /\ pc \in {"promoteZip", "promoteLst"} => Rollback /\ after = "verdict"
    /\ pc # "promoteLst" => Settled
    /\ pc = "promoteLst"
           => /\ Opens(newZip) \/ (newZip = NoArchive /\ oldLst = NoList)
              /\ oldZip = NoArchive

\* Where the mirror found and the run's own are, at each step of a run with a
\* cache that took note of the one it found.
WorkPlace ==
    /\ Opens(found.zip) \/ (found.zip = NoArchive /\ found.lst = NoList)
    /\ found.zip.run < run
    /\ pc \in {"checkNew", "rotateZip"}
           => Settled /\ newZip = found.zip /\ newLst = found.lst
    /\ pc \in {"load", "createZip", "unlinkOldLst", "rotateLst"}
           => oldZip = found.zip /\ newLst = found.lst
    /\ pc \in {"unlinkOldLst", "rotateLst", "openLst", "crawl", "purge",
               "closeZip"}
           => newZip.run = run /\ ZipOut
    /\ pc \in {"openLst", "crawl", "purge", "closeZip", "promoteZip"}
           => SetBehind
    /\ pc \in {"crawl", "purge", "closeZip"} => newLst.run = run
    /\ pc = "promoteZip" => OwnZip
    /\ pc \in {"promoteZip", "promoteLst"} /\ after = "verdict" => Rollback
    /\ pc = "promoteLst" => CameBack /\ oldLst = found.lst
    /\ pc \in {"verdict", "unlock"} =>
          \/ ~Rollback /\ SetBehind /\ OwnZip /\ newLst.run = run
          \/ /\ CameBack /\ newLst = found.lst /\ oldLst = NoList
             /\ ~Rollback => pc = "unlock" /\ ~Completed /\ Exists(found.zip)

PlacedMirror ==
    Untroubled => /\ Orderly
                  /\ ~Working => PlainPlace
                  /\ Working => WorkPlace

\* An archive that opens needs no repair.
LEMMA OpenRepaired ==
    ASSUME NEW z \in Archive, Opens(z)
    PROVE  Repaired(z) = z
  BY DEF Archive, Opens, Repaired

\* Trouble is counted, and the counts never fall.
LEMMA TroubleStays ==
    ASSUME TypeOK, [Next]_vars, Untroubled'
    PROVE  Untroubled /\ ~Kill
<1>1. kills \in Nat /\ faults \in Nat
  BY BoundsAssumption DEF TypeOK, BoundsAssumption
<1>2. CASE UNCHANGED vars
  BY <1>2, <1>1 DEF vars, Untroubled, Kill
<1>3. CASE Startup
  BY <1>3, <1>1 DEF Startup, Start, Promote, ReconcileAtStart, TakeLock, Fault,
     NoFault, environment, Untroubled, Kill
<1>4. CASE Promotion
  BY <1>4, <1>1 DEF Promotion, PromoteZip, PromoteLst, Fault, NoFault,
     environment, Untroubled, Kill
<1>5. CASE CacheInit
  BY <1>5, <1>1 DEF CacheInit, CheckNew, SetAsideZip, SetAsideLst, RotateZip,
     LoadOld, CreateZip, UnlinkOldLst, RotateLst, OpenLst, Fault, NoFault,
     environment, Untroubled, Kill
<1>6. CASE Crawl
  BY <1>6, <1>1 DEF Crawl, NoteFile, AddEntry, GiveUp, Abort, Raise, environment,
     Untroubled, Kill
<1>7. CASE Ending
  BY <1>7, <1>1 DEF Ending, EndWithNothing, EndAtOnce, EndOfMirror, PurgeFile,
     PurgeDone, CloseZip, ReconcileAtEnd, Unlock, environment, Untroubled, Kill
<1>8. CASE Kill
  BY <1>8, <1>1 DEF Kill, Untroubled
<1> QED
  BY <1>2, <1>3, <1>4, <1>5, <1>6, <1>7, <1>8 DEF Next, Finished

\* The load leaves such an archive, or none, as it is.
LEMMA LoadKeeps ==
    ASSUME TypeOK, LoadOld, Opens(oldZip) \/ oldZip = NoArchive
    PROVE  oldZip' = oldZip
<1>1. Opens(oldZip) => Repaired(oldZip) = oldZip
  BY OpenRepaired DEF TypeOK
<1>2. oldZip = NoArchive => ~SizePositive(oldZip)
  BY DEF SizePositive, NoArchive
<1> QED
  BY <1>1, <1>2 DEF LoadOld

\* A step that moves an archive back, and the one that moves its list.
LEMMA PlacedZipBack ==
    ASSUME TypeOK, ArchivesSound, PlacedMirror, PromoteZip, Untroubled, Untroubled'
    PROVE  PlacedMirror'
<1>1. /\ pc = "promoteZip" /\ pc' = "promoteLst"
      /\ UNCHANGED <<newLst, oldLst, flags, run, after, found, lock>>
      /\ newZip' = IF Exists(oldZip) THEN oldZip ELSE newZip
      /\ oldZip' = IF Exists(oldZip) THEN NoArchive ELSE oldZip
  BY DEF PromoteZip, Fault, NoFault, environment, setup, Untroubled
<1>2. run \in Nat /\ newZip.run \in Nat /\ oldZip.run \in Nat /\ NoArchive.run = 0
  BY BoundsAssumption DEF TypeOK, Archive, BoundsAssumption, NoArchive
<1>3. Orderly /\ marks' \in {marks, marks \cup {"torn"}}
  BY <1>1 DEF PlacedMirror, PromoteZip, NoFault, Fault, environment, Untroubled
<1>4. Orderly'
  BY <1>1, <1>2, <1>3
     DEF Orderly, Faulty, KeepOld, CacheOn, Rollback, Completed, Exists
<1>5. ~Exists(oldZip) => oldZip = NoArchive
  BY DEF ArchivesSound
<1>6. ~Working' => PlainPlace'
  <2>1. SUFFICES ASSUME ~Working  PROVE PlainPlace'
    BY <1>1 DEF Working, CacheOn
  <2>2. PlainPlace /\ Settled
    BY <1>1, <2>1 DEF PlacedMirror, PlainPlace
  <2>3. Rollback' /\ after' = "verdict" /\ ~ZipOut'
    BY <1>1, <2>2 DEF PlainPlace, Rollback, ZipOut
  <2>4. oldZip' = NoArchive
    BY <1>1, <1>5
  <2>5. Opens(newZip') \/ (newZip' = NoArchive /\ oldLst' = NoList)
    BY <1>1, <1>5, <2>2 DEF Settled, Exists, Opens
  <2> QED
    BY <1>1, <2>3, <2>4, <2>5 DEF PlainPlace, Opens
<1>7. Working' => WorkPlace'
  <2>1. SUFFICES ASSUME Working  PROVE WorkPlace'
    BY <1>1 DEF Working, CacheOn
  <2>2. WorkPlace /\ OwnZip /\ SetBehind
    BY <1>1, <2>1 DEF PlacedMirror, WorkPlace
  <2>3. CameBack'
    BY <1>1, <1>5, <2>2 DEF CameBack, OwnZip, SetBehind, Exists, Opens
  <2> QED
    BY <1>1, <2>2, <2>3 DEF WorkPlace, SetBehind, Opens, Rollback
<1> QED
  BY <1>4, <1>6, <1>7 DEF PlacedMirror

LEMMA PlacedListBack ==
    ASSUME TypeOK, ArchivesSound, PlacedMirror, PromoteLst, Untroubled, Untroubled'
    PROVE  PlacedMirror'
<1>1. /\ pc = "promoteLst" /\ pc' = after
      /\ newLst' = oldLst /\ oldLst' = NoList
      /\ UNCHANGED <<newZip, oldZip, flags, run, after, found, lock, marks>>
  BY DEF PromoteLst, Fault, NoFault, environment, setup, Untroubled
<1>2. Orderly /\ pc' \in {"verdict", "unlock"}
  BY <1>1 DEF PlacedMirror, Orderly, TypeOK
<1>3. Orderly'
  BY <1>1, <1>2 DEF Orderly, Faulty, KeepOld, CacheOn, Rollback, Completed
<1>4. ~Working' => PlainPlace'
  <2>1. SUFFICES ASSUME ~Working  PROVE PlainPlace'
    BY <1>1, <1>2 DEF Working, CacheOn
  <2>2. PlainPlace
    BY <2>1 DEF PlacedMirror
  <2>3. Settled'
    BY <1>1, <2>2 DEF PlainPlace, Settled, Opens, Exists, NoArchive
  <2> QED
    BY <1>1, <1>2, <2>2, <2>3 DEF PlainPlace, ZipOut
<1>5. Working' => WorkPlace'
  <2>1. SUFFICES ASSUME Working  PROVE WorkPlace'
    BY <1>1 DEF Working, CacheOn
  <2>2. WorkPlace /\ CameBack /\ oldLst = found.lst
    BY <1>1, <2>1 DEF PlacedMirror, WorkPlace
  <2>3. CameBack' /\ newLst' = found'.lst /\ oldLst' = NoList
    BY <1>1, <2>2 DEF CameBack, OwnZip, Exists, Opens
  <2>4. ~Rollback' => pc' = "unlock" /\ ~Completed' /\ Exists(found'.zip)
    BY <1>1, <1>2, <2>2 DEF WorkPlace, Orderly, Rollback, Completed, Exists
  <2>5. /\ Opens(found'.zip) \/ (found'.zip = NoArchive /\ found'.lst = NoList)
        /\ found'.zip.run < run'
    BY <1>1, <2>2 DEF WorkPlace, Opens
  <2> QED
    BY <1>2, <2>3, <2>4, <2>5 DEF WorkPlace
<1> QED
  BY <1>3, <1>4, <1>5 DEF PlacedMirror

\* The look at the two archives when the run did not complete moves nothing.
LEMMA PlacedVerdict ==
    ASSUME TypeOK, ArchivesSound, PlacedMirror, ReconcileAtEnd, Untroubled,
           Untroubled'
    PROVE  PlacedMirror'
<1>1. /\ pc = "verdict" /\ after' = "unlock"
      /\ pc' = IF ~Completed /\ InterruptedPromotes THEN "promoteZip" ELSE "unlock"
      /\ UNCHANGED <<newZip, oldZip, newLst, oldLst, flags, run, found, lock, marks>>
  BY DEF ReconcileAtEnd, disk, setup, environment
<1>2. Orderly
  BY DEF PlacedMirror
<1>3. CASE Working
  <2>1. WorkPlace
    BY <1>3 DEF PlacedMirror
  <2>2. Working'
    BY <1>1, <1>3 DEF Working, CacheOn
  <2>3. ASSUME pc' = "promoteZip"
        PROVE  /\ ~Rollback /\ ~Completed /\ Exists(found.zip)
               /\ SetBehind /\ OwnZip
    <3>1. ~Completed /\ Exists(oldZip)
      BY <1>1, <2>3 DEF InterruptedPromotes, OldReachesFurther, Opens
    <3>2. ~CameBack
      BY <3>1 DEF CameBack, Exists, NoArchive
    <3> QED
      BY <1>1, <2>1, <3>1, <3>2 DEF WorkPlace, SetBehind, Exists
  <2>4. Orderly'
    BY <1>1, <1>2, <2>3
       DEF Orderly, Faulty, KeepOld, CacheOn, Rollback, Completed, Exists
  <2>5. pc' = "unlock" =>
          \/ ~Rollback' /\ SetBehind' /\ OwnZip' /\ newLst'.run = run'
          \/ /\ CameBack' /\ newLst' = found'.lst /\ oldLst' = NoList
             /\ ~Rollback' => pc' = "unlock" /\ ~Completed' /\ Exists(found'.zip)
    BY <1>1, <2>1
       DEF WorkPlace, Rollback, SetBehind, OwnZip, CameBack, Completed, Exists, Opens
  <2>6. pc' = "promoteZip" => SetBehind' /\ OwnZip'
    BY <1>1, <2>3 DEF SetBehind, OwnZip, Opens
  <2>7. /\ Opens(found'.zip) \/ (found'.zip = NoArchive /\ found'.lst = NoList)
        /\ found'.zip.run < run'
    BY <1>1, <2>1 DEF WorkPlace, Opens
  <2>8. WorkPlace'
    BY <1>1, <2>5, <2>6, <2>7 DEF WorkPlace
  <2> QED
    BY <2>2, <2>4, <2>8 DEF PlacedMirror
<1>4. CASE ~Working
  <2>1. ~CacheOn /\ PlainPlace
    BY <1>1, <1>4 DEF PlacedMirror, Working
  <2>2. pc' = "unlock" /\ ~Working'
    BY <1>1, <2>1 DEF InterruptedPromotes, Working, CacheOn
  <2>3. Orderly'
    BY <1>1, <1>2, <2>2 DEF Orderly, Faulty, KeepOld, CacheOn, Rollback, Completed
  <2>4. PlainPlace'
    BY <1>1, <2>1, <2>2 DEF PlainPlace, Settled, ZipOut, Opens, Exists
  <2> QED
    BY <2>2, <2>3, <2>4 DEF PlacedMirror
<1> QED
  BY <1>3, <1>4

LEMMA PlacedStill == PlacedMirror /\ UNCHANGED vars => PlacedMirror'
<1> SUFFICES ASSUME PlacedMirror, UNCHANGED vars
             PROVE  PlacedMirror'
  OBVIOUS
<1>1. /\ UNCHANGED <<newZip, oldZip, newLst, oldLst, flags, run, found, lock>>
      /\ UNCHANGED <<pc, after, marks, kills, faults>>
  BY DEF vars, disk, setup, environment
<1>2. Untroubled' = Untroubled /\ Working' = Working
  BY <1>1 DEF Untroubled, Working, CacheOn
<1>3. Orderly' = Orderly
  BY <1>1 DEF Orderly, Faulty, KeepOld, CacheOn, Rollback, Completed, Exists
<1>4. PlainPlace' = PlainPlace
  BY <1>1 DEF PlainPlace, Settled, ZipOut, Rollback, Opens, Exists
<1>5. /\ SetBehind' = SetBehind /\ OwnZip' = OwnZip /\ CameBack' = CameBack
      /\ Settled' = Settled
  BY <1>1 DEF SetBehind, OwnZip, CameBack, Settled, Opens, Exists
<1>6. WorkPlace' = WorkPlace
  BY <1>1, <1>5 DEF WorkPlace, ZipOut, Rollback, Completed, Opens, Exists
<1> QED
  BY <1>2, <1>3, <1>4, <1>6 DEF PlacedMirror

\* Every step that no trouble disturbs knows where the mirror found is.
LEMMA PlacedStep ==
    ASSUME TypeOK, ArchivesSound, PlacedMirror, [Next]_vars
    PROVE  PlacedMirror'
<1> SUFFICES ASSUME Untroubled'
             PROVE  PlacedMirror'
  BY DEF PlacedMirror
<1>0. Untroubled' /\ Untroubled /\ ~Kill
  BY TroubleStays
<1>00. run \in Nat /\ newZip.run \in Nat /\ oldZip.run \in Nat
  BY BoundsAssumption DEF TypeOK, Archive, BoundsAssumption
<1>5. CASE PromoteZip
  BY <1>0, <1>5, PlacedZipBack
<1>6. CASE PromoteLst
  BY <1>0, <1>6, PlacedListBack
<1>26. CASE ReconcileAtEnd
  BY <1>0, <1>26, PlacedVerdict
<1>28. CASE UNCHANGED vars
  BY <1>28, PlacedStill
<1> USE DEF PlacedMirror, Orderly, PlainPlace, WorkPlace, Settled, SetBehind, OwnZip,
            CameBack, Untroubled, Working, ArchivesSound, CacheOn, KeepOld, ZipOut,
            Rollback, Faulty, Completed, Opens, TypeOK, Exists, NoArchive, NoList,
            NothingFound, disk, setup, environment
<1>1. CASE Start
  BY <1>0, <1>00, <1>1 DEF Start
<1>2. CASE Promote
  BY <1>0, <1>2 DEF Promote, Fault, NoFault
<1>3. CASE ReconcileAtStart
  BY <1>0, <1>3 DEF ReconcileAtStart, InterruptedPromotes
<1>4. CASE TakeLock
  BY <1>0, <1>4 DEF TakeLock
<1>7. CASE CheckNew
  <2>1. CASE ~Exists(newZip)
    BY <1>0, <1>7, <2>1 DEF CheckNew
  <2>2. CASE Exists(newZip)
    <3>1. Opens(newZip)
      BY <1>0, <1>7, <2>2 DEF CheckNew
    <3> QED
      BY <1>0, <1>7, <2>2, <3>1 DEF CheckNew
  <2> QED
    BY <2>1, <2>2
<1>8. CASE SetAsideZip
  BY <1>0, <1>8 DEF SetAsideZip, Fault, NoFault
<1>9. CASE SetAsideLst
  BY <1>0, <1>9 DEF SetAsideLst, Fault, NoFault
<1>10. CASE RotateZip
  BY <1>0, <1>10 DEF RotateZip, Fault, NoFault
<1>11. CASE LoadOld
  <2>1. Opens(oldZip) \/ oldZip = NoArchive
    BY <1>0, <1>11 DEF LoadOld
  <2>2. oldZip' = oldZip
    BY <1>11, <2>1, LoadKeeps
  <2> QED
    BY <1>0, <1>11, <2>2 DEF LoadOld
<1>12. CASE CreateZip
  BY <1>0, <1>12 DEF CreateZip, Fault, NoFault
<1>13. CASE UnlinkOldLst
  BY <1>0, <1>13 DEF UnlinkOldLst
<1>14. CASE RotateLst
  BY <1>0, <1>14 DEF RotateLst, Fault, NoFault
<1>15. CASE OpenLst
  BY <1>0, <1>15 DEF OpenLst
<1>16. ASSUME NEW l \in Links, NEW noted \in {"written", "kept"}, NoteFile(l, noted)
      PROVE  PlacedMirror'
  BY <1>0, <1>16 DEF NoteFile
<1>17. ASSUME NEW l \in Links, AddEntry(l)
      PROVE  PlacedMirror'
  BY <1>0, <1>17 DEF AddEntry
<1>18. CASE GiveUp
  BY <1>0, <1>18 DEF GiveUp, Raise
<1>19. CASE Abort
  BY <1>0, <1>19 DEF Abort, Raise
<1>20. CASE EndWithNothing
  BY <1>0, <1>20 DEF EndWithNothing
<1>21. CASE EndAtOnce
  BY <1>0, <1>21 DEF EndAtOnce
<1>22. CASE EndOfMirror
  BY <1>0, <1>22 DEF EndOfMirror, PurgeRuns
<1>23. ASSUME NEW l \in Links, PurgeFile(l)
      PROVE  PlacedMirror'
  BY <1>0, <1>23 DEF PurgeFile
<1>24. CASE PurgeDone
  BY <1>0, <1>24 DEF PurgeDone
<1>25. CASE CloseZip
  BY <1>0, <1>25, RepairedFields DEF CloseZip
<1>27. CASE Unlock
  <2>1. CASE Working
    BY <1>0, <1>00, <1>27, <2>1 DEF Unlock, Exit
  <2>2. CASE ~Working
    BY <1>0, <1>00, <1>27, <2>2 DEF Unlock, Exit
  <2> QED
    BY <2>1, <2>2
<1> HIDE DEF PlacedMirror, Orderly, PlainPlace, WorkPlace, Settled, SetBehind, OwnZip,
            CameBack, Untroubled, Working, ArchivesSound, CacheOn, KeepOld, ZipOut,
            Rollback, Faulty, Completed, Opens, TypeOK, Exists, NoArchive, NoList,
            NothingFound, disk, setup, environment
<1> QED
  BY <1>1, <1>2, <1>3, <1>4, <1>5, <1>6, <1>7, <1>8, <1>9, <1>10, <1>11, <1>12,
     <1>13, <1>14, <1>15, <1>16, <1>17, <1>18, <1>19, <1>20, <1>21, <1>22, <1>23,
     <1>24, <1>25, <1>26, <1>27, <1>28, <1>0 DEF Next, Startup, Promotion,
     CacheInit, Crawl, Ending, Finished

\* How a run with a cache ends is how PreviousMirror settles the mirror.
LEMMA SettleStep ==
    ASSUME TypeOK, ArchivesSound, PlacedMirror, AbortKeepsFurthest, Unlock,
           CacheOn, Untroubled, Untroubled'
    PROVE  Previous!Next
<1>1. pc = "unlock" /\ run' = run /\ pc' = "down" /\ flags' = {}
      /\ UNCHANGED <<newZip, oldZip, newLst, oldLst>>
  BY DEF Unlock, Exit
<1>2. Working /\ WorkPlace /\ Orderly
  BY <1>1 DEF Working, PlacedMirror
<1>3. ~Working' /\ Phase' = "idle"
  BY <1>1 DEF Working, Phase, CacheOn
<1>4. /\ MirrorNow = MirrorOf(found.zip, found.lst)
      /\ MirrorNow' = MirrorOf(newZip, newLst)
  BY <1>1, <1>2, <1>3 DEF MirrorNow, MirrorOf
<1>5. MirrorBefore' = MirrorOf(oldZip, oldLst)
  BY <1>1, <1>3 DEF MirrorBefore, MirrorOf
<1>6. Phase = IF Rollback THEN "void" ELSE IF Completed THEN "whole" ELSE "caching"
  BY <1>1 DEF Phase, Undone
<1> DEFINE E == newZip.entries
           F == newLst.files
<1>7. run \in 1..MaxRun /\ E \in SUBSET Links /\ F \in SUBSET Links
      /\ newLst = [run |-> newLst.run, files |-> F]
  <2>1. run \in 1..MaxRun
    BY <1>1, BoundsAssumption DEF BoundsAssumption, TypeOK, ArchivesSound
  <2>2. newZip \in Archive /\ newLst \in List
    BY DEF TypeOK
  <2> QED
    BY <2>1, <2>2 DEF Archive, List
<1>8. Previous!Nothing = MirrorOf(NoArchive, NoList) /\ Previous!Unlisted = NoList
  BY DEF Previous!Nothing, Previous!Unlisted, MirrorOf, NoArchive, NoList
<1>9. CASE ~Rollback /\ SetBehind /\ OwnZip /\ newLst.run = run
  <2>1. /\ run > MirrorNow.run /\ MirrorBefore' = MirrorNow
        /\ MirrorNow' = [run |-> run, entries |-> E,
                        list |-> [run |-> run, files |-> F]]
    BY <1>2, <1>4, <1>5, <1>7, <1>9 DEF MirrorOf, SetBehind, OwnZip, WorkPlace
  <2>2. Phase = "caching" => Cardinality(E) >= Cardinality(MirrorNow.entries)
    BY <1>1, <1>2, <1>4, <1>6, <1>9 DEF MirrorOf, AbortKeepsFurthest, Orderly
  <2>3. Phase \in {"caching", "whole"}
    BY <1>6, <1>9
  <2> HIDE DEF E, F
  <2>4. \A S : Previous!Cardinality(S) = Cardinality(S)
    BY DEF Cardinality, Previous!Cardinality
  <2>5. Previous!Replace(run, E, F)
    BY <1>3, <2>1, <2>2, <2>3, <2>4 DEF Previous!Replace
  <2> QED
    BY <1>7, <2>5 DEF Previous!Next
<1>10. CASE /\ CameBack /\ newLst = found.lst /\ oldLst = NoList
            /\ Exists(found.zip) /\ (Rollback \/ ~Completed)
  <2>1. MirrorNow' = MirrorNow /\ MirrorNow.run # 0
        /\ MirrorBefore' = Previous!Nothing
    BY <1>4, <1>5, <1>8, <1>10 DEF CameBack, MirrorOf, Exists
  <2>2. Phase \in {"caching", "void"}
    BY <1>6, <1>10
  <2> QED
    BY <1>3, <2>1, <2>2 DEF Previous!Next, Previous!Keep
<1>11. CASE /\ CameBack /\ newLst = found.lst /\ oldLst = NoList
            /\ ~Exists(found.zip) /\ Rollback
  <2>1. found.zip = NoArchive /\ found.lst = NoList
    BY <1>2, <1>11 DEF WorkPlace, Opens
  <2>2. Phase = "void" /\ MirrorNow.run = 0 /\ MirrorBefore' = Previous!Nothing
    BY <1>4, <1>5, <1>6, <1>8, <1>11, <2>1 DEF CameBack, MirrorOf, NoArchive
  <2>3. MirrorNow' = [run |-> run, entries |-> E, list |-> Previous!Unlisted]
    BY <1>4, <1>8, <1>11, <2>1 DEF CameBack, OwnZip, MirrorOf
  <2>4. Previous!KeepOwn(run, E)
    BY <1>3, <2>2, <2>3 DEF Previous!KeepOwn
  <2> QED
    BY <1>7, <2>4 DEF Previous!Next
<1> QED
  BY <1>1, <1>2, <1>9, <1>10, <1>11 DEF WorkPlace

\* The rollback of a run without a cache is the Undo of PreviousMirror.
LEMMA UndoStep ==
    ASSUME TypeOK, PlacedMirror, PromoteZip, ~Working, Untroubled, Untroubled'
    PROVE  Previous!Undo
<1>1. /\ pc = "promoteZip" /\ pc' = "promoteLst"
      /\ UNCHANGED <<newLst, oldLst, flags, kills, faults>>
      /\ newZip' = IF Exists(oldZip) THEN oldZip ELSE newZip
  BY DEF PromoteZip, Fault, NoFault, environment, Untroubled, TypeOK
<1>2. PlainPlace /\ ~CacheOn /\ ~Working' /\ Rollback /\ Rollback'
  BY <1>1 DEF PlacedMirror, PlainPlace, Working, CacheOn, Rollback
<1>3. Phase = "plain" /\ Phase' = "idle"
  BY <1>1, <1>2 DEF Phase, Undone, CacheOn, Rollback
<1>4. /\ MirrorNow = MirrorOf(newZip, newLst)
      /\ MirrorNow' = MirrorOf(newZip', oldLst)
  BY <1>1, <1>2 DEF MirrorNow, MirrorOf
<1>5. /\ MirrorBefore = MirrorOf(oldZip, oldLst)
      /\ MirrorBefore' = MirrorOf(NoArchive, NoList)
  BY <1>1, <1>2 DEF MirrorBefore, MirrorOf
<1>6. Previous!Nothing = MirrorOf(NoArchive, NoList) /\ Previous!Unlisted = NoList
  BY DEF Previous!Nothing, Previous!Unlisted, MirrorOf, NoArchive, NoList
<1>7. CASE Exists(oldZip)
  <2>1. MirrorNow' = MirrorBefore /\ MirrorBefore.run # 0
    BY <1>1, <1>4, <1>5, <1>7 DEF MirrorOf, Exists
  <2> QED
    BY <1>3, <1>5, <1>6, <2>1 DEF Previous!Undo
<1>8. CASE ~Exists(oldZip)
  <2>1. oldLst = NoList /\ newZip' = newZip
    BY <1>1, <1>2, <1>8 DEF PlainPlace, Settled, Opens
  <2>2. MirrorNow' = [MirrorNow EXCEPT !.list = NoList] /\ MirrorBefore.run = 0
    BY <1>4, <1>5, <1>8, <2>1 DEF MirrorOf, Exists
  <2> QED
    BY <1>3, <1>5, <1>6, <2>2 DEF Previous!Undo
<1> QED
  BY <1>7, <1>8

\* The list follows the archive that came back.
LEMMA RelistStep ==
    ASSUME TypeOK, PlacedMirror, PromoteLst, ~Working, Untroubled, Untroubled'
    PROVE  UNCHANGED Previous!mirrorVars
<1>1. /\ pc = "promoteLst" /\ pc' = after
      /\ newLst' = oldLst /\ oldLst' = NoList
      /\ UNCHANGED <<newZip, oldZip, flags, kills, faults>>
  BY DEF PromoteLst, Fault, NoFault, setup, Untroubled, TypeOK
<1>2. PlainPlace /\ ~CacheOn /\ Rollback
  BY <1>1 DEF PlacedMirror, PlainPlace, Working, CacheOn
<1>3. /\ pc' = "verdict" /\ oldZip' = NoArchive
      /\ ~CacheOn' /\ Rollback' /\ ~Working'
  BY <1>1, <1>2 DEF PlainPlace, CacheOn, Rollback, Working
<1>4. Phase = "idle" /\ Phase' = "idle"
  BY <1>1, <1>2, <1>3 DEF Phase, Undone
<1>5. /\ MirrorNow = MirrorOf(newZip, oldLst)
      /\ MirrorNow' = MirrorOf(newZip', newLst')
  BY <1>1, <1>3 DEF MirrorNow
<1>6. /\ MirrorBefore = MirrorOf(NoArchive, NoList)
      /\ MirrorBefore' = MirrorOf(oldZip', oldLst')
  BY <1>1, <1>3 DEF MirrorBefore
<1>7. MirrorNow' = MirrorNow /\ MirrorBefore' = MirrorBefore
  BY <1>1, <1>3, <1>5, <1>6 DEF MirrorOf, NoArchive, NoList
<1> QED
  BY <1>4, <1>7 DEF Previous!mirrorVars

\* The look at the two archives changes nothing PreviousMirror sees.
LEMMA VerdictStep ==
    ASSUME ReconcileAtEnd, Untroubled, Untroubled'
    PROVE  UNCHANGED Previous!mirrorVars
<1>1. /\ pc = "verdict" /\ pc' \in {"promoteZip", "unlock"}
      /\ ~CacheOn => pc' = "unlock"
      /\ UNCHANGED <<newZip, oldZip, newLst, oldLst, flags, found>>
  BY DEF ReconcileAtEnd, InterruptedPromotes, disk, setup, environment
<1>2. /\ CacheOn' <=> CacheOn
      /\ Rollback' <=> Rollback
      /\ Completed' <=> Completed
      /\ Working <=> CacheOn
      /\ Working' <=> CacheOn
  BY <1>1 DEF CacheOn, Rollback, Completed, Working
<1>3. Phase' = Phase
  BY <1>1, <1>2 DEF Phase, Undone
<1>4. MirrorNow' = MirrorNow
  BY <1>1, <1>2 DEF MirrorNow, MirrorOf
<1>5. MirrorBefore' = MirrorBefore
  BY <1>1, <1>2 DEF MirrorBefore, MirrorOf
<1> QED
  BY <1>3, <1>4, <1>5 DEF Previous!mirrorVars

LEMMA StillMapped == UNCHANGED vars => UNCHANGED Previous!mirrorVars
<1> SUFFICES ASSUME UNCHANGED vars
             PROVE  UNCHANGED Previous!mirrorVars
  OBVIOUS
<1>1. UNCHANGED <<newZip, oldZip, newLst, oldLst, flags, found, pc, kills, faults>>
  BY DEF vars
<1>2. /\ Untroubled' = Untroubled /\ Working' = Working /\ Undone' = Undone
      /\ CacheOn' = CacheOn /\ Rollback' = Rollback /\ Completed' = Completed
  BY <1>1 DEF Untroubled, Working, Undone, CacheOn, Rollback, Completed
<1>3. Phase' = Phase
  BY <1>1, <1>2 DEF Phase
<1>4. MirrorNow' = MirrorNow
  BY <1>1, <1>2 DEF MirrorNow, MirrorOf
<1>5. MirrorBefore' = MirrorBefore
  BY <1>1, <1>2 DEF MirrorBefore, MirrorOf
<1> QED
  BY <1>3, <1>4, <1>5 DEF Previous!mirrorVars

\* A promotion in a run with a cache is part of how it ends: PreviousMirror
\* sees the end only.
LEMMA MoveStep ==
    ASSUME TypeOK, PlacedMirror, PromoteZip \/ PromoteLst, Working, Untroubled,
           Untroubled'
    PROVE  UNCHANGED Previous!mirrorVars
<1>1. /\ pc \in {"promoteZip", "promoteLst"} /\ UNCHANGED <<flags, found>>
      /\ pc' = "promoteLst" \/ pc' = after
  BY DEF PromoteZip, PromoteLst, setup
<1>2. CacheOn /\ pc' \in {"promoteLst", "verdict", "unlock"}
  BY <1>1 DEF PlacedMirror, Orderly, Working, TypeOK
<1>3. /\ CacheOn' /\ Working' /\ Rollback' = Rollback /\ Completed' = Completed
  BY <1>1, <1>2 DEF CacheOn, Working, Rollback, Completed
<1>4. Phase' = Phase
  BY <1>1, <1>2, <1>3 DEF Phase, Undone
<1>5. MirrorNow' = MirrorNow
  BY <1>1, <1>3 DEF MirrorNow, MirrorOf
<1>6. MirrorBefore' = MirrorBefore
  BY <1>1, <1>2, <1>3 DEF MirrorBefore
<1> QED
  BY <1>4, <1>5, <1>6 DEF Previous!mirrorVars

\* A run without a cache ends with the archives as they are.
LEMMA PlainEndStep ==
    ASSUME Unlock, ~CacheOn, Untroubled, Untroubled'
    PROVE  Previous!End \/ UNCHANGED Previous!mirrorVars
<1>1. pc = "unlock" /\ pc' = "down" /\ flags' = {}
      /\ UNCHANGED <<newZip, oldZip, newLst, oldLst>>
  BY DEF Unlock, Exit
<1>2. ~Working /\ ~Working'
  BY <1>1 DEF Working, CacheOn
<1>3. Phase \in {"idle", "plain"} /\ Phase' = "idle"
  BY <1>1 DEF Phase, Undone
<1>4. MirrorNow' = MirrorNow
  BY <1>1, <1>2 DEF MirrorNow, MirrorOf
<1>5. MirrorBefore' = MirrorBefore
  BY <1>1, <1>2 DEF MirrorBefore, MirrorOf
<1> QED
  BY <1>3, <1>4, <1>5 DEF Previous!End, Previous!mirrorVars

\* A step of the program, as PreviousMirror sees it.
Mapped == [Previous!Next]_Previous!mirrorVars

LEMMA PreviousStep ==
    ASSUME TypeOK, ArchivesSound, PlacedMirror, AbortKeepsFurthest, [Next]_vars,
           Untroubled'
    PROVE  Mapped
<1>0. Untroubled' /\ Untroubled /\ ~Kill
  BY TroubleStays
<1>5. CASE PromoteZip
  <2>1. CASE Working
    BY <1>0, <1>5, <2>1, MoveStep DEF Mapped
  <2>2. CASE ~Working
    BY <1>0, <1>5, <2>2, UndoStep DEF Mapped, Previous!Next
  <2> QED
    BY <2>1, <2>2
<1>6. CASE PromoteLst
  <2>1. CASE Working
    BY <1>0, <1>6, <2>1, MoveStep DEF Mapped
  <2>2. CASE ~Working
    BY <1>0, <1>6, <2>2, RelistStep DEF Mapped
  <2> QED
    BY <2>1, <2>2
<1>26. CASE ReconcileAtEnd
  BY <1>0, <1>26, VerdictStep DEF Mapped
<1>27. CASE Unlock
  <2>1. CASE ~CacheOn
    BY <1>0, <1>27, <2>1, PlainEndStep DEF Mapped, Previous!Next
  <2>2. CASE CacheOn
    BY <1>0, <1>27, <2>2, SettleStep DEF Mapped
  <2> QED
    BY <2>1, <2>2
<1>28. CASE UNCHANGED vars
  BY <1>28, StillMapped DEF Mapped
<1> USE DEF PlacedMirror, Orderly, PlainPlace, WorkPlace, Settled, SetBehind, OwnZip,
            CameBack, Untroubled, Working, Undone, MirrorOf, MirrorNow, MirrorBefore,
            Phase, ArchivesSound, CacheOn, KeepOld, ZipOut, Rollback, Faulty,
            Completed, Opens, TypeOK, Exists, NoArchive, NoList, NothingFound, disk,
            setup, environment, Mapped, Previous!Next, Previous!mirrorVars
<1>1. CASE Start
  <2>1. Phase = "idle" /\ Phase' \in {"caching", "plain"}
        /\ UNCHANGED <<MirrorNow, MirrorBefore>>
    BY <1>0, <1>1 DEF Start
  <2> QED
    BY <2>1 DEF Previous!Begin
<1>2. CASE Promote
  BY <1>0, <1>2 DEF Promote, Fault, NoFault
<1>3. CASE ReconcileAtStart
  BY <1>0, <1>3 DEF ReconcileAtStart, InterruptedPromotes
<1>4. CASE TakeLock
  BY <1>0, <1>4 DEF TakeLock
<1>7. CASE CheckNew
  <2>1. CASE ~Exists(newZip)
    BY <1>0, <1>7, <2>1 DEF CheckNew
  <2>2. CASE Exists(newZip)
    <3>1. Opens(newZip)
      BY <1>0, <1>7, <2>2 DEF CheckNew
    <3> QED
      BY <1>0, <1>7, <2>2, <3>1 DEF CheckNew
  <2> QED
    BY <2>1, <2>2
<1>8. CASE SetAsideZip
  BY <1>0, <1>8 DEF SetAsideZip, Fault, NoFault
<1>9. CASE SetAsideLst
  BY <1>0, <1>9 DEF SetAsideLst, Fault, NoFault
<1>10. CASE RotateZip
  <2>1. Phase = "caching" /\ UNCHANGED <<Phase, MirrorNow>>
    BY <1>0, <1>10 DEF RotateZip, Fault, NoFault
  <2>2. MirrorBefore' = Previous!Nothing
    BY <1>0, <1>10 DEF RotateZip, Fault, NoFault, Previous!Nothing, Previous!Unlisted
  <2> QED
    BY <2>1, <2>2 DEF Previous!Forget
<1>11. CASE LoadOld
  BY <1>0, <1>11 DEF LoadOld
<1>12. CASE CreateZip
  BY <1>0, <1>12 DEF CreateZip, Fault, NoFault
<1>13. CASE UnlinkOldLst
  BY <1>0, <1>13 DEF UnlinkOldLst
<1>14. CASE RotateLst
  BY <1>0, <1>14 DEF RotateLst, Fault, NoFault
<1>15. CASE OpenLst
  BY <1>0, <1>15 DEF OpenLst
<1>16. ASSUME NEW l \in Links, NEW noted \in {"written", "kept"}, NoteFile(l, noted)
      PROVE  Mapped
  BY <1>0, <1>16 DEF NoteFile
<1>17. ASSUME NEW l \in Links, AddEntry(l)
      PROVE  Mapped
  BY <1>0, <1>17 DEF AddEntry
<1>18. CASE GiveUp
  BY <1>0, <1>18 DEF GiveUp, Raise
<1>19. CASE Abort
  BY <1>0, <1>19 DEF Abort, Raise
<1>20. CASE EndWithNothing
  <2>1. CASE CacheOn
    <3>1. Phase = "caching" /\ Phase' = "void"
          /\ UNCHANGED <<MirrorNow, MirrorBefore>>
      BY <1>0, <1>20, <2>1 DEF EndWithNothing
    <3> QED
      BY <3>1 DEF Previous!Judge
  <2>2. CASE ~CacheOn
    BY <1>0, <1>20, <2>2 DEF EndWithNothing
  <2> QED
    BY <2>1, <2>2
<1>21. CASE EndAtOnce
  BY <1>0, <1>21 DEF EndAtOnce
<1>22. CASE EndOfMirror
  <2>1. CASE CacheOn /\ ~Aborted
    <3>1. Phase = "caching" /\ Phase' = "whole"
          /\ UNCHANGED <<MirrorNow, MirrorBefore>>
      BY <1>0, <1>22, <2>1 DEF EndOfMirror, PurgeRuns
    <3> QED
      BY <3>1 DEF Previous!Judge
  <2>2. CASE ~CacheOn \/ Aborted
    BY <1>0, <1>22, <2>2 DEF EndOfMirror, PurgeRuns
  <2> QED
    BY <2>1, <2>2
<1>23. ASSUME NEW l \in Links, PurgeFile(l)
      PROVE  Mapped
  BY <1>0, <1>23 DEF PurgeFile
<1>24. CASE PurgeDone
  BY <1>0, <1>24 DEF PurgeDone
<1>25. CASE CloseZip
  BY <1>0, <1>25 DEF CloseZip
<1> HIDE DEF PlacedMirror, Orderly, PlainPlace, WorkPlace, Settled, SetBehind, OwnZip,
            CameBack, Untroubled, Working, Undone, MirrorOf, MirrorNow, MirrorBefore,
            Phase, ArchivesSound, CacheOn, KeepOld, ZipOut, Rollback, Faulty,
            Completed, Opens, TypeOK, Exists, NoArchive, NoList, NothingFound, disk,
            setup, environment, Mapped, Previous!Next, Previous!mirrorVars
<1> QED
  BY <1>0, <1>1, <1>2, <1>3, <1>4, <1>5, <1>6, <1>7, <1>8, <1>9, <1>10, <1>11,
     <1>12, <1>13, <1>14, <1>15, <1>16, <1>17, <1>18, <1>19, <1>20, <1>21, <1>22,
     <1>23, <1>24, <1>25, <1>26, <1>27, <1>28 DEF Next, Startup, Promotion,
     CacheInit, Crawl, Ending, Finished

\* Once there is trouble nothing is promised.
LEMMA TroubleMapped ==
    ASSUME TypeOK, [Next]_vars, ~Untroubled'
    PROVE  Mapped
<1>1. /\ MirrorNow' = Previous!Nothing /\ MirrorBefore' = Previous!Nothing
      /\ Phase' = "troubled"
  BY DEF MirrorNow, MirrorBefore, Phase, MirrorOf, NoArchive, NoList,
     Previous!Nothing, Previous!Unlisted
<1> QED
  BY <1>1 DEF Mapped, Previous!Next, Previous!Trouble

\* Runs that no kill and no failed call disturbs replace the archive and the
\* list the next run works from both or neither, as PreviousMirror says.
THEOREM PreviousKeptHolds == Spec => PreviousKept
<1>1. Init => PlacedMirror
  BY DEF Init, PlacedMirror, Orderly, PlainPlace, Settled, Working, Untroubled,
     CacheOn, KeepOld, ZipOut, Rollback, Completed, Faulty, NoArchive, NoList,
     Exists, Opens
<1>2. Init => Previous!Init
  BY DEF Init, Previous!Init, MirrorNow, MirrorBefore, Phase, MirrorOf, Working,
     Untroubled, CacheOn, Previous!Nothing, Previous!Unlisted, NoArchive, NoList
<1>3. TypeOK /\ ArchivesSound /\ PlacedMirror /\ AbortKeepsFurthest /\ [Next]_vars
         => [Previous!Next]_Previous!mirrorVars
  BY PreviousStep, TroubleMapped DEF Mapped
<1> QED
  BY <1>1, <1>2, <1>3, PlacedStep, TypeCorrect, ListToPurgeKept,
     AbortKeepsFurthestHolds, PTL DEF Spec, PreviousKept, Previous!Spec

\* A run that mirrored nothing, or was cut short, leaves the cache it found or
\* one that reaches as far, whatever kills and failures earlier runs died of.
THEOREM FoundOutlivesHolds == Spec => []FoundOutlives
  BY RollbackRestoresHolds, AbortKeepsFurthestHolds, PTL DEF FoundOutlives

=============================================================================
