---------------------------- MODULE PreviousMirror ----------------------------
(***************************************************************************)
(* What the cache promises to the next run, as long as no run is killed    *)
(* and no file system call fails: the mirror that run will work from, its  *)
(* archive and its list together, is replaced whole by a run or not at     *)
(* all.  A completed run replaces it, a run that brought back nothing      *)
(* leaves it, and one cut short replaces it only by an archive that        *)
(* reaches as far.                                                         *)
(***************************************************************************)
EXTENDS Naturals, FiniteSets

CONSTANTS
    Links,      \* the URLs of the site
    MaxRun      \* bound: number of runs

VARIABLES
    mirror,     \* the mirror the next run works from
    before,     \* the one it replaced, while that one is still on disk
    phase       \* what the run at work is up to, or "idle"

mirrorVars == <<mirror, before, phase>>

\* A mirror is the run that made it, the links its archive has, and its list.
Unlisted == [run |-> 0, files |-> {}]
Nothing == [run |-> 0, entries |-> {}, list |-> Unlisted]

Init == mirror = Nothing /\ before = Nothing /\ phase = "idle"

\* A run begins, with a cache or without.
Begin ==
    /\ phase = "idle"
    /\ phase' \in {"caching", "plain"}
    /\ UNCHANGED <<mirror, before>>

\* A run with a cache will no longer give back the mirror before the last one.
Forget ==
    /\ phase = "caching"
    /\ before' = Nothing
    /\ UNCHANGED <<mirror, phase>>

\* The crawl is over, to the end ("whole") or with nothing to keep ("void").
Judge ==
    /\ phase = "caching"
    /\ phase' \in {"whole", "void"}
    /\ UNCHANGED <<mirror, before>>

\* The run leaves its own archive and list; one cut short has looked first how
\* far its archive reaches.
Replace(r, E, F) ==
    /\ phase \in {"caching", "whole"}
    /\ phase = "caching" => Cardinality(E) >= Cardinality(mirror.entries)
    /\ r > mirror.run
    /\ mirror' = [run |-> r, entries |-> E, list |-> [run |-> r, files |-> F]]
    /\ before' = mirror
    /\ phase' = "idle"

\* The run leaves what it found.
Keep ==
    /\ phase \in {"caching", "void"}
    /\ mirror.run # 0
    /\ before' = Nothing
    /\ phase' = "idle"
    /\ mirror' = mirror

\* With nothing to come back to, a run that brought back nothing leaves its
\* archive without a list.
KeepOwn(r, E) ==
    /\ phase = "void" /\ mirror.run = 0
    /\ mirror' = [run |-> r, entries |-> E, list |-> Unlisted]
    /\ before' = Nothing
    /\ phase' = "idle"

\* A run without a cache has nothing to leave.
End ==
    /\ phase = "plain"
    /\ phase' = "idle"
    /\ UNCHANGED <<mirror, before>>

\* One that brought back nothing undoes the run before it all the same.
Undo ==
    /\ phase = "plain"
    /\ mirror' = IF before.run # 0 THEN before
                                   ELSE [mirror EXCEPT !.list = Unlisted]
    /\ before' = Nothing
    /\ phase' = "idle"

\* A kill or a failed call, after which nothing is promised here.
Trouble ==
    /\ mirror' = Nothing /\ before' = Nothing
    /\ phase' = "troubled"

Next ==
    \/ Begin \/ Forget \/ Judge \/ Keep \/ End \/ Undo \/ Trouble
    \/ \E r \in 1..MaxRun, E, F \in SUBSET Links :
          Replace(r, E, F) \/ KeepOwn(r, E)

Spec == Init /\ [][Next]_mirrorVars

=============================================================================
