------------------------------ MODULE LinkQueue ------------------------------
(***************************************************************************)
(* The links of a mirror and the slots that transfer them: the heap of     *)
(* links and the two passes over it (httpmirror), the prefetch (back_fill),*)
(* the wait for the link at hand (hts_mirror_wait_for_next_file), the wait *)
(* for a link whose type is unknown (hts_wait_delayed), and the slot table *)
(* with the finished transfers that are saved in background (back_clean)   *)
(* or swapped to disk (back_cleanup_background, back_index_ready).         *)
(*                                                                         *)
(* The program is one thread that pumps its sockets from many places.  An  *)
(* action is the code between two pumps; the network decides what a pump   *)
(* finishes.                                                               *)
(*                                                                         *)
(* A slot that only keeps an idle connection counts as free, because       *)
(* back_search() takes it.  The memory limit, the connection rate, the     *)
(* pause between files and Retry-After hold a launch back at any time.     *)
(***************************************************************************)
EXTENDS Integers, Sequences, FiniteSetsExt

CONSTANTS
    Url,        \* the URLs of the site
    Name,       \* the local names
    NameOf,     \* url_savename(): the local name of a URL
    Target,     \* where a URL redirects to
    Answers,    \* what the server may answer for a URL
    Links,      \* the links of a page, in its order
    HtmlNamed,  \* the URLs ishtml() takes for pages
    Typed,      \* the URLs whose type, so whose local name, needs no answer
    Home,       \* the first link, whose page is at hand
    MaxSlots,   \* sback->count
    MaxSoc,     \* opt->maxsoc
    Spare,      \* the slots back_fill() leaves free (8 in the code)
    Retries,    \* opt->retry
    MaxTrouble  \* bound: number of spool files not written or not read

Results == {"page", "file", "moved", "again", "bad"}

ASSUME SlotsAssumption ==
    /\ MaxSlots \in Nat /\ MaxSoc \in Nat \ {0} /\ Spare \in Nat
    /\ Retries \in Nat /\ MaxTrouble \in Nat

ASSUME SiteAssumption ==
    /\ NameOf \in [Url -> Name] /\ Target \in [Url -> Url]
    /\ Answers \in [Url -> (SUBSET Results) \ {{}}]
    /\ Links \in [Url -> Seq(Url)]
    /\ HtmlNamed \subseteq Url /\ Typed \subseteq Url /\ Home \in Url
    /\ "delayed" \notin Name
    /\ \A u \in Url : NameOf[Target[u]] = NameOf[u] =>
                         (u \in Typed <=> Target[u] \in Typed)

VARIABLES
    htmlFirst,  \* opt->getmode & HTS_GETMODE_HTML_FIRST, chosen once
    back,       \* sback->lnk, the slots: "free", "busy" or "ready", and of them
                \* "no", "locked" or "pinned"
    ready,      \* sback->ready, by local name: "none", "swapped" or "gone"
    liens,      \* opt->liens, the heap of links; pass2 is 0 in the first pass, 1
                \* in the second, -1 once done
    ptr,        \* the link at hand
    pass,       \* numero_passe
    ant, last,  \* cache->ptr_ant and ptr_last, the cursor of the prefetch
    pc,         \* the next step of the program
    held,       \* the slot index a local variable of the program holds, or 0
    cur, room,  \* p and n of back_fill()
    ret,        \* the step back_fill() returns to
    todo,       \* the links of the page being parsed, still to be seen
    stopped,    \* state.stop
    troubles,   \* spool files not written or not read so far
    \* history, never read by an action's guard:
    got,        \* the URLs whose answer is saved or handled
    handled,    \* the heap indices whose answer was handled
    wasted      \* "twice": a URL was requested though its answer was there;
                \* "duplicate": a spooled transfer was dropped for another

queue == <<liens, ptr, pass>>
cursor == <<ant, last>>
fill == <<ant, last, cur, room, ret>>
history == <<got, handled, wasted>>
vars == <<htmlFirst, back, ready, liens, ptr, pass, ant, last, pc, held, cur, room, ret,
          todo, stopped, troubles, got, handled, wasted>>

Slots == 1..MaxSlots

\* "delayed" is the placeholder name of a link whose type is unknown.
FreeSlot == [status |-> "free", url |-> Home, name |-> "delayed",
             res |-> "none", early |-> FALSE, locked |-> "no"]
NotStored == [state |-> "none", slot |-> FreeSlot]

Init ==
    /\ htmlFirst \in BOOLEAN
    /\ back = [s \in Slots |-> FreeSlot]
    /\ ready = [n \in Name |-> NotStored]
    /\ liens = <<[url |-> Home, name |-> NameOf[Home], pass2 |-> 0,
                  retry |-> Retries]>>
    /\ ptr = 1 /\ pass = 0
    /\ ant = 0 /\ last = 0
    /\ pc = "parse" /\ todo = Links[Home]
    /\ held = 0 /\ cur = 0 /\ room = 0 /\ ret = "parse"
    /\ stopped = FALSE /\ troubles = 0
    /\ got = {Home} /\ handled = {1} /\ wasted = {}

-----------------------------------------------------------------------------
(* The slot table.                                                          *)

Busy(b) == {s \in Slots : b[s].status = "busy"}             \* back_nsoc()
Free(b) == {s \in Slots : b[s].status = "free"}             \* back_available()
SlotsOf(b, u) == {s \in Slots : b[s].status # "free" /\ b[s].url = u}

\* back_index() in the table: a slot of the URL, by preference of this name.
IndexOf(b, u, n) ==
    LET named == {s \in SlotsOf(b, u) \ {Min(SlotsOf(b, u))} : b[s].name = n}
    IN IF named # {} THEN Min(named) ELSE Min(SlotsOf(b, u))

\* back_exist(): a swapped transfer is known by its name only.
Exist(b, r, u, n) ==
    SlotsOf(b, u) # {} \/ (n \in Name /\ r[n].state # "none")

\* hash_read() by local name: the link last recorded under it.
Recorded(n) == {i \in DOMAIN liens : liens[i].name = n}
Known(n) == Recorded(n) # {}

\* Mutant: a locked slot is swapped.
SwappableThoughLocked(s) == back[s].status = "ready"

\* slot_can_be_cached_on_disk().
Swappable(s) == back[s].status = "ready" /\ back[s].locked = "no"

\* slot_can_be_cleaned() and slot_can_be_finalized(): a file on disk whose link
\* the heap has.
Saved(s) == /\ back[s].status = "ready" /\ back[s].locked = "no"
            /\ back[s].res = "file"
            /\ ~back[s].early \/ Known(back[s].name)

Swapped(kept) == {s \in Slots : Swappable(s) /\ ~Saved(s)} \ kept

\* Mutant: back_clean() notes that the link is done for what is only swapped too.
SwappedLinks ==
    [i \in DOMAIN liens |->
        IF \E s \in Slots : Swappable(s) /\ liens[i].name = back[s].name
          THEN [liens[i] EXCEPT !.pass2 = -1] ELSE liens[i]]

\* back_clean() notes that the link of each saved file is done.
MarkedLinks ==
    LET done == {Max(Recorded(back[s].name)) : s \in
                    {t \in Slots : Saved(t) /\ Known(back[t].name)}}
    IN [i \in DOMAIN liens |->
           IF i \in done THEN [liens[i] EXCEPT !.pass2 = -1] ELSE liens[i]]

CleanedBack(kept) ==
    [s \in Slots |-> IF Saved(s) \/ s \in Swapped(kept) THEN FreeSlot ELSE back[s]]

CleanedReady(kept) ==
    [n \in Name |->
       LET here == {s \in Swapped(kept) : back[s].name = n}
       IN IF here = {} THEN ready[n]
                       ELSE [state |-> "swapped", slot |-> back[Max(here)]]]

\* back_clean(), kept being the slots whose spool file could not be written.
Clean(kept) ==
    /\ kept = {} \/ /\ Cardinality(kept) <= MaxTrouble - troubles
                    /\ kept \subseteq Swapped({})
    /\ troubles' = troubles + Cardinality(kept)
    /\ liens' = MarkedLinks
    /\ ready' = CleanedReady(kept)

CleanWasted(kept) ==
    IF \E s \in Swapped(kept) : \/ back[s].name \in Name
                                   /\ ready[back[s].name].state = "swapped"
                                \/ \E t \in Swapped(kept) \ {s} :
                                     /\ back[s].name = back[t].name
                                     /\ back[s].name \in Name
      THEN {"duplicate"} ELSE {}

CleanGot == {back[s].url : s \in {t \in Slots : Saved(t)}}

\* A slot as it is asked for, or answered at once: by the cache, or because the
\* mirror is stopped.
Asked(slot) ==
    IF stopped THEN {[slot EXCEPT !.status = "ready", !.res = "stopped"]}
    ELSE {[slot EXCEPT !.status = "busy"]} \cup
         {[slot EXCEPT !.status = "ready", !.res = a] :
            a \in Answers[slot.url] \ {"again"}}

\* The table b with the slot in it, or b itself when no slot is free.  Only a link
\* whose type is unknown may have a slot already, which it takes over.
Placed(b, slot) ==
    LET mine == SlotsOf(b, slot.url)
    IN IF mine # {}
         THEN {[b EXCEPT ![Min(mine)].early = slot.early,
                         ![Min(mine)].locked = slot.locked]}
       ELSE IF Free(b) = {} THEN {b}
       ELSE {[b EXCEPT ![Min(Free(b))] = asked] : asked \in Asked(slot)}

NewSlot(u, n) == [FreeSlot EXCEPT !.url = u, !.name = n]

\* back_add(): clean, then search a slot.
Add(slot) ==
    \E kept \in SUBSET Swapped({}) :
       LET b == CleanedBack(kept)
           twice == /\ ~stopped /\ SlotsOf(b, slot.url) = {} /\ Free(b) # {}
                    /\ slot.url \in got
       IN /\ Clean(kept)
          /\ got' = got \cup CleanGot
          /\ back' \in Placed(b, slot)
          /\ wasted' = wasted \cup CleanWasted(kept)
                        \cup (IF twice THEN {"twice"} ELSE {})

\* What a busy slot may become in a pump.
Outcome(slot) ==
    IF stopped THEN {"stopped"}
    ELSE IF slot.res = "none" THEN Answers[slot.url]
    ELSE {slot.res} \cup ({"again"} \cap Answers[slot.url])

\* back_wait(): clean, abort what a stop aborts, then let the network finish the
\* transfers of some slots.
PumpWith(finished) ==
    \E kept \in SUBSET Swapped({}) :
       /\ Clean(kept)
       /\ got' = got \cup CleanGot
       /\ wasted' = wasted \cup CleanWasted(kept)
       /\ stopped => finished = Busy(back)
       /\ \E res \in [finished -> Results \cup {"stopped"}] :
             /\ \A s \in finished : res[s] \in Outcome(back[s])
             /\ back' = [s \in Slots |->
                   IF s \in finished
                     THEN [back[s] EXCEPT !.status = "ready", !.res = res[s]]
                     ELSE CleanedBack(kept)[s]]

Pump == \E finished \in SUBSET Busy(back) : PumpWith(finished)

\* back_pluggable_sockets_strict().
MayConnect == Cardinality(Busy(back)) < MaxSoc

-----------------------------------------------------------------------------
(* The loop over the heap (httpmirror()).                                   *)

At(p) == liens[p]
Here == At(ptr)
Tot == Len(liens)
Step(next) == pc' = next
KeepBack == UNCHANGED <<back, ready, troubles, got, wasted>>

\* The first index from p on that is none of the ones to skip, Tot + 1 at the end.
Skip(p, skipped) == Min(((p..Tot) \ skipped) \cup {Max({p, Tot + 1})})

Done == {i \in DOMAIN liens : At(i).pass2 = -1}
Second == {i \in DOMAIN liens : At(i).pass2 # 0}
First == DOMAIN liens \ Second

\* The top of the loop: links done in background are skipped.
Top ==
    /\ pc = "top"
    /\ LET p == Skip(ptr, Done)
       IN ptr' = p /\ Step(IF p > Tot THEN "advance" ELSE "plug")
    /\ UNCHANGED <<liens, pass, fill, held, todo, stopped, handled>> /\ KeepBack

\* Mutant: the link at hand stays at hand.
SameLink == ptr
NextLink == ptr + 1

\* jump_if_done: the next link of this pass, then the first of the second one.
Advance ==
    /\ pc = "advance"
    /\ LET next == IF ~htmlFirst THEN NextLink
                   ELSE IF pass = 0 THEN Skip(NextLink, Second)
                   ELSE Skip(NextLink, First)
           again == htmlFirst /\ pass = 0 /\ next > Tot
       IN /\ ptr' = IF again THEN Skip(1, First) ELSE next
          /\ pass' = IF again THEN 1 ELSE pass
          /\ Step(IF ptr' > Tot THEN "done" ELSE "top")
    /\ UNCHANGED <<liens, fill, held, todo, stopped, handled>> /\ KeepBack

-----------------------------------------------------------------------------
(* The prefetch (back_fillmax(), back_fill()).                              *)

Least(a, b) == IF a < b THEN a ELSE b

\* back_pluggable_sockets().
Pluggable ==
    Least(MaxSoc - Cardinality(Busy(back)), Cardinality(Free(back)) - Spare)

\* Where each caller goes on.
FillReturns == [wantFill |-> "plug2", look2Fill |-> "look3",
                parseFill |-> "parse", typedFill |-> "typeTest"]

\* back_fill() starts after the link at hand, or where it left off; a limit,
\* a delay or a stop leaves it nothing to launch.
FillStart ==
    /\ pc \in DOMAIN FillReturns
    /\ \/ Step(FillReturns[pc]) /\ UNCHANGED fill
       \/ /\ ~stopped
          /\ room' \in 1..Pluggable
          /\ ant' = IF ptr < last THEN 0 ELSE ant
          /\ cur' = Max({ptr + 1, ant'})
          /\ ret' = FillReturns[pc]
          /\ Step("fill") /\ last' = last
    /\ UNCHANGED <<queue, held, todo, stopped, handled>> /\ KeepBack

\* Mutant: the prefetch does not look whether the link has a slot.
CandidatesHeldToo ==
    {p \in cur..Tot : (At(p).pass2 # 0) = (pass = 1)}

\* The links back_fill() would launch: of this pass, and not in a slot yet.
Candidates ==
    {p \in cur..Tot : /\ (At(p).pass2 # 0) = (pass = 1)
                      /\ ~Exist(back, ready, At(p).url, At(p).name)}

FillAdd ==
    /\ pc = "fill" /\ room > 0 /\ Candidates # {}
    /\ LET p == Min(Candidates)
       IN /\ Add(NewSlot(At(p).url, At(p).name))
          /\ cur' = p + 1
    /\ room' = IF SlotsOf(back', At(Min(Candidates)).url) = {} THEN 0 ELSE room - 1
    /\ UNCHANGED <<ptr, pass, cursor, pc, held, ret, todo, stopped, handled>>

FillEnd ==
    /\ pc = "fill" /\ (room = 0 \/ Candidates = {})
    /\ ant' = IF room = 0 THEN cur ELSE Max({cur, Tot + 1})
    /\ last' = ptr
    /\ Step(ret) /\ cur' = 0 /\ room' = 0 /\ ret' = "parse"
    /\ UNCHANGED <<queue, held, todo, stopped, handled>> /\ KeepBack

-----------------------------------------------------------------------------
(* The wait for the link at hand (hts_mirror_wait_for_next_file()).         *)

\* back_index_ready(): the swapped transfer of a name comes back in a free slot,
\* locked.  Its file is removed first: without a slot, or unread, it is lost.
Wake(n, found, lost) ==
    \/ /\ Free(back) # {}
       /\ LET s == Min(Free(back))
          IN /\ back' = [back EXCEPT ![s] = [ready[n].slot EXCEPT !.locked = "locked"]]
             /\ held' = s
       /\ ready' = [ready EXCEPT ![n] = NotStored]
       /\ Step(found) /\ UNCHANGED troubles
    \/ /\ Free(back) = {} \/ troubles < MaxTrouble
       /\ ready' = [ready EXCEPT ![n].state = "gone"]
       /\ troubles' = IF Free(back) = {} THEN troubles ELSE troubles + 1
       /\ Step(lost) /\ held' = 0 /\ back' = back

\* hts_mirror_process_user_interaction(): wait for a connection to be allowed.
Plug ==
    /\ pc \in {"plug", "plug2"}
    /\ LET on == IF pc = "plug" THEN "want" ELSE "look"
           wait == IF pc = "plug" THEN "plugged" ELSE "plugged2"
       IN \/ MayConnect /\ Step(on)
             /\ UNCHANGED held /\ KeepBack
          \/ /\ IF SlotsOf(back, Here.url) = {} /\ ready[Here.name].state = "swapped"
                  THEN Wake(Here.name, wait, wait)
                  ELSE /\ Step(wait) /\ UNCHANGED <<back, ready, held, troubles>>
             /\ UNCHANGED <<got, wasted>>
    /\ UNCHANGED <<queue, fill, todo, stopped, handled>>

Plugged ==
    /\ pc \in {"plugged", "plugged2"}
    /\ Pump
    /\ held' = 0
    /\ \/ Step(pc)
       \/ MayConnect' /\ Step(IF pc = "plugged" THEN "want" ELSE "look")
    /\ UNCHANGED <<ptr, pass, fill, todo, stopped, handled>>

\* The link is asked for if the prefetch has not.
Want ==
    /\ pc = "want"
    /\ IF ptr \in Done
         THEN Step("advance") /\ liens' = liens /\ KeepBack
         ELSE /\ Step("wantFill")
              /\ IF Exist(back, ready, Here.url, Here.name)
                   THEN liens' = liens /\ KeepBack
                   ELSE Add(NewSlot(Here.url, Here.name))
    /\ UNCHANGED <<ptr, pass, fill, held, todo, stopped, handled>>

\* back_index(), three times per turn of the loop: no slot means that the link
\* was saved in background, and it is skipped.
Look ==
    /\ pc \in {"look", "look2", "look3"}
    /\ LET slots == SlotsOf(back, Here.url)
           busy == [look |-> "receive", look2 |-> "look2Fill", look3 |-> "plug2"]
       IN \/ /\ slots # {}
             /\ LET s == IndexOf(back, Here.url, Here.name)
                IN IF back[s].status = "busy" THEN Step(busy[pc]) /\ held' = 0
                                              ELSE Step("consume") /\ held' = s
             /\ KeepBack
          \/ /\ slots = {} /\ ready[Here.name].state = "swapped"
             /\ Wake(Here.name, "consume", "advance")
             /\ UNCHANGED <<got, wasted>>
          \/ /\ slots = {} /\ ready[Here.name].state # "swapped"
             /\ Step("advance") /\ held' = 0
             /\ KeepBack
    /\ UNCHANGED <<queue, fill, todo, stopped, handled>>

Receive ==
    /\ pc = "receive"
    /\ Pump
    /\ Step("look2")
    /\ UNCHANGED <<ptr, pass, fill, held, todo, stopped, handled>>

\* hts_record_link().
Recording(u, n, p2, retries) ==
    liens' = Append(liens, [url |-> u, name |-> n, pass2 |-> p2,
                            retry |-> retries])

\* The budget of hts_mirror_check_moved().
CanRetry == Here.retry > 0

\* The answer is taken from the slot, which is freed; then a page is parsed, a
\* redirect to the same local file or a failed transfer is recorded again
\* (hts_mirror_check_moved()), another redirect becomes a page with one link.
Consume ==
    /\ pc = "consume"
    /\ back' = [back EXCEPT ![held] = FreeSlot]
    /\ held' = 0
    /\ handled' = handled \cup {ptr}
    /\ LET res == back[held].res
           u == Here.url
           later == Max({Here.pass2, pass})
           alias == NameOf[Target[u]] = NameOf[u]
       IN /\ got' = IF res \in {"page", "file", "moved"} THEN got \cup {u} ELSE got
          /\ todo' = CASE res = "page" -> Links[u]
                       [] res = "moved" /\ ~alias -> <<Target[u]>>
                       [] OTHER -> <<>>
          /\ Step(IF res = "page" \/ (res = "moved" /\ ~alias) THEN "parse"
                                                              ELSE "advance")
          /\ CASE res = "moved" /\ alias ->
                    liens' = Append([liens EXCEPT ![ptr].pass2 = -1],
                       [url |-> Target[u], name |-> Here.name, pass2 |-> pass,
                        retry |-> Here.retry])
               [] res = "again" /\ CanRetry ->
                    Recording(u, Here.name, later, Here.retry - 1)
               [] OTHER -> liens' = liens
    /\ UNCHANGED <<ptr, pass, fill, ready, stopped, troubles, wasted>>

-----------------------------------------------------------------------------
(* The parse of a page, and hts_wait_delayed().                             *)

\* pass_fix of the parser.
PassOf(u) == IF ~htmlFirst THEN 0 ELSE IF u \in HtmlNamed THEN pass ELSE 1

\* Every two seconds the parser pumps and prefetches.
ParsePump ==
    /\ pc = "parse"
    /\ Pump
    /\ Step("parseFill")
    /\ UNCHANGED <<ptr, pass, fill, held, todo, stopped, handled>>

ParseKnown ==
    /\ pc = "parse" /\ todo # <<>> /\ Known(NameOf[Head(todo)])
    /\ todo' = Tail(todo)
    /\ UNCHANGED <<queue, fill, pc, held, stopped, handled>> /\ KeepBack

ParseRecord ==
    /\ pc = "parse" /\ todo # <<>> /\ ~Known(NameOf[Head(todo)])
    /\ Head(todo) \in Typed
    /\ Recording(Head(todo), NameOf[Head(todo)], PassOf(Head(todo)), Retries)
    /\ todo' = Tail(todo)
    /\ UNCHANGED <<ptr, pass, fill, pc, held, stopped, handled>> /\ KeepBack

ParseDelayed ==
    /\ pc = "parse" /\ todo # <<>> /\ ~Known(NameOf[Head(todo)]) /\ ~stopped
    /\ Head(todo) \notin Typed
    /\ Step("socket")
    /\ UNCHANGED <<queue, fill, held, todo, stopped, handled>> /\ KeepBack

\* The end of the page, or of what a stopped mirror takes from it.
ParseEnd ==
    /\ pc = "parse" /\ (todo = <<>> \/ stopped)
    /\ Step("advance") /\ todo' = <<>>
    /\ UNCHANGED <<queue, fill, held, stopped, handled>> /\ KeepBack

\* hts_wait_available_socket().
SocketWait ==
    /\ pc = "socket"
    /\ Pump
    /\ UNCHANGED <<ptr, pass, fill, pc, held, todo, stopped, handled>>

\* A redirect led to a link the heap has.
TypeRecorded ==
    /\ pc = "socket" /\ Known(NameOf[Head(todo)])
    /\ Step("parse")
    /\ UNCHANGED <<queue, fill, held, todo, stopped, handled>> /\ KeepBack

\* back_add_if_not_exists(); the slot is locked, and marked as early: the heap
\* does not have the link yet.  Without a slot the mirror ends.
TypeAdd ==
    /\ pc = "socket" /\ MayConnect
    /\ ~Known(NameOf[Head(todo)])
    /\ Add([NewSlot(Head(todo), "delayed") EXCEPT !.early = TRUE,
                                                  !.locked = "locked"])
    /\ LET mine == SlotsOf(back', Head(todo))
       IN IF mine = {} THEN Step("done") /\ held' = 0
                       ELSE Step("typed") /\ held' = Min(mine)
    /\ UNCHANGED <<ptr, pass, fill, todo, stopped, handled>>

\* One turn of the wait for the headers.
TypePump ==
    /\ pc = "typed"
    /\ Step("typedFill")
    /\ IF back[held].status = "busy" THEN Pump ELSE liens' = liens /\ KeepBack
    /\ UNCHANGED <<ptr, pass, fill, held, todo, stopped, handled>>

\* The headers are not in, or are those of a redirect or an error, whose body is
\* waited for.
TypeAgain ==
    /\ pc = "typeTest" /\ back[held].status = "busy"
    /\ Step("typed")
    /\ UNCHANGED <<queue, fill, held, todo, stopped, handled>> /\ KeepBack

\* The type is known, maybe before the body is in.  The slot is pinned while
\* url_savename() chooses the name.
TypeKnown ==
    /\ pc = "typeTest"
    /\ \E r \in Results \cup {"stopped"} :
          /\ IF back[held].status = "busy"
               THEN /\ r \in {"page", "file"} /\ r \in Answers[back[held].url]
                    /\ back[held].res \in {"none", r}
               ELSE back[held].res = r /\ r # "moved"
          /\ back' = [back EXCEPT ![held].res = r, ![held].locked = "pinned"]
    /\ Step("naming")
    /\ UNCHANGED <<queue, fill, ready, held, todo, stopped, troubles, history>>

\* A redirect: the slot is dropped, and the wait goes on for its target.
TypeMoved ==
    /\ pc = "typeTest"
    /\ back[held].status = "ready" /\ back[held].res = "moved"
    /\ back' = [back EXCEPT ![held] = FreeSlot]
    /\ held' = 0
    /\ todo' = <<Target[Head(todo)]>> \o Tail(todo)
    /\ Step(IF Target[Head(todo)] \in Typed THEN "parse" ELSE "socket")
    /\ UNCHANGED <<queue, fill, ready, stopped, troubles, history>>

\* Once the mirror is stopped, url_savename() pumps.
NamePump ==
    /\ pc = "naming" /\ stopped
    /\ Pump
    /\ UNCHANGED <<ptr, pass, fill, pc, held, todo, stopped, handled>>

\* The slot takes its name, and the parser records the link; without a good
\* answer the name may stay unknown, and the link is dropped.
Named ==
    /\ pc = "naming"
    /\ LET u == Head(todo)
           n == NameOf[u]
       IN \/ /\ back' = [back EXCEPT ![held].locked = "no", ![held].name = n]
             /\ Recording(u, n, PassOf(u), Retries)
          \/ /\ back[held].res \notin {"page", "file"}
             /\ back' = [back EXCEPT ![held].locked = "no"]
             /\ liens' = liens
    /\ held' = 0
    /\ todo' = Tail(todo)
    /\ Step("parse")
    /\ UNCHANGED <<ptr, pass, fill, ready, stopped, troubles, history>>

-----------------------------------------------------------------------------

Stop ==
    /\ ~stopped /\ pc # "done"
    /\ stopped' = TRUE
    /\ UNCHANGED <<htmlFirst, queue, fill, pc, held, todo, handled>> /\ KeepBack

Fetch == \/ Top \/ Advance \/ Plug \/ Plugged \/ Want \/ Look \/ Receive \/ Consume
Prefetch == FillStart \/ FillAdd \/ FillEnd
Parse == ParsePump \/ ParseKnown \/ ParseRecord \/ ParseDelayed \/ ParseEnd
Typing == \/ SocketWait \/ TypeRecorded \/ TypeAdd \/ TypePump \/ TypeAgain
          \/ TypeKnown \/ TypeMoved \/ NamePump \/ Named

Work == /\ Fetch \/ Prefetch \/ Parse \/ Typing
        /\ UNCHANGED htmlFirst

Finished == pc = "done" /\ UNCHANGED vars

Next == Work \/ Stop \/ Finished

\* The steps that pump as often as they like.
Waits == {"parse", "naming", "socket", "plugged", "plugged2"}

\* back_wait() times a transfer out (opt->timeout), a delay between launches ends,
\* and the parser and url_savename() only pump from time to time.
Answered == Work /\ \E s \in Busy(back) : back'[s].status = "ready"
GoesOn == /\ Work /\ pc \in Waits
          /\ pc' # "parseFill" /\ <<pc, todo>>' # <<pc, todo>>
Fairness == WF_vars(Work) /\ SF_vars(Answered) /\ SF_vars(GoesOn)

Spec == Init /\ [][Next]_vars /\ Fairness

-----------------------------------------------------------------------------
(* Properties.                                                              *)

\* The slot index hts_wait_delayed() keeps across its pumps is still the slot of
\* the link it waits for: nothing saved, swapped or reused it meanwhile.
HeldSlotKeepsLink ==
    pc \in {"typed", "typedFill", "typeTest", "naming"}
        \/ (pc = "fill" /\ ret = "typeTest") =>
        /\ back[held].status # "free" /\ back[held].url = Head(todo)

\* A URL has one transfer at a time, in a slot or swapped to disk.
OneTransfer ==
    /\ \A s, t \in Slots :
          /\ back[s].status # "free" /\ back[t].status # "free"
          /\ back[s].url = back[t].url
          => s = t
    /\ \A s \in Slots, n \in Name :
          back[s].status # "free" /\ ready[n].state = "swapped" =>
              back[s].url # ready[n].slot.url

\* A URL is in one place while it is transferred.  When pages and files are taken
\* in one pass, a URL whose answer is saved or handled is not asked for again
\* ("MANDATORY if we don't want back_fill() to endlessly put the same file on
\* download!"), and the duplicate that back_cleanup_background() looks for, which
\* "should NOT happen", does not.
RequestedOnce == OneTransfer /\ (~htmlFirst => wasted = {})

\* At the end of a mirror that met no trouble and was not stopped, every link
\* was handled, or saved in background; with pages first, a link that only leads
\* to an answer already had may be passed over.
EveryLinkTaken ==
    pc = "done" /\ ~stopped /\ troubles = 0 =>
        \A i \in DOMAIN liens : \/ i \in handled
                                \/ /\ At(i).url \in got
                                   /\ At(i).pass2 = -1 \/ htmlFirst

\* The mirror ends: no wait is for something that cannot come.
MirrorEnds == <>(pc = "done")

=============================================================================
