--------------------------- MODULE LinkQueueProofs ---------------------------
(***************************************************************************)
(* That the slot hts_wait_delayed() holds across its pumps stays the slot  *)
(* of its link (HeldSlotKeepsLink), that a URL has one transfer at a time  *)
(* (OneTransfer), that it is not asked for again once its answer is there  *)
(* (RequestedOnce), and that no link is forgotten (EveryLinkTaken), for    *)
(* any site, number of slots and connections.                              *)
(***************************************************************************)
EXTENDS LinkQueue, SequenceTheorems, WellFoundedInduction, FiniteSetTheorems, TLAPS

SlotRec == [status : {"free", "busy", "ready"}, url : Url, name : Name \cup {"delayed"},
            res : Results \cup {"none", "stopped"}, early : BOOLEAN,
            locked : {"no", "locked", "pinned"}]
Stored == [state : {"none", "swapped", "gone"}, slot : SlotRec]
Item == [url : Url, name : Name, pass2 : Int, retry : Int]

Tables ==
    /\ back \in [Slots -> SlotRec]
    /\ ready \in [Name -> Stored]
    /\ liens \in Seq(Item)

Types ==
    /\ Tables
    /\ todo \in Seq(Url)
    /\ ptr \in Nat \ {0} /\ pass \in Int /\ ant \in Nat /\ cur \in Nat
    /\ ret \in {"plug2", "look3", "parse", "typeTest"}

\* The steps at which hts_wait_delayed() holds a slot.
Watching == {"typed", "typedFill", "typeTest", "naming"}
Watched == pc \in Watching \/ (pc = "fill" /\ ret = "typeTest")

Place ==
    /\ pc \notin {"top", "advance", "done"} => ptr \in 1 .. Len(liens)
    /\ pc = "fill" => cur > 0
    /\ Watched \/ pc = "socket" => todo # <<>>

\* A held slot is locked, or pinned: this is what the pumps respect.
Guarded(b, s) == b[s].status # "free" /\ b[s].locked # "no"
HeldGuarded ==
    Watched => held \in Slots /\ Guarded(back, held) /\ back[held].url = Head(todo)

IInv == Types /\ Place /\ HeldGuarded

\* What a guarded slot keeps in a step.
KeepsGuarded ==
    \A s \in Slots : Guarded(back, s) =>
        Guarded(back', s) /\ back'[s].url = back[s].url

SameTables == UNCHANGED <<back, ready, liens>>

-----------------------------------------------------------------------------
(* Smallest and greatest elements.                                          *)

LEMMA MinIn ==
    ASSUME NEW S \in SUBSET Nat, S # {}
    PROVE  Min(S) \in S /\ Min(S) \in Nat
  <1>1. IsWellFoundedOn(OpToRel(<, Nat), Nat)
    BY NatLessThanWellFounded
  <1>2. PICK x \in S : \A y \in S : ~(<<y, x>> \in OpToRel(<, Nat))
    BY <1>1, WFMin
  <1>3. \A y \in S : ~(y < x)
    BY <1>2 DEF OpToRel
  <1>4. \A y \in S : x =< y
    BY <1>3
  <1>5. Min(S) \in S
    BY <1>4 DEF Min
  <1> QED BY <1>5

LEMMA MaxIn ==
    ASSUME NEW n \in Nat, NEW S \in SUBSET (1 .. n), S # {}
    PROVE  Max(S) \in S /\ \A j \in S : Max(S) >= j
  <1> DEFINE T == {n - k : k \in S}
  <1>0. \A k \in S : n - k \in Nat
    OBVIOUS
  <1>1. T \in SUBSET Nat /\ T # {}
    BY <1>0
  <1>2. IsWellFoundedOn(OpToRel(<, Nat), Nat)
    BY NatLessThanWellFounded
  <1>3. PICK x \in T : \A y \in T : ~(<<y, x>> \in OpToRel(<, Nat))
    BY <1>1, <1>2, WFMin
  <1>4. \A y \in T : ~(y < x)
    BY <1>1, <1>3 DEF OpToRel
  <1>5. PICK k \in S : x = n - k
    OBVIOUS
  <1>6. \A j \in S : k >= j
    <2> TAKE j \in S
    <2>1. n - j \in T /\ j \in 1 .. n /\ k \in 1 .. n
      OBVIOUS
    <2> HIDE DEF T
    <2>2. ~(n - j < n - k)
      BY <1>4, <1>5, <2>1
    <2> QED BY <2>1, <2>2
  <1>7. Max(S) \in S /\ \A j \in S : Max(S) >= j
    BY <1>6 DEF Max
  <1> QED BY <1>7

LEMMA MaxPair ==
    ASSUME NEW a \in Int, NEW b \in Int
    PROVE  Max({a, b}) = IF a >= b THEN a ELSE b
  BY DEF Max

LEMMA SkipFacts ==
    ASSUME NEW p \in Nat \ {0}, NEW skipped, Tot \in Nat
    PROVE  Skip(p, skipped) \in Nat \ {0}
  <1> DEFINE top == Max({p, Tot + 1})
             S == ((p .. Tot) \ skipped) \cup {top}
  <1>1. top \in Nat \ {0}
    BY MaxPair
  <1>2. S \in SUBSET Nat /\ S # {} /\ 0 \notin S
    BY <1>1
  <1>3. Min(S) \in S /\ Min(S) \in Nat
    BY <1>2, MinIn
  <1> QED BY <1>2, <1>3 DEF Skip

LEMMA SlotSets ==
    ASSUME NEW b, NEW u
    PROVE  /\ Slots \in SUBSET Nat
           /\ Free(b) # {} => Min(Free(b)) \in Slots /\ b[Min(Free(b))].status = "free"
           /\ SlotsOf(b, u) # {} => /\ Min(SlotsOf(b, u)) \in Slots
                                    /\ b[Min(SlotsOf(b, u))].status # "free"
                                    /\ b[Min(SlotsOf(b, u))].url = u
  <1>1. Slots \in SUBSET Nat
    BY SlotsAssumption DEF Slots
  <1>2. Free(b) \in SUBSET Nat /\ SlotsOf(b, u) \in SUBSET Nat
    BY <1>1 DEF Free, SlotsOf
  <1>3. Free(b) # {} => Min(Free(b)) \in Free(b)
    BY <1>2, MinIn
  <1>4. SlotsOf(b, u) # {} => Min(SlotsOf(b, u)) \in SlotsOf(b, u)
    BY <1>2, MinIn
  <1> QED BY <1>1, <1>3, <1>4 DEF Free, SlotsOf

-----------------------------------------------------------------------------
(* What back_clean(), back_add() and back_wait() do to the tables.          *)

LEMMA FreeTyped == FreeSlot \in SlotRec /\ FreeSlot.status = "free"
  BY SiteAssumption DEF FreeSlot, SlotRec

LEMMA CleanFacts ==
    ASSUME Tables, NEW kept
    PROVE  /\ CleanedBack(kept) \in [Slots -> SlotRec]
           /\ \A s \in Slots : CleanedBack(kept)[s] \in {FreeSlot, back[s]}
           /\ \A s \in Slots : back[s].locked # "no" => CleanedBack(kept)[s] = back[s]
           /\ CleanedReady(kept) \in [Name -> Stored]
           /\ MarkedLinks \in Seq(Item)
           /\ Len(MarkedLinks) = Len(liens)
  <1>1. /\ CleanedBack(kept) \in [Slots -> SlotRec]
        /\ \A s \in Slots : CleanedBack(kept)[s] \in {FreeSlot, back[s]}
    BY FreeTyped DEF CleanedBack, Tables
  <1>2. \A s \in Slots : back[s].locked # "no" => CleanedBack(kept)[s] = back[s]
    BY DEF CleanedBack, Saved, Swapped, Swappable
  <1>3. CleanedReady(kept) \in [Name -> Stored]
    <2>1. ASSUME NEW n \in Name
          PROVE  CleanedReady(kept)[n] \in Stored
      <3> DEFINE here == {s \in Swapped(kept) : back[s].name = n}
      <3>1. CleanedReady(kept)[n] = IF here = {} THEN ready[n]
                                    ELSE [state |-> "swapped", slot |-> back[Max(here)]]
        BY DEF CleanedReady
      <3>2. here \in SUBSET (1 .. MaxSlots)
        BY DEF Swapped, Slots
      <3>3. here # {} => Max(here) \in Slots
        BY <3>2, MaxIn, SlotsAssumption DEF Slots
      <3>4. here # {} => back[Max(here)] \in SlotRec
        BY <3>3 DEF Tables
      <3>5. ready[n] \in Stored
        BY DEF Tables
      <3> HIDE DEF here
      <3> QED BY <3>1, <3>4, <3>5 DEF Stored
    <2> QED BY <2>1 DEF CleanedReady
  <1>4. MarkedLinks \in [1 .. Len(liens) -> Item] /\ Len(liens) \in Nat
    <2>1. liens \in [1 .. Len(liens) -> Item] /\ Len(liens) \in Nat
      BY LenProperties DEF Tables
    <2>2. -1 \in Int
      OBVIOUS
    <2>3. \A i \in DOMAIN liens, n \in Int : [liens[i] EXCEPT !.pass2 = n] \in Item
      BY <2>1 DEF Item
    <2>4. \A i \in DOMAIN liens : [liens[i] EXCEPT !.pass2 = -1] \in Item
      BY <2>2, <2>3
    <2> QED BY <2>1, <2>4 DEF MarkedLinks
  <1>5. MarkedLinks \in Seq(Item)
    BY <1>4, SeqDef
  <1>6. 1 .. Len(MarkedLinks) = 1 .. Len(liens) /\ Len(MarkedLinks) \in Nat
    BY <1>4, <1>5, LenProperties
  <1>7. Len(MarkedLinks) = Len(liens)
    BY <1>4, <1>6
  <1> QED BY <1>1, <1>2, <1>3, <1>5, <1>7

\* What a step that cleans owes the invariant.
Cleaned == Tables' /\ Len(liens') = Len(liens)

LEMMA AnsweredSlot ==
    ASSUME NEW slot \in SlotRec, NEW r \in Results \cup {"stopped"}
    PROVE  LET t == [slot EXCEPT !.status = "ready", !.res = r]
           IN  /\ t \in SlotRec /\ t.status = "ready"
               /\ t.url = slot.url /\ t.locked = slot.locked
  BY DEF SlotRec

LEMMA PumpFacts ==
    ASSUME Tables, Pump
    PROVE  Cleaned /\ KeepsGuarded
  <1>1. PICK finished \in SUBSET Busy(back) : PumpWith(finished)
    BY DEF Pump
  <1>2. PICK kept \in SUBSET Swapped({}) :
          /\ Clean(kept)
          /\ \E res \in [finished -> Results \cup {"stopped"}] :
                back' = [s \in Slots |->
                   IF s \in finished
                     THEN [back[s] EXCEPT !.status = "ready", !.res = res[s]]
                     ELSE CleanedBack(kept)[s]]
    BY <1>1 DEF PumpWith
  <1>3. PICK res \in [finished -> Results \cup {"stopped"}] :
                back' = [s \in Slots |->
                   IF s \in finished
                     THEN [back[s] EXCEPT !.status = "ready", !.res = res[s]]
                     ELSE CleanedBack(kept)[s]]
    BY <1>2
  <1>4. ready' \in [Name -> Stored] /\ liens' \in Seq(Item) /\ Len(liens') = Len(liens)
    BY <1>2, CleanFacts DEF Clean
  <1>6. \A s \in finished :
          /\ back'[s] \in SlotRec /\ back'[s].status = "ready"
          /\ back'[s].url = back[s].url /\ back'[s].locked = back[s].locked
    <2> TAKE s \in finished
    <2>1. s \in Slots /\ res[s] \in Results \cup {"stopped"}
      BY DEF Busy
    <2> DEFINE t == [back[s] EXCEPT !.status = "ready", !.res = res[s]]
    <2>2. back'[s] = t
      BY <1>3, <2>1
    <2>3. back[s] \in SlotRec
      BY <2>1 DEF Tables
    <2>4. /\ t \in SlotRec /\ t.status = "ready"
          /\ t.url = back[s].url /\ t.locked = back[s].locked
      BY <2>1, <2>3, AnsweredSlot
    <2> HIDE DEF t
    <2> QED BY <2>2, <2>4
  <1>7. \A s \in Slots \ finished : back'[s] = CleanedBack(kept)[s]
    BY <1>3
  <1>8. back' \in [Slots -> SlotRec]
    <2>1. \A s \in Slots : back'[s] \in SlotRec
      BY <1>6, <1>7, CleanFacts
    <2>2. back' = [s \in Slots |-> back'[s]]
      BY <1>3
    <2> QED BY <2>1, <2>2
  <1>9. KeepsGuarded
    BY <1>6, <1>7, CleanFacts DEF KeepsGuarded, Guarded
  <1> QED BY <1>4, <1>8, <1>9 DEF Tables, Cleaned

LEMMA AskedTyped ==
    ASSUME NEW slot \in SlotRec, NEW asked \in Asked(slot)
    PROVE  /\ asked \in SlotRec /\ asked.status # "free"
           /\ asked.url = slot.url /\ asked.locked = slot.locked /\ asked.name = slot.name
  <1>1. \A st \in {"busy", "ready"} :
          LET t == [slot EXCEPT !.status = st]
          IN /\ t \in SlotRec /\ t.status = st /\ t.url = slot.url
             /\ t.locked = slot.locked /\ t.name = slot.name
    BY DEF SlotRec
  <1>2. \A r \in Results \cup {"stopped"} :
          LET t == [slot EXCEPT !.status = "ready", !.res = r]
          IN /\ t \in SlotRec /\ t.status = "ready" /\ t.url = slot.url
             /\ t.locked = slot.locked /\ t.name = slot.name
    BY DEF SlotRec
  <1>3. Answers[slot.url] \subseteq Results
    BY SiteAssumption DEF SlotRec
  <1>4. CASE stopped
    <2>1. asked = [slot EXCEPT !.status = "ready", !.res = "stopped"]
      BY <1>4 DEF Asked
    <2>2. "stopped" \in Results \cup {"stopped"}
      OBVIOUS
    <2> QED BY <1>2, <2>1, <2>2
  <1>5. CASE ~stopped
    <2> DEFINE f(a) == [slot EXCEPT !.status = "ready", !.res = a]
    <2>1. asked \in {[slot EXCEPT !.status = "busy"]} \cup
            {f(a) : a \in Answers[slot.url] \ {"again"}}
      BY <1>5 DEF Asked
    <2>2. \A r \in Results : /\ f(r) \in SlotRec /\ f(r).status = "ready"
                             /\ f(r).url = slot.url /\ f(r).locked = slot.locked
                             /\ f(r).name = slot.name
      BY <1>2
    <2> HIDE DEF f
    <2>3. CASE asked = [slot EXCEPT !.status = "busy"]
      BY <1>1, <2>3
    <2>4. CASE \E r \in Answers[slot.url] : asked = f(r)
      BY <1>3, <2>2, <2>4
    <2>5. asked = [slot EXCEPT !.status = "busy"] \/ \E r \in Answers[slot.url] : asked = f(r)
      BY <2>1
    <2> QED BY <2>3, <2>4, <2>5
  <1> QED BY <1>4, <1>5

\* back_add(): it touches a guarded slot only when the slot is of its own URL; a slot
\* asked for locked is locked.
LEMMA AddFacts ==
    ASSUME Tables, NEW slot \in SlotRec, Add(slot)
    PROVE  /\ Cleaned
           /\ SlotsOf(back, slot.url) = {} => KeepsGuarded
           /\ slot.locked = "locked" /\ SlotsOf(back', slot.url) # {} =>
                back'[Min(SlotsOf(back', slot.url))].locked # "no"
  <1>1. PICK kept \in SUBSET Swapped({}) :
          Clean(kept) /\ back' \in Placed(CleanedBack(kept), slot)
    BY DEF Add
  <1> DEFINE b == CleanedBack(kept)
             mine == SlotsOf(b, slot.url)
  <1>2. /\ b \in [Slots -> SlotRec]
        /\ \A s \in Slots : b[s] \in {FreeSlot, back[s]}
        /\ \A s \in Slots : back[s].locked # "no" => b[s] = back[s]
    BY CleanFacts
  <1>3. ready' \in [Name -> Stored] /\ liens' \in Seq(Item) /\ Len(liens') = Len(liens)
    BY <1>1, CleanFacts DEF Clean
  <1>4. CASE mine # {}
    <2> DEFINE m == Min(mine)
    <2>1. m \in Slots /\ b[m].status # "free" /\ b[m].url = slot.url
      BY <1>4, SlotSets
    <2>2. back' = [b EXCEPT ![m] = [b[m] EXCEPT !.early = slot.early, !.locked = slot.locked]]
      BY <1>1, <1>4, <1>2, <2>1 DEF Placed
    <2>3. LET t == [b[m] EXCEPT !.early = slot.early, !.locked = slot.locked]
          IN /\ t \in SlotRec /\ t.status = b[m].status /\ t.url = b[m].url
             /\ t.locked = slot.locked
      BY <1>2, <2>1 DEF SlotRec
    <2> HIDE DEF b, m
    <2>4. back' \in [Slots -> SlotRec]
      BY <1>2, <2>2, <2>3
    <2>5. SlotsOf(back, slot.url) # {}
      BY <1>2, <2>1, FreeTyped DEF SlotsOf
    <2>6. back'[m].locked = slot.locked
      BY <1>2, <2>1, <2>2, <2>3
    <2>7. SlotsOf(back', slot.url) = SlotsOf(b, slot.url)
      BY <1>2, <2>1, <2>2, <2>3 DEF SlotsOf
    <2> QED BY <1>3, <2>4, <2>5, <2>6, <2>7 DEF Cleaned, Tables, m
  <1>5. CASE mine = {} /\ Free(b) = {}
    <2>1. back' = b
      BY <1>1, <1>5 DEF Placed
    <2>2. KeepsGuarded
      BY <1>2, <2>1 DEF KeepsGuarded, Guarded
    <2> QED BY <1>2, <1>3, <1>5, <2>1, <2>2 DEF Cleaned, Tables
  <1>6. CASE mine = {} /\ Free(b) # {}
    <2> DEFINE m == Min(Free(b))
    <2>1. m \in Slots /\ b[m].status = "free"
      BY <1>6, SlotSets
    <2>2. PICK asked \in Asked(slot) : back' = [b EXCEPT ![m] = asked]
      BY <1>1, <1>6 DEF Placed
    <2>3. /\ asked \in SlotRec /\ asked.status # "free"
          /\ asked.url = slot.url /\ asked.locked = slot.locked
      BY AskedTyped
    <2>4. SlotsOf(b, slot.url) = {}
      BY <1>6
    <2> HIDE DEF b, m
    <2>5. back' \in [Slots -> SlotRec]
      BY <1>2, <2>2, <2>3
    <2>6. KeepsGuarded
      BY <1>2, <2>1, <2>2 DEF KeepsGuarded, Guarded
    <2>7. \A s \in SlotsOf(back', slot.url) : s = m
      BY <1>2, <2>1, <2>2, <2>4 DEF SlotsOf
    <2>8. back'[m].locked = slot.locked
      BY <1>2, <2>1, <2>2, <2>3
    <2>9. SlotsOf(back', slot.url) # {} => Min(SlotsOf(back', slot.url)) = m
      <3>1. SlotsOf(back', slot.url) \in SUBSET Nat
        BY SlotSets DEF SlotsOf
      <3> QED BY <2>7, <3>1, MinIn
    <2> QED BY <1>3, <2>5, <2>6, <2>8, <2>9 DEF Cleaned, Tables
  <1> QED BY <1>4, <1>5, <1>6

\* back_index_ready() fills a free slot.
LEMMA WakeFacts ==
    ASSUME Tables, NEW n \in Name, NEW found, NEW lost, Wake(n, found, lost), liens' = liens
    PROVE  Tables' /\ pc' \in {found, lost}
  <1>1. ready[n] \in Stored /\ NotStored \in Stored
    BY FreeTyped DEF Tables, NotStored, Stored
  <1>2. CASE /\ Free(back) # {}
             /\ back' = [back EXCEPT ![Min(Free(back))] =
                                        [ready[n].slot EXCEPT !.locked = "locked"]]
             /\ ready' = [ready EXCEPT ![n] = NotStored]
             /\ pc' = found
    <2>1. [ready[n].slot EXCEPT !.locked = "locked"] \in SlotRec
      BY <1>1 DEF Stored, SlotRec
    <2> QED BY <1>1, <1>2, <2>1 DEF Tables
  <1>3. CASE ready' = [ready EXCEPT ![n].state = "gone"] /\ back' = back /\ pc' = lost
    <2>1. [ready[n] EXCEPT !.state = "gone"] \in Stored
      BY <1>1 DEF Stored
    <2> QED BY <1>3, <2>1 DEF Tables
  <1> QED BY <1>2, <1>3 DEF Wake, Step

-----------------------------------------------------------------------------
(* One lemma per action, or group of actions alike.                         *)

LEMMA LiensFacts ==
    ASSUME Tables
    PROVE  /\ Len(liens) \in Nat /\ Tot = Len(liens)
           /\ DOMAIN liens = 1 .. Len(liens)
           /\ \A i \in 1 .. Len(liens) : liens[i] \in Item
  BY LenProperties, ElementOfSeq DEF Tables, Tot

LEMMA SlotTyped ==
    ASSUME NEW u \in Url, NEW n \in Name \cup {"delayed"}
    PROVE  /\ NewSlot(u, n) \in SlotRec /\ NewSlot(u, n).url = u
           /\ LET t == [NewSlot(u, n) EXCEPT !.early = TRUE, !.locked = "locked"]
              IN t \in SlotRec /\ t.url = u /\ t.locked = "locked"
  BY FreeTyped DEF NewSlot, SlotRec

\* A step whose program does not hold a slot afterwards.
LEMMA Elsewhere == ASSUME Types', Place', ~Watched' PROVE IInv'
  BY DEF IInv, HeldGuarded

\* A step that pumps, or does not, while the slot is held.
LEMMA StillHeld ==
    ASSUME IInv, Watched, KeepsGuarded, held' = held, todo' = todo
    PROVE  HeldGuarded'
  BY DEF IInv, HeldGuarded, KeepsGuarded, Guarded

LEMMA Kept == ASSUME SameTables, Tables PROVE Cleaned /\ KeepsGuarded
  BY DEF SameTables, Tables, Cleaned, KeepsGuarded, Guarded

LEMMA InitInv == Init => IInv
  <1> SUFFICES ASSUME Init PROVE IInv
    OBVIOUS
  <1>1. Tables
    <2>1. back \in [Slots -> SlotRec]
      BY FreeTyped DEF Init
    <2>2. ready \in [Name -> Stored]
      BY FreeTyped DEF Init, NotStored, Stored
    <2>3. [url |-> Home, name |-> NameOf[Home], pass2 |-> 0, retry |-> Retries] \in Item
      BY SiteAssumption, SlotsAssumption DEF Item
    <2>4. liens \in Seq(Item)
      BY <2>3 DEF Init
    <2> QED BY <2>1, <2>2, <2>4 DEF Tables
  <1>2. todo \in Seq(Url)
    BY SiteAssumption DEF Init
  <1>3. Len(liens) = 1
    BY DEF Init
  <1> QED BY <1>1, <1>2, <1>3 DEF Init, IInv, Types, Place, HeldGuarded, Watched, Watching

LEMMA TopInv == ASSUME IInv, Top PROVE IInv'
  <1>1. Tables' /\ liens' = liens /\ Tot = Len(liens) /\ Tot \in Nat
    BY Kept, LiensFacts DEF IInv, Types, Top, KeepBack, SameTables, Cleaned
  <1>2. ptr' \in Nat \ {0} /\ pc' = IF ptr' > Tot THEN "advance" ELSE "plug"
    BY <1>1, SkipFacts DEF Top, Step, IInv, Types
  <1>3. Types'
    BY <1>1, <1>2 DEF Types, IInv, Top, fill
  <1>4. Place' /\ ~Watched'
    BY <1>1, <1>2 DEF Place, Watched, Watching
  <1> QED BY <1>3, <1>4, Elsewhere

LEMMA AdvanceInv == ASSUME IInv, Advance PROVE IInv'
  <1>1. Tables' /\ liens' = liens /\ Tot = Len(liens) /\ Tot \in Nat
    BY Kept, LiensFacts DEF IInv, Types, Advance, KeepBack, SameTables, Cleaned
  <1>2. NextLink \in Nat \ {0} /\ 1 \in Nat \ {0}
    BY DEF NextLink, IInv, Types
  <1>3. ptr' \in Nat \ {0} /\ pass' \in Int /\ pc' \in {"done", "top"}
    <2>1. ptr' \in {Skip(1, First), NextLink, Skip(NextLink, Second), Skip(NextLink, First)}
      BY DEF Advance
    <2>2. ptr' \in Nat \ {0}
      BY <1>1, <1>2, <2>1, SkipFacts
    <2> QED BY <2>2 DEF Advance, Step, IInv, Types
  <1>4. Types'
    BY <1>1, <1>3 DEF Types, IInv, Advance, fill
  <1>5. Place' /\ ~Watched'
    BY <1>3 DEF Place, Watched, Watching
  <1> QED BY <1>4, <1>5, Elsewhere

LEMMA FillStartInv == ASSUME IInv, FillStart PROVE IInv'
  <1>1. Tables' /\ KeepsGuarded /\ liens' = liens
    BY Kept DEF IInv, Types, FillStart, KeepBack, SameTables, Cleaned, queue
  <1>2. FillReturns[pc] \in {"plug2", "look3", "parse", "typeTest"}
        /\ (FillReturns[pc] = "typeTest" <=> pc = "typedFill")
        /\ pc \in {"wantFill", "look2Fill", "parseFill", "typedFill"}
    BY DEF FillStart, FillReturns
  <1>3. ant' \in Nat /\ cur' \in Nat
        /\ ret' \in {"plug2", "look3", "parse", "typeTest"}
        /\ \/ pc' = FillReturns[pc]
           \/ pc' = "fill" /\ cur' > 0 /\ ret' = FillReturns[pc]
    <2>1. CASE Step(FillReturns[pc]) /\ UNCHANGED fill
      BY <2>1 DEF Step, fill, IInv, Types
    <2>2. CASE /\ ant' = IF ptr < last THEN 0 ELSE ant
               /\ cur' = Max({ptr + 1, ant'})
               /\ ret' = FillReturns[pc] /\ Step("fill")
      <3>1. ptr + 1 \in Nat /\ ptr + 1 > 0 /\ ant' \in Nat
        BY <2>2 DEF IInv, Types
      <3>2. cur' \in Nat /\ cur' > 0
        BY <2>2, <3>1, MaxPair
      <3> QED BY <1>2, <2>2, <3>1, <3>2 DEF Step
    <2> QED BY <2>1, <2>2 DEF FillStart
  <1>4. Types'
    BY <1>1, <1>3 DEF Types, IInv, FillStart, queue
  <1>5. ptr' = ptr /\ held' = held /\ todo' = todo
    BY DEF FillStart, queue
  <1>6. Watched' => pc = "typedFill"
    BY <1>2, <1>3 DEF Watched, Watching
  <1>7. Place'
    BY <1>1, <1>2, <1>3, <1>5, <1>6 DEF Place, IInv, Watched, Watching
  <1>8. HeldGuarded'
    <2>1. CASE pc = "typedFill"
      BY <1>1, <1>5, <2>1, StillHeld DEF Watched, Watching
    <2>2. CASE pc # "typedFill"
      BY <1>6, <2>2 DEF HeldGuarded
    <2> QED BY <2>1, <2>2
  <1> QED BY <1>4, <1>7, <1>8 DEF IInv

LEMMA FillAddInv == ASSUME IInv, FillAdd PROVE IInv'
  <1> DEFINE p == Min(Candidates)
             slot == NewSlot(At(p).url, At(p).name)
  <1>1. p \in 1 .. Len(liens) /\ SlotsOf(back, At(p).url) = {}
    <2>1. Candidates # {} /\ cur \in Nat /\ cur > 0
      BY DEF FillAdd, IInv, Types, Place
    <2>2. Candidates \in SUBSET (1 .. Len(liens))
      BY <2>1, LiensFacts DEF Candidates, IInv, Types
    <2>3. Candidates \in SUBSET Nat
      BY <2>2, LiensFacts DEF IInv, Types
    <2>4. p \in Candidates
      BY <2>1, <2>3, MinIn
    <2> QED BY <2>2, <2>4 DEF Candidates, Exist
  <1>2. liens[p] \in Item
    BY <1>1, LiensFacts DEF IInv, Types
  <1>3. slot \in SlotRec /\ slot.url = At(p).url
    BY <1>2, SlotTyped DEF Item, At
  <1>4. Add(slot) /\ cur' = p + 1
    BY DEF FillAdd
  <1>5. Cleaned /\ KeepsGuarded
    BY <1>1, <1>3, <1>4, AddFacts DEF IInv, Types
  <1>6. cur' \in Nat /\ cur' > 0
    BY <1>1, <1>4, LiensFacts DEF IInv, Types
  <1>7. /\ pc' = pc /\ ret' = ret /\ held' = held /\ todo' = todo /\ ptr' = ptr /\ pass' = pass
        /\ ant' = ant /\ pc = "fill"
    BY DEF FillAdd, cursor
  <1>8. Types'
    BY <1>5, <1>6, <1>7 DEF Types, IInv, Cleaned
  <1>9. Place'
    BY <1>5, <1>6, <1>7 DEF Place, IInv, Cleaned, Watched
  <1>10. HeldGuarded'
    <2>1. CASE Watched
      BY <1>5, <1>7, <2>1, StillHeld
    <2>2. CASE ~Watched
      BY <1>7, <2>2 DEF HeldGuarded, Watched
    <2> QED BY <2>1, <2>2
  <1> QED BY <1>8, <1>9, <1>10 DEF IInv

LEMMA FillEndInv == ASSUME IInv, FillEnd PROVE IInv'
  <1>1. Tables' /\ KeepsGuarded /\ liens' = liens
    BY Kept DEF IInv, Types, FillEnd, KeepBack, SameTables, Cleaned, queue
  <1>2. cur \in Nat /\ Tot + 1 \in Nat
    BY LiensFacts DEF IInv, Types
  <1>3. ant' \in Nat
    BY <1>2, MaxPair DEF FillEnd
  <1>4. /\ pc' = ret /\ pc = "fill" /\ ret' = "parse" /\ cur' = 0
        /\ ptr' = ptr /\ pass' = pass /\ held' = held /\ todo' = todo
    BY DEF FillEnd, Step, queue
  <1>5. Types'
    BY <1>1, <1>3, <1>4 DEF Types, IInv
  <1>6. Watched' => Watched
    BY <1>4 DEF Watched, Watching, IInv, Types
  <1>7. Place'
    BY <1>1, <1>4, <1>6 DEF Place, IInv, Types
  <1>8. HeldGuarded'
    <2>1. CASE Watched
      BY <1>1, <1>4, <2>1, StillHeld
    <2>2. CASE ~Watched
      BY <1>6, <2>2 DEF HeldGuarded
    <2> QED BY <2>1, <2>2
  <1> QED BY <1>5, <1>7, <1>8 DEF IInv

\* The link at hand is in the heap.
LEMMA HereFacts ==
    ASSUME Tables, ptr \in 1 .. Len(liens)
    PROVE  Here \in Item /\ Here.url \in Url /\ Here.name \in Name
  BY LiensFacts DEF Here, At, Item

LEMMA PlugInv == ASSUME IInv, Plug PROVE IInv'
  <1>1. Tables' /\ liens' = liens
        /\ pc' \in {"want", "look", "plugged", "plugged2"}
    <2>0. liens' = liens /\ Tables
      BY DEF Plug, queue, IInv, Types
    <2> DEFINE on == IF pc = "plug" THEN "want" ELSE "look"
               wait == IF pc = "plug" THEN "plugged" ELSE "plugged2"
    <2>1. CASE pc' = on /\ KeepBack
      BY <2>0, <2>1, Kept DEF KeepBack, SameTables, Cleaned
    <2>2. CASE Wake(Here.name, wait, wait)
      <3>1. Here.name \in Name
        BY <2>0, HereFacts DEF IInv, Place, Plug
      <3> QED BY <2>0, <2>2, <3>1, WakeFacts
    <2>3. CASE pc' = wait /\ UNCHANGED <<back, ready>>
      BY <2>0, <2>3, Kept DEF SameTables, Cleaned
    <2> QED BY <2>1, <2>2, <2>3 DEF Plug, Step
  <1>2. UNCHANGED <<ptr, pass, fill, todo>> /\ pc \in {"plug", "plug2"}
    BY DEF Plug, queue
  <1>3. Types'
    BY <1>1, <1>2 DEF Types, IInv, fill
  <1>4. Place' /\ ~Watched'
    BY <1>1, <1>2 DEF Place, IInv, Watched, Watching
  <1> QED BY <1>3, <1>4, Elsewhere

LEMMA LookInv == ASSUME IInv, Look PROVE IInv'
  <1> DEFINE busy == [look |-> "receive", look2 |-> "look2Fill", look3 |-> "plug2"]
  <1>1. liens' = liens /\ Tables /\ pc \in {"look", "look2", "look3"}
        /\ UNCHANGED <<ptr, pass, fill, todo>>
    BY DEF Look, queue, IInv, Types
  <1>2. busy[pc] \in {"receive", "look2Fill", "plug2"}
    BY <1>1
  <1>3. Tables' /\ pc' \in {"receive", "look2Fill", "plug2", "consume", "advance"}
    <2>1. CASE KeepBack /\ pc' \in {busy[pc], "consume", "advance"}
      BY <1>1, <1>2, <2>1, Kept DEF KeepBack, SameTables, Cleaned
    <2>2. CASE Wake(Here.name, "consume", "advance")
      <3>1. Here.name \in Name
        BY <1>1, HereFacts DEF IInv, Place
      <3> QED BY <1>1, <2>2, <3>1, WakeFacts
    <2> QED BY <2>1, <2>2 DEF Look, Step
  <1>4. Types'
    BY <1>1, <1>3 DEF Types, IInv, fill
  <1>5. Place' /\ ~Watched'
    BY <1>1, <1>3 DEF Place, IInv, Watched, Watching
  <1> QED BY <1>4, <1>5, Elsewhere

LEMMA WantInv == ASSUME IInv, Want PROVE IInv'
  <1>1. Tables /\ ptr \in 1 .. Len(liens)
        /\ UNCHANGED <<ptr, pass, fill, todo>>
    BY DEF Want, IInv, Types, Place
  <1>2. Cleaned /\ pc' \in {"advance", "wantFill"}
    <2>1. CASE liens' = liens /\ KeepBack
      BY <1>1, <2>1, Kept DEF KeepBack, SameTables, Want, Step
    <2>2. CASE Add(NewSlot(Here.url, Here.name)) /\ pc' = "wantFill"
      BY <1>1, <2>2, HereFacts, SlotTyped, AddFacts
    <2> QED BY <2>1, <2>2 DEF Want, Step
  <1>3. Types'
    BY <1>1, <1>2 DEF Types, IInv, fill, Cleaned
  <1>4. Place' /\ ~Watched'
    BY <1>1, <1>2 DEF Place, Cleaned, Watched, Watching
  <1> QED BY <1>3, <1>4, Elsewhere

\* The pumps at which the program holds no slot.
LEMMA PumpInv ==
    ASSUME IInv, Plugged \/ Receive \/ ParsePump \/ SocketWait
    PROVE  IInv'
  <1>1. Pump /\ Tables /\ UNCHANGED <<ptr, pass, fill, todo>>
        /\ pc \in {"plugged", "plugged2", "receive", "parse", "socket"}
        /\ pc' \in {"plugged", "plugged2", "want", "look", "look2", "parseFill", "socket"}
        /\ (pc' = "socket" => pc = "socket")
    BY DEF Plugged, Receive, ParsePump, SocketWait, Step, IInv, Types
  <1>2. Cleaned
    BY <1>1, PumpFacts
  <1>3. Types'
    BY <1>1, <1>2 DEF Types, IInv, fill, Cleaned
  <1>4. Place' /\ ~Watched'
    BY <1>1, <1>2 DEF Place, IInv, Cleaned, Watched, Watching
  <1> QED BY <1>3, <1>4, Elsewhere

\* What hts_record_link() does to the heap.
LEMMA RecordFacts ==
    ASSUME NEW heap \in Seq(Item), NEW e \in Item
    PROVE  Append(heap, e) \in Seq(Item) /\ Len(Append(heap, e)) = Len(heap) + 1
  OBVIOUS

LEMMA ConsumeInv == ASSUME IInv, Consume PROVE IInv'
  <1> DEFINE res == back[held].res
             u == Here.url
             later == Max({Here.pass2, pass})
             alias == NameOf[Target[u]] = NameOf[u]
  <1>1. /\ Tables /\ ptr \in 1 .. Len(liens)
        /\ UNCHANGED <<ptr, pass, fill, ready>>
        /\ back' = [back EXCEPT ![held] = FreeSlot]
    BY DEF Consume, IInv, Types, Place
  <1>2. Here \in Item /\ u \in Url /\ Here.name \in Name
    BY <1>1, HereFacts
  <1>3. back' \in [Slots -> SlotRec] /\ ready' \in [Name -> Stored]
    BY <1>1, FreeTyped DEF Tables
  <1>4. Target[u] \in Url /\ Links[u] \in Seq(Url)
    BY <1>2, SiteAssumption
  <1>5. pc' \in {"parse", "advance"} /\ todo' \in Seq(Url)
    <2>1. pc' \in {"parse", "advance"} /\ todo' \in {Links[u], <<Target[u]>>, <<>>}
      BY DEF Consume, Step
    <2>2. <<Target[u]>> \in Seq(Url) /\ <<>> \in Seq(Url)
      BY <1>4
    <2> QED BY <1>4, <2>1, <2>2
  <1>6. liens' \in Seq(Item) /\ Len(liens') >= Len(liens) /\ Len(liens) \in Nat
    <2>0. Len(liens) \in Nat /\ liens \in Seq(Item)
      BY <1>1, LiensFacts DEF Tables
    <2>1. CASE liens' = Append([liens EXCEPT ![ptr].pass2 = -1],
                 [url |-> Target[u], name |-> Here.name, pass2 |-> pass, retry |-> Here.retry])
      <3> DEFINE e == [url |-> Target[u], name |-> Here.name, pass2 |-> pass,
                       retry |-> Here.retry]
                 i == [Here EXCEPT !.pass2 = -1]
      <3>1. e \in Item
        BY <1>2, <1>4 DEF Item, IInv, Types
      <3>2. \A n \in Int : [Here EXCEPT !.pass2 = n] \in Item
        BY <1>2 DEF Item
      <3>3. i \in Item
        <4>1. -1 \in Int
          OBVIOUS
        <4> QED BY <3>2, <4>1
      <3>4. [liens EXCEPT ![ptr].pass2 = -1] = [liens EXCEPT ![ptr] = i]
        BY DEF Here, At
      <3> HIDE DEF e, i
      <3>5. /\ [liens EXCEPT ![ptr] = i] \in Seq(Item)
            /\ Len([liens EXCEPT ![ptr] = i]) = Len(liens)
        BY <1>1, <2>0, <3>3, ExceptSeq
      <3>6. liens' = Append([liens EXCEPT ![ptr] = i], e)
        BY <2>1, <3>4 DEF e
      <3> QED BY <2>0, <3>1, <3>5, <3>6, RecordFacts
    <2>2. CASE CanRetry /\ Recording(u, Here.name, later, Here.retry - 1)
      <3>1. later \in Int
        BY <1>2, MaxPair DEF Item, IInv, Types
      <3>2. [url |-> u, name |-> Here.name, pass2 |-> later, retry |-> Here.retry - 1] \in Item
        BY <1>2, <3>1 DEF Item
      <3> QED BY <2>0, <2>2, <3>2, RecordFacts DEF Recording
    <2>3. CASE liens' = liens
      BY <2>0, <2>3
    <2> QED BY <2>1, <2>2, <2>3 DEF Consume
  <1>7. Types'
    BY <1>1, <1>3, <1>5, <1>6 DEF Types, IInv, fill, Tables
  <1>8. Place' /\ ~Watched'
    BY <1>1, <1>5, <1>6 DEF Place, Watched, Watching
  <1> QED BY <1>7, <1>8, Elsewhere

LEMMA ParseInv ==
    ASSUME IInv, ParseKnown \/ ParseDelayed \/ ParseEnd \/ TypeRecorded
    PROVE  IInv'
  <1>1. Tables' /\ liens' = liens
    BY Kept DEF IInv, Types, ParseKnown, ParseDelayed, ParseEnd, TypeRecorded, KeepBack,
       SameTables, Cleaned, queue
  <1>2. /\ pc \in {"parse", "socket"} /\ pc' \in {"parse", "socket", "advance"}
        /\ UNCHANGED <<ptr, pass, fill>>
        /\ pc' = "socket" => todo' = todo /\ todo # <<>>
    BY DEF ParseKnown, ParseDelayed, ParseEnd, TypeRecorded, Step, queue
  <1>3. todo' \in Seq(Url)
    <2>1. todo \in Seq(Url) /\ <<>> \in Seq(Url)
      BY DEF IInv, Types
    <2>2. todo # <<>> => Tail(todo) \in Seq(Url)
      BY <2>1, HeadTailProperties
    <2>3. \/ todo' \in {todo, <<>>}
          \/ todo # <<>> /\ todo' = Tail(todo)
      BY DEF ParseKnown, ParseDelayed, ParseEnd, TypeRecorded
    <2> QED BY <2>1, <2>2, <2>3
  <1>4. Types'
    BY <1>1, <1>2, <1>3 DEF Types, IInv, fill
  <1>5. Place' /\ ~Watched'
    BY <1>1, <1>2 DEF Place, IInv, Watched, Watching
  <1> QED BY <1>4, <1>5, Elsewhere

LEMMA NewItem ==
    ASSUME Types, NEW u \in Url
    PROVE  [url |-> u, name |-> NameOf[u], pass2 |-> PassOf(u), retry |-> Retries] \in Item
  <1>1. PassOf(u) \in Int
    BY DEF PassOf, Types
  <1>2. NameOf[u] \in Name /\ Retries \in Int
    BY SiteAssumption, SlotsAssumption
  <1> QED BY <1>1, <1>2 DEF Item

LEMMA ParseRecordInv == ASSUME IInv, ParseRecord PROVE IInv'
  <1> DEFINE u == Head(todo)
  <1>1. u \in Url /\ Tail(todo) \in Seq(Url)
    BY HeadTailProperties DEF ParseRecord, IInv, Types
  <1>2. liens' \in Seq(Item) /\ Len(liens') = Len(liens) + 1 /\ Len(liens) \in Nat
    BY <1>1, NewItem, RecordFacts, LiensFacts DEF ParseRecord, Recording, IInv, Types, Tables
  <1>3. UNCHANGED <<back, ready, ptr, pass, fill, pc>> /\ pc = "parse" /\ todo' = Tail(todo)
    BY DEF ParseRecord, KeepBack
  <1>4. Types'
    BY <1>1, <1>2, <1>3 DEF Types, IInv, fill, Tables
  <1>5. Place' /\ ~Watched'
    BY <1>2, <1>3 DEF Place, IInv, Watched, Watching
  <1> QED BY <1>4, <1>5, Elsewhere

LEMMA TypeAddInv == ASSUME IInv, TypeAdd PROVE IInv'
  <1> DEFINE slot == [NewSlot(Head(todo), "delayed") EXCEPT !.early = TRUE, !.locked = "locked"]
             mine == SlotsOf(back', Head(todo))
  <1>1. /\ Tables /\ pc = "socket" /\ todo # <<>> /\ Head(todo) \in Url
        /\ UNCHANGED <<ptr, pass, fill, todo>>
    BY HeadTailProperties DEF TypeAdd, IInv, Types, Place
  <1>2. slot \in SlotRec /\ slot.url = Head(todo) /\ slot.locked = "locked"
    BY <1>1, SlotTyped
  <1>3. Add(slot)
    BY DEF TypeAdd
  <1>4. Cleaned /\ (mine # {} => back'[Min(mine)].locked # "no")
    BY <1>1, <1>2, <1>3, AddFacts
  <1>5. \/ pc' = "done"
        \/ mine # {} /\ pc' = "typed" /\ held' = Min(mine)
    BY DEF TypeAdd, Step
  <1>6. Types'
    BY <1>1, <1>4 DEF Types, IInv, fill, Cleaned
  <1>7. Place'
    BY <1>1, <1>4, <1>5 DEF Place, IInv, Cleaned, Watched, Watching
  <1>8. HeldGuarded'
    <2>1. CASE pc' = "done"
      BY <2>1 DEF HeldGuarded, Watched, Watching
    <2>2. CASE mine # {} /\ pc' = "typed" /\ held' = Min(mine)
      <3>1. /\ held' \in Slots /\ back'[held'].status # "free"
            /\ back'[held'].url = Head(todo)
        BY <2>2, SlotSets
      <3> QED BY <1>1, <1>4, <2>2, <3>1 DEF HeldGuarded, Guarded
    <2> QED BY <1>5, <2>1, <2>2
  <1> QED BY <1>6, <1>7, <1>8 DEF IInv

\* The steps at which the slot stays held, across a pump or not.
LEMMA TypeWaitInv ==
    ASSUME IInv, TypePump \/ NamePump \/ TypeAgain
    PROVE  IInv'
  <1>1. Cleaned /\ KeepsGuarded
    <2>1. CASE Pump
      BY <2>1, PumpFacts DEF IInv, Types
    <2>2. CASE SameTables
      BY <2>2, Kept DEF IInv, Types
    <2> QED BY <2>1, <2>2
         DEF TypePump, NamePump, TypeAgain, KeepBack, SameTables, queue
  <1>2. /\ pc \in Watching /\ pc' \in Watching
        /\ UNCHANGED <<ptr, pass, fill, todo, held>>
    BY DEF TypePump, NamePump, TypeAgain, Step, Watching, queue
  <1>3. Types'
    BY <1>1, <1>2 DEF Types, IInv, fill, Cleaned
  <1>4. Place'
    BY <1>1, <1>2 DEF Place, IInv, Cleaned, Watched, Watching
  <1>5. HeldGuarded'
    BY <1>1, <1>2, StillHeld DEF Watched
  <1> QED BY <1>3, <1>4, <1>5 DEF IInv

LEMMA TypeKnownInv == ASSUME IInv, TypeKnown PROVE IInv'
  <1>1. PICK r \in Results \cup {"stopped"} :
          back' = [back EXCEPT ![held].res = r, ![held].locked = "pinned"]
    BY DEF TypeKnown
  <1>2. /\ Tables /\ pc = "typeTest" /\ pc' = "naming"
        /\ UNCHANGED <<liens, ptr, pass, fill, ready, held, todo>>
    BY DEF TypeKnown, Step, queue, IInv, Types
  <1>3. held \in Slots /\ Guarded(back, held) /\ back[held].url = Head(todo)
    BY <1>2 DEF IInv, HeldGuarded, Watched, Watching
  <1> DEFINE t == [back[held] EXCEPT !.res = r, !.locked = "pinned"]
  <1>4. back' = [back EXCEPT ![held] = t]
    BY <1>1, <1>2, <1>3 DEF Tables
  <1>5. /\ t \in SlotRec /\ t.status = back[held].status /\ t.url = back[held].url
        /\ t.locked = "pinned"
    <2>1. back[held] \in SlotRec
      BY <1>2, <1>3 DEF Tables
    <2> QED BY <2>1, <1>1 DEF SlotRec
  <1> HIDE DEF t
  <1>6. Tables'
    BY <1>2, <1>4, <1>5 DEF Tables
  <1>7. back'[held] = t
    BY <1>2, <1>3, <1>4 DEF Tables
  <1>8. Types'
    BY <1>2, <1>6 DEF Types, IInv, fill
  <1>9. Place'
    BY <1>2 DEF Place, IInv, Watched, Watching
  <1>10. HeldGuarded'
    BY <1>2, <1>3, <1>5, <1>7 DEF HeldGuarded, Guarded
  <1> QED BY <1>8, <1>9, <1>10 DEF IInv

LEMMA TypeMovedInv == ASSUME IInv, TypeMoved PROVE IInv'
  <1>1. /\ Tables /\ pc = "typeTest" /\ pc' \in {"parse", "socket"}
        /\ UNCHANGED <<liens, ptr, pass, fill, ready>>
        /\ back' = [back EXCEPT ![held] = FreeSlot]
        /\ todo' = <<Target[Head(todo)]>> \o Tail(todo)
    BY DEF TypeMoved, Step, queue, IInv, Types
  <1>2. Head(todo) \in Url /\ Tail(todo) \in Seq(Url)
    BY <1>1, HeadTailProperties DEF IInv, Types, Place, Watched, Watching
  <1>3. <<Target[Head(todo)]>> \in Seq(Url) /\ Len(<<Target[Head(todo)]>>) = 1
    BY <1>2, SiteAssumption
  <1>4. todo' \in Seq(Url) /\ Len(todo') = 1 + Len(Tail(todo)) /\ Len(Tail(todo)) \in Nat
    BY <1>1, <1>2, <1>3, ConcatProperties, LenProperties
  <1>5. todo' # <<>>
    BY <1>4, EmptySeq
  <1>6. Tables'
    BY <1>1, FreeTyped DEF Tables
  <1>7. Types'
    BY <1>1, <1>4, <1>6 DEF Types, IInv, fill
  <1>8. Place' /\ ~Watched'
    BY <1>1, <1>5 DEF Place, IInv, Watched, Watching
  <1> QED BY <1>7, <1>8, Elsewhere

LEMMA NamedInv == ASSUME IInv, Named PROVE IInv'
  <1> DEFINE u == Head(todo)
             n == NameOf[u]
  <1>1. /\ Tables /\ pc = "naming" /\ pc' = "parse" /\ todo' = Tail(todo)
        /\ UNCHANGED <<ptr, pass, fill, ready>>
    BY DEF Named, Step, IInv, Types
  <1>2. /\ u \in Url /\ Tail(todo) \in Seq(Url) /\ n \in Name
        /\ held \in Slots
    BY <1>1, HeadTailProperties, SiteAssumption
    DEF IInv, Types, Place, Watched, Watching, HeldGuarded
  <1>3. back' \in [Slots -> SlotRec]
    <2>1. \/ back' = [back EXCEPT ![held] = [back[held] EXCEPT !.locked = "no", !.name = n]]
          \/ back' = [back EXCEPT ![held] = [back[held] EXCEPT !.locked = "no"]]
      BY <1>1, <1>2 DEF Named, Tables
    <2>2. /\ [back[held] EXCEPT !.locked = "no", !.name = n] \in SlotRec
          /\ [back[held] EXCEPT !.locked = "no"] \in SlotRec
      BY <1>1, <1>2 DEF Tables, SlotRec
    <2> QED BY <1>1, <2>1, <2>2 DEF Tables
  <1>4. liens' \in Seq(Item) /\ Len(liens') >= Len(liens) /\ Len(liens) \in Nat
    <2>1. liens \in Seq(Item) /\ Len(liens) \in Nat
      BY <1>1, LiensFacts DEF Tables
    <2>2. [url |-> u, name |-> n, pass2 |-> PassOf(u), retry |-> Retries] \in Item
      BY <1>2, NewItem DEF IInv
    <2>3. CASE Recording(u, n, PassOf(u), Retries)
      BY <2>1, <2>2, <2>3, RecordFacts DEF Recording
    <2>4. CASE liens' = liens
      BY <2>1, <2>4
    <2> QED BY <2>3, <2>4 DEF Named
  <1>5. Types'
    BY <1>1, <1>2, <1>3, <1>4 DEF Types, IInv, fill, Tables
  <1>6. Place' /\ ~Watched'
    BY <1>1, <1>4 DEF Place, IInv, Watched, Watching
  <1> QED BY <1>5, <1>6, Elsewhere

LEMMA StopInv == ASSUME IInv, Stop \/ UNCHANGED vars PROVE IInv'
  <1>1. /\ SameTables
        /\ UNCHANGED <<ptr, pass, fill, pc, held, todo>>
    BY DEF Stop, vars, KeepBack, SameTables, queue, fill
  <1>2. Cleaned /\ KeepsGuarded
    BY <1>1, Kept DEF IInv, Types
  <1>3. Types'
    BY <1>1, <1>2 DEF Types, IInv, fill, Cleaned
  <1>4. Place' /\ (Watched' <=> Watched)
    BY <1>1, <1>2 DEF Place, IInv, Cleaned, Watched, fill
  <1>5. HeldGuarded'
    BY <1>1, <1>2, <1>4, StillHeld DEF HeldGuarded
  <1> QED BY <1>3, <1>4, <1>5 DEF IInv

-----------------------------------------------------------------------------

LEMMA StepInv == IInv /\ [Next]_vars => IInv'
  <1> SUFFICES ASSUME IInv, [Next]_vars PROVE IInv'
    OBVIOUS
  <1>1. CASE Fetch
    BY <1>1, TopInv, AdvanceInv, PlugInv, PumpInv, WantInv, LookInv, ConsumeInv DEF Fetch
  <1>2. CASE Prefetch
    BY <1>2, FillStartInv, FillAddInv, FillEndInv DEF Prefetch
  <1>3. CASE Parse
    BY <1>3, PumpInv, ParseInv, ParseRecordInv DEF Parse
  <1>4. CASE Typing
    BY <1>4, PumpInv, ParseInv, TypeAddInv, TypeWaitInv, TypeKnownInv, TypeMovedInv, NamedInv
    DEF Typing
  <1>5. CASE Stop \/ UNCHANGED vars
    BY <1>5, StopInv
  <1> QED BY <1>1, <1>2, <1>3, <1>4, <1>5 DEF Next, Work, Finished

\* The slot index that hts_wait_delayed() keeps across its pumps is still the slot of
\* the link it waits for, whatever was cleaned, swapped, launched or stopped
\* meanwhile.
THEOREM SlotStaysHeld == Spec => []HeldSlotKeepsLink
  <1>1. IInv => HeldSlotKeepsLink
    BY DEF IInv, HeldGuarded, Guarded, Watched, Watching, HeldSlotKeepsLink
  <1> QED BY <1>1, InitInv, StepInv, PTL DEF Spec

-----------------------------------------------------------------------------
(* One transfer for each URL, wherever it is.  A swapped transfer is known   *)
(* by its local name only, so it has to be where the name of its URL says.   *)

Live(t) == t.status # "free"
KnownIn(h, n) == \E i \in DOMAIN h : h[i].name = n

\* A slot that has its name is named after its URL, and its link is in the heap.
Named1(t, h) == Live(t) /\ t.name \in Name => t.name = NameOf[t.url] /\ KnownIn(h, t.name)

Labelled(b, r, h) ==
    /\ \A i \in DOMAIN h : h[i].name = NameOf[h[i].url]
    /\ \A s \in Slots : Named1(b[s], h)
    /\ \A n \in Name : r[n].state = "swapped" =>
          Live(r[n].slot) /\ r[n].slot.name = n /\ Named1(r[n].slot, h)

Apart(b, r) ==
    /\ \A s, t \in Slots : Live(b[s]) /\ Live(b[t]) /\ b[s].url = b[t].url => s = t
    /\ \A s \in Slots, n \in Name :
          Live(b[s]) /\ r[n].state = "swapped" => b[s].url # r[n].slot.url

UInv(b, r, h) == Labelled(b, r, h) /\ Apart(b, r)

\* The heap h2 has the links of h1, and others.
Grown(h1, h2) ==
    /\ \A i \in DOMAIN h1 : i \in DOMAIN h2 /\ h2[i].name = h1[i].name /\ h2[i].url = h1[i].url
    /\ \A i \in DOMAIN h2 \ DOMAIN h1 : h2[i].name = NameOf[h2[i].url]

\* No transfer is in b2 or r2 that was not in b1 or r1, and none is in both.
Fewer(b1, r1, b2, r2, h2) ==
    /\ \A s \in Slots : Live(b2[s]) =>
          /\ Live(b1[s]) /\ b2[s].url = b1[s].url
          /\ b2[s].name = b1[s].name \/ Named1(b2[s], h2)
    /\ \A n \in Name : r2[n].state = "swapped" =>
          \/ r2[n] = r1[n]
          \/ \E s \in Slots : /\ Live(b1[s]) /\ b1[s].name = n /\ ~Live(b2[s])
                              /\ r2[n].slot = b1[s]

LEMMA FewerFacts ==
    ASSUME NEW b1, NEW r1, NEW h1, NEW b2, NEW r2, NEW h2,
           UInv(b1, r1, h1), Grown(h1, h2), Fewer(b1, r1, b2, r2, h2)
    PROVE  UInv(b2, r2, h2)
  <1>1. \A n : KnownIn(h1, n) => KnownIn(h2, n)
    BY DEF Grown, KnownIn
  <1>2. \A t : Named1(t, h1) => Named1(t, h2)
    BY <1>1 DEF Named1
  <1>3. \A i \in DOMAIN h2 : h2[i].name = NameOf[h2[i].url]
    BY DEF UInv, Labelled, Grown
  <1>4. \A s \in Slots : Named1(b2[s], h2)
    <2> TAKE s \in Slots
    <2>1. Named1(b1[s], h2)
      BY <1>2 DEF UInv, Labelled
    <2> QED BY <2>1 DEF Fewer, Named1
  <1>5. ASSUME NEW n \in Name, r2[n].state = "swapped"
        PROVE  /\ Live(r2[n].slot) /\ r2[n].slot.name = n /\ Named1(r2[n].slot, h2)
               /\ \A t \in Slots : Live(b2[t]) => b2[t].url # r2[n].slot.url
    <2>1. CASE r2[n] = r1[n]
      BY <1>2, <1>5, <2>1 DEF UInv, Labelled, Apart, Fewer
    <2>2. CASE \E s \in Slots : /\ Live(b1[s]) /\ b1[s].name = n /\ ~Live(b2[s])
                                /\ r2[n].slot = b1[s]
      BY <1>2, <2>2 DEF UInv, Labelled, Apart, Fewer
    <2> QED BY <1>5, <2>1, <2>2 DEF Fewer
  <1>6. Labelled(b2, r2, h2)
    BY <1>3, <1>4, <1>5 DEF Labelled
  <1>7. Apart(b2, r2)
    BY <1>5 DEF UInv, Apart, Fewer
  <1> QED BY <1>6, <1>7 DEF UInv

\* What back_clean() does: a transfer moves to the place of its name, or is freed.
LEMMA CleanFewer ==
    ASSUME Tables, NEW kept, UInv(back, ready, liens)
    PROVE  /\ UInv(CleanedBack(kept), CleanedReady(kept), MarkedLinks)
           /\ Grown(liens, MarkedLinks)
           /\ Fewer(back, ready, CleanedBack(kept), CleanedReady(kept), MarkedLinks)
  <1> DEFINE b == CleanedBack(kept)
             r == CleanedReady(kept)
  <1>1. Grown(liens, MarkedLinks)
    <2>1. \A i \in DOMAIN liens, n \in Int :
            /\ [liens[i] EXCEPT !.pass2 = n].name = liens[i].name
            /\ [liens[i] EXCEPT !.pass2 = n].url = liens[i].url
      BY LiensFacts DEF Item
    <2>2. -1 \in Int
      OBVIOUS
    <2>3. \A i \in DOMAIN liens :
            /\ [liens[i] EXCEPT !.pass2 = -1].name = liens[i].name
            /\ [liens[i] EXCEPT !.pass2 = -1].url = liens[i].url
      BY <2>1, <2>2
    <2> QED BY <2>3 DEF Grown, MarkedLinks
  <1>2. \A s \in Slots : Live(b[s]) => b[s] = back[s]
    BY CleanFacts, FreeTyped DEF Live
  <1>3. ASSUME NEW n \in Name, r[n].state = "swapped", r[n] # ready[n]
        PROVE  \E s \in Slots : /\ Live(back[s]) /\ back[s].name = n /\ ~Live(b[s])
                                /\ r[n].slot = back[s]
    <2> DEFINE here == {s \in Swapped(kept) : back[s].name = n}
    <2>1. here # {} /\ r[n].slot = back[Max(here)]
      BY <1>3 DEF CleanedReady
    <2>2. here \in SUBSET (1 .. MaxSlots)
      BY DEF Swapped, Slots
    <2>3. Max(here) \in here
      BY <2>1, <2>2, MaxIn, SlotsAssumption
    <2>4. PICK s \in Swapped(kept) : back[s].name = n /\ s = Max(here)
      BY <2>3
    <2>5. s \in Slots /\ Live(back[s]) /\ ~Live(b[s])
      BY <2>4, FreeTyped DEF Swapped, Swappable, Live, CleanedBack
    <2> QED BY <2>1, <2>4, <2>5
  <1>4. Fewer(back, ready, b, r, MarkedLinks)
    BY <1>2, <1>3 DEF Fewer
  <1> QED BY <1>1, <1>4, FewerFacts

LEMMA PumpFewer ==
    ASSUME Tables, Pump, UInv(back, ready, liens)
    PROVE  UInv(back, ready, liens)'
  <1>1. PICK finished \in SUBSET Busy(back) : PumpWith(finished)
    BY DEF Pump
  <1>2. PICK kept \in SUBSET Swapped({}) :
          /\ Clean(kept)
          /\ \E res \in [finished -> Results \cup {"stopped"}] :
                back' = [s \in Slots |->
                   IF s \in finished
                     THEN [back[s] EXCEPT !.status = "ready", !.res = res[s]]
                     ELSE CleanedBack(kept)[s]]
    BY <1>1 DEF PumpWith
  <1>3. PICK res : back' = [s \in Slots |->
                   IF s \in finished
                     THEN [back[s] EXCEPT !.status = "ready", !.res = res[s]]
                     ELSE CleanedBack(kept)[s]]
    BY <1>2
  <1>4. \A s \in finished : Live(back[s]) /\ ~Saved(s) /\ s \notin Swapped(kept)
    BY <1>1 DEF Busy, Live, Saved, Swapped, Swappable
  <1>5. \A s \in finished : CleanedBack(kept)[s] = back[s]
    BY <1>1, <1>4 DEF CleanedBack, Busy
  <1>6. \A s \in Slots : back'[s].url = CleanedBack(kept)[s].url
                         /\ back'[s].name = CleanedBack(kept)[s].name
                         /\ (Live(back'[s]) => Live(CleanedBack(kept)[s]))
    <2> TAKE s \in Slots
    <2>1. CASE s \in finished
      <3> DEFINE t == [back[s] EXCEPT !.status = "ready", !.res = res[s]]
      <3>1. t.url = back[s].url /\ t.name = back[s].name
        BY DEF Tables, SlotRec
      <3>2. back'[s] = t
        BY <1>3, <2>1
      <3> HIDE DEF t
      <3> QED BY <1>4, <1>5, <2>1, <3>1, <3>2
    <2>2. CASE s \notin finished
      BY <1>3, <2>2
    <2> QED BY <2>1, <2>2
  <1>7. ready' = CleanedReady(kept) /\ liens' = MarkedLinks
    BY <1>2 DEF Clean
  <1>8. Grown(liens', liens')
    BY DEF Grown
  <1>9. Fewer(CleanedBack(kept), CleanedReady(kept), back', ready', liens')
    BY <1>6, <1>7 DEF Fewer
  <1> QED BY <1>7, <1>8, <1>9, CleanFewer, FewerFacts

\* back_add() asks for a URL that has no transfer: the prefetch and the main loop look
\* for one, and what hts_wait_delayed() asks for is not known to the heap.
LEMMA AddApart ==
    ASSUME Tables, UInv(back, ready, liens), NEW slot \in SlotRec, Add(slot),
           \/ /\ ~Exist(back, ready, slot.url, slot.name)
              /\ slot.name = NameOf[slot.url] /\ KnownIn(liens, slot.name)
           \/ slot.name \notin Name /\ ~KnownIn(liens, NameOf[slot.url])
    PROVE  UInv(back, ready, liens)'
  <1>1. PICK kept \in SUBSET Swapped({}) :
          Clean(kept) /\ back' \in Placed(CleanedBack(kept), slot)
    BY DEF Add
  <1> DEFINE b == CleanedBack(kept)
             mine == SlotsOf(b, slot.url)
  <1>2. /\ UInv(b, ready', liens') /\ Grown(liens, liens')
        /\ Fewer(back, ready, b, ready', liens')
    BY <1>1, CleanFewer DEF Clean
  <1>3. b \in [Slots -> SlotRec]
    BY CleanFacts
  <1>4. Grown(liens', liens')
    BY DEF Grown
  <1>5. CASE mine # {}
    <2> DEFINE m == Min(mine)
    <2>1. m \in Slots
      BY <1>5, SlotSets
    <2>2. back' = [b EXCEPT ![m] = [b[m] EXCEPT !.early = slot.early, !.locked = slot.locked]]
      BY <1>1, <1>5, <1>3, <2>1 DEF Placed
    <2>3. LET t == [b[m] EXCEPT !.early = slot.early, !.locked = slot.locked]
          IN t.status = b[m].status /\ t.url = b[m].url /\ t.name = b[m].name
      BY <1>3, <2>1 DEF SlotRec
    <2> HIDE DEF b, m
    <2>4. \A s \in Slots : /\ back'[s].status = b[s].status /\ back'[s].url = b[s].url
                           /\ back'[s].name = b[s].name
      BY <1>3, <2>1, <2>2, <2>3
    <2>5. Fewer(b, ready', back', ready', liens')
      BY <2>4 DEF Fewer, Live
    <2> QED BY <1>2, <1>4, <2>5, FewerFacts
  <1>6. CASE mine = {} /\ Free(b) = {}
    BY <1>1, <1>2, <1>6 DEF Placed
  <1>7. CASE mine = {} /\ Free(b) # {}
    <2> DEFINE m == Min(Free(b))
    <2>1. m \in Slots
      BY <1>7, SlotSets
    <2>2. PICK asked \in Asked(slot) : back' = [b EXCEPT ![m] = asked]
      BY <1>1, <1>7 DEF Placed
    <2>3. asked.url = slot.url /\ asked.name = slot.name
      BY <2>2, AskedTyped
    <2>4. \A s \in Slots : Live(b[s]) => b[s].url # slot.url
      BY <1>7 DEF SlotsOf, Live
    <2>5. ASSUME NEW n \in Name, ready'[n].state = "swapped"
          PROVE  ready'[n].slot.url # slot.url
      <3>1. CASE ready'[n] = ready[n]
        <4>1. ready[n].slot.name = n /\ n = NameOf[ready[n].slot.url] /\ KnownIn(liens, n)
          BY <2>5, <3>1 DEF UInv, Labelled, Named1
        <4> QED BY <2>5, <3>1, <4>1 DEF Exist
      <3>2. CASE \E s \in Slots : /\ Live(back[s]) /\ back[s].name = n
                                  /\ ready'[n].slot = back[s]
        <4>1. PICK s \in Slots : /\ Live(back[s]) /\ back[s].name = n
                                 /\ ready'[n].slot = back[s]
          BY <3>2
        <4>2. n = NameOf[back[s].url] /\ KnownIn(liens, n)
          BY <4>1 DEF UInv, Labelled, Named1
        <4>3. SlotsOf(back, back[s].url) # {}
          BY <4>1 DEF SlotsOf, Live
        <4> QED BY <4>1, <4>2, <4>3 DEF Exist
      <3> QED BY <1>2, <2>5, <3>1, <3>2 DEF Fewer
    <2>6. Named1(asked, liens')
      BY <1>2, <2>3 DEF Named1, KnownIn, Grown
    <2> HIDE DEF b, m
    <2>7. /\ back'[m] = asked
          /\ \A s \in Slots \ {m} : back'[s] = b[s]
      BY <1>3, <2>1, <2>2
    <2>8. Labelled(back', ready', liens')
      BY <1>2, <2>6, <2>7 DEF UInv, Labelled
    <2>9. Apart(back', ready')
      BY <1>2, <2>1, <2>3, <2>4, <2>5, <2>7 DEF UInv, Apart
    <2> QED BY <2>8, <2>9 DEF UInv
  <1> QED BY <1>5, <1>6, <1>7

LEMMA WakeApart ==
    ASSUME Tables, UInv(back, ready, liens), liens' = liens,
           NEW n \in Name, ready[n].state = "swapped",
           NEW found, NEW lost, Wake(n, found, lost)
    PROVE  UInv(back, ready, liens)'
  <1> DEFINE t == [ready[n].slot EXCEPT !.locked = "locked"]
             s == Min(Free(back))
  <1>0. ready[n].slot \in SlotRec
    BY DEF Tables, Stored
  <1>1. t.status = ready[n].slot.status /\ t.url = ready[n].slot.url /\ t.name = n
    BY <1>0 DEF SlotRec, UInv, Labelled
  <1>2. /\ Live(t) /\ Named1(t, liens) /\ n = NameOf[t.url]
        /\ \A u \in Slots : Live(back[u]) => back[u].url # t.url
        /\ \A k \in Name \ {n} : ready[k].state = "swapped" => ready[k].slot.url # t.url
    <2>1. Live(ready[n].slot) /\ Named1(ready[n].slot, liens) /\ ready[n].slot.name = n
      BY DEF UInv, Labelled
    <2>2. Live(t) /\ Named1(t, liens) /\ n = NameOf[t.url]
      BY <1>1, <2>1 DEF Live, Named1
    <2>3. \A k \in Name : ready[k].state = "swapped" => k = NameOf[ready[k].slot.url]
      BY DEF UInv, Labelled, Named1
    <2> HIDE DEF t
    <2> QED BY <1>1, <2>2, <2>3 DEF UInv, Apart
  <1>3. CASE /\ Free(back) # {}
             /\ back' = [back EXCEPT ![s] = t]
             /\ ready' = [ready EXCEPT ![n] = NotStored]
    <2>1. s \in Slots
      BY <1>3, SlotSets
    <2> HIDE DEF t, s
    <2>2. back'[s] = t /\ \A u \in Slots \ {s} : back'[u] = back[u]
      BY <1>3, <2>1 DEF Tables
    <2>3. /\ \A k \in Name \ {n} : ready'[k] = ready[k]
          /\ ready'[n].state # "swapped"
      BY <1>3 DEF Tables, NotStored
    <2>4. Labelled(back', ready', liens')
      BY <1>2, <2>2, <2>3 DEF UInv, Labelled
    <2>5. Apart(back', ready')
      BY <1>2, <2>1, <2>2, <2>3 DEF UInv, Apart
    <2> QED BY <2>4, <2>5 DEF UInv
  <1>4. CASE ready' = [ready EXCEPT ![n].state = "gone"] /\ back' = back
    <2>1. ready'[n].state = "gone" /\ \A k \in Name \ {n} : ready'[k] = ready[k]
      BY <1>4 DEF Tables, Stored
    <2>2. Grown(liens, liens') /\ Fewer(back, ready, back', ready', liens')
      BY <1>4, <2>1 DEF Grown, Fewer
    <2> QED BY <2>2, FewerFacts
  <1> QED BY <1>3, <1>4 DEF Wake

JInv == IInv /\ UInv(back, ready, liens)

LEMMA InitApart == Init => JInv
  <1> SUFFICES ASSUME Init PROVE UInv(back, ready, liens)
    BY InitInv DEF JInv
  <1>1. \A s \in Slots : ~Live(back[s])
    BY FreeTyped DEF Init, Live
  <1>2. \A n \in Name : ready[n].state # "swapped"
    BY DEF Init, NotStored
  <1>3. \A i \in DOMAIN liens : liens[i].name = NameOf[liens[i].url]
    BY DEF Init
  <1> QED BY <1>1, <1>2, <1>3 DEF UInv, Labelled, Apart, Named1

\* A step that frees or relabels nothing, and records links by their names at most.
LEMMA TableStep ==
    ASSUME UInv(back, ready, liens), Grown(liens, liens'), ready' = ready,
           \A s \in Slots : Live(back'[s]) =>
               /\ Live(back[s]) /\ back'[s].url = back[s].url
               /\ back'[s].name = back[s].name \/ Named1(back'[s], liens')
    PROVE  UInv(back, ready, liens)'
  <1>1. Fewer(back, ready, back', ready', liens')
    BY DEF Fewer
  <1> QED BY <1>1, FewerFacts

LEMMA SameApart ==
    ASSUME UInv(back, ready, liens), UNCHANGED <<back, ready, liens>>
    PROVE  UInv(back, ready, liens)'
  OBVIOUS

LEMMA RecordGrows ==
    ASSUME NEW heap \in Seq(Item), NEW e, e.name = NameOf[e.url]
    PROVE  Grown(heap, Append(heap, e))
  BY DEF Grown

LEMMA WakingApart == ASSUME JInv, Plug \/ Look PROVE UInv(back, ready, liens)'
  <1>1. Tables /\ liens' = liens /\ ptr \in 1 .. Len(liens)
    BY DEF Plug, Look, queue, JInv, IInv, Types, Place
  <1>2. Here.name \in Name
    BY <1>1, HereFacts
  <1>3. CASE UNCHANGED <<back, ready>>
    BY <1>1, <1>3, SameApart DEF JInv
  <1>4. ASSUME ready[Here.name].state = "swapped", NEW found, NEW lost,
               Wake(Here.name, found, lost)
        PROVE  UInv(back, ready, liens)'
    BY <1>1, <1>2, <1>4, WakeApart DEF JInv
  <1>5. CASE Plug
    <2> DEFINE wait == IF pc = "plug" THEN "plugged" ELSE "plugged2"
    <2>1. CASE KeepBack
      BY <1>3, <2>1 DEF KeepBack
    <2>2. CASE ready[Here.name].state = "swapped" /\ Wake(Here.name, wait, wait)
      BY <1>4, <2>2
    <2>3. CASE UNCHANGED <<back, ready, held, troubles>>
      BY <1>3, <2>3
    <2> HIDE DEF wait
    <2> QED BY <1>5, <2>1, <2>2, <2>3 DEF Plug, wait
  <1>6. CASE Look
    <2>1. CASE KeepBack
      BY <1>3, <2>1 DEF KeepBack
    <2>2. CASE ready[Here.name].state = "swapped" /\ Wake(Here.name, "consume", "advance")
      BY <1>4, <2>2
    <2> QED BY <1>6, <2>1, <2>2 DEF Look
  <1> QED BY <1>5, <1>6

\* The prefetch and the main loop ask for a link of the heap that has no transfer.
LEMMA HeapAdd ==
    ASSUME JInv, NEW p \in 1 .. Len(liens), Add(NewSlot(At(p).url, At(p).name)),
           ~Exist(back, ready, At(p).url, At(p).name)
    PROVE  UInv(back, ready, liens)'
  <1> DEFINE slot == NewSlot(At(p).url, At(p).name)
  <1>1. Tables /\ p \in DOMAIN liens /\ At(p) \in Item
    BY LiensFacts DEF JInv, IInv, Types, At
  <1>2. slot \in SlotRec /\ slot.url = At(p).url /\ slot.name = At(p).name
    BY <1>1, SlotTyped, FreeTyped DEF Item, NewSlot, SlotRec
  <1>3. At(p).name = NameOf[At(p).url] /\ KnownIn(liens, At(p).name)
    BY <1>1 DEF JInv, UInv, Labelled, KnownIn, At
  <1> HIDE DEF slot
  <1>4. Add(slot)
    BY DEF slot
  <1> QED BY <1>1, <1>2, <1>3, <1>4, AddApart DEF JInv

LEMMA AskingApart == ASSUME JInv, FillAdd \/ Want PROVE UInv(back, ready, liens)'
  <1>1. CASE FillAdd
    <2> DEFINE p == Min(Candidates)
    <2>1. Candidates # {} /\ cur \in Nat /\ cur > 0
      BY <1>1 DEF FillAdd, JInv, IInv, Types, Place
    <2>2. Candidates \in SUBSET (1 .. Len(liens)) /\ Len(liens) \in Nat
      BY <2>1, LiensFacts DEF Candidates, JInv, IInv, Types
    <2>3. Candidates \in SUBSET Nat
      BY <2>2
    <2>4. p \in Candidates
      BY <2>1, <2>3, MinIn
    <2>5. ~Exist(back, ready, At(p).url, At(p).name)
      BY <2>4 DEF Candidates
    <2> QED BY <1>1, <2>2, <2>4, <2>5, HeapAdd DEF FillAdd
  <1>2. CASE Want
    <2>1. ptr \in 1 .. Len(liens)
      BY <1>2 DEF Want, JInv, IInv, Place
    <2>2. CASE UNCHANGED <<back, ready, liens>>
      BY <2>2, SameApart DEF JInv
    <2>3. CASE /\ Add(NewSlot(Here.url, Here.name))
               /\ ~Exist(back, ready, Here.url, Here.name)
      BY <2>1, <2>3, HeapAdd DEF Here
    <2> QED BY <1>2, <2>2, <2>3 DEF Want, KeepBack
  <1> QED BY <1>1, <1>2

LEMMA TypeAddApart == ASSUME JInv, TypeAdd PROVE UInv(back, ready, liens)'
  <1> DEFINE slot == [NewSlot(Head(todo), "delayed") EXCEPT !.early = TRUE, !.locked = "locked"]
  <1>1. Tables /\ Head(todo) \in Url
    BY HeadTailProperties DEF TypeAdd, JInv, IInv, Types, Place
  <1>2. slot \in SlotRec /\ slot.url = Head(todo)
    BY <1>1, SlotTyped
  <1>3. slot.name = "delayed"
    BY FreeTyped DEF NewSlot, SlotRec
  <1>4. ~KnownIn(liens, NameOf[Head(todo)])
    BY DEF TypeAdd, Known, Recorded, KnownIn
  <1>5. "delayed" \notin Name
    BY SiteAssumption
  <1> HIDE DEF slot
  <1>6. Add(slot)
    BY DEF TypeAdd, slot
  <1> QED BY <1>1, <1>2, <1>3, <1>4, <1>5, <1>6, AddApart DEF JInv

LEMMA RecordApart == ASSUME JInv, ParseRecord PROVE UInv(back, ready, liens)'
  <1> DEFINE e == [url |-> Head(todo), name |-> NameOf[Head(todo)],
                   pass2 |-> PassOf(Head(todo)), retry |-> Retries]
  <1>1. liens \in Seq(Item) /\ liens' = Append(liens, e) /\ UNCHANGED <<back, ready>>
    BY DEF ParseRecord, Recording, KeepBack, JInv, IInv, Types, Tables
  <1>2. e.name = NameOf[e.url]
    OBVIOUS
  <1> HIDE DEF e
  <1>3. Grown(liens, liens')
    BY <1>1, <1>2, RecordGrows
  <1> QED BY <1>1, <1>3, TableStep DEF JInv

LEMMA ConsumeApart == ASSUME JInv, Consume PROVE UInv(back, ready, liens)'
  <1> DEFINE u == Here.url
  <1>1. /\ Tables /\ ptr \in 1 .. Len(liens) /\ ready' = ready
        /\ back' = [back EXCEPT ![held] = FreeSlot]
    BY DEF Consume, JInv, IInv, Types, Place
  <1>2. Here \in Item /\ ptr \in DOMAIN liens /\ liens \in Seq(Item)
    BY <1>1, HereFacts, LiensFacts DEF Tables
  <1>3. Here.name = NameOf[u]
    BY <1>2 DEF JInv, UInv, Labelled, Here, At
  <1>4. Grown(liens, liens')
    <2>1. CASE /\ liens' = Append([liens EXCEPT ![ptr].pass2 = -1],
                    [url |-> Target[u], name |-> Here.name, pass2 |-> pass,
                     retry |-> Here.retry])
               /\ NameOf[Target[u]] = NameOf[u]
      <3> DEFINE e == [url |-> Target[u], name |-> Here.name, pass2 |-> pass,
                       retry |-> Here.retry]
                 i == [Here EXCEPT !.pass2 = -1]
                 heap == [liens EXCEPT ![ptr] = i]
      <3>1. e.name = NameOf[e.url]
        BY <1>3, <2>1
      <3>2. \A n \in Int : /\ [Here EXCEPT !.pass2 = n] \in Item
                           /\ [Here EXCEPT !.pass2 = n].url = Here.url
                           /\ [Here EXCEPT !.pass2 = n].name = Here.name
        BY <1>2 DEF Item
      <3>3. i \in Item /\ i.url = Here.url /\ i.name = Here.name
        <4>1. -1 \in Int
          OBVIOUS
        <4> QED BY <3>2, <4>1
      <3>4. [liens EXCEPT ![ptr].pass2 = -1] = heap
        BY DEF Here, At
      <3> HIDE DEF e, i
      <3>5. heap \in Seq(Item) /\ Len(heap) = Len(liens)
            /\ \A j \in 1 .. Len(liens) : heap[j] = IF j = ptr THEN i ELSE liens[j]
        BY <1>1, <1>2, <3>3, ExceptSeq
      <3>6. liens' = Append(heap, e)
        BY <2>1, <3>4 DEF e
      <3> HIDE DEF heap
      <3>7. Grown(heap, liens')
        BY <3>1, <3>5, <3>6, RecordGrows
      <3>8. DOMAIN heap = 1 .. Len(liens) /\ DOMAIN liens = 1 .. Len(liens)
        BY <1>2, <3>5, LenProperties
      <3> QED BY <3>3, <3>5, <3>7, <3>8 DEF Grown, Here, At
    <2>2. CASE Recording(u, Here.name, Max({Here.pass2, pass}), Here.retry - 1)
      <3> DEFINE e == [url |-> u, name |-> Here.name, pass2 |-> Max({Here.pass2, pass}),
                       retry |-> Here.retry - 1]
      <3>1. e.name = NameOf[e.url] /\ liens' = Append(liens, e)
        BY <1>3, <2>2 DEF Recording
      <3> HIDE DEF e
      <3> QED BY <1>2, <3>1, RecordGrows
    <2>3. CASE liens' = liens
      BY <2>3 DEF Grown
    <2> QED BY <2>1, <2>2, <2>3 DEF Consume
  <1>5. \A s \in Slots : Live(back'[s]) => back'[s] = back[s]
    BY <1>1, FreeTyped DEF Tables, Live
  <1> QED BY <1>1, <1>4, <1>5, TableStep DEF JInv

LEMMA HeldApart ==
    ASSUME JInv, TypeKnown \/ TypeMoved PROVE UInv(back, ready, liens)'
  <1>1. Tables /\ ready' = ready /\ liens' = liens
    BY DEF TypeKnown, TypeMoved, queue, JInv, IInv, Types
  <1>2. Grown(liens, liens')
    BY <1>1 DEF Grown
  <1>3. CASE TypeKnown
    <2>1. PICK r \in Results \cup {"stopped"} :
            back' = [back EXCEPT ![held].res = r, ![held].locked = "pinned"]
      BY <1>3 DEF TypeKnown
    <2> DEFINE t == [back[held] EXCEPT !.res = r, !.locked = "pinned"]
    <2>2. held \in Slots
      BY <1>3 DEF TypeKnown, JInv, IInv, HeldGuarded, Watched, Watching
    <2>3. back' = [back EXCEPT ![held] = t]
      BY <1>1, <2>1, <2>2 DEF Tables
    <2>4. t.status = back[held].status /\ t.url = back[held].url /\ t.name = back[held].name
      BY <1>1, <2>2 DEF Tables, SlotRec
    <2> HIDE DEF t
    <2>5. \A s \in Slots : /\ back'[s].status = back[s].status /\ back'[s].url = back[s].url
                           /\ back'[s].name = back[s].name
      BY <1>1, <2>2, <2>3, <2>4 DEF Tables
    <2> QED BY <1>1, <1>2, <2>5, TableStep DEF JInv, Live
  <1>4. CASE TypeMoved
    <2>1. back' = [back EXCEPT ![held] = FreeSlot]
      BY <1>4 DEF TypeMoved
    <2>2. \A s \in Slots : Live(back'[s]) => back'[s] = back[s]
      BY <1>1, <2>1, FreeTyped DEF Tables, Live
    <2> QED BY <1>1, <1>2, <2>2, TableStep DEF JInv
  <1> QED BY <1>3, <1>4

LEMMA NamedApart == ASSUME JInv, Named PROVE UInv(back, ready, liens)'
  <1> DEFINE u == Head(todo)
             n == NameOf[u]
  <1>1. /\ Tables /\ ready' = ready /\ held \in Slots /\ back[held].url = u
        /\ Guarded(back, held)
    BY DEF Named, JInv, IInv, Types, HeldGuarded, Watched, Watching
  <1>2. CASE /\ back' = [back EXCEPT ![held].locked = "no", ![held].name = n]
             /\ Recording(u, n, PassOf(u), Retries)
    <2> DEFINE e == [url |-> u, name |-> n, pass2 |-> PassOf(u), retry |-> Retries]
               t == [back[held] EXCEPT !.locked = "no", !.name = n]
    <2>1. e.name = NameOf[e.url] /\ e.name = n /\ liens' = Append(liens, e)
          /\ liens \in Seq(Item)
      BY <1>1, <1>2 DEF Recording, Tables
    <2>2. back' = [back EXCEPT ![held] = t]
      BY <1>1, <1>2 DEF Tables
    <2>3. t.status = back[held].status /\ t.url = u /\ t.name = n
      BY <1>1 DEF Tables, SlotRec
    <2> HIDE DEF e, t
    <2>4. Grown(liens, liens')
      BY <2>1, RecordGrows
    <2>5. KnownIn(liens', n)
      <3>1. Len(liens) + 1 \in DOMAIN liens' /\ liens'[Len(liens) + 1] = e
        BY <2>1
      <3> QED BY <2>1, <3>1 DEF KnownIn
    <2>6. Named1(t, liens')
      BY <2>3, <2>5 DEF Named1
    <2>7. back'[held] = t /\ \A s \in Slots \ {held} : back'[s] = back[s]
      BY <1>1, <2>2 DEF Tables
    <2> QED BY <1>1, <2>3, <2>4, <2>6, <2>7, TableStep DEF JInv, Guarded, Live
  <1>3. CASE back' = [back EXCEPT ![held].locked = "no"] /\ liens' = liens
    <2> DEFINE t == [back[held] EXCEPT !.locked = "no"]
    <2>1. back' = [back EXCEPT ![held] = t]
      BY <1>1, <1>3 DEF Tables
    <2>2. t.status = back[held].status /\ t.url = back[held].url /\ t.name = back[held].name
      BY <1>1 DEF Tables, SlotRec
    <2> HIDE DEF t
    <2>3. \A s \in Slots : /\ back'[s].status = back[s].status /\ back'[s].url = back[s].url
                           /\ back'[s].name = back[s].name
      BY <1>1, <2>1, <2>2 DEF Tables
    <2>4. Grown(liens, liens')
      BY <1>3 DEF Grown
    <2> QED BY <1>1, <2>3, <2>4, TableStep DEF JInv, Live
  <1> QED BY <1>2, <1>3 DEF Named

LEMMA StepApart == JInv /\ [Next]_vars => JInv'
  <1> SUFFICES ASSUME JInv, [Next]_vars PROVE UInv(back, ready, liens)'
    BY StepInv DEF JInv
  <1>1. CASE Pump
    BY <1>1, PumpFewer DEF JInv, IInv, Types
  <1>2. CASE UNCHANGED <<back, ready, liens>>
    BY <1>2, SameApart DEF JInv
  <1>3. CASE Fetch
    BY <1>1, <1>2, <1>3, WakingApart, AskingApart, ConsumeApart
    DEF Fetch, Top, Advance, Plugged, Receive, KeepBack
  <1>4. CASE Prefetch
    BY <1>2, <1>4, AskingApart DEF Prefetch, FillStart, FillEnd, KeepBack, queue
  <1>5. CASE Parse
    BY <1>1, <1>2, <1>5, RecordApart
    DEF Parse, ParsePump, ParseKnown, ParseDelayed, ParseEnd, KeepBack, queue
  <1>6. CASE Typing
    BY <1>1, <1>2, <1>6, TypeAddApart, HeldApart, NamedApart
    DEF Typing, SocketWait, TypeRecorded, TypePump, TypeAgain, NamePump, KeepBack, queue
  <1>7. CASE Stop \/ UNCHANGED vars
    BY <1>2, <1>7 DEF Stop, vars, KeepBack, queue
  <1> QED BY <1>3, <1>4, <1>5, <1>6, <1>7 DEF Next, Work, Finished

\* A URL has one transfer at a time, in a slot or swapped to disk: back_add(),
\* back_clean(), back_cleanup_background() and back_index_ready() never make a second,
\* in either order of passes.
THEOREM OneTransferEach == Spec => []OneTransfer
  <1>1. JInv => OneTransfer
    BY DEF JInv, UInv, Apart, Live, OneTransfer
  <1> QED BY <1>1, InitApart, StepApart, PTL DEF Spec

-----------------------------------------------------------------------------
(* When pages and files are taken in one pass, no URL is asked for again once *)
(* its answer is there.  The links of one local name are taken one after the  *)
(* other; the ones a redirect to an alias adds come to an end when the rank   *)
(* of a URL falls along its redirects.                                        *)

\* The redirects between the aliases of one local name come to an end.
AliasesEnd(Rank) ==
    /\ Rank \in [Url -> Nat]
    /\ \A u \in Url : "moved" \in Answers[u] /\ NameOf[Target[u]] = NameOf[u] =>
          Rank[Target[u]] < Rank[u]

\* The steps between the choice of a link and the use of its answer.
Untaken ==
    \/ pc \in {"top", "plug", "plugged", "want", "wantFill", "plug2", "plugged2", "look",
               "look2", "look2Fill", "look3", "receive", "consume"}
    \/ pc = "fill" /\ ret \in {"plug2", "look3"}

\* Of the links of one name, all but the last were handled.
InTurn(Rank, h, k) ==
    \A i, j \in DOMAIN h : i < j /\ h[i].name = h[j].name =>
        i \in k /\ Rank[h[j].url] <= Rank[h[i].url]

\* An answer that is there has its link, and no link that is still to come.
Told(h, k, g) ==
    \A u \in g : /\ \E i \in DOMAIN h : h[i].url = u
                 /\ \A i \in DOMAIN h : h[i].url = u => i \in k \/ h[i].pass2 = -1

\* A transfer is for a link still to come, and for no answer that is there.
Awaited(t, h, k) == \E i \in DOMAIN h \ k : h[i].url = t.url
Fine(t, h, k, g) ==
    /\ t.res \in Answers[t.url] \cup {"none", "stopped"}
    /\ t.url \notin g
    /\ t.name \in Name => Awaited(t, h, k)
    /\ t.name \notin Name => t.early
Followed(b, r, h, k, g) ==
    /\ \A s \in Slots : Live(b[s]) => Fine(b[s], h, k, g)
    /\ \A n \in Name : r[n].state = "swapped" => Fine(r[n].slot, h, k, g)

OnePass(h) == \A i \in DOMAIN h : h[i].pass2 = 0 \/ h[i].pass2 = -1

Tally(Rank, b, r, h, k, g) ==
    OnePass(h) /\ InTurn(Rank, h, k) /\ Told(h, k, g) /\ Followed(b, r, h, k, g)

TallyNow(Rank) == Tally(Rank, back, ready, liens, handled, got) /\ pass = 0 /\ wasted = {}

Passed ==
    /\ handled \subseteq DOMAIN liens /\ \A i \in handled : i <= ptr
    /\ Untaken => ptr \notin handled
    /\ pc = "fill" => cur > ptr

Unknown == Watched => ~KnownIn(liens, NameOf[Head(todo)])

HeldHere == pc = "consume" => held \in Slots /\ Live(back[held]) /\ back[held].url = Here.url

Once(Rank) == TallyNow(Rank) /\ Passed /\ Unknown /\ HeldHere

LEMMA InitOnce == ASSUME NEW Rank, Init PROVE Once(Rank)
  <1>1. \A s \in Slots : ~Live(back[s])
    BY FreeTyped DEF Init, Live
  <1>2. \A n \in Name : ready[n].state # "swapped"
    BY DEF Init, NotStored
  <1>3. DOMAIN liens = {1} /\ liens[1].url = Home /\ liens[1].pass2 = 0
    BY DEF Init
  <1>4. pass = 0 /\ wasted = {} /\ got = {Home} /\ handled = {1} /\ ptr = 1 /\ pc = "parse"
    BY DEF Init
  <1>5. Tally(Rank, back, ready, liens, handled, got)
    BY <1>1, <1>2, <1>3, <1>4 DEF Tally, OnePass, InTurn, Told, Followed
  <1>6. Passed /\ Unknown /\ HeldHere
    BY <1>3, <1>4 DEF Passed, Untaken, Unknown, Watched, Watching, HeldHere
  <1> QED BY <1>4, <1>5, <1>6 DEF Once, TallyNow

\* Two links still to come do not have the same name.
LEMMA OneToCome ==
    ASSUME NEW Rank, Tables, NEW k, InTurn(Rank, liens, k),
           NEW i \in DOMAIN liens \ k, NEW j \in DOMAIN liens \ k,
           liens[i].name = liens[j].name
    PROVE  i = j
  <1>1. i \in Nat /\ j \in Nat
    BY LiensFacts
  <1> QED BY <1>1 DEF InTurn

\* So two transfers do not either.
LEMMA OneOfName ==
    ASSUME NEW Rank, Tables, UInv(back, ready, liens), InTurn(Rank, liens, handled),
           NEW t, NEW v, Awaited(t, liens, handled), Awaited(v, liens, handled),
           NameOf[t.url] = NameOf[v.url]
    PROVE  t.url = v.url
  <1>1. PICK i \in DOMAIN liens \ handled : liens[i].url = t.url
    BY DEF Awaited
  <1>2. PICK j \in DOMAIN liens \ handled : liens[j].url = v.url
    BY DEF Awaited
  <1>3. liens[i].name = liens[j].name
    BY <1>1, <1>2 DEF UInv, Labelled
  <1>4. i = j
    BY <1>3, OneToCome
  <1> QED BY <1>1, <1>2, <1>4

-----------------------------------------------------------------------------
(* Cleaning                                                                 *)

\* A transfer that is saved has its name, and the last link of that name is done.
LEMMA SavedFacts ==
    ASSUME Tables, UInv(back, ready, liens), Followed(back, ready, liens, handled, got),
           NEW s \in Slots, Saved(s)
    PROVE  /\ Live(back[s]) /\ back[s].name = NameOf[back[s].url] /\ back[s].name \in Name
           /\ Known(back[s].name)
           /\ Awaited(back[s], liens, handled)
           /\ LET m == Max(Recorded(back[s].name))
              IN /\ m \in DOMAIN liens /\ MarkedLinks[m].pass2 = -1
                 /\ \A i \in DOMAIN liens : liens[i].name = back[s].name => i <= m
  <1>1. Live(back[s]) /\ back[s] \in SlotRec
    BY DEF Saved, Live, Tables
  <1>2. Fine(back[s], liens, handled, got) /\ Named1(back[s], liens)
    BY <1>1 DEF Followed, UInv, Labelled
  <1>3. \A i \in DOMAIN liens : liens[i].name \in Name
    BY LiensFacts DEF Item
  <1>4. back[s].name \in Name
    <2> SUFFICES ASSUME back[s].name \notin Name PROVE FALSE
      OBVIOUS
    <2>1. back[s].early
      BY <1>2 DEF Fine
    <2>2. Known(back[s].name)
      BY <2>1 DEF Saved
    <2> QED BY <1>3, <2>2 DEF Known, Recorded
  <1>5. back[s].name = NameOf[back[s].url] /\ Known(back[s].name)
    BY <1>1, <1>2, <1>4 DEF Named1, KnownIn, Known, Recorded
  <1> DEFINE R == Recorded(back[s].name)
             m == Max(R)
  <1>6. R \in SUBSET (1 .. Len(liens)) /\ Len(liens) \in Nat /\ R # {}
    BY <1>5, LiensFacts DEF Recorded, Known
  <1>7. m \in R /\ \A j \in R : m >= j
    BY <1>6, MaxIn
  <1>8. m \in DOMAIN liens
    BY <1>7 DEF Recorded
  <1>9. \A i \in DOMAIN liens : liens[i].name = back[s].name => i <= m
    <2> SUFFICES ASSUME NEW i \in DOMAIN liens, liens[i].name = back[s].name PROVE i <= m
      OBVIOUS
    <2>1. i \in R
      BY DEF Recorded
    <2>2. i \in Nat /\ m \in Nat
      BY <1>6, <1>7, <2>1
    <2> HIDE DEF R, m
    <2> QED BY <1>7, <2>1, <2>2
  <1> HIDE DEF m, R
  <1>10. MarkedLinks[m] = [liens[m] EXCEPT !.pass2 = -1]
    BY <1>5, <1>8 DEF MarkedLinks, m, R
  <1>11. MarkedLinks[m].pass2 = -1
    <2>1. \A n \in Int : [liens[m] EXCEPT !.pass2 = n].pass2 = n
      BY <1>8, LiensFacts DEF Item
    <2>2. -1 \in Int
      OBVIOUS
    <2>3. [liens[m] EXCEPT !.pass2 = -1].pass2 = -1
      BY <2>1, <2>2
    <2> QED BY <1>10, <2>3
  <1> QED BY <1>1, <1>2, <1>4, <1>5, <1>8, <1>9, <1>11 DEF Fine, m, R

\* Cleaning changes no link but by marking it done.
LEMMA MarkedFacts ==
    ASSUME Tables
    PROVE  /\ DOMAIN MarkedLinks = DOMAIN liens
           /\ \A i \in DOMAIN liens :
                 /\ MarkedLinks[i].url = liens[i].url /\ MarkedLinks[i].name = liens[i].name
                 /\ MarkedLinks[i].pass2 = -1 \/ MarkedLinks[i].pass2 = liens[i].pass2
  <1>1. DOMAIN MarkedLinks = DOMAIN liens
    BY DEF MarkedLinks
  <1>2. \A i \in DOMAIN liens, n \in Int :
          /\ [liens[i] EXCEPT !.pass2 = n].url = liens[i].url
          /\ [liens[i] EXCEPT !.pass2 = n].name = liens[i].name
          /\ [liens[i] EXCEPT !.pass2 = n].pass2 = n
    BY LiensFacts DEF Item
  <1>3. -1 \in Int
    OBVIOUS
  <1>4. \A i \in DOMAIN liens :
          /\ [liens[i] EXCEPT !.pass2 = -1].url = liens[i].url
          /\ [liens[i] EXCEPT !.pass2 = -1].name = liens[i].name
          /\ [liens[i] EXCEPT !.pass2 = -1].pass2 = -1
    BY <1>2, <1>3
  <1>5. \A i \in DOMAIN liens :
          MarkedLinks[i] = liens[i] \/ MarkedLinks[i] = [liens[i] EXCEPT !.pass2 = -1]
    BY DEF MarkedLinks
  <1> QED BY <1>1, <1>4, <1>5

\* What is swapped is what was, or a slot that is not saved.
LEMMA SwappedFrom ==
    ASSUME Tables, NEW kept, NEW n \in Name, CleanedReady(kept)[n].state = "swapped"
    PROVE  \/ CleanedReady(kept)[n] = ready[n]
           \/ \E s \in Slots : /\ Live(back[s]) /\ ~Saved(s) /\ back[s].name = n
                               /\ CleanedReady(kept)[n].slot = back[s]
  <1> DEFINE here == {s \in Swapped(kept) : back[s].name = n}
  <1>1. CASE here = {}
    BY <1>1 DEF CleanedReady
  <1>2. CASE here # {}
    <2>1. CleanedReady(kept)[n].slot = back[Max(here)]
      BY <1>2 DEF CleanedReady
    <2>2. here \in SUBSET (1 .. MaxSlots)
      BY DEF Swapped, Slots
    <2>3. Max(here) \in here
      BY <1>2, <2>2, MaxIn, SlotsAssumption
    <2>4. PICK s \in Swapped(kept) : back[s].name = n /\ s = Max(here)
      BY <2>3
    <2> QED BY <2>1, <2>4 DEF Swapped, Swappable, Live
  <1> QED BY <1>1, <1>2

\* back_clean() keeps the tally: what it saves was awaited once, and what it swaps
\* takes the place of nothing.
LEMMA CleanTally ==
    ASSUME NEW Rank, Tables, UInv(back, ready, liens),
           Tally(Rank, back, ready, liens, handled, got), NEW kept
    PROVE  /\ Tally(Rank, CleanedBack(kept), CleanedReady(kept), MarkedLinks, handled,
                    got \cup CleanGot)
           /\ CleanWasted(kept) = {}
           /\ \A s \in Slots : Live(back[s]) /\ ~Saved(s) => back[s].url \notin CleanGot
           /\ \A n \in Name : ready[n].state = "swapped" =>
                 ready[n].slot.url \notin CleanGot
  <1> DEFINE b == CleanedBack(kept)
             r == CleanedReady(kept)
             h == MarkedLinks
             g == got \cup CleanGot
  <1>0. Followed(back, ready, liens, handled, got) /\ InTurn(Rank, liens, handled)
        /\ Told(liens, handled, got) /\ OnePass(liens)
    BY DEF Tally
  <1>1. /\ DOMAIN h = DOMAIN liens
        /\ \A i \in DOMAIN liens : /\ h[i].url = liens[i].url /\ h[i].name = liens[i].name
                                   /\ h[i].pass2 = -1 \/ h[i].pass2 = liens[i].pass2
    BY MarkedFacts
  <1>2. \A u \in CleanGot : \E s \in Slots : Saved(s) /\ back[s].url = u
    BY DEF CleanGot
  <1>3. \A s \in Slots : Live(back[s]) /\ ~Saved(s) => back[s].url \notin CleanGot
    <2> SUFFICES ASSUME NEW s \in Slots, Live(back[s]), ~Saved(s), back[s].url \in CleanGot
                 PROVE  FALSE
      OBVIOUS
    <2>1. PICK t \in Slots : Saved(t) /\ back[t].url = back[s].url
      BY <1>2
    <2>2. Live(back[t])
      BY <2>1 DEF Saved, Live
    <2>3. s = t
      BY <2>1, <2>2 DEF UInv, Apart
    <2> QED BY <2>1, <2>3
  <1>4. \A n \in Name : ready[n].state = "swapped" => ready[n].slot.url \notin CleanGot
    <2> SUFFICES ASSUME NEW n \in Name, ready[n].state = "swapped",
                        ready[n].slot.url \in CleanGot
                 PROVE  FALSE
      OBVIOUS
    <2>1. PICK t \in Slots : Saved(t) /\ back[t].url = ready[n].slot.url
      BY <1>2
    <2>2. Live(back[t])
      BY <2>1 DEF Saved, Live
    <2> QED BY <2>1, <2>2 DEF UInv, Apart
  <1>5. \A t : Fine(t, liens, handled, got) /\ t.url \notin CleanGot => Fine(t, h, handled, g)
    BY <1>1 DEF Fine, Awaited
  <1>6. Followed(b, r, h, handled, g)
    <2>1. ASSUME NEW s \in Slots, Live(b[s]) PROVE Fine(b[s], h, handled, g)
      <3>1. b[s] = back[s] /\ ~Saved(s)
        BY <2>1, FreeTyped DEF CleanedBack, Live
      <3>2. Fine(back[s], liens, handled, got)
        BY <1>0, <2>1, <3>1 DEF Followed
      <3> QED BY <1>3, <1>5, <2>1, <3>1, <3>2
    <2>2. ASSUME NEW n \in Name, r[n].state = "swapped" PROVE Fine(r[n].slot, h, handled, g)
      <3>1. CASE r[n] = ready[n]
        BY <1>0, <1>4, <1>5, <2>2, <3>1 DEF Followed
      <3>2. CASE \E s \in Slots : Live(back[s]) /\ ~Saved(s) /\ r[n].slot = back[s]
        BY <1>0, <1>3, <1>5, <3>2 DEF Followed
      <3> QED BY <2>2, <3>1, <3>2, SwappedFrom
    <2> QED BY <2>1, <2>2 DEF Followed
  <1>7. Told(h, handled, g)
    <2>1. ASSUME NEW u \in got
          PROVE  /\ \E i \in DOMAIN h : h[i].url = u
                 /\ \A i \in DOMAIN h : h[i].url = u => i \in handled \/ h[i].pass2 = -1
      BY <1>0, <1>1 DEF Told
    <2>2. ASSUME NEW u \in CleanGot
          PROVE  /\ \E i \in DOMAIN h : h[i].url = u
                 /\ \A i \in DOMAIN h : h[i].url = u => i \in handled \/ h[i].pass2 = -1
      <3>1. PICK s \in Slots : Saved(s) /\ back[s].url = u
        BY <1>2
      <3> DEFINE m == Max(Recorded(back[s].name))
      <3>2. /\ back[s].name = NameOf[u] /\ Awaited(back[s], liens, handled)
            /\ m \in DOMAIN liens /\ h[m].pass2 = -1
            /\ \A i \in DOMAIN liens : liens[i].name = back[s].name => i <= m
        BY <1>0, <3>1, SavedFacts
      <3>3. \E i \in DOMAIN h : h[i].url = u
        BY <1>1, <3>1, <3>2 DEF Awaited
      <3>4. PICK j \in DOMAIN liens \ handled : liens[j].url = u
        BY <3>1, <3>2 DEF Awaited
      <3>5. \A i \in DOMAIN liens : liens[i].url = u => liens[i].name = back[s].name
        BY <3>2 DEF UInv, Labelled
      <3> HIDE DEF m
      <3>6. m = j
        <4>1. j <= m /\ j \in Nat /\ m \in Nat
          BY <3>2, <3>4, <3>5, LiensFacts
        <4>2. liens[m].name = back[s].name
          <5>1. Recorded(back[s].name) \in SUBSET (1 .. Len(liens)) /\ Len(liens) \in Nat
            BY LiensFacts DEF Recorded
          <5>2. Recorded(back[s].name) # {}
            BY <3>4, <3>5 DEF Recorded
          <5>3. m \in Recorded(back[s].name)
            BY <5>1, <5>2, MaxIn DEF m
          <5> QED BY <5>3 DEF Recorded
        <4>3. j < m => j \in handled
          BY <1>0, <3>2, <3>4, <3>5, <4>2 DEF InTurn
        <4> QED BY <3>4, <4>1, <4>3
      <3>7. \A i \in DOMAIN liens : liens[i].url = u => i \in handled \/ i = m
        <4> SUFFICES ASSUME NEW i \in DOMAIN liens \ handled, liens[i].url = u PROVE i = m
          OBVIOUS
        <4>1. liens[i].name = liens[j].name
          BY <3>4, <3>5
        <4> QED BY <1>0, <3>6, <4>1, OneToCome
      <3> QED BY <1>1, <3>2, <3>3, <3>7
    <2> QED BY <2>1, <2>2 DEF Told
  <1>8. InTurn(Rank, h, handled) /\ OnePass(h)
    BY <1>0, <1>1 DEF InTurn, OnePass
  <1>9. CleanWasted(kept) = {}
    <2>1. \A s \in Swapped(kept) : s \in Slots /\ Live(back[s])
      BY DEF Swapped, Swappable, Live
    <2>2. ASSUME NEW s \in Swapped(kept), back[s].name \in Name,
                 ready[back[s].name].state = "swapped"
          PROVE  FALSE
      <3> DEFINE t == ready[back[s].name].slot
      <3>1. t.name = back[s].name /\ Live(t) /\ Named1(t, liens) /\ Named1(back[s], liens)
        BY <2>1, <2>2 DEF UInv, Labelled
      <3>2. Awaited(t, liens, handled) /\ Awaited(back[s], liens, handled)
        BY <1>0, <2>1, <2>2, <3>1 DEF Followed, Fine
      <3>3. NameOf[t.url] = NameOf[back[s].url]
        BY <2>1, <2>2, <3>1 DEF Named1
      <3>4. back[s].url # t.url
        BY <2>1, <2>2 DEF UInv, Apart
      <3> HIDE DEF t
      <3> QED BY <1>0, <3>2, <3>3, <3>4, OneOfName
    <2>3. ASSUME NEW s \in Swapped(kept), NEW t \in Swapped(kept) \ {s},
                 back[s].name = back[t].name, back[s].name \in Name
          PROVE  FALSE
      <3>1. Named1(back[s], liens) /\ Named1(back[t], liens)
        BY <2>1 DEF UInv, Labelled
      <3>2. Awaited(back[s], liens, handled) /\ Awaited(back[t], liens, handled)
        BY <1>0, <2>1, <2>3 DEF Followed, Fine
      <3>3. NameOf[back[s].url] = NameOf[back[t].url]
        BY <2>1, <2>3, <3>1 DEF Named1
      <3>4. back[s].url # back[t].url
        BY <2>1 DEF UInv, Apart
      <3> QED BY <1>0, <3>2, <3>3, <3>4, OneOfName
    <2> QED BY <2>2, <2>3 DEF CleanWasted
  <1> QED BY <1>3, <1>4, <1>6, <1>7, <1>8, <1>9 DEF Tally

\* A pump: what the network finishes has an answer of its URL.
LEMMA PumpTally ==
    ASSUME NEW Rank, Tables, UInv(back, ready, liens), Pump,
           Tally(Rank, back, ready, liens, handled, got), handled' = handled
    PROVE  Tally(Rank, back, ready, liens, handled, got)' /\ wasted' = wasted
  <1>1. PICK finished \in SUBSET Busy(back) : PumpWith(finished)
    BY DEF Pump
  <1>2. PICK kept \in SUBSET Swapped({}) :
          /\ Clean(kept) /\ got' = got \cup CleanGot
          /\ wasted' = wasted \cup CleanWasted(kept)
          /\ \E res \in [finished -> Results \cup {"stopped"}] :
                /\ \A s \in finished : res[s] \in Outcome(back[s])
                /\ back' = [s \in Slots |->
                   IF s \in finished
                     THEN [back[s] EXCEPT !.status = "ready", !.res = res[s]]
                     ELSE CleanedBack(kept)[s]]
    BY <1>1 DEF PumpWith
  <1>3. PICK res \in [finished -> Results \cup {"stopped"}] :
                /\ \A s \in finished : res[s] \in Outcome(back[s])
                /\ back' = [s \in Slots |->
                   IF s \in finished
                     THEN [back[s] EXCEPT !.status = "ready", !.res = res[s]]
                     ELSE CleanedBack(kept)[s]]
    BY <1>2
  <1>4. /\ Tally(Rank, CleanedBack(kept), CleanedReady(kept), MarkedLinks, handled,
                 got \cup CleanGot)
        /\ CleanWasted(kept) = {}
    BY CleanTally
  <1>5. ready' = CleanedReady(kept) /\ liens' = MarkedLinks
    BY <1>2 DEF Clean
  <1>6. Tally(Rank, CleanedBack(kept), ready', liens', handled', got')
    BY <1>2, <1>4, <1>5
  <1>7. ASSUME NEW s \in finished PROVE Fine(back'[s], liens', handled', got')
    <2>1. s \in Slots /\ back[s].status = "busy" /\ back[s] \in SlotRec
      BY DEF Busy, Tables
    <2>2. CleanedBack(kept)[s] = back[s] /\ Live(back[s])
      BY <2>1 DEF CleanedBack, Saved, Swapped, Swappable, Live
    <2>3. Fine(back[s], liens', handled', got')
      BY <1>6, <2>1, <2>2 DEF Tally, Followed
    <2> DEFINE t == [back[s] EXCEPT !.status = "ready", !.res = res[s]]
    <2>4. back'[s] = t
      BY <1>3, <2>1
    <2>5. /\ t.url = back[s].url /\ t.name = back[s].name /\ t.early = back[s].early
          /\ t.res = res[s]
      BY <2>1 DEF SlotRec
    <2>6. res[s] \in Outcome(back[s])
      BY <1>3
    <2>7. res[s] \in Answers[back[s].url] \cup {"none", "stopped"}
      BY <2>3, <2>6 DEF Outcome, Fine
    <2> HIDE DEF t
    <2> QED BY <2>3, <2>4, <2>5, <2>7 DEF Fine, Awaited
  <1>8. ASSUME NEW s \in Slots, Live(back'[s]) PROVE Fine(back'[s], liens', handled', got')
    <2>1. CASE s \in finished
      BY <1>7, <2>1
    <2>2. CASE s \notin finished
      <3>1. back'[s] = CleanedBack(kept)[s]
        BY <1>3, <2>2
      <3> QED BY <1>6, <1>8, <3>1 DEF Tally, Followed
    <2> QED BY <2>1, <2>2
  <1>9. Followed(back', ready', liens', handled', got')
    BY <1>6, <1>8 DEF Tally, Followed
  <1>10. OnePass(liens') /\ InTurn(Rank, liens', handled') /\ Told(liens', handled', got')
    BY <1>6 DEF Tally
  <1>11. Tally(Rank, back, ready, liens, handled, got)'
    BY <1>9, <1>10 DEF Tally
  <1> QED BY <1>2, <1>4, <1>11

\* A slot that is asked for has no answer yet, or one of its URL.
LEMMA AskedHonest ==
    ASSUME NEW slot \in SlotRec, slot.res = "none", NEW asked \in Asked(slot)
    PROVE  /\ asked.early = slot.early
           /\ asked.res \in Answers[slot.url] \cup {"none", "stopped"}
  <1>1. [slot EXCEPT !.status = "busy"].res = "none"
        /\ [slot EXCEPT !.status = "busy"].early = slot.early
    BY DEF SlotRec
  <1>2. \A r : LET t == [slot EXCEPT !.status = "ready", !.res = r]
               IN t.res = r /\ t.early = slot.early
    BY DEF SlotRec
  <1>3. CASE stopped
    <2> DEFINE t == [slot EXCEPT !.status = "ready", !.res = "stopped"]
    <2>1. asked = t
      BY <1>3 DEF Asked
    <2>2. t.res = "stopped" /\ t.early = slot.early
      BY <1>2
    <2> HIDE DEF t
    <2> QED BY <2>1, <2>2
  <1>4. CASE ~stopped
    <2> DEFINE f(a) == [slot EXCEPT !.status = "ready", !.res = a]
    <2>1. asked \in {[slot EXCEPT !.status = "busy"]} \cup
            {f(a) : a \in Answers[slot.url] \ {"again"}}
      BY <1>4 DEF Asked
    <2>2. \A r : f(r).res = r /\ f(r).early = slot.early
      BY <1>2
    <2> HIDE DEF f
    <2>3. CASE asked = [slot EXCEPT !.status = "busy"]
      BY <1>1, <2>3
    <2>4. CASE \E r \in Answers[slot.url] : asked = f(r)
      BY <2>2, <2>4
    <2>5. asked = [slot EXCEPT !.status = "busy"] \/ \E r \in Answers[slot.url] : asked = f(r)
      BY <2>1
    <2> QED BY <2>3, <2>4, <2>5
  <1> QED BY <1>3, <1>4

\* back_add() for a URL without an answer: it has no transfer, or it is the one whose
\* type is unknown.
LEMMA AddTally ==
    ASSUME NEW Rank, Tables, UInv(back, ready, liens), NEW slot \in SlotRec, Add(slot),
           Tally(Rank, back, ready, liens, handled, got), handled' = handled,
           slot.res = "none", slot.url \notin got,
           \/ /\ SlotsOf(back, slot.url) = {} /\ slot.name \in Name
              /\ Awaited(slot, liens, handled)
           \/ slot.name \notin Name /\ slot.early /\ ~KnownIn(liens, NameOf[slot.url])
    PROVE  Tally(Rank, back, ready, liens, handled, got)' /\ wasted' = wasted
  <1>1. PICK kept \in SUBSET Swapped({}) :
          /\ Clean(kept) /\ back' \in Placed(CleanedBack(kept), slot)
          /\ got' = got \cup CleanGot
          /\ wasted' = wasted \cup CleanWasted(kept)
    BY DEF Add
  <1> DEFINE b == CleanedBack(kept)
             mine == SlotsOf(b, slot.url)
  <1>2. /\ Tally(Rank, b, CleanedReady(kept), MarkedLinks, handled, got \cup CleanGot)
        /\ CleanWasted(kept) = {}
    BY CleanTally
  <1>3. Tally(Rank, b, ready', liens', handled', got')
    BY <1>1, <1>2 DEF Clean
  <1>4. Followed(b, ready', liens', handled', got')
    BY <1>3 DEF Tally
  <1>5. slot.url \notin got'
    <2> SUFFICES ASSUME slot.url \in CleanGot PROVE FALSE
      BY <1>1
    <2>1. PICK s \in Slots : Saved(s) /\ back[s].url = slot.url
      BY DEF CleanGot
    <2>2. /\ Live(back[s]) /\ back[s].name = NameOf[slot.url] /\ Known(back[s].name)
      BY <2>1, SavedFacts DEF Tally
    <2>3. SlotsOf(back, slot.url) # {} /\ KnownIn(liens, NameOf[slot.url])
      BY <2>1, <2>2 DEF SlotsOf, Live, Known, Recorded, KnownIn
    <2> QED BY <2>3
  <1>6. b \in [Slots -> SlotRec]
    BY CleanFacts
  <1>7. CASE mine # {}
    <2> DEFINE m == Min(mine)
    <2>1. m \in Slots /\ b[m].status # "free" /\ b[m].url = slot.url
      BY <1>7, SlotSets
    <2>2. back' = [b EXCEPT ![m] = [b[m] EXCEPT !.early = slot.early, !.locked = slot.locked]]
      BY <1>1, <1>6, <1>7, <2>1 DEF Placed
    <2>3. LET t == [b[m] EXCEPT !.early = slot.early, !.locked = slot.locked]
          IN t.status = b[m].status /\ t.url = b[m].url /\ t.name = b[m].name
             /\ t.res = b[m].res /\ t.early = slot.early
      BY <1>6, <2>1 DEF SlotRec
    <2>4. b[m] = back[m]
      BY <2>1, CleanFacts, FreeTyped
    <2>5. SlotsOf(back, slot.url) # {}
      BY <2>1, <2>4 DEF SlotsOf
    <2> HIDE DEF b, m
    <2>6. Fine(b[m], liens', handled', got')
      BY <1>4, <2>1 DEF Followed, Live
    <2>7. Fine(back'[m], liens', handled', got')
      BY <1>6, <2>1, <2>2, <2>3, <2>5, <2>6 DEF Fine, Awaited
    <2>8. \A s \in Slots \ {m} : back'[s] = b[s]
      BY <1>6, <2>2
    <2>9. Followed(back', ready', liens', handled', got')
      BY <1>4, <2>7, <2>8 DEF Followed
    <2> QED BY <1>1, <1>2, <1>3, <2>9 DEF Tally
  <1>8. CASE mine = {} /\ Free(b) = {}
    BY <1>1, <1>2, <1>3, <1>8 DEF Placed
  <1>9. CASE mine = {} /\ Free(b) # {}
    <2> DEFINE m == Min(Free(b))
    <2>1. m \in Slots
      BY <1>9, SlotSets
    <2>2. PICK asked \in Asked(slot) : back' = [b EXCEPT ![m] = asked]
      BY <1>1, <1>9 DEF Placed
    <2>3. /\ asked.url = slot.url /\ asked.name = slot.name /\ asked.early = slot.early
          /\ asked.res \in Answers[slot.url] \cup {"none", "stopped"}
      BY <2>2, AskedTyped, AskedHonest
    <2>4. Awaited(slot, liens, handled) => Awaited(slot, liens', handled')
      BY <1>1, MarkedFacts DEF Awaited, Clean
    <2>5. Fine(asked, liens', handled', got')
      BY <1>5, <2>3, <2>4 DEF Fine, Awaited
    <2> HIDE DEF b, m
    <2>6. back'[m] = asked /\ \A s \in Slots \ {m} : back'[s] = b[s]
      BY <1>6, <2>1, <2>2
    <2>7. Followed(back', ready', liens', handled', got')
      BY <1>4, <2>5, <2>6 DEF Followed
    <2> QED BY <1>1, <1>2, <1>3, <2>7 DEF Tally
  <1> QED BY <1>7, <1>8, <1>9

\* back_index_ready(): the transfer that comes back is one that was followed.
LEMMA WakeTally ==
    ASSUME NEW Rank, Tables, UInv(back, ready, liens),
           Tally(Rank, back, ready, liens, handled, got),
           NEW n \in Name, ready[n].state = "swapped",
           NEW found, NEW lost, Wake(n, found, lost),
           UNCHANGED <<liens, handled, got>>
    PROVE  Tally(Rank, back, ready, liens, handled, got)'
  <1> DEFINE t == [ready[n].slot EXCEPT !.locked = "locked"]
             s == Min(Free(back))
  <1>0. Followed(back, ready, liens, handled, got) /\ ready[n].slot \in SlotRec
    BY DEF Tally, Tables, Stored
  <1>1. /\ t.url = ready[n].slot.url /\ t.name = ready[n].slot.name
        /\ t.early = ready[n].slot.early /\ t.res = ready[n].slot.res
    BY <1>0 DEF SlotRec
  <1>2. Fine(ready[n].slot, liens, handled, got)
    BY <1>0 DEF Followed
  <1> HIDE DEF t
  <1>3. Fine(t, liens, handled, got)
    BY <1>1, <1>2 DEF Fine, Awaited
  <1>4. CASE /\ Free(back) # {}
             /\ back' = [back EXCEPT ![s] = t]
             /\ ready' = [ready EXCEPT ![n] = NotStored]
    <2> HIDE DEF s
    <2>1. \A u \in Slots : back'[u] = t \/ back'[u] = back[u]
      BY <1>4 DEF Tables
    <2>2. /\ \A k \in Name \ {n} : ready'[k] = ready[k]
          /\ ready'[n].state # "swapped"
      BY <1>4 DEF Tables, NotStored
    <2>3. Followed(back', ready', liens, handled, got)
      BY <1>0, <1>3, <2>1, <2>2 DEF Followed
    <2> QED BY <2>3 DEF Tally
  <1>5. CASE ready' = [ready EXCEPT ![n].state = "gone"] /\ back' = back
    <2>1. ready'[n].state = "gone" /\ \A k \in Name \ {n} : ready'[k] = ready[k]
      BY <1>5 DEF Tables, Stored
    <2>2. Followed(back', ready', liens, handled, got)
      BY <1>0, <1>5, <2>1 DEF Followed
    <2> QED BY <2>2 DEF Tally
  <1> QED BY <1>4, <1>5 DEF Wake, t, s

\* It is the one of the link at hand: no other link of its name is still to come.
LEMMA WakeHere ==
    ASSUME NEW Rank, Tables, UInv(back, ready, liens),
           Tally(Rank, back, ready, liens, handled, got),
           ptr \in DOMAIN liens \ handled, Here.name \in Name,
           ready[Here.name].state = "swapped",
           Wake(Here.name, "consume", "advance"), pc' = "consume"
    PROVE  held' \in Slots /\ Live(back'[held']) /\ back'[held'].url = Here.url
  <1> DEFINE n == Here.name
             t == [ready[n].slot EXCEPT !.locked = "locked"]
  <1>1. ready[n].slot \in SlotRec
    BY DEF Tables, Stored
  <1>2. t.url = ready[n].slot.url /\ t.status = ready[n].slot.status
    BY <1>1 DEF SlotRec
  <1>3. /\ Live(ready[n].slot) /\ ready[n].slot.name = n
        /\ n = NameOf[ready[n].slot.url]
    BY DEF UInv, Labelled, Named1
  <1>4. Awaited(ready[n].slot, liens, handled)
    BY <1>3 DEF Tally, Followed, Fine
  <1>5. PICK i \in DOMAIN liens \ handled : liens[i].url = ready[n].slot.url
    BY <1>4 DEF Awaited
  <1>6. liens[i].name = liens[ptr].name
    BY <1>3, <1>5 DEF UInv, Labelled, Here, At
  <1>7. i = ptr
    BY <1>6, OneToCome DEF Tally
  <1>8. t.url = Here.url /\ Live(t)
    BY <1>2, <1>3, <1>5, <1>7 DEF Here, At, Live
  <1> HIDE DEF t
  <1>9. /\ Free(back) # {} /\ held' = Min(Free(back))
        /\ back' = [back EXCEPT ![Min(Free(back))] = t]
    BY DEF Wake, Step, t
  <1>10. Min(Free(back)) \in Slots
    BY <1>9, SlotSets
  <1> QED BY <1>8, <1>9, <1>10 DEF Tables

LEMMA IndexIn ==
    ASSUME NEW b, NEW u, NEW n, SlotsOf(b, u) # {}
    PROVE  IndexOf(b, u, n) \in SlotsOf(b, u)
  <1> DEFINE named == {s \in SlotsOf(b, u) \ {Min(SlotsOf(b, u))} : b[s].name = n}
  <1>1. SlotsOf(b, u) \in SUBSET Nat /\ named \in SUBSET SlotsOf(b, u)
    BY SlotSets DEF SlotsOf
  <1>2. Min(SlotsOf(b, u)) \in SlotsOf(b, u)
    BY <1>1, MinIn
  <1>3. named # {} => Min(named) \in named
    <2> HIDE DEF named
    <2>1. named \in SUBSET Nat
      BY <1>1
    <2> QED BY <2>1, MinIn
  <1>4. IndexOf(b, u, n) = IF named # {} THEN Min(named) ELSE Min(SlotsOf(b, u))
    BY DEF IndexOf
  <1> HIDE DEF named
  <1> QED BY <1>1, <1>2, <1>3, <1>4

\* Cleaning changes no name of the heap.
LEMMA SameNames ==
    ASSUME Tables, liens' = MarkedLinks
    PROVE  /\ DOMAIN liens' = DOMAIN liens
           /\ \A n : KnownIn(liens', n) <=> KnownIn(liens, n)
  BY MarkedFacts DEF KnownIn

\* What is recorded comes after the links of its name, which were all handled.
LEMMA AppendTally ==
    ASSUME NEW Rank, NEW b, NEW r, NEW h \in Seq(Item), NEW k, NEW g,
           Tally(Rank, b, r, h, k, g), NEW e \in Item, e.pass2 = 0, e.url \notin g,
           \A i \in DOMAIN h : h[i].name = e.name => i \in k /\ Rank[e.url] <= Rank[h[i].url]
    PROVE  Tally(Rank, b, r, Append(h, e), k, g)
  <1> DEFINE h2 == Append(h, e)
             top == Len(h) + 1
  <1>1. Len(h) \in Nat /\ DOMAIN h = 1 .. Len(h)
    BY LenProperties
  <1>2. /\ DOMAIN h2 = DOMAIN h \cup {top}
        /\ \A i \in DOMAIN h : h2[i] = h[i] /\ i < top
        /\ h2[top] = e
    BY <1>1
  <1>3. \A i, j \in DOMAIN h2 : i < j => i \in DOMAIN h
    BY <1>1, <1>2
  <1> HIDE DEF h2, top
  <1>4. OnePass(h2)
    BY <1>2 DEF Tally, OnePass
  <1>5. InTurn(Rank, h2, k)
    BY <1>2, <1>3 DEF Tally, InTurn
  <1>6. Told(h2, k, g)
    BY <1>2 DEF Tally, Told
  <1>7. \A t : Fine(t, h, k, g) => Fine(t, h2, k, g)
    BY <1>2 DEF Fine, Awaited
  <1>8. Followed(b, r, h2, k, g)
    BY <1>7 DEF Tally, Followed
  <1> QED BY <1>4, <1>5, <1>6, <1>8 DEF Tally, h2

-----------------------------------------------------------------------------
(* One lemma per group of actions.                                          *)

\* SkipFacts, and what is skipped lies ahead.
LEMMA SkipAhead ==
    ASSUME NEW p \in Nat \ {0}, NEW skipped, Tot \in Nat
    PROVE  Skip(p, skipped) \in Nat /\ Skip(p, skipped) >= p
  <1> DEFINE top == Max({p, Tot + 1})
             S == ((p .. Tot) \ skipped) \cup {top}
  <1>1. top \in Nat /\ top >= p
    BY MaxPair
  <1>2. S \in SUBSET Nat /\ S # {} /\ \A j \in S : j >= p
    BY <1>1
  <1>3. Min(S) \in S /\ Min(S) \in Nat
    BY <1>2, MinIn
  <1> QED BY <1>2, <1>3 DEF Skip

\* A step that leaves the tables, the heap and the history alone.
LEMMA QuietOnce ==
    ASSUME NEW Rank, Once(Rank),
           UNCHANGED <<back, ready, liens, handled, got, wasted, pass>>,
           Passed', Watched' => Watched /\ todo' = todo, HeldHere'
    PROVE  Once(Rank)'
  <1>1. TallyNow(Rank)'
    BY DEF Once, TallyNow, Tally, OnePass, InTurn, Told, Followed, Fine, Awaited
  <1>2. Unknown'
    BY DEF Once, Unknown, KnownIn
  <1> QED BY <1>1, <1>2 DEF Once

LEMMA LoopOnce ==
    ASSUME NEW Rank, JInv, Once(Rank), ~htmlFirst, Top \/ Advance PROVE Once(Rank)'
  <1>1. /\ UNCHANGED <<back, ready, liens, handled, got, wasted, pass>>
        /\ Tot \in Nat /\ ptr \in Nat \ {0}
    BY LiensFacts DEF Top, Advance, KeepBack, JInv, IInv, Types
  <1>2. pc' \in {"plug", "advance", "done", "top"}
    BY DEF Top, Advance, Step
  <1>3. ptr' >= ptr /\ ptr' \in Nat /\ (Untaken' => ptr' > ptr \/ Untaken)
    <2>1. CASE Top
      <3>1. ptr' = Skip(ptr, Done) /\ Untaken
        BY <2>1 DEF Top, Untaken
      <3> QED BY <1>1, <3>1, SkipAhead
    <2>2. CASE Advance
      BY <1>1, <2>2 DEF Advance, NextLink
    <2> QED BY <2>1, <2>2
  <1>4. Passed'
    <2>1. \A i \in handled : i \in Nat
      BY LiensFacts DEF Once, Passed, JInv, IInv, Types
    <2>2. \A i \in handled : i <= ptr'
      BY <1>1, <1>3, <2>1 DEF Once, Passed
    <2>3. ptr' > ptr => ptr' \notin handled
      BY <1>1, <1>3, <2>1 DEF Once, Passed
    <2>4. ~(ptr' > ptr) => ptr' = ptr
      BY <1>1, <1>3
    <2>5. Untaken' => ptr' \notin handled
      BY <1>3, <2>3, <2>4 DEF Once, Passed
    <2> QED BY <1>1, <1>2, <2>2, <2>5 DEF Once, Passed
  <1>5. ~Watched' /\ HeldHere'
    BY <1>2 DEF Watched, Watching, HeldHere
  <1> QED BY <1>1, <1>4, <1>5, QuietOnce

\* The steps of the prefetch and of the parse that ask for nothing.
LEMMA IdleOnce ==
    ASSUME NEW Rank, JInv, Once(Rank),
           \/ FillStart \/ FillEnd \/ ParseKnown \/ ParseDelayed \/ ParseEnd
           \/ TypeRecorded \/ TypeAgain \/ Stop \/ UNCHANGED vars
    PROVE  Once(Rank)'
  <1>1. UNCHANGED <<back, ready, liens, handled, got, wasted, pass, ptr>>
    BY DEF FillStart, FillEnd, ParseKnown, ParseDelayed, ParseEnd, TypeRecorded, TypeAgain,
       Stop, KeepBack, queue, vars
  <1>2. CASE FillStart
    <2>1. /\ pc \in {"wantFill", "look2Fill", "parseFill", "typedFill"}
          /\ FillReturns["wantFill"] = "plug2" /\ FillReturns["look2Fill"] = "look3"
          /\ FillReturns["parseFill"] = "parse" /\ FillReturns["typedFill"] = "typeTest"
      BY <1>2 DEF FillStart, FillReturns
    <2>2. \/ pc' = FillReturns[pc]
          \/ pc' = "fill" /\ ret' = FillReturns[pc]
      BY <1>2 DEF FillStart, Step
    <2>3. (Untaken' => Untaken) /\ pc' # "consume"
      BY <2>1, <2>2 DEF Untaken
    <2>4. Watched' => Watched /\ todo' = todo
      BY <1>2, <2>1, <2>2 DEF Watched, Watching, FillStart
    <2>5. pc' = "fill" => cur' > ptr
      <3>1. CASE pc' = FillReturns[pc]
        BY <2>1, <3>1
      <3>2. CASE /\ ant' = IF ptr < last THEN 0 ELSE ant
                 /\ cur' = Max({ptr + 1, ant'})
        <4>1. ptr \in Nat /\ ant' \in Nat
          BY <3>2 DEF JInv, IInv, Types
        <4> QED BY <3>2, <4>1, MaxPair
      <3> QED BY <1>2, <3>1, <3>2 DEF FillStart, Step
    <2>6. Passed' /\ HeldHere'
      BY <1>1, <2>3, <2>5 DEF Once, Passed, HeldHere
    <2> QED BY <1>1, <2>4, <2>6, QuietOnce
  <1>3. CASE FillEnd
    <2>1. pc = "fill" /\ pc' = ret /\ todo' = todo
          /\ ret \in {"plug2", "look3", "parse", "typeTest"}
      BY <1>3 DEF FillEnd, Step, JInv, IInv, Types
    <2>2. (Untaken' => Untaken) /\ pc' # "consume" /\ pc' # "fill"
      BY <2>1 DEF Untaken
    <2>3. Watched' => Watched
      BY <2>1 DEF Watched, Watching
    <2>4. Passed' /\ HeldHere'
      BY <1>1, <2>2 DEF Once, Passed, HeldHere
    <2> QED BY <1>1, <2>1, <2>3, <2>4, QuietOnce
  <1>4. CASE ParseKnown \/ ParseDelayed \/ ParseEnd \/ TypeRecorded
    <2>1. pc' \in {"parse", "socket", "advance"}
      BY <1>4 DEF ParseKnown, ParseDelayed, ParseEnd, TypeRecorded, Step
    <2>2. ~Watched' /\ Passed' /\ HeldHere'
      BY <1>1, <2>1 DEF Watched, Watching, Once, Passed, Untaken, HeldHere
    <2> QED BY <1>1, <2>2, QuietOnce
  <1>5. CASE TypeAgain
    <2>1. pc = "typeTest" /\ pc' = "typed" /\ todo' = todo
      BY <1>5 DEF TypeAgain, Step
    <2>2. Watched /\ Passed' /\ HeldHere'
      BY <1>1, <2>1 DEF Watched, Watching, Once, Passed, Untaken, HeldHere
    <2> QED BY <1>1, <2>1, <2>2, QuietOnce
  <1>6. CASE Stop \/ UNCHANGED vars
    <2>1. UNCHANGED <<pc, held, todo, ret, cur>>
      BY <1>6 DEF Stop, vars, fill
    <2>2. (Watched' => Watched) /\ Passed' /\ HeldHere'
      BY <1>1, <2>1 DEF Watched, Once, Passed, Untaken, HeldHere, Here, At
    <2> QED BY <1>1, <2>1, <2>2, QuietOnce
  <1> QED BY <1>2, <1>3, <1>4, <1>5, <1>6

LEMMA PumpOnce ==
    ASSUME NEW Rank, JInv, Once(Rank),
           \/ Plugged \/ Receive \/ ParsePump \/ SocketWait \/ NamePump
           \/ TypePump /\ Pump
    PROVE  Once(Rank)'
  <1>1. /\ Pump /\ Tables /\ UNCHANGED <<pass, ptr, handled, todo>>
        /\ pc \in {"plugged", "plugged2", "receive", "parse", "socket", "naming", "typed"}
        /\ pc' \in {"plugged", "plugged2", "want", "look", "look2", "parseFill", "socket",
                    "naming", "typedFill"}
        /\ (pc' \in {"plugged", "plugged2", "want", "look", "look2"} =>
               pc \in {"plugged", "plugged2", "receive"})
        /\ (pc' \in {"naming", "typedFill"} => pc \in {"naming", "typed"})
    BY DEF Plugged, Receive, ParsePump, SocketWait, NamePump, TypePump, Step, JInv, IInv, Types
  <1>2. Tally(Rank, back, ready, liens, handled, got)' /\ wasted' = wasted
    BY <1>1, PumpTally DEF JInv, Once, TallyNow
  <1>3. liens' = MarkedLinks
    BY <1>1 DEF Pump, PumpWith, Clean
  <1>4. DOMAIN liens' = DOMAIN liens /\ \A n : KnownIn(liens', n) <=> KnownIn(liens, n)
    BY <1>1, <1>3, SameNames
  <1>5. TallyNow(Rank)'
    BY <1>1, <1>2 DEF Once, TallyNow
  <1>6. Passed' /\ HeldHere'
    BY <1>1, <1>4 DEF Once, Passed, Untaken, HeldHere
  <1>7. Unknown'
    BY <1>1, <1>4 DEF Once, Unknown, Watched, Watching
  <1> QED BY <1>5, <1>6, <1>7 DEF Once

LEMMA WakingOnce ==
    ASSUME NEW Rank, JInv, Once(Rank), Plug \/ Look PROVE Once(Rank)'
  <1> DEFINE wait == IF pc = "plug" THEN "plugged" ELSE "plugged2"
             slots == SlotsOf(back, Here.url)
  <1>1. /\ UNCHANGED <<liens, ptr, pass, handled, got, wasted>>
        /\ Tables /\ ptr \in 1 .. Len(liens) /\ Untaken
        /\ pc \in {"plug", "plug2", "look", "look2", "look3"}
    BY DEF Plug, Look, queue, KeepBack, JInv, IInv, Types, Place, Untaken
  <1>2. /\ Here.name \in Name /\ ptr \in DOMAIN liens \ handled
        /\ UInv(back, ready, liens) /\ Tally(Rank, back, ready, liens, handled, got)
    BY <1>1, HereFacts, LiensFacts DEF Once, Passed, TallyNow, JInv
  <1>3. pc' \in {"want", "look", "plugged", "plugged2", "receive", "look2Fill", "plug2",
                 "consume", "advance"}
    BY <1>1 DEF Plug, Look, Wake, Step
  <1>4. /\ \/ UNCHANGED <<back, ready>>
           \/ ready[Here.name].state = "swapped" /\ Wake(Here.name, wait, wait)
           \/ ready[Here.name].state = "swapped" /\ Wake(Here.name, "consume", "advance")
        /\ HeldHere'
    <2>1. CASE Plug
      <3>1. \/ UNCHANGED <<back, ready>>
            \/ ready[Here.name].state = "swapped" /\ Wake(Here.name, wait, wait)
        BY <2>1 DEF Plug, KeepBack
      <3>2. pc' # "consume"
        BY <2>1 DEF Plug, Wake, Step
      <3> HIDE DEF wait
      <3> QED BY <3>1, <3>2 DEF HeldHere
    <2>2. CASE Look
      <3>1. CASE /\ slots # {}
                 /\ LET s == IndexOf(back, Here.url, Here.name)
                    IN \/ pc' \in {"receive", "look2Fill", "plug2"}
                       \/ pc' = "consume" /\ held' = s
                 /\ KeepBack
        <4>1. IndexOf(back, Here.url, Here.name) \in slots
          BY <3>1, IndexIn
        <4>2. HeldHere'
          BY <1>1, <3>1, <4>1 DEF HeldHere, KeepBack, SlotsOf, Live, Here, At
        <4> QED BY <3>1, <4>2 DEF KeepBack
      <3>2. CASE /\ ready[Here.name].state = "swapped"
                 /\ Wake(Here.name, "consume", "advance")
        <4>1. HeldHere'
          BY <1>1, <1>2, <3>2, WakeHere DEF HeldHere, Here, At
        <4> QED BY <3>2, <4>1
      <3>3. CASE pc' = "advance" /\ KeepBack
        BY <3>3 DEF KeepBack, HeldHere
      <3> QED BY <1>1, <2>2, <3>1, <3>2, <3>3 DEF Look, Step
    <2> QED BY <2>1, <2>2
  <1>5. Tally(Rank, back, ready, liens, handled, got)'
    <2>1. CASE UNCHANGED <<back, ready>>
      BY <1>1, <1>2, <2>1
    <2>2. ASSUME ready[Here.name].state = "swapped", NEW found, NEW lost,
                 Wake(Here.name, found, lost)
          PROVE  Tally(Rank, back, ready, liens, handled, got)'
      BY <1>1, <1>2, <2>2, WakeTally
    <2> QED BY <1>4, <2>1, <2>2
  <1>6. TallyNow(Rank)'
    BY <1>1, <1>5 DEF Once, TallyNow
  <1>7. Passed' /\ Unknown'
    BY <1>1, <1>3 DEF Once, Passed, Unknown, Watched, Watching
  <1> QED BY <1>4, <1>6, <1>7 DEF Once

LEMMA NewSlotFields ==
    ASSUME NEW u \in Url, NEW n \in Name \cup {"delayed"}
    PROVE  /\ NewSlot(u, n).name = n /\ NewSlot(u, n).res = "none"
           /\ LET t == [NewSlot(u, n) EXCEPT !.early = TRUE, !.locked = "locked"]
              IN t.name = n /\ t.res = "none" /\ t.early
  BY FreeTyped DEF NewSlot, SlotRec, FreeSlot

\* The prefetch and the main loop ask for a link still to come that is not done.
LEMMA HeapTally ==
    ASSUME NEW Rank, JInv, Once(Rank), NEW p \in DOMAIN liens \ handled,
           liens[p].pass2 # -1, Add(NewSlot(At(p).url, At(p).name)),
           ~Exist(back, ready, At(p).url, At(p).name), handled' = handled
    PROVE  Tally(Rank, back, ready, liens, handled, got)' /\ wasted' = wasted
           /\ liens' = MarkedLinks
  <1> DEFINE slot == NewSlot(At(p).url, At(p).name)
  <1>1. Tables /\ At(p) \in Item /\ Tally(Rank, back, ready, liens, handled, got)
    BY LiensFacts DEF JInv, IInv, Types, At, Once, TallyNow
  <1>2. /\ slot \in SlotRec /\ slot.url = At(p).url /\ slot.name = At(p).name
        /\ slot.name \in Name /\ slot.res = "none"
    <2>1. At(p).url \in Url /\ At(p).name \in Name
      BY <1>1 DEF Item
    <2>2. slot \in SlotRec /\ slot.url = At(p).url
      BY <2>1, SlotTyped
    <2>3. slot.name = At(p).name /\ slot.res = "none"
      BY <2>1, NewSlotFields
    <2> QED BY <2>1, <2>2, <2>3
  <1>3. At(p).url \notin got
    BY <1>1 DEF Tally, Told, At
  <1>4. SlotsOf(back, At(p).url) = {}
    BY DEF Exist
  <1> HIDE DEF slot
  <1>5. Awaited(slot, liens, handled)
    BY <1>2 DEF Awaited, At
  <1>6. Add(slot)
    BY DEF slot
  <1>7. liens' = MarkedLinks
    BY DEF Add, Clean
  <1> QED BY <1>1, <1>2, <1>3, <1>4, <1>5, <1>6, <1>7, AddTally DEF JInv

LEMMA AskingOnce ==
    ASSUME NEW Rank, JInv, Once(Rank), FillAdd \/ Want PROVE Once(Rank)'
  <1>1. Tables /\ ptr \in Nat
        /\ UNCHANGED <<ptr, pass, handled, held, todo>> /\ pass = 0
    BY DEF FillAdd, Want, JInv, IInv, Types, Once, TallyNow
  <1>2. CASE FillAdd
    <2> DEFINE p == Min(Candidates)
    <2>1. Candidates # {} /\ cur \in Nat /\ cur > 0 /\ cur > ptr /\ pc = "fill"
      BY <1>2 DEF FillAdd, JInv, IInv, Types, Place, Once, Passed
    <2>2. Candidates \in SUBSET (1 .. Len(liens)) /\ Len(liens) \in Nat
      BY <1>1, <2>1, LiensFacts DEF Candidates
    <2>3. Candidates \in SUBSET Nat
      BY <2>2
    <2>4. p \in Candidates /\ p \in Nat
      BY <2>1, <2>3, MinIn
    <2>5. ~Exist(back, ready, At(p).url, At(p).name) /\ p >= cur /\ p \in DOMAIN liens
      BY <1>1, <2>2, <2>4, LiensFacts DEF Candidates
    <2>6. liens[p].pass2 = 0
      <3> HIDE DEF p
      <3>1. (At(p).pass2 # 0) = (pass = 1)
        BY <2>4 DEF Candidates
      <3>2. pass # 1
        BY <1>1
      <3> QED BY <3>1, <3>2 DEF At
    <2>7. p > ptr
      BY <1>1, <2>1, <2>4, <2>5
    <2>8. p \notin handled
      BY <1>1, <2>4, <2>7 DEF Once, Passed
    <2>9. Add(NewSlot(At(p).url, At(p).name)) /\ cur' = p + 1 /\ UNCHANGED <<pc, ret>>
      BY <1>2 DEF FillAdd
    <2>10. cur' > ptr
      BY <1>1, <2>4, <2>7, <2>9
    <2> HIDE DEF p
    <2>11. Tally(Rank, back, ready, liens, handled, got)' /\ wasted' = wasted
           /\ liens' = MarkedLinks
      BY <1>1, <2>5, <2>6, <2>8, <2>9, HeapTally
    <2>12. DOMAIN liens' = DOMAIN liens /\ \A n : KnownIn(liens', n) <=> KnownIn(liens, n)
      BY <1>1, <2>11, SameNames
    <2>13. Passed' /\ HeldHere'
      BY <1>1, <2>1, <2>9, <2>10, <2>12 DEF Once, Passed, Untaken, HeldHere
    <2>14. Unknown'
      BY <1>1, <2>9, <2>12 DEF Once, Unknown, Watched
    <2> QED BY <1>1, <2>11, <2>13, <2>14 DEF Once, TallyNow
  <1>3. CASE Want
    <2>1. ptr \in DOMAIN liens \ handled /\ pc = "want"
      BY <1>1, <1>3, LiensFacts DEF Want, JInv, IInv, Place, Once, Passed, Untaken
    <2>2. pc' \in {"advance", "wantFill"}
      BY <1>3 DEF Want, Step
    <2>3. CASE UNCHANGED <<back, ready, liens, got, wasted>>
      <3>1. Passed' /\ HeldHere' /\ ~Watched'
        BY <1>1, <2>1, <2>2, <2>3 DEF Once, Passed, HeldHere, Watched, Watching
      <3> QED BY <1>1, <2>3, <3>1, QuietOnce
    <2>4. CASE /\ Add(NewSlot(Here.url, Here.name)) /\ ptr \notin Done
               /\ ~Exist(back, ready, Here.url, Here.name)
      <3>1. liens[ptr].pass2 # -1
        BY <2>1, <2>4 DEF Done, At
      <3>2. Tally(Rank, back, ready, liens, handled, got)' /\ wasted' = wasted
            /\ liens' = MarkedLinks
        BY <1>1, <2>1, <2>4, <3>1, HeapTally DEF Here
      <3>3. DOMAIN liens' = DOMAIN liens
        BY <1>1, <3>2, SameNames
      <3>4. Passed' /\ HeldHere' /\ Unknown'
        BY <1>1, <2>1, <2>2, <3>3 DEF Once, Passed, HeldHere, Unknown, Watched, Watching
      <3> QED BY <1>1, <3>2, <3>4 DEF Once, TallyNow
    <2> QED BY <1>3, <2>3, <2>4 DEF Want, KeepBack
  <1> QED BY <1>2, <1>3

\* A URL whose name the heap does not have has no answer there.
LEMMA UnknownNew ==
    ASSUME NEW Rank, JInv, Once(Rank), NEW u, ~KnownIn(liens, NameOf[u])
    PROVE  u \notin got
  BY DEF JInv, UInv, Labelled, KnownIn, Once, TallyNow, Tally, Told

LEMMA TypeAddOnce ==
    ASSUME NEW Rank, JInv, Once(Rank), TypeAdd PROVE Once(Rank)'
  <1> DEFINE slot == [NewSlot(Head(todo), "delayed") EXCEPT !.early = TRUE, !.locked = "locked"]
  <1>1. Tables /\ Head(todo) \in Url /\ Tally(Rank, back, ready, liens, handled, got)
        /\ UNCHANGED <<ptr, pass, handled, todo>>
    BY HeadTailProperties DEF TypeAdd, JInv, IInv, Types, Place, Once, TallyNow
  <1>2. slot \in SlotRec /\ slot.url = Head(todo)
    BY <1>1, SlotTyped
  <1>3. slot.name = "delayed" /\ slot.res = "none" /\ slot.early
    BY <1>1, NewSlotFields
  <1>4. ~KnownIn(liens, NameOf[Head(todo)])
    BY DEF TypeAdd, Known, Recorded, KnownIn
  <1>5. slot.name \notin Name
    BY <1>3, SiteAssumption
  <1>6. Head(todo) \notin got
    BY <1>4, UnknownNew
  <1> HIDE DEF slot
  <1>7. Add(slot) /\ liens' = MarkedLinks
    BY DEF TypeAdd, slot, Add, Clean
  <1>8. Tally(Rank, back, ready, liens, handled, got)' /\ wasted' = wasted
    BY <1>1, <1>2, <1>3, <1>4, <1>5, <1>6, <1>7, AddTally DEF JInv
  <1>9. DOMAIN liens' = DOMAIN liens /\ \A n : KnownIn(liens', n) <=> KnownIn(liens, n)
    BY <1>1, <1>7, SameNames
  <1>10. pc' \in {"done", "typed"}
    BY DEF TypeAdd, Step
  <1>11. Passed' /\ HeldHere' /\ Unknown'
    BY <1>1, <1>4, <1>9, <1>10 DEF Once, Passed, Untaken, HeldHere, Unknown
  <1> QED BY <1>1, <1>8, <1>11 DEF Once, TallyNow

LEMMA RecordOnce ==
    ASSUME NEW Rank, JInv, Once(Rank), ~htmlFirst, ParseRecord PROVE Once(Rank)'
  <1> DEFINE u == Head(todo)
             e == [url |-> u, name |-> NameOf[u], pass2 |-> PassOf(u), retry |-> Retries]
  <1>1. /\ Tables /\ u \in Url /\ Types /\ Tally(Rank, back, ready, liens, handled, got)
        /\ UNCHANGED <<back, ready, got, wasted, ptr, pass, handled, pc>> /\ pc = "parse"
    BY HeadTailProperties DEF ParseRecord, KeepBack, JInv, IInv, Types, Once, TallyNow
  <1>2. e \in Item /\ e.pass2 = 0 /\ e.url = u /\ e.name = NameOf[u]
    BY <1>1, NewItem DEF PassOf
  <1>3. ~KnownIn(liens, NameOf[u])
    BY DEF ParseRecord, Known, Recorded, KnownIn
  <1>4. u \notin got
    BY <1>3, UnknownNew
  <1>5. liens' = Append(liens, e) /\ liens \in Seq(Item)
    BY <1>1 DEF ParseRecord, Recording, Tables
  <1> HIDE DEF e
  <1>6. Tally(Rank, back, ready, Append(liens, e), handled, got)
    BY <1>1, <1>2, <1>3, <1>4, <1>5, AppendTally DEF KnownIn
  <1>7. Tally(Rank, back, ready, liens, handled, got)'
    BY <1>1, <1>5, <1>6
  <1>8. DOMAIN liens \subseteq DOMAIN liens'
    BY <1>5
  <1>9. Passed' /\ HeldHere' /\ Unknown'
    BY <1>1, <1>8 DEF Once, Passed, Untaken, HeldHere, Unknown, Watched, Watching
  <1> QED BY <1>1, <1>7, <1>9 DEF Once, TallyNow

\* The slot that hts_wait_delayed() holds changes, or is dropped.
LEMMA HeldOnce ==
    ASSUME NEW Rank, JInv, Once(Rank), TypeKnown \/ TypeMoved PROVE Once(Rank)'
  <1>1. /\ Tables /\ Tally(Rank, back, ready, liens, handled, got) /\ pc = "typeTest"
        /\ UNCHANGED <<ready, liens, got, wasted, ptr, pass, handled>>
        /\ held \in Slots /\ Live(back[held]) /\ back[held] \in SlotRec
    BY DEF TypeKnown, TypeMoved, queue, history, JInv, IInv, Types, Once, TallyNow,
       HeldGuarded, Watched, Watching, Guarded, Live, Tables
  <1>2. Followed(back, ready, liens, handled, got)
    BY <1>1 DEF Tally
  <1>3. CASE TypeKnown
    <2>1. PICK r \in Results \cup {"stopped"} :
            /\ IF back[held].status = "busy" THEN r \in Answers[back[held].url]
                                             ELSE back[held].res = r
            /\ back' = [back EXCEPT ![held].res = r, ![held].locked = "pinned"]
      BY <1>3 DEF TypeKnown
    <2> DEFINE t == [back[held] EXCEPT !.res = r, !.locked = "pinned"]
    <2>2. back' = [back EXCEPT ![held] = t]
      BY <1>1, <2>1 DEF Tables
    <2>3. /\ t.url = back[held].url /\ t.name = back[held].name
          /\ t.early = back[held].early /\ t.res = r
      BY <1>1 DEF SlotRec
    <2>4. Fine(back[held], liens, handled, got)
      BY <1>1, <1>2 DEF Followed
    <2>5. r \in Answers[back[held].url] \cup {"none", "stopped"}
      BY <2>1, <2>4 DEF Fine
    <2> HIDE DEF t
    <2>6. Fine(t, liens, handled, got)
      BY <2>3, <2>4, <2>5 DEF Fine, Awaited
    <2>7. \A s \in Slots : back'[s] = t \/ back'[s] = back[s]
      BY <1>1, <2>2 DEF Tables
    <2>8. Followed(back', ready, liens, handled, got)
      BY <1>2, <2>6, <2>7 DEF Followed
    <2>9. pc' = "naming" /\ todo' = todo
      BY <1>3 DEF TypeKnown, Step
    <2>10. Passed' /\ HeldHere' /\ Unknown'
      BY <1>1, <2>9 DEF Once, Passed, Untaken, HeldHere, Unknown, Watched, Watching, KnownIn
    <2> QED BY <1>1, <2>8, <2>10 DEF Once, TallyNow, Tally
  <1>4. CASE TypeMoved
    <2>1. back' = [back EXCEPT ![held] = FreeSlot] /\ pc' \in {"parse", "socket"}
      BY <1>4 DEF TypeMoved, Step
    <2>2. \A s \in Slots : Live(back'[s]) => back'[s] = back[s]
      BY <1>1, <2>1, FreeTyped DEF Tables, Live
    <2>3. Followed(back', ready, liens, handled, got)
      BY <1>2, <2>2 DEF Followed
    <2>4. Passed' /\ HeldHere' /\ Unknown'
      BY <1>1, <2>1 DEF Once, Passed, Untaken, HeldHere, Unknown, Watched, Watching
    <2> QED BY <1>1, <2>3, <2>4 DEF Once, TallyNow, Tally
  <1> QED BY <1>3, <1>4

\* The slot takes its name when its link is recorded: it is then awaited.
LEMMA NamedOnce ==
    ASSUME NEW Rank, JInv, Once(Rank), ~htmlFirst, Named PROVE Once(Rank)'
  <1> DEFINE u == Head(todo)
             n == NameOf[u]
  <1>1. /\ Tables /\ Types /\ u \in Url /\ pc = "naming" /\ pc' = "parse"
        /\ Tally(Rank, back, ready, liens, handled, got)
        /\ UNCHANGED <<ready, got, wasted, ptr, pass, handled>>
        /\ held \in Slots /\ back[held].url = u /\ Live(back[held]) /\ back[held] \in SlotRec
    BY HeadTailProperties
    DEF Named, Step, history, JInv, IInv, Types, Place, Once, TallyNow, HeldGuarded, Watched,
        Watching, Guarded, Live, Tables
  <1>2. Fine(back[held], liens, handled, got)
    BY <1>1 DEF Tally, Followed
  <1>3. n \in Name /\ ~KnownIn(liens, n)
    BY <1>1, SiteAssumption DEF Once, Unknown, Watched, Watching
  <1>4. CASE /\ back' = [back EXCEPT ![held].locked = "no", ![held].name = n]
             /\ Recording(u, n, PassOf(u), Retries)
    <2> DEFINE e == [url |-> u, name |-> n, pass2 |-> PassOf(u), retry |-> Retries]
               t == [back[held] EXCEPT !.locked = "no", !.name = n]
    <2>1. e \in Item /\ e.pass2 = 0 /\ e.url = u /\ e.name = n
      BY <1>1, NewItem DEF PassOf
    <2>2. liens' = Append(liens, e) /\ liens \in Seq(Item)
      BY <1>1, <1>4 DEF Recording, Tables
    <2>3. back' = [back EXCEPT ![held] = t]
      BY <1>1, <1>4 DEF Tables
    <2>4. t.url = u /\ t.name = n /\ t.res = back[held].res
      BY <1>1 DEF SlotRec
    <2> HIDE DEF e, t
    <2>5. u \notin got
      BY <1>1, <1>2 DEF Fine
    <2>6. Tally(Rank, back, ready, liens', handled, got)
      BY <1>1, <1>3, <2>1, <2>2, <2>5, AppendTally DEF KnownIn
    <2>7. Len(liens) + 1 \in DOMAIN liens' \ handled /\ liens'[Len(liens) + 1] = e
          /\ DOMAIN liens \subseteq DOMAIN liens'
      BY <1>1, <2>2, LiensFacts DEF Once, Passed
    <2>8. Fine(t, liens', handled, got)
      BY <1>1, <1>2, <1>3, <2>1, <2>4, <2>5, <2>7 DEF Fine, Awaited
    <2>9. \A s \in Slots : back'[s] = t \/ back'[s] = back[s]
      BY <1>1, <2>3 DEF Tables
    <2>10. Followed(back', ready, liens', handled, got)
      BY <2>6, <2>8, <2>9 DEF Tally, Followed
    <2>11. Passed' /\ HeldHere' /\ Unknown'
      BY <1>1, <2>7 DEF Once, Passed, Untaken, HeldHere, Unknown, Watched, Watching
    <2> QED BY <1>1, <2>6, <2>10, <2>11 DEF Once, TallyNow, Tally
  <1>5. CASE back' = [back EXCEPT ![held].locked = "no"] /\ liens' = liens
    <2> DEFINE t == [back[held] EXCEPT !.locked = "no"]
    <2>1. back' = [back EXCEPT ![held] = t]
      BY <1>1, <1>5 DEF Tables
    <2>2. /\ t.url = back[held].url /\ t.name = back[held].name
          /\ t.early = back[held].early /\ t.res = back[held].res
      BY <1>1 DEF SlotRec
    <2> HIDE DEF t
    <2>3. Fine(t, liens, handled, got)
      BY <1>2, <2>2 DEF Fine, Awaited
    <2>4. \A s \in Slots : back'[s] = t \/ back'[s] = back[s]
      BY <1>1, <2>1 DEF Tables
    <2>5. Followed(back', ready, liens, handled, got)
      BY <1>1, <2>3, <2>4 DEF Tally, Followed
    <2>6. Passed' /\ HeldHere' /\ Unknown'
      BY <1>1, <1>5 DEF Once, Passed, Untaken, HeldHere, Unknown, Watched, Watching
    <2> QED BY <1>1, <1>5, <2>5, <2>6 DEF Once, TallyNow, Tally
  <1> QED BY <1>4, <1>5 DEF Named

\* The answer of the link at hand is handled: its slot is freed, and neither a link nor
\* a transfer of its URL is still to come.
LEMMA TakenTally ==
    ASSUME NEW Rank, Tables, UInv(back, ready, liens),
           Tally(Rank, back, ready, liens, handled, got),
           NEW p \in DOMAIN liens \ handled, NEW s \in Slots, Live(back[s]),
           back[s].url = liens[p].url, NEW b,
           \A t \in Slots : Live(b[t]) => t # s /\ b[t] = back[t]
    PROVE  /\ \A g \in {got, got \cup {back[s].url}} :
                 Tally(Rank, b, ready, liens, handled \cup {p}, g)
           /\ \A i \in DOMAIN liens : liens[i].name = liens[p].name => i \in handled \cup {p}
  <1> DEFINE k == handled \cup {p}
             u == liens[p].url
  <1>1. \A i \in DOMAIN liens : liens[i].name = liens[p].name => i \in k
    BY OneToCome DEF Tally
  <1>2. \A i \in DOMAIN liens : liens[i].url = u => i \in k
    BY <1>1 DEF UInv, Labelled
  <1>3. InTurn(Rank, liens, k) /\ OnePass(liens)
    BY DEF Tally, InTurn
  <1>4. \A g \in {got, got \cup {u}} : Told(liens, k, g)
    BY <1>2 DEF Tally, Told
  <1>5. \A g \in {got, got \cup {u}} : \A t :
           Fine(t, liens, handled, got) /\ t.url # u => Fine(t, liens, k, g)
    BY DEF Fine, Awaited
  <1>6. \A t \in Slots : Live(back[t]) /\ t # s => back[t].url # u
    BY DEF UInv, Apart
  <1>7. \A n \in Name : ready[n].state = "swapped" => ready[n].slot.url # u
    BY DEF UInv, Apart
  <1>8. \A g \in {got, got \cup {u}} : Followed(b, ready, liens, k, g)
    BY <1>5, <1>6, <1>7 DEF Tally, Followed
  <1> QED BY <1>1, <1>3, <1>4, <1>8 DEF Tally

\* A link that is marked done is one less to come.
LEMMA DoneTally ==
    ASSUME NEW Rank, NEW b, NEW r, NEW h, NEW h2, NEW k, NEW g, Tally(Rank, b, r, h, k, g),
           DOMAIN h2 = DOMAIN h,
           \A i \in DOMAIN h : /\ h2[i].url = h[i].url /\ h2[i].name = h[i].name
                               /\ h2[i].pass2 = -1 \/ h2[i].pass2 = h[i].pass2
    PROVE  Tally(Rank, b, r, h2, k, g)
  <1>1. OnePass(h2)
    BY DEF Tally, OnePass
  <1>2. InTurn(Rank, h2, k) /\ Told(h2, k, g)
    BY DEF Tally, InTurn, Told
  <1>3. \A t : Fine(t, h, k, g) => Fine(t, h2, k, g)
    BY DEF Fine, Awaited
  <1> QED BY <1>1, <1>2, <1>3 DEF Tally, Followed

\* The target of an alias has no answer yet: its rank is below that of every link of the
\* name, which are all behind.
LEMMA AliasNew ==
    ASSUME NEW Rank, AliasesEnd(Rank), Tables, UInv(back, ready, liens),
           Tally(Rank, back, ready, liens, handled, got),
           NEW p \in DOMAIN liens \ handled, \A i \in handled : i <= p,
           "moved" \in Answers[liens[p].url],
           NameOf[Target[liens[p].url]] = NameOf[liens[p].url]
    PROVE  /\ Target[liens[p].url] \notin got \cup {liens[p].url}
           /\ \A i \in DOMAIN liens : liens[i].name = liens[p].name =>
                 Rank[Target[liens[p].url]] <= Rank[liens[i].url]
  <1> DEFINE u == liens[p].url
             v == Target[u]
  <1>1. \A i \in DOMAIN liens : i \in Nat /\ liens[i].url \in Url
    BY LiensFacts DEF Item
  <1>2. u \in Url /\ v \in Url /\ Rank[v] < Rank[u]
    BY <1>1, SiteAssumption DEF AliasesEnd
  <1>3. \A w \in Url : Rank[w] \in Nat
    BY DEF AliasesEnd
  <1>4. ASSUME NEW i \in DOMAIN liens, liens[i].name = liens[p].name
        PROVE  Rank[u] <= Rank[liens[i].url]
    <2>1. CASE i = p
      BY <1>2, <1>3, <2>1
    <2>2. CASE i # p
      <3>1. i \in handled
        BY <1>4, <2>2, OneToCome DEF Tally
      <3>2. i < p
        BY <1>1, <2>2, <3>1
      <3> QED BY <1>4, <3>2 DEF Tally, InTurn
    <2> QED BY <2>1, <2>2
  <1> HIDE DEF u, v
  <1>5. ASSUME NEW i \in DOMAIN liens, liens[i].name = liens[p].name
        PROVE  Rank[v] < Rank[liens[i].url]
    <2>1. Rank[u] <= Rank[liens[i].url] /\ liens[i].url \in Url
      BY <1>1, <1>4, <1>5
    <2> DEFINE x == Rank[u]
               y == Rank[v]
               z == Rank[liens[i].url]
    <2>2. x \in Nat /\ y \in Nat /\ z \in Nat /\ y < x /\ x <= z
      BY <1>2, <1>3, <2>1
    <2> HIDE DEF x, y, z
    <2>3. y < z
      BY <2>2
    <2> QED BY <2>3 DEF y, z
  <1>6. \A i \in DOMAIN liens : liens[i].name = liens[p].name => liens[i].url # v
    <2> SUFFICES ASSUME NEW i \in DOMAIN liens, liens[i].name = liens[p].name,
                        liens[i].url = v
                 PROVE  FALSE
      OBVIOUS
    <2>1. Rank[v] < Rank[v] /\ Rank[v] \in Nat
      BY <1>2, <1>3, <1>5
    <2> QED BY <2>1
  <1>7. NameOf[v] = NameOf[u] /\ liens[p].name = NameOf[u]
    BY DEF u, v, UInv, Labelled
  <1>8. \A i \in DOMAIN liens : liens[i].url # v
    BY <1>6, <1>7 DEF UInv, Labelled
  <1>9. v \notin got /\ v # u
    BY <1>8 DEF Tally, Told, u
  <1>10. \A i \in DOMAIN liens : liens[i].name = liens[p].name => Rank[v] <= Rank[liens[i].url]
    <2> TAKE i \in DOMAIN liens
    <2>1. Rank[v] \in Nat /\ Rank[liens[i].url] \in Nat
      BY <1>1, <1>2, <1>3
    <2> QED BY <1>5, <2>1
  <1> QED BY <1>9, <1>10 DEF u, v

LEMMA ConsumeOnce ==
    ASSUME NEW Rank, AliasesEnd(Rank), JInv, Once(Rank), ~htmlFirst, Consume
    PROVE  Once(Rank)'
  <1> DEFINE u == Here.url
             res == back[held].res
             later == Max({Here.pass2, pass})
             alias == NameOf[Target[u]] = NameOf[u]
             k == handled \cup {ptr}
  <1>1. /\ Tables /\ Types /\ ptr \in DOMAIN liens /\ pc = "consume" /\ ptr \notin handled
        /\ UInv(back, ready, liens) /\ Tally(Rank, back, ready, liens, handled, got)
        /\ pass = 0 /\ wasted = {} /\ liens \in Seq(Item) /\ Here = liens[ptr]
    BY LiensFacts
    DEF Consume, JInv, IInv, Types, Place, Once, Passed, Untaken, TallyNow, Tables, Here, At
  <1>2. /\ UNCHANGED <<ptr, pass, ready, wasted>> /\ handled' = k
        /\ back' = [back EXCEPT ![held] = FreeSlot]
        /\ got' = IF res \in {"page", "file", "moved"} THEN got \cup {u} ELSE got
        /\ pc' \in {"parse", "advance"}
    BY DEF Consume, Step
  <1>3. held \in Slots /\ Live(back[held]) /\ back[held].url = u
    BY <1>1 DEF Once, HeldHere
  <1>4. Fine(back[held], liens, handled, got) /\ u \notin got
    BY <1>1, <1>3 DEF Tally, Followed, Fine
  <1>5. \A s \in Slots : Live(back'[s]) => s # held /\ back'[s] = back[s]
    BY <1>1, <1>2, <1>3, FreeTyped DEF Tables, Live
  <1>6. /\ Tally(Rank, back', ready, liens, k, got')
        /\ \A i \in DOMAIN liens : liens[i].name = Here.name => i \in k
    <2>1. got' \in {got, got \cup {back[held].url}}
      BY <1>2, <1>3
    <2>2. back[held].url = liens[ptr].url /\ ptr \in DOMAIN liens \ handled
      BY <1>1, <1>3
    <2> HIDE DEF u, res, later, alias, k
    <2>3. /\ \A g \in {got, got \cup {back[held].url}} :
                Tally(Rank, back', ready, liens, handled \cup {ptr}, g)
          /\ \A i \in DOMAIN liens : liens[i].name = liens[ptr].name => i \in handled \cup {ptr}
      <3> DEFINE nb == back'
      <3>1. \A t \in Slots : Live(nb[t]) => t # held /\ nb[t] = back[t]
        BY <1>5
      <3>2. /\ Tables /\ UInv(back, ready, liens)
            /\ Tally(Rank, back, ready, liens, handled, got)
        BY <1>1
      <3>3. held \in Slots /\ Live(back[held]) /\ back[held].url = liens[ptr].url
            /\ ptr \in DOMAIN liens \ handled
        BY <1>3, <2>2
      <3> HIDE DEF nb
      <3>4. /\ \A g \in {got, got \cup {back[held].url}} :
                Tally(Rank, nb, ready, liens, handled \cup {ptr}, g)
            /\ \A i \in DOMAIN liens : liens[i].name = liens[ptr].name => i \in handled \cup {ptr}
        BY <3>1, <3>2, <3>3, TakenTally
      <3> QED BY <3>4 DEF nb
    <2> QED BY <1>1, <2>1, <2>3 DEF k
  <1>7. u \in Url /\ Here \in Item
    BY <1>1, LiensFacts DEF Item
  <1>8. Tally(Rank, back', ready, liens', k, got') /\ DOMAIN liens \subseteq DOMAIN liens'
    <2>1. CASE /\ res = "moved" /\ alias
               /\ liens' = Append([liens EXCEPT ![ptr].pass2 = -1],
                    [url |-> Target[u], name |-> Here.name, pass2 |-> pass,
                     retry |-> Here.retry])
      <3> DEFINE e == [url |-> Target[u], name |-> Here.name, pass2 |-> pass,
                       retry |-> Here.retry]
                 i == [Here EXCEPT !.pass2 = -1]
                 heap == [liens EXCEPT ![ptr] = i]
      <3>1. e \in Item /\ e.url = Target[u] /\ e.name = Here.name /\ e.pass2 = 0
        BY <1>1, <1>7, SiteAssumption DEF Item
      <3>2. \A n \in Int : /\ [Here EXCEPT !.pass2 = n] \in Item
                           /\ [Here EXCEPT !.pass2 = n].url = Here.url
                           /\ [Here EXCEPT !.pass2 = n].name = Here.name
                           /\ [Here EXCEPT !.pass2 = n].pass2 = n
        BY <1>7 DEF Item
      <3>3. i \in Item /\ i.url = Here.url /\ i.name = Here.name /\ i.pass2 = -1
        <4>1. -1 \in Int
          OBVIOUS
        <4> QED BY <3>2, <4>1
      <3>4. [liens EXCEPT ![ptr].pass2 = -1] = heap
        BY <1>1
      <3>5. liens' = Append(heap, e)
        BY <2>1, <3>4
      <3> HIDE DEF e, i
      <3>6. /\ heap \in Seq(Item) /\ DOMAIN heap = DOMAIN liens
            /\ \A j \in DOMAIN liens : heap[j] = IF j = ptr THEN i ELSE liens[j]
        BY <1>1, <3>3, ExceptSeq, LiensFacts, LenProperties
      <3> HIDE DEF heap
      <3>7. Tally(Rank, back', ready, heap, k, got')
        BY <1>1, <1>6, <3>3, <3>6, DoneTally
      <3>8. "moved" \in Answers[u]
        BY <1>3, <1>4, <2>1 DEF Fine
      <3>9. /\ Target[u] \notin got \cup {u}
            /\ \A j \in DOMAIN liens : liens[j].name = Here.name =>
                  Rank[Target[u]] <= Rank[liens[j].url]
        BY <1>1, <2>1, <3>8, AliasNew DEF Once, Passed
      <3>10. Target[u] \notin got'
        BY <1>2, <3>9
      <3>11. \A j \in DOMAIN heap : heap[j].name = e.name =>
                j \in k /\ Rank[e.url] <= Rank[heap[j].url]
        <4> TAKE j \in DOMAIN heap
        <4>1. heap[j].name = liens[j].name /\ heap[j].url = liens[j].url /\ j \in DOMAIN liens
          BY <1>1, <3>3, <3>6
        <4> QED BY <1>6, <3>1, <3>9, <4>1
      <3>12. Tally(Rank, back', ready, Append(heap, e), k, got')
        BY <3>1, <3>6, <3>7, <3>10, <3>11, AppendTally
      <3> QED BY <3>5, <3>6, <3>12
    <2>2. CASE res = "again" /\ Recording(u, Here.name, later, Here.retry - 1)
      <3> DEFINE e == [url |-> u, name |-> Here.name, pass2 |-> later, retry |-> Here.retry - 1]
      <3>1. later = 0
        <4>1. Here.pass2 = 0 \/ Here.pass2 = -1
          BY <1>1 DEF Tally, OnePass
        <4>2. Max({0, 0}) = 0 /\ Max({-1, 0}) = 0
          BY MaxPair
        <4> QED BY <1>1, <4>1, <4>2
      <3>2. later \in Int /\ Here.retry - 1 \in Int /\ Here.name \in Name
        BY <1>7, <3>1 DEF Item
      <3> HIDE DEF later
      <3>3. e \in Item /\ e.url = u /\ e.name = Here.name /\ e.pass2 = 0
        BY <1>7, <3>1, <3>2 DEF Item
      <3>4. liens' = Append(liens, e)
        BY <2>2 DEF Recording
      <3> HIDE DEF e
      <3>5. got' = got
        BY <1>2, <2>2
      <3>6. \A j \in DOMAIN liens : liens[j].name = e.name =>
               j \in k /\ Rank[e.url] <= Rank[liens[j].url]
        <4> SUFFICES ASSUME NEW j \in DOMAIN liens, liens[j].name = Here.name
                     PROVE  Rank[u] <= Rank[liens[j].url]
          BY <1>6, <3>3
        <4>1. Rank[u] \in Nat
          BY <1>7 DEF AliasesEnd
        <4>2. CASE j = ptr
          BY <1>1, <4>1, <4>2
        <4>3. CASE j # ptr
          <5>1. j \in handled /\ j < ptr
            <6>1. j \in handled
              BY <1>6, <4>3
            <6>2. j <= ptr /\ j \in Nat /\ ptr \in Nat
              BY <1>1, <6>1, LiensFacts DEF Once, Passed
            <6> QED BY <4>3, <6>1, <6>2
          <5> QED BY <1>1, <5>1 DEF Tally, InTurn
        <4> QED BY <4>2, <4>3
      <3>7. Tally(Rank, back', ready, Append(liens, e), k, got')
        BY <1>1, <1>4, <1>6, <3>3, <3>5, <3>6, AppendTally
      <3> QED BY <1>1, <3>4, <3>7
    <2>3. CASE liens' = liens
      BY <1>6, <2>3
    <2> QED BY <2>1, <2>2, <2>3 DEF Consume
  <1>9. TallyNow(Rank)'
    BY <1>1, <1>2, <1>8 DEF TallyNow
  <1>10. Passed'
    <2>1. ptr \in Nat
      BY <1>1, LiensFacts
    <2>2. handled' \subseteq DOMAIN liens' /\ \A i \in handled' : i <= ptr'
      BY <1>1, <1>2, <1>8, <2>1 DEF Once, Passed
    <2> QED BY <1>2, <2>2 DEF Passed, Untaken
  <1>11. HeldHere' /\ Unknown'
    BY <1>2 DEF HeldHere, Unknown, Watched, Watching
  <1> QED BY <1>9, <1>10, <1>11 DEF Once

\* The invariant holds when pages and files are taken in one pass.
OInv(Rank) == JInv /\ (~htmlFirst => Once(Rank))

LEMMA StepOnce ==
    ASSUME NEW CONSTANT Rank, AliasesEnd(Rank)
    PROVE  OInv(Rank) /\ [Next]_vars => OInv(Rank)'
  <1> SUFFICES ASSUME JInv, ~htmlFirst, Once(Rank), [Next]_vars PROVE Once(Rank)'
    <2>1. JInv /\ [Next]_vars => JInv'
      BY StepApart
    <2>2. [Next]_vars => htmlFirst' = htmlFirst
      BY DEF Next, Work, Stop, Finished, vars
    <2> QED BY <2>1, <2>2 DEF OInv
  <1>1. CASE Fetch
    BY <1>1, LoopOnce, WakingOnce, PumpOnce, AskingOnce, ConsumeOnce DEF Fetch
  <1>2. CASE Prefetch
    BY <1>2, IdleOnce, AskingOnce DEF Prefetch
  <1>3. CASE Parse
    BY <1>3, PumpOnce, IdleOnce, RecordOnce DEF Parse
  <1>4. CASE TypePump
    <2>1. CASE Pump
      BY <1>4, <2>1, PumpOnce
    <2>2. CASE liens' = liens /\ KeepBack
      <3>1. /\ UNCHANGED <<back, ready, liens, handled, got, wasted, pass, ptr, todo>>
            /\ pc = "typed" /\ pc' = "typedFill"
        BY <1>4, <2>2 DEF TypePump, Step, KeepBack
      <3>2. Watched /\ Passed' /\ HeldHere'
        BY <3>1 DEF Watched, Watching, Once, Passed, Untaken, HeldHere
      <3> QED BY <3>1, <3>2, QuietOnce
    <2> QED BY <1>4, <2>1, <2>2 DEF TypePump
  <1>5. CASE Typing
    BY <1>4, <1>5, PumpOnce, IdleOnce, TypeAddOnce, HeldOnce, NamedOnce DEF Typing
  <1>6. CASE Stop \/ UNCHANGED vars
    BY <1>6, IdleOnce
  <1> QED BY <1>1, <1>2, <1>3, <1>5, <1>6 DEF Next, Work, Finished

\* A URL has one transfer at a time, and when pages and files are taken in one pass, a URL
\* whose answer is saved or handled is not asked for again, nor is a transfer on disk
\* dropped for another of its name: httpmirror(), back_fill(), back_clean() and
\* hts_wait_delayed() see to it together.  The redirects between the aliases of one local
\* name have to come to an end: hts_mirror_check_moved() records each of them again.
THEOREM RequestedOnceHolds ==
    ASSUME NEW CONSTANT Rank, AliasesEnd(Rank)
    PROVE  Spec => []RequestedOnce
  <1>1. Init => OInv(Rank)
    BY InitApart, InitOnce DEF OInv
  <1>2. OInv(Rank) /\ [Next]_vars => OInv(Rank)'
    BY StepOnce
  <1>3. OInv(Rank) => RequestedOnce
    BY DEF OInv, JInv, UInv, Apart, Live, OneTransfer, Once, TallyNow, RequestedOnce
  <1> QED BY <1>1, <1>2, <1>3, PTL DEF Spec

-----------------------------------------------------------------------------
(* When pages and files are taken in one pass, no link is forgotten: every one *)
(* was handled, or its file was saved in background, when the mirror ends that *)
(* met no trouble and was not stopped.  A transfer that is asked for is found  *)
(* again where it is, in a slot or on disk: the slot table never fills up, a   *)
(* slot is locked for the link at hand only, and a slot without its name is    *)
(* the one hts_wait_delayed() holds.                                           *)

\* The mirror so far: one pass, no stop and no trouble.
Calm == ~htmlFirst /\ ~stopped /\ troubles = 0

\* From here until its answer is used, a slot may be locked for the link at hand.
Pending ==
    \/ pc \in {"plug", "plugged", "want", "wantFill", "plug2", "plugged2", "look",
               "look2", "look2Fill", "look3", "receive", "consume"}
    \/ pc = "fill" /\ ret \in {"plug2", "look3"}

\* From here on, the link at hand was asked for.
AskedFor ==
    \/ pc \in {"wantFill", "plug2", "plugged2", "look", "look2", "look2Fill", "look3",
               "receive"}
    \/ pc = "fill" /\ ret \in {"plug2", "look3"}

Parsing == pc \in {"parse", "socket", "parseFill"} \/ Watched
              \/ (pc = "fill" /\ ret = "parse")

\* A link that was taken, one that was saved in background, and one that is in a
\* slot, on disk, or saved.
SavedLink(h, g, i) == h[i].url \in g /\ h[i].pass2 = -1
Taken(i) == i \in handled \/ SavedLink(liens, got, i)
Sought(b, r, h, g, i) ==
    \/ SlotsOf(b, h[i].url) # {}
    \/ r[h[i].name].state = "swapped"
    \/ SavedLink(h, g, i)

\* A link is done when it was handled or saved.
DoneTaken(h, k, g) == \A i \in DOMAIN h : h[i].pass2 = -1 => i \in k \/ h[i].url \in g

Behind ==
    /\ \A i \in DOMAIN liens : i < ptr => Taken(i)
    /\ pc = "advance" /\ ptr \in DOMAIN liens => Taken(ptr)
    /\ Parsing => ptr \in handled
    /\ pc = "done" => ptr > Len(liens)

InHand == AskedFor => Sought(back, ready, liens, got, ptr)

\* The connections stay within their number, and the prefetch within its room.
Within ==
    /\ Cardinality(Busy(back)) <= MaxSoc
    /\ pc = "want" => Cardinality(Busy(back)) < MaxSoc
    /\ pc = "fill" => /\ Cardinality(Free(back)) >= Spare + room
                      /\ Cardinality(Busy(back)) + room <= MaxSoc
                      /\ room \in Nat

\* A slot is free, or the one that is locked will be.
Spared == IF Watched THEN Free(back) # {}
                     ELSE \E s \in Slots : s \in Free(back) \/ Guarded(back, s)

LocksHere ==
    \A s \in Slots : Guarded(back, s) => \/ Watched /\ s = held
                                         \/ Pending /\ back[s].url = Here.url

\* A slot without its name is the one held, or one that was dropped for an answer
\* without a type, which no link of the heap asks for.
Dropped(b, h, s) ==
    /\ b[s].status = "ready" /\ b[s].locked = "no" /\ b[s].url \notin Typed
    /\ \A i \in DOMAIN h : h[i].name = NameOf[b[s].url] => h[i].url \in Typed
Nameless ==
    \A s \in Slots : Live(back[s]) /\ back[s].name \notin Name =>
        \/ Watched /\ s = held
        \/ ~Watched /\ Dropped(back, liens, s)

\* What is on disk can be read back.
Shelved(r) ==
    \A n \in Name : r[n].state # "gone"
                    /\ (r[n].state = "swapped" => r[n].slot.status = "ready")

Untyped == Watched \/ pc = "socket" => Head(todo) \notin Typed
Headed == pc = "naming" /\ back[held].status = "busy" => back[held].res \in {"page", "file"}

SlotsOwned == LocksHere /\ Nameless /\ Untyped /\ Headed
InOrder == DoneTaken(liens, handled, got) /\ Behind /\ InHand
Roomy == Within /\ Spared
AllTaken == InOrder /\ Roomy /\ SlotsOwned /\ Shelved(ready)

-----------------------------------------------------------------------------
\* MinIn, and it is the least.
LEMMA MinLeast ==
    ASSUME NEW S \in SUBSET Nat, S # {}
    PROVE  Min(S) \in S /\ \A y \in S : Min(S) <= y
  <1>1. IsWellFoundedOn(OpToRel(<, Nat), Nat)
    BY NatLessThanWellFounded
  <1>2. PICK x \in S : \A y \in S : ~(<<y, x>> \in OpToRel(<, Nat))
    BY <1>1, WFMin
  <1>3. \A y \in S : ~(y < x)
    BY <1>2 DEF OpToRel
  <1>4. \A y \in S : x =< y
    BY <1>3
  <1> QED BY <1>4 DEF Min

\* Skip() passes over what it is told to skip.
LEMMA SkipsOver ==
    ASSUME NEW p \in Nat \ {0}, NEW skipped, Tot \in Nat,
           NEW i \in 1 .. Tot, p <= i, i < Skip(p, skipped)
    PROVE  i \in skipped
  <1> DEFINE top == Max({p, Tot + 1})
             S == ((p .. Tot) \ skipped) \cup {top}
  <1>1. top \in Nat
    BY MaxPair
  <1>2. S \in SUBSET Nat /\ S # {}
    BY <1>1
  <1>3. Min(S) \in S /\ \A j \in S : Min(S) <= j
    BY <1>2, MinLeast
  <1>4. i \notin S
    <2>1. Min(S) \in Nat /\ Skip(p, skipped) = Min(S)
      BY <1>2, <1>3 DEF Skip
    <2> QED BY <1>3, <2>1
  <1> QED BY <1>4

-----------------------------------------------------------------------------
(* Counting slots                                                            *)

LEMMA SlotCounts ==
    /\ IsFiniteSet(Slots) /\ Cardinality(Slots) = MaxSlots
    /\ \A S \in SUBSET Slots : IsFiniteSet(S) /\ Cardinality(S) \in Nat
  <1>1. IsFiniteSet(Slots) /\ Cardinality(Slots) = MaxSlots
    BY SlotsAssumption, FS_Interval DEF Slots
  <1>2. \A S \in SUBSET Slots : IsFiniteSet(S)
    BY <1>1, FS_Subset
  <1> QED BY <1>1, <1>2, FS_CardinalityType

LEMMA OneMore ==
    ASSUME NEW S \in SUBSET Slots, NEW m \in Slots, NEW T \in SUBSET (S \cup {m})
    PROVE  Cardinality(T) <= Cardinality(S) + 1
  <1>1. IsFiniteSet(S) /\ Cardinality(S) \in Nat /\ Cardinality(T) \in Nat
    BY SlotCounts
  <1>2. /\ IsFiniteSet(S \cup {m})
        /\ Cardinality(S \cup {m}) = IF m \in S THEN Cardinality(S) ELSE Cardinality(S) + 1
    BY <1>1, FS_AddElement
  <1>3. Cardinality(T) <= Cardinality(S \cup {m})
    BY <1>2, FS_Subset
  <1>4. Cardinality(S \cup {m}) \in Nat
    BY <1>2, FS_CardinalityType
  <1> QED BY <1>1, <1>2, <1>3, <1>4

LEMMA NoMore ==
    ASSUME NEW S \in SUBSET Slots, NEW T \in SUBSET S
    PROVE  Cardinality(T) <= Cardinality(S)
  BY SlotCounts, FS_Subset

\* As long as only connected slots are taken, and one more, a slot is free.
LEMMA OneFree ==
    ASSUME MaxSlots > MaxSoc, NEW B \in SUBSET Slots, Cardinality(B) < MaxSoc, NEW m \in Slots
    PROVE  \E s \in Slots : s \notin B \cup {m}
  <1> SUFFICES ASSUME Slots \subseteq B \cup {m} PROVE FALSE
    OBVIOUS
  <1>1. Cardinality(Slots) <= Cardinality(B) + 1
    BY OneMore
  <1>2. Cardinality(B) \in Nat /\ Cardinality(Slots) = MaxSlots
    BY SlotCounts
  <1> QED BY <1>1, <1>2, SlotsAssumption

-----------------------------------------------------------------------------
(* A clean that writes every spool file: what is ready and not locked is saved *)
(* or on disk, and the rest is as it was.                                      *)

Clear == CleanedBack({})
Disk == CleanedReady({})

LEMMA ClearSlots ==
    ASSUME Tables
    PROVE  /\ \A s \in Slots : Swappable(s) => Clear[s] = FreeSlot
           /\ \A s \in Slots : ~Swappable(s) => Clear[s] = back[s]
           /\ \A s \in Slots : Live(Clear[s]) => Clear[s] = back[s] /\ ~Swappable(s)
           /\ Busy(Clear) = Busy(back) /\ Free(back) \subseteq Free(Clear)
           /\ \A s \in Slots : Guarded(Clear, s) <=> Guarded(back, s)
           /\ Clear \in [Slots -> SlotRec]
  <1>1. \A s \in Slots : Saved(s) => Swappable(s)
    BY DEF Saved, Swappable
  <1>2. \A s \in Slots : Swappable(s) => Clear[s] = FreeSlot
    BY DEF Clear, CleanedBack, Swapped
  <1>3. \A s \in Slots : ~Swappable(s) => Clear[s] = back[s]
    BY <1>1 DEF Clear, CleanedBack, Swapped
  <1>4. \A s \in Slots : Live(Clear[s]) => Clear[s] = back[s] /\ ~Swappable(s)
    BY <1>2, <1>3, FreeTyped DEF Live
  <1>5. \A s \in Slots : Swappable(s) => back[s].status = "ready" /\ back[s].locked = "no"
    BY DEF Swappable
  <1>6. Clear \in [Slots -> SlotRec]
    BY CleanFacts DEF Clear
  <1> HIDE DEF Clear
  <1>7. Busy(Clear) = Busy(back) /\ Free(back) \subseteq Free(Clear)
    BY <1>2, <1>3, <1>5, FreeTyped DEF Busy, Free
  <1>8. \A s \in Slots : Guarded(Clear, s) <=> Guarded(back, s)
    BY <1>2, <1>3, <1>5, FreeTyped DEF Guarded
  <1> QED BY <1>2, <1>3, <1>4, <1>6, <1>7, <1>8

\* A transfer that leaves its slot is saved, or on disk under its name.
LEMMA ClearDisk ==
    ASSUME Tables, Shelved(ready)
    PROVE  /\ Shelved(Disk)
           /\ \A n \in Name : ready[n].state = "swapped" => Disk[n].state = "swapped"
           /\ \A s \in Slots : Swappable(s) /\ ~Saved(s) /\ back[s].name \in Name =>
                 Disk[back[s].name].state = "swapped"
  <1> DEFINE here(n) == {s \in Swapped({}) : back[s].name = n}
  <1>1. \A n \in Name : Disk[n] = IF here(n) = {} THEN ready[n]
                                  ELSE [state |-> "swapped", slot |-> back[Max(here(n))]]
    BY DEF Disk, CleanedReady
  <1>2. ASSUME NEW n \in Name, here(n) # {}
        PROVE  Disk[n].state = "swapped" /\ Disk[n].slot.status = "ready"
    <2>1. here(n) \in SUBSET (1 .. MaxSlots)
      BY DEF Swapped, Slots
    <2>2. Max(here(n)) \in here(n)
      BY <1>2, <2>1, MaxIn, SlotsAssumption
    <2>3. back[Max(here(n))].status = "ready"
      BY <2>2 DEF Swapped, Swappable
    <2>4. Disk[n] = [state |-> "swapped", slot |-> back[Max(here(n))]]
      BY <1>1, <1>2
    <2> QED BY <2>3, <2>4
  <1>3. \A s \in Slots : Swappable(s) /\ ~Saved(s) => s \in here(back[s].name)
    BY DEF Swapped
  <1> HIDE DEF here
  <1>4. \A n \in Name : here(n) = {} => Disk[n] = ready[n]
    BY <1>1
  <1> QED BY <1>2, <1>3, <1>4 DEF Shelved

\* The link whose file is saved is the one still to come.
LEMMA SavedOne ==
    ASSUME NEW Rank, Tables, UInv(back, ready, liens),
           Tally(Rank, back, ready, liens, handled, got), NEW s \in Slots, Saved(s)
    PROVE  LET m == Max(Recorded(back[s].name))
           IN /\ m \in DOMAIN liens \ handled /\ liens[m].url = back[s].url
              /\ MarkedLinks[m].pass2 = -1
  <1> DEFINE m == Max(Recorded(back[s].name))
  <1>1. /\ back[s].name = NameOf[back[s].url] /\ Awaited(back[s], liens, handled)
        /\ m \in DOMAIN liens /\ MarkedLinks[m].pass2 = -1
        /\ \A i \in DOMAIN liens : liens[i].name = back[s].name => i <= m
    BY SavedFacts DEF Tally
  <1>2. m \in Recorded(back[s].name)
    <2>1. Known(back[s].name) /\ Recorded(back[s].name) \in SUBSET (1 .. Len(liens))
          /\ Len(liens) \in Nat
      BY SavedFacts, LiensFacts DEF Tally, Recorded
    <2> QED BY <2>1, MaxIn DEF Known
  <1> HIDE DEF m
  <1>3. PICK i \in DOMAIN liens \ handled : liens[i].url = back[s].url
    BY <1>1 DEF Awaited
  <1>4. liens[i].name = back[s].name /\ liens[m].name = back[s].name
    BY <1>1, <1>2, <1>3 DEF UInv, Labelled, Recorded
  <1>5. i <= m /\ i \in Nat /\ m \in Nat
    BY <1>1, <1>4, LiensFacts
  <1>6. i = m
    BY <1>1, <1>3, <1>4, <1>5 DEF Tally, InTurn
  <1> QED BY <1>1, <1>3, <1>6 DEF m

\* A link is marked done when its file is saved.
LEMMA ClearMarks ==
    ASSUME NEW Rank, Tables, UInv(back, ready, liens),
           Tally(Rank, back, ready, liens, handled, got), DoneTaken(liens, handled, got)
    PROVE  DoneTaken(MarkedLinks, handled, got \cup CleanGot)
  <1> DEFINE g == got \cup CleanGot
  <1>1. DOMAIN MarkedLinks = DOMAIN liens
        /\ \A i \in DOMAIN liens : MarkedLinks[i].url = liens[i].url
    BY MarkedFacts
  <1>2. ASSUME NEW i \in DOMAIN liens, MarkedLinks[i].pass2 = -1, liens[i].pass2 # -1
        PROVE  liens[i].url \in CleanGot
    <2>1. i \in {Max(Recorded(back[s].name)) : s \in
                    {t \in Slots : Saved(t) /\ Known(back[t].name)}}
      BY <1>2 DEF MarkedLinks
    <2>2. PICK s \in Slots : Saved(s) /\ i = Max(Recorded(back[s].name))
      BY <2>1
    <2>3. liens[i].url = back[s].url
      BY <2>2, SavedOne
    <2> QED BY <2>2, <2>3 DEF CleanGot
  <1> QED BY <1>1, <1>2 DEF DoneTaken

\* A link that is sought still is, when its slot has its name.
LEMMA ClearSought ==
    ASSUME NEW Rank, Tables, UInv(back, ready, liens), Shelved(ready),
           Tally(Rank, back, ready, liens, handled, got),
           NEW i \in DOMAIN liens \ handled, Sought(back, ready, liens, got, i),
           \A s \in SlotsOf(back, liens[i].url) : back[s].name \in Name
    PROVE  Sought(Clear, Disk, MarkedLinks, got \cup CleanGot, i)
  <1> DEFINE h == MarkedLinks
             g == got \cup CleanGot
  <1>1. h[i].url = liens[i].url /\ h[i].name = liens[i].name
        /\ (h[i].pass2 = -1 \/ h[i].pass2 = liens[i].pass2)
    BY MarkedFacts
  <1>2. liens[i].name \in Name
    BY LiensFacts DEF Item
  <1>3. CASE SlotsOf(back, liens[i].url) # {}
    <2>1. PICK s \in Slots : Live(back[s]) /\ back[s].url = liens[i].url
      BY <1>3 DEF SlotsOf, Live
    <2>2. back[s].name \in Name
      BY <2>1 DEF SlotsOf, Live
    <2>3. back[s].name = liens[i].name
      BY <2>1, <2>2 DEF UInv, Labelled, Named1
    <2>4. CASE ~Swappable(s)
      <3>1. Clear[s] = back[s]
        BY <2>4, ClearSlots
      <3> QED BY <1>1, <2>1, <3>1 DEF Sought, SlotsOf, Live
    <2>5. CASE Swappable(s) /\ ~Saved(s)
      BY <1>1, <2>2, <2>3, <2>5, ClearDisk DEF Sought
    <2>6. CASE Saved(s)
      <3> DEFINE m == Max(Recorded(back[s].name))
      <3>1. m \in DOMAIN liens \ handled /\ liens[m].url = back[s].url /\ h[m].pass2 = -1
        BY <2>6, SavedOne
      <3> HIDE DEF m
      <3>2. liens[m].name = liens[i].name
        BY <2>1, <3>1 DEF UInv, Labelled
      <3>3. m = i
        BY <3>1, <3>2, OneToCome DEF Tally
      <3>4. liens[i].url \in CleanGot
        BY <2>1, <2>6 DEF CleanGot
      <3> QED BY <1>1, <3>1, <3>3, <3>4 DEF Sought, SavedLink
    <2> QED BY <2>4, <2>5, <2>6
  <1>4. CASE ready[liens[i].name].state = "swapped"
    BY <1>1, <1>2, <1>4, ClearDisk DEF Sought
  <1>5. CASE SavedLink(liens, got, i)
    BY <1>1, <1>5 DEF Sought, SavedLink
  <1> QED BY <1>3, <1>4, <1>5 DEF Sought

-----------------------------------------------------------------------------
(* What a pump, or back_add(), owes the invariant when it meets no trouble; new *)
(* has the slot that back_add() takes, if any.                                 *)

Cleared(new) ==
    /\ DoneTaken(liens', handled, got') /\ Shelved(ready')
    /\ DOMAIN liens' = DOMAIN liens
    /\ \A i \in DOMAIN liens : /\ liens'[i].url = liens[i].url /\ liens'[i].name = liens[i].name
                               /\ SavedLink(liens, got, i) => SavedLink(liens', got', i)
    /\ \A i \in DOMAIN liens \ handled :
          /\ \A s \in SlotsOf(back, liens[i].url) : back[s].name \in Name
          /\ Sought(back, ready, liens, got, i)
          => Sought(back', ready', liens', got', i)
    /\ \A s \in Slots \ new :
          /\ Guarded(back', s) <=> Guarded(back, s)
          /\ Live(back'[s]) => /\ Live(back[s]) /\ ~Swappable(s)
                               /\ back'[s].url = back[s].url /\ back'[s].name = back[s].name
          /\ back'[s].status = "busy" => back[s].status = "busy"
          /\ back[s].status = "free" => back'[s].status = "free"

LEMMA NoTrouble ==
    ASSUME NEW kept \in SUBSET Swapped({}), Clean(kept), troubles = 0, troubles' = 0
    PROVE  kept = {}
  <1>1. kept \in SUBSET Slots
    BY DEF Swapped
  <1>2. IsFiniteSet(kept) /\ Cardinality(kept) \in Nat
    BY <1>1, SlotCounts
  <1>3. Cardinality(kept) = 0
    BY <1>2 DEF Clean
  <1> QED BY <1>2, <1>3, FS_EmptySet

LEMMA ClearTables ==
    ASSUME NEW Rank, Tables, UInv(back, ready, liens), Shelved(ready),
           Tally(Rank, back, ready, liens, handled, got), DoneTaken(liens, handled, got),
           ready' = Disk, liens' = MarkedLinks, got' = got \cup CleanGot
    PROVE  /\ DoneTaken(liens', handled, got') /\ Shelved(ready')
           /\ DOMAIN liens' = DOMAIN liens
           /\ \A i \in DOMAIN liens :
                 /\ liens'[i].url = liens[i].url /\ liens'[i].name = liens[i].name
                 /\ SavedLink(liens, got, i) => SavedLink(liens', got', i)
           /\ \A i \in DOMAIN liens \ handled :
                 /\ \A s \in SlotsOf(back, liens[i].url) : back[s].name \in Name
                 /\ Sought(back, ready, liens, got, i)
                 => Sought(Clear, ready', liens', got', i)
  <1>1. DoneTaken(liens', handled, got') /\ Shelved(ready')
    BY ClearMarks, ClearDisk
  <1>2. /\ DOMAIN liens' = DOMAIN liens
        /\ \A i \in DOMAIN liens :
              /\ liens'[i].url = liens[i].url /\ liens'[i].name = liens[i].name
              /\ liens'[i].pass2 = -1 \/ liens'[i].pass2 = liens[i].pass2
    BY MarkedFacts
  <1>3. \A i \in DOMAIN liens : SavedLink(liens, got, i) => SavedLink(liens', got', i)
    BY <1>2 DEF SavedLink
  <1>4. ASSUME NEW i \in DOMAIN liens \ handled,
               \A s \in SlotsOf(back, liens[i].url) : back[s].name \in Name,
               Sought(back, ready, liens, got, i)
        PROVE  Sought(Clear, ready', liens', got', i)
    BY <1>4, ClearSought
  <1> QED BY <1>1, <1>2, <1>3, <1>4

LEMMA PumpCleared ==
    ASSUME NEW Rank, Tables, UInv(back, ready, liens), Shelved(ready),
           Tally(Rank, back, ready, liens, handled, got), DoneTaken(liens, handled, got),
           Pump, troubles = 0, troubles' = 0
    PROVE  Cleared({})
  <1>1. PICK finished \in SUBSET Busy(back) : PumpWith(finished)
    BY DEF Pump
  <1>2. PICK kept \in SUBSET Swapped({}) :
          /\ Clean(kept) /\ got' = got \cup CleanGot
          /\ \E res \in [finished -> Results \cup {"stopped"}] :
                back' = [s \in Slots |->
                   IF s \in finished
                     THEN [back[s] EXCEPT !.status = "ready", !.res = res[s]]
                     ELSE CleanedBack(kept)[s]]
    BY <1>1 DEF PumpWith
  <1>3. kept = {}
    BY <1>2, NoTrouble
  <1>4. PICK res \in [finished -> Results \cup {"stopped"}] :
           back' = [s \in Slots |->
                   IF s \in finished
                     THEN [back[s] EXCEPT !.status = "ready", !.res = res[s]]
                     ELSE Clear[s]]
    BY <1>2, <1>3 DEF Clear
  <1>5. ready' = Disk /\ liens' = MarkedLinks
    BY <1>2, <1>3 DEF Clean, Disk
  <1>6. ASSUME NEW s \in finished
        PROVE  /\ back[s].status = "busy" /\ back'[s].status = "ready"
               /\ back'[s].url = back[s].url /\ back'[s].name = back[s].name
               /\ back'[s].locked = back[s].locked /\ Clear[s] = back[s]
    <2>1. s \in Slots /\ back[s].status = "busy" /\ back[s] \in SlotRec
      BY DEF Busy, Tables
    <2>2. ~Swappable(s)
      BY <2>1 DEF Swappable
    <2> DEFINE t == [back[s] EXCEPT !.status = "ready", !.res = res[s]]
    <2>3. back'[s] = t
      BY <1>4, <2>1
    <2>4. t.status = "ready" /\ t.url = back[s].url /\ t.name = back[s].name
          /\ t.locked = back[s].locked
      BY <2>1 DEF SlotRec
    <2> HIDE DEF t
    <2> QED BY <2>1, <2>2, <2>3, <2>4, ClearSlots
  <1>7. \A s \in Slots \ finished : back'[s] = Clear[s]
    BY <1>4
  <1>8. ASSUME NEW s \in Slots
        PROVE  /\ Live(back'[s]) <=> Live(Clear[s])
               /\ Live(back'[s]) => back'[s].url = Clear[s].url
               /\ Guarded(back', s) <=> Guarded(back, s)
               /\ Live(back'[s]) => /\ Live(back[s]) /\ ~Swappable(s)
                                    /\ back'[s].url = back[s].url /\ back'[s].name = back[s].name
               /\ back'[s].status = "busy" => back[s].status = "busy"
               /\ back[s].status = "free" => back'[s].status = "free"
    <2>1. CASE s \in finished
      BY <1>6, <2>1 DEF Live, Guarded, Swappable
    <2>2. CASE s \notin finished
      <3>1. back'[s] = Clear[s]
        BY <1>7, <2>2
      <3>2. Guarded(back', s) <=> Guarded(Clear, s)
        BY <3>1 DEF Guarded
      <3>3. Guarded(Clear, s) <=> Guarded(back, s)
        BY ClearSlots
      <3>4. Live(Clear[s]) => Clear[s] = back[s] /\ ~Swappable(s)
        BY ClearSlots
      <3>5. back[s].status = "free" => Clear[s] = back[s]
        BY ClearSlots DEF Swappable
      <3> QED BY <3>1, <3>2, <3>3, <3>4, <3>5 DEF Live
    <2> QED BY <2>1, <2>2
  <1>9. \A u : SlotsOf(back', u) = SlotsOf(Clear, u)
    BY <1>8 DEF SlotsOf, Live
  <1>10. \A i : Sought(Clear, ready', liens', got', i) => Sought(back', ready', liens', got', i)
    BY <1>9 DEF Sought
  <1>11. got' = got \cup CleanGot
    BY <1>2
  <1> HIDE DEF Disk
  <1> QED BY <1>5, <1>8, <1>10, <1>11, ClearTables DEF Cleared

LEMMA AddCleared ==
    ASSUME NEW Rank, Tables, UInv(back, ready, liens), Shelved(ready),
           Tally(Rank, back, ready, liens, handled, got), DoneTaken(liens, handled, got),
           NEW slot \in SlotRec, Add(slot), troubles = 0, troubles' = 0,
           SlotsOf(Clear, slot.url) = {}, Free(Clear) # {}
    PROVE  \E m \in Slots :
              /\ Cleared({m}) /\ Clear[m].status = "free"
              /\ Live(back'[m]) /\ back'[m].url = slot.url /\ back'[m].name = slot.name
              /\ back'[m].locked = slot.locked
  <1>1. PICK kept \in SUBSET Swapped({}) :
          /\ Clean(kept) /\ back' \in Placed(CleanedBack(kept), slot)
          /\ got' = got \cup CleanGot
    BY DEF Add
  <1>2. kept = {}
    BY <1>1, NoTrouble
  <1>3. ready' = Disk /\ liens' = MarkedLinks /\ back' \in Placed(Clear, slot)
    BY <1>1, <1>2 DEF Clean, Disk, Clear
  <1> DEFINE m == Min(Free(Clear))
  <1>4. m \in Slots /\ Clear[m].status = "free"
    BY SlotSets
  <1>5. PICK asked \in Asked(slot) : back' = [Clear EXCEPT ![m] = asked]
    BY <1>3 DEF Placed
  <1>6. /\ asked \in SlotRec /\ asked.status # "free"
        /\ asked.url = slot.url /\ asked.locked = slot.locked /\ asked.name = slot.name
    BY AskedTyped
  <1>7. Clear \in [Slots -> SlotRec]
    BY ClearSlots
  <1> HIDE DEF m, Clear, Disk
  <1>8. back'[m] = asked /\ \A s \in Slots \ {m} : back'[s] = Clear[s]
    BY <1>4, <1>5, <1>7
  <1>9. ASSUME NEW s \in Slots \ {m}
        PROVE  /\ Guarded(back', s) <=> Guarded(back, s)
               /\ Live(back'[s]) => /\ Live(back[s]) /\ ~Swappable(s)
                                    /\ back'[s].url = back[s].url /\ back'[s].name = back[s].name
               /\ back'[s].status = "busy" => back[s].status = "busy"
               /\ back[s].status = "free" => back'[s].status = "free"
    <2>1. back'[s] = Clear[s]
      BY <1>8
    <2>2. Guarded(back', s) <=> Guarded(Clear, s)
      BY <2>1 DEF Guarded
    <2>3. Guarded(Clear, s) <=> Guarded(back, s)
      BY ClearSlots
    <2>4. Live(Clear[s]) => Clear[s] = back[s] /\ ~Swappable(s)
      BY ClearSlots
    <2>5. back[s].status = "free" => Clear[s] = back[s]
      BY ClearSlots DEF Swappable
    <2> QED BY <2>1, <2>2, <2>3, <2>4, <2>5 DEF Live
  <1>10. \A u : SlotsOf(Clear, u) \subseteq SlotsOf(back', u)
    BY <1>4, <1>8 DEF SlotsOf
  <1>11. \A i : Sought(Clear, ready', liens', got', i) => Sought(back', ready', liens', got', i)
    BY <1>10 DEF Sought
  <1>12. got' = got \cup CleanGot
    BY <1>1
  <1>13. Cleared({m})
    BY <1>3, <1>9, <1>11, <1>12, ClearTables DEF Cleared
  <1> QED BY <1>4, <1>6, <1>8, <1>13 DEF Live

-----------------------------------------------------------------------------
(* The steps that leave the tables alone                                     *)

\* Between links, no slot is locked.
LEMMA NoLocks ==
    ASSUME LocksHere, ~Watched, ~Pending
    PROVE  \A s \in Slots : ~Guarded(back, s)
  BY DEF LocksHere

\* The slots of a link of the heap have their name, unless the program waits for a type.
LEMMA NamedHere ==
    ASSUME UInv(back, ready, liens), Nameless, ~Watched, NEW i \in DOMAIN liens
    PROVE  \A s \in SlotsOf(back, liens[i].url) : back[s].name \in Name
  <1> SUFFICES ASSUME NEW s \in SlotsOf(back, liens[i].url), back[s].name \notin Name
               PROVE  FALSE
    OBVIOUS
  <1>1. s \in Slots /\ Live(back[s]) /\ back[s].url = liens[i].url
    BY DEF SlotsOf, Live
  <1>2. Dropped(back, liens, s)
    BY <1>1 DEF Nameless
  <1>3. liens[i].name = NameOf[back[s].url]
    BY <1>1 DEF UInv, Labelled
  <1> QED BY <1>1, <1>2, <1>3 DEF Dropped

LEMMA QuietTaken ==
    ASSUME AllTaken, UNCHANGED <<back, ready, liens, handled, got>>,
           Behind', InHand', Within', LocksHere', Untyped', Headed',
           Watched' <=> Watched, Watched => held' = held
    PROVE  AllTaken'
  <1>1. DoneTaken(liens, handled, got)' /\ Shelved(ready)'
    BY DEF AllTaken, InOrder, DoneTaken, Shelved
  <1>2. Spared'
    BY DEF AllTaken, Roomy, Spared, Free, Guarded
  <1>3. Nameless'
    BY DEF AllTaken, SlotsOwned, Nameless, Dropped, Live
  <1> QED BY <1>1, <1>2, <1>3 DEF AllTaken, InOrder, Roomy, SlotsOwned

\* And the link at hand too.
LEMMA StillTaken ==
    ASSUME AllTaken, UNCHANGED <<back, ready, liens, handled, got, ptr>>,
           Within', Untyped', Headed',
           Watched' <=> Watched, Watched => held' = held,
           Pending => Pending' \/ SlotsOf(back, Here.url) = {},
           AskedFor' => AskedFor \/ Sought(back, ready, liens, got, ptr),
           pc' # "done" \/ pc = "done",
           pc' = "advance" /\ pc # "advance" /\ ptr \in DOMAIN liens => Taken(ptr),
           Parsing' => Parsing
    PROVE  AllTaken'
  <1>1. \A i : Taken(i)' <=> Taken(i)
    BY DEF Taken, SavedLink
  <1>2. Behind'
    BY <1>1 DEF AllTaken, InOrder, Behind
  <1>3. Sought(back, ready, liens, got, ptr)' <=> Sought(back, ready, liens, got, ptr)
    BY DEF Sought, SlotsOf, SavedLink
  <1>4. InHand'
    BY <1>3 DEF AllTaken, InOrder, InHand
  <1>5. LocksHere'
    <2>1. Here' = Here
      BY DEF Here, At
    <2>2. \A s \in Slots : Guarded(back, s) /\ back[s].url = Here.url =>
             SlotsOf(back, Here.url) # {}
      BY DEF Guarded, SlotsOf
    <2>3. \A s \in Slots : Guarded(back', s) <=> Guarded(back, s)
      BY DEF Guarded
    <2> QED BY <2>1, <2>2, <2>3 DEF AllTaken, SlotsOwned, LocksHere
  <1> QED BY <1>2, <1>4, <1>5, QuietTaken

LEMMA LoopTaken ==
    ASSUME NEW Rank, JInv, Once(Rank), ~htmlFirst, AllTaken, Top \/ Advance PROVE AllTaken'
  <1>1. /\ UNCHANGED <<back, ready, liens, handled, got>>
        /\ Tot \in Nat /\ Tot = Len(liens) /\ ptr \in Nat \ {0} /\ DOMAIN liens = 1 .. Tot
        /\ pc \in {"top", "advance"} /\ pc' \in {"plug", "advance", "done", "top"}
    BY LiensFacts DEF Top, Advance, KeepBack, Step, JInv, IInv, Types
  <1>2. ~Watched /\ ~Watched' /\ ~Pending /\ ~AskedFor' /\ ~Parsing'
    BY <1>1 DEF Watched, Watching, Pending, AskedFor, Parsing
  <1>3. InHand' /\ Untyped' /\ Headed' /\ Within'
    BY <1>1, <1>2 DEF InHand, Untyped, Headed, Within, AllTaken, Roomy, Busy
  <1>4. LocksHere'
    <2>1. \A s \in Slots : ~Guarded(back, s)
      BY <1>2, NoLocks DEF AllTaken, SlotsOwned
    <2> QED BY <1>1, <2>1 DEF LocksHere, Guarded
  <1>5. \A i : Taken(i)' <=> Taken(i)
    BY <1>1 DEF Taken, SavedLink
  <1>6. Behind'
    <2>1. CASE Top
      <3>1. /\ ptr' = Skip(ptr, Done) /\ pc' = IF ptr' > Tot THEN "advance" ELSE "plug"
            /\ ptr' \in Nat
        BY <1>1, <2>1, SkipAhead DEF Top, Step
      <3>2. ASSUME NEW i \in DOMAIN liens, i < ptr' PROVE Taken(i)
        <4>1. CASE i < ptr
          BY <4>1 DEF AllTaken, InOrder, Behind
        <4>2. CASE ~(i < ptr)
          <5>1. i \in 1 .. Tot /\ ptr <= i
            BY <1>1, <4>2
          <5>2. i \in Done
            BY <1>1, <3>1, <3>2, <5>1, SkipsOver
          <5>3. liens[i].pass2 = -1
            BY <5>2 DEF Done, At
          <5> QED BY <5>3 DEF AllTaken, InOrder, DoneTaken, Taken, SavedLink
        <4> QED BY <4>1, <4>2
      <3>3. pc' = "advance" => ptr' \notin DOMAIN liens
        BY <1>1, <3>1
      <3> QED BY <1>1, <1>2, <1>5, <3>1, <3>2, <3>3 DEF Behind
    <2>2. CASE Advance
      <3>1. ptr' = ptr + 1 /\ pc' = IF ptr' > Tot THEN "done" ELSE "top"
        BY <1>1, <2>2 DEF Advance, NextLink, Step
      <3>2. pc = "advance"
        BY <2>2 DEF Advance
      <3>3. ASSUME NEW i \in DOMAIN liens, i < ptr' PROVE Taken(i)
        <4>1. i \in Nat
          BY <1>1
        <4>2. i < ptr \/ i = ptr
          BY <1>1, <3>1, <3>3, <4>1
        <4> QED BY <3>2, <4>2 DEF AllTaken, InOrder, Behind
      <3> QED BY <1>1, <1>2, <1>5, <3>1, <3>3 DEF Behind
    <2> QED BY <2>1, <2>2
  <1> QED BY <1>1, <1>2, <1>3, <1>4, <1>6, QuietTaken

LEMMA FillStartTaken ==
    ASSUME JInv, AllTaken, FillStart PROVE AllTaken'
  <1>1. /\ UNCHANGED <<back, ready, liens, handled, got, ptr, held, todo>>
        /\ pc \in {"wantFill", "look2Fill", "parseFill", "typedFill"}
        /\ FillReturns["wantFill"] = "plug2" /\ FillReturns["look2Fill"] = "look3"
        /\ FillReturns["parseFill"] = "parse" /\ FillReturns["typedFill"] = "typeTest"
    BY DEF FillStart, FillReturns, KeepBack, queue
  <1>2. \/ pc' = FillReturns[pc] /\ pc' # "fill"
        \/ pc' = "fill" /\ ret' = FillReturns[pc] /\ room' \in 1 .. Pluggable
    BY <1>1 DEF FillStart, Step
  <1>3. /\ Watched' <=> Watched
        /\ Pending => Pending'
        /\ AskedFor' => AskedFor
        /\ pc' \notin {"done", "advance", "want", "naming", "socket"}
        /\ Parsing' => Parsing
    BY <1>1, <1>2 DEF Watched, Watching, Pending, AskedFor, Parsing
  <1>4. Within'
    <2>1. Cardinality(Busy(back)) <= MaxSoc
      BY DEF AllTaken, Roomy, Within
    <2>2. CASE pc' = "fill" /\ room' \in 1 .. Pluggable
      <3>1. Cardinality(Busy(back)) \in Nat /\ Cardinality(Free(back)) \in Nat
        BY SlotCounts DEF Busy, Free
      <3>2. Pluggable <= MaxSoc - Cardinality(Busy(back))
            /\ Pluggable <= Cardinality(Free(back)) - Spare /\ Pluggable \in Int
        BY <3>1, SlotsAssumption DEF Pluggable, Least
      <3>3. room' \in Nat /\ room' <= Pluggable
        BY <2>2, <3>2
      <3>4. Cardinality(Free(back)) >= Spare + room' /\ Cardinality(Busy(back)) + room' <= MaxSoc
        BY <3>1, <3>2, <3>3, SlotsAssumption
      <3> QED BY <1>1, <2>1, <2>2, <3>3, <3>4 DEF Within
    <2>3. CASE pc' # "fill"
      BY <1>1, <1>3, <2>1, <2>3 DEF Within
    <2> QED BY <1>2, <2>2, <2>3
  <1>5. Untyped' /\ Headed'
    BY <1>1, <1>3 DEF Untyped, Headed, AllTaken, SlotsOwned
  <1> QED BY <1>1, <1>3, <1>4, <1>5, StillTaken

\* The others that ask for nothing.
LEMMA IdleTaken ==
    ASSUME JInv, AllTaken,
           \/ FillEnd \/ ParseKnown \/ ParseDelayed \/ ParseEnd
           \/ TypeRecorded \/ TypeAgain \/ UNCHANGED vars
    PROVE  AllTaken'
  <1>1. UNCHANGED <<back, ready, liens, handled, got, ptr, held>>
    BY DEF FillEnd, ParseKnown, ParseDelayed, ParseEnd, TypeRecorded, TypeAgain,
       KeepBack, queue, vars
  <1>2. CASE UNCHANGED vars
    BY <1>2 DEF vars, AllTaken, InOrder, Roomy, SlotsOwned, DoneTaken, Behind, InHand, Within,
       Spared, LocksHere, Nameless, Untyped, Headed, Shelved, Sought, SavedLink, Taken, AskedFor,
       Parsing, Pending, Watched, Watching, Dropped, Guarded, Live, SlotsOf, Busy, Free, Here, At
  <1>3. CASE ~UNCHANGED vars
    <2>1. \/ pc = "fill" /\ pc' = ret /\ todo' = todo
          \/ pc = "parse" /\ pc' = "parse"
          \/ pc = "parse" /\ pc' = "socket" /\ todo' = todo /\ Head(todo) \notin Typed
          \/ pc = "parse" /\ pc' = "advance"
          \/ pc = "socket" /\ pc' = "parse"
          \/ pc = "typeTest" /\ pc' = "typed" /\ todo' = todo
      BY <1>3 DEF FillEnd, ParseKnown, ParseDelayed, ParseEnd, TypeRecorded, TypeAgain, Step
    <2>2. ret \in {"plug2", "look3", "parse", "typeTest"}
      BY DEF JInv, IInv, Types
    <2>3. /\ Watched' <=> Watched
          /\ Pending => Pending'
          /\ AskedFor' => AskedFor
          /\ pc' \notin {"done", "want", "naming", "fill"}
          /\ Parsing' => Parsing
          /\ Watched => todo' = todo
          /\ pc' = "socket" => todo' = todo /\ Head(todo) \notin Typed
      BY <2>1, <2>2 DEF Watched, Watching, Pending, AskedFor, Parsing
    <2>4. pc' = "advance" => Taken(ptr)
      BY <2>1, <2>2 DEF Parsing, Taken, AllTaken, InOrder, Behind
    <2>5. Within' /\ Untyped' /\ Headed'
      BY <1>1, <2>3 DEF Within, Untyped, Headed, AllTaken, Roomy, SlotsOwned, Busy
    <2> QED BY <1>1, <2>3, <2>4, <2>5, StillTaken
  <1> QED BY <1>2, <1>3

-----------------------------------------------------------------------------
(* The steps that pump                                                       *)

\* What was asked for is not lost.
LEMMA ClearedSought ==
    ASSUME NEW Rank, JInv, Once(Rank), AllTaken, NEW new, Cleared(new), AskedFor,
           handled' = handled, ptr' = ptr
    PROVE  Sought(back, ready, liens, got, ptr)'
  <1>1. ~Watched /\ Untaken
    BY DEF AskedFor, Watched, Watching, Untaken
  <1>2. ptr \in DOMAIN liens \ handled
    <2>1. pc \notin {"top", "advance", "done"}
      BY DEF AskedFor
    <2> QED BY <1>1, <2>1, LiensFacts DEF JInv, IInv, Types, Place, Once, Passed
  <1>3. \A s \in SlotsOf(back, liens[ptr].url) : back[s].name \in Name
    BY <1>1, <1>2, NamedHere DEF JInv, AllTaken, SlotsOwned
  <1>4. Sought(back, ready, liens, got, ptr)
    BY DEF AllTaken, InOrder, InHand
  <1>5. Sought(back', ready', liens', got', ptr)
    BY <1>2, <1>3, <1>4 DEF Cleared
  <1>6. Sought(back, ready, liens, got, ptr)' <=> Sought(back', ready', liens', got', ptr')
    BY DEF Sought, SlotsOf, SavedLink
  <1> QED BY <1>5, <1>6

LEMMA ClearedOrder ==
    ASSUME JInv, AllTaken, NEW new, Cleared(new), handled' = handled, ptr' = ptr,
           Parsing' => Parsing, pc' \notin {"advance", "done"}, InHand'
    PROVE  InOrder'
  <1>1. \A i \in DOMAIN liens : Taken(i) => Taken(i)'
    BY DEF Cleared, Taken
  <1>2. DOMAIN liens' = DOMAIN liens
    BY DEF Cleared
  <1>3. Behind'
    BY <1>1, <1>2 DEF AllTaken, InOrder, Behind
  <1>4. DoneTaken(liens, handled, got)'
    BY DEF Cleared, DoneTaken
  <1> QED BY <1>3, <1>4 DEF InOrder

LEMMA ClearedSlots ==
    ASSUME AllTaken, NEW new, Cleared(new), NEW s \in Slots \ new
    PROVE  /\ Live(back'[s]) /\ back'[s].name \notin Name => Watched /\ s = held
           /\ Guarded(back', s) => Guarded(back, s) /\ back'[s].url = back[s].url
  <1>1. Dropped(back, liens, s) => Swappable(s)
    BY DEF Dropped, Swappable
  <1> QED BY <1>1 DEF Cleared, AllTaken, SlotsOwned, Nameless, Guarded, Live

\* Without a new slot, the table only gets roomier.
LEMMA ClearedRoom ==
    ASSUME Tables, AllTaken, Cleared({})
    PROVE  /\ Cardinality(Busy(back)') <= Cardinality(Busy(back))
           /\ Cardinality(Busy(back)') <= MaxSoc
           /\ Free(back) \subseteq Free(back)'
  <1>1. Busy(back)' \in SUBSET Busy(back) /\ Busy(back) \in SUBSET Slots
    BY DEF Cleared, Busy
  <1>2. Free(back) \subseteq Free(back)'
    BY DEF Cleared, Free
  <1>3. Cardinality(Busy(back)') <= Cardinality(Busy(back))
    <2> DEFINE T == Busy(back)'
    <2>1. T \in SUBSET Busy(back)
      BY <1>1
    <2> HIDE DEF T
    <2>2. Cardinality(T) <= Cardinality(Busy(back))
      BY <1>1, <2>1, NoMore
    <2> QED BY <2>2 DEF T
  <1>4. Cardinality(Busy(back)') \in Nat /\ Cardinality(Busy(back)) \in Nat
    <2>1. \A S \in SUBSET Slots : Cardinality(S) \in Nat
      BY SlotCounts
    <2>2. Busy(back)' \in SUBSET Slots
      BY <1>1
    <2> QED BY <1>1, <2>1, <2>2
  <1>5. Cardinality(Busy(back)) <= MaxSoc
    BY DEF AllTaken, Roomy, Within
  <1> QED BY <1>2, <1>3, <1>4, <1>5, SlotsAssumption

LEMMA PumpTaken ==
    ASSUME NEW Rank, JInv, Once(Rank), AllTaken, troubles = 0, troubles' = 0,
           \/ Plugged \/ Receive \/ ParsePump \/ SocketWait
           \/ TypePump /\ Pump
    PROVE  AllTaken'
  <1>1. /\ Pump /\ Tables /\ UNCHANGED <<ptr, handled, todo>>
        /\ \/ pc = "plugged" /\ pc' \in {"plugged", "want"}
           \/ pc = "plugged2" /\ pc' \in {"plugged2", "look"}
           \/ pc = "receive" /\ pc' = "look2"
           \/ pc = "parse" /\ pc' = "parseFill"
           \/ pc = "socket" /\ pc' = "socket"
           \/ pc = "typed" /\ pc' = "typedFill" /\ held' = held
        /\ pc' = "want" => MayConnect'
    BY DEF Plugged, Receive, ParsePump, SocketWait, TypePump, Step, JInv, IInv, Types
  <1>2. Cleared({})
    BY <1>1, PumpCleared DEF JInv, Once, TallyNow, AllTaken, InOrder
  <1>3. /\ Watched' <=> Watched
        /\ Watched => held' = held
        /\ Pending => Pending'
        /\ AskedFor' => AskedFor
        /\ pc' \notin {"done", "advance", "naming", "fill"}
        /\ Parsing' => Parsing
        /\ pc' = "socket" => pc = "socket"
    BY <1>1 DEF Watched, Watching, Pending, AskedFor, Parsing
  <1>4. InHand'
    BY <1>1, <1>2, <1>3, ClearedSought DEF InHand
  <1>5. InOrder'
    BY <1>1, <1>2, <1>3, <1>4, ClearedOrder
  <1>6. Within' /\ Spared'
    <2>1. Within'
      BY <1>1, <1>2, <1>3, ClearedRoom DEF Within, MayConnect
    <2>2. \A s \in Slots : Guarded(back, s) => Guarded(back, s)'
      BY <1>2 DEF Cleared, Guarded
    <2>3. Spared'
      BY <1>1, <1>2, <1>3, <2>2, ClearedRoom DEF Spared, AllTaken, Roomy
    <2> QED BY <2>1, <2>3
  <1>7. Here'.url = Here.url \/ ~Pending
    <2>1. Pending => ptr \in DOMAIN liens
      BY <1>1, LiensFacts DEF Pending, JInv, IInv, Place
    <2> QED BY <1>1, <1>2, <2>1 DEF Here, At, Cleared
  <1>8. LocksHere' /\ Nameless'
    <2>1. \A s \in Slots :
            /\ Live(back'[s]) /\ back'[s].name \notin Name => Watched /\ s = held
            /\ Guarded(back', s) => Guarded(back, s) /\ back'[s].url = back[s].url
      BY <1>2, ClearedSlots
    <2>2. \A s \in Slots : Guarded(back, s)' <=> Guarded(back', s)
      BY DEF Guarded
    <2>3. \A s \in Slots : Live(back[s])' <=> Live(back'[s])
      BY DEF Live
    <2>4. LocksHere'
      BY <1>3, <1>7, <2>1, <2>2 DEF LocksHere, AllTaken, SlotsOwned
    <2>5. Nameless'
      BY <1>3, <2>1, <2>3 DEF Nameless
    <2> QED BY <2>4, <2>5
  <1>9. Untyped' /\ Headed'
    BY <1>1, <1>3 DEF Untyped, Headed, AllTaken, SlotsOwned
  <1>10. Shelved(ready)'
    BY <1>2 DEF Cleared, Shelved
  <1> QED BY <1>5, <1>6, <1>8, <1>9, <1>10 DEF AllTaken, Roomy, SlotsOwned

-----------------------------------------------------------------------------
(* The steps that look for the link at hand                                  *)

\* Without trouble, what was swapped for the link at hand comes back.
LEMMA WakeBack ==
    ASSUME NEW Rank, Tables, UInv(back, ready, liens), Shelved(ready),
           Tally(Rank, back, ready, liens, handled, got),
           LocksHere, Spared, ~Watched, troubles = 0, troubles' = 0,
           ptr \in DOMAIN liens \ handled, Here.name \in Name,
           SlotsOf(back, Here.url) = {}, ready[Here.name].state = "swapped",
           NEW found, NEW lost, Wake(Here.name, found, lost)
    PROVE  /\ pc' = found
           /\ ready' = [ready EXCEPT ![Here.name] = NotStored]
           /\ \E m \in Slots :
                 /\ back[m].status = "free" /\ held' = m
                 /\ \A s \in Slots \ {m} : back'[s] = back[s]
                 /\ back'[m].status = "ready" /\ back'[m].locked = "locked"
                 /\ back'[m].url = Here.url /\ back'[m].name = Here.name
  <1> DEFINE n == Here.name
             t == [ready[n].slot EXCEPT !.locked = "locked"]
             m == Min(Free(back))
  <1>1. Free(back) # {}
    <2>1. \A s \in Slots : ~Guarded(back, s)
      BY DEF LocksHere, SlotsOf, Guarded
    <2> QED BY <2>1 DEF Spared
  <1>2. m \in Slots /\ back[m].status = "free"
    BY <1>1, SlotSets
  <1>3. ready[n].slot \in SlotRec
    BY DEF Tables, Stored
  <1>4. /\ t.url = ready[n].slot.url /\ t.status = ready[n].slot.status
        /\ t.name = ready[n].slot.name /\ t.locked = "locked"
    BY <1>3 DEF SlotRec
  <1>5. /\ Live(ready[n].slot) /\ ready[n].slot.name = n
        /\ n = NameOf[ready[n].slot.url] /\ ready[n].slot.status = "ready"
    BY DEF UInv, Labelled, Named1, Shelved
  <1>6. Awaited(ready[n].slot, liens, handled)
    BY <1>5 DEF Tally, Followed, Fine
  <1>7. PICK i \in DOMAIN liens \ handled : liens[i].url = ready[n].slot.url
    BY <1>6 DEF Awaited
  <1>8. liens[i].name = liens[ptr].name
    BY <1>5, <1>7 DEF UInv, Labelled, Here, At
  <1>9. i = ptr
    BY <1>8, OneToCome DEF Tally
  <1>10. t.url = Here.url
    BY <1>4, <1>7, <1>9 DEF Here, At
  <1>11. /\ back' = [back EXCEPT ![m] = t] /\ held' = m /\ pc' = found
         /\ ready' = [ready EXCEPT ![n] = NotStored]
    BY <1>1 DEF Wake, Step
  <1> HIDE DEF t, m, n
  <1>12. back'[m] = t /\ \A s \in Slots \ {m} : back'[s] = back[s]
    BY <1>2, <1>11 DEF Tables
  <1> QED BY <1>2, <1>4, <1>5, <1>10, <1>11, <1>12 DEF n

LEMMA WokenTaken ==
    ASSUME NEW Rank, JInv, Once(Rank), AllTaken, troubles = 0, troubles' = 0,
           Pending, pc # "fill", SlotsOf(back, Here.url) = {},
           ready[Here.name].state = "swapped",
           NEW found \in {"plugged", "plugged2", "consume"}, NEW lost,
           Wake(Here.name, found, lost), UNCHANGED <<ptr, liens, handled, got>>
    PROVE  AllTaken'
  <1>1. ~Watched /\ Untaken /\ pc \notin {"top", "advance", "done"}
    BY DEF Pending, Watched, Watching, Untaken
  <1>2. ptr \in DOMAIN liens \ handled /\ Here.name \in Name /\ Tables
    BY <1>1, LiensFacts, HereFacts DEF JInv, IInv, Types, Place, Once, Passed
  <1>3. /\ pc' = found
        /\ ready' = [ready EXCEPT ![Here.name] = NotStored]
        /\ \E m \in Slots :
              /\ back[m].status = "free" /\ held' = m
              /\ \A s \in Slots \ {m} : back'[s] = back[s]
              /\ back'[m].status = "ready" /\ back'[m].locked = "locked"
              /\ back'[m].url = Here.url /\ back'[m].name = Here.name
    BY <1>1, <1>2, WakeBack DEF JInv, Once, TallyNow, AllTaken, Roomy, SlotsOwned
  <1>4. PICK m \in Slots :
              /\ back[m].status = "free" /\ held' = m
              /\ \A s \in Slots \ {m} : back'[s] = back[s]
              /\ back'[m].status = "ready" /\ back'[m].locked = "locked"
              /\ back'[m].url = Here.url /\ back'[m].name = Here.name
    BY <1>3
  <1>5. ~Watched' /\ Pending' /\ ~Parsing'
        /\ pc' \notin {"advance", "done", "want", "fill", "socket", "naming"}
    BY <1>3 DEF Watched, Watching, Pending, Parsing
  <1>6. Here' = Here
    BY DEF Here, At
  <1>7. InOrder'
    <2>1. DoneTaken(liens, handled, got)'
      BY DEF AllTaken, InOrder, DoneTaken
    <2>2. \A i : Taken(i)' <=> Taken(i)
      BY DEF Taken, SavedLink
    <2>3. Behind'
      BY <1>5, <2>2 DEF AllTaken, InOrder, Behind
    <2>4. m \in SlotsOf(back', liens'[ptr'].url)
      BY <1>4 DEF SlotsOf, Here, At
    <2>5. InHand'
      BY <2>4 DEF InHand, Sought, SlotsOf
    <2> QED BY <2>1, <2>3, <2>5 DEF InOrder
  <1>8. Within'
    <2>1. \A s \in Slots : back'[s].status = "busy" <=> back[s].status = "busy"
      BY <1>4
    <2>2. Busy(back)' = Busy(back)
      BY <2>1 DEF Busy
    <2> QED BY <1>5, <2>2 DEF Within, AllTaken, Roomy
  <1>9. Spared'
    BY <1>4, <1>5 DEF Spared, Guarded
  <1>10. LocksHere'
    <2>1. \A s \in Slots : ~Guarded(back, s)
      BY <1>1 DEF AllTaken, SlotsOwned, LocksHere, SlotsOf, Guarded
    <2> QED BY <1>4, <1>5, <1>6, <2>1 DEF LocksHere, Guarded
  <1>11. Nameless'
    BY <1>1, <1>2, <1>4, <1>5 DEF AllTaken, SlotsOwned, Nameless, Dropped, Live
  <1>12. Untyped' /\ Headed'
    BY <1>5 DEF Untyped, Headed
  <1>13. Shelved(ready)'
    <2>1. ready'[Here.name].state = "none" /\ \A n \in Name \ {Here.name} : ready'[n] = ready[n]
      BY <1>2, <1>3 DEF Tables, NotStored
    <2> QED BY <2>1 DEF AllTaken, Shelved
  <1> QED BY <1>7, <1>8, <1>9, <1>10, <1>11, <1>12, <1>13 DEF AllTaken, Roomy, SlotsOwned

LEMMA LookTaken ==
    ASSUME NEW Rank, JInv, Once(Rank), AllTaken, troubles = 0, troubles' = 0, Plug \/ Look
    PROVE  AllTaken'
  <1> DEFINE wait == IF pc = "plug" THEN "plugged" ELSE "plugged2"
             on == IF pc = "plug" THEN "want" ELSE "look"
             slots == SlotsOf(back, Here.url)
             swapped == ready[Here.name].state = "swapped"
  <1>1. /\ UNCHANGED <<ptr, liens, handled>> /\ pc \in {"plug", "plug2", "look", "look2", "look3"}
    BY DEF Plug, Look, queue
  <1>2. Pending /\ ~Watched /\ pc # "fill" /\ ~Parsing
    BY <1>1 DEF Pending, Watched, Watching, Parsing
  <1>3. CASE slots = {} /\ swapped /\ UNCHANGED got
             /\ (Wake(Here.name, wait, wait) \/ Wake(Here.name, "consume", "advance"))
    BY <1>1, <1>2, <1>3, WokenTaken
  <1>4. CASE /\ KeepBack
             /\ \/ pc = "plug" /\ pc' = "want" /\ MayConnect
                \/ pc = "plug" /\ pc' = "plugged"
                \/ pc = "plug2" /\ pc' \in {"look", "plugged2"}
                \/ pc = "look" /\ pc' \in {"receive", "consume"}
                \/ pc = "look2" /\ pc' \in {"look2Fill", "consume"}
                \/ pc = "look3" /\ pc' \in {"plug2", "consume"}
                \/ pc \in {"look", "look2", "look3"} /\ slots = {} /\ ~swapped /\ pc' = "advance"
    <2>1. UNCHANGED <<back, ready, got>>
      BY <1>4 DEF KeepBack
    <2>2. /\ ~Watched'
          /\ Pending' \/ slots = {}
          /\ AskedFor' => AskedFor
          /\ pc' \notin {"done", "fill", "naming", "socket"}
          /\ ~Parsing'
      BY <1>4 DEF Watched, Watching, Pending, AskedFor, Parsing
    <2>3. pc' = "advance" => Taken(ptr)
      <3> SUFFICES ASSUME pc' = "advance" PROVE Taken(ptr)
        OBVIOUS
      <3>1. pc \in {"look", "look2", "look3"} /\ slots = {} /\ ~swapped
        BY <1>4
      <3>2. Sought(back, ready, liens, got, ptr)
        BY <3>1 DEF AllTaken, InOrder, InHand, AskedFor
      <3> QED BY <3>1, <3>2 DEF Sought, Taken, Here, At
    <2>4. Within'
      BY <1>4, <2>1, <2>2 DEF Within, AllTaken, Roomy, MayConnect, Busy
    <2>5. Untyped' /\ Headed'
      BY <2>2 DEF Untyped, Headed
    <2> QED BY <1>1, <1>2, <2>1, <2>2, <2>3, <2>4, <2>5, StillTaken
  <1>5. CASE Plug
    <2>1. CASE MayConnect /\ pc' = on /\ KeepBack
      BY <1>4, <1>5, <2>1 DEF Plug
    <2>2. CASE slots = {} /\ swapped /\ Wake(Here.name, wait, wait) /\ UNCHANGED got
      BY <1>3, <2>2
    <2>3. CASE pc' = wait /\ UNCHANGED <<back, ready, troubles, got, wasted>>
      BY <1>4, <1>5, <2>3 DEF Plug, KeepBack
    <2> QED BY <1>5, <2>1, <2>2, <2>3 DEF Plug, Step
  <1>6. CASE Look
    <2> DEFINE to == [look |-> "receive", look2 |-> "look2Fill", look3 |-> "plug2"]
    <2>1. to["look"] = "receive" /\ to["look2"] = "look2Fill" /\ to["look3"] = "plug2"
          /\ pc \in {"look", "look2", "look3"}
      BY <1>6 DEF Look
    <2>2. CASE KeepBack /\ pc' \in {to[pc], "consume"}
      BY <1>4, <2>1, <2>2
    <2>3. CASE slots = {} /\ swapped /\ Wake(Here.name, "consume", "advance") /\ UNCHANGED got
      BY <1>3, <2>3
    <2>4. CASE slots = {} /\ ~swapped /\ pc' = "advance" /\ KeepBack
      BY <1>4, <2>1, <2>4
    <2> QED BY <1>6, <2>2, <2>3, <2>4 DEF Look, Step
  <1> QED BY <1>5, <1>6

-----------------------------------------------------------------------------
(* The steps that ask for a link                                             *)

\* A slot is still free, or will be, after one was taken within the connections.
LEMMA SparesOne ==
    ASSUME Tables, MaxSlots > MaxSoc, NEW m \in Slots, Cleared({m}),
           Cardinality(Busy(back)) < MaxSoc
    PROVE  \E s \in Slots : back'[s].status = "free" \/ (Guarded(back, s) /\ Guarded(back', s))
  <1>1. Busy(back) \in SUBSET Slots
    BY DEF Busy
  <1>2. PICK s \in Slots : s \notin Busy(back) \cup {m}
    BY <1>1, OneFree
  <1>3. Live(back'[s]) => Live(back[s]) /\ ~Swappable(s) /\ back[s].status # "busy"
    BY <1>2 DEF Cleared, Busy
  <1>4. Live(back[s]) /\ ~Swappable(s) /\ back[s].status # "busy" => Guarded(back, s)
    BY DEF Live, Swappable, Guarded, Tables, SlotRec
  <1>5. Guarded(back', s) <=> Guarded(back, s)
    BY <1>2 DEF Cleared
  <1>6. CASE Live(back'[s])
    <2>1. Guarded(back, s) /\ Guarded(back', s)
      BY <1>3, <1>4, <1>5, <1>6
    <2> QED BY <2>1
  <1>7. CASE ~Live(back'[s])
    BY <1>7 DEF Live
  <1> QED BY <1>6, <1>7

LEMMA CountsOne ==
    ASSUME NEW m \in Slots, Cleared({m})
    PROVE  /\ Cardinality(Busy(back)') <= Cardinality(Busy(back)) + 1
           /\ Cardinality(Free(back)') + 1 >= Cardinality(Free(back))
           /\ Cardinality(Busy(back)') \in Nat /\ Cardinality(Busy(back)) \in Nat
           /\ Cardinality(Free(back)') \in Nat /\ Cardinality(Free(back)) \in Nat
  <1> DEFINE B == Busy(back)'
             F == Free(back)'
  <1>1. B \in SUBSET (Busy(back) \cup {m}) /\ Free(back) \in SUBSET (F \cup {m})
    BY DEF Cleared, Busy, Free
  <1>2. B \in SUBSET Slots /\ F \in SUBSET Slots
        /\ Busy(back) \in SUBSET Slots /\ Free(back) \in SUBSET Slots
    BY DEF Busy, Free
  <1> HIDE DEF B, F
  <1>3. Cardinality(B) <= Cardinality(Busy(back)) + 1
    BY <1>1, <1>2, OneMore
  <1>4. Cardinality(Free(back)) <= Cardinality(F) + 1
    BY <1>1, <1>2, OneMore
  <1>5. /\ Cardinality(B) \in Nat /\ Cardinality(F) \in Nat
        /\ Cardinality(Busy(back)) \in Nat /\ Cardinality(Free(back)) \in Nat
    BY <1>2, SlotCounts
  <1>6. Cardinality(F) + 1 >= Cardinality(Free(back))
    BY <1>4, <1>5
  <1> QED BY <1>3, <1>5, <1>6 DEF B, F

\* A slot that is taken under its name, unlocked, disturbs no other.
LEMMA AddedTaken ==
    ASSUME JInv, AllTaken, NEW m \in Slots, Cleared({m}), back'[m].locked = "no",
           back'[m].name \in Name, handled' = handled, ptr' = ptr,
           Pending => ptr \in DOMAIN liens,
           Parsing' => Parsing, pc' \notin {"advance", "done", "naming", "socket"},
           Watched' <=> Watched, Watched => held' = held /\ todo' = todo,
           Pending => Pending', InHand', Within', Spared'
    PROVE  AllTaken'
  <1>1. InOrder'
    BY ClearedOrder
  <1>2. \A s \in Slots \ {m} :
            /\ Live(back'[s]) /\ back'[s].name \notin Name => Watched /\ s = held
            /\ Guarded(back', s) => Guarded(back, s) /\ back'[s].url = back[s].url
    BY ClearedSlots
  <1>3. ~Guarded(back', m)
    BY DEF Guarded
  <1>4. Pending => Here'.url = Here.url
    BY DEF Here, At, Cleared
  <1>5. LocksHere'
    <2>1. \A s \in Slots : Guarded(back, s)' <=> Guarded(back', s)
      BY DEF Guarded
    <2> QED BY <1>2, <1>3, <1>4, <2>1 DEF LocksHere, AllTaken, SlotsOwned
  <1>6. Nameless'
    <2>1. \A s \in Slots : Live(back[s])' <=> Live(back'[s])
      BY DEF Live
    <2> QED BY <1>2, <2>1 DEF Nameless
  <1>7. Untyped' /\ Headed'
    BY DEF Untyped, Headed, AllTaken, SlotsOwned
  <1>8. Shelved(ready)'
    BY DEF Cleared, Shelved
  <1> QED BY <1>1, <1>5, <1>6, <1>7, <1>8 DEF AllTaken, Roomy, SlotsOwned

\* What back_add() is asked for a link of the heap.
LEMMA HeapSlot ==
    ASSUME Tables, NEW p \in DOMAIN liens
    PROVE  LET slot == NewSlot(At(p).url, At(p).name)
           IN /\ slot \in SlotRec /\ slot.url = liens[p].url
              /\ slot.name \in Name /\ slot.locked = "no"
  <1>1. At(p).url \in Url /\ At(p).name \in Name
    BY LiensFacts DEF At, Item
  <1>2. NewSlot(At(p).url, At(p).name) \in SlotRec /\ NewSlot(At(p).url, At(p).name).url = At(p).url
    BY <1>1, SlotTyped
  <1>3. NewSlot(At(p).url, At(p).name).name = At(p).name
        /\ NewSlot(At(p).url, At(p).name).locked = "no"
    BY FreeTyped DEF NewSlot, SlotRec, FreeSlot
  <1> QED BY <1>1, <1>2, <1>3 DEF At

LEMMA HeapAdded ==
    ASSUME NEW Rank, JInv, Once(Rank), AllTaken, troubles = 0, troubles' = 0,
           NEW p \in DOMAIN liens, Add(NewSlot(At(p).url, At(p).name)),
           ~Exist(back, ready, At(p).url, At(p).name), Free(back) # {}
    PROVE  \E m \in Slots :
              /\ Cleared({m}) /\ Live(back'[m]) /\ back'[m].url = liens[p].url
              /\ back'[m].name \in Name /\ back'[m].locked = "no"
  <1> DEFINE slot == NewSlot(At(p).url, At(p).name)
  <1>1. Tables
    BY DEF JInv, IInv, Types
  <1>2. slot \in SlotRec /\ slot.url = liens[p].url /\ slot.name \in Name /\ slot.locked = "no"
    BY <1>1, HeapSlot
  <1>3. SlotsOf(back, slot.url) = {}
    BY <1>2 DEF Exist, At
  <1>4. SlotsOf(Clear, slot.url) = {} /\ Free(Clear) # {}
    <2>1. \A s \in Slots : Live(Clear[s]) => Clear[s] = back[s]
      BY <1>1, ClearSlots
    <2>2. Free(back) \subseteq Free(Clear)
      BY <1>1, ClearSlots
    <2> HIDE DEF slot
    <2> QED BY <1>3, <2>1, <2>2 DEF SlotsOf, Live
  <1> HIDE DEF slot
  <1>5. Add(slot)
    BY DEF slot
  <1>6. \E m \in Slots :
              /\ Cleared({m}) /\ Clear[m].status = "free"
              /\ Live(back'[m]) /\ back'[m].url = slot.url /\ back'[m].name = slot.name
              /\ back'[m].locked = slot.locked
    BY <1>1, <1>2, <1>4, <1>5, AddCleared DEF JInv, Once, TallyNow, AllTaken, InOrder
  <1> QED BY <1>2, <1>6

LEMMA WantTaken ==
    ASSUME NEW Rank, JInv, Once(Rank), AllTaken, troubles = 0, troubles' = 0,
           MaxSlots > MaxSoc, Want
    PROVE  AllTaken'
  <1>1. /\ pc = "want" /\ UNCHANGED <<ptr, handled, todo, held>>
        /\ Tables /\ Pending /\ ~Watched /\ ~Parsing /\ ~AskedFor /\ Untaken
    BY DEF Want, JInv, IInv, Types, Pending, Watched, Watching, Parsing, AskedFor, Untaken
  <1>2. ptr \in DOMAIN liens \ handled
    BY <1>1, LiensFacts DEF JInv, IInv, Place, Once, Passed
  <1>3. CASE ptr \in Done /\ pc' = "advance" /\ liens' = liens /\ KeepBack
    <2>1. liens[ptr].url \in got /\ liens[ptr].pass2 = -1
      BY <1>2, <1>3 DEF Done, At, AllTaken, InOrder, DoneTaken
    <2>2. SlotsOf(back, Here.url) = {}
      BY <2>1 DEF SlotsOf, Once, TallyNow, Tally, Followed, Fine, Live, Here, At
    <2>3. ~Watched' /\ ~AskedFor' /\ ~Parsing' /\ Within' /\ Untyped' /\ Headed'
      BY <1>3 DEF Watched, Watching, AskedFor, Parsing, Within, Untyped, Headed, AllTaken,
         Roomy, KeepBack, Busy
    <2>4. Taken(ptr)
      BY <2>1 DEF Taken, SavedLink
    <2> QED BY <1>1, <1>3, <2>2, <2>3, <2>4, StillTaken DEF KeepBack
  <1>4. CASE Exist(back, ready, Here.url, Here.name) /\ pc' = "wantFill"
             /\ liens' = liens /\ KeepBack
    <2>1. Sought(back, ready, liens, got, ptr)
      <3>1. Here.name \in Name
        BY <1>1, <1>2, HereFacts, LiensFacts
      <3>2. ready[Here.name].state \in {"none", "swapped"}
        BY <1>1, <3>1 DEF Tables, Stored, AllTaken, Shelved
      <3> QED BY <1>4, <3>2 DEF Exist, Sought, Here, At
    <2>2. /\ ~Watched' /\ Pending' /\ ~Parsing' /\ Within' /\ Untyped' /\ Headed'
      BY <1>4 DEF Watched, Watching, Pending, Parsing, Within, Untyped, Headed, AllTaken,
         Roomy, KeepBack, Busy
    <2> QED BY <1>1, <1>4, <2>1, <2>2, StillTaken DEF KeepBack
  <1>5. CASE /\ Add(NewSlot(Here.url, Here.name)) /\ pc' = "wantFill"
             /\ ~Exist(back, ready, Here.url, Here.name)
    <2>1. Cardinality(Busy(back)) < MaxSoc
      BY <1>1 DEF AllTaken, Roomy, Within
    <2>2. Free(back) # {}
      <3>1. SlotsOf(back, Here.url) = {}
        BY <1>5 DEF Exist
      <3> QED BY <1>1, <3>1 DEF AllTaken, Roomy, SlotsOwned, Spared, LocksHere, SlotsOf, Guarded
    <2>3. PICK m \in Slots :
              /\ Cleared({m}) /\ Live(back'[m]) /\ back'[m].url = liens[ptr].url
              /\ back'[m].name \in Name /\ back'[m].locked = "no"
      BY <1>2, <1>5, <2>2, HeapAdded DEF Here
    <2>4. Pending' /\ ~Watched' /\ ~Parsing'
      BY <1>5 DEF Pending, Watched, Watching, Parsing
    <2>5. InHand'
      <3>1. m \in SlotsOf(back', liens'[ptr].url)
        BY <1>2, <2>3 DEF SlotsOf, Live, Cleared
      <3> QED BY <1>1, <3>1 DEF InHand, Sought, SlotsOf
    <2>6. Within'
      <3>1. Cardinality(Busy(back)') <= MaxSoc
        BY <2>1, <2>3, CountsOne, SlotsAssumption
      <3> QED BY <1>5, <3>1 DEF Within
    <2>7. Spared'
      <3>1. \E s \in Slots : back'[s].status = "free" \/ (Guarded(back, s) /\ Guarded(back', s))
        BY <1>1, <2>1, <2>3, SparesOne
      <3> QED BY <2>4, <3>1 DEF Spared, Free, Guarded
    <2> QED BY <1>1, <1>2, <1>5, <2>3, <2>4, <2>5, <2>6, <2>7, AddedTaken
  <1> QED BY <1>1, <1>3, <1>4, <1>5 DEF Want, Step

LEMMA FillAddTaken ==
    ASSUME NEW Rank, JInv, Once(Rank), AllTaken, troubles = 0, troubles' = 0,
           Spare >= 1, FillAdd
    PROVE  AllTaken'
  <1> DEFINE p == Min(Candidates)
  <1>1. /\ pc = "fill" /\ pc' = "fill" /\ UNCHANGED <<ptr, handled, todo, held, ret>>
        /\ Tables /\ room > 0 /\ Candidates # {} /\ cur \in Nat /\ cur > 0
        /\ Add(NewSlot(At(p).url, At(p).name))
        /\ room' = IF SlotsOf(back', At(p).url) = {} THEN 0 ELSE room - 1
    BY DEF FillAdd, JInv, IInv, Types, Place
  <1>2. p \in DOMAIN liens /\ ~Exist(back, ready, At(p).url, At(p).name)
    <2>1. Candidates \in SUBSET (1 .. Len(liens)) /\ Len(liens) \in Nat
          /\ DOMAIN liens = 1 .. Len(liens)
      BY <1>1, LiensFacts DEF Candidates
    <2>2. Candidates \in SUBSET Nat
      BY <2>1
    <2>3. p \in Candidates
      BY <1>1, <2>2, MinIn
    <2> QED BY <2>1, <2>3 DEF Candidates
  <1> HIDE DEF p
  <1>3. /\ Cardinality(Free(back)) >= Spare + room /\ room \in Nat
        /\ Cardinality(Busy(back)) + room <= MaxSoc
    BY <1>1 DEF AllTaken, Roomy, Within
  <1>4. Free(back) # {}
    <2>1. Spare + room > 0 /\ Spare + room \in Nat
      BY <1>1, <1>3, SlotsAssumption
    <2>2. Free(back) = {} => Cardinality(Free(back)) = 0
      BY FS_EmptySet
    <2> QED BY <1>3, <2>1, <2>2
  <1>5. PICK m \in Slots :
              /\ Cleared({m}) /\ Live(back'[m]) /\ back'[m].url = liens[p].url
              /\ back'[m].name \in Name /\ back'[m].locked = "no"
    BY <1>1, <1>2, <1>4, HeapAdded
  <1>6. room' = room - 1 /\ room' \in Nat
    <2>1. m \in SlotsOf(back', At(p).url)
      BY <1>5 DEF SlotsOf, Live, At
    <2> QED BY <1>1, <1>3, <2>1
  <1>7. /\ Cardinality(Busy(back)') + room' <= MaxSoc
        /\ Cardinality(Free(back)') >= Spare + room'
        /\ Cardinality(Busy(back)') <= MaxSoc /\ Cardinality(Free(back)') \in Nat
    BY <1>3, <1>5, <1>6, CountsOne, SlotsAssumption
  <1>8. Within'
    BY <1>1, <1>6, <1>7 DEF Within
  <1>9. Free(back)' # {}
    <2> DEFINE F == Free(back)'
    <2>1. Spare + room' > 0 /\ Spare + room' \in Nat
      BY <1>6, SlotsAssumption
    <2>2. F = {} => Cardinality(F) = 0
      BY FS_EmptySet
    <2> HIDE DEF F
    <2>3. Cardinality(F) >= Spare + room'
      BY <1>7 DEF F
    <2> QED BY <2>1, <2>2, <2>3 DEF F
  <1>10. /\ Watched' <=> Watched
         /\ Pending' <=> Pending
         /\ AskedFor' <=> AskedFor
         /\ Parsing' <=> Parsing
    BY <1>1 DEF Watched, Watching, Pending, AskedFor, Parsing
  <1>11. Spared'
    BY <1>9 DEF Spared, Free
  <1>12. InHand'
    BY <1>1, <1>5, <1>10, ClearedSought DEF InHand
  <1>13. Pending => ptr \in DOMAIN liens
    BY <1>1, LiensFacts DEF JInv, IInv, Place
  <1> QED BY <1>1, <1>5, <1>8, <1>10, <1>11, <1>12, <1>13, AddedTaken

\* hts_wait_delayed() asks for its link in a slot that it locks.
LEMMA TypeAddTaken ==
    ASSUME NEW Rank, JInv, Once(Rank), AllTaken, troubles = 0, troubles' = 0,
           MaxSlots > MaxSoc, TypeAdd
    PROVE  AllTaken'
  <1> DEFINE slot == [NewSlot(Head(todo), "delayed") EXCEPT !.early = TRUE, !.locked = "locked"]
             mine == SlotsOf(back', Head(todo))
  <1>1. /\ pc = "socket" /\ Tables /\ Head(todo) \in Url
        /\ UNCHANGED <<ptr, handled, todo>>
        /\ ~Watched /\ ~Pending /\ Parsing
        /\ Cardinality(Busy(back)) < MaxSoc
        /\ ~KnownIn(liens, NameOf[Head(todo)])
    BY HeadTailProperties
    DEF TypeAdd, JInv, IInv, Types, Place, Watched, Watching, Pending, Parsing, MayConnect,
        Known, Recorded, KnownIn
  <1>2. slot \in SlotRec /\ slot.url = Head(todo) /\ slot.locked = "locked"
    BY <1>1, SlotTyped
  <1>3. Add(slot) /\ (mine # {} => pc' = "typed" /\ held' = Min(mine))
    BY DEF TypeAdd, Step
  <1>4. \A s \in Slots : ~Guarded(back, s)
    BY <1>1, NoLocks DEF AllTaken, SlotsOwned
  <1> HIDE DEF slot
  <1>5. SlotsOf(Clear, Head(todo)) = {}
    <2> SUFFICES ASSUME NEW s \in Slots, Live(Clear[s]), Clear[s].url = Head(todo)
                 PROVE  FALSE
      BY DEF SlotsOf, Live
    <2>1. Clear[s] = back[s] /\ ~Swappable(s) /\ Live(back[s])
      BY <1>1, ClearSlots
    <2>2. CASE back[s].name \in Name
      BY <1>1, <2>1, <2>2 DEF JInv, UInv, Labelled, Named1
    <2>3. CASE back[s].name \notin Name
      BY <1>1, <2>1, <2>3 DEF AllTaken, SlotsOwned, Nameless, Dropped, Swappable
    <2> QED BY <2>2, <2>3
  <1>6. Free(Clear) # {}
    <2>1. Busy(back) \in SUBSET Slots
      BY DEF Busy
    <2>2. 1 \in Slots
      BY SlotsAssumption DEF Slots
    <2>3. PICK s \in Slots : s \notin Busy(back) \cup {1}
      BY <1>1, <2>1, <2>2, OneFree
    <2>4. Live(Clear[s]) => back[s] = Clear[s] /\ ~Swappable(s)
      BY <1>1, ClearSlots
    <2>5. Live(back[s]) /\ back[s].status # "busy" /\ ~Swappable(s) => Guarded(back, s)
      BY <1>1 DEF Tables, SlotRec, Live, Guarded, Swappable
    <2> QED BY <1>4, <2>3, <2>4, <2>5 DEF Busy, Free, Live
  <1>7. PICK m \in Slots :
              /\ Cleared({m}) /\ Clear[m].status = "free"
              /\ Live(back'[m]) /\ back'[m].url = slot.url /\ back'[m].name = slot.name
              /\ back'[m].locked = slot.locked
    BY <1>1, <1>2, <1>3, <1>5, <1>6, AddCleared DEF JInv, Once, TallyNow, AllTaken, InOrder
  <1>8. pc' = "typed" /\ held' = m
    <2>1. m \in mine
      BY <1>2, <1>7 DEF SlotsOf, Live
    <2>2. Min(mine) \in Slots /\ Live(back'[Min(mine)]) /\ back'[Min(mine)].url = Head(todo)
      BY <2>1, SlotSets DEF Live
    <2>3. \A s, t \in Slots : Live(back'[s]) /\ Live(back'[t]) /\ back'[s].url = back'[t].url
                                 => s = t
      <3>1. UInv(back, ready, liens)'
        BY TypeAddApart
      <3> QED BY <3>1 DEF UInv, Apart, Live
    <2> HIDE DEF mine
    <2> QED BY <1>2, <1>3, <1>7, <2>1, <2>2, <2>3
  <1>9. Watched' /\ ~AskedFor' /\ Parsing'
    BY <1>8 DEF Watched, Watching, AskedFor, Parsing
  <1>10. InOrder'
    BY <1>1, <1>7, <1>8, <1>9, ClearedOrder DEF InHand
  <1>11. Within'
    <2>1. Cardinality(Busy(back)') <= MaxSoc
      BY <1>1, <1>7, CountsOne, SlotsAssumption
    <2> QED BY <1>8, <2>1 DEF Within
  <1>12. Spared'
    <2>1. \E s \in Slots : back'[s].status = "free" \/ (Guarded(back, s) /\ Guarded(back', s))
      BY <1>1, <1>7, SparesOne
    <2> QED BY <1>4, <1>9, <2>1 DEF Spared, Free
  <1>13. \A s \in Slots \ {m} :
            /\ Live(back'[s]) /\ back'[s].name \notin Name => Watched /\ s = held
            /\ Guarded(back', s) => Guarded(back, s) /\ back'[s].url = back[s].url
    BY <1>7, ClearedSlots
  <1>14. LocksHere'
    <2>1. \A s \in Slots : Guarded(back, s)' <=> Guarded(back', s)
      BY DEF Guarded
    <2> QED BY <1>4, <1>8, <1>9, <1>13, <2>1 DEF LocksHere
  <1>15. Nameless'
    <2>1. \A s \in Slots : Live(back[s])' <=> Live(back'[s])
      BY DEF Live
    <2> QED BY <1>1, <1>8, <1>9, <1>13, <2>1 DEF Nameless
  <1>16. Untyped' /\ Headed'
    BY <1>1, <1>8 DEF Untyped, Headed, AllTaken, SlotsOwned
  <1>17. Shelved(ready)'
    BY <1>7 DEF Cleared, Shelved
  <1> QED BY <1>10, <1>11, <1>12, <1>14, <1>15, <1>16, <1>17 DEF AllTaken, Roomy, SlotsOwned

-----------------------------------------------------------------------------
(* The steps at which a slot is held, and those that record a link           *)

\* Before the headers are asked for again, nothing changes.
LEMMA TypeIdleTaken ==
    ASSUME JInv, AllTaken, TypePump, liens' = liens, KeepBack
    PROVE  AllTaken'
  <1>1. /\ UNCHANGED <<back, ready, liens, handled, got, ptr, held, todo>>
        /\ pc = "typed" /\ pc' = "typedFill"
    BY DEF TypePump, KeepBack, Step
  <1>2. /\ Watched' <=> Watched
        /\ ~Pending /\ ~AskedFor' /\ Parsing
    BY <1>1 DEF Watched, Watching, Pending, AskedFor, Parsing
  <1>3. Within' /\ Untyped' /\ Headed'
    BY <1>1, <1>2 DEF Within, Untyped, Headed, AllTaken, Roomy, SlotsOwned, Busy
  <1> QED BY <1>1, <1>2, <1>3, StillTaken

\* What the steps of a watched slot start from.
LEMMA HeldFacts ==
    ASSUME JInv, AllTaken, pc \in {"typeTest", "naming"}
    PROVE  /\ Tables /\ Watched /\ ~Pending /\ Parsing
           /\ held \in Slots /\ Live(back[held]) /\ Guarded(back, held)
           /\ back[held] \in SlotRec /\ back[held].url = Head(todo)
           /\ Head(todo) \in Url /\ Head(todo) \notin Typed
           /\ ptr \in DOMAIN liens /\ liens \in Seq(Item)
           /\ Free(back) # {} /\ Cardinality(Busy(back)) <= MaxSoc
           /\ \A s \in Slots \ {held} :
                 ~Guarded(back, s) /\ (Live(back[s]) => back[s].name \in Name)
  <1>1. Watched /\ ~Pending /\ Parsing
    BY DEF Watched, Watching, Pending, Parsing
  <1>2. /\ Tables /\ held \in Slots /\ Guarded(back, held) /\ back[held].url = Head(todo)
        /\ Head(todo) \in Url
    BY <1>1, HeadTailProperties DEF JInv, IInv, Types, Place, HeldGuarded
  <1>3. ptr \in DOMAIN liens /\ liens \in Seq(Item) /\ back[held] \in SlotRec
    BY <1>2, LiensFacts DEF JInv, IInv, Place, Tables
  <1> QED BY <1>1, <1>2, <1>3
       DEF AllTaken, Roomy, SlotsOwned, Within, Spared, LocksHere, Nameless, Untyped, Guarded, Live

LEMMA TypeKnownTaken ==
    ASSUME JInv, AllTaken, TypeKnown PROVE AllTaken'
  <1>1. /\ UNCHANGED <<ready, liens, handled, got, ptr, held, todo>>
        /\ pc = "typeTest" /\ pc' = "naming"
    BY DEF TypeKnown, Step, queue, history
  <1>2. PICK r : /\ back' = [back EXCEPT ![held].res = r, ![held].locked = "pinned"]
                 /\ back[held].status = "busy" => r \in {"page", "file"}
    BY DEF TypeKnown
  <1>3. /\ Tables /\ Watched /\ ~Pending /\ Parsing /\ held \in Slots /\ Live(back[held])
        /\ back[held] \in SlotRec /\ Guarded(back, held)
        /\ Free(back) # {} /\ Cardinality(Busy(back)) <= MaxSoc
        /\ \A s \in Slots \ {held} :
              ~Guarded(back, s) /\ (Live(back[s]) => back[s].name \in Name)
    BY <1>1, HeldFacts
  <1> DEFINE t == [back[held] EXCEPT !.res = r, !.locked = "pinned"]
  <1>4. back' = [back EXCEPT ![held] = t]
    BY <1>2, <1>3 DEF Tables
  <1>5. t.status = back[held].status /\ t.res = r
    BY <1>3 DEF SlotRec
  <1> HIDE DEF t
  <1>6. back'[held] = t /\ \A s \in Slots \ {held} : back'[s] = back[s]
    BY <1>3, <1>4 DEF Tables
  <1>7. /\ Watched' /\ Parsing' /\ ~AskedFor' /\ pc' \notin {"advance", "done", "want", "fill"}
    BY <1>1 DEF Watched, Watching, Parsing, AskedFor
  <1>8. InOrder'
    <2>1. \A i : Taken(i)' <=> Taken(i)
      BY <1>1 DEF Taken, SavedLink
    <2> QED BY <1>1, <1>3, <1>7, <2>1 DEF AllTaken, InOrder, DoneTaken, Behind, InHand
  <1>9. \A s \in Slots : back'[s].status = back[s].status
    BY <1>5, <1>6
  <1>10. Busy(back)' = Busy(back) /\ Free(back)' = Free(back)
    BY <1>9 DEF Busy, Free
  <1>11. Within' /\ Spared'
    BY <1>3, <1>7, <1>10 DEF Within, Spared
  <1>12. LocksHere' /\ Nameless'
    BY <1>1, <1>3, <1>6, <1>7 DEF LocksHere, Nameless, Guarded, Live
  <1>13. Untyped' /\ Headed'
    BY <1>1, <1>2, <1>3, <1>5, <1>6 DEF Untyped, Headed, AllTaken, SlotsOwned
  <1>14. Shelved(ready)'
    BY <1>1 DEF AllTaken, Shelved
  <1> QED BY <1>8, <1>11, <1>12, <1>13, <1>14 DEF AllTaken, Roomy, SlotsOwned

\* A freed slot leaves no more connections than there were.
LEMMA FreedRoom ==
    ASSUME Tables, NEW h \in Slots, back' = [back EXCEPT ![h] = FreeSlot]
    PROVE  /\ back'[h] = FreeSlot /\ h \in Free(back)'
           /\ \A s \in Slots \ {h} : back'[s] = back[s]
           /\ Cardinality(Busy(back)') <= Cardinality(Busy(back))
           /\ Cardinality(Busy(back)') \in Nat /\ Cardinality(Busy(back)) \in Nat
  <1>1. back'[h] = FreeSlot /\ \A s \in Slots \ {h} : back'[s] = back[s]
    BY DEF Tables
  <1>2. h \in Free(back)'
    BY <1>1, FreeTyped DEF Free
  <1> DEFINE T == Busy(back)'
  <1>3. T \in SUBSET Busy(back) /\ Busy(back) \in SUBSET Slots
    BY <1>1, FreeTyped DEF Busy
  <1> HIDE DEF T
  <1>4. Cardinality(T) <= Cardinality(Busy(back))
        /\ Cardinality(T) \in Nat /\ Cardinality(Busy(back)) \in Nat
    <2>1. T \in SUBSET Slots
      BY <1>3
    <2> QED BY <1>3, <2>1, NoMore, SlotCounts
  <1> QED BY <1>1, <1>2, <1>4 DEF T

LEMMA TypeMovedTaken ==
    ASSUME JInv, AllTaken, TypeMoved PROVE AllTaken'
  <1>1. /\ UNCHANGED <<ready, liens, handled, got, ptr>>
        /\ pc = "typeTest" /\ pc' = IF Target[Head(todo)] \in Typed THEN "parse" ELSE "socket"
        /\ back' = [back EXCEPT ![held] = FreeSlot]
        /\ todo' = <<Target[Head(todo)]>> \o Tail(todo)
    BY DEF TypeMoved, Step, queue, history
  <1>2. /\ Tables /\ Watched /\ ~Pending /\ Parsing /\ held \in Slots
        /\ Head(todo) \in Url /\ Cardinality(Busy(back)) <= MaxSoc
        /\ \A s \in Slots \ {held} :
              ~Guarded(back, s) /\ (Live(back[s]) => back[s].name \in Name)
    BY <1>1, HeldFacts
  <1>3. /\ back'[held] = FreeSlot /\ held \in Free(back)'
        /\ \A s \in Slots \ {held} : back'[s] = back[s]
        /\ Cardinality(Busy(back)') <= MaxSoc
    <2>1. /\ back'[held] = FreeSlot /\ held \in Free(back)'
          /\ \A s \in Slots \ {held} : back'[s] = back[s]
          /\ Cardinality(Busy(back)') <= Cardinality(Busy(back))
          /\ Cardinality(Busy(back)') \in Nat /\ Cardinality(Busy(back)) \in Nat
      BY <1>1, <1>2, FreedRoom
    <2> QED BY <1>2, <2>1, SlotsAssumption
  <1>4. ~Watched' /\ Parsing' /\ ~AskedFor'
        /\ pc' \notin {"advance", "done", "want", "fill", "naming"}
    BY <1>1 DEF Watched, Watching, Parsing, AskedFor
  <1>5. InOrder'
    <2>1. \A i : Taken(i)' <=> Taken(i)
      BY <1>1 DEF Taken, SavedLink
    <2> QED BY <1>1, <1>2, <1>4, <2>1 DEF AllTaken, InOrder, DoneTaken, Behind, InHand
  <1>6. Within' /\ Spared'
    BY <1>2, <1>3, <1>4 DEF Within, Spared
  <1>7. LocksHere' /\ Nameless'
    BY <1>2, <1>3, FreeTyped DEF LocksHere, Nameless, Guarded, Live
  <1>8. Untyped' /\ Headed'
    <2>1. Tail(todo) \in Seq(Url) /\ <<Target[Head(todo)]>> \in Seq(Url)
      BY <1>1, <1>2, HeadTailProperties, SiteAssumption
         DEF JInv, IInv, Types, Place
    <2>2. Head(todo') = Target[Head(todo)]
      BY <1>1, <2>1
    <2> QED BY <1>1, <1>4, <2>2 DEF Untyped, Headed
  <1>9. Shelved(ready)'
    BY <1>1 DEF AllTaken, Shelved
  <1> QED BY <1>5, <1>6, <1>7, <1>8, <1>9 DEF AllTaken, Roomy, SlotsOwned

\* A new link is still to come.
LEMMA GrownOrder ==
    ASSUME InOrder, Parsing, UNCHANGED <<handled, got, ptr>>,
           liens \in Seq(Item), ptr \in DOMAIN liens,
           NEW e, e.pass2 = 0, liens' = Append(liens, e),
           ~AskedFor', pc' \notin {"advance", "done"}
    PROVE  InOrder'
  <1>1. /\ DOMAIN liens = 1 .. Len(liens) /\ Len(liens) \in Nat
        /\ DOMAIN liens' = 1 .. Len(liens) + 1
        /\ \A i \in DOMAIN liens : liens'[i] = liens[i]
        /\ liens'[Len(liens) + 1] = e
    BY AppendProperties, LenProperties
  <1>2. \A i \in DOMAIN liens : Taken(i)' <=> Taken(i)
    BY <1>1 DEF Taken, SavedLink
  <1>3. \A i \in DOMAIN liens' : i \in DOMAIN liens \/ i = Len(liens) + 1
    BY <1>1
  <1>4. \A i \in DOMAIN liens' : i < ptr => i \in DOMAIN liens
    BY <1>1
  <1>5. DoneTaken(liens, handled, got)'
    BY <1>1, <1>3 DEF InOrder, DoneTaken
  <1>6. Behind'
    BY <1>2, <1>4 DEF InOrder, Behind
  <1> QED BY <1>5, <1>6 DEF InOrder, InHand

LEMMA RecordTaken ==
    ASSUME JInv, AllTaken, ~htmlFirst, ParseRecord PROVE AllTaken'
  <1> DEFINE u == Head(todo)
             e == [url |-> u, name |-> NameOf[u], pass2 |-> PassOf(u), retry |-> Retries]
  <1>1. /\ UNCHANGED <<back, ready, got, ptr, pc, held, handled>> /\ pc = "parse"
        /\ liens' = Append(liens, e) /\ liens \in Seq(Item) /\ u \in Typed
        /\ ptr \in DOMAIN liens
    BY LiensFacts
    DEF ParseRecord, Recording, KeepBack, JInv, IInv, Types, Place, Tables
  <1>2. e.pass2 = 0 /\ e.url = u
    BY DEF PassOf
  <1> HIDE DEF e
  <1>3. ~Watched /\ ~Watched' /\ ~Pending /\ Parsing /\ ~AskedFor'
    BY <1>1 DEF Watched, Watching, Pending, Parsing, AskedFor
  <1>4. InOrder'
    BY <1>1, <1>2, <1>3, GrownOrder DEF AllTaken
  <1>5. Within' /\ Spared'
    BY <1>1, <1>3 DEF Within, Spared, AllTaken, Roomy, Busy, Free, Guarded
  <1>6. LocksHere'
    <2>1. \A s \in Slots : ~Guarded(back, s)
      BY <1>3, NoLocks DEF AllTaken, SlotsOwned
    <2> QED BY <1>1, <2>1 DEF LocksHere, Guarded
  <1>7. Nameless'
    <2>1. \A i \in DOMAIN liens' : \/ i \in DOMAIN liens /\ liens'[i] = liens[i]
                                   \/ liens'[i].url \in Typed
      BY <1>1, <1>2
    <2> QED BY <1>1, <1>3, <2>1 DEF AllTaken, SlotsOwned, Nameless, Dropped, Live
  <1>8. Untyped' /\ Headed'
    BY <1>1, <1>3 DEF Untyped, Headed
  <1>9. Shelved(ready)'
    BY <1>1 DEF AllTaken, Shelved
  <1> QED BY <1>4, <1>5, <1>6, <1>7, <1>8, <1>9 DEF AllTaken, Roomy, SlotsOwned

\* A link that is dropped leaves its slot without a name, but ready and unlocked.
LEMMA NamedTaken ==
    ASSUME NEW Rank, JInv, Once(Rank), AllTaken, ~htmlFirst, Named PROVE AllTaken'
  <1> DEFINE u == Head(todo)
             n == NameOf[u]
             e == [url |-> u, name |-> n, pass2 |-> PassOf(u), retry |-> Retries]
  <1>1. /\ UNCHANGED <<ready, handled, got, ptr>> /\ pc = "naming" /\ pc' = "parse"
    BY DEF Named, Step, history
  <1>2. /\ Tables /\ Watched /\ ~Pending /\ Parsing /\ held \in Slots /\ Live(back[held])
        /\ back[held] \in SlotRec /\ back[held].url = u /\ u \in Url /\ u \notin Typed
        /\ ptr \in DOMAIN liens /\ liens \in Seq(Item)
        /\ Free(back) # {} /\ Cardinality(Busy(back)) <= MaxSoc
        /\ \A s \in Slots \ {held} :
              ~Guarded(back, s) /\ (Live(back[s]) => back[s].name \in Name)
    BY <1>1, HeldFacts
  <1>3. PICK t \in SlotRec :
          /\ back' = [back EXCEPT ![held] = t]
          /\ t.status = back[held].status /\ t.url = u /\ t.locked = "no"
          /\ \/ t.name = n /\ liens' = Append(liens, e)
             \/ back[held].res \notin {"page", "file"} /\ liens' = liens
    <2>1. n \in Name
      BY <1>2, SiteAssumption
    <2>2. CASE /\ back' = [back EXCEPT ![held].locked = "no", ![held].name = n]
               /\ Recording(u, n, PassOf(u), Retries)
      <3> DEFINE t == [back[held] EXCEPT !.locked = "no", !.name = n]
      <3>1. t \in SlotRec /\ t.status = back[held].status /\ t.url = u /\ t.locked = "no"
            /\ t.name = n
        BY <1>2, <2>1 DEF SlotRec
      <3>2. back' = [back EXCEPT ![held] = t]
        BY <1>2, <2>2 DEF Tables
      <3> HIDE DEF t
      <3> QED BY <2>2, <3>1, <3>2 DEF Recording
    <2>3. CASE /\ back' = [back EXCEPT ![held].locked = "no"] /\ liens' = liens
               /\ back[held].res \notin {"page", "file"}
      <3> DEFINE t == [back[held] EXCEPT !.locked = "no"]
      <3>1. t \in SlotRec /\ t.status = back[held].status /\ t.url = u /\ t.locked = "no"
        BY <1>2 DEF SlotRec
      <3>2. back' = [back EXCEPT ![held] = t]
        BY <1>2, <2>3 DEF Tables
      <3> HIDE DEF t
      <3> QED BY <2>3, <3>1, <3>2
    <2> HIDE DEF e
    <2> QED BY <2>2, <2>3 DEF Named
  <1>4. e.pass2 = 0
    BY DEF PassOf
  <1> HIDE DEF e
  <1>5. back'[held] = t /\ \A s \in Slots \ {held} : back'[s] = back[s]
    BY <1>2, <1>3 DEF Tables
  <1>6. ~Watched' /\ Parsing' /\ ~AskedFor' /\ ~Pending'
    BY <1>1 DEF Watched, Watching, Parsing, AskedFor, Pending
  <1>7. InOrder'
    <2>1. CASE liens' = Append(liens, e)
      BY <1>1, <1>2, <1>4, <1>6, <2>1, GrownOrder DEF AllTaken
    <2>2. CASE liens' = liens
      <3>1. \A i : Taken(i)' <=> Taken(i)
        BY <1>1, <2>2 DEF Taken, SavedLink
      <3> QED BY <1>1, <1>2, <1>6, <2>2, <3>1 DEF AllTaken, InOrder, DoneTaken, Behind, InHand
    <2> QED BY <1>3, <2>1, <2>2
  <1>8. \A s \in Slots : back'[s].status = back[s].status
    BY <1>3, <1>5
  <1>9. Busy(back)' = Busy(back) /\ Free(back)' = Free(back)
    BY <1>8 DEF Busy, Free
  <1>10. Within' /\ Spared'
    <2>1. Within'
      BY <1>1, <1>2, <1>9 DEF Within
    <2>2. PICK s \in Slots : s \in Free(back)
      BY <1>2 DEF Free
    <2> QED BY <1>6, <1>9, <2>1, <2>2 DEF Spared
  <1>11. LocksHere'
    BY <1>2, <1>3, <1>5 DEF LocksHere, Guarded
  <1>12. Nameless'
    <2> SUFFICES ASSUME NEW s \in Slots, Live(back'[s]), back'[s].name \notin Name
                 PROVE  Dropped(back', liens', s)
      BY <1>6 DEF Nameless, Live, Dropped
    <2>1. s = held
      BY <1>2, <1>5
    <2>2. n \in Name
      BY <1>2, SiteAssumption
    <2>3. back[held].res \notin {"page", "file"} /\ liens' = liens
      BY <1>3, <1>5, <2>1, <2>2
    <2>4. back[held].status = "ready"
      BY <1>1, <1>2, <2>3 DEF AllTaken, SlotsOwned, Headed, SlotRec, Live
    <2>5. \A i \in DOMAIN liens : liens[i].name # n
      BY <1>2 DEF Once, Unknown, KnownIn
    <2> QED BY <1>2, <1>3, <1>5, <2>1, <2>3, <2>4, <2>5 DEF Dropped
  <1>13. Untyped' /\ Headed'
    BY <1>1, <1>6 DEF Untyped, Headed
  <1>14. Shelved(ready)'
    BY <1>1 DEF AllTaken, Shelved
  <1> QED BY <1>7, <1>10, <1>11, <1>12, <1>13, <1>14 DEF AllTaken, Roomy, SlotsOwned

\* The answer of the link at hand is used, and its slot freed; what is recorded again
\* comes later.
LEMMA ConsumeTaken ==
    ASSUME NEW Rank, JInv, Once(Rank), AllTaken, ~htmlFirst, Consume PROVE AllTaken'
  <1> DEFINE u == Here.url
             alias == [url |-> Target[u], name |-> Here.name, pass2 |-> pass,
                       retry |-> Here.retry]
             again == [url |-> u, name |-> Here.name, pass2 |-> Max({Here.pass2, pass}),
                       retry |-> Here.retry - 1]
             marked == [liens EXCEPT ![ptr].pass2 = -1]
  <1>1. /\ pc = "consume" /\ pc' \in {"parse", "advance"} /\ UNCHANGED <<ptr, ready>>
        /\ Tables /\ ptr \in DOMAIN liens /\ pass = 0 /\ liens \in Seq(Item)
        /\ back' = [back EXCEPT ![held] = FreeSlot] /\ handled' = handled \cup {ptr}
        /\ got \subseteq got' /\ Here = liens[ptr] /\ liens[ptr] \in Item
    BY LiensFacts
    DEF Consume, Step, JInv, IInv, Types, Place, Tables, Once, TallyNow, Here, At
  <1>2. held \in Slots /\ back[held].url = u
    BY <1>1 DEF Once, HeldHere
  <1>3. PICK heap \in Seq(Item) :
          /\ DOMAIN heap = DOMAIN liens
          /\ \A i \in DOMAIN liens : /\ heap[i].url = liens[i].url /\ heap[i].name = liens[i].name
                                     /\ i = ptr \/ heap[i] = liens[i]
          /\ \/ liens' = heap
             \/ \E e \in {alias, again} :
                   /\ liens' = Append(heap, e)
                   /\ e = alias => NameOf[Target[u]] = NameOf[u]
    <2>1. CASE liens' = Append(marked, alias) /\ NameOf[Target[u]] = NameOf[u]
      <3> DEFINE i == [Here EXCEPT !.pass2 = -1]
      <3>1. \A m \in Int : /\ [Here EXCEPT !.pass2 = m] \in Item
                           /\ [Here EXCEPT !.pass2 = m].url = Here.url
                           /\ [Here EXCEPT !.pass2 = m].name = Here.name
        BY <1>1 DEF Item
      <3>2. i \in Item /\ i.url = Here.url /\ i.name = Here.name
        <4>1. -1 \in Int
          OBVIOUS
        <4> QED BY <3>1, <4>1
      <3>3. marked = [liens EXCEPT ![ptr] = i]
        BY <1>1
      <3> HIDE DEF i
      <3>4. /\ marked \in Seq(Item) /\ DOMAIN marked = DOMAIN liens
            /\ \A j \in DOMAIN liens : marked[j] = IF j = ptr THEN i ELSE liens[j]
        BY <1>1, <3>2, <3>3, ExceptSeq, LiensFacts, LenProperties
      <3> HIDE DEF marked, alias, again
      <3> QED BY <1>1, <2>1, <3>2, <3>4
    <2>2. CASE liens' = Append(liens, again) /\ (again = alias => NameOf[Target[u]] = NameOf[u])
      <3> HIDE DEF alias, again
      <3> QED BY <1>1, <2>2
    <2>3. CASE liens' = liens
      BY <1>1, <2>3
    <2>4. again = alias => NameOf[Target[u]] = NameOf[u]
      OBVIOUS
    <2> HIDE DEF marked, alias, again
    <2>5. \/ liens' = Append(marked, alias) /\ NameOf[Target[u]] = NameOf[u]
          \/ liens' = Append(liens, again)
          \/ liens' = liens
      BY DEF Consume, Recording, marked, alias, again
    <2> QED BY <2>1, <2>2, <2>3, <2>4, <2>5
  <1>4. ~Watched /\ Pending /\ ~Watched' /\ ~Pending' /\ ~AskedFor'
    BY <1>1 DEF Watched, Watching, Pending, AskedFor
  <1>5. /\ back'[held] = FreeSlot /\ held \in Free(back)'
        /\ \A s \in Slots \ {held} : back'[s] = back[s]
        /\ Cardinality(Busy(back)') <= Cardinality(Busy(back))
        /\ Cardinality(Busy(back)') \in Nat /\ Cardinality(Busy(back)) \in Nat
    BY <1>1, <1>2, FreedRoom
  <1>6. /\ \A i \in DOMAIN liens : i \in DOMAIN liens' /\ liens'[i] = heap[i]
        /\ \A i \in DOMAIN liens' \ DOMAIN liens :
              /\ i > ptr /\ liens'[i].pass2 = 0 /\ liens'[i].name = Here.name
              /\ \/ liens'[i].url = u
                 \/ liens'[i].url = Target[u] /\ NameOf[Target[u]] = NameOf[u]
        /\ DOMAIN liens = 1 .. Len(liens) /\ Len(liens) \in Nat
        /\ (DOMAIN liens' = 1 .. Len(liens) \/ DOMAIN liens' = 1 .. Len(liens) + 1)
    <2>1. DOMAIN liens = 1 .. Len(liens) /\ Len(liens) \in Nat /\ Len(heap) = Len(liens)
          /\ DOMAIN heap = 1 .. Len(heap)
      BY <1>1, <1>3, LenProperties
    <2>2. CASE liens' = heap
      BY <1>3, <2>1, <2>2
    <2>3. ASSUME NEW e \in {alias, again}, liens' = Append(heap, e),
                 e = alias => NameOf[Target[u]] = NameOf[u]
          PROVE  /\ \A i \in DOMAIN liens : i \in DOMAIN liens' /\ liens'[i] = heap[i]
                 /\ \A i \in DOMAIN liens' \ DOMAIN liens :
                       /\ i > ptr /\ liens'[i].pass2 = 0 /\ liens'[i].name = Here.name
                       /\ \/ liens'[i].url = u
                          \/ liens'[i].url = Target[u] /\ NameOf[Target[u]] = NameOf[u]
                 /\ DOMAIN liens = 1 .. Len(liens) /\ Len(liens) \in Nat
                 /\ (DOMAIN liens' = 1 .. Len(liens) \/ DOMAIN liens' = 1 .. Len(liens) + 1)
      <3>1. e.pass2 = 0 /\ e.name = Here.name
            /\ (e.url = u \/ (e.url = Target[u] /\ NameOf[Target[u]] = NameOf[u]))
        <4>1. Here.pass2 = 0 \/ Here.pass2 = -1
          BY <1>1 DEF Once, TallyNow, Tally, OnePass
        <4>2. Max({0, 0}) = 0 /\ Max({-1, 0}) = 0
          BY MaxPair
        <4>3. Max({Here.pass2, pass}) = 0
          BY <1>1, <4>1, <4>2
        <4> QED BY <1>1, <2>3, <4>3
      <3> HIDE DEF alias, again
      <3>2. /\ DOMAIN liens' = 1 .. Len(heap) + 1
            /\ \A i \in 1 .. Len(heap) : liens'[i] = heap[i]
            /\ liens'[Len(heap) + 1] = e
        BY <2>1, <2>3, AppendProperties, LenProperties
      <3> QED BY <1>1, <2>1, <3>1, <3>2
    <2> QED BY <1>3, <2>2, <2>3
  <1> HIDE DEF alias, again, marked
  <1>7. InOrder'
    <2>1. \A i \in DOMAIN liens : Taken(i) => Taken(i)'
      BY <1>1, <1>3, <1>6 DEF Taken, SavedLink
    <2>2. Taken(ptr)' /\ ptr \in handled'
      BY <1>1 DEF Taken
    <2>3. \A i \in DOMAIN liens' : i < ptr => i \in DOMAIN liens
      BY <1>1, <1>6
    <2>4. Behind'
      BY <1>1, <2>1, <2>2, <2>3 DEF AllTaken, InOrder, Behind
    <2>5. DoneTaken(liens, handled, got)'
      BY <1>1, <1>3, <1>6 DEF AllTaken, InOrder, DoneTaken
    <2> QED BY <1>4, <2>4, <2>5 DEF InOrder, InHand
  <1>8. Within'
    <2>1. Cardinality(Busy(back)') <= MaxSoc
      BY <1>5, SlotsAssumption DEF AllTaken, Roomy, Within
    <2> QED BY <1>1, <2>1 DEF Within
  <1>9. Spared'
    BY <1>2, <1>4, <1>5 DEF Spared
  <1>10. LocksHere'
    <2>1. \A s \in Slots : Guarded(back, s) => s = held
      BY <1>1, <1>2, <1>4 DEF AllTaken, SlotsOwned, LocksHere, JInv, UInv, Apart, Guarded, Live,
         Once, HeldHere
    <2> QED BY <1>5, <2>1, FreeTyped DEF LocksHere, Guarded
  <1>11. Nameless'
    <2> SUFFICES ASSUME NEW s \in Slots, Live(back'[s]), back'[s].name \notin Name
                 PROVE  Dropped(back', liens', s)
      BY <1>4 DEF Nameless, Live, Dropped
    <2>1. s # held /\ back'[s] = back[s]
      BY <1>5, FreeTyped DEF Live
    <2>2. Dropped(back, liens, s)
      BY <1>4, <2>1 DEF AllTaken, SlotsOwned, Nameless
    <2>3. ASSUME NEW i \in DOMAIN liens', liens'[i].name = NameOf[back[s].url]
          PROVE  liens'[i].url \in Typed
      <3>1. CASE i \in DOMAIN liens
        BY <1>3, <1>6, <2>2, <2>3, <3>1 DEF Dropped
      <3>2. CASE i \notin DOMAIN liens
        <4>1. u \in Typed
          BY <1>1, <1>6, <2>2, <2>3, <3>2 DEF Dropped
        <4>2. u \in Url
          BY <1>1 DEF Item
        <4> QED BY <1>6, <3>2, <4>1, <4>2, SiteAssumption
      <3> QED BY <3>1, <3>2
    <2> QED BY <2>1, <2>2, <2>3 DEF Dropped
  <1>12. Untyped' /\ Headed'
    BY <1>1, <1>4 DEF Untyped, Headed
  <1>13. Shelved(ready)'
    BY <1>1 DEF AllTaken, Shelved
  <1> QED BY <1>7, <1>8, <1>9, <1>10, <1>11, <1>12, <1>13 DEF AllTaken, Roomy, SlotsOwned

-----------------------------------------------------------------------------
(* The whole mirror                                                          *)

LEMMA InitTaken == ASSUME Init, MaxSlots > MaxSoc PROVE AllTaken
  <1>1. /\ pc = "parse" /\ ptr = 1 /\ handled = {1} /\ liens \in Seq(Item) /\ Len(liens) = 1
        /\ DOMAIN liens = {1} /\ liens[1].pass2 = 0 /\ \A s \in Slots : back[s] = FreeSlot
        /\ \A n \in Name : ready[n].state = "none"
    BY InitInv DEF Init, IInv, Types, Tables, NotStored
  <1>2. ~Watched /\ ~AskedFor /\ ~Pending
    BY <1>1 DEF Watched, Watching, AskedFor, Pending
  <1>3. InOrder
    <2>1. \A i \in DOMAIN liens : ~(i < ptr)
      BY <1>1
    <2> QED BY <1>1, <1>2, <2>1 DEF InOrder, DoneTaken, Behind, InHand
  <1>4. Roomy
    <2>1. Busy(back) = {}
      BY <1>1, FreeTyped DEF Busy
    <2>2. MaxSlots >= 1
      BY SlotsAssumption
    <2>3. 1 \in Slots
      BY <2>2, SlotsAssumption DEF Slots
    <2>4. Cardinality(Busy(back)) = 0
      BY <2>1, FS_EmptySet
    <2> QED BY <1>1, <1>2, <2>3, <2>4, FreeTyped, SlotsAssumption
         DEF Roomy, Within, Spared, Free
  <1>5. SlotsOwned
    BY <1>1, <1>2, FreeTyped DEF SlotsOwned, LocksHere, Nameless, Untyped, Headed, Guarded, Live
  <1> QED BY <1>1, <1>3, <1>4, <1>5 DEF AllTaken, Shelved

\* Trouble is not forgotten.
LEMMA TroubleStays ==
    ASSUME JInv, troubles \in Nat, [Next]_vars
    PROVE  troubles' \in Nat /\ troubles' >= troubles
  <1>1. ASSUME NEW kept \in SUBSET Swapped({}), Clean(kept)
        PROVE  troubles' \in Nat /\ troubles' >= troubles
    <2>1. kept \in SUBSET Slots
      BY DEF Swapped
    <2>2. Cardinality(kept) \in Nat
      BY <2>1, SlotCounts
    <2> QED BY <1>1, <2>2 DEF Clean
  <1>2. CASE Pump
    BY <1>1, <1>2 DEF Pump, PumpWith
  <1>3. CASE UNCHANGED troubles
    BY <1>3
  <1>4. ASSUME NEW slot, Add(slot)
        PROVE  troubles' \in Nat /\ troubles' >= troubles
    BY <1>1, <1>4 DEF Add
  <1>5. ASSUME NEW n, NEW found, NEW lost, Wake(n, found, lost)
        PROVE  troubles' \in Nat /\ troubles' >= troubles
    BY <1>5 DEF Wake
  <1>6. CASE Fetch
    <2>1. CASE Plug
      BY <1>3, <1>5, <2>1 DEF Plug, KeepBack
    <2>2. CASE Look
      BY <1>3, <1>5, <2>2 DEF Look, KeepBack
    <2>3. CASE Want
      BY <1>3, <1>4, <2>3 DEF Want, KeepBack
    <2> QED BY <1>2, <1>3, <1>6, <2>1, <2>2, <2>3
         DEF Fetch, Top, Advance, Plugged, Receive, Consume, KeepBack
  <1>7. CASE Prefetch
    BY <1>3, <1>4, <1>7 DEF Prefetch, FillStart, FillAdd, FillEnd, KeepBack
  <1>8. CASE Parse
    BY <1>2, <1>3, <1>8
    DEF Parse, ParsePump, ParseKnown, ParseRecord, ParseDelayed, ParseEnd, KeepBack
  <1>9. CASE Typing
    BY <1>2, <1>3, <1>4, <1>9
    DEF Typing, SocketWait, TypeRecorded, TypeAdd, TypePump, TypeAgain, TypeKnown, TypeMoved,
        NamePump, Named, KeepBack
  <1>10. CASE Stop \/ UNCHANGED vars
    BY <1>3, <1>10 DEF Stop, vars, KeepBack
  <1> QED BY <1>6, <1>7, <1>8, <1>9, <1>10 DEF Next, Work, Finished

LEMMA StepTaken ==
    ASSUME NEW Rank, MaxSlots > MaxSoc, Spare >= 1, JInv, ~htmlFirst, Once(Rank),
           AllTaken, troubles = 0, troubles' = 0, ~stopped, ~stopped', [Next]_vars
    PROVE  AllTaken'
  <1>1. CASE Fetch
    BY <1>1, LoopTaken, LookTaken, PumpTaken, WantTaken, ConsumeTaken DEF Fetch
  <1>2. CASE Prefetch
    BY <1>2, IdleTaken, FillStartTaken, FillAddTaken DEF Prefetch
  <1>3. CASE Parse
    BY <1>3, PumpTaken, IdleTaken, RecordTaken DEF Parse
  <1>4. CASE TypePump
    BY <1>4, PumpTaken, TypeIdleTaken DEF TypePump
  <1>5. CASE Typing
    BY <1>4, <1>5, PumpTaken, IdleTaken, TypeAddTaken, TypeKnownTaken, TypeMovedTaken, NamedTaken
    DEF Typing, NamePump
  <1>6. CASE Stop \/ UNCHANGED vars
    BY <1>6, IdleTaken DEF Stop
  <1> QED BY <1>1, <1>2, <1>3, <1>5, <1>6 DEF Next, Work, Finished

\* When pages and files are taken in one pass, no link of a mirror that met no trouble and
\* was not stopped is forgotten: each was handled, or its file was saved in background
\* (httpmirror(), back_fill(), back_clean(), back_index_ready(), hts_wait_delayed()).  There
\* have to be more slots than connections, and the prefetch has to leave a slot free: the
\* program has maxsoc * 32 + 1024 of the ones and leaves 8 of the others.
THEOREM EveryLinkTakenInOnePass ==
    ASSUME NEW CONSTANT Rank, AliasesEnd(Rank), MaxSlots > MaxSoc, Spare >= 1
    PROVE  Spec => [](~htmlFirst => EveryLinkTaken)
  <1> DEFINE TInv == OInv(Rank) /\ troubles \in Nat /\ (Calm => AllTaken)
  <1>1. Init => TInv
    <2> SUFFICES ASSUME Init PROVE TInv
      OBVIOUS
    <2>1. troubles = 0
      BY DEF Init
    <2>2. troubles \in Nat
      BY <2>1
    <2>3. OInv(Rank) /\ AllTaken
      BY InitApart, InitOnce, InitTaken DEF OInv
    <2> QED BY <2>2, <2>3
  <1>2. TInv /\ [Next]_vars => TInv'
    <2> SUFFICES ASSUME TInv, [Next]_vars PROVE TInv'
      OBVIOUS
    <2>1. OInv(Rank)'
      BY StepOnce
    <2>2. troubles' \in Nat /\ troubles' >= troubles
      BY TroubleStays DEF OInv
    <2>3. htmlFirst' = htmlFirst /\ (stopped => stopped')
      <3> HIDE DEF TInv
      <3>1. htmlFirst' = htmlFirst
        BY DEF Next, Work, Stop, Finished, vars
      <3>2. Fetch => stopped' = stopped
        BY DEF Fetch, Top, Advance, Plug, Plugged, Want, Look, Receive, Consume
      <3>3. Prefetch => stopped' = stopped
        BY DEF Prefetch, FillStart, FillAdd, FillEnd
      <3>4. Parse => stopped' = stopped
        BY DEF Parse, ParsePump, ParseKnown, ParseRecord, ParseDelayed, ParseEnd
      <3>5. Typing => stopped' = stopped
        BY DEF Typing, SocketWait, TypeRecorded, TypeAdd, TypePump, TypeAgain, TypeKnown, TypeMoved,
           NamePump, Named
      <3>6. Stop \/ Finished \/ UNCHANGED vars => (stopped => stopped')
        BY DEF Stop, Finished, vars
      <3> QED BY <3>1, <3>2, <3>3, <3>4, <3>5, <3>6 DEF Next, Work
    <2>4. ASSUME Calm' PROVE AllTaken'
      <3>1. ~htmlFirst /\ ~stopped /\ ~stopped' /\ troubles = 0 /\ troubles' = 0
        BY <2>2, <2>3, <2>4 DEF Calm
      <3>2. OInv(Rank) /\ AllTaken
        BY <3>1 DEF Calm
      <3> QED BY <3>1, <3>2, StepTaken DEF OInv
    <2> QED BY <2>1, <2>2, <2>4
  <1>3. TInv => (~htmlFirst => EveryLinkTaken)
    <2> SUFFICES ASSUME TInv, ~htmlFirst, pc = "done", ~stopped, troubles = 0,
                        NEW i \in DOMAIN liens
                 PROVE  Taken(i)
      BY DEF EveryLinkTaken, Taken, SavedLink, At
    <2>1. AllTaken
      BY DEF Calm
    <2>2. ptr > Len(liens) /\ ptr \in Nat
      BY <2>1 DEF AllTaken, InOrder, Behind, OInv, JInv, IInv, Types
    <2>3. i \in Nat /\ i <= Len(liens) /\ Len(liens) \in Nat
      BY LiensFacts DEF OInv, JInv, IInv, Types
    <2>4. i < ptr
      BY <2>2, <2>3
    <2> QED BY <2>1, <2>4 DEF AllTaken, InOrder, Behind
  <1> HIDE DEF TInv
  <1> QED BY <1>1, <1>2, <1>3, PTL DEF Spec

=============================================================================
