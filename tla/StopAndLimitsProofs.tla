-------------------------- MODULE StopAndLimitsProofs --------------------------
(***************************************************************************)
(* That a mirror tells what happened to it, whoever stopped it (EndTold),  *)
(* that it launches nothing before the date a server asked it to wait for  *)
(* (DelaysHonoured), and that nothing it launched is torn down within the  *)
(* grace of a stop (GraceHonoured), for any page, options, delays and      *)
(* number of sockets.                                                      *)
(***************************************************************************)
EXTENDS StopAndLimits, FiniteSetTheorems, TLAPS

Slot == [stage : {"none", "connect", "headers", "body", "ftp", "handed", "ready"},
         idle : Int, ans : {"ok", "busy", "bad", "fatal"}]

Item == [link : Link, tries : Int]

Parsing == {"parse", "sockets", "delayed", "type"}
Taking == {"pause", "add", "wait", "handle"}
Ended == {"teardown", "exit", "closed"}

TypeOK ==
    /\ opt \in Options
    /\ stop \in BOOLEAN /\ faulted \in BOOLEAN /\ partial \in BOOLEAN /\ gaveUp \in BOOLEAN
    /\ completed \in BOOLEAN /\ files \in BOOLEAN
    /\ elapsed \in Nat /\ recv \in Nat /\ seen \in Nat /\ ptr \in Nat
    /\ slot \in [Link -> Slot]
    /\ heap \in Seq(Item)
    /\ pc \in Parsing \cup Taking \cup Ended \cup {"advance", "verdict"}

\* Where the program is in its heap at each step.
Place ==
    /\ pc \in Parsing => ptr = 0
    /\ pc \in Parsing \ {"parse"} => NextLink \in Link
    /\ pc \in Taking => ptr \in 1 .. Len(heap)
    /\ pc = "advance" => ptr \in 0 .. Len(heap)
    /\ pc = "pause" => after \in {"add", "wait"}

\* A slot is a link's ahead, or of the link at hand; an exit may leave that one
\* behind.
IsAhead(l) == \E i \in ptr + 1 .. Len(heap) : heap[i].link = l
Held(l) == (pc \in Taking /\ l = At) \/ (pc = "type" /\ l = NextLink)
Slots ==
    pc \notin Ended \cup {"verdict"} => \A l \in Link :
        slot[l] # Empty => IsAhead(l) \/ Held(l) \/ (pc = "advance" /\ exitXh # 0)

AllEmpty == \A l \in Link : slot[l] = Empty

\* What stops a mirror stays known until the verdict reads it.
Halted == stop \/ exitXh # 0 \/ faulted
Causes ==
    /\ \A l \in Link : slot[l].ans = "fatal" => stop \/ faulted
    /\ pc \notin Ended =>
         /\ torn # {} => stop
         /\ unseen # {} => Halted \/ (Over /\ pc # "verdict")
         /\ gaveUp => Halted

\* The verdict, and what is left for it to tell.
Judged ==
    /\ pc = "verdict" => Halted \/ (ptr = Len(heap) /\ AllEmpty)
    /\ pc \in Ended /\ completed =>
         ~gaveUp /\ unseen = {} /\ torn = {} /\ ptr = Len(heap) /\ AllEmpty
    /\ pc \in {"exit", "closed"} => AllEmpty
    /\ torn # {} => partial
    /\ pc = "closed" => (torn # {} => ref) /\ (faulted => exitCode = "aborted")

IInv == TypeOK /\ Place /\ Slots /\ Causes /\ Judged

-----------------------------------------------------------------------------
LEMMA MinMax ==
    ASSUME NEW a \in Int, NEW b \in Int
    PROVE  /\ Min({a, b}) = IF a <= b THEN a ELSE b
           /\ Max({a, b}) = IF a >= b THEN a ELSE b
  BY DEF Min, Max

LEMMA EmptySlot == Empty \in Slot
  BY DEF Empty, Slot

\* What back_abort_slot() does to a set of slots.
LEMMA AbortFacts ==
    ASSUME NEW sl \in [Link -> Slot], NEW ls \in SUBSET Link,
           NEW ans \in {"ok", "busy", "bad", "fatal"}
    PROVE  /\ Abort(sl, ls, ans) \in [Link -> Slot]
           /\ \A l \in ls : Abort(sl, ls, ans)[l].ans = ans /\ Abort(sl, ls, ans)[l] # Empty
           /\ \A l \in Link \ ls : Abort(sl, ls, ans)[l] = sl[l]
  <1>1. \A l \in Link, n \in Int :
          [sl[l] EXCEPT !.stage = "ready", !.ans = ans, !.idle = n] \in Slot
    BY DEF Slot
  <1>2. 0 \in Int
    OBVIOUS
  <1>3. \A l \in Link : [sl[l] EXCEPT !.stage = "ready", !.ans = ans, !.idle = 0] \in Slot
    BY <1>1, <1>2
  <1>4. Abort(sl, ls, ans) \in [Link -> Slot]
    BY <1>3 DEF Abort
  <1>5. \A l \in ls : Abort(sl, ls, ans)[l] =
          [sl[l] EXCEPT !.stage = "ready", !.ans = ans, !.idle = 0]
    BY DEF Abort
  <1>6. \A l \in ls : Abort(sl, ls, ans)[l].ans = ans /\ Abort(sl, ls, ans)[l].stage = "ready"
    BY <1>5 DEF Slot
  <1>7. \A l \in Link \ ls : Abort(sl, ls, ans)[l] = sl[l]
    BY DEF Abort
  <1> QED BY <1>4, <1>6, <1>7 DEF Empty

LEMMA OverCaps == ASSUME TypeOK, Over PROVE Capped
  BY OptionsAssumption DEF TypeOK, Over, Capped, Overrun, Reached

\* What a pump does to the slots.
LEMMA PumpedFacts ==
    ASSUME TypeOK
    PROVE  /\ Pumped \in [Link -> Slot]
           /\ \A l \in Link : slot[l] = Empty => Pumped[l] = Empty
           /\ \A l \in Link : Pumped[l].ans = "fatal" => slot[l].ans = "fatal" \/ stop
  <1> DEFINE Mild(a, b) == /\ b \in [Link -> Slot]
                           /\ \A l \in Link : a[l] = Empty => b[l] = Empty
                           /\ \A l \in Link : b[l].ans = "fatal" => a[l].ans = "fatal" \/ stop
  <1>1. ASSUME NEW sl \in [Link -> Slot], NEW ls \in SUBSET Link, NEW ans \in {"fatal", "bad"},
               \A l \in ls : Live(sl[l]), ans = "fatal" => (ls = {} \/ stop)
        PROVE  Mild(sl, Abort(sl, ls, ans))
    <2>1. \A l \in ls : sl[l] # Empty
      BY <1>1 DEF Live, Empty
    <2> QED BY <1>1, <2>1, AbortFacts
  <1>2. ASSUME NEW sl \in [Link -> Slot] PROVE Mild(sl, Reap(sl))
    <2>1. Reap(sl) \in [Link -> Slot]
      BY DEF Reap, Slot
    <2>2. \A l \in Link : Reap(sl)[l] =
             IF sl[l].stage = "handed" THEN [sl[l] EXCEPT !.stage = "ready"] ELSE sl[l]
      BY DEF Reap
    <2>3. Empty.stage # "handed"
      BY DEF Empty
    <2> QED BY <2>1, <2>2, <2>3 DEF Slot
  <1>3. slot \in [Link -> Slot]
    BY DEF TypeOK
  <1> DEFINE kept == Abort(slot, StopDrops(slot), "fatal")
  <1>4. Mild(slot, kept)
    BY <1>1, <1>3 DEF StopDrops
  <1>5. Mild(kept, Abort(kept, {l \in Link : Live(kept[l])}, "bad"))
    BY <1>1, <1>4
  <1>6. Mild(kept, Abort(kept, Silent(kept), "bad"))
    BY <1>1, <1>4 DEF Silent
  <1>7. Mild(Abort(kept, Silent(kept), "bad"), Reap(Abort(kept, Silent(kept), "bad")))
    BY <1>2, <1>6
  <1>8. Pumped = IF Over THEN Abort(kept, {l \in Link : Live(kept[l])}, "bad")
                 ELSE Reap(Abort(kept, Silent(kept), "bad"))
    BY DEF Pumped
  <1> HIDE DEF kept
  <1> QED BY <1>4, <1>5, <1>6, <1>7, <1>8

\* What back_fill() does to them.
LEMMA StartedFacts ==
    ASSUME TypeOK, NEW l
    PROVE  /\ Started(l) \in Slot /\ Started(l) # Empty
           /\ Started(l).ans = "fatal" => stop
  <1>1. CASE stop
    <2>1. Started(l) = [Empty EXCEPT !.stage = "ready", !.ans = "fatal"]
      BY <1>1 DEF Started
    <2>2. Started(l) \in Slot
      BY <2>1, EmptySlot DEF Slot
    <2>3. Started(l).stage = "ready" /\ Empty.stage = "none"
      BY <2>1, EmptySlot DEF Slot, Empty
    <2> QED BY <1>1, <2>2, <2>3
  <1>2. CASE ~stop
    <2>1. PICK stage \in {"ftp", "connect"} : Started(l) = [Empty EXCEPT !.stage = stage]
      BY <1>2 DEF Started
    <2> QED BY <2>1 DEF Empty, Slot
  <1> QED BY <1>1, <1>2

LEMMA FillsFacts ==
    ASSUME TypeOK, NEW sl \in [Link -> Slot], NEW f \in Fills(sl)
    PROVE  /\ f \in [Link -> Slot]
           /\ \A l \in Link : f[l] # Empty => sl[l] # Empty \/ IsAhead(l)
           /\ \A l \in Link : f[l].ans = "fatal" => sl[l].ans = "fatal" \/ stop
  <1>1. CASE f = sl
    BY <1>1
  <1>3. ASSUME NEW k \in Ahead(sl), f = [sl EXCEPT ![k] = Started(k)]
        PROVE  /\ f \in [Link -> Slot]
               /\ \A l \in Link : f[l] # Empty => sl[l] # Empty \/ IsAhead(l)
               /\ \A l \in Link : f[l].ans = "fatal" => sl[l].ans = "fatal" \/ stop
    <2>1. IsAhead(k) /\ (k \in Link => f[k] = Started(k))
      BY <1>3 DEF Ahead, IsAhead
    <2> QED BY <1>3, <2>1, StartedFacts
  <1> QED BY <1>1, <1>3 DEF Fills

-----------------------------------------------------------------------------
LEMMA InitInv == Init => IInv
  <1> SUFFICES ASSUME Init PROVE IInv
    OBVIOUS
  <1> USE DEF Init
  <1>1. TypeOK
    <2>1. slot \in [Link -> Slot]
      BY EmptySlot
    <2>2. heap \in Seq(Item)
      OBVIOUS
    <2> QED BY <2>1, <2>2 DEF TypeOK, Parsing
  <1>2. Place
    BY DEF Place, Parsing, Taking
  <1>3. Slots /\ Causes /\ Judged
    BY DEF Slots, Causes, Judged, Ended, Empty
  <1> QED BY <1>1, <1>2, <1>3 DEF IInv

\* What every pump leaves of the flags: an exit x is the one it had, or the
\* engine's, or a cap's.
Flags(x) ==
    /\ stop' = Stopping
    /\ x = CheckFault(exitXh) \/ x = 1
    /\ exitXh' = x
    /\ gaveUp' = (gaveUp \/ faulted)
    /\ UNCHANGED <<opt, elapsed, recv, faulted>>

LEMMA FlagsFacts ==
    ASSUME TypeOK, NEW x, Flags(x)
    PROVE  /\ stop' \in BOOLEAN /\ gaveUp' \in BOOLEAN
           /\ stop => stop'
           /\ Over => stop'
           /\ Over' = Over
           /\ Halted => Halted'
           /\ exitXh # 0 => exitXh' # 0
           /\ gaveUp' => gaveUp \/ Halted'
  <1>1. Over => stop'
    BY OverCaps DEF Flags, Stopping
  <1>2. Over' = Over
    BY DEF Flags, Over
  <1> QED BY <1>1, <1>2 DEF Flags, Stopping, CheckFault, Halted, TypeOK

\* The bodies a pump cuts are cut by a stop.
LEMMA TearsFacts ==
    ASSUME TypeOK, PumpTears # {} PROVE Stopping
  <1>1. CASE Over
    BY <1>1, OverCaps DEF Stopping
  <1>2. CASE ~Over
    BY <1>2 DEF PumpTears, Written, StopDrops, Stopping
  <1> QED BY <1>1, <1>2

\* A step before the verdict keeps what the verdict is to read.
LEMMA Running ==
    ASSUME IInv, pc \notin Ended \cup {"verdict"}, pc' \notin Ended \cup {"verdict"},
           stop => stop', faulted => faulted', Halted => Halted', Over => Over' \/ stop',
           \A l \in Link : slot'[l].ans = "fatal" => slot[l].ans = "fatal" \/ stop' \/ faulted',
           partial => partial', torn' # {} => torn # {} \/ (stop' /\ partial'),
           unseen' # {} => unseen # {} \/ Halted' \/ Over',
           gaveUp' => gaveUp \/ Halted'
    PROVE  Causes' /\ Judged'
  <1>1. \A l \in Link : slot'[l].ans = "fatal" => stop' \/ faulted'
    BY DEF IInv, Causes
  <1>2. (torn' # {} => stop') /\ (torn' # {} => partial')
    BY DEF IInv, Causes, Judged
  <1>3. unseen' # {} => Halted' \/ Over'
    BY DEF IInv, Causes, Halted
  <1>4. gaveUp' => Halted'
    BY DEF IInv, Causes
  <1> QED BY <1>1, <1>2, <1>3, <1>4 DEF Causes, Judged, Ended

\* A pump is such a step.
LEMMA PumpStep ==
    ASSUME IInv, NEW x, Flags(x), torn' = torn \cup PumpTears,
           partial' = (partial \/ PumpTears # {}),
           pc \notin Ended \cup {"verdict"}, pc' \notin Ended \cup {"verdict"},
           \A l \in Link : slot'[l].ans = "fatal" => slot[l].ans = "fatal" \/ stop,
           unseen' # {} => unseen # {} \/ Halted' \/ Over
    PROVE  Causes' /\ Judged'
  <1>1. TypeOK
    BY DEF IInv
  <1>2. torn' # {} => torn # {} \/ (stop' /\ partial')
    BY <1>1, TearsFacts DEF Flags
  <1>3. (stop => stop') /\ (faulted => faulted') /\ (Halted => Halted') /\ (Over' = Over)
        /\ (gaveUp' => gaveUp \/ Halted')
    BY <1>1, FlagsFacts DEF Flags
  <1> QED BY <1>2, <1>3, Running

LEMMA AheadKept ==
    ASSUME TypeOK, ptr' = ptr, ptr <= Len(heap),
           NEW e, heap' \in {heap, Append(heap, e)}
    PROVE  /\ \A l : IsAhead(l) => IsAhead(l)'
           /\ heap' = Append(heap, e) => IsAhead(e.link)'
  <1>1. CASE heap' = heap
    <2>1. heap # Append(heap, e)
      BY DEF TypeOK
    <2> QED BY <1>1, <2>1 DEF IsAhead
  <1>2. CASE heap' = Append(heap, e)
    <2>1. /\ Len(heap') = Len(heap) + 1 /\ Len(heap) \in Nat /\ heap'[Len(heap) + 1] = e
          /\ \A i \in 1 .. Len(heap) : heap'[i] = heap[i]
      BY <1>2 DEF TypeOK
    <2>2. \A l : IsAhead(l) => IsAhead(l)'
      BY <2>1 DEF IsAhead, TypeOK
    <2>3. IsAhead(e.link)'
      <3>1. Len(heap) + 1 \in ptr' + 1 .. Len(heap')
        BY <2>1 DEF TypeOK
      <3> QED BY <2>1, <3>1 DEF IsAhead
    <2> QED BY <2>2, <2>3
  <1> QED BY <1>1, <1>2

\* What everyone but the engine does leaves the engine where it is.
LEMMA WorldStep ==
    ASSUME IInv,
           UNCHANGED <<opt, place, torn, unseen, gaveUp, partial, verdict>>,
           slot' \in [Link -> Slot], \A l \in Link : slot[l] = Empty => slot'[l] = Empty,
           \A l \in Link : slot'[l].ans = "fatal" => slot[l].ans = "fatal" \/ faulted',
           stop' \in BOOLEAN, faulted' \in BOOLEAN, elapsed' \in Nat, recv' \in Nat,
           stop => stop', faulted => faulted', exitXh # 0 => exitXh' # 0, Over => Over',
           pc = "closed" => faulted' = faulted
    PROVE  IInv'
  <1> USE DEF IInv, place, verdict
  <1>1. TypeOK'
    BY DEF TypeOK
  <1>2. Place'
    BY DEF Place, NextLink
  <1>3. Slots'
    BY DEF Slots, IsAhead, Held, At, NextLink
  <1>4. Causes'
    BY DEF Causes, Halted
  <1>5. Judged'
    BY DEF Judged, Halted, AllEmpty
  <1> QED BY <1>1, <1>2, <1>3, <1>4, <1>5

LEMMA ReceiveInv == ASSUME IInv, NEW l \in Link, Receive(l) PROVE IInv'
  <1>1. TypeOK
    BY DEF IInv
  <1>2. slot[l] \in Slot /\ slot[l] # Empty
    BY <1>1 DEF TypeOK, Receive, Live, Empty
  <1>3. /\ slot' \in [Link -> Slot] /\ \A k \in Link \ {l} : slot'[k] = slot[k]
        /\ slot'[l].ans = "fatal" => slot[l].ans = "fatal"
    <2>1. CASE \E stage \in {"headers", "body"} :
                 slot' = [slot EXCEPT ![l] = [@ EXCEPT !.stage = stage, !.idle = 0]]
      <3>1. PICK stage \in {"headers", "body"} :
               slot' = [slot EXCEPT ![l] = [@ EXCEPT !.stage = stage, !.idle = 0]]
        BY <2>1
      <3>2. \A n \in Int : LET moved == [slot[l] EXCEPT !.stage = stage, !.idle = n]
                           IN  moved \in Slot /\ moved.ans = slot[l].ans
        BY <1>2 DEF Slot
      <3>3. 0 \in Int
        OBVIOUS
      <3> QED BY <1>1, <3>1, <3>2, <3>3 DEF TypeOK
    <2>2. CASE \E ans \in {"ok", "busy", "bad"} : slot' = Abort(slot, {l}, ans)
      BY <1>1, <2>2, AbortFacts DEF TypeOK
    <2> QED BY <2>1, <2>2 DEF Receive
  <1>4. recv' \in Nat
    <2>1. opt.maxsite + opt.sizeGrace \in Nat
      BY <1>1, OptionsAssumption DEF TypeOK
    <2>2. Min({recv + 1, opt.maxsite + opt.sizeGrace}) \in Nat
      BY <1>1, <2>1, MinMax DEF TypeOK
    <2> QED BY <1>1, <2>2 DEF Receive, TypeOK
  <1>5. /\ UNCHANGED <<opt, control, elapsed, place, partial, verdict, history>> /\ ~Over
    BY DEF Receive
  <1> QED
    BY <1>1, <1>2, <1>3, <1>4, <1>5, WorldStep DEF control, history, TypeOK

LEMMA WorkerInv ==
    ASSUME IInv, NEW l \in Link, FtpEnd(l) \/ FtpGivesUp(l) \/ FtpFaults(l) PROVE IInv'
  <1>1. TypeOK
    BY DEF IInv
  <1>2. /\ slot[l].stage = "ftp" /\ slot[l] # Empty
        /\ UNCHANGED <<opt, stop, exitXh, timers, place, partial, verdict, history>>
        /\ faulted' = faulted \/ faulted' = TRUE
    BY DEF FtpEnd, FtpGivesUp, FtpFaults, control, Empty
  <1>3. PICK ans \in {"ok", "bad", "fatal"} :
           /\ slot' = [slot EXCEPT ![l] = [stage |-> "handed", idle |-> 0, ans |-> ans]]
           /\ ans = "fatal" => faulted'
    BY DEF FtpEnd, FtpGivesUp, FtpFaults
  <1>4. [stage |-> "handed", idle |-> 0, ans |-> ans] \in Slot
    <2>1. \A n \in Int : [stage |-> "handed", idle |-> n, ans |-> ans] \in Slot
      BY DEF Slot
    <2> QED BY <2>1
  <1>5. /\ slot' \in [Link -> Slot] /\ slot'[l].ans = ans
        /\ \A k \in Link \ {l} : slot'[k] = slot[k]
    BY <1>1, <1>3, <1>4 DEF TypeOK
  <1>6. pc # "closed"
    BY <1>2 DEF IInv, Judged, AllEmpty
  <1>7. Over' = Over
    BY <1>2 DEF Over, timers
  <1>8. \A k \in Link : slot[k] = Empty => slot'[k] = Empty
    BY <1>2, <1>5
  <1>9. \A k \in Link : slot'[k].ans = "fatal" => slot[k].ans = "fatal" \/ faulted'
    BY <1>3, <1>5
  <1>10. faulted' \in BOOLEAN /\ (faulted => faulted') /\ stop' \in BOOLEAN
    <2>1. CASE faulted' = faulted
      BY <1>1, <1>2, <2>1 DEF TypeOK
    <2>2. CASE faulted' = TRUE
      BY <1>1, <1>2, <2>2 DEF TypeOK
    <2> QED BY <1>2, <2>1, <2>2
  <1>11. /\ UNCHANGED <<opt, place, torn, unseen, gaveUp, partial, verdict, stop, exitXh>>
         /\ elapsed' \in Nat /\ recv' \in Nat
    BY <1>1, <1>2 DEF timers, history, TypeOK
  <1> QED BY <1>5, <1>6, <1>7, <1>8, <1>9, <1>10, <1>11, WorldStep

LEMMA UserInv == ASSUME IInv, CtrlC \/ Sigterm PROVE IInv'
  <1>1. TypeOK
    BY DEF IInv
  <1>2. /\ UNCHANGED <<opt, place, torn, unseen, gaveUp, partial, verdict, slot, faulted,
                       elapsed, recv>>
        /\ (stop' = stop \/ stop' = TRUE) /\ (exitXh # 0 => exitXh' # 0)
    BY DEF CtrlC, Sigterm, timers, history
  <1>4. stop' \in BOOLEAN /\ (stop => stop')
    <2>1. CASE stop' = stop
      BY <1>1, <2>1 DEF TypeOK
    <2>2. CASE stop' = TRUE
      BY <2>2
    <2> QED BY <1>2, <2>1, <2>2
  <1>3. Over' = Over
    BY <1>2 DEF Over
  <1> QED BY <1>1, <1>2, <1>3, <1>4, WorldStep DEF TypeOK

LEMMA TickInv == ASSUME IInv, Tick PROVE IInv'
  <1>1. TypeOK
    BY DEF IInv
  <1>2. /\ opt.maxtime \in Nat /\ opt.timeGrace \in Nat /\ opt.timeout \in Nat
    BY <1>1, OptionsAssumption DEF TypeOK
  <1>3. elapsed' \in Nat
    <2>1. elapsed + 1 \in Nat /\ opt.maxtime + opt.timeGrace \in Nat
      BY <1>1, <1>2 DEF TypeOK
    <2>2. Min({elapsed + 1, opt.maxtime + opt.timeGrace}) \in Nat
      BY <2>1, MinMax
    <2> QED BY <2>2 DEF Tick
  <1>4. Over => Over'
    <2>1. CASE opt.maxtime = 0
      BY <2>1 DEF Tick, Over, Overrun
    <2>2. CASE opt.maxtime # 0
      <3>1. elapsed' = IF elapsed + 1 <= opt.maxtime + opt.timeGrace THEN elapsed + 1
                       ELSE opt.maxtime + opt.timeGrace
        <4>1. elapsed + 1 \in Int /\ opt.maxtime + opt.timeGrace \in Int
          BY <1>1, <1>2 DEF TypeOK
        <4>2. elapsed' = Min({elapsed + 1, opt.maxtime + opt.timeGrace})
          BY <2>2 DEF Tick
        <4> QED BY <4>1, <4>2, MinMax
      <3>2. elapsed >= opt.maxtime + opt.timeGrace => elapsed' >= opt.maxtime + opt.timeGrace
        BY <1>1, <1>2, <3>1 DEF TypeOK
      <3> QED BY <3>2 DEF Tick, Over, Overrun
    <2> QED BY <2>1, <2>2
  <1>5. \A l \in Link : slot[l] \in Slot
    BY <1>1 DEF TypeOK
  <1>6. \A l \in Link : /\ slot'[l] \in Slot /\ slot'[l].ans = slot[l].ans
                        /\ slot[l] = Empty => slot'[l] = Empty
    <2> SUFFICES ASSUME NEW l \in Link
                 PROVE  /\ slot'[l] \in Slot /\ slot'[l].ans = slot[l].ans
                        /\ slot[l] = Empty => slot'[l] = Empty
      OBVIOUS
    <2>1. CASE Busy(slot[l]) /\ slot[l].stage # "handed"
      <3>1. slot'[l] = [slot[l] EXCEPT !.idle = Min({@ + 1, opt.timeout})]
        BY <2>1 DEF Tick
      <3>2. Min({slot[l].idle + 1, opt.timeout}) \in Int
        BY <1>2, <1>5, MinMax DEF Slot
      <3>3. slot[l] # Empty
        BY <2>1 DEF Busy, Live, Empty
      <3> QED BY <1>5, <3>1, <3>2, <3>3 DEF Slot
    <2>2. CASE ~(Busy(slot[l]) /\ slot[l].stage # "handed")
      BY <1>5, <2>2 DEF Tick
    <2> QED BY <2>1, <2>2
  <1>7. slot' \in [Link -> Slot]
    <2>1. slot' = [l \in Link |-> slot'[l]]
      BY DEF Tick
    <2> QED BY <1>6, <2>1
  <1>8. UNCHANGED <<opt, place, torn, unseen, gaveUp, partial, verdict, control, recv>>
    BY DEF Tick, history
  <1> QED BY <1>1, <1>3, <1>4, <1>6, <1>7, <1>8, WorldStep DEF control, TypeOK

-----------------------------------------------------------------------------
(* The first page *)

\* The parser's steps that leave the flags as they are, or raise an exit.
LEMMA ParseLinkInv == ASSUME IInv, ParseTyped \/ LinkCap PROVE IInv'
  <1> USE DEF IInv
  <1>1. /\ pc = "parse" /\ ptr = 0 /\ NextLink \in Link /\ seen' = NextLink
        /\ UNCHANGED <<opt, stop, faulted, timers, slot, ptr, pc, after, partial, verdict, torn>>
    BY DEF ParseTyped, LinkCap, control, Place, Parsing
  <1>2. PICK e \in Item : heap' \in {heap, Append(heap, e)}
    <2>1. [link |-> NextLink, tries |-> Retries] \in Item
      BY <1>1, ConstantsAssumption DEF Item
    <2> QED BY <2>1 DEF ParseTyped, LinkCap, Record, Drop
  <1>3. TypeOK'
    <2>1. heap' \in Seq(Item) /\ seen' \in Nat
      BY <1>1, <1>2 DEF TypeOK, NextLink
    <2>2. gaveUp' \in BOOLEAN
      BY DEF TypeOK, ParseTyped, LinkCap
    <2> QED BY <1>1, <2>1, <2>2 DEF TypeOK, timers, verdict
  <1>4. Place'
    BY <1>1 DEF Place, Parsing, Taking
  <1>5. Slots'
    <2>1. \A l : IsAhead(l) => IsAhead(l)'
      BY <1>1, <1>2, AheadKept DEF TypeOK
    <2> QED BY <1>1, <2>1 DEF Slots, Held, Taking, Ended
  <1>6. Over' = Over
    BY <1>1 DEF Over, timers
  <1>7. /\ Halted => Halted'
        /\ unseen' # {} => unseen # {} \/ Halted' \/ Over'
        /\ gaveUp' => gaveUp \/ Halted'
    BY <1>1, <1>6 DEF ParseTyped, LinkCap, Record, Drop, NoCatch, Halted, control
  <1>8. Causes' /\ Judged'
    BY <1>1, <1>6, <1>7, Running DEF Ended
  <1> QED BY <1>3, <1>4, <1>5, <1>8

LEMMA ParseMoveInv == ASSUME IInv, ParseUntyped \/ ParseEnd PROVE IInv'
  <1> USE DEF IInv
  <1>1. /\ pc = "parse" /\ ptr = 0 /\ UNCHANGED heap
        /\ UNCHANGED <<opt, control, timers, slot, ptr, partial, verdict, torn, gaveUp>>
    BY DEF ParseUntyped, ParseEnd, Place, Parsing, Drop
  <1>2. /\ seen' \in {seen, seen + 1} /\ pc' \in {"parse", "sockets", "advance"}
        /\ pc' = "sockets" => NextLink \in Link /\ seen' = seen
    BY OptionsAssumption DEF ParseUntyped, ParseEnd, NextLink, Goto, TypeOK
  <1>3. TypeOK'
    BY <1>1, <1>2 DEF TypeOK, timers, verdict, control, Parsing
  <1>4. Place'
    BY <1>1, <1>2 DEF Place, Parsing, Taking, TypeOK, NextLink
  <1>5. Slots'
    BY <1>1, <1>2 DEF Slots, Held, IsAhead, Taking, Ended
  <1>6. Over' = Over
    BY <1>1 DEF Over, timers
  <1>7. unseen' # {} => unseen # {} \/ Halted' \/ Over'
    <2>1. CASE ParseUntyped
      BY <1>1, <2>1 DEF ParseUntyped, Drop, NoCatch, Halted, control
    <2>2. CASE ParseEnd
      <3>1. ~Over => {l \in Link : l > seen} = {}
        BY <2>2, ConstantsAssumption DEF ParseEnd, NextLink, Link, TypeOK
      <3> QED BY <1>6, <2>2, <3>1 DEF ParseEnd, Drop
    <2> QED BY <2>1, <2>2
  <1>8. Causes' /\ Judged'
    BY <1>1, <1>2, <1>6, <1>7, Running DEF Ended, Halted, control
  <1> QED BY <1>3, <1>4, <1>5, <1>8

\* A step that pumps, fills or neither, and goes on.
LEMMA SlotsKept ==
    ASSUME IInv, pc \notin Ended \cup {"verdict", "advance"}, UNCHANGED <<heap, ptr>>,
           \A l \in Link : slot'[l] # Empty => slot[l] # Empty \/ IsAhead(l),
           \A l \in Link : Held(l) => Held(l)' \/ slot'[l] = Empty
                                      \/ (pc' = "advance" /\ exitXh' # 0)
    PROVE  Slots'
  <1> SUFFICES ASSUME pc' \notin Ended \cup {"verdict"}, NEW l \in Link, slot'[l] # Empty
               PROVE  IsAhead(l)' \/ Held(l)' \/ (pc' = "advance" /\ exitXh' # 0)
    BY DEF Slots
  <1>1. IsAhead(l)' = IsAhead(l)
    BY DEF IsAhead
  <1> QED BY <1>1 DEF IInv, Slots

LEMMA ParsePumpInv == ASSUME IInv, ParsePump PROVE IInv'
  <1> USE DEF IInv
  <1>1. /\ pc = "parse" /\ Flags(CheckFault(exitXh)) /\ slot' \in Fills(Pumped)
        /\ UNCHANGED <<opt, timers, place, term, faulted, verdict, unseen>>
        /\ torn' = torn \cup PumpTears /\ partial' = (partial \/ PumpTears # {})
    BY DEF ParsePump, Flags, timers
  <1>2. /\ slot' \in [Link -> Slot]
        /\ \A l \in Link : slot'[l] # Empty => slot[l] # Empty \/ IsAhead(l)
        /\ \A l \in Link : slot'[l].ans = "fatal" => slot[l].ans = "fatal" \/ stop
    BY <1>1, PumpedFacts, FillsFacts
  <1>3. TypeOK'
    <2>1. stop' \in BOOLEAN /\ gaveUp' \in BOOLEAN /\ partial' \in BOOLEAN
      BY <1>1, FlagsFacts DEF TypeOK
    <2> QED BY <1>1, <1>2, <2>1 DEF TypeOK, timers, place, verdict
  <1>4. Place'
    BY <1>1 DEF Place, place, NextLink
  <1>5. Slots'
    BY <1>1, <1>2, SlotsKept DEF place, Held, Taking, Ended
  <1>6. Causes' /\ Judged'
    BY <1>1, <1>2, PumpStep DEF place, Ended
  <1> QED BY <1>3, <1>4, <1>5, <1>6

\* The waits that only pump: for a socket, before a type or before the link
\* at hand.
LEMMA WaitInv == ASSUME IInv, WaitSocket \/ Pause PROVE IInv'
  <1> USE DEF IInv
  <1>1. /\ pc \in {"sockets", "pause"}
        /\ pc = "sockets" => pc' \in {"sockets", "delayed"}
        /\ pc = "pause" => pc' \in {"pause", after}
        /\ UNCHANGED after
        /\ UNCHANGED <<opt, elapsed, recv, heap, ptr, seen, faulted, verdict, unseen>>
    <2>1. CASE WaitSocket
      BY <2>1 DEF WaitSocket, Goto, Pump, control, timers, history, verdict
    <2>2. CASE Pause
      BY <2>2 DEF Pause, Pump, control, timers, history, verdict
    <2> QED BY <2>1, <2>2
  <1>2. pc = "pause" => pc' \in {"pause", "add", "wait"}
    BY <1>1 DEF Place
  <1>3. CASE Pump
    <2>1. /\ Flags(CheckFault(exitXh)) /\ slot' = Pumped
          /\ torn' = torn \cup PumpTears /\ partial' = (partial \/ PumpTears # {})
      BY <1>3 DEF Pump, Flags
    <2>2. /\ slot' \in [Link -> Slot]
          /\ \A l \in Link : slot'[l] # Empty => slot[l] # Empty
          /\ \A l \in Link : slot'[l].ans = "fatal" => slot[l].ans = "fatal" \/ stop
      BY <2>1, PumpedFacts
    <2>3. TypeOK'
      <3>1. stop' \in BOOLEAN /\ gaveUp' \in BOOLEAN /\ partial' \in BOOLEAN
        BY <2>1, FlagsFacts DEF TypeOK
      <3> QED BY <1>1, <1>2, <2>2, <3>1 DEF TypeOK, verdict, Parsing, Taking
    <2>4. Place'
      BY <1>1, <1>2 DEF Place, NextLink, Parsing, Taking
    <2>5. Slots'
      <3>1. \A l \in Link : Held(l) => Held(l)'
        BY <1>1, <1>2 DEF Held, At, Taking
      <3> QED BY <1>1, <2>2, <3>1, SlotsKept DEF Ended
    <2>6. Causes' /\ Judged'
      BY <1>1, <1>2, <2>1, <2>2, PumpStep DEF Ended, Taking
    <2> QED BY <2>3, <2>4, <2>5, <2>6
  <1>4. CASE UNCHANGED <<opt, control, timers, slot, heap, ptr, seen, partial, verdict, history>>
    <2>1. TypeOK'
      BY <1>1, <1>2, <1>4 DEF TypeOK, control, timers, verdict, history, Parsing, Taking
    <2>2. Place'
      BY <1>1, <1>2 DEF Place, NextLink, Parsing, Taking
    <2>3. Slots'
      <3>1. \A l \in Link : Held(l) => Held(l)'
        BY <1>1, <1>2 DEF Held, At, Taking
      <3> QED BY <1>1, <1>4, <3>1, SlotsKept DEF Ended
    <2>4. Causes' /\ Judged'
      BY <1>1, <1>2, <1>4, Running
      DEF control, timers, history, Ended, Taking, Halted, Over
    <2> QED BY <2>1, <2>2, <2>3, <2>4
  <1> QED BY <1>3, <1>4 DEF WaitSocket, Pause

\* A link whose type has to be awaited.
LEMMA AddDelayedInv == ASSUME IInv, AddDelayed PROVE IInv'
  <1> USE DEF IInv
  <1>1. /\ pc = "delayed" /\ ptr = 0 /\ NextLink \in Link /\ UNCHANGED heap
        /\ UNCHANGED <<opt, control, timers, ptr, after, partial, verdict, gaveUp, torn>>
    BY DEF AddDelayed, Drop, Goto, Place, Parsing
  <1>2. Over' = Over /\ Halted' = Halted
    BY <1>1 DEF Over, timers, Halted, control
  <1>3. CASE stop
    <2>1. /\ pc' = "parse" /\ seen' = NextLink /\ UNCHANGED slot
      BY <1>3 DEF AddDelayed, Goto
    <2>2. TypeOK'
      BY <1>1, <2>1 DEF TypeOK, timers, verdict, control, Parsing, NextLink
    <2>3. Place'
      BY <1>1, <2>1 DEF Place, Parsing, Taking
    <2>4. Slots'
      BY <1>1, <2>1, SlotsKept DEF Held, Taking, Ended
    <2>5. Causes' /\ Judged'
      BY <1>1, <1>2, <1>3, <2>1, Running DEF Ended, Halted, control
    <2> QED BY <2>2, <2>3, <2>4, <2>5
  <1>4. CASE ~stop
    <2>1. /\ pc' = "type" /\ UNCHANGED <<seen, unseen>>
          /\ slot' = [slot EXCEPT ![NextLink] = Started(NextLink)]
      BY <1>4 DEF AddDelayed, Goto
    <2>2. slot' \in [Link -> Slot]
      BY <1>1, <2>1, StartedFacts DEF TypeOK
    <2>3. TypeOK'
      BY <1>1, <2>1, <2>2 DEF TypeOK, timers, verdict, control, Parsing
    <2>4. Place'
      BY <1>1, <2>1 DEF Place, Parsing, Taking, NextLink
    <2>5. Slots'
      <3>1. \A l \in Link : slot'[l] # Empty => slot[l] # Empty \/ l = NextLink
        BY <1>1, <2>1 DEF TypeOK
      <3>2. \A l \in Link : slot[l] # Empty => IsAhead(l)
        BY <1>1 DEF Slots, Held, Taking, Ended
      <3> QED BY <1>1, <2>1, <3>1, <3>2 DEF Slots, IsAhead, Held, NextLink
    <2>6. \A l \in Link : slot'[l].ans = "fatal" => slot[l].ans = "fatal" \/ stop
      BY <1>1, <2>1, StartedFacts DEF TypeOK
    <2>7. Causes' /\ Judged'
      BY <1>1, <1>2, <2>1, <2>6, Running DEF Ended, control
    <2> QED BY <2>3, <2>4, <2>5, <2>7
  <1> QED BY <1>3, <1>4

LEMMA WaitTypeInv == ASSUME IInv, WaitType PROVE IInv'
  <1> USE DEF IInv
  <1>1. /\ pc = "type" /\ ptr = 0 /\ NextLink \in Link /\ UNCHANGED heap
        /\ Flags(CheckFault(exitXh))
        /\ torn' = torn \cup PumpTears /\ partial' = (partial \/ PumpTears # {})
        /\ UNCHANGED <<opt, timers, ptr, term, faulted, verdict, after>>
    BY DEF WaitType, Flags, timers, Drop, Goto, Place, Parsing
  <1>2. PICK sl \in Fills(Pumped) :
           IF Over
           THEN /\ slot' = [sl EXCEPT ![NextLink] = Empty]
                /\ Drop({NextLink}) /\ seen' = NextLink /\ Goto("parse")
           ELSE slot' = sl /\ UNCHANGED <<pc, after, seen, heap, unseen>>
    BY DEF WaitType
  <1>3. /\ sl \in [Link -> Slot]
        /\ \A l \in Link : sl[l] # Empty => slot[l] # Empty \/ IsAhead(l)
        /\ \A l \in Link : sl[l].ans = "fatal" => slot[l].ans = "fatal" \/ stop
    BY PumpedFacts, FillsFacts
  <1>4. Empty.ans # "fatal"
    BY DEF Empty
  <1>5. /\ slot' \in [Link -> Slot]
        /\ \A l \in Link : slot'[l] # Empty => slot[l] # Empty \/ IsAhead(l)
        /\ \A l \in Link : slot'[l].ans = "fatal" => slot[l].ans = "fatal" \/ stop
    BY <1>1, <1>2, <1>3, <1>4, EmptySlot
  <1>6. /\ pc' = "type" => UNCHANGED seen
        /\ pc' = "parse" => slot'[NextLink] = Empty
        /\ pc' \in {"type", "parse"} /\ seen' \in Nat
        /\ unseen' # {} => unseen # {} \/ Over
    BY <1>1, <1>2, <1>3 DEF Goto, Drop, TypeOK, NextLink
  <1>7. TypeOK'
    <2>1. stop' \in BOOLEAN /\ gaveUp' \in BOOLEAN /\ partial' \in BOOLEAN
      BY <1>1, FlagsFacts DEF TypeOK
    <2> QED BY <1>1, <1>5, <1>6, <2>1 DEF TypeOK, timers, verdict, Parsing
  <1>8. Place'
    BY <1>1, <1>6 DEF Place, Parsing, Taking, NextLink
  <1>9. Slots'
    BY <1>1, <1>5, <1>6, SlotsKept DEF Held, Taking, Ended, NextLink
  <1>10. Causes' /\ Judged'
    BY <1>1, <1>5, <1>6, PumpStep DEF Ended
  <1> QED BY <1>7, <1>8, <1>9, <1>10

LEMMA TypeKnownInv == ASSUME IInv, TypeKnown PROVE IInv'
  <1> USE DEF IInv
  <1>1. /\ pc = "type" /\ pc' = "parse" /\ ptr = 0 /\ NextLink \in Link /\ seen' = NextLink
        /\ UNCHANGED <<opt, control, timers, ptr, after, partial, verdict, gaveUp, torn>>
    BY DEF TypeKnown, Goto, Place, Parsing
  <1>2. /\ slot' \in [Link -> Slot]
        /\ \A l \in Link : slot'[l] = slot[l] \/ slot'[l] = Empty
    BY <1>1, EmptySlot DEF TypeKnown, TypeOK
  <1>3. PICK e \in Item : /\ e.link = NextLink
                         /\ \/ heap' = Append(heap, e)
                            \/ heap' = heap /\ slot'[NextLink] = Empty
    <2>1. [link |-> NextLink, tries |-> Retries] \in Item
      BY <1>1, ConstantsAssumption DEF Item
    <2>2. slot'[NextLink] = Empty \/ heap' = Append(heap, [link |-> NextLink, tries |-> Retries])
      BY <1>1 DEF TypeKnown, Record, TypeOK
    <2>3. \/ heap' = Append(heap, [link |-> NextLink, tries |-> Retries])
          \/ heap' = heap
      BY DEF TypeKnown, Record, Drop
    <2> QED BY <2>1, <2>2, <2>3
  <1>4. TypeOK'
    <2>1. heap' \in Seq(Item) /\ seen' \in Nat
      BY <1>1, <1>3 DEF TypeOK, NextLink
    <2> QED BY <1>1, <1>2, <2>1 DEF TypeOK, timers, verdict, control, Parsing
  <1>5. Place'
    BY <1>1 DEF Place, Parsing, Taking
  <1>6. Slots'
    <2>1. /\ \A l : IsAhead(l) => IsAhead(l)'
          /\ heap' = Append(heap, e) => IsAhead(e.link)'
      BY <1>1, <1>3, AheadKept DEF TypeOK
    <2>2. \A l \in Link : slot[l] # Empty => IsAhead(l) \/ l = NextLink
      BY <1>1 DEF Slots, Held, Taking, Ended
    <2> QED BY <1>1, <1>2, <1>3, <2>1, <2>2 DEF Slots
  <1>7. Over' = Over /\ Halted' = Halted
    BY <1>1 DEF Over, timers, Halted, control
  <1>8. unseen' # {} => unseen # {} \/ Halted
    BY <1>1 DEF TypeKnown, Record, Drop, Causes, Halted
  <1>9. Empty.ans # "fatal"
    BY DEF Empty
  <1>10. Causes' /\ Judged'
    BY <1>1, <1>2, <1>7, <1>8, <1>9, Running DEF Ended, control
  <1> QED BY <1>4, <1>5, <1>6, <1>10

-----------------------------------------------------------------------------
(* The link at hand *)

LEMMA AtFacts ==
    ASSUME TypeOK, Place, pc \in Taking
    PROVE  At \in Link /\ heap[ptr] \in Item /\ ptr \in Nat /\ ptr <= Len(heap)
  <1>1. ptr \in 1 .. Len(heap) /\ heap \in Seq(Item)
    BY DEF Place, TypeOK
  <1>2. heap[ptr] \in Item
    BY <1>1
  <1> QED BY <1>1, <1>2 DEF At, Item

LEMMA AddCurrentInv == ASSUME IInv, AddCurrent PROVE IInv'
  <1> USE DEF IInv
  <1>1. /\ pc = "add" /\ pc' = "pause" /\ after' = "wait"
        /\ UNCHANGED <<opt, control, timers, heap, ptr, seen, partial, verdict, history>>
    BY DEF AddCurrent
  <1>2. At \in Link
    BY <1>1, AtFacts DEF Taking
  <1> DEFINE mine == IF slot[At] # Empty THEN slot ELSE [slot EXCEPT ![At] = Started(At)]
  <1>3. /\ mine \in [Link -> Slot]
        /\ \A l \in Link : mine[l] # Empty => slot[l] # Empty \/ l = At
        /\ \A l \in Link : mine[l].ans = "fatal" => slot[l].ans = "fatal" \/ stop
    BY <1>2, StartedFacts DEF TypeOK
  <1>4. slot' \in Fills(mine)
    BY DEF AddCurrent
  <1> HIDE DEF mine
  <1>5. /\ slot' \in [Link -> Slot]
        /\ \A l \in Link : slot'[l] # Empty => slot[l] # Empty \/ l = At \/ IsAhead(l)
        /\ \A l \in Link : slot'[l].ans = "fatal" => slot[l].ans = "fatal" \/ stop
    BY <1>3, <1>4, FillsFacts
  <1>6. TypeOK'
    BY <1>1, <1>5 DEF TypeOK, control, timers, verdict, history, Taking
  <1>7. Place'
    BY <1>1 DEF Place, Parsing, Taking
  <1>8. Slots'
    <2>1. \A l \in Link : slot[l] # Empty => IsAhead(l) \/ l = At
      BY <1>1 DEF Slots, Held, Taking, Ended
    <2> QED BY <1>1, <1>5, <2>1 DEF Slots, IsAhead, Held, At, Taking
  <1>9. Causes' /\ Judged'
    BY <1>1, <1>5, Running DEF Ended, control, history, timers, Halted, Over
  <1> QED BY <1>6, <1>7, <1>8, <1>9

LEMMA WaitFileInv == ASSUME IInv, WaitFile PROVE IInv'
  <1> USE DEF IInv
  <1>1. /\ pc = "wait" /\ pc' \in {"advance", "pause"}
        /\ UNCHANGED <<opt, timers, heap, ptr, seen, term, faulted, verdict, unseen>>
        /\ Flags(IF Over THEN 1 ELSE CheckFault(exitXh))
        /\ torn' = torn \cup PumpTears /\ partial' = (partial \/ PumpTears # {})
    BY DEF WaitFile, Flags, timers, Goto
  <1>2. /\ pc' = "advance" => exitXh' # 0
        /\ pc' = "pause" => after' = "wait"
        /\ slot' = Pumped \/ slot' \in Fills(Pumped)
    BY DEF WaitFile, Goto
  <1>3. /\ slot' \in [Link -> Slot]
        /\ \A l \in Link : slot'[l] # Empty => slot[l] # Empty \/ IsAhead(l)
        /\ \A l \in Link : slot'[l].ans = "fatal" => slot[l].ans = "fatal" \/ stop
    BY <1>2, PumpedFacts, FillsFacts
  <1>4. TypeOK'
    <2>1. stop' \in BOOLEAN /\ gaveUp' \in BOOLEAN /\ partial' \in BOOLEAN
      BY <1>1, FlagsFacts DEF TypeOK
    <2> QED BY <1>1, <1>3, <2>1 DEF TypeOK, timers, verdict, Taking
  <1>5. Place'
    BY <1>1, <1>2 DEF Place, Parsing, Taking, TypeOK
  <1>6. Slots'
    BY <1>1, <1>2, <1>3, SlotsKept DEF Held, At, Taking, Ended
  <1>7. Causes' /\ Judged'
    BY <1>1, <1>3, PumpStep DEF Ended
  <1> QED BY <1>4, <1>5, <1>6, <1>7

LEMMA FileReadyInv == ASSUME IInv, FileReady PROVE IInv'
  <1> USE DEF IInv
  <1>1. /\ pc = "wait" /\ pc' \in {"advance", "handle"}
        /\ pc' = "advance" => exitXh' # 0
        /\ UNCHANGED <<opt, timers, slot, heap, ptr, seen, term, faulted, partial, verdict,
                       torn, unseen, after>>
    BY DEF FileReady, Goto
  <1>2. Flags(IF Over THEN 1 ELSE CheckFault(exitXh))
    BY DEF FileReady, Flags, timers
  <1>3. TypeOK'
    <2>1. stop' \in BOOLEAN /\ gaveUp' \in BOOLEAN
      BY <1>2, FlagsFacts DEF TypeOK
    <2> QED BY <1>1, <2>1 DEF TypeOK, timers, verdict, Taking
  <1>4. Place'
    BY <1>1 DEF Place, Parsing, Taking, TypeOK
  <1>5. Slots'
    BY <1>1, SlotsKept DEF Held, At, Taking, Ended
  <1>6. Causes' /\ Judged'
    BY <1>1, <1>2, FlagsFacts, Running DEF Ended
  <1> QED BY <1>3, <1>4, <1>5, <1>6

\* The link is done with: its slot is free.
LEMMA HandleInv == ASSUME IInv, Handle \/ DiskFull PROVE IInv'
  <1> USE DEF IInv
  <1>1. /\ pc = "handle" /\ pc' = "advance" /\ slot' = [slot EXCEPT ![At] = Empty]
        /\ UNCHANGED <<opt, stop, faulted, elapsed, recv, ptr, seen, after, partial, completed,
                       exitCode, ref, torn, unseen>>
    <2>1. CASE Handle
      <3>1. UNCHANGED <<control, partial, elapsed, recv, history, completed, exitCode, ref>>
        BY <2>1 DEF Handle
      <3> QED BY <2>1, <3>1 DEF Handle, Saved, Retry, GiveUp, Goto, control, history
    <2>2. CASE DiskFull
      BY <2>2 DEF DiskFull, Goto, timers, verdict
    <2> QED BY <2>1, <2>2
  <1>2. At \in Link /\ heap[ptr] \in Item /\ ptr \in Nat /\ ptr <= Len(heap)
    BY <1>1, AtFacts DEF Taking
  <1>3. PICK e \in Item : heap' \in {heap, Append(heap, e)}
    <2>1. [heap[ptr] EXCEPT !.tries = @ - 1] \in Item
      BY <1>2 DEF Item
    <2> QED BY <2>1 DEF Handle, Saved, Retry, GiveUp, DiskFull
  <1>4. /\ slot' \in [Link -> Slot] /\ slot'[At] = Empty
        /\ \A l \in Link \ {At} : slot'[l] = slot[l]
    BY <1>1, <1>2, EmptySlot DEF TypeOK
  <1>5. /\ exitXh # 0 => exitXh' # 0
        /\ gaveUp' => gaveUp \/ exitXh' # 0
        /\ gaveUp' \in BOOLEAN /\ files' \in BOOLEAN
    <2>1. CASE Handle
      <3>1. UNCHANGED <<exitXh, gaveUp>>
        BY <2>1 DEF Handle, control, history
      <3>2. files' = files \/ files' = TRUE
        BY <2>1 DEF Handle, Saved, Retry, GiveUp
      <3> QED BY <3>1, <3>2 DEF TypeOK
    <2>2. CASE DiskFull
      BY <2>2 DEF DiskFull, verdict, TypeOK
    <2> QED BY <2>1, <2>2
  <1>6. Len(heap') \in Nat /\ ptr <= Len(heap') /\ heap' \in Seq(Item)
    BY <1>2, <1>3 DEF TypeOK
  <1>7. TypeOK'
    BY <1>1, <1>4, <1>5, <1>6 DEF TypeOK
  <1>8. Place'
    BY <1>1, <1>2, <1>6 DEF Place, Parsing, Taking
  <1>9. Slots'
    <2>1. \A l : IsAhead(l) => IsAhead(l)'
      BY <1>1, <1>2, <1>3, AheadKept
    <2>2. \A l \in Link : slot[l] # Empty => IsAhead(l) \/ l = At
      BY <1>1 DEF Slots, Held, Taking, Ended
    <2> QED BY <1>4, <2>1, <2>2 DEF Slots
  <1>10. Empty.ans # "fatal"
    BY DEF Empty
  <1>11. Over' = Over
    BY <1>1 DEF Over
  <1>12. Causes' /\ Judged'
    BY <1>1, <1>4, <1>5, <1>10, <1>11, Running DEF Ended, Halted
  <1> QED BY <1>7, <1>8, <1>9, <1>12

-----------------------------------------------------------------------------
(* The end *)

\* The end of the loop reads what stopped the mirror, the caps included; with
\* nothing to read and nothing ahead every slot is free.
LEMMA AdvanceInv == ASSUME IInv, Advance PROVE IInv'
  <1> USE DEF IInv
  <1>1. /\ pc = "advance" /\ Flags(CheckFault(exitXh))
        /\ UNCHANGED <<opt, timers, slot, heap, seen, term, faulted, partial, verdict, torn,
                       unseen>>
    BY DEF Advance, Flags, timers
  <1>2. \/ /\ Over \/ exitXh' # 0 \/ ptr = Len(heap)
           /\ pc' = "verdict" /\ ptr' = ptr
        \/ /\ ~Over /\ exitXh' = 0 /\ ptr # Len(heap)
           /\ pc' = "pause" /\ after' = "add" /\ ptr' = ptr + 1
    BY DEF Advance
  <1>3. ptr \in 0 .. Len(heap) /\ Len(heap) \in Nat /\ ptr' \in Nat
    BY <1>1, <1>2 DEF Place, TypeOK
  <1>4. /\ stop' \in BOOLEAN /\ gaveUp' \in BOOLEAN
        /\ (stop => stop') /\ (Over => stop') /\ (Halted => Halted')
        /\ (exitXh # 0 => exitXh' # 0) /\ (gaveUp' => gaveUp \/ Halted') /\ Over' = Over
    BY <1>1, FlagsFacts
  <1>5. TypeOK'
    BY <1>1, <1>2, <1>3, <1>4 DEF TypeOK, timers, verdict, Taking
  <1>6. Place'
    BY <1>1, <1>2, <1>3 DEF Place, Parsing, Taking
  <1>7. CASE pc' = "pause"
    <2>1. /\ exitXh = 0 /\ ptr' = ptr + 1 /\ UNCHANGED <<heap, slot>>
      BY <1>1, <1>2, <1>4, <1>7
    <2>2. Slots'
      <3>1. \A l \in Link : slot[l] # Empty => IsAhead(l)
        BY <1>1, <2>1 DEF Slots, Held, Taking, Ended
      <3>2. \A l \in Link : IsAhead(l) => IsAhead(l)' \/ l = At'
        BY <1>3, <2>1 DEF IsAhead, At
      <3> QED BY <1>7, <2>1, <3>1, <3>2 DEF Slots, Held, Taking
    <2>3. Causes' /\ Judged'
      BY <1>1, <1>4, <1>7, Running DEF Ended
    <2> QED BY <1>5, <1>6, <2>2, <2>3
  <1>8. CASE pc' = "verdict"
    <2>1. Slots'
      BY <1>8 DEF Slots
    <2>2. Causes'
      <3>1. unseen' # {} => Halted'
        BY <1>1, <1>4 DEF Causes, Ended, Halted
      <3>2. (torn' # {} => stop') /\ (gaveUp' => Halted')
        BY <1>1, <1>4 DEF Causes, Ended
      <3>3. \A l \in Link : slot'[l].ans = "fatal" => stop' \/ faulted'
        BY <1>1, <1>4 DEF Causes
      <3> QED BY <3>1, <3>2, <3>3 DEF Causes
    <2>3. Halted' \/ (ptr' = Len(heap') /\ AllEmpty')
      <3>1. CASE Over \/ exitXh' # 0
        BY <1>4, <3>1 DEF Halted
      <3>2. CASE exitXh' = 0 /\ ptr = Len(heap) /\ ptr' = ptr
        <4>1. \A l \in Link : ~IsAhead(l)
          BY <1>3, <3>2 DEF IsAhead
        <4>2. AllEmpty
          BY <1>1, <1>4, <3>2, <4>1 DEF Slots, AllEmpty, Held, Taking, Ended
        <4> QED BY <1>1, <3>2, <4>2 DEF AllEmpty
      <3> QED BY <1>2, <1>8, <3>1, <3>2
    <2>4. Judged'
      BY <1>1, <1>8, <2>3 DEF Judged, Ended
    <2> QED BY <1>5, <1>6, <2>1, <2>2, <2>4
  <1> QED BY <1>2, <1>7, <1>8

LEMMA VerdictInv == ASSUME IInv, Verdict PROVE IInv'
  <1> USE DEF IInv
  <1>1. /\ pc = "verdict" /\ pc' = "teardown"
        /\ completed' = (files /\ ~Aborted(stop \/ faulted, CheckFault(exitXh)))
        /\ stop' = (stop \/ faulted) /\ gaveUp' = (gaveUp \/ faulted)
        /\ UNCHANGED <<opt, timers, slot, heap, ptr, seen, term, faulted, partial, files,
                       exitCode, ref, torn, unseen>>
    BY DEF Verdict, Goto
  <1>2. completed' => ~Halted
    BY <1>1 DEF Aborted, CheckFault, Halted
  <1>3. TypeOK'
    BY <1>1 DEF TypeOK, timers, Ended
  <1>4. Place' /\ Slots'
    BY <1>1 DEF Place, Slots, Parsing, Taking, Ended
  <1>5. Causes'
    BY <1>1 DEF Causes, Ended
  <1>6. completed' => /\ ~gaveUp' /\ unseen' = {} /\ torn' = {}
                      /\ ptr' = Len(heap') /\ AllEmpty'
    BY <1>1, <1>2 DEF Causes, Judged, Ended, Halted, AllEmpty
  <1>7. Judged'
    BY <1>1, <1>6 DEF Judged
  <1> QED BY <1>3, <1>4, <1>5, <1>7

LEMMA TeardownInv == ASSUME IInv, Teardown PROVE IInv'
  <1> USE DEF IInv
  <1>1. /\ pc = "teardown" /\ pc' = "exit"
        /\ torn' = torn \cup Written(slot, Link)
        /\ partial' = (partial \/ Written(slot, Link) # {})
        /\ slot' = [l \in Link |-> Empty]
        /\ UNCHANGED <<opt, control, timers, heap, ptr, seen, verdict, gaveUp, unseen>>
    BY DEF Teardown, Goto
  <1>2. AllEmpty' /\ slot' \in [Link -> Slot]
    BY <1>1, EmptySlot DEF AllEmpty
  <1>3. completed => Written(slot, Link) = {}
    BY <1>1 DEF Judged, Ended, AllEmpty, Written, Empty
  <1>4. TypeOK'
    <2>1. partial' \in BOOLEAN
      BY <1>1
    <2> QED BY <1>1, <1>2, <2>1 DEF TypeOK, timers, control, verdict, Ended
  <1>5. Place' /\ Slots'
    BY <1>1 DEF Place, Slots, Parsing, Taking, Ended
  <1>6. Causes'
    BY <1>1, <1>2 DEF Causes, Ended, AllEmpty, Empty
  <1>7. Judged'
    BY <1>1, <1>2, <1>3 DEF Judged, Ended, verdict
  <1> QED BY <1>4, <1>5, <1>6, <1>7

LEMMA ExitInv == ASSUME IInv, Exit PROVE IInv'
  <1> USE DEF IInv
  <1>1. /\ pc = "exit" /\ pc' = "closed"
        /\ exitCode' = IF exitXh = -1 \/ faulted THEN "aborted" ELSE "ok"
        /\ ref' = ~(exitXh = 0 /\ ~partial)
        /\ UNCHANGED <<opt, control, timers, slot, heap, ptr, seen, partial, files,
                       completed, history>>
    BY DEF Exit, Goto
  <1>2. TypeOK'
    BY <1>1 DEF TypeOK, control, timers, history, Ended
  <1>3. Place' /\ Slots'
    BY <1>1 DEF Place, Slots, Parsing, Taking, Ended
  <1>4. Causes'
    BY <1>1 DEF Causes, Ended, control
  <1>5. Judged'
    BY <1>1 DEF Judged, Ended, control, history, AllEmpty
  <1> QED BY <1>2, <1>3, <1>4, <1>5

LEMMA StepInv == IInv /\ [Next]_vars => IInv'
  <1> SUFFICES ASSUME IInv, [Next]_vars PROVE IInv'
    OBVIOUS
  <1>1. CASE Engine
    BY <1>1, ParseLinkInv, ParseMoveInv, WaitInv, AddDelayedInv, WaitTypeInv, TypeKnownInv,
       AddCurrentInv, WaitFileInv, FileReadyInv, HandleInv, AdvanceInv, VerdictInv,
       TeardownInv, ExitInv
    DEF Engine
  <1>2. CASE World
    BY <1>2, ParseLinkInv, HandleInv, ParsePumpInv, UserInv, ReceiveInv, WorkerInv DEF World
  <1>3. CASE Worker
    BY <1>3, WorkerInv DEF Worker
  <1>4. CASE Tick
    BY <1>4, TickInv
  <1>5. CASE Done \/ UNCHANGED vars
    <2>1. /\ UNCHANGED <<opt, place, torn, unseen, gaveUp, partial, verdict, slot, stop, faulted,
                         exitXh>>
          /\ UNCHANGED <<elapsed, recv>>
      BY <1>5 DEF Done, vars, place, verdict
    <2>2. Over' = Over
      BY <2>1 DEF Over
    <2> QED BY <2>1, <2>2, WorldStep DEF IInv, TypeOK
  <1> QED BY <1>1, <1>2, <1>3, <1>4, <1>5 DEF Next

\* What the run leaves behind tells what happened to it (the verdict of
\* httpmirror(), the exit status and the resume data of hts_main()), for any
\* page, any options and any order of stops, caps, faults and timeouts.
THEOREM RunTold == Spec => []EndTold
  <1>1. IInv => EndTold
    BY DEF IInv, Judged, Ended, EndTold, CompleteMeansAll, FaultTold, TornKeepsRef
  <1> QED BY <1>1, InitInv, StepInv, PTL DEF Spec

-----------------------------------------------------------------------------
(* The Retry-After gate *)

\* The steps between the wait for a free socket and the end of a link.
Launching == pc \in {"add", "wait", "handle"} \/ (pc = "pause" /\ after = "wait")

\* The gate holds what is owed, and no step behind a wait finds it shut unless
\* the mirror is ending.
Gate ==
    /\ gate \in Nat /\ owed \in Nat /\ owed <= gate
    /\ pc = "delayed" => gate = 0 \/ stop
    /\ Launching => gate = 0 \/ stop \/ exitXh # 0

LEMMA InitGate == Init => Gate
  BY DEF Init, Gate, Launching

\* What the counters of sockets say of the gate.
LEMMA PluggableFacts ==
    ASSUME Gate, NEW sl
    PROVE  ~(Pluggable(sl) <= 0) => gate = 0 \/ stop
  <1>1. Room(sl) \in Int
    <2>1. IsFiniteSet(Link) /\ {l \in Link : Busy(sl[l])} \subseteq Link
      BY ConstantsAssumption, FS_Interval DEF Link
    <2>2. Cardinality({l \in Link : Busy(sl[l])}) \in Nat
      BY <2>1, FS_Subset, FS_CardinalityType
    <2> QED BY <2>2, ConstantsAssumption DEF Room
  <1> QED BY <1>1 DEF Pluggable, Gate

LEMMA FillsGated ==
    ASSUME TypeOK, Gate, NEW sl \in [Link -> Slot], NEW f \in Fills(sl), f # sl
    PROVE  gate = 0 \/ stop
  BY PluggableFacts DEF Fills

\* Every step but a retry and a tick leaves the gate alone, and none takes a
\* stop or an exit back.
LEMMA GateKept ==
    ASSUME Gate, UNCHANGED <<gate, owed>>, stop => stop', exitXh # 0 => exitXh' # 0,
           pc' = "delayed" => pc = "delayed" \/ gate = 0 \/ stop',
           Launching' => Launching \/ gate = 0 \/ stop' \/ exitXh' # 0
    PROVE  Gate'
  BY DEF Gate

LEMMA PumpGate ==
    ASSUME IInv, Gate, WaitSocket \/ Pause PROVE Gate'
  <1>1. TypeOK
    BY DEF IInv
  <1>2. pc = "pause" => after \in {"add", "wait"}
    BY DEF IInv, Place
  <1>3. CASE Pump
    <2>1. Flags(CheckFault(exitXh)) /\ UNCHANGED <<gate, owed>>
      BY <1>3 DEF Pump, Flags
    <2>2. (stop => stop') /\ (Over => stop') /\ (exitXh # 0 => exitXh' # 0)
      BY <1>1, <2>1, FlagsFacts
    <2>3. CASE WaitSocket /\ ~(Pluggable(slot) > 0)
      <3>1. pc' \in {"delayed", "sockets"} /\ (pc' = "delayed" => Over)
        BY <2>3 DEF WaitSocket, Goto
      <3>2. ~Launching'
        BY <3>1 DEF Launching
      <3> QED BY <2>1, <2>2, <3>1, <3>2, GateKept
    <2>4. CASE Pause /\ ~(Pluggable(slot) > 0)
      <3>1. /\ pc = "pause" /\ after' = after
            /\ pc' = IF Over \/ exitXh' # 0 THEN after ELSE "pause"
        BY <2>4 DEF Pause
      <3>2. pc' # "delayed"
        BY <1>2, <3>1
      <3>3. Launching' => Launching \/ stop' \/ exitXh' # 0
        BY <2>2, <3>1 DEF Launching
      <3> QED BY <2>1, <2>2, <3>2, <3>3, GateKept
    <2>5. CASE Pluggable(slot) > 0
      <3>1. gate = 0 \/ stop
        BY <2>5 DEF Gate, Pluggable
      <3> QED BY <2>1, <2>2, <3>1, GateKept
    <2> QED BY <2>3, <2>4, <2>5
  <1>4. CASE ~Pump
    <2>1. Pluggable(slot) > 0 /\ UNCHANGED <<control, timers>>
      BY <1>4 DEF WaitSocket, Pause
    <2>2. gate = 0 \/ stop
      BY <2>1 DEF Gate, Pluggable
    <2> QED BY <2>1, <2>2, GateKept DEF control, timers
  <1> QED BY <1>3, <1>4

LEMMA HandleGate == ASSUME IInv, Gate, Handle PROVE Gate'
  <1>1. /\ pc = "handle" /\ pc' = "advance" /\ UNCHANGED control
    BY DEF Handle, Saved, Retry, GiveUp, Goto
  <1>2. gate' \in Nat /\ owed' \in Nat /\ owed' <= gate'
    <2>1. CASE Retry
      <3>1. PICK d \in Delays \cup {-1} :
              /\ gate' = IF d >= 0 THEN Later(gate, d) ELSE gate
              /\ owed' = IF d >= 0 THEN Max({owed, Min({d, MaxDelay})}) ELSE owed
        BY <2>1 DEF Retry
      <3>2. d \in Int /\ MaxDelay \in Int /\ owed \in Int /\ gate \in Int
        <4>1. d \in Int
          BY ConstantsAssumption
        <4> QED BY <4>1, ConstantsAssumption DEF Gate
      <3> DEFINE m == IF d <= MaxDelay THEN d ELSE MaxDelay
      <3>3. Min({d, MaxDelay}) = m
        BY <3>2, MinMax
      <3>4. m \in Int
        BY <3>2
      <3>5. Max({owed, m}) = IF owed >= m THEN owed ELSE m
        BY <3>2, <3>4, MinMax
      <3>6. Later(gate, d) = IF m > gate THEN m ELSE gate
        BY <3>2 DEF Later
      <3> QED BY <3>1, <3>2, <3>3, <3>5, <3>6, ConstantsAssumption DEF Gate
    <2>2. CASE Saved \/ GiveUp
      BY <2>2 DEF Saved, GiveUp, Gate
    <2> QED BY <2>1, <2>2 DEF Handle
  <1> QED BY <1>1, <1>2 DEF Gate, Launching

LEMMA TickGate == ASSUME Gate, Tick PROVE Gate'
  <1>1. /\ gate' = Sooner(gate) /\ owed' = Sooner(owed) /\ UNCHANGED <<control, pc, after>>
    BY DEF Tick, place
  <1>2. gate' \in Nat /\ owed' \in Nat /\ owed' <= gate' /\ (gate = 0 => gate' = 0)
    BY <1>1 DEF Gate, Sooner
  <1> QED BY <1>1, <1>2 DEF Gate, Launching, control

LEMMA GateStep == ASSUME IInv, Gate, [Next]_vars PROVE Gate'
  <1>1. TypeOK
    BY DEF IInv
  <1>2. CASE ParseTyped \/ LinkCap \/ ParseUntyped \/ ParseEnd \/ AddDelayed \/ TypeKnown
             \/ Teardown \/ Exit \/ DiskFull
    <2>1. /\ UNCHANGED <<stop, gate, owed>> /\ (exitXh # 0 => exitXh' # 0)
          /\ pc' \notin {"delayed", "add", "wait", "handle", "pause"}
      BY <1>2 DEF ParseTyped, LinkCap, ParseUntyped, ParseEnd, AddDelayed, TypeKnown, Teardown,
         Exit, DiskFull, control, timers, Goto
    <2> QED BY <2>1, GateKept DEF Launching
  <1>3. CASE WaitSocket \/ Pause
    BY <1>3, PumpGate
  <1>4. CASE ParsePump \/ WaitType \/ WaitFile \/ FileReady \/ Advance
    <2>1. PICK x : Flags(x)
      BY <1>4 DEF ParsePump, WaitType, WaitFile, FileReady, Advance, Flags, timers
    <2>2. (stop => stop') /\ (exitXh # 0 => exitXh' # 0)
      BY <1>1, <2>1, FlagsFacts
    <2>3. UNCHANGED <<gate, owed>>
      BY <1>4 DEF ParsePump, WaitType, WaitFile, FileReady, Advance, timers
    <2>4. pc' # "delayed" /\ (Launching' => Launching)
      BY <1>4 DEF ParsePump, WaitType, WaitFile, FileReady, Advance, Launching, Goto, place
    <2> QED BY <2>2, <2>3, <2>4, GateKept
  <1>5. CASE AddCurrent
    <2>1. pc = "add" /\ pc' = "pause" /\ UNCHANGED <<control, timers>>
      BY <1>5 DEF AddCurrent
    <2>2. Launching
      BY <2>1 DEF Launching
    <2> QED BY <2>1, <2>2, GateKept DEF control, timers
  <1>6. CASE Handle
    BY <1>6, HandleGate
  <1>7. CASE Verdict
    <2>1. UNCHANGED timers /\ (stop => stop') /\ pc' = "teardown"
      BY <1>7 DEF Verdict, Goto
    <2>2. exitXh # 0 => exitXh' # 0
      BY <1>7 DEF Verdict, CheckFault
    <2> QED BY <2>1, <2>2, GateKept DEF timers, Launching
  <1>8. CASE \/ CtrlC \/ Sigterm
             \/ \E l \in Link : Receive(l) \/ FtpEnd(l) \/ FtpFaults(l) \/ FtpGivesUp(l)
             \/ Done \/ UNCHANGED vars
    <2>1. UNCHANGED <<gate, owed, pc, after>>
      BY <1>8 DEF CtrlC, Sigterm, Receive, FtpEnd, FtpFaults, FtpGivesUp, Done, vars, timers,
         place
    <2>2. stop' = stop \/ stop' = TRUE
      BY <1>8 DEF CtrlC, Sigterm, Receive, FtpEnd, FtpFaults, FtpGivesUp, Done, vars, control
    <2>3. exitXh' = exitXh \/ exitXh' = 1
      BY <1>8 DEF CtrlC, Sigterm, Receive, FtpEnd, FtpFaults, FtpGivesUp, Done, vars, control
    <2> QED BY <2>1, <2>2, <2>3, GateKept DEF Launching
  <1>9. CASE Tick
    BY <1>9, TickGate
  <1> QED BY <1>2, <1>3, <1>4, <1>5, <1>6, <1>7, <1>8, <1>9 DEF Next, Engine, World, Worker

\* Who starts a request: the prefetch, the wait for a type and the link at hand.
LEMMA LaunchStep ==
    ASSUME IInv, Gate, [Next]_vars, NEW l \in Link, slot[l] = Empty,
           slot'[l].stage \in {"connect", "ftp"}
    PROVE  gate = 0 \/ stop \/ exitXh # 0
  <1>1. TypeOK
    BY DEF IInv
  <1>2. slot'[l] # Empty /\ slot \in [Link -> Slot]
    BY <1>1 DEF Empty, TypeOK
  <1>3. Pumped \in [Link -> Slot] /\ Pumped[l] = Empty
    BY <1>1, PumpedFacts
  <1>4. CASE AddDelayed \/ AddCurrent
    <2>1. pc \in {"delayed", "add"}
      BY <1>4 DEF AddDelayed, AddCurrent
    <2> QED BY <2>1 DEF Gate, Launching
  <1>5. CASE ParsePump \/ WaitFile
    BY <1>2, <1>3, <1>5, <1>1, FillsGated DEF ParsePump, WaitFile
  <1>6. CASE WaitType
    <2>1. PICK sl \in Fills(Pumped) :
            slot' = sl \/ slot' = [sl EXCEPT ![NextLink] = Empty]
      BY <1>6 DEF WaitType
    <2>2. sl \in [Link -> Slot]
      BY <1>1, <1>3, FillsFacts
    <2>3. sl[l] # Empty
      BY <1>2, <2>1, <2>2
    <2> QED BY <1>1, <1>3, <2>3, FillsGated
  <1>7. ~(WaitSocket \/ Pause)
    BY <1>2, <1>3 DEF WaitSocket, Pause, Pump
  <1>8. ~(Handle \/ DiskFull \/ TypeKnown \/ Teardown)
    BY <1>2 DEF Handle, DiskFull, TypeKnown, Teardown
  <1>9. ~\E k \in Link : Receive(k) \/ FtpEnd(k) \/ FtpFaults(k) \/ FtpGivesUp(k)
    <2> SUFFICES ASSUME NEW k \in Link,
                        Receive(k) \/ FtpEnd(k) \/ FtpFaults(k) \/ FtpGivesUp(k)
                 PROVE  FALSE
      OBVIOUS
    <2>1. k # l
      BY DEF Receive, FtpEnd, FtpFaults, FtpGivesUp, Live, Empty
    <2>2. \A ans \in {"ok", "busy", "bad"} : Abort(slot, {k}, ans)[l] = slot[l]
      BY <1>2, <2>1, AbortFacts
    <2>3. slot'[l] = slot[l]
      BY <1>2, <2>1, <2>2 DEF Receive, FtpEnd, FtpFaults, FtpGivesUp
    <2> QED BY <1>2, <2>3
  <1>10. ~Tick
    <2>1. ~Busy(Empty)
      BY DEF Busy, Live, Empty
    <2> QED BY <1>2, <2>1 DEF Tick
  <1>11. ~(\/ ParseTyped \/ LinkCap \/ ParseUntyped \/ ParseEnd \/ FileReady \/ Advance
           \/ Verdict \/ Exit \/ CtrlC \/ Sigterm \/ Done \/ UNCHANGED vars)
    BY <1>2 DEF ParseTyped, LinkCap, ParseUntyped, ParseEnd, FileReady, Advance, Verdict,
       Exit, CtrlC, Sigterm, Done, vars
  <1> QED
    BY <1>4, <1>5, <1>6, <1>7, <1>8, <1>9, <1>10, <1>11 DEF Next, Engine, World, Worker

\* No launch slips under the gate, whoever makes it (back_fill(), the wait for
\* a type, the link at hand), and no link is handled while a delay runs, for
\* any delays asked, any cap on them and any number of sockets.
THEOREM DelaysHonouredHolds == Spec => DelaysHonoured
  <1>1. Init => IInv /\ Gate
    BY InitInv, InitGate
  <1>2. IInv /\ Gate /\ [Next]_vars => (IInv /\ Gate)'
    BY StepInv, GateStep
  <1> DEFINE Honours ==
        /\ \A l \in Link : slot[l] = Empty /\ slot'[l].stage \in {"connect", "ftp"}
              => owed = 0 \/ stop \/ exitXh # 0
        /\ pc' = "handle" => owed = 0 \/ stop \/ exitXh # 0
  <1>3. IInv /\ Gate /\ [Next]_vars => [Honours]_vars
    <2> SUFFICES ASSUME IInv, Gate, [Next]_vars PROVE Honours
      OBVIOUS
    <2>1. gate = 0 => owed = 0
      BY DEF Gate
    <2>2. \A l \in Link : slot[l] = Empty /\ slot'[l].stage \in {"connect", "ftp"}
              => owed = 0 \/ stop \/ exitXh # 0
      BY <2>1, LaunchStep
    <2>3. pc' = "handle" => owed = 0 \/ stop \/ exitXh # 0
      <3> SUFFICES ASSUME pc' = "handle" PROVE owed = 0 \/ stop \/ exitXh # 0
        OBVIOUS
      <3>1. pc \in {"wait", "handle", "pause"}
        BY DEF Next, Engine, World, Worker, ParseTyped, LinkCap, ParseUntyped, ParseEnd,
           ParsePump, WaitSocket, AddDelayed, WaitType, TypeKnown, Pause, AddCurrent,
           WaitFile, FileReady, Handle, DiskFull, Advance, Verdict, Teardown, Exit, CtrlC,
           Sigterm, Receive, FtpEnd, FtpFaults, FtpGivesUp, Tick, Done, vars, place, Goto
      <3>2. pc # "pause"
        <4>1. pc = "pause" => after \in {"add", "wait"}
          BY DEF IInv, Place
        <4>2. pc = "pause" => pc' \in {"pause", after}
          BY DEF Next, Engine, World, Worker, ParseTyped, LinkCap, ParseUntyped, ParseEnd,
             ParsePump, WaitSocket, AddDelayed, WaitType, TypeKnown, Pause, AddCurrent,
             WaitFile, FileReady, Handle, DiskFull, Advance, Verdict, Teardown, Exit, CtrlC,
             Sigterm, Receive, FtpEnd, FtpFaults, FtpGivesUp, Tick, Done, vars, place, Goto
        <4> QED BY <4>1, <4>2
      <3>3. Launching
        BY <3>1, <3>2 DEF Launching
      <3> QED BY <2>1, <3>3 DEF Gate
    <2> QED BY <2>2, <2>3
  <1>4. Spec => [](IInv /\ Gate)
    BY <1>1, <1>2, PTL DEF Spec
  <1>5. Spec => [][Honours]_vars
    BY <1>3, <1>4, PTL DEF Spec
  <1>6. DelaysHonoured <=> [][Honours]_vars
    BY PTL DEF DelaysHonoured
  <1> QED BY <1>5, <1>6, PTL

-----------------------------------------------------------------------------
(* The grace *)

\* Within the grace a pump drops what is still connecting, and no body.
LEMMA GraceSpares == ASSUME Capped, ~Over PROVE PumpTears = {}
  BY DEF PumpTears, Written, StopDrops, Preconnect

\* Who cuts a body: a pump, and the end of the mirror.
LEMMA WhoTears ==
    ASSUME [Next]_vars
    PROVE  torn' = torn \/ torn' = torn \cup PumpTears \/ pc = "teardown"
  <1>1. CASE Engine
    <2>1. CASE WaitSocket \/ Pause \/ WaitType \/ WaitFile \/ Teardown
      BY <2>1 DEF WaitSocket, Pause, Pump, WaitType, WaitFile, Teardown, history
    <2>2. CASE \/ ParseTyped \/ ParseUntyped \/ ParseEnd \/ AddDelayed \/ TypeKnown
               \/ AddCurrent \/ FileReady \/ Handle \/ Advance \/ Verdict \/ Exit
      BY <2>2 DEF ParseTyped, ParseUntyped, ParseEnd, AddDelayed, TypeKnown, AddCurrent,
         FileReady, Handle, Advance, Verdict, Exit, history
    <2> QED BY <1>1, <2>1, <2>2 DEF Engine
  <1>2. CASE World \/ Worker
    BY <1>2 DEF World, Worker, LinkCap, DiskFull, ParsePump, CtrlC, Sigterm, Receive, FtpEnd,
       FtpFaults, FtpGivesUp, history
  <1>3. CASE Tick \/ Done \/ UNCHANGED vars
    BY <1>3 DEF Tick, Done, vars, history
  <1> QED BY <1>1, <1>2, <1>3 DEF Next

\* back_abort_stopped() spares what had begun while the grace of a cap runs,
\* though the cap and the user both raised the stop, for any caps and graces.
THEOREM GraceHonouredHolds == Spec => GraceHonoured
  <1> DEFINE Spares == Capped /\ ~Over /\ pc # "teardown" => torn' = torn
  <1>1. [Next]_vars => Spares
    <2> SUFFICES ASSUME [Next]_vars, Capped, ~Over, pc # "teardown" PROVE torn' = torn
      OBVIOUS
    <2> QED BY GraceSpares, WhoTears
  <1>2. Spec => [][Spares]_vars
    BY <1>1, PTL DEF Spec
  <1>3. GraceHonoured <=> [][Spares]_vars
    BY PTL DEF GraceHonoured
  <1> QED BY <1>2, <1>3, PTL

=============================================================================
