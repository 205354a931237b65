------------------------- MODULE ConnectionProofs -------------------------
(***************************************************************************)
(* The connection of a slot: how it is set up (ConnectionSetup), and the   *)
(* body that comes over it (CodedBody).  That a resolve's job is counted   *)
(* for those who use it, that the cache takes only answers, and that a     *)
(* link fails for its connection only when every address was dialed, for   *)
(* any addresses, jobs, timeouts and bounds; that no body its framing or   *)
(* its coding shows to be damaged is taken for a page, and that the copy   *)
(* an update came for survives every failure, for bodies of any number of  *)
(* chunks of any sizes.                                                    *)
(***************************************************************************)
EXTENDS ConnectionSetup, CodedBody, FiniteSetTheorems, WellFoundedInduction, TLAPS

Heard == Answers \cup {None}

\* The types the arguments below need.
DnsType ==
    /\ timeout \in Nat
    /\ cache \in Answers \cup {Empty, Expired}
    /\ refs \in [Job -> Int] /\ done \in [Job -> BOOLEAN]
    /\ answer \in [Job -> Heard] /\ told \in [Job -> Heard]
    /\ thread \in [Job -> {"none", "body", "tail", "leave"}]
    /\ rpc \in [Caller -> {"idle", "look", "wait", "store", "back"}]
    /\ job \in [Caller -> Job \cup {0}]
    /\ result \in [Caller -> Heard] /\ heard \in [Caller -> Heard]
    /\ \A c \in Caller : rpc[c] = "wait" => job[c] \in Job

\* What a job holds is what its resolver told it, or nothing; so is what a
\* caller is about to store.
Told == /\ \A j \in Job : answer[j] \in {None, told[j]}
        /\ \A c \in Caller : rpc[c] = "store" => result[c] \in {None, heard[c]}

DnsInv == DnsType /\ JobCounted /\ Told

SlotType ==
    /\ status \in {"free", "dns", "connecting", "handshake", "headers", "ready"}
    /\ addrIndex \in Nat /\ addrCount \in Int /\ elapsed \in Nat
    /\ purpose \in {"none", "open", "probe", "next"}

\* What the crawl thread resolves for says where its slot is.
Errand == /\ Idle <=> purpose = "none"
          /\ purpose = "open" => status = "dns"
          /\ purpose \in {"probe", "next"} => status = "connecting"

\* The addresses up to the one in turn were dialed.
Dialed == /\ status = "dns" => addrIndex = 0
          /\ Live => 0 .. addrIndex \subseteq dialed

SlotInv == SlotType /\ Errand /\ Dialed /\ EveryAddressTried

IInv == DnsInv /\ SlotInv

-----------------------------------------------------------------------------
(* The resolver *)

LEMMA Constants ==
    /\ Caller = {"crawl", "ftp"} /\ IsFiniteSet(Caller)
    /\ Job \subseteq Nat \ {0} /\ Answers \subseteq Int
    /\ None \notin Answers /\ Empty \notin Answers /\ Expired \notin Answers
    /\ None \in Heard /\ Answers \subseteq Heard
    /\ \A a \in Answers : Count(a) \in Nat
  <1>1. IsFiniteSet({"crawl"} \cup {"ftp"})
    BY FS_Singleton, FS_Union
  <1> QED
    BY <1>1, SetupAssumption, ResolverAssumption
    DEF Job, Answers, None, Empty, Expired, Heard, Permanent, Transient, Count

\* A caller that comes or goes is one more or one less.
LEMMA WaitingFacts ==
    ASSUME NEW S \in SUBSET Caller
    PROVE  /\ IsFiniteSet(S) /\ Cardinality(S) \in Nat /\ Cardinality({}) = 0
           /\ \A c \in Caller : Cardinality({c}) = 1
           /\ \A c \in S : Cardinality(S \ {c}) = Cardinality(S) - 1
           /\ S # {} => Cardinality(S) > 0
  <1>1. IsFiniteSet(S) /\ Cardinality(S) \in Nat
    BY Constants, FS_Subset, FS_CardinalityType
  <1>2. Cardinality({}) = 0 /\ \A c \in Caller : Cardinality({c}) = 1
    BY FS_EmptySet, FS_Singleton
  <1>3. \A c \in S : Cardinality(S \ {c}) = Cardinality(S) - 1
    BY <1>1, FS_RemoveElement
  <1>4. S # {} => Cardinality(S) > 0
    BY <1>1, FS_EmptySet
  <1> QED BY <1>1, <1>2, <1>3, <1>4

LEMMA InitDnsInv == Init => DnsInv
  <1> SUFFICES ASSUME Init PROVE DnsInv
    OBVIOUS
  <1> USE DEF Init, InitDns
  <1>1. DnsType
    <2>1. timeout \in Nat
      BY SetupAssumption
    <2>2. \A c \in Caller : rpc[c] # "wait"
      OBVIOUS
    <2>3. refs \in [Job -> Int]
      <3>1. refs = [j \in Job |-> 0]
        OBVIOUS
      <3> HIDE DEF Init, InitDns
      <3> QED BY <3>1
    <2>8. cache \in Answers \cup {Empty, Expired}
      OBVIOUS
    <2>6. done \in [Job -> BOOLEAN]
      OBVIOUS
    <2>7. /\ thread \in [Job -> {"none", "body", "tail", "leave"}]
          /\ rpc \in [Caller -> {"idle", "look", "wait", "store", "back"}]
          /\ job \in [Caller -> Job \cup {0}]
      OBVIOUS
    <2>4. None \in Heard
      BY DEF Heard
    <2>5. /\ answer \in [Job -> Heard] /\ told \in [Job -> Heard]
          /\ result \in [Caller -> Heard] /\ heard \in [Caller -> Heard]
      BY <2>4
    <2> HIDE DEF Init, InitDns
    <2> QED BY <2>1, <2>2, <2>3, <2>5, <2>6, <2>7, <2>8 DEF DnsType
  <1>2. \A j \in Job : Waiting(j) = {} /\ ~Running(j)
    BY DEF Waiting, Running
  <1>3. JobCounted
    <2>1. \A j \in Job : refs[j] = 0
      OBVIOUS
    <2>2. Cardinality({}) = 0
      BY FS_EmptySet
    <2> HIDE DEF Init, InitDns
    <2>3. \A j \in Job : refs[j] = Cardinality(Waiting(j)) + IF Running(j) THEN 1 ELSE 0
      BY <1>2, <2>1, <2>2
    <2> QED BY <2>3 DEF JobCounted
  <1>4. Told
    BY DEF Told
  <1> QED BY <1>1, <1>3, <1>4 DEF DnsInv

\* A step that moves no job and no caller into or out of its wait.
LEMMA SameCount ==
    ASSUME DnsType, JobCounted, UNCHANGED refs,
           \A j \in Job : Running(j)' <=> Running(j),
           \A c \in Caller : (rpc[c] = "wait" <=> rpc'[c] = "wait") /\ job'[c] = job[c]
    PROVE  JobCounted'
  <1>1. \A j \in Job : Waiting(j)' = Waiting(j)
    BY DEF Waiting
  <1> QED BY <1>1 DEF JobCounted

LEMMA HitInv == ASSUME DnsInv, NEW c \in Caller, Hit(c) PROVE DnsInv'
  <1> USE DEF DnsInv, Hit, jobVars
  <1>1. DnsType'
    BY Constants DEF DnsType
  <1>2. JobCounted'
    <2>1. \A j \in Job : Running(j)' <=> Running(j)
      BY DEF Running
    <2> QED BY <2>1, SameCount DEF DnsType
  <1>3. Told'
    BY DEF Told, DnsType
  <1> QED BY <1>1, <1>2, <1>3

LEMMA AskInv == ASSUME DnsInv, NEW c \in Caller, Ask(c) PROVE DnsInv'
  <1> USE DEF DnsInv
  <1>1. PICK j \in Job :
           /\ rpc[c] = "look" /\ refs[j] = 0 /\ thread[j] = "none"
           /\ refs' = [refs EXCEPT ![j] = 2]
           /\ thread' = [thread EXCEPT ![j] = "body"]
           /\ job' = [job EXCEPT ![c] = j]
           /\ rpc' = [rpc EXCEPT ![c] = "wait"]
           /\ UNCHANGED <<timeout, stop, cache, done, answer, told, result, heard>>
    BY DEF Ask, MakeJob, Miss
  <1>2. DnsType'
    BY <1>1 DEF DnsType
  <1>3. JobCounted'
    <2> SUFFICES ASSUME NEW k \in Job
                 PROVE refs'[k] = Cardinality(Waiting(k)') + IF Running(k)' THEN 1 ELSE 0
      BY DEF JobCounted
    <2>1. CASE k = j
      <3>1. ~Running(k) /\ Running(k)' /\ refs'[k] = 2
        BY <1>1, <2>1 DEF Running, DnsType
      <3>2. Waiting(k) = {}
        <4>1. Cardinality(Waiting(k)) = 0
          BY <1>1, <2>1, <3>1, WaitingFacts DEF JobCounted, Waiting
        <4> QED BY <4>1, WaitingFacts DEF Waiting
      <3>3. Waiting(k)' = {c}
        BY <1>1, <2>1, <3>2 DEF Waiting, DnsType
      <3> QED BY <3>1, <3>3, WaitingFacts
    <2>2. CASE k # j
      <3>1. refs'[k] = refs[k] /\ (Running(k)' <=> Running(k))
        BY <1>1, <2>2 DEF Running, DnsType
      <3>2. Waiting(k)' = Waiting(k)
        BY <1>1, <2>2 DEF Waiting, DnsType
      <3> QED BY <3>1, <3>2 DEF JobCounted
    <2> QED BY <2>1, <2>2
  <1>4. Told'
    BY <1>1 DEF Told, DnsType
  <1> QED BY <1>2, <1>3, <1>4

LEMMA AskInlineInv == ASSUME DnsInv, NEW c \in Caller, AskInline(c) PROVE DnsInv'
  <1> USE DEF DnsInv, AskInline, Miss, jobVars
  <1>1. DnsType'
    BY Constants DEF DnsType
  <1>2. JobCounted'
    <2>1. \A j \in Job : Running(j)' <=> Running(j)
      BY DEF Running
    <2> QED BY <2>1, SameCount DEF DnsType
  <1>3. Told'
    BY DEF Told, DnsType
  <1> QED BY <1>1, <1>2, <1>3

\* A caller leaves the job it waits for, with nothing or with what it holds.
LEMMA LeaveJobInv ==
    ASSUME DnsInv, NEW c \in Caller, rpc[c] = "wait",
           NEW r \in {None, answer[job[c]]}, LeaveJob(c, r)
    PROVE  DnsInv'
  <1> USE DEF DnsInv
  <1> DEFINE j == job[c]
  <1>0. j \in Job /\ r \in Heard
    <2>1. job[c] \in Job
      BY DEF DnsType
    <2>2. answer[job[c]] \in Heard
      BY <2>1 DEF DnsType
    <2> QED BY <2>1, <2>2, Constants
  <1>1. /\ refs' = [refs EXCEPT ![j] = @ - 1]
        /\ rpc' = [rpc EXCEPT ![c] = "store"] /\ job' = [job EXCEPT ![c] = 0]
        /\ result' = [result EXCEPT ![c] = r] /\ heard' = [heard EXCEPT ![c] = told[j]]
        /\ UNCHANGED <<timeout, stop, cache, thread>>
        /\ \/ /\ done' = [done EXCEPT ![j] = FALSE]
              /\ answer' = [answer EXCEPT ![j] = None] /\ told' = [told EXCEPT ![j] = None]
           \/ UNCHANGED <<done, answer, told>>
    BY DEF LeaveJob, Free
  <1> HIDE DEF j
  <1>2. DnsType'
    <2>1. None \in Heard /\ told[j] \in Heard
      BY <1>0, Constants DEF DnsType
    <2>2. refs' \in [Job -> Int]
      BY <1>0, <1>1 DEF DnsType
    <2>3. done' \in [Job -> BOOLEAN] /\ answer' \in [Job -> Heard] /\ told' \in [Job -> Heard]
      <3> HIDE DEF DnsInv
      <3>0. /\ done \in [Job -> BOOLEAN] /\ answer \in [Job -> Heard] /\ told \in [Job -> Heard]
            /\ FALSE \in BOOLEAN
        BY DEF DnsInv, DnsType
      <3>1. done' \in [Job -> BOOLEAN]
        BY <1>1, <3>0
      <3>2. answer' \in [Job -> Heard]
        BY <1>1, <2>1, <3>0
      <3>3. told' \in [Job -> Heard]
        BY <1>1, <2>1, <3>0
      <3> QED BY <3>1, <3>2, <3>3
    <2>4. /\ rpc' \in [Caller -> {"idle", "look", "wait", "store", "back"}]
          /\ job' \in [Caller -> Job \cup {0}]
          /\ \A d \in Caller : rpc'[d] = "wait" => job'[d] \in Job
      <3>1. /\ rpc \in [Caller -> {"idle", "look", "wait", "store", "back"}]
            /\ job \in [Caller -> Job \cup {0}]
            /\ \A d \in Caller : rpc[d] = "wait" => job[d] \in Job
        BY DEF DnsType
      <3>2. rpc' = [rpc EXCEPT ![c] = "store"] /\ job' = [job EXCEPT ![c] = 0]
        BY <1>1
      <3> HIDE DEF DnsInv
      <3>3. rpc' \in [Caller -> {"idle", "look", "wait", "store", "back"}]
        BY <3>1, <3>2
      <3>4. job' \in [Caller -> Job \cup {0}]
        BY <3>1, <3>2
      <3>5. ASSUME NEW d \in Caller, rpc'[d] = "wait" PROVE job'[d] \in Job
        <4>1. d # c
          BY <3>1, <3>2, <3>5
        <4>2. rpc'[d] = rpc[d] /\ job'[d] = job[d]
          BY <3>1, <3>2, <4>1
        <4> QED BY <3>1, <3>5, <4>2
      <3> QED BY <3>3, <3>4, <3>5
    <2>5. result' \in [Caller -> Heard] /\ heard' \in [Caller -> Heard]
      BY <1>0, <1>1, <2>1 DEF DnsType
    <2> QED BY <1>1, <2>2, <2>3, <2>4, <2>5 DEF DnsType
  <1>3. JobCounted'
    <2> SUFFICES ASSUME NEW k \in Job
                 PROVE refs'[k] = Cardinality(Waiting(k)') + IF Running(k)' THEN 1 ELSE 0
      BY DEF JobCounted
    <2>0. Running(k)' <=> Running(k)
      BY <1>1 DEF Running
    <2>1. CASE k = j
      <3>1. c \in Waiting(k) /\ Waiting(k)' = Waiting(k) \ {c}
        BY <1>0, <1>1, <2>1 DEF Waiting, DnsType, j
      <3>2. refs'[k] = refs[k] - 1
        BY <1>0, <1>1, <2>1 DEF DnsType
      <3>3. Waiting(k) \in SUBSET Caller
        BY DEF Waiting
      <3> QED BY <2>0, <3>1, <3>2, <3>3, WaitingFacts DEF JobCounted
    <2>2. CASE k # j
      <3>1. Waiting(k)' = Waiting(k) /\ refs'[k] = refs[k]
        BY <1>0, <1>1, <2>2, Constants DEF Waiting, DnsType, j
      <3> QED BY <2>0, <3>1 DEF JobCounted
    <2> QED BY <2>1, <2>2
  <1>4. Told'
    <2>1. r \in {None, told[j]}
      BY <1>0 DEF Told, j
    <2> QED BY <1>0, <1>1, <2>1 DEF Told, DnsType
  <1> QED BY <1>2, <1>3, <1>4

LEMMA AnsweredInv == ASSUME DnsInv, NEW c \in Caller, Answered(c) PROVE DnsInv'
  BY LeaveJobInv DEF Answered

LEMMA AbandonInv == ASSUME DnsInv, NEW c \in Caller, Abandon(c) PROVE DnsInv'
  BY LeaveJobInv DEF Abandon

LEMMA StoreInv == ASSUME DnsInv, NEW c \in Caller, Store(c) PROVE DnsInv'
  <1> USE DEF DnsInv, Store, jobVars
  <1>1. DnsType'
    BY Constants DEF DnsType, Heard
  <1>2. JobCounted'
    <2>1. \A j \in Job : Running(j)' <=> Running(j)
      BY DEF Running
    <2> QED BY <2>1, SameCount DEF DnsType
  <1>3. Told'
    BY DEF Told, DnsType
  <1> QED BY <1>1, <1>2, <1>3

\* A thread runs its body or its tail.
LEMMA BodyInv ==
    ASSUME DnsInv, NEW j \in Job, Resolved(j) \/ Crashed(j) \/ Tailed(j) PROVE DnsInv'
  <1> USE DEF DnsInv, Resolved, Crashed, Tailed
  <1>1. DnsType'
    <2>1. CASE Resolved(j)
      BY <2>1, Constants DEF DnsType
    <2>2. CASE Crashed(j)
      BY <2>2 DEF DnsType
    <2>3. CASE Tailed(j)
      BY <2>3, Constants DEF DnsType
    <2> QED BY <2>1, <2>2, <2>3
  <1>2. JobCounted'
    <2>1. \A k \in Job : Running(k)' <=> Running(k)
      BY DEF Running, DnsType
    <2> QED BY <2>1, SameCount
  <1>3. Told'
    BY DEF Told, DnsType
  <1> QED BY <1>1, <1>2, <1>3

LEMMA LeftInv == ASSUME DnsInv, NEW j \in Job, Left(j) PROVE DnsInv'
  <1> USE DEF DnsInv
  <1>1. /\ thread[j] = "leave" /\ thread' = [thread EXCEPT ![j] = "none"]
        /\ refs' = [refs EXCEPT ![j] = @ - 1]
        /\ \/ /\ done' = [done EXCEPT ![j] = FALSE]
              /\ answer' = [answer EXCEPT ![j] = None] /\ told' = [told EXCEPT ![j] = None]
           \/ UNCHANGED <<done, answer, told>>
        /\ UNCHANGED <<timeout, stop, cache, rpc, job, result, heard>>
    BY DEF Left, Free
  <1>2. DnsType'
    <2>1. refs' \in [Job -> Int] /\ thread' \in [Job -> {"none", "body", "tail", "leave"}]
      BY <1>1 DEF DnsType
    <2>2. None \in Heard
      BY DEF Heard
    <2>3. done' \in [Job -> BOOLEAN]
      BY <1>1 DEF DnsType
    <2>4. answer' \in [Job -> Heard] /\ told' \in [Job -> Heard]
      BY <1>1, <2>2 DEF DnsType
    <2> QED BY <1>1, <2>1, <2>3, <2>4 DEF DnsType
  <1>3. JobCounted'
    <2> SUFFICES ASSUME NEW k \in Job
                 PROVE refs'[k] = Cardinality(Waiting(k)') + IF Running(k)' THEN 1 ELSE 0
      BY DEF JobCounted
    <2>1. Waiting(k)' = Waiting(k) /\ Cardinality(Waiting(k)) \in Nat
      BY <1>1, WaitingFacts DEF Waiting
    <2>2. CASE k = j
      BY <1>1, <2>1, <2>2 DEF JobCounted, Running, DnsType
    <2>3. CASE k # j
      BY <1>1, <2>1, <2>3 DEF JobCounted, Running, DnsType
    <2> QED BY <2>2, <2>3
  <1>4. Told'
    BY <1>1 DEF Told, DnsType
  <1> QED BY <1>2, <1>3, <1>4

LEMMA ExpireInv == DnsInv /\ (Expire \/ Raise) => DnsInv'
  <1> SUFFICES ASSUME DnsInv, Expire \/ Raise PROVE DnsInv'
    OBVIOUS
  <1> USE DEF DnsInv, Expire, Raise, jobVars
  <1>1. DnsType'
    BY DEF DnsType
  <1>2. JobCounted'
    <2>1. \A j \in Job : Running(j)' <=> Running(j)
      BY DEF Running
    <2> QED BY <2>1, SameCount
  <1>3. Told'
    BY DEF Told
  <1> QED BY <1>1, <1>2, <1>3

\* A caller enters the resolver or comes back from it.
LEMMA CallInv ==
    ASSUME DnsInv, NEW c \in Caller, rpc[c] \in {"idle", "back"},
           NEW at \in {"idle", "look"}, rpc' = [rpc EXCEPT ![c] = at],
           \/ UNCHANGED result
           \/ result' = [result EXCEPT ![c] = None],
           UNCHANGED <<timeout, stop, cache, jobVars, job, heard>>
    PROVE  DnsInv'
  <1> USE DEF DnsInv, jobVars
  <1>1. DnsType'
    BY Constants DEF DnsType
  <1>2. JobCounted'
    <2>1. \A j \in Job : Running(j)' <=> Running(j)
      BY DEF Running
    <2> QED BY <2>1, SameCount DEF DnsType
  <1>3. Told'
    BY DEF Told, DnsType
  <1> QED BY <1>1, <1>2, <1>3

LEMMA StillInv == DnsInv /\ UNCHANGED dnsVars => DnsInv'
  <1> SUFFICES ASSUME DnsInv, UNCHANGED dnsVars PROVE DnsInv'
    OBVIOUS
  <1> USE DEF DnsInv, dnsVars, jobVars
  <1>1. DnsType' /\ Told'
    BY DEF DnsType, Told
  <1>2. JobCounted'
    <2>1. \A j \in Job : Running(j)' <=> Running(j)
      BY DEF Running
    <2> QED BY <2>1, SameCount
  <1> QED BY <1>1, <1>2

-----------------------------------------------------------------------------
(* The slot *)

\* What the crawl thread comes back with is a number of addresses.
LEMMA KnownNat == DnsInv => Known \in Nat
  <1> SUFFICES ASSUME DnsInv PROVE Known \in Nat
    OBVIOUS
  <1>1. result["crawl"] \in Answers \cup {None}
    BY SetupAssumption DEF DnsInv, DnsType, Heard
  <1> QED BY <1>1, Constants DEF Known

\* The crawl thread enters the resolver, or comes back from it.
LEMMA ResolveFacts ==
    ASSUME DnsInv, NEW why \in {"open", "probe", "next"}, Idle, Resolve(why)
    PROVE  DnsInv' /\ ~Idle' /\ purpose' = why /\ timeout' = timeout
  <1>1. "crawl" \in Caller
    BY SetupAssumption
  <1>2. rpc["crawl"] \in {"idle", "back"} /\ rpc' = [rpc EXCEPT !["crawl"] = "look"]
    BY DEF Idle, Resolve
  <1>3. UNCHANGED <<timeout, stop, cache, jobVars, job, result, heard>>
    BY DEF Resolve
  <1>4. DnsInv'
    BY <1>1, <1>2, <1>3, CallInv
  <1>5. ~Idle'
    BY <1>1, <1>2 DEF Idle, DnsInv, DnsType
  <1> QED BY <1>3, <1>4, <1>5 DEF Resolve

LEMMA BackFacts ==
    ASSUME DnsInv, NEW why \in {"open", "probe", "next"}, BackFrom(why)
    PROVE  DnsInv' /\ Idle' /\ purpose = why /\ purpose' = "none" /\ timeout' = timeout
  <1>1. "crawl" \in Caller
    BY SetupAssumption
  <1>2. rpc["crawl"] \in {"idle", "back"} /\ rpc' = [rpc EXCEPT !["crawl"] = "idle"]
    BY DEF BackFrom
  <1>3. /\ result' = [result EXCEPT !["crawl"] = None]
        /\ UNCHANGED <<timeout, stop, cache, jobVars, job, heard>>
    BY DEF BackFrom
  <1>4. DnsInv'
    BY <1>1, <1>2, <1>3, CallInv
  <1>5. Idle'
    BY <1>1, <1>2 DEF Idle, DnsInv, DnsType
  <1> QED BY <1>3, <1>4, <1>5 DEF BackFrom

LEMMA InitSlotInv == Init => SlotInv
  <1> SUFFICES ASSUME Init PROVE SlotInv
    OBVIOUS
  <1>1. Idle
    BY SetupAssumption DEF Init, InitDns, Idle
  <1>2. addrCount \in Int
    <2>1. addrCount = -1
      BY DEF Init
    <2> QED BY <2>1
  <1>5. SlotType
    BY <1>2 DEF Init, SlotType
  <1>3. Errand
    BY <1>1 DEF Init, Errand
  <1>4. Dialed /\ EveryAddressTried
    BY DEF Init, Dialed, Live, EveryAddressTried
  <1> QED BY <1>3, <1>4, <1>5 DEF SlotInv

\* A step of the resolver leaves the slot as it is.
LEMMA SlotStill ==
    ASSUME SlotInv, UNCHANGED slotVars, Idle' <=> Idle PROVE SlotInv'
  BY DEF SlotInv, slotVars, SlotType, Errand, Dialed, Live, EveryAddressTried

\* The slot is opened at the first address, or fails there.
LEMMA OpenInv == ASSUME IInv, Add \/ Open \/ NotOpen PROVE IInv'
  <1> USE DEF IInv, SlotInv
  <1>1. CASE Add
    <2>1. DnsInv' /\ ~Idle' /\ purpose' = "open"
      BY <1>1, ResolveFacts DEF Add
    <2>4. addrCount' \in Int
      <3>1. addrCount' = -1
        BY <1>1 DEF Add
      <3> QED BY <3>1
    <2>2. SlotType'
      BY <1>1, <2>1, <2>4 DEF Add, SlotType
    <2>3. Errand' /\ Dialed' /\ EveryAddressTried'
      BY <1>1, <2>1 DEF Add, Errand, Dialed, Live, EveryAddressTried
    <2> QED BY <2>1, <2>2, <2>3
  <1>2. CASE Open
    <2>1. DnsInv' /\ Idle' /\ purpose = "open" /\ purpose' = "none"
      BY <1>2, BackFacts DEF Open
    <2>2. addrIndex' = 0 /\ 0 \in dialed' /\ status' = "connecting"
      BY <1>2, <2>1 DEF Open, Dial, Errand, Dialed
    <2>3. 0 .. addrIndex' \subseteq dialed'
      BY <2>2
    <2> QED
      BY <1>2, <2>1, <2>2, <2>3 DEF Open, SlotType, Errand, Dialed, Live, EveryAddressTried
  <1>3. CASE NotOpen
    <2>1. DnsInv' /\ Idle' /\ purpose' = "none"
      BY <1>3, BackFacts DEF NotOpen
    <2> QED
      BY <1>3, <2>1 DEF NotOpen, Fail, SlotType, Errand, Dialed, Live, EveryAddressTried
  <1> QED BY <1>1, <1>2, <1>3

LEMMA ProbeInv == ASSUME IInv, Probe \/ Probed PROVE IInv'
  <1> USE DEF IInv, SlotInv
  <1>1. CASE Probe
    <2>1. DnsInv' /\ ~Idle' /\ purpose' = "probe"
      BY <1>1, ResolveFacts DEF Probe, AtSockets
    <2> QED
      BY <1>1, <2>1
      DEF Probe, AtSockets, SlotType, Errand, Dialed, Live, EveryAddressTried
  <1>2. CASE Probed
    <2>1. DnsInv' /\ Idle' /\ purpose = "probe" /\ purpose' = "none"
      BY <1>2, BackFacts DEF Probed
    <2>2. addrCount' \in Int
      BY <1>2, KnownNat DEF Probed
    <2> QED
      BY <1>2, <2>1, <2>2 DEF Probed, SlotType, Errand, Dialed, Live, EveryAddressTried
  <1> QED BY <1>1, <1>2

\* What the sockets did, without the resolver.
LEMMA SocketInv ==
    ASSUME IInv, Silent \/ Connected \/ Unsent \/ HandshakeFails \/ HandshakeDone
    PROVE  IInv'
  <1> USE DEF IInv, SlotInv
  <1>1. Idle /\ Live /\ UNCHANGED <<dnsVars, purpose, addrIndex, dialed>>
    BY DEF Silent, Connected, Unsent, HandshakeFails, HandshakeDone, Connecting, AtSockets,
           Live, Fail
  <1>2. DnsInv' /\ Idle'
    BY <1>1, StillInv DEF dnsVars, Idle
  <1>3. UNCHANGED addrCount /\ elapsed' \in {0, elapsed}
    BY DEF Silent, Connected, Unsent, HandshakeFails, HandshakeDone, Fail
  <1>4. /\ status' \in {"connecting", "handshake", "headers", "ready"}
        /\ status' = "ready" => msg' \in {"request not sent", "handshake"}
    BY DEF Silent, Connected, Unsent, HandshakeFails, HandshakeDone, Connecting, AtSockets, Fail
  <1>5. SlotType'
    <2>1. elapsed' \in Nat /\ addrCount' \in Int
      BY <1>3 DEF SlotType
    <2> QED BY <1>1, <1>4, <2>1 DEF SlotType
  <1>6. Errand' /\ Dialed'
    BY <1>1, <1>2, <1>4 DEF Errand, Dialed, Live
  <1>7. EveryAddressTried'
    BY <1>4 DEF EveryAddressTried
  <1> QED BY <1>2, <1>5, <1>6, <1>7

\* connect() failed: at the last address every one was dialed.
LEMMA RefusedInv == ASSUME IInv, Refused PROVE IInv'
  <1> USE DEF IInv, SlotInv
  <1>1. Idle /\ status = "connecting" /\ addrCount >= 0
    BY DEF Refused, Connecting, AtSockets
  <1>2. CASE addrIndex + 1 < addrCount
    <2>1. DnsInv' /\ ~Idle' /\ purpose' = "next"
      BY <1>1, <1>2, ResolveFacts DEF Refused
    <2> QED
      BY <1>1, <1>2, <2>1 DEF Refused, SlotType, Errand, Dialed, Live, EveryAddressTried
  <1>3. CASE ~(addrIndex + 1 < addrCount)
    <2>1. DnsInv' /\ Idle'
      BY <1>1, <1>3, StillInv DEF Refused, dnsVars, Idle
    <2>2. 0 .. addrCount - 1 \subseteq dialed
      BY <1>1, <1>3 DEF SlotType, Dialed, Live
    <2> QED
      BY <1>1, <1>3, <2>1, <2>2
      DEF Refused, Fail, SlotType, Errand, Dialed, Live, EveryAddressTried
  <1> QED BY <1>2, <1>3

\* The timeouts: one that expires with addresses left is the fallback's.
LEMMA TimeoutInv == ASSUME IInv, Fallback \/ TimeOut \/ Rest \/ Tick PROVE IInv'
  <1> USE DEF IInv, SlotInv
  <1>1. CASE Fallback
    <2>1. DnsInv' /\ ~Idle' /\ purpose' = "next"
      BY <1>1, ResolveFacts DEF Fallback, AtTimeouts
    <2> QED
      BY <1>1, <2>1
      DEF Fallback, FallbackDue, SlotType, Errand, Dialed, Live, EveryAddressTried
  <1>2. CASE TimeOut
    <2>1. DnsInv' /\ Idle' /\ purpose = "none"
      BY <1>2, StillInv DEF TimeOut, AtTimeouts, dnsVars, Idle, Errand
    <2>2. ASSUME status = "connecting" PROVE 0 .. addrCount - 1 \subseteq dialed
      <3>1. timeout > 0 /\ elapsed >= timeout /\ timeout \in Nat /\ Cap \in Nat
        BY <1>2, SetupAssumption DEF TimeOut, TimedOut, DnsInv, DnsType
      <3>2. elapsed >= Least(timeout, Cap)
        BY <3>1 DEF Least, SlotType
      <3>3. ~(addrIndex + 1 < addrCount)
        BY <1>2, <2>2, <3>1, <3>2 DEF TimeOut, FallbackDue
      <3> QED BY <2>2, <3>3 DEF SlotType, Dialed, Live
    <2>3. status = "handshake" => msg' = "handshake time out"
      BY <1>2 DEF TimeOut, Fail
    <2>4. status \in {"connecting", "handshake"}
      BY <1>2 DEF TimeOut, AtTimeouts, Live
    <2> QED
      BY <1>2, <2>1, <2>2, <2>3, <2>4
      DEF TimeOut, Fail, SlotType, Errand, Dialed, Live, EveryAddressTried
  <1>3. CASE Rest \/ Tick
    <2>1. /\ Idle /\ UNCHANGED <<dnsVars, purpose, status, addrIndex, addrCount, msg, dialed,
                                  sockets>>
          /\ elapsed' \in Nat
      BY <1>3 DEF Rest, Tick, SlotType
    <2>2. DnsInv' /\ Idle'
      BY <2>1, StillInv DEF dnsVars, Idle
    <2> QED
      BY <2>1, <2>2 DEF SlotType, Errand, Dialed, Live, EveryAddressTried
  <1> QED BY <1>1, <1>2, <1>3

\* The address after the one in turn.
LEMMA DialNextInv == ASSUME IInv, DialNext \/ NoDialNext PROVE IInv'
  <1> USE DEF IInv, SlotInv
  <1>1. DnsInv' /\ Idle' /\ purpose = "next" /\ purpose' = "none"
    BY BackFacts DEF DialNext, NoDialNext
  <1>2. status = "connecting"
    BY <1>1 DEF Errand
  <1>3. CASE DialNext
    <2>1. /\ addrIndex' = addrIndex + 1 /\ dialed' = dialed \cup {addrIndex + 1}
          /\ status' = "connecting" /\ elapsed' \in Nat /\ UNCHANGED addrCount
      BY <1>3 DEF DialNext, Dial, SlotType
    <2>2. 0 .. addrIndex' \subseteq dialed'
      BY <1>2, <2>1 DEF SlotType, Dialed, Live
    <2> QED
      BY <1>1, <2>1, <2>2 DEF SlotType, Errand, Dialed, Live, EveryAddressTried
  <1>4. CASE NoDialNext
    BY <1>1, <1>4 DEF NoDialNext, Fail, SlotType, Errand, Dialed, Live, EveryAddressTried
  <1> QED BY <1>3, <1>4

\* An FTP worker's call is not the crawl thread's.
LEMMA FtpInv == ASSUME IInv, FtpAsks \/ FtpHas PROVE IInv'
  <1> USE DEF IInv
  <1>1. "ftp" \in Caller /\ "crawl" \in Caller
    BY SetupAssumption
  <1>2. CASE FtpAsks
    <2>1. DnsInv'
      BY <1>1, <1>2, CallInv DEF FtpAsks
    <2>2. Idle' <=> Idle
      BY <1>1, <1>2 DEF FtpAsks, Idle, DnsInv, DnsType
    <2> QED
      BY <1>2, <2>1, <2>2
      DEF FtpAsks, SlotInv, SlotType, Errand, Dialed, Live, EveryAddressTried
  <1>3. CASE FtpHas
    <2>1. DnsInv'
      BY <1>1, <1>3, CallInv DEF FtpHas
    <2>2. Idle' <=> Idle
      BY <1>1, <1>3 DEF FtpHas, Idle, DnsInv, DnsType
    <2> QED BY <1>3, <2>1, <2>2, SlotStill DEF FtpHas
  <1> QED BY <1>2, <1>3

\* A resolve in progress: the slot waits.
LEMMA ResolvingInv ==
    ASSUME IInv, NEW c \in Caller, Resolving(c), UNCHANGED slotVars PROVE IInv'
  <1> USE DEF IInv
  <1>1. DnsInv'
    BY HitInv, AskInv, AskInlineInv, AnsweredInv, AbandonInv, StoreInv DEF Resolving
  <1>2. /\ rpc[c] \in {"look", "wait", "store"}
        /\ \E next \in {"wait", "store", "back"} : rpc' = [rpc EXCEPT ![c] = next]
    BY DEF Resolving, Hit, Ask, MakeJob, Miss, AskInline, Answered, Abandon, LeaveJob, Store
  <1>3. Idle' <=> Idle
    BY <1>2, SetupAssumption DEF Idle, DnsInv, DnsType
  <1> QED BY <1>1, <1>3, SlotStill

LEMMA ThreadingInv ==
    ASSUME IInv, Expire \/ Raise \/ \E j \in Job : Threading(j), UNCHANGED slotVars
    PROVE  IInv'
  <1> USE DEF IInv
  <1>1. DnsInv'
    BY ExpireInv, BodyInv, LeftInv DEF Threading
  <1>2. rpc' = rpc
    BY DEF Expire, Raise, Threading, Resolved, Crashed, Tailed, Left
  <1> QED BY <1>1, <1>2, SlotStill DEF Idle

LEMMA StepInv == IInv /\ [Next]_vars => IInv'
  <1> SUFFICES ASSUME IInv, [Next]_vars PROVE IInv'
    OBVIOUS
  <1>0. "crawl" \in Caller /\ "ftp" \in Caller
    BY SetupAssumption
  <1>1. CASE Add \/ Open \/ NotOpen
    BY <1>1, OpenInv
  <1>2. CASE Probe \/ Probed
    BY <1>2, ProbeInv
  <1>3. CASE Silent \/ Connected \/ Unsent \/ HandshakeFails \/ HandshakeDone
    BY <1>3, SocketInv
  <1>4. CASE Refused
    BY <1>4, RefusedInv
  <1>5. CASE Fallback \/ TimeOut \/ Rest \/ Tick
    BY <1>5, TimeoutInv
  <1>6. CASE DialNext \/ NoDialNext
    BY <1>6, DialNextInv
  <1>7. CASE FtpAsks \/ FtpHas
    BY <1>7, FtpInv
  <1>8. CASE (Resolving("crawl") \/ Resolving("ftp")) /\ UNCHANGED slotVars
    BY <1>0, <1>8, ResolvingInv
  <1>9. CASE (Expire \/ Raise \/ \E j \in Job : Threading(j)) /\ UNCHANGED slotVars
    BY <1>9, ThreadingInv
  <1>10. CASE Quiet \/ UNCHANGED vars
    <2>1. UNCHANGED dnsVars /\ UNCHANGED slotVars /\ (Idle' <=> Idle)
      BY <1>10 DEF Quiet, vars, dnsVars, Idle
    <2> QED BY <2>1, StillInv, SlotStill DEF IInv
  <1> QED
    BY <1>1, <1>2, <1>3, <1>4, <1>5, <1>6, <1>7, <1>8, <1>9, <1>10 DEF Next, Crawl, Engine

LEMMA InitInv == Init => IInv
  BY InitDnsInv, InitSlotInv DEF IInv

\* A resolve job is counted for exactly its waiting callers and its running
\* thread (dns_job_release), whoever abandons it and whoever crashes.
THEOREM JobsCounted == Spec => []JobCounted
  <1>1. IInv => JobCounted
    BY DEF IInv, DnsInv
  <1> QED BY <1>1, InitInv, StepInv, PTL DEF Spec

\* A link fails for its connection only when every address was dialed or the
\* one in turn could not be (back_connect_fallback_due, back_connect_next), at
\* any --timeout and any number of addresses.
THEOREM AddressesTried == Spec => []EveryAddressTried
  <1>1. IInv => EveryAddressTried
    BY DEF IInv, SlotInv
  <1> QED BY <1>1, InitInv, StepInv, PTL DEF Spec

\* The cache takes only what a resolver said (hts_dns_resolve_all): never the
\* silence of an abandoned or crashed resolve.
THEOREM CachedAnswers == Spec => AnswersOnly
  <1> DEFINE Only == cache' # cache =>
                        \/ cache' = Expired
                        \/ \E c \in Caller : rpc[c] = "store" /\ cache' = heard[c]
  <1>1. ASSUME IInv, [Next]_vars PROVE [Only]_vars
    <2>1. ASSUME NEW c \in Caller, Store(c) PROVE Only
      BY <1>1, <2>1 DEF Store, IInv, DnsInv, Told
    <2>2. ASSUME NEW c \in Caller, Resolving(c) PROVE Only
      BY <2>1, <2>2 DEF Resolving, Hit, Ask, MakeJob, AskInline, Answered, Abandon, LeaveJob
    <2>3. ASSUME Expire PROVE Only
      BY <2>3 DEF Expire
    <2>4. ASSUME NEW j \in Job, Threading(j) PROVE Only
      BY <2>4 DEF Threading, Resolved, Crashed, Tailed, Left
    <2>5. ASSUME Add \/ Engine \/ Tick \/ FtpAsks \/ FtpHas \/ Quiet \/ Raise
                 \/ UNCHANGED vars
          PROVE  Only
      BY <2>5
      DEF Add, Engine, Open, NotOpen, Probe, Probed, Silent, Refused, Connected, Unsent,
          HandshakeFails, HandshakeDone, Fallback, TimeOut, Rest, DialNext, NoDialNext, Tick,
          FtpAsks, FtpHas, Quiet, Raise, Resolve, BackFrom, vars, dnsVars
    <2>6. "crawl" \in Caller /\ "ftp" \in Caller
      BY SetupAssumption
    <2> QED BY <1>1, <2>2, <2>3, <2>4, <2>5, <2>6 DEF Next, Crawl
  <1> QED BY <1>1, InitInv, StepInv, PTL DEF Spec, AnswersOnly

-----------------------------------------------------------------------------
(* The body *)

Kinds == {"byte", "blank", "size", "last", "junk"}
Units == [kind : Kinds, n : Nat]

LEMMA UnitTypes ==
    /\ Byte \in Units /\ Blank \in Units /\ Final \in Units /\ Junk \in Units
    /\ \A n \in Nat : Unit("size", n) \in Units
    /\ \A n \in Nat : Bytes(n) \in Seq(Units) /\ Len(Bytes(n)) = n
    /\ Byte.kind = "byte" /\ Blank.kind = "blank" /\ Final.kind = "last"
    /\ Junk.kind = "junk" /\ \A n : Unit("size", n).kind = "size"
<1>1. Byte \in Units
  BY DEF Byte, Unit, Units, Kinds
<1> QED BY <1>1 DEF Byte, Blank, Final, Junk, Bytes, Unit, Units, Kinds

LEMMA UnitsApart ==
    /\ Byte # Blank /\ Byte # Final /\ Byte # Junk /\ Blank # Final /\ Blank # Junk
    /\ Byte.kind = "byte" /\ Blank.kind = "blank" /\ Final.kind = "last"
    /\ Junk.kind = "junk" /\ Final.n = 0
    /\ \A n : Unit("size", n).kind = "size" /\ Unit("size", n).n = n
  BY DEF Byte, Blank, Final, Junk, Unit

-----------------------------------------------------------------------------
(* Least elements, induction and recursion over numbers *)

LEMMA LeastExists ==
    ASSUME NEW S, S \subseteq Nat, S # {}
    PROVE  \E i \in S : \A j \in S : i <= j
<1>1. PICK n \in S : \A m \in S : ~(<<m, n>> \in OpToRel(<, Nat))
  BY WFMin, NatLessThanWellFounded, Zenon
<1>2. \A m \in S : ~(m < n)
  BY <1>1 DEF OpToRel
<1> QED BY <1>2

LEMMA NatSetInduction ==
    ASSUME NEW S, 0 \in S, \A n \in Nat : n \in S => n + 1 \in S
    PROVE  Nat \subseteq S
<1> DEFINE T == Nat \ S
<1> SUFFICES ASSUME T # {} PROVE FALSE
  OBVIOUS
<1>1. PICK n \in T : \A m \in T : n <= m
  <2>1. T \subseteq Nat
    OBVIOUS
  <2> HIDE DEF T
  <2> QED BY <2>1, LeastExists
<1>2. n # 0 /\ n - 1 \in Nat /\ n - 1 \in T
  OBVIOUS
<1> QED BY <1>1, <1>2

\* A function whose values each follow from the one before.
Recursion(N, X, a, G) == N \in Nat /\ a \in X /\ G \in [1 .. N -> [X -> X]]

LEMMA RecursionExists ==
    ASSUME NEW N, NEW X, NEW a, NEW G, Recursion(N, X, a, G)
    PROVE  \E f \in [0 .. N -> X] :
              f[0] = a /\ \A k \in 1 .. N : f[k] = G[k][f[k - 1]]
<1> USE DEF Recursion
<1> DEFINE Upto(f, m) == f[0] = a /\ \A k \in 1 .. N : k <= m => f[k] = G[k][f[k - 1]]
           S == {m \in Nat : \E f \in [0 .. N -> X] : Upto(f, m)}
<1>1. 0 \in S
  <2> DEFINE c == [k \in 0 .. N |-> a]
  <2>1. c \in [0 .. N -> X] /\ c[0] = a
    OBVIOUS
  <2>2. Upto(c, 0)
    BY <2>1
  <2> QED BY <2>1, <2>2
<1>2. ASSUME NEW m \in Nat, m \in S PROVE m + 1 \in S
  <2>1. PICK f \in [0 .. N -> X] : Upto(f, m)
    BY <1>2
  <2>2. CASE m + 1 \in 1 .. N
    <3> DEFINE g == [f EXCEPT ![m + 1] = G[m + 1][f[m]]]
    <3>1. f[m] \in X /\ G[m + 1] \in [X -> X]
      BY <2>2
    <3>2. g \in [0 .. N -> X]
      BY <2>2, <3>1
    <3>3. g[m + 1] = G[m + 1][f[m]] /\ \A k \in 0 .. N : k # m + 1 => g[k] = f[k]
      BY <2>2
    <3> HIDE DEF g
    <3>4. Upto(g, m + 1)
      <4> SUFFICES ASSUME NEW k \in 1 .. N, k <= m + 1 PROVE g[k] = G[k][g[k - 1]]
        BY <2>1, <3>3
      <4>1. g[k - 1] = f[k - 1]
        BY <3>3
      <4>2. CASE k = m + 1
        BY <3>3, <4>1, <4>2
      <4>3. CASE k <= m
        BY <2>1, <3>3, <4>1, <4>3
      <4> QED BY <4>2, <4>3
    <3> QED BY <3>2, <3>4
  <2>3. CASE m + 1 \notin 1 .. N
    BY <2>1, <2>3
  <2> QED BY <2>2, <2>3
<1>3. N \in S
  <2> HIDE DEF S
  <2> QED BY <1>1, <1>2, NatSetInduction
<1> QED BY <1>3

-----------------------------------------------------------------------------
(* What a server sends *)

LEMMA ChunksType ==
    ASSUME NEW cs \in ChunkLists
    PROVE  /\ Len(cs) \in Nat
           /\ \A k \in 1 .. Len(cs) : cs[k] \in Nat /\ cs[k] > 0
<1>1. PICK n \in 0 .. MaxChunks : cs \in [1 .. n -> Chunks]
  BY DEF ChunkLists
<1>2. n \in Nat /\ \A x \in Chunks : x \in Nat /\ x > 0
  BY Assumptions DEF Assumptions
<1>4. cs \in [1 .. n -> Chunks]
  BY <1>1
<1>3. cs \in Seq(Chunks) /\ Len(cs) = n
  BY <1>2, <1>4
<1> QED BY <1>1, <1>2, <1>3

LEMMA ClosingIs ==
    ASSUME NEW t \in Nat
    PROVE  /\ Closing(t) \in Seq(Units) /\ Len(Closing(t)) = t + 2
           /\ Closing(t)[1] = Final /\ Closing(t)[t + 2] = Blank
           /\ \A i \in 1 .. t : Closing(t)[i + 1] = Junk
<1> DEFINE junk == [i \in 1 .. t |-> Junk]
<1>1. junk \in Seq(Units) /\ Len(junk) = t /\ \A i \in 1 .. t : junk[i] = Junk
  BY UnitTypes
<1>2. Closing(t) = <<Final>> \o junk \o <<Blank>>
  BY DEF Closing
<1> HIDE DEF junk
<1> DEFINE head == <<Final>> \o junk
<1>3. /\ head \in Seq(Units) /\ Len(head) = t + 1 /\ head[1] = Final
      /\ \A i \in 1 .. t : head[i + 1] = Junk
  BY <1>1, UnitTypes
<1> HIDE DEF head
<1>4. Closing(t) = Append(head, Blank)
  BY <1>2, <1>3, UnitTypes DEF head
<1> QED BY <1>3, <1>4, UnitTypes

LEMMA FrameIs ==
    ASSUME NEW u \in Units, NEW d \in Seq(Units), NEW v \in Units, NEW s \in Seq(Units)
    PROVE  LET w == <<u>> \o d \o <<v>> \o s IN
           /\ w \in Seq(Units) /\ Len(w) = Len(d) + 2 + Len(s)
           /\ w[1] = u /\ w[Len(d) + 2] = v
           /\ \A i \in 1 .. Len(d) : w[i + 1] = d[i]
           /\ \A i \in 1 .. Len(s) : w[Len(d) + 2 + i] = s[i]
  OBVIOUS

LEMMA ChunkUnitsAre ==
    ASSUME NEW n \in Nat, NEW s \in Seq(Units)
    PROVE  LET w == ChunkUnits(n) \o s IN
           /\ w \in Seq(Units) /\ Len(w) = n + 2 + Len(s)
           /\ w[1] = Unit("size", n) /\ w[n + 2] = Blank
           /\ \A i \in 1 .. n : w[i + 1] = Byte
           /\ \A i \in 1 .. Len(s) : w[n + 2 + i] = s[i]
<1>1. PICK d \in Seq(Units) : d = Bytes(n)
  BY UnitTypes
<1>2. Len(d) = n /\ \A i \in 1 .. n : d[i] = Byte
  BY <1>1, UnitTypes DEF Bytes
<1>3. PICK u \in Units, v \in Units : u = Unit("size", n) /\ v = Blank
  BY UnitTypes
<1>4. PICK w : w = <<u>> \o d \o <<v>> \o s
  OBVIOUS
<1>5. w = ChunkUnits(n) \o s
  BY <1>1, <1>3, <1>4 DEF ChunkUnits
<1>6. /\ w \in Seq(Units) /\ Len(w) = Len(d) + 2 + Len(s)
      /\ w[1] = u /\ w[Len(d) + 2] = v
      /\ \A i \in 1 .. Len(d) : w[i + 1] = d[i]
      /\ \A i \in 1 .. Len(s) : w[Len(d) + 2 + i] = s[i]
  BY <1>4, FrameIs
<1> QED BY <1>2, <1>3, <1>5, <1>6

LEMMA StreamsAre ==
    ASSUME NEW cs \in ChunkLists, NEW t \in Nat
    PROVE  LET s == Streams(cs, t) IN
           /\ s \in [0 .. Len(cs) -> Seq(Units)]
           /\ s[0] = Closing(t)
           /\ \A k \in 1 .. Len(cs) : s[k] = ChunkUnits(cs[k]) \o s[k - 1]
<1> PICK N : N = Len(cs)
  OBVIOUS
<1> DEFINE G == [k \in 1 .. N |-> [x \in Seq(Units) |-> ChunkUnits(cs[k]) \o x]]
           h == CHOOSE s : s = [k \in 0 .. N |-> IF k = 0 THEN Closing(t)
                                                 ELSE ChunkUnits(cs[k]) \o s[k - 1]]
<1>1. N \in Nat /\ Closing(t) \in Seq(Units) /\ \A k \in 1 .. N : cs[k] \in Nat
  BY ChunksType, ClosingIs
<1>2. G \in [1 .. N -> [Seq(Units) -> Seq(Units)]]
  BY <1>1, ChunkUnitsAre
<1>3. PICK f \in [0 .. N -> Seq(Units)] :
          f[0] = Closing(t) /\ \A k \in 1 .. N : f[k] = G[k][f[k - 1]]
  <2> HIDE DEF G
  <2>1. Recursion(N, Seq(Units), Closing(t), G)
    BY <1>1, <1>2 DEF Recursion
  <2> QED BY <2>1, RecursionExists
<1>4. ASSUME NEW k \in 1 .. N PROVE f[k] = ChunkUnits(cs[k]) \o f[k - 1]
  <2>1. f[k] = G[k][f[k - 1]] /\ f[k - 1] \in Seq(Units)
    <3> HIDE DEF G
    <3>1. k - 1 \in 0 .. N
      BY <1>1
    <3>2. f[k - 1] \in Seq(Units)
      BY <3>1
    <3> QED BY <1>3, <3>2
  <2>2. \A x \in Seq(Units) : G[k][x] = ChunkUnits(cs[k]) \o x
    OBVIOUS
  <2> HIDE DEF G
  <2> QED BY <2>1, <2>2
<1>5. f = [k \in 0 .. N |-> IF k = 0 THEN Closing(t) ELSE ChunkUnits(cs[k]) \o f[k - 1]]
  <2>1. ASSUME NEW k \in 0 .. N
        PROVE  f[k] = IF k = 0 THEN Closing(t) ELSE ChunkUnits(cs[k]) \o f[k - 1]
    <3>1. k = 0 \/ k \in 1 .. N
      BY <1>1
    <3> QED BY <1>3, <1>4, <3>1
  <2> HIDE DEF G, h
  <2> QED BY <1>3, <2>1
<1>6. h = [k \in 0 .. N |-> IF k = 0 THEN Closing(t) ELSE ChunkUnits(cs[k]) \o h[k - 1]]
  <2> QED BY <1>5
<1>7. PICK s : s = Streams(cs, t)
  OBVIOUS
<1>8. s = [k \in 0 .. N |-> IF k = 0 THEN Closing(t) ELSE ChunkUnits(cs[k]) \o s[k - 1]]
  BY <1>6, <1>7 DEF Streams
<1> HIDE DEF G, h
<1>9. s[0] = Closing(t)
  <2>1. 0 \in 0 .. N
    BY <1>1
  <2> QED BY <1>8, <2>1
<1>10. ASSUME NEW k \in 1 .. N PROVE s[k] = ChunkUnits(cs[k]) \o s[k - 1]
  <2>1. k \in 0 .. N /\ k # 0
    OBVIOUS
  <2> QED BY <1>8, <2>1
<1>11. \A k \in 0 .. N : s[k] \in Seq(Units)
  <2> DEFINE S == {k \in Nat : k <= N => s[k] \in Seq(Units)}
  <2>1. 0 \in S
    BY <1>1, <1>9
  <2>2. ASSUME NEW k \in Nat, k \in S PROVE k + 1 \in S
    <3> SUFFICES ASSUME k + 1 <= N PROVE s[k + 1] \in Seq(Units)
      OBVIOUS
    <3>1. PICK m \in 1 .. N : m = k + 1
      BY <1>1
    <3>2. s[m - 1] \in Seq(Units)
      BY <1>1, <2>2, <3>1
    <3>3. s[m] = ChunkUnits(cs[m]) \o s[m - 1] /\ cs[m] \in Nat
      BY <1>1, <1>10
    <3> QED BY <3>1, <3>2, <3>3, ChunkUnitsAre
  <2>3. Nat \subseteq S
    <3> HIDE DEF S
    <3> QED BY <2>1, <2>2, NatSetInduction
  <2> QED BY <1>1, <2>3
<1>12. s \in [0 .. N -> Seq(Units)]
  BY <1>8, <1>11
<1> QED BY <1>7, <1>9, <1>10, <1>12

LEMMA LengthsAre ==
    ASSUME NEW cs \in ChunkLists
    PROVE  LET l == Lengths(cs) IN
           /\ \A k \in 0 .. Len(cs) : l[k] \in Nat
           /\ l[0] = 0
           /\ \A k \in 1 .. Len(cs) : l[k] = cs[k] + l[k - 1]
<1> PICK N : N = Len(cs)
  OBVIOUS
<1> DEFINE G == [k \in 1 .. N |-> [x \in Nat |-> cs[k] + x]]
           h == CHOOSE l : l = [k \in 0 .. N |-> IF k = 0 THEN 0 ELSE cs[k] + l[k - 1]]
<1>1. N \in Nat /\ \A k \in 1 .. N : cs[k] \in Nat
  BY ChunksType
<1>2. G \in [1 .. N -> [Nat -> Nat]]
  BY <1>1
<1>3. PICK f \in [0 .. N -> Nat] : f[0] = 0 /\ \A k \in 1 .. N : f[k] = G[k][f[k - 1]]
  <2> HIDE DEF G
  <2>1. Recursion(N, Nat, 0, G)
    BY <1>1, <1>2 DEF Recursion
  <2> QED BY <2>1, RecursionExists
<1>4. ASSUME NEW k \in 1 .. N PROVE f[k] = cs[k] + f[k - 1]
  <2>1. f[k] = G[k][f[k - 1]] /\ f[k - 1] \in Nat
    <3> HIDE DEF G
    <3>1. k - 1 \in 0 .. N
      BY <1>1
    <3>2. f[k - 1] \in Nat
      BY <3>1
    <3> QED BY <1>3, <3>2
  <2>2. \A x \in Nat : G[k][x] = cs[k] + x
    OBVIOUS
  <2> HIDE DEF G
  <2> QED BY <2>1, <2>2
<1>5. f = [k \in 0 .. N |-> IF k = 0 THEN 0 ELSE cs[k] + f[k - 1]]
  <2>1. ASSUME NEW k \in 0 .. N
        PROVE  f[k] = IF k = 0 THEN 0 ELSE cs[k] + f[k - 1]
    <3>1. k = 0 \/ k \in 1 .. N
      BY <1>1
    <3> QED BY <1>3, <1>4, <3>1
  <2> HIDE DEF G, h
  <2> QED BY <1>3, <2>1
<1>6. h = [k \in 0 .. N |-> IF k = 0 THEN 0 ELSE cs[k] + h[k - 1]]
  <2> QED BY <1>5
<1>7. Lengths(cs) = h
  BY DEF Lengths
<1>8. h[0] = 0 /\ \A k \in 1 .. N : h[k] = cs[k] + h[k - 1]
  <2> HIDE DEF h
  <2>1. \A k \in 0 .. N : h[k] = IF k = 0 THEN 0 ELSE cs[k] + h[k - 1]
    BY <1>6
  <2>2. 0 \in 0 .. N /\ \A k \in 1 .. N : k \in 0 .. N /\ k # 0
    BY <1>1
  <2> QED BY <2>1, <2>2
<1>9. \A k \in 0 .. N : h[k] \in Nat
  <2> DEFINE S == {k \in Nat : k <= N => h[k] \in Nat}
  <2> HIDE DEF h
  <2>1. 0 \in S
    BY <1>8
  <2>2. ASSUME NEW k \in Nat, k \in S PROVE k + 1 \in S
    <3> SUFFICES ASSUME k + 1 <= N PROVE h[k + 1] \in Nat
      OBVIOUS
    <3>1. k + 1 \in 1 .. N /\ h[k] \in Nat
      BY <1>1, <2>2
    <3>2. h[k + 1] = cs[k + 1] + h[k]
      BY <1>8, <3>1
    <3> QED BY <1>1, <3>1, <3>2
  <2>3. Nat \subseteq S
    <3> HIDE DEF S
    <3> QED BY <2>1, <2>2, NatSetInduction
  <2> QED BY <1>1, <2>3
<1> QED BY <1>7, <1>8, <1>9

-----------------------------------------------------------------------------
(* What may arrive of it *)

\* From the place o, the wire w is what arrives of s: cut, or with a line spoiled.
CutOff(w, o, s) ==
    /\ Len(w) - o <= Len(s)
    /\ \A i \in 1 .. Len(w) - o : w[o + i] = s[i]
Spoils(u, v) ==
    /\ v.kind \in {"size", "last"}
    /\ \/ u = Junk
       \/ u = Unit("size", v.n + 1)
       \/ v.n > 1 /\ u = Unit("size", v.n - 1)
Marred(w, o, s) ==
    /\ Len(w) - o = Len(s)
    /\ \E j \in 1 .. Len(s) : /\ Spoils(w[o + j], s[j])
                              /\ \A i \in 1 .. Len(s) : i # j => w[o + i] = s[i]
Coming(w, o, s) == CutOff(w, o, s) \/ Marred(w, o, s)

\* The server has k chunks of cs left to send, then t trailer fields.
Remains(cs, t, k) == cs \in ChunkLists /\ t \in 0 .. 1 /\ k \in 0 .. Len(cs)

LEMMA StreamHead ==
    ASSUME NEW cs, NEW t, NEW k, Remains(cs, t, k)
    PROVE  LET s == Streams(cs, t)[k] IN
           /\ s \in Seq(Units) /\ Len(s) \in Nat /\ Len(s) >= 2
           /\ s[1].kind \in {"size", "last"}
<1>1. t \in Nat /\ Len(cs) \in Nat
  BY ChunksType DEF Remains
<1>2. CASE k = 0
  <2>1. Streams(cs, t)[0] = Closing(t)
    BY <1>1, StreamsAre DEF Remains
  <2>2. /\ Closing(t) \in Seq(Units) /\ Len(Closing(t)) = t + 2
        /\ Closing(t)[1] = Final
    BY <1>1, ClosingIs
  <2> QED BY <1>1, <1>2, <2>1, <2>2, UnitsApart
<1>3. CASE k # 0
  <2>1. k \in 1 .. Len(cs) /\ k - 1 \in 0 .. Len(cs)
    BY <1>1, <1>3 DEF Remains
  <2>2. cs[k] \in Nat /\ Streams(cs, t)[k - 1] \in Seq(Units)
    BY <1>1, <2>1, ChunksType, StreamsAre DEF Remains
  <2>3. Streams(cs, t)[k] = ChunkUnits(cs[k]) \o Streams(cs, t)[k - 1]
    BY <1>1, <2>1, StreamsAre DEF Remains
  <2> DEFINE s == Streams(cs, t)[k]
             r == Streams(cs, t)[k - 1]
  <2> HIDE DEF s, r
  <2>4. s = ChunkUnits(cs[k]) \o r /\ r \in Seq(Units)
    BY <2>2, <2>3 DEF s, r
  <2>5. s \in Seq(Units) /\ Len(s) = cs[k] + 2 + Len(r) /\ s[1] = Unit("size", cs[k])
    BY <2>2, <2>4, ChunkUnitsAre
  <2>6. Len(r) \in Nat
    BY <2>4
  <2>7. s \in Seq(Units) /\ Len(s) \in Nat /\ Len(s) >= 2 /\ s[1].kind = "size"
    <3>1. s[1].kind = "size"
      BY <2>5, UnitsApart
    <3> QED BY <2>2, <2>5, <2>6, <3>1
  <2> QED BY <2>7 DEF s
<1> QED BY <1>2, <1>3

\* What stands where in the last k chunks, k # 0.
LEMMA StreamChunk ==
    ASSUME NEW cs, NEW t, NEW k, Remains(cs, t, k), k # 0
    PROVE  LET s == Streams(cs, t)[k]
               r == Streams(cs, t)[k - 1]
               n == cs[k]
           IN /\ n \in Nat /\ n > 0 /\ Remains(cs, t, k - 1) /\ r \in Seq(Units)
              /\ Len(s) = n + 2 + Len(r)
              /\ s[1] = Unit("size", n) /\ s[n + 2] = Blank
              /\ \A i \in 1 .. n : s[i + 1] = Byte
              /\ \A i \in 1 .. Len(r) : s[n + 2 + i] = r[i]
              /\ Lengths(cs)[k] = n + Lengths(cs)[k - 1]
              /\ Lengths(cs)[k] \in Nat /\ Lengths(cs)[k - 1] \in Nat
<1>1. t \in Nat /\ Len(cs) \in Nat /\ cs \in ChunkLists
  BY ChunksType DEF Remains
<1>2. k \in 1 .. Len(cs) /\ k - 1 \in 0 .. Len(cs) /\ k \in 0 .. Len(cs)
  BY <1>1 DEF Remains
<1>3. cs[k] \in Nat /\ cs[k] > 0 /\ Streams(cs, t)[k - 1] \in Seq(Units)
  BY <1>1, <1>2, ChunksType, StreamsAre
<1>4. Streams(cs, t)[k] = ChunkUnits(cs[k]) \o Streams(cs, t)[k - 1]
  BY <1>1, <1>2, StreamsAre
<1>5. /\ Lengths(cs)[k] = cs[k] + Lengths(cs)[k - 1]
      /\ Lengths(cs)[k] \in Nat /\ Lengths(cs)[k - 1] \in Nat
  BY <1>1, <1>2, LengthsAre
<1>6. Remains(cs, t, k - 1)
  BY <1>2 DEF Remains
<1> DEFINE s == Streams(cs, t)[k]
           r == Streams(cs, t)[k - 1]
<1> HIDE DEF s, r
<1>7. s = ChunkUnits(cs[k]) \o r /\ r \in Seq(Units)
  BY <1>3, <1>4 DEF s, r
<1>8. /\ Len(s) = cs[k] + 2 + Len(r)
      /\ s[1] = Unit("size", cs[k]) /\ s[cs[k] + 2] = Blank
      /\ \A i \in 1 .. cs[k] : s[i + 1] = Byte
      /\ \A i \in 1 .. Len(r) : s[cs[k] + 2 + i] = r[i]
  BY <1>3, <1>7, ChunkUnitsAre
<1> QED BY <1>3, <1>5, <1>6, <1>7, <1>8 DEF s, r

\* After the size line of a chunk: its data and the blank line, as far as they
\* arrive, and what may arrive of the next.
Follows(w, o, n, s) ==
    /\ \A i \in 1 .. n : o + i <= Len(w) => w[o + i] = Byte
    /\ Len(w) > o + n => w[o + n + 1] = Blank /\ Coming(w, o + n + 1, s)

\* The line that ends n bytes of data will not be found, or nothing after it.
Misses(w, o, n) == Len(w) > o + n + 1 => w[o + n + 1] # Blank

\* The line due in front of k chunks is right, or its like, or spoiled.
LEMMA ChunkComes ==
    ASSUME NEW cs, NEW t, NEW k, Remains(cs, t, k), k # 0,
           NEW w \in Seq(Units), w # <<>>, Coming(w, 0, Streams(cs, t)[k])
    PROVE  \/ w[1] = Junk
           \/ w[1] = Unit("size", cs[k]) /\ Follows(w, 1, cs[k], Streams(cs, t)[k - 1])
           \/ \E n \in Nat : w[1] = Unit("size", n) /\ Misses(w, 1, n)
<1> DEFINE s == Streams(cs, t)[k]
           r == Streams(cs, t)[k - 1]
           n == cs[k]
<1>1. /\ n \in Nat /\ n > 0 /\ Remains(cs, t, k - 1) /\ r \in Seq(Units)
      /\ Len(s) = n + 2 + Len(r)
      /\ s[1] = Unit("size", n) /\ s[n + 2] = Blank
      /\ \A i \in 1 .. n : s[i + 1] = Byte
      /\ \A i \in 1 .. Len(r) : s[n + 2 + i] = r[i]
  BY StreamChunk
<1>2. Len(r) \in Nat /\ Len(r) >= 2 /\ r[1].kind \in {"size", "last"}
  BY <1>1, StreamHead
<1>3. Len(w) \in Nat /\ Len(w) > 0 /\ Coming(w, 0, s)
  OBVIOUS
<1> HIDE DEF s, r, n
<1>4. CASE CutOff(w, 0, s)
  <2>1. Len(w) <= Len(s) /\ \A i \in 1 .. Len(w) : w[i] = s[i]
    BY <1>3, <1>4 DEF CutOff
  <2>2. w[1] = Unit("size", n)
    BY <1>1, <1>3, <2>1
  <2>3. ASSUME NEW i \in 1 .. n, 1 + i <= Len(w) PROVE w[1 + i] = Byte
    BY <1>1, <2>1, <2>3
  <2>4. ASSUME Len(w) > 1 + n PROVE w[n + 2] = Blank /\ CutOff(w, n + 2, r)
    <3>1. w[n + 2] = Blank
      BY <1>1, <1>3, <2>1, <2>4
    <3>2. ASSUME NEW i \in 1 .. Len(w) - (n + 2) PROVE w[n + 2 + i] = r[i]
      BY <1>1, <1>2, <1>3, <2>1, <3>2
    <3> QED BY <1>1, <1>2, <1>3, <2>1, <3>1, <3>2 DEF CutOff
  <2>5. Follows(w, 1, n, r)
    BY <1>1, <2>3, <2>4 DEF Follows, Coming
  <2> QED BY <2>2, <2>5 DEF n, r
<1>5. CASE Marred(w, 0, s)
  <2>1. PICK j \in 1 .. Len(s) : /\ Spoils(w[j], s[j])
                                 /\ \A i \in 1 .. Len(s) : i # j => w[i] = s[i]
    BY <1>1, <1>2, <1>5 DEF Marred
  <2>2. Len(w) = Len(s)
    BY <1>1, <1>2, <1>3, <1>5 DEF Marred
  <2>3. CASE j = 1
    <3>a. ASSUME NEW i \in 1 .. n PROVE w[i + 1] = Byte
      <4>1. i + 1 \in 1 .. Len(s) /\ i + 1 # j
        BY <1>1, <1>2, <2>3
      <4> QED BY <1>1, <2>1, <4>1
    <3>b. w[n + 2] = Blank
      <4>1. n + 2 \in 1 .. Len(s) /\ n + 2 # j
        BY <1>1, <1>2, <2>3
      <4> QED BY <1>1, <2>1, <4>1
    <3>c. w[n + 3] = r[1]
      <4>1. n + 3 \in 1 .. Len(s) /\ n + 3 # j /\ 1 \in 1 .. Len(r)
        BY <1>1, <1>2, <2>3
      <4>2. s[n + 2 + 1] = r[1]
        BY <1>1, <4>1
      <4>3. n + 2 + 1 = n + 3
        BY <1>1
      <4> QED BY <2>1, <4>1, <4>2, <4>3
    <3>1. w[n + 3] # Blank /\ (n > 1 => w[n + 1] # Blank)
      <4>1. w[n + 3] # Blank
        BY <1>2, <3>c, UnitsApart
      <4>2. w[n + 1] # Blank
        BY <1>1, <3>a, UnitsApart
      <4> QED BY <1>1, <4>1, <4>2
    <3>2. s[1].kind = "size" /\ s[1].n = n
      BY <1>1 DEF Unit
    <3>3. CASE w[1] = Unit("size", n + 1)
      <4>1. Misses(w, 1, n + 1)
        <5>1. n + 1 \in Nat /\ 1 + (n + 1) + 1 = n + 3
          BY <1>1
        <5> QED BY <3>1, <5>1 DEF Misses
      <4> QED BY <1>1, <3>3, <4>1
    <3>4. CASE n > 1 /\ w[1] = Unit("size", n - 1)
      <4>1. Misses(w, 1, n - 1)
        <5>1. n - 1 \in Nat /\ 1 + (n - 1) + 1 = n + 1
          BY <1>1
        <5> QED BY <3>1, <3>4, <5>1 DEF Misses
      <4> QED BY <1>1, <3>4, <4>1
    <3> QED BY <2>1, <2>3, <3>2, <3>3, <3>4 DEF Spoils
  <2>4. CASE j # 1
    <3>1. w[1] = Unit("size", n)
      <4>1. 1 \in 1 .. Len(s)
        BY <1>1, <1>2
      <4> QED BY <1>1, <2>1, <2>4, <4>1
    <3>2. s[j].kind \in {"size", "last"}
      BY <2>1 DEF Spoils
    <3>3. j > n + 2
      <4>1. \A i \in 1 .. n : j # i + 1
        BY <1>1, <3>2, UnitsApart
      <4>2. j # n + 2
        BY <1>1, <3>2, UnitsApart
      <4> QED BY <1>1, <2>4, <4>1, <4>2
    <3>4. \A i \in 1 .. n : w[1 + i] = Byte
      BY <1>1, <1>2, <2>1, <3>3
    <3>5. w[n + 2] = Blank
      BY <1>1, <1>2, <2>1, <3>3
    <3>6. Marred(w, n + 2, r)
      <4> DEFINE m == j - (n + 2)
      <4>1. m \in 1 .. Len(r) /\ j = n + 2 + m
        BY <1>1, <1>2, <3>3
      <4>2. Spoils(w[n + 2 + m], r[m])
        BY <1>1, <2>1, <4>1
      <4>3. ASSUME NEW i \in 1 .. Len(r), i # m PROVE w[n + 2 + i] = r[i]
        BY <1>1, <1>2, <2>1, <4>1, <4>3
      <4>4. Len(w) - (n + 2) = Len(r)
        BY <1>1, <1>2, <2>2
      <4> HIDE DEF m
      <4> QED BY <4>1, <4>2, <4>3, <4>4 DEF Marred
    <3>7. Follows(w, 1, n, r)
      BY <1>1, <3>4, <3>5, <3>6 DEF Follows, Coming
    <3> QED BY <3>1, <3>7 DEF n, r
  <2> QED BY <2>3, <2>4
<1> QED BY <1>3, <1>4, <1>5 DEF Coming

\* In front of the last line.
LEMMA ClosingComes ==
    ASSUME NEW cs, NEW t, Remains(cs, t, 0),
           NEW w \in Seq(Units), w # <<>>, Coming(w, 0, Streams(cs, t)[0])
    PROVE  \/ w[1] = Junk \/ w[1] = Final
           \/ \E n \in Nat : w[1] = Unit("size", n) /\ Misses(w, 1, n)
<1> DEFINE s == Streams(cs, t)[0]
<1>1. /\ t \in 0 .. 1 /\ Len(s) = t + 2 /\ s[1] = Final /\ s[t + 2] = Blank
      /\ \A i \in 1 .. t : s[i + 1] = Junk
  <2>1. t \in Nat /\ Streams(cs, t)[0] = Closing(t)
    <3>1. t \in Nat /\ cs \in ChunkLists
      BY DEF Remains
    <3> QED BY <3>1, StreamsAre
  <2>2. t \in 0 .. 1
    BY DEF Remains
  <2> QED BY <2>1, <2>2, ClosingIs
<1>2. Len(w) \in Nat /\ Len(w) > 0 /\ Coming(w, 0, s)
  OBVIOUS
<1> HIDE DEF s
<1>3. CASE CutOff(w, 0, s)
  BY <1>1, <1>2, <1>3 DEF CutOff
<1>4. CASE Marred(w, 0, s)
  <2>1. PICK j \in 1 .. Len(s) : /\ Spoils(w[j], s[j])
                                 /\ \A i \in 1 .. Len(s) : i # j => w[i] = s[i]
    BY <1>1, <1>4 DEF Marred
  <2>2. Len(w) = t + 2
    BY <1>1, <1>2, <1>4 DEF Marred
  <2>3. CASE j = 1
    <3>1. s[1].n = 0
      BY <1>1 DEF Final, Unit
    <3>2. w[1] = Junk \/ w[1] = Unit("size", 1)
      BY <2>1, <2>3, <3>1 DEF Spoils
    <3>3. Misses(w, 1, 1)
      BY <1>1, <2>2 DEF Misses
    <3> QED BY <3>2, <3>3
  <2>4. CASE j # 1
    BY <1>1, <2>1, <2>4
  <2> QED BY <2>3, <2>4
<1> QED BY <1>2, <1>3, <1>4 DEF Coming

-----------------------------------------------------------------------------
(* Types *)

Copies == {"none", "old", "page", "part", "coded"}
Codes == {"ok", "toobig", "failed", "io", "invalid"}
Marks == {"noted", "finalized", "badLine", "unopened", "overwritten"}
Steps == {"open", "body", "judge", "spool", "unpack", "swap", "commit", "verdict",
          "restore", "restoreLate", "take", "release", "purge", "done"}

Disks == [sav : Copies, bak : Copies, z : {"none", "coded", "part"},
          u : {"none", "page"}]

LineType ==
    /\ wire \in Seq(Units) /\ got \in Seq(Units)
    /\ bodyStatus \in {"wait", "cr", "data", "ready"}
    /\ blocksize \in Nat \cup {-1} /\ total \in Nat \cup {-1}
BodyType ==
    /\ resp \in Responses /\ body \in Nat /\ LineType
    /\ code \in Codes /\ adr \in {"raw", "page", "none"}
    /\ disk \in Disks
    /\ marks \subseteq Marks /\ entry \in Copies /\ step \in Steps

LEMMA DropIs ==
    ASSUME NEW w \in Seq(Units), NEW n \in 0 .. Len(w)
    PROVE  LET v == SubSeq(w, n + 1, Len(w)) IN
           /\ v \in Seq(Units) /\ Len(v) = Len(w) - n
           /\ \A i \in 1 .. Len(w) - n : v[i] = w[n + i]
  OBVIOUS

LEMMA TakeIs ==
    ASSUME NEW w \in Seq(Units), NEW n \in 0 .. Len(w)
    PROVE  LET v == SubSeq(w, 1, n) IN
           /\ v \in Seq(Units) /\ Len(v) = n
           /\ \A i \in 1 .. n : v[i] = w[i]
  OBVIOUS

LEMMA JoinIs ==
    ASSUME NEW v \in Seq(Units), NEW w \in Seq(Units)
    PROVE  /\ v \o w \in Seq(Units) /\ Len(v \o w) = Len(v) + Len(w)
           /\ \A i \in 1 .. Len(v) : (v \o w)[i] = v[i]
           /\ \A i \in 1 .. Len(w) : (v \o w)[Len(v) + i] = w[i]
  OBVIOUS

\* A line of the framing is the unit at hand, or nothing that is due.
LEMMA LineIs ==
    ASSUME wire \in Seq(Units), Ends # {}
    PROVE  /\ AfterLine \in Seq(Units)
           /\ Line \in Units /\ wire # <<>>
           /\ Line # Junk => /\ Line = wire[1]
                             /\ Len(AfterLine) = Len(wire) - 1
                             /\ \A i \in 1 .. Len(wire) - 1 : AfterLine[i] = wire[1 + i]
<1>1. Ends \subseteq 1 .. Len(wire) /\ Len(wire) \in Nat
  BY DEF Ends
<1>2. \E i \in Ends : \A j \in Ends : i <= j
  <2>1. Ends \subseteq Nat
    BY <1>1
  <2> QED BY <2>1, LeastExists
<1>3. LineEnd \in Ends
  BY <1>2 DEF LineEnd
<1>4. PICK n \in 1 .. Len(wire) : n = LineEnd
  BY <1>1, <1>3
<1>5. AfterLine = SubSeq(wire, n + 1, Len(wire)) /\ n \in 0 .. Len(wire)
  BY <1>1, <1>4 DEF AfterLine
<1>6. Line = IF n = 1 THEN wire[1] ELSE Junk
  BY <1>1, <1>4 DEF Line
<1>7. /\ AfterLine \in Seq(Units) /\ Len(AfterLine) = Len(wire) - n
      /\ \A i \in 1 .. Len(wire) - n : AfterLine[i] = wire[n + i]
  BY <1>5, DropIs
<1>8. wire[1] \in Units /\ Junk \in Units /\ wire # <<>>
  BY <1>1, <1>4, UnitTypes
<1> QED BY <1>6, <1>7, <1>8

LEMMA TrailersIs ==
    ASSUME wire \in Seq(Units), Trailers
    PROVE  wire' \in Seq(Units)
<1>1. Blanks \subseteq 1 .. Len(wire) /\ Len(wire) \in Nat /\ Blanks \subseteq Nat
  BY DEF Blanks
<1>5. Blanks # {}
  BY DEF Trailers
<1> DEFINE e == CHOOSE i \in Blanks : \A j \in Blanks : i <= j
<1>2. \E i \in Blanks : \A j \in Blanks : i <= j
  BY <1>1, <1>5, LeastExists
<1>3. e \in Blanks
  BY <1>2
<1>4. wire' = SubSeq(wire, e + 1, Len(wire))
  BY DEF Trailers
<1> HIDE DEF e
<1>6. e \in 0 .. Len(wire)
  BY <1>1, <1>3
<1> QED BY <1>4, <1>6, DropIs

LEMMA RawTypes ==
    ASSUME NEW g
    PROVE  /\ Raw(g) \in {"page", "coded", "part"}
           /\ (~resp.coded \/ g = <<>>) => Raw(g) # "coded"
           /\ Whole(g) /\ (~resp.coded \/ body = 0) => Raw(g) = "page"
  BY DEF Raw

\* What arrives at first, under each framing.
LEMMA WireComes ==
    ASSUME BodyInit
    PROVE  /\ body \in Nat /\ wire \in Seq(Units)
           /\ resp.framing = "chunked" =>
                 \E cs \in ChunkLists, t \in 0 .. 1 :
                    /\ body = Lengths(cs)[Len(cs)]
                    /\ Coming(wire, 0, Streams(cs, t)[Len(cs)])
           /\ resp.framing # "chunked" =>
                 \A i \in 1 .. Len(wire) : wire[i] = Byte
<1>1. PICK cs \in ChunkLists, t \in 0 .. 1 :
        /\ body = Length(cs)
        /\ IF resp.framing = "chunked"
             THEN \/ wire \in Prefixes(Stream(cs, t))
                  \/ wire \in Spoiled(Stream(cs, t))
             ELSE \/ wire \in Prefixes(Bytes(body))
                  \/ resp.framing = "length" /\ wire = Bytes(body + 1)
  BY DEF BodyInit
<1>2. /\ Len(cs) \in Nat /\ body = Lengths(cs)[Len(cs)] /\ body \in Nat
  BY <1>1, ChunksType, LengthsAre DEF Length
<1>3. CASE resp.framing = "chunked"
  <2> PICK s : s = Streams(cs, t)[Len(cs)]
    OBVIOUS
  <2>1. Remains(cs, t, Len(cs))
    BY <1>2 DEF Remains
  <2>2. s \in Seq(Units) /\ Len(s) \in Nat
    BY <2>1, StreamHead
  <2>3. wire \in Prefixes(s) \/ wire \in Spoiled(s)
    BY <1>1, <1>3 DEF Stream
  <2>4. CASE wire \in Prefixes(s)
    <3>1. PICK l \in 0 .. Len(s) : wire = SubSeq(s, 1, l)
      BY <2>4 DEF Prefixes
    <3>2. /\ wire \in Seq(Units) /\ Len(wire) = l
          /\ \A i \in 1 .. l : wire[i] = s[i]
      BY <2>2, <3>1, TakeIs
    <3>3. CutOff(wire, 0, s)
      BY <2>2, <3>2 DEF CutOff
    <3> QED BY <1>1, <1>2, <1>3, <3>2, <3>3 DEF Coming
  <2>5. CASE wire \in Spoiled(s)
    <3>1. PICK j \in DOMAIN s :
            /\ s[j].kind \in {"size", "last"}
            /\ \E u \in {Junk, Unit("size", s[j].n + 1)}
                        \cup (IF s[j].n > 1 THEN {Unit("size", s[j].n - 1)} ELSE {}) :
                  wire = [s EXCEPT ![j] = u]
      <4>1. PICK j \in {i \in DOMAIN s : s[i].kind \in {"size", "last"}} :
               LET n == s[j].n
               IN wire \in {[s EXCEPT ![j] = u] : u \in {Junk, Unit("size", n + 1)}
                              \cup (IF n > 1 THEN {Unit("size", n - 1)} ELSE {})}
        BY <2>5 DEF Spoiled
      <4> QED BY <4>1
    <3>2. PICK u \in {Junk, Unit("size", s[j].n + 1)}
                        \cup (IF s[j].n > 1 THEN {Unit("size", s[j].n - 1)} ELSE {}) :
                  wire = [s EXCEPT ![j] = u]
      BY <3>1
    <3>3. j \in 1 .. Len(s) /\ s[j] \in Units /\ s[j].n \in Nat
      <4>1. j \in 1 .. Len(s) /\ s[j] \in Units
        BY <2>2
      <4> QED BY <4>1 DEF Units
    <3>4. Spoils(u, s[j])
      BY <3>1, <3>2 DEF Spoils
    <3>5. u \in Units
      <4>1. s[j].n + 1 \in Nat /\ (s[j].n > 1 => s[j].n - 1 \in Nat)
        BY <3>3
      <4> QED BY <3>2, <4>1, UnitTypes
    <3>6. /\ wire \in Seq(Units) /\ Len(wire) = Len(s) /\ wire[j] = u
          /\ \A i \in 1 .. Len(s) : i # j => wire[i] = s[i]
      BY <2>2, <3>2, <3>3, <3>5
    <3>7. Marred(wire, 0, s)
      BY <2>2, <3>3, <3>4, <3>6 DEF Marred
    <3> QED BY <1>1, <1>2, <1>3, <3>6, <3>7 DEF Coming
  <2> QED BY <2>3, <2>4, <2>5
<1>4. CASE resp.framing # "chunked"
  <2>1. PICK n \in Nat : n = body \/ n = body + 1
    BY <1>2
  <2>2. \A m \in Nat : Bytes(m) \in Seq(Units) /\ Len(Bytes(m)) = m
                       /\ \A i \in 1 .. m : Bytes(m)[i] = Byte
    BY UnitTypes DEF Bytes
  <2>3. CASE wire \in Prefixes(Bytes(body))
    <3>1. PICK d \in Seq(Units) : d = Bytes(body)
      BY <1>2, <2>2
    <3>2. Len(d) = body /\ \A i \in 1 .. Len(d) : d[i] = Byte
      BY <1>2, <2>2, <3>1
    <3>3. PICK l \in 0 .. Len(d) : wire = SubSeq(d, 1, l)
      BY <2>3, <3>1 DEF Prefixes
    <3>4. /\ wire \in Seq(Units) /\ Len(wire) = l
          /\ \A i \in 1 .. l : wire[i] = d[i]
      BY <3>3, TakeIs
    <3> QED BY <1>2, <1>4, <3>2, <3>4
  <2>4. CASE wire = Bytes(body + 1)
    <3>1. body + 1 \in Nat
      BY <1>2
    <3> QED BY <1>2, <1>4, <2>2, <2>4, <3>1
  <2> QED BY <1>1, <1>4, <2>3, <2>4
<1> QED BY <1>3, <1>4

LEMMA InitBody == BodyInit => BodyType
<1> SUFFICES ASSUME BodyInit PROVE BodyType
  OBVIOUS
<1>1. body \in Nat /\ wire \in Seq(Units)
  BY WireComes
<1>2. LineType
  BY <1>1 DEF BodyInit, LineType
<1> QED BY <1>1, <1>2 DEF BodyInit, BodyType, Codes, Copies, Disks, Marks, Steps

LEMMA LineTypeStep == BodyType /\ [BodyNext]_bodyVars => LineType'
<1> SUFFICES ASSUME BodyType, [BodyNext]_bodyVars PROVE LineType'
  OBVIOUS
<1> USE DEF BodyType, LineType
<1>1. CASE UNCHANGED line
  BY <1>1 DEF line
<1>2. \A s : ReadsLine(s) => wire' \in Seq(Units) /\ Line.n \in Nat
  <2> SUFFICES ASSUME NEW s, ReadsLine(s) PROVE wire' \in Seq(Units) /\ Line.n \in Nat
    OBVIOUS
  <2>1. Ends # {} /\ wire' = AfterLine
    BY DEF ReadsLine
  <2>2. AfterLine \in Seq(Units) /\ Line \in Units
    BY <2>1, LineIs
  <2> QED BY <2>1, <2>2 DEF Units
<1>3. Announced \in Nat
  BY DEF Announced
<1>4. CASE SizeLine \/ TooBigLine \/ LastLine \/ BadLine \/ DataEnd
  BY <1>2, <1>3, <1>4 DEF SizeLine, TooBigLine, LastLine, BadLine, DataEnd, KeepBody
<1>5. CASE Trailers
  <2>1. wire' \in Seq(Units)
    BY <1>5, TrailersIs
  <2> QED BY <1>5, <2>1 DEF Trailers, KeepBody
<1>6. CASE Data
  <2>1. PICK k \in 1 .. Len(wire) : /\ got' = got \o SubSeq(wire, 1, k)
                                    /\ wire' = SubSeq(wire, k + 1, Len(wire))
    BY <1>6 DEF Data
  <2>2. k \in 0 .. Len(wire)
    OBVIOUS
  <2>3. SubSeq(wire, 1, k) \in Seq(Units) /\ wire' \in Seq(Units)
    BY <2>1, <2>2, TakeIs, DropIs
  <2>4. got' \in Seq(Units)
    BY <2>1, <2>3, JoinIs
  <2> QED BY <1>6, <2>3, <2>4 DEF Data
<1>7. CASE CreateFails \/ EndOfStream \/ ReadFails
  BY <1>7 DEF CreateFails, EndOfStream, ReadFails
<1> QED BY <1>1, <1>4, <1>5, <1>6, <1>7
        DEF BodyNext, Decode, Finalize, Create, Refuse, Accept, Spool, SpoolFails, SpoolShort,
            Unpack, UnpackFails, Swap, SwapFails, Commit, Restore, Verdict, Invalid,
            Save, NotSaved, Release, Purge, Done, bodyVars, line

\* What a step does to the copies on disk leaves them of their type.
Unpacked(d, c) == [d EXCEPT !.z = "none", !.u = "none", !.sav = c]
Unfiled(d, c) == [d EXCEPT !.z = "none", !.sav = c]

LEMMA DiskEdits ==
    ASSUME NEW d \in Disks
    PROVE  /\ d.sav \in Copies
           /\ Restored(d) \in Disks
           /\ [d EXCEPT !.bak = "none"] \in Disks
           /\ [d EXCEPT !.u = "page"] \in Disks
           /\ [d EXCEPT !.z = "none", !.u = "none"] \in Disks
           /\ \A z \in {"none", "coded", "part"} : [d EXCEPT !.z = z] \in Disks
           /\ \A c \in Copies : /\ [d EXCEPT !.sav = c] \in Disks
                              /\ [d EXCEPT !.sav = c, !.bak = d.sav] \in Disks
                              /\ Unfiled(d, c) \in Disks /\ Unpacked(d, c) \in Disks
<1>1. d.sav \in Copies /\ d.bak \in Copies /\ "none" \in Copies
  BY DEF Disks, Copies
<1>2. [d EXCEPT !.bak = "none"] \in Disks /\ [d EXCEPT !.u = "page"] \in Disks
  BY <1>1 DEF Disks
<1>3. [d EXCEPT !.z = "none", !.u = "none"] \in Disks
  BY DEF Disks
<1>4. [d EXCEPT !.sav = d.bak, !.bak = "none"] \in Disks
  BY <1>1 DEF Disks
<1>5. ASSUME NEW z \in {"none", "coded", "part"} PROVE [d EXCEPT !.z = z] \in Disks
  BY DEF Disks
<1>6. ASSUME NEW c \in Copies
      PROVE  [d EXCEPT !.sav = c] \in Disks /\ [d EXCEPT !.sav = c, !.bak = d.sav] \in Disks
  BY <1>1 DEF Disks
<1>7. ASSUME NEW c \in Copies
      PROVE  Unfiled(d, c) \in Disks
  BY DEF Disks, Unfiled
<1>8. ASSUME NEW c \in Copies
      PROVE  Unpacked(d, c) \in Disks
  BY DEF Disks, Unpacked
<1> QED BY <1>1, <1>2, <1>3, <1>4, <1>5, <1>6, <1>7, <1>8 DEF Restored

LEMMA DiskStep == ASSUME BodyType, [BodyNext]_bodyVars PROVE disk' \in Disks
<1>1. disk \in Disks /\ adr \in {"raw", "page", "none"}
  BY DEF BodyType
<1>2. /\ {"none", "page"} \subseteq Copies
      /\ \A g : Raw(g) \in Copies
      /\ Raw(got') \in Copies /\ Content \in Copies
  BY <1>1, RawTypes DEF Copies, Content
<1>3. CASE Create
  BY <1>1, <1>2, <1>3, DiskEdits DEF Create
<1>4. CASE TooBigLine
  BY <1>1, <1>2, <1>4, DiskEdits DEF TooBigLine
<1>5. CASE Data
  BY <1>1, <1>2, <1>5, DiskEdits DEF Data
<1>6. CASE Refuse \/ Restore
  BY <1>1, <1>6, DiskEdits DEF Refuse, Restore
<1>7. CASE Spool \/ SpoolShort
  BY <1>1, <1>7, DiskEdits DEF Spool, SpoolShort
<1>8. CASE Unpack \/ UnpackFails
  BY <1>1, <1>8, DiskEdits DEF Unpack, UnpackFails
<1>9. CASE Swap
  <2>1. disk' = Unpacked(disk, IF resp.disk THEN "page" ELSE disk.sav)
    BY <1>1, <1>9 DEF Swap, Unpacked, Disks
  <2> QED BY <1>1, <1>2, <2>1, DiskEdits
<1>10. CASE SwapFails
  <2>1. \/ disk' = [disk EXCEPT !.z = "none"]
        \/ disk' = Unfiled(disk, "none")
        \/ disk' = [disk EXCEPT !.z = "none", !.u = "none"]
    BY <1>10 DEF SwapFails, Unfiled
  <2> QED BY <1>1, <1>2, <2>1, DiskEdits
<1>11. CASE Commit
  BY <1>1, <1>11, DiskEdits DEF Commit
<1>12. CASE Save
  BY <1>1, <1>2, <1>12, DiskEdits DEF Save
<1>13. CASE Release
  BY <1>1, <1>13, DiskEdits DEF Release
<1>14. CASE Purge
  BY <1>1, <1>2, <1>14, DiskEdits DEF Purge
<1>15. ASSUME \/ CreateFails \/ SizeLine \/ LastLine \/ BadLine \/ DataEnd \/ Trailers
              \/ EndOfStream \/ ReadFails \/ Accept \/ SpoolFails \/ Verdict \/ Invalid
              \/ NotSaved \/ Done \/ UNCHANGED bodyVars
       PROVE  disk' = disk
  BY <1>15 DEF CreateFails, SizeLine, LastLine, BadLine, DataEnd, Trailers, EndOfStream,
     ReadFails, Accept, SpoolFails, Verdict, Invalid, NotSaved, Done, bodyVars
<1> QED BY <1>1, <1>3, <1>4, <1>5, <1>6, <1>7, <1>8, <1>9, <1>10, <1>11, <1>12, <1>13,
           <1>14, <1>15 DEF BodyNext, Decode, Finalize

LEMMA TypeStep == BodyType /\ [BodyNext]_bodyVars => BodyType'
<1> SUFFICES ASSUME BodyType, [BodyNext]_bodyVars PROVE BodyType'
  OBVIOUS
<1>1. LineType' /\ disk' \in Disks
  BY LineTypeStep, DiskStep
<1>2. resp' = resp /\ body' = body
  BY DEF BodyNext, Decode, Finalize, Create, CreateFails, SizeLine, LastLine, TooBigLine, BadLine,
         DataEnd, Trailers, Data, EndOfStream, ReadFails, Refuse, Accept, Spool, SpoolFails,
         SpoolShort, Unpack, UnpackFails, Swap, SwapFails, Commit, Restore, Verdict, Invalid,
         Save, NotSaved, Release, Purge, Done, bodyVars, given, KeepBody
<1>3. /\ \A g : Raw(g) \in Copies
      /\ disk.sav \in Copies /\ Content \in Copies
      /\ {"none", "page"} \subseteq Copies
  BY RawTypes DEF BodyType, Disks, Copies, Content
<1>4. \A d : Note(d) \subseteq Marks
  BY DEF Note, Marks
<1> USE <1>1, <1>2 DEF BodyType, Codes, Marks, Steps
<1>6. CASE Create \/ CreateFails
  BY <1>6 DEF Create, CreateFails
<1>7. CASE SizeLine \/ LastLine \/ DataEnd \/ Trailers \/ BadLine
  BY <1>7 DEF SizeLine, LastLine, DataEnd, Trailers, BadLine, KeepBody
<1>8. CASE TooBigLine \/ EndOfStream \/ ReadFails
  BY <1>8 DEF TooBigLine, EndOfStream, ReadFails, KeepBody
<1>9. CASE Data
  BY <1>9 DEF Data
<1>10. CASE Refuse
  <2>1. marks' \subseteq Marks
    BY <1>4, <1>10 DEF Refuse
  <2> QED BY <1>10, <2>1 DEF Refuse
<1>11. CASE Accept
  BY <1>11 DEF Accept
<1>12. CASE Spool \/ SpoolFails \/ SpoolShort
  BY <1>4, <1>12 DEF Spool, SpoolFails, SpoolShort
<1>13. CASE Unpack \/ UnpackFails
  BY <1>4, <1>13 DEF Unpack, UnpackFails
<1>14. CASE Swap \/ SwapFails
  BY <1>4, <1>14 DEF Swap, SwapFails
<1>15. CASE Commit
  <2>1. entry' \in Copies
    BY <1>3, <1>15 DEF Commit
  <2> QED BY <1>15, <2>1 DEF Commit
<1>16. CASE Restore
  BY <1>4, <1>16 DEF Restore
<1>17. CASE Verdict \/ Invalid
  BY <1>17 DEF Verdict, Invalid
<1>18. CASE Save \/ NotSaved
  BY <1>18 DEF Save, NotSaved
<1>19. CASE Release \/ Purge
  BY <1>19 DEF Release, Purge
<1>20. CASE Done \/ UNCHANGED bodyVars
  BY <1>20 DEF Done, bodyVars
<1> HIDE DEF BodyType, Codes, Marks, Steps
<1> QED BY <1>6, <1>7, <1>8, <1>9, <1>10, <1>11, <1>12, <1>13, <1>14, <1>15, <1>16,
           <1>17, <1>18, <1>19, <1>20 DEF BodyNext, Decode, Finalize

-----------------------------------------------------------------------------
(* The chunk decoder.  Where it is in the stream, until a line is found to be *)
(* wrong; then no state of it takes the last line for due.                   *)

AllBytes(g) == \A i \in 1 .. Len(g) : g[i] = Byte
Owed == total - Len(got)
InData ==
    /\ bodyStatus \in {"data", "cr"} /\ blocksize # -1
    /\ total \in Nat /\ Len(got) <= total
    /\ bodyStatus = "cr" => total = Len(got)

\* In front of a size line, or in the data of a chunk; k chunks are to come.
AtLine(cs, t, k) ==
    /\ bodyStatus = "wait" /\ blocksize # -1
    /\ Announced = Len(got) /\ Announced + Lengths(cs)[k] = body
    /\ Coming(wire, 0, Streams(cs, t)[k])
AtData(cs, t, k) ==
    /\ InData /\ total + Lengths(cs)[k] = body
    /\ Follows(wire, 0, Owed, Streams(cs, t)[k])
OnTrack == \E cs, t, k : /\ Remains(cs, t, k) /\ AllBytes(got)
                         /\ AtLine(cs, t, k) \/ AtData(cs, t, k)
Astray ==
    \/ bodyStatus = "wait" /\ blocksize # -1 /\ wire = <<>>
    \/ InData /\ Misses(wire, 0, Owed)

Reading == step \in {"open", "body"}
Decoder ==
    /\ resp.framing = "chunked" =>
         /\ Reading /\ blocksize # -1 => OnTrack \/ Astray
         /\ blocksize = -1 => Whole(got) /\ (Reading => bodyStatus = "cr")
    /\ resp.framing # "chunked" =>
         /\ bodyStatus \in {"data", "ready"} /\ blocksize = 0
         /\ total = IF resp.framing = "length" THEN body ELSE -1
         /\ AllBytes(got) /\ (Reading => AllBytes(wire))

LEMMA WholeIs ==
    ASSUME NEW g \in Seq(Units), body \in Nat, AllBytes(g), Len(g) = body
    PROVE  Whole(g)
<1>1. g = [i \in 1 .. Len(g) |-> g[i]]
  OBVIOUS
<1> QED BY <1>1 DEF AllBytes, Whole, Bytes

\* v is what is left of w once its first m units are read.
LeftOf(w, v, m) ==
    /\ w \in Seq(Units) /\ v \in Seq(Units) /\ m \in Nat /\ m <= Len(w)
    /\ Len(v) = Len(w) - m /\ \A i \in 1 .. Len(w) - m : v[i] = w[m + i]

LEMMA LeftIs ==
    ASSUME NEW w, NEW v, NEW m, LeftOf(w, v, m)
    PROVE  /\ m \in Nat /\ Len(w) \in Nat /\ Len(v) \in Nat /\ Len(v) = Len(w) - m
           /\ \A i \in 1 .. Len(w) - m : v[i] = w[m + i]
  BY DEF LeftOf

LEMMA LeftAt ==
    ASSUME NEW w, NEW v, NEW m, LeftOf(w, v, m), NEW i \in 1 .. Len(w) - m
    PROVE  v[i] = w[m + i]
  BY DEF LeftOf

\* The same units, seen from further on.
LEMMA Shifted ==
    ASSUME NEW w, NEW v, NEW m, LeftOf(w, v, m), NEW o \in Nat, NEW e \in Nat, o = m + e,
           o <= Len(w), NEW s \in Seq(Units), Coming(w, o, s)
    PROVE  Coming(v, e, s)
<1>1. /\ m \in Nat /\ Len(w) \in Nat /\ Len(v) \in Nat /\ Len(s) \in Nat
      /\ Len(v) - e = Len(w) - o
  BY LeftIs
<1>2. ASSUME NEW i \in 1 .. Len(w) - o PROVE v[e + i] = w[o + i]
  <2>1. PICK f \in 1 .. Len(w) - m : f = e + i /\ m + f = o + i
    BY <1>1
  <2>2. v[f] = w[m + f]
    BY LeftIs
  <2> QED BY <2>1, <2>2
<1>3. CASE CutOff(w, o, s)
  BY <1>1, <1>2, <1>3 DEF CutOff, Coming
<1>4. CASE Marred(w, o, s)
  <2>1. PICK j \in 1 .. Len(s) : /\ Spoils(w[o + j], s[j])
                                 /\ \A i \in 1 .. Len(s) : i # j => w[o + i] = s[i]
    BY <1>4 DEF Marred
  <2>2. Len(w) - o = Len(s)
    BY <1>4 DEF Marred
  <2>3. \A i \in 1 .. Len(s) : v[e + i] = w[o + i]
    BY <1>2, <2>2
  <2>4. Len(v) - e = Len(s)
    BY <1>1, <2>2
  <2> QED BY <2>1, <2>3, <2>4 DEF Marred, Coming
<1> QED BY <1>3, <1>4 DEF Coming

\* The same place, seen from the wire and from what is left of it.
LEMMA MissesShifted ==
    ASSUME NEW w, NEW v, NEW m, LeftOf(w, v, m), NEW o \in Nat, NEW n \in Nat,
           Misses(w, o, n), NEW p \in Nat, NEW q \in Nat, m + (p + q) = o + n
    PROVE  Misses(v, p, q)
<1>1. m \in Nat /\ Len(w) \in Nat /\ Len(v) \in Nat /\ Len(v) = Len(w) - m
  BY LeftIs
<1> SUFFICES ASSUME Len(v) > p + q + 1 PROVE v[p + q + 1] # Blank
  BY DEF Misses
<1> PICK e \in Nat : e = o + n + 1
  OBVIOUS
<1> PICK f \in Nat : f = p + q + 1
  OBVIOUS
<1>2. Len(w) > o + n + 1 /\ m + f = e /\ f \in 1 .. Len(w) - m
  BY <1>1
<1>3. w[e] # Blank
  BY <1>2 DEF Misses
<1>4. v[f] = w[m + f]
  BY <1>2, LeftIs
<1> QED BY <1>2, <1>3, <1>4

LEMMA FollowsShifted ==
    ASSUME NEW w, NEW v, NEW m, LeftOf(w, v, m), NEW o \in Nat, NEW n \in Nat,
           NEW s \in Seq(Units), Follows(w, o, n, s),
           NEW p \in Nat, NEW q \in Nat, m + (p + q) = o + n, p + m >= o
    PROVE  Follows(v, p, q, s)
<1>1. m \in Nat /\ Len(w) \in Nat /\ Len(v) \in Nat /\ Len(v) = Len(w) - m
  BY LeftIs
<1>2. ASSUME NEW i \in 1 .. q, p + i <= Len(v) PROVE v[p + i] = Byte
  <2> PICK f \in Nat : f = p + i
    BY <1>2
  <2>1. f \in 1 .. Len(w) - m
    BY <1>1, <1>2
  <2>2. PICK j \in Int : j = m + f - o
    BY <1>1
  <2>3. j \in 1 .. n /\ o + j <= Len(w) /\ o + j = m + f
    BY <1>1, <1>2, <2>1, <2>2
  <2>4. w[o + j] = Byte
    BY <2>3 DEF Follows
  <2>5. v[f] = w[m + f]
    BY <2>1, LeftAt
  <2> QED BY <2>3, <2>4, <2>5
<1>3. ASSUME Len(v) > p + q PROVE v[p + q + 1] = Blank /\ Coming(v, p + q + 1, s)
  <2> PICK e \in Nat : e = o + n + 1
    OBVIOUS
  <2> PICK f \in Nat : f = p + q + 1
    OBVIOUS
  <2>1. Len(w) > o + n /\ e = m + f /\ f \in 1 .. Len(w) - m /\ e <= Len(w)
    BY <1>1, <1>3
  <2>2. w[e] = Blank /\ Coming(w, e, s)
    BY <2>1 DEF Follows
  <2>3. v[f] = w[m + f]
    BY <2>1, LeftAt
  <2>4. Coming(v, f, s)
    BY <2>1, <2>2, Shifted
  <2> QED BY <2>1, <2>2, <2>3, <2>4
<1> QED BY <1>2, <1>3 DEF Follows

LEMMA InitDecoder == BodyInit => Decoder
<1> SUFFICES ASSUME BodyInit PROVE Decoder
  OBVIOUS
<1>1. /\ got = <<>> /\ blocksize = 0
      /\ bodyStatus = IF resp.framing = "chunked" THEN "wait" ELSE "data"
      /\ total = IF resp.framing = "length" THEN body ELSE -1
  BY DEF BodyInit
<1>2. Len(got) = 0 /\ AllBytes(got)
  BY <1>1 DEF AllBytes
<1>3. CASE resp.framing = "chunked"
  <2>1. PICK cs \in ChunkLists, t \in 0 .. 1 :
           /\ body = Lengths(cs)[Len(cs)]
           /\ Coming(wire, 0, Streams(cs, t)[Len(cs)])
    BY <1>3, WireComes
  <2>2. Remains(cs, t, Len(cs)) /\ body \in Nat
    BY ChunksType, WireComes DEF Remains
  <2>3. Announced = 0
    BY <1>1, <1>3 DEF Announced
  <2>4. AtLine(cs, t, Len(cs))
    BY <1>1, <1>2, <1>3, <2>1, <2>2, <2>3 DEF AtLine
  <2> QED BY <1>1, <1>2, <1>3, <2>2, <2>4 DEF Decoder, OnTrack
<1>4. CASE resp.framing # "chunked"
  BY <1>1, <1>2, <1>4, WireComes DEF Decoder, AllBytes
<1> QED BY <1>3, <1>4

\* In front of a line that is a size or the last, the decoder is on track.
LEMMA LineDue ==
    ASSUME BodyType, Decoder, Reading, ReadsLine("wait"), Line.kind \in {"size", "last"}
    PROVE  /\ resp.framing = "chunked" /\ blocksize # -1
           /\ Line = wire[1] /\ wire # <<>>
           /\ wire' \in Seq(Units) /\ Len(wire') = Len(wire) - 1
           /\ \A i \in 1 .. Len(wire) - 1 : wire'[i] = wire[1 + i]
           /\ AllBytes(got) /\ Announced = Len(got)
           /\ \E cs, t, k : Remains(cs, t, k) /\ AtLine(cs, t, k)
<1>1. bodyStatus = "wait" /\ Ends # {} /\ wire' = AfterLine
  BY DEF ReadsLine
<1>2. resp.framing = "chunked" /\ blocksize # -1
  BY <1>1 DEF Decoder
<1>3. wire \in Seq(Units)
  BY DEF BodyType, LineType
<1>4. Line # Junk
  BY UnitsApart
<1>5. /\ Line = wire[1] /\ wire # <<>> /\ wire' \in Seq(Units) /\ Len(wire') = Len(wire) - 1
      /\ \A i \in 1 .. Len(wire) - 1 : wire'[i] = wire[1 + i]
  BY <1>1, <1>3, <1>4, LineIs
<1>6. ~Astray
  BY <1>1, <1>5 DEF Astray, InData
<1>7. OnTrack
  BY <1>2, <1>6 DEF Decoder
<1>8. PICK cs, t, k : Remains(cs, t, k) /\ AllBytes(got) /\ AtLine(cs, t, k)
  BY <1>1, <1>7 DEF OnTrack, AtData, InData
<1> QED BY <1>2, <1>5, <1>8 DEF AtLine

LEMMA SizeDecoded ==
    ASSUME BodyType, Decoder, SizeLine
    PROVE  Decoder'
<1>1. /\ ReadsLine("wait") /\ Line.kind = "size" /\ Reading /\ step' = "body"
      /\ blocksize' = Line.n /\ total' = Announced + Line.n /\ bodyStatus' = "data"
      /\ resp' = resp /\ body' = body /\ got' = got
  BY DEF SizeLine, ReadsLine, KeepBody, given, Reading
<1>2. /\ resp.framing = "chunked"
      /\ Line = wire[1] /\ wire # <<>>
      /\ wire' \in Seq(Units) /\ Len(wire') = Len(wire) - 1
      /\ \A i \in 1 .. Len(wire) - 1 : wire'[i] = wire[1 + i]
      /\ AllBytes(got) /\ Announced = Len(got)
  BY <1>1, LineDue
<1>3. PICK cs, t, k : Remains(cs, t, k) /\ AtLine(cs, t, k)
  BY <1>1, LineDue
<1>4. wire \in Seq(Units) /\ Len(wire) \in Nat /\ Len(wire) >= 1 /\ Len(got) \in Nat
  BY <1>2 DEF BodyType, LineType
<1>5. Coming(wire, 0, Streams(cs, t)[k])
  BY <1>3 DEF AtLine
<1>6. wire[1] # Junk /\ wire[1] # Final
  BY <1>1, <1>2, UnitsApart
<1>7. ASSUME NEW n \in Nat, wire[1] = Unit("size", n)
      PROVE  Line.n = n /\ InData' /\ Owed' = n /\ blocksize' # -1
  <2>1. Line.n = n
    BY <1>2, <1>7, UnitsApart
  <2>2. total' = Len(got) + n
    BY <1>1, <1>2, <2>1
  <2> QED BY <1>1, <1>4, <2>1, <2>2 DEF InData, Owed
<1>0. LeftOf(wire, wire', 1)
  BY <1>2, <1>4 DEF LeftOf
<1>8. ASSUME NEW n \in Nat, wire[1] = Unit("size", n), Misses(wire, 1, n)
      PROVE  Astray'
  <2>1. InData' /\ Owed' = n
    BY <1>7, <1>8
  <2>2. 1 \in Nat /\ 0 \in Nat /\ 1 + (0 + n) = 1 + n
    OBVIOUS
  <2>3. Misses(wire', 0, n)
    BY <1>8, <1>0, <2>2, MissesShifted
  <2> QED BY <2>1, <2>3 DEF Astray
<1>9. CASE k = 0
  <2>1. \E n \in Nat : wire[1] = Unit("size", n) /\ Misses(wire, 1, n)
    BY <1>2, <1>3, <1>4, <1>5, <1>6, <1>9, ClosingComes
  <2> QED BY <1>1, <1>2, <1>7, <1>8, <2>1 DEF Decoder
<1>10. CASE k # 0 /\ wire[1] = Unit("size", cs[k])
                  /\ Follows(wire, 1, cs[k], Streams(cs, t)[k - 1])
  <2>1. /\ cs[k] \in Nat /\ Remains(cs, t, k - 1) /\ Streams(cs, t)[k - 1] \in Seq(Units)
        /\ Lengths(cs)[k] = cs[k] + Lengths(cs)[k - 1]
        /\ Lengths(cs)[k] \in Nat /\ Lengths(cs)[k - 1] \in Nat
    BY <1>3, <1>10, StreamChunk
  <2>2. InData' /\ Owed' = cs[k] /\ Line.n = cs[k] /\ blocksize' # -1
    BY <1>7, <1>10, <2>1
  <2>4. Follows(wire', 0, cs[k], Streams(cs, t)[k - 1])
    <3> PICK s \in Seq(Units), n \in Nat : s = Streams(cs, t)[k - 1] /\ n = cs[k]
      BY <2>1
    <3>1. 1 \in Nat /\ 0 \in Nat /\ 1 + (0 + n) = 1 + n /\ 0 + 1 >= 1
      OBVIOUS
    <3>2. Follows(wire, 1, n, s)
      BY <1>10
    <3>3. Follows(wire', 0, n, s)
      BY <1>0, <3>1, <3>2, FollowsShifted
    <3> QED BY <3>3
  <2>5. total' + Lengths(cs)[k - 1] = body'
    <3>1. Len(got) + Lengths(cs)[k] = body
      BY <1>2, <1>3 DEF AtLine
    <3>2. total' = Len(got) + cs[k] /\ body' = body
      BY <1>1, <1>2, <2>2
    <3> QED BY <1>4, <2>1, <3>1, <3>2
  <2>6. AtData(cs, t, k - 1)'
    BY <2>2, <2>4, <2>5 DEF AtData
  <2>7. OnTrack'
    BY <1>1, <1>2, <2>1, <2>6 DEF OnTrack, AllBytes
  <2> QED BY <1>1, <1>2, <2>2, <2>7 DEF Decoder
<1>11. CASE k # 0 /\ \E n \in Nat : wire[1] = Unit("size", n) /\ Misses(wire, 1, n)
  BY <1>1, <1>2, <1>7, <1>8, <1>11 DEF Decoder
<1> QED BY <1>2, <1>3, <1>4, <1>5, <1>6, <1>9, <1>10, <1>11, ChunkComes

LEMMA LastDecoded ==
    ASSUME BodyType, Decoder, LastLine
    PROVE  Decoder'
<1>1. /\ ReadsLine("wait") /\ Line.kind = "last" /\ Reading
      /\ blocksize' = -1 /\ bodyStatus' = "cr"
      /\ resp' = resp /\ body' = body /\ got' = got
  BY DEF LastLine, ReadsLine, KeepBody, given, Reading
<1>2. /\ resp.framing = "chunked"
      /\ Line = wire[1] /\ wire # <<>>
      /\ AllBytes(got) /\ Announced = Len(got)
  BY <1>1, LineDue
<1>3. PICK cs, t, k : Remains(cs, t, k) /\ AtLine(cs, t, k)
  BY <1>1, LineDue
<1>4. wire \in Seq(Units) /\ got \in Seq(Units) /\ body \in Nat
  BY DEF BodyType, LineType
<1>5. Coming(wire, 0, Streams(cs, t)[k])
  BY <1>3 DEF AtLine
<1>6. wire[1] # Junk /\ \A n : wire[1] # Unit("size", n)
  BY <1>1, <1>2, UnitsApart
<1>7. k = 0
  BY <1>2, <1>3, <1>4, <1>5, <1>6, ChunkComes
<1>8. Len(got) = body
  <2>1. Lengths(cs)[0] = 0
    BY <1>3, LengthsAre DEF Remains
  <2> QED BY <1>2, <1>3, <1>4, <1>7, <2>1 DEF AtLine
<1>9. Whole(got)
  BY <1>2, <1>4, <1>8, WholeIs
<1>10. Whole(got)'
  BY <1>1, <1>9 DEF Whole
<1> QED BY <1>1, <1>2, <1>10 DEF Decoder

LEMMA EndDecoded ==
    ASSUME BodyType, Decoder, DataEnd
    PROVE  Decoder'
<1>1. /\ step = "body" /\ bodyStatus = "cr" /\ Ends # {} /\ wire' = AfterLine /\ Reading
      /\ blocksize # -1 /\ Line = Blank /\ bodyStatus' = "wait"
      /\ resp' = resp /\ body' = body /\ got' = got
      /\ blocksize' = blocksize /\ total' = total
  BY DEF DataEnd, ReadsLine, KeepBody, given, Reading
<1>2. wire \in Seq(Units) /\ Len(wire) \in Nat /\ Len(got) \in Nat
  BY DEF BodyType, LineType
<1>3. resp.framing = "chunked"
  BY <1>1 DEF Decoder
<1>4. /\ wire[1] = Blank /\ wire # <<>> /\ wire' \in Seq(Units)
      /\ Len(wire') = Len(wire) - 1
      /\ \A i \in 1 .. Len(wire) - 1 : wire'[i] = wire[1 + i]
  BY <1>1, <1>2, LineIs, UnitsApart
<1>5. Len(wire) >= 1
  BY <1>2, <1>4
<1>6. CASE Astray
  <2>1. Owed = 0 /\ Misses(wire, 0, 0)
    BY <1>1, <1>2, <1>6 DEF Astray, InData, Owed
  <2>2. Len(wire) = 1
    BY <1>2, <1>4, <1>5, <2>1 DEF Misses
  <2>3. wire' = <<>>
    BY <1>4, <2>2
  <2> QED BY <1>1, <1>3, <2>3 DEF Decoder, Astray
<1>7. CASE OnTrack
  <2>1. PICK cs, t, k : Remains(cs, t, k) /\ AllBytes(got) /\ AtData(cs, t, k)
    BY <1>1, <1>7 DEF OnTrack, AtLine
  <2>2. Owed = 0 /\ total = Len(got) /\ total \in Nat
    BY <1>1, <1>2, <2>1 DEF AtData, InData, Owed
  <2>3. Coming(wire, 1, Streams(cs, t)[k])
    BY <1>2, <1>5, <2>1, <2>2 DEF AtData, Follows
  <2>4. Streams(cs, t)[k] \in Seq(Units)
    BY <2>1, StreamHead
  <2>5. Coming(wire', 0, Streams(cs, t)[k])
    <3>1. LeftOf(wire, wire', 1)
      BY <1>2, <1>4, <1>5 DEF LeftOf
    <3>2. 1 \in Nat /\ 0 \in Nat /\ 1 = 1 + 0
      OBVIOUS
    <3> QED BY <1>5, <2>3, <2>4, <3>1, <3>2, Shifted
  <2>6. Announced' = Len(got) /\ Announced' + Lengths(cs)[k] = body
    BY <1>1, <2>1, <2>2 DEF Announced, AtData
  <2>7. AtLine(cs, t, k)'
    BY <1>1, <2>5, <2>6 DEF AtLine
  <2>8. OnTrack'
    BY <1>1, <2>1, <2>7 DEF OnTrack, AllBytes
  <2> QED BY <1>1, <1>3, <2>8 DEF Decoder
<1> QED BY <1>1, <1>3, <1>6, <1>7 DEF Decoder

LEMMA DataDecoded ==
    ASSUME BodyType, Decoder, Data
    PROVE  Decoder'
<1>1. /\ step = "body" /\ step' = "body" /\ Reading /\ bodyStatus = "data"
      /\ resp' = resp /\ body' = body /\ blocksize' = blocksize /\ total' = total
      /\ bodyStatus' = IF resp.framing = "chunked" /\ Len(got') = total THEN "cr" ELSE "data"
      /\ total < 0 \/ Len(got) # total
  BY DEF Data, given, Reading
<1>2. PICK m \in 1 .. Len(wire) : /\ m <= Room
                                  /\ got' = got \o SubSeq(wire, 1, m)
                                  /\ wire' = SubSeq(wire, m + 1, Len(wire))
  BY DEF Data
<1>3. /\ wire \in Seq(Units) /\ Len(wire) \in Nat /\ got \in Seq(Units) /\ Len(got) \in Nat
      /\ m \in 0 .. Len(wire) /\ m \in Nat
  BY DEF BodyType, LineType
<1>4. /\ wire' \in Seq(Units) /\ Len(wire') = Len(wire) - m
      /\ \A i \in 1 .. Len(wire) - m : wire'[i] = wire[m + i]
  BY <1>2, <1>3, DropIs
<1>10. LeftOf(wire, wire', m)
  BY <1>3, <1>4 DEF LeftOf
<1>5. PICK d \in Seq(Units) : /\ d = SubSeq(wire, 1, m) /\ Len(d) = m
                              /\ \A i \in 1 .. m : d[i] = wire[i]
  BY <1>3, TakeIs
<1>6. /\ got' = got \o d /\ Len(got') = Len(got) + m
      /\ \A i \in 1 .. Len(got) : got'[i] = got[i]
      /\ \A i \in 1 .. m : got'[Len(got) + i] = wire[i]
  BY <1>2, <1>3, <1>5, JoinIs
<1>7. ASSUME AllBytes(got), \A i \in 1 .. m : wire[i] = Byte
      PROVE  AllBytes(got)'
  <2> SUFFICES ASSUME NEW i \in 1 .. Len(got') PROVE got'[i] = Byte
    BY DEF AllBytes
  <2>1. CASE i <= Len(got)
    BY <1>3, <1>6, <1>7, <2>1 DEF AllBytes
  <2>2. CASE i > Len(got)
    <3>1. i - Len(got) \in 1 .. m /\ i = Len(got) + (i - Len(got))
      BY <1>3, <1>6, <2>2
    <3> QED BY <1>6, <1>7, <3>1
  <2> QED BY <1>3, <2>1, <2>2
<1>8. CASE resp.framing # "chunked"
  <2>1. AllBytes(got) /\ AllBytes(wire)
    BY <1>1, <1>8 DEF Decoder
  <2>2. AllBytes(got)'
    BY <1>3, <1>7, <2>1 DEF AllBytes
  <2>3. ASSUME NEW i \in 1 .. Len(wire') PROVE wire'[i] = Byte
    <3>1. m + i \in 1 .. Len(wire) /\ i \in 1 .. Len(wire) - m
      BY <1>3, <1>4
    <3> QED BY <1>4, <2>1, <3>1 DEF AllBytes
  <2> QED BY <1>1, <1>8, <2>2, <2>3 DEF Decoder, AllBytes
<1>9. CASE resp.framing = "chunked"
  <2>1. blocksize # -1
    BY <1>1, <1>9 DEF Decoder
  <2>2. InData
    BY <1>1, <1>9, <2>1 DEF Decoder, OnTrack, Astray, AtLine, AtData
  <2>3. Owed \in Nat /\ m <= Owed
    BY <1>2, <1>3, <1>9, <2>2 DEF InData, Owed, Room
  <2>4. Owed' = Owed - m /\ Owed' \in Nat
    BY <1>1, <1>3, <1>6, <2>2, <2>3 DEF Owed, InData
  <2>5. InData'
    BY <1>1, <1>3, <1>6, <1>9, <2>1, <2>2, <2>3 DEF Owed, InData
  <2>6. CASE Astray
    <3>1. Misses(wire, 0, Owed)
      BY <1>1, <2>6 DEF Astray
    <3>2. ASSUME NEW n \in Nat, n = Owed, NEW q \in Nat, q = Owed - m
          PROVE  Misses(wire', 0, q)
      <4>1. 0 \in Nat /\ m + (0 + q) = 0 + n
        BY <1>3, <3>2
      <4>2. Misses(wire, 0, n)
        BY <3>1, <3>2
      <4> QED BY <1>10, <4>1, <4>2, MissesShifted
    <3>3. Misses(wire', 0, Owed')
      BY <2>3, <2>4, <3>2
    <3> QED BY <1>1, <1>9, <2>1, <2>5, <3>3 DEF Decoder, Astray
  <2>7. CASE OnTrack
    <3>1. PICK cs, t, k : Remains(cs, t, k) /\ AllBytes(got) /\ AtData(cs, t, k)
      BY <1>1, <2>7 DEF OnTrack, AtLine
    <3>2. Follows(wire, 0, Owed, Streams(cs, t)[k])
      BY <3>1 DEF AtData
    <3>3. PICK s \in Seq(Units) : s = Streams(cs, t)[k]
      BY <3>1, StreamHead
    <3>4. PICK n \in Nat : n = Owed
      BY <2>3
    <3>5. m <= Len(wire) /\ m <= 0 + n
      BY <1>3, <2>3, <3>4
    <3>6. Follows(wire', 0, n - m, s)
      <4> PICK q \in Nat : q = n - m
        BY <1>3, <3>5
      <4>1. 0 \in Nat /\ m + (0 + q) = 0 + n /\ 0 + m >= 0
        BY <1>3
      <4>2. Follows(wire, 0, n, s)
        BY <3>2, <3>3, <3>4
      <4>3. Follows(wire', 0, q, s)
        BY <1>10, <4>1, <4>2, FollowsShifted
      <4> QED BY <4>3
    <3>7. AtData(cs, t, k)'
      BY <1>1, <2>4, <2>5, <3>1, <3>3, <3>4, <3>6 DEF AtData
    <3>8. AllBytes(got)'
      <4>1. ASSUME NEW i \in 1 .. m PROVE wire[i] = Byte
        <5>1. i \in 1 .. Owed /\ 0 + i <= Len(wire) /\ 0 + i = i
          BY <1>3, <2>3
        <5> QED BY <3>2, <5>1 DEF Follows
      <4> QED BY <1>7, <3>1, <4>1
    <3>9. OnTrack'
      BY <3>1, <3>7, <3>8 DEF OnTrack
    <3> QED BY <1>1, <1>9, <2>1, <3>9 DEF Decoder
  <2> QED BY <1>1, <1>9, <2>1, <2>6, <2>7 DEF Decoder
<1> QED BY <1>8, <1>9

\* The steps that read no more leave what was read.
LEMMA DecoderStep == BodyType /\ Decoder /\ [BodyNext]_bodyVars => Decoder'
<1> SUFFICES ASSUME BodyType, Decoder, [BodyNext]_bodyVars PROVE Decoder'
  OBVIOUS
<1>1. CASE Create \/ UNCHANGED bodyVars \/ Done
  <2>1. UNCHANGED <<line, given>> /\ (Reading' => Reading)
    BY <1>1 DEF Create, Reading, Done, bodyVars, line, given
  <2>2. UNCHANGED <<wire, bodyStatus, blocksize, total, got, resp, body>>
    BY <2>1 DEF line, given
  <2>3. /\ OnTrack' <=> OnTrack
        /\ Astray' <=> Astray
        /\ Whole(got)' <=> Whole(got)
        /\ AllBytes(got)' <=> AllBytes(got)
        /\ AllBytes(wire)' <=> AllBytes(wire)
    BY <2>2 DEF OnTrack, Astray, AtLine, AtData, InData, Announced, Owed, AllBytes, Whole
  <2> QED BY <2>1, <2>2, <2>3 DEF Decoder
<1>2. CASE SizeLine
  BY <1>2, SizeDecoded
<1>3. CASE LastLine
  BY <1>3, LastDecoded
<1>4. CASE DataEnd
  BY <1>4, EndDecoded
<1>5. CASE Data
  BY <1>5, DataDecoded
<1>6. CASE CreateFails \/ TooBigLine \/ BadLine \/ Trailers \/ EndOfStream \/ ReadFails
  <2>1. UNCHANGED <<resp, body, got>> /\ ~Reading'
    BY <1>6 DEF CreateFails, TooBigLine, BadLine, Trailers, EndOfStream, ReadFails, KeepBody,
                given, Reading
  <2>2. Whole(got)' <=> Whole(got)
    BY <2>1 DEF Whole
  <2>3. AllBytes(got)' <=> AllBytes(got)
    BY <2>1 DEF AllBytes
  <2>4. CASE resp.framing = "chunked"
    <3>1. blocksize' = -1 => blocksize = -1
      <4>1. CASE TooBigLine
        <5>1. Ends # {} /\ Line \in Units
          BY <4>1, LineIs DEF TooBigLine, ReadsLine, BodyType, LineType
        <5>2. blocksize' \in Nat
          BY <4>1, <5>1 DEF TooBigLine, Units
        <5> QED BY <5>2
      <4>2. CASE ~TooBigLine
        BY <1>6, <4>2 DEF CreateFails, BadLine, Trailers, EndOfStream, ReadFails
      <4> QED BY <4>1, <4>2
    <3> QED BY <2>1, <2>2, <2>4, <3>1 DEF Decoder
  <2>5. CASE resp.framing # "chunked"
    <3>1. bodyStatus = "data" \/ bodyStatus = "ready"
      BY <2>5 DEF Decoder
    <3>2. bodyStatus' = "ready" /\ blocksize' = blocksize /\ total' = total
      BY <1>6, <3>1 DEF CreateFails, TooBigLine, BadLine, Trailers, EndOfStream, ReadFails,
                        ReadsLine
    <3> QED BY <2>1, <2>3, <2>5, <3>2 DEF Decoder
  <2> QED BY <2>4, <2>5
<1>7. CASE Finalize \/ Verdict \/ Invalid \/ Save \/ NotSaved \/ Release \/ Purge
  <2>1. UNCHANGED <<line, given>> /\ ~Reading'
    BY <1>7 DEF Finalize, Refuse, Accept, Spool, SpoolFails, SpoolShort, Unpack,
                UnpackFails, Swap, SwapFails, Commit, Restore, Verdict, Invalid, Save,
                NotSaved, Release, Purge, Reading
  <2>2. UNCHANGED <<wire, bodyStatus, blocksize, total, got, resp, body>>
    BY <2>1 DEF line, given
  <2>3. (Whole(got)' <=> Whole(got)) /\ (AllBytes(got)' <=> AllBytes(got))
    BY <2>2 DEF Whole, AllBytes
  <2> QED BY <2>1, <2>2, <2>3 DEF Decoder
<1> QED BY <1>1, <1>2, <1>3, <1>4, <1>5, <1>6, <1>7 DEF BodyNext, Decode

\* A body that is neither cut nor short is the whole one, where its framing tells.
LEMMA UncutIsWhole ==
    ASSUME BodyType, Decoder, resp.framing # "close", ~Cut, ~Short
    PROVE  Whole(got)
<1>1. CASE resp.framing = "chunked"
  BY <1>1 DEF Cut, Decoder
<1>2. CASE resp.framing = "length"
  <2>1. AllBytes(got) /\ total = body
    BY <1>2 DEF Decoder
  <2>2. got \in Seq(Units) /\ body \in Nat /\ Len(got) = body
    BY <2>1 DEF BodyType, LineType, Short
  <2> QED BY <2>1, <2>2, WholeIs
<1> QED BY <1>1, <1>2 DEF BodyType, Responses

-----------------------------------------------------------------------------
(* The way out: what the slot says at each step.                             *)

Coded == resp.coded /\ got # <<>>
Taken == ~(Short \/ Cut) \/ resp.tolerant
Undoing == step \in {"spool", "unpack", "swap"}
Undone == IF Coded THEN "page" ELSE "raw"

Bearings ==
    /\ step \in {"open", "body", "judge"} =>
         /\ entry = "none" /\ code = "ok"
         /\ adr = IF resp.disk THEN "none" ELSE "raw"
         /\ "finalized" \notin marks /\ "overwritten" \notin marks
    /\ Reading => marks \subseteq {"noted"}
    /\ step = "open" => resp.disk /\ got = <<>>
    /\ "overwritten" \in marks => step \in {"release", "purge", "done"}
    /\ "unopened" \in marks => resp.disk /\ resp.coded /\ got = <<>>
    /\ "badLine" \in marks => Cut
    /\ Undoing => Coded
    /\ Undoing \/ step = "commit" => Taken /\ entry = "none"
    /\ Undoing \/ step \in {"commit", "verdict"} => "finalized" \in marks
    /\ step = "spool" => ~resp.disk
    /\ step \in {"spool", "swap"} \/ (step = "unpack" /\ disk.z # "part") => code = "ok"
    /\ step = "commit" => IF code = "ok" THEN ~resp.disk => adr = Undone
                          ELSE Coded /\ adr = "none"
    /\ step = "restore" => code = "toobig"
    /\ step = "restoreLate" => code \in {"failed", "io"}
    /\ step = "verdict" /\ ~Taken => code = "ok"
    /\ step = "verdict" /\ Taken /\ code = "ok" /\ ~resp.disk => adr = Undone
    /\ step = "take" /\ code = "ok" /\ ~resp.disk => adr \in {"none", Undone}
    /\ step = "take" /\ "finalized" \notin marks => code \in {"failed", "io"}

\* The page and its backup as the copy was found, or as the body is written.
Had == IF resp.had THEN "old" ELSE "none"
Untouched ==
    IF Direct THEN disk.sav = Raw(got) /\ disk.bak = Had /\ "noted" \in marks
    ELSE disk.sav = Had /\ disk.bak = "none"

Copied == resp.had /\ Framed /\ body > 0
Kept == "old" \in {disk.sav, disk.bak} \/ "page" \in {disk.sav, disk.u}
Accounted == "noted" \in marks \/ disk.sav = "none" \/ code = "toobig"
ToSave == code = "ok" /\ InMemory

CopyPlace ==
    /\ step = "open" => disk.sav = Had /\ disk.bak = "none"
    /\ step \in {"body", "judge", "spool", "unpack", "swap", "restoreLate"} => Untouched
    /\ step = "take" /\ "finalized" \notin marks => Untouched
    /\ step = "swap" => disk.u = "page" /\ Whole(got)
    /\ step = "restore" => /\ disk.bak = IF Direct THEN Had ELSE "none"
                           /\ ~Direct => disk.sav = Had
    /\ step = "commit" =>
         IF code # "ok" THEN disk.bak = "none" /\ (Copied => Kept /\ Accounted)
         ELSE IF Coded /\ resp.disk
              THEN disk.sav = "page" /\ disk.bak = "none" /\ "noted" \in marks
         ELSE Untouched
    /\ step \in {"verdict", "take", "release", "purge", "done"} =>
         /\ disk.bak = "none" \/ (step = "take" /\ "finalized" \notin marks)
         /\ Copied /\ "overwritten" \notin marks =>
              Kept \/ (step = "done" /\ code = "toobig")
    /\ Copied =>
         /\ step = "verdict" => Accounted \/ (Taken /\ ToSave)
         /\ step = "take" /\ "finalized" \in marks => Accounted \/ (ToSave /\ adr # "none")
         /\ step \in {"release", "purge"} /\ "overwritten" \notin marks => Accounted

Clean ==
    /\ "coded" \notin {disk.sav, disk.bak, entry}
    /\ Framed => entry # "part"

PageInv == BodyType /\ Decoder /\ Bearings /\ CopyPlace /\ Clean

-----------------------------------------------------------------------------
(* It is kept. *)

\* Once no more is read, what is said of the bytes stays.
LEMMA StillSaid ==
    ASSUME UNCHANGED <<line, given>>
    PROVE  /\ Cut' = Cut /\ Short' = Short /\ Taken' = Taken /\ Coded' = Coded
           /\ Undone' = Undone /\ Direct' = Direct /\ Had' = Had /\ Framed' = Framed
           /\ Whole(got)' = Whole(got) /\ Raw(got)' = Raw(got)
           /\ resp' = resp /\ body' = body /\ got' = got /\ total' = total
  BY DEF line, given, Cut, Short, Taken, Coded, Undone, Direct, Had, Framed, Whole, Raw

LEMMA Reads ==
    ASSUME Decode
    PROVE  /\ step = "body" /\ step' \in {"body", "judge", "restore", "take"}
           /\ resp' = resp /\ body' = body /\ entry' = entry /\ adr' = adr
           /\ marks' = marks \cup (IF BadLine THEN {"badLine"} ELSE {})
           /\ Direct' = Direct /\ Had' = Had
  BY DEF Decode, SizeLine, LastLine, TooBigLine, BadLine, DataEnd, Trailers, Data,
         EndOfStream, ReadFails, ReadsLine, KeepBody, given, Direct, Had

LEMMA BadLineCuts == ASSUME BodyType, Decoder, BadLine PROVE Cut'
<1>1. /\ bodyStatus \in {"wait", "cr"} /\ (bodyStatus = "cr" => blocksize # -1) /\ Reading
      /\ blocksize' = blocksize /\ resp' = resp
  BY DEF BadLine, ReadsLine, Reading, given
<1>2. resp.framing = "chunked" /\ blocksize # -1
  BY <1>1 DEF Decoder
<1> QED BY <1>1, <1>2 DEF Cut

LEMMA BearingsStep == BodyType /\ Decoder /\ Bearings /\ [BodyNext]_bodyVars => Bearings'
<1> SUFFICES ASSUME BodyType, Decoder, Bearings, [BodyNext]_bodyVars PROVE Bearings'
  OBVIOUS
<1> USE DEF Bearings, Reading, Undoing
<1>1. CASE Create
  BY <1>1, StillSaid DEF Create
<1>2. CASE CreateFails
  <2>1. resp' = resp /\ got' = got /\ "badLine" \notin marks'
    BY <1>2 DEF CreateFails, given
  <2> QED BY <1>2, <2>1 DEF CreateFails
<1>3. CASE Decode
  <2>1. /\ step = "body" /\ step' \in {"body", "judge", "restore", "take"}
        /\ resp' = resp /\ entry' = entry /\ adr' = adr
        /\ marks' = marks \cup (IF BadLine THEN {"badLine"} ELSE {})
    BY <1>3, Reads
  <2>2. /\ step' \in {"body", "judge"} => code' = code
        /\ step' = "restore" => code' = "toobig"
        /\ step' = "take" => code' \in {"failed", "io"}
        /\ step' = "body" => ~BadLine
    BY <1>3 DEF Decode, SizeLine, LastLine, TooBigLine, BadLine, DataEnd, Trailers, Data,
         EndOfStream, ReadFails, ReadsLine, KeepBody
  <2>3. BadLine => Cut'
    BY BadLineCuts
  <2> QED BY <2>1, <2>2, <2>3
<1>4. CASE Refuse
  <2>1. UNCHANGED <<line, given>> /\ ~Taken
    BY <1>4 DEF Refuse, Taken
  <2> QED BY <1>4, <2>1, StillSaid DEF Refuse, Note
<1>5. CASE Accept
  <2>1. UNCHANGED <<line, given>> /\ Taken
    BY <1>5 DEF Accept, Taken
  <2> QED BY <1>5, <2>1, StillSaid DEF Accept, Coded, Undone
<1>6. CASE Spool \/ SpoolFails \/ SpoolShort
  <2>1. UNCHANGED <<line, given>>
    BY <1>6 DEF Spool, SpoolFails, SpoolShort
  <2>2. CASE Spool
    BY <2>1, <2>2, StillSaid DEF Spool, BodyType, Disks
  <2>3. CASE SpoolFails
    BY <2>1, <2>3, StillSaid DEF SpoolFails, Note
  <2>4. CASE SpoolShort
    BY <2>1, <2>4, StillSaid DEF SpoolShort, BodyType, Disks
  <2> QED BY <1>6, <2>2, <2>3, <2>4
<1>7. CASE Unpack \/ UnpackFails
  <2>1. UNCHANGED <<line, given>>
    BY <1>7 DEF Unpack, UnpackFails
  <2>2. CASE Unpack
    BY <2>1, <2>2, StillSaid DEF Unpack, Decodes
  <2>3. CASE UnpackFails
    BY <2>1, <2>3, StillSaid DEF UnpackFails, Note
  <2> QED BY <1>7, <2>2, <2>3
<1>8. CASE Swap \/ SwapFails
  <2>1. UNCHANGED <<line, given>>
    BY <1>8 DEF Swap, SwapFails
  <2>2. CASE Swap
    BY <2>1, <2>2, StillSaid DEF Swap, Undone
  <2>3. CASE SwapFails
    BY <2>1, <2>3, StillSaid DEF SwapFails, Note
  <2> QED BY <1>8, <2>2, <2>3
<1>9. CASE Commit
  <2>1. UNCHANGED <<line, given>>
    BY <1>9 DEF Commit
  <2> QED BY <1>9, <2>1, StillSaid DEF Commit
<1>10. CASE Restore
  <2>1. UNCHANGED <<line, given>>
    BY <1>10 DEF Restore
  <2> QED BY <1>10, <2>1, StillSaid DEF Restore, Note
<1>11. CASE Verdict \/ Invalid
  <2>1. UNCHANGED <<line, given>>
    BY <1>11 DEF Verdict, Invalid
  <2> QED BY <1>11, <2>1, StillSaid DEF Verdict, Invalid, Taken
<1>12. CASE Save \/ NotSaved
  <2>1. UNCHANGED <<line, given>>
    BY <1>12 DEF Save, NotSaved
  <2> QED BY <1>12, <2>1, StillSaid DEF Save, NotSaved
<1>13. CASE Release \/ Purge
  <2>1. UNCHANGED <<line, given>>
    BY <1>13 DEF Release, Purge
  <2> QED BY <1>13, <2>1, StillSaid DEF Release, Purge
<1>14. CASE Done \/ UNCHANGED bodyVars
  <2>1. UNCHANGED bodyVars
    BY <1>14 DEF Done
  <2>2. UNCHANGED <<line, given>>
    BY <2>1 DEF bodyVars, line, given
  <2> QED BY <2>1, <2>2, StillSaid DEF bodyVars
<1> QED BY <1>1, <1>2, <1>3, <1>4, <1>5, <1>6, <1>7, <1>8, <1>9, <1>10, <1>11, <1>12,
           <1>13, <1>14 DEF BodyNext, Finalize

LEMMA InitWay == BodyInit => Bearings /\ CopyPlace /\ Clean
<1> SUFFICES ASSUME BodyInit PROVE Bearings /\ CopyPlace /\ Clean
  OBVIOUS
<1>1. /\ resp \in Responses /\ got = <<>> /\ code = "ok" /\ marks = {} /\ entry = "none"
      /\ adr = IF resp.disk THEN "none" ELSE "raw"
      /\ disk = [sav |-> Had, bak |-> "none", z |-> "none", u |-> "none"]
      /\ step = IF resp.disk THEN "open" ELSE "body"
  BY DEF BodyInit, Had
<1>2. resp.had \in BOOLEAN
  BY <1>1 DEF Responses
<1>3. Bearings
  BY <1>1 DEF Bearings, Reading, Undoing
<1>4. CopyPlace
  BY <1>1 DEF CopyPlace, Untouched, Direct
<1>5. Clean
  BY <1>1 DEF Clean, Had
<1> QED BY <1>3, <1>4, <1>5

\* What is taken for whole, when the framing or the coding tells, is whole.
LEMMA TakenIsWhole ==
    ASSUME BodyType, Decoder, Taken, Framed, ~Coded
    PROVE  Whole(got) /\ (got = <<>> => body = 0)
<1>1. ~Cut /\ ~Short /\ resp.framing # "close"
  BY DEF Taken, Framed, Coded
<1>2. Whole(got)
  BY <1>1, UncutIsWhole
<1>3. got = <<>> => body = 0
  <2> SUFFICES ASSUME got = <<>> PROVE body = 0
    OBVIOUS
  <2>1. body \in Nat /\ Bytes(body) = <<>>
    BY <1>2 DEF Whole, BodyType
  <2>2. Len(Bytes(body)) = body
    BY <2>1, UnitTypes
  <2> QED BY <2>1, <2>2
<1> QED BY <1>2, <1>3

LEMMA CopyStep ==
    ASSUME BodyType, Decoder, Bearings, CopyPlace, [BodyNext]_bodyVars
    PROVE  CopyPlace'
<1> USE DEF CopyPlace
<1>f. /\ disk \in [sav : Copies, bak : Copies, z : {"none", "coded", "part"},
                   u : {"none", "page"}]
      /\ resp.had \in BOOLEAN /\ resp.disk \in BOOLEAN /\ resp.coded \in BOOLEAN
      /\ body \in Nat
  BY DEF BodyType, Disks, Responses
<1>1. CASE Create
  <2>1. UNCHANGED <<line, given>> /\ step = "open" /\ step' = "body"
    BY <1>1 DEF Create
  <2>2. resp.disk /\ disk.sav = Had
    BY <2>1 DEF Bearings
  <2>3. Untouched'
    BY <1>1, <1>f, <2>1, <2>2, StillSaid DEF Create, Untouched, Direct
  <2> QED BY <2>1, <2>3
<1>2. CASE CreateFails
  <2>1. /\ resp' = resp /\ got' = got /\ disk' = disk /\ step = "open" /\ step' = "judge"
        /\ resp.coded /\ Direct' = Direct /\ Had' = Had
    BY <1>2 DEF CreateFails, given, Direct, Had
  <2>2. Untouched'
    BY <2>1 DEF Untouched, Direct
  <2> QED BY <2>1, <2>2
<1>3. CASE Decode
  <2>1. /\ step = "body" /\ step' \in {"body", "judge", "restore", "take"}
        /\ resp' = resp /\ body' = body
        /\ marks' = marks \cup (IF BadLine THEN {"badLine"} ELSE {})
        /\ Direct' = Direct /\ Had' = Had
    BY <1>3, Reads
  <2>2. Untouched /\ "finalized" \notin marks /\ "overwritten" \notin marks
    BY <2>1 DEF Bearings
  <2>3. CASE Data
    <3>1. disk' = IF Direct THEN [disk EXCEPT !.sav = Raw(got')] ELSE disk
      BY <2>3 DEF Data
    <3>2. Raw(got)' = Raw(got')
      BY <2>1 DEF Raw, Whole
    <3>3. Untouched'
      BY <1>f, <2>1, <2>2, <3>1, <3>2 DEF Untouched
    <3>4. step' = "body"
      BY <2>3 DEF Data
    <3> QED BY <3>3, <3>4
  <2>4. CASE TooBigLine
    <3>1. /\ disk' = IF Direct /\ disk.bak = "none" THEN [disk EXCEPT !.sav = "none"] ELSE disk
          /\ step' = "restore"
      BY <2>4 DEF TooBigLine
    <3> QED BY <1>f, <2>1, <2>2, <3>1 DEF Untouched
  <2>5. CASE ~Data /\ ~TooBigLine
    <3>1. disk' = disk /\ got' = got /\ step' \in {"body", "judge", "take"}
      BY <1>3, <2>5 DEF Decode, SizeLine, LastLine, BadLine, DataEnd, Trailers, EndOfStream,
                  ReadFails, ReadsLine, KeepBody
    <3>2. Raw(got)' = Raw(got)
      BY <2>1, <3>1 DEF Raw, Whole
    <3>3. Untouched'
      BY <2>1, <2>2, <3>1, <3>2 DEF Untouched
    <3>4. step' = "take" => code' \in {"failed", "io"} /\ marks' = marks
      BY <1>3, <2>5 DEF Decode, SizeLine, LastLine, BadLine, DataEnd, Trailers, EndOfStream,
                  ReadFails, ReadsLine, KeepBody
    <3>5. step' = "take" => disk.bak \in {"none", "old"}
                            /\ (resp.had => "old" \in {disk.sav, disk.bak})
      BY <2>2 DEF Untouched, Had
    <3>6. Copied' => resp.had
      BY <2>1 DEF Copied
    <3>7. "finalized" \notin marks' \/ step' # "take"
      BY <2>2, <3>4
    <3> QED BY <2>1, <2>2, <3>1, <3>3, <3>5, <3>6, <3>7 DEF Kept
  <2> QED BY <2>3, <2>4, <2>5
<1>4. CASE Refuse
  <2>1. UNCHANGED <<line, given>> /\ step = "judge" /\ step' = "verdict" /\ disk' = Restored(disk)
        /\ marks' = marks \cup Note(disk') \cup {"finalized"} /\ code' = code
    BY <1>4 DEF Refuse
  <2>2. Untouched
    BY <2>1
  <2>3. disk'.bak = "none" /\ (resp.had => disk'.sav = "old")
    BY <1>f, <2>1, <2>2 DEF Untouched, Restored, Had
  <2>4. disk'.sav # "none" => "noted" \in marks'
    BY <2>1 DEF Note
  <2> QED BY <2>1, <2>3, <2>4, StillSaid DEF Kept, Accounted, Copied
<1>5. CASE Accept
  <2>1. UNCHANGED <<line, given, disk, code>> /\ step = "judge"
        /\ step' \in {"commit", "unpack", "spool"}
        /\ marks' = marks \cup {"finalized"}
        /\ (step' = "commit" => ~Coded)
    BY <1>5 DEF Accept, Coded
  <2>2. Untouched /\ code = "ok"
    BY <2>1 DEF Bearings
  <2>3. Untouched'
    BY <2>1, <2>2, StillSaid DEF Untouched
  <2> QED BY <2>1, <2>2, <2>3, StillSaid
<1>6. CASE Spool \/ SpoolShort
  <2>1. UNCHANGED <<line, given, marks>> /\ step = "spool" /\ step' = "unpack"
        /\ disk' \in {[disk EXCEPT !.z = "coded"], [disk EXCEPT !.z = "part"]}
    BY <1>6 DEF Spool, SpoolShort
  <2>2. Untouched'
    BY <1>f, <2>1, StillSaid DEF Untouched
  <2> QED BY <2>1, <2>2
<1>7. CASE SpoolFails
  <2>1. UNCHANGED <<line, given, disk>> /\ step = "spool" /\ step' = "commit"
        /\ code' = "invalid" /\ marks' = marks \cup Note(disk)
    BY <1>7 DEF SpoolFails
  <2>2. Untouched /\ ~resp.disk
    BY <2>1 DEF Bearings
  <2>3. disk.bak = "none" /\ (resp.had => disk.sav = "old")
    BY <2>2 DEF Untouched, Had, Direct
  <2>4. disk.sav # "none" => "noted" \in marks'
    BY <2>1 DEF Note
  <2> QED BY <2>1, <2>3, <2>4, StillSaid DEF Kept, Accounted, Copied
<1>8. CASE Unpack
  <2>1. UNCHANGED <<line, given, marks>> /\ step = "unpack" /\ step' = "swap"
        /\ disk' = [disk EXCEPT !.u = "page"] /\ Whole(got)
    BY <1>8 DEF Unpack, Decodes
  <2>2. Untouched'
    BY <1>f, <2>1, StillSaid DEF Untouched
  <2> QED BY <1>f, <2>1, <2>2, StillSaid
<1>9. CASE UnpackFails
  <2>1. UNCHANGED <<line, given>> /\ step = "unpack" /\ step' = "commit"
        /\ code' \in {"invalid", "toobig"} /\ disk' = [disk EXCEPT !.z = "none"]
        /\ marks' = (IF code' = "invalid" THEN marks \cup Note(disk) ELSE marks)
    BY <1>9 DEF UnpackFails
  <2>2. Untouched /\ Coded
    BY <2>1 DEF Bearings, Undoing
  <2>3. disk.bak = "none" /\ (resp.had => disk.sav = "old")
    BY <2>2 DEF Untouched, Had, Direct, Coded
  <2>4. disk.sav # "none" => "noted" \in marks' \/ code' = "toobig"
    BY <2>1 DEF Note
  <2> QED BY <1>f, <2>1, <2>3, <2>4, StillSaid DEF Kept, Accounted, Copied
<1>10. CASE Swap
  <2>1. UNCHANGED <<line, given, code>> /\ step = "swap" /\ step' = "commit"
        /\ disk' = [disk EXCEPT !.z = "none", !.u = "none",
                                !.sav = IF resp.disk THEN "page" ELSE @]
        /\ marks' = IF resp.disk THEN marks \cup {"noted"} ELSE marks
    BY <1>10 DEF Swap
  <2>2. Untouched /\ Coded /\ code = "ok"
    BY <2>1 DEF Bearings, Undoing
  <2>3. disk.bak = "none" /\ ~Direct /\ disk.sav = Had
    BY <2>2 DEF Untouched, Direct, Coded
  <2>4. ~resp.disk => Untouched'
    BY <1>f, <2>1, <2>3, StillSaid DEF Untouched
  <2> QED BY <1>f, <2>1, <2>2, <2>3, <2>4, StillSaid
<1>11. CASE SwapFails
  <2>1. UNCHANGED <<line, given>> /\ step = "swap" /\ step' = "commit"
        /\ code' = "invalid" /\ marks' = marks \cup Note(disk')
        /\ \/ resp.disk /\ disk' \in {[disk EXCEPT !.z = "none"],
                                      [disk EXCEPT !.z = "none", !.sav = "none"]}
           \/ ~resp.disk /\ disk' = [disk EXCEPT !.z = "none", !.u = "none"]
    BY <1>11 DEF SwapFails
  <2>2. Untouched /\ Coded /\ disk.u = "page"
    BY <2>1 DEF Bearings, Undoing
  <2>3. disk.bak = "none" /\ (resp.had => disk.sav = "old")
    BY <2>2 DEF Untouched, Direct, Coded, Had
  <2>4. disk'.sav # "none" => "noted" \in marks'
    BY <2>1 DEF Note
  <2>5. disk'.bak = "none" /\ (resp.had => "old" = disk'.sav \/ "page" = disk'.u)
    BY <1>f, <2>1, <2>2, <2>3
  <2> QED BY <2>1, <2>4, <2>5, StillSaid DEF Kept, Accounted, Copied
<1>12. CASE Commit
  <2>1. UNCHANGED <<line, given, code, marks>> /\ step = "commit" /\ step' = "verdict"
        /\ disk' = [disk EXCEPT !.bak = "none"]
    BY <1>12 DEF Commit
  <2>2. Taken
    BY <2>1 DEF Bearings
  <2>3. /\ disk'.bak = "none" /\ disk'.sav = disk.sav /\ disk'.u = disk.u
    BY <1>f, <2>1
  <2>4. ASSUME Copied PROVE Kept' /\ (Accounted' \/ (Taken /\ ToSave))
    <3>1. CASE code # "ok"
      BY <2>1, <2>3, <2>4, <3>1 DEF Kept, Accounted
    <3>2. CASE code = "ok" /\ Coded /\ resp.disk
      BY <2>1, <2>3, <3>2 DEF Kept, Accounted
    <3>3. CASE code = "ok" /\ Coded /\ ~resp.disk
      BY <2>1, <2>2, <2>3, <2>4, <3>3
         DEF Untouched, Direct, Had, Copied, Kept, ToSave, InMemory
    <3>4. CASE code = "ok" /\ ~Coded
      <4>1. Whole(got) /\ got # <<>>
        BY <2>2, <2>4, <3>4, TakenIsWhole DEF Copied
      <4>2. ~resp.coded /\ Raw(got) = "page"
        BY <3>4, <4>1, RawTypes DEF Coded
      <4>3. Untouched
        BY <2>1, <3>4
      <4> QED BY <2>1, <2>2, <2>3, <2>4, <3>4, <4>2, <4>3
              DEF Untouched, Direct, Had, Copied, Kept, Accounted, ToSave, InMemory
    <3> QED BY <3>1, <3>2, <3>3, <3>4
  <2>5. (Copied' <=> Copied) /\ (Taken' <=> Taken) /\ (ToSave' <=> ToSave)
    BY <2>1, StillSaid DEF Copied, ToSave, InMemory
  <2> QED BY <2>1, <2>3, <2>4, <2>5
<1>13. CASE Restore
  <2>1. UNCHANGED <<line, given, code>> /\ step \in {"restore", "restoreLate"}
        /\ disk' = Restored(disk)
        /\ marks' = marks \cup {"finalized"}
                      \cup (IF code = "toobig" THEN {} ELSE Note(disk'))
        /\ step' = IF step = "restore" THEN "take" ELSE "release"
    BY <1>13 DEF Restore
  <2>2. /\ step = "restore" => code = "toobig"
        /\ "overwritten" \notin marks
    BY <2>1 DEF Bearings
  <2>3. disk'.bak = "none" /\ (resp.had => disk'.sav = "old")
    BY <1>f, <2>1 DEF Untouched, Restored, Had
  <2>4. disk'.sav # "none" => "noted" \in marks' \/ code' = "toobig"
    BY <2>1 DEF Note
  <2>5. Copied' => resp.had
    BY <2>1, StillSaid DEF Copied
  <2> QED BY <2>1, <2>2, <2>3, <2>4, <2>5 DEF Kept, Accounted
<1>14. CASE Verdict
  <2>1. UNCHANGED <<line, given, disk, marks>> /\ step = "verdict" /\ step' = "take"
    BY <1>14 DEF Verdict
  <2>2. "finalized" \in marks /\ "overwritten" \notin marks
    BY <2>1 DEF Bearings
  <2>3. Copied' <=> Copied
    BY <2>1, StillSaid DEF Copied
  <2>4. CASE Copied /\ Taken /\ ToSave
    <3>1. ~(Cut \/ Short) /\ code' = code /\ adr' = adr /\ Framed
      BY <1>14, <2>4 DEF Verdict, Copied, Framed, Taken
    <3>2. ToSave'
      BY <2>1, <2>4, <3>1, StillSaid DEF ToSave, InMemory
    <3>3. ~resp.disk
      <4>1. ASSUME "unopened" \in marks PROVE FALSE
        <5>1. got = <<>> /\ ~Coded
          BY <4>1 DEF Bearings, Coded
        <5>2. body = 0
          BY <2>4, <3>1, <5>1, TakenIsWhole
        <5> QED BY <2>4, <5>2 DEF Copied
      <4> QED BY <2>4, <4>1 DEF ToSave, InMemory
    <3>4. adr = Undone
      BY <2>1, <2>4, <3>3 DEF Bearings, ToSave
    <3>5. adr' # "none"
      BY <3>1, <3>4 DEF Undone
    <3> QED BY <2>1, <2>2, <2>3, <3>2, <3>5 DEF Kept
  <2>5. CASE Copied /\ ~(Taken /\ ToSave)
    <3>1. Accounted
      BY <2>1, <2>5
    <3>2. code = "toobig" => code' = "toobig"
      BY <1>14 DEF Verdict
    <3>3. Accounted'
      BY <2>1, <3>1, <3>2 DEF Accounted
    <3> QED BY <2>1, <2>2, <2>3, <3>3 DEF Kept
  <2>6. CASE ~Copied
    BY <2>1, <2>2, <2>3, <2>6
  <2> QED BY <2>4, <2>5, <2>6
<1>15. CASE Invalid
  <2>1. UNCHANGED <<line, given, disk, marks>> /\ step = "verdict" /\ step' = "take"
        /\ "badLine" \in marks
    BY <1>15 DEF Invalid
  <2>2. "finalized" \in marks /\ "overwritten" \notin marks /\ Cut
    BY <2>1 DEF Bearings
  <2>3. Copied' <=> Copied
    BY <2>1, StillSaid DEF Copied
  <2>4. Copied => ~Taken
    BY <2>2 DEF Copied, Framed, Taken
  <2>5. Copied => Accounted /\ code = "ok"
    BY <2>1, <2>4 DEF Bearings
  <2>6. Copied => Accounted'
    BY <2>1, <2>5 DEF Accounted
  <2>7. disk.bak = "none" /\ (Copied => Kept')
    BY <2>1, <2>2 DEF Kept
  <2> QED BY <2>1, <2>2, <2>3, <2>6, <2>7
<1>16. CASE Save
  <2>1. step = "take" /\ step' = "release" /\ "overwritten" \in marks' /\ code = "ok"
        /\ disk'.bak = disk.bak
    BY <1>16, <1>f DEF Save
  <2>2. "finalized" \in marks
    BY <2>1 DEF Bearings
  <2> QED BY <2>1, <2>2
<1>17. CASE NotSaved
  <2>1. UNCHANGED <<line, given, disk, code, adr, marks>> /\ step = "take"
        /\ ~(ToSave /\ (adr # "none" \/ got = <<>>))
        /\ step' = IF "finalized" \notin marks THEN "restoreLate" ELSE "release"
    BY <1>17 DEF NotSaved, ToSave
  <2>2. Untouched => Untouched'
    BY <2>1, StillSaid DEF Untouched
  <2>3. Copied' <=> Copied
    BY <2>1, StillSaid DEF Copied
  <2>4. CASE "finalized" \notin marks
    BY <2>1, <2>2, <2>4
  <2>5. CASE "finalized" \in marks
    BY <2>1, <2>3, <2>5 DEF Kept, Accounted
  <2> QED BY <2>4, <2>5
<1>18. CASE Release
  <2>1. UNCHANGED <<line, given, code, marks>> /\ step = "release" /\ step' = "purge"
        /\ disk' = [disk EXCEPT !.z = "none"]
    BY <1>18 DEF Release
  <2>2. Copied' <=> Copied
    BY <2>1, StillSaid DEF Copied
  <2> QED BY <1>f, <2>1, <2>2 DEF Kept, Accounted
<1>19. CASE Purge
  <2>1. UNCHANGED <<line, given, code, marks>> /\ step = "purge" /\ step' = "done"
        /\ disk' = IF "noted" \in marks THEN disk ELSE [disk EXCEPT !.sav = "none"]
    BY <1>19 DEF Purge
  <2>2. Copied' <=> Copied
    BY <2>1, StillSaid DEF Copied
  <2> QED BY <1>f, <2>1, <2>2 DEF Kept, Accounted
<1>20. CASE Done \/ UNCHANGED bodyVars
  <2>1. UNCHANGED bodyVars
    BY <1>20 DEF Done
  <2>2. UNCHANGED <<line, given>> /\ UNCHANGED <<disk, code, adr, marks, step>>
    BY <2>1 DEF bodyVars, line, given
  <2>3. /\ Copied' = Copied /\ Untouched' = Untouched /\ Kept' = Kept /\ Accounted' = Accounted
        /\ ToSave' = ToSave
    BY <2>2, StillSaid DEF Copied, Untouched, Kept, Accounted, ToSave, InMemory
  <2> QED BY <2>2, <2>3, StillSaid
<1> QED BY <1>1, <1>2, <1>3, <1>4, <1>5, <1>6, <1>7, <1>8, <1>9, <1>10, <1>11, <1>12,
           <1>13, <1>14, <1>15, <1>16, <1>17, <1>18, <1>19, <1>20 DEF BodyNext, Finalize


LEMMA CleanStep ==
    ASSUME BodyType, Decoder, Bearings, CopyPlace, Clean, [BodyNext]_bodyVars
    PROVE  Clean'
<1> USE DEF Clean
<1>f. /\ disk \in [sav : Copies, bak : Copies, z : {"none", "coded", "part"},
                   u : {"none", "page"}]
      /\ resp.had \in BOOLEAN /\ resp.disk \in BOOLEAN /\ resp.coded \in BOOLEAN
      /\ body \in Nat
  BY DEF BodyType, Disks, Responses
<1>r. Direct => Raw(got) # "coded" /\ Raw(got') # "coded"
  BY DEF Direct, Raw
<1>1. CASE Create
  <2>1. UNCHANGED <<line, given>> /\ step = "open" /\ entry' = entry
        /\ disk' = IF resp.coded THEN [disk EXCEPT !.z = "coded"]
                   ELSE [disk EXCEPT !.sav = Raw(got), !.bak = disk.sav]
    BY <1>1 DEF Create
  <2>2. resp.disk
    BY <2>1 DEF Bearings
  <2>3. "coded" \notin {disk'.sav, disk'.bak}
    BY <1>f, <1>r, <2>1, <2>2 DEF Direct
  <2> QED BY <2>1, <2>3, StillSaid
<1>2. CASE CreateFails
  <2>1. disk' = disk /\ entry' = entry /\ step = "open"
    BY <1>2 DEF CreateFails
  <2>2. entry = "none"
    BY <2>1 DEF Bearings
  <2> QED BY <2>1, <2>2
<1>3. CASE Decode
  <2>1. entry' = entry /\ step = "body"
    BY <1>3, Reads
  <2>2. entry = "none"
    BY <2>1 DEF Bearings
  <2>3. disk' \in {disk, [disk EXCEPT !.sav = "none"]}
        \/ (Direct /\ disk' = [disk EXCEPT !.sav = Raw(got')])
    BY <1>3 DEF Decode, SizeLine, LastLine, TooBigLine, BadLine, DataEnd, Trailers, Data,
         EndOfStream, ReadFails, ReadsLine, KeepBody
  <2>4. "coded" \notin {disk'.sav, disk'.bak}
    BY <1>f, <1>r, <2>3
  <2> QED BY <2>1, <2>2, <2>4
<1>4. CASE Refuse \/ Restore
  <2>1. UNCHANGED <<line, given, entry>> /\ disk' = Restored(disk)
    BY <1>4 DEF Refuse, Restore
  <2>2. "coded" \notin {disk'.sav, disk'.bak}
    BY <1>f, <2>1 DEF Restored
  <2> QED BY <2>1, <2>2, StillSaid
<1>5. CASE Accept \/ SpoolFails \/ Verdict \/ Invalid \/ NotSaved
  <2>1. UNCHANGED <<line, given, entry, disk>>
    BY <1>5 DEF Accept, SpoolFails, Verdict, Invalid, NotSaved
  <2> QED BY <2>1, StillSaid
<1>6. CASE Spool \/ SpoolShort \/ Unpack \/ UnpackFails \/ Swap \/ SwapFails
           \/ Release \/ Purge
  <2>1. UNCHANGED <<line, given, entry>>
    BY <1>6 DEF Spool, SpoolShort, Unpack, UnpackFails, Swap, SwapFails, Release, Purge
  <2>2. disk'.bak = disk.bak /\ disk'.sav \in {disk.sav, "page", "none"}
    BY <1>6, <1>f DEF Spool, SpoolShort, Unpack, UnpackFails, Swap, SwapFails, Release, Purge
  <2>3. "coded" \notin {disk'.sav, disk'.bak}
    BY <2>2
  <2> QED BY <2>1, <2>3, StillSaid
<1>7. CASE Commit
  <2>1. UNCHANGED <<line, given>> /\ step = "commit"
        /\ disk' = [disk EXCEPT !.bak = "none"]
        /\ entry' = IF code # "ok" THEN "none"
                    ELSE IF resp.disk /\ "unopened" \notin marks THEN disk.sav
                    ELSE IF resp.disk THEN Raw(got) ELSE Content
    BY <1>7 DEF Commit
  <2>2. Taken
    BY <2>1 DEF Bearings
  <2>3. "coded" \notin {disk'.sav, disk'.bak}
    BY <1>f, <2>1
  <2>4. ~Coded => Raw(got) # "coded"
    BY DEF Coded, Raw
  <2>5. ~Coded /\ Framed => Raw(got) = "page"
    <3>1. ASSUME ~Coded, Framed PROVE Raw(got) = "page"
      <4>1. Whole(got) /\ (got = <<>> => body = 0)
        BY <2>2, <3>1, TakenIsWhole
      <4> QED BY <3>1, <4>1 DEF Raw, Coded
    <3> QED BY <3>1
  <2>6. CASE code # "ok"
    BY <2>1, <2>3, <2>6, StillSaid
  <2>7. CASE code = "ok" /\ Coded
    <3>1. got # <<>> /\ (resp.disk => "unopened" \notin marks)
      BY <2>7 DEF Coded, Bearings
    <3>2. resp.disk => disk.sav = "page"
      BY <2>1, <2>7 DEF CopyPlace
    <3>3. ~resp.disk => adr = "page"
      BY <2>1, <2>7 DEF Bearings, Undone
    <3>4. entry' = "page"
      BY <2>1, <2>7, <3>1, <3>2, <3>3 DEF Content
    <3> QED BY <2>1, <2>3, <3>4, StillSaid
  <2>8. CASE code = "ok" /\ ~Coded
    <3>1. Untouched
      BY <2>1, <2>8 DEF CopyPlace
    <3>2. resp.disk /\ "unopened" \notin marks /\ resp.coded => disk.sav \in {"old", "none"}
      BY <3>1 DEF Untouched, Direct, Had
    <3>3. resp.disk /\ ~resp.coded => disk.sav = Raw(got)
      BY <3>1 DEF Untouched, Direct
    <3>4. ~resp.disk => adr = "raw"
      BY <2>1, <2>8 DEF Bearings, Undone
    <3>5. entry' \in {"old", "none", Raw(got)}
      BY <1>f, <2>1, <2>8, <3>2, <3>3, <3>4 DEF Content
    <3> QED BY <2>1, <2>3, <2>4, <2>5, <2>8, <3>5, StillSaid
  <2> QED BY <2>6, <2>7, <2>8
<1>8. CASE Save
  <2>1. UNCHANGED <<line, given, entry>> /\ step = "take" /\ code = "ok" /\ InMemory
        /\ (adr # "none" \/ got = <<>>)
        /\ disk' = [disk EXCEPT !.sav = IF adr = "none" THEN Raw(got) ELSE Content]
    BY <1>8 DEF Save
  <2>2. ~Coded => Raw(got) # "coded"
    BY DEF Coded, Raw
  <2>3. CASE ~resp.disk
    <3>1. adr \in {"none", Undone}
      BY <2>1, <2>3 DEF Bearings
    <3>2. disk'.sav # "coded"
      BY <1>f, <2>1, <2>2, <3>1 DEF Content, Undone, Coded
    <3> QED BY <1>f, <2>1, <3>2, StillSaid
  <2>4. CASE resp.disk
    <3>1. got = <<>>
      BY <2>1, <2>4 DEF InMemory, Bearings
    <3>2. ~Coded
      BY <3>1 DEF Coded
    <3>3. adr \in {"none", "raw", "page"}
      BY DEF BodyType
    <3>4. disk'.sav # "coded"
      BY <1>f, <2>1, <2>2, <3>2, <3>3 DEF Content
    <3> QED BY <1>f, <2>1, <3>4, StillSaid
  <2> QED BY <2>3, <2>4
<1>9. CASE Done \/ UNCHANGED bodyVars
  <2>1. UNCHANGED <<line, given, disk, entry>>
    BY <1>9 DEF Done, bodyVars, line, given
  <2> QED BY <2>1, StillSaid
<1> QED BY <1>1, <1>2, <1>3, <1>4, <1>5, <1>6, <1>7, <1>8, <1>9 DEF BodyNext, Finalize

-----------------------------------------------------------------------------

\* The way a body takes is kept from Init on.
LEMMA WayHolds == BodySpec => []PageInv
<1>1. BodyInit => PageInv
  BY InitBody, InitDecoder, InitWay DEF PageInv
<1>2. PageInv /\ [BodyNext]_bodyVars => PageInv'
  BY TypeStep, DecoderStep, BearingsStep, CopyStep, CleanStep DEF PageInv
<1> QED BY <1>1, <1>2, PTL DEF BodySpec

LEMMA WayOutlives == PageInv => CopyOutlivesFailure
<1> SUFFICES ASSUME PageInv, Copied, "overwritten" \notin marks
             PROVE  Kept \/ (step = "done" /\ code = "toobig")
  BY DEF CopyOutlivesFailure, Copied, Kept
<1> USE DEF PageInv, CopyPlace
<1>1. Had = "old"
  BY DEF Copied, Had
<1>2. Untouched => Kept
  BY <1>1 DEF Untouched, Kept
<1>3. step \in {"open", "restore", "swap"} => Kept
  BY <1>1, <1>2 DEF Kept
<1>4. step = "commit" => Kept
  BY <1>2 DEF Kept
<1>5. step \in {"open", "body", "judge", "spool", "unpack", "swap", "restore", "restoreLate",
                "commit", "verdict", "take", "release", "purge", "done"}
  BY DEF BodyType, Steps
<1> QED BY <1>2, <1>3, <1>4, <1>5

\* A body that its framing or its coding shows to be cut or damaged never enters
\* the cache, and coded bytes are never taken for the page.
THEOREM WholeOrRefusedHolds == BodySpec => []WholeOrRefused
<1>1. PageInv => WholeOrRefused
  BY DEF PageInv, Clean, WholeOrRefused
<1> QED BY <1>1, WayHolds, PTL

\* Whatever fails on the way, the copy an update came for, or what replaces it,
\* is on disk: until it is dropped on a verdict or a page in memory overwrites it.
THEOREM CopyOutlivesFailureHolds == BodySpec => []CopyOutlivesFailure
  BY WayHolds, WayOutlives, PTL

=============================================================================
