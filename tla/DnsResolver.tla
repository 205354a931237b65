------------------------------ MODULE DnsResolver ------------------------------
(***************************************************************************)
(* The DNS cache and the resolver threads (htslib.c).  A resolve runs on a *)
(* thread of its own, in a job counted by its caller and its thread; the   *)
(* caller waits for --timeout or the stop and then abandons it, and the    *)
(* thread goes on alone.  One host is modelled: jobs of two hosts share    *)
(* nothing.  The crawl thread and an FTP worker may both ask for it.       *)
(*                                                                         *)
(* An address list is its length.  The expiry of a negative answer, which  *)
(* doubles with each failure, comes at any time.                           *)
(***************************************************************************)
EXTENDS Integers, FiniteSets

CONSTANTS
    Caller,     \* the threads that resolve
    Addrs,      \* the lengths an address list may have
    MaxJobs     \* bound: resolver threads at one time; beyond it none can be made

ASSUME ResolverAssumption == /\ Addrs \subseteq (Nat \ {0}) /\ MaxJobs \in Nat

Job == 1 .. MaxJobs
None == -1          \* no answer: abandoned, or the thread crashed
Permanent == 0      \* the name does not exist
Transient == -2     \* the resolver could not answer
Empty == -3         \* no record of the host
Expired == -4       \* a record past its expiry
Answers == Addrs \cup {Permanent, Transient}
Count(a) == IF a = Transient THEN 0 ELSE a

VARIABLES
    timeout,    \* opt->timeout
    stop,       \* opt->state.stop
    cache,      \* the record of the host: Empty, an answer, or Expired
    refs,       \* dns_resolve_job.refcount
    done,       \* dns_resolve_job.done
    answer,     \* dns_resolve_job.count and .permanent
    thread,     \* each thread: "none", "body", "tail" or "leave"
    rpc,        \* each caller: "idle", "look", "wait", "store" or "back"
    job,        \* the job a caller waits for
    result,     \* what the caller has: None, or an answer
    told,       \* history: what the resolver told the thread of each job
    heard       \* history: what it told the job the caller has just left

jobVars == <<refs, done, answer, thread, told>>
dnsVars == <<timeout, stop, cache, jobVars, rpc, job, result, heard>>

InitDns == /\ stop = FALSE
           /\ cache = Empty
           /\ refs = [j \in Job |-> 0] /\ done = [j \in Job |-> FALSE]
           /\ answer = [j \in Job |-> None] /\ thread = [j \in Job |-> "none"]
           /\ rpc = [c \in Caller |-> "idle"] /\ job = [c \in Caller |-> 0]
           /\ result = [c \in Caller |-> None] /\ heard = [c \in Caller |-> None]
           /\ told = [j \in Job |-> None]

-----------------------------------------------------------------------------
\* hts_dns_resolve_all(): the cache first, under state.lock.
Hit(c) == /\ rpc[c] = "look" /\ cache \notin {Empty, Expired}
          /\ result' = [result EXCEPT ![c] = cache]
          /\ rpc' = [rpc EXCEPT ![c] = "back"]
          /\ UNCHANGED <<timeout, stop, cache, jobVars, job, heard>>

Miss(c) == rpc[c] = "look" /\ cache \in {Empty, Expired}

\* A miss: a job, with so many references.
MakeJob(c, n) ==
    /\ Miss(c)
    /\ \E j \in Job :
          /\ refs[j] = 0 /\ thread[j] = "none" /\ \A k \in Job : k < j => thread[k] # "none"
          /\ refs' = [refs EXCEPT ![j] = n]
          /\ thread' = [thread EXCEPT ![j] = "body"]
          /\ job' = [job EXCEPT ![c] = j]
    /\ rpc' = [rpc EXCEPT ![c] = "wait"]
    /\ UNCHANGED <<timeout, stop, cache, done, answer, told, result, heard>>

\* For a mutant of Ask: the caller counts itself only.
AskAlone(c) == MakeJob(c, 1)

\* One reference for the caller and one for the thread.
Ask(c) == MakeJob(c, 2)

\* The thread cannot be made: the caller frees the job and resolves inline.
AskInline(c) == /\ Miss(c)
                /\ \E a \in Answers : /\ result' = [result EXCEPT ![c] = a]
                                      /\ heard' = [heard EXCEPT ![c] = a]
                /\ rpc' = [rpc EXCEPT ![c] = "store"]
                /\ UNCHANGED <<timeout, stop, cache, jobVars, job>>

\* dns_job_release(): the last to leave frees the job.
Free(j) == /\ refs' = [refs EXCEPT ![j] = @ - 1]
           /\ IF refs[j] = 1
              THEN /\ done' = [done EXCEPT ![j] = FALSE]
                   /\ answer' = [answer EXCEPT ![j] = None]
                   /\ told' = [told EXCEPT ![j] = None]
              ELSE UNCHANGED <<done, answer, told>>

\* The caller leaves its job, with what it has.
LeaveJob(c, r) == /\ result' = [result EXCEPT ![c] = r]
                  /\ heard' = [heard EXCEPT ![c] = told[job[c]]]
                  /\ Free(job[c])
                  /\ rpc' = [rpc EXCEPT ![c] = "store"] /\ job' = [job EXCEPT ![c] = 0]
                  /\ UNCHANGED <<timeout, stop, cache, thread>>

\* It finds the answer.
Answered(c) == rpc[c] = "wait" /\ done[job[c]] /\ LeaveJob(c, answer[job[c]])

\* The deadline, or the stop: it leaves the job to its thread.
Abandon(c) == /\ rpc[c] = "wait" /\ ~done[job[c]]
              /\ timeout > 0 \/ stop
              /\ LeaveJob(c, None)

\* Only an answer is cached; it replaces the record of a concurrent resolve.
Store(c) == /\ rpc[c] = "store"
            /\ cache' = IF result[c] = None THEN cache ELSE result[c]
            /\ rpc' = [rpc EXCEPT ![c] = "back"]
            /\ heard' = [heard EXCEPT ![c] = None]
            /\ UNCHANGED <<timeout, stop, jobVars, job, result>>

-----------------------------------------------------------------------------
\* dns_resolve_thread(): getaddrinfo() answers, and done is published last.
Resolved(j) == /\ thread[j] = "body"
               /\ \E a \in Answers : /\ answer' = [answer EXCEPT ![j] = a]
                                     /\ told' = [told EXCEPT ![j] = a]
               /\ done' = [done EXCEPT ![j] = TRUE]
               /\ thread' = [thread EXCEPT ![j] = "tail"]
               /\ UNCHANGED <<timeout, stop, cache, refs, rpc, job, result, heard>>

\* The body crashes and the front end recovers; the tail runs.
Crashed(j) == /\ thread[j] = "body"
              /\ thread' = [thread EXCEPT ![j] = "tail"]
              /\ UNCHANGED <<timeout, stop, cache, refs, done, answer, told, rpc, job,
                             result, heard>>

\* For a mutant of Tailed: no answer reads as no address.
TailedEmpty(j) == /\ thread[j] = "tail"
                  /\ answer' = [answer EXCEPT ![j] = IF done[j] THEN @ ELSE Transient]
                  /\ done' = [done EXCEPT ![j] = TRUE]
                  /\ thread' = [thread EXCEPT ![j] = "leave"]
                  /\ UNCHANGED <<timeout, stop, cache, refs, told, rpc, job, result, heard>>

\* dns_resolve_done(): no answer becomes -1, then the thread leaves the job.
Tailed(j) == /\ thread[j] = "tail"
             /\ answer' = [answer EXCEPT ![j] = IF done[j] THEN @ ELSE None]
             /\ done' = [done EXCEPT ![j] = TRUE]
             /\ thread' = [thread EXCEPT ![j] = "leave"]
             /\ UNCHANGED <<timeout, stop, cache, refs, told, rpc, job, result, heard>>

Left(j) == /\ thread[j] = "leave"
           /\ Free(j)
           /\ thread' = [thread EXCEPT ![j] = "none"]
           /\ UNCHANGED <<timeout, stop, cache, rpc, job, result, heard>>

\* A transient negative answer is past its expiry.
Expire == /\ cache = Transient /\ cache' = Expired
          /\ UNCHANGED <<timeout, stop, jobVars, rpc, job, result, heard>>

\* The stop matters to a resolve without a deadline; the others end at any time.
Raise == /\ ~stop /\ timeout = 0 /\ stop' = TRUE
         /\ UNCHANGED <<timeout, cache, jobVars, rpc, job, result, heard>>

Resolving(c) == Hit(c) \/ Ask(c) \/ AskInline(c) \/ Answered(c) \/ Abandon(c) \/ Store(c)
Threading(j) == Resolved(j) \/ Crashed(j) \/ Tailed(j) \/ Left(j)
=============================================================================
