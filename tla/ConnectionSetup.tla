---------------------------- MODULE ConnectionSetup ----------------------------
(***************************************************************************)
(* How a slot gets a connection (htsback.c): the host is resolved, its     *)
(* addresses are dialed in turn, each for min(--timeout, Cap) seconds but  *)
(* the last, and an https one shakes hands.  back_wait() passes over the   *)
(* slot in two parts, what the sockets did and then the timeouts.          *)
(*                                                                         *)
(* A peer answers, refuses, or never does.  DnsResolver is the resolver;   *)
(* an FTP worker of the same host uses its cache.                          *)
(***************************************************************************)
EXTENDS DnsResolver

CONSTANTS
    Timeouts,   \* the values of --timeout, 0 for none
    Cap,        \* HTS_CONNECT_FALLBACK_TIMEOUT
    MaxAdds,    \* bound: times the link is given a slot
    MaxFtp      \* bound: resolves of an FTP worker

ASSUME SetupAssumption == /\ Timeouts \subseteq Nat /\ Cap \in Nat \ {0}
                          /\ MaxAdds \in Nat /\ MaxFtp \in Nat
                          /\ {"crawl", "ftp"} = Caller

VARIABLES
    status,     \* lien_back.status
    ssl,        \* r.ssl: an https link
    sock,       \* r.soc: "none", "dialing", and r.ssl_con: "shaking", "session"
    addrIndex,  \* connect_fallback.addr_index, from 0
    addrCount,  \* connect_fallback.addr_count, -1 until probed
    elapsed,    \* now - timeout_refresh
    msg,        \* r.msg of a slot that failed
    part,       \* where back_wait() is: "sockets" or "timeouts"
    purpose,    \* what the crawl thread resolves for
    adds,       \* slots given so far
    ftps,       \* resolves of the FTP worker so far
    dialed,     \* history: the addresses dialed for this slot
    sockets     \* history: FALSE once the address in turn could not be dialed

slotVars == <<status, ssl, sock, addrIndex, addrCount, elapsed, msg, part, purpose, adds, ftps,
              dialed, sockets>>
vars == <<dnsVars, slotVars>>

Init == /\ timeout \in Timeouts /\ ssl \in BOOLEAN /\ InitDns
        /\ status = "free" /\ sock = "none" /\ addrIndex = 0 /\ addrCount = -1
        /\ elapsed = 0 /\ msg = "" /\ part = "sockets" /\ purpose = "none"
        /\ adds = 0 /\ ftps = 0 /\ dialed = {} /\ sockets = TRUE

Idle == rpc["crawl"] = "idle"

-----------------------------------------------------------------------------
\* The crawl thread enters hts_dns_resolve_all(), and comes back from it.
Resolve(why) == /\ purpose' = why
                /\ rpc' = [rpc EXCEPT !["crawl"] = "look"]
                /\ UNCHANGED <<timeout, stop, cache, jobVars, job, result, heard>>

BackFrom(why) == /\ rpc["crawl"] = "back" /\ purpose = why
                 /\ purpose' = "none"
                 /\ rpc' = [rpc EXCEPT !["crawl"] = "idle"]
                 /\ result' = [result EXCEPT !["crawl"] = None]
                 /\ UNCHANGED <<timeout, stop, cache, jobVars, job, heard>>

Known == IF result["crawl"] = None THEN 0 ELSE Count(result["crawl"])

\* The slot ends, with its socket closed.
Fail(why) == /\ status' = "ready" /\ sock' = "none" /\ msg' = why
             /\ UNCHANGED <<ssl, addrIndex, addrCount, elapsed, adds, ftps, dialed>>

\* newhttp_addr(): the n-th address is dialed if there is one and a socket can
\* be made for it.
Dial(n) == /\ n < Known
           /\ sock' = "dialing" /\ status' = "connecting"
           /\ dialed' = dialed \cup {n}
           /\ UNCHANGED sockets

\* back_add(): a fresh slot, opened at the first address.
Add == /\ Idle /\ status \in {"free", "ready"} /\ adds < MaxAdds
       /\ status' = "dns" /\ sock' = "none" /\ addrIndex' = 0 /\ addrCount' = -1
       /\ elapsed' = 0 /\ msg' = "" /\ adds' = adds + 1
       /\ dialed' = {} /\ sockets' = TRUE /\ part' = "sockets"
       /\ Resolve("open")
       /\ UNCHANGED <<ssl, ftps>>

Open == /\ BackFrom("open")
        /\ Dial(0) /\ elapsed' = 0
        /\ UNCHANGED <<ssl, addrIndex, addrCount, msg, part, adds, ftps>>

NotOpen == /\ BackFrom("open")
           /\ sockets' = FALSE
           /\ Fail(IF Known = 0 THEN "no address" ELSE "no socket")
           /\ UNCHANGED part

-----------------------------------------------------------------------------
\* back_wait(), the sockets.
AtSockets == Idle /\ part = "sockets"
ToTimeouts == part' = "timeouts"

\* The addresses of a connecting slot are counted once.
Probe == /\ AtSockets /\ status = "connecting" /\ addrCount < 0
         /\ Resolve("probe")
         /\ UNCHANGED <<status, ssl, sock, addrIndex, addrCount, elapsed, msg, part, adds,
                        ftps, dialed, sockets>>
Probed == /\ BackFrom("probe")
          /\ addrCount' = Known
          /\ UNCHANGED <<status, ssl, sock, addrIndex, elapsed, msg, part, adds, ftps, dialed,
                         sockets>>

Connecting == AtSockets /\ status = "connecting" /\ addrCount >= 0

\* Nothing happened on the socket.
Silent == /\ Connecting \/ (AtSockets /\ status = "handshake")
          /\ ToTimeouts
          /\ UNCHANGED <<dnsVars, status, ssl, sock, addrIndex, addrCount, elapsed, msg,
                         purpose, adds, ftps, dialed, sockets>>

\* connect() failed: the next address, or the end.
Refused == /\ Connecting
           /\ IF addrIndex + 1 < addrCount
              THEN /\ Resolve("next") /\ sock' = "none"
                   /\ UNCHANGED <<status, ssl, addrIndex, addrCount, elapsed, msg, adds, ftps,
                                  dialed, part, sockets>>
              ELSE /\ Fail("connect error") /\ ToTimeouts
                   /\ UNCHANGED <<dnsVars, purpose, sockets>>

\* connect() is done: the handshake of an https link, or the request.
Connected == /\ Connecting /\ sock # "none"
             /\ IF ssl /\ sock = "dialing"
                THEN /\ status' = "handshake" /\ sock' = "shaking"
                     /\ elapsed' = 0
                ELSE status' = "headers" /\ UNCHANGED <<sock, elapsed>>
             /\ ToTimeouts
             /\ UNCHANGED <<dnsVars, ssl, addrIndex, addrCount, msg, purpose, adds, ftps,
                            dialed, sockets>>

\* The request cannot be sent, or a handshake fails.
Unsent == /\ Connecting
          /\ Fail("request not sent") /\ ToTimeouts
          /\ UNCHANGED <<dnsVars, purpose, sockets>>

HandshakeFails == /\ AtSockets /\ status = "handshake"
                  /\ Fail("handshake") /\ ToTimeouts
                  /\ UNCHANGED <<dnsVars, purpose, sockets>>

\* SSL_connect() succeeds: back to waiting for the socket, the clock as it was.
HandshakeDone == /\ AtSockets /\ status = "handshake"
                 /\ status' = "connecting" /\ sock' = "session"
                 /\ ToTimeouts
                 /\ UNCHANGED <<dnsVars, ssl, addrIndex, addrCount, elapsed, msg, purpose,
                                adds, ftps, dialed, sockets>>

-----------------------------------------------------------------------------
\* back_wait(), the timeouts.
Live == status \in {"connecting", "handshake"}
AtTimeouts == Idle /\ part = "timeouts" /\ Live
Least(a, b) == IF a < b THEN a ELSE b

\* For a mutant of FallbackDue: the timeout looked at first.
FallbackDueAfter == /\ status = "connecting" /\ timeout > 0
                    /\ addrIndex + 1 < addrCount
                    /\ elapsed >= Least(timeout, Cap) /\ elapsed < timeout

\* back_connect_fallback_due()
FallbackDue == /\ status = "connecting" /\ timeout > 0
               /\ addrIndex + 1 < addrCount
               /\ elapsed >= Least(timeout, Cap)

TimedOut == timeout > 0 /\ elapsed >= timeout

\* Checked before the timeout, which decides the tie at a short one.
Fallback == /\ AtTimeouts /\ FallbackDue
            /\ sock' = "none"
            /\ Resolve("next")
            /\ UNCHANGED <<status, ssl, addrIndex, addrCount, elapsed, msg, part, adds, ftps,
                           dialed, sockets>>

TimeOut == /\ AtTimeouts /\ TimedOut /\ ~FallbackDue
           /\ Fail(IF status = "connecting" THEN "connect time out" ELSE "handshake time out")
           /\ part' = "sockets"
           /\ UNCHANGED <<dnsVars, purpose, sockets>>

Rest == /\ Idle /\ part = "timeouts"
         /\ ~(Live /\ (FallbackDue \/ TimedOut))
         /\ part' = "sockets"
         /\ UNCHANGED <<dnsVars, status, ssl, sock, addrIndex, addrCount, elapsed, msg,
                        purpose, adds, ftps, dialed, sockets>>

\* For a mutant of DialNext: the same address again.
DialNextSame == /\ BackFrom("next")
                /\ Dial(addrIndex) /\ elapsed' = IF timeout > 0 THEN 0 ELSE elapsed
                /\ part' = IF part = "sockets" THEN "timeouts" ELSE "sockets"
                /\ UNCHANGED <<ssl, addrIndex, addrCount, msg, adds, ftps>>

\* back_connect_next(): the next address is dialed, or the slot fails.
DialNext == /\ BackFrom("next")
            /\ Dial(addrIndex + 1) /\ addrIndex' = addrIndex + 1
            /\ elapsed' = IF timeout > 0 THEN 0 ELSE elapsed
            /\ part' = IF part = "sockets" THEN "timeouts" ELSE "sockets"
            /\ UNCHANGED <<ssl, addrCount, msg, adds, ftps>>

NoDialNext == /\ BackFrom("next")
              /\ sockets' = FALSE /\ Fail("connect error")
              /\ part' = IF part = "sockets" THEN "timeouts" ELSE "sockets"

\* The clock is read when the sockets or the timeouts are looked at.
Tick == /\ Idle /\ Live /\ elapsed < timeout
        /\ elapsed' = elapsed + 1
        /\ UNCHANGED <<dnsVars, status, ssl, sock, addrIndex, addrCount, msg, part, purpose,
                       adds, ftps, dialed, sockets>>

-----------------------------------------------------------------------------
\* An FTP worker asks for the host.
FtpAsks == /\ rpc["ftp"] = "idle" /\ ftps < MaxFtp /\ ftps' = ftps + 1
           /\ rpc' = [rpc EXCEPT !["ftp"] = "look"]
           /\ UNCHANGED <<timeout, stop, cache, jobVars, job, result, heard, status, ssl, sock,
                          addrIndex, addrCount, elapsed, msg, part, purpose, adds, dialed,
                          sockets>>
FtpHas == /\ rpc["ftp"] = "back"
          /\ rpc' = [rpc EXCEPT !["ftp"] = "idle"]
          /\ result' = [result EXCEPT !["ftp"] = None]
          /\ UNCHANGED <<timeout, stop, cache, jobVars, job, heard, slotVars>>

Engine == \/ Open \/ NotOpen \/ Probe \/ Probed \/ Silent \/ Refused \/ Connected \/ Unsent
          \/ HandshakeFails \/ HandshakeDone \/ Fallback \/ TimeOut \/ Rest
          \/ DialNext \/ NoDialNext
Crawl == Engine \/ (Resolving("crawl") /\ UNCHANGED slotVars)

Quiet == /\ Idle /\ (status = "headers" \/ (status = "ready" /\ adds = MaxAdds))
         /\ UNCHANGED vars

Next == \/ Add \/ Crawl \/ Tick \/ FtpAsks \/ FtpHas \/ Quiet
        \/ /\ \/ Resolving("ftp") \/ Expire \/ Raise
              \/ \E j \in Job : Threading(j)
           /\ UNCHANGED slotVars

\* The crawl thread goes on and time passes; no peer and no resolver owes an
\* answer.
Spec == Init /\ [][Next]_vars /\ WF_vars(Crawl) /\ WF_vars(Tick)

-----------------------------------------------------------------------------
Waiting(j) == {c \in Caller : rpc[c] = "wait" /\ job[c] = j}
Running(j) == thread[j] \in {"body", "tail", "leave"}

\* A resolve job is counted for exactly those who still use it, so neither an
\* abandoning caller nor a late or crashed thread frees it under the other,
\* and the last to leave frees it.
JobCounted ==
    \A j \in Job : refs[j] = Cardinality(Waiting(j)) + IF Running(j) THEN 1 ELSE 0

\* The cache takes only what a resolver said: a resolve abandoned at the
\* deadline, cut by the stop or lost with its thread blacklists no host.
AnswersOnly == [][cache' # cache => \/ cache' = Expired
                                    \/ \E c \in Caller : rpc[c] = "store" /\ cache' = heard[c]]_vars

\* A link fails for its connection only when every address was dialed or the
\* one in turn could not be, at any --timeout, a tie with the fallback's
\* included.
EveryAddressTried ==
    status = "ready" /\ msg \in {"connect error", "connect time out"} =>
        ~sockets \/ 0 .. addrCount - 1 \subseteq dialed

\* With a timeout, a link comes to its request or fails, whoever is silent.
ConnectEnds == (Live /\ timeout > 0) ~> ~Live

=============================================================================
