----------------------------- MODULE CodedBody -----------------------------
(***************************************************************************)
(* The body of one response, from the end of its headers to the file of    *)
(* the mirror: the framing (chunked, announced length, or the connection's *)
(* end), the chunk decoder of back_wait(), the content coding undone in    *)
(* back_finalize() (the coded bytes in a .z file, decoded aside in a .u    *)
(* file, renamed over the page), the verdicts on a body that is cut or     *)
(* badly framed, httpmirror()'s write of a page kept in memory, and the    *)
(* purge at the end of an update.                                          *)
(*                                                                         *)
(* `body' and `resp' are what the server means to send; `wire' is what     *)
(* arrives of it, whole, cut short or damaged.  A wire unit is a byte of   *)
(* the body or a whole line of the chunk framing.                          *)
(***************************************************************************)
EXTENDS Integers, Sequences, SequencesExt

CONSTANTS Chunks,      \* the sizes a chunk may have
          MaxChunks,   \* the most chunks of a body
          MaxFile      \* -m: the largest body accepted

ASSUME Assumptions == /\ Chunks \subseteq Nat \ {0}
                      /\ MaxChunks \in Nat
                      /\ MaxFile \in Nat

VARIABLES resp,        \* [framing, coded, disk, had, tolerant], never changed
          body,        \* the length of the body the server sends
          wire,        \* the units not read yet
          bodyStatus,  \* back.status: "wait" 98, "cr" 97, "data" 1, "ready" 0
          blocksize,   \* back.chunk_blocksize: 0, a chunk's size, or -1
          total,       \* r.totalsize, -1 when unknown
          got,         \* the units stored as body; r.size is its length
          code,        \* r.statuscode: "ok" is a positive one
          adr,         \* r.adr: "raw" (got), "page" (decoded) or "none"
          disk,        \* the files: the page, its backup, the .z and the .u
          marks,       \* "noted" in new.lst, "finalized", "badLine",
                       \* "unopened", "overwritten" by the save of a page in memory
          entry,       \* what this run entered in the cache
          step         \* where the slot is in its way out

bodyVars == <<resp, body, wire, bodyStatus, blocksize, total, got, code, adr,
              disk, marks, entry, step>>
line == <<wire, bodyStatus, blocksize, total, got>>
given == <<resp, body>>

----------------------------------------------------------------------------
(* The units of the wire. *)

Unit(k, n) == [kind |-> k, n |-> n]
Byte == Unit("byte", 0)
Blank == Unit("blank", 0)
Final == Unit("last", 0)              \* the line of a chunk of size 0
Junk == Unit("junk", 0)              \* no hexadecimal number, or too long
Bytes(n) == [i \in 1..n |-> Byte]
ChunkUnits(n) == <<Unit("size", n)>> \o Bytes(n) \o <<Blank>>

\* A server's chunks cs, numbered from the last, and the t trailer fields
\* after them: what it sends of the last k, and the length of their data
Closing(t) == <<Final>> \o [i \in 1..t |-> Junk] \o <<Blank>>
Streams(cs, t) ==
  LET s[k \in 0..Len(cs)] ==
        IF k = 0 THEN Closing(t) ELSE ChunkUnits(cs[k]) \o s[k - 1]
  IN s
Lengths(cs) ==
  LET l[k \in 0..Len(cs)] == IF k = 0 THEN 0 ELSE cs[k] + l[k - 1]
  IN l
Stream(cs, t) == Streams(cs, t)[Len(cs)]
Length(cs) == Lengths(cs)[Len(cs)]

\* What may arrive of w: a prefix, or w with one line of its framing spoiled:
Spoiled(w) ==
  UNION {LET n == w[i].n
         IN {[w EXCEPT ![i] = u] : u \in {Junk, Unit("size", n + 1)}
               \cup (IF n > 1 THEN {Unit("size", n - 1)} ELSE {})} :
         i \in {j \in DOMAIN w : w[j].kind \in {"size", "last"}}}

ChunkLists == UNION {[1..k -> Chunks] : k \in 0..MaxChunks}

Responses == [framing : {"chunked", "length", "close"}, coded : BOOLEAN,
              disk : BOOLEAN, had : BOOLEAN, tolerant : BOOLEAN]

----------------------------------------------------------------------------
(* What the bytes stored so far amount to. *)

Whole(g) == g = Bytes(body)
Raw(g) == IF Whole(g) /\ (~resp.coded \/ body = 0) THEN "page"
          ELSE IF resp.coded /\ g # <<>> THEN "coded" ELSE "part"

Direct == resp.disk /\ ~resp.coded     \* written over the page itself
Content == IF adr = "raw" THEN Raw(got) ELSE adr

\* Mutant: a chunked body is judged by its length alone
CutInData == resp.framing = "chunked" /\ Len(got) # total

\* back_chunked_unterminated() and the length test
Cut == resp.framing = "chunked" /\ blocksize # -1
Short == total >= 0 /\ Len(got) # total

Note(d) == IF d.sav # "none" THEN {"noted"} ELSE {}

----------------------------------------------------------------------------
(* The headers are read and the body starts. *)

BodyInit ==
  /\ resp \in Responses
  /\ \E cs \in ChunkLists, t \in 0..1 :
       /\ body = Length(cs)
       /\ IF resp.framing = "chunked"
            THEN \/ wire \in Prefixes(Stream(cs, t))
                 \/ wire \in Spoiled(Stream(cs, t))
            ELSE \/ wire \in Prefixes(Bytes(body))
                 \/ resp.framing = "length" /\ wire = Bytes(body + 1)
  /\ bodyStatus = IF resp.framing = "chunked" THEN "wait" ELSE "data"
  /\ blocksize = 0
  /\ total = IF resp.framing = "length" THEN body ELSE -1
  /\ got = <<>> /\ code = "ok" /\ adr = IF resp.disk THEN "none" ELSE "raw"
  /\ disk = [sav |-> IF resp.had THEN "old" ELSE "none",
             bak |-> "none", z |-> "none", u |-> "none"]
  /\ marks = {} /\ entry = "none"
  /\ step = IF resp.disk THEN "open" ELSE "body"

\* The body goes to disk: coded bytes to the .z file, others over the page
Create ==
  /\ step = "open" /\ step' = "body"
  /\ disk' = IF resp.coded THEN [disk EXCEPT !.z = "coded"]
             ELSE [disk EXCEPT !.sav = Raw(got), !.bak = disk.sav]
  /\ marks' = IF resp.coded THEN marks ELSE marks \cup {"noted"}
  /\ UNCHANGED <<given, line, code, adr, entry>>

\* The file cannot be created: the slot is ready as it stands
CreateFails ==
  /\ step = "open" /\ resp.coded
  /\ bodyStatus' = "ready" /\ step' = "judge" /\ marks' = marks \cup {"unopened"}
  /\ UNCHANGED <<given, wire, blocksize, total, got, code, adr, disk, entry>>

----------------------------------------------------------------------------
(* The chunk decoder. *)

\* http_xfread1() reads up to the end of a line: a body byte before that
\* end makes the line another one
Ends == {i \in DOMAIN wire : wire[i].kind # "byte"}
LineEnd == CHOOSE i \in Ends : \A j \in Ends : i <= j
Line == IF LineEnd = 1 THEN Head(wire) ELSE Junk
AfterLine == SubSeq(wire, LineEnd + 1, Len(wire))

ReadsLine(s) == step = "body" /\ bodyStatus = s /\ Ends # {} /\ wire' = AfterLine
Announced == IF total < 0 THEN 0 ELSE total

KeepBody == UNCHANGED <<given, got, adr, marks, entry>>

\* A chunk is announced
SizeLine ==
  /\ ReadsLine("wait") /\ Line.kind = "size"
  /\ Announced + Line.n <= MaxFile
  /\ blocksize' = Line.n /\ total' = Announced + Line.n /\ bodyStatus' = "data"
  /\ KeepBody /\ UNCHANGED <<code, disk, step>>

LastLine ==
  /\ ReadsLine("wait") /\ Line.kind = "last"
  /\ blocksize' = -1 /\ total' = Announced /\ bodyStatus' = "cr"
  /\ KeepBody /\ UNCHANGED <<code, disk, step>>

\* The chunks add up to more than -m: back_set_too_big(), and the partial
\* page is removed
TooBigLine ==
  /\ ReadsLine("wait") /\ Line.kind = "size"
  /\ Announced + Line.n > MaxFile
  /\ blocksize' = Line.n /\ total' = Announced + Line.n
  /\ bodyStatus' = "ready" /\ code' = "toobig" /\ step' = "restore"
  /\ disk' = IF Direct /\ disk.bak = "none"
               THEN [disk EXCEPT !.sav = "none"] ELSE disk
  /\ KeepBody

\* Not the line that is due: "Invalid chunk", once back_finalize() has
\* judged what came before it
BadLine ==
  /\ \/ ReadsLine("wait") /\ Line.kind \notin {"size", "last"}
     \/ ReadsLine("cr") /\ blocksize # -1 /\ Line # Blank
  /\ bodyStatus' = "ready" /\ total' = Announced /\ step' = "judge"
  /\ marks' = marks \cup {"badLine"}
  /\ UNCHANGED <<given, blocksize, got, code, adr, disk, entry>>

\* The line that ends a chunk's data
DataEnd ==
  /\ ReadsLine("cr") /\ blocksize # -1 /\ Line = Blank
  /\ bodyStatus' = "wait"
  /\ KeepBody /\ UNCHANGED <<blocksize, total, code, disk, step>>

\* The trailer section, up to the first line that is blank
Blanks == {i \in DOMAIN wire : wire[i] = Blank
                                /\ (i = 1 \/ wire[i - 1].kind # "byte")}
Trailers ==
  /\ step = "body" /\ bodyStatus = "cr" /\ blocksize = -1 /\ Blanks # {}
  /\ LET e == CHOOSE i \in Blanks : \A j \in Blanks : i <= j
     IN wire' = SubSeq(wire, e + 1, Len(wire))
  /\ bodyStatus' = "ready" /\ step' = "judge"
  /\ KeepBody /\ UNCHANGED <<blocksize, total, code, disk>>

\* Bytes of the body.  A read asks for no more than a chunk still owes, or
\* than the room of a body in memory; a body written to disk takes what comes
Room == IF total < 0 \/ (resp.disk /\ resp.framing = "length")
          THEN Len(wire) ELSE total - Len(got)
Data ==
  /\ step = "body" /\ bodyStatus = "data"
  /\ total < 0 \/ Len(got) # total
  /\ \E k \in 1..Len(wire) :
       /\ k <= Room
       /\ got' = got \o SubSeq(wire, 1, k)
       /\ wire' = SubSeq(wire, k + 1, Len(wire))
  /\ bodyStatus' = IF resp.framing = "chunked" /\ Len(got') = total
                 THEN "cr" ELSE "data"
  /\ disk' = IF Direct THEN [disk EXCEPT !.sav = Raw(got')] ELSE disk
  /\ UNCHANGED <<given, blocksize, total, code, adr, marks, entry, step>>

\* The announced length is reached, or the peer has closed
EndOfStream ==
  /\ step = "body"
  /\ \/ bodyStatus = "data" /\ (wire = <<>> \/ Len(got) = total)
     \/ bodyStatus = "wait" /\ Ends = {}
     \/ bodyStatus = "cr" /\ blocksize # -1 /\ Ends = {}
     \/ bodyStatus = "cr" /\ blocksize = -1 /\ Blanks = {}
  /\ bodyStatus' = "ready" /\ step' = "judge"
  /\ UNCHANGED <<given, wire, blocksize, total, got, code, adr, disk, marks,
                 entry>>

\* The connection or the disk fails: no back_finalize() before the release
ReadFails ==
  /\ step = "body"
  /\ code' \in {"failed"} \cup (IF resp.disk THEN {"io"} ELSE {})
  /\ bodyStatus' = "ready" /\ step' = "take"
  /\ UNCHANGED <<given, wire, blocksize, total, got, adr, disk, marks, entry>>

----------------------------------------------------------------------------
(* back_finalize(): the code is judged, the coding undone, the body        *)
(* entered; or the previous copy put back.                                 *)

Restored(d) == IF d.bak = "none" THEN d
               ELSE [d EXCEPT !.sav = d.bak, !.bak = "none"]

\* A body short of its length or of its last chunk is not entered
Refuse ==
  /\ step = "judge"
  /\ Short \/ Cut
  /\ ~resp.tolerant
  /\ disk' = Restored(disk)
  /\ marks' = marks \cup Note(disk') \cup {"finalized"}
  /\ step' = "verdict"
  /\ UNCHANGED <<given, line, code, adr, entry>>

\* A coding to undo: the bytes in memory are spooled first
Accept ==
  /\ step = "judge"
  /\ ~(Short \/ Cut) \/ resp.tolerant
  /\ step' = IF ~resp.coded \/ got = <<>> THEN "commit"
             ELSE IF resp.disk THEN "unpack" ELSE "spool"
  /\ marks' = marks \cup {"finalized"}
  /\ UNCHANGED <<given, line, code, adr, disk, entry>>

Spool ==
  /\ step = "spool" /\ step' = "unpack"
  /\ disk' = [disk EXCEPT !.z = "coded"]
  /\ UNCHANGED <<given, line, code, adr, marks, entry>>

\* No temporary name
SpoolFails ==
  /\ step = "spool" /\ step' = "commit"
  /\ code' = "invalid" /\ adr' = "none" /\ marks' = marks \cup Note(disk)
  /\ UNCHANGED <<given, line, disk, entry>>

\* The .z file is not there or lacks bytes: what is decoded of it is no page
SpoolShort ==
  /\ step = "spool" /\ step' = "unpack"
  /\ code' = "invalid" /\ disk' = [disk EXCEPT !.z = "part"]
  /\ UNCHANGED <<given, line, adr, marks, entry>>

\* hts_codec_unpack_max() gives a page only for a stream that is complete
Decodes == Whole(got) /\ disk.z = "coded"
Unpack ==
  /\ step = "unpack" /\ Decodes
  /\ disk' = [disk EXCEPT !.u = "page"] /\ step' = "swap"
  /\ UNCHANGED <<given, line, code, adr, marks, entry>>

\* Mutant: the copy left on disk is not noted
UnpackFailsUnnoted ==
  /\ step = "unpack"
  /\ code' \in {"invalid", "toobig"}
  /\ adr' = "none"
  /\ disk' = [disk EXCEPT !.z = "none"]
  /\ step' = "commit"
  /\ UNCHANGED <<given, line, marks, entry>>

\* A bad stream, a full disk, a name too long, or a page over -m
UnpackFails ==
  /\ step = "unpack"
  /\ code' \in {"invalid", "toobig"}
  /\ adr' = "none"
  /\ disk' = [disk EXCEPT !.z = "none"]
  /\ marks' = IF code' = "invalid" THEN marks \cup Note(disk) ELSE marks
  /\ step' = "commit"
  /\ UNCHANGED <<given, line, entry>>

\* The decoded file takes the place of the page, or is read into memory
Swap ==
  /\ step = "swap" /\ step' = "commit"
  /\ disk' = [disk EXCEPT !.z = "none", !.u = "none",
                          !.sav = IF resp.disk THEN "page" ELSE @]
  /\ adr' = IF resp.disk THEN adr ELSE "page"
  /\ marks' = IF resp.disk THEN marks \cup {"noted"} ELSE marks
  /\ UNCHANGED <<given, line, code, entry>>

\* A rename that fails may have removed its target, so the .u file stays
SwapFails ==
  /\ step = "swap" /\ step' = "commit"
  /\ code' = "invalid" /\ adr' = "none"
  /\ \/ resp.disk /\ disk' \in {[disk EXCEPT !.z = "none"],
                                [disk EXCEPT !.z = "none", !.sav = "none"]}
     \/ ~resp.disk /\ disk' = [disk EXCEPT !.z = "none", !.u = "none"]
  /\ marks' = marks \cup Note(disk')
  /\ UNCHANGED <<given, line, entry>>

\* The backup is dropped and cache_mayadd() enters what the slot holds
Commit ==
  /\ step = "commit" /\ step' = "verdict"
  /\ disk' = [disk EXCEPT !.bak = "none"]
  /\ entry' = IF code # "ok" THEN "none"
              ELSE IF resp.disk /\ "unopened" \notin marks THEN disk.sav
              ELSE IF resp.disk THEN Raw(got) ELSE Content
  /\ UNCHANGED <<given, line, code, adr, marks>>

\* An error: the previous copy is put back, and noted unless the error is a
\* verdict
Restore ==
  /\ step \in {"restore", "restoreLate"}
  /\ disk' = Restored(disk)
  /\ marks' = marks \cup {"finalized"}
                \cup (IF code = "toobig" THEN {} ELSE Note(disk'))
  /\ step' = IF step = "restore" THEN "take" ELSE "release"
  /\ UNCHANGED <<given, line, code, adr, entry>>

----------------------------------------------------------------------------
(* After back_finalize(). *)

\* The end of a stream: an unterminated or short body is to be asked again
Verdict ==
  /\ step = "verdict" /\ "badLine" \notin marks
  /\ step' = "take"
  /\ LET bad == code = "ok" /\ (Cut \/ Short) /\ ~resp.tolerant
     IN /\ adr' = IF bad THEN "none" ELSE adr
        /\ code' = IF bad /\ (Cut \/ Len(got) < total) THEN "failed" ELSE code
  /\ UNCHANGED <<given, line, disk, marks, entry>>

\* "Invalid chunk"
Invalid ==
  /\ step = "verdict" /\ "badLine" \in marks
  /\ step' = "take"
  /\ adr' = "none" /\ code' = "invalid"
  /\ UNCHANGED <<given, line, disk, marks, entry>>

\* httpmirror() writes a body that is not on disk yet, in place
InMemory == ~resp.disk \/ "unopened" \in marks
Save ==
  /\ step = "take" /\ step' = "release"
  /\ code = "ok" /\ InMemory
  /\ adr # "none" \/ got = <<>>
  /\ disk' = [disk EXCEPT !.sav = IF adr = "none" THEN Raw(got) ELSE Content]
  /\ marks' = marks \cup {"noted", "overwritten"}
  /\ UNCHANGED <<given, line, code, adr, entry>>

NotSaved ==
  /\ step = "take"
  /\ ~(code = "ok" /\ InMemory /\ (adr # "none" \/ got = <<>>))
  /\ step' = IF "finalized" \notin marks
               THEN "restoreLate" ELSE "release"
  /\ UNCHANGED <<given, line, code, adr, disk, marks, entry>>

\* back_delete() clears the slot; then the purge of an update removes what
\* the list does not name
Release ==
  /\ step = "release" /\ step' = "purge"
  /\ disk' = [disk EXCEPT !.z = "none"]
  /\ UNCHANGED <<given, line, code, adr, marks, entry>>

Purge ==
  /\ step = "purge" /\ step' = "done"
  /\ disk' = IF "noted" \in marks THEN disk ELSE [disk EXCEPT !.sav = "none"]
  /\ UNCHANGED <<given, line, code, adr, marks, entry>>

Done == step = "done" /\ UNCHANGED bodyVars

Decode == \/ SizeLine \/ LastLine \/ TooBigLine \/ BadLine \/ DataEnd
          \/ Trailers \/ Data \/ EndOfStream \/ ReadFails
Finalize == \/ Refuse \/ Accept \/ Spool \/ SpoolFails \/ SpoolShort \/ Unpack
            \/ UnpackFails \/ Swap \/ SwapFails \/ Commit \/ Restore
BodyNext == \/ Create \/ CreateFails \/ Decode \/ Finalize \/ Verdict \/ Invalid
            \/ Save \/ NotSaved \/ Release \/ Purge \/ Done

BodySpec == BodyInit /\ [][BodyNext]_bodyVars

----------------------------------------------------------------------------
(* Properties. *)

\* The framing or the coding tells the client what a whole body is
Framed == /\ ~resp.tolerant
          /\ resp.framing # "close" \/ (resp.coded /\ got # <<>>)

\* A body that its framing or its coding shows to be cut or damaged never
\* enters the cache: the size lines, the two line states and the block size
\* they share, and the early finalize of a bad line, let no prefix and no
\* misread line through as a page.  Coded bytes are never taken for the page, in
\* the mirror or in the cache, whichever of the steps of the decoding fails.
WholeOrRefused ==
  /\ Framed => entry # "part"
  /\ "coded" \notin {disk.sav, entry}

\* At every step, so also if the program is killed there, the copy an update
\* came for is on disk under its name or its backup's, or the new page is, or
\* only its decoded file is left by a rename that failed: until the update
\* drops the copy on a verdict, or a page in memory is saved over it.
CopyOutlivesFailure ==
  (resp.had /\ Framed /\ body > 0 /\ "overwritten" \notin marks)
    => \/ "old" \in {disk.sav, disk.bak}
       \/ "page" \in {disk.sav, disk.u}
       \/ step = "done" /\ code = "toobig"

=============================================================================
