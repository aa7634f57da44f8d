------------------------------ MODULE EventLog ------------------------------
(***************************************************************************)
(* The append-only JSONL event log of lsec (event_log.go).  append writes  *)
(* one record and its newline with a single Fprintf under an exclusive     *)
(* flock on the log itself; forEach reads every line under the same lock   *)
(* and its callers skip a line that does not parse.                        *)
(*                                                                         *)
(* A write can be cut at any byte: the disk fills up, or the process dies. *)
(* What the cut leaves is told apart by what a reader makes of it: nothing,*)
(* a prefix that is not JSON, the whole JSON text without its newline, or  *)
(* the whole line.  The next append starts where the file ends, so after a *)
(* cut it continues the unfinished line.                                   *)
(***************************************************************************)
EXTENDS Naturals, Sequences, FiniteSets

CONSTANTS
  Procs,      \* processes that append to or read the log
  NoProc,     \* nobody holds the lock
  MaxEvents,  \* bound on the number of appends begun
  MaxReads    \* bound on the number of reads begun

ASSUME EventLogAssumption ==
  /\ NoProc \notin Procs
  /\ MaxEvents \in Nat
  /\ MaxReads \in Nat

VARIABLES
  lines,      \* the lines of the file: the events with bytes in a line, and
              \* whether the line is the JSON text of one event
  open,       \* the last line has no newline yet
  holder,     \* the holder of the flock
  pc,         \* where each process is
  ev,         \* the event a process appends
  written,    \* how much of it is in the file
  pos,        \* the lines a reader has read
  got,        \* the events it has found in them
  next,       \* the next event
  reads,      \* number of reads begun
  acked,      \* history: events whose append returned success
  cut         \* history: events whose write stopped half way

vars == <<lines, open, holder, pc, ev, written, pos, got, next, reads, acked, cut>>

Events == 1 .. MaxEvents
Line   == [evs : SUBSET Events, ok : BOOLEAN]
Parts  == {"none", "prefix", "body", "line"}
Places == {"idle", "lock", "write", "fail", "done", "readlock", "read", "readdone"}

TypeOK ==
  /\ lines \in Seq(Line)
  /\ open \in BOOLEAN
  /\ holder \in Procs \cup {NoProc}
  /\ pc \in [Procs -> Places]
  /\ ev \in [Procs -> 0 .. MaxEvents]
  /\ written \in [Procs -> Parts]
  /\ pos \in [Procs -> Nat]
  /\ got \in [Procs -> SUBSET Events]
  /\ next \in 1 .. (MaxEvents + 1)
  /\ reads \in 0 .. MaxReads
  /\ acked \subseteq Events
  /\ cut \subseteq Events

Init ==
  /\ lines = <<>>
  /\ open = FALSE
  /\ holder = NoProc
  /\ pc = [p \in Procs |-> "idle"]
  /\ ev = [p \in Procs |-> 0]
  /\ written = [p \in Procs |-> "none"]
  /\ pos = [p \in Procs |-> 0]
  /\ got = [p \in Procs |-> {}]
  /\ next = 1
  /\ reads = 0
  /\ acked = {}
  /\ cut = {}

Moves(p, from, to) == pc[p] = from /\ pc' = [pc EXCEPT ![p] = to]

\* The events a reader finds: parseEventLogRow drops every other line.
Parsed(line) == IF line.ok THEN line.evs ELSE {}
Readable == UNION {Parsed(lines[i]) : i \in DOMAIN lines}

(***************************************************************************)
(* append                                                                  *)
(***************************************************************************)
\* AppendEvent marshals the report and takes the time before it locks.
BeginAppend(p) ==
  /\ Moves(p, "idle", "lock")
  /\ next <= MaxEvents
  /\ ev' = [ev EXCEPT ![p] = next]
  /\ written' = [written EXCEPT ![p] = "none"]
  /\ next' = next + 1
  /\ UNCHANGED <<lines, open, holder, pos, got, reads, acked, cut>>

\* Wrong variants of a definition (named after the definition, with a suffix)
\* stand before it: each is a bug the properties below must notice.
Lock_NoWait(p) ==
  /\ \/ Moves(p, "lock", "write")
     \/ Moves(p, "readlock", "read")
  /\ holder' = p
  /\ UNCHANGED <<lines, open, ev, written, pos, got, next, reads, acked, cut>>

\* flock(LOCK_EX) on the log file, for an append and for a read.
Lock(p) ==
  /\ holder = NoProc
  /\ \/ Moves(p, "lock", "write")
     \/ Moves(p, "readlock", "read")
  /\ holder' = p
  /\ UNCHANGED <<lines, open, ev, written, pos, got, next, reads, acked, cut>>

\* Opening or locking the file fails: nothing is written.
CannotAppend(p) ==
  /\ Moves(p, "lock", "idle")
  /\ UNCHANGED <<lines, open, holder, ev, written, pos, got, next, reads, acked, cut>>

\* The lines once the bytes of e up to part `to` are in the file.
Extended(e, to) ==
  LET n == Len(lines)
  IN  IF open
      THEN [lines EXCEPT ![n] = [evs |-> lines[n].evs \cup {e},
                                 ok  |-> lines[n].evs = {e} /\ to # "prefix"]]
      ELSE Append(lines, [evs |-> {e}, ok |-> to # "prefix"])

\* The parts that come after a part.
After(part) ==
  IF part = "none" THEN {"prefix", "body", "line"}
  ELSE IF part = "prefix" THEN {"body", "line"}
  ELSE IF part = "body" THEN {"line"}
  ELSE {}

Write_NoNewline(p) ==
  /\ pc[p] = "write"
  /\ \E to \in After(written[p]) :
       /\ lines' = Extended(ev[p], to)
       /\ open' = TRUE
       /\ written' = [written EXCEPT ![p] = to]
       /\ pc' = [pc EXCEPT ![p] = IF to = "line" THEN "done" ELSE "write"]
  /\ UNCHANGED <<holder, ev, pos, got, next, reads, acked, cut>>

\* write(2) puts a first or a further part of the record into the file.
Write(p) ==
  /\ pc[p] = "write"
  /\ \E to \in After(written[p]) :
       /\ lines' = Extended(ev[p], to)
       /\ open' = (to # "line")
       /\ written' = [written EXCEPT ![p] = to]
       /\ pc' = [pc EXCEPT ![p] = IF to = "line" THEN "done" ELSE "write"]
  /\ UNCHANGED <<holder, ev, pos, got, next, reads, acked, cut>>

\* write(2) returns an error, for example because the disk is full.
WriteFails(p) ==
  /\ Moves(p, "write", "fail")
  /\ cut' = IF written[p] = "none" THEN cut ELSE cut \cup {ev[p]}
  /\ UNCHANGED <<lines, open, holder, ev, written, pos, got, next, reads, acked>>

Unlock_AcksFailure(p) ==
  /\ \/ Moves(p, "done", "idle") /\ acked' = acked \cup {ev[p]}
     \/ Moves(p, "fail", "idle") /\ acked' = acked \cup {ev[p]}
     \/ Moves(p, "readdone", "idle") /\ UNCHANGED acked
  /\ holder' = NoProc
  /\ UNCHANGED <<lines, open, ev, written, pos, got, next, reads, cut>>

\* The deferred unlock; append returns success only for a whole line.
Unlock(p) ==
  /\ \/ Moves(p, "done", "idle") /\ acked' = acked \cup {ev[p]}
     \/ Moves(p, "fail", "idle") /\ UNCHANGED acked
     \/ Moves(p, "readdone", "idle") /\ UNCHANGED acked
  /\ holder' = NoProc
  /\ UNCHANGED <<lines, open, ev, written, pos, got, next, reads, cut>>

(***************************************************************************)
(* forEach                                                                 *)
(***************************************************************************)
BeginRead(p) ==
  /\ Moves(p, "idle", "readlock")
  /\ reads < MaxReads
  /\ reads' = reads + 1
  /\ pos' = [pos EXCEPT ![p] = 0]
  /\ got' = [got EXCEPT ![p] = {}]
  /\ UNCHANGED <<lines, open, holder, ev, written, next, acked, cut>>

ReadLine_StopsAtBadLine(p) ==
  /\ pc[p] = "read"
  /\ pos[p] < Len(lines)
  /\ pos' = [pos EXCEPT ![p] = IF lines[pos[p] + 1].ok THEN @ + 1 ELSE Len(lines)]
  /\ got' = [got EXCEPT ![p] = @ \cup Parsed(lines[pos[p] + 1])]
  /\ UNCHANGED <<lines, open, holder, pc, ev, written, next, reads, acked, cut>>

\* ReadBytes returns the next line, the last one also without a newline.
ReadLine(p) ==
  /\ pc[p] = "read"
  /\ pos[p] < Len(lines)
  /\ pos' = [pos EXCEPT ![p] = @ + 1]
  /\ got' = [got EXCEPT ![p] = @ \cup Parsed(lines[pos[p] + 1])]
  /\ UNCHANGED <<lines, open, holder, pc, ev, written, next, reads, acked, cut>>

ReadEOF(p) ==
  /\ pos[p] = Len(lines)
  /\ Moves(p, "read", "readdone")
  /\ UNCHANGED <<lines, open, holder, ev, written, pos, got, next, reads, acked, cut>>

(***************************************************************************)
(* A process dies; the kernel gives its lock back.                         *)
(***************************************************************************)
Crash_BlamesReader(p) ==
  /\ pc[p] # "idle"
  /\ pc' = [pc EXCEPT ![p] = "idle"]
  /\ holder' = IF holder = p THEN NoProc ELSE holder
  /\ cut' = cut \cup {ev[p]}
  /\ UNCHANGED <<lines, open, ev, written, pos, got, next, reads, acked>>

Crash(p) ==
  /\ pc[p] # "idle"
  /\ pc' = [pc EXCEPT ![p] = "idle"]
  /\ holder' = IF holder = p THEN NoProc ELSE holder
  /\ cut' = IF pc[p] = "write" /\ written[p] # "none" THEN cut \cup {ev[p]} ELSE cut
  /\ UNCHANGED <<lines, open, ev, written, pos, got, next, reads, acked>>

Next ==
  \E p \in Procs :
    \/ BeginAppend(p) \/ Lock(p) \/ CannotAppend(p) \/ Write(p) \/ WriteFails(p)
    \/ Unlock(p) \/ BeginRead(p) \/ ReadLine(p) \/ ReadEOF(p) \/ Crash(p)

Spec == Init /\ [][Next]_vars

(***************************************************************************)
(* Properties.                                                             *)
(***************************************************************************)
\* An event whose append returned success can be read, unless the write
\* before it was cut: then it continues that line, and the line is lost.
AckedReadable ==
  \A e \in acked :
    \/ e \in Readable
    \/ \E i \in DOMAIN lines : e \in lines[i].evs /\ lines[i].evs \cap cut # {}

\* One cut write costs at most one acknowledged event: no two of them ever
\* share a line, whoever appends and dies in between.
OneLossPerCut ==
  \A i \in DOMAIN lines : \A e, f \in lines[i].evs \cap acked : e = f

\* What readers have been able to see stays visible: an event is never made
\* unreadable by later appends, except one whose own write was cut just
\* before its newline.
ReadableStays == [][\A e \in Readable \ cut : e \in Readable']_vars

\* A read returns the log as it is at the moment it ends: no event is missed
\* or seen half written because it is appended while the read goes on.
ReadIsSnapshot == \A p \in Procs : pc[p] = "readdone" => got[p] = Readable

\* An event is before another when its line is.
Order ==
  {pair \in Events \X Events :
     \E i, j \in DOMAIN lines : i < j /\ pair[1] \in Parsed(lines[i]) /\ pair[2] \in Parsed(lines[j])}

\* A process that has put a part of its event into the file.
Partial(p) == pc[p] = "write" /\ written[p] \in {"prefix", "body"}

\* Its event continues a line that another one began.
Glued(p) == written[p] # "none" /\ lines[Len(lines)].evs # {ev[p]}

StageOf(p) ==
  IF pc[p] \in {"idle", "fail"} THEN "idle"
  ELSE IF pc[p] \in {"readlock", "read"} THEN "read"
  ELSE IF pc[p] = "readdone" THEN "answered"
  ELSE IF Glued(p) THEN "glued"
  ELSE IF written[p] \in {"body", "line"} THEN "put" ELSE "append"

CallOf(p) ==
  [stage  |-> StageOf(p),
   event  |-> IF pc[p] \in {"lock", "write", "done"} THEN ev[p] ELSE 0,
   answer |-> IF pc[p] = "readdone" THEN got[p] ELSE {}]

Abstract == INSTANCE AtomicLog WITH
  NoEvent    <- 0,
  log        <- Readable,
  before     <- Order,
  unfinished <- open /\ \A p \in Procs : ~Partial(p),
  begun      <- 1 .. (next - 1),
  call       <- [p \in Procs |-> CallOf(p)]

\* The log implements the atomic one: an append takes effect in one step, behind
\* all that was read before, or is lost to one cut write just before it; and a
\* read is the log of one moment.
ImplementsAtomicLog == Abstract!Spec
=============================================================================
