--------------------------- MODULE EventLogProofs ---------------------------
(***************************************************************************)
(* Proofs about EventLog, for any processes and any number of appends.     *)
(***************************************************************************)
EXTENDS EventLog, SequenceTheorems, TLAPS

(***************************************************************************)
(* The inductive invariant.                                                *)
(***************************************************************************)
\* The flock: exactly the holder is inside append or forEach.
HoldInv ==
  \A p \in Procs :
    pc[p] \in {"write", "fail", "done", "read", "readdone"} <=> holder = p

\* Event numbers: those given out are used by one process each, those not
\* given out appear nowhere, and an event not begun to be written is nowhere.
Busy(p) == pc[p] \in {"lock", "write", "done", "fail"}

Nowhere(e) == e \notin acked /\ e \notin cut /\ \A i \in DOMAIN lines : e \notin lines[i].evs

NumberInv ==
  /\ \A p \in Procs : ev[p] < next
  /\ \A p, q \in Procs : Busy(p) /\ Busy(q) /\ ev[p] = ev[q] => p = q
  /\ \A p \in Procs : Busy(p) => ev[p] \in Events /\ ev[p] \notin acked
  /\ \A p \in Procs : Busy(p) /\ pc[p] # "fail" => ev[p] \notin cut
  /\ \A p \in Procs : pc[p] = "lock" => written[p] = "none"
  /\ \A p \in Procs : pc[p] \in {"lock", "write"} /\ written[p] = "none" => Nowhere(ev[p])
  /\ \A e \in Events : e >= next => Nowhere(e)

\* An unfinished last line holds bytes of cut events and of the writer only.
TailInv ==
  /\ open => Len(lines) > 0
  /\ open => \A e \in lines[Len(lines)].evs :
                 e \in cut \/ \E p \in Procs : Partial(p) /\ ev[p] = e
  /\ \A p \in Procs : Partial(p) =>
       /\ open
       /\ ev[p] \in lines[Len(lines)].evs
       /\ lines[Len(lines)].ok <=> (lines[Len(lines)].evs = {ev[p]} /\ written[p] = "body")
  /\ \A p \in Procs : pc[p] = "write" => written[p] # "line"

\* A line has at most one event that was not cut, and a line that reads as
\* an event is that event.
LineInv ==
  /\ \A i \in DOMAIN lines : lines[i].evs # {}
  /\ \A i \in DOMAIN lines : \A e, f \in lines[i].evs \ cut : e = f
  /\ \A i \in DOMAIN lines : lines[i].ok => \A e, f \in lines[i].evs : e = f

\* A whole line has been written for e, whatever it was glued to.
Landed(e) == \E i \in DOMAIN lines : /\ e \in lines[i].evs
                                     /\ lines[i].ok \/ lines[i].evs \cap cut # {}

AckInv ==
  /\ \A e \in acked : e \notin cut /\ Landed(e)
  /\ \A p \in Procs : pc[p] = "done" => Landed(ev[p])

LogInv == HoldInv /\ NumberInv /\ TailInv /\ LineInv /\ AckInv

LEMMA InitInv == Init => TypeOK /\ LogInv
<1> SUFFICES ASSUME Init PROVE TypeOK /\ LogInv
  OBVIOUS
<1> USE EventLogAssumption DEF Init
<1>1. lines \in Seq(Line) /\ DOMAIN lines = {}
  BY EmptySeq
<1>2. TypeOK
  <2>1. next \in 1 .. (MaxEvents + 1) /\ reads \in 0 .. MaxReads /\ ev \in [Procs -> 0 .. MaxEvents]
    OBVIOUS
  <2> QED
    BY <1>1, <2>1 DEF TypeOK, Places, Parts
<1>3. HoldInv /\ NumberInv
  BY <1>1 DEF HoldInv, NumberInv, Busy, Nowhere, Events
<1>4. TailInv /\ LineInv /\ AckInv
  BY <1>1 DEF TailInv, LineInv, AckInv, Partial
<1> QED
  BY <1>2, <1>3, <1>4 DEF LogInv

\* What a write does to the lines.
LEMMA WriteShape ==
  ASSUME TypeOK, NumberInv, TailInv, NEW p \in Procs, Write(p)
  PROVE  \E to \in After(written[p]) :
           /\ open' = (to # "line") /\ written' = [written EXCEPT ![p] = to]
           /\ pc' = [pc EXCEPT ![p] = IF to = "line" THEN "done" ELSE "write"]
           /\ lines' \in Seq(Line) /\ DOMAIN lines = 1 .. Len(lines) /\ Len(lines) \in Nat
           /\ DOMAIN lines' = 1 .. Len(lines') /\ to \in Parts /\ ev[p] \in Events
           /\ open => /\ Len(lines) > 0 /\ Len(lines') = Len(lines)
                      /\ \A i \in DOMAIN lines : i # Len(lines) => lines'[i] = lines[i]
                      /\ lines'[Len(lines)].evs = lines[Len(lines)].evs \cup {ev[p]}
                      /\ lines'[Len(lines)].ok = (lines[Len(lines)].evs = {ev[p]} /\ to # "prefix")
           /\ ~open => /\ Len(lines') = Len(lines) + 1
                       /\ \A i \in DOMAIN lines : lines'[i] = lines[i]
                       /\ lines'[Len(lines')].evs = {ev[p]}
                       /\ lines'[Len(lines')].ok = (to # "prefix")
<1>1. PICK to \in After(written[p]) :
        /\ lines' = Extended(ev[p], to) /\ open' = (to # "line")
        /\ written' = [written EXCEPT ![p] = to]
        /\ pc' = [pc EXCEPT ![p] = IF to = "line" THEN "done" ELSE "write"]
  BY DEF Write
<1>2. to \in Parts /\ ev[p] \in Events
  BY DEF After, Parts, Write, NumberInv, Busy
<1>3. lines \in Seq(Line) /\ DOMAIN lines = 1 .. Len(lines) /\ Len(lines) \in Nat
  BY LenProperties DEF TypeOK
<1>4. CASE open
  <2> DEFINE new == [evs |-> lines[Len(lines)].evs \cup {ev[p]},
                     ok |-> lines[Len(lines)].evs = {ev[p]} /\ to # "prefix"]
  <2>1. lines' = [lines EXCEPT ![Len(lines)] = new]
    BY <1>1, <1>4 DEF Extended
  <2>2. Len(lines) > 0 /\ Len(lines) \in 1 .. Len(lines)
    BY <1>3, <1>4 DEF TailInv
  <2>3. lines[Len(lines)] \in Line
    BY <1>3, <2>2
  <2>4. new \in Line
    BY <1>2, <2>3 DEF Line
  <2>5. lines' \in Seq(Line) /\ Len(lines') = Len(lines)
        /\ \A i \in 1 .. Len(lines) : lines'[i] = IF i = Len(lines) THEN new ELSE lines[i]
    <3> HIDE DEF new
    <3> QED
      BY <1>3, <2>1, <2>2, <2>4, ExceptSeq
  <2>6. DOMAIN lines' = 1 .. Len(lines')
    BY <2>5, LenProperties
  <2>7. lines'[Len(lines)] = new
    BY <2>2, <2>5
  <2>8. /\ lines'[Len(lines)].evs = lines[Len(lines)].evs \cup {ev[p]}
        /\ lines'[Len(lines)].ok = (lines[Len(lines)].evs = {ev[p]} /\ to # "prefix")
    BY <2>7
  <2>9. \A i \in DOMAIN lines : i # Len(lines) => lines'[i] = lines[i]
    BY <1>3, <2>5
  <2>10. lines' \in Seq(Line) /\ Len(lines') = Len(lines)
    BY <2>5
  <2> HIDE DEF new
  <2> WITNESS to \in After(written[p])
  <2> QED
    BY <1>1, <1>2, <1>3, <1>4, <2>2, <2>6, <2>8, <2>9, <2>10
<1>5. CASE ~open
  <2> DEFINE new == [evs |-> {ev[p]}, ok |-> to # "prefix"]
  <2>1. lines' = Append(lines, new)
    BY <1>1, <1>5 DEF Extended
  <2>2. new \in Line
    BY <1>2 DEF Line
  <2>3. /\ lines' \in Seq(Line) /\ Len(lines') = Len(lines) + 1
        /\ \A i \in 1 .. Len(lines) : lines'[i] = lines[i]
        /\ lines'[Len(lines) + 1] = new
    <3> HIDE DEF new
    <3> QED
      BY <1>3, <2>1, <2>2, AppendProperties
  <2>4. DOMAIN lines' = 1 .. Len(lines')
    BY <2>3, LenProperties
  <2>5. lines'[Len(lines')].evs = {ev[p]} /\ lines'[Len(lines')].ok = (to # "prefix")
    BY <2>3
  <2>6. \A i \in DOMAIN lines : lines'[i] = lines[i]
    BY <1>3, <2>3
  <2>7. Len(lines') = Len(lines) + 1
    BY <2>3
  <2>8. lines' \in Seq(Line)
    BY <2>3
  <2> HIDE DEF new
  <2> WITNESS to \in After(written[p])
  <2> QED
    BY <1>1, <1>2, <1>3, <1>5, <2>4, <2>5, <2>6, <2>7, <2>8
<1> QED
  BY <1>4, <1>5

LEMMA NextType == TypeOK /\ HoldInv /\ NumberInv /\ TailInv /\ [Next]_vars => TypeOK'
<1> SUFFICES ASSUME TypeOK, HoldInv, NumberInv, TailInv, [Next]_vars PROVE TypeOK'
  OBVIOUS
<1> USE EventLogAssumption DEF TypeOK, Places
<1>1. ASSUME NEW p \in Procs, BeginAppend(p) PROVE TypeOK'
  BY <1>1 DEF BeginAppend, Moves, Parts
<1>2. ASSUME NEW p \in Procs, Lock(p) PROVE TypeOK'
  BY <1>2 DEF Lock, Moves
<1>3. ASSUME NEW p \in Procs, Write(p) PROVE TypeOK'
  <2>1. lines' \in Seq(Line)
    BY <1>3, WriteShape
  <2>2. PICK to \in Parts : /\ open' = (to # "line") /\ written' = [written EXCEPT ![p] = to]
                           /\ pc' = [pc EXCEPT ![p] = IF to = "line" THEN "done" ELSE "write"]
    BY <1>3, WriteShape
  <2> QED
    BY <1>3, <2>1, <2>2 DEF Write
<1>4. ASSUME NEW p \in Procs, WriteFails(p) PROVE TypeOK'
  BY <1>4 DEF WriteFails, Moves, NumberInv, Busy
<1>5. ASSUME NEW p \in Procs, Unlock(p) PROVE TypeOK'
  BY <1>5 DEF Unlock, Moves, NumberInv, Busy
<1>6. ASSUME NEW p \in Procs, BeginRead(p) PROVE TypeOK'
  BY <1>6 DEF BeginRead, Moves
<1>7. ASSUME NEW p \in Procs, ReadLine(p) PROVE TypeOK'
  <2>1. lines[pos[p] + 1] \in Line
    BY <1>7 DEF ReadLine
  <2>2. Parsed(lines[pos[p] + 1]) \subseteq Events
    BY <2>1 DEF Parsed, Line
  <2> QED
    BY <1>7, <2>2 DEF ReadLine
<1>8. ASSUME NEW p \in Procs, ReadEOF(p) \/ CannotAppend(p) PROVE TypeOK'
  BY <1>8 DEF ReadEOF, CannotAppend, Moves
<1>9. ASSUME NEW p \in Procs, Crash(p) PROVE TypeOK'
  BY <1>9 DEF Crash, NumberInv, Busy
<1>10. CASE UNCHANGED vars
  BY <1>10 DEF vars
<1> QED
  BY <1>1, <1>2, <1>3, <1>4, <1>5, <1>6, <1>7, <1>8, <1>9, <1>10 DEF Next

(***************************************************************************)
(* The steps that leave the file alone, and the step that writes.          *)
(***************************************************************************)
LEMMA QuietFrame ==
  ASSUME TypeOK, LogInv, [Next]_vars, \A p \in Procs : ~Write(p)
  PROVE  /\ lines' = lines /\ open' = open /\ cut \subseteq cut'
         /\ written' = written \/ \E p \in Procs : BeginAppend(p)
BY DEF Next, vars, BeginAppend, Lock, CannotAppend, WriteFails, Unlock, BeginRead, ReadLine,
       ReadEOF, Crash

LEMMA HoldNext ==
  ASSUME TypeOK, HoldInv, [Next]_vars
  PROVE  HoldInv'
<1> USE EventLogAssumption DEF TypeOK, HoldInv
<1>1. ASSUME NEW p \in Procs, BeginAppend(p) \/ CannotAppend(p) \/ WriteFails(p) \/ BeginRead(p) \/ ReadEOF(p)
      PROVE  HoldInv'
  BY <1>1 DEF BeginAppend, CannotAppend, WriteFails, BeginRead, ReadEOF, Moves
<1>2. ASSUME NEW p \in Procs, Lock(p) PROVE HoldInv'
  BY <1>2 DEF Lock, Moves
<1>3. ASSUME NEW p \in Procs, Write(p) PROVE HoldInv'
  <2>1. pc[p] = "write" /\ holder' = holder /\ \E place \in {"done", "write"} : pc' = [pc EXCEPT ![p] = place]
    BY <1>3 DEF Write
  <2> QED
    BY <2>1
<1>4. ASSUME NEW p \in Procs, Unlock(p) PROVE HoldInv'
  BY <1>4 DEF Unlock, Moves
<1>5. ASSUME NEW p \in Procs, ReadLine(p) PROVE HoldInv'
  BY <1>5 DEF ReadLine
<1>6. ASSUME NEW p \in Procs, Crash(p) PROVE HoldInv'
  BY <1>6 DEF Crash
<1>7. CASE UNCHANGED vars
  BY <1>7 DEF vars
<1> QED
  BY <1>1, <1>2, <1>3, <1>4, <1>5, <1>6, <1>7 DEF Next

LEMMA NumberNext ==
  ASSUME TypeOK, LogInv, TypeOK', [Next]_vars
  PROVE  NumberInv'
<1> USE DEF NumberInv, Busy, Nowhere
<1> NumberInv
  BY DEF LogInv
<1>1. ASSUME NEW p \in Procs, BeginAppend(p) PROVE NumberInv'
  BY <1>1 DEF BeginAppend, Moves, TypeOK, Events
<1>2. ASSUME NEW p \in Procs,
             Lock(p) \/ CannotAppend(p) \/ BeginRead(p) \/ ReadLine(p) \/ ReadEOF(p)
      PROVE  NumberInv'
  <2>1. UNCHANGED <<lines, ev, written, next, acked, cut>>
    BY <1>2 DEF Lock, CannotAppend, BeginRead, ReadLine, ReadEOF
  <2>2. \A q \in Procs :
          \/ pc'[q] = pc[q]
          \/ pc[q] = "lock" /\ pc'[q] = "write"
          \/ pc'[q] \in {"idle", "read", "readlock", "readdone"}
    BY <1>2 DEF Lock, CannotAppend, BeginRead, ReadLine, ReadEOF, Moves, TypeOK
  <2> QED
    BY <2>1, <2>2
<1>3. ASSUME NEW p \in Procs, Write(p) PROVE NumberInv'
  <2>1. \A e : e \notin cut /\ e # ev[p] /\ (\A i \in DOMAIN lines : e \notin lines[i].evs)
              => \A i \in DOMAIN lines' : e \notin lines'[i].evs
    BY <1>3, WriteShape DEF LogInv
  <2>2. PICK to \in Parts \ {"none"} :
          /\ written' = [written EXCEPT ![p] = to]
          /\ pc' = [pc EXCEPT ![p] = IF to = "line" THEN "done" ELSE "write"]
    BY <1>3, WriteShape DEF LogInv, After
  <2>3. pc[p] = "write" /\ UNCHANGED <<ev, next, acked, cut>>
    BY <1>3 DEF Write
  <2>4. \A q \in Procs : q # p => pc'[q] = pc[q] /\ written'[q] = written[q]
    BY <2>2 DEF TypeOK
  <2>5. pc'[p] \in {"write", "done"} /\ written'[p] # "none"
    BY <2>2 DEF TypeOK
  <2>6. ev[p] < next /\ next \in Nat /\ ev[p] \in Nat /\ ev[p] \notin acked /\ ev[p] \notin cut
    BY <2>3 DEF TypeOK
  <2>7. \A q \in Procs : q # p /\ Busy(q) => ev[q] # ev[p]
    BY <2>3
  <2>8. \A e : Nowhere(e) /\ e # ev[p] => Nowhere(e)'
    BY <2>1, <2>3
  <2>9. \A q \in Procs : q # p /\ (pc'[q] \in {"lock", "write"} /\ written'[q] = "none") => Nowhere(ev[q])'
    BY <2>3, <2>4, <2>7, <2>8
  <2>10. \A e \in Events : e >= next => e # ev[p]
    BY <2>6 DEF Events
  <2> HIDE DEF Nowhere
  <2> QED
    BY <2>3, <2>4, <2>5, <2>6, <2>8, <2>9, <2>10
<1>4. ASSUME NEW p \in Procs, WriteFails(p) PROVE NumberInv'
  BY <1>4 DEF WriteFails, Moves, TypeOK, Events
<1>5. ASSUME NEW p \in Procs, Unlock(p) PROVE NumberInv'
  <2>1. /\ UNCHANGED <<lines, ev, written, next, cut>>
        /\ pc[p] \in {"done", "fail", "readdone"} /\ pc' = [pc EXCEPT ![p] = "idle"]
        /\ acked' = acked \/ (pc[p] \in {"done", "fail"} /\ acked' = acked \cup {ev[p]})
    BY <1>5 DEF Unlock, Moves
  <2>2. \A q \in Procs : q # p => pc'[q] = pc[q]
    BY <2>1 DEF TypeOK
  <2>3. ~(pc'[p] \in {"lock", "write", "done", "fail"})
    BY <2>1 DEF TypeOK
  <2>4. \A e \in acked' : e \in acked \/ (e = ev[p] /\ pc[p] \in {"done", "fail"})
    BY <2>1
  <2>5. ev[p] < next /\ next \in Nat /\ ev[p] \in Nat
    BY DEF TypeOK
  <2>6. \A q \in Procs : q # p /\ Busy(q) /\ pc[p] \in {"done", "fail"} => ev[q] # ev[p]
    OBVIOUS
  <2> QED
    BY <2>1, <2>2, <2>3, <2>4, <2>5, <2>6 DEF Events
<1>7. ASSUME NEW p \in Procs, Crash(p) PROVE NumberInv'
  BY <1>7 DEF Crash, TypeOK, Events
<1>8. CASE UNCHANGED vars
  BY <1>8 DEF vars
<1> QED
  BY <1>1, <1>2, <1>3, <1>4, <1>5, <1>7, <1>8 DEF Next

\* The writer is alone: nobody else has a part of an event in the file.
LEMMA OneWriter ==
  ASSUME TypeOK, HoldInv, NEW p \in Procs, pc[p] = "write"
  PROVE  \A q \in Procs : q # p => pc[q] \notin {"write", "done", "fail", "read", "readdone"}
BY DEF HoldInv

LEMMA TailNext ==
  ASSUME TypeOK, LogInv, TypeOK', [Next]_vars
  PROVE  TailInv'
<1> USE DEF TailInv, Partial
<1> TailInv
  BY DEF LogInv
<1>1. ASSUME NEW p \in Procs, BeginAppend(p) PROVE TailInv'
  BY <1>1 DEF BeginAppend, Moves, TypeOK
<1>2. ASSUME NEW p \in Procs, Lock(p) PROVE TailInv'
  BY <1>2 DEF Lock, Moves, TypeOK, LogInv, NumberInv
<1>3. ASSUME NEW p \in Procs, CannotAppend(p) \/ BeginRead(p) \/ ReadEOF(p) \/ Unlock(p)
      PROVE  TailInv'
  <2>1. UNCHANGED <<lines, open, ev, written, cut>>
    BY <1>3 DEF CannotAppend, BeginRead, ReadEOF, Unlock
  <2>2. \A q \in Procs : (pc'[q] # "write" /\ pc[q] # "write") \/ pc'[q] = pc[q]
    BY <1>3 DEF CannotAppend, BeginRead, ReadEOF, Unlock, Moves, TypeOK
  <2> QED
    BY <2>1, <2>2
<1>4. ASSUME NEW p \in Procs, Write(p) PROVE TailInv'
  <2>1. \A q \in Procs : q # p => ~Partial(q) /\ pc[q] # "write"
    BY <1>4, OneWriter DEF Write, LogInv
  <2>2. PICK to \in After(written[p]) :
          /\ open' = (to # "line") /\ written' = [written EXCEPT ![p] = to]
          /\ pc' = [pc EXCEPT ![p] = IF to = "line" THEN "done" ELSE "write"]
          /\ open => /\ Len(lines) > 0 /\ Len(lines') = Len(lines)
                     /\ lines'[Len(lines)].evs = lines[Len(lines)].evs \cup {ev[p]}
                     /\ lines'[Len(lines)].ok = (lines[Len(lines)].evs = {ev[p]} /\ to # "prefix")
          /\ ~open => /\ Len(lines') = Len(lines) + 1
                      /\ lines'[Len(lines')].evs = {ev[p]}
                      /\ lines'[Len(lines')].ok = (to # "prefix")
          /\ Len(lines) \in Nat /\ DOMAIN lines = 1 .. Len(lines)
    BY <1>4, WriteShape DEF LogInv
  <2>3. pc[p] = "write" /\ UNCHANGED <<ev, cut>> /\ to \in {"prefix", "body", "line"}
    BY <1>4 DEF Write, After
  <2>4. ev[p] \notin cut
    BY <2>3 DEF LogInv, NumberInv, Busy
  <2>5. \A q \in Procs : q # p => pc'[q] # "write"
    BY <2>1, <2>2 DEF TypeOK
  <2>6. (pc'[p] = "write" <=> to # "line") /\ written'[p] = to
    BY <2>2 DEF TypeOK
  <2>7. ~open => written[p] = "none"
    BY <2>3 DEF TypeOK, Parts
  <2>8. written[p] = "none" /\ open => ev[p] \notin lines[Len(lines)].evs
    BY <2>2, <2>3 DEF LogInv, NumberInv, Nowhere
  <2>9. open => \A e \in lines[Len(lines)].evs : e \in cut \/ e = ev[p]
    BY <2>1
  <2>10. to # "line" => /\ Len(lines') > 0
                        /\ ev[p] \in lines'[Len(lines')].evs
                        /\ \A e \in lines'[Len(lines')].evs : e \in cut \/ e = ev[p]
    BY <2>2, <2>9
  <2>11. to # "line" => (lines'[Len(lines')].ok <=> (lines'[Len(lines')].evs = {ev[p]} /\ to = "body"))
    <3>1. CASE ~open
      BY <2>2, <2>3, <3>1
    <3>2. CASE open /\ written[p] = "none"
      <4>1. lines[Len(lines)].evs # {}
        BY <2>2, <3>2 DEF LogInv, LineInv
      <4>2. PICK f \in lines[Len(lines)].evs : f # ev[p]
        BY <2>8, <3>2, <4>1
      <4>3. lines[Len(lines)].evs # {ev[p]} /\ lines[Len(lines)].evs \cup {ev[p]} # {ev[p]}
        BY <4>2
      <4> QED
        BY <2>2, <3>2, <4>3
    <3>3. CASE open /\ written[p] # "none"
      <4>1. Partial(p)
        BY <2>3, <3>3 DEF TypeOK, Parts
      <4> QED
        BY <2>2, <2>3, <3>3, <4>1
    <3> QED
      BY <3>1, <3>2, <3>3
  <2>12. \A q \in Procs : Partial(q)' <=> q = p /\ to # "line"
    BY <2>3, <2>5, <2>6
  <2>13. open' <=> to # "line"
    BY <2>2
  <2>14. open' => \A e \in lines'[Len(lines')].evs :
                     e \in cut' \/ \E q \in Procs : Partial(q)' /\ ev'[q] = e
    BY <2>3, <2>10, <2>12, <2>13
  <2>15. \A q \in Procs : Partial(q)' =>
            /\ open'
            /\ ev'[q] \in lines'[Len(lines')].evs
            /\ lines'[Len(lines')].ok <=> (lines'[Len(lines')].evs = {ev'[q]} /\ written'[q] = "body")
    BY <2>3, <2>6, <2>10, <2>11, <2>12, <2>13
  <2>16. \A q \in Procs : pc'[q] = "write" => written'[q] # "line"
    BY <2>5, <2>6
  <2> HIDE DEF Partial
  <2> QED
    BY <2>10, <2>13, <2>14, <2>15, <2>16
<1>5. ASSUME NEW p \in Procs, WriteFails(p) PROVE TailInv'
  BY <1>5 DEF WriteFails, Moves, TypeOK, Parts
<1>6. ASSUME NEW p \in Procs, ReadLine(p) PROVE TailInv'
  BY <1>6 DEF ReadLine
<1>7. ASSUME NEW p \in Procs, Crash(p) PROVE TailInv'
  BY <1>7 DEF Crash, TypeOK, Parts
<1>8. CASE UNCHANGED vars
  BY <1>8 DEF vars
<1> QED
  BY <1>1, <1>2, <1>3, <1>4, <1>5, <1>6, <1>7, <1>8 DEF Next

LEMMA LineNext ==
  ASSUME TypeOK, LogInv, TypeOK', [Next]_vars
  PROVE  LineInv'
<1> USE DEF LineInv
<1> LineInv
  BY DEF LogInv
<1>1. CASE \A p \in Procs : ~Write(p)
  <2>1. lines' = lines /\ cut \subseteq cut'
    BY <1>1, QuietFrame
  <2> QED
    BY <2>1
<1>2. ASSUME NEW p \in Procs, Write(p) PROVE LineInv'
  <2>1. cut' = cut /\ pc[p] = "write"
    BY <1>2 DEF Write
  <2>2. open => \A e \in lines[Len(lines)].evs : e \in cut \/ e = ev[p]
    BY <1>2, <2>1, OneWriter DEF LogInv, TailInv, Partial
  <2>3. CASE open
    <3>1. /\ DOMAIN lines' = DOMAIN lines /\ DOMAIN lines = 1 .. Len(lines) /\ Len(lines) \in Nat
          /\ \A i \in DOMAIN lines : i # Len(lines) => lines'[i] = lines[i]
          /\ lines'[Len(lines)].evs = lines[Len(lines)].evs \cup {ev[p]}
          /\ lines'[Len(lines)].ok => lines[Len(lines)].evs = {ev[p]}
      BY <1>2, <2>3, WriteShape DEF LogInv
    <3>2. \A e, f \in lines'[Len(lines)].evs \ cut : e = f
      BY <2>2, <2>3, <3>1
    <3> QED
      BY <2>1, <3>1, <3>2
  <2>4. CASE ~open
    <3>1. /\ DOMAIN lines' = 1 .. (Len(lines) + 1) /\ DOMAIN lines = 1 .. Len(lines) /\ Len(lines) \in Nat
          /\ \A i \in DOMAIN lines : lines'[i] = lines[i]
          /\ lines'[Len(lines) + 1].evs = {ev[p]}
      BY <1>2, <2>4, WriteShape DEF LogInv
    <3>2. ASSUME NEW i \in DOMAIN lines'
          PROVE  (i \in DOMAIN lines /\ lines'[i] = lines[i]) \/ lines'[i].evs = {ev[p]}
      BY <3>1
    <3> QED
      BY <2>1, <3>2
  <2> QED
    BY <2>3, <2>4
<1> QED
  BY <1>1, <1>2

LEMMA AckNext ==
  ASSUME TypeOK, LogInv, TypeOK', [Next]_vars
  PROVE  AckInv'
<1> USE DEF AckInv
<1> AckInv
  BY DEF LogInv
<1>1. CASE \A p \in Procs : ~Write(p)
  <2>1. lines' = lines /\ cut \subseteq cut'
    BY <1>1, QuietFrame
  <2>2. \A e : Landed(e) => Landed(e)'
    BY <2>1 DEF Landed
  <2>3. \A e \in cut' : e \in cut \/ \E p \in Procs : pc[p] = "write" /\ ev[p] = e
    BY <1>1 DEF Next, vars, BeginAppend, Lock, CannotAppend, WriteFails, Unlock, BeginRead, ReadLine,
                ReadEOF, Crash, Moves
  <2>4. \A e \in acked' : e \in acked \/ \E p \in Procs : pc[p] = "done" /\ ev[p] = e /\ cut' = cut
    BY <1>1 DEF Next, vars, BeginAppend, Lock, CannotAppend, WriteFails, Unlock, BeginRead, ReadLine,
                ReadEOF, Crash, Moves
  <2>5. \A e \in acked' : Landed(e)'
    BY <2>2, <2>4
  <2>6. \A e \in acked' : e \notin cut'
    BY <2>3, <2>4 DEF LogInv, NumberInv, Busy
  <2>7. \A p \in Procs : pc'[p] = "done" => pc[p] = "done" /\ ev'[p] = ev[p]
    BY <1>1 DEF Next, vars, BeginAppend, Lock, CannotAppend, WriteFails, Unlock, BeginRead, ReadLine,
                ReadEOF, Crash, Moves, TypeOK
  <2> QED
    BY <2>2, <2>5, <2>6, <2>7
<1>2. ASSUME NEW p \in Procs, Write(p) PROVE AckInv'
  <2>1. UNCHANGED <<ev, acked, cut>> /\ pc[p] = "write" /\ ev[p] \notin cut
    BY <1>2 DEF Write, LogInv, NumberInv, Busy
  <2>2. open => \A e \in lines[Len(lines)].evs : e \in cut \/ e = ev[p]
    BY <1>2, <2>1, OneWriter DEF LogInv, TailInv, Partial
  <2>3. \A e : e # ev[p] /\ e \notin cut /\ Landed(e) => Landed(e)'
    <3>1. SUFFICES ASSUME NEW e, e # ev[p], e \notin cut, Landed(e) PROVE Landed(e)'
      OBVIOUS
    <3>2. PICK i \in DOMAIN lines : e \in lines[i].evs /\ (lines[i].ok \/ lines[i].evs \cap cut # {})
      BY <3>1 DEF Landed
    <3>3. open => i # Len(lines)
      BY <2>2, <3>1, <3>2
    <3>4. i \in DOMAIN lines' /\ lines'[i] = lines[i]
      BY <1>2, <3>2, <3>3, WriteShape DEF LogInv
    <3> QED
      BY <2>1, <3>2, <3>4 DEF Landed
  <2>4. \A q \in Procs : pc'[q] = "done" => q = p
    <3>1. \A q \in Procs : q # p => pc'[q] = pc[q] /\ pc[q] # "done"
      BY <1>2, <2>1, OneWriter DEF LogInv, Write, TypeOK
    <3> QED
      BY <3>1
  <2>5. pc'[p] = "done" => Landed(ev[p])'
    <3> SUFFICES ASSUME pc'[p] = "done" PROVE Landed(ev[p])'
      OBVIOUS
    <3>1. CASE open
      <4>1. /\ Len(lines) \in DOMAIN lines' /\ Len(lines) \in DOMAIN lines
            /\ lines'[Len(lines)].evs = lines[Len(lines)].evs \cup {ev[p]}
            /\ lines'[Len(lines)].ok = (lines[Len(lines)].evs = {ev[p]})
        <5>1. PICK to \in After(written[p]) :
                /\ pc' = [pc EXCEPT ![p] = IF to = "line" THEN "done" ELSE "write"]
                /\ Len(lines) \in DOMAIN lines' /\ Len(lines) \in DOMAIN lines
                /\ lines'[Len(lines)].evs = lines[Len(lines)].evs \cup {ev[p]}
                /\ lines'[Len(lines)].ok = (lines[Len(lines)].evs = {ev[p]} /\ to # "prefix")
          BY <1>2, <3>1, WriteShape DEF LogInv
        <5>2. to = "line"
          BY <5>1 DEF TypeOK
        <5> QED
          BY <5>1, <5>2
      <4>2. CASE lines[Len(lines)].evs = {ev[p]}
        BY <2>1, <4>1, <4>2 DEF Landed
      <4>3. CASE lines[Len(lines)].evs # {ev[p]}
        <5>1. PICK f \in lines[Len(lines)].evs : f # ev[p]
          BY <4>1, <4>3 DEF LogInv, LineInv
        <5>2. f \in cut
          BY <2>2, <3>1, <5>1
        <5> QED
          BY <2>1, <4>1, <5>1, <5>2 DEF Landed
      <4> QED
        BY <4>2, <4>3
    <3>2. CASE ~open
      <4>1. /\ Len(lines') \in DOMAIN lines'
            /\ lines'[Len(lines')].evs = {ev[p]} /\ lines'[Len(lines')].ok
        <5>1. PICK to \in After(written[p]) :
                /\ pc' = [pc EXCEPT ![p] = IF to = "line" THEN "done" ELSE "write"]
                /\ Len(lines') \in DOMAIN lines' /\ lines'[Len(lines')].evs = {ev[p]}
                /\ lines'[Len(lines')].ok = (to # "prefix")
          BY <1>2, <3>2, WriteShape DEF LogInv
        <5>2. to = "line"
          BY <5>1 DEF TypeOK
        <5> QED
          BY <5>1, <5>2
      <4> QED
        BY <2>1, <4>1 DEF Landed
    <3> QED
      BY <3>1, <3>2
  <2>6. \A e \in acked : e # ev[p]
    BY <2>1 DEF LogInv, NumberInv, Busy
  <2> QED
    BY <2>1, <2>3, <2>4, <2>5, <2>6
<1> QED
  BY <1>1, <1>2

LEMMA LogInvNext == TypeOK /\ LogInv /\ [Next]_vars => TypeOK' /\ LogInv'
<1> SUFFICES ASSUME TypeOK, LogInv, [Next]_vars PROVE TypeOK' /\ LogInv'
  OBVIOUS
<1>1. TypeOK'
  BY NextType DEF LogInv
<1>2. HoldInv'
  BY HoldNext DEF LogInv
<1> QED
  BY <1>1, <1>2, NumberNext, TailNext, LineNext, AckNext DEF LogInv

(***************************************************************************)
(* Reading.                                                                *)
(***************************************************************************)
\* A reader has the events of the lines it has passed; who waits for the lock
\* has passed none, and who is done has passed all.
ReadInv ==
  \A p \in Procs :
    /\ pc[p] = "readlock" => pos[p] = 0 /\ got[p] = {}
    /\ pc[p] \in {"read", "readdone"} =>
         /\ pos[p] \in 0 .. Len(lines)
         /\ got[p] = UNION {Parsed(lines[i]) : i \in 1 .. pos[p]}
    /\ pc[p] = "readdone" => pos[p] = Len(lines)

\* The flock keeps writers out while a process reads.
LEMMA ReadersAlone ==
  ASSUME HoldInv, NEW p \in Procs, pc[p] \in {"read", "readdone"}
  PROVE  \A q \in Procs : ~Write(q)
BY DEF HoldInv, Write

LEMMA ReadNext ==
  ASSUME TypeOK, LogInv, TypeOK', ReadInv, [Next]_vars
  PROVE  ReadInv'
<1> DEFINE Reads(p) ==
      /\ pc[p] = "readlock" => pos[p] = 0 /\ got[p] = {}
      /\ pc[p] \in {"read", "readdone"} =>
           /\ pos[p] \in 0 .. Len(lines)
           /\ got[p] = UNION {Parsed(lines[i]) : i \in 1 .. pos[p]}
      /\ pc[p] = "readdone" => pos[p] = Len(lines)
<1> SUFFICES ASSUME NEW p \in Procs PROVE Reads(p)'
  BY DEF ReadInv
<1>1. Reads(p) /\ Len(lines) \in Nat /\ DOMAIN lines = 1 .. Len(lines)
  BY LenProperties DEF ReadInv, TypeOK
<1>2. CASE /\ pc'[p] = pc[p] /\ pos'[p] = pos[p] /\ got'[p] = got[p]
  <2>1. CASE pc[p] \in {"read", "readdone"}
    <3>1. lines' = lines
      BY <2>1, ReadersAlone, QuietFrame DEF LogInv
    <3> QED
      BY <1>1, <1>2, <3>1 DEF Parsed
  <2>2. CASE pc[p] \notin {"read", "readdone"}
    BY <1>1, <1>2, <2>2
  <2> QED
    BY <2>1, <2>2
<1>3. CASE BeginRead(p)
  BY <1>3 DEF BeginRead, Moves, TypeOK
<1>4. CASE Lock(p)
  <2>1. pos' = pos /\ got' = got /\ lines' = lines
    BY <1>4 DEF Lock
  <2>2. \/ pc'[p] = "write"
        \/ pc[p] = "readlock" /\ pc'[p] = "read"
    BY <1>4 DEF Lock, Moves, TypeOK
  <2>3. CASE pc[p] = "readlock" /\ pc'[p] = "read"
    <3>1. pos'[p] = 0 /\ got'[p] = {} /\ 1 .. 0 = {}
      BY <1>1, <2>1, <2>3
    <3> QED
      BY <1>1, <2>1, <2>3, <3>1
  <2> QED
    BY <2>2, <2>3
<1>5. CASE ReadLine(p)
  <2> DEFINE n == pos[p]
  <2>1. /\ pc'[p] = "read" /\ lines' = lines /\ n \in Nat /\ n < Len(lines)
        /\ pos'[p] = n + 1 /\ got'[p] = got[p] \cup Parsed(lines[n + 1])
        /\ got[p] = UNION {Parsed(lines[i]) : i \in 1 .. n}
    BY <1>1, <1>5 DEF ReadLine, TypeOK
  <2>2. 1 .. (n + 1) = (1 .. n) \cup {n + 1}
    BY <2>1
  <2>3. got'[p] = UNION {Parsed(lines[i]) : i \in 1 .. (n + 1)}
    BY <2>1, <2>2
  <2>4. n + 1 \in 0 .. Len(lines)
    BY <1>1, <2>1
  <2> QED
    BY <2>1, <2>3, <2>4 DEF Parsed
<1>6. CASE ReadEOF(p)
  BY <1>1, <1>6 DEF ReadEOF, Moves, TypeOK, Parsed
<1>7. CASE pc'[p] \notin {"readlock", "read", "readdone"}
  BY <1>7
<1>8. ASSUME NEW q \in Procs, q # p,
             \/ BeginAppend(q) \/ Lock(q) \/ CannotAppend(q) \/ Write(q) \/ WriteFails(q)
             \/ Unlock(q) \/ BeginRead(q) \/ ReadLine(q) \/ ReadEOF(q) \/ Crash(q)
      PROVE  pc'[p] = pc[p] /\ pos'[p] = pos[p] /\ got'[p] = got[p]
  BY <1>8 DEF BeginAppend, Lock, CannotAppend, Write, WriteFails, Unlock, BeginRead, ReadLine,
              ReadEOF, Crash, Moves, TypeOK
<1>9. CASE \/ BeginAppend(p) \/ CannotAppend(p) \/ Write(p) \/ WriteFails(p) \/ Unlock(p) \/ Crash(p)
  BY <1>7, <1>9 DEF BeginAppend, CannotAppend, Write, WriteFails, Unlock, Crash, Moves, TypeOK
<1> HIDE DEF Reads
<1> QED
  BY <1>2, <1>3, <1>4, <1>5, <1>6, <1>8, <1>9 DEF Next, vars

(***************************************************************************)
(* The theorems.                                                           *)
(***************************************************************************)
\* Every variable keeps its type.
THEOREM TypeCorrect == Spec => []TypeOK
BY InitInv, LogInvNext, PTL DEF Spec

\* An acknowledged event is readable or shares its line with a cut one, and
\* a line costs at most one acknowledged event (append, forEach).
THEOREM AckedEventsSurvive == Spec => []AckedReadable
<1>1. TypeOK /\ LogInv => AckedReadable
  <2> SUFFICES ASSUME LogInv, NEW e \in acked,
                      \A i \in DOMAIN lines : e \in lines[i].evs => lines[i].evs \cap cut = {}
               PROVE  e \in Readable
    BY DEF AckedReadable
  <2>1. PICK i \in DOMAIN lines : e \in lines[i].evs /\ lines[i].ok
    BY DEF LogInv, AckInv, Landed
  <2> QED
    BY <2>1 DEF Readable, Parsed
<1> QED
  BY <1>1, InitInv, LogInvNext, PTL DEF Spec

\* One cut write costs at most one acknowledged event: no two acknowledged
\* events share a line.
THEOREM CutsCostOne == Spec => []OneLossPerCut
<1>1. LogInv => OneLossPerCut
  BY DEF LogInv, LineInv, AckInv, OneLossPerCut
<1> QED
  BY <1>1, InitInv, LogInvNext, PTL DEF Spec

\* Later appends never hide an event from readers, unless its own write was
\* cut before the newline.
THEOREM ReadableEventsStay == Spec => ReadableStays
<1> DEFINE Stays == \A e \in Readable \ cut : e \in Readable'
<1>1. TypeOK /\ LogInv /\ [Next]_vars => [Stays]_vars
  <2> SUFFICES ASSUME TypeOK, LogInv, [Next]_vars, NEW e \in Readable \ cut PROVE e \in Readable'
    OBVIOUS
  <2>1. PICK i \in DOMAIN lines : lines[i].ok /\ e \in lines[i].evs
    BY DEF Readable, Parsed
  <2>2. CASE \A p \in Procs : ~Write(p)
    BY <2>1, <2>2, QuietFrame DEF Readable, Parsed
  <2>3. ASSUME NEW p \in Procs, Write(p) PROVE e \in Readable'
    <3>1. i \in DOMAIN lines' /\ (~open \/ i # Len(lines) => lines'[i] = lines[i])
      BY <2>1, <2>3, WriteShape DEF LogInv
    <3>2. CASE ~open \/ i # Len(lines)
      BY <2>1, <3>1, <3>2 DEF Readable, Parsed
    <3>3. CASE open /\ i = Len(lines)
      <4>1. Partial(p) /\ e = ev[p]
        BY <2>1, <2>3, <3>3, OneWriter DEF LogInv, TailInv, Partial, Write
      <4>2. lines[i].evs = {ev[p]} /\ written[p] = "body"
        BY <2>1, <3>3, <4>1 DEF LogInv, TailInv
      <4>3. PICK to \in After(written[p]) :
              /\ lines'[i].evs = lines[i].evs \cup {ev[p]}
              /\ lines'[i].ok = (lines[i].evs = {ev[p]} /\ to # "prefix")
        BY <2>3, <3>3, WriteShape DEF LogInv
      <4>4. to = "line"
        BY <4>2 DEF After
      <4> QED
        BY <3>1, <4>1, <4>2, <4>3, <4>4 DEF Readable, Parsed
    <3> QED
      BY <3>2, <3>3
  <2> QED
    BY <2>2, <2>3
<1>2. Spec => [][Stays]_vars
  BY <1>1, InitInv, LogInvNext, PTL DEF Spec
<1> QED
  BY <1>2 DEF ReadableStays

\* What a read returns is the log at one moment, the one at which it ends:
\* appends before, during and after it neither hide nor tear an event (forEach).
THEOREM ReadsAreSnapshots == Spec => []ReadIsSnapshot
<1>1. Init => ReadInv
  BY DEF Init, ReadInv
<1>2. TypeOK /\ LogInv /\ ReadInv /\ [Next]_vars => ReadInv'
  BY LogInvNext, ReadNext
<1>3. TypeOK /\ ReadInv => ReadIsSnapshot
  <2> SUFFICES ASSUME TypeOK, ReadInv, NEW p \in Procs, pc[p] = "readdone"
               PROVE  got[p] = Readable
    BY DEF ReadIsSnapshot
  <2>1. got[p] = UNION {Parsed(lines[i]) : i \in 1 .. Len(lines)} /\ DOMAIN lines = 1 .. Len(lines)
    BY LenProperties DEF ReadInv, TypeOK
  <2> QED
    BY <2>1 DEF Readable
<1> QED
  BY <1>1, <1>2, <1>3, InitInv, LogInvNext, PTL DEF Spec
-----------------------------------------------------------------------------
(***************************************************************************)
(* The log implements the atomic one.                                      *)
(***************************************************************************)
\* An event is in one line, and who is done has written the whole of his.
PlaceInv ==
  /\ \A i, j \in DOMAIN lines : \A e \in lines[i].evs \cap lines[j].evs : i = j
  /\ \A p \in Procs : pc[p] = "done" => written[p] = "line"

LEMMA PlaceNext ==
  ASSUME TypeOK, LogInv, PlaceInv, [Next]_vars
  PROVE  PlaceInv'
<1>1. CASE \A p \in Procs : ~Write(p)
  <2>1. lines' = lines
    BY <1>1, QuietFrame
  <2>2. \A p \in Procs : pc'[p] = "done" => pc[p] = "done" /\ written'[p] = written[p]
    BY <1>1 DEF Next, vars, BeginAppend, Lock, CannotAppend, WriteFails, Unlock, BeginRead, ReadLine,
                ReadEOF, Crash, Moves, TypeOK
  <2> QED
    BY <2>1, <2>2 DEF PlaceInv
<1>2. ASSUME NEW p \in Procs, Write(p) PROVE PlaceInv'
  <2>1. PICK to \in After(written[p]) :
          /\ written' = [written EXCEPT ![p] = to]
          /\ pc' = [pc EXCEPT ![p] = IF to = "line" THEN "done" ELSE "write"]
    BY <1>2, WriteShape DEF LogInv
  <2>2. \A q \in Procs : pc'[q] = "done" => written'[q] = "line"
    BY <1>2, <2>1 DEF PlaceInv, TypeOK
  <2>3. pc[p] = "write" /\ ev[p] \in Events
    BY <1>2 DEF Write, LogInv, NumberInv, Busy
  <2>4. DOMAIN lines = 1 .. Len(lines) /\ Len(lines) \in Nat
    BY LenProperties DEF TypeOK
  <2>5. ASSUME NEW i \in DOMAIN lines, ev[p] \in lines[i].evs PROVE open /\ i = Len(lines)
    <3>1. written[p] \in {"prefix", "body"}
      BY <2>3, <2>5 DEF LogInv, NumberInv, Nowhere, TailInv, TypeOK, Parts
    <3>2. open /\ ev[p] \in lines[Len(lines)].evs /\ Len(lines) \in DOMAIN lines
      BY <2>3, <2>4, <3>1 DEF LogInv, TailInv, Partial
    <3> QED
      BY <2>5, <3>2 DEF PlaceInv
  <2>6. CASE open
    <3>1. /\ DOMAIN lines' = DOMAIN lines
          /\ \A i \in DOMAIN lines : i # Len(lines) => lines'[i] = lines[i]
          /\ lines'[Len(lines)].evs = lines[Len(lines)].evs \cup {ev[p]}
      BY <1>2, <2>6, WriteShape DEF LogInv
    <3> QED
      BY <2>2, <2>5, <3>1 DEF PlaceInv
  <2>7. CASE ~open
    <3>1. /\ DOMAIN lines' = 1 .. (Len(lines) + 1)
          /\ \A i \in DOMAIN lines : lines'[i] = lines[i]
          /\ lines'[Len(lines) + 1].evs = {ev[p]}
      BY <1>2, <2>7, WriteShape DEF LogInv
    <3>2. \A i \in DOMAIN lines : ev[p] \notin lines[i].evs
      BY <2>5, <2>7
    <3>3. \A i \in DOMAIN lines' : i \in DOMAIN lines \/ i = Len(lines) + 1
      BY <2>4, <3>1
    <3> QED
      BY <2>2, <3>1, <3>2, <3>3 DEF PlaceInv
  <2> QED
    BY <2>6, <2>7
<1> QED
  BY <1>1, <1>2

\* What is found in the first m of some lines, and in which order.
Found(ls, m) == UNION {Parsed(ls[i]) : i \in 1 .. m}
Ordered(ls, m) ==
  {pair \in Events \X Events :
     \E i, j \in 1 .. m : i < j /\ pair[1] \in Parsed(ls[i]) /\ pair[2] \in Parsed(ls[j])}

LEMMA OneMoreLine ==
  ASSUME NEW ls, NEW m \in Nat, \A i \in 1 .. (m + 1) : Parsed(ls[i]) \subseteq Events
  PROVE  /\ Found(ls, m + 1) = Found(ls, m) \cup Parsed(ls[m + 1])
         /\ Ordered(ls, m + 1) = Ordered(ls, m) \cup (Found(ls, m) \X Parsed(ls[m + 1]))
<1>1. 1 .. (m + 1) = (1 .. m) \cup {m + 1}
  OBVIOUS
<1>2. Found(ls, m + 1) = Found(ls, m) \cup Parsed(ls[m + 1])
  BY <1>1 DEF Found
<1>3. ASSUME NEW a \in Events, NEW b \in Events
      PROVE  <<a, b>> \in Ordered(ls, m + 1) <=>
               <<a, b>> \in Ordered(ls, m) \/ (a \in Found(ls, m) /\ b \in Parsed(ls[m + 1]))
  <2>1. \A i, j \in 1 .. (m + 1) : i < j <=>
          \/ i \in 1 .. m /\ j \in 1 .. m /\ i < j
          \/ i \in 1 .. m /\ j = m + 1
    OBVIOUS
  <2> QED
    BY <1>1, <2>1 DEF Ordered, Found
<1>4. Found(ls, m) \subseteq Events /\ Parsed(ls[m + 1]) \subseteq Events
  BY <1>1 DEF Found
<1>5. Ordered(ls, m) \subseteq Events \X Events /\ Ordered(ls, m + 1) \subseteq Events \X Events
  BY DEF Ordered
<1> QED
  BY <1>2, <1>3, <1>4, <1>5

LEMMA SameLines ==
  ASSUME NEW ls, NEW ks, NEW m, \A i \in 1 .. m : ls[i] = ks[i]
  PROVE  Found(ls, m) = Found(ks, m) /\ Ordered(ls, m) = Ordered(ks, m)
BY DEF Found, Ordered

LastFound(ls, m) == IF Len(ls) = m THEN {} ELSE Parsed(ls[m + 1])

\* A step that leaves all lines but the last as they are.
LEMMA LastLineEffect ==
  ASSUME TypeOK, lines' \in Seq(Line), NEW m \in Nat, Len(lines') = m + 1,
         Len(lines) = m \/ Len(lines) = m + 1, \A i \in 1 .. m : lines'[i] = lines[i]
  PROVE  LET old == LastFound(lines, m)
             new == Parsed(lines'[m + 1])
             F   == Found(lines, m)
             O   == Ordered(lines, m)
         IN /\ F \subseteq Events /\ O \subseteq F \X F /\ old \subseteq Events /\ new \subseteq Events
            /\ Readable = F \cup old /\ Order = O \cup (F \X old)
            /\ Readable' = F \cup new /\ Order' = O \cup (F \X new)
<1> USE DEF LastFound
<1> DEFINE old == LastFound(lines, m)
           new == Parsed(lines'[m + 1])
           F   == Found(lines, m)
           O   == Ordered(lines, m)
<1>1. /\ DOMAIN lines = 1 .. Len(lines) /\ DOMAIN lines' = 1 .. (m + 1)
      /\ \A i \in DOMAIN lines : lines[i] \in Line
      /\ \A i \in DOMAIN lines' : lines'[i] \in Line
  BY LenProperties, ElementOfSeq DEF TypeOK
<1>2. /\ \A i \in DOMAIN lines : Parsed(lines[i]) \subseteq Events
      /\ \A i \in DOMAIN lines' : Parsed(lines'[i]) \subseteq Events
  BY <1>1 DEF Parsed, Line
<1>3. /\ Readable = Found(lines, Len(lines)) /\ Order = Ordered(lines, Len(lines))
      /\ Readable' = Found(lines', m + 1) /\ Order' = Ordered(lines', m + 1)
  BY <1>1 DEF Readable, Order, Found, Ordered
<1>4. Found(lines', m) = F /\ Ordered(lines', m) = O
  BY SameLines
<1>5. Readable' = F \cup new /\ Order' = O \cup (F \X new)
  BY <1>1, <1>2, <1>3, <1>4, OneMoreLine
<1>6. Readable = F \cup old /\ Order = O \cup (F \X old)
  <2>1. CASE Len(lines) = m
    BY <1>3, <2>1
  <2>2. CASE Len(lines) # m
    <3>1. Len(lines) = m + 1
      BY <2>2
    <3> QED
      BY <1>1, <1>2, <1>3, <2>2, <3>1, OneMoreLine
  <2> QED
    BY <2>1, <2>2
<1>7. F \subseteq Events /\ O \subseteq F \X F /\ old \subseteq Events /\ new \subseteq Events
  <2>1. \A i \in 1 .. m : i \in DOMAIN lines
    <3>1. CASE Len(lines) = m
      BY <1>1, <3>1
    <3>2. CASE Len(lines) = m + 1
      BY <1>1, <3>2
    <3> QED
      BY <3>1, <3>2
  <2>2. F \subseteq Events /\ old \subseteq Events /\ new \subseteq Events
    BY <1>1, <1>2, <2>1 DEF Found
  <2>3. O \subseteq F \X F
    BY DEF Found, Ordered
  <2> QED
    BY <2>2, <2>3
<1> QED
  BY <1>5, <1>6, <1>7

\* Bytes at the end of the file that nobody is going on with.
Unfinished == open /\ \A p \in Procs : ~Partial(p)

\* How a write by p is seen from outside.
Takes(p) ==
  /\ StageOf(p) = "append" /\ ~Unfinished /\ StageOf(p)' = "put" /\ ~Unfinished'
  /\ Readable' = Readable \cup {ev[p]} /\ Order' = Order \cup (Readable \X {ev[p]})
Spoils(p) ==
  /\ StageOf(p) = "append" /\ Unfinished /\ StageOf(p)' = "glued" /\ ~Unfinished'
  /\ \E lost \in {{}} \cup {{e} : e \in Abstract!Unacked} :
       /\ Readable' = Readable \ lost
       /\ Order' = {pair \in Order : pair[1] \notin lost /\ pair[2] \notin lost}
GoesOn(p) ==
  /\ StageOf(p)' = StageOf(p) /\ ~Unfinished /\ ~Unfinished'
  /\ Readable' = Readable /\ Order' = Order

LEMMA WriteIsSeen ==
  ASSUME TypeOK, LogInv, PlaceInv, TypeOK', NEW p \in Procs, Write(p)
  PROVE  Takes(p) \/ Spoils(p) \/ GoesOn(p)
<1> DEFINE n == Len(lines)
           e == ev[p]
<1>1. PICK to \in After(written[p]) :
        /\ open' = (to # "line") /\ written' = [written EXCEPT ![p] = to]
        /\ pc' = [pc EXCEPT ![p] = IF to = "line" THEN "done" ELSE "write"]
        /\ lines' \in Seq(Line) /\ DOMAIN lines = 1 .. n /\ n \in Nat
        /\ e \in Events
        /\ open => /\ n > 0 /\ Len(lines') = n
                   /\ \A i \in DOMAIN lines : i # n => lines'[i] = lines[i]
                   /\ lines'[n].evs = lines[n].evs \cup {e}
                   /\ lines'[n].ok = (lines[n].evs = {e} /\ to # "prefix")
        /\ ~open => /\ Len(lines') = n + 1
                    /\ \A i \in DOMAIN lines : lines'[i] = lines[i]
                    /\ lines'[Len(lines')].evs = {e}
                    /\ lines'[Len(lines')].ok = (to # "prefix")
  BY WriteShape DEF LogInv
<1>2. /\ pc[p] = "write" /\ UNCHANGED <<ev, acked, cut>>
      /\ to \in {"prefix", "body", "line"} /\ written[p] \in {"none", "prefix", "body"}
      /\ pc'[p] \in {"write", "done"} /\ (pc'[p] = "done" <=> to = "line") /\ written'[p] = to
  BY <1>1 DEF Write, After, TypeOK, Parts, LogInv, TailInv
<1>3. \A q \in Procs : q # p => ~Partial(q) /\ ~Partial(q)'
  BY <1>1, <1>2, OneWriter DEF LogInv, Partial, TypeOK
<1>4. ~Unfinished'
  BY <1>1, <1>2 DEF Unfinished, Partial
<1>5. Unfinished <=> open /\ written[p] = "none"
  BY <1>2, <1>3 DEF Unfinished, Partial
<1>6. ~open => written[p] = "none"
  BY <1>2 DEF LogInv, TailInv, Partial
<1>7. StageOf(p) = IF written[p] # "none" /\ lines[n].evs # {e} THEN "glued"
                   ELSE IF written[p] = "body" THEN "put" ELSE "append"
  BY <1>2 DEF StageOf, Glued
<1>8. StageOf(p)' = IF lines'[Len(lines')].evs # {e} THEN "glued"
                    ELSE IF to \in {"body", "line"} THEN "put" ELSE "append"
  BY <1>2 DEF StageOf, Glued
<1>9. CASE ~open
  <2> DEFINE F == Found(lines, n)
             O == Ordered(lines, n)
             new == Parsed(lines'[n + 1])
  <2>1. /\ Readable = F /\ Order = O
        /\ Readable' = F \cup new /\ Order' = O \cup (F \X new)
    <3>1. /\ n \in Nat /\ lines' \in Seq(Line) /\ Len(lines') = n + 1
          /\ \A i \in 1 .. n : lines'[i] = lines[i]
      BY <1>1, <1>9
    <3>2. LastFound(lines, n) = {}
      BY DEF LastFound
    <3> HIDE DEF n
    <3>3. /\ Readable = F \cup {} /\ Order = O \cup (F \X {})
          /\ Readable' = F \cup new /\ Order' = O \cup (F \X new)
      BY <3>1, <3>2, LastLineEffect DEF n
    <3> QED
      BY <3>3
  <2>2. CASE to = "prefix"
    <3>1. new = {}
      BY <1>1, <1>9, <2>2 DEF Parsed
    <3>2. Readable' = Readable /\ Order' = Order
      BY <2>1, <3>1
    <3> QED
      BY <1>1, <1>4, <1>5, <1>6, <1>7, <1>8, <1>9, <2>2, <3>2 DEF GoesOn
  <2>3. CASE to # "prefix"
    <3>1. new = {e}
      BY <1>1, <1>9, <2>3 DEF Parsed
    <3>2. Readable' = Readable \cup {e} /\ Order' = Order \cup (Readable \X {e})
      BY <2>1, <3>1
    <3> QED
      BY <1>1, <1>2, <1>4, <1>5, <1>6, <1>7, <1>8, <1>9, <2>3, <3>2 DEF Takes
  <2> QED
    BY <2>2, <2>3
<1>10. CASE open
  <2> DEFINE m == n - 1
             F == Found(lines, m)
             O == Ordered(lines, m)
             old == Parsed(lines[n])
             new == Parsed(lines'[n])
  <2>1. m \in Nat /\ m + 1 = n /\ n \in DOMAIN lines /\ \A i \in 1 .. m : i \in DOMAIN lines /\ i # n
    BY <1>1, <1>10
  <2>2. /\ F \subseteq Events /\ O \subseteq F \X F
        /\ Readable = F \cup old /\ Order = O \cup (F \X old)
        /\ Readable' = F \cup new /\ Order' = O \cup (F \X new)
    <3>1. /\ m \in Nat /\ lines' \in Seq(Line) /\ Len(lines') = m + 1 /\ Len(lines) = m + 1
          /\ \A i \in 1 .. m : lines'[i] = lines[i]
      BY <1>1, <1>10, <2>1
    <3>2. LastFound(lines, m) = old /\ Parsed(lines'[m + 1]) = new
      <4>1. m + 1 = n /\ n # m
        BY <1>1, <2>1
      <4>2. LastFound(lines, m) = Parsed(lines[m + 1])
        BY <4>1 DEF LastFound
      <4> QED
        BY <4>1, <4>2
    <3> HIDE DEF m, old, new
    <3> QED
      BY <3>1, <3>2, LastLineEffect
  <2>3. CASE written[p] = "none"
    <3>1. lines[n].evs # {} /\ e \notin lines[n].evs
      BY <1>2, <2>1, <2>3 DEF LogInv, LineInv, NumberInv, Nowhere
    <3>2. lines'[n].evs # {e} /\ ~lines'[n].ok
      BY <1>1, <1>10, <3>1
    <3>3. new = {}
      BY <3>2 DEF Parsed
    <3>4. old \cap F = {}
      <4>1. \A x \in old : x \in lines[n].evs
        BY DEF Parsed
      <4>2. \A x \in F : \E i \in 1 .. m : x \in lines[i].evs
        BY DEF Found, Parsed
      <4> QED
        BY <2>1, <4>1, <4>2 DEF PlaceInv
    <3>5. \A x \in old : x \in cut /\ x \notin acked
      BY <1>3, <1>10, <2>3, <1>2 DEF Parsed, LogInv, TailInv, AckInv, Partial
    <3>6. \A x, y \in old : x = y
      BY <2>1 DEF Parsed, LogInv, LineInv
    <3>7. \A x \in old : x \in Abstract!Unacked
      BY <2>2, <3>5, <3>6 DEF Abstract!Unacked
    <3>8. old \in {{}} \cup {{x} : x \in Abstract!Unacked}
      <4>1. CASE old = {}
        BY <4>1
      <4>2. ASSUME NEW x \in old PROVE old = {x}
        BY <3>6, <4>2
      <4> QED
        BY <3>7, <4>1, <4>2
    <3>9. Readable' = Readable \ old
      BY <2>2, <3>3, <3>4
    <3>10. Order' = {pair \in Order : pair[1] \notin old /\ pair[2] \notin old}
      BY <2>2, <3>3, <3>4
    <3> QED
      BY <1>1, <1>4, <1>5, <1>7, <1>8, <1>10, <2>3, <3>2, <3>8, <3>9, <3>10 DEF Spoils
  <2>4. CASE written[p] # "none"
    <3>1. /\ e \in lines[n].evs /\ lines'[n].evs = lines[n].evs
          /\ lines[n].ok <=> (lines[n].evs = {e} /\ written[p] = "body")
          /\ lines'[n].ok <=> (lines[n].evs = {e} /\ to # "prefix")
      <4>1. Partial(p)
        BY <1>2, <2>4 DEF Partial
      <4>2. /\ e \in lines[n].evs
            /\ lines[n].ok <=> (lines[n].evs = {e} /\ written[p] = "body")
        BY <4>1 DEF LogInv, TailInv
      <4>3. lines'[n].evs = lines[n].evs
        BY <1>1, <1>10, <4>2
      <4>4. lines'[n].ok <=> (lines[n].evs = {e} /\ to # "prefix")
        BY <1>1, <1>10
      <4> QED
        BY <4>2, <4>3, <4>4
    <3>2. to \in {"body", "line"} /\ (written[p] = "body" => to = "line")
      BY <1>1, <1>2, <2>4 DEF After
    <3>3. CASE lines[n].evs # {e}
      <4>1. old = {} /\ new = {}
        BY <3>1, <3>3 DEF Parsed
      <4>2. Readable' = Readable /\ Order' = Order
        BY <2>2, <4>1
      <4> QED
        BY <1>1, <1>4, <1>5, <1>7, <1>8, <1>10, <2>4, <3>1, <3>3, <4>2 DEF GoesOn
    <3>4. CASE lines[n].evs = {e} /\ written[p] = "body"
      <4>1. old = {e} /\ new = {e}
        BY <3>1, <3>2, <3>4 DEF Parsed
      <4>2. Readable' = Readable /\ Order' = Order
        BY <2>2, <4>1
      <4> QED
        BY <1>1, <1>4, <1>5, <1>7, <1>8, <1>10, <3>1, <3>2, <3>4, <4>2 DEF GoesOn
    <3>5. CASE lines[n].evs = {e} /\ written[p] = "prefix"
      <4>1. old = {} /\ new = {e}
        BY <3>1, <3>2, <3>5 DEF Parsed
      <4>2. Readable' = Readable \cup {e} /\ Order' = Order \cup (Readable \X {e})
        BY <2>2, <4>1
      <4> QED
        BY <1>1, <1>4, <1>5, <1>7, <1>8, <1>10, <2>4, <3>1, <3>2, <3>5, <4>2 DEF Takes
    <3> QED
      BY <1>2, <2>4, <3>3, <3>4, <3>5
  <2> QED
    BY <2>3, <2>4
<1> QED
  BY <1>9, <1>10

\* One step of one process.
Step(p) ==
  \/ BeginAppend(p) \/ Lock(p) \/ CannotAppend(p) \/ Write(p) \/ WriteFails(p)
  \/ Unlock(p) \/ BeginRead(p) \/ ReadLine(p) \/ ReadEOF(p) \/ Crash(p)

\* A step of one process is nothing to the calls of the others.
LEMMA OthersKeepTheirCall ==
  ASSUME TypeOK, LogInv, NEW p \in Procs, Step(p), NEW q \in Procs, q # p
  PROVE  CallOf(q)' = CallOf(q) /\ Partial(q)' = Partial(q)
<1>1. pc'[q] = pc[q] /\ written'[q] = written[q] /\ ev'[q] = ev[q] /\ got'[q] = got[q]
  <2>1. CASE Write(p)
    BY <2>1 DEF Write, TypeOK
  <2>2. CASE ~Write(p)
    BY <2>2 DEF Step, BeginAppend, Lock, CannotAppend, WriteFails, Unlock, BeginRead, ReadLine,
                ReadEOF, Crash, Moves, TypeOK
  <2> QED
    BY <2>1, <2>2
<1>2. Partial(q)' = Partial(q)
  BY <1>1 DEF Partial
<1>3. CASE Write(p)
  <2>1. pc[q] \notin {"write", "done"}
    BY <1>3, OneWriter DEF LogInv, Write
  <2>2. pc[q] = "lock" => written[q] = "none"
    BY DEF LogInv, NumberInv
  <2>3. StageOf(q)' = StageOf(q)
    BY <1>1, <2>1, <2>2 DEF StageOf, Glued, TypeOK, Places
  <2> QED
    BY <1>1, <1>2, <2>3 DEF CallOf
<1>4. CASE ~Write(p)
  <2>1. lines' = lines
    BY <1>4 DEF Step, BeginAppend, Lock, CannotAppend, WriteFails, Unlock, BeginRead, ReadLine,
                ReadEOF, Crash
  <2>2. StageOf(q)' = StageOf(q)
    BY <1>1, <2>1 DEF StageOf, Glued
  <2> QED
    BY <1>1, <1>2, <2>2 DEF CallOf
<1> QED
  BY <1>3, <1>4

Calls == [q \in Procs |-> CallOf(q)]

LEMMA OneCallMoves ==
  ASSUME TypeOK, LogInv, NEW p \in Procs, Step(p)
  PROVE  /\ Calls' = [Calls EXCEPT ![p] = CallOf(p)']
         /\ Calls[p] = CallOf(p)
         /\ \A q \in Procs : q # p => Partial(q)' = Partial(q)
<1>1. \A q \in Procs : q # p => CallOf(q)' = CallOf(q) /\ Partial(q)' = Partial(q)
  BY OthersKeepTheirCall
<1>2. \A q \in Procs : Calls'[q] = CallOf(q)' /\ Calls[q] = CallOf(q)
  BY DEF Calls
<1> QED
  BY <1>1, <1>2 DEF Calls

\* The file as readers see it is as it was.
Unseen == Readable' = Readable /\ Order' = Order

LEMMA SameFile ==
  ASSUME lines' = lines
  PROVE  Unseen
BY DEF Unseen, Readable, Order

LEMMA StageShape ==
  ASSUME NEW p \in Procs
  PROVE  /\ CallOf(p).stage = StageOf(p)
         /\ pc[p] \in {"lock", "write", "done"} =>
              CallOf(p) = Abstract!Call(StageOf(p), ev[p], {})
         /\ pc[p] \in {"idle", "fail"} => CallOf(p) = Abstract!NoCall
         /\ pc[p] \in {"readlock", "read"} => CallOf(p) = Abstract!Call("read", 0, {})
         /\ pc[p] = "readdone" => CallOf(p) = Abstract!Call("answered", 0, got[p])
         /\ pc[p] \in {"lock", "write", "done"} => StageOf(p) \in {"append", "put", "glued"}
BY DEF CallOf, StageOf, Abstract!Call, Abstract!NoCall

\* Every step is one of the atomic log, or one that it does not see.
LEMMA StepIsAtomic ==
  ASSUME TypeOK, LogInv, PlaceInv, ReadInv, TypeOK', ReadIsSnapshot', NEW p \in Procs, Step(p)
  PROVE  [Abstract!LogNext]_(Abstract!logVars)
<1> USE DEF Abstract!LogNext, Abstract!logVars
<1>1. /\ Calls' = [Calls EXCEPT ![p] = CallOf(p)'] /\ Calls[p] = CallOf(p)
      /\ \A q \in Procs : q # p => Partial(q)' = Partial(q)
  BY OneCallMoves
<1>2. TypeOK /\ pc[p] \in Places
  BY DEF TypeOK
<1>3. ASSUME lines' = lines, open' = open, Partial(p)' = Partial(p)
      PROVE  Unseen /\ Unfinished' = Unfinished
  BY <1>1, <1>3, SameFile DEF Unfinished
<1>4. ASSUME lines' = lines, open' = open, next' = next, acked' = acked,
             Partial(p)' = Partial(p), CallOf(p)' = CallOf(p)
      PROVE  UNCHANGED Abstract!logVars
  <2>1. Calls' = Calls
    BY <1>1, <1>4 DEF Calls
  <2> QED
    BY <1>3, <1>4, <2>1 DEF Unseen, Unfinished, Calls
<1>5. ASSUME lines' = lines, open' = open, next' = next, acked' = acked,
             pc[p] \in {"lock", "write", "done"}, pc'[p] \in {"idle", "fail"}
      PROVE  Abstract!GiveUp(p)
  <2>1. Unseen
    BY <1>5, SameFile
  <2>2. Unfinished' \in {Unfinished, TRUE}
    BY <1>1, <1>5 DEF Unfinished, Partial, TypeOK
  <2>3. Calls' = [Calls EXCEPT ![p] = Abstract!NoCall]
    BY <1>1, <1>5, StageShape DEF CallOf, StageOf, Abstract!NoCall, Abstract!Call
  <2>4. Calls[p].stage \in {"append", "put", "glued"}
    BY <1>1, <1>5, StageShape
  <2> QED
    BY <1>5, <2>1, <2>2, <2>3, <2>4 DEF Unseen, Unfinished, Calls, Abstract!GiveUp
<1>6. ASSUME lines' = lines, open' = open, next' = next, acked' = acked,
             pc[p] \in {"readlock", "read", "readdone"}, pc'[p] = "idle"
      PROVE  Abstract!EndRead(p)
  <2>1. Unseen /\ Unfinished' = Unfinished
    BY <1>3, <1>6 DEF Partial
  <2>2. Calls' = [Calls EXCEPT ![p] = Abstract!NoCall]
    BY <1>1, <1>6 DEF CallOf, StageOf, Abstract!NoCall, Abstract!Call
  <2>3. Calls[p].stage \in {"read", "answered"}
    BY <1>1, <1>6 DEF CallOf, StageOf
  <2> QED
    BY <1>6, <2>1, <2>2, <2>3 DEF Unseen, Unfinished, Calls, Abstract!EndRead
<1>7. ASSUME BeginAppend(p) PROVE Abstract!StartAppend(p)
  <2>1. /\ pc[p] = "idle" /\ pc'[p] = "lock" /\ ev'[p] = next /\ written'[p] = "none"
        /\ lines' = lines /\ open' = open /\ acked' = acked /\ next' = next + 1
    BY <1>7 DEF BeginAppend, Moves, TypeOK
  <2>2. Unseen /\ Unfinished' = Unfinished
    BY <1>3, <2>1 DEF Partial
  <2>3. Calls' = [Calls EXCEPT ![p] = Abstract!Call("append", next, {})]
    BY <1>1, <2>1 DEF CallOf, StageOf, Glued, Abstract!Call
  <2>4. Calls[p].stage = "idle"
    BY <1>1, <2>1 DEF CallOf, StageOf
  <2>5. /\ next \in Events \ (1 .. (next - 1))
        /\ 1 .. (next' - 1) = (1 .. (next - 1)) \cup {next}
    BY <1>7, <2>1, EventLogAssumption DEF BeginAppend, Events, TypeOK
  <2> QED
    BY <2>1, <2>2, <2>3, <2>4, <2>5 DEF Unseen, Unfinished, Calls, Abstract!StartAppend, Events
<1>8. ASSUME Lock(p) PROVE UNCHANGED Abstract!logVars
  <2>1. \/ pc[p] = "lock" /\ pc'[p] = "write" /\ written[p] = "none"
        \/ pc[p] = "readlock" /\ pc'[p] = "read"
    BY <1>8 DEF Lock, Moves, TypeOK, LogInv, NumberInv
  <2>2. UNCHANGED <<lines, open, next, acked, written, ev, got>>
    BY <1>8 DEF Lock
  <2>3. Partial(p)' = Partial(p) /\ CallOf(p)' = CallOf(p)
    BY <2>1, <2>2 DEF Partial, CallOf, StageOf, Glued
  <2> QED
    BY <1>4, <2>2, <2>3
<1>9. ASSUME CannotAppend(p) \/ WriteFails(p) PROVE Abstract!GiveUp(p)
  BY <1>5, <1>9 DEF CannotAppend, WriteFails, Moves, TypeOK
<1>10. ASSUME Write(p)
       PROVE  Abstract!Put(p) \/ Abstract!Glue(p) \/ UNCHANGED Abstract!logVars
  <2>1. /\ pc[p] = "write" /\ pc'[p] \in {"write", "done"}
        /\ UNCHANGED <<next, acked, ev>>
    BY <1>10 DEF Write, TypeOK
  <2>2. /\ Calls[p] = Abstract!Call(StageOf(p), ev[p], {})
        /\ Calls' = [Calls EXCEPT ![p] = Abstract!Call(StageOf(p)', ev[p], {})]
    BY <1>1, <2>1 DEF CallOf, StageOf, Abstract!Call
  <2>3. /\ Calls[p].stage = StageOf(p) /\ Calls[p].event = ev[p]
        /\ Calls' = [Calls EXCEPT ![p].stage = StageOf(p)']
    <3>1. [Calls[p] EXCEPT !.stage = StageOf(p)'] = Abstract!Call(StageOf(p)', ev[p], {})
      BY <2>2 DEF Abstract!Call
    <3>2. Calls[p].stage = StageOf(p) /\ Calls[p].event = ev[p]
      BY <2>2 DEF Abstract!Call
    <3> QED
      BY <2>2, <3>1, <3>2
  <2>4. CASE Takes(p)
    BY <2>1, <2>3, <2>4 DEF Takes, Unfinished, Calls, Abstract!Put
  <2>5. CASE Spoils(p)
    BY <2>1, <2>3, <2>5 DEF Spoils, Unfinished, Calls, Abstract!Glue
  <2>6. CASE GoesOn(p)
    <3>1. Calls' = Calls
      <4>1. StageOf(p)' = StageOf(p)
        BY <2>6 DEF GoesOn
      <4>2. Calls' = [Calls EXCEPT ![p] = Calls[p]]
        BY <2>2, <4>1
      <4> QED
        BY <4>2 DEF Calls
    <3> QED
      BY <2>1, <2>6, <3>1 DEF GoesOn, Unfinished, Calls
  <2> QED
    BY <1>10, <2>4, <2>5, <2>6, WriteIsSeen
<1>11. ASSUME Unlock(p)
       PROVE  Abstract!Succeed(p) \/ Abstract!EndRead(p) \/ UNCHANGED Abstract!logVars
  <2>1. /\ pc[p] \in {"done", "fail", "readdone"} /\ pc'[p] = "idle"
        /\ UNCHANGED <<lines, open, next>>
        /\ acked' = IF pc[p] = "done" THEN acked \cup {ev[p]} ELSE acked
    BY <1>11 DEF Unlock, Moves, TypeOK
  <2>2. CASE pc[p] = "done"
    <3>1. Unseen /\ Unfinished' = Unfinished
      BY <1>3, <2>1, <2>2 DEF Partial
    <3>2. Calls' = [Calls EXCEPT ![p] = Abstract!NoCall]
      BY <1>1, <2>1, StageShape DEF CallOf, StageOf, Abstract!NoCall, Abstract!Call
    <3>3. Calls[p].stage \in {"put", "glued"} /\ Calls[p].event = ev[p]
      BY <1>1, <2>2 DEF PlaceInv, CallOf, StageOf
    <3> QED
      BY <2>1, <2>2, <3>1, <3>2, <3>3 DEF Unseen, Unfinished, Calls, Abstract!Succeed
  <2>3. CASE pc[p] = "fail"
    BY <1>4, <2>1, <2>3 DEF Partial, CallOf, StageOf
  <2>4. CASE pc[p] = "readdone"
    BY <1>6, <2>1, <2>4
  <2> QED
    BY <2>1, <2>2, <2>3, <2>4
<1>12. ASSUME BeginRead(p) PROVE Abstract!StartRead(p)
  <2>1. /\ pc[p] = "idle" /\ pc'[p] = "readlock"
        /\ UNCHANGED <<lines, open, next, acked>>
    BY <1>12 DEF BeginRead, Moves, TypeOK
  <2>2. Unseen /\ Unfinished' = Unfinished
    BY <1>3, <2>1 DEF Partial
  <2>3. /\ Calls' = [Calls EXCEPT ![p] = Abstract!Call("read", 0, {})]
        /\ Calls[p].stage = "idle"
    BY <1>1, <2>1 DEF CallOf, StageOf, Abstract!Call
  <2> QED
    BY <2>1, <2>2, <2>3 DEF Unseen, Unfinished, Calls, Abstract!StartRead
<1>13. ASSUME ReadLine(p) PROVE UNCHANGED Abstract!logVars
  <2>1. /\ pc[p] = "read" /\ pc'[p] = "read"
        /\ UNCHANGED <<lines, open, next, acked>>
    BY <1>13 DEF ReadLine
  <2> QED
    BY <1>4, <2>1 DEF Partial, CallOf, StageOf
<1>14. ASSUME ReadEOF(p) PROVE Abstract!Take(p)
  <2>1. /\ pc[p] = "read" /\ pc'[p] = "readdone"
        /\ UNCHANGED <<lines, open, next, acked, got>>
    BY <1>14 DEF ReadEOF, Moves, TypeOK
  <2>2. Unseen /\ Unfinished' = Unfinished
    BY <1>3, <2>1 DEF Partial
  <2>3. got'[p] = Readable
    BY <2>1, <2>2 DEF ReadIsSnapshot, Unseen
  <2>4. /\ Calls' = [Calls EXCEPT ![p] = Abstract!Call("answered", 0, Readable)]
        /\ Calls[p].stage = "read"
    BY <1>1, <2>1, <2>3 DEF CallOf, StageOf, Abstract!Call
  <2> QED
    BY <2>1, <2>2, <2>4 DEF Unseen, Unfinished, Calls, Abstract!Take
<1>15. ASSUME Crash(p)
       PROVE  Abstract!GiveUp(p) \/ Abstract!EndRead(p) \/ UNCHANGED Abstract!logVars
  <2>1. /\ pc[p] # "idle" /\ pc'[p] = "idle"
        /\ UNCHANGED <<lines, open, next, acked>>
    BY <1>15 DEF Crash, TypeOK
  <2>2. CASE pc[p] \in {"lock", "write", "done"}
    BY <1>5, <2>1, <2>2
  <2>3. CASE pc[p] = "fail"
    BY <1>4, <2>1, <2>3 DEF Partial, CallOf, StageOf
  <2>4. CASE pc[p] \in {"readlock", "read", "readdone"}
    BY <1>6, <2>1, <2>4
  <2> QED
    BY <1>2, <2>1, <2>2, <2>3, <2>4 DEF Places
<1> QED
  BY <1>7, <1>8, <1>9, <1>10, <1>11, <1>12, <1>13, <1>14, <1>15 DEF Step

\* Seen from outside, an append takes effect in one step and a read is the log
\* of one moment, whatever is cut and whoever dies (append, forEach).
THEOREM AtomicAppends == Spec => ImplementsAtomicLog
<1>1. Init => Abstract!LogInit
  BY DEF Init, Abstract!LogInit, Abstract!NoCall, Abstract!Call, CallOf, StageOf, Readable, Order
<1>2. Init => PlaceInv /\ ReadInv
  BY DEF Init, PlaceInv, ReadInv
<1>3. TypeOK /\ LogInv /\ PlaceInv /\ ReadInv /\ [Next]_vars => PlaceInv' /\ ReadInv'
  BY LogInvNext, PlaceNext, ReadNext
<1>4. TypeOK /\ LogInv /\ PlaceInv /\ ReadInv /\ TypeOK' /\ ReadIsSnapshot' /\ [Next]_vars
        => [Abstract!LogNext]_(Abstract!logVars)
  <2> SUFFICES ASSUME TypeOK, LogInv, PlaceInv, ReadInv, TypeOK', ReadIsSnapshot', [Next]_vars
               PROVE  [Abstract!LogNext]_(Abstract!logVars)
    OBVIOUS
  <2>1. ASSUME NEW p \in Procs, Step(p) PROVE [Abstract!LogNext]_(Abstract!logVars)
    BY <2>1, StepIsAtomic
  <2>2. CASE UNCHANGED vars
    <3>1. Unseen /\ \A q \in Procs : CallOf(q)' = CallOf(q) /\ Partial(q)' = Partial(q)
      BY <2>2, SameFile DEF vars, CallOf, StageOf, Glued, Partial
    <3> QED
      BY <2>2, <3>1 DEF vars, Unseen, Abstract!logVars
  <2> QED
    BY <2>1, <2>2 DEF Next, Step
<1> QED
  BY <1>1, <1>2, <1>3, <1>4, InitInv, LogInvNext, ReadsAreSnapshots, PTL
     DEF Spec, ImplementsAtomicLog, Abstract!Spec
=============================================================================
