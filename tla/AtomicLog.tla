------------------------------ MODULE AtomicLog ------------------------------
(***************************************************************************)
(* What the event log promises those who append to it and read it: an      *)
(* append puts its event behind all others in a single step, between the   *)
(* moment it begins and the moment it returns, and a read returns the log  *)
(* of a single moment.  An append that fails may leave bytes at the end of *)
(* the file; the next one is then lost with them, and no event is lost in  *)
(* any other way.                                                          *)
(*                                                                         *)
(* EventLog (lines, parts of a write, flock) is shown to implement it.     *)
(***************************************************************************)
CONSTANTS
  Procs,    \* processes that append to or read the log
  Events,   \* the events they append
  NoEvent   \* none of Events

VARIABLES
  log,        \* the events every reader finds
  before,     \* their order: pairs of an event and one behind it
  unfinished, \* an append that failed left bytes at the end
  begun,      \* the events whose append has begun
  acked,      \* the events whose append returned success
  call        \* the call each process is in

logVars == <<log, before, unfinished, begun, acked, call>>

Stages == {"idle", "append", "put", "glued", "read", "answered"}
Call(stage, event, answer) == [stage |-> stage, event |-> event, answer |-> answer]
NoCall == Call("idle", NoEvent, {})

LogTypeOK ==
  /\ log \subseteq Events /\ before \subseteq Events \X Events
  /\ unfinished \in BOOLEAN
  /\ begun \subseteq Events /\ acked \subseteq Events
  /\ call \in [Procs -> [stage : Stages, event : Events \cup {NoEvent}, answer : SUBSET Events]]

LogInit ==
  /\ log = {} /\ before = {} /\ unfinished = FALSE
  /\ begun = {} /\ acked = {}
  /\ call = [p \in Procs |-> NoCall]

StartAppend(p) ==
  /\ call[p].stage = "idle"
  /\ \E e \in Events \ begun :
       /\ begun' = begun \cup {e}
       /\ call' = [call EXCEPT ![p] = Call("append", e, {})]
  /\ UNCHANGED <<log, before, unfinished, acked>>

\* The one step at which an append takes effect.
Put(p) ==
  /\ call[p].stage = "append" /\ ~unfinished
  /\ log' = log \cup {call[p].event}
  /\ before' = before \cup (log \X {call[p].event})
  /\ call' = [call EXCEPT ![p].stage = "put"]
  /\ UNCHANGED <<unfinished, begun, acked>>

\* The last event of the log, if its append did not return success.
Unacked == {e \in log \ acked : \A f \in log : f = e \/ <<f, e>> \in before}

\* The append continues what a failed one left: neither can be read.
Glue(p) ==
  /\ call[p].stage = "append" /\ unfinished
  /\ \E lost \in {{}} \cup {{e} : e \in Unacked} :
       /\ log' = log \ lost
       /\ before' = {pair \in before : pair[1] \notin lost /\ pair[2] \notin lost}
  /\ unfinished' = FALSE
  /\ call' = [call EXCEPT ![p].stage = "glued"]
  /\ UNCHANGED <<begun, acked>>

Succeed(p) ==
  /\ call[p].stage \in {"put", "glued"}
  /\ acked' = acked \cup {call[p].event}
  /\ call' = [call EXCEPT ![p] = NoCall]
  /\ UNCHANGED <<log, before, unfinished, begun>>

\* The append returns an error, or its process dies.
GiveUp(p) ==
  /\ call[p].stage \in {"append", "put", "glued"}
  /\ unfinished' \in {unfinished, TRUE}
  /\ call' = [call EXCEPT ![p] = NoCall]
  /\ UNCHANGED <<log, before, begun, acked>>

StartRead(p) ==
  /\ call[p].stage = "idle"
  /\ call' = [call EXCEPT ![p] = Call("read", NoEvent, {})]
  /\ UNCHANGED <<log, before, unfinished, begun, acked>>

\* The one moment whose log a read returns.
Take(p) ==
  /\ call[p].stage = "read"
  /\ call' = [call EXCEPT ![p] = Call("answered", NoEvent, log)]
  /\ UNCHANGED <<log, before, unfinished, begun, acked>>

EndRead(p) ==
  /\ call[p].stage \in {"read", "answered"}
  /\ call' = [call EXCEPT ![p] = NoCall]
  /\ UNCHANGED <<log, before, unfinished, begun, acked>>

LogNext ==
  \E p \in Procs :
    \/ StartAppend(p) \/ Put(p) \/ Glue(p) \/ Succeed(p) \/ GiveUp(p)
    \/ StartRead(p) \/ Take(p) \/ EndRead(p)

Spec == LogInit /\ [][LogNext]_logVars
=============================================================================
