---------------------------- MODULE TelemetrySink ----------------------------
(***************************************************************************)
(* TelemetrySink of sdd_runtime (telemetry/_sink.py): each process keeps   *)
(* its events in memory and appends those its logging mode keeps to one    *)
(* JSONL file, under a flock and with an fsync.  emit writes the event,    *)
(* then the budget-zone event it calls for, then dispatches the alert;     *)
(* flush, run once by a worker thread when the process has emitted its     *)
(* last event, writes what is missing.  A call may raise at every step and *)
(* the process or the machine may stop at every step.                      *)
(***************************************************************************)
EXTENDS Naturals, FiniteSets, Sequences

CONSTANTS Proc,        \* processes with a sink on the same file
          None,        \* nobody holds the lock
          Mode,        \* logging_mode
          Flock,       \* whether the platform has fcntl
          Failures,    \* whether file-system calls may raise
          MaxEvents    \* bound: event ids given out, two for each emit

ASSUME SinkAssumption ==
    /\ None \notin Proc
    /\ Mode \in {"passive", "active", "strict"}
    /\ Flock \in BOOLEAN
    /\ Failures \in BOOLEAN
    /\ MaxEvents \in Nat

VARIABLES file,       \* the JSONL file: the first and second half of each line
          synced,     \* how much of file is on the disk
          lock,       \* holder of the flock
          events,     \* _events of each process
          persisted,  \* _persisted_event_ids: positions in events
          task,       \* what each process is doing with its sink
          step,       \* where it is in _write_jsonl
          cur,        \* the position in events it is working on
          created,    \* event ids given out so far
          acked,      \* ghost: events whose _write_jsonl has returned
          alerted     \* ghost: events handed to the alert dispatcher

vars == <<file, synced, lock, events, persisted, task, step, cur, created,
          acked, alerted>>

Sources   == {"governance.ask", "economy.token.consume"}
Zones     == {"economy.budget.breach", "economy.budget.warn",
              "economy.compression.skip"}
Mandatory == {"governance.ask", "economy.budget.breach"}

(* An event, with the zone event its budget use calls for, or "none".      *)
Event == [id : 1 .. MaxEvents, name : Sources \cup Zones,
          zone : Zones \cup {"none"}]

Halves == {"head", "tail"}

TypeOK ==
    /\ file \in Seq((1 .. MaxEvents) \X Halves)
    /\ synced \in 0 .. Len(file)
    /\ lock \in Proc \cup {None}
    /\ events \in [Proc -> Seq(Event)]
    /\ persisted \in [Proc -> SUBSET Nat]
    /\ \A p \in Proc : persisted[p] \subseteq DOMAIN events[p]
    /\ task \in [Proc -> {"idle", "emit", "zone", "flush", "cut", "done"}]
    /\ step \in [Proc -> {"check", "lock", "write", "rest", "sync", "mark"}]
    /\ cur \in [Proc -> Nat]
    /\ \A p \in Proc : task[p] \in {"emit", "zone", "flush"} =>
                           cur[p] \in DOMAIN events[p]
    /\ created \in 0 .. MaxEvents
    /\ acked \subseteq 1 .. created
    /\ alerted \subseteq 1 .. created

Init ==
    /\ file = <<>>
    /\ synced = 0
    /\ lock = None
    /\ events = [p \in Proc |-> <<>>]
    /\ persisted = [p \in Proc |-> {}]
    /\ task = [p \in Proc |-> "idle"]
    /\ step = [p \in Proc |-> "check"]
    /\ cur = [p \in Proc |-> 0]
    /\ created = 0
    /\ acked = {}
    /\ alerted = {}

Working(p) == task[p] \in {"emit", "zone", "flush"}

Current(p) == events[p][cur[p]]

_should_persist(e) == Mode \in {"active", "strict"} \/ e.name \in Mandatory

-----------------------------------------------------------------------------
(* p records a new event and turns to writing it.                          *)
Record(p, id, name, zone, for) ==
    /\ events' = [events EXCEPT
           ![p] = Append(@, [id |-> id, name |-> name, zone |-> zone])]
    /\ cur' = [cur EXCEPT ![p] = Len(events'[p])]
    /\ task' = [task EXCEPT ![p] = for]
    /\ step' = [step EXCEPT ![p] = "check"]

(* emit, after the enrichment; the next id is kept for its zone event.     *)
Emit(p, name, zone) ==
    /\ task[p] = "idle"
    /\ created + 2 <= MaxEvents
    /\ created' = created + 2
    /\ Record(p, created + 1, name, zone, "emit")
    /\ UNCHANGED <<file, synced, lock, persisted, acked, alerted>>

(* enqueue_flush: the process emits no more on this sink.                  *)
Flush(p) ==
    /\ task[p] = "idle"
    /\ events[p] # <<>>
    /\ task' = [task EXCEPT ![p] = "flush"]
    /\ step' = [step EXCEPT ![p] = "check"]
    /\ cur' = [cur EXCEPT ![p] = 1]
    /\ UNCHANGED <<file, synced, lock, events, persisted, created, acked, alerted>>

(* The call on the sink is over.                                           *)
Leave(p, as) ==
    /\ task' = [task EXCEPT ![p] = as]
    /\ step' = [step EXCEPT ![p] = "check"]
    /\ cur' = [cur EXCEPT ![p] = 0]

(* The dispatcher gets the event that emit was called with.                *)
Dispatch(p, i) ==
    /\ alerted' = alerted \cup {events[p][i].id}
    /\ Leave(p, "idle")
    /\ UNCHANGED events

(* What follows a _write_jsonl that returned: the zone event of a source   *)
(* event, the alert at the end of emit, the next event of a flush.         *)
Continue(p) ==
    \/ /\ task[p] = "emit"
       /\ Current(p).zone # "none"
       /\ Record(p, Current(p).id + 1, Current(p).zone, "none", "zone")
       /\ UNCHANGED alerted
    \/ /\ task[p] = "emit"
       /\ Current(p).zone = "none"
       /\ Dispatch(p, cur[p])
    \/ /\ task[p] = "zone"
       /\ Dispatch(p, cur[p] - 1)
    \/ /\ task[p] = "flush"
       /\ cur[p] < Len(events[p])
       /\ cur' = [cur EXCEPT ![p] = @ + 1]
       /\ step' = [step EXCEPT ![p] = "check"]
       /\ UNCHANGED <<events, task, alerted>>
    \/ /\ task[p] = "flush"
       /\ cur[p] = Len(events[p])
       /\ Leave(p, "done")
       /\ UNCHANGED <<events, alerted>>

NeedsWrite(p) == _should_persist(Current(p)) /\ cur[p] \notin persisted[p]

(* Mutant: emit returns when the event is not written.                     *)
SkipReturns(p) ==
    /\ Working(p) /\ step[p] = "check"
    /\ ~NeedsWrite(p)
    /\ Leave(p, IF task[p] = "flush" THEN "done" ELSE "idle")
    /\ UNCHANGED <<file, synced, lock, events, persisted, created, acked, alerted>>

Skip(p) ==
    /\ Working(p) /\ step[p] = "check"
    /\ ~NeedsWrite(p)
    /\ Continue(p)
    /\ UNCHANGED <<file, synced, lock, persisted, created, acked>>

Goto(p, from, to) ==
    /\ Working(p) /\ step[p] = from
    /\ step' = [step EXCEPT ![p] = to]
    /\ UNCHANGED <<events, persisted, task, cur, created, acked, alerted>>

Open(p) ==
    /\ Goto(p, "check", "lock")
    /\ NeedsWrite(p)
    /\ UNCHANGED <<file, synced, lock>>

(* Mutant: the lock is not taken.                                          *)
AcquireNothing(p) ==
    /\ Goto(p, "lock", "write")
    /\ UNCHANGED <<file, synced, lock>>

Acquire(p) ==
    /\ Goto(p, "lock", "write")
    /\ lock' = IF Flock THEN p ELSE lock
    /\ lock = None
    /\ UNCHANGED <<file, synced>>

WriteHead(p) ==
    /\ Goto(p, "write", "rest")
    /\ file' = Append(file, <<Current(p).id, "head">>)
    /\ UNCHANGED <<synced, lock>>

WriteTail(p) ==
    /\ Goto(p, "rest", "sync")
    /\ file' = Append(file, <<Current(p).id, "tail">>)
    /\ UNCHANGED <<synced, lock>>

Fsync(p) ==
    /\ Goto(p, "sync", "mark")
    /\ synced' = Len(file)
    /\ UNCHANGED <<file, lock>>

Unlocked(p) == IF lock = p THEN None ELSE lock

(* Mutant: the event is not marked as persisted.                           *)
MarkNothing(p) ==
    /\ Working(p) /\ step[p] = "mark"
    /\ lock' = Unlocked(p)
    /\ acked' = acked \cup {Current(p).id}
    /\ Continue(p)
    /\ UNCHANGED <<file, synced, persisted, created>>

(* close releases the lock; then the event is marked and emit or flush     *)
(* goes on.                                                                *)
Mark(p) ==
    /\ Working(p) /\ step[p] = "mark"
    /\ lock' = Unlocked(p)
    /\ persisted' = [persisted EXCEPT ![p] = @ \cup {cur[p]}]
    /\ acked' = acked \cup {Current(p).id}
    /\ Continue(p)
    /\ UNCHANGED <<file, synced, created>>

(* Mutant: what _write_jsonl raises is suppressed and emit goes on.        *)
RaiseSuppressed(p) ==
    /\ Failures
    /\ Working(p) /\ step[p] # "check"
    /\ lock' = Unlocked(p)
    /\ Continue(p)
    /\ UNCHANGED <<file, synced, persisted, created, acked>>

(* A call of _write_jsonl raises.  What the buffer still holds may reach   *)
(* the file when it is closed.  emit raises to its caller, which goes on;  *)
(* the worker drops the rest of a flush.                                   *)
Raise(p) ==
    /\ Failures
    /\ Working(p) /\ step[p] # "check"
    /\ \/ UNCHANGED file
       \/ /\ step[p] = "write"
          /\ file' = file \o <<<<Current(p).id, "head">>, <<Current(p).id, "tail">>>>
       \/ /\ step[p] = "rest"
          /\ file' = Append(file, <<Current(p).id, "tail">>)
    /\ lock' = Unlocked(p)
    /\ Leave(p, IF task[p] = "flush" THEN "cut" ELSE "idle")
    /\ UNCHANGED <<synced, events, persisted, created, acked, alerted>>

(* Mutant: the marks are shared by all sinks and outlive the one they are  *)
(* about.                                                                  *)
ExitKeepsMarks(p) ==
    /\ events[p] # <<>>
    /\ events' = [events EXCEPT ![p] = <<>>]
    /\ Leave(p, "idle")
    /\ lock' = Unlocked(p)
    /\ UNCHANGED <<file, synced, persisted, created, acked, alerted>>

(* The process ends, at any step (a flush that outlasts the two seconds    *)
(* the exit waits for the worker is cut off), and a new one starts.        *)
Exit(p) ==
    /\ events[p] # <<>>
    /\ events' = [events EXCEPT ![p] = <<>>]
    /\ persisted' = [persisted EXCEPT ![p] = {}]
    /\ Leave(p, "idle")
    /\ lock' = Unlocked(p)
    /\ UNCHANGED <<file, synced, created, acked, alerted>>

(* The machine stops: the file keeps at least what was synced.             *)
PowerLoss ==
    /\ file # <<>>
    /\ \E n \in synced .. Len(file) : file' = SubSeq(file, 1, n)
    /\ synced' = Len(file')
    /\ lock' = None
    /\ events' = [p \in Proc |-> <<>>]
    /\ persisted' = [p \in Proc |-> {}]
    /\ task' = [p \in Proc |-> "idle"]
    /\ step' = [p \in Proc |-> "check"]
    /\ cur' = [p \in Proc |-> 0]
    /\ UNCHANGED <<created, acked, alerted>>

Write(p) ==
    \/ Skip(p) \/ Open(p) \/ Acquire(p) \/ WriteHead(p) \/ WriteTail(p)
    \/ Fsync(p) \/ Mark(p) \/ Raise(p)

Next ==
    \/ \E p \in Proc :
           \/ \E name \in Sources, zone \in Zones \cup {"none"} : Emit(p, name, zone)
           \/ Flush(p) \/ Write(p) \/ Exit(p)
    \/ PowerLoss

Spec == Init /\ [][Next]_vars

-----------------------------------------------------------------------------
(* The line of event id is at position i, and nothing got between its      *)
(* halves.                                                                 *)
LineAt(id, i) ==
    /\ file[i] = <<id, "head">>
    /\ i < Len(file)
    /\ file[i + 1] = <<id, "tail">>

(* An event whose write has returned is on the disk, in one piece: no      *)
(* other process's write got into it and no stop of a process or of the    *)
(* machine takes it away.                                                  *)
AckedOnDisk ==
    \A id \in acked : \E i \in 1 .. synced - 1 : LineAt(id, i)

(* The guard against duplicate writes by emit and a later flush: once the  *)
(* write of an event has returned, no other write of it follows.           *)
WrittenOnce ==
    [][\A i \in DOMAIN file' \ DOMAIN file : file'[i][1] \notin acked]_vars

(* A flush that comes to its end leaves no event unwritten that the        *)
(* logging mode keeps, even when the emit of that event had failed.        *)
FlushCompletes ==
    \A p \in Proc : task[p] = "done" =>
        \A i \in DOMAIN events[p] :
            _should_persist(events[p][i]) => events[p][i].id \in acked

(* The webhook tells of an event only when its record, and the record of   *)
(* the zone event it caused, is on the disk as far as the mode keeps them: *)
(* no alert is lost sight of by a stop right after it.                     *)
Recorded(e) == _should_persist(e) => e.id \in acked'

AlertedAfterRecorded ==
    [][\A p \in Proc : \A i \in DOMAIN events[p] :
            events[p][i].id \in alerted' \ alerted =>
                /\ Recorded(events[p][i])
                /\ events[p][i].zone # "none" =>
                       /\ i < Len(events[p])
                       /\ Recorded(events[p][i + 1])]_vars
=============================================================================
