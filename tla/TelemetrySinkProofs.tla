------------------------- MODULE TelemetrySinkProofs -------------------------
(***************************************************************************)
(* Proofs about TelemetrySink, for any number of processes and events:     *)
(* the type invariant, and that with the flock an event whose write has    *)
(* returned stays on the disk in one piece.                                *)
(***************************************************************************)
EXTENDS TelemetrySink, SequenceTheorems, TLAPS

Tasks == {"idle", "emit", "zone", "flush", "cut", "done"}
Steps == {"check", "lock", "write", "rest", "sync", "mark"}

(* What TypeOK says of a process, and that the ids of its events have been *)
(* given out, with the one kept for the zone event of each source.         *)
ProcOK(p) ==
    /\ persisted[p] \subseteq DOMAIN events[p]
    /\ Working(p) => cur[p] \in DOMAIN events[p]
    /\ step[p] # "check" => Working(p)
    /\ task[p] = "zone" => cur[p] > 1
    /\ \A i \in DOMAIN events[p] :
        /\ events[p][i].id <= created
        /\ events[p][i].zone # "none" => events[p][i].id < created

Shape ==
    /\ file \in Seq((1 .. MaxEvents) \X Halves)
    /\ synced \in 0 .. Len(file)
    /\ lock \in Proc \cup {None}
    /\ events \in [Proc -> Seq(Event)]
    /\ persisted \in [Proc -> SUBSET Nat]
    /\ task \in [Proc -> Tasks]
    /\ step \in [Proc -> Steps]
    /\ cur \in [Proc -> Nat]
    /\ created \in 0 .. MaxEvents
    /\ acked \subseteq 1 .. created
    /\ alerted \subseteq 1 .. created

TInv == Shape /\ \A p \in Proc : ProcOK(p)

LEMMA TInvType == TInv => TypeOK
  BY DEF TInv, TypeOK, Shape, ProcOK, Working, Tasks, Steps

LEMMA EventFields ==
  /\ MaxEvents \in Nat
  /\ \A e \in Event : /\ e.id \in 1 .. MaxEvents /\ e.id \in Nat
                      /\ e.name \in Sources \cup Zones
                      /\ e.zone \in Zones \cup {"none"}
  BY SinkAssumption DEF Event

(* The events of a process, and the ids they carry.                        *)
LEMMA EventsTyped ==
  ASSUME TInv, NEW p \in Proc
  PROVE  /\ created \in Nat /\ created <= MaxEvents /\ MaxEvents \in Nat
         /\ events[p] \in Seq(Event) /\ Len(events[p]) \in Nat
         /\ DOMAIN events[p] = 1 .. Len(events[p])
         /\ \A i \in 1 .. Len(events[p]) :
                /\ events[p][i] \in Event
                /\ events[p][i].id \in 1 .. created
                /\ events[p][i].zone # "none" => events[p][i].id + 1 \in 1 .. created
  <1>1. events[p] \in Seq(Event) /\ DOMAIN events[p] = 1 .. Len(events[p])
            /\ Len(events[p]) \in Nat
    BY LenProperties DEF TInv, Shape
  <1>2. ASSUME NEW i \in 1 .. Len(events[p])
        PROVE  /\ events[p][i] \in Event
               /\ events[p][i].id \in 1 .. created
               /\ events[p][i].zone # "none" => events[p][i].id + 1 \in 1 .. created
    <2>1. events[p][i] \in Event
      BY <1>1, ElementOfSeq
    <2>2. events[p][i].id \in 1 .. MaxEvents /\ MaxEvents \in Nat
      BY <2>1, EventFields
    <2>3. /\ events[p][i].id <= created
          /\ events[p][i].zone # "none" => events[p][i].id < created
      BY <1>1 DEF TInv, ProcOK
    <2> QED BY <2>1, <2>2, <2>3 DEF TInv, Shape
  <1> QED BY <1>1, <1>2, SinkAssumption DEF TInv, Shape

(* The event a working process is at.                                      *)
LEMMA CurrentEvent ==
  ASSUME TInv, NEW p \in Proc, Working(p)
  PROVE  /\ cur[p] \in 1 .. Len(events[p])
         /\ Current(p) \in Event
         /\ Current(p).id \in 1 .. created
         /\ Current(p).zone # "none" => Current(p).id + 1 \in 1 .. created
  BY EventsTyped DEF TInv, ProcOK, Current

(* Recording an event keeps the type invariant's part about p.             *)
LEMMA RecordOK ==
  ASSUME TInv, NEW p \in Proc, NEW id \in 1 .. MaxEvents,
         NEW name \in Sources \cup Zones, NEW zone \in Zones \cup {"none"},
         NEW for \in {"emit", "zone"}, Record(p, id, name, zone, for),
         \A q \in Proc : persisted'[q] \subseteq DOMAIN events[q],
         created' \in Nat, created' >= created,
         for = "zone" => Len(events[p]) >= 1,
         id <= created', zone # "none" => id < created'
  PROVE  /\ events' \in [Proc -> Seq(Event)] /\ cur' \in [Proc -> Nat]
         /\ task' \in [Proc -> Tasks] /\ step' \in [Proc -> Steps]
         /\ \A q \in Proc : ProcOK(q)'
  <1> DEFINE e == [id |-> id, name |-> name, zone |-> zone]
  <1>1. e \in Event /\ e.id = id /\ e.zone = zone
    BY DEF Event
  <1> HIDE DEF e
  <1>2. events[p] \in Seq(Event) /\ Append(events[p], e) \in Seq(Event)
    BY <1>1, AppendProperties DEF TInv, Shape
  <1>3. /\ events' = [events EXCEPT ![p] = Append(events[p], e)]
        /\ events'[p] = Append(events[p], e)
        /\ cur' = [cur EXCEPT ![p] = Len(events[p]) + 1]
        /\ task' = [task EXCEPT ![p] = for]
        /\ step' = [step EXCEPT ![p] = "check"]
    BY <1>2, AppendProperties DEF Record, TInv, Shape, e
  <1>4. /\ events' \in [Proc -> Seq(Event)] /\ cur' \in [Proc -> Nat]
        /\ task' \in [Proc -> Tasks] /\ step' \in [Proc -> Steps]
    BY <1>2, <1>3 DEF TInv, Shape, Tasks, Steps
  <1>5. ASSUME NEW q \in Proc, q # p PROVE ProcOK(q)'
    <2>1. events'[q] = events[q] /\ cur'[q] = cur[q] /\ task'[q] = task[q]
              /\ step'[q] = step[q]
      BY <1>3, <1>5 DEF TInv, Shape
    <2>2. created \in Nat /\ \A i \in DOMAIN events[q] : events[q][i].id \in Nat
      BY EventsTyped
    <2> QED
      BY <2>1, <2>2 DEF TInv, Shape, ProcOK, Working
  <1>6. ProcOK(p)'
    <2>1. /\ Len(events'[p]) = Len(events[p]) + 1
          /\ events'[p] \in Seq(Event)
          /\ events'[p][Len(events[p]) + 1] = e
          /\ \A i \in 1 .. Len(events[p]) : events'[p][i] = events[p][i]
      BY <1>1, <1>2, <1>3, AppendProperties
    <2>2. DOMAIN events'[p] = 1 .. Len(events[p]) + 1
              /\ DOMAIN events[p] = 1 .. Len(events[p]) /\ Len(events[p]) \in Nat
      BY <2>1, <1>2, LenProperties
    <2>3. persisted'[p] \subseteq DOMAIN events'[p]
      BY <2>2 DEF TInv, ProcOK
    <2>4. /\ cur'[p] \in DOMAIN events'[p] /\ cur'[p] = Len(events[p]) + 1
          /\ task'[p] = for /\ step'[p] = "check"
      BY <2>2, <1>3 DEF TInv, Shape
    <2>5. ASSUME NEW i \in 1 .. Len(events[p]) + 1
          PROVE  /\ events'[p][i].id <= created'
                 /\ events'[p][i].zone # "none" => events'[p][i].id < created'
      <3>1. CASE i = Len(events[p]) + 1
        BY <3>1, <2>1, <1>1
      <3>2. CASE i \in 1 .. Len(events[p])
        <4>1. /\ events'[p][i] = events[p][i] /\ events[p][i].id \in Nat
              /\ events[p][i].id <= created /\ created \in Nat
              /\ events[p][i].zone # "none" => events[p][i].id < created
          BY <3>2, <2>1, EventsTyped
        <4> QED BY <4>1
      <3> QED BY <3>1, <3>2, <2>2
    <2> QED BY <2>2, <2>3, <2>4, <2>5 DEF ProcOK, Working
  <1> QED BY <1>4, <1>5, <1>6

(* A step that creates no event and moves at most p.                       *)
LEMMA StayOK ==
  ASSUME TInv, NEW p \in Proc, NEW t \in Tasks, NEW s \in Steps, NEW c \in Nat,
         UNCHANGED <<events, created>>,
         task' = [task EXCEPT ![p] = t],
         step' = [step EXCEPT ![p] = s],
         cur' = [cur EXCEPT ![p] = c],
         t \in {"emit", "zone", "flush"} => c \in DOMAIN events[p],
         s # "check" => t \in {"emit", "zone", "flush"},
         t = "zone" => c > 1,
         \A q \in Proc : persisted'[q] \subseteq DOMAIN events[q]
  PROVE  /\ events' \in [Proc -> Seq(Event)] /\ cur' \in [Proc -> Nat]
         /\ task' \in [Proc -> Tasks] /\ step' \in [Proc -> Steps]
         /\ \A q \in Proc : ProcOK(q)'
  <1>1. /\ events' \in [Proc -> Seq(Event)] /\ cur' \in [Proc -> Nat]
        /\ task' \in [Proc -> Tasks] /\ step' \in [Proc -> Steps]
    BY DEF TInv, Shape
  <1>2. ASSUME NEW q \in Proc PROVE ProcOK(q)'
    <2>1. CASE q = p
      <3>1. task'[q] = t /\ step'[q] = s /\ cur'[q] = c
        BY <2>1 DEF TInv, Shape
      <3> QED BY <2>1, <3>1 DEF TInv, ProcOK, Working
    <2>2. CASE q # p
      <3>1. task'[q] = task[q] /\ step'[q] = step[q] /\ cur'[q] = cur[q]
        BY <2>2 DEF TInv, Shape
      <3> QED BY <3>1 DEF TInv, ProcOK, Working
    <2> QED BY <2>1, <2>2
  <1> QED BY <1>1, <1>2

(* What follows a write keeps the part of the invariant about processes.   *)
LEMMA ContinueOK ==
  ASSUME TInv, NEW p \in Proc, Working(p), Continue(p), UNCHANGED created,
         \A q \in Proc : persisted'[q] \subseteq DOMAIN events[q]
  PROVE  /\ events' \in [Proc -> Seq(Event)] /\ cur' \in [Proc -> Nat]
         /\ task' \in [Proc -> Tasks] /\ step' \in [Proc -> Steps]
         /\ \A q \in Proc : ProcOK(q)'
         /\ alerted' \subseteq 1 .. created
  <1>1. /\ cur[p] \in 1 .. Len(events[p]) /\ Current(p) \in Event
        /\ DOMAIN events[p] = 1 .. Len(events[p]) /\ Len(events[p]) \in Nat
        /\ created \in Nat /\ created <= MaxEvents /\ MaxEvents \in Nat
        /\ alerted \subseteq 1 .. created
        /\ \A i \in 1 .. Len(events[p]) : events[p][i].id \in 1 .. created
    BY CurrentEvent, EventsTyped DEF TInv, Shape
  <1>2. CASE /\ task[p] = "emit" /\ Current(p).zone # "none"
             /\ Record(p, Current(p).id + 1, Current(p).zone, "none", "zone")
             /\ UNCHANGED alerted
    <2>1. Current(p).zone \in Zones \cup {"none"} /\ Current(p).id + 1 \in 1 .. created
      BY <1>1, <1>2, CurrentEvent, EventFields
    <2>2. Current(p).zone \in Sources \cup Zones /\ Current(p).id + 1 \in 1 .. MaxEvents
      BY <2>1, <1>2, <1>1
    <2> QED BY <1>1, <1>2, <2>1, <2>2, RecordOK
  <1>3. ASSUME NEW i \in 1 .. Len(events[p]), Dispatch(p, i)
        PROVE  /\ events' \in [Proc -> Seq(Event)] /\ cur' \in [Proc -> Nat]
               /\ task' \in [Proc -> Tasks] /\ step' \in [Proc -> Steps]
               /\ \A q \in Proc : ProcOK(q)'
               /\ alerted' \subseteq 1 .. created
    <2>1. /\ task' = [task EXCEPT ![p] = "idle"]
          /\ step' = [step EXCEPT ![p] = "check"]
          /\ cur' = [cur EXCEPT ![p] = 0]
          /\ UNCHANGED events
          /\ alerted' = alerted \cup {events[p][i].id}
      BY <1>3 DEF Dispatch, Leave
    <2>2. "idle" \in Tasks /\ "check" \in Steps
      BY DEF Tasks, Steps
    <2>3. alerted' \subseteq 1 .. created
      BY <2>1, <1>1
    <2> QED BY <2>1, <2>2, <2>3, StayOK
  <1>4. CASE /\ task[p] = "flush" /\ cur[p] < Len(events[p])
             /\ cur' = [cur EXCEPT ![p] = @ + 1]
             /\ step' = [step EXCEPT ![p] = "check"]
             /\ UNCHANGED <<events, task, alerted>>
    <2>1. task' = [task EXCEPT ![p] = "flush"] /\ cur' = [cur EXCEPT ![p] = cur[p] + 1]
      BY <1>4 DEF TInv, Shape
    <2>2. cur[p] + 1 \in Nat /\ cur[p] + 1 \in DOMAIN events[p]
      BY <1>1, <1>4
    <2>3. "flush" \in Tasks /\ "check" \in Steps
      BY DEF Tasks, Steps
    <2>4. step' = [step EXCEPT ![p] = "check"] /\ UNCHANGED <<events, created>>
      BY <1>4
    <2>5. alerted' \subseteq 1 .. created
      BY <1>1, <1>4
    <2> QED BY <2>1, <2>2, <2>3, <2>4, <2>5, StayOK
  <1>5. CASE Leave(p, "done") /\ UNCHANGED <<events, alerted>>
    BY <1>1, <1>5, StayOK DEF Leave, Tasks, Steps
  <1>6. CASE task[p] = "emit" /\ Dispatch(p, cur[p])
    BY <1>1, <1>3, <1>6
  <1>7. CASE task[p] = "zone" /\ Dispatch(p, cur[p] - 1)
    <2>1. cur[p] - 1 \in 1 .. Len(events[p])
      BY <1>1, <1>7 DEF TInv, ProcOK
    <2> QED BY <1>3, <1>7, <2>1
  <1> QED
    BY <1>2, <1>4, <1>5, <1>6, <1>7 DEF Continue

-----------------------------------------------------------------------------
LEMMA InitType == Init => TInv
  BY SinkAssumption, EmptySeq DEF Init, TInv, Shape, ProcOK, Working, Tasks, Steps

LEMMA GotoOK ==
  ASSUME TInv, NEW p \in Proc, NEW from \in Steps, NEW to \in Steps,
         Goto(p, from, to)
  PROVE  /\ events' \in [Proc -> Seq(Event)] /\ cur' \in [Proc -> Nat]
         /\ task' \in [Proc -> Tasks] /\ step' \in [Proc -> Steps]
         /\ \A q \in Proc : ProcOK(q)'
         /\ UNCHANGED <<persisted, created, acked, alerted>>
  <1>1. task' = [task EXCEPT ![p] = task[p]] /\ cur' = [cur EXCEPT ![p] = cur[p]]
        /\ task[p] \in Tasks /\ cur[p] \in Nat
    BY DEF Goto, TInv, Shape
  <1>2. /\ step' = [step EXCEPT ![p] = to]
        /\ UNCHANGED <<events, created>>
        /\ UNCHANGED <<persisted, created, acked, alerted>>
    BY DEF Goto
  <1>3. \A q \in Proc : persisted'[q] \subseteq DOMAIN events[q]
    BY <1>2 DEF TInv, ProcOK
  <1>4. /\ task[p] \in {"emit", "zone", "flush"}
        /\ cur[p] \in DOMAIN events[p]
        /\ task[p] = "zone" => cur[p] > 1
    BY DEF Goto, TInv, ProcOK, Working
  <1> QED BY <1>1, <1>2, <1>3, <1>4, StayOK

(* What is left of TInv' when the processes' part is settled.              *)
LEMMA Rest ==
  ASSUME TInv,
         file' \in Seq((1 .. MaxEvents) \X Halves), synced' \in 0 .. Len(file'),
         lock' \in Proc \cup {None}, persisted' \in [Proc -> SUBSET Nat],
         created' \in 0 .. MaxEvents, acked' \subseteq 1 .. created',
         alerted' \subseteq 1 .. created',
         events' \in [Proc -> Seq(Event)], cur' \in [Proc -> Nat],
         task' \in [Proc -> Tasks], step' \in [Proc -> Steps],
         \A q \in Proc : ProcOK(q)'
  PROVE  TInv'
  BY DEF TInv, Shape

(* Appending to the file keeps its type.                                   *)
LEMMA Appended ==
  ASSUME TInv, NEW id \in 1 .. created, NEW half \in Halves
  PROVE  /\ Append(file, <<id, half>>) \in Seq((1 .. MaxEvents) \X Halves)
         /\ synced \in 0 .. Len(Append(file, <<id, half>>))
         /\ Len(Append(file, <<id, half>>)) = Len(file) + 1
         /\ Len(file) \in Nat
  <1>1. <<id, half>> \in (1 .. MaxEvents) \X Halves
    BY SinkAssumption DEF TInv, Shape
  <1>2. file \in Seq((1 .. MaxEvents) \X Halves) /\ synced \in 0 .. Len(file)
    BY DEF TInv, Shape
  <1>3. /\ Append(file, <<id, half>>) \in Seq((1 .. MaxEvents) \X Halves)
        /\ Len(Append(file, <<id, half>>)) = Len(file) + 1
        /\ Len(file) \in Nat
    BY <1>1, <1>2, AppendProperties, LenProperties
  <1> QED BY <1>2, <1>3

LEMMA EmitType ==
  ASSUME TInv, NEW p \in Proc, NEW name \in Sources,
         NEW zone \in Zones \cup {"none"}, Emit(p, name, zone)
  PROVE  TInv'
  <1>1. /\ created \in Nat /\ MaxEvents \in Nat /\ created + 2 <= MaxEvents
        /\ created' = created + 2
        /\ Record(p, created + 1, name, zone, "emit")
        /\ UNCHANGED <<file, synced, lock, persisted, acked, alerted>>
    BY EventsTyped DEF Emit
  <1>2. \A q \in Proc : persisted'[q] \subseteq DOMAIN events[q]
    BY <1>1 DEF TInv, ProcOK
  <1>3. /\ events' \in [Proc -> Seq(Event)] /\ cur' \in [Proc -> Nat]
        /\ task' \in [Proc -> Tasks] /\ step' \in [Proc -> Steps]
        /\ \A q \in Proc : ProcOK(q)'
    BY <1>1, <1>2, RecordOK
  <1>4. acked' \subseteq 1 .. created' /\ alerted' \subseteq 1 .. created'
            /\ created' \in 0 .. MaxEvents
    BY <1>1 DEF TInv, Shape
  <1> QED BY <1>1, <1>3, <1>4, Rest DEF TInv, Shape

LEMMA FlushType ==
  ASSUME TInv, NEW p \in Proc, Flush(p)
  PROVE  TInv'
  <1>1. 1 \in DOMAIN events[p]
    BY EventsTyped, EmptySeq DEF Flush
  <1>2. /\ task' = [task EXCEPT ![p] = "flush"] /\ "flush" \in Tasks
        /\ step' = [step EXCEPT ![p] = "check"] /\ "check" \in Steps
        /\ cur' = [cur EXCEPT ![p] = 1]
        /\ UNCHANGED <<events, created>>
        /\ UNCHANGED <<file, synced, lock, persisted, acked, alerted>>
    BY DEF Flush, Tasks, Steps
  <1>3. \A q \in Proc : persisted'[q] \subseteq DOMAIN events[q]
    BY <1>2 DEF TInv, ProcOK
  <1>4. /\ events' \in [Proc -> Seq(Event)] /\ cur' \in [Proc -> Nat]
        /\ task' \in [Proc -> Tasks] /\ step' \in [Proc -> Steps]
        /\ \A q \in Proc : ProcOK(q)'
    BY <1>1, <1>2, <1>3, StayOK
  <1> QED BY <1>2, <1>4, Rest DEF TInv, Shape

LEMMA SkipType ==
  ASSUME TInv, NEW p \in Proc, Skip(p)
  PROVE  TInv'
  <1>1. /\ Working(p) /\ Continue(p) /\ UNCHANGED created
        /\ UNCHANGED <<file, synced, lock, persisted, created, acked>>
        /\ \A q \in Proc : persisted'[q] \subseteq DOMAIN events[q]
    BY DEF Skip, TInv, ProcOK
  <1>2. /\ events' \in [Proc -> Seq(Event)] /\ cur' \in [Proc -> Nat]
        /\ task' \in [Proc -> Tasks] /\ step' \in [Proc -> Steps]
        /\ \A q \in Proc : ProcOK(q)'
        /\ alerted' \subseteq 1 .. created
    BY <1>1, ContinueOK
  <1> QED BY <1>1, <1>2, Rest DEF TInv, Shape

LEMMA MarkType ==
  ASSUME TInv, NEW p \in Proc, Mark(p)
  PROVE  TInv'
  <1>1. /\ Working(p) /\ Continue(p) /\ UNCHANGED created
        /\ UNCHANGED <<file, synced, created>>
        /\ persisted' = [persisted EXCEPT ![p] = @ \cup {cur[p]}]
        /\ acked' = acked \cup {Current(p).id}
        /\ lock' = Unlocked(p)
    BY DEF Mark
  <1>2. /\ Current(p).id \in 1 .. created /\ cur[p] \in DOMAIN events[p]
        /\ cur[p] \in Nat
    BY <1>1, CurrentEvent, EventsTyped
  <1>3. /\ persisted' \in [Proc -> SUBSET Nat]
        /\ \A q \in Proc : persisted'[q] \subseteq DOMAIN events[q]
    BY <1>1, <1>2 DEF TInv, Shape, ProcOK
  <1>4. /\ events' \in [Proc -> Seq(Event)] /\ cur' \in [Proc -> Nat]
        /\ task' \in [Proc -> Tasks] /\ step' \in [Proc -> Steps]
        /\ \A q \in Proc : ProcOK(q)'
        /\ alerted' \subseteq 1 .. created
    BY <1>1, <1>3, ContinueOK
  <1>5. lock' \in Proc \cup {None} /\ acked' \subseteq 1 .. created
    BY <1>1, <1>2 DEF Unlocked, TInv, Shape
  <1> QED BY <1>1, <1>3, <1>4, <1>5, Rest DEF TInv, Shape

LEMMA RaiseType ==
  ASSUME TInv, NEW p \in Proc, Raise(p)
  PROVE  TInv'
  <1>1. /\ Current(p).id \in 1 .. created
        /\ lock' = Unlocked(p)
        /\ UNCHANGED <<synced, persisted, acked, alerted>>
        /\ UNCHANGED <<events, created>>
    BY CurrentEvent DEF Raise
  <1> DEFINE t == IF task[p] = "flush" THEN "cut" ELSE "idle"
  <1>2. /\ task' = [task EXCEPT ![p] = t] /\ t \in Tasks /\ t \in {"cut", "idle"}
        /\ step' = [step EXCEPT ![p] = "check"] /\ "check" \in Steps
        /\ cur' = [cur EXCEPT ![p] = 0]
    BY DEF Raise, Leave, Tasks, Steps
  <1>3. \A q \in Proc : persisted'[q] \subseteq DOMAIN events[q]
    BY <1>1 DEF TInv, ProcOK
  <1> HIDE DEF t
  <1>4. /\ events' \in [Proc -> Seq(Event)] /\ cur' \in [Proc -> Nat]
        /\ task' \in [Proc -> Tasks] /\ step' \in [Proc -> Steps]
        /\ \A q \in Proc : ProcOK(q)'
    BY <1>1, <1>2, <1>3, StayOK
  <1>5. lock' \in Proc \cup {None}
    BY <1>1 DEF Unlocked, TInv, Shape
  <1>6. file' \in Seq((1 .. MaxEvents) \X Halves) /\ synced \in 0 .. Len(file')
    <2>1. CASE UNCHANGED file
      BY <2>1 DEF TInv, Shape
    <2>2. CASE file' = Append(file, <<Current(p).id, "tail">>)
      BY <2>2, <1>1, Appended DEF Halves
    <2>3. CASE file' = file \o <<<<Current(p).id, "head">>, <<Current(p).id, "tail">>>>
      <3>1. LET two == <<<<Current(p).id, "head">>, <<Current(p).id, "tail">>>>
            IN  two \in Seq((1 .. MaxEvents) \X Halves) /\ Len(two) = 2
        BY <1>1, SinkAssumption DEF Halves, TInv, Shape
      <3> QED
        BY <2>3, <3>1, ConcatProperties, LenProperties DEF TInv, Shape
    <2> QED BY <2>1, <2>2, <2>3 DEF Raise
  <1> QED BY <1>1, <1>4, <1>5, <1>6, Rest DEF TInv, Shape

LEMMA ExitType ==
  ASSUME TInv, NEW p \in Proc, Exit(p)
  PROVE  TInv'
  <1>1. /\ events' = [events EXCEPT ![p] = <<>>]
        /\ persisted' = [persisted EXCEPT ![p] = {}]
        /\ task' = [task EXCEPT ![p] = "idle"] /\ "idle" \in Tasks
        /\ step' = [step EXCEPT ![p] = "check"] /\ "check" \in Steps
        /\ cur' = [cur EXCEPT ![p] = 0]
        /\ lock' = Unlocked(p)
        /\ UNCHANGED <<file, synced, created, acked, alerted>>
    BY DEF Exit, Leave, Tasks, Steps
  <1>2. /\ events' \in [Proc -> Seq(Event)] /\ cur' \in [Proc -> Nat]
        /\ task' \in [Proc -> Tasks] /\ step' \in [Proc -> Steps]
        /\ persisted' \in [Proc -> SUBSET Nat]
    BY <1>1, EmptySeq DEF TInv, Shape
  <1>3. ASSUME NEW q \in Proc PROVE ProcOK(q)'
    <2>1. CASE q = p
      <3>1. /\ events'[p] = <<>> /\ DOMAIN events'[p] = {}
            /\ persisted'[p] = {} /\ task'[p] = "idle" /\ step'[p] = "check"
        BY <1>1, EmptySeq DEF TInv, Shape
      <3> QED BY <2>1, <3>1 DEF ProcOK, Working
    <2>2. CASE q # p
      <3>1. /\ events'[q] = events[q] /\ persisted'[q] = persisted[q]
            /\ task'[q] = task[q] /\ step'[q] = step[q] /\ cur'[q] = cur[q]
        BY <1>1, <2>2 DEF TInv, Shape
      <3> QED BY <1>1, <3>1 DEF TInv, ProcOK, Working
    <2> QED BY <2>1, <2>2
  <1>4. lock' \in Proc \cup {None}
    BY <1>1 DEF Unlocked, TInv, Shape
  <1> QED BY <1>1, <1>2, <1>3, <1>4, Rest DEF TInv, Shape

LEMMA PowerLossType ==
  ASSUME TInv, PowerLoss
  PROVE  TInv'
  <1>1. PICK n \in synced .. Len(file) : file' = SubSeq(file, 1, n)
    BY DEF PowerLoss
  <1>2. file' \in Seq((1 .. MaxEvents) \X Halves) /\ Len(file') = n /\ n \in Nat
    <2>1. file \in Seq((1 .. MaxEvents) \X Halves) /\ synced \in Nat
              /\ Len(file) \in Nat /\ n \in 0 .. Len(file)
      BY LenProperties DEF TInv, Shape
    <2> QED BY <1>1, <2>1, SubSeqProperties
  <1>3. synced' \in 0 .. Len(file') /\ lock' \in Proc \cup {None}
    BY <1>2 DEF PowerLoss
  <1>4. /\ events' \in [Proc -> Seq(Event)] /\ cur' \in [Proc -> Nat]
        /\ task' \in [Proc -> Tasks] /\ step' \in [Proc -> Steps]
        /\ persisted' \in [Proc -> SUBSET Nat]
    BY EmptySeq DEF PowerLoss, Tasks, Steps
  <1>5. ASSUME NEW q \in Proc PROVE ProcOK(q)'
    <2>1. /\ events'[q] = <<>> /\ DOMAIN events'[q] = {}
          /\ persisted'[q] = {} /\ task'[q] = "idle" /\ step'[q] = "check"
      BY EmptySeq DEF PowerLoss
    <2> QED BY <2>1 DEF ProcOK, Working
  <1> QED BY <1>2, <1>3, <1>4, <1>5, Rest DEF PowerLoss, TInv, Shape

(* The steps of _write_jsonl that only move p on.                          *)
LEMMA WriteType ==
  ASSUME TInv, NEW p \in Proc,
         \/ Open(p) \/ Acquire(p) \/ WriteHead(p) \/ WriteTail(p) \/ Fsync(p)
  PROVE  TInv'
  <1>1. \E from, to \in Steps : Goto(p, from, to)
    BY DEF Open, Acquire, WriteHead, WriteTail, Fsync, Steps
  <1>2. /\ events' \in [Proc -> Seq(Event)] /\ cur' \in [Proc -> Nat]
        /\ task' \in [Proc -> Tasks] /\ step' \in [Proc -> Steps]
        /\ \A q \in Proc : ProcOK(q)'
        /\ UNCHANGED <<persisted, created, acked, alerted>>
    BY <1>1, GotoOK
  <1>3. lock' \in Proc \cup {None}
    BY DEF Open, Acquire, WriteHead, WriteTail, Fsync, TInv, Shape
  <1>4. Current(p).id \in 1 .. created
    BY <1>1, CurrentEvent DEF Goto
  <1>5. file' \in Seq((1 .. MaxEvents) \X Halves) /\ synced' \in 0 .. Len(file')
    <2>1. CASE UNCHANGED <<file, synced>>
      BY <2>1 DEF TInv, Shape
    <2>2. CASE UNCHANGED file /\ synced' = Len(file)
      BY <2>2, LenProperties DEF TInv, Shape
    <2>3. CASE \E half \in Halves :
                   UNCHANGED synced /\ file' = Append(file, <<Current(p).id, half>>)
      BY <2>3, <1>4, Appended
    <2> QED
      BY <2>1, <2>2, <2>3 DEF Open, Acquire, WriteHead, WriteTail, Fsync, Halves
  <1> QED BY <1>2, <1>3, <1>5, Rest DEF TInv, Shape

LEMMA StepType == TInv /\ [Next]_vars => TInv'
  <1> SUFFICES ASSUME TInv, [Next]_vars PROVE TInv'
    OBVIOUS
  <1>1. CASE UNCHANGED vars
    BY <1>1 DEF vars, TInv, Shape, ProcOK, Working
  <1>2. CASE PowerLoss
    BY <1>2, PowerLossType
  <1>3. ASSUME NEW p \in Proc, NEW name \in Sources, NEW zone \in Zones \cup {"none"},
               Emit(p, name, zone)
        PROVE  TInv'
    BY <1>3, EmitType
  <1>4. ASSUME NEW p \in Proc, Flush(p) \/ Write(p) \/ Exit(p)
        PROVE  TInv'
    BY <1>4, FlushType, SkipType, MarkType, RaiseType, ExitType, WriteType DEF Write
  <1> QED BY <1>1, <1>2, <1>3, <1>4 DEF Next

(* Every state of the sinks has the types of TypeOK: marks only for events *)
(* in memory, ids only as given out, a synced part no longer than the file.*)
THEOREM TypeCorrect == Spec => []TypeOK
  <1>1. Spec => []TInv
    BY InitType, StepType, PTL DEF Spec
  <1> QED BY <1>1, TInvType, PTL

-----------------------------------------------------------------------------
(* Durability.  A process inside the locked part holds the lock, so the    *)
(* file ends with what it has written so far; after its fsync the line is  *)
(* within the synced part, which never shrinks nor changes.                *)
Holding(p) == step[p] \in {"write", "rest", "sync", "mark"}

LockHeld == \A p \in Proc : Holding(p) => lock = p

OnDisk(id) == \E i \in 1 .. synced - 1 : LineAt(id, i)

Partway(p) ==
    /\ step[p] = "rest" => /\ Len(file) >= 1
                           /\ file[Len(file)] = <<Current(p).id, "head">>
    /\ step[p] = "sync" => /\ Len(file) >= 2
                           /\ LineAt(Current(p).id, Len(file) - 1)
    /\ step[p] = "mark" => OnDisk(Current(p).id)

DInv ==
    /\ TInv
    /\ LockHeld
    /\ \A p \in Proc : Partway(p)
    /\ \A id \in acked : OnDisk(id)

LEMMA Lengths ==
  ASSUME TInv
  PROVE  Len(file) \in Nat /\ synced \in Nat /\ synced <= Len(file)
  BY LenProperties DEF TInv, Shape

(* The synced part of the file stays as it is.                             *)
LEMMA OnDiskStays ==
  ASSUME TInv, NEW id,
         synced' \in Nat, synced' >= synced, Len(file') \in Nat, Len(file') >= synced',
         \A i \in 1 .. synced : file'[i] = file[i],
         OnDisk(id)
  PROVE  OnDisk(id)'
  <1>1. PICK i \in 1 .. synced - 1 : LineAt(id, i)
    BY DEF OnDisk
  <1> DEFINE n == synced  m == synced'  l == Len(file')
  <1>2. /\ n \in Nat /\ m \in Nat /\ l \in Nat /\ n <= m /\ m <= l /\ i \in 1 .. n - 1
    BY <1>1, Lengths
  <1> HIDE DEF n, m, l
  <1>3. i \in 1 .. n /\ i + 1 \in 1 .. n /\ i < l /\ i \in 1 .. m - 1
    BY <1>2
  <1> USE DEF n, m, l
  <1>4. file'[i] = file[i] /\ file'[i + 1] = file[i + 1]
    BY <1>3
  <1>5. LineAt(id, i)'
    BY <1>1, <1>3, <1>4 DEF LineAt
  <1> QED BY <1>3, <1>5 DEF OnDisk

(* A step after which p holds nothing and that leaves the synced part      *)
(* alone, and all of the file when p did not hold the lock.                *)
LEMMA NotHolding ==
  ASSUME DInv, NEW p \in Proc, TInv',
         step'[p] \in {"check", "lock"},
         lock' = lock \/ lock' = Unlocked(p),
         \A q \in Proc \ {p} : /\ events'[q] = events[q] /\ cur'[q] = cur[q]
                               /\ step'[q] = step[q],
         synced' = synced, Len(file') >= synced,
         \A i \in 1 .. synced : file'[i] = file[i],
         Holding(p) \/ file' = file
  PROVE  /\ LockHeld' /\ \A q \in Proc : Partway(q)'
         /\ \A id : OnDisk(id) => OnDisk(id)'
  <1>1. \A id : OnDisk(id) => OnDisk(id)'
    <2>1. TInv /\ synced' \in Nat /\ synced' >= synced /\ Len(file') \in Nat
              /\ Len(file') >= synced'
      BY Lengths, LenProperties DEF DInv, TInv, Shape
    <2> QED BY <2>1, OnDiskStays
  <1>2. ASSUME NEW q \in Proc, Holding(q)'
        PROVE  /\ lock' = q /\ file' = file /\ q # p /\ step'[q] = step[q]
               /\ events'[q] = events[q] /\ cur'[q] = cur[q]
    <2>1. q # p
      BY <1>2 DEF Holding
    <2>2. step'[q] = step[q] /\ Holding(q) /\ lock = q
      BY <1>2, <2>1 DEF Holding, DInv, LockHeld
    <2>3. ~Holding(p)
      BY <2>1, <2>2 DEF DInv, LockHeld
    <2> QED BY <2>1, <2>2, <2>3 DEF Unlocked
  <1>3. ASSUME NEW q \in Proc PROVE Partway(q)'
    <2>1. CASE ~Holding(q)'
      BY <2>1 DEF Partway, Holding
    <2>2. CASE Holding(q)'
      <3>1. /\ file' = file /\ step'[q] = step[q] /\ synced' = synced
            /\ events'[q] = events[q] /\ cur'[q] = cur[q]
            /\ Partway(q)
        BY <1>2, <2>2 DEF DInv
      <3> QED BY <3>1 DEF Partway, Current, OnDisk, LineAt
    <2> QED BY <2>1, <2>2
  <1> QED BY <1>1, <1>2, <1>3 DEF LockHeld

(* A step after which p alone is inside the locked part.                   *)
LEMMA OnlyHolder ==
  ASSUME DInv, NEW p \in Proc, TInv', lock' = p,
         lock \in {None, p},
         \A q \in Proc \ {p} : step'[q] = step[q],
         synced' >= synced, Len(file') >= synced',
         \A i \in 1 .. synced : file'[i] = file[i],
         Partway(p)'
  PROVE  /\ LockHeld' /\ \A q \in Proc : Partway(q)'
         /\ \A id : OnDisk(id) => OnDisk(id)'
  <1>1. \A id : OnDisk(id) => OnDisk(id)'
    <2>1. TInv /\ synced' \in Nat /\ Len(file') \in Nat
      BY LenProperties DEF DInv, TInv, Shape
    <2> QED BY <2>1, OnDiskStays
  <1>2. \A q \in Proc \ {p} : ~Holding(q)'
    BY SinkAssumption DEF DInv, LockHeld, Holding
  <1> QED BY <1>1, <1>2 DEF LockHeld, Partway, Holding

(* The parts of DInv other than the types.                                 *)
DRest == /\ LockHeld
         /\ \A p \in Proc : Partway(p)
         /\ \A id \in acked : OnDisk(id)

LEMMA Same ==
  ASSUME DInv, UNCHANGED <<file, synced, lock, acked>>,
         \A q \in Proc : Holding(q)' => /\ step'[q] = step[q] /\ cur'[q] = cur[q]
                                        /\ events'[q] = events[q]
  PROVE  DRest'
  <1>1. ASSUME NEW q \in Proc PROVE (Holding(q)' => lock' = q) /\ Partway(q)'
    BY DEF DInv, LockHeld, Holding, Partway, Current, OnDisk, LineAt
  <1> QED BY <1>1 DEF DInv, DRest, LockHeld, OnDisk, LineAt

LEMMA RecordMoves ==
  ASSUME TInv, NEW p \in Proc, NEW id, NEW name, NEW zone, NEW for,
         Record(p, id, name, zone, for)
  PROVE  /\ step'[p] = "check"
         /\ \A q \in Proc \ {p} : /\ events'[q] = events[q] /\ cur'[q] = cur[q]
                                  /\ step'[q] = step[q]
  BY DEF Record, TInv, Shape

LEMMA LeaveMoves ==
  ASSUME TInv, NEW p \in Proc, NEW as, Leave(p, as)
  PROVE  /\ step'[p] = "check"
         /\ \A q \in Proc \ {p} : cur'[q] = cur[q] /\ step'[q] = step[q]
  BY DEF Leave, TInv, Shape

LEMMA ContinueMoves ==
  ASSUME TInv, NEW p \in Proc, Continue(p)
  PROVE  /\ step'[p] = "check"
         /\ \A q \in Proc \ {p} : /\ events'[q] = events[q] /\ cur'[q] = cur[q]
                                  /\ step'[q] = step[q]
  <1>1. ASSUME NEW i, Dispatch(p, i)
        PROVE  /\ step'[p] = "check" /\ UNCHANGED events
               /\ \A q \in Proc \ {p} : cur'[q] = cur[q] /\ step'[q] = step[q]
    BY <1>1, LeaveMoves DEF Dispatch
  <1>2. ASSUME Leave(p, "done"), UNCHANGED events
        PROVE  /\ step'[p] = "check"
               /\ \A q \in Proc \ {p} : cur'[q] = cur[q] /\ step'[q] = step[q]
    BY <1>2, LeaveMoves
  <1>3. CASE \E id, name, zone, for : Record(p, id, name, zone, for)
    BY <1>3, RecordMoves
  <1>4. CASE /\ cur' = [cur EXCEPT ![p] = @ + 1]
             /\ step' = [step EXCEPT ![p] = "check"]
             /\ UNCHANGED events
    BY <1>4 DEF TInv, Shape
  <1> QED BY <1>1, <1>2, <1>3, <1>4 DEF Continue

(* The steps after which p does not hold the lock.                         *)
LEMMA OutsideStep ==
  ASSUME DInv, TInv', NEW p \in Proc,
         \/ \E name, zone : Emit(p, name, zone)
         \/ Flush(p) \/ Skip(p) \/ Open(p) \/ Mark(p) \/ Raise(p) \/ Exit(p)
  PROVE  DRest'
  <1>1. /\ step'[p] \in {"check", "lock"}
        /\ \A q \in Proc \ {p} : /\ events'[q] = events[q] /\ cur'[q] = cur[q]
                                 /\ step'[q] = step[q]
    <2>1. CASE \E name, zone : Emit(p, name, zone)
      BY <2>1, RecordMoves DEF Emit, DInv
    <2>2. CASE Flush(p)
      BY <2>2 DEF Flush, DInv, TInv, Shape
    <2>3. CASE Skip(p) \/ Mark(p)
      BY <2>3, ContinueMoves DEF Skip, Mark, DInv
    <2>4. CASE Open(p)
      BY <2>4 DEF Open, Goto, DInv, TInv, Shape
    <2>5. CASE Raise(p)
      BY <2>5, LeaveMoves DEF Raise, DInv
    <2>6. CASE Exit(p)
      BY <2>6, LeaveMoves DEF Exit, DInv, TInv, Shape
    <2> QED BY <2>1, <2>2, <2>3, <2>4, <2>5, <2>6
  <1>2. /\ lock' = lock \/ lock' = Unlocked(p)
        /\ synced' = synced
    BY DEF Emit, Flush, Skip, Open, Mark, Raise, Exit
  <1>3. /\ Len(file') >= synced
        /\ \A i \in 1 .. synced : file'[i] = file[i]
        /\ Holding(p) \/ file' = file
    <2>1. CASE file' = file
      BY <2>1, Lengths DEF DInv
    <2>2. CASE Raise(p) /\ file' # file
      <3>1. step[p] \in {"write", "rest"} /\ Current(p).id \in 1 .. created
        BY <2>2, CurrentEvent DEF Raise, DInv
      <3>2. file \in Seq((1 .. MaxEvents) \X Halves)
        BY DEF DInv, TInv, Shape
      <3>3. CASE file' = Append(file, <<Current(p).id, "tail">>)
        <4>1. <<Current(p).id, "tail">> \in (1 .. MaxEvents) \X Halves
          BY <3>1, SinkAssumption DEF DInv, TInv, Shape, Halves
        <4> QED
          BY <3>1, <3>2, <3>3, <4>1, AppendProperties, Lengths DEF Holding, DInv
      <3>4. CASE file' = file \o <<<<Current(p).id, "head">>, <<Current(p).id, "tail">>>>
        <4> DEFINE two == <<<<Current(p).id, "head">>, <<Current(p).id, "tail">>>>
        <4>1. two \in Seq((1 .. MaxEvents) \X Halves) /\ Len(two) = 2
          <5>1. Current(p).id \in 1 .. MaxEvents
            BY <3>1, SinkAssumption DEF DInv, TInv, Shape
          <5> QED BY <5>1 DEF Halves
        <4>2. file' = file \o two
          BY <3>4
        <4> HIDE DEF two
        <4> QED
          BY <3>1, <3>2, <4>1, <4>2, ConcatProperties, Lengths DEF Holding, DInv
      <3> QED BY <2>2, <3>3, <3>4 DEF Raise
    <2> QED
      BY <2>1, <2>2 DEF Emit, Flush, Skip, Open, Mark, Exit
  <1>4. /\ LockHeld' /\ \A q \in Proc : Partway(q)'
        /\ \A id : OnDisk(id) => OnDisk(id)'
    BY <1>1, <1>2, <1>3, NotHolding
  <1>5. acked' = acked \/ (Mark(p) /\ acked' = acked \cup {Current(p).id})
    <2>1. CASE Mark(p)
      BY <2>1 DEF Mark
    <2>2. CASE \E name, zone : Emit(p, name, zone)
      BY <2>2 DEF Emit
    <2>3. CASE Flush(p) \/ Skip(p) \/ Raise(p) \/ Exit(p)
      BY <2>3 DEF Flush, Skip, Raise, Exit
    <2>4. CASE Open(p)
      BY <2>4 DEF Open, Goto
    <2> QED BY <2>1, <2>2, <2>3, <2>4
  <1>6. Mark(p) => OnDisk(Current(p).id)
    BY DEF Mark, DInv, Partway
  <1> QED BY <1>4, <1>5, <1>6 DEF DRest, DInv

(* The steps inside the locked part.                                       *)
LEMMA InsideStep ==
  ASSUME Flock, DInv, TInv', NEW p \in Proc,
         Acquire(p) \/ WriteHead(p) \/ WriteTail(p) \/ Fsync(p)
  PROVE  DRest'
  <1>1. PICK from \in Steps, to \in Steps : Goto(p, from, to)
    BY DEF Acquire, WriteHead, WriteTail, Fsync, Steps
  <1>2. /\ step'[p] = to /\ step[p] = from /\ Working(p)
        /\ \A q \in Proc \ {p} : step'[q] = step[q]
        /\ UNCHANGED <<events, cur, acked>>
    BY <1>1 DEF Goto, DInv, TInv, Shape
  <1>3. Current(p)' = Current(p) /\ Current(p).id \in 1 .. created
    BY <1>2, CurrentEvent DEF Current, DInv
  <1>4. lock \in {None, p} /\ lock' = p
    BY DEF Acquire, WriteHead, WriteTail, Fsync, Goto, DInv, LockHeld, Holding
  <1> DEFINE Post == /\ synced' >= synced /\ Len(file') >= synced'
                     /\ \A i \in 1 .. synced : file'[i] = file[i]
                     /\ Partway(p)'
  <1>5. ASSUME Acquire(p) PROVE Post
    <2>1. step'[p] = "write" /\ UNCHANGED <<file, synced>>
      BY <1>5, <1>2 DEF Acquire, Goto, DInv, TInv, Shape
    <2> QED BY <2>1, Lengths DEF Partway, DInv
  <1>6. ASSUME NEW half \in Halves, file' = Append(file, <<Current(p).id, half>>)
        PROVE  /\ Len(file') = Len(file) + 1
               /\ file'[Len(file')] = <<Current(p).id, half>>
               /\ \A i \in 1 .. Len(file) : file'[i] = file[i]
    <2>1. <<Current(p).id, half>> \in (1 .. MaxEvents) \X Halves
      BY <1>3, SinkAssumption DEF DInv, TInv, Shape
    <2>2. file \in Seq((1 .. MaxEvents) \X Halves) /\ Len(file) \in Nat
      BY Lengths DEF DInv, TInv, Shape
    <2> QED BY <1>6, <2>1, <2>2, AppendProperties
  <1>7. ASSUME WriteHead(p) PROVE Post
    <2>1. /\ step'[p] = "rest" /\ synced' = synced
          /\ file' = Append(file, <<Current(p).id, "head">>)
      BY <1>7, <1>2 DEF WriteHead, Goto, DInv, TInv, Shape
    <2>2. /\ Len(file') = Len(file) + 1
          /\ file'[Len(file')] = <<Current(p).id, "head">>
          /\ \A i \in 1 .. Len(file) : file'[i] = file[i]
      BY <1>6, <2>1 DEF Halves
    <2> QED BY <1>3, <2>1, <2>2, Lengths DEF Partway, DInv
  <1>8. ASSUME WriteTail(p) PROVE Post
    <2>1. /\ step'[p] = "sync" /\ step[p] = "rest" /\ synced' = synced
          /\ file' = Append(file, <<Current(p).id, "tail">>)
      BY <1>8, <1>2 DEF WriteTail, Goto, DInv, TInv, Shape
    <2>2. /\ Len(file') = Len(file) + 1
          /\ file'[Len(file')] = <<Current(p).id, "tail">>
          /\ \A i \in 1 .. Len(file) : file'[i] = file[i]
      BY <1>6, <2>1 DEF Halves
    <2>3. Len(file) >= 1 /\ file[Len(file)] = <<Current(p).id, "head">>
      BY <2>1 DEF DInv, Partway
    <2>4. Len(file') >= 2 /\ LineAt(Current(p).id, Len(file) - 1)'
      BY <1>3, <2>2, <2>3, Lengths DEF LineAt, DInv
    <2> QED BY <1>3, <2>1, <2>2, <2>4, Lengths DEF Partway, DInv
  <1>9. ASSUME Fsync(p) PROVE Post
    <2>1. /\ step'[p] = "mark" /\ step[p] = "sync" /\ synced' = Len(file)
          /\ file' = file
      BY <1>9, <1>2 DEF Fsync, Goto, DInv, TInv, Shape
    <2>2. Len(file) >= 2 /\ LineAt(Current(p).id, Len(file) - 1)
      BY <2>1 DEF DInv, Partway
    <2>3. OnDisk(Current(p).id)'
      BY <1>3, <2>1, <2>2, Lengths DEF OnDisk, LineAt, DInv
    <2> QED BY <2>1, <2>3, Lengths DEF Partway, DInv
  <1>10. Post
    BY <1>5, <1>7, <1>8, <1>9
  <1>11. /\ LockHeld' /\ \A q \in Proc : Partway(q)'
         /\ \A id : OnDisk(id) => OnDisk(id)'
    BY <1>2, <1>4, <1>10, OnlyHolder
  <1> QED BY <1>2, <1>11 DEF DRest, DInv

LEMMA PowerLossStep ==
  ASSUME DInv, TInv', PowerLoss
  PROVE  DRest'
  <1>1. PICK n \in synced .. Len(file) : file' = SubSeq(file, 1, n)
    BY DEF PowerLoss
  <1>2. /\ n \in Nat /\ Len(file') = n /\ synced \in Nat
        /\ \A i \in 1 .. n : file'[i] = file[i]
    <2>1. file \in Seq((1 .. MaxEvents) \X Halves) /\ synced \in Nat
              /\ Len(file) \in Nat /\ n \in 0 .. Len(file)
      BY Lengths DEF DInv, TInv, Shape
    <2> QED BY <1>1, <2>1, SubSeqProperties
  <1>3. \A id : OnDisk(id) => OnDisk(id)'
    BY <1>1, <1>2, OnDiskStays DEF PowerLoss, DInv
  <1>4. \A q \in Proc : step'[q] = "check"
    BY DEF PowerLoss
  <1> QED BY <1>3, <1>4 DEF PowerLoss, DRest, DInv, LockHeld, Holding, Partway

(* The lock and the fsync at work: with the flock, an event whose write has*)
(* returned is on the disk in one piece from then on, whatever the other   *)
(* processes write and whenever a call raises, a process ends or the       *)
(* machine stops.                                                          *)
THEOREM Durable == Flock => (Spec => []AckedOnDisk)
  <1> SUFFICES ASSUME Flock PROVE Spec => []AckedOnDisk
    OBVIOUS
  <1>1. Init => DInv
    BY InitType DEF Init, DInv, LockHeld, Holding, Partway
  <1>2. DInv /\ [Next]_vars => DInv'
    <2> SUFFICES ASSUME DInv, [Next]_vars PROVE DInv'
      OBVIOUS
    <2>1. TInv'
      BY StepType DEF DInv
    <2>2. ASSUME UNCHANGED vars PROVE DRest'
      BY <2>2, Same DEF vars
    <2>3. ASSUME PowerLoss PROVE DRest'
      BY <2>1, <2>3, PowerLossStep
    <2>4. ASSUME NEW p \in Proc,
                 \/ \E name \in Sources, zone \in Zones \cup {"none"} : Emit(p, name, zone)
                 \/ Flush(p) \/ Write(p) \/ Exit(p)
          PROVE  DRest'
      BY <2>1, <2>4, OutsideStep, InsideStep DEF Write
    <2>5. DRest'
      BY <2>2, <2>3, <2>4 DEF Next
    <2> QED BY <2>1, <2>5 DEF DRest, DInv
  <1>3. DInv => AckedOnDisk
    BY DEF DInv, AckedOnDisk, OnDisk
  <1> QED BY <1>1, <1>2, <1>3, PTL DEF Spec
=============================================================================
