------------------------ MODULE TelemetryRecordProofs ------------------------
(***************************************************************************)
(* Proofs about TelemetrySink, for any number of processes and events,     *)
(* with the flock or without it: no event is written again once its write  *)
(* has returned, a flush that ends has left out none, and an alert follows *)
(* the records it is about.                                                *)
(***************************************************************************)
EXTENDS TelemetrySinkProofs

Id(p, i) == events[p][i].id

(* An id is given to one event.  emit takes an odd one and leaves the even *)
(* one after it to the zone event, which comes right behind its source.    *)
Unique ==
    \A p, q \in Proc : \A i \in 1 .. Len(events[p]), j \in 1 .. Len(events[q]) :
        Id(p, i) = Id(q, j) => p = q /\ i = j

Paired ==
    \A p \in Proc : \A i \in 1 .. Len(events[p]) :
        Id(p, i) % 2 = 0 => i > 1 /\ Id(p, i - 1) = Id(p, i) - 1

Numbered == created % 2 = 0 /\ Unique /\ Paired

(* emit works on the last event of the process, and the zone event it may  *)
(* come to has not been written before.                                    *)
AtTheEnd(p) ==
    /\ task[p] \in {"emit", "zone"} => cur[p] = Len(events[p])
    /\ task[p] = "emit" => /\ Current(p).id % 2 = 1
                           /\ Current(p).id + 1 \notin acked

(* The marks tell which events have been written, and only one that has    *)
(* not is on its way to the file.                                          *)
Marked(p) ==
    /\ \A i \in 1 .. Len(events[p]) : i \in persisted[p] <=> Id(p, i) \in acked
    /\ step[p] # "check" => cur[p] \notin persisted[p]

Kept(p, i) == _should_persist(events[p][i]) => Id(p, i) \in acked

(* What emit and flush have behind them.                                   *)
Behind(p) ==
    /\ task[p] = "zone" => Kept(p, cur[p] - 1)
    /\ task[p] = "flush" => \A i \in 1 .. cur[p] - 1 : Kept(p, i)
    /\ task[p] = "done" => \A i \in 1 .. Len(events[p]) : Kept(p, i)

Recording(p) == AtTheEnd(p) /\ Marked(p) /\ Behind(p)

RInv == TInv /\ Numbered /\ \A p \in Proc : Recording(p)

-----------------------------------------------------------------------------
LEMMA Parity ==
  /\ \A n \in Nat : n % 2 = 0 \/ n % 2 = 1
  /\ \A n \in Nat : n % 2 = 0 => (n + 1) % 2 = 1
  /\ \A n \in Nat : n % 2 = 1 => (n + 1) % 2 = 0
  /\ \A n \in Nat : n % 2 = 0 => (n + 2) % 2 = 0
  OBVIOUS

LEMMA Ids ==
  ASSUME RInv, NEW p \in Proc
  PROVE  /\ Len(events[p]) \in Nat /\ created \in Nat
         /\ acked \subseteq 1 .. created
         /\ persisted[p] \subseteq 1 .. Len(events[p])
         /\ \A i \in 1 .. Len(events[p]) : Id(p, i) \in 1 .. created
         /\ Working(p) => cur[p] \in 1 .. Len(events[p])
         /\ cur[p] \in Nat
  <1>1. TInv /\ Shape /\ ProcOK(p)
    BY DEF RInv, TInv
  <1>2. DOMAIN events[p] = 1 .. Len(events[p])
    BY <1>1, EventsTyped
  <1> QED BY <1>1, <1>2, EventsTyped, CurrentEvent DEF Id, Shape, ProcOK

Fresh(id) == \A q \in Proc : \A i \in 1 .. Len(events[q]) : Id(q, i) # id

(* The id kept for the zone event is nobody's before that event is there.  *)
LEMMA ZoneIdFree ==
  ASSUME RInv, NEW p \in Proc, task[p] = "emit"
  PROVE  Fresh(Current(p).id + 1)
  <1> SUFFICES ASSUME NEW q \in Proc, NEW i \in 1 .. Len(events[q]),
                      Id(q, i) = Current(p).id + 1
               PROVE  FALSE
    BY DEF Fresh
  <1>1. /\ cur[p] = Len(events[p]) /\ cur[p] \in 1 .. Len(events[p])
        /\ Current(p).id = Id(p, cur[p]) /\ Current(p).id \in Nat
        /\ Current(p).id % 2 = 1
    BY Ids DEF RInv, Recording, AtTheEnd, Working, Current, Id
  <1>2. Id(q, i) % 2 = 0
    BY <1>1, Parity
  <1>3. i > 1 /\ Id(q, i - 1) = Id(q, i) - 1 /\ Len(events[q]) \in Nat
    BY <1>2, Ids DEF RInv, Numbered, Paired
  <1>4. i - 1 \in 1 .. Len(events[q]) /\ Id(q, i - 1) = Id(p, cur[p])
    BY <1>1, <1>3
  <1>5. p = q /\ cur[p] = i - 1
    BY <1>1, <1>4 DEF RInv, Numbered, Unique
  <1> QED BY <1>1, <1>3, <1>5

(* A step that records no event leaves the ids as they were.               *)
LEMMA SameIds ==
  ASSUME RInv, UNCHANGED <<events, created>>
  PROVE  Numbered'
  BY DEF RInv, Numbered, Unique, Paired, Id

(* Recording an event under an id nobody has.                              *)
LEMMA NewId ==
  ASSUME RInv, NEW p \in Proc, NEW e \in Event,
         events' = [events EXCEPT ![p] = Append(events[p], e)],
         Fresh(e.id),
         e.id % 2 = 0 => /\ Len(events[p]) >= 1
                         /\ Id(p, Len(events[p])) = e.id - 1
  PROVE  /\ Unique' /\ Paired'
         /\ Len(events'[p]) = Len(events[p]) + 1
         /\ events'[p][Len(events[p]) + 1] = e
         /\ \A i \in 1 .. Len(events[p]) : events'[p][i] = events[p][i]
         /\ \A q \in Proc \ {p} : events'[q] = events[q]
  <1>1. events \in [Proc -> Seq(Event)] /\ events[p] \in Seq(Event) /\ Len(events[p]) \in Nat
    BY LenProperties DEF RInv, TInv, Shape
  <1>2. /\ Len(events'[p]) = Len(events[p]) + 1
        /\ events'[p][Len(events[p]) + 1] = e
        /\ \A i \in 1 .. Len(events[p]) : events'[p][i] = events[p][i]
        /\ \A q \in Proc \ {p} : events'[q] = events[q]
    BY <1>1, AppendProperties
  <1>3. ASSUME NEW q \in Proc, NEW i \in 1 .. Len(events'[q])
        PROVE  \/ i \in 1 .. Len(events[q]) /\ Id(q, i)' = Id(q, i)
               \/ q = p /\ i = Len(events[p]) + 1 /\ Id(q, i)' = e.id
    <2>1. CASE q = p
      BY <1>1, <1>2, <1>3, <2>1 DEF Id
    <2>2. CASE q # p
      BY <1>2, <1>3, <2>2 DEF Id
    <2> QED BY <2>1, <2>2
  <1>4. Unique'
    <2> SUFFICES ASSUME NEW q \in Proc, NEW r \in Proc,
                        NEW i \in 1 .. Len(events'[q]), NEW j \in 1 .. Len(events'[r]),
                        Id(q, i)' = Id(r, j)'
                 PROVE  q = r /\ i = j
      BY DEF Unique
    <2> QED BY <1>3 DEF RInv, Numbered, Unique, Fresh
  <1>5. Paired'
    <2> SUFFICES ASSUME NEW q \in Proc, NEW i \in 1 .. Len(events'[q]), Id(q, i)' % 2 = 0
                 PROVE  i > 1 /\ Id(q, i - 1)' = Id(q, i)' - 1
      BY DEF Paired
    <2>1. CASE i \in 1 .. Len(events[q]) /\ Id(q, i)' = Id(q, i)
      <3>1. i > 1 /\ Id(q, i - 1) = Id(q, i) - 1 /\ Len(events[q]) \in Nat
        BY <2>1, Ids DEF RInv, Numbered, Paired
      <3>2. i - 1 \in 1 .. Len(events[q])
        BY <2>1, <3>1
      <3>3. events'[q][i - 1] = events[q][i - 1]
        BY <1>2, <3>2
      <3> QED BY <2>1, <3>1, <3>3 DEF Id
    <2>2. CASE q = p /\ i = Len(events[p]) + 1 /\ Id(q, i)' = e.id
      <3>1. /\ Len(events[p]) >= 1 /\ Id(p, Len(events[p])) = e.id - 1
            /\ Len(events[p]) \in 1 .. Len(events[p]) /\ i - 1 = Len(events[p])
        BY <1>1, <2>2
      <3>2. events'[p][Len(events[p])] = events[p][Len(events[p])]
        BY <1>2, <3>1
      <3> QED BY <1>1, <2>2, <3>1, <3>2 DEF Id
    <2> QED BY <1>3, <2>1, <2>2
  <1> QED BY <1>2, <1>4, <1>5

(* A process that does not move keeps its part, as long as what another    *)
(* one adds to acked is none of its events.                                *)
LEMMA OthersRecording ==
  ASSUME RInv, NEW q \in Proc,
         events'[q] = events[q], persisted'[q] = persisted[q],
         task'[q] = task[q], step'[q] = step[q], cur'[q] = cur[q],
         acked \subseteq acked',
         \A i \in 1 .. Len(events[q]) : Id(q, i) \in acked' => Id(q, i) \in acked,
         task[q] = "emit" => Current(q).id + 1 \notin acked'
  PROVE  Recording(q)'
  <1>1. AtTheEnd(q)'
    BY DEF RInv, Recording, AtTheEnd, Current
  <1>2. Marked(q)'
    <2>1. Marked(q)
      BY DEF RInv, Recording
    <2> QED BY <2>1 DEF Marked, Id
  <1>3. Behind(q)'
    <2>1. Behind(q)
      BY DEF RInv, Recording
    <2>2. \A i : Kept(q, i) => Kept(q, i)'
      BY DEF Kept, _should_persist, Id
    <2> QED BY <2>1, <2>2 DEF Behind
  <1> QED BY <1>1, <1>2, <1>3 DEF Recording

(* At most the event p works on is added to acked: the others keep theirs. *)
LEMMA OthersKeep ==
  ASSUME RInv, NEW p \in Proc, NEW q \in Proc, q # p,
         events'[q] = events[q], persisted'[q] = persisted[q],
         task'[q] = task[q], step'[q] = step[q], cur'[q] = cur[q],
         acked' = acked \/ (Working(p) /\ acked' = acked \cup {Current(p).id})
  PROVE  Recording(q)'
  <1>1. CASE acked' = acked
    BY <1>1, OthersRecording DEF RInv, Recording, AtTheEnd
  <1>2. CASE Working(p) /\ acked' = acked \cup {Current(p).id}
    <2>1. cur[p] \in 1 .. Len(events[p]) /\ Current(p).id = Id(p, cur[p])
      BY <1>2, Ids DEF Current, Id
    <2>2. \A i \in 1 .. Len(events[q]) : Id(q, i) # Current(p).id
      BY <2>1 DEF RInv, Numbered, Unique
    <2>3. task[q] = "emit" => Current(q).id + 1 \notin acked'
      BY <1>2, <2>1, ZoneIdFree DEF Fresh, RInv, Recording, AtTheEnd
    <2> QED BY <1>2, <2>2, <2>3, OthersRecording
  <1> QED BY <1>1, <1>2

-----------------------------------------------------------------------------
(* What a write that returned has settled: the marks agree with what is    *)
(* acknowledged, the current event is written as far as the mode keeps it, *)
(* and everything else is as before.                                       *)
Settled(p) ==
    /\ UNCHANGED created
    /\ acked' = acked \/ acked' = acked \cup {Current(p).id}
    /\ _should_persist(Current(p)) => Current(p).id \in acked'
    /\ persisted' \in [Proc -> SUBSET Nat]
    /\ persisted'[p] \subseteq 1 .. Len(events[p])
    /\ \A i \in 1 .. Len(events[p]) : i \in persisted'[p] <=> Id(p, i) \in acked'
    /\ \A q \in Proc \ {p} : persisted'[q] = persisted[q]

LEMMA SkipSettles ==
  ASSUME RInv, NEW p \in Proc, Skip(p)
  PROVE  Settled(p) /\ Working(p) /\ Continue(p)
  <1>1. /\ cur[p] \in 1 .. Len(events[p]) /\ Current(p).id = Id(p, cur[p])
        /\ Marked(p) /\ persisted \in [Proc -> SUBSET Nat]
        /\ persisted[p] \subseteq 1 .. Len(events[p])
    BY Ids DEF Skip, Current, Id, RInv, Recording, TInv, Shape
  <1>2. _should_persist(Current(p)) => Current(p).id \in acked
    BY <1>1 DEF Skip, NeedsWrite, Marked
  <1> QED BY <1>1, <1>2 DEF Skip, Settled, Marked

LEMMA MarkSettles ==
  ASSUME RInv, NEW p \in Proc, Mark(p)
  PROVE  Settled(p) /\ Working(p) /\ Continue(p)
  <1>1. /\ cur[p] \in 1 .. Len(events[p]) /\ Current(p).id = Id(p, cur[p])
        /\ Marked(p) /\ persisted \in [Proc -> SUBSET Nat]
        /\ persisted[p] \subseteq 1 .. Len(events[p])
        /\ Len(events[p]) \in Nat
    BY Ids DEF Mark, Current, Id, RInv, Recording, TInv, Shape
  <1>2. /\ persisted' = [persisted EXCEPT ![p] = persisted[p] \cup {cur[p]}]
        /\ acked' = acked \cup {Current(p).id}
        /\ UNCHANGED created
    BY DEF Mark
  <1>3. /\ persisted' \in [Proc -> SUBSET Nat]
        /\ persisted'[p] = persisted[p] \cup {cur[p]}
        /\ \A q \in Proc \ {p} : persisted'[q] = persisted[q]
    BY <1>1, <1>2
  <1>4. ASSUME NEW i \in 1 .. Len(events[p])
        PROVE  i \in persisted'[p] <=> Id(p, i) \in acked'
    <2>1. Id(p, i) = Current(p).id => i = cur[p]
      BY <1>1 DEF RInv, Numbered, Unique
    <2> QED BY <1>1, <1>2, <1>3, <2>1 DEF Marked
  <1> QED BY <1>1, <1>2, <1>3, <1>4 DEF Mark, Settled

(* What is behind p once the current event is settled.                     *)
LEMMA KeptStays ==
  ASSUME acked \subseteq acked', NEW p, NEW i, events'[p][i] = events[p][i], Kept(p, i)
  PROVE  Kept(p, i)'
  BY DEF Kept, _should_persist, Id

LEMMA KeptNow ==
  ASSUME NEW p \in Proc, NEW i, Settled(p), cur[p] = i,
         events'[p][i] = events[p][i]
  PROVE  Kept(p, i)'
  BY DEF Kept, _should_persist, Id, Settled, Current

(* emit goes on to the zone event.                                         *)
LEMMA ZoneRecorded ==
  ASSUME RInv, TInv', NEW p \in Proc, Working(p), Settled(p),
         task[p] = "emit", Current(p).zone # "none",
         Record(p, Current(p).id + 1, Current(p).zone, "none", "zone")
  PROVE  Unique' /\ Paired' /\ Recording(p)'
  <1>0. PICK n \in Nat : n = Len(events[p])
    BY Ids
  <1>1. /\ n \in Nat /\ n = Len(events[p]) /\ cur[p] = n /\ cur[p] \in 1 .. n
        /\ Current(p).id = Id(p, n) /\ Current(p).id + 1 \in 1 .. created
        /\ Current(p).id + 1 \notin acked
        /\ created \in Nat /\ created <= MaxEvents /\ MaxEvents \in Nat
    BY <1>0, Ids, CurrentEvent, EventsTyped DEF RInv, Recording, AtTheEnd, Current, Id
  <1>2. PICK e \in Event :
            /\ e = [id |-> Current(p).id + 1, name |-> Current(p).zone, zone |-> "none"]
            /\ e.id = Current(p).id + 1
    <2>1. Current(p).zone \in Sources \cup Zones
      BY CurrentEvent, EventFields DEF RInv
    <2>2. [id |-> Current(p).id + 1, name |-> Current(p).zone, zone |-> "none"] \in Event
      BY <1>1, <2>1 DEF Event
    <2> QED BY <2>2
  <1>3. /\ events' = [events EXCEPT ![p] = Append(events[p], e)]
        /\ task' = [task EXCEPT ![p] = "zone"]
        /\ step' = [step EXCEPT ![p] = "check"]
        /\ cur' = [cur EXCEPT ![p] = Len(events'[p])]
    BY <1>2 DEF Record
  <1>4. Fresh(e.id) /\ Len(events[p]) >= 1 /\ Id(p, Len(events[p])) = e.id - 1
    <2>1. Fresh(e.id)
      BY <1>2, ZoneIdFree
    <2>2. n >= 1 /\ Current(p).id \in Nat
      BY <1>1, Ids
    <2> QED BY <1>1, <1>2, <2>1, <2>2
  <1>5. /\ Unique' /\ Paired'
        /\ Len(events'[p]) = n + 1
        /\ events'[p][n + 1] = e
        /\ \A i \in 1 .. n : events'[p][i] = events[p][i]
    <2>1. events' = [events EXCEPT ![p] = Append(events[p], e)]
      BY <1>3
    <2>2. /\ Unique' /\ Paired'
          /\ Len(events'[p]) = Len(events[p]) + 1
          /\ events'[p][Len(events[p]) + 1] = e
          /\ \A i \in 1 .. Len(events[p]) : events'[p][i] = events[p][i]
      BY <1>4, <2>1, NewId
    <2> QED BY <1>0, <2>2
  <1>6. task'[p] = "zone" /\ step'[p] = "check" /\ cur'[p] = n + 1
    BY <1>3, <1>5 DEF RInv, TInv, Shape
  <1>7. AtTheEnd(p)'
    BY <1>5, <1>6 DEF AtTheEnd
  <1>8. Marked(p)'
    <2>1. e.id \notin acked'
      BY <1>1, <1>2 DEF Settled
    <2>2. ASSUME NEW i \in 1 .. n + 1 PROVE i \in persisted'[p] <=> Id(p, i)' \in acked'
      <3>1. CASE i = n + 1
        <4>1. Id(p, i)' = e.id
          BY <1>5, <3>1 DEF Id
        <4>2. i \notin persisted'[p]
          BY <1>0, <3>1 DEF Settled
        <4> QED BY <2>1, <4>1, <4>2
      <3>2. CASE i \in 1 .. n
        <4>1. Id(p, i)' = Id(p, i)
          BY <1>5, <3>2 DEF Id
        <4> QED BY <1>0, <3>2, <4>1 DEF Settled
      <3> QED BY <1>1, <3>1, <3>2
    <2> QED BY <1>5, <1>6, <2>2 DEF Marked
  <1>9. Behind(p)'
    <2>1. Kept(p, n)'
      BY <1>1, <1>5, KeptNow
    <2>2. cur'[p] - 1 = n
      BY <1>1, <1>6
    <2> QED BY <1>6, <2>1, <2>2 DEF Behind
  <1> QED BY <1>5, <1>7, <1>8, <1>9 DEF Recording

(* The call is over: emit returns, or the flush has come to its end.       *)
LEMMA LeftRecorded ==
  ASSUME RInv, NEW p \in Proc, Working(p), Settled(p), UNCHANGED events,
         \/ Leave(p, "idle")
         \/ Leave(p, "done") /\ task[p] = "flush" /\ cur[p] = Len(events[p])
  PROVE  Recording(p)'
  <1>1. PICK as \in {"idle", "done"} :
            /\ Leave(p, as)
            /\ as = "done" => task[p] = "flush" /\ cur[p] = Len(events[p])
    OBVIOUS
  <1>2. task'[p] = as /\ step'[p] = "check"
    BY <1>1 DEF Leave, RInv, TInv, Shape
  <1>3. AtTheEnd(p)' /\ Marked(p)'
    BY <1>1, <1>2 DEF AtTheEnd, Marked, Settled, Id
  <1>4. Behind(p)'
    <2>1. ASSUME as = "done", NEW i \in 1 .. Len(events[p]) PROVE Kept(p, i)'
      <3>1. CASE i = cur[p]
        BY <3>1, KeptNow
      <3>2. CASE i # cur[p]
        <4>1. i \in 1 .. cur[p] - 1
          BY <1>1, <2>1, <3>2, Ids
        <4>2. Kept(p, i) /\ acked \subseteq acked'
          BY <1>1, <2>1, <4>1 DEF RInv, Recording, Behind, Settled
        <4> QED BY <4>2, KeptStays
      <3> QED BY <3>1, <3>2
    <2> QED BY <1>1, <1>2, <2>1 DEF Behind
  <1> QED BY <1>3, <1>4 DEF Recording

(* The flush goes on to its next event.                                    *)
LEMMA NextRecorded ==
  ASSUME RInv, NEW p \in Proc, Working(p), Settled(p),
         task[p] = "flush", cur[p] < Len(events[p]),
         cur' = [cur EXCEPT ![p] = @ + 1],
         step' = [step EXCEPT ![p] = "check"],
         UNCHANGED <<events, task>>
  PROVE  Recording(p)'
  <1>1. cur'[p] = cur[p] + 1 /\ step'[p] = "check" /\ task'[p] = "flush" /\ cur[p] \in Nat
    BY Ids DEF RInv, TInv, Shape
  <1>2. AtTheEnd(p)' /\ Marked(p)'
    BY <1>1 DEF AtTheEnd, Marked, Settled, Id
  <1>3. ASSUME NEW i \in 1 .. cur[p] PROVE Kept(p, i)'
    <2>1. CASE i = cur[p]
      BY <2>1, KeptNow
    <2>2. CASE i # cur[p]
      <3>1. i \in 1 .. cur[p] - 1
        BY <1>1, <2>2
      <3>2. Kept(p, i) /\ acked \subseteq acked'
        BY <3>1 DEF RInv, Recording, Behind, Settled
      <3> QED BY <3>2, KeptStays
    <2> QED BY <2>1, <2>2
  <1>4. cur'[p] - 1 = cur[p]
    BY <1>1
  <1> QED BY <1>1, <1>2, <1>3, <1>4 DEF Recording, Behind

LEMMA OthersStill ==
  ASSUME TInv, NEW p \in Proc, Continue(p)
  PROVE  \A q \in Proc \ {p} : task'[q] = task[q]
  <1>1. ASSUME NEW as, Leave(p, as) PROVE \A q \in Proc \ {p} : task'[q] = task[q]
    BY <1>1 DEF Leave, TInv, Shape
  <1>2. ASSUME NEW id, NEW name, NEW zone, NEW for, Record(p, id, name, zone, for)
        PROVE  \A q \in Proc \ {p} : task'[q] = task[q]
    BY <1>2 DEF Record, TInv, Shape
  <1> QED BY <1>1, <1>2 DEF Continue, Dispatch

LEMMA ContinueRecorded ==
  ASSUME RInv, TInv', NEW p \in Proc, Working(p), Settled(p), Continue(p)
  PROVE  Numbered' /\ \A q \in Proc : Recording(q)'
  <1>1. Unique' /\ Paired' /\ Recording(p)'
    <2>1. CASE Record(p, Current(p).id + 1, Current(p).zone, "none", "zone")
                  /\ task[p] = "emit" /\ Current(p).zone # "none"
      BY <2>1, ZoneRecorded
    <2>2. CASE UNCHANGED events
      <3>1. Unique' /\ Paired'
        BY <2>2, SameIds DEF Settled, Numbered
      <3>2. CASE \E i : Dispatch(p, i)
        BY <2>2, <3>1, <3>2, LeftRecorded DEF Dispatch
      <3>3. CASE Leave(p, "done") /\ task[p] = "flush" /\ cur[p] = Len(events[p])
        BY <2>2, <3>1, <3>3, LeftRecorded
      <3>4. CASE /\ task[p] = "flush" /\ cur[p] < Len(events[p])
                 /\ cur' = [cur EXCEPT ![p] = @ + 1]
                 /\ step' = [step EXCEPT ![p] = "check"]
                 /\ UNCHANGED <<events, task, alerted>>
        BY <3>1, <3>4, NextRecorded
      <3>5. CASE Record(p, Current(p).id + 1, Current(p).zone, "none", "zone")
                    /\ task[p] = "emit" /\ Current(p).zone # "none"
        BY <3>5, ZoneRecorded
      <3> QED BY <3>1, <3>2, <3>3, <3>4, <3>5 DEF Continue
    <2> QED BY <2>1, <2>2 DEF Continue, Dispatch
  <1>2. created' % 2 = 0
    BY DEF Settled, RInv, Numbered
  <1>3. ASSUME NEW q \in Proc, q # p PROVE Recording(q)'
    <2>1. /\ events'[q] = events[q] /\ cur'[q] = cur[q] /\ step'[q] = step[q]
          /\ task'[q] = task[q] /\ persisted'[q] = persisted[q]
      BY <1>3, ContinueMoves, OthersStill DEF Settled, RInv
    <2> QED BY <1>3, <2>1, OthersKeep DEF Settled
  <1> QED BY <1>1, <1>2, <1>3 DEF Numbered

-----------------------------------------------------------------------------
LEMMA InitRecorded == Init => RInv
  BY InitType, EmptySeq
     DEF Init, RInv, Numbered, Unique, Paired, Recording, AtTheEnd, Marked, Behind

LEMMA EmitRecorded ==
  ASSUME RInv, TInv', NEW p \in Proc, NEW name \in Sources,
         NEW zone \in Zones \cup {"none"}, Emit(p, name, zone)
  PROVE  Numbered' /\ \A q \in Proc : Recording(q)'
  <1>0. PICK n \in Nat : n = Len(events[p])
    BY Ids
  <1>1. /\ created \in Nat /\ created % 2 = 0 /\ MaxEvents \in Nat
        /\ created + 2 <= MaxEvents /\ created' = created + 2
        /\ UNCHANGED <<persisted, acked>>
        /\ acked \subseteq 1 .. created
        /\ persisted[p] \subseteq 1 .. n
        /\ Marked(p)
    BY <1>0, Ids, EventsTyped DEF Emit, RInv, Numbered, Recording
  <1>2. PICK e \in Event :
            e = [id |-> created + 1, name |-> name, zone |-> zone]
    <2>1. [id |-> created + 1, name |-> name, zone |-> zone] \in Event
      BY <1>1 DEF Event
    <2> QED BY <2>1
  <1>3. e.id = created + 1 /\ e.id % 2 = 1 /\ e.id \notin acked /\ (e.id + 1) % 2 = 0
            /\ e.id + 1 \notin acked
    BY <1>1, <1>2, Parity
  <1>4. Fresh(e.id)
    BY <1>3, Ids DEF Fresh
  <1>5. /\ events' = [events EXCEPT ![p] = Append(events[p], e)]
        /\ task' = [task EXCEPT ![p] = "emit"]
        /\ step' = [step EXCEPT ![p] = "check"]
        /\ cur' = [cur EXCEPT ![p] = Len(events'[p])]
    BY <1>2 DEF Emit, Record
  <1>6. /\ Unique' /\ Paired'
        /\ Len(events'[p]) = n + 1
        /\ events'[p][n + 1] = e
        /\ \A i \in 1 .. n : events'[p][i] = events[p][i]
        /\ \A q \in Proc \ {p} : events'[q] = events[q]
    <2>1. e.id % 2 # 0
      BY <1>3
    <2>2. /\ Unique' /\ Paired'
          /\ Len(events'[p]) = Len(events[p]) + 1
          /\ events'[p][Len(events[p]) + 1] = e
          /\ \A i \in 1 .. Len(events[p]) : events'[p][i] = events[p][i]
          /\ \A q \in Proc \ {p} : events'[q] = events[q]
      BY <1>4, <1>5, <2>1, NewId
    <2> QED BY <1>0, <2>2
  <1>7. Numbered'
    BY <1>1, <1>6, Parity DEF Numbered
  <1>8. /\ task'[p] = "emit" /\ step'[p] = "check" /\ cur'[p] = n + 1
        /\ \A q \in Proc \ {p} : /\ task'[q] = task[q] /\ step'[q] = step[q]
                                 /\ cur'[q] = cur[q]
    BY <1>5, <1>6 DEF RInv, TInv, Shape
  <1>9. AtTheEnd(p)'
    <2>1. Current(p)' = e
      BY <1>6, <1>8 DEF Current
    <2> QED BY <1>1, <1>3, <1>6, <1>8, <2>1 DEF AtTheEnd
  <1>10. Marked(p)'
    <2>1. ASSUME NEW i \in 1 .. n + 1 PROVE i \in persisted'[p] <=> Id(p, i)' \in acked'
      <3>1. CASE i = n + 1
        <4>1. Id(p, i)' = e.id /\ i \notin persisted[p]
          BY <1>1, <1>6, <3>1 DEF Id
        <4> QED BY <1>1, <1>3, <4>1
      <3>2. CASE i \in 1 .. n
        <4>1. Id(p, i)' = Id(p, i)
          BY <1>6, <3>2 DEF Id
        <4> QED BY <1>0, <1>1, <3>2, <4>1 DEF Marked
      <3> QED BY <3>1, <3>2
    <2> QED BY <1>6, <1>8, <2>1 DEF Marked
  <1>11. Behind(p)'
    BY <1>8 DEF Behind
  <1>12. ASSUME NEW q \in Proc, q # p PROVE Recording(q)'
    BY <1>1, <1>6, <1>8, <1>12, OthersKeep
  <1> QED BY <1>7, <1>9, <1>10, <1>11, <1>12 DEF Recording

(* A step of p that records, marks and acknowledges nothing.               *)
LEMMA PlainRecorded ==
  ASSUME RInv, NEW p \in Proc,
         UNCHANGED <<events, persisted, created, acked>>,
         \A q \in Proc \ {p} : /\ task'[q] = task[q] /\ step'[q] = step[q]
                               /\ cur'[q] = cur[q],
         AtTheEnd(p)', step'[p] # "check" => cur'[p] \notin persisted[p], Behind(p)'
  PROVE  Numbered' /\ \A q \in Proc : Recording(q)'
  <1>1. Marked(p)'
    BY DEF RInv, Recording, Marked, Id
  <1>2. ASSUME NEW q \in Proc, q # p PROVE Recording(q)'
    BY <1>2, OthersKeep
  <1> QED BY <1>1, <1>2, SameIds DEF Recording

LEMMA FlushRecorded ==
  ASSUME RInv, NEW p \in Proc, Flush(p)
  PROVE  Numbered' /\ \A q \in Proc : Recording(q)'
  <1>1. /\ task'[p] = "flush" /\ step'[p] = "check" /\ cur'[p] = 1
        /\ \A q \in Proc \ {p} : /\ task'[q] = task[q] /\ step'[q] = step[q]
                                 /\ cur'[q] = cur[q]
        /\ UNCHANGED <<events, persisted, created, acked>>
    BY DEF Flush, RInv, TInv, Shape
  <1>2. AtTheEnd(p)'
    BY <1>1 DEF AtTheEnd
  <1>3. Behind(p)'
    BY <1>1 DEF Behind
  <1> QED BY <1>1, <1>2, <1>3, PlainRecorded

LEMMA GotoRecorded ==
  ASSUME RInv, NEW p \in Proc, NEW from, NEW to, Goto(p, from, to),
         from = "check" => cur[p] \notin persisted[p]
  PROVE  Numbered' /\ \A q \in Proc : Recording(q)'
  <1>1. /\ UNCHANGED <<events, persisted, created, acked>>
        /\ UNCHANGED <<task, cur>>
        /\ \A q \in Proc \ {p} : step'[q] = step[q]
        /\ step[p] = from
    BY DEF Goto, RInv, TInv, Shape
  <1>2. AtTheEnd(p)' /\ Behind(p)'
    BY <1>1 DEF RInv, Recording, AtTheEnd, Current, Behind, Kept, _should_persist, Id
  <1>3. cur'[p] \notin persisted[p]
    BY <1>1 DEF RInv, Recording, Marked
  <1> QED BY <1>1, <1>2, <1>3, PlainRecorded

LEMMA RaiseRecorded ==
  ASSUME RInv, NEW p \in Proc, Raise(p)
  PROVE  Numbered' /\ \A q \in Proc : Recording(q)'
  <1>1. PICK as \in {"cut", "idle"} : Leave(p, as)
    BY DEF Raise
  <1>2. /\ task'[p] = as /\ step'[p] = "check"
        /\ \A q \in Proc \ {p} : /\ task'[q] = task[q] /\ step'[q] = step[q]
                                 /\ cur'[q] = cur[q]
    BY <1>1 DEF Leave, RInv, TInv, Shape
  <1>3. UNCHANGED <<events, persisted, created, acked>>
    BY DEF Raise
  <1>4. AtTheEnd(p)' /\ Behind(p)'
    BY <1>2 DEF AtTheEnd, Behind
  <1> QED BY <1>2, <1>3, <1>4, PlainRecorded

(* A process that ends forgets its events.                                 *)
LEMMA ExitRecorded ==
  ASSUME RInv, NEW p \in Proc, Exit(p)
  PROVE  Numbered' /\ \A q \in Proc : Recording(q)'
  <1>1. /\ events'[p] = <<>> /\ task'[p] = "idle" /\ step'[p] = "check"
        /\ \A q \in Proc \ {p} : /\ events'[q] = events[q] /\ persisted'[q] = persisted[q]
                                 /\ task'[q] = task[q] /\ step'[q] = step[q]
                                 /\ cur'[q] = cur[q]
        /\ UNCHANGED <<created, acked>>
    BY DEF Exit, Leave, RInv, TInv, Shape
  <1>2. Len(events'[p]) = 0
    BY <1>1, EmptySeq
  <1>3. \A q \in Proc : \A i \in 1 .. Len(events'[q]) :
            q # p /\ events'[q] = events[q] /\ i \in 1 .. Len(events[q])
    BY <1>1, <1>2
  <1>4. Unique'
    BY <1>3 DEF RInv, Numbered, Unique, Id
  <1>5. Paired'
    BY <1>3 DEF RInv, Numbered, Paired, Id
  <1>6. AtTheEnd(p)' /\ Marked(p)' /\ Behind(p)'
    BY <1>1, <1>2 DEF AtTheEnd, Marked, Behind
  <1>7. ASSUME NEW q \in Proc, q # p PROVE Recording(q)'
    BY <1>1, <1>7, OthersKeep
  <1> QED BY <1>1, <1>4, <1>5, <1>6, <1>7 DEF RInv, Numbered, Recording

LEMMA PowerLossRecorded ==
  ASSUME RInv, PowerLoss
  PROVE  Numbered' /\ \A q \in Proc : Recording(q)'
  <1>1. \A q \in Proc : /\ Len(events'[q]) = 0 /\ task'[q] = "idle" /\ step'[q] = "check"
    BY EmptySeq DEF PowerLoss
  <1>2. created' = created
    BY DEF PowerLoss
  <1> QED
    BY <1>1, <1>2 DEF RInv, Numbered, Unique, Paired, Recording, AtTheEnd, Marked, Behind

LEMMA StutterRecorded ==
  ASSUME RInv, UNCHANGED vars
  PROVE  Numbered' /\ \A q \in Proc : Recording(q)'
  <1>1. ASSUME NEW q \in Proc PROVE Recording(q)'
    BY OthersRecording DEF vars, RInv, Recording, AtTheEnd
  <1> QED BY <1>1, SameIds DEF vars

LEMMA StepRecorded == RInv /\ [Next]_vars => RInv'
  <1> SUFFICES ASSUME RInv, [Next]_vars PROVE RInv'
    OBVIOUS
  <1>1. TInv'
    BY StepType DEF RInv
  <1> DEFINE Good == Numbered' /\ \A q \in Proc : Recording(q)'
  <1>2. ASSUME NEW p \in Proc, Write(p) PROVE Good
    <2>1. CASE Skip(p) \/ Mark(p)
      BY <1>1, <2>1, SkipSettles, MarkSettles, ContinueRecorded
    <2>2. CASE Open(p)
      <3>1. cur[p] \notin persisted[p]
        BY <2>2 DEF Open, NeedsWrite
      <3> QED BY <2>2, <3>1, GotoRecorded DEF Open
    <2>3. CASE Acquire(p) \/ WriteHead(p) \/ WriteTail(p) \/ Fsync(p)
      <3>1. PICK from \in Steps \ {"check"}, to \in Steps : Goto(p, from, to)
        BY <2>3 DEF Acquire, WriteHead, WriteTail, Fsync, Steps
      <3> QED BY <3>1, GotoRecorded
    <2>4. CASE Raise(p)
      BY <2>4, RaiseRecorded
    <2> QED BY <1>2, <2>1, <2>2, <2>3, <2>4 DEF Write
  <1>3. ASSUME NEW p \in Proc, NEW name \in Sources, NEW zone \in Zones \cup {"none"},
               Emit(p, name, zone)
        PROVE  Good
    BY <1>1, <1>3, EmitRecorded
  <1>4. ASSUME NEW p \in Proc, Flush(p) \/ Exit(p) PROVE Good
    BY <1>4, FlushRecorded, ExitRecorded
  <1>5. ASSUME PowerLoss PROVE Good
    BY <1>5, PowerLossRecorded
  <1>6. ASSUME UNCHANGED vars PROVE Good
    BY <1>6, StutterRecorded
  <1>7. Good
    BY <1>2, <1>3, <1>4, <1>5, <1>6 DEF Next
  <1> QED BY <1>1, <1>7 DEF RInv

-----------------------------------------------------------------------------
(* A flush that comes to its end has left no event unwritten that the mode *)
(* keeps, also when emit had failed to write it.                           *)
THEOREM FlushHolds == Spec => []FlushCompletes
  <1>1. RInv => FlushCompletes
    <2> SUFFICES ASSUME RInv, NEW p \in Proc, task[p] = "done",
                        NEW i \in DOMAIN events[p]
                 PROVE  Kept(p, i)
      BY DEF FlushCompletes, Kept, Id
    <2>1. DOMAIN events[p] = 1 .. Len(events[p])
      BY EventsTyped DEF RInv
    <2> QED BY <2>1 DEF RInv, Recording, Behind
  <1> QED BY <1>1, InitRecorded, StepRecorded, PTL DEF Spec

(* What a step adds to the file is of the event the process works on.      *)
LEMMA Grown ==
  ASSUME RInv, NEW p \in Proc, Write(p), NEW i \in DOMAIN file' \ DOMAIN file
  PROVE  step[p] # "check" /\ Working(p) /\ file'[i][1] = Current(p).id
  <1>1. /\ file \in Seq((1 .. MaxEvents) \X Halves) /\ TInv
        /\ file' # file
    BY DEF RInv, TInv, Shape
  <1>2. step[p] \in {"write", "rest"} /\ Working(p)
    BY <1>1 DEF Write, Skip, Open, Acquire, WriteHead, WriteTail, Fsync, Mark, Raise, Goto
  <1>3. Current(p).id \in 1 .. created /\ Current(p).id \in 1 .. MaxEvents
    BY <1>1, <1>2, CurrentEvent, EventsTyped
  <1>4. DOMAIN file = 1 .. Len(file) /\ Len(file) \in Nat
    BY <1>1, LenProperties
  <1>5. CASE \E half \in Halves : file' = Append(file, <<Current(p).id, half>>)
    <2>1. PICK half \in Halves : file' = Append(file, <<Current(p).id, half>>)
      BY <1>5
    <2>2. <<Current(p).id, half>> \in (1 .. MaxEvents) \X Halves
      BY <1>3
    <2>3. /\ DOMAIN file' = 1 .. Len(file) + 1
          /\ file'[Len(file) + 1] = <<Current(p).id, half>>
      BY <1>1, <2>1, <2>2, AppendProperties, LenProperties
    <2>4. i = Len(file) + 1
      BY <1>4, <2>3
    <2> QED BY <1>2, <2>3, <2>4
  <1>6. CASE file' = file \o <<<<Current(p).id, "head">>, <<Current(p).id, "tail">>>>
    <2> DEFINE two == <<<<Current(p).id, "head">>, <<Current(p).id, "tail">>>>
    <2>1. /\ two \in Seq((1 .. MaxEvents) \X Halves) /\ Len(two) = 2
          /\ \A j \in 1 .. 2 : two[j][1] = Current(p).id
      BY <1>3 DEF Halves
    <2> HIDE DEF two
    <2>2. file' = file \o two
      BY <1>6 DEF two
    <2>3. /\ file' \in Seq((1 .. MaxEvents) \X Halves)
          /\ Len(file') = Len(file) + 2
          /\ \A j \in 1 .. Len(file') :
                file'[j] = IF j <= Len(file) THEN file[j] ELSE two[j - Len(file)]
      <3> DEFINE Lines == (1 .. MaxEvents) \X Halves
      <3>1. file \in Seq(Lines) /\ two \in Seq(Lines)
        BY <1>1, <2>1
      <3> HIDE DEF Lines
      <3>2. /\ file \o two \in Seq(Lines)
            /\ Len(file \o two) = Len(file) + Len(two)
            /\ \A j \in 1 .. Len(file) + Len(two) : (file \o two)[j] =
                   IF j <= Len(file) THEN file[j] ELSE two[j - Len(file)]
        BY <3>1, ConcatProperties
      <3> QED BY <2>1, <2>2, <3>2 DEF Lines
    <2>4. i \in 1 .. Len(file') /\ i > Len(file) /\ i - Len(file) \in 1 .. 2
      BY <1>4, <2>3, LenProperties
    <2>5. file'[i] = two[i - Len(file)]
      BY <1>4, <2>3, <2>4
    <2> QED BY <1>2, <2>1, <2>4, <2>5
  <1> QED
    BY <1>1, <1>5, <1>6
       DEF Write, Skip, Open, Acquire, WriteHead, WriteTail, Fsync, Mark, Raise, Halves

(* Once the write of an event has returned, no other write of it follows:  *)
(* neither by emit nor by a later flush.                                   *)
THEOREM OnceHolds == Spec => WrittenOnce
  <1> DEFINE Fine == \A i \in DOMAIN file' \ DOMAIN file : file'[i][1] \notin acked
  <1>1. RInv /\ [Next]_vars => [Fine]_vars
    <2> SUFFICES ASSUME RInv, Next PROVE Fine
      OBVIOUS
    <2>1. CASE file' = file
      BY <2>1
    <2>2. CASE PowerLoss
      <3>1. PICK n \in synced .. Len(file) : file' = SubSeq(file, 1, n)
        BY <2>2 DEF PowerLoss
      <3>2. DOMAIN file = 1 .. Len(file) /\ DOMAIN file' = 1 .. n
        <4>1. file \in Seq((1 .. MaxEvents) \X Halves) /\ synced \in Nat /\ Len(file) \in Nat
          BY Lengths, LenProperties DEF RInv, TInv, Shape
        <4> QED BY <3>1, <4>1, SubSeqProperties, LenProperties
      <3> QED BY <3>1, <3>2, Lengths DEF RInv
    <2>3. ASSUME NEW p \in Proc, Write(p), NEW i \in DOMAIN file' \ DOMAIN file
          PROVE  file'[i][1] \notin acked
      <3>1. step[p] # "check" /\ Working(p) /\ file'[i][1] = Current(p).id
        BY <2>3, Grown
      <3>2. cur[p] \in 1 .. Len(events[p]) /\ Current(p).id = Id(p, cur[p])
        BY <3>1, Ids DEF Current, Id
      <3> QED BY <3>1, <3>2 DEF RInv, Recording, Marked
    <2> QED BY <2>1, <2>2, <2>3 DEF Next, Emit, Flush, Exit
  <1> QED BY <1>1, InitRecorded, StepRecorded, PTL DEF Spec, WrittenOnce

(* What Continue hands to the dispatcher.                                  *)
LEMMA Alerts ==
  ASSUME RInv, NEW p \in Proc, Working(p), Settled(p), Continue(p),
         NEW q \in Proc, NEW i \in DOMAIN events[q],
         Id(q, i) \in alerted' \ alerted
  PROVE  /\ Recorded(events[q][i])
         /\ events[q][i].zone # "none" =>
                i < Len(events[q]) /\ Recorded(events[q][i + 1])
  <1>1. /\ cur[p] \in 1 .. Len(events[p]) /\ Len(events[p]) \in Nat
        /\ DOMAIN events[q] = 1 .. Len(events[q])
        /\ Recorded(Current(p)) /\ acked \subseteq acked'
    BY Ids, EventsTyped DEF RInv, Settled, Recorded
  <1>2. \A j \in 1 .. Len(events[p]) : Dispatch(p, j) => q = p /\ i = j
    BY <1>1 DEF Dispatch, RInv, Numbered, Unique, Id
  <1>3. CASE task[p] = "emit" /\ Current(p).zone = "none" /\ Dispatch(p, cur[p])
    BY <1>1, <1>2, <1>3 DEF Current
  <1>4. CASE task[p] = "zone" /\ Dispatch(p, cur[p] - 1)
    <2>1. cur[p] - 1 \in 1 .. Len(events[p]) /\ cur[p] = Len(events[p])
      BY <1>1, <1>4 DEF RInv, TInv, ProcOK, Recording, AtTheEnd
    <2>2. q = p /\ i = cur[p] - 1 /\ i + 1 = cur[p] /\ i < Len(events[p])
      BY <1>1, <1>2, <1>4, <2>1
    <2>3. Kept(p, cur[p] - 1)
      BY <1>4 DEF RInv, Recording, Behind
    <2> QED BY <1>1, <2>2, <2>3 DEF Kept, Recorded, Current, Id
  <1>5. CASE alerted' = alerted
    BY <1>5
  <1> QED BY <1>3, <1>4, <1>5 DEF Continue

(* No alert goes out before the record of its event, and of the zone event *)
(* it caused, has been written as far as the mode keeps them.              *)
THEOREM AlertsHold == Spec => AlertedAfterRecorded
  <1> DEFINE Fine == \A p \in Proc : \A i \in DOMAIN events[p] :
            events[p][i].id \in alerted' \ alerted =>
                /\ Recorded(events[p][i])
                /\ events[p][i].zone # "none" =>
                       /\ i < Len(events[p])
                       /\ Recorded(events[p][i + 1])
  <1>1. RInv /\ [Next]_vars => [Fine]_vars
    <2> SUFFICES ASSUME RInv, Next PROVE Fine
      OBVIOUS
    <2>1. CASE alerted' = alerted
      BY <2>1
    <2>2. CASE \E p \in Proc : Skip(p) \/ Mark(p)
      <3>1. PICK p \in Proc : Working(p) /\ Settled(p) /\ Continue(p)
        BY <2>2, SkipSettles, MarkSettles
      <3> QED BY <3>1, Alerts DEF Id
    <2> QED
      BY <2>1, <2>2 DEF Next, Emit, Flush, Write, Open, Acquire, WriteHead, WriteTail,
                        Fsync, Goto, Raise, Exit, PowerLoss
  <1> QED BY <1>1, InitRecorded, StepRecorded, PTL DEF Spec, AlertedAfterRecorded
=============================================================================
