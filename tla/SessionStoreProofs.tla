------------------------- MODULE SessionStoreProofs -------------------------
(***************************************************************************)
(* Proofs about SessionStore for any number of processes, keys and values. *)
(* One lemma per group of actions shows that the step preserves IInv; the  *)
(* theorems follow from it.                                                *)
(***************************************************************************)
EXTENDS SessionStore, TLAPS

LEMMA MergeType ==
    ASSUME NEW d \in Sessions \cup {Torn}, NEW c \in Change
    PROVE  Merge(d, c) \in Sessions
BY SessionAssumption DEF Merge, ReadSessions, Sessions, Change, Record, Empty

LEMMA InitInv == Init => IInv
BY SessionAssumption
   DEF Init, IInv, TypeOK, MutualExclusion, MergeIsFresh, TmpIsComplete,
       CurrentIsAsked, NothingLeft, InSection, Merging, Locations, Sessions,
       Empty, Record, Change

(* Load, Upsert, Delete and Save touch only the caller's own memory and    *)
(* leave it outside the locked section.                                    *)
LEMMA CallInv ==
    ASSUME IInv, NEW p \in Proc, Call(p)
    PROVE  IInv'
<1> USE DEF IInv
<1>1. CASE Load(p)
  <2>1. TypeOK'
    BY <1>1, SessionAssumption
       DEF Load, TypeOK, Transition, Locations, ReadSessions, Sessions, Empty, Record
  <2> QED
    BY <1>1, <2>1
       DEF Load, Transition, TypeOK, MutualExclusion, MergeIsFresh, TmpIsComplete,
           CurrentIsAsked, NothingLeft, InSection, Merging
<1>2. CASE Upsert(p)
  <2>1. PICK k \in Key, v \in Val :
           /\ mem'  = [mem EXCEPT ![p] = [@ EXCEPT ![k] = v]]
           /\ todo' = [todo EXCEPT ![p] = {[key |-> k, val |-> v]}]
    BY <1>2 DEF Upsert
  <2>2. TypeOK'
    BY <1>2, <2>1
       DEF Upsert, TypeOK, Transition, Locations, Sessions, Record, Change
  <2> QED
    BY <1>2, <2>1, <2>2
       DEF Upsert, Transition, TypeOK, MutualExclusion, MergeIsFresh, TmpIsComplete,
           CurrentIsAsked, NothingLeft, InSection, Merging
<1>3. CASE Delete(p)
  <2>1. PICK k \in Key :
           /\ mem'  = [mem EXCEPT ![p] = [@ EXCEPT ![k] = NoVal]]
           /\ todo' = [todo EXCEPT ![p] = {[key |-> k, val |-> NoVal]}]
    BY <1>3 DEF Delete
  <2>2. TypeOK'
    BY <1>3, <2>1
       DEF Delete, TypeOK, Transition, Locations, Sessions, Record, Change
  <2> QED
    BY <1>3, <2>1, <2>2
       DEF Delete, Transition, TypeOK, MutualExclusion, MergeIsFresh, TmpIsComplete,
           CurrentIsAsked, NothingLeft, InSection, Merging
<1>4. CASE Save(p)
  <2>1. TypeOK'
    BY <1>4 DEF Save, Known, TypeOK, Transition, Locations, Change
  <2> QED
    BY <1>4, <2>1
       DEF Save, Transition, TypeOK, MutualExclusion, MergeIsFresh, TmpIsComplete,
           CurrentIsAsked, NothingLeft, InSection, Merging
<1> QED
  BY <1>1, <1>2, <1>3, <1>4 DEF Call

(* The steps of _persist_key.                                              *)
LEMMA StepInv ==
    ASSUME IInv, NEW p \in Proc, Step(p)
    PROVE  IInv'
<1> USE DEF IInv
<1>1. CASE Acquire(p)
  <2>1. PICK c \in todo[p] : cur' = [cur EXCEPT ![p] = c]
    BY <1>1 DEF Acquire
  <2>2. TypeOK'
    BY <1>1, <2>1 DEF Acquire, TypeOK, Transition, Locations
  <2>3. CASE HasFcntl
    <3>1. \A q \in Proc : q # p => ~InSection(q)
      BY <1>1, <2>3, SessionAssumption DEF Acquire, MutualExclusion
    <3> QED
      BY <1>1, <2>1, <2>2, <2>3, <3>1
         DEF Acquire, Transition, TypeOK, MutualExclusion, MergeIsFresh,
             TmpIsComplete, CurrentIsAsked, NothingLeft, InSection, Merging
  <2>4. CASE ~HasFcntl
    BY <1>1, <2>1, <2>2, <2>4
       DEF Acquire, Transition, TypeOK, MutualExclusion, MergeIsFresh,
           TmpIsComplete, CurrentIsAsked, NothingLeft, InSection, Merging
  <2> QED
    BY <2>3, <2>4
<1>2. CASE ReadMerge(p)
  <2>1. Merge(disk, cur[p]) \in Sessions
    BY MergeType DEF TypeOK
  <2>2. TypeOK'
    BY <1>2, <2>1 DEF ReadMerge, TypeOK, Transition, Locations
  <2>3. MergeIsFresh'
    BY <1>2 DEF ReadMerge, Transition, TypeOK, MergeIsFresh, Merging, Merge
  <2> QED
    BY <1>2, <2>2, <2>3
       DEF ReadMerge, Transition, TypeOK, MutualExclusion, TmpIsComplete,
           CurrentIsAsked, NothingLeft, InSection, Merging
<1>3. CASE OpenTmp(p)
  BY <1>3
     DEF OpenTmp, Transition, TypeOK, Locations, MutualExclusion, MergeIsFresh,
         TmpIsComplete, CurrentIsAsked, NothingLeft, InSection, Merging
<1>4. CASE FillTmp(p)
  BY <1>4
     DEF FillTmp, Transition, TypeOK, Locations, MutualExclusion, MergeIsFresh,
         TmpIsComplete, CurrentIsAsked, NothingLeft, InSection, Merging
<1>5. CASE Replace(p)
  <2>1. TypeOK'
    BY <1>5 DEF Replace, Transition, TypeOK, Locations, TmpIsComplete
  <2>2. MergeIsFresh'
    <3> SUFFICES ASSUME HasFcntl, NEW q \in Proc, (pc[q] \in Merging)'
                 PROVE  (mem[q] = Merge(disk, cur[q]))'
      BY DEF MergeIsFresh
    <3>1. q # p /\ pc[q] \in Merging
      BY <1>5 DEF Replace, Transition, TypeOK, Merging
    <3>2. FALSE
      BY <1>5, <3>1, SessionAssumption
         DEF Replace, Transition, MutualExclusion, InSection, Merging
    <3> QED
      BY <3>2
  <2> QED
    BY <1>5, <2>1, <2>2
       DEF Replace, Transition, TypeOK, MutualExclusion, TmpIsComplete,
           CurrentIsAsked, NothingLeft, InSection, Merging
<1>6. CASE Release(p)
  <2>1. TypeOK'
    BY <1>6 DEF Release, ReleaseBy, Transition, TypeOK, Locations
  <2>2. MutualExclusion'
    BY <1>6, SessionAssumption
       DEF Release, ReleaseBy, Transition, TypeOK, MutualExclusion, InSection, Merging
  <2>3. MergeIsFresh'
    BY <1>6 DEF Release, Transition, TypeOK, MergeIsFresh, Merging, Merge
  <2>4. CurrentIsAsked'
    BY <1>6 DEF Release, Transition, TypeOK, CurrentIsAsked, InSection, Merging
  <2> QED
    BY <1>6, <2>1, <2>2, <2>3, <2>4
       DEF Release, Transition, TypeOK, TmpIsComplete, NothingLeft
<1> QED
  BY <1>1, <1>2, <1>3, <1>4, <1>5, <1>6 DEF Step

(* Exceptions and deaths take the process out of the section.              *)
LEMMA FailInv ==
    ASSUME IInv, NEW p \in Proc, Raise(p) \/ Crash(p)
    PROVE  IInv'
<1> USE DEF IInv
<1>1. TypeOK'
  <2>1. Empty \in Sessions
    BY DEF Empty, Sessions, Record
  <2>2. CASE Raise(p)
    BY <2>2 DEF Raise, ReleaseBy, TypeOK, Locations
  <2>3. CASE Crash(p)
    BY <2>1, <2>3 DEF Crash, ReleaseBy, TypeOK, Locations
  <2> QED
    BY <2>2, <2>3
<1>2. MutualExclusion'
  BY SessionAssumption
     DEF Raise, Crash, ReleaseBy, TypeOK, MutualExclusion, InSection, Merging
<1> QED
  BY <1>1, <1>2
     DEF Raise, Crash, TypeOK, MergeIsFresh, Merge, TmpIsComplete,
         CurrentIsAsked, NothingLeft, InSection, Merging

LEMMA NextInv == IInv /\ [Next]_vars => IInv'
<1> SUFFICES ASSUME IInv, [Next]_vars
             PROVE  IInv'
  OBVIOUS
<1>1. CASE Next
  BY <1>1, CallInv, StepInv, FailInv DEF Next
<1>2. CASE UNCHANGED vars
  BY <1>2
     DEF vars, IInv, TypeOK, MutualExclusion, MergeIsFresh, Merge, TmpIsComplete,
         CurrentIsAsked, NothingLeft, InSection, Merging
<1> QED
  BY <1>1, <1>2

LEMMA Invariance == Spec => []IInv
BY InitInv, NextInv, PTL DEF Spec

(* The type invariant.                                                     *)
THEOREM TypeCorrect == Spec => []TypeOK
BY Invariance, PTL DEF IInv

(* The flock keeps two processes from being inside _persist_key together.  *)
THEOREM LockExcludes == Spec => []MutualExclusion
BY Invariance, PTL DEF IInv

(* RUN-01: with the flock, what a process is about to write is the latest  *)
(* file with its own key changed.                                          *)
THEOREM NoLostSession == Spec => []MergeIsFresh
BY Invariance, PTL DEF IInv

(* No step makes the state file unparsable, with or without the flock.     *)
THEOREM DiskStaysWhole == Spec => NeverTorn
<1>1. ASSUME IInv, [Next]_vars, disk' = Torn
      PROVE  disk = Torn
  BY <1>1, SessionAssumption
     DEF IInv, TypeOK, TmpIsComplete, Sessions, Record, vars, Next, Call, Step,
         Load, Upsert, Delete, Save, Acquire, ReadMerge, OpenTmp, FillTmp,
         Replace, Release, Raise, Crash, Transition
<1> QED
  BY <1>1, Invariance, PTL DEF Spec, NeverTorn

(* The refinement, step by step: Upsert, Delete and Save submit; os.replace*)
(* applies; an exception or a death gives up; the other steps stutter.     *)
LEMMA CallRefines ==
    ASSUME IInv, NEW p \in Proc, Call(p)
    PROVE  [Map!MapNext]_(Map!mapVars)
<1> DEFINE pend == [q \in Proc |-> Unapplied(q)]
<1> USE DEF IInv
<1>1. ReadSessions(disk)' = ReadSessions(disk)
  BY DEF Call, Load, Upsert, Delete, Save, ReadSessions
<1>2. CASE Load(p)
  <2>1. pend' = pend
    BY <1>2 DEF Load, Transition, TypeOK, Unapplied
  <2> QED
    BY <1>1, <2>1 DEF Map!mapVars
<1>3. CASE Upsert(p) \/ Delete(p) \/ Save(p)
  <2>1. /\ pc[p] = "idle" /\ pc' = [pc EXCEPT ![p] = "lock"]
        /\ cur' = cur
        /\ todo' = [todo EXCEPT ![p] = todo'[p]]
        /\ todo'[p] \in SUBSET Change
    BY <1>3 DEF Upsert, Delete, Save, Known, Transition, TypeOK, Change, Record
  <2>2. pend[p] = {}
    BY <2>1 DEF Unapplied, NothingLeft, TypeOK
  <2>3. pend' = [pend EXCEPT ![p] = todo'[p]]
    BY <2>1 DEF Unapplied, TypeOK
  <2>4. Map!Submit(p)
    BY <1>1, <2>1, <2>2, <2>3 DEF Map!Submit, Map!Change, Map!Record, Change, Record
  <2> QED
    BY <2>4 DEF Map!MapNext
<1> QED
  BY <1>2, <1>3 DEF Call

LEMMA StepRefines ==
    ASSUME HasFcntl, IInv, NEW p \in Proc, Step(p)
    PROVE  [Map!MapNext]_(Map!mapVars)
<1> DEFINE pend == [q \in Proc |-> Unapplied(q)]
<1> USE DEF IInv
<1>1. CASE Acquire(p) \/ ReadMerge(p) \/ OpenTmp(p) \/ FillTmp(p)
  <2>1. /\ ReadSessions(disk)' = ReadSessions(disk)
        /\ todo' = todo
        /\ pc[p] # "unlock" /\ pc'[p] # "unlock"
        /\ \A q \in Proc : q # p => pc'[q] = pc[q] /\ cur'[q] = cur[q]
    BY <1>1 DEF Acquire, ReadMerge, OpenTmp, FillTmp, Transition, TypeOK, ReadSessions
  <2>2. pend' = pend
    BY <2>1 DEF Unapplied
  <2> QED
    BY <2>1, <2>2 DEF Map!mapVars
<1>2. CASE Replace(p)
  <2>1. /\ pc[p] = "rename" /\ pc' = [pc EXCEPT ![p] = "unlock"]
        /\ todo' = todo /\ cur' = cur
    BY <1>2 DEF Replace, Transition
  <2>2. disk' = Merge(disk, cur[p]) /\ disk' \in Sessions
    BY <1>2, <2>1 DEF Replace, TmpIsComplete, MergeIsFresh, Merging, TypeOK
  <2>3. ReadSessions(disk)' = [ReadSessions(disk) EXCEPT ![cur[p].key] = cur[p].val]
    BY <2>2, SessionAssumption DEF ReadSessions, Merge, Sessions, Record
  <2>4. cur[p] \in pend[p]
    BY <2>1 DEF Unapplied, CurrentIsAsked, InSection, Merging
  <2>5. pend' = [pend EXCEPT ![p] = @ \ {cur[p]}]
    BY <2>1 DEF Unapplied, TypeOK
  <2>6. Map!Apply(p)
    BY <2>3, <2>4, <2>5 DEF Map!Apply
  <2> QED
    BY <2>6 DEF Map!MapNext
<1>3. CASE Release(p)
  <2>1. ReadSessions(disk)' = ReadSessions(disk)
    BY <1>3 DEF Release, ReadSessions
  <2>2. pend' = pend
    BY <1>3 DEF Release, Transition, TypeOK, Unapplied
  <2> QED
    BY <2>1, <2>2 DEF Map!mapVars
<1> QED
  BY <1>1, <1>2, <1>3 DEF Step

LEMMA FailRefines ==
    ASSUME IInv, NEW p \in Proc, Raise(p) \/ Crash(p)
    PROVE  [Map!MapNext]_(Map!mapVars)
<1> DEFINE pend == [q \in Proc |-> Unapplied(q)]
<1>1. ReadSessions(disk)' = ReadSessions(disk)
  BY DEF Raise, Crash, ReadSessions
<1>2. /\ pc'[p] # "unlock" /\ todo' = [todo EXCEPT ![p] = {}]
      /\ cur' = cur
      /\ \A q \in Proc : q # p => pc'[q] = pc[q]
  BY DEF Raise, Crash, IInv, TypeOK
<1>3. pend' = [pend EXCEPT ![p] = {}]
  BY <1>2 DEF Unapplied, IInv, TypeOK
<1>4. Map!GiveUp(p)
  BY <1>1, <1>3 DEF Map!GiveUp
<1> QED
  BY <1>4 DEF Map!MapNext

(* With the flock the shared file behaves as one atomic map: every change  *)
(* takes effect at its os.replace, at most once, on its own key only.      *)
THEOREM Refinement == HasFcntl => (Spec => ImplementsMap)
<1> SUFFICES ASSUME HasFcntl
             PROVE  Spec => ImplementsMap
  OBVIOUS
<1>1. Init => Map!MapInit
  BY DEF Init, Map!MapInit, ReadSessions, Empty, Unapplied
<1>2. ASSUME IInv, [Next]_vars
      PROVE  [Map!MapNext]_(Map!mapVars)
  <2>1. CASE Next
    BY <1>2, <2>1, CallRefines, StepRefines, FailRefines DEF Next
  <2>2. CASE UNCHANGED vars
    BY <2>2 DEF vars, Map!mapVars, ReadSessions, Unapplied
  <2> QED
    BY <1>2, <2>1, <2>2
<1> QED
  BY <1>1, <1>2, Invariance, PTL DEF Spec, ImplementsMap, Map!MapSpec
=============================================================================
