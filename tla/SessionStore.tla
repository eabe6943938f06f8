---------------------------- MODULE SessionStore ----------------------------
(***************************************************************************)
(* The session registry of sdd_runtime/session.py: one SessionManager per  *)
(* process, each with an in-memory copy of the sessions, over one JSON     *)
(* file that every process of the workspace shares.  A change is persisted *)
(* by _persist_key: an exclusive flock around read, merge of one key,      *)
(* write of a PID-suffixed temporary file and os.replace.  Processes die   *)
(* and restart between any two steps, and the I/O calls may raise.         *)
(***************************************************************************)
EXTENDS FiniteSets

CONSTANTS Proc,      \* processes with a SessionManager on the same state_dir
          Key,       \* (workspace_id, agent_id, work_item_id)
          Val,       \* the rest of a session record
          NoVal,     \* "no session under this key"
          Free,      \* nobody holds the lock
          NoFile,    \* the temporary file does not exist
          Torn,      \* a file that does not parse as JSON
          HasFcntl   \* FALSE on a platform without fcntl (no lock is taken)

ASSUME SessionAssumption ==
    /\ NoVal \notin Val
    /\ Free \notin Proc
    /\ HasFcntl \in BOOLEAN
    /\ Torn # NoFile
    /\ Torn \notin [Key -> Val \cup {NoVal}]
    /\ NoFile \notin [Key -> Val \cup {NoVal}]

VARIABLES disk,      \* the state file: a map, or Torn
          tmp,       \* the temporary file of each process
          lock,      \* holder of the flock
          pc,        \* where each process is in _persist_key
          mem,       \* self._sessions of each process
          todo,      \* changes the current call has still to persist
          cur        \* the change being persisted

vars == <<disk, tmp, lock, pc, mem, todo, cur>>

Record   == Val \cup {NoVal}
Sessions == [Key -> Record]
Change   == [key: Key, val: Record]
Empty    == [k \in Key |-> NoVal]

Locations == {"down", "idle", "lock", "read", "write", "flush", "rename", "unlock"}
Merging   == {"write", "flush", "rename"}   \* between the read and the replace

TypeOK ==
    /\ disk \in Sessions \cup {Torn}
    /\ tmp  \in [Proc -> Sessions \cup {Torn, NoFile}]
    /\ lock \in Proc \cup {Free}
    /\ pc   \in [Proc -> Locations]
    /\ mem  \in [Proc -> Sessions]
    /\ todo \in [Proc -> SUBSET Change]
    /\ cur  \in [Proc -> Change]

-----------------------------------------------------------------------------
(* Mutant of ReadSessions: a parse error is not caught.                    *)
ReadSessionsUnguarded(d) == d

(* _read_sessions_dict: a missing file and a file that does not parse both *)
(* read as no session at all.                                              *)
ReadSessions(d) == IF d = Torn THEN Empty ELSE d

(* Mutant of Merge: starts from nothing instead of the file.               *)
MergeIntoEmpty(d, c) == [Empty EXCEPT ![c.key] = c.val]

Merge(d, c) == [ReadSessions(d) EXCEPT ![c.key] = c.val]

Transition(p, from, to) ==
    /\ pc[p] = from
    /\ pc' = [pc EXCEPT ![p] = to]

Init ==
    /\ disk \in {Empty, Torn}       \* fresh, or left corrupt by someone else
    /\ tmp  = [p \in Proc |-> NoFile]
    /\ lock = Free
    /\ pc   = [p \in Proc |-> "down"]
    /\ mem  = [p \in Proc |-> Empty]
    /\ todo = [p \in Proc |-> {}]
    /\ cur  \in [Proc -> {c \in Change : c.val = NoVal}]

-----------------------------------------------------------------------------
(* The calls.                                                              *)

(* A process starts and loads the file, without the lock.                  *)
Load(p) ==
    /\ Transition(p, "down", "idle")
    /\ mem' = [mem EXCEPT ![p] = ReadSessions(disk)]
    /\ UNCHANGED <<disk, tmp, lock, todo, cur>>

Upsert(p) ==
    /\ Transition(p, "idle", "lock")
    /\ \E k \in Key, v \in Val :
          /\ mem'  = [mem EXCEPT ![p] = [@ EXCEPT ![k] = v]]
          /\ todo' = [todo EXCEPT ![p] = {[key |-> k, val |-> v]}]
    /\ UNCHANGED <<disk, tmp, lock, cur>>

(* Only a session this process knows is deleted; otherwise nothing at all. *)
Delete(p) ==
    /\ Transition(p, "idle", "lock")
    /\ \E k \in Key :
          /\ mem[p][k] # NoVal
          /\ mem'  = [mem EXCEPT ![p] = [@ EXCEPT ![k] = NoVal]]
          /\ todo' = [todo EXCEPT ![p] = {[key |-> k, val |-> NoVal]}]
    /\ UNCHANGED <<disk, tmp, lock, cur>>

(* save persists a snapshot of what the process remembers, however old.    *)
Known(m) == {c \in Change : c.val # NoVal /\ m[c.key] = c.val}

Save(p) ==
    /\ Known(mem[p]) # {}
    /\ Transition(p, "idle", "lock")
    /\ todo' = [todo EXCEPT ![p] = Known(mem[p])]
    /\ UNCHANGED <<disk, tmp, lock, mem, cur>>

-----------------------------------------------------------------------------
(* _persist_key, one step per access to the lock or to a file.             *)

Acquire(p) ==
    /\ Transition(p, "lock", "read")
    /\ IF HasFcntl THEN lock = Free /\ lock' = p ELSE UNCHANGED lock
    /\ \E c \in todo[p] : cur' = [cur EXCEPT ![p] = c]
    /\ UNCHANGED <<disk, tmp, mem, todo>>

(* Mutant of ReadMerge: before RUN-01 the file was not read again.         *)
ReadMergeFromMemory(p) ==
    /\ Transition(p, "read", "write")
    /\ mem' = [mem EXCEPT ![p] = [@ EXCEPT ![cur[p].key] = cur[p].val]]
    /\ UNCHANGED <<disk, tmp, lock, todo, cur>>

ReadMerge(p) ==
    /\ Transition(p, "read", "write")
    /\ mem' = [mem EXCEPT ![p] = Merge(disk, cur[p])]
    /\ UNCHANGED <<disk, tmp, lock, todo, cur>>

(* Mutant of OpenTmp: the state file itself is opened for writing.         *)
OpenInPlace(p) ==
    /\ Transition(p, "write", "flush")
    /\ disk' = Torn
    /\ UNCHANGED <<tmp, lock, mem, todo, cur>>

(* write_text truncates first: until it is done the file does not parse.   *)
OpenTmp(p) ==
    /\ Transition(p, "write", "flush")
    /\ tmp' = [tmp EXCEPT ![p] = Torn]
    /\ UNCHANGED <<disk, lock, mem, todo, cur>>

FillTmp(p) ==
    /\ Transition(p, "flush", "rename")
    /\ tmp' = [tmp EXCEPT ![p] = mem[p]]
    /\ UNCHANGED <<disk, lock, mem, todo, cur>>

Replace(p) ==
    /\ Transition(p, "rename", "unlock")
    /\ disk' = tmp[p]
    /\ tmp'  = [tmp EXCEPT ![p] = NoFile]
    /\ UNCHANGED <<lock, mem, todo, cur>>

(* Mutant of ReleaseBy: the lock is dropped by whoever leaves.             *)
ReleaseByAnyone(p) == lock' = Free

ReleaseBy(p) == lock' = IF lock = p THEN Free ELSE lock

Release(p) ==
    LET rest == todo[p] \ {cur[p]}
    IN  /\ Transition(p, "unlock", IF rest = {} THEN "idle" ELSE "lock")
        /\ ReleaseBy(p)
        /\ todo' = [todo EXCEPT ![p] = rest]
        /\ UNCHANGED <<disk, tmp, mem, cur>>

(* Mutant of Raise: no finally.                                            *)
RaiseKeepsLock(p) ==
    /\ pc[p] \in {"lock", "read"} \cup Merging
    /\ pc'   = [pc EXCEPT ![p] = "idle"]
    /\ todo' = [todo EXCEPT ![p] = {}]
    /\ UNCHANGED <<disk, tmp, lock, mem, cur>>

(* An I/O call raises: the finally releases the lock, the rest of the call *)
(* is skipped, and the memory keeps what it was last given.                *)
Raise(p) ==
    /\ pc[p] \in {"lock", "read"} \cup Merging
    /\ pc'   = [pc EXCEPT ![p] = "idle"]
    /\ todo' = [todo EXCEPT ![p] = {}]
    /\ ReleaseBy(p)
    /\ UNCHANGED <<disk, tmp, mem, cur>>

(* The process dies; the kernel closes the lock file and drops the flock.  *)
(* A temporary file may stay behind.                                       *)
Crash(p) ==
    /\ pc[p] # "down"
    /\ pc'   = [pc EXCEPT ![p] = "down"]
    /\ todo' = [todo EXCEPT ![p] = {}]
    /\ mem'  = [mem EXCEPT ![p] = Empty]
    /\ ReleaseBy(p)
    /\ UNCHANGED <<disk, tmp, cur>>

Call(p) == Load(p) \/ Upsert(p) \/ Delete(p) \/ Save(p)

Step(p) == \/ Acquire(p) \/ ReadMerge(p) \/ OpenTmp(p) \/ FillTmp(p)
           \/ Replace(p) \/ Release(p)

Next == \E p \in Proc : Call(p) \/ Step(p) \/ Raise(p) \/ Crash(p)

Spec == Init /\ [][Next]_vars

(* A running process keeps running, and the kernel wakes the waiters of a  *)
(* flock in turn, so a waiter is not passed over for ever.                 *)
Fairness ==
    \A p \in Proc :
        /\ SF_vars(Acquire(p))
        /\ WF_vars(ReadMerge(p) \/ OpenTmp(p) \/ FillTmp(p) \/ Replace(p) \/ Release(p))

FairSpec == Spec /\ Fairness

-----------------------------------------------------------------------------
(* Only the holder of the flock is between the lock and the unlock of      *)
(* _persist_key.                                                           *)
InSection(p) == pc[p] \in {"read", "unlock"} \cup Merging

MutualExclusion == HasFcntl => \A p \in Proc : InSection(p) => lock = p

(* RUN-01: from its read to its os.replace, what a process is about to     *)
(* write is the latest file with one key changed, so no concurrent         *)
(* process's session is lost.                                              *)
MergeIsFresh ==
    HasFcntl => \A p \in Proc : pc[p] \in Merging => mem[p] = Merge(disk, cur[p])

(* The inductive invariant behind these: besides the two facts above, what *)
(* is renamed into place is the finished temporary file of the same call,  *)
(* with or without the lock; the change being persisted is one the call    *)
(* asked for; and outside a call nothing is left to persist.               *)
TmpIsComplete == \A p \in Proc : pc[p] = "rename" => tmp[p] = mem[p]
CurrentIsAsked == \A p \in Proc : InSection(p) => cur[p] \in todo[p]
NothingLeft == \A p \in Proc : pc[p] \in {"down", "idle"} => todo[p] = {}

IInv ==
    /\ TypeOK
    /\ MutualExclusion
    /\ MergeIsFresh
    /\ TmpIsComplete
    /\ CurrentIsAsked
    /\ NothingLeft

(* No step of any process, no exception and no crash leaves a partially    *)
(* written state file (RUN-01); a corrupt file is only ever inherited.     *)
NeverTorn == [][disk' = Torn => disk = Torn]_vars

(* Every call that gets as far as waiting for the lock ends, by finishing, *)
(* by an exception or by the death of its process: no holder that crashes  *)
(* blocks the others.                                                      *)
PersistEnds == \A p \in Proc : pc[p] = "lock" ~> pc[p] \in {"idle", "down"}

(* The shared file implements the atomic map: a change takes effect at its *)
(* os.replace, at most once, and alone.                                    *)
Unapplied(p) == IF pc[p] = "unlock" THEN todo[p] \ {cur[p]} ELSE todo[p]

Map == INSTANCE SessionMap
    WITH store   <- ReadSessions(disk),
         pending <- [p \in Proc |-> Unapplied(p)]

ImplementsMap == Map!MapSpec
=============================================================================
