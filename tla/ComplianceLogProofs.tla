------------------------ MODULE ComplianceLogProofs ------------------------
(***************************************************************************)
(* Proofs about ComplianceLog, for any number of processes, backups and    *)
(* records and any size: the type invariant; what rotation promises as     *)
(* long as no two appends have overlapped, however many rotations fail or  *)
(* die half-way; and how far files grow however the appends overlap.       *)
(***************************************************************************)
EXTENDS ComplianceLog, FiniteSetTheorems, SequenceTheorems, TLAPS

Rotating == {"exists", "rename", "move"}

(* Where a writer is agrees with its loop index and its open file.         *)
Places ==
    \A w \in Writer :
        /\ pc[w] \in {"exists", "rename"} => idx[w] \in 1 .. MaxBackups - 1
        /\ pc[w] = "move" => idx[w] = 0
        /\ pc[w] = "write" => fd[w] # Absent

(* No two names stand for one file.                                        *)
OwnFiles == \A m, n \in Names : m # n /\ name[m] # Absent => name[m] # name[n]

(* No file holds a record that has not been written.                       *)
Known == \A i \in Inodes : content[i] \subseteq 1 .. written

CTypes == TypeOK /\ Places /\ OwnFiles /\ Known

(* While appends do not overlap: one writer is at work; what it has open   *)
(* is the log; the log it rotates is full, as is every backup; and above   *)
(* the backup it is about to move there is a gap, unless that is the last  *)
(* but one.                                                                *)
OneAtWork == \A v, w \in Writer : v # w => pc[v] = "idle" \/ pc[w] = "idle"
OpenIsLog == \A w \in Writer : pc[w] = "write" => fd[w] = name[0]
FullLog   == \A w \in Writer : pc[w] \in Rotating => name[0] # Absent /\ Size(0) >= MaxSize
FullBackups == \A n \in Names \ {0} : name[n] # Absent => Size(n) >= MaxSize
Gap == \A w \in Writer :
          pc[w] \in Rotating /\ idx[w] < MaxBackups - 1 => name[idx[w] + 1] = Absent

Ordered ==
    \A m, n \in Names :
        m < n /\ name[m] # Absent /\ name[n] # Absent =>
            \A r \in content[name[m]], s \in content[name[n]] : s < r

LostAreOlder == \A l \in Lost, k \in Kept : l < k

EnoughKept ==
    Lost # {} => Cardinality(Kept) >= IF MaxBackups = 1 THEN MaxSize ELSE 2 * MaxSize

Alone ==
    /\ OneAtWork /\ OpenIsLog /\ FullLog /\ FullBackups /\ Gap
    /\ Ordered /\ LostAreOlder /\ EnoughKept

CInv == CTypes /\ (~overlapped => Alone)

-----------------------------------------------------------------------------
LEMMA Bounds ==
  /\ MaxSize \in Nat \ {0} /\ MaxBackups \in Nat \ {0} /\ MaxRecords \in Nat
  /\ 0 \in Names /\ 1 \in Names /\ MaxBackups - 1 \in Names
  /\ \A i \in 1 .. MaxBackups - 1 : i \in Names /\ i + 1 \in Names /\ i - 1 \in Names
  BY LogAssumption DEF Names

LEMMA LenIsNat == ASSUME TypeOK PROVE Len(content) \in Nat /\ Absent \notin Inodes
  BY DEF TypeOK, Inodes, Absent

(* A rename leaves every name with its own file.                           *)
LEMMA RenamedTypes ==
  ASSUME CTypes, NEW i \in Names, i + 1 \in Names, name[i] # Absent, name' = Renamed(i, i + 1)
  PROVE  /\ name' \in [Names -> Inodes \cup {Absent}]
         /\ \A m, n \in Names : m # n /\ name'[m] # Absent => name'[m] # name'[n]
         /\ name'[i] = Absent /\ name'[i + 1] = name[i]
         /\ \A n \in Names \ {i, i + 1} : name'[n] = name[n]
  <1>1. name \in [Names -> Inodes \cup {Absent}] /\ i + 1 # i
    BY DEF CTypes, TypeOK, Names
  <1>2. name' = [name EXCEPT ![i + 1] = name[i], ![i] = Absent]
    BY DEF Renamed
  <1>3. /\ name' \in [Names -> Inodes \cup {Absent}]
        /\ name'[i] = Absent /\ name'[i + 1] = name[i]
        /\ \A n \in Names \ {i, i + 1} : name'[n] = name[n]
    BY <1>1, <1>2
  <1>4. \A m, n \in Names : m # n /\ name[m] # Absent => name[m] # name[n]
    BY DEF CTypes, OwnFiles
  <1>5. \A m, n \in Names : m # n /\ name'[m] # Absent => name'[m] # name'[n]
    BY <1>1, <1>3, <1>4
  <1> QED BY <1>3, <1>5

(* Creating the log when it is missing.                                    *)
LEMMA CreatedTypes ==
  ASSUME CTypes, Created
  PROVE  /\ content' \in Seq(SUBSET (1 .. MaxRecords))
         /\ name' \in [Names -> Inodes' \cup {Absent}]
         /\ Inodes \subseteq Inodes'
         /\ name'[0] \in Inodes' /\ name'[0] # Absent
         /\ \A n \in Names \ {0} : name'[n] = name[n]
         /\ name[0] # Absent => name' = name /\ content' = content
         /\ \A i \in Inodes : content'[i] = content[i]
         /\ \A i \in Inodes' \ Inodes : content'[i] = {}
         /\ name[0] = Absent => name'[0] \notin Inodes
         /\ \A m, n \in Names : m # n /\ name'[m] # Absent => name'[m] # name'[n]
  <1>1. /\ name \in [Names -> Inodes \cup {Absent}] /\ content \in Seq(SUBSET (1 .. MaxRecords))
        /\ Len(content) \in Nat /\ 0 \in Names /\ Absent = 0
        /\ \A m, n \in Names : m # n /\ name[m] # Absent => name[m] # name[n]
    BY Bounds DEF CTypes, TypeOK, OwnFiles, Absent
  <1>2. CASE name[0] # Absent
    <2>1. name' = name /\ content' = content
      BY <1>2 DEF Created
    <2>2. Inodes' = Inodes
      BY <2>1 DEF Inodes
    <2> QED BY <1>1, <1>2, <2>1, <2>2
  <1>3. CASE name[0] = Absent
    <2>1. content' = Append(content, {}) /\ name' = [name EXCEPT ![0] = Len(content')]
      BY <1>3 DEF Created
    <2>2. /\ content' \in Seq(SUBSET (1 .. MaxRecords)) /\ Len(content') = Len(content) + 1
          /\ \A i \in 1 .. Len(content) : content'[i] = content[i]
          /\ content'[Len(content) + 1] = {}
      BY <1>1, <2>1
    <2>3. Inodes' = 1 .. Len(content) + 1 /\ Inodes = 1 .. Len(content)
      BY <2>2 DEF Inodes
    <2>4. /\ name'[0] = Len(content) + 1 /\ \A n \in Names \ {0} : name'[n] = name[n]
          /\ name' \in [Names -> Inodes' \cup {Absent}]
      BY <1>1, <2>1, <2>2, <2>3
    <2>5. Inodes' \ Inodes = {Len(content) + 1} /\ Len(content) + 1 # Absent
          /\ Len(content) + 1 \notin Inodes /\ Inodes \subseteq Inodes' /\ Len(content) + 1 \in Inodes'
      BY <1>1, <2>3
    <2>6. \A m, n \in Names : m # n /\ name'[m] # Absent => name'[m] # name'[n]
      BY <1>1, <2>4, <2>5
    <2> QED BY <1>3, <2>2, <2>3, <2>4, <2>5, <2>6
  <1> QED BY <1>2, <1>3

(* One record more in the file that is open.                               *)
LEMMA WriteTypes ==
  ASSUME CTypes, NEW w \in Writer, Write(w)
  PROVE  /\ written' = written + 1 /\ written' \in 1 .. MaxRecords
         /\ fd[w] \in Inodes
         /\ content' \in Seq(SUBSET (1 .. MaxRecords)) /\ Inodes' = Inodes
         /\ \A i \in Inodes : content'[i] = IF i = fd[w] THEN content[i] \cup {written'} ELSE content[i]
  <1>1. /\ written' = written + 1 /\ written < MaxRecords /\ pc[w] = "write"
        /\ content' = [content EXCEPT ![fd[w]] = content[fd[w]] \cup {written'}]
    BY DEF Write, Goto
  <1>2. written' \in 1 .. MaxRecords
    BY <1>1, Bounds DEF CTypes, TypeOK
  <1>3. fd[w] \in Inodes
    BY <1>1 DEF CTypes, TypeOK, Places
  <1>4. content \in Seq(SUBSET (1 .. MaxRecords))
    BY DEF CTypes, TypeOK
  <1> DEFINE new == content[fd[w]] \cup {written'}
  <1>5. new \in SUBSET (1 .. MaxRecords)
    <2>1. content[fd[w]] \in SUBSET (1 .. MaxRecords)
      BY <1>3, <1>4 DEF Inodes
    <2> QED BY <1>2, <2>1
  <1>6. fd[w] \in 1 .. Len(content)
    BY <1>3 DEF Inodes
  <1>7. content' = [content EXCEPT ![fd[w]] = new]
    BY <1>1
  <1> HIDE DEF new
  <1>8. /\ content' \in Seq(SUBSET (1 .. MaxRecords)) /\ Len(content') = Len(content)
        /\ \A i \in 1 .. Len(content) : content'[i] = IF i = fd[w] THEN new ELSE content[i]
    BY <1>4, <1>5, <1>6, <1>7, ExceptSeq
  <1>9. Inodes' = Inodes
    BY <1>8 DEF Inodes
  <1> QED BY <1>1, <1>2, <1>3, <1>8, <1>9 DEF new, Inodes

LEMMA NextIndexTypes ==
  ASSUME CTypes, NEW w \in Writer, pc[w] \in {"exists", "rename"}, NextIndex(w)
  PROVE  /\ pc' \in [Writer -> Locations] /\ idx' \in [Writer -> Names]
         /\ idx'[w] = idx[w] - 1 /\ idx[w] \in 1 .. MaxBackups - 1
         /\ pc'[w] = IF idx[w] = 1 THEN "move" ELSE "exists"
         /\ \A v \in Writer \ {w} : pc'[v] = pc[v] /\ idx'[v] = idx[v]
  <1>1. idx[w] \in 1 .. MaxBackups - 1 /\ idx[w] - 1 \in Names
    BY Bounds DEF CTypes, Places
  <1> QED BY <1>1 DEF NextIndex, CTypes, TypeOK, Locations

(* The steps of one writer, by what they do to the files.                  *)
Idles(w) == StartAppend(w) \/ Stat(w) \/ BackupMissing(w) \/ BackupExists(w)
            \/ RotateFails(w) \/ Abort(w)
Moves(w) == RenameBackup(w) \/ MoveLog(w)
Creates(w) == Touch(w) \/ Open(w)

LEMMA NextIs ==
  ASSUME Next
  PROVE  \E w \in Writer : Idles(w) \/ Moves(w) \/ Creates(w) \/ Write(w)
  BY DEF Next, Rotate, Idles, Moves, Creates

(* What holds of every step: the ghosts do not go back, and a writer does  *)
(* not move another.                                                       *)
Own(w) ==
    /\ overlapped => overlapped'
    /\ \A v \in Writer : v # w => pc'[v] = pc[v] /\ idx'[v] = idx[v] /\ fd'[v] = fd[v]

LEMMA StepIsOwn ==
  ASSUME CTypes, NEW w \in Writer, Idles(w) \/ Moves(w) \/ Creates(w) \/ Write(w)
  PROVE  Own(w) /\ overlapped' \in BOOLEAN /\ ioError' \in BOOLEAN
  <1>1. /\ pc \in [Writer -> Locations] /\ idx \in [Writer -> Names]
        /\ fd \in [Writer -> Inodes \cup {Absent}]
    BY DEF CTypes, TypeOK
  <1>2. overlapped \in BOOLEAN /\ ioError \in BOOLEAN
    BY Zenon DEF CTypes, TypeOK
  <1>3. \A v \in Writer : v # w => pc'[v] = pc[v] /\ idx'[v] = idx[v] /\ fd'[v] = fd[v]
    <2>1. CASE StartAppend(w)
      BY <1>1, <2>1 DEF StartAppend, Goto
    <2>2. CASE Stat(w)
      BY <1>1, <2>2 DEF Stat
    <2>3. CASE BackupMissing(w) \/ RenameBackup(w)
      BY <1>1, <2>3 DEF BackupMissing, RenameBackup, NextIndex
    <2>4. CASE BackupExists(w) \/ MoveLog(w) \/ RotateFails(w)
      BY <1>1, <2>4 DEF BackupExists, MoveLog, RotateFails, Goto
    <2>5. CASE Abort(w)
      BY <1>1, <2>5 DEF Abort
    <2>6. CASE Creates(w)
      BY <1>1, <2>6 DEF Creates, Touch, Open, Goto
    <2>7. CASE Write(w)
      BY <1>1, <2>7 DEF Write, Goto
    <2> QED BY <2>1, <2>2, <2>3, <2>4, <2>5, <2>6, <2>7 DEF Idles, Moves
  <1>4. /\ overlapped => overlapped'
        /\ overlapped' \in BOOLEAN /\ ioError' \in BOOLEAN
    <2>1. CASE StartAppend(w)
      BY <1>2, <2>1, Zenon DEF StartAppend
    <2>2. CASE RotateFails(w)
      BY <1>2, <2>2, Zenon DEF RotateFails
    <2>3. CASE UNCHANGED <<overlapped, ioError>>
      BY <1>2, <2>3
    <2> QED BY <2>1, <2>2, <2>3 DEF Idles, Moves, Creates, Stat, BackupMissing, BackupExists,
              Abort, RenameBackup, MoveLog, Touch, Open, Write
  <1> QED BY <1>3, <1>4 DEF Own

-----------------------------------------------------------------------------
(* The type invariant, by kind of step.                                    *)

(* The parts of CTypes that depend on where writers are follow from how    *)
(* the writer that takes the step leaves its own.                          *)
LEMMA TypesFrom ==
  ASSUME CTypes, NEW w \in Writer, Own(w), overlapped' \in BOOLEAN, ioError' \in BOOLEAN,
         pc' \in [Writer -> Locations], idx' \in [Writer -> Names],
         fd' \in [Writer -> Inodes' \cup {Absent}],
         content' \in Seq(SUBSET (1 .. MaxRecords)),
         name' \in [Names -> Inodes' \cup {Absent}], written' \in 0 .. MaxRecords,
         pc'[w] \in {"exists", "rename"} => idx'[w] \in 1 .. MaxBackups - 1,
         pc'[w] = "move" => idx'[w] = 0,
         pc'[w] = "write" => fd'[w] # Absent,
         \A m, n \in Names : m # n /\ name'[m] # Absent => name'[m] # name'[n],
         \A i \in Inodes' : content'[i] \subseteq 1 .. written'
  PROVE  CTypes'
  <1>1. TypeOK'
    BY Zenon DEF TypeOK
  <1>2. Places'
    BY DEF CTypes, Places, Own
  <1> QED BY <1>1, <1>2 DEF CTypes, OwnFiles, Known

LEMMA IdlesTypes ==
  ASSUME CTypes, NEW w \in Writer, Idles(w)
  PROVE  CTypes'
  <1>1. Own(w) /\ overlapped' \in BOOLEAN /\ ioError' \in BOOLEAN
    BY StepIsOwn
  <1>2. /\ pc \in [Writer -> Locations] /\ idx \in [Writer -> Names]
        /\ fd \in [Writer -> Inodes \cup {Absent}] /\ name \in [Names -> Inodes \cup {Absent}]
        /\ content \in Seq(SUBSET (1 .. MaxRecords)) /\ written \in 0 .. MaxRecords
        /\ \A m, n \in Names : m # n /\ name[m] # Absent => name[m] # name[n]
        /\ \A i \in Inodes : content[i] \subseteq 1 .. written
        /\ pc[w] \in {"exists", "rename"} => idx[w] \in 1 .. MaxBackups - 1
        /\ pc[w] = "move" => idx[w] = 0
        /\ pc[w] = "write" => fd[w] # Absent
    BY DEF CTypes, TypeOK, OwnFiles, Known, Places
  <1>3. name' = name /\ content' = content /\ written' = written /\ Inodes' = Inodes
    <2>1. UNCHANGED <<name, content, written>>
      BY DEF Idles, StartAppend, Stat, BackupMissing, BackupExists, RotateFails, Abort
    <2> QED BY <2>1 DEF Inodes
  <1>4. /\ pc' \in [Writer -> Locations] /\ idx' \in [Writer -> Names]
        /\ fd' \in [Writer -> Inodes \cup {Absent}]
        /\ pc'[w] \in {"exists", "rename"} => idx'[w] \in 1 .. MaxBackups - 1
        /\ pc'[w] = "move" => idx'[w] = 0
        /\ pc'[w] = "write" => fd'[w] # Absent
    <2>1. CASE StartAppend(w)
      BY <1>2, <2>1 DEF StartAppend, Goto, Locations
    <2>2. CASE Stat(w)
      <3>1. idx' = [idx EXCEPT ![w] = MaxBackups - 1] /\ idx' \in [Writer -> Names] /\ fd' = fd
            /\ idx'[w] = MaxBackups - 1
        BY <1>2, <2>2, Bounds DEF Stat
      <3>2. pc' = [pc EXCEPT ![w] = IF name[0] = Absent THEN "idle"
                               ELSE IF Size(0) < MaxSize THEN "open"
                               ELSE IF MaxBackups = 1 THEN "move" ELSE "exists"]
        BY <2>2 DEF Stat
      <3>3. pc' \in [Writer -> Locations] /\ pc'[w] \in {"idle", "open", "move", "exists"}
        BY <1>2, <3>2 DEF Locations
      <3>4. (pc'[w] = "move" => MaxBackups = 1) /\ (pc'[w] = "exists" => MaxBackups # 1)
        BY <1>2, <3>2
      <3>5. MaxBackups # 1 => MaxBackups - 1 \in 1 .. MaxBackups - 1
        BY Bounds
      <3>6. pc'[w] \in {"exists", "rename"} => idx'[w] \in 1 .. MaxBackups - 1
        BY <3>1, <3>3, <3>4, <3>5
      <3>7. pc'[w] = "move" => idx'[w] = 0
        BY <3>1, <3>4
      <3> QED BY <1>2, <3>1, <3>3, <3>6, <3>7
    <2>3. CASE BackupMissing(w)
      <3>1. pc[w] \in {"exists", "rename"} /\ NextIndex(w) /\ fd' = fd
        BY <2>3 DEF BackupMissing
      <3>2. /\ pc' \in [Writer -> Locations] /\ idx' \in [Writer -> Names]
            /\ idx'[w] = idx[w] - 1 /\ idx[w] \in 1 .. MaxBackups - 1
            /\ pc'[w] = IF idx[w] = 1 THEN "move" ELSE "exists"
        BY <3>1, NextIndexTypes
      <3>3. idx[w] # 1 => idx[w] - 1 \in 1 .. MaxBackups - 1
        BY <3>2, Bounds
      <3> QED BY <1>2, <3>1, <3>2, <3>3
    <2>4. CASE BackupExists(w)
      BY <1>2, <2>4 DEF BackupExists, Goto, Locations
    <2>5. CASE RotateFails(w)
      BY <1>2, <2>5 DEF RotateFails, Locations
    <2>6. CASE Abort(w)
      BY <1>2, <2>6 DEF Abort, Locations
    <2> QED BY <2>1, <2>2, <2>3, <2>4, <2>5, <2>6 DEF Idles
  <1> QED BY <1>1, <1>2, <1>3, <1>4, TypesFrom

(* A rename, whose source exists: of backup idx, or of the log.            *)
LEMMA MovesIs ==
  ASSUME CTypes, NEW w \in Writer, Moves(w)
  PROVE  /\ pc[w] \in Rotating /\ idx[w] \in 0 .. MaxBackups - 1
         /\ idx[w] \in Names /\ idx[w] + 1 \in Names
         /\ name[idx[w]] # Absent /\ name' = Renamed(idx[w], idx[w] + 1)
         /\ UNCHANGED <<content, written, fd, overlapped, ioError>>
         /\ pc' \in [Writer -> Locations] /\ idx' \in [Writer -> Names]
         /\ pc'[w] \in {"exists", "move"} => idx'[w] = idx[w] - 1
         /\ pc'[w] \in {"exists", "move", "touch"} /\ (pc'[w] = "exists" => idx[w] > 1)
         /\ pc'[w] = "move" => idx[w] = 1
         /\ pc'[w] = "touch" <=> idx[w] = 0
  <1>1. CASE RenameBackup(w)
    <2>1. /\ pc' \in [Writer -> Locations] /\ idx' \in [Writer -> Names]
          /\ idx'[w] = idx[w] - 1 /\ idx[w] \in 1 .. MaxBackups - 1
          /\ pc'[w] = IF idx[w] = 1 THEN "move" ELSE "exists"
      BY <1>1, NextIndexTypes DEF RenameBackup
    <2> QED BY <1>1, <2>1, Bounds DEF RenameBackup, Rotating
  <1>2. CASE MoveLog(w)
    <2>1. /\ pc[w] = "move" /\ idx[w] = 0 /\ idx' = idx /\ name[0] # Absent /\ name' = Renamed(0, 1)
          /\ UNCHANGED <<content, written, fd, overlapped, ioError>>
      BY <1>2 DEF MoveLog, Goto, CTypes, Places
    <2>2. pc' \in [Writer -> Locations] /\ pc'[w] = "touch" /\ idx' \in [Writer -> Names]
      BY <1>2, <2>1 DEF MoveLog, Goto, CTypes, TypeOK, Locations
    <2>3. idx[w] + 1 = 1 /\ 0 \in 0 .. MaxBackups - 1
      BY <2>1, Bounds
    <2> QED BY <2>1, <2>2, <2>3, Bounds DEF Rotating
  <1> QED BY <1>1, <1>2 DEF Moves

LEMMA MovesTypes ==
  ASSUME CTypes, NEW w \in Writer, Moves(w)
  PROVE  CTypes'
  <1>1. Own(w) /\ overlapped' \in BOOLEAN /\ ioError' \in BOOLEAN
    BY StepIsOwn
  <1>2. /\ name' \in [Names -> Inodes \cup {Absent}]
        /\ \A m, n \in Names : m # n /\ name'[m] # Absent => name'[m] # name'[n]
    BY MovesIs, RenamedTypes
  <1>3. Inodes' = Inodes
    BY MovesIs DEF Inodes
  <1>4. /\ fd' \in [Writer -> Inodes \cup {Absent}] /\ fd' = fd
        /\ content' \in Seq(SUBSET (1 .. MaxRecords)) /\ written' \in 0 .. MaxRecords
        /\ \A i \in Inodes : content'[i] \subseteq 1 .. written'
    BY MovesIs DEF CTypes, TypeOK, Known
  <1>5. /\ pc' \in [Writer -> Locations] /\ idx' \in [Writer -> Names]
        /\ pc'[w] \in {"exists", "rename"} => idx'[w] \in 1 .. MaxBackups - 1
        /\ pc'[w] = "move" => idx'[w] = 0
        /\ pc'[w] = "write" => fd'[w] # Absent
    <2>1. idx[w] \in 0 .. MaxBackups - 1 /\ pc'[w] \in {"exists", "move", "touch"}
          /\ (pc'[w] = "exists" => idx[w] > 1 /\ idx'[w] = idx[w] - 1)
          /\ (pc'[w] = "move" => idx[w] = 1 /\ idx'[w] = idx[w] - 1)
      BY MovesIs
    <2>2. pc' \in [Writer -> Locations] /\ idx' \in [Writer -> Names]
      BY MovesIs
    <2> QED BY <2>1, <2>2, Bounds
  <1> QED BY <1>1, <1>2, <1>3, <1>4, <1>5, TypesFrom

LEMMA CreatesTypes ==
  ASSUME CTypes, NEW w \in Writer, Creates(w)
  PROVE  CTypes'
  <1>1. Own(w) /\ overlapped' \in BOOLEAN /\ ioError' \in BOOLEAN
    BY StepIsOwn
  <1>2. Created
    BY DEF Creates, Touch, Open
  <1>3. /\ content' \in Seq(SUBSET (1 .. MaxRecords))
        /\ name' \in [Names -> Inodes' \cup {Absent}] /\ Inodes \subseteq Inodes'
        /\ name'[0] \in Inodes' /\ name'[0] # Absent
        /\ \A i \in Inodes : content'[i] = content[i]
        /\ \A i \in Inodes' \ Inodes : content'[i] = {}
        /\ \A m, n \in Names : m # n /\ name'[m] # Absent => name'[m] # name'[n]
    BY <1>2, CreatedTypes
  <1>4. /\ written' = written /\ idx' = idx
        /\ pc \in [Writer -> Locations] /\ idx \in [Writer -> Names]
        /\ fd \in [Writer -> Inodes \cup {Absent}] /\ written \in 0 .. MaxRecords
        /\ \A i \in Inodes : content[i] \subseteq 1 .. written
    BY DEF Creates, Touch, Open, CTypes, TypeOK, Known
  <1>5. \A i \in Inodes' : content'[i] \subseteq 1 .. written'
    BY <1>3, <1>4
  <1>6. /\ pc' \in [Writer -> Locations] /\ pc'[w] \in {"open", "write"}
        /\ fd' \in [Writer -> Inodes' \cup {Absent}]
        /\ pc'[w] = "write" => fd'[w] # Absent
    <2>1. CASE Touch(w)
      BY <1>3, <1>4, <2>1 DEF Touch, Goto, Locations
    <2>2. CASE Open(w)
      BY <1>3, <1>4, <2>2 DEF Open, Goto, Locations
    <2> QED BY <2>1, <2>2 DEF Creates
  <1> QED BY <1>1, <1>3, <1>4, <1>5, <1>6, TypesFrom

LEMMA WritesTypes ==
  ASSUME CTypes, NEW w \in Writer, Write(w)
  PROVE  CTypes'
  <1>1. Own(w) /\ overlapped' \in BOOLEAN /\ ioError' \in BOOLEAN
    BY StepIsOwn
  <1>2. /\ written' = written + 1 /\ written' \in 1 .. MaxRecords /\ fd[w] \in Inodes
        /\ content' \in Seq(SUBSET (1 .. MaxRecords)) /\ Inodes' = Inodes
        /\ \A i \in Inodes : content'[i] = IF i = fd[w] THEN content[i] \cup {written'} ELSE content[i]
    BY WriteTypes
  <1>3. /\ name' = name /\ idx' = idx /\ pc' = [pc EXCEPT ![w] = "idle"]
        /\ fd' = [fd EXCEPT ![w] = Absent]
    BY DEF Write, Goto
  <1>4. /\ pc \in [Writer -> Locations] /\ idx \in [Writer -> Names]
        /\ fd \in [Writer -> Inodes \cup {Absent}] /\ name \in [Names -> Inodes \cup {Absent}]
        /\ \A m, n \in Names : m # n /\ name[m] # Absent => name[m] # name[n]
        /\ \A i \in Inodes : content[i] \subseteq 1 .. written
        /\ written \in 0 .. MaxRecords
    BY DEF CTypes, TypeOK, OwnFiles, Known
  <1>5. \A i \in Inodes' : content'[i] \subseteq 1 .. written'
    <2>1. \A r \in 1 .. written : r \in 1 .. written'
      BY <1>2, <1>4
    <2>2. written' \in 1 .. written'
      BY <1>2
    <2>3. ASSUME NEW i \in Inodes, NEW r \in content'[i] PROVE r \in 1 .. written'
      <3>1. content[i] \subseteq 1 .. written
        BY <1>4
      <3>2. r \in content[i] \/ r = written'
        BY <1>2, <2>3
      <3> QED BY <2>1, <2>2, <3>1, <3>2
    <2> QED BY <1>2, <2>3
  <1>6. /\ pc' \in [Writer -> Locations] /\ pc'[w] = "idle"
        /\ fd' \in [Writer -> Inodes \cup {Absent}]
    BY <1>3, <1>4 DEF Locations
  <1>7. written' \in 0 .. MaxRecords
    BY <1>2
  <1> QED BY <1>1, <1>2, <1>3, <1>4, <1>5, <1>6, <1>7, TypesFrom

LEMMA TypesStay == ASSUME CTypes, [Next]_vars PROVE CTypes'
  <1>1. CASE UNCHANGED vars
    BY <1>1 DEF vars, CTypes, TypeOK, Places, OwnFiles, Known, Inodes
  <1>2. CASE Next
    BY <1>2, NextIs, IdlesTypes, MovesTypes, CreatesTypes, WritesTypes
  <1> QED BY <1>1, <1>2

-----------------------------------------------------------------------------
(* What the log and its backups hold.                                      *)
LEMMA KeptIs ==
  /\ \A r : r \in Kept <=> \E n \in Names : name[n] # Absent /\ r \in content[name[n]]
  /\ \A r : r \in Kept' <=> \E n \in Names : name'[n] # Absent /\ r \in content'[name'[n]]
  BY DEF Kept

LEMMA FilesFinite ==
  ASSUME CTypes
  PROVE  /\ \A n \in Names : name[n] # Absent =>
              /\ name[n] \in Inodes /\ content[name[n]] \subseteq 1 .. written
              /\ IsFiniteSet(content[name[n]]) /\ Size(n) \in Nat
         /\ Kept \subseteq 1 .. MaxRecords /\ IsFiniteSet(Kept) /\ Cardinality(Kept) \in Nat
         /\ written \in Nat
  <1>1. /\ name \in [Names -> Inodes \cup {Absent}] /\ content \in Seq(SUBSET (1 .. MaxRecords))
        /\ written \in 0 .. MaxRecords /\ MaxRecords \in Nat
    BY Bounds DEF CTypes, TypeOK
  <1>2. IsFiniteSet(1 .. MaxRecords)
    BY <1>1, FS_Interval
  <1>3. ASSUME NEW n \in Names, name[n] # Absent
        PROVE  /\ name[n] \in Inodes /\ content[name[n]] \subseteq 1 .. written
               /\ content[name[n]] \in SUBSET (1 .. MaxRecords)
               /\ IsFiniteSet(content[name[n]]) /\ Size(n) \in Nat
    <2>1. name[n] \in Inodes
      BY <1>1, <1>3
    <2>2. content[name[n]] \in SUBSET (1 .. MaxRecords)
      BY <1>1, <2>1 DEF Inodes
    <2>3. IsFiniteSet(content[name[n]])
      BY <1>2, <2>2, FS_Subset
    <2> QED BY <2>1, <2>2, <2>3, FS_CardinalityType DEF CTypes, Known, Size
  <1>4. Kept \subseteq 1 .. MaxRecords
    BY <1>3, KeptIs
  <1>5. IsFiniteSet(Kept) /\ Cardinality(Kept) \in Nat
    BY <1>2, <1>4, FS_Subset, FS_CardinalityType
  <1> QED BY <1>1, <1>3, <1>4, <1>5

(* While appends do not overlap, only the writer that takes a step works.  *)
LEMMA OthersIdle ==
  ASSUME CInv, NEW w \in Writer, Idles(w) \/ Moves(w) \/ Creates(w) \/ Write(w), ~overlapped'
  PROVE  /\ ~overlapped /\ Alone
         /\ \A v \in Writer : v # w => pc[v] = "idle" /\ pc'[v] = "idle"
  <1>1. Own(w)
    BY StepIsOwn DEF CInv
  <1>2. ~overlapped /\ Alone
    BY <1>1 DEF Own, CInv
  <1>3. \A v \in Writer : v # w => pc[v] = "idle"
    <2>1. CASE pc[w] # "idle"
      BY <1>2, <2>1 DEF Alone, OneAtWork
    <2>2. CASE pc[w] = "idle"
      <3>1. StartAppend(w)
        BY <2>2 DEF Idles, Moves, Creates, Stat, BackupMissing, BackupExists, RotateFails,
              Abort, RenameBackup, MoveLog, Touch, Open, Write, Goto
      <3> QED BY <3>1 DEF StartAppend
    <2> QED BY <2>1, <2>2
  <1> QED BY <1>1, <1>2, <1>3 DEF Own

(* So that what is asked of all writers is asked of one.                   *)
LEMMA AloneFrom ==
  ASSUME NEW w \in Writer, \A v \in Writer : v # w => pc'[v] = "idle",
         pc'[w] = "write" => fd'[w] = name'[0],
         pc'[w] \in Rotating => name'[0] # Absent /\ Size(0)' >= MaxSize,
         pc'[w] \in Rotating /\ idx'[w] < MaxBackups - 1 => name'[idx'[w] + 1] = Absent,
         FullBackups', Ordered', LostAreOlder', EnoughKept'
  PROVE  Alone'
  <1>1. OneAtWork'
    BY DEF OneAtWork
  <1>2. OpenIsLog' /\ FullLog' /\ Gap'
    BY DEF OpenIsLog, FullLog, Gap, Rotating
  <1> QED BY <1>1, <1>2 DEF Alone

LEMMA IdlesAlone ==
  ASSUME CInv, NEW w \in Writer, Idles(w), ~overlapped'
  PROVE  Alone'
  <1>1. /\ ~overlapped /\ Alone /\ CTypes
        /\ \A v \in Writer : v # w => pc[v] = "idle" /\ pc'[v] = "idle"
    BY OthersIdle DEF CInv
  <1>2. UNCHANGED <<name, content, written>>
    BY DEF Idles, StartAppend, Stat, BackupMissing, BackupExists, RotateFails, Abort
  <1>3. FullBackups' /\ Ordered' /\ LostAreOlder' /\ EnoughKept'
    BY <1>1, <1>2 DEF Alone, FullBackups, Ordered, LostAreOlder, EnoughKept, Lost, Kept, Size
  <1>4. /\ pc \in [Writer -> Locations] /\ idx \in [Writer -> Names]
        /\ pc[w] \in Rotating => name[0] # Absent /\ Size(0) >= MaxSize
        /\ pc[w] \in Rotating /\ idx[w] < MaxBackups - 1 => name[idx[w] + 1] = Absent
    BY <1>1 DEF CTypes, TypeOK, Alone, FullLog, Gap
  <1>5. Size(0)' = Size(0) /\ name' = name
    BY <1>2 DEF Size
  <1>6. /\ pc'[w] # "write"
        /\ pc'[w] \in Rotating => name[0] # Absent /\ Size(0) >= MaxSize
        /\ pc'[w] \in Rotating /\ idx'[w] < MaxBackups - 1 => name[idx'[w] + 1] = Absent
    <2>1. CASE StartAppend(w)
      BY <1>4, <2>1 DEF StartAppend, Goto, Rotating
    <2>2. CASE Stat(w)
      <3>1. pc' = [pc EXCEPT ![w] = IF name[0] = Absent THEN "idle"
                               ELSE IF Size(0) < MaxSize THEN "open"
                               ELSE IF MaxBackups = 1 THEN "move" ELSE "exists"]
            /\ idx' = [idx EXCEPT ![w] = MaxBackups - 1]
        BY <2>2 DEF Stat
      <3>2. pc'[w] \in {"idle", "open", "move", "exists"} /\ idx'[w] = MaxBackups - 1
        BY <1>4, <3>1
      <3>3. pc'[w] \in Rotating => name[0] # Absent /\ ~(Size(0) < MaxSize)
        BY <1>4, <3>1 DEF Rotating
      <3>4. name[0] # Absent => Size(0) \in Nat
        BY <1>1, Bounds, FilesFinite
      <3> QED BY <3>2, <3>3, <3>4, Bounds
    <2>3. CASE BackupMissing(w)
      <3>1. pc[w] = "exists" /\ name[idx[w]] = Absent /\ NextIndex(w)
        BY <2>3 DEF BackupMissing
      <3>2. /\ idx'[w] = idx[w] - 1 /\ idx[w] \in 1 .. MaxBackups - 1
            /\ pc'[w] = IF idx[w] = 1 THEN "move" ELSE "exists"
        BY <1>1, <3>1, NextIndexTypes
      <3>3. idx'[w] + 1 = idx[w]
        BY <3>2, Bounds
      <3> QED BY <1>4, <3>1, <3>2, <3>3 DEF Rotating
    <2>4. CASE BackupExists(w)
      BY <1>4, <2>4 DEF BackupExists, Goto, Rotating
    <2>5. CASE RotateFails(w)
      BY <1>4, <2>5 DEF RotateFails, Rotating
    <2>6. CASE Abort(w)
      BY <1>4, <2>6 DEF Abort, Rotating
    <2> QED BY <2>1, <2>2, <2>3, <2>4, <2>5, <2>6 DEF Idles
  <1> QED BY <1>1, <1>3, <1>5, <1>6, AloneFrom

LEMMA CreatesAlone ==
  ASSUME CInv, NEW w \in Writer, Creates(w), ~overlapped'
  PROVE  Alone'
  <1>1. /\ ~overlapped /\ Alone /\ CTypes
        /\ \A v \in Writer : v # w => pc[v] = "idle" /\ pc'[v] = "idle"
    BY OthersIdle DEF CInv
  <1>2. Created /\ written' = written
    BY DEF Creates, Touch, Open
  <1>3. /\ name'[0] \in Inodes' /\ name'[0] # Absent /\ 0 \in Names
        /\ \A n \in Names \ {0} : name'[n] = name[n]
        /\ name[0] # Absent => name' = name /\ content' = content
        /\ \A i \in Inodes : content'[i] = content[i]
        /\ \A i \in Inodes' \ Inodes : content'[i] = {}
        /\ name[0] = Absent => name'[0] \notin Inodes
    BY <1>1, <1>2, CreatedTypes, Bounds
  <1>4. \A n \in Names : name[n] # Absent => name[n] \in Inodes
    BY <1>1, FilesFinite
  <1>5. \A n \in Names : /\ name[n] # Absent => name'[n] = name[n] /\ content'[name'[n]] = content[name[n]]
                         /\ name[n] = Absent /\ name'[n] # Absent => n = 0 /\ content'[name'[n]] = {}
    BY <1>3, <1>4
  <1>6. Kept' = Kept
    <2>1. \A r : r \in Kept' <=> r \in Kept
      BY <1>5, KeptIs
    <2> QED BY <2>1
  <1>7. LostAreOlder' /\ EnoughKept'
    BY <1>1, <1>2, <1>6 DEF Alone, LostAreOlder, EnoughKept, Lost
  <1>8. FullBackups'
    BY <1>1, <1>5 DEF Alone, FullBackups, Size
  <1>9. Ordered'
    BY <1>1, <1>5 DEF Alone, Ordered
  <1>10. pc'[w] \in {"open", "write"} /\ (pc'[w] = "write" => fd'[w] = name'[0])
    BY <1>1 DEF Creates, Touch, Open, Goto, CTypes, TypeOK
  <1> QED BY <1>1, <1>7, <1>8, <1>9, <1>10, AloneFrom DEF Rotating

LEMMA WriteAlone ==
  ASSUME CInv, NEW w \in Writer, Write(w), ~overlapped'
  PROVE  Alone'
  <1>1. /\ ~overlapped /\ Alone /\ CTypes
        /\ \A v \in Writer : v # w => pc[v] = "idle" /\ pc'[v] = "idle"
    BY OthersIdle DEF CInv
  <1>2. /\ written' = written + 1 /\ fd[w] \in Inodes
        /\ \A i \in Inodes : content'[i] = IF i = fd[w] THEN content[i] \cup {written'} ELSE content[i]
    BY <1>1, WriteTypes
  <1>3. name' = name /\ pc[w] = "write" /\ pc'[w] = "idle"
    BY <1>1 DEF Write, Goto, CTypes, TypeOK
  <1>4. fd[w] = name[0] /\ name[0] # Absent /\ 0 \in Names
    BY <1>1, <1>3, Bounds DEF Alone, OpenIsLog, CTypes, Places
  <1>5. \A n \in Names : name[n] # Absent =>
          /\ name[n] \in Inodes /\ content[name[n]] \subseteq 1 .. written
          /\ IsFiniteSet(content[name[n]])
    BY <1>1, FilesFinite
  <1>6. /\ content'[name[0]] = content[name[0]] \cup {written'}
        /\ \A n \in Names \ {0} : name[n] # Absent => content'[name[n]] = content[name[n]]
    BY <1>1, <1>2, <1>4, <1>5 DEF CTypes, OwnFiles
  <1>7. Kept' = Kept \cup {written'}
    <2>1. \A r : r \in Kept' <=> r \in Kept \/ r = written'
      BY <1>3, <1>4, <1>6, KeptIs
    <2> QED BY <2>1
  <1>8. written \in Nat /\ written' \in Nat /\ Kept \subseteq 1 .. MaxRecords
    BY <1>1, <1>2, FilesFinite
  <1>9. Lost' = Lost
    <2>1. 1 .. written' = (1 .. written) \cup {written'}
      BY <1>2, <1>8
    <2>2. Kept \subseteq 1 .. written
      BY <1>5, KeptIs
    <2>3. written' \notin 1 .. written
      BY <1>2, <1>8
    <2> QED BY <1>7, <2>1, <2>2, <2>3 DEF Lost
  <1>10. LostAreOlder'
    <2>1. \A l \in Lost : l < written'
      BY <1>2, <1>8 DEF Lost
    <2> QED BY <1>1, <1>7, <1>9, <2>1 DEF Alone, LostAreOlder
  <1>11. EnoughKept'
    <2>1. IsFiniteSet(Kept) /\ IsFiniteSet(Kept')
      BY <1>1, <1>7, FilesFinite, FS_AddElement
    <2>2. Cardinality(Kept) <= Cardinality(Kept') /\ Cardinality(Kept) \in Nat /\ Cardinality(Kept') \in Nat
      BY <1>7, <2>1, FS_Subset, FS_CardinalityType
    <2> QED BY <1>1, <1>9, <2>2, Bounds DEF Alone, EnoughKept
  <1>12. FullBackups'
    BY <1>1, <1>3, <1>6 DEF Alone, FullBackups, Size
  <1>13. Ordered'
    <2> SUFFICES ASSUME NEW m \in Names, NEW n \in Names, m < n,
                        name[m] # Absent, name[n] # Absent,
                        NEW r \in content'[name[m]], NEW t \in content'[name[n]]
                 PROVE  t < r
      BY <1>3 DEF Ordered
    <2>1. n # 0
      BY DEF Names
    <2>2. t \in content[name[n]] /\ t \in 1 .. written
      BY <1>5, <1>6, <2>1
    <2>3. CASE r \in content[name[m]]
      BY <1>1, <2>2, <2>3 DEF Alone, Ordered
    <2>4. CASE r = written'
      BY <1>2, <1>8, <2>2, <2>4
    <2>5. r \in content[name[m]] \/ r = written'
      BY <1>6
    <2> QED BY <2>3, <2>4, <2>5
  <1> QED BY <1>1, <1>3, <1>10, <1>11, <1>12, <1>13, AloneFrom DEF Rotating

(* A rename onto an existing file loses that file's records: only the last *)
(* backup's, the oldest there are, and not before two files are full.      *)
LEMMA MovesAlone ==
  ASSUME CInv, NEW w \in Writer, Moves(w), ~overlapped'
  PROVE  Alone'
  <1> DEFINE i == idx[w]
  <1>1. /\ ~overlapped /\ Alone /\ CTypes
        /\ \A v \in Writer : v # w => pc[v] = "idle" /\ pc'[v] = "idle"
    BY OthersIdle DEF CInv
  <1>2. /\ pc[w] \in Rotating /\ i \in 0 .. MaxBackups - 1 /\ i \in Names /\ i + 1 \in Names
        /\ name[i] # Absent /\ content' = content /\ written' = written
        /\ pc'[w] \in {"exists", "move"} => idx'[w] = i - 1 /\ i # 0
        /\ pc'[w] \in {"exists", "move", "touch"}
    BY <1>1, MovesIs
  <1>3. /\ name'[i] = Absent /\ name'[i + 1] = name[i]
        /\ \A n \in Names \ {i, i + 1} : name'[n] = name[n]
    BY <1>1, MovesIs, RenamedTypes
  <1>4. \A n \in Names : name[n] # Absent =>
          /\ name[n] \in Inodes /\ content[name[n]] \subseteq 1 .. written
          /\ IsFiniteSet(content[name[n]]) /\ Size(n) \in Nat
    BY <1>1, FilesFinite
  <1>5. /\ name[0] # Absent /\ Size(0) >= MaxSize
        /\ i < MaxBackups - 1 => name[i + 1] = Absent
    BY <1>1, <1>2 DEF Alone, FullLog, Gap
  <1>6. MaxBackups \in Nat \ {0} /\ MaxSize \in Nat \ {0} /\ 0 \in Names /\ Names = 0 .. MaxBackups
    BY Bounds DEF Names
  <1> HIDE DEF i
  <1>7. name[i + 1] # Absent => i = MaxBackups - 1
    BY <1>2, <1>5, <1>6
  <1>8. \A r : r \in Kept' <=> \E n \in Names : n # i + 1 /\ name[n] # Absent /\ r \in content[name[n]]
    <2>1. i # i + 1
      BY <1>2
    <2>2. ASSUME NEW r, r \in Kept'
          PROVE  \E n \in Names : n # i + 1 /\ name[n] # Absent /\ r \in content[name[n]]
      <3>1. PICK n \in Names : name'[n] # Absent /\ r \in content'[name'[n]]
        BY <2>2, KeptIs
      <3>2. CASE n = i + 1
        BY <1>2, <1>3, <2>1, <3>1, <3>2
      <3>3. CASE n # i + 1
        BY <1>2, <1>3, <3>1, <3>3
      <3> QED BY <3>2, <3>3
    <2>3. ASSUME NEW r, NEW n \in Names, n # i + 1, name[n] # Absent, r \in content[name[n]]
          PROVE  r \in Kept'
      <3>1. CASE n = i
        BY <1>2, <1>3, <2>3, <3>1, KeptIs
      <3>2. CASE n # i
        BY <1>2, <1>3, <2>3, <3>2, KeptIs
      <3> QED BY <3>1, <3>2
    <2> QED BY <2>2, <2>3
  <1>9. Kept' \subseteq Kept
    BY <1>8, KeptIs
  <1>10. \A r \in Kept \ Kept' : i = MaxBackups - 1 /\ name[i + 1] # Absent /\ r \in content[name[i + 1]]
    <2>1. ASSUME NEW r \in Kept \ Kept' PROVE name[i + 1] # Absent /\ r \in content[name[i + 1]]
      BY <1>8, <2>1, KeptIs
    <2> QED BY <1>7, <2>1
  <1>11. LostAreOlder'
    <2> SUFFICES ASSUME NEW l \in Lost', NEW k \in Kept' PROVE l < k
      BY DEF LostAreOlder
    <2>1. k \in Kept /\ l \in 1 .. written
      BY <1>2, <1>9 DEF Lost
    <2>2. CASE l \in Lost
      BY <1>1, <2>1, <2>2 DEF Alone, LostAreOlder
    <2>3. CASE l \notin Lost
      <3>1. l \in Kept \ Kept'
        BY <2>1, <2>3 DEF Lost
      <3>2. i = MaxBackups - 1 /\ name[i + 1] # Absent /\ l \in content[name[i + 1]]
        BY <1>10, <3>1
      <3>3. PICK n \in Names : n # i + 1 /\ name[n] # Absent /\ k \in content[name[n]]
        BY <1>8
      <3>4. n < i + 1
        BY <1>6, <3>2, <3>3
      <3> QED BY <1>1, <1>2, <3>2, <3>3, <3>4 DEF Alone, Ordered
    <2> QED BY <2>2, <2>3
  <1>12. ASSUME Kept' # Kept
         PROVE  Cardinality(Kept') >= IF MaxBackups = 1 THEN MaxSize ELSE 2 * MaxSize
    <2>1. i = MaxBackups - 1
      BY <1>9, <1>10, <1>12
    <2>2. Kept \subseteq 1 .. MaxRecords /\ IsFiniteSet(Kept') /\ Cardinality(Kept') \in Nat
      BY <1>1, <1>9, FilesFinite, FS_Subset, FS_CardinalityType
    <2>3. 0 # i + 1 /\ i # i + 1
      BY <1>2
    <2>4. content[name[0]] \subseteq Kept' /\ content[name[i]] \subseteq Kept'
      BY <1>2, <1>5, <1>6, <1>8, <2>3
    <2>5. CASE i = 0
      <3>1. Cardinality(content[name[0]]) <= Cardinality(Kept')
        BY <2>2, <2>4, FS_Subset
      <3>2. MaxBackups = 1
        BY <1>6, <2>1, <2>5
      <3> QED BY <1>4, <1>5, <1>6, <2>2, <3>1, <3>2 DEF Size
    <2>6. CASE i # 0
      <3> DEFINE A == content[name[0]]
                 B == content[name[i]]
      <3>1. IsFiniteSet(A) /\ IsFiniteSet(B) /\ Cardinality(A) \in Nat /\ Cardinality(B) \in Nat
        BY <1>2, <1>4, <1>5, <1>6 DEF Size
      <3>2. Cardinality(A) >= MaxSize /\ Cardinality(B) >= MaxSize
        BY <1>1, <1>2, <1>5, <2>6 DEF Alone, FullBackups, Size
      <3>3. A \cap B = {}
        <4>1. 0 < i
          BY <1>2, <2>6
        <4>2. \A r \in A, t \in B : t < r /\ t \in Nat /\ r \in Nat
          <5>1. \A r \in A, t \in B : t < r
            BY <1>1, <1>2, <1>5, <1>6, <4>1 DEF Alone, Ordered
          <5>2. A \subseteq 1 .. written /\ B \subseteq 1 .. written
            BY <1>2, <1>4, <1>5, <1>6
          <5> QED BY <5>1, <5>2
        <4> HIDE DEF A, B
        <4> QED BY <4>2
      <3>4. A \cup B \subseteq Kept'
        BY <2>4
      <3> HIDE DEF A, B
      <3>5. Cardinality(A \cup B) = Cardinality(A) + Cardinality(B)
        <4>1. Cardinality(A \cup B) = Cardinality(A) + Cardinality(B) - Cardinality(A \cap B)
          BY <3>1, FS_Union
        <4>2. Cardinality(A \cap B) = 0
          BY <3>3, FS_EmptySet
        <4> QED BY <3>1, <4>1, <4>2
      <3>6. Cardinality(A \cup B) <= Cardinality(Kept')
        BY <2>2, <3>4, FS_Subset
      <3>7. MaxBackups # 1
        BY <1>6, <2>1, <2>6
      <3> QED BY <1>6, <2>2, <3>1, <3>2, <3>5, <3>6, <3>7
    <2> QED BY <2>5, <2>6
  <1>13. EnoughKept'
    <2>1. CASE Kept' = Kept
      BY <1>1, <1>2, <2>1 DEF Alone, EnoughKept, Lost
    <2>2. CASE Kept' # Kept
      BY <1>12, <2>2 DEF EnoughKept
    <2> QED BY <2>1, <2>2
  <1>14. FullBackups'
    <2> SUFFICES ASSUME NEW n \in Names \ {0}, name'[n] # Absent
                 PROVE  Cardinality(content[name'[n]]) >= MaxSize
      BY <1>2 DEF FullBackups, Size
    <2>1. CASE n = i + 1
      <3>1. Size(i) >= MaxSize
        BY <1>1, <1>2, <1>5 DEF Alone, FullBackups
      <3> QED BY <1>3, <2>1, <3>1 DEF Size
    <2>2. CASE n # i + 1
      <3>1. name'[n] = name[n]
        BY <1>3, <2>2
      <3> QED BY <1>1, <3>1 DEF Alone, FullBackups, Size
    <2> QED BY <2>1, <2>2
  <1>15. Ordered'
    <2> SUFFICES ASSUME NEW m \in Names, NEW n \in Names, m < n,
                        name'[m] # Absent, name'[n] # Absent,
                        NEW r \in content[name'[m]], NEW t \in content[name'[n]]
                 PROVE  t < r
      BY <1>2 DEF Ordered
    <2>1. m # i /\ n # i
      BY <1>3
    <2>2. CASE m = i + 1
      <3>1. i < n /\ n # i + 1
        BY <1>2, <1>6, <2>2
      <3>2. name'[m] = name[i] /\ name'[n] = name[n]
        BY <1>3, <2>1, <2>2, <3>1
      <3> QED BY <1>1, <1>2, <3>1, <3>2 DEF Alone, Ordered
    <2>3. CASE n = i + 1
      <3>1. m < i /\ m # i + 1
        BY <1>2, <1>6, <2>1, <2>3
      <3>2. name'[m] = name[m] /\ name'[n] = name[i]
        BY <1>3, <2>1, <2>3, <3>1
      <3> QED BY <1>1, <1>2, <3>1, <3>2 DEF Alone, Ordered
    <2>4. CASE m # i + 1 /\ n # i + 1
      <3>1. name'[m] = name[m] /\ name'[n] = name[n]
        BY <1>3, <2>1, <2>4
      <3> QED BY <1>1, <3>1 DEF Alone, Ordered
    <2> QED BY <2>2, <2>3, <2>4
  <1>16. pc'[w] \in Rotating => name'[0] # Absent /\ Size(0)' >= MaxSize
    <2> SUFFICES ASSUME pc'[w] \in {"exists", "move"} PROVE name'[0] # Absent /\ Size(0)' >= MaxSize
      BY <1>2 DEF Rotating
    <2>1. 0 \notin {i, i + 1}
      BY <1>2
    <2>2. name'[0] = name[0] /\ content' = content
      BY <1>2, <1>3, <1>6, <2>1
    <2> QED BY <1>5, <2>2 DEF Size
  <1>17. pc'[w] \in Rotating /\ idx'[w] < MaxBackups - 1 => name'[idx'[w] + 1] = Absent
    <2> SUFFICES ASSUME pc'[w] \in {"exists", "move"} PROVE name'[idx'[w] + 1] = Absent
      BY <1>2 DEF Rotating
    <2>1. idx'[w] + 1 = i
      BY <1>2
    <2> QED BY <1>3, <2>1
  <1> QED BY <1>1, <1>2, <1>11, <1>13, <1>14, <1>15, <1>16, <1>17, AloneFrom

-----------------------------------------------------------------------------
LEMMA InitHolds == ASSUME Init PROVE CInv
  <1>1. /\ name = [n \in Names |-> Absent] /\ content = <<>> /\ written = 0
        /\ pc = [w \in Writer |-> "idle"] /\ idx = [w \in Writer |-> 0]
        /\ fd = [w \in Writer |-> Absent] /\ overlapped = FALSE /\ ioError = FALSE
    BY DEF Init
  <1>2. TypeOK
    <2>1. overlapped \in BOOLEAN /\ ioError \in BOOLEAN
      BY <1>1, Zenon
    <2>2. /\ content \in Seq(SUBSET (1 .. MaxRecords)) /\ name \in [Names -> Inodes \cup {Absent}]
          /\ fd \in [Writer -> Inodes \cup {Absent}]
      BY <1>1
    <2>3. pc \in [Writer -> Locations] /\ idx \in [Writer -> Names] /\ written \in 0 .. MaxRecords
      BY <1>1, Bounds DEF Locations
    <2> QED BY <2>1, <2>2, <2>3 DEF TypeOK
  <1>3. Places /\ OwnFiles
    BY <1>1 DEF Places, OwnFiles
  <1>4. Known
    <2>1. Inodes = {}
      BY <1>1 DEF Inodes
    <2> QED BY <2>1 DEF Known
  <1>5. Kept = {} /\ Lost = {}
    <2>1. Kept = {}
      BY <1>1, KeptIs
    <2> QED BY <1>1, <2>1 DEF Lost
  <1>6. /\ OneAtWork /\ OpenIsLog /\ FullLog /\ FullBackups /\ Gap /\ Ordered
    BY <1>1 DEF OneAtWork, OpenIsLog, FullLog, FullBackups, Gap, Ordered, Rotating
  <1>7. LostAreOlder /\ EnoughKept
    BY <1>5 DEF LostAreOlder, EnoughKept
  <1> QED BY <1>2, <1>3, <1>4, <1>6, <1>7 DEF CInv, CTypes, Alone

LEMMA Inductive == ASSUME CInv, [Next]_vars PROVE CInv'
  <1>1. CTypes'
    BY TypesStay DEF CInv
  <1>2. CASE UNCHANGED vars
    <2>1. ~overlapped' => Alone'
      BY <1>2 DEF vars, CInv, Alone, OneAtWork, OpenIsLog, FullLog, FullBackups, Gap, Ordered,
                  LostAreOlder, EnoughKept, Lost, Kept, Size
    <2> QED BY <1>1, <2>1 DEF CInv
  <1>3. CASE Next
    <2>1. ~overlapped' => Alone'
      BY <1>3, NextIs, IdlesAlone, MovesAlone, CreatesAlone, WriteAlone
    <2> QED BY <1>1, <2>1 DEF CInv
  <1> QED BY <1>2, <1>3

LEMMA Always == Spec => []CInv
  <1>1. Init => CInv
    BY InitHolds
  <1>2. CInv /\ [Next]_vars => CInv'
    BY Inductive
  <1> QED BY <1>1, <1>2, PTL DEF Spec

(* Names, files, indices and open files keep their types, however the      *)
(* appends of several processes interleave and wherever they die.          *)
THEOREM TypeCorrect == Spec => []TypeOK
  <1>1. CInv => TypeOK
    BY DEF CInv, CTypes
  <1> QED BY <1>1, Always, PTL

(* As long as no two appends have overlapped, a higher backup number means *)
(* older records, wherever the rotations of rotate stop.                   *)
THEOREM OrderHolds == Spec => []BackupsInOrder
  <1>1. CInv => BackupsInOrder
    BY DEF CInv, Alone, Ordered, BackupsInOrder
  <1> QED BY <1>1, Always, PTL

(* As long as no two appends have overlapped, rotation loses only records  *)
(* older than all it keeps, and none before two files of newer ones are    *)
(* full (one when there is one backup), however many rotations fail.       *)
THEOREM RetentionHolds == Spec => []RetentionIsSuffix
  <1>1. CInv => RetentionIsSuffix
    BY DEF CInv, Alone, LostAreOlder, EnoughKept, RetentionIsSuffix
  <1> QED BY <1>1, Always, PTL


-----------------------------------------------------------------------------
(* The limit of the files, however the rotations interleave.               *)

(* The renames the backups still have before them: one for every number    *)
(* above a backup's own.                                                   *)
LeftOf(names) ==
    {x \in (Nat \ {0}) \X (2 .. MaxBackups) :
        \E n \in 1 .. MaxBackups - 1 : names[n] = x[1] /\ n < x[2]}

Left == Cardinality(LeftOf(name))

(* The writers that will append to the log though it is full, unless they  *)
(* die: they have looked at its size, or their rotation is spoiled.        *)
Due ==
    {w \in Writer :
        \/ pc[w] \in {"touch", "open"}
        \/ pc[w] = "write" /\ fd[w] = name[0]
        \/ pc[w] = "rename" /\ name[idx[w]] = Absent}

Late(n) == {w \in Writer : pc[w] = "write" /\ fd[w] = name[n]}

Others == Cardinality(Writer) - 1

(* A rename makes every other writer due at most once more, and uses up    *)
(* one of those left.                                                      *)
LogWithin ==
    name[0] # Absent =>
        Size(0) + Cardinality(Due) <= MaxSize + Others * (Spoilers - Left)

BackupsWithin ==
    \A n \in Names \ {0} :
        name[n] # Absent =>
            Size(n) + Cardinality(Late(n)) <= MaxSize + Spoilers * Others

(* Files come from writers: without any the bound would mean nothing.      *)
Authored == (\E n \in Names : name[n] # Absent) => \E w \in Writer : TRUE

Within == Authored /\ (~ioError => LogWithin /\ BackupsWithin)

LEMMA Halved ==
  ASSUME NEW M \in Nat, NEW half \in Nat, M * M = 2 * half + M
  PROVE  M * (M - 1) = 2 * half
  <1>1. M * (M - 1) = M * M - M
    OBVIOUS
  <1> DEFINE square == M * M
  <1>2. square = 2 * half + M /\ M * (M - 1) = square - M
    BY <1>1
  <1> HIDE DEF square
  <1> QED BY <1>2

(* The pairs of different numbers, half of them with the greater first.    *)
LEMMA PairsCount ==
  ASSUME NEW M \in Nat
  PROVE  LET Up == {x \in (1 .. M) \X (1 .. M) : x[1] < x[2]}
         IN  IsFiniteSet(Up) /\ Cardinality(Up) \in Nat /\ M * (M - 1) = 2 * Cardinality(Up)
  <1> DEFINE All  == (1 .. M) \X (1 .. M)
             Up   == {x \in All : x[1] < x[2]}
             Down == {x \in All : x[2] < x[1]}
             Same == {x \in All : x[1] = x[2]}
  <1>1. IsFiniteSet(1 .. M) /\ Cardinality(1 .. M) = M
    BY FS_Interval
  <1>2. IsFiniteSet(All) /\ Cardinality(All) = M * M
    BY <1>1, FS_Product, Zenon
  <1>3. IsFiniteSet(Up) /\ IsFiniteSet(Down) /\ IsFiniteSet(Same)
    <2>1. Up \in SUBSET All /\ Down \in SUBSET All /\ Same \in SUBSET All
      OBVIOUS
    <2> HIDE DEF All, Up, Down, Same
    <2> QED BY <1>2, <2>1, FS_Subset
  <1>4. Cardinality(Down) = Cardinality(Up)
    <2> DEFINE swap == [x \in Up |-> <<x[2], x[1]>>]
    <2>1. swap \in [Up -> Down]
      OBVIOUS
    <2>2. \A x, y \in Up : swap[x] = swap[y] => x = y
      OBVIOUS
    <2>3. \A y \in Down : <<y[2], y[1]>> \in Up /\ swap[<<y[2], y[1]>>] = y
      OBVIOUS
    <2>4. swap \in Bijection(Up, Down)
      <3> HIDE DEF swap, Up, Down
      <3>1. swap \in Injection(Up, Down)
        BY <2>1, <2>2 DEF Injection, IsInjective
      <3>2. swap \in Surjection(Up, Down)
        BY <2>1, <2>3 DEF Surjection
      <3> QED BY <3>1, <3>2 DEF Bijection
    <2>5. ExistsBijection(Up, Down)
      BY <2>4, Zenon DEF ExistsBijection
    <2> HIDE DEF Up, Down, swap
    <2> QED BY <1>3, <2>5, FS_Bijection
  <1>5. Cardinality(Same) = M
    <2> DEFINE twice == [i \in 1 .. M |-> <<i, i>>]
    <2>1. twice \in [1 .. M -> Same]
      OBVIOUS
    <2>2. \A i, j \in 1 .. M : twice[i] = twice[j] => i = j
      OBVIOUS
    <2>3. \A y \in Same : y[1] \in 1 .. M /\ twice[y[1]] = y
      OBVIOUS
    <2>4. twice \in Bijection(1 .. M, Same)
      <3> HIDE DEF twice, Same
      <3>1. twice \in Injection(1 .. M, Same)
        BY <2>1, <2>2 DEF Injection, IsInjective
      <3>2. twice \in Surjection(1 .. M, Same)
        BY <2>1, <2>3 DEF Surjection
      <3> QED BY <3>1, <3>2 DEF Bijection
    <2>5. ExistsBijection(1 .. M, Same)
      BY <2>4, Zenon DEF ExistsBijection
    <2> HIDE DEF Same, twice
    <2> QED BY <1>1, <2>5, FS_Bijection
  <1>6. Cardinality(Up \cup Down) = 2 * Cardinality(Up) /\ IsFiniteSet(Up \cup Down)
    <2>1. Up \cap Down = {}
      OBVIOUS
    <2> HIDE DEF Up, Down
    <2>2. Cardinality(Up) \in Nat
      BY <1>3, FS_CardinalityType
    <2> QED BY <1>3, <1>4, <2>1, <2>2, FS_Union, FS_EmptySet
  <1>7. Cardinality(All) = 2 * Cardinality(Up) + M
    <2>1. (Up \cup Down) \cap Same = {} /\ (Up \cup Down) \cup Same = All
      OBVIOUS
    <2> HIDE DEF All, Up, Down, Same
    <2>2. Cardinality(Up) \in Nat
      BY <1>3, FS_CardinalityType
    <2> DEFINE Both == Up \cup Down
    <2>3. Both \cap Same = {} /\ Both \cup Same = All /\ IsFiniteSet(Both)
          /\ Cardinality(Both) = 2 * Cardinality(Up)
      BY <1>6, <2>1
    <2> HIDE DEF Both
    <2>4. Cardinality(Both \cup Same) =
              Cardinality(Both) + Cardinality(Same) - Cardinality(Both \cap Same)
      BY <1>3, <2>3, FS_Union
    <2>5. Cardinality(All) = Cardinality(Both) + Cardinality(Same) - 0
      BY <2>3, <2>4, FS_EmptySet, Zenon
    <2>6. Cardinality(Both) + Cardinality(Same) - 0 = 2 * Cardinality(Up) + M
      BY <1>5, <2>2, <2>3
    <2> QED BY <2>5, <2>6
  <1>8. Cardinality(Up) \in Nat
    BY <1>3, FS_CardinalityType, Zenon
  <1> HIDE DEF All, Up, Down, Same
  <1>9. M * M = 2 * Cardinality(Up) + M
    BY <1>2, <1>7
  <1>10. M * (M - 1) = 2 * Cardinality(Up)
    BY <1>8, <1>9, Halved
  <1> QED BY <1>3, <1>8, <1>10 DEF Up, All

LEMMA SpoilersIs ==
  Spoilers \in Nat \ {0}
  /\ LET Up == {x \in (1 .. MaxBackups) \X (1 .. MaxBackups) : x[1] < x[2]}
     IN  IsFiniteSet(Up) /\ Cardinality(Up) = Spoilers - 1
  <1> DEFINE Up == {x \in (1 .. MaxBackups) \X (1 .. MaxBackups) : x[1] < x[2]}
  <1>1. IsFiniteSet(Up) /\ Cardinality(Up) \in Nat
        /\ MaxBackups * (MaxBackups - 1) = 2 * Cardinality(Up)
    BY Bounds, PairsCount
  <1> HIDE DEF Up
  <1>2. PICK half \in Nat : half = Cardinality(Up)
    BY <1>1
  <1>3. (2 * half) \div 2 = half
    OBVIOUS
  <1>4. Spoilers = 1 + half
    BY <1>1, <1>2, <1>3 DEF Spoilers
  <1> QED BY <1>1, <1>2, <1>4 DEF Up

(* The renames that are left are at most as many as such pairs.            *)
LEMMA LeftBound ==
  ASSUME NEW names \in [Names -> Nat],
         \A m, n \in Names : m # n /\ names[m] # Absent => names[m] # names[n]
  PROVE  IsFiniteSet(LeftOf(names)) /\ Cardinality(LeftOf(names)) \in 0 .. Spoilers - 1
  <1> DEFINE Up == {x \in (1 .. MaxBackups) \X (1 .. MaxBackups) : x[1] < x[2]}
             At(i) == CHOOSE n \in 1 .. MaxBackups - 1 : names[n] = i
             place == [x \in LeftOf(names) |-> <<At(x[1]), x[2]>>]
  <1>1. IsFiniteSet(Up) /\ Cardinality(Up) = Spoilers - 1
    BY SpoilersIs
  <1>2. ASSUME NEW x \in LeftOf(names)
        PROVE  /\ x[1] # Absent /\ x[2] \in 2 .. MaxBackups /\ x = <<x[1], x[2]>>
               /\ At(x[1]) \in 1 .. MaxBackups - 1 /\ names[At(x[1])] = x[1] /\ At(x[1]) < x[2]
    <2>1. /\ x[1] # Absent /\ x[2] \in 2 .. MaxBackups /\ x = <<x[1], x[2]>>
          /\ \E n \in 1 .. MaxBackups - 1 : names[n] = x[1] /\ n < x[2]
      BY DEF LeftOf, Absent
    <2>2. PICK n \in 1 .. MaxBackups - 1 : names[n] = x[1] /\ n < x[2]
      BY <2>1
    <2>3. At(x[1]) \in 1 .. MaxBackups - 1 /\ names[At(x[1])] = x[1]
      BY <2>2
    <2> HIDE DEF At
    <2>4. n \in Names /\ At(x[1]) \in Names
      BY <2>2, <2>3, Bounds
    <2>5. At(x[1]) = n
      BY <2>1, <2>2, <2>3, <2>4
    <2> QED BY <2>1, <2>2, <2>3, <2>5
  <1> HIDE DEF At
  <1>3. place \in [LeftOf(names) -> Up]
    <2> SUFFICES ASSUME NEW x \in LeftOf(names) PROVE <<At(x[1]), x[2]>> \in Up
      OBVIOUS
    <2>1. At(x[1]) \in 1 .. MaxBackups /\ x[2] \in 1 .. MaxBackups /\ At(x[1]) < x[2]
      BY <1>2, Bounds
    <2> QED BY <2>1
  <1>4. \A x, y \in LeftOf(names) : place[x] = place[y] => x = y
    <2> SUFFICES ASSUME NEW x \in LeftOf(names), NEW y \in LeftOf(names), place[x] = place[y]
                 PROVE  x = y
      OBVIOUS
    <2>1. At(x[1]) = At(y[1]) /\ x[2] = y[2]
      OBVIOUS
    <2>2. x[1] = y[1]
      BY <1>2, <2>1
    <2> QED BY <1>2, <2>1, <2>2
  <1> HIDE DEF place, Up
  <1>5. place \in Injection(LeftOf(names), Up)
    BY <1>3, <1>4 DEF Injection, IsInjective
  <1>6. IsFiniteSet(LeftOf(names)) /\ Cardinality(LeftOf(names)) <= Cardinality(Up)
    BY <1>1, <1>5, FS_Injection
  <1>7. Cardinality(LeftOf(names)) \in Nat
    BY <1>6, FS_CardinalityType
  <1> QED BY <1>1, <1>6, <1>7, SpoilersIs

LEMMA WriterSets ==
  ASSUME IsFiniteSet(Writer), NEW w \in Writer, NEW S \in SUBSET Writer
  PROVE  /\ Others \in Nat /\ IsFiniteSet(S) /\ Cardinality(S) \in 0 .. Others + 1
         /\ w \notin S => Cardinality(S) <= Others
         /\ \A U \in SUBSET S : Cardinality(U) \in Nat /\ Cardinality(U) <= Cardinality(S)
         /\ w \in S => \A U \in SUBSET (S \ {w}) :
                           Cardinality(U) \in Nat /\ Cardinality(U) + 1 <= Cardinality(S)
  <1>1. Cardinality(Writer) \in Nat /\ Cardinality(Writer) # 0
    BY FS_CardinalityType, FS_EmptySet
  <1>2. IsFiniteSet(S) /\ Cardinality(S) <= Cardinality(Writer)
    BY FS_Subset
  <1>3. Cardinality(S) \in Nat
    BY <1>2, FS_CardinalityType
  <1>4. ASSUME NEW U \in SUBSET S
        PROVE  Cardinality(U) \in Nat /\ Cardinality(U) <= Cardinality(S)
    <2>1. IsFiniteSet(U) /\ Cardinality(U) <= Cardinality(S)
      BY <1>2, FS_Subset
    <2> QED BY <2>1, FS_CardinalityType
  <1>5. ASSUME w \in S, NEW U \in SUBSET (S \ {w})
        PROVE  Cardinality(U) \in Nat /\ Cardinality(U) + 1 <= Cardinality(S)
    <2>1. IsFiniteSet(S \ {w}) /\ Cardinality(S \ {w}) = Cardinality(S) - 1
      BY <1>2, <1>5, FS_RemoveElement
    <2>2. IsFiniteSet(U) /\ Cardinality(U) <= Cardinality(S \ {w})
      BY <2>1, FS_Subset
    <2>3. Cardinality(U) \in Nat
      BY <2>2, FS_CardinalityType
    <2> QED BY <1>3, <2>1, <2>2, <2>3
  <1>6. ASSUME w \notin S
        PROVE  Cardinality(S) <= Others
    <2>1. IsFiniteSet(Writer \ {w}) /\ Cardinality(Writer \ {w}) = Cardinality(Writer) - 1
      BY FS_RemoveElement
    <2>2. S \in SUBSET (Writer \ {w})
      BY <1>6
    <2> QED BY <2>1, <2>2, FS_Subset DEF Others
  <1> QED BY <1>1, <1>2, <1>3, <1>4, <1>5, <1>6 DEF Others

(* The three ways the limit of the log is kept.                            *)
LEMMA BelowLimit ==
  ASSUME IsFiniteSet(Writer), NEW w \in Writer, NEW S \in SUBSET Writer,
         NEW size \in Nat, size < MaxSize, NEW left \in 0 .. Spoilers - 1
  PROVE  size + Cardinality(S) <= MaxSize + Others * (Spoilers - left)
  <1>1. Others \in Nat /\ Cardinality(S) \in 0 .. Others + 1
    BY WriterSets
  <1>2. PICK rest \in Nat \ {0} : rest = Spoilers - left
    BY SpoilersIs
  <1>3. Others * rest >= Others
    BY <1>1
  <1>4. Others * rest \in Nat
    BY <1>1
  <1> DEFINE room == Others * rest
  <1> HIDE DEF room
  <1>5. room \in Nat /\ room >= Others
    BY <1>3, <1>4 DEF room
  <1>6. size + Cardinality(S) <= MaxSize + room
    BY <1>1, <1>5, Bounds
  <1> QED BY <1>2, <1>6 DEF room

LEMMA OneMore ==
  ASSUME IsFiniteSet(Writer), NEW w \in Writer, NEW S \in SUBSET (Writer \ {w}),
         NEW size \in Nat, NEW left \in 0 .. Spoilers - 1, NEW less \in 0 .. Spoilers - 1,
         less < left, size <= MaxSize + Others * (Spoilers - left)
  PROVE  size + Cardinality(S) <= MaxSize + Others * (Spoilers - less)
  <1>1. S \in SUBSET Writer /\ w \notin S
    OBVIOUS
  <1>2. Others \in Nat /\ Cardinality(S) \in Nat /\ Cardinality(S) <= Others
    BY <1>1, WriterSets
  <1>3. PICK a \in Nat : a = Spoilers - left
    BY SpoilersIs
  <1>4. PICK b \in Nat : b = Spoilers - less /\ b >= a + 1
    BY <1>3, SpoilersIs
  <1>5. Others * a \in Nat /\ Others * b \in Nat /\ Others * (a + 1) = Others * a + Others
    BY <1>2
  <1>6. Others * b >= Others * (a + 1)
    <2>1. PICK d \in Nat : b = a + 1 + d
      <3>1. b - (a + 1) \in Nat /\ b = a + 1 + (b - (a + 1))
        BY <1>4
      <3> QED BY <3>1
    <2>2. Others * (a + 1 + d) = Others * (a + 1) + Others * d /\ Others * d \in Nat
      BY <1>2
    <2> QED BY <1>2, <2>1, <2>2
  <1> DEFINE old == Others * a
             new == Others * b
  <1>7. old \in Nat /\ new \in Nat /\ new >= old + Others
    BY <1>5, <1>6
  <1>8. size <= MaxSize + old
    BY <1>3
  <1> HIDE DEF old, new
  <1>9. size + Cardinality(S) <= MaxSize + new
    BY <1>2, <1>7, <1>8, Bounds
  <1> QED BY <1>4, <1>9 DEF new

LEMMA AtMostAll ==
  ASSUME IsFiniteSet(Writer), NEW w \in Writer,
         NEW n \in Nat, NEW left \in 0 .. Spoilers - 1,
         n <= MaxSize + Others * (Spoilers - left)
  PROVE  n <= MaxSize + Spoilers * Others
  <1>1. Others \in Nat
    BY WriterSets
  <1>2. PICK all \in Nat : all = Spoilers
    BY SpoilersIs
  <1>3. Others * (all - left) = all * Others - Others * left /\ Others * left \in Nat
        /\ all * Others \in Nat
    BY <1>1, <1>2
  <1> DEFINE x == Others * (all - left)
             y == all * Others
             z == Others * left
  <1>4. x = y - z /\ z \in Nat /\ y \in Nat /\ n <= MaxSize + x
    BY <1>2, <1>3
  <1> HIDE DEF x, y, z
  <1>5. n <= MaxSize + y
    BY <1>4, Bounds
  <1> QED BY <1>2, <1>5 DEF y

(* What is known of sizes and of the writers that are due.                 *)
LEMMA Measures ==
  ASSUME CTypes, IsFiniteSet(Writer), NEW w \in Writer
  PROVE  /\ \A i \in Inodes : IsFiniteSet(content[i]) /\ Cardinality(content[i]) \in Nat
         /\ \A n \in Names : name[n] # Absent => name[n] \in Inodes /\ Size(n) \in Nat
         /\ Left \in 0 .. Spoilers - 1 /\ IsFiniteSet(LeftOf(name))
         /\ Others \in Nat /\ Due \in SUBSET Writer /\ Cardinality(Due) \in 0 .. Others + 1
         /\ \A n \in Names : Late(n) \in SUBSET Writer /\ Cardinality(Late(n)) \in Nat
  <1>1. ASSUME NEW i \in Inodes
        PROVE  IsFiniteSet(content[i]) /\ Cardinality(content[i]) \in Nat
    <2>1. IsFiniteSet(1 .. MaxRecords)
      BY Bounds, FS_Interval
    <2>2. content[i] \in SUBSET (1 .. MaxRecords)
      BY DEF CTypes, TypeOK, Inodes
    <2>3. IsFiniteSet(content[i])
      BY <2>1, <2>2, FS_Subset
    <2> QED BY <2>3, FS_CardinalityType
  <1>2. ASSUME NEW n \in Names, name[n] # Absent
        PROVE  name[n] \in Inodes /\ Size(n) \in Nat
    <2>1. name[n] \in Inodes
      BY <1>2 DEF CTypes, TypeOK
    <2> QED BY <1>1, <2>1 DEF Size
  <1>3. Left \in 0 .. Spoilers - 1 /\ IsFiniteSet(LeftOf(name))
    <2>1. name \in [Names -> Nat]
      <3>1. name \in [Names -> Inodes \cup {Absent}] /\ Inodes \cup {Absent} \subseteq Nat
        BY DEF CTypes, TypeOK, Inodes, Absent
      <3> QED BY <3>1
    <2>2. \A m, n \in Names : m # n /\ name[m] # Absent => name[m] # name[n]
      BY DEF CTypes, OwnFiles
    <2> QED BY <2>1, <2>2, LeftBound DEF Left
  <1>4. Due \in SUBSET Writer /\ \A n \in Names : Late(n) \in SUBSET Writer
    BY DEF Due, Late
  <1>5. \A S \in SUBSET Writer : Others \in Nat /\ Cardinality(S) \in 0 .. Others + 1
    BY WriterSets
  <1>6. \A S \in SUBSET Writer : Cardinality(S) \in Nat
    BY <1>5
  <1> QED BY <1>1, <1>2, <1>3, <1>4, <1>5, <1>6

-----------------------------------------------------------------------------
(* The steps keep the limit.                                               *)

(* A step that makes no writer due keeps it while the files stay.          *)
LEMMA NoneMoreDue ==
  ASSUME CTypes, IsFiniteSet(Writer), NEW w \in Writer,
         LogWithin, name'[0] = name[0],
         name[0] # Absent => content'[name[0]] = content[name[0]] /\ Due' \subseteq Due,
         \A n \in Names \ {0} : name'[n] = name[n]
  PROVE  LogWithin'
  <1> SUFFICES ASSUME name[0] # Absent
               PROVE  Size(0)' + Cardinality(Due') <= MaxSize + Others * (Spoilers - Left')
    BY DEF LogWithin, Others, Spoilers
  <1>1. Size(0)' = Size(0)
    BY DEF Size
  <1>2. Cardinality(Due') \in Nat /\ Cardinality(Due') <= Cardinality(Due)
        /\ Cardinality(Due) \in Nat
    BY Measures, WriterSets
  <1>3. Left' = Left
    <2>1. \A n \in 1 .. MaxBackups - 1 : name'[n] = name[n]
      BY Bounds
    <2>2. LeftOf(name') = LeftOf(name)
      BY <2>1 DEF LeftOf
    <2> QED BY <2>2 DEF Left
  <1> DEFINE limit == MaxSize + Others * (Spoilers - Left)
  <1>4. limit \in Nat /\ Size(0) + Cardinality(Due) <= limit /\ Size(0) \in Nat
    <2>1. Size(0) + Cardinality(Due) <= limit
      BY DEF LogWithin
    <2>2. Others \in Nat /\ Spoilers - Left \in Nat /\ Size(0) \in Nat
      BY Measures, SpoilersIs, Bounds
    <2>3. Others * (Spoilers - Left) \in Nat
      BY <2>2
    <2> QED BY <2>1, <2>2, <2>3, Bounds
  <1> HIDE DEF limit
  <1>5. Size(0) + Cardinality(Due') <= limit
    BY <1>2, <1>4
  <1> QED BY <1>1, <1>3, <1>5 DEF limit

LEMMA NoneLater ==
  ASSUME CTypes, IsFiniteSet(Writer), NEW w \in Writer, BackupsWithin,
         \A n \in Names \ {0} :
             /\ name'[n] = name[n]
             /\ name[n] # Absent => content'[name[n]] = content[name[n]]
                                    /\ Late(n)' \subseteq Late(n)
  PROVE  BackupsWithin'
  <1> SUFFICES ASSUME NEW n \in Names \ {0}, name[n] # Absent
               PROVE  Size(n)' + Cardinality(Late(n)') <= MaxSize + Spoilers * Others
    BY DEF BackupsWithin, Others, Spoilers
  <1>1. Size(n)' = Size(n)
    BY DEF Size
  <1>2. Cardinality(Late(n)') \in Nat /\ Cardinality(Late(n)') <= Cardinality(Late(n))
        /\ Cardinality(Late(n)) \in Nat /\ Size(n) \in Nat
    BY Measures, WriterSets
  <1>3. Size(n) + Cardinality(Late(n)) <= MaxSize + Spoilers * Others
    BY DEF BackupsWithin
  <1> DEFINE limit == MaxSize + Spoilers * Others
  <1>4. limit \in Nat
    <2>1. Others \in Nat /\ Spoilers \in Nat
      BY Measures, SpoilersIs
    <2>2. Spoilers * Others \in Nat
      BY <2>1
    <2> QED BY <2>2, Bounds
  <1>5. Size(n) + Cardinality(Late(n)) <= limit
    BY <1>3
  <1> HIDE DEF limit
  <1>6. Size(n) + Cardinality(Late(n)') <= limit
    BY <1>2, <1>4, <1>5
  <1> QED BY <1>1, <1>6 DEF limit

LEMMA IdlesWithin ==
  ASSUME CTypes, IsFiniteSet(Writer), NEW w \in Writer, Idles(w), LogWithin, BackupsWithin, ~ioError'
  PROVE  LogWithin' /\ BackupsWithin'
  <1>1. /\ pc \in [Writer -> Locations] /\ idx \in [Writer -> Names]
        /\ fd \in [Writer -> Inodes \cup {Absent}] /\ 0 \in Names
    BY Bounds DEF CTypes, TypeOK
  <1>2. name' = name /\ content' = content
    BY DEF Idles, StartAppend, Stat, BackupMissing, BackupExists, RotateFails, Abort
  <1>3. \A v \in Writer : v # w => pc'[v] = pc[v] /\ idx'[v] = idx[v] /\ fd'[v] = fd[v]
    BY StepIsOwn DEF Own
  <1>4. pc'[w] # "write"
    <2>1. CASE StartAppend(w) \/ BackupExists(w)
      BY <1>1, <2>1 DEF StartAppend, BackupExists, Goto
    <2>2. CASE Stat(w)
      BY <1>1, <2>2 DEF Stat
    <2>3. CASE BackupMissing(w)
      BY <1>1, <2>3 DEF BackupMissing, NextIndex
    <2>4. CASE RotateFails(w) \/ Abort(w)
      BY <1>1, <2>4 DEF RotateFails, Abort
    <2> QED BY <2>1, <2>2, <2>3, <2>4 DEF Idles
  <1>5. BackupsWithin'
    <2>1. \A n \in Names : Late(n)' \subseteq Late(n)
      BY <1>2, <1>3, <1>4 DEF Late
    <2> QED BY <1>2, <2>1, NoneLater
  <1>6. CASE name[0] = Absent
    <2>1. LogWithin'
      BY <1>2, <1>6 DEF LogWithin
    <2> QED BY <1>5, <2>1
  <1>7. CASE name[0] # Absent /\ Stat(w) /\ Size(0) < MaxSize
    <2>1. Size(0)' = Size(0) /\ Size(0) \in Nat /\ Left' = Left /\ Left \in 0 .. Spoilers - 1
      BY <1>1, <1>2, <1>7, Measures DEF Size, Left
    <2>2. Due' \in SUBSET Writer
      BY DEF Due
    <2>3. Size(0) + Cardinality(Due') <= MaxSize + Others * (Spoilers - Left)
      BY <1>7, <2>1, <2>2, BelowLimit
    <2>4. LogWithin'
      BY <2>1, <2>3 DEF LogWithin, Others, Spoilers
    <2> QED BY <1>5, <2>4
  <1>8. CASE name[0] # Absent /\ ~(Stat(w) /\ Size(0) < MaxSize)
    <2>1. w \in Due' => w \in Due
      <3>1. CASE StartAppend(w)
        BY <1>1, <1>8, <3>1 DEF StartAppend, Goto, Due
      <3>2. CASE Stat(w)
        BY <1>1, <1>8, <3>2 DEF Stat, Due
      <3>3. CASE BackupMissing(w)
        BY <1>1, <3>3 DEF BackupMissing, NextIndex, Due
      <3>4. CASE BackupExists(w)
        BY <1>1, <1>2, <3>4 DEF BackupExists, Goto, Due
      <3>5. CASE RotateFails(w)
        <4>1. ioError' = (ioError \/ ~SourceGone(w)) /\ pc[w] \in {"rename", "move", "touch"}
          BY <3>5 DEF RotateFails
        <4>2. SourceGone(w)
          BY <4>1
        <4> QED BY <1>8, <4>1, <4>2 DEF SourceGone, Due
      <3>6. CASE Abort(w)
        BY <1>1, <3>6 DEF Abort, Due
      <3> QED BY <3>1, <3>2, <3>3, <3>4, <3>5, <3>6 DEF Idles
    <2>2. Due' \subseteq Due
      BY <1>2, <1>3, <2>1 DEF Due
    <2>3. LogWithin'
      BY <1>2, <2>2, NoneMoreDue
    <2> QED BY <1>5, <2>3
  <1> QED BY <1>6, <1>7, <1>8

(* A rename makes the others due at most, and takes one from those left.   *)
LEMMA RenameWithin ==
  ASSUME CTypes, CTypes', IsFiniteSet(Writer), NEW w \in Writer, RenameBackup(w),
         LogWithin, BackupsWithin
  PROVE  LogWithin' /\ BackupsWithin'
  <1> DEFINE k == idx[w]
  <1>1. /\ pc[w] = "rename" /\ k \in 1 .. MaxBackups - 1 /\ k \in Names /\ k + 1 \in Names
        /\ name[k] # Absent /\ name' = Renamed(k, k + 1) /\ content' = content /\ fd' = fd
    BY Bounds DEF CTypes, Places, RenameBackup
  <1>2. pc'[w] \in {"exists", "move"}
    <2>1. NextIndex(w)
      BY DEF RenameBackup
    <2> QED BY <1>1, <2>1, NextIndexTypes
  <1>3. \A v \in Writer : v # w => pc'[v] = pc[v] /\ fd'[v] = fd[v]
    <2>1. Moves(w)
      BY DEF Moves
    <2> QED BY <2>1, StepIsOwn DEF Own
  <1> HIDE DEF k
  <1>4. /\ name'[k] = Absent /\ name'[k + 1] = name[k]
        /\ \A n \in Names \ {k, k + 1} : name'[n] = name[n]
        /\ \A m, n \in Names : m # n /\ name'[m] # Absent => name'[m] # name'[n]
    BY <1>1, RenamedTypes
  <1>5. name'[0] = name[0]
    BY <1>1, <1>4, Bounds
  <1>6. \A n \in Names \ {0} : name'[n] # Absent =>
            \E m \in Names \ {0} : name[m] = name'[n]
    BY <1>1, <1>4
  <1>7. BackupsWithin'
    <2> SUFFICES ASSUME NEW n \in Names \ {0}, name'[n] # Absent
                 PROVE  Size(n)' + Cardinality(Late(n)') <= MaxSize + Spoilers * Others
      BY DEF BackupsWithin, Others, Spoilers
    <2>1. PICK m \in Names \ {0} : name[m] = name'[n]
      BY <1>6
    <2>2. Size(n)' = Size(m)
      BY <1>1, <2>1 DEF Size
    <2>3. Late(n)' = Late(m)
      BY <1>1, <1>2, <1>3, <2>1 DEF Late
    <2>4. Size(m) + Cardinality(Late(m)) <= MaxSize + Spoilers * Others
      BY <2>1 DEF BackupsWithin
    <2> QED BY <2>2, <2>3, <2>4
  <1>8. Left' \in 0 .. Spoilers - 1 /\ Left' < Left
    <2>1. Left \in 0 .. Spoilers - 1 /\ IsFiniteSet(LeftOf(name))
      BY Measures
    <2>2. LeftOf(name') \subseteq LeftOf(name) \ {<<name[k], k + 1>>}
      <3> SUFFICES ASSUME NEW x \in LeftOf(name')
                   PROVE  x \in LeftOf(name) /\ x # <<name[k], k + 1>>
        OBVIOUS
      <3>1. PICK n \in 1 .. MaxBackups - 1 : name'[n] = x[1] /\ n < x[2]
        BY DEF LeftOf
      <3>2. x \in (Nat \ {0}) \X (2 .. MaxBackups) /\ n \in Names
        BY Bounds DEF LeftOf
      <3>3. n # k
        BY <1>4, <3>1, <3>2 DEF Absent
      <3>4. CASE n = k + 1
        <4>1. name[k] = x[1] /\ k < x[2] /\ x[2] # k + 1
          BY <1>1, <1>4, <3>1, <3>2, <3>4
        <4> QED BY <1>1, <3>2, <4>1 DEF LeftOf
      <3>5. CASE n # k + 1
        <4>1. name[n] = x[1]
          BY <1>4, <3>1, <3>2, <3>3, <3>5
        <4>2. name[n] # name[k]
          BY <1>1, <3>2, <3>3 DEF CTypes, OwnFiles
        <4> QED BY <3>1, <3>2, <4>1, <4>2 DEF LeftOf
      <3> QED BY <3>4, <3>5
    <2>3. <<name[k], k + 1>> \in LeftOf(name)
      <3>1. name[k] \in Inodes
        BY <1>1, Measures
      <3>2. name[k] \in Nat \ {0}
        BY <3>1 DEF Inodes
      <3>3. k + 1 \in 2 .. MaxBackups
        BY <1>1, Bounds
      <3> QED BY <1>1, <3>2, <3>3 DEF LeftOf
    <2> DEFINE Rest == LeftOf(name) \ {<<name[k], k + 1>>}
    <2>4. IsFiniteSet(Rest) /\ Cardinality(Rest) = Left - 1
      BY <2>1, <2>3, FS_RemoveElement DEF Left
    <2>5. LeftOf(name') \in SUBSET Rest
      BY <2>2
    <2> HIDE DEF Rest
    <2>6. IsFiniteSet(LeftOf(name')) /\ Cardinality(LeftOf(name')) <= Cardinality(Rest)
      BY <2>4, <2>5, FS_Subset
    <2>7. Cardinality(LeftOf(name')) \in Nat
      BY <2>6, FS_CardinalityType
    <2> QED BY <2>1, <2>4, <2>6, <2>7, SpoilersIs DEF Left
  <1>9. LogWithin'
    <2> SUFFICES ASSUME name[0] # Absent
                 PROVE  Size(0)' + Cardinality(Due') <= MaxSize + Others * (Spoilers - Left')
      BY <1>5 DEF LogWithin, Others, Spoilers
    <2>1. Size(0)' = Size(0)
      BY <1>1, <1>5 DEF Size
    <2>2. Size(0) \in Nat /\ Left \in 0 .. Spoilers - 1 /\ Cardinality(Due) \in Nat
          /\ Others * (Spoilers - Left) \in Nat
      <3>1. Size(0) \in Nat /\ Left \in 0 .. Spoilers - 1 /\ Cardinality(Due) \in Nat
            /\ Others \in Nat
        BY Measures, Bounds
      <3>2. Spoilers - Left \in Nat
        BY <3>1, SpoilersIs
      <3> QED BY <3>1, <3>2
    <2>3. Size(0) + Cardinality(Due) <= MaxSize + Others * (Spoilers - Left)
      BY DEF LogWithin
    <2> DEFINE limit == MaxSize + Others * (Spoilers - Left)
    <2>4. limit \in Nat
      BY <2>2, Bounds
    <2>5. Size(0) <= limit
      <3> HIDE DEF limit
      <3>1. Size(0) + Cardinality(Due) <= limit
        BY <2>3 DEF limit
      <3> QED BY <2>2, <2>4, <3>1
    <2>6. Due' \in SUBSET (Writer \ {w})
      BY <1>2 DEF Due
    <2>7. Size(0) + Cardinality(Due') <= MaxSize + Others * (Spoilers - Left')
      BY <1>8, <2>2, <2>5, <2>6, OneMore DEF limit
    <2> QED BY <2>1, <2>7
  <1> QED BY <1>7, <1>9

(* When the log becomes the first backup those that are late with it were  *)
(* due.                                                                    *)
LEMMA MoveWithin ==
  ASSUME CTypes, IsFiniteSet(Writer), NEW w \in Writer, MoveLog(w),
         LogWithin, BackupsWithin
  PROVE  LogWithin' /\ BackupsWithin'
  <1>1. /\ pc[w] = "move" /\ pc' = [pc EXCEPT ![w] = "touch"] /\ name[0] # Absent
        /\ name' = Renamed(0, 1) /\ content' = content /\ fd' = fd /\ pc'[w] = "touch"
    BY DEF MoveLog, Goto, CTypes, TypeOK
  <1>2. \A v \in Writer : v # w => pc'[v] = pc[v]
    BY <1>1 DEF CTypes, TypeOK
  <1>3. /\ name'[0] = Absent /\ name'[1] = name[0] /\ \A n \in Names \ {0, 1} : name'[n] = name[n]
    <2>1. name' = Renamed(0, 0 + 1) /\ 0 \in Names /\ 0 + 1 \in Names /\ 0 + 1 = 1
      BY <1>1, Bounds
    <2> QED BY <1>1, <2>1, RenamedTypes
  <1>4. LogWithin'
    BY <1>3 DEF LogWithin
  <1>5. BackupsWithin'
    <2> SUFFICES ASSUME NEW n \in Names \ {0}, name'[n] # Absent
                 PROVE  Size(n)' + Cardinality(Late(n)') <= MaxSize + Spoilers * Others
      BY DEF BackupsWithin, Others, Spoilers
    <2>1. CASE n = 1
      <3>1. Size(n)' = Size(0)
        BY <1>1, <1>3, <2>1 DEF Size
      <3>2. Late(n)' \in SUBSET Due
        BY <1>1, <1>2, <1>3, <2>1 DEF Late, Due
      <3>3. /\ Size(0) \in Nat /\ Left \in 0 .. Spoilers - 1 /\ Cardinality(Due) \in Nat
            /\ Cardinality(Late(n)') \in Nat /\ Cardinality(Late(n)') <= Cardinality(Due)
        BY <1>1, <3>2, Measures, WriterSets, Bounds
      <3>4. Size(0) + Cardinality(Due) <= MaxSize + Others * (Spoilers - Left)
        BY <1>1 DEF LogWithin
      <3>5. Size(0) + Cardinality(Due) <= MaxSize + Spoilers * Others
        <4> DEFINE sum == Size(0) + Cardinality(Due)
        <4>1. sum \in Nat
          BY <3>3
        <4>2. sum <= MaxSize + Others * (Spoilers - Left)
          BY <3>4
        <4> HIDE DEF sum
        <4>3. sum <= MaxSize + Spoilers * Others
          BY <3>3, <4>1, <4>2, AtMostAll
        <4> QED BY <4>3 DEF sum
      <3>6. MaxSize + Spoilers * Others \in Nat
        BY Bounds, Measures, SpoilersIs
      <3> DEFINE limit == MaxSize + Spoilers * Others
      <3>7. limit \in Nat /\ Size(0) + Cardinality(Due) <= limit
        BY <3>5, <3>6
      <3> HIDE DEF limit
      <3>8. Size(0) + Cardinality(Late(n)') <= limit
        BY <3>3, <3>7
      <3> QED BY <3>1, <3>8 DEF limit
    <2>2. CASE n # 1
      <3>1. name'[n] = name[n] /\ Size(n)' = Size(n)
        BY <1>1, <1>3, <2>2 DEF Size
      <3>2. Late(n)' = Late(n)
        BY <1>1, <1>2, <3>1 DEF Late
      <3> QED BY <3>1, <3>2 DEF BackupsWithin
    <2> QED BY <2>1, <2>2
  <1> QED BY <1>4, <1>5

(* A log that is created is empty; those that open it were due.            *)
LEMMA CreatesWithin ==
  ASSUME CTypes, CTypes', IsFiniteSet(Writer), NEW w \in Writer, Creates(w),
         LogWithin, BackupsWithin
  PROVE  LogWithin' /\ BackupsWithin'
  <1>1. /\ name'[0] \in Inodes' /\ name'[0] # Absent
        /\ \A n \in Names \ {0} : name'[n] = name[n]
        /\ name[0] # Absent => name' = name /\ content' = content
        /\ \A i \in Inodes : content'[i] = content[i]
        /\ \A i \in Inodes' \ Inodes : content'[i] = {}
        /\ name[0] = Absent => name'[0] \notin Inodes
    BY CreatedTypes DEF Creates, Touch, Open
  <1>2. \A v \in Writer : v # w => pc'[v] = pc[v] /\ idx'[v] = idx[v] /\ fd'[v] = fd[v]
    BY StepIsOwn DEF Own
  <1>3. /\ pc[w] \in {"touch", "open"} /\ pc'[w] \in {"open", "write"}
        /\ pc'[w] = "write" => fd'[w] = name'[0]
    BY DEF Creates, Touch, Open, Goto, CTypes, TypeOK
  <1>4. BackupsWithin'
    <2> SUFFICES ASSUME NEW n \in Names \ {0}, name[n] # Absent
                 PROVE  content'[name[n]] = content[name[n]] /\ Late(n)' \subseteq Late(n)
      BY <1>1, NoneLater
    <2>1. name[n] \in Inodes
      BY Measures
    <2>2. name'[0] # name[n]
      <3>1. CASE name[0] = Absent
        BY <1>1, <2>1, <3>1
      <3>2. CASE name[0] # Absent
        BY <1>1, <3>2, Bounds DEF CTypes, OwnFiles
      <3> QED BY <3>1, <3>2
    <2> QED BY <1>1, <1>2, <1>3, <2>1, <2>2 DEF Late
  <1>5. CASE name[0] # Absent
    <2>1. Due' \subseteq Due
      BY <1>1, <1>2, <1>3, <1>5 DEF Due
    <2> QED BY <1>1, <1>4, <1>5, <2>1, NoneMoreDue
  <1>6. CASE name[0] = Absent
    <2>1. content'[name'[0]] = {}
      BY <1>1, <1>6
    <2>2. Size(0)' = 0
      BY <2>1, FS_EmptySet DEF Size
    <2>3. Left' \in 0 .. Spoilers - 1
      <3>1. name' \in [Names -> Nat]
        <4>1. name' \in [Names -> Inodes' \cup {Absent}] /\ Inodes' \cup {Absent} \subseteq Nat
          BY DEF CTypes, TypeOK, Inodes, Absent
        <4> QED BY <4>1
      <3>2. \A m, n \in Names : m # n /\ name'[m] # Absent => name'[m] # name'[n]
        BY DEF CTypes, OwnFiles
      <3>3. Cardinality(LeftOf(name')) \in 0 .. Spoilers - 1
        BY <3>1, <3>2, LeftBound
      <3> QED BY <3>3 DEF Left
    <2>4. Due' \in SUBSET Writer
      BY DEF Due
    <2>5. 0 + Cardinality(Due') <= MaxSize + Others * (Spoilers - Left')
      BY <2>3, <2>4, Bounds, BelowLimit
    <2>6. LogWithin'
      BY <2>2, <2>5 DEF LogWithin, Others, Spoilers
    <2> QED BY <1>4, <2>6
  <1> QED BY <1>5, <1>6

(* The record makes the file it goes to longer, and its writer was due, or *)
(* late.                                                                   *)
LEMMA Longer ==
  ASSUME CTypes, IsFiniteSet(Writer), NEW w \in Writer, Write(w),
         NEW n \in Names, name[n] # Absent, fd[w] = name[n],
         NEW S \in SUBSET Writer, w \in S, NEW U \in SUBSET (S \ {w}), NEW limit \in Nat,
         Size(n) + Cardinality(S) <= limit
  PROVE  Size(n)' + Cardinality(U) <= limit
  <1>1. name' = name /\ content'[name[n]] = content[name[n]] \cup {written'}
    BY WriteTypes DEF Write
  <1>2. IsFiniteSet(content[name[n]]) /\ Size(n) \in Nat
    BY Measures
  <1>3. Cardinality(content[name[n]] \cup {written'}) <= Size(n) + 1
        /\ Cardinality(content[name[n]] \cup {written'}) \in Nat
    <2>1. Cardinality(content[name[n]] \cup {written'}) =
            IF written' \in content[name[n]] THEN Size(n) ELSE Size(n) + 1
      BY <1>2, FS_AddElement DEF Size
    <2> QED BY <1>2, <2>1
  <1>4. Size(n)' = Cardinality(content[name[n]] \cup {written'})
    BY <1>1 DEF Size
  <1>5. Cardinality(U) \in Nat /\ Cardinality(U) + 1 <= Cardinality(S) /\ Cardinality(S) \in Nat
    BY WriterSets
  <1> QED BY <1>2, <1>3, <1>4, <1>5

LEMMA WriteWithin ==
  ASSUME CTypes, IsFiniteSet(Writer), NEW w \in Writer, Write(w), LogWithin, BackupsWithin
  PROVE  LogWithin' /\ BackupsWithin'
  <1>1. /\ pc[w] = "write" /\ pc'[w] = "idle" /\ name' = name /\ fd[w] \in Inodes
        /\ \A i \in Inodes : i # fd[w] => content'[i] = content[i]
    <2>1. pc[w] = "write" /\ pc'[w] = "idle" /\ name' = name
      BY DEF Write, Goto, CTypes, TypeOK
    <2> QED BY <2>1, WriteTypes
  <1>2. \A v \in Writer : v # w => pc'[v] = pc[v] /\ idx'[v] = idx[v] /\ fd'[v] = fd[v]
    BY StepIsOwn DEF Own
  <1>3. Due' \subseteq Due \ {w} /\ \A n \in Names : Late(n)' \subseteq Late(n) \ {w}
    BY <1>1, <1>2 DEF Due, Late
  <1>4. 0 \in Names /\ \A n \in Names : name[n] # Absent => name[n] \in Inodes
    BY Bounds, Measures
  <1>5. LogWithin'
    <2>1. CASE name[0] # Absent /\ fd[w] = name[0]
      <3>1. w \in Due /\ Due \in SUBSET Writer
        BY <1>1, <2>1 DEF Due
      <3> DEFINE limit == MaxSize + Others * (Spoilers - Left)
      <3>2. limit \in Nat
        <4>1. Others \in Nat /\ Spoilers - Left \in Nat
          BY Measures, SpoilersIs
        <4>2. Others * (Spoilers - Left) \in Nat
          BY <4>1
        <4> QED BY <4>2, Bounds
      <3>3. Size(0) + Cardinality(Due) <= limit
        BY <2>1 DEF LogWithin
      <3> HIDE DEF limit
      <3>4. Size(0)' + Cardinality(Due') <= limit
        BY <1>3, <1>4, <2>1, <3>1, <3>2, <3>3, Longer
      <3>5. Left' = Left
        BY <1>1 DEF Left
      <3> QED BY <3>4, <3>5 DEF LogWithin, Others, Spoilers, limit
    <2>2. CASE name[0] # Absent /\ fd[w] # name[0]
      BY <1>1, <1>3, <1>4, <2>2, NoneMoreDue
    <2>3. CASE name[0] = Absent
      BY <1>1, <2>3 DEF LogWithin
    <2> QED BY <2>1, <2>2, <2>3
  <1>6. BackupsWithin'
    <2> SUFFICES ASSUME NEW n \in Names \ {0}, name[n] # Absent
                 PROVE  Size(n)' + Cardinality(Late(n)') <= MaxSize + Spoilers * Others
      BY <1>1 DEF BackupsWithin, Others, Spoilers
    <2> DEFINE limit == MaxSize + Spoilers * Others
    <2>1. limit \in Nat
      BY Bounds, Measures, SpoilersIs
    <2>2. Size(n) + Cardinality(Late(n)) <= limit
      BY DEF BackupsWithin
    <2> HIDE DEF limit
    <2>3. CASE fd[w] = name[n]
      <3>1. w \in Late(n) /\ Late(n) \in SUBSET Writer
        BY <1>1, <2>3 DEF Late
      <3>2. Size(n)' + Cardinality(Late(n)') <= limit
        BY <1>3, <2>1, <2>2, <2>3, <3>1, Longer
      <3> QED BY <3>2 DEF limit
    <2>4. CASE fd[w] # name[n]
      <3>1. Size(n)' = Size(n)
        BY <1>1, <1>4, <2>4 DEF Size
      <3>2. /\ Cardinality(Late(n)') \in Nat /\ Cardinality(Late(n)') <= Cardinality(Late(n))
            /\ Cardinality(Late(n)) \in Nat /\ Size(n) \in Nat
        <4>1. Late(n)' \in SUBSET Late(n) /\ Late(n) \in SUBSET Writer
          BY <1>3 DEF Late
        <4> QED BY <4>1, Measures, WriterSets
      <3>3. Size(n) + Cardinality(Late(n)') <= limit
        BY <2>1, <2>2, <3>2
      <3> QED BY <3>1, <3>3 DEF limit
    <2> QED BY <2>3, <2>4
  <1> QED BY <1>5, <1>6

LEMMA StepWithin ==
  ASSUME CTypes, CTypes', IsFiniteSet(Writer), [Next]_vars, Within
  PROVE  Within'
  <1>1. CASE UNCHANGED vars
    <2>1. Due' = Due /\ Left' = Left /\ \A n \in Names : Late(n)' = Late(n) /\ Size(n)' = Size(n)
      BY <1>1 DEF vars, Due, Left, Late, Size
    <2>2. LogWithin => LogWithin'
      BY <1>1, <2>1, Bounds DEF vars, LogWithin, Others, Spoilers
    <2>3. BackupsWithin => BackupsWithin'
      BY <1>1, <2>1 DEF vars, BackupsWithin, Others, Spoilers
    <2>4. name' = name /\ ioError' = ioError
      BY <1>1 DEF vars
    <2> QED BY <2>2, <2>3, <2>4 DEF Within, Authored
  <1>2. CASE Next
    <2>1. PICK w \in Writer : Idles(w) \/ Moves(w) \/ Creates(w) \/ Write(w)
      BY <1>2, NextIs
    <2> SUFFICES ASSUME ~ioError'
                 PROVE  LogWithin' /\ BackupsWithin'
      BY <2>1 DEF Within, Authored
    <2>2. ~ioError
      <3>1. CASE RotateFails(w)
        BY <3>1 DEF RotateFails
      <3>2. CASE UNCHANGED ioError
        BY <3>2
      <3> QED BY <2>1, <3>1, <3>2 DEF Idles, Moves, Creates, StartAppend, Stat, BackupMissing,
                BackupExists, Abort, RenameBackup, MoveLog, Touch, Open, Write
    <2>3. LogWithin /\ BackupsWithin
      BY <2>2 DEF Within
    <2> QED BY <2>1, <2>3, IdlesWithin, RenameWithin, MoveWithin, CreatesWithin, WriteWithin DEF Moves
  <1> QED BY <1>1, <1>2

(* However the rotations of several processes interleave, and wherever     *)
(* they die, no file grows beyond its size by more than a record for each  *)
(* other process and each rename that can spoil a rotation.                *)
THEOREM GrowthBounded == IsFiniteSet(Writer) => (Spec => []FilesBounded)
  <1> SUFFICES ASSUME IsFiniteSet(Writer)
               PROVE  Spec => []FilesBounded
    OBVIOUS
  <1>1. Init => Within
    BY Bounds DEF Init, Within, Authored, LogWithin, BackupsWithin
  <1>2. CInv /\ CInv' /\ Within /\ [Next]_vars => Within'
    BY StepWithin DEF CInv
  <1>3. CInv /\ Within => FilesBounded
    <2> SUFFICES ASSUME CInv, Authored, LogWithin, BackupsWithin, NEW n \in Names, name[n] # Absent
                 PROVE  Size(n) <= MaxSize + Spoilers * (Cardinality(Writer) - 1)
      BY DEF Within, FilesBounded
    <2> DEFINE limit == MaxSize + Spoilers * Others
    <2>1. ASSUME NEW w \in Writer
          PROVE  Size(n) <= limit
      <3>1. /\ Size(n) \in Nat /\ Cardinality(Due) \in Nat /\ Cardinality(Late(n)) \in Nat
            /\ Left \in 0 .. Spoilers - 1
        BY Measures DEF CInv
      <3>2. limit \in Nat
        BY Bounds, Measures, SpoilersIs DEF CInv
      <3>3. CASE n = 0
        <4>1. Size(n) + Cardinality(Due) <= MaxSize + Others * (Spoilers - Left)
          BY <3>3 DEF LogWithin
        <4> DEFINE sum == Size(n) + Cardinality(Due)
        <4>2. sum \in Nat /\ Size(n) <= sum
          BY <3>1
        <4> HIDE DEF sum
        <4>3. sum <= limit
          BY <3>1, <4>1, <4>2, AtMostAll DEF sum
        <4> HIDE DEF limit
        <4> QED BY <3>1, <3>2, <4>2, <4>3
      <3>4. CASE n # 0
        <4>1. Size(n) + Cardinality(Late(n)) <= limit
          BY <3>4 DEF BackupsWithin
        <4> HIDE DEF limit
        <4> QED BY <3>1, <3>2, <4>1
      <3> QED BY <3>3, <3>4
    <2> QED BY <2>1 DEF Others, Authored
  <1> QED BY <1>1, <1>2, <1>3, Always, PTL DEF Spec
=============================================================================
