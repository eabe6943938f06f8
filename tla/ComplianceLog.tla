---------------------------- MODULE ComplianceLog ----------------------------
(***************************************************************************)
(* The compliance log of sdd_core (compliance_log_store.py).  Every append *)
(* first rotates the log when it has reached its size: backups move up one *)
(* number, the log becomes backup 1, an empty log is touched.  No lock is  *)
(* taken.  Each file-system call is a step, since several processes append *)
(* to the same log and any of them may die or fail at any call.  Files are *)
(* inodes: an open file stays the same file when its name moves.           *)
(***************************************************************************)
EXTENDS Naturals, FiniteSets, Sequences

CONSTANTS Writer,       \* processes that append
          MaxSize,      \* DEFAULT_MAX_LOG_BYTES, in records
          MaxBackups,   \* DEFAULT_MAX_BACKUPS
          MaxRecords    \* bound: records written

ASSUME LogAssumption ==
    /\ MaxSize \in Nat \ {0}
    /\ MaxBackups \in Nat \ {0}
    /\ MaxRecords \in Nat

VARIABLES name,      \* the inode each name stands for: 0 is the log, i its backup .i
          content,   \* records of each inode ever created
          written,   \* records written so far; a record is its number
          pc,        \* where each writer is in append
          idx,       \* the loop index of rotate
          fd,        \* the inode each writer has open
          overlapped,\* ghost: two appends have been under way at once
          ioError    \* ghost: a call of rotate has failed though its file was there

vars == <<name, content, written, pc, idx, fd, overlapped, ioError>>

Names  == 0 .. MaxBackups
Absent == 0
Inodes == 1 .. Len(content)
Locations == {"idle", "stat", "exists", "rename", "move", "touch", "open", "write"}

TypeOK ==
    /\ content \in Seq(SUBSET (1 .. MaxRecords))
    /\ name \in [Names -> Inodes \cup {Absent}]
    /\ written \in 0 .. MaxRecords
    /\ pc \in [Writer -> Locations]
    /\ idx \in [Writer -> Names]
    /\ fd \in [Writer -> Inodes \cup {Absent}]
    /\ overlapped \in BOOLEAN /\ ioError \in BOOLEAN

Size(n) == Cardinality(content[name[n]])

Init ==
    /\ name = [n \in Names |-> Absent]
    /\ content = <<>>
    /\ written = 0
    /\ pc = [w \in Writer |-> "idle"]
    /\ idx = [w \in Writer |-> 0]
    /\ fd = [w \in Writer |-> Absent]
    /\ overlapped = FALSE /\ ioError = FALSE

Goto(w, from, to) == pc[w] = from /\ pc' = [pc EXCEPT ![w] = to]

-----------------------------------------------------------------------------
(* append of a record that the logging mode keeps and the validator        *)
(* accepts; the others return before they touch a file.                    *)
StartAppend(w) ==
    /\ written < MaxRecords
    /\ Goto(w, "idle", IF name[0] = Absent THEN "open" ELSE "stat")
    /\ overlapped' = (overlapped \/ \E v \in Writer \ {w} : pc[v] # "idle")
    /\ UNCHANGED <<name, content, written, idx, fd, ioError>>

(* Mutant: the log is rotated one record late.                            *)
StatOffByOne(w) ==
    /\ pc[w] = "stat"
    /\ pc' = [pc EXCEPT ![w] = IF name[0] = Absent THEN "idle"
                               ELSE IF Size(0) <= MaxSize THEN "open"
                               ELSE IF MaxBackups = 1 THEN "move" ELSE "exists"]
    /\ idx' = [idx EXCEPT ![w] = MaxBackups - 1]
    /\ UNCHANGED <<name, content, written, fd, overlapped, ioError>>

(* The size is read by a second call, which raises out of append when the  *)
(* log has been renamed since.                                             *)
Stat(w) ==
    /\ pc[w] = "stat"
    /\ pc' = [pc EXCEPT ![w] = IF name[0] = Absent THEN "idle"
                               ELSE IF Size(0) < MaxSize THEN "open"
                               ELSE IF MaxBackups = 1 THEN "move" ELSE "exists"]
    /\ idx' = [idx EXCEPT ![w] = MaxBackups - 1]
    /\ UNCHANGED <<name, content, written, fd, overlapped, ioError>>

(* Mutant: the loop runs down to 0, range(max_backups - 1, -1, -1).        *)
NextIndexToZero(w) ==
    /\ idx' = [idx EXCEPT ![w] = @ - 1]
    /\ pc' = [pc EXCEPT ![w] = IF idx[w] = 0 THEN "move" ELSE "exists"]

(* The rest of the loop once backup idx has been dealt with.               *)
NextIndex(w) ==
    /\ idx' = [idx EXCEPT ![w] = @ - 1]
    /\ pc' = [pc EXCEPT ![w] = IF idx[w] = 1 THEN "move" ELSE "exists"]

BackupMissing(w) ==
    /\ pc[w] = "exists"
    /\ name[idx[w]] = Absent
    /\ NextIndex(w)
    /\ UNCHANGED <<name, content, written, fd, overlapped, ioError>>

BackupExists(w) ==
    /\ name[idx[w]] # Absent
    /\ Goto(w, "exists", "rename")
    /\ UNCHANGED <<name, content, written, idx, fd, overlapped, ioError>>

(* Mutant: a link is made and the old name stays.                         *)
Linked(from, to) == [name EXCEPT ![to] = name[from]]

(* rename replaces the target.                                             *)
Renamed(from, to) == [name EXCEPT ![to] = name[from], ![from] = Absent]

RenameBackup(w) ==
    /\ pc[w] = "rename"
    /\ name[idx[w]] # Absent
    /\ name' = Renamed(idx[w], idx[w] + 1)
    /\ NextIndex(w)
    /\ UNCHANGED <<content, written, fd, overlapped, ioError>>

MoveLog(w) ==
    /\ name[0] # Absent
    /\ Goto(w, "move", "touch")
    /\ name' = Renamed(0, 1)
    /\ UNCHANGED <<content, written, idx, fd, overlapped, ioError>>

SourceGone(w) == \/ pc[w] = "rename" /\ name[idx[w]] = Absent
                 \/ pc[w] = "move" /\ name[0] = Absent

(* Mutant: a try around each rename; rotate goes on when one fails.        *)
RotateGoesOn(w) ==
    /\ pc[w] \in {"rename", "move", "touch"}
    /\ ioError' = (ioError \/ ~SourceGone(w))
    /\ pc' = [pc EXCEPT ![w] = IF @ = "rename" THEN "move" ELSE "open"]
    /\ UNCHANGED <<name, content, written, idx, fd, overlapped>>

(* The file to rename is gone, or the call fails: rotate gives up, and the *)
(* record is appended all the same.                                        *)
RotateFails(w) ==
    /\ pc[w] \in {"rename", "move", "touch"}
    /\ ioError' = (ioError \/ ~SourceGone(w))
    /\ pc' = [pc EXCEPT ![w] = "open"]
    /\ UNCHANGED <<name, content, written, idx, fd, overlapped>>

(* touch and open(..., "a") create the log when it is missing.             *)
Created ==
    IF name[0] = Absent
    THEN /\ content' = Append(content, {})
         /\ name' = [name EXCEPT ![0] = Len(content')]
    ELSE UNCHANGED <<content, name>>

Touch(w) ==
    /\ Goto(w, "touch", "open")
    /\ Created
    /\ UNCHANGED <<written, idx, fd, overlapped, ioError>>

Open(w) ==
    /\ Goto(w, "open", "write")
    /\ Created
    /\ fd' = [fd EXCEPT ![w] = name'[0]]
    /\ UNCHANGED <<written, idx, overlapped, ioError>>

Write(w) ==
    /\ written < MaxRecords
    /\ Goto(w, "write", "idle")
    /\ written' = written + 1
    /\ content' = [content EXCEPT ![fd[w]] = @ \cup {written'}]
    /\ fd' = [fd EXCEPT ![w] = Absent]
    /\ UNCHANGED <<name, idx, overlapped, ioError>>

(* The process dies, or the write fails, which is only logged.             *)
Abort(w) ==
    /\ pc[w] # "idle"
    /\ pc' = [pc EXCEPT ![w] = "idle"]
    /\ fd' = [fd EXCEPT ![w] = Absent]
    /\ UNCHANGED <<name, content, written, idx, overlapped, ioError>>

Rotate(w) ==
    \/ Stat(w) \/ BackupMissing(w) \/ BackupExists(w) \/ RenameBackup(w)
    \/ MoveLog(w) \/ RotateFails(w) \/ Touch(w)

Next == \E w \in Writer :
            StartAppend(w) \/ Rotate(w) \/ Open(w) \/ Write(w) \/ Abort(w)

Spec == Init /\ [][Next]_vars

-----------------------------------------------------------------------------
Kept == UNION {content[name[n]] : n \in {m \in Names : name[m] # Absent}}

Lost == (1 .. written) \ Kept

(* As long as no two appends have overlapped, however often a rotation     *)
(* fails half-way or its process dies: the records lost are older than     *)
(* every record kept, and when any has been lost two full files of newer   *)
(* ones are kept, or the one there is.  (MaxBackups full files would be    *)
(* too much to ask: each rotation that fails at its last rename has        *)
(* already moved the backups up and costs one of them.)                    *)
RetentionIsSuffix ==
    ~overlapped =>
        /\ \A l \in Lost, k \in Kept : l < k
        /\ Lost # {} =>
             Cardinality(Kept) >= IF MaxBackups = 1 THEN MaxSize ELSE 2 * MaxSize

(* ... and a higher backup number always means older records.              *)
BackupsInOrder ==
    ~overlapped => \A m, n \in Names :
        m < n /\ name[m] # Absent /\ name[n] # Absent =>
            \A r \in content[name[m]], s \in content[name[n]] : s < r

(* However the rotations of several processes interleave, unless a call    *)
(* fails, rotation keeps every file near its limit.  Beyond MaxSize a file *)
(* gets a record for each rotation that another process's rename spoils,   *)
(* and the renames that can do so run out: each moves a backup one number  *)
(* up, or is the one of the log.                                           *)
Spoilers == 1 + (MaxBackups * (MaxBackups - 1)) \div 2

FilesBounded ==
    ~ioError => \A n \in Names :
        name[n] # Absent => Size(n) <= MaxSize + Spoilers * (Cardinality(Writer) - 1)
=============================================================================
