------------------------- MODULE LearningStoreProofs -------------------------
(***************************************************************************)
(* Proofs about LearningStore, for any number of processes, patterns and   *)
(* rules: what the missing lock can never do, however the reads, openings  *)
(* and writes of the processes interleave and whoever is killed.           *)
(***************************************************************************)
EXTENDS LearningStore, TLAPS

(* A process that will write or writes a file.                             *)
IsWriter(w) ==
    /\ w = [pc |-> w.pc, file |-> w.file, cands |-> w.cands, book |-> w.book,
            fresh |-> w.fresh, alone |-> w.alone]
    /\ w.pc \in {"open", "write"} /\ w.file \in {"candidates", "registry"}
    /\ w.fresh \in BOOLEAN /\ w.alone \in BOOLEAN
    /\ w.cands \subseteq Candidates /\ IsRegistry(w.book)

ProcShape(w) ==
    \/ w.pc = "idle" /\ w = Idle
    \/ w.pc = "grouped" /\ w = Working("grouped", w.arg) /\ w.arg \subseteq Pattern
    \/ w.pc = "found" /\ w = Working("found", w.arg) /\ w.arg \in Candidates
    \/ IsWriter(w)

Shape ==
    /\ ledger \in [Pattern -> [rows : 0 .. MaxRows, evidence : BOOLEAN]]
    /\ candidates \in CandidateFile
    /\ registry = [whole |-> registry.whole, content |-> registry.content]
    /\ registry.whole \in BOOLEAN /\ IsRegistry(registry.content)
    /\ proc = [p \in Proc |-> proc[p]] /\ \A p \in Proc : ProcShape(proc[p])
    /\ clock \in 0 .. MaxTime
    /\ issued \in [Pattern -> 0 .. MaxIds]
    /\ rules \in 0 .. MaxIds
    /\ human \subseteq Candidates
    /\ harm \subseteq {"stale", "overlap", "killed"}

Writes(p) == proc[p].pc \in {"open", "write"}

(* Whatever a file or a process holds of candidates has recurred, and      *)
(* whatever it holds of rules a human has approved.                        *)
Recurred(pattern) ==
    ledger[pattern].rows >= min_occurrences /\ ledger[pattern].evidence

Approved(book, who) == \A id \in DOMAIN book : book[id].cand \in who

Earned ==
    /\ \A c \in candidates.content \cup human : Recurred(c[1])
    /\ Approved(registry.content, human)
    /\ \A p \in Proc :
        /\ proc[p].pc = "grouped" => \A x \in proc[p].arg : Recurred(x)
        /\ proc[p].pc = "found" => proc[p].arg \in human
        /\ Writes(p) => /\ \A c \in proc[p].cands : Recurred(c[1])
                        /\ Approved(proc[p].book, human)

(* Every list of candidates, on file or about to be, has one per pattern.  *)
OneEach(cands) == \A c, d \in cands : c[1] = d[1] => c = d

Single ==
    /\ OneEach(candidates.content)
    /\ \A p \in Proc : Writes(p) => OneEach(proc[p].cands)

(* An emptied file has a process that will fill it.                        *)
Tended ==
    harm \cap {"killed", "overlap"} = {} =>
        /\ ~candidates.whole => \E p \in Proc : proc[p].pc = "write" /\ proc[p].file = "candidates"
        /\ ~registry.whole => \E p \in Proc : proc[p].pc = "write" /\ proc[p].file = "registry"

(* The one change a call makes to the rules it read.                       *)
Adds(old, new) ==
    \E id \in RuleIds \ DOMAIN old :
        /\ id \in DOMAIN new /\ new = With(old, id, new[id])
        /\ new[id].status = "active"

Retires(old, new) ==
    \E gone \in SUBSET {i \in DOMAIN old : old[i].status = "active"},
       status \in {"expired", "rolled_back"} :
        /\ gone # {}
        /\ new = [i \in DOMAIN old |-> IF i \in gone
                                       THEN [old[i] EXCEPT !.status = status]
                                       ELSE old[i]]

(* A process whose copy is fresh is about to make one change to the rules  *)
(* that are on file; ids are never given twice.                            *)
Current ==
    /\ DOMAIN registry.content \subseteq 1 .. rules
    /\ \A p \in Proc : Writes(p) => DOMAIN proc[p].book \subseteq 1 .. rules
    /\ \A p \in Proc : Writes(p) /\ proc[p].file = "registry" /\ proc[p].fresh =>
           \/ Adds(registry.content, proc[p].book)
           \/ Retires(registry.content, proc[p].book)

LInv == Shape /\ Earned /\ Single /\ Tended /\ Current

-----------------------------------------------------------------------------
LEMMA Bounds ==
  /\ TTL \in Nat /\ TTL > 0 /\ MaxTime \in Nat /\ MaxRows \in Nat /\ MaxIds \in Nat
  BY LearningAssumption

LEMMA ShapeType == Shape => TypeOK
  BY DEF Shape, ProcShape, IsWriter, TypeOK, Idle, Working

LEMMA EmptyBook == IsRegistry(<<>>) /\ DOMAIN <<>> = {}
  BY DEF IsRegistry

LEMMA InvInit == Init => LInv
  <1> SUFFICES ASSUME Init PROVE LInv
    OBVIOUS
  <1>1. Shape
    BY Bounds, EmptyBook DEF Init, Shape, ProcShape, Idle, CandidateFile
  <1>2. Earned /\ Single /\ Tended /\ Current
    BY EmptyBook DEF Init, Earned, Single, Tended, Current, Writes, Idle, Approved, OneEach
  <1> QED BY <1>1, <1>2 DEF LInv

(* A step of p alone.                                                      *)
LEMMA SetProc ==
  ASSUME Shape, NEW p \in Proc, NEW v, Set(p, v)
  PROVE  /\ proc'[p] = v /\ \A q \in Proc : q # p => proc'[q] = proc[q]
         /\ proc' = [q \in Proc |-> proc'[q]]
  BY DEF Shape, Set

(* What is known of a process about to do v, whatever the rules on file.   *)
Ready(v, approved, drawn) ==
    /\ ProcShape(v)
    /\ v.pc = "grouped" => \A x \in v.arg : Recurred(x)
    /\ v.pc = "found" => v.arg \in approved
    /\ v.pc \in {"open", "write"} =>
        /\ \A c \in v.cands : Recurred(c[1])
        /\ Approved(v.book, approved) /\ OneEach(v.cands)
        /\ DOMAIN v.book \subseteq 1 .. drawn

UpToDate(v) ==
    v.pc \in {"open", "write"} /\ v.file = "registry" /\ v.fresh =>
        Adds(registry.content, v.book) \/ Retires(registry.content, v.book)

LEMMA ReadyAll == LInv => \A p \in Proc : Ready(proc[p], human, rules) /\ UpToDate(proc[p])
  BY DEF LInv, Shape, Earned, Single, Current, Writes, Ready, UpToDate

(* A step that writes no file and leaves p at v.                           *)
LEMMA OneProcess ==
  ASSUME LInv, NEW p \in Proc, NEW v, Set(p, v),
         UNCHANGED <<ledger, candidates, registry, clock, harm>>,
         human \subseteq human', human' \subseteq Candidates,
         \A c \in human' : Recurred(c[1]),
         issued' \in [Pattern -> 0 .. MaxIds],
         rules' \in 0 .. MaxIds, rules <= rules',
         proc[p].pc # "write", v.pc # "write", Ready(v, human', rules'), UpToDate(v)
  PROVE  LInv'
  <1>1. /\ proc'[p] = v /\ \A q \in Proc : q # p => proc'[q] = proc[q]
        /\ proc' = [q \in Proc |-> proc'[q]]
    BY SetProc DEF LInv
  <1>2. rules \in Nat /\ rules' \in Nat
    BY Bounds DEF LInv, Shape
  <1>3. \A x : Recurred(x)' <=> Recurred(x)
    BY DEF Recurred
  <1>4. \A q \in Proc : Ready(proc[q], human, rules)'
    <2>1. Ready(v, human, rules)'
      BY <1>3 DEF Ready
    <2>2. \A q \in Proc : Ready(proc[q], human', rules')
      BY <1>2, ReadyAll DEF Ready, Approved
    <2>3. \A q \in Proc : q # p => Ready(proc[q], human, rules)'
      BY <1>1, <1>3, <2>2 DEF Ready
    <2> QED BY <1>1, <2>1, <2>3
  <1>5. \A q \in Proc : UpToDate(proc[q])'
    BY <1>1, ReadyAll DEF UpToDate
  <1>6. Shape'
    BY <1>1, <1>4 DEF LInv, Shape, Ready
  <1>7. Earned'
    BY <1>3, <1>4 DEF LInv, Earned, Ready, Writes, Approved
  <1>8. Single'
    BY <1>4 DEF LInv, Single, Ready, Writes
  <1>9. Tended'
    BY <1>1 DEF LInv, Tended
  <1>10. Current'
    <2>1. DOMAIN registry'.content \subseteq 1 .. rules'
      BY <1>2 DEF LInv, Current
    <2> QED BY <2>1, <1>4, <1>5 DEF Current, Ready, UpToDate, Writes
  <1> QED BY <1>6, <1>7, <1>8, <1>9, <1>10 DEF LInv

LEMMA GroupLedgerInv ==
  ASSUME LInv, NEW p \in Proc, GroupLedger(p)
  PROVE  LInv'
  <1> DEFINE v == Working("grouped", Recurring)
  <1>1. Set(p, v) /\ proc[p].pc # "write"
    BY DEF GroupLedger, Idle
  <1>2. Ready(v, human', rules') /\ UpToDate(v) /\ v.pc # "write"
    BY DEF GroupLedger, Ready, UpToDate, ProcShape, Working, Recurring, Recurred
  <1>3. /\ human \subseteq Candidates /\ \A c \in human : Recurred(c[1])
        /\ issued \in [Pattern -> 0 .. MaxIds] /\ rules \in 0 .. MaxIds /\ rules <= rules
    BY Bounds DEF LInv, Shape, Earned
  <1> HIDE DEF v
  <1> QED
    BY <1>1, <1>2, <1>3, OneProcess DEF GroupLedger

(* The new candidates are of patterns the list does not have, one of each. *)
LEMMA CreateCandidatesInv ==
  ASSUME LInv, NEW p \in Proc, CreateCandidates(p)
  PROVE  LInv'
  <1> DEFINE created == Created(proc[p].arg)
             new == {<<x, issued[x] + 1>> : x \in created}
             v == IF candidates.whole /\ created # {}
                  THEN Writing("candidates", candidates.content \cup new, <<>>)
                  ELSE Idle
  <1>1. /\ Set(p, v) /\ proc[p].pc = "grouped"
        /\ UNCHANGED <<ledger, candidates, registry, clock, rules, human, harm>>
    BY DEF CreateCandidates
  <1>2. /\ human \subseteq Candidates /\ \A c \in human : Recurred(c[1])
        /\ issued \in [Pattern -> 0 .. MaxIds] /\ rules \in 0 .. MaxIds /\ rules <= rules
        /\ candidates.content \subseteq Candidates
    BY Bounds DEF LInv, Shape, Earned, CandidateFile
  <1>3. created \subseteq Pattern /\ \A x \in created : Recurred(x)
    BY <1>1, ReadyAll DEF Ready, ProcShape, Idle, Working, IsWriter, Created
  <1>4. issued' \in [Pattern -> 0 .. MaxIds]
    <2>1. CASE candidates.whole /\ created # {}
      <3>1. \A x \in created : issued[x] \in 0 .. MaxIds /\ issued[x] + 1 \in 0 .. MaxIds
        BY <1>2, <1>3, <2>1, Bounds DEF CreateCandidates
      <3> QED BY <1>2, <2>1, <3>1 DEF CreateCandidates
    <2>2. CASE ~(candidates.whole /\ created # {})
      BY <1>2, <2>2 DEF CreateCandidates
    <2> QED BY <2>1, <2>2
  <1>5. Ready(v, human', rules')
    <2>1. CASE candidates.whole /\ created # {}
      <3>1. new \subseteq Candidates
        BY <1>2, <1>3, <2>1, Bounds DEF CreateCandidates, Candidates
      <3>2. \A c \in new : Recurred(c[1])
        BY <1>3
      <3>3. \A c \in candidates.content : Recurred(c[1])
        BY DEF LInv, Earned
      <3>4. OneEach(candidates.content \cup new)
        <4>1. \A c \in new : \A d \in candidates.content : c[1] # d[1]
          BY DEF Created
        <4>2. \A c, d \in new : c[1] = d[1] => c = d
          OBVIOUS
        <4> QED BY <4>1, <4>2 DEF LInv, Single, OneEach
      <3> HIDE DEF new
      <3> QED
        BY <1>2, <2>1, <3>1, <3>2, <3>3, <3>4, EmptyBook
        DEF Ready, ProcShape, IsWriter, Writing, Approved
    <2>2. CASE ~(candidates.whole /\ created # {})
      BY <2>2 DEF Ready, ProcShape, Idle
    <2> QED BY <2>1, <2>2
  <1>6. UpToDate(v) /\ v.pc # "write"
    BY DEF UpToDate, Idle, Writing
  <1> HIDE DEF v
  <1> QED
    BY <1>1, <1>2, <1>4, <1>5, <1>6, OneProcess

(* The human looks at candidates, and all of them have recurred.           *)
LEMMA FindCandidateInv ==
  ASSUME LInv, NEW p \in Proc, NEW c \in Candidates, NEW approved \in BOOLEAN,
         FindCandidate(p, c, approved)
  PROVE  LInv'
  <1> DEFINE v == IF approved THEN Working("found", c) ELSE Idle
  <1>1. /\ Set(p, v) /\ proc[p].pc # "write"
    BY DEF FindCandidate, Idle, LInv, Shape, Set
  <1>2. human' = IF approved THEN human \cup {c} ELSE human
    BY DEF FindCandidate
  <1>3. /\ human \subseteq human' /\ human' \subseteq Candidates
        /\ \A d \in human' : Recurred(d[1])
        /\ issued \in [Pattern -> 0 .. MaxIds] /\ rules \in 0 .. MaxIds /\ rules <= rules
    BY <1>2, Bounds DEF FindCandidate, LInv, Shape, Earned
  <1>4. Ready(v, human', rules') /\ UpToDate(v) /\ v.pc # "write"
    BY <1>2 DEF Ready, UpToDate, ProcShape, Working, Idle
  <1> HIDE DEF v
  <1> QED
    BY <1>1, <1>3, <1>4, OneProcess DEF FindCandidate

(* The rule gets an id that neither the registry nor any copy of it has.   *)
LEMMA ActivateRuleInv ==
  ASSUME LInv, NEW p \in Proc, ActivateRule(p)
  PROVE  LInv'
  <1> DEFINE rule == [cand |-> proc[p].arg, expires |-> clock + TTL, status |-> "active"]
             book == With(registry.content, rules + 1, rule)
             v == IF registry.whole THEN Writing("registry", {}, book) ELSE Idle
  <1>1. /\ Set(p, v) /\ proc[p].pc = "found"
        /\ UNCHANGED <<ledger, candidates, registry, clock, issued, human, harm>>
    BY DEF ActivateRule
  <1>2. /\ human \subseteq Candidates /\ \A c \in human : Recurred(c[1])
        /\ issued \in [Pattern -> 0 .. MaxIds]
        /\ rules' \in 0 .. MaxIds /\ rules <= rules'
        /\ registry.whole => rules' = rules + 1 /\ rules + 1 \in RuleIds
    BY Bounds DEF LInv, Shape, Earned, ActivateRule, RuleIds
  <1>3. proc[p].arg \in human /\ rule \in Rules
    <2>1. proc[p].arg \in human
      BY <1>1, ReadyAll DEF Ready
    <2>2. clock + TTL \in Nat
      BY Bounds DEF LInv, Shape
    <2> QED BY <1>2, <2>1, <2>2 DEF Rules
  <1>4. ASSUME registry.whole
        PROVE  /\ IsRegistry(book) /\ Approved(book, human') /\ DOMAIN book \subseteq 1 .. rules'
               /\ Adds(registry.content, book)
    <2> HIDE DEF rule
    <2>1. /\ DOMAIN book = DOMAIN registry.content \cup {rules + 1}
          /\ \A i \in DOMAIN book : book[i] = IF i = rules + 1 THEN rule ELSE registry.content[i]
      BY DEF With
    <2>2. rules + 1 \notin DOMAIN registry.content /\ DOMAIN registry.content \subseteq 1 .. rules
          /\ rules \in Nat
      BY Bounds DEF LInv, Current, Shape
    <2>3. IsRegistry(book)
      BY <1>2, <1>3, <1>4, <2>1 DEF With, IsRegistry, LInv, Shape
    <2>4. Approved(book, human')
      <3>1. rule.cand \in human
        BY <1>3 DEF rule
      <3> QED
        BY <1>1, <2>1, <3>1 DEF Approved, LInv, Earned
    <2>5. DOMAIN book \subseteq 1 .. rules'
      BY <1>2, <1>4, <2>1, <2>2
    <2>6. Adds(registry.content, book)
      <3>1. rule.status = "active" /\ book[rules + 1] = rule
        BY <2>1 DEF rule
      <3> QED BY <1>2, <1>4, <2>1, <2>2, <3>1 DEF Adds
    <2> QED BY <2>3, <2>4, <2>5, <2>6
  <1> HIDE DEF book, rule
  <1>5. Ready(v, human', rules') /\ UpToDate(v) /\ v.pc # "write"
    BY <1>4 DEF Ready, UpToDate, ProcShape, IsWriter, Writing, Idle, OneEach
  <1> HIDE DEF v
  <1> QED
    BY <1>1, <1>2, <1>5, OneProcess

LEMMA RewriteInv ==
  ASSUME LInv, NEW p \in Proc, NEW due \in SUBSET Active,
         NEW status \in {"expired", "rolled_back"}, Rewrite(p, due, status)
  PROVE  LInv'
  <1> DEFINE book == [i \in DOMAIN registry.content |->
                        IF i \in due THEN [registry.content[i] EXCEPT !.status = status]
                                     ELSE registry.content[i]]
             v == Writing("registry", {}, book)
  <1>1. /\ Set(p, v) /\ proc[p].pc # "write"
        /\ UNCHANGED <<ledger, candidates, registry, clock, issued, rules, human, harm>>
    BY DEF Rewrite, Idle
  <1>2. /\ human \subseteq Candidates /\ \A c \in human : Recurred(c[1])
        /\ issued \in [Pattern -> 0 .. MaxIds]
        /\ rules \in 0 .. MaxIds /\ rules <= rules
    BY Bounds DEF LInv, Shape, Earned
  <1>3. /\ DOMAIN book = DOMAIN registry.content
        /\ \A i \in DOMAIN book : book[i] \in Rules /\ book[i].cand = registry.content[i].cand
    BY DEF LInv, Shape, IsRegistry, Rules
  <1>4. IsRegistry(book)
    <2>1. book \in [DOMAIN registry.content -> Rules]
      BY <1>3
    <2> QED BY <1>3, <2>1 DEF IsRegistry, LInv, Shape
  <1>5. Approved(book, human') /\ DOMAIN book \subseteq 1 .. rules'
    BY <1>1, <1>3 DEF Approved, LInv, Earned, Current
  <1>6. Retires(registry.content, book)
    <2>1. due \subseteq {i \in DOMAIN registry.content : registry.content[i].status = "active"}
      BY DEF Active
    <2>2. due # {}
      BY DEF Rewrite
    <2> QED BY <2>1, <2>2 DEF Retires
  <1> HIDE DEF book
  <1>7. Ready(v, human', rules') /\ UpToDate(v) /\ v.pc # "write"
    BY <1>4, <1>5, <1>6 DEF Ready, UpToDate, ProcShape, IsWriter, Writing, OneEach
  <1> HIDE DEF v
  <1> QED
    BY <1>1, <1>2, <1>7, OneProcess

(* The ledger only grows, so that what recurred has recurred for good.     *)
LEMMA WorldInv ==
  ASSUME LInv, append_failure \/ Tick \/ UNCHANGED vars
  PROVE  LInv'
  <1>1. UNCHANGED <<candidates, registry, proc, issued, rules, human, harm>>
    BY DEF append_failure, Tick, vars
  <1>2. /\ ledger' \in [Pattern -> [rows : 0 .. MaxRows, evidence : BOOLEAN]]
        /\ clock' \in 0 .. MaxTime
        /\ \A x \in Pattern : Recurred(x) => Recurred(x)'
    <2>1. CASE append_failure
      <3>1. PICK x \in Pattern, evidence \in BOOLEAN :
                /\ ledger[x].rows < MaxRows
                /\ ledger' = [ledger EXCEPT ![x] =
                       [rows |-> @.rows + 1, evidence |-> @.evidence \/ evidence]]
        BY <2>1 DEF append_failure
      <3>2. /\ ledger[x].rows \in 0 .. MaxRows /\ ledger[x].evidence \in BOOLEAN
            /\ ledger[x].rows + 1 \in 0 .. MaxRows
        BY <3>1, Bounds DEF LInv, Shape
      <3>3. /\ ledger'[x].rows = ledger[x].rows + 1
            /\ ledger'[x].evidence = (ledger[x].evidence \/ evidence)
            /\ \A y \in Pattern : y # x => ledger'[y] = ledger[y]
        BY <3>1 DEF LInv, Shape
      <3>4. ledger' \in [Pattern -> [rows : 0 .. MaxRows, evidence : BOOLEAN]]
        BY <3>1, <3>2 DEF LInv, Shape
      <3>5. Recurred(x) => Recurred(x)'
        <4>1. ledger[x].rows >= min_occurrences => ledger'[x].rows >= min_occurrences
          BY <3>2, <3>3 DEF min_occurrences
        <4>2. ledger[x].evidence => ledger'[x].evidence
          BY <3>3, Zenon
        <4> QED BY <4>1, <4>2 DEF Recurred
      <3>6. \A y \in Pattern : y # x => (Recurred(y) => Recurred(y)')
        BY <3>3 DEF Recurred
      <3> QED
        BY <2>1, <3>4, <3>5, <3>6 DEF append_failure, LInv, Shape
    <2>2. CASE Tick \/ UNCHANGED vars
      BY <2>2, Bounds DEF Tick, vars, LInv, Shape, Recurred
    <2> QED BY <2>1, <2>2
  <1>3. Shape'
    BY <1>1, <1>2 DEF LInv, Shape
  <1>4. Earned'
    <2>1. \A c \in candidates.content \cup human : c[1] \in Pattern
      BY DEF LInv, Shape, CandidateFile, Candidates
    <2>2. \A p \in Proc : /\ proc[p].pc = "grouped" => proc[p].arg \subseteq Pattern
                          /\ Writes(p) => \A c \in proc[p].cands : c[1] \in Pattern
      BY DEF LInv, Shape, ProcShape, IsWriter, Writes, Candidates, Idle, Working
    <2> QED
      BY <1>1, <1>2, <2>1, <2>2 DEF LInv, Earned, Writes, Approved
  <1>5. Single' /\ Tended' /\ Current'
    BY <1>1 DEF LInv, Single, Tended, Current, Writes
  <1> QED BY <1>3, <1>4, <1>5 DEF LInv

LEMMA IdleReady == Ready(Idle, human, rules) /\ UpToDate(Idle)
  BY DEF Ready, UpToDate, ProcShape, Idle

LEMMA KillInv ==
  ASSUME LInv, NEW p \in Proc, Kill(p)
  PROVE  LInv'
  <1>1. /\ proc'[p] = Idle /\ \A q \in Proc : q # p => proc'[q] = proc[q]
        /\ proc' = [q \in Proc |-> proc'[q]]
        /\ UNCHANGED <<ledger, candidates, registry, clock, issued, rules, human>>
    BY SetProc DEF Kill, LInv
  <1>2. \A q \in Proc : Ready(proc[q], human, rules)' /\ UpToDate(proc[q])'
    BY <1>1, ReadyAll, IdleReady DEF Ready, UpToDate, Recurred
  <1>3. Shape'
    BY <1>1, <1>2 DEF LInv, Shape, Ready, Kill
  <1>4. Earned' /\ Single' /\ Current'
    BY <1>1, <1>2 DEF LInv, Earned, Single, Current, Ready, UpToDate, Recurred, Writes
  <1>5. Tended'
    BY <1>1 DEF LInv, Tended, Kill
  <1> QED BY <1>3, <1>4, <1>5 DEF LInv

(* The file p empties is p's to fill.                                      *)
LEMMA OpenFileInv ==
  ASSUME LInv, NEW p \in Proc, OpenFile(p)
  PROVE  LInv'
  <1> DEFINE w == proc[p]
             v == Still(w, "write", w.fresh, TRUE)
  <1>1. /\ proc'[p] = v /\ \A q \in Proc : q # p => proc'[q] = proc[q]
        /\ proc' = [q \in Proc |-> proc'[q]] /\ w.pc = "open"
        /\ UNCHANGED <<ledger, clock, issued, rules, human, harm>>
        /\ candidates'.content = candidates.content
        /\ registry'.content = registry.content
        /\ \/ /\ candidates' = [whole |-> FALSE, content |-> candidates.content]
              /\ registry' = registry /\ w.file = "candidates"
           \/ /\ registry' = [whole |-> FALSE, content |-> registry.content]
              /\ candidates' = candidates /\ w.file # "candidates"
    <2>1. /\ Set(p, v) /\ w.pc = "open"
          /\ UNCHANGED <<ledger, clock, issued, rules, human, harm>>
          /\ \/ /\ candidates' = [whole |-> FALSE, content |-> candidates.content]
                /\ registry' = registry /\ w.file = "candidates"
             \/ /\ registry' = [whole |-> FALSE, content |-> registry.content]
                /\ candidates' = candidates /\ w.file # "candidates"
      BY DEF OpenFile
    <2> HIDE DEF v
    <2> QED BY <2>1, SetProc DEF LInv
  <1>2. /\ v.pc = "write" /\ v.file = w.file /\ v.cands = w.cands /\ v.book = w.book
        /\ v.fresh = w.fresh
    BY DEF Still
  <1>3. IsWriter(w) /\ IsWriter(v)
    <2>1. IsWriter(w)
      BY <1>1 DEF LInv, Shape, ProcShape
    <2> QED BY <2>1 DEF IsWriter, Still
  <1>4. /\ candidates' \in CandidateFile
        /\ registry' = [whole |-> registry'.whole, content |-> registry'.content]
        /\ registry'.whole \in BOOLEAN
    <2>1. candidates.content \subseteq Candidates /\ candidates \in CandidateFile
      BY DEF LInv, Shape, CandidateFile
    <2>2. [whole |-> FALSE, content |-> candidates.content] \in CandidateFile
      BY <2>1 DEF CandidateFile
    <2>3. LET f == [whole |-> FALSE, content |-> registry.content]
          IN  f = [whole |-> f.whole, content |-> f.content] /\ f.whole \in BOOLEAN
      OBVIOUS
    <2>4. /\ registry = [whole |-> registry.whole, content |-> registry.content]
          /\ registry.whole \in BOOLEAN
      BY DEF LInv, Shape
    <2> QED BY ONLY <1>1, <2>1, <2>2, <2>3, <2>4
  <1> HIDE DEF w, v
  <1>5. Ready(w, human, rules) /\ UpToDate(w)
    BY ReadyAll DEF w
  <1>6. Ready(v, human, rules) /\ UpToDate(v)
    BY <1>1, <1>2, <1>3, <1>5 DEF Ready, UpToDate, ProcShape
  <1>7. \A q \in Proc : Ready(proc[q], human, rules)' /\ UpToDate(proc[q])'
    BY <1>1, <1>6, ReadyAll DEF Ready, UpToDate, Recurred
  <1>8. Shape'
    BY <1>1, <1>4, <1>7 DEF LInv, Shape, Ready
  <1>9. Earned' /\ Single' /\ Current'
    BY <1>1, <1>7 DEF LInv, Earned, Single, Current, Ready, UpToDate, Recurred, Writes
  <1>10. Tended'
    <2>1. \A q \in Proc : proc[q].pc = "write" =>
              proc'[q].pc = "write" /\ proc'[q].file = proc[q].file
      BY <1>1 DEF w
    <2>2. proc'[p].pc = "write" /\ proc'[p].file = w.file
      BY <1>1, <1>2
    <2>3. /\ ~candidates'.whole => w.file = "candidates" \/ ~candidates.whole
          /\ ~registry'.whole => w.file = "registry" \/ ~registry.whole
      BY <1>1, <1>3 DEF IsWriter
    <2> QED
      BY <1>1, <2>1, <2>2, <2>3 DEF LInv, Tended
  <1> QED BY <1>8, <1>9, <1>10 DEF LInv

(* A write makes every other copy of the file stale.                       *)
LEMMA WriteFileInv ==
  ASSUME LInv, NEW p \in Proc, WriteFile(p)
  PROVE  LInv'
  <1> DEFINE w == proc[p]
  <1>1. /\ w.pc = "write" /\ IsWriter(w) /\ Ready(w, human, rules)
        /\ UNCHANGED <<ledger, clock, issued, rules, human>>
        /\ harm' \subseteq {"stale", "overlap", "killed"}
        /\ harm \subseteq harm' /\ (~w.alone => "overlap" \in harm')
    BY ReadyAll DEF WriteFile, LInv, Shape, ProcShape, Idle, Working
  <1>2. /\ proc'[p] = Idle /\ proc' = [q \in Proc |-> proc'[q]]
        /\ \A q \in Proc : q # p =>
             proc'[q] = IF InWrite(q, w.file)
                        THEN Still(proc[q], proc[q].pc, FALSE, FALSE) ELSE proc[q]
    BY DEF WriteFile, Outdate
  <1>3. \A q \in Proc : q # p /\ InWrite(q, w.file) =>
            /\ IsWriter(proc[q]) /\ IsWriter(proc'[q])
            /\ proc'[q].pc = proc[q].pc /\ proc'[q].file = proc[q].file
            /\ proc'[q].cands = proc[q].cands /\ proc'[q].book = proc[q].book
            /\ ~proc'[q].fresh
    <2> SUFFICES ASSUME NEW q \in Proc, q # p, InWrite(q, w.file)
                 PROVE  /\ IsWriter(proc[q]) /\ IsWriter(proc'[q])
                        /\ proc'[q].pc = proc[q].pc /\ proc'[q].file = proc[q].file
                        /\ proc'[q].cands = proc[q].cands /\ proc'[q].book = proc[q].book
                        /\ ~proc'[q].fresh
      OBVIOUS
    <2>1. IsWriter(proc[q])
      BY DEF LInv, Shape, ProcShape, InWrite
    <2>2. proc'[q] = Still(proc[q], proc[q].pc, FALSE, FALSE)
      BY <1>2
    <2> QED BY <2>1, <2>2 DEF IsWriter, Still
  <1>4. PICK whole \in BOOLEAN :
          IF w.file = "candidates"
          THEN /\ candidates' = [whole |-> whole, content |-> w.cands]
               /\ registry' = registry
          ELSE /\ registry' = [whole |-> whole, content |-> w.book]
               /\ candidates' = candidates
    BY DEF WriteFile
  <1>5. /\ candidates' \in CandidateFile
        /\ registry' = [whole |-> registry'.whole, content |-> registry'.content]
        /\ registry'.whole \in BOOLEAN /\ IsRegistry(registry'.content)
    BY <1>1, <1>4 DEF IsWriter, LInv, Shape, CandidateFile
  <1> HIDE DEF w
  <1>6. \A q \in Proc : Ready(proc'[q], human, rules)
    <2> SUFFICES ASSUME NEW q \in Proc PROVE Ready(proc'[q], human, rules)
      OBVIOUS
    <2>1. CASE q = p
      BY <1>2, <2>1, IdleReady
    <2>2. CASE q # p /\ ~InWrite(q, w.file)
      BY <1>2, <2>2, ReadyAll DEF w
    <2>3. CASE q # p /\ InWrite(q, w.file)
      BY <1>3, <2>3, ReadyAll DEF Ready, ProcShape, InWrite, IsWriter
    <2> QED BY <2>1, <2>2, <2>3
  <1>7. \A q \in Proc : Ready(proc[q], human, rules)'
    BY <1>1, <1>6 DEF Ready, Recurred
  <1>8. \A q \in Proc : UpToDate(proc[q])'
    <2> SUFFICES ASSUME NEW q \in Proc PROVE UpToDate(proc[q])'
      OBVIOUS
    <2>1. CASE q = p
      BY <1>2, <2>1 DEF UpToDate, Idle
    <2>2. CASE q # p /\ InWrite(q, w.file)
      BY <1>3, <2>2 DEF UpToDate
    <2>3. CASE q # p /\ ~InWrite(q, w.file)
      <3>1. proc'[q] = proc[q]
        BY <1>2, <2>3 DEF w
      <3>2. proc[q].pc \in {"open", "write"} /\ proc[q].file = "registry" =>
                registry' = registry
        BY <1>1, <1>4, <2>3 DEF InWrite, IsWriter
      <3> QED BY <3>1, <3>2, ReadyAll DEF UpToDate
    <2> QED BY <2>1, <2>2, <2>3
  <1>9. Shape'
    BY <1>1, <1>2, <1>5, <1>7 DEF LInv, Shape, Ready
  <1>10. Earned' /\ Single'
    <2>1. \A c \in candidates'.content \cup human' : Recurred(c[1])'
      BY <1>1, <1>4 DEF LInv, Earned, Ready, Recurred
    <2>2. Approved(registry.content, human)' /\ OneEach(candidates.content)'
      BY <1>1, <1>4 DEF LInv, Earned, Single, Ready
    <2> QED BY <1>7, <2>1, <2>2 DEF Earned, Single, Ready, Writes
  <1>11. Current'
    <2>1. DOMAIN registry'.content \subseteq 1 .. rules'
      BY <1>1, <1>4 DEF LInv, Current, Ready
    <2> QED BY <1>7, <1>8, <2>1 DEF Current, Ready, UpToDate, Writes
  <1>12. Tended'
    <2> SUFFICES ASSUME harm' \cap {"killed", "overlap"} = {}
                 PROVE  /\ ~candidates'.whole => \E q \in Proc : proc'[q].pc = "write"
                                                        /\ proc'[q].file = "candidates"
                        /\ ~registry'.whole => \E q \in Proc : proc'[q].pc = "write"
                                                        /\ proc'[q].file = "registry"
      BY DEF Tended
    <2>1. w.alone /\ harm \cap {"killed", "overlap"} = {}
      BY <1>1
    <2>2. ASSUME NEW q \in Proc, proc[q].pc = "write", proc[q].file # w.file
          PROVE  proc'[q].pc = "write" /\ proc'[q].file = proc[q].file
      BY <1>2, <2>2 DEF InWrite, w
    <2>3. /\ ~candidates'.whole => w.file # "candidates" /\ ~candidates.whole
          /\ ~registry'.whole => w.file # "registry" /\ ~registry.whole
      <3>1. IF w.file = "candidates"
            THEN /\ candidates' = [whole |-> TRUE, content |-> w.cands]
                 /\ registry' = registry
            ELSE /\ registry' = [whole |-> TRUE, content |-> w.book]
                 /\ candidates' = candidates
        BY <2>1 DEF WriteFile, w
      <3> QED BY <1>1, <3>1 DEF IsWriter
    <2> QED
      BY <2>1, <2>2, <2>3 DEF LInv, Tended
  <1> QED BY <1>9, <1>10, <1>11, <1>12 DEF LInv

LEMMA InvStep == LInv /\ [Next]_vars => LInv'
  <1> SUFFICES ASSUME LInv, [Next]_vars PROVE LInv'
    OBVIOUS
  <1>1. ASSUME NEW p \in Proc, list_active_rules(p) PROVE LInv'
    <2> DEFINE due == {i \in Active : registry.content[i].expires <= clock}
    <2>1. due \in SUBSET Active /\ Rewrite(p, due, "expired")
      BY <1>1 DEF list_active_rules
    <2> HIDE DEF due
    <2> QED BY <2>1, RewriteInv
  <1>2. ASSUME NEW p \in Proc, NEW id \in RuleIds, record_rule_impact(p, id) PROVE LInv'
    <2>1. Active \cap {id} \in SUBSET Active /\ Rewrite(p, Active \cap {id}, "rolled_back")
      BY <1>2 DEF record_rule_impact
    <2> QED BY <2>1, RewriteInv
  <1>3. CASE append_failure \/ Tick \/ UNCHANGED vars
    BY <1>3, WorldInv
  <1>4. ASSUME NEW p \in Proc, Step(p) PROVE LInv'
    BY <1>1, <1>2, <1>4, GroupLedgerInv, CreateCandidatesInv, FindCandidateInv,
       ActivateRuleInv, OpenFileInv, WriteFileInv, KillInv DEF Step
  <1> QED BY <1>3, <1>4 DEF Next

LEMMA InvHolds == Spec => []LInv
  BY InvInit, InvStep, PTL DEF Spec

-----------------------------------------------------------------------------
(* Files and processes only ever hold what their types allow: whoever      *)
(* overlaps and whoever is killed, what parses is a list of candidates, or *)
(* of rules with ids that were given out.                                  *)
THEOREM TypeCorrect == Spec => []TypeOK
  <1>1. LInv => TypeOK
    BY ShapeType DEF LInv
  <1> QED BY <1>1, InvHolds, PTL

(* The human gate cannot be passed by a race: whatever is overwritten, the *)
(* copy that replaces it was made from rules that a human had approved.    *)
THEOREM GateHolds == Spec => []HumanGate
  <1>1. LInv => HumanGate
    BY DEF LInv, Earned, Approved, Recurred, HumanGate
  <1> QED BY <1>1, InvHolds, PTL

(* Every list of candidates has at most one for each pattern, lost updates *)
(* or not.                                                                 *)
THEOREM OneCandidate == Spec => []OneCandidatePerPattern
  <1>1. LInv => OneCandidatePerPattern
    BY DEF LInv, Single, OneEach, OneCandidatePerPattern
  <1> QED BY <1>1, InvHolds, PTL

(* A file is found empty at rest only after a kill inside write_text or an *)
(* overlap of two: whoever emptied it alone and was let live has filled it.*)
THEOREM RestReadable == Spec => []ReadableAtRest
  <1>1. LInv => ReadableAtRest
    BY DEF LInv, Tended, ReadableAtRest
  <1> QED BY <1>1, InvHolds, PTL

-----------------------------------------------------------------------------
(* The rules on file change only when a process writes the copy it holds.  *)
LEMMA RegistryChange ==
  ASSUME LInv, [Next]_vars
  PROVE  \/ registry'.content = registry.content
         \/ \E p \in Proc : /\ proc[p].pc = "write" /\ proc[p].file = "registry"
                            /\ registry'.content = proc[p].book
                            /\ proc'[p] = Idle
                            /\ ~proc[p].fresh => "stale" \in harm'
                            /\ proc[p].fresh => UpToDate(proc[p])
  <1> USE DEF Set
  <1>1. CASE UNCHANGED registry
    BY <1>1
  <1>2. CASE ~UNCHANGED registry
    <2>1. PICK p \in Proc : OpenFile(p) \/ WriteFile(p)
      BY <1>2 DEF Next, vars, Step, append_failure, Tick, GroupLedger, CreateCandidates,
         FindCandidate, ActivateRule, list_active_rules, record_rule_impact, Rewrite, Kill
    <2>2. CASE OpenFile(p)
      <3>1. registry'.content = registry.content
        BY <2>2 DEF OpenFile
      <3> QED BY <3>1
    <2>3. CASE WriteFile(p)
      <3>1. proc[p].pc = "write" /\ proc[p].file # "candidates" /\ IsWriter(proc[p])
        BY <1>2, <2>3 DEF WriteFile, LInv, Shape, ProcShape
      <3>2. registry'.content = proc[p].book /\ proc'[p] = Idle
        BY <2>3, <3>1 DEF WriteFile, Outdate
      <3>3. ~proc[p].fresh => "stale" \in harm'
        BY <2>3 DEF WriteFile
      <3> QED BY <3>1, <3>2, <3>3, ReadyAll DEF IsWriter
    <2> QED BY <2>1, <2>2, <2>3
  <1> QED BY <1>1, <1>2

LEMMA RetiredKept ==
  ASSUME NEW old, NEW new, NEW id \in DOMAIN old, old[id].status # "active",
         Adds(old, new) \/ Retires(old, new)
  PROVE  id \in DOMAIN new /\ new[id] = old[id]
  BY DEF Adds, Retires, With

(* A rule that expired or was rolled back comes back only through a stale  *)
(* write: any other write is one call's change to the rules on file, and   *)
(* no call touches a retired rule.                                         *)
THEOREM RetiredForGood == Spec => RetiredStay
  <1>1. LInv /\ [Next]_vars =>
          \/ StaleWrite
          \/ \A id \in DOMAIN registry.content \ Active :
                /\ id \in DOMAIN registry'.content
                /\ registry'.content[id] = registry.content[id]
    <2> SUFFICES ASSUME LInv, [Next]_vars, ~StaleWrite,
                        NEW id \in DOMAIN registry.content \ Active
                 PROVE  /\ id \in DOMAIN registry'.content
                        /\ registry'.content[id] = registry.content[id]
      OBVIOUS
    <2>1. CASE registry'.content = registry.content
      BY <2>1
    <2>2. CASE registry'.content # registry.content
      <3>1. PICK p \in Proc : /\ proc[p].pc = "write" /\ proc[p].file = "registry"
                              /\ registry'.content = proc[p].book
                              /\ proc[p].fresh /\ UpToDate(proc[p])
        BY <2>2, RegistryChange DEF StaleWrite
      <3>2. \/ Adds(registry.content, registry'.content)
            \/ Retires(registry.content, registry'.content)
        BY <3>1 DEF UpToDate
      <3>3. registry.content[id].status # "active"
        BY DEF Active
      <3> QED BY <3>2, <3>3, RetiredKept
    <2> QED BY <2>1, <2>2
  <1> QED BY <1>1, InvHolds, PTL DEF Spec, RetiredStay

(* One call's change to the rules is a step of RuleBook.                   *)
LEMMA AddIsApprove ==
  ASSUME Adds(registry.content, registry'.content)
  PROVE  Book!Approve
  <1>1. PICK id \in RuleIds \ DOMAIN registry.content :
            /\ registry'.content = With(registry.content, id, registry'.content[id])
            /\ registry'.content[id].status = "active"
    BY DEF Adds
  <1>2. /\ DOMAIN registry'.content = DOMAIN registry.content \cup {id}
        /\ \A i \in DOMAIN registry.content : registry'.content[i] = registry.content[i]
    BY <1>1 DEF With
  <1>3. Status' = [i \in DOMAIN Status \cup {id} |-> IF i = id THEN "active" ELSE Status[i]]
    BY <1>1, <1>2 DEF Status
  <1> QED BY <1>1, <1>3 DEF Book!Approve, Status

LEMMA RetireIsRetire ==
  ASSUME LInv, Retires(registry.content, registry'.content)
  PROVE  Book!Retire
  <1>1. PICK gone \in SUBSET {i \in DOMAIN registry.content : registry.content[i].status = "active"},
             status \in {"expired", "rolled_back"} :
            /\ gone # {}
            /\ registry'.content =
                 [i \in DOMAIN registry.content |->
                    IF i \in gone THEN [registry.content[i] EXCEPT !.status = status]
                                  ELSE registry.content[i]]
    BY DEF Retires
  <1>2. \A i \in DOMAIN registry.content : registry.content[i] \in Rules
    BY DEF LInv, Shape, IsRegistry
  <1>3. /\ DOMAIN registry'.content = DOMAIN registry.content
        /\ \A i \in DOMAIN registry.content :
              registry'.content[i].status = IF i \in gone THEN status
                                            ELSE registry.content[i].status
    BY <1>1, <1>2 DEF Rules
  <1>4. Status' = [i \in DOMAIN Status |-> IF i \in gone THEN status ELSE Status[i]]
    BY <1>3 DEF Status
  <1>5. gone \in SUBSET {i \in DOMAIN Status : Status[i] = "active"}
    BY <1>1 DEF Status
  <1> QED BY <1>1, <1>4, <1>5 DEF Book!Retire

(* The refinement: while no write was lost, overlapped or cut off, the     *)
(* statuses on file are the abstract book of rules, and each write is one  *)
(* approval or one retirement of it.                                       *)
THEOREM Refinement == Spec => ImplementsBook
  <1>1. Init => Book!Opened
    BY DEF Init, Book!Opened, Status
  <1>2. LInv /\ [Next]_vars => (harm' = {} => [Book!Turn]_Status)
    <2> SUFFICES ASSUME LInv, [Next]_vars, harm' = {} PROVE [Book!Turn]_Status
      OBVIOUS
    <2>1. CASE registry'.content = registry.content
      BY <2>1 DEF Status
    <2>2. CASE registry'.content # registry.content
      <3>1. \/ Adds(registry.content, registry'.content)
            \/ Retires(registry.content, registry'.content)
        BY <2>2, RegistryChange DEF UpToDate
      <3> QED BY <3>1, AddIsApprove, RetireIsRetire DEF Book!Turn
    <2> QED BY <2>1, <2>2
  <1> QED BY <1>1, <1>2, InvHolds, PTL DEF Spec, ImplementsBook
=============================================================================
