--------------------------- MODULE LearningStore ---------------------------
(***************************************************************************)
(* SupervisedLearningStore (sdd_runtime.learning): skills append to a      *)
(* ledger, patterns that recur in it become rule candidates, a human       *)
(* approves or rejects a candidate, and an approved rule is active until   *)
(* it expires or is rolled back.  Candidates and rules are JSON files that *)
(* every command reads, changes in memory and writes back with write_text  *)
(* - which empties the file when it opens it and fills it when it closes   *)
(* it - without a lock, and the process may be killed between any two      *)
(* calls.  The ledger only grows, one appended line at a time.             *)
(***************************************************************************)
EXTENDS Naturals, FiniteSets

CONSTANTS Proc,         \* processes that use the store of one workspace
          Pattern,      \* symptom and root cause of a ledger row
          TTL,          \* how long an approved rule lives
          MaxTime,      \* bound: the clock
          MaxRows,      \* bound: rows of one pattern
          MaxIds        \* bound: candidates of one pattern, and rules

ASSUME LearningAssumption == TTL \in Nat \ {0} /\ {MaxTime, MaxRows, MaxIds} \subseteq Nat

VARIABLES ledger,       \* failure-ledger.jsonl
          candidates,   \* rule-candidates.json
          registry,     \* rule-registry.json
          proc,         \* what each process is doing
          clock,
          issued,       \* ids given to candidates of a pattern so far
          rules,        \* ids given to rules so far
          human,        \* ghost: candidates some call approved, for a human
          harm          \* ghost: what has gone wrong between processes

vars == <<ledger, candidates, registry, proc, clock, issued, rules, human, harm>>

min_occurrences == 2

Candidates == Pattern \X (1 .. MaxIds)
RuleIds    == 1 .. MaxIds
Rules      == [cand : Candidates, expires : Nat,
               status : {"active", "expired", "rolled_back"}]
IsRegistry(r) == DOMAIN r \subseteq RuleIds /\ r \in [DOMAIN r -> Rules]

(* A file that is not whole does not parse: a call that reads it raises.   *)
(* Its content is then what it held when it last was.                      *)
CandidateFile == [whole : BOOLEAN, content : SUBSET Candidates]

(* A process at work: the file it will write, the candidates or rules it   *)
(* will write there, and whether nobody wrote that file since it read it   *)
(* (fresh) and since it emptied it (alone).                                *)
Idle == [pc |-> "idle"]
Working(pc, arg) == [pc |-> pc, arg |-> arg]
Writing(file, cands, book) ==
    [pc |-> "open", file |-> file, cands |-> cands, book |-> book,
     fresh |-> TRUE, alone |-> TRUE]

Still(w, pc, fresh, alone) ==
    [pc |-> pc, file |-> w.file, cands |-> w.cands, book |-> w.book,
     fresh |-> fresh, alone |-> alone]

InWrite(p, file) ==
    proc[p].pc \in {"open", "write"} /\ proc[p].file = file

TypeOK ==
    /\ ledger \in [Pattern -> [rows : 0 .. MaxRows, evidence : BOOLEAN]]
    /\ candidates \in CandidateFile
    /\ registry = [whole |-> registry.whole, content |-> registry.content]
    /\ registry.whole \in BOOLEAN /\ IsRegistry(registry.content)
    /\ \A p \in Proc :
          CASE proc[p].pc = "idle"     -> proc[p] = Idle
            [] proc[p].pc = "grouped"  -> proc[p].arg \subseteq Pattern
            [] proc[p].pc = "found"    -> proc[p].arg \in Candidates
            [] OTHER -> /\ proc[p].pc \in {"open", "write"}
                        /\ {proc[p].fresh, proc[p].alone} \subseteq BOOLEAN
                        /\ proc[p].file \in {"candidates", "registry"}
                        /\ proc[p].cands \subseteq Candidates
                        /\ IsRegistry(proc[p].book)
    /\ clock \in 0 .. MaxTime
    /\ issued \in [Pattern -> 0 .. MaxIds]
    /\ rules \in 0 .. MaxIds
    /\ human \subseteq Candidates
    /\ harm \subseteq {"stale", "overlap", "killed"}

Init ==
    /\ ledger = [pattern \in Pattern |-> [rows |-> 0, evidence |-> FALSE]]
    /\ candidates = [whole |-> TRUE, content |-> {}]
    /\ registry = [whole |-> TRUE, content |-> <<>>]
    /\ proc = [p \in Proc |-> Idle]
    /\ clock = 0
    /\ issued = [pattern \in Pattern |-> 0] /\ rules = 0
    /\ human = {} /\ harm = {}

Set(p, state) == proc' = [proc EXCEPT ![p] = state]

-----------------------------------------------------------------------------
append_failure ==
    \E pattern \in Pattern, evidence \in BOOLEAN :
        /\ ledger[pattern].rows < MaxRows
        /\ ledger' = [ledger EXCEPT ![pattern] =
                         [rows |-> @.rows + 1, evidence |-> @.evidence \/ evidence]]
        /\ UNCHANGED <<candidates, registry, proc, clock, issued, rules, human, harm>>

(* generate_candidates_from_ledger: the rows are grouped from one read of  *)
(* the ledger, the existing patterns from a later one of the candidates.   *)
Recurring == {pattern \in Pattern : /\ ledger[pattern].rows >= min_occurrences
                                    /\ ledger[pattern].evidence}

GroupLedger(p) ==
    /\ proc[p] = Idle
    /\ Set(p, Working("grouped", Recurring))
    /\ UNCHANGED <<ledger, candidates, registry, clock, issued, rules, human, harm>>

(* Mutant: existing_patterns is not consulted.                             *)
CreatedAgain(grouped) == grouped

Created(grouped) == grouped \ {c[1] : c \in candidates.content}

CreateCandidates(p) ==
    /\ proc[p].pc = "grouped"
    /\ LET created == Created(proc[p].arg)
       IN IF candidates.whole /\ created # {}
          THEN /\ \A pattern \in created : issued[pattern] < MaxIds
               /\ issued' = [x \in Pattern |->
                                IF x \in created THEN issued[x] + 1 ELSE issued[x]]
               /\ Set(p, Writing("candidates",
                         candidates.content \cup {<<x, issued[x] + 1>> : x \in created}, <<>>))
          ELSE Set(p, Idle) /\ UNCHANGED issued
    /\ UNCHANGED <<ledger, candidates, registry, clock, rules, human, harm>>

(* Mutant: a rejection goes the same way as an approval.                   *)
FindAnyDecision(p, c, approved) ==
    /\ proc[p] = Idle
    /\ candidates.whole /\ c \in candidates.content
    /\ Set(p, Working("found", c)) /\ human' = IF approved THEN human \cup {c} ELSE human
    /\ UNCHANGED <<ledger, candidates, registry, clock, issued, rules, harm>>

(* decide_rule: the candidate is looked up in one file, the approval goes  *)
(* to the other.  A rejection, or a candidate that is not found, leaves no *)
(* trace.                                                                  *)
FindCandidate(p, c, approved) ==
    /\ proc[p] = Idle
    /\ candidates.whole /\ c \in candidates.content
    /\ IF approved
       THEN Set(p, Working("found", c)) /\ human' = human \cup {c}
       ELSE UNCHANGED <<proc, human>>
    /\ UNCHANGED <<ledger, candidates, registry, clock, issued, rules, harm>>

(* Mutant: the rule is appended to the default instead of what was read.   *)
WithNothing(content, id, rule) == [i \in {id} |-> rule]

With(content, id, rule) ==
    [i \in DOMAIN content \cup {id} |-> IF i = id THEN rule ELSE content[i]]

ActivateRule(p) ==
    /\ proc[p].pc = "found"
    /\ IF registry.whole
       THEN /\ rules < MaxIds
            /\ rules' = rules + 1
            /\ Set(p, Writing("registry", {},
                      With(registry.content, rules + 1,
                           [cand |-> proc[p].arg, expires |-> clock + TTL, status |-> "active"])))
       ELSE Set(p, Idle) /\ UNCHANGED rules
    /\ UNCHANGED <<ledger, candidates, registry, clock, issued, human, harm>>

(* Mutant: what is written back is the list of the active rules.           *)
RewriteActive(p, due, status) ==
    /\ proc[p] = Idle
    /\ registry.whole /\ due # {}
    /\ Set(p, Writing("registry", {},
              [i \in {j \in DOMAIN registry.content \ due :
                        registry.content[j].status = "active"} |-> registry.content[i]]))
    /\ UNCHANGED <<ledger, candidates, registry, clock, issued, rules, human, harm>>

(* list_active_rules and _rollback_rule: the rules that are due change     *)
(* their status, and the registry is written if there are any.             *)
Rewrite(p, due, status) ==
    /\ proc[p] = Idle
    /\ registry.whole /\ due # {}
    /\ Set(p, Writing("registry", {},
              [i \in DOMAIN registry.content |->
                 IF i \in due THEN [registry.content[i] EXCEPT !.status = status]
                              ELSE registry.content[i]]))
    /\ UNCHANGED <<ledger, candidates, registry, clock, issued, rules, human, harm>>

Active == {i \in DOMAIN registry.content : registry.content[i].status = "active"}

list_active_rules(p) ==
    Rewrite(p, {i \in Active : registry.content[i].expires <= clock}, "expired")

(* Mutant: a status no reader knows.                                       *)
record_impact_rollback(p, id) ==
    Rewrite(p, Active \cap {id}, "rollback")

record_rule_impact(p, id) ==
    Rewrite(p, Active \cap {id}, "rolled_back")

-----------------------------------------------------------------------------
(* write_text: open empties the file; the write that follows replaces what *)
(* it then holds, which is nothing unless another process wrote meanwhile: *)
(* the longer of the two texts then shows at the end.                      *)
Outdate(p) ==
    [q \in Proc |-> IF q = p THEN Idle
                    ELSE IF InWrite(q, proc[p].file)
                    THEN Still(proc[q], proc[q].pc, FALSE, FALSE)
                    ELSE proc[q]]

OpenFile(p) ==
    /\ proc[p].pc = "open"
    /\ Set(p, Still(proc[p], "write", proc[p].fresh, TRUE))
    /\ IF proc[p].file = "candidates"
       THEN /\ candidates' = [whole |-> FALSE, content |-> candidates.content]
            /\ UNCHANGED registry
       ELSE /\ registry' = [whole |-> FALSE, content |-> registry.content]
            /\ UNCHANGED candidates
    /\ UNCHANGED <<ledger, clock, issued, rules, human, harm>>

(* Mutant: a call that sees that the file has changed gives up, after it   *)
(* has opened it.                                                          *)
WriteUnlessStale(p) ==
    /\ proc[p].pc = "write"
    /\ proc' = IF proc[p].fresh THEN Outdate(p) ELSE [proc EXCEPT ![p] = Idle]
    /\ IF proc[p].fresh
       THEN IF proc[p].file = "candidates"
            THEN candidates' = [whole |-> TRUE, content |-> proc[p].cands] /\ UNCHANGED registry
            ELSE registry' = [whole |-> TRUE, content |-> proc[p].book] /\ UNCHANGED candidates
       ELSE UNCHANGED <<candidates, registry>>
    /\ UNCHANGED <<ledger, clock, issued, rules, human, harm>>

WriteFile(p) ==
    /\ proc[p].pc = "write"
    /\ \E whole \in (IF proc[p].alone THEN {TRUE} ELSE BOOLEAN) :
          IF proc[p].file = "candidates"
          THEN /\ candidates' = [whole |-> whole, content |-> proc[p].cands]
               /\ UNCHANGED registry
          ELSE /\ registry' = [whole |-> whole, content |-> proc[p].book]
               /\ UNCHANGED candidates
    /\ proc' = Outdate(p)
    /\ harm' = harm \cup (IF proc[p].fresh THEN {} ELSE {"stale"})
                    \cup (IF proc[p].alone THEN {} ELSE {"overlap"})
    /\ UNCHANGED <<ledger, clock, issued, rules, human>>

Kill(p) ==
    /\ proc[p] # Idle
    /\ Set(p, Idle)
    /\ harm' = IF proc[p].pc = "write" THEN harm \cup {"killed"} ELSE harm
    /\ UNCHANGED <<ledger, candidates, registry, clock, issued, rules, human>>

Tick ==
    /\ clock < MaxTime
    /\ clock' = clock + 1
    /\ UNCHANGED <<ledger, candidates, registry, proc, issued, rules, human, harm>>

Step(p) ==
    \/ GroupLedger(p) \/ CreateCandidates(p)
    \/ \E c \in Candidates, approved \in BOOLEAN : FindCandidate(p, c, approved)
    \/ ActivateRule(p)
    \/ list_active_rules(p)
    \/ \E id \in RuleIds : record_rule_impact(p, id)
    \/ OpenFile(p) \/ WriteFile(p) \/ Kill(p)

Next == append_failure \/ Tick \/ \E p \in Proc : Step(p)

Spec == Init /\ [][Next]_vars
-----------------------------------------------------------------------------
(* A rule stands in the registry only if a call of decide_rule approved    *)
(* its candidate and the pattern had recurred, with evidence: whatever     *)
(* processes overlap, overwrite each other or are killed (decide_rule is   *)
(* the only door, "Rule activation is human-approved only"; it takes       *)
(* whoever calls it with approved=True for that human).                    *)
HumanGate ==
    \A id \in DOMAIN registry.content :
        LET c == registry.content[id].cand
        IN /\ c \in human
           /\ ledger[c[1]].rows >= min_occurrences /\ ledger[c[1]].evidence

(* A list never shows a human two candidates for one pattern, although two *)
(* generations may read the candidates before either writes them: then one *)
(* list replaces the other (existing_patterns in                           *)
(* generate_candidates_from_ledger).                                       *)
OneCandidatePerPattern ==
    \A c, d \in candidates.content : c[1] = d[1] => c = d

(* With nobody inside write_text both files parse, unless a process was    *)
(* killed there or two were there at once: no call that raises, finds      *)
(* nothing or loses its race leaves a file emptied.                        *)
ReadableAtRest ==
    /\ harm \cap {"killed", "overlap"} = {}
    /\ \A p \in Proc : proc[p].pc # "write"
    => candidates.whole /\ registry.whole

(* A rule that expired or was rolled back never becomes active again and   *)
(* keeps its record, except by a write of a copy read before the file last *)
(* changed: the lost update is the only way round _rollback_rule and       *)
(* list_active_rules.                                                      *)
StaleWrite == \E p \in Proc : proc[p].pc = "write" /\ ~proc[p].fresh
                              /\ proc'[p] = Idle

RetiredStay ==
    [][\/ StaleWrite
       \/ \A id \in DOMAIN registry.content \ Active :
             /\ id \in DOMAIN registry'.content
             /\ registry'.content[id] = registry.content[id]]_vars

(* As long as no two writes overlapped and no process was killed in one,   *)
(* the registry is the book of rules RuleBook describes: each call is one  *)
(* step of it, and no approval is lost.                                    *)
Status == [id \in DOMAIN registry.content |-> registry.content[id].status]
Book == INSTANCE RuleBook WITH book <- Status

ImplementsBook == Book!Opened /\ [][harm' = {} => [Book!Turn]_Status]_vars
=============================================================================
