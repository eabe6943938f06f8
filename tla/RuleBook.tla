------------------------------ MODULE RuleBook ------------------------------
(***************************************************************************)
(* What the learning store promises of its rules: a rule is active from    *)
(* its approval until it expires or is rolled back, and never again; no    *)
(* rule disappears.                                                        *)
(***************************************************************************)
CONSTANT RuleIds

VARIABLE book   \* the rules approved so far, and the status of each

Statuses == {"active", "expired", "rolled_back"}

Opened == book = <<>>

Approve ==
    \E id \in RuleIds \ DOMAIN book :
        book' = [i \in DOMAIN book \cup {id} |-> IF i = id THEN "active" ELSE book[i]]

Retire ==
    \E gone \in SUBSET {i \in DOMAIN book : book[i] = "active"},
       status \in {"expired", "rolled_back"} :
        /\ gone # {}
        /\ book' = [i \in DOMAIN book |-> IF i \in gone THEN status ELSE book[i]]

Turn == Approve \/ Retire
=============================================================================
