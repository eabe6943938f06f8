------------------------------ MODULE AskGuard ------------------------------
(***************************************************************************)
(* How sdd ask (sdd_cli) uses the handshake.  The command group asks for   *)
(* the handshake's validity when the process starts and keeps the verdict  *)
(* in the context of the command; the guard, which ask passes twice,       *)
(* decides from that verdict, while Handshake's clients, compilations and  *)
(* clock go on.                                                            *)
(***************************************************************************)
EXTENDS Handshake

CONSTANTS Ask,         \* processes running sdd ask
          Strict       \* SDD_SIGNATURE_MODE is "strict"

VARIABLES verdict,     \* ctx.obj["_ahp"]["valid"], or why there is none
          guards,      \* how often each ask has been through the guard
          decision     \* what its last guard decided

asks == <<verdict, guards, decision>>

AskInit ==
    /\ Init
    /\ verdict = [a \in Ask |-> "not running"]
    /\ guards = [a \in Ask |-> 0]
    /\ decision = [a \in Ask |-> "none"]

(* LazyCommandGroup.invoke: not strict, whatever the mode; an exception    *)
(* leaves FALSE.  A caller outside the command group has no verdict.       *)
Start(a) ==
    /\ verdict[a] = "not running"
    /\ \E v \in {IF Valid(FALSE) THEN "valid" ELSE "invalid", "invalid", "no verdict"} :
           verdict' = [verdict EXCEPT ![a] = v]
    /\ UNCHANGED <<guards, decision>>

is_valid(a) == IF verdict[a] = "no verdict" THEN Valid(Strict) ELSE verdict[a] = "valid"

Decide(a, d) ==
    /\ verdict[a] # "not running"
    /\ guards[a] < 2
    /\ guards' = [guards EXCEPT ![a] = @ + 1]
    /\ decision' = [decision EXCEPT ![a] = d]

(* _guard_handshake, first for the session, then for the snapshot.         *)
Pass(a)  == is_valid(a) /\ Decide(a, "pass") /\ UNCHANGED verdict
Warn(a)  == ~is_valid(a) /\ ~Strict /\ Decide(a, "warned") /\ UNCHANGED verdict
Block(a) ==
    /\ ~is_valid(a) /\ Strict
    /\ Decide(a, "blocked")
    /\ verdict' = [verdict EXCEPT ![a] = "not running"]

(* Only a verdict that has to be found out can raise; then ask goes on.    *)
FailOpen(a) ==
    /\ verdict[a] = "no verdict"
    /\ Decide(a, "unresolved")
    /\ UNCHANGED verdict

(* The process ends and another ask begins.                                *)
End(a) ==
    /\ verdict[a] # "not running" \/ decision[a] # "none"
    /\ verdict' = [verdict EXCEPT ![a] = "not running"]
    /\ guards' = [guards EXCEPT ![a] = 0]
    /\ decision' = [decision EXCEPT ![a] = "none"]

AskStep(a) == Start(a) \/ Pass(a) \/ Warn(a) \/ Block(a) \/ FailOpen(a) \/ End(a)

AskNext ==
    \/ Next /\ UNCHANGED asks
    \/ \E a \in Ask : AskStep(a) /\ UNCHANGED vars

AskSpec == AskInit /\ [][AskNext]_<<vars, asks>>

(* M015, strict mode: "execution is blocked if the handshake is missing or *)
(* if the agent has not acknowledged artifact signatures".  What the guard *)
(* lets through has a response that acknowledges them.                     *)
StrictBlocks ==
    [][\A a \in Ask : Strict /\ guards'[a] > guards[a] /\ decision'[a] = "pass" =>
            responseFile # NoFile /\ responseFile.ack]_<<vars, asks>>
=============================================================================
