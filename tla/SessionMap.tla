----------------------------- MODULE SessionMap -----------------------------
(***************************************************************************)
(* What the persisted session registry promises (RUN-01): a map from       *)
(* session keys to session records that several processes change one key   *)
(* at a time, each change applied to the latest map in one step and every  *)
(* other key left alone.  A change that was submitted is applied at most   *)
(* once; it may be given up (an I/O error, the death of the process).      *)
(***************************************************************************)
CONSTANTS Proc, Key, Val, NoVal

VARIABLES store,     \* the latest map
          pending    \* the changes each process submitted and not yet applied

mapVars == <<store, pending>>

Record  == Val \cup {NoVal}
Change  == [key: Key, val: Record]

MapInit ==
    /\ store = [k \in Key |-> NoVal]
    /\ pending = [p \in Proc |-> {}]

(* A process asks for some changes: one for upsert and delete, one per     *)
(* session it knows for save.                                              *)
Submit(p) ==
    /\ pending[p] = {}
    /\ \E cs \in SUBSET Change : pending' = [pending EXCEPT ![p] = cs]
    /\ UNCHANGED store

(* One change takes effect, on its own key only.                           *)
Apply(p) ==
    \E c \in pending[p] :
        /\ store' = [store EXCEPT ![c.key] = c.val]
        /\ pending' = [pending EXCEPT ![p] = @ \ {c}]

(* The process gives up what is left.                                      *)
GiveUp(p) ==
    /\ pending' = [pending EXCEPT ![p] = {}]
    /\ UNCHANGED store

MapNext == \E p \in Proc : Submit(p) \/ Apply(p) \/ GiveUp(p)

MapSpec == MapInit /\ [][MapNext]_mapVars
=============================================================================
