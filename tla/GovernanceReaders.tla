-------------------------- MODULE GovernanceReaders --------------------------
(***************************************************************************)
(* Processes that load the published governance (sdd_core/utils/loader.py, *)
(* called from the command line) while Deployment's processes replace it.  *)
(* load_all reads four files, one after the other and without a lock, and  *)
(* then asks whether what it read belongs together.                        *)
(***************************************************************************)
EXTENDS Deployment

CONSTANT Reader          \* processes that load

VARIABLES left,          \* the files each still has to read
          seen,          \* what it read, in order
          load           \* how its load stands

readers == <<left, seen, load>>

LoadOrder == <<"coreMsgpack", "coreAudit", "clientMsgpack", "clientAudit">>

ReadersTypeOK ==
    /\ left \in [Reader -> Seq(Deployed \cup RootMeta)]
    /\ seen \in [Reader -> Seq(Gens \X Gens)]
    /\ load \in [Reader -> {"none", "reading", "loaded", "failed"}]

ReadersInit ==
    /\ Init
    /\ left = [r \in Reader |-> <<>>]
    /\ seen = [r \in Reader |-> <<>>]
    /\ load = [r \in Reader |-> "none"]

Exists(f) == fs[<<"runtime", f>>] # Absent

(* The metadata is looked for in audit/ and then in the root.              *)
Root(f) == CHOOSE m \in RootMeta : AuditOf[m] = f
HasFallback(f) == f \in Audit

(* The directory is accepted when the files that a load needs exist.       *)
Resolved ==
    \A f \in Deployed : Exists(f) \/ (HasFallback(f) /\ Exists(Root(f)))

Outcome(r, l, s, o) ==
    /\ left' = [left EXCEPT ![r] = l]
    /\ seen' = [seen EXCEPT ![r] = s]
    /\ load' = [load EXCEPT ![r] = o]

StartLoad(r) ==
    /\ load[r] # "reading"
    /\ IF Resolved THEN Outcome(r, LoadOrder, <<>>, "reading")
                   ELSE Outcome(r, <<>>, <<>>, "failed")

(* One file is read and parsed; a missing or a cut-off one raises.         *)
Read(r) ==
    /\ left[r] # <<>>
    /\ LET f == Head(left[r])
       IN  \E v \in Seen(r, <<"runtime", f>>) :
             \/ /\ v \notin {Absent, Torn}
                /\ Outcome(r, Tail(left[r]), Append(seen[r], v), "reading")
             \/ /\ v = Absent /\ HasFallback(f)
                /\ Outcome(r, <<Root(f)>> \o Tail(left[r]), seen[r], "reading")
             \/ /\ v = Torn \/ (v = Absent /\ ~HasFallback(f))
                /\ Outcome(r, <<>>, <<>>, "failed")

(* get_fingerprints takes the salt from the key "fingerprint_salt".  Both  *)
(* compilers write it under "fingerprint_core_salt", so there is none.     *)
NoSalt == "no salt"
fingerprint_salt(clientMeta) == NoSalt

(* The other conditions, that the fingerprints are not empty and differ    *)
(* and that the core has items, hold of everything that was compiled.      *)
_validate_integrity(coreMeta, clientMeta) ==
    LET salt == fingerprint_salt(clientMeta)
    IN  salt # NoSalt => salt = coreMeta[1]

FinishLoad(r) ==
    /\ load[r] = "reading" /\ left[r] = <<>>
    /\ IF _validate_integrity(seen[r][2], seen[r][4])
       THEN Outcome(r, <<>>, seen[r], "loaded")
       ELSE Outcome(r, <<>>, <<>>, "failed")

ReadersNext ==
    \/ Next /\ UNCHANGED readers
    \/ \E r \in Reader : (StartLoad(r) \/ Read(r) \/ FinishLoad(r)) /\ UNCHANGED vars

ReadersSpec == ReadersInit /\ [][ReadersNext]_<<vars, readers>>

(* "return a validated summary payload": the client metadata of a load     *)
(* that succeeds is salted with the fingerprint of the core it came with,  *)
(* whatever was published meanwhile and wherever a publication stopped.    *)
LoadedFits ==
    \A r \in Reader : load[r] = "loaded" => seen[r][4][2] = seen[r][2][1]
=============================================================================
