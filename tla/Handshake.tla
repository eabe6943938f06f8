------------------------------ MODULE Handshake ------------------------------
(***************************************************************************)
(* The challenge and response handshake of sdd_core/governance             *)
(* (handshake_challenge.py).  Clients of one workspace issue challenges,   *)
(* answer them and check whether the recorded answer is still valid.  All  *)
(* of them share one challenge file (written in place) and one response    *)
(* file (renamed into place), while the governance artifact they bind to   *)
(* is recompiled and signed by others.  A challenge's session_id and       *)
(* challenge_id are drawn together and compared together: one id here.     *)
(***************************************************************************)
EXTENDS Naturals

CONSTANTS Client,        \* processes running sdd governance handshake
          Artifact,      \* contents the compiled governance-core.json can have
          Missing,       \* one of them: no readable artifact, fingerprint ""
          Mandate,       \* mandate identifiers
          MandatesIn,    \* the mandates each artifact lists
          NoFile, Torn,  \* a missing file, a file that does not parse
          TTL,           \* _AUTHORIZATION_TTL_MINUTES, in ticks
          MaxTime,       \* bound: ticks of the clock
          MaxId          \* bound: challenges issued

ASSUME HandshakeAssumption ==
    /\ MandatesIn \in [Artifact -> SUBSET Mandate]
    /\ Missing \in Artifact /\ MandatesIn[Missing] = {}
    /\ TTL \in Nat /\ MaxTime \in Nat /\ MaxId \in Nat \ {0}

VARIABLES now,
          gov,           \* content of the compiled artifact
          signed,        \* its .sig verifies against the trusted keyring
          challengeFile, \* handshake-challenge.json
          responseFile,  \* handshake-response.json
          lastId,        \* ids drawn so far
          phase,         \* where each client is
          req,           \* the challenge each client builds or holds
          ans,           \* the response each client is about to write
          disturbed,     \* ghost: the artifact changed while req was built
          everSigned     \* ghost: artifacts whose signature verified once

files   == <<challengeFile, responseFile>>
ghosts  == <<disturbed, everSigned>>
vars == <<now, gov, signed, files, lastId, phase, req, ans, ghosts>>

Time  == 0 .. MaxTime
NoId  == 0
Never == MaxTime + TTL + 1        \* an empty expires_at

Challenge == [id: NoId .. MaxId, fp: Artifact, verified: BOOLEAN,
              mandates: SUBSET Mandate, issued: Time,
              clean: BOOLEAN]     \* ghost

Response == [id: NoId .. MaxId, fp: Artifact, understood: SUBSET Mandate,
             ack: BOOLEAN, expires: Nat,
             answers: NoId .. MaxId,   \* ghost: the challenge it was written for
             stamped: BOOLEAN]         \* ghost: bound from the challenge file

Phases == {"idle", "mandates", "signature", "write", "filling", "issued", "stamped"}
Reading == {"mandates", "signature"}

TypeOK ==
    /\ now \in Time
    /\ gov \in Artifact
    /\ signed \in BOOLEAN
    /\ challengeFile \in Challenge \cup {NoFile, Torn}
    /\ responseFile \in Response \cup {NoFile}
    /\ lastId \in NoId .. MaxId
    /\ phase \in [Client -> Phases]
    /\ req \in [Client -> Challenge]
    /\ ans \in [Client -> Response]
    /\ disturbed \in [Client -> BOOLEAN]
    /\ everSigned \subseteq Artifact

Blank == [id |-> NoId, fp |-> Missing, verified |-> FALSE, mandates |-> {},
          issued |-> 0, clean |-> TRUE]
NoAnswer == [id |-> NoId, fp |-> Missing, understood |-> {}, ack |-> FALSE,
             expires |-> Never, answers |-> NoId, stamped |-> FALSE]

Init ==
    /\ now = 0
    /\ gov \in Artifact
    /\ signed = FALSE
    /\ challengeFile = NoFile
    /\ responseFile = NoFile
    /\ lastId = NoId
    /\ phase = [c \in Client |-> "idle"]
    /\ req = [c \in Client |-> Blank]
    /\ ans = [c \in Client |-> NoAnswer]
    /\ disturbed = [c \in Client |-> FALSE]
    /\ everSigned = {}

Move(c, from, to) ==
    /\ phase[c] = from
    /\ phase' = [phase EXCEPT ![c] = to]

-----------------------------------------------------------------------------
(* generate_challenge: the mandates, the signature status and the          *)
(* fingerprint come from three separate reads of the artifact.             *)

ReadMandates(c) ==
    /\ lastId < MaxId
    /\ Move(c, "idle", "mandates")
    /\ req' = [req EXCEPT ![c] = [Blank EXCEPT !.mandates = MandatesIn[gov]]]
    /\ UNCHANGED <<now, gov, signed, files, lastId, ans, ghosts>>

ReadSignature(c) ==
    /\ Move(c, "mandates", "signature")
    /\ req' = [req EXCEPT ![c].verified = signed]
    /\ UNCHANGED <<now, gov, signed, files, lastId, ans, ghosts>>

(* Mutant of ReadFingerprint: every challenge gets the same id.            *)
ReadFingerprintSameId(c) ==
    /\ lastId < MaxId
    /\ Move(c, "signature", "write")
    /\ lastId' = lastId + 1
    /\ req' = [req EXCEPT ![c] =
                  [id |-> 1, fp |-> gov, verified |-> req[c].verified,
                   mandates |-> req[c].mandates, issued |-> now,
                   clean |-> ~disturbed[c]]]
    /\ disturbed' = [disturbed EXCEPT ![c] = FALSE]
    /\ UNCHANGED <<now, gov, signed, files, ans, everSigned>>

ReadFingerprint(c) ==
    /\ lastId < MaxId
    /\ Move(c, "signature", "write")
    /\ lastId' = lastId + 1
    /\ req' = [req EXCEPT ![c] =
                  [id |-> lastId + 1, fp |-> gov, verified |-> req[c].verified,
                   mandates |-> req[c].mandates, issued |-> now,
                   clean |-> ~disturbed[c]]]
    /\ disturbed' = [disturbed EXCEPT ![c] = FALSE]
    /\ UNCHANGED <<now, gov, signed, files, ans, everSigned>>

(* write_text in place: the file does not parse until it is filled.        *)
OpenChallenge(c) ==
    /\ Move(c, "write", "filling")
    /\ challengeFile' = Torn
    /\ UNCHANGED <<now, gov, signed, responseFile, lastId, req, ans, ghosts>>

FillChallenge(c) ==
    /\ Move(c, "filling", "issued")
    /\ challengeFile' = req[c]
    /\ UNCHANGED <<now, gov, signed, responseFile, lastId, req, ans, ghosts>>

(* A failure to persist is only logged: the client gets its request.       *)
ChallengeNotPersisted(c) ==
    /\ phase[c] \in {"write", "filling"}
    /\ phase' = [phase EXCEPT ![c] = "issued"]
    /\ UNCHANGED <<now, gov, signed, files, lastId, req, ans, ghosts>>

-----------------------------------------------------------------------------
(* complete_handshake, usually in another process than the one that issued *)
(* the challenge.                                                          *)

Parsed == challengeFile \notin {NoFile, Torn}

(* Mutant of Bind: records the challenge where the response belongs.       *)
BindWholeChallenge(data) == IF Parsed THEN challengeFile ELSE data

(* Mutant of Bind: the hour starts when the response is completed.         *)
BindFromNow(data) ==
    IF Parsed
    THEN [data EXCEPT !.id = challengeFile.id, !.fp = challengeFile.fp,
                      !.expires = now + TTL, !.stamped = TRUE]
    ELSE data

(* The binding fields come from whatever challenge is on file; without one *)
(* they stay what the response data said, which may repeat the request's.  *)
Bind(data) ==
    IF Parsed
    THEN [data EXCEPT !.id = challengeFile.id, !.fp = challengeFile.fp,
                      !.expires = challengeFile.issued + TTL, !.stamped = TRUE]
    ELSE data

Supplied(c) ==
    {[id |-> i, fp |-> req[c].fp, understood |-> u, ack |-> k, expires |-> Never,
      answers |-> req[c].id, stamped |-> FALSE] :
        i \in {NoId, req[c].id}, u \in {{}, req[c].mandates}, k \in BOOLEAN}

StampResponse(c) ==
    /\ Move(c, "issued", "stamped")
    /\ \E data \in Supplied(c) : ans' = [ans EXCEPT ![c] = Bind(data)]
    /\ req' = [req EXCEPT ![c] = Blank]
    /\ UNCHANGED <<now, gov, signed, files, lastId, ghosts>>

(* A temporary file renamed into place.                                    *)
WriteResponse(c) ==
    /\ Move(c, "stamped", "idle")
    /\ responseFile' = ans[c]
    /\ ans' = [ans EXCEPT ![c] = NoAnswer]
    /\ UNCHANGED <<now, gov, signed, challengeFile, lastId, req, ghosts>>

(* The process dies, the agent never answers, or the response cannot be    *)
(* persisted (which is only logged).                                       *)
Abandon(c) ==
    /\ phase[c] # "idle"
    /\ phase' = [phase EXCEPT ![c] = "idle"]
    /\ req' = [req EXCEPT ![c] = Blank]
    /\ ans' = [ans EXCEPT ![c] = NoAnswer]
    /\ disturbed' = [disturbed EXCEPT ![c] = FALSE]
    /\ UNCHANGED <<now, gov, signed, files, lastId, everSigned>>

-----------------------------------------------------------------------------
(* The rest of the workspace: sdd governance compile, sdd governance sign, *)
(* and the clock.                                                          *)

Disturb == disturbed' = [c \in Client |-> disturbed[c] \/ phase[c] \in Reading]

(* The artifact is compiled anew, or removed.                              *)
Compile ==
    /\ gov' \in Artifact
    /\ signed' = FALSE
    /\ Disturb
    /\ UNCHANGED <<now, files, lastId, phase, req, ans, everSigned>>

Sign ==
    /\ gov # Missing
    /\ signed' = TRUE
    /\ everSigned' = everSigned \cup {gov}
    /\ UNCHANGED <<now, gov, files, lastId, phase, req, ans, disturbed>>

Tick ==
    /\ now < MaxTime
    /\ now' = now + 1
    /\ UNCHANGED <<gov, signed, files, lastId, phase, req, ans, ghosts>>

Issue(c) ==
    \/ ReadMandates(c) \/ ReadSignature(c) \/ ReadFingerprint(c)
    \/ OpenChallenge(c) \/ FillChallenge(c) \/ ChallengeNotPersisted(c)

Complete(c) == StampResponse(c) \/ WriteResponse(c) \/ Abandon(c)

Next ==
    \/ \E c \in Client : Issue(c) \/ Complete(c)
    \/ Compile \/ Sign \/ Tick

Spec == Init /\ [][Next]_vars

-----------------------------------------------------------------------------
(* is_handshake_valid.                                                     *)

(* Mutant of BindingIsValid: the live fingerprint is not compared.         *)
BindingIgnoresFingerprint(strict) ==
    /\ responseFile.id = challengeFile.id
    /\ challengeFile.mandates \subseteq responseFile.understood
    /\ now <= responseFile.expires
    /\ strict => challengeFile.verified

(* Mutant of BindingIsValid: the acknowledgement stands for verification.  *)
BindingTrustsAck(strict) ==
    /\ responseFile.id = challengeFile.id
    /\ responseFile.fp = gov
    /\ challengeFile.mandates \subseteq responseFile.understood
    /\ now <= responseFile.expires

BindingIsValid(strict) ==
    /\ responseFile.id = challengeFile.id
    /\ responseFile.fp = gov
    /\ challengeFile.mandates \subseteq responseFile.understood
    /\ now <= responseFile.expires
    /\ strict => challengeFile.verified

Valid(strict) ==
    /\ responseFile # NoFile
    /\ strict => responseFile.ack
    /\ Parsed => BindingIsValid(strict)

-----------------------------------------------------------------------------
(* SEC-03: a handshake on an intact challenge is never valid later than    *)
(* TTL after that challenge was issued, however late it was answered and   *)
(* whatever binding the answer itself claimed.                             *)
ValidUntilTTL ==
    Valid(FALSE) /\ Parsed => now <= challengeFile.issued + TTL

(* SEC-02: whoever holds a valid handshake understood every mandate of the *)
(* governance now in force, not only of the one it was issued under,       *)
(* provided the artifact did not change while the challenge was built.     *)
MandatesUnderstood ==
    Valid(FALSE) /\ Parsed /\ challengeFile.clean
        => MandatesIn[gov] \subseteq responseFile.understood

(* SEC-05: a strictly valid handshake is about an artifact whose signature *)
(* really verified, under the same proviso.                                *)
StrictMeansSigned ==
    Valid(TRUE) /\ Parsed /\ challengeFile.clean => gov \in everSigned

(* Once invalid, a handshake becomes valid again only by a new response or *)
(* by the return of the governance it was made for, as long as the         *)
(* challenge file is intact: neither the clock nor a new challenge, however*)
(* late it is written, revives it.                                         *)
NoRevival ==
    [][~Valid(FALSE) /\ Valid(FALSE)' =>
            responseFile' # responseFile \/ gov' # gov \/ ~Parsed']_vars

(* SEC-01 as documented: a response is bound to the challenge it answers.  *)
BoundToItsChallenge ==
    responseFile # NoFile /\ responseFile.stamped
        => responseFile.id = responseFile.answers
=============================================================================
