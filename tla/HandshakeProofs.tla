--------------------------- MODULE HandshakeProofs ---------------------------
(***************************************************************************)
(* Proofs about Handshake, for any number of clients, artifacts, mandates  *)
(* and challenges: the type invariant, and that a valid handshake says     *)
(* what it should of time, mandates and signature, whoever issued and      *)
(* answered its challenge and in whatever order the files were written.    *)
(***************************************************************************)
EXTENDS Handshake, TLAPS

(* The client holds a challenge whose id has been drawn.                   *)
Holds(c) == phase[c] \in {"write", "filling", "issued"}

(* An id names one challenge: clients hold different ones, and one that is *)
(* on file is the very one its client holds, which has written it.         *)
IdsDrawn ==
    /\ \A c \in Client : Holds(c) => req[c].id \in 1 .. lastId
    /\ Parsed => challengeFile.id \in 1 .. lastId

OneChallengePerId ==
    /\ \A c, d \in Client : Holds(c) /\ Holds(d) /\ req[c].id = req[d].id => c = d
    /\ \A c \in Client : Holds(c) /\ Parsed /\ req[c].id = challengeFile.id
           => phase[c] = "issued" /\ challengeFile = req[c]

(* A response that carries a challenge's id carries its binding too.       *)
Agree(r, ch) == r.id = ch.id => r.expires = ch.issued + TTL /\ r.fp = ch.fp

(* What holds of a response r with regard to every challenge that is, or   *)
(* may still come to be, on file: one not yet written has no response, and *)
(* one that c has answered without a readable file never comes back.       *)
Answers(r) ==
    /\ r.id <= lastId
    /\ Parsed => Agree(r, challengeFile)
    /\ \A c \in Client : Holds(c) =>
           Agree(r, req[c]) /\ (phase[c] # "issued" => r.id # req[c].id)

ResponsesBound ==
    /\ \A c \in Client : phase[c] = "stamped" => Answers(ans[c])
    /\ responseFile # NoFile => Answers(responseFile)

(* What a challenge built from one artifact says of it.                    *)
Truthful(ch) ==
    ch.clean => /\ ch.mandates = MandatesIn[ch.fp]
                /\ ch.verified => ch.fp \in everSigned

ChallengesTruthful ==
    /\ signed => gov \in everSigned
    /\ \A c \in Client : phase[c] \in Reading /\ ~disturbed[c] =>
           /\ req[c].mandates = MandatesIn[gov]
           /\ phase[c] = "signature" /\ req[c].verified => gov \in everSigned
    /\ \A c \in Client : Holds(c) => Truthful(req[c])
    /\ Parsed => Truthful(challengeFile)

HInv == TypeOK /\ IdsDrawn /\ OneChallengePerId /\ ResponsesBound /\ ChallengesTruthful

-----------------------------------------------------------------------------
(* Each number is an integer, which the SMT backend has to be told.        *)
LEMMA Numbers ==
  /\ TTL \in Nat /\ MaxTime \in Nat /\ MaxId \in Nat \ {0}
  /\ NoId = 0 /\ Never \in Nat /\ 0 \in Time
  /\ \A t \in Time : t \in Nat
  /\ \A i \in NoId .. MaxId : i \in Nat
  BY HandshakeAssumption DEF NoId, Never, Time

LEMMA BlankTyped == Blank \in Challenge /\ NoAnswer \in Response
  BY HandshakeAssumption, Numbers DEF Blank, NoAnswer, Challenge, Response

LEMMA TypeInit == Init => TypeOK
  <1> SUFFICES ASSUME Init PROVE TypeOK
    OBVIOUS
  <1>1. now \in Time /\ lastId \in NoId .. MaxId
    BY Numbers DEF Init
  <1>2. req \in [Client -> Challenge] /\ ans \in [Client -> Response]
    BY BlankTyped DEF Init
  <1> QED
    BY <1>1, <1>2 DEF Init, TypeOK, Phases

(* What a client supplies, and what binding makes of it, is a response.    *)
LEMMA BindTyped ==
  ASSUME TypeOK, NEW c \in Client, NEW data \in Supplied(c)
  PROVE  data \in Response /\ Bind(data) \in Response
  <1>1. data \in Response
    <2>1. req[c] \in Challenge
      BY DEF TypeOK
    <2>2. PICK i \in {NoId, req[c].id}, u \in {{}, req[c].mandates}, k \in BOOLEAN :
              data = [id |-> i, fp |-> req[c].fp, understood |-> u, ack |-> k,
                      expires |-> Never, answers |-> req[c].id, stamped |-> FALSE]
      BY DEF Supplied
    <2> QED
      BY <2>1, <2>2, Numbers DEF Challenge, Response
  <1>2. CASE Parsed
    <2>1. challengeFile \in Challenge
      BY <1>2 DEF TypeOK, Parsed
    <2>2. challengeFile.issued + TTL \in Nat
      BY <2>1, Numbers DEF Challenge
    <2> QED BY <1>1, <1>2, <2>1, <2>2 DEF Bind, Challenge, Response
  <1> QED BY <1>1, <1>2 DEF Bind

LEMMA TypeStep == TypeOK /\ [Next]_vars => TypeOK'
  <1> SUFFICES ASSUME TypeOK, [Next]_vars PROVE TypeOK'
    OBVIOUS
  <1> USE DEF files, ghosts
  <1>1. ASSUME NEW c \in Client, ReadMandates(c) PROVE TypeOK'
    BY <1>1, BlankTyped, HandshakeAssumption
    DEF TypeOK, ReadMandates, Move, Phases, Challenge
  <1>2. ASSUME NEW c \in Client, ReadSignature(c) PROVE TypeOK'
    BY <1>2 DEF TypeOK, ReadSignature, Move, Phases, Challenge
  <1>3. ASSUME NEW c \in Client, ReadFingerprint(c) PROVE TypeOK'
    <2>1. lastId + 1 \in NoId .. MaxId
      BY <1>3, Numbers DEF TypeOK, ReadFingerprint
    <2> QED
      BY <1>3, <2>1 DEF TypeOK, ReadFingerprint, Move, Phases, Challenge
  <1>4. ASSUME NEW c \in Client, OpenChallenge(c) PROVE TypeOK'
    BY <1>4 DEF TypeOK, OpenChallenge, Move, Phases
  <1>5. ASSUME NEW c \in Client, FillChallenge(c) PROVE TypeOK'
    BY <1>5 DEF TypeOK, FillChallenge, Move, Phases
  <1>6. ASSUME NEW c \in Client, ChallengeNotPersisted(c) PROVE TypeOK'
    BY <1>6 DEF TypeOK, ChallengeNotPersisted, Phases
  <1>7. ASSUME NEW c \in Client, StampResponse(c) PROVE TypeOK'
    BY <1>7, BindTyped, BlankTyped DEF TypeOK, StampResponse, Move, Phases
  <1>8. ASSUME NEW c \in Client, WriteResponse(c) PROVE TypeOK'
    BY <1>8, BlankTyped DEF TypeOK, WriteResponse, Move, Phases
  <1>9. ASSUME NEW c \in Client, Abandon(c) PROVE TypeOK'
    BY <1>9, BlankTyped DEF TypeOK, Abandon, Phases
  <1>10. CASE Compile
    BY <1>10 DEF TypeOK, Compile, Disturb
  <1>11. CASE Sign
    BY <1>11 DEF TypeOK, Sign
  <1>12. CASE Tick
    BY <1>12, Numbers DEF TypeOK, Tick, Time
  <1>13. CASE UNCHANGED vars
    BY <1>13 DEF TypeOK, vars
  <1> QED
    BY <1>1, <1>2, <1>3, <1>4, <1>5, <1>6, <1>7, <1>8, <1>9, <1>10, <1>11, <1>12, <1>13
    DEF Next, Issue, Complete

(* The files, the clients and the clock only ever hold values of their     *)
(* types: ids, times and artifacts stay in range whatever the schedule.    *)
THEOREM TypeCorrect == Spec => []TypeOK
  BY TypeInit, TypeStep, PTL DEF Spec

-----------------------------------------------------------------------------
LEMMA InvInit == Init => HInv
  BY TypeInit DEF Init, HInv, IdsDrawn, OneChallengePerId, ResponsesBound,
                  ChallengesTruthful, Holds, Reading, Parsed

(* The typed values of the state, for the lemmas below.                    *)
LEMMA Values ==
  ASSUME TypeOK
  PROVE  /\ lastId \in Nat
         /\ \A c \in Client : /\ req[c] \in Challenge /\ req[c].id \in Nat
                             /\ ans[c] \in Response /\ ans[c].id \in Nat
         /\ Parsed => challengeFile \in Challenge /\ challengeFile.id \in Nat
         /\ responseFile # NoFile => responseFile \in Response /\ responseFile.id \in Nat
  BY Numbers DEF TypeOK, Challenge, Response, Parsed

(* Steps that change neither the challenges in play nor the responses.     *)
LEMMA ReadMandatesInv ==
  ASSUME HInv, NEW c \in Client, ReadMandates(c)
  PROVE  IdsDrawn' /\ OneChallengePerId' /\ ResponsesBound' /\ ChallengesTruthful'
  <1> USE DEF files, ghosts
  <1>1. /\ \A d \in Client : Holds(d)' <=> Holds(d) /\ d # c
        /\ \A d \in Client : d # c => req'[d] = req[d]
        /\ \A d \in Client : phase'[d] = IF d = c THEN "mandates" ELSE phase[d]
        /\ ~Holds(c)' /\ Parsed' = Parsed
    BY DEF ReadMandates, Move, HInv, TypeOK, Holds, Parsed
  <1>2. IdsDrawn'
    BY <1>1 DEF ReadMandates, HInv, IdsDrawn
  <1>3. OneChallengePerId'
    BY <1>1 DEF ReadMandates, HInv, OneChallengePerId
  <1>4. ResponsesBound'
    BY <1>1 DEF ReadMandates, HInv, ResponsesBound, Answers, Agree
  <1>5. ChallengesTruthful'
    <2>1. req'[c].mandates = MandatesIn[gov]
      BY BlankTyped DEF ReadMandates, HInv, TypeOK, Blank
    <2> QED
      BY <1>1, <2>1 DEF ReadMandates, HInv, ChallengesTruthful, Truthful
  <1> QED BY <1>2, <1>3, <1>4, <1>5

LEMMA ReadSignatureInv ==
  ASSUME HInv, NEW c \in Client, ReadSignature(c)
  PROVE  IdsDrawn' /\ OneChallengePerId' /\ ResponsesBound' /\ ChallengesTruthful'
  <1> USE DEF files, ghosts
  <1>1. /\ \A d \in Client : Holds(d)' <=> Holds(d)
        /\ \A d \in Client : d # c => req'[d] = req[d] /\ phase'[d] = phase[d]
        /\ phase[c] = "mandates" /\ phase'[c] = "signature"
        /\ ~Holds(c) /\ Parsed' = Parsed
    BY DEF ReadSignature, Move, HInv, TypeOK, Holds, Parsed
  <1>2. IdsDrawn'
    BY <1>1 DEF ReadSignature, HInv, IdsDrawn
  <1>3. OneChallengePerId'
    BY <1>1 DEF ReadSignature, HInv, OneChallengePerId
  <1>4. ResponsesBound'
    BY <1>1 DEF ReadSignature, HInv, ResponsesBound, Answers, Agree
  <1>5. ChallengesTruthful'
    <2>1. req'[c].mandates = req[c].mandates /\ req'[c].verified = signed
      BY Values DEF ReadSignature, HInv, TypeOK, Challenge
    <2> QED
      BY <1>1, <2>1 DEF ReadSignature, HInv, ChallengesTruthful, Truthful, Reading
  <1> QED BY <1>2, <1>3, <1>4, <1>5

(* The id is new, so no response and no other challenge carries it.        *)
LEMMA ReadFingerprintInv ==
  ASSUME HInv, NEW c \in Client, ReadFingerprint(c)
  PROVE  IdsDrawn' /\ OneChallengePerId' /\ ResponsesBound' /\ ChallengesTruthful'
  <1> USE DEF files, ghosts
  <1>1. /\ \A d \in Client : Holds(d)' <=> Holds(d) \/ d = c
        /\ \A d \in Client : d # c => req'[d] = req[d] /\ phase'[d] = phase[d]
        /\ phase[c] = "signature" /\ phase'[c] = "write"
        /\ ~Holds(c) /\ Parsed' = Parsed
        /\ lastId' = lastId + 1 /\ lastId \in Nat
    BY Values DEF ReadFingerprint, Move, HInv, TypeOK, Holds, Parsed
  <1>2. /\ req'[c].id = lastId + 1 /\ req'[c].fp = gov
        /\ req'[c].verified = req[c].verified /\ req'[c].mandates = req[c].mandates
        /\ req'[c].clean = ~disturbed[c]
    BY DEF ReadFingerprint, HInv, TypeOK
  <1>3. IdsDrawn'
    BY <1>1, <1>2, Values DEF ReadFingerprint, HInv, IdsDrawn
  <1>4. OneChallengePerId'
    <2>1. \A d \in Client : d # c /\ Holds(d) => req[d].id # lastId + 1
      BY <1>1, Values DEF HInv, IdsDrawn
    <2>2. Parsed => challengeFile.id # lastId + 1
      BY <1>1, Values DEF HInv, IdsDrawn
    <2> QED
      BY <1>1, <1>2, <2>1, <2>2 DEF ReadFingerprint, HInv, OneChallengePerId
  <1>5. ResponsesBound'
    <2>1. \A r : Answers(r) /\ r.id \in Nat => Answers(r)'
      BY <1>1, <1>2 DEF ReadFingerprint, HInv, Answers, Agree
    <2> QED
      BY <1>1, <2>1, Values DEF ReadFingerprint, HInv, ResponsesBound
  <1>6. ChallengesTruthful'
    <2>1. Truthful(req[c])'
      <3>1. req'[c].clean => ~disturbed[c]
        BY <1>2, Zenon
      <3> QED
        BY <1>1, <1>2, <3>1 DEF ReadFingerprint, HInv, ChallengesTruthful, Truthful, Reading
    <2>2. \A d \in Client : d # c /\ Holds(d) => Truthful(req[d])'
      BY <1>1 DEF ReadFingerprint, HInv, ChallengesTruthful, Truthful
    <2>3. \A d \in Client : phase'[d] \in Reading => d # c /\ disturbed'[d] = disturbed[d]
      BY <1>1 DEF ReadFingerprint, HInv, TypeOK, Reading
    <2> QED
      BY <1>1, <2>1, <2>2, <2>3 DEF ReadFingerprint, HInv, ChallengesTruthful, Truthful
  <1> QED BY <1>3, <1>4, <1>5, <1>6

LEMMA OpenChallengeInv ==
  ASSUME HInv, NEW c \in Client, OpenChallenge(c)
  PROVE  IdsDrawn' /\ OneChallengePerId' /\ ResponsesBound' /\ ChallengesTruthful'
  <1> USE DEF files, ghosts
  <1>1. /\ \A d \in Client : Holds(d)' <=> Holds(d)
        /\ \A d \in Client : d # c => phase'[d] = phase[d]
        /\ phase[c] = "write" /\ phase'[c] = "filling" /\ ~Parsed'
    BY DEF OpenChallenge, Move, HInv, TypeOK, Holds, Parsed
  <1>2. IdsDrawn' /\ OneChallengePerId'
    BY <1>1 DEF OpenChallenge, HInv, IdsDrawn, OneChallengePerId
  <1>3. ResponsesBound'
    BY <1>1 DEF OpenChallenge, HInv, ResponsesBound, Answers, Agree
  <1>4. ChallengesTruthful'
    BY <1>1 DEF OpenChallenge, HInv, ChallengesTruthful, Truthful, Reading
  <1> QED BY <1>2, <1>3, <1>4

(* Until now no response carried the id of the challenge that is filed.    *)
LEMMA FillChallengeInv ==
  ASSUME HInv, NEW c \in Client, FillChallenge(c)
  PROVE  IdsDrawn' /\ OneChallengePerId' /\ ResponsesBound' /\ ChallengesTruthful'
  <1> USE DEF files, ghosts
  <1>1. /\ \A d \in Client : Holds(d)' <=> Holds(d)
        /\ \A d \in Client : d # c => phase'[d] = phase[d]
        /\ phase[c] = "filling" /\ phase'[c] = "issued" /\ Holds(c)
        /\ challengeFile' = req[c]
    BY DEF FillChallenge, Move, HInv, TypeOK, Holds
  <1>2. IdsDrawn' /\ OneChallengePerId'
    BY <1>1 DEF FillChallenge, HInv, IdsDrawn, OneChallengePerId
  <1>3. ResponsesBound'
    <2>1. \A r : Answers(r) => Answers(r)'
      BY <1>1 DEF FillChallenge, Answers, Agree
    <2> QED
      BY <1>1, <2>1 DEF FillChallenge, HInv, ResponsesBound
  <1>4. ChallengesTruthful'
    BY <1>1 DEF FillChallenge, HInv, ChallengesTruthful, Truthful, Reading
  <1> QED BY <1>2, <1>3, <1>4

LEMMA NotPersistedInv ==
  ASSUME HInv, NEW c \in Client, ChallengeNotPersisted(c)
  PROVE  IdsDrawn' /\ OneChallengePerId' /\ ResponsesBound' /\ ChallengesTruthful'
  <1> USE DEF files, ghosts
  <1>1. /\ \A d \in Client : Holds(d)' <=> Holds(d)
        /\ \A d \in Client : d # c => phase'[d] = phase[d]
        /\ phase[c] \in {"write", "filling"} /\ phase'[c] = "issued"
        /\ Parsed' = Parsed
    BY DEF ChallengeNotPersisted, HInv, TypeOK, Holds, Parsed
  <1>2. IdsDrawn' /\ OneChallengePerId'
    BY <1>1 DEF ChallengeNotPersisted, HInv, IdsDrawn, OneChallengePerId, Holds
  <1>3. ResponsesBound'
    BY <1>1 DEF ChallengeNotPersisted, HInv, ResponsesBound, Answers, Agree
  <1>4. ChallengesTruthful'
    BY <1>1 DEF ChallengeNotPersisted, HInv, ChallengesTruthful, Truthful, Reading
  <1> QED BY <1>2, <1>3, <1>4

(* With a readable challenge the response takes its binding; without one   *)
(* no challenge that can come back has the id the response may claim.      *)
LEMMA StampInv ==
  ASSUME HInv, NEW c \in Client, StampResponse(c)
  PROVE  IdsDrawn' /\ OneChallengePerId' /\ ResponsesBound' /\ ChallengesTruthful'
  <1> USE DEF files, ghosts
  <1>1. /\ \A d \in Client : Holds(d)' <=> Holds(d) /\ d # c
        /\ \A d \in Client : d # c => /\ req'[d] = req[d] /\ phase'[d] = phase[d]
                                      /\ ans'[d] = ans[d]
        /\ phase[c] = "issued" /\ phase'[c] = "stamped" /\ Holds(c)
        /\ Parsed' = Parsed /\ challengeFile' = challengeFile
    BY DEF StampResponse, Move, HInv, TypeOK, Holds, Parsed
  <1>2. IdsDrawn' /\ OneChallengePerId'
    BY <1>1 DEF StampResponse, HInv, IdsDrawn, OneChallengePerId
  <1>3. ResponsesBound'
    <2>1. \A r : Answers(r) => Answers(r)'
      BY <1>1 DEF StampResponse, Answers, Agree
    <2>2. Answers(ans[c])'
      <3>1. PICK data \in Supplied(c) : ans' = [ans EXCEPT ![c] = Bind(data)]
        BY DEF StampResponse
      <3>2. ans'[c] = Bind(data) /\ data \in Response /\ Bind(data) \in Response
        BY <3>1, BindTyped DEF HInv, TypeOK
      <3>3. CASE Parsed
        <4>1. /\ Bind(data).id = challengeFile.id /\ Bind(data).fp = challengeFile.fp
              /\ Bind(data).expires = challengeFile.issued + TTL
          BY <3>2, <3>3 DEF Bind, Response
        <4>2. /\ challengeFile.id <= lastId
              /\ \A d \in Client : Holds(d) /\ req[d].id = challengeFile.id =>
                     phase[d] = "issued" /\ req[d] = challengeFile
          BY <3>3, Values DEF HInv, IdsDrawn, OneChallengePerId
        <4> QED
          BY <1>1, <3>2, <3>3, <4>1, <4>2 DEF StampResponse, Answers, Agree
      <3>4. CASE ~Parsed
        <4>1. ans'[c].id \in {NoId, req[c].id}
          BY <3>1, <3>2, <3>4 DEF Bind, Supplied
        <4>2. /\ req[c].id <= lastId /\ NoId <= lastId
              /\ \A d \in Client : Holds(d) /\ d # c =>
                     req[d].id # NoId /\ req[d].id # req[c].id
          BY <1>1, Values, Numbers DEF HInv, IdsDrawn, OneChallengePerId
        <4> QED
          BY <1>1, <3>4, <4>1, <4>2 DEF StampResponse, Answers, Agree
      <3> QED BY <3>3, <3>4
    <2> QED
      BY <1>1, <2>1, <2>2 DEF StampResponse, HInv, ResponsesBound
  <1>4. ChallengesTruthful'
    BY <1>1 DEF StampResponse, HInv, ChallengesTruthful, Truthful, Reading
  <1> QED BY <1>2, <1>3, <1>4

LEMMA WriteResponseInv ==
  ASSUME HInv, NEW c \in Client, WriteResponse(c)
  PROVE  IdsDrawn' /\ OneChallengePerId' /\ ResponsesBound' /\ ChallengesTruthful'
  <1> USE DEF files, ghosts
  <1>1. /\ \A d \in Client : Holds(d)' <=> Holds(d)
        /\ \A d \in Client : d # c => phase'[d] = phase[d] /\ ans'[d] = ans[d]
        /\ phase[c] = "stamped" /\ phase'[c] = "idle"
        /\ Parsed' = Parsed /\ responseFile' = ans[c]
    BY DEF WriteResponse, Move, HInv, TypeOK, Holds, Parsed
  <1>2. IdsDrawn' /\ OneChallengePerId'
    BY <1>1 DEF WriteResponse, HInv, IdsDrawn, OneChallengePerId, Holds
  <1>3. ResponsesBound'
    <2>1. \A r : Answers(r) => Answers(r)'
      BY <1>1 DEF WriteResponse, Answers, Agree, Holds
    <2> QED
      BY <1>1, <2>1 DEF WriteResponse, HInv, ResponsesBound
  <1>4. ChallengesTruthful'
    BY <1>1 DEF WriteResponse, HInv, ChallengesTruthful, Truthful, Reading
  <1> QED BY <1>2, <1>3, <1>4

LEMMA AbandonInv ==
  ASSUME HInv, NEW c \in Client, Abandon(c)
  PROVE  IdsDrawn' /\ OneChallengePerId' /\ ResponsesBound' /\ ChallengesTruthful'
  <1> USE DEF files, ghosts
  <1>1. /\ \A d \in Client : Holds(d)' <=> Holds(d) /\ d # c
        /\ \A d \in Client : d # c => /\ req'[d] = req[d] /\ phase'[d] = phase[d]
                                      /\ ans'[d] = ans[d] /\ disturbed'[d] = disturbed[d]
        /\ phase'[c] = "idle" /\ Parsed' = Parsed
    BY DEF Abandon, HInv, TypeOK, Holds, Parsed
  <1>2. IdsDrawn' /\ OneChallengePerId'
    BY <1>1 DEF Abandon, HInv, IdsDrawn, OneChallengePerId
  <1>3. ResponsesBound'
    <2>1. \A r : Answers(r) => Answers(r)'
      BY <1>1 DEF Abandon, Answers, Agree
    <2> QED
      BY <1>1, <2>1 DEF Abandon, HInv, ResponsesBound
  <1>4. ChallengesTruthful'
    BY <1>1 DEF Abandon, HInv, ChallengesTruthful, Truthful, Reading
  <1> QED BY <1>2, <1>3, <1>4

(* The workspace and the clock touch no challenge and no response; those   *)
(* still being built are disturbed by a new artifact.                      *)
LEMMA WorkspaceInv ==
  ASSUME HInv, Compile \/ Sign \/ Tick \/ UNCHANGED vars
  PROVE  IdsDrawn' /\ OneChallengePerId' /\ ResponsesBound' /\ ChallengesTruthful'
  <1> USE DEF files, ghosts
  <1>1. /\ UNCHANGED <<challengeFile, responseFile, lastId, phase, req, ans>>
        /\ Parsed' = Parsed
    BY DEF Compile, Sign, Tick, vars, Parsed
  <1>2. IdsDrawn' /\ OneChallengePerId'
    BY <1>1 DEF HInv, IdsDrawn, OneChallengePerId, Holds
  <1>3. ResponsesBound'
    BY <1>1 DEF HInv, ResponsesBound, Answers, Agree, Holds
  <1>4. ChallengesTruthful'
    <2>1. everSigned \subseteq everSigned'
      BY DEF Compile, Sign, Tick, vars
    <2>2. \A ch : Truthful(ch) => Truthful(ch)'
      BY <2>1 DEF Truthful
    <2>3. signed' => gov' \in everSigned'
      <3>1. CASE Compile
        BY <3>1 DEF Compile
      <3>2. CASE Sign
        BY <3>2 DEF Sign
      <3>3. CASE Tick \/ UNCHANGED vars
        <4>1. signed' = signed /\ gov' = gov /\ everSigned' = everSigned
          BY <3>3 DEF Tick, vars
        <4>2. signed => gov \in everSigned
          BY DEF HInv, ChallengesTruthful
        <4> QED BY <4>1, <4>2, Zenon
      <3> QED BY <3>1, <3>2, <3>3
    <2>4. ASSUME NEW c \in Client, phase[c] \in Reading, ~disturbed'[c]
          PROVE  /\ req[c].mandates = MandatesIn[gov']
                 /\ phase[c] = "signature" /\ req[c].verified => gov' \in everSigned'
      <3>1. gov' = gov /\ ~disturbed[c]
        BY <2>4 DEF Compile, Sign, Tick, vars, Disturb
      <3> QED
        BY <2>1, <2>4, <3>1 DEF HInv, ChallengesTruthful
    <2> QED
      BY <1>1, <2>2, <2>3, <2>4 DEF HInv, ChallengesTruthful, Holds
  <1> QED BY <1>2, <1>3, <1>4

LEMMA InvStep == HInv /\ [Next]_vars => HInv'
  <1> SUFFICES ASSUME HInv, [Next]_vars PROVE HInv'
    OBVIOUS
  <1>1. TypeOK'
    BY TypeStep DEF HInv
  <1>2. IdsDrawn' /\ OneChallengePerId' /\ ResponsesBound' /\ ChallengesTruthful'
    BY ReadMandatesInv, ReadSignatureInv, ReadFingerprintInv, OpenChallengeInv,
       FillChallengeInv, NotPersistedInv, StampInv, WriteResponseInv, AbandonInv,
       WorkspaceInv
    DEF Next, Issue, Complete
  <1> QED BY <1>1, <1>2 DEF HInv

LEMMA InvHolds == Spec => []HInv
  BY InvInit, InvStep, PTL DEF Spec

-----------------------------------------------------------------------------
(* A response that is valid against an intact challenge has its binding.   *)
LEMMA ValidBinding ==
  ASSUME HInv, Valid(FALSE), Parsed
  PROVE  /\ responseFile.id = challengeFile.id
         /\ challengeFile.fp = gov
         /\ challengeFile.mandates \subseteq responseFile.understood
         /\ now <= challengeFile.issued + TTL
  BY DEF Valid, BindingIsValid, HInv, ResponsesBound, Answers, Agree

(* SEC-03 for every schedule: since a response takes the expiry of the     *)
(* challenge on file, and one bound to no file can meet no challenge of    *)
(* its id again, no answer is valid after its challenge's hour.            *)
THEOREM ExpiryHolds == Spec => []ValidUntilTTL
  <1>1. HInv => ValidUntilTTL
    BY ValidBinding DEF ValidUntilTTL
  <1> QED BY <1>1, InvHolds, PTL

(* SEC-02 for every schedule: valid means that the mandates of the         *)
(* governance in force were understood, when the challenge was built from  *)
(* one artifact.                                                           *)
THEOREM MandatesHold == Spec => []MandatesUnderstood
  <1>1. HInv => MandatesUnderstood
    BY ValidBinding DEF MandatesUnderstood, HInv, ChallengesTruthful, Truthful
  <1> QED BY <1>1, InvHolds, PTL

(* SEC-05 for every schedule: strictly valid means that the signature of   *)
(* the governance in force verified once.                                  *)
THEOREM StrictHolds == Spec => []StrictMeansSigned
  <1>1. HInv => StrictMeansSigned
    <2> SUFFICES ASSUME HInv, Valid(TRUE), Parsed, challengeFile.clean
                 PROVE  gov \in everSigned
      BY DEF StrictMeansSigned
    <2>1. challengeFile.verified /\ challengeFile.fp = gov
      BY DEF Valid, BindingIsValid, HInv, ResponsesBound, Answers, Agree
    <2> QED BY <2>1 DEF HInv, ChallengesTruthful, Truthful
  <1> QED BY <1>1, InvHolds, PTL

(* No step but a new response, other governance or the loss of the         *)
(* challenge makes an invalid handshake valid: the clock only moves on,    *)
(* and a challenge is filed before anything can carry its id.              *)
THEOREM RevivalImpossible == Spec => NoRevival
  <1>1. HInv /\ [Next]_vars =>
            (~Valid(FALSE) /\ Valid(FALSE)' =>
                responseFile' # responseFile \/ gov' # gov \/ ~Parsed')
    <2> SUFFICES ASSUME HInv, [Next]_vars, ~Valid(FALSE), Valid(FALSE)',
                        responseFile' = responseFile, gov' = gov, Parsed'
                 PROVE  FALSE
      OBVIOUS
    <2> USE DEF files, ghosts
    <2>1. responseFile # NoFile /\ Parsed /\ ~BindingIsValid(FALSE) /\ BindingIsValid(FALSE)'
      BY DEF Valid
    <2>2. now \in Nat /\ now' \in Nat /\ now <= now'
      BY TypeStep, Numbers DEF HInv, TypeOK, Next, Issue, Complete, vars, ReadMandates,
         ReadSignature, ReadFingerprint, OpenChallenge, FillChallenge,
         ChallengeNotPersisted, StampResponse, WriteResponse, Abandon, Compile, Sign, Tick
    <2>3. responseFile \in Response /\ responseFile.expires \in Nat
      BY <2>1 DEF HInv, TypeOK, Response
    <2>4. CASE challengeFile' = challengeFile
      BY <2>1, <2>2, <2>3, <2>4 DEF BindingIsValid
    <2>5. CASE challengeFile' # challengeFile
      <3>1. PICK c \in Client : FillChallenge(c)
        BY <2>5 DEF Next, Issue, Complete, vars, ReadMandates, ReadSignature,
           ReadFingerprint, OpenChallenge, ChallengeNotPersisted, StampResponse,
           WriteResponse, Abandon, Compile, Sign, Tick, Parsed
      <3>2. phase[c] = "filling" /\ challengeFile' = req[c] /\ Holds(c)
        BY <3>1 DEF FillChallenge, Move, Holds
      <3>3. responseFile.id # req[c].id
        BY <2>1, <3>2 DEF HInv, ResponsesBound, Answers
      <3> QED BY <2>1, <3>2, <3>3 DEF BindingIsValid
    <2> QED BY <2>4, <2>5
  <1> QED BY <1>1, InvHolds, PTL DEF Spec, NoRevival
=============================================================================
