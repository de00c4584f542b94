------------------------------- MODULE Identity -------------------------------
(***************************************************************************)
(* The identity routes of zeroTrust.ts: proofs that clients hand in for a  *)
(* session, with a confidence of their own choice, and have verified as    *)
(* often as they like; devices, behaviour, and the trust score. Proofs are *)
(* valid from the start. They are in two maps that share the objects; they *)
(* never expire, as nothing sets expiresAt, and nothing calls revokeProof. *)
(* Scores are kept in tenths.                                              *)
(***************************************************************************)
EXTENDS Integers, Sequences, FiniteSets, FiniteSetsExt, SequencesExt

CONSTANTS
  Session,
  Proofs,      \* [type, sound, confidence]: would its data pass, the confidence in tenths
  Behaviours,  \* [typingSpeed, mouseMovements, timePatterns], 0 and FALSE for none
  Platforms,   \* of devices, "" for none
  Hours,       \* of the day
  MaxAge,      \* of a pattern, 24 hours
  MaxProofs, MaxLength, MaxTime \* bounds of the model: proofs, devices and patterns, the clock

VARIABLES
  now,
  proofs,   \* in the order they were made, each with its session
  devices,  \* the platforms of those registered
  behaviour,\* the patterns of analyzeBehavior
  answers   \* history: what the last verification of each proof said

identityVars == <<now, proofs, devices, behaviour, answers>>

Weights == [password |-> 20, mfa |-> 40, biometric |-> 50, certificate |-> 45, hardware_token |-> 60,
            behavioral |-> 10, contextual |-> 10]

\* Everything is of its kind.
TypeOK ==
  /\ now \in 0..MaxTime
  /\ \A i \in DOMAIN proofs :
       /\ proofs[i].type \in DOMAIN Weights /\ proofs[i].sessionId \in Session
       /\ proofs[i].isValid \in BOOLEAN /\ proofs[i].confidence \in Int
  /\ ToSet(devices) \subseteq Platforms \cup {"unknown"}
  /\ \A i \in DOMAIN behaviour : behaviour[i].riskScore \in 0..1000 /\ behaviour[i].timestamp \in 0..now
  /\ answers \in [DOMAIN proofs -> {"none", "valid", "refused"}]

Init == now = 0 /\ proofs = <<>> /\ devices = <<>> /\ behaviour = <<>> /\ answers = <<>>

-----------------------------------------------------------------------------
(* Proofs *)

\* POST /identity/proof
CreateProof(s, proof) ==
  /\ Len(proofs) < MaxProofs
  /\ proofs' = Append(proofs,
       [sessionId |-> s, type |-> proof.type, sound |-> proof.sound, confidence |-> proof.confidence,
        isValid |-> TRUE])
  /\ answers' = Append(answers, "none")
  /\ UNCHANGED <<now, devices, behaviour>>

\* The outcomes validateProofByType may have: the likeness of biometric data is
\* drawn by lot, and of what is no proof of its own the confidence decides. The
\* route hands on no proof without data, so the validation never throws.
Outcomes(proof) ==
  CASE proof.type = "biometric" -> BOOLEAN
    [] proof.type \in {"behavioral", "contextual"} -> {proof.confidence > 5}
    [] OTHER -> {proof.sound}

\* Mutant of VerifyProof: a proof that is not accepted is left as it was.
VerifyProofOnly(i) ==
  /\ i \in DOMAIN proofs
  /\ \E valid \in Outcomes(proofs[i]) :
       /\ proofs' = [proofs EXCEPT ![i].isValid = @ \/ valid]
       /\ answers' = [answers EXCEPT ![i] = IF valid THEN "valid" ELSE "refused"]
  /\ UNCHANGED <<now, devices, behaviour>>

\* POST /identity/proof/:proofId/verify
VerifyProof(i) ==
  /\ i \in DOMAIN proofs
  /\ \E valid \in Outcomes(proofs[i]) :
       /\ proofs' = [proofs EXCEPT ![i].isValid = valid]
       /\ answers' = [answers EXCEPT ![i] = IF valid THEN "valid" ELSE "refused"]
  /\ UNCHANGED <<now, devices, behaviour>>

ProofsOf(s) == {i \in DOMAIN proofs : proofs[i].sessionId = s}

\* GET /identity/trust-score/:sessionId. A confidence below 0 counts as such.
calculateTrustScore(s) ==
  LET valid == {i \in ProofsOf(s) : proofs[i].isValid}
      points == SumFunctionOnSet([i \in valid |-> Weights[proofs[i].type] * proofs[i].confidence], valid)
  IN  Min({points + 10 * Min({5 * Cardinality(valid), 30}), 1000})

-----------------------------------------------------------------------------
(* Devices and behaviour *)

\* POST /identity/device: nothing relates the device to the session.
RegisterDevice(platform) ==
  /\ Len(devices) < MaxLength
  /\ devices' = Append(devices, IF platform = "" THEN "unknown" ELSE platform)
  /\ UNCHANGED <<now, proofs, behaviour, answers>>

Distance(a, b) == IF a < b THEN b - a ELSE a - b

calculateBehavioralRisk(b, hour) ==
  (IF b.typingSpeed = 0 THEN 0 ELSE Min({5 * Distance(b.typingSpeed, 60), 300}))
  + (IF b.mouseMovements = 0 THEN 0 ELSE Min({2 * Distance(b.mouseMovements, 100), 200}))
  + (IF b.timePatterns /\ hour \notin 6..21 THEN 250 ELSE 0)

\* POST /identity/behavior
AnalyzeBehavior(s, b, hour) ==
  /\ Len(behaviour) < MaxLength
  /\ behaviour' = Append(behaviour,
       [sessionId |-> s, riskScore |-> calculateBehavioralRisk(b, hour), timestamp |-> now])
  /\ UNCHANGED <<now, proofs, devices, answers>>

\* POST /cleanup, the part of this manager
Cleanup ==
  /\ behaviour' = SelectSeq(behaviour, LAMBDA p : now - p.timestamp <= MaxAge)
  /\ UNCHANGED <<now, proofs, devices, answers>>

Tick ==
  /\ now < MaxTime
  /\ now' = now + 1
  /\ UNCHANGED <<proofs, devices, behaviour, answers>>

Next ==
  \/ \E s \in Session, proof \in Proofs : CreateProof(s, proof)
  \/ \E i \in 1..MaxProofs : VerifyProof(i)
  \/ \E platform \in Platforms : RegisterDevice(platform)
  \/ \E s \in Session, b \in Behaviours, hour \in Hours : AnalyzeBehavior(s, b, hour)
  \/ Cleanup
  \/ Tick

-----------------------------------------------------------------------------
(* Properties *)

\* However often and with whatever luck proofs are verified, a session has trust
\* exactly as long as it has a proof that is not refused by the last of its
\* verifications, as long as clients claim no confidence below 0.
TrustIsEarned ==
  \A s \in Session :
    LET earning == {i \in ProofsOf(s) : answers[i] # "refused"}
    IN  (\A i \in ProofsOf(s) : proofs[i].confidence >= 0) =>
          ((calculateTrustScore(s) > 0) <=> (earning # {}))
=============================================================================
