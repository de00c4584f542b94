---------------------------- MODULE MCEtlPipeline ----------------------------
(* Small instances of EtlPipeline and of DataQuality for TLC: the runs that *)
(* make the records, and the reports on the table. They share no state;     *)
(* component says which of them moves, the other stays as it began.         *)
EXTENDS EtlPipeline, DataQuality, TLC

CONSTANTS b1, b2, us, ca, i1, i2, k1

VARIABLE component

TwoBins == <<b1, b2>>

Named(c, s) == [of |-> c, spelt |-> s]
Raw(c, n, i, k) == [countryCode |-> c, country |-> n, issuer |-> i, bankCode |-> k]

\* What a source may say of b1: one group of fields varies at a time.
Countries == {Raw(c, n, i1, Missing) :
                <<c, n>> \in {<<us, Missing>>, <<us, Named(us, "iso")>>, <<ca, Named(ca, "iso")>>,
                             <<Missing, Named(ca, "other")>>, <<Missing, Named(us, "iso")>>}}
Issuers == {Raw(us, Missing, i, Missing) : i \in {Missing, i1, i2}}
BankCodes == {Raw(us, Named(us, "iso"), Missing, k) : k \in {Missing, k1}}

\* None, one or, from the first source, two records.
OneEach(S) == {[s \in Source |-> IF r[s] = Missing THEN <<>> ELSE <<r[s]>>] :
                 r \in [Source -> S \cup {Missing}]}
TwoFromFirst(S) == {[s \in Source |-> IF s = "binlist" THEN <<r, t>> ELSE <<u>>] : r, t, u \in S}

\* Only the last source lists b2.
MCListings ==
  {[s \in Source |-> [b \in {b1, b2} |->
      IF b = b1 THEN l[s] ELSE IF s = "aderyabin" THEN <<Raw(us, Missing, Missing, Missing)>>
      ELSE <<>>]] :
   l \in OneEach(Countries) \cup OneEach(Issuers) \cup OneEach(BankCodes)
           \cup TwoFromFirst(Issuers)}

MCAnswers == {[country |-> Named(us, "iso"), issuer |-> i2, url |-> k1],
              [country |-> Missing, issuer |-> i1, url |-> Missing]}

\* A unit of time is 30 days.
MCDays == [p \in Period |-> IF p = "30d" THEN 0 ELSE 1]

Init ==
  /\ component \in {"pipeline", "quality"}
  /\ PipelineInit /\ (component # "pipeline" => files = CHOOSE l \in Listings : TRUE)
  /\ QualityInit /\ (component # "quality" => ~filled)

Next ==
  \/ component = "pipeline" /\ PipelineNext /\ UNCHANGED <<component, qualityVars>>
  \/ component = "quality" /\ QualityNext /\ UNCHANGED <<component, pipelineVars>>

Spec == Init /\ [][Next]_<<component, pipelineVars, qualityVars>>
=============================================================================
