---------------------------- MODULE ReviewProofs ----------------------------
(***************************************************************************)
(* Proofs about Review, for any claims, observations, arbiters' batches    *)
(* and limits: types, the verdicts on file, that no claim is ever both     *)
(* verified and rejected, that limits hold and that verdicts are backed.   *)
(***************************************************************************)
EXTENDS Review, FiniteSetTheorems, TLAPS

LEMMA AcceptedFacts ==
  ASSUME NEW S \in SUBSET Observations, NEW stance, NEW o \in Observations
  PROVE  /\ Accepted(S, stance, o) \in SUBSET Observations
         /\ S \subseteq Accepted(S, stance, o)
         /\ Accepted(S, stance, o) \subseteq S \cup {o}
  BY DEF Accepted

LEMMA DerivedFacts ==
  ASSUME NEW old \in Statuses, NEW S \in SUBSET Observations, NEW T \in SUBSET Observations
  PROVE  /\ DeriveStatus(old, S, T) \in Statuses
         /\ \A v \in Verdicts : DeriveStatus(old, S, T) = v <=> old = v
  <1> DEFINE two == Cardinality(S) >= 2
  <1> HIDE DEF two
  <1>1. DeriveStatus(old, S, T) =
          IF old \in Verdicts THEN old
          ELSE IF S # {} /\ T # {} THEN "contested"
          ELSE IF two THEN "supported" ELSE "unconfirmed"
    BY DEF DeriveStatus, two
  <1>2. QED
    BY <1>1 DEF Statuses, Verdicts

(* Support of a verdict is not empty.                                      *)
LEMMA CarriedIsHeld ==
  ASSUME NEW c, NEW S, NEW T, Carries(c, S, T)
  PROVE  S # {} /\ T = {}
  BY FS_EmptySet DEF Carries

LEMMA EmptyGroupType == EmptyGroup \in Groups
  BY DEF EmptyGroup, Groups, Statuses

LEMMA JoinedFacts ==
  ASSUME NEW g \in Groups, NEW o \in Observations,
         g.confirms \cup g.refutes \subseteq g.seen
  PROVE  /\ Joined(g, o) \in Groups
         /\ Joined(g, o).confirms \cup Joined(g, o).refutes \subseteq Joined(g, o).seen
         /\ g.confirms \subseteq Joined(g, o).confirms
         /\ g.refutes \subseteq Joined(g, o).refutes
         /\ \A v \in Verdicts : Joined(g, o).status = v <=> g.status = v
  <1> DEFINE S == Accepted(g.confirms, "confirms", o)
             T == Accepted(g.refutes, "refutes", o)
             d == DeriveStatus(g.status, S, T)
  <1>0. g.confirms \in SUBSET Observations /\ g.refutes \in SUBSET Observations
        /\ g.seen \in SUBSET Observations /\ g.status \in Statuses
    BY DEF Groups
  <1>1. /\ S \in SUBSET Observations /\ g.confirms \subseteq S /\ S \subseteq g.confirms \cup {o}
        /\ T \in SUBSET Observations /\ g.refutes \subseteq T /\ T \subseteq g.refutes \cup {o}
    BY <1>0, AcceptedFacts
  <1>2. d \in Statuses /\ \A v \in Verdicts : d = v <=> g.status = v
    BY <1>0, <1>1, DerivedFacts
  <1>3. Joined(g, o) = [g EXCEPT !.seen = @ \cup {o}, !.confirms = S, !.refutes = T, !.status = d]
    BY DEF Joined
  <1> DEFINE seen == g.seen \cup {o}
             z == [g EXCEPT !.seen = seen, !.confirms = S, !.refutes = T, !.status = d]
  <1>a. seen \in SUBSET Observations
    BY <1>0
  <1>b. Joined(g, o) = z
    BY <1>3
  <1> HIDE DEF S, T, d, seen
  <1>c. z \in Groups /\ z.seen = seen /\ z.confirms = S /\ z.refutes = T /\ z.status = d
    BY <1>1, <1>2, <1>a DEF Groups
  <1> HIDE DEF z
  <1>4. /\ Joined(g, o) \in Groups
        /\ Joined(g, o).seen = g.seen \cup {o} /\ Joined(g, o).confirms = S
        /\ Joined(g, o).refutes = T /\ Joined(g, o).status = d
    BY <1>b, <1>c DEF seen
  <1>5. QED
    BY <1>0, <1>1, <1>2, <1>4

(* An action of a batch changes neither the observations nor the links.    *)
LEMMA EffectFacts ==
  ASSUME NEW g \in Groups, NEW a \in Actions
  PROVE  /\ Effect(g, a) \in Groups
         /\ Effect(g, a).seen = g.seen
         /\ Effect(g, a).confirms = g.confirms /\ Effect(g, a).refutes = g.refutes
         /\ Effect(g, a).status =
              CASE a.kind = "recommend" -> "verified"
                [] a.kind = "reject" /\ g.status \notin Verdicts -> "rejected"
                [] a.kind = "request" -> "needs_evidence"
                [] OTHER -> g.status
  <1>1. CASE a.kind = "recommend"
    BY <1>1 DEF Effect, Groups, Statuses, Verdicts
  <1>2. CASE a.kind = "reject" /\ g.status \notin Verdicts
    BY <1>2 DEF Effect, Groups, Statuses, Verdicts
  <1>3. CASE a.kind = "request"
    <2> DEFINE n == g.requests + 1
               z == [g EXCEPT !.status = "needs_evidence", !.requests = n]
    <2>1. n \in Nat /\ "needs_evidence" \in Statuses
      BY DEF Groups, Statuses
    <2>2. Effect(g, a) = z
      BY <1>3 DEF Effect
    <2> HIDE DEF n
    <2>3. /\ z \in Groups /\ z.seen = g.seen /\ z.confirms = g.confirms
          /\ z.refutes = g.refutes /\ z.status = "needs_evidence"
      BY <2>1 DEF Groups
    <2> HIDE DEF z
    <2>4. QED
      BY <1>3, <2>2, <2>3
  <1>4. CASE ~(a.kind = "recommend") /\ ~(a.kind = "request")
             /\ ~(a.kind = "reject" /\ g.status \notin Verdicts)
    BY <1>4 DEF Effect
  <1>5. QED
    BY <1>1, <1>2, <1>3, <1>4

LEMMA KnownFacts ==
  ASSUME TypeOK, NEW c \in Claims
  PROVE  /\ Known(c) \in Groups
         /\ Known(c).confirms \cup Known(c).refutes \subseteq Known(c).seen
         /\ Known(c).status = Status(c)
  BY EmptyGroupType DEF TypeOK, Known, EmptyGroup, Status

-----------------------------------------------------------------------------
(* The group that is worked on is the claim's, but for its status and      *)
(* counters; a verdict it was given has support, and no contradiction      *)
(* unless the claim had that verdict before.                               *)
Firm(c) ==
  /\ Known(c).status = "verified" => Known(c).confirms # {}
  /\ Known(c).status = "rejected" => Known(c).refutes # {}
WorkIsFirm ==
  applying # None =>
    LET w == applying.work
        g == Known(applying.claim)
    IN /\ groups[applying.claim] # None
       /\ w.seen = g.seen /\ w.confirms = g.confirms /\ w.refutes = g.refutes
       /\ w.status = "verified" => w.confirms # {} /\ (w.refutes = {} \/ g.status = "verified")
       /\ w.status = "rejected" => w.refutes # {} /\ (w.confirms = {} \/ g.status = "rejected")

(* A successor that was ingested has a group to link.                      *)
Present ==
  \A k \in Callers :
    successor[k] # None /\ successor[k].ingested => groups[successor[k].claim] # None
Inv == TypeOK /\ WorkIsFirm /\ Present /\ (\A c \in Claims : Firm(c)) /\ VerdictsAreOnFile

LEMMA Initially == Init => Inv
  BY ReviewAssumption
     DEF Init, Inv, TypeOK, WorkIsFirm, Present, Firm, Known, EmptyGroup, VerdictsAreOnFile, Status, Verdicts

(* What the arrival of an observation keeps.                               *)
LEMMA Arrival ==
  ASSUME Inv, NEW c \in Claims, NEW o \in Observations, unlocked,
         groups' = [groups EXCEPT ![c] = Received(c, o)], saved' \in {saved, groups'},
         UNCHANGED applying
  PROVE  /\ groups' \in [Claims -> Groups \cup {None}]
         /\ saved' \in [Claims -> Groups \cup {None}]
         /\ \A d \in Claims : groups[d]' # None =>
              groups[d]'.confirms \cup groups[d]'.refutes \subseteq groups[d]'.seen
         /\ WorkIsFirm' /\ (\A d \in Claims : Firm(d)') /\ VerdictsAreOnFile'
         /\ \A d \in Claims : /\ \A v \in Verdicts : Known(d)'.status = v <=> Known(d).status = v
                              /\ Known(d).confirms \subseteq Known(d)'.confirms
                              /\ Known(d).refutes \subseteq Known(d)'.refutes
  <1> DEFINE r == Received(c, o)
  <1>0. /\ r \in Groups /\ r.confirms \cup r.refutes \subseteq r.seen
        /\ Known(c).confirms \subseteq r.confirms /\ Known(c).refutes \subseteq r.refutes
        /\ \A v \in Verdicts : r.status = v <=> Known(c).status = v
    BY KnownFacts, JoinedFacts DEF Inv, Received
  <1>1. r # None
    BY <1>0, ReviewAssumption
  <1> HIDE DEF r
  <1>2. groups' = [groups EXCEPT ![c] = r]
    BY DEF r
  <1>3. groups' \in [Claims -> Groups \cup {None}]
    BY <1>0, <1>2 DEF Inv, TypeOK
  <1>4. groups'[c] = r /\ \A d \in Claims \ {c} : groups'[d] = groups[d]
    BY <1>2 DEF Inv, TypeOK
  <1>5. Known(c)' = r /\ \A d \in Claims \ {c} : Known(d)' = Known(d)
    BY <1>1, <1>4 DEF Known
  <1>6. \A d \in Claims : groups[d]' # None =>
          groups[d]'.confirms \cup groups[d]'.refutes \subseteq groups[d]'.seen
    <2>1. TAKE d \in Claims
    <2>2. CASE d = c
      BY <1>0, <1>4, <2>2
    <2>3. CASE d # c
      BY <1>4, <2>3 DEF Inv, TypeOK
    <2>4. QED
      BY <2>2, <2>3
  <1>7. \A d \in Claims : /\ \A v \in Verdicts : Known(d)'.status = v <=> Known(d).status = v
                          /\ Known(d).confirms \subseteq Known(d)'.confirms
                          /\ Known(d).refutes \subseteq Known(d)'.refutes
    BY <1>0, <1>5
  <1>8. \A d \in Claims : Firm(d)'
    <2>1. TAKE d \in Claims
    <2>2. Firm(d)
      BY DEF Inv
    <2>3. QED
      BY <1>7, <2>2 DEF Firm, Verdicts
  <1>9. VerdictsAreOnFile'
    <2>1. SUFFICES ASSUME NEW d \in Claims, NEW v \in Verdicts
                   PROVE  Status(d)' = v <=> saved[d]' # None /\ saved[d]'.status = v
      BY DEF VerdictsAreOnFile
    <2>3. Status(d)' = v <=> Status(d) = v
      <3>1. CASE d = c
        BY <1>0, <1>1, <1>4, <3>1, KnownFacts DEF Inv, Status
      <3>2. CASE d # c
        BY <1>4, <3>2 DEF Status
      <3>3. QED
        BY <3>1, <3>2
    <2>4. CASE saved' = saved
      BY <2>3, <2>4 DEF Inv, VerdictsAreOnFile
    <2>5. CASE saved' = groups'
      BY <2>5 DEF Status, Verdicts
    <2>6. QED
      BY <2>4, <2>5
  <1>10. saved' \in [Claims -> Groups \cup {None}]
    BY <1>3 DEF Inv, TypeOK
  <1>11. WorkIsFirm'
    BY DEF unlocked, WorkIsFirm
  <1>12. QED
    BY <1>3, <1>6, <1>7, <1>8, <1>9, <1>10, <1>11
(* What a step may do to a claim: it loses no observation, and takes a     *)
(* verdict only if nothing stands against it.                              *)
Grows(c) ==
  /\ Known(c).confirms \subseteq Known(c)'.confirms
  /\ Known(c).refutes \subseteq Known(c)'.refutes
  /\ Status(c)' = "verified" => Status(c) = "verified" \/ Known(c).refutes = {}
  /\ Status(c)' = "rejected" => Status(c) = "rejected" \/ Known(c).confirms = {}
Good == Inv' /\ \A c \in Claims : Grows(c)

(* Observations, evidence and callers, in any type-correct way, without a  *)
(* change to the groups.                                                   *)
LEMMA Quiet ==
  ASSUME Inv, UNCHANGED <<groups, saved, applying>>,
         evidence' \in [Evidence -> {"absent", "current", "revoked", "superseded"}],
         successor' \in [Callers -> Successions \cup {None}], Present'
  PROVE  Good
  <1>1. TypeOK'
    BY DEF Inv, TypeOK
  <1>2. WorkIsFirm' /\ VerdictsAreOnFile' /\ \A c \in Claims : Firm(c)'
    BY DEF Inv, WorkIsFirm, VerdictsAreOnFile, Firm, Known, Status
  <1>3. \A c \in Claims : Grows(c)
    BY DEF Grows, Known, Status
  <1>4. QED
    BY <1>1, <1>2, <1>3 DEF Good, Inv

LEMMA Arrives ==
  ASSUME Inv, NEW c \in Claims, NEW o \in Observations, unlocked,
         groups' = [groups EXCEPT ![c] = Received(c, o)], saved' \in {saved, groups'},
         UNCHANGED <<applying, evidence>>,
         successor' \in [Callers -> Successions \cup {None}], Present'
  PROVE  Good
  <1>1. /\ groups' \in [Claims -> Groups \cup {None}]
        /\ saved' \in [Claims -> Groups \cup {None}]
        /\ \A d \in Claims : groups[d]' # None =>
             groups[d]'.confirms \cup groups[d]'.refutes \subseteq groups[d]'.seen
        /\ WorkIsFirm' /\ (\A d \in Claims : Firm(d)') /\ VerdictsAreOnFile'
        /\ \A d \in Claims : /\ \A v \in Verdicts : Known(d)'.status = v <=> Known(d).status = v
                             /\ Known(d).confirms \subseteq Known(d)'.confirms
                             /\ Known(d).refutes \subseteq Known(d)'.refutes
    BY Arrival
  <1>2. TypeOK'
    BY <1>1 DEF Inv, TypeOK
  <1>3. \A d \in Claims : Status(d) = Known(d).status /\ Status(d)' = Known(d)'.status
    BY DEF Status, Known, EmptyGroup
  <1>4. \A d \in Claims : Grows(d)
    BY <1>1, <1>3 DEF Grows, Verdicts
  <1>5. QED
    BY <1>1, <1>2, <1>4 DEF Good, Inv

(* A group that receives an observation exists, and none goes away.        *)
LEMMA ReceivedIsThere ==
  ASSUME Inv, NEW c \in Claims, NEW o \in Observations,
         groups' = [groups EXCEPT ![c] = Received(c, o)]
  PROVE  /\ groups'[c] # None
         /\ \A d \in Claims : groups[d] # None => groups'[d] # None
         /\ \A k \in Callers : successor[k] # None => successor[k].claim \in Claims
  <1> DEFINE r == Received(c, o)
  <1>1. r \in Groups
    BY KnownFacts, JoinedFacts DEF Inv, Received
  <1>2. r # None
    BY <1>1, ReviewAssumption
  <1> HIDE DEF r
  <1>3. groups' = [groups EXCEPT ![c] = r]
    BY DEF r
  <1>4. \A k \in Callers : successor[k] # None => successor[k].claim \in Claims
    BY DEF Inv, TypeOK, Successions
  <1>5. QED
    BY <1>2, <1>3, <1>4 DEF Inv, TypeOK

LEMMA IngestGood ==
  ASSUME Inv, NEW c \in Claims, NEW o \in Observations, Ingest(c, o)
  PROVE  Good
  <1>1. Present'
    BY ReceivedIsThere DEF Ingest, Inv, Present
  <1>2. QED
    BY <1>1, Arrives DEF Ingest, Inv, TypeOK

LEMMA ReadPredecessorGood ==
  ASSUME Inv, NEW k \in Callers, NEW p \in Claims, NEW c \in Claims, NEW o \in Observations,
         ReadPredecessor(k, p, c, o)
  PROVE  Good
  <1> DEFINE x == [pred |-> p, claim |-> c, obs |-> o, depth |-> groups[p].depth + 1, ingested |-> FALSE]
  <1>1. groups[p].depth \in Nat
    BY DEF ReadPredecessor, Inv, TypeOK, Groups
  <1>2. x \in Successions
    BY <1>1 DEF Successions
  <1>3. successor' = [successor EXCEPT ![k] = x]
    BY DEF ReadPredecessor
  <1> HIDE DEF x
  <1>4. successor' \in [Callers -> Successions \cup {None}]
    BY <1>2, <1>3 DEF Inv, TypeOK
  <1>5. x # None /\ x.ingested = FALSE
    BY <1>2, ReviewAssumption DEF x
  <1>6. Present'
    BY <1>3, <1>5 DEF ReadPredecessor, Inv, TypeOK, Present
  <1>7. QED
    BY <1>4, <1>6, Quiet DEF ReadPredecessor, Inv, TypeOK

LEMMA IngestSuccessorGood ==
  ASSUME Inv, NEW k \in Callers, IngestSuccessor(k)
  PROVE  Good
  <1> DEFINE x == successor[k]
  <1>1. x \in Successions
    BY DEF IngestSuccessor, Inv, TypeOK
  <1>2. x.claim \in Claims /\ x.obs \in Observations
    BY <1>1 DEF Successions
  <1>3. [successor EXCEPT ![k] = None] \in [Callers -> Successions \cup {None}]
    BY DEF Inv, TypeOK
  <1>4. [successor EXCEPT ![k].ingested = TRUE] \in [Callers -> Successions \cup {None}]
    <2> DEFINE y == [x EXCEPT !.ingested = TRUE]
    <2>1. y \in Successions
      BY <1>1 DEF Successions
    <2>2. [successor EXCEPT ![k].ingested = TRUE] = [successor EXCEPT ![k] = y]
      OBVIOUS
    <2> HIDE DEF y
    <2>3. QED
      BY <2>1, <2>2 DEF Inv, TypeOK
  <1>5. CASE ~Admits(x.claim, x.obs)
    <2>1. Present'
      BY <1>5 DEF IngestSuccessor, Inv, TypeOK, Present
    <2>2. QED
      BY <1>3, <1>5, <2>1, Quiet DEF IngestSuccessor, Inv, TypeOK
  <1>6. CASE Admits(x.claim, x.obs)
    <2>1. /\ unlocked /\ groups' = [groups EXCEPT ![x.claim] = Received(x.claim, x.obs)]
          /\ saved' \in {saved, groups'} /\ UNCHANGED <<applying, evidence>>
          /\ successor' \in [Callers -> Successions \cup {None}]
      BY <1>3, <1>4, <1>6 DEF IngestSuccessor
    <2>2. /\ groups'[x.claim] # None
          /\ \A d \in Claims : groups[d] # None => groups'[d] # None
          /\ \A j \in Callers : successor[j] # None => successor[j].claim \in Claims
      BY <1>2, <2>1, ReceivedIsThere
    <2>3. \A j \in Callers : j # k => successor'[j] = successor[j]
      BY <1>6 DEF IngestSuccessor, Inv, TypeOK
    <2>4. successor'[k] = None \/ successor'[k].claim = x.claim
      BY <1>1, <1>6 DEF IngestSuccessor, Inv, TypeOK, Successions
    <2>5. Present'
      BY <2>2, <2>3, <2>4 DEF Inv, Present
    <2>6. QED
      BY <1>2, <2>1, <2>5, Arrives
  <1>7. QED
    BY <1>5, <1>6

LEMMA EvidenceGood ==
  ASSUME Inv, NEW e \in Evidence, PutEvidence(e) \/ Revoke(e) \/ Supersede(e)
  PROVE  Good
  <1>1. PICK status \in {"current", "revoked", "superseded"} :
          evidence' = [evidence EXCEPT ![e] = status]
    BY DEF PutEvidence, Revoke, Supersede, Withdraw
  <1>2. evidence' \in [Evidence -> {"absent", "current", "revoked", "superseded"}]
    BY <1>1 DEF Inv, TypeOK
  <1>3. UNCHANGED <<groups, saved, applying, successor>>
    BY DEF PutEvidence, Revoke, Supersede, Withdraw
  <1>4. Present'
    BY <1>3 DEF Inv, Present
  <1>5. QED
    BY <1>2, <1>3, <1>4, Quiet DEF Inv, TypeOK
LEMMA LinkPredecessorGood ==
  ASSUME Inv, NEW k \in Callers, LinkPredecessor(k)
  PROVE  Good
  <1> DEFINE x == successor[k]
             c == x.claim
             z == [groups[c] EXCEPT !.pred = x.pred, !.depth = x.depth]
  <1>1. x \in Successions /\ c \in Claims /\ x.pred \in Claims /\ x.depth \in Nat
    BY DEF LinkPredecessor, Inv, TypeOK, Successions
  <1>2. groups[c] # None /\ groups[c] \in Groups
    BY <1>1 DEF LinkPredecessor, Inv, Present, TypeOK
  <1>3. groups' = groups \/ groups' = [groups EXCEPT ![c] = z]
    BY DEF LinkPredecessor
  <1>4. /\ z \in Groups /\ z.seen = groups[c].seen /\ z.confirms = groups[c].confirms
        /\ z.refutes = groups[c].refutes /\ z.status = groups[c].status
    BY <1>1, <1>2 DEF Groups
  <1>5. z # None
    BY <1>4, ReviewAssumption
  <1>6. /\ successor' \in [Callers -> Successions \cup {None}]
        /\ successor'[k] = None /\ \A j \in Callers : j # k => successor'[j] = successor[j]
    BY DEF LinkPredecessor, Inv, TypeOK
  <1>7. UNCHANGED <<saved, evidence, applying>> /\ applying = None
    BY DEF LinkPredecessor, unlocked
  <1> HIDE DEF z
  <1>8. groups' \in [Claims -> Groups \cup {None}]
    BY <1>3, <1>4 DEF Inv, TypeOK
  <1>9. \A d \in Claims : /\ groups'[d] = None <=> groups[d] = None
                          /\ groups[d] # None =>
                               /\ groups'[d].seen = groups[d].seen
                               /\ groups'[d].confirms = groups[d].confirms
                               /\ groups'[d].refutes = groups[d].refutes
                               /\ groups'[d].status = groups[d].status
    BY <1>2, <1>3, <1>4, <1>5 DEF Inv, TypeOK
  <1> HIDE DEF c, x
  <1>10. TypeOK'
    BY <1>6, <1>7, <1>8, <1>9 DEF Inv, TypeOK
  <1>11. \A d \in Claims : /\ Status(d)' = Status(d)
                           /\ Known(d)'.status = Known(d).status
                           /\ Known(d)'.confirms = Known(d).confirms
                           /\ Known(d)'.refutes = Known(d).refutes
    BY <1>9 DEF Status, Known
  <1>12. Present'
    BY <1>6, <1>9 DEF Inv, Present, TypeOK, Successions
  <1>13. WorkIsFirm' /\ VerdictsAreOnFile' /\ \A d \in Claims : Firm(d)'
    BY <1>7, <1>11 DEF Inv, WorkIsFirm, VerdictsAreOnFile, Firm
  <1>14. \A d \in Claims : Grows(d)
    BY <1>11 DEF Grows
  <1>15. QED
    BY <1>10, <1>12, <1>13, <1>14 DEF Good, Inv

(* Apply works on a copy: the groups and the file are as they were.        *)
LEMMA OnCopy ==
  ASSUME Inv, UNCHANGED <<groups, saved, evidence, successor>>,
         applying' \in Works \cup {None}, WorkIsFirm'
  PROVE  Good
  <1>1. TypeOK'
    BY DEF Inv, TypeOK
  <1>2. Present' /\ VerdictsAreOnFile' /\ \A c \in Claims : Firm(c)'
    BY DEF Inv, Present, VerdictsAreOnFile, Firm, Known, Status
  <1>3. \A c \in Claims : Grows(c)
    BY DEF Grows, Known, Status
  <1>4. QED
    BY <1>1, <1>2, <1>3 DEF Good, Inv

LEMMA ApplyGood ==
  ASSUME Inv, NEW c \in Claims, NEW batch \in Batches, Apply(c, batch)
  PROVE  Good
  <1> DEFINE n == IF batch = <<>> THEN groups[c].rounds ELSE groups[c].rounds + 1
             w == [groups[c] EXCEPT !.rounds = n]
             x == [claim |-> c, todo |-> batch, work |-> w]
  <1>1. groups[c] # None /\ groups[c] \in Groups
    BY DEF Apply, Inv, TypeOK
  <1>2. n \in Nat
    BY <1>1 DEF Groups
  <1>3. applying' = x
    BY DEF Apply
  <1> HIDE DEF n
  <1>4. /\ w \in Groups /\ w.seen = groups[c].seen /\ w.confirms = groups[c].confirms
        /\ w.refutes = groups[c].refutes /\ w.status = groups[c].status
    BY <1>1, <1>2 DEF Groups
  <1> HIDE DEF w
  <1>5. x \in Works /\ x.claim = c /\ x.work = w
    BY <1>4, ReviewAssumption DEF Works
  <1> HIDE DEF x
  <1>6. UNCHANGED <<groups, saved, evidence, successor>>
    BY DEF Apply
  <1>7. Known(c) = groups[c] /\ Known(c)' = groups[c]
    BY <1>1, <1>6 DEF Known
  <1>8. Firm(c)
    BY DEF Inv
  <1>9. WorkIsFirm'
    BY <1>1, <1>3, <1>4, <1>5, <1>6, <1>7, <1>8 DEF WorkIsFirm, Firm
  <1>10. QED
    BY <1>3, <1>5, <1>6, <1>9, OnCopy

(* An authorized verdict has its support and nothing against it, unless it *)
(* was the verdict before.                                                 *)
LEMMA AuthorizedIsFirm ==
  ASSUME NEW c, NEW g \in Groups, NEW a \in Actions, Authorized(c, g, a)
  PROVE  /\ Effect(g, a).status = "verified" =>
              g.status = "verified" \/ (g.confirms # {} /\ g.refutes = {})
         /\ Effect(g, a).status = "rejected" =>
              g.status = "rejected" \/ (g.refutes # {} /\ g.confirms = {})
  <1> USE DEF Verdicts
  <1>1. CASE a.kind = "recommend"
    <2>1. Authorized(c, g, a) <=>
            g.status = "verified" \/ (g.status # "rejected" /\ Carries(c, g.confirms, g.refutes))
      BY <1>1 DEF Authorized
    <2>2. Effect(g, a).status = "verified"
      BY <1>1, EffectFacts
    <2>3. QED
      BY <2>1, <2>2, CarriedIsHeld
  <1>2. CASE a.kind = "reject"
    <2>1. Authorized(c, g, a) <=> g.status \in Verdicts \/ Carries(c, g.refutes, g.confirms)
      BY <1>2 DEF Authorized
    <2>2. Effect(g, a).status = IF g.status \in Verdicts THEN g.status ELSE "rejected"
      BY <1>2, EffectFacts
    <2>3. QED
      BY <2>1, <2>2, CarriedIsHeld
  <1>3. CASE a.kind = "request"
    BY <1>3, EffectFacts
  <1>4. CASE a.kind \notin {"recommend", "reject", "request"}
    BY <1>4, EffectFacts
  <1>5. QED
    BY <1>1, <1>2, <1>3, <1>4

LEMMA AuthorizeGood ==
  ASSUME Inv, Authorize
  PROVE  Good
  <1>0. PICK c \in Claims, w \in Groups, a \in Actions, rest \in Seq(Actions) :
          c = applying.claim /\ w = applying.work /\ a = Head(applying.todo) /\ rest = Tail(applying.todo)
    <2>1. applying \in Works /\ applying.todo # <<>>
      BY DEF Authorize, Inv, TypeOK
    <2>2. applying.claim \in Claims /\ applying.work \in Groups /\ applying.todo \in Seq(Actions)
      BY <2>1 DEF Works
    <2>3. \A s \in Seq(Actions) : s # <<>> => Head(s) \in Actions /\ Tail(s) \in Seq(Actions)
      OBVIOUS
    <2>4. QED
      BY <2>1, <2>2, <2>3
  <1> DEFINE e == Effect(w, a)
             x == [applying EXCEPT !.work = e, !.todo = rest]
  <1>1. UNCHANGED <<groups, saved, evidence, successor>>
    BY DEF Authorize
  <1>2. CASE ~Authorized(c, w, a)
    <2>1. applying' = None
      BY <1>0, <1>2 DEF Authorize
    <2>2. QED
      BY <1>1, <2>1, OnCopy DEF WorkIsFirm
  <1>3. CASE Authorized(c, w, a)
    <2>1. applying \in Works /\ applying # None /\ applying.todo # <<>>
      BY DEF Authorize, Inv, TypeOK
    <2>3. applying' = x
      BY <1>0, <1>3 DEF Authorize
    <2>4. /\ e \in Groups /\ e.seen = w.seen
          /\ e.confirms = w.confirms /\ e.refutes = w.refutes
      BY EffectFacts
    <2>5. /\ e.status = "verified" => w.status = "verified" \/ (w.confirms # {} /\ w.refutes = {})
          /\ e.status = "rejected" => w.status = "rejected" \/ (w.refutes # {} /\ w.confirms = {})
      BY <1>3, AuthorizedIsFirm
    <2> HIDE DEF e
    <2>6. x \in Works /\ x.claim = c /\ x.work = e
      BY <1>0, <2>1, <2>4 DEF Works
    <2> HIDE DEF x
    <2>7. Known(c)' = Known(c)
      BY <1>1 DEF Known
    <2>8. WorkIsFirm'
      BY <1>0, <1>1, <2>1, <2>3, <2>4, <2>5, <2>6, <2>7 DEF Inv, WorkIsFirm
    <2>9. QED
      BY <1>1, <2>3, <2>6, <2>8, OnCopy
  <1>4. QED
    BY <1>2, <1>3

LEMMA CommitGood ==
  ASSUME Inv, Commit
  PROVE  Good
  <1>1. UNCHANGED <<evidence, successor>> /\ applying' = None /\ applying # None
    BY DEF Commit
  <1>2. CASE UNCHANGED <<groups, saved>>
    BY <1>1, <1>2, OnCopy DEF WorkIsFirm
  <1>3. CASE groups' = [groups EXCEPT ![applying.claim] = applying.work] /\ saved' = groups'
    <2>0. PICK c \in Claims, w \in Groups : c = applying.claim /\ w = applying.work
      BY <1>1 DEF Inv, TypeOK, Works
    <2>1. c \in Claims /\ w \in Groups
      OBVIOUS
    <2>2. w # None
      BY <2>1, ReviewAssumption
    <2>3. /\ groups[c] # None /\ Known(c) = groups[c]
          /\ w.seen = groups[c].seen /\ w.confirms = groups[c].confirms /\ w.refutes = groups[c].refutes
          /\ w.status = "verified" => w.confirms # {} /\ (w.refutes = {} \/ groups[c].status = "verified")
          /\ w.status = "rejected" => w.refutes # {} /\ (w.confirms = {} \/ groups[c].status = "rejected")
      BY <1>1, <2>0 DEF Inv, WorkIsFirm, Known
    <2>4. groups'[c] = w /\ \A d \in Claims : d # c => groups'[d] = groups[d]
      BY <1>3, <2>0 DEF Inv, TypeOK
    <2>5. groups' \in [Claims -> Groups \cup {None}]
      BY <1>3, <2>0 DEF Inv, TypeOK
    <2>6. TypeOK'
      BY <1>1, <1>3, <2>3, <2>4, <2>5 DEF Inv, TypeOK
    <2>7. Known(c)' = w /\ Status(c)' = w.status
      BY <2>2, <2>4 DEF Known, Status
    <2>8. \A d \in Claims : d # c => Known(d)' = Known(d) /\ Status(d)' = Status(d)
      BY <2>4 DEF Known, Status
    <2>9. Status(c) = groups[c].status
      BY <2>3 DEF Status
    <2>10. \A d \in Claims : Grows(d)
      <3>1. SUFFICES ASSUME NEW d \in Claims PROVE Grows(d)
        OBVIOUS
      <3>2. CASE d = c
        BY <2>3, <2>7, <2>9, <3>2 DEF Grows
      <3>3. CASE d # c
        BY <2>8, <3>3 DEF Grows
      <3>4. QED
        BY <3>2, <3>3
    <2>11. \A d \in Claims : Firm(d)'
      <3>1. SUFFICES ASSUME NEW d \in Claims PROVE Firm(d)'
        OBVIOUS
      <3>2. CASE d = c
        BY <2>3, <2>7, <3>2 DEF Firm
      <3>3. CASE d # c
        BY <2>8, <3>3 DEF Inv, Firm
      <3>4. QED
        BY <3>2, <3>3
    <2>12. VerdictsAreOnFile'
      BY <1>3 DEF VerdictsAreOnFile, Status, Verdicts
    <2>13. Present'
      BY <1>1, <2>2, <2>4 DEF Inv, Present, TypeOK, Successions
    <2>14. WorkIsFirm'
      BY <1>1 DEF WorkIsFirm
    <2>15. QED
      BY <2>6, <2>10, <2>11, <2>12, <2>13, <2>14 DEF Good, Inv
  <1>4. QED
    BY <1>2, <1>3 DEF Commit

LEMMA Step ==
  ASSUME Inv, [Next]_vars
  PROVE  Good
  <1>1. ASSUME NEW r \in Reports, Ingest(r[1], r[2])
        PROVE  Good
    BY <1>1, IngestGood, ReviewAssumption
  <1>2. ASSUME NEW k \in Callers, NEW r \in Remediations, ReadPredecessor(k, r[1], r[2], r[3])
        PROVE  Good
    BY <1>2, ReadPredecessorGood, ReviewAssumption
  <1>3. ASSUME NEW c \in Claims, NEW batch \in Batches, Apply(c, batch)
        PROVE  Good
    BY <1>3, ApplyGood
  <1>4. CASE UNCHANGED vars
    BY <1>4, Quiet DEF vars, Inv, TypeOK, Present
  <1>5. QED
    BY <1>1, <1>2, <1>3, <1>4, IngestSuccessorGood, LinkPredecessorGood, EvidenceGood,
       AuthorizeGood, CommitGood DEF Next

-----------------------------------------------------------------------------
LEMMA Invariance == Spec => []Inv
  <1>1. Inv /\ [Next]_vars => Inv'
    BY Step DEF Good
  <1>2. QED
    BY <1>1, Initially, PTL DEF Spec

(* Every variable has its type, and what counts as independent is among    *)
(* the observations of its group.                                          *)
THEOREM TypeCorrect == Spec => []TypeOK
  <1>1. Inv => TypeOK
    BY DEF Inv
  <1>2. QED
    BY <1>1, Invariance, PTL

(* A crash that loses the memory loses no verdict, and none is on file     *)
(* that was not given, whatever persist refused (state.go, Apply).         *)
THEOREM VerdictsOnFile == Spec => []VerdictsAreOnFile
  <1>1. Inv => VerdictsAreOnFile
    BY DEF Inv
  <1>2. QED
    BY <1>1, Invariance, PTL

(* No claim is ever both verified and rejected, in whatever order          *)
(* observations, requests for evidence and batches come (authorize.go).    *)
THEOREM VerdictStands == Spec => NeverReversed
  <1>1. SUFFICES ASSUME NEW c \in Claims
                 PROVE  Spec => /\ [](Status(c) = "verified" => [](Status(c) # "rejected"))
                                /\ [](Status(c) = "rejected" => [](Status(c) # "verified"))
    BY DEF NeverReversed
  <1> DEFINE P == Known(c).confirms # {} /\ Status(c) # "rejected"
             Q == Known(c).refutes # {} /\ Status(c) # "verified"
  <1>2. Inv /\ Status(c) = "verified" => P
    BY DEF Inv, Firm, Status, Known, EmptyGroup
  <1>3. Inv /\ Status(c) = "rejected" => Q
    BY DEF Inv, Firm, Status, Known, EmptyGroup
  <1>4. Inv /\ P /\ [Next]_vars => P'
    BY Step DEF Good, Grows
  <1>5. Inv /\ Q /\ [Next]_vars => Q'
    BY Step DEF Good, Grows
  <1>6. P => Status(c) # "rejected"
    OBVIOUS
  <1>7. Q => Status(c) # "verified"
    OBVIOUS
  <1> HIDE DEF P, Q
  <1>8. QED
    BY <1>2, <1>3, <1>4, <1>5, <1>6, <1>7, Invariance, PTL DEF Spec
-----------------------------------------------------------------------------
(* What a group is made of.  It grows one observation at a time: those     *)
(* that count are of different agents, and some count unless there is none.*)
Apart(S) == \A o, p \in S : o # p => AgentOf[o] # AgentOf[p]

Composed(g) ==
  /\ IsFiniteSet(g.seen)
  /\ g.confirms \subseteq Side(g, "verified") /\ Apart(g.confirms)
  /\ g.refutes \subseteq Side(g, "rejected") /\ Apart(g.refutes)
  /\ g.confirms = {} => Side(g, "verified") = {}
  /\ g.refutes = {} => Side(g, "rejected") = {}

Limited(g) ==
  /\ Within(MaxIndependentReviews, Cardinality(AgentsOf(g)))
  /\ Within(MaxArbitrationRounds, g.rounds)
  /\ Within(MaxEvidenceRequests, g.requests)
  /\ Within(MaxReviewDepth, g.depth)

Formed(g) == g.seen # {} /\ Composed(g) /\ Limited(g)

(* Groups, the copy a batch works on, with what the batch still asks for,  *)
(* and the successors that are to be linked.                               *)
GInv ==
  /\ \A c \in Claims : groups[c] # None => Formed(groups[c])
  /\ applying # None =>
       /\ Formed(applying.work)
       /\ Within(MaxEvidenceRequests, applying.work.requests + Requests(applying.todo))
  /\ \A k \in Callers : successor[k] # None => Within(MaxReviewDepth, successor[k].depth)

LEMMA LimitTypes ==
  /\ MaxIndependentReviews \in Nat /\ MaxArbitrationRounds \in Nat
  /\ MaxEvidenceRequests \in Nat /\ MaxReviewDepth \in Nat
  BY ReviewAssumption

LEMMA AgentsFinite ==
  ASSUME NEW g, IsFiniteSet(g.seen)
  PROVE  IsFiniteSet(AgentsOf(g)) /\ Cardinality(AgentsOf(g)) \in Nat
  <1> DEFINE f == [o \in g.seen |-> AgentOf[o]]
  <1>1. f \in Surjection(g.seen, AgentsOf(g))
    BY DEF Surjection, AgentsOf
  <1>2. IsFiniteSet(AgentsOf(g))
    BY <1>1, FS_Surjection
  <1>3. QED
    BY <1>2, FS_CardinalityType

LEMMA JoinedFields ==
  ASSUME NEW g \in Groups, NEW o \in Observations
  PROVE  /\ Joined(g, o).seen = g.seen \cup {o}
         /\ Joined(g, o).confirms = Accepted(g.confirms, "confirms", o)
         /\ Joined(g, o).refutes = Accepted(g.refutes, "refutes", o)
         /\ Joined(g, o).rounds = g.rounds /\ Joined(g, o).requests = g.requests
         /\ Joined(g, o).depth = g.depth
  <1> DEFINE S == Accepted(g.confirms, "confirms", o)
             T == Accepted(g.refutes, "refutes", o)
             d == DeriveStatus(g.status, S, T)
             seen == g.seen \cup {o}
             z == [g EXCEPT !.seen = seen, !.confirms = S, !.refutes = T, !.status = d]
  <1>1. Joined(g, o) = z
    BY DEF Joined
  <1> HIDE DEF S, T, d, seen
  <1>2. /\ z.seen = seen /\ z.confirms = S /\ z.refutes = T
        /\ z.rounds = g.rounds /\ z.requests = g.requests /\ z.depth = g.depth
    BY DEF Groups
  <1> HIDE DEF z
  <1>3. QED
    BY <1>1, <1>2 DEF seen, S, T

(* An observation that is not accepted finds one that was.                 *)
LEMMA AcceptedCompose ==
  ASSUME NEW S, Apart(S), NEW stance, NEW o
  PROVE  /\ Apart(Accepted(S, stance, o))
         /\ StanceOf[o] = stance => Accepted(S, stance, o) # {}
         /\ \A p \in Accepted(S, stance, o) : p \in S \/ (p = o /\ StanceOf[o] = stance)
         /\ S \subseteq Accepted(S, stance, o)
  BY DEF Accepted, Apart, IsIndependent

LEMMA JoinedFormed ==
  ASSUME NEW g \in Groups, NEW o \in Observations, Composed(g), Limited(g),
         AgentOf[o] \in AgentsOf(g) \/ Within(MaxIndependentReviews, Cardinality(AgentsOf(g)) + 1)
  PROVE  Formed(Joined(g, o))
  <1>1. PICK h : h = Joined(g, o)
    OBVIOUS
  <1>2. /\ h.seen = g.seen \cup {o}
        /\ h.confirms = Accepted(g.confirms, "confirms", o)
        /\ h.refutes = Accepted(g.refutes, "refutes", o)
        /\ h.rounds = g.rounds /\ h.requests = g.requests /\ h.depth = g.depth
    BY <1>1, JoinedFields
  <1>3. IsFiniteSet(h.seen)
    BY <1>2, FS_AddElement DEF Composed
  <1>4. /\ h.confirms \subseteq Side(h, "verified") /\ Apart(h.confirms)
        /\ h.confirms = {} => Side(h, "verified") = {}
    BY <1>2, AcceptedCompose DEF Composed, Side
  <1>5. /\ h.refutes \subseteq Side(h, "rejected") /\ Apart(h.refutes)
        /\ h.refutes = {} => Side(h, "rejected") = {}
    BY <1>2, AcceptedCompose DEF Composed, Side
  <1>6. Within(MaxIndependentReviews, Cardinality(AgentsOf(h)))
    <2>1. AgentsOf(h) = AgentsOf(g) \cup {AgentOf[o]}
      BY <1>2 DEF AgentsOf
    <2>2. IsFiniteSet(AgentsOf(g)) /\ Cardinality(AgentsOf(g)) \in Nat
      BY AgentsFinite DEF Composed
    <2>3. Cardinality(AgentsOf(h)) = IF AgentOf[o] \in AgentsOf(g) THEN Cardinality(AgentsOf(g))
                                     ELSE Cardinality(AgentsOf(g)) + 1
      BY <2>1, <2>2, FS_AddElement
    <2>4. QED
      BY <2>3 DEF Limited
  <1>7. Composed(h) /\ Limited(h) /\ h.seen # {}
    BY <1>2, <1>3, <1>4, <1>5, <1>6 DEF Composed, Limited
  <1>8. QED
    BY <1>1, <1>7 DEF Formed

LEMMA EmptyIsFormed == Composed(EmptyGroup) /\ Limited(EmptyGroup)
  <1>1. AgentsOf(EmptyGroup) = {} /\ Side(EmptyGroup, "verified") = {} /\ Side(EmptyGroup, "rejected") = {}
    BY DEF EmptyGroup, AgentsOf, Side
  <1>2. IsFiniteSet({}) /\ Cardinality({}) = 0
    BY FS_EmptySet
  <1>3. Composed(EmptyGroup)
    BY <1>1, <1>2 DEF Composed, Apart, EmptyGroup
  <1>4. Limited(EmptyGroup)
    BY <1>1, <1>2, LimitTypes DEF Limited, Within, EmptyGroup
  <1>5. QED
    BY <1>3, <1>4

(* A group that differs in its status, counters and links only.            *)
LEMMA SameMembers ==
  ASSUME NEW g, NEW h, Formed(g),
         h.seen = g.seen, h.confirms = g.confirms, h.refutes = g.refutes,
         Within(MaxArbitrationRounds, h.rounds), Within(MaxEvidenceRequests, h.requests),
         Within(MaxReviewDepth, h.depth)
  PROVE  Formed(h)
  <1>1. AgentsOf(h) = AgentsOf(g) /\ \A v : Side(h, v) = Side(g, v)
    BY DEF AgentsOf, Side
  <1>2. QED
    BY <1>1 DEF Formed, Composed, Limited

(* What a batch still asks for is what its first action asks for and what  *)
(* the others do.                                                          *)
LEMMA RequestsOfTail ==
  ASSUME NEW s \in Seq(Actions), s # <<>>
  PROVE  /\ Requests(s) \in Nat /\ Requests(Tail(s)) \in Nat
         /\ Requests(s) = Requests(Tail(s)) + IF Head(s).kind = "request" THEN 1 ELSE 0
  <1> DEFINE A == {i \in 1 .. Len(s) : s[i].kind = "request"}
             B == {i \in 1 .. Len(Tail(s)) : Tail(s)[i].kind = "request"}
             C == A \ {1}
             f == [i \in B |-> i + 1]
  <1>1. /\ Len(s) \in Nat /\ Len(s) > 0 /\ Len(Tail(s)) = Len(s) - 1
        /\ \A i \in 1 .. Len(s) - 1 : Tail(s)[i] = s[i + 1]
        /\ DOMAIN s = 1 .. Len(s) /\ DOMAIN Tail(s) = 1 .. Len(Tail(s))
        /\ Head(s) = s[1]
    OBVIOUS
  <1>2. Requests(s) = Cardinality(A) /\ Requests(Tail(s)) = Cardinality(B)
    BY <1>1 DEF Requests
  <1>3. IsFiniteSet(A) /\ IsFiniteSet(B)
    <2>1. IsFiniteSet(1 .. Len(s)) /\ IsFiniteSet(1 .. Len(Tail(s)))
      BY <1>1, FS_Interval
    <2>2. QED
      BY <2>1, FS_Subset
  <1>4. f \in Bijection(B, C)
    <2>1. \A i \in B : i + 1 \in C
      BY <1>1
    <2>2. \A j \in C : j - 1 \in B /\ f[j - 1] = j
      <3>1. TAKE j \in C
      <3>2. j \in 2 .. Len(s) /\ s[j].kind = "request"
        BY <1>1
      <3>3. j - 1 \in 1 .. Len(s) - 1 /\ (j - 1) + 1 = j
        BY <1>1, <3>2
      <3>4. Tail(s)[j - 1] = s[j]
        BY <1>1, <3>3
      <3>5. j - 1 \in B
        BY <1>1, <3>2, <3>3, <3>4
      <3>6. QED
        BY <3>3, <3>5
    <2>3. \A i, k \in B : f[i] = f[k] => i = k
      OBVIOUS
    <2>4. f \in [B -> C]
      BY <2>1
    <2>5. \A j \in C : \E i \in B : f[i] = j
      BY <2>2
    <2> HIDE DEF f, B, C
    <2>6. QED
    BY <2>3, <2>4, <2>5 DEF Bijection, Injection, Surjection, IsInjective
  <1>5. Cardinality(C) = Cardinality(B) /\ Cardinality(B) \in Nat /\ Cardinality(A) \in Nat
    <2>1. ExistsBijection(B, C)
      BY <1>4 DEF ExistsBijection
    <2>2. QED
      BY <1>3, <2>1, FS_Bijection, FS_CardinalityType
  <1>6. 1 \in A <=> Head(s).kind = "request"
    BY <1>1
  <1>7. Cardinality(C) = IF 1 \in A THEN Cardinality(A) - 1 ELSE Cardinality(A)
    BY <1>3, FS_RemoveElement
  <1> HIDE DEF A, B, C
  <1>8. QED
    BY <1>2, <1>5, <1>6, <1>7

LEMMA EffectCounts ==
  ASSUME NEW g \in Groups, NEW a \in Actions
  PROVE  /\ Effect(g, a).rounds = g.rounds /\ Effect(g, a).depth = g.depth
         /\ Effect(g, a).requests = g.requests + IF a.kind = "request" THEN 1 ELSE 0
  <1>0. g.requests \in Nat
    BY DEF Groups
  <1>1. CASE a.kind = "recommend"
    BY <1>0, <1>1 DEF Effect, Groups
  <1>2. CASE a.kind = "reject"
    BY <1>0, <1>2 DEF Effect, Groups
  <1>3. CASE a.kind = "request"
    <2> DEFINE n == g.requests + 1
               z == [g EXCEPT !.status = "needs_evidence", !.requests = n]
    <2>1. Effect(g, a) = z
      BY <1>3 DEF Effect
    <2> HIDE DEF n
    <2>2. z.rounds = g.rounds /\ z.depth = g.depth /\ z.requests = n
      BY DEF Groups
    <2> HIDE DEF z
    <2>3. QED
      BY <1>3, <2>1, <2>2 DEF n
  <1>4. CASE a.kind \notin {"recommend", "reject", "request"}
    BY <1>0, <1>4 DEF Effect
  <1>5. QED
    BY <1>1, <1>2, <1>3, <1>4

LEMMA FormedInitially == Init => GInv
  BY DEF Init, GInv

(* The arrival of an observation that Ingest admits.                       *)
LEMMA FormedArrival ==
  ASSUME Inv, GInv, NEW c \in Claims, NEW o \in Observations, Admits(c, o),
         groups' = [groups EXCEPT ![c] = Received(c, o)]
  PROVE  \A d \in Claims : groups'[d] # None => Formed(groups'[d])
  <1>1. PICK g \in Groups : g = Known(c)
    BY KnownFacts DEF Inv
  <1>2. Composed(g) /\ Limited(g)
    BY <1>1, EmptyIsFormed DEF Known, GInv, Formed
  <1>3. AgentOf[o] \in AgentsOf(g) \/ Within(MaxIndependentReviews, Cardinality(AgentsOf(g)) + 1)
    BY <1>1 DEF Admits
  <1>4. PICK r : r = Received(c, o)
    OBVIOUS
  <1>5. r = Joined(g, o)
    BY <1>1, <1>4 DEF Received
  <1>6. Formed(r)
    BY <1>2, <1>3, <1>5, JoinedFormed
  <1>7. groups' = [groups EXCEPT ![c] = r]
    BY <1>4
  <1>8. groups'[c] = r /\ \A d \in Claims \ {c} : groups'[d] = groups[d]
    BY <1>7 DEF Inv, TypeOK
  <1>9. QED
    BY <1>6, <1>8 DEF GInv

LEMMA FormedReadPredecessor ==
  ASSUME Inv, GInv, NEW k \in Callers, NEW p \in Claims, NEW c \in Claims, NEW o \in Observations,
         ReadPredecessor(k, p, c, o)
  PROVE  GInv'
  <1>1. PICK n : n = groups[p].depth + 1
    OBVIOUS
  <1>2. PICK x : x = [pred |-> p, claim |-> c, obs |-> o, depth |-> n, ingested |-> FALSE]
    OBVIOUS
  <1>3. x.depth = n /\ Within(MaxReviewDepth, n) /\ successor' = [successor EXCEPT ![k] = x]
    BY <1>1, <1>2 DEF ReadPredecessor
  <1>4. \A j \in Callers : successor'[j] = IF j = k THEN x ELSE successor[j]
    BY <1>3 DEF Inv, TypeOK
  <1>5. UNCHANGED <<groups, applying>>
    BY DEF ReadPredecessor
  <1>6. QED
    BY <1>3, <1>4, <1>5 DEF GInv

LEMMA FormedIngestSuccessor ==
  ASSUME Inv, GInv, NEW k \in Callers, IngestSuccessor(k)
  PROVE  GInv'
  <1>1. PICK x \in Successions : x = successor[k]
    BY DEF IngestSuccessor, Inv, TypeOK
  <1>2. x.claim \in Claims /\ x.obs \in Observations
    BY <1>1 DEF Successions
  <1>3. \A j \in Callers : successor'[j] # None =>
          successor[j] # None /\ successor'[j].depth = successor[j].depth
    <2>1. PICK y : y = [x EXCEPT !.ingested = TRUE]
      OBVIOUS
    <2>2. y.depth = x.depth
      BY <2>1 DEF Successions
    <2>3. \/ successor' = [successor EXCEPT ![k] = None]
          \/ successor' = [successor EXCEPT ![k] = y]
      BY <1>1, <2>1 DEF IngestSuccessor
    <2>4. successor[k] # None
      BY DEF IngestSuccessor
    <2>5. QED
      BY <1>1, <2>2, <2>3, <2>4 DEF Inv, TypeOK
  <1>4. \A d \in Claims : groups'[d] # None => Formed(groups'[d])
    <2>1. CASE UNCHANGED groups
      BY <2>1 DEF GInv
    <2>2. CASE Admits(x.claim, x.obs) /\ groups' = [groups EXCEPT ![x.claim] = Received(x.claim, x.obs)]
      BY <1>2, <2>2, FormedArrival
    <2>3. QED
      BY <1>1, <2>1, <2>2 DEF IngestSuccessor
  <1>5. UNCHANGED applying
    BY DEF IngestSuccessor
  <1>6. QED
    BY <1>3, <1>4, <1>5 DEF GInv

LEMMA FormedLinkPredecessor ==
  ASSUME Inv, GInv, NEW k \in Callers, LinkPredecessor(k)
  PROVE  GInv'
  <1>1. PICK x \in Successions : x = successor[k]
    BY DEF LinkPredecessor, Inv, TypeOK
  <1>2. PICK c \in Claims : c = x.claim
    BY DEF Successions
  <1>3. groups[c] # None
    BY <1>1, <1>2 DEF LinkPredecessor, Inv, Present
  <1>4. PICK g \in Groups : g = groups[c]
    BY <1>3 DEF Inv, TypeOK
  <1>5. PICK h : h = [g EXCEPT !.pred = x.pred, !.depth = x.depth]
    OBVIOUS
  <1>6. /\ h.seen = g.seen /\ h.confirms = g.confirms /\ h.refutes = g.refutes
        /\ h.rounds = g.rounds /\ h.requests = g.requests /\ h.depth = x.depth
    BY <1>5 DEF Groups
  <1>7. Formed(g) /\ Within(MaxReviewDepth, x.depth)
    BY <1>1, <1>3, <1>4 DEF LinkPredecessor, GInv
  <1>8. Formed(h)
    BY <1>6, <1>7, SameMembers DEF Formed, Limited
  <1>9. groups' = groups \/ groups' = [groups EXCEPT ![c] = h]
    BY <1>1, <1>2, <1>4, <1>5 DEF LinkPredecessor
  <1>10. \A d \in Claims : groups'[d] = groups[d] \/ groups'[d] = h
    BY <1>9 DEF Inv, TypeOK
  <1>11. \A j \in Callers : successor'[j] = successor[j] \/ successor'[j] = None
    BY DEF LinkPredecessor, Inv, TypeOK
  <1>12. UNCHANGED applying
    BY DEF LinkPredecessor
  <1>13. QED
    BY <1>8, <1>10, <1>11, <1>12 DEF GInv

LEMMA FormedApply ==
  ASSUME Inv, GInv, NEW c \in Claims, NEW batch \in Batches, Apply(c, batch)
  PROVE  GInv'
  <1>1. PICK g \in Groups : g = groups[c]
    BY DEF Apply, Inv, TypeOK
  <1>2. Formed(g) /\ Valid(g, batch)
    BY <1>1 DEF Apply, GInv
  <1>3. PICK n : n = IF batch = <<>> THEN g.rounds ELSE g.rounds + 1
    OBVIOUS
  <1>4. PICK w : w = [g EXCEPT !.rounds = n]
    OBVIOUS
  <1>5. /\ w.seen = g.seen /\ w.confirms = g.confirms /\ w.refutes = g.refutes
        /\ w.rounds = n /\ w.requests = g.requests /\ w.depth = g.depth
    BY <1>4 DEF Groups
  <1>6. Within(MaxArbitrationRounds, n)
    BY <1>2, <1>3 DEF Valid, Formed, Limited
  <1>7. Formed(w)
    BY <1>2, <1>5, <1>6, SameMembers DEF Formed, Limited
  <1>8. PICK x : x = [claim |-> c, todo |-> batch, work |-> w]
    OBVIOUS
  <1>9. x.work = w /\ x.todo = batch
    BY <1>8
  <1>10. applying' = x
    BY <1>1, <1>3, <1>4, <1>8 DEF Apply
  <1>11. Within(MaxEvidenceRequests, w.requests + Requests(batch))
    BY <1>2, <1>5 DEF Valid
  <1>12. UNCHANGED <<groups, successor>>
    BY DEF Apply
  <1>13. QED
    BY <1>7, <1>9, <1>10, <1>11, <1>12 DEF GInv

(* The copy that is worked on, before and after one action of the batch.   *)
LEMMA WorkTypes ==
  ASSUME Inv, applying # None
  PROVE  /\ applying.work \in Groups /\ applying.claim \in Claims /\ applying.todo \in Seq(Actions)
         /\ applying \in Works
  BY DEF Inv, TypeOK, Works

LEMMA FormedAuthorize ==
  ASSUME Inv, GInv, Authorize
  PROVE  GInv'
  <1>1. applying # None /\ applying.todo # <<>> /\ UNCHANGED <<groups, successor>>
    BY DEF Authorize
  <1>2. PICK w \in Groups, s \in Seq(Actions) : w = applying.work /\ s = applying.todo
    BY <1>1, WorkTypes
  <1>0. s # <<>> /\ Head(s) \in Actions /\ Tail(s) \in Seq(Actions)
    BY <1>1, <1>2
  <1>3. PICK a \in Actions, t \in Seq(Actions) : a = Head(s) /\ t = Tail(s)
    BY <1>0
  <1>4. PICK e : e = Effect(w, a)
    OBVIOUS
  <1>5. /\ e.seen = w.seen /\ e.confirms = w.confirms /\ e.refutes = w.refutes
        /\ e.rounds = w.rounds /\ e.depth = w.depth
        /\ e.requests = w.requests + IF a.kind = "request" THEN 1 ELSE 0
    BY <1>4, EffectFacts, EffectCounts
  <1>6. Formed(w) /\ Within(MaxEvidenceRequests, w.requests + Requests(s))
    BY <1>1, <1>2 DEF GInv
  <1>7. /\ Requests(t) \in Nat
        /\ Requests(s) = Requests(t) + IF a.kind = "request" THEN 1 ELSE 0
    BY <1>1, <1>2, <1>3, RequestsOfTail
  <1>8. w.requests \in Nat
    BY DEF Groups
  <1>9. PICK one \in {0, 1} : one = IF a.kind = "request" THEN 1 ELSE 0
    OBVIOUS
  <1>10. Within(MaxEvidenceRequests, e.requests + Requests(t)) /\ Within(MaxEvidenceRequests, e.requests)
    BY <1>5, <1>6, <1>7, <1>8, <1>9, LimitTypes DEF Within
  <1>11. Formed(e)
    BY <1>5, <1>6, <1>10, SameMembers DEF Formed, Limited
  <1>12. PICK x : x = [[applying EXCEPT !.work = e] EXCEPT !.todo = t]
    OBVIOUS
  <1>13. applying' = x \/ applying' = None
    BY <1>2, <1>3, <1>4, <1>12 DEF Authorize
  <1>14. x.work = e /\ x.todo = t
    BY <1>1, <1>12, WorkTypes DEF Works
  <1>15. QED
    BY <1>1, <1>10, <1>11, <1>13, <1>14 DEF GInv

LEMMA FormedCommit ==
  ASSUME Inv, GInv, Commit
  PROVE  GInv'
  <1>1. PICK c \in Claims, w \in Groups : c = applying.claim /\ w = applying.work
    BY WorkTypes DEF Commit
  <1>2. Formed(w)
    BY <1>1 DEF Commit, GInv
  <1>3. groups' = groups \/ groups' = [groups EXCEPT ![c] = w]
    BY <1>1 DEF Commit
  <1>4. \A d \in Claims : groups'[d] = groups[d] \/ groups'[d] = w
    BY <1>3 DEF Inv, TypeOK
  <1>5. applying' = None /\ UNCHANGED successor
    BY DEF Commit
  <1>6. QED
    BY <1>2, <1>4, <1>5 DEF GInv

LEMMA FormedStep ==
  ASSUME Inv, GInv, [Next]_vars
  PROVE  GInv'
  <1>1. ASSUME NEW r \in Reports, Ingest(r[1], r[2])
        PROVE  GInv'
    <2>1. r[1] \in Claims /\ r[2] \in Observations
      BY ReviewAssumption
    <2>2. \A d \in Claims : groups'[d] # None => Formed(groups'[d])
      BY <1>1, <2>1, FormedArrival DEF Ingest
    <2>3. QED
      BY <1>1, <2>2 DEF Ingest, GInv
  <1>2. ASSUME NEW k \in Callers, NEW r \in Remediations, ReadPredecessor(k, r[1], r[2], r[3])
        PROVE  GInv'
    BY <1>2, FormedReadPredecessor, ReviewAssumption
  <1>3. ASSUME NEW c \in Claims, NEW batch \in Batches, Apply(c, batch)
        PROVE  GInv'
    BY <1>3, FormedApply
  <1>4. ASSUME UNCHANGED <<groups, applying, successor>>
        PROVE  GInv'
    BY <1>4 DEF GInv
  <1>5. ASSUME NEW e \in Evidence, PutEvidence(e) \/ Revoke(e) \/ Supersede(e)
        PROVE  GInv'
    BY <1>4, <1>5 DEF PutEvidence, Revoke, Supersede, Withdraw
  <1>6. CASE UNCHANGED vars
    BY <1>4, <1>6 DEF vars
  <1>7. QED
    BY <1>1, <1>2, <1>3, <1>5, <1>6, FormedIngestSuccessor, FormedLinkPredecessor,
       FormedAuthorize, FormedCommit DEF Next

LEMMA FormedInvariance == Spec => [](Inv /\ GInv)
  <1>1. GInv /\ Inv /\ [Next]_vars => GInv'
    BY FormedStep
  <1>2. QED
    BY <1>1, FormedInitially, Invariance, PTL DEF Spec

(* No group exceeds the limits on agents, rounds, requests and depth,      *)
(* whatever overlaps (state.go, Ingest; authorize.go, ValidateActions).    *)
THEOREM GroupsAreLimited == Spec => []LimitsHold
  <1>1. Inv /\ GInv => LimitsHold
    BY LimitTypes DEF GInv, Formed, Limited, Within, LimitsHold
  <1>2. QED
    BY <1>1, FormedInvariance, PTL

-----------------------------------------------------------------------------
(* Two observations that count are of two agents, and none that counts     *)
(* against them is none at all.                                            *)
LEMMA TwoOfThem ==
  ASSUME NEW S, IsFiniteSet(S), Cardinality(S) >= 2
  PROVE  \E o, p \in S : o # p
  <1>1. SUFFICES ASSUME \A o, p \in S : o = p PROVE FALSE
    OBVIOUS
  <1>2. CASE S = {}
    BY <1>2, FS_EmptySet
  <1>3. ASSUME NEW o \in S PROVE FALSE
    <2>1. S = {o}
      BY <1>1
    <2>2. Cardinality(S) = 1
      BY <2>1, FS_Singleton
    <2>3. QED
      BY <2>2
  <1>4. QED
    BY <1>2, <1>3

LEMMA SupportBacks ==
  ASSUME NEW c \in Claims, NEW g, Composed(g), NEW v \in Verdicts, NEW S, NEW T,
         \/ v = "verified" /\ S = g.confirms /\ T = g.refutes
         \/ v = "rejected" /\ S = g.refutes /\ T = g.confirms,
         Carries(c, S, T)
  PROVE  Backed(c, g, v)
  <1>1. /\ S \subseteq Side(g, v) /\ Apart(S) /\ T = {} /\ Cardinality(S) >= 2 /\ Sound(c, S)
        /\ \A w \in Verdicts \ {v} : Side(g, w) = {}
    BY DEF Composed, Carries, Verdicts
  <1>2. IsFiniteSet(S)
    <2>1. Side(g, v) \subseteq g.seen /\ IsFiniteSet(g.seen)
      BY DEF Side, Composed
    <2>2. QED
      BY <1>1, <2>1, FS_Subset
  <1>3. PICK o \in S, p \in S : o # p
    BY <1>1, <1>2, TwoOfThem
  <1>4. AgentOf[o] # AgentOf[p] /\ o \in Side(g, v) /\ p \in Side(g, v)
    BY <1>1, <1>3 DEF Apart
  <1>5. StandsFor(c, o) /\ StandsFor(c, p)
    BY <1>1 DEF Sound, StandsFor, IsCurrent
  <1>6. QED
    BY <1>1, <1>4, <1>5 DEF Backed

(* An action of a batch that changes the copy's status to a verdict is one *)
(* whose support was counted.                                              *)
LEMMA DecisionIsBacked ==
  ASSUME Inv, GInv, Authorize, NEW v \in Verdicts, Decides(v)
  PROVE  Backed(applying.claim, applying.work, v)
  <1>1. applying # None /\ applying.todo # <<>> /\ applying' # None
    BY DEF Authorize, Decides
  <1>2. PICK c \in Claims, w \in Groups, s \in Seq(Actions) :
          c = applying.claim /\ w = applying.work /\ s = applying.todo
    BY <1>1, WorkTypes
  <1>3. PICK a \in Actions : a = Head(s)
    BY <1>1, <1>2
  <1>4. PICK e : e = Effect(w, a)
    OBVIOUS
  <1>5. PICK x : x = [[applying EXCEPT !.work = e] EXCEPT !.todo = Tail(s)]
    OBVIOUS
  <1>6. applying' = x /\ Authorized(c, w, a)
    BY <1>1, <1>2, <1>3, <1>4, <1>5 DEF Authorize
  <1>7. x.work = e
    BY <1>1, <1>5, WorkTypes DEF Works
  <1>8. w.status # v /\ e.status = v
    BY <1>2, <1>6, <1>7 DEF Decides
  <1>9. e.status = CASE a.kind = "recommend" -> "verified"
                     [] a.kind = "reject" /\ w.status \notin Verdicts -> "rejected"
                     [] a.kind = "request" -> "needs_evidence"
                     [] OTHER -> w.status
    BY <1>4, EffectFacts
  <1>10. Composed(w)
    BY <1>1, <1>2 DEF GInv, Formed
  <1>11. CASE a.kind = "recommend"
    <2>1. v = "verified"
      BY <1>8, <1>9, <1>11
    <2>2. Carries(c, w.confirms, w.refutes)
      BY <1>6, <1>8, <1>11, <2>1 DEF Authorized
    <2>3. QED
      BY <1>2, <1>10, <2>1, <2>2, SupportBacks
  <1>12. CASE a.kind = "reject" /\ w.status \notin Verdicts
    <2>1. v = "rejected"
      BY <1>8, <1>9, <1>12
    <2>2. Carries(c, w.refutes, w.confirms)
      BY <1>6, <1>12 DEF Authorized
    <2>3. QED
      BY <1>2, <1>10, <2>1, <2>2, SupportBacks
  <1>13. a.kind = "recommend" \/ (a.kind = "reject" /\ w.status \notin Verdicts)
    BY <1>8, <1>9 DEF Verdicts
  <1>14. QED
    BY <1>11, <1>12, <1>13

LEMMA StepIsBacked ==
  ASSUME Inv, GInv, [Next]_vars, NEW v \in Verdicts, Decides(v)
  PROVE  Backed(applying.claim, applying.work, v)
  <1>1. CASE Authorize
    BY <1>1, DecisionIsBacked
  <1>2. UNCHANGED applying \/ applying = None \/ applying' = None \/ Authorize
    BY DEF Next, vars, Ingest, ReadPredecessor, IngestSuccessor, LinkPredecessor, PutEvidence,
           Revoke, Supersede, Withdraw, Apply, Commit, unlocked
  <1>3. QED
    BY <1>1, <1>2 DEF Decides

(* Whoever decides a verdict finds two agents that hold it, none that      *)
(* holds the contrary, and evidence current at that moment, however many   *)
(* observations came and whatever was withdrawn (authorize.go).            *)
THEOREM VerdictsAreBacked == Spec => VerdictIsBacked
  <1> DEFINE Backing == \A v \in Verdicts : Decides(v) => Backed(applying.claim, applying.work, v)
  <1>1. Inv /\ GInv /\ [Next]_vars => [Backing]_vars
    BY StepIsBacked
  <1>2. QED
    BY <1>1, FormedInvariance, PTL DEF Spec, VerdictIsBacked
===============================================================================
