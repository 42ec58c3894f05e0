-------------------------------- MODULE Review --------------------------------
(***************************************************************************)
(* internal/review: the groups of observations about a claim, and the      *)
(* arbiter's batches that Core validates, authorizes and applies.          *)
(*                                                                         *)
(* ReviewState has one lock: Ingest runs under it, IngestSuccessor takes   *)
(* it three times, and Apply holds it from validation to commit.  The      *)
(* evidence store has a lock of its own, so evidence may be revoked        *)
(* between the actions of a batch.  Batches address the group they are     *)
(* applied to; actions that name another group, long rationales and the    *)
(* cost limit, which is off by default, are left out.                      *)
(***************************************************************************)
EXTENDS Integers, FiniteSets, Sequences, FiniteSetsExt

CONSTANTS
  None,
  Claims,          \* a claim about one version, of one tenant: FindGroup's key
  Observations, Agents, Evidence, Versions,
  VersionOf,       \* of a claim
  MadeAgainst,     \* the version an observation is about
  AgentOf, StanceOf,
  Consumed,        \* observations whose findings the agent read before its own
  EvidenceOf,      \* references of an observation
  BoundTo,         \* the version evidence is bound to
  Reports,         \* the observations that come up, and for which claim
  Remediations,    \* those of successors, after the claim they succeed
  Batches,         \* what an arbiter may propose
  Callers,         \* concurrent calls of IngestSuccessor
  MaxIndependentReviews, MaxArbitrationRounds, MaxEvidenceRequests, MaxReviewDepth

Stances == {"confirms", "refutes", "uncertain"}
Verdicts == {"verified", "rejected"}
Statuses == Verdicts \cup {"unconfirmed", "supported", "contested", "needs_evidence"}
Actions == [kind : {"audit", "request", "schedule", "reject", "recommend"},
            about : Observations \cup {None}]

Groups ==
  [status : Statuses, seen : SUBSET Observations, confirms : SUBSET Observations,
   refutes : SUBSET Observations, rounds : Nat, requests : Nat,
   pred : Claims \cup {None}, depth : Nat]
Works == [claim : Claims, work : Groups, todo : Seq(Actions)]
Successions ==
  [pred : Claims, claim : Claims, obs : Observations, depth : Nat \ {0}, ingested : BOOLEAN]

ASSUME ReviewAssumption ==
  /\ None \notin Claims \cup Observations /\ None \notin Groups \cup Works \cup Successions
  /\ VersionOf \in [Claims -> Versions] /\ MadeAgainst \in [Observations -> Versions]
  /\ AgentOf \in [Observations -> Agents] /\ StanceOf \in [Observations -> Stances]
  /\ Consumed \in [Observations -> SUBSET Observations]
  /\ EvidenceOf \in [Observations -> SUBSET Evidence] /\ BoundTo \in [Evidence -> Versions]
  /\ Reports \subseteq Claims \X Observations
  /\ Remediations \subseteq Claims \X Claims \X Observations
  /\ Batches \subseteq Seq(Actions)
  /\ \A m \in {MaxIndependentReviews, MaxArbitrationRounds, MaxEvidenceRequests, MaxReviewDepth} : m \in Nat

VARIABLES
  groups,          \* ReviewState.groups: the group of a claim, or None
  saved,           \* what persist was last given and took
  evidence,        \* the status of each record
  applying,        \* Apply's copy of a group and the actions to authorize
  successor        \* per caller: the call of IngestSuccessor it is in
vars == <<groups, saved, evidence, applying, successor>>

(* confirms and refutes are what independentObservationsWithStance finds:  *)
(* it accepts an observation by those it accepted before it, and they are  *)
(* only ever appended, so an arrival extends the set or leaves it alone.   *)
EmptyGroup ==
  [status |-> "unconfirmed", seen |-> {}, confirms |-> {}, refutes |-> {},
   rounds |-> 0, requests |-> 0, pred |-> None, depth |-> 0]

Init ==
  /\ groups = [c \in Claims |-> None]
  /\ saved = groups
  /\ evidence = [e \in Evidence |-> "absent"]
  /\ applying = None
  /\ successor = [k \in Callers |-> None]

-----------------------------------------------------------------------------
(* Independence: another agent, which read none of the accepted findings.  *)
IsIndependent(S, o) ==
  \A a \in S : AgentOf[a] # AgentOf[o] /\ a \notin Consumed[o]

Accepted(S, stance, o) ==
  IF StanceOf[o] = stance /\ IsIndependent(S, o) THEN S \cup {o} ELSE S

DeriveStatus(old, confirms, refutes) ==
  IF old \in Verdicts THEN old
  ELSE IF confirms # {} /\ refutes # {} THEN "contested"
  ELSE IF Cardinality(confirms) >= 2 THEN "supported"
  ELSE "unconfirmed"

Joined(g, o) ==
  LET confirms == Accepted(g.confirms, "confirms", o)
      refutes == Accepted(g.refutes, "refutes", o)
  IN [g EXCEPT !.seen = @ \cup {o}, !.confirms = confirms, !.refutes = refutes,
               !.status = DeriveStatus(@, confirms, refutes)]

AgentsOf(g) == {AgentOf[o] : o \in g.seen}

\* A limit of zero is off.  A wrong variant counts the agents one too late.
WithinLate(limit, n) == limit = 0 \/ n <= limit + 1
Within(limit, n) == limit = 0 \/ n <= limit

Known(c) == IF groups[c] = None THEN EmptyGroup ELSE groups[c]

(* What Ingest refuses: a replay, and one agent too many.                  *)
Admits(c, o) ==
  LET agents == AgentsOf(Known(c))
  IN /\ o \notin Known(c).seen
     /\ AgentOf[o] \in agents \/ Within(MaxIndependentReviews, Cardinality(agents) + 1)

Received(c, o) == Joined(Known(c), o)

unlocked == applying = None

(* Ingest: the group changes, whether or not persist fails afterwards.     *)
Ingest(c, o) ==
  /\ unlocked /\ Admits(c, o)
  /\ groups' = [groups EXCEPT ![c] = Received(c, o)]
  /\ saved' \in {saved, groups'}
  /\ UNCHANGED <<evidence, applying, successor>>

(* IngestSuccessor: read the predecessor, ingest, link; each takes the     *)
(* lock on its own.                                                        *)
ReadPredecessor(k, p, c, o) ==
  /\ unlocked /\ successor[k] = None /\ groups[p] # None
  /\ Within(MaxReviewDepth, groups[p].depth + 1)
  /\ successor' = [successor EXCEPT ![k] =
       [pred |-> p, claim |-> c, obs |-> o, depth |-> groups[p].depth + 1, ingested |-> FALSE]]
  /\ UNCHANGED <<groups, saved, evidence, applying>>

IngestSuccessor(k) ==
  /\ unlocked /\ successor[k] # None /\ ~successor[k].ingested
  /\ LET c == successor[k].claim
         o == successor[k].obs
     IN \/ /\ ~Admits(c, o)
           /\ successor' = [successor EXCEPT ![k] = None]
           /\ UNCHANGED <<groups, saved>>
        \/ /\ Admits(c, o)
           /\ groups' = [groups EXCEPT ![c] = Received(c, o)]
           /\ \/ saved' = groups' /\ successor' = [successor EXCEPT ![k].ingested = TRUE]
              \/ saved' = saved /\ successor' = [successor EXCEPT ![k] = None]
  /\ UNCHANGED <<evidence, applying>>

LinkPredecessor(k) ==
  /\ unlocked /\ successor[k] # None /\ successor[k].ingested
  /\ LET c == successor[k].claim
     IN groups' = IF groups[c].pred # None THEN groups
                  ELSE [groups EXCEPT ![c].pred = successor[k].pred,
                                      ![c].depth = successor[k].depth]
  /\ successor' = [successor EXCEPT ![k] = None]
  /\ UNCHANGED <<saved, evidence, applying>>

-----------------------------------------------------------------------------
(* The evidence store: a record is put once, and its status changes later. *)
PutEvidence(e) ==
  /\ evidence[e] = "absent"
  /\ evidence' = [evidence EXCEPT ![e] = "current"]
  /\ UNCHANGED <<groups, saved, applying, successor>>

Withdraw(e, status) ==
  /\ evidence[e] # "absent"
  /\ evidence' = [evidence EXCEPT ![e] = status]
  /\ UNCHANGED <<groups, saved, applying, successor>>
Revoke(e) == Withdraw(e, "revoked")
Supersede(e) == Withdraw(e, "superseded")

-----------------------------------------------------------------------------
Requests(batch) == Cardinality({i \in DOMAIN batch : batch[i].kind = "request"})

(* ValidateActions: nothing of a batch is applied if any of it is invalid. *)
Valid(g, batch) ==
  /\ \A i \in DOMAIN batch : batch[i].kind = "audit" => batch[i].about \in g.seen
  /\ Within(MaxEvidenceRequests, g.requests + Requests(batch))
  /\ batch # <<>> => Within(MaxArbitrationRounds, g.rounds + 1)
  /\ Within(MaxReviewDepth, g.depth)

IsCurrent(c, e) == evidence[e] = "current" /\ BoundTo[e] = VersionOf[c]

\* checkArtifactFreshness and checkEvidence.  A wrong variant checks neither.
TrustsAll(c, S) == TRUE
Sound(c, S) ==
  \A o \in S : MadeAgainst[o] = VersionOf[c] /\ \A e \in EvidenceOf[o] : IsCurrent(c, e)

(* verifyClaim and rejectClaim: a settled claim is left as it is, but only *)
(* a verified one may be recommended.  Wrong variants count contradicting  *)
(* observations, or none.                                                  *)
OutvotesOthers(c, support, against) ==
  Sound(c, support) /\ Cardinality(support) >= 2
Carries(c, support, against) ==
  Sound(c, support) /\ against = {} /\ Cardinality(support) >= 2

Authorized(c, g, a) ==
  CASE a.kind = "recommend" ->
         g.status = "verified" \/ (g.status # "rejected" /\ Carries(c, g.confirms, g.refutes))
    [] a.kind = "reject" -> g.status \in Verdicts \/ Carries(c, g.refutes, g.confirms)
    [] OTHER -> TRUE

Effect(g, a) ==
  CASE a.kind = "recommend" -> [g EXCEPT !.status = "verified"]
    [] a.kind = "reject" /\ g.status \notin Verdicts -> [g EXCEPT !.status = "rejected"]
    [] a.kind = "request" -> [g EXCEPT !.status = "needs_evidence", !.requests = @ + 1]
    [] OTHER -> g

Apply(c, batch) ==
  /\ unlocked /\ groups[c] # None /\ Valid(groups[c], batch)
  /\ applying' = [claim |-> c, todo |-> batch,
                  work |-> [groups[c] EXCEPT !.rounds = IF batch = <<>> THEN @ ELSE @ + 1]]
  /\ UNCHANGED <<groups, saved, evidence, successor>>

(* One action of the batch; one that is refused ends the call.             *)
Authorize ==
  /\ applying # None /\ applying.todo # <<>>
  /\ applying' = IF Authorized(applying.claim, applying.work, Head(applying.todo))
                 THEN [applying EXCEPT !.work = Effect(@, Head(applying.todo)), !.todo = Tail(@)]
                 ELSE None
  /\ UNCHANGED <<groups, saved, evidence, successor>>

\* The verdict is on file before it is state.  A wrong variant ignores persist.
CommitUnsaved ==
  /\ applying # None /\ applying.todo = <<>>
  /\ groups' = [groups EXCEPT ![applying.claim] = applying.work]
  /\ saved' \in {saved, groups'}
  /\ applying' = None
  /\ UNCHANGED <<evidence, successor>>
Commit ==
  /\ applying # None /\ applying.todo = <<>>
  /\ \/ /\ groups' = [groups EXCEPT ![applying.claim] = applying.work]
        /\ saved' = groups'
     \/ UNCHANGED <<groups, saved>>
  /\ applying' = None
  /\ UNCHANGED <<evidence, successor>>

Next ==
  \/ \E r \in Reports : Ingest(r[1], r[2])
  \/ \E k \in Callers, r \in Remediations : ReadPredecessor(k, r[1], r[2], r[3])
  \/ \E k \in Callers : IngestSuccessor(k) \/ LinkPredecessor(k)
  \/ \E e \in Evidence : PutEvidence(e) \/ Revoke(e) \/ Supersede(e)
  \/ \E c \in Claims, batch \in Batches : Apply(c, batch)
  \/ Authorize \/ Commit

Spec == Init /\ [][Next]_vars

-----------------------------------------------------------------------------
(* Every variable has its type, and the observations that count as         *)
(* independent are among those of the group.                               *)
TypeOK ==
  /\ groups \in [Claims -> Groups \cup {None}]
  /\ saved \in [Claims -> Groups \cup {None}]
  /\ evidence \in [Evidence -> {"absent", "current", "revoked", "superseded"}]
  /\ applying \in Works \cup {None}
  /\ successor \in [Callers -> Successions \cup {None}]
  /\ \A c \in Claims : groups[c] # None =>
       groups[c].confirms \cup groups[c].refutes \subseteq groups[c].seen

Status(c) == IF groups[c] = None THEN "unconfirmed" ELSE groups[c].status

(* The action that decides a verdict finds two agents that hold it and     *)
(* none that holds the contrary; what the two submitted is about the       *)
(* version in question, and their evidence is current at that moment,      *)
(* whatever was withdrawn since the arbiter saw it (verifyClaim,           *)
(* rejectClaim).                                                           *)
Side(g, verdict) ==
  {o \in g.seen : StanceOf[o] = IF verdict = "verified" THEN "confirms" ELSE "refutes"}
StandsFor(c, o) ==
  /\ MadeAgainst[o] = VersionOf[c]
  /\ \A e \in EvidenceOf[o] : evidence[e] = "current" /\ BoundTo[e] = VersionOf[c]
Backed(c, g, verdict) ==
  /\ \E o, p \in Side(g, verdict) :
       AgentOf[o] # AgentOf[p] /\ StandsFor(c, o) /\ StandsFor(c, p)
  /\ \A w \in Verdicts \ {verdict} : Side(g, w) = {}
Decides(verdict) ==
  applying # None /\ applying' # None /\ applying.work.status # verdict /\ applying'.work.status = verdict
VerdictIsBacked ==
  [][\A v \in Verdicts : Decides(v) => Backed(applying.claim, applying.work, v)]_vars

(* A claim that was once verified is never rejected, and the other way     *)
(* round, however often evidence is asked for and observations come in     *)
(* meanwhile (authorize.go, consensus.go).                                 *)
NeverReversed ==
  \A c \in Claims :
    /\ [](Status(c) = "verified" => [](Status(c) # "rejected"))
    /\ [](Status(c) = "rejected" => [](Status(c) # "verified"))

(* The verdicts on file are those in memory, whatever persist refused      *)
(* (Apply: "persistence failed, state unchanged").                         *)
VerdictsAreOnFile ==
  \A c \in Claims : \A v \in Verdicts :
    Status(c) = v <=> saved[c] # None /\ saved[c].status = v

(* No group exceeds the limits on agents, rounds, requests and depth.      *)
LimitsHold ==
  \A c \in Claims : groups[c] # None =>
    /\ groups[c].seen # {}
    /\ MaxIndependentReviews > 0 => Cardinality(AgentsOf(groups[c])) <= MaxIndependentReviews
    /\ MaxArbitrationRounds > 0 => groups[c].rounds <= MaxArbitrationRounds
    /\ MaxEvidenceRequests > 0 => groups[c].requests <= MaxEvidenceRequests
    /\ MaxReviewDepth > 0 => groups[c].depth <= MaxReviewDepth

===============================================================================
