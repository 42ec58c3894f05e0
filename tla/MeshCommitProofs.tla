--------------------------- MODULE MeshCommitProofs ---------------------------
(***************************************************************************)
(* Proofs about MeshCommit, for every set of processes, changes, proofs    *)
(* and files: type correctness, that only proved trees are committed, and, *)
(* for one process, that the evidence on file backs what is committable.   *)
(***************************************************************************)
EXTENDS MeshCommit, TLAPS

(* The operations that hold a snapshot of a row of mesh_changes. *)
WithSnapshot == {"submit", "refresh", "decide", "git", "save"}

LEMMA OpFields ==
  ASSUME NEW o \in Ops
  PROVE  /\ o.step \in {"idle", "create", "proof", "gate"} \cup WithSnapshot
         /\ o.step = "idle" => o = Idle
         /\ o.step # "idle" => o.change \in Changes
         /\ o.step = "create" => o.todo \in SUBSET Proofs
         /\ o.step = "submit" => o.row \in EvidenceRow
         /\ o.step = "proof" => o.obl \in Obligations /\ o.tree \in Trees
         /\ o.step = "refresh" => o.tree \in Trees
         /\ o.step = "save" => o.next \in {"idle", "gate"}
         /\ o.step \in WithSnapshot => o.chg \in ChangeRow
  BY DEF Ops, Idle, WithSnapshot

LEMMA RowUpdate ==
  ASSUME NEW r \in ChangeRow, NEW s \in Statuses, NEW t \in Trees
  PROVE  /\ [r EXCEPT !.status = s] \in ChangeRow
         /\ [r EXCEPT !.current = t] \in ChangeRow
         /\ [r EXCEPT !.status = s, !.current = t] \in ChangeRow
         /\ [r EXCEPT !.status = s, !.verified = t] \in ChangeRow
  BY DEF ChangeRow

LEMMA RowFields ==
  ASSUME NEW r \in ChangeRow
  PROVE  /\ r.status \in Statuses /\ r.author \in Participants /\ r.current \in Trees
         /\ r.verified \in Trees \cup {None} /\ r.policy \in SUBSET Proofs
  BY DEF ChangeRow

LEMMA OpsAreOps ==
  ASSUME NEW c \in Changes, NEW r \in ChangeRow, NEW t \in Trees
  PROVE  /\ Idle \in Ops
         /\ Gate(c) \in Ops
         /\ \A todo \in SUBSET Proofs : Create(c, todo) \in Ops
         /\ Save(c, r, "idle") \in Ops
         /\ Save(c, r, "gate") \in Ops
         /\ \A e \in EvidenceRow :
              [step |-> "submit", change |-> c, chg |-> r, row |-> e] \in Ops
         /\ \A o \in Obligations :
              [step |-> "proof", change |-> c, obl |-> o, tree |-> t] \in Ops
         /\ [step |-> "refresh", change |-> c, chg |-> r, tree |-> t] \in Ops
         /\ [step |-> "decide", change |-> c, chg |-> r] \in Ops
         /\ [step |-> "git", change |-> c, chg |-> r] \in Ops
  BY DEF Ops, Gate, Create, Save

LEMMA ContinueType ==
  ASSUME op \in [Procs -> Ops], NEW p \in Procs, NEW o \in Ops, Continue(p, o)
  PROVE  op' \in [Procs -> Ops] /\ op'[p] = o /\ \A q \in Procs \ {p} : op'[q] = op[q]
  BY DEF Continue

LEMMA PolicyType == \A changed : Policy(changed) \in SUBSET Proofs
  BY ConstantsAssumption DEF Policy

LEMMA VerdictType ==
  ASSUME NEW c, NEW n, NEW t
  PROVE  Verdict(c, n, t) \in ObligationStatuses
  <1> DEFINE results == {e.result : e \in Counted(c, n, t)}
  <1>1. CASE "failed" \in results
    BY <1>1 DEF Verdict, ObligationStatuses
  <1>2. CASE "failed" \notin results /\ "passed" \in results
    BY <1>2 DEF Verdict, ObligationStatuses
  <1>3. CASE results = {} /\ obligations[<<c, n>>] = "stale"
    BY <1>3 DEF Verdict, ObligationStatuses
  <1>4. QED
    BY <1>1, <1>2, <1>3 DEF Verdict, ObligationStatuses

(* A new row and the status it sets. *)
LEMMA RecordType ==
  ASSUME TypeOK, NEW row \in EvidenceRow, RecordEvidence(row)
  PROVE  /\ evidence' \subseteq EvidenceRow
         /\ valid' \subseteq evidence'
         /\ obligations' \in [Obligations -> ObligationStatuses]
  <1>1. row.result \in ObligationStatuses
    BY DEF EvidenceRow, Results, ObligationStatuses
  <1>2. QED
    BY <1>1 DEF RecordEvidence, TypeOK

LEMMA TypeStep ==
  ASSUME TypeOK, OpsAreOnFile, [Next]_vars
  PROVE  TypeOK'
  <1> USE DEF TypeOK
  <1>a. ASSUME NEW p \in Procs, NEW c \in Changes, Exists(c)
        PROVE  /\ changes[c] \in ChangeRow
               /\ worktree \in Trees
    BY <1>a DEF Exists
  <1>1. ASSUME NEW p \in Procs, NEW c \in Changes, NEW a \in Participants, CreateChange(p, c, a)
        PROVE TypeOK'
    <2> DEFINE row == [status   |-> "draft",
                       author   |-> IF changes[c] = None THEN a ELSE changes[c].author,
                       current  |-> worktree,
                       verified |-> None,
                       policy   |-> Policy(Diff(head, worktree))]
    <2>1. row \in ChangeRow
      BY PolicyType DEF ChangeRow, Statuses
    <2>2. Create(c, row.policy) \in Ops
      BY PolicyType DEF Create, Ops
    <2>3. QED
      BY <1>1, <2>1, <2>2 DEF CreateChange, Begin
  <1>2. ASSUME NEW p \in Procs, NEW c \in Changes, NEW a \in Callers,
               PrepareChange(p, c, a) \/ AbortChange(p, c, a) \/ CommitChange(p, c, a)
        PROVE TypeOK'
    <2>1. changes[c] \in ChangeRow /\ worktree \in Trees
      BY <1>2 DEF PrepareChange, AbortChange, CommitChange
    <2>2. [changes[c] EXCEPT !.status = "prepared", !.current = worktree] \in ChangeRow
      BY <2>1, RowUpdate DEF Statuses
    <2>3. [changes[c] EXCEPT !.status = "aborted"] \in ChangeRow
      BY <2>1, RowUpdate DEF Statuses
    <2>4. op' \in [Procs -> Ops]
      BY <1>2, <2>1, <2>2, <2>3, OpsAreOps DEF PrepareChange, AbortChange, CommitChange, Begin
    <2>5. QED
      BY <1>2, <2>4 DEF PrepareChange, AbortChange, CommitChange, tables
  <1>3. ASSUME NEW p \in Procs, NEW c \in Changes, NEW o \in Obligations, NEW s \in Participants,
               NEW k \in {"review", "other"}, NEW r \in Results,
               SubmitEvidence(p, c, o, s, k, r)
        PROVE TypeOK'
    <2> DEFINE row == [change |-> c, obl |-> o, tree |-> worktree, source |-> s, result |-> r]
    <2>1. changes[c] \in ChangeRow /\ worktree \in Trees
      BY <1>3 DEF SubmitEvidence
    <2>2. row \in EvidenceRow
      BY <2>1 DEF EvidenceRow
    <2>3. [step |-> "submit", change |-> c, chg |-> changes[c], row |-> row] \in Ops
      BY <2>1, <2>2, OpsAreOps
    <2>4. QED
      BY <1>3, <2>3 DEF SubmitEvidence, Begin, tables
  <1>4. ASSUME NEW p \in Procs, NEW c \in Changes, NEW o \in Obligations, ExecuteProof(p, c, o)
        PROVE TypeOK'
    <2>1. [step |-> "proof", change |-> c, obl |-> o, tree |-> worktree] \in Ops
      BY DEF Ops
    <2>2. QED
      BY <1>4, <2>1 DEF ExecuteProof, Begin, ObligationStatuses
  <1>b. ASSUME NEW c \in Changes, changes[c] # None PROVE ReadForGate(c) \in Ops
    <2>1. changes[c] \in ChangeRow
      BY <1>b
    <2>2. QED
      BY <2>1, OpsAreOps DEF ReadForGate
  <1>5. ASSUME NEW p \in Procs, NEW c \in Changes, EvaluateGate(p, c) PROVE TypeOK'
    BY <1>5, <1>b DEF EvaluateGate, Begin, tables
  <1>6. ASSUME NEW p \in Procs, Step(p) PROVE TypeOK'
    <2> DEFINE c == op[p].change
               chg == op[p].chg
    <2>0. op[p] \in Ops
      OBVIOUS
    <2>1. CASE SaveProofObligation(p)
      <3>1. PICK n \in op[p].todo :
              /\ obligations' = [obligations EXCEPT ![<<c, n>>] = "pending"]
              /\ Continue(p, IF op[p].todo = {n} THEN Idle ELSE Create(c, op[p].todo \ {n}))
        BY <2>1 DEF SaveProofObligation
      <3>2. c \in Changes /\ op[p].todo \in SUBSET Proofs
        BY <2>0, <2>1, OpFields DEF SaveProofObligation
      <3>3. Idle \in Ops /\ Create(c, op[p].todo \ {n}) \in Ops
        BY <3>2 DEF Ops, Create
      <3>4. op' \in [Procs -> Ops]
        BY <3>1, <3>3 DEF Continue
      <3>5. obligations' \in [Obligations -> ObligationStatuses]
        BY <3>1 DEF ObligationStatuses
      <3>6. QED
        BY <2>1, <3>4, <3>5 DEF SaveProofObligation
    <2>2. CASE SaveMeshChange(p)
      <3>1. c \in Changes /\ chg \in ChangeRow
        BY <2>0, <2>2, OpFields DEF SaveMeshChange, WithSnapshot
      <3>2. Idle \in Ops /\ Gate(c) \in Ops
        BY <3>1 DEF Ops, Gate
      <3>3. QED
        BY <2>2, <3>1, <3>2 DEF SaveMeshChange, Continue
    <2>3. CASE SaveChangeEvidence(p)
      <3>1. c \in Changes /\ chg \in ChangeRow /\ op[p].row \in EvidenceRow
        BY <2>0, <2>3, OpFields DEF SaveChangeEvidence, WithSnapshot
      <3>2. [chg EXCEPT !.status = "under_verification"] \in ChangeRow
        BY <3>1, RowUpdate DEF Statuses
      <3>3. op' \in [Procs -> Ops]
        BY <2>3, <3>1, <3>2, OpsAreOps DEF SaveChangeEvidence, Continue
      <3>4. RecordEvidence(op[p].row)
        BY <2>3 DEF SaveChangeEvidence
      <3>5. QED
        BY <2>3, <3>1, <3>3, <3>4, RecordType DEF SaveChangeEvidence
    <2>4. ASSUME NEW r \in Results, FinishProof(p, r) PROVE TypeOK'
      <3> DEFINE row == [change |-> c, obl |-> op[p].obl, tree |-> op[p].tree,
                         source |-> Harness, result |-> r]
      <3>1. c \in Changes /\ op[p].obl \in Obligations /\ op[p].tree \in Trees
        BY <2>0, <2>4, OpFields DEF FinishProof
      <3>2. row \in EvidenceRow
        BY <3>1 DEF EvidenceRow
      <3>3. RecordEvidence(row)
        BY <2>4 DEF FinishProof
      <3>4. Gate(c) \in Ops
        BY <3>1 DEF Ops, Gate
      <3>5. QED
        BY <2>4, <3>2, <3>3, <3>4, RecordType DEF FinishProof, Continue
    <2>5. CASE GateRead(p)
      <3>1. c \in Changes /\ changes[c] # None
        BY <2>0, <2>5, OpFields DEF GateRead, OpsAreOnFile, Exists, Idle
      <3>2. ReadForGate(c) \in Ops
        BY <3>1, <1>b
      <3>3. QED
        BY <2>5, <3>2, ContinueType DEF GateRead, tables
    <2>6. CASE GateRefresh(p)
      <3> DEFINE new == [chg EXCEPT !.current = op[p].tree]
      <3>1. c \in Changes /\ chg \in ChangeRow /\ op[p].tree \in Trees
        BY <2>0, <2>6, OpFields DEF GateRefresh, WithSnapshot
      <3>2. new \in ChangeRow
        BY <3>1, RowUpdate DEF Statuses
      <3>3. [step |-> "decide", change |-> c, chg |-> new] \in Ops
        BY <3>1, <3>2 DEF Ops
      <3>4. op' \in [Procs -> Ops] /\ changes' \in [Changes -> ChangeRow \cup {None}]
        BY <2>6, <3>1, <3>2, <3>3 DEF GateRefresh, Continue
      <3>5. valid' \subseteq evidence' /\ obligations' \in [Obligations -> ObligationStatuses]
        BY <2>6 DEF GateRefresh, ObligationStatuses
      <3>6. QED
        BY <2>6, <3>4, <3>5 DEF GateRefresh
    <2>7. CASE GateDecide(p)
      <3>1. c \in Changes /\ chg \in ChangeRow
        BY <2>0, <2>7, OpFields DEF GateDecide, WithSnapshot
      <3>2. /\ [chg EXCEPT !.status = "committable", !.verified = chg.current] \in ChangeRow
            /\ [chg EXCEPT !.status = "blocked"] \in ChangeRow
        BY <3>1, RowUpdate, RowFields DEF Statuses
      <3>3. /\ Save(c, [chg EXCEPT !.status = "committable", !.verified = chg.current], "idle") \in Ops
            /\ Save(c, [chg EXCEPT !.status = "blocked"], "idle") \in Ops
            /\ Idle \in Ops
        BY <3>1, <3>2 DEF Save, Ops
      <3>8. op' \in [Procs -> Ops]
        BY <2>7, <3>3 DEF GateDecide, Continue
      <3>4. obligations' \in [Obligations -> ObligationStatuses]
        BY <2>7, VerdictType DEF GateDecide, WithVerdicts
      <3>5. [change |-> c, tree |-> chg.current, proofs |-> OnFile(c)] \in Pass
        BY <3>1, RowFields DEF Pass, OnFile
      <3>6. passes' \subseteq Pass
        BY <2>7, <3>5 DEF GateDecide
      <3>7. QED
        BY <2>7, <3>4, <3>6, <3>8 DEF GateDecide
    <2>8. CASE GitCommit(p)
      <3>1. c \in Changes /\ chg \in ChangeRow
        BY <2>0, <2>8, OpFields DEF GitCommit, WithSnapshot
      <3>2. [chg EXCEPT !.status = "committed"] \in ChangeRow
        BY <3>1, RowUpdate DEF Statuses
      <3>3. op' \in [Procs -> Ops]
        BY <2>8, <3>1, <3>2, OpsAreOps, RowFields DEF GitCommit, Continue
      <3>4. head' \in Trees
        BY <2>8 DEF GitCommit, Trees
      <3>5. QED
        BY <2>8, <3>3, <3>4 DEF GitCommit, tables
    <2>9. QED
      BY <1>6, <2>1, <2>2, <2>3, <2>4, <2>5, <2>6, <2>7, <2>8 DEF Step
  <1>7. ASSUME NEW p \in Procs, Crash(p) PROVE TypeOK'
    BY <1>7 DEF Crash, Continue, tables, Ops
  <1>8. ASSUME NEW x \in Paths, NEW v \in Versions, Edit(x, v) PROVE TypeOK'
    BY <1>8 DEF Edit, tables, Trees
  <1>9. CASE UNCHANGED vars
    BY <1>9 DEF vars
  <1> QED
    BY <1>1, <1>2, <1>3, <1>4, <1>5, <1>6, <1>7, <1>8, <1>9 DEF Next, Operation

LEMMA CreateStores ==
  ASSUME TypeOK, NEW p \in Procs, NEW c \in Changes, NEW a \in Participants, CreateChange(p, c, a)
  PROVE  /\ changes' \in [Changes -> ChangeRow \cup {None}]
         /\ changes'[c] \in ChangeRow
         /\ changes'[c] # None
         /\ changes'[c].status = "draft"
         /\ \A d \in Changes \ {c} : changes'[d] = changes[d]
  <1> DEFINE row == [status   |-> "draft",
                     author   |-> IF changes[c] = None THEN a ELSE changes[c].author,
                     current  |-> worktree,
                     verified |-> None,
                     policy   |-> Policy(Diff(head, worktree))]
  <1>1. row \in ChangeRow
    <2>1. (IF changes[c] = None THEN a ELSE changes[c].author) \in Participants
      BY RowFields DEF TypeOK
    <2>2. QED
      BY <2>1, PolicyType DEF ChangeRow, Statuses, TypeOK
  <1>2. changes' = [changes EXCEPT ![c] = row]
    BY DEF CreateChange
  <1>3. QED
    BY <1>1, <1>2, ConstantsAssumption DEF TypeOK

(* Every write to mesh_changes stores a row. *)
LEMMA RowsStay ==
  ASSUME TypeOK, [Next]_vars
  PROVE  \A c \in Changes : Exists(c) => Exists(c)'
  <1> SUFFICES ASSUME NEW c \in Changes, changes[c] # None PROVE changes'[c] # None
    BY DEF Exists
  <1>1. CASE changes' = changes
    BY <1>1
  <1>2. ASSUME NEW p \in Procs, NEW d \in Changes, NEW a \in Participants, CreateChange(p, d, a)
        PROVE  changes'[c] # None
    BY <1>2, CreateStores
  <1>3. ASSUME NEW p \in Procs, SaveMeshChange(p) PROVE changes'[c] # None
    <2>1. op[p].chg \in ChangeRow
      BY <1>3, OpFields DEF SaveMeshChange, WithSnapshot, TypeOK
    <2>2. QED
      BY <1>3, <2>1, ConstantsAssumption DEF SaveMeshChange, TypeOK
  <1>4. ASSUME NEW p \in Procs, GateRefresh(p) PROVE changes'[c] # None
    <2>1. op[p].chg \in ChangeRow /\ op[p].tree \in Trees
      BY <1>4, OpFields DEF GateRefresh, WithSnapshot, TypeOK
    <2>2. [op[p].chg EXCEPT !.current = op[p].tree] \in ChangeRow
      BY <2>1, RowUpdate DEF Statuses
    <2>3. changes' = [changes EXCEPT ![op[p].change] = [op[p].chg EXCEPT !.current = op[p].tree]]
      BY <1>4 DEF GateRefresh
    <2>4. QED
      BY <2>2, <2>3, ConstantsAssumption DEF TypeOK
  <1>5. ASSUME NEW p \in Procs, Operation(p) PROVE changes'[c] # None
    <2>1. ASSUME NEW d \in Changes, NEW a,
                 PrepareChange(p, d, a) \/ AbortChange(p, d, a) \/ CommitChange(p, d, a)
          PROVE  changes' = changes
      BY <2>1 DEF PrepareChange, AbortChange, CommitChange, tables
    <2>2. ASSUME NEW d \in Changes, NEW o \in Obligations, NEW s \in Participants,
                 NEW k \in {"review", "other"}, NEW r \in Results,
                 SubmitEvidence(p, d, o, s, k, r)
          PROVE  changes' = changes
      BY <2>2 DEF SubmitEvidence, tables
    <2>3. ASSUME NEW d \in Changes, NEW o \in Obligations, ExecuteProof(p, d, o)
          PROVE  changes' = changes
      BY <2>3 DEF ExecuteProof
    <2>4. ASSUME NEW d \in Changes, EvaluateGate(p, d) PROVE changes' = changes
      BY <2>4 DEF EvaluateGate, tables
    <2>5. QED
      BY <1>1, <1>2, <1>5, <2>1, <2>2, <2>3, <2>4 DEF Operation
  <1>6. ASSUME NEW p \in Procs, Step(p) PROVE changes'[c] # None
    BY <1>1, <1>3, <1>4, <1>6
    DEF Step, tables, SaveProofObligation, SaveChangeEvidence, FinishProof,
        GateRead, GateDecide, GitCommit
  <1>7. QED
    BY <1>1, <1>5, <1>6 DEF Next, vars, tables, Crash, Edit

LEMMA OnFileStep ==
  ASSUME TypeOK, OpsAreOnFile, [Next]_vars
  PROVE  OpsAreOnFile'
  <1> SUFFICES ASSUME NEW q \in Procs, op'[q] # Idle PROVE Exists(op[q].change)'
    BY DEF OpsAreOnFile
  <1> USE DEF Exists
  <1>0. /\ op[q] \in Ops
        /\ op[q] # Idle => op[q].change \in Changes /\ changes[op[q].change] # None
    BY OpFields DEF TypeOK, OpsAreOnFile, Idle
  <1>1. ASSUME op'[q] = op[q] PROVE changes'[op'[q].change] # None
    BY <1>0, <1>1, RowsStay
  <1>2. ASSUME op[q] # Idle, op'[q].change = op[q].change PROVE changes'[op'[q].change] # None
    BY <1>0, <1>2, RowsStay
  <1>3. ASSUME NEW c \in Changes, op'[q].change = c, changes[c] # None
        PROVE  changes'[op'[q].change] # None
    BY <1>3, RowsStay
  <1>4. ASSUME NEW p \in Procs, Operation(p) PROVE changes'[op'[q].change] # None
    <2>1. CASE p # q
      <3>1. ASSUME NEW o, Begin(p, o) PROVE op'[q] = op[q]
        BY <2>1, <3>1 DEF Begin, TypeOK
      <3>2. ASSUME NEW c \in Changes, NEW a,
                   \/ CreateChange(p, c, a) \/ PrepareChange(p, c, a)
                   \/ AbortChange(p, c, a) \/ CommitChange(p, c, a)
            PROVE  op'[q] = op[q]
        BY <3>1, <3>2 DEF CreateChange, PrepareChange, AbortChange, CommitChange
      <3>3. ASSUME NEW c \in Changes, NEW o \in Obligations, NEW s \in Participants,
                   NEW k \in {"review", "other"}, NEW r \in Results,
                   SubmitEvidence(p, c, o, s, k, r)
            PROVE  op'[q] = op[q]
        BY <3>1, <3>3 DEF SubmitEvidence
      <3>4. ASSUME NEW c \in Changes, NEW o \in Obligations, ExecuteProof(p, c, o)
            PROVE  op'[q] = op[q]
        BY <3>1, <3>4 DEF ExecuteProof
      <3>5. ASSUME NEW c \in Changes, EvaluateGate(p, c) PROVE op'[q] = op[q]
        BY <3>1, <3>5 DEF EvaluateGate
      <3>6. op'[q] = op[q]
        BY <1>4, <3>2, <3>3, <3>4, <3>5 DEF Operation
      <3>7. QED
        BY <1>1, <3>6
    <2>2. ASSUME p = q, NEW c \in Changes, NEW a \in Participants, CreateChange(p, c, a)
          PROVE changes'[op'[q].change] # None
      <3>1. changes'[c] # None
        BY <2>2, CreateStores
      <3>2. op'[q] = Create(c, changes'[c].policy)
        BY <2>2 DEF CreateChange, Begin, TypeOK
      <3>3. QED
        BY <3>1, <3>2 DEF Create
    <2>3. ASSUME p = q, NEW c \in Changes, changes[c] # None, NEW o, Begin(p, o), o.change = c
          PROVE changes'[op'[q].change] # None
      BY <2>3, <1>3 DEF Begin, TypeOK
    <2>4. ASSUME p = q, NEW c \in Changes, NEW a \in Callers,
                 PrepareChange(p, c, a) \/ AbortChange(p, c, a) \/ CommitChange(p, c, a)
          PROVE changes'[op'[q].change] # None
      BY <2>3, <2>4 DEF PrepareChange, AbortChange, CommitChange, Save
    <2>5. ASSUME p = q, NEW c \in Changes, NEW o \in Obligations, NEW s \in Participants,
                 NEW k \in {"review", "other"}, NEW r \in Results,
                 SubmitEvidence(p, c, o, s, k, r)
          PROVE changes'[op'[q].change] # None
      BY <2>3, <2>5 DEF SubmitEvidence
    <2>6. ASSUME p = q, NEW c \in Changes, NEW o \in Obligations, ExecuteProof(p, c, o)
          PROVE changes'[op'[q].change] # None
      BY <2>3, <2>6 DEF ExecuteProof
    <2>7. ASSUME p = q, NEW c \in Changes, EvaluateGate(p, c)
          PROVE changes'[op'[q].change] # None
      BY <2>3, <2>7 DEF EvaluateGate, ReadForGate
    <2>8. QED
      BY <1>4, <2>1, <2>2, <2>4, <2>5, <2>6, <2>7 DEF Operation
  <1>5. ASSUME NEW p \in Procs, Step(p) PROVE changes'[op'[q].change] # None
    <2>1. CASE p # q
      BY <2>1, <1>1, <1>5 DEF Step, SaveProofObligation, SaveMeshChange, SaveChangeEvidence,
        FinishProof, GateRead, GateRefresh, GateDecide, GitCommit, Continue, TypeOK
    <2>2. CASE p = q
      <3>1. op[q].step # "idle" /\ (op'[q] = Idle \/ op'[q].change = op[q].change)
        <4>1. ASSUME NEW o, Continue(q, o), o = Idle \/ o.change = op[q].change
              PROVE  op'[q] = Idle \/ op'[q].change = op[q].change
          BY <4>1 DEF Continue, TypeOK
        <4>2. CASE SaveProofObligation(q)
          BY <4>1, <4>2 DEF SaveProofObligation, Create
        <4>3. CASE SaveMeshChange(q)
          BY <4>1, <4>3 DEF SaveMeshChange, Gate
        <4>4. CASE SaveChangeEvidence(q)
          BY <4>1, <4>4 DEF SaveChangeEvidence, Save, Gate
        <4>5. ASSUME NEW r \in Results, FinishProof(q, r)
              PROVE  op[q].step # "idle" /\ (op'[q] = Idle \/ op'[q].change = op[q].change)
          BY <4>1, <4>5 DEF FinishProof, Gate
        <4>6. CASE GateRead(q)
          BY <4>1, <4>6 DEF GateRead, ReadForGate
        <4>7. CASE GateRefresh(q)
          BY <4>1, <4>7 DEF GateRefresh
        <4>8. CASE GateDecide(q)
          BY <4>1, <4>8 DEF GateDecide, Save
        <4>9. CASE GitCommit(q)
          BY <4>1, <4>9 DEF GitCommit, Save
        <4>10. QED
          BY <1>5, <2>2, <4>2, <4>3, <4>4, <4>5, <4>6, <4>7, <4>8, <4>9 DEF Step
      <3>2. op[q] # Idle /\ op'[q].change = op[q].change
        BY <3>1 DEF Idle
      <3>3. QED
        BY <1>2, <3>2
    <2>3. QED
      BY <2>1, <2>2
  <1>6. QED
    BY <1>1, <1>4, <1>5 DEF Next, vars, Crash, Edit, Continue, TypeOK

(***************************************************************************)
(* Type correctness: whatever the operations of any number of processes,   *)
(* edits of the worktree and crashes do, the tables hold rows of their     *)
(* schema, and every operation in progress holds a snapshot of such a row. *)
(* A row of mesh_changes is never deleted (CreateChange, SaveMeshChange).  *)
(***************************************************************************)
THEOREM TypeCorrect == Spec => []TypeOK
  <1>1. Init => TypeOK /\ OpsAreOnFile
    BY ConstantsAssumption DEF Init, TypeOK, Ops, Idle, ObligationStatuses, OpsAreOnFile
  <1>2. TypeOK /\ OpsAreOnFile /\ [Next]_vars => TypeOK' /\ OpsAreOnFile'
    BY TypeStep, OnFileStep
  <1>3. QED
    BY <1>1, <1>2, PTL DEF Spec

-------------------------------------------------------------------------------
(* Only proved trees are committed.  The history of decisions and the        *)
(* evidence table only grow, so what was proved stays proved, and it is      *)
(* enough to follow each row from the gate that marked it, through the       *)
(* snapshots operations hold of it, back to the table.                       *)

LEMMA ProvedByGrows ==
  ASSUME NEW ds, NEW ds2, ds \subseteq ds2, NEW es, NEW es2, es \subseteq es2,
         NEW c, NEW t, ProvedBy(ds, es, c, t)
  PROVE  ProvedBy(ds2, es2, c, t)
  BY DEF ProvedBy

LEMMA HistoryGrows ==
  ASSUME [Next]_vars
  PROVE  passes \subseteq passes' /\ evidence \subseteq evidence'
  <1>1. ASSUME NEW p \in Procs, Operation(p) PROVE passes' = passes /\ evidence' = evidence
    <2>1. ASSUME NEW c \in Changes, NEW a,
                 \/ CreateChange(p, c, a) \/ PrepareChange(p, c, a)
                 \/ AbortChange(p, c, a) \/ CommitChange(p, c, a)
          PROVE  passes' = passes /\ evidence' = evidence
      BY <2>1 DEF CreateChange, PrepareChange, AbortChange, CommitChange, tables
    <2>2. ASSUME NEW c \in Changes, NEW o \in Obligations, NEW s \in Participants,
                 NEW k \in {"review", "other"}, NEW r \in Results,
                 SubmitEvidence(p, c, o, s, k, r)
          PROVE  passes' = passes /\ evidence' = evidence
      BY <2>2 DEF SubmitEvidence, tables
    <2>3. ASSUME NEW c \in Changes, NEW o \in Obligations, ExecuteProof(p, c, o)
          PROVE  passes' = passes /\ evidence' = evidence
      BY <2>3 DEF ExecuteProof
    <2>4. ASSUME NEW c \in Changes, EvaluateGate(p, c) PROVE passes' = passes /\ evidence' = evidence
      BY <2>4 DEF EvaluateGate, tables
    <2>5. QED
      BY <1>1, <2>1, <2>2, <2>3, <2>4 DEF Operation
  <1>2. ASSUME NEW p \in Procs, Step(p) PROVE passes \subseteq passes' /\ evidence \subseteq evidence'
    <2>1. CASE SaveProofObligation(p) \/ SaveMeshChange(p) \/ GateRead(p) \/ GateRefresh(p) \/ GitCommit(p)
      BY <2>1 DEF SaveProofObligation, SaveMeshChange, GateRead, GateRefresh, GitCommit, tables
    <2>2. CASE SaveChangeEvidence(p)
      BY <2>2 DEF SaveChangeEvidence, RecordEvidence
    <2>3. ASSUME NEW r \in Results, FinishProof(p, r)
          PROVE  passes' = passes /\ evidence \subseteq evidence'
      BY <2>3 DEF FinishProof, RecordEvidence
    <2>4. CASE GateDecide(p)
      BY <2>4 DEF GateDecide
    <2>5. QED
      BY <1>2, <2>1, <2>2, <2>3, <2>4 DEF Step
  <1>3. QED
    BY <1>1, <1>2 DEF Next, vars, tables, Crash, Edit

(* RowProved of a row in the next state. *)
NowProved(c, row) ==
  row.status \in {"verified", "committable", "committed"}
    => ProvedBy(passes', evidence', c, row.verified)

(* What RowsAreProved' asks of an operation. *)
OpNowProved(o) ==
  /\ o.step \in WithSnapshot => NowProved(o.change, o.chg)
  /\ o.step = "git" => /\ o.chg.status \in {"verified", "committable"}
                       /\ o.chg.current = o.chg.verified

LEMMA RowStaysProved ==
  ASSUME [Next]_vars, NEW c, NEW row, RowProved(c, row)
  PROVE  NowProved(c, row)
  BY HistoryGrows, ProvedByGrows DEF RowProved, Proved, NowProved

LEMMA SplitGoal ==
  ASSUME \A c \in Changes : changes'[c] # None => NowProved(c, changes'[c]),
         \A q \in Procs : OpNowProved(op'[q])
  PROVE  RowsAreProved'
  BY DEF RowsAreProved, RowProved, Proved, NowProved, OpNowProved, WithSnapshot, Exists

(* A row whose status marks no proof. *)
LEMMA UnmarkedRow ==
  ASSUME NEW c, NEW r \in ChangeRow,
         NEW s \in {"draft", "prepared", "under_verification", "blocked", "aborted"}, NEW t \in Trees
  PROVE  /\ NowProved(c, [r EXCEPT !.status = s])
         /\ NowProved(c, [r EXCEPT !.status = s, !.current = t])
  BY DEF NowProved, ChangeRow

LEMMA OperationsKeepProved ==
  ASSUME TypeOK, OpsAreOnFile, RowsAreProved, [Next]_vars, NEW p \in Procs, Operation(p)
  PROVE  RowsAreProved'
  <1>1. \A c \in Changes : changes[c] # None => NowProved(c, changes[c])
    BY RowStaysProved DEF RowsAreProved, Exists
  <1>2. \A q \in Procs : OpNowProved(op[q])
    BY RowStaysProved DEF RowsAreProved, OpNowProved, WithSnapshot
  <1>3. ASSUME NEW o, Begin(p, o), OpNowProved(o) PROVE \A q \in Procs : OpNowProved(op'[q])
    BY <1>2, <1>3 DEF Begin, TypeOK
  <1>4. ASSUME NEW o, changes' = changes, Begin(p, o), OpNowProved(o) PROVE RowsAreProved'
    BY <1>1, <1>3, <1>4, SplitGoal
  <1>5. ASSUME NEW c \in Changes, NEW a \in Participants, CreateChange(p, c, a) PROVE RowsAreProved'
    <2>1. \A d \in Changes : changes'[d] # None => NowProved(d, changes'[d])
      BY <1>1, <1>5, CreateStores DEF NowProved
    <2>2. PICK todo : Begin(p, Create(c, todo))
      BY <1>5 DEF CreateChange
    <2>3. OpNowProved(Create(c, todo))
      BY DEF OpNowProved, Create, WithSnapshot
    <2>4. QED
      BY <2>1, <2>2, <2>3, <1>3, SplitGoal
  <1>6. ASSUME NEW c \in Changes, NEW a \in Callers, PrepareChange(p, c, a) PROVE RowsAreProved'
    <2> DEFINE row == [changes[c] EXCEPT !.status = "prepared", !.current = worktree]
    <2>1. NowProved(c, row)
      BY <1>6, UnmarkedRow DEF PrepareChange, TypeOK
    <2>2. OpNowProved(Save(c, row, "idle"))
      BY <2>1 DEF OpNowProved, Save
    <2>3. changes' = changes /\ Begin(p, Save(c, row, "idle"))
      BY <1>6 DEF PrepareChange, tables
    <2>4. QED
      BY <2>2, <2>3, <1>4
  <1>7. ASSUME NEW c \in Changes, NEW a \in Callers, AbortChange(p, c, a) PROVE RowsAreProved'
    <2> DEFINE row == [changes[c] EXCEPT !.status = "aborted"]
    <2>1. NowProved(c, row)
      BY <1>7, UnmarkedRow DEF AbortChange, TypeOK
    <2>2. OpNowProved(Save(c, row, "idle"))
      BY <2>1 DEF OpNowProved, Save
    <2>3. changes' = changes /\ Begin(p, Save(c, row, "idle"))
      BY <1>7 DEF AbortChange, tables
    <2>4. QED
      BY <2>2, <2>3, <1>4
  <1>8. ASSUME NEW c \in Changes, NEW a \in Callers, CommitChange(p, c, a) PROVE RowsAreProved'
    <2> DEFINE o == [step |-> "git", change |-> c, chg |-> changes[c]]
    <2>1. changes[c] # None /\ changes[c].status \in {"verified", "committable"}
      BY <1>8 DEF CommitChange
    <2>2. Proved(c, changes[c].verified)
      BY <2>1 DEF RowsAreProved, RowProved, Exists
    <2>3. changes[c].verified # None
      BY <2>2, ConstantsAssumption DEF Proved, ProvedBy, TypeOK, Pass
    <2>4. changes[c].current = changes[c].verified
      BY <1>8, <2>3 DEF CommitChange, OnVerifiedTree
    <2>5. OpNowProved(o)
      BY <2>1, <2>4, <1>1 DEF OpNowProved
    <2>6. changes' = changes /\ Begin(p, o)
      BY <1>8 DEF CommitChange, tables
    <2>7. QED
      BY <2>5, <2>6, <1>4
  <1>9. ASSUME NEW c \in Changes, NEW obl \in Obligations, NEW s \in Participants,
               NEW k \in {"review", "other"}, NEW r \in Results,
               SubmitEvidence(p, c, obl, s, k, r)
        PROVE RowsAreProved'
    <2>1. PICK e : Begin(p, [step |-> "submit", change |-> c, chg |-> changes[c], row |-> e])
      BY <1>9 DEF SubmitEvidence
    <2>2. changes' = changes /\ changes[c] # None
      BY <1>9 DEF SubmitEvidence, tables
    <2>3. OpNowProved([step |-> "submit", change |-> c, chg |-> changes[c], row |-> e])
      BY <2>2, <1>1 DEF OpNowProved
    <2>4. QED
      BY <2>1, <2>2, <2>3, <1>4
  <1>10. ASSUME NEW c \in Changes, NEW obl \in Obligations, ExecuteProof(p, c, obl) PROVE RowsAreProved'
    <2> DEFINE o == [step |-> "proof", change |-> c, obl |-> obl, tree |-> worktree]
    <2>1. OpNowProved(o)
      BY DEF OpNowProved, WithSnapshot
    <2>2. changes' = changes /\ Begin(p, o)
      BY <1>10 DEF ExecuteProof
    <2>3. QED
      BY <2>1, <2>2, <1>4
  <1>11. ASSUME NEW c \in Changes, EvaluateGate(p, c) PROVE RowsAreProved'
    <2>1. changes' = changes /\ changes[c] # None /\ Begin(p, ReadForGate(c))
      BY <1>11 DEF EvaluateGate, tables
    <2>2. OpNowProved(ReadForGate(c))
      BY <2>1, <1>1 DEF OpNowProved, ReadForGate
    <2>3. QED
      BY <2>1, <2>2, <1>4
  <1>12. QED
    BY <1>5, <1>6, <1>7, <1>8, <1>9, <1>10, <1>11 DEF Operation

LEMMA StepsKeepProved ==
  ASSUME TypeOK, OpsAreOnFile, RowsAreProved, [Next]_vars, NEW p \in Procs, Step(p)
  PROVE  RowsAreProved'
  <1> DEFINE c == op[p].change
             chg == op[p].chg
  <1>0. op[p] \in Ops
    BY DEF TypeOK
  <1>1. \A d \in Changes : changes[d] # None => NowProved(d, changes[d])
    BY RowStaysProved DEF RowsAreProved, Exists
  <1>2. \A q \in Procs : OpNowProved(op[q])
    BY RowStaysProved DEF RowsAreProved, OpNowProved, WithSnapshot
  <1>3. ASSUME NEW o, Continue(p, o), OpNowProved(o) PROVE \A q \in Procs : OpNowProved(op'[q])
    BY <1>2, <1>3 DEF Continue, TypeOK
  <1>4. ASSUME NEW o, changes' = changes, Continue(p, o), OpNowProved(o) PROVE RowsAreProved'
    BY <1>1, <1>3, <1>4, SplitGoal
  <1>5. /\ OpNowProved(Idle)
        /\ \A d : OpNowProved(Gate(d))
        /\ \A d, todo : OpNowProved(Create(d, todo))
        /\ \A d, row, next : NowProved(d, row) => OpNowProved(Save(d, row, next))
    BY DEF OpNowProved, Idle, Gate, Create, Save, WithSnapshot
  <1>6. op[p].step \in WithSnapshot => c \in Changes /\ chg \in ChangeRow /\ NowProved(c, chg)
    BY <1>0, <1>2, OpFields DEF OpNowProved, WithSnapshot
  <1>7. CASE SaveProofObligation(p)
    <2>1. PICK n : Continue(p, IF op[p].todo = {n} THEN Idle ELSE Create(c, op[p].todo \ {n}))
      BY <1>7 DEF SaveProofObligation
    <2>2. changes' = changes
      BY <1>7 DEF SaveProofObligation
    <2>3. QED
      BY <2>1, <2>2, <1>4, <1>5
  <1>8. CASE SaveMeshChange(p)
    <2>1. c \in Changes /\ NowProved(c, chg) /\ changes' = [changes EXCEPT ![c] = chg]
      BY <1>6, <1>8 DEF SaveMeshChange, WithSnapshot
    <2>2. \A d \in Changes : changes'[d] # None => NowProved(d, changes'[d])
      BY <2>1, <1>1 DEF TypeOK
    <2>3. Continue(p, IF op[p].next = "idle" THEN Idle ELSE Gate(c))
      BY <1>8 DEF SaveMeshChange
    <2>4. QED
      BY <2>2, <2>3, <1>3, <1>5, SplitGoal
  <1>9. CASE SaveChangeEvidence(p)
    <2> DEFINE row == [chg EXCEPT !.status = "under_verification"]
    <2>1. NowProved(c, row)
      <3>1. chg \in ChangeRow
        BY <1>6, <1>9 DEF SaveChangeEvidence, WithSnapshot
      <3>2. chg.current \in Trees
        BY <3>1, RowFields
      <3>3. QED
        BY <3>1, <3>2, UnmarkedRow
    <2>2. Continue(p, IF chg.status \in {"prepared", "draft"} THEN Save(c, row, "gate") ELSE Gate(c))
      BY <1>9 DEF SaveChangeEvidence
    <2>3. changes' = changes
      BY <1>9 DEF SaveChangeEvidence
    <2>4. QED
      BY <2>1, <2>2, <2>3, <1>4, <1>5
  <1>10. ASSUME NEW r \in Results, FinishProof(p, r) PROVE RowsAreProved'
    BY <1>4, <1>5, <1>10 DEF FinishProof
  <1>11. CASE GateRead(p)
    <2>1. changes' = changes /\ c \in Changes /\ changes[c] # None /\ Continue(p, ReadForGate(c))
      BY <1>0, <1>11, OpFields DEF GateRead, OpsAreOnFile, Exists, Idle, tables
    <2>2. OpNowProved(ReadForGate(c))
      BY <2>1, <1>1 DEF OpNowProved, ReadForGate
    <2>3. QED
      BY <2>1, <2>2, <1>4
  <1>12. CASE GateRefresh(p)
    <2> DEFINE row == [chg EXCEPT !.current = op[p].tree]
               o == [step |-> "decide", change |-> c, chg |-> row]
    <2>1. c \in Changes /\ chg \in ChangeRow /\ NowProved(c, chg)
      BY <1>6, <1>12 DEF GateRefresh, WithSnapshot
    <2>2. row.status = chg.status /\ row.verified = chg.verified
      BY <2>1 DEF ChangeRow
    <2>3. NowProved(c, row)
      BY <2>1, <2>2 DEF NowProved
    <2>4. changes' = [changes EXCEPT ![c] = row] /\ Continue(p, o)
      BY <1>12 DEF GateRefresh
    <2>5. OpNowProved(o)
      BY <2>3 DEF OpNowProved
    <2>6. \A d \in Changes : changes'[d] # None => NowProved(d, changes'[d])
      BY <2>1, <2>3, <2>4, <1>1 DEF TypeOK
    <2>7. QED
      BY <2>4, <2>5, <2>6, <1>3, SplitGoal
  <1>13. CASE GateDecide(p)
    <2> DEFINE good == [chg EXCEPT !.status = "committable", !.verified = chg.current]
               bad == [chg EXCEPT !.status = "blocked"]
               pass == [change |-> c, tree |-> chg.current, proofs |-> OnFile(c)]
    <2>1. c \in Changes /\ chg \in ChangeRow /\ changes' = changes /\ evidence' = evidence
      BY <1>6, <1>13 DEF GateDecide, WithSnapshot
    <2>2. CASE /\ Committable(c, chg.current)
               /\ passes' = passes \cup {pass}
               /\ Continue(p, Save(c, good, "idle"))
      <3>1. pass \in passes' /\ pass.proofs # {}
        BY <2>2 DEF Committable
      <3>2. ASSUME NEW n \in OnFile(c)
            PROVE  \E e \in evidence : /\ e.change = c /\ e.obl = <<c, n>>
                                        /\ e.tree = chg.current /\ e.result = "passed"
        <4> DEFINE results == {e.result : e \in Counted(c, n, chg.current)}
        <4>1. Verdict(c, n, chg.current) = "passed"
          BY <2>2, <3>2 DEF Committable
        <4>2. "passed" \in results
          BY <4>1 DEF Verdict
        <4>3. QED
          BY <4>2 DEF Counted, TypeOK
      <3>3. ProvedBy(passes', evidence', c, chg.current)
        BY <2>1, <3>1, <3>2 DEF ProvedBy
      <3>4. good.verified = chg.current
        BY <2>1 DEF ChangeRow
      <3>5. NowProved(c, good)
        BY <3>3, <3>4 DEF NowProved
      <3>6. QED
        BY <2>1, <2>2, <3>5, <1>4, <1>5
    <2>3. CASE Continue(p, IF chg.status \in {"committable", "verified"}
                           THEN Save(c, bad, "idle") ELSE Idle)
      <3>1. chg.current \in Trees
        BY <2>1, RowFields
      <3>2. NowProved(c, bad)
        BY <2>1, <3>1, UnmarkedRow
      <3>3. QED
        BY <2>1, <2>3, <3>2, <1>4, <1>5
    <2>4. QED
      BY <1>13, <2>2, <2>3 DEF GateDecide
  <1>14. CASE GitCommit(p)
    <2> DEFINE row == [chg EXCEPT !.status = "committed"]
    <2>1. chg \in ChangeRow /\ NowProved(c, chg)
      BY <1>6, <1>14 DEF GitCommit, WithSnapshot
    <2>2. chg.status \in {"verified", "committable"}
      BY <1>2, <1>14 DEF GitCommit, OpNowProved
    <2>3. row.verified = chg.verified
      BY <2>1 DEF ChangeRow
    <2>4. NowProved(c, row)
      BY <2>1, <2>2, <2>3 DEF NowProved
    <2>5. changes' = changes /\ Continue(p, Save(c, row, "idle"))
      BY <1>14 DEF GitCommit, tables
    <2>6. QED
      BY <2>4, <2>5, <1>4, <1>5
  <1>15. QED
    BY <1>7, <1>8, <1>9, <1>10, <1>11, <1>12, <1>13, <1>14 DEF Step

LEMMA ProvedStep ==
  ASSUME TypeOK, OpsAreOnFile, RowsAreProved, [Next]_vars
  PROVE  RowsAreProved'
  <1>1. \A c \in Changes : changes[c] # None => NowProved(c, changes[c])
    BY RowStaysProved DEF RowsAreProved, Exists
  <1>2. \A q \in Procs : OpNowProved(op[q])
    BY RowStaysProved DEF RowsAreProved, OpNowProved, WithSnapshot
  <1>3. CASE changes' = changes /\ op' = op
    BY <1>1, <1>2, <1>3, SplitGoal
  <1>4. ASSUME NEW p \in Procs, Crash(p) PROVE RowsAreProved'
    <2>1. OpNowProved(Idle)
      BY DEF OpNowProved, Idle, WithSnapshot
    <2>2. \A q \in Procs : OpNowProved(op'[q])
      BY <1>2, <1>4, <2>1 DEF Crash, Continue, TypeOK
    <2>3. changes' = changes
      BY <1>4 DEF Crash, tables
    <2>4. QED
      BY <1>1, <2>2, <2>3, SplitGoal
  <1>5. QED
    BY <1>3, <1>4, OperationsKeepProved, StepsKeepProved DEF Next, vars, Edit, tables

(***************************************************************************)
(* With any number of processes interleaving the steps of their operations *)
(* and dying between them, a change is only marked committable or          *)
(* committed, and git commit only starts, for a tree at which a gate found *)
(* every obligation on file passed (evaluateGateLocked, CommitChange).     *)
(***************************************************************************)
THEOREM OnlyProvedIsCommitted == Spec => []ProvedBeforeCommit
  <1>1. Init => TypeOK /\ OpsAreOnFile /\ RowsAreProved
    BY ConstantsAssumption
    DEF Init, TypeOK, Ops, Idle, ObligationStatuses, OpsAreOnFile, RowsAreProved, Exists
  <1>2. TypeOK /\ OpsAreOnFile /\ RowsAreProved /\ [Next]_vars
          => TypeOK' /\ OpsAreOnFile' /\ RowsAreProved'
    BY TypeStep, OnFileStep, ProvedStep
  <1>3. RowsAreProved => ProvedBeforeCommit
    BY DEF RowsAreProved, RowProved, ProvedBeforeCommit
  <1>4. QED
    BY <1>1, <1>2, <1>3, PTL DEF Spec

-------------------------------------------------------------------------------
(* One process whose operations finish.  Between the steps of an operation   *)
(* nothing but the worktree changes, so what the operation has read is what  *)
(* is on file; a change that is committable stays backed by its evidence     *)
(* until an operation that adds or drops evidence of it has decided anew.    *)

BackedBy(rows, c, chg) ==
  \A n \in chg.policy :
    LET results == {e.result : e \in {f \in rows : /\ f.change = c /\ f.obl = <<c, n>>
                                                  /\ f.tree = chg.verified}}
    IN  results = {"passed"}

(* The operation holds the row that is on file, and evidence for its change. *)
OpAsRead(p) ==
  /\ op[p].step \in {"submit", "refresh", "decide", "git"} => op[p].chg = changes[op[p].change]
  /\ op[p].step = "save" => op[p].chg.policy = changes[op[p].change].policy
  /\ op[p].step = "create" => changes[op[p].change].status = "draft"
  /\ op[p].step = "submit" => op[p].row.change = op[p].change

(* What the policy locked is on file, or still to be written by CreateChange. *)
PolicyOnFile(p, c) ==
  \A n \in changes[c].policy :
    n \in OnFile(c) \/ (op[p].step = "create" /\ op[p].change = c /\ n \in op[p].todo)

NeverVerified(p, c) ==
  /\ changes[c].status # "verified"
  /\ op[p].step = "save" => op[p].chg.status # "verified"

(* The obligations of c are passed, or evidence for another change has or will *)
(* set the status of one that is not.                                          *)
Shown(p, c) ==
  \A n \in Proofs : obligations[<<c, n>>] \notin {"absent", "passed"} =>
    NamedElsewhere(c, n) \/ (op[p].step = "proof" /\ op[p].obl = <<c, n>>)

Unsettled(p, c) ==
  op[p].step \in {"proof", "gate", "refresh", "decide", "save"} /\ op[p].change = c

RowSound(p, c) ==
  changes[c].status = "committable" /\ ~ Unsettled(p, c)
    => changes[c].current = changes[c].verified /\ BackedBy(valid, c, changes[c]) /\ Shown(p, c)

SaveSound(p) ==
  /\ op[p].step = "git" => op[p].chg.status = "committable"
  /\ op[p].step = "save" /\ op[p].chg.status = "committable"
       => /\ op[p].chg.current = op[p].chg.verified
          /\ BackedBy(valid, op[p].change, op[p].chg) /\ Shown(p, op[p].change)
  /\ op[p].step = "save" /\ op[p].chg.status = "committed"
       => BackedBy(valid, op[p].change, op[p].chg)

RowsHold(p) ==
  \A c \in Changes : Exists(c) => PolicyOnFile(p, c) /\ NeverVerified(p, c) /\ RowSound(p, c)

Serial(p) == OpAsRead(p) /\ RowsHold(p) /\ SaveSound(p)

(* Which evidence backs a change is a matter of its own rows. *)
LEMMA BackedByOwnRows ==
  ASSUME NEW rows, NEW rows2, NEW c, \A e : e.change = c => (e \in rows <=> e \in rows2),
         NEW r, NEW s, r.policy = s.policy, r.verified = s.verified, BackedBy(rows, c, r)
  PROVE  BackedBy(rows2, c, s)
  <1>1. ASSUME NEW n \in s.policy
        PROVE  {f \in rows : f.change = c /\ f.obl = <<c, n>> /\ f.tree = r.verified}
                 = {f \in rows2 : f.change = c /\ f.obl = <<c, n>> /\ f.tree = s.verified}
    OBVIOUS
  <1>2. QED
    BY <1>1 DEF BackedBy

(* A change the step leaves alone. *)
LEMMA ChangeKept ==
  ASSUME NEW p, NEW c, PolicyOnFile(p, c), NeverVerified(p, c), RowSound(p, c),
         changes'[c] = changes[c],
         \A n \in OnFile(c) : n \in OnFile(c)',
         op[p].step = "create" /\ op[p].change = c
           => \A n \in op[p].todo : n \in OnFile(c)' \/ (op'[p].step = "create" /\ op'[p].change = c /\ n \in op'[p].todo),
         op'[p].step = "save" => op'[p].chg.status # "verified",
         ~ Unsettled(p, c)' /\ changes[c].status = "committable"
           => /\ ~ Unsettled(p, c)
              /\ \A e : e.change = c => (e \in valid <=> e \in valid')
              /\ Shown(p, c) => Shown(p, c)'
  PROVE  PolicyOnFile(p, c)' /\ NeverVerified(p, c)' /\ RowSound(p, c)'
  <1>1. PolicyOnFile(p, c)'
    BY DEF PolicyOnFile
  <1>2. NeverVerified(p, c)'
    BY DEF NeverVerified
  <1>3. ASSUME changes[c].status = "committable", ~ Unsettled(p, c)'
        PROVE  changes[c].current = changes[c].verified /\ BackedBy(valid', c, changes[c]) /\ Shown(p, c)'
    <2>1. BackedBy(valid, c, changes[c]) /\ Shown(p, c) /\ changes[c].current = changes[c].verified
      BY <1>3 DEF RowSound
    <2>2. BackedBy(valid', c, changes[c])
      BY <1>3, <2>1, BackedByOwnRows
    <2>3. QED
      BY <1>3, <2>1, <2>2
  <1>4. RowSound(p, c)'
    BY <1>3 DEF RowSound, BackedBy
  <1>5. QED
    BY <1>1, <1>2, <1>4

(* The tables stay as they are and the operation moves on. *)
LEMMA TablesKept ==
  ASSUME NEW p \in Procs, Serial(p), UNCHANGED tables,
         op[p].step \notin {"create", "proof"},
         op'[p].step \in {"save", "git"} => op'[p].chg.status # "verified",
         \A c \in Changes : ~ Unsettled(p, c)' => ~ Unsettled(p, c)
  PROVE  RowsHold(p)'
  <1> SUFFICES ASSUME NEW c \in Changes, Exists(c)'
               PROVE  PolicyOnFile(p, c)' /\ NeverVerified(p, c)' /\ RowSound(p, c)'
    BY DEF RowsHold
  <1>1. PolicyOnFile(p, c) /\ NeverVerified(p, c) /\ RowSound(p, c)
    BY DEF Serial, RowsHold, Exists, tables
  <1>2. OnFile(c)' = OnFile(c) /\ changes'[c] = changes[c] /\ valid' = valid
    BY DEF OnFile, tables
  <1>3. Shown(p, c) => Shown(p, c)'
    BY DEF Shown, NamedElsewhere, tables
  <1>4. QED
    BY <1>1, <1>2, <1>3, ChangeKept

LEMMA OperationsSerial ==
  ASSUME TypeOK, OpsAreOnFile, NEW p \in Procs, Procs = {p}, Serial(p), Operation(p)
  PROVE  Serial(p)'
  <1>1. op[p] = Idle /\ op[p].step = "idle"
    <2>1. ASSUME NEW c \in Changes, NEW a, CreateChange(p, c, a) PROVE op[p] = Idle
      BY <2>1 DEF CreateChange, Begin
    <2>2. ASSUME NEW c \in Changes, NEW a, PrepareChange(p, c, a) \/ AbortChange(p, c, a)
          PROVE  op[p] = Idle
      BY <2>2 DEF PrepareChange, AbortChange, Begin
    <2>3. ASSUME NEW c \in Changes, NEW a, CommitChange(p, c, a) PROVE op[p] = Idle
      BY <2>3 DEF CommitChange, Begin
    <2>4. ASSUME NEW c \in Changes, NEW obl, NEW s, NEW k, NEW r, SubmitEvidence(p, c, obl, s, k, r)
          PROVE  op[p] = Idle
      BY <2>4 DEF SubmitEvidence, Begin
    <2>5. ASSUME NEW c \in Changes, NEW obl, ExecuteProof(p, c, obl) PROVE op[p] = Idle
      BY <2>5 DEF ExecuteProof, Begin
    <2>6. ASSUME NEW c \in Changes, EvaluateGate(p, c) PROVE op[p] = Idle
      BY <2>6 DEF EvaluateGate, Begin
    <2>7. op[p] = Idle
      BY <2>1, <2>2, <2>3, <2>4, <2>5, <2>6 DEF Operation
    <2>8. QED
      BY <2>7 DEF Idle
  <1>2. \A o : Begin(p, o) => op'[p] = o
    BY DEF Begin, TypeOK
  <1>3. ASSUME NEW c \in Changes, changes[c] # None
        PROVE  /\ changes[c] \in ChangeRow /\ changes[c].status # "verified"
               /\ changes[c].status \in Statuses /\ worktree \in Trees
    BY <1>3, RowFields DEF TypeOK, Serial, RowsHold, Exists, NeverVerified
  <1>4. ASSUME NEW c \in Changes, NEW a \in Participants, CreateChange(p, c, a) PROVE Serial(p)'
    <2>1. /\ changes'[c] # None /\ changes'[c].status = "draft"
          /\ \A d \in Changes \ {c} : changes'[d] = changes[d]
      BY <1>4, CreateStores
    <2>2. op'[p] = Create(c, changes'[c].policy)
      BY <1>2, <1>4 DEF CreateChange, TypeOK
    <2>3. UNCHANGED <<obligations, evidence, valid>>
      BY <1>4 DEF CreateChange
    <2>4. ASSUME NEW d \in Changes, Exists(d)'
          PROVE  PolicyOnFile(p, d)' /\ NeverVerified(p, d)' /\ RowSound(p, d)'
      <3>1. CASE d = c
        BY <2>1, <2>2, <3>1 DEF PolicyOnFile, NeverVerified, RowSound, Create
      <3>2. CASE d # c
        <4>1. PolicyOnFile(p, d) /\ NeverVerified(p, d) /\ RowSound(p, d) /\ changes'[d] = changes[d]
          BY <2>1, <2>4, <3>2 DEF Serial, RowsHold, Exists
        <4>2. OnFile(d)' = OnFile(d)
          BY <2>3 DEF OnFile
        <4>3. Shown(p, d) => Shown(p, d)'
          BY <1>1, <2>3 DEF Shown, NamedElsewhere
        <4>4. QED
          BY <1>1, <2>2, <2>3, <4>1, <4>2, <4>3, ChangeKept DEF Create, Unsettled
      <3>3. QED
        BY <3>1, <3>2
    <2>5. OpAsRead(p)' /\ SaveSound(p)'
      BY <2>1, <2>2 DEF OpAsRead, SaveSound, Create
    <2>6. QED
      BY <2>4, <2>5 DEF Serial, RowsHold
  <1>5. ASSUME NEW o, Begin(p, o), UNCHANGED tables, OpAsRead(p)', SaveSound(p)',
               o.step \in {"save", "git"} => o.chg.status # "verified"
        PROVE  Serial(p)'
    <2>1. op'[p] = o
      BY <1>2, <1>5
    <2>2. RowsHold(p)'
      BY <1>1, <1>5, <2>1, TablesKept DEF Unsettled
    <2>3. QED
      BY <1>5, <2>2 DEF Serial
  <1>6. ASSUME NEW c \in Changes, NEW a \in Callers, PrepareChange(p, c, a) PROVE Serial(p)'
    <2> DEFINE row == [changes[c] EXCEPT !.status = "prepared", !.current = worktree]
    <2>1. changes[c] \in ChangeRow
      BY <1>3, <1>6 DEF PrepareChange
    <2>2. row.status = "prepared" /\ row.policy = changes[c].policy
      BY <2>1 DEF ChangeRow
    <2>3. UNCHANGED tables /\ Begin(p, Save(c, row, "idle"))
      BY <1>6 DEF PrepareChange
    <2> HIDE DEF row
    <2>4. op'[p] = Save(c, row, "idle")
      BY <1>2, <2>3
    <2>5. OpAsRead(p)' /\ SaveSound(p)'
      BY <2>2, <2>3, <2>4 DEF OpAsRead, SaveSound, Save, tables
    <2>6. QED
      BY <1>5, <2>2, <2>3, <2>5 DEF Save
  <1>7. ASSUME NEW c \in Changes, NEW a \in Callers, AbortChange(p, c, a) PROVE Serial(p)'
    <2> DEFINE row == [changes[c] EXCEPT !.status = "aborted"]
    <2>1. changes[c] \in ChangeRow
      BY <1>3, <1>7 DEF AbortChange
    <2>2. row.status = "aborted" /\ row.policy = changes[c].policy
      BY <2>1 DEF ChangeRow
    <2>3. UNCHANGED tables /\ Begin(p, Save(c, row, "idle"))
      BY <1>7 DEF AbortChange
    <2> HIDE DEF row
    <2>4. op'[p] = Save(c, row, "idle")
      BY <1>2, <2>3
    <2>5. OpAsRead(p)' /\ SaveSound(p)'
      BY <2>2, <2>3, <2>4 DEF OpAsRead, SaveSound, Save, tables
    <2>6. QED
      BY <1>5, <2>2, <2>3, <2>5 DEF Save
  <1>8. ASSUME NEW c \in Changes, NEW a \in Callers, CommitChange(p, c, a) PROVE Serial(p)'
    <2> DEFINE o == [step |-> "git", change |-> c, chg |-> changes[c]]
    <2>1. changes[c].status = "committable"
      BY <1>3, <1>8 DEF CommitChange
    <2>2. UNCHANGED tables /\ Begin(p, o)
      BY <1>8 DEF CommitChange
    <2>3. op'[p] = o
      BY <1>2, <2>2
    <2>4. OpAsRead(p)' /\ SaveSound(p)'
      BY <2>1, <2>2, <2>3 DEF OpAsRead, SaveSound, tables
    <2>5. QED
      BY <1>5, <2>1, <2>2, <2>4
  <1>9. ASSUME NEW c \in Changes, NEW obl \in Obligations, NEW s \in Participants,
               NEW k \in {"review", "other"}, NEW r \in Results,
               SubmitEvidence(p, c, obl, s, k, r)
        PROVE Serial(p)'
    <2> DEFINE row == [change |-> c, obl |-> obl, tree |-> worktree, source |-> s, result |-> r]
               o == [step |-> "submit", change |-> c, chg |-> changes[c], row |-> row]
    <2>1. UNCHANGED tables /\ Begin(p, o)
      BY <1>9 DEF SubmitEvidence
    <2>2. op'[p] = o
      BY <1>2, <2>1
    <2>3. OpAsRead(p)' /\ SaveSound(p)'
      BY <2>1, <2>2 DEF OpAsRead, SaveSound, tables
    <2>4. QED
      BY <1>5, <2>1, <2>3
  <1>10. ASSUME NEW c \in Changes, EvaluateGate(p, c) PROVE Serial(p)'
    <2>1. UNCHANGED tables /\ Begin(p, ReadForGate(c))
      BY <1>10 DEF EvaluateGate
    <2>2. op'[p] = ReadForGate(c)
      BY <1>2, <2>1
    <2>3. OpAsRead(p)' /\ SaveSound(p)'
      BY <2>1, <2>2 DEF OpAsRead, SaveSound, ReadForGate, tables
    <2>4. QED
      BY <1>5, <2>1, <2>3 DEF ReadForGate
  <1>11. ASSUME NEW c \in Changes, NEW obl \in Obligations, ExecuteProof(p, c, obl) PROVE Serial(p)'
    <2>1. op'[p] = [step |-> "proof", change |-> c, obl |-> obl, tree |-> worktree]
      BY <1>2, <1>11 DEF ExecuteProof
    <2>2. /\ obligations[obl] # "absent" /\ obligations' = [obligations EXCEPT ![obl] = "running"]
          /\ UNCHANGED <<changes, evidence, valid>>
      BY <1>11 DEF ExecuteProof
    <2>3. ASSUME NEW d \in Changes, Exists(d)'
          PROVE  PolicyOnFile(p, d)' /\ NeverVerified(p, d)' /\ RowSound(p, d)'
      <3>1. PolicyOnFile(p, d) /\ NeverVerified(p, d) /\ RowSound(p, d)
        BY <2>2, <2>3 DEF Serial, RowsHold, Exists
      <3>2. \A n \in OnFile(d) : n \in OnFile(d)'
        BY <2>2 DEF OnFile, TypeOK, Obligations
      <3>3. Shown(p, d) => Shown(p, d)'
        <4> SUFFICES ASSUME Shown(p, d), NEW n \in Proofs, obligations'[<<d, n>>] \notin {"absent", "passed"}
                     PROVE  NamedElsewhere(d, n)' \/ (op'[p].step = "proof" /\ op'[p].obl = <<d, n>>)
          BY DEF Shown
        <4>1. CASE obl = <<d, n>>
          BY <2>1, <4>1
        <4>2. CASE obl # <<d, n>>
          <5>1. obligations'[<<d, n>>] = obligations[<<d, n>>]
            BY <2>2, <4>2 DEF TypeOK, Obligations
          <5>2. QED
            BY <1>1, <2>2, <5>1 DEF Shown, NamedElsewhere
        <4>3. QED
          BY <4>1, <4>2
      <3>4. QED
        BY <1>1, <2>1, <2>2, <3>1, <3>2, <3>3, ChangeKept DEF Unsettled
    <2>4. OpAsRead(p)' /\ SaveSound(p)'
      BY <2>1 DEF OpAsRead, SaveSound
    <2>5. QED
      BY <2>3, <2>4 DEF Serial, RowsHold
  <1>12. QED
    BY <1>4, <1>6, <1>7, <1>8, <1>9, <1>10, <1>11 DEF Operation

(* Evidence that is recorded leaves the other changes sound: where it names one *)
(* of their obligations it is evidence for another change.                      *)
LEMMA RecordKeepsOthers ==
  ASSUME TypeOK, NEW p, NEW row \in EvidenceRow, RecordEvidence(row), NEW d \in Changes, d # row.change
  PROVE  /\ \A n \in OnFile(d) : n \in OnFile(d)'
         /\ \A e : e.change = d => (e \in valid <=> e \in valid')
         /\ (op[p].step = "proof" => op[p].obl = row.obl) /\ Shown(p, d) => Shown(p, d)'
  <1>1. row.result \in {"passed", "failed"} /\ row.obl \in Obligations
    BY DEF EvidenceRow, Results
  <1>2. \A o \in Obligations : obligations'[o] = IF o = row.obl /\ obligations[o] # "absent"
                                             THEN row.result ELSE obligations[o]
    BY <1>1 DEF RecordEvidence, TypeOK
  <1>3. \A n \in OnFile(d) : n \in OnFile(d)'
    BY <1>1, <1>2 DEF OnFile, Obligations
  <1>4. valid' = valid \cup {row} /\ evidence' = evidence \cup {row}
    BY DEF RecordEvidence
  <1>5. ASSUME op[p].step = "proof" => op[p].obl = row.obl, Shown(p, d), NEW n \in Proofs,
               obligations'[<<d, n>>] \notin {"absent", "passed"}
        PROVE  NamedElsewhere(d, n)'
    <2>1. <<d, n>> \in Obligations
      BY DEF Obligations
    <2>2. CASE row.obl = <<d, n>>
      BY <1>4, <2>2 DEF NamedElsewhere
    <2>3. CASE row.obl # <<d, n>>
      <3>1. obligations'[<<d, n>>] = obligations[<<d, n>>]
        BY <1>2, <2>1, <2>3
      <3>2. NamedElsewhere(d, n)
        BY <1>5, <2>3, <3>1 DEF Shown
      <3>3. QED
        BY <1>4, <3>2 DEF NamedElsewhere
    <2>4. QED
      BY <2>2, <2>3
  <1>6. (op[p].step = "proof" => op[p].obl = row.obl) /\ Shown(p, d) => Shown(p, d)'
    BY <1>5 DEF Shown
  <1>7. QED
    BY <1>3, <1>4, <1>6

(* A gate that finds a change committable has a valid pass for each obligation. *)
LEMMA VerdictsBack ==
  ASSUME TypeOK, NEW c \in Changes, NEW r \in ChangeRow, Committable(c, r.current), NEW s,
         s.policy \subseteq OnFile(c), s.verified = r.current
  PROVE  BackedBy(valid, c, s)
  <1> SUFFICES ASSUME NEW n \in s.policy
               PROVE  {e.result : e \in {f \in valid : f.change = c /\ f.obl = <<c, n>> /\ f.tree = s.verified}}
                        = {"passed"}
    BY DEF BackedBy
  <1> DEFINE results == {e.result : e \in Counted(c, n, r.current)}
  <1>1. Verdict(c, n, r.current) = "passed"
    BY DEF Committable
  <1>2. "passed" \in results /\ "failed" \notin results
    BY <1>1 DEF Verdict
  <1>3. results \subseteq {"passed", "failed"}
    BY DEF Counted, TypeOK, EvidenceRow, Results
  <1>4. results = {"passed"}
    BY <1>2, <1>3
  <1>5. QED
    BY <1>4 DEF Counted

LEMMA StepsSerial ==
  ASSUME TypeOK, OpsAreOnFile, NEW p \in Procs, Procs = {p}, Serial(p), Step(p),
         NEW c, c = op[p].change, NEW chg, chg = op[p].chg
  PROVE  Serial(p)'
  <1>1. op[p] \in Ops
    BY DEF TypeOK
  <1>2. \A o : Continue(p, o) => op'[p] = o
    BY DEF Continue, TypeOK
  <1>3. op[p].step # "idle" => c \in Changes /\ changes[c] # None /\ changes[c] \in ChangeRow
    BY <1>1, OpFields DEF TypeOK, OpsAreOnFile, Exists, Idle
  <1>4. op[p].step \in WithSnapshot => chg \in ChangeRow /\ chg.status \in Statuses
    BY <1>1, OpFields, RowFields
  <1>5. \A d \in Changes : Exists(d) => PolicyOnFile(p, d) /\ NeverVerified(p, d) /\ RowSound(p, d)
    BY DEF Serial, RowsHold
  <1>6. ASSUME op[p].step # "idle"
        PROVE  /\ PolicyOnFile(p, c) /\ NeverVerified(p, c) /\ RowSound(p, c)
               /\ changes[c].status # "verified" /\ changes[c].status \in Statuses
    BY <1>3, <1>5, <1>6, RowFields DEF Exists, NeverVerified
  <1>7. CASE SaveProofObligation(p)
    <2>1. PICK n \in op[p].todo :
            /\ obligations' = [obligations EXCEPT ![<<c, n>>] = "pending"]
            /\ Continue(p, IF op[p].todo = {n} THEN Idle ELSE Create(c, op[p].todo \ {n}))
      BY <1>7 DEF SaveProofObligation
    <2>2. op[p].step = "create" /\ UNCHANGED <<changes, evidence, valid>> /\ n \in Proofs /\ c \in Changes
      BY <1>1, <1>7, <2>1, OpFields DEF SaveProofObligation
    <2>3. op'[p] = IF op[p].todo = {n} THEN Idle ELSE Create(c, op[p].todo \ {n})
      BY <1>2, <2>1
    <2>4. changes[c].status = "draft"
      BY <2>2 DEF Serial, OpAsRead
    <2>5. \A o \in Obligations : obligations'[o] = IF o = <<c, n>> THEN "pending" ELSE obligations[o]
      BY <2>1 DEF TypeOK
    <2>6. ASSUME NEW d \in Changes, Exists(d)'
          PROVE  PolicyOnFile(p, d)' /\ NeverVerified(p, d)' /\ RowSound(p, d)'
      <3>1. PolicyOnFile(p, d) /\ NeverVerified(p, d) /\ RowSound(p, d)
        BY <1>5, <2>2, <2>6 DEF Exists
      <3>2. \A m \in OnFile(d) : m \in OnFile(d)'
        BY <2>5 DEF OnFile, Obligations
      <3>3. n \in OnFile(c)'
        BY <2>2, <2>5 DEF OnFile, Obligations
      <3>4. c = d => \A m \in op[p].todo :
              m \in OnFile(d)' \/ (op'[p].step = "create" /\ op'[p].change = d /\ m \in op'[p].todo)
        BY <2>3, <3>3 DEF Create
      <3>5. op'[p].step \in {"idle", "create"}
        BY <2>3 DEF Create, Idle
      <3>6. d # c => (Shown(p, d) => Shown(p, d)')
        BY <2>2, <2>5 DEF Shown, NamedElsewhere, Obligations
      <3>7. QED
        BY <2>2, <2>4, <3>1, <3>2, <3>4, <3>5, <3>6, ChangeKept DEF Unsettled
    <2>7. OpAsRead(p)' /\ SaveSound(p)'
      BY <2>2, <2>3, <2>4 DEF OpAsRead, SaveSound, Create, Idle
    <2>8. QED
      BY <2>6, <2>7 DEF Serial, RowsHold
  <1>8. CASE SaveMeshChange(p)
    <2>1. /\ op[p].step = "save" /\ c \in Changes /\ chg \in ChangeRow
          /\ changes' = [changes EXCEPT ![c] = chg] /\ UNCHANGED <<obligations, evidence, valid>>
      BY <1>3, <1>4, <1>8 DEF SaveMeshChange, WithSnapshot
    <2>2. op'[p] = Idle \/ op'[p] = Gate(c)
      BY <1>2, <1>8 DEF SaveMeshChange
    <2>3. op'[p].step \in {"idle", "gate"}
      BY <2>2 DEF Idle, Gate
    <2>4. changes'[c] = chg /\ \A d \in Changes \ {c} : changes'[d] = changes[d]
      BY <2>1 DEF TypeOK
    <2>5. \A d \in Changes : OnFile(d)' = OnFile(d) /\ (Shown(p, d) => Shown(p, d)')
      BY <2>1 DEF OnFile, Shown, NamedElsewhere
    <2>6. ASSUME NEW d \in Changes, Exists(d)'
          PROVE  PolicyOnFile(p, d)' /\ NeverVerified(p, d)' /\ RowSound(p, d)'
      <3>1. CASE d = c
        <4>1. PolicyOnFile(p, c)'
          <5>1. chg.policy = changes[c].policy /\ PolicyOnFile(p, c)
            BY <1>6, <2>1 DEF Serial, OpAsRead
          <5>2. QED
            BY <2>1, <2>4, <2>5, <5>1 DEF PolicyOnFile
        <4>2. NeverVerified(p, c)'
          BY <1>6, <2>1, <2>3, <2>4 DEF NeverVerified
        <4>3. RowSound(p, c)'
          <5>1. chg.status = "committable"
                  => chg.current = chg.verified /\ BackedBy(valid, c, chg) /\ Shown(p, c)
            BY <2>1 DEF Serial, SaveSound
          <5>2. chg.status = "committable"
                  => chg.current = chg.verified /\ BackedBy(valid', c, chg) /\ Shown(p, c)'
            BY <2>1, <2>5, <5>1
          <5>3. QED
            BY <2>4, <5>2 DEF RowSound, BackedBy
        <4>4. QED
          BY <3>1, <4>1, <4>2, <4>3
      <3>2. CASE d # c
        <4>1. PolicyOnFile(p, d) /\ NeverVerified(p, d) /\ RowSound(p, d) /\ changes'[d] = changes[d]
          BY <1>5, <2>4, <2>6, <3>2 DEF Exists
        <4>2. QED
          BY <2>1, <2>3, <2>5, <3>2, <4>1, ChangeKept DEF Unsettled
      <3>3. QED
        BY <3>1, <3>2
    <2>7. OpAsRead(p)' /\ SaveSound(p)'
      BY <2>3 DEF OpAsRead, SaveSound
    <2>8. QED
      BY <2>6, <2>7 DEF Serial, RowsHold
  <1>9. ASSUME NEW row \in EvidenceRow, RecordEvidence(row), row.change = c, changes' = changes,
               op[p].step \in {"submit", "proof"}, op[p].step = "proof" => op[p].obl = row.obl,
               op'[p].step \in {"save", "gate"}, op'[p].change = c,
               op'[p].step = "save" => op'[p].chg.status # "verified"
        PROVE  RowsHold(p)'
    <2>1. ASSUME NEW d \in Changes, Exists(d)'
          PROVE  PolicyOnFile(p, d)' /\ NeverVerified(p, d)' /\ RowSound(p, d)'
      <3>1. PolicyOnFile(p, d) /\ NeverVerified(p, d) /\ RowSound(p, d)
        BY <1>5, <1>9, <2>1 DEF Exists
      <3>2. CASE d # c
        <4>1. /\ \A n \in OnFile(d) : n \in OnFile(d)'
              /\ \A e : e.change = d => (e \in valid <=> e \in valid')
              /\ Shown(p, d) => Shown(p, d)'
          BY <1>9, <3>2, RecordKeepsOthers
        <4>2. QED
          BY <1>9, <3>1, <3>2, <4>1, ChangeKept DEF Unsettled
      <3>3. CASE d = c
        <4>1. \A n \in OnFile(d) : n \in OnFile(d)'
          <5>1. row.result # "absent" /\ row.obl \in Obligations
            BY DEF EvidenceRow, Results
          <5>2. QED
            BY <1>9, <5>1 DEF OnFile, RecordEvidence, TypeOK, Obligations
        <4>2. Unsettled(p, d)'
          BY <1>9, <3>3 DEF Unsettled
        <4>3. QED
          BY <1>9, <3>1, <4>1, <4>2, ChangeKept
      <3>4. QED
        BY <3>2, <3>3
    <2>2. QED
      BY <2>1 DEF RowsHold
  <1>10. CASE SaveChangeEvidence(p)
    <2> DEFINE new == [chg EXCEPT !.status = "under_verification"]
    <2>1. /\ op[p].step = "submit" /\ op[p].row \in EvidenceRow /\ RecordEvidence(op[p].row)
          /\ op[p].row.change = c /\ chg = changes[c] /\ chg \in ChangeRow /\ changes' = changes
      BY <1>1, <1>4, <1>10, OpFields DEF SaveChangeEvidence, WithSnapshot, Serial, OpAsRead
    <2>2. new.status = "under_verification" /\ new.policy = changes[c].policy
      BY <2>1 DEF ChangeRow
    <2> HIDE DEF new
    <2>3. op'[p] = Save(c, new, "gate") \/ op'[p] = Gate(c)
      BY <1>2, <1>10 DEF SaveChangeEvidence, new
    <2>4. /\ op'[p].step \in {"save", "gate"} /\ op'[p].change = c
          /\ op'[p].step = "save" => op'[p].chg = new
      BY <2>3 DEF Save, Gate
    <2>5. RowsHold(p)'
      BY <1>9, <2>1, <2>2, <2>4
    <2>6. OpAsRead(p)' /\ SaveSound(p)'
      BY <2>1, <2>2, <2>4 DEF OpAsRead, SaveSound
    <2>7. QED
      BY <2>5, <2>6 DEF Serial
  <1>11. ASSUME NEW r \in Results, FinishProof(p, r) PROVE Serial(p)'
    <2> DEFINE row == [change |-> c, obl |-> op[p].obl, tree |-> op[p].tree,
                       source |-> Harness, result |-> r]
    <2>1. op[p].step = "proof" /\ RecordEvidence(row) /\ changes' = changes
      BY <1>11 DEF FinishProof
    <2>2. row \in EvidenceRow
      BY <1>1, <2>1, OpFields DEF EvidenceRow
    <2>3. op'[p] = Gate(c)
      BY <1>2, <1>11 DEF FinishProof
    <2>4. RowsHold(p)'
      <3>1. row.change = c /\ row.obl = op[p].obl
        OBVIOUS
      <3>2. op'[p].step = "gate" /\ op'[p].change = c
        BY <2>3 DEF Gate
      <3> HIDE DEF row
      <3>3. QED
        BY <1>9, <2>1, <2>2, <3>1, <3>2
    <2>5. OpAsRead(p)' /\ SaveSound(p)'
      BY <2>3 DEF OpAsRead, SaveSound, Gate
    <2>6. QED
      BY <2>4, <2>5 DEF Serial
  <1>12. CASE GateRead(p)
    <2>1. UNCHANGED tables /\ op'[p] = ReadForGate(c) /\ op[p].step = "gate"
      BY <1>2, <1>12 DEF GateRead
    <2>2. op'[p].step \in {"refresh", "decide"} /\ op'[p].change = c /\ op'[p].chg = changes[c]
      BY <2>1 DEF ReadForGate
    <2>3. RowsHold(p)'
      BY <2>1, <2>2, TablesKept DEF Unsettled
    <2>4. OpAsRead(p)' /\ SaveSound(p)'
      BY <2>1, <2>2 DEF OpAsRead, SaveSound, tables
    <2>5. QED
      BY <2>3, <2>4 DEF Serial
  <1>13. CASE GateRefresh(p)
    <2> DEFINE new == [chg EXCEPT !.current = op[p].tree]
               dropped == Invalidated(c, Diff(chg.current, op[p].tree))
    <2>1. /\ op[p].step = "refresh" /\ c \in Changes /\ chg = changes[c] /\ chg \in ChangeRow
          /\ evidence' = evidence
      BY <1>3, <1>4, <1>13 DEF GateRefresh, WithSnapshot, Serial, OpAsRead
    <2>2. new.status = chg.status /\ new.policy = chg.policy
      BY <2>1 DEF ChangeRow
    <2>3. op'[p] = [step |-> "decide", change |-> c, chg |-> new]
      BY <1>2, <1>13 DEF GateRefresh
    <2>4. changes'[c] = new /\ \A d \in Changes \ {c} : changes'[d] = changes[d]
      BY <1>13, <2>1 DEF GateRefresh, TypeOK
    <2>5. /\ valid' = valid \ dropped
          /\ \A o \in Obligations : obligations'[o] =
               IF obligations[o] # "absent" /\ \E e \in dropped : e.obl = o THEN "stale" ELSE obligations[o]
      BY <1>13 DEF GateRefresh
    <2>6. \A e \in dropped : e \in evidence /\ e.change = c
      BY DEF Invalidated, TypeOK
    <2> HIDE DEF new, dropped
    <2>7. \A d \in Changes : \A n \in OnFile(d) : n \in OnFile(d)'
      BY <2>5 DEF OnFile, Obligations
    <2>8. ASSUME NEW d \in Changes, Exists(d)'
          PROVE  PolicyOnFile(p, d)' /\ NeverVerified(p, d)' /\ RowSound(p, d)'
      <3>1. CASE d = c
        <4>1. PolicyOnFile(p, c)'
          BY <1>6, <2>1, <2>2, <2>4, <2>7 DEF PolicyOnFile
        <4>2. NeverVerified(p, c)'
          BY <1>6, <2>1, <2>2, <2>3, <2>4 DEF NeverVerified
        <4>3. RowSound(p, c)'
          BY <2>3 DEF RowSound, Unsettled
        <4>4. QED
          BY <3>1, <4>1, <4>2, <4>3
      <3>2. CASE d # c
        <4>1. PolicyOnFile(p, d) /\ NeverVerified(p, d) /\ RowSound(p, d) /\ changes'[d] = changes[d]
          BY <1>5, <2>4, <2>8, <3>2 DEF Exists
        <4>2. \A e : e.change = d => (e \in valid <=> e \in valid')
          BY <2>5, <2>6, <3>2
        <4>3. Shown(p, d) => Shown(p, d)'
          <5> SUFFICES ASSUME Shown(p, d), NEW n \in Proofs, obligations'[<<d, n>>] \notin {"absent", "passed"}
                       PROVE  NamedElsewhere(d, n)'
            BY DEF Shown
          <5>1. <<d, n>> \in Obligations
            BY DEF Obligations
          <5>2. CASE \E e \in dropped : e.obl = <<d, n>>
            BY <2>1, <2>6, <3>2, <5>2 DEF NamedElsewhere
          <5>3. CASE ~ \E e \in dropped : e.obl = <<d, n>>
            BY <2>1, <2>5, <5>1, <5>3 DEF Shown, NamedElsewhere
          <5>4. QED
            BY <5>2, <5>3
        <4>4. QED
          BY <2>1, <2>3, <2>7, <3>2, <4>1, <4>2, <4>3, ChangeKept DEF Unsettled
      <3>3. QED
        BY <3>1, <3>2
    <2>9. OpAsRead(p)' /\ SaveSound(p)'
      BY <2>1, <2>3, <2>4 DEF OpAsRead, SaveSound
    <2>10. QED
      BY <2>8, <2>9 DEF Serial, RowsHold
  <1>14. CASE GateDecide(p)
    <2> DEFINE good == [chg EXCEPT !.status = "committable", !.verified = chg.current]
               bad == [chg EXCEPT !.status = "blocked"]
    <2>1. /\ op[p].step = "decide" /\ c \in Changes /\ chg = changes[c] /\ chg \in ChangeRow
          /\ UNCHANGED <<changes, evidence, valid>> /\ obligations' = WithVerdicts(c, chg.current)
      BY <1>3, <1>4, <1>14 DEF GateDecide, WithSnapshot, Serial, OpAsRead
    <2>2. /\ good.status = "committable" /\ good.verified = chg.current /\ good.current = chg.current
          /\ good.policy = chg.policy /\ bad.status = "blocked" /\ bad.policy = chg.policy
      BY <2>1 DEF ChangeRow
    <2>3. \/ Committable(c, chg.current) /\ Continue(p, Save(c, good, "idle"))
          \/ /\ ~ Committable(c, chg.current)
             /\ Continue(p, IF chg.status \in {"committable", "verified"} THEN Save(c, bad, "idle") ELSE Idle)
      BY <1>14 DEF GateDecide
    <2> HIDE DEF good, bad
    <2>4. \/ Committable(c, chg.current) /\ op'[p] = Save(c, good, "idle")
          \/ op'[p] = Save(c, bad, "idle")
          \/ op'[p] = Idle /\ chg.status \notin {"committable", "verified"}
      BY <1>2, <2>3
    <2>5. \A o \in Obligations : obligations'[o] = IF o[1] = c /\ obligations[o] # "absent"
                                              THEN Verdict(c, o[2], chg.current) ELSE obligations[o]
      BY <2>1 DEF WithVerdicts
    <2>6. \A n : Verdict(c, n, chg.current) # "absent"
      BY DEF Verdict
    <2>7. \A d \in Changes : \A n \in OnFile(d) : n \in OnFile(d)'
      BY <2>5, <2>6 DEF OnFile, Obligations
    <2>8. ASSUME NEW d \in Changes, Exists(d)'
          PROVE  PolicyOnFile(p, d)' /\ NeverVerified(p, d)' /\ RowSound(p, d)'
      <3>1. PolicyOnFile(p, d) /\ NeverVerified(p, d) /\ RowSound(p, d)
        BY <1>5, <2>1, <2>8 DEF Exists
      <3>2. d # c => (Shown(p, d) => Shown(p, d)')
        <4>1. d # c => \A n \in Proofs : obligations'[<<d, n>>] = obligations[<<d, n>>]
          BY <2>5 DEF Obligations
        <4>2. QED
          BY <2>1, <4>1 DEF Shown, NamedElsewhere
      <3>3. op'[p].step = "save" => op'[p].chg.status # "verified"
        BY <2>2, <2>4 DEF Save, Idle
      <3>4. d = c => Unsettled(p, d)' \/ changes[c].status # "committable"
        BY <2>1, <2>4 DEF Unsettled, Save
      <3>5. QED
        BY <2>1, <2>7, <3>1, <3>2, <3>3, <3>4, ChangeKept DEF Unsettled
    <2>9. SaveSound(p)'
      <3>1. CASE Committable(c, chg.current) /\ op'[p] = Save(c, good, "idle")
        <4>1. good.policy \subseteq OnFile(c)
          BY <1>6, <2>1, <2>2 DEF PolicyOnFile
        <4>2. BackedBy(valid, c, good)
          BY <2>1, <2>2, <3>1, <4>1, VerdictsBack
        <4>3. Shown(p, c)'
          <5>1. \A n \in Proofs : obligations[<<c, n>>] # "absent" => Verdict(c, n, chg.current) = "passed"
            BY <3>1 DEF Committable, OnFile
          <5>2. \A n \in Proofs : obligations'[<<c, n>>] \in {"absent", "passed"}
            BY <2>1, <2>5, <5>1 DEF Obligations
          <5>3. QED
            BY <5>2 DEF Shown
        <4>4. /\ op'[p].step = "save" /\ op'[p].change = c /\ op'[p].chg = good
          BY <3>1 DEF Save
        <4>5. BackedBy(valid', op'[p].change, op'[p].chg) /\ Shown(p, op[p].change)'
          <5>1. Shown(p, op[p].change)'
            BY <4>3, <4>4 DEF Shown, NamedElsewhere
          <5>2. QED
            BY <2>1, <4>2, <4>4, <5>1
        <4>6. QED
          BY <2>2, <4>4, <4>5 DEF SaveSound, BackedBy
      <3>2. CASE op'[p] = Save(c, bad, "idle") \/ op'[p] = Idle
        BY <2>2, <3>2 DEF SaveSound, Save, Idle
      <3>3. QED
        BY <2>4, <3>1, <3>2
    <2>10. OpAsRead(p)'
      BY <2>1, <2>2, <2>4 DEF OpAsRead, Save, Idle
    <2>11. QED
      BY <2>8, <2>9, <2>10 DEF Serial, RowsHold
  <1>15. CASE GitCommit(p)
    <2> DEFINE new == [chg EXCEPT !.status = "committed"]
    <2>1. /\ op[p].step = "git" /\ c \in Changes /\ chg = changes[c] /\ chg \in ChangeRow
          /\ chg.status = "committable" /\ UNCHANGED tables
      BY <1>3, <1>4, <1>15 DEF GitCommit, WithSnapshot, Serial, OpAsRead, SaveSound
    <2>2. new.status = "committed" /\ new.policy = chg.policy /\ new.verified = chg.verified
      BY <2>1 DEF ChangeRow
    <2>3. op'[p] = Save(c, new, "idle")
      BY <1>2, <1>15 DEF GitCommit
    <2> HIDE DEF new
    <2>4. op'[p].step = "save" /\ op'[p].change = c /\ op'[p].chg = new
      BY <2>3 DEF Save
    <2>5. BackedBy(valid, c, chg)
      BY <1>6, <2>1 DEF RowSound, Unsettled
    <2>6. BackedBy(valid', c, new)
      <3>1. \A e : e.change = c => (e \in valid <=> e \in valid')
        BY <2>1 DEF tables
      <3>2. QED
        BY <2>2, <2>5, <3>1, BackedByOwnRows
    <2>7. OpAsRead(p)' /\ SaveSound(p)'
      BY <2>1, <2>2, <2>4, <2>6 DEF OpAsRead, SaveSound, BackedBy, tables
    <2>8. RowsHold(p)'
      BY <2>1, <2>2, <2>4, TablesKept DEF Unsettled
    <2>9. QED
      BY <2>7, <2>8 DEF Serial
  <1>16. QED
    BY <1>7, <1>8, <1>10, <1>11, <1>12, <1>13, <1>14, <1>15 DEF Step

LEMMA SerialStep ==
  ASSUME TypeOK, OpsAreOnFile, NEW p \in Procs, Procs = {p}, MaxCrashes = 0,
         Serial(p), [Next]_vars
  PROVE  Serial(p)'
  <1>1. ASSUME UNCHANGED tables, op' = op PROVE Serial(p)'
    <2>1. OpAsRead(p)'
      BY <1>1 DEF Serial, OpAsRead, tables
    <2>2. SaveSound(p)'
      BY <1>1 DEF Serial, SaveSound, BackedBy, Shown, NamedElsewhere, tables
    <2>3. ASSUME NEW c \in Changes, Exists(c)'
          PROVE  PolicyOnFile(p, c)' /\ NeverVerified(p, c)' /\ RowSound(p, c)'
      <3>1. PolicyOnFile(p, c) /\ NeverVerified(p, c) /\ RowSound(p, c)
        BY <1>1, <2>3 DEF Serial, RowsHold, Exists, tables
      <3>2. PolicyOnFile(p, c)' /\ NeverVerified(p, c)'
        BY <1>1, <3>1 DEF PolicyOnFile, NeverVerified, OnFile, tables
      <3>3. RowSound(p, c)'
        BY <1>1, <3>1 DEF RowSound, Unsettled, BackedBy, Shown, NamedElsewhere, tables
      <3>4. QED
        BY <3>2, <3>3
    <2>4. QED
      BY <2>1, <2>2, <2>3 DEF Serial, RowsHold
  <1>2. ASSUME NEW q \in Procs PROVE ~ Crash(q)
    BY DEF Crash, TypeOK
  <1>3. CASE Operation(p)
    BY <1>3, OperationsSerial
  <1>4. CASE Step(p)
    <2>1. PICK c, chg : c = op[p].change /\ chg = op[p].chg
      OBVIOUS
    <2>2. QED
      BY <1>4, <2>1, StepsSerial
  <1>5. QED
    BY <1>1, <1>2, <1>3, <1>4 DEF Next, vars, Edit, tables

LEMMA SerialHolds ==
  ASSUME NEW p \in Procs, Procs = {p}, MaxCrashes = 0
  PROVE  Spec => [](TypeOK /\ OpsAreOnFile /\ Serial(p))
  <1>1. Init => TypeOK /\ OpsAreOnFile
    BY ConstantsAssumption DEF Init, TypeOK, Ops, Idle, ObligationStatuses, OpsAreOnFile
  <1>2. Init => Serial(p)
    BY DEF Init, Idle, Serial, OpAsRead, RowsHold, SaveSound, Exists
  <1>3. TypeOK /\ OpsAreOnFile /\ Serial(p) /\ [Next]_vars
          => TypeOK' /\ OpsAreOnFile' /\ Serial(p)'
    BY TypeStep, OnFileStep, SerialStep
  <1>4. QED
    BY <1>1, <1>2, <1>3, PTL DEF Spec

(* What the invariant says of a change once the process is at rest. *)
LEMMA AtRestSound ==
  ASSUME NEW p \in Procs, Procs = {p}, Serial(p), AtRest,
         NEW c \in Changes, Exists(c), changes[c].status = "committable"
  PROVE  changes[c].current = changes[c].verified /\ BackedBy(valid, c, changes[c]) /\ Shown(p, c)
  <1>1. op[p].step = "idle"
    BY DEF AtRest, Idle
  <1>2. QED
    BY <1>1 DEF Serial, RowsHold, RowSound, Unsettled

(***************************************************************************)
(* One process whose operations run to their end: between operations a     *)
(* committable change is verified at its current tree, and for every       *)
(* obligation locked at creation a valid pass for that tree and no failure *)
(* is on file (evaluateGateLocked, SubmitEvidence, ExecuteProof).  With    *)
(* edits of the worktree at any time, and any number of changes.           *)
(***************************************************************************)
THEOREM SerialIsBacked ==
  ASSUME NEW p \in Procs, Procs = {p}, MaxCrashes = 0
  PROVE  Spec => []CommittableIsBacked
  <1>1. Serial(p) => CommittableIsBacked
    BY AtRestSound DEF CommittableIsBacked, Backed, BackedBy
  <1>2. QED
    BY <1>1, SerialHolds, PTL

(***************************************************************************)
(* Under the same conditions a committable change shows all of its         *)
(* obligations as passed, except those that evidence for another change    *)
(* has been recorded against (WithVerdicts, RecordEvidence, ExecuteProof). *)
(***************************************************************************)
THEOREM SerialStatusesAgree ==
  ASSUME NEW p \in Procs, Procs = {p}, MaxCrashes = 0
  PROVE  Spec => []StatusesAgree
  <1>1. ASSUME Serial(p) PROVE StatusesAgree
    <2> SUFFICES ASSUME AtRest, NEW c \in Changes, Exists(c), changes[c].status = "committable",
                        NEW n \in OnFile(c)
                 PROVE  obligations[<<c, n>>] = "passed" \/ NamedElsewhere(c, n)
      BY DEF StatusesAgree
    <2>1. Shown(p, c) /\ op[p].step = "idle"
      BY <1>1, AtRestSound DEF AtRest, Idle
    <2>2. QED
      BY <2>1 DEF Shown, OnFile
  <1>2. QED
    BY <1>1, SerialHolds, PTL

(***************************************************************************)
(* Under the same conditions a change only becomes committed while the     *)
(* evidence on file backs it: what the gate found when it stored the       *)
(* status still holds when CommitChange relies on it.                      *)
(***************************************************************************)
THEOREM SerialCommitIsBacked ==
  ASSUME NEW p \in Procs, Procs = {p}, MaxCrashes = 0
  PROVE  Spec => CommitIsBacked
  <1> DEFINE Commit == \A c \in Changes :
               /\ Exists(c) /\ changes[c].status # "committed"
               /\ changes'[c].status = "committed"
               => Backed(c, changes'[c])
  <1>1. ASSUME TypeOK, OpsAreOnFile, Serial(p), [Next]_vars PROVE Commit
    <2> SUFFICES ASSUME NEW c \in Changes, Exists(c), changes[c].status # "committed",
                        changes'[c].status = "committed"
                 PROVE  BackedBy(valid, c, changes'[c])
      BY DEF Backed, BackedBy
    <2>1. op[p] \in Ops
      BY <1>1 DEF TypeOK
    <2>2. ASSUME NEW d \in Changes, NEW a \in Participants, CreateChange(p, d, a) PROVE FALSE
      BY <1>1, <2>2, CreateStores
    <2>3. CASE SaveMeshChange(p)
      <3>1. op[p].step = "save" /\ op[p].change = c /\ changes'[c] = op[p].chg
        BY <1>1, <2>1, <2>3, OpFields DEF SaveMeshChange, TypeOK
      <3>2. QED
        BY <1>1, <3>1 DEF Serial, SaveSound
    <2>4. ASSUME GateRefresh(p) PROVE FALSE
      <3>1. op[p].step = "refresh" /\ op[p].chg \in ChangeRow /\ op[p].chg = changes[op[p].change]
        BY <1>1, <2>1, <2>4, OpFields DEF GateRefresh, WithSnapshot, Serial, OpAsRead
      <3>2. [op[p].chg EXCEPT !.current = op[p].tree].status = op[p].chg.status
        BY <3>1 DEF ChangeRow
      <3>3. changes' = [changes EXCEPT ![op[p].change] = [op[p].chg EXCEPT !.current = op[p].tree]]
        BY <2>4 DEF GateRefresh
      <3>4. QED
        BY <1>1, <3>1, <3>2, <3>3 DEF TypeOK
    <2>5. CASE changes' = changes
      BY <2>5
    <2>6. CASE Operation(p)
      <3>1. ASSUME NEW d \in Changes, NEW a,
                   PrepareChange(p, d, a) \/ AbortChange(p, d, a) \/ CommitChange(p, d, a)
            PROVE  changes' = changes
        BY <3>1 DEF PrepareChange, AbortChange, CommitChange, tables
      <3>2. ASSUME NEW d \in Changes, NEW obl, NEW s, NEW k, NEW r,
                   SubmitEvidence(p, d, obl, s, k, r)
            PROVE  changes' = changes
        BY <3>2 DEF SubmitEvidence, tables
      <3>3. ASSUME NEW d \in Changes, NEW obl, ExecuteProof(p, d, obl) \/ EvaluateGate(p, d)
            PROVE  changes' = changes
        BY <3>3 DEF ExecuteProof, EvaluateGate, tables
      <3>4. QED
        BY <2>2, <2>5, <2>6, <3>1, <3>2, <3>3 DEF Operation
    <2>7. CASE Step(p)
      <3>1. SaveProofObligation(p) \/ SaveChangeEvidence(p) \/ (\E r \in Results : FinishProof(p, r))
              => changes' = changes
        BY DEF SaveProofObligation, SaveChangeEvidence, FinishProof
      <3>2. GateRead(p) \/ GateDecide(p) \/ GitCommit(p) => changes' = changes
        BY DEF GateRead, GateDecide, GitCommit, tables
      <3>3. QED
        BY <2>3, <2>4, <2>5, <2>7, <3>1, <3>2 DEF Step
    <2>8. QED
      BY <1>1, <2>5, <2>6, <2>7 DEF Next, vars, Edit, Crash, tables
  <1>2. TypeOK /\ OpsAreOnFile /\ Serial(p) /\ [Next]_vars => [Commit]_vars
    BY <1>1
  <1>3. QED
    BY <1>2, SerialHolds, PTL DEF Spec, CommitIsBacked

===============================================================================
