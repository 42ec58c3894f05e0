------------------------------ MODULE MeshCommit ------------------------------
(***************************************************************************)
(* MeshCommit: evidence-gated change transactions.                         *)
(*                                                                         *)
(* Source: internal/collaboration/meshcommit.go (the coordinator), with    *)
(* the mesh_changes, proof_obligations and change_evidence tables of       *)
(* internal/store/store.go and the tree fingerprint of                     *)
(* internal/workspace/fingerprint.go.                                      *)
(*                                                                         *)
(* A coordinator serialises its own operations with an in-process mutex,   *)
(* but the MCP server, the bridge and every CLI invocation are processes   *)
(* of their own that share one database and one worktree.  Procs is the    *)
(* set of these coordinators.  op[p] is the operation process p has under  *)
(* its mutex: what it has read, and what it is about to write.  Every read *)
(* or write of the shared database, of the worktree and of git is a step,  *)
(* so operations of different processes interleave, and the worktree may   *)
(* be edited between any two of them.                                      *)
(*                                                                         *)
(* A tree hash is represented by the tree it identifies.                   *)
(***************************************************************************)
EXTENDS FiniteSets, Naturals

CONSTANTS
  Procs,          \* coordinator processes (MCP server, bridge, CLI runs)
  Changes,        \* change IDs
  Participants,   \* agents and operators
  Executors,      \* those requireWritableExecutor and the space writer check let author a change
  Harness,        \* the source of evidence HarnessMesh produces itself
  Paths,          \* files of the repository
  Tracked,        \* the files git tracks: git commit -a takes no other
  Versions,       \* contents of a file
  Proofs,         \* proof obligations a policy can require, by name
  DefaultProofs,  \* required of every change
  Fallback,       \* default_verification, used when the policy asks for nothing
  CommandProofs,  \* obligations with a command to run
  Scope,          \* Scope[n]: the paths of the rule that requires n, {} if repository-wide
  ReuseIds,       \* whether callers pass the ID of an existing change to change.create
  MaxEvidence,    \* bound on evidence rows
  MaxCrashes,     \* bound on crashes
  None            \* no row, no tree, no caller identity

Trees == [Paths -> Versions]
Obligations == Changes \X Proofs
Results == {"passed", "failed"}

Statuses == {"draft", "prepared", "under_verification", "blocked",
             "verified", "committable", "committed", "aborted"}

ObligationStatuses == {"absent", "pending", "running", "passed", "failed", "stale"}

\* A row of mesh_changes: policy is proof_policy_json, verified is None before
\* the first gate that passes.
ChangeRow == [status   : Statuses,
              author   : Participants,
              current  : Trees,
              verified : Trees \cup {None},
              policy   : SUBSET Proofs]

\* A row of change_evidence; rows that agree on these columns are one element.
EvidenceRow == [change : Changes,
                obl    : Obligations,
                tree   : Trees,
                source : Participants \cup {Harness},
                result : Results]

\* A gate decision that made a change committable (history only).
Pass == [change : Changes, tree : Trees, proofs : SUBSET Proofs]

Idle == [step |-> "idle"]

Ops == {Idle}
  \cup [step : {"create"}, change : Changes, todo : SUBSET Proofs]
  \cup [step : {"submit"}, change : Changes, chg : ChangeRow, row : EvidenceRow]
  \cup [step : {"proof"}, change : Changes, obl : Obligations, tree : Trees]
  \cup [step : {"gate"}, change : Changes]
  \cup [step : {"refresh"}, change : Changes, chg : ChangeRow, tree : Trees]
  \cup [step : {"decide"}, change : Changes, chg : ChangeRow]
  \cup [step : {"git"}, change : Changes, chg : ChangeRow]
  \cup [step : {"save"}, change : Changes, chg : ChangeRow, next : {"idle", "gate"}]

ASSUME ConstantsAssumption ==
  /\ Executors \subseteq Participants
  /\ Harness \notin Participants
  /\ Tracked \subseteq Paths
  /\ DefaultProofs \subseteq Proofs
  /\ CommandProofs \subseteq Proofs
  /\ Fallback \in Proofs
  /\ Scope \in [Proofs -> SUBSET Paths]
  /\ ReuseIds \in BOOLEAN
  /\ MaxEvidence \in Nat
  /\ MaxCrashes \in Nat
  /\ None \notin ChangeRow
  /\ None \notin Trees

VARIABLES
  worktree,     \* the files on disk
  head,         \* the tree of git's HEAD commit
  changes,      \* table mesh_changes
  obligations,  \* table proof_obligations: the status column, "absent" for no row
  evidence,     \* table change_evidence
  valid,        \* the rows of evidence whose valid column is 1
  op,           \* op[p]: the operation process p is in
  passes,       \* history: every decision that made a change committable
  crashes       \* crashes so far

vars == <<worktree, head, changes, obligations, evidence, valid, op, passes, crashes>>
tables == <<changes, obligations, evidence, valid>>

TypeOK ==
  /\ worktree \in Trees
  /\ head \in Trees
  /\ changes \in [Changes -> ChangeRow \cup {None}]
  /\ obligations \in [Obligations -> ObligationStatuses]
  /\ evidence \subseteq EvidenceRow
  /\ valid \subseteq evidence
  /\ op \in [Procs -> Ops]
  /\ passes \subseteq Pass
  /\ crashes \in Nat

Init ==
  /\ head \in Trees
  /\ worktree = head
  /\ changes = [c \in Changes |-> None]
  /\ obligations = [o \in Obligations |-> "absent"]
  /\ evidence = {}
  /\ valid = {}
  /\ op = [p \in Procs |-> Idle]
  /\ passes = {}
  /\ crashes = 0

-------------------------------------------------------------------------------
(* Helpers.  A definition named after another with a suffix (AnyTree,      *)
(* CurrentOnly, Vacuously, ...) is a wrong variant of it that no action    *)
(* uses: it shows that a property below sees the difference.               *)

Diff(from, to) == {x \in Paths : from[x] # to[x]}

\* ResolveProofPolicy: the defaults and what the rules matching the changed
\* paths require; never empty.
Policy(changed) ==
  LET required == DefaultProofs \cup {n \in Proofs : Scope[n] \cap changed # {}}
  IN  IF required = {} THEN {Fallback} ELSE required

\* The author check of prepare, abort and commit: callers without an identity
\* of their own (the local CLI) pass "".
MayManage(chg, actor) == actor = None \/ actor = chg.author

\* The TOCTOU check of CommitChange.
OnVerifiedTreeCurrentOnly(chg) == worktree = chg.current
OnVerifiedTree(chg) ==
  /\ worktree = chg.current
  /\ chg.verified # None => worktree = chg.verified

OnFile(c) == {n \in Proofs : obligations[<<c, n>>] # "absent"}

\* The evidence rows the gate counts for obligation n of change c at a tree.
CountedAnyTree(c, n, tree) == {e \in valid : e.change = c /\ e.obl = <<c, n>>}
Counted(c, n, tree) == {e \in valid : e.change = c /\ e.obl = <<c, n>> /\ e.tree = tree}

\* One obligation in the gate: a failure outweighs any number of passes.
VerdictAnyPass(c, n, tree) ==
  LET results == {e.result : e \in Counted(c, n, tree)}
  IN  IF "passed" \in results THEN "passed"
      ELSE IF "failed" \in results THEN "failed" ELSE "pending"
Verdict(c, n, tree) ==
  LET results == {e.result : e \in Counted(c, n, tree)}
  IN  CASE "failed" \in results -> "failed"
        [] "failed" \notin results /\ "passed" \in results -> "passed"
        [] results = {} /\ obligations[<<c, n>>] = "stale" -> "stale"
        [] OTHER -> "pending"

CommittableVacuously(c, tree) == \A n \in OnFile(c) : Verdict(c, n, tree) = "passed"
Committable(c, tree) ==
  /\ OnFile(c) # {}
  /\ \A n \in OnFile(c) : Verdict(c, n, tree) = "passed"

\* The obligation statuses a gate writes.
WithFailuresOnly(c, tree) ==
  [o \in Obligations |->
     IF o[1] = c /\ obligations[o] # "absent" /\ Verdict(c, o[2], tree) # "passed"
     THEN Verdict(c, o[2], tree) ELSE obligations[o]]
WithVerdicts(c, tree) ==
  [o \in Obligations |->
     IF o[1] = c /\ obligations[o] # "absent"
     THEN Verdict(c, o[2], tree) ELSE obligations[o]]

\* InvalidateStaleEvidence: the valid rows of change c that a change of these
\* paths invalidates.
Invalidated(c, changed) ==
  {e \in valid : /\ e.change = c
                 /\ \/ e.obl[1] # c \/ obligations[e.obl] = "absent"
                    \/ Scope[e.obl[2]] = {}
                    \/ Scope[e.obl[2]] \cap changed # {}}

\* Bound: the rows of change_evidence the model keeps.
Fits(row) == row \in evidence \/ Cardinality(evidence) < MaxEvidence

Begin(p, o) == op[p] = Idle /\ op' = [op EXCEPT ![p] = o]
Continue(p, o) == op' = [op EXCEPT ![p] = o]

-------------------------------------------------------------------------------
(* The operations of a coordinator.                                        *)

Create(c, todo) == [step |-> "create", change |-> c, todo |-> todo]
Gate(c) == [step |-> "gate", change |-> c]
Save(c, chg, next) == [step |-> "save", change |-> c, chg |-> chg, next |-> next]

\* CreateChange stores the change first and its obligations one by one after.
\* On an existing ID the upsert keeps the author of the old row.
CreateChange(p, c, a) ==
  /\ a \in Executors
  /\ changes[c] = None \/ ReuseIds
  /\ LET row == [status   |-> "draft",
                 author   |-> IF changes[c] = None THEN a ELSE changes[c].author,
                 current  |-> worktree,
                 verified |-> None,
                 policy   |-> Policy(Diff(head, worktree))]
     IN  /\ changes' = [changes EXCEPT ![c] = row]
         /\ Begin(p, Create(c, row.policy))
  /\ UNCHANGED <<worktree, head, obligations, evidence, valid, passes, crashes>>

SaveProofObligation(p) ==
  /\ op[p].step = "create"
  /\ \E n \in op[p].todo :
       /\ obligations' = [obligations EXCEPT ![<<op[p].change, n>>] = "pending"]
       /\ Continue(p, IF op[p].todo = {n} THEN Idle
                      ELSE Create(op[p].change, op[p].todo \ {n}))
  /\ UNCHANGED <<worktree, head, changes, evidence, valid, passes, crashes>>

\* SaveMeshChange overwrites the row with what the operation read and changed,
\* whatever another process wrote in between.
SaveMeshChange(p) ==
  /\ op[p].step = "save"
  /\ changes' = [changes EXCEPT ![op[p].change] = op[p].chg]
  /\ Continue(p, IF op[p].next = "idle" THEN Idle ELSE Gate(op[p].change))
  /\ UNCHANGED <<worktree, head, obligations, evidence, valid, passes, crashes>>

PrepareChange(p, c, actor) ==
  /\ changes[c] # None
  /\ MayManage(changes[c], actor)
  /\ changes[c].status \notin {"committed", "aborted"}
  /\ Begin(p, Save(c, [changes[c] EXCEPT !.status = "prepared", !.current = worktree], "idle"))
  /\ UNCHANGED <<worktree, head, tables, passes, crashes>>

AbortChange(p, c, actor) ==
  /\ changes[c] # None
  /\ MayManage(changes[c], actor)
  /\ changes[c].status # "committed"
  /\ Begin(p, Save(c, [changes[c] EXCEPT !.status = "aborted"], "idle"))
  /\ UNCHANGED <<worktree, head, tables, passes, crashes>>

\* SubmitEvidence: the checks.  The row's tree is the hash the caller claims;
\* only the hash of the change that is also the hash of the worktree passes.
SubmitEvidence(p, c, obl, source, kind, result) ==
  /\ changes[c] # None
  /\ changes[c].status \notin {"committed", "aborted"}
  /\ kind = "review" => source # changes[c].author
  /\ worktree = changes[c].current
  /\ LET row == [change |-> c, obl |-> obl, tree |-> worktree,
                 source |-> source, result |-> result]
     IN  /\ Fits(row)
         /\ Begin(p, [step |-> "submit", change |-> c, chg |-> changes[c], row |-> row])
  /\ UNCHANGED <<worktree, head, tables, passes, crashes>>

\* Insert a row and set the status of its obligation, if there is such a row.
RecordEvidenceUnsaved(row) ==
  /\ evidence' = evidence
  /\ valid' = valid \cup {row}
  /\ obligations' = IF obligations[row.obl] = "absent" THEN obligations
                    ELSE [obligations EXCEPT ![row.obl] = row.result]
RecordEvidence(row) ==
  /\ evidence' = evidence \cup {row}
  /\ valid' = valid \cup {row}
  /\ obligations' = IF obligations[row.obl] = "absent" THEN obligations
                    ELSE [obligations EXCEPT ![row.obl] = row.result]

SaveChangeEvidence(p) ==
  /\ op[p].step = "submit"
  /\ RecordEvidence(op[p].row)
  /\ Continue(p, IF op[p].chg.status \in {"prepared", "draft"}
                 THEN Save(op[p].change,
                           [op[p].chg EXCEPT !.status = "under_verification"], "gate")
                 ELSE Gate(op[p].change))
  /\ UNCHANGED <<worktree, head, changes, passes, crashes>>

\* ExecuteProof up to the command: neither the status of the change nor the
\* change the obligation belongs to is checked, and a valid pass for the
\* obligation at this tree makes the call return at once.
ExecuteProof(p, c, obl) ==
  /\ changes[c] # None
  /\ obligations[obl] # "absent"
  /\ worktree = changes[c].current
  /\ ~ \E e \in valid : e.obl = obl /\ e.tree = worktree /\ e.result = "passed"
  /\ obligations' = [obligations EXCEPT ![obl] = "running"]
  /\ Begin(p, [step |-> "proof", change |-> c, obl |-> obl, tree |-> worktree])
  /\ UNCHANGED <<worktree, head, changes, evidence, valid, passes, crashes>>

\* The command has ended; an obligation without one passes.
FinishProof(p, result) ==
  /\ op[p].step = "proof"
  /\ op[p].obl[2] \notin CommandProofs => result = "passed"
  /\ LET row == [change |-> op[p].change, obl |-> op[p].obl, tree |-> op[p].tree,
                 source |-> Harness, result |-> result]
     IN  Fits(row) /\ RecordEvidence(row)
  /\ Continue(p, Gate(op[p].change))
  /\ UNCHANGED <<worktree, head, changes, passes, crashes>>

\* evaluateGateLocked reads the change and the worktree ...
ReadForGate(c) ==
  IF worktree # changes[c].current
  THEN [step |-> "refresh", change |-> c, chg |-> changes[c], tree |-> worktree]
  ELSE [step |-> "decide", change |-> c, chg |-> changes[c]]

EvaluateGate(p, c) ==
  /\ changes[c] # None
  /\ Begin(p, ReadForGate(c))
  /\ UNCHANGED <<worktree, head, tables, passes, crashes>>

GateRead(p) ==
  /\ op[p].step = "gate"
  /\ Continue(p, ReadForGate(op[p].change))
  /\ UNCHANGED <<worktree, head, tables, passes, crashes>>

\* ... after a drift invalidates evidence and saves the new tree ...
GateRefresh(p) ==
  /\ op[p].step = "refresh"
  /\ LET c == op[p].change
         chg == [op[p].chg EXCEPT !.current = op[p].tree]
         dropped == Invalidated(c, Diff(op[p].chg.current, op[p].tree))
     IN  /\ valid' = valid \ dropped
         /\ obligations' = [o \in Obligations |->
              IF obligations[o] # "absent" /\ \E e \in dropped : e.obl = o
              THEN "stale" ELSE obligations[o]]
         /\ changes' = [changes EXCEPT ![c] = chg]
         /\ Continue(p, [step |-> "decide", change |-> c, chg |-> chg])
  /\ UNCHANGED <<worktree, head, evidence, passes, crashes>>

\* ... and decides; SaveMeshChange then stores the outcome.
GateDecide(p) ==
  /\ op[p].step = "decide"
  /\ LET c == op[p].change
         chg == op[p].chg
     IN  /\ obligations' = WithVerdicts(c, chg.current)
         /\ \/ /\ Committable(c, chg.current)
               /\ passes' = passes \cup
                    {[change |-> c, tree |-> chg.current, proofs |-> OnFile(c)]}
               /\ Continue(p, Save(c, [chg EXCEPT !.status = "committable",
                                                  !.verified = chg.current], "idle"))
            \/ /\ ~ Committable(c, chg.current)
               /\ passes' = passes
               /\ Continue(p, IF chg.status \in {"committable", "verified"}
                              THEN Save(c, [chg EXCEPT !.status = "blocked"], "idle")
                              ELSE Idle)
  /\ UNCHANGED <<worktree, head, changes, evidence, valid, crashes>>

\* CommitChange: the checks, the git commit, then SaveMeshChange.  A change
\* that is committed already is returned as it is.
CommitChange(p, c, actor) ==
  /\ changes[c] # None
  /\ changes[c].status \in {"committable", "verified"}
  /\ MayManage(changes[c], actor)
  /\ changes[c].author \in Executors
  /\ OnVerifiedTree(changes[c])
  /\ Begin(p, [step |-> "git", change |-> c, chg |-> changes[c]])
  /\ UNCHANGED <<worktree, head, tables, passes, crashes>>

\* git commit -am takes the tracked files as they are now, or fails; either
\* way the change is recorded as committed.
GitCommit(p) ==
  /\ op[p].step = "git"
  /\ head' \in {head, [x \in Paths |-> IF x \in Tracked THEN worktree[x] ELSE head[x]]}
  /\ Continue(p, Save(op[p].change, [op[p].chg EXCEPT !.status = "committed"], "idle"))
  /\ UNCHANGED <<worktree, tables, passes, crashes>>

-------------------------------------------------------------------------------
(* The environment.                                                        *)

\* The writer, an operator or a running command edits a file.
Edit(x, v) ==
  /\ worktree[x] # v
  /\ worktree' = [worktree EXCEPT ![x] = v]
  /\ UNCHANGED <<head, tables, op, passes, crashes>>

\* A process dies, or an operation returns on a database error, between two of
\* its steps: what it wrote stays, the rest is never done.
Crash(p) ==
  /\ crashes < MaxCrashes
  /\ op[p] # Idle
  /\ Continue(p, Idle)
  /\ crashes' = crashes + 1
  /\ UNCHANGED <<worktree, head, tables, passes>>

Callers == Participants \cup {None}

Operation(p) ==
  \/ \E c \in Changes :
       \/ \E a \in Participants : CreateChange(p, c, a)
       \/ \E a \in Callers : \/ PrepareChange(p, c, a)
                             \/ AbortChange(p, c, a)
                             \/ CommitChange(p, c, a)
       \/ \E obl \in Obligations, s \in Participants, k \in {"review", "other"}, r \in Results :
            SubmitEvidence(p, c, obl, s, k, r)
       \/ \E obl \in Obligations : ExecuteProof(p, c, obl)
       \/ EvaluateGate(p, c)

Step(p) ==
  \/ SaveProofObligation(p)
  \/ SaveMeshChange(p)
  \/ SaveChangeEvidence(p)
  \/ \E r \in Results : FinishProof(p, r)
  \/ GateRead(p)
  \/ GateRefresh(p)
  \/ GateDecide(p)
  \/ GitCommit(p)

Next ==
  \/ \E p \in Procs : Operation(p) \/ Step(p) \/ Crash(p)
  \/ \E x \in Paths, v \in Versions : Edit(x, v)

Spec == Init /\ [][Next]_vars

-------------------------------------------------------------------------------
(* Properties.                                                             *)

Exists(c) == changes[c] # None
AtRest == \A p \in Procs : op[p] = Idle

\* Rows are never deleted: an operation in progress is about a change on file.
OpsAreOnFile == \A p \in Procs : op[p] # Idle => Exists(op[p].change)

\* Among these decisions is one that found change c committable at this tree, and
\* among these rows a pass for this tree, submitted for this change, for each
\* obligation the decision was about.
ProvedBy(decisions, rows, c, tree) ==
  \E d \in decisions :
    /\ d.change = c /\ d.tree = tree /\ d.proofs # {}
    /\ \A n \in d.proofs : \E e \in rows :
         e.change = c /\ e.obl = <<c, n>> /\ e.tree = tree /\ e.result = "passed"

Proved(c, tree) == ProvedBy(passes, evidence, c, tree)

\* Whatever operations of other processes, edits and crashes come between its
\* steps, a change is only ever marked committable or committed for a tree a
\* gate found proved, and git commit only starts for such a tree
\* (evaluateGateLocked, CommitChange).
ProvedBeforeCommit ==
  /\ \A c \in Changes :
       Exists(c) /\ changes[c].status \in {"committable", "committed"}
         => Proved(c, changes[c].verified)
  /\ \A p \in Procs :
       op[p].step = "git" => Proved(op[p].change, op[p].chg.current)

\* The inductive form of ProvedBeforeCommit: it holds of the rows operations
\* have read and are about to write back as well as of those on file.
RowProved(c, row) ==
  row.status \in {"verified", "committable", "committed"} => Proved(c, row.verified)

RowsAreProved ==
  /\ \A c \in Changes : Exists(c) => RowProved(c, changes[c])
  /\ \A p \in Procs :
       op[p].step \in {"submit", "refresh", "decide", "git", "save"}
         => RowProved(op[p].change, op[p].chg)
  /\ \A p \in Procs :
       op[p].step = "git" => /\ op[p].chg.status \in {"verified", "committable"}
                            /\ op[p].chg.current = op[p].chg.verified

\* The evidence on file backs change c as recorded in chg: for every obligation
\* its policy locked a valid pass for the verified tree, and no failure.
Backed(c, chg) ==
  \A n \in chg.policy :
    LET results == {e.result : e \in {f \in valid : /\ f.change = c /\ f.obl = <<c, n>>
                                                   /\ f.tree = chg.verified}}
    IN  results = {"passed"}

\* docs/change-transactions.md: a change is committable when all required
\* obligations have valid, un-invalidated passing evidence.  Between operations
\* a committable change is verified at its current tree and backed by evidence
\* for every obligation of the policy locked at creation.
CommittableIsBacked ==
  AtRest => \A c \in Changes :
    Exists(c) /\ changes[c].status = "committable"
      => changes[c].current = changes[c].verified /\ Backed(c, changes[c])

\* A change becomes committed only while the evidence on file backs it
\* (CommitChange relies on the status a gate has stored).
CommitIsBacked ==
  [][\A c \in Changes :
       /\ Exists(c) /\ changes[c].status # "committed"
       /\ changes'[c].status = "committed"
       => Backed(c, changes'[c])]_vars

\* Evidence for another change names obligation n of change c: nothing checks that
\* the obligation of a row is one of the row's change (SubmitEvidence, ExecuteProof).
NamedElsewhere(c, n) == \E e \in evidence : e.obl = <<c, n>> /\ e.change # c

\* Between operations of one process, a committable change shows every one of
\* its obligations as passed: the statuses GateDecide and RecordEvidence write
\* do not contradict the status of the change, unless evidence for another
\* change has overwritten one of them.
StatusesAgree ==
  AtRest => \A c \in Changes :
    Exists(c) /\ changes[c].status = "committable"
      => \A n \in OnFile(c) : obligations[<<c, n>>] = "passed" \/ NamedElsewhere(c, n)

===============================================================================
