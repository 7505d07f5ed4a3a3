-------------------------- MODULE ProposalCompiler --------------------------
(***************************************************************************)
(* What becomes of a task proposal before anything runs: the parser's      *)
(* cross-references (c4harness/decompose/proposal.py), the verifier        *)
(* templates (decompose/verifier_templates.py), the gates of               *)
(* compile_proposal (decompose/compiler.py) and the final validation of    *)
(* the plan (core/graph.py).  Every gate refuses the whole proposal.       *)
(*                                                                         *)
(* A proposal is a record                                                  *)
(*   version, mode   "execute" or "plan",                                  *)
(*   requirements    a sequence of [id, kind, required],                   *)
(*   criteria        a sequence of [id, check, refs],                      *)
(*   nodes           a sequence of [id, kind, refs, deps, mode, writes,    *)
(*                   places, checks, evidence, semantic, contribution,     *)
(*                   needs, soft].                                         *)
(* writes are the node's write paths as tuples of components, places where *)
(* all its paths resolve to; a check is [template, form, argument], form   *)
(* being what its argument looks like.  A proposal with a field that is    *)
(* missing, unknown or of the wrong type never becomes such a record.      *)
(***************************************************************************)
EXTENDS WorkerAssignment

Members(items) == {items[i] : i \in DOMAIN items}
Ids(items) == {item.id : item \in Members(items)}
Distinct(items) == \A i, j \in DOMAIN items : items[i].id = items[j].id => i = j
NodeOf(p, id) == CHOOSE n \in Members(p.nodes) : n.id = id

-----------------------------------------------------------------------------
(* CodexTaskProposal.from_dict *)

SoftCapabilities ==
  {"code_implementation", "debugging", "frontend_visual", "documentation",
   "architecture", "long_context", "test_generation"}

\* _validate_references
ReferencesResolve(p) ==
  /\ \A n \in Members(p.nodes) :
       /\ n.refs \subseteq Ids(p.requirements)
       /\ n.deps \subseteq Ids(p.nodes) \ {n.id}
       /\ DOMAIN n.soft \subseteq SoftCapabilities
  /\ \A c \in Members(p.criteria) : c.refs \subseteq Ids(p.requirements)

Parses(p) ==
  /\ p.version = 1
  /\ Distinct(p.requirements) /\ Distinct(p.criteria) /\ Distinct(p.nodes)
  /\ \A n \in Members(p.nodes) : \A d \in DOMAIN n.soft : n.soft[d] \in 0..10
  /\ ReferencesResolve(p)

-----------------------------------------------------------------------------
(* Verifier templates *)

\* What the argument of each template has to look like.
Templates ==
  [file_exists |-> "inside", file_contains |-> "inside", json_schema_valid |-> "inside",
   command_exit_zero |-> "text", output_matches |-> "text",
   tests_pass |-> "absent", changed_paths_within_allowlist |-> "absent",
   patch_non_empty |-> "absent", requirement_coverage |-> "absent"]

PATCH_ONLY_TEMPLATES == {"changed_paths_within_allowlist", "patch_non_empty"}

ParseTemplateCheck(check) ==
  check.template \in DOMAIN Templates /\ check.form = Templates[check.template]

\* The templates of a node, with what a patch node gets on top of its own.
CheckTemplates(n) ==
  {check.template : check \in Members(n.checks)}
  \union IF n.mode = "patch" THEN PATCH_ONLY_TEMPLATES ELSE {}

\* validate_template_checks; a contribution to the root is enough to be verifiable.
ValidTemplateChecks(n) ==
  /\ \A check \in Members(n.checks) : ParseTemplateCheck(check)
  /\ \A i, j \in DOMAIN n.checks :
       n.checks[i].template = n.checks[j].template
         /\ n.checks[i].argument = n.checks[j].argument => i = j
  /\ n.mode # "patch" =>
       \A check \in Members(n.checks) : check.template \notin PATCH_ONLY_TEMPLATES
  /\ CheckTemplates(n) # {} \/ n.evidence \/ n.semantic \/ n.contribution

-----------------------------------------------------------------------------
(* The gates of compile_proposal *)

RequiredIds(p) == {r.id : r \in {q \in Members(p.requirements) : q.required}}
OfKind(p, kind) == {r.id : r \in {q \in Members(p.requirements) : q.kind = kind}}
Referenced(items) == UNION {item.refs : item \in Members(items)}

\* Variant: any reference will do, a criterion's as well.
CoveredSomewhere(p) == RequiredIds(p) \subseteq Referenced(p.nodes) \union Referenced(p.criteria)

RequirementsAreCovered(p) == RequiredIds(p) \subseteq Referenced(p.nodes)

DeliverablesAreRooted(p) ==
  RequiredIds(p) \cap OfKind(p, "deliverable") \subseteq Referenced(p.criteria)

ConstraintsAreNoWork(p) ==
  \A n \in Members(p.nodes) :
    n.kind = "work" /\ n.refs # {} => ~(n.refs \subseteq OfKind(p, "constraint"))

PlanModeIsReadOnly(p) ==
  p.mode = "plan" => \A n \in Members(p.nodes) : n.mode = "read_only"

PathsAreInside(p) == \A n \in Members(p.nodes) : n.places \subseteq {"inside"}

ModesFitScopes(p) ==
  \A n \in Members(p.nodes) :
    /\ n.mode = "patch" => n.writes # {}
    /\ n.mode = "read_only" => n.writes = {}

\* Variant: the graph is not searched for cycles.
AnyGraph(p) == TRUE

\* add_edge of every dependency, each followed by validate_acyclic.
GraphIsAcyclic(p) ==
  \A S \in SUBSET Ids(p.nodes) :
    S # {} => \E id \in S : NodeOf(p, id).deps \cap S = {}

\* _compile_node: the contract of a node, as far as it is looked at later on.
Contract(p, id) ==
  LET n == NodeOf(p, id) IN
  [refs |-> n.refs, checks |-> CheckTemplates(n), evidence |-> n.evidence,
   semantic |-> n.semantic, patch |-> n.mode = "patch", writes |-> n.writes]

\* VerificationContract.is_verifiable: here the contribution does not count.
IsVerifiable(c) == c.checks # {} \/ c.evidence \/ c.semantic

\* DecompositionPlan.validate; its other conditions are gates above.
ValidPlan(p) ==
  \A n \in Members(p.nodes) :
    n.kind \in {"probe", "work", "merge"} => IsVerifiable(Contract(p, n.id))

\* _assign_workers finds a worker for every node.
WorkersExist(p) == \A n \in Members(p.nodes) : Eligible(n.needs) # {}

Compiles(p) ==
  /\ Parses(p)
  /\ p.nodes # << >>
  /\ p.criteria # << >>
  /\ RequirementsAreCovered(p)
  /\ DeliverablesAreRooted(p)
  /\ ConstraintsAreNoWork(p)
  /\ PlanModeIsReadOnly(p)
  /\ PathsAreInside(p)
  /\ ModesFitScopes(p)
  /\ \A n \in Members(p.nodes) : ValidTemplateChecks(n)
  /\ GraphIsAcyclic(p)
  /\ WorkersExist(p)
  /\ ValidPlan(p)

\* What the plan's assignment records keep: per node, its candidates in order.
Assignment(p, histories) ==
  [id \in Ids(p.nodes) |->
     LET n == NodeOf(p, id) IN Ranking(n.needs, n.soft, histories)]

Edges(p) == UNION {n.deps \X {n.id} : n \in Members(p.nodes)}
Writes(p) == [id \in Ids(p.nodes) |-> NodeOf(p, id).writes]
=============================================================================
