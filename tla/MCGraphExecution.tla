-------------------------- MODULE MCGraphExecution --------------------------
(* GraphExecution for TLC. *)
EXTENDS GraphExecution

CONSTANTS Src, A, B,   \* path components
          Doc          \* a path that workers cite

N == 1..4
N3 == 1..3
Digraphs(S) == SUBSET {e \in S \X S : e[1] # e[2]}

\* Every acyclic graph of four nodes, and every graph of three of them.
MCGraphs == {E \in Digraphs(N) : AcyclicGraph(E)} \union Digraphs(N3)

\* A directory, two files below it and a node that writes nothing; and no writes.
NestedWrites == <<{<<Src>>}, {<<Src, A>>}, {<<Src, B>>}, {}>>
NoWrites == <<{}, {}, {}, {}>>
MCWriteScopes == {NestedWrites, NoWrites}

-----------------------------------------------------------------------------
(* Workers *)

Worker(backend, enabled, offers, zone, soft) ==
  [backend |-> backend, enabled |-> enabled, offers |-> offers, context |-> 64,
   value |-> [isolation |-> "staged_copy", protocol |-> "native", zone |-> zone],
   soft |-> soft, preference |-> 0]

\* Two that graph-run can materialize, one that it cannot, one that is disabled.
Manifest ==
  <<Worker("claude_cli", TRUE, {"read", "patch"}, "external", [documentation |-> 8, debugging |-> 4]),
    Worker("codex_subagent", TRUE, {"read"}, "provider", [documentation |-> 6]),
    Worker("external_cli", TRUE, {"read", "patch"}, "external", [debugging |-> 6]),
    Worker("claude_cli", FALSE, {"read", "patch"}, "external", [documentation |-> 9])>>

Outcome(dimensions, status, attribution) ==
  [dimensions |-> dimensions, status |-> status, attribution |-> attribution]

Nothing == << >>
Failure1 == <<Outcome({"documentation"}, "failed", "worker_error")>>
Mixed == <<Outcome({"documentation", "debugging"}, "success", "none"),
           Outcome({}, "failed", "worker_error")>>
Unlucky == <<Outcome({"documentation"}, "failed", "environment_failure"),
             Outcome({"debugging"}, "blocked", "permission_blocked")>>

MCHistories ==
  {<<Nothing, Nothing, Nothing, Nothing>>,
   <<Failure1, Mixed, Unlucky, Nothing>>,
   <<Unlucky, Unlucky, Mixed, Failure1>>}

-----------------------------------------------------------------------------
(* Proposals *)

Needs(all, zones) ==
  [all |-> all, context |-> 32, any |-> [isolation |-> {}, protocol |-> {}, zone |-> zones]]

Reads == Needs({"read"}, {})
Patches == Needs({"read", "patch"}, {})
Stays == Needs({"read"}, {"provider"})

Check(template, form, argument) == [template |-> template, form |-> form, argument |-> argument]
Exists == Check("file_exists", "inside", "a")

ANode(id, kind, refs, deps, needs) ==
  [id |-> id, kind |-> kind, refs |-> refs, deps |-> deps, mode |-> "read_only", writes |-> {},
   places |-> {"inside"}, checks |-> <<Exists>>, evidence |-> FALSE, semantic |-> FALSE,
   contribution |-> FALSE, needs |-> needs, soft |-> [documentation |-> 5]]

Patching(node, scope) == [node EXCEPT !.mode = "patch", !.writes = scope, !.checks = << >>]

Criterion(id, check, refs) == [id |-> id, check |-> check, refs |-> refs]
Requirement(id, kind, required) == [id |-> id, kind |-> kind, required |-> required]

Proposal(requirements, criteria, nodes) ==
  [version |-> 1, mode |-> "execute", requirements |-> requirements, criteria |-> criteria,
   nodes |-> nodes]

Fix == Requirement("fix", "deliverable", TRUE)
Docs == Requirement("docs", "acceptance", TRUE)
Style == Requirement("style", "constraint", FALSE)
Speed == Requirement("speed", "preference", FALSE)

Tested == Criterion("tested", "tests_pass", {"fix"})
Reviewed == Criterion("reviewed", "semantic_review", {"docs"})

\* One patch, two below it, one that merges; the style is asked of every patch.
Diamond ==
  Proposal(<<Fix, Docs, Style>>, <<Tested>>,
    <<Patching(ANode(1, "work", {"fix", "style"}, {}, Patches), NestedWrites[1]),
      Patching(ANode(2, "work", {"fix", "style"}, {1}, Patches), NestedWrites[2]),
      Patching(ANode(3, "work", {"docs"}, {1}, Patches), NestedWrites[3]),
      ANode(4, "merge", {"fix", "docs"}, {2, 3}, Reads)>>)

\* Reports only, to a provider and to anyone; a reviewer has the last word.
Planned ==
  [Proposal(<<Fix, Docs>>, <<Tested, Reviewed>>,
     <<ANode(1, "probe", {"fix"}, {}, Stays), ANode(2, "work", {"docs"}, {1}, Stays),
       ANode(3, "work", {"fix"}, {2}, Stays), ANode(4, "merge", {"docs"}, {3}, Reads)>>)
   EXCEPT !.mode = "plan"]

\* Nothing else depends on the last node, and what it does another one does as well.
Spare ==
  Proposal(<<Fix, Docs>>, <<Tested>>,
    <<ANode(1, "probe", {"docs"}, {}, Stays), ANode(2, "work", {"fix"}, {1}, Stays),
      ANode(3, "work", {"fix"}, {2}, Stays), ANode(4, "work", {"fix"}, {3}, Stays)>>)

WithNode(p, n, node) == [p EXCEPT !.nodes[n] = node]

\* What compiles and yet leaves something open.
Open ==
  {WithNode(Spare, 4, [Spare.nodes[4] EXCEPT !.kind = "decision", !.checks = << >>, !.contribution = TRUE]),
   WithNode(Spare, 4, [Spare.nodes[4] EXCEPT !.semantic = TRUE]),
   [Spare EXCEPT !.requirements = Append(@, Style)],
   [Spare EXCEPT !.requirements = Append(@, Speed),
                 !.criteria = Append(@, Criterion("fast", "tests_pass", {"speed"}))]}

\* One proposal for every gate, and one for each way past it.
Refused ==
  {[Spare EXCEPT !.version = 2],
   [Spare EXCEPT !.requirements = Append(@, Fix)],
   [Spare EXCEPT !.criteria = Append(@, Criterion("tested", "tests_pass", {"docs"}))],
   [Spare EXCEPT !.nodes = Append(@, ANode(4, "work", {"fix"}, {}, Reads))],
   WithNode(Spare, 4, [Spare.nodes[4] EXCEPT !.refs = {"fix", "unknown"}]),
   WithNode(Spare, 4, [Spare.nodes[4] EXCEPT !.deps = {5}]),
   WithNode(Spare, 4, [Spare.nodes[4] EXCEPT !.deps = {4}]),
   WithNode(Spare, 4, [Spare.nodes[4] EXCEPT !.soft = [implementation |-> 5]]),
   WithNode(Spare, 4, [Spare.nodes[4] EXCEPT !.soft = [documentation |-> 11]]),
   [Spare EXCEPT !.criteria = <<Criterion("tested", "tests_pass", {"unknown"})>>],
   [Spare EXCEPT !.nodes = << >>],
   [Spare EXCEPT !.criteria = << >>],
   [Spare EXCEPT !.criteria = <<Criterion("tested", "tests_pass", {"docs"})>>],
   [Spare EXCEPT !.nodes[1].refs = {}, !.criteria = Append(@, Reviewed)],
   [Spare EXCEPT !.requirements = Append(@, Style), !.nodes[4].refs = {"style"}],
   [Planned EXCEPT !.nodes = [i \in DOMAIN @ |->
      [@[i] EXCEPT !.writes = NestedWrites[i], !.mode = IF i = 4 THEN "read_only" ELSE "execute"]]],
   WithNode(Spare, 4, [Spare.nodes[4] EXCEPT !.places = {"inside", "outside"}]),
   WithNode(Spare, 4, [Spare.nodes[4] EXCEPT !.mode = "patch"]),
   WithNode(Spare, 4, [Spare.nodes[4] EXCEPT !.writes = NestedWrites[1]]),
   WithNode(Spare, 4, [Spare.nodes[4] EXCEPT !.checks = <<Check("no_such_check", "absent", "")>>]),
   WithNode(Spare, 4, [Spare.nodes[4] EXCEPT !.checks = <<Check("file_exists", "outside", "b")>>]),
   WithNode(Spare, 4, [Spare.nodes[4] EXCEPT !.checks = <<Exists, Exists>>]),
   WithNode(Spare, 4, [Spare.nodes[4] EXCEPT !.checks = <<Check("patch_non_empty", "absent", "")>>]),
   WithNode(Spare, 4, [Spare.nodes[4] EXCEPT !.checks = << >>]),
   WithNode(Spare, 4, [Spare.nodes[4] EXCEPT !.checks = << >>, !.contribution = TRUE]),
   WithNode(Spare, 4, [Spare.nodes[4] EXCEPT !.needs = Needs({"paint"}, {})]),
   [Spare EXCEPT !.nodes[1].deps = {3}, !.nodes[4].deps = {}]}

MCProposals == {Diamond, Planned, Spare} \union Open \union Refused
=============================================================================
