# Verification of c4harness

TLA+ models of the parts of `c4harness` in which several threads, processes or
failures meet, the TLC runs that check them on small instances, and TLAPS proofs
for every instance. `PROJECT.json` maps every definition to the lines it models.

## 1. The system

c4harness lets a main agent delegate bounded coding tasks to cheaper workers. A
task is decomposed into a graph of node contracts; each node goes to a worker in
a staged workspace; its patch is integrated into one workspace the whole graph
shares, verified there, and committed or rolled back; failed attempts are retried
or escalated; what happened goes to a ledger and to the worker's history.

| component | state | operations | what makes it correct |
|---|---|---|---|
| Graph scheduler (`delegator/scheduler.py`), loop (`application/run_graph.py`, `RunGraph`) | state and error of every node, execution order, the batch at work | select a batch, mark running / succeeded / failed, propagate blocking | nothing starts before its sources succeeded; exactly the dependents of failures are blocked; writers in a batch are disjoint; the loop ends |
| Write reservations (`integrator/conflicts.py`) | active table, audit trail | reserve, release, release_node | paths of two nodes never nest; all or nothing; the trail tells the truth |
| Integration workspace (`integrator/service.py`, `patches.py`, `workspace.py`) | the directory, its backup and its copy under construction, fingerprints, the pending rollback, the integration lock | apply_proposal, post_verification_issues, commit, rollback | one transaction at a time; each takes effect whole or not at all; fingerprints match the directory |
| Node execution (`GraphExecutionService`, `delegator/runtime.py`) | per node: attempt, staged copy, proposal, verdict | reserve, stage, run, verify, commit or roll back, retry, release | accepted patches and nothing else end up in the workspace; the lock comes back; every node ends |
| Staging (`delegator/backends/external_cli.py`) | staged copy, baseline | stage inputs, collect the patch | a worker sees what was committed and proposes inside its write paths |
| Retry decision (`decompose/replan.py`) | none (a function) | classify, decide | excluded causes are not retried, the budget is used and not exceeded |
| Attribution and profiles (`history/`) | outcomes per worker | attribute, append, build profiles | a worker is charged with its own failures only |
| Asynchronous tasks (`delegator/async_runtime.py`) | task state, observations, Inbox | create, claim, update, observe, stop, acknowledge | one runtime works on a task; a task that is over has no workload left and its end is in the Inbox; no task is announced with two ends |
| Contract verifier (`verifier/`) | none | checks, phases, combination | blocked over rejected over inconclusive over accepted, in every order |
| Root verifier (`verifier/root.py`) | none | verify_root | "high" means done; a compiled graph that is done can be "high" |
| Proposal and compiler (`decompose/proposal.py`, `verifier_templates.py`, `compiler.py`, `core/graph.py`) | the plan under construction | parse, validate, compile | acyclic, covered, verifiable; refused as a whole or not at all |
| Worker assignment (`decompose/assignment.py`, `capabilities.py`, fallback in `cli/main.py`) | none; reads the history | match, score, rank, fall back | no node goes to a worker it may not go to; evidence moves a score the right way |
| Shared memory ledger (`memory/store.py`) | SQLite tables | record_run, record_subtask | rows agree with the history and the report |
| Usage, router, configuration, CLI, dashboard | none that others rely on | | |

How they interact. `graph-run` parses and compiles a proposal, assigns workers from
the history, passes the gates of consent and credentials, and hands the plan to
`GraphExecutionService`; at the end the root verifier judges what was left behind.
`RunGraph` calls `run_node` on threads of a pool, one per node
of a batch. `run_node` takes the node's reservations, and for each attempt calls
`DelegationRuntime.dispatch`: staging and the worker's process run without any
lock, then dispatch calls back `phased_verifier`, which takes the integration lock
inside `apply_proposal` and leaves it held when a transaction was begun. The lock
is given back in `commit` or `rollback`, wherever on the way out of the attempt
that happens. dispatch turns an exception of the verifier into a verdict, so a
transaction may outlive the verifier that began it.

Asynchronous tasks stand apart: the CLI creates a row in SQLite and starts a
detached process, which claims the row, runs the user's command, and has a worker
look at its logs from time to time. Users meet it through the database only: they
set `stop_requested`, and acknowledge Inbox items.

What is hard: completions in any order; the renames of a transaction seen by
threads that take no lock; exceptions between two steps; rollbacks that fail;
a decision and an attribution computed apart from the same evidence; three records
of one attempt in separate transactions; gates before the execution and a verdict
after it that count the same requirements by different rules; and, in the
asynchronous tasks, crashes between two writes. `PROJECT.json` lists these
hazards with their lines and the properties aimed at them.

## 2. Modules

| module | models | depends on |
|---|---|---|
| `GraphScheduler` | node states and the scheduler's transitions, batch selection | |
| `RunGraph` | the loop that drives it; batches, completions in any order | GraphScheduler |
| `WriteReservations` | the reservation manager | |
| `IntegrationWorkspace` | the directory, transactions, rollbacks, the lock | |
| `PatchTransactions` | what that workspace promises (abstract specification) | |
| `RetryPolicy` | retry decision and attribution of an outcome, as operators | |
| `RetryLoop` | the attempts at one node under that policy, an attempt being one outcome | RetryPolicy |
| `Excerpts` | what a filter keeps of a list, in order | |
| `ContractVerifier` | every check runner, the two phases, the gates between them, as operators | RetryPolicy, Excerpts |
| `NodeAttempts` | the steps of an attempt in dispatch, with ledger, history and report; refines RetryLoop | RetryLoop, ContractVerifier |
| `NodeExecution` | all nodes of a graph at work on one workspace; refines PatchTransactions | IntegrationWorkspace, WriteReservations, RetryPolicy |
| `WorkerAssignment` | eligibility, score with its evidence, ranking, fallback | RetryPolicy, Excerpts |
| `ProposalCompiler` | the proposal, its templates, every gate of the compiler | WorkerAssignment |
| `RootVerifier` | the verdict on a whole graph | ProposalCompiler |
| `GraphExecution` | a proposal from compilation to root verdict; refines RunGraph | RunGraph, RootVerifier |
| `AsyncTask` | one asynchronous task: its runtimes, its workload, its events and Inbox | |
| `RunGraphProofs`, `WriteReservationProofs`, `RetryLoopProofs`, `NodeAttemptsProofs`, `NodeExecutionProofs`, `GraphExecutionProofs`, `AsyncTaskProofs` | theorems about the module of that name | `FiniteOrderProofs` (facts about finite ordered sets, counting, and lists) |
| `MC...` | values of the constants for TLC | |

Definitions whose comment begins with "Variant" are faulty versions of the
definition below them; the specifications do not use them. They show that a
property notices the fault.

### GraphScheduler and RunGraph

`node_states`, `order` are the scheduler's dictionaries; `batch` and the nodes
still to be marked or awaited are the loop's locals. Actions: SelectBatch (first
fit over the ready nodes), MarkNext (one `mark_running`), NodeSucceeds and
NodeFails (one completed future, or the node of a batch of one, with the
propagation of blocking it triggers), BlockRest (no node ready), Finish. The graph
is a set of `requires` edges; write paths are tuples of components.

### WriteReservations

Each operation runs under the manager's lock and is one step. Paths are tuples;
callers pass raw spellings with "." and "..", which are refused or reduced.

### IntegrationWorkspace and NodeExecution

A tree is a function from files to contents. `root`, `backup` and `side` are the
three directories a transaction uses; `NoTree` says that nothing is at a path.
The steps of a node are cut where another thread may look: staging copies one
file at a time; a transaction is built, then renamed away, then renamed in;
verification, scan, ledger, commit or rollback follow. Actions with "Raises" or
"Fails" are the exceptions of the code, counted by `faults` where the operating
system is to blame. `StageRaises` needs no fault: a copy that finds the workspace
renamed away raises in `prepare`, outside the `try` of dispatch. `KeepsPromise` is the refinement: with `committed` the tree a
rollback would restore (or the directory when no transaction is open), and
`accepted` the nodes past their commit, every behaviour is one of
PatchTransactions.

Verification is a choice among verdicts (`Failures` says what each stands for in
the retry policy). The content of a proposal is a choice of new contents for some
files of the node's scope. When a file was changed since it was staged, whether
the hunks still apply is a choice, as it depends on where the lines are.

### RetryPolicy, RetryLoop and NodeAttempts

An outcome is a record of the markers the code inspects. The keyword fallbacks
for verifications without structured failures are left out: the graph flow always
records structured ones. RetryLoop runs attempts over a set of outcomes, with the
choice of a fallback worker of `cli/main.py`; each of its actions ends an attempt.

NodeAttempts takes an attempt apart along `DelegationRuntime.dispatch`: Judge (the
worker and its verification), RecordRun, RecordSubtask and AppendOutcome (three
transactions in two stores), Settle (commit or rollback, and `decide_retry`).
`Abort` raises, or ends the process, before any of them. An observation is
everything an attempt can be judged by: what each check of the contract finds, how
the worker returns, how its patch fares, whether a hook or the verifier raises. What
becomes of it is computed by ContractVerifier: `Runner` has, per template, the result
of every finding; `ExecuteChecks` the order of the checks, which a blocked one ends;
`Verification` the sequence of `phased_verifier` with its early returns.
`ImplementsRetryLoop` is the refinement; all variables of RetryLoop are kept, so the
mapping is the identity.

### ProposalCompiler, WorkerAssignment, RootVerifier and GraphExecution

`Compiles` is the conjunction of the gates, each an operator named for what it asks.
A proposal is a record of the fields that some gate, the assignment or the root
verifier looks at. A score is an exact fraction of hundredths, where the code has
floating point; the ranking puts each worker at the place given by how many go before
it, which is what the code's sort arrives at, as the order is strict and total.

GraphExecution adds to RunGraph the phases of `graph_run_command`: Compile or Refuse,
the execution, Report. During the execution each completion of a node is one of
Accept, Reject and AttemptRaises, and TryAgain is an attempt that is followed by
another: NodeAttempts and NodeExecution have the steps. Nothing between an accepted
verdict and the end of its node can raise: `commit` refuses only a transaction that is
not pending, and `OneTransaction` excludes that. The verdicts and
the paths cited stay in `node_verifications` and `node_evidence`; Report applies
`RootConfidence` to them. `ImplementsRunGraph` says that all this is RunGraph or a
stutter. A graph without a proposal (`NoProposal`) lets RunGraph be checked over
every small graph, cyclic ones included, which no compiled proposal has.

### AsyncTask

`rt` is where each runtime process is in `AsyncTaskRuntime.run`; `asked` and
`outcome` are its locals (the record it has read; the terminal state, or the
worker's report, it is about to write). `status` and `stop_requested` are the
task's row; `events` and `inbox` are the two tables, by event key, as both are
inserted into with INSERT OR IGNORE. Every call of the store is a step, since each
opens a connection of its own, and `acknowledge_task` is two: its SELECT runs
before the transaction of its UPDATEs begins. `CallRaises` is an exception in the
loop, which the handler turns into "failed"; `Die` is the death of the process,
including exceptions before the `try` and inside the handler. Worker reports are
abstracted to their status. Tasks whose callback_mode is not "inbox" are left out:
the CLI creates none. `unanswered` is a history variable: the significant reports
made since the user last acknowledged one of their kind.

## 3. Runs

| run | instance | shows |
|---|---|---|
| parallel_batches | all acyclic graphs of 4 nodes and all graphs of 3, cycles included, nested write paths or none, batches of 2; 34 proposals: 3 that compile in different ways, 4 that compile and leave something open, 27 refused, one or more for each gate; 4 workers, 3 histories, 2 attempts | the loop is safe and ends, and what is blocked has a failure upstream; "high" means done and a done compiled graph is "high"; fallback workers are permitted ones; scores learn in the right direction |
| reservations | 2 nodes; a directory, a file below it, a similar name, the root | reservations keep apart, the trail is true |
| retry_loop | NodeAttempts with 2 attempts, 3 workers, 6 contracts, every finding of every check, every way back, exceptions and deaths anywhere | what is accepted, recorded, retried and charged; the steps make up RetryLoop; every node ends |
| nodes | 2 patching nodes, 1 reporting node that owns their directory, 2 attempts, user edits | the workspace holds exactly what was accepted at the end; a node starts every attempt from committed versions of its own files |
| nodes_with_fault | 2 patching nodes, 2 attempts, littering checks, 1 fault anywhere | one transaction at a time even when a rollback failed; the workspace keeps its promise; the lock comes back; every node ends |
| async_task | 2 runtimes, a worker that reports "running" or "needs_input", a time limit, 1 fault, a user who stops and acknowledges | one runtime works, the end is single and reaches the Inbox, nothing is left running, a stop request is heard |

Runs that show a disagreement between the code and its own words (`findings`):

| run | property violated | in short |
|---|---|---|
| environment_blamed_on_worker | EnvironmentNotBlamed | an OSError of the patch transaction is charged to the worker |
| transaction_left_open | TransactionsAreCompleted | a rollback that raises blocks all later patches of the graph |
| foreign_side_effects | SideEffectsAreOwn | a node's patch is rejected for files that another node's checks wrote |
| workspace_not_addressable | StagesWhatIsThere | between two renames a committed file is staged as new or missing |
| directory_staged_empty | StagesWhatIsThere | below `.c4harness` (the default) directories are staged empty |
| significant_report_lost | ReportsReachInbox | a second "needs_input" after the first was acknowledged is dropped |

Bounds. Four nodes are the least with two branches that join and one that
overlaps; two files and two patching nodes make every pair of steps of two
transactions meet, the third node adds the one that touches the directory
without a transaction; two attempts are the default budget of the code
(`max_attempts`), and three workers tell "the other one" from "the next one". The
contracts of retry_loop have at most two checks, since order matters between a
check and its successor; together they contain every template. The workers of
parallel_batches are one of each backend and one that is disabled. One path to
cite is enough for two nodes to share it. Two runtimes make the claim a race; one
significant report kind stands for the three, which differ in name only.
`MaxFaults = 1`: the code is written to survive one failure at a time. `MaxRecords`
bounds the audit trail only, and is why the reservations run may stop.

Fairness. NodeExecution assumes weak fairness of every thread's next step: worker
processes and commands run under timeouts, so each call returns, and the
integration lock is only waited for, never polled. Weak fairness of the whole
thread is enough because a waiting thread has one thing to do. NodeAttempts is one
thread: weak fairness of its steps, but not of `Abort`. GraphExecution assumes that
the process goes on (weak fairness of its next-state relation): each of its steps is
the end of something that ends. AsyncTask assumes weak fairness of each runtime,
which polls, and calls its worker with a timeout. No fairness is assumed of the
user, of the user's command, or of faults.

## 4. Proofs

Every theorem is for all values of the constants that satisfy the assumptions named
next to their declarations (`NodeAssumption`, `ContractsAssumption`, ...); TLC
evaluates these in the runs.

`RunGraphProofs`, for every graph, write paths and bound:

- `TypeCorrect`: types, plus what the loop's locals say of the scheduler (nothing
  runs while it selects; it waits for exactly the running nodes).
- `SourcesFirst`: by type correctness and the lemma that a ready node's sources
  have succeeded; succeeded is final. `VerdictsStand` from the same types.
- `BlockingIsExact` and `NoDeadlock`: whatever set of graphs is given, cyclic ones
  included; the properties speak of the acyclic ones. The inductive invariant
  says that the blocked nodes are exactly the pending ones downstream of failures;
  it is needed because the property alone does not say why a node about to be
  blocked was pending. Acyclicity enters as the existence of a minimal
  element of every non-empty set of nodes. `ResultIsHonest` adds that the loop
  stops at terminal states only.
- `WritersAreDisjoint` and `ParallelismIsBounded`: first fit is stated as a relation
  on sets of nodes; with the fact that a finite set of numbers has a greatest member
  it gives a batch that fits, and `BatchFits` carries that through the
  completions.
- `SelectionIsGreedy`: `GreedyBatch` is `select_parallel_batch` statement by statement, a
  recursive function of the turns taken; `IsFirstFitBatch` is the relation that
  SelectBatch uses. Two batches that satisfy the relation would differ at a least
  node, where they cannot; one that satisfies it for the first k nodes becomes, by one
  turn, one for the first k + 1. The batches after each turn hence solve the
  recursion, which is all that is known of a recursive function, and least
  counterexamples (`LeastExists`) take the place of induction.
- `OrderIsSound`: the execution order, appended to by each MarkNext.

`GraphExecutionProofs`, for any proposals, histories, manifest and budgets:

- `ExecutionRunsTheGraph`: step by step, each action is one of RunGraph or leaves its
  variables alone. It carries everything above over.
- `CompiledGraphsEnd`: a graph that a compiled proposal runs is that proposal's
  (`GraphInv`), hence acyclic by the gate, and `NoDeadlock` applies.
- `AcceptanceIsEarned` and `CompiledSuccessIsAccepted`: `RootInv` says that a node
  that succeeded in a real run has an accepted verification, and that the root
  verdict is the one computed from what is there now, which holds because nothing
  changes after the report. The rest is algebra of the gates: `Compiles` on one
  side, `RootConfidence` on the other.

- `WorkersFitTheirNodes`: `CandidatesFit` says that from the compilation on every node has
  a list of candidates, all of them eligible for it and, in a real run, ones it may be
  sent to, and a worker out of that list that can be run. It is needed because a
  fallback is chosen long after the gates, from a list they looked at once. That the
  ranking is such a list rests on two lemmas: `RankingIsStrict` (fractions are compared
  totally and transitively, equal scores go by id) and `NumberedFromBelow` (in a finite
  strict total order every number up to its size is the count of what is below some
  member).
- `HistoryIsFair`: an excluded outcome is in no bucket that is counted, so leaving it out
  is a bijection on the evidence (`ExcludedCountForNothing`); one more outcome of the
  node's own dimensions adds as many pieces of evidence as it has dimensions
  (`OneMoreOutcome`); the rest is the arithmetic of fractions (`BetterShare`,
  `FailuresCost`, `FirstFailuresCost`). The last two show where the exception of
  `LearnsFromEvidence` comes from: the loss of share is at least what the certainty gains
  only with a success to lose, or at the first failures.

Both take from `WeightsAssumption` that a sum of weights is a number (the sum is a fold
of the library, whose type is an induction over data) and from `HistoriesAssumption` that
a history is a finite list of outcomes with finitely many dimensions.

`RetryLoopProofs`, for any candidates, budget and outcomes with failures of any number:
`ExcludedEndsTheLoop`, `VetoEndsTheLoop`, `AttemptsAreUsed`, `WorkersAreReplaced`,
`SuccessEndsTheLoop`. The inductive invariant `LoopInv` says that whatever was followed
by another attempt was benign (`RepeatedAreBenign`), why the loop ended
(`EndIsExplained`), and that neighbours in the history differ (`WorkersAlternate`).
The core is that `decide_retry` and `attribute_outcome`, which scan the same list of
failures by different precedences, agree on what is excluded. `OutcomeAssumption`, that
an outcome without failures is a clean success, is what ContractVerifier guarantees.

`NodeAttemptsProofs`, for any contracts with checks of any number and order:

- `VerdictsAreGrounded`: by lemmas about the list operations of the verifier: where
  a blocked check ends the list, an earlier rejection or the block itself is reported.
- `AttemptsImplementTheLoop`, from which `AttemptsInheritTheLoop` has the loop's
  invariants for the detailed attempts without proving them again.
- `RecordsTellTheSame` from `AttemptInv` (the loop's invariant, the verdict under way, and
  where each of the three records stands at each place of dispatch); `FactsAreGrounded`
  from `FactsInv` on top of it.

`WriteReservationProofs`, for any nodes and spellings: `TypeCorrect`,
`ReservationsKeepApart` (inductive with the types: a reservation compares every
requested path with every path of others, and overlap is symmetric),
`HandedOverFree`, and `TrailsAreTrue` (trails of any length; by the parity of the
length).

`NodeExecutionProofs`, for any nodes, scopes, reads, proposals, budget, and number
of failing operations. The inductive invariant, `Consistent`, has five parts, each
inductive relative to those before it:

- `Ownership`: whoever builds a transaction holds the lock; from its installation
  on, the node that is `pending` owns the workspace, even after a failed rollback
  has given the lock away. `OneAtATime` follows from this alone.
- `Edits`: a proposal changes files of its node's scope only.
- `Backups`: whoever has to fall back on the kept copy finds it.
- `Standing`: what verdict a node can have where it is. It is needed because a
  transaction left open must belong to a node that is not tried again: its verdict
  is "environment", and the retry policy never retries that (`EnvironmentEnds`).
- `Trees`: for each step of the owner what the three directories and the
  fingerprints are; with no owner the workspace is calm.

From it follow `QuietBetweenTransactions`, `StartsFromCommitted`,
`NodesTypeCorrect` and `PromiseIsKept`: every step either leaves `Canonical` and the
accepted nodes alone or is Accept, which is AcceptPatch or AcceptReport of
PatchTransactions. These four assume `ReportsCleanly`: checks of nodes that propose
no patch write nothing. The code does not enforce it, and without it the run
foreign_side_effects shows what happens. `LockComesBack` needs no assumption.
`EndsAsCommitted` also assumes `MaxFaults = 0`: with a failing rollback it is false
(transaction_left_open).

A node stages its files one by one without the integration lock, while transactions of
others come and go. That it finds its own files as committed takes four more invariants,
which join the reservations to the workspace:

- `Held` with `Reservations!NoOverlap`: from reserve to release_node a node holds all its
  write paths, in every attempt, so that the scopes of two nodes at work have no file in
  common (`ScopesApart`). Needs no assumption but `PathsAssumption`, that write paths are
  canonical; `NodesAtWorkAreApart` states it on its own.
  In the program the batches keep writers apart already (`DisjointWriters`); NodeExecution
  has no scheduler, and shows that the reservations alone would do.
- `Apart`: while a patch is neither committed nor rolled back, the files outside its
  node's scope are what was committed. It needs `ReportsCleanly` and
  `ChecksStayInScope`: a check writes files of its node's write paths only. The code does
  not enforce this either; it compares the files before and after (`ScanRejects`), but
  only after they were written.
- `Emptied`: what was staged does not outlive its attempt.
- `LeftOpen`, which never ends once it holds: a node is through whose patch was neither
  committed nor rolled back. Then its reservation is given back and its files are
  whatever was left. `OwnFilesStagedUnlessLeftOpen` has it as the only exception, and
  `OwnFilesStagedAsCommitted` excludes it by `MaxFaults = 0`.

`AsyncTaskProofs`, for any number of runtimes, faults and reports. The invariant has
three parts: `Types`; `Working` (who is at work, and what the row and the workload
are at each of its steps: one runtime is active, a row is "pending" only while
nobody is, and whoever writes a terminal state has stopped the workload); `Books`
(no terminal event exists while a runtime is active, hence the first one written is
the only one, and it is the one of the row). From them follow `TaskTypeCorrect`,
`OneAtWork`, `NoOrphans`, `OneEnd`, `EndInInbox` and `TablesAgree`.

Only model-checked:

- Termination of RunGraph and of NodeExecution, AttemptsEnd and EndIsNoticed: liveness
  under fairness is out of the prover's reach.
- The properties of the findings, which do not hold.

Every invariant and every action property of the passing runs is the statement of a
theorem; the runs come first, since a counterexample is cheaper than a failed proof, and
they show that the assumptions of the theorems are met by states the code can be in.

## 5. Not modelled

- The built-in planner and its operators, which propose plans that pass the same
  gates; `record_decomposition`, the queries and the migrations of the ledger; the
  verifiers of single tasks (`service.py`, `structural.py`, `grounding.py`, `policy.py`),
  which the graph flow does not use.
- The parser's refusals of missing, unknown or ill-typed fields: such a proposal
  never becomes a value the rest of the program sees.
- Floating point of the score, and its estimates of tokens, latency and risk, for
  which the compiler passes no values.
- The text of diffs and reports, prompts, parsing of worker output: data that no
  property here tells apart.
- Router, hooks, configuration, the other commands of the CLI, dashboard, usage: no state another
  component relies on, or pure I/O.
- Of asynchronous tasks: when the next observation is due (backoff), what the worker
  is shown, the log files; tasks share nothing, so one is modelled.
- Three renames failing in a row, after which the workspace is gone; symlinks and
  special files in the workspace.

## 6. What the models do not decide

Where the texts of the repository say less than the models, or something that no
run can contradict, the models follow the code. The places a maintainer may want to
look at:

- docs/decompose.md:230 asks that every required requirement be referenced by nodes and
  by the root contract; the compiler asks the latter of deliverables only
  (`DeliverablesAreRooted`).
- The compiler accepts a node whose only promise is a contribution to the root
  (`ValidTemplateChecks`); `DecompositionPlan.validate` then raises for probe, work and
  merge nodes (`ValidPlan`), and the root verifier calls such a node's success a
  self-report (`LeftOpen`).
- A root criterion with a known template is decided by coverage; the template is not
  run. A criterion or a node check that needs a reviewer can be approved by callers
  of the service only: `graph-run` passes no decisions.
- A patch node's proposal checks do not run for nodes without a patch (`Counts`).
- The ledger's subtask rows carry no node id: rows and attempts are matched by order,
  as in `RecordsAgree`.
- Facts of rejected attempts are stored as verified (`FactsHaveGrounds` says where they
  come from, not that the attempt was accepted).
- A node whose copy of a file meets the two renames of another node's transaction fails
  by an exception (`StageRaises`): it is not tried again, and neither ledger nor history
  has a record of the attempt. That is the window of `workspace_not_addressable` again.
- `subprocess.TimeoutExpired` is charged to the worker.
- A worker that has only failed gains by the next failure: the uncertainty that goes
  weighs more than the quality that is lost. `LearnsFromEvidence` excepts the case.
- The built-in workers declare a soft capability "implementation"
  (config/workers.py:48); it matches none of the names a proposal may use, among which
  is "code_implementation".

## 7. Next

1. In `NodeExecutionProofs`: what remains true of KeepsPromise without ReportsCleanly, up to
   the files that checks write.
2. NodeExecution with the verifier of NodeAttempts instead of a choice of verdicts: one
   refinement from the steps of a thread to the loop over the graph.
3. The planner's operators, as functions from a task to a proposal that compiles.
