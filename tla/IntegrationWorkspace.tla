------------------------ MODULE IntegrationWorkspace ------------------------
(***************************************************************************)
(* The one workspace all nodes of a graph share, and the patch transaction *)
(* on it (GraphIntegrationSession of c4harness/integrator/service.py with  *)
(* PatchApplier of patches.py and IntegrationSnapshot of workspace.py).    *)
(*                                                                         *)
(* The workspace is a directory.  A transaction builds a patched copy      *)
(* beside it, renames the workspace away (the copy to fall back on),       *)
(* renames the patched copy into its place, and keeps the integration lock *)
(* until it is committed or rolled back.  Between the two renames there is *)
(* no directory at the workspace's path.  A rename, and the rescan after a *)
(* rollback, may raise OSError.                                            *)
(*                                                                         *)
(* A tree maps every file to its content; the content of a file that does  *)
(* not exist is Absent.  Excluded directories and empty directories are in *)
(* no tree.                                                                *)
(***************************************************************************)
EXTENDS Naturals

CONSTANTS
  Node,       \* the nodes of the graph
  File,       \* the files of the repository and those that patches create
  Content,    \* what a file can hold
  Absent,     \* the content of a file that does not exist
  NoTree,     \* "no directory at this path"
  NoNode,     \* nobody
  Source,     \* the source repository when the snapshot was taken
  MaxFaults   \* bound: how many file system operations fail

Tree == [File -> Content]

ASSUME AbsentAssumption == Absent \in Content
ASSUME NoTreeAssumption == NoTree \notin Tree
ASSUME NobodyAssumption == NoNode \notin Node
ASSUME SourceAssumption == Source \in Tree
ASSUME FaultsAssumption == MaxFaults \in Nat

VARIABLES
  root,         \* the tree at the workspace's path
  backup,       \* the tree a rollback restores
  side,         \* the copy under construction, or the rejected tree
  file_states,  \* the fingerprints the snapshot believes root has
  pending,      \* pending_rollback: the node whose patch is neither committed
                \* nor rolled back
  lock,         \* the holder of the integration lock, between its steps
  faults        \* how many operations have failed

workspaceVars == <<root, backup, side, file_states, pending, lock, faults>>

WorkspaceInit ==
  /\ root = Source
  /\ backup = NoTree
  /\ side = NoTree
  /\ file_states = Source
  /\ pending = NoNode
  /\ lock = NoNode
  /\ faults = 0

\* What the commits so far have made of the source.
Canonical == IF backup # NoTree THEN backup ELSE root

Patched(tree, edit) == [f \in File |-> IF f \in DOMAIN edit THEN edit[f] ELSE tree[f]]

Fault == faults < MaxFaults /\ faults' = faults + 1
NoFault == UNCHANGED faults

LockFree == lock = NoNode

-----------------------------------------------------------------------------
(* apply_proposal *)

\* The hunks of edit, computed from the contents in view, are accepted: a new
\* file is unknown to the snapshot, a changed one is known and on disk.
HunksValid(edit, view) ==
  /\ root # NoTree
  /\ \A f \in DOMAIN edit :
       IF view[f] = Absent
       THEN file_states[f] = Absent
       ELSE file_states[f] # Absent /\ root[f] # Absent

\* Every context line matches for certain: the files are as they were read.
ContextMatches(edit, view) ==
  root # NoTree /\ \A f \in DOMAIN edit : view[f] # Absent => root[f] = view[f]

\* Variant: a transaction is begun whatever became of the previous one.
MayBeginAnyway(edit, view) == LockFree /\ HunksValid(edit, view)

\* Nothing stands in the way of a transaction.  When a file was changed since
\* it was read its hunks may still apply.
MayBegin(edit, view) == LockFree /\ pending = NoNode /\ HunksValid(edit, view)

\* The proposal is turned down under the lock, and the lock given back.
MayRefuse(edit, view) ==
  LockFree /\ ~(pending = NoNode /\ HunksValid(edit, view) /\ ContextMatches(edit, view))

BuildTransaction(n, edit) ==
  /\ lock' = n
  /\ side' = Patched(root, edit)
  /\ UNCHANGED <<root, backup, file_states, pending, faults>>

MoveRootAway(n) ==
  /\ backup' = root
  /\ root' = NoTree
  /\ UNCHANGED <<side, file_states, pending, lock, faults>>

InstallTransaction(n, edit) ==
  /\ root' = side
  /\ side' = NoTree
  /\ file_states' = Patched(file_states, edit)
  /\ pending' = n
  /\ UNCHANGED <<backup, lock, faults>>

\* Variant: the old tree is not put back.
AbandonInstall(n) ==
  /\ Fault
  /\ backup' = NoTree
  /\ side' = NoTree
  /\ lock' = NoNode
  /\ UNCHANGED <<root, file_states, pending>>

\* One of the two renames raises: the old tree is back at its path.
AbandonTransaction(n) ==
  /\ Fault
  /\ root' = IF backup = NoTree THEN root ELSE backup
  /\ backup' = NoTree
  /\ side' = NoTree
  /\ lock' = NoNode
  /\ UNCHANGED <<file_states, pending>>

-----------------------------------------------------------------------------
(* commit and rollback.  The caller may have lost the lock to a rollback    *)
(* that failed; releasing is then skipped.                                  *)

ReleaseLock(n) == lock' = IF lock = n THEN NoNode ELSE lock

Commit(n) ==
  /\ backup' = NoTree
  /\ pending' = NoNode
  /\ ReleaseLock(n)
  /\ UNCHANGED <<root, side, file_states, faults>>

MoveRejectedAway(n) ==
  /\ side' = root
  /\ root' = NoTree
  /\ UNCHANGED <<backup, file_states, pending, lock, faults>>

\* Variant: the fingerprints are left as the patch made them.
RestoreWithoutRescan(n) ==
  /\ root' = backup
  /\ backup' = NoTree
  /\ side' = NoTree
  /\ pending' = NoNode
  /\ ReleaseLock(n)
  /\ UNCHANGED <<file_states, faults>>

RestoreBackup(n) ==
  /\ root' = backup
  /\ backup' = NoTree
  /\ side' = NoTree
  /\ file_states' = backup
  /\ pending' = NoNode
  /\ ReleaseLock(n)
  /\ UNCHANGED faults

\* A rename of the rollback raises: the patched tree is at its path again, the
\* transaction still pending, the lock given back all the same.
RollbackRaises(n) ==
  /\ Fault
  /\ root' = IF root = NoTree THEN side ELSE root
  /\ side' = NoTree
  /\ ReleaseLock(n)
  /\ UNCHANGED <<backup, file_states, pending>>

\* The old tree is back, but rescanning it raises: the transaction stays
\* pending although there is nothing left to roll back.
RescanRaises(n) ==
  /\ Fault
  /\ root' = backup
  /\ backup' = NoTree
  /\ side' = NoTree
  /\ ReleaseLock(n)
  /\ UNCHANGED <<file_states, pending>>

-----------------------------------------------------------------------------
(* What goes on in the directory without the session: a check writes files. *)

ChecksWrite(files, c) ==
  /\ root # NoTree
  /\ root' = [f \in File |-> IF f \in files THEN c ELSE root[f]]
  /\ UNCHANGED <<backup, side, file_states, pending, lock, faults>>

\* post_verification_issues
SideEffects == root # file_states
=============================================================================
