----------------------------- MODULE FolderTree -----------------------------
(***************************************************************************)
(* The folders of an environment and the workflows in them (FolderService, *)
(* routes/folders.ts), with the copy of the tree that GitService pushes    *)
(* and pulls.                                                              *)
(*                                                                         *)
(* A request reads, checks, and writes in another call of the database;    *)
(* other requests come between.  A transaction is one step.  Foreign keys  *)
(* hold: a write that names a folder without a row fails.  Names of        *)
(* folders, and so renameFolder, are left out.                             *)
(***************************************************************************)
EXTENDS Naturals, FiniteSets

CONSTANTS
  Folders, Workflows,
  Requests,      \* requests that can be under way at a time
  MaxRequests,   \* bound: requests that begin
  None

ASSUME MaxRequestsAssumption == MaxRequests \in Nat

ASSUME ItemsAssumption ==
  Folders \cap Workflows = {} /\ None \notin Folders \cup Workflows

Items   == Folders \cup Workflows
Parents == Folders \cup {None}

VARIABLES
  alive,      \* folders that have a row
  unborn,     \* folders whose id was never used
  parent,     \* Folder.parentId, and Workflow.folderId
  repo,       \* the folders in the repository's manifest, and their and the
              \* workflows' folders there
  job,        \* what each request has read and is about to write
  begun,      \* requests that began
  clean,      \* history: requests since whose read nobody else wrote a folder
  overlapped  \* history: a move, deletion or pull wrote although it was not clean

tree    == <<alive, unborn, parent>>
history == <<clean, overlapped>>
vars    == <<tree, repo, job, begun, history>>

Manifest == [has : SUBSET Folders, parent : [Items -> Parents]]

\* id, to: the folder of a move or deletion and the parent it gets or had; to is
\* also the parent of a folder to create.  plan, left: what a pull read, and the
\* items of it that are still to be written.
Job == [op : {"idle", "move", "walk", "delete", "create", "pull"},
        id : Parents, to : Parents, plan : Manifest, left : SUBSET Items]

NoManifest == [has |-> {}, parent |-> [i \in Items |-> None]]

About(op, id, to) ==
  [op |-> op, id |-> id, to |-> to, plan |-> NoManifest, left |-> {}]

Pulling(plan, left) ==
  [op |-> "pull", id |-> None, to |-> None, plan |-> plan, left |-> left]

Idle == About("idle", None, None)

\* No set of folders holds the parent of each of its members.
Acyclic(has, par) == \A S \in SUBSET has : S # {} => \E f \in S : par[f] \notin S

\* Any folders in any tree, the workflows at the root.
Init ==
  /\ alive \in SUBSET Folders
  /\ unborn = Folders \ alive
  /\ parent \in {p \in [Items -> Parents] :
                  /\ \A f \in alive : p[f] \in alive \cup {None}
                  /\ \A i \in Items \ alive : p[i] = None
                  /\ Acyclic(alive, p)}
  /\ repo = NoManifest
  /\ job = [r \in Requests |-> Idle]
  /\ begun = 0
  /\ clean = {}
  /\ overlapped = FALSE

-----------------------------------------------------------------------------
(* Reading the tree. *)
ClosedUnder(S, id) == \A f \in alive : parent[f] \in S \cup {id} => f \in S

\* Mutant: only the children.
ChildrenOf(id) == {f \in alive : parent[f] = id}

\* _collectDescendantIds
Descendants(id) == {f \in alive : \A S \in SUBSET alive : ClosedUnder(S, id) => f \in S}

\* buildTree: the folders that the page reaches from those without a parent.
Shown == Descendants(None)

OnCycle(id) == id \in Descendants(id)

HasRow(p) == p = None \/ p \in alive

-----------------------------------------------------------------------------
(* Requests. *)
Is(r, op) == job[r].op = op

Begins(r) ==
  /\ Is(r, "idle")
  /\ begun < MaxRequests
  /\ begun' = begun + 1

Reads(r, j) ==
  /\ Begins(r)
  /\ job' = [job EXCEPT ![r] = j]
  /\ clean' = clean \cup {r}
  /\ UNCHANGED <<tree, repo, overlapped>>

\* r has written a folder: the others' reads are stale.
Wrote(r) == clean' = clean \cap {r}

Ends(r) == job' = [job EXCEPT ![r] = Idle] /\ UNCHANGED begun

Fails(r) == Ends(r) /\ UNCHANGED <<tree, repo, history>>

Checked(r) == overlapped' = (overlapped \/ r \notin clean)

\* Bound: an id is left for every folder that is being created.
IdsLeft == Cardinality({q \in Requests : Is(q, "create")}) < Cardinality(unborn)

\* createFolder; a parent was found.
CreateRead(r) ==
  /\ IdsLeft
  /\ \E p \in alive : Reads(r, About("create", None, p))

Insert(f, p) ==
  /\ alive' = alive \cup {f}
  /\ unborn' = unborn \ {f}
  /\ parent' = [parent EXCEPT ![f] = p]

CreateWrite(r) ==
  /\ Is(r, "create")
  /\ \/ /\ job[r].to \in alive
        /\ \E f \in unborn : Insert(f, job[r].to)
        /\ Ends(r)
        /\ Wrote(r)
        /\ UNCHANGED <<repo, overlapped>>
     \/ job[r].to \notin alive /\ Fails(r)

\* createFolder without a parent: nothing is read.
CreateRoot(r) ==
  /\ Begins(r)
  /\ IdsLeft
  /\ \E f \in unborn : Insert(f, None)
  /\ Wrote(r)
  /\ UNCHANGED <<repo, job, overlapped>>

\* Mutant: the folder itself is not refused.
MoveReadBelowItself(r) ==
  \E f \in alive, p \in alive :
    /\ ~ OnCycle(f)
    /\ p \notin Descendants(f)
    /\ Reads(r, About("move", f, p))

\* moveFolder under p; an id without a row would fail at the write.  The walk
\* over the descendants of a folder that lies on a cycle does not end.
MoveRead(r) ==
  \E f \in alive, p \in alive :
    \/ /\ ~ OnCycle(f)
       /\ p # f /\ p \notin Descendants(f)
       /\ Reads(r, About("move", f, p))
    \/ OnCycle(f) /\ Reads(r, About("walk", f, p))

\* Mutant: a move to a folder without a row is not answered.
MoveWriteOnlyWithRows(r) ==
  /\ Is(r, "move")
  /\ job[r].id \in alive /\ job[r].to \in alive
  /\ parent' = [parent EXCEPT ![job[r].id] = job[r].to]
  /\ Ends(r)
  /\ Wrote(r)
  /\ Checked(r)
  /\ UNCHANGED <<alive, unborn, repo>>

MoveWrite(r) ==
  /\ Is(r, "move")
  /\ \/ /\ job[r].id \in alive /\ job[r].to \in alive
        /\ parent' = [parent EXCEPT ![job[r].id] = job[r].to]
        /\ Ends(r)
        /\ Wrote(r)
        /\ Checked(r)
        /\ UNCHANGED <<alive, unborn, repo>>
     \/ ~ (job[r].id \in alive /\ job[r].to \in alive) /\ Fails(r)

\* moveFolder to the root: nothing is read.
MoveToRoot(r) ==
  /\ Begins(r)
  /\ \E f \in alive : parent' = [parent EXCEPT ![f] = None]
  /\ Wrote(r)
  /\ UNCHANGED <<alive, unborn, repo, job, overlapped>>

DeleteRead(r) ==
  \E f \in alive : Reads(r, About("delete", f, parent[f]))

\* Mutant: the contents are not moved before the row goes.
NotEmptied(id, p) ==
  [i \in Items |-> IF i = id THEN None ELSE IF parent[i] # id THEN parent[i] ELSE id]

\* Contents of id when its row is gone: they were moved to p, and what is then
\* below id itself is set to null with the row.
Emptied(id, p) ==
  [i \in Items |-> IF i = id THEN None
                   ELSE IF parent[i] # id THEN parent[i]
                   ELSE IF p = id THEN None ELSE p]

\* deleteFolder's transaction.
DeleteWrite(r) ==
  LET id == job[r].id
      to == job[r].to
      possible == id \in alive /\ (HasRow(to) \/ \A i \in Items : parent[i] # id)
  IN  /\ Is(r, "delete")
      /\ \/ /\ possible
            /\ parent' = Emptied(id, to)
            /\ alive' = alive \ {id}
            /\ Ends(r)
            /\ Wrote(r)
            /\ Checked(r)
            /\ UNCHANGED <<unborn, repo>>
         \/ ~ possible /\ Fails(r)

\* A workflow is moved into a folder or to the root.
MoveWorkflow(r) ==
  /\ Begins(r)
  /\ \E w \in Workflows, p \in alive \cup {None} : parent' = [parent EXCEPT ![w] = p]
  /\ UNCHANGED <<alive, unborn, repo, job, history>>

-----------------------------------------------------------------------------
(* The repository. *)
\* The tree is written to the manifest; on a cycle buildFolderPaths overflows
\* the stack.
Push(r) ==
  /\ Begins(r)
  /\ \A f \in alive : ~ OnCycle(f)
  /\ repo' = [has |-> alive, parent |-> parent]
  /\ UNCHANGED <<tree, job, history>>

PullRead(r) ==
  /\ repo.has # {}
  /\ Reads(r, Pulling(repo, repo.has \cup Workflows))

Left(r) == job[r].left

Target(r, i) == job[r].plan.parent[i]

\* Mutant: the folders are not sorted.
IsLeft(r, f) == f \in Left(r) \cap Folders

\* _topoSortFolders: a folder comes after its parent.
IsNext(r, f) == f \in Left(r) \cap Folders /\ Target(r, f) \notin Left(r)

Done(r, i) ==
  /\ job' = [job EXCEPT ![r] =
    IF Left(r) = {i} THEN Idle ELSE Pulling(job[r].plan, Left(r) \ {i})]
  /\ UNCHANGED begun

\* The upsert of a folder; it fails with the pull if the parent is gone.
PullFolder(r) ==
  /\ Is(r, "pull")
  /\ \E f \in Folders :
       /\ IsNext(r, f)
       /\ \/ /\ HasRow(Target(r, f))
             /\ Insert(f, Target(r, f))
             /\ Done(r, f)
             /\ Wrote(r)
             /\ Checked(r)
             /\ UNCHANGED repo
          \/ ~ HasRow(Target(r, f)) /\ Fails(r)

\* After the folders the workflows; one that fails is skipped.
PullWorkflow(r) ==
  /\ Is(r, "pull")
  /\ Left(r) \cap Folders = {}
  /\ \E w \in Left(r) :
       /\ \/ HasRow(Target(r, w)) /\ parent' = [parent EXCEPT ![w] = Target(r, w)]
          \/ ~ HasRow(Target(r, w)) /\ UNCHANGED parent
       /\ Done(r, w)
  /\ UNCHANGED <<alive, unborn, repo, history>>

-----------------------------------------------------------------------------
Starts(r) ==
  \/ CreateRead(r) \/ CreateRoot(r) \/ MoveRead(r) \/ MoveToRoot(r)
  \/ DeleteRead(r) \/ MoveWorkflow(r) \/ Push(r) \/ PullRead(r)

Goes(r) ==
  \/ CreateWrite(r) \/ MoveWrite(r) \/ DeleteWrite(r)
  \/ PullFolder(r) \/ PullWorkflow(r)

Next == \E r \in Requests : Starts(r) \/ Goes(r)

Spec == Init /\ [][Next]_vars

\* A request that was accepted is carried on.
FairSpec == Spec /\ \A r \in Requests : WF_vars(Goes(r))

-----------------------------------------------------------------------------
(* Properties. *)
TypeOK ==
  /\ alive \in SUBSET Folders
  /\ unborn \in SUBSET Folders
  /\ parent \in [Items -> Parents]
  /\ repo \in Manifest
  /\ job \in [Requests -> Job]
  /\ begun \in 0 .. MaxRequests
  /\ clean \in SUBSET Requests
  /\ overlapped \in BOOLEAN

RowsHaveParents == \A i \in Items : HasRow(parent[i])

OnlyRowsHaveParents ==
  alive \cap unborn = {} /\ \A f \in Folders \ alive : parent[f] = None

\* What a request that nobody disturbed knows is still so: the target of a move
\* is not below the folder, the folder to delete has the parent that was read,
\* and the folders a pull has written are as in its manifest, in which no parent
\* is missing.
CleanReads ==
  \A r \in clean :
    /\ Is(r, "move") => job[r].to # job[r].id /\ job[r].to \notin Descendants(job[r].id)
    /\ Is(r, "delete") => job[r].id \in alive /\ job[r].to = parent[job[r].id]
    /\ Is(r, "pull") =>
         \A f \in job[r].plan.has \ Left(r) :
           f \in alive /\ parent[f] = Target(r, f) /\ Target(r, f) \notin Left(r)

ManifestsHaveParents ==
  \A m \in {repo} \cup {job[r].plan : r \in Requests} :
    \A f \in m.has : m.parent[f] \in m.has \cup {None}

PullsStayInPlan ==
  \A r \in Requests : Is(r, "pull") => Left(r) \cap Folders \subseteq job[r].plan.has

\* The folders form trees as long as no request's check was overtaken by
\* another's write (moveFolder, deleteFolder and the pull check and write in
\* separate calls).
TreeUnlessOverlapped == ~ overlapped => Acyclic(alive, parent)

\* The inductive invariant.
FolderInvariant ==
  /\ TypeOK
  /\ RowsHaveParents
  /\ OnlyRowsHaveParents
  /\ ManifestsHaveParents
  /\ PullsStayInPlan
  /\ CleanReads
  /\ TreeUnlessOverlapped

\* As long as no check was overtaken every folder can be reached in the tree
\* that the workflows page builds (buildTree drops what it cannot reach).
AllShown == ~ overlapped => Shown = alive

\* A request comes to its end unless requests overlapped: only a cycle can make
\* the walk over the descendants endless.
RequestsEnd == \A r \in Requests : ~ Is(r, "idle") ~> (Is(r, "idle") \/ overlapped)
=============================================================================
