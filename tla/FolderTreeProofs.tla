-------------------------- MODULE FolderTreeProofs --------------------------
(***************************************************************************)
(* The inductive invariant of FolderTree, for any folders, workflows and   *)
(* requests: as long as no request's check was overtaken by another's      *)
(* write, the folders form trees and the page shows all of them.           *)
(***************************************************************************)
EXTENDS FolderTree, TLAPS

-----------------------------------------------------------------------------
(* Trees. *)
\* The descendants are closed under the children.
LEMMA DescendantsClosed ==
  ASSUME NEW id
  PROVE  /\ Descendants(id) \subseteq alive
         /\ \A f \in alive : parent[f] \in Descendants(id) \cup {id} => f \in Descendants(id)
<1>1. ASSUME NEW f \in alive, parent[f] \in Descendants(id) \cup {id},
             NEW S \in SUBSET alive, ClosedUnder(S, id)
      PROVE  f \in S
  BY <1>1 DEF Descendants, ClosedUnder
<1> QED  BY <1>1 DEF Descendants

\* A folder put below one that is not below it makes no cycle.
LEMMA MoveAcyclic ==
  ASSUME parent \in [Items -> Parents], alive \subseteq Items, Acyclic(alive, parent),
         NEW id \in alive, NEW to \in alive, to # id, to \notin Descendants(id)
  PROVE  Acyclic(alive, [parent EXCEPT ![id] = to])
<1> DEFINE new == [parent EXCEPT ![id] = to]
<1>1. new[id] = to /\ \A f \in alive \ {id} : new[f] = parent[f]
  OBVIOUS
<1> SUFFICES ASSUME NEW S \in SUBSET alive, S # {}, \A f \in S : new[f] \in S
             PROVE  FALSE
  BY DEF Acyclic
<1>2. CASE id \notin S
  <2>1. \A f \in S : parent[f] \in S
    BY <1>1, <1>2
  <2> QED  BY <2>1 DEF Acyclic
<1>3. CASE id \in S
  <2> DEFINE below == Descendants(id) \cup {id}
             T     == S \ below
  <2>1. to \in T
    BY <1>1, <1>3
  <2>2. \A f \in T : parent[f] \in T
    <3> SUFFICES ASSUME NEW f \in T PROVE parent[f] \in T
      OBVIOUS
    <3>1. parent[f] \in S
      BY <1>1
    <3>2. parent[f] \notin below
      BY DescendantsClosed
    <3> QED  BY <3>1, <3>2
  <2> QED  BY <2>1, <2>2 DEF Acyclic
<1> QED  BY <1>2, <1>3

\* A folder without children gets any parent but itself.
LEMMA NewAcyclic ==
  ASSUME parent \in [Items -> Parents], alive \subseteq Items, Acyclic(alive, parent),
         NEW id \in Items \ alive, \A f \in alive : parent[f] # id,
         NEW to \in alive \cup {None}, id # None
  PROVE  Acyclic(alive \cup {id}, [parent EXCEPT ![id] = to])
<1> DEFINE new == [parent EXCEPT ![id] = to]
<1>1. new[id] = to /\ \A f \in alive : new[f] = parent[f]
  OBVIOUS
<1> SUFFICES ASSUME NEW S \in SUBSET (alive \cup {id}), S # {}, \A f \in S : new[f] \in S
             PROVE  FALSE
  BY DEF Acyclic
<1>2. S \ {id} # {}
  BY <1>1
<1>3. \A f \in S \ {id} : parent[f] \in S \ {id}
  BY <1>1
<1> QED  BY <1>2, <1>3 DEF Acyclic

\* A folder at the root.
LEMMA RootAcyclic ==
  ASSUME parent \in [Items -> Parents], alive \subseteq Items, None \notin alive,
         Acyclic(alive, parent), NEW id \in alive
  PROVE  Acyclic(alive, [parent EXCEPT ![id] = None])
<1> DEFINE new == [parent EXCEPT ![id] = None]
<1>1. new[id] = None /\ \A f \in alive \ {id} : new[f] = parent[f]
  OBVIOUS
<1> SUFFICES ASSUME NEW S \in SUBSET alive, S # {}, \A f \in S : new[f] \in S
             PROVE  FALSE
  BY DEF Acyclic
<1>2. \A f \in S : parent[f] \in S
  BY <1>1
<1> QED  BY <1>2 DEF Acyclic

\* The children of a deleted folder become its parent's.
LEMMA EmptiedAcyclic ==
  ASSUME parent \in [Items -> Parents], alive \subseteq Items, None \notin alive,
         Acyclic(alive, parent), NEW id \in alive
  PROVE  Acyclic(alive \ {id}, Emptied(id, parent[id]))
<1> DEFINE new == Emptied(id, parent[id])
<1>1. \A f \in alive \ {id} :
        new[f] = IF parent[f] # id THEN parent[f]
                 ELSE IF parent[id] = id THEN None ELSE parent[id]
  BY DEF Emptied
<1> SUFFICES ASSUME NEW S \in SUBSET (alive \ {id}), S # {}, \A f \in S : new[f] \in S
             PROVE  FALSE
  BY DEF Acyclic
<1>2. CASE \A f \in S : parent[f] # id
  BY <1>1, <1>2 DEF Acyclic
<1>3. CASE \E f \in S : parent[f] = id
  <2>1. \A f \in S : parent[f] \in S \cup {id}
    BY <1>1
  <2>2. parent[id] \in S
    BY <1>1, <1>3
  <2>3. S \cup {id} \in SUBSET alive
    OBVIOUS
  <2>4. \A f \in S \cup {id} : parent[f] \in S \cup {id}
    BY <2>1, <2>2
  <2> QED  BY <2>3, <2>4 DEF Acyclic
<1> QED  BY <1>2, <1>3

\* A folder put below those that a pull has written makes no cycle: from them
\* only the pull's folders are reached.
LEMMA PullAcyclic ==
  ASSUME parent \in [Items -> Parents], alive \subseteq Items, None \notin alive,
         Acyclic(alive, parent),
         NEW done \in SUBSET alive, \A f \in done : parent[f] \in done \cup {None},
         NEW id \in Items \ done, NEW to \in done \cup {None}, id # None
  PROVE  Acyclic(alive \cup {id}, [parent EXCEPT ![id] = to])
<1> DEFINE new == [parent EXCEPT ![id] = to]
<1>1. new[id] = to /\ \A f \in alive \ {id} : new[f] = parent[f]
  OBVIOUS
<1> SUFFICES ASSUME NEW S \in SUBSET (alive \cup {id}), S # {}, \A f \in S : new[f] \in S
             PROVE  FALSE
  BY DEF Acyclic
<1>2. CASE id \notin S
  <2>1. S \in SUBSET alive /\ \A f \in S : parent[f] \in S
    BY <1>1, <1>2
  <2> QED  BY <2>1 DEF Acyclic
<1>3. CASE id \in S
  <2> DEFINE T == S \cap done
  <2>1. to \in T
    BY <1>1, <1>3
  <2>2. \A f \in T : parent[f] \in T
    BY <1>1
  <2>3. T \in SUBSET alive
    OBVIOUS
  <2> QED  BY <2>1, <2>2, <2>3 DEF Acyclic
<1> QED  BY <1>2, <1>3

\* In a forest every folder is reached from the root.
LEMMA ForestIsShown ==
  ASSUME Acyclic(alive, parent), \A f \in alive : parent[f] \in alive \cup {None}
  PROVE  Shown = alive
<1> DEFINE S == alive \ Descendants(None)
<1>1. \A f \in S : parent[f] \in S
  BY DescendantsClosed
<1>2. S = {}
  BY <1>1 DEF Acyclic
<1> QED  BY <1>2, DescendantsClosed DEF Shown

-----------------------------------------------------------------------------
(* Types. *)
LEMMA RootIsManifest == NoManifest \in Manifest
<1>1. [i \in Items |-> None] \in [Items -> Parents] /\ {} \in SUBSET Folders
  BY DEF Parents
<1> QED  BY <1>1, Zenon DEF NoManifest, Manifest

LEMMA AboutTypes ==
  ASSUME NEW op \in {"idle", "move", "walk", "delete", "create"},
         NEW id \in Parents, NEW to \in Parents
  PROVE  /\ About(op, id, to) \in Job
         /\ About(op, id, to).op = op
         /\ About(op, id, to).id = id /\ About(op, id, to).to = to
         /\ About(op, id, to).plan = NoManifest
<1>1. {} \in SUBSET Items
  OBVIOUS
<1>2. op \in {"idle", "move", "walk", "delete", "create", "pull"}
  OBVIOUS
<1>3. About(op, id, to) \in Job
  BY <1>1, <1>2, RootIsManifest, Zenon DEF About, Job
<1> QED  BY <1>3 DEF About

LEMMA PullingTypes ==
  ASSUME NEW plan \in Manifest, NEW left \in SUBSET Items
  PROVE  /\ Pulling(plan, left) \in Job
         /\ Pulling(plan, left).op = "pull"
         /\ Pulling(plan, left).plan = plan /\ Pulling(plan, left).left = left
<1>1. None \in Parents /\ "pull" \in {"idle", "move", "walk", "delete", "create", "pull"}
  BY DEF Parents
<1>2. Pulling(plan, left) \in Job
  BY <1>1, Zenon DEF Pulling, Job
<1> QED  BY <1>2 DEF Pulling

LEMMA IdleTypes ==
  Idle \in Job /\ Idle.op = "idle" /\ Idle.plan = NoManifest
BY AboutTypes DEF Idle, Parents

\* What is known of a request's record.
LEMMA JobFields ==
  ASSUME TypeOK, NEW r \in Requests
  PROVE  /\ job[r].op \in {"idle", "move", "walk", "delete", "create", "pull"}
         /\ job[r].id \in Parents /\ job[r].to \in Parents
         /\ job[r].plan \in Manifest /\ job[r].left \in SUBSET Items
<1>1. job[r] \in Job
  BY DEF TypeOK
<1> QED  BY <1>1, Zenon DEF Job

LEMMA ManifestFields ==
  ASSUME NEW m \in Manifest
  PROVE  m.has \in SUBSET Folders /\ m.parent \in [Items -> Parents]
BY Zenon DEF Manifest

-----------------------------------------------------------------------------
(* What keeps the invariant. *)
\* The parts about what requests hold, when a request's record is replaced by
\* one that satisfies them.
Sound(j) ==
  /\ j \in Job
  /\ \A f \in j.plan.has : j.plan.parent[f] \in j.plan.has \cup {None}
  /\ j.op = "pull" => j.left \cap Folders \subseteq j.plan.has

LEMMA IdleIsSound ==
  ASSUME NEW op \in {"idle", "move", "walk", "delete", "create"},
         NEW id \in Parents, NEW to \in Parents
  PROVE  Sound(About(op, id, to))
BY AboutTypes DEF Sound, NoManifest

LEMMA JobsAreSound ==
  ASSUME FolderInvariant, NEW r \in Requests
  PROVE  Sound(job[r])
BY DEF FolderInvariant, TypeOK, Sound, ManifestsHaveParents, PullsStayInPlan, Is, Left

\* A step of r that leaves the tree alone.
LEMMA TreeUnchanged ==
  ASSUME FolderInvariant, NEW r \in Requests, NEW j, Sound(j),
         job' = [job EXCEPT ![r] = j], UNCHANGED <<tree, repo, overlapped>>,
         begun' \in 0 .. MaxRequests, clean' \in SUBSET (clean \cup {r}),
         r \in clean' =>
           /\ j.op = "move" => j.to # j.id /\ j.to \notin Descendants(j.id)
           /\ j.op = "delete" => j.id \in alive /\ j.to = parent[j.id]
           /\ j.op = "pull" => \A f \in j.plan.has \ j.left :
                f \in alive /\ parent[f] = j.plan.parent[f] /\ j.plan.parent[f] \notin j.left
  PROVE  FolderInvariant'
<1> USE DEF FolderInvariant, tree
<1>1. job \in [Requests -> Job] /\ j \in Job
  BY DEF TypeOK, Sound
<1>2. job'[r] = j /\ \A q \in Requests \ {r} : job'[q] = job[q]
  BY <1>1
<1>3. TypeOK'
  BY <1>1 DEF TypeOK
<1>4. RowsHaveParents' /\ OnlyRowsHaveParents' /\ TreeUnlessOverlapped'
  BY DEF RowsHaveParents, HasRow, OnlyRowsHaveParents, TreeUnlessOverlapped, Acyclic
<1>5. ManifestsHaveParents'
  BY <1>2 DEF ManifestsHaveParents, Sound
<1>6. PullsStayInPlan'
  <2> SUFFICES ASSUME NEW q \in Requests, Is(q, "pull")'
               PROVE  (Left(q) \cap Folders \subseteq job[q].plan.has)'
    BY DEF PullsStayInPlan
  <2>1. CASE q = r
    BY <2>1, <1>2 DEF Sound, Is, Left
  <2>2. CASE q # r
    BY <2>2, <1>2 DEF PullsStayInPlan, Is, Left
  <2> QED  BY <2>1, <2>2
<1>7. CleanReads'
  <2>1. \A id : Descendants(id)' = Descendants(id)
    BY DEF Descendants, ClosedUnder
  <2> SUFFICES ASSUME NEW q \in clean'
               PROVE /\ Is(q, "move")' => (job[q].to # job[q].id /\ job[q].to \notin Descendants(job[q].id))'
                     /\ Is(q, "delete")' => (job[q].id \in alive /\ job[q].to = parent[job[q].id])'
                     /\ Is(q, "pull")' =>
                         (\A f \in job[q].plan.has \ Left(q) :
                            f \in alive /\ parent[f] = Target(q, f) /\ Target(q, f) \notin Left(q))'
    BY DEF CleanReads
  <2>2. CASE q = r
    BY <2>1, <2>2, <1>2 DEF Is, Left, Target
  <2>3. CASE q # r
    <3>1. q \in clean /\ q \in Requests /\ job'[q] = job[q]
      BY <2>3, <1>2 DEF TypeOK
    <3> QED  BY <3>1, <2>1 DEF CleanReads, Is, Left, Target
  <2> QED  BY <2>2, <2>3
<1> QED  BY <1>3, <1>4, <1>5, <1>6, <1>7

\* A write of a folder after which r is idle.
LEMMA TreeWritten ==
  ASSUME FolderInvariant, NEW r \in Requests,
         job' \in [Requests -> Job], job'[r].op = "idle",
         \A q \in Requests : job'[q] = job[q] \/ job'[q] = Idle,
         repo' = repo, begun' \in 0 .. MaxRequests, Wrote(r), overlapped' \in BOOLEAN,
         alive' \in SUBSET Folders, unborn' \in SUBSET Folders,
         parent' \in [Items -> Parents], RowsHaveParents', OnlyRowsHaveParents',
         TreeUnlessOverlapped'
  PROVE  FolderInvariant'
<1> USE DEF FolderInvariant
<1>1. clean' \subseteq {r} /\ clean' \in SUBSET Requests
  BY DEF Wrote, TypeOK
<1>2. TypeOK'
  BY <1>1 DEF TypeOK
<1>3. Sound(Idle)
  BY IdleIsSound DEF Idle, Parents
<1>4. \A q \in Requests : Sound(job[q])
  BY JobsAreSound
<1>5. \A q \in Requests : Sound(job'[q])
  BY <1>3, <1>4
<1>6. ManifestsHaveParents'
  BY <1>5 DEF ManifestsHaveParents, Sound
<1>7. PullsStayInPlan'
  BY <1>5 DEF PullsStayInPlan, Sound, Is, Left
<1>8. CleanReads'
  BY <1>1 DEF CleanReads, Is
<1> QED  BY <1>2, <1>6, <1>7, <1>8

-----------------------------------------------------------------------------
(* The initial states and the actions. *)
LEMMA InitEstablishes == Init => FolderInvariant
<1> SUFFICES ASSUME Init PROVE FolderInvariant
  OBVIOUS
<1> USE DEF Init
<1>1. Idle \in Job /\ Idle.op = "idle" /\ Idle.plan = NoManifest /\ NoManifest.has = {}
  BY IdleTypes DEF NoManifest
<1>2. parent \in [Items -> Parents]
  OBVIOUS
<1>3. TypeOK
  <2>1. job \in [Requests -> Job]
    BY <1>1
  <2>2. repo \in Manifest
    BY RootIsManifest
  <2>3. 0 \in 0 .. MaxRequests /\ FALSE \in BOOLEAN
    BY MaxRequestsAssumption
  <2> QED  BY <1>2, <2>1, <2>2, <2>3 DEF TypeOK
<1>4. RowsHaveParents
  BY DEF RowsHaveParents, HasRow
<1>5. OnlyRowsHaveParents
  BY DEF OnlyRowsHaveParents, Items
<1>6. \A r \in Requests : job[r] = Idle
  OBVIOUS
<1>7. ManifestsHaveParents
  BY <1>1, <1>6 DEF ManifestsHaveParents
<1>8. PullsStayInPlan
  BY <1>1, <1>6 DEF PullsStayInPlan, Is
<1>9. CleanReads
  BY DEF CleanReads
<1>10. TreeUnlessOverlapped
  BY DEF TreeUnlessOverlapped
<1> QED  BY <1>3, <1>4, <1>5, <1>7, <1>8, <1>9, <1>10 DEF FolderInvariant

\* A request that has read.
LEMMA ReadsKeep ==
  ASSUME FolderInvariant, NEW r \in Requests, NEW j, Sound(j), Reads(r, j),
         j.op = "move" => j.to # j.id /\ j.to \notin Descendants(j.id),
         j.op = "delete" => j.id \in alive /\ j.to = parent[j.id],
         j.op = "pull" => j.plan.has \subseteq j.left
  PROVE  FolderInvariant'
<1>1. begun' \in 0 .. MaxRequests
  BY MaxRequestsAssumption DEF Reads, Begins, FolderInvariant, TypeOK
<1> QED  BY <1>1, TreeUnchanged DEF Reads

LEMMA FailsKeeps ==
  ASSUME FolderInvariant, NEW r \in Requests, Fails(r)
  PROVE  FolderInvariant'
<1>1. Sound(Idle)
  BY IdleIsSound DEF Idle, Parents
<1>2. begun' \in 0 .. MaxRequests /\ clean' = clean /\ overlapped' = overlapped
  BY DEF Fails, Ends, history, FolderInvariant, TypeOK
<1> QED  BY <1>1, <1>2, IdleTypes, TreeUnchanged DEF Fails, Ends

LEMMA CreateReadKeeps ==
  ASSUME FolderInvariant, NEW r \in Requests, CreateRead(r)
  PROVE  FolderInvariant'
<1>1. PICK p \in alive : Reads(r, About("create", None, p))
  BY DEF CreateRead
<1>2. p \in Parents /\ None \in Parents
  BY DEF FolderInvariant, TypeOK, Parents
<1> QED  BY <1>1, <1>2, AboutTypes, IdleIsSound, ReadsKeep

LEMMA MoveReadKeeps ==
  ASSUME FolderInvariant, NEW r \in Requests, MoveRead(r)
  PROVE  FolderInvariant'
<1>1. PICK f \in alive, p \in alive :
        \/ /\ p # f /\ p \notin Descendants(f)
           /\ Reads(r, About("move", f, p))
        \/ Reads(r, About("walk", f, p))
  BY DEF MoveRead
<1>2. p \in Parents /\ f \in Parents
  BY DEF FolderInvariant, TypeOK, Parents
<1> QED  BY <1>1, <1>2, AboutTypes, IdleIsSound, ReadsKeep

LEMMA DeleteReadKeeps ==
  ASSUME FolderInvariant, NEW r \in Requests, DeleteRead(r)
  PROVE  FolderInvariant'
<1>1. PICK f \in alive : Reads(r, About("delete", f, parent[f]))
  BY DEF DeleteRead
<1>2. f \in Parents /\ parent[f] \in Parents
  BY DEF FolderInvariant, TypeOK, Parents, Items
<1> QED  BY <1>1, <1>2, AboutTypes, IdleIsSound, ReadsKeep

LEMMA PullReadKeeps ==
  ASSUME FolderInvariant, NEW r \in Requests, PullRead(r)
  PROVE  FolderInvariant'
<1> DEFINE left == repo.has \cup Workflows
           j    == Pulling(repo, left)
<1>1. Reads(r, j)
  BY DEF PullRead
<1>2. repo \in Manifest /\ repo.has \subseteq Folders /\ left \in SUBSET Items
  BY ManifestFields DEF FolderInvariant, TypeOK, Items
<1>3. j \in Job /\ j.op = "pull" /\ j.plan = repo /\ j.left = left
  BY <1>2, PullingTypes
<1>4. left \cap Folders \subseteq repo.has
  BY ItemsAssumption
<1>5. Sound(j)
  BY <1>3, <1>4 DEF Sound, FolderInvariant, ManifestsHaveParents
<1> HIDE DEF j
<1> QED  BY <1>1, <1>3, <1>5, ReadsKeep

\* Descendants and trees are about the parents of folders only.
LEMMA OnlyFoldersCount ==
  ASSUME alive' = alive, \A f \in alive : parent'[f] = parent[f]
  PROVE  /\ \A id : Descendants(id)' = Descendants(id)
         /\ Acyclic(alive, parent) => Acyclic(alive', parent')
BY DEF Descendants, ClosedUnder, Acyclic

\* A step of r that moves at most a workflow, and goes on with record j.
LEMMA WorkflowMoved ==
  ASSUME FolderInvariant, NEW r \in Requests, NEW j, Sound(j),
         job' = [job EXCEPT ![r] = j], alive' = alive, unborn' = unborn,
         repo' = repo, overlapped' = overlapped, clean' = clean,
         begun' \in 0 .. MaxRequests, parent' \in [Items -> Parents],
         \A i \in Items : parent'[i] = parent[i] \/ (i \in Workflows /\ HasRow(parent'[i])),
         j.op \notin {"move", "delete"},
         j.op = "pull" => /\ j.plan = job[r].plan /\ job[r].op = "pull"
                          /\ Left(r) \cap Folders = {} /\ j.left \subseteq Left(r)
  PROVE  FolderInvariant'
<1> USE DEF FolderInvariant
<1>1. job \in [Requests -> Job] /\ j \in Job
  BY DEF TypeOK, Sound
<1>2. job'[r] = j /\ \A q \in Requests \ {r} : job'[q] = job[q]
  BY <1>1
<1>3. alive \subseteq Folders /\ Folders \subseteq Items /\ Folders \cap Workflows = {}
  BY ItemsAssumption DEF TypeOK, Items
<1>4. \A f \in Folders : parent'[f] = parent[f]
  BY <1>3
<1>5. TypeOK'
  BY <1>1 DEF TypeOK
<1>6. RowsHaveParents' /\ OnlyRowsHaveParents'
  BY <1>4 DEF RowsHaveParents, HasRow, OnlyRowsHaveParents
<1>7. \A id : Descendants(id)' = Descendants(id)
  BY <1>3, <1>4, OnlyFoldersCount
<1>8. TreeUnlessOverlapped'
  BY <1>3, <1>4, OnlyFoldersCount DEF TreeUnlessOverlapped
<1>9. \A q \in Requests : Sound(job'[q])
  BY <1>2, JobsAreSound
<1>10. ManifestsHaveParents'
  BY <1>9 DEF ManifestsHaveParents, Sound
<1>11. PullsStayInPlan'
  BY <1>9 DEF PullsStayInPlan, Sound, Is, Left
<1>12. CleanReads'
  <2> SUFFICES ASSUME NEW q \in clean'
               PROVE /\ Is(q, "move")' => (job[q].to # job[q].id /\ job[q].to \notin Descendants(job[q].id))'
                     /\ Is(q, "delete")' => (job[q].id \in alive /\ job[q].to = parent[job[q].id])'
                     /\ Is(q, "pull")' =>
                         (\A f \in job[q].plan.has \ Left(q) :
                            f \in alive /\ parent[f] = Target(q, f) /\ Target(q, f) \notin Left(q))'
    BY DEF CleanReads
  <2>1. q \in clean /\ q \in Requests
    BY DEF TypeOK
  <2>2. job[q].plan.has \in SUBSET Folders
    BY <2>1, JobFields, ManifestFields
  <2>3. CASE q = r
    <3>1. ~ Is(q, "move")' /\ ~ Is(q, "delete")'
      BY <2>3, <1>2 DEF Is
    <3>2. ASSUME Is(q, "pull")', NEW f \in job'[q].plan.has \ Left(q)'
          PROVE  f \in alive' /\ parent'[f] = Target(q, f)' /\ Target(q, f)' \notin Left(q)'
      <4>1. j.op = "pull" /\ f \in job[q].plan.has /\ f \in Folders /\ f \notin Left(q)
        BY <3>2, <2>3, <2>2, <1>2 DEF Is, Left
      <4>2. f \in alive /\ parent[f] = Target(q, f) /\ Target(q, f) \notin Left(q)
        BY <4>1, <2>1, <2>3 DEF CleanReads, Is
      <4>3. Target(q, f)' = Target(q, f) /\ Left(q)' \subseteq Left(q)
        BY <4>1, <2>3, <1>2 DEF Target, Left
      <4> QED  BY <4>1, <4>2, <4>3, <1>4
    <3> QED  BY <3>1, <3>2
  <2>4. CASE q # r
    <3>1. job'[q] = job[q]
      BY <2>1, <2>4, <1>2
    <3>2. ASSUME Is(q, "delete")'
          PROVE  (job[q].id \in alive /\ job[q].to = parent[job[q].id])'
      BY <3>1, <3>2, <2>1, <1>3, <1>4 DEF CleanReads, Is
    <3>3. ASSUME Is(q, "move")'
          PROVE  (job[q].to # job[q].id /\ job[q].to \notin Descendants(job[q].id))'
      BY <3>1, <3>3, <2>1, <1>7 DEF CleanReads, Is
    <3>4. ASSUME Is(q, "pull")', NEW f \in job'[q].plan.has \ Left(q)'
          PROVE  f \in alive' /\ parent'[f] = Target(q, f)' /\ Target(q, f)' \notin Left(q)'
      BY <3>1, <3>4, <2>1, <2>2, <1>4 DEF CleanReads, Is, Target, Left
    <3> QED  BY <3>2, <3>3, <3>4
  <2> QED  BY <2>3, <2>4
<1> QED  BY <1>5, <1>6, <1>8, <1>10, <1>11, <1>12

LEMMA MoveWorkflowKeeps ==
  ASSUME FolderInvariant, NEW r \in Requests, MoveWorkflow(r)
  PROVE  FolderInvariant'
<1>1. PICK w \in Workflows, p \in alive \cup {None} : parent' = [parent EXCEPT ![w] = p]
  BY DEF MoveWorkflow
<1>2. parent \in [Items -> Parents] /\ p \in Parents /\ HasRow(p) /\ job \in [Requests -> Job]
  BY DEF FolderInvariant, TypeOK, Parents, HasRow
<1>3. /\ parent' \in [Items -> Parents]
      /\ \A i \in Items : parent'[i] = parent[i] \/ (i \in Workflows /\ HasRow(parent'[i]))
  BY <1>1, <1>2
<1>4. /\ job' = [job EXCEPT ![r] = job[r]]
      /\ job[r].op = "idle"
  BY <1>2 DEF MoveWorkflow, Begins, Is
<1>5. /\ alive' = alive /\ unborn' = unborn /\ repo' = repo
      /\ overlapped' = overlapped /\ clean' = clean
  BY DEF MoveWorkflow, history
<1>6. begun' \in 0 .. MaxRequests
  BY MaxRequestsAssumption DEF MoveWorkflow, Begins, FolderInvariant, TypeOK
<1>7. Sound(job[r])
  BY JobsAreSound
<1> QED  BY <1>3, <1>4, <1>5, <1>6, <1>7, WorkflowMoved

LEMMA PullWorkflowKeeps ==
  ASSUME FolderInvariant, NEW r \in Requests, PullWorkflow(r)
  PROVE  FolderInvariant'
<1>1. PICK w \in Left(r) :
        /\ \/ HasRow(Target(r, w)) /\ parent' = [parent EXCEPT ![w] = Target(r, w)]
           \/ ~ HasRow(Target(r, w)) /\ UNCHANGED parent
        /\ Done(r, w)
  BY DEF PullWorkflow
<1> DEFINE j == IF Left(r) = {w} THEN Idle ELSE Pulling(job[r].plan, Left(r) \ {w})
<1>2. job[r].op = "pull" /\ Left(r) \cap Folders = {} /\ Left(r) \in SUBSET Items
      /\ job[r].plan \in Manifest
  BY JobFields DEF PullWorkflow, Is, Left, FolderInvariant
<1>3. w \in Workflows
  BY <1>2 DEF Items
<1>4. parent \in [Items -> Parents] /\ Target(r, w) \in Parents
  BY <1>2, <1>3, ManifestFields DEF FolderInvariant, TypeOK, Target, Items
<1>5. parent' \in [Items -> Parents]
  BY <1>1, <1>4
<1>6. \A i \in Items : parent'[i] = parent[i] \/ (i \in Workflows /\ HasRow(parent'[i]))
  <2>2. CASE parent' = parent
    BY <2>2
  <2>3. CASE HasRow(Target(r, w)) /\ parent' = [parent EXCEPT ![w] = Target(r, w)]
    <3>1. HasRow(parent'[w])
      BY <2>3, <1>3, <1>4 DEF Items
    <3>2. \A i \in Items \ {w} : parent'[i] = parent[i]
      BY <2>3, <1>4
    <3> QED  BY <3>1, <3>2, <1>3
  <2> QED  BY <1>1, <2>2, <2>3
<1>7. job' = [job EXCEPT ![r] = j] /\ begun' = begun
  BY <1>1 DEF Done
<1>8. Left(r) \ {w} \in SUBSET Items
  BY <1>2
<1>9. Sound(j) /\ j.op \notin {"move", "delete"}
      /\ (j.op = "pull" => j.plan = job[r].plan /\ j.left \subseteq Left(r))
  <2>1. CASE Left(r) = {w}
    <3>1. j = Idle /\ None \in Parents
      BY <2>1 DEF Parents
    <3> QED  BY <3>1, IdleTypes, IdleIsSound DEF Idle
  <2>2. CASE Left(r) # {w}
    <3> DEFINE next == Pulling(job[r].plan, Left(r) \ {w})
    <3>1. j = next
      BY <2>2
    <3>2. next \in Job /\ next.op = "pull" /\ next.plan = job[r].plan /\ next.left = Left(r) \ {w}
      BY <1>2, <1>8, PullingTypes
    <3>3. \A f \in job[r].plan.has : job[r].plan.parent[f] \in job[r].plan.has \cup {None}
      BY JobsAreSound DEF Sound
    <3>4. (Left(r) \ {w}) \cap Folders \subseteq job[r].plan.has
      BY <1>2
    <3> HIDE DEF next
    <3> QED  BY <3>1, <3>2, <3>3, <3>4 DEF Sound
  <2> QED  BY <2>1, <2>2
<1>10. /\ alive' = alive /\ unborn' = unborn /\ repo' = repo
       /\ overlapped' = overlapped /\ clean' = clean
  BY DEF PullWorkflow, history
<1>11. begun' \in 0 .. MaxRequests
  BY <1>7 DEF FolderInvariant, TypeOK
<1> HIDE DEF j
<1> QED  BY <1>2, <1>5, <1>6, <1>7, <1>9, <1>10, <1>11, WorkflowMoved

LEMMA PushKeeps ==
  ASSUME FolderInvariant, NEW r \in Requests, Push(r)
  PROVE  FolderInvariant'
<1> USE DEF FolderInvariant
<1>1. UNCHANGED <<tree, job, history>> /\ repo' = [has |-> alive, parent |-> parent]
  BY DEF Push
<1>2. alive' = alive /\ unborn' = unborn /\ parent' = parent /\ job' = job
      /\ clean' = clean /\ overlapped' = overlapped
  BY <1>1 DEF tree, history
<1>3. repo'.has = alive /\ repo'.parent = parent
  BY <1>1
<1>4. repo' \in Manifest
  BY <1>1, Zenon DEF TypeOK, Manifest
<1>5. TypeOK'
  BY <1>2, <1>4, MaxRequestsAssumption DEF TypeOK, Push, Begins
<1>6. \A f \in alive : parent[f] \in alive \cup {None}
  BY DEF RowsHaveParents, HasRow, TypeOK, Items
<1>7. ManifestsHaveParents'
  BY <1>2, <1>3, <1>6 DEF ManifestsHaveParents
<1>8. RowsHaveParents' /\ OnlyRowsHaveParents' /\ PullsStayInPlan' /\ TreeUnlessOverlapped'
  BY <1>2 DEF RowsHaveParents, HasRow, OnlyRowsHaveParents, PullsStayInPlan, Is, Left,
     TreeUnlessOverlapped, Acyclic
<1>9. CleanReads'
  BY <1>2 DEF CleanReads, Is, Left, Target, Descendants, ClosedUnder
<1> QED  BY <1>5, <1>7, <1>8, <1>9

\* The records after a write: that of r is idle, the others are as they were.
LEMMA EndedJobs ==
  ASSUME FolderInvariant, NEW r \in Requests,
         Ends(r) \/ (Begins(r) /\ job' = job)
  PROVE  /\ job' \in [Requests -> Job] /\ job'[r].op = "idle"
         /\ \A q \in Requests : job'[q] = job[q] \/ job'[q] = Idle
         /\ begun' \in 0 .. MaxRequests
<1>1. job \in [Requests -> Job] /\ begun \in 0 .. MaxRequests
  BY DEF FolderInvariant, TypeOK
<1>2. CASE Ends(r)
  BY <1>1, <1>2, IdleTypes DEF Ends
<1>3. CASE Begins(r) /\ job' = job
  BY <1>1, <1>3, MaxRequestsAssumption DEF Begins, Is
<1> QED  BY <1>2, <1>3

LEMMA TreeFacts ==
  ASSUME FolderInvariant
  PROVE  /\ alive \in SUBSET Folders /\ unborn \in SUBSET Folders
         /\ alive \subseteq Items /\ None \notin alive /\ None \notin Folders
         /\ parent \in [Items -> Parents]
         /\ \A i \in Items : parent[i] \in alive \cup {None}
         /\ overlapped \in BOOLEAN
BY ItemsAssumption DEF FolderInvariant, TypeOK, RowsHaveParents, HasRow, Items

\* A row is written.
LEMMA Inserted ==
  ASSUME FolderInvariant, NEW f \in Folders, NEW p \in alive \cup {None}, Insert(f, p)
  PROVE  /\ alive' \in SUBSET Folders /\ unborn' \in SUBSET Folders
         /\ parent' \in [Items -> Parents] /\ parent' = [parent EXCEPT ![f] = p]
         /\ alive' = alive \cup {f}
         /\ RowsHaveParents' /\ OnlyRowsHaveParents'
<1>1. f \in Items /\ p \in Parents
  BY TreeFacts DEF Items, Parents
<1>2. alive' = alive \cup {f} /\ unborn' = unborn \ {f} /\ parent' = [parent EXCEPT ![f] = p]
  BY DEF Insert
<1>3. parent' \in [Items -> Parents]
  BY <1>1, <1>2, TreeFacts
<1>4. parent'[f] = p /\ \A i \in Items \ {f} : parent'[i] = parent[i]
  BY <1>1, <1>2, TreeFacts
<1>5. RowsHaveParents'
  BY <1>2, <1>4, TreeFacts DEF RowsHaveParents, HasRow
<1>6. OnlyRowsHaveParents'
  BY <1>2, <1>4, TreeFacts DEF OnlyRowsHaveParents, FolderInvariant, Items
<1> QED  BY <1>2, <1>3, <1>5, <1>6, TreeFacts

LEMMA NewRow ==
  ASSUME FolderInvariant, NEW f \in unborn, NEW p \in alive \cup {None}, Insert(f, p),
         overlapped' = overlapped
  PROVE  TreeUnlessOverlapped'
<1>1. f \in Folders /\ f \in Items \ alive /\ f # None
  BY TreeFacts DEF FolderInvariant, OnlyRowsHaveParents, Items
<1>2. \A g \in alive : parent[g] # f
  BY <1>1, TreeFacts
<1>3. Acyclic(alive, parent) => Acyclic(alive', parent')
  BY <1>1, <1>2, TreeFacts, NewAcyclic DEF Insert
<1> QED  BY <1>3 DEF FolderInvariant, TreeUnlessOverlapped

LEMMA CreateWriteKeeps ==
  ASSUME FolderInvariant, NEW r \in Requests, CreateWrite(r)
  PROVE  FolderInvariant'
<1>1. CASE Fails(r)
  BY <1>1, FailsKeeps
<1>2. CASE ~ Fails(r)
  <2>1. PICK f \in unborn : Insert(f, job[r].to)
    BY <1>2 DEF CreateWrite
  <2>2. job[r].to \in alive /\ Ends(r) /\ Wrote(r) /\ repo' = repo /\ overlapped' = overlapped
    BY <1>2 DEF CreateWrite
  <2>3. TreeUnlessOverlapped'
    BY <2>1, <2>2, NewRow
  <2>4. f \in Folders /\ overlapped' \in BOOLEAN
    BY <2>2, TreeFacts
  <2> QED  BY <2>1, <2>2, <2>3, <2>4, Inserted, EndedJobs, TreeWritten
<1> QED  BY <1>1, <1>2

LEMMA CreateRootKeeps ==
  ASSUME FolderInvariant, NEW r \in Requests, CreateRoot(r)
  PROVE  FolderInvariant'
<1>1. PICK f \in unborn : Insert(f, None)
  BY DEF CreateRoot
<1>2. Begins(r) /\ job' = job /\ Wrote(r) /\ repo' = repo /\ overlapped' = overlapped
  BY DEF CreateRoot
<1>3. TreeUnlessOverlapped'
  BY <1>1, <1>2, NewRow
<1>4. f \in Folders /\ overlapped' \in BOOLEAN
  BY <1>2, TreeFacts
<1> QED  BY <1>1, <1>2, <1>3, <1>4, Inserted, EndedJobs, TreeWritten

\* The parent of a folder is written.
LEMMA Moved ==
  ASSUME FolderInvariant, NEW f \in alive, NEW p \in alive \cup {None},
         parent' = [parent EXCEPT ![f] = p], alive' = alive, unborn' = unborn
  PROVE  /\ alive' \in SUBSET Folders /\ unborn' \in SUBSET Folders
         /\ parent' \in [Items -> Parents]
         /\ RowsHaveParents' /\ OnlyRowsHaveParents'
<1>1. f \in Items /\ f \in Folders /\ p \in Parents
  BY TreeFacts DEF Parents
<1>2. parent' \in [Items -> Parents]
  BY <1>1, TreeFacts
<1>3. parent'[f] = p /\ \A i \in Items \ {f} : parent'[i] = parent[i]
  BY <1>1, TreeFacts
<1>4. RowsHaveParents'
  BY <1>3, TreeFacts DEF RowsHaveParents, HasRow
<1>5. OnlyRowsHaveParents'
  BY <1>3, TreeFacts DEF OnlyRowsHaveParents, FolderInvariant, Items
<1> QED  BY <1>2, <1>4, <1>5, TreeFacts

LEMMA MoveWriteKeeps ==
  ASSUME FolderInvariant, NEW r \in Requests, MoveWrite(r)
  PROVE  FolderInvariant'
<1>1. CASE Fails(r)
  BY <1>1, FailsKeeps
<1>2. CASE ~ Fails(r)
  <2> DEFINE id == job[r].id
             to == job[r].to
  <2>1. /\ id \in alive /\ to \in alive /\ parent' = [parent EXCEPT ![id] = to]
        /\ alive' = alive /\ unborn' = unborn /\ repo' = repo
        /\ Ends(r) /\ Wrote(r) /\ Checked(r) /\ Is(r, "move")
    BY <1>2 DEF MoveWrite
  <2>2. overlapped' \in BOOLEAN /\ (~ overlapped' => ~ overlapped /\ r \in clean)
    BY <2>1, TreeFacts, Zenon DEF Checked
  <2>3. r \in clean => to # id /\ to \notin Descendants(id)
    BY <2>1 DEF FolderInvariant, CleanReads
  <2>4. ~ overlapped => Acyclic(alive, parent)
    BY DEF FolderInvariant, TreeUnlessOverlapped
  <2>5. ~ overlapped' => Acyclic(alive, [parent EXCEPT ![id] = to])
    BY <2>1, <2>2, <2>3, <2>4, TreeFacts, MoveAcyclic
  <2>6. TreeUnlessOverlapped'
    BY <2>1, <2>5 DEF TreeUnlessOverlapped
  <2> QED  BY <2>1, <2>2, <2>6, Moved, EndedJobs, TreeWritten
<1> QED  BY <1>1, <1>2

LEMMA MoveToRootKeeps ==
  ASSUME FolderInvariant, NEW r \in Requests, MoveToRoot(r)
  PROVE  FolderInvariant'
<1>1. PICK f \in alive : parent' = [parent EXCEPT ![f] = None]
  BY DEF MoveToRoot
<1>2. Begins(r) /\ job' = job /\ Wrote(r) /\ repo' = repo /\ overlapped' = overlapped
      /\ alive' = alive /\ unborn' = unborn
  BY DEF MoveToRoot
<1>3. Acyclic(alive, parent) => Acyclic(alive, parent')
  BY <1>1, TreeFacts, RootAcyclic
<1>4. TreeUnlessOverlapped'
  BY <1>2, <1>3 DEF FolderInvariant, TreeUnlessOverlapped
<1>5. overlapped' \in BOOLEAN
  BY <1>2, TreeFacts
<1> QED  BY <1>1, <1>2, <1>4, <1>5, Moved, EndedJobs, TreeWritten

LEMMA DeleteWriteKeeps ==
  ASSUME FolderInvariant, NEW r \in Requests, DeleteWrite(r)
  PROVE  FolderInvariant'
<1>1. CASE Fails(r)
  BY <1>1, FailsKeeps
<1>2. CASE ~ Fails(r)
  <2> DEFINE id == job[r].id
             to == job[r].to
  <2>1. /\ id \in alive
        /\ HasRow(to) \/ \A i \in Items : parent[i] # id
        /\ parent' = Emptied(id, to) /\ alive' = alive \ {id} /\ unborn' = unborn
        /\ repo' = repo /\ Ends(r) /\ Wrote(r) /\ Checked(r) /\ Is(r, "delete")
    BY <1>2 DEF DeleteWrite
  <2>2. overlapped' \in BOOLEAN /\ (~ overlapped' => ~ overlapped /\ r \in clean)
    BY <2>1, TreeFacts, Zenon DEF Checked
  <2>3. r \in clean => to = parent[id]
    BY <2>1 DEF FolderInvariant, CleanReads
  <2>4. ~ overlapped' => Acyclic(alive \ {id}, Emptied(id, to))
    <3>1. ~ overlapped => Acyclic(alive, parent)
      BY DEF FolderInvariant, TreeUnlessOverlapped
    <3> QED  BY <2>1, <2>2, <2>3, <3>1, TreeFacts, EmptiedAcyclic
  <2>5. TreeUnlessOverlapped'
    BY <2>1, <2>4 DEF TreeUnlessOverlapped
  <2>6. \A i \in Items : parent'[i] = IF i = id THEN None
                                     ELSE IF parent[i] # id THEN parent[i]
                                     ELSE IF to = id THEN None ELSE to
    BY <2>1 DEF Emptied
  <2>7. id \in Items /\ id # None /\ to \in Parents
    BY <2>1, TreeFacts, JobFields DEF FolderInvariant
  <2>8. \A i \in Items : parent'[i] \in (alive \ {id}) \cup {None}
    BY <2>1, <2>6, <2>7, TreeFacts DEF HasRow
  <2>9. parent' \in [Items -> Parents]
    <3>1. alive \cup {None} \subseteq Parents
      BY TreeFacts DEF Parents
    <3>2. parent' = [i \in Items |-> parent'[i]]
      BY <2>1 DEF Emptied
    <3> QED  BY <3>1, <3>2, <2>8
  <2>10. RowsHaveParents'
    BY <2>1, <2>8 DEF RowsHaveParents, HasRow
  <2>11. OnlyRowsHaveParents'
    <3>1. \A g \in Folders \ alive : parent[g] = None /\ g \in Items
      BY DEF FolderInvariant, OnlyRowsHaveParents, Items
    <3>2. \A g \in Folders \ alive' : parent'[g] = None
      BY <3>1, <2>1, <2>6, <2>7
    <3> QED  BY <3>2, <2>1 DEF FolderInvariant, OnlyRowsHaveParents
  <2>12. alive' \in SUBSET Folders /\ unborn' \in SUBSET Folders
    BY <2>1, TreeFacts
  <2> HIDE DEF id, to
  <2> QED  BY <2>1, <2>2, <2>5, <2>9, <2>10, <2>11, <2>12, EndedJobs, TreeWritten
<1> QED  BY <1>1, <1>2

\* The next folder of a pull.  What it has written hangs together as its
\* manifest says, so the folder reaches nothing but the manifest's folders.
LEMMA PullFolderKeeps ==
  ASSUME FolderInvariant, NEW r \in Requests, PullFolder(r)
  PROVE  FolderInvariant'
<1>1. CASE Fails(r)
  BY <1>1, FailsKeeps
<1>2. CASE ~ Fails(r)
  <2> DEFINE plan == job[r].plan
             rest(f) == Left(r) \ {f}
  <2>1. PICK f \in Folders :
          /\ IsNext(r, f) /\ HasRow(Target(r, f)) /\ Insert(f, Target(r, f))
          /\ Done(r, f) /\ Wrote(r) /\ Checked(r) /\ repo' = repo
    BY <1>2 DEF PullFolder
  <2> DEFINE to   == Target(r, f)
             j    == IF Left(r) = {f} THEN Idle ELSE Pulling(plan, rest(f))
             done == plan.has \ Left(r)
  <2>2. f \in Left(r) /\ to \notin Left(r) /\ to \in alive \cup {None}
    BY <2>1 DEF IsNext, HasRow
  <2>3. job[r].op = "pull" /\ Left(r) \in SUBSET Items /\ plan \in Manifest
    BY JobFields DEF PullFolder, Is, Left, FolderInvariant
  <2>4. /\ \A g \in plan.has : plan.parent[g] \in plan.has \cup {None}
        /\ Left(r) \cap Folders \subseteq plan.has
    BY <2>3, JobsAreSound DEF Sound, Left
  <2>5. Sound(j) /\ j.op \in {"idle", "pull"}
        /\ (j.op = "pull" => j.plan = plan /\ j.left = rest(f))
    <3>1. CASE Left(r) = {f}
      <4>1. j = Idle /\ None \in Parents
        BY <3>1 DEF Parents
      <4> QED  BY <4>1, IdleTypes, IdleIsSound DEF Idle
    <3>2. CASE Left(r) # {f}
      <4> DEFINE next == Pulling(plan, rest(f))
      <4>1. j = next /\ rest(f) \in SUBSET Items
        BY <3>2, <2>3
      <4>2. next \in Job /\ next.op = "pull" /\ next.plan = plan /\ next.left = rest(f)
        BY <4>1, <2>3, PullingTypes
      <4>3. rest(f) \cap Folders \subseteq plan.has
        BY <2>4
      <4> HIDE DEF next, plan, rest
      <4> QED  BY <4>1, <4>2, <4>3, <2>4 DEF Sound, plan
    <3> QED  BY <3>1, <3>2
  <2>6. job' = [job EXCEPT ![r] = j] /\ begun' = begun
    BY <2>1 DEF Done
  <2> HIDE DEF j
  <2>7. job \in [Requests -> Job] /\ j \in Job /\ begun \in 0 .. MaxRequests
    BY <2>5 DEF FolderInvariant, TypeOK, Sound
  <2>8. job' \in [Requests -> Job] /\ job'[r] = j /\ \A q \in Requests \ {r} : job'[q] = job[q]
    BY <2>6, <2>7
  <2>9. \A q \in Requests : Sound(job'[q])
    BY <2>5, <2>8, JobsAreSound
  <2>10. clean' \subseteq {r} /\ clean' \subseteq clean /\ clean' \in SUBSET Requests
    BY <2>1 DEF Wrote, FolderInvariant, TypeOK
  <2>11. overlapped' \in BOOLEAN /\ (~ overlapped' => ~ overlapped /\ r \in clean)
    BY <2>1, TreeFacts, Zenon DEF Checked
  <2>12. r \in clean =>
           \A g \in done : g \in alive /\ parent[g] = plan.parent[g] /\ plan.parent[g] \notin Left(r)
    BY <2>3 DEF FolderInvariant, CleanReads, Is, Target
  <2>13. /\ alive' = alive \cup {f} /\ parent' = [parent EXCEPT ![f] = to]
         /\ alive' \in SUBSET Folders /\ unborn' \in SUBSET Folders
         /\ parent' \in [Items -> Parents] /\ RowsHaveParents' /\ OnlyRowsHaveParents'
    BY <2>1, <2>2, Inserted
  <2>14. TypeOK'
    BY <2>1, <2>6, <2>7, <2>8, <2>10, <2>11, <2>13 DEF FolderInvariant, TypeOK
  <2>15. ManifestsHaveParents'
    BY <2>1, <2>9 DEF ManifestsHaveParents, Sound, FolderInvariant
  <2>16. PullsStayInPlan'
    BY <2>9 DEF PullsStayInPlan, Sound, Is, Left
  <2>17. f \in Items /\ f # None /\ f \in plan.has /\ to = plan.parent[f]
    BY <2>2, <2>4, TreeFacts DEF Items, Target
  <2>18. CleanReads'
    <3> SUFFICES ASSUME r \in clean, j.op = "pull", NEW g \in j.plan.has \ j.left
                 PROVE  g \in alive' /\ parent'[g] = plan.parent[g] /\ plan.parent[g] \notin rest(f)
      BY <2>5, <2>8, <2>10, Zenon DEF CleanReads, Is, Left, Target
    <3>1. g \in plan.has \ rest(f)
      BY <2>5
    <3>2. CASE g = f
      BY <3>2, <2>2, <2>13, <2>17, TreeFacts
    <3>3. CASE g # f
      <4>1. g \in done
        BY <3>1, <3>3
      <4>2. g \in alive /\ parent[g] = plan.parent[g] /\ plan.parent[g] \notin Left(r)
        BY <4>1, <2>12
      <4> QED  BY <3>3, <4>2, <2>13, TreeFacts
    <3> QED  BY <3>2, <3>3
  <2>19. TreeUnlessOverlapped'
    <3> SUFFICES ASSUME ~ overlapped, r \in clean
                 PROVE  Acyclic(alive \cup {f}, [parent EXCEPT ![f] = to])
      BY <2>11, <2>13 DEF TreeUnlessOverlapped
    <3>1. Acyclic(alive, parent)
      BY DEF FolderInvariant, TreeUnlessOverlapped
    <3>2. done \in SUBSET alive /\ \A g \in done : parent[g] \in done \cup {None}
      BY <2>4, <2>12
    <3>3. to \in done \cup {None} /\ f \in Items \ done
      BY <2>2, <2>4, <2>17
    <3> HIDE DEF done, to
    <3> QED  BY <3>1, <3>2, <3>3, <2>17, TreeFacts, PullAcyclic
  <2> QED  BY <2>13, <2>14, <2>15, <2>16, <2>18, <2>19 DEF FolderInvariant
<1> QED  BY <1>1, <1>2

-----------------------------------------------------------------------------
(* Theorems. *)
LEMMA NextKeeps ==
  ASSUME FolderInvariant, [Next]_vars
  PROVE  FolderInvariant'
<1>1. CASE UNCHANGED vars
  BY <1>1 DEF vars, tree, history, FolderInvariant, TypeOK, RowsHaveParents, HasRow,
     OnlyRowsHaveParents, ManifestsHaveParents, PullsStayInPlan, CleanReads, Is, Left,
     Target, Descendants, ClosedUnder, TreeUnlessOverlapped, Acyclic
<1>2. CASE Next
  <2>1. PICK r \in Requests : Starts(r) \/ Goes(r)
    BY <1>2 DEF Next
  <2>2. CASE Starts(r)
    BY <2>2, CreateReadKeeps, CreateRootKeeps, MoveReadKeeps, MoveToRootKeeps,
       DeleteReadKeeps, MoveWorkflowKeeps, PushKeeps, PullReadKeeps DEF Starts
  <2>3. CASE Goes(r)
    BY <2>3, CreateWriteKeeps, MoveWriteKeeps, DeleteWriteKeeps, PullFolderKeeps,
       PullWorkflowKeeps DEF Goes
  <2> QED  BY <2>1, <2>2, <2>3
<1> QED  BY <1>1, <1>2

\* Every state of the specification satisfies the inductive invariant: rows have
\* parents, what an undisturbed move, deletion or pull has read is still so, and
\* the folders form trees unless requests overlapped.
THEOREM FolderInvariantHolds == Spec => []FolderInvariant
<1>1. Init => FolderInvariant
  BY InitEstablishes
<1>2. FolderInvariant /\ [Next]_vars => FolderInvariant'
  BY NextKeeps
<1> QED  BY <1>1, <1>2, PTL DEF Spec

\* Moves, deletions, creations and pulls that are not overtaken between their
\* check and their write keep the folders a forest (moveFolder's test of the
\* descendants, deleteFolder's re-parenting and the pull's order are enough).
THEOREM TreesStay == Spec => []TreeUnlessOverlapped
<1>1. FolderInvariant => TreeUnlessOverlapped
  BY DEF FolderInvariant
<1> QED  BY <1>1, FolderInvariantHolds, PTL

\* Then the page shows every folder.
THEOREM AllShownHolds == Spec => []AllShown
<1>1. FolderInvariant => AllShown
  BY TreeFacts, ForestIsShown, Zenon DEF FolderInvariant, TreeUnlessOverlapped, AllShown
<1> QED  BY <1>1, FolderInvariantHolds, PTL
=============================================================================
