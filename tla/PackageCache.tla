---------------------------- MODULE PackageCache ----------------------------
(***************************************************************************)
(* pkg_cache and pip_cache: the directory of one dependency list, shared   *)
(* by the sandbox activities of a worker process.  Each await is a step of *)
(* its own: the file system answers, and later the caller goes on with     *)
(* the answer.                                                             *)
(*                                                                         *)
(* npm and pip are external: they leave the modules whole when they        *)
(* succeed and in any state when they fail or are killed.  A crash takes   *)
(* them with it.  evictStaleCache has no caller and is left out.           *)
(***************************************************************************)
EXTENDS Naturals, FiniteSets

CONSTANTS
  Calls,       \* activities that ask for the list
  MaxCalls,    \* bound: calls in all
  MaxCrashes,  \* bound: crashes of the worker
  None

ASSUME BoundsAssumption == MaxCalls \in Nat /\ MaxCrashes \in Nat
ASSUME NoneAssumption == None \notin Calls

VARIABLES
  pip,        \* the list is one of pip_cache, which removes the venv first
  repeats,    \* the list names a package twice
  meta,       \* .cache-meta.json
  modules,    \* node_modules or venv
  inflight,   \* inflightInstalls: the call whose install is registered
  call,       \* per call: where it is and what it has read
  made,       \* calls so far
  crashes,
  \* history:
  redundant   \* an install began although the entry was valid

disk == <<meta, modules>>
list == <<pip, repeats>>
cacheVars == <<list, disk, inflight, call, made, crashes, redundant>>

Call(at, got) == [at |-> at, got |-> got]
Idle == Call("idle", None)

\* Places of an install, in the call that runs it.
Installing == {"mkdir", "tool", "truncate", "write"}

CacheInit ==
  /\ pip \in BOOLEAN /\ repeats \in BOOLEAN
  /\ meta = "none" /\ modules = "absent"
  /\ inflight = None
  /\ call = [c \in Calls |-> Idle]
  /\ made = 0 /\ crashes = 0
  /\ redundant = FALSE

At(c, place) == call[c].at = place
Put(c, at, got) == call' = [call EXCEPT ![c] = Call(at, got)]

\* An entry counts when its age and its packages are right and node_modules
\* is there; a list with a repetition never equals the set that was stored.
MetaValid(got) == got = "fresh" /\ ~repeats
Valid == MetaValid(meta) /\ modules # "absent"

-----------------------------------------------------------------------------
(* A call. *)

Resolve(c) ==
  /\ At(c, "idle") /\ made < MaxCalls
  /\ Put(c, "reading", None)
  /\ made' = made + 1
  /\ UNCHANGED <<list, disk, inflight, crashes, redundant>>

MetaRead(c) ==
  /\ At(c, "reading")
  /\ Put(c, "metaRead", meta)
  /\ UNCHANGED <<list, disk, inflight, made, crashes, redundant>>

\* Mutant of JoinOrInstall: the install is not registered.
InstallUnregistered(c) ==
  \/ /\ inflight # None
     /\ Put(c, "waiting", None)
     /\ UNCHANGED <<inflight, redundant>>
  \/ /\ inflight = None
     /\ Put(c, "mkdir", None)
     /\ redundant' = (redundant \/ Valid)
     /\ UNCHANGED inflight

\* After a miss, in the same turn of the event loop: join the registered
\* install or register one.
JoinOrInstall(c) ==
  \/ /\ inflight # None
     /\ Put(c, "waiting", None)
     /\ UNCHANGED <<inflight, redundant>>
  \/ /\ inflight = None
     /\ inflight' = c
     /\ Put(c, "mkdir", None)
     /\ redundant' = (redundant \/ Valid)

MetaChecked(c) ==
  /\ At(c, "metaRead")
  /\ IF MetaValid(call[c].got)
       THEN Put(c, "stating", None) /\ UNCHANGED <<inflight, redundant>>
       ELSE JoinOrInstall(c)
  /\ UNCHANGED <<list, disk, made, crashes>>

ModulesRead(c) ==
  /\ At(c, "stating")
  /\ Put(c, "statted", modules)
  /\ UNCHANGED <<list, disk, inflight, made, crashes, redundant>>

Hit(c) ==
  /\ At(c, "statted") /\ call[c].got # "absent"
  /\ Put(c, "using", "hit")
  /\ UNCHANGED <<list, disk, inflight, made, crashes, redundant>>

Miss(c) ==
  /\ At(c, "statted") /\ call[c].got = "absent"
  /\ JoinOrInstall(c)
  /\ UNCHANGED <<list, disk, made, crashes>>

-----------------------------------------------------------------------------
(* The install. *)

\* The directory is there; pip_cache has tried to remove the venv.
Starts(c) ==
  /\ At(c, "mkdir")
  /\ modules' \in IF pip THEN {"absent", "partial", modules} ELSE {modules}
  /\ Put(c, "tool", None)
  /\ UNCHANGED <<list, meta, inflight, made, crashes, redundant>>

ToolWrites(c) ==
  /\ At(c, "tool") /\ modules # "partial"
  /\ modules' = "partial"
  /\ UNCHANGED <<list, meta, inflight, call, made, crashes, redundant>>

ToolSucceeds(c) ==
  /\ At(c, "tool")
  /\ modules' = "whole"
  /\ Put(c, "truncate", None)
  /\ UNCHANGED <<list, meta, inflight, made, crashes, redundant>>

MetaTruncated(c) ==
  /\ At(c, "truncate")
  /\ meta' = "blank"
  /\ Put(c, "write", None)
  /\ UNCHANGED <<list, modules, inflight, made, crashes, redundant>>

\* Mutant of Settle: only the call that installed goes on.
SettleOwn(c, at) ==
  /\ inflight' = None
  /\ Put(c, at, "install")

\* The promise settles: the entry is unregistered and all who wait go on.
Settle(c, at) ==
  /\ inflight' = None
  /\ call' = [d \in Calls |->
                IF d = c \/ At(d, "waiting") THEN Call(at, "install") ELSE call[d]]

MetaWritten(c) ==
  /\ At(c, "write")
  /\ meta' = "fresh"
  /\ Settle(c, "using")
  /\ UNCHANGED <<list, modules, made, crashes, redundant>>

\* Mutant of Fails: the exit code of the tool is not looked at.
FailsUnseen(c) ==
  /\ call[c].at \in Installing
  /\ Settle(c, "using")
  /\ UNCHANGED <<list, disk, made, crashes, redundant>>

\* A write fails, the tool exits with an error or its timeout kills it.
Fails(c) ==
  /\ call[c].at \in Installing
  /\ Settle(c, "failed")
  /\ UNCHANGED <<list, disk, made, crashes, redundant>>

-----------------------------------------------------------------------------
(* The rest of the activity, time, and the worker. *)

\* The sandbox has run, or the activity has failed.
Ends(c) ==
  /\ call[c].at \in {"using", "failed"}
  /\ Put(c, "idle", None)
  /\ UNCHANGED <<list, disk, inflight, made, crashes, redundant>>

\* 24 hours after the install.
Expire ==
  /\ meta = "fresh"
  /\ meta' = "stale"
  /\ UNCHANGED <<list, modules, inflight, call, made, crashes, redundant>>

Crash ==
  /\ crashes < MaxCrashes
  /\ crashes' = crashes + 1
  /\ inflight' = None
  /\ call' = [c \in Calls |-> Idle]
  /\ UNCHANGED <<list, disk, made, redundant>>

Goes(c) ==
  \/ MetaRead(c) \/ MetaChecked(c) \/ ModulesRead(c) \/ Hit(c) \/ Miss(c)
  \/ Starts(c) \/ ToolWrites(c) \/ ToolSucceeds(c) \/ MetaTruncated(c)
  \/ MetaWritten(c) \/ Fails(c)

CacheNext == Expire \/ Crash \/ \E c \in Calls : Resolve(c) \/ Goes(c) \/ Ends(c)

CacheSpec == CacheInit /\ [][CacheNext]_cacheVars

\* File operations return, and the tool ends by its timeout at the latest.
FairCacheSpec == CacheSpec /\ \A c \in Calls : WF_cacheVars(Goes(c))

-----------------------------------------------------------------------------
(* Properties. *)

\* Where a call can be, and what it can have read or been given.
Places == Installing \cup {"idle", "reading", "metaRead", "stating", "statted",
                           "waiting", "using", "failed"}
Reads  == {None, "none", "blank", "fresh", "stale", "absent", "partial", "whole",
           "hit", "install"}

CacheTypes ==
  /\ pip \in BOOLEAN /\ repeats \in BOOLEAN /\ redundant \in BOOLEAN
  /\ meta \in {"none", "blank", "fresh", "stale"}
  /\ modules \in {"absent", "partial", "whole"}
  /\ inflight \in Calls \cup {None}
  /\ call \in [Calls -> [at : Places, got : Reads]]
  /\ made \in 0 .. MaxCalls /\ crashes \in 0 .. MaxCrashes

\* The registered install is the one that runs, and no other writes into the
\* directory: however calls interleave between the check of the entry and the
\* registration, and whatever failed or crashed before.
OneInstaller ==
  \A c \in Calls : call[c].at \in Installing <=> inflight = c

\* Each variable holds a value of its kind, and installs exclude each other.
CacheInvariant == CacheTypes /\ OneInstaller

\* resolvePackages (resolveRequirements) hands out a directory that is whole: at the end of an
\* install always, and on a hit unless the entry expired since it was read or
\* an install that was not needed has touched it.
GivenWhole ==
  [][\A c \in Calls :
       (~At(c, "using") /\ call'[c].at = "using") =>
         \/ modules' = "whole"
         \/ call'[c].got = "hit" /\ (redundant \/ meta # "fresh")]_cacheVars

\* A call is answered, also one that waits for another one's install that fails
\* or is lost with the worker.
CallsEnd ==
  \A c \in Calls : At(c, "reading") ~> call[c].at \in {"using", "failed", "idle"}

=============================================================================
