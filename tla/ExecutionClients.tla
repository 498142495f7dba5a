-------------------------- MODULE ExecutionClients --------------------------
(***************************************************************************)
(* The two clients of an execution's feed over one server: the editor's    *)
(* view, or a call of the SDK.                                             *)
(***************************************************************************)
EXTENDS EditorView

VARIABLES side, call, pipe, queue, done, late

Sdk == INSTANCE ExecutionWatch

editorVars == <<store, hook, link, fetch, history>>
sdkVars    == <<call, pipe, queue, done, late>>
clientVars == <<vars, side, sdkVars>>

ClientsInit ==
  /\ Init
  /\ Sdk!WatchInit
  /\ side \in {"editor", "sdk"}

ClientsNext ==
  \/ side = "editor" /\ Next /\ UNCHANGED <<side, sdkVars>>
  \/ side = "sdk" /\ Sdk!WatchNext /\ UNCHANGED <<side, editorVars>>

ClientsSpec == ClientsInit /\ [][ClientsNext]_clientVars

FairClientsSpec ==
  /\ ClientsSpec
  /\ ViewFairness
  /\ \A e \in Executions : WF_vars(side = "editor" /\ Works(e))
  /\ Sdk!WatchFairness

NoLostWakeup    == Sdk!NoLostWakeup
ReturnExplained == Sdk!ReturnExplained
CallReturns     == Sdk!CallReturns
=============================================================================
