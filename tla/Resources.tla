------------------------------ MODULE Resources ------------------------------
(***************************************************************************)
(* The components about the rows of the store: a behaviour is of one of    *)
(* them, `part`, and the others keep their initial state.                  *)
(***************************************************************************)
EXTENDS Projects

CONSTANTS
    \* of Bindings
    BindWorkers, BindQueues, BindManifests, BindDeploys, BindMaxRows, BindMaxBegun,
    \* of Commands
    CmdUsers, CmdAsks, CmdMaxBegun, CmdMaxIds, CmdMaxLost

ASSUME BindingBounds == BindMaxRows \in Nat /\ BindMaxBegun \in Nat
\* A manifest names workers and queues (any name may come to be one).
ASSUME ManifestNames ==
    \A m \in BindManifests :
        m.produces \cup m.consumes \cup m.dead \subseteq BindWorkers \cup BindQueues
ASSUME CommandBounds == CmdMaxIds \in Nat /\ CmdMaxLost \in Nat

VARIABLES
    part,  \* the component this behaviour is of
    bindings_row, bindings_deploy, bindings_made, bindings_begun, bindings_torn,
    bindings_unwound, bindings_late,
    commands_project, commands_rows, commands_ids, commands_cmd, commands_last,
    commands_begun, commands_lost, commands_spilt

\* Creates and deploys of workers whose manifests name each other's queues.
Binding == INSTANCE Bindings WITH
    Workers <- BindWorkers, Queues <- BindQueues, Manifests <- BindManifests,
    Deploys <- BindDeploys, MaxRows <- BindMaxRows, MaxBegun <- BindMaxBegun,
    row <- bindings_row, deploy <- bindings_deploy, made <- bindings_made,
    begun <- bindings_begun, torn <- bindings_torn, unwound <- bindings_unwound,
    late <- bindings_late

\* The users of one project name.
Cmd == INSTANCE Commands WITH
    Users <- CmdUsers, Asks <- CmdAsks, MaxBegun <- CmdMaxBegun, MaxIds <- CmdMaxIds,
    MaxLost <- CmdMaxLost, project <- commands_project, rows <- commands_rows,
    ids <- commands_ids, cmd <- commands_cmd, last <- commands_last,
    begun <- commands_begun, lost <- commands_lost, spilt <- commands_spilt

bindingsVars ==
    <<bindings_row, bindings_deploy, bindings_made, bindings_begun, bindings_torn,
      bindings_unwound, bindings_late>>
commandsVars ==
    <<commands_project, commands_rows, commands_ids, commands_cmd, commands_last,
      commands_begun, commands_lost, commands_spilt>>
everything == <<part, vars, bindingsVars, commandsVars>>

Parts == {"projects", "bindings", "commands"}

EveryInit ==
    /\ part \in Parts
    /\ Init
    /\ Binding!Init
    /\ Cmd!Init

EveryNext ==
    \/ part = "projects" /\ Next
       /\ UNCHANGED <<part, bindingsVars, commandsVars>>
    \/ part = "bindings" /\ Binding!Next
       /\ UNCHANGED <<part, vars, commandsVars>>
    \/ part = "commands" /\ Cmd!Next
       /\ UNCHANGED <<part, vars, bindingsVars>>

SpecResources == EveryInit /\ [][EveryNext]_everything

-----------------------------------------------------------------------------
\* A component's property, looked at where that component moves.
At(p, F) == part = p => F

\* What the other components promise, stated at their modules: that of the workers'
\* manifests,
BindingsStand == Binding!BindingsStand
\* and that of the commands.
CommandsKeepTheirWord == At("commands", Cmd!CommandsKeepTheirWord)
=============================================================================
