------------------------------ MODULE Managers ------------------------------
(***************************************************************************)
(* Three managers that share no state: workspaced's child processes and    *)
(* the two kinds of logins of a server.  Each is exercised with the others *)
(* at rest: inUse says which.                                              *)
(***************************************************************************)
EXTENDS LocalProvider, AuthFlows, GitHubDeviceFlow

VARIABLE inUse

managerVars == <<vars, authVars, gitHubVars, inUse>>

ManagersTypeOK == TypeOK /\ AuthTypeOK /\ GitHubTypeOK

ManagersInit ==
    /\ Init /\ AuthInit /\ GitHubInit /\ inUse \in {"workers", "ai", "github"}
    /\ token => inUse = "github"

ManagersNext ==
    \/ inUse = "workers" /\ Next /\ UNCHANGED <<authVars, gitHubVars, inUse>>
    \/ inUse = "ai" /\ AuthNext /\ UNCHANGED <<vars, gitHubVars, inUse>>
    \/ inUse = "github" /\ GitHubNext /\ UNCHANGED <<vars, authVars, inUse>>

ManagersSpec == ManagersInit /\ [][ManagersNext]_managerVars /\ Fairness /\ AuthFairness /\ GitHubFairness

\* A login, of either kind, stops being the active one, so that the next can
\* start, whatever the SDK, GitHub and the user do.
LoginsEnd == NextLoginPossible /\ GitHubFlowEnds
=============================================================================
