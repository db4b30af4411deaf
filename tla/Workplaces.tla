----------------------------- MODULE Workplaces -----------------------------
(***************************************************************************)
(* Where conversations work: the repository with its checkout and its      *)
(* worktrees, the files of the server that say which projects there are    *)
(* and which conversation is bound where, and the review before a push.    *)
(* They share no state and are exercised in turn, the others at rest:      *)
(* inUse says which.                                                       *)
(***************************************************************************)
EXTENDS GitWorkspaces, AppState, PushReview

VARIABLE inUse
placeVars == <<vars, appVars, pushVars, inUse>>

\* Of the part in use: the others are at rest.
PlacesTypeOK ==
    CASE inUse = "repository" -> TypeOK
      [] inUse = "review" -> PushTypeOK
      [] OTHER -> AppTypeOK

PlacesInit ==
    /\ Init /\ AppInit /\ PushInit
    /\ inUse \in {"repository", "config", "entries", "review"}
    /\ inUse # "repository" => made = 0 /\ synced = {} /\ \A b \in Branch \ {Feature} : tip[b] = NoBranch

PlacesNext ==
    \/ inUse = "repository" /\ Next /\ UNCHANGED <<appVars, pushVars, inUse>>
    \/ inUse = "config" /\ ConfigNext /\ UNCHANGED <<vars, pushVars, inUse>>
    \/ inUse = "entries" /\ EntriesNext /\ UNCHANGED <<vars, pushVars, inUse>>
    \/ inUse = "review" /\ PushNext /\ UNCHANGED <<vars, appVars, inUse>>

PlacesSpec == PlacesInit /\ [][PlacesNext]_placeVars
=============================================================================
