------------------------------- MODULE Parts -------------------------------
(***************************************************************************)
(* Parts of the system that share no state with each other or with what    *)
(* the other modules describe.  Each is exercised with the others at rest: *)
(* inUse says which.                                                       *)
(***************************************************************************)
EXTENDS KubernetesProvider, ExtensionDialogs, Composer, PiConfiguration, AgentCards,
        Operations, Selection, FilePanel, SettingsPage, LoginPanel,
        RemoteWorkspaces, SharedLogins, Recovery

VARIABLE inUse

serverVars == <<kVars, dialogVars, composerVars, piVars, cardVars>>
pageVars == <<opVars, selectionVars, panelVars, settingsVars, loginVars>>
linkVars == <<remoteVars, sharedVars, recoveryVars>>
partVars == <<serverVars, pageVars, linkVars, inUse>>

\* Of the part in use: the others are at rest.
PartsTypeOK ==
    /\ inUse = "kubernetes" => KTypeOK
    /\ inUse = "dialogs" => DialogsTypeOK
    /\ inUse = "composer" => ComposerTypeOK
    /\ inUse = "profile" => PiTypeOK
    /\ inUse = "agents" => CardsTypeOK
    /\ inUse = "hooks" => OperationsTypeOK
    /\ inUse = "selection" => SelectionTypeOK
    /\ inUse = "files" => PanelTypeOK
    /\ inUse = "settings" => SettingsTypeOK
    /\ inUse = "login" => LoginTypeOK
    /\ inUse = "workers" => RemoteTypeOK
    /\ inUse = "sharing" => SharedTypeOK
    /\ inUse = "recovery" => RecoveryTypeOK

PartsInit ==
    /\ KInit /\ DialogsInit /\ ComposerInit /\ PiInit /\ CardsInit
    /\ OpInit /\ SelectionInit /\ PanelInit /\ SettingsInit /\ LoginInit
    /\ RemoteInit /\ SharedInit /\ RecoveryInit
    /\ inUse \in {"kubernetes", "dialogs", "composer", "profile", "agents", "hooks", "selection", "files", "settings", "login",
                 "workers", "sharing", "recovery"}
    /\ inUse # "kubernetes" => deployment[KHome] = 1
    /\ inUse # "profile" => saved = NoSource /\ piTrouble = "network"
    /\ inUse # "recovery" => onLine
    /\ inUse # "selection" => living = {} /\ unborn = {} /\ stored = NoChoice
    /\ inUse # "files" => seat = (CHOOSE f \in [Thread -> Place] : TRUE)
    /\ inUse # "settings" => settled = (CHOOSE f \in [Setting -> Entry] : \A g, h \in Setting : f[g] = f[h])

PartsNext ==
    \/ /\ UNCHANGED <<pageVars, linkVars, inUse>>
       /\ \/ inUse = "kubernetes" /\ KNext /\ UNCHANGED <<dialogVars, composerVars, piVars, cardVars>>
          \/ inUse = "dialogs" /\ DialogsNext /\ UNCHANGED <<kVars, composerVars, piVars, cardVars>>
          \/ inUse = "composer" /\ ComposerNext /\ UNCHANGED <<kVars, dialogVars, piVars, cardVars>>
          \/ inUse = "profile" /\ PiNext /\ UNCHANGED <<kVars, dialogVars, composerVars, cardVars>>
          \/ inUse = "agents" /\ CardsNext /\ UNCHANGED <<kVars, dialogVars, composerVars, piVars>>
    \/ /\ UNCHANGED <<serverVars, linkVars, inUse>>
       /\ \/ inUse = "hooks" /\ OpNext /\ UNCHANGED <<selectionVars, panelVars, settingsVars, loginVars>>
          \/ inUse = "selection" /\ SelectionNext /\ UNCHANGED <<opVars, panelVars, settingsVars, loginVars>>
          \/ inUse = "files" /\ PanelNext /\ UNCHANGED <<opVars, selectionVars, settingsVars, loginVars>>
          \/ inUse = "settings" /\ SettingsNext /\ UNCHANGED <<opVars, selectionVars, panelVars, loginVars>>
          \/ inUse = "login" /\ LoginNext /\ UNCHANGED <<opVars, selectionVars, panelVars, settingsVars>>
    \/ /\ UNCHANGED <<serverVars, pageVars, inUse>>
       /\ \/ inUse = "workers" /\ RemoteNext /\ UNCHANGED <<sharedVars, recoveryVars>>
          \/ inUse = "sharing" /\ SharedNext /\ UNCHANGED <<remoteVars, recoveryVars>>
          \/ inUse = "recovery" /\ RecoveryNext /\ UNCHANGED <<remoteVars, sharedVars>>

PartsSpec == PartsInit /\ [][PartsNext]_partVars

\* The settings page tells the truth of what the user types and of the login that
\* is under way there.
SettingsTrue == SettingsKept /\ LoginFollowed

\* What the server knows of its workers holds together.
WorkersFollowed == OneLoop /\ ShownIsOwned
=============================================================================
