---------------------------- MODULE SettingsPage ----------------------------
(***************************************************************************)
(* The settings of a page: what is typed into their fields while they are  *)
(* posted, refreshed and drawn anew.  public/js/settings.js.                *)
(***************************************************************************)
EXTENDS Naturals, FiniteSets

CONSTANTS
    Setting,    \* fields
    Direct,     \* those whose answer is shown at once; the others fetch the state
    Entry,      \* their values
    NoEntry,
    MaxEdits,   \* bound: edits
    MaxSaves,   \* bound: saves
    MaxOpenings \* bound: times the page is left

ASSUME SettingsAssumption ==
    /\ Direct \subseteq Setting /\ NoEntry \notin Entry
    /\ {MaxEdits, MaxSaves, MaxOpenings} \subseteq Nat

VARIABLES
    settled,    \* the server's settings
    heard,      \* the settings as the page last heard
    fields,     \* this.drafts: [map: which one it is, of: its values]
    typings,
    posts,      \* saves under way
    posted,      \* their number
    unsaved     \* history: what the user typed and no save has brought to the server

settingsVars == <<settled, heard, fields, typings, posts, posted, unsaved>>

Typed == Entry \cup {NoEntry}
Save == [n : 1..MaxSaves, of : Setting, value : Entry, map : 0..MaxOpenings, before : Entry,
         at : {"sent", "taken", "refused", "fetching"}]

SettingsTypeOK ==
    /\ settled \in [Setting -> Entry] /\ heard \in [Setting -> Entry]
    /\ fields.map \in 0..MaxOpenings /\ fields.of \in [Setting -> Typed] /\ unsaved \in [Setting -> Typed]
    /\ posts \subseteq Save /\ posted \in 0..MaxSaves /\ typings \in 0..MaxEdits

NoDrafts == [f \in Setting |-> NoEntry]

SettingsInit ==
    /\ settled \in {[f \in Setting |-> v] : v \in Entry} /\ heard = settled
    /\ fields = [map |-> 0, of |-> NoDrafts] /\ unsaved = NoDrafts
    /\ typings = 0 /\ posts = {} /\ posted = 0

(***************************************************************************)
(* Fields.                                                                 *)
(***************************************************************************)
\* settingValue, as render leaves the field: the draft, or what is stored.
Shown(f) == IF fields.of[f] # NoEntry THEN fields.of[f] ELSE heard[f]

\* A save under way has brought just that to the server.
Brought(s, f, v) == s.of = f /\ s.map = fields.map /\ s.value = v /\ s.at \in {"taken", "fetching"}

\* trackDraft
TypeSetting(f, v) ==
    /\ typings < MaxEdits /\ typings' = typings + 1 /\ v # Shown(f)
    /\ fields' = [fields EXCEPT !.of[f] = v]
    /\ unsaved' = [unsaved EXCEPT ![f] = IF \E s \in posts : Brought(s, f, v) THEN NoEntry ELSE v]
    /\ UNCHANGED <<settled, heard, posts, posted>>

\* The page is left, or opened: resetDrafts.
LeavePage ==
    /\ fields.map < MaxOpenings /\ fields' = [map |-> fields.map + 1, of |-> NoDrafts] /\ unsaved' = NoDrafts
    /\ UNCHANGED <<settled, heard, typings, posts, posted>>

\* saveReposRoot, saveDefaultThinking, saveSyncSettings, saveRepositorySettings,
\* savePiConfiguration: snapshotDrafts, and the request.
SaveSetting(f) ==
    /\ posted < MaxSaves /\ posted' = posted + 1
    /\ posts' = posts \cup {[n |-> posted + 1, of |-> f, value |-> Shown(f), map |-> fields.map, before |-> heard[f], at |-> "sent"]}
    /\ UNCHANGED <<settled, heard, fields, typings, unsaved>>

At(s, place) == (posts \ {s}) \cup {[s EXCEPT !.at = place]}

\* POST /settings, whose answer may be lost.
SettingTaken(s) ==
    /\ s.at = "sent" /\ settled' = [settled EXCEPT ![s.of] = s.value]
    /\ unsaved' = [unsaved EXCEPT ![s.of] = IF s.map = fields.map /\ @ = s.value THEN NoEntry ELSE @]
    /\ \E place \in {"taken", "refused"} : posts' = At(s, place)
    /\ UNCHANGED <<heard, fields, typings, posted>>
SettingRefused(s) == s.at = "sent" /\ posts' = At(s, "refused") /\ UNCHANGED <<settled, heard, fields, typings, posted, unsaved>>

\* Mutant: whatever the field holds by now is taken for saved.
ClearsAny(s, f) == s.of = f /\ s.map = fields.map
\* clearDrafts
Clears(s, f) == s.of = f /\ s.map = fields.map /\ fields.of[f] = s.value
WithoutSaved(s) == [fields EXCEPT !.of = [f \in Setting |-> IF Clears(s, f) THEN NoEntry ELSE @[f]]]

\* The answer; where it is not shown at once, the state is fetched first.
SaveAnswered(s) ==
    /\ s.at = "taken" /\ UNCHANGED <<settled, typings, posted, unsaved>>
    /\ IF s.of \in Direct
       THEN posts' = posts \ {s} /\ heard' = [heard EXCEPT ![s.of] = s.value] /\ fields' = WithoutSaved(s)
       ELSE posts' = At(s, "fetching") /\ UNCHANGED <<heard, fields>>
StateFetched(s) ==
    /\ s.at = "fetching" /\ posts' = posts \ {s}
    /\ \/ heard' = settled /\ fields' = WithoutSaved(s)
       \/ UNCHANGED <<heard, fields>>
    /\ UNCHANGED <<settled, typings, posted, unsaved>>
SaveFailed(s) ==
    /\ s.at = "refused" /\ posts' = posts \ {s}
    /\ heard' = IF s.of \in Direct THEN [heard EXCEPT ![s.of] = s.before] ELSE heard
    /\ UNCHANGED <<settled, fields, typings, posted, unsaved>>

\* refreshState, by anyone.
StateHeard == heard # settled /\ heard' = settled /\ UNCHANGED <<settled, fields, typings, posts, posted, unsaved>>

SettingsNext ==
    \/ \E f \in Setting, v \in Entry : TypeSetting(f, v)
    \/ \E f \in Setting : SaveSetting(f)
    \/ \E s \in posts : SettingTaken(s) \/ SettingRefused(s) \/ SaveAnswered(s) \/ StateFetched(s) \/ SaveFailed(s)
    \/ LeavePage \/ StateHeard

SettingsSpec == SettingsInit /\ [][SettingsNext]_settingsVars

\* What the user typed stays in its field, whatever else is saved, refused or
\* fetched meanwhile, until a save brought exactly that to the server.
SettingsKept == \A f \in Setting : unsaved[f] # NoEntry => Shown(f) = unsaved[f]
=============================================================================
