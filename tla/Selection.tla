----------------------------- MODULE Selection -----------------------------
(***************************************************************************)
(* Which conversation a page shows: the one it remembers from before the   *)
(* reload, what the user picks, and where it goes when the one shown is    *)
(* closed, here or elsewhere, while lists of conversations are fetched.    *)
(* public/js/main.js, shell.js and api.js.                                 *)
(***************************************************************************)
EXTENDS Naturals, SequencesExt

CONSTANTS
    InProject,      \* conversations of a project
    PlainChat,      \* chats
    NoChoice,       \* no conversation selected
    MaxNoState,     \* bound: fetches of the state that fail
    MaxNews         \* bound: events on their way at a time

ASSUME SelectionAssumption == NoChoice \notin InProject \cup PlainChat /\ {MaxNoState, MaxNews} \subseteq Nat

VARIABLES
    living,     \* the server's conversations that are not closed
    unborn,     \* conversations to come
    list,       \* store.state: the conversations the page knows
    active,     \* store.activeKey()
    stored,     \* localStorage: the active session
    early,      \* earlyId
    phase,      \* main.js: fetching the state, then about to choose, then done
    refresh,    \* stateRefreshPromise: where its fetch is, what it brings, who waits for it
    news,       \* session_closed events on their way
    noStates,
    misled      \* history: the page could not know that the conversation shown is closed

selectionVars == <<living, unborn, list, active, stored, early, phase, refresh, news, noStates, misled>>

Known == InProject \cup PlainChat
Selectable == Known \cup {NoChoice}
Idle == [at |-> "none", list |-> {}, after |-> <<>>]

SelectionTypeOK ==
    /\ living \subseteq Known /\ unborn \subseteq Known \ living /\ list \subseteq Known
    /\ {active, stored, early} \subseteq Selectable
    /\ phase \in {"fetching", "choosing", "done"}
    /\ refresh.at \in {"none", "asked", "served"} /\ refresh.list \subseteq Known
    /\ \A i \in DOMAIN refresh.after : refresh.after[i].closed \in Known /\ refresh.after[i].was \in Selectable
    /\ \A i \in DOMAIN news : news[i] \in Known
    /\ noStates \in 0..MaxNoState /\ misled \in BOOLEAN

\* paintCachedState, openSavedSelectionEarly, and the state asked for.
SelectionInit ==
    /\ living \in SUBSET Known /\ unborn \in {{}, PlainChat \ living}
    /\ list = Known \ unborn /\ stored \in (Known \ unborn) \cup {NoChoice}
    /\ active = stored /\ early = stored /\ phase = "fetching"
    /\ refresh = [Idle EXCEPT !.at = "asked"] /\ news = <<>> /\ noStates = 0 /\ misled = FALSE

\* refreshState: who asks while one is under way waits for that one.
Joined(waiting) ==
    refresh' = [refresh EXCEPT !.at = IF @ = "none" THEN "asked" ELSE @, !.after = @ \o waiting]

\* selectSession, selectChat.  What is stored is read again only by another reload.
Selected(c) == active' = c /\ stored' = IF phase' = "done" THEN NoChoice ELSE c

\* Closed, and that was heard before: the list it is picked from is too old.
OutOfDate(c) == c \notin living \cup Range(news) \cup {NoChoice}

\* A click in the list, which may be of before the conversation was closed.
PickConversation(c) ==
    /\ c \in list /\ c # active /\ UNCHANGED phase /\ Selected(c)
    /\ misled' = (misled \/ OutOfDate(c))
    /\ UNCHANGED <<living, unborn, list, early, refresh, news, noStates>>

NewChat(c) ==
    /\ phase = "done" /\ c \in unborn \cap PlainChat
    /\ living' = living \cup {c} /\ unborn' = unborn \ {c} /\ UNCHANGED phase /\ Selected(c) /\ Joined(<<>>)
    /\ UNCHANGED <<list, early, news, noStates, misled>>

\* closeConversation, in this page or another one.
CloseConversation(c) ==
    /\ Len(news) < MaxNews /\ c \in living /\ living' = living \ {c} /\ news' = Append(news, c)
    /\ UNCHANGED <<unborn, list, active, stored, early, phase, refresh, noStates, misled>>

\* The timer of app.js, and the refresh after a close.
RefreshAgain ==
    /\ phase = "done" /\ refresh.at = "none" /\ Joined(<<>>)
    /\ UNCHANGED <<living, unborn, list, active, stored, early, phase, news, noStates, misled>>

StateServed ==
    /\ refresh.at = "asked" /\ refresh' = [refresh EXCEPT !.at = "served", !.list = living]
    /\ UNCHANGED <<living, unborn, list, active, stored, early, phase, news, noStates, misled>>

\* session_closed: what is selected now is remembered, to be left if it still is then.
ClosedHeard ==
    /\ news # <<>> /\ news' = Tail(news)
    /\ Joined(<<[closed |-> Head(news), was |-> active]>>)
    /\ UNCHANGED <<living, unborn, list, active, stored, early, phase, noStates, misled>>

\* Mutant: it moves on whatever was selected meanwhile.
LeavesAny(w, now) == w.was = w.closed
Leaves(w, now) == w.was = w.closed /\ now = w.was
\* Where the page goes, of a list, from a closed conversation of each kind.
NextShown(c, l) ==
    IF c \in PlainChat THEN {NoChoice}
    ELSE IF l \cap InProject # {} THEN l \cap InProject
    ELSE IF l \cap PlainChat # {} THEN l \cap PlainChat
    ELSE {NoChoice}
\* What may be selected once those who waited have all run, in their order.
AfterWaiting(waiting, l) ==
    LET shown[i \in 0..Len(waiting)] ==
            IF i = 0 THEN {active}
            ELSE UNION {IF Leaves(waiting[i], s) THEN NextShown(s, l) ELSE {s} : s \in shown[i - 1]}
    IN shown[Len(waiting)]
\* main.js goes on when the state is there, or is not.
Fetched == IF phase = "fetching" THEN "choosing" ELSE phase

StateArrives ==
    /\ refresh.at = "served" /\ list' = refresh.list /\ refresh' = Idle /\ phase' = Fetched
    /\ active' \in AfterWaiting(refresh.after, refresh.list)
    /\ misled' = (misled \/ \E i \in DOMAIN refresh.after : refresh.after[i].closed \in refresh.list)
    /\ UNCHANGED <<living, unborn, stored, early, news, noStates>>

StateFails ==
    /\ refresh.at # "none" /\ noStates < MaxNoState /\ noStates' = noStates + 1
    /\ refresh' = Idle /\ phase' = Fetched
    /\ misled' = (misled \/ phase = "fetching" \/ refresh.after # <<>>)
    /\ UNCHANGED <<living, unborn, list, active, stored, early, news>>

\* The end of main.js: keep what the user picked, else what was saved, else the first.
Startup ==
    /\ phase = "choosing" /\ phase' = "done" /\ early' = NoChoice
    /\ IF active \notin {NoChoice, early} THEN UNCHANGED active /\ stored' = NoChoice
       ELSE IF stored \in list THEN Selected(stored)
       ELSE \/ \E c \in list : (list \cap PlainChat # {} => c \in PlainChat) /\ Selected(c)
            \/ list = {} /\ active' = (IF active = early THEN NoChoice ELSE active) /\ stored' = NoChoice
    /\ misled' = (misled \/ OutOfDate(active'))
    /\ UNCHANGED <<living, unborn, list, refresh, news, noStates>>

SelectionNext ==
    \/ \E c \in Known : PickConversation(c) \/ NewChat(c) \/ CloseConversation(c)
    \/ RefreshAgain \/ StateServed \/ ClosedHeard \/ StateArrives \/ StateFails \/ Startup

SelectionSpec == SelectionInit /\ [][SelectionNext]_selectionVars

AllHeard == phase = "done" /\ refresh.at = "none" /\ news = <<>>

\* A page never moves by itself off a conversation the user picked, unless that one
\* was closed: not while it starts, not when another conversation is closed, not
\* when the list it waited for comes late.  And once all is heard it does not show
\* a closed conversation, unless the list it moved by was fetched before the
\* conversation was closed, or could not be fetched, or was picked from.
SelectionRight ==
    [][/\ active' # active => \/ \E c \in Known : PickConversation(c) \/ NewChat(c)
                              \/ active \notin living
                              \/ phase = "choosing" /\ active = early
       /\ AllHeard' /\ ~misled' => active' = NoChoice \/ active' \in living']_selectionVars
=============================================================================
