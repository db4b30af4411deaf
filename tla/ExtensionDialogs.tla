-------------------------- MODULE ExtensionDialogs --------------------------
(***************************************************************************)
(* The dialogs a Pi extension opens (sync/web-adapter.js) and the page     *)
(* that shows them (public/js/dialogs.js, api.js, shell.js).  The server   *)
(* keeps the waiting ones; the page has room for one, of any conversation, *)
(* and a draft of the answer to it.  Requests and events may be lost.      *)
(***************************************************************************)
EXTENDS Sequences, FiniteSets, SequencesExt

CONSTANTS
    Dialog,     \* the dialogs extensions raise
    Talk,       \* the conversations
    NoDialog,
    MaxWire,    \* bound: dialog events on their way to the page
    MaxDrafts,  \* bound: drafts the page makes
    MaxAsks     \* bound: unanswered requests of the page

ASSUME DialogsAssumption ==
    /\ NoDialog \notin Dialog /\ IsFiniteSet(Dialog) /\ Talk # {}
    /\ {MaxWire, MaxDrafts, MaxAsks} \subseteq Nat

VARIABLES
    dialog,   \* the server: per dialog its state, conversation and what the extension got
    wire,     \* dialog events on the page's event stream
    shown,    \* store.extensionUi
    view,     \* the conversation the page displays
    draft,    \* the draft: its dialog and its number, which makes it an object of its own
    busy,     \* a request made from the draft is under way
    made,     \* number of drafts made
    asks      \* requests of the page and what became of them

dialogVars == <<dialog, wire, shown, view, draft, busy, made, asks>>
page == <<shown, view, draft, busy, made>>

NoDraft == [of |-> NoDialog, n |-> 0]
Replies == {"none", "ok", "refused", "lost"}
DialogsTypeOK ==
    /\ dialog \in [Dialog -> [state : {"unborn", "waiting", "settled"}, talk : Talk,
                              got : Dialog \cup {NoDialog}]]
    /\ wire \in Seq(Dialog) /\ Len(wire) <= MaxWire
    /\ shown \in Dialog \cup {NoDialog} /\ view \in Talk /\ busy \in BOOLEAN
    /\ made \in 0..MaxDrafts /\ draft \in [of : Dialog \cup {NoDialog}, n : 0..MaxDrafts]
    /\ asks \subseteq [dialog : Dialog, typed : Dialog, n : 0..MaxDrafts, how : {"answer", "cancel", "leave"}, reply : Replies]

DialogsInit ==
    LET home == CHOOSE t \in Talk : TRUE
    IN /\ dialog = [d \in Dialog |-> [state |-> "unborn", talk |-> home, got |-> NoDialog]]
       /\ view = home /\ wire = <<>> /\ shown = NoDialog /\ draft = NoDraft /\ busy = FALSE
       /\ made = 0 /\ asks = {}

Waiting(d) == dialog[d].state = "waiting"
\* finish: the first to come settles, the others find nothing.
FinishDialogs(ds, got) == dialog' = [d \in Dialog |->
    IF d \in ds /\ Waiting(d) THEN [dialog[d] EXCEPT !.state = "settled", !.got = got] ELSE dialog[d]]
Emit(events) == Len(wire \o events) <= MaxWire /\ wire' = wire \o events

\* request; with an aborted signal it is answered before anybody sees it.
Raise(d, t, aborted) ==
    /\ dialog[d].state = "unborn"
    /\ dialog' = [dialog EXCEPT ![d].state = IF aborted THEN "settled" ELSE "waiting", ![d].talk = t]
    /\ Emit(IF aborted THEN <<>> ELSE <<d>>) /\ UNCHANGED <<page, asks>>
\* The signal of the extension, or the timer.
Lapses(d) == Waiting(d) /\ FinishDialogs({d}, NoDialog) /\ UNCHANGED <<wire, page, asks>>
\* cancelSession, close: the runtime is disposed.
EndSession(t) ==
    /\ \E d \in Dialog : Waiting(d) /\ dialog[d].talk = t
    /\ FinishDialogs({d \in Dialog : dialog[d].talk = t}, NoDialog) /\ UNCHANGED <<wire, page, asks>>
\* GET transcript of the conversation displayed, on opening it and after reconnects.
ReplayPending ==
    /\ Emit(SetToSeq({d \in Dialog : Waiting(d) /\ dialog[d].talk = view}))
    /\ UNCHANGED <<dialog, page, asks>>
Disconnect == wire # <<>> /\ wire' = <<>> /\ UNCHANGED <<dialog, page, asks>>

\* respond, cancel: of the dialog the request names.
Arrives(a) ==
    /\ a.reply = "none"
    /\ \E lost \in {"none", "request", "reply"} :
        /\ IF lost = "request" THEN UNCHANGED dialog
           ELSE FinishDialogs({a.dialog}, IF a.how = "answer" THEN a.typed ELSE NoDialog)
        /\ asks' = (asks \ {a}) \cup {[a EXCEPT !.reply =
               IF lost # "none" THEN "lost" ELSE IF Waiting(a.dialog) THEN "ok" ELSE "refused"]}
    /\ UNCHANGED <<wire, page>>

Visible(d, t) == d # NoDialog /\ dialog[d].talk = t
\* Mutant: a draft outlives the dialog it was made for.
RenderKeepsDraft(d, t) ==
    IF ~Visible(d, t) THEN draft' = NoDraft /\ busy' = FALSE /\ UNCHANGED made
    ELSE IF draft # NoDraft THEN UNCHANGED <<draft, busy, made>>
    ELSE made < MaxDrafts /\ made' = made + 1 /\ draft' = [of |-> d, n |-> made + 1] /\ busy' = FALSE
\* render: whenever the store changes; another dialog gets a draft of its own.
Render(d, t) ==
    IF ~Visible(d, t) THEN draft' = NoDraft /\ busy' = FALSE /\ UNCHANGED made
    ELSE IF draft.of = d THEN UNCHANGED <<draft, busy, made>>
    ELSE made < MaxDrafts /\ made' = made + 1 /\ draft' = [of |-> d, n |-> made + 1] /\ busy' = FALSE

Receive ==
    /\ wire # <<>> /\ wire' = Tail(wire) /\ shown' = Head(wire)
    /\ Render(Head(wire), view) /\ UNCHANGED <<dialog, view, asks>>

Ask(d, typed, how) ==
    [dialog |-> d, typed |-> typed, n |-> draft.n, how |-> how, reply |-> "none"]
SendAsk(a) == Cardinality(asks) < MaxAsks /\ asks' = asks \cup {a}
\* submit, cancel: what is in the field belongs to the draft.
SubmitDialog(how) ==
    /\ Visible(shown, view) /\ ~busy /\ draft # NoDraft /\ busy' = TRUE
    /\ SendAsk(Ask(shown, draft.of, how))
    /\ UNCHANGED <<dialog, wire, shown, view, draft, made>>
Owns(a) == draft.n = a.n /\ busy /\ Visible(shown, view) /\ shown = a.dialog
Replied(a) ==
    /\ a.reply # "none" /\ asks' = asks \ {a} /\ UNCHANGED <<dialog, wire, view, made>>
    /\ IF a.how = "leave" \/ ~Owns(a) THEN UNCHANGED <<shown, draft, busy>>
       ELSE IF a.how = "answer" /\ a.reply # "ok" THEN busy' = FALSE /\ UNCHANGED <<shown, draft>>
       ELSE shown' = NoDialog /\ draft' = NoDraft /\ busy' = FALSE

\* selectSession, selectChat: cancelExtensionUiFor gives up what belongs elsewhere.
Select(t) ==
    /\ t # view /\ view' = t
    /\ IF shown = NoDialog \/ Visible(shown, t) THEN Render(shown, t) /\ UNCHANGED <<shown, asks>>
       ELSE shown' = NoDialog /\ SendAsk(Ask(shown, shown, "leave")) /\ Render(NoDialog, t)
    /\ UNCHANGED <<dialog, wire>>

DialogsNext ==
    \/ \E d \in Dialog : Lapses(d) \/ \E t \in Talk, aborted \in BOOLEAN : Raise(d, t, aborted)
    \/ \E t \in Talk : EndSession(t) \/ Select(t)
    \/ ReplayPending \/ Disconnect \/ Receive
    \/ \E how \in {"answer", "cancel"} : SubmitDialog(how)
    \/ \E a \in asks : Arrives(a) \/ Replied(a)

\* A dialog never gets what was typed for another one, and the page gives up the
\* one it shows only for another that came in, for another conversation, when it
\* no longer waits, or when its own cancellation failed: a late reply to an
\* earlier answer never closes the dialog that has taken its place.
DialogsKept ==
    [][/\ \A d \in Dialog : dialog'[d].got \in {NoDialog, d}
       /\ Visible(shown, view) /\ shown' = NoDialog /\ view' = view =>
            \/ ~Waiting(shown)
            \/ \E a \in asks \ asks' : a.dialog = shown /\ a.how = "cancel" /\ a.reply = "lost"]_dialogVars
=============================================================================
