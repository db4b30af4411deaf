------------------------------ MODULE Composer ------------------------------
(***************************************************************************)
(* The composer of one page: the drafts of its conversations (store.js),   *)
(* what is typed, attached, sent and taken back when sending fails         *)
(* (thread.js), and the catching up of a synchronized conversation that    *)
(* another tab replaced (api.js).  A draft keeps the token of the snapshot *)
(* it was written against; the server refuses a message whose token is not *)
(* that of its snapshot.                                                   *)
(***************************************************************************)
EXTENDS Naturals

CONSTANTS
    Conv,      \* the conversations
    NoConv,
    MaxMsgs,   \* bound: messages begun
    MaxSnaps,  \* bound: snapshots of a conversation
    MaxEvents  \* bound: texts given up, files added, extensions writing, replacements, switches

ASSUME ComposerAssumption ==
    /\ Conv # {} /\ NoConv \notin Conv
    /\ MaxSnaps \in Nat \ {0} /\ {MaxMsgs, MaxEvents} \subseteq Nat

VARIABLES
    open,     \* the conversation displayed
    drafts,   \* store.drafts: the text (a message's number, or 0), token, images; touched says
              \* that its revision is no longer the one sent
    loaded,   \* per conversation, the token of the transcript loaded, or 0
    snapshot, \* the server's snapshot of each
    sends,    \* the requests under way
    bubble,   \* per message, its record in the transcript: none, pending or failed
    msgs,     \* messages begun: conversation, token displayed then, snapshot it was accepted on
    gone,     \* messages that the user or an extension gave up
    switchTo, \* pendingSessionSwitches
    catching, \* the automatic switch under way
    events    \* how many of the bounded events there were

composerVars == <<open, drafts, loaded, snapshot, sends, bubble, msgs, gone, switchTo, catching, events>>
switches == <<switchTo, catching>>

Msg == 1..MaxMsgs
EmptyDraft == [text |-> 0, token |-> 0, touched |-> FALSE, sending |-> FALSE, images |-> FALSE, reading |-> FALSE]
DraftRecord == [text : 0..MaxMsgs, token : 0..MaxSnaps, touched : BOOLEAN,
                sending : BOOLEAN, images : BOOLEAN, reading : BOOLEAN]
SendRecord == [conv : Conv, msg : 0..MaxMsgs, token : 0..MaxSnaps,
               images : BOOLEAN, reply : {"none", "ok", "failed"}]
Sending(c) == \E s \in sends : s.conv = c
\* A draft is marked as being sent exactly while a request of its conversation is.
ComposerTypeOK ==
    /\ open \in Conv /\ drafts \in [Conv -> DraftRecord]
    /\ \A c \in Conv : drafts[c].sending = Sending(c)
    /\ loaded \in [Conv -> 0..MaxSnaps] /\ snapshot \in [Conv -> 1..MaxSnaps]
    /\ sends \subseteq SendRecord /\ bubble \in [Msg -> {"none", "pending", "failed"}]
    /\ msgs \in [Msg -> [conv : Conv \cup {NoConv}, seen : 0..MaxSnaps, on : 0..MaxSnaps]]
    /\ gone \subseteq Msg
    /\ switchTo \in [Conv -> Conv \cup {NoConv}]
    /\ events \in 0..MaxEvents /\ catching \in [from : Conv \cup {NoConv}, to : Conv \cup {NoConv}]

NotCatching == [from |-> NoConv, to |-> NoConv]
ComposerInit ==
    /\ open = CHOOSE c \in Conv : TRUE
    /\ drafts = [c \in Conv |-> EmptyDraft] /\ loaded = [c \in Conv |-> 0]
    /\ snapshot = [c \in Conv |-> 1] /\ sends = {} /\ bubble = [m \in Msg |-> "none"]
    /\ msgs = [m \in Msg |-> [conv |-> NoConv, seen |-> 0, on |-> 0]] /\ gone = {}
    /\ switchTo = [c \in Conv |-> NoConv] /\ catching = NotCatching /\ events = 0

Event == events < MaxEvents /\ events' = events + 1
Pin(d, c) == IF d.token = 0 THEN [d EXCEPT !.token = loaded[c]] ELSE d
\* Mutant: a draft being sent is trimmed away, its revision and all.
TrimSending(d) == IF d.text = 0 /\ ~d.images /\ ~d.reading THEN EmptyDraft ELSE d
Trim(d) == IF d.text = 0 /\ ~d.images /\ ~d.reading /\ ~d.sending THEN EmptyDraft ELSE d
\* setDraft
SetText(d, c, m) ==
    LET pinned == IF m # 0 /\ m # d.text THEN Pin(d, c) ELSE d
    IN Trim([pinned EXCEPT !.text = m, !.touched = d.sending /\ (@ \/ m # d.text)])
SetImages(d, c, on) ==
    LET pinned == IF on THEN Pin(d, c) ELSE d IN Trim([pinned EXCEPT !.images = on, !.touched = d.sending])
Put(c, d) == drafts' = [drafts EXCEPT ![c] = d]

Fresh(m) == msgs[m].conv = NoConv /\ (\A k \in 1..(m - 1) : msgs[k].conv # NoConv)
Begin(m, c) == msgs' = [msgs EXCEPT ![m].conv = c, ![m].seen = loaded[c]]
\* The first keystroke of a message; the field is disabled while one is sent.
Type(m) ==
    /\ Fresh(m) /\ drafts[open].text = 0 /\ ~drafts[open].sending
    /\ Begin(m, open) /\ Put(open, SetText(drafts[open], open, m))
    /\ UNCHANGED <<open, loaded, snapshot, sends, bubble, gone, switches, events>>
Clear ==
    /\ Event /\ drafts[open].text # 0 /\ ~drafts[open].sending
    /\ gone' = gone \cup {drafts[open].text} /\ Put(open, SetText(drafts[open], open, 0))
    /\ UNCHANGED <<open, loaded, snapshot, sends, bubble, msgs, switches>>
\* extension_ui_editor: an extension writes into the field, whoever is using it.
\* A command has no bubble: if it is being sent, its text has no other place.
ExtensionWrites(m) ==
    /\ Event /\ Fresh(m) /\ Begin(m, open) /\ Put(open, SetText(drafts[open], open, m))
    /\ gone' = gone \cup ({drafts[open].text} \ {0})
                    \cup {k \in Msg : bubble[k] = "none" /\ \E s \in sends : s.conv = open /\ s.msg = k}
    /\ UNCHANGED <<open, loaded, snapshot, sends, bubble, switches>>

\* addFiles: the file is read while the user goes on, elsewhere perhaps.
AddFile ==
    /\ Event /\ ~drafts[open].sending /\ ~drafts[open].reading /\ ~drafts[open].images
    /\ Put(open, [Pin(drafts[open], open) EXCEPT !.reading = TRUE])
    /\ UNCHANGED <<open, loaded, snapshot, sends, bubble, msgs, gone, switches>>
FileRead(c, ok) ==
    /\ drafts[c].reading
    /\ LET read == IF ok THEN SetImages(drafts[c], c, TRUE) ELSE drafts[c]
       IN Put(c, Trim([read EXCEPT !.reading = FALSE]))
    /\ UNCHANGED <<open, loaded, snapshot, sends, bubble, msgs, gone, switches, events>>
RemoveImages ==
    /\ drafts[open].images /\ ~drafts[open].sending /\ Put(open, SetImages(drafts[open], open, FALSE))
    /\ UNCHANGED <<open, loaded, snapshot, sends, bubble, msgs, gone, switches, events>>

\* send: a plain message shows as a bubble, a command does not.
SendMessage(command) ==
    LET d == Pin(drafts[open], open)
    IN /\ (d.text # 0 \/ d.images) /\ ~d.reading /\ ~Sending(open)
       /\ sends' = sends \cup {[conv |-> open, msg |-> d.text, token |-> d.token,
                                images |-> d.images, reply |-> "none"]}
       /\ Put(open, Trim([d EXCEPT !.text = 0, !.token = 0, !.sending = TRUE, !.images = FALSE]))
       /\ bubble' = IF d.text # 0 /\ ~command THEN [bubble EXCEPT ![d.text] = "pending"] ELSE bubble
       /\ UNCHANGED <<open, loaded, snapshot, msgs, gone, switches, events>>

\* The server: assertSnapshot, then the message is taken; the answer may be lost.
Decided(s, reply) == sends' = (sends \ {s}) \cup {[s EXCEPT !.reply = reply]}
Handled(s) ==
    /\ s.reply = "none"
    /\ \/ /\ s.token \in {0, snapshot[s.conv]}
          /\ msgs' = IF s.msg = 0 THEN msgs ELSE [msgs EXCEPT ![s.msg].on = snapshot[s.conv]]
          /\ \E reply \in {"ok", "failed"} : Decided(s, reply)
       \/ Decided(s, "failed") /\ UNCHANGED msgs
    /\ UNCHANGED <<open, drafts, loaded, snapshot, bubble, gone, switches, events>>

\* Mutant: the draft comes back without the token it was written against.
ForgottenToken(d, s) == d
Restored(d, s) == IF s.token # 0 THEN [d EXCEPT !.token = s.token] ELSE d
\* The answer: a draft nobody touched meanwhile is cleared, or taken back.
SendAnswered(s) ==
    LET c == s.conv
        d == drafts[c]
        back == SetText(Restored(d, s), c, s.msg)
    IN /\ s.reply # "none" /\ sends' = sends \ {s}
       /\ Put(c, Trim([(IF d.touched THEN d ELSE IF s.reply = "ok" THEN EmptyDraft
                        ELSE IF s.images THEN [Pin(back, c) EXCEPT !.images = TRUE] ELSE back)
                       EXCEPT !.sending = FALSE, !.touched = FALSE]))
       /\ bubble' = IF s.msg = 0 \/ bubble[s.msg] = "none" THEN bubble
                    ELSE [bubble EXCEPT ![s.msg] = IF s.reply = "ok" THEN "none" ELSE "failed"]
       /\ UNCHANGED <<open, loaded, snapshot, msgs, gone, switches, events>>

\* Another tab, or the reconciliation ahead of a prompt, replaces the snapshot.
Replaced(c) ==
    /\ Event /\ snapshot[c] < MaxSnaps /\ snapshot' = [snapshot EXCEPT ![c] = @ + 1]
    /\ UNCHANGED <<open, drafts, loaded, sends, bubble, msgs, gone, switches>>
\* openTranscript: bubbles survive it.
Load ==
    /\ loaded[open] # snapshot[open] /\ loaded' = [loaded EXCEPT ![open] = snapshot[open]]
    /\ UNCHANGED <<open, drafts, snapshot, sends, bubble, msgs, gone, switches, events>>
Open(c) == c # open /\ open' = c /\ UNCHANGED <<drafts, loaded, snapshot, sends, bubble, msgs, gone, switches, events>>

HasDraft(c) == drafts[c].text # 0 \/ drafts[c].images \/ drafts[c].reading \/ drafts[c].sending
\* session_switched, for the conversation displayed.
Switched(c) ==
    /\ Event /\ c # open /\ switchTo' = [switchTo EXCEPT ![open] = c]
    /\ UNCHANGED <<open, drafts, loaded, snapshot, sends, bubble, msgs, gone, catching>>
CanCatchUp(c) == open = c /\ ~HasDraft(c)
\* checkActiveSync, openSwitchedSession: asked before and after the state is fetched.
CatchUp ==
    /\ catching = NotCatching /\ switchTo[open] # NoConv /\ CanCatchUp(open)
    /\ catching' = [from |-> open, to |-> switchTo[open]]
    /\ UNCHANGED <<open, drafts, loaded, snapshot, sends, bubble, msgs, gone, switchTo, events>>
CaughtUp ==
    /\ catching # NotCatching /\ catching' = NotCatching
    /\ IF CanCatchUp(catching.from)
       THEN /\ open' = catching.to
            /\ switchTo' = IF switchTo[catching.from] = catching.to
                           THEN [switchTo EXCEPT ![catching.from] = NoConv] ELSE switchTo
       ELSE UNCHANGED <<open, switchTo>>
    /\ UNCHANGED <<drafts, loaded, snapshot, sends, bubble, msgs, gone, events>>

ComposerNext ==
    \/ \E m \in Msg : Type(m) \/ ExtensionWrites(m)
    \/ Clear \/ AddFile \/ RemoveImages \/ Load \/ CatchUp \/ CaughtUp
    \/ \E command \in BOOLEAN : SendMessage(command)
    \/ \E s \in sends : Handled(s) \/ SendAnswered(s)
    \/ \E c \in Conv : Replaced(c) \/ Open(c) \/ Switched(c) \/ \E ok \in BOOLEAN : FileRead(c, ok)

\* What was typed is somewhere: in the draft of its own conversation, on its way,
\* taken by the snapshot, or shown as not delivered, until somebody gives it up.
NothingTypedLost ==
    \A m \in Msg : msgs[m].conv # NoConv /\ m \notin gone =>
        LET c == msgs[m].conv
        IN drafts[c].text = m \/ msgs[m].on # 0 \/ bubble[m] = "failed" \/ \E s \in sends : s.msg = m

\* A message is taken only on the snapshot its author had before him when he began
\* it: sent again after a refusal or a failure, it does not pass for one written
\* against a newer one.  And nobody is taken from the draft he is writing.
WrittenOnWhatWasSeen ==
    [][/\ msgs' # msgs => \A m \in Msg : msgs'[m].on # msgs[m].on => msgs'[m].seen \in {0, msgs'[m].on}
       /\ open' # open /\ catching # NotCatching /\ catching' = NotCatching => ~HasDraft(open)]_composerVars
=============================================================================
