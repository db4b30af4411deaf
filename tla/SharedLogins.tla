---------------------------- MODULE SharedLogins ----------------------------
(***************************************************************************)
(* server/remote-workspaces.js, pushModelAuth: the web server's logins at  *)
(* model providers, sent to workspaced, which writes them where workers    *)
(* read them.  Sent by a timer and before a repository is added, when they *)
(* are not what was published last.                                        *)
(***************************************************************************)
EXTENDS Naturals

CONSTANTS
    Copy,      \* places workspaced writes to: a Secret per namespace, or one file
    Pushing,   \* calls of pushModelAuth that may overlap
    MaxTexts   \* bound: contents auth.json has had

ASSUME SharedAssumption == MaxTexts \in Nat \ {0}

VARIABLES
    authText,   \* content of web's auth.json; a new one each time
    published,  \* publishedModelAuth: [is: known, text]
    copies,     \* [Copy -> content, 0 before the first]
    pushings,   \* [Pushing -> a call]
    overtaken   \* calls sent their contents at once, and none alone since

sharedVars == <<authText, published, copies, pushings, overtaken>>

Text == 0..MaxTexts
NoPushing == [at |-> "idle", text |-> 0, done |-> {}, alone |-> FALSE]

\* Content 0 is the file before this server started; workspaced may have it already.
SharedTypeOK ==
    /\ authText \in Text
    /\ published \in [known : BOOLEAN, text : Text]
    /\ copies \in [Copy -> Text]
    /\ pushings \in [Pushing -> [at : {"idle", "refreshing", "sent", "lost"}, text : Text, done : SUBSET Copy, alone : BOOLEAN]]
    /\ overtaken \in BOOLEAN

SharedInit ==
    /\ authText = 1 /\ copies = [n \in Copy |-> 0]
    /\ published = [known |-> FALSE, text |-> 0]
    /\ pushings = [u \in Pushing |-> NoPushing]
    /\ overtaken = FALSE

\* lost: given up here, maybe still handled by workspaced.
Sent(u) == pushings[u].at \in {"sent", "lost"}

\* Somebody logs in or out.
LoginChanges ==
    /\ authText < MaxTexts
    /\ authText' = authText + 1
    /\ UNCHANGED <<published, copies, pushings, overtaken>>

PushAsked(u) ==
    /\ pushings[u].at = "idle"
    /\ pushings' = [pushings EXCEPT ![u] = [NoPushing EXCEPT !.at = "refreshing"]]
    /\ UNCHANGED <<authText, published, copies, overtaken>>

\* A bug to catch: what is sent counts as published.
PublishedEarly(u) == published' = [known |-> TRUE, text |-> pushings'[u].text]

Publishes(u) == UNCHANGED published

\* Logins that soon end are renewed, the file is read and sent unless it is known.
PushReads(u) ==
    /\ pushings[u].at = "refreshing"
    /\ authText' \in {authText} \cup {n \in Text : n = authText + 1}
    /\ \/ /\ published = [known |-> TRUE, text |-> authText']
          /\ pushings' = [pushings EXCEPT ![u] = NoPushing]
          /\ UNCHANGED <<published, overtaken>>
       \/ /\ published # [known |-> TRUE, text |-> authText']
          /\ LET alone == \A o \in Pushing : ~Sent(o) IN
             /\ pushings' = [o \in Pushing |->
                    IF o = u THEN [at |-> "sent", text |-> authText', done |-> {}, alone |-> alone]
                    ELSE [pushings[o] EXCEPT !.alone = FALSE]]
             /\ overtaken' = (overtaken \/ ~alone)
          /\ Publishes(u)
    /\ UNCHANGED copies

\* workspaced writes one of them.
CopyWritten(u, n) ==
    /\ Sent(u) /\ n \notin pushings[u].done
    /\ copies' = [copies EXCEPT ![n] = pushings[u].text]
    /\ pushings' = [pushings EXCEPT ![u].done = @ \cup {n}]
    /\ UNCHANGED <<authText, published, overtaken>>

PushAnswered(u) ==
    /\ pushings[u].at = "sent" /\ pushings[u].done = Copy
    /\ published' = [known |-> TRUE, text |-> pushings[u].text]
    /\ overtaken' = (overtaken /\ ~pushings[u].alone)
    /\ pushings' = [pushings EXCEPT ![u] = NoPushing]
    /\ UNCHANGED <<authText, copies>>

\* workspaced refuses it, or its answer is lost.
PushFails(u) ==
    /\ pushings[u].at = "sent"
    /\ pushings' = [pushings EXCEPT ![u].at = "lost"]
    /\ UNCHANGED <<authText, published, copies, overtaken>>

LostEnds(u) ==
    /\ pushings[u].at = "lost"
    /\ pushings' = [pushings EXCEPT ![u] = NoPushing]
    /\ UNCHANGED <<authText, published, copies, overtaken>>

SharedNext ==
    \/ LoginChanges
    \/ \E u \in Pushing :
          \/ PushAsked(u) \/ PushReads(u) \/ PushAnswered(u) \/ PushFails(u) \/ LostEnds(u)
          \/ \E n \in Copy : CopyWritten(u, n)

-----------------------------------------------------------------------------
(* Properties.                                                             *)

\* What the server would not send again is what every worker has: a call that failed
\* halfway is repeated.  For contents that never come back, and unless calls overlapped,
\* whose writes and answers may arrive in different orders.
LoginsShared ==
    /\ \A u \in Pushing : ~Sent(u)
    /\ published = [known |-> TRUE, text |-> authText]
    /\ ~overtaken
    => \A n \in Copy : copies[n] = authText
=============================================================================
