----------------------------- MODULE AgentCards -----------------------------
(***************************************************************************)
(* The cards of background agents.  An extension turns the events of       *)
(* pi-subagents into entries of the session, the supervisor reduces them   *)
(* to cards and announces each change, a page applies what is announced,   *)
(* and a page that loads gets what the supervisor reduces from the whole   *)
(* session.  Extension and supervisor each keep a bounded store.           *)
(* server/subagent-activity.js, extensions/subagent-telemetry.js,          *)
(* supervisor/real.js, public/js/api.js.                                   *)
(***************************************************************************)
EXTENDS Naturals, Sequences, FiniteSets, SequencesExt

CONSTANTS
    Run,         \* background agents
    MaxRecords,  \* MAX_SUBAGENT_RECORDS: what a store keeps
    MaxSaid,     \* bound: events and records of agents
    MaxLost,     \* bound: entries that cannot be appended
    MaxUnread,   \* bound: announced changes on their way to the page
    MaxAttaches  \* bound: times the session's runtime is made anew

ASSUME CardsAssumption == MaxRecords \in Nat \ {0} /\ {MaxSaid, MaxLost, MaxUnread, MaxAttaches} \subseteq Nat

VARIABLES
    agents,    \* pi-subagents: the agents of this process
    bridge,    \* the store of the extension
    entries,   \* the entries about agents on the session's branch
    cards,     \* st.subagents, the store of the supervisor
    unread,    \* activity events on their way to the page
    onPage,     \* the cards on the page
    said, lost, attaches,
    forgotten, \* agents a full store dropped
    revived    \* those of them something was heard of again

cardVars == <<agents, bridge, entries, cards, unread, onPage, said, lost, attaches, forgotten, revived>>

Terminal == {"completed", "failed", "cancelled"}
Status == {"queued", "running"} \cup Terminal
Finished(card) == card.status \in Terminal
Summary == 0..2       \* 0: none
Card == [rev : Nat, status : Status, summary : Summary, at : Nat]
NoCards == [r \in {} |-> 0]

IsStore(f) == DOMAIN f \subseteq Run /\ \A r \in DOMAIN f : f[r] \in Card
CardsTypeOK ==
    /\ agents \subseteq Run
    /\ IsStore(bridge) /\ IsStore(cards) /\ IsStore(onPage)
    /\ \A i \in DOMAIN entries : entries[i] \in [run : Run, card : Card, revised : BOOLEAN]
    /\ \A i \in DOMAIN unread : unread[i] \in [run : Run, card : Card]
    /\ Len(unread) <= MaxUnread /\ said \in 0..MaxSaid /\ lost \in 0..MaxLost /\ attaches \in 0..MaxAttaches
    /\ revived \subseteq forgotten /\ forgotten \subseteq Run

CardsInit ==
    /\ agents = {} /\ bridge = NoCards /\ entries = <<>> /\ cards = NoCards
    /\ unread = <<>> /\ onPage = NoCards /\ said = 0 /\ lost = 0 /\ attaches = 0 /\ forgotten = {} /\ revived = {}

Laid(store, r, card) == [q \in DOMAIN store \cup {r} |-> IF q = r THEN card ELSE store[q]]

\* SubagentActivityStore.prune: the agents that finished first go.
Prune(store) ==
    LET done == {r \in DOMAIN store : Finished(store[r])}
        excess == Cardinality(DOMAIN store) - MaxRecords
        before(r) == Cardinality({q \in done : store[q].at < store[r].at})
        kept == {r \in DOMAIN store : ~(r \in done /\ before(r) < excess)}
    IN IF Cardinality(DOMAIN store) <= MaxRecords THEN store ELSE [r \in kept |-> store[r]]

\* SubagentActivityStore.apply: whether a record is taken, and as what.
Revision(old, new, revised) == IF revised THEN new.rev ELSE old.rev + 1
Richer(old, new) == new.summary # 0 /\ new.summary # old.summary
Taken(store, r, new, revised) ==
    r \in DOMAIN store =>
        LET old == store[r] IN
        /\ Finished(old) => new.status = old.status
        /\ ~(old.status = "running" /\ new.status = "queued")
        /\ \/ Revision(old, new, revised) > old.rev
           \/ Finished(new) /\ (~Finished(old) \/ Richer(old, new))
Merged(store, r, new, revised) ==
    IF r \notin DOMAIN store THEN [new EXCEPT !.rev = IF revised THEN @ ELSE 1]
    ELSE LET old == store[r]
             rev == Revision(old, new, revised)
         IN [new EXCEPT !.rev = IF rev > old.rev THEN rev ELSE old.rev + 1,
                        !.summary = IF @ = 0 THEN old.summary ELSE @]
Applied(store, r, new, revised) ==
    IF Taken(store, r, new, revised) THEN Prune(Laid(store, r, Merged(store, r, new, revised))) ELSE store

\* applyEvent: the record an event makes of what the store knows; the event may
\* have come late, twice or before an earlier one.  Progress and compaction are
\* as started, grouping is as steering.
Events == {"created", "started", "steered", "completed", "failed"}
EventStatus(type, store, r) ==
    CASE type = "created" -> IF r \in DOMAIN store THEN store[r].status ELSE "queued"
      [] type = "steered" -> IF r \in DOMAIN store THEN store[r].status ELSE "running"
      [] type = "started" -> "running"
      [] OTHER -> type
Heeded(store, r, type) == r \in DOMAIN store /\ Finished(store[r]) => type = store[r].status
EventCard(store, r, type, summary) ==
    [rev |-> IF r \in DOMAIN store THEN store[r].rev + 1 ELSE 1,
     status |-> EventStatus(type, store, r),
     summary |-> IF type \in Terminal THEN summary ELSE 0,
     at |-> said + 1]

\* entriesToRecords: what the whole session says of each agent.
Reduced(es) ==
    LET after[i \in 0..Len(es)] ==
            IF i = 0 THEN [store |-> NoCards, records |-> NoCards]
            ELSE LET acc == after[i - 1]
                     e == es[i]
                     card == Merged(acc.store, e.run, e.card, e.revised)
                 IN IF Taken(acc.store, e.run, e.card, e.revised)
                    THEN [store |-> Prune(Laid(acc.store, e.run, card)), records |-> Laid(acc.records, e.run, card)]
                    ELSE acc
    IN after[Len(es)].records

\* snapshotRecords: the supervisor's store is laid over the session's records.
SnapshotOf(es, store) ==
    LET records == Reduced(es)
    IN [r \in DOMAIN records \cup DOMAIN store |-> IF r \in DOMAIN store THEN store[r] ELSE records[r]]
Snapshot == SnapshotOf(entries, cards)

\* Mutant: the new store is left empty.
Unseeded == NoCards
\* seedSubagentState: the store of a new runtime is filled from the session.
\* Records come in the order of their first entries.
FirstOf(i) == \A j \in 1..i - 1 : entries[j].run # entries[i].run
Seeded ==
    LET records == Reduced(entries)
        filled[i \in 0..Len(entries)] ==
            IF i = 0 THEN NoCards
            ELSE IF FirstOf(i) THEN Applied(filled[i - 1], entries[i].run, records[entries[i].run], TRUE) ELSE filled[i - 1]
    IN filled[Len(entries)]

\* An entry is appended; the supervisor takes it or not, and announces it if so.
Appended(r, card, revised) ==
    /\ entries' = Append(entries, [run |-> r, card |-> card, revised |-> revised])
    /\ cards' = Applied(cards, r, card, revised)
    /\ IF Taken(cards, r, card, revised)
       THEN /\ Len(unread) < MaxUnread
            /\ unread' = Append(unread, [run |-> r, card |-> Merged(cards, r, card, revised)])
       ELSE UNCHANGED unread
    /\ UNCHANGED onPage

\* What the full stores drop; atOnce are agents dropped as soon as they are taken.
Heard(r, atOnce) ==
    /\ said' = said + 1
    /\ forgotten' = forgotten \cup atOnce \cup (DOMAIN bridge \ DOMAIN bridge') \cup (DOMAIN cards \ DOMAIN cards')
                     \cup (IF unread' # unread THEN {r} \ DOMAIN cards' ELSE {})
    /\ revived' = revived \cup ({r} \cap forgotten)

\* A new agent takes a name none has had.
Named == agents \cup DOMAIN onPage \cup {entries[i].run : i \in DOMAIN entries}
New == IF Run \subseteq Named THEN {} ELSE {CHOOSE r \in Run : r \notin Named}

\* An event of an agent of this process, not of an agent's agent.  Appending may
\* fail: the extension's store has the event all the same.
Publish(r, type, summary) ==
    /\ agents' = agents \cup {r}
    /\ r \in agents \cup New
    /\ Heeded(bridge, r, type)
    /\ LET card == EventCard(bridge, r, type, summary) IN
       /\ Taken(bridge, r, card, TRUE)
       /\ bridge' = Applied(bridge, r, card, TRUE)
       /\ \/ Appended(r, Merged(bridge, r, card, TRUE), TRUE)
             /\ UNCHANGED lost
          \/ lost < MaxLost /\ lost' = lost + 1 /\ UNCHANGED <<entries, cards, unread, onPage>>
    /\ Heard(r, {r} \ DOMAIN bridge')
    /\ UNCHANGED attaches

\* pi-subagents itself writes a record of an agent, without a revision.
Record(r, status, summary) ==
    /\ r \in agents /\ UNCHANGED <<agents, bridge, lost, attaches>>
    /\ Appended(r, [rev |-> 1, status |-> status, summary |-> summary, at |-> said + 1], FALSE)
    /\ Heard(r, {})

\* The session's runtime is disposed or its process ends, with its agents, and
\* made anew from the file.
Reattach ==
    /\ attaches < MaxAttaches /\ attaches' = attaches + 1
    /\ agents' = {} /\ bridge' = NoCards /\ cards' = Seeded
    /\ forgotten' = forgotten \cup (DOMAIN Reduced(entries) \ DOMAIN Seeded)
    /\ UNCHANGED <<entries, unread, onPage, said, lost, revived>>

\* applyTranscriptEvent: the page's own rule for the card of an agent.
Older(old, new) == new.rev < old.rev \/ (Finished(old) /\ ~Finished(new))
Deliver ==
    /\ unread # <<>> /\ unread' = Tail(unread)
    /\ LET e == Head(unread) IN
       IF e.run \in DOMAIN onPage /\ Older(onPage[e.run], e.card) THEN UNCHANGED onPage
       ELSE onPage' = Laid(onPage, e.run, e.card)
    /\ UNCHANGED <<agents, bridge, entries, cards, said, lost, attaches, forgotten, revived>>

\* openTranscript: what was announced before the snapshot is in it.
LoadCards ==
    /\ onPage' = Snapshot /\ unread' = <<>> /\ onPage' # onPage
    /\ UNCHANGED <<agents, bridge, entries, cards, said, lost, attaches, forgotten, revived>>

CardsNext ==
    \/ said < MaxSaid /\ \E r \in Run :
        \/ \E type \in Events : \E summary \in IF type = "completed" THEN {0, 1} ELSE {0} : Publish(r, type, summary)
        \/ Record(r, "running", 0) \/ Record(r, "completed", 2) \/ Record(r, "cancelled", 0)
    \/ Reattach \/ Deliver \/ LoadCards

CardsSpec == CardsInit /\ [][CardsNext]_cardVars

Told(card) == <<card.rev, card.status, card.summary>>

\* A page that has read every announcement shows what a page that loads now
\* would, a full store forgets no agent that is at work, and on the page no
\* agent that has finished runs again or ends otherwise, nor does a card go
\* back to an older revision, however late the events are and whenever the
\* runtime is made anew; except for agents a full store forgot after they had
\* finished, of which something is heard again.
CardsAgree(loaded) ==
    /\ unread = <<>> =>
          DOMAIN onPage = DOMAIN loaded /\ \A r \in DOMAIN loaded \ revived : Told(onPage[r]) = Told(loaded[r])
    /\ \A r \in DOMAIN loaded \ revived : Finished(loaded[r]) \/ r \in DOMAIN cards
CardsForward ==
    \A r \in DOMAIN onPage \ revived' :
        /\ r \in DOMAIN onPage'
        /\ Finished(onPage[r]) => onPage'[r].status = onPage[r].status
        /\ onPage'[r].rev >= onPage[r].rev
CardsAgreed == \E loaded \in {Snapshot} : CardsAgree(loaded)
CardsKept == [][cardVars' # cardVars => CardsForward /\ CardsAgreed']_cardVars
=============================================================================
