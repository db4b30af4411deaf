-------------------------- MODULE CanonicalSession --------------------------
(***************************************************************************)
(* What the synchronization service promises for one conversation: one     *)
(* client writes at a time, and whatever was uploaded stays, until the     *)
(* conversation is deleted from the service as a whole.                    *)
(***************************************************************************)
CONSTANTS Web, NoWeb, NoDoc

VARIABLES
    doc,        \* the uploaded conversation: a set of entries, or NoDoc
    leased,     \* the client that may write it, or NoWeb
    mistaken    \* clients that got their lease for a version they do not know

Init == doc = NoDoc /\ leased = NoWeb /\ mistaken = {}

Enrol == doc = NoDoc /\ doc' # NoDoc /\ UNCHANGED leased /\ mistaken' \subseteq mistaken

Lease(w) == doc # NoDoc /\ leased = NoWeb /\ leased' = w /\ UNCHANGED doc /\ mistaken' \subseteq mistaken \cup {w}

Write(w) ==
    /\ leased = w /\ doc # NoDoc /\ doc' # NoDoc /\ UNCHANGED leased
    /\ doc \subseteq doc' \/ w \in mistaken
    /\ mistaken' \subseteq mistaken

Free == leased' \in {leased, NoWeb} /\ UNCHANGED doc /\ mistaken' \subseteq mistaken

Delete == doc' = NoDoc /\ leased' = NoWeb /\ mistaken' \subseteq mistaken

Next == Enrol \/ Free \/ Delete \/ \E w \in Web : Lease(w) \/ Write(w)

Spec == Init /\ [][Next]_<<doc, leased, mistaken>>
=============================================================================
