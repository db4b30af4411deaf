---------------------------- MODULE PartsProofs ----------------------------
(***************************************************************************)
(* What is proved of the parts of module Parts, for every value of the     *)
(* constants: of the composer and its snapshots, of the settings page and  *)
(* the login it shows, of the Kubernetes workers, of the dialogs that the  *)
(* extensions open, of the hooks as the page is told of them, of the       *)
(* conversation that a page shows, and of the cards of agents.             *)
(***************************************************************************)
EXTENDS Parts, FiniteSetTheorems, SequenceTheorems, WellFoundedInduction, TLAPS

(***************************************************************************)
(* Composer.                                                               *)
(***************************************************************************)

\* What the message was begun on is what its token says, or an older snapshot,
\* which the server refuses.
TokenFits(token, m) == msgs[m].seen = 0 \/ (token # 0 /\ token <= msgs[m].seen)

DraftSound(c) ==
    LET d == drafts[c] IN
    /\ d.reading => ~d.sending
    /\ d.touched => d.sending
    /\ d.sending /\ ~d.touched => d.text = 0 /\ ~d.images
    /\ d.text # 0 => msgs[d.text].conv = c /\ TokenFits(d.token, d.text)
    /\ d.token <= loaded[c] /\ loaded[c] <= snapshot[c]

\* A command whose field an extension wrote into is given up.
SendSound(s) ==
    /\ s.msg # 0 =>
         /\ msgs[s.msg].conv = s.conv /\ TokenFits(s.token, s.msg)
         /\ s.reply = "ok" => msgs[s.msg].on # 0
         /\ drafts[s.conv].touched /\ bubble[s.msg] = "none" => s.msg \in gone
    /\ s.token <= loaded[s.conv]
    /\ \A t \in sends : t.conv = s.conv => t = s

MsgSound(m) == msgs[m].conv # NoConv => msgs[m].seen <= loaded[msgs[m].conv]

ComposerInv ==
    /\ ComposerTypeOK /\ NothingTypedLost
    /\ \A c \in Conv : DraftSound(c)
    /\ \A s \in sends : SendSound(s)
    /\ \A m \in Msg : MsgSound(m)
    /\ catching # NotCatching => catching.from \in Conv /\ catching.to \in Conv

LEMMA ComposerStarts == ComposerInit => ComposerInv
<1> SUFFICES ASSUME ComposerInit PROVE ComposerInv
  OBVIOUS
<1> USE ComposerAssumption
<1>1. ComposerTypeOK
  <2>1. EmptyDraft \in DraftRecord /\ open \in Conv /\ events \in 0..MaxEvents
    BY DEF ComposerInit, EmptyDraft, DraftRecord
  <2>2. drafts \in [Conv -> DraftRecord] /\ loaded \in [Conv -> 0..MaxSnaps] /\ snapshot \in [Conv -> 1..MaxSnaps]
    BY <2>1 DEF ComposerInit
  <2>3. \A c \in Conv : drafts[c].sending = Sending(c)
    BY DEF ComposerInit, EmptyDraft, Sending
  <2>4. QED
    BY <2>1, <2>2, <2>3 DEF ComposerInit, ComposerTypeOK, NotCatching
<1>2. QED
  BY <1>1 DEF ComposerInit, ComposerInv, NothingTypedLost, DraftSound, SendSound, MsgSound, EmptyDraft

LEMMA Numbers ==
    /\ MaxMsgs \in Nat /\ MaxEvents \in Nat /\ 0 \in 0..MaxMsgs /\ 0 \in 0..MaxSnaps
    /\ \A m \in 0..MaxMsgs : m # 0 => m \in Msg
    /\ \A m \in Msg : m \in 0..MaxMsgs /\ m # 0
BY ComposerAssumption DEF Msg

\* A draft keeps its text when it is trimmed.
LEMMA Trimmed ==
    ASSUME NEW d \in DraftRecord
    PROVE  /\ Trim(d) \in DraftRecord
           /\ Trim(d) = d \/ (Trim(d) = EmptyDraft /\ d.text = 0 /\ ~d.sending /\ ~d.images /\ ~d.reading)
BY ComposerAssumption DEF Trim, EmptyDraft, DraftRecord

LEMMA Pinned ==
    ASSUME NEW d \in DraftRecord, NEW c \in Conv, loaded[c] \in 0..MaxSnaps
    PROVE  /\ Pin(d, c) \in DraftRecord
           /\ Pin(d, c).token = IF d.token = 0 THEN loaded[c] ELSE d.token
           /\ Pin(d, c).text = d.text /\ Pin(d, c).touched = d.touched /\ Pin(d, c).sending = d.sending
           /\ Pin(d, c).images = d.images /\ Pin(d, c).reading = d.reading
BY DEF Pin, DraftRecord

\* A new text is pinned to what is displayed, if nothing in the draft was before.
LEMMA TextSet ==
    ASSUME NEW d \in DraftRecord, NEW c \in Conv, loaded[c] \in 0..MaxSnaps, NEW m \in 1..MaxMsgs
    PROVE  LET n == SetText(d, c, m) IN
           /\ n \in DraftRecord /\ n.text = m
           /\ n.token = IF m # d.text /\ d.token = 0 THEN loaded[c] ELSE d.token
           /\ n.sending = d.sending /\ n.images = d.images /\ n.reading = d.reading
           /\ n.touched = (d.sending /\ (d.touched \/ m # d.text))
<1> DEFINE pinned == IF m # d.text THEN Pin(d, c) ELSE d
           n == [pinned EXCEPT !.text = m, !.touched = d.sending /\ (@ \/ m # d.text)]
<1>1. /\ pinned \in DraftRecord /\ pinned.touched = d.touched /\ pinned.sending = d.sending
      /\ pinned.images = d.images /\ pinned.reading = d.reading
      /\ pinned.token = IF m # d.text /\ d.token = 0 THEN loaded[c] ELSE d.token
  BY Pinned
<1> HIDE DEF pinned
<1>2. /\ n \in DraftRecord /\ n.text = m /\ n.token = pinned.token
      /\ n.sending = d.sending /\ n.images = d.images /\ n.reading = d.reading
      /\ n.touched = (d.sending /\ (d.touched \/ m # d.text))
  <2>1. (d.sending /\ (pinned.touched \/ m # d.text)) \in BOOLEAN /\ m \in 0..MaxMsgs
    BY ComposerAssumption
  <2>2. n = [pinned EXCEPT !.text = m, !.touched = d.sending /\ (pinned.touched \/ m # d.text)]
    BY <1>1 DEF DraftRecord
  <2> DEFINE b == d.sending /\ (pinned.touched \/ m # d.text)
  <2> HIDE DEF b
  <2>3. b \in BOOLEAN /\ n = [pinned EXCEPT !.text = m, !.touched = b]
    BY <2>1, <2>2 DEF b
  <2> HIDE DEF n
  <2>4. /\ n \in DraftRecord /\ n.text = m /\ n.token = pinned.token
        /\ n.sending = pinned.sending /\ n.images = pinned.images /\ n.reading = pinned.reading
        /\ n.touched = b
    BY <1>1, <2>1, <2>3 DEF DraftRecord
  <2>5. QED
    BY <1>1, <2>4 DEF b
<1>3. m # 0
  OBVIOUS
<1> HIDE DEF n
<1>4. Trim(n) = n
  BY <1>2, <1>3, Trimmed
<1>5. SetText(d, c, m) = Trim(n)
  BY <1>3 DEF SetText, n, pinned
<1>6. QED
  BY <1>1, <1>2, <1>4, <1>5

LEMMA TextCleared ==
    ASSUME NEW d \in DraftRecord, NEW c \in Conv
    PROVE  LET n == SetText(d, c, 0) IN
           /\ n \in DraftRecord /\ n.text = 0
           /\ n.token \in {0, d.token} /\ n.sending = d.sending
           /\ n.images = d.images /\ n.reading = d.reading
           /\ ~d.sending => ~n.touched
<1> DEFINE b == d.sending /\ (d.touched \/ 0 # d.text)
           n == [d EXCEPT !.text = 0, !.touched = b]
<1>1. b \in BOOLEAN /\ SetText(d, c, 0) = Trim(n) /\ (~d.sending => ~b)
  BY DEF SetText, DraftRecord
<1> HIDE DEF b
<1>2. /\ n \in DraftRecord /\ n.text = 0 /\ n.token = d.token /\ n.sending = d.sending
      /\ n.images = d.images /\ n.reading = d.reading /\ n.touched = b
  BY <1>1, Numbers DEF DraftRecord
<1> HIDE DEF n
<1>3. Trim(n) \in DraftRecord /\ (Trim(n) = n \/ (Trim(n) = EmptyDraft /\ ~n.sending /\ ~n.images /\ ~n.reading))
  BY <1>2, Trimmed
<1>4. QED
  BY <1>1, <1>2, <1>3 DEF EmptyDraft, DraftRecord

LEMMA ImagesSet ==
    ASSUME NEW d \in DraftRecord, NEW c \in Conv, loaded[c] \in 0..MaxSnaps, NEW on \in BOOLEAN
    PROVE  LET n == SetImages(d, c, on) IN
           /\ n \in DraftRecord /\ n.text = d.text
           /\ n.token \in {0, d.token, loaded[c]} /\ (d.text # 0 /\ d.token # 0 => n.token = d.token)
           /\ n.sending = d.sending /\ n.reading = d.reading
           /\ n.touched = d.sending
<1> DEFINE pinned == IF on THEN Pin(d, c) ELSE d
           n == [pinned EXCEPT !.images = on, !.touched = d.sending]
<1>1. /\ pinned \in DraftRecord /\ pinned.text = d.text /\ pinned.sending = d.sending /\ pinned.reading = d.reading
      /\ pinned.token \in {0, d.token, loaded[c]} /\ (d.token # 0 => pinned.token = d.token)
  BY Pinned
<1> HIDE DEF pinned
<1>2. /\ n \in DraftRecord /\ n.text = d.text /\ n.token = pinned.token /\ n.sending = d.sending
      /\ n.reading = d.reading /\ n.touched = d.sending
  BY <1>1 DEF DraftRecord
<1> HIDE DEF n
<1>3. Trim(n) \in DraftRecord /\ (Trim(n) = n \/ (Trim(n) = EmptyDraft /\ n.text = 0 /\ ~n.sending /\ ~n.images /\ ~n.reading))
  BY <1>2, Trimmed
<1>4. SetImages(d, c, on) = Trim(n)
  BY DEF SetImages, n, pinned
<1>5. QED
  BY <1>1, <1>2, <1>3, <1>4 DEF EmptyDraft, DraftRecord

(***************************************************************************)
(* The steps.                                                              *)
(***************************************************************************)

\* A draft of c changes; nothing is sent or answered.
LEMMA DraftChanges ==
    ASSUME ComposerInv, NEW c \in Conv, NEW n \in DraftRecord, Put(c, n),
           UNCHANGED <<open, loaded, snapshot, sends, bubble, switchTo, catching>>,
           n.sending = drafts[c].sending, n.reading => ~n.sending, n.touched => n.sending,
           n.sending /\ ~n.touched => n.text = 0 /\ ~n.images,
           n.token <= loaded[c],
           n.text # 0 => msgs'[n.text].conv = c /\ (msgs'[n.text].seen = 0 \/ (n.token # 0 /\ n.token <= msgs'[n.text].seen)),
           n.touched => drafts[c].touched \/ \A s \in sends : s.conv = c /\ s.msg # 0 /\ bubble[s.msg] = "none" => s.msg \in gone',
           \/ n.text = drafts[c].text \/ drafts[c].text = 0
           \/ drafts[c].text \in gone',
           gone \subseteq gone', gone' \subseteq Msg, events' \in 0..MaxEvents,
           msgs' \in [Msg -> [conv : Conv \cup {NoConv}, seen : 0..MaxSnaps, on : 0..MaxSnaps]],
           \A m \in Msg : msgs'[m] = msgs[m] \/ (msgs[m].conv = NoConv /\ n.text = m /\ msgs'[m].conv = c /\ msgs'[m].seen = loaded[c])
    PROVE  ComposerInv'
<1>1. drafts' \in [Conv -> DraftRecord] /\ drafts'[c] = n /\ \A e \in Conv : e # c => drafts'[e] = drafts[e]
  BY DEF Put, ComposerInv, ComposerTypeOK
<1>2. /\ sends \subseteq SendRecord /\ \A s \in sends : s.conv \in Conv /\ s.msg \in 0..MaxMsgs /\ s.token \in 0..MaxSnaps
      /\ loaded \in [Conv -> 0..MaxSnaps] /\ snapshot \in [Conv -> 1..MaxSnaps] /\ gone \subseteq Msg
      /\ drafts \in [Conv -> DraftRecord] /\ \A e \in Conv : drafts[e].text \in 0..MaxMsgs
  BY DEF ComposerInv, ComposerTypeOK, SendRecord, DraftRecord
<1>3. ComposerTypeOK'
  <2>1. \A e \in Conv : drafts'[e].sending = Sending(e)'
    <3>1. \A e \in Conv : drafts'[e].sending = drafts[e].sending /\ drafts[e].sending = Sending(e)
      BY <1>1 DEF ComposerInv, ComposerTypeOK
    <3>2. \A e : Sending(e)' = Sending(e)
      BY DEF Sending
    <3>3. QED
      BY <3>1, <3>2
  <2>2. QED
    BY <1>1, <2>1 DEF ComposerInv, ComposerTypeOK
<1>4. \A e \in Conv : DraftSound(e)'
  <2> SUFFICES ASSUME NEW e \in Conv PROVE DraftSound(e)'
    OBVIOUS
  <2>1. DraftSound(e)
    BY DEF ComposerInv
  <2>2. CASE e = c
    BY <1>1, <2>1, <2>2 DEF DraftSound, TokenFits
  <2>3. CASE e # c
    <3>1. drafts'[e] = drafts[e] /\ (drafts[e].text # 0 => msgs'[drafts[e].text] = msgs[drafts[e].text])
      BY SMTT(30), <1>1, <1>2, <2>1, <2>3, ComposerAssumption DEF DraftSound, Msg
    <3>2. QED
      BY <2>1, <3>1 DEF DraftSound, TokenFits
  <2>4. QED
    BY <2>2, <2>3
<1>5. \A s \in sends' : SendSound(s)'
  <2> SUFFICES ASSUME NEW s \in sends PROVE SendSound(s)'
    OBVIOUS
  <2>1. SendSound(s)
    BY DEF ComposerInv
  <2>2. s.msg # 0 => s.msg \in Msg /\ msgs'[s.msg] = msgs[s.msg]
    <3>1. s.msg # 0 => s.msg \in Msg /\ msgs[s.msg].conv # NoConv
      BY <1>2, <2>1, Numbers, ComposerAssumption DEF SendSound
    <3>2. QED
      BY <3>1
  <2>3. drafts'[s.conv].touched /\ s.msg # 0 /\ bubble[s.msg] = "none" => s.msg \in gone'
    BY <1>1, <1>2, <2>1 DEF SendSound
  <2>4. QED
    BY <2>1, <2>2, <2>3 DEF SendSound, TokenFits
<1>6. \A m \in Msg : MsgSound(m)'
  BY <1>2 DEF ComposerInv, MsgSound
<1>7. NothingTypedLost'
  <2> SUFFICES ASSUME NEW m \in Msg, msgs'[m].conv # NoConv, m \notin gone'
               PROVE  \/ drafts'[msgs'[m].conv].text = m \/ msgs'[m].on # 0 \/ bubble[m] = "failed"
                      \/ \E s \in sends : s.msg = m
    BY DEF NothingTypedLost
  <2>1. CASE msgs'[m] = msgs[m]
    <3>1. \/ drafts[msgs[m].conv].text = m \/ msgs[m].on # 0 \/ bubble[m] = "failed" \/ \E s \in sends : s.msg = m
      BY <2>1 DEF ComposerInv, NothingTypedLost
    <3>2. msgs[m].conv \in Conv /\ m # 0
      BY <2>1, Numbers DEF ComposerInv, ComposerTypeOK
    <3>3. QED
      BY <1>1, <2>1, <3>1, <3>2
  <2>2. CASE msgs'[m] # msgs[m]
    BY <1>1, <2>2
  <2>3. QED
    BY <2>1, <2>2
<1>8. QED
  BY <1>3, <1>4, <1>5, <1>6, <1>7 DEF ComposerInv

LEMMA DraftSteps ==
    ASSUME ComposerInv,
           \/ \E m \in Msg : Type(m) \/ ExtensionWrites(m)
           \/ Clear \/ AddFile \/ RemoveImages
           \/ \E c \in Conv, ok \in BOOLEAN : FileRead(c, ok)
    PROVE  ComposerInv'
<1>1. /\ open \in Conv /\ \A c \in Conv : /\ drafts[c] \in DraftRecord /\ loaded[c] \in 0..MaxSnaps
                                         /\ DraftSound(c)
                                         /\ drafts[c].text \in 0..MaxMsgs /\ drafts[c].token \in 0..MaxSnaps
      /\ msgs \in [Msg -> [conv : Conv \cup {NoConv}, seen : 0..MaxSnaps, on : 0..MaxSnaps]]
      /\ gone \subseteq Msg /\ events \in 0..MaxEvents
  BY DEF ComposerInv, ComposerTypeOK, DraftRecord
<1>2. Event => events' \in 0..MaxEvents
  BY <1>1, Numbers DEF Event
<1>3. ASSUME NEW m \in Msg, Fresh(m), Begin(m, open)
      PROVE  /\ msgs' \in [Msg -> [conv : Conv \cup {NoConv}, seen : 0..MaxSnaps, on : 0..MaxSnaps]]
             /\ msgs[m].conv = NoConv /\ msgs'[m].conv = open /\ msgs'[m].seen = loaded[open]
             /\ \A k \in Msg : k # m => msgs'[k] = msgs[k]
  <2> DEFINE new == [msgs[m] EXCEPT !.conv = open, !.seen = loaded[open]]
  <2>1. msgs' = [msgs EXCEPT ![m] = new]
    BY <1>1, <1>3 DEF Begin
  <2>2. new \in [conv : Conv \cup {NoConv}, seen : 0..MaxSnaps, on : 0..MaxSnaps] /\ new.conv = open /\ new.seen = loaded[open]
    BY <1>1
  <2> HIDE DEF new
  <2>3. QED
    BY <1>1, <1>3, <2>1, <2>2 DEF Fresh
<1>4. ASSUME NEW m \in Msg, Type(m) \/ ExtensionWrites(m) PROVE ComposerInv'
  <2> DEFINE n == SetText(drafts[open], open, m)
  <2>1. /\ n \in DraftRecord /\ n.text = m
        /\ n.token = IF m # drafts[open].text /\ drafts[open].token = 0 THEN loaded[open] ELSE drafts[open].token
        /\ n.sending = drafts[open].sending /\ n.images = drafts[open].images /\ n.reading = drafts[open].reading
        /\ n.touched = (drafts[open].sending /\ (drafts[open].touched \/ m # drafts[open].text))
    BY <1>1, TextSet DEF Msg
  <2>2. Put(open, n) /\ Fresh(m) /\ Begin(m, open)
    BY <1>4 DEF Type, ExtensionWrites
  <2> HIDE DEF n
  <2>3. m # drafts[open].text
    BY <1>1, <1>3, <2>2, Numbers, ComposerAssumption DEF DraftSound
  <2>4. n.touched = drafts[open].sending /\ n.token = IF drafts[open].token = 0 THEN loaded[open] ELSE drafts[open].token
    BY <1>1, <2>1, <2>3 DEF DraftRecord
  <2>5. n.token <= loaded[open] /\ (loaded[open] = 0 \/ (n.token # 0 /\ n.token <= loaded[open]))
    BY <1>1, <2>4 DEF DraftSound
  <2>6. n.touched => drafts[open].touched \/ \A s \in sends : s.conv = open /\ s.msg # 0 /\ bubble[s.msg] = "none" => s.msg \in gone'
    <3>1. ASSUME NEW s \in sends, s.conv = open, s.msg # 0, bubble[s.msg] = "none", ExtensionWrites(m) PROVE s.msg \in gone'
      <4>1. s.msg \in Msg
        BY <3>1, Numbers DEF ComposerInv, ComposerTypeOK, SendRecord
      <4>2. QED
        BY <3>1, <4>1 DEF ExtensionWrites
    <3>2. QED
      BY <1>1, <1>4, <2>4, <3>1 DEF Type
  <2>7. drafts[open].text = 0 \/ drafts[open].text \in gone'
    BY <1>4 DEF Type, ExtensionWrites
  <2>8. gone \subseteq gone' /\ gone' \subseteq Msg /\ events' \in 0..MaxEvents
    <3>1. drafts[open].text # 0 => drafts[open].text \in Msg
      BY <1>1, Numbers
    <3>2. QED
      BY <1>1, <1>2, <1>4, <3>1 DEF Type, ExtensionWrites
  <2>9. /\ (n.reading => ~n.sending) /\ (n.touched => n.sending) /\ (n.sending => n.touched)
        /\ UNCHANGED <<open, loaded, snapshot, sends, bubble, switchTo, catching>>
    BY <1>1, <1>4, <2>1, <2>4 DEF DraftSound, DraftRecord, Type, ExtensionWrites, switches
  <2>15. n.text = m /\ m # 0
    BY <2>1, Numbers
  <2>16. /\ msgs[m].conv = NoConv /\ msgs'[m].conv = open /\ msgs'[m].seen = loaded[open]
        /\ \A k \in Msg : k # m => msgs'[k] = msgs[k]
    BY <1>3, <2>2
  <2>10. msgs'[n.text].conv = open /\ (msgs'[n.text].seen = 0 \/ (n.token # 0 /\ n.token <= msgs'[n.text].seen))
    BY <2>16, <2>15, <2>5
  <2>13. \A k \in Msg : msgs'[k] = msgs[k] \/ (msgs[k].conv = NoConv /\ n.text = k /\ msgs'[k].conv = open /\ msgs'[k].seen = loaded[open])
    BY <2>16, <2>15
  <2>14. n.sending /\ ~n.touched => n.text = 0 /\ ~n.images
    BY <2>9
  <2>12. n \in DraftRecord /\ n.sending = drafts[open].sending
    BY <2>1
  <2>11. QED
    BY <1>1, <1>3, <2>12, <2>15, <2>2, <2>5, <2>6, <2>7, <2>8, <2>9, <2>10, <2>13, <2>14, DraftChanges
<1> DEFINE Same == /\ UNCHANGED <<open, loaded, snapshot, sends, bubble, switchTo, catching, msgs>>
                   /\ events' \in 0..MaxEvents
<1>5. ASSUME NEW c \in Conv, NEW n \in DraftRecord, Put(c, n), Same, gone' = gone,
             n.text = drafts[c].text, n.token <= loaded[c], n.sending = drafts[c].sending,
             drafts[c].text # 0 /\ drafts[c].token # 0 => n.token = drafts[c].token,
             n.reading => ~n.sending, ~n.sending, ~n.touched
      PROVE  ComposerInv'
  <2>1. n.text # 0 => msgs[n.text].conv = c /\ (msgs[n.text].seen = 0 \/ (n.token # 0 /\ n.token <= msgs[n.text].seen))
    BY <1>1, <1>5 DEF DraftSound, TokenFits
  <2>2. QED
    BY <1>1, <1>5, <2>1, DraftChanges
<1>6. CASE Clear
  <2> DEFINE n == SetText(drafts[open], open, 0)
  <2>1. /\ n \in DraftRecord /\ n.text = 0 /\ n.token \in {0, drafts[open].token}
        /\ n.sending = drafts[open].sending /\ n.reading = drafts[open].reading /\ ~n.touched
    BY <1>1, <1>6, TextCleared DEF Clear
  <2>2. Put(open, n) /\ Same /\ gone' = gone \cup {drafts[open].text} /\ ~drafts[open].sending
    BY <1>2, <1>6 DEF Clear, switches
  <2> HIDE DEF n
  <2>3. drafts[open].text \in Msg
    BY <1>1, <1>6, Numbers DEF Clear
  <2>4. n.token <= loaded[open]
    BY <1>1, <2>1 DEF DraftSound
  <2>5. QED
    BY <1>1, <2>1, <2>2, <2>3, <2>4, DraftChanges
<1>7. CASE AddFile
  <2> DEFINE p == Pin(drafts[open], open)
             n == [p EXCEPT !.reading = TRUE]
  <2>1. /\ p \in DraftRecord /\ p.token = IF drafts[open].token = 0 THEN loaded[open] ELSE drafts[open].token
        /\ p.text = drafts[open].text /\ p.touched = drafts[open].touched /\ p.sending = drafts[open].sending
    BY <1>1, Pinned
  <2>2. Put(open, n) /\ Same /\ gone' = gone /\ ~drafts[open].sending
    BY <1>2, <1>7 DEF AddFile, switches
  <2> HIDE DEF p
  <2>3. /\ n \in DraftRecord /\ n.text = drafts[open].text /\ n.token = p.token
        /\ n.sending = drafts[open].sending /\ n.touched = drafts[open].touched
    BY <2>1 DEF DraftRecord
  <2> HIDE DEF n
  <2>4. n.token <= loaded[open] /\ ~n.touched /\ ~n.sending
    BY <1>1, <2>1, <2>2, <2>3 DEF DraftSound
  <2>5. QED
    BY <1>1, <1>5, <2>1, <2>2, <2>3, <2>4
<1>8. CASE RemoveImages
  <2> DEFINE n == SetImages(drafts[open], open, FALSE)
  <2>1. /\ n \in DraftRecord /\ n.text = drafts[open].text /\ n.token \in {0, drafts[open].token, loaded[open]}
        /\ (drafts[open].text # 0 /\ drafts[open].token # 0 => n.token = drafts[open].token)
        /\ n.sending = drafts[open].sending /\ n.touched = drafts[open].sending
    BY <1>1, ImagesSet
  <2>2. Put(open, n) /\ Same /\ gone' = gone /\ ~drafts[open].sending
    BY <1>1, <1>8 DEF RemoveImages, switches
  <2> HIDE DEF n
  <2>3. n.token <= loaded[open] /\ ~n.touched /\ ~n.sending
    BY <1>1, <2>1, <2>2 DEF DraftSound
  <2>4. QED
    BY <1>1, <1>5, <2>1, <2>2, <2>3
<1>9. ASSUME NEW c \in Conv, NEW ok \in BOOLEAN, FileRead(c, ok) PROVE ComposerInv'
  <2> DEFINE read == IF ok THEN SetImages(drafts[c], c, TRUE) ELSE drafts[c]
             m == [read EXCEPT !.reading = FALSE]
             n == Trim(m)
  <2>1. Put(c, n) /\ Same /\ gone' = gone /\ ~drafts[c].sending /\ ~drafts[c].touched
    BY <1>1, <1>9 DEF FileRead, switches, DraftSound
  <2>2. /\ read \in DraftRecord /\ read.text = drafts[c].text /\ read.token \in {0, drafts[c].token, loaded[c]}
        /\ (drafts[c].text # 0 /\ drafts[c].token # 0 => read.token = drafts[c].token)
        /\ ~read.sending /\ ~read.touched
    <3>1. CASE ok
      <4> DEFINE i == SetImages(drafts[c], c, TRUE)
      <4>1. /\ i \in DraftRecord /\ i.text = drafts[c].text /\ i.token \in {0, drafts[c].token, loaded[c]}
            /\ (drafts[c].text # 0 /\ drafts[c].token # 0 => i.token = drafts[c].token)
            /\ i.sending = drafts[c].sending /\ i.touched = drafts[c].sending
        BY <1>1, ImagesSet
      <4>2. read = i
        BY <3>1
      <4> HIDE DEF i, read
      <4>3. QED
        BY <2>1, <4>1, <4>2
    <3>2. CASE ~ok
      BY <1>1, <2>1, <3>2
    <3>3. QED
      BY <3>1, <3>2
  <2> HIDE DEF read
  <2>3. /\ m \in DraftRecord /\ m.text = drafts[c].text /\ m.token = read.token /\ ~m.sending /\ ~m.touched
    BY <2>2 DEF DraftRecord
  <2> HIDE DEF m
  <2>4. n \in DraftRecord /\ (n = m \/ (n = EmptyDraft /\ m.text = 0))
    BY <2>3, Trimmed
  <2>5. n.text = drafts[c].text /\ n.token \in {0, read.token} /\ ~n.sending /\ ~n.touched
        /\ (drafts[c].text # 0 => n.token = read.token)
    BY <2>3, <2>4 DEF EmptyDraft
  <2> HIDE DEF n
  <2>6. n.token <= loaded[c] /\ n.sending = drafts[c].sending
    BY <1>1, <2>1, <2>2, <2>4, <2>5 DEF DraftSound, DraftRecord
  <2>7. QED
    BY <1>5, <2>1, <2>2, <2>4, <2>5, <2>6
<1>10. QED
  BY <1>4, <1>6, <1>7, <1>8, <1>9

\* What is displayed and loaded changes; what was read stays as it was.
LEMMA DisplaySteps ==
    ASSUME ComposerInv,
           \/ Load \/ CatchUp \/ CaughtUp
           \/ \E c \in Conv : Replaced(c) \/ Open(c) \/ Switched(c)
    PROVE  ComposerInv'
<1> DEFINE Displayed ==
        /\ UNCHANGED <<drafts, sends, bubble, msgs, gone>>
        /\ open' \in Conv /\ events' \in 0..MaxEvents
        /\ switchTo' \in [Conv -> Conv \cup {NoConv}] /\ catching' \in [from : Conv \cup {NoConv}, to : Conv \cup {NoConv}]
        /\ loaded' \in [Conv -> 0..MaxSnaps] /\ snapshot' \in [Conv -> 1..MaxSnaps]
        /\ \A c \in Conv : loaded[c] <= loaded'[c] /\ loaded'[c] <= snapshot'[c]
<1>1. Displayed
  <2> USE DEF ComposerInv, ComposerTypeOK, DraftSound
  <2>1. open \in Conv /\ \A c \in Conv : loaded[c] \in 0..MaxSnaps /\ snapshot[c] \in 1..MaxSnaps
    OBVIOUS
  <2>2. ASSUME Event PROVE events' \in 0..MaxEvents
    BY <2>2, Numbers DEF Event
  <2>3. CASE Load
    <3>1. snapshot[open] \in 0..MaxSnaps
      BY <2>1, ComposerAssumption
    <3>2. QED
      BY <2>1, <2>3, <3>1, ComposerAssumption DEF Load, switches
  <2>4. CASE CatchUp \/ CaughtUp
    <3>1. switchTo[open] \in Conv \cup {NoConv}
      BY <2>1
    <3>2. UNCHANGED <<drafts, sends, bubble, msgs, gone, loaded, snapshot, events>>
      BY <2>4 DEF CatchUp, CaughtUp
    <3>3. CASE CatchUp
      BY <2>1, <3>1, <3>2, <3>3 DEF CatchUp
    <3>4. CASE CaughtUp
      <4>1. catching.to \in Conv
        BY <3>4 DEF CaughtUp
      <4>2. switchTo' \in [Conv -> Conv \cup {NoConv}] /\ open' \in Conv /\ catching' = NotCatching
        BY <2>1, <3>4, <4>1 DEF CaughtUp
      <4>3. QED
        BY <2>1, <3>2, <4>2 DEF NotCatching
    <3>5. QED
      BY <2>4, <3>3, <3>4
  <2>5. ASSUME NEW c \in Conv, Replaced(c) PROVE Displayed
    <3>1. snapshot[c] + 1 \in 1..MaxSnaps
      BY <2>1, <2>5, ComposerAssumption DEF Replaced
    <3>2. QED
      BY <2>1, <2>2, <2>5, <3>1, ComposerAssumption DEF Replaced, switches
  <2>6. ASSUME NEW c \in Conv, Open(c) \/ Switched(c) PROVE Displayed
    BY <2>2, <2>6 DEF Open, Switched, switches
  <2>7. QED
    BY <2>3, <2>4, <2>5, <2>6
<1>2. /\ \A c \in Conv : drafts[c].token \in 0..MaxSnaps /\ loaded[c] \in 0..MaxSnaps /\ loaded'[c] \in 0..MaxSnaps
      /\ \A s \in sends : s.conv \in Conv /\ s.token \in 0..MaxSnaps
      /\ \A m \in Msg : msgs[m].seen \in 0..MaxSnaps /\ msgs[m].conv \in Conv \cup {NoConv}
  BY <1>1 DEF ComposerInv, ComposerTypeOK, DraftRecord, SendRecord
<1>3. ComposerTypeOK' /\ NothingTypedLost'
  BY <1>1 DEF ComposerInv, ComposerTypeOK, NothingTypedLost, Sending
<1>4. \A c \in Conv : DraftSound(c)'
  BY <1>1, <1>2, ComposerAssumption DEF ComposerInv, DraftSound, TokenFits
<1>5. \A s \in sends' : SendSound(s)'
  BY <1>1, <1>2, ComposerAssumption DEF ComposerInv, SendSound, TokenFits
<1>6. \A m \in Msg : MsgSound(m)'
  BY <1>1, <1>2, ComposerAssumption DEF ComposerInv, MsgSound
<1>7. catching' # NotCatching => catching'.from \in Conv /\ catching'.to \in Conv
  BY DEF ComposerInv, ComposerTypeOK, Load, CatchUp, CaughtUp, Replaced, Open, Switched, switches
<1>8. QED
  BY <1>3, <1>4, <1>5, <1>6, <1>7 DEF ComposerInv

\* What is sent leaves the draft and is on its way.
LEMMA SendStep ==
    ASSUME ComposerInv, NEW command \in BOOLEAN, SendMessage(command)
    PROVE  ComposerInv'
<1>1. /\ open \in Conv /\ drafts \in [Conv -> DraftRecord] /\ drafts[open] \in DraftRecord
      /\ loaded[open] \in 0..MaxSnaps /\ DraftSound(open) /\ drafts[open].sending = Sending(open)
      /\ sends \subseteq SendRecord /\ \A s \in sends : s.conv \in Conv /\ s.msg \in 0..MaxMsgs /\ SendSound(s)
      /\ \A m \in Msg : msgs[m].seen \in 0..MaxSnaps
  BY DEF ComposerInv, ComposerTypeOK, SendRecord
<1> DEFINE d == Pin(drafts[open], open)
           s0 == [conv |-> open, msg |-> d.text, token |-> d.token, images |-> d.images, reply |-> "none"]
           n == [d EXCEPT !.text = 0, !.token = 0, !.sending = TRUE, !.images = FALSE]
<1>2. /\ ~Sending(open) /\ sends' = sends \cup {s0} /\ Put(open, Trim(n)) /\ ~d.reading
      /\ bubble' = IF d.text # 0 /\ ~command THEN [bubble EXCEPT ![d.text] = "pending"] ELSE bubble
      /\ UNCHANGED <<open, loaded, snapshot, msgs, gone, switchTo, catching, events>>
  BY DEF SendMessage, switches
<1>3. /\ d \in DraftRecord /\ d.token = IF drafts[open].token = 0 THEN loaded[open] ELSE drafts[open].token
      /\ d.text = drafts[open].text /\ d.touched = drafts[open].touched
  BY <1>1, Pinned
<1> HIDE DEF d
<1>4. ~drafts[open].sending /\ ~drafts[open].touched /\ ~d.touched
  BY <1>1, <1>2, <1>3 DEF DraftSound
<1>5. /\ n \in DraftRecord /\ n.text = 0 /\ n.token = 0 /\ n.sending /\ ~n.images /\ ~n.touched /\ ~n.reading
  BY <1>2, <1>3, <1>4, Numbers DEF DraftRecord
<1> HIDE DEF n
<1>6. Trim(n) = n
  BY <1>5, Trimmed
<1>7. drafts' \in [Conv -> DraftRecord] /\ drafts'[open] = n /\ \A e \in Conv : e # open => drafts'[e] = drafts[e]
  BY <1>1, <1>2, <1>5, <1>6 DEF Put
<1>8. /\ s0 \in SendRecord /\ s0.conv = open /\ s0.msg = d.text /\ s0.token = d.token /\ s0.reply = "none"
  BY <1>1, <1>3 DEF SendRecord, DraftRecord
<1>18. PICK q \in SendRecord : q = s0
  BY <1>8
<1>19. /\ q.conv = open /\ q.msg = d.text /\ q.token = d.token /\ q.reply = "none"
       /\ sends' = sends \cup {q}
  BY <1>2, <1>8, <1>18
<1> HIDE DEF s0
<1>9. d.text # 0 => d.text \in Msg /\ msgs[d.text].conv = open /\ TokenFits(d.token, d.text)
  BY <1>1, <1>3, Numbers DEF DraftSound, TokenFits, DraftRecord
<1>10. \A s \in sends : s.conv # open
  BY <1>2 DEF Sending
<1>11. \A m \in Msg : bubble'[m] = bubble[m] \/ (m = d.text /\ bubble'[m] = "pending")
  BY <1>2, <1>9 DEF ComposerInv, ComposerTypeOK
<1>12. ComposerTypeOK'
  <2>1. \A e \in Conv : drafts'[e].sending = Sending(e)'
    <3>1. ASSUME NEW e \in Conv PROVE drafts'[e].sending = Sending(e)'
      <4>1. CASE e = open
        BY <1>2, <1>5, <1>7, <1>19, <4>1 DEF Sending, DraftRecord
      <4>2. CASE e # open
        <5>1. Sending(e)' = Sending(e)
          BY <1>2, <1>19, <4>2 DEF Sending
        <5>2. drafts[e].sending = Sending(e) /\ drafts'[e] = drafts[e]
          BY <1>7, <4>2 DEF ComposerInv, ComposerTypeOK
        <5>3. QED
          BY <5>1, <5>2
      <4>3. QED
        BY <4>1, <4>2
    <3>2. QED
      BY <3>1
  <2>2. bubble' \in [Msg -> {"none", "pending", "failed"}]
    BY <1>2, <1>9 DEF ComposerInv, ComposerTypeOK
  <2>3. sends' \subseteq SendRecord
    BY <1>1, <1>2, <1>19
  <2>4. QED
    BY <1>2, <1>7, <2>1, <2>2, <2>3 DEF ComposerInv, ComposerTypeOK
<1>13. \A e \in Conv : DraftSound(e)'
  <2>1. ASSUME NEW e \in Conv, e = open PROVE DraftSound(e)'
    BY <1>1, <1>2, <1>5, <1>7, <2>1 DEF DraftSound
  <2>2. \A e \in Conv : e # open => DraftSound(e)'
    BY <1>2, <1>7 DEF ComposerInv, DraftSound, TokenFits
  <2>3. QED
    BY <2>1, <2>2
<1>14. \A s \in sends' : SendSound(s)'
  <2>1. SendSound(q)'
    <3>1. d.token <= loaded[open]
      BY <1>1, <1>3 DEF DraftSound, DraftRecord
    <3>2. QED
      BY <1>2, <1>5, <1>7, <1>19, <1>9, <1>10, <3>1 DEF SendSound, TokenFits
  <2>2. ASSUME NEW s \in sends PROVE SendSound(s)'
    <3>1. SendSound(s) /\ s.conv # open /\ drafts'[s.conv] = drafts[s.conv]
      BY <1>1, <1>7, <1>10
    <3>2. s.msg # 0 => s.msg \in Msg /\ s.msg # d.text /\ bubble'[s.msg] = bubble[s.msg]
      BY <1>1, <1>9, <1>11, <3>1, Numbers DEF SendSound
    <3>3. \A t \in sends' : t.conv = s.conv => t = s
      BY <1>2, <1>19, <3>1 DEF SendSound
    <3>4. QED
      BY <1>2, <3>1, <3>2, <3>3 DEF SendSound, TokenFits
  <2>3. QED
    BY <1>19, <2>1, <2>2
<1>15. NothingTypedLost'
  <2> SUFFICES ASSUME NEW m \in Msg, msgs[m].conv # NoConv, m \notin gone
               PROVE  \/ drafts'[msgs[m].conv].text = m \/ msgs[m].on # 0 \/ bubble'[m] = "failed"
                      \/ \E s \in sends' : s.msg = m
    BY <1>2 DEF NothingTypedLost
  <2>1. \/ drafts[msgs[m].conv].text = m \/ msgs[m].on # 0 \/ bubble[m] = "failed" \/ \E s \in sends : s.msg = m
    BY DEF ComposerInv, NothingTypedLost
  <2>2. msgs[m].conv \in Conv
    BY DEF ComposerInv, ComposerTypeOK
  <2>3. CASE m = d.text
    BY <1>2, <1>19, <2>3
  <2>4. CASE m # d.text
    BY <1>2, <1>3, <1>7, <1>11, <2>1, <2>2, <2>4
  <2>5. QED
    BY <2>3, <2>4
<1>16. \A m \in Msg : MsgSound(m)'
  BY <1>2 DEF ComposerInv, MsgSound
<1>17. QED
  BY <1>2, <1>12, <1>13, <1>14, <1>15, <1>16 DEF ComposerInv

\* The server takes a message only under the token of its snapshot.
LEMMA HandledStep ==
    ASSUME ComposerInv, NEW s \in sends, Handled(s)
    PROVE  ComposerInv' /\ \A m \in Msg : msgs'[m].on # msgs[m].on => msgs'[m].seen \in {0, msgs'[m].on}
<1>1. /\ s \in SendRecord /\ s.conv \in Conv /\ s.msg \in 0..MaxMsgs /\ s.token \in 0..MaxSnaps /\ SendSound(s)
      /\ msgs \in [Msg -> [conv : Conv \cup {NoConv}, seen : 0..MaxSnaps, on : 0..MaxSnaps]]
      /\ snapshot[s.conv] \in 1..MaxSnaps /\ loaded[s.conv] \in 0..MaxSnaps /\ DraftSound(s.conv)
      /\ sends \subseteq SendRecord
  BY DEF ComposerInv, ComposerTypeOK, SendRecord
<1>2. UNCHANGED <<open, drafts, loaded, snapshot, bubble, gone, switchTo, catching, events>>
  BY DEF Handled, switches
<1>3. PICK decision \in {"ok", "failed"} : sends' = (sends \ {s}) \cup {[s EXCEPT !.reply = decision]}
  BY DEF Handled, Decided
<1> DEFINE t0 == [s EXCEPT !.reply = decision]
<1>4. t0 \in SendRecord /\ t0.conv = s.conv /\ t0.msg = s.msg /\ t0.token = s.token /\ t0.reply = decision
  BY <1>1 DEF SendRecord
<1> HIDE DEF t0
<1>5. sends' = (sends \ {s}) \cup {t0}
  BY <1>3 DEF t0
<1>6. \/ UNCHANGED msgs /\ decision = "failed"
      \/ s.msg = 0 /\ UNCHANGED msgs
      \/ /\ s.msg # 0 /\ s.token \in {0, snapshot[s.conv]}
         /\ msgs' = [msgs EXCEPT ![s.msg].on = snapshot[s.conv]]
  <2>1. UNCHANGED msgs \/ (s.msg # 0 /\ s.token \in {0, snapshot[s.conv]} /\ msgs' = [msgs EXCEPT ![s.msg].on = snapshot[s.conv]])
    BY DEF Handled
  <2>2. CASE s.msg # 0 /\ UNCHANGED msgs
    <3>1. CASE s.token \in {0, snapshot[s.conv]} /\ msgs' = [msgs EXCEPT ![s.msg].on = snapshot[s.conv]]
      BY <2>2, <3>1
    <3>2. CASE ~(s.token \in {0, snapshot[s.conv]} /\ msgs' = [msgs EXCEPT ![s.msg].on = snapshot[s.conv]])
      <4>1. Decided(s, "failed")
        BY <2>2, <3>2 DEF Handled
      <4>2. [s EXCEPT !.reply = "failed"] \in sends' /\ t0 \in sends'
        BY <1>5, <4>1 DEF Decided
      <4> DEFINE u == [s EXCEPT !.reply = "failed"]
      <4>3. u.reply = "failed" /\ u.conv = s.conv
        BY <1>1 DEF SendRecord
      <4> HIDE DEF u
      <4>4. u \in sends'
        BY <4>2 DEF u
      <4>5. u = t0
        BY <1>1, <1>5, <4>3, <4>4 DEF SendSound, Handled
      <4>6. QED
        BY <1>4, <2>2, <4>3, <4>5
    <3>3. QED
      BY <3>1, <3>2
  <2>3. QED
    BY <2>1, <2>2
<1>7. /\ msgs' \in [Msg -> [conv : Conv \cup {NoConv}, seen : 0..MaxSnaps, on : 0..MaxSnaps]]
      /\ \A m \in Msg : /\ msgs'[m].conv = msgs[m].conv /\ msgs'[m].seen = msgs[m].seen
                        /\ msgs'[m].on = msgs[m].on \/ (m = s.msg /\ msgs'[m].on = snapshot[s.conv])
      /\ s.msg # 0 /\ decision = "ok" => msgs'[s.msg].on = snapshot[s.conv]
  <2>1. CASE UNCHANGED msgs /\ (decision = "failed" \/ s.msg = 0)
    BY <1>1, <2>1
  <2>2. CASE s.msg # 0 /\ msgs' = [msgs EXCEPT ![s.msg].on = snapshot[s.conv]]
    <3>1. s.msg \in Msg /\ snapshot[s.conv] \in 0..MaxSnaps
      BY <1>1, <2>2, Numbers, ComposerAssumption
    <3>2. QED
      BY <1>1, <2>2, <3>1
  <2>3. QED
    BY <1>6, <2>1, <2>2
<1>8. \A m \in Msg : msgs'[m].on # msgs[m].on => msgs'[m].seen \in {0, msgs'[m].on}
  <2> SUFFICES ASSUME NEW m \in Msg, msgs'[m].on # msgs[m].on PROVE msgs'[m].seen \in {0, msgs'[m].on}
    OBVIOUS
  <2>1. m = s.msg /\ s.msg # 0 /\ s.token \in {0, snapshot[s.conv]} /\ msgs'[m].on = snapshot[s.conv]
    BY <1>6, <1>7
  <2>2. msgs[m].conv = s.conv /\ (msgs[m].seen = 0 \/ (s.token # 0 /\ s.token <= msgs[m].seen))
    BY <1>1, <2>1 DEF SendSound, TokenFits
  <2>3. msgs[m].seen <= loaded[s.conv] /\ loaded[s.conv] <= snapshot[s.conv]
    BY <1>1, <2>2, ComposerAssumption DEF ComposerInv, MsgSound, DraftSound
  <2>4. msgs[m].seen \in 0..MaxSnaps
    BY <1>1
  <2>5. QED
    BY <1>1, <1>7, <2>1, <2>2, <2>3, <2>4, ComposerAssumption
<1>9. \A e : Sending(e)' = Sending(e)
  BY <1>4, <1>5 DEF Sending
<1>10. ComposerTypeOK'
  BY <1>1, <1>2, <1>4, <1>5, <1>7, <1>9 DEF ComposerInv, ComposerTypeOK
<1>11. \A e \in Conv : DraftSound(e)'
  <2> SUFFICES ASSUME NEW e \in Conv PROVE DraftSound(e)'
    OBVIOUS
  <2>1. DraftSound(e) /\ (drafts[e].text # 0 => drafts[e].text \in Msg)
    BY Numbers DEF ComposerInv, ComposerTypeOK, DraftRecord
  <2>2. QED
    BY <1>2, <1>7, <2>1 DEF DraftSound, TokenFits
<1>12. \A t \in sends' : SendSound(t)'
  <2> SUFFICES ASSUME NEW t \in sends' PROVE SendSound(t)'
    OBVIOUS
  <2>1. CASE t = t0
    <3>1. s.msg # 0 => s.msg \in Msg
      BY <1>1, Numbers
    <3>2. s.msg # 0 /\ decision = "ok" => msgs'[s.msg].on # 0
      BY <1>1, <1>7, ComposerAssumption
    <3>3. \A u \in sends' : u.conv = s.conv => u = t0
      BY <1>1, <1>5 DEF SendSound
    <3>4. QED
      BY <1>1, <1>2, <1>4, <1>7, <2>1, <3>1, <3>2, <3>3 DEF SendSound, TokenFits
  <2>2. CASE t \in sends /\ t # s
    <3>1. SendSound(t) /\ (t.msg # 0 => t.msg \in Msg)
      BY <1>1, <2>2, Numbers DEF ComposerInv, SendRecord
    <3>2. t.conv # s.conv
      BY <1>1, <2>2 DEF SendSound
    <3>3. t.msg # 0 => t.msg # s.msg
      BY <1>1, <3>1, <3>2 DEF SendSound
    <3>4. \A u \in sends' : u.conv = t.conv => u = t
      BY <1>4, <1>5, <3>1, <3>2 DEF SendSound
    <3>5. QED
      BY <1>2, <1>7, <3>1, <3>3, <3>4 DEF SendSound, TokenFits
  <2>3. QED
    BY <1>5, <2>1, <2>2
<1>13. \A m \in Msg : MsgSound(m)'
  BY <1>2, <1>7 DEF ComposerInv, MsgSound
<1>14. NothingTypedLost'
  <2> SUFFICES ASSUME NEW m \in Msg, msgs[m].conv # NoConv, m \notin gone
               PROVE  \/ drafts[msgs[m].conv].text = m \/ msgs'[m].on # 0 \/ bubble[m] = "failed"
                      \/ \E t \in sends' : t.msg = m
    BY <1>2, <1>7 DEF NothingTypedLost
  <2>1. \/ drafts[msgs[m].conv].text = m \/ msgs[m].on # 0 \/ bubble[m] = "failed" \/ \E t \in sends : t.msg = m
    BY DEF ComposerInv, NothingTypedLost
  <2>2. msgs[m].on # 0 => msgs'[m].on # 0
    BY <1>1, <1>7, ComposerAssumption
  <2>3. (\E t \in sends : t.msg = m) => \E t \in sends' : t.msg = m
    BY <1>4, <1>5
  <2>4. QED
    BY <2>1, <2>2, <2>3
<1>15. QED
  BY <1>2, <1>8, <1>10, <1>11, <1>12, <1>13, <1>14 DEF ComposerInv

\* What the answer leaves in the draft: what was typed meanwhile, nothing, or what was sent.
LEMMA AnsweredDraft ==
    ASSUME ComposerInv, NEW s \in sends, SendAnswered(s)
    PROVE  \E n \in DraftRecord :
              /\ Put(s.conv, n) /\ ~n.sending /\ ~n.touched /\ n.token <= loaded[s.conv]
              /\ drafts[s.conv].touched => n.text = drafts[s.conv].text
              /\ n.text # 0 => \/ n.text = drafts[s.conv].text /\ n.token = drafts[s.conv].token
                               \/ n.text = s.msg /\ TokenFits(n.token, s.msg)
              /\ ~drafts[s.conv].touched /\ s.reply = "failed" /\ s.msg # 0 => n.text = s.msg
<1> DEFINE c == s.conv
           d == drafts[c]
           r == Restored(d, s)
           back == SetText(r, c, s.msg)
           X == IF d.touched THEN d ELSE IF s.reply = "ok" THEN EmptyDraft
                ELSE IF s.images THEN [Pin(back, c) EXCEPT !.images = TRUE] ELSE back
           last == [X EXCEPT !.sending = FALSE, !.touched = FALSE]
<1>1. /\ s \in SendRecord /\ c \in Conv /\ s.msg \in 0..MaxMsgs /\ s.token \in 0..MaxSnaps /\ SendSound(s)
      /\ d \in DraftRecord /\ loaded[c] \in 0..MaxSnaps /\ DraftSound(c) /\ d.sending
  BY DEF ComposerInv, ComposerTypeOK, SendRecord, Sending
<1>2. Put(c, Trim(last)) /\ (s.reply = "ok" \/ s.reply = "failed")
  BY <1>1 DEF SendAnswered, SendRecord
<1>3. /\ r \in DraftRecord /\ r.text = d.text /\ r.sending = d.sending
      /\ r.token = IF s.token # 0 THEN s.token ELSE d.token
  BY <1>1 DEF Restored, DraftRecord
<1> HIDE DEF r
<1>4. /\ X \in DraftRecord /\ X.token <= loaded[c]
      /\ d.touched => X.text = d.text /\ X.token = d.token
      /\ ~d.touched /\ s.reply = "failed" /\ s.msg # 0 => X.text = s.msg
      /\ ~d.touched /\ X.text # 0 => X.text = s.msg /\ TokenFits(X.token, s.msg)
  <2>1. CASE d.touched
    BY <1>1, <2>1 DEF DraftSound
  <2>2. CASE ~d.touched /\ s.reply = "ok"
    BY <1>1, <2>2, Numbers, ComposerAssumption DEF EmptyDraft, DraftRecord
  <2>3. CASE ~d.touched /\ s.reply = "failed"
    <3>1. d.text = 0 /\ d.token <= loaded[c] /\ s.token <= loaded[c]
      BY <1>1, <2>3 DEF DraftSound, SendSound
    <3>2. /\ back \in DraftRecord /\ back.token <= loaded[c]
          /\ back.text = s.msg
          /\ s.msg # 0 => TokenFits(back.token, s.msg)
      <4>1. CASE s.msg = 0
        <5>1. back \in DraftRecord /\ back.text = 0 /\ back.token \in {0, r.token}
          BY <1>1, <1>3, <4>1, TextCleared
        <5>2. QED
          BY <1>1, <1>3, <3>1, <4>1, <5>1 DEF DraftRecord
      <4>2. CASE s.msg # 0
        <5>1. s.msg \in 1..MaxMsgs
          BY <1>1, <4>2, Numbers DEF Msg
        <5>2. /\ back \in DraftRecord /\ back.text = s.msg
              /\ back.token = IF s.msg # r.text /\ r.token = 0 THEN loaded[c] ELSE r.token
          BY <1>1, <1>3, <5>1, TextSet
        <5>3. back.token <= loaded[c]
          BY <1>1, <1>3, <3>1, <5>2 DEF DraftRecord
        <5>4. TokenFits(s.token, s.msg)
          BY <1>1, <4>2 DEF SendSound
        <5>5. TokenFits(back.token, s.msg)
          BY <1>3, <5>2, <5>4 DEF TokenFits
        <5>6. QED
          BY <5>2, <5>3, <5>5
      <4>3. QED
        BY <4>1, <4>2
    <3> HIDE DEF back
    <3> DEFINE p == Pin(back, c)
    <3>3. /\ p \in DraftRecord /\ p.text = back.text /\ p.token = IF back.token = 0 THEN loaded[c] ELSE back.token
      BY <1>1, <3>2, Pinned
    <3> HIDE DEF p
    <3>4. /\ p.token <= loaded[c] /\ (s.msg # 0 => TokenFits(p.token, s.msg))
      BY <1>1, <3>2, <3>3 DEF TokenFits
    <3> DEFINE i == [p EXCEPT !.images = TRUE]
    <3>5. i \in DraftRecord /\ i.text = p.text /\ i.token = p.token
      BY <3>3 DEF DraftRecord
    <3> HIDE DEF i
    <3>6. X = i \/ X = back
      BY <2>3 DEF i, p
    <3>7. QED
      BY <2>3, <3>2, <3>3, <3>4, <3>5, <3>6
  <2>4. QED
    BY <1>2, <2>1, <2>2, <2>3
<1> HIDE DEF X
<1>5. last \in DraftRecord /\ ~last.sending /\ ~last.touched /\ last.text = X.text /\ last.token = X.token
  BY <1>4 DEF DraftRecord
<1> HIDE DEF last
<1>6. /\ Trim(last) \in DraftRecord /\ ~Trim(last).sending /\ ~Trim(last).touched /\ Trim(last).text = last.text
      /\ Trim(last).token <= loaded[c] /\ (last.text # 0 => Trim(last) = last)
  BY <1>1, <1>4, <1>5, Trimmed DEF EmptyDraft, DraftRecord
<1>7. QED
  BY <1>2, <1>4, <1>5, <1>6

LEMMA AnsweredStep ==
    ASSUME ComposerInv, NEW s \in sends, SendAnswered(s)
    PROVE  ComposerInv'
<1>1. PICK n \in DraftRecord :
              /\ Put(s.conv, n) /\ ~n.sending /\ ~n.touched /\ n.token <= loaded[s.conv]
              /\ drafts[s.conv].touched => n.text = drafts[s.conv].text
              /\ n.text # 0 => \/ n.text = drafts[s.conv].text /\ n.token = drafts[s.conv].token
                               \/ n.text = s.msg /\ TokenFits(n.token, s.msg)
              /\ ~drafts[s.conv].touched /\ s.reply = "failed" /\ s.msg # 0 => n.text = s.msg
  BY AnsweredDraft
<1>2. /\ s.conv \in Conv /\ s.msg \in 0..MaxMsgs /\ SendSound(s) /\ DraftSound(s.conv) /\ drafts[s.conv].sending
      /\ s.reply = "ok" \/ s.reply = "failed"
      /\ sends \subseteq SendRecord /\ (s.msg # 0 => s.msg \in Msg)
      /\ \A m \in Msg : m # 0
  BY Numbers DEF ComposerInv, ComposerTypeOK, SendRecord, Sending, SendAnswered
<1>3. /\ sends' = sends \ {s}
      /\ UNCHANGED <<open, loaded, snapshot, msgs, gone, switchTo, catching, events>>
      /\ bubble' = IF s.msg = 0 \/ bubble[s.msg] = "none" THEN bubble
                   ELSE [bubble EXCEPT ![s.msg] = IF s.reply = "ok" THEN "none" ELSE "failed"]
  BY DEF SendAnswered, switches
<1>4. drafts' \in [Conv -> DraftRecord] /\ drafts'[s.conv] = n /\ \A e \in Conv : e # s.conv => drafts'[e] = drafts[e]
  BY <1>1, <1>2 DEF Put, ComposerInv, ComposerTypeOK
<1>5. /\ bubble' \in [Msg -> {"none", "pending", "failed"}]
      /\ \A m \in Msg : m # s.msg => bubble'[m] = bubble[m]
      /\ s.msg # 0 /\ bubble[s.msg] # "none" /\ s.reply = "failed" => bubble'[s.msg] = "failed"
  BY <1>2, <1>3 DEF ComposerInv, ComposerTypeOK
<1>6. \A t \in sends' : t \in sends /\ t.conv # s.conv
  BY <1>2, <1>3 DEF SendSound
<1>7. ComposerTypeOK'
  <2>1. ASSUME NEW e \in Conv PROVE drafts'[e].sending = Sending(e)'
    <3>1. CASE e = s.conv
      <4>1. Sending(e)' = FALSE
        BY <1>6, <3>1 DEF Sending
      <4>2. drafts'[e].sending = FALSE
        BY <1>1, <1>4, <3>1 DEF DraftRecord
      <4>3. QED
        BY <4>1, <4>2
    <3>2. CASE e # s.conv
      <4>1. Sending(e)' = Sending(e)
        BY <1>3, <3>2 DEF Sending
      <4>2. drafts[e].sending = Sending(e) /\ drafts'[e] = drafts[e]
        BY <1>4, <3>2 DEF ComposerInv, ComposerTypeOK
      <4>3. QED
        BY <4>1, <4>2
    <3>3. QED
      BY <3>1, <3>2
  <2>2. QED
    BY <1>2, <1>3, <1>4, <1>5, <2>1 DEF ComposerInv, ComposerTypeOK
<1>8. \A e \in Conv : DraftSound(e)'
  <2>1. DraftSound(s.conv)'
    <3>1. n.text # 0 => msgs[n.text].conv = s.conv /\ TokenFits(n.token, n.text)
      BY <1>1, <1>2 DEF DraftSound, SendSound
    <3>2. QED
      BY <1>1, <1>2, <1>3, <1>4, <3>1 DEF DraftSound, TokenFits
  <2>2. \A e \in Conv : e # s.conv => DraftSound(e)'
    BY <1>3, <1>4 DEF ComposerInv, DraftSound, TokenFits
  <2>3. ASSUME NEW e \in Conv, e = s.conv PROVE DraftSound(e)'
    BY <1>2, <1>3, <1>4, <2>1, <2>3 DEF DraftSound, TokenFits
  <2>4. QED
    BY <2>2, <2>3
<1>9. \A t \in sends' : SendSound(t)'
  <2> SUFFICES ASSUME NEW t \in sends' PROVE SendSound(t)'
    OBVIOUS
  <2>1. t \in sends /\ t.conv # s.conv /\ t.conv \in Conv /\ SendSound(t) /\ (t.msg # 0 => t.msg \in Msg)
    BY <1>2, <1>6, Numbers DEF ComposerInv, SendRecord
  <2>2. t.msg # 0 => bubble'[t.msg] = bubble[t.msg]
    BY <1>2, <1>5, <2>1 DEF SendSound
  <2>3. drafts'[t.conv] = drafts[t.conv] /\ \A u \in sends' : u.conv = t.conv => u = t
    BY <1>4, <1>6, <2>1 DEF SendSound
  <2>4. QED
    BY <1>3, <2>1, <2>2, <2>3 DEF SendSound, TokenFits
<1>10. \A m \in Msg : MsgSound(m)'
  BY <1>3 DEF ComposerInv, MsgSound
<1>11. NothingTypedLost'
  <2> SUFFICES ASSUME NEW m \in Msg, msgs[m].conv # NoConv, m \notin gone
               PROVE  \/ drafts'[msgs[m].conv].text = m \/ msgs[m].on # 0 \/ bubble'[m] = "failed"
                      \/ \E t \in sends' : t.msg = m
    BY <1>3 DEF NothingTypedLost
  <2>1. \/ drafts[msgs[m].conv].text = m \/ msgs[m].on # 0 \/ bubble[m] = "failed" \/ \E t \in sends : t.msg = m
    BY DEF ComposerInv, NothingTypedLost
  <2>2. msgs[m].conv \in Conv /\ m # 0
    BY <1>2 DEF ComposerInv, ComposerTypeOK
  <2>3. CASE m = s.msg
    <3>1. msgs[m].conv = s.conv /\ (s.reply = "ok" => msgs[m].on # 0)
          /\ (drafts[s.conv].touched => bubble[m] # "none")
      BY <1>2, <2>2, <2>3 DEF SendSound
    <3>2. QED
      BY <1>1, <1>2, <1>4, <1>5, <2>2, <2>3, <3>1
  <2>4. CASE m # s.msg
    <3>1. (\E t \in sends : t.msg = m) => \E t \in sends' : t.msg = m
      BY <1>3, <2>4
    <3>2. drafts[msgs[m].conv].text = m => drafts'[msgs[m].conv].text = m
      <4>1. drafts[s.conv].text # 0 => drafts[s.conv].touched
        BY <1>2 DEF DraftSound
      <4>2. QED
        BY <1>1, <1>4, <2>2, <4>1
    <3>3. QED
      BY <1>5, <2>1, <2>4, <3>1, <3>2
  <2>5. QED
    BY <2>3, <2>4
<1>12. QED
  BY <1>3, <1>7, <1>8, <1>9, <1>10, <1>11 DEF ComposerInv

LEMMA ComposerStep == ComposerInv /\ [ComposerNext]_composerVars => ComposerInv'
<1> SUFFICES ASSUME ComposerInv, [ComposerNext]_composerVars PROVE ComposerInv'
  OBVIOUS
<1>1. CASE UNCHANGED composerVars
  BY ZenonT(40), <1>1 DEF composerVars, ComposerInv, ComposerTypeOK, NothingTypedLost, DraftSound, SendSound, MsgSound,
              TokenFits, Sending
<1>2. CASE ComposerNext
  <2>1. \/ (\E m \in Msg : Type(m) \/ ExtensionWrites(m)) \/ Clear \/ AddFile \/ RemoveImages
        \/ (\E c \in Conv, ok \in BOOLEAN : FileRead(c, ok))
        \/ Load \/ CatchUp \/ CaughtUp \/ (\E c \in Conv : Replaced(c) \/ Open(c) \/ Switched(c))
        \/ (\E command \in BOOLEAN : SendMessage(command)) \/ (\E s \in sends : Handled(s) \/ SendAnswered(s))
    BY <1>2 DEF ComposerNext
  <2>2. QED
    BY <2>1, DraftSteps, DisplaySteps, SendStep, HandledStep, AnsweredStep
<1>3. QED
  BY <1>1, <1>2

LEMMA ComposerOfParts ==
    /\ PartsInit => ComposerInit
    /\ [PartsNext]_partVars => [ComposerNext]_composerVars
BY DEF PartsInit, PartsNext, partVars, serverVars, pageVars, linkVars

LEMMA ComposerSound == PartsSpec => []ComposerInv
BY ComposerStarts, ComposerStep, ComposerOfParts, PTL DEF PartsSpec

\* What was typed is in the draft of its conversation, on its way, taken, or shown as not
\* delivered, whatever is sent, answered, replaced, switched or written by extensions.
THEOREM NothingTypedLostCorrect == PartsSpec => []NothingTypedLost
<1>1. ComposerInv => NothingTypedLost
  BY DEF ComposerInv
<1>2. QED
  BY <1>1, ComposerSound, PTL

\* A message is taken only on the snapshot it was begun on, and nobody is taken away
\* from a draft.
THEOREM WrittenOnWhatWasSeenCorrect == PartsSpec => WrittenOnWhatWasSeen
<1> DEFINE A == /\ msgs' # msgs => \A m \in Msg : msgs'[m].on # msgs[m].on => msgs'[m].seen \in {0, msgs'[m].on}
                /\ open' # open /\ catching # NotCatching /\ catching' = NotCatching => ~HasDraft(open)
<1>1. ASSUME ComposerInv, ComposerNext PROVE A
  <2>1. \A m \in Msg : msgs'[m].on # msgs[m].on => msgs'[m].seen \in {0, msgs'[m].on}
    <3>1. CASE \E s \in sends : Handled(s)
      BY <1>1, <3>1, HandledStep
    <3>2. CASE \E m \in Msg : Type(m) \/ ExtensionWrites(m)
      <4>1. PICK m \in Msg : Begin(m, open)
        BY <3>2 DEF Type, ExtensionWrites
      <4>2. msgs \in [Msg -> [conv : Conv \cup {NoConv}, seen : 0..MaxSnaps, on : 0..MaxSnaps]]
        BY <1>1 DEF ComposerInv, ComposerTypeOK
      <4>3. QED
        BY <4>1, <4>2 DEF Begin
    <3>3. CASE ~(\E s \in sends : Handled(s)) /\ ~(\E m \in Msg : Type(m) \/ ExtensionWrites(m))
      <4>1. UNCHANGED msgs
        BY <1>1, <3>3 DEF ComposerNext, Clear, AddFile, RemoveImages, Load, CatchUp, CaughtUp, SendMessage,
                          SendAnswered, Replaced, Open, Switched, FileRead
      <4>2. QED
        BY <4>1
    <3>4. QED
      BY <3>1, <3>2, <3>3
  <2>2. open' # open /\ catching # NotCatching /\ catching' = NotCatching => ~HasDraft(open)
    <3>1. SUFFICES ASSUME open' # open, catching # NotCatching, catching' = NotCatching PROVE ~HasDraft(open)
      OBVIOUS
    <3>2. (\E c \in Conv : Open(c)) \/ CaughtUp
      BY <1>1, <3>1 DEF ComposerNext, Type, ExtensionWrites, Clear, AddFile, RemoveImages, Load, CatchUp,
                        SendMessage, Handled, SendAnswered, Replaced, Switched, FileRead
    <3>3. CaughtUp
      BY <3>1, <3>2 DEF Open, switches
    <3>4. QED
      BY <3>1, <3>3 DEF CaughtUp, CanCatchUp
  <2>3. QED
    BY <2>1, <2>2
<1>2. ComposerInv /\ [ComposerNext]_composerVars => [A]_composerVars
  BY <1>1
<1>3. QED
  BY <1>2, ComposerOfParts, ComposerSound, PTL DEF PartsSpec, WrittenOnWhatWasSeen

(***************************************************************************)
(* The settings page.                                                      *)
(***************************************************************************)

FieldsRecord == [map : 0..MaxOpenings, of : [Setting -> Typed]]

\* A save that has brought something to the server leaves nothing unsaved that is the
\* same: to clear its field is to clear what is saved.
SettingsInv ==
    /\ SettingsTypeOK /\ fields \in FieldsRecord
    /\ \A f \in Setting : unsaved[f] # NoEntry => fields.of[f] = unsaved[f]
    /\ \A s \in posts : s.at \in {"taken", "fetching"} /\ s.map = fields.map => unsaved[s.of] # s.value

LEMMA SettingsStarts == SettingsInit => SettingsInv
BY SettingsAssumption DEF SettingsInit, SettingsInv, SettingsTypeOK, NoDrafts, Typed, FieldsRecord

LEMMA SettingsStep == SettingsInv /\ [SettingsNext]_settingsVars => SettingsInv'
<1> SUFFICES ASSUME SettingsInv, [SettingsNext]_settingsVars PROVE SettingsInv'
  OBVIOUS
<1> USE SettingsAssumption
<1>1. CASE UNCHANGED settingsVars
  BY <1>1 DEF settingsVars, SettingsInv, SettingsTypeOK
<1>2. ASSUME NEW f \in Setting, NEW v \in Entry, TypeSetting(f, v) PROVE SettingsInv'
  <2>1. /\ fields' = [fields EXCEPT !.of = [fields.of EXCEPT ![f] = v]] /\ typings' \in 0..MaxEdits
        /\ UNCHANGED <<settled, heard, posts, posted>>
    <3>1. fields' = [fields EXCEPT !.of[f] = v] /\ UNCHANGED <<settled, heard, posts, posted>> /\ typings' \in 0..MaxEdits
      BY <1>2 DEF TypeSetting, SettingsInv, SettingsTypeOK
    <3>2. QED
      BY <3>1 DEF SettingsInv, FieldsRecord
  <2>2. fields' \in FieldsRecord /\ fields'.map = fields.map /\ fields'.of = [fields.of EXCEPT ![f] = v]
    BY <2>1 DEF SettingsInv, FieldsRecord, Typed
  <2>3. CASE \E s \in posts : Brought(s, f, v)
    <3>1. unsaved' = [unsaved EXCEPT ![f] = NoEntry]
      BY <1>2, <2>3 DEF TypeSetting
    <3>2. SettingsTypeOK'
      BY <2>1, <2>2, <3>1 DEF SettingsInv, SettingsTypeOK, FieldsRecord, Typed
    <3>3. QED
      BY <2>1, <2>2, <3>1, <3>2 DEF SettingsInv, SettingsTypeOK, Save, FieldsRecord
  <2>4. CASE ~ \E s \in posts : Brought(s, f, v)
    <3>1. unsaved' = [unsaved EXCEPT ![f] = v]
      BY <1>2, <2>4 DEF TypeSetting
    <3>2. SettingsTypeOK'
      BY <2>1, <2>2, <3>1 DEF SettingsInv, SettingsTypeOK, FieldsRecord, Typed
    <3>3. QED
      BY <2>1, <2>2, <2>4, <3>1, <3>2 DEF SettingsInv, SettingsTypeOK, Save, FieldsRecord, Brought
  <2>5. QED
    BY <2>3, <2>4
<1>3. ASSUME NEW f \in Setting, SaveSetting(f) PROVE SettingsInv'
  <2> DEFINE s0 == [n |-> posted + 1, of |-> f, value |-> Shown(f), map |-> fields.map, before |-> heard[f], at |-> "sent"]
  <2>1. s0 \in Save /\ s0.at = "sent" /\ posted' \in 0..MaxSaves
    BY <1>3 DEF SaveSetting, SettingsInv, SettingsTypeOK, Save, Shown, Typed
  <2>2. posts' = posts \cup {s0} /\ UNCHANGED <<settled, heard, fields, typings, unsaved>>
    BY <1>3 DEF SaveSetting
  <2> HIDE DEF s0
  <2>3. QED
    BY <2>1, <2>2 DEF SettingsInv, SettingsTypeOK
<1>4. ASSUME NEW s \in posts, SettingTaken(s) \/ SettingRefused(s) \/ SaveAnswered(s) \/ StateFetched(s) \/ SaveFailed(s)
      PROVE  SettingsInv'
  <2>1. s \in Save /\ s.of \in Setting /\ s.value \in Entry /\ s.before \in Entry
    BY DEF SettingsInv, SettingsTypeOK, Save
  <2>2. \A place \in {"taken", "refused", "fetching"} :
            LET t == [s EXCEPT !.at = place]
            IN t \in Save /\ t.of = s.of /\ t.value = s.value /\ t.map = s.map /\ t.at = place
    BY <2>1 DEF Save
  <2>3. WithoutSaved(s) \in FieldsRecord /\ WithoutSaved(s).map = fields.map
        /\ \A f \in Setting : WithoutSaved(s).of[f] = IF Clears(s, f) THEN NoEntry ELSE fields.of[f]
    <3> DEFINE of == [f \in Setting |-> IF Clears(s, f) THEN NoEntry ELSE fields.of[f]]
    <3>1. of \in [Setting -> Typed] /\ \A f \in Setting : of[f] = IF Clears(s, f) THEN NoEntry ELSE fields.of[f]
      BY DEF SettingsInv, FieldsRecord, Typed
    <3>2. WithoutSaved(s) = [fields EXCEPT !.of = of]
      BY DEF WithoutSaved, SettingsInv, FieldsRecord
    <3> HIDE DEF of
    <3>3. QED
      BY <3>1, <3>2 DEF SettingsInv, FieldsRecord
  <2>4. CASE SettingTaken(s)
    <3>1. PICK place \in {"taken", "refused"} : posts' = (posts \ {s}) \cup {[s EXCEPT !.at = place]}
      BY <2>4 DEF SettingTaken, At
    <3> DEFINE t == [s EXCEPT !.at = place]
    <3>2. t \in Save /\ t.of = s.of /\ t.value = s.value /\ t.map = s.map /\ t.at = place
      BY <2>2
    <3>3. posts' = (posts \ {s}) \cup {t}
      BY <3>1
    <3> HIDE DEF t
    <3>4. /\ UNCHANGED <<heard, fields, typings, posted>> /\ settled' = [settled EXCEPT ![s.of] = s.value]
          /\ unsaved' = [unsaved EXCEPT ![s.of] = IF s.map = fields.map /\ unsaved[s.of] = s.value THEN NoEntry ELSE unsaved[s.of]]
      BY <2>1, <2>4 DEF SettingTaken, SettingsInv, SettingsTypeOK
    <3>5. /\ unsaved' \in [Setting -> Typed] /\ \A f \in Setting : unsaved'[f] \in {NoEntry, unsaved[f]}
          /\ s.map = fields.map => unsaved'[s.of] # s.value
      BY <2>1, <3>4 DEF SettingsInv, SettingsTypeOK, Typed
    <3>6. SettingsTypeOK'
      BY <2>1, <3>2, <3>3, <3>4, <3>5 DEF SettingsInv, SettingsTypeOK
    <3>7. \A p \in posts : p.of \in Setting /\ p.value # NoEntry
      BY DEF SettingsInv, SettingsTypeOK, Save
    <3>8. QED
      BY <3>2, <3>3, <3>4, <3>5, <3>6, <3>7 DEF SettingsInv
  <2>5. CASE SettingRefused(s) \/ (SaveAnswered(s) /\ s.of \notin Direct)
    <3>1. PICK place \in {"refused", "fetching"} :
              /\ posts' = (posts \ {s}) \cup {[s EXCEPT !.at = place]} /\ (place = "fetching" => s.at = "taken")
      BY <2>5 DEF SettingRefused, SaveAnswered, At
    <3> DEFINE t == [s EXCEPT !.at = place]
    <3>2. t \in Save /\ t.of = s.of /\ t.value = s.value /\ t.map = s.map /\ t.at = place
      BY <2>2
    <3>3. posts' = (posts \ {s}) \cup {t}
      BY <3>1
    <3> HIDE DEF t
    <3>4. UNCHANGED <<settled, heard, fields, typings, posted, unsaved>>
      BY <2>5 DEF SettingRefused, SaveAnswered
    <3>5. QED
      BY <3>1, <3>2, <3>3, <3>4 DEF SettingsInv, SettingsTypeOK
  <2>6. CASE (SaveAnswered(s) /\ s.of \in Direct) \/ StateFetched(s) \/ SaveFailed(s)
    <3>1. /\ posts' = posts \ {s} /\ UNCHANGED <<settled, typings, posted, unsaved>>
          /\ fields' = fields \/ (fields' = WithoutSaved(s) /\ s.at \in {"taken", "fetching"})
          /\ heard' \in [Setting -> Entry]
      BY <2>1, <2>6 DEF SaveAnswered, StateFetched, SaveFailed, SettingsInv, SettingsTypeOK
    <3>2. fields' \in FieldsRecord /\ fields'.map = fields.map
      BY <2>3, <3>1 DEF SettingsInv
    <3>3. \A f \in Setting : unsaved[f] # NoEntry => fields'.of[f] = unsaved[f]
      <4>1. ASSUME NEW f \in Setting, unsaved[f] # NoEntry, Clears(s, f), s.at \in {"taken", "fetching"} PROVE FALSE
        BY <4>1 DEF SettingsInv, Clears
      <4>2. QED
        BY <2>3, <3>1, <4>1 DEF SettingsInv
    <3>4. QED
      BY <3>1, <3>2, <3>3 DEF SettingsInv, SettingsTypeOK, FieldsRecord
  <2>7. QED
    BY <1>4, <2>4, <2>5, <2>6
<1>5. CASE LeavePage \/ StateHeard
  <2>1. CASE LeavePage
    <3>1. fields' = [map |-> fields.map + 1, of |-> NoDrafts] /\ unsaved' = NoDrafts /\ UNCHANGED <<settled, heard, typings, posts, posted>>
          /\ fields.map + 1 \in 0..MaxOpenings
      BY <2>1 DEF LeavePage, SettingsInv, SettingsTypeOK
    <3>2. NoDrafts \in [Setting -> Typed] /\ \A f \in Setting : NoDrafts[f] = NoEntry
      BY DEF NoDrafts, Typed
    <3>3. fields' \in FieldsRecord /\ fields'.of = NoDrafts
      BY <3>1, <3>2 DEF FieldsRecord
    <3>4. \A s \in posts : s.of \in Setting /\ s.value # NoEntry
      BY DEF SettingsInv, SettingsTypeOK, Save
    <3>5. QED
      BY <3>1, <3>2, <3>3, <3>4 DEF SettingsInv, SettingsTypeOK, FieldsRecord
  <2>2. CASE StateHeard
    BY <2>2 DEF StateHeard, SettingsInv, SettingsTypeOK
  <2>3. QED
    BY <1>5, <2>1, <2>2
<1>6. QED
  BY <1>1, <1>2, <1>3, <1>4, <1>5 DEF SettingsNext

(***************************************************************************)
(* The login panel.                                                        *)
(***************************************************************************)

\* What is polled, cancelled, left or shown was started before: what starts is another one.
LoginInv ==
    /\ LoginTypeOK /\ LoginFollowed
    /\ \A f \in polls \cup login.cancelling \cup left \cup login.sending : flows[f] # "new"
    /\ login.flow # NoFlow => flows[login.flow] # "new"
    /\ login.timer # NoFlow => flows[login.timer] # "new"

LoginRecord == [flow : Ids, timer : Ids, starting : 0..2, cancelling : SUBSET Flow, sending : SUBSET Flow]

LEMMA LoginStarts == LoginInit => LoginInv
<1> SUFFICES ASSUME LoginInit PROVE LoginInv
  OBVIOUS
<1>1. LoginTypeOK
  <2>1. login \in LoginRecord
    BY LoginPanelAssumption DEF LoginInit, LoginRecord, Ids
  <2>2. QED
    <3>1. polls \subseteq Flow /\ polled \in 0..MaxPolls /\ flows \in [Flow -> {"new", "pending", "ended"}] /\ left \subseteq Flow
      BY LoginPanelAssumption DEF LoginInit
    <3>2. tangled \in BOOLEAN
      BY DEF LoginInit
    <3>3. QED
      BY <2>1, <3>1, <3>2 DEF LoginTypeOK, LoginRecord
<1>2. QED
  BY <1>1 DEF LoginInit, LoginInv, LoginFollowed

LEMMA LoginStep == LoginInv /\ [LoginNext]_loginVars => LoginInv'
<1> SUFFICES ASSUME LoginInv, [LoginNext]_loginVars PROVE LoginInv'
  OBVIOUS
<1> USE LoginPanelAssumption
<1>1. /\ login \in LoginRecord /\ polls \subseteq Flow /\ left \subseteq Flow /\ polled \in 0..MaxPolls
      /\ flows \in [Flow -> {"new", "pending", "ended"}] /\ tangled \in BOOLEAN
      /\ login.cancelling \subseteq Flow /\ login.sending \subseteq Flow
      /\ login.flow \in Ids /\ login.timer \in Ids /\ login.starting \in 0..2
  BY DEF LoginInv, LoginTypeOK, LoginRecord
<1>2. CASE UNCHANGED loginVars
  BY <1>2 DEF loginVars, LoginInv, LoginTypeOK, LoginFollowed
<1>3. CASE StartLogin
  <2>1. /\ login' \in LoginRecord /\ login'.flow = login.flow /\ login'.timer = login.timer
        /\ login'.cancelling = login.cancelling /\ login'.sending = login.sending
    BY <1>1, <1>3 DEF StartLogin, LoginRecord
  <2>2. UNCHANGED <<polls, polled, flows, left, tangled>>
    BY <1>3 DEF StartLogin
  <2>3. QED
    BY <2>1, <2>2 DEF LoginInv, LoginTypeOK, LoginFollowed, LoginRecord
<1>4. CASE LoginStarted
  <2>1. UNCHANGED <<polled, left, tangled>>
    BY <1>4 DEF LoginStarted
  <2>2. CASE \E f \in Flow :
            /\ flows[f] = "new"
            /\ flows' = [flows EXCEPT ![f] = "pending"] /\ polls' = polls \cup {f}
            /\ login' = [login EXCEPT !.starting = @ - 1, !.flow = f, !.timer = NoFlow]
    <3>1. PICK f \in Flow :
            /\ flows[f] = "new"
            /\ flows' = [flows EXCEPT ![f] = "pending"] /\ polls' = polls \cup {f}
            /\ login' = [login EXCEPT !.starting = @ - 1, !.flow = f, !.timer = NoFlow]
      BY <2>2
    <3>2. /\ login' \in LoginRecord /\ login'.flow = f /\ login'.timer = NoFlow
          /\ login'.cancelling = login.cancelling /\ login'.sending = login.sending
      <4>1. login' = [login EXCEPT !.starting = login.starting - 1, !.flow = f, !.timer = NoFlow]
            /\ login.starting - 1 \in 0..2 /\ f \in Ids /\ NoFlow \in Ids
        <5>1. login' = [login EXCEPT !.starting = login.starting - 1, !.flow = f, !.timer = NoFlow]
          BY <3>1 DEF LoginRecord
        <5>2. login.starting - 1 \in 0..2 /\ f \in Ids /\ NoFlow \in Ids
          <6>1. login.starting > 0
            BY <1>4 DEF LoginStarted
          <6>2. QED
            BY <1>1, <6>1 DEF Ids
        <5>3. QED
          BY <5>1, <5>2
      <4>2. QED
        BY <1>1, <4>1 DEF LoginRecord
    <3>3. f \notin left /\ f # NoFlow
      BY <3>1 DEF LoginInv
    <3>4. /\ flows' \in [Flow -> {"new", "pending", "ended"}] /\ flows'[f] = "pending"
          /\ \A g \in Flow : flows[g] # "new" => flows'[g] # "new"
      BY <1>1, <3>1
    <3>5. QED
      BY <1>1, <2>1, <3>1, <3>2, <3>3, <3>4 DEF LoginInv, LoginTypeOK, LoginFollowed, LoginRecord
  <2>3. CASE login' = [login EXCEPT !.starting = @ - 1] /\ UNCHANGED <<flows, polls>>
    <3>1. /\ login' \in LoginRecord /\ login'.flow = login.flow /\ login'.timer = login.timer
          /\ login'.cancelling = login.cancelling /\ login'.sending = login.sending
      BY <1>1, <1>4, <2>3 DEF LoginStarted, LoginRecord
    <3>2. QED
      BY <2>1, <2>3, <3>1 DEF LoginInv, LoginTypeOK, LoginFollowed, LoginRecord
  <2>4. QED
    BY <1>4, <2>2, <2>3 DEF LoginStarted
<1>5. ASSUME NEW f \in Flow, PollAnswered(f) \/ PollFailed(f) PROVE LoginInv'
  <2>1. f \in polls /\ polls' = polls \ {f} /\ UNCHANGED <<polled, flows, left, tangled>>
    BY <1>5 DEF PollAnswered, PollFailed
  <2>2. /\ login' \in LoginRecord
        /\ login'.cancelling = login.cancelling /\ login'.sending = login.sending
        /\ \/ login' = login /\ login.flow # f
           \/ login'.flow = f /\ login'.timer = f /\ login.flow = f
           \/ login'.flow = NoFlow /\ login'.timer = login.timer
    <3>1. \/ login' = login /\ login.flow # f
          \/ login' = [login EXCEPT !.flow = f, !.timer = f] /\ login.flow = f
          \/ login' = [login EXCEPT !.flow = NoFlow]
      BY <1>5 DEF PollAnswered, PollFailed, Follows
    <3>2. f \in Ids /\ NoFlow \in Ids
      BY DEF Ids
    <3>3. QED
      BY <1>1, <3>1, <3>2 DEF LoginRecord
  <2>3. QED
    BY <1>1, <2>1, <2>2 DEF LoginInv, LoginTypeOK, LoginFollowed, LoginRecord
<1>6. CASE PollAgain
  <2>1. /\ login' \in LoginRecord /\ login'.flow = login.flow /\ login'.timer = NoFlow
        /\ login'.cancelling = login.cancelling /\ login'.sending = login.sending
    BY <1>1, <1>6 DEF PollAgain, LoginRecord, Ids
  <2>2. /\ polls' = polls \cup {login.timer} /\ login.timer # NoFlow /\ UNCHANGED <<flows, left, tangled>>
        /\ polled' \in 0..MaxPolls
    BY <1>1, <1>6 DEF PollAgain
  <2>3. QED
    BY <1>1, <2>1, <2>2 DEF LoginInv, LoginTypeOK, LoginFollowed, LoginRecord, Ids
<1>7. CASE SendInput \/ CancelLogin
  <2>1. /\ login.flow # NoFlow /\ login.flow \in Flow /\ UNCHANGED <<polls, polled, flows, left, tangled>>
    BY <1>1, <1>7 DEF SendInput, CancelLogin, Ids
  <2>2. /\ login' \in LoginRecord /\ login'.flow = login.flow
        /\ \/ /\ login'.timer = login.timer /\ login'.cancelling = login.cancelling
              /\ login'.sending = login.sending \cup {login.flow}
           \/ /\ login'.timer = NoFlow /\ login'.cancelling = login.cancelling \cup {login.flow}
              /\ login'.sending = login.sending
    <3>1. \/ login' = [login EXCEPT !.sending = login.sending \cup {login.flow}]
          \/ login' = [login EXCEPT !.timer = NoFlow, !.cancelling = login.cancelling \cup {login.flow}]
      BY <1>1, <1>7 DEF SendInput, CancelLogin, LoginRecord
    <3>2. /\ login.sending \cup {login.flow} \in SUBSET Flow /\ login.cancelling \cup {login.flow} \in SUBSET Flow
          /\ NoFlow \in Ids
      BY <1>1, <2>1 DEF Ids
    <3>3. QED
      BY ZenonT(40), <1>1, <3>1, <3>2 DEF LoginRecord
  <2>3. QED
    BY <1>1, <2>1, <2>2 DEF LoginInv, LoginTypeOK, LoginFollowed, LoginRecord
<1>8. ASSUME NEW f \in Flow, InputAnswered(f) PROVE LoginInv'
  <2>1. PICK g \in {f, login.flow} :
           login' = [login EXCEPT !.sending = @ \ {f}, !.flow = g] /\ tangled' = (tangled \/ g # login.flow)
    BY <1>8 DEF InputAnswered
  <2>2. f \in login.sending /\ UNCHANGED <<polls, polled, flows, left>>
    BY <1>8 DEF InputAnswered
  <2>3. /\ login' \in LoginRecord /\ login'.flow = g /\ login'.timer = login.timer
        /\ login'.cancelling = login.cancelling /\ login'.sending = login.sending \ {f}
    BY <1>1, <2>1 DEF LoginRecord, Ids
  <2>4. tangled' \in BOOLEAN /\ (~tangled' => ~tangled /\ g = login.flow)
    BY <1>1, <2>1
  <2>5. QED
    BY <1>1, <2>2, <2>3, <2>4 DEF LoginInv, LoginTypeOK, LoginFollowed, LoginRecord
<1>9. ASSUME NEW f \in Flow, CancelAnswered(f) PROVE LoginInv'
  <2>1. /\ f \in login.cancelling /\ left' = left \cup {f} /\ UNCHANGED <<polls, polled, tangled>>
        /\ flows' \in [Flow -> {"new", "pending", "ended"}]
        /\ \A g \in Flow : flows[g] # "new" => flows'[g] # "new"
    BY <1>1, <1>9 DEF CancelAnswered
  <2>2. /\ login' \in LoginRecord /\ login'.flow = NoFlow /\ login'.timer = login.timer
        /\ login'.cancelling = login.cancelling \ {f} /\ login'.sending = login.sending
    BY <1>1, <1>9 DEF CancelAnswered, LoginRecord, Ids
  <2>3. QED
    BY <1>1, <2>1, <2>2 DEF LoginInv, LoginTypeOK, LoginFollowed, LoginRecord, Ids
<1>10. ASSUME NEW f \in Flow, LoginEnds(f) PROVE LoginInv'
  <2>1. /\ UNCHANGED <<login, polls, polled, left, tangled>>
        /\ flows' \in [Flow -> {"new", "pending", "ended"}]
        /\ \A g \in Flow : flows[g] # "new" => flows'[g] # "new"
    BY <1>1, <1>10 DEF LoginEnds
  <2>2. QED
    BY <1>1, <2>1 DEF LoginInv, LoginTypeOK, LoginFollowed, Ids
<1>11. QED
  BY <1>2, <1>3, <1>4, <1>5, <1>6, <1>7, <1>8, <1>9, <1>10 DEF LoginNext

LEMMA SettingsOfParts ==
    /\ PartsInit => SettingsInit /\ LoginInit
    /\ [PartsNext]_partVars => [SettingsNext]_settingsVars /\ [LoginNext]_loginVars
BY DEF PartsInit, PartsNext, partVars, serverVars, pageVars, linkVars

\* What the user typed stays in its field until a save brought just that to the server,
\* and a login that is shown is followed, and none that was cancelled.
THEOREM SettingsTrueCorrect == PartsSpec => []SettingsTrue
<1>1. SettingsInv => SettingsKept
  BY DEF SettingsInv, SettingsKept, Shown
<1>2. LoginInv => LoginFollowed
  BY DEF LoginInv
<1>3. SettingsKept /\ LoginFollowed => SettingsTrue
  BY DEF SettingsTrue
<1>4. PartsSpec => []SettingsInv
  BY SettingsStarts, SettingsStep, SettingsOfParts, PTL DEF PartsSpec
<1>5. PartsSpec => []LoginInv
  BY LoginStarts, LoginStep, SettingsOfParts, PTL DEF PartsSpec
<1>6. QED
  BY <1>1, <1>2, <1>3, <1>4, <1>5, PTL

(***************************************************************************)
(* Workers in a cluster.                                                   *)
(***************************************************************************)

KRecord == [kind : Kinds \cup {"none"}, answer : {"none", "ok", "failed"}, alone : BOOLEAN,
            step : {"rest", "locate", "down", "gone", "wipe", "wiped", "volume", "deploy", "up"},
            space : Space \cup {NoSpace}, old : 0..MaxVolumes]

CallShape(c) ==
    /\ kcall[c].answer = "none" /\ kcall[c].kind # "none"
    /\ kcall[c].kind \in {"remove", "purge"} => kcall[c].step \in {"locate", "down", "gone", "wipe", "wiped"}
    /\ kcall[c].kind = "create" => kcall[c].step \in {"locate", "volume", "deploy"} /\ kcall[c].space \in Space
    /\ kcall[c].step \notin {"rest", "locate"} => kcall[c].space \in Space
Alone(c) == \A d \in KCall : d # c => kcall[d].step = "rest"

\* What a call that overlaps no other has done so far stays done.
ResetSound(c) ==
    LET n == kcall[c].space IN
    kcall[c].kind = "reset" /\ kcall[c].step \in {"down", "gone", "wipe", "wiped", "volume", "up"} =>
        /\ located = n /\ deployment[n] # NoDeployment /\ kcall[c].old <= volumes
        /\ kcall[c].step \in {"gone", "wipe", "wiped", "volume", "up"} => deployment[n] = 0
        /\ kcall[c].step = "volume" => volume[n] = 0
        /\ kcall[c].step = "up" => volume[n] \notin {0, kcall[c].old} /\ n \notin doomed
RemoveSound(c) ==
    kcall[c].kind \in {"remove", "purge"} /\ kcall[c].step \in {"gone", "wipe", "wiped"} =>
        deployment[kcall[c].space] = NoDeployment

KInv ==
    /\ KTypeOK
    /\ \A n \in Space : volume[n] <= volumes
    /\ \A c \in KCall : kcall[c].step # "rest" =>
          /\ CallShape(c)
          /\ kcall[c].alone => Alone(c) /\ ResetSound(c) /\ RemoveSound(c)

\* What KubernetesAnswersTrue says of one call.
Truth(c) ==
    LET n == kcall'[c].space
    IN kcall[c].step # "rest" /\ kcall'[c].answer = "ok" /\ kcall'[c].alone =>
        CASE kcall[c].kind = "reset" -> volume'[n] \notin {0, kcall[c].old} /\ n \notin doomed' /\ deployment'[n] = 1
          [] kcall[c].kind \in {"remove", "purge"} ->
                /\ deployment'[n] = NoDeployment /\ (pod'[n] = "none" \/ Misread)
                /\ kcall[c].kind = "purge" => volume'[n] = 0
          [] OTHER -> TRUE

LEMMA KStarts == KInit => KInv
<1> SUFFICES ASSUME KInit PROVE KInv
  OBVIOUS
<1> USE KubernetesAssumption
<1>1. KRest \in KRecord /\ KRest.step = "rest"
  BY DEF KRest, KRecord
<1>2. kcall \in [KCall -> KRecord] /\ \A c \in KCall : kcall[c].step = "rest"
  BY <1>1 DEF KInit
<1>3. PICK n \in Space :
        /\ deployment = [m \in Space |-> IF m = n THEN 1 ELSE NoDeployment]
        /\ pod = [m \in Space |-> IF m = n THEN "on" ELSE "none"]
        /\ volume = [m \in Space |-> IF m = n THEN 1 ELSE 0]
  BY DEF KInit
<1>4. KTypeOK
  BY <1>2, <1>3 DEF KInit, KTypeOK, KRecord
<1>5. \A m \in Space : volume[m] <= volumes
  BY <1>3 DEF KInit
<1>6. QED
  BY <1>2, <1>4, <1>5 DEF KInv

\* A step of one call: of the others, none is alone.
LEMMA KCallMoves ==
    ASSUME KInv, NEW c \in KCall, kcall[c].step # "rest", NEW r \in KRecord, kcall' = [kcall EXCEPT ![c] = r],
           r.alone = kcall[c].alone, r.kind = kcall[c].kind, KTypeOK', \A n \in Space : volume'[n] <= volumes',
           r.step # "rest" => CallShape(c)' /\ (r.alone => ResetSound(c)' /\ RemoveSound(c)'), Truth(c)
    PROVE  KInv' /\ \A d \in KCall : Truth(d)
<1>1. kcall'[c] = r /\ \A d \in KCall : d # c => kcall'[d] = kcall[d]
  BY DEF KInv, KTypeOK
<1>2. ASSUME NEW d \in KCall, d # c, kcall[d].step # "rest" PROVE ~kcall[d].alone /\ CallShape(d)' /\ Truth(d)
  <2>1. ~kcall[d].alone /\ CallShape(d)
    BY <1>2 DEF KInv, Alone
  <2>2. QED
    BY <1>1, <1>2, <2>1 DEF CallShape, Truth
<1>3. r.step # "rest" /\ r.alone => Alone(c)'
  BY <1>1 DEF KInv, Alone
<1>4. \A d \in KCall : kcall'[d].step # "rest" =>
          CallShape(d)' /\ (kcall'[d].alone => Alone(d)' /\ ResetSound(d)' /\ RemoveSound(d)')
  BY <1>1, <1>2, <1>3
<1>5. \A d \in KCall : Truth(d)
  BY <1>2 DEF Truth
<1>6. QED
  BY <1>4, <1>5 DEF KInv

LEMMA KStep ==
    ASSUME KInv, [KNext]_kVars
    PROVE  KInv' /\ (kcall' # kcall => \A c \in KCall : Truth(c))
<1> USE KubernetesAssumption
<1>1. /\ deployment \in [Space -> {0, 1, NoDeployment}] /\ pod \in [Space -> {"none", "pending", "on"}]
      /\ volume \in [Space -> 0..MaxVolumes] /\ doomed \subseteq Space /\ \A n \in doomed : volume[n] # 0
      /\ located \in Space \cup {NoSpace} /\ volumes \in 0..MaxVolumes /\ kfaults \in 0..MaxKFaults
      /\ kcall \in [KCall -> KRecord] /\ \A c \in KCall : kcall[c] \in KRecord
      /\ NoDeployment = 2
  BY DEF KInv, KTypeOK, KRecord, NoDeployment
<1>2. KTypeOK <=>
        /\ deployment \in [Space -> {0, 1, NoDeployment}] /\ pod \in [Space -> {"none", "pending", "on"}]
        /\ volume \in [Space -> 0..MaxVolumes] /\ doomed \subseteq Space /\ \A n \in doomed : volume[n] # 0
        /\ located \in Space \cup {NoSpace} /\ volumes \in 0..MaxVolumes /\ kfaults \in 0..MaxKFaults
        /\ kcall \in [KCall -> KRecord]
  BY DEF KTypeOK, KRecord
<1>3. ASSUME UNCHANGED kVars PROVE KInv' /\ kcall' = kcall
  BY <1>3 DEF kVars, KInv, KTypeOK, CallShape, Alone, ResetSound, RemoveSound
<1>4. ASSUME NEW c \in KCall, NEW kind \in Kinds, NEW n \in IF kind = "create" THEN Space ELSE {NoSpace}, KCalled(c, kind, n)
      PROVE  KInv' /\ \A d \in KCall : Truth(d)
  <2> DEFINE lone == \A e \in KCall : kcall[e].step = "rest"
             r == [KRest EXCEPT !.kind = kind, !.step = "locate", !.space = n, !.old = 0, !.alone = lone]
  <2>1. /\ UNCHANGED <<deployment, pod, volume, doomed, volumes, located, kfaults>> /\ kcall[c].step = "rest"
        /\ kcall' = [d \in KCall |-> IF d = c THEN r
                                     ELSE IF kcall[d].step # "rest" THEN [kcall[d] EXCEPT !.alone = FALSE] ELSE kcall[d]]
    BY <1>4 DEF KCalled, cluster
  <2>2. /\ r \in KRecord /\ r.step = "locate" /\ r.kind = kind /\ r.space = n /\ r.answer = "none"
        /\ r.alone => lone
    <3>1. lone \in BOOLEAN /\ n \in Space \cup {NoSpace} /\ kind \in Kinds
      OBVIOUS
    <3> HIDE DEF lone
    <3>2. KRest \in KRecord /\ KRest.answer = "none"
      BY DEF KRest, KRecord
    <3>3. PICK b \in BOOLEAN : b = lone
      BY <3>1
    <3>4. r = [KRest EXCEPT !.kind = kind, !.step = "locate", !.space = n, !.old = 0, !.alone = b]
      BY <3>3
    <3> HIDE DEF r
    <3>5. r \in KRecord /\ r.step = "locate" /\ r.kind = kind /\ r.space = n /\ r.answer = "none" /\ r.alone = b
      BY <3>1, <3>2, <3>4, 0 \in 0..MaxVolumes DEF KRecord
    <3>6. QED
      BY <3>3, <3>5
  <2> HIDE DEF r
  <2>3. \A d \in KCall : d # c => /\ kcall'[d] \in KRecord /\ kcall'[d].step = kcall[d].step
                                 /\ kcall'[d].kind = kcall[d].kind /\ kcall'[d].answer = kcall[d].answer
                                 /\ kcall'[d].space = kcall[d].space /\ (kcall[d].step # "rest" => ~kcall'[d].alone)
    <3> TAKE d \in KCall
    <3> DEFINE q == [kcall[d] EXCEPT !.alone = FALSE]
    <3>1. /\ q \in KRecord /\ q.step = kcall[d].step /\ q.kind = kcall[d].kind /\ q.answer = kcall[d].answer
          /\ q.space = kcall[d].space /\ ~q.alone
      BY ZenonT(40), <1>1 DEF KRecord
    <3>2. d # c => kcall'[d] = IF kcall[d].step # "rest" THEN q ELSE kcall[d]
      BY <2>1
    <3> HIDE DEF q
    <3>3. QED
      BY <1>1, <3>1, <3>2
  <2>4. kcall'[c] = r /\ kcall' \in [KCall -> KRecord]
    BY <2>1, <2>2, <2>3
  <2>5. KTypeOK'
    BY <1>1, <2>1, <2>4 DEF KTypeOK, KRecord
  <2>6. kind # "none" /\ (kind = "create" => n \in Space)
    BY DEF Kinds
  <2>7. CallShape(c)' /\ ResetSound(c)' /\ RemoveSound(c)' /\ (r.alone => Alone(c)')
    BY <2>2, <2>3, <2>4, <2>6 DEF CallShape, ResetSound, RemoveSound, Alone
  <2>8. \A d \in KCall : d # c /\ kcall'[d].step # "rest" => CallShape(d)' /\ ~kcall'[d].alone
    BY <2>3 DEF KInv, CallShape
  <2>9. KInv'
    BY <2>1, <2>4, <2>5, <2>7, <2>8 DEF KInv
  <2>10. \A d \in KCall : Truth(d)
    BY <2>1, <2>3 DEF Truth
  <2>11. QED
    BY <2>9, <2>10
<1>5. ASSUME NEW c \in KCall, KFails(c) \/ Locate(c) \/ ScaleDown(c) \/ ScaleUp(c) \/ DeleteDeployment(c) \/ DeleteVolume(c)
                              \/ WaitGone(c) \/ CreateVolume(c) \/ CreateDeployment(c)
      PROVE  KInv' /\ \A d \in KCall : Truth(d)
  <2>1. kcall[c] \in KRecord /\ kcall[c].step # "rest"
    BY <1>1, <1>5 DEF KFails, Locate, ScaleDown, ScaleUp, On, DeleteDeployment, DeleteVolume, WaitGone, CreateVolume,
                      CreateDeployment
  <2>2. CallShape(c) /\ (kcall[c].alone => ResetSound(c) /\ RemoveSound(c))
    BY <2>1 DEF KInv
  <2>3. \A step \in {"down", "gone", "wipe", "wiped", "volume", "deploy", "up"}, answer \in {"ok", "failed"} :
          /\ To(c, step) => \E r \in KRecord : /\ kcall' = [kcall EXCEPT ![c] = r] /\ r.kind = kcall[c].kind
                                               /\ r.alone = kcall[c].alone /\ r.space = kcall[c].space
                                               /\ r.old = kcall[c].old /\ r.step = step /\ r.answer = kcall[c].answer
          /\ KAnswer(c, answer) =>
                          \E r \in KRecord : /\ kcall' = [kcall EXCEPT ![c] = r] /\ r.kind = kcall[c].kind
                                             /\ r.alone = kcall[c].alone /\ r.space = kcall[c].space
                                             /\ r.old = kcall[c].old /\ r.step = "rest" /\ r.answer = answer
    <3> TAKE step \in {"down", "gone", "wipe", "wiped", "volume", "deploy", "up"}, answer \in {"ok", "failed"}
    <3> DEFINE r1 == [kcall[c] EXCEPT !.step = step]
               r2 == [kcall[c] EXCEPT !.step = "rest", !.answer = answer]
    <3>1. /\ r1 \in KRecord /\ r1.kind = kcall[c].kind /\ r1.alone = kcall[c].alone /\ r1.space = kcall[c].space
          /\ r1.old = kcall[c].old /\ r1.step = step /\ r1.answer = kcall[c].answer
      BY <2>1 DEF KRecord
    <3>2. /\ r2 \in KRecord /\ r2.kind = kcall[c].kind /\ r2.alone = kcall[c].alone /\ r2.space = kcall[c].space
          /\ r2.old = kcall[c].old /\ r2.step = "rest" /\ r2.answer = answer
      BY <2>1 DEF KRecord
    <3>3. To(c, step) => kcall' = [kcall EXCEPT ![c] = r1]
      BY <1>1 DEF To
    <3>4. KAnswer(c, answer) => kcall' = [kcall EXCEPT ![c] = r2]
      BY <1>1 DEF KAnswer
    <3> HIDE DEF r1, r2
    <3>5. QED
      BY <3>1, <3>2, <3>3, <3>4
  <2>4. ASSUME NEW r \in KRecord, kcall' = [kcall EXCEPT ![c] = r] PROVE kcall'[c] = r /\ kcall' \in [KCall -> KRecord]
    BY <1>1, <2>4
  <2>5. CASE KFails(c)
    <3>1. PICK r \in KRecord : /\ kcall' = [kcall EXCEPT ![c] = r] /\ r.kind = kcall[c].kind
                               /\ r.alone = kcall[c].alone /\ r.step = "rest" /\ r.answer = "failed"
      BY <2>3, <2>5 DEF KFails
    <3>2. UNCHANGED <<deployment, pod, volume, doomed, volumes, located>> /\ kfaults' \in 0..MaxKFaults
      BY <1>1, <2>5 DEF KFails, KFault, cluster
    <3>3. KTypeOK'
      BY <1>1, <2>4, <3>1, <3>2 DEF KTypeOK, KRecord
    <3>4. Truth(c)
      BY <2>4, <3>1 DEF Truth
    <3>5. QED
      BY <2>1, <3>1, <3>2, <3>3, <3>4, KCallMoves DEF KInv
  <2>6. CASE Locate(c)
    <3>1. UNCHANGED <<deployment, pod, volume, doomed, volumes, kfaults>> /\ kcall[c].step = "locate"
      BY <2>6 DEF Locate, cluster
    <3>2. Deployed # {} => Found \in Deployed /\ Found \in Space /\ deployment[Found] # NoDeployment
      BY DEF Found, Deployed
    <3>3. CASE Deployed = {}
      <4>1. PICK r \in KRecord :
               /\ kcall' = [kcall EXCEPT ![c] = r] /\ r.kind = kcall[c].kind /\ r.alone = kcall[c].alone
               /\ \/ r.step = "volume" /\ r.space = kcall[c].space /\ r.kind = "create" /\ r.answer = kcall[c].answer
                  \/ r.step = "down" /\ r.space = KHome /\ r.kind \in {"remove", "purge"} /\ r.answer = kcall[c].answer
                  \/ r.step = "rest" /\ r.answer = "failed"
        <5>1. CASE kcall[c].kind \in {"remove", "purge"}
          <6> DEFINE r == [kcall[c] EXCEPT !.step = "down", !.space = KHome]
          <6>1. kcall' = [kcall EXCEPT ![c] = r]
            BY <1>1, <2>6, <3>3, <5>1 DEF Locate
          <6>2. /\ r \in KRecord /\ r.kind = kcall[c].kind /\ r.alone = kcall[c].alone
                /\ r.step = "down" /\ r.space = KHome /\ r.answer = kcall[c].answer
            BY <2>1 DEF KRecord
          <6> HIDE DEF r
          <6>3. QED
            BY <5>1, <6>1, <6>2
        <5>2. CASE kcall[c].kind \notin {"remove", "purge"}
          <6>1. IF kcall[c].kind = "create" THEN To(c, "volume") ELSE KAnswer(c, "failed")
            BY <2>6, <3>3, <5>2 DEF Locate
          <6>2. QED
            BY <2>3, <6>1
        <5>3. QED
          BY <5>1, <5>2
      <4>2. located' = NoSpace
        BY <2>6, <3>3 DEF Locate
      <4>3. KTypeOK'
        BY <1>1, <2>4, <3>1, <4>1, <4>2 DEF KTypeOK, KRecord
      <4>4. Truth(c) /\ (r.step # "rest" => CallShape(c)' /\ ResetSound(c)' /\ RemoveSound(c)')
        BY <2>2, <2>4, <3>1, <4>1 DEF Truth, CallShape, ResetSound, RemoveSound
      <4>5. QED
        BY <2>1, <3>1, <4>1, <4>3, <4>4, KCallMoves DEF KInv
    <3>4. CASE Deployed # {}
      <4>1. located' = Found
        BY <2>6, <3>4 DEF Locate
      <4>2. PICK r \in KRecord :
               /\ kcall' = [kcall EXCEPT ![c] = r] /\ r.kind = kcall[c].kind /\ r.alone = kcall[c].alone
               /\ \/ r.step = "rest" /\ r.answer = "failed"
                  \/ /\ r.space = Found /\ r.old = volume[Found] /\ r.answer = kcall[c].answer
                     /\ r.step = CASE kcall[c].kind = "create" -> "volume" [] kcall[c].kind = "wake" -> "up" [] OTHER -> "down"
        <5>1. CASE kcall[c].kind = "create" /\ Found # kcall[c].space
          <6>1. KAnswer(c, "failed")
            BY <2>6, <3>4, <5>1 DEF Locate
          <6>2. QED
            BY <2>3, <6>1
        <5>2. CASE ~(kcall[c].kind = "create" /\ Found # kcall[c].space)
          <6> DEFINE next == CASE kcall[c].kind = "create" -> "volume" [] kcall[c].kind = "wake" -> "up" [] OTHER -> "down"
                     r == [kcall[c] EXCEPT !.space = Found, !.old = volume[Found], !.step = next]
          <6>1. kcall' = [kcall EXCEPT ![c] = r]
            BY <1>1, <2>6, <3>4, <5>2 DEF Locate
          <6>2. next \in {"volume", "up", "down"}
            OBVIOUS
          <6> HIDE DEF next
          <6>3. /\ r \in KRecord /\ r.kind = kcall[c].kind /\ r.alone = kcall[c].alone
                /\ r.step = next /\ r.space = Found /\ r.old = volume[Found] /\ r.answer = kcall[c].answer
            BY <1>1, <2>1, <3>2, <3>4, <6>2 DEF KRecord
          <6> HIDE DEF r
          <6>4. QED
            BY <6>1, <6>3 DEF next
        <5>3. QED
          BY <5>1, <5>2
      <4>3. KTypeOK'
        BY <1>1, <2>4, <3>1, <3>2, <3>4, <4>1, <4>2 DEF KTypeOK, KRecord
      <4>4. Truth(c)
        BY <2>2, <2>4, <4>2 DEF Truth, CallShape
      <4>5. r.step # "rest" => CallShape(c)' /\ ResetSound(c)' /\ RemoveSound(c)'
        <5>1. CASE r.step # "rest"
          <6>1. volume[Found] <= volumes
            BY <3>2, <3>4 DEF KInv
          <6>2. CallShape(c)'
            BY <2>2, <2>4, <3>2, <3>4, <4>2, <5>1 DEF CallShape
          <6>3. ResetSound(c)'
            BY <2>4, <3>1, <3>2, <3>4, <4>1, <4>2, <5>1, <6>1 DEF ResetSound
          <6>4. RemoveSound(c)'
            BY <2>4, <4>2, <5>1 DEF RemoveSound
          <6>5. QED
            BY <6>2, <6>3, <6>4
        <5>2. QED
          BY <5>1
      <4>6. QED
        BY <2>1, <3>1, <4>2, <4>3, <4>4, <4>5, KCallMoves DEF KInv
    <3>5. QED
      BY <3>3, <3>4
  <2>7. CASE ScaleDown(c) \/ ScaleUp(c)
    <3>1. UNCHANGED <<pod, volume, doomed, volumes, kfaults>>
      BY <2>7 DEF ScaleDown, ScaleUp, Patch
    <3>2. Deployed # {} => Found \in Deployed /\ Found \in Space /\ deployment[Found] # NoDeployment
      BY DEF Found, Deployed
    <3>3. PICK r \in KRecord :
             /\ kcall' = [kcall EXCEPT ![c] = r] /\ r.kind = kcall[c].kind /\ r.alone = kcall[c].alone
             /\ r.space = kcall[c].space /\ r.old = kcall[c].old
             /\ \/ r.step = "rest" /\ r.answer = "failed" /\ UNCHANGED <<deployment, located>>
                \/ /\ Deployed # {} /\ located' = Found
                   /\ \/ /\ kcall[c].kind = "sleep" /\ r.step = "rest" /\ r.answer = "ok"
                         /\ deployment' = [deployment EXCEPT ![Found] = 0]
                      \/ /\ kcall[c].kind = "reset" /\ kcall[c].step = "down" /\ r.step = "gone" /\ r.answer = kcall[c].answer
                         /\ deployment' = [deployment EXCEPT ![Found] = 0]
                      \/ /\ kcall[c].kind \in {"wake", "reset"} /\ kcall[c].step = "up" /\ r.step = "rest" /\ r.answer = "ok"
                         /\ deployment' = [deployment EXCEPT ![Found] = 1]
      <4>1. CASE Deployed = {}
        <5>1. KAnswer(c, "failed") /\ UNCHANGED <<deployment, located>>
          BY <2>7, <4>1 DEF ScaleDown, ScaleUp, Patch
        <5>2. QED
          BY <2>3, <5>1
      <4>2. CASE Deployed # {} /\ ScaleDown(c)
        <5>1. CASE kcall[c].kind = "sleep"
          <6>1. KAnswer(c, "ok") /\ located' = Found /\ deployment' = [deployment EXCEPT ![Found] = 0]
            BY <4>2, <5>1 DEF ScaleDown, Patch
          <6>2. QED
            BY <2>3, <4>2, <5>1, <6>1
        <5>2. CASE kcall[c].kind # "sleep"
          <6>1. /\ To(c, "gone") /\ located' = Found /\ deployment' = [deployment EXCEPT ![Found] = 0]
                /\ kcall[c].kind = "reset" /\ kcall[c].step = "down"
            BY <4>2, <5>2 DEF ScaleDown, Patch, On
          <6>2. QED
            BY <2>3, <4>2, <6>1
        <5>3. QED
          BY <5>1, <5>2
      <4>3. CASE Deployed # {} /\ ScaleUp(c)
        <5>1. /\ KAnswer(c, "ok") /\ located' = Found /\ deployment' = [deployment EXCEPT ![Found] = 1]
              /\ kcall[c].kind \in {"wake", "reset"} /\ kcall[c].step = "up"
          BY <4>3 DEF ScaleUp, Patch, On
        <5>2. QED
          BY <2>3, <4>3, <5>1
      <4>4. QED
        BY <2>7, <4>1, <4>2, <4>3
    <3>4. /\ kcall'[c] = r /\ deployment' \in [Space -> {0, 1, NoDeployment}] /\ located' \in Space \cup {NoSpace}
      BY <1>1, <2>4, <3>2, <3>3
    <3>5. KTypeOK'
      BY <1>1, <2>4, <3>1, <3>3, <3>4 DEF KTypeOK, KRecord
    <3>6. kcall[c].alone /\ kcall[c].kind = "reset" /\ kcall[c].step \in {"down", "up"} /\ Deployed # {} =>
              Found = kcall[c].space /\ kcall[c].space \in Space
      BY <2>2 DEF ResetSound, CallShape, Found, Deployed
    <3>7. Truth(c)
      <4>1. CASE kcall[c].kind = "reset" /\ r.answer = "ok" /\ r.alone
        <5>1. /\ kcall[c].step = "up" /\ deployment' = [deployment EXCEPT ![Found] = 1] /\ Deployed # {}
          BY <2>2, <3>3, <4>1 DEF CallShape
        <5>2. /\ Found = kcall[c].space /\ kcall[c].space \in Space
              /\ volume[kcall[c].space] \notin {0, kcall[c].old} /\ kcall[c].space \notin doomed
          BY <2>2, <3>3, <3>6, <4>1, <5>1 DEF ResetSound
        <5>3. deployment'[kcall[c].space] = 1
          BY <1>1, <5>1, <5>2
        <5>4. QED
          BY <3>1, <3>3, <3>4, <4>1, <5>2, <5>3 DEF Truth
      <4>2. CASE kcall[c].kind # "reset"
        BY <2>2, <3>3, <3>4, <4>2 DEF Truth, CallShape
      <4>3. CASE ~(r.answer = "ok" /\ r.alone)
        BY <3>4, <4>3 DEF Truth
      <4>4. QED
        BY <4>1, <4>2, <4>3
    <3>8. r.step # "rest" => CallShape(c)' /\ (r.alone => ResetSound(c)' /\ RemoveSound(c)')
      <4>1. CASE r.step # "rest"
        <5>1. /\ Deployed # {} /\ located' = Found /\ kcall[c].kind = "reset" /\ kcall[c].step = "down" /\ r.step = "gone"
              /\ r.answer = kcall[c].answer /\ deployment' = [deployment EXCEPT ![Found] = 0]
          BY <3>3, <4>1
        <5>2. CallShape(c)'
          BY <2>2, <3>3, <3>4, <5>1 DEF CallShape
        <5>3. r.alone => ResetSound(c)'
          BY <1>1, <2>2, <3>1, <3>3, <3>4, <3>6, <5>1 DEF ResetSound
        <5>4. RemoveSound(c)'
          BY <3>3, <3>4, <5>1 DEF RemoveSound
        <5>5. QED
          BY <5>2, <5>3, <5>4
      <4>2. QED
        BY <4>1
    <3>9. QED
      BY <2>1, <3>1, <3>3, <3>5, <3>7, <3>8, KCallMoves DEF KInv
  <2>8. CASE DeleteDeployment(c)
    <3>1. PICK r \in KRecord :
             /\ kcall' = [kcall EXCEPT ![c] = r] /\ r.kind = kcall[c].kind /\ r.alone = kcall[c].alone
             /\ r.space = kcall[c].space /\ r.step \in {"wipe", "gone"} /\ r.answer = kcall[c].answer
      <4>1. To(c, IF kcall[c].kind = "purge" THEN "wipe" ELSE "gone")
        BY <2>8 DEF DeleteDeployment
      <4>2. QED
        BY <2>3, <4>1
    <3>2. /\ UNCHANGED <<pod, volume, doomed, located, volumes, kfaults>> /\ kcall[c].kind \in {"remove", "purge"}
          /\ deployment' = [deployment EXCEPT ![kcall[c].space] = NoDeployment] /\ kcall[c].step = "down"
      BY <2>8 DEF DeleteDeployment, On
    <3>3. KTypeOK'
      BY <1>1, <2>4, <3>1, <3>2 DEF KTypeOK, KRecord
    <3>4. Truth(c) /\ CallShape(c)' /\ ResetSound(c)' /\ RemoveSound(c)'
      BY <1>1, <2>2, <2>4, <3>1, <3>2 DEF Truth, CallShape, ResetSound, RemoveSound
    <3>5. QED
      BY <2>1, <3>1, <3>2, <3>3, <3>4, KCallMoves DEF KInv
  <2>9. CASE DeleteVolume(c)
    <3>1. PICK r \in KRecord :
             /\ kcall' = [kcall EXCEPT ![c] = r] /\ r.kind = kcall[c].kind /\ r.alone = kcall[c].alone
             /\ r.space = kcall[c].space /\ r.old = kcall[c].old /\ r.step = "wiped" /\ r.answer = kcall[c].answer
      BY <2>3, <2>9 DEF DeleteVolume
    <3>2. /\ UNCHANGED <<deployment, pod, volume, located, volumes, kfaults>> /\ kcall[c].kind \in {"purge", "reset"}
          /\ kcall[c].step = "wipe" /\ doomed' \subseteq Space /\ \A n \in doomed' : volume[n] # 0
      BY <1>1, <2>2, <2>9 DEF DeleteVolume, On, CallShape
    <3>3. KTypeOK'
      BY <1>1, <2>4, <3>1, <3>2 DEF KTypeOK, KRecord
    <3>4. Truth(c) /\ CallShape(c)' /\ (r.alone => ResetSound(c)' /\ RemoveSound(c)')
      BY <2>2, <2>4, <3>1, <3>2 DEF Truth, CallShape, ResetSound, RemoveSound
    <3>5. QED
      BY <2>1, <3>1, <3>2, <3>3, <3>4, KCallMoves DEF KInv
  <2>10. CASE WaitGone(c)
    <3>1. /\ UNCHANGED <<deployment, pod, volume, doomed, volumes>> /\ located' \in {located, NoSpace}
          /\ kfaults' \in 0..MaxKFaults /\ (PodsGone(c) \/ Misread)
      BY <1>1, <2>10 DEF WaitGone, cluster, PodsSeenGone, KFault, Misread
    <3>2. CASE KAnswer(c, "ok")
      <4>1. PICK r \in KRecord :
               /\ kcall' = [kcall EXCEPT ![c] = r] /\ r.kind = kcall[c].kind /\ r.alone = kcall[c].alone
               /\ r.space = kcall[c].space /\ r.step = "rest"
        BY <2>3, <3>2
      <4>2. KTypeOK'
        BY <1>1, <2>4, <3>1, <4>1 DEF KTypeOK, KRecord
      <4>3. \/ kcall[c].kind = "remove" /\ kcall[c].step = "gone"
            \/ kcall[c].kind = "purge" /\ kcall[c].step = "wiped" /\ VolumeGone(c)
        <5>1. ~To(c, "wipe") /\ ~To(c, "volume")
          BY <2>4, <4>1, <2>3
        <5>2. QED
          BY <2>10, <5>1 DEF WaitGone, On
      <4>4. Truth(c)
        BY <2>2, <2>4, <3>1, <4>1, <4>3 DEF Truth, RemoveSound, PodsGone, VolumeGone
      <4>5. QED
        BY <2>1, <3>1, <4>1, <4>2, <4>4, KCallMoves DEF KInv
    <3>3. CASE ~KAnswer(c, "ok")
      <4>1. /\ UNCHANGED located
            /\ \/ kcall[c].kind = "reset" /\ kcall[c].step = "gone" /\ To(c, "wipe")
               \/ kcall[c].kind = "reset" /\ kcall[c].step = "wiped" /\ VolumeGone(c) /\ To(c, "volume")
        BY <2>10, <3>3 DEF WaitGone, On
      <4>2. PICK r \in KRecord :
               /\ kcall' = [kcall EXCEPT ![c] = r] /\ r.kind = kcall[c].kind /\ r.alone = kcall[c].alone
               /\ r.space = kcall[c].space /\ r.old = kcall[c].old /\ r.answer = kcall[c].answer
               /\ \/ kcall[c].step = "gone" /\ r.step = "wipe"
                  \/ kcall[c].step = "wiped" /\ VolumeGone(c) /\ r.step = "volume"
        BY <2>3, <4>1
      <4>3. KTypeOK'
        BY <1>1, <2>4, <3>1, <4>2 DEF KTypeOK, KRecord
      <4>4. Truth(c) /\ CallShape(c)' /\ (r.alone => ResetSound(c)' /\ RemoveSound(c)')
        BY <2>2, <2>4, <3>1, <4>1, <4>2 DEF Truth, CallShape, ResetSound, RemoveSound, VolumeGone
      <4>5. QED
        BY <2>1, <3>1, <4>2, <4>3, <4>4, KCallMoves DEF KInv
    <3>4. QED
      BY <3>2, <3>3
  <2>11. CASE CreateVolume(c)
    <3>1. PICK r \in KRecord :
             /\ kcall' = [kcall EXCEPT ![c] = r] /\ r.kind = kcall[c].kind /\ r.alone = kcall[c].alone
             /\ r.space = kcall[c].space /\ r.old = kcall[c].old /\ r.answer = kcall[c].answer
             /\ r.step = IF kcall[c].kind = "reset" THEN "up" ELSE "deploy"
      <4>1. To(c, IF kcall[c].kind = "reset" THEN "up" ELSE "deploy")
        BY <2>11 DEF CreateVolume
      <4>2. QED
        BY <2>3, <4>1
    <3>2. UNCHANGED <<deployment, pod, doomed, located, kfaults>> /\ kcall[c].kind \in {"create", "reset"} /\ kcall[c].step = "volume"
      BY <2>11 DEF CreateVolume, On
    <3>3. kcall[c].space \in Space
      BY <2>2, <3>2 DEF CallShape
    <3>4. /\ volumes' \in 0..MaxVolumes /\ volume' \in [Space -> 0..MaxVolumes]
          /\ \A n \in Space : volume'[n] <= volumes' /\ (volume[n] # 0 => volume'[n] = volume[n])
          /\ volume[kcall[c].space] = 0 => volume'[kcall[c].space] = volumes + 1
      <4>1. CASE volume[kcall[c].space] # 0
        <5>1. UNCHANGED <<volume, volumes>>
          BY <2>11, <4>1 DEF CreateVolume
        <5>2. QED
          BY <1>1, <4>1, <5>1 DEF KInv
      <4>2. CASE volume[kcall[c].space] = 0
        <5>1. /\ volumes < MaxVolumes /\ volumes' = volumes + 1
              /\ volume' = [volume EXCEPT ![kcall[c].space] = volumes + 1]
          BY <2>11, <4>2 DEF CreateVolume
        <5>2. \A n \in Space : volume[n] <= volumes /\ volume[n] \in 0..MaxVolumes
          BY <1>1 DEF KInv
        <5>3. QED
          BY <1>1, <3>3, <4>2, <5>1, <5>2
      <4>3. QED
        BY <4>1, <4>2
    <3>5. KTypeOK'
      BY <1>1, <2>4, <3>1, <3>2, <3>4 DEF KTypeOK, KRecord
    <3>6. r.alone => ResetSound(c)'
      <4>1. ASSUME r.alone, r.kind = "reset" PROVE ResetSound(c)'
        <5>1. /\ located = kcall[c].space /\ deployment[kcall[c].space] = 0
              /\ volume[kcall[c].space] = 0 /\ kcall[c].old <= volumes
          BY <2>2, <3>1, <3>2, <4>1 DEF ResetSound
        <5>2. kcall[c].old \in 0..MaxVolumes
          BY <2>1 DEF KRecord
        <5>3. kcall[c].space \notin doomed /\ volume'[kcall[c].space] \notin {0, kcall[c].old} /\ kcall[c].old <= volumes'
          <6>1. volumes' = volumes + 1
            BY <2>11, <5>1 DEF CreateVolume
          <6>2. QED
            BY <1>1, <3>4, <5>1, <5>2, <6>1
        <5>4. QED
          BY <1>1, <2>4, <3>1, <3>2, <4>1, <5>1, <5>3 DEF ResetSound
      <4>2. QED
        BY <2>4, <3>1, <4>1 DEF ResetSound
    <3>7. Truth(c) /\ CallShape(c)' /\ RemoveSound(c)'
      BY <2>2, <2>4, <3>1, <3>2 DEF Truth, CallShape, RemoveSound
    <3>8. QED
      BY <2>1, <3>1, <3>2, <3>4, <3>5, <3>6, <3>7, KCallMoves DEF KInv
  <2>12. CASE CreateDeployment(c)
    <3>1. PICK r \in KRecord :
             /\ kcall' = [kcall EXCEPT ![c] = r] /\ r.kind = kcall[c].kind /\ r.alone = kcall[c].alone
             /\ r.space = kcall[c].space /\ r.step = "rest"
      BY <2>3, <2>12 DEF CreateDeployment
    <3>2. /\ UNCHANGED <<pod, volume, doomed, volumes, kfaults>> /\ kcall[c].kind = "create" /\ located' = kcall[c].space
          /\ deployment' \in [Space -> {0, 1, NoDeployment}] /\ kcall[c].space \in Space
      BY <1>1, <2>2, <2>12 DEF CreateDeployment, On, CallShape
    <3>3. KTypeOK'
      BY <1>1, <2>4, <3>1, <3>2 DEF KTypeOK, KRecord
    <3>4. Truth(c)
      BY <2>4, <3>1, <3>2 DEF Truth
    <3>5. QED
      BY <2>1, <3>1, <3>2, <3>3, <3>4, KCallMoves DEF KInv
  <2>13. QED
    BY <1>5, <2>5, <2>6, <2>7, <2>8, <2>9, <2>10, <2>11, <2>12
<1>6. ASSUME NEW n \in Space, PodChanges(n) \/ VolumeGoes(n) PROVE KInv' /\ kcall' = kcall
  <2>1. UNCHANGED <<deployment, located, volumes, kfaults, kcall>>
    BY <1>6 DEF PodChanges, VolumeGoes
  <2>2. /\ pod' \in [Space -> {"none", "pending", "on"}] /\ doomed' \subseteq doomed
        /\ volume' \in [Space -> 0..MaxVolumes] /\ \A m \in doomed' : volume'[m] # 0
        /\ \A m \in Space : /\ volume'[m] = volume[m] \/ (volume'[m] = 0 /\ m \in doomed)
                            /\ pod[m] = "none" /\ deployment[m] # 1 => pod'[m] = "none"
    BY <1>1, <1>6 DEF PodChanges, VolumeGoes
  <2>3. KTypeOK'
    BY <1>1, <2>1, <2>2 DEF KTypeOK, KRecord
  <2>4. \A m \in Space : volume'[m] <= volumes
    BY <1>1, <2>2 DEF KInv
  <2>5. ASSUME NEW c \in KCall, kcall[c].step # "rest"
        PROVE  CallShape(c)' /\ (kcall[c].alone => Alone(c)' /\ ResetSound(c)' /\ RemoveSound(c)')
    <3>1. CallShape(c) /\ (kcall[c].alone => Alone(c) /\ ResetSound(c) /\ RemoveSound(c))
      BY <2>5 DEF KInv
    <3>2. kcall[c].alone => ResetSound(c)'
      <4>1. kcall[c].kind = "reset" /\ kcall[c].step \in {"down", "gone", "wipe", "wiped", "volume", "up"} => kcall[c].space \in Space
        BY <3>1 DEF CallShape
      <4>2. QED
        BY <1>1, <2>1, <2>2, <3>1, <4>1 DEF ResetSound
    <3>3. QED
      BY <2>1, <3>1, <3>2 DEF CallShape, Alone, RemoveSound
  <2>6. QED
    BY <2>1, <2>3, <2>4, <2>5 DEF KInv
<1>7. QED
  BY <1>3, <1>4, <1>5, <1>6 DEF KNext

LEMMA KOfParts ==
    /\ PartsInit => KInit
    /\ [PartsNext]_partVars => [KNext]_kVars
BY DEF PartsInit, PartsNext, partVars, serverVars, pageVars, linkVars

\* A call of the Kubernetes provider that overlapped no other tells the truth when it
\* answers, of the volume, the Deployment and the pods.
THEOREM KubernetesAnswersTrueCorrect == PartsSpec => KubernetesAnswersTrue
<1>1. KInv /\ [KNext]_kVars => KInv'
  BY KStep
<1>2. KInv /\ [KNext]_kVars => [kcall' # kcall => \A c \in KCall : Truth(c)]_kVars
  BY KStep
<1>3. PartsSpec => []KInv
  BY <1>1, KStarts, KOfParts, PTL DEF PartsSpec
<1>4. KubernetesAnswersTrue <=> [][kcall' # kcall => \A c \in KCall : Truth(c)]_kVars
  BY DEF KubernetesAnswersTrue, Truth
<1>5. QED
  BY <1>2, <1>3, <1>4, KOfParts, PTL DEF PartsSpec

(***************************************************************************)
(* Dialogs of extensions.                                                  *)
(***************************************************************************)

DialogRecord == [state : {"unborn", "waiting", "settled"}, talk : Talk, got : Dialog \cup {NoDialog}]
AskRecord == [dialog : Dialog, typed : Dialog, n : 0..MaxDrafts, how : {"answer", "cancel", "leave"}, reply : Replies]
Born == {d \in Dialog : dialog[d].state # "unborn"}

\* An answer is for the dialog its draft was made for.
AskSound(a) ==
    /\ a.dialog \in Born /\ (a.how = "answer" => a.typed = a.dialog)
    /\ a.reply \in {"ok", "refused"} => ~Waiting(a.dialog)

DialogsInv ==
    /\ DialogsTypeOK
    /\ wire \in Seq(Born) /\ shown \in Born \cup {NoDialog}
    /\ draft # NoDraft => draft.of = shown /\ Visible(shown, view)
    /\ \A a \in asks : AskSound(a)
    /\ \A d \in Dialog : dialog[d].got \in {NoDialog, d}

LEMMA SequenceOfSet ==
    ASSUME NEW S, IsFiniteSet(S)
    PROVE  SetToSeq(S) \in Seq(S)
<1>1. Cardinality(S) \in Nat /\ ExistsBijection(1..Cardinality(S), S)
  BY FS_CardinalityType
<1>2. \E f \in [1..Cardinality(S) -> S] : IsInjective(f)
  BY <1>1 DEF ExistsBijection, Bijection, Injection
<1>3. SetToSeq(S) \in [1..Cardinality(S) -> S]
  BY <1>2 DEF SetToSeq
<1>4. QED
  BY <1>1, <1>3

LEMMA DialogsStarts == DialogsInit => DialogsInv
<1> SUFFICES ASSUME DialogsInit PROVE DialogsInv
  OBVIOUS
<1> USE DialogsAssumption
<1> DEFINE home == CHOOSE t \in Talk : TRUE
<1>1. home \in Talk
  OBVIOUS
<1>2. dialog = [d \in Dialog |-> [state |-> "unborn", talk |-> home, got |-> NoDialog]] /\ view = home
      /\ wire = <<>> /\ shown = NoDialog /\ draft = NoDraft /\ busy = FALSE /\ made = 0 /\ asks = {}
  BY DEF DialogsInit
<1> HIDE DEF home
<1>3. dialog \in [Dialog -> DialogRecord] /\ \A d \in Dialog : dialog[d].got = NoDialog
  BY <1>1, <1>2 DEF DialogRecord
<1>4. draft \in [of : Dialog \cup {NoDialog}, n : 0..MaxDrafts] /\ Len(wire) = 0 /\ wire \in Seq(Dialog) /\ wire \in Seq(Born)
  BY <1>2, EmptySeq DEF NoDraft
<1>5. DialogsTypeOK
  BY <1>1, <1>2, <1>3, <1>4, 0 \in 0..MaxDrafts, 0 <= MaxWire DEF DialogsTypeOK, DialogRecord
<1>6. QED
  BY <1>2, <1>3, <1>4, <1>5 DEF DialogsInv

\* Dialogs are settled, or one is raised: none that was born is waiting again or moves.
LEMMA DialogsMove ==
    ASSUME DialogsInv, UNCHANGED <<shown, view, draft, busy, made>>,
           dialog' \in [Dialog -> DialogRecord], wire' \in Seq(Born'), Len(wire') <= MaxWire, asks' \subseteq AskRecord,
           \A d \in Born : d \in Born' /\ dialog'[d].talk = dialog[d].talk /\ (Waiting(d)' => Waiting(d)),
           \A d \in Dialog : dialog'[d].got \in {NoDialog, d},
           \A a \in asks' : a \in asks \/ AskSound(a)'
    PROVE  DialogsInv'
<1>1. DialogsTypeOK'
  <2>1. Born' \subseteq Dialog
    BY DEF Born
  <2>2. wire' \in Seq(Dialog)
    BY <2>1, SeqMonotonic
  <2>3. QED
    BY <2>2 DEF DialogsInv, DialogsTypeOK, DialogRecord, AskRecord
<1>2. draft' # NoDraft => draft'.of = shown' /\ Visible(shown, view)'
  BY DEF DialogsInv, Visible
<1>3. ASSUME NEW a \in asks' PROVE AskSound(a)'
  BY <1>3 DEF DialogsInv, AskSound
<1>4. QED
  BY <1>1, <1>2, <1>3 DEF DialogsInv

\* What is displayed changes, and with it the draft.
LEMMA DialogsShow ==
    ASSUME DialogsInv, UNCHANGED dialog, wire' \in Seq(Born), Len(wire') <= MaxWire, asks' \subseteq AskRecord,
           shown' \in Born \cup {NoDialog}, view' \in Talk, draft' # NoDraft => draft'.of = shown' /\ Visible(shown', view'),
           draft' \in [of : Dialog \cup {NoDialog}, n : 0..MaxDrafts], busy' \in BOOLEAN, made' \in 0..MaxDrafts,
           \A a \in asks' : a \in asks \/ AskSound(a)
    PROVE  DialogsInv'
<1>1. Born' = Born /\ Born \subseteq Dialog
  BY DEF Born
<1>2. DialogsTypeOK'
  <2>1. wire' \in Seq(Dialog)
    BY <1>1, SeqMonotonic
  <2>2. QED
    BY <1>1, <2>1 DEF DialogsInv, DialogsTypeOK, AskRecord
<1>3. \A a \in asks' : AskSound(a)'
  BY <1>1 DEF DialogsInv, AskSound, Waiting
<1>4. QED
  BY <1>1, <1>2, <1>3 DEF DialogsInv, Visible

\* A rendered draft is of the dialog shown.
LEMMA Rendered ==
    ASSUME DialogsInv, NEW d \in Dialog \cup {NoDialog}, NEW t \in Talk, Render(d, t)
    PROVE  /\ draft' # NoDraft => draft'.of = d /\ Visible(d, t)
           /\ draft' \in [of : Dialog \cup {NoDialog}, n : 0..MaxDrafts] /\ busy' \in BOOLEAN /\ made' \in 0..MaxDrafts
<1> USE DialogsAssumption
<1>1. draft \in [of : Dialog \cup {NoDialog}, n : 0..MaxDrafts] /\ busy \in BOOLEAN /\ made \in 0..MaxDrafts
  BY DEF DialogsInv, DialogsTypeOK
<1>2. CASE ~Visible(d, t)
  <2>1. draft' = NoDraft /\ busy' = FALSE /\ UNCHANGED made
    BY <1>2 DEF Render
  <2>2. NoDraft \in [of : Dialog \cup {NoDialog}, n : 0..MaxDrafts]
    BY 0 \in 0..MaxDrafts DEF NoDraft
  <2>3. QED
    BY <1>1, <2>1, <2>2
<1>3. CASE Visible(d, t) /\ draft.of = d
  BY <1>1, <1>3 DEF Render
<1>4. CASE Visible(d, t) /\ draft.of # d
  <2>1. made < MaxDrafts /\ made' = made + 1 /\ draft' = [of |-> d, n |-> made + 1] /\ busy' = FALSE
    BY <1>4 DEF Render
  <2>2. made + 1 \in 0..MaxDrafts
    BY <1>1, <2>1
  <2>3. QED
    BY <1>4, <2>1, <2>2
<1>5. QED
  BY <1>2, <1>3, <1>4

DialogsStepOK ==
    /\ \A d \in Dialog : dialog'[d].got \in {NoDialog, d}
    /\ Visible(shown, view) /\ shown' = NoDialog /\ view' = view =>
         \/ ~Waiting(shown)
         \/ \E a \in asks \ asks' : a.dialog = shown /\ a.how = "cancel" /\ a.reply = "lost"

LEMMA DialogsStep ==
    ASSUME DialogsInv, [DialogsNext]_dialogVars
    PROVE  DialogsInv' /\ DialogsStepOK
<1> USE DialogsAssumption
<1>1. /\ dialog \in [Dialog -> DialogRecord] /\ \A d \in Dialog : dialog[d] \in DialogRecord
      /\ wire \in Seq(Born) /\ Len(wire) <= MaxWire /\ Len(wire) \in Nat
      /\ shown \in Born \cup {NoDialog} /\ Born \subseteq Dialog /\ view \in Talk
      /\ asks \subseteq AskRecord /\ \A a \in asks : a \in AskRecord /\ AskSound(a)
      /\ draft \in [of : Dialog \cup {NoDialog}, n : 0..MaxDrafts] /\ busy \in BOOLEAN /\ made \in 0..MaxDrafts
      /\ \A d \in Dialog : dialog[d].got \in {NoDialog, d}
  <2>1. wire \in Seq(Born)
    BY DEF DialogsInv
  <2>2. Len(wire) \in Nat
    BY <2>1, LenProperties
  <2>3. QED
    BY <2>1, <2>2 DEF DialogsInv, DialogsTypeOK, DialogRecord, AskRecord, Born
<1>2. ASSUME DialogsInv', Visible(shown, view), shown' # NoDialog \/ view' # view PROVE DialogsStepOK
  BY <1>2 DEF DialogsInv, DialogsStepOK
<1>3. ASSUME DialogsInv', shown' # NoDialog \/ view' # view \/ shown = NoDialog PROVE DialogsStepOK
  BY <1>3 DEF DialogsInv, DialogsStepOK, Visible
<1>4. ASSUME NEW ds \in SUBSET Dialog, NEW got \in Dialog \cup {NoDialog}, FinishDialogs(ds, got)
      PROVE  /\ dialog' \in [Dialog -> DialogRecord]
             /\ Born' = Born
             /\ \A d \in Dialog : /\ dialog'[d].talk = dialog[d].talk /\ (Waiting(d)' => Waiting(d))
                                  /\ d \in ds => ~Waiting(d)'
                                  /\ dialog'[d].got = dialog[d].got \/ (d \in ds /\ dialog'[d].got = got)
  <2>1. ASSUME NEW d \in Dialog
        PROVE  /\ dialog'[d] \in DialogRecord /\ dialog'[d].talk = dialog[d].talk
               /\ (dialog'[d] = dialog[d] /\ (d \in ds => ~Waiting(d))) \/ (d \in ds /\ Waiting(d) /\ dialog'[d].state = "settled" /\ dialog'[d].got = got)
    <3> DEFINE q == [dialog[d] EXCEPT !.state = "settled", !.got = got]
    <3>1. q \in DialogRecord /\ q.state = "settled" /\ q.got = got /\ q.talk = dialog[d].talk
      BY ZenonT(40), <1>1 DEF DialogRecord
    <3>2. dialog'[d] = IF d \in ds /\ Waiting(d) THEN q ELSE dialog[d]
      BY <1>4 DEF FinishDialogs
    <3> HIDE DEF q
    <3>3. QED
      BY <1>1, <3>1, <3>2
  <2>2. dialog' = [d \in Dialog |-> dialog'[d]]
    BY <1>4 DEF FinishDialogs
  <2>3. QED
    BY <2>1, <2>2 DEF Born, Waiting
<1>5. ASSUME NEW ds \in SUBSET Dialog, FinishDialogs(ds, NoDialog), UNCHANGED <<wire, page, asks>> PROVE DialogsInv' /\ DialogsStepOK
  <2>1. /\ dialog' \in [Dialog -> DialogRecord] /\ Born' = Born
        /\ \A d \in Dialog : /\ dialog'[d].talk = dialog[d].talk /\ (Waiting(d)' => Waiting(d))
                             /\ dialog'[d].got \in {NoDialog, d}
    <3>1. NoDialog \in Dialog \cup {NoDialog} /\ FinishDialogs(ds, NoDialog)
      BY <1>5
    <3>2. /\ dialog' \in [Dialog -> DialogRecord] /\ Born' = Born
          /\ \A d \in Dialog : /\ dialog'[d].talk = dialog[d].talk /\ (Waiting(d)' => Waiting(d))
                               /\ dialog'[d].got = dialog[d].got \/ (d \in ds /\ dialog'[d].got = NoDialog)
      BY <1>4, <3>1
    <3>3. QED
      BY <1>1, <3>2
  <2>3. wire' \in Seq(Born') /\ UNCHANGED <<wire, shown, view, draft, busy, made, asks>>
    BY <1>1, <1>5, <2>1 DEF page
  <2>4. DialogsInv'
    BY <1>1, <2>1, <2>3, DialogsMove
  <2>2. shown' = NoDialog => shown = NoDialog
    BY <1>5 DEF page
  <2>5. QED
    BY <1>3, <2>2, <2>4
<1>6. CASE UNCHANGED dialogVars
  <2>1. DialogsInv'
    BY <1>6, <1>1, DialogsMove DEF dialogVars, Born, Waiting
  <2>2. QED
    BY <1>3, <1>6, <2>1 DEF dialogVars
<1>7. ASSUME NEW d \in Dialog, Lapses(d) PROVE DialogsInv' /\ DialogsStepOK
  BY <1>5, <1>7 DEF Lapses
<1>8. ASSUME NEW t \in Talk, EndSession(t) PROVE DialogsInv' /\ DialogsStepOK
  BY <1>5, <1>8 DEF EndSession
<1>9. ASSUME NEW d \in Dialog, NEW t \in Talk, NEW aborted \in BOOLEAN, Raise(d, t, aborted) PROVE DialogsInv' /\ DialogsStepOK
  <2> DEFINE st == IF aborted THEN "settled" ELSE "waiting"
             q == [dialog[d] EXCEPT !.state = st, !.talk = t]
  <2>1. dialog[d].state = "unborn" /\ dialog' = [dialog EXCEPT ![d] = q] /\ UNCHANGED <<shown, view, draft, busy, made, asks>>
        /\ Len(wire') <= MaxWire /\ wire' = wire \o (IF aborted THEN <<>> ELSE <<d>>)
    BY <1>1, <1>9 DEF Raise, page, Emit
  <2>2. q \in DialogRecord /\ q.state # "unborn" /\ q.got = dialog[d].got
    BY <1>1 DEF DialogRecord
  <2> HIDE DEF q
  <2>3. /\ dialog' \in [Dialog -> DialogRecord] /\ Born' = Born \cup {d} /\ d \notin Born
        /\ \A e \in Born : dialog'[e] = dialog[e]
        /\ \A e \in Dialog : dialog'[e].got = dialog[e].got
    BY <1>1, <2>1, <2>2 DEF Born
  <2>4. wire' \in Seq(Born')
    <3>1. wire \in Seq(Born') /\ <<>> \in Seq(Born') /\ <<d>> \in Seq(Born')
      BY <1>1, <2>3, SeqMonotonic, EmptySeq
    <3>2. (IF aborted THEN <<>> ELSE <<d>>) \in Seq(Born')
      BY <3>1
    <3>3. QED
      BY <2>1, <3>1, <3>2, ConcatProperties
  <2>5. DialogsInv'
    BY <1>1, <2>1, <2>3, <2>4, DialogsMove DEF Waiting
  <2>6. QED
    BY <1>3, <2>1, <2>5
<1>10. CASE ReplayPending \/ Disconnect
  <2>1. UNCHANGED <<dialog, shown, view, draft, busy, made, asks>> /\ Born' = Born
    BY <1>10 DEF ReplayPending, Disconnect, page, Born
  <2>2. wire' \in Seq(Born) /\ Len(wire') <= MaxWire
    <3>1. CASE ReplayPending
      <4> DEFINE S == {d \in Dialog : Waiting(d) /\ dialog[d].talk = view}
      <4>1. S \subseteq Born /\ IsFiniteSet(S)
        BY FS_Subset DEF Born, Waiting
      <4>2. wire' = wire \o SetToSeq(S) /\ Len(wire') <= MaxWire
        BY <3>1 DEF ReplayPending, Emit
      <4> HIDE DEF S
      <4>3. SetToSeq(S) \in Seq(Born)
        BY <4>1, SequenceOfSet, SeqMonotonic
      <4>4. QED
        BY <1>1, <4>2, <4>3, ConcatProperties
    <3>2. CASE Disconnect
      <4>1. wire' = <<>>
        BY <3>2 DEF Disconnect
      <4>2. QED
        BY <4>1, EmptySeq
    <3>3. QED
      BY <1>10, <3>1, <3>2
  <2>3. DialogsInv'
    BY <1>1, <2>1, <2>2, DialogsMove DEF Waiting
  <2>4. QED
    BY <1>3, <2>1, <2>3
<1>11. CASE Receive
  <2>1. /\ wire # <<>> /\ wire' = Tail(wire) /\ shown' = Head(wire) /\ Render(Head(wire), view)
        /\ UNCHANGED <<dialog, view, asks>>
    BY <1>11 DEF Receive
  <2>2. Head(wire) \in Born /\ Tail(wire) \in Seq(Born) /\ Len(Tail(wire)) = Len(wire) - 1
    BY <1>1, <2>1, HeadTailProperties
  <2>3. PICK h \in Born : h = Head(wire)
    BY <2>2
  <2>4. Render(h, view) /\ shown' = h
    BY <2>1, <2>3
  <2>5. DialogsInv'
    BY <1>1, <2>1, <2>2, <2>4, Rendered, DialogsShow
  <2>6. QED
    BY <1>1, <1>3, <2>4, <2>5
<1>12. ASSUME NEW how \in {"answer", "cancel"}, SubmitDialog(how) PROVE DialogsInv' /\ DialogsStepOK
  <2> DEFINE a == Ask(shown, draft.of, how)
  <2>1. /\ UNCHANGED <<dialog, wire, shown, view, draft, made>> /\ busy' = TRUE /\ asks' = asks \cup {a}
        /\ Visible(shown, view) /\ draft # NoDraft
    BY <1>12 DEF SubmitDialog, SendAsk
  <2>2. draft.of = shown /\ shown \in Born
    BY <1>1, <2>1 DEF DialogsInv, Visible
  <2>3. a \in AskRecord /\ a.dialog = shown /\ a.typed = shown /\ a.reply = "none"
    BY <1>1, <2>2 DEF Ask, AskRecord, Replies
  <2> HIDE DEF a
  <2>4. AskSound(a)
    BY <2>2, <2>3 DEF AskSound
  <2>5. DialogsInv'
    BY <1>1, <2>1, <2>2, <2>3, <2>4, DialogsShow
  <2>6. QED
    BY <1>1, <1>3, <2>1, <2>5 DEF Visible
<1>13. ASSUME NEW t \in Talk, Select(t) PROVE DialogsInv' /\ DialogsStepOK
  <2>1. t # view /\ view' = t /\ UNCHANGED <<dialog, wire>>
    BY <1>13 DEF Select
  <2>2. CASE shown = NoDialog \/ Visible(shown, t)
    <3>1. Render(shown, t) /\ UNCHANGED <<shown, asks>>
      BY <1>13, <2>2 DEF Select
    <3>2. shown \in Dialog \cup {NoDialog}
      BY <1>1
    <3>3. PICK h \in Born \cup {NoDialog} : h = shown
      BY <1>1
    <3>4. /\ draft' # NoDraft => draft'.of = shown' /\ Visible(shown', view')
          /\ draft' \in [of : Dialog \cup {NoDialog}, n : 0..MaxDrafts] /\ busy' \in BOOLEAN /\ made' \in 0..MaxDrafts
      BY <1>1, <2>1, <3>1, <3>3, Rendered
    <3>5. QED
      BY <1>1, <1>3, <2>1, <3>1, <3>4, DialogsShow
  <2>3. CASE ~(shown = NoDialog \/ Visible(shown, t))
    <3> DEFINE a == Ask(shown, shown, "leave")
    <3>1. shown' = NoDialog /\ asks' = asks \cup {a} /\ Render(NoDialog, t) /\ shown \in Born
      BY <1>1, <1>13, <2>3 DEF Select, SendAsk
    <3>2. a \in AskRecord /\ a.dialog = shown /\ a.typed = shown /\ a.reply = "none"
      BY <1>1, <3>1 DEF Ask, AskRecord, Replies
    <3> HIDE DEF a
    <3>3. AskSound(a)
      BY <3>1, <3>2 DEF AskSound
    <3>4. /\ draft' # NoDraft => draft'.of = shown' /\ Visible(shown', view')
          /\ draft' \in [of : Dialog \cup {NoDialog}, n : 0..MaxDrafts] /\ busy' \in BOOLEAN /\ made' \in 0..MaxDrafts
      BY <2>1, <3>1, Rendered
    <3>5. QED
      BY <1>1, <1>3, <2>1, <3>1, <3>2, <3>3, <3>4, DialogsShow
  <2>4. QED
    BY <2>2, <2>3
<1>14. ASSUME NEW a \in asks, Arrives(a) PROVE DialogsInv' /\ DialogsStepOK
  <2>1. PICK loss \in {"none", "request", "reply"} :
        /\ IF loss = "request" THEN UNCHANGED dialog
           ELSE FinishDialogs({a.dialog}, IF a.how = "answer" THEN a.typed ELSE NoDialog)
        /\ asks' = (asks \ {a}) \cup {[a EXCEPT !.reply =
               IF loss # "none" THEN "lost" ELSE IF Waiting(a.dialog) THEN "ok" ELSE "refused"]}
    BY <1>14 DEF Arrives
  <2> DEFINE result == IF loss # "none" THEN "lost" ELSE IF Waiting(a.dialog) THEN "ok" ELSE "refused"
             b == [a EXCEPT !.reply = result]
             got == IF a.how = "answer" THEN a.typed ELSE NoDialog
  <2>2. UNCHANGED <<wire, shown, view, draft, busy, made>>
    BY <1>14 DEF Arrives, page
  <2>3. a \in AskRecord /\ a.dialog \in Born /\ (a.how = "answer" => a.typed = a.dialog) /\ a.typed \in Dialog
    BY <1>1 DEF AskSound, AskRecord
  <2>4. result \in {"ok", "refused", "lost"} /\ (result # "lost" => loss = "none")
    OBVIOUS
  <2>5. asks' = (asks \ {a}) \cup {b}
    BY <2>1
  <2> HIDE DEF result
  <2>6. b \in AskRecord /\ b.dialog = a.dialog /\ b.how = a.how /\ b.typed = a.typed /\ b.reply = result
    BY <2>3, <2>4 DEF AskRecord, Replies
  <2> HIDE DEF b
  <2>13. PICK e \in AskRecord : e = b
    BY <2>6
  <2>7. got \in Dialog \cup {NoDialog} /\ got \in {NoDialog, a.dialog}
    BY <2>3
  <2>8. /\ dialog' \in [Dialog -> DialogRecord] /\ Born' = Born
        /\ \A d \in Dialog : /\ dialog'[d].talk = dialog[d].talk /\ (Waiting(d)' => Waiting(d))
                             /\ dialog'[d].got \in {NoDialog, d}
        /\ loss # "request" => ~Waiting(a.dialog)'
    <3>1. CASE loss = "request"
      <4>1. UNCHANGED dialog
        BY <2>1, <3>1
      <4>2. QED
        BY <1>1, <3>1, <4>1 DEF Born, Waiting
    <3>2. CASE loss # "request"
      <4>1. FinishDialogs({a.dialog}, got)
        BY <2>1, <3>2
      <4>2. {a.dialog} \in SUBSET Dialog
        BY <1>1, <2>3
      <4> HIDE DEF got
      <4>3. /\ dialog' \in [Dialog -> DialogRecord]
            /\ Born' = Born
            /\ \A d \in Dialog : /\ dialog'[d].talk = dialog[d].talk /\ (Waiting(d)' => Waiting(d))
                                 /\ d \in {a.dialog} => ~Waiting(d)'
                                 /\ dialog'[d].got = dialog[d].got \/ (d \in {a.dialog} /\ dialog'[d].got = got)
        BY <1>4, <2>7, <4>1, <4>2
      <4>4. QED
        BY <1>1, <2>3, <2>7, <4>3
    <3>3. QED
      BY <3>1, <3>2
  <2>9. AskSound(e)' /\ asks' = (asks \ {a}) \cup {e}
    BY <2>3, <2>4, <2>5, <2>6, <2>8, <2>13 DEF AskSound
  <2>10. wire' \in Seq(Born')
    BY <1>1, <2>2, <2>8
  <2>11. DialogsInv'
    BY <1>1, <2>2, <2>8, <2>9, <2>10, DialogsMove
  <2>12. QED
    BY <1>3, <2>2, <2>11
<1>15. ASSUME NEW a \in asks, Replied(a) PROVE DialogsInv' /\ DialogsStepOK
  <2>1. asks' = asks \ {a} /\ a.reply # "none" /\ UNCHANGED <<dialog, wire, view, made>>
    BY <1>15 DEF Replied
  <2>2. CASE a.how = "leave" \/ ~Owns(a) \/ (a.how = "answer" /\ a.reply # "ok")
    <3>1. UNCHANGED <<shown, draft>> /\ busy' \in BOOLEAN
      BY <1>1, <1>15, <2>2 DEF Replied
    <3>2. DialogsInv'
      BY <1>1, <2>1, <3>1, DialogsShow DEF DialogsInv
    <3>3. QED
      BY <1>3, <3>1, <3>2
  <2>3. CASE ~(a.how = "leave" \/ ~Owns(a) \/ (a.how = "answer" /\ a.reply # "ok"))
    <3>1. shown' = NoDialog /\ draft' = NoDraft /\ busy' = FALSE
      BY <1>15, <2>3 DEF Replied
    <3>2. draft' \in [of : Dialog \cup {NoDialog}, n : 0..MaxDrafts]
      BY <3>1 DEF NoDraft
    <3>3. DialogsInv'
      BY <1>1, <2>1, <3>1, <3>2, DialogsShow
    <3>4. shown = a.dialog /\ a.reply \in Replies /\ a.how \in {"answer", "cancel"}
      BY <1>1, <2>3 DEF Owns, AskRecord
    <3>5. ~Waiting(shown) \/ (a \in asks \ asks' /\ a.how = "cancel" /\ a.reply = "lost")
      BY <1>1, <2>1, <2>3, <3>4 DEF AskSound, Replies
    <3>6. QED
      BY <3>3, <3>4, <3>5 DEF DialogsStepOK, DialogsInv
  <2>4. QED
    BY <2>2, <2>3
<1>16. QED
  BY <1>6, <1>7, <1>8, <1>9, <1>10, <1>11, <1>12, <1>13, <1>14, <1>15 DEF DialogsNext

LEMMA DialogsOfParts ==
    /\ PartsInit => DialogsInit
    /\ [PartsNext]_partVars => [DialogsNext]_dialogVars
BY DEF PartsInit, PartsNext, partVars, serverVars, pageVars, linkVars

\* A dialog never gets what was typed for another one, and a late reply never closes the
\* dialog that took the place of the one it answers.
THEOREM DialogsKeptCorrect == PartsSpec => DialogsKept
<1>1. DialogsInv /\ [DialogsNext]_dialogVars => DialogsInv'
  BY DialogsStep
<1>2. DialogsInv /\ [DialogsNext]_dialogVars => [DialogsStepOK]_dialogVars
  BY DialogsStep
<1>3. PartsSpec => []DialogsInv
  BY <1>1, DialogsStarts, DialogsOfParts, PTL DEF PartsSpec
<1>4. DialogsKept <=> [][DialogsStepOK]_dialogVars
  BY DEF DialogsKept, DialogsStepOK
<1>5. QED
  BY <1>2, <1>3, <1>4, DialogsOfParts, PTL DEF PartsSpec

(***************************************************************************)
(* Hooks.                                                                  *)
(***************************************************************************)

PanelOf == [status : {"none", "running", "success", "error"}, events : Seq(Entries)]
HookRecord == [at : {"idle", "begun", "running"} \cup Over, stop : Reasons, ok : BOOLEAN]
Verdict == IF hook.ok THEN "success" ELSE "error"

\* All is told: what the page has of a hook that is over.
AllTold(given) ==
    \/ given.events = Kept(logged)
    \/ /\ reply = "lost" \/ (reply = "got" /\ hook.at = "refused")
       /\ given.events = Latest(Append(Kept(logged), Client))

\* What the server knows of the hook.
RunSound ==
    /\ hook.ok /\ hook.at \in Over => hook.stop = "none"
    /\ hook.stop # "none" => killer \/ (hook.at \in Over /\ procs = {})
    /\ hook.at \notin {"running", "settled"} => procs = {} /\ ~killer /\ ~hook.ok /\ hook.stop = "none"
    /\ hook.at \in Over => reply \in {"sent", "got", "lost"}
    /\ hook.at \notin Over => reply \in {"none", "asked", "lost"} /\ ~cutOff
    /\ hook.at # "idle" => reply # "none"

\* What the page knows of it.
PageSound ==
    /\ panel.status = "success" => hook.ok /\ hook.at = "settled"
    /\ reply \in {"got", "lost"} => panel.status # "running"
    /\ reply = "got" => panel.status = Verdict
    /\ hook.at \in Concluded /\ stream = <<>> /\ ~cutOff => AllTold(panel)

\* The verdict comes last, and with the number of all that was logged.
StreamSound ==
    \A i \in DOMAIN stream :
        /\ stream[i].kind = "complete" <=> (i = Len(stream) /\ hook.at \in Concluded)
        /\ stream[i].kind = "complete" => stream[i].n = logged /\ stream[i].ok = hook.ok

\* At most four of what is logged are no outputs.
LoggedBy(at) == IF at = "idle" THEN 0 ELSE IF at = "begun" THEN 1 ELSE IF at = "running" THEN 2 ELSE 4
LoggedSound ==
    /\ panel \in PanelOf /\ Len(panel.events) <= MaxKept
    /\ stream \in Seq(OpMessage)
    /\ logged \in Nat /\ outputs \in 0..MaxOutputs
    /\ logged <= outputs + LoggedBy(hook.at)

HookTypes ==
    /\ hook \in HookRecord
    /\ procs \subseteq Holding \cup {"daemon"} /\ killer \in BOOLEAN
    /\ reply \in {"none", "asked", "sent", "got", "lost"}
    /\ cuts \in 0..MaxCuts /\ cutOff \in BOOLEAN

HooksInv ==
    /\ HookTypes /\ LoggedSound
    /\ RunSound /\ PageSound /\ StreamSound

LEMMA LatestKept ==
    ASSUME NEW s \in Seq(Entries)
    PROVE  Latest(s) \in Seq(Entries) /\ Len(Latest(s)) <= MaxKept
<1> USE OperationsAssumption DEF HookRecord, LoggedBy, Over, Concluded
<1> DEFINE from == IF Len(s) > MaxKept THEN Len(s) - MaxKept + 1 ELSE 1
<1>1. Len(s) \in Nat /\ MaxKept \in Nat /\ from \in 1..(Len(s) + 1)
  BY LenProperties
<1>2. SubSeq(s, from, Len(s)) \in Seq(Entries)
      /\ Len(SubSeq(s, from, Len(s))) = IF from <= Len(s) THEN Len(s) - from + 1 ELSE 0
  <2>1. \A i \in from..Len(s) : s[i] \in Entries
    BY <1>1, ElementOfSeq
  <2>2. QED
    BY <1>1, <2>1, SubSeqProperties
<1>3. QED
  BY <1>1, <1>2 DEF Latest

LEMMA KeptNumbers == ASSUME NEW n \in Entries PROVE Kept(n) \in Seq(Entries) /\ Len(Kept(n)) <= MaxKept
<1> USE OperationsAssumption DEF HookRecord, LoggedBy, Over, Concluded
<1>1. [i \in 1..n |-> i] \in Seq(Entries)
  <2>1. n \in Nat /\ \A i \in 1..n : i \in Entries
    BY DEF Entries
  <2>2. QED
    BY <2>1
<1>2. QED
  BY <1>1, LatestKept DEF Kept

LEMMA LoggedEvents ==
    ASSUME NEW k \in Nat, logged \in Entries, logged + k \in Entries
    PROVE  /\ Logged(k) \in Seq(OpMessage) /\ Len(Logged(k)) = k
           /\ \A i \in 1..k : Logged(k)[i].kind = "log"
<1> USE OperationsAssumption DEF HookRecord, LoggedBy, Over, Concluded
<1>1. \A i \in 1..k : [kind |-> "log", n |-> logged + i] \in OpMessage
  BY DEF OpMessage, Entries
<1>2. QED
  BY <1>1 DEF Logged

LEMMA HooksTyped == HooksInv => OperationsTypeOK
<1> SUFFICES ASSUME HooksInv PROVE OperationsTypeOK
  OBVIOUS
<1> USE DEF HookRecord, LoggedBy, Over, Concluded
<1>1. /\ panel.status \in {"none", "running", "success", "error"} /\ panel.events \in Seq(Entries)
      /\ stream \in Seq(OpMessage) /\ Len(panel.events) <= MaxKept
  BY DEF HooksInv, LoggedSound, PanelOf
<1>2. /\ \A i \in DOMAIN panel.events : panel.events[i] \in Entries
      /\ \A i \in DOMAIN stream : stream[i] \in OpMessage
  BY <1>1
<1>3. logged \in Entries
  BY OperationsAssumption DEF HooksInv, LoggedSound, Entries
<1>4. QED
  BY <1>1, <1>2, <1>3 DEF HooksInv, HookTypes, LoggedSound, OperationsTypeOK

LEMMA HooksStart == OpInit => HooksInv
<1> SUFFICES ASSUME OpInit PROVE HooksInv
  OBVIOUS
<1> USE OperationsAssumption DEF HookRecord, LoggedBy, Over, Concluded
<1>1. /\ hook.at = "idle" /\ hook.stop = "none" /\ hook.ok = FALSE /\ stream = <<>> /\ panel.status = "none"
      /\ DOMAIN stream = {} /\ Len(panel.events) = 0 /\ reply = "none" /\ procs = {} /\ killer = FALSE
      /\ cutOff = FALSE
  BY DEF OpInit
<1>2. HookTypes
  <2>1. killer \in BOOLEAN /\ cutOff \in BOOLEAN
    BY Zenon DEF OpInit
  <2>2. hook \in HookRecord
    BY DEF OpInit, Reasons
  <2>3. procs \subseteq Holding \cup {"daemon"} /\ reply \in {"none", "asked", "sent", "got", "lost"} /\ cuts \in 0..MaxCuts
    BY DEF OpInit
  <2>4. QED
    BY <2>1, <2>2, <2>3 DEF HookTypes
<1>3. LoggedSound
  <2>1. panel \in PanelOf
    BY DEF OpInit, PanelOf
  <2>2. QED
    BY <1>1, <2>1 DEF OpInit, LoggedSound
<1>4. QED
  BY <1>1, <1>2, <1>3 DEF HooksInv, RunSound, PageSound, StreamSound


\* What the server logs is no verdict.
LEMMA LogGrows ==
    ASSUME HooksInv, NEW k \in Nat, Log(k), hook.at \notin Over, hook'.at \notin Over,
           logged + k <= MaxOutputs + 4
    PROVE  stream' \in Seq(OpMessage) /\ logged' = logged + k /\ logged' \in Nat /\ StreamSound'
<1> USE OperationsAssumption DEF HookRecord, LoggedBy, Over, Concluded
<1>1. /\ stream \in Seq(OpMessage) /\ logged \in Nat /\ stream' = stream \o Logged(k) /\ logged' = logged + k
      /\ logged \in Entries /\ logged + k \in Entries
  BY DEF HooksInv, LoggedSound, Log, Entries
<1>2. /\ Logged(k) \in Seq(OpMessage) /\ Len(Logged(k)) = k
      /\ \A i \in 1..k : Logged(k)[i].kind = "log"
  BY <1>1, LoggedEvents
<1>3. /\ stream' \in Seq(OpMessage) /\ DOMAIN stream' = 1..(Len(stream) + k)
      /\ \A i \in 1..(Len(stream) + k) :
            stream'[i] = IF i <= Len(stream) THEN stream[i] ELSE Logged(k)[i - Len(stream)]
  BY <1>1, <1>2, ConcatProperties
<1>4. \A i \in DOMAIN stream' : stream'[i].kind # "complete"
  <2> SUFFICES ASSUME NEW i \in 1..(Len(stream) + k) PROVE stream'[i].kind # "complete"
    BY <1>3
  <2>0. Len(stream) \in Nat /\ i \in Int
    BY <1>1, LenProperties
  <2>1. CASE i <= Len(stream)
    BY <1>1, <1>3, <2>1 DEF HooksInv, StreamSound
  <2>2. CASE i > Len(stream)
    <3>1. i - Len(stream) \in 1..k
      BY <1>1, <2>2
    <3>2. QED
      BY <1>1, <1>2, <1>3, <2>2, <3>1
  <2>3. QED
    BY <2>0, <2>1, <2>2
<1>5. ASSUME NEW i \in DOMAIN stream'
      PROVE  /\ (stream'[i].kind = "complete") <=> (i = Len(stream') /\ hook'.at \in Concluded)
             /\ stream'[i].kind = "complete" => stream'[i].n = logged' /\ stream'[i].ok = hook'.ok
  BY <1>4
<1>6. StreamSound'
  BY <1>5 DEF StreamSound
<1>7. QED
  BY <1>1, <1>3, <1>6

\* The verdict is told once, after all else, in the stream and to whom it answers.
LEMMA VerdictTold ==
    ASSUME HooksInv, NEW k \in Nat, NEW ok \in BOOLEAN, Completes(k, ok), hook.at \notin Over,
           hook'.at \in Concluded, hook'.ok = ok, logged + k <= MaxOutputs + 4
    PROVE  /\ stream' \in Seq(OpMessage) /\ stream' # <<>> /\ logged' = logged + k /\ logged' \in Nat
           /\ StreamSound'
           /\ reply' \in {"none", "sent", "lost"} /\ (reply' = "none" => reply = "none")
           /\ reply' = "lost" <=> reply = "lost"
<1> USE OperationsAssumption DEF HookRecord, LoggedBy, Over, Concluded
<1> DEFINE m == [kind |-> "complete", n |-> logged + k, ok |-> ok]
           before == stream \o Logged(k)
<1>1. /\ stream \in Seq(OpMessage) /\ logged \in Nat /\ stream' = before \o <<m>> /\ logged' = logged + k
      /\ logged \in Entries /\ logged + k \in Entries /\ m \in OpMessage
      /\ reply' = IF reply = "asked" THEN "sent" ELSE reply
      /\ reply \in {"none", "asked", "lost"}
  BY DEF HooksInv, LoggedSound, RunSound, Completes, HookReply, Entries, OpMessage
<1>2. /\ Logged(k) \in Seq(OpMessage) /\ Len(Logged(k)) = k
      /\ \A i \in 1..k : Logged(k)[i].kind = "log"
  BY <1>1, LoggedEvents
<1>3. /\ before \in Seq(OpMessage) /\ Len(before) = Len(stream) + k
      /\ \A i \in 1..(Len(stream) + k) :
            before[i] = IF i <= Len(stream) THEN stream[i] ELSE Logged(k)[i - Len(stream)]
  <2>1. stream \in Seq(OpMessage) /\ Logged(k) \in Seq(OpMessage)
    BY <1>1, <1>2
  <2>2. /\ before \in Seq(OpMessage) /\ Len(before) = Len(stream) + Len(Logged(k))
        /\ \A i \in 1..(Len(stream) + Len(Logged(k))) :
              before[i] = IF i <= Len(stream) THEN stream[i] ELSE Logged(k)[i - Len(stream)]
    BY <2>1, ConcatProperties
  <2> HIDE DEF before, m
  <2>3. QED
    BY <1>2, <2>2
<1> HIDE DEF before, m
<1>4. \A i \in 1..(Len(stream) + k) : before[i].kind # "complete"
  <2> SUFFICES ASSUME NEW i \in 1..(Len(stream) + k) PROVE before[i].kind # "complete"
    OBVIOUS
  <2>0. Len(stream) \in Nat /\ i \in Int
    BY <1>1, LenProperties
  <2>1. CASE i <= Len(stream)
    <3>1. before[i] = stream[i] /\ i \in DOMAIN stream
      BY <1>1, <1>3, <2>0, <2>1, LenProperties
    <3>2. QED
      BY <3>1 DEF HooksInv, StreamSound
  <2>2. CASE i > Len(stream)
    <3>1. i - Len(stream) \in 1..k
      BY <2>0, <2>2
    <3>2. before[i] = Logged(k)[i - Len(stream)]
      BY <1>3, <2>0, <2>2
    <3>3. QED
      BY <1>2, <3>1, <3>2
  <2>3. QED
    BY <2>0, <2>1, <2>2
<1>5. /\ stream' \in Seq(OpMessage) /\ Len(stream') = Len(before) + 1 /\ DOMAIN stream' = 1..(Len(before) + 1)
      /\ \A i \in 1..Len(before) : stream'[i] = before[i]
      /\ stream'[Len(before) + 1] = m
  <2>1. <<m>> \in Seq(OpMessage) /\ Len(<<m>>) = 1 /\ <<m>>[1] = m /\ Len(before) \in Nat
    BY <1>1, <1>3, LenProperties
  <2>2. /\ before \o <<m>> \in Seq(OpMessage) /\ Len(before \o <<m>>) = Len(before) + Len(<<m>>)
        /\ \A i \in 1..(Len(before) + Len(<<m>>)) :
              (before \o <<m>>)[i] = IF i <= Len(before) THEN before[i] ELSE <<m>>[i - Len(before)]
    BY <1>3, <2>1, ConcatProperties
  <2>3. DOMAIN stream' = 1..Len(stream')
    BY <1>1, <2>2, LenProperties
  <2>4. QED
    BY <1>1, <2>1, <2>2, <2>3
<1>6. StreamSound'
  <2>0. Len(before) \in Nat /\ Len(before) = Len(stream) + k
    BY <1>3, LenProperties
  <2>1. ASSUME NEW i \in DOMAIN stream'
        PROVE  /\ (stream'[i].kind = "complete") <=> (i = Len(stream') /\ hook'.at \in Concluded)
               /\ stream'[i].kind = "complete" => stream'[i].n = logged' /\ stream'[i].ok = hook'.ok
    <3>1. CASE i \in 1..Len(before)
      <4>1. stream'[i].kind # "complete" /\ i # Len(stream')
        BY <1>4, <1>5, <2>0, <3>1
      <4>2. QED
        BY <4>1
    <3>2. CASE i = Len(before) + 1
      <4>1. stream'[i] = m /\ i = Len(stream')
        BY <1>5, <3>2
      <4>2. m.kind = "complete" /\ m.n = logged' /\ m.ok = hook'.ok
        BY <1>1 DEF m
      <4>3. QED
        BY <4>1, <4>2
    <3>3. QED
      BY <1>5, <2>0, <3>1, <3>2
  <2>2. QED
    BY <2>1 DEF StreamSound
<1>7. QED
  BY <1>1, <1>5, <1>6


LEMMA HooksKnown ==
    ASSUME HooksInv
    PROVE  /\ HookTypes /\ LoggedSound /\ RunSound /\ PageSound /\ StreamSound
           /\ hook \in HookRecord
           /\ procs \subseteq Holding \cup {"daemon"} /\ killer \in BOOLEAN /\ cutOff \in BOOLEAN
           /\ reply \in {"none", "asked", "sent", "got", "lost"} /\ cuts \in 0..MaxCuts
           /\ panel \in PanelOf /\ panel.events \in Seq(Entries)
           /\ Len(panel.events) <= MaxKept /\ stream \in Seq(OpMessage)
           /\ logged \in Nat /\ outputs \in 0..MaxOutputs /\ logged \in Entries
BY OperationsAssumption DEF HooksInv, HookTypes, LoggedSound, LoggedBy, PanelOf, Entries

\* The page is told, or asks, and the server's state stays.
LEMMA PageSteps ==
    ASSUME HooksInv, Press \/ StreamDelivers \/ StreamBreaks \/ ReplyArrives \/ ReplyLost
    PROVE  HooksInv'
<1> USE OperationsAssumption DEF HookRecord, LoggedBy, Over, Concluded
<1>0. /\ UNCHANGED <<hook, procs, killer, logged, outputs>>
      /\ Client \in Entries
  BY DEF Press, StreamDelivers, StreamBreaks, ReplyArrives, ReplyLost, Client, Entries
<1>1. ASSUME reply' \in {"none", "asked", "sent", "got", "lost"}, cuts' \in 0..MaxCuts, cutOff' \in BOOLEAN,
             panel' \in PanelOf, Len(panel'.events) <= MaxKept, stream' \in Seq(OpMessage),
             hook.at \in Over => reply' \in {"sent", "got", "lost"},
             hook.at # "idle" => reply' # "none",
             hook.at \notin Over => reply' \in {"none", "asked", "lost"} /\ ~cutOff',
             reply' = "none" => reply = "none",
             PageSound', StreamSound'
      PROVE  HooksInv'
  <2>1. HookTypes'
    BY <1>0, <1>1, HooksKnown DEF HookTypes
  <2>2. LoggedSound'
    BY <1>0, <1>1, HooksKnown DEF LoggedSound, LoggedBy
  <2>3. RunSound'
    BY <1>0, <1>1, HooksKnown DEF RunSound
  <2>4. QED
    BY <1>1, <2>1, <2>2, <2>3 DEF HooksInv
<1>2. ASSUME NEW n \in Entries, NEW ok \in BOOLEAN
      PROVE  /\ Completed(n, ok) \in PanelOf /\ Len(Completed(n, ok).events) <= MaxKept
             /\ Completed(n, ok).events = Kept(n) /\ Completed(n, ok).status = (IF ok THEN "success" ELSE "error")
  BY KeptNumbers DEF Completed, PanelOf
<1>3. CASE Press
  <2>1. /\ panel' = [status |-> "running", events |-> <<Client>>] /\ reply' = "asked" /\ reply = "none"
        /\ UNCHANGED <<hook, stream, cuts, cutOff, logged>>
    BY <1>3 DEF Press
  <2>2. panel' \in PanelOf /\ panel'.status = "running" /\ Len(panel'.events) <= MaxKept
    BY <1>0, <2>1 DEF PanelOf
  <2>3. hook.at \notin Over
    BY <2>1, HooksKnown DEF RunSound
  <2>4. PageSound' /\ StreamSound'
    BY <2>1, <2>2, <2>3, HooksKnown DEF PageSound, StreamSound
  <2>5. QED
    BY <1>1, <2>1, <2>2, <2>3, <2>4, HooksKnown DEF RunSound
<1>4. CASE StreamDelivers
  <2> DEFINE m == Head(stream)
  <2>1. /\ stream # <<>> /\ stream' = Tail(stream)
        /\ panel' = IF m.kind = "log" THEN Noted(m.n) ELSE Completed(m.n, m.ok)
        /\ UNCHANGED <<hook, procs, killer, logged, reply, outputs, cuts, cutOff>>
    BY <1>4 DEF StreamDelivers
  <2>2. /\ m \in OpMessage /\ stream' \in Seq(OpMessage) /\ Len(stream') = Len(stream) - 1
        /\ \A i \in 1..Len(stream') : stream'[i] = stream[i + 1]
        /\ Len(stream) \in Nat \ {0} /\ DOMAIN stream' = 1..Len(stream') /\ DOMAIN stream = 1..Len(stream)
    BY <2>1, HooksKnown, HeadTailProperties, LenProperties, EmptySeq
  <2>3. m = stream[1]
    BY <2>1, HooksKnown
  <2>4. StreamSound'
    BY <2>1, <2>2, HooksKnown DEF StreamSound
  <2>5. m.n \in Entries /\ (m.kind = "log" \/ (m.kind = "complete" /\ m.ok \in BOOLEAN))
    BY <2>2 DEF OpMessage
  <2> HIDE DEF m
  <2>6. CASE m.kind = "log"
    <3>1. panel' = [panel EXCEPT !.events = Latest(Append(@, m.n))]
      BY <2>1, <2>6 DEF Noted
    <3>2. Append(panel.events, m.n) \in Seq(Entries)
      BY <2>5, HooksKnown, AppendProperties
    <3>3. panel' \in PanelOf /\ Len(panel'.events) <= MaxKept /\ panel'.status = panel.status
      BY <3>1, <3>2, LatestKept, HooksKnown DEF PanelOf
    <3>4. ~(hook.at \in Concluded /\ stream' = <<>>)
      BY <2>2, <2>3, <2>6, HooksKnown DEF StreamSound
    <3>5. PageSound'
      BY <2>1, <3>3, <3>4, HooksKnown DEF PageSound, Verdict
    <3>6. QED
      BY <1>1, <2>1, <2>2, <2>4, <3>3, <3>5, HooksKnown DEF RunSound
  <2>7. CASE m.kind = "complete"
    <3>1. panel' = Completed(m.n, m.ok)
      BY <2>1, <2>7
    <3>2. m.n = logged /\ m.ok = hook.ok /\ hook.at \in Concluded
      <4>1. 1 \in DOMAIN stream /\ stream[1].kind = "complete"
        BY <2>2, <2>3, <2>7
      <4>2. /\ stream[1].kind = "complete" => 1 = Len(stream) /\ hook.at \in Concluded
            /\ stream[1].kind = "complete" => stream[1].n = logged /\ stream[1].ok = hook.ok
        BY <4>1, HooksKnown DEF StreamSound
      <4>3. QED
        BY <2>3, <4>1, <4>2
    <3>3. /\ panel' \in PanelOf /\ Len(panel'.events) <= MaxKept
          /\ panel'.events = Kept(logged) /\ panel'.status = Verdict
      BY <1>2, <2>5, <2>7, <3>1, <3>2, HooksKnown DEF Verdict
    <3>4. PageSound'
      BY <2>1, <3>2, <3>3, HooksKnown DEF PageSound, RunSound, Verdict, AllTold
    <3>5. QED
      BY <1>1, <2>1, <2>2, <2>4, <3>3, <3>4, HooksKnown DEF RunSound
  <2>8. QED
    BY <2>5, <2>6, <2>7
<1>5. CASE StreamBreaks
  <2>1. /\ stream # <<>> /\ stream' = <<>> /\ cuts < MaxCuts /\ cuts' = cuts + 1
        /\ cutOff' = (cutOff \/ Last(stream).kind = "complete")
        /\ UNCHANGED <<hook, procs, killer, logged, reply, panel, outputs>>
    BY <1>5 DEF StreamBreaks
  <2>2. Len(stream) \in Nat \ {0} /\ DOMAIN stream = 1..Len(stream)
    BY <2>1, HooksKnown, LenProperties, EmptySeq
  <2>3. Last(stream).kind = "complete" <=> hook.at \in Concluded
    BY <2>2, HooksKnown DEF StreamSound, Last
  <2>4. cuts' \in 0..MaxCuts /\ stream' \in Seq(OpMessage) /\ cutOff' \in BOOLEAN
    BY <2>1, HooksKnown
  <2>5. PageSound' /\ StreamSound'
    <3>1. hook.at \in Concluded => cutOff'
      BY <2>1, <2>3, Zenon
    <3>2. PageSound'
      BY <2>1, <3>1, HooksKnown DEF PageSound, Verdict
    <3>3. DOMAIN stream' = {}
      BY <2>1
    <3>4. QED
      BY <3>2, <3>3 DEF StreamSound
  <2>6. QED
    BY <1>1, <2>1, <2>3, <2>4, <2>5, HooksKnown DEF RunSound
<1>6. CASE ReplyArrives
  <2>1. /\ reply = "sent" /\ reply' = "got" /\ panel' = HookAnswer
        /\ UNCHANGED <<hook, procs, killer, logged, stream, outputs, cuts, cutOff>>
    BY <1>6 DEF ReplyArrives
  <2>2. hook.at \in Over
    BY <2>1, HooksKnown DEF RunSound
  <2>3. /\ panel' \in PanelOf /\ Len(panel'.events) <= MaxKept
        /\ panel'.status = Verdict
        /\ hook.at = "settled" => panel'.events = Kept(logged)
        /\ hook.at = "refused" => panel'.events = Latest(Append(Kept(logged), Client))
    <3>1. CASE hook.at = "settled"
      BY <1>2, <2>1, <3>1, HooksKnown DEF Verdict, HookAnswer
    <3>2. ASSUME NEW from \in Seq(Entries)
          PROVE  /\ [status |-> "error", events |-> Latest(Append(from, Client))] \in PanelOf
                 /\ Len(Latest(Append(from, Client))) <= MaxKept
      BY <1>0, AppendProperties, LatestKept DEF PanelOf
    <3>3. CASE hook.at = "refused"
      <4>1. panel' = [status |-> "error", events |-> Latest(Append(Kept(logged), Client))] /\ ~hook.ok
        BY <2>1, <3>3, HooksKnown DEF HookAnswer, RunSound
      <4>2. Kept(logged) \in Seq(Entries)
        BY KeptNumbers, HooksKnown
      <4>3. QED
        BY <3>2, <3>3, <4>1, <4>2 DEF Verdict
    <3>4. CASE hook.at = "thrown"
      <4>1. panel' = [status |-> "error", events |-> Latest(Append(panel.events, Client))] /\ ~hook.ok
        BY <2>1, <3>4, HooksKnown DEF HookAnswer, Failed, RunSound
      <4>2. QED
        BY <3>2, <3>4, <4>1, HooksKnown DEF Verdict
    <3>5. QED
      BY <2>2, <3>1, <3>3, <3>4
  <2>4. PageSound' /\ StreamSound'
    BY <2>1, <2>2, <2>3, HooksKnown DEF PageSound, RunSound, StreamSound, Verdict, AllTold
  <2>5. QED
    BY <1>1, <2>1, <2>2, <2>3, <2>4, HooksKnown
<1>7. CASE ReplyLost
  <2>1. /\ reply \in {"asked", "sent"} /\ reply' = "lost" /\ panel' = Failed
        /\ UNCHANGED <<hook, procs, killer, logged, stream, outputs, cuts, cutOff>>
    BY <1>7 DEF ReplyLost
  <2>2. Append(panel.events, Client) \in Seq(Entries)
    BY <1>0, HooksKnown, AppendProperties
  <2>3. /\ panel' \in PanelOf /\ Len(panel'.events) <= MaxKept
        /\ panel'.events = Latest(Append(panel.events, Client)) /\ panel'.status = "error"
    BY <2>1, <2>2, LatestKept DEF Failed, PanelOf
  <2>4. PageSound' /\ StreamSound'
    BY <2>1, <2>3, HooksKnown DEF PageSound, StreamSound, Verdict, AllTold
  <2>5. QED
    BY <1>1, <2>1, <2>3, <2>4, HooksKnown DEF RunSound
<1>8. QED
  BY <1>3, <1>4, <1>5, <1>6, <1>7


\* A hook that goes on, or is over, while the page is told nothing new.
LEMMA ServerMoves ==
    ASSUME HooksInv, HookTypes', RunSound', StreamSound', hook.at \notin Over,
           UNCHANGED <<panel, cuts, cutOff>>,
           stream' \in Seq(OpMessage), logged' \in Nat, outputs' \in 0..MaxOutputs,
           logged' <= outputs' + LoggedBy(hook'.at),
           reply' \in {"none", "sent", "lost"} \/ reply' = reply,
           reply' = "lost" => reply = "lost",
           hook'.at # "idle" => reply' # "none",
           hook'.at \in Concluded => stream' # <<>>
    PROVE  HooksInv'
<1> USE DEF HookRecord, LoggedBy, Over, Concluded
<1>1. LoggedSound'
  BY HooksKnown DEF LoggedSound, LoggedBy
<1>2. PageSound'
  <2>1. panel.status # "success" /\ reply # "got" /\ (reply = "lost" => panel.status # "running")
    BY HooksKnown DEF PageSound, RunSound
  <2>2. QED
    BY <2>1 DEF PageSound
<1>3. QED
  BY <1>1, <1>2 DEF HooksInv

LEMMA Settles ==
    ASSUME HooksInv, NEW group \in SUBSET (Holding \cup {"daemon"}), hook.at = "running", Settle(hook.stop, group),
           UNCHANGED <<panel, outputs, cuts, cutOff>>
    PROVE  HooksInv'
<1> USE OperationsAssumption DEF HookRecord, LoggedBy, Over, Concluded
<1> DEFINE ok == hook.stop = "none" /\ hook.ok
<1>1. /\ hook' = [at |-> "settled", stop |-> hook.stop, ok |-> ok]
      /\ killer' = (Timer(hook.stop) /\ group # {})
      /\ procs' = group /\ Completes(2, ok)
  BY DEF Settle
<1>2. ok \in BOOLEAN
  BY HooksKnown, Zenon
<1>3. /\ hook'.at = "settled" /\ hook'.stop = hook.stop /\ hook'.ok = ok
      /\ hook' \in HookRecord
  BY <1>1, <1>2, HooksKnown
<1>4. logged <= outputs + 2 /\ logged + 2 <= MaxOutputs + 4 /\ logged \in Nat
  BY HooksKnown DEF LoggedSound, LoggedBy
<1> HIDE DEF ok
<1>5. /\ stream' \in Seq(OpMessage) /\ stream' # <<>> /\ logged' = logged + 2 /\ logged' \in Nat
      /\ StreamSound'
      /\ reply' \in {"none", "sent", "lost"} /\ (reply' = "none" => reply = "none")
      /\ reply' = "lost" <=> reply = "lost"
  BY <1>1, <1>2, <1>3, <1>4, VerdictTold
<1>6. killer' \in BOOLEAN
  BY <1>1, Zenon
<1>7. HookTypes'
  BY <1>1, <1>3, <1>5, <1>6, HooksKnown DEF HookTypes
<1>8. RunSound'
  <2>2. ok => hook.stop = "none"
    BY DEF ok
  <2>3. hook.stop # "none" => killer' \/ procs' = {}
    BY HooksKnown, <1>1 DEF Timer, RunSound
  <2>4. QED
    BY <1>3, <1>5, <2>2, <2>3, HooksKnown DEF RunSound
<1>9. /\ outputs' \in 0..MaxOutputs /\ hook.at \notin Over /\ UNCHANGED <<panel, cuts, cutOff>>
      /\ logged' <= outputs' + LoggedBy(hook'.at) /\ reply' # "none"
  BY <1>3, <1>4, <1>5, HooksKnown DEF RunSound
<1>10. QED
  BY <1>3, <1>5, <1>7, <1>8, <1>9, ServerMoves



\* The request comes, and no hook is run for it, or one.
LEMMA ServerBegins ==
    ASSUME HooksInv, Begins \/ Refused \/ Throws \/ Spawned
    PROVE  HooksInv'
<1> USE OperationsAssumption DEF HookRecord, LoggedBy, Over, Concluded
<1>0. /\ MaxOutputs \in Nat /\ logged \in Nat /\ outputs \in 0..MaxOutputs
      /\ UNCHANGED <<panel, outputs, cuts, cutOff, killer>>
  BY HooksKnown DEF Begins, Refused, Throws, Spawned
<1>1. ASSUME NEW at \in {"begun", "running"} \cup Over, hook' = [hook EXCEPT !.at = at]
      PROVE  hook' \in HookRecord /\ hook'.at = at /\ hook'.stop = hook.stop /\ hook'.ok = hook.ok
  BY <1>1, HooksKnown DEF HookRecord
<1>2. ASSUME hook.at \in {"idle", "begun"}
      PROVE  /\ hook.ok = FALSE /\ hook.stop = "none" /\ procs = {} /\ ~killer
             /\ hook.at \notin Over /\ hook.at \notin Concluded
             /\ logged <= outputs + 1 /\ (hook.at = "idle" => logged <= outputs)
  <2>1. ~hook.ok /\ hook.ok \in BOOLEAN
    BY <1>2, HooksKnown DEF RunSound, HookRecord
  <2>2. hook.ok = FALSE
    BY <2>1
  <2>3. QED
    BY <1>0, <1>2, <2>2, HooksKnown DEF RunSound, LoggedSound, LoggedBy, Over, Concluded
<1>3. CASE Begins
  <2>1. /\ hook.at = "idle" /\ reply \in {"asked", "lost"} /\ hook' = [hook EXCEPT !.at = "begun"] /\ Log(1)
        /\ UNCHANGED <<procs, reply>>
    BY <1>3 DEF Begins
  <2>2. /\ hook' \in HookRecord /\ hook'.at = "begun" /\ hook'.stop = hook.stop /\ hook'.ok = hook.ok
        /\ hook'.at \notin Over /\ hook'.at \notin Concluded
    BY <1>1, <2>1
  <2>3. stream' \in Seq(OpMessage) /\ logged' = logged + 1 /\ logged' \in Nat /\ StreamSound'
    BY <1>0, <1>2, <2>1, <2>2, LogGrows
  <2>4. HookTypes'
    BY <1>0, <2>1, <2>2, HooksKnown DEF HookTypes
  <2>5. RunSound'
    BY <1>0, <1>2, <2>1, <2>2, HooksKnown DEF RunSound
  <2>6. logged' <= outputs' + LoggedBy(hook'.at)
    BY <1>0, <1>2, <2>1, <2>2, <2>3
  <2>7. QED
    BY <1>0, <1>2, <2>1, <2>2, <2>3, <2>4, <2>5, <2>6, ServerMoves
<1>4. CASE Spawned
  <2>1. /\ hook.at = "begun" /\ hook' = [hook EXCEPT !.at = "running"] /\ procs' = {"shell"} /\ Log(1)
        /\ UNCHANGED reply
    BY <1>4 DEF Spawned
  <2>2. /\ hook' \in HookRecord /\ hook'.at = "running" /\ hook'.stop = hook.stop /\ hook'.ok = hook.ok
        /\ hook'.at \notin Over /\ hook'.at \notin Concluded
    BY <1>1, <2>1
  <2>3. stream' \in Seq(OpMessage) /\ logged' = logged + 1 /\ logged' \in Nat /\ StreamSound'
    BY <1>0, <1>2, <2>1, <2>2, LogGrows
  <2>4. HookTypes'
    BY <1>0, <2>1, <2>2, HooksKnown DEF HookTypes, Holding
  <2>5. RunSound'
    BY <1>0, <1>2, <2>1, <2>2, HooksKnown DEF RunSound
  <2>6. logged' <= outputs' + LoggedBy(hook'.at)
    BY <1>0, <1>2, <2>1, <2>2, <2>3
  <2>7. reply' # "none"
    BY <2>1, HooksKnown DEF RunSound
  <2>8. QED
    BY <1>0, <1>2, <2>1, <2>2, <2>3, <2>4, <2>5, <2>6, <2>7, ServerMoves
<1>5. CASE Refused
  <2>1. hook.at = "begun" /\ UNCHANGED procs
    BY <1>5 DEF Refused
  <2>2. PICK at \in Concluded, k \in {1, 3} : hook' = [hook EXCEPT !.at = at] /\ Completes(k, FALSE)
    BY <1>5 DEF Refused
  <2>3. /\ hook' \in HookRecord /\ hook'.at = at /\ hook'.stop = hook.stop /\ hook'.ok = hook.ok
        /\ hook'.at \in Over /\ hook'.at \in Concluded /\ hook'.at \notin {"idle", "begun", "running"}
    BY <1>1, <2>2
  <2>4. hook'.ok = FALSE /\ k \in Nat /\ logged + k <= outputs + 4 /\ logged + k <= MaxOutputs + 4
    <3>1. hook.ok = FALSE /\ logged <= outputs + 1
      BY <1>2, <2>1
    <3>2. k = 1 \/ k = 3
      OBVIOUS
    <3>3. hook'.ok = FALSE
      BY <2>3, <3>1
    <3>4. QED
      BY <1>0, <3>1, <3>2, <3>3
  <2>5. /\ stream' \in Seq(OpMessage) /\ stream' # <<>> /\ logged' = logged + k /\ logged' \in Nat
        /\ StreamSound'
        /\ reply' \in {"none", "sent", "lost"} /\ (reply' = "none" => reply = "none")
        /\ reply' = "lost" <=> reply = "lost"
    BY <1>2, <2>1, <2>2, <2>3, <2>4, VerdictTold
  <2>6. HookTypes'
    BY <1>0, <2>1, <2>3, <2>5, HooksKnown DEF HookTypes
  <2>7. reply' # "none"
    BY <2>1, <2>5, HooksKnown DEF RunSound
  <2>8. RunSound'
    BY <1>0, <1>2, <2>1, <2>3, <2>4, <2>5, <2>7 DEF RunSound
  <2>9. logged' <= outputs' + LoggedBy(hook'.at)
    BY <1>0, <2>3, <2>4, <2>5
  <2>10. QED
    BY <1>0, <1>2, <2>1, <2>3, <2>5, <2>6, <2>7, <2>8, <2>9, ServerMoves
<1>6. CASE Throws
  <2>1. /\ hook.at = "begun" /\ hook' = [hook EXCEPT !.at = "thrown"] /\ reply' = HookReply
        /\ UNCHANGED <<procs, logged, stream>>
    BY <1>6 DEF Throws
  <2>2. /\ hook' \in HookRecord /\ hook'.at = "thrown" /\ hook'.stop = hook.stop /\ hook'.ok = hook.ok
        /\ hook'.at \in Over /\ hook'.at \notin Concluded
    BY <1>1, <2>1
  <2>3. reply' \in {"sent", "lost"} /\ (reply' = "lost" => reply = "lost")
    BY <1>2, <2>1, HooksKnown DEF HookReply, RunSound
  <2>4. HookTypes'
    BY <1>0, <2>1, <2>2, <2>3, HooksKnown DEF HookTypes
  <2>5. RunSound'
    BY <1>0, <1>2, <2>1, <2>2, <2>3 DEF RunSound
  <2>6. StreamSound'
    BY <1>2, <2>1, <2>2, HooksKnown DEF StreamSound
  <2>7. logged' <= outputs' + LoggedBy(hook'.at)
    BY <1>0, <1>2, <2>1, <2>2
  <2>8. QED
    BY <1>0, <1>2, <2>1, <2>2, <2>3, <2>4, <2>5, <2>6, <2>7, HooksKnown, ServerMoves
<1>7. QED
  BY <1>3, <1>4, <1>5, <1>6

\* The server hears the hook, stops it, and is told that it is over.
LEMMA ServerSteps ==
    ASSUME HooksInv, Closes \/ Says \/ TimesOut \/ Aborts \/ Kills
    PROVE  HooksInv'
<1> USE OperationsAssumption DEF HookRecord, LoggedBy, Over, Concluded
<1>0. MaxOutputs \in Nat /\ logged \in Nat
  BY HooksKnown
<1>3. CASE Closes
  BY <1>3, HooksKnown, Settles DEF Closes
<1>4. ASSUME hook.at = "running", hook'.at = "running",
             hook' \in HookRecord,
             killer' \in BOOLEAN, procs' \subseteq procs, hook'.stop # "none" => killer',
             UNCHANGED <<reply, panel, cuts, cutOff>>,
             stream' \in Seq(OpMessage), logged' \in Nat, StreamSound',
             outputs' \in 0..MaxOutputs, logged' <= outputs' + 2
      PROVE  HooksInv'
  <2>1. HookTypes'
    BY <1>4, HooksKnown DEF HookTypes
  <2>2. RunSound'
    BY <1>4, HooksKnown DEF RunSound
  <2>3. reply' # "none"
    BY <1>4, HooksKnown DEF RunSound
  <2>4. QED
    BY <1>4, <2>1, <2>2, <2>3, ServerMoves
<1>5. ASSUME Stoppable, NEW reason \in Reasons, Stop(reason)
      PROVE  /\ hook.at = "running" /\ hook'.at = "running" /\ hook'.stop = reason
             /\ hook' \in HookRecord
             /\ killer' \in BOOLEAN /\ killer' /\ procs' \subseteq procs
  <2>1. killer' = TRUE /\ procs' \subseteq procs /\ hook' = [hook EXCEPT !.stop = reason] /\ hook.at = "running"
    BY <1>5 DEF Stop, Stoppable
  <2>2. killer' \in BOOLEAN /\ killer'
    BY <2>1, Zenon
  <2>3. QED
    BY <2>1, <2>2, HooksKnown
<1>6. CASE Says
  <2>1. /\ hook.at = "running" /\ outputs < MaxOutputs /\ outputs' = outputs + 1 /\ Log(1)
        /\ UNCHANGED <<hook, procs, killer>> \/ (Stoppable /\ Stop("limit"))
        /\ UNCHANGED <<reply, panel, cuts, cutOff>>
    BY <1>6 DEF Says
  <2>2. /\ hook'.at = "running" /\ procs' \subseteq procs
        /\ hook' \in HookRecord
        /\ killer' \in BOOLEAN /\ (hook'.stop # "none" => killer')
    <3>1. CASE UNCHANGED <<hook, procs, killer>>
      BY <2>1, <3>1, HooksKnown DEF RunSound
    <3>2. CASE Stoppable /\ Stop("limit")
      BY <1>5, <3>2 DEF Reasons
    <3>3. QED
      BY <2>1, <3>1, <3>2
  <2>3. logged + 1 <= MaxOutputs + 4 /\ logged <= outputs + 2
    BY <1>0, <2>1, HooksKnown DEF LoggedSound, LoggedBy
  <2>4. stream' \in Seq(OpMessage) /\ logged' = logged + 1 /\ logged' \in Nat /\ StreamSound'
    BY <2>1, <2>2, <2>3, LogGrows
  <2>5. outputs' \in 0..MaxOutputs /\ logged' <= outputs' + 2
    BY <1>0, <2>1, <2>3, <2>4, HooksKnown
  <2>6. QED
    BY <1>4, <2>1, <2>2, <2>4, <2>5
<1>7. CASE TimesOut \/ Aborts
  <2>1. PICK reason \in {"timeout", "abort"} : Stoppable /\ Stop(reason)
    BY <1>7 DEF TimesOut, Aborts
  <2>2. UNCHANGED <<logged, stream, reply, panel, outputs, cuts, cutOff>>
    BY <1>7 DEF TimesOut, Aborts
  <2>3. /\ hook.at = "running" /\ hook'.at = "running"
        /\ hook' \in HookRecord
        /\ killer' \in BOOLEAN /\ killer' /\ procs' \subseteq procs
    BY <1>5, <2>1 DEF Reasons
  <2>4. StreamSound'
    BY <2>2, <2>3, HooksKnown DEF StreamSound
  <2>5. stream' \in Seq(OpMessage) /\ logged' \in Nat /\ outputs' \in 0..MaxOutputs /\ logged' <= outputs' + 2
    BY <2>2, <2>3, HooksKnown DEF LoggedSound, LoggedBy
  <2>6. QED
    BY <1>4, <2>2, <2>3, <2>4, <2>5
<1>8. CASE Kills
  <2>1. killer /\ UNCHANGED <<panel, outputs, cuts, cutOff>>
    BY <1>8 DEF Kills
  <2>2. CASE hook.at = "running"
    BY <1>8, <2>1, <2>2, Settles DEF Kills
  <2>3. CASE hook.at # "running"
    <3>1. /\ killer' = FALSE /\ procs' = {} /\ UNCHANGED <<hook, logged, stream, reply>>
          /\ hook.at = "settled"
      BY <1>8, <2>1, <2>3, HooksKnown DEF Kills, RunSound
    <3>2. killer' \in BOOLEAN
      BY <3>1, Zenon
    <3>3. HookTypes' /\ LoggedSound'
      BY <2>1, <3>1, <3>2, HooksKnown DEF HookTypes, LoggedSound
    <3>4. RunSound' /\ PageSound' /\ StreamSound'
      BY <2>1, <3>1, HooksKnown DEF RunSound, PageSound, StreamSound, AllTold, Verdict
    <3>5. QED
      BY <3>3, <3>4 DEF HooksInv
  <2>4. QED
    BY <2>2, <2>3
<1>10. QED
  BY <1>3, <1>6, <1>7, <1>8

\* The hook's own processes, which nobody but the shell speaks for.
LEMMA ProcessSteps == ASSUME HooksInv, Forks \/ Exits \/ UNCHANGED opVars PROVE HooksInv'
<1> USE OperationsAssumption DEF HookRecord, LoggedBy, Over, Concluded
<1>1. /\ UNCHANGED <<killer, logged, stream, reply, panel, outputs, cuts, cutOff>>
      /\ procs' \subseteq Holding \cup {"daemon"} /\ (procs = {} => procs' = {})
  BY HooksKnown DEF Forks, Exits, opVars, Holding
<1>2. /\ hook' \in HookRecord
      /\ hook'.at = hook.at /\ hook'.stop = hook.stop /\ (hook.at # "running" => hook' = hook)
  <2>1. UNCHANGED hook \/ (hook.at = "running" /\ \E ok \in BOOLEAN : hook' = [hook EXCEPT !.ok = ok])
    BY DEF Forks, Exits, opVars
  <2>2. QED
    BY <2>1, HooksKnown
<1>3. HookTypes' /\ LoggedSound'
  BY <1>1, <1>2, HooksKnown DEF HookTypes, LoggedSound
<1>4. RunSound' /\ StreamSound'
  BY <1>1, <1>2, HooksKnown DEF RunSound, StreamSound
<1>5. PageSound'
  <2>1. CASE hook.at = "running"
    BY <1>1, <1>2, <2>1, HooksKnown DEF PageSound, RunSound
  <2>2. CASE hook.at # "running"
    BY <1>1, <1>2, <2>2, HooksKnown DEF PageSound, AllTold, Verdict
  <2>3. QED
    BY <2>1, <2>2
<1>6. QED
  BY <1>3, <1>4, <1>5 DEF HooksInv

LEMMA HooksStep == HooksInv /\ [OpNext]_opVars => HooksInv'
BY PageSteps, ServerBegins, ServerSteps, ProcessSteps DEF OpNext

LEMMA HooksToldThen == HooksInv => HooksTold
<1> SUFFICES ASSUME HooksInv PROVE HooksTold
  OBVIOUS
<1> USE DEF HookRecord, LoggedBy, Over, Concluded
<1>1. Quiet => hook.at \in Over /\ stream = <<>> /\ reply \in {"got", "lost"}
  BY DEF Quiet
<1>2. QED
  BY <1>1 DEF HooksInv, RunSound, PageSound, Verdict, AllTold, HooksTold, Over, Concluded

LEMMA HooksOfParts == /\ PartsInit => OpInit
                      /\ [PartsNext]_partVars => [OpNext]_opVars
BY DEF PartsInit, PartsNext, partVars, serverVars, pageVars, linkVars

\* The panel of a hook ends with the server's verdict, unless the request's answer was
\* lost, and with exactly the events the server kept, unless the stream broke over the
\* last one.
THEOREM HooksToldCorrect == PartsSpec => []HooksTold
<1>1. PartsSpec => []HooksInv
  BY HooksStart, HooksStep, HooksOfParts, PTL DEF PartsSpec
<1>2. QED
  BY <1>1, HooksToldThen, PTL
(***************************************************************************)
(* The conversation that a page shows, beside the list of them it fetches. *)
(***************************************************************************)

\* A set of numbers that is not empty has a least one: what an induction rests on.
LEMMA LeastNumber ==
    ASSUME NEW T, T \subseteq Nat, T # {}
    PROVE  \E n \in T : \A m \in T : n <= m
<1> DEFINE Below == OpToRel(<, Nat)
<1>1. IsWellFoundedOn(Below, Nat)
  BY NatLessThanWellFounded
<1>2. PICK n \in T : \A m \in T : <<m, n>> \notin Below
  <2> HIDE DEF Below
  <2>1. QED
    BY <1>1, WFMin
<1>3. ASSUME NEW m \in T PROVE n <= m
  <2>1. m \in Nat /\ n \in Nat
    OBVIOUS
  <2>2. <<m, n>> \notin Below
    BY <1>2
  <2>3. ~(m < n)
    BY <2>1, <2>2 DEF OpToRel
  <2> HIDE DEF Below
  <2>4. QED
    BY <2>1, <2>3
<1>4. QED
  BY <1>2, <1>3

\* What may be selected once i of those who waited have run.
ShownAfter(waiting, l, f, i) ==
    IF i = 0 THEN {active}
    ELSE UNION {IF Leaves(waiting[i], s) THEN NextShown(s, l) ELSE {s} : s \in f[i - 1]}
InTurn(waiting, l, f, n) == f = [i \in 0..n |-> ShownAfter(waiting, l, f, i)]

LEMMA TurnsExist ==
    ASSUME NEW waiting, NEW l, NEW n \in Nat
    PROVE  \E f : InTurn(waiting, l, f, n)
<1> DEFINE T == {m \in Nat : ~ \E f : InTurn(waiting, l, f, m)}
<1>1. SUFFICES ASSUME T # {} PROVE FALSE
  OBVIOUS
<1>2. PICK m \in T : \A k \in T : m <= k
  <2>1. T \subseteq Nat
    OBVIOUS
  <2> HIDE DEF T
  <2>2. QED
    BY <1>1, <2>1, LeastNumber
<1>3. m \in Nat /\ ~ \E f : InTurn(waiting, l, f, m)
  OBVIOUS
<1>4. CASE m = 0
  <2> DEFINE g == [i \in 0..0 |-> {active}]
  <2>1. InTurn(waiting, l, g, 0)
    BY DEF InTurn, ShownAfter
  <2>2. QED
    BY <1>3, <1>4, <2>1
<1>5. CASE m # 0
  <2>1. m - 1 \in Nat /\ m - 1 \notin T
    BY <1>2, <1>3, <1>5
  <2>2. PICK f : InTurn(waiting, l, f, m - 1)
    BY <2>1
  <2> DEFINE g == [i \in 0..m |-> IF i = m THEN ShownAfter(waiting, l, f, m) ELSE f[i]]
  <2>3. \A i \in 0..(m - 1) : f[i] = ShownAfter(waiting, l, f, i)
    BY <2>1, <2>2 DEF InTurn
  <2>4. \A i \in 0..(m - 1) : g[i] = f[i] /\ i \in 0..m
    BY <1>3, <2>1
  <2>5. ASSUME NEW i \in 0..m PROVE g[i] = ShownAfter(waiting, l, g, i)
    <3>1. CASE i = 0
      <4>1. g[0] = f[0] /\ f[0] = ShownAfter(waiting, l, f, 0)
        BY <2>1, <2>3, <2>4
      <4>2. QED
        BY <3>1, <4>1 DEF ShownAfter
    <3>2. CASE i # 0
      <4>1. i - 1 \in 0..(m - 1)
        BY <1>3, <3>2
      <4>2. g[i - 1] = f[i - 1]
        BY <2>4, <4>1
      <4>3. g[i] = ShownAfter(waiting, l, f, i)
        BY <1>3, <2>3, <3>2
      <4> HIDE DEF g
      <4>4. QED
        BY <3>2, <4>2, <4>3 DEF ShownAfter
    <3>3. QED
      BY <3>1, <3>2
  <2>6. InTurn(waiting, l, g, m)
    <3>1. g = [i \in 0..m |-> g[i]]
      OBVIOUS
    <3> HIDE DEF g
    <3>2. QED
      BY <2>5, <3>1 DEF InTurn
  <2>7. QED
    BY <1>3, <2>6
<1>6. QED
  BY <1>4, <1>5

\* AfterWaiting is what the last of them leaves.
LEMMA WaitingRuns ==
    ASSUME NEW waiting, NEW l, Len(waiting) \in Nat
    PROVE  \E f : /\ AfterWaiting(waiting, l) = f[Len(waiting)]
                  /\ \A i \in 0..Len(waiting) : f[i] = ShownAfter(waiting, l, f, i)
<1> DEFINE found == CHOOSE f : InTurn(waiting, l, f, Len(waiting))
<1>1. InTurn(waiting, l, found, Len(waiting))
  BY TurnsExist
<1>2. AfterWaiting(waiting, l) = found[Len(waiting)]
  BY DEF AfterWaiting, InTurn, ShownAfter
<1> HIDE DEF found
<1>3. QED
  BY <1>1, <1>2 DEF InTurn

Waiter == [closed : Known, was : Selectable]
\* What those who wait heard is closed, and of that what was shown when they did.
HeardClosed(waiting) == {waiting[i].closed : i \in DOMAIN waiting}
Leaving(waiting) == {waiting[i].closed : i \in {j \in DOMAIN waiting : waiting[j].was = waiting[j].closed}}

SelectionTypes ==
    /\ living \subseteq Known /\ unborn \subseteq Known \ living /\ list \subseteq Known
    /\ {active, stored, early} \subseteq Selectable
    /\ phase \in {"fetching", "choosing", "done"}
    /\ refresh \in [at : {"none", "asked", "served"}, list : SUBSET Known, after : Seq(Waiter)]
    /\ news \in Seq(Known)
    /\ noStates \in 0..MaxNoState /\ misled \in BOOLEAN

\* What was closed is never there again.
ClosedForGood == (Range(news) \cup HeardClosed(refresh.after)) \cap (living \cup unborn) = {}

\* Of a list on its way the page knows what was closed since, or hears of it.
ListKnown == refresh.at = "served" => refresh.list \subseteq living \cup Range(news) \cup HeardClosed(refresh.after)

\* A conversation that is shown is there, or its closing is on its way to the page or
\* waits for the list to come.
ShownKnown ==
    phase = "done" /\ ~misled =>
        \/ active \in living \cup Range(news) \cup {NoChoice}
        \/ refresh.at # "none" /\ active \in Leaving(refresh.after)

SelectionInv == SelectionTypes /\ ClosedForGood /\ ListKnown /\ ShownKnown

\* Who has left a conversation is at one of the list, or at none.
LEMMA NextOfList ==
    ASSUME NEW c, NEW l
    PROVE  NextShown(c, l) \subseteq l \cup {NoChoice}
BY DEF NextShown

\* Nobody who waited leaves the conversation shown: it stays.
LEMMA NobodyLeaves ==
    ASSUME NEW waiting, NEW l, Len(waiting) \in Nat,
           \A i \in 1..Len(waiting) : ~Leaves(waiting[i], active)
    PROVE  AfterWaiting(waiting, l) = {active}
<1>1. PICK f : /\ AfterWaiting(waiting, l) = f[Len(waiting)]
               /\ \A i \in 0..Len(waiting) : f[i] = ShownAfter(waiting, l, f, i)
  BY WaitingRuns
<1> DEFINE T == {m \in 0..Len(waiting) : f[m] # {active}}
<1>2. ASSUME T # {} PROVE FALSE
  <2>1. T \subseteq Nat
    OBVIOUS
  <2>2. PICK m \in T : \A k \in T : m <= k
    <3> HIDE DEF T
    <3>1. QED
      BY <1>2, <2>1, LeastNumber
  <2>3. m \in 0..Len(waiting) /\ f[m] # {active} /\ f[m] = ShownAfter(waiting, l, f, m)
    BY <1>1
  <2>4. m # 0
    BY <2>3 DEF ShownAfter
  <2>5. m - 1 \in 0..Len(waiting) /\ m \in 1..Len(waiting) /\ m - 1 \notin T
    BY <2>2, <2>3, <2>4
  <2>6. f[m - 1] = {active}
    BY <2>5
  <2>7. \A s \in f[m - 1] : ~Leaves(waiting[m], s)
    BY <2>5, <2>6
  <2>8. f[m] = f[m - 1]
    BY <2>3, <2>4, <2>7 DEF ShownAfter
  <2>9. QED
    BY <2>3, <2>6, <2>8
<1>3. f[Len(waiting)] = {active}
  BY <1>2
<1>4. QED
  BY <1>1, <1>3

\* The page stays, or goes to a conversation of the list, or to none.
LEMMA ShownStays ==
    ASSUME NEW waiting, NEW l, Len(waiting) \in Nat
    PROVE  AfterWaiting(waiting, l) \subseteq {active} \cup l \cup {NoChoice}
<1>1. PICK f : /\ AfterWaiting(waiting, l) = f[Len(waiting)]
               /\ \A i \in 0..Len(waiting) : f[i] = ShownAfter(waiting, l, f, i)
  BY WaitingRuns
<1> DEFINE Somewhere == {active} \cup l \cup {NoChoice}
           T == {m \in 0..Len(waiting) : ~(f[m] \subseteq Somewhere)}
<1>2. ASSUME T # {} PROVE FALSE
  <2>1. T \subseteq Nat
    OBVIOUS
  <2>2. PICK m \in T : \A k \in T : m <= k
    <3> HIDE DEF T
    <3>1. QED
      BY <1>2, <2>1, LeastNumber
  <2>3. m \in 0..Len(waiting) /\ ~(f[m] \subseteq Somewhere) /\ f[m] = ShownAfter(waiting, l, f, m)
    BY <1>1
  <2>4. m # 0
    BY <2>3 DEF ShownAfter
  <2>5. m - 1 \in 0..Len(waiting) /\ m - 1 \notin T
    BY <2>2, <2>3, <2>4
  <2>6. f[m - 1] \subseteq Somewhere
    BY <2>5
  <2>7. \A s \in f[m - 1] : (IF Leaves(waiting[m], s) THEN NextShown(s, l) ELSE {s}) \subseteq Somewhere
    BY <2>6, NextOfList
  <2> HIDE DEF Somewhere, T
  <2>8. f[m] \subseteq Somewhere
    BY <2>3, <2>4, <2>7 DEF ShownAfter
  <2>9. QED
    BY <2>3, <2>8
<1>3. f[Len(waiting)] \subseteq Somewhere
  BY <1>2
<1>4. QED
  BY <1>1, <1>3

\* Somebody who waited leaves the conversation shown: the page goes to one of the list,
\* or to none.
LEMMA SomebodyLeaves ==
    ASSUME NEW waiting, NEW l, Len(waiting) \in Nat, NEW j \in 1..Len(waiting), Leaves(waiting[j], active)
    PROVE  AfterWaiting(waiting, l) \subseteq l \cup {NoChoice}
<1>1. PICK f : /\ AfterWaiting(waiting, l) = f[Len(waiting)]
               /\ \A i \in 0..Len(waiting) : f[i] = ShownAfter(waiting, l, f, i)
  BY WaitingRuns
<1> DEFINE There == l \cup {NoChoice}
           T == {m \in 0..Len(waiting) : ~(f[m] \subseteq (IF m < j THEN {active} \cup There ELSE There))}
<1>2. ASSUME T # {} PROVE FALSE
  <2>1. T \subseteq Nat
    OBVIOUS
  <2>2. PICK m \in T : \A k \in T : m <= k
    <3> HIDE DEF T
    <3>1. QED
      BY <1>2, <2>1, LeastNumber
  <2>3. /\ m \in 0..Len(waiting) /\ f[m] = ShownAfter(waiting, l, f, m)
        /\ ~(f[m] \subseteq (IF m < j THEN {active} \cup There ELSE There))
    BY <1>1
  <2>4. m # 0
    BY <2>3 DEF ShownAfter
  <2>5. m - 1 \in 0..Len(waiting) /\ m - 1 \notin T
    BY <2>2, <2>3, <2>4
  <2>6. f[m - 1] \subseteq (IF m - 1 < j THEN {active} \cup There ELSE There)
    BY <2>5
  <2>7. \A s : NextShown(s, l) \subseteq There
    BY NextOfList
  <2> HIDE DEF There, T
  <2>8. ASSUME NEW s \in f[m - 1]
        PROVE  (IF Leaves(waiting[m], s) THEN NextShown(s, l) ELSE {s})
                  \subseteq (IF m < j THEN {active} \cup There ELSE There)
    <3>1. CASE s \in There
      BY <2>7, <3>1
    <3>2. CASE s \notin There
      <4>1. s = active /\ m - 1 < j
        BY <2>6, <3>2
      <4>2. m < j \/ m = j
        BY <2>3, <4>1
      <4>3. QED
        BY <2>7, <4>1, <4>2
    <3>3. QED
      BY <3>1, <3>2
  <2>9. f[m] \subseteq (IF m < j THEN {active} \cup There ELSE There)
    BY <2>3, <2>4, <2>8 DEF ShownAfter
  <2>10. QED
    BY <2>3, <2>9
<1>3. f[Len(waiting)] \subseteq There
  BY <1>2
<1>4. QED
  BY <1>1, <1>3

LEMMA RangeOfFirst ==
    ASSUME NEW S, NEW s \in Seq(S), s # <<>>
    PROVE  Head(s) \in S /\ Tail(s) \in Seq(S) /\ Range(s) = {Head(s)} \cup Range(Tail(s))
<1>1. /\ Head(s) \in S /\ Tail(s) \in Seq(S) /\ Head(s) = s[1] /\ Len(Tail(s)) = Len(s) - 1
      /\ \A i \in 1..Len(Tail(s)) : Tail(s)[i] = s[i + 1]
  BY HeadTailProperties
<1>2. /\ Len(s) \in Nat \ {0} /\ DOMAIN s = 1..Len(s)
      /\ Len(Tail(s)) \in Nat /\ DOMAIN Tail(s) = 1..Len(Tail(s))
  BY <1>1, LenProperties, EmptySeq
<1>3. \A i \in DOMAIN s : i = 1 \/ (i - 1 \in DOMAIN Tail(s) /\ s[i] = Tail(s)[i - 1])
  BY <1>1, <1>2
<1>4. \A i \in DOMAIN Tail(s) : i + 1 \in DOMAIN s /\ s[i + 1] = Tail(s)[i]
  BY <1>1, <1>2
<1>5. 1 \in DOMAIN s
  BY <1>2
<1>6. Range(s) = {Head(s)} \cup Range(Tail(s))
  BY <1>1, <1>3, <1>4, <1>5 DEF Range
<1>7. QED
  BY <1>1, <1>6

LEMMA RangeOfMore ==
    ASSUME NEW S, NEW s \in Seq(S), NEW e \in S
    PROVE  Append(s, e) \in Seq(S) /\ Range(Append(s, e)) = Range(s) \cup {e}
<1>1. /\ Append(s, e) \in Seq(S) /\ Len(Append(s, e)) = Len(s) + 1
      /\ \A i \in 1..Len(s) : Append(s, e)[i] = s[i]
      /\ Append(s, e)[Len(s) + 1] = e
  BY AppendProperties
<1>2. /\ Len(s) \in Nat /\ DOMAIN s = 1..Len(s) /\ DOMAIN Append(s, e) = 1..(Len(s) + 1)
  BY <1>1, LenProperties
<1>3. DOMAIN Append(s, e) = DOMAIN s \cup {Len(s) + 1} /\ \A i \in DOMAIN s : Append(s, e)[i] = s[i]
  BY <1>1, <1>2
<1>4. QED
  BY <1>1, <1>3 DEF Range

LEMMA SelectionKnown ==
    ASSUME SelectionInv
    PROVE  /\ news \in Seq(Known) /\ refresh.after \in Seq(Waiter)
           /\ Len(refresh.after) \in Nat /\ DOMAIN refresh.after = 1..Len(refresh.after)
           /\ refresh.at \in {"none", "asked", "served"} /\ refresh.list \subseteq Known
           /\ NoChoice \notin Known
BY SelectionAssumption, LenProperties DEF SelectionInv, SelectionTypes, Known

\* Whoever asks for the state, or waits for it, adds to those who wait.
LEMMA JoinedBy ==
    ASSUME SelectionInv, NEW waiting \in Seq(Waiter), Joined(waiting)
    PROVE  /\ refresh' \in [at : {"none", "asked", "served"}, list : SUBSET Known, after : Seq(Waiter)]
           /\ refresh'.at # "none" /\ (refresh'.at = "served" <=> refresh.at = "served")
           /\ refresh'.list = refresh.list
           /\ refresh'.after = refresh.after \o waiting
<1> DEFINE after == refresh.after \o waiting
           at == IF refresh.at = "none" THEN "asked" ELSE refresh.at
<1>1. refresh \in [at : {"none", "asked", "served"}, list : SUBSET Known, after : Seq(Waiter)]
  BY DEF SelectionInv, SelectionTypes
<1>2. after \in Seq(Waiter) /\ at \in {"asked", "served"} /\ (at = "served" <=> refresh.at = "served")
  BY <1>1, ConcatProperties
<1>3. refresh' = [refresh EXCEPT !.at = at, !.after = after]
  BY DEF Joined
<1> HIDE DEF after, at
<1>4. /\ refresh'.at = at /\ refresh'.after = after /\ refresh'.list = refresh.list
      /\ refresh' \in [at : {"none", "asked", "served"}, list : SUBSET Known, after : Seq(Waiter)]
  BY <1>1, <1>2, <1>3
<1>5. QED
  BY <1>2, <1>4 DEF after

LEMMA JoinedByNone ==
    ASSUME SelectionInv, Joined(<<>>)
    PROVE  /\ refresh' \in [at : {"none", "asked", "served"}, list : SUBSET Known, after : Seq(Waiter)]
           /\ refresh'.at # "none" /\ (refresh'.at = "served" <=> refresh.at = "served")
           /\ refresh'.list = refresh.list /\ refresh'.after = refresh.after
<1>1. <<>> \in Seq(Waiter) /\ refresh.after \in Seq(Waiter)
  BY SelectionKnown
<1>2. refresh.after \o <<>> = refresh.after
  BY <1>1, ConcatEmptySeq
<1>3. QED
  BY <1>1, <1>2, JoinedBy

LEMMA JoinedByOne ==
    ASSUME SelectionInv, NEW w \in Waiter, Joined(<<w>>)
    PROVE  /\ refresh' \in [at : {"none", "asked", "served"}, list : SUBSET Known, after : Seq(Waiter)]
           /\ refresh'.at # "none" /\ (refresh'.at = "served" <=> refresh.at = "served")
           /\ refresh'.list = refresh.list
           /\ HeardClosed(refresh'.after) = HeardClosed(refresh.after) \cup {w.closed}
           /\ Leaving(refresh.after) \subseteq Leaving(refresh'.after)
           /\ w.was = w.closed => w.closed \in Leaving(refresh'.after)
<1>1. <<w>> \in Seq(Waiter) /\ Len(<<w>>) = 1 /\ <<w>>[1] = w /\ refresh.after \in Seq(Waiter)
  BY SelectionKnown
<1>2. refresh'.after = refresh.after \o <<w>>
  BY <1>1, JoinedBy
<1>3. /\ Len(refresh.after \o <<w>>) = Len(refresh.after) + Len(<<w>>) /\ (refresh.after \o <<w>>) \in Seq(Waiter)
      /\ \A i \in 1..(Len(refresh.after) + Len(<<w>>)) :
            (refresh.after \o <<w>>)[i] = IF i <= Len(refresh.after) THEN refresh.after[i] ELSE <<w>>[i - Len(refresh.after)]
  BY <1>1, ConcatProperties
<1>4. Len(refresh.after) \in Nat /\ DOMAIN refresh.after = 1..Len(refresh.after) /\ DOMAIN refresh'.after = 1..(Len(refresh.after) + 1)
  BY <1>1, <1>2, <1>3, LenProperties
<1>5. /\ DOMAIN refresh'.after = DOMAIN refresh.after \cup {Len(refresh.after) + 1}
      /\ \A i \in DOMAIN refresh.after : refresh'.after[i] = refresh.after[i]
      /\ refresh'.after[Len(refresh.after) + 1] = w
  BY <1>1, <1>2, <1>3, <1>4
<1>6. HeardClosed(refresh'.after) = HeardClosed(refresh.after) \cup {w.closed}
  BY <1>5 DEF HeardClosed
<1>7. Leaving(refresh.after) \subseteq Leaving(refresh'.after) /\ (w.was = w.closed => w.closed \in Leaving(refresh'.after))
  BY <1>5 DEF Leaving
<1>8. QED
  BY <1>1, <1>6, <1>7, JoinedBy

LEMMA SelectionStarts == SelectionInit => SelectionInv
<1> SUFFICES ASSUME SelectionInit PROVE SelectionInv
  OBVIOUS
<1>1. <<>> \in Seq(Known) /\ <<>> \in Seq(Waiter) /\ DOMAIN <<>> = {}
  BY EmptySeq, LenProperties
<1>2. refresh = [at |-> "asked", list |-> {}, after |-> <<>>] /\ news = <<>>
  BY DEF SelectionInit, Idle
<1>3. Range(<<>>) = {} /\ HeardClosed(<<>>) = {}
  BY <1>1 DEF Range, HeardClosed
<1>4. SelectionTypes
  <2>1. 0 \in 0..MaxNoState
    BY SelectionAssumption
  <2>2. refresh \in [at : {"none", "asked", "served"}, list : SUBSET Known, after : Seq(Waiter)]
    BY <1>1, <1>2
  <2>3. NoChoice \notin Known
    BY SelectionAssumption DEF Known
  <2>4. PlainChat \subseteq Known
    BY DEF Known
  <2>5. QED
    BY <1>1, <1>2, <2>1, <2>2, <2>3, <2>4 DEF SelectionInit, SelectionTypes, Selectable
<1>5. ClosedForGood /\ ListKnown /\ ShownKnown
  BY <1>2, <1>3 DEF ClosedForGood, ListKnown, ShownKnown, SelectionInit
<1>6. QED
  BY <1>4, <1>5 DEF SelectionInv

\* The state is there or is not, and whoever waited for it goes on.
LEMMA StateComes ==
    ASSUME SelectionInv, StateArrives
    PROVE  /\ active' \in {active} \cup refresh.list \cup {NoChoice}
           /\ active \in Leaving(refresh.after) => active' \in refresh.list \cup {NoChoice}
           /\ active' # active => active \in HeardClosed(refresh.after)
           /\ ~misled' => ~misled /\ refresh.list \cap HeardClosed(refresh.after) = {}
<1>1. /\ refresh.after \in Seq(Waiter) /\ Len(refresh.after) \in Nat /\ DOMAIN refresh.after = 1..Len(refresh.after)
      /\ active' \in AfterWaiting(refresh.after, refresh.list)
  BY SelectionKnown DEF StateArrives
<1>2. active' \in {active} \cup refresh.list \cup {NoChoice}
  BY <1>1, ShownStays
<1>3. ASSUME active \in Leaving(refresh.after) PROVE active' \in refresh.list \cup {NoChoice}
  <2>1. PICK j \in 1..Len(refresh.after) : Leaves(refresh.after[j], active)
    BY <1>1, <1>3 DEF Leaving, Leaves
  <2>2. QED
    BY <1>1, <2>1, SomebodyLeaves
<1>4. ASSUME active' # active PROVE active \in HeardClosed(refresh.after)
  <2>1. ~ \A i \in 1..Len(refresh.after) : ~Leaves(refresh.after[i], active)
    BY <1>1, <1>4, NobodyLeaves
  <2>2. PICK j \in DOMAIN refresh.after : Leaves(refresh.after[j], active)
    BY <1>1, <2>1
  <2>3. QED
    BY <2>2 DEF HeardClosed, Leaves
<1>5. ~misled' => ~misled /\ refresh.list \cap HeardClosed(refresh.after) = {}
  BY DEF StateArrives, HeardClosed
<1>6. QED
  BY <1>2, <1>3, <1>4, <1>5

LEMMA ServedStep ==
    ASSUME SelectionInv, StateServed \/ StateArrives \/ StateFails
    PROVE  SelectionInv'
<1>0. /\ SelectionTypes /\ ClosedForGood /\ ListKnown /\ ShownKnown
      /\ refresh \in [at : {"none", "asked", "served"}, list : SUBSET Known, after : Seq(Waiter)]
      /\ refresh.list \subseteq Known /\ living \subseteq Known
  BY DEF SelectionInv, SelectionTypes
<1>1. CASE StateServed
  <2>1. /\ refresh.at = "asked" /\ refresh' = [refresh EXCEPT !.at = "served", !.list = living]
        /\ UNCHANGED <<living, unborn, list, active, stored, early, phase, news, noStates, misled>>
    BY <1>1 DEF StateServed
  <2>2. /\ refresh' \in [at : {"none", "asked", "served"}, list : SUBSET Known, after : Seq(Waiter)]
        /\ refresh'.after = refresh.after /\ refresh'.list = living /\ refresh'.at = "served"
    BY <1>0, <2>1
  <2>3. QED
    BY <1>0, <2>1, <2>2 DEF SelectionInv, SelectionTypes, ClosedForGood, ListKnown, ShownKnown
<1> DEFINE NoneAsked == [at |-> "none", list |-> {}, after |-> <<>>]
<1>2. /\ NoneAsked \in [at : {"none", "asked", "served"}, list : SUBSET Known, after : Seq(Waiter)]
      /\ NoneAsked.at = "none" /\ HeardClosed(NoneAsked.after) = {} /\ NoneAsked = Idle
  <2>1. <<>> \in Seq(Waiter) /\ DOMAIN <<>> = {}
    BY EmptySeq, LenProperties
  <2>2. QED
    BY <2>1 DEF HeardClosed, Idle
<1> HIDE DEF NoneAsked
<1>3. CASE StateArrives
  <2>1. /\ refresh.at = "served" /\ list' = refresh.list /\ refresh' = Idle /\ phase' = Fetched
        /\ UNCHANGED <<living, unborn, stored, early, news, noStates>>
        /\ misled' \in BOOLEAN
    BY <1>3 DEF StateArrives
  <2>2. active' \in Selectable
    BY <1>0, <1>3, StateComes DEF SelectionTypes, Selectable
  <2>3. phase' \in {"fetching", "choosing", "done"} /\ (phase' = "done" => phase = "done")
    BY <1>0, <2>1 DEF Fetched, SelectionTypes
  <2>4. SelectionTypes'
    BY <1>0, <1>2, <2>1, <2>2, <2>3 DEF SelectionTypes
  <2>5. ClosedForGood' /\ ListKnown'
    BY <1>0, <1>2, <2>1 DEF ClosedForGood, ListKnown
  <2>6. ShownKnown'
    <3> SUFFICES ASSUME phase' = "done", ~misled' PROVE active' \in living \cup Range(news) \cup {NoChoice}
      BY <2>1 DEF ShownKnown
    <3>1. refresh.list \subseteq living \cup Range(news)
      BY <1>0, <1>3, <2>1, StateComes DEF ListKnown
    <3>2. active \in living \cup Range(news) \cup {NoChoice} \/ active \in Leaving(refresh.after)
      BY <1>0, <1>3, <2>3, StateComes DEF ShownKnown
    <3>3. QED
      BY <1>3, <3>1, <3>2, StateComes
  <2>7. QED
    BY <2>4, <2>5, <2>6 DEF SelectionInv
<1>4. CASE StateFails
  <2>1. /\ noStates < MaxNoState /\ noStates' = noStates + 1 /\ refresh' = Idle /\ phase' = Fetched
        /\ UNCHANGED <<living, unborn, list, active, stored, early, news>>
        /\ misled' \in BOOLEAN /\ (~misled' => ~misled /\ refresh.after = <<>>)
    BY <1>4 DEF StateFails
  <2>2. phase' \in {"fetching", "choosing", "done"} /\ (phase' = "done" => phase = "done")
    BY <1>0, <2>1 DEF Fetched, SelectionTypes
  <2>3. noStates' \in 0..MaxNoState
    BY <1>0, <2>1, SelectionAssumption DEF SelectionTypes
  <2>4. SelectionTypes'
    BY <1>0, <1>2, <2>1, <2>2, <2>3 DEF SelectionTypes
  <2>5. ClosedForGood' /\ ListKnown'
    BY <1>0, <1>2, <2>1 DEF ClosedForGood, ListKnown
  <2>6. ShownKnown'
    <3>1. refresh.after = <<>> => Leaving(refresh.after) = {}
      <4>1. DOMAIN <<>> = {}
        BY EmptySeq, LenProperties
      <4>2. QED
        BY <4>1 DEF Leaving
    <3>2. QED
      BY <1>0, <2>1, <2>2, <3>1 DEF ShownKnown
  <2>7. QED
    BY <2>4, <2>5, <2>6 DEF SelectionInv
<1>5. QED
  BY <1>1, <1>3, <1>4

LEMMA HeardStep ==
    ASSUME SelectionInv, RefreshAgain \/ ClosedHeard \/ \E c \in Known : CloseConversation(c)
    PROVE  SelectionInv'
<1>0. /\ SelectionTypes /\ ClosedForGood /\ ListKnown /\ ShownKnown /\ news \in Seq(Known)
      /\ active \in Selectable /\ living \subseteq Known /\ unborn \cap living = {}
  BY DEF SelectionInv, SelectionTypes
<1>1. CASE RefreshAgain
  <2>1. Joined(<<>>) /\ UNCHANGED <<living, unborn, list, active, stored, early, phase, news, noStates, misled>>
    BY <1>1 DEF RefreshAgain
  <2>2. QED
    BY <1>0, <2>1, JoinedByNone DEF SelectionInv, SelectionTypes, ClosedForGood, ListKnown, ShownKnown
<1>2. CASE ClosedHeard
  <2> DEFINE w == [closed |-> Head(news), was |-> active]
  <2>1. /\ news # <<>> /\ news' = Tail(news) /\ Joined(<<w>>)
        /\ UNCHANGED <<living, unborn, list, active, stored, early, phase, noStates, misled>>
    BY <1>2 DEF ClosedHeard
  <2>2. Head(news) \in Known /\ news' \in Seq(Known) /\ Range(news) = {Head(news)} \cup Range(news')
    BY <1>0, <2>1, RangeOfFirst
  <2>3. w \in Waiter /\ w.closed = Head(news) /\ w.was = active
    BY <1>0, <2>2 DEF Waiter
  <2> HIDE DEF w
  <2>4. /\ refresh' \in [at : {"none", "asked", "served"}, list : SUBSET Known, after : Seq(Waiter)]
        /\ refresh'.at # "none" /\ (refresh'.at = "served" <=> refresh.at = "served")
        /\ refresh'.list = refresh.list
        /\ HeardClosed(refresh'.after) = HeardClosed(refresh.after) \cup {Head(news)}
        /\ Leaving(refresh.after) \subseteq Leaving(refresh'.after)
        /\ active = Head(news) => active \in Leaving(refresh'.after)
    BY <2>1, <2>3, JoinedByOne
  <2>5. SelectionTypes'
    BY <1>0, <2>1, <2>2, <2>4 DEF SelectionTypes
  <2>6. ClosedForGood'
    BY <1>0, <2>1, <2>2, <2>4 DEF ClosedForGood
  <2>7. ListKnown'
    BY <1>0, <2>1, <2>2, <2>4 DEF ListKnown
  <2>8. ShownKnown'
    BY <1>0, <2>1, <2>2, <2>4 DEF ShownKnown
  <2>9. QED
    BY <2>5, <2>6, <2>7, <2>8 DEF SelectionInv
<1>3. ASSUME NEW c \in Known, CloseConversation(c) PROVE SelectionInv'
  <2>1. /\ c \in living /\ living' = living \ {c} /\ news' = Append(news, c)
        /\ UNCHANGED <<unborn, list, active, stored, early, phase, refresh, noStates, misled>>
    BY <1>3 DEF CloseConversation
  <2>2. news' \in Seq(Known) /\ Range(news') = Range(news) \cup {c}
    BY <1>0, <2>1, RangeOfMore
  <2>3. SelectionTypes'
    BY <1>0, <2>1, <2>2 DEF SelectionTypes
  <2>4. ClosedForGood'
    BY <1>0, <2>1, <2>2 DEF ClosedForGood
  <2>5. ListKnown'
    BY <1>0, <2>1, <2>2 DEF ListKnown
  <2>6. ShownKnown'
    BY <1>0, <2>1, <2>2 DEF ShownKnown
  <2>7. QED
    BY <2>3, <2>4, <2>5, <2>6 DEF SelectionInv
<1>4. QED
  BY <1>1, <1>2, <1>3

LEMMA ChosenStep ==
    ASSUME SelectionInv, Startup \/ \E c \in Known : PickConversation(c) \/ NewChat(c)
    PROVE  SelectionInv'
<1>0. /\ SelectionTypes /\ ClosedForGood /\ ListKnown /\ ShownKnown /\ list \subseteq Known /\ Known \subseteq Selectable
      /\ active \in Selectable /\ stored \in Selectable /\ living \subseteq Known /\ unborn \subseteq Known \ living
      /\ NoChoice \in Selectable
  BY DEF SelectionInv, SelectionTypes, Selectable
<1>1. ASSUME NEW c \in Known, PickConversation(c) PROVE SelectionInv'
  <2>1. /\ active' = c /\ stored' \in {NoChoice, c} /\ misled' = (misled \/ OutOfDate(c))
        /\ UNCHANGED <<living, unborn, list, early, refresh, news, noStates, phase>>
    BY <1>1 DEF PickConversation, Selected
  <2>2. misled' \in BOOLEAN /\ (~misled' => c \in living \cup Range(news) \cup {NoChoice})
    BY <2>1 DEF OutOfDate
  <2>3. QED
    BY <1>0, <2>1, <2>2 DEF SelectionInv, SelectionTypes, ClosedForGood, ListKnown, ShownKnown
<1>2. ASSUME NEW c \in Known, NewChat(c) PROVE SelectionInv'
  <2>1. /\ c \in unborn /\ living' = living \cup {c} /\ unborn' = unborn \ {c} /\ Joined(<<>>)
        /\ active' = c /\ stored' \in {NoChoice, c}
        /\ UNCHANGED <<list, early, news, noStates, misled, phase>>
    BY <1>2 DEF NewChat, Selected
  <2>2. /\ refresh' \in [at : {"none", "asked", "served"}, list : SUBSET Known, after : Seq(Waiter)]
        /\ (refresh'.at = "served" <=> refresh.at = "served")
        /\ refresh'.list = refresh.list /\ refresh'.after = refresh.after
    BY <2>1, JoinedByNone
  <2>3. SelectionTypes'
    BY <1>0, <2>1, <2>2 DEF SelectionTypes
  <2>4. ClosedForGood' /\ ListKnown' /\ ShownKnown'
    BY <1>0, <2>1, <2>2 DEF ClosedForGood, ListKnown, ShownKnown
  <2>5. QED
    BY <2>3, <2>4 DEF SelectionInv
<1>3. CASE Startup
  <2>1. /\ phase' = "done" /\ early' = NoChoice /\ misled' = (misled \/ OutOfDate(active'))
        /\ UNCHANGED <<living, unborn, list, refresh, news, noStates>>
    BY <1>3 DEF Startup
  <2>2. active' \in Selectable /\ stored' \in Selectable
    BY <1>0, <1>3 DEF Startup, Selected
  <2>3. misled' \in BOOLEAN /\ (~misled' => active' \in living \cup Range(news) \cup {NoChoice})
    BY <2>1 DEF OutOfDate
  <2>4. QED
    BY <1>0, <2>1, <2>2, <2>3 DEF SelectionInv, SelectionTypes, ClosedForGood, ListKnown, ShownKnown
<1>4. QED
  BY <1>1, <1>2, <1>3

\* Only the user, or the closing of the conversation shown, or the end of the start
\* moves the page.
MovedRightly ==
    active' # active => \/ \E c \in Known : PickConversation(c) \/ NewChat(c)
                        \/ active \notin living
                        \/ phase = "choosing" /\ active = early
ShownRightly == AllHeard /\ ~misled => active = NoChoice \/ active \in living

LEMMA SelectionSteps ==
    ASSUME SelectionInv, [SelectionNext]_selectionVars
    PROVE  SelectionInv' /\ MovedRightly
<1>1. CASE UNCHANGED selectionVars
  BY <1>1 DEF selectionVars, SelectionInv, SelectionTypes, ClosedForGood, ListKnown, ShownKnown, MovedRightly
<1>2. CASE SelectionNext
  <2>1. SelectionInv'
    BY <1>2, ServedStep, HeardStep, ChosenStep DEF SelectionNext
  <2>2. ASSUME StateArrives PROVE MovedRightly
    BY <2>2, StateComes DEF SelectionInv, ClosedForGood, MovedRightly
  <2>3. ASSUME Startup, active' # active PROVE active = early \/ active = NoChoice
    BY <2>3 DEF Startup
  <2>4. ASSUME Startup PROVE MovedRightly
    <3>1. NoChoice \notin living /\ phase = "choosing"
      BY <2>4, SelectionKnown DEF SelectionInv, SelectionTypes, Startup
    <3>2. QED
      BY <2>3, <2>4, <3>1 DEF MovedRightly
  <2>5. MovedRightly
    BY <1>2, <2>2, <2>4 DEF SelectionNext, MovedRightly, CloseConversation, RefreshAgain, StateServed, ClosedHeard, StateFails
  <2>6. QED
    BY <2>1, <2>5
<1>3. QED
  BY <1>1, <1>2

LEMMA SelectionShown == SelectionInv => ShownRightly
<1> SUFFICES ASSUME SelectionInv, AllHeard, ~misled PROVE active = NoChoice \/ active \in living
  BY DEF ShownRightly
<1>1. DOMAIN <<>> = {}
  BY EmptySeq, LenProperties
<1>2. Range(news) = {} /\ refresh.at = "none" /\ phase = "done"
  BY <1>1 DEF AllHeard, Range
<1>3. QED
  BY <1>2 DEF SelectionInv, ShownKnown

LEMMA SelectionTyped == SelectionInv => SelectionTypeOK
<1> SUFFICES ASSUME SelectionInv PROVE SelectionTypeOK
  OBVIOUS
<1>1. /\ refresh.at \in {"none", "asked", "served"} /\ refresh.list \subseteq Known
      /\ refresh.after \in Seq(Waiter) /\ news \in Seq(Known)
  BY DEF SelectionInv, SelectionTypes
<1>2. \A i \in DOMAIN refresh.after : refresh.after[i] \in Waiter
  BY <1>1, ElementOfSeq, LenProperties
<1>3. \A i \in DOMAIN news : news[i] \in Known
  BY <1>1, ElementOfSeq, LenProperties
<1>4. \A i \in DOMAIN refresh.after : refresh.after[i].closed \in Known /\ refresh.after[i].was \in Selectable
  BY <1>2 DEF Waiter
<1>5. QED
  BY <1>1, <1>3, <1>4 DEF SelectionInv, SelectionTypes, SelectionTypeOK

LEMMA SelectionOfParts ==
    /\ PartsInit => SelectionInit
    /\ [PartsNext]_partVars => [SelectionNext]_selectionVars
BY DEF PartsInit, PartsNext, partVars, serverVars, pageVars, linkVars

\* Whatever is closed, forked, started and listed while answers and news are on their
\* way, nothing moves the page to another conversation but the user, the end of the one
\* that is shown, or the end of the page's start; and once all news is heard the page
\* shows no conversation that is gone.
THEOREM SelectionRightCorrect == PartsSpec => SelectionRight
<1>1. PartsSpec => []SelectionInv
  BY SelectionStarts, SelectionSteps, SelectionOfParts, PTL DEF PartsSpec
<1>2. SelectionInv' => ShownRightly'
  BY SelectionShown, PTL
<1>3. ASSUME SelectionInv, SelectionInv', [SelectionNext]_selectionVars
      PROVE  [/\ active' # active => \/ \E c \in Known : PickConversation(c) \/ NewChat(c)
                                     \/ active \notin living
                                     \/ phase = "choosing" /\ active = early
              /\ AllHeard' /\ ~misled' => active' = NoChoice \/ active' \in living']_selectionVars
  <2>1. MovedRightly /\ ShownRightly'
    BY <1>2, <1>3, SelectionSteps
  <2>2. QED
    BY <2>1 DEF MovedRightly, ShownRightly
<1>4. QED
  BY <1>1, <1>3, SelectionOfParts, PTL DEF PartsSpec, SelectionRight

(***************************************************************************)
(* The types of the cards of agents.                                       *)
(***************************************************************************)

EntryRecord == [run : Run, card : Card, revised : BOOLEAN]
CardsInv ==
    /\ IsStore(bridge) /\ IsStore(cards) /\ IsStore(onPage)
    /\ entries \in Seq(EntryRecord) /\ unread \in Seq([run : Run, card : Card]) /\ Len(unread) <= MaxUnread
    /\ agents \subseteq Run /\ revived \subseteq forgotten /\ forgotten \subseteq Run
    /\ said \in 0..MaxSaid /\ lost \in 0..MaxLost /\ attaches \in 0..MaxAttaches

LEMMA CardFields ==
    ASSUME NEW c \in Card
    PROVE  c.rev \in Nat /\ c.status \in Status /\ c.summary \in Summary /\ c.at \in Nat
BY DEF Card

LEMMA NoCardsStore == IsStore(NoCards) /\ DOMAIN NoCards = {}
BY DEF NoCards, IsStore

LEMMA LaidStore ==
    ASSUME NEW store, IsStore(store), NEW r \in Run, NEW c \in Card
    PROVE  IsStore(Laid(store, r, c)) /\ DOMAIN Laid(store, r, c) = DOMAIN store \cup {r}
BY DEF IsStore, Laid

LEMMA PrunedStore ==
    ASSUME NEW store, IsStore(store)
    PROVE  IsStore(Prune(store)) /\ DOMAIN Prune(store) \subseteq DOMAIN store
<1> DEFINE done == {r \in DOMAIN store : Finished(store[r])}
           excess == Cardinality(DOMAIN store) - MaxRecords
           before(r) == Cardinality({q \in done : store[q].at < store[r].at})
           kept == {r \in DOMAIN store : ~(r \in done /\ before(r) < excess)}
<1>1. Prune(store) = IF Cardinality(DOMAIN store) <= MaxRecords THEN store ELSE [r \in kept |-> store[r]]
  BY DEF Prune
<1>2. kept \subseteq DOMAIN store
  OBVIOUS
<1> HIDE DEF kept
<1>3. QED
  BY <1>1, <1>2 DEF IsStore

LEMMA MergedCard ==
    ASSUME NEW store, IsStore(store), NEW r \in Run, NEW c \in Card, NEW revised \in BOOLEAN
    PROVE  Merged(store, r, c, revised) \in Card
<1>1. c.rev \in Nat /\ c.status \in Status /\ c.summary \in Summary /\ c.at \in Nat
  BY CardFields
<1>2. CASE r \notin DOMAIN store
  <2>1. (IF revised THEN c.rev ELSE 1) \in Nat
    BY <1>1
  <2>2. Merged(store, r, c, revised) = [c EXCEPT !.rev = IF revised THEN c.rev ELSE 1]
    BY <1>2 DEF Merged, Card
  <2>3. QED
    BY <2>1, <2>2 DEF Card
<1>3. CASE r \in DOMAIN store
  <2> DEFINE old == store[r]
             rev == Revision(old, c, revised)
             n == IF rev > old.rev THEN rev ELSE old.rev + 1
             s == IF c.summary = 0 THEN old.summary ELSE c.summary
  <2>1. old.rev \in Nat /\ old.summary \in Summary
    BY <1>3, CardFields DEF IsStore
  <2>2. n \in Nat /\ s \in Summary
    BY <1>1, <2>1 DEF Revision
  <2>3. Merged(store, r, c, revised) = [c EXCEPT !.rev = n, !.summary = s]
    BY <1>3 DEF Merged, Card
  <2> HIDE DEF n, s
  <2>4. QED
    BY <2>2, <2>3 DEF Card
<1>4. QED
  BY <1>2, <1>3

LEMMA AppliedStore ==
    ASSUME NEW store, IsStore(store), NEW r \in Run, NEW c \in Card, NEW revised \in BOOLEAN
    PROVE  IsStore(Applied(store, r, c, revised))
<1>1. Merged(store, r, c, revised) \in Card
  BY MergedCard
<1>2. IsStore(Laid(store, r, Merged(store, r, c, revised)))
  BY <1>1, LaidStore
<1>3. IsStore(Prune(Laid(store, r, Merged(store, r, c, revised))))
  BY <1>2, PrunedStore
<1>4. QED
  BY <1>3 DEF Applied

\* What the first i entries of a session say.
ReducedStep(es, f, i) ==
    IF i = 0 THEN [store |-> NoCards, records |-> NoCards]
    ELSE LET acc == f[i - 1]
             e == es[i]
             card == Merged(acc.store, e.run, e.card, e.revised)
         IN IF Taken(acc.store, e.run, e.card, e.revised)
            THEN [store |-> Prune(Laid(acc.store, e.run, card)), records |-> Laid(acc.records, e.run, card)]
            ELSE acc
ReducedTo(es, f, n) == f = [i \in 0..n |-> ReducedStep(es, f, i)]

LEMMA ReducedExists ==
    ASSUME NEW es, NEW n \in Nat
    PROVE  \E f : ReducedTo(es, f, n)
<1> DEFINE T == {m \in Nat : ~ \E f : ReducedTo(es, f, m)}
<1>1. SUFFICES ASSUME T # {} PROVE FALSE
  OBVIOUS
<1>2. PICK m \in T : \A k \in T : m <= k
  <2>1. T \subseteq Nat
    OBVIOUS
  <2> HIDE DEF T
  <2>2. QED
    BY <1>1, <2>1, LeastNumber
<1>3. m \in Nat /\ ~ \E f : ReducedTo(es, f, m)
  OBVIOUS
<1>4. CASE m = 0
  <2> DEFINE g == [i \in 0..0 |-> [store |-> NoCards, records |-> NoCards]]
  <2>1. ReducedTo(es, g, 0)
    BY DEF ReducedTo, ReducedStep
  <2>2. QED
    BY <1>3, <1>4, <2>1
<1>5. CASE m # 0
  <2>1. m - 1 \in Nat /\ m - 1 \notin T
    BY <1>2, <1>3, <1>5
  <2>2. PICK f : ReducedTo(es, f, m - 1)
    BY <2>1
  <2> DEFINE g == [i \in 0..m |-> IF i = m THEN ReducedStep(es, f, m) ELSE f[i]]
  <2>3. \A i \in 0..(m - 1) : f[i] = ReducedStep(es, f, i)
    BY <2>1, <2>2 DEF ReducedTo
  <2>4. \A i \in 0..(m - 1) : g[i] = f[i] /\ i \in 0..m
    BY <1>3, <2>1
  <2>5. ASSUME NEW i \in 0..m PROVE g[i] = ReducedStep(es, g, i)
    <3>1. CASE i = 0
      <4>1. g[0] = f[0] /\ f[0] = ReducedStep(es, f, 0)
        BY <2>1, <2>3, <2>4
      <4>2. QED
        BY <3>1, <4>1 DEF ReducedStep
    <3>2. CASE i # 0
      <4>1. i - 1 \in 0..(m - 1)
        BY <1>3, <3>2
      <4>2. g[i - 1] = f[i - 1]
        BY <2>4, <4>1
      <4>3. g[i] = ReducedStep(es, f, i)
        BY <1>3, <2>3, <3>2
      <4> HIDE DEF g
      <4>4. ReducedStep(es, f, i) = ReducedStep(es, g, i)
        BY <3>2, <4>2 DEF ReducedStep
      <4>5. QED
        BY <4>3, <4>4
    <3>3. QED
      BY <3>1, <3>2
  <2>6. ReducedTo(es, g, m)
    <3>1. g = [i \in 0..m |-> g[i]]
      OBVIOUS
    <3> HIDE DEF g
    <3>2. QED
      BY <2>5, <3>1 DEF ReducedTo
  <2>7. QED
    BY <1>3, <2>6
<1>6. QED
  BY <1>4, <1>5

\* The store a reading of the whole session ends with.
Held(es) == (CHOOSE f : ReducedTo(es, f, Len(es)))[Len(es)].store

LEMMA ReadingOf ==
    ASSUME NEW es, Len(es) \in Nat
    PROVE  \E f : /\ Reduced(es) = f[Len(es)].records /\ Held(es) = f[Len(es)].store
                  /\ \A i \in 0..Len(es) : f[i] = ReducedStep(es, f, i)
<1> DEFINE found == CHOOSE f : ReducedTo(es, f, Len(es))
<1>1. ReducedTo(es, found, Len(es))
  BY ReducedExists
<1>2. Reduced(es) = found[Len(es)].records
  BY DEF Reduced, ReducedTo, ReducedStep
<1>3. Held(es) = found[Len(es)].store
  BY DEF Held
<1> HIDE DEF found
<1>4. QED
  BY <1>1, <1>2, <1>3 DEF ReducedTo

\* The records of a session are cards, one for each agent of whom there is an entry.
LEMMA ReducedIsStore ==
    ASSUME NEW es \in Seq(EntryRecord)
    PROVE  /\ IsStore(Reduced(es))
           /\ \A i \in 1..Len(es) : es[i].run \in DOMAIN Reduced(es)
<1>1. Len(es) \in Nat /\ \A i \in 1..Len(es) : es[i] \in EntryRecord
  BY LenProperties, ElementOfSeq
<1>2. PICK f : /\ Reduced(es) = f[Len(es)].records
               /\ \A i \in 0..Len(es) : f[i] = ReducedStep(es, f, i)
  BY <1>1, ReadingOf
<1> DEFINE Good(i) == /\ IsStore(f[i].store) /\ IsStore(f[i].records)
                      /\ DOMAIN f[i].store \subseteq DOMAIN f[i].records
                      /\ \A j \in 1..i : es[j].run \in DOMAIN f[i].records
           T == {i \in 0..Len(es) : ~Good(i)}
<1>3. SUFFICES T = {}
  <2>1. Len(es) \in 0..Len(es)
    BY <1>1
  <2>2. QED
    BY <1>2, <2>1
<1>4. Good(0)
  <2>1. 0 \in 0..Len(es)
    BY <1>1
  <2>2. f[0] = ReducedStep(es, f, 0)
    BY <1>2, <2>1
  <2>3. f[0] = [store |-> NoCards, records |-> NoCards]
    BY <2>2 DEF ReducedStep
  <2>4. QED
    BY <2>3, NoCardsStore
<1>5. ASSUME NEW i \in 1..Len(es), Good(i - 1) PROVE Good(i)
  <2> DEFINE acc == f[i - 1]
             e == es[i]
             card == Merged(acc.store, e.run, e.card, e.revised)
  <2>1. e \in EntryRecord /\ e.run \in Run /\ e.card \in Card /\ e.revised \in BOOLEAN
    BY <1>1 DEF EntryRecord
  <2>2. IsStore(acc.store) /\ IsStore(acc.records) /\ DOMAIN acc.store \subseteq DOMAIN acc.records
    BY <1>5
  <2>3. \A j \in 1..(i - 1) : es[j].run \in DOMAIN acc.records
    BY <1>5
  <2>4. card \in Card
    BY <2>1, <2>2, MergedCard
  <2>5. f[i] = IF Taken(acc.store, e.run, e.card, e.revised)
               THEN [store |-> Prune(Laid(acc.store, e.run, card)), records |-> Laid(acc.records, e.run, card)]
               ELSE acc
    <3>1. i \in 0..Len(es) /\ i # 0
      BY <1>1
    <3>2. f[i] = ReducedStep(es, f, i)
      BY <1>2, <3>1
    <3>3. QED
      BY <3>1, <3>2 DEF ReducedStep
  <2> HIDE DEF Good
  <2>6. CASE Taken(acc.store, e.run, e.card, e.revised)
    <3>1. f[i].store = Prune(Laid(acc.store, e.run, card)) /\ f[i].records = Laid(acc.records, e.run, card)
      BY <2>5, <2>6
    <3> HIDE DEF acc, e, card
    <3>2. /\ IsStore(Laid(acc.store, e.run, card)) /\ DOMAIN Laid(acc.store, e.run, card) = DOMAIN acc.store \cup {e.run}
          /\ IsStore(Laid(acc.records, e.run, card)) /\ DOMAIN Laid(acc.records, e.run, card) = DOMAIN acc.records \cup {e.run}
      BY <2>1, <2>2, <2>4, LaidStore
    <3>3. IsStore(f[i].store) /\ DOMAIN f[i].store \subseteq DOMAIN acc.store \cup {e.run}
      BY <3>1, <3>2, PrunedStore
    <3>4. \A j \in 1..i : j \in 1..(i - 1) \/ es[j] = e
      BY <1>1 DEF e
    <3>5. \A j \in 1..i : es[j].run \in DOMAIN f[i].records
      BY <2>3, <3>1, <3>2, <3>4
    <3>6. QED
      BY <2>2, <3>1, <3>2, <3>3, <3>5 DEF Good
  <2>7. CASE ~Taken(acc.store, e.run, e.card, e.revised)
    <3>1. f[i] = acc
      BY <2>5, <2>7
    <3>2. e.run \in DOMAIN acc.records
      BY <2>2, <2>7 DEF Taken
    <3>3. \A j \in 1..i : j \in 1..(i - 1) \/ es[j] = e
      BY <1>1
    <3> HIDE DEF acc, e, card
    <3>4. \A j \in 1..i : es[j].run \in DOMAIN f[i].records
      BY <2>3, <3>1, <3>2, <3>3
    <3>5. QED
      BY <2>2, <3>1, <3>4 DEF Good
  <2>8. QED
    BY <2>6, <2>7
<1>6. SUFFICES ASSUME T # {} PROVE FALSE
  OBVIOUS
<1>7. PICK m \in T : \A k \in T : m <= k
  <2>1. T \subseteq Nat
    BY <1>1
  <2> HIDE DEF T
  <2>2. QED
    BY <1>6, <2>1, LeastNumber
<1>8. m \in 0..Len(es) /\ ~Good(m)
  OBVIOUS
<1> HIDE DEF Good
<1>9. m # 0
  BY <1>4, <1>8
<1>10. m \in 1..Len(es) /\ m - 1 \in 0..Len(es) /\ ~(m <= m - 1)
  BY <1>1, <1>8, <1>9
<1>11. Good(m - 1)
  BY <1>7, <1>10
<1>12. QED
  BY <1>5, <1>8, <1>10, <1>11

\* What a new runtime's store has once the first i entries' agents are in it.
SeededStep(f, i) ==
    IF i = 0 THEN NoCards
    ELSE IF FirstOf(i) THEN Applied(f[i - 1], entries[i].run, Reduced(entries)[entries[i].run], TRUE) ELSE f[i - 1]
SeededTo(f, n) == f = [i \in 0..n |-> SeededStep(f, i)]

LEMMA SeededExists ==
    ASSUME NEW n \in Nat
    PROVE  \E f : SeededTo(f, n)
<1> DEFINE T == {m \in Nat : ~ \E f : SeededTo(f, m)}
<1>1. SUFFICES ASSUME T # {} PROVE FALSE
  OBVIOUS
<1>2. PICK m \in T : \A k \in T : m <= k
  <2>1. T \subseteq Nat
    OBVIOUS
  <2> HIDE DEF T
  <2>2. QED
    BY <1>1, <2>1, LeastNumber
<1>3. m \in Nat /\ ~ \E f : SeededTo(f, m)
  OBVIOUS
<1>4. CASE m = 0
  <2> DEFINE g == [i \in 0..0 |-> NoCards]
  <2>1. SeededTo(g, 0)
    BY DEF SeededTo, SeededStep
  <2>2. QED
    BY <1>3, <1>4, <2>1
<1>5. CASE m # 0
  <2>1. m - 1 \in Nat /\ m - 1 \notin T
    BY <1>2, <1>3, <1>5
  <2>2. PICK f : SeededTo(f, m - 1)
    BY <2>1
  <2> DEFINE g == [i \in 0..m |-> IF i = m THEN SeededStep(f, m) ELSE f[i]]
  <2>3. \A i \in 0..(m - 1) : f[i] = SeededStep(f, i)
    BY <2>1, <2>2 DEF SeededTo
  <2>4. \A i \in 0..(m - 1) : g[i] = f[i] /\ i \in 0..m
    BY <1>3, <2>1
  <2>5. ASSUME NEW i \in 0..m PROVE g[i] = SeededStep(g, i)
    <3>1. CASE i = 0
      <4>1. g[0] = f[0] /\ f[0] = SeededStep(f, 0)
        BY <2>1, <2>3, <2>4
      <4>2. QED
        BY <3>1, <4>1 DEF SeededStep
    <3>2. CASE i # 0
      <4>1. i - 1 \in 0..(m - 1)
        BY <1>3, <3>2
      <4>2. g[i - 1] = f[i - 1]
        BY <2>4, <4>1
      <4>3. g[i] = SeededStep(f, i)
        BY <1>3, <2>3, <3>2
      <4> HIDE DEF g
      <4>4. SeededStep(f, i) = SeededStep(g, i)
        BY <3>2, <4>2 DEF SeededStep
      <4>5. QED
        BY <4>3, <4>4
    <3>3. QED
      BY <3>1, <3>2
  <2>6. SeededTo(g, m)
    <3>1. g = [i \in 0..m |-> g[i]]
      OBVIOUS
    <3> HIDE DEF g
    <3>2. QED
      BY <2>5, <3>1 DEF SeededTo
  <2>7. QED
    BY <1>3, <2>6
<1>6. QED
  BY <1>4, <1>5

LEMMA SeededRuns ==
    ASSUME Len(entries) \in Nat
    PROVE  \E f : /\ Seeded = f[Len(entries)]
                  /\ \A i \in 0..Len(entries) : f[i] = SeededStep(f, i)
<1> DEFINE found == CHOOSE f : SeededTo(f, Len(entries))
<1>1. SeededTo(found, Len(entries))
  BY SeededExists
<1>2. Seeded = found[Len(entries)]
  BY DEF Seeded, SeededTo, SeededStep
<1> HIDE DEF found
<1>3. QED
  BY <1>1, <1>2 DEF SeededTo

\* The store of a new runtime.
LEMMA SeededIsStore ==
    ASSUME entries \in Seq(EntryRecord)
    PROVE  IsStore(Seeded)
<1>1. Len(entries) \in Nat /\ \A i \in 1..Len(entries) : entries[i] \in EntryRecord
  BY LenProperties, ElementOfSeq
<1>2. PICK f : /\ Seeded = f[Len(entries)]
               /\ \A i \in 0..Len(entries) : f[i] = SeededStep(f, i)
  BY <1>1, SeededRuns
<1> DEFINE T == {i \in 0..Len(entries) : ~IsStore(f[i])}
<1>3. SUFFICES T = {}
  <2>1. Len(entries) \in 0..Len(entries)
    BY <1>1
  <2>2. QED
    BY <1>2, <2>1
<1>4. IsStore(f[0])
  <2>1. 0 \in 0..Len(entries)
    BY <1>1
  <2>2. f[0] = SeededStep(f, 0)
    BY <1>2, <2>1
  <2>3. f[0] = NoCards
    BY <2>2 DEF SeededStep
  <2>4. QED
    BY <2>3, NoCardsStore
<1>5. ASSUME NEW i \in 1..Len(entries), IsStore(f[i - 1]) PROVE IsStore(f[i])
  <2>1. entries[i].run \in Run
    BY <1>1 DEF EntryRecord
  <2>2. Reduced(entries)[entries[i].run] \in Card
    BY ReducedIsStore DEF IsStore
  <2>3. IsStore(Applied(f[i - 1], entries[i].run, Reduced(entries)[entries[i].run], TRUE))
    BY <1>5, <2>1, <2>2, AppliedStore
  <2>4. i \in 0..Len(entries) /\ i # 0
    BY <1>1
  <2>5. f[i] = SeededStep(f, i)
    BY <1>2, <2>4
  <2>6. QED
    BY <1>5, <2>3, <2>4, <2>5 DEF SeededStep
<1>6. SUFFICES ASSUME T # {} PROVE FALSE
  OBVIOUS
<1>7. PICK m \in T : \A k \in T : m <= k
  <2>1. T \subseteq Nat
    BY <1>1
  <2> HIDE DEF T
  <2>2. QED
    BY <1>6, <2>1, LeastNumber
<1>8. m \in 0..Len(entries) /\ ~IsStore(f[m])
  OBVIOUS
<1>9. m # 0
  BY <1>4, <1>8
<1>10. m \in 1..Len(entries) /\ m - 1 \in 0..Len(entries) /\ ~(m <= m - 1)
  BY <1>1, <1>8, <1>9
<1>11. IsStore(f[m - 1])
  BY <1>7, <1>10
<1>12. QED
  BY <1>5, <1>8, <1>10, <1>11

LEMMA CardsStarts == CardsInit => CardsInv
<1> SUFFICES ASSUME CardsInit PROVE CardsInv
  OBVIOUS
<1>1. /\ entries \in Seq(EntryRecord) /\ unread \in Seq([run : Run, card : Card])
      /\ DOMAIN entries = {} /\ DOMAIN unread = {} /\ Len(unread) = 0
  BY EmptySeq, LenProperties DEF CardsInit
<1>2. QED
  BY <1>1, NoCardsStore, CardsAssumption DEF CardsInit, CardsInv, CardsTypeOK

\* What is kept of an entry and its announcement.
LEMMA AppendedTyped ==
    ASSUME CardsInv, NEW r \in Run, NEW c \in Card, NEW revised \in BOOLEAN, Appended(r, c, revised)
    PROVE  /\ entries' \in Seq(EntryRecord) /\ unread' \in Seq([run : Run, card : Card])
           /\ Len(unread') <= MaxUnread /\ IsStore(cards') /\ onPage' = onPage
<1> DEFINE m == Merged(cards, r, c, revised)
<1>1. IsStore(cards) /\ entries \in Seq(EntryRecord) /\ unread \in Seq([run : Run, card : Card]) /\ Len(unread) <= MaxUnread
  BY DEF CardsInv, CardsTypeOK
<1>2. m \in Card /\ IsStore(Applied(cards, r, c, revised))
  BY <1>1, MergedCard, AppliedStore
<1> HIDE DEF m
<1>3. [run |-> r, card |-> c, revised |-> revised] \in EntryRecord
  BY DEF EntryRecord
<1>4. entries' \in Seq(EntryRecord) /\ IsStore(cards') /\ onPage' = onPage
  BY <1>1, <1>2, <1>3, AppendProperties DEF Appended
<1>5. CASE Taken(cards, r, c, revised)
  <2>1. Len(unread) < MaxUnread /\ unread' = Append(unread, [run |-> r, card |-> m])
    BY <1>5 DEF Appended, m
  <2>2. [run |-> r, card |-> m] \in [run : Run, card : Card]
    BY <1>2
  <2>3. unread' \in Seq([run : Run, card : Card]) /\ Len(unread') = Len(unread) + 1 /\ Len(unread) \in Nat
    BY <1>1, <2>1, <2>2, AppendProperties, LenProperties
  <2>4. Len(unread') <= MaxUnread
    BY <2>1, <2>3, CardsAssumption
  <2>5. QED
    BY <1>4, <2>3, <2>4
<1>6. CASE ~Taken(cards, r, c, revised)
  BY <1>1, <1>4, <1>6 DEF Appended
<1>7. QED
  BY <1>5, <1>6

LEMMA CardsTyped == CardsInv => CardsTypeOK
<1> SUFFICES ASSUME CardsInv PROVE CardsTypeOK
  OBVIOUS
<1>1. \A i \in DOMAIN entries : entries[i] \in EntryRecord
  BY ElementOfSeq, LenProperties DEF CardsInv
<1>2. \A i \in DOMAIN unread : unread[i] \in [run : Run, card : Card]
  BY ElementOfSeq, LenProperties DEF CardsInv
<1>3. QED
  BY <1>1, <1>2 DEF CardsInv, CardsTypeOK, EntryRecord

LEMMA EventTyped ==
    ASSUME CardsInv, NEW r \in Run, NEW type \in Events, NEW summary \in {0, 1}
    PROVE  EventCard(bridge, r, type, summary) \in Card
<1>1. r \in DOMAIN bridge => bridge[r] \in Card
  BY DEF CardsInv, IsStore
<1>2. r \in DOMAIN bridge => bridge[r].rev \in Nat /\ bridge[r].status \in Status
  BY <1>1, CardFields
<1> DEFINE n == IF r \in DOMAIN bridge THEN bridge[r].rev + 1 ELSE 1
           s == IF type \in Terminal THEN summary ELSE 0
           e == EventStatus(type, bridge, r)
<1>3. n \in Nat /\ s \in Summary
  BY <1>2 DEF Summary
<1>4. e \in Status
  BY <1>2 DEF EventStatus, Events, Status, Terminal
<1>5. said + 1 \in Nat
  BY CardsAssumption DEF CardsInv
<1>6. EventCard(bridge, r, type, summary) = [rev |-> n, status |-> e, summary |-> s, at |-> said + 1]
  BY DEF EventCard
<1> HIDE DEF n, s, e
<1>7. QED
  BY <1>3, <1>4, <1>5, <1>6 DEF Card

\* Only agents there are can be forgotten.
LEMMA HeardTyped ==
    ASSUME CardsInv, NEW r \in Run, NEW atOnce, atOnce \subseteq Run, Heard(r, atOnce)
    PROVE  revived' \subseteq forgotten' /\ forgotten' \subseteq Run
<1>1. DOMAIN bridge \subseteq Run /\ DOMAIN cards \subseteq Run
  BY DEF CardsInv, IsStore
<1>2. QED
  BY <1>1 DEF Heard, CardsInv

LEMMA CardsStep == CardsInv /\ [CardsNext]_cardVars => CardsInv'
<1> SUFFICES ASSUME CardsInv, [CardsNext]_cardVars PROVE CardsInv'
  OBVIOUS
<1>1. {MaxSaid, MaxLost, MaxUnread, MaxAttaches} \subseteq Nat
  BY CardsAssumption
<1>2. CASE UNCHANGED cardVars
  BY <1>2 DEF cardVars, CardsInv
<1>3. ASSUME said < MaxSaid, NEW r \in Run, NEW type \in Events, NEW summary \in {0, 1}, Publish(r, type, summary)
      PROVE  CardsInv'
  <2> DEFINE c == EventCard(bridge, r, type, summary)
             m == Merged(bridge, r, c, TRUE)
  <2>1. c \in Card /\ IsStore(bridge)
    BY EventTyped DEF CardsInv
  <2> HIDE DEF c
  <2>2. m \in Card /\ IsStore(Applied(bridge, r, c, TRUE))
    BY <2>1, MergedCard, AppliedStore
  <2>3. /\ agents' = agents \cup {r} /\ bridge' = Applied(bridge, r, c, TRUE)
        /\ Heard(r, {r} \ DOMAIN bridge') /\ UNCHANGED attaches
        /\ \/ Appended(r, m, TRUE) /\ UNCHANGED lost
           \/ lost < MaxLost /\ lost' = lost + 1 /\ UNCHANGED <<entries, cards, unread, onPage>>
    BY <1>3 DEF Publish, c
  <2> HIDE DEF m
  <2>4. /\ entries' \in Seq(EntryRecord) /\ unread' \in Seq([run : Run, card : Card])
        /\ Len(unread') <= MaxUnread /\ IsStore(cards') /\ onPage' = onPage /\ lost' \in 0..MaxLost
    <3>1. CASE Appended(r, m, TRUE) /\ UNCHANGED lost
      BY <2>2, <3>1, AppendedTyped DEF CardsInv
    <3>2. CASE lost < MaxLost /\ lost' = lost + 1 /\ UNCHANGED <<entries, cards, unread, onPage>>
      BY <1>1, <3>2 DEF CardsInv
    <3>3. QED
      BY <2>3, <3>1, <3>2
  <2>5. revived' \subseteq forgotten' /\ forgotten' \subseteq Run
    BY <2>3, HeardTyped
  <2>6. said' \in 0..MaxSaid
    BY <1>1, <1>3, <2>3 DEF Heard, CardsInv
  <2>7. QED
    BY <2>2, <2>3, <2>4, <2>5, <2>6 DEF CardsInv
<1>4. ASSUME said < MaxSaid, NEW r \in Run, NEW status \in Status, NEW summary \in Summary, Record(r, status, summary)
      PROVE  CardsInv'
  <2> DEFINE c == [rev |-> 1, status |-> status, summary |-> summary, at |-> said + 1]
  <2>1. /\ UNCHANGED <<agents, bridge, lost, attaches>> /\ Appended(r, c, FALSE) /\ Heard(r, {})
    BY <1>4 DEF Record
  <2>2. c \in Card
    BY <1>1 DEF CardsInv, Card
  <2> HIDE DEF c
  <2>3. /\ entries' \in Seq(EntryRecord) /\ unread' \in Seq([run : Run, card : Card])
        /\ Len(unread') <= MaxUnread /\ IsStore(cards') /\ onPage' = onPage
    BY <2>1, <2>2, AppendedTyped
  <2>4. revived' \subseteq forgotten' /\ forgotten' \subseteq Run
    BY <2>1, HeardTyped
  <2>5. said' \in 0..MaxSaid
    BY <1>1, <1>4, <2>1 DEF Heard, CardsInv
  <2>6. QED
    BY <2>1, <2>3, <2>4, <2>5 DEF CardsInv
<1>5. CASE Reattach
  <2>1. IsStore(Seeded) /\ IsStore(Reduced(entries)) /\ IsStore(NoCards)
    BY SeededIsStore, ReducedIsStore, NoCardsStore DEF CardsInv
  <2>2. forgotten' \subseteq Run /\ revived' \subseteq forgotten'
    BY <1>5, <2>1 DEF Reattach, IsStore, CardsInv
  <2>3. attaches' \in 0..MaxAttaches
    BY <1>1, <1>5 DEF Reattach, CardsInv
  <2>4. QED
    BY <1>5, <2>1, <2>2, <2>3 DEF Reattach, CardsInv
<1>6. CASE Deliver
  <2>1. unread # <<>> /\ unread' = Tail(unread) /\ UNCHANGED <<agents, bridge, entries, cards, said, lost, attaches, forgotten, revived>>
    BY <1>6 DEF Deliver
  <2>2. /\ Head(unread) \in [run : Run, card : Card] /\ unread' \in Seq([run : Run, card : Card])
        /\ Len(unread') <= MaxUnread
    <3>1. unread \in Seq([run : Run, card : Card]) /\ Len(unread) <= MaxUnread
      BY DEF CardsInv
    <3>2. Len(unread) \in Nat
      BY <3>1, LenProperties
    <3>3. /\ Head(unread) \in [run : Run, card : Card] /\ Tail(unread) \in Seq([run : Run, card : Card])
          /\ Len(Tail(unread)) = Len(unread) - 1
      BY <2>1, <3>1, HeadTailProperties
    <3>4. Len(unread) - 1 <= MaxUnread
      BY <1>1, <3>1, <3>2
    <3>5. QED
      BY <2>1, <3>3, <3>4
  <2>3. IsStore(onPage')
    <3>1. Head(unread).run \in Run /\ Head(unread).card \in Card
      BY <2>2
    <3>2. IsStore(Laid(onPage, Head(unread).run, Head(unread).card))
      BY <3>1, LaidStore DEF CardsInv
    <3>3. QED
      BY <1>6, <3>2 DEF Deliver, CardsInv
  <2>4. QED
    BY <2>1, <2>2, <2>3 DEF CardsInv
<1>7. CASE LoadCards
  <2>1. IsStore(Reduced(entries)) /\ IsStore(cards)
    BY ReducedIsStore DEF CardsInv
  <2>2. IsStore(Snapshot)
    BY <2>1 DEF IsStore, Snapshot, SnapshotOf
  <2>3. <<>> \in Seq([run : Run, card : Card]) /\ Len(<<>>) = 0
    BY EmptySeq
  <2>4. QED
    BY <1>1, <1>7, <2>2, <2>3 DEF LoadCards, CardsInv
<1>8. CASE CardsNext
  <2>1. /\ {"running", "completed", "cancelled"} \subseteq Status /\ {0, 2} \subseteq Summary
    BY DEF Status, Terminal, Summary
  <2>2. CASE said < MaxSaid /\ \E r \in Run : \E type \in Events : \E summary \in IF type = "completed" THEN {0, 1} ELSE {0} : Publish(r, type, summary)
    <3>1. PICK r \in Run, type \in Events : \E summary \in IF type = "completed" THEN {0, 1} ELSE {0} : Publish(r, type, summary)
      BY <2>2
    <3>2. PICK summary \in {0, 1} : Publish(r, type, summary)
      BY <3>1
    <3>3. QED
      BY <1>3, <2>2, <3>2
  <2>3. CASE said < MaxSaid /\ \E r \in Run : Record(r, "running", 0) \/ Record(r, "completed", 2) \/ Record(r, "cancelled", 0)
    BY <1>4, <2>1, <2>3
  <2>4. QED
    BY <1>5, <1>6, <1>7, <1>8, <2>2, <2>3 DEF CardsNext
<1>9. QED
  BY <1>2, <1>8

LEMMA CardsOfParts ==
    /\ PartsInit => CardsInit
    /\ [PartsNext]_partVars => [CardsNext]_cardVars
BY DEF PartsInit, PartsNext, partVars, serverVars, pageVars, linkVars

(***************************************************************************)
(* What the stores of agents' cards agree on.                              *)
(***************************************************************************)

\* Those a full store counts when it decides on q: all but those that finished before.
Beside(store, q) == {p \in DOMAIN store : ~(Finished(store[p]) /\ store[p].at < store[q].at)}

\* An agent stays unless it has finished and enough others are there that have not, or
\* have finished later.
LEMMA PruneKeeps ==
    ASSUME NEW store, IsFiniteSet(DOMAIN store)
    PROVE  /\ DOMAIN Prune(store) = {q \in DOMAIN store : Finished(store[q]) => Cardinality(Beside(store, q)) <= MaxRecords}
           /\ \A q \in DOMAIN Prune(store) : Prune(store)[q] = store[q]
<1> DEFINE D == DOMAIN store
           done == {r \in D : Finished(store[r])}
           excess == Cardinality(D) - MaxRecords
           before(r) == Cardinality({q \in done : store[q].at < store[r].at})
           kept == {r \in D : ~(r \in done /\ before(r) < excess)}
<1>1. Prune(store) = IF Cardinality(D) <= MaxRecords THEN store ELSE [r \in kept |-> store[r]]
  BY DEF Prune
<1>2. Cardinality(D) \in Nat /\ MaxRecords \in Nat
  BY FS_CardinalityType, CardsAssumption
<1>3. ASSUME NEW q \in D
      PROVE  Cardinality(Beside(store, q)) \in Nat /\ before(q) \in Nat /\ before(q) + Cardinality(Beside(store, q)) = Cardinality(D)
  <2> DEFINE B == {p \in done : store[p].at < store[q].at}
  <2>1. B \in SUBSET D /\ D \cap B = B
    OBVIOUS
  <2>2. Beside(store, q) = D \ B
    BY DEF Beside
  <2>3. IsFiniteSet(D) /\ IsFiniteSet(B)
    BY <2>1, FS_Subset
  <2>4. Cardinality(D \ B) = Cardinality(D) - Cardinality(B) /\ IsFiniteSet(D \ B)
    <3>1. IsFiniteSet(D \ B) /\ Cardinality(D \ B) = Cardinality(D) - Cardinality(D \cap B)
      BY <2>3, FS_Difference
    <3>2. QED
      BY <2>1, <3>1
  <2>5. Cardinality(D \ B) \in Nat /\ Cardinality(B) \in Nat
    BY <2>3, <2>4, FS_CardinalityType
  <2>6. before(q) = Cardinality(B)
    OBVIOUS
  <2> HIDE DEF D, B, before
  <2>7. QED
    BY <1>2, <2>2, <2>4, <2>5, <2>6
<1>4. CASE Cardinality(D) <= MaxRecords
  <2>1. Prune(store) = store
    BY <1>1, <1>4
  <2>2. \A q \in D : Cardinality(Beside(store, q)) <= MaxRecords
    <3> HIDE DEF D, before
    <3>1. QED
      BY <1>2, <1>3, <1>4
  <2>3. QED
    BY <2>1, <2>2
<1>5. CASE ~(Cardinality(D) <= MaxRecords)
  <2>1. Prune(store) = [r \in kept |-> store[r]]
    BY <1>1, <1>5
  <2>2. \A q \in D : before(q) < excess <=> ~(Cardinality(Beside(store, q)) <= MaxRecords)
    <3> HIDE DEF D, before
    <3>1. QED
      BY <1>2, <1>3
  <2>3. kept = {q \in D : Finished(store[q]) => Cardinality(Beside(store, q)) <= MaxRecords}
    <3> HIDE DEF before, excess
    <3>1. QED
      BY <2>2
  <2> HIDE DEF kept
  <2>4. DOMAIN Prune(store) = kept /\ \A q \in kept : Prune(store)[q] = store[q]
    BY <2>1
  <2>5. QED
    BY <2>3, <2>4
<1>6. QED
  BY <1>4, <1>5

\* A store has the records' own cards, and of every agent at work.
Fits(store, records) ==
    /\ DOMAIN store \subseteq DOMAIN records /\ \A r \in DOMAIN store : store[r] = records[r]
    /\ \A r \in DOMAIN records \ DOMAIN store : Finished(records[r])

\* Two stores that fit the records have the same of the agents A of this process: of
\* those the records say nothing older than of any other agent.
AgreeOn(here, there, records, A, n) ==
    /\ IsStore(records) /\ IsFiniteSet(DOMAIN records)
    /\ Fits(here, records) /\ Fits(there, records)
    /\ \A q \in A : q \in DOMAIN here <=> q \in DOMAIN there
    /\ \A q \in DOMAIN records : records[q].at <= n
    /\ \A q \in DOMAIN records \ A : \A p \in DOMAIN records \cap A : records[q].at < records[p].at

LEMMA FitsAfter ==
    ASSUME NEW store, NEW records, Fits(store, records), IsFiniteSet(DOMAIN records)
    PROVE  Fits(Prune(store), records)
<1>1. IsFiniteSet(DOMAIN store)
  BY FS_Subset DEF Fits
<1>2. QED
  BY <1>1, PruneKeeps DEF Fits

LEMMA PruneAgrees ==
    ASSUME NEW here, NEW there, NEW records, NEW A, NEW n, AgreeOn(here, there, records, A, n)
    PROVE  AgreeOn(Prune(here), Prune(there), records, A, n)
<1>1. IsFiniteSet(DOMAIN here) /\ IsFiniteSet(DOMAIN there)
  BY FS_Subset DEF AgreeOn, Fits
<1>2. Fits(Prune(here), records) /\ Fits(Prune(there), records)
  BY FitsAfter DEF AgreeOn
<1>3. ASSUME NEW q \in A, q \in DOMAIN here
      PROVE  Beside(here, q) = Beside(there, q)
  <2>1. q \in DOMAIN there /\ q \in DOMAIN records /\ here[q] = records[q] /\ there[q] = records[q]
    BY <1>3 DEF AgreeOn, Fits
  <2>2. ASSUME NEW p \in Beside(here, q) PROVE p \in Beside(there, q)
    <3>1. p \in DOMAIN here /\ p \in DOMAIN records /\ here[p] = records[p] /\ ~(Finished(records[p]) /\ records[p].at < records[q].at)
      BY <2>1 DEF Beside, AgreeOn, Fits
    <3>2. p \in DOMAIN there
      BY <2>1, <3>1 DEF AgreeOn, Fits
    <3>3. there[p] = records[p]
      BY <3>2 DEF AgreeOn, Fits
    <3>4. QED
      BY <2>1, <3>1, <3>2, <3>3 DEF Beside
  <2>3. ASSUME NEW p \in Beside(there, q) PROVE p \in Beside(here, q)
    <3>1. p \in DOMAIN there /\ p \in DOMAIN records /\ there[p] = records[p] /\ ~(Finished(records[p]) /\ records[p].at < records[q].at)
      BY <2>1 DEF Beside, AgreeOn, Fits
    <3>2. p \in DOMAIN here
      BY <2>1, <3>1 DEF AgreeOn, Fits
    <3>3. here[p] = records[p]
      BY <3>2 DEF AgreeOn, Fits
    <3>4. QED
      BY <2>1, <3>1, <3>2, <3>3 DEF Beside
  <2>4. QED
    BY <2>2, <2>3
<1>4. ASSUME NEW q \in A PROVE q \in DOMAIN Prune(here) <=> q \in DOMAIN Prune(there)
  <2>1. q \in DOMAIN here <=> q \in DOMAIN there
    BY DEF AgreeOn
  <2>2. CASE q \in DOMAIN here
    <3>1. here[q] = there[q] /\ Beside(here, q) = Beside(there, q) /\ q \in DOMAIN there
      BY <1>3, <2>1, <2>2 DEF AgreeOn, Fits
    <3>2. QED
      BY <1>1, <2>2, <3>1, PruneKeeps
  <2>3. CASE q \notin DOMAIN here
    BY <1>1, <2>1, <2>3, PruneKeeps
  <2>4. QED
    BY <2>2, <2>3
<1>5. QED
  BY <1>2, <1>4 DEF AgreeOn

\* An entry that both take.
LEMMA AgreeTaken ==
    ASSUME NEW here, NEW there, NEW records, NEW A, NEW n \in Nat, AgreeOn(here, there, records, A, n),
           NEW r \in Run, NEW m \in Card, m.at = n + 1, r \in A \/ r \notin DOMAIN records
    PROVE  AgreeOn(Prune(Laid(here, r, m)), Prune(Laid(there, r, m)), Laid(records, r, m), A \cup {r}, n + 1)
<1> DEFINE h == Laid(here, r, m)
           t == Laid(there, r, m)
           R == Laid(records, r, m)
<1>1. IsStore(records) /\ \A q \in DOMAIN records : records[q].at \in Nat /\ records[q].at <= n
  BY CardFields DEF AgreeOn, IsStore
<1>2. IsStore(R)
  BY <1>1, LaidStore
<1>3. /\ DOMAIN R = DOMAIN records \cup {r} /\ R[r] = m /\ \A q \in DOMAIN records \ {r} : R[q] = records[q]
      /\ DOMAIN h = DOMAIN here \cup {r} /\ h[r] = m /\ \A q \in DOMAIN here \ {r} : h[q] = here[q]
      /\ DOMAIN t = DOMAIN there \cup {r} /\ t[r] = m /\ \A q \in DOMAIN there \ {r} : t[q] = there[q]
  BY DEF Laid
<1>4. IsFiniteSet(DOMAIN R)
  BY <1>3, FS_AddElement DEF AgreeOn
<1> HIDE DEF h, t, R
<1>5. Fits(h, R)
  BY <1>3 DEF AgreeOn, Fits
<1>6. Fits(t, R)
  BY <1>3 DEF AgreeOn, Fits
<1>7. \A q \in A \cup {r} : q \in DOMAIN h <=> q \in DOMAIN t
  BY <1>3 DEF AgreeOn
<1>8. \A q \in DOMAIN R : R[q].at <= n + 1
  BY <1>1, <1>3
<1>9. ASSUME NEW q \in DOMAIN R \ (A \cup {r}), NEW p \in DOMAIN R \cap (A \cup {r})
      PROVE  R[q].at < R[p].at
  <2>1. q \in DOMAIN records \ A /\ R[q] = records[q] /\ records[q].at \in Nat /\ records[q].at <= n
    BY <1>1, <1>3
  <2>2. CASE p = r
    BY <1>3, <2>1, <2>2
  <2>3. CASE p # r
    BY <1>3, <2>1, <2>3 DEF AgreeOn
  <2>4. QED
    BY <2>2, <2>3
<1>10. AgreeOn(h, t, R, A \cup {r}, n + 1)
  BY <1>2, <1>4, <1>5, <1>6, <1>7, <1>8, <1>9 DEF AgreeOn
<1>11. QED
  BY <1>10, PruneAgrees DEF h, t, R

\* Nothing is taken, but time goes by.
LEMMA AgreeStays ==
    ASSUME NEW here, NEW there, NEW records, NEW A, NEW n \in Nat, AgreeOn(here, there, records, A, n),
           NEW r, r \in A \/ r \notin DOMAIN records
    PROVE  AgreeOn(here, there, records, A \cup {r}, n + 1)
<1>1. \A q \in DOMAIN records : records[q].at \in Nat
  BY CardFields DEF AgreeOn, IsStore
<1>2. \A q \in DOMAIN records : records[q].at <= n + 1
  BY <1>1 DEF AgreeOn
<1>3. \A q \in A \cup {r} : q \in DOMAIN here <=> q \in DOMAIN there
  BY DEF AgreeOn, Fits
<1>4. DOMAIN records \cap (A \cup {r}) = DOMAIN records \cap A
  OBVIOUS
<1>5. \A q \in DOMAIN records \ (A \cup {r}) : \A p \in DOMAIN records \cap (A \cup {r}) : records[q].at < records[p].at
  BY <1>4 DEF AgreeOn
<1>6. QED
  BY <1>2, <1>3, <1>5 DEF AgreeOn

(***************************************************************************)
(* What one more entry changes.                                            *)
(***************************************************************************)

\* Sessions that begin alike are read alike.
Reads(es, f, n) == \A i \in 0..n : f[i] = ReducedStep(es, f, i)
Alike(es, more, n) == \A i \in 1..n : es[i] = more[i]

LEMMA ReadAlike ==
    ASSUME NEW es, NEW more, NEW n \in Nat, NEW f, NEW g,
           Alike(es, more, n), Reads(es, f, n), Reads(more, g, n)
    PROVE  \A i \in 0..n : f[i] = g[i]
<1> DEFINE T == {i \in 0..n : f[i] # g[i]}
<1>1. SUFFICES ASSUME T # {} PROVE FALSE
  OBVIOUS
<1>2. PICK m \in T : \A k \in T : m <= k
  <2>1. T \subseteq Nat
    OBVIOUS
  <2> HIDE DEF T
  <2>2. QED
    BY <1>1, <2>1, LeastNumber
<1>3. m \in 0..n /\ f[m] # g[m]
  OBVIOUS
<1>4. f[m] = ReducedStep(es, f, m) /\ g[m] = ReducedStep(more, g, m)
  BY <1>3 DEF Reads
<1>5. m # 0
  BY <1>3, <1>4 DEF ReducedStep
<1>6. m \in 1..n /\ m - 1 \in 0..n /\ ~(m <= m - 1)
  BY <1>3, <1>5
<1>7. f[m - 1] = g[m - 1] /\ es[m] = more[m]
  BY <1>2, <1>6 DEF Alike
<1> HIDE DEF T
<1>8. ReducedStep(es, f, m) = ReducedStep(more, g, m)
  BY <1>5, <1>7 DEF ReducedStep
<1>9. QED
  BY <1>3, <1>4, <1>8

LEMMA ReducedEmpty == Held(<<>>) = NoCards /\ Reduced(<<>>) = NoCards
<1>1. Len(<<>>) = 0
  OBVIOUS
<1>2. PICK f : /\ Reduced(<<>>) = f[0].records /\ Held(<<>>) = f[0].store
               /\ \A i \in 0..0 : f[i] = ReducedStep(<<>>, f, i)
  BY <1>1, ReadingOf
<1>3. f[0] = [store |-> NoCards, records |-> NoCards]
  BY <1>2 DEF ReducedStep
<1>4. QED
  BY <1>2, <1>3

LEMMA ReducedMore ==
    ASSUME NEW es \in Seq(EntryRecord), NEW e \in EntryRecord
    PROVE  IF Taken(Held(es), e.run, e.card, e.revised)
           THEN /\ Held(Append(es, e)) = Prune(Laid(Held(es), e.run, Merged(Held(es), e.run, e.card, e.revised)))
                /\ Reduced(Append(es, e)) = Laid(Reduced(es), e.run, Merged(Held(es), e.run, e.card, e.revised))
           ELSE Held(Append(es, e)) = Held(es) /\ Reduced(Append(es, e)) = Reduced(es)
<1> DEFINE more == Append(es, e)
           n == Len(es)
<1>1. n \in Nat /\ Len(more) = n + 1 /\ more[n + 1] = e /\ \A i \in 1..n : es[i] = more[i]
  BY AppendProperties, LenProperties
<1> HIDE DEF more, n
<1>2. PICK f : /\ Reduced(es) = f[n].records /\ Held(es) = f[n].store
               /\ \A i \in 0..n : f[i] = ReducedStep(es, f, i)
  BY <1>1, ReadingOf DEF n
<1>3. n + 1 \in Nat /\ n + 1 \in 0..(n + 1) /\ n \in 0..n /\ n + 1 # 0 /\ (n + 1) - 1 = n /\ \A i \in 0..n : i \in 0..(n + 1)
  BY <1>1
<1>4. PICK g : /\ Reduced(more) = g[n + 1].records /\ Held(more) = g[n + 1].store
               /\ \A i \in 0..(n + 1) : g[i] = ReducedStep(more, g, i)
  BY <1>1, <1>3, ReadingOf
<1>5. f[n] = g[n]
  <2>1. Reads(more, g, n)
    BY <1>3, <1>4 DEF Reads
  <2>2. n \in Nat /\ Alike(es, more, n) /\ Reads(es, f, n)
    BY <1>1, <1>2 DEF Alike, Reads
  <2>3. \A i \in 0..n : f[i] = g[i]
    BY <2>1, <2>2, ReadAlike
  <2>4. QED
    BY <1>3, <2>3
<1>6. g[n + 1] = ReducedStep(more, g, n + 1)
  BY <1>3, <1>4
<1> DEFINE acc == f[n]
           card == Merged(acc.store, e.run, e.card, e.revised)
<1>7. g[n + 1] = IF Taken(acc.store, e.run, e.card, e.revised)
                 THEN [store |-> Prune(Laid(acc.store, e.run, card)), records |-> Laid(acc.records, e.run, card)]
                 ELSE acc
  BY <1>1, <1>3, <1>5, <1>6 DEF ReducedStep
<1>8. acc.store = Held(es) /\ acc.records = Reduced(es)
  BY <1>2
<1> HIDE DEF acc
<1>9. CASE Taken(acc.store, e.run, e.card, e.revised)
  <2>1. g[n + 1].store = Prune(Laid(acc.store, e.run, card)) /\ g[n + 1].records = Laid(acc.records, e.run, card)
    BY <1>7, <1>9
  <2>2. QED
    BY <1>4, <1>8, <1>9, <2>1 DEF more
<1>10. CASE ~Taken(acc.store, e.run, e.card, e.revised)
  <2>1. g[n + 1] = acc
    BY <1>7, <1>10
  <2>2. QED
    BY <1>4, <1>8, <1>10, <2>1 DEF more
<1>11. QED
  BY <1>9, <1>10

LEMMA MergedAlike ==
    ASSUME NEW here, NEW there, NEW r, NEW c, NEW revised,
           r \in DOMAIN here <=> r \in DOMAIN there,
           r \in DOMAIN here => here[r] = there[r]
    PROVE  /\ Taken(here, r, c, revised) <=> Taken(there, r, c, revised)
           /\ Merged(here, r, c, revised) = Merged(there, r, c, revised)
BY DEF Taken, Merged

LEMMA MergedAt ==
    ASSUME NEW store, NEW r \in Run, NEW c \in Card, NEW revised \in BOOLEAN
    PROVE  Merged(store, r, c, revised).at = c.at
<1>1. CASE r \notin DOMAIN store
  <2>1. Merged(store, r, c, revised) = [c EXCEPT !.rev = IF revised THEN c.rev ELSE 1]
    BY <1>1 DEF Merged, Card
  <2>2. QED
    BY <2>1 DEF Card
<1>2. CASE r \in DOMAIN store
  <2> DEFINE old == store[r]
             rev == Revision(old, c, revised)
             n == IF rev > old.rev THEN rev ELSE old.rev + 1
             s == IF c.summary = 0 THEN old.summary ELSE c.summary
  <2>1. Merged(store, r, c, revised) = [c EXCEPT !.rev = n, !.summary = s]
    BY <1>2 DEF Merged, Card
  <2> HIDE DEF n, s
  <2>2. QED
    BY <2>1 DEF Card
<1>3. QED
  BY <1>1, <1>2

\* A card that is older, by its revision, and has not ended otherwise.
Before(a, b) == a.rev <= b.rev /\ (Finished(a) => b.status = a.status)

LEMMA MergedAfter ==
    ASSUME NEW store, NEW r \in DOMAIN store, store[r] \in Card, NEW c \in Card, NEW revised \in BOOLEAN,
           Taken(store, r, c, revised)
    PROVE  Before(store[r], Merged(store, r, c, revised))
<1> DEFINE old == store[r]
           rev == Revision(old, c, revised)
           n == IF rev > old.rev THEN rev ELSE old.rev + 1
           s == IF c.summary = 0 THEN old.summary ELSE c.summary
<1>1. old.rev \in Nat /\ c.rev \in Nat
  BY CardFields
<1>2. n \in Nat /\ old.rev <= n
  BY <1>1 DEF Revision
<1>3. Merged(store, r, c, revised) = [c EXCEPT !.rev = n, !.summary = s]
  BY DEF Merged, Card
<1>4. Finished(old) => c.status = old.status
  BY DEF Taken
<1> HIDE DEF n, s, old
<1>5. Merged(store, r, c, revised).rev = n /\ Merged(store, r, c, revised).status = c.status
  BY <1>3 DEF Card
<1>6. QED
  BY <1>2, <1>4, <1>5 DEF Before, old

\* The store of a new runtime fits the session's records.
LEMMA SeededFits ==
    ASSUME entries \in Seq(EntryRecord), IsStore(Reduced(entries)), IsFiniteSet(DOMAIN Reduced(entries)),
           DOMAIN Reduced(entries) = {entries[i].run : i \in 1..Len(entries)}
    PROVE  Fits(Seeded, Reduced(entries))
<1> DEFINE n == Len(entries)
           R == Reduced(entries)
           Early(i) == {entries[j].run : j \in 1..i}
           Part(i) == [r \in Early(i) |-> R[r]]
<1>1. n \in Nat /\ \A i \in 1..n : entries[i] \in EntryRecord /\ entries[i].run \in Run /\ R[entries[i].run] \in Card
  <2>1. n \in Nat /\ \A i \in 1..n : entries[i] \in EntryRecord
    BY LenProperties, ElementOfSeq
  <2>2. QED
    BY <2>1 DEF EntryRecord, IsStore
<1>2. PICK f : Seeded = f[n] /\ \A i \in 0..n : f[i] = SeededStep(f, i)
  BY <1>1, SeededRuns
<1> DEFINE T == {i \in 0..n : ~Fits(f[i], Part(i))}
<1>3. SUFFICES T = {}
  <2>1. n \in 0..n
    BY <1>1
  <2>2. Fits(f[n], Part(n))
    BY <2>1
  <2>3. DOMAIN Part(n) = DOMAIN R /\ \A r \in DOMAIN R : Part(n)[r] = R[r]
    OBVIOUS
  <2> HIDE DEF Part, R, n
  <2>4. Fits(f[n], R)
    BY <2>2, <2>3 DEF Fits
  <2>5. QED
    BY <1>2, <2>4 DEF R
<1>4. Fits(f[0], Part(0))
  <2>1. 0 \in 0..n
    BY <1>1
  <2>2. f[0] = SeededStep(f, 0)
    BY <1>2, <2>1
  <2>3. f[0] = NoCards
    BY <2>2 DEF SeededStep
  <2>4. DOMAIN Part(0) = {}
    OBVIOUS
  <2> HIDE DEF Part
  <2>5. QED
    BY <2>3, <2>4, NoCardsStore DEF Fits
<1>5. ASSUME NEW i \in 1..n, Fits(f[i - 1], Part(i - 1)) PROVE Fits(f[i], Part(i))
  <2> DEFINE r == entries[i].run
             before == f[i - 1]
  <2>1. r \in Run /\ R[r] \in Card /\ i \in 0..n /\ i # 0
    BY <1>1
  <2>2. Early(i) = Early(i - 1) \cup {r}
    BY <1>1
  <2>3. /\ DOMAIN Part(i) = Early(i) /\ \A q \in Early(i) : Part(i)[q] = R[q]
        /\ DOMAIN Part(i - 1) = Early(i - 1) /\ \A q \in Early(i - 1) : Part(i - 1)[q] = R[q]
    OBVIOUS
  <2>4. IsFiniteSet(DOMAIN Part(i))
    <3>1. Early(i) \subseteq DOMAIN R
      BY <1>1
    <3>2. QED
      BY <2>3, <3>1, FS_Subset
  <2>5. f[i] = IF FirstOf(i) THEN Applied(before, r, R[r], TRUE) ELSE before
    <3>1. f[i] = SeededStep(f, i)
      BY <1>2, <2>1
    <3>2. QED
      BY <2>1, <3>1 DEF SeededStep
  <2>6. FirstOf(i) <=> r \notin Early(i - 1)
    BY DEF FirstOf
  <2> HIDE DEF r, before, R, Early, Part
  <2>7. CASE FirstOf(i)
    <3>1. r \notin DOMAIN before
      BY <1>5, <2>3, <2>6, <2>7 DEF Fits, before
    <3>2. Taken(before, r, R[r], TRUE)
      BY <3>1 DEF Taken
    <3>3. Merged(before, r, R[r], TRUE) = R[r]
      BY <2>1, <3>1 DEF Merged, Card
    <3>4. f[i] = Prune(Laid(before, r, R[r]))
      BY <2>5, <2>7, <3>2, <3>3 DEF Applied
    <3>5. Fits(Laid(before, r, R[r]), Part(i))
      <4>1. /\ DOMAIN Laid(before, r, R[r]) = DOMAIN before \cup {r} /\ Laid(before, r, R[r])[r] = R[r]
            /\ \A q \in DOMAIN before : Laid(before, r, R[r])[q] = IF q = r THEN R[r] ELSE before[q]
        BY DEF Laid
      <4>2. QED
        BY <1>5, <2>2, <2>3, <3>1, <4>1 DEF Fits, before
    <3>6. QED
      BY <2>4, <3>4, <3>5, FitsAfter
  <2>8. CASE ~FirstOf(i)
    <3>1. Early(i) = Early(i - 1) /\ f[i] = before
      BY <2>2, <2>5, <2>6, <2>8
    <3>2. QED
      BY <1>5, <2>3, <3>1 DEF Fits, before
  <2>9. QED
    BY <2>7, <2>8
<1>6. SUFFICES ASSUME T # {} PROVE FALSE
  OBVIOUS
<1>7. PICK m \in T : \A k \in T : m <= k
  <2>1. T \subseteq Nat
    BY <1>1
  <2> HIDE DEF T
  <2>2. QED
    BY <1>6, <2>1, LeastNumber
<1>8. m \in 0..n /\ ~Fits(f[m], Part(m))
  OBVIOUS
<1> HIDE DEF Part
<1>9. m # 0
  BY <1>4, <1>8
<1>10. m \in 1..n /\ m - 1 \in 0..n /\ ~(m <= m - 1)
  BY <1>1, <1>8, <1>9
<1>11. Fits(f[m - 1], Part(m - 1))
  BY <1>7, <1>10
<1>12. QED
  BY <1>5, <1>8, <1>10, <1>11

(***************************************************************************)
(* What the page shows, and what is on its way to it.                      *)
(***************************************************************************)

Announcement == [run : Run, card : Card]

LEMMA BeforeItself == ASSUME NEW a \in Card PROVE Before(a, a)
BY CardFields DEF Before

LEMMA BeforeBoth ==
    ASSUME NEW a \in Card, NEW b \in Card, NEW c \in Card, Before(a, b), Before(b, c)
    PROVE  Before(a, c)
<1>1. a.rev \in Nat /\ b.rev \in Nat /\ c.rev \in Nat
  BY CardFields
<1>2. QED
  BY <1>1 DEF Before, Finished

\* Of one agent: the page's card, those announced one after the other and the records'
\* own; the last is the records'.
InOrder(paged, coming, records, r) ==
    /\ r \in DOMAIN paged => Before(paged[r], records[r])
    /\ \A i \in 1..Len(coming) : coming[i].run = r =>
          /\ Before(coming[i].card, records[r])
          /\ r \in DOMAIN paged => Before(paged[r], coming[i].card)
          /\ \A j \in 1..Len(coming) : j > i /\ coming[j].run = r => Before(coming[i].card, coming[j].card)
          /\ (\A j \in 1..Len(coming) : j > i => coming[j].run # r) => coming[i].card = records[r]
    /\ (\A i \in 1..Len(coming) : coming[i].run # r) => r \in DOMAIN paged /\ paged[r] = records[r]

\* Of all agents but those `free'.
PageFollows(paged, coming, records, free) ==
    /\ IsStore(paged) /\ coming \in Seq(Announcement) /\ IsStore(records)
    /\ DOMAIN paged \subseteq DOMAIN records
    /\ \A i \in 1..Len(coming) : coming[i].run \in DOMAIN records
    /\ \A r \in DOMAIN records : r \in DOMAIN paged \/ \E i \in 1..Len(coming) : coming[i].run = r
    /\ \A r \in DOMAIN records \ free : InOrder(paged, coming, records, r)

\* A card is taken and announced.
LEMMA PageTakes ==
    ASSUME NEW paged, NEW coming, NEW records, NEW free, PageFollows(paged, coming, records, free),
           NEW r \in Run, NEW m \in Card, NEW more, free \subseteq more,
           r \in DOMAIN records \ more => Before(records[r], m)
    PROVE  PageFollows(paged, Append(coming, [run |-> r, card |-> m]), Laid(records, r, m), more)
<1> DEFINE n == Len(coming)
           e == [run |-> r, card |-> m]
           U == Append(coming, e)
           R == Laid(records, r, m)
<1>1. IsStore(paged) /\ coming \in Seq(Announcement) /\ IsStore(records) /\ e \in Announcement
  BY DEF PageFollows, Announcement
<1>2. /\ n \in Nat /\ U \in Seq(Announcement) /\ Len(U) = n + 1 /\ U[n + 1] = e
      /\ \A i \in 1..n : U[i] = coming[i] /\ coming[i] \in Announcement
  BY <1>1, AppendProperties, LenProperties, ElementOfSeq
<1>3. \A i \in 1..(n + 1) : i \in 1..n \/ i = n + 1
  BY <1>2
<1>4. n + 1 \in 1..(n + 1) /\ \A i \in 1..n : i \in 1..(n + 1) /\ n + 1 > i /\ ~(i > n + 1)
  BY <1>2
<1>5. e.run = r /\ e.card = m
  OBVIOUS
<1>6. /\ IsStore(R) /\ DOMAIN R = DOMAIN records \cup {r} /\ R[r] = m
      /\ \A q \in DOMAIN records \ {r} : R[q] = records[q]
  <2>1. IsStore(R)
    BY <1>1, LaidStore
  <2>2. QED
    BY <2>1 DEF Laid
<1> HIDE DEF n, e, U, R
<1>7. /\ DOMAIN paged \subseteq DOMAIN R
      /\ \A i \in 1..(n + 1) : U[i].run \in DOMAIN R
      /\ \A q \in DOMAIN R : q \in DOMAIN paged \/ \E i \in 1..(n + 1) : U[i].run = q
  BY <1>2, <1>3, <1>4, <1>5, <1>6 DEF PageFollows, n
<1>8. ASSUME NEW q \in DOMAIN R \ more, q # r PROVE InOrder(paged, U, R, q)
  <2>1. InOrder(paged, coming, records, q) /\ R[q] = records[q]
    BY <1>6, <1>8 DEF PageFollows
  <2>2. U[n + 1].run # q
    BY <1>2, <1>5, <1>8
  <2>3. ASSUME NEW i \in 1..(n + 1), U[i].run = q
        PROVE  /\ Before(U[i].card, R[q])
               /\ q \in DOMAIN paged => Before(paged[q], U[i].card)
               /\ \A j \in 1..(n + 1) : j > i /\ U[j].run = q => Before(U[i].card, U[j].card)
               /\ (\A j \in 1..(n + 1) : j > i => U[j].run # q) => U[i].card = R[q]
    <3>1. i \in 1..n /\ U[i] = coming[i]
      BY <1>2, <1>3, <2>2, <2>3
    <3>2. \A j \in 1..n : j > i /\ coming[j].run = q => Before(coming[i].card, coming[j].card)
      BY <2>1, <2>3, <3>1 DEF InOrder, n
    <3>3. \A j \in 1..(n + 1) : j > i /\ U[j].run = q => Before(U[i].card, U[j].card)
      BY <1>2, <1>3, <2>2, <3>1, <3>2
    <3>4. (\A j \in 1..(n + 1) : j > i => U[j].run # q) => \A j \in 1..n : j > i => coming[j].run # q
      BY <1>2, <1>4
    <3>5. QED
      BY <2>1, <2>3, <3>1, <3>3, <3>4 DEF InOrder, n
  <2>4. (\A i \in 1..(n + 1) : U[i].run # q) => \A i \in 1..n : coming[i].run # q
    BY <1>2, <1>4
  <2>5. QED
    BY <1>2, <2>1, <2>3, <2>4 DEF InOrder, n
<1>9. ASSUME r \notin more PROVE InOrder(paged, U, R, r)
  <2>1. m \in Card /\ \A q \in DOMAIN paged : paged[q] \in Card
    BY <1>1 DEF IsStore
  <2>2. \A i \in 1..n : coming[i].card \in Card
    BY <1>2 DEF Announcement
  <2>3. r \in DOMAIN records => InOrder(paged, coming, records, r) /\ records[r] \in Card /\ Before(records[r], m)
    BY <1>1, <1>9 DEF PageFollows, IsStore
  <2>4. Before(m, m)
    BY BeforeItself
  <2>5. r \in DOMAIN paged => Before(paged[r], m)
    <3>1. r \in DOMAIN paged => r \in DOMAIN records
      BY DEF PageFollows
    <3>2. r \in DOMAIN paged => Before(paged[r], records[r])
      BY <2>3, <3>1 DEF InOrder
    <3>3. QED
      BY <2>1, <2>3, <3>1, <3>2, BeforeBoth
  <2>6. ASSUME NEW i \in 1..n, coming[i].run = r PROVE Before(coming[i].card, m)
    <3>1. r \in DOMAIN records
      BY <2>6 DEF PageFollows, n
    <3>2. Before(coming[i].card, records[r])
      BY <2>3, <2>6, <3>1 DEF InOrder, n
    <3>3. QED
      BY <2>1, <2>2, <2>3, <3>1, <3>2, BeforeBoth
  <2>7. ASSUME NEW i \in 1..n, coming[i].run = r
        PROVE  /\ r \in DOMAIN paged => Before(paged[r], coming[i].card)
               /\ \A j \in 1..n : j > i /\ coming[j].run = r => Before(coming[i].card, coming[j].card)
    <3>1. r \in DOMAIN records
      BY <2>7 DEF PageFollows, n
    <3>2. QED
      BY <2>3, <2>7, <3>1 DEF InOrder, n
  <2>8. ASSUME NEW i \in 1..(n + 1), U[i].run = r
        PROVE  /\ Before(U[i].card, R[r])
               /\ r \in DOMAIN paged => Before(paged[r], U[i].card)
               /\ \A j \in 1..(n + 1) : j > i /\ U[j].run = r => Before(U[i].card, U[j].card)
               /\ (\A j \in 1..(n + 1) : j > i => U[j].run # r) => U[i].card = R[r]
    <3>1. CASE i = n + 1
      <4>1. U[i].card = m /\ \A j \in 1..(n + 1) : ~(j > i)
        BY <1>2, <1>5, <3>1
      <4>2. QED
        BY <1>6, <2>4, <2>5, <4>1
    <3>2. CASE i \in 1..n
      <4>1. U[i] = coming[i] /\ coming[i].run = r
        BY <1>2, <2>8, <3>2
      <4>2. ASSUME NEW j \in 1..(n + 1), j > i, U[j].run = r PROVE Before(U[i].card, U[j].card)
        <5>1. CASE j = n + 1
          BY <1>2, <1>5, <2>6, <3>2, <4>1, <5>1
        <5>2. CASE j \in 1..n
          BY <1>2, <2>7, <3>2, <4>1, <4>2, <5>2
        <5>3. QED
          BY <1>3, <5>1, <5>2
      <4>3. ~(\A j \in 1..(n + 1) : j > i => U[j].run # r)
        BY <1>2, <1>4, <1>5, <3>2
      <4>4. QED
        BY <1>6, <2>6, <2>7, <3>2, <4>1, <4>2, <4>3
    <3>3. QED
      BY <1>3, <3>1, <3>2
  <2>9. ~(\A i \in 1..(n + 1) : U[i].run # r)
    BY <1>2, <1>4, <1>5
  <2>10. QED
    BY <1>2, <1>6, <2>5, <2>8, <2>9 DEF InOrder
<1>10. \A q \in DOMAIN R \ more : InOrder(paged, U, R, q)
  BY <1>8, <1>9
<1>11. PageFollows(paged, U, R, more)
  BY <1>1, <1>2, <1>6, <1>7, <1>10 DEF PageFollows
<1>12. QED
  BY <1>11 DEF U, R, e

\* More agents are free.
LEMMA PageFrees ==
    ASSUME NEW paged, NEW coming, NEW records, NEW free, PageFollows(paged, coming, records, free), NEW more, free \subseteq more
    PROVE  PageFollows(paged, coming, records, more)
BY DEF PageFollows

\* The page's rule of what it shows of the first that is announced.
ShowsCard(paged, e) == IF e.run \in DOMAIN paged /\ Older(paged[e.run], e.card) THEN paged ELSE Laid(paged, e.run, e.card)

LEMMA PageReads ==
    ASSUME NEW paged, NEW coming, NEW records, NEW free, PageFollows(paged, coming, records, free), coming # <<>>
    PROVE  /\ PageFollows(ShowsCard(paged, Head(coming)), Tail(coming), records, free)
           /\ \A q \in DOMAIN paged \ free :
                q \in DOMAIN ShowsCard(paged, Head(coming)) /\ Before(paged[q], ShowsCard(paged, Head(coming))[q])
<1> DEFINE n == Len(coming)
           e == Head(coming)
           r == e.run
           m == e.card
           U == Tail(coming)
           P == ShowsCard(paged, e)
<1>1. IsStore(paged) /\ coming \in Seq(Announcement) /\ IsStore(records)
  BY DEF PageFollows
<1>2. n \in Nat /\ \A i \in 1..n : coming[i] \in Announcement
  BY <1>1, LenProperties, ElementOfSeq
<1>3. /\ e = coming[1] /\ U \in Seq(Announcement) /\ Len(U) = n - 1 /\ n >= 1
      /\ \A i \in 1..(n - 1) : U[i] = coming[i + 1]
  BY <1>1, <1>2, HeadTailProperties, EmptySeq
<1>4. 1 \in 1..n /\ (\A i \in 1..(n - 1) : i + 1 \in 1..n /\ i + 1 > 1) /\ \A i \in 1..n : i = 1 \/ (i - 1 \in 1..(n - 1) /\ (i - 1) + 1 = i)
  BY <1>2, <1>3
<1>5. e \in Announcement /\ r \in Run /\ m \in Card /\ r \in DOMAIN records
  BY <1>2, <1>3, <1>4 DEF PageFollows, Announcement, n
<1>6. /\ IsStore(P) /\ DOMAIN P = DOMAIN paged \cup {r} /\ \A q \in DOMAIN paged \ {r} : P[q] = paged[q]
      /\ (P[r] = m \/ (r \in DOMAIN paged /\ Older(paged[r], m)))
  <2>1. IsStore(Laid(paged, r, m))
    BY <1>1, <1>5, LaidStore
  <2>2. QED
    BY <1>1, <2>1 DEF ShowsCard, Laid
<1>7. ASSUME NEW q \in DOMAIN records \ free PROVE InOrder(paged, coming, records, q)
  BY DEF PageFollows
<1>8. ASSUME r \notin free PROVE P[r] = m /\ Before(m, records[r]) /\ (r \in DOMAIN paged => Before(paged[r], m))
  <2>1. InOrder(paged, coming, records, r)
    BY <1>5, <1>7, <1>8
  <2>2. Before(m, records[r]) /\ (r \in DOMAIN paged => Before(paged[r], m))
    BY <1>3, <1>4, <2>1 DEF InOrder, n
  <2>3. r \in DOMAIN paged => paged[r].rev \in Nat /\ m.rev \in Nat
    BY <1>1, <1>5, CardFields DEF IsStore
  <2>4. r \in DOMAIN paged => ~Older(paged[r], m)
    BY <2>2, <2>3 DEF Older, Before, Finished
  <2>5. QED
    BY <1>6, <2>2, <2>4
<1> HIDE DEF n, e, U, P
<1>9. /\ DOMAIN P \subseteq DOMAIN records
      /\ \A i \in 1..(n - 1) : U[i].run \in DOMAIN records
  BY <1>3, <1>4, <1>5, <1>6 DEF PageFollows, n
<1>10. ASSUME NEW q \in DOMAIN records PROVE q \in DOMAIN P \/ \E i \in 1..(n - 1) : U[i].run = q
  <2>1. CASE q \in DOMAIN paged
    BY <1>6, <2>1
  <2>2. CASE q \notin DOMAIN paged
    <3>1. PICK i \in 1..n : coming[i].run = q
      BY <2>2 DEF PageFollows, n
    <3>2. CASE i = 1
      BY <1>3, <1>6, <3>1, <3>2
    <3>3. CASE i # 1
      BY <1>3, <1>4, <3>1, <3>3
    <3>4. QED
      BY <3>2, <3>3
  <2>3. QED
    BY <2>1, <2>2
<1>11. ASSUME NEW q \in DOMAIN records \ free PROVE InOrder(P, U, records, q)
  <2>1. InOrder(paged, coming, records, q)
    BY <1>7
  <2>2. q = r => P[r] = m /\ Before(m, records[r])
    BY <1>8, <1>11
  <2>3. q # r => (q \in DOMAIN P <=> q \in DOMAIN paged) /\ (q \in DOMAIN paged => P[q] = paged[q])
    BY <1>6
  <2>4. q \in DOMAIN P => Before(P[q], records[q])
    BY <2>1, <2>2, <2>3 DEF InOrder
  <2>5. ASSUME NEW i \in 1..(n - 1), U[i].run = q
        PROVE  /\ Before(U[i].card, records[q])
               /\ q \in DOMAIN P => Before(P[q], U[i].card)
               /\ \A j \in 1..(n - 1) : j > i /\ U[j].run = q => Before(U[i].card, U[j].card)
               /\ (\A j \in 1..(n - 1) : j > i => U[j].run # q) => U[i].card = records[q]
    <3>1. i + 1 \in 1..n /\ i + 1 > 1 /\ U[i] = coming[i + 1] /\ coming[i + 1].run = q
      BY <1>3, <1>4, <2>5
    <3>2. /\ Before(coming[i + 1].card, records[q])
          /\ q \in DOMAIN paged => Before(paged[q], coming[i + 1].card)
          /\ \A j \in 1..n : j > i + 1 /\ coming[j].run = q => Before(coming[i + 1].card, coming[j].card)
          /\ (\A j \in 1..n : j > i + 1 => coming[j].run # q) => coming[i + 1].card = records[q]
      BY <2>1, <3>1 DEF InOrder, n
    <3>3. q = r => Before(m, coming[i + 1].card)
      <4>1. q = r => coming[1].run = q /\ coming[1].card = m
        BY <1>3
      <4>2. q = r => \A j \in 1..n : j > 1 /\ coming[j].run = q => Before(m, coming[j].card)
        BY <1>4, <2>1, <4>1 DEF InOrder, n
      <4>3. QED
        BY <3>1, <4>2
    <3>4. q \in DOMAIN P => Before(P[q], U[i].card)
      BY <2>2, <2>3, <3>1, <3>2, <3>3
    <3>5. \A j \in 1..(n - 1) : U[j] = coming[j + 1] /\ j + 1 \in 1..n /\ (j > i <=> j + 1 > i + 1)
      BY <1>2, <1>3, <1>4
    <3>6. \A j \in 1..(n - 1) : j > i /\ U[j].run = q => Before(U[i].card, U[j].card)
      BY <3>1, <3>2, <3>5
    <3>7. ASSUME \A j \in 1..(n - 1) : j > i => U[j].run # q PROVE U[i].card = records[q]
      <4>1. ASSUME NEW j \in 1..n, j > i + 1 PROVE coming[j].run # q
        <5>1. j # 1 /\ j - 1 \in 1..(n - 1) /\ (j - 1) + 1 = j /\ j - 1 > i
          BY <1>2, <1>4, <4>1
        <5>2. U[j - 1] = coming[j]
          BY <3>5, <5>1
        <5>3. QED
          BY <3>7, <5>1, <5>2
      <4>2. QED
        BY <3>1, <3>2, <4>1
    <3>8. QED
      BY <3>1, <3>2, <3>4, <3>6, <3>7
  <2>6. ASSUME \A i \in 1..(n - 1) : U[i].run # q PROVE q \in DOMAIN P /\ P[q] = records[q]
    <3>1. \A j \in 1..n : j > 1 => coming[j].run # q
      BY <1>3, <1>4, <2>6
    <3>2. CASE q = r
      <4>1. coming[1].run = q /\ coming[1].card = m
        BY <1>3, <3>2
      <4>2. m = records[q]
        BY <1>4, <2>1, <3>1, <4>1 DEF InOrder, n
      <4>3. QED
        BY <1>6, <2>2, <3>2, <4>2
    <3>3. CASE q # r
      <4>1. \A j \in 1..n : coming[j].run # q
        BY <1>3, <1>4, <3>1, <3>3
      <4>2. QED
        BY <2>1, <2>3, <3>3, <4>1 DEF InOrder, n
    <3>4. QED
      BY <3>2, <3>3
  <2>7. QED
    BY <1>3, <2>4, <2>5, <2>6 DEF InOrder
<1>12. PageFollows(P, U, records, free)
  BY <1>1, <1>3, <1>6, <1>9, <1>10, <1>11 DEF PageFollows
<1>13. ASSUME NEW q \in DOMAIN paged \ free PROVE q \in DOMAIN P /\ Before(paged[q], P[q])
  <2>1. CASE q = r
    BY <1>6, <1>8, <1>13, <2>1
  <2>2. CASE q # r
    <3>1. P[q] = paged[q] /\ paged[q] \in Card
      BY <1>1, <1>6, <2>2 DEF IsStore
    <3>2. QED
      BY <1>6, <3>1, BeforeItself
  <2>3. QED
    BY <2>1, <2>2
<1>14. QED
  BY <1>12, <1>13 DEF U, P, e

\* The page is given the records themselves.
LEMMA PageLoads ==
    ASSUME NEW paged, NEW records, NEW free, IsStore(paged), IsStore(records), DOMAIN paged = DOMAIN records,
           \A r \in DOMAIN records : paged[r] = records[r]
    PROVE  PageFollows(paged, <<>>, records, free)
<1>1. <<>> \in Seq(Announcement) /\ Len(<<>>) = 0 /\ 1..0 = {}
  BY EmptySeq
<1>2. \A r \in DOMAIN records : Before(records[r], records[r])
  BY BeforeItself DEF IsStore
<1>3. QED
  BY <1>1, <1>2 DEF PageFollows, InOrder

(***************************************************************************)
(* The cards.                                                              *)
(***************************************************************************)

\* The two stores agree, the records are those of the entries' agents, what a store
\* has not is known to be forgotten, and the page follows.
StoresAgree == AgreeOn(cards, Held(entries), Reduced(entries), agents, said)
RecordsOfEntries == DOMAIN Reduced(entries) = {entries[i].run : i \in 1..Len(entries)}
LostForgotten == DOMAIN Reduced(entries) \ DOMAIN cards \subseteq forgotten
PageIsBehind == PageFollows(onPage, unread, Reduced(entries), revived)
KeptInv == CardsInv /\ StoresAgree /\ RecordsOfEntries /\ LostForgotten /\ PageIsBehind

LEMMA KeptStarts == CardsInit => KeptInv
<1> SUFFICES ASSUME CardsInit PROVE KeptInv
  OBVIOUS
<1>1. CardsInv /\ IsStore(NoCards) /\ DOMAIN NoCards = {}
  BY CardsStarts, NoCardsStore
<1>2. Held(entries) = NoCards /\ Reduced(entries) = NoCards
  BY ReducedEmpty DEF CardsInit
<1>3. Len(entries) = 0 /\ 1..0 = {}
  BY DEF CardsInit
<1>4. IsFiniteSet(DOMAIN NoCards)
  BY <1>1, FS_EmptySet
<1>5. StoresAgree
  BY <1>1, <1>2, <1>4 DEF StoresAgree, AgreeOn, Fits, CardsInit
<1>6. PageIsBehind
  BY <1>1, <1>2, PageLoads DEF PageIsBehind, CardsInit
<1>7. QED
  BY <1>1, <1>2, <1>3, <1>5, <1>6 DEF KeptInv, RecordsOfEntries, LostForgotten

\* Who may be heard of: an agent of this process, or a new one.
Speaks(r) == r \in agents \/ r \notin DOMAIN Reduced(entries)

\* An entry of an agent: what the records and both stores make of it.
LEMMA EntryRead ==
    ASSUME KeptInv, NEW r \in Run, NEW c \in Card, NEW revised \in BOOLEAN, c.at = said + 1, Speaks(r),
           Appended(r, c, revised), agents' = agents \cup {r}, said' = said + 1
    PROVE  /\ StoresAgree' /\ RecordsOfEntries'
           /\ IF Taken(cards, r, c, revised)
              THEN /\ Reduced(entries)' = Laid(Reduced(entries), r, Merged(cards, r, c, revised))
                   /\ cards' = Prune(Laid(cards, r, Merged(cards, r, c, revised)))
              ELSE Reduced(entries)' = Reduced(entries) /\ cards' = cards
<1> DEFINE e == [run |-> r, card |-> c, revised |-> revised]
           R == Reduced(entries)
           H == Held(entries)
           m == Merged(cards, r, c, revised)
           n == Len(entries)
<1>1. /\ AgreeOn(cards, H, R, agents, said) /\ DOMAIN R = {entries[i].run : i \in 1..n}
      /\ entries \in Seq(EntryRecord) /\ IsStore(cards)
  BY DEF KeptInv, StoresAgree, RecordsOfEntries, CardsInv
<1>2. e \in EntryRecord /\ e.run = r /\ e.card = c /\ e.revised = revised /\ entries' = Append(entries, e)
  BY DEF EntryRecord, Appended
<1>3. said \in Nat /\ m \in Card /\ m.at = said + 1
  BY <1>1, CardsAssumption, MergedCard, MergedAt DEF KeptInv, CardsInv
<1>4. /\ r \in DOMAIN cards <=> r \in DOMAIN H
      /\ r \in DOMAIN cards => cards[r] = H[r]
  BY <1>1 DEF AgreeOn, Fits, Speaks
<1>5. (Taken(cards, r, c, revised) <=> Taken(H, r, c, revised)) /\ m = Merged(H, r, c, revised)
  BY <1>4, MergedAlike
<1>6. n \in Nat /\ Len(entries') = n + 1 /\ entries'[n + 1] = e /\ \A i \in 1..n : entries'[i] = entries[i]
  BY <1>1, <1>2, AppendProperties, LenProperties
<1>7. {entries'[i].run : i \in 1..Len(entries')} = {entries[i].run : i \in 1..n} \cup {r}
  <2>1. \A i \in 1..(n + 1) : i \in 1..n \/ i = n + 1
    BY <1>6
  <2>2. n + 1 \in 1..(n + 1) /\ \A i \in 1..n : i \in 1..(n + 1)
    BY <1>6
  <2> HIDE DEF n, e
  <2>3. QED
    BY <1>2, <1>6, <2>1, <2>2
<1>8. IF Taken(cards, r, c, revised)
      THEN Held(entries') = Prune(Laid(H, r, m)) /\ Reduced(entries') = Laid(R, r, m)
      ELSE Held(entries') = H /\ Reduced(entries') = R
  <2> HIDE DEF m, e, H, R
  <2>1. IF Taken(H, r, c, revised)
        THEN /\ Held(Append(entries, e)) = Prune(Laid(H, r, Merged(H, r, c, revised)))
             /\ Reduced(Append(entries, e)) = Laid(R, r, Merged(H, r, c, revised))
        ELSE Held(Append(entries, e)) = H /\ Reduced(Append(entries, e)) = R
    BY <1>1, <1>2, ReducedMore DEF H, R
  <2>2. QED
    BY <1>2, <1>5, <2>1
<1>9. IF Taken(cards, r, c, revised) THEN cards' = Prune(Laid(cards, r, m)) ELSE cards' = cards
  BY DEF Appended, Applied
<1>10. Speaks(r) /\ (r \in agents \/ r \notin DOMAIN R)
  BY DEF Speaks
<1> HIDE DEF m, e, H, R, n
<1>11. CASE Taken(cards, r, c, revised)
  <2>1. AgreeOn(Prune(Laid(cards, r, m)), Prune(Laid(H, r, m)), Laid(R, r, m), agents \cup {r}, said + 1)
    BY <1>1, <1>3, <1>10, AgreeTaken
  <2>2. DOMAIN Laid(R, r, m) = DOMAIN R \cup {r}
    BY DEF Laid
  <2>3. Held(entries') = Prune(Laid(H, r, m)) /\ Reduced(entries') = Laid(R, r, m) /\ cards' = Prune(Laid(cards, r, m))
    BY <1>8, <1>9, <1>11
  <2>4. StoresAgree'
    BY <2>1, <2>3 DEF StoresAgree
  <2>5. RecordsOfEntries'
    BY <1>1, <1>7, <2>2, <2>3 DEF RecordsOfEntries
  <2>6. QED
    BY <1>11, <2>3, <2>4, <2>5 DEF m, R
<1>12. CASE ~Taken(cards, r, c, revised)
  <2>1. r \in DOMAIN R
    BY <1>1, <1>12 DEF Taken, AgreeOn, Fits
  <2>2. AgreeOn(cards, H, R, agents \cup {r}, said + 1)
    BY <1>1, <1>3, <1>10, AgreeStays
  <2>3. Held(entries') = H /\ Reduced(entries') = R /\ cards' = cards
    BY <1>8, <1>9, <1>12
  <2>4. StoresAgree'
    BY <2>2, <2>3 DEF StoresAgree
  <2>5. RecordsOfEntries'
    BY <1>1, <1>7, <2>1, <2>3 DEF RecordsOfEntries
  <2>6. QED
    BY <1>12, <2>3, <2>4, <2>5 DEF R
<1>13. QED
  BY <1>11, <1>12

\* An entry of an agent: what is forgotten, and what the page is told.
LEMMA EntryHeard ==
    ASSUME KeptInv, NEW r \in Run, NEW c \in Card, NEW revised \in BOOLEAN, NEW atOnce,
           Appended(r, c, revised), Heard(r, atOnce),
           IF Taken(cards, r, c, revised)
           THEN /\ Reduced(entries)' = Laid(Reduced(entries), r, Merged(cards, r, c, revised))
                /\ cards' = Prune(Laid(cards, r, Merged(cards, r, c, revised)))
           ELSE Reduced(entries)' = Reduced(entries) /\ cards' = cards
    PROVE  LostForgotten' /\ PageIsBehind' /\ CardsForward
<1> DEFINE R == Reduced(entries)
           m == Merged(cards, r, c, revised)
           new == Reduced(entries)'
<1>1. /\ DOMAIN R \ DOMAIN cards \subseteq forgotten /\ PageFollows(onPage, unread, R, revived)
      /\ Fits(cards, R) /\ IsStore(cards) /\ IsStore(onPage) /\ unread \in Seq([run : Run, card : Card])
  BY DEF KeptInv, LostForgotten, PageIsBehind, StoresAgree, AgreeOn, CardsInv
<1>2. m \in Card
  BY <1>1, MergedCard
<1>3. revived' = revived \cup ({r} \cap forgotten) /\ revived \subseteq revived' /\ onPage' = onPage
  BY DEF Heard, Appended
<1>4. CardsForward
  <2>1. \A q \in DOMAIN onPage : onPage[q].rev \in Nat
    BY <1>1, CardFields DEF IsStore
  <2>2. QED
    BY <1>3, <2>1 DEF CardsForward
<1> HIDE DEF m
<1>5. CASE Taken(cards, r, c, revised)
  <2>1. unread' = Append(unread, [run |-> r, card |-> m]) /\ new = Laid(R, r, m) /\ cards' = Prune(Laid(cards, r, m))
    BY <1>5 DEF Appended, m
  <2>2. unread' # unread
    <3>1. Len(unread') = Len(unread) + 1 /\ Len(unread) \in Nat
      <4>1. [run |-> r, card |-> m] \in [run : Run, card : Card]
        BY <1>2
      <4>2. QED
        BY <1>1, <2>1, <4>1, AppendProperties, LenProperties
    <3>2. QED
      BY <3>1
  <2>3. forgotten' = forgotten \cup atOnce \cup (DOMAIN bridge \ DOMAIN bridge') \cup (DOMAIN cards \ DOMAIN cards') \cup ({r} \ DOMAIN cards')
    BY <2>2 DEF Heard
  <2>4. DOMAIN Laid(R, r, m) = DOMAIN R \cup {r}
    BY DEF Laid
  <2>5. r \in DOMAIN R \ revived' => Before(R[r], m)
    <3>1. SUFFICES ASSUME r \in DOMAIN R, r \notin revived' PROVE Before(R[r], m)
      OBVIOUS
    <3>2. r \in DOMAIN cards /\ cards[r] = R[r] /\ cards[r] \in Card
      BY <1>1, <1>3, <3>1 DEF Fits, IsStore
    <3>3. QED
      BY <1>5, <3>2, MergedAfter DEF m
  <2>6. PageFollows(onPage, Append(unread, [run |-> r, card |-> m]), Laid(R, r, m), revived')
    <3> HIDE DEF R
    <3>1. QED
      BY <1>1, <1>2, <1>3, <2>5, PageTakes
  <2>7. PageIsBehind'
    BY <1>3, <2>1, <2>6 DEF PageIsBehind
  <2>8. LostForgotten'
    BY <1>1, <2>1, <2>3, <2>4 DEF LostForgotten
  <2>9. QED
    BY <1>4, <2>7, <2>8
<1>6. CASE ~Taken(cards, r, c, revised)
  <2>1. unread' = unread /\ new = R /\ cards' = cards
    BY <1>6 DEF Appended
  <2>2. forgotten \subseteq forgotten'
    BY DEF Heard
  <2>3. PageFollows(onPage, unread, R, revived')
    BY <1>1, <1>3, PageFrees
  <2>4. PageIsBehind' /\ LostForgotten'
    BY <1>1, <1>3, <2>1, <2>2, <2>3 DEF PageIsBehind, LostForgotten
  <2>5. QED
    BY <1>4, <2>4
<1>7. QED
  BY <1>5, <1>6

LEMMA PageStays ==
    ASSUME CardsInv, onPage' = onPage
    PROVE  CardsForward
<1>1. \A q \in DOMAIN onPage : onPage[q].rev \in Nat
  BY CardFields DEF CardsInv, IsStore
<1>2. QED
  BY <1>1 DEF CardsForward

LEMMA AgentSpeaks ==
    ASSUME KeptInv, NEW r \in agents \cup New
    PROVE  Speaks(r)
<1>1. DOMAIN entries = 1..Len(entries) /\ DOMAIN Reduced(entries) = {entries[i].run : i \in 1..Len(entries)}
  BY LenProperties DEF KeptInv, RecordsOfEntries, CardsInv
<1>2. ASSUME r \in New PROVE r \notin Named
  BY <1>2 DEF New
<1>3. ASSUME r \in New PROVE r \notin DOMAIN Reduced(entries)
  BY <1>1, <1>2, <1>3 DEF Named
<1>4. QED
  BY <1>3 DEF Speaks

LEMMA PublishKept ==
    ASSUME KeptInv, NEW r \in Run, NEW type \in Events, NEW summary \in {0, 1}, Publish(r, type, summary)
    PROVE  StoresAgree' /\ RecordsOfEntries' /\ LostForgotten' /\ PageIsBehind' /\ CardsForward
<1> DEFINE e == EventCard(bridge, r, type, summary)
           c == Merged(bridge, r, e, TRUE)
<1>1. CardsInv /\ IsStore(bridge) /\ said \in Nat
  BY CardsAssumption DEF KeptInv, CardsInv
<1>2. e \in Card /\ e.at = said + 1
  BY <1>1, EventTyped DEF EventCard
<1>3. /\ agents' = agents \cup {r} /\ r \in agents \cup New /\ Heard(r, {r} \ DOMAIN bridge')
      /\ \/ Appended(r, c, TRUE)
         \/ UNCHANGED <<entries, cards, unread, onPage>>
  BY DEF Publish
<1> HIDE DEF e
<1>4. c \in Card /\ c.at = said + 1
  <2>1. c \in Card
    BY <1>1, <1>2, MergedCard
  <2>2. c.at = e.at
    BY <1>2, MergedAt
  <2>3. QED
    BY <1>2, <2>1, <2>2
<1>5. said' = said + 1 /\ forgotten \subseteq forgotten' /\ revived \subseteq revived'
  BY <1>3 DEF Heard
<1>6. Speaks(r)
  BY <1>3, AgentSpeaks
<1> HIDE DEF c
<1>7. CASE Appended(r, c, TRUE)
  <2>1. /\ StoresAgree' /\ RecordsOfEntries'
        /\ IF Taken(cards, r, c, TRUE)
           THEN /\ Reduced(entries)' = Laid(Reduced(entries), r, Merged(cards, r, c, TRUE))
                /\ cards' = Prune(Laid(cards, r, Merged(cards, r, c, TRUE)))
           ELSE Reduced(entries)' = Reduced(entries) /\ cards' = cards
    BY <1>3, <1>4, <1>5, <1>6, <1>7, EntryRead
  <2>2. LostForgotten' /\ PageIsBehind' /\ CardsForward
    BY <1>3, <1>4, <1>7, <2>1, EntryHeard
  <2>3. QED
    BY <2>1, <2>2
<1>8. CASE UNCHANGED <<entries, cards, unread, onPage>>
  <2>1. AgreeOn(cards, Held(entries), Reduced(entries), agents, said)
    BY DEF KeptInv, StoresAgree
  <2>2. AgreeOn(cards, Held(entries), Reduced(entries), agents \cup {r}, said + 1)
    BY <1>1, <1>6, <2>1, AgreeStays DEF Speaks
  <2>3. StoresAgree'
    BY <1>3, <1>5, <1>8, <2>2 DEF StoresAgree
  <2>4. RecordsOfEntries' /\ LostForgotten'
    BY <1>5, <1>8 DEF KeptInv, RecordsOfEntries, LostForgotten
  <2>5. PageFollows(onPage, unread, Reduced(entries), revived')
    BY <1>5, PageFrees DEF KeptInv, PageIsBehind
  <2>6. PageIsBehind'
    BY <1>8, <2>5 DEF PageIsBehind
  <2>7. QED
    BY <1>1, <1>8, <2>3, <2>4, <2>6, PageStays
<1>9. QED
  BY <1>3, <1>7, <1>8

LEMMA RecordKept ==
    ASSUME KeptInv, NEW r \in Run, NEW status \in Status, NEW summary \in Summary, Record(r, status, summary)
    PROVE  StoresAgree' /\ RecordsOfEntries' /\ LostForgotten' /\ PageIsBehind' /\ CardsForward
<1> DEFINE c == [rev |-> 1, status |-> status, summary |-> summary, at |-> said + 1]
<1>1. /\ agents' = agents /\ r \in agents /\ Heard(r, {}) /\ Appended(r, c, FALSE)
  BY DEF Record
<1>2. said \in Nat
  BY CardsAssumption DEF KeptInv, CardsInv
<1>3. c \in Card /\ c.at = said + 1
  BY <1>2 DEF Card
<1>4. said' = said + 1 /\ agents' = agents \cup {r} /\ Speaks(r)
  BY <1>1 DEF Heard, Speaks
<1> HIDE DEF c
<1>5. /\ StoresAgree' /\ RecordsOfEntries'
      /\ IF Taken(cards, r, c, FALSE)
         THEN /\ Reduced(entries)' = Laid(Reduced(entries), r, Merged(cards, r, c, FALSE))
              /\ cards' = Prune(Laid(cards, r, Merged(cards, r, c, FALSE)))
         ELSE Reduced(entries)' = Reduced(entries) /\ cards' = cards
  BY <1>1, <1>3, <1>4, EntryRead
<1>6. LostForgotten' /\ PageIsBehind' /\ CardsForward
  BY <1>1, <1>3, <1>5, EntryHeard
<1>7. QED
  BY <1>5, <1>6

LEMMA ReattachKept ==
    ASSUME KeptInv, Reattach
    PROVE  StoresAgree' /\ RecordsOfEntries' /\ LostForgotten' /\ PageIsBehind' /\ CardsForward
<1>1. /\ AgreeOn(cards, Held(entries), Reduced(entries), agents, said) /\ entries \in Seq(EntryRecord)
      /\ DOMAIN Reduced(entries) = {entries[i].run : i \in 1..Len(entries)} /\ CardsInv
  BY DEF KeptInv, StoresAgree, RecordsOfEntries, CardsInv
<1>2. /\ agents' = {} /\ cards' = Seeded /\ forgotten' = forgotten \cup (DOMAIN Reduced(entries) \ DOMAIN Seeded)
      /\ entries' = entries /\ unread' = unread /\ onPage' = onPage /\ said' = said /\ revived' = revived
  BY DEF Reattach
<1>3. Fits(Seeded, Reduced(entries))
  BY <1>1, SeededFits DEF AgreeOn
<1>4. AgreeOn(Seeded, Held(entries), Reduced(entries), {}, said)
  BY <1>1, <1>3 DEF AgreeOn
<1>5. StoresAgree'
  BY <1>2, <1>4 DEF StoresAgree
<1>6. RecordsOfEntries' /\ LostForgotten' /\ PageIsBehind'
  BY <1>2 DEF KeptInv, RecordsOfEntries, LostForgotten, PageIsBehind
<1>7. QED
  BY <1>1, <1>2, <1>5, <1>6, PageStays

LEMMA DeliverKept ==
    ASSUME KeptInv, Deliver
    PROVE  StoresAgree' /\ RecordsOfEntries' /\ LostForgotten' /\ PageIsBehind' /\ CardsForward
<1>1. /\ unread # <<>> /\ unread' = Tail(unread) /\ onPage' = ShowsCard(onPage, Head(unread))
      /\ UNCHANGED <<agents, bridge, entries, cards, said, lost, attaches, forgotten, revived>>
  BY DEF Deliver, ShowsCard
<1>2. StoresAgree' /\ RecordsOfEntries' /\ LostForgotten'
  BY <1>1 DEF KeptInv, StoresAgree, RecordsOfEntries, LostForgotten
<1>3. PageFollows(onPage, unread, Reduced(entries), revived)
  BY DEF KeptInv, PageIsBehind
<1>4. /\ PageFollows(ShowsCard(onPage, Head(unread)), Tail(unread), Reduced(entries), revived)
      /\ \A q \in DOMAIN onPage \ revived :
           q \in DOMAIN ShowsCard(onPage, Head(unread)) /\ Before(onPage[q], ShowsCard(onPage, Head(unread))[q])
  BY <1>1, <1>3, PageReads
<1>5. PageIsBehind'
  BY <1>1, <1>4 DEF PageIsBehind
<1>6. IsStore(onPage) /\ IsStore(onPage')
  BY <1>1, <1>3, <1>4 DEF PageFollows
<1>7. CardsForward
  <2>1. \A q \in DOMAIN onPage \ revived : q \in DOMAIN onPage' /\ Before(onPage[q], onPage'[q]) /\ onPage[q].rev \in Nat /\ onPage'[q].rev \in Nat
    BY <1>1, <1>4, <1>6, CardFields DEF IsStore
  <2>2. QED
    BY <1>1, <2>1 DEF CardsForward, Before
<1>8. QED
  BY <1>2, <1>5, <1>7

\* A page that loads is given the records.
LEMMA SnapshotRecords ==
    ASSUME KeptInv
    PROVE  /\ DOMAIN SnapshotOf(entries, cards) = DOMAIN Reduced(entries)
           /\ \A r \in DOMAIN Reduced(entries) : SnapshotOf(entries, cards)[r] = Reduced(entries)[r]
           /\ \A r \in DOMAIN Reduced(entries) \ DOMAIN cards : Finished(Reduced(entries)[r])
<1>1. Fits(cards, Reduced(entries))
  BY DEF KeptInv, StoresAgree, AgreeOn
<1>2. QED
  BY <1>1 DEF Fits, SnapshotOf

LEMMA LoadKept ==
    ASSUME KeptInv, LoadCards
    PROVE  StoresAgree' /\ RecordsOfEntries' /\ LostForgotten' /\ PageIsBehind' /\ CardsForward
<1>1. /\ onPage' = SnapshotOf(entries, cards) /\ unread' = <<>>
      /\ UNCHANGED <<agents, bridge, entries, cards, said, lost, attaches, forgotten, revived>>
  BY DEF LoadCards, Snapshot
<1>2. StoresAgree' /\ RecordsOfEntries' /\ LostForgotten'
  BY <1>1 DEF KeptInv, StoresAgree, RecordsOfEntries, LostForgotten
<1>3. PageFollows(onPage, unread, Reduced(entries), revived)
  BY DEF KeptInv, PageIsBehind
<1>4. /\ DOMAIN onPage' = DOMAIN Reduced(entries) /\ IsStore(Reduced(entries))
      /\ \A r \in DOMAIN Reduced(entries) : onPage'[r] = Reduced(entries)[r]
  BY <1>1, <1>3, SnapshotRecords DEF PageFollows
<1>5. IsStore(onPage')
  BY <1>4 DEF IsStore
<1>6. PageFollows(onPage', <<>>, Reduced(entries), revived)
  BY <1>4, <1>5, PageLoads
<1>7. PageIsBehind'
  BY <1>1, <1>6 DEF PageIsBehind
<1>8. CardsForward
  <2>1. ASSUME NEW q \in DOMAIN onPage \ revived
        PROVE  q \in DOMAIN onPage' /\ Before(onPage[q], onPage'[q]) /\ onPage[q].rev \in Nat /\ onPage'[q].rev \in Nat
    <3>1. q \in DOMAIN Reduced(entries) /\ InOrder(onPage, unread, Reduced(entries), q) /\ IsStore(onPage)
      BY <1>3 DEF PageFollows
    <3>2. Before(onPage[q], Reduced(entries)[q]) /\ onPage[q] \in Card /\ onPage'[q] \in Card
      BY <1>4, <1>5, <3>1 DEF InOrder, IsStore
    <3>3. QED
      BY <1>4, <3>1, <3>2, CardFields
  <2>2. QED
    BY <1>1, <2>1 DEF CardsForward, Before
<1>9. QED
  BY <1>2, <1>7, <1>8

LEMMA KeptStep ==
    ASSUME KeptInv, [CardsNext]_cardVars
    PROVE  KeptInv' /\ CardsForward
<1>1. CardsInv'
  BY CardsStep DEF KeptInv
<1>2. SUFFICES StoresAgree' /\ RecordsOfEntries' /\ LostForgotten' /\ PageIsBehind' /\ CardsForward
  BY <1>1 DEF KeptInv
<1>3. CASE UNCHANGED cardVars
  <2>1. CardsForward
    BY <1>3, PageStays DEF KeptInv, cardVars
  <2>2. QED
    BY <1>3, <2>1 DEF cardVars, KeptInv, StoresAgree, RecordsOfEntries, LostForgotten, PageIsBehind
<1>4. CASE CardsNext
  <2>1. {"running", "completed", "cancelled"} \subseteq Status /\ {0, 2} \subseteq Summary
    BY DEF Status, Terminal, Summary
  <2>2. CASE said < MaxSaid /\ \E r \in Run : \E type \in Events : \E summary \in IF type = "completed" THEN {0, 1} ELSE {0} : Publish(r, type, summary)
    <3>1. PICK r \in Run, type \in Events : \E summary \in IF type = "completed" THEN {0, 1} ELSE {0} : Publish(r, type, summary)
      BY <2>2
    <3>2. PICK summary \in {0, 1} : Publish(r, type, summary)
      BY <3>1
    <3>3. QED
      BY <3>2, PublishKept
  <2>3. CASE said < MaxSaid /\ \E r \in Run : Record(r, "running", 0) \/ Record(r, "completed", 2) \/ Record(r, "cancelled", 0)
    BY <2>1, <2>3, RecordKept
  <2>4. QED
    BY <1>4, <2>2, <2>3, ReattachKept, DeliverKept, LoadKept DEF CardsNext
<1>5. QED
  BY <1>3, <1>4

LEMMA KeptAgrees == KeptInv => CardsAgreed
<1> SUFFICES ASSUME KeptInv PROVE CardsAgree(SnapshotOf(entries, cards))
  BY DEF CardsAgreed, Snapshot
<1> DEFINE S == SnapshotOf(entries, cards)
           R == Reduced(entries)
<1>1. /\ DOMAIN S = DOMAIN R /\ \A r \in DOMAIN R : S[r] = R[r]
      /\ \A r \in DOMAIN R \ DOMAIN cards : Finished(R[r])
  BY SnapshotRecords
<1>2. PageFollows(onPage, unread, R, revived)
  BY DEF KeptInv, PageIsBehind
<1> HIDE DEF S, R
<1>3. ASSUME unread = <<>>
      PROVE  DOMAIN onPage = DOMAIN S /\ \A r \in DOMAIN S \ revived : Told(onPage[r]) = Told(S[r])
  <2>1. 1..Len(unread) = {}
    BY <1>3
  <2>2. DOMAIN onPage = DOMAIN R /\ \A r \in DOMAIN R \ revived : InOrder(onPage, unread, R, r)
    BY <1>2, <2>1 DEF PageFollows
  <2>3. \A r \in DOMAIN R \ revived : onPage[r] = R[r]
    BY <2>1, <2>2 DEF InOrder
  <2>4. QED
    BY <1>1, <2>2, <2>3
<1>4. \A r \in DOMAIN S \ revived : Finished(S[r]) \/ r \in DOMAIN cards
  BY <1>1
<1>5. QED
  BY <1>3, <1>4 DEF CardsAgree, S

\* Whatever agents do, whatever of it is lost, read late or told again, and whenever the
\* session's runtime is made anew, the page's cards only go forward, a page that has read
\* everything shows what a page that loads now would, and no agent at work is forgotten.
THEOREM CardsKeptCorrect == PartsSpec => CardsKept
<1>1. KeptInv' => CardsAgreed'
  BY KeptAgrees, PTL
<1>2. ASSUME KeptInv, KeptInv', [CardsNext]_cardVars
      PROVE  [cardVars' # cardVars => CardsForward /\ CardsAgreed']_cardVars
  BY <1>1, <1>2, KeptStep
<1>3. PartsSpec => []KeptInv
  BY KeptStarts, KeptStep, CardsOfParts, PTL DEF PartsSpec
<1>4. QED
  BY <1>2, <1>3, CardsOfParts, PTL DEF PartsSpec, CardsKept
=============================================================================
