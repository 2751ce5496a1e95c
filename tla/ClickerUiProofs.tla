-------------------------- MODULE ClickerUiProofs --------------------------
(***************************************************************************)
(* What ClickerUi promises for any commands, positions, symbols and mishaps: *)
(* the button is pressed once at most and in the right dialog, no answer     *)
(* denies a press, and a live position is said to be closed only for reasons *)
(* that are listed.                                                          *)
(***************************************************************************)
EXTENDS ClickerUi, FiniteSetTheorems, SequenceTheorems, TLAPS

Searching == {"row", "click", "wait", "seen", "nothing", "fill", "check"}
Places == Searching \cup {"idle", "reserved", "ready", "marked", "pressed"}
Acks == {"none", "ok", "unknown", "rejected", "already_closed"}
Denials == {"rejected", "already_closed"}

JobShape(j) == j = [at |-> j.at, c |-> j.c, row |-> j.row, try |-> j.try, gui |-> j.gui,
                    hung |-> j.hung, seen |-> j.seen]

JournalOK == journal \in [Commands -> [known : BOOLEAN, ack : Acks, clicked : BOOLEAN]]

\* The command in hand is in the journal and has had no answer; it has been read as
\* it should be, and its button is marked before it is pressed.
JobOK ==
    /\ JobShape(job) /\ job.at \in Places
    /\ job.at # "idle" =>
          /\ c \in Commands /\ journal[c].known /\ journal[c].ack = "none"
          /\ \A a \in answers : a[1] # c
    /\ job.at \notin {"idle", "reserved"} => Formed(c)
    /\ job.at \in {"marked", "pressed"} => journal[c].clicked
    /\ job.at \notin {"idle", "pressed"} => \A p \in pressed : p[1] # c

\* From the last look at the dialog to the press nothing is on its way that could
\* change what was read of it.
DialogOK == job.at \in {"ready", "marked"} => ReadBack(dialog) /\ MayPress

\* What was typed is what the terminal will use, unless it is deaf; a dialog to open with
\* has the symbol that was read, unless a late click has changed it since.
ScreenOK ==
    /\ dialog = [kind |-> dialog.kind, of |-> dialog.of, volume |-> dialog.volume,
                 text |-> dialog.text, moved |-> dialog.moved]
    /\ "deaf" \notin odd /\ dialog.text = "asked" => dialog.volume = "asked"
    /\ job.at \in {"check", "ready", "marked"} /\ kind = "open" =>
          dialog.moved \/ dialog.of = c.target

AnswersOK ==
    \A a \in answers : /\ a[1] \in Commands /\ journal[a[1]].known
                       /\ a = <<a[1], Replay(a[1])>>

PressedOK ==
    /\ \A p \in pressed : /\ p[1] \in Commands /\ journal[p[1]].known /\ journal[p[1]].clicked
                          /\ journal[p[1]].ack \notin Denials
    /\ PressedIsRight

IInv == JournalOK /\ JobOK /\ DialogOK /\ AnswersOK /\ PressedOK

-----------------------------------------------------------------------------
(* What the driver's steps amount to.                                        *)

\* It looks for the right row and dialog.
Looks ==
    /\ job.at \in Searching \/ (job.at = "reserved" /\ Formed(c))
    /\ job'.at \in Searching /\ job'.c = job.c
    /\ JobShape(job')
    /\ UNCHANGED <<journal, answers, pressed, odd>>

\* It answers; what denies a press, only before it.
Replies(s) ==
    /\ job.at # "idle" /\ s \in Acks \ {"none"}
    /\ s \in Denials => job.at # "pressed"
    /\ job' = Idle
    /\ journal' = [journal EXCEPT ![c] = [journal[c] EXCEPT !.ack = s, !.clicked = @ \/ s # "rejected"]]
    /\ answers' = answers \cup {<<c, s>>}
    /\ UNCHANGED <<pressed, odd>>

LEMMA AnswerReplies ==
    ASSUME NEW s \in Acks \ {"none"}, Answer(s), job.at # "idle",
           s \in Denials => job.at # "pressed", UNCHANGED <<pressed, odd>>
    PROVE  Replies(s)
  BY DEF Answer, Write, Replies

\* The three ways in which the driver goes on.
LEMMA GotoLooks ==
    ASSUME JobOK, NEW place \in Searching, Goto(place)
    PROVE  job'.at \in Searching /\ job'.c = job.c /\ JobShape(job')
  BY DEF JobOK, JobShape, Goto

LEMMA NextRowLooks ==
    ASSUME NextRow
    PROVE  job'.at \in Searching /\ job'.c = job.c /\ JobShape(job')
  BY DEF NextRow, Idle, JobShape, Searching, c

LEMMA CloseLooks ==
    ASSUME JobOK, \/ StartClose \/ NoRow \/ TwoRows \/ OtherRow \/ RightRow \/ NoSymbol \/ Fill
    PROVE  Looks
<1> USE GotoLooks, NextRowLooks DEF Looks, TerminalWaits, link_vars, history_vars
<1>1. CASE StartClose
  BY <1>1 DEF StartClose, Searching
<1>2. CASE NoRow
  BY <1>2 DEF NoRow, Searching
<1>3. CASE TwoRows
  BY <1>3 DEF TwoRows, Searching
<1>4. CASE OtherRow
  BY <1>4 DEF OtherRow, Searching
<1>5. CASE RightRow
  BY <1>5 DEF RightRow, Searching
<1>6. CASE NoSymbol
  BY <1>6 DEF NoSymbol, Searching
<1>7. CASE Fill
  BY <1>7 DEF Fill, Searching
<1> QED
  BY <1>1, <1>2, <1>3, <1>4, <1>5, <1>6, <1>7

LEMMA WaitLooks ==
    ASSUME JobOK, \/ Click \/ See \/ SeeUnread \/ SeeNothing
                  \/ \E r \in 1 .. search.n : PickClose(r) \/ PickOpen(r)
    PROVE  Looks
<1>1. /\ job.at \in Searching
      /\ UNCHANGED <<journal, answers, pressed, odd>>
  BY DEF Click, See, SeeUnread, SeeNothing, PickClose, PickOpen, Searching, TerminalWaits, terminal_vars, link_vars, history_vars
<1>2. job'.at \in Searching /\ job'.c = job.c /\ JobShape(job')
  <2> USE DEF JobOK, JobShape, Searching
  <2>1. CASE Click
    BY <2>1 DEF Click
  <2>2. CASE See
    BY <2>2 DEF See
  <2>3. CASE SeeUnread
    BY <2>3 DEF SeeUnread
  <2>4. CASE SeeNothing
    BY <2>4 DEF SeeNothing
  <2>5. ASSUME NEW r, PickClose(r)
        PROVE  job'.at \in Searching /\ job'.c = job.c /\ JobShape(job')
    BY <2>5 DEF PickClose
  <2>6. ASSUME NEW r, PickOpen(r)
        PROVE  job'.at \in Searching /\ job'.c = job.c /\ JobShape(job')
    BY <2>6 DEF PickOpen
  <2> QED
    BY <2>1, <2>2, <2>3, <2>4, <2>5, <2>6
<1> QED
  BY <1>1, <1>2 DEF Looks

LEMMA OpenLooksOrReplies ==
    ASSUME JobOK, StartOpen \/ Symbol
    PROVE  Looks \/ \E s \in Acks : Replies(s)
<1>1. CASE StartOpen
  <2>1. /\ job.at = "reserved" /\ Formed(c) /\ UNCHANGED <<pressed, odd>>
        /\ \/ (Goto("fill") \/ Goto("row")) /\ UNCHANGED link_vars
           \/ Answer("rejected")
    BY <1>1 DEF StartOpen, TerminalWaits, history_vars
  <2> QED
    BY <2>1, GotoLooks, AnswerReplies DEF Looks, link_vars, Searching, Acks, Denials
<1>2. CASE Symbol
  <2>1. /\ job.at = "seen" /\ UNCHANGED <<pressed, odd>>
        /\ \/ (Goto("fill") \/ NextRow) /\ UNCHANGED link_vars
           \/ Answer("rejected")
    BY <1>2 DEF Symbol, TerminalWaits, history_vars
  <2> QED
    BY <2>1, GotoLooks, NextRowLooks, AnswerReplies DEF Looks, link_vars, Searching, Acks, Denials
<1> QED
  BY <1>1, <1>2

LEMMA EndReplies ==
    ASSUME \/ Refuse \/ GiveUp \/ Conclude \/ OtherSymbol \/ CheckFails \/ Misshapen
           \/ PostFails \/ Pressed \/ Breaks
    PROVE  \E s \in Acks : Replies(s)
<1>1. /\ UNCHANGED <<pressed, odd>> /\ job.at # "idle"
      /\ \E s \in Acks \ {"none"} : Answer(s) /\ (s \in Denials => job.at # "pressed")
  BY DEF Refuse, GiveUp, Conclude, OtherSymbol, CheckFails, GiveBack, Misshapen, PostFails, Pressed, Breaks,
         TerminalWaits, terminal_vars, history_vars, Acks, Denials
<1> QED
  BY <1>1, AnswerReplies

-----------------------------------------------------------------------------
(* The invariant.                                                            *)

LEMMA InvInit == Init => IInv
  BY DEF Init, IInv, JournalOK, JobOK, JobShape, DialogOK, AnswersOK, PressedOK, PressedIsRight,
         Idle, Blank, Acks, Places

LEMMA LooksStep ==
    ASSUME IInv, Looks
    PROVE  IInv'
<1>1. /\ job'.at \in Searching /\ job'.c = job.c /\ JobShape(job')
      /\ journal' = journal /\ answers' = answers /\ pressed' = pressed /\ odd' = odd
      /\ job.at \notin {"idle", "pressed"} /\ Formed(job.c)
  BY DEF Looks, Searching, IInv, JobOK, c
<1>2. JobOK'
  BY <1>1 DEF IInv, JobOK, Searching, Places, c
<1>3. DialogOK'
  BY <1>1 DEF DialogOK, Searching
<1> QED
  BY <1>1, <1>2, <1>3 DEF IInv, JournalOK, AnswersOK, Replay, PressedOK, PressedIsRight, Unseen

LEMMA RepliesStep ==
    ASSUME IInv, NEW s \in Acks, Replies(s)
    PROVE  IInv'
<1>1. /\ job.at # "idle" /\ s # "none" /\ (s \in Denials => job.at # "pressed")
      /\ job' = Idle /\ answers' = answers \cup {<<job.c, s>>} /\ pressed' = pressed /\ odd' = odd
      /\ journal' = [journal EXCEPT ![job.c] = [journal[job.c] EXCEPT !.ack = s,
                                                    !.clicked = @ \/ s # "rejected"]]
  BY DEF Replies, c
<1>2. PICK d \in Commands : d = job.c
  BY <1>1 DEF IInv, JobOK, c
<1>3. /\ journal[d] \in [known : BOOLEAN, ack : Acks, clicked : BOOLEAN] /\ journal[d].known
      /\ \A a \in answers : a[1] # d
  BY <1>1, <1>2 DEF IInv, JobOK, JournalOK, c
<1>4. PICK e \in [known : BOOLEAN, ack : Acks, clicked : BOOLEAN] :
         /\ e = [journal[d] EXCEPT !.ack = s, !.clicked = journal[d].clicked \/ s # "rejected"]
         /\ e.known /\ e.ack = s /\ (journal[d].clicked => e.clicked)
  <2>1. [journal[d] EXCEPT !.ack = s, !.clicked = journal[d].clicked \/ s # "rejected"]
           \in [known : BOOLEAN, ack : Acks, clicked : BOOLEAN]
    BY <1>3
  <2> QED
    BY <1>3, <2>1
<1>5. journal' = [journal EXCEPT ![d] = e] /\ journal'[d] = e
      /\ \A x \in Commands : x # d => journal'[x] = journal[x]
  BY <1>1, <1>2, <1>4 DEF IInv, JournalOK
<1>6. JournalOK'
  BY <1>4, <1>5 DEF IInv, JournalOK
<1>7. JobOK' /\ DialogOK'
  BY <1>1 DEF JobOK, DialogOK, JobShape, Idle, Places
<1>8. AnswersOK'
  <2> SUFFICES ASSUME NEW a \in answers'
               PROVE  a[1] \in Commands /\ journal'[a[1]].known
                      /\ a = <<a[1], IF journal'[a[1]].ack = "none" THEN "unknown" ELSE journal'[a[1]].ack>>
    BY DEF AnswersOK, Replay
  <2>1. CASE a = <<d, s>>
    BY <1>1, <1>4, <1>5, <2>1
  <2>2. CASE a \in answers
    BY <1>3, <1>5, <2>2 DEF IInv, AnswersOK, Replay
  <2> QED
    BY <1>1, <1>2, <2>1, <2>2
<1>9. PressedOK'
  <2>1. PressedIsRight'
    BY <1>1 DEF IInv, PressedOK, PressedIsRight, Unseen
  <2>2. ASSUME NEW p \in pressed'
        PROVE  /\ p[1] \in Commands /\ journal'[p[1]].known /\ journal'[p[1]].clicked
               /\ journal'[p[1]].ack \notin Denials
    <3>1. p \in pressed
      BY <1>1
    <3>2. CASE p[1] = d
      <4>1. job.at = "pressed"
        BY <1>1, <1>2, <3>1, <3>2 DEF IInv, JobOK, c
      <4> QED
        BY <1>1, <1>4, <1>5, <3>1, <3>2, <4>1 DEF IInv, PressedOK
    <3>3. CASE p[1] # d
      BY <1>5, <3>1, <3>3 DEF IInv, PressedOK
    <3> QED
      BY <3>2, <3>3
  <2> QED
    BY <2>1, <2>2 DEF PressedOK
<1> QED
  BY <1>6, <1>7, <1>8, <1>9 DEF IInv

\* A command that is taken is new: there is no answer to it and no press.
LEMMA TakeStep ==
    ASSUME IInv, NEW d \in Commands, Take(d)
    PROVE  IInv'
<1>1. /\ job = Idle /\ ~journal[d].known /\ answers' = answers /\ pressed' = pressed /\ odd' = odd
      /\ journal' = [journal EXCEPT ![d] = [Blank EXCEPT !.known = TRUE]]
      /\ job' = [Idle EXCEPT !.at = "reserved", !.c = d]
  BY DEF Take, Write, history_vars
<1>2. PICK e \in [known : BOOLEAN, ack : Acks, clicked : BOOLEAN] :
         e = [Blank EXCEPT !.known = TRUE] /\ e.known /\ e.ack = "none"
  <2>1. [Blank EXCEPT !.known = TRUE] \in [known : BOOLEAN, ack : Acks, clicked : BOOLEAN]
    BY DEF Blank, Acks
  <2>2. [Blank EXCEPT !.known = TRUE].known /\ [Blank EXCEPT !.known = TRUE].ack = "none"
    BY DEF Blank
  <2> QED
    BY <2>1, <2>2
<1>3. /\ journal'[d] = e
      /\ \A x \in Commands : x # d => journal'[x] = journal[x]
      /\ JournalOK'
  BY <1>1, <1>2 DEF IInv, JournalOK
<1>4. (\A a \in answers : a[1] # d) /\ (\A p \in pressed : p[1] # d)
  BY <1>1 DEF IInv, AnswersOK, PressedOK
<1>5. JobOK' /\ DialogOK'
  <2>1. JobShape(job') /\ job'.at = "reserved" /\ job'.c = d
    BY <1>1 DEF Idle, JobShape
  <2>2. JobOK'
    BY <1>1, <1>2, <1>3, <1>4, <2>1 DEF JobOK, Places, c
  <2>3. DialogOK'
    BY <2>1 DEF DialogOK
  <2> QED
    BY <2>2, <2>3
<1>6. AnswersOK' /\ PressedOK'
  BY <1>1, <1>3, <1>4 DEF IInv, AnswersOK, Replay, PressedOK, PressedIsRight, Unseen
<1> QED
  BY <1>3, <1>5, <1>6 DEF IInv

LEMMA AgainStep ==
    ASSUME IInv, NEW d \in Commands, Again(d)
    PROVE  IInv'
<1>1. /\ job.at = "idle" /\ journal[d].known /\ answers' = answers \cup {<<d, Replay(d)>>}
      /\ UNCHANGED <<job, journal, pressed, dialog, clicks, odd>>
  BY DEF Again, history_vars, terminal_vars, Idle
<1>2. JobOK' /\ DialogOK'
  BY <1>1 DEF IInv, JobOK, DialogOK
<1>3. AnswersOK'
  BY <1>1 DEF IInv, AnswersOK, Replay
<1> QED
  BY <1>1, <1>2, <1>3 DEF IInv, JournalOK, PressedOK, PressedIsRight, Unseen

LEMMA CrashStep ==
    ASSUME IInv, Crash
    PROVE  IInv'
<1>1. /\ job' = Idle /\ journal' = journal /\ answers' = answers /\ pressed' = pressed
      /\ odd' = odd
  BY DEF Crash, terminal_vars, link_vars, history_vars
<1>2. JobOK' /\ DialogOK'
  BY <1>1 DEF JobOK, DialogOK, JobShape, Idle, Places
<1> QED
  BY <1>1, <1>2 DEF IInv, JournalOK, AnswersOK, Replay, PressedOK, PressedIsRight, Unseen

\* The last look at the dialog, and the mark in the journal.
LEMMA ReadyStep ==
    ASSUME IInv, Check \/ Mark
    PROVE  IInv'
<1>1. CASE Check
  <2>1. /\ job.at = "check" /\ MayPress /\ ReadBack(dialog)
        /\ job' = [job EXCEPT !.at = "ready"]
        /\ journal' = journal /\ answers' = answers /\ pressed' = pressed
        /\ dialog' = dialog /\ clicks' = clicks /\ odd' = odd
    BY <1>1 DEF Check, Goto, NoCancel, TerminalWaits, link_vars, history_vars
  <2>2. JobShape(job') /\ job'.at = "ready" /\ job'.c = job.c
    BY <2>1 DEF IInv, JobOK, JobShape
  <2>3. JobOK'
    BY <2>1, <2>2 DEF IInv, JobOK, Places, c
  <2>4. DialogOK'
    BY <2>1, <2>2 DEF DialogOK, ReadBack, ReadBackOpen, ReadBackClose, Whole, MayPress, Settled, kind, c
  <2> QED
    BY <2>1, <2>3, <2>4 DEF IInv, JournalOK, AnswersOK, Replay, PressedOK, PressedIsRight, Unseen
<1>2. CASE Mark
  <2>1. /\ job.at = "ready" /\ job' = [job EXCEPT !.at = "marked"]
        /\ journal' = [journal EXCEPT ![job.c] = [journal[job.c] EXCEPT !.clicked = TRUE]]
        /\ answers' = answers /\ pressed' = pressed
        /\ dialog' = dialog /\ clicks' = clicks /\ odd' = odd
    BY <1>2 DEF Mark, Goto, Write, terminal_vars, history_vars, c
  <2>2. JobShape(job') /\ job'.at = "marked" /\ job'.c = job.c
    BY <2>1 DEF IInv, JobOK, JobShape
  <2>3. PICK d \in Commands : d = job.c
    BY <2>1 DEF IInv, JobOK, c
  <2>4. journal[d] \in [known : BOOLEAN, ack : Acks, clicked : BOOLEAN]
    BY DEF IInv, JournalOK
  <2>5. PICK e \in [known : BOOLEAN, ack : Acks, clicked : BOOLEAN] :
           /\ e = [journal[d] EXCEPT !.clicked = TRUE]
           /\ e.known = journal[d].known /\ e.ack = journal[d].ack /\ e.clicked
    <3>1. [journal[d] EXCEPT !.clicked = TRUE]
             \in [known : BOOLEAN, ack : Acks, clicked : BOOLEAN]
      BY <2>4
    <3>2. [journal[d] EXCEPT !.clicked = TRUE].clicked
      BY <2>4
    <3> QED
      BY <2>4, <3>1, <3>2
  <2>6. /\ journal'[d] = e /\ \A x \in Commands : x # d => journal'[x] = journal[x]
        /\ JournalOK'
    BY <2>1, <2>3, <2>5 DEF IInv, JournalOK
  <2>7. JobOK'
    BY <2>1, <2>2, <2>3, <2>5, <2>6 DEF IInv, JobOK, Places, c
  <2>8. DialogOK'
    BY <2>1, <2>2 DEF IInv, DialogOK, ReadBack, ReadBackOpen, ReadBackClose, Whole, MayPress, Settled, kind, c
  <2>9. AnswersOK' /\ PressedOK'
    BY <2>1, <2>3, <2>5, <2>6 DEF IInv, AnswersOK, Replay, PressedOK, PressedIsRight, Unseen
  <2> QED
    BY <2>6, <2>7, <2>8, <2>9 DEF IInv
<1> QED
  BY <1>1, <1>2

\* The press: the first for its command, in the dialog that was read back.
LEMMA PressStep ==
    ASSUME IInv, ScreenOK, Press
    PROVE  IInv'
<1>1. /\ job.at = "marked" /\ job' = [job EXCEPT !.at = "pressed"]
      /\ journal' = journal /\ answers' = answers /\ odd' = odd
      /\ pressed' = pressed \cup {<<job.c, dialog>>}
  BY DEF Press, Goto, link_vars, c
<1>2. JobShape(job') /\ job'.at = "pressed" /\ job'.c = job.c
  BY <1>1 DEF IInv, JobOK, JobShape
<1>3. PICK d \in Commands : d = job.c
  BY <1>1 DEF IInv, JobOK, c
<1>4. /\ journal[d].known /\ journal[d].ack = "none" /\ journal[d].clicked
      /\ Formed(d) /\ \A p \in pressed : p[1] # d
  BY <1>1, <1>3 DEF IInv, JobOK, c
<1>5. JobOK' /\ DialogOK'
  BY <1>1, <1>2 DEF IInv, JobOK, DialogOK, Places, c
<1>6. /\ (d.type = "OPEN_UI" /\ dialog.moved) \/ dialog.of = d.target
      /\ Unseen(d) \/ dialog.volume = IF d.type = "CLOSE_UI" THEN "own" ELSE "asked"
  <2>1. ReadBack(dialog)
    BY <1>1 DEF IInv, DialogOK
  <2>2. CASE d.type = "OPEN_UI"
    <3>1. dialog.text = "asked" /\ (dialog.moved \/ dialog.of = d.target)
      BY <1>1, <1>3, <2>1, <2>2 DEF ReadBack, ReadBackOpen, ScreenOK, kind, c
    <3> QED
      BY <2>2, <3>1 DEF ScreenOK, Unseen
  <2>3. CASE d.type \in {"CLOSE_UI", "CLOSE_UI_PARTIAL"}
    <3>1. ReadBackClose(dialog) /\ (d.type = "CLOSE_UI" <=> Whole(d))
      BY <1>3, <1>4, <2>1, <2>3 DEF ReadBack, Formed, FormedClose, Whole, kind, c
    <3> QED
      BY <1>3, <2>3, <3>1 DEF ReadBackClose, ScreenOK, Unseen, c
  <2> QED
    BY <2>2, <2>3, ClickerAssumption
<1>7. PressedIsRight'
  <2> DEFINE new == <<d, dialog>>
             Right(p) == /\ (p[1].type = "OPEN_UI" /\ p[2].moved) \/ p[2].of = p[1].target
                         /\ Unseen(p[1]) \/ p[2].volume = IF p[1].type = "CLOSE_UI" THEN "own" ELSE "asked"
  <2>1. Right(new) /\ new[1] = d
    BY <1>6
  <2>2. \A p \in pressed : Right(p) /\ p[1] # d
    BY <1>4 DEF IInv, PressedOK, PressedIsRight, Unseen
  <2>3. \A p, q \in pressed : p[1] = q[1] => p = q
    BY DEF IInv, PressedOK, PressedIsRight, Unseen
  <2>4. pressed' = pressed \cup {new}
    BY <1>1, <1>3
  <2> HIDE DEF new
  <2>5. \A p, q \in pressed' : Right(p) /\ (p[1] = q[1] => p = q)
    BY <2>1, <2>2, <2>3, <2>4
  <2> QED
    BY <1>1, <2>5 DEF PressedIsRight, Unseen
<1>8. PressedOK'
  <2>1. \A p \in pressed' : p \in pressed \/ p[1] = d
    BY <1>1, <1>3
  <2> QED
    BY <1>1, <1>4, <1>7, <2>1 DEF IInv, PressedOK, Denials
<1> QED
  BY <1>1, <1>5, <1>8 DEF IInv, JournalOK, AnswersOK, Replay

\* What the terminal does of its own: a click that may change the dialog is one the
\* driver has waited for before it read the dialog back.
LEMMA TerminalStep ==
    ASSUME IInv, ScreenOK, TerminalNext
    PROVE  IInv'
<1>1. /\ job' = job /\ journal' = journal /\ answers' = answers /\ pressed' = pressed
      /\ odd' = odd
  BY DEF TerminalNext, Deliver, Vanish, Sweep, Appear, DriverIdles, link_vars, history_vars
<1>2. DialogOK'
  <2> SUFFICES ASSUME job.at \in {"ready", "marked"}
               PROVE  ReadBack(dialog)' /\ MayPress'
    BY <1>1 DEF DialogOK
  <2>1. ReadBack(dialog) /\ MayPress
    BY DEF IInv, DialogOK
  <2>2. clicks' \subseteq clicks
    BY DEF TerminalNext, Deliver, Vanish, Sweep, Appear
  <2>3. MayPress'
    BY <1>1, <2>1, <2>2 DEF MayPress, Settled, kind, c
  <2>4. dialog.kind \in {"open", "close"} /\ (dialog.kind = "close" => kind = "close")
    BY <2>1 DEF ReadBack, ReadBackOpen, ReadBackClose, kind
  <2>5. dialog # NoDialog
    BY <2>4 DEF NoDialog, Dialog
  <2>6. \/ UNCHANGED dialog
        \/ kind = "open" /\ \E x : dialog' = [dialog EXCEPT !.of = x, !.moved = TRUE]
    BY <2>1, <2>4, <2>5 DEF TerminalNext, Deliver, Vanish, Sweep, Appear, MayPress, Settled, kind
  <2>0. c' = c /\ kind' = kind
    BY <1>1 DEF c, kind
  <2>7. CASE UNCHANGED dialog
    <3>1. CASE kind = "open"
      BY <2>0, <2>1, <2>3, <2>7, <3>1 DEF ReadBack, ReadBackOpen
    <3>2. CASE kind # "open"
      BY <1>1, <2>0, <2>1, <2>3, <2>7, <3>2 DEF ReadBack, ReadBackClose, Whole
    <3> QED
      BY <3>1, <3>2
  <2>8. CASE kind = "open" /\ \E x : dialog' = [dialog EXCEPT !.of = x, !.moved = TRUE]
    <3>1. dialog'.kind = dialog.kind /\ dialog'.text = dialog.text
      BY <2>8 DEF ScreenOK
    <3> QED
      BY <2>0, <2>1, <2>3, <2>8, <3>1 DEF ReadBack, ReadBackOpen
  <2> QED
    BY <2>3, <2>6, <2>7, <2>8
<1>3. JobOK'
  BY <1>1 DEF IInv, JobOK, c
<1> QED
  BY <1>1, <1>2, <1>3 DEF IInv, JournalOK, AnswersOK, Replay, PressedOK, PressedIsRight, Unseen

LEMMA InvStep == IInv /\ ScreenOK /\ [Next]_vars => IInv'
<1> SUFFICES ASSUME IInv, ScreenOK, [Next]_vars PROVE IInv'
  OBVIOUS
<1>1. CASE UNCHANGED vars
  BY <1>1 DEF vars, terminal_vars, link_vars, history_vars, IInv, JournalOK, JobOK, DialogOK, AnswersOK,
              Replay, PressedOK, PressedIsRight, Unseen, ReadBack, ReadBackOpen, ReadBackClose, Whole,
              MayPress, Settled, kind, c
<1>2. CASE TerminalNext
  BY <1>2, TerminalStep
<1>3. CASE DriverNext
  <2>1. JobOK
    BY DEF IInv
  <2> QED
    BY <1>3, <2>1, CloseLooks, WaitLooks, OpenLooksOrReplies, EndReplies, LooksStep, RepliesStep,
       TakeStep, AgainStep, CrashStep, ReadyStep, PressStep DEF DriverNext
<1> QED
  BY <1>1, <1>2, <1>3 DEF Next

\* The dialog: what is typed into it, what a late click makes of it.
LEMMA ScreenInit == Init => ScreenOK
  BY DEF Init, ScreenOK, NoDialog, Dialog, Idle

LastLooks == {"check", "ready", "marked"}

LEMMA ScreenTerminal ==
    ASSUME JobOK, ScreenOK, TerminalNext
    PROVE  ScreenOK'
<1>1. job' = job /\ odd' = odd /\ c' = c /\ kind' = kind
  BY DEF TerminalNext, Deliver, Vanish, Sweep, Appear, DriverIdles, kind, c
<1>2. \/ dialog' = dialog
      \/ \E k, x, v : dialog = NoDialog /\ dialog' = Dialog(k, x, v)
      \/ \E x : dialog' = [dialog EXCEPT !.of = x, !.moved = TRUE]
  BY DEF TerminalNext, Deliver, Vanish, Sweep, Appear
<1>3. CASE dialog' = dialog
  BY <1>1, <1>3 DEF ScreenOK
<1>4. CASE \E k, x, v : dialog = NoDialog /\ dialog' = Dialog(k, x, v)
  <2>1. NoDialog.of = Nobody /\ NoDialog.moved = FALSE
    BY DEF Dialog, NoDialog
  <2>2. PICK k, x, v : dialog = NoDialog /\ dialog' = Dialog(k, x, v)
    BY <1>4
  <2>3. /\ dialog' = [kind |-> dialog'.kind, of |-> dialog'.of, volume |-> dialog'.volume,
                      text |-> dialog'.text, moved |-> dialog'.moved]
        /\ dialog'.text = "own"
    BY <2>2 DEF Dialog
  <2>4. ~(job.at \in LastLooks /\ kind = "open")
    <3>1. SUFFICES ASSUME job.at \in LastLooks, kind = "open" PROVE FALSE
      OBVIOUS
    <3>2. c \in Commands /\ c.type = "OPEN_UI"
      BY <3>1 DEF JobOK, kind, LastLooks
    <3>3. c.target # Nobody
      BY <3>2, ClickerAssumption
    <3> QED
      BY <2>1, <2>2, <3>1, <3>3 DEF ScreenOK, LastLooks
  <2> QED
    BY <1>1, <2>3, <2>4 DEF ScreenOK, LastLooks
<1>5. CASE \E x : dialog' = [dialog EXCEPT !.of = x, !.moved = TRUE]
  BY <1>1, <1>5 DEF ScreenOK
<1> QED
  BY <1>2, <1>3, <1>4, <1>5

LEMMA ScreenDriver ==
    ASSUME JobOK, ScreenOK, DriverNext
    PROVE  ScreenOK'
<1>0. NoDialog.text = "own" /\ NoDialog = [kind |-> NoDialog.kind, of |-> NoDialog.of,
          volume |-> NoDialog.volume, text |-> NoDialog.text, moved |-> NoDialog.moved]
  BY DEF NoDialog, Dialog
<1>1. CASE \E d \in Commands : Take(d)
  <2>1. /\ dialog' = [dialog EXCEPT !.volume = OfBefore(dialog.volume), !.text = OfBefore(dialog.text)]
        /\ job'.at = "reserved"
    BY <1>1 DEF Take, Idle
  <2> QED
    BY <2>1 DEF ScreenOK, OfBefore
<1>2. CASE Fill
  <2>1. /\ job.at = "fill" /\ job' = [job EXCEPT !.at = "check"] /\ odd' = odd
        /\ kind = "open" => dialog.of = c.target
        /\ \/ dialog' = dialog
           \/ dialog' = [dialog EXCEPT !.text = "asked", !.moved = FALSE,
                            !.volume = IF "deaf" \in odd THEN dialog.volume ELSE "asked"]
           \/ dialog' = [dialog EXCEPT !.moved = FALSE]
    BY <1>2 DEF Fill, Goto, TerminalWaits, NoCancel
  <2>2. job'.c = job.c
    BY <2>1 DEF JobOK, JobShape
  <2>3. c' = c /\ kind' = kind
    BY <2>2 DEF c, kind
  <2>4. dialog'.of = dialog.of
    BY <2>1 DEF ScreenOK
  <2> QED
    BY <2>1, <2>3, <2>4 DEF ScreenOK
<1>3. CASE Check \/ Mark
  <2>1. /\ job.at \in LastLooks /\ dialog' = dialog /\ odd' = odd
        /\ \E place : job' = [job EXCEPT !.at = place]
    BY <1>3 DEF Check, Mark, Goto, NoCancel, TerminalWaits, terminal_vars, LastLooks
  <2>2. job'.c = job.c
    BY <2>1 DEF JobOK, JobShape
  <2> QED
    BY <2>1, <2>2 DEF ScreenOK, LastLooks, c, kind
<1>4. ASSUME dialog' = dialog \/ dialog' = NoDialog, odd' = odd, job'.at \notin LastLooks
      PROVE  ScreenOK'
  BY <1>0, <1>4 DEF ScreenOK, LastLooks
<1>5. CASE \/ Refuse \/ GiveUp \/ Conclude \/ OtherSymbol \/ CheckFails \/ Misshapen
           \/ PostFails \/ Pressed \/ Breaks \/ Crash
  <2>1. (dialog' = dialog \/ dialog' = NoDialog) /\ odd' = odd /\ job' = Idle
    BY <1>5 DEF Refuse, GiveUp, Conclude, OtherSymbol, CheckFails, GiveBack, Misshapen, PostFails, Pressed,
                Breaks, Crash, Answer, Cancel, NoCancel, TerminalWaits, terminal_vars
  <2> QED
    BY <2>1, <1>4 DEF Idle, LastLooks
<1>6. CASE Press \/ \E d \in Commands : Again(d)
  <2>1. (dialog' = dialog \/ dialog' = NoDialog) /\ odd' = odd
    BY <1>6 DEF Press, Again, terminal_vars
  <2>2. job'.at \notin LastLooks
    BY <1>6 DEF Press, Again, Goto, Idle, JobOK, JobShape, LastLooks
  <2> QED
    BY <2>1, <2>2, <1>4
<1>7. CASE \/ StartClose \/ StartOpen \/ NoRow \/ TwoRows \/ OtherRow \/ RightRow \/ NoSymbol \/ Symbol
  <2>1. (dialog' = dialog \/ dialog' = NoDialog) /\ odd' = odd
    BY <1>7 DEF StartClose, StartOpen, NoRow, TwoRows, OtherRow, RightRow, NoSymbol, Symbol, Cancel, NoCancel,
                TerminalWaits
  <2>2. (\E s \in Acks : Answer(s)) \/ NextRow \/ \E place \in {"row", "fill"} : Goto(place)
    BY <1>7 DEF StartClose, StartOpen, NoRow, TwoRows, OtherRow, RightRow, NoSymbol, Symbol, Acks
  <2>3. job'.at \notin LastLooks
    <3>1. CASE \E s \in Acks : Answer(s)
      BY <3>1 DEF Answer, Idle, LastLooks
    <3>2. CASE NextRow
      BY <3>2 DEF NextRow, Idle, LastLooks
    <3>3. CASE \E place \in {"row", "fill"} : Goto(place)
      BY <3>3 DEF Goto, JobOK, JobShape, LastLooks
    <3> QED
      BY <2>2, <3>1, <3>2, <3>3
  <2> QED
    BY <2>1, <2>3, <1>4
<1>8. CASE \/ Click \/ See \/ SeeUnread \/ SeeNothing
           \/ \E r \in 1 .. search.n : PickClose(r) \/ PickOpen(r)
  <2>1. (dialog' = dialog \/ dialog' = NoDialog) /\ odd' = odd
    BY <1>8 DEF Click, See, SeeUnread, SeeNothing, PickClose, PickOpen, Cancel, NoCancel, TerminalWaits,
                terminal_vars
  <2>2. job'.at \notin LastLooks
    <3> USE DEF JobOK, JobShape, LastLooks
    <3>1. CASE Click
      BY <3>1 DEF Click
    <3>2. CASE See \/ SeeUnread \/ SeeNothing
      BY <3>2 DEF See, SeeUnread, SeeNothing
    <3>3. ASSUME NEW r, PickClose(r) \/ PickOpen(r)
          PROVE  job'.at \notin LastLooks
      BY <3>3 DEF PickClose, PickOpen
    <3> QED
      BY <1>8, <3>1, <3>2, <3>3
  <2> QED
    BY <2>1, <2>2, <1>4
<1> QED
  BY <1>1, <1>2, <1>3, <1>5, <1>6, <1>7, <1>8 DEF DriverNext

LEMMA ScreenStep == IInv /\ ScreenOK /\ [Next]_vars => ScreenOK'
<1> SUFFICES ASSUME IInv, ScreenOK, [Next]_vars PROVE ScreenOK'
  OBVIOUS
<1>1. CASE UNCHANGED vars
  BY <1>1 DEF vars, terminal_vars, ScreenOK, kind, c
<1>2. JobOK
  BY DEF IInv
<1> QED
  BY <1>1, <1>2, ScreenTerminal, ScreenDriver DEF Next

LEMMA Invariance == Spec => [](IInv /\ ScreenOK)
  BY InvInit, InvStep, ScreenInit, ScreenStep, PTL DEF Spec

\* The button is pressed once for a command at most, whatever crashes and repeats there
\* are; in the dialog of its position, or of its symbol unless a late click has changed
\* it after it was read; and with its volume, unless the terminal hides that.
THEOREM PressedCorrect == Spec => []PressedIsRight
<1>1. IInv => PressedIsRight
  BY DEF IInv, PressedOK
<1> QED
  BY <1>1, Invariance, PTL

\* No answer denies a press, the first or one from the journal, and the journal knows
\* of every press.
THEOREM UntouchedCorrect == Spec => []UntouchedIsTrue
<1>1. IInv => UntouchedIsTrue
  <2> SUFFICES ASSUME IInv PROVE UntouchedIsTrue
    OBVIOUS
  <2>1. \A a \in answers : a = <<a[1], Replay(a[1])>>
    BY DEF IInv, AnswersOK
  <2>2. \A p \in pressed : journal[p[1]].clicked /\ Replay(p[1]) \notin Denials
    BY DEF IInv, PressedOK, Replay, Denials
  <2>3. \A p \in pressed : \A s \in Denials : <<p[1], s>> \notin answers
    BY <2>1, <2>2
  <2>4. \A a, b \in answers : a[1] = b[1] => b = a
    BY <2>1
  <2> QED
    BY <2>2, <2>3, <2>4 DEF UntouchedIsTrue, Denials
<1> QED
  BY <1>1, Invariance, PTL

-----------------------------------------------------------------------------
(* The search for the row.                                                   *)

Opened == {"wait", "seen", "nothing"}
Seeking == job.at \in {"row", "click"} \cup Opened /\ kind = "close"

JobRest(j) == j = [Idle EXCEPT !.at = "reserved", !.c = j.c]
SearchShape(s) == s = [n |-> s.n, hint |-> s.hint, tried |-> s.tried, again |-> s.again, read |-> s.read,
                       linear |-> s.linear, seen |-> s.seen, opened |-> s.opened, dirty |-> s.dirty]

\* Every live position has a row, and so has what belongs to nothing.
RowsOK ==
    /\ shown = [close |-> shown.close, open |-> shown.open]
    /\ shown.close \in Seq(Tickets \cup {Spare})
    /\ live \subseteq Tickets
    /\ \A t \in live \cup {Spare} : \E i \in DOMAIN shown.close : shown.close[i] = t

\* The driver has noticed nothing that makes the search unclean, there is nothing it
\* could not notice, and the position is there to be found.
Trusted == ~search.dirty /\ ~job.hung /\ excuses = {} /\ c.target \in live

\* The only click on the list is the one the driver waits for, and it opens the dialog.
CloseClicks == {k \in clicks : k.kind = "close"}
Awaited == [kind |-> "close", row |-> job.row, try |-> job.try, hung |-> FALSE]
ClicksOK ==
    /\ CloseClicks # {} => job.at = "wait" /\ CloseClicks = {Awaited} /\ ~OnScreen("close")
    /\ job.at = "click" => ~OnScreen("close")

\* A row of the target is still to be opened, or is being opened and will say so.
Ahead(p) ==
    /\ shown.close[p] = c.target /\ p \notin search.tried
    /\ job.row = p =>
          /\ job.at = "wait" => \/ CloseClicks # {}
                                \/ OnScreen("close") /\ dialog.of = c.target
                                \/ ~OnScreen("close") /\ dialog # NoDialog
          /\ job.at = "seen" => job.seen = c.target
          /\ job.at # "nothing"

\* Rows have gone, and the driver will notice at the last one.
Shrunk == Len(shown.close) < search.n /\ ~LastRowOpened

Findable == Shrunk \/ \E p \in DOMAIN shown.close : Ahead(p)

SearchTypes ==
    /\ SearchShape(search) /\ search.n \in Nat
    /\ job.at # "row" => job.row \in Nat
    /\ job.at = "row" => (job.try = 1 /\ ~job.hung) \/ (job.try = 2 /\ job.hung)
    /\ job.at = "wait" /\ ~job.hung => job.gui
    /\ excuses = {} => Len(shown.close) <= search.n

SearchOK ==
    /\ RowsOK
    /\ job.at = "reserved" => JobRest(job)
    /\ Seeking => /\ SearchTypes
                  /\ Trusted => ClicksOK /\ c.target \notin DOMAIN search.seen /\ Findable

\* What is left of a sequence, and what is in one that something is put into.
LEMMA Before ==
    ASSUME NEW S, NEW s \in Seq(S), NEW i \in 1 .. Len(s)
    PROVE  /\ SubSeq(s, 1, i - 1) \in Seq(S) /\ Len(SubSeq(s, 1, i - 1)) = i - 1
           /\ \A k \in 1 .. i - 1 : SubSeq(s, 1, i - 1)[k] = s[k]
<1>1. \A k \in 1 .. i - 1 : s[k] \in S
  OBVIOUS
<1> QED
  BY <1>1, SubSeqProperties

LEMMA From ==
    ASSUME NEW S, NEW s \in Seq(S), NEW i \in 1 .. Len(s) + 1
    PROVE  /\ SubSeq(s, i, Len(s)) \in Seq(S) /\ Len(SubSeq(s, i, Len(s))) = Len(s) - i + 1
           /\ \A k \in 1 .. Len(s) - i + 1 : SubSeq(s, i, Len(s))[k] = s[i + k - 1]
<1>1. \A k \in i .. Len(s) : s[k] \in S
  OBVIOUS
<1> QED
  BY <1>1, SubSeqProperties

LEMMA RemovedAt ==
    ASSUME NEW S, NEW s \in Seq(S), NEW i \in DOMAIN s
    PROVE  /\ RemoveAt(s, i) \in Seq(S) /\ Len(RemoveAt(s, i)) = Len(s) - 1
           /\ \A j \in DOMAIN s : j # i => \E k \in DOMAIN RemoveAt(s, i) : RemoveAt(s, i)[k] = s[j]
<1>1. i \in 1 .. Len(s) /\ Len(s) \in Nat /\ DOMAIN s = 1 .. Len(s)
  OBVIOUS
<1>2. PICK a \in Seq(S), b \in Seq(S) :
         /\ RemoveAt(s, i) = a \o b /\ Len(a) = i - 1 /\ Len(b) = Len(s) - i
         /\ \A k \in 1 .. i - 1 : a[k] = s[k]
         /\ \A k \in 1 .. Len(s) - i : b[k] = s[i + k]
  <2>1. i + 1 \in 1 .. Len(s) + 1
    BY <1>1
  <2>2. /\ SubSeq(s, i + 1, Len(s)) \in Seq(S) /\ Len(SubSeq(s, i + 1, Len(s))) = Len(s) - i
        /\ \A k \in 1 .. Len(s) - i : SubSeq(s, i + 1, Len(s))[k] = s[i + k]
    BY <1>1, <2>1, From, SMTT(30)
  <2> QED
    BY <1>1, <2>2, Before DEF RemoveAt
<1>3. /\ a \o b \in Seq(S) /\ Len(a \o b) = Len(a) + Len(b)
      /\ \A k \in 1 .. Len(a) + Len(b) : (a \o b)[k] = IF k <= Len(a) THEN a[k] ELSE b[k - Len(a)]
  BY ConcatProperties
<1>4. Len(a \o b) = Len(s) - 1 /\ DOMAIN (a \o b) = 1 .. Len(s) - 1
  <2>1. Len(a) = i - 1 /\ Len(b) = Len(s) - i
    BY <1>2
  <2>2. Len(a \o b) = Len(s) - 1
    BY <1>1, <1>3, <2>1
  <2>3. DOMAIN (a \o b) = 1 .. Len(a \o b)
    BY <1>3, LenProperties
  <2> QED
    BY <2>2, <2>3
<1>5. ASSUME NEW j \in DOMAIN s, j # i
      PROVE  \E k \in DOMAIN (a \o b) : (a \o b)[k] = s[j]
  <2>1. CASE j < i
    <3>1. j \in 1 .. Len(a) + Len(b) /\ j <= Len(a) /\ j \in 1 .. i - 1 /\ j \in 1 .. Len(s) - 1
      BY <1>1, <1>2, <2>1
    <3> QED
      BY <1>2, <1>3, <1>4, <3>1
  <2>2. CASE j > i
    <3>1. i \in Int /\ j \in Int /\ Len(s) \in Int /\ 1 <= i /\ i < j /\ j <= Len(s)
      BY <1>1, <2>2
    <3>2. PICK k \in Int : k = j - 1
      BY <3>1
    <3>3. /\ k \in 1 .. (i - 1) + (Len(s) - i) /\ ~(k <= i - 1) /\ k - (i - 1) \in 1 .. Len(s) - i
          /\ k \in 1 .. Len(s) - 1 /\ i + (k - (i - 1)) = j
      BY <3>1, <3>2
    <3>4. Len(a) = i - 1 /\ Len(b) = Len(s) - i
      BY <1>2
    <3>5. (a \o b)[k] = b[k - (i - 1)] /\ b[k - (i - 1)] = s[j]
      BY <1>2, <1>3, <3>3, <3>4
    <3> QED
      BY <1>4, <3>3, <3>5
  <2> QED
    BY <1>1, <1>5, <2>1, <2>2
<1> QED
  BY <1>2, <1>3, <1>4, <1>5

\* Either end of a list that has a place is a place of it.
LEMMA EitherEnd ==
    ASSUME NEW n \in Nat, NEW k \in 1 .. n, NEW i \in {1, n}
    PROVE  i \in 1 .. n
OBVIOUS

\* List t of S has every row of s, and e.
Gains(t, s, e, S) ==
    /\ t \in Seq(S)
    /\ \E k \in DOMAIN t : t[k] = e
    /\ \A j \in DOMAIN s : \E k \in DOMAIN t : t[k] = s[j]

\* A row put into a list moves the others and loses none.
LEMMA InsertedAt ==
    ASSUME NEW S, NEW s \in Seq(S), NEW i \in 1 .. Len(s), NEW e \in S
    PROVE  Gains(InsertAt(s, i, e), s, e, S)
<1>1. Len(s) \in Nat /\ DOMAIN s = 1 .. Len(s)
  OBVIOUS
<1>2. PICK a \in Seq(S), b \in Seq(S) :
         /\ InsertAt(s, i, e) = (a \o <<e>>) \o b /\ Len(a) = i - 1 /\ Len(b) = Len(s) - i + 1
         /\ \A k \in 1 .. i - 1 : a[k] = s[k]
         /\ \A k \in 1 .. Len(s) - i + 1 : b[k] = s[i + k - 1]
  <2>1. i \in 1 .. Len(s) + 1
    BY <1>1
  <2>2. /\ SubSeq(s, 1, i - 1) \in Seq(S) /\ Len(SubSeq(s, 1, i - 1)) = i - 1
        /\ \A k \in 1 .. i - 1 : SubSeq(s, 1, i - 1)[k] = s[k]
    BY Before
  <2>3. /\ SubSeq(s, i, Len(s)) \in Seq(S) /\ Len(SubSeq(s, i, Len(s))) = Len(s) - i + 1
        /\ \A k \in 1 .. Len(s) - i + 1 : SubSeq(s, i, Len(s))[k] = s[i + k - 1]
    BY <2>1, From
  <2> QED
    BY <2>2, <2>3 DEF InsertAt
<1>3. PICK d \in Seq(S) :
         /\ d = a \o <<e>> /\ Len(d) = i /\ d[i] = e
         /\ \A k \in 1 .. i - 1 : d[k] = s[k]
  <2>1. <<e>> \in Seq(S) /\ Len(<<e>>) = 1 /\ <<e>>[1] = e
    OBVIOUS
  <2>2. /\ a \o <<e>> \in Seq(S) /\ Len(a \o <<e>>) = Len(a) + 1
        /\ \A k \in 1 .. Len(a) + 1 :
              (a \o <<e>>)[k] = IF k <= Len(a) THEN a[k] ELSE <<e>>[k - Len(a)]
    BY <2>1, ConcatProperties
  <2>3. i \in 1 .. Len(a) + 1 /\ ~(i <= Len(a)) /\ i - Len(a) = 1 /\ Len(a) + 1 = i
    BY <1>1, <1>2
  <2>4. (a \o <<e>>)[i] = e
    BY <2>1, <2>2, <2>3
  <2>5. ASSUME NEW k \in 1 .. i - 1
        PROVE  (a \o <<e>>)[k] = s[k]
    <3>1. k \in 1 .. Len(a) + 1 /\ k <= Len(a)
      BY <1>2
    <3> QED
      BY <1>2, <2>2, <3>1
  <2> QED
    BY <2>2, <2>3, <2>4, <2>5
<1>4. /\ d \o b \in Seq(S) /\ Len(d \o b) = Len(d) + Len(b)
      /\ \A k \in 1 .. Len(d) + Len(b) : (d \o b)[k] = IF k <= Len(d) THEN d[k] ELSE b[k - Len(d)]
  BY ConcatProperties
<1>5. DOMAIN (d \o b) = 1 .. Len(s) + 1 /\ Len(d) + Len(b) = Len(s) + 1
  <2>1. Len(d) = i /\ Len(b) = Len(s) - i + 1
    BY <1>2, <1>3
  <2>2. Len(d) + Len(b) = Len(s) + 1
    <3>1. \A x, y \in Int : x + (y - x + 1) = y + 1
      OBVIOUS
    <3> QED
      BY <1>1, <2>1, <3>1
  <2>3. DOMAIN (d \o b) = 1 .. Len(d \o b)
    BY <1>4, LenProperties
  <2> QED
    BY <1>4, <2>2, <2>3
<1>6. (d \o b)[i] = e
  BY <1>1, <1>3, <1>4, <1>5
<1>7. ASSUME NEW j \in DOMAIN s
      PROVE  \E k \in DOMAIN (d \o b) : (d \o b)[k] = s[j]
  <2>1. CASE j < i
    <3>1. j \in 1 .. Len(s) + 1 /\ j <= Len(d) /\ j \in 1 .. i - 1
      BY <1>1, <1>3, <2>1
    <3> QED
      BY <1>3, <1>4, <1>5, <3>1
  <2>2. CASE j >= i
    <3> DEFINE k == j + 1
    <3>1. /\ k \in 1 .. Len(s) + 1 /\ ~(k <= Len(d)) /\ k - Len(d) \in 1 .. Len(s) - i + 1
          /\ i + (k - Len(d)) - 1 = j
      BY <1>1, <1>3, <2>2
    <3> HIDE DEF k
    <3>2. (d \o b)[k] = s[j]
      BY <1>2, <1>4, <1>5, <3>1
    <3> QED
      BY <1>5, <3>1, <3>2
  <2> QED
    BY <1>1, <2>1, <2>2
<1>8. i \in DOMAIN (d \o b)
  BY <1>1, <1>5
<1>9. InsertAt(s, i, e) = d \o b
  BY <1>2, <1>3
<1> QED
  BY <1>4, <1>6, <1>7, <1>8, <1>9 DEF Gains

\* Rows come and go, but no live position loses its own.
LEMMA RowsInit == Init => RowsOK
<1> SUFFICES ASSUME Init PROVE RowsOK
  OBVIOUS
<1>1. PICK rows \in Bijection(1 .. Cardinality(Held), Held) :
         shown = [close |-> Append(rows, Spare), open |-> Append(SetToSeq(Symbols), Spare)]
  BY DEF Init
<1>2. live = Held /\ Held \subseteq Tickets
  BY DEF Init, Tickets
<1>3. Cardinality(Held) \in Nat
  BY FS_CardinalityType, ClickerAssumption
<1>4. /\ rows \in [1 .. Cardinality(Held) -> Held]
      /\ \A t \in Held : \E i \in 1 .. Cardinality(Held) : rows[i] = t
  BY <1>1 DEF Bijection, Surjection, Injection
<1>5. rows \in Seq(Tickets \cup {Spare}) /\ Len(rows) = Cardinality(Held)
  BY <1>2, <1>3, <1>4
<1>6. /\ Append(rows, Spare) \in Seq(Tickets \cup {Spare})
      /\ DOMAIN Append(rows, Spare) = 1 .. Cardinality(Held) + 1
      /\ \A i \in 1 .. Cardinality(Held) : Append(rows, Spare)[i] = rows[i]
  BY <1>3, <1>5
<1>7. \A t \in Held \cup {Spare} : \E i \in DOMAIN Append(rows, Spare) : Append(rows, Spare)[i] = t
  <2>1. \A t \in Held : \E i \in DOMAIN Append(rows, Spare) : Append(rows, Spare)[i] = t
    BY <1>3, <1>4, <1>6
  <2>2. Cardinality(Held) + 1 \in DOMAIN Append(rows, Spare)
        /\ Append(rows, Spare)[Cardinality(Held) + 1] = Spare
    BY <1>3, <1>5, <1>6
  <2> QED
    BY <2>1, <2>2
<1> QED
  BY <1>1, <1>2, <1>6, <1>7 DEF RowsOK

LEMMA DriverRows ==
    ASSUME DriverNext
    PROVE  shown' = shown /\ (live' = live \/ \E t : live' = live \ {t})
<1> USE DEF TerminalWaits, terminal_vars
<1>1. CASE \/ \E d \in Commands : Take(d) \/ Again(d)
           \/ Refuse \/ StartClose \/ StartOpen
           \/ \E r \in 1 .. search.n : PickClose(r) \/ PickOpen(r)
  BY <1>1 DEF Take, Again, Refuse, StartClose, StartOpen, PickClose, PickOpen
<1>2. CASE \/ Click \/ See \/ SeeUnread \/ SeeNothing \/ GiveUp \/ NoRow \/ TwoRows
           \/ OtherRow \/ RightRow \/ NoSymbol \/ Symbol \/ Conclude
  BY <1>2 DEF Click, See, SeeUnread, SeeNothing, GiveUp, NoRow, TwoRows, OtherRow, RightRow, NoSymbol,
              Symbol, Conclude
<1>3. CASE \/ OtherSymbol \/ Fill \/ Check \/ CheckFails \/ Misshapen \/ Mark \/ PostFails \/ Pressed
           \/ Breaks \/ Crash
  BY <1>3 DEF OtherSymbol, Fill, Check, CheckFails, Misshapen, Mark, PostFails, Pressed, Breaks, Crash
<1>4. CASE Press
  BY <1>4 DEF Press
<1> QED
  BY <1>1, <1>2, <1>3, <1>4 DEF DriverNext

LEMMA RowsStep ==
    ASSUME RowsOK, Next
    PROVE  RowsOK'
<1>1. CASE shown' = shown /\ (live' = live \/ \E t : live' = live \ {t})
  <2>1. live' \subseteq live
    BY <1>1
  <2> QED
    BY <1>1, <2>1 DEF RowsOK
<1>2. CASE \E t \in Tickets : Sweep(t)
  <2>0. PICK t \in Tickets : Sweep(t)
    BY <1>2
  <2>1. PICK i \in DOMAIN shown.close :
           /\ t \notin live /\ shown.close[i] = t /\ live' = live
           /\ shown' = [shown EXCEPT !.close = RemoveAt(shown.close, i)]
    BY <2>0 DEF Sweep
  <2>2. /\ RemoveAt(shown.close, i) \in Seq(Tickets \cup {Spare})
        /\ \A j \in DOMAIN shown.close : j # i =>
              \E k \in DOMAIN RemoveAt(shown.close, i) : RemoveAt(shown.close, i)[k] = shown.close[j]
    BY RemovedAt DEF RowsOK
  <2>3. shown' = [close |-> RemoveAt(shown.close, i), open |-> shown.open]
    BY <2>1 DEF RowsOK
  <2>4. \A x \in live \cup {Spare} :
           \E k \in DOMAIN RemoveAt(shown.close, i) : RemoveAt(shown.close, i)[k] = x
    BY <2>1, <2>2, ClickerAssumption DEF RowsOK
  <2> QED
    BY <2>1, <2>2, <2>3, <2>4 DEF RowsOK
<1>3. CASE \E t \in Tickets : Appear(t)
  <2>1. PICK t \in Tickets, i \in {1, Len(shown.close)} :
           /\ live' = live \cup {t}
           /\ shown' = [shown EXCEPT !.close = InsertAt(shown.close, i, t)]
    BY <1>3 DEF Appear
  <2>2. shown.close \in Seq(Tickets \cup {Spare}) /\ i \in 1 .. Len(shown.close)
    <3> DEFINE rows == shown.close
               All == Tickets \cup {Spare}
    <3>1. rows \in Seq(All) /\ i \in {1, Len(rows)}
      BY DEF RowsOK
    <3>2. \E k \in DOMAIN rows : rows[k] = Spare
      BY DEF RowsOK
    <3> HIDE DEF rows, All
    <3>3. Len(rows) \in Nat /\ DOMAIN rows = 1 .. Len(rows)
      BY ONLY <3>1
    <3>4. PICK k \in 1 .. Len(rows) : TRUE
      BY ONLY <3>2, <3>3
    <3>5. i \in 1 .. Len(rows)
      BY ONLY <3>1, <3>3, <3>4, EitherEnd
    <3> QED
      BY <3>1, <3>5 DEF rows, All
  <2>3. /\ InsertAt(shown.close, i, t) \in Seq(Tickets \cup {Spare})
        /\ \E k \in DOMAIN InsertAt(shown.close, i, t) : InsertAt(shown.close, i, t)[k] = t
        /\ \A j \in DOMAIN shown.close : \E k \in DOMAIN InsertAt(shown.close, i, t) :
              InsertAt(shown.close, i, t)[k] = shown.close[j]
    <3> DEFINE All == Tickets \cup {Spare}
               rows == shown.close
    <3>1. t \in All /\ rows \in Seq(All) /\ i \in 1 .. Len(rows)
      BY <2>2
    <3> HIDE DEF All, rows
    <3>2. Gains(InsertAt(rows, i, t), rows, t, All)
      BY ONLY <3>1, InsertedAt
    <3> QED
      BY <3>2 DEF Gains, All, rows
  <2>4. shown' = [close |-> InsertAt(shown.close, i, t), open |-> shown.open]
    BY <2>1 DEF RowsOK
  <2>5. \A x \in live' \cup {Spare} : \E k \in DOMAIN InsertAt(shown.close, i, t) :
              InsertAt(shown.close, i, t)[k] = x
    BY <2>1, <2>3 DEF RowsOK
  <2> QED
    BY <2>1, <2>3, <2>4, <2>5 DEF RowsOK
<1> QED
  BY <1>1, <1>2, <1>3, DriverRows DEF Next, TerminalNext, Deliver, Vanish

\* Away from the list nothing is claimed of the search but that the rows are there.
LEMMA ElsewhereStep ==
    ASSUME RowsOK', job'.at # "reserved",
           job'.at \notin {"row", "click"} \cup Opened \/ kind' # "close"
    PROVE  SearchOK'
  BY DEF SearchOK, Seeking

\* The steps that go nowhere near the list.
LEMMA AwayStep ==
    ASSUME JobOK, RowsOK',
           \/ Refuse \/ StartOpen \/ GiveUp \/ RightRow \/ NoSymbol \/ Symbol \/ Conclude
           \/ OtherSymbol \/ Fill \/ Check \/ CheckFails \/ Misshapen \/ Mark \/ Press \/ PostFails \/ Pressed \/ Breaks \/ Crash
           \/ \E r \in 1 .. search.n : PickOpen(r)
    PROVE  SearchOK'
<1> USE DEF Opened
<1>1. CASE \E s \in Acks : Answer(s) \/ job' = Idle
  <2>1. job' = Idle
    BY <1>1 DEF Answer
  <2> QED
    BY <2>1, ElsewhereStep DEF Idle
<1>2. CASE Refuse \/ GiveUp \/ Conclude \/ OtherSymbol \/ CheckFails \/ Misshapen \/ PostFails \/ Pressed \/ Breaks \/ Crash
  BY <1>1, <1>2 DEF Refuse, GiveUp, Conclude, OtherSymbol, CheckFails, GiveBack, Misshapen, PostFails, Pressed, Breaks,
                    Crash, Acks
<1>3. CASE RightRow \/ Fill \/ Check \/ Mark \/ Press
  <2>1. \E place \in {"fill", "check", "ready", "marked", "pressed"} : Goto(place)
    BY <1>3 DEF RightRow, Fill, Check, Mark, Press
  <2>2. job'.at \in {"fill", "check", "ready", "marked", "pressed"}
    BY <2>1 DEF JobOK, JobShape, Goto
  <2> QED
    BY <2>2, ElsewhereStep
<1>4. CASE StartOpen \/ NoSymbol \/ Symbol \/ \E r \in 1 .. search.n : PickOpen(r)
  <2>1. \/ \E s \in Acks : Answer(s)
        \/ /\ kind = "open"
           /\ \/ Goto("fill") \/ Goto("row") \/ NextRow
              \/ \E r \in 1 .. search.n : job' = [job EXCEPT !.at = "click", !.row = r]
    BY <1>4 DEF StartOpen, NoSymbol, Symbol, PickOpen, Acks
  <2>2. CASE /\ kind = "open"
             /\ \/ Goto("fill") \/ Goto("row") \/ NextRow
                \/ \E r \in 1 .. search.n : job' = [job EXCEPT !.at = "click", !.row = r]
    <3>1. job'.c = job.c /\ job'.at # "reserved"
      BY <2>2 DEF JobOK, JobShape, Goto, NextRow, Idle, c
    <3>2. kind' # "close"
      BY <2>2, <3>1 DEF kind, c
    <3> QED
      BY <3>1, <3>2, ElsewhereStep
  <2> QED
    BY <1>1, <2>1, <2>2
<1> QED
  BY <1>2, <1>3, <1>4

\* A command is taken, or answered from the journal; nothing happens.
LEMMA TakenStep ==
    ASSUME SearchOK, RowsOK', NEW d \in Commands, Take(d)
    PROVE  SearchOK'
<1>1. job' = [Idle EXCEPT !.at = "reserved", !.c = d]
  BY DEF Take
<1>2. job'.at = "reserved" /\ JobRest(job')
  BY <1>1 DEF JobRest, Idle
<1> QED
  BY <1>2 DEF SearchOK, Seeking, Opened

LEMMA SameStep ==
    ASSUME SearchOK, RowsOK', UNCHANGED <<live, shown, dialog, clicks, job, search, excuses>>
    PROVE  SearchOK'
  BY DEF SearchOK, Seeking, SearchTypes, SearchShape, JobRest, Trusted, ClicksOK, CloseClicks, Awaited,
         Findable, Shrunk, LastRowOpened, Ahead, OnScreen, kind, c

\* The search begins: every row is still to be opened.
LEMMA StartStep ==
    ASSUME SearchOK, RowsOK', StartClose
    PROVE  SearchOK'
<1>1. /\ job.at = "reserved" /\ kind = "close" /\ search' = Search /\ Goto("row")
      /\ excuses' = {x \in {"late"} : \E k \in clicks : k.kind = "close"}
      /\ live' = live /\ shown' = shown /\ clicks' = clicks
  BY DEF StartClose, TerminalWaits
<1>2. job'.at = "row" /\ job'.c = job.c /\ job'.try = 1 /\ ~job'.hung
  BY <1>1 DEF SearchOK, JobRest, Goto, Idle
<1>3. kind' = "close" /\ c' = c
  BY <1>1, <1>2 DEF kind, c
<1>4. /\ SearchShape(search') /\ search'.n = Len(shown.close) /\ search'.tried = {}
      /\ search'.seen = NoMap
  BY <1>1 DEF Search, NoSearch, SearchShape, kind
<1>5. SearchTypes'
  <2>1. Len(shown.close) \in Nat
    BY DEF SearchOK, RowsOK
  <2> QED
    BY <1>1, <1>2, <1>4, <2>1 DEF SearchTypes
<1>6. ASSUME Trusted'
      PROVE  ClicksOK' /\ c'.target \notin DOMAIN search'.seen /\ Findable'
  <2>1. CloseClicks' = {}
    BY <1>1, <1>6 DEF Trusted, CloseClicks
  <2>2. ClicksOK'
    BY <1>2, <2>1 DEF ClicksOK
  <2>3. c'.target \notin DOMAIN search'.seen
    BY <1>4 DEF NoMap
  <2>4. PICK p \in DOMAIN shown.close : shown.close[p] = c'.target
    BY <1>1, <1>6 DEF SearchOK, RowsOK, Trusted
  <2>5. Ahead(p)'
    BY <1>1, <1>2, <1>4, <2>4 DEF Ahead
  <2> QED
    BY <1>1, <2>2, <2>3, <2>4, <2>5 DEF Findable
<1> QED
  BY <1>2, <1>5, <1>6 DEF SearchOK

\* A row is chosen: what is on the screen then makes the search unclean.
LEMMA PickStep ==
    ASSUME JobOK, SearchOK, RowsOK', NEW r \in 1 .. search.n, PickClose(r)
    PROVE  SearchOK'
<1>1. /\ job.at = "row" /\ kind = "close"
      /\ job' = [job EXCEPT !.at = "click", !.row = r, !.hung = (job.try = 2)]
      /\ search' = IF job.try = 2 THEN search
                   ELSE [search EXCEPT !.linear = search.linear \/ InTurn(search, c.target),
                                       !.dirty = search.dirty \/ OnScreen("close")]
      /\ IF OnScreen("close") THEN Cancel ELSE NoCancel
      /\ live' = live /\ shown' = shown /\ clicks' = clicks /\ excuses' = excuses
  BY DEF PickClose, TerminalWaits, history_vars
<1>2. Seeking /\ SearchTypes
  BY <1>1 DEF Seeking, SearchOK
<1>3. job'.at = "click" /\ job'.c = job.c /\ job'.row = r /\ job'.hung = (job.try = 2)
  BY <1>1 DEF JobOK, JobShape
<1>4. kind' = "close" /\ c' = c
  BY <1>1, <1>3 DEF kind, c
<1>5. /\ SearchShape(search') /\ search'.n = search.n /\ search'.tried = search.tried
      /\ search'.seen = search.seen
      /\ ~search'.dirty => ~search.dirty /\ (job.try # 2 => ~OnScreen("close"))
  BY <1>1, <1>2 DEF SearchTypes, SearchShape
<1>6. SearchTypes'
  BY <1>1, <1>2, <1>3, <1>5 DEF SearchTypes
<1>7. ASSUME Trusted'
      PROVE  ClicksOK' /\ c'.target \notin DOMAIN search'.seen /\ Findable'
  <2>1. job.try # 2 /\ ~OnScreen("close") /\ dialog' = dialog /\ Trusted
    BY <1>1, <1>2, <1>3, <1>4, <1>5, <1>7 DEF Trusted, SearchTypes, NoCancel
  <2>2. ClicksOK /\ c.target \notin DOMAIN search.seen /\ Findable
    BY <1>2, <2>1 DEF SearchOK
  <2>3. CloseClicks' = {}
    BY <1>1, <2>2 DEF ClicksOK, CloseClicks
  <2>4. ClicksOK'
    BY <2>1, <2>3 DEF ClicksOK, OnScreen
  <2>5. Shrunk => Shrunk'
    BY <1>1, <1>3, <1>5 DEF Shrunk, LastRowOpened
  <2>6. \A p \in DOMAIN shown.close : Ahead(p) => Ahead(p)'
    BY <1>1, <1>3, <1>4, <1>5 DEF Ahead
  <2> QED
    BY <1>1, <1>4, <1>5, <2>2, <2>4, <2>5, <2>6 DEF Findable
<1> QED
  BY <1>3, <1>6, <1>7 DEF SearchOK

\* The click is sent, and is the only one there is.
LEMMA ClickStep ==
    ASSUME JobOK, SearchOK, RowsOK', Click, kind = "close"
    PROVE  SearchOK'
<1>1. /\ job.at = "click" /\ live' = live /\ shown' = shown /\ dialog' = dialog /\ search' = search
      /\ excuses' = excuses
      /\ \/ job' = [job EXCEPT !.at = "wait", !.gui = FALSE, !.hung = TRUE]
         \/ /\ ~NoSuchRow /\ DoubleClick(FALSE)
            /\ job' = [job EXCEPT !.at = "wait", !.gui = TRUE]
  BY DEF Click, history_vars
<1>2. Seeking /\ SearchTypes
  BY <1>1 DEF Seeking, SearchOK
<1>3. /\ job'.at = "wait" /\ job'.c = job.c /\ job'.row = job.row /\ job'.try = job.try
      /\ ~job'.hung => job'.gui
  BY <1>1 DEF JobOK, JobShape
<1>4. kind' = "close" /\ c' = c
  BY <1>1, <1>3 DEF kind, c
<1>5. SearchTypes'
  BY <1>1, <1>2, <1>3 DEF SearchTypes
<1>6. ASSUME Trusted'
      PROVE  ClicksOK' /\ c'.target \notin DOMAIN search'.seen /\ Findable'
  <2>1. /\ ~NoSuchRow /\ DoubleClick(FALSE) /\ job' = [job EXCEPT !.at = "wait", !.gui = TRUE]
        /\ ~job.hung
    BY <1>1, <1>6 DEF Trusted, JobOK, JobShape
  <2>2. Trusted
    BY <1>1, <1>4, <1>6, <2>1 DEF Trusted
  <2>3. ClicksOK /\ c.target \notin DOMAIN search.seen /\ Findable
    BY <1>2, <2>2 DEF SearchOK
  <2>4. clicks' = clicks \cup {Awaited}
    BY <2>1 DEF DoubleClick, Awaited
  <2>5. CloseClicks = {} /\ ~OnScreen("close")
    BY <1>1, <2>3 DEF ClicksOK
  <2>6. Awaited' = Awaited /\ Awaited.kind = "close"
    BY <1>3 DEF Awaited
  <2>7. CloseClicks' = {Awaited}
    BY <2>4, <2>5, <2>6 DEF CloseClicks
  <2>8. ClicksOK'
    BY <1>1, <1>3, <2>5, <2>6, <2>7 DEF ClicksOK, OnScreen
  <2>9. Shrunk => Shrunk'
    <3>1. job.row <= Len(shown.close) /\ Len(shown.close) \in Nat /\ job.row \in Nat /\ search.n \in Nat
      BY <1>1, <1>2, <2>1 DEF NoSuchRow, SearchTypes, SearchOK, RowsOK
    <3> QED
      BY <1>1, <1>3, <3>1 DEF Shrunk, LastRowOpened
  <2>10. \A p \in DOMAIN shown.close : Ahead(p) => Ahead(p)'
    BY <1>1, <1>3, <1>4, <2>7 DEF Ahead
  <2> QED
    BY <1>1, <1>4, <2>3, <2>8, <2>9, <2>10 DEF Findable
<1> QED
  BY <1>3, <1>5, <1>6 DEF SearchOK, Opened

\* A dialog is taken for the row's that was clicked: it is, there was no other click.
LEMMA SeenStep ==
    ASSUME JobOK, SearchOK, RowsOK', See \/ SeeUnread, kind = "close"
    PROVE  SearchOK'
<1>1. /\ job.at = "wait" /\ OnScreen("close")
      /\ live' = live /\ shown' = shown /\ dialog' = dialog /\ clicks' = clicks /\ search' = search
      /\ \/ job' = [job EXCEPT !.at = "seen", !.seen = dialog.of] /\ excuses' = excuses
         \/ job' = [job EXCEPT !.at = "seen", !.seen = Nobody] /\ excuses' = excuses \cup {"unread"}
  BY DEF See, SeeUnread, Appeared, CloseAppeared, terminal_vars, history_vars
<1>2. Seeking /\ SearchTypes
  BY <1>1 DEF Seeking, Opened, SearchOK
<1>3. /\ job'.at = "seen" /\ job'.c = job.c /\ job'.row = job.row /\ job'.hung = job.hung
      /\ excuses' = {} => job'.seen = dialog.of
  BY <1>1 DEF JobOK, JobShape
<1>4. kind' = "close" /\ c' = c
  BY <1>1, <1>3 DEF kind, c
<1>5. SearchTypes'
  BY <1>1, <1>2, <1>3 DEF SearchTypes
<1>6. ASSUME Trusted'
      PROVE  ClicksOK' /\ c'.target \notin DOMAIN search'.seen /\ Findable'
  <2>1. Trusted /\ job'.seen = dialog.of
    BY <1>1, <1>3, <1>4, <1>6 DEF Trusted
  <2>2. ClicksOK /\ c.target \notin DOMAIN search.seen /\ Findable
    BY <1>2, <2>1 DEF SearchOK
  <2>3. CloseClicks = {} /\ CloseClicks' = {}
    BY <1>1, <2>2 DEF ClicksOK, CloseClicks
  <2>4. ClicksOK'
    BY <1>3, <2>3 DEF ClicksOK
  <2>5. Shrunk => Shrunk'
    BY <1>1, <1>3 DEF Shrunk, LastRowOpened
  <2>6. \A p \in DOMAIN shown.close : Ahead(p) => Ahead(p)'
    BY <1>1, <1>3, <1>4, <2>1, <2>3 DEF Ahead
  <2> QED
    BY <1>1, <1>4, <2>2, <2>4, <2>5, <2>6 DEF Findable
<1> QED
  BY <1>3, <1>5, <1>6 DEF SearchOK

\* No dialog comes: then the row is not the target's, or it is known to come late.
LEMMA UnseenStep ==
    ASSUME JobOK, SearchOK, RowsOK', SeeNothing, kind = "close"
    PROVE  SearchOK'
<1>1. /\ job.at = "wait" /\ ~OnScreen("close")
      /\ live' = live /\ shown' = shown /\ dialog' = dialog /\ clicks' = clicks /\ search' = search
      /\ \/ job.gui /\ OnItsWay /\ excuses' # {}
         \/ ~(job.gui /\ OnItsWay) /\ excuses' = excuses \cup {x \in {"covered"} : dialog # NoDialog}
      /\ excuses \subseteq excuses'
      /\ job' = IF ~job.gui /\ job.try = 1 THEN [job EXCEPT !.at = "row", !.try = 2]
                ELSE [job EXCEPT !.at = "nothing"]
  BY DEF SeeNothing, Appeared, CloseAppeared, terminal_vars
<1>2. Seeking /\ SearchTypes
  BY <1>1 DEF Seeking, Opened, SearchOK
<1>3. /\ job'.c = job.c /\ job'.row = job.row /\ job'.hung = job.hung
      /\ \/ job'.at = "nothing" /\ job'.try = job.try
         \/ job'.at = "row" /\ job'.try = 2 /\ ~job.gui
  BY <1>1 DEF JobOK, JobShape
<1>4. kind' = "close" /\ c' = c
  BY <1>1, <1>3 DEF kind, c
<1>5. SearchTypes'
  <2>1. job.hung \/ ~job.hung
    OBVIOUS
  <2>2. job'.at = "row" => job.hung
    BY <1>1, <1>2, <1>3 DEF SearchTypes
  <2> QED
    BY <1>1, <1>2, <1>3, <2>2 DEF SearchTypes
<1>6. ASSUME Trusted'
      PROVE  ClicksOK' /\ c'.target \notin DOMAIN search'.seen /\ Findable'
  <2>1. Trusted /\ job.gui /\ job'.at = "nothing"
    BY <1>1, <1>2, <1>3, <1>4, <1>6 DEF Trusted, SearchTypes
  <2>2. ~OnItsWay /\ dialog = NoDialog
    BY <1>1, <1>6, <2>1 DEF Trusted
  <2>3. ClicksOK /\ c.target \notin DOMAIN search.seen /\ Findable
    BY <1>2, <2>1 DEF SearchOK
  <2>4. CloseClicks = {} /\ CloseClicks' = {}
    <3>1. Awaited \notin clicks
      BY <2>2 DEF OnItsWay, Awaited
    <3> QED
      BY <1>1, <2>3, <3>1 DEF ClicksOK, CloseClicks
  <2>5. ClicksOK'
    BY <2>1, <2>4 DEF ClicksOK
  <2>6. Shrunk => Shrunk'
    BY <1>1, <1>3 DEF Shrunk, LastRowOpened
  <2>7. \A p \in DOMAIN shown.close : Ahead(p) => Ahead(p)'
    <3>1. ~OnScreen("close")
      BY <1>1
    <3> QED
      BY <1>1, <1>3, <1>4, <2>1, <2>2, <2>4, <3>1 DEF Ahead
  <2> QED
    BY <1>1, <1>4, <2>3, <2>5, <2>6, <2>7 DEF Findable
<1> QED
  BY <1>3, <1>5, <1>6 DEF SearchOK

\* A row that is not the target's is put behind; a ticket met twice makes the search unclean.
LEMMA NotedShape ==
    ASSUME NEW row, NEW ticket, NEW s, SearchShape(s)
    PROVE  LET t == Noted(s, row, ticket) IN
           /\ SearchShape(t) /\ t.n = s.n /\ t.tried = s.tried \cup {row} /\ t.seen = s.seen
           /\ t.opened = s.opened /\ t.dirty = s.dirty
<1> DEFINE read == IF ticket = Nobody THEN s.read ELSE With(s.read, row, ticket)
           t == [s EXCEPT !.tried = s.tried \cup {row}, !.read = read]
           linear == t.linear \/ ~(Rising(t) \/ Falling(t))
<1>1. Noted(s, row, ticket) = [t EXCEPT !.linear = linear]
  BY DEF Noted
<1> HIDE DEF read, linear
<1>2. /\ SearchShape(t) /\ t.n = s.n /\ t.tried = s.tried \cup {row} /\ t.seen = s.seen
      /\ t.opened = s.opened /\ t.dirty = s.dirty
  <2>1. SearchShape(t)
    <3>1. PICK x, y : t = [s EXCEPT !.tried = x, !.read = y]
      OBVIOUS
    <3> HIDE DEF t
    <3>2. t = [n |-> s.n, hint |-> s.hint, tried |-> x, again |-> s.again, read |-> y,
               linear |-> s.linear, seen |-> s.seen, opened |-> s.opened, dirty |-> s.dirty]
      BY <3>1 DEF SearchShape
    <3> QED
      BY <3>2 DEF SearchShape
  <2>2. /\ t.n = s.n /\ t.tried = s.tried \cup {row} /\ t.seen = s.seen
        /\ t.opened = s.opened /\ t.dirty = s.dirty
    BY DEF SearchShape
  <2> QED
    BY <2>1, <2>2
<1> HIDE DEF t
<1> QED
  BY <1>1, <1>2 DEF SearchShape

LEMMA ReopenedShape ==
    ASSUME NEW row, NEW s, SearchShape(s)
    PROVE  SearchShape(Reopened(s, row)) /\ Reopened(s, row).n = s.n
  BY DEF Reopened, SearchShape

LEMMA NextRowStep ==
    ASSUME JobOK, SearchOK, RowsOK', NoRow \/ TwoRows \/ OtherRow
    PROVE  SearchOK'
<1>1. /\ job.at \in {"seen", "nothing"} /\ kind = "close" /\ NextRow
      /\ live' = live /\ shown' = shown /\ clicks' = clicks /\ excuses' = excuses
  BY DEF NoRow, TwoRows, OtherRow, GoesOn, TerminalWaits, history_vars
<1>2. Seeking /\ SearchTypes
  BY <1>1 DEF Seeking, Opened, SearchOK
<1>3. job'.at = "row" /\ job'.try = 1 /\ ~job'.hung /\ job'.row = 0 /\ job'.c = job.c
  BY <1>1 DEF NextRow, Idle, c
<1>4. kind' = "close" /\ c' = c
  BY <1>1, <1>3 DEF kind, c
<1>5. SearchShape(search') /\ search'.n = search.n
  <2>1. SearchShape(search)
    BY <1>2 DEF SearchTypes
  <2>2. CASE NoRow
    <3> DEFINE t == Noted(search, job.row, Nobody)
    <3>1. search' = [t EXCEPT !.dirty = Unclean]
      BY <2>2 DEF NoRow
    <3>2. SearchShape(t) /\ t.n = search.n
      BY <2>1, NotedShape
    <3> HIDE DEF t
    <3> QED
      BY <3>1, <3>2 DEF SearchShape
  <2>3. CASE TwoRows
    <3> DEFINE t == Noted(search, job.row, Nobody)
               u == Reopened(t, job.row)
               v == Reopened(u, search.seen[job.seen])
    <3>1. search' = [v EXCEPT !.dirty = TRUE, !.seen = Without(v.seen, job.seen)]
      BY <2>3 DEF TwoRows
    <3>2. SearchShape(t) /\ t.n = search.n
      BY <2>1, NotedShape
    <3> HIDE DEF t
    <3>3. SearchShape(u) /\ u.n = search.n
      BY <3>2, ReopenedShape
    <3> HIDE DEF u
    <3>4. SearchShape(v) /\ v.n = search.n
      BY <3>3, ReopenedShape
    <3> HIDE DEF v
    <3> QED
      BY <3>1, <3>4 DEF SearchShape
  <2>4. CASE OtherRow
    <3> DEFINE t == Noted(search, job.row, job.seen)
    <3>1. \E seen : search' = [t EXCEPT !.dirty = Unclean, !.opened = TRUE, !.seen = seen]
      BY <2>4 DEF OtherRow
    <3>2. SearchShape(t) /\ t.n = search.n
      BY <2>1, NotedShape
    <3> HIDE DEF t
    <3> QED
      BY <3>1, <3>2 DEF SearchShape
  <2> QED
    BY <2>2, <2>3, <2>4
<1>6. SearchTypes'
  BY <1>1, <1>2, <1>3, <1>5 DEF SearchTypes
<1>7. ASSUME Trusted'
      PROVE  ClicksOK' /\ c'.target \notin DOMAIN search'.seen /\ Findable'
  <2>1. SearchShape(search)
    BY <1>2 DEF SearchTypes
  <2>2. /\ ~TwoRows /\ ~Unclean /\ search'.tried = search.tried \cup {job.row}
        /\ OtherRow => /\ job.at = "seen" /\ job.seen # c.target
        /\ NoRow => job.at = "nothing"
        /\ \/ search'.seen = search.seen
           \/ OtherRow /\ search'.seen = With(search.seen, job.seen, job.row)
    <3>1. CASE NoRow
      <4> DEFINE t == Noted(search, job.row, Nobody)
      <4>1. search' = [t EXCEPT !.dirty = Unclean] /\ job.at = "nothing"
        BY <3>1 DEF NoRow
      <4>2. SearchShape(t) /\ t.tried = search.tried \cup {job.row} /\ t.seen = search.seen
        BY <2>1, NotedShape
      <4> HIDE DEF t
      <4>3. ~Unclean /\ search'.tried = search.tried \cup {job.row} /\ search'.seen = search.seen
        BY <1>7, <4>1, <4>2 DEF SearchShape, Trusted
      <4> QED
        BY <4>1, <4>3 DEF TwoRows, OtherRow
    <3>2. CASE TwoRows
      <4> DEFINE v == Reopened(Reopened(Noted(search, job.row, Nobody), job.row), search.seen[job.seen])
      <4>1. search' = [v EXCEPT !.dirty = TRUE, !.seen = Without(v.seen, job.seen)]
        BY <3>2 DEF TwoRows
      <4>2. SearchShape(v)
        <5>1. SearchShape(Noted(search, job.row, Nobody))
          BY <2>1, NotedShape
        <5> QED
          BY <5>1, ReopenedShape
      <4> HIDE DEF v
      <4> QED
        BY <1>7, <4>1, <4>2 DEF SearchShape, Trusted
    <3>3. CASE OtherRow
      <4> DEFINE t == Noted(search, job.row, job.seen)
                 seen == IF job.seen = Nobody THEN t.seen ELSE With(t.seen, job.seen, job.row)
      <4>1. /\ search' = [t EXCEPT !.dirty = Unclean, !.opened = TRUE, !.seen = seen]
            /\ job.at = "seen" /\ job.seen # c.target /\ ~Twice
        BY <3>3 DEF OtherRow
      <4>2. SearchShape(t) /\ t.tried = search.tried \cup {job.row} /\ t.seen = search.seen
        BY <2>1, NotedShape
      <4>3. seen = search.seen \/ seen = With(search.seen, job.seen, job.row)
        BY <4>2
      <4> HIDE DEF t, seen
      <4>4. ~Unclean /\ search'.tried = search.tried \cup {job.row} /\ search'.seen = seen
        BY <1>7, <4>1, <4>2 DEF SearchShape, Trusted
      <4> QED
        BY <3>3, <4>1, <4>3, <4>4 DEF TwoRows, NoRow
    <3> QED
      BY <3>1, <3>2, <3>3
  <2>3. Trusted
    BY <1>1, <1>4, <1>7, <2>2 DEF Trusted, Unclean
  <2>4. ClicksOK /\ c.target \notin DOMAIN search.seen /\ Findable
    BY <1>2, <2>3 DEF SearchOK
  <2>5. CloseClicks = {} /\ CloseClicks' = {}
    BY <1>1, <2>4 DEF ClicksOK, CloseClicks
  <2>6. ClicksOK'
    BY <1>3, <2>5 DEF ClicksOK
  <2>7. c'.target \notin DOMAIN search'.seen
    BY <1>4, <2>2, <2>4 DEF With
  <2>8. Shrunk => Shrunk'
    BY <1>1, <1>3, <1>5, <2>2 DEF Shrunk, LastRowOpened
  <2>9. \A p \in DOMAIN shown.close : Ahead(p) => Ahead(p)'
    BY <1>1, <1>3, <1>4, <2>2 DEF Ahead
  <2> QED
    BY <1>1, <2>4, <2>6, <2>7, <2>8, <2>9 DEF Findable
<1> QED
  BY <1>3, <1>6, <1>7 DEF SearchOK

\* What the terminal does: the one click opens the dialog of its row, rows that go leave
\* the target a row that has not been opened or the last row to tell, and one that is
\* new is an excuse.
LEMMA DeliverStep ==
    ASSUME JobOK, ScreenOK, SearchOK, RowsOK', NEW k \in clicks, Deliver(k)
    PROVE  SearchOK'
<1>1. /\ job' = job /\ search' = search /\ live' = live /\ shown' = shown /\ excuses' = excuses
      /\ clicks' = clicks \ {k}
      /\ \/ dialog = NoDialog /\ ~Opens(k.kind, k.row) /\ dialog' = dialog
         \/ /\ dialog = NoDialog /\ Opens(k.kind, k.row)
            /\ dialog'.kind = k.kind /\ dialog'.of = Owner(k.kind, k.row)
         \/ dialog # NoDialog /\ dialog' = dialog
         \/ dialog.kind = k.kind /\ k.hung /\ dialog'.kind = dialog.kind /\ dialog' # NoDialog
  <2>1. /\ job' = job /\ search' = search /\ live' = live /\ shown' = shown /\ excuses' = excuses
        /\ clicks' = clicks \ {k}
        /\ \/ dialog = NoDialog /\ ~Opens(k.kind, k.row) /\ dialog' = dialog
           \/ /\ dialog = NoDialog /\ Opens(k.kind, k.row)
              /\ \E v : dialog' = Dialog(k.kind, Owner(k.kind, k.row), v)
           \/ dialog # NoDialog /\ dialog' = dialog
           \/ dialog.kind = k.kind /\ k.hung /\ \E x : dialog' = [dialog EXCEPT !.of = x, !.moved = TRUE]
    BY DEF Deliver, DriverIdles, history_vars
  <2>2. ASSUME NEW x, dialog' = [dialog EXCEPT !.of = x, !.moved = TRUE]
        PROVE  dialog'.kind = dialog.kind /\ dialog' # NoDialog
    BY <2>2 DEF ScreenOK, NoDialog, Dialog
  <2>3. ASSUME NEW v, dialog' = Dialog(k.kind, Owner(k.kind, k.row), v)
        PROVE  dialog'.kind = k.kind /\ dialog'.of = Owner(k.kind, k.row)
    BY <2>3 DEF Dialog
  <2> QED
    BY <2>1, <2>2, <2>3
<1>2. kind' = kind /\ c' = c
  BY <1>1 DEF kind, c
<1>3. Seeking' => Seeking
  BY <1>1, <1>2 DEF Seeking
<1>4. ASSUME Seeking
      PROVE  SearchTypes'
  BY <1>1, <1>4 DEF SearchOK, SearchTypes
<1>5. ASSUME Seeking, Trusted'
      PROVE  ClicksOK' /\ c'.target \notin DOMAIN search'.seen /\ Findable'
  <2>1. Trusted
    BY <1>1, <1>2, <1>5 DEF Trusted
  <2>2. ClicksOK /\ c.target \notin DOMAIN search.seen /\ Findable
    BY <1>5, <2>1 DEF SearchOK
  <2>3. Awaited' = Awaited /\ CloseClicks' = CloseClicks \ {k}
    BY <1>1 DEF Awaited, CloseClicks
  <2>4. k.kind = "close" => k = Awaited /\ CloseClicks = {Awaited} /\ job.at = "wait" /\ ~OnScreen("close")
    BY <2>2 DEF ClicksOK, CloseClicks
  <2>5. ~k.hung \/ k.kind # "close"
    BY <2>4 DEF Awaited
  <2>6. k.kind = "close" => CloseClicks' = {}
    BY <2>3, <2>4
  <2>7. k.kind # "close" => CloseClicks' = CloseClicks
    BY <2>3 DEF CloseClicks
  <2>8. k.kind # "close" => (OnScreen("close")' <=> OnScreen("close"))
    BY <1>1, <2>5 DEF OnScreen, NoDialog, Dialog
  <2>9. ClicksOK'
    BY <1>1, <2>2, <2>3, <2>4, <2>6, <2>7, <2>8 DEF ClicksOK
  <2>10. Shrunk => Shrunk'
    BY <1>1 DEF Shrunk, LastRowOpened
  <2>11. ASSUME NEW p \in DOMAIN shown.close, Ahead(p)
         PROVE  Ahead(p)'
    <3>1. ASSUME job.row = p, job.at = "wait"
          PROVE  \/ CloseClicks' # {}
                 \/ OnScreen("close")' /\ dialog'.of = c.target
                 \/ ~OnScreen("close")' /\ dialog' # NoDialog
      <4>1. CASE k.kind = "close"
        <5>1. k.row = p /\ Opens("close", p) /\ Owner("close", p) = c.target
          <6>1. k.row = p
            BY <2>4, <3>1, <4>1 DEF Awaited
          <6>2. Owner("close", p) = c.target
            BY <2>11 DEF Ahead, Owner
          <6> QED
            BY <2>1, <6>1, <6>2 DEF Opens, Trusted
        <5>2. CASE dialog = NoDialog
          BY <1>1, <4>1, <5>1, <5>2, <2>5 DEF OnScreen
        <5>3. CASE dialog # NoDialog
          BY <1>1, <2>4, <2>5, <4>1, <5>3 DEF OnScreen
        <5> QED
          BY <5>2, <5>3
      <4>2. CASE k.kind # "close"
        <5>1. CASE dialog = NoDialog
          BY <2>7, <2>11, <3>1, <4>2, <5>1 DEF Ahead, OnScreen, NoDialog, Dialog
        <5>2. CASE dialog # NoDialog
          BY <1>1, <2>7, <2>8, <2>11, <3>1, <4>2, <5>2 DEF Ahead, OnScreen
        <5> QED
          BY <5>1, <5>2
      <4> QED
        BY <4>1, <4>2
    <3> QED
      BY <1>1, <1>2, <2>11, <3>1 DEF Ahead
  <2> QED
    BY <1>1, <1>2, <2>2, <2>9, <2>10, <2>11 DEF Findable
<1>6. job'.at = "reserved" => JobRest(job')
  BY <1>1 DEF SearchOK, JobRest
<1> QED
  BY <1>3, <1>4, <1>5, <1>6 DEF SearchOK

LEMMA RowsMoveStep ==
    ASSUME JobOK, SearchOK, RowsOK', NEW t \in Tickets, Vanish(t) \/ Sweep(t) \/ Appear(t)
    PROVE  SearchOK'
<1>1. job' = job /\ search' = search /\ dialog' = dialog /\ clicks' = clicks
  BY DEF Vanish, Sweep, Appear, DriverIdles
<1>2. kind' = kind /\ c' = c
  BY <1>1 DEF kind, c
<1>3. /\ Seeking' => Seeking
      /\ job'.at = "reserved" => JobRest(job')
  BY <1>1, <1>2 DEF Seeking, SearchOK, JobRest
<1>4. \/ shown' = shown /\ excuses' = excuses /\ live' \subseteq live
      \/ /\ Len(shown'.close) = Len(shown.close) - 1 /\ live' = live
         /\ excuses' = excuses \cup {x \in {"moved up"} : LastRowOpened}
      \/ "appeared" \in excuses'
  <2>1. CASE Vanish(t)
    BY <2>1 DEF Vanish, history_vars
  <2>2. CASE Sweep(t)
    <3>1. PICK i \in DOMAIN shown.close :
             shown' = [shown EXCEPT !.close = RemoveAt(shown.close, i)]
      BY <2>2 DEF Sweep
    <3>2. shown'.close = RemoveAt(shown.close, i)
      BY <3>1 DEF SearchOK, RowsOK
    <3>3. Len(RemoveAt(shown.close, i)) = Len(shown.close) - 1
      BY RemovedAt DEF SearchOK, RowsOK
    <3> QED
      BY <2>2, <3>2, <3>3 DEF Sweep
  <2>3. CASE Appear(t)
    BY <2>3 DEF Appear
  <2> QED
    BY <2>1, <2>2, <2>3
<1>5. Len(shown.close) \in Nat
  BY DEF SearchOK, RowsOK
<1>6. ASSUME Seeking
      PROVE  SearchTypes'
  <2>1. SearchTypes
    BY <1>6 DEF SearchOK
  <2>2. excuses' = {} => Len(shown'.close) <= search.n
    <3>1. CASE shown' = shown /\ excuses' = excuses
      BY <2>1, <3>1 DEF SearchTypes
    <3>2. CASE excuses \subseteq excuses' /\ Len(shown'.close) = Len(shown.close) - 1
      BY <1>5, <2>1, <3>2 DEF SearchTypes
    <3>3. CASE "appeared" \in excuses'
      BY <3>3
    <3> QED
      BY <1>4, <3>1, <3>2, <3>3
  <2> QED
    BY <1>1, <2>1, <2>2 DEF SearchTypes
<1>7. ASSUME Seeking, Trusted'
      PROVE  ClicksOK' /\ c'.target \notin DOMAIN search'.seen /\ Findable'
  <2>1. Trusted
    BY <1>1, <1>2, <1>4, <1>7 DEF Trusted
  <2>2. ClicksOK /\ c.target \notin DOMAIN search.seen /\ Findable /\ SearchTypes
    BY <1>7, <2>1 DEF SearchOK
  <2>3. ClicksOK'
    BY <1>1, <2>2 DEF ClicksOK, CloseClicks, Awaited, OnScreen
  <2>4. CASE shown' = shown
    <3>1. Shrunk => Shrunk'
      BY <1>1, <2>4 DEF Shrunk, LastRowOpened
    <3>2. \A p \in DOMAIN shown.close : Ahead(p) => Ahead(p)'
      BY <1>1, <1>2, <2>4 DEF Ahead, CloseClicks, OnScreen
    <3> QED
      BY <1>1, <1>2, <2>2, <2>3, <2>4, <3>1, <3>2 DEF Findable
  <2>5. CASE shown' # shown
    <3>1. ~LastRowOpened /\ Len(shown'.close) = Len(shown.close) - 1
      BY <1>4, <1>7, <2>5 DEF Trusted
    <3>2. Len(shown.close) <= search.n /\ search.n \in Nat
      BY <2>1, <2>2 DEF SearchTypes, Trusted
    <3>3. Shrunk'
      BY <1>1, <1>5, <3>1, <3>2 DEF Shrunk, LastRowOpened
    <3> QED
      BY <1>1, <1>2, <2>2, <2>3, <3>3 DEF Findable
  <2> QED
    BY <2>4, <2>5
<1> QED
  BY <1>3, <1>6, <1>7 DEF SearchOK

LEMMA SearchInit == Init => SearchOK
<1> SUFFICES ASSUME Init PROVE SearchOK
  OBVIOUS
<1>1. job.at = "idle"
  BY DEF Init, Idle
<1> QED
  BY <1>1, RowsInit DEF SearchOK, Seeking, Opened

LEMMA SearchStep == IInv /\ ScreenOK /\ SearchOK /\ [Next]_vars => SearchOK'
<1> SUFFICES ASSUME IInv, ScreenOK, SearchOK, [Next]_vars PROVE SearchOK'
  OBVIOUS
<1>1. JobOK /\ RowsOK
  BY DEF IInv, SearchOK
<1>2. CASE UNCHANGED vars
  <2>1. RowsOK'
    BY <1>1, <1>2 DEF vars, terminal_vars, RowsOK
  <2> QED
    BY <1>2, <2>1, SameStep DEF vars, terminal_vars, history_vars
<1>3. CASE TerminalNext
  <2>1. RowsOK'
    BY <1>1, <1>3, RowsStep DEF Next
  <2> QED
    BY <1>1, <1>3, <2>1, DeliverStep, RowsMoveStep DEF TerminalNext
<1>4. CASE DriverNext
  <2>1. RowsOK'
    BY <1>1, <1>4, RowsStep DEF Next
  <2>2. CASE \E d \in Commands : Take(d) \/ Again(d)
    <3>1. ASSUME NEW d \in Commands, Again(d) PROVE SearchOK'
      BY <2>1, <3>1, SameStep DEF Again, terminal_vars, history_vars
    <3> QED
      BY <2>1, <2>2, <3>1, TakenStep
  <2>3. CASE \/ Refuse \/ StartOpen \/ GiveUp \/ RightRow \/ NoSymbol \/ Symbol \/ Conclude
             \/ OtherSymbol \/ Fill \/ Check \/ CheckFails \/ Misshapen \/ Mark \/ Press \/ PostFails \/ Pressed \/ Breaks \/ Crash
             \/ \E r \in 1 .. search.n : PickOpen(r)
    BY <1>1, <2>1, <2>3, AwayStep
  <2>4. CASE StartClose \/ \E r \in 1 .. search.n : PickClose(r)
    BY <1>1, <2>1, <2>4, StartStep, PickStep
  <2>5. CASE Click \/ See \/ SeeUnread \/ SeeNothing
    <3>1. CASE kind = "close"
      BY <1>1, <2>1, <2>5, <3>1, ClickStep, SeenStep, UnseenStep
    <3>2. CASE kind # "close"
      <4>1. job'.c = job.c /\ job'.at # "reserved"
        BY <1>1, <2>5 DEF JobOK, JobShape, Click, See, SeeUnread, SeeNothing
      <4>2. kind' # "close"
        BY <3>2, <4>1 DEF kind, c
      <4> QED
        BY <2>1, <4>1, <4>2, ElsewhereStep
    <3> QED
      BY <3>1, <3>2
  <2>6. CASE NoRow \/ TwoRows \/ OtherRow
    BY <1>1, <2>1, <2>6, NextRowStep
  <2> QED
    BY <1>4, <2>2, <2>3, <2>4, <2>5, <2>6 DEF DriverNext
<1> QED
  BY <1>2, <1>3, <1>4 DEF Next

\* A search that has opened every row and noticed nothing has opened the target's, unless
\* there is an excuse.
LEMMA SearchedAll ==
    ASSUME SearchOK, job.at = "row", job.try = 1, kind = "close", NextClose(search, c.target) = {},
           Clean(search)
    PROVE  c.target \notin live \/ excuses # {}
<1> SUFFICES ASSUME c.target \in live, excuses = {} PROVE FALSE
  OBVIOUS
<1>1. Seeking /\ SearchTypes
  BY DEF SearchOK, Seeking
<1>2. Trusted /\ Findable
  BY <1>1 DEF SearchOK, SearchTypes, Trusted, Clean
<1>3. Untried(search) = {}
  BY DEF NextClose
<1>4. Len(shown.close) \in Nat /\ Len(shown.close) <= search.n /\ search.n \in Nat
  BY <1>1 DEF SearchTypes, SearchOK, RowsOK
<1>5. CASE Shrunk
  BY <1>3, <1>4, <1>5 DEF Shrunk, LastRowOpened, Untried
<1>6. ASSUME NEW p \in DOMAIN shown.close, Ahead(p)
      PROVE  FALSE
  <2>1. p \in 1 .. search.n
    BY <1>4 DEF SearchOK, RowsOK
  <2> QED
    BY <1>3, <1>6, <2>1 DEF Ahead, Untried
<1> QED
  BY <1>2, <1>5, <1>6 DEF Findable

\* Only Conclude says already_closed.
LEMMA SaysClosed ==
    ASSUME IInv, DriverNext, NEW d \in Commands,
           journal'[d].ack = "already_closed", journal[d].ack = "none"
    PROVE  Conclude /\ d = c /\ kind = "close" /\ Clean(search)
<1>1. JobOK /\ JournalOK
  BY DEF IInv
<1>2. ASSUME NEW s, Answer(s), job.at # "idle"
      PROVE  s = "already_closed" /\ d = c
  <2>1. c \in Commands /\ journal[c] \in [known : BOOLEAN, ack : Acks, clicked : BOOLEAN]
    BY <1>1, <1>2 DEF JobOK, JournalOK
  <2>2. journal' = [journal EXCEPT ![c] = [journal[c] EXCEPT !.ack = s,
                                              !.clicked = journal[c].clicked \/ s # "rejected"]]
    BY <1>2 DEF Answer, Write
  <2>3. d = c
    BY <1>1, <2>1, <2>2 DEF JournalOK
  <2>4. journal'[c].ack = s
    BY <1>1, <2>1, <2>2 DEF JournalOK
  <2> QED
    BY <2>3, <2>4
<1>3. CASE \/ \E x \in Commands : Take(x)
           \/ Mark
  <2>1. CASE Mark
    <3>1. c \in Commands /\ journal' = [journal EXCEPT ![c] = [journal[c] EXCEPT !.clicked = TRUE]]
          /\ journal[c] \in [known : BOOLEAN, ack : Acks, clicked : BOOLEAN]
      BY <1>1, <2>1 DEF Mark, Write, JobOK, JournalOK
    <3> QED
      BY <1>1, <3>1 DEF JournalOK
  <2>2. ASSUME NEW x \in Commands, Take(x) PROVE FALSE
    <3>1. journal' = [journal EXCEPT ![x] = [Blank EXCEPT !.known = TRUE]]
      BY <2>2 DEF Take, Write
    <3>2. [Blank EXCEPT !.known = TRUE].ack = "none"
      BY DEF Blank
    <3> QED
      BY <1>1, <3>1, <3>2 DEF JournalOK
  <2> QED
    BY <1>3, <2>1, <2>2
<1>4. CASE journal' = journal
  BY <1>4
<1>5. CASE \E s \in Acks \ {"already_closed"} : Answer(s) /\ job.at # "idle"
  BY <1>2, <1>5
<1>6. CASE Conclude
  <2>1. /\ job.at # "idle"
        /\ \/ kind = "close" /\ (Clean(search) \/ Answer("rejected"))
           \/ Answer("rejected")
    BY <1>6 DEF Conclude
  <2>2. \E s : Answer(s)
    BY <1>6 DEF Conclude
  <2> QED
    BY <1>2, <1>6, <2>1, <2>2
<1>7. CASE \/ Refuse \/ GiveUp \/ OtherSymbol \/ CheckFails \/ Misshapen \/ PostFails \/ Pressed \/ Breaks
  <2>1. job.at # "idle" /\ (Answer("rejected") \/ Answer("unknown") \/ Answer("ok"))
    BY <1>7 DEF Refuse, GiveUp, OtherSymbol, CheckFails, GiveBack, Misshapen, PostFails, Pressed, Breaks
  <2> QED
    BY <1>5, <2>1 DEF Acks
<1>8. CASE StartOpen \/ Symbol
  <2>1. job.at # "idle" /\ (Answer("rejected") \/ journal' = journal)
    BY <1>8 DEF StartOpen, Symbol, link_vars
  <2> QED
    BY <1>4, <1>5, <2>1 DEF Acks
<1>9. CASE \/ \E x \in Commands : Again(x)
           \/ StartClose \/ Crash \/ \E r \in 1 .. search.n : PickClose(r) \/ PickOpen(r)
           \/ Click \/ See \/ SeeUnread \/ SeeNothing \/ NoRow \/ TwoRows \/ OtherRow \/ RightRow
           \/ NoSymbol \/ Fill \/ Check \/ Press
  <2>1. journal' = journal
    BY <1>9 DEF Again, StartClose, Crash, PickClose, PickOpen, Click, See, SeeUnread, SeeNothing, NoRow,
                TwoRows, OtherRow, RightRow, NoSymbol, Fill, Check, Press, link_vars
  <2> QED
    BY <1>4, <2>1
<1> QED
  BY <1>3, <1>5, <1>6, <1>7, <1>8, <1>9 DEF DriverNext

LEMMA SearchInvariance == Spec => [](IInv /\ SearchOK)
  BY Invariance, SearchInit, SearchStep, PTL DEF Spec

\* A search that opened every row and noticed nothing says already_closed of a live
\* position only if a dialog came too late, told nothing or was covered, a position was
\* opened meanwhile, or a row went after the last one had been opened (driver.py:592).
THEOREM ClosedCorrect == Spec => ClosedUnlessFooled
<1> DEFINE Honest(d) == journal'[d].ack = "already_closed" /\ journal[d].ack = "none" =>
                           d.target \notin live \/ excuses # {}
<1>1. IInv /\ SearchOK /\ [Next]_vars => [\A d \in Commands : Honest(d)]_vars
  <2> SUFFICES ASSUME IInv, SearchOK, Next, NEW d \in Commands,
                      journal'[d].ack = "already_closed", journal[d].ack = "none"
               PROVE  d.target \notin live \/ excuses # {}
    OBVIOUS
  <2>1. CASE TerminalNext
    BY <2>1 DEF TerminalNext, Deliver, Vanish, Sweep, Appear, DriverIdles, link_vars
  <2>2. CASE DriverNext
    <3>1. Conclude /\ d = c /\ kind = "close" /\ Clean(search)
      BY <2>2, SaysClosed
    <3>2. job.at = "row" /\ job.try = 1 /\ NextClose(search, c.target) = {}
      BY <3>1 DEF Conclude
    <3> QED
      BY <3>1, <3>2, SearchedAll
  <2> QED
    BY <2>1, <2>2 DEF Next
<1> QED
  BY <1>1, SearchInvariance, PTL DEF Spec, ClosedUnlessFooled


=============================================================================
