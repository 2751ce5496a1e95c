----------------------------- MODULE ClickerUi -----------------------------
(***************************************************************************)
(* The clicker (clicker/link.py, clicker/journal.py, clicker/ui): a program   *)
(* that opens and closes positions by working the windows of a terminal that *)
(* answers nothing.                                                          *)
(*                                                                          *)
(* Neither the list of positions nor the Market Watch can be read: a row is  *)
(* double-clicked, the dialog it opens says whose it is, and a dialog that is *)
(* not the right one is cancelled. A click may be taken late, a dialog come   *)
(* after the driver has stopped waiting, and rows move when positions open    *)
(* and close.                                                                *)
(*                                                                          *)
(* Rows count from 1. A dialog's volume, and the text in its field, is "own"  *)
(* (what the terminal filled in: the whole position), "asked" (the command's) *)
(* or "other" (what was left over from before, D-26). The text is not the     *)
(* volume the terminal will use.                                             *)
(***************************************************************************)
EXTENDS Integers, Sequences, FiniteSets, FiniteSetsExt, SequencesExt

CONSTANTS
    Commands,     \* records: type, target (a ticket, or the symbol to open), volume
                  \* ("none" or "part" of the position; "lots" to open)
    Held, Later,  \* tickets: of the positions at the start, and of a later one
    Symbols,      \* of the Market Watch
    Spare,        \* a row that belongs to nothing: Balance, "click to add"
    Nobody,       \* no dialog, or one that does not say whose it is
    MayHappen,    \* the kinds of mishaps there are
    MaxUpsets     \* and how many

Tickets == Held \cup Later

ASSUME ClickerAssumption ==
    /\ Tickets \subseteq Nat /\ IsFiniteSet(Held) /\ Spare \notin Tickets
    /\ Symbols \cap (Tickets \cup {Spare, Nobody}) = {}
    /\ \A d \in Commands :
          \/ d.type = "OPEN_UI" /\ d.target \in Symbols /\ d.volume \in {"lots", "none"}
          \/ d.type \in {"CLOSE_UI", "CLOSE_UI_PARTIAL"} /\ d.target \in Held /\ d.volume \in {"none", "part"}
    /\ MaxUpsets \in Nat

VARIABLES
    live,       \* tickets of the open positions
    shown,      \* the rows of the list of positions and of the Market Watch
    odd,        \* how this terminal is not as the driver expects
    dialog,     \* the dialog on the screen: modal, at most one; whether it has changed
                \* whose it is since that was read (history)
    clicks,     \* double-clicks the terminal has not taken yet
    job,        \* what the driver is at, and with which row
    search,     \* PhepDo, with what close() keeps beside it
    memory,     \* _ban_do and _mw_ban_do (ticket or symbol -> row), _so_dong_cuoi_khong_mo
    journal,    \* the file: per command its ack and whether the button was pressed
    answers,    \* history: acks that were sent
    pressed,    \* history: presses, as <<command, dialog>>
    excuses,    \* history: mishaps of the search the driver cannot notice
    upsets

terminal_vars == <<live, shown, odd, dialog, clicks>>
link_vars == <<journal, answers>>
history_vars == <<pressed, excuses>>
vars == <<terminal_vars, job, search, memory, link_vars, history_vars, upsets>>

Dialog(k, whose, volume) == [kind |-> k, of |-> whose, volume |-> volume, text |-> "own", moved |-> FALSE]
NoDialog == Dialog("none", Nobody, "own")
Idle == [at |-> "idle", c |-> Nobody, row |-> 0, try |-> 1, gui |-> TRUE, hung |-> FALSE, seen |-> Nobody]
NoMap == [x \in {} |-> 0]
NoSearch == [n |-> 0, hint |-> 0, tried |-> {}, again |-> {}, read |-> NoMap, linear |-> FALSE,
             seen |-> NoMap, opened |-> FALSE, dirty |-> FALSE]
Fresh == [close |-> NoMap, open |-> NoMap, tail |-> 1]
Blank == [known |-> FALSE, ack |-> "none", clicked |-> FALSE]

Upset(kind) == kind \in MayHappen /\ upsets < MaxUpsets /\ upsets' = upsets + 1

\* The list is in the order of opening, or as somebody has sorted it. A terminal may
\* write the number on its buttons and titles in a way nobody can read, and take what
\* is typed for no more than the text of the field (driver.py:3-12).
Init ==
    /\ live = Held
    /\ \E rows \in Bijection(1 .. Cardinality(Held), Held) :
           shown = [close |-> Append(rows, Spare), open |-> Append(SetToSeq(Symbols), Spare)]
    /\ odd \in SUBSET ({"caption", "deaf"} \cap MayHappen) /\ Cardinality(odd) <= MaxUpsets
    /\ dialog = NoDialog /\ clicks = {}
    /\ job = Idle /\ search = NoSearch /\ memory = Fresh
    /\ journal = [c \in Commands |-> Blank] /\ answers = {}
    /\ pressed = {} /\ excuses = {} /\ upsets = Cardinality(odd)

Without(f, x) == [y \in DOMAIN f \ {x} |-> f[y]]
With(f, x, v) == [y \in DOMAIN f \cup {x} |-> IF y = x THEN v ELSE f[y]]

-----------------------------------------------------------------------------
(* The terminal.                                                             *)

DriverIdles == UNCHANGED <<job, search, memory, link_vars>>

Owner(kind, row) == IF row \in DOMAIN shown[kind] THEN shown[kind][row] ELSE Spare
Opens(kind, row) == Owner(kind, row) \in live \cup Symbols

\* A click is taken: it opens a dialog if none is there. One that was sent and not
\* waited for may reach the dialog that has opened meanwhile and change whose it is:
\* what _commit_close guards against, and _commit until it types.
Deliver(k) ==
    /\ clicks' = clicks \ {k}
    /\ \/ dialog = NoDialog /\ ~Opens(k.kind, k.row) /\ UNCHANGED <<dialog, upsets>>
       \/ /\ dialog = NoDialog /\ Opens(k.kind, k.row)
          /\ \/ dialog' = Dialog(k.kind, Owner(k.kind, k.row), "own") /\ UNCHANGED upsets
             \/ dialog' = Dialog(k.kind, Owner(k.kind, k.row), "other") /\ Upset("leftover")
       \/ dialog # NoDialog /\ UNCHANGED <<dialog, upsets>>
       \/ /\ dialog.kind = k.kind /\ k.hung /\ Opens(k.kind, k.row)
          /\ dialog' = [dialog EXCEPT !.of = Owner(k.kind, k.row), !.moved = TRUE]
          /\ UNCHANGED upsets
    /\ UNCHANGED <<live, shown, odd, history_vars>> /\ DriverIdles

\* A position is closed by its stop, by hand or by the EA; its row goes later.
Vanish(t) ==
    /\ t \in live /\ Upset("moves")
    /\ live' = live \ {t}
    /\ UNCHANGED <<shown, odd, dialog, clicks, history_vars>> /\ DriverIdles

\* A search notices when it comes to the last row and there is none, but not when it has
\* been there: then a row that goes moves others onto rows that have been opened.
LastRowOpened == \/ search.n \in search.tried
                 \/ job.at \in {"wait", "seen", "nothing"} /\ job.row = search.n

Sweep(t) ==
    /\ t \notin live
    /\ \E i \in DOMAIN shown.close :
           shown.close[i] = t /\ shown' = [shown EXCEPT !.close = RemoveAt(@, i)]
    /\ excuses' = excuses \cup {x \in {"moved up"} : LastRowOpened}
    /\ UNCHANGED <<live, odd, dialog, clicks, upsets, pressed>> /\ DriverIdles

Appear(t) ==
    /\ ~Contains(shown.close, t) /\ t \in Later \ live /\ Upset("moves")
    /\ live' = live \cup {t}
    /\ \E i \in {1, Len(shown.close)} : shown' = [shown EXCEPT !.close = InsertAt(@, i, t)]
    /\ excuses' = excuses \cup {"appeared"}
    /\ UNCHANGED <<odd, dialog, clicks, pressed>> /\ DriverIdles

TerminalNext ==
    \/ \E k \in clicks : Deliver(k)
    \/ \E t \in Tickets : Vanish(t) \/ Sweep(t) \/ Appear(t)

c == job.c
kind == IF c.type = "OPEN_UI" THEN "open" ELSE "close"

-----------------------------------------------------------------------------
(* Which row to open next (clicker/ui/timdong.py, marketwatch.thu_tu_do).     *)

\* PhepDo(...), thu_tu_do: where the target was when its row was last opened.
Hinted(map, target, n) ==
    IF target \in DOMAIN map /\ map[target] <= n THEN map[target] ELSE 0
Search == LET n == Len(shown[kind])
          IN  [NoSearch EXCEPT !.n = n, !.hint = Hinted(memory[kind], c.target, n)]
Hint(s) == {s.hint} \ ({0} \cup s.tried)

\* _chieu: do the tickets read so far rise or fall with the rows, or neither?
Rising(s) == \A i, j \in DOMAIN s.read : i < j => s.read[i] < s.read[j]
Falling(s) == \A i, j \in DOMAIN s.read : i < j => s.read[i] >= s.read[j]

\* _doan: rows that can still hold the target, as the tickets read tell.
Below(s, i, target) == (s.read[i] < target) <=> Rising(s)
Possible(s, target, tail) ==
    {r \in 1 .. s.n - tail : \A i \in DOMAIN s.read :
        IF Below(s, i, target) THEN r > i ELSE r < i} \ s.tried

\* Mutant of Untried: the rows that are out of the question are not opened.
UntriedPossible(s) == IF s.read = NoMap THEN 1 .. s.n \ s.tried ELSE {}
Untried(s) == (1 .. s.n) \ s.tried

MiddleOf(rows) == SetToSortSeq(rows, <)[(Cardinality(rows) + 1) \div 2]

Halving(s, target, tail) == ~s.linear /\ Possible(s, target, tail) # {}

InTurn(s, target) == Hint(s) = {} /\ ~Halving(s, target, memory.tail)

\* tiep_theo: the rows it may be: none, or one.
NextClose(s, target) ==
    IF Hint(s) # {} THEN Hint(s)
    ELSE IF Halving(s, target, memory.tail) THEN {MiddleOf(Possible(s, target, memory.tail))}
    ELSE IF Untried(s) # {} THEN {Min(Untried(s))} ELSE {}

NextOpen(s) ==
    IF Hint(s) # {} THEN Hint(s)
    ELSE IF Untried(s) # {} THEN {Min(Untried(s))} ELSE {}

\* ghi_nhan
Noted(s, row, ticket) ==
    LET t == [s EXCEPT !.tried = @ \cup {row},
                       !.read = IF ticket = Nobody THEN @ ELSE With(@, row, ticket)]
    IN  [t EXCEPT !.linear = @ \/ ~(Rising(t) \/ Falling(t))]

\* mo_lai: once for each row.
Reopened(s, row) ==
    IF row \in s.again THEN s
    ELSE [s EXCEPT !.again = @ \cup {row}, !.tried = @ \ {row}, !.read = Without(@, row)]

\* ghi_ban_do, bo_dong
Mapped(map, row, whose) ==
    LET kept == [x \in {y \in DOMAIN map : map[y] # row} |-> map[x]]
    IN  IF whose = Nobody THEN kept ELSE With(kept, whose, row)
RowGone(map, t, row) ==
    [x \in DOMAIN map \ {t} |-> IF map[x] > row THEN map[x] - 1 ELSE map[x]]

-----------------------------------------------------------------------------
(* A command comes (link.handle_command, link._execute).                      *)

TerminalWaits == UNCHANGED <<live, shown, odd, clicks>>
Goto(place) == job' = [job EXCEPT !.at = place]

\* CommandJournal._append: a line that is on the disk when the call returns.
Write(d, entry) == journal' = [journal EXCEPT ![d] = entry]

\* CommandJournal.reserve, before anything is touched. What an earlier command asked
\* for, in a dialog that did not go, is not what this one does.
OfBefore(volume) == IF volume = "asked" THEN "other" ELSE volume
Take(d) ==
    /\ job = Idle /\ ~journal[d].known
    /\ dialog' = [dialog EXCEPT !.volume = OfBefore(@), !.text = OfBefore(@)]
    /\ Write(d, [Blank EXCEPT !.known = TRUE])
    /\ job' = [Idle EXCEPT !.at = "reserved", !.c = d]
    /\ UNCHANGED <<live, shown, odd, clicks, search, memory, answers, history_vars, upsets>>

\* Mutant of Replay: what was reserved and not answered was surely not pressed.
ReplayRejected(d) == IF journal[d].ack = "none" THEN "rejected" ELSE journal[d].ack
\* A command that is known is answered from the journal.
Replay(d) == IF journal[d].ack = "none" THEN "unknown" ELSE journal[d].ack

Again(d) ==
    /\ job = Idle /\ journal[d].known
    /\ answers' = answers \cup {<<d, Replay(d)>>}
    /\ UNCHANGED <<terminal_vars, job, search, memory, journal, history_vars, upsets>>

\* CommandJournal.complete, and the ack.
Answer(status) ==
    /\ Write(c, [journal[c] EXCEPT !.ack = status, !.clicked = @ \/ status # "rejected"])
    /\ answers' = answers \cup {<<c, status>>}
    /\ job' = Idle /\ search' = NoSearch

\* What close() forgets when it has not closed.
Forget(place) == memory' = [memory EXCEPT !.close = Without(@, place)]

\* from_payload: there is a volume, unless a position is to be closed whole.
FormedOpen(d) == d.volume # "none"
FormedClose(d) == d.type = "CLOSE_UI" <=> d.volume = "none"
Formed(d) == IF d.type = "OPEN_UI" THEN FormedOpen(d) ELSE FormedClose(d)
\* What the rest of the driver goes by.
Whole(d) == d.volume = "none"

\* la_che_do_dong, _find: the two kinds of dialogs have the same controls.
OnScreen(k) == dialog.kind = k

\* The window is gone or there are two; it is another account's.
NoTerminal == Upset("no terminal")
WrongAccount == Upset("account")
\* The list is hidden, silent or empty. With an order dialog there already the Market
\* Watch is not needed.
NoTradeList == kind = "close" /\ Upset("no list")
NoMarketWatch == kind = "open" /\ ~OnScreen("open") /\ Upset("no list")
Expired == Upset("expired")

Refuse ==
    /\ job.at = "reserved"
    /\ \/ ~Formed(c) /\ UNCHANGED upsets
       \/ Expired \/ NoTerminal \/ WrongAccount \/ NoTradeList \/ NoMarketWatch
    /\ Answer("rejected")
    /\ UNCHANGED <<terminal_vars, memory, history_vars>>

\* post_close and wait_closed: a dialog that does not go is not looked at again.
Cancel ==
    \/ dialog' = NoDialog /\ UNCHANGED upsets
    \/ dialog # NoDialog /\ Upset("stuck") /\ UNCHANGED dialog
NoCancel == UNCHANGED <<dialog, upsets>>

StartClose ==
    /\ job.at = "reserved" /\ kind = "close" /\ Formed(c)
    /\ IF OnScreen("close") THEN Cancel ELSE NoCancel
    /\ search' = Search
    /\ excuses' = {x \in {"late"} : \E k \in clicks : k.kind = "close"} /\ Goto("row")
    /\ TerminalWaits /\ UNCHANGED <<memory, link_vars, pressed>>

\* _mo_new_order: a dialog that is there is used if it is of the symbol.
StartOpen ==
    /\ job.at = "reserved" /\ kind = "open" /\ Formed(c)
    /\ \/ OnScreen("open") /\ dialog.of = c.target
          /\ Goto("fill") /\ NoCancel /\ UNCHANGED <<search, link_vars>>
       \/ /\ OnScreen("open") /\ dialog.of # c.target /\ Cancel
          /\ IF dialog' = NoDialog
             THEN Goto("row") /\ search' = Search /\ UNCHANGED link_vars
             ELSE Answer("rejected")
       \/ ~OnScreen("open")
          /\ Goto("row") /\ search' = Search
          /\ NoCancel /\ UNCHANGED link_vars
    /\ TerminalWaits /\ UNCHANGED <<memory, history_vars>>

-----------------------------------------------------------------------------
(* Opening one row after the other.                                           *)

\* Before a row is opened, and before it is clicked again, a close dialog that is
\* there is cancelled; between two rows that makes the search unclean.
PickClose(r) ==
    /\ job.at = "row" /\ kind = "close"
    /\ r \in IF job.try = 2 THEN {job.row} ELSE NextClose(search, c.target)
    /\ job' = [job EXCEPT !.at = "click", !.row = r, !.hung = job.try = 2]
    /\ search' = IF job.try = 2 THEN search
                 ELSE [search EXCEPT !.linear = @ \/ InTurn(search, c.target),
                                     !.dirty = @ \/ OnScreen("close")]
    /\ IF OnScreen("close") THEN Cancel ELSE NoCancel
    /\ TerminalWaits /\ UNCHANGED <<memory, link_vars, history_vars>>

PickOpen(r) ==
    /\ job.at = "row" /\ kind = "open" /\ r \in NextOpen(search)
    /\ job' = [job EXCEPT !.at = "click", !.row = r]
    /\ TerminalWaits /\ NoCancel /\ UNCHANGED <<search, memory, link_vars, history_vars>>

\* listview_item_rect
NoSuchRow == job.row > Len(shown[kind])
\* A double-click, which the terminal may not take in time: then it is still sent.
DoubleClick(hung) ==
    clicks' = clicks \cup {[kind |-> kind, row |-> job.row, try |-> job.try, hung |-> hung]}

\* mo_hop_thoai_dong, mo_new_order
Click ==
    /\ job.at = "click"
    /\ \/ NoSuchRow /\ UNCHANGED <<clicks, upsets>>
          /\ job' = [job EXCEPT !.at = "wait", !.gui = FALSE, !.hung = TRUE]
       \/ ~NoSuchRow /\ DoubleClick(FALSE) /\ UNCHANGED upsets
          /\ job' = [job EXCEPT !.at = "wait", !.gui = TRUE]
       \/ ~NoSuchRow /\ DoubleClick(TRUE) /\ Upset("hung")
          /\ job' = [job EXCEPT !.at = "wait", !.gui = FALSE, !.hung = TRUE]
    /\ UNCHANGED <<live, shown, odd, dialog, search, memory, link_vars, history_vars>>

\* cho_so_bo; NewOrderDialog.cho, which nobody calls after a click that was not taken.
CloseAppeared == OnScreen("close")
OpenAppeared == OnScreen("open") /\ job.gui
Appeared == IF kind = "close" THEN CloseAppeared ELSE OpenAppeared

\* The dialog that is there is taken for this row's.
See ==
    /\ job.at = "wait" /\ Appeared
    /\ job' = [job EXCEPT !.at = "seen", !.seen = dialog.of]
    /\ UNCHANGED <<terminal_vars, search, memory, link_vars, history_vars, upsets>>

\* A close dialog that does not say whose it is.
SeeUnread ==
    /\ job.at = "wait" /\ kind = "close" /\ Appeared /\ Upset("unread")
    /\ job' = [job EXCEPT !.at = "seen", !.seen = Nobody]
    /\ excuses' = excuses \cup {"unread"}
    /\ UNCHANGED <<terminal_vars, search, memory, link_vars, pressed>>

\* No dialog in time. It may still come.
OnItsWay == \E k \in clicks : k.kind = kind /\ k.row = job.row /\ ~k.hung
SeeNothing ==
    /\ job.at = "wait" /\ ~Appeared
    /\ IF job.gui /\ OnItsWay THEN Upset("late") /\ excuses' = excuses \cup {"late"}
       ELSE UNCHANGED upsets /\ excuses' = excuses \cup {x \in {"covered"} : dialog # NoDialog}
    /\ job' = IF kind = "close" /\ ~job.gui /\ job.try = 1 THEN [job EXCEPT !.at = "row", !.try = 2]
              ELSE [job EXCEPT !.at = "nothing"]
    /\ UNCHANGED <<terminal_vars, search, memory, link_vars, pressed>>

\* cho_xu_ly_xong: every message that was sent and not waited for has been taken.
Settled == \A k \in clicks : ~k.hung
NextRow == job' = [Idle EXCEPT !.at = "row", !.c = c]

\* A search that met a click that hung goes on only when the terminal has caught up.
GiveUp ==
    /\ job.at \in {"seen", "nothing"} /\ kind = "close" /\ job.hung /\ ~Settled
    /\ IF job.at = "seen" THEN Cancel ELSE NoCancel
    /\ Answer("rejected")
    /\ TerminalWaits /\ UNCHANGED <<memory, history_vars>>

Unclean == search.dirty \/ job.hung
GoesOn == kind = "close" /\ (job.hung => Settled)

\* _hoc_dong_cuoi
TailLearned == Max({memory.tail} \cup {k \in {search.n - job.row + 1} : ~job.hung /\ k <= 3})

NoRow ==
    /\ job.at = "nothing" /\ GoesOn
    /\ search' = [Noted(search, job.row, Nobody) EXCEPT !.dirty = Unclean]
    /\ memory' = [memory EXCEPT !.close = Mapped(@, job.row, Nobody), !.tail = TailLearned]
    /\ NextRow /\ NoCancel
    /\ TerminalWaits /\ UNCHANGED <<link_vars, history_vars>>

\* The same ticket at two rows: one of them was a late dialog; both are opened again.
Twice == job.seen \in DOMAIN search.seen /\ search.seen[job.seen] # job.row
TwoRows ==
    /\ job.at = "seen" /\ GoesOn /\ Twice
    /\ LET other == search.seen[job.seen] IN
           search' = [Reopened(Reopened(Noted(search, job.row, Nobody), job.row), other)
                         EXCEPT !.dirty = TRUE, !.seen = Without(@, job.seen)]
    /\ Forget(job.seen) /\ NextRow /\ Cancel
    /\ TerminalWaits /\ UNCHANGED <<link_vars, history_vars>>

OtherRow ==
    /\ job.at = "seen" /\ GoesOn /\ ~Twice /\ job.seen # c.target
    /\ search' = [Noted(search, job.row, job.seen) EXCEPT !.dirty = Unclean, !.opened = TRUE,
                     !.seen = IF job.seen = Nobody THEN @ ELSE With(@, job.seen, job.row)]
    /\ memory' = [memory EXCEPT !.close = Mapped(@, job.row, job.seen)]
    /\ NextRow /\ Cancel
    /\ TerminalWaits /\ UNCHANGED <<link_vars, history_vars>>

RightRow ==
    /\ job.at = "seen" /\ GoesOn /\ ~Twice /\ job.seen = c.target
    /\ memory' = [memory EXCEPT !.close = Mapped(@, job.row, job.seen)]
    /\ Goto("fill") /\ NoCancel
    /\ TerminalWaits /\ UNCHANGED <<search, link_vars, history_vars>>

\* Market Watch: what a row opens is remembered; a dialog that does not go ends it.
NoSymbol ==
    /\ job.at = "nothing" /\ kind = "open"
    /\ search' = [search EXCEPT !.tried = @ \cup {job.row}]
    /\ memory' = IF job.gui THEN [memory EXCEPT !.open = Mapped(@, job.row, Nobody)] ELSE memory
    /\ NextRow /\ NoCancel
    /\ TerminalWaits /\ UNCHANGED <<link_vars, history_vars>>

Symbol ==
    /\ job.at = "seen" /\ kind = "open"
    /\ memory' = [memory EXCEPT !.open = Mapped(@, job.row, job.seen)]
    /\ \/ job.seen = c.target /\ Goto("fill") /\ NoCancel /\ UNCHANGED <<search, link_vars>>
       \/ /\ job.seen # c.target /\ Cancel
          /\ IF dialog' # NoDialog THEN Answer("rejected")
             ELSE NextRow /\ search' = [search EXCEPT !.tried = @ \cup {job.row}] /\ UNCHANGED link_vars
    /\ TerminalWaits /\ UNCHANGED history_vars

-----------------------------------------------------------------------------
(* All rows have been opened.                                                 *)

\* Some row opened a dialog, and nothing went wrong that the driver noticed.
Clean(s) == s.opened /\ ~s.dirty

Conclude ==
    /\ job.at = "row" /\ job.try = 1
    /\ \/ kind = "close" /\ NextClose(search, c.target) = {} /\ Forget(c.target)
          /\ Answer(IF Clean(search) THEN "already_closed" ELSE "rejected")
       \/ kind = "open" /\ NextOpen(search) = {} /\ UNCHANGED memory
          /\ Answer("rejected")
    /\ UNCHANGED <<terminal_vars, history_vars, upsets>>

-----------------------------------------------------------------------------
(* The right dialog: _commit, _commit_close.                                  *)

GiveBack == /\ Cancel /\ Answer("rejected")
            /\ IF kind = "close" THEN Forget(c.target) ELSE UNCHANGED memory

\* The symbol of a dialog to open with is read before anything is typed, and not again.
OtherSymbol ==
    /\ job.at = "fill" /\ kind = "open" /\ dialog.of # c.target
    /\ GiveBack
    /\ TerminalWaits /\ UNCHANGED history_vars

\* Typing may come to nothing. A full close leaves the field alone.
Fill ==
    /\ job.at = "fill" /\ (kind = "open" => dialog.of = c.target)
    /\ \/ Whole(c) /\ NoCancel
       \/ ~Whole(c) /\ UNCHANGED upsets
          /\ dialog' = [dialog EXCEPT !.text = "asked", !.moved = FALSE,
                                      !.volume = IF "deaf" \in odd THEN @ ELSE "asked"]
       \/ ~Whole(c) /\ Upset("typing") /\ dialog' = [dialog EXCEPT !.moved = FALSE]
    /\ Goto("check")
    /\ TerminalWaits /\ UNCHANGED <<search, memory, link_vars, history_vars>>

\* read_back, lech_nut_dong: the text of the field, as it stands in the dialog now. Of a
\* close also whose it is and the number on the button, which is what the terminal will
\* do: a number that cannot be read is no objection.
ReadBackOpen(d) == d.kind = "open" /\ d.text = "asked"
ReadBackClose(d) == /\ d.kind = "close" /\ d.of = c.target
                    /\ ~Whole(c) => d.text = "asked"
                    /\ "caption" \notin odd => d.volume = IF Whole(c) THEN "own" ELSE "asked"
ReadBack(d) == IF kind = "open" THEN ReadBackOpen(d) ELSE ReadBackClose(d)

\* Mutant of MayPress: what the terminal has not taken yet is not waited for.
MayPressAtOnce == TRUE
MayPress == kind = "close" => Settled

Check ==
    /\ job.at = "check" /\ MayPress /\ ReadBack(dialog)
    /\ Goto("ready") /\ NoCancel
    /\ TerminalWaits /\ UNCHANGED <<search, memory, link_vars, history_vars>>

CheckFails ==
    /\ job.at = "check" /\ ~(MayPress /\ ReadBack(dialog))
    /\ GiveBack
    /\ TerminalWaits /\ UNCHANGED history_vars

\* DialogError: a control is missing, or a button does not say what it should. Whether
\* the dialog goes when it is cancelled, nobody looks.
Misshapen ==
    /\ job.at \in {"fill", "check"} \/ (job.at = "seen" /\ kind = "open")
    /\ Upset("shape")
    /\ dialog' \in {dialog, NoDialog} /\ Answer("rejected")
    /\ UNCHANGED memory \/ (kind = "close" /\ Forget(c.target))
    /\ TerminalWaits /\ UNCHANGED history_vars

\* on_before_click, mark_clicked
Mark ==
    /\ job.at = "ready"
    /\ Write(c, [journal[c] EXCEPT !.clicked = TRUE])
    /\ Goto("marked")
    /\ UNCHANGED <<terminal_vars, search, memory, answers, history_vars, upsets>>

\* The button is pressed: the order is filled or refused, the dialog goes or stays.
Press ==
    /\ job.at = "marked"
    /\ pressed' = pressed \cup {<<c, dialog>>}
    /\ live' \in {live, IF dialog.kind = "close" /\ dialog.volume = "own" THEN live \ {dialog.of} ELSE live}
    /\ \/ dialog' = NoDialog /\ UNCHANGED upsets
       \/ Upset("stuck") /\ UNCHANGED dialog
    /\ Goto("pressed")
    /\ UNCHANGED <<shown, odd, clicks, search, memory, link_vars, excuses>>

PostFails ==
    /\ job.at = "marked" /\ Upset("post")
    /\ Answer("unknown")
    /\ IF kind = "close" THEN Forget(c.target) ELSE UNCHANGED memory
    /\ UNCHANGED <<terminal_vars, history_vars>>

Pressed ==
    /\ job.at = "pressed"
    /\ \/ dialog = NoDialog /\ Answer("ok")
          /\ memory' = IF Whole(c)
                       THEN [memory EXCEPT !.close = RowGone(@, c.target, job.row)] ELSE memory
       \/ dialog # NoDialog /\ Answer("unknown")
          /\ IF kind = "close" THEN Forget(c.target) ELSE UNCHANGED memory
    /\ UNCHANGED <<terminal_vars, history_vars, upsets>>

\* An exception of the driver, wherever it is.
Breaks ==
    /\ job.at \notin {"idle", "reserved"} /\ Upset("breaks")
    /\ Answer("unknown")
    /\ UNCHANGED <<terminal_vars, memory, history_vars>>

\* The clicker dies, wherever it is. The terminal stays as it is.
Crash ==
    /\ Upset("crash")
    /\ job' = Idle /\ search' = NoSearch /\ memory' = Fresh
    /\ UNCHANGED <<terminal_vars, link_vars, history_vars>>

DriverNext ==
    \/ \E d \in Commands : Take(d) \/ Again(d)
    \/ Refuse \/ StartClose \/ StartOpen
    \/ \E r \in 1 .. search.n : PickClose(r) \/ PickOpen(r)
    \/ Click \/ See \/ SeeUnread \/ SeeNothing \/ GiveUp \/ NoRow \/ TwoRows \/ OtherRow \/ RightRow
    \/ NoSymbol \/ Symbol \/ Conclude
    \/ OtherSymbol \/ Fill \/ Check \/ CheckFails \/ Misshapen \/ Mark \/ Press \/ PostFails \/ Pressed
    \/ Breaks \/ Crash

Next == TerminalNext \/ DriverNext

Spec == Init /\ [][Next]_vars

-----------------------------------------------------------------------------
(* Correctness.                                                              *)

\* Where the driver has no way to see the volume: of an open it reads only the text,
\* and of a full close only the button.
Unseen(d) ==
    \/ d.type = "OPEN_UI" /\ "deaf" \in odd
    \/ d.type = "CLOSE_UI" /\ "caption" \in odd
    \/ d.type = "CLOSE_UI_PARTIAL" /\ {"caption", "deaf"} \subseteq odd

\* The button is pressed once for a command at most, however often it comes and
\* whenever the clicker dies: in the dialog of its position, whatever late clicks have
\* done to it since it was found (driver._commit_close), or of its symbol, unless one
\* has changed it after the driver has read it (driver.py:405); and with its volume,
\* unless this terminal hides the one it will use (dialog.py:275-291, driver.py:3-12).
PressedIsRight ==
    \A p, q \in pressed :
        /\ p[1] = q[1] => p = q
        /\ (p[1].type = "OPEN_UI" /\ p[2].moved) \/ p[2].of = p[1].target
        /\ Unseen(p[1]) \/ p[2].volume = IF p[1].type = "CLOSE_UI" THEN "own" ELSE "asked"

\* Neither an answer nor a repeated one says "rejected" or "already_closed" of a
\* command whose button has been pressed, and the journal knows of every press
\* (journal.py:3, driver.py:244).
UntouchedIsTrue ==
    /\ \A p \in pressed : /\ journal[p[1]].clicked
                          /\ \A s \in {"rejected", "already_closed"} : <<p[1], s>> \notin answers
    /\ \A a, b \in answers : a[1] = b[1] /\ a[2] = "rejected" => b = a

\* A search that opened every row says of a live position that it is closed only if a
\* dialog came after the driver had stopped waiting for it (in this search or in the
\* one an exception or a crash has ended), did not say whose it was,
\* a dialog of the other kind covered the list, a position was opened meanwhile, or a
\* row went when the last one had been opened, as after a stale hint (driver.py:592).
ClosedUnlessFooled ==
    [][\A d \in Commands :
         journal'[d].ack = "already_closed" /\ journal[d].ack = "none" =>
             d.target \notin live \/ excuses # {}]_vars
=============================================================================
