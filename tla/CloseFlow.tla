----------------------------- MODULE CloseFlow -----------------------------
(***************************************************************************)
(* How the two legs of a hedge are taken down (bridge/engine/closing.py and  *)
(* the part of processor.py that feeds it): one Master position, copied to   *)
(* several Clients, each copy a pair. Either side may be closed by hand, in  *)
(* part or whole; the Bridge closes the other side through an EA or through  *)
(* a clicker, waits for the Master before it touches the other Clients of a  *)
(* cascade (D-10), and in an emergency closes everything, Clients first.     *)
(*                                                                          *)
(* Every handler runs to its end without yielding, so each is one action;    *)
(* what yields is the task that waits for the Master and the emergency.      *)
(* Answers are handled when they arrive, events one at a time. How a command *)
(* travels is CommandDelivery's subject: here it is in flight, is carried    *)
(* out or not, and is answered, timed out or cancelled.                      *)
(***************************************************************************)
EXTENDS Naturals, Sequences

CONSTANTS
    Clients,          \* one pair each with the Master position
    Master,           \* the Master's leg
    UiClients,        \* client_account.open_route and close_route = UI
    MasterUi,         \* master_close_route = UI
    MayCloseMaster,   \* client_account.can_close_master
    Fallback,         \* close_degraded_fallback
    Lots,             \* volume of every position, in steps
    None,
    MaxHand,          \* bound: closes by hand, by a stop or by the broker
    MaxFaults,        \* bound: things that go wrong, of all kinds together
    MaxUpsets         \* bound: these and the changes of the mode together

Legs == Clients \cup {Master}
Clickered == UiClients \cup IF MasterUi THEN {Master} ELSE {}

ASSUME CloseAssumption ==
    /\ Master \notin Clients
    /\ UiClients \subseteq Clients /\ MayCloseMaster \subseteq Clients
    /\ MasterUi \in BOOLEAN /\ Fallback \in {"EA", "SKIP"}
    /\ Lots \in Nat \ {0}
    /\ None \notin {"MASTER", "CLIENT"} \cup (Clients \X Nat)
    /\ MaxHand \in Nat /\ MaxFaults \in Nat /\ MaxUpsets \in Nat

VARIABLES
    \* the Bridge's tables
    pair,        \* status, known (client_position_id), wanted (close_time_master
                 \* of a pair without a position), mlots and clots (volumes)
    mbook,       \* master_position.status
    command,     \* per pair, the commands that carry its pair_id, oldest first
    events,      \* per leg, close and open events not yet processed
    mode,        \* run_mode
    online,      \* clickers whose agent.status is ONLINE
    \* the Bridge's memory
    waiting,     \* _cho_master_dong tasks: the pair and its Master command
    emergency,   \* emergency_close_all: how far it is, and its pairs
    \* the brokers
    lots,        \* volume of each position
    \* history
    told,        \* legs an alert says are not, or may not be, hedged and stay so
    passedOver,  \* pairs whose full close was due and not ordered
    handClosed,  \* Clients whose position was closed by hand
    unfollowed,  \* legs with a hand close put down to a command, or heard while
                 \* the mode does not follow
    faults       \* hand closes, switches, and by kind what has gone wrong

tables  == <<pair, mbook, command, mode, online>>
memory  == <<waiting, emergency>>
history == <<told, passedOver, handClosed, unfollowed>>
vars == <<tables, events, memory, lots, history, faults>>

Terminal == {"CLOSED", "OPEN_FAILED"}
Statuses == {"PENDING_OPEN", "OPEN", "PARTIALLY_CLOSED", "CLOSING", "ORPHANED"}
              \cup Terminal
Answers == {"ok", "already_closed", "failed", "rejected", "unknown"}

\* A row of the command table; SENT stands for PENDING as well. What the agent
\* answers is kept beside it, and whether the answer has been handled or lost.
Order(leg, via, kind, n, source) ==
    [leg |-> leg, via |-> via, kind |-> kind, lots |-> n, source |-> source,
     status |-> "SENT", answer |-> "none", heard |-> FALSE]

Init ==
    \E pending \in SUBSET Clients :
        /\ pair = [c \in Clients |->
               [status |-> IF c \in pending THEN "PENDING_OPEN" ELSE "OPEN",
                known |-> c \notin pending, wanted |-> None, mlots |-> Lots,
                clots |-> IF c \in pending THEN 0 ELSE Lots]]
        /\ command = [c \in Clients |->
               IF c \in pending
               THEN <<Order(c, IF c \in UiClients THEN "UI" ELSE "EA", "OPEN", Lots, "MASTER")>>
               ELSE <<>>]
        /\ lots = [l \in Legs |-> IF l \in pending THEN 0 ELSE Lots]
        /\ mbook = "OPEN"
        /\ events = [l \in Legs |-> <<>>]
        /\ mode \in {"RUNNING", "PAUSED"}
        /\ online = Clickered
        /\ waiting = {}
        /\ emergency = [phase |-> "off", pairs |-> {}]
        /\ told = {} /\ passedOver = {} /\ handClosed = {} /\ unfollowed = {}
        /\ faults = [hand |-> 0, switches |-> 0, late |-> 0, lost |-> 0, failures |-> 0, crashes |-> 0]

-----------------------------------------------------------------------------
(* Which orders are out, and how a close is sent.                            *)

Ids == UNION {{c} \X DOMAIN command[c] : c \in Clients}
Cmd(id) == command[id[1]][id[2]]
Closes(id) == Cmd(id).kind # "OPEN"

\* list_inflight_commands of a pair: any command that carries its pair_id.
InFlight(c) == {id \in Ids : id[1] = c /\ Cmd(id).status = "SENT"}

\* _dang_dong_master
MasterClosing == \E id \in Ids : Cmd(id).status = "SENT" /\ Cmd(id).leg = Master

\* run_mode in SYNC_CLOSE_MODES; RUNNING stands for PAUSE_NEW_ENTRIES as well.
Modes == {"RUNNING", "PAUSED", "EMERGENCY"}
SyncAllowed == mode # "PAUSED"

Alive(c) == pair[c].status \notin Terminal

\* _gui_lenh_dong: the clicker if it is there, else the EA or nobody.
Via(c) == IF c \in UiClients /\ c \in online THEN "UI"
                 ELSE IF c \notin UiClients \/ Fallback = "EA" THEN "EA"
                 ELSE "none"

Sent(c, kind, n, source) ==
    IF Via(c) = "none" THEN command[c]
    ELSE Append(command[c], Order(c, Via(c), kind, n, source))

\* A bug: only orders to close are looked for, and among them those to close all.
BusyIfClosingFully(c) == \E id \in InFlight(c) : Cmd(id).kind = "CLOSE"

\* A command of the pair is in flight, so none is added to it (plan 7.6).
Busy(c) == InFlight(c) # {}

\* _close_pair_fully for each pair of S, by the table book. A pair with no
\* position yet keeps the wish; a pair with a command in flight is left alone.
CloseFully(book, S, source) ==
    LET able == {c \in S : book[c].known /\ ~Busy(c)}
    IN  /\ pair' = [c \in Clients |->
               IF c \in able THEN [book[c] EXCEPT !.status = "CLOSING"]
               ELSE IF c \in S /\ ~book[c].known THEN [book[c] EXCEPT !.wanted = source]
               ELSE book[c]]
        /\ command' = [c \in Clients |->
               IF c \in able THEN Sent(c, "CLOSE", 0, source) ELSE command[c]]
        /\ told' = told \cup {c \in able : Via(c) = "none"}
        /\ passedOver' = passedOver \cup {c \in S : book[c].known /\ Busy(c)}

\* _gui_lenh_dong_master: a Master clicker that is not there is replaced by the EA.
MasterVia == IF MasterUi /\ Master \in online THEN "UI" ELSE "EA"
MasterOrder(source) == Order(Master, MasterVia, "CLOSE", 0, source)

-----------------------------------------------------------------------------
(* The brokers and the agents.                                               *)

Event(kind, after, n, cause, by) ==
    [kind |-> kind, after |-> after, lots |-> n, cause |-> cause, by |-> by]

Deal(l, n, cause, by) ==
    /\ lots' = [lots EXCEPT ![l] = @ - n]
    /\ events' = [events EXCEPT ![l] = Append(@, Event("CLOSED", lots[l] - n, n, cause, by))]

\* CauseFor: for ten seconds the EA puts every deal on a position down to the
\* command it last carried out there, its own or not.
CausesFor(l) == {id \in Ids : /\ Cmd(id).leg = l /\ Cmd(id).via = "EA"
                              /\ Cmd(id).kind # "OPEN" /\ Cmd(id).answer = "ok"}

\* A person, a stop or the broker closes n lots of a position.
HandClose(l, n) ==
    /\ faults.hand < MaxHand
    /\ n \in 1 .. lots[l]
    /\ \E cause \in {None} \cup CausesFor(l) :
           /\ Deal(l, n, cause, "hand")
           /\ unfollowed' = IF cause = None THEN unfollowed ELSE unfollowed \cup {l}
    /\ handClosed' = IF l \in Clients /\ n = lots[l] THEN handClosed \cup {l} ELSE handClosed
    /\ faults' = [faults EXCEPT !.hand = @ + 1]
    /\ UNCHANGED <<tables, memory, told, passedOver>>

\* The agent has done with a command; n is the volume that went with it.
Answer(id, a, n) ==
    /\ Cmd(id).answer = "none" /\ Cmd(id).status # "CANCELLED"
    /\ command' = [command EXCEPT ![id[1]][id[2]].answer = a, ![id[1]][id[2]].lots = n]
    /\ UNCHANGED <<pair, mbook, mode, online, memory, history>>

\* Something of this kind goes wrong.
Wrong == faults.late + faults.lost + faults.failures + faults.crashes
GoesWrong(kind) ==
    /\ Wrong < MaxFaults /\ Wrong + faults.switches < MaxUpsets
    /\ faults' = [faults EXCEPT ![kind] = @ + 1]

\* What an order to close takes: all of it, or no more than is left.
Taken(id) == IF Cmd(id).kind = "PARTIAL" /\ Cmd(id).lots < lots[Cmd(id).leg]
             THEN Cmd(id).lots ELSE lots[Cmd(id).leg]

\* DoClose, DoClosePartial, driver.close: the order is filled. A clicker may
\* press and not see what came of it.
Fill(id) ==
    /\ Closes(id) /\ lots[Cmd(id).leg] > 0
    /\ \/ Answer(id, "ok", Taken(id)) /\ UNCHANGED faults
       \/ Answer(id, "unknown", Taken(id)) /\ Cmd(id).via = "UI" /\ GoesWrong("failures")
    /\ \E cause \in IF Cmd(id).via = "EA" THEN {id} ELSE {None} \cup CausesFor(Cmd(id).leg) :
           Deal(Cmd(id).leg, Taken(id), cause, "bot")

\* There is no such position any more: an answer like any other (FR-18).
FindGone(id) ==
    /\ Closes(id) /\ lots[Cmd(id).leg] = 0
    /\ Answer(id, "already_closed", 0)
    /\ UNCHANGED <<events, lots, faults>>

\* The EA's order is refused; the clicker proves it has not pressed, or does not
\* know and has not.
Refuse(id) ==
    /\ \/ Answer(id, "failed", Cmd(id).lots) /\ Cmd(id).via = "EA"
       \/ Answer(id, "rejected", Cmd(id).lots) /\ Cmd(id).via = "UI"
       \/ Answer(id, "unknown", 0) /\ Cmd(id).via = "UI" /\ Closes(id)
    /\ GoesWrong("failures")
    /\ UNCHANGED <<events, lots>>

\* A clicker loses or regains control of its terminal (the canary).
ClickerStatus(l) ==
    /\ GoesWrong("failures")
    /\ online' = IF l \in online THEN online \ {l} ELSE online \cup {l}
    /\ UNCHANGED <<pair, mbook, command, mode, events, memory, lots, history>>

\* The copy opens. An EA's own answer names the position; a clicker's does not,
\* and the position is known when its event is.
OpenCopy(id) ==
    /\ ~Closes(id)
    /\ Answer(id, "ok", Lots)
    /\ lots' = [lots EXCEPT ![id[1]] = Lots]
    /\ events' = IF Cmd(id).via = "UI"
                 THEN [events EXCEPT ![id[1]] = Append(@, Event("OPENED", Lots, 0, None, "bot"))]
                 ELSE events
    /\ UNCHANGED faults

-----------------------------------------------------------------------------
(* The Bridge: answers and deadlines.                                        *)

Heard(id, status) ==
    command' = [command EXCEPT ![id[1]][id[2]].status = status,
                               ![id[1]][id[2]].heard = TRUE]

\* _handle_ack: mark_command_acked, whatever the row said before.
Answered(id, a) ==
    /\ Cmd(id).answer = a /\ ~Cmd(id).heard
    /\ UNCHANGED <<mode, online, events, memory, lots, passedOver, handClosed, unfollowed, faults>>

Done(id) == Closes(id) /\ Cmd(id).answer \in {"ok", "already_closed"}

SetPair(c, p) == pair' = [pair EXCEPT ![c] = p]

\* mark_pair_closed: the Master's volume goes to 0 only if its book says closed.
MarkClosed(c) == [pair[c] EXCEPT !.status = "CLOSED", !.clots = 0,
                                 !.mlots = IF mbook = "CLOSED" THEN 0 ELSE @]

\* on_close_acked, the Master's leg is flat.
AckMaster(id) ==
    /\ Done(id) /\ Cmd(id).leg = Master
    /\ Answered(id, Cmd(id).answer) /\ Heard(id, "ACK_OK")
    /\ mbook' = "CLOSED"
    /\ pair' = [c \in Clients |-> [pair[c] EXCEPT !.mlots = 0]]
    /\ UNCHANGED told

\* on_close_acked, the Client's leg is flat.
AckClosed(id) ==
    /\ Done(id) /\ Cmd(id).leg # Master /\ Cmd(id).kind = "CLOSE"
    /\ Answered(id, Cmd(id).answer) /\ Heard(id, "ACK_OK")
    /\ SetPair(id[1], MarkClosed(id[1]))
    /\ UNCHANGED <<mbook, told>>

\* A bug: CLOSE_PARTIAL is acknowledged like CLOSE.
AckPartialAsFull(id) ==
    /\ Done(id) /\ Cmd(id).leg # Master /\ Cmd(id).kind = "PARTIAL"
    /\ Answered(id, Cmd(id).answer) /\ Heard(id, "ACK_OK")
    /\ SetPair(id[1], MarkClosed(id[1]))
    /\ UNCHANGED <<mbook, told>>

\* _sau_dong_bot: what the EA says it executed is taken off the book; a clicker
\* says nothing (_ghi_volume_con_lai reads the event instead).
AckPartial(id) ==
    LET c == id[1]
        executed == IF Cmd(id).via = "EA" THEN Cmd(id).lots ELSE 0
    IN  /\ Done(id) /\ Cmd(id).leg # Master /\ Cmd(id).kind = "PARTIAL"
        /\ Answered(id, Cmd(id).answer) /\ Heard(id, "ACK_OK")
        /\ SetPair(c, IF pair[c].clots <= executed THEN MarkClosed(c)
                      ELSE [pair[c] EXCEPT !.status = "PARTIALLY_CLOSED",
                                           !.clots = @ - executed])
        /\ UNCHANGED <<mbook, told>>

\* A bug: the unclear answer is made a status of the pair.
AckUnknownAsStatus(id) ==
    /\ Closes(id)
    /\ Answered(id, "unknown") /\ Heard(id, "TIMEOUT")
    /\ pair' = [pair EXCEPT ![id[1]].status = "CLOSE_ACK_UNKNOWN"]
    /\ told' = told \cup {Cmd(id).leg}
    /\ UNCHANGED mbook

\* on_close_acked, unknown: nothing is tried again, a person is told.
AckUnknown(id) ==
    /\ Closes(id)
    /\ Answered(id, "unknown") /\ Heard(id, "TIMEOUT")
    /\ told' = told \cup {Cmd(id).leg}
    /\ UNCHANGED <<pair, mbook>>

\* _dong_that_bai: an EA refuses, or a clicker does and nothing takes its place.
AckFailed(id) ==
    /\ Closes(id)
    /\ \/ Answered(id, "failed")
       \/ Answered(id, "rejected") /\ Cmd(id).leg # Master /\ Fallback # "EA"
    /\ Heard(id, "ACK_FAILED")
    /\ pair' = [pair EXCEPT ![id[1]].status = "ORPHANED"]
    /\ told' = told \cup {Cmd(id).leg}
    /\ UNCHANGED mbook

\* _roi_ve_ea_sau_rejected and _roi_ve_ea_master_sau_rejected: nothing has been
\* pressed, so the same close goes to the EA.
AckFallBack(id) ==
    /\ Closes(id) /\ Answered(id, "rejected")
    /\ Cmd(id).leg = Master \/ Fallback = "EA"
    /\ command' = [command EXCEPT ![id[1]] =
           Append([@ EXCEPT ![id[2]].status = "ACK_FAILED", ![id[2]].heard = TRUE],
                  Order(Cmd(id).leg, "EA", Cmd(id).kind, Cmd(id).lots, Cmd(id).source))]
    /\ UNCHANGED <<pair, mbook, told>>

\* The answer to the OPEN. Only an EA's ok opens the pair (_on_open_success).
\* Retries are CommandDelivery's: here a refusal is the last one.
AckOpen(id) ==
    LET c == id[1]
    IN  /\ ~Closes(id)
        /\ Answered(id, Cmd(id).answer) /\ Cmd(id).answer # "none"
        /\ Heard(id, IF Cmd(id).answer = "ok" THEN "ACK_OK" ELSE "ACK_FAILED")
        /\ IF pair[c].status # "PENDING_OPEN" THEN UNCHANGED pair
           ELSE IF Cmd(id).answer # "ok"
                THEN pair' = [pair EXCEPT ![c].status = "OPEN_FAILED"]
           ELSE IF Cmd(id).via = "EA"
                THEN pair' = [pair EXCEPT ![c].status = "OPEN", ![c].known = TRUE,
                                          ![c].clots = Lots]
           ELSE UNCHANGED pair
        /\ UNCHANGED <<mbook, told>>

\* scan_deadlines and on_close_timeout: COMMAND_TIMEOUT names the pair.
Timeout(id) ==
    /\ Closes(id) /\ Cmd(id).status = "SENT"
    /\ command' = [command EXCEPT ![id[1]][id[2]].status = "TIMEOUT"]
    /\ told' = told \cup {Cmd(id).leg}
    /\ GoesWrong("failures")
    /\ UNCHANGED <<pair, mbook, mode, online, events, memory, lots, passedOver, handClosed,
                   unfollowed>>

\* cancel_expired: too old before it could be sent.
CancelExpired(id) ==
    /\ Closes(id) /\ Cmd(id).status = "SENT" /\ Cmd(id).answer = "none"
    /\ command' = [command EXCEPT ![id[1]][id[2]].status = "CANCELLED"]
    /\ told' = told \cup {Cmd(id).leg}
    /\ GoesWrong("failures")
    /\ UNCHANGED <<pair, mbook, mode, online, events, memory, lots, passedOver, handClosed,
                   unfollowed>>

\* The link breaks under an answer.
LoseAnswer(id) ==
    /\ Closes(id) /\ Cmd(id).answer # "none" /\ ~Cmd(id).heard
    /\ command' = [command EXCEPT ![id[1]][id[2]].heard = TRUE]
    /\ GoesWrong("lost")
    /\ UNCHANGED <<pair, mbook, mode, online, events, memory, lots, history>>

-----------------------------------------------------------------------------
(* The Bridge: events, one at a time.                                        *)

\* An EA's answer leaves before the event of the deal it made, on the same link.
NextEvent(l, e) ==
    /\ \A id \in Ids : Cmd(id).leg = l /\ Cmd(id).via = "EA" /\ Cmd(id).answer # "none"
                           => Cmd(id).heard
    /\ events' = [events EXCEPT ![l] = Tail(@)]
    /\ UNCHANGED <<mode, online, lots, handClosed>>

\* A bug: an order whose outcome is unclear no longer counts.
ClickerOrdersSettled(l) ==
    {id \in Ids : /\ Cmd(id).via = "UI" /\ Closes(id) /\ Cmd(id).status # "TIMEOUT"
                  /\ IF l = Master THEN Cmd(id).leg = Master ELSE id[1] = l}

\* The clicker's orders an event of a leg may come from, for it carries no trace
\* of them: for a Client every order of its pair, whichever leg it closes
\* (_ai_gay_ra); for the Master what its own clicker was sent (_ai_gay_ra_master).
ClickerOrders(l) == {id \in Ids : /\ Cmd(id).via = "UI" /\ Closes(id)
                                  /\ IF l = Master THEN Cmd(id).leg = Master ELSE id[1] = l}

\* The event is a command's doing: the EA said so, or a clicker's order is in
\* flight or was settled less than the grace window ago.
Claimed(l, e, byClicker) ==
    /\ IF byClicker THEN e.cause = None /\ ClickerOrders(l) # {} ELSE e.cause # None
    /\ unfollowed' = IF e.by = "hand" THEN unfollowed \cup {l} ELSE unfollowed
    /\ UNCHANGED faults

\* The event is nobody's doing, and is followed if the mode allows. One of a
\* clicker's own deals gets here only if it comes after the window.
Unclaimed(l, e) ==
    /\ e.cause = None
    /\ \A id \in ClickerOrders(l) : Cmd(id).status # "SENT"
    /\ IF ClickerOrders(l) # {} /\ e.by = "bot"
       THEN GoesWrong("late")
       ELSE UNCHANGED faults
    /\ unfollowed' = IF e.by = "hand" /\ ~SyncAllowed THEN unfollowed \cup {l} ELSE unfollowed

\* set_master_position_status, first thing whatever the rest decides.
BookMaster(e) == mbook' = IF e.after = 0 THEN "CLOSED" ELSE "OPEN"

\* on_master_close: the Bridge's own doing, or not a mode that follows.
HearMasterIgnored(e) ==
    /\ NextEvent(Master, e)
    /\ \/ \E byClicker \in BOOLEAN : Claimed(Master, e, byClicker)
       \/ Unclaimed(Master, e) /\ ~SyncAllowed
    /\ BookMaster(e)
    /\ UNCHANGED <<pair, command, memory, told, passedOver>>

\* A bug: the pairs that are still being opened are forgotten.
HearMasterClosedOpenOnly(e) ==
    /\ NextEvent(Master, e) /\ Unclaimed(Master, e) /\ SyncAllowed
    /\ e.after = 0
    /\ BookMaster(e)
    /\ CloseFully(pair, {c \in Clients : Alive(c) /\ pair[c].known}, "MASTER")
    /\ UNCHANGED memory

\* on_master_close, nothing left: every pair that is not settled is closed.
HearMasterClosed(e) ==
    /\ NextEvent(Master, e) /\ Unclaimed(Master, e) /\ SyncAllowed
    /\ e.after = 0
    /\ BookMaster(e)
    /\ CloseFully(pair, {c \in Clients : Alive(c)}, "MASTER")
    /\ UNCHANGED memory

\* The Client's share of a partial close, rounded down to a step.
Share(c, e) == (pair[c].clots * e.lots) \div pair[c].mlots

\* on_master_close, part is left: _close_pair_partially for every live pair. The
\* new Master volume is written whether or not the Client can follow.
HearMasterPartial(e) ==
    LET live == {c \in Clients : Alive(c)}
        able == {c \in live : pair[c].known /\ ~Busy(c) /\ pair[c].mlots > 0}
        follow == {c \in able : Share(c, e) > 0}
        tooSmall == {c \in able : Share(c, e) = 0}
    IN  /\ NextEvent(Master, e) /\ Unclaimed(Master, e) /\ SyncAllowed
        /\ e.after > 0
        /\ BookMaster(e)
        /\ pair' = [c \in Clients |->
               IF c \in follow THEN [pair[c] EXCEPT !.mlots = e.after, !.status = "PARTIALLY_CLOSED"]
               ELSE IF c \in live THEN [pair[c] EXCEPT !.mlots = e.after]
               ELSE pair[c]]
        /\ command' = [c \in Clients |->
               IF c \in follow THEN Sent(c, "PARTIAL", Share(c, e), "MASTER")
               ELSE command[c]]
        /\ told' = told \cup {c \in follow : Via(c) = "none"} \cup tooSmall
        /\ UNCHANGED <<memory, passedOver>>

\* _bind: the event of a copy the clicker opened names its position. If the Master
\* has closed meanwhile, _flush_deferred_close sends the close that was wished for.
HearOpened(c, e) ==
    LET bound == pair[c].status = "PENDING_OPEN"
        book == IF bound
                THEN [pair EXCEPT ![c].status = "OPEN", ![c].known = TRUE, ![c].clots = e.after]
                ELSE pair
    IN  /\ NextEvent(c, e) /\ e.kind = "OPENED"
        /\ CloseFully(book, IF bound /\ pair[c].wanted # None THEN {c} ELSE {}, pair[c].wanted)
        /\ UNCHANGED <<mbook, memory, unfollowed, faults>>

\* A close of a position of a pair; those of no pair are ignored (FR-12).
ClientClosed(c, e) == NextEvent(c, e) /\ e.kind = "CLOSED" /\ pair[c].known

\* on_client_close: the mode does not follow.
HearClientIgnored(c, e) ==
    /\ ClientClosed(c, e) /\ Unclaimed(c, e) /\ ~SyncAllowed
    /\ UNCHANGED <<pair, mbook, command, memory, told, passedOver>>

\* on_client_close, a command's doing: for a clicker's the volume left is read
\* off the event, and none left is the proof that it is done (D-23).
HearOwnClose(c, e) ==
    /\ ClientClosed(c, e)
    /\ \E byClicker \in BOOLEAN :
        /\ Claimed(c, e, byClicker)
        /\ IF byClicker
           THEN SetPair(c, IF e.after = 0 /\ Alive(c) THEN MarkClosed(c)
                           ELSE [pair[c] EXCEPT !.clots = e.after])
           ELSE UNCHANGED pair
    /\ UNCHANGED <<mbook, command, memory, told, passedOver>>

ByHand(c, e) == ClientClosed(c, e) /\ Unclaimed(c, e) /\ SyncAllowed

\* on_client_close, by hand, part is left: the Master is not followed (D-11).
HearClientPartial(c, e) ==
    /\ ByHand(c, e) /\ e.after > 0
    /\ SetPair(c, [pair[c] EXCEPT !.clots = e.after, !.status = "PARTIALLY_CLOSED"])
    /\ told' = told \cup {c}
    /\ UNCHANGED <<mbook, command, memory, passedOver>>

\* _client_dong_khong_cascade: the Master stays, exposed.
HearClientKept(c, e) ==
    /\ ByHand(c, e) /\ e.after = 0 /\ c \notin MayCloseMaster
    /\ SetPair(c, [pair[c] EXCEPT !.status = "ORPHANED", !.clots = 0])
    /\ told' = told \cup {c}
    /\ UNCHANGED <<mbook, command, memory, passedOver>>

\* A bug: can_close_master is not looked at.
HearCascadeOfAnyone(c, e) ==
    /\ ByHand(c, e) /\ e.after = 0
    /\ SetPair(c, [pair[c] EXCEPT !.status = "CLOSED", !.clots = 0])
    /\ IF MasterClosing THEN UNCHANGED <<command, waiting>>
       ELSE /\ command' = [command EXCEPT ![c] = Append(@, MasterOrder("CLIENT"))]
            /\ waiting' = waiting \cup {<<c, Len(command[c]) + 1>>}
    /\ UNCHANGED <<mbook, emergency, told, passedOver>>

\* _cascade: the Master is ordered closed and a task waits for it, unless such an
\* order is out already.
HearCascade(c, e) ==
    /\ ByHand(c, e) /\ e.after = 0 /\ c \in MayCloseMaster
    /\ SetPair(c, [pair[c] EXCEPT !.status = "CLOSED", !.clots = 0])
    /\ IF MasterClosing THEN UNCHANGED <<command, waiting>>
       ELSE /\ command' = [command EXCEPT ![c] = Append(@, MasterOrder("CLIENT"))]
            /\ waiting' = waiting \cup {<<c, Len(command[c]) + 1>>}
    /\ UNCHANGED <<mbook, emergency, told, passedOver>>

-----------------------------------------------------------------------------
(* The tasks.                                                                *)

\* A bug: the Master's order being settled in any way is taken for its success.
CascadeOnSettled(id) ==
    /\ id \in waiting /\ Cmd(id).status # "SENT"
    /\ waiting' = waiting \ {id}
    /\ CloseFully(pair, {c \in Clients \ {id[1]} : Alive(c)}, "CLIENT")
    /\ UNCHANGED <<mbook, mode, online, emergency, events, lots, handClosed, unfollowed, faults>>

\* _cho_master_dong sees the Master closed: _dong_cac_client_con_lai.
CascadeOn(id) ==
    /\ id \in waiting /\ mbook = "CLOSED"
    /\ waiting' = waiting \ {id}
    /\ CloseFully(pair, {c \in Clients \ {id[1]} : Alive(c)}, "CLIENT")
    /\ UNCHANGED <<mbook, mode, online, emergency, events, lots, handClosed, unfollowed, faults>>

\* _cho_master_dong gives up: the order failed and none has taken its place, or
\* cascade_wait_master_ms is over. The other Clients keep their positions.
CascadeGiveUp(id) ==
    /\ id \in waiting
    /\ waiting' = waiting \ {id}
    /\ pair' = [c \in Clients |-> IF Alive(c) THEN [pair[c] EXCEPT !.status = "ORPHANED"]
                                  ELSE pair[c]]
    /\ told' = told \cup {Master} \cup {c \in Clients : Alive(c)}
    /\ UNCHANGED <<mbook, command, mode, online, emergency, events, lots, passedOver,
                   handClosed, unfollowed, faults>>

\* A person sets the mode, in the dashboard or, any of them, on the command line.
SetMode ==
    /\ Wrong + faults.switches < MaxUpsets
    /\ mode' \in Modes \ {mode}
    /\ faults' = [faults EXCEPT !.switches = @ + 1]
    /\ UNCHANGED <<pair, mbook, command, online, events, memory, lots, history>>

\* check_emergency sees that the emergency is over: another may come.
Rearm ==
    /\ mode # "EMERGENCY" /\ emergency.phase = "done"
    /\ emergency' = [emergency EXCEPT !.phase = "off"]
    /\ UNCHANGED <<tables, waiting, events, lots, history, faults>>

\* _emergency_close_all, first half: the Clients. A pair whose position is not
\* known yet is left alone as well.
EmergencyClients ==
    LET live == {c \in Clients : Alive(c)}
        able == {c \in live : pair[c].known /\ ~Busy(c)}
    IN  /\ mode = "EMERGENCY" /\ emergency.phase = "off"
        /\ pair' = [c \in Clients |-> IF c \in able THEN [pair[c] EXCEPT !.status = "CLOSING"]
                                      ELSE pair[c]]
        /\ command' = [c \in Clients |-> IF c \in able THEN Sent(c, "CLOSE", 0, "BOT")
                                         ELSE command[c]]
        /\ told' = told \cup {c \in able : Via(c) = "none"}
        /\ passedOver' = passedOver \cup (live \ able)
        /\ emergency' = [phase |-> IF live = {} THEN "done" ELSE "waiting", pairs |-> live]
        /\ UNCHANGED <<mbook, mode, online, waiting, events, lots, handClosed, unfollowed, faults>>

\* _emergency_close_all, second half: the Master follows, when the orders are
\* settled or at the latest when _cho_lenh_xong has no more patience, whatever
\* the mode has become.
EmergencyMaster ==
    /\ emergency.phase = "waiting"
    /\ emergency' = [phase |-> "done", pairs |-> {}]
    /\ IF mbook = "CLOSED" \/ MasterClosing THEN UNCHANGED command
       ELSE \E c \in emergency.pairs :
                command' = [command EXCEPT ![c] = Append(@, MasterOrder("BOT"))]
    /\ UNCHANGED <<pair, mbook, mode, online, waiting, events, lots, history, faults>>

\* The Bridge dies and starts again: what it had in memory is gone, and it is
\* PAUSED until a person says otherwise (D-15, ep_ve_paused).
BridgeCrash ==
    /\ GoesWrong("crashes")
    /\ mode' = "PAUSED"
    /\ waiting' = {}
    /\ emergency' = [phase |-> "off", pairs |-> {}]
    /\ UNCHANGED <<pair, mbook, command, online, events, lots, history>>

\* _route: which handler an event goes to.
RouteMaster(e) == HearMasterIgnored(e) \/ HearMasterClosed(e) \/ HearMasterPartial(e)

RouteClient(c, e) ==
    \/ HearOpened(c, e) \/ HearClientIgnored(c, e) \/ HearOwnClose(c, e)
    \/ HearClientPartial(c, e) \/ HearClientKept(c, e) \/ HearCascade(c, e)

\* An agent works on a command, or its answer or its deadline reaches the Bridge.
Agent(id) == Fill(id) \/ FindGone(id) \/ Refuse(id) \/ OpenCopy(id) \/ LoseAnswer(id)

HearAnswer(id) ==
    \/ AckMaster(id) \/ AckClosed(id) \/ AckPartial(id) \/ AckUnknown(id)
    \/ AckFailed(id) \/ AckFallBack(id) \/ AckOpen(id)

Next ==
    \/ \E l \in Legs, n \in 1 .. Lots : HandClose(l, n)
    \/ \E id \in Ids : Agent(id) \/ HearAnswer(id) \/ Timeout(id) \/ CancelExpired(id)
    \/ events[Master] # <<>> /\ RouteMaster(Head(events[Master]))
    \/ \E c \in Clients : events[c] # <<>> /\ RouteClient(c, Head(events[c]))
    \/ \E id \in waiting : CascadeOn(id) \/ CascadeGiveUp(id)
    \/ SetMode \/ EmergencyClients \/ EmergencyMaster \/ Rearm
    \/ \E l \in Clickered : ClickerStatus(l)
    \/ BridgeCrash

Spec == Init /\ [][Next]_vars

-----------------------------------------------------------------------------
(* Properties.                                                               *)

\* The types of the tables, of the tasks and of the positions: books and brokers
\* stay within what was opened, and a cascade waits for a command that exists.
TypeOK ==
    /\ pair \in [Clients -> [status : Statuses, known : BOOLEAN,
                              wanted : {None, "MASTER", "CLIENT"},
                              mlots : 0 .. Lots, clots : 0 .. Lots]]
    /\ mbook \in {"OPEN", "CLOSED"} /\ mode \in Modes
    /\ \A id \in Ids :
          Cmd(id) \in [leg : {id[1], Master}, via : {"EA", "UI"},
                       kind : {"OPEN", "CLOSE", "PARTIAL"}, lots : 0 .. Lots,
                       source : {"MASTER", "CLIENT", "BOT"},
                       status : {"SENT", "ACK_OK", "ACK_FAILED", "TIMEOUT", "CANCELLED"},
                       answer : Answers \cup {"none"}, heard : BOOLEAN]
    /\ waiting \subseteq Ids
    /\ lots \in [Legs -> 0 .. Lots]
    /\ told \subseteq Legs /\ passedOver \subseteq Clients

\* At no time are two orders out to close the same leg (plan 7.6): of Master
\* closes, cascades, fallbacks and the emergency each sees what the others have
\* sent. Once a person has been told of the leg it may happen: a clicker's
\* rejected after the TIMEOUT still falls back to the EA.
OneCloseInFlight ==
    \A id1, id2 \in Ids :
        /\ Closes(id1) /\ Cmd(id1).status = "SENT"
        /\ Closes(id2) /\ Cmd(id2).status = "SENT"
        /\ Cmd(id1).leg = Cmd(id2).leg
        => id1 = id2 \/ Cmd(id1).leg \in told

\* A pair is CLOSED in the book only if the Client's position is gone, whichever
\* of acks and events came first and whoever closed it (mark_pair_closed).
ClosedIsFlat == \A c \in Clients : pair[c].status = "CLOSED" => lots[c] = 0

\* The Master is closed on a Client's account only if a person closed that
\* Client's position: the bot's own closes, which look the same when they went
\* through a clicker, never cascade (_ai_gay_ra), unless one is reported after the
\* grace window.
NoFalseCascade ==
    faults.late = 0 =>
        \A id \in Ids : Cmd(id).leg = Master /\ Cmd(id).source = "CLIENT" => id[1] \in handClosed

\* No other Client is closed in a cascade before the Master's position is really
\* gone, whatever acks and events made the Bridge believe so (D-10).
CascadeWaitsForMaster ==
    \A id \in Ids : Cmd(id).leg # Master /\ Cmd(id).source = "CLIENT" => lots[Master] = 0

\* Nothing is left to be done or heard.
Quiet ==
    /\ waiting = {} /\ emergency.phase # "waiting"
    /\ mode = "EMERGENCY" => emergency.phase # "off"
    /\ \A l \in Legs : events[l] = <<>>
    /\ \A id \in Ids : Cmd(id).status # "SENT" /\ (Cmd(id).answer # "none" => Cmd(id).heard)

Naked(c) == (lots[c] = 0) # (lots[Master] = 0)

CarriedOut(id) == Cmd(id).answer \in {"ok", "unknown"} /\ Cmd(id).lots > 0

\* It was an order to close a part that left nothing of a Client's position: the
\* Bridge's volume was ahead of it, for an event of an earlier close was still to
\* be heard, or had been ignored while the mode was PAUSED.
EmptiedInPart(c) ==
    /\ lots[c] = 0 /\ c \notin handClosed
    /\ \E id \in Ids : Cmd(id).leg = c /\ Cmd(id).kind = "PARTIAL" /\ CarriedOut(id)
    /\ \A id \in Ids : Cmd(id).leg = c /\ Cmd(id).kind = "CLOSE" => ~CarriedOut(id)

\* A leg may stand alone, for a person has been told of it or the code is known to
\* let it pass: a close not sent because a command of the pair was in flight, a wish
\* not acted upon, a part that was all, a hand close put down to a command or heard
\* while the mode was PAUSED, which no later change of the mode makes up for.
Excused(c) ==
    \/ {c, Master} \cap (told \cup unfollowed) # {}
    \/ c \in passedOver
    \/ pair[c].status = "OPEN_FAILED" \/ pair[c].wanted # None
    \/ EmptiedInPart(c)

\* No event and no answer was late or lost, and the Bridge has not died.
Smooth == faults.late = 0 /\ faults.lost = 0 /\ faults.crashes = 0

\* When all is quiet no leg is open alone without an alert that names it, of closes
\* by hand, cascades, refusals, fallbacks, emergencies and switches of the mode in
\* whatever order. Excused are the legs the code is known to let pass.
NoSilentNakedLeg ==
    Quiet /\ Smooth => \A c \in Clients : Naked(c) => Excused(c)

\* What the user sees of this is Hedge: a position is closed only by a person or for
\* a cause that held when the Bridge decided on it, whichever answers are lost, events
\* late, orders sent once more by another way, tasks cut short by a restart and modes
\* changed meanwhile (_ai_gay_ra, D-10, D-11, can_close_master). Due is what has been
\* decided on and may still happen: the orders an agent may still carry out or refuse,
\* the wishes, the cascades and the second half of an emergency.
Opening == {c \in Clients : \E id \in Ids : id[1] = c /\ ~Closes(id) /\ Cmd(id).answer = "none"}
Unsettled(id) == /\ Closes(id)
               /\ \/ Cmd(id).answer = "none" /\ Cmd(id).status # "CANCELLED"
                  \/ Cmd(id).answer = "rejected" /\ ~Cmd(id).heard
OrdersDue == {<<Cmd(id).leg, Cmd(id).source>> : id \in {i \in Ids : Unsettled(i)}}
WishesDue == {<<c, pair[c].wanted>> : c \in {d \in Clients : ~pair[d].known /\ pair[d].wanted # None}}
Due == OrdersDue \cup WishesDue \cup (IF waiting = {} THEN {} ELSE Clients \X {"CLIENT"})
         \cup (IF emergency.phase = "waiting" THEN {<<Master, "BOT">>} ELSE {})
H == INSTANCE Hedge WITH opening <- Opening, hand <- faults.hand, late <- faults.late > 0,
                         due <- Due
ClosedForCause == H!Spec
=============================================================================
