------------------------------ MODULE OpenFlow ------------------------------
(***************************************************************************)
(* From a Master's open to a bound copy: EventProcessor (processor.py) and   *)
(* the tables master_position, pair, command, ui_open_queue (repo.py).       *)
(*                                                                          *)
(* One loop works through the events in the order of their rows, then       *)
(* through the queue of copies that wait for a clicker, then through the     *)
(* deadlines. It gives way only while it sends a command, so a handler is a  *)
(* sequence of steps kept in `loop`; the acks of the agents and the retries, *)
(* which run in tasks of their own, come in between.                         *)
(*                                                                          *)
(* A copy is a pair <<m, c>>. What happens to a command on its way is        *)
(* CommandDelivery's subject and the close of a pair CloseFlow's: here a     *)
(* command is LIVE until it is answered or past its deadline, and a close of *)
(* a pair whose position is known is carried out at once.                    *)
(***************************************************************************)
EXTENDS Integers, Sequences, FiniteSets, SequencesExt

CONSTANTS
    Masters,        \* the Master's positions
    Clients, Ui,    \* Ui: those whose open_route is UI; the others go through the EA
    Policies,       \* the Clients whose open_fail_policy is RETRY_CLOSE_MASTER
    MaxOpenPairs,   \* client_account.max_open_pairs
    MaxLen,         \* ui_open_queue_max_len
    MaxRetry,       \* client_account.max_retry
    Match,          \* ui_fallback_match
    MaxUpsets       \* restarts, switches of run_mode, of a Client or of a clicker, Master
                    \* positions closed and Client positions opened by hand, tags that
                    \* are lost, taken together

ASSUME OpenFlowAssumption ==
    /\ Ui \subseteq Clients /\ Policies \subseteq Clients
    /\ Match \in {"STRICT", "HEURISTIC"}
    /\ {MaxOpenPairs, MaxLen, MaxRetry, MaxUpsets} \subseteq Nat
    /\ IsFiniteSet(Masters)

Copies == Masters \X Clients
Of(c) == {p \in Copies : p[2] = c}
\* The owner of a position no order opened; what is bound when nothing is.
Hand == <<"hand", "hand">>
Unbound == <<"none", "none">>

VARIABLES
    market,     \* what the Master's account holds: idle, open, closed
    age,        \* of the open: fresh; late for max_event_age_ms; old for the queue too
    events,     \* rows of `event` still PENDING, in the order of their ids
    mode,       \* run_mode; RESTARTED is the PAUSED a restart has forced
    fit,        \* a Client: ok; unfit: no mapping, spec, connection or Algo Trading;
                \* unmapped: its mapping is switched off; off: it is itself
    up,         \* clickers that are ONLINE
    book,       \* master_position.status
    pair,       \* pair.status, "none" before the row exists
    bound,      \* pair.client_position_id: the pair whose order opened the position
    wish,       \* pairs with close_time_master
    order,      \* the pair's last command: none, LIVE (PENDING, SENT), DONE
    attempts,   \* commands of the pair
    shut,       \* pairs whose last OPEN_UI is older than its correlation window
    hand,       \* the agent's side of the last command
    queue,      \* ui_open_queue: the Masters that wait at a Client, in their order
    asleep,     \* pairs with a _retry_open task asleep
    loop,       \* where EventProcessor._loop is
    closing,    \* Masters a CLOSE has been sent for by open_fail_policy
    due,        \* history: copies a handler that was RUNNING has set out to make
    note,       \* history: why there is none
    told,       \* pairs that wait and have an error_message, written with an alert
    upsets

book_vars == <<book, pair, bound, wish, order, attempts>>
env_vars == <<mode, fit, up>>
vars == <<market, age, events, mode, fit, up, book, pair, bound, wish, order, attempts, shut,
          hand, queue, asleep, loop, closing, due, note, told, upsets>>

Idle == [at |-> "idle"]
EmptyQueue == [c \in Clients |-> <<>>]
Waiting(p) == pair[p] = "PENDING_OPEN"

Init ==
    /\ market = [m \in Masters |-> "idle"]
    /\ age = [m \in Masters |-> "fresh"]
    /\ events = <<>>
    /\ mode = "RUNNING"
    /\ fit = [c \in Clients |-> "ok"]
    /\ up = Ui
    /\ book = [m \in Masters |-> "none"]
    /\ pair = [p \in Copies |-> "none"]
    /\ bound = [p \in Copies |-> Unbound]
    /\ order = [p \in Copies |-> "none"]
    /\ attempts = [p \in Copies |-> 0]
    /\ hand = [p \in Copies |-> "none"]
    /\ note = [p \in Copies |-> "none"]
    /\ queue = EmptyQueue /\ loop = Idle
    /\ wish = {} /\ shut = {} /\ asleep = {} /\ closing = {} /\ due = {} /\ told = {}
    /\ upsets = 0

-----------------------------------------------------------------------------
(* The agents and the people.                                                *)

MasterOpens(m) ==
    /\ market[m] = "idle"
    /\ market' = [market EXCEPT ![m] = "open"]
    /\ events' = Append(events, [kind |-> "master_open", m |-> m])
    /\ UNCHANGED <<age, env_vars, book_vars, shut, hand, queue, asleep, loop, closing,
                   due, note, told, upsets>>

\* By hand, or by the CLOSE open_fail_policy has sent: the event says which.
MasterCloses(m, byBot) ==
    /\ market[m] = "open"
    /\ IF byBot THEN m \in closing /\ UNCHANGED upsets
       ELSE upsets < MaxUpsets /\ upsets' = upsets + 1
    /\ market' = [market EXCEPT ![m] = "closed"]
    /\ events' = Append(events, [kind |-> "master_close", m |-> m, byBot |-> byBot])
    /\ UNCHANGED <<age, env_vars, book_vars, shut, hand, queue, asleep, loop, closing,
                   due, note, told>>

GrowOlder ==
    /\ \E m \in Masters : market[m] # "idle" /\ age[m] # "old"
    /\ age' = [m \in Masters |-> IF market[m] = "idle" THEN "fresh"
                                ELSE IF age[m] = "fresh" THEN "late" ELSE "old"]
    /\ UNCHANGED <<market, events, env_vars, book_vars, shut, hand, queue, asleep, loop,
                   closing, due, note, told, upsets>>

\* A command whose correlation window is over: ui_correlate_grace_ms after its
\* deadline, when no copy of the same open could come out of the queue any more.
WindowShuts(p) ==
    /\ p[2] \in Ui /\ Waiting(p) /\ order[p] # "LIVE" /\ p \notin shut
    /\ age[p[1]] = "old"
    /\ shut' = shut \cup {p}
    /\ UNCHANGED <<market, age, events, env_vars, book_vars, hand, queue, asleep, loop,
                   closing, due, note, told, upsets>>

\* The pairs whose windows are over when an event of a Client is received.
ShutNow == {<<p, attempts[p]>> : p \in {q \in shut : Waiting(q)}}

\* The broker may strip the comment that carries the tag.
Opened(p, tagged) ==
    [kind |-> "client_open", c |-> p[2], owner |-> p, tagged |-> tagged, late |-> ShutNow]

Press(p) ==
    /\ p[2] \in Ui /\ hand[p] = "working"
    /\ hand' = [hand EXCEPT ![p] = "pressed"]
    /\ \/ events' = Append(events, Opened(p, TRUE)) /\ UNCHANGED upsets
       \/ /\ upsets < MaxUpsets /\ upsets' = upsets + 1
          /\ events' = Append(events, Opened(p, FALSE))
    /\ UNCHANGED <<market, age, env_vars, book_vars, shut, queue, asleep, loop, closing,
                   due, note, told>>

HandOpens(c) ==
    /\ upsets < MaxUpsets /\ upsets' = upsets + 1
    /\ events' = Append(events, [kind |-> "client_open", c |-> c, owner |-> Hand,
                                 tagged |-> FALSE, late |-> ShutNow])
    /\ UNCHANGED <<market, age, env_vars, book_vars, shut, hand, queue, asleep, loop, closing,
                   due, note, told>>

\* run_mode, a Client, its terminal or its clicker changes.
Switch ==
    /\ upsets < MaxUpsets /\ upsets' = upsets + 1
    /\ \/ /\ mode' = (IF mode = "RUNNING" THEN "PAUSED" ELSE "RUNNING")
          /\ UNCHANGED <<fit, up>>
       \/ /\ \E c \in Clients : \E f \in {"ok", "unfit", "unmapped", "off"} \ {fit[c]} : fit' = [fit EXCEPT ![c] = f]
          /\ UNCHANGED <<mode, up>>
       \/ /\ \E c \in Ui : up' = (IF c \in up THEN up \ {c} ELSE up \cup {c})
          /\ UNCHANGED <<mode, fit>>
    /\ UNCHANGED <<market, age, events, book_vars, shut, hand, queue, asleep, loop, closing,
                   due, note, told>>

\* A person lets the copies go on after a restart.
Resume ==
    /\ mode = "RESTARTED" /\ mode' = "RUNNING"
    /\ UNCHANGED <<market, age, events, fit, up, book_vars, shut, hand, queue, asleep, loop,
                   closing, due, note, told, upsets>>

-----------------------------------------------------------------------------
(* The gates of _open_for_client.                                            *)

\* Mutant of Holding: copies that are still on their way are not counted.
HoldingOpen(c) == {p \in Of(c) : pair[p] = "OPEN"}

\* The pairs a Client's limits count.
Holding(c) == {p \in Of(c) : pair[p] \in {"PENDING_OPEN", "OPEN"}}
AtLimit(c) == Cardinality(Holding(c)) >= MaxOpenPairs

\* Gate 2: one OPEN_UI on the line per Client.
OnTheLine(c) == c \in Ui /\ \E p \in Of(c) : order[p] = "LIVE"

Queued(p) == Contains(queue[p[2]], p[1])

\* A row of the queue may be older than an event may be.
TooOld(p, fromQueue) == age[p[1]] = "old" \/ (age[p[1]] = "late" /\ ~fromQueue)

\* Mutant of MustQueue: a free line is taken whoever is waiting.
MustQueueIfBusy(p, fromQueue) == ~fromQueue /\ OnTheLine(p[2])

\* A copy that meets a busy clicker waits, and so does one that would overtake
\* those that are waiting already.
MustQueue(p, fromQueue) ==
    ~fromQueue /\ (OnTheLine(p[2]) \/ (p[2] \in Ui /\ queue[p[2]] # <<>>))

\* Mutant of QueueFull: the queue takes one more.
QueueFullOneMore(c) == Len(queue[c]) > MaxLen

QueueFull(c) == Len(queue[c]) >= MaxLen

Barred(p, fromQueue) ==
    \/ fit[p[2]] = "unfit" \/ TooOld(p, fromQueue) \/ AtLimit(p[2])
    \/ p[2] \in Ui /\ p[2] \notin up
    \/ MustQueue(p, fromQueue) /\ QueueFull(p[2])

\* A mapping that is switched off is only logged. A Client that is, is left out when the
\* copies of an event are begun, and looked at again only when one leaves the queue.
SwitchedOff(p, fromQueue) ==
    fit[p[2]] = "unmapped" \/ (fit[p[2]] = "off" /\ fromQueue)

Verdict(p, fromQueue) ==
    IF pair[p] # "none" THEN "known"
    ELSE IF SwitchedOff(p, fromQueue) THEN "off"
    ELSE IF Barred(p, fromQueue) THEN "alert"
    ELSE IF MustQueue(p, fromQueue) THEN "queue"
    ELSE IF OnTheLine(p[2]) THEN "busy"
    ELSE "open"

Noted(p, why) == [note EXCEPT ![p] = why]

\* One transaction: the pair and its command; then the command is sent.
Create(p) ==
    /\ pair' = [pair EXCEPT ![p] = "PENDING_OPEN"]
    /\ order' = [order EXCEPT ![p] = "LIVE"]
    /\ attempts' = [attempts EXCEPT ![p] = 1]
    /\ hand' = [hand EXCEPT ![p] = "working"]

\* What becomes of a copy the gates do not let through.
Withhold(p, verdict) ==
    /\ note' = IF verdict \in {"alert", "off"} THEN Noted(p, verdict) ELSE note
    /\ UNCHANGED <<pair, order, attempts, hand>>

-----------------------------------------------------------------------------
(* The events of the Master.                                                 *)

Ready == events # <<>> /\ loop = Idle
Event == Head(events)

\* _handle_master_open up to its loop over the Clients that are enabled.
BeginMasterOpen ==
    /\ Ready /\ Event.kind = "master_open"
    /\ LET m == Event.m
           todo == IF mode = "RUNNING" THEN {c \in Clients : fit[c] # "off"} ELSE {}
           \* left over from a handler that a restart has cut off
           rest == {p \in due : p[1] = m /\ p[2] \notin todo /\ pair[p] = "none"
                                /\ note[p] = "none" /\ ~Queued(p)}
       IN /\ book' = [book EXCEPT ![m] = "OPEN"]
          /\ due' = due \cup ({m} \X todo)
          /\ note' = [p \in Copies |-> IF p \notin rest THEN note[p]
                                       ELSE IF mode = "RUNNING" THEN "off" ELSE "restart"]
          /\ IF mode = "RUNNING"
             THEN loop' = [at |-> "open", m |-> m, todo |-> todo] /\ UNCHANGED events
             ELSE events' = Tail(events) /\ UNCHANGED loop
    /\ UNCHANGED <<market, age, env_vars, pair, bound, wish, order, attempts, shut, hand,
                   queue, asleep, closing, told, upsets>>

OpenFor(c) ==
    /\ loop.at = "open" /\ c \in loop.todo
    /\ LET p == <<loop.m, c>>
           verdict == Verdict(p, FALSE)
       IN /\ queue' = IF verdict = "queue" /\ ~Queued(p)
                      THEN [queue EXCEPT ![c] = Append(@, loop.m)] ELSE queue
          /\ IF verdict = "open" THEN Create(p) /\ UNCHANGED note ELSE Withhold(p, verdict)
    /\ loop' = [loop EXCEPT !.todo = @ \ {c}]
    /\ UNCHANGED <<market, age, events, env_vars, book, bound, wish, shut, asleep, closing,
                   due, told, upsets>>

\* mark_event_processed.
EndMasterOpen ==
    /\ loop.at = "open" /\ loop.todo = {}
    /\ events' = Tail(events) /\ loop' = Idle
    /\ UNCHANGED <<market, age, env_vars, book_vars, shut, hand, queue, asleep, closing,
                   due, note, told, upsets>>

\* on_master_close and _close_pair_fully: a pair whose position is not known yet
\* keeps the wish. What the bot has caused goes no further.
OnMasterClose ==
    /\ Ready /\ Event.kind = "master_close"
    /\ LET mine == {p \in Copies : p[1] = Event.m}
           pending == {p \in mine : Waiting(p)}
       IN /\ book' = [book EXCEPT ![Event.m] = "CLOSED"]
          /\ IF Event.byBot THEN UNCHANGED <<pair, wish, told>>
             ELSE /\ pair' = [p \in Copies |-> IF p \in mine /\ pair[p] = "OPEN"
                                               THEN "CLOSED" ELSE pair[p]]
                  /\ wish' = wish \cup pending
                  /\ told' = told \cup pending
    /\ events' = Tail(events)
    /\ UNCHANGED <<market, age, env_vars, bound, order, attempts, shut, hand, queue, asleep,
                   loop, closing, due, note, upsets>>

-----------------------------------------------------------------------------
(* The queue: _bom_hang_doi_ui.                                              *)

\* Outside RUNNING what waits is thrown away.
PurgeQueue ==
    /\ loop = Idle /\ queue # EmptyQueue /\ mode # "RUNNING"
    /\ note' = [p \in Copies |-> IF Queued(p) /\ pair[p] = "none"
                                 THEN (IF mode = "RESTARTED" THEN "restart" ELSE "mode")
                                 ELSE note[p]]
    /\ queue' = EmptyQueue
    /\ UNCHANGED <<market, age, events, env_vars, book_vars, shut, hand, asleep, loop, closing,
                   due, told, upsets>>

\* da_bom: the Clients that have had their turn in this round.
BeginPump ==
    /\ loop = Idle /\ queue # EmptyQueue /\ mode = "RUNNING"
    /\ loop' = [at |-> "pump", had |-> {}]
    /\ UNCHANGED <<market, age, events, env_vars, book_vars, shut, hand, queue, asleep,
                   closing, due, note, told, upsets>>

\* No copy has two rows.
Drop(p) ==
    \E i \in 1 .. Len(queue[p[2]]) :
        queue[p[2]][i] = p[1] /\ queue' = [queue EXCEPT ![p[2]] = RemoveAt(@, i)]
Expired(p) == age[p[1]] = "old"
Gone(p) == ~Expired(p) /\ book[p[1]] # "OPEN"
Turn(p) == ~Expired(p) /\ ~Gone(p) /\ Head(queue[p[2]]) = p[1] /\ p[2] \notin loop.had

\* The row is deleted first, the alert is a second transaction.
DropExpired(p) ==
    /\ loop.at = "pump" /\ Queued(p) /\ Expired(p)
    /\ Drop(p)
    /\ loop' = [at |-> "expired", p |-> p, had |-> loop.had]
    /\ UNCHANGED <<market, age, events, env_vars, book_vars, shut, hand, asleep, closing,
                   due, note, told, upsets>>

TellExpired ==
    /\ loop.at = "expired"
    /\ note' = Noted(loop.p, "alert")
    /\ loop' = [at |-> "pump", had |-> loop.had]
    /\ UNCHANGED <<market, age, events, env_vars, book_vars, shut, hand, queue, asleep,
                   closing, due, told, upsets>>

DropGone(p) ==
    /\ loop.at = "pump" /\ Queued(p) /\ Gone(p)
    /\ Drop(p)
    /\ note' = Noted(p, "gone")
    /\ UNCHANGED <<market, age, events, env_vars, book_vars, shut, hand, asleep, loop, closing,
                   due, told, upsets>>

\* Mutant of KeepsPlace: a row whose turn has come is deleted.
KeepsNoPlace(verdict) == verdict = "open"

\* UI_BAN: something else has taken the line since the last round.
KeepsPlace(verdict) == verdict \in {"open", "busy"}

\* The first row of a Client. A busy line leaves it where it is; a pair that was
\* made is sent before its row goes.
PumpRow(p) ==
    /\ loop.at = "pump" /\ Queued(p) /\ Turn(p)
    /\ LET verdict == Verdict(p, TRUE)
           had == loop.had \cup {p[2]}
       IN \/ /\ verdict = "open"
             /\ Create(p)
             /\ loop' = [at |-> "sent", p |-> p, had |-> had]
             /\ UNCHANGED <<queue, note>>
          \/ /\ verdict # "open"
             /\ Withhold(p, verdict)
             /\ IF KeepsPlace(verdict) THEN UNCHANGED queue ELSE Drop(p)
             /\ loop' = [loop EXCEPT !.had = had]
    /\ UNCHANGED <<market, age, events, env_vars, book, bound, wish, shut, asleep, closing,
                   due, told, upsets>>

DropSent ==
    /\ loop.at = "sent"
    /\ Drop(loop.p)
    /\ loop' = [at |-> "pump", had |-> loop.had]
    /\ UNCHANGED <<market, age, events, env_vars, book_vars, shut, hand, asleep, closing,
                   due, note, told, upsets>>

EndPump ==
    /\ loop.at = "pump"
    /\ \A p \in Copies : Queued(p) => ~Expired(p) /\ ~Gone(p) /\ ~Turn(p)
    /\ loop' = Idle
    /\ UNCHANGED <<market, age, events, env_vars, book_vars, shut, hand, queue, asleep,
                   closing, due, note, told, upsets>>

-----------------------------------------------------------------------------
(* The events of a Client: _correlate_client_open.                           *)

Mates(c) == {p \in Of(c) : c \in Ui /\ Waiting(p)}              \* _open_ui_dang_cho
Candidates(e) == {p \in Mates(e.c) : <<p, attempts[p]>> \notin e.late}

\* A tag is never guessed past: the position belongs to the pair that has it.
Tagged(e) == {p \in Candidates(e) : e.tagged /\ p = e.owner}
\* Mutant of Guessed: a tag whose pair is not a candidate is taken for none.
GuessedPastTag(e) ==
    IF Match = "HEURISTIC" /\ Cardinality(Candidates(e)) = 1
                           /\ Cardinality(Mates(e.c)) = 1
    THEN Candidates(e) ELSE {}

Guessed(e) ==
    IF Match = "HEURISTIC" /\ ~e.tagged /\ Cardinality(Candidates(e)) = 1
                           /\ Cardinality(Mates(e.c)) = 1
    THEN Candidates(e) ELSE {}
Owners(e) == IF Tagged(e) # {} THEN Tagged(e) ELSE Guessed(e)

\* _bind, and _flush_deferred_close for a pair whose Master has closed meanwhile.
OnClientOpen ==
    /\ Ready /\ Event.kind = "client_open"
    /\ \/ /\ Owners(Event) = {}
          /\ UNCHANGED <<pair, bound, told>>
       \/ \E p \in Owners(Event) :
             /\ pair' = [pair EXCEPT ![p] = IF p \in wish THEN "CLOSED" ELSE "OPEN"]
             /\ bound' = [bound EXCEPT ![p] = Event.owner]
             /\ told' = told \ {p}
    /\ events' = Tail(events)
    /\ UNCHANGED <<market, age, env_vars, book, wish, order, attempts, shut, hand, queue,
                   asleep, loop, closing, due, note, upsets>>

-----------------------------------------------------------------------------
(* The answers, which tasks of the server handle at any time.                *)

\* _apply_open_fail_policy.
Fail(p) ==
    /\ pair' = [pair EXCEPT ![p] = "OPEN_FAILED"]
    /\ told' = told \ {p}
    /\ closing' = IF p[2] \in Policies THEN closing \cup {p[1]} ELSE closing
    /\ UNCHANGED <<bound, asleep>>

Refused(p) ==
    \/ /\ attempts[p] <= MaxRetry
       /\ asleep' = asleep \cup {p}
       /\ UNCHANGED <<pair, bound, told, closing>>
    \/ /\ attempts[p] > MaxRetry
       /\ Fail(p)

Tell(p) == told' = told \cup {p} /\ UNCHANGED <<pair, bound, asleep, closing>>
Nothing == UNCHANGED <<pair, bound, asleep, closing, told>>

\* _on_ui_ack: `ok` says that it has pressed and not which position came of it;
\* `rejected` alone proves that it has not. The clicker's "failed" proves nothing.
UiAnswer(p) ==
    \/ hand[p] = "pressed" /\ Nothing
    \/ Tell(p) \/ Fail(p)
    \/ hand[p] = "working" /\ Refused(p)

\* on_command_acked for an EA. An answer `unknown` is only logged.
EaAnswer(p) ==
    \/ /\ pair' = [pair EXCEPT ![p] = "OPEN"]
       /\ bound' = [bound EXCEPT ![p] = p]
       /\ told' = told \ {p}
       /\ UNCHANGED <<asleep, closing>>
    \/ Nothing
    \/ Refused(p)
    \/ Fail(p)

\* An answer may come after the deadline; a pair that no longer waits ignores it.
OnAck(p) ==
    /\ hand[p] \in {"working", "pressed"}
    /\ order' = [order EXCEPT ![p] = "DONE"]
    /\ hand' = [hand EXCEPT ![p] = "answered"]
    /\ IF ~Waiting(p) THEN Nothing ELSE IF p[2] \in Ui THEN UiAnswer(p) ELSE EaAnswer(p)
    /\ UNCHANGED <<market, age, events, env_vars, book, wish, attempts, shut, queue, loop,
                   due, note, upsets>>

\* _retry_open: whatever run_mode, the Master and the line are by now.
RetryOpen(p) ==
    /\ p \in asleep
    /\ asleep' = asleep \ {p}
    /\ IF Waiting(p)
       THEN /\ order' = [order EXCEPT ![p] = "LIVE"]
            /\ attempts' = [attempts EXCEPT ![p] = @ + 1]
            /\ hand' = [hand EXCEPT ![p] = "working"]
            /\ shut' = shut \ {p}
       ELSE UNCHANGED <<order, attempts, hand, shut>>
    /\ UNCHANGED <<market, age, events, env_vars, book, pair, bound, wish, queue, loop, closing,
                   due, note, told, upsets>>

-----------------------------------------------------------------------------
(* Deadlines and restarts.                                                   *)

\* on_command_timeout, for a command that was sent and for one that never was:
\* a clicker's silence does not mean that it has not pressed. No deadline is shorter
\* than what makes an event late.
OnTimeout(p) ==
    /\ loop = Idle /\ order[p] = "LIVE" /\ age[p[1]] # "fresh"
    /\ order' = [order EXCEPT ![p] = "DONE"]
    /\ pair' = [pair EXCEPT ![p] = IF Waiting(p) /\ p[2] \notin Ui THEN "OPEN_FAILED" ELSE @]
    /\ told' = IF Waiting(p) /\ p[2] \in Ui THEN told \cup {p} ELSE told \ {p}
    /\ UNCHANGED <<market, age, events, env_vars, book, bound, wish, attempts, shut, hand,
                   queue, asleep, loop, closing, due, note, upsets>>

\* Mutant of Stale: only a pair that has never been retried is looked at.
StaleFirst(p) == p \in shut /\ attempts[p] = 1

Stale(p) == p \in shut \/ attempts[p] > 1

\* scan_correlation_deadlines, which looks at every command of the pair.
ScanCorrelation(p) ==
    /\ loop = Idle /\ p[2] \in Ui /\ Waiting(p)
    /\ Stale(p)
    /\ told' = told \cup {p}
    /\ UNCHANGED <<market, age, events, env_vars, book_vars, shut, hand, queue, asleep, loop,
                   closing, due, note, upsets>>

\* Mutant of Reclaimed: the event was marked when it was claimed.
ReclaimedMarked == IF loop.at = "open" THEN Tail(events) ELSE events

\* claim_next_pending_event only chooses a row: what was being handled is PENDING still.
Reclaimed == events

\* The event being handled stays PENDING; the retries are forgotten; ep_ve_paused.
Restart ==
    /\ upsets < MaxUpsets /\ upsets' = upsets + 1
    /\ loop' = Idle /\ asleep' = {} /\ events' = Reclaimed
    /\ mode' = IF mode = "RUNNING" THEN "RESTARTED" ELSE mode
    /\ note' = IF loop.at = "expired" THEN Noted(loop.p, "restart") ELSE note
    /\ UNCHANGED <<market, age, fit, up, book_vars, shut, hand, queue,
                   closing, due, told>>

-----------------------------------------------------------------------------
EnvNext ==
    \/ \E m \in Masters : MasterOpens(m) \/ \E b \in BOOLEAN : MasterCloses(m, b)
    \/ \E c \in Clients : HandOpens(c)
    \/ \E p \in Copies : Press(p) \/ WindowShuts(p)
    \/ GrowOlder \/ Switch \/ Resume

Pump ==
    \/ PurgeQueue \/ BeginPump \/ TellExpired \/ DropSent \/ EndPump
    \/ \E p \in Copies : DropExpired(p) \/ DropGone(p) \/ PumpRow(p)

Handle ==
    \/ BeginMasterOpen \/ EndMasterOpen \/ OnMasterClose \/ OnClientOpen
    \/ \E c \in Clients : OpenFor(c)

Scan == \E p \in Copies : OnTimeout(p) \/ ScanCorrelation(p)

Next ==
    \/ EnvNext \/ Pump \/ Handle \/ Scan \/ Restart
    \/ \E p \in Copies : OnAck(p) \/ RetryOpen(p)

Spec == Init /\ [][Next]_vars

\* The loop goes round, deadlines are scanned each second, time passes. Nothing is
\* assumed of an agent, of a Master or of a person.
Fairness ==
    /\ WF_vars(Handle) /\ SF_vars(Pump) /\ WF_vars(GrowOlder)
    /\ \A p \in Copies : SF_vars(OnTimeout(p)) /\ SF_vars(ScanCorrelation(p)) /\ WF_vars(WindowShuts(p))

FairSpec == Spec /\ Fairness

-----------------------------------------------------------------------------
(* Correctness.                                                              *)

\* Types, and the limits of the queue and of the retries.
TypeOK ==
    /\ market \in [Masters -> {"idle", "open", "closed"}]
    /\ age \in [Masters -> {"fresh", "late", "old"}]
    /\ mode \in {"RUNNING", "PAUSED", "RESTARTED"}
    /\ book \in [Masters -> {"none", "OPEN", "CLOSED"}]
    /\ pair \in [Copies -> {"none", "PENDING_OPEN", "OPEN", "OPEN_FAILED", "CLOSED"}]
    /\ order \in [Copies -> {"none", "LIVE", "DONE"}]
    /\ attempts \in [Copies -> 0 .. MaxRetry + 1]
    /\ queue \in [Clients -> Seq(Masters)]
    /\ \A c \in Clients : IsInjective(queue[c]) /\ Len(queue[c]) <= MaxLen
    /\ bound \in [Copies -> Copies \cup {Hand, Unbound}]
    /\ note \in [Copies -> {"none", "alert", "off", "mode", "gone", "restart"}]
    /\ {wish, shut, asleep, due, told} \subseteq SUBSET Copies

\* No copy the Bridge has set out to make is lost in silence: there is a pair, it
\* waits, or the reason why not is an alert, a Client or its mapping switched off, a
\* Master that has closed, a change of run_mode or a restart. The gates, the queue, the rounds
\* of the pump and the second handling of an event all have a part in it.
InHand(p) ==
    \/ \E i \in 1 .. Len(events) : events[i] = [kind |-> "master_open", m |-> p[1]]
    \/ loop.at \in {"expired", "sent"} /\ loop.p = p
CopyAccounted ==
    \A p \in due : pair[p] # "none" \/ Queued(p) \/ note[p] # "none" \/ InHand(p)

\* max_open_pairs holds of every Client at any time, whatever the route and
\* however many copies are on their way (the gate and the INSERT are apart).
PairsWithinLimit ==
    \A c \in Clients : Cardinality({p \in Of(c) : pair[p] \in {"PENDING_OPEN", "OPEN"}}) <= MaxOpenPairs

\* The clicker's copies of a Client are made in the order in which they came to
\* wait (D-31): none is made while another has been waiting longer.
FifoPerClient ==
    [][\A p \in Copies : p[2] \in Ui /\ pair[p] = "none" /\ pair'[p] # "none" =>
          queue[p[2]] = <<>> \/ Head(queue[p[2]]) = p[1]]_vars

\* A position that carries a tag, and with STRICT any position, is bound to no pair
\* but its own: commands and windows that are over, pairs written off while their
\* position was being opened and positions opened by hand notwithstanding
\* (_heuristic_match, processor.py:1028).
BoundToOwn ==
    [][\A p \in Copies : p[2] \in Ui /\ bound'[p] # bound[p] /\ (Event.tagged \/ Match = "STRICT")
          => bound'[p] = p]_vars

\* A clicker's pair that stays PENDING_OPEN is the subject of an alert in the end,
\* even if a restart has forgotten its retry.
PendingIsTold ==
    \A p \in Masters \X Ui : Waiting(p) ~> ~Waiting(p) \/ p \in told

\* plan/07-dong-lenh.md:104: a pair whose Master has closed while it was being opened
\* is closed as soon as its position is known.
WishIsKept == \A p \in wish : pair[p] # "OPEN"
=============================================================================
