# TLA+ models of the copy-trade bridge

The repository copies the trades of one MetaTrader account (the **Master**) to
others (the **Clients**). These modules model the parts of it in which the
order of steps, crashes and lost messages decide whether money is lost, check
them with TLC and prove the most important facts with TLAPS.

## 1. The system

| Part | Code | State | What it does |
|---|---|---|---|
| EA agents (Master, Client) | `ea/CopyBridgeCommon.mqh`, `CopyBridgeMaster.mq5`, `CopyBridgeClient.mq5` | sequence number, outbox file, state file, journal of commands | turn trades into numbered events, resend what the Bridge lacks, execute commands once |
| Bridge server | `bridge/protocol/server.py` | connections (memory); `agent`, `event`, `alert` (SQLite) | handshake, dedup, gap detection, acks, heartbeats |
| Dispatcher | `bridge/protocol/dispatcher.py` | `command` | sends, flushes at reconnection, cancels or times out commands |
| Event processor, open flow | `bridge/engine/processor.py` | `master_position`, `pair`, `ui_open_queue`; retry tasks and deferred closes (memory) | copies an open, queues what the UI cannot take yet, correlates the position that appears |
| Close flow | `bridge/engine/closing.py` | `pair`, cascade tasks (memory) | follows closes in both directions, cascades, emergency |
| Reconciliation | `bridge/engine/reconcile.py` | `finding` | compares the books with snapshots, repairs what a person accepts |
| Lot sizing | `bridge/engine/sizing.py` | none | the Client's volume from the Master's |
| Clicker | `clicker/link.py`, `journal.py`, `ui/` | journal file; remembered rows (memory) | executes commands by pressing the terminal's buttons, so that the deal carries reason CLIENT |
| Agent presence | `server.py` (handshake, heartbeats) | `agent.status` | ONLINE, DEGRADED, OFFLINE; not modelled as such, its status is an input of the gates |
| Housekeeping, dashboard, installation | `ops.py`, `retention.py`, `alerting.py`, `watchdog.py`, `web/`, `admin.py`, `scripts/` | backups, archives | not modelled, except what putting a backup back does to the event stream and what a person may do with a finding |

How they interact: agents hold one TCP connection each to the Bridge; the
Bridge is one asyncio loop over one SQLite file, so its handlers interleave
only at an `await`; commands and events are rows first and messages second. The
clicker and the EA of one Client act on the same terminal without knowing of
each other: the Bridge correlates what the one did with what the other sees.

What makes each part correct:

* **Event stream**: every trade the EA has numbered is in the table once, or an
  alert names its number; the EA keeps what the Bridge lacks; events of an
  agent are processed in order.
* **Command delivery**: a command runs at most once, whatever is resent; the
  books say OPEN only of a position that exists; one attempt at a time; a
  timeout is never retried; every pair is settled in the end.
* **Open flow**: no copy the Bridge set out to make disappears without a reason
  somebody can read; the limit of pairs holds whatever is on its way; a
  position belongs to the pair whose tag it carries; a Client's queue keeps its
  order; a pair that waits is told of.
* **Close flow**: a close the bot caused never cascades; the Clients follow the
  Master only once it is known to be closed; no Client position stays open
  beside a closed Master without an alarm.
* **Reconciliation**: whatever is wrong is found once the snapshots are true; an
  accepted finding never revives a pair that has been settled.
* **Sizing**: a volume that is a multiple of the step and inside every limit,
  the nominal one to a step; a Client never left smaller than its Master.
* **Clicker**: the right button, once; no answer that denies a press; a live
  position is not called closed.

## 2. Modules

| Module | Models | Proofs |
|---|---|---|
| `EventStream` | the event stream of one agent | `EventStreamProofs` |
| `CommandDelivery` | the delivery of OPEN commands to one agent | `CommandDeliveryProofs` |
| `OpenOnce` | what a user is promised about opening trades: the abstract specification `CommandDelivery` implements | |
| `OpenFlow` | from a Master's open to a bound copy | `OpenFlowProofs` |
| `CloseFlow` | how the two legs of a hedge are taken down | `CloseFlowProofs`, `CloseFlowHedgeProofs` |
| `Hedge` | what a user is promised about closing trades: the abstract specification `CloseFlow` implements | |
| `Reconcile` | a round of reconciliation and what a person does with its findings | `ReconcileProofs` |
| `ClickerUi` | a program that opens and closes positions by working windows | `ClickerUiProofs` |
| `Sizing` | `compute_client_volume` and the share of a partial close, as operators | |
| `HedgeVolume` | the volumes of the two legs of one pair, built from `Sizing` | `HedgeVolumeProofs` |
| `MC*` | the modules TLC runs, with symmetry where it is sound | |

### EventStream

The EA's `SendEvent` is three actions, one per write: `AppendOutbox`
(outbox file), `SaveState` (state file) and `SendLine` (socket). `ResendFrom`
is a loop over the file and takes one action per line. `HandleLine` is
`RecvHelloAck` and `RecvResend`. The Bridge's `_handshake` is `RecvHello`;
`_handle_event` is four actions by its branches: `RecvOld`, `RecvNext`,
`RecvAhead` and, when the third request for the same hole has not helped,
`SkipGap` followed by `ReportGap`, the two transactions of `_accept_gap`.
`ProcessEvent` is the claim and the closing of the oldest row. Faults: a
broken link, a death of the terminal between or inside its writes, a crash of
the Bridge, one between `record_event` and the advance of `last_seq`, and a
restored backup.

The EA's files are not written atomically. `EaCrash` may leave the state file with the old
number or nothing, and half a line at the end of the outbox (`torn`), which the next
append completes to a line nobody can read. `CrashInTrim` is a death inside
`TrimOutbox`: `CbFileWriteLines` has emptied the file and written the first few of the
lines it keeps. `lost` is history: the trades whose lines have gone that way.
`Welcome` is the connection a hello sets up: `LineBuffer.feed` returns all lines of the
chunk, `_handshake` leaves its loop at the hello, so any number of the lines behind it
may be dropped although the link stands (`conn.dropped`, history).

An event is its number and the number of the trade that raised it, a message
is a record. Timestamps, payloads and heartbeats are left out. `SocketSend`
succeeds into a dead link, so a message can be lost while both sides believe
they are connected.

### CommandDelivery

A command is `<<pair, attempt>>`. `OpenPair` is the transaction of
`_open_for_client` that writes a pair and its command. Sending is `WriteCommand`
(bytes out), then `MarkSent` (row marked), so a crash can fall between them;
`LeavePending` is the send that finds no connection; a reconnection
(`Connect`) puts every PENDING row in `todo`, where `CancelExpired` takes those
whose deadline has passed. `RecvAck` is `mark_command_acked`, and one of the `Judge*`
actions is what `on_command_acked` or `on_command_timeout` makes of the result. The agent reserves a
command in its journal (`Reserve`), acts (`OpenPosition`, `OpenNothing`,
`Refuse`), answers and writes the answer down, in an order that depends on its
`Kind`; a command it already knows is answered from the journal (`AnswerAgain`).

The Bridge's handlers do not interleave here: `drain()` yields only above the
high-water mark of a socket that carries a few hundred bytes. `BridgeIdle`
says so. A crash may fall between any two transactions or writes.

### CloseFlow

One Master position, each copy a pair of it with a Client. A *leg* is the
position at one broker. Every handler of `closing.py` is one action, named for
what it hears: `HearMaster*` are the branches of `on_master_close`, `HearClient*`,
`HearOwnClose` and `HearCascade` those of `on_client_close`, `Ack*` those of
`on_close_acked`; `HearOpened` is `_bind` with the `_flush_deferred_close` that
follows it. What yields is an action per resumption: the cascade task
(`CascadeOn`, `CascadeGiveUp`) and the emergency (`EmergencyClients`,
`EmergencyMaster`). `CloseFully` is `_close_pair_fully`, used by four of them.

The two correlators (`_ai_gay_ra`, `_ai_gay_ra_master`) decide by time whether
a close is the bot's own. The clock is replaced by a choice: an event may be
claimed by any clicker's order for the leg and must be by one that is in
flight; an event of the bot that comes after the window is a fault (`late`).
Likewise an EA may put a deal down to an earlier command (`CausesFor`, ten
seconds in `CauseFor`).

`SetMode` is a person at the dashboard or the admin CLI: any mode at any moment,
out of EMERGENCY as well, after which `check_emergency` is ready for another
(`Rearm`). PAUSE_NEW_ENTRIES is RUNNING to the close flow. `BridgeCrash` comes back
PAUSED whatever the mode was (`ep_ve_paused`) and without its tasks.

`told`, `passedOver`, `handClosed` and `unfollowed` are history: which legs an
alert has named, which pairs a close was dropped for, what a person closed and
which closes by hand were taken for a command's doing or heard while PAUSED. A clicker's `ok` (the dialog has gone
after the press) is taken to mean that the order was filled. Not in this
module: an OPEN that times out or is retried (`CommandDelivery`), the policy
`RETRY_CLOSE_MASTER`, positions that belong to no pair.

`Hedge` is the same system as a user sees it: positions, what a person did to
them, `run_mode`, and `due`, what the Bridge has decided to close and on whose
account (`close_source`); no orders, no answers, no events. A position falls
because a person closed it (`CloseByHand`), or because its close is due
(`ClientFollows`, `MasterFollows`). `Decide` is the only step that makes a close due,
and only for a cause that holds at that moment (`Causes`): a Client's because the Master's
position fell, the Master's and then the other Clients' because a person closed a Client that may
close the Master or a deal came too late to tell whose it was, each only while the mode is not PAUSED; every
leg in an EMERGENCY. The mode may change afterwards (`SetMode`, `Restart`): an order sent
while RUNNING is filled while PAUSED, which is what the code does and the user has to know.
What is due may be forgotten but does not come back by itself.
The refinement mapping (`H`, at the end of `CloseFlow`) takes `lots`, `handClosed` and `mode` as
they are; `hand` is the count of closes by hand, `opening` the Clients whose
order to open is unanswered (`Opening`), `late` says that a bot's deal was
heard after its window, and `due` is gathered from the orders an agent may still carry
out or refuse, the deferred closes, the cascades and the second half of an emergency (`Due`). `hand` is in the specification so that a deal of the bot can
never pass for a person's. `ClosedForCause` says that `CloseFlow` implements it.

### OpenFlow

One loop (`EventProcessor._loop`) works through the events in the order of
their rows, then pumps the queue, then scans deadlines. It gives way only while
it sends a command, so the handlers that send are cut there and `loop` says
where: `BeginMasterOpen`, `OpenFor` (one Client of `_handle_master_open`),
`EndMasterOpen`; `BeginPump`, `PumpRow`, `DropSent`, `DropExpired`,
`TellExpired`, `DropGone`, `EndPump`. The server's tasks come in between: `OnAck` is
`on_command_acked` with `_on_ui_ack`, `RetryOpen` the task that slept.
`Verdict` is the gates of `_open_for_client` in their order; a mapping that is
switched off, and of the queue a Client that is, ends in a log line and no alert (`SwitchedOff`). `OnClientOpen` is
`_correlate_client_open` and `_bind`, with the candidates and the windows as they were when the event
was received. `queue` is the table `ui_open_queue` read per Client in the order of
`queue_id` (`list_hang_doi_ui`): no code looks at the order of two Clients' rows. `Restart` forgets the tasks, leaves the event PENDING and falls back to
PAUSED (`ep_ve_paused`).

Ages come in three classes: `fresh`, `late` for `max_event_age_ms`, `old` for
the queue too. No deadline is shorter than the first: an EA's is
`max_event_age_ms` or more, a clicker's 15 seconds unless configured otherwise. A command is LIVE until it is answered or past its deadline, which is
`CommandDelivery`'s subject; the close of a pair whose position is known is
`CloseFlow`'s. Prices, symbols and messages are left out, and the volume is
`Sizing`'s. `due`, `note` and `told` are history.

### Reconcile

`run()` is a round: `BeginRound`, then `AskClient` and `HaveClient` for one Client after
another, then `Compare`, which never gives way and is one step. Trading goes on
meanwhile (`Trading` is a coarse view of `OpenFlow` and `CloseFlow`: a pair has
one command on its way, whose answer can be lost), and a snapshot can have been
on its way when the round began. `FromLive`, `FromPending`, `FromOrphan`,
`FromOdd`, `FromMaster` and `FromClients` are the `_soi_*` methods. `Accept`
and `Skip` are the dashboard's; what would send a command is refused there
(D-34), so nothing here sends one.

### ClickerUi

The terminal cannot be asked anything. `Deliver` is a double-click it takes,
perhaps late, `Vanish`, `Sweep` and `Appear` move the rows. `excuses` is a
history variable: what has happened that the driver cannot notice
(`LastRowOpened` in `Sweep` is one). The driver's side follows
`close()` and `open()`: `StartClose` (canary, number of rows, a
dialog left over is closed), `PickClose` (`timdong.PhepDo`: the remembered row,
halving by the tickets read, one by one), `Click`, `See*`, `OtherRow`,
`RightRow`, `Conclude`, then `Fill`, `Check` (`_commit`, `_commit_close`),
`Mark`, `Press`, `Pressed`. `Take`, `Again` and `Refuse` are the link and the
journal, `Breaks` an exception and `Crash` a death anywhere. What the terminal
does of its own (`shown`, `dialog`, `clicks`) is modelled from how `win32.py` is
used. A dialog has the text of its volume field (`text`) and the volume the terminal will
use (`volume`): driver.py:3-12 says that they can differ, and a terminal that is `"deaf"` takes typing for
text only. A close shows the second on its button (`ReadBackClose`), unless this broker's
`"caption"` cannot be read, to which `lech_nut_dong` does not object; of an open only
the text can be compared (`ReadBackOpen`), and its symbol is read before
typing and not again (`OtherSymbol`). `moved` says that a late click has changed
the dialog since something was typed. `MayHappen` names the mishaps: a dialog `late`, one that cannot be
`unread`, a volume box with what was typed before (`leftover`), a click that is
`hung`, and so on.

### Sizing, HedgeVolume

Python's `Decimal` keeps 28 digits and rounds half to even; `Fit`, `Times` and
`Quot` do the same with `Digits` digits, so that a quotient that is not exact
is cut here as it is there. `Ten` is a recursive function and the exponents come from
bounded CHOOSEs, so that the module can be proved about. `HedgeVolume` opens a pair
and lets the Master close any part any number of times (`MasterClosesPart`). The Master's
volume is written down first; then an order for the Client's share is sent by the EA or
the clicker, or not at all (a command in flight, a share that rounds to nothing, an
order that cannot be sent). `clots` is the volume in the book and `held` what the broker
has. They part when an order is filled: an EA's answer carries the volume and moves the book
(`Acked`), a clicker's carries none and the book waits for the event (`news`, `HearOfClose`), and of an order
that ends `unknown` or in a timeout the book learns nothing (`Unanswered`). What a clicker rejects
goes to the EA as it is (`FallBack`). `blind` is history: a share was taken of a book that
had a close still to hear of.

## 3. What TLC checks

| Run | Instance | States | Shows |
|---|---|---|---|
| `EventStream_safety` | 3 trades; two deaths of the EA; one break, Bridge crash, restore | 2.1 M | `TypeOK`, `NoSilentLoss`, `OwedIsKept`, `RecordedOnce`, `LastSeqAccounted` |
| `EventStream_live` | 4 trades; one break and one crash of each | 725 k | `EventuallyAccounted` |
| `CommandDelivery_ea` | 2 pairs, 1 retry, an EA; one fault of each kind | 1.6 M | `TypeOK`, `AtMostOnce`, `OpenHasPosition`, `WriteOffHasReason`, `OneAttemptInFlight`, `NoRetryAfterTimeout`, `PromiseKept` |
| `CommandDelivery_clicker` | the same with a clicker | 2.5 M | `PromiseKept`, which contains `AtMostOnce` |
| `CommandDelivery_live` | 1 pair, 2 retries, an EA; one break, one agent crash | 8 k | `CancelledNeverRan`, `EventuallySettled` |
| `OpenFlow_safety` | 3 Master positions, one clicker Client, a queue of 1, 2 pairs at most, guessing allowed; one upset | 3.0 M | `TypeOK`, `CopyAccounted`, `PairsWithinLimit`, `BoundToOwn`, `FifoPerClient` |
| `OpenFlow_live` | 1 Master position, an EA Client and a clicker Client, 1 retry, tags only; one upset | 63 k | `CopyAccounted`, `PendingIsTold` |
| `OpenFlow_wish` | 1 Master position, an EA Client | | violation of `WishIsKept` |
| `CloseFlow_safety` | an EA Client and a clicker Client, 2 lots each; 1 close by hand, 1 fault of any kind, the mode switched; 2 upsets at most | 1.4 M | `TypeOK`, `OneCloseInFlight`, `ClosedIsFlat`, `NoFalseCascade`, `CascadeWaitsForMaster`, `NoSilentNakedLeg`, `ClosedForCause` |
| `Reconcile` | 1 Master position, 2 Clients, one of them tagged; 2 rounds, 1 upset | 4.9 M | `TypeOK`, `AllIsFound`, `SettledStaysSettled` |
| `ClickerUi_safety` | 2 positions and a third to come, 2 symbols, 4 commands; any 2 mishaps | 5.5 M | `PressedIsRight`, `UntouchedIsTrue`, `ClosedUnlessFooled` |
| `HedgeVolume` | volumes to 0.06 lots with 4 multipliers, contract sizes unknown, equal and 1:3, 4 steps, limits; to 0.12 lots with fewer of each | 2.9 M | `TypeOK`, `OrderIsAllowed`, `OpenIsNominal`, `NeverOverClosed` |

**Bounds.** In `EventStream` a hole is skipped when `MAX_RESEND_ATTEMPTS` requests have not
filled it. With four trades a lost link is enough: the hello asks for the missing first event and the
three that follow exhaust the requests. With three it takes a line that is in no file any
more: each request brings the other two again. Two deaths of the terminal are one that
leaves half a line or half a file and one that happens to the terminal that has found it;
otherwise one fault of each kind already covers a crash during the recovery from
another. Two pairs with one retry each give two commands of
one pair and commands of two pairs on the same link; the third attempt appears
in the liveness run.

In `OpenFlow` three Master positions are one on the line, one in the queue and
one that finds it full; two pairs at most make the third meet the limit. An
upset is a restart, a switch of `run_mode`, of a Client or of a clicker, a
position closed or opened by hand, or a lost tag: one of them meets every order of the
rest. The run with a retry has an EA Client beside the clicker's, so that one
event has two copies between which a restart falls.

In `CloseFlow` two lots are what a partial close needs, and two
Clients are what a cascade needs; the Client that may close the Master goes
through a clicker, where the correlator matters, and each copy may still be
opening. The close by hand may meet an emergency, a fallback, a lost clicker and a mode that is
switched and switched back. An upset is a fault (`MaxFaults`) or a switch of the mode;
`MaxUpsets = 2` admits two switches, or one beside a fault.
With four lots and two closes by hand TLC finds the partial close that was all
(divergences below): `CloseFlow_safety` is too small to meet it, the theorem is not.

In `Reconcile` the second round is what a pending finding can suppress
something in; two Clients give snapshots of different ages. In `ClickerUi` two rows
and one that belongs to nothing let the search remember, halve and scan; a
third position shifts them; two mishaps are what it takes to deceive it (a click that hung and one that is
late). `Digits = 6` is the least precision at which the volumes of the run are small
against it in the sense of `HedgeAssumption`, as real ones are against 28
digits; a third is still cut, so the roundings are there.

**Fairness.** The EA's timer polls every 100 ms and asyncio runs every ready
task, so weak fairness is assumed of what the two programs do, of deadlines
passing, and of the Bridge noticing a dead peer. Nothing forces a trade, a break or a
crash, and no fairness is assumed of the environment's kindness. In `OpenFlow`
the pump and the scans share a loop with the events, which may be handled in
between without end: they get strong fairness, for the loop comes round to them each
second. An agent that never answers, and a Master that never closes, are
allowed. `CloseFlow`, `Reconcile` and `ClickerUi` state safety only.

Deadlock is not checked: a system with no more trades and no faults left stops.

**What the properties leave out on purpose.** `NoSilentNakedLeg` excuses the
legs the code is known to let pass (`Excused`: a close dropped with a log line, a close by
hand taken for the bot's or heard while PAUSED, a part that was all there was) and speaks of
runs in which no event and no answer was late or lost and the Bridge has not died (`Smooth`);
the hazards in `PROJECT.json` name each. `OwedIsKept` excepts the lines a death has cut from a file
that was being written (`lost`), `EventuallyAccounted` a trade that nothing sent since could
show to be missing (`Unnoticed`). `NeverOverClosed` speaks of pairs none of whose shares was
taken of a book that had a close still to hear of (`blind`). `PressedIsRight` leaves out the
volumes the code has no way to see (`Unseen`) and an open whose dialog a late click
changed after its symbol was read.
`ClosedUnlessFooled` excuses what the driver cannot notice, each a known
divergence or a position opened during the search. `BoundToOwn` does
not speak of a guess about a position without a tag, which may be wrong.
`AllIsFound` speaks of rounds whose snapshots still hold when they are
compared: of the others nothing can be said.

### Known divergences

`OpenFlow_wish` is the one kept as a run: a pair an EA opens while its Master
closes becomes OPEN and stays so (`findings` in `PROJECT.json`). The following
were met with TLC or while reading, and have no run of their own; properties
that are false because of them are stated under the condition that excludes
them, which the runs and the theorems name.

* *Order of events.* `claim_next_pending_event` (repo.py:586) takes the lowest
  row id. An event that was resent has a higher one than the later event that
  revealed the hole, so a close can be handled before its open; its docstring
  (repo.py:580) says the events of an agent are processed in sequence.
* *A number used twice.* `SendEvent` appends to the outbox and then saves the
  counter (CopyBridgeCommon.mqh:1711). A terminal that dies in between gives the
  number to another trade, which the Bridge drops as a duplicate; the comment
  (1688-1691) expects a harmless duplicate. Hence `CrashMidWrite = FALSE`.
* *An outbox rewritten in place.* `TrimOutbox` (CopyBridgeCommon.mqh:800-823) empties the
  file and writes the kept lines one by one (644-662); a terminal that dies in between has
  lost trades the Bridge never had, although they were written down before they were sent
  (1711). An append that is cut short also costs the next line, which is written behind it (582-600).
  `LoadCommandMemory` (785-794) rewrites the journal of commands in the same way, which
  `CommandDelivery` leaves out.
* *Lines behind a hello.* What came in one chunk with the hello is dropped
  (server.py:271-283, framing.py:52-71). The loss is noticed by the next event or hello and
  the lines are asked for again; until then nothing happens, for the heartbeat carries
  the last number (CopyBridgeCommon.mqh:1669) and the Bridge does not compare it.
* *A silent gap.* `_accept_gap` (server.py:654) commits the new `last_seq`
  before the alert; its docstring (645) says the loss is never silent. Hence
  `CrashMidHandler = FALSE`.
* *A cancelled command that ran.* Its bytes leave before its row is marked
  (dispatcher.py:94), so after a crash `flush_pending` cancels what the agent ran, against
  dispatcher.py:175. `CommandDelivery_live` has no crash of the Bridge.
* *A retry after a timeout.* `on_command_timeout` leaves a clicker's pair in
  PENDING_OPEN, and a late `rejected` retries it (processor.py:912), against
  processor.py:664. `NoRetryAfterTimeout` is checked of an EA.
* *A deferred close dropped.* If the event of a clicker's position overtakes its
  answer, `_flush_deferred_close` finds the pair's own OPEN_UI in flight and
  drops the close (closing.py:247), against plan/07-dong-lenh.md:104.
* *Backups.* Putting a backup back breaks `EventuallyAccounted`: what the EA has
  trimmed is nowhere, and once the Bridge has caught up no hole shows it.
* *Open flow.* A restart purges the queue without an alert (processor.py:802),
  since it starts PAUSED; a retry looks at neither the line, `run_mode` nor the Master;
  `max_total_volume` counts a pair that waits as nothing (processor.py:421); an
  open handled after its close makes `master_position` OPEN again (314);
  `RETRY_CLOSE_MASTER` names only the siblings that are OPEN (635), where
  plan/06-mo-lenh.md:110 wants every consequence seen; an EA's `unknown` is only
  logged (555).
* *Reconciliation.* The snapshots are compared with rows read seconds later
  (reconcile.py:105), so a finding marked SAFE can be false when it is written;
  a waiting pair whose Master is gone is offered as BOTH_CLOSED without a look
  at the Client (307), and accepting it closes the books of a live position,
  against repo.py:479; UNPAIRED_CLIENT is one finding per Client however many
  positions; the untagged position of an EA's closed pair passes for one opened by hand; a
  round holds up the events.
* *A close by hand while PAUSED.* `on_master_close` and `on_client_close` ignore it
  (closing.py:143-160, 353-355), and a switch back to RUNNING (web/app.py:167-175) makes up
  for nothing: the other leg stays open and no alert says so, until a person runs a
  reconciliation. Hence `unfollowed` in `Excused`.
* *Orders outlive their mode.* An order sent while RUNNING, or in an EMERGENCY, is filled
  although the mode is PAUSED by then, by a person or by a start (__main__.py:33-50); and a
  Bridge that dies in an EMERGENCY comes back PAUSED with the second half of it forgotten. Hence
  `due` in `Hedge`: what is promised is the cause at the moment of the decision.
* *A part that was all.* `_close_pair_partially` takes the share of the volume in
  the book (closing.py:301), which is too large while a clicker's partial close
  has been answered and not heard of (898-911: its ack has no volume), after an order that
  ended `unknown` or in a timeout, or after a close by hand that was ignored
  while PAUSED. The Client is then left smaller than the Master, and the part can be all that
  is left: the pair becomes CLOSED, the Master stays
  open and nobody is told. The comment (303) says that too little can be made up for and
  too much cannot, which is why the share is rounded down. Found with four lots and two closes
  by hand; hence `EmptiedInPart` in `Excused`, and `blind` in `HedgeVolume`.
* *Partial closes.* The ratio is a Decimal cut at 28 digits: a third of 0.03
  rounds down to nothing rather than to 0.01 (closing.py:304), so the Client
  keeps a larger share than plan/07-dong-lenh.md:226 says.
* *Clicker.* driver.py:264 says that a late dialog only makes the search
  unclean. It is taken for the next row's, and after the last row nobody looks:
  `already_closed` can be said of a live position. A dialog whose ticket cannot
  be read (driver.py:532) does not make the search unclean either. The open path
  does not wait for the terminal before the press (395), and reads the symbol only before it types (405).
* *What a dialog will do.* driver.py:3-12 says that the text of a field proves nothing
  about the value MT5 uses. An open compares no more than that text (415-420): a terminal
  that keeps its own volume opens the wrong one. A close also compares the number on its
  button, but a caption without a readable one is no objection (dialog.py:275-291): a
  full close in a dialog with a volume left over from before (D-26) then closes a part.
* *Rows that move during a search.* A row that goes is noticed because the last
  row is then missing (driver.py:506). If the last row has been opened already, which a
  stale `_ban_do` can make the first one, the target may move up onto a row
  that has been opened; every row is then found, the search is clean, and
  `already_closed` is said of a live position, where driver.py:598 says that it
  is no longer open. It takes three positions and two
  moves, more than `ClickerUi_safety` has: TLC found it on a larger instance when the
  theorem could not be proved. Hence `"moved up"` in `excuses`.

## 4. What is proved

`EventStreamProofs`, for any number of trades and faults. The invariant is
`TypeInv` (types, and that lines and rows carry the number their trade was
given), `OneRowPerSeq`, `Accounted` (every number up to `last_seq` is a row or reported),
`Increasing` (a later trade has a higher number, which needs that no crash
falls between the EA's two writes) and `AcksBounded` (an acknowledgement on its
way is not above `last_seq`). `NoSilentLoss` follows from the last four: a
number below `last_seq` is accounted for, and only one trade has it. The two
theorems that need it assume `~CrashMidHandler` and `~CrashMidWrite`, and the
divergences above show that they are false without. No theorem assumes that a file is
written in one step or that a chunk holds one line: `lost` and `conn.dropped` take
any such loss.

`CommandDeliveryProofs`, for any set of pairs, any number of retries and
faults, and both kinds of agent. `AtMostOnce` is not inductive; the invariant
`IInv` adds what the agent's journal means while a command is in hand
(`AgentInv`), that a command that ran is in the journal and that an answer that
says refused or denied is true of a command that did not run (`Truth`), what the running
handler has in hand (`HandlerInv`), that all answers to a command agree
(`OneAnswer`), that an attempt is only created when every earlier one was refused
(`AttemptsInOrder`) and that positions and commands that ran correspond
(`Counted`). From it follow `OpenHasPosition`, `OneAttemptInFlight` and the
refinement of `OpenOnce`. Three more properties need a part each (`Late`):

* `WriteOffHasReason` needs `WrittenOff`: a pair written off has its reason, or
  *none* of its commands has run or will. That `denied` proves this, and that a
  recorded result is never overwritten (`ResultKept`, from `OneAnswer`), carries it.
* `NoRetryAfterTimeout`, of an EA, needs `Silence`: what timed out is the pair's
  last attempt, and if the Bridge died before it judged the timeout, so that the
  pair still waits, no answer to that command is on any way that leads back.
* `CancelledNeverRan`, until the Bridge first dies, needs `Unseen`: a PENDING or
  CANCELLED row other than the one being written is neither on the link nor in the
  journal. With a crash it is false (divergences above), hence the hypothesis
  `faults.bridge = 0` inside the theorem.

`CloseFlowProofs`, for any set of Clients, any routes, permissions, fallback and
volume, and any number of closes by hand and of faults. None of the five
properties is inductive. `IInv` consists of:

* `Typed`, which is `TypeOK` with the types of the events, orders and faults;
* `EventsAddUp` and `BookBehind`: the events of a leg that have not been heard
  add up to the volume the broker has, and no pair's book of the Master runs
  ahead of them. Without these a share of a partial close could exceed the
  position and `0 .. Lots` would not be kept;
* `BookCovers`: the Client's volume in the book is at least what is at the broker
  plus what has been executed and not heard of. A partial close that is
  acknowledged (`AckPartial`) marks the pair CLOSED when the book is used up; this is
  why the position is then gone. It quantifies over a running total, because
  a sum over a sequence would need a recursive definition;
* `Unopened`, `KnownIsBound`: what the book and the broker look like while the copy is
  being opened;
* `OrdersOK`, `EventsOK`: what each order and each event on its way means (an `ok`
  of a close means the leg is flat, a timeout has been told, a close on a Client's account
  has a close by hand behind it, a bot's deal without a trace has a clicker's
  order behind it);
* `MasterGone`: the book calls the Master closed, and a pair's wish comes from a
  Client, only if the Master's position is gone;
* `OneCloseInFlight` and `ClosedIsFlat` themselves.

`CloseFlowHedgeProofs` proves `NoSilentNakedLeg` under the same generality. The property
speaks of states in which everything has been answered and heard, so the
invariant has to say, of every leg that stands alone *before* that, what is
still under way about it. `HInv`, on top of `IInv`:

* `ClientFollows`: once the Master is gone or ordered closed, each Client not
  excused has been dealt with (`Dealt`: gone, or a full close is out), or the Bridge has
  still to hear of the Master's close by hand, or the cascade is waiting;
* `MasterFollows`: once a Client that was opened is gone, the Master is `Ending` (gone, ordered
  closed, or next in the emergency) or the Bridge has still to hear of the Client's close by hand;
* `ClosesWithMaster`, `ClosedWithMaster`, `EmergencyDeals`: a full close is sent, a pair
  becomes CLOSED and an emergency waits only for the same reasons. These close the circle
  between the two halves;
* `Emptied`, `LastEvents`, `AnswersFirst`, `Refused`, `Rows`, `WishesHaveCause`: what an
  event, an answer and a row of the book say about the broker. `AnswersFirst`
  is the one that carries an order: an EA's answer is heard before the event of a later close by
  hand.

None of them speaks of the mode: a person may set it at any moment, so what the Bridge has let
pass for being PAUSED must be in the history (`unfollowed`) and not in the mode of now.

Each action does many things at once, so the proof first says for each variable how it
can move in any step (`Answering`, `Settling`, `Queues`, `LotsMove`, `RowMoves`) and why an order is
ever sent (`Reason`). The step lemma of each conjunct uses only these.

The same module proves that `CloseFlow` implements `Hedge` (`ClosedForCauseCorrect`). The
invariant needed beside `IInv` and `HInv` is `Caused`: an order to close a Client on the Master's
account (`close_source`) means that the Master's position has fallen, and the Master is never
closed on its own account; that the Master is gone when a Client is closed on another
Client's account is `CascadeWaitsForMaster`. It is
stable because positions never grow (`MasterFalls`). The steps are matched by what becomes of `due`:
`DueMoves` and `DueShrinks` say that an answer, a deadline or a fill only takes from it,
`Reason` and `CascadeHasCause` that what a step adds has a cause in `Causes`. A fill is then
`ClientFollows` or `MasterFollows`, the opening of a copy `Open` or `NotOpened`, a switch of the mode
`SetMode`, a crash `Restart`, and all the rest (sending, answering, hearing, deferring) `Decide`
(`UnseenIsAllowed`).

`OpenFlowProofs`, for any Masters and Clients, limits and number of upsets.
`IInv` is `Typed`, `Account` and `PairsWithinLimit`. `Account` is
`CopyAccounted` with `AtWork`: where the loop stands determines which copies are
still in its hands, so that no handler is left with a copy that is in no table
(between `DELETE` and the alert, for example). `PairsWithinLimit` needs
the finiteness of `Masters`. `FifoPerClient` and `BoundToOwn` follow
step by step from the types and `IsInjective` of each queue. Lemmas about
`Append`, `RemoveAt` and `Tail` say what an insertion and a deletion do to a queue.

`ReconcileProofs`, for any Masters, Clients and number of rounds. `IInv` is the
types and `FindingsOK`: a finding that would change a pair is about a pair, only
a finding about a waiting pair binds it, and no two pending findings have the
same key. `SettledStaysSettled` follows from the second (what `Accept` does to a pair
depends on the status the finding saw), `AllIsFound` from the comparison itself: for
each way in which something can be `Wrong` a lemma names the finding, and
what `_create_finding` leaves out has a pending finding already.

`ClickerUiProofs`, for any commands, positions, symbols and mishaps. `IInv`
consists of `JournalOK`, `JobOK` (the command in hand is reserved and
unanswered, it is marked before the press, and not pressed yet),
`DialogOK` (from the last look to the press the dialog is the one that was
read back, and of a close no click that could change it is on its way: the reason why
`TerminalNext` cannot break it), `AnswersOK` (an answer that was sent is what the
journal would say again) and `PressedOK`. Beside it `ScreenOK` says what the text of a field tells of the
volume behind it, and that a dialog to open with is of the symbol that was read unless it has moved. The thirty actions
are first reduced to the few things they do to these variables (`Looks`,
`Replies`), so that the search for the row plays no part in the argument for
`PressedIsRight` and `UntouchedIsTrue`.

`ClosedUnlessFooled` is about the search itself and needs `SearchOK` as well:

* `RowsOK`: each live position has a row, and so has the line of the balance;
* `ClicksOK`: a driver that has noticed nothing (`Trusted`) has at most one click on its way,
  the one it waits for;
* `Findable`: for such a driver either some row of the target is still `Ahead` (not
  opened yet, or being opened, and its dialog or its click is the one that will say
  so), or rows have gone and it will come to a last row that is missing (`Shrunk`).

When every row has been opened neither can be, so one of `Trusted`'s conditions
fails. Halving plays no part: the order in which rows are opened is free, but for
the last one. The lemmas `RemovedAt` and `InsertedAt` say where the rows of a
list go when one goes or comes.

`HedgeVolumeProofs`, for any precision and any volumes, multipliers, contract sizes, steps, limits
and roundings small against it. The argument is one of error bounds. A result of `Quot` or `Times` is
`Near` the exact fraction, off by at most one part in 2 * 10^(Digits-1). Three of them
follow one another before a volume is rounded to its step (the ratio of the contracts, the
product, the division by the step), and `HedgeAssumption` makes their sum smaller than the
least distance between a step and a fraction that is not one: so the
rounded volume is the nominal one's, but for a step downwards when the fraction is a step
exactly. For a partial close the same bound on two roundings says that the share is at most the exact
one. For `NeverOverClosed` the invariant adds `FollowsDown` (what a Client has, in the book,
at the broker and in the news of it, is at most what was opened), `Fresh` (as long as no share
was taken blindly the book is what is held, or there is news of it and no order)
and `Kept` (what will be left when the order in flight is filled is not too little). `OrderIsAllowed` needs that the steps 5 to
7 of `compute_client_volume` keep what the earlier ones established. `Ten` is shown to
be the function its recursion describes with the least element of a set of naturals
(`WFMin`): the library's own induction rules take an operator as a parameter.

**Assumptions on constants.** They are in the modules as ASSUME and TLC
evaluates them on each run: limits are naturals, sets of Masters are finite
where they are counted, the positions of a terminal are finitely many and its line of the
balance is none of them, and a value that stands for "none", "nobody" or a
place of the loop is none of the values it is kept beside. `HedgeAssumption` is the one
about magnitudes: seven times the nominal volume (in hundredths, with multiplier and contract size), and
seven times the largest order times the Master's volume, are below 2 * 10^(Digits-1). Python's context has 28 digits; 10000 lots at a multiplier of 100 and a contract
size of 100000 make 10^15, twelve orders below. No theorem assumes more, except
`~CrashMidHandler` and `~CrashMidWrite` in `EventStreamProofs`; hypotheses on
histories (`faults.late = 0` in `NoFalseCascade`) are part of the properties.

**Only model-checked.**

* Liveness (`EventuallyAccounted`, `EventuallySettled`, `PendingIsTold`): fairness
  and ENABLED are out of the prover's reach.
* `WishIsKept` is violated.

Every other property of a run is stated by a theorem.

## 5. Plan

1. `EventStream`, `CommandDelivery`, `OpenOnce` with their proofs: done.
2. `OpenFlow`, `CloseFlow`, `Reconcile`, `ClickerUi`, `Sizing`, `HedgeVolume`
   with their proofs: done.
3. `NoSilentNakedLeg`: proved (`CloseFlowHedgeProofs`).
4. `Hedge`, the abstract specification of a Master position and its copies that
   `CloseFlow` implements, with the refinement proved: done.
5. Open: agent presence (handshake, heartbeats, replaced connections); retention
   beside redelivery.

## 6. Not modelled

* Agent presence as a component. `OpenFlow` switches a Client's fitness and a
  clicker's status at any time, `CommandDelivery` and `EventStream` replace
  connections and notice dead ones; heartbeat periods are left out.
* Dashboards, labels, configuration parsing, installation scripts, alert
  delivery, backups as files, retention, message formats, authentication: input
  and output around the state the models keep.
* The Windows API: `ClickerUi` models what the driver sees of it.
* In `CommandDelivery` the snapshot request on connection, the pruning of the
  EA's journal after 24 hours and the policy that closes the Master after a
  failed open (which is in `OpenFlow`). In `CloseFlow` the
  snapshot after a Close By, which writes an alert and nothing else.
* `accept_all_safe` and `manual_action` of reconciliation, which nothing calls,
  and the volumes and prices in the evidence of a finding.
