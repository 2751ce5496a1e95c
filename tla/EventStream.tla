---------------------------- MODULE EventStream ----------------------------
(***************************************************************************)
(* The event stream of ONE agent: the EA's outbox and its numbering         *)
(* (ea/CopyBridgeCommon.mqh), the TCP link between the two, and the         *)
(* Bridge's ingestion (bridge/protocol/server.py): dedup, gap detection,    *)
(* resend requests, giving up on a gap, and the processing order.           *)
(*                                                                          *)
(* A deal is the number of the trade that raised the event; the event id of *)
(* the code is EVT-<login>-<seq>, so it is the seq here.                     *)
(***************************************************************************)
EXTENDS Integers, Sequences

CONSTANTS
    MaxDeals,          \* trades the terminal reports
    MaxBreaks,         \* times the TCP link breaks
    MaxEaCrashes,      \* times the terminal dies and starts again
    MaxBridgeCrashes,  \* times the Bridge dies and starts again
    MaxRestores,       \* times the database is put back from a backup
    CrashMidWrite,     \* may the terminal die between its two file writes?
    CrashMidHandler    \* may the Bridge die between _accept_gap's transactions?

ASSUME BoundsAssumption ==
    /\ MaxDeals \in Nat /\ MaxBreaks \in Nat /\ MaxEaCrashes \in Nat
    /\ MaxBridgeCrashes \in Nat /\ MaxRestores \in Nat
    /\ CrashMidWrite \in BOOLEAN /\ CrashMidHandler \in BOOLEAN

VARIABLES
    \* the EA: memory, then files
    mSeq,       \* m_seq, the last number given
    eaPc,       \* how far SendEvent / ResendFrom has got
    eaConn,     \* m_connected and m_handshaked
    resend,     \* ResendFrom's loop: from which seq, after which line
    stateSeq,   \* <login>_state.json
    outbox,     \* <login>_outbox.ndjson, lines in the order of their deals
    torn,       \* does that file end in the middle of a line?
    issued,     \* history: the seq each deal was given
    lost,       \* history: the deals whose line a death has left out of the file
    \* the link
    up, toBridge, toEa,
    \* the Bridge: the connection (memory), then tables
    conn,       \* connection registered: resend_asked_from, resend_attempts;
                \* history: the deals whose lines its handshake has dropped
    gap,        \* a gap skipped in agent.last_seq whose alert is not written yet
    lastSeq,    \* agent.last_seq
    events,     \* table event
    handled,    \* ids of the events the processor has closed
    reported,   \* seqs named by an EVENT_GAP_UNFILLED alert
    nextId,     \* AUTOINCREMENT of table event
    backup,     \* the last VACUUM INTO copy of the tables, none before the first
    \* how often the environment has misbehaved
    faults

fileVars   == <<outbox, torn, lost>>
eaVars     == <<mSeq, eaPc, eaConn, resend, stateSeq, fileVars, issued>>
linkVars   == <<up, toBridge, toEa>>
tableVars  == <<lastSeq, events, handled, reported, nextId>>
bridgeVars == <<conn, gap, tableVars, backup>>
vars       == <<eaVars, linkVars, bridgeVars, faults>>

MAX_RESEND_ATTEMPTS == 3

Deals == 1 .. MaxDeals
Lines == [seq : Nat, deal : Deals]
NoGap == [from |-> 1, to |-> 0]

Hello(s)     == [kind |-> "hello", seq |-> s, deal |-> 0]
Event(l)     == [kind |-> "event", seq |-> l.seq, deal |-> l.deal]
HelloAck(s)  == [kind |-> "hello_ack", seq |-> s]
ResendAsk(s) == [kind |-> "resend", seq |-> s]

Offline == [live |-> FALSE, asked |-> 0, attempts |-> 0, dropped |-> {}]

Init ==
    /\ mSeq = 0 /\ stateSeq = 0 /\ issued = <<>>
    /\ outbox = {} /\ torn = FALSE /\ lost = {}
    /\ eaPc = "idle" /\ eaConn = "down" /\ resend = [from |-> 0, after |-> 0]
    /\ up = FALSE /\ toBridge = <<>> /\ toEa = <<>>
    /\ conn = Offline /\ gap = NoGap
    /\ lastSeq = 0 /\ events = {} /\ handled = {} /\ reported = {} /\ nextId = 1
    /\ backup = {}
    /\ faults = [breaks |-> 0, ea |-> 0, bridge |-> 0, restores |-> 0]

-----------------------------------------------------------------------------
(* The EA. Handlers of a terminal run one at a time, so each starts in idle. *)

\* What reaches the Bridge of a line the EA writes to its socket: SocketSend
\* succeeds into a dead link too, and without a socket SendLine does nothing.
Sent(msg) == IF eaConn # "down" /\ up THEN Append(toBridge, msg) ELSE toBridge

\* SendEvent, first write: number the deal and append it to the outbox file.
\* CbFileAppendLine writes from the end of the file, so behind a line cut short
\* it completes that line, and neither of the two can be read.
AppendOutbox ==
    /\ eaPc = "idle"
    /\ Len(issued) < MaxDeals
    /\ mSeq' = mSeq + 1
    /\ IF torn
       THEN /\ lost' = lost \cup {Len(issued) + 1}
            /\ UNCHANGED outbox
       ELSE /\ outbox' = outbox \cup {[seq |-> mSeq + 1, deal |-> Len(issued) + 1]}
            /\ UNCHANGED lost
    /\ torn' = FALSE
    /\ issued' = Append(issued, mSeq + 1)
    /\ eaPc' = "appended"
    /\ UNCHANGED <<eaConn, resend, stateSeq, linkVars, bridgeVars, faults>>

\* SendEvent, second write: the counter goes to state.json.
SaveState ==
    /\ eaPc = "appended"
    /\ stateSeq' = mSeq
    /\ eaPc' = "saved"
    /\ UNCHANGED <<mSeq, eaConn, resend, fileVars, issued, linkVars, bridgeVars, faults>>

\* SendEvent, last: only now the line goes to the socket.
SendLine ==
    /\ eaPc = "saved"
    /\ toBridge' = Sent(Event([seq |-> mSeq, deal |-> Len(issued)]))
    /\ eaPc' = "idle"
    /\ UNCHANGED <<mSeq, eaConn, resend, stateSeq, fileVars, issued, up, toEa,
                   bridgeVars, faults>>

\* EnsureConnected: a new socket, and hello with the last number given. A link
\* the Bridge still held is replaced.
Connect ==
    /\ eaPc = "idle" /\ eaConn = "down"
    /\ eaConn' = "hello_sent"
    /\ up' = TRUE
    /\ toBridge' = <<Hello(mSeq)>>
    /\ toEa' = <<>>
    /\ conn' = Offline
    /\ UNCHANGED <<mSeq, eaPc, resend, stateSeq, fileVars, issued,
                   gap, tableVars, backup, faults>>

Hears(kind) ==
    /\ eaPc = "idle" /\ eaConn # "down"
    /\ toEa # <<>> /\ Head(toEa).kind = kind

FromBridge(kind) == Hears(kind) /\ toEa' = Tail(toEa)

\* Mutant of TrimTo: an off-by-one that cuts the first line still owed.
TrimTooMuch(seq) == {l \in outbox : l.seq > seq + 1}

\* TrimOutbox: what the Bridge says it has leaves the file, and so does a line
\* that cannot be read.
TrimTo(seq) == {l \in outbox : l.seq > seq}

\* HandleLine, hello_ack. No resend of its own: the Bridge asks.
RecvHelloAck ==
    /\ FromBridge("hello_ack")
    /\ outbox' = TrimTo(Head(toEa).seq)
    /\ torn' = FALSE
    /\ eaConn' = "ready"
    /\ UNCHANGED <<mSeq, eaPc, resend, stateSeq, lost, issued, up, toBridge,
                   bridgeVars, faults>>

\* HandleLine, resend: start reading the outbox from its first line.
RecvResend ==
    /\ FromBridge("resend")
    /\ resend' = [from |-> Head(toEa).seq, after |-> 0]
    /\ eaPc' = "resending"
    /\ UNCHANGED <<mSeq, eaConn, stateSeq, fileVars, issued, up, toBridge,
                   bridgeVars, faults>>

ToResend == {l \in outbox : l.deal > resend.after /\ l.seq >= resend.from}

\* ResendFrom, one line of the file that is not below from_seq.
ResendLine ==
    /\ eaPc = "resending"
    /\ \E l \in ToResend :
          /\ \A o \in ToResend : l.deal <= o.deal
          /\ toBridge' = Sent(Event(l))
          /\ resend' = [resend EXCEPT !.after = l.deal]
    /\ UNCHANGED <<mSeq, eaPc, eaConn, stateSeq, fileVars, issued, up, toEa,
                   bridgeVars, faults>>

ResendDone ==
    /\ eaPc = "resending" /\ ToResend = {}
    /\ eaPc' = "idle"
    /\ resend' = [from |-> 0, after |-> 0]
    /\ UNCHANGED <<mSeq, eaConn, stateSeq, fileVars, issued, linkVars, bridgeVars, faults>>

\* A send that fails, an error line, or the handshake timeout: Disconnect.
NoticeBreak ==
    /\ eaPc = "idle" /\ ~up /\ eaConn # "down"
    /\ eaConn' = "down"
    /\ UNCHANGED <<mSeq, eaPc, resend, stateSeq, fileVars, issued, linkVars,
                   bridgeVars, faults>>

-----------------------------------------------------------------------------
(* The Bridge.                                                              *)

Recorded == {e.seq : e \in events}

\* Mutant of Record: the table without its UNIQUE event_id.
RecordAlways(m) ==
    /\ events' = events \cup {[id |-> nextId, seq |-> m.seq, deal |-> m.deal]}
    /\ nextId' = nextId + 1

\* record_event: an event id already in the table is the old row, not a new one.
Record(m) ==
    IF m.seq \in Recorded
    THEN UNCHANGED <<events, nextId>>
    ELSE /\ events' = events \cup {[id |-> nextId, seq |-> m.seq, deal |-> m.deal]}
         /\ nextId' = nextId + 1

\* Mutant of AdvanceOver: up to the highest number in the table, over the holes.
AdvanceToTop(S) ==
    \E n \in S : /\ \A m \in S : m <= n
                /\ lastSeq' = IF n > lastSeq THEN n ELSE lastSeq

\* _advance_last_seq: up to the last number without a hole, given the table S.
AdvanceOver(S) ==
    \E n \in S \cup {lastSeq} :
        /\ n >= lastSeq /\ (lastSeq + 1) .. n \subseteq S /\ n + 1 \notin S
        /\ lastSeq' = n

\* _ask_resend: how often this very hole has been asked for, this call included.
Attempts(from) == IF conn.asked = from THEN conn.attempts + 1 ELSE 1

FromEa(kind) ==
    /\ up /\ gap = NoGap
    /\ toBridge # <<>> /\ Head(toBridge).kind = kind

\* The connection a hello sets up, when the chunk it came in held k lines more:
\* LineBuffer.feed has taken them off its buffer, and the loop is left at hello.
Welcome(k, asked, attempts) ==
    /\ toBridge' = SubSeq(toBridge, k + 2, Len(toBridge))
    /\ conn' = [live |-> TRUE, asked |-> asked, attempts |-> attempts,
                dropped |-> {toBridge[i].deal : i \in 2 .. k + 1}]

\* Mutant of RecvHello: the Bridge waits for the next event to notice a hole.
RecvHelloNoAsk ==
    /\ FromEa("hello")
    /\ \E k \in 0 .. Len(toBridge) - 1 : Welcome(k, 0, 0)
    /\ toEa' = Append(toEa, HelloAck(lastSeq))
    /\ UNCHANGED <<eaVars, up, gap, tableVars, backup, faults>>

\* _handshake, the part that concerns the stream: hello_ack with last_seq, and
\* one request when the agent has numbers the Bridge has not. Lines the EA has
\* sent behind its hello may be dropped with the rest of the hello's chunk.
RecvHello ==
    /\ FromEa("hello")
    /\ \E k \in 0 .. Len(toBridge) - 1 :
          IF Head(toBridge).seq > lastSeq
          THEN /\ Welcome(k, lastSeq + 1, 1)
               /\ toEa' = Append(Append(toEa, HelloAck(lastSeq)), ResendAsk(lastSeq + 1))
          ELSE /\ Welcome(k, 0, 0)
               /\ toEa' = Append(toEa, HelloAck(lastSeq))
    /\ UNCHANGED <<eaVars, up, gap, tableVars, backup, faults>>

\* _handle_event, seq <= last_seq: recorded only if the table lacks it.
RecvOld ==
    /\ FromEa("event") /\ conn.live
    /\ Head(toBridge).seq <= lastSeq
    /\ toBridge' = Tail(toBridge)
    /\ Record(Head(toBridge))
    /\ UNCHANGED <<eaVars, up, toEa, conn, gap, lastSeq, handled, reported, backup, faults>>

\* _handle_event, the next number: record, then advance.
RecvNext ==
    /\ FromEa("event") /\ conn.live
    /\ Head(toBridge).seq = lastSeq + 1
    /\ toBridge' = Tail(toBridge)
    /\ Record(Head(toBridge))
    /\ AdvanceOver(Recorded \cup {Head(toBridge).seq})
    /\ UNCHANGED <<eaVars, up, toEa, conn, gap, handled, reported, backup, faults>>

\* Mutant of RecvAhead: one request too many.
RecvAheadOneMore ==
    /\ FromEa("event") /\ conn.live
    /\ Head(toBridge).seq > lastSeq + 1
    /\ Attempts(lastSeq + 1) <= MAX_RESEND_ATTEMPTS + 1
    /\ conn' = [conn EXCEPT !.asked = lastSeq + 1, !.attempts = Attempts(lastSeq + 1)]
    /\ toEa' = Append(toEa, ResendAsk(lastSeq + 1))
    /\ toBridge' = Tail(toBridge)
    /\ Record(Head(toBridge))
    /\ AdvanceOver(Recorded \cup {Head(toBridge).seq})
    /\ UNCHANGED <<eaVars, up, gap, handled, reported, backup, faults>>

\* _handle_event, a number ahead, with requests left: ask, record, advance.
RecvAhead ==
    /\ FromEa("event") /\ conn.live
    /\ Head(toBridge).seq > lastSeq + 1
    /\ Attempts(lastSeq + 1) <= MAX_RESEND_ATTEMPTS
    /\ conn' = [conn EXCEPT !.asked = lastSeq + 1, !.attempts = Attempts(lastSeq + 1)]
    /\ toEa' = Append(toEa, ResendAsk(lastSeq + 1))
    /\ toBridge' = Tail(toBridge)
    /\ Record(Head(toBridge))
    /\ AdvanceOver(Recorded \cup {Head(toBridge).seq})
    /\ UNCHANGED <<eaVars, up, gap, handled, reported, backup, faults>>

\* Mutant of Skipped: the range starts one too late.
SkippedShort(seq) == [from |-> lastSeq + 2, to |-> seq - 1]

\* The numbers a jump of last_seq to just below seq leaves out.
Skipped(seq) == [from |-> lastSeq + 1, to |-> seq - 1]

\* _accept_gap, first transaction: last_seq jumps to just below the event. The
\* event itself is still to be recorded, by RecvNext, once the alert is written.
SkipGap ==
    /\ FromEa("event") /\ conn.live
    /\ Head(toBridge).seq > lastSeq + 1
    /\ Attempts(lastSeq + 1) > MAX_RESEND_ATTEMPTS
    /\ conn' = [conn EXCEPT !.asked = 0, !.attempts = 0]
    /\ gap' = Skipped(Head(toBridge).seq)
    /\ lastSeq' = Head(toBridge).seq - 1
    /\ UNCHANGED <<eaVars, linkVars, events, handled, reported, nextId, backup, faults>>

\* _accept_gap, second transaction: the CRITICAL alert.
ReportGap ==
    /\ gap # NoGap
    /\ reported' = reported \cup gap.from .. gap.to
    /\ gap' = NoGap
    /\ UNCHANGED <<eaVars, linkVars, conn, lastSeq, events, handled, nextId, backup, faults>>

\* process_pending / claim_next_pending_event: the oldest row by id, then its
\* process_status leaves PENDING.
ProcessEvent ==
    /\ \E e \in events :
          /\ e.id \notin handled
          /\ \A o \in events : o.id \notin handled => e.id <= o.id
          /\ handled' = handled \cup {e.id}
    /\ UNCHANGED <<eaVars, linkVars, conn, gap, lastSeq, events, reported, nextId, backup, faults>>

-----------------------------------------------------------------------------
(* What may go wrong.                                                       *)

CutLink == up' = FALSE /\ toBridge' = <<>> /\ toEa' = <<>>

LinkBreak ==
    /\ up /\ gap = NoGap /\ faults.breaks < MaxBreaks
    /\ CutLink
    /\ conn' = Offline
    /\ faults' = [faults EXCEPT !.breaks = @ + 1]
    /\ UNCHANGED <<eaVars, gap, tableVars, backup>>

\* The terminal dies and comes back: memory and link are gone.
TerminalDies ==
    /\ faults.ea < MaxEaCrashes
    /\ gap = NoGap
    /\ eaPc' = "idle" /\ eaConn' = "down" /\ resend' = [from |-> 0, after |-> 0]
    /\ CutLink
    /\ conn' = Offline
    /\ faults' = [faults EXCEPT !.ea = @ + 1]
    /\ UNCHANGED <<issued, gap, tableVars, backup>>

\* It dies between two of its file operations or inside one: Init reads state.json
\* (LoadState). SaveState opens that file for writing, which empties it, so
\* between the two writes the file holds the old number or nothing. A line that
\* CbFileAppendLine was writing is cut short, and its trade has no number.
EaCrash ==
    /\ TerminalDies
    /\ CrashMidWrite \/ eaPc # "appended"
    /\ mSeq' \in IF eaPc = "appended" THEN {stateSeq, 0} ELSE {stateSeq}
    /\ stateSeq' = mSeq'
    /\ torn' \in IF eaPc = "idle" THEN {torn, TRUE} ELSE {torn}
    /\ UNCHANGED <<outbox, lost>>

\* It dies inside TrimOutbox: CbFileWriteLines has emptied the file and written
\* the first of the lines it keeps, the last one perhaps not whole.
CrashInTrim ==
    /\ TerminalDies
    /\ Hears("hello_ack")
    /\ \E d \in 1 .. MaxDeals + 1 :
          outbox' = {l \in TrimTo(Head(toEa).seq) : l.deal < d}
    /\ torn' \in IF outbox' = TrimTo(Head(toEa).seq) THEN {FALSE} ELSE BOOLEAN
    /\ lost' = lost \cup {l.deal : l \in TrimTo(Head(toEa).seq) \ outbox'}
    /\ mSeq' = stateSeq
    /\ UNCHANGED stateSeq

\* The Bridge dies and comes back: connections and requests are memory, the
\* tables stay. With CrashMidHandler it may die after SkipGap's transaction.
BridgeCrash ==
    /\ faults.bridge < MaxBridgeCrashes
    /\ CrashMidHandler \/ gap = NoGap
    /\ gap' = NoGap
    /\ conn' = Offline
    /\ CutLink
    /\ faults' = [faults EXCEPT !.bridge = @ + 1]
    /\ UNCHANGED <<eaVars, tableVars, backup>>

\* The Bridge dies after record_event's transaction and before last_seq's.
CrashAfterRecord ==
    /\ faults.bridge < MaxBridgeCrashes
    /\ FromEa("event") /\ conn.live
    /\ Record(Head(toBridge))
    /\ conn' = Offline
    /\ CutLink
    /\ faults' = [faults EXCEPT !.bridge = @ + 1]
    /\ UNCHANGED <<eaVars, gap, lastSeq, handled, reported, backup>>

Tables == [lastSeq |-> lastSeq, events |-> events, handled |-> handled,
           reported |-> reported, nextId |-> nextId]

\* sao_luu: VACUUM INTO copies the tables as they are between two transactions.
TakeBackup ==
    /\ faults.restores < MaxRestores /\ gap = NoGap
    /\ backup' = {Tables}
    /\ UNCHANGED <<eaVars, linkVars, conn, gap, tableVars, faults>>

\* The operator puts the last copy back, with the Bridge stopped.
RestoreBackup ==
    /\ faults.restores < MaxRestores /\ gap = NoGap
    /\ \E b \in backup : /\ lastSeq' = b.lastSeq /\ events' = b.events
                         /\ handled' = b.handled /\ reported' = b.reported
                         /\ nextId' = b.nextId
    /\ CutLink
    /\ conn' = Offline
    /\ faults' = [faults EXCEPT !.restores = @ + 1]
    /\ UNCHANGED <<eaVars, gap, backup>>

-----------------------------------------------------------------------------
EaStep     == \/ AppendOutbox \/ SaveState \/ SendLine \/ Connect \/ RecvHelloAck
              \/ RecvResend \/ ResendLine \/ ResendDone \/ NoticeBreak
BridgeStep == \/ RecvHello \/ RecvOld \/ RecvNext \/ RecvAhead \/ SkipGap
              \/ ReportGap \/ ProcessEvent
Fault      == LinkBreak \/ EaCrash \/ CrashInTrim \/ BridgeCrash \/ CrashAfterRecord \/ RestoreBackup

Next == EaStep \/ BridgeStep \/ TakeBackup \/ Fault

Spec == Init /\ [][Next]_vars

\* OnTimer polls every 100 ms and asyncio schedules the Bridge's tasks: whatever
\* the two programs can do they do in the end. Deals and faults are not owed.
Fairness ==
    /\ WF_vars(SaveState) /\ WF_vars(SendLine) /\ WF_vars(Connect)
    /\ WF_vars(RecvHelloAck) /\ WF_vars(RecvResend)
    /\ WF_vars(ResendLine) /\ WF_vars(ResendDone) /\ WF_vars(NoticeBreak)
    /\ WF_vars(BridgeStep)

FairSpec == Spec /\ Fairness

-----------------------------------------------------------------------------
(* Properties.                                                              *)

ToBridgeMsgs == [kind : {"hello"}, seq : Nat, deal : {0}]
                  \cup [kind : {"event"}, seq : Nat, deal : Deals]
ToEaMsgs     == [kind : {"hello_ack", "resend"}, seq : Nat]
EventRows    == [id : Nat, seq : Nat, deal : Deals]
TableStates  == [lastSeq : Nat, events : SUBSET EventRows, handled : SUBSET Nat,
                 reported : SUBSET Nat, nextId : Nat]

TypeOK ==
    /\ mSeq \in Nat /\ stateSeq \in Nat
    /\ outbox \subseteq Lines /\ torn \in BOOLEAN /\ lost \subseteq Deals
    /\ issued \in Seq(Nat) /\ Len(issued) <= MaxDeals
    /\ eaPc \in {"idle", "appended", "saved", "resending"}
    /\ eaConn \in {"down", "hello_sent", "ready"}
    /\ resend \in [from : Nat, after : Nat]
    /\ up \in BOOLEAN
    /\ toBridge \in Seq(ToBridgeMsgs) /\ toEa \in Seq(ToEaMsgs)
    /\ conn \in [live : BOOLEAN, asked : Nat, attempts : 0 .. MAX_RESEND_ATTEMPTS,
                dropped : SUBSET Deals]
    /\ gap \in [from : Nat, to : Nat]
    /\ lastSeq \in Nat
    /\ events \subseteq EventRows
    /\ handled \subseteq Nat /\ reported \subseteq Nat /\ nextId \in Nat
    /\ backup \subseteq TableStates
    /\ faults \in [breaks : 0 .. MaxBreaks, ea : 0 .. MaxEaCrashes,
                   bridge : 0 .. MaxBridgeCrashes, restores : 0 .. MaxRestores]

InTable(d) == \E e \in events : e.deal = d
InFile(d)  == \E l \in outbox : l.deal = d
Reported(d) == issued[d] \in reported \cup gap.from .. gap.to

\* No trade is lost in silence: every trade the EA numbered at or below last_seq
\* is in the event table, or an EVENT_GAP_UNFILLED alert names its number
\* (server.py _accept_gap: data loss must be loud).
NoSilentLoss ==
    \A d \in DOMAIN issued : issued[d] <= lastSeq => InTable(d) \/ Reported(d)

\* What the EA has cut from its file is never still owed: a trade that is in
\* neither the table nor an alert is still in the outbox, to be resent, whatever
\* breaks. Two things alone undo that: a death while the file itself is being
\* written (TrimOutbox rewrites it in place, and an append behind a line cut
\* short cannot be read), and a database put back from a backup, which has
\* forgotten what it acknowledged.
OwedIsKept ==
    faults.restores = 0 =>
        \A d \in DOMAIN issued : InTable(d) \/ Reported(d) \/ InFile(d) \/ d \in lost

\* No trade is copied twice: resends and duplicates leave one row per trade,
\* and one row per number.
RecordedOnce ==
    \A e, f \in events : e.deal = f.deal \/ e.seq = f.seq => e = f

\* Every number at or below last_seq is a row or a reported number, whatever
\* trade carries it.
LastSeqAccounted == 1 .. lastSeq \subseteq Recorded \cup reported \cup gap.from .. gap.to

\* Nothing that could show the Bridge the hole at d is on its way: each line from
\* d on was dropped with the hello of the connection that stands, or is in no file.
Unnoticed(d) ==
    \A o \in d .. Len(issued) : o \in lost \/ (o \in conn.dropped /\ ~InTable(o))

\* Liveness: whatever breaks, a numbered trade is in the end in the table or in an
\* alert, and stays there. The one exception is a trade the Bridge has not been
\* told of and cannot miss yet: a hole is noticed by the next event or the next
\* hello (_handle_event, _handshake), never by a heartbeat.
EventuallyAccounted ==
    \A d \in Deals :
        <>[](d \in DOMAIN issued => InTable(d) \/ Reported(d) \/ Unnoticed(d))
=============================================================================
