-------------------------- MODULE CommandDelivery --------------------------
(***************************************************************************)
(* The delivery of OPEN commands to ONE agent, from the pair the Bridge      *)
(* writes down to the order at the broker and back: the command table and    *)
(* its dispatcher (bridge/protocol/dispatcher.py), the ack handler           *)
(* (server.py, engine/processor.py) with its retries, and the agent's        *)
(* journal of commands, which is what keeps a command from running twice.    *)
(* The agent is an EA (CopyBridgeCommon.mqh, CopyBridgeClient.mq5) that      *)
(* sends the order itself, or a clicker (clicker/link.py, journal.py) that   *)
(* presses the terminal's button.                                            *)
(*                                                                          *)
(* A command is <<i, n>>: the n-th retry for pair i, n = pair.retry_count    *)
(* when _retry_open creates it. The Bridge is one event loop and its         *)
(* handlers do not yield here, so one runs at a time; a crash can fall       *)
(* between any two of its transactions and writes.                           *)
(***************************************************************************)
EXTENDS Naturals, Sequences

CONSTANTS
    Intents,           \* pairs to open
    MaxRetry,          \* client_account.max_retry
    Kind,              \* "EA" or "CLICKER", from client_account.open_route
    NoCommand,         \* none in hand
    MaxBreaks,         \* times the TCP link breaks
    MaxAgentCrashes,   \* times the agent dies and starts again
    MaxBridgeCrashes   \* times the Bridge dies and starts again

Attempts == 0 .. MaxRetry
Commands == Intents \X Attempts

ASSUME DeliveryAssumption ==
    /\ MaxRetry \in Nat
    /\ Kind \in {"EA", "CLICKER"}
    /\ NoCommand \notin Commands
    /\ MaxBreaks \in Nat /\ MaxAgentCrashes \in Nat /\ MaxBridgeCrashes \in Nat

VARIABLES
    \* the Bridge's tables
    pair,       \* pair.status
    retries,    \* pair.retry_count
    status,     \* command.status
    result,     \* command.retcode: the answer recorded
    \* the Bridge's memory: the handler that runs, and the retry tasks asleep
    todo,       \* commands the running handler has yet to send
    written,    \* one of them whose bytes are out and which is not marked SENT
    judged,     \* a command whose result is recorded and not acted on
    retrying,   \* pairs with a _retry_open task
    conn,       \* the agent is in server.connections
    \* the link
    toAgent, toBridge,
    \* the agent
    up,         \* it has a socket
    doing,      \* the command it handles
    step,       \* how far it has got
    answer,     \* what came of it
    journal,    \* its file: per command nothing, reserved, or the answer
    \* the world
    opened,     \* positions opened at the broker for each pair
    ran,        \* history: commands that opened one
    timedOut,   \* history: commands scan_deadlines has given up on
    expired,    \* commands whose deadline_at is in the past
    faults

tables    == <<pair, retries, status, result>>
handler   == <<todo, written, judged>>
agentVars == <<up, doing, step, answer, journal>>
world     == <<opened, ran>>
vars == <<tables, handler, retrying, conn, toAgent, toBridge, agentVars, world,
          timedOut, expired, faults>>

\* What an agent may answer. refused is what the Bridge may retry: an EA's
\* retcode in RETRY_RETCODES, a clicker's rejected. denied is an EA's own
\* rejected, which carries no retcode.
Answers == {"ok", "refused", "denied", "failed", "unknown"}

\* Mutant of Unsent: the flush takes every row in flight.
UnsentOrSent == {c \in Commands : status[c] \in {"PENDING", "SENT"}}

\* What flush_pending goes through, and what list_inflight_commands lists.
Unsent == {c \in Commands : status[c] = "PENDING"}
InFlight == {c \in Commands : status[c] \in {"PENDING", "SENT"}}

Init ==
    /\ pair = [i \in Intents |-> "none"] /\ retries = [i \in Intents |-> 0]
    /\ status = [c \in Commands |-> "none"] /\ result = [c \in Commands |-> "none"]
    /\ todo = {} /\ written = NoCommand /\ judged = NoCommand
    /\ retrying = {} /\ conn = FALSE
    /\ toAgent = <<>> /\ toBridge = <<>>
    /\ up = FALSE /\ doing = NoCommand /\ step = "idle" /\ answer = "none"
    /\ journal = [c \in Commands |-> "none"]
    /\ opened = [i \in Intents |-> 0] /\ ran = {}
    /\ timedOut = {} /\ expired = {}
    /\ faults = [breaks |-> 0, agent |-> 0, bridge |-> 0]

-----------------------------------------------------------------------------
(* The Bridge: creating and sending.                                         *)

BridgeIdle == todo = {} /\ judged = NoCommand

\* _open_for_client: pair and first command in one transaction. The agent must
\* be online; the clicker's route also waits for the command in flight.
OpenPair(i) ==
    /\ BridgeIdle /\ conn
    /\ pair[i] = "none"
    /\ Kind = "CLICKER" => InFlight = {}
    /\ pair' = [pair EXCEPT ![i] = "PENDING_OPEN"]
    /\ status' = [status EXCEPT ![<<i, 0>>] = "PENDING"]
    /\ todo' = {<<i, 0>>}
    /\ UNCHANGED <<retries, result, written, judged, retrying, conn, toAgent,
                   toBridge, agentVars, world, timedOut, expired, faults>>

\* _retry_open: the task wakes up, looks at the pair again, and writes the next
\* command. It does not look whether the agent is online.
RetryOpen(i) ==
    /\ BridgeIdle
    /\ i \in retrying
    /\ retrying' = retrying \ {i}
    /\ IF pair[i] = "PENDING_OPEN"
       THEN /\ status' = [status EXCEPT ![<<i, retries[i]>>] = "PENDING"]
            /\ todo' = {<<i, retries[i]>>}
       ELSE UNCHANGED <<status, todo>>
    /\ UNCHANGED <<pair, retries, result, written, judged, conn, toAgent,
                   toBridge, agentVars, world, timedOut, expired, faults>>

\* send_to puts the line on the socket of the registered connection, which may
\* be dead already.
WriteCommand(c) ==
    /\ c \in todo /\ written = NoCommand
    /\ conn /\ c \notin expired
    /\ written' = c
    /\ toAgent' = IF up THEN Append(toAgent, c) ELSE toAgent
    /\ UNCHANGED <<tables, todo, judged, retrying, conn, toBridge, agentVars,
                   world, timedOut, expired, faults>>

\* send_to finds no connection: the command stays PENDING.
LeavePending(c) ==
    /\ c \in todo /\ written = NoCommand
    /\ ~conn /\ c \notin expired
    /\ todo' = todo \ {c}
    /\ UNCHANGED <<tables, written, judged, retrying, conn, toAgent, toBridge,
                   agentVars, world, timedOut, expired, faults>>

\* mark_command_sent, after the bytes are out.
MarkSent ==
    /\ written # NoCommand
    /\ status' = [status EXCEPT ![written] = "SENT"]
    /\ todo' = todo \ {written}
    /\ written' = NoCommand
    /\ UNCHANGED <<pair, retries, result, judged, retrying, conn, toAgent,
                   toBridge, agentVars, world, timedOut, expired, faults>>

\* flush_pending finds the row too old: cancel_expired. The pair is left alone.
CancelExpired(c) ==
    /\ c \in todo /\ written = NoCommand
    /\ c \in expired
    /\ status' = [status EXCEPT ![c] = "CANCELLED"]
    /\ todo' = todo \ {c}
    /\ UNCHANGED <<pair, retries, result, written, judged, retrying, conn,
                   toAgent, toBridge, agentVars, world, timedOut, expired, faults>>

-----------------------------------------------------------------------------
(* The Bridge: answers and deadlines.                                        *)

\* command.status for an answer: unknown is written as a TIMEOUT, so that
\* nothing retries it.
StatusFor(a) == CASE a = "unknown" -> "TIMEOUT"
                  [] a = "ok"      -> "ACK_OK"
                  [] OTHER         -> "ACK_FAILED"

\* Mutant of RecvAck: the answer is acted on and the row keeps its status.
RecvAckUnrecorded ==
    /\ BridgeIdle /\ conn
    /\ toBridge # <<>>
    /\ LET m == Head(toBridge) IN
       /\ result' = [result EXCEPT ![m.cmd] = m.answer]
       /\ judged' = m.cmd
    /\ toBridge' = Tail(toBridge)
    /\ UNCHANGED <<pair, retries, status, todo, written, retrying, conn, toAgent,
                   agentVars, world, timedOut, expired, faults>>

\* _handle_ack, first half: mark_command_acked, whatever the row said before.
RecvAck ==
    /\ BridgeIdle /\ conn
    /\ toBridge # <<>>
    /\ LET m == Head(toBridge) IN
       /\ status' = [status EXCEPT ![m.cmd] = StatusFor(m.answer)]
       /\ result' = [result EXCEPT ![m.cmd] = m.answer]
       /\ judged' = m.cmd
    /\ toBridge' = Tail(toBridge)
    /\ UNCHANGED <<pair, retries, todo, written, retrying, conn, toAgent,
                   agentVars, world, timedOut, expired, faults>>

\* Mutant of ScanDeadline: the row times out and nobody is told.
ScanDeadlineSilent(c) ==
    /\ BridgeIdle
    /\ status[c] = "SENT" /\ c \in expired
    /\ status' = [status EXCEPT ![c] = "TIMEOUT"]
    /\ timedOut' = timedOut \cup {c}
    /\ UNCHANGED <<pair, retries, result, handler, retrying, conn, toAgent,
                   toBridge, agentVars, world, expired, faults>>

\* scan_deadlines, first half: a SENT row past its deadline becomes TIMEOUT.
\* A PENDING one is not looked at.
ScanDeadline(c) ==
    /\ BridgeIdle
    /\ status[c] = "SENT" /\ c \in expired
    /\ status' = [status EXCEPT ![c] = "TIMEOUT"]
    /\ timedOut' = timedOut \cup {c}
    /\ judged' = c
    /\ UNCHANGED <<pair, retries, result, todo, written, retrying, conn, toAgent,
                   toBridge, agentVars, world, expired, faults>>

Judging(i) ==
    /\ judged # NoCommand /\ i = judged[1]
    /\ judged' = NoCommand
    /\ UNCHANGED <<status, result, todo, written, conn, toAgent, toBridge,
                   agentVars, world, timedOut, expired, faults>>

Waiting(i) == pair[i] = "PENDING_OPEN"

\* The pair has been settled meanwhile: the answer is recorded and that is all.
JudgeTooLate(i) ==
    /\ Judging(i) /\ ~Waiting(i)
    /\ UNCHANGED <<pair, retries, retrying>>

\* Mutant of Success: an EA that does not know is believed.
SuccessOrUnknown(a) == a \in {"ok", "unknown"}

Success(a) == a = "ok"

\* on_command_acked, ok: _on_open_success. A clicker's ok says only that it
\* pressed; its pair waits for the position to show up (D-23).
JudgeOk(i) ==
    /\ Judging(i) /\ Waiting(i)
    /\ Success(result[judged])
    /\ pair' = IF Kind = "EA" THEN [pair EXCEPT ![i] = "OPEN"] ELSE pair
    /\ UNCHANGED <<retries, retrying>>

\* Nobody knows: the pair stays as it is, for reconciliation. A clicker that is
\* silent past the deadline is treated the same.
JudgeUnclear(i) ==
    /\ Judging(i) /\ Waiting(i)
    /\ \/ result[judged] = "unknown"
       \/ Kind = "CLICKER" /\ result[judged] = "none"
    /\ UNCHANGED <<pair, retries, retrying>>

\* Mutant of Retryable: silence past the deadline is retried too.
RetryableOrSilent(a) == a \in {"refused", "none"}

\* RETRY_RETCODES and D-24: the answers that may be tried again.
Retryable(a) == a = "refused"

\* Mutant of RetriesLeft: one more than the client allows.
OneRetryMore(i) == retries[i] <= MaxRetry

RetriesLeft(i) == retries[i] < MaxRetry

\* _on_open_failure and _on_ui_ack: count the retry, leave a task asleep.
JudgeRetry(i) ==
    /\ Judging(i) /\ Waiting(i)
    /\ Retryable(result[judged]) /\ RetriesLeft(i)
    /\ retries' = [retries EXCEPT ![i] = @ + 1]
    /\ retrying' = retrying \cup {i}
    /\ UNCHANGED pair

\* Mutant of Hopeless: what nobody knows is taken for a failure.
HopelessOrUnknown(a) == a \in {"denied", "failed", "unknown"}

Hopeless(a) == a \in {"denied", "failed"}

\* _apply_open_fail_policy, or on_command_timeout for an EA.
JudgeFailed(i) ==
    /\ Judging(i) /\ Waiting(i)
    /\ \/ Hopeless(result[judged])
       \/ Retryable(result[judged]) /\ ~RetriesLeft(i)
       \/ result[judged] = "none" /\ Kind = "EA"
    /\ pair' = [pair EXCEPT ![i] = "OPEN_FAILED"]
    /\ UNCHANGED <<retries, retrying>>

-----------------------------------------------------------------------------
(* The agent. It handles one command at a time.                              *)

AgentIdle == doing = NoCommand

\* A socket and a handshake; the Bridge registers the connection in place of any
\* older one and, before it reads on, flushes what is PENDING.
Connect ==
    /\ AgentIdle /\ ~up
    /\ BridgeIdle
    /\ up' = TRUE /\ conn' = TRUE
    /\ toAgent' = <<>> /\ toBridge' = <<>>
    /\ todo' = Unsent
    /\ UNCHANGED <<tables, written, judged, retrying, doing, step, answer, journal,
                   world, timedOut, expired, faults>>

NextCommand(c) ==
    /\ AgentIdle /\ up
    /\ toAgent # <<>> /\ c = Head(toAgent)
    /\ toAgent' = Tail(toAgent)

\* Mutant of Known: a reservation without an answer counts for nothing.
KnownIfAnswered(c) == journal[c] \in Answers

\* Has the agent seen the command before? Then it never runs it again.
Known(c) == journal[c] # "none"

\* HandleCommand and handle_command, a new command: reserve it on disk before
\* anything else.
Reserve(c) ==
    /\ NextCommand(c) /\ ~Known(c)
    /\ journal' = [journal EXCEPT ![c] = "reserved"]
    /\ doing' = c /\ step' = "reserved"
    /\ UNCHANGED <<tables, handler, retrying, conn, toBridge, up, answer, world,
                   timedOut, expired, faults>>

Answered(c, a) ==
    IF conn THEN Append(toBridge, [cmd |-> c, answer |-> a]) ELSE toBridge

\* The same command again: the old answer word for word, or unknown if there is
\* a reservation and no answer. The EA writes that unknown down, the clicker
\* does not.
AnswerAgain(c) ==
    /\ NextCommand(c) /\ Known(c)
    /\ IF journal[c] = "reserved"
       THEN /\ toBridge' = Answered(c, "unknown")
            /\ journal' = IF Kind = "EA" THEN [journal EXCEPT ![c] = "unknown"]
                                         ELSE journal
       ELSE /\ toBridge' = Answered(c, journal[c])
            /\ UNCHANGED journal
    /\ UNCHANGED <<tables, handler, retrying, conn, up, doing, step, answer, world,
                   timedOut, expired, faults>>

\* What came of a command that is not run.
Refusals == IF Kind = "EA" THEN {"denied", "refused"} ELSE {"refused"}

\* Too late, an invalid payload, trading not allowed, a broker that refuses: no
\* position. Past the deadline the command goes no further.
Refuse(a) ==
    /\ step = "reserved"
    /\ a \in Refusals
    /\ Kind = "EA" /\ doing \in expired => a = "denied"
    /\ answer' = a /\ step' = "acted"
    /\ UNCHANGED <<tables, handler, retrying, conn, toAgent, toBridge, up, doing,
                   journal, world, timedOut, expired, faults>>

\* OrderSend, or the press of the button, and the position exists. The answer
\* need not say so: a retcode such as 10010, a driver that fails afterwards.
OpenPosition(a) ==
    /\ step = "reserved" /\ doing \notin expired
    /\ a \in {"ok", "failed"} \cup (IF Kind = "CLICKER" THEN {"unknown"} ELSE {})
    /\ opened' = [opened EXCEPT ![doing[1]] = @ + 1]
    /\ ran' = ran \cup {doing}
    /\ answer' = a /\ step' = "acted"
    /\ UNCHANGED <<tables, handler, retrying, conn, toAgent, toBridge, up, doing,
                   journal, timedOut, expired, faults>>

\* The order goes out and no position comes of it. A clicker has pressed and
\* does not see this.
OpenNothing(a) ==
    /\ step = "reserved" /\ doing \notin expired
    /\ a \in {"failed"} \cup (IF Kind = "CLICKER" THEN {"ok", "unknown"} ELSE {})
    /\ answer' = a /\ step' = "acted"
    /\ UNCHANGED <<tables, handler, retrying, conn, toAgent, toBridge, up, doing,
                   journal, world, timedOut, expired, faults>>

\* The EA answers first and then writes the answer down; the clicker the other
\* way round.
SendAck ==
    /\ step = IF Kind = "EA" THEN "acted" ELSE "saved"
    /\ toBridge' = Answered(doing, answer)
    /\ IF Kind = "EA" THEN step' = "sent" /\ UNCHANGED <<doing, answer>>
       ELSE step' = "idle" /\ doing' = NoCommand /\ answer' = "none"
    /\ UNCHANGED <<tables, handler, retrying, conn, toAgent, up, journal, world,
                   timedOut, expired, faults>>

\* SetCommandAck, complete.
SaveAnswer ==
    /\ step = IF Kind = "EA" THEN "sent" ELSE "acted"
    /\ journal' = [journal EXCEPT ![doing] = answer]
    /\ IF Kind = "EA" THEN step' = "idle" /\ doing' = NoCommand /\ answer' = "none"
       ELSE step' = "saved" /\ UNCHANGED <<doing, answer>>
    /\ UNCHANGED <<tables, handler, retrying, conn, toAgent, toBridge, up, world,
                   timedOut, expired, faults>>

\* The agent reads the end of a connection the Bridge no longer has.
AgentDrop ==
    /\ AgentIdle /\ up /\ ~conn
    /\ up' = FALSE /\ toAgent' = <<>>
    /\ UNCHANGED <<tables, handler, retrying, conn, toBridge, doing, step, answer,
                   journal, world, timedOut, expired, faults>>

-----------------------------------------------------------------------------
(* Time and faults.                                                          *)

\* deadline_at passes. Retries of a pair are created later and expire later.
\* A handler takes no time.
Expire(c) ==
    /\ BridgeIdle
    /\ status[c] # "none" /\ c \notin expired
    /\ \A m \in Attempts : m < c[2] => <<c[1], m>> \in expired
    /\ expired' = expired \cup {c}
    /\ UNCHANGED <<tables, handler, retrying, conn, toAgent, toBridge, agentVars,
                   world, timedOut, faults>>

\* The Bridge learns that the connection is gone: a broken link, which costs a
\* fault, or the end of one whose agent is. What the agent has not read may
\* still reach it.
BridgeDrop ==
    /\ BridgeIdle /\ conn
    /\ up => faults.breaks < MaxBreaks
    /\ faults' = IF up THEN [faults EXCEPT !.breaks = @ + 1] ELSE faults
    /\ conn' = FALSE /\ toBridge' = <<>>
    /\ UNCHANGED <<tables, handler, retrying, toAgent, agentVars, world,
                   timedOut, expired>>

\* The agent dies: its file stays, and what it sent may still be read.
AgentCrash ==
    /\ faults.agent < MaxAgentCrashes
    /\ faults' = [faults EXCEPT !.agent = @ + 1]
    /\ up' = FALSE /\ toAgent' = <<>>
    /\ doing' = NoCommand /\ step' = "idle" /\ answer' = "none"
    /\ UNCHANGED <<tables, handler, retrying, conn, toBridge, journal, world,
                   timedOut, expired>>

\* The Bridge dies: the tables stay, the retry tasks and the handler are gone.
BridgeCrash ==
    /\ faults.bridge < MaxBridgeCrashes
    /\ faults' = [faults EXCEPT !.bridge = @ + 1]
    /\ todo' = {} /\ written' = NoCommand /\ judged' = NoCommand
    /\ retrying' = {} /\ conn' = FALSE /\ toBridge' = <<>>
    /\ UNCHANGED <<tables, toAgent, agentVars, world, timedOut, expired>>

BridgeStep ==
    \/ \E i \in Intents : RetryOpen(i) \/ JudgeTooLate(i) \/ JudgeOk(i)
                          \/ JudgeUnclear(i) \/ JudgeRetry(i) \/ JudgeFailed(i)
    \/ \E c \in Commands : WriteCommand(c) \/ LeavePending(c) \/ CancelExpired(c)
                           \/ ScanDeadline(c)
    \/ MarkSent
    \/ RecvAck

AgentStep ==
    \/ Connect
    \/ \E c \in Commands : Reserve(c) \/ AnswerAgain(c)
    \/ \E a \in Answers : Refuse(a) \/ OpenPosition(a) \/ OpenNothing(a)
    \/ SendAck
    \/ SaveAnswer
    \/ AgentDrop

Next ==
    \/ \E i \in Intents : OpenPair(i)
    \/ BridgeStep
    \/ AgentStep
    \/ \E c \in Commands : Expire(c)
    \/ BridgeDrop \/ AgentCrash \/ BridgeCrash

Spec == Init /\ [][Next]_vars

\* The event loop and the agent keep running and time passes; nothing forces a
\* trade, a break or a crash.
Fairness ==
    /\ WF_vars(BridgeStep)
    /\ WF_vars(AgentStep)
    /\ \A c \in Commands : WF_vars(Expire(c))
    /\ WF_vars(~up /\ BridgeDrop)

FairSpec == Spec /\ Fairness

-----------------------------------------------------------------------------
(* Properties.                                                               *)

\* The types of the variables.
TypeOK ==
    /\ pair \in [Intents -> {"none", "PENDING_OPEN", "OPEN", "OPEN_FAILED"}]
    /\ retries \in [Intents -> Attempts]
    /\ status \in [Commands -> {"none", "PENDING", "SENT", "ACK_OK", "ACK_FAILED",
                                "TIMEOUT", "CANCELLED"}]
    /\ result \in [Commands -> Answers \cup {"none"}]
    /\ todo \subseteq Commands
    /\ written \in Commands \cup {NoCommand}
    /\ judged \in Commands \cup {NoCommand}
    /\ retrying \subseteq Intents
    /\ conn \in BOOLEAN /\ up \in BOOLEAN
    /\ toAgent \in Seq(Commands)
    /\ toBridge \in Seq([cmd : Commands, answer : Answers])
    /\ doing \in Commands \cup {NoCommand}
    /\ step \in {"idle", "reserved", "acted", "saved", "sent"}
    /\ answer \in Answers \cup {"none"}
    /\ journal \in [Commands -> Answers \cup {"none", "reserved"}]
    /\ opened \in [Intents -> Nat]
    /\ ran \subseteq Commands
    /\ timedOut \subseteq Commands /\ expired \subseteq Commands
    /\ faults \in [breaks : Nat, agent : Nat, bridge : Nat]

\* A Master position is copied at most once: no crash, redelivery, late answer
\* or retry opens a second position for the same pair.
AtMostOnce == \A i \in Intents : opened[i] <= 1

\* An EA's pair is called OPEN only when its position exists, whichever of its
\* commands the ok came from.
OpenHasPosition ==
    Kind = "EA" => \A i \in Intents : pair[i] = "OPEN" => opened[i] = 1

\* A pair written off although its position exists has a command that nobody
\* answered in time or one that failed without proof of refusal; an unknown
\* alone, a lost retry or a refusal never writes off an open position.
WriteOffHasReason ==
    \A i \in Intents : pair[i] = "OPEN_FAILED" /\ opened[i] > 0 =>
        \E n \in Attempts : \/ Kind = "EA" /\ <<i, n>> \in timedOut
                            \/ result[<<i, n>>] = "failed"

\* One attempt at a time: a pair never has two commands that may still be sent
\* or answered, nor a retry asleep beside one.
OneAttemptInFlight ==
    \A i \in Intents :
        /\ \A m, n \in Attempts : <<i, m>> \in InFlight /\ <<i, n>> \in InFlight => m = n
        /\ i \in retrying => \A n \in Attempts : <<i, n>> \notin InFlight

\* cancel_expired is for a command that was never sent (its docstring); the
\* retention job then deletes the row as one without consequences.
CancelledNeverRan == \A c \in Commands : status[c] = "CANCELLED" => c \notin ran

\* After a TIMEOUT nothing is tried again (on_command_timeout, D-13).
NoRetryAfterTimeout ==
    \A i \in Intents, m, n \in Attempts :
        m < n /\ <<i, m>> \in timedOut => status[<<i, n>>] = "none"

\* While the Bridge stays up, an EA's pair is settled sooner or later, or its
\* command was cancelled with an alert: no lost message, broken link or dead
\* terminal leaves it waiting for ever.
EventuallySettled ==
    \A i \in Intents :
        pair[i] = "PENDING_OPEN" ~>
            \/ pair[i] \in {"OPEN", "OPEN_FAILED"}
            \/ \E n \in Attempts : status[<<i, n>>] = "CANCELLED"

\* The promise of OpenOnce, with the broker's positions as the market.
Promise == INSTANCE OpenOnce WITH book <- pair, market <- opened,
                                  OkIsOpen <- Kind = "EA"
PromiseKept == Promise!Spec
=============================================================================
