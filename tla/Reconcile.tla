----------------------------- MODULE Reconcile -----------------------------
(***************************************************************************)
(* Reconciliation (bridge/engine/reconcile.py): a round asks the Master's    *)
(* and then each Client's terminal for its positions, compares them with the *)
(* table of pairs and writes down findings; a person accepts or skips them   *)
(* on the dashboard (web/app.py).                                            *)
(*                                                                          *)
(* A round waits for each snapshot in turn while copies are opened and       *)
(* closed, and a snapshot may have been on its way when the round began. The *)
(* comparison itself never gives way and is one step.                        *)
(*                                                                          *)
(* A copy is a pair <<m, c>>. How pairs are opened and closed is OpenFlow's   *)
(* and CloseFlow's subject: here `work` is the one command of a pair that is *)
(* on its way, and its answer may be lost.                                    *)
(***************************************************************************)
EXTENDS Integers, FiniteSets

CONSTANTS
    Masters,      \* the Master's positions
    Clients,
    Ui,           \* Clients whose copies carry a tag: open_route is UI
    Terminal,     \* the Master's terminal
    NoMaster, NoClient,
    MaxRounds, MaxUpsets

ASSUME ReconcileAssumption ==
    /\ Ui \subseteq Clients /\ Terminal \notin Clients
    /\ NoMaster \notin Masters /\ NoClient \notin Clients
    /\ {"idle", "next"} \cap (Clients \cup {Terminal}) = {}
    /\ {MaxRounds, MaxUpsets} \subseteq Nat

Copies == Masters \X Clients
Agents == Clients \cup {Terminal}

VARIABLES
    market,     \* the Master's positions: idle, open, closed
    leg,        \* the position a pair's order has opened: none, live, gone
    bare,       \* pairs whose position has lost its tag
    stray,      \* Clients with a position of the copies' symbol, opened by hand
    pair,       \* pair.status; "none" before the row exists
    bound,      \* pair.client_position_id: "null", or "own", the position of its own order
    odd,        \* pairs whose volume or deal reason is not what it should be
    work,       \* the pair's command on its way: none, opening, closing
    asked,      \* agents with a REQUEST_SNAPSHOT they have not answered
    sent,       \* their snapshots on the way: sets of positions, or Nothing
    latest,     \* server.latest_snapshots, of the agent a round waits for and if it is
                \* not what was there before (`truoc`): otherwise Nothing
    round,      \* where run() is: its trigger's number, the agent it waits for
    findings,   \* rows of reconcile_finding that are PENDING
    upsets

terminal_vars == <<market, leg, bare, stray>>
book_vars == <<pair, bound, odd>>
snapshot_vars == <<asked, sent, latest>>
vars == <<terminal_vars, book_vars, work, snapshot_vars, round, findings, upsets>>

Nothing == {"nothing"}
Live == {"OPEN", "CLOSING"}                     \* LIVE_STATUSES
Done == {"CLOSED", "OPEN_FAILED"}               \* DONE_STATUSES
Idle == [at |-> "idle", n |-> 0, master |-> {}, clients |-> [c \in {} |-> {}]]

\* What a terminal holds: the Master's positions, or the owners of the Client's.
Holds(a) ==
    IF a = Terminal THEN {m \in Masters : market[m] = "open"}
    ELSE {p \in Copies : p[2] = a /\ leg[p] = "live"} \cup {p \in {<<NoMaster, a>>} : a \in stray}

Init ==
    /\ market = [m \in Masters |-> "idle"]
    /\ leg = [p \in Copies |-> "none"] /\ bare = {} /\ stray = {}
    /\ pair = [p \in Copies |-> "none"]
    /\ bound = [p \in Copies |-> "null"]
    /\ work = [p \in Copies |-> "none"]
    /\ sent = [a \in Agents |-> Nothing] /\ latest = [a \in Agents |-> Nothing]
    /\ asked = {} /\ odd = {} /\ findings = {}
    /\ round = Idle /\ upsets = 0

-----------------------------------------------------------------------------
(* Trading, which goes on meanwhile.                                         *)

Upset == upsets < MaxUpsets /\ upsets' = upsets + 1
TradingOnly == UNCHANGED <<snapshot_vars, round, findings>>

MasterMoves(m) ==
    /\ \/ market[m] = "idle" /\ market' = [market EXCEPT ![m] = "open"]
       \/ market[m] = "open" /\ market' = [market EXCEPT ![m] = "closed"]
    /\ UNCHANGED <<leg, bare, stray, book_vars, work, upsets>> /\ TradingOnly

\* _open_for_client: the event may be handled after the Master has closed.
Copy(p) ==
    /\ market[p[1]] # "idle" /\ pair[p] = "none"
    /\ pair' = [pair EXCEPT ![p] = "PENDING_OPEN"]
    /\ work' = [work EXCEPT ![p] = "opening"]
    /\ UNCHANGED <<terminal_vars, bound, odd, upsets>> /\ TradingOnly

\* The order is filled, and sometimes its tag is stripped.
Fill(p) ==
    /\ work[p] = "opening" /\ leg[p] = "none"
    /\ leg' = [leg EXCEPT ![p] = "live"]
    /\ \/ UNCHANGED <<bare, upsets>>
       \/ p[2] \in Ui /\ Upset /\ bare' = bare \cup {p}
    /\ UNCHANGED <<market, stray, book_vars, work>> /\ TradingOnly

\* The answer to an open, or the event that binds its position; an answer comes to
\* nothing when the pair no longer waits.
Opened(p) ==
    /\ work[p] = "opening"
    /\ work' = [work EXCEPT ![p] = "none"]
    /\ IF pair[p] # "PENDING_OPEN" THEN UNCHANGED <<pair, bound>>
       ELSE /\ pair' = [pair EXCEPT ![p] = IF leg[p] = "none" THEN "OPEN_FAILED" ELSE "OPEN"]
            /\ bound' = [bound EXCEPT ![p] = IF leg[p] = "none" THEN @ ELSE "own"]
    /\ UNCHANGED <<terminal_vars, odd, upsets>> /\ TradingOnly

\* The answer is lost, unclear or never handled.
LoseAnswer(p) ==
    /\ work[p] # "none" /\ Upset
    /\ work' = [work EXCEPT ![p] = "none"]
    /\ UNCHANGED <<terminal_vars, book_vars>> /\ TradingOnly

\* on_master_close.
HearMaster(p) ==
    /\ market[p[1]] = "closed" /\ pair[p] = "OPEN" /\ work[p] = "none"
    /\ pair' = [pair EXCEPT ![p] = "CLOSING"]
    /\ work' = [work EXCEPT ![p] = "closing"]
    /\ UNCHANGED <<terminal_vars, bound, odd, upsets>> /\ TradingOnly

Unfill(p) ==
    /\ leg[p] = "live"
    /\ IF work[p] = "closing" THEN UNCHANGED upsets ELSE Upset
    /\ leg' = [leg EXCEPT ![p] = "gone"]
    /\ UNCHANGED <<market, bare, stray, book_vars, work>> /\ TradingOnly

\* on_close_acked.
Closed(p) ==
    /\ work[p] = "closing"
    /\ work' = [work EXCEPT ![p] = "none"]
    /\ pair' = [pair EXCEPT ![p] = IF leg[p] = "live" THEN "ORPHANED" ELSE "CLOSED"]
    /\ UNCHANGED <<terminal_vars, bound, odd, upsets>> /\ TradingOnly

\* on_client_close: without a cascade the pair becomes ORPHANED.
HearClient(p) ==
    /\ leg[p] = "gone" /\ bound[p] = "own" /\ pair[p] \in Live /\ work[p] = "none"
    /\ \E s \in {"CLOSED", "ORPHANED"} : pair' = [pair EXCEPT ![p] = s]
    /\ UNCHANGED <<terminal_vars, bound, odd, work, upsets>> /\ TradingOnly

\* A position opened or closed by hand; a volume or a reason that is not as ordered.
Meddle ==
    /\ Upset
    /\ \/ /\ \E c \in Clients : stray' = IF c \in stray THEN stray \ {c} ELSE stray \cup {c}
          /\ UNCHANGED odd
       \/ /\ \E p \in Copies : pair[p] \in Live /\ odd' = odd \cup {p}
          /\ UNCHANGED stray
    /\ UNCHANGED <<market, leg, bare, pair, bound, work>> /\ TradingOnly

Trading ==
    \/ \E m \in Masters : MasterMoves(m)
    \/ \E p \in Copies : Copy(p) \/ Fill(p) \/ Opened(p) \/ LoseAnswer(p) \/ HearMaster(p)
                         \/ Unfill(p) \/ Closed(p) \/ HearClient(p)
    \/ Meddle

-----------------------------------------------------------------------------
(* Snapshots.                                                                *)

BooksOnly == UNCHANGED <<terminal_vars, book_vars, work>>

\* on_agent_online asks too. A request is not sent on top of another.
AgentOnline(a) ==
    /\ Upset
    /\ asked' = asked \cup {a}
    /\ BooksOnly /\ UNCHANGED <<sent, latest, round, findings>>

TakeSnapshot(a) ==
    /\ a \in asked /\ sent[a] = Nothing
    /\ asked' = asked \ {a}
    /\ sent' = [sent EXCEPT ![a] = Holds(a)]
    /\ BooksOnly /\ UNCHANGED <<latest, round, findings, upsets>>

\* _handle_snapshot.
RecvSnapshot(a) ==
    /\ sent[a] # Nothing
    /\ latest' = IF round.at = a THEN [latest EXCEPT ![a] = sent[a]] ELSE latest
    /\ sent' = [sent EXCEPT ![a] = Nothing]
    /\ BooksOnly /\ UNCHANGED <<asked, round, findings, upsets>>

\* _snapshot: what has come before it began does not count, what was on its way does.
Ask(a) == asked' = asked \cup {a} /\ UNCHANGED sent
Have(a) == round.at = a /\ latest[a] # Nothing
Forget(a) == latest' = [latest EXCEPT ![a] = Nothing]

-----------------------------------------------------------------------------
(* A round.                                                                  *)

BeginRound ==
    /\ round.at = "idle" /\ round.n < MaxRounds
    /\ Ask(Terminal) /\ UNCHANGED latest
    /\ round' = [Idle EXCEPT !.at = Terminal, !.n = round.n + 1]
    /\ BooksOnly /\ UNCHANGED <<findings, upsets>>

\* No answer within SNAPSHOT_TIMEOUT_SEC: without the Master's the round is over.
MasterSilent ==
    /\ round.at = Terminal /\ ~Have(Terminal) /\ Upset
    /\ round' = [Idle EXCEPT !.n = round.n]
    /\ BooksOnly /\ UNCHANGED <<snapshot_vars, findings>>

\* The Clients are asked one after the other.
AskClient(c) ==
    /\ round.at = "next" \/ Have(Terminal)
    /\ c \notin DOMAIN round.clients
    /\ Ask(c) /\ Forget(Terminal)
    /\ round' = [round EXCEPT !.at = c, !.master = IF round.at = Terminal THEN latest[Terminal] ELSE @]
    /\ BooksOnly /\ UNCHANGED <<findings, upsets>>

WithClient(c, snapshot) ==
    [round EXCEPT !.at = "next",
                  !.clients = [d \in DOMAIN @ \cup {c} |-> IF d = c THEN snapshot ELSE @[d]]]

HaveClient(c) ==
    /\ round.at = c
    /\ IF Have(c) THEN UNCHANGED upsets ELSE Upset
    /\ round' = WithClient(c, latest[c])
    /\ Forget(c)
    /\ BooksOnly /\ UNCHANGED <<asked, sent, findings>>

Seen(c) == round.clients[c] # Nothing
InMaster(p) == p[1] \in round.master
InClient(p) == bound[p] = "own" /\ p \in round.clients[p[2]]

\* _ung_vien_khong_chu: positions no pair, whatever its status, is bound to.
Unowned(c) ==
    {q \in round.clients[c] : q[1] = NoMaster \/ bound[q] # "own"}
ByTag(p) == {q \in Unowned(p[2]) : p[2] \in Ui /\ q = p /\ p \notin bare}

Finding(kind, action, about, seen) == [kind |-> kind, action |-> action, about |-> about, seen |-> seen]
OfPair(kind, action, p) == Finding(kind, action, p, pair[p])

\* _soi_cap_dang_mo
FromLive(p) ==
    {f \in {OfPair("MASTER_CLOSED_OFFLINE", "CLOSE_CLIENT", p),
            OfPair("CLIENT_CLOSED_OFFLINE", "MARK_ORPHANED", p),
            OfPair("BOTH_CLOSED", "MARK_CLOSED", p)} :
        /\ ~(InMaster(p) /\ InClient(p))
        /\ f.kind = "MASTER_CLOSED_OFFLINE" <=> ~InMaster(p) /\ InClient(p)
        /\ f.kind = "CLIENT_CLOSED_OFFLINE" <=> InMaster(p) /\ ~InClient(p)}

\* _soi_cap_dang_cho: a Master position that is gone ends the matter, whatever the
\* Client holds.
FromPending(p) ==
    IF ~InMaster(p) THEN {OfPair("BOTH_CLOSED", "MARK_CLOSED", p)}
    ELSE IF ByTag(p) # {} THEN {OfPair("ACK_LOST", "REBIND_BY_TAG", p)}
    ELSE IF Unowned(p[2]) # {} THEN {OfPair("ACK_LOST", "REBIND_BY_GUESS", p)}
    ELSE {OfPair("CLIENT_NOT_OPENED", "APPLY_POLICY", p)}

\* _soi_cap_mo_coi: an ORPHANED pair is looked at only when both positions are gone.
FromOrphan(p) ==
    {f \in {OfPair("ORPHAN_RESOLVED", "MARK_CLOSED", p)} : ~InMaster(p) /\ ~InClient(p)}

\* _soi_lech_volume, and _soi_reason, which looks at ORPHANED pairs as well.
Watched(p) == pair[p] \in Live \cup {"ORPHANED"}
FromOdd(p) == {f \in {OfPair("MISMATCH", "ALERT_ONLY", p)} : p \in odd /\ InClient(p) /\ Watched(p)}

\* Mutant of Booked: a pair that is being closed is left to its close.
BookedOpenOnly(p) == pair[p] = "OPEN"
Booked(p) == pair[p] \in Live

FromPair(p) ==
    (IF Booked(p) THEN FromLive(p)
     ELSE IF pair[p] = "PENDING_OPEN" THEN FromPending(p)
     ELSE IF pair[p] = "ORPHANED" THEN FromOrphan(p) ELSE {}) \cup FromOdd(p)

FromPairs == UNION {FromPair(p) : p \in {q \in Copies : pair[q] \notin Done \cup {"none"} /\ Seen(q[2])}}

\* _soi_vi_the_master_thua
FromMaster ==
    {Finding("UNPAIRED_MASTER", "ALERT_ONLY", <<m, NoClient>>, "none") :
        m \in {n \in round.master : \A c \in Clients : pair[<<n, c>>] \in Done \cup {"none"}}}

\* _soi_vi_the_client_thua: a position without a tag is nobody's business.
FromClients ==
    {Finding("UNPAIRED_CLIENT", "ALERT_ONLY", <<NoMaster, c>>, "none") :
        c \in {d \in Clients \cap Ui : Seen(d) /\ \E q \in Unowned(d) : q[1] # NoMaster /\ q \notin bare}}

\* Mutant of SameKey: a kind of finding is written down once.
SameKind(f, g) == f.kind = g.kind
\* _create_finding: one row PENDING per kind and pair, Master position or Client.
SameKey(f, g) == f.kind = g.kind /\ f.about = g.about
\* Mutant of Written: what is pending already is not looked up.
WrittenAgain(new) == findings \cup new
Written(new) == findings \cup {f \in new : ~\E g \in findings : SameKey(f, g)}

Compare ==
    /\ round.at = "next" /\ DOMAIN round.clients = Clients
    /\ findings' = Written(FromPairs \cup FromMaster \cup FromClients)
    /\ round' = [Idle EXCEPT !.n = round.n]
    /\ BooksOnly /\ UNCHANGED <<snapshot_vars, upsets>>

Round ==
    \/ BeginRound \/ MasterSilent \/ Compare
    \/ \E c \in Clients : AskClient(c) \/ HaveClient(c)

-----------------------------------------------------------------------------
(* What a person does with a finding, on the dashboard: what would send a    *)
(* command to a terminal is refused there, and so is what has to be guessed. *)

\* Mutant of Current: a finding is applied whatever the pair has become.
CurrentOrNot(f) == TRUE
\* _trang_thai_luc_phat_hien: the pair's status is still the one in the evidence.
Current(f) == f.about \in Copies => pair[f.about] = f.seen

Resolve(f) == findings' = findings \ {f}
PersonOnly == UNCHANGED <<terminal_vars, odd, work, snapshot_vars, round, upsets>>

AcceptClosed(f) ==
    /\ f.action = "MARK_CLOSED"
    /\ pair' = [pair EXCEPT ![f.about] = "CLOSED"]
    /\ UNCHANGED bound

AcceptOrphaned(f) ==
    /\ f.action = "MARK_ORPHANED"
    /\ pair' = [pair EXCEPT ![f.about] = "ORPHANED"]
    /\ UNCHANGED bound

\* _ghep_lai, mark_pair_open
AcceptRebind(f) ==
    /\ f.action = "REBIND_BY_TAG"
    /\ pair' = [pair EXCEPT ![f.about] = "OPEN"]
    /\ bound' = [bound EXCEPT ![f.about] = "own"]

AcceptAlert(f) == f.action = "ALERT_ONLY" /\ UNCHANGED <<pair, bound>>

Accept(f) ==
    /\ Current(f)
    /\ AcceptClosed(f) \/ AcceptOrphaned(f) \/ AcceptRebind(f) \/ AcceptAlert(f)
    /\ Resolve(f) /\ PersonOnly

\* skip_finding: an alert stays.
Skip(f) == Resolve(f) /\ UNCHANGED <<pair, bound>> /\ PersonOnly

Person == \E f \in findings : Accept(f) \/ Skip(f)

Next ==
    \/ Trading \/ Round \/ Person
    \/ \E a \in Agents : AgentOnline(a) \/ TakeSnapshot(a) \/ RecvSnapshot(a)

Spec == Init /\ [][Next]_vars

-----------------------------------------------------------------------------
(* Correctness.                                                              *)

\* Types; no two pending findings are about the same thing (reconcile.py:201-217).
TypeOK ==
    /\ market \in [Masters -> {"idle", "open", "closed"}]
    /\ leg \in [Copies -> {"none", "live", "gone"}]
    /\ pair \in [Copies -> {"none", "PENDING_OPEN", "ORPHANED"} \cup Live \cup Done]
    /\ bound \in [Copies -> {"null", "own"}]
    /\ work \in [Copies -> {"none", "opening", "closing"}]
    /\ asked \subseteq Agents /\ stray \subseteq Clients
    /\ bare \subseteq Copies /\ odd \subseteq Copies
    /\ round.at \in Agents \cup {"idle", "next"} /\ round.n \in 0 .. MaxRounds
    /\ \A f, g \in findings : f # g => ~SameKey(f, g)

\* The snapshots of the round still show what the terminals hold.
Accurate ==
    /\ round.master = Holds(Terminal)
    /\ \A c \in Clients : Seen(c) => round.clients[c] = Holds(c)

\* The books and the terminals disagree about a pair that is not settled, or the
\* Master, or a tagged copy that is bound to nothing, has a position no pair stands for.
Wrong(about) ==
    \/ /\ about \in Copies /\ Seen(about[2])
       /\ \/ pair[about] \in Live /\ ~(market[about[1]] = "open" /\ leg[about] = "live")
          \/ pair[about] = "ORPHANED" /\ market[about[1]] # "open" /\ leg[about] # "live"
          \/ pair[about] = "PENDING_OPEN"
    \/ /\ about[2] = NoClient /\ market[about[1]] = "open"
       /\ \A c \in Clients : pair[<<about[1], c>>] \in Done \cup {"none"}
    \/ /\ about[1] = NoMaster /\ Seen(about[2]) /\ about[2] \in Ui
       /\ \E p \in Copies : p[2] = about[2] /\ leg[p] = "live" /\ bound[p] = "null" /\ p \notin bare

\* A round whose snapshots are still true when they are compared leaves nothing out:
\* whatever is wrong is the subject of a finding somebody has to deal with, whatever
\* findings were there before and however they were dealt with (the test for
\* duplicates in _create_finding, reconcile.py:201-217).
AllIsFound ==
    [][round.at = "next" /\ round'.at = "idle" /\ Accurate =>
          \A about \in Copies \cup (Masters \X {NoClient}) \cup ({NoMaster} \X Clients) :
              Wrong(about) => \E f \in findings' : f.about = about]_vars

\* A finding is a photograph: however late it is accepted, it never brings a pair
\* that has been settled meanwhile back to life (reconcile.py:551).
SettledStaysSettled ==
    [][\A p \in Copies : pair[p] \in Done => pair'[p] \in Done \cup {"ORPHANED"}]_vars
=============================================================================
