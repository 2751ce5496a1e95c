-------------------------- MODULE ReconcileProofs --------------------------
(***************************************************************************)
(* What Reconcile promises for any number of Masters, Clients, rounds and    *)
(* upsets: a round that still sees the truth leaves nothing out, no finding  *)
(* is written down twice, and none brings a settled pair back to life.       *)
(***************************************************************************)
EXTENDS Reconcile, TLAPS

Kinds == {"MASTER_CLOSED_OFFLINE", "CLIENT_CLOSED_OFFLINE", "BOTH_CLOSED", "ACK_LOST",
          "CLIENT_NOT_OPENED", "ORPHAN_RESOLVED", "MISMATCH", "UNPAIRED_MASTER", "UNPAIRED_CLIENT"}
PairState == {"none", "PENDING_OPEN", "ORPHANED"} \cup Live \cup Done

Terminals ==
    /\ market \in [Masters -> {"idle", "open", "closed"}]
    /\ leg \in [Copies -> {"none", "live", "gone"}]
    /\ bare \subseteq Copies /\ stray \subseteq Clients

Books ==
    /\ pair \in [Copies -> PairState]
    /\ bound \in [Copies -> {"null", "own"}]
    /\ odd \subseteq Copies
    /\ work \in [Copies -> {"none", "opening", "closing"}]

RoundOK ==
    /\ round = [at |-> round.at, n |-> round.n, master |-> round.master, clients |-> round.clients]
    /\ round.at \in Agents \cup {"idle", "next"} /\ round.n \in 0 .. MaxRounds

\* What changes a pair is about a pair, and only a waiting pair is ever bound anew.
Sensible(f) ==
    /\ f.action \in {"MARK_CLOSED", "MARK_ORPHANED", "REBIND_BY_TAG"} => f.about \in Copies
    /\ f.action = "REBIND_BY_TAG" => f.seen = "PENDING_OPEN"

FindingsOK ==
    /\ \A f \in findings : Sensible(f)
    /\ \A f, g \in findings : f # g => ~SameKey(f, g)

IInv == Terminals /\ Books /\ asked \subseteq Agents /\ RoundOK /\ FindingsOK

LEMMA CopyParts == \A p \in Copies : p[1] \in Masters /\ p[2] \in Clients /\ p = <<p[1], p[2]>>
  BY DEF Copies

-----------------------------------------------------------------------------
(* What a comparison finds.                                                  *)

Found == FromPairs \cup FromMaster \cup FromClients

\* The status of a pair tells what can be found about it.
LEMMA FoundAboutPair ==
    ASSUME Books, NEW f \in FromPairs
    PROVE  \E p \in Copies : f \in FromPair(p) /\ f.about = p /\ f.seen = pair[p]
<1>1. PICK p \in Copies : f \in FromPair(p)
  BY DEF FromPairs
<1>2. f.about = p /\ f.seen = pair[p]
  BY <1>1 DEF FromPair, FromLive, FromPending, FromOrphan, FromOdd, Watched, OfPair, Finding
<1> QED
  BY <1>1, <1>2

LEMMA FoundShape ==
    ASSUME Books, NEW f \in Found
    PROVE  Sensible(f)
<1>1. CASE f \in FromPairs
  <2>1. PICK p \in Copies : f \in FromPair(p) /\ f.about = p /\ f.seen = pair[p]
    BY <1>1, FoundAboutPair
  <2>2. f.action = "REBIND_BY_TAG" => pair[p] = "PENDING_OPEN"
    BY <2>1 DEF FromPair, FromLive, FromPending, FromOrphan, FromOdd, Watched, OfPair, Finding, Booked
  <2> QED
    BY <2>1, <2>2 DEF Sensible
<1>2. CASE f \in FromMaster
  <2>1. PICK m \in round.master : f = Finding("UNPAIRED_MASTER", "ALERT_ONLY", <<m, NoClient>>, "none")
    BY <1>2 DEF FromMaster
  <2> QED
    BY <2>1 DEF Sensible, Finding
<1>3. CASE f \in FromClients
  BY <1>3 DEF FromClients, Sensible, Finding
<1> QED
  BY <1>1, <1>2, <1>3 DEF Found

\* One finding per kind and pair, Master position or Client.
LEMMA FoundOnce ==
    ASSUME Books, NEW f \in Found, NEW g \in Found, SameKey(f, g)
    PROVE  f = g
<1> DEFINE Lone == {"UNPAIRED_MASTER", "UNPAIRED_CLIENT"}
<1>1. \A h \in FromPairs : h.kind \notin Lone
  BY FoundAboutPair DEF FromPair, FromLive, FromPending, FromOrphan, FromOdd, Watched, OfPair, Finding
<1>2. \A h \in FromMaster : h = Finding("UNPAIRED_MASTER", "ALERT_ONLY", h.about, "none")
  BY DEF FromMaster, Finding
<1>3. \A h \in FromClients : h = Finding("UNPAIRED_CLIENT", "ALERT_ONLY", h.about, "none")
  BY DEF FromClients, Finding
<1>4. CASE f \in FromPairs /\ g \in FromPairs
  <2>1. PICK p \in Copies : f \in FromPair(p) /\ f.about = p
    BY <1>4, FoundAboutPair
  <2>2. PICK q \in Copies : g \in FromPair(q) /\ g.about = q
    BY <1>4, FoundAboutPair
  <2>3. p = q
    BY <2>1, <2>2 DEF SameKey
  <2>4. \A h \in FromPair(p) : \E a : h = OfPair(h.kind, a, p)
    BY DEF FromPair, FromLive, FromPending, FromOrphan, FromOdd, Watched, OfPair, Finding
  <2>5. \A h, k \in FromPair(p) : h.kind = k.kind => h.action = k.action
    BY DEF FromPair, FromLive, FromPending, FromOrphan, FromOdd, Watched, OfPair, Finding, Booked, Live
  <2>6. \A h \in FromPair(p) : h = OfPair(h.kind, h.action, p)
    BY <2>4 DEF OfPair, Finding
  <2> QED
    BY <2>1, <2>2, <2>3, <2>5, <2>6 DEF SameKey
<1> QED
  BY <1>1, <1>2, <1>3, <1>4 DEF Found, SameKey, Finding

LEMMA WrittenOK ==
    ASSUME Books, FindingsOK
    PROVE  /\ \A f \in Written(Found) : Sensible(f)
           /\ \A f, g \in Written(Found) : f # g => ~SameKey(f, g)
<1>1. \A f \in Written(Found) : f \in findings \/ (f \in Found /\ \A g \in findings : ~SameKey(f, g))
  BY DEF Written
<1>2. \A f \in Written(Found) : Sensible(f)
  BY <1>1, FoundShape DEF FindingsOK
<1>3. ASSUME NEW f \in Written(Found), NEW g \in Written(Found), f # g
      PROVE  ~SameKey(f, g)
  <2>1. SameKey(f, g) <=> SameKey(g, f)
    BY DEF SameKey
  <2>2. CASE f \in findings /\ g \in findings
    BY <1>3, <2>2 DEF FindingsOK
  <2>3. CASE f \notin findings /\ g \notin findings
    BY <1>1, <1>3, <2>3, FoundOnce
  <2> QED
    BY <1>1, <2>1, <2>2, <2>3
<1> QED
  BY <1>2, <1>3

-----------------------------------------------------------------------------
(* The invariant.                                                            *)

LEMMA InvInit == Init => IInv
  BY ReconcileAssumption DEF Init, IInv, Terminals, Books, RoundOK, FindingsOK, PairState, Idle, Agents

LEMMA TradingStep ==
    ASSUME IInv, Trading
    PROVE  IInv'
<1>1. Terminals /\ Books
  BY DEF IInv
<1>2. UNCHANGED <<asked, round, findings>>
  BY DEF Trading, MasterMoves, Copy, Fill, Opened, LoseAnswer, HearMaster, Unfill, Closed,
         HearClient, Meddle, TradingOnly, snapshot_vars
<1>3. ASSUME NEW m \in Masters, MasterMoves(m)
      PROVE  Terminals' /\ Books'
  BY <1>1, <1>3 DEF MasterMoves, book_vars, Terminals, Books
<1>4. ASSUME NEW p \in Copies, Copy(p) \/ HearMaster(p) \/ Closed(p)
      PROVE  Terminals' /\ Books'
  BY <1>1, <1>4 DEF Copy, HearMaster, Closed, terminal_vars, Terminals, Books, PairState, Live, Done
<1>5. ASSUME NEW p \in Copies, Fill(p) \/ Unfill(p) \/ LoseAnswer(p)
      PROVE  Terminals' /\ Books'
  BY <1>1, <1>5 DEF Fill, Unfill, LoseAnswer, book_vars, terminal_vars, Terminals, Books
<1>6. ASSUME NEW p \in Copies, Opened(p)
      PROVE  Terminals' /\ Books'
  BY <1>1, <1>6 DEF Opened, terminal_vars, Terminals, Books, PairState, Live, Done
<1>7. ASSUME NEW p \in Copies, HearClient(p)
      PROVE  Terminals' /\ Books'
  BY <1>1, <1>7 DEF HearClient, terminal_vars, Terminals, Books, PairState, Live, Done
<1>8. ASSUME Meddle
      PROVE  Terminals' /\ Books'
  BY <1>1, <1>8 DEF Meddle, Terminals, Books
<1>9. Terminals' /\ Books'
  BY <1>3, <1>4, <1>5, <1>6, <1>7, <1>8 DEF Trading
<1> QED
  BY <1>2, <1>9 DEF IInv, RoundOK, FindingsOK, Sensible, SameKey

LEMMA RoundStep ==
    ASSUME IInv, Round
    PROVE  IInv'
<1>1. UNCHANGED <<terminal_vars, book_vars, work>>
  BY DEF Round, BeginRound, MasterSilent, Compare, AskClient, HaveClient, BooksOnly
<1>2. Terminals' /\ Books'
  BY <1>1 DEF IInv, Terminals, Books, terminal_vars, book_vars
<1>3. asked' \subseteq Agents
  BY DEF Round, BeginRound, MasterSilent, Compare, AskClient, HaveClient, Ask, snapshot_vars, IInv, Agents
<1>4. RoundOK'
  <2> DEFINE Shape(r) == /\ r = [at |-> r.at, n |-> r.n, master |-> r.master, clients |-> r.clients]
                         /\ r.at \in Agents \cup {"idle", "next"} /\ r.n \in 0 .. MaxRounds
  <2>1. Shape(round) /\ MaxRounds \in Nat
    BY ReconcileAssumption DEF IInv, RoundOK
  <2>2. CASE BeginRound
    <3>1. round' = [Idle EXCEPT !.at = Terminal, !.n = round.n + 1] /\ round.n < MaxRounds
      BY <2>2 DEF BeginRound
    <3>2. round.n + 1 \in 0 .. MaxRounds
      BY <2>1, <3>1
    <3> QED
      BY <3>1, <3>2 DEF RoundOK, Idle, Agents
  <2>3. CASE MasterSilent \/ Compare
    BY <2>1, <2>3 DEF MasterSilent, Compare, RoundOK, Idle
  <2>4. ASSUME NEW c \in Clients, AskClient(c)
        PROVE  RoundOK'
    <3>1. \E s : round' = [at |-> c, n |-> round.n, master |-> s, clients |-> round.clients]
      BY <2>1, <2>4 DEF AskClient
    <3> QED
      BY <2>1, <3>1 DEF RoundOK, Agents
  <2>5. ASSUME NEW c \in Clients, HaveClient(c)
        PROVE  RoundOK'
    <3>1. \E s : round' = [at |-> "next", n |-> round.n, master |-> round.master, clients |-> s]
      BY <2>1, <2>5 DEF HaveClient, WithClient
    <3> QED
      BY <2>1, <3>1 DEF RoundOK
  <2> QED
    BY <2>2, <2>3, <2>4, <2>5 DEF Round
<1>5. FindingsOK'
  <2>1. UNCHANGED findings \/ findings' = Written(Found)
    BY DEF Round, BeginRound, MasterSilent, Compare, AskClient, HaveClient, Found
  <2> QED
    BY <2>1, WrittenOK DEF IInv, FindingsOK, Sensible, SameKey
<1> QED
  BY <1>2, <1>3, <1>4, <1>5 DEF IInv

LEMMA PersonStep ==
    ASSUME IInv, Person
    PROVE  IInv'
<1>1. PICK f \in findings : Accept(f) \/ Skip(f)
  BY DEF Person
<1>2. findings' = findings \ {f} /\ UNCHANGED <<terminal_vars, odd, work, asked, round>>
  BY <1>1 DEF Accept, Skip, Resolve, PersonOnly, snapshot_vars
<1>3. \/ UNCHANGED <<pair, bound>>
      \/ /\ f.about \in Copies
         /\ \E s \in PairState : pair' = [pair EXCEPT ![f.about] = s]
         /\ UNCHANGED bound \/ bound' = [bound EXCEPT ![f.about] = "own"]
  <2>1. Sensible(f)
    BY DEF IInv, FindingsOK
  <2> QED
    BY <1>1, <2>1 DEF Accept, Skip, AcceptClosed, AcceptOrphaned, AcceptRebind, AcceptAlert,
                      Sensible, PairState, Live, Done
<1>4. Books'
  BY <1>2, <1>3 DEF IInv, Books
<1>5. Terminals' /\ asked' \subseteq Agents /\ RoundOK'
  BY <1>2 DEF IInv, Terminals, RoundOK, terminal_vars
<1>6. FindingsOK'
  BY <1>2 DEF IInv, FindingsOK, Sensible, SameKey
<1> QED
  BY <1>4, <1>5, <1>6 DEF IInv

LEMMA SnapshotStep ==
    ASSUME IInv, NEW a \in Agents, AgentOnline(a) \/ TakeSnapshot(a) \/ RecvSnapshot(a)
    PROVE  IInv'
<1>1. UNCHANGED <<terminal_vars, book_vars, work, round, findings>> /\ asked' \subseteq Agents
  BY DEF AgentOnline, TakeSnapshot, RecvSnapshot, BooksOnly, IInv
<1> QED
  BY <1>1 DEF IInv, Terminals, Books, RoundOK, FindingsOK, Sensible, SameKey, terminal_vars, book_vars

LEMMA InvStep == IInv /\ [Next]_vars => IInv'
<1>1. CASE UNCHANGED vars
  BY <1>1 DEF vars, terminal_vars, book_vars, snapshot_vars, IInv, Terminals, Books, RoundOK,
              FindingsOK, Sensible, SameKey
<1> QED
  BY <1>1, TradingStep, RoundStep, PersonStep, SnapshotStep DEF Next

LEMMA Invariance == Spec => []IInv
  BY InvInit, InvStep, PTL DEF Spec

\* Types; no two findings that are pending are about the same thing, however many
\* rounds have met what is wrong and whatever has become of it.
THEOREM TypeCorrect == Spec => []TypeOK
<1>1. IInv => TypeOK
  BY DEF IInv, Terminals, Books, RoundOK, FindingsOK, PairState, TypeOK
<1> QED
  BY <1>1, Invariance, PTL

\* A settled pair comes back to life neither by trading nor by a finding that is
\* accepted too late.
THEOREM SettledCorrect == Spec => SettledStaysSettled
<1> DEFINE Stays == \A p \in Copies : pair[p] \in Done => pair'[p] \in Done \cup {"ORPHANED"}
<1>1. ASSUME IInv, [Next]_vars PROVE Stays
  <2>1. Books
    BY <1>1 DEF IInv
  <2>2. CASE UNCHANGED pair
    BY <2>2
  <2>3. ASSUME NEW p \in Copies, NEW s, pair' = [pair EXCEPT ![p] = s],
               pair[p] \in Done => s \in Done \cup {"ORPHANED"}
        PROVE  Stays
    BY <2>1, <2>3 DEF Books
  <2>4. CASE Trading
    <3>1. \/ UNCHANGED pair
          \/ \E p \in Copies : \E s : /\ pair' = [pair EXCEPT ![p] = s]
                                      /\ pair[p] \in Done => s \in Done \cup {"ORPHANED"}
      BY <2>4 DEF Trading, MasterMoves, Copy, Fill, Opened, LoseAnswer, HearMaster, Unfill, Closed,
                  HearClient, Meddle, terminal_vars, book_vars, Live, Done
    <3> QED
      BY <2>2, <2>3, <3>1
  <2>5. CASE Person
    <3>1. PICK f \in findings : Accept(f) \/ Skip(f)
      BY <2>5 DEF Person
    <3>2. Sensible(f)
      BY <1>1 DEF IInv, FindingsOK
    <3>3. \/ UNCHANGED pair
          \/ /\ f.about \in Copies /\ pair[f.about] = f.seen
             /\ \E s \in {"CLOSED", "ORPHANED", "OPEN"} :
                   /\ pair' = [pair EXCEPT ![f.about] = s]
                   /\ s = "OPEN" => f.seen = "PENDING_OPEN"
      BY <3>1, <3>2 DEF Accept, Skip, AcceptClosed, AcceptOrphaned, AcceptRebind, AcceptAlert,
                        Sensible, Current
    <3> QED
      BY <2>2, <2>3, <3>3 DEF Done
  <2> QED
    BY <1>1, <2>2, <2>4, <2>5
       DEF Next, vars, book_vars, Round, BeginRound, MasterSilent, Compare, AskClient, HaveClient,
           AgentOnline, TakeSnapshot, RecvSnapshot, BooksOnly
<1>2. IInv /\ [Next]_vars => [Stays]_vars
  BY <1>1
<1> QED
  BY <1>2, Invariance, PTL DEF Spec, SettledStaysSettled

-----------------------------------------------------------------------------
(* A round leaves nothing out.                                               *)

\* What is found is written down, or it was already.
LEMMA WrittenAbout ==
    ASSUME NEW f \in Found
    PROVE  \E g \in Written(Found) : g.about = f.about
<1>1. CASE \E g \in findings : SameKey(f, g)
  BY <1>1 DEF Written, SameKey
<1>2. CASE ~\E g \in findings : SameKey(f, g)
  BY <1>2 DEF Written
<1> QED
  BY <1>1, <1>2

LEMMA HeldByTerminals ==
    ASSUME Terminals, Books, Accurate, NEW p \in Copies, Seen(p[2])
    PROVE  /\ InMaster(p) <=> market[p[1]] = "open"
           /\ InClient(p) <=> bound[p] = "own" /\ leg[p] = "live"
<1>1. p[1] \in Masters /\ p[2] \in Clients /\ p[2] # Terminal /\ p[1] # NoMaster
  BY CopyParts, ReconcileAssumption
<1>2. round.master = Holds(Terminal) /\ round.clients[p[2]] = Holds(p[2])
  BY <1>1 DEF Accurate
<1>3. InMaster(p) <=> market[p[1]] = "open"
  BY <1>1, <1>2 DEF InMaster, Holds
<1>4. p \in Holds(p[2]) <=> leg[p] = "live"
  BY <1>1 DEF Holds
<1> QED
  BY <1>2, <1>3, <1>4 DEF InClient

LEMMA WrongIsFound ==
    ASSUME Terminals, Books, Accurate,
           NEW about \in Copies \cup (Masters \X {NoClient}) \cup ({NoMaster} \X Clients), Wrong(about)
    PROVE  \E f \in Found : f.about = about
<1>1. ASSUME about \in Copies, Seen(about[2]),
             \/ pair[about] \in Live /\ ~(market[about[1]] = "open" /\ leg[about] = "live")
             \/ pair[about] = "ORPHANED" /\ market[about[1]] # "open" /\ leg[about] # "live"
             \/ pair[about] = "PENDING_OPEN"
      PROVE  \E f \in Found : f.about = about
  <2>1. /\ InMaster(about) <=> market[about[1]] = "open"
        /\ InClient(about) <=> bound[about] = "own" /\ leg[about] = "live"
    BY <1>1, HeldByTerminals
  <2>2. pair[about] \notin Done \cup {"none"}
    BY <1>1 DEF Live, Done
  <2>3. FromPair(about) \subseteq Found
    BY <1>1, <2>2 DEF Found, FromPairs
  <2>4. \E f \in FromPair(about) : TRUE
    <3>1. CASE pair[about] \in Live
      <4>1. ~(InMaster(about) /\ InClient(about))
        BY <1>1, <2>1, <3>1 DEF Live
      <4>2. \/ OfPair("MASTER_CLOSED_OFFLINE", "CLOSE_CLIENT", about) \in FromLive(about)
            \/ OfPair("CLIENT_CLOSED_OFFLINE", "MARK_ORPHANED", about) \in FromLive(about)
            \/ OfPair("BOTH_CLOSED", "MARK_CLOSED", about) \in FromLive(about)
        BY <4>1 DEF FromLive, OfPair, Finding
      <4> QED
        BY <3>1, <4>2 DEF FromPair, Booked
    <3>2. CASE pair[about] = "ORPHANED"
      BY <1>1, <2>1, <3>2 DEF FromPair, Booked, Live, FromOrphan
    <3>3. CASE pair[about] = "PENDING_OPEN"
      BY <3>3 DEF FromPair, Booked, Live, FromPending
    <3> QED
      BY <1>1, <3>1, <3>2, <3>3
  <2>5. \A f \in FromPair(about) : f.about = about
    BY DEF FromPair, FromLive, FromPending, FromOrphan, FromOdd, Watched, OfPair, Finding
  <2> QED
    BY <2>3, <2>4, <2>5
<1>2. ASSUME about[2] = NoClient, market[about[1]] = "open",
             \A c \in Clients : pair[<<about[1], c>>] \in Done \cup {"none"}
      PROVE  \E f \in Found : f.about = about
  <2>1. about \in Masters \X {NoClient}
    BY <1>2, CopyParts, ReconcileAssumption
  <2>2. about[1] \in round.master /\ about = <<about[1], NoClient>>
    BY <1>2, <2>1 DEF Accurate, Holds
  <2>3. Finding("UNPAIRED_MASTER", "ALERT_ONLY", <<about[1], NoClient>>, "none") \in FromMaster
    BY <1>2, <2>2 DEF FromMaster
  <2> QED
    BY <2>2, <2>3 DEF Found, Finding
<1>3. ASSUME about[1] = NoMaster, Seen(about[2]), about[2] \in Ui,
             NEW p \in Copies, p[2] = about[2], leg[p] = "live", bound[p] = "null", p \notin bare
      PROVE  \E f \in Found : f.about = about
  <2>1. about = <<NoMaster, about[2]>> /\ about[2] \in Clients
    BY <1>3, CopyParts, ReconcileAssumption
  <2>2. p[1] # NoMaster /\ about[2] # Terminal
    BY <2>1, CopyParts, ReconcileAssumption
  <2>3. p \in round.clients[about[2]]
    BY <1>3, <2>1, <2>2 DEF Accurate, Holds
  <2>4. p \in Unowned(about[2])
    BY <1>3, <2>3 DEF Unowned
  <2>5. Finding("UNPAIRED_CLIENT", "ALERT_ONLY", <<NoMaster, about[2]>>, "none") \in FromClients
    BY <1>3, <2>1, <2>2, <2>4 DEF FromClients
  <2> QED
    BY <2>1, <2>5 DEF Found, Finding
<1> QED
  BY <1>1, <1>2, <1>3 DEF Wrong

\* A round whose snapshots still hold when they are compared leaves nothing out,
\* whatever findings were there before and however they were dealt with.
THEOREM AllIsFoundCorrect == Spec => AllIsFound
<1> DEFINE Complete ==
              round.at = "next" /\ round'.at = "idle" /\ Accurate =>
                  \A about \in Copies \cup (Masters \X {NoClient}) \cup ({NoMaster} \X Clients) :
                      Wrong(about) => \E f \in findings' : f.about = about
<1>1. ASSUME IInv, [Next]_vars PROVE Complete
  <2> SUFFICES ASSUME round.at = "next", round'.at = "idle", Accurate,
                      NEW about \in Copies \cup (Masters \X {NoClient}) \cup ({NoMaster} \X Clients),
                      Wrong(about)
               PROVE  \E f \in findings' : f.about = about
    OBVIOUS
  <2>1. round = [at |-> round.at, n |-> round.n, master |-> round.master, clients |-> round.clients]
    BY <1>1 DEF IInv, RoundOK
  <2>2. \A c \in Clients : ~AskClient(c) /\ ~HaveClient(c)
    <3> SUFFICES ASSUME NEW c \in Clients PROVE ~AskClient(c) /\ ~HaveClient(c)
      OBVIOUS
    <3>1. c # "idle" /\ c # "next"
      BY ReconcileAssumption
    <3>2. ~AskClient(c)
      BY <2>1, <3>1 DEF AskClient
    <3> QED
      BY <3>1, <3>2 DEF HaveClient
  <2>3. ~BeginRound /\ ~MasterSilent
    BY ReconcileAssumption DEF BeginRound, MasterSilent
  <2>4. Compare
    BY <1>1, <2>2, <2>3
       DEF Next, Round, Trading, MasterMoves, Copy, Fill, Opened, LoseAnswer, HearMaster, Unfill,
           Closed, HearClient, Meddle, TradingOnly, Person, Accept, Skip, PersonOnly,
           AgentOnline, TakeSnapshot, RecvSnapshot, vars
  <2>5. findings' = Written(Found)
    BY <2>4 DEF Compare, Found
  <2>6. PICK f \in Found : f.about = about
    BY <1>1, WrongIsFound DEF IInv
  <2> QED
    BY <2>5, <2>6, WrittenAbout
<1>2. IInv /\ [Next]_vars => [Complete]_vars
  BY <1>1
<1> QED
  BY <1>2, Invariance, PTL DEF Spec, AllIsFound

=============================================================================
