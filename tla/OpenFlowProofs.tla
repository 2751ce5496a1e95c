--------------------------- MODULE OpenFlowProofs ---------------------------
(***************************************************************************)
(* What OpenFlow promises for every set of Masters and Clients, for every    *)
(* limit and for any number of upsets: no copy disappears in silence, the    *)
(* limit of pairs and the order of a Client's queue hold, and a position is  *)
(* bound to the pair whose tag it carries.                                   *)
(***************************************************************************)
EXTENDS OpenFlow, FiniteSetTheorems, SequenceTheorems, TLAPS

-----------------------------------------------------------------------------
(* Rows of a queue, and events.                                              *)

\* A new row goes to the end and changes nothing of the others.
LEMMA AppendRow ==
    ASSUME NEW S, NEW s \in Seq(S), NEW x \in S, IsInjective(s), ~Contains(s, x)
    PROVE  /\ Append(s, x) \in Seq(S) /\ Len(Append(s, x)) = Len(s) + 1
           /\ IsInjective(Append(s, x))
           /\ \A y : Contains(Append(s, x), y) <=> Contains(s, y) \/ y = x
<1> DEFINE t == Append(s, x)
<1>1. t \in Seq(S) /\ Len(t) = Len(s) + 1 /\ t[Len(t)] = x /\ Len(s) \in Nat
  BY AppendProperties, LenProperties
<1>2. \A i \in 1 .. Len(s) : t[i] = s[i]
  BY AppendProperties, LenProperties
<1>3. DOMAIN t = 1 .. Len(t) /\ DOMAIN s = 1 .. Len(s)
  BY <1>1, LenProperties
<1> HIDE DEF t
<1>4. \A i \in 1 .. Len(t) : i \in 1 .. Len(s) \/ i = Len(t)
  BY <1>1
<1>5. IsInjective(t)
  BY <1>1, <1>2, <1>3, <1>4 DEF IsInjective, Contains
<1>6. \A y : Contains(t, y) <=> Contains(s, y) \/ y = x
  BY <1>1, <1>2, <1>4 DEF Contains
<1> QED
  BY <1>1, <1>5, <1>6 DEF t

\* A row that is deleted is the only one that goes.
LEMMA RemoveRow ==
    ASSUME NEW S, NEW s \in Seq(S), NEW i \in 1 .. Len(s), IsInjective(s)
    PROVE  /\ RemoveAt(s, i) \in Seq(S) /\ Len(RemoveAt(s, i)) = Len(s) - 1
           /\ IsInjective(RemoveAt(s, i))
           /\ \A y : Contains(s, y) /\ y # s[i] => Contains(RemoveAt(s, i), y)
<1> DEFINE t == RemoveAt(s, i)
           a == SubSeq(s, 1, i - 1)
           b == SubSeq(s, i + 1, Len(s))
<1>1. Len(s) \in Nat /\ DOMAIN s = 1 .. Len(s) /\ i \in 1 .. Len(s)
  BY LenProperties
<1>2. /\ a \in Seq(S) /\ Len(a) = i - 1
      /\ \A j \in 1 .. i - 1 : a[j] = s[j]
  BY <1>1, SubSeqProperties
<1>3. /\ b \in Seq(S) /\ Len(b) = Len(s) - i
      /\ \A j \in 1 .. Len(s) - i : b[j] = s[i + j]
  <2>1. /\ b \in Seq(S)
        /\ Len(b) = IF i + 1 <= Len(s) THEN Len(s) - (i + 1) + 1 ELSE 0
        /\ \A j \in 1 .. (Len(s) - (i + 1) + 1) : b[j] = s[(i + 1) + j - 1]
    <3>1. i + 1 \in 1 .. Len(s) + 1 /\ Len(s) \in i .. Len(s)
      BY <1>1
    <3> QED
      BY <1>1, <3>1, SubSeqProperties
  <2> HIDE DEF b
  <2>2. Len(b) = Len(s) - i
    <3>1. PICK n \in Nat : n = Len(s)
      BY <1>1
    <3>2. i \in Nat /\ i <= n
      BY <1>1, <3>1
    <3>3. Len(b) = IF i + 1 <= n THEN n - (i + 1) + 1 ELSE 0
      BY ONLY <2>1, <3>1
    <3>4. Len(b) = n - i
      BY ONLY <3>2, <3>3, n \in Nat
    <3> QED
      BY <3>1, <3>4
  <2>3. ASSUME NEW j \in 1 .. Len(s) - i
        PROVE  b[j] = s[i + j]
    <3>1. j \in 1 .. (Len(s) - (i + 1) + 1) /\ (i + 1) + j - 1 = i + j
      BY <1>1
    <3> QED
      BY <2>1, <3>1
  <2> QED
    BY <2>1, <2>2, <2>3
<1>4. t = a \o b
  BY DEF RemoveAt
<1> HIDE DEF a, b, t
<1>5. /\ t \in Seq(S) /\ Len(t) = Len(s) - 1
      /\ \A j \in 1 .. Len(t) : t[j] = IF j < i THEN s[j] ELSE s[j + 1]
  <2>1. /\ t \in Seq(S) /\ Len(t) = Len(a) + Len(b)
        /\ \A j \in 1 .. Len(a) + Len(b) : t[j] = IF j <= Len(a) THEN a[j] ELSE b[j - Len(a)]
    BY <1>2, <1>3, <1>4, ConcatProperties
  <2>2. Len(t) = Len(s) - 1
    BY <1>1, <1>2, <1>3, <2>1
  <2>3. ASSUME NEW j \in 1 .. Len(t)
        PROVE  t[j] = IF j < i THEN s[j] ELSE s[j + 1]
    <3>1. CASE j < i
      BY <1>1, <1>2, <1>3, <2>1, <2>2, <3>1
    <3>2. CASE j >= i
      <4>1. j - (i - 1) \in 1 .. Len(s) - i /\ ~(j <= Len(a)) /\ i + (j - (i - 1)) = j + 1
        BY <1>1, <1>2, <2>2, <3>2
      <4> QED
        BY <1>1, <1>2, <1>3, <2>1, <2>2, <3>2, <4>1
    <3> QED
      BY <1>1, <2>2, <3>1, <3>2
  <2> QED
    BY <2>1, <2>2, <2>3
<1>6. DOMAIN t = 1 .. Len(t)
  BY <1>5, LenProperties
<1>7. IsInjective(t)
  <2> SUFFICES ASSUME NEW j \in 1 .. Len(t), NEW k \in 1 .. Len(t), t[j] = t[k]
               PROVE  j = k
    BY <1>6 DEF IsInjective
  <2> QED
    BY <1>1, <1>5, SMTT(30) DEF IsInjective
<1>8. ASSUME NEW y, Contains(s, y), y # s[i]
      PROVE  Contains(t, y)
  <2>1. PICK j \in 1 .. Len(s) : s[j] = y
    BY <1>8 DEF Contains
  <2>2. CASE j < i
    BY <1>1, <1>5, <2>1, <2>2 DEF Contains
  <2>3. CASE j > i
    <3>1. j - 1 \in 1 .. Len(t) /\ t[j - 1] = y
      BY <1>1, <1>5, <2>1, <2>3
    <3> QED
      BY <3>1 DEF Contains
  <2> QED
    BY <1>1, <1>8, <2>1, <2>2, <2>3
<1> QED
  BY <1>5, <1>7, <1>8 DEF t

\* An event that is not the first is still there when the first has been handled.
LEMMA TailKeeps ==
    ASSUME NEW S, NEW s \in Seq(S), s # <<>>, NEW i \in 1 .. Len(s), s[i] # Head(s)
    PROVE  \E j \in 1 .. Len(Tail(s)) : Tail(s)[j] = s[i]
<1>1. /\ Head(s) = s[1] /\ Len(Tail(s)) = Len(s) - 1 /\ Len(s) \in Nat
      /\ \A j \in 1 .. Len(Tail(s)) : Tail(s)[j] = s[j + 1]
  BY HeadTailProperties, LenProperties
<1>2. i - 1 \in 1 .. Len(Tail(s)) /\ Tail(s)[i - 1] = s[(i - 1) + 1] /\ (i - 1) + 1 = i
  BY <1>1
<1> QED
  BY <1>2

-----------------------------------------------------------------------------
(* Which actions touch what.                                                 *)

LEMMA PairMoves ==
    ASSUME [Next]_vars
    PROVE  \/ UNCHANGED pair
           \/ \E c \in Clients : OpenFor(c)
           \/ OnMasterClose \/ OnClientOpen
           \/ \E p \in Copies : PumpRow(p) \/ OnAck(p) \/ OnTimeout(p)
  BY DEF Next, EnvNext, Pump, Handle, Scan, vars, book_vars, env_vars,
         MasterOpens, MasterCloses, GrowOlder, WindowShuts, Press, HandOpens, Switch, Resume,
         BeginMasterOpen, EndMasterOpen, PurgeQueue, BeginPump, DropExpired, TellExpired,
         DropGone, DropSent, EndPump, RetryOpen, ScanCorrelation, Restart

LEMMA NoteMoves ==
    ASSUME [Next]_vars
    PROVE  \/ UNCHANGED note
           \/ BeginMasterOpen \/ PurgeQueue \/ TellExpired \/ Restart
           \/ \E c \in Clients : OpenFor(c)
           \/ \E p \in Copies : DropGone(p) \/ PumpRow(p)
  BY DEF Next, EnvNext, Pump, Handle, Scan, vars, book_vars, env_vars,
         MasterOpens, MasterCloses, GrowOlder, WindowShuts, Press, HandOpens, Switch, Resume,
         EndMasterOpen, BeginPump, DropExpired, OnMasterClose, OnClientOpen, OnAck, OnTimeout,
         DropSent, EndPump, RetryOpen, ScanCorrelation

LEMMA QueueMoves ==
    ASSUME [Next]_vars
    PROVE  \/ UNCHANGED queue
           \/ PurgeQueue \/ DropSent
           \/ \E c \in Clients : OpenFor(c)
           \/ \E p \in Copies : DropExpired(p) \/ DropGone(p) \/ PumpRow(p)
  BY DEF Next, EnvNext, Pump, Handle, Scan, vars, book_vars, env_vars,
         MasterOpens, MasterCloses, GrowOlder, WindowShuts, Press, HandOpens, Switch, Resume,
         BeginMasterOpen, EndMasterOpen, BeginPump, TellExpired, OnMasterClose, OnClientOpen,
         OnAck, OnTimeout, EndPump, RetryOpen, ScanCorrelation, Restart

LEMMA EventsMoves ==
    ASSUME [Next]_vars
    PROVE  \/ UNCHANGED events
           \/ \E m \in Masters : MasterOpens(m) \/ \E b \in BOOLEAN : MasterCloses(m, b)
           \/ \E c \in Clients : HandOpens(c)
           \/ \E p \in Copies : Press(p)
           \/ BeginMasterOpen \/ EndMasterOpen \/ OnMasterClose \/ OnClientOpen
  BY DEF Next, EnvNext, Pump, Handle, Scan, vars, book_vars, env_vars, Reclaimed,
         GrowOlder, WindowShuts, Switch, Resume, OpenFor, PurgeQueue, BeginPump, DropExpired,
         TellExpired, DropGone, PumpRow, DropSent, EndPump, OnAck, OnTimeout, RetryOpen,
         ScanCorrelation, Restart

LEMMA LoopMoves ==
    ASSUME [Next]_vars
    PROVE  \/ UNCHANGED <<loop, due>>
           \/ BeginMasterOpen \/ EndMasterOpen \/ BeginPump \/ TellExpired \/ DropSent
           \/ EndPump \/ Restart
           \/ \E c \in Clients : OpenFor(c)
           \/ \E p \in Copies : DropExpired(p) \/ PumpRow(p)
  BY DEF Next, EnvNext, Pump, Handle, Scan, vars, book_vars, env_vars,
         MasterOpens, MasterCloses, GrowOlder, WindowShuts, Press, HandOpens, Switch, Resume,
         PurgeQueue, DropGone, OnMasterClose, OnClientOpen, OnAck, OnTimeout, RetryOpen,
         ScanCorrelation

LEMMA SleepMoves ==
    ASSUME [Next]_vars
    PROVE  \/ UNCHANGED <<asleep, attempts>>
           \/ Restart
           \/ \E c \in Clients : OpenFor(c)
           \/ \E p \in Copies : PumpRow(p) \/ OnAck(p) \/ RetryOpen(p)
  BY DEF Next, EnvNext, Pump, Handle, Scan, vars, book_vars, env_vars,
         MasterOpens, MasterCloses, GrowOlder, WindowShuts, Press, HandOpens, Switch, Resume,
         BeginMasterOpen, EndMasterOpen, PurgeQueue, BeginPump, DropExpired, TellExpired,
         DropGone, DropSent, EndPump, OnMasterClose, OnClientOpen, OnTimeout, ScanCorrelation

-----------------------------------------------------------------------------
(* Types.                                                                    *)

EventType ==
    [kind : {"master_open"}, m : Masters]
        \cup [kind : {"master_close"}, m : Masters, byBot : BOOLEAN]
        \cup [kind : {"client_open"}, c : Clients, owner : Copies \cup {Hand}, tagged : BOOLEAN,
              late : SUBSET (Copies \X Nat)]

LoopType ==
    {Idle} \cup [at : {"open"}, m : Masters, todo : SUBSET Clients]
           \cup [at : {"pump"}, had : SUBSET Clients]
           \cup [at : {"expired", "sent"}, p : Copies, had : SUBSET Clients]

PairState == {"none", "PENDING_OPEN", "OPEN", "OPEN_FAILED", "CLOSED"}

Surroundings ==
    /\ market \in [Masters -> {"idle", "open", "closed"}]
    /\ age \in [Masters -> {"fresh", "late", "old"}]
    /\ mode \in {"RUNNING", "PAUSED", "RESTARTED"}
    /\ book \in [Masters -> {"none", "OPEN", "CLOSED"}]

Bookkeeping ==
    /\ bound \in [Copies -> Copies \cup {Hand, Unbound}]
    /\ order \in [Copies -> {"none", "LIVE", "DONE"}]
    /\ note \in [Copies -> {"none", "alert", "off", "mode", "gone", "restart"}]
    /\ wish \subseteq Copies /\ shut \subseteq Copies /\ due \subseteq Copies /\ told \subseteq Copies

Rows ==
    /\ queue \in [Clients -> Seq(Masters)]
    /\ \A c \in Clients : IsInjective(queue[c]) /\ Len(queue[c]) <= MaxLen

\* A retry that sleeps is one the pair still has left.
Retries ==
    /\ attempts \in [Copies -> 0 .. MaxRetry + 1]
    /\ asleep \subseteq Copies
    /\ \A p \in asleep : attempts[p] <= MaxRetry /\ pair[p] # "none"

Typed ==
    /\ events \in Seq(EventType) /\ loop \in LoopType
    /\ pair \in [Copies -> PairState]
    /\ Surroundings /\ Bookkeeping /\ Rows /\ Retries

Kept(p) == pair[p] # "none" \/ Queued(p) \/ note[p] # "none"

\* What the loop has in hand: the event that is handled is the first still and
\* every Client it has dealt with is accounted for; a row goes after the send.
AtWork ==
    /\ loop.at = "open" =>
          /\ events # <<>> /\ Event = [kind |-> "master_open", m |-> loop.m]
          /\ \A p \in due : p[1] = loop.m /\ p[2] \notin loop.todo => Kept(p)
    /\ loop.at = "sent" => Queued(loop.p) /\ pair[loop.p] # "none"

LEMMA CopyParts == \A p \in Copies : p[1] \in Masters /\ p[2] \in Clients /\ p = <<p[1], p[2]>>
  BY DEF Copies

LEMMA EventTyped ==
    ASSUME Typed, Ready
    PROVE  Event \in EventType /\ Tail(events) \in Seq(EventType)
  BY HeadTailProperties DEF Typed, Ready, Event

\* Who owns a position waits.
LEMMA OwnersWait ==
    ASSUME NEW e
    PROVE  /\ Owners(e) \subseteq Copies
           /\ \A p \in Owners(e) : p \in Of(e.c) /\ Waiting(p) /\ e.c \in Ui
  BY DEF Owners, Tagged, Guessed, Candidates, Mates, Of

LEMMA OpenedTyped ==
    ASSUME Typed, NEW p \in Copies, NEW b \in BOOLEAN
    PROVE  ShutNow \in SUBSET (Copies \X Nat) /\ Opened(p, b) \in EventType
<1>1. ShutNow \in SUBSET (Copies \X Nat)
  BY OpenFlowAssumption DEF ShutNow, Typed, Bookkeeping, Retries
<1> QED
  BY <1>1, CopyParts DEF Opened, EventType

LEMMA EventsTyped ==
    ASSUME Typed, AtWork, [Next]_vars
    PROVE  events' \in Seq(EventType)
<1>1. CASE UNCHANGED events
  BY <1>1 DEF Typed
<1>2. ASSUME NEW e \in EventType, events' = Append(events, e)
      PROVE  events' \in Seq(EventType)
  BY <1>2, AppendProperties DEF Typed
<1>3. ASSUME NEW m \in Masters, MasterOpens(m) \/ \E b \in BOOLEAN : MasterCloses(m, b)
      PROVE  events' \in Seq(EventType)
  <2>1. [kind |-> "master_open", m |-> m] \in EventType
    BY DEF EventType
  <2>2. \A b \in BOOLEAN : [kind |-> "master_close", m |-> m, byBot |-> b] \in EventType
    BY DEF EventType
  <2> QED
    BY <1>2, <1>3, <2>1, <2>2 DEF MasterOpens, MasterCloses
<1>4. ASSUME NEW c \in Clients, HandOpens(c)
      PROVE  events' \in Seq(EventType)
  <2>1. ShutNow \in SUBSET (Copies \X Nat)
    BY OpenFlowAssumption DEF ShutNow, Typed, Bookkeeping, Retries
  <2>2. [kind |-> "client_open", c |-> c, owner |-> Hand, tagged |-> FALSE, late |-> ShutNow]
           \in EventType
    BY <2>1 DEF EventType
  <2> QED
    BY <1>2, <1>4, <2>2 DEF HandOpens
<1>5. ASSUME NEW p \in Copies, Press(p)
      PROVE  events' \in Seq(EventType)
  BY <1>2, <1>5, OpenedTyped DEF Press
<1>6. CASE BeginMasterOpen \/ OnMasterClose \/ OnClientOpen
  BY <1>6, EventTyped DEF BeginMasterOpen, OnMasterClose, OnClientOpen, Typed
<1>7. CASE EndMasterOpen
  BY <1>7, HeadTailProperties DEF EndMasterOpen, AtWork, Typed
<1> QED
  BY <1>1, <1>3, <1>4, <1>5, <1>6, <1>7, EventsMoves

LEMMA LoopTyped ==
    ASSUME Typed, [Next]_vars
    PROVE  loop' \in LoopType
<1>1. CASE UNCHANGED loop
  BY <1>1 DEF Typed
<1>2. CASE BeginMasterOpen
  <2>1. Ready /\ Event.kind = "master_open" /\ Event \in EventType
    BY <1>2, EventTyped DEF BeginMasterOpen
  <2>2. Event.m \in Masters
    BY <2>1 DEF EventType
  <2>3. \A T \in SUBSET Clients : [at |-> "open", m |-> Event.m, todo |-> T] \in LoopType
    BY <2>2 DEF LoopType
  <2> QED
    BY <1>1, <1>2, <2>3 DEF BeginMasterOpen
<1>3. CASE EndMasterOpen \/ EndPump \/ Restart
  BY <1>3 DEF EndMasterOpen, EndPump, Restart, LoopType
<1>4. CASE BeginPump
  BY <1>4 DEF BeginPump, LoopType
<1>5. CASE TellExpired \/ DropSent
  <2>1. loop.had \in SUBSET Clients
    BY <1>5 DEF TellExpired, DropSent, LoopType, Typed, Idle
  <2> QED
    BY <1>5, <2>1 DEF TellExpired, DropSent, LoopType
<1>6. ASSUME NEW c \in Clients, OpenFor(c)
      PROVE  loop' \in LoopType
  <2>1. loop \in [at : {"open"}, m : Masters, todo : SUBSET Clients]
    BY <1>6 DEF OpenFor, LoopType, Typed, Idle
  <2>2. loop' \in [at : {"open"}, m : Masters, todo : SUBSET Clients]
    BY <1>6, <2>1 DEF OpenFor
  <2> QED
    BY <2>2 DEF LoopType
<1>7. ASSUME NEW p \in Copies, DropExpired(p) \/ PumpRow(p)
      PROVE  loop' \in LoopType
  <2>1. loop \in [at : {"pump"}, had : SUBSET Clients] /\ loop.had \in SUBSET Clients
    <3>1. loop.at = "pump"
      BY <1>7 DEF DropExpired, PumpRow
    <3> QED
      BY <3>1 DEF LoopType, Typed, Idle
  <2>2. loop.had \cup {p[2]} \in SUBSET Clients
    BY <2>1, CopyParts
  <2>3. CASE DropExpired(p)
    BY <2>1, <2>3 DEF DropExpired, LoopType
  <2>4. CASE loop' = [at |-> "sent", p |-> p, had |-> loop.had \cup {p[2]}]
    BY <2>2, <2>4 DEF LoopType
  <2>5. CASE loop' = [loop EXCEPT !.had = loop.had \cup {p[2]}]
    <3>1. loop' \in [at : {"pump"}, had : SUBSET Clients]
      BY <2>1, <2>2, <2>5
    <3> QED
      BY <3>1 DEF LoopType
  <2> QED
    BY <1>7, <2>3, <2>4, <2>5 DEF PumpRow
<1> QED
  BY <1>1, <1>2, <1>3, <1>4, <1>5, <1>6, <1>7, LoopMoves

\* A pair that is there stays, and only what waits changes without the loop.
LEMMA PairTyped ==
    ASSUME Typed, [Next]_vars
    PROVE  /\ pair' \in [Copies -> PairState]
           /\ \A p \in Copies : pair[p] # "none" => pair'[p] # "none"
<1>1. CASE UNCHANGED pair
  BY <1>1 DEF Typed
<1>2. ASSUME NEW p \in Copies, NEW x \in PairState \ {"none"},
             pair' = [pair EXCEPT ![p] = x]
      PROVE  /\ pair' \in [Copies -> PairState]
             /\ \A q \in Copies : pair[q] # "none" => pair'[q] # "none"
  BY <1>2 DEF Typed
<1>3. ASSUME NEW c \in Clients, OpenFor(c)
      PROVE  UNCHANGED pair \/ pair' = [pair EXCEPT ![<<loop.m, c>>] = "PENDING_OPEN"]
  BY <1>3 DEF OpenFor, Create, Withhold
<1>4. ASSUME NEW c \in Clients, OpenFor(c)
      PROVE  <<loop.m, c>> \in Copies
  BY <1>4 DEF OpenFor, Copies, LoopType, Typed, Idle
<1>5. CASE OnMasterClose
  BY <1>5 DEF OnMasterClose, Typed, PairState
<1>6. CASE OnClientOpen
  <2>1. UNCHANGED pair \/ \E p \in Owners(Event) : \E x \in {"CLOSED", "OPEN"} :
           pair' = [pair EXCEPT ![p] = x]
    BY <1>6 DEF OnClientOpen
  <2> QED
    BY <1>1, <1>2, <2>1, OwnersWait DEF PairState
<1>7. ASSUME NEW p \in Copies, PumpRow(p)
      PROVE  UNCHANGED pair \/ pair' = [pair EXCEPT ![p] = "PENDING_OPEN"]
  BY <1>7 DEF PumpRow, Create, Withhold
<1>8. ASSUME NEW p \in Copies, OnAck(p)
      PROVE  \/ UNCHANGED pair
             \/ \E x \in {"OPEN", "OPEN_FAILED"} : pair' = [pair EXCEPT ![p] = x]
  BY <1>8 DEF OnAck, UiAnswer, EaAnswer, Nothing, Tell, Fail, Refused
<1>9. ASSUME NEW p \in Copies, OnTimeout(p)
      PROVE  UNCHANGED pair \/ pair' = [pair EXCEPT ![p] = "OPEN_FAILED"]
  BY <1>9 DEF OnTimeout, Typed
<1> QED
  BY <1>1, <1>2, <1>3, <1>4, <1>5, <1>6, <1>7, <1>8, <1>9, PairMoves DEF PairState

\* A note that is written stays.
LEMMA NoteTyped ==
    ASSUME Typed, [Next]_vars
    PROVE  /\ note' \in [Copies -> {"none", "alert", "off", "mode", "gone", "restart"}]
           /\ \A p \in Copies : note[p] # "none" => note'[p] # "none"
<1> DEFINE Why == {"alert", "off", "mode", "gone", "restart"}
           Told == /\ note' \in [Copies -> {"none"} \cup Why]
                   /\ \A p \in Copies : note[p] # "none" => note'[p] # "none"
<1>1. note \in [Copies -> {"none"} \cup Why]
  BY DEF Typed, Bookkeeping
<1>2. CASE UNCHANGED note
  BY <1>1, <1>2
<1>3. ASSUME NEW p \in Copies, NEW x \in Why, note' = Noted(p, x)
      PROVE  Told
  BY <1>1, <1>3 DEF Noted
<1>4. CASE BeginMasterOpen
  BY <1>1, <1>4 DEF BeginMasterOpen
<1>5. CASE PurgeQueue
  BY <1>1, <1>5 DEF PurgeQueue
<1>6. CASE TellExpired \/ Restart
  <2>1. loop.at = "expired" => loop.p \in Copies
    BY DEF LoopType, Typed, Idle
  <2> QED
    BY <1>2, <1>3, <1>6, <2>1 DEF TellExpired, Restart
<1>7. ASSUME NEW p \in Copies, NEW v, (Create(p) /\ UNCHANGED note) \/ Withhold(p, v)
      PROVE  Told
  BY <1>2, <1>3, <1>7 DEF Withhold
<1>8. ASSUME NEW c \in Clients, OpenFor(c)
      PROVE  Told
  <2>1. <<loop.m, c>> \in Copies
    BY <1>8 DEF OpenFor, Copies, LoopType, Typed, Idle
  <2> QED
    BY <1>7, <1>8, <2>1 DEF OpenFor
<1>9. ASSUME NEW p \in Copies, DropGone(p) \/ PumpRow(p)
      PROVE  Told
  BY <1>2, <1>3, <1>7, <1>9 DEF DropGone, PumpRow
<1> QED
  BY <1>2, <1>4, <1>5, <1>6, <1>8, <1>9, NoteMoves

\* A row joins a queue only at its end and only where there is room.
LEMMA RowsTyped ==
    ASSUME Typed, [Next]_vars
    PROVE  Rows'
<1>1. CASE UNCHANGED queue
  BY <1>1 DEF Rows, Typed
<1>2. CASE PurgeQueue
  <2>1. queue' = EmptyQueue
    BY <1>2 DEF PurgeQueue
  <2>2. <<>> \in Seq(Masters) /\ Len(<<>>) = 0 /\ IsInjective(<<>>)
    BY DEF IsInjective
  <2> QED
    BY <2>1, <2>2, OpenFlowAssumption DEF Rows, EmptyQueue
<1>3. ASSUME NEW p \in Copies, Drop(p)
      PROVE  Rows'
  <2>1. PICK i \in 1 .. Len(queue[p[2]]) : queue' = [queue EXCEPT ![p[2]] = RemoveAt(@, i)]
    BY <1>3 DEF Drop
  <2>2. p[2] \in Clients /\ queue[p[2]] \in Seq(Masters) /\ IsInjective(queue[p[2]])
        /\ Len(queue[p[2]]) \in Nat /\ Len(queue[p[2]]) <= MaxLen
    BY CopyParts, LenProperties DEF Typed, Rows
  <2>3. /\ RemoveAt(queue[p[2]], i) \in Seq(Masters) /\ IsInjective(RemoveAt(queue[p[2]], i))
        /\ Len(RemoveAt(queue[p[2]], i)) = Len(queue[p[2]]) - 1
    BY <2>2, RemoveRow
  <2>4. Len(RemoveAt(queue[p[2]], i)) <= MaxLen
    BY <2>2, <2>3, OpenFlowAssumption
  <2> QED
    BY <2>1, <2>2, <2>3, <2>4 DEF Typed, Rows
<1>4. ASSUME NEW p \in Copies, DropExpired(p) \/ DropGone(p) \/ PumpRow(p)
      PROVE  UNCHANGED queue \/ Drop(p)
  BY <1>4 DEF DropExpired, DropGone, PumpRow
<1>5. CASE DropSent
  <2>1. Drop(loop.p) /\ loop.p \in Copies
    BY <1>5 DEF DropSent, LoopType, Typed, Idle
  <2> QED
    BY <1>3, <2>1
<1>6. ASSUME NEW c \in Clients, OpenFor(c)
      PROVE  Rows'
  <2> DEFINE p == <<loop.m, c>>
  <2>1. p \in Copies /\ loop.m \in Masters /\ p[1] = loop.m /\ p[2] = c
    BY <1>6 DEF OpenFor, Copies, LoopType, Typed, Idle
  <2>2. CASE Verdict(p, FALSE) = "queue" /\ ~Queued(p)
    <3>1. queue' = [queue EXCEPT ![c] = Append(queue[c], loop.m)]
      BY <1>6, <2>2 DEF OpenFor
    <3>2. ~QueueFull(c) /\ ~Contains(queue[c], loop.m)
      BY <2>1, <2>2 DEF Verdict, Barred, Queued
    <3>3. queue[c] \in Seq(Masters) /\ IsInjective(queue[c]) /\ Len(queue[c]) \in Nat
      BY LenProperties DEF Typed, Rows
    <3>4. /\ Append(queue[c], loop.m) \in Seq(Masters) /\ IsInjective(Append(queue[c], loop.m))
          /\ Len(Append(queue[c], loop.m)) = Len(queue[c]) + 1
      BY <2>1, <3>2, <3>3, AppendRow
    <3>5. Len(Append(queue[c], loop.m)) <= MaxLen
      BY <3>2, <3>3, <3>4, OpenFlowAssumption DEF QueueFull
    <3> QED
      BY <3>1, <3>4, <3>5 DEF Typed, Rows
  <2>3. CASE ~(Verdict(p, FALSE) = "queue" /\ ~Queued(p))
    BY <1>1, <1>6, <2>3 DEF OpenFor
  <2> QED
    BY <2>2, <2>3
<1> QED
  BY <1>1, <1>2, <1>3, <1>4, <1>5, <1>6, QueueMoves

LEMMA RetriesTyped ==
    ASSUME Typed, [Next]_vars
    PROVE  Retries'
<1>1. \A p \in Copies : pair[p] # "none" => pair'[p] # "none"
  BY PairTyped
<1>2. attempts \in [Copies -> 0 .. MaxRetry + 1] /\ MaxRetry \in Nat
  BY OpenFlowAssumption DEF Typed, Retries
<1>3. CASE UNCHANGED <<asleep, attempts>>
  BY <1>1, <1>3 DEF Typed, Retries
<1>4. CASE Restart
  BY <1>2, <1>4 DEF Restart, Retries, book_vars
<1>5. ASSUME NEW p \in Copies, Create(p), UNCHANGED asleep, pair[p] = "none"
      PROVE  Retries'
  <2>1. attempts' = [attempts EXCEPT ![p] = 1] /\ 1 \in 0 .. MaxRetry + 1
    BY <1>2, <1>5 DEF Create
  <2>2. p \notin asleep
    BY <1>5 DEF Typed, Retries
  <2> QED
    BY <1>1, <1>2, <1>5, <2>1, <2>2 DEF Typed, Retries
<1>6. ASSUME NEW c \in Clients, OpenFor(c)
      PROVE  Retries'
  <2>1. <<loop.m, c>> \in Copies
    BY <1>6 DEF OpenFor, Copies, LoopType, Typed, Idle
  <2>2. \/ UNCHANGED <<asleep, attempts>>
        \/ Create(<<loop.m, c>>) /\ UNCHANGED asleep /\ pair[<<loop.m, c>>] = "none"
    BY <1>6 DEF OpenFor, Withhold, Verdict
  <2> QED
    BY <1>3, <1>5, <2>1, <2>2
<1>7. ASSUME NEW p \in Copies, PumpRow(p)
      PROVE  Retries'
  <2>1. \/ UNCHANGED <<asleep, attempts>>
        \/ Create(p) /\ UNCHANGED asleep /\ pair[p] = "none"
    BY <1>7 DEF PumpRow, Withhold, Verdict
  <2> QED
    BY <1>3, <1>5, <2>1
<1>8. ASSUME NEW p \in Copies, OnAck(p)
      PROVE  Retries'
  <2>1. /\ UNCHANGED attempts
        /\ \/ UNCHANGED asleep
           \/ Waiting(p) /\ attempts[p] <= MaxRetry /\ asleep' = asleep \cup {p}
    BY <1>8 DEF OnAck, UiAnswer, EaAnswer, Nothing, Tell, Fail, Refused
  <2> QED
    BY <1>1, <1>2, <1>3, <2>1 DEF Typed, Retries, Waiting
<1>9. ASSUME NEW p \in Copies, RetryOpen(p)
      PROVE  Retries'
  <2>1. /\ p \in asleep /\ asleep' = asleep \ {p} /\ UNCHANGED pair
        /\ UNCHANGED attempts \/ attempts' = [attempts EXCEPT ![p] = attempts[p] + 1]
    BY <1>9 DEF RetryOpen
  <2>2. attempts[p] + 1 \in 0 .. MaxRetry + 1
    BY <1>2, <2>1 DEF Typed, Retries
  <2> QED
    BY <1>2, <2>1, <2>2 DEF Typed, Retries
<1> QED
  BY <1>3, <1>4, <1>6, <1>7, <1>8, <1>9, SleepMoves

LEMMA SurroundingsTyped ==
    ASSUME Typed, [Next]_vars
    PROVE  Surroundings'
<1>1. CASE UNCHANGED <<market, age, mode, book>>
  BY <1>1 DEF Typed, Surroundings
<1>2. ASSUME NEW m \in Masters, MasterOpens(m) \/ \E b \in BOOLEAN : MasterCloses(m, b)
      PROVE  Surroundings'
  BY <1>2 DEF MasterOpens, MasterCloses, env_vars, book_vars, Typed, Surroundings
<1>3. CASE GrowOlder
  BY <1>3 DEF GrowOlder, env_vars, book_vars, Typed, Surroundings
<1>4. CASE Switch \/ Resume \/ Restart
  BY <1>4 DEF Switch, Resume, Restart, book_vars, Typed, Surroundings
<1>5. CASE BeginMasterOpen \/ OnMasterClose
  <2>1. (UNCHANGED market /\ UNCHANGED age) /\ UNCHANGED mode
        /\ \E x \in {"OPEN", "CLOSED"} : book' = [book EXCEPT ![Event.m] = x]
    BY <1>5 DEF BeginMasterOpen, OnMasterClose, env_vars
  <2> QED
    BY <2>1 DEF Typed, Surroundings
<1> QED
  BY <1>1, <1>2, <1>3, <1>4, <1>5
     DEF Next, EnvNext, Pump, Handle, Scan, vars, book_vars, env_vars,
         WindowShuts, Press, HandOpens, EndMasterOpen, OpenFor, PurgeQueue, BeginPump, DropExpired,
         TellExpired, DropGone, PumpRow, DropSent, EndPump, OnClientOpen, OnAck, OnTimeout,
         RetryOpen, ScanCorrelation

LEMMA BookkeepingTyped ==
    ASSUME Typed, [Next]_vars
    PROVE  Bookkeeping'
<1>1. note' \in [Copies -> {"none", "alert", "off", "mode", "gone", "restart"}]
  BY NoteTyped
<1>2. CASE UNCHANGED <<bound, order, wish, shut, due, told>>
  BY <1>1, <1>2 DEF Typed, Bookkeeping
<1>3. ASSUME NEW p \in Copies, WindowShuts(p) \/ OnAck(p) \/ RetryOpen(p) \/ OnTimeout(p) \/ ScanCorrelation(p)
      PROVE  Bookkeeping'
  BY <1>1, <1>3 DEF WindowShuts, OnAck, UiAnswer, EaAnswer, Nothing, Tell, Fail, Refused,
                    RetryOpen, OnTimeout, ScanCorrelation, book_vars, Typed, Bookkeeping
<1>4. CASE BeginMasterOpen
  <2>1. Event.m \in Masters
    BY <1>4, EventTyped DEF BeginMasterOpen, EventType
  <2>2. due' \subseteq Copies /\ UNCHANGED <<bound, order, wish, shut, told>>
    BY <1>4, <2>1 DEF BeginMasterOpen, Copies, Typed, Bookkeeping
  <2> QED
    BY <1>1, <2>2 DEF Typed, Bookkeeping
<1>5. ASSUME NEW p \in Copies, Create(p), UNCHANGED <<bound, wish, shut, due, told>>
      PROVE  Bookkeeping'
  BY <1>1, <1>5 DEF Create, Typed, Bookkeeping
<1>6. ASSUME NEW c \in Clients, OpenFor(c)
      PROVE  Bookkeeping'
  <2>1. <<loop.m, c>> \in Copies
    BY <1>6 DEF OpenFor, Copies, LoopType, Typed, Idle
  <2> QED
    BY <1>2, <1>5, <1>6, <2>1 DEF OpenFor, Withhold
<1>7. ASSUME NEW p \in Copies, PumpRow(p)
      PROVE  Bookkeeping'
  BY <1>2, <1>5, <1>7 DEF PumpRow, Withhold
<1>8. CASE OnMasterClose
  BY <1>1, <1>8 DEF OnMasterClose, Typed, Bookkeeping
<1>9. CASE OnClientOpen
  <2>1. Event.owner \in Copies \cup {Hand}
    BY <1>9, EventTyped DEF OnClientOpen, EventType
  <2> QED
    BY <1>1, <1>9, <2>1 DEF OnClientOpen, Typed, Bookkeeping
<1> QED
  BY <1>2, <1>3, <1>4, <1>6, <1>7, <1>8, <1>9
     DEF Next, EnvNext, Pump, Handle, Scan, vars, book_vars, env_vars,
         MasterOpens, MasterCloses, GrowOlder, Press, HandOpens, Switch, Resume,
         EndMasterOpen, PurgeQueue, BeginPump, DropExpired, TellExpired, DropGone,
         DropSent, EndPump, Restart

LEMMA TypedStep ==
    ASSUME Typed, AtWork, [Next]_vars
    PROVE  Typed'
  BY EventsTyped, LoopTyped, PairTyped, SurroundingsTyped, BookkeepingTyped, RowsTyped,
     RetriesTyped DEF Typed

-----------------------------------------------------------------------------
(* No copy is lost in silence.                                               *)

Listed(m) == \E i \in 1 .. Len(events) : events[i] = [kind |-> "master_open", m |-> m]
Account == AtWork /\ CopyAccounted

LEMMA DropKeeps ==
    ASSUME Typed, NEW p \in Copies, Drop(p), NEW q \in Copies, Queued(q), q # p
    PROVE  Queued(q)'
<1>1. PICK i \in 1 .. Len(queue[p[2]]) :
         queue[p[2]][i] = p[1] /\ queue' = [queue EXCEPT ![p[2]] = RemoveAt(@, i)]
  BY DEF Drop
<1>2. /\ p[2] \in Clients /\ q[2] \in Clients /\ queue \in [Clients -> Seq(Masters)]
      /\ queue[p[2]] \in Seq(Masters) /\ IsInjective(queue[p[2]])
  BY CopyParts DEF Typed, Rows
<1>3. CASE q[2] = p[2]
  <2>1. q[1] # p[1]
    BY <1>3, CopyParts
  <2>2. Contains(RemoveAt(queue[p[2]], i), q[1])
    BY <1>1, <1>2, <1>3, <2>1, RemoveRow DEF Queued
  <2> QED
    BY <1>1, <1>2, <1>3, <2>2 DEF Queued
<1>4. CASE q[2] # p[2]
  BY <1>1, <1>2, <1>4 DEF Queued
<1> QED
  BY <1>3, <1>4

\* Dropping a row that is accounted for loses nothing.
LEMMA DropAccounted ==
    ASSUME Typed, [Next]_vars, NEW p \in Copies, Drop(p), (pair[p] # "none" \/ note[p] # "none")'
    PROVE  \A q \in Copies : Kept(q) => Kept(q)'
  BY DropKeeps, PairTyped, NoteTyped DEF Kept

LEMMA SameRows ==
    ASSUME Typed, [Next]_vars, UNCHANGED queue
    PROVE  \A q \in Copies : (Kept(q) => Kept(q)') /\ (Queued(q) => Queued(q)')
  BY PairTyped, NoteTyped DEF Kept, Queued

\* What CopyAccounted says, with the events apart.
LEMMA Accounted ==
    CopyAccounted <=> \A p \in due : \/ Kept(p) \/ Listed(p[1])
                                     \/ loop.at \in {"expired", "sent"} /\ loop.p = p
  BY DEF CopyAccounted, Kept, Listed, InHand

LEMMA AccountedNext ==
    CopyAccounted' <=> \A p \in due' : \/ Kept(p)' \/ Listed(p[1])'
                                       \/ (loop.at \in {"expired", "sent"} /\ loop.p = p)'
  BY DEF CopyAccounted, Kept, Listed, InHand

\* A Master's open is taken off the list only by who has handled it.
LEMMA ListShrinks ==
    ASSUME Typed, events # <<>>, events' = Tail(events), NEW m, Listed(m),
           Event # [kind |-> "master_open", m |-> m]
    PROVE  Listed(m)'
<1>1. PICK i \in 1 .. Len(events) : events[i] = [kind |-> "master_open", m |-> m]
  BY DEF Listed
<1>2. \E j \in 1 .. Len(Tail(events)) : Tail(events)[j] = events[i]
  BY <1>1, TailKeeps DEF Event, Typed
<1> QED
  BY <1>1, <1>2 DEF Listed

LEMMA ListGrows ==
    ASSUME Typed, AtWork, NEW e \in EventType, events' = Append(events, e)
    PROVE  /\ \A m : Listed(m) => Listed(m)'
           /\ loop.at = "open" => events' # <<>> /\ Event' = Event
<1>1. events \in Seq(EventType) /\ Len(events) \in Nat
  BY LenProperties DEF Typed
<1>2. /\ Append(events, e) \in Seq(EventType) /\ Len(Append(events, e)) = Len(events) + 1
      /\ \A i \in 1 .. Len(events) : Append(events, e)[i] = events[i]
  BY <1>1, AppendProperties
<1>3. \A i \in 1 .. Len(events) : i \in 1 .. Len(events) + 1
  BY <1>1
<1>4. \A m : Listed(m) => Listed(m)'
  BY <1>2, <1>3 DEF Listed
<1>5. ASSUME loop.at = "open" PROVE events' # <<>> /\ Event' = Event
  <2>1. events # <<>>
    BY <1>5 DEF AtWork
  <2>2. Len(events) >= 1 /\ Head(events) = events[1]
    BY <1>1, <2>1
  <2>3. events' # <<>> /\ Head(events') = events'[1]
    BY <1>1, <1>2
  <2> QED
    BY <1>1, <1>2, <2>2, <2>3 DEF Event
<1> QED
  BY <1>4, <1>5

\* A step that leaves the loop where it is, and loses no row the loop has in hand.
LEMMA AccountStays ==
    ASSUME Typed, Account, [Next]_vars, UNCHANGED <<loop, due>>,
           \A p \in Copies : Kept(p) => Kept(p)',
           loop.at = "sent" => Queued(loop.p)',
           \A m : Listed(m) => Listed(m)',
           loop.at = "open" => events' # <<>> /\ Event' = Event
    PROVE  Account'
<1>1. due \subseteq Copies
  BY DEF Typed, Bookkeeping
<1>2. CopyAccounted'
  BY <1>1, Accounted, AccountedNext DEF Account
<1>3. loop.at = "sent" => loop.p \in Copies
  BY DEF Typed, LoopType, Idle
<1>4. loop.at = "sent" => (pair[loop.p] # "none")'
  BY <1>3, PairTyped DEF Account, AtWork
<1>5. AtWork'
  BY <1>1, <1>4 DEF Account, AtWork
<1> QED
  BY <1>2, <1>5 DEF Account

\* A step of the agents, the people, the server's tasks or the scans.
LEMMA AccountElsewhere ==
    ASSUME Typed, Account, [Next]_vars, UNCHANGED <<loop, due, queue>>,
           UNCHANGED events \/ \E e \in EventType : events' = Append(events, e)
    PROVE  Account'
<1>1. \A q \in Copies : (Kept(q) => Kept(q)') /\ (Queued(q) => Queued(q)')
  BY SameRows
<1>2. loop.at = "sent" => Queued(loop.p)'
  BY <1>1 DEF Account, AtWork, Typed, LoopType, Idle
<1>3. CASE UNCHANGED events
  <2>1. (\A m : Listed(m) => Listed(m)') /\ (loop.at = "open" => events' # <<>> /\ Event' = Event)
    BY <1>3 DEF Listed, Event, Account, AtWork
  <2> QED
    BY <1>1, <1>2, <2>1, AccountStays
<1>4. ASSUME NEW e \in EventType, events' = Append(events, e)
      PROVE  Account'
  BY <1>1, <1>2, <1>4, ListGrows, AccountStays DEF Account
<1> QED
  BY <1>3, <1>4

\* The events that are dealt with in one step.
LEMMA AccountHandled ==
    ASSUME Typed, Account, [Next]_vars, OnMasterClose \/ OnClientOpen
    PROVE  Account'
<1>1. /\ Ready /\ Event.kind # "master_open" /\ events' = Tail(events)
      /\ UNCHANGED <<loop, due, queue>>
  BY DEF OnMasterClose, OnClientOpen
<1>2. loop = Idle /\ loop.at = "idle"
  BY <1>1 DEF Ready, Idle
<1>3. \A m : Listed(m) => Listed(m)'
  BY <1>1, ListShrinks DEF Ready
<1>4. \A q \in Copies : Kept(q) => Kept(q)'
  BY <1>1, SameRows
<1> QED
  BY <1>1, <1>2, <1>3, <1>4, AccountStays

LEMMA AccountBegins ==
    ASSUME Typed, Account, [Next]_vars, BeginMasterOpen
    PROVE  Account'
<1> DEFINE m == Event.m
           todo == IF mode = "RUNNING" THEN {c \in Clients : fit[c] # "off"} ELSE {}
           rest == {p \in due : p[1] = m /\ p[2] \notin todo /\ pair[p] = "none"
                                /\ note[p] = "none" /\ ~Queued(p)}
<1>1. /\ Ready /\ Event.kind = "master_open" /\ Event \in EventType
      /\ Event = [kind |-> "master_open", m |-> m] /\ m \in Masters
  BY EventTyped DEF BeginMasterOpen, EventType
<1>2. /\ due' = due \cup ({m} \X todo)
      /\ note' = [p \in Copies |-> IF p \notin rest THEN note[p]
                                   ELSE IF mode = "RUNNING" THEN "off" ELSE "restart"]
      /\ IF mode = "RUNNING"
         THEN loop' = [at |-> "open", m |-> m, todo |-> todo] /\ UNCHANGED events
         ELSE events' = Tail(events) /\ UNCHANGED loop
      /\ UNCHANGED <<queue, pair>>
  BY DEF BeginMasterOpen
<1>3. \A q \in Copies : Kept(q) => Kept(q)'
  BY <1>2, SameRows
<1>4. due \subseteq Copies /\ due' \subseteq Copies
  <2>1. due' \subseteq Copies
    BY BookkeepingTyped DEF Bookkeeping
  <2> QED
    BY <2>1 DEF Typed, Bookkeeping
<1>5. \A p \in due : p[1] = m /\ p[2] \notin todo => Kept(p)'
  <2> SUFFICES ASSUME NEW p \in due, p[1] = m, p[2] \notin todo PROVE Kept(p)'
    OBVIOUS
  <2>1. CASE p \in rest
    BY <1>2, <1>4, <2>1 DEF Kept
  <2>2. CASE p \notin rest
    <3>1. Kept(p)
      BY <2>2 DEF Kept
    <3> QED
      BY <1>3, <1>4, <3>1
  <2> QED
    BY <2>1, <2>2
<1>6. \A p \in due' : p \in due \/ (p[1] = m /\ p[2] \in todo)
  BY <1>2
<1>7. events # <<>> /\ loop = Idle /\ loop.at = "idle"
  BY <1>1 DEF Ready, Idle
<1>8. Listed(m)
  <2>1. Len(events) \in Nat /\ Len(events) >= 1 /\ Head(events) = events[1]
    BY <1>7 DEF Typed
  <2> QED
    BY <1>1, <2>1 DEF Listed, Event
<1>9. CASE mode = "RUNNING"
  <2>1. loop' = [at |-> "open", m |-> m, todo |-> todo] /\ UNCHANGED events
    BY <1>2, <1>9
  <2>2. loop'.at = "open" /\ loop'.m = m /\ loop'.todo = todo
    BY <2>1
  <2>3. (\A x : Listed(x) => Listed(x)') /\ Event' = Event
    BY <2>1 DEF Listed, Event
  <2> HIDE DEF m, todo, rest
  <2>4. AtWork'
    BY <1>1, <1>5, <1>6, <1>7, <2>1, <2>2, <2>3 DEF AtWork
  <2>5. CopyAccounted'
    BY <1>3, <1>4, <1>6, <1>7, <1>8, <2>2, <2>3, Accounted, AccountedNext DEF Account
  <2> QED
    BY <2>4, <2>5 DEF Account
<1>10. CASE mode # "RUNNING"
  <2>1. events' = Tail(events) /\ UNCHANGED loop /\ todo = {}
    BY <1>2, <1>10
  <2>2. \A x : x # m /\ Listed(x) => Listed(x)'
    <3> SUFFICES ASSUME NEW x, x # m, Listed(x) PROVE Listed(x)'
      OBVIOUS
    <3>1. Event # [kind |-> "master_open", m |-> x]
      BY <1>1
    <3> QED
      BY <1>7, <2>1, <3>1, ListShrinks
  <2>3. due' = due
    BY <1>2, <2>1
  <2>4. AtWork'
    BY <1>7, <2>1 DEF AtWork
  <2> HIDE DEF m, rest
  <2>5. \A p \in due : p[1] = m => Kept(p)'
    BY <1>5, <2>1
  <2> HIDE DEF todo
  <2>6. CopyAccounted'
    BY <1>3, <1>4, <1>7, <2>1, <2>2, <2>3, <2>5, Accounted, AccountedNext DEF Account
  <2> QED
    BY <2>4, <2>6 DEF Account
<1> QED
  BY <1>9, <1>10

LEMMA AccountOpenFor ==
    ASSUME Typed, Account, [Next]_vars, NEW c \in Clients, OpenFor(c)
    PROVE  Account'
<1>1. loop \in [at : {"open"}, m : Masters, todo : SUBSET Clients] /\ loop.at = "open"
  BY DEF OpenFor, LoopType, Typed, Idle
<1>2. PICK p \in Copies : p = <<loop.m, c>> /\ p[1] = loop.m /\ p[2] = c
  <2>1. <<loop.m, c>> \in Copies
    BY <1>1 DEF Copies
  <2> QED
    BY <2>1
<1>a. PICK verdict : verdict = Verdict(p, FALSE)
  OBVIOUS
<1>3. /\ loop' = [loop EXCEPT !.todo = loop.todo \ {c}] /\ UNCHANGED <<events, due>>
      /\ queue' = IF verdict = "queue" /\ ~Queued(p)
                  THEN [queue EXCEPT ![c] = Append(queue[c], loop.m)] ELSE queue
      /\ IF verdict = "open" THEN Create(p) /\ UNCHANGED note ELSE Withhold(p, verdict)
  BY <1>2, <1>a DEF OpenFor
<1>4. loop'.at = "open" /\ loop'.m = loop.m /\ loop'.todo = loop.todo \ {c}
  BY <1>1, <1>3
<1>5. \A q \in Copies : Queued(q) => Queued(q)'
  <2>1. CASE UNCHANGED queue
    BY <2>1 DEF Queued
  <2>2. CASE ~Queued(p) /\ queue' = [queue EXCEPT ![c] = Append(queue[c], loop.m)]
    <3>1. \A y : Contains(queue[c], y) => Contains(Append(queue[c], loop.m), y)
      BY <1>1, <1>2, <2>2, AppendRow DEF Queued, Typed, Rows
    <3> QED
      BY <2>2, <3>1, CopyParts DEF Queued, Typed, Rows
  <2> QED
    BY <1>3, <2>1, <2>2
<1>6. \A q \in Copies : Kept(q) => Kept(q)'
  BY <1>5, PairTyped, NoteTyped DEF Kept
<1>7. Kept(p)'
  <2>1. verdict \in {"known", "off", "alert", "queue", "open"}
    BY <1>a DEF Verdict, MustQueue
  <2>2. CASE verdict = "known"
    <3>1. Kept(p)
      BY <1>a, <2>2 DEF Verdict, Kept
    <3> QED
      BY <1>2, <1>6, <3>1
  <2>3. CASE verdict \in {"off", "alert"}
    <3>1. note' = Noted(p, verdict)
      BY <1>3, <2>3 DEF Withhold
    <3>2. note'[p] = verdict
      BY <1>2, <3>1 DEF Noted, Typed, Bookkeeping
    <3> QED
      BY <2>3, <3>2 DEF Kept
  <2>4. CASE verdict = "queue"
    <3>1. CASE Queued(p)
      BY <1>2, <1>5, <3>1 DEF Kept
    <3>2. CASE ~Queued(p)
      <4>1. queue' = [queue EXCEPT ![c] = Append(queue[c], loop.m)]
        BY <1>3, <2>4, <3>2
      <4>2. Contains(Append(queue[c], loop.m), loop.m)
        BY <1>1, <1>2, <3>2, AppendRow DEF Queued, Typed, Rows
      <4> QED
        BY <1>2, <4>1, <4>2 DEF Kept, Queued, Typed, Rows
    <3> QED
      BY <3>1, <3>2
  <2>5. CASE verdict = "open"
    <3>1. pair' = [pair EXCEPT ![p] = "PENDING_OPEN"]
      BY <1>3, <2>5 DEF Create
    <3> QED
      BY <1>2, <3>1 DEF Kept, Typed
  <2> QED
    BY <2>1, <2>2, <2>3, <2>4, <2>5
<1>8. Event' = Event /\ events' = events /\ \A m : Listed(m) => Listed(m)'
  BY <1>3 DEF Event, Listed
<1>9. due \subseteq Copies /\ due' = due
  BY <1>3 DEF Typed, Bookkeeping
<1>10. \A q \in due : q[1] = loop.m /\ q[2] \notin loop'.todo => Kept(q)'
  <2> SUFFICES ASSUME NEW q \in due, q[1] = loop.m, q[2] \notin loop'.todo PROVE Kept(q)'
    OBVIOUS
  <2>1. CASE q[2] = c
    <3>1. q = p
      <4>1. q \in Copies
        BY <1>9
      <4>2. q = <<q[1], q[2]>>
        BY <4>1, CopyParts
      <4> QED
        BY <1>2, <2>1, <4>2
    <3> QED
      BY <1>7, <3>1
  <2>2. CASE q[2] # c
    BY <1>1, <1>4, <1>6, <1>9, <2>2 DEF Account, AtWork
  <2> QED
    BY <2>1, <2>2
<1>11. AtWork'
  BY <1>1, <1>4, <1>8, <1>9, <1>10 DEF Account, AtWork
<1>12. CopyAccounted'
  BY <1>1, <1>6, <1>8, <1>9, Accounted, AccountedNext DEF Account
<1> QED
  BY <1>11, <1>12 DEF Account

LEMMA AccountEnds ==
    ASSUME Typed, Account, [Next]_vars, EndMasterOpen
    PROVE  Account'
<1>1. /\ loop.at = "open" /\ loop.todo = {} /\ loop' = Idle /\ events' = Tail(events)
      /\ UNCHANGED <<queue, due>>
  BY DEF EndMasterOpen
<1>2. events # <<>> /\ Event = [kind |-> "master_open", m |-> loop.m]
  BY <1>1 DEF Account, AtWork
<1>3. \A x : x # loop.m /\ Listed(x) => Listed(x)'
  <2> SUFFICES ASSUME NEW x, x # loop.m, Listed(x) PROVE Listed(x)'
    OBVIOUS
  <2>1. Event # [kind |-> "master_open", m |-> x]
    BY <1>2
  <2> QED
    BY <1>1, <1>2, <2>1, ListShrinks
<1>4. \A q \in Copies : Kept(q) => Kept(q)'
  BY <1>1, SameRows
<1>5. \A p \in due : p[1] = loop.m => Kept(p)
  BY <1>1 DEF Account, AtWork
<1>6. due \subseteq Copies /\ due' = due
  BY <1>1 DEF Typed, Bookkeeping
<1>7. CopyAccounted'
  BY <1>1, <1>3, <1>4, <1>5, <1>6, Accounted, AccountedNext DEF Account
<1>8. AtWork'
  BY <1>1 DEF AtWork, Idle
<1> QED
  BY <1>7, <1>8 DEF Account

LEMMA AccountPumps ==
    ASSUME Typed, Account, [Next]_vars, NEW p \in Copies, PumpRow(p)
    PROVE  Account'
<1> DEFINE verdict == Verdict(p, TRUE)
<1>1. loop.at = "pump" /\ Queued(p) /\ UNCHANGED <<events, due>>
  BY DEF PumpRow
<1>2. loop \in [at : {"pump"}, had : SUBSET Clients]
  BY <1>1 DEF LoopType, Typed, Idle
<1>3. due \subseteq Copies /\ due' = due /\ \A m : Listed(m) => Listed(m)'
  BY <1>1 DEF Typed, Bookkeeping, Listed
<1>4. SUFFICES (\A q \in Copies : Kept(q) => Kept(q)') /\ AtWork'
  BY <1>1, <1>3, Accounted, AccountedNext DEF Account
<1>5. CASE verdict = "open"
  <2>1. Create(p) /\ loop' = [at |-> "sent", p |-> p, had |-> loop.had \cup {p[2]}] /\ UNCHANGED queue
    BY <1>5 DEF PumpRow
  <2>2. loop'.at = "sent" /\ loop'.p = p
    BY <2>1
  <2>3. pair'[p] = "PENDING_OPEN" /\ Queued(p)'
    BY <1>1, <2>1 DEF Create, Typed, Queued
  <2>4. AtWork'
    BY <2>2, <2>3 DEF AtWork
  <2> QED
    BY <2>1, <2>4, SameRows
<1>6. CASE verdict # "open"
  <2>1. /\ Withhold(p, verdict) /\ loop' = [loop EXCEPT !.had = loop.had \cup {p[2]}]
        /\ IF KeepsPlace(verdict) THEN UNCHANGED queue ELSE Drop(p)
    BY <1>6 DEF PumpRow
  <2>2. AtWork'
    BY <1>2, <2>1 DEF AtWork
  <2>3. CASE KeepsPlace(verdict)
    BY <2>1, <2>2, <2>3, SameRows
  <2>4. CASE ~KeepsPlace(verdict)
    <3>1. verdict \in {"known", "off", "alert"}
      BY <1>6, <2>4 DEF Verdict, MustQueue, KeepsPlace
    <3>2. CASE verdict = "known"
      <4>1. pair[p] # "none"
        BY <3>2 DEF Verdict
      <4>2. (pair[p] # "none")'
        BY <4>1, PairTyped
      <4> QED
        BY <2>1, <2>2, <2>4, <4>2, DropAccounted
    <3>3. CASE verdict \in {"off", "alert"}
      <4>1. note' = Noted(p, verdict)
        BY <2>1, <3>3 DEF Withhold
      <4>2. note'[p] = verdict
        BY <4>1 DEF Noted, Typed, Bookkeeping
      <4>3. (note[p] # "none")'
        BY <3>3, <4>2
      <4> QED
        BY <2>1, <2>2, <2>4, <4>3, DropAccounted
    <3> QED
      BY <3>1, <3>2, <3>3
  <2> QED
    BY <2>3, <2>4
<1> QED
  BY <1>5, <1>6

\* The rest of the queue's steps, and a restart.
LEMMA AccountQueue ==
    ASSUME Typed, Account, [Next]_vars,
           \/ PurgeQueue \/ BeginPump \/ TellExpired \/ DropSent \/ EndPump \/ Restart
           \/ \E p \in Copies : DropExpired(p) \/ DropGone(p)
    PROVE  Account'
<1>1. UNCHANGED <<events, due>>
  BY DEF PurgeQueue, BeginPump, TellExpired, DropSent, EndPump, Restart, Reclaimed,
         DropExpired, DropGone
<1>2. /\ due \subseteq Copies /\ due' = due
      /\ \A m : Listed(m) => Listed(m)'
      /\ loop.at = "open" => events' # <<>> /\ Event' = Event
  BY <1>1 DEF Typed, Bookkeeping, Listed, Event, Account, AtWork
<1>3. loop.at \in {"expired", "sent"} => loop.p \in Copies
  BY DEF Typed, LoopType, Idle
<1>4. CASE PurgeQueue
  <2>1. /\ loop = Idle /\ UNCHANGED loop
        /\ note' = [p \in Copies |-> IF Queued(p) /\ pair[p] = "none"
                                     THEN (IF mode = "RESTARTED" THEN "restart" ELSE "mode")
                                     ELSE note[p]]
    BY <1>4 DEF PurgeQueue
  <2>2. \A q \in Copies : pair[q] # "none" => pair'[q] # "none"
    BY PairTyped
  <2>3. \A q \in Copies : Kept(q) => Kept(q)'
    BY <2>1, <2>2 DEF Kept
  <2> QED
    BY <1>2, <2>1, <2>3, AccountStays DEF Idle
<1>5. CASE BeginPump \/ EndPump
  <2>1. loop.at \in {"idle", "pump"} /\ loop'.at \in {"idle", "pump"} /\ UNCHANGED queue
    BY <1>5 DEF BeginPump, EndPump, Idle
  <2>2. AtWork'
    BY <2>1 DEF AtWork
  <2>3. CopyAccounted'
    BY <1>2, <2>1, SameRows, Accounted, AccountedNext DEF Account
  <2> QED
    BY <2>2, <2>3 DEF Account
<1>6. CASE TellExpired
  <2>1. loop.at = "expired" /\ note' = Noted(loop.p, "alert") /\ loop'.at = "pump" /\ UNCHANGED queue
    BY <1>6 DEF TellExpired
  <2>2. PICK p \in Copies : p = loop.p
    BY <1>3, <2>1
  <2>3. Kept(p)'
    BY <2>1, <2>2 DEF Kept, Noted, Typed, Bookkeeping
  <2>4. AtWork'
    BY <2>1 DEF AtWork
  <2>5. CopyAccounted'
    BY <1>2, <2>1, <2>2, <2>3, SameRows, Accounted, AccountedNext DEF Account
  <2> QED
    BY <2>4, <2>5 DEF Account
<1>7. CASE DropSent
  <2>1. loop.at = "sent" /\ Drop(loop.p) /\ loop'.at = "pump"
    BY <1>7 DEF DropSent
  <2>2. PICK p \in Copies : p = loop.p
    BY <1>3, <2>1
  <2>3. pair[p] # "none"
    BY <2>1, <2>2 DEF Account, AtWork
  <2>4. (pair[p] # "none")'
    BY <2>3, PairTyped
  <2>5. (\A q \in Copies : Kept(q) => Kept(q)') /\ Kept(p)'
    BY <2>1, <2>2, <2>4, DropAccounted DEF Kept
  <2>6. AtWork'
    BY <2>1 DEF AtWork
  <2>7. CopyAccounted'
    BY <1>2, <2>1, <2>2, <2>5, Accounted, AccountedNext DEF Account
  <2> QED
    BY <2>6, <2>7 DEF Account
<1>8. CASE Restart
  <2>1. /\ loop' = Idle /\ UNCHANGED queue
        /\ note' = IF loop.at = "expired" THEN Noted(loop.p, "restart") ELSE note
    BY <1>8 DEF Restart
  <2>2. \A p \in Copies : loop.at \in {"expired", "sent"} /\ loop.p = p => Kept(p)'
    <3>1. ASSUME NEW p \in Copies, loop.at = "sent", loop.p = p PROVE Kept(p)'
      <4>1. Kept(p)
        BY <3>1 DEF Account, AtWork, Kept
      <4> QED
        BY <2>1, <4>1, SameRows
    <3>2. ASSUME NEW p \in Copies, loop.at = "expired", loop.p = p PROVE Kept(p)'
      BY <2>1, <3>2 DEF Kept, Noted, Typed, Bookkeeping
    <3> QED
      BY <3>1, <3>2
  <2>3. AtWork'
    BY <2>1 DEF AtWork, Idle
  <2>4. CopyAccounted'
    BY <1>2, <2>1, <2>2, SameRows, Accounted, AccountedNext DEF Account
  <2> QED
    BY <2>3, <2>4 DEF Account
<1>9. ASSUME NEW p \in Copies, DropExpired(p)
      PROVE  Account'
  <2>1. loop.at = "pump" /\ Drop(p) /\ loop'.at = "expired" /\ loop'.p = p
    BY <1>9 DEF DropExpired
  <2>2. \A q \in Copies : q # p /\ Kept(q) => Kept(q)'
    BY <2>1, DropKeeps, PairTyped, NoteTyped DEF Kept
  <2>3. AtWork'
    BY <2>1 DEF AtWork
  <2>4. CopyAccounted'
    BY <1>2, <2>1, <2>2, Accounted, AccountedNext DEF Account
  <2> QED
    BY <2>3, <2>4 DEF Account
<1>10. ASSUME NEW p \in Copies, DropGone(p)
       PROVE  Account'
  <2>1. loop.at = "pump" /\ Drop(p) /\ note' = Noted(p, "gone") /\ UNCHANGED loop
    BY <1>10 DEF DropGone
  <2>2. (note[p] # "none")'
    BY <2>1 DEF Noted, Typed, Bookkeeping
  <2>3. \A q \in Copies : Kept(q) => Kept(q)'
    BY <2>1, <2>2, DropAccounted
  <2> QED
    BY <1>2, <2>1, <2>3, AccountStays
<1> QED
  BY <1>4, <1>5, <1>6, <1>7, <1>8, <1>9, <1>10

LEMMA AccountStep ==
    ASSUME Typed, Account, [Next]_vars
    PROVE  Account'
<1>1. ASSUME NEW m \in Masters, MasterOpens(m) \/ \E b \in BOOLEAN : MasterCloses(m, b)
      PROVE  Account'
  <2>1. [kind |-> "master_open", m |-> m] \in EventType
    BY DEF EventType
  <2>2. \A b \in BOOLEAN : [kind |-> "master_close", m |-> m, byBot |-> b] \in EventType
    BY DEF EventType
  <2>3. /\ UNCHANGED <<loop, due, queue>>
        /\ \E e \in EventType : events' = Append(events, e)
    BY <1>1, <2>1, <2>2 DEF MasterOpens, MasterCloses
  <2> QED
    BY <2>3, AccountElsewhere
<1>2. ASSUME NEW c \in Clients, HandOpens(c)
      PROVE  Account'
  <2>1. ShutNow \in SUBSET (Copies \X Nat)
    BY OpenFlowAssumption DEF ShutNow, Typed, Bookkeeping, Retries
  <2>2. [kind |-> "client_open", c |-> c, owner |-> Hand, tagged |-> FALSE, late |-> ShutNow]
           \in EventType
    BY <2>1 DEF EventType
  <2> QED
    BY <1>2, <2>2, AccountElsewhere DEF HandOpens
<1>3. ASSUME NEW p \in Copies, Press(p)
      PROVE  Account'
  BY <1>3, OpenedTyped, AccountElsewhere DEF Press
<1>4. ASSUME UNCHANGED <<events, loop, due, queue>>
      PROVE  Account'
  BY <1>4, AccountElsewhere
<1>5. ASSUME NEW p \in Copies, \/ WindowShuts(p) \/ OnAck(p) \/ RetryOpen(p) \/ OnTimeout(p)
                               \/ ScanCorrelation(p)
      PROVE  Account'
  BY <1>4, <1>5 DEF WindowShuts, OnAck, RetryOpen, OnTimeout, ScanCorrelation
<1>6. CASE GrowOlder \/ Switch \/ Resume \/ UNCHANGED vars
  BY <1>4, <1>6 DEF GrowOlder, Switch, Resume, vars
<1> QED
  BY <1>1, <1>2, <1>3, <1>5, <1>6, AccountHandled, AccountBegins, AccountOpenFor, AccountEnds,
     AccountPumps, AccountQueue DEF Next, EnvNext, Pump, Handle, Scan

-----------------------------------------------------------------------------
(* The limit of pairs.                                                       *)

LEMMA HoldingFinite ==
    ASSUME NEW c \in Clients
    PROVE  IsFiniteSet(Holding(c)) /\ Cardinality(Holding(c)) \in Nat
<1>1. IsFiniteSet(Masters \X {c})
  BY OpenFlowAssumption, FS_Singleton, FS_Product
<1>2. Holding(c) \subseteq Masters \X {c}
  BY CopyParts DEF Holding, Of, Copies
<1> QED
  BY <1>1, <1>2, FS_Subset, FS_CardinalityType

\* Who is not held already waits for a place.
LEMMA LimitStep ==
    ASSUME Typed, PairsWithinLimit, [Next]_vars
    PROVE  PairsWithinLimit'
<1> SUFFICES ASSUME NEW c \in Clients
             PROVE  Cardinality(Holding(c)') <= MaxOpenPairs
  BY DEF PairsWithinLimit, Holding
<1>1. /\ IsFiniteSet(Holding(c)) /\ Cardinality(Holding(c)) \in Nat
      /\ Cardinality(Holding(c)) <= MaxOpenPairs
  BY HoldingFinite DEF PairsWithinLimit, Holding
<1>2. MaxOpenPairs \in Nat
  BY OpenFlowAssumption
<1>3. ASSUME Holding(c)' \subseteq Holding(c)
      PROVE  Cardinality(Holding(c)') <= MaxOpenPairs
  <2>1. Cardinality(Holding(c)') \in Nat /\ Cardinality(Holding(c)') <= Cardinality(Holding(c))
    BY <1>1, <1>3, FS_Subset, FS_CardinalityType
  <2> QED
    BY <1>1, <1>2, <2>1
<1>4. CASE UNCHANGED pair
  BY <1>3, <1>4 DEF Holding, Of
<1>5. ASSUME NEW p \in Copies, pair' = [pair EXCEPT ![p] = "PENDING_OPEN"], ~AtLimit(p[2])
      PROVE  Cardinality(Holding(c)') <= MaxOpenPairs
  <2>1. CASE p[2] = c
    <3>1. Holding(c)' \subseteq Holding(c) \cup {p}
      BY <1>5 DEF Holding, Of, Typed
    <3>2. Cardinality(Holding(c)) < MaxOpenPairs
      BY <1>1, <1>2, <1>5, <2>1 DEF AtLimit
    <3>3. /\ IsFiniteSet(Holding(c) \cup {p})
          /\ Cardinality(Holding(c) \cup {p}) \in Nat
          /\ Cardinality(Holding(c) \cup {p}) <= Cardinality(Holding(c)) + 1
      <4>1. IsFiniteSet(Holding(c) \cup {p})
        BY <1>1, FS_AddElement
      <4>2. Cardinality(Holding(c) \cup {p}) = Cardinality(Holding(c))
            \/ Cardinality(Holding(c) \cup {p}) = Cardinality(Holding(c)) + 1
        BY <1>1, FS_AddElement, Zenon
      <4> QED
        BY <1>1, <4>1, <4>2
    <3>4. Cardinality(Holding(c)') \in Nat
          /\ Cardinality(Holding(c)') <= Cardinality(Holding(c) \cup {p})
      BY <3>1, <3>3, FS_Subset, FS_CardinalityType
    <3> QED
      BY <1>1, <1>2, <3>2, <3>3, <3>4
  <2>2. CASE p[2] # c
    BY <1>3, <1>5, <2>2 DEF Holding, Of, Typed
  <2> QED
    BY <2>1, <2>2
<1>6. ASSUME NEW p \in Copies, NEW x, Waiting(p), pair' = [pair EXCEPT ![p] = x]
      PROVE  Cardinality(Holding(c)') <= MaxOpenPairs
  BY <1>3, <1>6 DEF Holding, Of, Typed, Waiting
<1>7. ASSUME NEW d \in Clients, OpenFor(d)
      PROVE  Cardinality(Holding(c)') <= MaxOpenPairs
  <2>1. PICK p \in Copies : p = <<loop.m, d>>
    <3>1. <<loop.m, d>> \in Copies
      BY <1>7 DEF OpenFor, Copies, LoopType, Typed, Idle
    <3> QED
      BY <3>1
  <2>2. \/ UNCHANGED pair
        \/ pair' = [pair EXCEPT ![p] = "PENDING_OPEN"] /\ Verdict(p, FALSE) = "open"
    BY <1>7, <2>1 DEF OpenFor, Create, Withhold
  <2>3. Verdict(p, FALSE) = "open" => ~AtLimit(p[2])
    BY DEF Verdict, Barred
  <2> QED
    BY <1>4, <1>5, <2>2, <2>3
<1>8. ASSUME NEW p \in Copies, PumpRow(p)
      PROVE  Cardinality(Holding(c)') <= MaxOpenPairs
  <2>1. \/ UNCHANGED pair
        \/ pair' = [pair EXCEPT ![p] = "PENDING_OPEN"] /\ Verdict(p, TRUE) = "open"
    BY <1>8 DEF PumpRow, Create, Withhold
  <2>2. Verdict(p, TRUE) = "open" => ~AtLimit(p[2])
    BY DEF Verdict, Barred
  <2> QED
    BY <1>4, <1>5, <2>1, <2>2
<1>9. CASE OnMasterClose
  BY <1>3, <1>9 DEF OnMasterClose, Holding, Of, Typed
<1>10. CASE OnClientOpen
  <2>1. \/ UNCHANGED pair
        \/ \E p \in Owners(Event) : \E x : pair' = [pair EXCEPT ![p] = x]
    BY <1>10 DEF OnClientOpen
  <2> QED
    BY <1>4, <1>6, <2>1, OwnersWait
<1>11. ASSUME NEW p \in Copies, OnAck(p)
       PROVE  Cardinality(Holding(c)') <= MaxOpenPairs
  <2>1. UNCHANGED pair \/ (Waiting(p) /\ \E x : pair' = [pair EXCEPT ![p] = x])
    BY <1>11 DEF OnAck, UiAnswer, EaAnswer, Nothing, Tell, Fail, Refused
  <2> QED
    BY <1>4, <1>6, <2>1
<1>12. ASSUME NEW p \in Copies, OnTimeout(p)
       PROVE  Cardinality(Holding(c)') <= MaxOpenPairs
  <2>1. UNCHANGED pair \/ (Waiting(p) /\ pair' = [pair EXCEPT ![p] = "OPEN_FAILED"])
    BY <1>12 DEF OnTimeout, Typed
  <2> QED
    BY <1>4, <1>6, <2>1
<1> QED
  BY <1>4, <1>7, <1>8, <1>9, <1>10, <1>11, <1>12, PairMoves

-----------------------------------------------------------------------------
(* The invariant.                                                            *)

IInv == Typed /\ Account /\ PairsWithinLimit

LEMMA InvInit == Init => IInv
<1> SUFFICES ASSUME Init PROVE IInv
  OBVIOUS
<1> USE OpenFlowAssumption
<1>1. Surroundings /\ Bookkeeping
  BY DEF Init, Surroundings, Bookkeeping
<1>2. Rows
  BY DEF Init, Rows, EmptyQueue, IsInjective
<1>3. Retries
  BY DEF Init, Retries
<1>4. events \in Seq(EventType) /\ loop \in LoopType /\ pair \in [Copies -> PairState]
  BY DEF Init, LoopType, PairState
<1>5. Account
  BY DEF Init, Account, AtWork, CopyAccounted, Idle
<1>6. PairsWithinLimit
  <2> SUFFICES ASSUME NEW c \in Clients
               PROVE  Cardinality({p \in Of(c) : pair[p] \in {"PENDING_OPEN", "OPEN"}}) <= MaxOpenPairs
    BY DEF PairsWithinLimit
  <2>1. {p \in Of(c) : pair[p] \in {"PENDING_OPEN", "OPEN"}} = {}
    BY DEF Init, Of
  <2> QED
    BY <2>1, FS_EmptySet
<1> QED
  BY <1>1, <1>2, <1>3, <1>4, <1>5, <1>6 DEF IInv, Typed

LEMMA InvStep == IInv /\ [Next]_vars => IInv'
  BY TypedStep, AccountStep, LimitStep DEF IInv, Account

LEMMA Invariance == Spec => []IInv
  BY InvInit, InvStep, PTL DEF Spec

\* Types of everything the open flow keeps: no queue is longer than its limit or
\* has a copy twice, no pair is retried more often than it may be.
THEOREM TypeCorrect == Spec => []TypeOK
<1>1. IInv => TypeOK
  BY DEF IInv, Typed, Surroundings, Bookkeeping, Rows, Retries, PairState, TypeOK
<1> QED
  BY <1>1, Invariance, PTL

\* A copy the Bridge has set out to make has a pair, waits, has a note of why not,
\* or is in hand, through restarts, busy clickers, full queues and expired rows.
THEOREM CopyAccountedCorrect == Spec => []CopyAccounted
<1>1. IInv => CopyAccounted
  BY DEF IInv, Account
<1> QED
  BY <1>1, Invariance, PTL

\* No Client ever holds more pairs than max_open_pairs, whatever is on its way.
THEOREM LimitCorrect == Spec => []PairsWithinLimit
<1>1. IInv => PairsWithinLimit
  BY DEF IInv
<1> QED
  BY <1>1, Invariance, PTL

\* A clicker's copies are made in the order in which they came to wait.
THEOREM FifoCorrect == Spec => FifoPerClient
<1> DEFINE InOrder == \A p \in Copies : p[2] \in Ui /\ pair[p] = "none" /\ pair'[p] # "none" =>
                         queue[p[2]] = <<>> \/ Head(queue[p[2]]) = p[1]
<1>1. ASSUME IInv, [Next]_vars PROVE InOrder
  <2> SUFFICES ASSUME NEW p \in Copies, p[2] \in Ui, pair[p] = "none", pair'[p] # "none"
               PROVE  queue[p[2]] = <<>> \/ Head(queue[p[2]]) = p[1]
    OBVIOUS
  <2>1. pair \in [Copies -> PairState] /\ Typed
    BY <1>1 DEF IInv, Typed
  <2>2. ASSUME NEW q, NEW x, pair' = [pair EXCEPT ![q] = x]
        PROVE  q = p
    BY <2>1, <2>2
  <2>3. ~UNCHANGED pair
    OBVIOUS
  <2>4. ~OnMasterClose
    BY <2>1 DEF OnMasterClose
  <2>5. ~OnClientOpen
    BY <2>2, <2>3, OwnersWait, ZenonT(60) DEF OnClientOpen, Waiting
  <2>6. \A q \in Copies : ~OnAck(q) /\ ~OnTimeout(q)
    BY <2>1 DEF OnAck, UiAnswer, EaAnswer, Nothing, Tell, Fail, Refused, OnTimeout, Waiting
  <2>7. ASSUME NEW c \in Clients, OpenFor(c)
        PROVE  queue[p[2]] = <<>>
    <3>1. <<loop.m, c>> = p /\ Verdict(<<loop.m, c>>, FALSE) = "open"
      BY <2>2, <2>3, <2>7 DEF OpenFor, Create, Withhold
    <3>2. Verdict(p, FALSE) = "open"
      BY <3>1
    <3> QED
      BY <3>2 DEF Verdict, MustQueue
  <2>8. ASSUME NEW q \in Copies, PumpRow(q)
        PROVE  Head(queue[p[2]]) = p[1]
    <3>1. q = p
      BY <2>2, <2>3, <2>8 DEF PumpRow, Create, Withhold
    <3> QED
      BY <2>8, <3>1 DEF PumpRow, Turn
  <2> QED
    BY <1>1, <2>3, <2>4, <2>5, <2>6, <2>7, <2>8, PairMoves
<1>2. IInv /\ [Next]_vars => [InOrder]_vars
  BY <1>1
<1> QED
  BY <1>2, Invariance, PTL DEF Spec, FifoPerClient

\* A clicker's position is bound to the pair whose tag it carries and, with STRICT,
\* no position is bound to another pair than its own.
THEOREM BoundCorrect == Spec => BoundToOwn
<1> DEFINE Own == \A p \in Copies : p[2] \in Ui /\ bound'[p] # bound[p]
                                       /\ (Event.tagged \/ Match = "STRICT") => bound'[p] = p
<1>1. ASSUME IInv, [Next]_vars PROVE Own
  <2> SUFFICES ASSUME NEW p \in Copies, p[2] \in Ui, bound'[p] # bound[p],
                      Event.tagged \/ Match = "STRICT"
               PROVE  bound'[p] = p
    OBVIOUS
  <2>1. bound \in [Copies -> Copies \cup {Hand, Unbound}]
    BY <1>1 DEF IInv, Typed, Bookkeeping
  <2>2. OnClientOpen \/ \E q \in Copies : OnAck(q)
    BY <1>1
       DEF Next, EnvNext, Pump, Handle, Scan, vars, book_vars, env_vars,
           MasterOpens, MasterCloses, GrowOlder, WindowShuts, Press, HandOpens, Switch, Resume,
           BeginMasterOpen, OpenFor, EndMasterOpen, OnMasterClose, PurgeQueue, BeginPump,
           DropExpired, TellExpired, DropGone, PumpRow, DropSent, EndPump, OnTimeout, RetryOpen,
           ScanCorrelation, Restart
  <2>3. CASE OnClientOpen
    <3>1. PICK q \in Owners(Event) : bound' = [bound EXCEPT ![q] = Event.owner]
      BY <2>3 DEF OnClientOpen
    <3>2. q = p /\ bound'[p] = Event.owner
      BY <2>1, <3>1
    <3>3. Guessed(Event) = {}
      BY DEF Guessed
    <3>4. q \in Tagged(Event)
      BY <3>1, <3>3 DEF Owners
    <3> QED
      BY <3>2, <3>4 DEF Tagged
  <2>4. ASSUME NEW q \in Copies, OnAck(q)
        PROVE  bound'[p] = p
    <3>1. UNCHANGED bound \/ bound' = [bound EXCEPT ![q] = q]
      BY <2>4 DEF OnAck, UiAnswer, EaAnswer, Nothing, Tell, Fail, Refused
    <3> QED
      BY <2>1, <3>1
  <2> QED
    BY <2>2, <2>3, <2>4
<1>2. IInv /\ [Next]_vars => [Own]_vars
  BY <1>1
<1> QED
  BY <1>2, Invariance, PTL DEF Spec, BoundToOwn

=============================================================================
