------------------------- MODULE EventStreamProofs -------------------------
(* Theorems about EventStream for any number of deals, breaks and crashes.  *)
EXTENDS EventStream, TLAPS

\* A line, a message or a row carries the number its deal was given.
Named(m) == m.deal \in DOMAIN issued /\ m.seq = issued[m.deal]

NamesTrue ==
    /\ eaPc \in {"appended", "saved"} =>
          Len(issued) \in DOMAIN issued /\ issued[Len(issued)] = mSeq
    /\ \A l \in outbox : Named(l)
    /\ \A i \in DOMAIN toBridge : toBridge[i].kind = "event" => Named(toBridge[i])
    /\ \A i \in DOMAIN toBridge : i = 1 \/ toBridge[i].kind = "event"
    /\ \A e \in events : Named(e)
    /\ \A b \in backup : \A e \in b.events : Named(e)

TypeInv == TypeOK /\ NamesTrue

USE BoundsAssumption DEF Deals, MAX_RESEND_ATTEMPTS, Named, fileVars

LEMMA HeadTail ==
    ASSUME NEW S, NEW s \in Seq(S), s # <<>>
    PROVE  /\ Head(s) \in S /\ Tail(s) \in Seq(S)
           /\ Len(s) >= 1 /\ Head(s) = s[1]
           /\ \A i \in DOMAIN Tail(s) : i + 1 \in DOMAIN s /\ Tail(s)[i] = s[i + 1]
  OBVIOUS

LEMMA Appending ==
    ASSUME NEW S, NEW s \in Seq(S), NEW x \in S
    PROVE  /\ Append(s, x) \in Seq(S)
           /\ Len(Append(s, x)) = Len(s) + 1
           /\ DOMAIN Append(s, x) = DOMAIN s \cup {Len(s) + 1}
           /\ \A i \in DOMAIN s : Append(s, x)[i] = s[i]
           /\ Append(s, x)[Len(s) + 1] = x
           /\ \A i \in DOMAIN Append(s, x) :
                 Append(s, x)[i] = x \/ (i \in DOMAIN s /\ Append(s, x)[i] = s[i])
  OBVIOUS

LEMMA TypeInit == Init => TypeInv
<1> SUFFICES ASSUME Init PROVE TypeInv
  OBVIOUS
<1>1. TypeOK
  <2> USE DEF Init
  <2>1. /\ conn \in [live : BOOLEAN, asked : Nat, attempts : 0 .. 3, dropped : SUBSET Deals]
        /\ gap \in [from : Nat, to : Nat]
    BY DEF NoGap, Offline
  <2>2. faults \in [breaks : 0 .. MaxBreaks, ea : 0 .. MaxEaCrashes,
                   bridge : 0 .. MaxBridgeCrashes, restores : 0 .. MaxRestores]
    OBVIOUS
  <2>3. resend \in [from : Nat, after : Nat]
    OBVIOUS
  <2>4. toBridge \in Seq(ToBridgeMsgs) /\ toEa \in Seq(ToEaMsgs) /\ issued \in Seq(Nat) /\ Len(issued) <= MaxDeals
    OBVIOUS
  <2> QED
    BY <2>1, <2>2, <2>3, <2>4 DEF TypeOK
<1>2. NamesTrue
  BY DEF Init, NamesTrue
<1> QED
  BY <1>1, <1>2 DEF TypeInv

\* The EA's steps keep the types and the names.
LEMMA TypeEa == TypeInv /\ EaStep => TypeInv'
<1> SUFFICES ASSUME TypeInv, EaStep PROVE TypeInv'
  OBVIOUS
<1> USE DEF TypeInv, TypeOK
<1>1. CASE AppendOutbox
  <2> DEFINE l == [seq |-> mSeq + 1, deal |-> Len(issued) + 1]
  <2>1. /\ l \in Lines /\ l.deal \in Deals /\ issued' = Append(issued, mSeq + 1)
        /\ outbox' = outbox \cup {l} \/ outbox' = outbox
        /\ lost' = lost \cup {l.deal} \/ lost' = lost
    BY <1>1, SMTT(30) DEF AppendOutbox, Lines
  <2>2. /\ issued' \in Seq(Nat) /\ Len(issued') = Len(issued) + 1
        /\ DOMAIN issued' = DOMAIN issued \cup {Len(issued) + 1}
        /\ \A i \in DOMAIN issued : issued'[i] = issued[i]
        /\ issued'[Len(issued) + 1] = mSeq + 1
    <3>1. issued \in Seq(Nat) /\ mSeq + 1 \in Nat
      OBVIOUS
    <3> QED
      BY ONLY <3>1, <2>1, Appending
  <2>c. outbox' \subseteq Lines /\ lost' \subseteq Deals /\ torn' = FALSE
    BY <2>1, <1>1 DEF AppendOutbox
  <2>d. /\ UNCHANGED <<eaConn, resend, stateSeq, linkVars, bridgeVars, faults>>
        /\ mSeq' = mSeq + 1 /\ eaPc' = "appended" /\ Len(issued) < MaxDeals
    BY <1>1 DEF AppendOutbox
  <2>3. TypeOK'
    <3>1. mSeq' \in Nat /\ Len(issued') <= MaxDeals
      BY <2>2, <2>d
    <3> QED
      BY <2>2, <2>c, <2>d, <3>1 DEF linkVars, bridgeVars, tableVars
  <2>a. \A m : Named(m) => Named(m)'
    BY <2>2
  <2>b. l.deal \in DOMAIN issued' /\ l.seq = issued'[l.deal]
    BY <2>2
  <2>4. NamesTrue'
    BY <2>a, <2>b, <2>1, <2>2, <1>1 DEF AppendOutbox, linkVars, bridgeVars, tableVars, NamesTrue
  <2> QED
    BY <2>3, <2>4
<1>2. CASE SaveState
  BY <1>2 DEF SaveState, linkVars, bridgeVars, tableVars, NamesTrue
<1>3. CASE SendLine
  <2> DEFINE m == Event([seq |-> mSeq, deal |-> Len(issued)])
  <2>1. m \in ToBridgeMsgs /\ Named(m) /\ m.kind = "event"
    BY <1>3 DEF SendLine, NamesTrue, Event, ToBridgeMsgs
  <2>2. toBridge' = Append(toBridge, m) \/ toBridge' = toBridge
    BY <1>3 DEF SendLine, Sent
  <2>3. toBridge' \in Seq(ToBridgeMsgs)
        /\ \A i \in DOMAIN toBridge' :
              toBridge'[i] = m \/ (i \in DOMAIN toBridge /\ toBridge'[i] = toBridge[i])
    <3>1. toBridge \in Seq(ToBridgeMsgs)
      OBVIOUS
    <3> QED
      BY ONLY <2>1, <2>2, <3>1, Appending
  <2>4. TypeOK'
    BY <2>3, <1>3 DEF SendLine, bridgeVars, tableVars
  <2>5. /\ \A i \in DOMAIN toBridge' : toBridge'[i].kind = "event" => Named(toBridge'[i])
        /\ \A i \in DOMAIN toBridge' : i = 1 \/ toBridge'[i].kind = "event"
    <3> HIDE DEF m
    <3> QED
      BY <2>1, <2>3, ZenonT(60) DEF NamesTrue
  <2> QED
    BY <2>4, <2>5, <1>3 DEF SendLine, NamesTrue, bridgeVars, tableVars
<1>4. CASE Connect
  BY <1>4, SMTT(30) DEF Connect, NamesTrue, Hello, Offline, ToBridgeMsgs, tableVars
<1>5. CASE RecvHelloAck
  <2>1. toEa' \in Seq(ToEaMsgs)
    BY <1>5, HeadTail DEF RecvHelloAck, FromBridge, Hears
  <2> QED
    BY <2>1, <1>5 DEF RecvHelloAck, TrimTo, NamesTrue, FromBridge, Hears, bridgeVars, tableVars
<1>6. CASE RecvResend
  <2>1. toEa' \in Seq(ToEaMsgs) /\ Head(toEa) \in ToEaMsgs
    BY <1>6, HeadTail DEF RecvResend, FromBridge, Hears
  <2> QED
    BY <2>1, <1>6 DEF RecvResend, NamesTrue, FromBridge, Hears, bridgeVars, tableVars, ToEaMsgs
<1>7. CASE ResendLine
  <2>1. PICK l \in ToResend : toBridge' = Sent(Event(l))
                             /\ resend' = [resend EXCEPT !.after = l.deal]
    BY <1>7 DEF ResendLine
  <2>2. /\ l \in Lines /\ Named(l) /\ Event(l) \in ToBridgeMsgs /\ Named(Event(l))
        /\ Event(l).kind = "event"
    BY <2>1 DEF ToResend, NamesTrue, Lines, Event, ToBridgeMsgs
  <2>3. toBridge' \in Seq(ToBridgeMsgs)
        /\ \A i \in DOMAIN toBridge' :
              toBridge'[i] = Event(l) \/ (i \in DOMAIN toBridge /\ toBridge'[i] = toBridge[i])
    <3>1. toBridge \in Seq(ToBridgeMsgs)
      OBVIOUS
    <3> QED
      BY ONLY <2>1, <2>2, <3>1, Appending DEF Sent
  <2>a. l.deal \in Nat
    BY <2>2 DEF Lines
  <2>4. resend' \in [from : Nat, after : Nat]
    BY <2>1, <2>a
  <2> QED
    BY <2>2, <2>3, <2>4, <1>7, ZenonT(60) DEF ResendLine, NamesTrue, bridgeVars, tableVars
<1>8. CASE ResendDone
  BY <1>8 DEF ResendDone, NamesTrue, linkVars, bridgeVars, tableVars
<1>9. CASE NoticeBreak
  BY <1>9 DEF NoticeBreak, NamesTrue, linkVars, bridgeVars, tableVars
<1> QED
  BY <1>1, <1>2, <1>3, <1>4, <1>5, <1>6, <1>7, <1>8, <1>9 DEF EaStep

ConnStates == [live : BOOLEAN, asked : Nat, attempts : 0 .. MAX_RESEND_ATTEMPTS,
               dropped : SUBSET Deals]

LEMMA ConnNew ==
    ASSUME NEW a \in Nat, NEW n \in 0 .. MAX_RESEND_ATTEMPTS, NEW D \in SUBSET Deals
    PROVE  [live |-> TRUE, asked |-> a, attempts |-> n, dropped |-> D] \in ConnStates
  BY DEF ConnStates

LEMMA ConnSet ==
    ASSUME NEW c \in ConnStates, NEW a \in Nat, NEW n \in 0 .. MAX_RESEND_ATTEMPTS
    PROVE  [c EXCEPT !.asked = a, !.attempts = n] \in ConnStates
  BY DEF ConnStates

\* What a hello leaves of the link: the lines behind the hello's chunk.
LEMMA Chunk ==
    ASSUME NEW S, NEW s \in Seq(S), s # <<>>, NEW k \in 0 .. Len(s) - 1
    PROVE  /\ SubSeq(s, k + 2, Len(s)) \in Seq(S)
           /\ \A i \in DOMAIN SubSeq(s, k + 2, Len(s)) :
                 /\ i + k + 1 \in DOMAIN s
                 /\ SubSeq(s, k + 2, Len(s))[i] = s[i + k + 1]
           /\ \A i \in 2 .. k + 1 : i \in DOMAIN s
  OBVIOUS

LEMMA TypeParts ==
    TypeInv => /\ lastSeq \in Nat /\ conn \in ConnStates /\ gap \in [from : Nat, to : Nat]
               /\ reported \subseteq Nat /\ events \subseteq EventRows /\ nextId \in Nat
  BY DEF TypeInv, TypeOK, ConnStates

LEMMA Recording ==
    ASSUME TypeInv, NEW m \in ToBridgeMsgs, m.kind = "event", Named(m), Record(m)
    PROVE  /\ events' \subseteq EventRows /\ nextId' \in Nat
           /\ \A e \in events' : e \in events \/ (e.deal = m.deal /\ e.seq = m.seq)
<1> DEFINE row == [id |-> nextId, seq |-> m.seq, deal |-> m.deal]
<1>1. m.seq \in Nat /\ m.deal \in Deals
  BY DEF ToBridgeMsgs
<1>2. row \in EventRows
  BY <1>1, TypeParts DEF EventRows
<1> QED
  <2>1. events \subseteq EventRows /\ nextId \in Nat
    BY TypeParts
  <2>2. \/ events' = events /\ nextId' = nextId
        \/ events' = events \cup {row} /\ nextId' = nextId + 1
    BY DEF Record
  <2>3. row.deal = m.deal /\ row.seq = m.seq
    OBVIOUS
  <2> QED
    BY ONLY <1>2, <2>1, <2>2, <2>3

LEMMA Advancing ==
    ASSUME lastSeq \in Nat, NEW S \in SUBSET Nat, AdvanceOver(S)
    PROVE  lastSeq' \in Nat
  BY DEF AdvanceOver

\* What RecvOld, RecvNext and RecvAhead share: an event is taken off the link.
LEMMA TakingEvent ==
    ASSUME TypeInv, FromEa("event"), toBridge' = Tail(toBridge)
    PROVE  /\ Head(toBridge) \in ToBridgeMsgs /\ Named(Head(toBridge))
           /\ Head(toBridge).kind = "event" /\ Head(toBridge).seq \in Nat
           /\ toBridge' \in Seq(ToBridgeMsgs)
           /\ \A i \in DOMAIN toBridge' : /\ i + 1 \in DOMAIN toBridge
                                          /\ toBridge'[i] = toBridge[i + 1]
<1>1. toBridge \in Seq(ToBridgeMsgs) /\ toBridge # <<>> /\ Head(toBridge).kind = "event"
  BY DEF TypeInv, TypeOK, FromEa
<1>2. /\ Head(toBridge) \in ToBridgeMsgs /\ Tail(toBridge) \in Seq(ToBridgeMsgs)
      /\ Len(toBridge) >= 1 /\ Head(toBridge) = toBridge[1]
      /\ \A i \in DOMAIN Tail(toBridge) : /\ i + 1 \in DOMAIN toBridge
                                          /\ Tail(toBridge)[i] = toBridge[i + 1]
  BY ONLY <1>1, HeadTail
<1>3. 1 \in DOMAIN toBridge
  BY <1>1, <1>2
<1>4. Named(Head(toBridge))
  BY <1>1, <1>2, <1>3 DEF TypeInv, NamesTrue
<1> QED
  BY <1>1, <1>2, <1>4 DEF ToBridgeMsgs

LEMMA RecordedNat == TypeInv => Recorded \subseteq Nat
  BY SMTT(30) DEF TypeInv, TypeOK, Recorded, EventRows

\* The Bridge's steps keep the types and the names.
LEMMA TypeBridge == TypeInv /\ BridgeStep => TypeInv'
<1> SUFFICES ASSUME TypeInv, BridgeStep PROVE TypeInv'
  OBVIOUS
<1>1. CASE RecvHello
  <2>1. toBridge \in Seq(ToBridgeMsgs) /\ toBridge # <<>> /\ lastSeq \in Nat
    BY <1>1, TypeParts DEF RecvHello, FromEa, TypeInv, TypeOK
  <2>a. PICK k \in 0 .. Len(toBridge) - 1 :
           \/ /\ Welcome(k, lastSeq + 1, 1)
              /\ toEa' = Append(Append(toEa, HelloAck(lastSeq)), ResendAsk(lastSeq + 1))
           \/ /\ Welcome(k, 0, 0)
              /\ toEa' = Append(toEa, HelloAck(lastSeq))
    BY <1>1 DEF RecvHello
  <2>2. /\ toBridge' \in Seq(ToBridgeMsgs)
        /\ \A i \in DOMAIN toBridge' : /\ i + k + 1 \in DOMAIN toBridge
                                       /\ toBridge'[i] = toBridge[i + k + 1]
        /\ \A i \in 2 .. k + 1 : i \in DOMAIN toBridge
    <3>1. toBridge' = SubSeq(toBridge, k + 2, Len(toBridge))
      BY <2>a DEF Welcome
    <3> QED
      BY ONLY <2>1, <3>1, Chunk
  <2>3. /\ HelloAck(lastSeq) \in ToEaMsgs /\ ResendAsk(lastSeq + 1) \in ToEaMsgs
        /\ toEa \in Seq(ToEaMsgs)
    BY DEF HelloAck, ResendAsk, ToEaMsgs, TypeInv, TypeOK
  <2>4. Append(toEa, HelloAck(lastSeq)) \in Seq(ToEaMsgs)
    BY ONLY <2>3, Appending
  <2>5. Append(Append(toEa, HelloAck(lastSeq)), ResendAsk(lastSeq + 1)) \in Seq(ToEaMsgs)
    BY ONLY <2>3, <2>4, Appending
  <2>6. toEa' \in Seq(ToEaMsgs)
    BY <2>4, <2>5, <2>a
  <2>7. conn' \in ConnStates
    <3> DEFINE D == {toBridge[i].deal : i \in 2 .. k + 1}
    <3>1. D \in SUBSET Deals
      <4> SUFFICES ASSUME NEW i \in 2 .. k + 1 PROVE toBridge[i].deal \in Deals
        OBVIOUS
      <4>1. i \in DOMAIN toBridge /\ toBridge[i] \in ToBridgeMsgs
        BY <2>1, <2>2
      <4>2. toBridge[1].kind = "hello" /\ i # 1
        BY <2>1, <1>1, HeadTail DEF RecvHello, FromEa
      <4>3. toBridge[i].kind = "event"
        BY <4>1, <4>2, <2>1 DEF TypeInv, NamesTrue
      <4> QED
        BY <4>1, <4>3 DEF ToBridgeMsgs
    <3>2. \/ conn' = [live |-> TRUE, asked |-> lastSeq + 1, attempts |-> 1, dropped |-> D]
          \/ conn' = [live |-> TRUE, asked |-> 0, attempts |-> 0, dropped |-> D]
      BY <2>a DEF Welcome
    <3>3. 0 \in Nat /\ 0 \in 0 .. MAX_RESEND_ATTEMPTS /\ 1 \in 0 .. MAX_RESEND_ATTEMPTS /\ lastSeq + 1 \in Nat
      BY ONLY <2>1 DEF MAX_RESEND_ATTEMPTS
    <3> HIDE DEF MAX_RESEND_ATTEMPTS, D
    <3> QED
      BY ONLY <3>1, <3>2, <3>3, ConnNew
  <2>8. TypeOK'
    BY <2>2, <2>6, <2>7, <1>1 DEF RecvHello, TypeInv, TypeOK, eaVars, tableVars, ConnStates
  <2>9. NamesTrue'
    BY <2>2, <1>1 DEF RecvHello, TypeInv, NamesTrue, eaVars, tableVars
  <2> QED
    BY <2>8, <2>9 DEF TypeInv
<1> DEFINE m == Head(toBridge)
<1>2. CASE RecvOld
  <2>1. FromEa("event") /\ toBridge' = Tail(toBridge) /\ Record(m)
    BY <1>2 DEF RecvOld
  <2>2. TypeOK'
    BY <2>1, <1>2, TakingEvent, Recording DEF RecvOld, TypeInv, TypeOK, eaVars
  <2>3. NamesTrue'
    BY <2>1, <1>2, TakingEvent, Recording DEF RecvOld, TypeInv, NamesTrue, eaVars
  <2> QED
    BY <2>2, <2>3 DEF TypeInv
<1>3. CASE RecvNext
  <2>1. /\ FromEa("event") /\ toBridge' = Tail(toBridge) /\ Record(m)
        /\ AdvanceOver(Recorded \cup {m.seq})
    BY <1>3 DEF RecvNext
  <2>2. lastSeq' \in Nat
    BY <2>1, TakingEvent, Advancing, RecordedNat DEF TypeInv, TypeOK
  <2>3. TypeOK'
    BY <2>1, <2>2, <1>3, TakingEvent, Recording DEF RecvNext, TypeInv, TypeOK, eaVars
  <2>4. NamesTrue'
    BY <2>1, <1>3, TakingEvent, Recording DEF RecvNext, TypeInv, NamesTrue, eaVars
  <2> QED
    BY <2>3, <2>4 DEF TypeInv
<1>4. CASE RecvAhead
  <2>1. /\ FromEa("event") /\ toBridge' = Tail(toBridge) /\ Record(m)
        /\ AdvanceOver(Recorded \cup {m.seq})
    BY <1>4 DEF RecvAhead
  <2>2. lastSeq' \in Nat
    BY <2>1, TakingEvent, Advancing, RecordedNat DEF TypeInv, TypeOK
  <2>3. conn' \in ConnStates
    <3>1. lastSeq \in Nat /\ conn \in ConnStates
      BY TypeParts
    <3>2. Attempts(lastSeq + 1) \in 1 .. MAX_RESEND_ATTEMPTS
      BY <3>1, <1>4 DEF RecvAhead, Attempts, ConnStates
    <3>3. conn' = [conn EXCEPT !.asked = lastSeq + 1, !.attempts = Attempts(lastSeq + 1)]
      BY <1>4 DEF RecvAhead
    <3>4. lastSeq + 1 \in Nat /\ Attempts(lastSeq + 1) \in 0 .. MAX_RESEND_ATTEMPTS
      BY <3>1, <3>2
    <3> QED
      BY ONLY <3>1, <3>3, <3>4, ConnSet
  <2>4. ResendAsk(lastSeq + 1) \in ToEaMsgs /\ toEa \in Seq(ToEaMsgs)
    BY DEF ResendAsk, ToEaMsgs, TypeInv, TypeOK
  <2>5. Append(toEa, ResendAsk(lastSeq + 1)) \in Seq(ToEaMsgs)
    BY ONLY <2>4, Appending
  <2>6. toEa' \in Seq(ToEaMsgs)
    BY <2>5, <1>4 DEF RecvAhead
  <2>7. TypeOK'
    BY <2>1, <2>2, <2>3, <2>6, <1>4, TakingEvent, Recording
       DEF RecvAhead, TypeInv, TypeOK, eaVars, ConnStates
  <2>8. NamesTrue'
    BY <2>1, <1>4, TakingEvent, Recording DEF RecvAhead, TypeInv, NamesTrue, eaVars
  <2> QED
    BY <2>7, <2>8 DEF TypeInv
<1>5. CASE SkipGap
  <2>1. toBridge \in Seq(ToBridgeMsgs) /\ toBridge # <<>>
    BY <1>5 DEF SkipGap, FromEa, TypeInv, TypeOK
  <2>2. m \in ToBridgeMsgs
    BY ONLY <2>1, HeadTail
  <2>3. m.seq \in Nat /\ m.seq > lastSeq + 1 /\ lastSeq \in Nat
    BY <2>2, <1>5 DEF ToBridgeMsgs, SkipGap, TypeInv, TypeOK
  <2>4. gap' = [from |-> lastSeq + 1, to |-> m.seq - 1] /\ lastSeq' = m.seq - 1
        /\ conn' = [conn EXCEPT !.asked = 0, !.attempts = 0]
    BY <1>5 DEF SkipGap, Skipped
  <2>5. gap' \in [from : Nat, to : Nat] /\ lastSeq' \in Nat
    BY ONLY <2>3, <2>4
  <2>6. conn' \in ConnStates
    <3>1. conn \in ConnStates /\ 0 \in Nat /\ 0 \in 0 .. MAX_RESEND_ATTEMPTS
      BY TypeParts
    <3> QED
      BY ONLY <2>4, <3>1, ConnSet
  <2> QED
    BY <2>5, <2>6, <1>5
       DEF SkipGap, TypeInv, TypeOK, NamesTrue, eaVars, linkVars, ConnStates
<1>6. CASE ReportGap
  <2>a. gap.from \in Nat /\ gap.to \in Nat /\ reported \subseteq Nat
    BY TypeParts
  <2>b. reported' = reported \cup gap.from .. gap.to /\ gap' = NoGap
    BY <1>6 DEF ReportGap
  <2>c. NoGap \in [from : Nat, to : Nat]
    BY DEF NoGap
  <2>d. gap.from .. gap.to \subseteq Nat
    BY <2>a
  <2>1. reported' \subseteq Nat /\ gap' \in [from : Nat, to : Nat]
    BY ONLY <2>a, <2>b, <2>c, <2>d
  <2> QED
    BY <2>1, <1>6 DEF ReportGap, TypeInv, TypeOK, NamesTrue, eaVars, linkVars
<1>7. CASE ProcessEvent
  <2>1. handled' \subseteq Nat
    BY <1>7 DEF ProcessEvent, TypeInv, TypeOK, EventRows
  <2> QED
    BY <2>1, <1>7 DEF ProcessEvent, TypeInv, TypeOK, NamesTrue, eaVars, linkVars
<1> QED
  BY <1>1, <1>2, <1>3, <1>4, <1>5, <1>6, <1>7 DEF BridgeStep

FaultCounts == [breaks : 0 .. MaxBreaks, ea : 0 .. MaxEaCrashes,
                bridge : 0 .. MaxBridgeCrashes, restores : 0 .. MaxRestores]

LEMMA FaultsCounted ==
    ASSUME NEW f \in FaultCounts
    PROVE  /\ f.breaks < MaxBreaks => [f EXCEPT !.breaks = @ + 1] \in FaultCounts
           /\ f.ea < MaxEaCrashes => [f EXCEPT !.ea = @ + 1] \in FaultCounts
           /\ f.bridge < MaxBridgeCrashes => [f EXCEPT !.bridge = @ + 1] \in FaultCounts
           /\ f.restores < MaxRestores => [f EXCEPT !.restores = @ + 1] \in FaultCounts
<1>1. f.breaks < MaxBreaks => [f EXCEPT !.breaks = @ + 1] \in FaultCounts
  BY DEF FaultCounts
<1>2. f.ea < MaxEaCrashes => [f EXCEPT !.ea = @ + 1] \in FaultCounts
  BY DEF FaultCounts
<1>3. f.bridge < MaxBridgeCrashes => [f EXCEPT !.bridge = @ + 1] \in FaultCounts
  BY DEF FaultCounts
<1>4. f.restores < MaxRestores => [f EXCEPT !.restores = @ + 1] \in FaultCounts
  BY DEF FaultCounts
<1> QED
  BY <1>1, <1>2, <1>3, <1>4

\* What may go wrong keeps the types and the names.
LEMMA TypeFault == TypeInv /\ (Fault \/ TakeBackup) => TypeInv'
<1> SUFFICES ASSUME TypeInv, Fault \/ TakeBackup PROVE TypeInv'
  OBVIOUS
<1>a. Offline \in ConnStates /\ NoGap \in [from : Nat, to : Nat]
  BY DEF Offline, ConnStates, NoGap
<1>b. CutLink => /\ toBridge' \in Seq(ToBridgeMsgs) /\ toEa' \in Seq(ToEaMsgs)
                 /\ up' \in BOOLEAN /\ DOMAIN toBridge' = {}
  <2> SUFFICES ASSUME CutLink
               PROVE  /\ toBridge' \in Seq(ToBridgeMsgs) /\ toEa' \in Seq(ToEaMsgs)
                      /\ up' \in BOOLEAN /\ DOMAIN toBridge' = {}
    OBVIOUS
  <2>1. toBridge' = <<>> /\ toEa' = <<>> /\ up' = FALSE
    BY DEF CutLink
  <2>2. <<>> \in Seq(ToBridgeMsgs) /\ <<>> \in Seq(ToEaMsgs) /\ DOMAIN <<>> = {}
    OBVIOUS
  <2> QED
    BY ONLY <2>1, <2>2, Zenon
<1>c. faults \in FaultCounts
  BY DEF FaultCounts, TypeInv, TypeOK
<1>1. CASE LinkBreak
  <2>1. faults' \in FaultCounts
    BY <1>c, <1>1, FaultsCounted DEF LinkBreak
  <2> QED
    BY <1>a, <1>b, <2>1, <1>1
       DEF LinkBreak, TypeInv, TypeOK, NamesTrue, eaVars, tableVars, ConnStates, FaultCounts
<1>2. CASE EaCrash
  <2>1. faults' \in FaultCounts
    BY <1>c, <1>2, FaultsCounted DEF EaCrash, TerminalDies
  <2>2. mSeq' \in Nat /\ stateSeq' \in Nat
    BY <1>2 DEF EaCrash, TypeInv, TypeOK
  <2>3. torn' \in BOOLEAN
    BY <1>2 DEF EaCrash, TypeInv, TypeOK
  <2>4. resend' \in [from : Nat, after : Nat]
    BY <1>2 DEF EaCrash, TerminalDies
  <2> QED
    BY <1>a, <1>b, <2>1, <2>2, <2>3, <2>4, <1>2
       DEF EaCrash, TerminalDies, TypeInv, TypeOK, NamesTrue, tableVars, ConnStates, FaultCounts
<1>7. CASE CrashInTrim
  <2>1. faults' \in FaultCounts
    BY <1>c, <1>7, FaultsCounted DEF CrashInTrim, TerminalDies
  <2>2. /\ mSeq' \in Nat /\ stateSeq' \in Nat /\ resend' \in [from : Nat, after : Nat]
        /\ torn' \in BOOLEAN /\ outbox' \subseteq outbox
        /\ \A d \in lost' : d \in lost \/ \E l \in outbox : l.deal = d
    BY <1>7 DEF CrashInTrim, TerminalDies, TypeInv, TypeOK, TrimTo
  <2>a. outbox \subseteq Lines /\ lost \subseteq Deals
    BY DEF TypeInv, TypeOK
  <2>b. \A l \in outbox : l.deal \in Deals
    BY <2>a DEF Lines
  <2>3. outbox' \subseteq Lines /\ lost' \subseteq Deals
    BY <2>2, <2>a, <2>b
  <2>4. TypeOK'
    BY <1>a, <1>b, <2>1, <2>2, <2>3, <1>7
       DEF CrashInTrim, TerminalDies, TypeInv, TypeOK, tableVars, ConnStates, FaultCounts
  <2>5. NamesTrue'
    BY <1>b, <2>2, <1>7 DEF CrashInTrim, TerminalDies, TypeInv, NamesTrue, tableVars
  <2> QED
    BY <2>4, <2>5 DEF TypeInv
<1>3. CASE BridgeCrash
  <2>1. faults' \in FaultCounts
    BY <1>c, <1>3, FaultsCounted DEF BridgeCrash
  <2> QED
    BY <1>a, <1>b, <2>1, <1>3
       DEF BridgeCrash, TypeInv, TypeOK, NamesTrue, eaVars, tableVars, ConnStates, FaultCounts
<1>4. CASE CrashAfterRecord
  <2>1. faults' \in FaultCounts
    BY <1>c, <1>4, FaultsCounted DEF CrashAfterRecord
  <2>2. toBridge \in Seq(ToBridgeMsgs) /\ toBridge # <<>>
    BY <1>4 DEF CrashAfterRecord, FromEa, TypeInv, TypeOK
  <2>3. Head(toBridge) \in ToBridgeMsgs /\ Head(toBridge) = toBridge[1] /\ 1 \in DOMAIN toBridge
    BY <2>2, HeadTail
  <2>4. Head(toBridge).kind = "event" /\ Named(Head(toBridge)) /\ Record(Head(toBridge))
    BY <2>3, <1>4 DEF CrashAfterRecord, FromEa, TypeInv, NamesTrue
  <2>5. TypeOK'
    BY <1>a, <1>b, <2>1, <2>3, <2>4, Recording, <1>4
       DEF CrashAfterRecord, TypeInv, TypeOK, eaVars, ConnStates, FaultCounts
  <2>6. NamesTrue'
    BY <1>b, <2>3, <2>4, Recording, <1>4
       DEF CrashAfterRecord, TypeInv, NamesTrue, eaVars
  <2> QED
    BY <2>5, <2>6 DEF TypeInv
<1>5. CASE RestoreBackup
  <2>1. faults' \in FaultCounts
    BY <1>c, <1>5, FaultsCounted DEF RestoreBackup
  <2>2. PICK b \in backup : /\ lastSeq' = b.lastSeq /\ events' = b.events
                            /\ handled' = b.handled /\ reported' = b.reported
                            /\ nextId' = b.nextId
    BY <1>5 DEF RestoreBackup
  <2>3. b \in TableStates
    BY <2>2 DEF TypeInv, TypeOK
  <2>4. /\ lastSeq' \in Nat /\ events' \subseteq EventRows /\ handled' \subseteq Nat
        /\ reported' \subseteq Nat /\ nextId' \in Nat
    BY <2>2, <2>3 DEF TableStates
  <2>5. TypeOK'
    BY <1>a, <1>b, <2>1, <2>4, <1>5 DEF RestoreBackup, TypeInv, TypeOK, eaVars, ConnStates, FaultCounts
  <2>6. NamesTrue'
    BY <1>b, <2>2, <1>5 DEF RestoreBackup, TypeInv, NamesTrue, eaVars
  <2> QED
    BY <2>5, <2>6 DEF TypeInv
<1>6. CASE TakeBackup
  <2>1. Tables \in TableStates /\ Tables.events = events
    BY DEF Tables, TableStates, TypeInv, TypeOK
  <2> QED
    BY <2>1, <1>6 DEF TakeBackup, TypeInv, TypeOK, NamesTrue, eaVars, linkVars, tableVars
<1> QED
  BY <1>1, <1>2, <1>3, <1>4, <1>5, <1>6, <1>7 DEF Fault

LEMMA TypeStutter == TypeInv /\ UNCHANGED vars => TypeInv'
  BY DEF TypeInv, TypeOK, NamesTrue, vars, eaVars, linkVars, bridgeVars, tableVars

LEMMA TypeInductive == Spec => []TypeInv
<1>1. TypeInv /\ [Next]_vars => TypeInv'
  BY TypeEa, TypeBridge, TypeFault, TypeStutter DEF Next
<1> QED
  BY <1>1, TypeInit, PTL DEF Spec

\* Type correctness: every state of the stream, whatever breaks or crashes.
THEOREM TypeCorrect == Spec => []TypeOK
<1>1. TypeInv => TypeOK
  BY DEF TypeInv
<1> QED
  BY <1>1, TypeInductive, PTL

\* One row per number, now and in the copy of the tables.
OneRowPerSeq ==
    /\ \A e, f \in events : e.seq = f.seq => e = f
    /\ \A b \in backup : \A e, f \in b.events : e.seq = f.seq => e = f

LEMMA RecordKeepsOneRow ==
    ASSUME OneRowPerSeq, NEW m, Record(m)
    PROVE  \A e, f \in events' : e.seq = f.seq => e = f
  BY DEF OneRowPerSeq, Record, Recorded

\* No trade is copied twice: however often its event is sent, crossed with
\* crashes of both programs at any point and with restored backups, the table
\* holds one row for it.
THEOREM DedupCorrect == Spec => []RecordedOnce
<1>1. Init => OneRowPerSeq
  BY DEF Init, OneRowPerSeq
<1>2. TypeInv /\ OneRowPerSeq /\ [Next]_vars => OneRowPerSeq'
  <2> SUFFICES ASSUME TypeInv, OneRowPerSeq, [Next]_vars PROVE OneRowPerSeq'
    OBVIOUS
  <2>1. CASE UNCHANGED <<events, backup>>
    BY <2>1 DEF OneRowPerSeq
  <2>2. CASE Record(Head(toBridge)) /\ UNCHANGED backup
    BY <2>2, RecordKeepsOneRow DEF OneRowPerSeq
  <2>3. CASE TakeBackup
    BY <2>3 DEF TakeBackup, Tables, OneRowPerSeq, tableVars
  <2>4. CASE RestoreBackup
    BY <2>4 DEF RestoreBackup, OneRowPerSeq
  <2>5. CASE EaStep
    BY <2>1, <2>5 DEF EaStep, AppendOutbox, SaveState, SendLine, Connect, RecvHelloAck,
          RecvResend, ResendLine, ResendDone, NoticeBreak, bridgeVars, tableVars
  <2>6. CASE BridgeStep
    BY <2>1, <2>2, <2>6 DEF BridgeStep, RecvHello, RecvOld, RecvNext, RecvAhead, SkipGap,
          ReportGap, ProcessEvent, tableVars
  <2>7. CASE LinkBreak \/ EaCrash \/ CrashInTrim \/ BridgeCrash \/ CrashAfterRecord \/ UNCHANGED vars
    BY <2>1, <2>2, <2>7 DEF LinkBreak, EaCrash, CrashInTrim, TerminalDies, BridgeCrash, CrashAfterRecord, vars,
          bridgeVars, tableVars
  <2> QED
    BY <2>3, <2>4, <2>5, <2>6, <2>7 DEF Next, Fault
<1>3. TypeInv /\ OneRowPerSeq => RecordedOnce
  BY DEF TypeInv, NamesTrue, OneRowPerSeq, RecordedOnce
<1> QED
  BY <1>1, <1>2, <1>3, TypeInductive, PTL DEF Spec

Numbered(S) == {e.seq : e \in S}

\* LastSeqAccounted, of the tables and of their copy.
Accounted ==
    /\ LastSeqAccounted
    /\ \A b \in backup : 1 .. b.lastSeq \subseteq Numbered(b.events) \cup b.reported

LEMMA RecordedGrows ==
    ASSUME NEW m, Record(m)
    PROVE  Recorded' = Recorded \cup {m.seq}
<1> DEFINE row == [id |-> nextId, seq |-> m.seq, deal |-> m.deal]
<1>1. CASE m.seq \in Recorded
  BY <1>1 DEF Record, Recorded
<1>2. CASE m.seq \notin Recorded
  <2>1. events' = events \cup {row} /\ row.seq = m.seq
    BY <1>2 DEF Record
  <2> QED
    BY <2>1 DEF Recorded
<1> QED
  BY <1>1, <1>2

LEMMA AdvanceAccounts ==
    ASSUME lastSeq \in Nat, NEW S \in SUBSET Nat, AdvanceOver(S)
    PROVE  1 .. lastSeq' \subseteq 1 .. lastSeq \cup S
  BY DEF AdvanceOver

LEMMA AccountedInductive ==
    ~CrashMidHandler /\ TypeInv /\ Accounted /\ [Next]_vars => Accounted'
<1> SUFFICES ASSUME ~CrashMidHandler, TypeInv, Accounted, [Next]_vars PROVE Accounted'
  OBVIOUS
<1>a. /\ lastSeq \in Nat /\ Recorded \subseteq Nat /\ gap.from \in Nat /\ gap.to \in Nat
  BY TypeParts, RecordedNat
<1>1. CASE UNCHANGED <<lastSeq, events, reported, gap, backup>>
  BY <1>1 DEF Accounted, LastSeqAccounted, Recorded
<1>2. CASE RecvOld
  BY <1>2, RecordedGrows DEF RecvOld, Accounted, LastSeqAccounted
<1>3. CASE RecvNext \/ RecvAhead
  <2>1. /\ FromEa("event") /\ toBridge' = Tail(toBridge) /\ Record(Head(toBridge))
        /\ AdvanceOver(Recorded \cup {Head(toBridge).seq})
        /\ UNCHANGED <<reported, gap, backup>>
    BY <1>3 DEF RecvNext, RecvAhead
  <2>2. Recorded \cup {Head(toBridge).seq} \subseteq Nat
    BY <1>a, <2>1, TakingEvent
  <2>3. 1 .. lastSeq' \subseteq 1 .. lastSeq \cup Recorded'
    BY <1>a, <2>1, <2>2, AdvanceAccounts, RecordedGrows
  <2>4. Recorded \subseteq Recorded'
    BY <2>1, RecordedGrows
  <2> QED
    BY <2>1, <2>3, <2>4 DEF Accounted, LastSeqAccounted
<1>4. CASE SkipGap
  <2>1. toBridge \in Seq(ToBridgeMsgs) /\ toBridge # <<>>
    BY <1>4 DEF SkipGap, FromEa, TypeInv, TypeOK
  <2>2. Head(toBridge) \in ToBridgeMsgs
    BY ONLY <2>1, HeadTail
  <2>3. Head(toBridge).seq \in Nat /\ Head(toBridge).seq > lastSeq + 1
    BY <2>2, <1>4 DEF ToBridgeMsgs, SkipGap
  <2>4. /\ gap = NoGap /\ gap'.from = lastSeq + 1 /\ gap'.to = Head(toBridge).seq - 1
        /\ lastSeq' = Head(toBridge).seq - 1
    BY <1>4 DEF SkipGap, FromEa, Skipped
  <2>5. gap.from .. gap.to = {}
    BY <2>4 DEF NoGap
  <2>6. 1 .. lastSeq' \subseteq 1 .. lastSeq \cup gap'.from .. gap'.to
    BY <1>a, <2>3, <2>4
  <2> QED
    BY <2>5, <2>6, <1>4 DEF SkipGap, Accounted, LastSeqAccounted, Recorded
<1>5. CASE ReportGap
  BY <1>5 DEF ReportGap, Accounted, LastSeqAccounted, Recorded
<1>6. CASE BridgeCrash
  <2>1. gap' = gap
    BY <1>6 DEF BridgeCrash
  <2> QED
    BY <2>1, <1>6 DEF BridgeCrash, tableVars, Accounted, LastSeqAccounted, Recorded
<1>7. CASE CrashAfterRecord
  BY <1>7, RecordedGrows DEF CrashAfterRecord, Accounted, LastSeqAccounted
<1>8. CASE TakeBackup
  <2>1. gap.from .. gap.to = {}
    BY <1>8 DEF TakeBackup, NoGap
  <2>2. 1 .. Tables.lastSeq \subseteq Numbered(Tables.events) \cup Tables.reported
    BY <2>1 DEF Tables, Accounted, LastSeqAccounted, Recorded, Numbered
  <2> QED
    BY <2>2, <1>8 DEF TakeBackup, tableVars, Accounted, LastSeqAccounted, Recorded
<1>9. CASE RestoreBackup
  BY <1>9 DEF RestoreBackup, Accounted, LastSeqAccounted, Recorded, Numbered
<1>10. CASE EaStep
  BY <1>1, <1>10 DEF EaStep, AppendOutbox, SaveState, SendLine, Connect, RecvHelloAck,
        RecvResend, ResendLine, ResendDone, NoticeBreak, bridgeVars, tableVars
<1>11. CASE RecvHello \/ ProcessEvent \/ LinkBreak \/ EaCrash \/ CrashInTrim \/ UNCHANGED vars
  BY <1>1, <1>11 DEF RecvHello, ProcessEvent, LinkBreak, EaCrash, CrashInTrim, TerminalDies, vars, bridgeVars, tableVars
<1> QED
  BY <1>2, <1>3, <1>4, <1>5, <1>6, <1>7, <1>8, <1>9, <1>10, <1>11 DEF Next, BridgeStep, Fault

\* last_seq never runs over a number nobody has: unless the Bridge dies inside
\* _accept_gap, every number it has passed is a row or is in an alert.
THEOREM LastSeqCorrect ==
    ASSUME ~CrashMidHandler
    PROVE  Spec => []LastSeqAccounted
<1>1. Init => Accounted
  BY DEF Init, Accounted, LastSeqAccounted
<1>2. Accounted => LastSeqAccounted
  BY DEF Accounted
<1>3. TypeInv /\ Accounted /\ [Next]_vars => Accounted'
  BY AccountedInductive
<1> QED
  BY <1>1, <1>2, <1>3, TypeInductive, PTL DEF Spec

\* The numbers given to the deals grow, and state.json knows the last one.
Increasing ==
    /\ \A d \in DOMAIN issued : 1 <= issued[d] /\ issued[d] <= mSeq
    /\ \A c, d \in DOMAIN issued : c < d => issued[c] < issued[d]
    /\ eaPc # "appended" => stateSeq = mSeq

LEMMA IncreasingInductive ==
    ~CrashMidWrite /\ TypeInv /\ Increasing /\ [Next]_vars => Increasing'
<1> SUFFICES ASSUME ~CrashMidWrite, TypeInv, Increasing, [Next]_vars PROVE Increasing'
  OBVIOUS
<1>1. CASE UNCHANGED <<issued, mSeq, eaPc, stateSeq>>
  BY <1>1 DEF Increasing
<1>2. CASE AppendOutbox
  <2>1. issued \in Seq(Nat) /\ mSeq \in Nat
    BY DEF TypeInv, TypeOK
  <2>2. issued' = Append(issued, mSeq + 1) /\ mSeq' = mSeq + 1 /\ eaPc' = "appended"
    BY <1>2 DEF AppendOutbox
  <2>3. /\ DOMAIN issued' = DOMAIN issued \cup {Len(issued) + 1}
        /\ \A i \in DOMAIN issued : issued'[i] = issued[i] /\ i < Len(issued) + 1
        /\ issued'[Len(issued) + 1] = mSeq + 1
        /\ \A i \in DOMAIN issued : issued[i] \in Nat
    BY ONLY <2>1, <2>2
  <2> QED
    BY <2>1, <2>2, <2>3 DEF Increasing
<1>3. CASE SaveState \/ SendLine \/ RecvResend \/ ResendLine \/ ResendDone
  BY <1>3 DEF SaveState, SendLine, RecvResend, FromBridge, Hears, ResendLine, ResendDone, Increasing
<1>4. CASE EaCrash
  BY <1>4 DEF EaCrash, TerminalDies, Increasing
<1>8. CASE CrashInTrim
  BY <1>8 DEF CrashInTrim, TerminalDies, Hears, Increasing
<1>5. CASE Connect \/ RecvHelloAck \/ NoticeBreak \/ TakeBackup \/ UNCHANGED vars
  BY <1>1, <1>5 DEF Connect, RecvHelloAck, NoticeBreak, TakeBackup, vars, eaVars
<1>6. CASE BridgeStep
  BY <1>1, <1>6 DEF BridgeStep, RecvHello, RecvOld, RecvNext, RecvAhead, SkipGap,
        ReportGap, ProcessEvent, eaVars
<1>7. CASE LinkBreak \/ BridgeCrash \/ CrashAfterRecord \/ RestoreBackup
  BY <1>1, <1>7 DEF LinkBreak, BridgeCrash, CrashAfterRecord, RestoreBackup, eaVars
<1> QED
  BY <1>2, <1>3, <1>4, <1>5, <1>6, <1>7, <1>8 DEF Next, EaStep, Fault

LEMMA NoLossFromParts == TypeInv /\ LastSeqAccounted /\ Increasing => NoSilentLoss
<1> SUFFICES ASSUME TypeInv, LastSeqAccounted, Increasing,
                    NEW d \in DOMAIN issued, issued[d] <= lastSeq
             PROVE  InTable(d) \/ Reported(d)
  BY DEF NoSilentLoss
<1>1. issued \in Seq(Nat) /\ issued[d] \in 1 .. lastSeq
  <2>1. issued \in Seq(Nat) /\ lastSeq \in Nat
    BY DEF TypeInv, TypeOK
  <2>2. issued[d] \in Nat
    BY ONLY <2>1, d \in DOMAIN issued
  <2>3. 1 <= issued[d]
    BY DEF Increasing
  <2>4. issued[d] <= lastSeq
    OBVIOUS
  <2>5. issued[d] \in 1 .. lastSeq
    BY ONLY <2>1, <2>2, <2>3, <2>4
  <2> QED
    BY ONLY <2>1, <2>5
<1>2. CASE issued[d] \in Recorded
  <2>1. PICK e \in events : e.seq = issued[d]
    BY <1>2 DEF Recorded
  <2>2. e.deal \in DOMAIN issued /\ e.seq = issued[e.deal]
    BY DEF TypeInv, NamesTrue
  <2>a. e.deal \in Nat /\ d \in Nat /\ issued[d] \in Nat
    BY ONLY <1>1, <2>2, TypeParts
  <2>b. ~(e.deal < d) /\ ~(d < e.deal)
    <3>1. \A c, f \in DOMAIN issued : c < f => issued[c] < issued[f]
      BY DEF Increasing
    <3>2. issued[e.deal] = issued[d]
      BY <2>1, <2>2
    <3>3. ~(issued[d] < issued[d])
      BY ONLY <2>a
    <3> QED
      BY ONLY <2>2, <3>1, <3>2, <3>3
  <2>3. e.deal = d
    BY ONLY <2>a, <2>b
  <2> QED
    BY <2>3 DEF InTable
<1>3. CASE issued[d] \in reported \cup gap.from .. gap.to
  BY <1>3 DEF Reported
<1> QED
  BY <1>1, <1>2, <1>3 DEF LastSeqAccounted

\* No trade is lost in silence: outside the two windows in which a process dies
\* between writes that belong together, a trade last_seq has passed is in the
\* table or an alert names it; link breaks, crashes and restores included.
THEOREM NoSilentLossCorrect ==
    ASSUME ~CrashMidHandler, ~CrashMidWrite
    PROVE  Spec => []NoSilentLoss
<1>1. Init => Increasing
  BY DEF Init, Increasing
<1>2. TypeInv /\ Increasing /\ [Next]_vars => Increasing'
  BY IncreasingInductive
<1> QED
  BY <1>1, <1>2, NoLossFromParts, TypeInductive, LastSeqCorrect, PTL DEF Spec

\* What hello_ack tells the EA to cut is at or below last_seq.
AcksBounded ==
    \A i \in DOMAIN toEa : toEa[i].kind = "hello_ack" => toEa[i].seq <= lastSeq

LEMMA LastSeqGrows ==
    TypeInv /\ [Next]_vars /\ ~RestoreBackup => lastSeq' \in Nat /\ lastSeq <= lastSeq'
<1> SUFFICES ASSUME TypeInv, [Next]_vars, ~RestoreBackup
             PROVE  lastSeq' \in Nat /\ lastSeq <= lastSeq'
  OBVIOUS
<1>a. lastSeq \in Nat /\ Recorded \subseteq Nat
  BY TypeParts, RecordedNat
<1>1. CASE UNCHANGED lastSeq
  BY <1>1, <1>a
<1>2. CASE RecvNext \/ RecvAhead
  <2>1. /\ FromEa("event") /\ toBridge' = Tail(toBridge)
        /\ AdvanceOver(Recorded \cup {Head(toBridge).seq})
    BY <1>2 DEF RecvNext, RecvAhead
  <2>2. Recorded \cup {Head(toBridge).seq} \subseteq Nat
    BY <1>a, <2>1, TakingEvent
  <2> QED
    BY <1>a, <2>1, <2>2 DEF AdvanceOver
<1>3. CASE SkipGap
  <2>1. toBridge \in Seq(ToBridgeMsgs) /\ toBridge # <<>>
    BY <1>3 DEF SkipGap, FromEa, TypeInv, TypeOK
  <2>2. Head(toBridge) \in ToBridgeMsgs
    BY ONLY <2>1, HeadTail
  <2> QED
    BY <1>a, <2>2, <1>3 DEF ToBridgeMsgs, SkipGap
<1>4. CASE EaStep
  BY <1>1, <1>4 DEF EaStep, AppendOutbox, SaveState, SendLine, Connect, RecvHelloAck,
        RecvResend, ResendLine, ResendDone, NoticeBreak, bridgeVars, tableVars
<1>5. CASE \/ RecvHello \/ RecvOld \/ ReportGap \/ ProcessEvent \/ TakeBackup \/ LinkBreak
           \/ EaCrash \/ CrashInTrim \/ BridgeCrash \/ CrashAfterRecord \/ UNCHANGED vars
  BY <1>1, <1>5 DEF RecvHello, RecvOld, ReportGap, ProcessEvent, TakeBackup, LinkBreak,
        EaCrash, CrashInTrim, TerminalDies, BridgeCrash, CrashAfterRecord, vars, bridgeVars, tableVars
<1> QED
  BY <1>2, <1>3, <1>4, <1>5 DEF Next, BridgeStep, Fault

LEMMA AcksInductive ==
    TypeInv /\ AcksBounded /\ [Next]_vars /\ ~RestoreBackup => AcksBounded'
<1> SUFFICES ASSUME TypeInv, AcksBounded, [Next]_vars, ~RestoreBackup PROVE AcksBounded'
  OBVIOUS
<1>a. lastSeq \in Nat /\ lastSeq' \in Nat /\ lastSeq <= lastSeq' /\ toEa \in Seq(ToEaMsgs)
  BY LastSeqGrows DEF TypeInv, TypeOK
<1>b. \A i \in DOMAIN toEa : toEa[i].seq \in Nat
  <2>1. \A i \in DOMAIN toEa : toEa[i] \in ToEaMsgs
    BY ONLY <1>a
  <2> QED
    BY ONLY <2>1 DEF ToEaMsgs
<1>1. CASE toEa' = toEa
  BY <1>1, <1>a, <1>b DEF AcksBounded
<1>2. CASE toEa' = <<>>
  BY <1>2 DEF AcksBounded
<1>3. CASE toEa # <<>> /\ toEa' = Tail(toEa)
  <2>1. \A i \in DOMAIN toEa' : i + 1 \in DOMAIN toEa /\ toEa'[i] = toEa[i + 1]
    BY ONLY <1>a, <1>3, HeadTail
  <2> QED
    BY <2>1, <1>a, <1>b DEF AcksBounded
<1>4. CASE RecvHello
  <2>1. HelloAck(lastSeq) \in ToEaMsgs /\ ResendAsk(lastSeq + 1) \in ToEaMsgs
    BY <1>a DEF HelloAck, ResendAsk, ToEaMsgs
  <2> DEFINE one == Append(toEa, HelloAck(lastSeq))
  <2>2. /\ one \in Seq(ToEaMsgs)
        /\ \A i \in DOMAIN one : one[i] = HelloAck(lastSeq) \/ (i \in DOMAIN toEa /\ one[i] = toEa[i])
    BY ONLY <1>a, <2>1, Appending
  <2>3. \A i \in DOMAIN one : one[i].kind = "hello_ack" => one[i].seq <= lastSeq
    BY <1>a, <2>2 DEF AcksBounded, HelloAck
  <2> DEFINE two == Append(one, ResendAsk(lastSeq + 1))
  <2>4. \A i \in DOMAIN two : two[i] = ResendAsk(lastSeq + 1) \/ (i \in DOMAIN one /\ two[i] = one[i])
    <3> HIDE DEF one
    <3> QED
      BY ONLY <2>1, <2>2, Appending
  <2>5. \A i \in DOMAIN two : two[i].kind = "hello_ack" => two[i].seq <= lastSeq
    BY <2>3, <2>4 DEF ResendAsk
  <2>6. lastSeq' = lastSeq /\ (toEa' = one \/ toEa' = two)
    BY <1>4 DEF RecvHello, tableVars
  <2> QED
    BY <2>3, <2>5, <2>6 DEF AcksBounded
<1>5. CASE RecvAhead
  <2>1. ResendAsk(lastSeq + 1) \in ToEaMsgs /\ toEa' = Append(toEa, ResendAsk(lastSeq + 1))
    BY <1>5, <1>a DEF RecvAhead, ResendAsk, ToEaMsgs
  <2>2. \A i \in DOMAIN toEa' :
           toEa'[i] = ResendAsk(lastSeq + 1) \/ (i \in DOMAIN toEa /\ toEa'[i] = toEa[i])
    BY ONLY <1>a, <2>1, Appending
  <2> QED
    BY <1>a, <1>b, <2>2 DEF AcksBounded, ResendAsk
<1>6. CASE EaStep
  BY <1>1, <1>2, <1>3, <1>6 DEF EaStep, AppendOutbox, SaveState, SendLine, Connect,
        RecvHelloAck, RecvResend, FromBridge, Hears, ResendLine, ResendDone, NoticeBreak, linkVars
<1>7. CASE \/ RecvOld \/ RecvNext \/ SkipGap \/ ReportGap \/ ProcessEvent \/ TakeBackup
           \/ LinkBreak \/ EaCrash \/ CrashInTrim \/ BridgeCrash \/ CrashAfterRecord \/ UNCHANGED vars
  BY <1>1, <1>2, <1>7 DEF RecvOld, RecvNext, SkipGap, ReportGap, ProcessEvent, TakeBackup,
        LinkBreak, EaCrash, CrashInTrim, TerminalDies, BridgeCrash, CrashAfterRecord, CutLink, vars, linkVars
<1> QED
  BY <1>4, <1>5, <1>6, <1>7 DEF Next, BridgeStep, Fault

\* What a step leaves of a row, of a reported number and of a line.
LEMMA NothingForgotten ==
    TypeInv /\ [Next]_vars /\ ~RestoreBackup /\ ~CrashMidHandler
      /\ ~RecvHelloAck /\ ~CrashInTrim
       => /\ events \subseteq events' /\ outbox \subseteq outbox' /\ lost \subseteq lost'
          /\ reported \cup gap.from .. gap.to \subseteq reported' \cup gap'.from .. gap'.to
<1> DEFINE Known == reported \cup gap.from .. gap.to
<1> SUFFICES ASSUME TypeInv, [Next]_vars, ~RestoreBackup, ~CrashMidHandler,
                    ~RecvHelloAck, ~CrashInTrim
             PROVE  /\ events \subseteq events' /\ outbox \subseteq outbox' /\ lost \subseteq lost'
                    /\ Known \subseteq Known'
  OBVIOUS
<1>1. CASE UNCHANGED <<events, outbox, lost, reported, gap>>
  BY <1>1
<1>2. CASE AppendOutbox
  BY <1>2 DEF AppendOutbox, bridgeVars, tableVars
<1>3. CASE UNCHANGED <<outbox, lost, reported, gap>> /\ Record(Head(toBridge))
  BY <1>3 DEF Record
<1>4. CASE SkipGap
  <2>1. gap.from .. gap.to = {}
    BY <1>4 DEF SkipGap, FromEa, NoGap
  <2> QED
    BY <2>1, <1>4 DEF SkipGap, eaVars
<1>5. CASE ReportGap
  BY <1>5 DEF ReportGap, eaVars
<1>6. CASE BridgeCrash
  BY <1>1, <1>6 DEF BridgeCrash, eaVars, tableVars
<1>7. CASE EaStep
  BY <1>1, <1>2, <1>7 DEF EaStep, SaveState, SendLine, Connect,
        RecvResend, ResendLine, ResendDone, NoticeBreak, bridgeVars, tableVars
<1>8. CASE RecvOld \/ RecvNext \/ RecvAhead \/ CrashAfterRecord
  BY <1>3, <1>8 DEF RecvOld, RecvNext, RecvAhead, CrashAfterRecord, eaVars
<1>9. CASE RecvHello \/ ProcessEvent \/ TakeBackup \/ LinkBreak \/ EaCrash \/ UNCHANGED vars
  BY <1>1, <1>9 DEF RecvHello, ProcessEvent, TakeBackup, LinkBreak, EaCrash, TerminalDies, vars, eaVars,
        bridgeVars, tableVars
<1> QED
  BY <1>4, <1>5, <1>6, <1>7, <1>8, <1>9 DEF Next, BridgeStep, Fault

\* A step into a state whose database was never put back puts none back.
LEMMA NeverRestored ==
    TypeInv /\ [Next]_vars /\ faults'.restores = 0 => faults.restores = 0 /\ ~RestoreBackup
<1> SUFFICES ASSUME TypeInv, [Next]_vars, faults'.restores = 0
             PROVE  faults.restores = 0 /\ ~RestoreBackup
  OBVIOUS
<1>1. /\ faults \in [breaks : 0 .. MaxBreaks, ea : 0 .. MaxEaCrashes,
                      bridge : 0 .. MaxBridgeCrashes, restores : 0 .. MaxRestores]
      /\ faults.restores \in Nat
  BY BoundsAssumption DEF TypeInv, TypeOK
<1>2. ~RestoreBackup
  BY <1>1 DEF RestoreBackup
<1>3. faults'.restores = faults.restores
  BY <1>1, <1>2 DEF Next, EaStep, BridgeStep, Fault, AppendOutbox, SaveState, SendLine, Connect,
        RecvHelloAck, RecvResend, ResendLine, ResendDone, NoticeBreak, RecvHello, RecvOld,
        RecvNext, RecvAhead, SkipGap, ReportGap, ProcessEvent, TakeBackup, LinkBreak, EaCrash,
        CrashInTrim, TerminalDies, BridgeCrash, CrashAfterRecord, vars
<1> QED
  BY <1>2, <1>3

\* The EA never cuts from its file what the Bridge still lacks: until the
\* database is put back from a backup, a trade in neither the table nor an alert
\* is in the outbox, unless a death inside the writing of that very file has
\* destroyed its line.
THEOREM OwedIsKeptCorrect ==
    ASSUME ~CrashMidHandler, ~CrashMidWrite
    PROVE  Spec => []OwedIsKept
<1> DEFINE AcksKnown == faults.restores = 0 => AcksBounded
           Kept(d)   == InTable(d) \/ Reported(d) \/ InFile(d) \/ d \in lost
<1>1. Init => AcksKnown /\ OwedIsKept /\ Increasing
  BY DEF Init, AcksBounded, OwedIsKept, Increasing
<1>3. TypeInv /\ AcksKnown /\ [Next]_vars => AcksKnown'
  BY NeverRestored, AcksInductive
<1>4. TypeInv /\ Increasing /\ [Next]_vars => Increasing'
  BY IncreasingInductive
<1>5. TypeInv /\ AcksKnown /\ NoSilentLoss /\ OwedIsKept /\ [Next]_vars => OwedIsKept'
  <2> SUFFICES ASSUME TypeInv, AcksKnown, NoSilentLoss, OwedIsKept, [Next]_vars,
                      faults'.restores = 0
               PROVE  \A d \in DOMAIN issued' : Kept(d)'
    BY DEF OwedIsKept
  <2>b. AcksBounded /\ ~RestoreBackup /\ faults.restores = 0
    BY NeverRestored
  <2>c. \A d \in DOMAIN issued : Kept(d)
    BY <2>b DEF OwedIsKept
  <2>a. \A d \in DOMAIN issued : issued[d] \in Nat
    BY SMTT(30) DEF TypeInv, TypeOK
  \* What hello_ack lets the EA cut is in the table or in an alert.
  <2>d. ASSUME Hears("hello_ack"), NEW l \in outbox, l \notin TrimTo(Head(toEa).seq)
        PROVE  InTable(l.deal) \/ Reported(l.deal)
    <3>2. l.deal \in DOMAIN issued /\ l.seq = issued[l.deal]
      BY DEF TypeInv, NamesTrue
    <3>3. toEa \in Seq(ToEaMsgs) /\ toEa # <<>> /\ Head(toEa).kind = "hello_ack"
      BY <2>d DEF Hears, TypeInv, TypeOK
    <3>4. Head(toEa) = toEa[1] /\ 1 \in DOMAIN toEa /\ Head(toEa) \in ToEaMsgs
      BY ONLY <3>3, HeadTail
    <3>5. Head(toEa).seq <= lastSeq /\ Head(toEa).seq \in Nat /\ lastSeq \in Nat
      BY <2>b, <3>3, <3>4, TypeParts DEF AcksBounded, ToEaMsgs
    <3>6. ~(l.seq > Head(toEa).seq)
      BY <2>d DEF TrimTo
    <3>7. issued[l.deal] <= lastSeq
      BY <2>a, <3>2, <3>5, <3>6
    <3> QED
      BY <3>2, <3>7 DEF NoSilentLoss
  <2>1. CASE RecvHelloAck
    <3>1. /\ outbox' = TrimTo(Head(toEa).seq) /\ Hears("hello_ack")
          /\ UNCHANGED <<issued, lost, reported, gap, events>>
      BY <2>1 DEF RecvHelloAck, FromBridge, bridgeVars, tableVars
    <3> SUFFICES ASSUME NEW d \in DOMAIN issued, InFile(d), ~InFile(d)'
                 PROVE  InTable(d) \/ Reported(d)
      BY <3>1, <2>c DEF InTable, Reported
    <3> QED
      BY <3>1, <2>d DEF InFile
  <2>4. CASE CrashInTrim
    <3>1. /\ Hears("hello_ack")
          /\ lost' = lost \cup {l.deal : l \in TrimTo(Head(toEa).seq) \ outbox'}
          /\ UNCHANGED <<issued, reported, gap, events>>
      BY <2>4 DEF CrashInTrim, TerminalDies, tableVars
    <3> SUFFICES ASSUME NEW d \in DOMAIN issued, InFile(d), ~InFile(d)', d \notin lost'
                 PROVE  InTable(d) \/ Reported(d)
      BY <3>1, <2>c DEF InTable, Reported
    <3> QED
      BY <3>1, <2>d DEF InFile
  <2>2. CASE AppendOutbox
    <3>1. issued \in Seq(Nat) /\ mSeq \in Nat /\ issued' = Append(issued, mSeq + 1)
      BY <2>2 DEF AppendOutbox, TypeInv, TypeOK
    <3>2. /\ DOMAIN issued' = DOMAIN issued \cup {Len(issued) + 1}
          /\ \A i \in DOMAIN issued : issued'[i] = issued[i]
      BY ONLY <3>1
    <3>3. (\E l \in outbox' : l.deal = Len(issued) + 1) \/ Len(issued) + 1 \in lost'
      <4> DEFINE l == [seq |-> mSeq + 1, deal |-> Len(issued) + 1]
      <4>1. l \in outbox' \/ Len(issued) + 1 \in lost'
        BY <2>2 DEF AppendOutbox
      <4>2. l.deal = Len(issued) + 1
        OBVIOUS
      <4> QED
        BY ONLY <4>1, <4>2
    <3>a. /\ outbox \subseteq outbox' /\ lost \subseteq lost'
          /\ UNCHANGED <<reported, gap, events>>
      BY <2>2 DEF AppendOutbox, bridgeVars, tableVars
    <3>4. \A d \in DOMAIN issued : Kept(d) => Kept(d)'
      BY <3>2, <3>a DEF InTable, Reported, InFile
    <3> SUFFICES ASSUME NEW d \in DOMAIN issued' PROVE Kept(d)'
      OBVIOUS
    <3>5. CASE d \in DOMAIN issued
      BY <2>c, <3>4, <3>5
    <3>6. CASE d = Len(issued) + 1
      BY <3>3, <3>6 DEF InFile
    <3> QED
      BY <3>2, <3>5, <3>6
  <2>3. CASE ~RecvHelloAck /\ ~AppendOutbox /\ ~CrashInTrim
    <3>1. UNCHANGED issued
      BY <2>3, <2>b DEF Next, EaStep, BridgeStep, Fault, SaveState, SendLine, Connect,
            RecvResend, ResendLine, ResendDone, NoticeBreak, RecvHello, RecvOld, RecvNext,
            RecvAhead, SkipGap, ReportGap, ProcessEvent, TakeBackup, LinkBreak, EaCrash,
            TerminalDies, BridgeCrash, CrashAfterRecord, vars, eaVars
    <3> QED
      BY <3>1, <2>3, <2>b, <2>c, NothingForgotten DEF InTable, Reported, InFile
  <2> QED
    BY <2>1, <2>2, <2>3, <2>4
<1> QED
  BY <1>1, <1>3, <1>4, <1>5, NoLossFromParts, TypeInductive, LastSeqCorrect, PTL DEF Spec
=============================================================================
