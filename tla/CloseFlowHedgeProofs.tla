------------------------ MODULE CloseFlowHedgeProofs ------------------------
(* That no leg of CloseFlow is left open alone in silence: of every leg that   *)
(* is, something is still under way or a person has been told. And that none   *)
(* is closed without a cause: CloseFlow implements Hedge.                      *)
EXTENDS CloseFlowProofs

\* The order to open a copy has been answered; it has been filled.
Opened(c) == \A id \in Ids : id[1] = c /\ ~Closes(id) => Cmd(id).answer # "none"
Born(c) == \A id \in Ids : id[1] = c /\ ~Closes(id) => Cmd(id).answer = "ok"

\* A Client has no position and will have none; or it has been ordered closed.
Gone(c) == lots[c] = 0 /\ Opened(c)
FullClose(id, l) == Cmd(id).leg = l /\ Cmd(id).kind = "CLOSE"
OrderedClosed(c) == \E id \in Ids : FullClose(id, c) /\ Cmd(id).status = "SENT"
Dealt(c) == Gone(c) \/ OrderedClosed(c)

\* The Bridge has still to hear of a close by hand.
Among(q) == {q[k] : k \in DOMAIN q}
HandEvent(c) == \E e \in Among(events[c]) : e.by = "hand"
MasterHand == \E e \in Among(events[Master]) : e.by = "hand" /\ e.after = 0

\* The Master's position is gone, or is going to be ordered closed, or has been.
Ending == lots[Master] = 0 \/ emergency.phase = "waiting" \/ MasterClosing

WishesHaveCause == \A c \in Clients : pair[c].wanted # None => lots[Master] = 0

Emptied ==
    /\ \A c \in handClosed : Gone(c)
    /\ \A id \in waiting : Gone(id[1])
    /\ \A id \in Ids : Cmd(id).kind = "CLOSE" /\ CarriedOut(id) => lots[Cmd(id).leg] = 0
    /\ \A id \in Ids : Cmd(id).answer = "already_closed" => Cmd(id).lots = 0

\* An EA's answer is heard before the event of a later close by hand.
Unheard(id, c) == /\ Cmd(id).leg = c /\ Cmd(id).via = "EA"
                  /\ Cmd(id).answer = "ok" /\ ~Cmd(id).heard
AnswersFirst == \A c \in handClosed : (\E id \in Ids : Unheard(id, c)) => HandEvent(c)

LastOwn(e) == e.by = "bot" /\ e.kind = "CLOSED" /\ e.after = 0
LastEvents ==
    \A c \in Clients : \A e \in Among(events[c]) :
        /\ LastOwn(e) => EmptiedInPart(c) \/ \E id \in Ids : FullClose(id, c) /\ CarriedOut(id)
        /\ e.kind = "OPENED" => e.after > 0

\* A copy that was refused.
Refused ==
    \A id \in Ids : ~Closes(id) /\ Cmd(id).answer # "ok" =>
        /\ Cmd(id).status = "SENT" \/ Excused(id[1])
        /\ lots[id[1]] = 0 /\ events[id[1]] = <<>> /\ ~pair[id[1]].known

Rows ==
    \A c \in Clients :
        /\ ~pair[c].known => pair[c].status = "PENDING_OPEN" \/ Excused(c)
        /\ pair[c].status = "OPEN_FAILED" => ~pair[c].known
        /\ pair[c].known /\ pair[c].clots = 0 => pair[c].status = "CLOSED" \/ Excused(c)

\* A Client is ordered closed, or its pair is CLOSED, because the Master's leg ends.
ClosesWithMaster ==
    Smooth => \A id \in Ids : Cmd(id).leg # Master /\ Cmd(id).kind = "CLOSE" =>
                  Ending \/ Master \in told
ClosedWithMaster ==
    Smooth => \A c \in Clients : ~Excused(c) /\ pair[c].status = "CLOSED" => Ending \/ HandEvent(c)

\* What is under way when a leg stands alone.
MasterOrdered == \E id \in Ids : Cmd(id).leg = Master
ClientFollows ==
    Smooth => \A c \in Clients : ~Excused(c) /\ (lots[Master] = 0 \/ MasterOrdered) =>
                  Dealt(c) \/ MasterHand \/ waiting # {}
EmergencyDeals ==
    Smooth => \A c \in Clients : ~Excused(c) /\ emergency.phase # "off" => Dealt(c)
MasterFollows ==
    Smooth => \A c \in Clients : ~Excused(c) /\ lots[c] = 0 /\ Born(c) =>
                  Ending \/ HandEvent(c)

HInv ==
    /\ WishesHaveCause /\ Emptied /\ AnswersFirst /\ LastEvents
    /\ Refused /\ Rows /\ ClosesWithMaster /\ ClosedWithMaster
    /\ ClientFollows /\ EmergencyDeals /\ MasterFollows

-----------------------------------------------------------------------------
(* What a step leaves alone.                                                 *)

LEMMA SmoothCounts ==
    ASSUME Typed
    PROVE  /\ UNCHANGED faults => (Smooth' => Smooth)
           /\ faults' = [faults EXCEPT !.hand = @ + 1] => (Smooth' => Smooth)
           /\ faults' = [faults EXCEPT !.switches = @ + 1] => (Smooth' => Smooth)
           /\ GoesWrong("failures") => (Smooth' => Smooth)
           /\ GoesWrong("late") => ~Smooth'
           /\ GoesWrong("lost") => ~Smooth'
           /\ GoesWrong("crashes") => ~Smooth'
<1>1. faults \in FaultsType
  BY DEF Typed
<1>2. /\ faults.late \in Nat /\ faults.lost \in Nat /\ faults.crashes \in Nat
      /\ [faults EXCEPT !.hand = @ + 1].late = faults.late
      /\ [faults EXCEPT !.hand = @ + 1].lost = faults.lost
      /\ [faults EXCEPT !.hand = @ + 1].crashes = faults.crashes
      /\ [faults EXCEPT !.switches = @ + 1].late = faults.late
      /\ [faults EXCEPT !.switches = @ + 1].lost = faults.lost
      /\ [faults EXCEPT !.switches = @ + 1].crashes = faults.crashes
      /\ [faults EXCEPT !.failures = @ + 1].late = faults.late
      /\ [faults EXCEPT !.failures = @ + 1].lost = faults.lost
      /\ [faults EXCEPT !.failures = @ + 1].crashes = faults.crashes
      /\ [faults EXCEPT !.late = @ + 1].late = faults.late + 1
      /\ [faults EXCEPT !.lost = @ + 1].lost = faults.lost + 1
      /\ [faults EXCEPT !.crashes = @ + 1].crashes = faults.crashes + 1
  BY ONLY <1>1 DEF FaultsType
<1>3. /\ GoesWrong("late") => faults'.late = faults.late + 1
      /\ GoesWrong("lost") => faults'.lost = faults.lost + 1
      /\ GoesWrong("crashes") => faults'.crashes = faults.crashes + 1
  BY <1>2 DEF GoesWrong
<1>4. /\ GoesWrong("late") => ~Smooth'
      /\ GoesWrong("lost") => ~Smooth'
      /\ GoesWrong("crashes") => ~Smooth'
  BY ONLY <1>2, <1>3 DEF Smooth
<1>5. /\ faults' = [faults EXCEPT !.hand = @ + 1] => (Smooth' => Smooth)
      /\ faults' = [faults EXCEPT !.switches = @ + 1] => (Smooth' => Smooth)
      /\ GoesWrong("failures") => (Smooth' => Smooth)
  BY <1>2 DEF GoesWrong, Smooth
<1> QED
  BY <1>4, <1>5 DEF Smooth

Memorises ==
    /\ unfollowed \subseteq unfollowed' /\ passedOver \subseteq passedOver'
    /\ Smooth' => Smooth
    /\ \/ UNCHANGED emergency
       \/ Rearm \/ EmergencyClients \/ EmergencyMaster \/ BridgeCrash
    /\ \/ UNCHANGED waiting
       \/ \E c \in Clients : events[c] # <<>> /\ HearCascade(c, Head(events[c]))
       \/ \E id \in waiting : CascadeOn(id) \/ CascadeGiveUp(id)
       \/ BridgeCrash
    /\ UNCHANGED handClosed \/ \E l \in Legs, n \in 1 .. Lots : HandClose(l, n)

LEMMA MemorisesStep == ASSUME Typed, [Next]_vars PROVE Memorises
<1>0. CASE UNCHANGED vars
  BY <1>0, SmoothCounts DEF Memorises, vars, tables, memory, history
<1>1. ASSUME NEW l \in Legs, NEW n \in 1 .. Lots, HandClose(l, n) PROVE Memorises
  <2>1. /\ unfollowed \subseteq unfollowed' /\ UNCHANGED <<emergency, waiting, passedOver>>
        /\ faults' = [faults EXCEPT !.hand = @ + 1]
    BY <1>1 DEF HandClose, tables, memory
  <2> QED
    BY <1>1, <2>1, SmoothCounts DEF Memorises
<1>2. ASSUME NEW id \in Ids, Agent(id) PROVE Memorises
  <2>1. /\ UNCHANGED <<unfollowed, passedOver, emergency, waiting, handClosed>>
        /\ UNCHANGED faults \/ GoesWrong("failures") \/ GoesWrong("lost")
    BY <1>2 DEF Agent, Fill, FindGone, Refuse, OpenCopy, LoseAnswer, Answer, memory, history
  <2> QED
    BY <2>1, SmoothCounts DEF Memorises
<1>3. ASSUME NEW id \in Ids, HearAnswer(id) \/ Timeout(id) \/ CancelExpired(id) PROVE Memorises
  <2>1. /\ UNCHANGED <<unfollowed, passedOver, emergency, waiting, handClosed>>
        /\ UNCHANGED faults \/ GoesWrong("failures")
    BY <1>3 DEF HearAnswer, AckMaster, AckClosed, AckPartial, AckUnknown, AckFailed, AckFallBack,
           AckOpen, Answered, Timeout, CancelExpired, memory
  <2> QED
    BY <2>1, SmoothCounts DEF Memorises
<1>4. ASSUME events[Master] # <<>>, RouteMaster(Head(events[Master])) PROVE Memorises
  <2>1. /\ unfollowed \subseteq unfollowed' /\ passedOver \subseteq passedOver'
        /\ UNCHANGED <<emergency, waiting, handClosed>>
        /\ UNCHANGED faults \/ GoesWrong("late")
    BY <1>4 DEF RouteMaster, HearMasterIgnored, HearMasterClosed, HearMasterPartial, Claimed, Unclaimed,
           NextEvent, CloseFully, memory
  <2> QED
    BY <2>1, SmoothCounts DEF Memorises
<1>5. ASSUME NEW c \in Clients, events[c] # <<>>, RouteClient(c, Head(events[c])) PROVE Memorises
  <2>1. /\ unfollowed \subseteq unfollowed' /\ passedOver \subseteq passedOver'
        /\ UNCHANGED <<emergency, handClosed>>
        /\ UNCHANGED waiting \/ HearCascade(c, Head(events[c]))
        /\ UNCHANGED faults \/ GoesWrong("late")
    BY <1>5 DEF RouteClient, HearOpened, HearClientIgnored, HearOwnClose, HearClientPartial,
           HearClientKept, HearCascade, ByHand, ClientClosed, Claimed, Unclaimed, NextEvent, CloseFully,
           memory
  <2> QED
    BY <1>5, <2>1, SmoothCounts DEF Memorises
<1>6. ASSUME NEW id \in waiting, CascadeOn(id) \/ CascadeGiveUp(id) PROVE Memorises
  <2>1. /\ unfollowed \subseteq unfollowed' /\ passedOver \subseteq passedOver'
        /\ UNCHANGED <<emergency, handClosed, faults>>
    BY <1>6 DEF CascadeOn, CascadeGiveUp, CloseFully
  <2> QED
    BY <1>6, <2>1, SmoothCounts DEF Memorises
<1>7. ASSUME SetMode \/ Rearm \/ EmergencyClients \/ EmergencyMaster PROVE Memorises
  <2>1. /\ unfollowed \subseteq unfollowed' /\ passedOver \subseteq passedOver'
        /\ UNCHANGED <<waiting, handClosed>>
        /\ UNCHANGED faults \/ faults' = [faults EXCEPT !.switches = @ + 1]
        /\ SetMode => UNCHANGED emergency
    BY <1>7 DEF SetMode, Rearm, EmergencyClients, EmergencyMaster, history, memory
  <2> QED
    BY <1>7, <2>1, SmoothCounts DEF Memorises
<1>8. ASSUME NEW l \in Clickered, ClickerStatus(l) PROVE Memorises
  BY <1>8, SmoothCounts DEF Memorises, ClickerStatus, memory, history
<1>9. ASSUME BridgeCrash PROVE Memorises
  BY <1>9, SmoothCounts DEF Memorises, BridgeCrash, history
<1> QED
  BY <1>0, <1>1, <1>2, <1>3, <1>4, <1>5, <1>6, <1>7, <1>8, <1>9 DEF Next

-----------------------------------------------------------------------------
(* Answers and events, and what is known of a Client once it has answered.   *)

\* How the answer of an order comes about.
Answering(j) ==
    \/ Cmd(j)'.answer = Cmd(j).answer /\ Cmd(j)'.lots = Cmd(j).lots
    \/ /\ Cmd(j).answer = "none" /\ Cmd(j).status # "CANCELLED" /\ Closes(j)
       /\ \/ Fill(j) /\ Cmd(j)'.answer \in {"ok", "unknown"} /\ Cmd(j)'.lots = Taken(j)
          \/ Cmd(j)'.answer = "already_closed" /\ Cmd(j)'.lots = 0
          \/ Cmd(j)'.answer = "unknown" /\ Cmd(j)'.lots = 0
          \/ Cmd(j)'.answer \in {"failed", "rejected"}
    \/ /\ Cmd(j).answer = "none" /\ ~Closes(j)
       /\ (OpenCopy(j) /\ Cmd(j)'.answer = "ok") \/ Cmd(j)'.answer \in {"failed", "rejected"}

\* To hear, to lose or to stop waiting for an answer changes no answer.
SameAnswer(j) == Cmd(j)'.answer = Cmd(j).answer /\ Cmd(j)'.lots = Cmd(j).lots

LEMMA AnswersKept ==
    ASSUME Typed, NEW id \in Ids, NEW j \in Ids,
           HearAnswer(id) \/ Timeout(id) \/ CancelExpired(id) \/ LoseAnswer(id)
    PROVE  SameAnswer(j)
<1>1. ASSUME NEW o \in OrderType, Edited(id, o),
             o.answer = Cmd(id).answer, o.lots = Cmd(id).lots
      PROVE  SameAnswer(j)
  BY <1>1 DEF Edited, SameAnswer
<1>0. Cmd(id) \in OrderType
  BY Ordered
<1>2. CASE AckFallBack(id)
  <2>1. PICK o : o = [Cmd(id) EXCEPT !.status = "ACK_FAILED", !.heard = TRUE]
    OBVIOUS
  <2>2. o.answer = Cmd(id).answer /\ o.lots = Cmd(id).lots
    BY ONLY <1>0, <2>1 DEF OrderType
  <2>3. Cmd(id)' = o /\ (j # id => Cmd(j)' = Cmd(j))
    BY <1>2, <2>1, FallBackOrders
  <2> QED
    BY <2>2, <2>3 DEF SameAnswer
<1>3. ASSUME NEW st \in {"ACK_OK", "ACK_FAILED", "TIMEOUT", "CANCELLED"}, NEW h \in BOOLEAN
      PROVE  LET o == [Cmd(id) EXCEPT !.status = st, !.heard = h]
             IN  o \in OrderType /\ o.answer = Cmd(id).answer /\ o.lots = Cmd(id).lots
  BY <1>0 DEF OrderType
<1>4. CASE Heard(id, "ACK_OK") \/ Heard(id, "ACK_FAILED") \/ Heard(id, "TIMEOUT")
  BY <1>1, <1>3, <1>4, HeardEdits
<1>5. CASE Timeout(id) \/ CancelExpired(id) \/ LoseAnswer(id)
  <2>1. ASSUME NEW st \in {"TIMEOUT", "CANCELLED"}
        PROVE  LET o == [Cmd(id) EXCEPT !.status = st]
               IN  o \in OrderType /\ o.answer = Cmd(id).answer /\ o.lots = Cmd(id).lots
    BY <1>0 DEF OrderType
  <2>2. LET o == [Cmd(id) EXCEPT !.heard = TRUE]
        IN  o \in OrderType /\ o.answer = Cmd(id).answer /\ o.lots = Cmd(id).lots
    BY <1>0 DEF OrderType
  <2> QED
    BY <1>1, <1>5, <2>1, <2>2, StatusEdits
<1> QED
  BY <1>2, <1>4, <1>5 DEF HearAnswer, AckMaster, AckClosed, AckPartial, AckUnknown, AckFailed,
     AckOpen

LEMMA AnswersMove == ASSUME Typed, [Next]_vars, Moves PROVE \A j \in Ids : Answering(j)
<1>0. ASSUME NEW id \in Ids, NEW j \in Ids, Agent(id), ~LoseAnswer(id) PROVE Answering(j)
  <2>1. 0 \in Volumes /\ Lots \in Volumes /\ Taken(id) \in Volumes /\ Cmd(id).lots \in Volumes
    BY TakenTyped, CloseAssumption DEF Volumes
  <2>2. ASSUME NEW a \in Answers, NEW n \in Volumes, Answer(id, a, n)
        PROVE  /\ Cmd(id)'.answer = a /\ Cmd(id)'.lots = n /\ Cmd(id).answer = "none"
               /\ Cmd(id).status # "CANCELLED"
               /\ j # id => Answering(j)
    BY <2>2, AnswerOrders DEF Answering, Answer
  <2>3. CASE Fill(id)
    <3>1. Closes(id) /\ \E a \in {"ok", "unknown"} : Answer(id, a, Taken(id))
      BY <2>3 DEF Fill
    <3> QED
      BY <2>1, <2>2, <2>3, <3>1 DEF Answering, Answers
  <2>4. CASE FindGone(id)
    BY <2>1, <2>2, <2>4 DEF Answering, Answers, FindGone
  <2>5. CASE Refuse(id)
    <3>1. \/ \E a \in {"failed", "rejected"} : Answer(id, a, Cmd(id).lots)
          \/ Answer(id, "unknown", 0) /\ Closes(id)
      BY <2>5 DEF Refuse
    <3> QED
      BY <2>1, <2>2, <3>1 DEF Answering, Answers
  <2>6. CASE OpenCopy(id)
    BY <2>1, <2>2, <2>6 DEF Answering, Answers, OpenCopy
  <2> QED
    BY <1>0, <2>3, <2>4, <2>5, <2>6 DEF Agent
<1>2. ASSUME NEW id \in Ids, NEW j \in Ids,
             HearAnswer(id) \/ Timeout(id) \/ CancelExpired(id) \/ LoseAnswer(id)
      PROVE  Answering(j)
  BY <1>2, AnswersKept DEF Answering, SameAnswer
<1>3. ASSUME NEW j \in Ids, Sending PROVE Answering(j)
  BY <1>3 DEF Sending, Answering
<1> QED
  BY <1>0, <1>2, <1>3 DEF Moves, Handled, Agent, HearAnswer

\* How an order is settled.
Settling(j) ==
    \/ Cmd(j)'.status = Cmd(j).status /\ (Cmd(j).heard => Cmd(j)'.heard)
    \/ HearAnswer(j) /\ Cmd(j)'.heard
    \/ (Timeout(j) \/ CancelExpired(j)) /\ Cmd(j)'.heard = Cmd(j).heard

LEMMA OrdersSettle == ASSUME Typed, Moves PROVE \A j \in Ids : Settling(j)
<1> SUFFICES ASSUME NEW j \in Ids PROVE Settling(j)
  OBVIOUS
<1>0. Cmd(j) \in OrderType
  BY Ordered
<1>1. ASSUME NEW id \in Ids, NEW o, Edited(id, o), id # j PROVE Settling(j)
  BY <1>1 DEF Edited, Settling
<1>2. ASSUME NEW a \in Answers, NEW n \in Volumes, NEW id \in Ids, Answer(id, a, n) PROVE Settling(j)
  <2>1. PICK o : o = [Cmd(id) EXCEPT !.answer = a, !.lots = n]
    OBVIOUS
  <2>2. Edited(id, o)
    BY <1>2, <2>1, AnswerEdits
  <2>3. CASE id = j
    <3>1. o.status = Cmd(j).status /\ o.heard = Cmd(j).heard
      BY ONLY <1>0, <2>1, <2>3 DEF OrderType
    <3> QED
      BY <2>2, <2>3, <3>1 DEF Edited, Settling
  <2> QED
    BY <1>1, <2>2, <2>3
<1>3. ASSUME NEW id \in Ids, Agent(id), ~LoseAnswer(id) PROVE Settling(j)
  <2>1. 0 \in Volumes /\ Lots \in Volumes /\ Taken(id) \in Volumes /\ Cmd(id).lots \in Volumes
    BY TakenTyped, CloseAssumption DEF Volumes
  <2>2. PICK a \in Answers, n \in Volumes : Answer(id, a, n)
    BY <1>3, <2>1 DEF Agent, Fill, FindGone, Refuse, OpenCopy, Answers
  <2> QED
    BY <1>2, <2>2
<1>4. ASSUME NEW id \in Ids, HearAnswer(id) PROVE Settling(j)
  <2>1. CASE AckFallBack(id)
    <3>1. PICK o : o = [Cmd(id) EXCEPT !.status = "ACK_FAILED", !.heard = TRUE]
      OBVIOUS
    <3>2. Cmd(id)' = o /\ (j # id => Cmd(j)' = Cmd(j))
      BY <2>1, <3>1, FallBackOrders
    <3>3. CASE id = j
      <4>1. o.heard
        BY ONLY <1>0, <3>1, <3>3 DEF OrderType
      <4> QED
        BY <1>4, <3>2, <3>3, <4>1 DEF Settling
    <3> QED
      BY <3>2, <3>3 DEF Settling
  <2>2. CASE ~AckFallBack(id)
    <3>1. PICK st \in {"ACK_OK", "ACK_FAILED", "TIMEOUT"} : Heard(id, st)
      BY <1>4, <2>2 DEF HearAnswer, AckMaster, AckClosed, AckPartial, AckUnknown, AckFailed, AckOpen
    <3>2. PICK o : o = [Cmd(id) EXCEPT !.status = st, !.heard = TRUE]
      OBVIOUS
    <3>3. Edited(id, o)
      BY <3>1, <3>2, HeardEdits
    <3>4. CASE id = j
      <4>1. o.heard
        BY ONLY <1>0, <3>2, <3>4 DEF OrderType
      <4> QED
        BY <1>4, <3>3, <3>4, <4>1 DEF Settling, Edited
    <3> QED
      BY <1>1, <3>3, <3>4
  <2> QED
    BY <2>1, <2>2
<1>5. ASSUME NEW id \in Ids, LoseAnswer(id) PROVE Settling(j)
  <2>1. PICK o : o = [Cmd(id) EXCEPT !.heard = TRUE]
    OBVIOUS
  <2>2. Edited(id, o)
    BY <1>5, <2>1, StatusEdits
  <2>3. CASE id = j
    <3>1. o.heard /\ o.status = Cmd(j).status
      BY ONLY <1>0, <2>1, <2>3 DEF OrderType
    <3> QED
      BY <2>2, <2>3, <3>1 DEF Settling, Edited
  <2> QED
    BY <1>1, <2>2, <2>3
<1>6. ASSUME NEW id \in Ids, Timeout(id) \/ CancelExpired(id) PROVE Settling(j)
  <2>1. PICK st \in {"TIMEOUT", "CANCELLED"} : Edited(id, [Cmd(id) EXCEPT !.status = st])
    BY <1>6, StatusEdits
  <2>2. PICK o : o = [Cmd(id) EXCEPT !.status = st]
    OBVIOUS
  <2>3. CASE id = j
    <3>1. o.heard = Cmd(j).heard
      BY ONLY <1>0, <2>2, <2>3 DEF OrderType
    <3> QED
      BY <1>6, <2>1, <2>2, <2>3, <3>1 DEF Settling, Edited
  <2> QED
    BY <1>1, <2>1, <2>3
<1>7. CASE Sending
  BY <1>7 DEF Sending, Settling
<1>8. ASSUME NEW id \in Ids, AckFallBack(id) PROVE Settling(j)
  BY <1>4, <1>8 DEF HearAnswer
<1> QED
  BY <1>3, <1>4, <1>5, <1>6, <1>7, <1>8 DEF Moves, Handled, Agent

\* What happens to positions and to the events of them.
Routes(l) ==
    /\ events[l] # <<>>
    /\ IF l = Master THEN RouteMaster(Head(events[l])) ELSE RouteClient(l, Head(events[l]))

FlowsBy ==
    \/ UNCHANGED <<events, lots>>
    \/ \E l \in Legs, n \in 1 .. Lots : HandClose(l, n)
    \/ \E id \in Ids : Fill(id) \/ OpenCopy(id)
    \/ \E l \in Legs : Hearing(l) /\ Routes(l)

LEMMA FlowsByStep == ASSUME [Next]_vars PROVE FlowsBy
<1>1. ASSUME NEW id \in Ids, HearAnswer(id) PROVE FlowsBy
  BY <1>1 DEF FlowsBy, HearAnswer, AckMaster, AckClosed, AckPartial, AckUnknown, AckFailed, AckFallBack,
     AckOpen, Answered
<1>2. ASSUME NEW id \in Ids, Agent(id) \/ Timeout(id) \/ CancelExpired(id) PROVE FlowsBy
  BY <1>2 DEF FlowsBy, Agent, FindGone, Refuse, LoseAnswer, Timeout, CancelExpired
<1>3. ASSUME events[Master] # <<>>, RouteMaster(Head(events[Master])) PROVE FlowsBy
  <2>1. Hearing(Master)
    BY <1>3, HearsOf DEF RouteMaster, HearMasterIgnored, HearMasterClosed, HearMasterPartial
  <2> QED
    BY <1>3, <2>1 DEF FlowsBy, Routes, Legs
<1>4. ASSUME NEW c \in Clients, events[c] # <<>>, RouteClient(c, Head(events[c])) PROVE FlowsBy
  <2>1. NextEvent(c, Head(events[c]))
    BY <1>4 DEF RouteClient, HearOpened, HearClientIgnored, HearOwnClose, HearClientPartial, HearClientKept,
           HearCascade, ByHand, ClientClosed
  <2>2. Hearing(c) /\ c # Master
    BY <1>4, <2>1, HearsOf, CloseAssumption
  <2> QED
    BY <1>4, <2>2 DEF FlowsBy, Routes, Legs
<1>5. ASSUME NEW id \in waiting, CascadeOn(id) \/ CascadeGiveUp(id) PROVE FlowsBy
  BY <1>5 DEF FlowsBy, CascadeOn, CascadeGiveUp
<1>6. ASSUME SetMode \/ Rearm \/ EmergencyClients \/ EmergencyMaster \/ BridgeCrash
             \/ \E l \in Clickered : ClickerStatus(l)
      PROVE FlowsBy
  BY <1>6 DEF FlowsBy, SetMode, Rearm, EmergencyClients, EmergencyMaster, BridgeCrash, ClickerStatus
<1> QED
  BY <1>1, <1>2, <1>3, <1>4, <1>5, <1>6 DEF FlowsBy, Next, vars

LEMMA AmongAppend ==
    ASSUME NEW q \in Seq(EventType), NEW e \in EventType
    PROVE  Among(Append(q, e)) = Among(q) \cup {e}
<1>1. PICK r : r = Append(q, e)
  OBVIOUS
<1>2. /\ DOMAIN q = 1 .. Len(q) /\ DOMAIN r = 1 .. Len(q) + 1 /\ Len(q) \in Nat
      /\ \A k \in 1 .. Len(q) : r[k] = q[k]
      /\ r[Len(q) + 1] = e
  BY <1>1, AppendProperties
<1> QED
  BY <1>1, <1>2 DEF Among

LEMMA AmongTail ==
    ASSUME NEW q \in Seq(EventType), q # <<>>
    PROVE  Among(q) = Among(Tail(q)) \cup {Head(q)}
<1>1. PICK r : r = Tail(q)
  OBVIOUS
<1>2. /\ DOMAIN q = 1 .. Len(q) /\ DOMAIN r = 1 .. Len(q) - 1 /\ Len(q) \in Nat \ {0}
      /\ \A k \in 1 .. Len(q) - 1 : r[k] = q[k + 1]
      /\ Head(q) = q[1]
  BY <1>1, HeadTailProperties
<1>3. ASSUME NEW k \in 1 .. Len(q) PROVE q[k] \in Among(r) \cup {Head(q)}
  <2>1. CASE k = 1
    BY <1>2, <2>1
  <2>2. CASE k # 1
    <3>1. k - 1 \in 1 .. Len(q) - 1 /\ r[k - 1] = q[(k - 1) + 1] /\ (k - 1) + 1 = k
      BY <1>2, <2>2
    <3> QED
      BY <1>2, <3>1 DEF Among
  <2> QED
    BY <2>1, <2>2
<1>4. ASSUME NEW k \in 1 .. Len(q) - 1 PROVE r[k] \in Among(q)
  <2>1. k + 1 \in DOMAIN q /\ r[k] = q[k + 1]
    BY <1>2
  <2> QED
    BY <2>1 DEF Among
<1>5. Head(q) \in Among(q)
  <2>1. 1 \in DOMAIN q
    BY <1>2
  <2> QED
    BY <1>2, <2>1 DEF Among
<1>6. Among(q) \subseteq Among(r) \cup {Head(q)}
  BY <1>2, <1>3 DEF Among
<1>7. Among(r) \subseteq Among(q)
  BY <1>2, <1>4 DEF Among
<1> QED
  BY <1>1, <1>5, <1>6, <1>7

\* What is to be heard of a leg after a step. Dealt by hand or by the bot, the
\* event says what is left.
NewEvent(l, e) ==
    \/ \E n \in 1 .. lots[l] : HandClose(l, n) /\ e.by = "hand" /\ e.after = lots[l] - n
                               /\ lots'[l] = lots[l] - n /\ e.kind = "CLOSED"
    \/ \E id \in Ids : Fill(id) /\ Cmd(id).leg = l /\ e.by = "bot" /\ e.after = lots[l] - Taken(id)
                       /\ lots'[l] = lots[l] - Taken(id) /\ e.kind = "CLOSED"
    \/ \E id \in Ids : OpenCopy(id) /\ l = id[1] /\ e.kind = "OPENED" /\ e.after = Lots /\ e.by = "bot"

Queues(l) ==
    /\ \A e \in Among(events'[l]) : e \in Among(events[l]) \/ NewEvent(l, e)
    /\ \A e \in Among(events[l]) : e \in Among(events'[l])
                                   \/ (e = Head(events[l]) /\ Hearing(l) /\ Routes(l))

LEMMA QueuesMove ==
    ASSUME Typed, Unopened, FlowsBy PROVE \A l \in Legs : Queues(l)
<1>0. /\ events \in [Legs -> Seq(EventType)] /\ lots \in [Legs -> Volumes] /\ Lots \in Nat
      /\ \A l \in Legs : lots[l] \in Nat
  BY CloseAssumption DEF Typed, Volumes
<1> SUFFICES ASSUME NEW l \in Legs PROVE Queues(l)
  OBVIOUS
<1>1. CASE events'[l] = events[l]
  BY <1>1 DEF Queues
<1>2. ASSUME NEW m \in Legs, NEW n \in 0 .. lots[m], NEW cause \in {None} \cup Ids,
             NEW by \in {"bot", "hand"}, Deal(m, n, cause, by), m # l
      PROVE  Queues(l)
  BY <1>0, <1>1, <1>2 DEF Deal
<1>3. ASSUME NEW n \in 0 .. lots[l], NEW cause \in {None} \cup Ids,
             NEW by \in {"bot", "hand"}, Deal(l, n, cause, by)
      PROVE  \E e \in EventType : /\ Among(events'[l]) = Among(events[l]) \cup {e}
                                  /\ e.by = by /\ e.after = lots[l] - n /\ e.kind = "CLOSED"
                                  /\ lots'[l] = lots[l] - n
  <2> DEFINE e == Event("CLOSED", lots[l] - n, n, cause, by)
  <2>1. e.by = by /\ e.after = lots[l] - n /\ e.kind = "CLOSED"
    BY DEF Event
  <2>2. e \in EventType /\ lots' = [lots EXCEPT ![l] = lots[l] - n]
        /\ events' = [events EXCEPT ![l] = Append(events[l], e)]
    BY <1>3, DealTyped
  <2> HIDE DEF e
  <2>3. events'[l] = Append(events[l], e) /\ lots'[l] = lots[l] - n
    BY <1>0, <2>2
  <2> QED
    BY <1>0, <2>1, <2>2, <2>3, AmongAppend
<1>4. ASSUME NEW m \in Legs, NEW n \in 1 .. Lots, HandClose(m, n) PROVE Queues(l)
  <2>1. PICK cause \in {None} \cup CausesFor(m) : Deal(m, n, cause, "hand")
    BY <1>4 DEF HandClose
  <2>2. n \in 1 .. lots[m] /\ n \in 0 .. lots[m] /\ cause \in {None} \cup Ids
    BY <1>0, <1>4, CausesAreOrders DEF HandClose
  <2>3. CASE m = l
    <3>1. PICK e \in EventType :
               /\ Among(events'[l]) = Among(events[l]) \cup {e}
               /\ e.by = "hand" /\ e.after = lots[l] - n /\ e.kind = "CLOSED"
               /\ lots'[l] = lots[l] - n
      BY <2>1, <2>2, <2>3, <1>3
    <3> QED
      BY <1>4, <2>2, <2>3, <3>1 DEF Queues, NewEvent
  <2> QED
    BY <2>1, <2>2, <2>3, <1>2
<1>5. ASSUME NEW id \in Ids, Fill(id) PROVE Queues(l)
  <2>1. PICK cause \in {None} \cup Ids : Deal(Cmd(id).leg, Taken(id), cause, "bot")
    BY <1>5, CausesAreOrders DEF Fill
  <2>2. Taken(id) \in 0 .. lots[Cmd(id).leg] /\ Cmd(id).leg \in Legs
    BY TakenTyped
  <2>3. CASE Cmd(id).leg = l
    <3>1. PICK e \in EventType :
               /\ Among(events'[l]) = Among(events[l]) \cup {e}
               /\ e.by = "bot" /\ e.after = lots[l] - Taken(id) /\ e.kind = "CLOSED"
               /\ lots'[l] = lots[l] - Taken(id)
      BY <2>1, <2>2, <2>3, <1>3
    <3> QED
      BY <1>5, <2>2, <2>3, <3>1 DEF Queues, NewEvent
  <2> QED
    BY <2>1, <2>2, <2>3, <1>2
<1>6. ASSUME NEW id \in Ids, OpenCopy(id) PROVE Queues(l)
  <2> DEFINE e == Event("OPENED", Lots, 0, None, "bot")
  <2>1. e.by = "bot" /\ e.after = Lots /\ e.kind = "OPENED"
    BY DEF Event
  <2>2. /\ events[id[1]] = <<>>
        /\ events' = events \/ events' = [events EXCEPT ![id[1]] = <<e>>]
    BY <1>6, OpenCopyFlow
  <2>3. Among(<<e>>) = {e}
    <3> HIDE DEF e
    <3> QED BY DEF Among
  <2> HIDE DEF e
  <2>4. CASE id[1] = l /\ events'[l] = <<e>>
    BY <1>6, <2>1, <2>2, <2>3, <2>4 DEF Queues, NewEvent, Among
  <2> QED
    BY <1>0, <1>1, <2>2, <2>4
<1>7. ASSUME NEW m \in Legs, Hearing(m), Routes(m) PROVE Queues(l)
  <2>1. CASE m = l
    <3>1. events[l] # <<>> /\ events'[l] = Tail(events[l])
      BY <1>0, <1>7, <2>1 DEF Hearing
    <3>2. Among(events[l]) = Among(events'[l]) \cup {Head(events[l])}
      BY <1>0, <3>1, AmongTail
    <3> QED
      BY <1>7, <2>1, <3>2 DEF Queues
  <2> QED
    BY <1>0, <1>1, <1>7, <2>1 DEF Hearing
<1> QED
  BY <1>1, <1>4, <1>5, <1>6, <1>7 DEF FlowsBy

\* A position changes by hand, by an order or by the opening of a copy.
LotsMove(l) ==
    \/ lots'[l] = lots[l]
    \/ \E n \in 1 .. lots[l] : HandClose(l, n) /\ lots'[l] = lots[l] - n
    \/ \E id \in Ids : Fill(id) /\ Cmd(id).leg = l /\ lots[l] > 0 /\ lots'[l] = lots[l] - Taken(id)
    \/ \E id \in Ids : OpenCopy(id) /\ l = id[1] /\ lots'[l] = Lots

LEMMA LotsStep == ASSUME Typed, Unopened, FlowsBy PROVE \A l \in Legs : LotsMove(l)
<1>0. /\ lots \in [Legs -> Volumes] /\ \A l \in Legs : lots[l] \in Nat
  BY CloseAssumption DEF Typed, Volumes
<1> SUFFICES ASSUME NEW l \in Legs PROVE LotsMove(l)
  OBVIOUS
<1>1. ASSUME NEW m \in Legs, NEW n \in 1 .. Lots, HandClose(m, n) PROVE LotsMove(l)
  <2>1. lots' = [lots EXCEPT ![m] = lots[m] - n] /\ n \in 1 .. lots[m]
    BY <1>1 DEF HandClose, Deal
  <2> QED
    BY <1>0, <1>1, <2>1 DEF LotsMove
<1>2. ASSUME NEW id \in Ids, Fill(id) PROVE LotsMove(l)
  <2> DEFINE n == Taken(id)
  <2>1. lots' = [lots EXCEPT ![Cmd(id).leg] = lots[Cmd(id).leg] - n] /\ lots[Cmd(id).leg] > 0
    BY <1>2 DEF Fill, Deal
  <2> HIDE DEF n
  <2>2. lots'[l] = lots[l] \/ (Cmd(id).leg = l /\ lots[l] > 0 /\ lots'[l] = lots[l] - n)
    BY <1>0, <2>1
  <2> QED
    BY <1>2, <2>2 DEF LotsMove, n
<1>3. ASSUME NEW id \in Ids, OpenCopy(id) PROVE LotsMove(l)
  <2>1. lots' = [lots EXCEPT ![id[1]] = Lots]
    BY <1>3, OpenCopyFlow
  <2> QED
    BY <1>0, <1>3, <2>1 DEF LotsMove
<1> QED
  BY <1>1, <1>2, <1>3 DEF FlowsBy, Hearing, LotsMove

\* What every step does.
Stepped ==
    /\ IInv /\ IInv' /\ [Next]_vars
    /\ Typed /\ Typed' /\ Unopened /\ Moves /\ Grows /\ Flows /\ FlowsBy /\ Memorises
    /\ \A c \in Clients : PairMoves(c)
    /\ \A l \in Legs : Queues(l) /\ LotsMove(l) /\ lots[l] \in Nat /\ lots'[l] \in Nat
    /\ \A id \in Ids : Answering(id) /\ Settling(id) /\ SameTask(id)

LEMMA AllStepped == ASSUME IInv, [Next]_vars PROVE Stepped
<1>1. IInv' /\ Typed /\ Typed' /\ Unopened
  BY InvStep DEF IInv
<1>2. Moves /\ Flows /\ Grows /\ Memorises /\ FlowsBy
  BY OrdersMove, FlowStep, GrowsStep, MemorisesStep, FlowsByStep DEF IInv
<1>3. \A c \in Clients : PairMoves(c)
  BY PairStep DEF IInv
<1>4. \A l \in Legs : Queues(l) /\ LotsMove(l)
  BY <1>1, <1>2, QueuesMove, LotsStep
<1>5. \A l \in Legs : lots[l] \in Nat /\ lots'[l] \in Nat
  BY <1>1, CloseAssumption DEF Typed, Volumes
<1>6. \A id \in Ids : Answering(id) /\ Settling(id) /\ SameTask(id)
  BY <1>1, <1>2, AnswersMove, OrdersSettle, TasksStay
<1> QED
  BY <1>1, <1>2, <1>3, <1>4, <1>5, <1>6 DEF Stepped

\* An order that has done something goes on having done it; a new one is filled.
LEMMA CarriedStays ==
    ASSUME Stepped, NEW id \in Ids, CarriedOut(id)
    PROVE  /\ id \in Ids' /\ CarriedOut(id)'
           /\ Cmd(id)'.leg = Cmd(id).leg /\ Cmd(id)'.kind = Cmd(id).kind
  BY DEF Stepped, Answering, SameTask, CarriedOut

LEMMA CarriedNew ==
    ASSUME Stepped, NEW id \in Ids', CarriedOut(id)', Cmd(id)'.kind # "OPEN"
    PROVE  /\ id \in Ids /\ Cmd(id)'.leg = Cmd(id).leg /\ Cmd(id)'.kind = Cmd(id).kind
           /\ CarriedOut(id) \/ (Fill(id) /\ Cmd(id)'.lots = Taken(id))
<1>1. id \in Ids
  BY NewCloses DEF Stepped, CarriedOut
<1>2. Answering(id) /\ SameTask(id)
  BY <1>1 DEF Stepped
<1> QED
  BY <1>1, <1>2 DEF Answering, SameTask, CarriedOut, Closes

\* Of a Client whose position is known, or was there, the copy has been opened.
LEMMA OpenedOnce ==
    ASSUME Unopened, NEW c \in Clients, pair[c].known \/ lots[c] # 0 \/ pair[c].status = "CLOSED"
                                        \/ events[c] # <<>>
    PROVE  Opened(c)
  BY DEF Unopened, Opened

LEMMA OpenedStays == ASSUME Stepped, NEW c, Opened(c) PROVE Opened(c)'
<1> SUFFICES ASSUME NEW id \in Ids', id[1] = c, ~Closes(id)' PROVE Cmd(id)'.answer # "none"
  BY DEF Opened
<1>1. id \in Ids
  BY NewCloses DEF Stepped, Closes
<1> QED
  BY <1>1 DEF Stepped, SameTask, Opened, Closes

LEMMA GoneForGood == ASSUME Stepped, NEW c \in Clients, Gone(c) PROVE Gone(c)'
<1>1. lots[c] = 0 /\ Opened(c) /\ Opened(c)' /\ LotsMove(c)
  BY OpenedStays DEF Gone, Stepped, Legs
<1>2. ASSUME NEW id \in Ids, OpenCopy(id) PROVE id[1] # c
  BY <1>1, <1>2 DEF OpenCopy, Answer, Opened
<1> QED
  BY <1>1, <1>2 DEF LotsMove, Gone

LEMMA MasterGoneForGood == ASSUME Stepped, lots[Master] = 0 PROVE lots'[Master] = 0
  BY GoneStays DEF Stepped, Legs

\* A close by hand is there to be heard.
LEMMA HandDeals ==
    ASSUME Typed, NEW l \in Legs, NEW n \in 1 .. lots[l], HandClose(l, n)
    PROVE  \E e \in Among(events'[l]) : e.by = "hand" /\ e.after = lots[l] - n
<1>1. PICK cause \in {None} \cup CausesFor(l) : Deal(l, n, cause, "hand")
  BY DEF HandClose
<1>2. PICK e : e = Event("CLOSED", lots[l] - n, n, cause, "hand")
  OBVIOUS
<1>3. n \in 0 .. lots[l] /\ cause \in {None} \cup Ids
  BY CausesAreOrders
<1>4. /\ e \in EventType /\ events' = [events EXCEPT ![l] = Append(events[l], e)]
      /\ e.by = "hand" /\ e.after = lots[l] - n
  BY <1>1, <1>2, <1>3, DealTyped DEF Event
<1>5. events'[l] = Append(events[l], e) /\ events[l] \in Seq(EventType)
  BY <1>4 DEF Typed
<1> QED
  BY <1>4, <1>5, AmongAppend

\* A Client is closed by hand when its whole position is.
LEMMA HandMoves ==
    ASSUME Stepped, NEW c \in handClosed', c \notin handClosed
    PROVE  /\ c \in Clients /\ HandClose(c, lots[c]) /\ lots[c] > 0 /\ lots'[c] = 0
           /\ \E e \in Among(events'[c]) : e.by = "hand"
<1>1. PICK l \in Legs, n \in 1 .. Lots : HandClose(l, n)
  BY DEF Stepped, Memorises
<1>2. c = l /\ c \in Clients /\ n = lots[c] /\ n \in 1 .. lots[c]
  BY <1>1 DEF HandClose
<1>3. HandClose(c, lots[c]) /\ lots[c] > 0 /\ lots[c] \in Nat
  BY <1>1, <1>2 DEF Stepped
<1>4. lots \in [Legs -> Volumes] /\ lots' = [lots EXCEPT ![c] = lots[c] - n]
  BY <1>1, <1>2 DEF HandClose, Deal, Stepped, Typed
<1>5. lots'[c] = 0
  BY <1>2, <1>3, <1>4 DEF Legs
<1>6. \E e \in Among(events'[c]) : e.by = "hand"
  BY <1>1, <1>2, HandDeals DEF Legs, Stepped
<1> QED
  BY <1>2, <1>3, <1>5, <1>6

\* An order that is filled, and what is left.
LEMMA Fills ==
    ASSUME Stepped, NEW id \in Ids, Fill(id)
    PROVE  /\ Closes(id) /\ Ids' = Ids /\ UNCHANGED <<handClosed, pair>>
           /\ Cmd(id)'.leg = Cmd(id).leg /\ Cmd(id)'.kind = Cmd(id).kind
           /\ Cmd(id)'.lots = Taken(id) /\ Cmd(id)'.answer \in {"ok", "unknown"}
           /\ \A j \in Ids : j # id => Cmd(j)' = Cmd(j)
           /\ Cmd(id).leg \in Legs /\ lots[Cmd(id).leg] > 0 /\ Taken(id) \in 0 .. lots[Cmd(id).leg]
           /\ lots'[Cmd(id).leg] = lots[Cmd(id).leg] - Taken(id)
           /\ Cmd(id).kind # "PARTIAL" => lots'[Cmd(id).leg] = 0
           /\ lots'[Cmd(id).leg] = 0 => CarriedOut(id)'
<1>1. /\ Taken(id) \in 0 .. lots[Cmd(id).leg] /\ Taken(id) \in Volumes /\ Cmd(id).leg \in Legs
      /\ lots \in [Legs -> Volumes] /\ lots[Cmd(id).leg] \in Nat
  BY TakenTyped DEF Stepped, Typed
<1>2. PICK a \in {"ok", "unknown"} : Answer(id, a, Taken(id))
  BY DEF Fill
<1>3. /\ Cmd(id)'.answer = a /\ Cmd(id)'.lots = Taken(id) /\ Ids' = Ids
      /\ Cmd(id)'.leg = Cmd(id).leg /\ Cmd(id)'.kind = Cmd(id).kind
      /\ \A j \in Ids : j # id => Cmd(j)' = Cmd(j)
  BY <1>1, <1>2, AnswerOrders DEF Answers, Stepped
<1>4. Closes(id) /\ UNCHANGED <<handClosed, pair>> /\ lots[Cmd(id).leg] > 0
  BY <1>2 DEF Fill, Answer, history
<1>5. lots'[Cmd(id).leg] = lots[Cmd(id).leg] - Taken(id)
  BY <1>1 DEF Fill, Deal
<1>6. Cmd(id).kind # "PARTIAL" => Taken(id) = lots[Cmd(id).leg]
  BY DEF Taken
<1>7. lots'[Cmd(id).leg] = 0 => Taken(id) > 0
  BY <1>1, <1>4, <1>5
<1> QED
  BY <1>1, <1>3, <1>4, <1>5, <1>6, <1>7 DEF CarriedOut

\* A part that takes all that is left, or a full close, empties a position.
LEMMA FillEmpties ==
    ASSUME Stepped, Emptied, NEW id \in Ids, Fill(id), NEW c \in Clients, Cmd(id).leg = c, lots'[c] = 0
    PROVE  EmptiedInPart(c)' \/ \E j \in Ids' : FullClose(j, c)' /\ CarriedOut(j)'
<1>1. /\ id \in Ids' /\ CarriedOut(id)' /\ Cmd(id)'.leg = c /\ Cmd(id)'.kind = Cmd(id).kind /\ lots[c] > 0
      /\ handClosed' = handClosed /\ Closes(id)
  BY Fills
<1>2. CASE Cmd(id).kind = "CLOSE"
  BY <1>1, <1>2 DEF FullClose
<1>3. CASE Cmd(id).kind = "PARTIAL"
  <2>1. c \notin handClosed'
    BY <1>1 DEF Emptied, Gone
  <2>2. ASSUME NEW j \in Ids', Cmd(j)'.leg = c, Cmd(j)'.kind = "CLOSE" PROVE ~CarriedOut(j)'
    <3>1. j \in Ids /\ j # id /\ Cmd(j)' = Cmd(j)
      BY <1>1, <1>3, <2>2, Fills
    <3> QED
      BY <1>1, <2>2, <3>1 DEF Emptied, CarriedOut
  <2> QED
    BY <1>1, <1>3, <2>1, <2>2 DEF EmptiedInPart
<1>4. Cmd(id).kind \in {"OPEN", "CLOSE", "PARTIAL"}
  BY Ordered DEF Stepped, OrderType
<1> QED
  BY <1>1, <1>2, <1>3, <1>4 DEF Closes

LEMMA EmptiedInPartStays == ASSUME Stepped, NEW c \in Clients, EmptiedInPart(c) PROVE EmptiedInPart(c)'
<1>1. PICK id \in Ids : Cmd(id).leg = c /\ Cmd(id).kind = "PARTIAL" /\ CarriedOut(id)
  BY DEF EmptiedInPart
<1>2. pair[c].known /\ c # Master
  BY <1>1, Ordered, CloseAssumption DEF Stepped, IInv, OrdersOK, OrderOK
<1>3. lots[c] = 0 /\ lots'[c] = 0 /\ c \in Legs
  BY <1>2, GoneStays DEF EmptiedInPart, Stepped, Legs
<1>4. c \notin handClosed'
  BY <1>3, HandMoves DEF EmptiedInPart
<1>5. ASSUME NEW j \in Ids', Cmd(j)'.leg = c, Cmd(j)'.kind = "CLOSE", CarriedOut(j)' PROVE FALSE
  <2>1. j \in Ids /\ Cmd(j).leg = c /\ Cmd(j).kind = "CLOSE" /\ (CarriedOut(j) \/ Fill(j))
    BY <1>5, CarriedNew
  <2> QED
    BY <1>3, <2>1 DEF EmptiedInPart, Fill
<1> QED
  BY <1>1, <1>3, <1>4, <1>5, CarriedStays DEF EmptiedInPart

LEMMA EmptiedStep == ASSUME Stepped, Emptied PROVE Emptied'
<1>1. ASSUME NEW c \in handClosed' PROVE Gone(c)'
  <2>1. CASE c \in handClosed
    BY <2>1, GoneForGood DEF Emptied, Stepped, Typed
  <2>2. CASE c \notin handClosed
    BY <2>2, HandMoves, OpenedOnce, OpenedStays DEF Gone, Stepped
  <2> QED
    BY <2>1, <2>2
<1>2. ASSUME NEW id \in waiting' PROVE Gone(id[1])'
  <2>1. CASE id \in waiting
    BY <2>1, GoneForGood, Ordered DEF Emptied, Stepped, Typed
  <2>2. CASE id \notin waiting
    <3>1. PICK c \in Clients : events[c] # <<>> /\ HearCascade(c, Head(events[c]))
      BY <2>2 DEF Stepped, Memorises, CascadeOn, CascadeGiveUp, BridgeCrash
    <3>2. waiting' = waiting \/ waiting' = waiting \cup {<<c, Len(command[c]) + 1>>}
      BY <3>1 DEF HearCascade
    <3>3. pair[c].known /\ Head(events[c]).after = 0 /\ UNCHANGED lots /\ id[1] = c
      BY <2>2, <3>1, <3>2 DEF HearCascade, ByHand, ClientClosed, NextEvent
    <3>4. lots[c] = 0
      BY <3>1, <3>3, NothingLeft DEF Stepped, IInv, Legs
    <3> QED
      BY <3>3, <3>4, OpenedOnce, OpenedStays DEF Gone, Stepped
  <2> QED
    BY <2>1, <2>2
<1>3. ASSUME NEW id \in Ids', Cmd(id)'.kind = "CLOSE", CarriedOut(id)' PROVE lots'[Cmd(id)'.leg] = 0
  <2>1. /\ id \in Ids /\ Cmd(id)'.leg = Cmd(id).leg /\ Cmd(id).kind = "CLOSE"
        /\ CarriedOut(id) \/ Fill(id)
    BY <1>3, CarriedNew
  <2>2. CASE Fill(id)
    BY <2>1, <2>2, Fills
  <2>3. CASE CarriedOut(id)
    <3>1. lots[Cmd(id).leg] = 0 /\ Cmd(id).leg \in Legs
      BY <2>1, <2>3, Ordered DEF Emptied, Stepped
    <3>2. Cmd(id).leg = Master \/ pair[Cmd(id).leg].known
      BY <2>1, Ordered DEF Stepped, IInv, OrdersOK, OrderOK
    <3> QED
      BY <2>1, <3>1, <3>2, GoneStays DEF Stepped
  <2> QED
    BY <2>1, <2>2, <2>3
<1>4. ASSUME NEW id \in Ids', Cmd(id)'.answer = "already_closed" PROVE Cmd(id)'.lots = 0
  <2>1. id \in Ids /\ Answering(id)
    BY <1>4, NewCloses DEF Stepped
  <2> QED
    BY <1>4, <2>1 DEF Answering, Emptied
<1> QED
  BY <1>1, <1>2, <1>3, <1>4 DEF Emptied

LEMMA AnswersFirstStep == ASSUME Stepped, Emptied, AnswersFirst PROVE AnswersFirst'
<1> SUFFICES ASSUME NEW c \in handClosed', NEW id \in Ids', Unheard(id, c)' PROVE HandEvent(c)'
  BY DEF AnswersFirst
<1>1. CASE c \notin handClosed
  BY <1>1, HandMoves DEF HandEvent
<1>2. CASE c \in handClosed
  <2>1. c \in Clients /\ c \in Legs /\ Gone(c) /\ c # Master
    BY <1>2, CloseAssumption DEF Emptied, Stepped, Typed, Legs
  <2>2. id \in Ids
    BY NewCloses DEF Unheard, Stepped
  <2>3. Answering(id) /\ SameTask(id) /\ Cmd(id)'.answer = "ok" /\ Cmd(id)'.leg = c
    BY <2>2 DEF Stepped, Unheard
  <2>4. Cmd(id).answer = "ok"
    <3>1. CASE Closes(id)
      BY <2>1, <2>3, <3>1 DEF Answering, Fill, SameTask, Gone
    <3>2. CASE ~Closes(id)
      <4>1. id[1] = c
        BY <2>1, <2>2, <2>3, Ordered DEF SameTask, Stepped
      <4> QED
        BY <2>1, <2>2, <2>3, <3>2, <4>1 DEF Answering, Gone, Opened
    <3> QED
      BY <3>1, <3>2
  <2>5. ~Cmd(id).heard
    BY <2>2 DEF Stepped, Unheard, Settling, Timeout, CancelExpired
  <2>6. Unheard(id, c)
    BY <2>3, <2>4, <2>5 DEF Unheard, SameTask
  <2>7. ~Hearing(c)
    BY <2>2, <2>6 DEF Hearing, Unheard
  <2>8. PICK e \in Among(events[c]) : e.by = "hand"
    BY <1>2, <2>2, <2>6 DEF AnswersFirst, HandEvent
  <2>9. e \in Among(events'[c])
    BY <2>1, <2>7, <2>8 DEF Stepped, Queues
  <2> QED
    BY <2>8, <2>9 DEF HandEvent
<1> QED
  BY <1>1, <1>2

LEMMA LastEventsStep == ASSUME Stepped, Emptied, LastEvents PROVE LastEvents'
<1> SUFFICES ASSUME NEW c \in Clients, NEW e \in Among(events'[c])
             PROVE  /\ LastOwn(e) => \/ EmptiedInPart(c)'
                                     \/ \E id \in Ids' : FullClose(id, c)' /\ CarriedOut(id)'
                    /\ e.kind = "OPENED" => e.after > 0
  BY DEF LastEvents, LastOwn
<1>0. c \in Legs /\ c # Master /\ Queues(c) /\ lots[c] \in Nat /\ lots'[c] \in Nat
  BY CloseAssumption DEF Legs, Stepped
<1>1. CASE e \in Among(events[c])
  <2>1. /\ LastOwn(e) => EmptiedInPart(c) \/ \E id \in Ids : FullClose(id, c) /\ CarriedOut(id)
        /\ e.kind = "OPENED" => e.after > 0
    BY <1>1 DEF LastEvents
  <2>2. ASSUME NEW id \in Ids, FullClose(id, c), CarriedOut(id)
        PROVE  id \in Ids' /\ FullClose(id, c)' /\ CarriedOut(id)'
    BY <2>2, CarriedStays DEF FullClose
  <2> QED
    BY <2>1, <2>2, EmptiedInPartStays
<1>2. CASE NewEvent(c, e)
  <2>1. ASSUME NEW id \in Ids, Fill(id), Cmd(id).leg = c, e.after = lots'[c], LastOwn(e)
        PROVE  EmptiedInPart(c)' \/ \E j \in Ids' : FullClose(j, c)' /\ CarriedOut(j)'
    BY <2>1, FillEmpties DEF LastOwn
  <2> QED
    BY <1>2, <2>1, CloseAssumption DEF NewEvent, LastOwn
<1> QED
  BY <1>0, <1>1, <1>2 DEF Queues

-----------------------------------------------------------------------------
(* The rows, and what excuses a Client.                                      *)

Warned(c) == {c, Master} \cap told # {}

\* How the status of a pair changes, and whether its position is known.
StatusMoves(c) ==
    \/ pair'[c].status = pair[c].status /\ pair'[c].known = pair[c].known
    \/ (pair[c].known \/ pair[c].status = "PENDING_OPEN") /\ pair'[c].known
       /\ pair'[c].status # "OPEN_FAILED"
    \/ pair[c].status = "PENDING_OPEN" /\ pair'[c].status = "OPEN_FAILED" /\ pair'[c].known = pair[c].known
    \/ Warned(c)' /\ pair'[c].status = "ORPHANED" /\ pair'[c].known = pair[c].known

\* On whose account the Clients are closed when the Master's position is gone.
Follows(source) ==
    \/ source = "MASTER" /\ SyncAllowed
    \/ source = "CLIENT" /\ waiting # {}

\* A wish to close a pair is never taken back.
WishMoves(c) ==
    \/ pair'[c].wanted = pair[c].wanted
    \/ pair'[c].wanted # None /\ lots[Master] = 0 /\ Follows(pair'[c].wanted)

\* Nothing is left in the book of a pair that is open only if a person is told.
VolumeMoves(c) ==
    pair'[c].known /\ pair'[c].clots = 0 =>
        \/ pair'[c].status = "CLOSED" \/ Warned(c)'
        \/ /\ pair[c].known /\ pair[c].clots = 0
           /\ pair'[c].status = pair[c].status \/ pair[c].status # "CLOSED"

ClosedBy(c) ==
    pair'[c].status = "CLOSED" =>
        \/ pair[c].status = "CLOSED"
        \/ \E id \in Ids : /\ id[1] = c
                           /\ \/ AckClosed(id)
                              \/ AckPartial(id) /\ pair[c].clots <= IF Cmd(id).via = "EA" THEN Cmd(id).lots ELSE 0
        \/ /\ events[c] # <<>>
           /\ \/ HearCascade(c, Head(events[c]))
              \/ /\ HearOwnClose(c, Head(events[c]))
                 /\ Head(events[c]).after = 0 /\ Head(events[c]).cause = None

RowMoves(c) == StatusMoves(c) /\ WishMoves(c) /\ VolumeMoves(c) /\ ClosedBy(c)

\* A row that only changes its status.
LEMMA RowKept ==
    ASSUME NEW c, pair'[c].known = pair[c].known, pair'[c].wanted = pair[c].wanted,
           pair'[c].clots = pair[c].clots,
           \/ pair'[c].status = pair[c].status
           \/ pair[c].known /\ pair[c].status # "CLOSED" /\ pair'[c].status \notin {"OPEN_FAILED", "CLOSED"}
           \/ Warned(c)' /\ pair'[c].status = "ORPHANED"
    PROVE  RowMoves(c)
  BY DEF RowMoves, StatusMoves, WishMoves, VolumeMoves, ClosedBy

LEMMA SameRow == ASSUME NEW c, pair'[c] = pair[c] PROVE RowMoves(c)
  BY RowKept

LEMMA FullyClosedRow ==
    ASSUME NEW S \in SUBSET Clients, NEW source \in {"MASTER", "CLIENT"}, FullyClosed(pair, S, source),
           NEW c \in Clients, c \in S => Alive(c), lots[Master] = 0, Follows(source)
    PROVE  RowMoves(c)
  BY CloseAssumption DEF FullyClosed, RowMoves, StatusMoves, WishMoves, VolumeMoves, ClosedBy, Alive, Terminal

LEMMA AnswerRows ==
    ASSUME Stepped, NEW id \in Ids, HearAnswer(id), NEW c \in Clients PROVE RowMoves(c)
<1>0. /\ id[1] \in Clients /\ pair \in [Clients -> PairType] /\ pair[c] \in PairType
      /\ Cmd(id).leg \in {id[1], Master} /\ Cmd(id) \in OrderType /\ Cmd(id).lots \in Nat
      /\ OrderOK(id, Cmd(id)) /\ pair[c].clots \in Nat
  <2>1. Cmd(id).lots \in Volumes /\ \A n \in Volumes : n \in Nat
    BY TakenTyped, CloseAssumption DEF Volumes, Stepped
  <2> QED
    BY <2>1, Ordered DEF Stepped, Typed, IInv, OrdersOK, PairType
<1>1. ASSUME AckMaster(id) PROVE RowMoves(c)
  <2>1. pair'[c] = [pair[c] EXCEPT !.mlots = 0]
    BY <1>1 DEF AckMaster
  <2> QED
    BY <1>0, <2>1, RowKept DEF PairType
<1>2. ASSUME AckClosed(id) \/ AckPartial(id), c # id[1] PROVE RowMoves(c)
  <2>1. pair'[c] = pair[c]
    BY <1>0, <1>2 DEF AckClosed, AckPartial, SetPair
  <2> QED
    BY <2>1, SameRow
<1>3. ASSUME c = id[1], pair'[c] = MarkClosed(c),
             AckClosed(id) \/ (AckPartial(id) /\ pair[c].clots <= IF Cmd(id).via = "EA" THEN Cmd(id).lots ELSE 0)
      PROVE  RowMoves(c)
  <2>1. pair'[c].status = "CLOSED" /\ pair'[c].known = pair[c].known /\ pair'[c].wanted = pair[c].wanted
    BY <1>3, MarkClosedTyped DEF Stepped
  <2>2. pair[c].known
    BY <1>0, <1>3 DEF AckClosed, AckPartial, Done, Closes, OrderOK
  <2> QED
    BY <1>3, <2>1, <2>2 DEF RowMoves, StatusMoves, WishMoves, VolumeMoves, ClosedBy
<1>4. ASSUME AckClosed(id), c = id[1] PROVE RowMoves(c)
  <2>1. pair'[c] = MarkClosed(c)
    BY <1>0, <1>4 DEF AckClosed, SetPair
  <2> QED
    BY <1>3, <1>4, <2>1
<1>5. ASSUME AckPartial(id), c = id[1] PROVE RowMoves(c)
  <2> DEFINE executed == IF Cmd(id).via = "EA" THEN Cmd(id).lots ELSE 0
  <2>1. pair'[c] = IF pair[c].clots <= executed THEN MarkClosed(c)
                   ELSE [pair[c] EXCEPT !.status = "PARTIALLY_CLOSED", !.clots = @ - executed]
    BY <1>0, <1>5 DEF AckPartial, SetPair
  <2>2. pair[c].known /\ executed \in Nat
    BY <1>0, <1>5 DEF AckPartial, Done, Closes, OrderOK
  <2>3. CASE pair[c].clots <= executed
    BY <1>3, <1>5, <2>1, <2>3
  <2>4. CASE ~(pair[c].clots <= executed)
    <3>1. pair'[c] = [pair[c] EXCEPT !.status = "PARTIALLY_CLOSED", !.clots = @ - executed]
      BY <2>1, <2>4
    <3> HIDE DEF executed
    <3>2. /\ pair'[c].status = "PARTIALLY_CLOSED" /\ pair'[c].clots = pair[c].clots - executed
          /\ pair'[c].known = pair[c].known /\ pair'[c].wanted = pair[c].wanted
      BY ONLY <1>0, <3>1 DEF PairType
    <3>3. pair'[c].clots # 0
      BY <1>0, <2>2, <2>4, <3>2
    <3> QED
      BY <2>2, <3>2, <3>3 DEF RowMoves, StatusMoves, WishMoves, VolumeMoves, ClosedBy
  <2> QED
    BY <2>3, <2>4
<1>6. ASSUME AckUnknown(id) \/ AckFallBack(id) PROVE RowMoves(c)
  BY <1>6, SameRow DEF AckUnknown, AckFallBack
<1>7. ASSUME AckFailed(id) PROVE RowMoves(c)
  <2>1. /\ pair'[c] = IF c = id[1] THEN [pair[c] EXCEPT !.status = "ORPHANED"] ELSE pair[c]
        /\ Cmd(id).leg \in told'
    BY <1>0, <1>7 DEF AckFailed
  <2>2. CASE c = id[1]
    <3>1. Warned(c)'
      BY <1>0, <2>1, <2>2 DEF Warned
    <3> QED
      BY <1>0, <2>1, <2>2, <3>1, RowKept DEF PairType
  <2> QED
    BY <2>1, <2>2, SameRow
<1>8. ASSUME AckOpen(id) PROVE RowMoves(c)
  <2>1. \/ pair'[c] = pair[c]
        \/ pair[c].status = "PENDING_OPEN" /\ pair'[c] = [pair[c] EXCEPT !.status = "OPEN_FAILED"]
        \/ /\ pair[c].status = "PENDING_OPEN"
           /\ pair'[c] = [pair[c] EXCEPT !.status = "OPEN", !.known = TRUE, !.clots = Lots]
    BY <1>0, <1>8 DEF AckOpen
  <2>2. CASE pair[c].status = "PENDING_OPEN" /\ pair'[c] = [pair[c] EXCEPT !.status = "OPEN_FAILED"]
    <3>1. /\ pair'[c].status = "OPEN_FAILED" /\ pair'[c].known = pair[c].known
          /\ pair'[c].wanted = pair[c].wanted /\ pair'[c].clots = pair[c].clots
      BY <1>0, <2>2 DEF PairType
    <3> QED
      BY <2>2, <3>1 DEF RowMoves, StatusMoves, WishMoves, VolumeMoves, ClosedBy
  <2>3. CASE /\ pair[c].status = "PENDING_OPEN"
             /\ pair'[c] = [pair[c] EXCEPT !.status = "OPEN", !.known = TRUE, !.clots = Lots]
    <3>1. /\ pair'[c].status = "OPEN" /\ pair'[c].known = TRUE
          /\ pair'[c].wanted = pair[c].wanted /\ pair'[c].clots = Lots
      BY <1>0, <2>3 DEF PairType
    <3> QED
      BY <2>3, <3>1, CloseAssumption DEF RowMoves, StatusMoves, WishMoves, VolumeMoves, ClosedBy
  <2> QED
    BY <2>1, <2>2, <2>3, SameRow
<1> QED
  BY <1>1, <1>2, <1>4, <1>5, <1>6, <1>7, <1>8 DEF HearAnswer

LEMMA HeadIsAmong ==
    ASSUME Typed, NEW l \in Legs, events[l] # <<>>
    PROVE  Head(events[l]) \in Among(events[l]) /\ Head(events[l]) \in EventType
  BY HeadOfEvents DEF Among

LEMMA MasterEventRows ==
    ASSUME Stepped, events[Master] # <<>>, RouteMaster(Head(events[Master])), NEW c \in Clients
    PROVE  RowMoves(c)
<1> DEFINE e == Head(events[Master])
<1>0. /\ pair \in [Clients -> PairType] /\ pair[c] \in PairType /\ Master \in Legs
      /\ e.after = 0 => lots[Master] = 0
  BY NothingLeft DEF Stepped, Typed, IInv, Legs
<1>1. CASE HearMasterIgnored(e)
  BY <1>1, SameRow DEF HearMasterIgnored
<1>2. CASE HearMasterClosed(e)
  <2>1. PICK S \in SUBSET Clients : S = {d \in Clients : Alive(d)} /\ CloseFully(pair, S, "MASTER")
    BY <1>2 DEF HearMasterClosed
  <2>2. Follows("MASTER") /\ lots[Master] = 0
    BY <1>0, <1>2 DEF HearMasterClosed, Follows
  <2> QED
    BY <1>0, <2>1, <2>2, ClosesFully, FullyClosedRow DEF Stepped
<1>3. CASE HearMasterPartial(e)
  <2>1. \/ pair'[c] = [pair[c] EXCEPT !.mlots = e.after, !.status = "PARTIALLY_CLOSED"]
           /\ Alive(c) /\ pair[c].known
        \/ pair'[c] = [pair[c] EXCEPT !.mlots = e.after]
        \/ pair'[c] = pair[c]
    BY <1>3 DEF HearMasterPartial
  <2> HIDE DEF e
  <2>2. /\ pair'[c].known = pair[c].known /\ pair'[c].clots = pair[c].clots
        /\ pair'[c].wanted = pair[c].wanted
        /\ \/ pair'[c].status = pair[c].status
           \/ pair'[c].status = "PARTIALLY_CLOSED" /\ Alive(c) /\ pair[c].known
    <3>1. pair[c] \in PairType
      BY <1>0
    <3> QED
      BY ONLY <2>1, <3>1 DEF PairType
  <2> QED
    BY <2>2, RowKept DEF Alive, Terminal
<1> QED
  BY <1>1, <1>2, <1>3 DEF RouteMaster

LEMMA ClientEventRows ==
    ASSUME Stepped, Rows, LastEvents, NEW d \in Clients, events[d] # <<>>,
           RouteClient(d, Head(events[d])), NEW c \in Clients
    PROVE  RowMoves(c)
<1> DEFINE e == Head(events[d])
<1>0. /\ pair \in [Clients -> PairType] /\ pair[c] \in PairType /\ d \in Legs
      /\ e \in EventType /\ e \in Among(events[d]) /\ Typed
  BY HeadIsAmong DEF Stepped, Typed, IInv, Legs
<1>1. CASE HearOpened(d, e)
  <2>0. e.after # 0
    <3>1. e.after > 0
      BY <1>0, <1>1 DEF HearOpened, LastEvents
    <3> QED BY <3>1
  <2>1. /\ FullyClosed(Bound(d, e), Deferred(d), pair[d].wanted)
        /\ c # d => Bound(d, e)[c] = pair[c]
        /\ c = d => Bound(d, e)[c] = IF pair[c].status = "PENDING_OPEN"
               THEN [pair[c] EXCEPT !.status = "OPEN", !.known = TRUE, !.clots = e.after]
               ELSE pair[c]
    BY <1>0, <1>1, OpenedCloses, ZenonT(60)
  <2>2. /\ pair'[c].known = Bound(d, e)[c].known /\ pair'[c].clots = Bound(d, e)[c].clots
        /\ (pair'[c].wanted = Bound(d, e)[c].wanted
            \/ (c \in Deferred(d) /\ pair'[c].wanted = pair[d].wanted))
        /\ (pair'[c].status = Bound(d, e)[c].status
            \/ (c \in Deferred(d) /\ pair'[c].status = "CLOSING"))
    BY <2>1 DEF FullyClosed
  <2>3. CASE c # d \/ pair[c].status # "PENDING_OPEN"
    BY <2>1, <2>2, <2>3, RowKept DEF Deferred
  <2>4. CASE c = d /\ pair[c].status = "PENDING_OPEN"
    <3> DEFINE b == Bound(d, e)[c]
    <3>1. b = [pair[c] EXCEPT !.status = "OPEN", !.known = TRUE, !.clots = e.after]
      BY <2>1, <2>4
    <3> HIDE DEF b, e
    <3>2. b.known = TRUE /\ b.clots = e.after /\ b.status = "OPEN" /\ b.wanted = pair[c].wanted
      BY ONLY <1>0, <3>1 DEF PairType
    <3>3. /\ pair'[c].known /\ pair'[c].clots = e.after /\ pair'[c].status \in {"OPEN", "CLOSING"}
          /\ pair'[c].wanted = pair[c].wanted
      BY <2>2, <2>4, <3>2 DEF b
    <3> QED
      BY <2>0, <2>4, <3>3 DEF RowMoves, StatusMoves, WishMoves, VolumeMoves, ClosedBy
  <2> QED
    BY <2>3, <2>4
<1>2. CASE HearClientIgnored(d, e)
  BY <1>2, SameRow DEF HearClientIgnored
<1>3. ASSUME c # d, \E p : SetPair(d, p) PROVE RowMoves(c)
  <2>1. pair'[c] = pair[c]
    BY <1>0, <1>3 DEF SetPair
  <2> QED
    BY <2>1, SameRow
<1>4. CASE HearOwnClose(d, e) /\ c = d
  <2>0. pair[c].known
    BY <1>4 DEF HearOwnClose, ClientClosed
  <2>1. \/ UNCHANGED pair
        \/ SetPair(d, MarkClosed(d)) /\ e.after = 0 /\ e.cause = None
        \/ SetPair(d, [pair[d] EXCEPT !.clots = e.after]) /\ (e.after = 0 => ~Alive(d))
    BY <1>4 DEF HearOwnClose, Claimed
  <2>2. CASE SetPair(d, MarkClosed(d)) /\ e.after = 0 /\ e.cause = None
    <3>1. pair'[c] = MarkClosed(c)
      BY <1>0, <1>4, <2>2 DEF SetPair
    <3>2. pair'[c].status = "CLOSED" /\ pair'[c].known = pair[c].known /\ pair'[c].wanted = pair[c].wanted
      BY <1>0, <3>1, MarkClosedTyped
    <3> QED
      BY <1>4, <2>0, <2>2, <3>2 DEF RowMoves, StatusMoves, WishMoves, VolumeMoves, ClosedBy
  <2>3. CASE SetPair(d, [pair[d] EXCEPT !.clots = e.after]) /\ (e.after = 0 => ~Alive(d))
    <3>1. pair'[c] = [pair[c] EXCEPT !.clots = e.after]
      BY <1>0, <1>4, <2>3 DEF SetPair
    <3>2. ~Alive(d) => pair[c].status = "CLOSED"
      BY <1>4, <2>0 DEF Alive, Terminal, Rows
    <3> HIDE DEF e
    <3>3. /\ pair'[c].clots = e.after /\ pair'[c].known = pair[c].known
          /\ pair'[c].status = pair[c].status /\ pair'[c].wanted = pair[c].wanted
      BY ONLY <1>0, <3>1 DEF PairType
    <3> QED
      BY <2>3, <3>2, <3>3 DEF RowMoves, StatusMoves, WishMoves, VolumeMoves, ClosedBy
  <2> QED
    BY <2>1, <2>2, <2>3, SameRow
<1>5. CASE HearOwnClose(d, e) /\ c # d
  <2>1. pair' = pair \/ \E p : SetPair(d, p)
    BY <1>5 DEF HearOwnClose
  <2> QED
    BY <1>3, <1>5, <2>1, SameRow
<1>6. CASE HearClientPartial(d, e) \/ HearClientKept(d, e)
  <2>1. /\ pair[d].known /\ d \in told'
        /\ \/ SetPair(d, [pair[d] EXCEPT !.clots = e.after, !.status = "PARTIALLY_CLOSED"])
           \/ SetPair(d, [pair[d] EXCEPT !.status = "ORPHANED", !.clots = 0])
    BY <1>6 DEF HearClientPartial, HearClientKept, ByHand, ClientClosed
  <2>2. CASE c = d
    <3>1. \/ pair'[c] = [pair[c] EXCEPT !.clots = e.after, !.status = "PARTIALLY_CLOSED"]
          \/ pair'[c] = [pair[c] EXCEPT !.status = "ORPHANED", !.clots = 0]
      BY <1>0, <2>1, <2>2 DEF SetPair
    <3> HIDE DEF e
    <3>2. /\ pair'[c].known = pair[c].known /\ pair'[c].wanted = pair[c].wanted
          /\ pair'[c].status \in {"PARTIALLY_CLOSED", "ORPHANED"}
      BY ONLY <1>0, <3>1 DEF PairType
    <3>3. Warned(c)' /\ pair[c].known
      BY <2>1, <2>2 DEF Warned
    <3> QED
      BY <3>2, <3>3 DEF RowMoves, StatusMoves, WishMoves, VolumeMoves, ClosedBy
  <2> QED
    BY <1>3, <2>1, <2>2
<1>7. CASE HearCascade(d, e)
  <2>1. pair[d].known /\ SetPair(d, [pair[d] EXCEPT !.status = "CLOSED", !.clots = 0])
    BY <1>7 DEF HearCascade, ByHand, ClientClosed
  <2>2. CASE c = d
    <3>1. pair'[c] = [pair[c] EXCEPT !.status = "CLOSED", !.clots = 0]
      BY <1>0, <2>1, <2>2 DEF SetPair
    <3>2. /\ pair'[c].known = pair[c].known /\ pair'[c].wanted = pair[c].wanted
          /\ pair'[c].status = "CLOSED"
      BY ONLY <1>0, <3>1 DEF PairType
    <3> QED
      BY <1>7, <2>1, <2>2, <3>2 DEF RowMoves, StatusMoves, WishMoves, VolumeMoves, ClosedBy
  <2> QED
    BY <1>3, <2>1, <2>2
<1> QED
  BY <1>1, <1>2, <1>4, <1>5, <1>6, <1>7 DEF RouteClient

LEMMA TaskRows ==
    ASSUME Stepped, NEW c \in Clients
    PROVE  /\ \A id \in waiting : CascadeOn(id) => RowMoves(c)
           /\ \A id \in waiting : CascadeGiveUp(id) => RowMoves(c)
           /\ EmergencyClients => RowMoves(c)
<1>0. pair \in [Clients -> PairType] /\ pair[c] \in PairType
  BY DEF Stepped, Typed
<1>1. ASSUME NEW id \in waiting, CascadeOn(id) PROVE RowMoves(c)
  <2>1. PICK S \in SUBSET Clients : /\ S = {d \in Clients \ {id[1]} : Alive(d)}
                                    /\ CloseFully(pair, S, "CLIENT")
    BY <1>1 DEF CascadeOn
  <2>2. lots[Master] = 0 /\ Follows("CLIENT")
    BY <1>1 DEF CascadeOn, Stepped, IInv, MasterGone, Follows
  <2> QED
    BY <1>0, <1>1, <2>1, <2>2, ClosesFully, FullyClosedRow DEF Stepped
<1>2. ASSUME NEW id \in waiting, CascadeGiveUp(id) PROVE RowMoves(c)
  <2>1. /\ pair'[c] = IF Alive(c) THEN [pair[c] EXCEPT !.status = "ORPHANED"] ELSE pair[c]
        /\ Master \in told'
    BY <1>2 DEF CascadeGiveUp
  <2>2. /\ pair'[c].known = pair[c].known /\ pair'[c].clots = pair[c].clots
        /\ pair'[c].wanted = pair[c].wanted /\ pair'[c].status \in {pair[c].status, "ORPHANED"}
    BY <1>0, <2>1 DEF PairType
  <2> QED
    BY <2>1, <2>2, RowKept DEF Warned
<1>3. ASSUME EmergencyClients PROVE RowMoves(c)
  <2>1. pair'[c] = IF Alive(c) /\ pair[c].known /\ ~Busy(c) THEN [pair[c] EXCEPT !.status = "CLOSING"]
                   ELSE pair[c]
    BY <1>3 DEF EmergencyClients
  <2>2. CASE Alive(c) /\ pair[c].known /\ ~Busy(c)
    <3>1. /\ pair'[c].known = pair[c].known /\ pair'[c].clots = pair[c].clots
          /\ pair'[c].wanted = pair[c].wanted /\ pair'[c].status = "CLOSING"
      BY <1>0, <2>1, <2>2 DEF PairType
    <3> QED
      BY <2>2, <3>1, RowKept DEF Alive, Terminal
  <2> QED
    BY <2>1, <2>2, SameRow
<1> QED
  BY <1>1, <1>2, <1>3

LEMMA RowStep == ASSUME Stepped, Rows, LastEvents, NEW c \in Clients PROVE RowMoves(c)
<1>1. CASE UNCHANGED pair
  BY <1>1, SameRow
<1>2. ASSUME NEW l \in Legs, NEW n \in 1 .. Lots, HandClose(l, n) PROVE UNCHANGED pair
  BY <1>2 DEF HandClose, tables
<1>3. ASSUME NEW id \in Ids, Agent(id) \/ Timeout(id) \/ CancelExpired(id) PROVE UNCHANGED pair
  BY <1>3 DEF Agent, Fill, FindGone, Refuse, OpenCopy, LoseAnswer, Answer, Timeout, CancelExpired
<1>4. CASE SetMode \/ Rearm \/ EmergencyMaster \/ BridgeCrash \/ \E l \in Clickered : ClickerStatus(l)
  BY <1>4, <1>1 DEF SetMode, Rearm, EmergencyMaster, BridgeCrash, ClickerStatus, tables
<1>5. CASE UNCHANGED vars
  BY <1>5, <1>1 DEF vars, tables
<1>6. [Next]_vars
  BY DEF Stepped
<1> QED
  BY <1>1, <1>2, <1>3, <1>4, <1>5, <1>6, AnswerRows, MasterEventRows, ClientEventRows, TaskRows DEF Next

LEMMA ExcusedStays ==
    ASSUME Stepped, Rows, NEW c \in Clients, RowMoves(c), Excused(c) PROVE Excused(c)'
<1>1. told \subseteq told' /\ unfollowed \subseteq unfollowed' /\ passedOver \subseteq passedOver'
  BY DEF Stepped, Memorises, Grows
<1>2. CASE {c, Master} \cap (told \cup unfollowed) # {} \/ c \in passedOver
  BY <1>1, <1>2 DEF Excused
<1>3. CASE pair[c].status = "OPEN_FAILED"
  <2>1. ~pair[c].known
    BY <1>3 DEF Rows
  <2>2. pair'[c].status = "OPEN_FAILED" \/ Warned(c)'
    BY <1>3, <2>1 DEF RowMoves, StatusMoves
  <2> QED
    BY <2>2 DEF Excused, Warned
<1>4. CASE pair[c].wanted # None
  BY <1>4 DEF RowMoves, WishMoves, Excused
<1>5. CASE EmptiedInPart(c)
  BY <1>5, EmptiedInPartStays DEF Excused
<1> QED
  BY <1>2, <1>3, <1>4, <1>5 DEF Excused

LEMMA WarnedExcuses == ASSUME NEW c PROVE (Warned(c) => Excused(c)) /\ (Warned(c)' => Excused(c)')
  BY DEF Warned, Excused

LEMMA RowsStep ==
    ASSUME Stepped, Rows, \A c \in Clients : RowMoves(c) PROVE Rows'
<1> SUFFICES ASSUME NEW c \in Clients
             PROVE  /\ ~pair'[c].known => pair'[c].status = "PENDING_OPEN" \/ Excused(c)'
                    /\ pair'[c].status = "OPEN_FAILED" => ~pair'[c].known
                    /\ pair'[c].known /\ pair'[c].clots = 0 => pair'[c].status = "CLOSED" \/ Excused(c)'
  BY DEF Rows
<1>1. RowMoves(c) /\ (Excused(c) => Excused(c)') /\ (Warned(c)' => Excused(c)')
  BY ExcusedStays, WarnedExcuses
<1>2. KnownIsBound
  BY DEF Stepped, IInv
<1>3. ~pair'[c].known => pair'[c].status = "PENDING_OPEN" \/ Excused(c)'
  <2>1. CASE pair'[c].status = "OPEN_FAILED"
    BY <2>1 DEF Excused
  <2> QED
    BY <1>1, <2>1 DEF RowMoves, StatusMoves, Rows
<1>4. pair'[c].status = "OPEN_FAILED" => ~pair'[c].known
  BY <1>1, <1>2 DEF RowMoves, StatusMoves, Rows, KnownIsBound
<1>5. pair'[c].known /\ pair'[c].clots = 0 => pair'[c].status = "CLOSED" \/ Excused(c)'
  BY <1>1 DEF RowMoves, VolumeMoves, Rows
<1> QED
  BY <1>3, <1>4, <1>5

-----------------------------------------------------------------------------
(* What is sent, and why.                                                    *)

\* Of the pairs that could be closed fully, each is ordered closed or told of.
LEMMA ClosesSent ==
    ASSUME Typed, NEW able \in SUBSET Clients, NEW source,
           able = {} \/ source \in {"MASTER", "CLIENT", "BOT"},
           command' = [c \in Clients |-> IF c \in able THEN Sent(c, "CLOSE", 0, source) ELSE command[c]],
           {c \in able : Via(c) = "none"} \subseteq told'
    PROVE  /\ \A j \in Ids' \ Ids : /\ j[1] \in able /\ Cmd(j)'.leg = j[1]
                                    /\ Cmd(j)'.kind = "CLOSE" /\ Cmd(j)'.source = source
           /\ \A c \in able : OrderedClosed(c)' \/ c \in told'
<1> DEFINE n == [c \in able |-> 0]
           src == IF able = {} THEN "BOT" ELSE source
<1>1. n \in [able -> Volumes] /\ src \in {"MASTER", "CLIENT", "BOT"}
  BY CloseAssumption DEF Volumes
<1>2. command' = [c \in Clients |-> IF c \in able THEN Sent(c, "CLOSE", n[c], src) ELSE command[c]]
  OBVIOUS
<1>3. \A c \in able : Order(c, Via(c), "CLOSE", n[c], src) = Order(c, Via(c), "CLOSE", 0, source)
  OBVIOUS
<1> HIDE DEF n, src
<1>4. Added(Reached(able), [c \in Reached(able) |-> Order(c, Via(c), "CLOSE", n[c], src)])
  <2>1. Typed /\ able \in SUBSET Clients
    OBVIOUS
  <2> QED
    BY ONLY <1>1, <1>2, <2>1, Sends
<1>5. /\ \A j \in Ids' \ Ids : /\ j[1] \in Reached(able) /\ j = <<j[1], Len(command[j[1]]) + 1>>
                               /\ Cmd(j)' = Order(j[1], Via(j[1]), "CLOSE", 0, source)
      /\ \A c \in Reached(able) : <<c, Len(command[c]) + 1>> \in Ids' \ Ids
  BY <1>3, <1>4 DEF Added, Reached
<1>6. \A j \in Ids' \ Ids : /\ j[1] \in able /\ Cmd(j)'.leg = j[1] /\ Cmd(j)'.kind = "CLOSE"
                            /\ Cmd(j)'.status = "SENT" /\ Cmd(j)'.source = source
  BY <1>5 DEF Reached, Order
<1>7. ASSUME NEW c \in Reached(able) PROVE OrderedClosed(c)'
  <2>1. PICK j \in Ids' \ Ids : j = <<c, Len(command[c]) + 1>>
    BY <1>5
  <2> QED
    BY <1>6, <2>1 DEF OrderedClosed, FullClose
<1> QED
  BY <1>6, <1>7 DEF Reached

LEMMA FullClosesSent ==
    ASSUME Typed, NEW book, NEW S \in SUBSET Clients, NEW source,
           S = {} \/ source \in {"MASTER", "CLIENT"}, CloseFully(book, S, source)
    PROVE  /\ \A j \in Ids' \ Ids : /\ j[1] \in S /\ Cmd(j)'.leg = j[1]
                                    /\ Cmd(j)'.kind = "CLOSE" /\ Cmd(j)'.source = source
           /\ \A c \in S : book[c].known => OrderedClosed(c)' \/ c \in told' \/ c \in passedOver'
<1> DEFINE able == {c \in S : book[c].known /\ ~Busy(c)}
<1>1. /\ able \in SUBSET Clients /\ able \subseteq S
      /\ able = {} \/ source \in {"MASTER", "CLIENT", "BOT"}
      /\ command' = [c \in Clients |-> IF c \in able THEN Sent(c, "CLOSE", 0, source) ELSE command[c]]
      /\ {c \in able : Via(c) = "none"} \subseteq told'
  BY DEF CloseFully
<1>2. \A c \in S : book[c].known => c \in able \/ c \in passedOver'
  BY DEF CloseFully
<1> HIDE DEF able
<1>3. /\ \A j \in Ids' \ Ids : /\ j[1] \in able /\ Cmd(j)'.leg = j[1]
                               /\ Cmd(j)'.kind = "CLOSE" /\ Cmd(j)'.source = source
      /\ \A c \in able : OrderedClosed(c)' \/ c \in told'
  BY <1>1, ClosesSent
<1> QED
  BY <1>1, <1>2, <1>3

\* Why an order is sent: a Client after the Master, or after its own wish; a Client in
\* an emergency; the Master after a Client, or in an emergency; anew, by another way.
Reason(j) ==
    \/ /\ Cmd(j)'.leg # Master /\ Cmd(j)'.kind = "PARTIAL" /\ Cmd(j)'.source = "MASTER"
       /\ lots[Master] < Lots /\ SyncAllowed
    \/ /\ Cmd(j)'.leg # Master /\ Cmd(j)'.kind = "CLOSE" /\ lots[Master] = 0
       /\ Follows(Cmd(j)'.source) \/ <<Cmd(j)'.leg, Cmd(j)'.source>> \in WishesDue
    \/ /\ Cmd(j)'.leg # Master /\ Cmd(j)'.kind = "CLOSE" /\ Cmd(j)'.source = "BOT"
       /\ mode = "EMERGENCY" /\ emergency'.phase = "waiting"
    \/ /\ Cmd(j)'.leg = Master /\ Cmd(j)'.source = "CLIENT" /\ j[1] \in MayCloseMaster
       /\ SyncAllowed /\ waiting' # {}
    \/ Cmd(j)'.leg = Master /\ Cmd(j)'.source = "BOT" /\ emergency.phase = "waiting"
    \/ \E id \in Ids : /\ AckFallBack(id) /\ Cmd(j)'.leg = Cmd(id).leg /\ Cmd(j)'.kind = Cmd(id).kind
                        /\ Cmd(j)'.source = Cmd(id).source /\ j[1] = id[1]

LEMMA NoneSent ==
    ASSUME Typed
    PROVE  /\ UNCHANGED command => Ids' = Ids
           /\ \A id \in Ids : /\ Agent(id) \/ Timeout(id) \/ CancelExpired(id) => Ids' = Ids
                              /\ HearAnswer(id) => Ids' = Ids \/ AckFallBack(id)
<1>1. \A id \in Ids : Editing(id) => Ids' = Ids
  BY DEF Editing, Edited
<1> QED
  BY <1>1, Keeps, AgentEditing, BridgeEditing DEF Agent, HearAnswer

LEMMA MasterSent ==
    ASSUME Typed, NEW c \in Clients, NEW source \in {"MASTER", "CLIENT", "BOT"},
           command' = [command EXCEPT ![c] = Append(@, MasterOrder(source))]
    PROVE  /\ \A j \in Ids' \ Ids : /\ Cmd(j)'.leg = Master /\ Cmd(j)'.status = "SENT"
                                    /\ Cmd(j)'.source = source /\ j[1] = c
           /\ MasterClosing'
<1> DEFINE x == MasterOrder(source)
<1>1. x \in OrderType /\ x.leg = Master /\ x.status = "SENT" /\ x.source = source
  BY MasterOrderTyped DEF MasterOrder, Order
<1> HIDE DEF x
<1>2. Added({c}, [d \in {c} |-> x])
  BY <1>1, AddsOne DEF x
<1>3. /\ \A j \in Ids' \ Ids : Cmd(j)' = x /\ j[1] = c
      /\ <<c, Len(command[c]) + 1>> \in Ids' \ Ids
  BY <1>2 DEF Added
<1> QED
  BY <1>1, <1>3 DEF MasterClosing

\* A share that is not nothing is a share of something that has gone.
LEMMA PartHasGone ==
    ASSUME Typed, EventsAddUp, BookBehind, events[Master] # <<>>,
           NEW c \in Clients, pair[c].mlots > 0, Share(c, Head(events[Master])) > 0
    PROVE  lots[Master] < Lots
<1> DEFINE e == Head(events[Master])
<1>1. /\ e \in EventType /\ e = events[Master][1] /\ 1 \in DOMAIN events[Master]
      /\ Master \in Legs
  BY HeadOfEvents DEF Legs
<1>2. /\ e.after \in 0 .. Lots /\ e.lots \in 0 .. Lots /\ lots[Master] \in 0 .. Lots
      /\ pair[c].mlots \in 0 .. Lots /\ pair[c].clots \in 0 .. Lots /\ Lots \in Nat
  BY <1>1, CloseAssumption DEF Typed, EventType, PairType, Volumes
<1>3. lots[Master] <= e.after
  BY <1>1, <1>2 DEF EventsAddUp, Chained
<1>4. e.after + e.lots <= pair[c].mlots
  BY <1>1, <1>2 DEF BookBehind, Before
<1>5. (pair[c].clots * e.lots) \div pair[c].mlots > 0
  BY DEF Share
<1>6. e.lots # 0
  <2>1. ASSUME NEW x \in Nat, NEW m \in Nat, m > 0 PROVE x * 0 = 0 /\ 0 \div m = 0
    BY <2>1
  <2> HIDE DEF e
  <2> SUFFICES ASSUME e.lots = 0 PROVE FALSE
    OBVIOUS
  <2>2. pair[c].clots \in Nat /\ pair[c].mlots \in Nat
    BY <1>2
  <2> QED
    BY <1>5, <2>1, <2>2
<1> HIDE DEF e
<1> QED
  BY <1>2, <1>3, <1>4, <1>6

LEMMA Reasons ==
    ASSUME Stepped, WishesHaveCause, NEW j \in Ids' \ Ids PROVE Reason(j)
<1>0. /\ Typed /\ EventsAddUp /\ BookBehind /\ MasterGone /\ KnownIsBound /\ [Next]_vars
      /\ pair \in [Clients -> PairType] /\ Master \notin Clients
  BY CloseAssumption DEF Stepped, IInv, Typed
<1>1. ~(UNCHANGED command)
  BY <1>0, NoneSent
<1>2. ASSUME NEW id \in Ids, Agent(id) \/ HearAnswer(id) \/ Timeout(id) \/ CancelExpired(id)
      PROVE  Reason(j)
  <2>1. AckFallBack(id)
    BY <1>0, <1>2, NoneSent
  <2>2. /\ Cmd(j)' = Order(Cmd(id).leg, "EA", Cmd(id).kind, Cmd(id).lots, Cmd(id).source)
        /\ j[1] = id[1]
    BY <1>0, <2>1, FallBackOrders
  <2>3. /\ Cmd(j)'.leg = Cmd(id).leg /\ Cmd(j)'.kind = Cmd(id).kind
        /\ Cmd(j)'.source = Cmd(id).source
    BY <2>2 DEF Order
  <2> QED
    BY <2>1, <2>2, <2>3 DEF Reason
<1>3. ASSUME NEW S \in SUBSET Clients, NEW book, NEW source \in {"MASTER", "CLIENT"},
             CloseFully(book, S, source), lots[Master] = 0,
             Follows(source) \/ \A c \in S : <<c, source>> \in WishesDue
      PROVE  Reason(j)
  <2>1. /\ j[1] \in S /\ j[1] \in Clients /\ Cmd(j)'.leg = j[1] /\ Cmd(j)'.kind = "CLOSE"
        /\ Cmd(j)'.source = source
    BY <1>0, <1>3, FullClosesSent
  <2> QED
    BY <1>0, <1>3, <2>1 DEF Reason
<1>4. ASSUME events[Master] # <<>>, RouteMaster(Head(events[Master])) PROVE Reason(j)
  <2> DEFINE e == Head(events[Master])
  <2>1. CASE HearMasterIgnored(e)
    BY <1>1, <2>1 DEF HearMasterIgnored
  <2>2. CASE HearMasterClosed(e)
    <3>1. lots[Master] = 0 /\ Follows("MASTER") /\ CloseFully(pair, {c \in Clients : Alive(c)}, "MASTER")
      BY <1>0, <1>4, <2>2, NothingLeft DEF HearMasterClosed, Legs, Follows
    <3> QED
      BY <3>1, <1>3
  <2>3. CASE HearMasterPartial(e)
    <3>1. /\ Cmd(j)'.leg = j[1] /\ Cmd(j)'.kind = "PARTIAL" /\ Cmd(j)'.source = "MASTER"
          /\ Sending /\ SyncAllowed
          /\ pair[j[1]].mlots > 0 /\ Share(j[1], e) > 0
      BY <1>0, <1>4, <2>3, PartialsSent DEF HearMasterPartial
    <3>2. j[1] \in Clients
      BY <3>1 DEF Sending, Fresh
    <3>3. lots[Master] < Lots
      BY <1>0, <1>4, <3>1, <3>2, PartHasGone
    <3> QED
      BY <1>0, <3>1, <3>2, <3>3 DEF Reason
  <2> QED
    BY <1>4, <2>1, <2>2, <2>3 DEF RouteMaster
<1>5. ASSUME NEW c \in Clients, events[c] # <<>>, RouteClient(c, Head(events[c])) PROVE Reason(j)
  <2> DEFINE e == Head(events[c])
  <2>1. CASE HearOpened(c, e)
    <3>1. PICK book : CloseFully(book, Deferred(c), pair[c].wanted)
      BY <2>1 DEF HearOpened, Deferred
    <3>2. /\ Deferred(c) \in SUBSET Clients
          /\ Deferred(c) = {} \/ (pair[c].wanted # None /\ pair[c].wanted \in {"MASTER", "CLIENT"})
      BY <1>0 DEF Deferred, PairType
    <3>3. j[1] \in Deferred(c)
      BY <1>0, <3>1, <3>2, FullClosesSent
    <3>4. pair[c].wanted # None /\ pair[c].wanted \in {"MASTER", "CLIENT"} /\ lots[Master] = 0
      BY <3>2, <3>3 DEF WishesHaveCause
    <3>5. \A d \in Deferred(c) : <<d, pair[c].wanted>> \in WishesDue
      BY <1>0, <3>4 DEF Deferred, WishesDue, KnownIsBound
    <3> QED
      BY <1>3, <3>1, <3>2, <3>4, <3>5
  <2>2. CASE HearClientIgnored(c, e) \/ HearOwnClose(c, e) \/ HearClientPartial(c, e) \/ HearClientKept(c, e)
    BY <1>1, <2>2 DEF HearClientIgnored, HearOwnClose, HearClientPartial, HearClientKept
  <2>3. CASE HearCascade(c, e)
    <3>1. /\ command' = [command EXCEPT ![c] = Append(@, MasterOrder("CLIENT"))]
          /\ waiting' = waiting \cup {<<c, Len(command[c]) + 1>>} /\ SyncAllowed
          /\ c \in MayCloseMaster
      BY <1>1, <2>3 DEF HearCascade, ByHand
    <3>2. Cmd(j)'.leg = Master /\ Cmd(j)'.source = "CLIENT" /\ j[1] = c
      BY <1>0, <3>1, MasterSent
    <3> QED
      BY <3>1, <3>2 DEF Reason
  <2> QED
    BY <1>5, <2>1, <2>2, <2>3 DEF RouteClient
<1>6. ASSUME NEW id \in waiting, CascadeOn(id) \/ CascadeGiveUp(id) PROVE Reason(j)
  <2>1. CascadeOn(id)
    BY <1>1, <1>6 DEF CascadeGiveUp
  <2>2. PICK S \in SUBSET Clients : CloseFully(pair, S, "CLIENT")
    BY <2>1 DEF CascadeOn
  <2>3. lots[Master] = 0 /\ Follows("CLIENT")
    BY <1>0, <1>6, <2>1 DEF CascadeOn, MasterGone, Follows
  <2> QED
    BY <1>3, <2>2, <2>3
<1>7. CASE EmergencyClients
  <2> DEFINE live == {c \in Clients : Alive(c)}
             able == {c \in live : pair[c].known /\ ~Busy(c)}
  <2>1. /\ able \in SUBSET Clients /\ able \subseteq live
        /\ command' = [c \in Clients |-> IF c \in able THEN Sent(c, "CLOSE", 0, "BOT") ELSE command[c]]
        /\ {c \in able : Via(c) = "none"} \subseteq told'
        /\ mode = "EMERGENCY" /\ (live # {} => emergency'.phase = "waiting")
    BY <1>7 DEF EmergencyClients
  <2> HIDE DEF live, able
  <2>2. j[1] \in able /\ Cmd(j)'.leg = j[1] /\ Cmd(j)'.kind = "CLOSE" /\ Cmd(j)'.source = "BOT"
    BY <1>0, <2>1, ClosesSent
  <2> QED
    BY <1>0, <2>1, <2>2 DEF Reason
<1>8. CASE EmergencyMaster
  <2>1. PICK c \in emergency.pairs : command' = [command EXCEPT ![c] = Append(@, MasterOrder("BOT"))]
    BY <1>1, <1>8 DEF EmergencyMaster
  <2>2. c \in Clients /\ emergency.phase = "waiting"
    BY <1>0, <1>8, <2>1 DEF Typed, EmergencyMaster
  <2>3. Cmd(j)'.leg = Master /\ Cmd(j)'.source = "BOT"
    BY <1>0, <2>1, <2>2, MasterSent
  <2> QED
    BY <2>2, <2>3 DEF Reason
<1>9. \/ UNCHANGED vars \/ SetMode \/ Rearm \/ BridgeCrash
      \/ \E l \in Legs, n \in 1 .. Lots : HandClose(l, n)
      \/ \E l \in Clickered : ClickerStatus(l)
      => UNCHANGED command
  BY DEF vars, tables, SetMode, Rearm, BridgeCrash, ClickerStatus, HandClose
<1> QED
  BY <1>0, <1>1, <1>2, <1>4, <1>5, <1>6, <1>7, <1>8, <1>9 DEF Next

LEMMA WishesStep ==
    ASSUME Stepped, WishesHaveCause, \A c \in Clients : RowMoves(c) PROVE WishesHaveCause'
  BY MasterGoneForGood DEF RowMoves, WishMoves, WishesHaveCause

-----------------------------------------------------------------------------
(* A close that has been ordered.                                            *)

\* An order to close that is settled has found the position gone, a person is
\* told of it, or another has taken its place.
LEMMA CloseSettles ==
    ASSUME Stepped, NEW l \in Legs, NEW id \in Ids, FullClose(id, l), Cmd(id).status = "SENT"
    PROVE  \/ lots[l] = 0 \/ l \in told'
           \/ \E j \in Ids' : FullClose(j, l)' /\ Cmd(j)'.status = "SENT"
<1>0. /\ Typed /\ OrderOK(id, Cmd(id)) /\ Settling(id) /\ SameTask(id)
      /\ Cmd(id).leg = l /\ Cmd(id).kind = "CLOSE"
  BY DEF Stepped, IInv, OrdersOK, FullClose
<1>1. CASE Cmd(id)'.status = "SENT"
  BY <1>0, <1>1 DEF SameTask, FullClose
<1>2. CASE AckMaster(id) \/ AckClosed(id)
  BY <1>0, <1>2 DEF AckMaster, AckClosed, Done, OrderOK
<1>3. CASE AckPartial(id) \/ AckOpen(id)
  BY <1>0, <1>3 DEF AckPartial, AckOpen, Closes
<1>4. CASE AckUnknown(id) \/ AckFailed(id) \/ Timeout(id) \/ CancelExpired(id)
  BY <1>0, <1>4 DEF AckUnknown, AckFailed, Timeout, CancelExpired
<1>5. CASE AckFallBack(id)
  <2>1. PICK j \in Ids' : Cmd(j)' = Order(Cmd(id).leg, "EA", Cmd(id).kind, Cmd(id).lots, Cmd(id).source)
    BY <1>0, <1>5, FallBackReplaces DEF Replaced
  <2> QED
    BY <1>0, <2>1 DEF Order, FullClose
<1> QED
  BY <1>0, <1>1, <1>2, <1>3, <1>4, <1>5 DEF Settling, HearAnswer

LEMMA DealtStays ==
    ASSUME Stepped, NEW c \in Clients, Dealt(c) PROVE Dealt(c)' \/ Warned(c)'
<1>1. CASE Gone(c)
  BY <1>1, GoneForGood DEF Dealt
<1>2. CASE OrderedClosed(c)
  <2>1. PICK id \in Ids : FullClose(id, c) /\ Cmd(id).status = "SENT"
    BY <1>2 DEF OrderedClosed
  <2>2. lots[c] = 0 => Gone(c)
    <3>1. pair[c].known
      BY <2>1, Ordered, CloseAssumption DEF FullClose, Stepped, IInv, OrdersOK, OrderOK
    <3> QED
      BY <3>1, OpenedOnce DEF Gone, Stepped
  <2> QED
    BY <2>1, <2>2, CloseSettles, GoneForGood DEF Dealt, OrderedClosed, Warned, Legs
<1> QED
  BY <1>1, <1>2 DEF Dealt

LEMMA EndingStays == ASSUME Stepped, Ending, Smooth' PROVE Ending' \/ Master \in told'
<1>1. CASE lots[Master] = 0
  BY <1>1, MasterGoneForGood DEF Ending
<1>2. CASE MasterClosing
  <2>1. PICK id \in Ids : Cmd(id).leg = Master /\ Cmd(id).status = "SENT"
    BY <1>2 DEF MasterClosing
  <2>2. Cmd(id).kind = "CLOSE"
    BY <2>1 DEF Stepped, IInv, OrdersOK, OrderOK
  <2> QED
    BY <1>1, <2>1, <2>2, CloseSettles DEF FullClose, Ending, MasterClosing, Legs
<1>3. CASE emergency.phase = "waiting" /\ ~MasterClosing /\ lots[Master] # 0
  <2>1. CASE UNCHANGED emergency
    BY <1>3, <2>1 DEF Ending
  <2>2. CASE Rearm \/ EmergencyClients
    BY <1>3, <2>2 DEF Rearm, EmergencyClients
  <2>3. CASE BridgeCrash
    BY <2>3, SmoothCounts DEF BridgeCrash, Stepped
  <2>4. CASE EmergencyMaster
    <3>1. mbook # "CLOSED"
      BY <1>3 DEF Stepped, IInv, MasterGone
    <3>2. PICK c \in emergency.pairs : command' = [command EXCEPT ![c] = Append(@, MasterOrder("BOT"))]
      BY <1>3, <2>4, <3>1 DEF EmergencyMaster
    <3>3. c \in Clients /\ Typed
      BY <3>2 DEF Stepped, Typed
    <3> QED
      BY <3>2, <3>3, MasterSent DEF Ending
  <2> QED
    BY <2>1, <2>2, <2>3, <2>4 DEF Stepped, Memorises
<1> QED
  BY <1>1, <1>2, <1>3 DEF Ending

-----------------------------------------------------------------------------
(* Copies that were refused, and closes by hand.                             *)

LEMMA AmongNone ==
    ASSUME NEW q \in Seq(EventType), Among(q) = {} PROVE q = <<>>
<1> SUFFICES ASSUME q # <<>> PROVE FALSE
  OBVIOUS
<1>1. 1 \in DOMAIN q
  OBVIOUS
<1> QED
  BY <1>1 DEF Among

\* A pair has one order to open its copy.
LEMMA OneOpening ==
    ASSUME Typed, Unopened, NEW i \in Ids, NEW j \in Ids, ~Closes(i), ~Closes(j), i[1] = j[1] PROVE i = j
<1>1. i[2] = 1 /\ j[2] = 1 /\ i = <<i[1], i[2]>> /\ j = <<j[1], j[2]>>
  BY Ordered DEF Unopened
<1> QED
  BY <1>1

LEMMA OpenAnswered ==
    ASSUME Stepped, NEW id \in Ids, ~Closes(id), HearAnswer(id), Cmd(id).answer # "ok"
    PROVE  LET c == id[1]
           IN  /\ pair'[c].known = pair[c].known
               /\ pair[c].status = "PENDING_OPEN" => pair'[c].status = "OPEN_FAILED"
<1>1. AckOpen(id)
  BY DEF HearAnswer, AckMaster, AckClosed, AckPartial, AckUnknown, AckFailed, AckFallBack, Done
<1>2. id[1] \in Clients /\ pair \in [Clients -> PairType] /\ pair[id[1]] \in PairType
  BY Ordered DEF Stepped, Typed
<1>3. pair' = pair \/ (pair[id[1]].status = "PENDING_OPEN" /\ pair' = [pair EXCEPT ![id[1]].status = "OPEN_FAILED"])
  BY <1>1 DEF AckOpen
<1>4. pair[id[1]].status = "PENDING_OPEN" => pair' = [pair EXCEPT ![id[1]].status = "OPEN_FAILED"]
  BY <1>1 DEF AckOpen
<1>5. PICK p : p = [pair[id[1]] EXCEPT !.status = "OPEN_FAILED"]
  OBVIOUS
<1>6. p.known = pair[id[1]].known /\ p.status = "OPEN_FAILED"
  BY ONLY <1>2, <1>5 DEF PairType
<1>7. pair'[id[1]] = pair[id[1]] \/ pair'[id[1]] = p
  BY <1>2, <1>3, <1>5
<1>8. pair[id[1]].status = "PENDING_OPEN" => pair'[id[1]] = p
  BY <1>2, <1>4, <1>5
<1> QED
  BY <1>6, <1>7, <1>8

LEMMA RefusedStep ==
    ASSUME Stepped, Rows, Refused, \A c \in Clients : RowMoves(c) PROVE Refused'
<1> SUFFICES ASSUME NEW id \in Ids', ~Closes(id)', Cmd(id)'.answer # "ok"
             PROVE  /\ Cmd(id)'.status = "SENT" \/ Excused(id[1])'
                    /\ lots'[id[1]] = 0 /\ events'[id[1]] = <<>> /\ ~pair'[id[1]].known
  BY DEF Refused
<1> DEFINE c == id[1]
<1>1. id \in Ids /\ ~Closes(id) /\ Cmd(id).answer # "ok"
  <2>1. id \in Ids
    BY NewCloses DEF Stepped, Closes
  <2>2. SameTask(id) /\ Answering(id)
    BY <2>1 DEF Stepped
  <2> QED
    BY <2>1, <2>2 DEF SameTask, Answering, Closes
<1>2. /\ c \in Clients /\ c \in Legs /\ Typed /\ Unopened
      /\ Cmd(id).status = "SENT" \/ Excused(c)
      /\ lots[c] = 0 /\ events[c] = <<>> /\ ~pair[c].known
  BY <1>1, Ordered DEF Refused, Stepped, Legs
<1>3. ASSUME NEW j \in Ids, OpenCopy(j) PROVE j[1] # c
  <2>1. SUFFICES ASSUME j[1] = c PROVE FALSE
    OBVIOUS
  <2>2. j = id
    BY <1>1, <1>2, <1>3, <2>1, OneOpening DEF OpenCopy
  <2>3. Answer(id, "ok", Lots) /\ Lots \in Volumes
    BY <1>3, <2>2, CloseAssumption DEF OpenCopy, Volumes
  <2>4. Cmd(id)'.answer = "ok"
    BY <1>1, <1>2, <2>3, AnswerOrders DEF Answers
  <2> QED
    BY <2>4
<1>4. lots'[c] = 0
  BY <1>2, <1>3 DEF Stepped, LotsMove
<1>5. events'[c] = <<>>
  <2>1. Among(events[c]) = {}
    BY <1>2 DEF Among
  <2>2. \A e : ~NewEvent(c, e)
    BY <1>2, <1>3 DEF NewEvent, Fill
  <2>3. Among(events'[c]) = {}
    BY <1>2, <2>1, <2>2 DEF Stepped, Queues
  <2>4. events'[c] \in Seq(EventType)
    BY <1>2 DEF Stepped, Typed
  <2> QED
    BY <2>3, <2>4, AmongNone
<1>6. ~pair'[c].known
  <2>1. PairMoves(c) /\ ~Hearing(c)
    BY <1>2 DEF Stepped, Hearing
  <2>2. ASSUME NEW j \in Ids, j[1] = c, AckOpen(j) PROVE ~pair'[c].known
    <3>1. j = id
      BY <1>1, <1>2, <2>2, OneOpening DEF AckOpen
    <3> QED
      BY <1>1, <1>2, <2>2, <3>1, OpenAnswered DEF HearAnswer
  <2> QED
    BY <1>2, <2>1, <2>2 DEF PairMoves, Relabelled, Finished, Reported, Reduced, Named
<1>7. Cmd(id)'.status = "SENT" \/ Excused(c)'
  <2>1. Settling(id) /\ RowMoves(c) /\ (Excused(c) => Excused(c)')
    BY <1>1, <1>2, ExcusedStays DEF Stepped
  <2>2. CASE HearAnswer(id)
    <3>1. CASE pair[c].status = "PENDING_OPEN"
      BY <1>1, <2>2, <3>1, OpenAnswered DEF Excused
    <3>2. CASE pair[c].status # "PENDING_OPEN"
      BY <1>2, <2>1, <3>2 DEF Rows
    <3> QED
      BY <3>1, <3>2
  <2> QED
    BY <1>1, <1>2, <2>1, <2>2 DEF Settling, Timeout, CancelExpired
<1> QED
  BY <1>4, <1>5, <1>6, <1>7

LEMMA HandEventMoves ==
    ASSUME Stepped, NEW c \in Clients, HandEvent(c)
    PROVE  HandEvent(c)' \/ (Hearing(c) /\ Routes(c) /\ Head(events[c]).by = "hand")
  BY DEF HandEvent, Stepped, Queues, Legs

LEMMA MasterHandMoves ==
    ASSUME Stepped, MasterHand
    PROVE  \/ MasterHand'
           \/ /\ Hearing(Master) /\ Routes(Master)
              /\ Head(events[Master]).by = "hand" /\ Head(events[Master]).after = 0
  BY DEF MasterHand, Stepped, Queues, Legs

\* After a cascade the Master is ordered closed, by it or by an earlier order.
LEMMA CascadeOrders ==
    ASSUME Typed, NEW c \in Clients, NEW e, HearCascade(c, e) PROVE MasterClosing'
<1>1. CASE MasterClosing
  <2>1. UNCHANGED command
    BY <1>1 DEF HearCascade
  <2> QED
    BY <1>1, <2>1, Keeps DEF MasterClosing
<1>2. CASE ~MasterClosing
  BY <1>2, MasterSent DEF HearCascade
<1> QED
  BY <1>1, <1>2

\* A close of a Client by hand is heard.
LEMMA HandHeard ==
    ASSUME Stepped, NEW c \in Clients, Hearing(c), Routes(c), Head(events[c]).by = "hand"
    PROVE  Excused(c)' \/ MasterClosing'
<1> DEFINE e == Head(events[c])
<1>0. /\ c \in Legs /\ Typed /\ events[c] # <<>> /\ e.kind = "CLOSED" /\ RouteClient(c, e)
  <2>1. c \in Legs /\ Typed /\ events[c] # <<>> /\ EventsOK /\ c # Master
    BY CloseAssumption DEF Legs, Stepped, IInv, Hearing
  <2>2. e = events[c][1] /\ 1 \in DOMAIN events[c]
    BY <2>1, HeadOfEvents
  <2> QED
    BY <2>1, <2>2 DEF EventsOK, EventOK, Routes
<1>1. CASE HearOpened(c, e)
  BY <1>0, <1>1 DEF HearOpened
<1>2. CASE HearClientIgnored(c, e)
  BY <1>2 DEF HearClientIgnored, Unclaimed, Excused
<1>3. CASE HearOwnClose(c, e)
  BY <1>3 DEF HearOwnClose, Claimed, Excused
<1>4. CASE HearClientPartial(c, e) \/ HearClientKept(c, e)
  BY <1>4 DEF HearClientPartial, HearClientKept, Excused
<1>5. CASE HearCascade(c, e)
  BY <1>0, <1>5, CascadeOrders
<1> QED
  BY <1>0, <1>1, <1>2, <1>3, <1>4, <1>5 DEF RouteClient

-----------------------------------------------------------------------------
(* A close of all pairs leaves none out.                                     *)

LEMMA FullyClosedDeals ==
    ASSUME Stepped, NEW S \in SUBSET Clients, NEW source \in {"MASTER", "CLIENT"},
           CloseFully(pair, S, source), NEW c \in S
    PROVE  Dealt(c)' \/ Excused(c)'
<1>0. Typed /\ pair \in [Clients -> PairType] /\ pair[c] \in PairType /\ c \in Clients
  BY DEF Stepped, Typed
<1>1. CASE pair[c].known
  BY <1>0, <1>1, FullClosesSent DEF Dealt, Excused
<1>2. CASE ~pair[c].known
  <2>1. pair'[c] = [pair[c] EXCEPT !.wanted = source]
    BY <1>0, <1>2 DEF CloseFully
  <2>2. pair'[c].wanted = source
    BY ONLY <1>0, <2>1 DEF PairType
  <2> QED
    BY <2>2, CloseAssumption DEF Excused
<1> QED
  BY <1>1, <1>2

LEMMA NotAliveIsDealt ==
    ASSUME Stepped, Rows, NEW c \in Clients, RowMoves(c), ~Alive(c) PROVE Dealt(c)' \/ Excused(c)'
<1>1. CASE pair[c].status = "CLOSED"
  <2>1. Gone(c)
    BY <1>1, OpenedOnce DEF Gone, Stepped, IInv, ClosedIsFlat
  <2> QED
    BY <2>1, GoneForGood DEF Dealt
<1>2. CASE pair[c].status = "OPEN_FAILED"
  BY <1>2, ExcusedStays DEF Excused
<1> QED
  BY <1>1, <1>2 DEF Alive, Terminal

LEMMA EmergencyClientsDeal ==
    ASSUME Stepped, Rows, EmergencyClients, NEW c \in Clients, RowMoves(c)
    PROVE  Dealt(c)' \/ Excused(c)'
<1> DEFINE live == {d \in Clients : Alive(d)}
           able == {d \in live : pair[d].known /\ ~Busy(d)}
<1>1. /\ able \in SUBSET Clients
      /\ command' = [d \in Clients |-> IF d \in able THEN Sent(d, "CLOSE", 0, "BOT") ELSE command[d]]
      /\ {d \in able : Via(d) = "none"} \subseteq told'
      /\ live \ able \subseteq passedOver'
  BY DEF EmergencyClients
<1>2. CASE c \notin live
  BY <1>2, NotAliveIsDealt
<1>3. CASE c \in live \ able
  BY <1>1, <1>3 DEF Excused
<1>4. CASE c \in able
  <2>1. Typed
    BY DEF Stepped
  <2> HIDE DEF live, able
  <2>2. OrderedClosed(c)' \/ c \in told'
    BY <1>1, <1>4, <2>1, ClosesSent
  <2> QED
    BY <2>2 DEF Dealt, Excused
<1> QED
  BY <1>2, <1>3, <1>4

-----------------------------------------------------------------------------
(* The steps of the two halves: that the Clients follow the Master, and that *)
(* the Master follows them.                                                  *)

LEMMA ClosesWithMasterStep ==
    ASSUME Stepped, WishesHaveCause, ClosesWithMaster PROVE ClosesWithMaster'
<1> SUFFICES ASSUME Smooth', NEW id \in Ids', Cmd(id)'.leg # Master, Cmd(id)'.kind = "CLOSE"
             PROVE  Ending' \/ Master \in told'
  BY DEF ClosesWithMaster
<1>1. ASSUME NEW j \in Ids, Cmd(j).leg # Master, Cmd(j).kind = "CLOSE" PROVE Ending' \/ Master \in told'
  <2>1. Ending \/ Master \in told
    BY <1>1 DEF ClosesWithMaster, Stepped, Memorises
  <2> QED
    BY <2>1, EndingStays DEF Stepped, Grows
<1>2. CASE id \in Ids
  BY <1>1, <1>2 DEF Stepped, SameTask
<1>3. CASE id \notin Ids
  <2>1. Reason(id)
    BY <1>3, Reasons
  <2> QED
    BY <1>1, <2>1, MasterGoneForGood DEF Reason, Ending
<1> QED
  BY <1>2, <1>3

\* What the end of a Client by hand leads to.
LEMMA HandEventEnds ==
    ASSUME Stepped, NEW c \in Clients, HandEvent(c)
    PROVE  HandEvent(c)' \/ Excused(c)' \/ Ending'
  BY HandEventMoves, HandHeard DEF Ending

\* A part whose answer makes the pair CLOSED.
LEMMA LastPart ==
    ASSUME Stepped, Emptied, AnswersFirst, Rows, NEW c \in Clients, NEW id \in Ids, id[1] = c,
           AckPartial(id), pair[c].clots <= IF Cmd(id).via = "EA" THEN Cmd(id).lots ELSE 0,
           pair'[c].status = "CLOSED", ~Excused(c)
    PROVE  \/ pair[c].status = "CLOSED" \/ HandEvent(c)
           \/ \E j \in Ids : Cmd(j).leg # Master /\ Cmd(j).kind = "CLOSE"
<1>1. /\ Cmd(id).leg = c /\ Cmd(id).kind = "PARTIAL" /\ Cmd(id).answer \in {"ok", "already_closed"}
      /\ ~Cmd(id).heard /\ pair[c].known /\ Cmd(id).lots \in Nat /\ pair[c].clots \in Nat
      /\ UNCHANGED lots /\ c # Master
  <2>1. Cmd(id).lots \in Volumes /\ \A n \in Volumes : n \in Nat
    BY TakenTyped, CloseAssumption DEF Volumes, Stepped
  <2>2. Cmd(id).leg \in {c, Master} /\ OrderOK(id, Cmd(id)) /\ pair[c] \in PairType
    BY Ordered DEF Stepped, IInv, OrdersOK, Typed
  <2> QED
    BY <2>1, <2>2 DEF AckPartial, Done, Answered, OrderOK, PairType
<1>2. CASE pair[c].clots = 0
  BY <1>1, <1>2 DEF Rows
<1>3. CASE pair[c].clots # 0
  <2>1. Cmd(id).via = "EA" /\ Cmd(id).lots > 0
    BY <1>1, <1>3
  <2>2. Cmd(id).answer = "ok" /\ CarriedOut(id) /\ Unheard(id, c)
    BY <1>1, <2>1 DEF Emptied, CarriedOut, Unheard
  <2>3. lots[c] = 0
    BY <1>1 DEF Stepped, IInv, ClosedIsFlat
  <2>4. CASE c \in handClosed
    BY <2>2, <2>4 DEF AnswersFirst
  <2>5. CASE c \notin handClosed
    BY <1>1, <2>2, <2>3, <2>5 DEF Excused, EmptiedInPart
  <2> QED
    BY <2>4, <2>5
<1> QED
  BY <1>2, <1>3

LEMMA ClosedWithMasterStep ==
    ASSUME Stepped, Emptied, AnswersFirst, Rows, LastEvents, ClosesWithMaster, ClosedWithMaster,
           \A c \in Clients : RowMoves(c)
    PROVE  ClosedWithMaster'
<1> SUFFICES ASSUME Smooth', NEW c \in Clients, ~Excused(c)', pair'[c].status = "CLOSED"
             PROVE  Ending' \/ HandEvent(c)'
  BY DEF ClosedWithMaster
<1>0. /\ ~Excused(c) /\ Smooth /\ ClosedBy(c) /\ c \in Legs /\ c # Master
      /\ Typed /\ Master \notin told'
  BY ExcusedStays, CloseAssumption DEF RowMoves, Stepped, Memorises, Excused, Legs
<1>1. ASSUME Ending \/ HandEvent(c) \/ Master \in told PROVE Ending' \/ HandEvent(c)'
  BY <1>0, <1>1, EndingStays, HandEventEnds DEF Stepped, Grows
<1>2. ASSUME NEW j \in Ids, Cmd(j).leg # Master, Cmd(j).kind = "CLOSE" PROVE Ending' \/ HandEvent(c)'
  BY <1>0, <1>1, <1>2 DEF ClosesWithMaster
<1>3. CASE pair[c].status = "CLOSED"
  BY <1>0, <1>1, <1>3 DEF ClosedWithMaster
<1>4. ASSUME NEW id \in Ids, AckClosed(id) PROVE Ending' \/ HandEvent(c)'
  BY <1>2, <1>4 DEF AckClosed
<1>5. ASSUME NEW id \in Ids, id[1] = c, AckPartial(id),
             pair[c].clots <= IF Cmd(id).via = "EA" THEN Cmd(id).lots ELSE 0
      PROVE  Ending' \/ HandEvent(c)'
  BY <1>0, <1>1, <1>2, <1>3, <1>5, LastPart
<1>6. CASE HearCascade(c, Head(events[c]))
  BY <1>0, <1>6, CascadeOrders DEF Ending
<1>7. ASSUME events[c] # <<>>, HearOwnClose(c, Head(events[c])), Head(events[c]).after = 0
      PROVE  Ending' \/ HandEvent(c)'
  <2> DEFINE e == Head(events[c])
  <2>1. e \in Among(events[c]) /\ e.by \in {"bot", "hand"}
    BY <1>0, <1>7, HeadIsAmong DEF EventType
  <2>2. e.kind = "CLOSED" /\ e.by # "hand"
    BY <1>7 DEF HearOwnClose, Claimed, ClientClosed, Excused
  <2>3. EmptiedInPart(c) \/ \E id \in Ids : FullClose(id, c)
    BY <1>7, <2>1, <2>2 DEF LastEvents, LastOwn
  <2>4. ~EmptiedInPart(c)
    BY <1>0 DEF Excused
  <2> QED
    BY <1>0, <1>2, <2>3, <2>4 DEF FullClose
<1> QED
  BY <1>0, <1>3, <1>4, <1>5, <1>6, <1>7 DEF ClosedBy

LEMMA EmergencyDealsStep ==
    ASSUME Stepped, Rows, EmergencyDeals, \A c \in Clients : RowMoves(c) PROVE EmergencyDeals'
<1> SUFFICES ASSUME Smooth', NEW c \in Clients, ~Excused(c)', emergency'.phase # "off" PROVE Dealt(c)'
  BY DEF EmergencyDeals
<1>0. ~Excused(c) /\ Smooth /\ ~Warned(c)'
  BY ExcusedStays, WarnedExcuses DEF Stepped, Memorises
<1>1. CASE emergency.phase # "off"
  BY <1>0, <1>1, DealtStays DEF EmergencyDeals
<1>2. CASE emergency.phase = "off"
  <2>1. EmergencyClients
    BY <1>2 DEF Stepped, Memorises, Rearm, EmergencyMaster, BridgeCrash
  <2> QED
    BY <2>1, EmergencyClientsDeal
<1> QED
  BY <1>1, <1>2

\* What is under way when the Master's leg ends does not just cease.
LEMMA MasterHandEnds ==
    ASSUME Stepped, Rows, MasterHand, NEW c \in Clients, RowMoves(c), ~Excused(c)'
    PROVE  MasterHand' \/ Dealt(c)'
<1> DEFINE e == Head(events[Master])
<1>1. CASE MasterHand'
  BY <1>1
<1>2. CASE Hearing(Master) /\ Routes(Master) /\ e.by = "hand" /\ e.after = 0
  <2>0. RouteMaster(e)
    BY <1>2 DEF Routes
  <2>1. CASE HearMasterIgnored(e)
    <3>1. Master \in unfollowed'
      BY <1>2, <2>1 DEF HearMasterIgnored, Claimed, Unclaimed
    <3> QED
      BY <3>1 DEF Excused
  <2>2. CASE HearMasterClosed(e)
    <3>1. PICK S \in SUBSET Clients : S = {d \in Clients : Alive(d)} /\ CloseFully(pair, S, "MASTER")
      BY <2>2 DEF HearMasterClosed
    <3> QED
      BY <3>1, FullyClosedDeals, NotAliveIsDealt
  <2>3. CASE HearMasterPartial(e)
    <3>1. e.after > 0
      BY <2>3 DEF HearMasterPartial
    <3> QED
      BY <1>2, <3>1
  <2> QED
    BY <2>0, <2>1, <2>2, <2>3 DEF RouteMaster
<1> QED
  BY <1>1, <1>2, MasterHandMoves

LEMMA WaitingEnds ==
    ASSUME Stepped, Emptied, Rows, waiting # {}, NEW c \in Clients, RowMoves(c), ~Excused(c)', Smooth'
    PROVE  waiting' # {} \/ Dealt(c)'
<1>1. ASSUME NEW id \in waiting, CascadeOn(id) PROVE Dealt(c)'
  <2>1. PICK S \in SUBSET Clients : /\ S = {d \in Clients \ {id[1]} : Alive(d)}
                                    /\ CloseFully(pair, S, "CLIENT")
    BY <1>1 DEF CascadeOn
  <2>2. CASE c = id[1]
    BY <1>1, <2>2, GoneForGood DEF Emptied, Dealt
  <2>3. CASE c # id[1]
    BY <2>1, <2>3, FullyClosedDeals, NotAliveIsDealt
  <2> QED
    BY <2>2, <2>3
<1>2. ASSUME NEW id \in waiting, CascadeGiveUp(id) PROVE FALSE
  BY <1>2 DEF CascadeGiveUp, Excused
<1>3. ASSUME NEW d \in Clients, HearCascade(d, Head(events[d])) PROVE waiting' # {}
  BY <1>3 DEF HearCascade
<1>4. ~BridgeCrash
  BY SmoothCounts DEF BridgeCrash, Stepped
<1> QED
  BY <1>1, <1>2, <1>3, <1>4 DEF Stepped, Memorises

LEMMA ClientFollowsStep ==
    ASSUME Stepped, Emptied, Rows, WishesHaveCause, EmergencyDeals, ClientFollows,
           \A c \in Clients : RowMoves(c)
    PROVE  ClientFollows'
<1> SUFFICES ASSUME Smooth', NEW c \in Clients, ~Excused(c)', lots'[Master] = 0 \/ MasterOrdered'
             PROVE  Dealt(c)' \/ MasterHand' \/ waiting' # {}
  BY DEF ClientFollows
<1>0. ~Excused(c) /\ Smooth /\ ~Warned(c)' /\ Master \in Legs /\ RowMoves(c)
  BY ExcusedStays, WarnedExcuses DEF Stepped, Memorises, Legs
<1>1. CASE lots[Master] = 0 \/ MasterOrdered
  <2>1. Dealt(c) \/ MasterHand \/ waiting # {}
    BY <1>0, <1>1 DEF ClientFollows
  <2>2. Dealt(c) => Dealt(c)'
    BY <1>0, DealtStays
  <2> QED
    BY <1>0, <2>1, <2>2, MasterHandEnds, WaitingEnds
<1>2. CASE lots[Master] # 0 /\ ~MasterOrdered /\ lots'[Master] = 0
  <2>1. ASSUME NEW n \in 1 .. lots[Master], HandClose(Master, n), lots'[Master] = lots[Master] - n
        PROVE  MasterHand'
    BY <1>0, <1>2, <2>1, HandDeals DEF MasterHand, Stepped
  <2>2. \A id \in Ids : ~(Fill(id) /\ Cmd(id).leg = Master)
    BY <1>2 DEF MasterOrdered
  <2>3. \A id \in Ids : id[1] # Master
    BY Ordered, CloseAssumption DEF Stepped
  <2> QED
    BY <1>0, <1>2, <2>1, <2>2, <2>3 DEF Stepped, LotsMove
<1>3. CASE ~MasterOrdered /\ MasterOrdered'
  <2>1. PICK j \in Ids' : Cmd(j)'.leg = Master
    BY <1>3 DEF MasterOrdered
  <2>2. j \notin Ids
    BY <1>3, <2>1 DEF MasterOrdered, Stepped, SameTask
  <2>3. Reason(j)
    BY <2>2, Reasons
  <2>4. waiting' # {} \/ emergency.phase = "waiting"
    BY <1>3, <2>1, <2>3 DEF Reason, MasterOrdered
  <2>5. emergency.phase = "waiting" => Dealt(c)
    BY <1>0 DEF EmergencyDeals
  <2> QED
    BY <1>0, <2>4, <2>5, DealtStays
<1> QED
  BY <1>1, <1>2, <1>3

LEMMA MasterFollowsStep ==
    ASSUME Stepped, Emptied, Rows, ClosedWithMaster, MasterFollows, ClosesWithMaster',
           \A c \in Clients : RowMoves(c)
    PROVE  MasterFollows'
<1> SUFFICES ASSUME Smooth', NEW c \in Clients, ~Excused(c)', lots'[c] = 0, Born(c)'
             PROVE  Ending' \/ HandEvent(c)'
  BY DEF MasterFollows
<1>0. ~Excused(c) /\ Smooth /\ Master \notin told' /\ c \in Legs /\ Typed /\ RowMoves(c) /\ c # Master
  BY ExcusedStays, CloseAssumption DEF Stepped, Memorises, Legs, Excused
<1>1. ASSUME Ending \/ HandEvent(c) PROVE Ending' \/ HandEvent(c)'
  BY <1>0, <1>1, EndingStays, HandEventEnds
<1>2. CASE lots[c] = 0 /\ Born(c)
  <2>1. Ending \/ HandEvent(c)
    BY <1>0, <1>2 DEF MasterFollows
  <2> QED
    BY <1>1, <2>1
<1>3. CASE lots[c] # 0
  <2>1. ASSUME NEW n \in 1 .. lots[c], HandClose(c, n) PROVE HandEvent(c)'
    BY <1>0, <2>1, HandDeals DEF HandEvent
  <2>2. ASSUME NEW id \in Ids, Fill(id), Cmd(id).leg = c PROVE Ending'
    <3>1. ~EmptiedInPart(c)'
      BY DEF Excused
    <3>2. PICK j \in Ids' : FullClose(j, c)'
      BY <2>2, <3>1, FillEmpties
    <3> QED
      BY <1>0, <3>2 DEF FullClose, ClosesWithMaster
  <2> QED
    BY <1>0, <1>3, <2>1, <2>2, CloseAssumption DEF Stepped, LotsMove
<1>4. CASE lots[c] = 0 /\ ~Born(c)
  <2>1. PICK id \in Ids : id[1] = c /\ ~Closes(id) /\ Cmd(id).answer # "ok"
    BY <1>4 DEF Born
  <2>2. Answering(id) /\ SameTask(id)
    BY DEF Stepped
  <2>3. Cmd(id)'.answer = "ok"
    BY <2>1, <2>2 DEF Born, SameTask, Closes
  <2>4. OpenCopy(id)
    BY <2>1, <2>2, <2>3 DEF Answering
  <2>5. lots' = [lots EXCEPT ![c] = Lots] /\ lots \in [Legs -> Volumes]
    BY <1>0, <2>1, <2>4, OpenCopyFlow DEF Stepped, Typed
  <2> QED
    BY <1>0, <2>5, CloseAssumption
<1> QED
  BY <1>2, <1>3, <1>4

LEMMA HedgeStep == IInv /\ HInv /\ [Next]_vars => HInv'
<1> SUFFICES ASSUME IInv, HInv, [Next]_vars PROVE HInv'
  OBVIOUS
<1> USE DEF HInv
<1>1. Stepped
  BY AllStepped
<1>2. \A c \in Clients : RowMoves(c)
  BY <1>1, RowStep
<1>3. WishesHaveCause'
  BY <1>1, <1>2, WishesStep
<1>4. Emptied' /\ AnswersFirst' /\ LastEvents'
  BY <1>1, EmptiedStep, AnswersFirstStep, LastEventsStep
<1>5. Refused' /\ Rows'
  BY <1>1, <1>2, RefusedStep, RowsStep
<1>6. ClosesWithMaster'
  BY <1>1, ClosesWithMasterStep
<1>7. ClosedWithMaster'
  BY <1>1, <1>2, ClosedWithMasterStep
<1>8. ClientFollows' /\ EmergencyDeals'
  BY <1>1, <1>2, ClientFollowsStep, EmergencyDealsStep
<1>9. MasterFollows'
  BY <1>1, <1>2, <1>6, MasterFollowsStep
<1> QED
  BY <1>3, <1>4, <1>5, <1>6, <1>7, <1>8, <1>9

LEMMA HedgeInit == Init => HInv
<1> SUFFICES ASSUME Init PROVE HInv
  OBVIOUS
<1>1. /\ emergency.phase = "off" /\ waiting = {} /\ handClosed = {}
      /\ lots[Master] = Lots /\ Lots # 0 /\ \A l \in Legs : events[l] = <<>>
  <2>1. emergency = [phase |-> "off", pairs |-> {}] /\ waiting = {} /\ handClosed = {}
    BY DEF Init
  <2>2. lots[Master] = Lots /\ Lots # 0 /\ \A l \in Legs : events[l] = <<>>
    BY Beginning, CloseAssumption
  <2> QED
    BY <2>1, <2>2
<1>2. ASSUME NEW c \in Clients
      PROVE  /\ c # Master /\ c \in Legs /\ pair[c].wanted = None
             /\ pair[c].known => pair[c].status = "OPEN" /\ pair[c].clots = Lots /\ lots[c] = Lots
             /\ ~pair[c].known => /\ pair[c].status = "PENDING_OPEN" /\ lots[c] = 0
                                  /\ \E id \in Ids : id[1] = c
  <2>1. <<c, 1>>[1] = c
    OBVIOUS
  <2> QED
    BY <2>1, Beginning DEF Legs
<1>3. ASSUME NEW id \in Ids
      PROVE  /\ id[1] \in Clients /\ ~pair[id[1]].known /\ Cmd(id).leg = id[1]
             /\ Cmd(id).kind = "OPEN" /\ Cmd(id).status = "SENT" /\ Cmd(id).answer = "none"
  BY Beginning
<1>4. WishesHaveCause
  BY <1>2 DEF WishesHaveCause
<1>5. Emptied /\ AnswersFirst
  BY <1>1, <1>3 DEF Emptied, AnswersFirst
<1>6. LastEvents
  BY <1>1, <1>2 DEF LastEvents, Among
<1>7. Refused
  BY <1>1, <1>2, <1>3 DEF Refused
<1>8. Rows
  BY <1>1, <1>2 DEF Rows
<1>9. ClosesWithMaster /\ ClosedWithMaster
  BY <1>2, <1>3 DEF ClosesWithMaster, ClosedWithMaster
<1>10. ClientFollows /\ EmergencyDeals
  BY <1>1, <1>2, <1>3 DEF ClientFollows, EmergencyDeals, MasterOrdered
<1>11. MasterFollows
  BY <1>1, <1>2, <1>3 DEF MasterFollows, Born, Closes
<1> QED
  BY <1>4, <1>5, <1>6, <1>7, <1>8, <1>9, <1>10, <1>11 DEF HInv

LEMMA HedgeInvariance == Spec => [](IInv /\ HInv)
<1>1. Init => IInv /\ HInv
  BY InvInit, HedgeInit
<1>2. IInv /\ HInv /\ [Next]_vars => (IInv /\ HInv)'
  BY InvStep, HedgeStep
<1> QED
  BY <1>1, <1>2, PTL DEF Spec

\* For any number of Clients, routes, volumes, closes by hand, refusals, clicker
\* failures and switches of the mode: when all is quiet, and no event and no answer was late or lost and the
\* Bridge did not die, no leg is open alone of which nobody was told, but for the
\* cases Excused lists.
THEOREM NoSilentNakedLegCorrect == Spec => []NoSilentNakedLeg
<1>1. ASSUME IInv, HInv PROVE NoSilentNakedLeg
  <2> SUFFICES ASSUME Quiet, Smooth, NEW c \in Clients, Naked(c), ~Excused(c)
               PROVE  FALSE
    BY DEF NoSilentNakedLeg
  <2>1. /\ waiting = {} /\ emergency.phase # "waiting"
        /\ \A id \in Ids : Cmd(id).status # "SENT"
    BY DEF Quiet
  <2>2. ~MasterHand /\ ~HandEvent(c)
    BY DEF Quiet, MasterHand, HandEvent, Among, Legs
  <2>3. ~MasterClosing /\ ~OrderedClosed(c)
    BY <2>1 DEF MasterClosing, OrderedClosed
  <2>4. CASE lots[Master] = 0 /\ lots[c] # 0
    BY <1>1, <2>1, <2>2, <2>3, <2>4 DEF HInv, ClientFollows, Dealt, Gone
  <2>5. CASE lots[c] = 0 /\ lots[Master] # 0
    <3>1. Born(c)
      BY <1>1, <2>1 DEF HInv, Refused, Born
    <3> QED
      BY <1>1, <2>1, <2>2, <2>3, <2>5, <3>1 DEF HInv, MasterFollows, Ending
  <2> QED
    BY <2>4, <2>5 DEF Naked
<1> QED
  BY <1>1, HedgeInvariance, PTL

-----------------------------------------------------------------------------
(* CloseFlow implements Hedge: what is decided on has its cause, and what is  *)
(* carried out has been decided on. Of an order the cause is kept in its       *)
(* close_source, and positions only fall.                                      *)

Caused ==
    \A id \in Ids :
        /\ Closes(id) /\ Cmd(id).leg # Master /\ Cmd(id).source = "MASTER" => lots[Master] < Lots
        /\ Cmd(id).leg = Master => Cmd(id).source # "MASTER"

LEMMA MasterFalls == ASSUME Stepped PROVE lots'[Master] <= lots[Master]
<1>1. LotsMove(Master) /\ lots[Master] \in Nat /\ lots'[Master] \in Nat
  BY DEF Stepped, Legs
<1>2. ASSUME NEW id \in Ids, Fill(id), Cmd(id).leg = Master, lots'[Master] = lots[Master] - Taken(id)
      PROVE  lots'[Master] <= lots[Master]
  <2>1. Taken(id) \in 0 .. lots[Master]
    BY <1>2, TakenTyped DEF Stepped
  <2> QED
    BY <1>1, <1>2, <2>1
<1>3. \A id \in Ids : OpenCopy(id) => id[1] # Master
  BY OpenCopyFlow DEF Stepped
<1> QED
  BY <1>1, <1>2, <1>3 DEF LotsMove

LEMMA CausedStep == ASSUME Stepped, WishesHaveCause, Caused PROVE Caused'
<1>0. /\ lots'[Master] <= lots[Master] /\ lots[Master] \in Nat /\ lots'[Master] \in Nat
      /\ Lots \in Nat \ {0}
  BY MasterFalls, CloseAssumption DEF Stepped, Legs
<1>1. /\ lots[Master] < Lots => lots'[Master] < Lots
      /\ lots[Master] = 0 => lots'[Master] < Lots
  BY <1>0
<1> DEFINE Right(j) ==
             /\ Closes(j)' /\ Cmd(j)'.leg # Master /\ Cmd(j)'.source = "MASTER" => lots'[Master] < Lots
             /\ Cmd(j)'.leg = Master => Cmd(j)'.source # "MASTER"
<1>2. ASSUME NEW j \in Ids', NEW id \in Ids, Cmd(j)'.leg = Cmd(id).leg,
             Cmd(j)'.kind = Cmd(id).kind, Cmd(j)'.source = Cmd(id).source
      PROVE  Right(j)
  BY <1>1, <1>2 DEF Caused, Closes
<1>3. ASSUME NEW j \in Ids', j \in Ids PROVE Right(j)
  <2>1. SameTask(j)
    BY <1>3 DEF Stepped
  <2> QED
    BY <1>2, <1>3, <2>1 DEF SameTask
<1>4. ASSUME NEW j \in Ids', j \notin Ids PROVE Right(j)
  <2>1. Reason(j)
    BY <1>4, Reasons
  <2> QED
    BY <1>1, <1>2, <2>1 DEF Reason
<1> HIDE DEF Right
<1>5. \A j \in Ids' : Right(j)
  BY <1>3, <1>4
<1> QED
  BY <1>5 DEF Caused, Right

LEMMA CausedInvariance == Spec => [](IInv /\ HInv /\ Caused)
<1>1. Init => Caused
  <2>1. ASSUME Init, NEW id \in Ids PROVE Cmd(id).leg # Master /\ Cmd(id).kind = "OPEN"
    BY <2>1, Beginning, CloseAssumption
  <2> QED
    BY <2>1 DEF Caused, Closes
<1>2. IInv /\ HInv /\ Caused /\ [Next]_vars => Caused'
  BY AllStepped, CausedStep DEF HInv
<1> QED
  BY <1>1, <1>2, HedgeInvariance, PTL DEF Spec

\* The copies that may still open, and the count of what happened.
LEMMA OpeningKept ==
    ASSUME Ids \subseteq Ids', \A j \in Ids : SameAnswer(j) /\ Cmd(j)'.kind = Cmd(j).kind,
           \A j \in Ids' \ Ids : Cmd(j)'.kind # "OPEN"
    PROVE  UNCHANGED Opening
  BY DEF Opening, SameAnswer, Closes

LEMMA SendingKept == ASSUME Sending PROVE UNCHANGED Opening
  BY OpeningKept DEF Sending, Fresh, SameAnswer

LEMMA OpeningEnds ==
    ASSUME Typed, Unopened, NEW id \in Ids, NEW a \in Answers, NEW n \in Volumes, Answer(id, a, n)
    PROVE  /\ ~Closes(id) => id[1] \in Opening /\ Opening' = Opening \ {id[1]}
           /\ Closes(id) => UNCHANGED Opening
<1>1. /\ Cmd(id)'.answer = a /\ Cmd(id)'.kind = Cmd(id).kind
      /\ Cmd(id).answer = "none" /\ Ids' = Ids /\ a # "none"
      /\ \A j \in Ids : j # id => Cmd(j)' = Cmd(j)
  BY AnswerOrders DEF Answers
<1>2. id[1] \in Clients
  BY Ordered
<1>3. ASSUME NEW j \in Ids, j[1] = id[1], ~Closes(j), ~Closes(id) PROVE j = id
  BY <1>3, Ordered DEF Unopened
<1> QED
  BY <1>1, <1>2, <1>3 DEF Opening, Closes

LEMMA FaultCounts ==
    ASSUME Typed
    PROVE  /\ UNCHANGED faults => UNCHANGED <<faults.hand, faults.late>>
           /\ faults' = [faults EXCEPT !.hand = @ + 1] =>
                 faults'.hand = faults.hand + 1 /\ UNCHANGED faults.late
           /\ faults' = [faults EXCEPT !.switches = @ + 1] => UNCHANGED <<faults.hand, faults.late>>
           /\ GoesWrong("late") => UNCHANGED faults.hand /\ faults'.late > 0
           /\ GoesWrong("lost") => UNCHANGED <<faults.hand, faults.late>>
           /\ GoesWrong("failures") => UNCHANGED <<faults.hand, faults.late>>
           /\ GoesWrong("crashes") => UNCHANGED <<faults.hand, faults.late>>
<1>1. faults \in FaultsType
  BY DEF Typed
<1>2. /\ faults.late \in Nat
      /\ [faults EXCEPT !.hand = @ + 1].late = faults.late
      /\ [faults EXCEPT !.hand = @ + 1].hand = faults.hand + 1
      /\ [faults EXCEPT !.switches = @ + 1].late = faults.late
      /\ [faults EXCEPT !.switches = @ + 1].hand = faults.hand
      /\ [faults EXCEPT !.late = @ + 1].late = faults.late + 1
      /\ [faults EXCEPT !.late = @ + 1].hand = faults.hand
      /\ [faults EXCEPT !.lost = @ + 1].late = faults.late
      /\ [faults EXCEPT !.lost = @ + 1].hand = faults.hand
      /\ [faults EXCEPT !.failures = @ + 1].late = faults.late
      /\ [faults EXCEPT !.failures = @ + 1].hand = faults.hand
      /\ [faults EXCEPT !.crashes = @ + 1].late = faults.late
      /\ [faults EXCEPT !.crashes = @ + 1].hand = faults.hand
  BY ONLY <1>1 DEF FaultsType
<1>3. GoesWrong("late") => UNCHANGED faults.hand /\ faults'.late > 0
  <2>1. GoesWrong("late") => faults'.hand = faults.hand /\ faults'.late = faults.late + 1
    BY <1>2 DEF GoesWrong
  <2>2. faults.late + 1 > 0
    BY ONLY <1>2
  <2> QED
    BY <2>1, <2>2
<1> QED
  BY <1>2, <1>3 DEF GoesWrong

\* What may still happen is what might have happened before.
LEMMA UnsettledBefore == ASSUME Stepped, NEW id \in Ids, Unsettled(id)' PROVE Unsettled(id)
<1>0. Answering(id) /\ Settling(id) /\ SameTask(id)
  BY DEF Stepped
<1>1. Closes(id)
  BY <1>0 DEF SameTask, Closes, Unsettled
<1>2. CASE Cmd(id)'.answer = "none" /\ Cmd(id)'.status # "CANCELLED"
  <2>1. Cmd(id).answer = "none"
    BY <1>0, <1>2 DEF Answering
  <2>2. ~HearAnswer(id)
    BY <2>1 DEF HearAnswer, AckMaster, AckClosed, AckPartial, AckUnknown, AckFailed, AckFallBack,
           AckOpen, Answered, Done
  <2>3. Cmd(id).status # "CANCELLED"
    BY <1>0, <1>2, <2>2 DEF Settling, Timeout, CancelExpired
  <2> QED
    BY <1>1, <2>1, <2>3 DEF Unsettled
<1>3. CASE Cmd(id)'.answer = "rejected" /\ ~Cmd(id)'.heard
  <2>1. ~Cmd(id).heard
    BY <1>0, <1>3 DEF Settling
  <2> QED
    BY <1>0, <1>1, <1>3, <2>1 DEF Answering, Unsettled
<1> QED
  BY <1>2, <1>3 DEF Unsettled

\* A cascade begins for a cause: a person has closed the Client, or an event came late.
LEMMA CascadeHasCause ==
    ASSUME Stepped, NEW c \in Clients, events[c] # <<>>, HearCascade(c, Head(events[c]))
    PROVE  SyncAllowed /\ (handClosed \cap MayCloseMaster # {} \/ faults'.late > 0)
<1> DEFINE e == Head(events[c])
<1>1. /\ Typed /\ c \in Legs /\ e \in EventType /\ e = events[c][1] /\ 1 \in DOMAIN events[c]
      /\ EventOK(c, e)
  BY HeadOfEvents DEF Stepped, IInv, EventsOK, Legs
<1>2. /\ SyncAllowed /\ c \in MayCloseMaster /\ e.after = 0 /\ e.kind = "CLOSED" /\ e.cause = None
      /\ ClickerOrders(c) # {} /\ e.by = "bot" => GoesWrong("late")
  BY DEF HearCascade, ByHand, ClientClosed, Unclaimed
<1>3. e.by \in {"bot", "hand"}
  BY <1>1 DEF EventType
<1> HIDE DEF e
<1> QED
  BY <1>1, <1>2, <1>3, FaultCounts DEF EventOK

\* Of what the Bridge decides on in a step each has its cause, as Hedge has it.
LEMMA DueMoves ==
    ASSUME Stepped, WishesHaveCause, \A c \in Clients : RowMoves(c)
    PROVE  Due' \subseteq Due \cup H!Causes
<1>0. /\ Lots \in Nat \ {0} /\ (lots[Master] = 0 => lots[Master] < Lots) /\ Master \notin Clients
      /\ Legs = Clients \cup {Master} /\ Typed /\ (SyncAllowed <=> mode # "PAUSED")
  BY CloseAssumption DEF Stepped, Legs, SyncAllowed
<1>1. ASSUME NEW c \in Clients, SyncAllowed, lots[Master] < Lots PROVE <<c, "MASTER">> \in H!Causes
  BY <1>0, <1>1 DEF H!Causes
<1>2. ASSUME NEW l \in Legs, SyncAllowed, handClosed \cap MayCloseMaster # {} \/ faults'.late > 0
      PROVE  <<l, "CLIENT">> \in H!Causes
  BY <1>0, <1>2 DEF H!Causes, H!Legs
<1>3. ASSUME NEW l \in Legs, mode = "EMERGENCY" PROVE <<l, "BOT">> \in H!Causes
  BY <1>0, <1>3 DEF H!Causes, H!Legs
<1>4. ASSUME NEW c \in Clients, NEW source, Follows(source), lots[Master] = 0
      PROVE  <<c, source>> \in Due \cup H!Causes
  BY <1>0, <1>1, <1>4 DEF Follows, Due
<1>5. ASSUME NEW j \in Ids', Unsettled(j)' PROVE <<Cmd(j)'.leg, Cmd(j)'.source>> \in Due \cup H!Causes
  <2>1. ASSUME NEW id \in Ids, Unsettled(id), Cmd(j)'.leg = Cmd(id).leg, Cmd(j)'.source = Cmd(id).source
        PROVE  <<Cmd(j)'.leg, Cmd(j)'.source>> \in Due
    BY <2>1 DEF Due, OrdersDue
  <2>2. CASE j \in Ids
    <3>1. SameTask(j) /\ Unsettled(j)
      BY <1>5, <2>2, UnsettledBefore DEF Stepped
    <3> QED
      BY <2>1, <2>2, <3>1 DEF SameTask
  <2>3. CASE j \notin Ids
    <3>1. Reason(j)
      BY <2>3, Reasons
    <3>2. Cmd(j)'.leg \in {j[1], Master} /\ j[1] \in Clients /\ OrderOK(j, Cmd(j))'
      <4>1. Cmd(j)'.leg \in {j[1], Master}
        BY DEF Stepped, Typed
      <4>2. j[1] \in Clients
        BY DEF Ids
      <4> QED
        BY <4>1, <4>2 DEF Stepped, IInv, OrdersOK
    <3>3. CASE Cmd(j)'.leg # Master /\ ~\E id \in Ids : AckFallBack(id)
      <4>1. Cmd(j)'.leg \in Clients
        BY <3>2, <3>3
      <4>2. CASE <<Cmd(j)'.leg, Cmd(j)'.source>> \in WishesDue
        BY <4>2 DEF Due
      <4> QED
        BY <1>0, <1>1, <1>3, <1>4, <3>1, <3>3, <4>1, <4>2 DEF Reason
    <3>4. CASE Cmd(j)'.leg = Master /\ ~\E id \in Ids : AckFallBack(id)
      <4>1. CASE Cmd(j)'.source = "BOT" /\ emergency.phase = "waiting"
        BY <3>4, <4>1 DEF Due
      <4>2. CASE Cmd(j)'.source = "CLIENT" /\ j[1] \in MayCloseMaster /\ SyncAllowed
        <5>1. faults'.late = 0 => j[1] \in handClosed'
          BY <3>2, <3>4, <4>2 DEF OrderOK
        <5>2. UNCHANGED handClosed
          <6>1. ASSUME NEW l \in Legs, NEW n \in 1 .. Lots, HandClose(l, n) PROVE FALSE
            <7>1. UNCHANGED command
              BY <6>1 DEF HandClose, tables
            <7> QED
              BY <1>0, <2>3, <7>1, NoneSent
          <6> QED
            BY <6>1 DEF Stepped, Memorises
        <5>3. faults'.late = 0 \/ faults'.late > 0
          <6>1. faults' \in FaultsType
            BY DEF Stepped, Typed
          <6>2. faults'.late \in Nat
            BY <6>1 DEF FaultsType
          <6> QED
            BY <6>2
        <5> QED
          BY <1>0, <1>2, <3>4, <4>2, <5>1, <5>2, <5>3
      <4> QED
        BY <3>1, <3>4, <4>1, <4>2 DEF Reason
    <3>5. ASSUME NEW id \in Ids, AckFallBack(id) PROVE <<Cmd(j)'.leg, Cmd(j)'.source>> \in Due
      <4>1. Unsettled(id)
        BY <3>5 DEF AckFallBack, Answered, Unsettled
      <4>2. Cmd(j)' = Order(Cmd(id).leg, "EA", Cmd(id).kind, Cmd(id).lots, Cmd(id).source)
        BY <1>0, <2>3, <3>5, FallBackOrders
      <4> QED
        BY <2>1, <4>1, <4>2 DEF Order
    <3> QED
      BY <3>3, <3>4, <3>5
  <2> QED
    BY <2>2, <2>3
<1>6. ASSUME NEW c \in Clients, ~pair'[c].known, pair'[c].wanted # None
      PROVE  <<c, pair'[c].wanted>> \in Due \cup H!Causes
  <2>1. StatusMoves(c) /\ WishMoves(c)
    BY DEF RowMoves
  <2>2. ~pair[c].known
    BY <1>6, <2>1 DEF StatusMoves
  <2>3. CASE pair'[c].wanted = pair[c].wanted
    BY <1>6, <2>2, <2>3 DEF Due, WishesDue
  <2> QED
    BY <1>4, <2>1, <2>3 DEF WishMoves
<1>7. ASSUME waiting' # {}, NEW c \in Clients PROVE <<c, "CLIENT">> \in Due \cup H!Causes
  <2>1. CASE waiting # {}
    BY <2>1 DEF Due
  <2>2. CASE waiting = {}
    <3>1. PICK d \in Clients : events[d] # <<>> /\ HearCascade(d, Head(events[d]))
      BY <1>7, <2>2 DEF Stepped, Memorises, BridgeCrash
    <3> QED
      BY <1>0, <1>2, <3>1, CascadeHasCause
  <2> QED
    BY <2>1, <2>2
<1>8. ASSUME emergency'.phase = "waiting" PROVE <<Master, "BOT">> \in Due \cup H!Causes
  <2>1. CASE emergency.phase = "waiting"
    BY <2>1 DEF Due
  <2>2. CASE emergency.phase # "waiting"
    <3>1. emergency \in [phase : {"off", "waiting", "done"}, pairs : SUBSET Clients]
      BY <1>0 DEF Typed
    <3>3. ~Rearm
      <4>1. Rearm => emergency' = [emergency EXCEPT !.phase = "off"]
        BY DEF Rearm
      <4>2. [emergency EXCEPT !.phase = "off"].phase = "off"
        BY ONLY <3>1
      <4> QED
        BY <1>8, <4>1, <4>2
    <3>4. ~EmergencyMaster /\ ~BridgeCrash
      BY <1>8 DEF EmergencyMaster, BridgeCrash
    <3>2. EmergencyClients
      BY <1>8, <2>2, <3>3, <3>4 DEF Stepped, Memorises
    <3> QED
      BY <1>0, <1>3, <3>2 DEF EmergencyClients
  <2> QED
    BY <2>1, <2>2
<1>9. ASSUME NEW x \in Due' PROVE x \in Due \cup H!Causes
  <2>1. CASE x \in OrdersDue'
    BY <1>5, <2>1 DEF OrdersDue
  <2>2. CASE x \in WishesDue'
    BY <1>6, <2>2 DEF WishesDue
  <2>3. CASE waiting' # {} /\ x \in Clients \X {"CLIENT"}
    BY <1>7, <2>3
  <2>4. CASE emergency'.phase = "waiting" /\ x = <<Master, "BOT">>
    BY <1>8, <2>4
  <2> QED
    BY <1>9, <2>1, <2>2, <2>3, <2>4 DEF Due
<1> QED
  BY <1>9

\* A step after which no more may happen than before; one that leaves it alone.
LEMMA DueShrinks ==
    ASSUME Stepped, Ids' = Ids, UNCHANGED pair, waiting' \in {waiting, {}},
           emergency'.phase \in {emergency.phase, "off"}
    PROVE  Due' \subseteq Due
<1>1. OrdersDue' \subseteq OrdersDue
  <2>1. ASSUME NEW j \in Ids', Unsettled(j)' PROVE <<Cmd(j)'.leg, Cmd(j)'.source>> \in OrdersDue
    <3>1. j \in Ids /\ Unsettled(j) /\ SameTask(j)
      BY <2>1, UnsettledBefore DEF Stepped
    <3> QED
      BY <3>1 DEF OrdersDue, SameTask
  <2> QED
    BY <2>1 DEF OrdersDue
<1>2. WishesDue' = WishesDue
  BY DEF WishesDue
<1> QED
  BY <1>1, <1>2 DEF Due

LEMMA DueKept ==
    ASSUME Ids' = Ids, UNCHANGED <<pair, waiting, emergency>>,
           \A j \in Ids : Cmd(j)' = Cmd(j) \/ (~Closes(j) /\ ~Closes(j)')
    PROVE  UNCHANGED Due
<1>1. \A j \in Ids : Unsettled(j)' = Unsettled(j)
  BY DEF Unsettled, Closes
<1>2. \A j \in Ids : Unsettled(j) => Cmd(j)' = Cmd(j)
  BY DEF Unsettled
<1>3. OrdersDue' = OrdersDue
  BY <1>1, <1>2 DEF OrdersDue
<1>4. WishesDue' = WishesDue
  BY DEF WishesDue
<1> QED
  BY <1>3, <1>4 DEF Due

\* A step the user does not see, but for what is decided on, and for being told too late.
Unseen ==
    /\ UNCHANGED <<lots, Opening, handClosed, mode, faults.hand>>
    /\ UNCHANGED faults.late \/ faults'.late > 0

LEMMA UnseenIsAllowed ==
    ASSUME Stepped, WishesHaveCause, \A c \in Clients : RowMoves(c), Unseen PROVE H!Next
<1>1. Due' \in SUBSET (Due \cup H!Causes)
  BY DueMoves
<1>2. CASE (faults'.late > 0) = TRUE
  BY <1>1, <1>2 DEF Unseen, H!Decide, H!Next
<1>3. CASE UNCHANGED faults.late
  BY <1>1, <1>3 DEF Unseen, H!Decide, H!Next
<1> QED
  BY <1>2, <1>3 DEF Unseen

\* What the Bridge does on its own moves no position.
LEMMA BridgeUnseen ==
    ASSUME Stepped, NEW id \in Ids, HearAnswer(id) \/ Timeout(id) \/ CancelExpired(id) \/ LoseAnswer(id)
    PROVE  Unseen
<1>1. UNCHANGED Opening
  <2>1. \A j \in Ids : SameAnswer(j) /\ Cmd(j)'.kind = Cmd(j).kind /\ j \in Ids'
    BY AnswersKept DEF Stepped, SameTask
  <2>2. \A j \in Ids' \ Ids : Cmd(j)'.kind # "OPEN"
    BY NewCloses DEF Stepped
  <2> QED
    BY <2>1, <2>2, OpeningKept
<1>2. UNCHANGED <<lots, handClosed, mode>>
  BY DEF HearAnswer, Timeout, CancelExpired, LoseAnswer, AckMaster, AckClosed, AckPartial, AckUnknown,
     AckFailed, AckFallBack, AckOpen, Answered, history
<1>3. UNCHANGED <<faults.hand, faults.late>>
  <2>1. UNCHANGED faults \/ GoesWrong("failures") \/ GoesWrong("lost")
    BY DEF HearAnswer, Timeout, CancelExpired, LoseAnswer, AckMaster, AckClosed, AckPartial, AckUnknown,
       AckFailed, AckFallBack, AckOpen, Answered
  <2> QED
    BY <2>1, FaultCounts DEF Stepped
<1> QED
  BY <1>1, <1>2, <1>3 DEF Unseen

LEMMA EventUnseen ==
    ASSUME Stepped, NEW l \in Legs, Routes(l) PROVE Unseen
<1>0. Typed /\ EventsAddUp /\ BookBehind /\ MasterGone /\ EventsOK
  BY DEF Stepped, IInv
<1> DEFINE e == Head(events[l])
<1>1. /\ NextEvent(l, e)
      /\ \/ \E byClicker \in BOOLEAN : Claimed(l, e, byClicker)
         \/ Unclaimed(l, e)
         \/ UNCHANGED faults
  <2>1. CASE l = Master
    <3>1. RouteMaster(e)
      BY <2>1 DEF Routes
    <3> HIDE DEF e
    <3>2. HearMasterIgnored(e) =>
             /\ NextEvent(Master, e)
             /\ (\E byClicker \in BOOLEAN : Claimed(Master, e, byClicker)) \/ Unclaimed(Master, e)
      BY DEF HearMasterIgnored
    <3>3. HearMasterClosed(e) => NextEvent(Master, e) /\ Unclaimed(Master, e)
      BY DEF HearMasterClosed
    <3>4. HearMasterPartial(e) => NextEvent(Master, e) /\ Unclaimed(Master, e)
      BY Zenon DEF HearMasterPartial
    <3> QED
      BY <2>1, <3>1, <3>2, <3>3, <3>4 DEF RouteMaster
  <2>2. CASE l # Master
    <3>1. RouteClient(l, e)
      BY <2>2 DEF Routes
    <3>2. HearOpened(l, e) => NextEvent(l, e) /\ UNCHANGED faults
      BY DEF HearOpened
    <3>3. HearOwnClose(l, e) =>
             NextEvent(l, e) /\ \E byClicker \in BOOLEAN : Claimed(l, e, byClicker)
      BY DEF HearOwnClose, ClientClosed
    <3>4. \/ HearClientIgnored(l, e) \/ HearClientPartial(l, e)
          \/ HearClientKept(l, e) \/ HearCascade(l, e)
          => NextEvent(l, e) /\ Unclaimed(l, e)
      BY DEF HearClientIgnored, HearClientPartial, HearClientKept, HearCascade, ByHand, ClientClosed
    <3> QED
      BY <3>1, <3>2, <3>3, <3>4 DEF RouteClient
  <2> QED
    BY <2>1, <2>2
<1>2. Sending
  BY <1>0, MasterEventsSending, ClientEventsSending DEF Routes, RouteMaster, RouteClient, Legs
<1>3. UNCHANGED <<lots, handClosed, mode>>
  BY <1>1 DEF NextEvent
<1>4. UNCHANGED faults \/ GoesWrong("late")
  BY <1>1 DEF Claimed, Unclaimed
<1> QED
  BY <1>0, <1>2, <1>3, <1>4, SendingKept, FaultCounts DEF Unseen

LEMMA TaskUnseen ==
    ASSUME Stepped, (\E id \in waiting : CascadeOn(id) \/ CascadeGiveUp(id))
                    \/ EmergencyClients \/ EmergencyMaster \/ Rearm
                    \/ \E l \in Clickered : ClickerStatus(l)
    PROVE  Unseen
<1>1. UNCHANGED Opening
  <2>1. \A j \in Ids : SameTask(j)
    BY DEF Stepped
  <2>2. CASE Sending
    BY <2>2, SendingKept
  <2>3. CASE UNCHANGED command
    BY <2>3, KeepsSending, SendingKept DEF Stepped
  <2> QED
    BY <2>2, <2>3, TasksSending DEF Stepped, IInv, Rearm, ClickerStatus, CascadeGiveUp, tables
<1>2. UNCHANGED <<lots, handClosed, mode>>
  BY DEF CascadeOn, CascadeGiveUp, EmergencyClients, EmergencyMaster, Rearm, ClickerStatus,
     history, tables
<1>3. UNCHANGED faults \/ GoesWrong("failures")
  BY DEF CascadeOn, CascadeGiveUp, EmergencyClients, EmergencyMaster, Rearm, ClickerStatus
<1> QED
  BY <1>1, <1>2, <1>3, FaultCounts DEF Unseen, Stepped

LEMMA CauseStep ==
    ASSUME Stepped, HInv, Caused PROVE [H!Next]_(H!vars)
<1>0. /\ Typed /\ Unopened /\ OrdersOK /\ Master \notin Clients
      /\ lots \in [Legs -> Volumes] /\ Lots \in Nat /\ Legs = Clients \cup {Master}
  BY CloseAssumption DEF Stepped, IInv, HInv, Typed, Legs
<1>21. ASSUME Unseen PROVE [H!Next]_(H!vars)
  <2>1. WishesHaveCause /\ \A c \in Clients : RowMoves(c)
    BY RowStep DEF HInv
  <2> QED
    BY <1>21, <2>1, UnseenIsAllowed
<1>22. ASSUME UNCHANGED command PROVE UNCHANGED Opening /\ (UNCHANGED <<pair, memory>> => UNCHANGED Due)
  <2>1. Ids' = Ids /\ \A j \in Ids : Cmd(j)' = Cmd(j)
    BY <1>0, <1>22, Keeps
  <2>2. Sending
    BY <1>0, <1>22, KeepsSending
  <2> QED
    BY <2>1, <2>2, SendingKept, DueKept DEF memory
<1>23. ASSUME NEW id \in Ids, ~Closes(id), NEW a \in Answers, NEW n \in Volumes, Answer(id, a, n)
       PROVE  UNCHANGED Due
  <2>1. /\ Ids' = Ids /\ UNCHANGED <<pair, waiting, emergency>>
        /\ Cmd(id)'.kind = Cmd(id).kind /\ \A j \in Ids : j # id => Cmd(j)' = Cmd(j)
    BY <1>0, <1>23, AnswerOrders DEF Answer, memory
  <2> QED
    BY <1>23, <2>1, DueKept DEF Closes
<1>1. CASE UNCHANGED vars
  BY <1>1, <1>22 DEF vars, tables, history, H!vars
<1>2. ASSUME NEW l \in Legs, NEW n \in 1 .. Lots, HandClose(l, n) PROVE [H!Next]_(H!vars)
  <2>1. UNCHANGED <<Opening, Due, mode, faults.late>> /\ faults'.hand = faults.hand + 1
    BY <1>0, <1>2, <1>22, FaultCounts DEF HandClose, tables
  <2>2. H!CloseByHand(l, n)
    BY <1>2, <2>1 DEF HandClose, Deal, H!CloseByHand, H!Falls
  <2> QED
    BY <1>0, <2>2 DEF H!Next, H!Legs
<1>3. ASSUME NEW id \in Ids, Fill(id) PROVE [H!Next]_(H!vars)
  <2> DEFINE l == Cmd(id).leg
             n == Taken(id)
  <2>1. /\ Closes(id) /\ l \in {id[1], Master} /\ l \in Legs /\ lots[l] > 0 /\ lots[l] \in Nat
        /\ n \in 0 .. lots[l] /\ n \in Volumes /\ id[1] \in Clients
        /\ Cmd(id).kind \in {"CLOSE", "PARTIAL"}
    BY <1>0, <1>3, Fills, Ordered, TakenTyped DEF Stepped, OrderType, Closes
  <2>2. /\ UNCHANGED <<Opening, mode, handClosed, faults.hand, faults.late>>
        /\ lots' = [lots EXCEPT ![l] = @ - n] /\ Due' \subseteq Due
        /\ <<l, Cmd(id).source>> \in Due
    <3>1. PICK a \in Answers : Answer(id, a, n)
      BY <1>3 DEF Fill, Answers
    <3>2. UNCHANGED faults \/ GoesWrong("failures")
      BY <1>3 DEF Fill
    <3>3. UNCHANGED <<mode, handClosed>>
      BY <3>1 DEF Answer, history
    <3>4. UNCHANGED <<faults.hand, faults.late>>
      BY <1>0, <3>2, FaultCounts
    <3>5. UNCHANGED Opening
      BY <1>0, <2>1, <3>1, OpeningEnds
    <3>6. lots' = [lots EXCEPT ![l] = @ - n]
      BY <1>3 DEF Fill, Deal
    <3>7. Due' \subseteq Due
      <4>1. Ids' = Ids /\ UNCHANGED <<pair, waiting, emergency>>
        BY <1>0, <2>1, <3>1, AnswerOrders DEF Answer, memory
      <4> QED
        BY <4>1, DueShrinks
    <3>8. Unsettled(id)
      BY <2>1, <3>1 DEF Answer, Unsettled
    <3>9. <<l, Cmd(id).source>> \in Due
      BY <3>8 DEF Due, OrdersDue
    <3> QED
      BY <3>3, <3>4, <3>5, <3>6, <3>7, <3>9
  <2> HIDE DEF n
  <2>4. CASE n = 0
    <3>1. lots' = lots
      BY <1>0, <2>1, <2>2, <2>4
    <3> QED
      BY <1>21, <2>2, <3>1 DEF Unseen
  <2>5. CASE n > 0 /\ l # Master
    <3>1. /\ Cmd(id).source \in {"MASTER", "CLIENT", "BOT"}
          /\ Cmd(id).source = "MASTER" => lots[Master] < Lots
          /\ Cmd(id).source = "CLIENT" => lots[Master] = 0
      BY <1>0, <2>1, <2>5, Ordered DEF Caused, OrdersOK, OrderOK, OrderType
    <3>2. n \in 1 .. lots[l] /\ n \in 1 .. Lots /\ l \in Clients
      BY <2>1, <2>5 DEF Volumes
    <3>3. H!ClientFollows(l, n)
      BY <2>2, <3>1, <3>2 DEF H!ClientFollows, H!Falls
    <3> QED
      BY <3>2, <3>3 DEF H!Next
  <2>6. CASE n > 0 /\ l = Master
    <3>1. Cmd(id).kind = "CLOSE" /\ n = lots[Master]
      BY <1>0, <2>6 DEF OrdersOK, OrderOK, n, Taken
    <3>2. Cmd(id).source \in {"CLIENT", "BOT"}
      BY <1>0, <2>6, Ordered DEF Caused, OrderType
    <3>3. H!MasterFollows
      BY <2>1, <2>2, <2>6, <3>1, <3>2 DEF H!MasterFollows, H!Falls
    <3> QED
      BY <3>3 DEF H!Next
  <2> QED
    BY <2>1, <2>4, <2>5, <2>6
<1>4. ASSUME NEW id \in Ids, FindGone(id) \/ Refuse(id) PROVE [H!Next]_(H!vars)
  <2>1. PICK a \in Answers, n \in Volumes : Answer(id, a, n)
    <3>1. 0 \in Volumes /\ Cmd(id).lots \in Volumes
      BY <1>0, Ordered DEF OrderType, Volumes
    <3> QED
      BY <1>4, <3>1 DEF FindGone, Refuse, Answers
  <2>2. UNCHANGED <<mode, handClosed, lots, faults.hand, faults.late>>
    <3>1. UNCHANGED faults \/ GoesWrong("failures")
      BY <1>4 DEF FindGone, Refuse
    <3>2. UNCHANGED <<faults.hand, faults.late>>
      BY <1>0, <3>1, FaultCounts
    <3>3. UNCHANGED <<mode, handClosed>>
      BY <2>1 DEF Answer, history
    <3>4. UNCHANGED lots
      BY <1>4 DEF FindGone, Refuse
    <3> QED
      BY <3>2, <3>3, <3>4
  <2>3. CASE Closes(id)
    <3>1. UNCHANGED Opening
      BY <1>0, <2>1, <2>3, OpeningEnds
    <3> QED
      BY <1>21, <2>2, <3>1 DEF Unseen
  <2>4. CASE ~Closes(id)
    <3>1. id[1] \in Clients /\ H!NotOpened(id[1])
      BY <1>0, <1>23, <2>1, <2>2, <2>4, OpeningEnds, Ordered DEF H!NotOpened
    <3> QED
      BY <3>1 DEF H!Next
  <2> QED
    BY <2>3, <2>4
<1>5. ASSUME NEW id \in Ids, OpenCopy(id) PROVE [H!Next]_(H!vars)
  <2>1. Answer(id, "ok", Lots) /\ "ok" \in Answers /\ Lots \in Volumes /\ ~Closes(id)
    BY <1>0, <1>5 DEF OpenCopy, Answers, Volumes
  <2>2. /\ UNCHANGED <<mode, handClosed, faults.hand, faults.late>>
        /\ lots' = [lots EXCEPT ![id[1]] = Lots]
    BY <1>5, <2>1 DEF OpenCopy, Answer, history
  <2>3. id[1] \in Clients /\ H!Open(id[1])
    BY <1>0, <1>23, <2>1, <2>2, OpeningEnds, Ordered DEF H!Open
  <2> QED
    BY <2>3 DEF H!Next
<1>6. ASSUME NEW id \in Ids, HearAnswer(id) \/ Timeout(id) \/ CancelExpired(id) \/ LoseAnswer(id)
      PROVE  [H!Next]_(H!vars)
  BY <1>6, <1>21, BridgeUnseen
<1>7. ASSUME NEW l \in Legs, Routes(l) PROVE [H!Next]_(H!vars)
  BY <1>7, <1>21, EventUnseen
<1>8. CASE \/ \E id \in waiting : CascadeOn(id) \/ CascadeGiveUp(id)
           \/ EmergencyClients \/ EmergencyMaster \/ Rearm
           \/ \E l \in Clickered : ClickerStatus(l)
  BY <1>8, <1>21, TaskUnseen
<1>9. CASE SetMode
  <2>1. UNCHANGED <<Opening, Due, lots, handClosed, faults.hand, faults.late>>
    BY <1>0, <1>9, <1>22, FaultCounts DEF SetMode, history
  <2>2. H!SetMode
    BY <1>9, <2>1 DEF SetMode, Modes, H!SetMode
  <2> QED
    BY <2>2 DEF H!Next
<1>13. CASE BridgeCrash
  <2>1. UNCHANGED <<Opening, lots, handClosed, faults.hand, faults.late>> /\ mode' = "PAUSED"
    BY <1>0, <1>13, <1>22, FaultCounts DEF BridgeCrash, history
  <2>2. Due' \subseteq Due
    <3>1. Ids' = Ids /\ UNCHANGED pair /\ waiting' = {} /\ emergency'.phase = "off"
      BY <1>0, <1>13, Keeps DEF BridgeCrash
    <3> QED
      BY <3>1, DueShrinks
  <2>3. H!Restart
    BY <2>1, <2>2 DEF H!Restart
  <2> QED
    BY <2>3 DEF H!Next
<1>10. events[Master] # <<>> /\ RouteMaster(Head(events[Master])) => Routes(Master)
  BY DEF Routes
<1>11. \A c \in Clients : events[c] # <<>> /\ RouteClient(c, Head(events[c])) => Routes(c)
  BY <1>0 DEF Routes
<1>12. [Next]_vars
  BY DEF Stepped
<1> QED
  BY <1>0, <1>1, <1>2, <1>3, <1>4, <1>5, <1>6, <1>7, <1>8, <1>9, <1>10, <1>11, <1>12, <1>13 DEF Next, Agent

LEMMA CauseInit == Init => H!Init
<1> SUFFICES ASSUME Init PROVE H!Init
  OBVIOUS
<1>1. lots \in [Legs -> Volumes] /\ Master \notin Clients /\ Legs = Clients \cup {Master}
  BY TypedInit, CloseAssumption DEF Typed, Legs
<1>2. Opening = {c \in Clients : ~pair[c].known}
  <2>1. \A id \in Ids : id[1] \in Clients /\ ~pair[id[1]].known /\ ~Closes(id) /\ Cmd(id).answer = "none"
    BY Beginning DEF Closes
  <2>2. \A c \in Clients : ~pair[c].known => \E id \in Ids : id[1] = c
    <3> TAKE c \in Clients
    <3>1. <<c, 1>>[1] = c
      OBVIOUS
    <3> QED
      BY <3>1, Beginning
  <2> QED
    BY <2>1, <2>2 DEF Opening
<1>3. lots = [l \in Clients \cup {Master} |-> IF l \in Opening THEN 0 ELSE Lots]
  <2>1. lots[Master] = Lots /\ Master \notin Opening
    BY <1>1, <1>2, Beginning
  <2>2. ASSUME NEW c \in Clients PROVE lots[c] = IF c \in Opening THEN 0 ELSE Lots
    <3>1. c \in Opening <=> ~pair[c].known
      BY <1>2
    <3>2. (pair[c].known => lots[c] = Lots) /\ (~pair[c].known => lots[c] = 0)
      BY Beginning
    <3> QED
      BY <3>1, <3>2
  <2> QED
    BY <1>1, <2>1, <2>2
<1>4. handClosed = {} /\ mode \in {"RUNNING", "PAUSED"} /\ Opening \in SUBSET Clients
  BY DEF Init, Opening
<1>5. faults.hand = 0 /\ (faults.late > 0) = FALSE
  <2>1. faults.hand = 0 /\ faults.late = 0
    BY DEF Init
  <2> QED
    BY <2>1
<1>6. Due = {}
  <2>1. OrdersDue = {}
    <3>1. \A id \in Ids : ~Closes(id)
      BY Beginning DEF Closes
    <3> QED
      BY <3>1 DEF OrdersDue, Unsettled
  <2>2. WishesDue = {}
    <3>1. \A c \in Clients : pair[c].wanted = None
      BY Beginning
    <3> QED
      BY <3>1 DEF WishesDue
  <2>3. waiting = {} /\ emergency = [phase |-> "off", pairs |-> {}]
    BY DEF Init
  <2> QED
    BY <2>1, <2>2, <2>3 DEF Due
<1> QED
  BY <1>3, <1>4, <1>5, <1>6 DEF H!Init, H!Legs

\* CloseFlow implements Hedge, for any number of Clients, routes, volumes, closes by
\* hand and faults: whatever is refused, late, lost, sent once more by another way or
\* forgotten in a restart, and whatever the mode becomes meanwhile, a position is closed
\* only by a person, or on account of the leg or of the emergency the Bridge had a cause
\* to act on when it decided (_ai_gay_ra, D-10, D-11, can_close_master).
THEOREM ClosedForCauseCorrect == Spec => ClosedForCause
<1>1. IInv /\ HInv /\ Caused /\ [Next]_vars => [H!Next]_(H!vars)
  BY AllStepped, CauseStep
<1> QED
  BY <1>1, CauseInit, CausedInvariance, PTL DEF Spec, ClosedForCause, H!Spec

=============================================================================
