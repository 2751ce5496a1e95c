-------------------------- MODULE CloseFlowProofs --------------------------
(* Theorems about CloseFlow for any set of Clients, any routes and volumes    *)
(* and any number of closes by hand and of faults.                           *)
EXTENDS CloseFlow, SequenceTheorems, TLAPS

Volumes == 0 .. Lots

PairType == [status : Statuses, known : BOOLEAN, wanted : {None, "MASTER", "CLIENT"},
             mlots : Volumes, clots : Volumes]

OrderType == [leg : Legs, via : {"EA", "UI"}, kind : {"OPEN", "CLOSE", "PARTIAL"},
              lots : Volumes, source : {"MASTER", "CLIENT", "BOT"},
              status : {"SENT", "ACK_OK", "ACK_FAILED", "TIMEOUT", "CANCELLED"},
              answer : Answers \cup {"none"}, heard : BOOLEAN]

EventType == [kind : {"CLOSED", "OPENED"}, after : Volumes, lots : Volumes,
              cause : {None} \cup (Clients \X Nat), by : {"bot", "hand"}]

FaultsType == [hand : Nat, switches : Nat, late : Nat, lost : Nat, failures : Nat, crashes : Nat]

\* TypeOK, and the types of what it leaves out.
Typed ==
    /\ pair \in [Clients -> PairType]
    /\ mbook \in {"OPEN", "CLOSED"} /\ mode \in Modes
    /\ command \in [Clients -> Seq(OrderType)]
    /\ \A id \in Ids : Cmd(id).leg \in {id[1], Master}
    /\ events \in [Legs -> Seq(EventType)]
    /\ online \subseteq Clickered
    /\ waiting \subseteq Ids
    /\ emergency \in [phase : {"off", "waiting", "done"}, pairs : SUBSET Clients]
    /\ lots \in [Legs -> Volumes]
    /\ told \subseteq Legs /\ passedOver \subseteq Clients
    /\ handClosed \subseteq Clients /\ unfollowed \subseteq Legs
    /\ faults \in FaultsType

\* What the Bridge has yet to hear of a leg adds up to what was done to it.
Chained(q, n) ==
    /\ \A k \in DOMAIN q : q[k].after >= n
    /\ \A k \in DOMAIN q : k + 1 \in DOMAIN q => q[k].after = q[k + 1].after + q[k + 1].lots
    /\ q # <<>> => q[Len(q)].after = n

EventsAddUp == \A l \in Legs : Chained(events[l], lots[l])

\* The volume of a leg before the deal the Bridge hears of next.
Before(l) == IF events[l] = <<>> THEN lots[l] ELSE events[l][1].after + events[l][1].lots

\* No pair's book of the Master runs ahead of what the Bridge has heard.
BookBehind == \A c \in Clients : pair[c].mlots = 0 \/ pair[c].mlots >= Before(Master)

\* The order to open a copy, while it is out, is alone on its leg.
Unopened ==
    \A id \in Ids : ~Closes(id) =>
        /\ id[2] = 1 /\ Cmd(id).leg = id[1]
        /\ Cmd(id).answer = "none" => /\ lots[id[1]] = 0 /\ events[id[1]] = <<>>
                                      /\ ~pair[id[1]].known /\ pair[id[1]].status # "CLOSED"

OrderOK(id, o) ==
    /\ o.leg = Master => o.kind = "CLOSE"
    /\ o.kind # "OPEN" /\ o.leg # Master => pair[id[1]].known
    /\ o.kind = "CLOSE" /\ o.answer \in {"ok", "already_closed"} => lots[o.leg] = 0
    /\ o.kind = "PARTIAL" /\ o.answer = "already_closed" => lots[o.leg] = 0
    /\ o.status \in {"ACK_OK", "ACK_FAILED"} => o.heard
    /\ o.status = "CANCELLED" => o.answer = "none"
    /\ o.kind # "OPEN" /\ o.status = "TIMEOUT" => o.leg \in told
    /\ o.leg # Master /\ o.source = "CLIENT" => lots[Master] = 0
    /\ o.leg = Master /\ o.source = "CLIENT" /\ faults.late = 0 => id[1] \in handClosed

OrdersOK == \A id \in Ids : OrderOK(id, Cmd(id))

MasterGone ==
    /\ mbook = "CLOSED" => lots[Master] = 0
    /\ \A c \in Clients : pair[c].wanted = "CLIENT" => lots[Master] = 0

KnownIsBound == \A c \in Clients : pair[c].known => pair[c].status # "PENDING_OPEN"

EventOK(l, e) ==
    /\ l \in Clients /\ e.by = "hand" /\ e.after = 0 => l \in handClosed
    /\ e.by = "bot" /\ e.cause = None /\ e.kind = "CLOSED" => ClickerOrders(l) # {}
    /\ e.by = "hand" \/ l = Master => e.kind = "CLOSED"

EventsOK == \A l \in Legs : \A k \in DOMAIN events[l] : EventOK(l, events[l][k])

Executed(c, k) ==
    LET o == command[c][k]
    IN  IF o.leg # Master /\ o.via = "EA" /\ o.kind = "PARTIAL" /\ o.answer = "ok" /\ ~o.heard
        THEN o.lots ELSE 0

CoveredBy(c, acc) ==
    /\ \A j, k \in Nat : j <= k => acc[j] <= acc[k]
    /\ \A k \in DOMAIN command[c] : acc[k] >= acc[k - 1] + Executed(c, k)
    /\ \A k \in Nat : lots[c] + acc[k] <= pair[c].clots

BookCovers ==
    \A c \in Clients :
        pair[c].known /\ lots[c] > 0 => \E acc \in [Nat -> Nat] : CoveredBy(c, acc)

-----------------------------------------------------------------------------
(* Orders and their identifiers.                                             *)

IdsOf(cmds) == UNION {{c} \X DOMAIN cmds[c] : c \in Clients}

LEMMA IdsAreOrders ==
    ASSUME NEW cmds \in [Clients -> Seq(OrderType)]
    PROVE  /\ \A id \in IdsOf(cmds) :
                 /\ id[1] \in Clients /\ id[2] \in 1 .. Len(cmds[id[1]]) /\ id[2] \in Nat
                 /\ id = <<id[1], id[2]>> /\ cmds[id[1]][id[2]] \in OrderType
           /\ \A c \in Clients : \A k \in 1 .. Len(cmds[c]) : <<c, k>> \in IdsOf(cmds)
<1>1. \A c \in Clients : DOMAIN cmds[c] = 1 .. Len(cmds[c]) /\ Len(cmds[c]) \in Nat
  OBVIOUS
<1>2. \A c \in Clients : \A k \in 1 .. Len(cmds[c]) : cmds[c][k] \in OrderType
  BY <1>1, ElementOfSeq
<1>3. ASSUME NEW id \in IdsOf(cmds)
      PROVE  /\ id[1] \in Clients /\ id[2] \in 1 .. Len(cmds[id[1]]) /\ id[2] \in Nat
             /\ id = <<id[1], id[2]>> /\ cmds[id[1]][id[2]] \in OrderType
  <2>1. PICK c \in Clients : id \in {c} \X DOMAIN cmds[c]
    BY <1>3 DEF IdsOf
  <2>2. id[1] = c /\ id[2] \in 1 .. Len(cmds[c]) /\ id = <<id[1], id[2]>>
    BY <2>1, <1>1
  <2> QED
    BY <2>2, <1>1, <1>2
<1>4. ASSUME NEW c \in Clients, NEW k \in 1 .. Len(cmds[c]) PROVE <<c, k>> \in IdsOf(cmds)
  BY <1>1 DEF IdsOf
<1> QED
  BY <1>3, <1>4

\* One order changes.
LEMMA OrderEdited ==
    ASSUME command \in [Clients -> Seq(OrderType)], NEW id \in IdsOf(command),
           NEW o \in OrderType,
           command' = [command EXCEPT ![id[1]] = [@ EXCEPT ![id[2]] = o]]
    PROVE  /\ command' \in [Clients -> Seq(OrderType)]
           /\ IdsOf(command') = IdsOf(command)
           /\ command'[id[1]][id[2]] = o
           /\ \A j \in IdsOf(command) : j # id => command'[j[1]][j[2]] = command[j[1]][j[2]]
           /\ \A c \in Clients : Len(command'[c]) = Len(command[c])
<1>1. id[1] \in Clients /\ id[2] \in 1 .. Len(command[id[1]]) /\ id = <<id[1], id[2]>>
  BY IdsAreOrders
<1> DEFINE q == [command[id[1]] EXCEPT ![id[2]] = o]
<1>2. /\ q \in Seq(OrderType) /\ Len(q) = Len(command[id[1]])
      /\ \A j \in 1 .. Len(command[id[1]]) : q[j] = IF j = id[2] THEN o ELSE command[id[1]][j]
  BY <1>1, ExceptSeq
<1>3. \A c \in Clients : command'[c] = IF c = id[1] THEN q ELSE command[c]
  BY <1>1
<1>4. command' \in [Clients -> Seq(OrderType)]
  <2> HIDE DEF q
  <2> QED BY <1>1, <1>2
<1> HIDE DEF q
<1>5. \A c \in Clients : Len(command'[c]) = Len(command[c])
  BY <1>2, <1>3
<1>6. IdsOf(command') = IdsOf(command)
  <2>1. \A c \in Clients : DOMAIN command'[c] = DOMAIN command[c]
    BY <1>4, <1>5
  <2> QED BY <2>1 DEF IdsOf
<1>7. command'[id[1]][id[2]] = o
  BY <1>1, <1>2, <1>3
<1>8. ASSUME NEW j \in IdsOf(command), j # id PROVE command'[j[1]][j[2]] = command[j[1]][j[2]]
  <2>1. j[1] \in Clients /\ j[2] \in 1 .. Len(command[j[1]]) /\ j = <<j[1], j[2]>>
    BY IdsAreOrders
  <2>2. j[1] # id[1] \/ j[2] # id[2]
    BY <2>1, <1>1, <1>8
  <2> QED
    BY <2>1, <2>2, <1>2, <1>3
<1> QED
  BY <1>4, <1>5, <1>6, <1>7, <1>8

\* The pairs of S each get one more order.
LEMMA OrdersAdded ==
    ASSUME command \in [Clients -> Seq(OrderType)], NEW S \in SUBSET Clients,
           NEW o \in [S -> OrderType],
           command' = [c \in Clients |-> IF c \in S THEN Append(command[c], o[c]) ELSE command[c]]
    PROVE  /\ command' \in [Clients -> Seq(OrderType)]
           /\ IdsOf(command) \subseteq IdsOf(command')
           /\ \A j \in IdsOf(command) : command'[j[1]][j[2]] = command[j[1]][j[2]]
           /\ \A j \in IdsOf(command') \ IdsOf(command) :
                 j[1] \in S /\ j = <<j[1], Len(command[j[1]]) + 1>> /\ command'[j[1]][j[2]] = o[j[1]]
           /\ \A c \in S : <<c, Len(command[c]) + 1>> \in IdsOf(command') \ IdsOf(command)
<1>1. \A c \in S : /\ Append(command[c], o[c]) \in Seq(OrderType)
                   /\ Len(Append(command[c], o[c])) = Len(command[c]) + 1
                   /\ \A k \in 1 .. Len(command[c]) : Append(command[c], o[c])[k] = command[c][k]
                   /\ Append(command[c], o[c])[Len(command[c]) + 1] = o[c]
  <2> SUFFICES ASSUME NEW c \in S
               PROVE  /\ Append(command[c], o[c]) \in Seq(OrderType)
                      /\ Len(Append(command[c], o[c])) = Len(command[c]) + 1
                      /\ \A k \in 1 .. Len(command[c]) : Append(command[c], o[c])[k] = command[c][k]
                      /\ Append(command[c], o[c])[Len(command[c]) + 1] = o[c]
    OBVIOUS
  <2>1. command[c] \in Seq(OrderType) /\ o[c] \in OrderType
    OBVIOUS
  <2> QED
    BY ONLY <2>1, AppendProperties
<1>2. command' \in [Clients -> Seq(OrderType)]
  BY ONLY <1>1, command \in [Clients -> Seq(OrderType)],
     command' = [c \in Clients |-> IF c \in S THEN Append(command[c], o[c]) ELSE command[c]]
<1>3. \A c \in Clients : /\ Len(command[c]) \in Nat
                         /\ Len(command'[c]) = IF c \in S THEN Len(command[c]) + 1 ELSE Len(command[c])
  <2>1. \A c \in Clients : Len(command[c]) \in Nat
    BY LenProperties
  <2>2. \A c \in Clients : command'[c] = IF c \in S THEN Append(command[c], o[c]) ELSE command[c]
    OBVIOUS
  <2> QED
    BY <2>1, <2>2, <1>1
<1>4. \A c \in Clients : \A k \in 1 .. Len(command[c]) : command'[c][k] = command[c][k]
  BY <1>1
<1>5. \A c \in S : command'[c][Len(command[c]) + 1] = o[c]
  BY <1>1
<1>6. ASSUME NEW j \in IdsOf(command)
      PROVE  j \in IdsOf(command') /\ command'[j[1]][j[2]] = command[j[1]][j[2]]
  <2>1. j[1] \in Clients /\ j[2] \in 1 .. Len(command[j[1]]) /\ j = <<j[1], j[2]>>
    BY IdsAreOrders
  <2>2. j[2] \in 1 .. Len(command'[j[1]])
    BY <2>1, <1>3
  <2>3. \A c \in Clients : \A k \in 1 .. Len(command'[c]) : <<c, k>> \in IdsOf(command')
    BY <1>2, IdsAreOrders
  <2>4. j \in IdsOf(command')
    BY ONLY <2>1, <2>2, <2>3
  <2> QED
    BY <2>1, <2>4, <1>4
<1>7. ASSUME NEW j \in IdsOf(command') \ IdsOf(command)
      PROVE  j[1] \in S /\ j = <<j[1], Len(command[j[1]]) + 1>> /\ command'[j[1]][j[2]] = o[j[1]]
  <2>1. j[1] \in Clients /\ j[2] \in 1 .. Len(command'[j[1]]) /\ j = <<j[1], j[2]>>
    BY <1>2, IdsAreOrders
  <2>2. j[2] \notin 1 .. Len(command[j[1]])
    BY <2>1, IdsAreOrders
  <2>3. j[1] \in S /\ j[2] = Len(command[j[1]]) + 1
    BY <2>1, <2>2, <1>3
  <2> QED
    BY <2>1, <2>3, <1>5
<1>8. ASSUME NEW c \in S PROVE <<c, Len(command[c]) + 1>> \in IdsOf(command') \ IdsOf(command)
  <2>1. Len(command[c]) + 1 \in 1 .. Len(command'[c]) /\ Len(command[c]) + 1 \notin 1 .. Len(command[c])
    BY <1>3
  <2>2. <<c, Len(command[c]) + 1>> \in IdsOf(command')
    BY <2>1, <1>2, IdsAreOrders
  <2>3. <<c, Len(command[c]) + 1>> \notin IdsOf(command)
    BY <2>1, IdsAreOrders
  <2> QED BY <2>2, <2>3
<1> QED
  BY <1>2, <1>6, <1>7, <1>8

\* One order changes into o; the pairs of S get the orders o.
Edited(id, o) ==
    /\ command' \in [Clients -> Seq(OrderType)]
    /\ Ids' = Ids /\ Cmd(id)' = o
    /\ \A j \in Ids : j # id => Cmd(j)' = Cmd(j)
    /\ \A c \in Clients : Len(command'[c]) = Len(command[c])

Added(S, o) ==
    /\ command' \in [Clients -> Seq(OrderType)]
    /\ Ids \subseteq Ids'
    /\ \A j \in Ids : Cmd(j)' = Cmd(j)
    /\ \A j \in Ids' \ Ids : /\ j[1] \in S /\ j = <<j[1], Len(command[j[1]]) + 1>>
                             /\ Cmd(j)' = o[j[1]]
    /\ \A c \in S : <<c, Len(command[c]) + 1>> \in Ids' \ Ids

LEMMA Ordered ==
    ASSUME Typed
    PROVE  /\ \A id \in Ids :
                 /\ id[1] \in Clients /\ id[2] \in 1 .. Len(command[id[1]]) /\ id[2] \in Nat
                 /\ id = <<id[1], id[2]>> /\ Cmd(id) \in OrderType
                 /\ Cmd(id).leg \in {id[1], Master} /\ Cmd(id).leg \in Legs
           /\ \A c \in Clients : \A k \in 1 .. Len(command[c]) : <<c, k>> \in Ids
<1>1. command \in [Clients -> Seq(OrderType)] /\ Ids = IdsOf(command)
  BY DEF Typed, Ids, IdsOf
<1>2. /\ \A id \in Ids :
            /\ id[1] \in Clients /\ id[2] \in 1 .. Len(command[id[1]]) /\ id[2] \in Nat
            /\ id = <<id[1], id[2]>> /\ Cmd(id) \in OrderType
      /\ \A c \in Clients : \A k \in 1 .. Len(command[c]) : <<c, k>> \in Ids
  BY <1>1, IdsAreOrders DEF Cmd
<1> QED
  BY <1>2 DEF Typed, Legs

LEMMA Edits ==
    ASSUME Typed, NEW id \in Ids, NEW o \in OrderType,
           command' = [command EXCEPT ![id[1]] = [@ EXCEPT ![id[2]] = o]]
    PROVE  Edited(id, o)
<1>1. command \in [Clients -> Seq(OrderType)] /\ Ids = IdsOf(command) /\ Ids' = IdsOf(command')
  BY DEF Typed, Ids, IdsOf
<1>2. /\ command' \in [Clients -> Seq(OrderType)]
      /\ IdsOf(command') = IdsOf(command)
      /\ command'[id[1]][id[2]] = o
      /\ \A j \in IdsOf(command) : j # id => command'[j[1]][j[2]] = command[j[1]][j[2]]
      /\ \A c \in Clients : Len(command'[c]) = Len(command[c])
  BY <1>1, OrderEdited
<1>3. \A j : Cmd(j) = command[j[1]][j[2]] /\ Cmd(j)' = command'[j[1]][j[2]]
  BY DEF Cmd
<1> QED
  BY <1>1, <1>2, <1>3 DEF Edited

LEMMA Adds ==
    ASSUME Typed, NEW S \in SUBSET Clients, NEW o \in [S -> OrderType],
           command' = [c \in Clients |-> IF c \in S THEN Append(command[c], o[c]) ELSE command[c]]
    PROVE  Added(S, o)
<1>1. command \in [Clients -> Seq(OrderType)] /\ Ids = IdsOf(command) /\ Ids' = IdsOf(command')
  BY DEF Typed, Ids, IdsOf
<1>2. /\ command' \in [Clients -> Seq(OrderType)]
      /\ IdsOf(command) \subseteq IdsOf(command')
      /\ \A j \in IdsOf(command) : command'[j[1]][j[2]] = command[j[1]][j[2]]
      /\ \A j \in IdsOf(command') \ IdsOf(command) :
            j[1] \in S /\ j = <<j[1], Len(command[j[1]]) + 1>> /\ command'[j[1]][j[2]] = o[j[1]]
      /\ \A c \in S : <<c, Len(command[c]) + 1>> \in IdsOf(command') \ IdsOf(command)
  BY <1>1, OrdersAdded, ZenonT(60)
<1>3. \A j : Cmd(j) = command[j[1]][j[2]] /\ Cmd(j)' = command'[j[1]][j[2]]
  BY DEF Cmd
<1> QED
  BY <1>1, <1>2, <1>3 DEF Added

LEMMA Keeps ==
    ASSUME Typed, UNCHANGED command
    PROVE  /\ command' \in [Clients -> Seq(OrderType)]
           /\ Ids' = Ids /\ \A j \in Ids : Cmd(j)' = Cmd(j)
  BY DEF Typed, Ids, Cmd

\* The four ways an order changes.
LEMMA AnswerEdits ==
    ASSUME Typed, NEW id \in Ids, NEW a \in Answers, NEW n \in Volumes, Answer(id, a, n)
    PROVE  Edited(id, [Cmd(id) EXCEPT !.answer = a, !.lots = n])
<1> DEFINE o == [Cmd(id) EXCEPT !.answer = a, !.lots = n]
<1>1. o \in OrderType
  BY Ordered DEF OrderType
<1>2. command' = [command EXCEPT ![id[1]] = [@ EXCEPT ![id[2]] = o]]
  BY Ordered DEF Typed, Answer, Cmd
<1> QED
  BY <1>1, <1>2, Edits

LEMMA HeardEdits ==
    ASSUME Typed, NEW id \in Ids, NEW s \in {"ACK_OK", "ACK_FAILED", "TIMEOUT"}, Heard(id, s)
    PROVE  Edited(id, [Cmd(id) EXCEPT !.status = s, !.heard = TRUE])
<1> DEFINE o == [Cmd(id) EXCEPT !.status = s, !.heard = TRUE]
<1>2. o \in OrderType
  BY Ordered DEF OrderType
<1>3. command' = [command EXCEPT ![id[1]] = [@ EXCEPT ![id[2]] = o]]
  <2>1. command' = [command EXCEPT ![id[1]][id[2]].status = s, ![id[1]][id[2]].heard = TRUE]
    BY DEF Heard
  <2>2. id[1] \in Clients /\ id[2] \in 1 .. Len(command[id[1]])
        /\ command \in [Clients -> Seq(OrderType)]
    BY Ordered DEF Typed
  <2> QED
    BY ONLY <2>1, <2>2 DEF Cmd
<1> QED
  BY <1>2, <1>3, Edits

LEMMA StatusEdits ==
    ASSUME Typed, NEW id \in Ids
    PROVE  /\ Timeout(id) => Edited(id, [Cmd(id) EXCEPT !.status = "TIMEOUT"])
           /\ CancelExpired(id) => Edited(id, [Cmd(id) EXCEPT !.status = "CANCELLED"])
           /\ LoseAnswer(id) => Edited(id, [Cmd(id) EXCEPT !.heard = TRUE])
<1>1. id[1] \in Clients /\ id[2] \in 1 .. Len(command[id[1]])
      /\ command \in [Clients -> Seq(OrderType)] /\ Cmd(id) \in OrderType
  BY Ordered DEF Typed
<1>2. ASSUME NEW s \in {"TIMEOUT", "CANCELLED"},
             command' = [command EXCEPT ![id[1]][id[2]].status = s]
      PROVE  Edited(id, [Cmd(id) EXCEPT !.status = s])
  <2>1. [Cmd(id) EXCEPT !.status = s] \in OrderType
    BY <1>1 DEF OrderType
  <2>2. command' = [command EXCEPT ![id[1]] = [@ EXCEPT ![id[2]] = [Cmd(id) EXCEPT !.status = s]]]
    BY ONLY <1>1, <1>2 DEF Cmd
  <2> QED
    BY <2>1, <2>2, Edits
<1>3. ASSUME command' = [command EXCEPT ![id[1]][id[2]].heard = TRUE]
      PROVE  Edited(id, [Cmd(id) EXCEPT !.heard = TRUE])
  <2>1. [Cmd(id) EXCEPT !.heard = TRUE] \in OrderType
    BY <1>1 DEF OrderType
  <2>2. command' = [command EXCEPT ![id[1]] = [@ EXCEPT ![id[2]] = [Cmd(id) EXCEPT !.heard = TRUE]]]
    BY ONLY <1>1, <1>3 DEF Cmd
  <2> QED
    BY <2>1, <2>2, Edits
<1> QED
  BY <1>2, <1>3 DEF Timeout, CancelExpired, LoseAnswer

\* A refused order is settled and its replacement added.
Replaced(id, o, x) ==
    /\ command' \in [Clients -> Seq(OrderType)]
    /\ Ids \subseteq Ids' /\ Cmd(id)' = o
    /\ \A j \in Ids : j # id => Cmd(j)' = Cmd(j)
    /\ \A j \in Ids' \ Ids : /\ j = <<id[1], Len(command[id[1]]) + 1>> /\ Cmd(j)' = x
                             /\ j[1] = id[1]
    /\ <<id[1], Len(command[id[1]]) + 1>> \in Ids' \ Ids

LEMMA FallBackReplaces ==
    ASSUME Typed, NEW id \in Ids, AckFallBack(id)
    PROVE  Replaced(id, [Cmd(id) EXCEPT !.status = "ACK_FAILED", !.heard = TRUE],
                    Order(Cmd(id).leg, "EA", Cmd(id).kind, Cmd(id).lots, Cmd(id).source))
<1> DEFINE c == id[1]
           o == [Cmd(id) EXCEPT !.status = "ACK_FAILED", !.heard = TRUE]
           x == Order(Cmd(id).leg, "EA", Cmd(id).kind, Cmd(id).lots, Cmd(id).source)
           q == [command[c] EXCEPT ![id[2]] = o]
<1>1. c \in Clients /\ id[2] \in 1 .. Len(command[c]) /\ id = <<c, id[2]>>
      /\ command \in [Clients -> Seq(OrderType)] /\ Cmd(id) \in OrderType
      /\ command[c] \in Seq(OrderType) /\ Len(command[c]) \in Nat
  BY Ordered DEF Typed
<1>2. o \in OrderType /\ x \in OrderType
  BY <1>1 DEF OrderType, Order
<1>3. command' = [command EXCEPT ![c] = Append(q, x)]
  <2>1. command' = [command EXCEPT ![c] =
           Append([@ EXCEPT ![id[2]].status = "ACK_FAILED", ![id[2]].heard = TRUE], x)]
    BY DEF AckFallBack
  <2>2. [command[c] EXCEPT ![id[2]].status = "ACK_FAILED", ![id[2]].heard = TRUE] = q
    BY ONLY <1>1 DEF Cmd
  <2> HIDE DEF x, q
  <2> QED
    BY <1>1, <2>1, <2>2
<1> HIDE DEF o, x
<1>4. /\ q \in Seq(OrderType) /\ Len(q) = Len(command[c])
      /\ \A j \in 1 .. Len(command[c]) : q[j] = IF j = id[2] THEN o ELSE command[c][j]
  BY ONLY <1>1, <1>2, ExceptSeq
<1> HIDE DEF q
<1> DEFINE r == Append(q, x)
<1>5. /\ r \in Seq(OrderType) /\ Len(r) = Len(command[c]) + 1
      /\ \A k \in 1 .. Len(command[c]) : r[k] = q[k]
      /\ r[Len(command[c]) + 1] = x
  BY ONLY <1>1, <1>2, <1>4, AppendProperties
<1>6. \A d \in Clients : command'[d] = IF d = c THEN r ELSE command[d]
  BY <1>1, <1>3
<1>7. command' \in [Clients -> Seq(OrderType)]
  BY ONLY <1>1, <1>3, <1>5
<1> HIDE DEF r
<1>8. Ids = IdsOf(command) /\ Ids' = IdsOf(command')
  BY DEF Ids, IdsOf
<1>9. /\ \A j : Cmd(j) = command[j[1]][j[2]] /\ Cmd(j)' = command'[j[1]][j[2]]
      /\ \A d \in Clients : Len(command[d]) \in Nat
  BY DEF Cmd, Typed
<1>10. ASSUME NEW j \in Ids PROVE j \in Ids' /\ Cmd(j)' = IF j = id THEN o ELSE Cmd(j)
  <2>1. j[1] \in Clients /\ j[2] \in 1 .. Len(command[j[1]]) /\ j = <<j[1], j[2]>>
    BY Ordered
  <2>2. j[2] \in 1 .. Len(command'[j[1]])
    BY <2>1, <1>1, <1>5, <1>6
  <2>3. <<j[1], j[2]>> \in IdsOf(command')
    BY ONLY <2>1, <2>2, <1>7, IdsAreOrders
  <2>4. j = id <=> j[1] = c /\ j[2] = id[2]
    BY ONLY <1>1, <2>1
  <2>5. j \in Ids'
    BY ONLY <2>1, <2>3, <1>8
  <2>6. command'[j[1]][j[2]] = IF j = id THEN o ELSE command[j[1]][j[2]]
    <3>1. CASE j[1] = c
      <4>1. command'[c][j[2]] = r[j[2]] /\ r[j[2]] = q[j[2]]
        BY ONLY <3>1, <2>1, <1>1, <1>5, <1>6
      <4> QED
        BY ONLY <4>1, <3>1, <2>1, <2>4, <1>4
    <3>2. CASE j[1] # c
      BY ONLY <3>2, <2>1, <2>4, <1>6
    <3> QED
      BY <3>1, <3>2
  <2> QED
    BY ONLY <2>5, <2>6, <1>9
<1>11. ASSUME NEW j \in Ids' \ Ids
       PROVE  j = <<c, Len(command[c]) + 1>> /\ Cmd(j)' = x /\ j[1] = c
  <2>1. j[1] \in Clients /\ j[2] \in 1 .. Len(command'[j[1]]) /\ j = <<j[1], j[2]>>
    BY <1>7, <1>8, IdsAreOrders
  <2>2. <<j[1], j[2]>> \notin Ids
    BY <2>1
  <2>3. j[2] \notin 1 .. Len(command[j[1]])
    BY <2>1, <2>2, Ordered
  <2>4. j[1] = c /\ j[2] = Len(command[c]) + 1
    BY <2>1, <2>3, <1>5, <1>6, <1>9
  <2> QED
    BY <2>1, <2>4, <1>5, <1>6, <1>9
<1>12. \A j \in Ids : j \in Ids' /\ (j = id => Cmd(j)' = o) /\ (j # id => Cmd(j)' = Cmd(j))
  BY <1>10
<1>13. <<c, Len(command[c]) + 1>> \in Ids' \ Ids
  <2> DEFINE j == <<c, Len(command[c]) + 1>>
  <2>1. j[1] = c /\ j[2] = Len(command[c]) + 1
    OBVIOUS
  <2>2. Len(command[c]) + 1 \in 1 .. Len(command'[c])
    BY <1>1, <1>5, <1>6
  <2>3. j \in IdsOf(command')
    BY ONLY <1>1, <1>7, <2>2, IdsAreOrders
  <2>4. Len(command[c]) + 1 \notin 1 .. Len(command[c])
    BY <1>1
  <2> HIDE DEF j
  <2>5. j \notin Ids
    BY <2>1, <2>4, Ordered
  <2> QED
    BY <1>8, <2>3, <2>5 DEF j
<1> QED
  BY <1>7, <1>11, <1>12, <1>13 DEF Replaced, o, x

LEMMA AddsOne ==
    ASSUME Typed, NEW c \in Clients, NEW x \in OrderType,
           command' = [command EXCEPT ![c] = Append(@, x)]
    PROVE  Added({c}, [d \in {c} |-> x])
<1> DEFINE o == [d \in {c} |-> x]
<1>1. command' = [d \in Clients |-> IF d \in {c} THEN Append(command[d], o[d]) ELSE command[d]]
  BY DEF Typed
<1>2. o \in [{c} -> OrderType]
  OBVIOUS
<1> HIDE DEF o
<1>3. Added({c}, o)
  BY <1>1, <1>2, Adds
<1> QED
  BY <1>3 DEF o

\* Orders to close for the pairs of S that can be reached.
Reached(S) == {c \in S : Via(c) # "none"}

LEMMA Sends ==
    ASSUME Typed, NEW S \in SUBSET Clients, NEW kind \in {"CLOSE", "PARTIAL"},
           NEW n \in [S -> Volumes], NEW source \in {"MASTER", "CLIENT", "BOT"},
           command' = [c \in Clients |-> IF c \in S THEN Sent(c, kind, n[c], source) ELSE command[c]]
    PROVE  Added(Reached(S), [c \in Reached(S) |-> Order(c, Via(c), kind, n[c], source)])
<1> DEFINE R == Reached(S)
           o == [c \in R |-> Order(c, Via(c), kind, n[c], source)]
<1>1. R \in SUBSET Clients /\ \A c \in R : c \in S /\ Via(c) \in {"EA", "UI"}
  BY DEF Reached, Via
<1>2. o \in [R -> OrderType]
  BY <1>1 DEF OrderType, Order, Volumes, Legs
<1>3. command' = [c \in Clients |-> IF c \in R THEN Append(command[c], o[c]) ELSE command[c]]
  BY <1>1 DEF Sent, Reached
<1> HIDE DEF R, o
<1>4. Added(R, o)
  BY <1>1, <1>2, <1>3, Adds
<1> QED
  BY <1>4 DEF R, o
-----------------------------------------------------------------------------
(* Volumes.                                                                  *)

LEMMA Quotient ==
    ASSUME NEW a \in Nat, NEW n \in Nat, NEW m \in Nat \ {0}, n <= m
    PROVE  (a * n) \div m \in 0 .. a
<1>1. a * n \in Nat /\ a * n <= a * m
  OBVIOUS
<1>2. ASSUME NEW x \in Nat PROVE x \div m \in Nat /\ m * (x \div m) <= x
  OBVIOUS
<1>3. (a * n) \div m \in Nat /\ m * ((a * n) \div m) <= a * m
  <2> DEFINE x == a * n
             y == a * m
  <2>1. x \in Nat /\ x <= y /\ y \in Nat
    BY <1>1
  <2> HIDE DEF x, y
  <2>2. x \div m \in Nat /\ m * (x \div m) <= x
    BY <1>2, <2>1
  <2>3. m * (x \div m) \in Nat
    BY <2>2
  <2>4. m * (x \div m) <= y
    BY ONLY <2>1, <2>2, <2>3
  <2> QED
    BY <2>2, <2>4 DEF x, y
<1>4. ASSUME NEW q \in Nat, m * q <= a * m PROVE q <= a
  BY <1>4
<1> QED
  BY ONLY <1>3, <1>4, a \in Nat

LEMMA HeadOfEvents ==
    ASSUME Typed, NEW l \in Legs, events[l] # <<>>
    PROVE  /\ Head(events[l]) \in EventType /\ Head(events[l]) = events[l][1]
           /\ Tail(events[l]) \in Seq(EventType)
           /\ Len(Tail(events[l])) = Len(events[l]) - 1
           /\ \A k \in 1 .. Len(Tail(events[l])) : Tail(events[l])[k] = events[l][k + 1]
           /\ 1 \in DOMAIN events[l] /\ Len(events[l]) \in Nat /\ Len(events[l]) > 0
  BY HeadTailProperties, ElementOfSeq DEF Typed

\* A Client's share of what the Master was reduced by is no more than it has.
LEMMA ShareBounded ==
    ASSUME Typed, EventsAddUp, BookBehind, events[Master] # <<>>,
           NEW c \in Clients, pair[c].mlots > 0
    PROVE  Share(c, Head(events[Master])) \in 0 .. pair[c].clots
<1> DEFINE e == Head(events[Master])
<1>1. /\ pair[c].clots \in Nat /\ pair[c].mlots \in Nat
      /\ e = events[Master][1] /\ e.lots \in Nat /\ e.after \in Nat
  <2>1. e \in EventType /\ e = events[Master][1]
    BY HeadOfEvents DEF Legs
  <2>2. pair[c] \in PairType
    BY DEF Typed
  <2> HIDE DEF e
  <2> QED
    BY <2>1, <2>2, CloseAssumption DEF PairType, EventType, Volumes
<1>2. e.lots <= pair[c].mlots
  <2>1. Before(Master) = e.after + e.lots
    BY <1>1 DEF Before
  <2>2. pair[c].mlots >= Before(Master)
    BY <1>1 DEF BookBehind
  <2> HIDE DEF e
  <2> QED
    BY ONLY <1>1, <2>1, <2>2
<1> QED
  BY <1>1, <1>2, Quotient DEF Share

-----------------------------------------------------------------------------
(* Types.                                                                    *)

LEMMA DealTyped ==
    ASSUME Typed, NEW l \in Legs, NEW n \in 0 .. lots[l],
           NEW cause \in {None} \cup Ids, NEW by \in {"bot", "hand"}, Deal(l, n, cause, by)
    PROVE  /\ lots' \in [Legs -> Volumes] /\ events' \in [Legs -> Seq(EventType)]
           /\ lots[l] \in Nat /\ lots[l] - n \in Volumes /\ n \in Volumes
           /\ Event("CLOSED", lots[l] - n, n, cause, by) \in EventType
           /\ lots' = [lots EXCEPT ![l] = lots[l] - n]
           /\ events' = [events EXCEPT ![l] = Append(events[l], Event("CLOSED", lots[l] - n, n, cause, by))]
<1>1. lots \in [Legs -> Volumes] /\ events \in [Legs -> Seq(EventType)] /\ Lots \in Nat
  BY CloseAssumption DEF Typed
<1>2. lots[l] \in Nat /\ lots[l] - n \in Volumes /\ n \in Volumes
  BY <1>1 DEF Volumes
<1>3. cause \in {None} \cup (Clients \X Nat)
  BY Ordered
<1>4. Event("CLOSED", lots[l] - n, n, cause, by) \in EventType
  BY <1>2, <1>3 DEF Event, EventType
<1>5. /\ lots' = [lots EXCEPT ![l] = lots[l] - n]
      /\ events' = [events EXCEPT ![l] = Append(events[l], Event("CLOSED", lots[l] - n, n, cause, by))]
  BY <1>1 DEF Deal
<1> HIDE DEF Event
<1>6. Append(events[l], Event("CLOSED", lots[l] - n, n, cause, by)) \in Seq(EventType)
  BY <1>1, <1>4, AppendProperties
<1>7. lots' \in [Legs -> Volumes] /\ events' \in [Legs -> Seq(EventType)]
  BY <1>1, <1>2, <1>5, <1>6
<1> QED
  BY <1>2, <1>4, <1>5, <1>7

LEMMA NextEventTyped ==
    ASSUME Typed, NEW l \in Legs, events[l] # <<>>, NextEvent(l, Head(events[l]))
    PROVE  /\ events' \in [Legs -> Seq(EventType)] /\ lots' \in [Legs -> Volumes]
           /\ UNCHANGED <<mode, online, lots, handClosed>>
           /\ events'[l] = Tail(events[l])
           /\ \A m \in Legs : m # l => events'[m] = events[m]
  BY HeadOfEvents DEF Typed, NextEvent

\* What _close_pair_fully does for the pairs of S.
FullyClosed(book, S, source) ==
    /\ pair' \in [Clients -> PairType] /\ told' \subseteq Legs /\ passedOver' \subseteq Clients
    /\ told \subseteq told'
    /\ command' \in [Clients -> Seq(OrderType)] /\ Ids \subseteq Ids'
    /\ \A j \in Ids : Cmd(j)' = Cmd(j)
    /\ \A j \in Ids' \ Ids :
          /\ j[1] \in S /\ book[j[1]].known /\ ~Busy(j[1]) /\ Via(j[1]) # "none"
          /\ j = <<j[1], Len(command[j[1]]) + 1>>
          /\ Cmd(j)' = Order(j[1], Via(j[1]), "CLOSE", 0, source)
    /\ \A c \in Clients :
          /\ pair'[c].known = book[c].known
          /\ pair'[c].mlots = book[c].mlots /\ pair'[c].clots = book[c].clots
          /\ pair'[c].wanted = book[c].wanted \/ (c \in S /\ pair'[c].wanted = source)
          /\ pair'[c].status = book[c].status
             \/ (c \in S /\ book[c].known /\ pair'[c].status = "CLOSING")

LEMMA ClosesFully ==
    ASSUME Typed, NEW book \in [Clients -> PairType], NEW S \in SUBSET Clients, NEW source,
           S = {} \/ source \in {"MASTER", "CLIENT"}, CloseFully(book, S, source)
    PROVE  FullyClosed(book, S, source)
<1> DEFINE able == {c \in S : book[c].known /\ ~Busy(c)}
           n == [c \in able |-> 0]
           src == IF S = {} THEN "BOT" ELSE source
<1>1. able \in SUBSET Clients /\ n \in [able -> Volumes] /\ src \in {"MASTER", "CLIENT", "BOT"}
  BY CloseAssumption DEF Volumes
<1>2. command' = [c \in Clients |-> IF c \in able THEN Sent(c, "CLOSE", n[c], src) ELSE command[c]]
  BY DEF CloseFully
<1>3. Added(Reached(able), [c \in Reached(able) |-> Order(c, Via(c), "CLOSE", n[c], src)])
  <2> HIDE DEF able, n, src
  <2> QED BY <1>1, <1>2, Sends
<1>4. /\ command' \in [Clients -> Seq(OrderType)] /\ Ids \subseteq Ids'
      /\ \A j \in Ids : Cmd(j)' = Cmd(j)
      /\ \A j \in Ids' \ Ids :
            /\ j[1] \in able /\ Via(j[1]) # "none" /\ j = <<j[1], Len(command[j[1]]) + 1>>
            /\ Cmd(j)' = Order(j[1], Via(j[1]), "CLOSE", 0, source)
  BY <1>3 DEF Added, Reached
<1>5. pair' = [c \in Clients |->
               IF c \in able THEN [book[c] EXCEPT !.status = "CLOSING"]
               ELSE IF c \in S /\ ~book[c].known THEN [book[c] EXCEPT !.wanted = source]
               ELSE book[c]]
  BY DEF CloseFully
<1>6. pair' \in [Clients -> PairType]
  BY <1>5 DEF PairType, Statuses
<1>7. told' \subseteq Legs /\ passedOver' \subseteq Clients /\ told \subseteq told'
  BY DEF CloseFully, Typed, Legs
<1>8. \A c \in Clients :
                 /\ pair'[c].known = book[c].known
                 /\ pair'[c].mlots = book[c].mlots /\ pair'[c].clots = book[c].clots
                 /\ pair'[c].wanted = book[c].wanted \/ (c \in S /\ pair'[c].wanted = source)
                 /\ pair'[c].status = book[c].status
                    \/ (c \in S /\ book[c].known /\ pair'[c].status = "CLOSING")
  <2> SUFFICES ASSUME NEW c \in Clients
               PROVE  /\ pair'[c].known = book[c].known
                      /\ pair'[c].mlots = book[c].mlots /\ pair'[c].clots = book[c].clots
                      /\ pair'[c].wanted = book[c].wanted \/ (c \in S /\ pair'[c].wanted = source)
                      /\ pair'[c].status = book[c].status
                         \/ (c \in S /\ book[c].known /\ pair'[c].status = "CLOSING")
    OBVIOUS
  <2>1. /\ book[c] \in PairType /\ (c \in able => c \in S /\ book[c].known)
        /\ pair'[c] = IF c \in able THEN [book[c] EXCEPT !.status = "CLOSING"]
               ELSE IF c \in S /\ ~book[c].known THEN [book[c] EXCEPT !.wanted = source]
               ELSE book[c]
    BY <1>5
  <2> HIDE DEF able
  <2> QED
    BY ONLY <2>1 DEF PairType
<1> QED
  BY <1>4, <1>6, <1>7, <1>8 DEF FullyClosed
\* An order that has just been sent, and why it may be.
Fresh(j) ==
    /\ j[1] \in Clients /\ j = <<j[1], Len(command[j[1]]) + 1>>
    /\ Cmd(j)'.status = "SENT" /\ Cmd(j)'.answer = "none" /\ Cmd(j)'.heard = FALSE
    /\ \/ /\ Cmd(j)'.leg = Master /\ Cmd(j)'.kind = "CLOSE" /\ ~MasterClosing
          /\ Cmd(j)'.source = "CLIENT" /\ faults'.late = 0 => j[1] \in handClosed
          /\ Ids' \ Ids = {j}
       \/ /\ Cmd(j)'.leg = j[1] /\ Cmd(j)'.kind \in {"CLOSE", "PARTIAL"}
          /\ pair'[j[1]].known /\ ~Busy(j[1])
          /\ Cmd(j)'.source = "CLIENT" => lots[Master] = 0

\* The step sends orders and changes none.
Sending ==
    /\ command' \in [Clients -> Seq(OrderType)]
    /\ Ids \subseteq Ids' /\ \A j \in Ids : Cmd(j)' = Cmd(j)
    /\ \A j \in Ids' \ Ids : Fresh(j)

LEMMA KeepsSending == ASSUME Typed, UNCHANGED command PROVE Sending
  BY Keeps DEF Sending

LEMMA FullCloseSending ==
    ASSUME Typed, NEW book \in [Clients -> PairType], NEW S \in SUBSET Clients, NEW source,
           S = {} \/ source \in {"MASTER", "CLIENT"}, CloseFully(book, S, source),
           S # {} /\ source = "CLIENT" => lots[Master] = 0
    PROVE  Sending
<1>0. FullyClosed(book, S, source)
  BY ClosesFully
<1>1. /\ command' \in [Clients -> Seq(OrderType)] /\ Ids \subseteq Ids'
      /\ \A j \in Ids : Cmd(j)' = Cmd(j)
      /\ \A j \in Ids' \ Ids :
            /\ j[1] \in S /\ book[j[1]].known /\ ~Busy(j[1]) /\ Via(j[1]) # "none"
            /\ j = <<j[1], Len(command[j[1]]) + 1>>
            /\ Cmd(j)' = Order(j[1], Via(j[1]), "CLOSE", 0, source)
      /\ \A c \in Clients : pair'[c].known = book[c].known
  BY <1>0 DEF FullyClosed
<1>2. ASSUME NEW j \in Ids' \ Ids PROVE Fresh(j)
  BY <1>1 DEF Fresh, Order
<1> QED
  BY <1>1, <1>2 DEF Sending

LEMMA MasterOrderTyped ==
    ASSUME NEW source \in {"MASTER", "CLIENT", "BOT"} PROVE MasterOrder(source) \in OrderType
  BY CloseAssumption DEF MasterOrder, MasterVia, Order, OrderType, Volumes, Legs

LEMMA MasterOrderSending ==
    ASSUME Typed, NEW c \in Clients, NEW source \in {"MASTER", "CLIENT", "BOT"},
           command' = [command EXCEPT ![c] = Append(@, MasterOrder(source))],
           ~MasterClosing, source = "CLIENT" /\ faults'.late = 0 => c \in handClosed
    PROVE  Sending
<1> DEFINE x == MasterOrder(source)
<1>1. x \in OrderType
  BY MasterOrderTyped
<1>2. x.leg = Master /\ x.kind = "CLOSE" /\ x.source = source /\ x.status = "SENT"
      /\ x.answer = "none" /\ x.heard = FALSE
  BY DEF MasterOrder, Order
<1> HIDE DEF x
<1>3. Added({c}, [d \in {c} |-> x])
  BY <1>1, AddsOne DEF x
<1>4. \A j \in Ids' \ Ids : j = <<c, Len(command[c]) + 1>> /\ Cmd(j)' = x
  BY <1>3 DEF Added
<1>5. \A j \in Ids' \ Ids : Fresh(j)
  BY <1>2, <1>4 DEF Fresh
<1> QED
  BY <1>3, <1>5 DEF Added, Sending

\* The shares of a partial close that the Clients are sent.
LEMMA PartialsSent ==
    ASSUME Typed, EventsAddUp, BookBehind, events[Master] # <<>>,
           HearMasterPartial(Head(events[Master]))
    PROVE  /\ Sending
           /\ \A j \in Ids' \ Ids : /\ Cmd(j)'.leg = j[1] /\ Cmd(j)'.kind = "PARTIAL"
                                    /\ Cmd(j)'.source = "MASTER"
                                    /\ pair[j[1]].mlots > 0 /\ Share(j[1], Head(events[Master])) > 0
<1> DEFINE e == Head(events[Master])
<1> DEFINE follow == {c \in Clients : /\ Alive(c) /\ pair[c].known /\ ~Busy(c)
                                      /\ pair[c].mlots > 0 /\ Share(c, e) > 0}
           n == [c \in follow |-> Share(c, e)]
<1>1. /\ command' = [c \in Clients |->
             IF c \in follow THEN Sent(c, "PARTIAL", Share(c, e), "MASTER") ELSE command[c]]
      /\ pair' = [c \in Clients |->
             IF c \in follow THEN [pair[c] EXCEPT !.mlots = e.after, !.status = "PARTIALLY_CLOSED"]
             ELSE IF Alive(c) THEN [pair[c] EXCEPT !.mlots = e.after]
             ELSE pair[c]]
  BY DEF HearMasterPartial
<1>2. \A c \in follow : Share(c, e) \in Volumes
  <2>1. \A c \in follow : Share(c, e) \in 0 .. pair[c].clots
    BY ShareBounded
  <2>2. \A c \in Clients : pair[c].clots \in 0 .. Lots
    BY DEF Typed, PairType, Volumes
  <2>3. follow \subseteq Clients /\ Lots \in Nat
    BY CloseAssumption
  <2> HIDE DEF follow
  <2>4. ASSUME NEW c \in follow PROVE Share(c, e) \in 0 .. Lots
    <3> DEFINE x == Share(c, e)
    <3>1. x \in 0 .. pair[c].clots /\ pair[c].clots \in 0 .. Lots
      BY <2>1, <2>2, <2>3
    <3> HIDE DEF x
    <3>2. x \in 0 .. Lots
      BY <2>3, <3>1
    <3> QED
      BY <3>2 DEF x
  <2> QED
    BY <2>4 DEF Volumes
<1>3. n \in [follow -> Volumes] /\ follow \in SUBSET Clients
  BY <1>2
<1>4. \A c \in follow : pair[c].known /\ ~Busy(c) /\ pair'[c].known = pair[c].known
  BY <1>1 DEF Typed, PairType
<1>5. command' = [c \in Clients |->
             IF c \in follow THEN Sent(c, "PARTIAL", n[c], "MASTER") ELSE command[c]]
  BY <1>1
<1>9. \A c \in follow : pair[c].mlots > 0 /\ Share(c, e) > 0
  OBVIOUS
<1> HIDE DEF follow, n, e
<1>6. Added(Reached(follow), [c \in Reached(follow) |-> Order(c, Via(c), "PARTIAL", n[c], "MASTER")])
  BY <1>3, <1>5, Sends
<1>7. Reached(follow) \subseteq follow
  BY DEF Reached
<1>8. ASSUME NEW j \in Ids' \ Ids
      PROVE  /\ Fresh(j) /\ Cmd(j)'.leg = j[1] /\ Cmd(j)'.kind = "PARTIAL"
             /\ Cmd(j)'.source = "MASTER"
             /\ pair[j[1]].mlots > 0 /\ Share(j[1], e) > 0
  <2>1. /\ j[1] \in Reached(follow) /\ j = <<j[1], Len(command[j[1]]) + 1>>
        /\ Cmd(j)' = Order(j[1], Via(j[1]), "PARTIAL", n[j[1]], "MASTER")
    BY <1>6 DEF Added
  <2> QED
    BY <2>1, <1>3, <1>4, <1>7, <1>9 DEF Fresh, Order
<1> QED
  BY <1>6, <1>8 DEF Sending, Added, e

LEMMA MasterEventsSending ==
    ASSUME Typed, EventsAddUp, BookBehind, MasterGone, events[Master] # <<>>
    PROVE  /\ HearMasterIgnored(Head(events[Master])) => Sending
           /\ HearMasterClosed(Head(events[Master])) => Sending
           /\ HearMasterPartial(Head(events[Master])) => Sending
<1> DEFINE e == Head(events[Master])
<1>1. ASSUME HearMasterIgnored(e) PROVE Sending
  BY <1>1, KeepsSending DEF HearMasterIgnored
<1>2. ASSUME HearMasterClosed(e) PROVE Sending
  <2>1. CloseFully(pair, {c \in Clients : Alive(c)}, "MASTER")
    BY <1>2 DEF HearMasterClosed
  <2> QED
    BY <2>1, FullCloseSending DEF Typed
<1>3. HearMasterPartial(e) => Sending
  BY PartialsSent
<1> QED
  BY <1>1, <1>2, <1>3

LEMMA ClientEventsSending ==
    ASSUME Typed, MasterGone, EventsOK, NEW c \in Clients, events[c] # <<>>
    PROVE  /\ HearOpened(c, Head(events[c])) => Sending
           /\ HearClientIgnored(c, Head(events[c])) => Sending
           /\ HearOwnClose(c, Head(events[c])) => Sending
           /\ HearClientPartial(c, Head(events[c])) => Sending
           /\ HearClientKept(c, Head(events[c])) => Sending
           /\ HearCascade(c, Head(events[c])) => Sending
<1> DEFINE e == Head(events[c])
<1>1. e \in EventType /\ e = events[c][1] /\ 1 \in DOMAIN events[c] /\ c \in Legs
  BY HeadOfEvents DEF Legs
<1>2. ASSUME HearOpened(c, e) PROVE Sending
  <2> DEFINE bound == pair[c].status = "PENDING_OPEN"
             book == IF bound
                THEN [pair EXCEPT ![c].status = "OPEN", ![c].known = TRUE, ![c].clots = e.after]
                ELSE pair
             S == IF bound /\ pair[c].wanted # None THEN {c} ELSE {}
  <2>1. CloseFully(book, S, pair[c].wanted)
    BY <1>2 DEF HearOpened
  <2>2. book \in [Clients -> PairType]
    <3>1. e.after \in Volumes
      BY <1>1 DEF EventType
    <3>2. pair \in [Clients -> PairType] /\ pair[c] \in PairType
      BY DEF Typed
    <3>3. [pair[c] EXCEPT !.status = "OPEN", !.known = TRUE, !.clots = e.after] \in PairType
      BY <3>1, <3>2 DEF PairType, Statuses
    <3>4. bound => book = [pair EXCEPT ![c] =
                [pair[c] EXCEPT !.status = "OPEN", !.known = TRUE, !.clots = e.after]]
      BY <3>2
    <3> HIDE DEF e, bound
    <3> QED
      BY <3>2, <3>3, <3>4
  <2>3. S \in SUBSET Clients /\ (S = {} \/ pair[c].wanted \in {"MASTER", "CLIENT"})
    BY DEF Typed, PairType
  <2>4. pair[c].wanted = "CLIENT" => lots[Master] = 0
    BY DEF MasterGone
  <2> HIDE DEF book, S
  <2> QED
    BY <2>1, <2>2, <2>3, <2>4, FullCloseSending
<1>3. ASSUME HearClientIgnored(c, e) PROVE Sending
  BY <1>3, KeepsSending DEF HearClientIgnored
<1>4. ASSUME HearOwnClose(c, e) PROVE Sending
  BY <1>4, KeepsSending DEF HearOwnClose
<1>5. ASSUME HearClientPartial(c, e) PROVE Sending
  BY <1>5, KeepsSending DEF HearClientPartial
<1>6. ASSUME HearClientKept(c, e) PROVE Sending
  BY <1>6, KeepsSending DEF HearClientKept
<1>7. ASSUME HearCascade(c, e) PROVE Sending
  <2>1. CASE MasterClosing
    BY <1>7, <2>1, KeepsSending DEF HearCascade
  <2>2. CASE ~MasterClosing
    <3>1. command' = [command EXCEPT ![c] = Append(@, MasterOrder("CLIENT"))]
      BY <1>7, <2>2 DEF HearCascade
    <3>2. /\ EventOK(c, e)
          /\ e.after = 0 /\ e.kind = "CLOSED" /\ Unclaimed(c, e)
      BY <1>1, <1>7 DEF EventsOK, HearCascade, ByHand, ClientClosed
    <3>3. ASSUME faults'.late = 0 PROVE c \in handClosed
      <4>1. CASE e.by = "hand"
        BY <3>2, <4>1 DEF EventOK
      <4>2. CASE e.by = "bot"
        <5>1. ClickerOrders(c) # {} /\ faults' = [faults EXCEPT !.late = @ + 1]
          BY <3>2, <4>2 DEF EventOK, Unclaimed, GoesWrong
        <5>2. faults.late \in Nat /\ faults \in FaultsType
          BY DEF Typed, FaultsType
        <5> QED
          BY <5>1, <5>2, <3>3 DEF FaultsType
      <4> QED
        BY <4>1, <4>2, <1>1 DEF EventType
    <3> QED
      BY <2>2, <3>1, <3>3, MasterOrderSending
  <2> QED
    BY <2>1, <2>2
<1> QED
  BY <1>2, <1>3, <1>4, <1>5, <1>6, <1>7
\* The step changes one order, never whose it is or what it asks for.
Editing(id) ==
    \E o \in OrderType :
        /\ Edited(id, o)
        /\ o.leg = Cmd(id).leg /\ o.via = Cmd(id).via /\ o.kind = Cmd(id).kind
        /\ o.source = Cmd(id).source
        /\ o.status = "SENT" => Cmd(id).status = "SENT"
        /\ o.answer = "none" => Cmd(id).answer = "none"

LEMMA TakenTyped ==
    ASSUME Typed, NEW id \in Ids
    PROVE  /\ Taken(id) \in 0 .. lots[Cmd(id).leg] /\ Taken(id) \in Volumes
           /\ Cmd(id).leg \in Legs /\ Cmd(id).lots \in Volumes
<1>1. Cmd(id).leg \in Legs /\ Cmd(id).lots \in Volumes
  BY Ordered DEF OrderType
<1>2. lots[Cmd(id).leg] \in 0 .. Lots /\ Cmd(id).lots \in 0 .. Lots /\ Lots \in Nat
  BY <1>1, CloseAssumption DEF Typed, Volumes
<1> QED
  BY <1>1, <1>2 DEF Taken, Volumes

LEMMA AnswerEditing ==
    ASSUME Typed, NEW id \in Ids, NEW a \in Answers, NEW n \in Volumes, Answer(id, a, n)
    PROVE  Editing(id)
<1> DEFINE o == [Cmd(id) EXCEPT !.answer = a, !.lots = n]
<1>1. Edited(id, o)
  BY AnswerEdits
<1>2. Cmd(id) \in OrderType
  BY Ordered
<1>3. /\ o \in OrderType /\ o.leg = Cmd(id).leg /\ o.via = Cmd(id).via /\ o.kind = Cmd(id).kind
      /\ o.source = Cmd(id).source /\ o.status = Cmd(id).status /\ o.answer # "none"
  BY <1>2 DEF OrderType, Answers
<1> HIDE DEF o
<1> QED
  BY <1>1, <1>3 DEF Editing

LEMMA AgentEditing ==
    ASSUME Typed, NEW id \in Ids
    PROVE  /\ Fill(id) => Editing(id)
           /\ FindGone(id) => Editing(id)
           /\ Refuse(id) => Editing(id)
           /\ OpenCopy(id) => Editing(id)
<1>1. ASSUME Fill(id) PROVE Editing(id)
  <2>1. Answer(id, "ok", Taken(id)) \/ Answer(id, "unknown", Taken(id))
    BY <1>1 DEF Fill
  <2> QED
    BY <2>1, TakenTyped, AnswerEditing DEF Answers
<1>2. ASSUME FindGone(id) PROVE Editing(id)
  BY <1>2, AnswerEditing, CloseAssumption DEF FindGone, Answers, Volumes
<1>3. ASSUME Refuse(id) PROVE Editing(id)
  <2>1. \/ Answer(id, "failed", Cmd(id).lots) \/ Answer(id, "rejected", Cmd(id).lots)
        \/ Answer(id, "unknown", 0)
    BY <1>3 DEF Refuse
  <2>2. 0 \in Volumes
    BY CloseAssumption DEF Volumes
  <2> QED
    BY <2>1, <2>2, TakenTyped, AnswerEditing DEF Answers
<1>4. ASSUME OpenCopy(id) PROVE Editing(id)
  BY <1>4, AnswerEditing, CloseAssumption DEF OpenCopy, Answers, Volumes
<1> QED
  BY <1>1, <1>2, <1>3, <1>4

LEMMA HeardEditing ==
    ASSUME Typed, NEW id \in Ids, Heard(id, "ACK_OK") \/ Heard(id, "ACK_FAILED") \/ Heard(id, "TIMEOUT")
    PROVE  Editing(id)
<1>0. PICK st \in {"ACK_OK", "ACK_FAILED", "TIMEOUT"} : Heard(id, st)
  OBVIOUS
<1>1. Edited(id, [Cmd(id) EXCEPT !.status = st, !.heard = TRUE])
  BY <1>0, HeardEdits
<1> DEFINE o == [Cmd(id) EXCEPT !.status = st, !.heard = TRUE]
<1>2. Cmd(id) \in OrderType
  BY Ordered
<1>3. /\ o \in OrderType /\ o.leg = Cmd(id).leg /\ o.via = Cmd(id).via /\ o.kind = Cmd(id).kind
      /\ o.source = Cmd(id).source /\ o.status # "SENT" /\ o.answer = Cmd(id).answer
  BY <1>2 DEF OrderType
<1> HIDE DEF o
<1> QED
  BY <1>1, <1>3 DEF Editing, o

LEMMA BridgeEditing ==
    ASSUME Typed, NEW id \in Ids
    PROVE  /\ AckMaster(id) => Editing(id)
           /\ AckClosed(id) => Editing(id)
           /\ AckPartial(id) => Editing(id)
           /\ AckUnknown(id) => Editing(id)
           /\ AckFailed(id) => Editing(id)
           /\ AckOpen(id) => Editing(id)
           /\ Timeout(id) => Editing(id)
           /\ CancelExpired(id) => Editing(id)
           /\ LoseAnswer(id) => Editing(id)
<1>1. Cmd(id) \in OrderType
  BY Ordered
<1>2. /\ AckMaster(id) => Heard(id, "ACK_OK")
      /\ AckClosed(id) => Heard(id, "ACK_OK")
      /\ AckPartial(id) => Heard(id, "ACK_OK")
      /\ AckUnknown(id) => Heard(id, "TIMEOUT")
      /\ AckFailed(id) => Heard(id, "ACK_FAILED")
      /\ AckOpen(id) => Heard(id, "ACK_OK") \/ Heard(id, "ACK_FAILED")
  BY DEF AckMaster, AckClosed, AckPartial, AckUnknown, AckFailed, AckOpen
<1>3. ASSUME NEW st \in {"TIMEOUT", "CANCELLED"}, Edited(id, [Cmd(id) EXCEPT !.status = st])
      PROVE  Editing(id)
  <2> DEFINE o == [Cmd(id) EXCEPT !.status = st]
  <2>1. /\ o \in OrderType /\ o.leg = Cmd(id).leg /\ o.via = Cmd(id).via /\ o.kind = Cmd(id).kind
        /\ o.source = Cmd(id).source /\ o.status # "SENT" /\ o.answer = Cmd(id).answer
    BY <1>1 DEF OrderType
  <2> HIDE DEF o
  <2> QED
    BY <1>3, <2>1 DEF Editing, o
<1>4. ASSUME Edited(id, [Cmd(id) EXCEPT !.heard = TRUE]) PROVE Editing(id)
  <2> DEFINE o == [Cmd(id) EXCEPT !.heard = TRUE]
  <2>1. /\ o \in OrderType /\ o.leg = Cmd(id).leg /\ o.via = Cmd(id).via /\ o.kind = Cmd(id).kind
        /\ o.source = Cmd(id).source /\ o.status = Cmd(id).status /\ o.answer = Cmd(id).answer
    BY <1>1 DEF OrderType
  <2> HIDE DEF o
  <2> QED
    BY <1>4, <2>1 DEF Editing, o
<1> QED
  BY <1>2, <1>3, <1>4, HeardEditing, StatusEdits

LEMMA TasksSending ==
    ASSUME Typed, MasterGone
    PROVE  /\ \A id \in waiting : CascadeOn(id) => Sending
           /\ EmergencyClients => Sending
           /\ EmergencyMaster => Sending
<1>1. ASSUME NEW id \in waiting, CascadeOn(id) PROVE Sending
  <2> DEFINE S == {c \in Clients \ {id[1]} : Alive(c)}
  <2>1. CloseFully(pair, S, "CLIENT") /\ lots[Master] = 0
    BY <1>1 DEF CascadeOn, MasterGone
  <2>2. pair \in [Clients -> PairType] /\ S \in SUBSET Clients
    BY DEF Typed
  <2> HIDE DEF S
  <2> QED
    BY <2>1, <2>2, FullCloseSending
<1>2. ASSUME EmergencyClients PROVE Sending
  <2> DEFINE able == {c \in Clients : Alive(c) /\ pair[c].known /\ ~Busy(c)}
             n == [c \in able |-> 0]
  <2>1. /\ command' = [c \in Clients |-> IF c \in able THEN Sent(c, "CLOSE", 0, "BOT") ELSE command[c]]
        /\ pair' = [c \in Clients |-> IF c \in able THEN [pair[c] EXCEPT !.status = "CLOSING"]
                                      ELSE pair[c]]
    BY <1>2 DEF EmergencyClients
  <2>2. n \in [able -> Volumes] /\ able \in SUBSET Clients
    BY CloseAssumption DEF Volumes
  <2>3. \A c \in able : pair[c].known /\ ~Busy(c) /\ pair'[c].known = pair[c].known
    BY <2>1 DEF Typed, PairType
  <2>4. command' = [c \in Clients |-> IF c \in able THEN Sent(c, "CLOSE", n[c], "BOT") ELSE command[c]]
    BY <2>1
  <2> HIDE DEF able, n
  <2>5. Added(Reached(able), [c \in Reached(able) |-> Order(c, Via(c), "CLOSE", n[c], "BOT")])
    BY <2>2, <2>4, Sends
  <2>6. ASSUME NEW j \in Ids' \ Ids PROVE Fresh(j)
    <3>1. /\ j[1] \in Reached(able) /\ j = <<j[1], Len(command[j[1]]) + 1>>
          /\ Cmd(j)' = Order(j[1], Via(j[1]), "CLOSE", n[j[1]], "BOT")
      BY <2>5 DEF Added
    <3>2. j[1] \in able
      BY <3>1 DEF Reached
    <3> QED
      BY <3>1, <3>2, <2>2, <2>3 DEF Fresh, Order
  <2> QED
    BY <2>5, <2>6 DEF Sending, Added
<1>3. ASSUME EmergencyMaster PROVE Sending
  <2>1. CASE mbook = "CLOSED" \/ MasterClosing
    BY <1>3, <2>1, KeepsSending DEF EmergencyMaster
  <2>2. CASE ~(mbook = "CLOSED" \/ MasterClosing)
    <3>1. PICK c \in emergency.pairs : command' = [command EXCEPT ![c] = Append(@, MasterOrder("BOT"))]
      BY <1>3, <2>2 DEF EmergencyMaster
    <3>2. c \in Clients
      BY <3>1 DEF Typed
    <3> QED
      BY <2>2, <3>1, <3>2, MasterOrderSending
  <2> QED
    BY <2>1, <2>2
<1> QED
  BY <1>1, <1>2, <1>3

\* What a step does to the orders.
Handled(id) == Agent(id) \/ HearAnswer(id) \/ Timeout(id) \/ CancelExpired(id)

Moves ==
    \/ Sending
    \/ \E id \in Ids : Editing(id) /\ Handled(id)
    \/ \E id \in Ids : AckFallBack(id)

LEMMA OrdersMove ==
    ASSUME Typed, EventsAddUp, BookBehind, MasterGone, EventsOK, [Next]_vars PROVE Moves
<1>1. CASE UNCHANGED vars
  BY <1>1, KeepsSending DEF Moves, vars, tables
<1>2. CASE Next
  <2>1. ASSUME NEW l \in Legs, NEW n \in 1 .. Lots, HandClose(l, n) PROVE Moves
    BY <2>1, KeepsSending DEF Moves, HandClose, tables
  <2>2. ASSUME NEW id \in Ids, Agent(id) \/ HearAnswer(id) \/ Timeout(id) \/ CancelExpired(id)
        PROVE  Moves
    BY <2>2, AgentEditing, BridgeEditing DEF Moves, Handled, Agent, HearAnswer
  <2>3. ASSUME events[Master] # <<>>, RouteMaster(Head(events[Master])) PROVE Moves
    BY <2>3, MasterEventsSending DEF Moves, RouteMaster
  <2>4. ASSUME NEW c \in Clients, events[c] # <<>>, RouteClient(c, Head(events[c])) PROVE Moves
    BY <2>4, ClientEventsSending DEF Moves, RouteClient
  <2>5. ASSUME NEW id \in waiting, CascadeOn(id) \/ CascadeGiveUp(id) PROVE Moves
    <3>1. CASE CascadeOn(id)
      BY <3>1, TasksSending DEF Moves
    <3>2. CASE CascadeGiveUp(id)
      BY <3>2, KeepsSending DEF Moves, CascadeGiveUp
    <3> QED
      BY <2>5, <3>1, <3>2
  <2>6. ASSUME SetMode \/ Rearm PROVE Moves
    BY <2>6, KeepsSending DEF Moves, SetMode, Rearm, tables
  <2>7. ASSUME EmergencyClients \/ EmergencyMaster PROVE Moves
    BY <2>7, TasksSending DEF Moves
  <2>8. ASSUME NEW l \in Clickered, ClickerStatus(l) PROVE Moves
    BY <2>8, KeepsSending DEF Moves, ClickerStatus
  <2>9. ASSUME BridgeCrash PROVE Moves
    BY <2>9, KeepsSending DEF Moves, BridgeCrash
  <2> QED
    BY <1>2, <2>1, <2>2, <2>3, <2>4, <2>5, <2>6, <2>7, <2>8, <2>9 DEF Next
<1> QED
  BY <1>1, <1>2

CommandTyped ==
    /\ command \in [Clients -> Seq(OrderType)]
    /\ \A id \in Ids : Cmd(id).leg \in {id[1], Master}

LEMMA CommandsTyped == ASSUME Typed, Moves PROVE CommandTyped' /\ Ids \subseteq Ids'
<1>1. CASE Sending
  <2>1. ASSUME NEW j \in Ids' PROVE Cmd(j)'.leg \in {j[1], Master}
    <3>1. CASE j \in Ids
      BY <1>1, <3>1 DEF Sending, Typed
    <3>2. CASE j \notin Ids
      BY <1>1, <3>2 DEF Sending, Fresh
    <3> QED BY <3>1, <3>2
  <2> QED
    BY <1>1, <2>1 DEF CommandTyped, Sending
<1>2. ASSUME NEW id \in Ids, Editing(id) PROVE CommandTyped' /\ Ids \subseteq Ids'
  BY <1>2 DEF CommandTyped, Editing, Edited, Typed
<1>3. ASSUME NEW id \in Ids, AckFallBack(id) PROVE CommandTyped' /\ Ids \subseteq Ids'
  <2> DEFINE o == [Cmd(id) EXCEPT !.status = "ACK_FAILED", !.heard = TRUE]
             x == Order(Cmd(id).leg, "EA", Cmd(id).kind, Cmd(id).lots, Cmd(id).source)
  <2>1. Replaced(id, o, x)
    BY <1>3, FallBackReplaces
  <2>2. Cmd(id) \in OrderType /\ Cmd(id).leg \in {id[1], Master}
    BY Ordered
  <2>3. o.leg = Cmd(id).leg /\ x.leg = Cmd(id).leg
    BY <2>2 DEF OrderType, Order
  <2> HIDE DEF o, x
  <2>4. ASSUME NEW j \in Ids' PROVE Cmd(j)'.leg \in {j[1], Master}
    <3>1. CASE j \in Ids
      BY <2>1, <2>2, <2>3, <3>1 DEF Replaced, Typed
    <3>2. CASE j \notin Ids
      BY <2>1, <2>2, <2>3, <3>2 DEF Replaced
    <3> QED BY <3>1, <3>2
  <2> QED
    BY <2>1, <2>4 DEF CommandTyped, Replaced
<1> QED
  BY <1>1, <1>2, <1>3 DEF Moves

\* Everything but the orders and the tasks that wait for one.
RestTyped ==
    /\ pair \in [Clients -> PairType]
    /\ mbook \in {"OPEN", "CLOSED"} /\ mode \in Modes
    /\ events \in [Legs -> Seq(EventType)]
    /\ online \subseteq Clickered
    /\ emergency \in [phase : {"off", "waiting", "done"}, pairs : SUBSET Clients]
    /\ lots \in [Legs -> Volumes]
    /\ told \subseteq Legs /\ passedOver \subseteq Clients
    /\ handClosed \subseteq Clients /\ unfollowed \subseteq Legs
    /\ faults \in FaultsType

LEMMA FaultsTyped ==
    ASSUME Typed
    PROVE  /\ faults \in FaultsType
           /\ [faults EXCEPT !.hand = @ + 1] \in FaultsType
           /\ [faults EXCEPT !.switches = @ + 1] \in FaultsType
           /\ GoesWrong("late") => faults' \in FaultsType
           /\ GoesWrong("lost") => faults' \in FaultsType
           /\ GoesWrong("failures") => faults' \in FaultsType
           /\ GoesWrong("crashes") => faults' \in FaultsType
<1>1. faults \in FaultsType
  BY DEF Typed
<1>2. /\ [faults EXCEPT !.hand = @ + 1] \in FaultsType
      /\ [faults EXCEPT !.switches = @ + 1] \in FaultsType
      /\ [faults EXCEPT !.late = @ + 1] \in FaultsType
      /\ [faults EXCEPT !.lost = @ + 1] \in FaultsType
      /\ [faults EXCEPT !.failures = @ + 1] \in FaultsType
      /\ [faults EXCEPT !.crashes = @ + 1] \in FaultsType
  BY ONLY <1>1 DEF FaultsType
<1> QED
  BY <1>1, <1>2 DEF GoesWrong

LEMMA CausesAreOrders == ASSUME NEW l PROVE CausesFor(l) \subseteq Ids
  BY DEF CausesFor

LEMMA AgentTyped ==
    ASSUME Typed, NEW id \in Ids
    PROVE  /\ Fill(id) => RestTyped' /\ UNCHANGED waiting
           /\ FindGone(id) => RestTyped' /\ UNCHANGED waiting
           /\ Refuse(id) => RestTyped' /\ UNCHANGED waiting
           /\ OpenCopy(id) => RestTyped' /\ UNCHANGED waiting
           /\ LoseAnswer(id) => RestTyped' /\ UNCHANGED waiting
<1>1. ASSUME Fill(id) PROVE RestTyped' /\ UNCHANGED waiting
  <2>1. \E cause \in {None} \cup Ids : Deal(Cmd(id).leg, Taken(id), cause, "bot")
    BY <1>1, CausesAreOrders DEF Fill
  <2>2. lots' \in [Legs -> Volumes] /\ events' \in [Legs -> Seq(EventType)]
    BY <2>1, TakenTyped, DealTyped
  <2>3. faults' \in FaultsType
    BY <1>1, FaultsTyped DEF Fill
  <2>4. UNCHANGED <<pair, mbook, mode, online, memory, history>>
    BY <1>1 DEF Fill, Answer
  <2> QED
    BY <2>2, <2>3, <2>4 DEF RestTyped, Typed, memory, history
<1>2. ASSUME FindGone(id) PROVE RestTyped' /\ UNCHANGED waiting
  BY <1>2 DEF FindGone, Answer, RestTyped, Typed, memory, history
<1>3. ASSUME Refuse(id) PROVE RestTyped' /\ UNCHANGED waiting
  <2>1. /\ faults' \in FaultsType
        /\ UNCHANGED <<pair, mbook, mode, online, memory, history, events, lots>>
    BY <1>3, FaultsTyped DEF Refuse, Answer
  <2> QED
    BY <2>1 DEF RestTyped, Typed, memory, history
<1>4. ASSUME OpenCopy(id) PROVE RestTyped' /\ UNCHANGED waiting
  <2>1. id[1] \in Clients /\ Lots \in Volumes /\ 0 \in Volumes
    BY Ordered, CloseAssumption DEF Volumes
  <2>2. lots' \in [Legs -> Volumes]
    BY <1>4, <2>1 DEF OpenCopy, Typed
  <2>3. Event("OPENED", Lots, 0, None, "bot") \in EventType
    BY <2>1 DEF Event, EventType
  <2>4. events' \in [Legs -> Seq(EventType)]
    <3>1. events \in [Legs -> Seq(EventType)]
      BY DEF Typed
    <3>2. \A q \in Seq(EventType) : Append(q, Event("OPENED", Lots, 0, None, "bot")) \in Seq(EventType)
      BY <2>3, AppendProperties
    <3>3. events' = [events EXCEPT ![id[1]] = Append(@, Event("OPENED", Lots, 0, None, "bot"))]
          \/ events' = events
      BY <1>4 DEF OpenCopy
    <3> QED
      BY <3>1, <3>2, <3>3
  <2>5. UNCHANGED <<pair, mbook, mode, online, memory, history, faults>>
    BY <1>4 DEF OpenCopy, Answer
  <2> QED
    BY <2>2, <2>4, <2>5 DEF RestTyped, Typed, memory, history
<1>5. ASSUME LoseAnswer(id) PROVE RestTyped' /\ UNCHANGED waiting
  <2>1. /\ faults' \in FaultsType
        /\ UNCHANGED <<pair, mbook, mode, online, memory, history, events, lots>>
    BY <1>5, FaultsTyped DEF LoseAnswer
  <2> QED
    BY <2>1 DEF RestTyped, Typed, memory, history
<1> QED
  BY <1>1, <1>2, <1>3, <1>4, <1>5

LEMMA PairSet ==
    ASSUME Typed, NEW c \in Clients, NEW p \in PairType, SetPair(c, p)
    PROVE  pair' \in [Clients -> PairType]
  BY DEF SetPair, Typed

LEMMA MarkClosedTyped ==
    ASSUME Typed, NEW c \in Clients
    PROVE  /\ MarkClosed(c) \in PairType
           /\ MarkClosed(c).status = "CLOSED" /\ MarkClosed(c).clots = 0
           /\ MarkClosed(c).mlots \in {0, pair[c].mlots}
           /\ MarkClosed(c).known = pair[c].known /\ MarkClosed(c).wanted = pair[c].wanted
<1>1. pair[c] \in PairType /\ 0 \in Volumes
  BY CloseAssumption DEF Typed, Volumes
<1> QED
  BY ONLY <1>1 DEF MarkClosed, PairType, Statuses, Terminal

LEMMA BridgeTyped ==
    ASSUME Typed, NEW id \in Ids
    PROVE  /\ AckMaster(id) => RestTyped' /\ UNCHANGED waiting
           /\ AckClosed(id) => RestTyped' /\ UNCHANGED waiting
           /\ AckPartial(id) => RestTyped' /\ UNCHANGED waiting
           /\ AckUnknown(id) => RestTyped' /\ UNCHANGED waiting
           /\ AckFailed(id) => RestTyped' /\ UNCHANGED waiting
           /\ AckFallBack(id) => RestTyped' /\ UNCHANGED waiting
           /\ AckOpen(id) => RestTyped' /\ UNCHANGED waiting
           /\ Timeout(id) => RestTyped' /\ UNCHANGED waiting
           /\ CancelExpired(id) => RestTyped' /\ UNCHANGED waiting
<1> DEFINE c == id[1]
<1>0. /\ c \in Clients /\ pair[c] \in PairType /\ 0 \in Volumes /\ Lots \in Volumes /\ Lots \in Nat
      /\ Cmd(id).leg \in Legs /\ Cmd(id).lots \in Volumes
      /\ pair \in [Clients -> PairType]
  BY Ordered, TakenTyped, CloseAssumption DEF Typed, Volumes
<1> HIDE DEF c
<1>a. ASSUME NEW a, Answered(id, a) PROVE UNCHANGED <<mode, online, events, memory, lots, passedOver, handClosed, unfollowed, faults>>
  BY <1>a DEF Answered
<1>1. ASSUME AckMaster(id) PROVE RestTyped' /\ UNCHANGED waiting
  <2>1. pair' \in [Clients -> PairType] /\ mbook' = "CLOSED"
    BY <1>0, <1>1 DEF AckMaster, PairType
  <2>2. UNCHANGED <<mode, online, events, memory, lots, passedOver, handClosed, unfollowed, faults, told>>
    BY <1>1, <1>a DEF AckMaster
  <2> QED
    BY <2>1, <2>2 DEF RestTyped, Typed, memory
<1>2. ASSUME AckClosed(id) PROVE RestTyped' /\ UNCHANGED waiting
  <2>1. pair' \in [Clients -> PairType]
    BY <1>0, <1>2, PairSet, MarkClosedTyped DEF AckClosed, c
  <2>2. UNCHANGED <<mode, online, events, memory, lots, passedOver, handClosed, unfollowed, faults, told, mbook>>
    BY <1>2, <1>a DEF AckClosed
  <2> QED
    BY <2>1, <2>2 DEF RestTyped, Typed, memory
<1>3. ASSUME AckPartial(id) PROVE RestTyped' /\ UNCHANGED waiting
  <2> DEFINE executed == IF Cmd(id).via = "EA" THEN Cmd(id).lots ELSE 0
  <2>1. SetPair(c, IF pair[c].clots <= executed THEN MarkClosed(c)
                      ELSE [pair[c] EXCEPT !.status = "PARTIALLY_CLOSED",
                                           !.clots = @ - executed])
    BY <1>3 DEF AckPartial, c
  <2>2. executed \in Nat /\ pair[c].clots \in 0 .. Lots
    BY <1>0 DEF PairType, Volumes
  <2> HIDE DEF executed
  <2>3. ASSUME ~(pair[c].clots <= executed)
        PROVE  [pair[c] EXCEPT !.status = "PARTIALLY_CLOSED", !.clots = @ - executed] \in PairType
    <3>1. pair[c].clots - executed \in Volumes
      BY <1>0, <2>2, <2>3 DEF Volumes
    <3> QED
      BY <1>0, <3>1 DEF PairType, Statuses
  <2>4. pair' \in [Clients -> PairType]
    BY <1>0, <2>1, <2>3, PairSet, MarkClosedTyped
  <2>5. UNCHANGED <<mode, online, events, memory, lots, passedOver, handClosed, unfollowed, faults, told, mbook>>
    BY <1>3, <1>a DEF AckPartial
  <2> QED
    BY <2>4, <2>5 DEF RestTyped, Typed, memory
<1>4. ASSUME AckUnknown(id) PROVE RestTyped' /\ UNCHANGED waiting
  <2>1. UNCHANGED <<mode, online, events, memory, lots, passedOver, handClosed, unfollowed, faults, pair, mbook>>
        /\ told' = told \cup {Cmd(id).leg}
    BY <1>4, <1>a DEF AckUnknown
  <2> QED
    BY <1>0, <2>1 DEF RestTyped, Typed, memory
<1>5. ASSUME AckFailed(id) PROVE RestTyped' /\ UNCHANGED waiting
  <2>1. UNCHANGED <<mode, online, events, memory, lots, passedOver, handClosed, unfollowed, faults, mbook>>
        /\ told' = told \cup {Cmd(id).leg}
    BY <1>5, <1>a DEF AckFailed
  <2>2. pair' \in [Clients -> PairType]
    BY <1>0, <1>5 DEF AckFailed, c, PairType, Statuses
  <2> QED
    BY <1>0, <2>1, <2>2 DEF RestTyped, Typed, memory
<1>6. ASSUME AckFallBack(id) PROVE RestTyped' /\ UNCHANGED waiting
  <2>1. UNCHANGED <<mode, online, events, memory, lots, passedOver, handClosed, unfollowed, faults, mbook, pair, told>>
    BY <1>6, <1>a DEF AckFallBack
  <2> QED
    BY <2>1 DEF RestTyped, Typed, memory
<1>7. ASSUME AckOpen(id) PROVE RestTyped' /\ UNCHANGED waiting
  <2>1. UNCHANGED <<mode, online, events, memory, lots, passedOver, handClosed, unfollowed, faults, mbook, told>>
    BY <1>7, <1>a DEF AckOpen
  <2>2. \/ UNCHANGED pair \/ pair' = [pair EXCEPT ![c].status = "OPEN_FAILED"]
        \/ pair' = [pair EXCEPT ![c].status = "OPEN", ![c].known = TRUE, ![c].clots = Lots]
    BY <1>7 DEF AckOpen, c
  <2>3. pair' \in [Clients -> PairType]
    BY <1>0, <2>2 DEF PairType, Statuses, Terminal
  <2> QED
    BY <2>1, <2>3 DEF RestTyped, Typed, memory
<1>8. ASSUME Timeout(id) \/ CancelExpired(id) PROVE RestTyped' /\ UNCHANGED waiting
  <2>1. /\ told' = told \cup {Cmd(id).leg}
        /\ UNCHANGED <<pair, mbook, mode, online, events, memory, lots, passedOver, handClosed, unfollowed>>
        /\ faults' \in FaultsType
    BY <1>8, FaultsTyped DEF Timeout, CancelExpired
  <2> QED
    BY <1>0, <2>1 DEF RestTyped, Typed, memory
<1> QED
  BY <1>1, <1>2, <1>3, <1>4, <1>5, <1>6, <1>7, <1>8
LEMMA HandTyped ==
    ASSUME Typed, NEW l \in Legs, NEW n \in 1 .. Lots, HandClose(l, n)
    PROVE  RestTyped' /\ UNCHANGED waiting
<1>1. /\ \E cause \in {None} \cup Ids : Deal(l, n, cause, "hand") /\ unfollowed' \subseteq Legs
      /\ n \in 0 .. lots[l]
  <2>1. n \in 0 .. lots[l]
    <3>1. n \in 1 .. lots[l] /\ lots[l] \in 0 .. Lots /\ Lots \in Nat
      BY CloseAssumption DEF HandClose, Typed, Volumes
    <3> QED BY <3>1
  <2> QED
    BY <2>1, CausesAreOrders DEF HandClose, Typed
<1>2. lots' \in [Legs -> Volumes] /\ events' \in [Legs -> Seq(EventType)] /\ unfollowed' \subseteq Legs
  BY <1>1, DealTyped
<1>3. /\ handClosed' \subseteq Clients /\ faults' \in FaultsType
      /\ UNCHANGED <<tables, memory, told, passedOver>>
  BY FaultsTyped DEF HandClose, Typed
<1> QED
  BY <1>2, <1>3 DEF RestTyped, Typed, tables, memory

LEMMA MasterEventsTyped ==
    ASSUME Typed, events[Master] # <<>>
    PROVE  /\ HearMasterIgnored(Head(events[Master])) => RestTyped' /\ UNCHANGED waiting
           /\ HearMasterClosed(Head(events[Master])) => RestTyped' /\ UNCHANGED waiting
           /\ HearMasterPartial(Head(events[Master])) => RestTyped' /\ UNCHANGED waiting
<1> DEFINE e == Head(events[Master])
<1>1. /\ Master \in Legs /\ e \in EventType /\ e.after \in Volumes
      /\ pair \in [Clients -> PairType]
  BY HeadOfEvents DEF Legs, EventType, Typed
<1> HIDE DEF e
<1>2. ASSUME NextEvent(Master, e)
      PROVE  /\ events' \in [Legs -> Seq(EventType)] /\ lots' \in [Legs -> Volumes]
             /\ UNCHANGED <<mode, online, lots, handClosed>>
  BY <1>1, <1>2, NextEventTyped DEF e
<1>3. ASSUME (\E byClicker \in BOOLEAN : Claimed(Master, e, byClicker)) \/ Unclaimed(Master, e)
      PROVE  faults' \in FaultsType /\ unfollowed' \subseteq Legs
  BY <1>1, <1>3, FaultsTyped DEF Claimed, Unclaimed, Typed
<1>4. ASSUME BookMaster(e) PROVE mbook' \in {"OPEN", "CLOSED"}
  BY <1>4 DEF BookMaster
<1>5. ASSUME HearMasterIgnored(e) PROVE RestTyped' /\ UNCHANGED waiting
  <2>1. UNCHANGED <<pair, command, memory, told, passedOver>>
        /\ NextEvent(Master, e) /\ BookMaster(e)
        /\ ((\E byClicker \in BOOLEAN : Claimed(Master, e, byClicker)) \/ Unclaimed(Master, e))
    BY <1>5 DEF HearMasterIgnored
  <2> QED
    BY <2>1, <1>2, <1>3, <1>4 DEF RestTyped, Typed, memory
<1>6. ASSUME HearMasterClosed(e) PROVE RestTyped' /\ UNCHANGED waiting
  <2> DEFINE S == {c \in Clients : Alive(c)}
  <2>1. NextEvent(Master, e) /\ BookMaster(e) /\ Unclaimed(Master, e) /\ UNCHANGED memory
        /\ CloseFully(pair, S, "MASTER")
    BY <1>6 DEF HearMasterClosed
  <2>2. S \in SUBSET Clients
    OBVIOUS
  <2> HIDE DEF S
  <2>3. FullyClosed(pair, S, "MASTER")
    BY <2>1, <2>2, <1>1, ClosesFully
  <2> QED
    BY <2>1, <2>3, <1>2, <1>3, <1>4 DEF RestTyped, Typed, memory, FullyClosed
<1>7. ASSUME HearMasterPartial(e) PROVE RestTyped' /\ UNCHANGED waiting
  <2>1. NextEvent(Master, e) /\ BookMaster(e) /\ Unclaimed(Master, e)
        /\ UNCHANGED <<memory, passedOver>>
    BY <1>7 DEF HearMasterPartial
  <2>2. told' \subseteq Legs
    BY <1>7 DEF HearMasterPartial, Typed, Legs
  <2>3. pair' \in [Clients -> PairType]
    <3>1. \A c \in Clients : /\ [pair[c] EXCEPT !.mlots = e.after, !.status = "PARTIALLY_CLOSED"] \in PairType
                             /\ [pair[c] EXCEPT !.mlots = e.after] \in PairType
                             /\ pair[c] \in PairType
      BY <1>1 DEF PairType, Statuses
    <3>2. \A c \in Clients : pair'[c] \in PairType
      BY <1>7, <3>1 DEF HearMasterPartial
    <3>3. \E f : pair' = [c \in Clients |-> f[c]]
      <4> DEFINE f == [c \in Clients |-> pair'[c]]
      <4>1. pair' = [c \in Clients |-> f[c]]
        BY <1>7 DEF HearMasterPartial
      <4> QED BY <4>1
    <3> QED
      BY <3>2, <3>3
  <2> QED
    BY <2>1, <2>2, <2>3, <1>2, <1>3, <1>4 DEF RestTyped, Typed, memory
<1> QED
  BY <1>5, <1>6, <1>7 DEF e
\* The table with which _bind asks for the deferred close, and whose close it is.
Bound(c, e) ==
    IF pair[c].status = "PENDING_OPEN"
    THEN [pair EXCEPT ![c].status = "OPEN", ![c].known = TRUE, ![c].clots = e.after]
    ELSE pair
Deferred(c) == IF pair[c].status = "PENDING_OPEN" /\ pair[c].wanted # None THEN {c} ELSE {}

LEMMA OpenedCloses ==
    ASSUME Typed, NEW c \in Clients, NEW e \in EventType, HearOpened(c, e)
    PROVE  /\ FullyClosed(Bound(c, e), Deferred(c), pair[c].wanted)
           /\ \A d \in Clients : d # c => Bound(c, e)[d] = pair[d]
           /\ Bound(c, e)[c] = IF pair[c].status = "PENDING_OPEN"
                  THEN [pair[c] EXCEPT !.status = "OPEN", !.known = TRUE, !.clots = e.after]
                  ELSE pair[c]
<1>1. CloseFully(Bound(c, e), Deferred(c), pair[c].wanted)
  BY DEF HearOpened, Bound, Deferred
<1>2. pair \in [Clients -> PairType] /\ pair[c] \in PairType /\ e.after \in Volumes
  BY DEF Typed, EventType
<1>3. [pair[c] EXCEPT !.status = "OPEN", !.known = TRUE, !.clots = e.after] \in PairType
  BY <1>2 DEF PairType, Statuses
<1>4. pair[c].status = "PENDING_OPEN" => Bound(c, e) = [pair EXCEPT ![c] =
          [pair[c] EXCEPT !.status = "OPEN", !.known = TRUE, !.clots = e.after]]
  BY <1>2 DEF Bound
<1>5. pair[c].status # "PENDING_OPEN" => Bound(c, e) = pair
  BY DEF Bound
<1>6. Bound(c, e) \in [Clients -> PairType]
  BY <1>2, <1>3, <1>4, <1>5
<1>7. Deferred(c) \in SUBSET Clients /\ (Deferred(c) = {} \/ pair[c].wanted \in {"MASTER", "CLIENT"})
  BY <1>2 DEF Deferred, PairType
<1>8. FullyClosed(Bound(c, e), Deferred(c), pair[c].wanted)
  BY <1>1, <1>6, <1>7, ClosesFully
<1> QED
  BY <1>2, <1>4, <1>5, <1>8

LEMMA ClientEventsTyped ==
    ASSUME Typed, NEW c \in Clients, events[c] # <<>>
    PROVE  /\ HearOpened(c, Head(events[c])) => RestTyped' /\ UNCHANGED waiting
           /\ HearClientIgnored(c, Head(events[c])) => RestTyped' /\ UNCHANGED waiting
           /\ HearOwnClose(c, Head(events[c])) => RestTyped' /\ UNCHANGED waiting
           /\ HearClientPartial(c, Head(events[c])) => RestTyped' /\ UNCHANGED waiting
           /\ HearClientKept(c, Head(events[c])) => RestTyped' /\ UNCHANGED waiting
           /\ HearCascade(c, Head(events[c])) => RestTyped' /\ waiting' \subseteq Ids'
<1> DEFINE e == Head(events[c])
<1>1. /\ c \in Legs /\ e \in EventType /\ e.after \in Volumes /\ 0 \in Volumes
      /\ pair \in [Clients -> PairType] /\ pair[c] \in PairType
  <2>1. c \in Legs /\ 0 \in Volumes
    BY CloseAssumption DEF Legs, Volumes
  <2>2. e \in EventType
    BY <2>1, HeadOfEvents
  <2>3. pair \in [Clients -> PairType] /\ pair[c] \in PairType
    BY DEF Typed
  <2> HIDE DEF e
  <2> QED
    BY <2>1, <2>2, <2>3 DEF EventType
<1> HIDE DEF e
<1>2. ASSUME NextEvent(c, e)
      PROVE  /\ events' \in [Legs -> Seq(EventType)] /\ lots' \in [Legs -> Volumes]
             /\ UNCHANGED <<mode, online, lots, handClosed>>
  BY <1>1, <1>2, NextEventTyped DEF e
<1>3. ASSUME (\E byClicker \in BOOLEAN : Claimed(c, e, byClicker)) \/ Unclaimed(c, e)
      PROVE  faults' \in FaultsType /\ unfollowed' \subseteq Legs
  BY <1>1, <1>3, FaultsTyped DEF Claimed, Unclaimed, Typed
<1>4. ASSUME HearOpened(c, e) PROVE RestTyped' /\ UNCHANGED waiting
  <2>1. FullyClosed(Bound(c, e), Deferred(c), pair[c].wanted)
    BY <1>1, <1>4, OpenedCloses
  <2>2. NextEvent(c, e) /\ UNCHANGED <<mbook, memory, unfollowed, faults>>
    BY <1>4 DEF HearOpened
  <2> QED
    BY <2>1, <2>2, <1>2 DEF RestTyped, Typed, memory, FullyClosed
<1>5. ASSUME HearClientIgnored(c, e) PROVE RestTyped' /\ UNCHANGED waiting
  <2>1. NextEvent(c, e) /\ Unclaimed(c, e)
        /\ UNCHANGED <<pair, mbook, command, memory, told, passedOver>>
    BY <1>5 DEF HearClientIgnored, ClientClosed
  <2> QED
    BY <2>1, <1>2, <1>3 DEF RestTyped, Typed, memory
<1>6. ASSUME HearOwnClose(c, e) PROVE RestTyped' /\ UNCHANGED waiting
  <2>1. PICK byClicker \in BOOLEAN :
        /\ Claimed(c, e, byClicker)
        /\ IF byClicker
           THEN SetPair(c, IF e.after = 0 /\ Alive(c) THEN MarkClosed(c)
                           ELSE [pair[c] EXCEPT !.clots = e.after])
           ELSE UNCHANGED pair
    BY <1>6 DEF HearOwnClose
  <2>2. NextEvent(c, e) /\ UNCHANGED <<mbook, command, memory, told, passedOver>>
    BY <1>6 DEF HearOwnClose, ClientClosed
  <2>3. [pair[c] EXCEPT !.clots = e.after] \in PairType
    BY <1>1 DEF PairType
  <2>4. pair' \in [Clients -> PairType]
    BY <2>1, <2>3, <1>1, PairSet, MarkClosedTyped
  <2> QED
    BY <2>1, <2>2, <2>4, <1>2, <1>3 DEF RestTyped, Typed, memory
<1>7. ASSUME HearClientPartial(c, e) \/ HearClientKept(c, e) PROVE RestTyped' /\ UNCHANGED waiting
  <2>1. NextEvent(c, e) /\ Unclaimed(c, e) /\ UNCHANGED <<mbook, command, memory, passedOver>>
        /\ told' = told \cup {c}
    BY <1>7 DEF HearClientPartial, HearClientKept, ByHand, ClientClosed
  <2>2. \/ SetPair(c, [pair[c] EXCEPT !.clots = e.after, !.status = "PARTIALLY_CLOSED"])
        \/ SetPair(c, [pair[c] EXCEPT !.status = "ORPHANED", !.clots = 0])
    BY <1>7 DEF HearClientPartial, HearClientKept
  <2>3. /\ [pair[c] EXCEPT !.clots = e.after, !.status = "PARTIALLY_CLOSED"] \in PairType
        /\ [pair[c] EXCEPT !.status = "ORPHANED", !.clots = 0] \in PairType
    BY <1>1 DEF PairType, Statuses
  <2>4. pair' \in [Clients -> PairType]
    BY <2>2, <2>3, PairSet
  <2> QED
    BY <2>1, <2>4, <1>1, <1>2, <1>3 DEF RestTyped, Typed, memory
<1>8. ASSUME HearCascade(c, e) PROVE RestTyped' /\ waiting' \subseteq Ids'
  <2>1. NextEvent(c, e) /\ Unclaimed(c, e) /\ UNCHANGED <<mbook, emergency, told, passedOver>>
        /\ SetPair(c, [pair[c] EXCEPT !.status = "CLOSED", !.clots = 0])
    BY <1>8 DEF HearCascade, ByHand, ClientClosed
  <2>2. [pair[c] EXCEPT !.status = "CLOSED", !.clots = 0] \in PairType
    BY <1>1 DEF PairType, Statuses, Terminal
  <2>3. RestTyped'
    BY <2>1, <2>2, <1>1, <1>2, <1>3, PairSet DEF RestTyped, Typed
  <2>4. waiting' \subseteq Ids'
    <3>1. CASE MasterClosing
      <4>1. UNCHANGED <<command, waiting>>
        BY <1>8, <3>1 DEF HearCascade
      <4> QED
        BY <4>1, Keeps DEF Typed
    <3>2. CASE ~MasterClosing
      <4>1. /\ command' = [command EXCEPT ![c] = Append(@, MasterOrder("CLIENT"))]
            /\ waiting' = waiting \cup {<<c, Len(command[c]) + 1>>}
        BY <1>8, <3>2 DEF HearCascade
      <4>2. Added({c}, [d \in {c} |-> MasterOrder("CLIENT")])
        BY <4>1, MasterOrderTyped, AddsOne
      <4> QED
        BY <4>1, <4>2 DEF Added, Typed
    <3> QED
      BY <3>1, <3>2
  <2> QED
    BY <2>3, <2>4
<1> QED
  BY <1>4, <1>5, <1>6, <1>7, <1>8 DEF e

LEMMA TasksTyped ==
    ASSUME Typed
    PROVE  /\ \A id \in waiting : CascadeOn(id) => RestTyped' /\ waiting' \subseteq waiting
           /\ \A id \in waiting : CascadeGiveUp(id) => RestTyped' /\ waiting' \subseteq waiting
           /\ SetMode => RestTyped' /\ waiting' \subseteq waiting
           /\ Rearm => RestTyped' /\ waiting' \subseteq waiting
           /\ EmergencyClients => RestTyped' /\ waiting' \subseteq waiting
           /\ EmergencyMaster => RestTyped' /\ waiting' \subseteq waiting
           /\ BridgeCrash => RestTyped' /\ waiting' \subseteq waiting
           /\ \A l \in Clickered : ClickerStatus(l) => RestTyped' /\ waiting' \subseteq waiting
<1>0. pair \in [Clients -> PairType] /\ \A c \in Clients : pair[c] \in PairType
  BY DEF Typed
<1>1. ASSUME NEW id \in waiting, CascadeOn(id) PROVE RestTyped' /\ waiting' \subseteq waiting
  <2> DEFINE S == {c \in Clients \ {id[1]} : Alive(c)}
  <2>1. CloseFully(pair, S, "CLIENT") /\ waiting' = waiting \ {id}
        /\ UNCHANGED <<mbook, mode, online, emergency, events, lots, handClosed, unfollowed, faults>>
    BY <1>1 DEF CascadeOn
  <2>2. S \in SUBSET Clients
    OBVIOUS
  <2> HIDE DEF S
  <2>3. FullyClosed(pair, S, "CLIENT")
    BY <2>1, <2>2, <1>0, ClosesFully
  <2> QED
    BY <2>1, <2>3 DEF RestTyped, Typed, FullyClosed
<1>2. ASSUME NEW id \in waiting, CascadeGiveUp(id) PROVE RestTyped' /\ waiting' \subseteq waiting
  <2>1. \A c \in Clients : [pair[c] EXCEPT !.status = "ORPHANED"] \in PairType
    BY <1>0 DEF PairType, Statuses
  <2>2. pair' \in [Clients -> PairType]
    BY <1>0, <1>2, <2>1 DEF CascadeGiveUp
  <2>3. told' \subseteq Legs /\ waiting' \subseteq waiting
        /\ UNCHANGED <<mbook, command, mode, online, emergency, events, lots, passedOver,
                   handClosed, unfollowed, faults>>
    BY <1>2 DEF CascadeGiveUp, Typed, Legs
  <2> QED
    BY <2>2, <2>3 DEF RestTyped, Typed
<1>3. ASSUME SetMode PROVE RestTyped' /\ waiting' \subseteq waiting
  BY <1>3, FaultsTyped DEF SetMode, RestTyped, Typed, memory, history
<1>8. ASSUME Rearm PROVE RestTyped' /\ waiting' \subseteq waiting
  BY <1>8 DEF Rearm, RestTyped, Typed, tables, history
<1>4. ASSUME EmergencyClients PROVE RestTyped' /\ waiting' \subseteq waiting
  <2>1. \A c \in Clients : [pair[c] EXCEPT !.status = "CLOSING"] \in PairType
    BY <1>0 DEF PairType, Statuses
  <2>2. pair' \in [Clients -> PairType]
    BY <1>0, <1>4, <2>1 DEF EmergencyClients
  <2>3. /\ told' \subseteq Legs /\ passedOver' \subseteq Clients
        /\ emergency' \in [phase : {"off", "waiting", "done"}, pairs : SUBSET Clients]
        /\ UNCHANGED <<mbook, mode, online, waiting, events, lots, handClosed, unfollowed, faults>>
    BY <1>4 DEF EmergencyClients, Typed, Legs
  <2> QED
    BY <2>2, <2>3 DEF RestTyped, Typed
<1>5. ASSUME EmergencyMaster PROVE RestTyped' /\ waiting' \subseteq waiting
  BY <1>5 DEF EmergencyMaster, RestTyped, Typed, history
<1>6. ASSUME BridgeCrash PROVE RestTyped' /\ waiting' \subseteq waiting
  BY <1>6, FaultsTyped DEF BridgeCrash, RestTyped, Typed, Modes, history
<1>7. ASSUME NEW l \in Clickered, ClickerStatus(l) PROVE RestTyped' /\ waiting' \subseteq waiting
  BY <1>7, FaultsTyped DEF ClickerStatus, RestTyped, Typed, memory, history
<1> QED
  BY <1>1, <1>2, <1>3, <1>4, <1>5, <1>6, <1>7, <1>8

LEMMA TypedInit == Init => Typed
<1> SUFFICES ASSUME Init PROVE Typed
  OBVIOUS
<1>1. PICK pending \in SUBSET Clients :
        /\ pair = [c \in Clients |->
               [status |-> IF c \in pending THEN "PENDING_OPEN" ELSE "OPEN",
                known |-> c \notin pending, wanted |-> None, mlots |-> Lots,
                clots |-> IF c \in pending THEN 0 ELSE Lots]]
        /\ command = [c \in Clients |->
               IF c \in pending
               THEN <<Order(c, IF c \in UiClients THEN "UI" ELSE "EA", "OPEN", Lots, "MASTER")>>
               ELSE <<>>]
        /\ lots = [l \in Legs |-> IF l \in pending THEN 0 ELSE Lots]
  BY DEF Init
<1>2. 0 \in Volumes /\ Lots \in Volumes
  BY CloseAssumption DEF Volumes
<1>3. pair \in [Clients -> PairType] /\ lots \in [Legs -> Volumes]
  BY <1>1, <1>2 DEF PairType, Statuses
<1>4. \A c \in Clients :
        Order(c, IF c \in UiClients THEN "UI" ELSE "EA", "OPEN", Lots, "MASTER") \in OrderType
  BY <1>2 DEF Order, OrderType, Legs
<1>5. command \in [Clients -> Seq(OrderType)]
  <2>1. \A x \in OrderType : <<x>> \in Seq(OrderType)
    OBVIOUS
  <2>2. <<>> \in Seq(OrderType)
    OBVIOUS
  <2> HIDE DEF Order
  <2> QED
    BY <1>1, <1>4, <2>1, <2>2
<1>6. ASSUME NEW id \in Ids PROVE Cmd(id).leg = id[1]
  <2>1. /\ id[1] \in Clients /\ id[2] \in 1 .. Len(command[id[1]])
    BY <1>5, IdsAreOrders DEF Ids, IdsOf
  <2> DEFINE x == Order(id[1], IF id[1] \in UiClients THEN "UI" ELSE "EA", "OPEN", Lots, "MASTER")
  <2>2. command[id[1]] = <<x>> \/ command[id[1]] = <<>>
    BY <1>1, <2>1
  <2>3. x.leg = id[1]
    BY DEF Order
  <2> HIDE DEF x
  <2>4. Cmd(id) = x
    BY <2>1, <2>2 DEF Cmd
  <2> QED
    BY <2>3, <2>4
<1>7. /\ mbook = "OPEN" /\ mode \in {"RUNNING", "PAUSED"} /\ online = Clickered /\ waiting = {}
      /\ emergency = [phase |-> "off", pairs |-> {}]
      /\ told = {} /\ passedOver = {} /\ handClosed = {} /\ unfollowed = {}
      /\ faults = [hand |-> 0, switches |-> 0, late |-> 0, lost |-> 0, failures |-> 0, crashes |-> 0]
      /\ events = [l \in Legs |-> <<>>]
  BY DEF Init
<1>8. events \in [Legs -> Seq(EventType)] /\ faults \in FaultsType
  BY <1>7 DEF FaultsType
<1> QED
  BY <1>3, <1>5, <1>6, <1>7, <1>8 DEF Typed, Modes

LEMMA TypedStep ==
    ASSUME Typed, EventsAddUp, BookBehind, MasterGone, EventsOK, [Next]_vars PROVE Typed'
<1>1. CommandTyped' /\ Ids \subseteq Ids'
  BY OrdersMove, CommandsTyped
<1>2. RestTyped' /\ (waiting' \subseteq waiting \/ waiting' \subseteq Ids')
  <2>0. CASE UNCHANGED vars
    BY <2>0 DEF vars, tables, memory, history, RestTyped, Typed
  <2>1. ASSUME NEW l \in Legs, NEW n \in 1 .. Lots, HandClose(l, n)
        PROVE  RestTyped' /\ waiting' \subseteq waiting
    BY <2>1, HandTyped
  <2>2. ASSUME NEW id \in Ids, Agent(id) \/ HearAnswer(id) \/ Timeout(id) \/ CancelExpired(id)
        PROVE  RestTyped' /\ waiting' \subseteq waiting
    BY <2>2, AgentTyped, BridgeTyped DEF Agent, HearAnswer
  <2>3. ASSUME events[Master] # <<>>, RouteMaster(Head(events[Master]))
        PROVE  RestTyped' /\ waiting' \subseteq waiting
    BY <2>3, MasterEventsTyped DEF RouteMaster
  <2>4. ASSUME NEW c \in Clients, events[c] # <<>>, RouteClient(c, Head(events[c]))
        PROVE  RestTyped' /\ (waiting' \subseteq waiting \/ waiting' \subseteq Ids')
    BY <2>4, ClientEventsTyped DEF RouteClient
  <2>5. ASSUME NEW id \in waiting, CascadeOn(id) \/ CascadeGiveUp(id)
        PROVE  RestTyped' /\ waiting' \subseteq waiting
    BY <2>5, TasksTyped
  <2>6. ASSUME SetMode \/ Rearm \/ EmergencyClients \/ EmergencyMaster \/ BridgeCrash
        PROVE  RestTyped' /\ waiting' \subseteq waiting
    BY <2>6, TasksTyped
  <2>7. ASSUME NEW l \in Clickered, ClickerStatus(l) PROVE RestTyped' /\ waiting' \subseteq waiting
    BY <2>7, TasksTyped
  <2> QED
    BY <2>0, <2>1, <2>2, <2>3, <2>4, <2>5, <2>6, <2>7 DEF Next
<1>3. waiting' \subseteq Ids'
  BY <1>1, <1>2 DEF Typed
<1> QED
  BY <1>1, <1>2, <1>3 DEF Typed, CommandTyped, RestTyped
-----------------------------------------------------------------------------
(* What only ever grows.                                                     *)

Grows ==
    /\ told \subseteq told' /\ handClosed \subseteq handClosed'
    /\ faults'.late = 0 => faults.late = 0

LEMMA FaultsGrow ==
    ASSUME Typed
    PROVE  /\ UNCHANGED faults => (faults'.late = 0 => faults.late = 0)
           /\ faults' = [faults EXCEPT !.hand = @ + 1] => (faults'.late = 0 => faults.late = 0)
           /\ faults' = [faults EXCEPT !.switches = @ + 1] => (faults'.late = 0 => faults.late = 0)
           /\ GoesWrong("late") => faults'.late # 0
           /\ GoesWrong("lost") => (faults'.late = 0 => faults.late = 0)
           /\ GoesWrong("failures") => (faults'.late = 0 => faults.late = 0)
           /\ GoesWrong("crashes") => (faults'.late = 0 => faults.late = 0)
<1>1. faults \in FaultsType
  BY DEF Typed
<1>2. /\ [faults EXCEPT !.hand = @ + 1].late = faults.late
      /\ [faults EXCEPT !.switches = @ + 1].late = faults.late
      /\ [faults EXCEPT !.lost = @ + 1].late = faults.late
      /\ [faults EXCEPT !.failures = @ + 1].late = faults.late
      /\ [faults EXCEPT !.crashes = @ + 1].late = faults.late
      /\ [faults EXCEPT !.late = @ + 1].late = faults.late + 1
      /\ faults.late \in Nat
  BY ONLY <1>1 DEF FaultsType
<1>3. GoesWrong("late") => faults'.late # 0
  <2>1. GoesWrong("late") => faults'.late = faults.late + 1
    BY <1>2 DEF GoesWrong
  <2> QED
    BY ONLY <1>2, <2>1
<1>4. /\ faults' = [faults EXCEPT !.hand = @ + 1] => faults'.late = faults.late
      /\ faults' = [faults EXCEPT !.switches = @ + 1] => faults'.late = faults.late
      /\ GoesWrong("lost") => faults'.late = faults.late
      /\ GoesWrong("failures") => faults'.late = faults.late
      /\ GoesWrong("crashes") => faults'.late = faults.late
  BY <1>2 DEF GoesWrong
<1> QED
  BY <1>3, <1>4

LEMMA FullyClosedGrows ==
    ASSUME NEW book, NEW S, NEW source, CloseFully(book, S, source) PROVE told \subseteq told'
  BY DEF CloseFully

LEMMA GrowsStep == ASSUME Typed, [Next]_vars PROVE Grows
<1>0. CASE UNCHANGED vars
  BY <1>0, FaultsGrow DEF Grows, vars, history
<1>1. ASSUME NEW l \in Legs, NEW n \in 1 .. Lots, HandClose(l, n) PROVE Grows
  BY <1>1, FaultsGrow DEF Grows, HandClose
<1>2. ASSUME NEW id \in Ids, Agent(id) PROVE Grows
  BY <1>2, FaultsGrow DEF Grows, Agent, Fill, FindGone, Refuse, OpenCopy, LoseAnswer, Answer, history
<1>3. ASSUME NEW id \in Ids, HearAnswer(id) PROVE Grows
  BY <1>3, FaultsGrow DEF Grows, HearAnswer, AckMaster, AckClosed, AckPartial, AckUnknown, AckFailed,
        AckFallBack, AckOpen, Answered
<1>4. ASSUME NEW id \in Ids, Timeout(id) \/ CancelExpired(id) PROVE Grows
  BY <1>4, FaultsGrow DEF Grows, Timeout, CancelExpired
<1>5. ASSUME NEW l \in Legs, NEW e, NextEvent(l, e),
             (\E byClicker \in BOOLEAN : Claimed(l, e, byClicker)) \/ Unclaimed(l, e) \/ UNCHANGED faults
      PROVE  handClosed \subseteq handClosed' /\ (faults'.late = 0 => faults.late = 0)
  BY <1>5, FaultsGrow DEF NextEvent, Claimed, Unclaimed
<1>6. ASSUME NEW e, RouteMaster(e) PROVE Grows
  <2>1. Master \in Legs
    BY DEF Legs
  <2>2. NextEvent(Master, e) /\ told \subseteq told'
        /\ ((\E byClicker \in BOOLEAN : Claimed(Master, e, byClicker)) \/ Unclaimed(Master, e))
    BY <1>6, FullyClosedGrows
       DEF RouteMaster, HearMasterIgnored, HearMasterClosed, HearMasterPartial
  <2> QED
    BY <2>1, <2>2, <1>5 DEF Grows
<1>7. ASSUME NEW c \in Clients, NEW e, RouteClient(c, e) PROVE Grows
  <2>1. c \in Legs
    BY DEF Legs
  <2>2. NextEvent(c, e) /\ told \subseteq told'
        /\ ((\E byClicker \in BOOLEAN : Claimed(c, e, byClicker)) \/ Unclaimed(c, e) \/ UNCHANGED faults)
    BY <1>7, FullyClosedGrows
       DEF RouteClient, HearOpened, HearClientIgnored, HearOwnClose, HearClientPartial, HearClientKept,
           HearCascade, ByHand, ClientClosed
  <2> QED
    BY <2>1, <2>2, <1>5 DEF Grows
<1>8. ASSUME NEW id \in waiting, CascadeOn(id) \/ CascadeGiveUp(id) PROVE Grows
  BY <1>8, FullyClosedGrows, FaultsGrow DEF Grows, CascadeOn, CascadeGiveUp
<1>9. ASSUME SetMode \/ Rearm \/ EmergencyClients \/ EmergencyMaster \/ BridgeCrash PROVE Grows
  BY <1>9, FaultsGrow DEF Grows, SetMode, Rearm, EmergencyClients, EmergencyMaster, BridgeCrash, history
<1>10. ASSUME NEW l \in Clickered, ClickerStatus(l) PROVE Grows
  BY <1>10, FaultsGrow DEF Grows, ClickerStatus, history
<1> QED
  BY <1>0, <1>1, <1>2, <1>3, <1>4, <1>6, <1>7, <1>8, <1>9, <1>10 DEF Next

-----------------------------------------------------------------------------
(* What happens to the positions and to the events about them.               *)

Dealing(l, n, cause, by) ==
    /\ Deal(l, n, cause, by)
    /\ by = "hand" => n > 0
    /\ by = "hand" /\ l \in Clients /\ n = lots[l] => l \in handClosed'
    /\ by = "bot" /\ cause = None => ClickerOrders(l) # {}
    /\ by = "bot" => lots[l] > 0

Hearing(l) ==
    /\ events[l] # <<>> /\ events' = [events EXCEPT ![l] = Tail(@)]
    /\ UNCHANGED lots
    /\ \A id \in Ids : Cmd(id).leg = l /\ Cmd(id).via = "EA" /\ Cmd(id).answer # "none"
                           => Cmd(id).heard

Flows ==
    \/ UNCHANGED <<events, lots>>
    \/ \E l \in Legs, by \in {"hand", "bot"}, cause \in {None} \cup Ids : \E n \in 0 .. lots[l] :
          Dealing(l, n, cause, by)
    \/ \E id \in Ids : OpenCopy(id)
    \/ \E l \in Legs : Hearing(l)

LEMMA FlowStep == ASSUME Typed, [Next]_vars PROVE Flows
<1>0. CASE UNCHANGED vars
  BY <1>0 DEF Flows, vars
<1>1. ASSUME NEW l \in Legs, NEW n \in 1 .. Lots, HandClose(l, n) PROVE Flows
  <2>1. n \in 0 .. lots[l] /\ n > 0
    <3>1. n \in 1 .. lots[l] /\ lots[l] \in 0 .. Lots /\ Lots \in Nat
      BY <1>1, CloseAssumption DEF HandClose, Typed, Volumes
    <3> QED BY <3>1
  <2>2. PICK cause \in {None} \cup Ids : Deal(l, n, cause, "hand")
    BY <1>1, CausesAreOrders DEF HandClose
  <2>3. l \in Clients /\ n = lots[l] => l \in handClosed'
    BY <1>1 DEF HandClose
  <2>4. Dealing(l, n, cause, "hand")
    BY <2>1, <2>2, <2>3 DEF Dealing
  <2> QED
    BY <2>1, <2>4 DEF Flows
<1>2. ASSUME NEW id \in Ids, Fill(id) PROVE Flows
  <2> DEFINE l == Cmd(id).leg
             n == Taken(id)
  <2>1. /\ l \in Legs /\ n \in 0 .. lots[l] /\ lots[l] > 0 /\ id \in Clients \X Nat
        /\ l \in {id[1], Master} /\ Cmd(id).via \in {"EA", "UI"}
    BY <1>2, TakenTyped, Ordered DEF Fill, OrderType
  <2>2. PICK cause \in {None} \cup Ids :
           Deal(l, n, cause, "bot") /\ (Cmd(id).via = "EA" => cause = id)
    BY <1>2, CausesAreOrders DEF Fill
  <2>3. cause = None => ClickerOrders(l) # {}
    <3>1. ASSUME cause = None PROVE id \in ClickerOrders(l)
      <4>1. Cmd(id).via = "UI"
        BY <2>1, <2>2, <3>1, CloseAssumption
      <4> QED
        BY <1>2, <2>1, <4>1 DEF Fill, ClickerOrders
    <3> QED BY <3>1
  <2>4. Dealing(l, n, cause, "bot")
    BY <2>1, <2>2, <2>3 DEF Dealing
  <2> HIDE DEF l, n
  <2> QED
    BY <2>1, <2>4 DEF Flows
<1>3. ASSUME NEW id \in Ids, FindGone(id) \/ Refuse(id) \/ LoseAnswer(id) PROVE Flows
  BY <1>3 DEF Flows, FindGone, Refuse, LoseAnswer
<1>4. ASSUME NEW id \in Ids, OpenCopy(id) PROVE Flows
  BY <1>4 DEF Flows
<1>5. ASSUME NEW id \in Ids, HearAnswer(id) PROVE Flows
  BY <1>5 DEF Flows, HearAnswer, AckMaster, AckClosed, AckPartial, AckUnknown, AckFailed,
        AckFallBack, AckOpen, Answered
<1>6. ASSUME NEW id \in Ids, Timeout(id) \/ CancelExpired(id) PROVE Flows
  BY <1>6 DEF Flows, Timeout, CancelExpired
<1>7. ASSUME events[Master] # <<>>, RouteMaster(Head(events[Master])) PROVE Flows
  <2>1. NextEvent(Master, Head(events[Master]))
    BY <1>7 DEF RouteMaster, HearMasterIgnored, HearMasterClosed, HearMasterPartial
  <2>2. Hearing(Master)
    BY <1>7, <2>1 DEF NextEvent, Hearing
  <2> QED
    BY <2>2 DEF Flows, Legs
<1>8. ASSUME NEW c \in Clients, events[c] # <<>>, RouteClient(c, Head(events[c])) PROVE Flows
  <2>1. NextEvent(c, Head(events[c]))
    BY <1>8 DEF RouteClient, HearOpened, HearClientIgnored, HearOwnClose, HearClientPartial, HearClientKept,
           HearCascade, ByHand, ClientClosed
  <2>2. Hearing(c)
    BY <1>8, <2>1 DEF NextEvent, Hearing
  <2> QED
    BY <2>2 DEF Flows, Legs
<1>9. ASSUME NEW id \in waiting, CascadeOn(id) \/ CascadeGiveUp(id) PROVE Flows
  BY <1>9 DEF Flows, CascadeOn, CascadeGiveUp
<1>10. ASSUME SetMode \/ Rearm \/ EmergencyClients \/ EmergencyMaster \/ BridgeCrash PROVE Flows
  BY <1>10 DEF Flows, SetMode, Rearm, EmergencyClients, EmergencyMaster, BridgeCrash
<1>11. ASSUME NEW l \in Clickered, ClickerStatus(l) PROVE Flows
  BY <1>11 DEF Flows, ClickerStatus
<1> QED
  BY <1>0, <1>1, <1>2, <1>3, <1>4, <1>5, <1>6, <1>7, <1>8, <1>9, <1>10, <1>11 DEF Next, Agent
LEMMA EventVolumes ==
    ASSUME NEW q \in Seq(EventType)
    PROVE  /\ Len(q) \in Nat /\ DOMAIN q = 1 .. Len(q) /\ (q # <<>> => Len(q) > 0)
           /\ \A k \in 1 .. Len(q) : q[k] \in EventType /\ q[k].after \in Nat /\ q[k].lots \in Nat
<1>1. Len(q) \in Nat /\ DOMAIN q = 1 .. Len(q) /\ (q # <<>> => Len(q) > 0)
  OBVIOUS
<1>2. \A k \in 1 .. Len(q) : q[k] \in EventType
  BY ElementOfSeq
<1>3. \A e \in EventType : e.after \in Volumes /\ e.lots \in Volumes
  BY DEF EventType
<1>4. \A n \in Volumes : n \in Nat
  BY CloseAssumption DEF Volumes
<1> QED
  BY <1>1, <1>2, <1>3, <1>4

LEMMA ChainedAppend ==
    ASSUME NEW q \in Seq(EventType), NEW n \in Nat, Chained(q, n), NEW e \in EventType,
           e.after + e.lots = n, e.after \in Nat, e.lots \in Nat
    PROVE  Chained(Append(q, e), e.after)
<1> DEFINE r == Append(q, e)
<1>1. /\ Len(r) = Len(q) + 1 /\ Len(q) \in Nat /\ r \in Seq(EventType)
      /\ \A k \in 1 .. Len(q) : r[k] = q[k]
      /\ r[Len(q) + 1] = e
  BY AppendProperties
<1> HIDE DEF r
<1>2. DOMAIN q = 1 .. Len(q) /\ DOMAIN r = 1 .. Len(r)
  BY <1>1
<1>3. \A k \in 1 .. Len(q) : q[k].after \in Nat
  BY EventVolumes
<1>4. ASSUME NEW k \in 1 .. Len(r) PROVE r[k].after >= e.after
  <2>1. CASE k = Len(q) + 1
    BY <1>1, <2>1
  <2>2. CASE k # Len(q) + 1
    <3>1. k \in 1 .. Len(q)
      BY <1>1, <2>2
    <3>2. r[k].after = q[k].after /\ q[k].after >= n
      BY <1>1, <1>2, <3>1 DEF Chained
    <3> QED
      BY <3>1, <3>2, <1>3
  <2> QED
    BY <2>1, <2>2
<1>5. ASSUME NEW k \in 1 .. Len(r), k + 1 \in 1 .. Len(r)
      PROVE  r[k].after = r[k + 1].after + r[k + 1].lots
  <2>1. k \in 1 .. Len(q)
    BY <1>1, <1>5
  <2>2. CASE k = Len(q)
    <3>1. q # <<>> /\ q[k].after = n
      BY <1>2, <2>1, <2>2 DEF Chained
    <3> QED
      BY <1>1, <2>1, <2>2, <3>1
  <2>3. CASE k # Len(q)
    <3>1. k + 1 \in 1 .. Len(q)
      BY <1>1, <2>1, <2>3
    <3> QED
      BY <1>1, <1>2, <2>1, <3>1 DEF Chained
  <2> QED
    BY <2>2, <2>3
<1>6. r[Len(r)].after = e.after
  BY <1>1
<1> QED
  BY <1>2, <1>4, <1>5, <1>6 DEF Chained, r

LEMMA ChainedTail ==
    ASSUME NEW q \in Seq(EventType), NEW n \in Nat, Chained(q, n), q # <<>>
    PROVE  Chained(Tail(q), n)
<1> DEFINE r == Tail(q)
<1>1. /\ Len(r) = Len(q) - 1 /\ Len(q) \in Nat /\ Len(q) > 0 /\ r \in Seq(EventType)
      /\ \A k \in 1 .. Len(r) : r[k] = q[k + 1]
  BY HeadTailProperties
<1> HIDE DEF r
<1>2. DOMAIN q = 1 .. Len(q) /\ DOMAIN r = 1 .. Len(r)
  BY <1>1
<1>3. ASSUME NEW k \in 1 .. Len(r) PROVE k + 1 \in 1 .. Len(q) /\ r[k] = q[k + 1]
  BY <1>1
<1>4. \A k \in 1 .. Len(r) : r[k].after >= n
  BY <1>2, <1>3 DEF Chained
<1>5. ASSUME NEW k \in 1 .. Len(r), k + 1 \in 1 .. Len(r)
      PROVE  r[k].after = r[k + 1].after + r[k + 1].lots
  <2>1. r[k] = q[k + 1] /\ r[k + 1] = q[(k + 1) + 1] /\ k + 1 \in 1 .. Len(q) /\ (k + 1) + 1 \in 1 .. Len(q)
    BY <1>3, <1>5
  <2> QED
    BY <2>1, <1>2 DEF Chained
<1>6. ASSUME r # <<>> PROVE r[Len(r)].after = n
  <2>1. Len(r) \in 1 .. Len(r) /\ Len(r) + 1 = Len(q)
    BY <1>1, <1>6
  <2> QED
    BY <2>1, <1>3, <1>2 DEF Chained
<1> QED
  BY <1>2, <1>4, <1>5, <1>6 DEF Chained, r

LEMMA OpenCopyFlow ==
    ASSUME Typed, Unopened, NEW id \in Ids, OpenCopy(id)
    PROVE  /\ id[1] \in Clients /\ id[1] # Master /\ ~pair[id[1]].known
           /\ lots[id[1]] = 0 /\ events[id[1]] = <<>> /\ Cmd(id).answer = "none" /\ ~Closes(id)
           /\ lots' = [lots EXCEPT ![id[1]] = Lots]
           /\ \/ events' = events
              \/ events' = [events EXCEPT ![id[1]] = <<Event("OPENED", Lots, 0, None, "bot")>>]
           /\ UNCHANGED <<pair, handClosed>>
<1>1. ~Closes(id) /\ Cmd(id).answer = "none"
  BY DEF OpenCopy, Answer
<1>2. id[1] \in Clients /\ lots[id[1]] = 0 /\ events[id[1]] = <<>> /\ ~pair[id[1]].known
  BY <1>1, Ordered DEF Unopened
<1>3. id[1] # Master
  BY <1>2, CloseAssumption
<1>4. Append(<<>>, Event("OPENED", Lots, 0, None, "bot")) = <<Event("OPENED", Lots, 0, None, "bot")>>
  OBVIOUS
<1>5. events' = events \/ events' = [events EXCEPT ![id[1]] = Append(@, Event("OPENED", Lots, 0, None, "bot"))]
  BY DEF OpenCopy
<1>6. events' = events \/ events' = [events EXCEPT ![id[1]] = Append(events[id[1]], Event("OPENED", Lots, 0, None, "bot"))]
  BY <1>5
<1> QED
  BY <1>1, <1>2, <1>3, <1>4, <1>6 DEF OpenCopy, Answer, history

LEMMA AddUpStep ==
    ASSUME Typed, EventsAddUp, Unopened, Flows PROVE EventsAddUp'
<1>0. /\ lots \in [Legs -> Volumes] /\ events \in [Legs -> Seq(EventType)] /\ Lots \in Nat
      /\ \A l \in Legs : lots[l] \in Nat
  BY CloseAssumption DEF Typed, Volumes
<1>1. CASE UNCHANGED <<events, lots>>
  BY <1>1 DEF EventsAddUp
<1>2. ASSUME NEW l \in Legs, NEW by \in {"hand", "bot"}, NEW cause \in {None} \cup Ids,
             NEW n \in 0 .. lots[l], Dealing(l, n, cause, by)
      PROVE  EventsAddUp'
  <2> DEFINE e == Event("CLOSED", lots[l] - n, n, cause, by)
  <2>1. Deal(l, n, cause, by)
    BY <1>2 DEF Dealing
  <2>2. e \in EventType /\ lots' = [lots EXCEPT ![l] = lots[l] - n]
        /\ events' = [events EXCEPT ![l] = Append(events[l], e)]
    BY <2>1, DealTyped
  <2>3. e.after = lots[l] - n /\ e.lots = n
    BY DEF Event
  <2> HIDE DEF e
  <2>4. e.after + e.lots = lots[l] /\ e.after \in Nat /\ e.lots \in Nat
    BY <1>0, <2>3
  <2>5. Chained(Append(events[l], e), e.after)
    BY <1>0, <2>2, <2>4, ChainedAppend DEF EventsAddUp
  <2>6. \A m \in Legs : lots'[m] = (IF m = l THEN e.after ELSE lots[m])
                        /\ events'[m] = IF m = l THEN Append(events[l], e) ELSE events[m]
    BY <1>0, <2>2, <2>3
  <2> QED
    BY <2>5, <2>6 DEF EventsAddUp
<1>3. ASSUME NEW id \in Ids, OpenCopy(id) PROVE EventsAddUp'
  <2> DEFINE e == Event("OPENED", Lots, 0, None, "bot")
             q == <<e>>
  <2>1. e.after = Lots /\ Len(q) = 1 /\ q[1] = e /\ DOMAIN q = 1 .. 1
    BY DEF Event
  <2> HIDE DEF e
  <2>2. Chained(q, Lots)
    BY <1>0, <2>1 DEF Chained
  <2>3. Chained(<<>>, Lots)
    BY DEF Chained
  <2> HIDE DEF q
  <2>4. /\ id[1] \in Clients /\ events[id[1]] = <<>>
        /\ lots' = [lots EXCEPT ![id[1]] = Lots]
        /\ \/ events' = events
           \/ events' = [events EXCEPT ![id[1]] = q]
    BY <1>3, OpenCopyFlow DEF q, e
  <2>5. \A m \in Legs : /\ lots'[m] = IF m = id[1] THEN Lots ELSE lots[m]
                        /\ m = id[1] => events'[m] = q \/ events'[m] = <<>>
                        /\ m # id[1] => events'[m] = events[m]
    BY <1>0, <2>4 DEF Legs
  <2> QED
    BY <2>2, <2>3, <2>5 DEF EventsAddUp
<1>4. ASSUME NEW l \in Legs, Hearing(l) PROVE EventsAddUp'
  <2>1. Chained(Tail(events[l]), lots[l])
    BY <1>0, <1>4, ChainedTail DEF Hearing, EventsAddUp
  <2>2. \A m \in Legs : lots'[m] = lots[m] /\ events'[m] = IF m = l THEN Tail(events[l]) ELSE events[m]
    BY <1>0, <1>4 DEF Hearing
  <2> QED
    BY <2>1, <2>2 DEF EventsAddUp
<1> QED
  BY <1>1, <1>2, <1>3, <1>4 DEF Flows

\* The Master's position is never reopened, and what is heard of it only falls.
\* Once an event is heard, what it says is left is what the next one starts from.
LEMMA HeardBefore ==
    ASSUME Typed, EventsAddUp, Hearing(Master)
    PROVE  /\ Before(Master)' = Head(events[Master]).after
           /\ Head(events[Master]).after <= Before(Master)
<1> DEFINE q == events[Master]
<1>1. /\ q \in Seq(EventType) /\ q # <<>> /\ lots[Master] \in Nat /\ lots'[Master] = lots[Master]
      /\ events'[Master] = Tail(q) /\ Chained(q, lots[Master])
  BY CloseAssumption DEF Typed, Volumes, Legs, Hearing, EventsAddUp
<1> HIDE DEF q
<1>2. /\ Head(q) = q[1] /\ Tail(q) \in Seq(EventType)
      /\ Len(Tail(q)) = Len(q) - 1 /\ Len(q) \in Nat /\ Len(q) > 0 /\ DOMAIN q = 1 .. Len(q)
      /\ \A k \in 1 .. Len(Tail(q)) : Tail(q)[k] = q[k + 1]
      /\ \A k \in 1 .. Len(q) : q[k].after \in Nat /\ q[k].lots \in Nat
  BY <1>1, HeadTailProperties, EventVolumes
<1>3. Before(Master) = q[1].after + q[1].lots /\ q[1].after \in Nat /\ q[1].lots \in Nat
  <2>1. 1 \in 1 .. Len(q)
    BY <1>2
  <2> QED
    BY <2>1, <1>1, <1>2 DEF Before, q
<1>4. CASE Tail(q) = <<>>
  <2>1. Before(Master)' = lots[Master]
    BY <1>1, <1>4 DEF Before
  <2>2. Len(q) = 1 /\ q[Len(q)].after = lots[Master]
    BY <1>1, <1>2, <1>4 DEF Chained
  <2> QED
    BY <1>2, <1>3, <2>1, <2>2 DEF q
<1>5. CASE Tail(q) # <<>>
  <2>1. 1 \in 1 .. Len(q) /\ 1 + 1 \in 1 .. Len(q) /\ Tail(q)[1] = q[2]
    <3>1. Len(Tail(q)) > 0
      BY <1>2, <1>5, EventVolumes
    <3> QED BY <3>1, <1>2
  <2>2. q[1].after = q[1 + 1].after + q[1 + 1].lots
    BY <2>1, <1>1, <1>2 DEF Chained
  <2>3. Before(Master)' = q[2].after + q[2].lots
    BY <1>1, <1>5, <2>1 DEF Before
  <2> QED
    BY <1>2, <1>3, <2>2, <2>3 DEF q
<1> QED
  BY <1>4, <1>5

LEMMA BeforeFalls ==
    ASSUME Typed, EventsAddUp, Unopened, Flows
    PROVE  Before(Master)' <= Before(Master) /\ Before(Master) \in Nat /\ Before(Master)' \in Nat
<1>0. /\ lots \in [Legs -> Volumes] /\ events \in [Legs -> Seq(EventType)] /\ Lots \in Nat
      /\ lots[Master] \in Nat /\ Master \in Legs /\ Chained(events[Master], lots[Master])
  BY CloseAssumption DEF Typed, Volumes, Legs, EventsAddUp
<1> DEFINE q == events[Master]
<1>1. /\ q \in Seq(EventType) /\ Len(q) \in Nat /\ DOMAIN q = 1 .. Len(q) /\ (q # <<>> => Len(q) > 0)
      /\ \A k \in 1 .. Len(q) : q[k].after \in Nat /\ q[k].lots \in Nat
  BY <1>0, EventVolumes
<1>2. Before(Master) \in Nat
  BY <1>0, <1>1 DEF Before
<1>3. CASE UNCHANGED <<events, lots>>
  BY <1>2, <1>3 DEF Before
<1>4. ASSUME NEW l \in Legs, NEW by \in {"hand", "bot"}, NEW cause \in {None} \cup Ids,
             NEW n \in 0 .. lots[l], Dealing(l, n, cause, by)
      PROVE  Before(Master)' = Before(Master)
  <2> DEFINE e == Event("CLOSED", lots[l] - n, n, cause, by)
  <2>1. e.after = lots[l] - n /\ e.lots = n
    BY DEF Event
  <2>2. lots' = [lots EXCEPT ![l] = lots[l] - n] /\ e \in EventType
        /\ events' = [events EXCEPT ![l] = Append(events[l], e)]
    BY <1>4, DealTyped DEF Dealing
  <2> HIDE DEF e
  <2>3. CASE l # Master
    BY <1>0, <2>2, <2>3 DEF Before
  <2>4. CASE l = Master
    <3> DEFINE r == Append(q, e)
    <3>1. events'[Master] = r /\ r # <<>> /\ Len(r) = Len(q) + 1
          /\ (\A k \in 1 .. Len(q) : r[k] = q[k]) /\ r[Len(q) + 1] = e
      BY <1>0, <2>2, <2>4, AppendProperties
    <3> HIDE DEF r
    <3>2. Before(Master)' = r[1].after + r[1].lots
      BY <3>1 DEF Before
    <3>3. CASE q = <<>>
      BY <3>1, <3>2, <3>3, <1>0, <1>1, <2>1, <2>4 DEF Before
    <3>4. CASE q # <<>>
      BY <3>1, <3>2, <3>4, <1>1 DEF Before
    <3> QED BY <3>3, <3>4
  <2> QED BY <2>3, <2>4
<1>5. ASSUME NEW id \in Ids, OpenCopy(id) PROVE Before(Master)' = Before(Master)
  <2>1. lots'[Master] = lots[Master] /\ events'[Master] = events[Master]
    BY <1>0, <1>5, OpenCopyFlow
  <2> QED
    BY <2>1 DEF Before
<1>6. ASSUME NEW l \in Legs, Hearing(l)
      PROVE  Before(Master)' <= Before(Master) /\ Before(Master)' \in Nat
  <2>1. CASE l # Master
    <3>1. events'[Master] = events[Master] /\ lots'[Master] = lots[Master]
      BY <1>0, <1>6, <2>1 DEF Hearing
    <3> QED BY <3>1, <1>2 DEF Before
  <2>2. CASE l = Master
    <3>1. Before(Master)' = Head(q).after /\ Head(q).after <= Before(Master)
      BY <1>6, <2>2, HeardBefore
    <3>2. Head(q).after \in Nat
      BY <1>6, <2>2, <1>0, HeadOfEvents, CloseAssumption DEF Hearing, EventType, Volumes
    <3> QED BY <3>1, <3>2
  <2> QED BY <2>1, <2>2
<1>7. Before(Master)' <= Before(Master) /\ Before(Master)' \in Nat
  BY <1>2, <1>3, <1>4, <1>5, <1>6 DEF Flows
<1> QED
  BY <1>2, <1>7

\* An order stays whose it is and what it asks for; answers are not taken back
\* and what is settled is not sent again.
SameTask(j) ==
    /\ j \in Ids'
    /\ Cmd(j)'.leg = Cmd(j).leg /\ Cmd(j)'.via = Cmd(j).via /\ Cmd(j)'.kind = Cmd(j).kind
    /\ Cmd(j)'.source = Cmd(j).source
    /\ Cmd(j)'.status = "SENT" => Cmd(j).status = "SENT"
    /\ Cmd(j)'.answer = "none" => Cmd(j).answer = "none"

LEMMA FallBackOrders ==
    ASSUME Typed, NEW id \in Ids, AckFallBack(id)
    PROVE  /\ \A j \in Ids : SameTask(j)
           /\ Cmd(id)' = [Cmd(id) EXCEPT !.status = "ACK_FAILED", !.heard = TRUE]
           /\ \A j \in Ids : j # id => Cmd(j)' = Cmd(j)
           /\ \A j \in Ids' \ Ids : /\ j = <<id[1], Len(command[id[1]]) + 1>> /\ j[1] = id[1]
                 /\ Cmd(j)' = Order(Cmd(id).leg, "EA", Cmd(id).kind, Cmd(id).lots, Cmd(id).source)
           /\ Cmd(id).kind # "OPEN" /\ Cmd(id).answer = "rejected" /\ Cmd(id).heard = FALSE
<1>1. Replaced(id, [Cmd(id) EXCEPT !.status = "ACK_FAILED", !.heard = TRUE],
               Order(Cmd(id).leg, "EA", Cmd(id).kind, Cmd(id).lots, Cmd(id).source))
  BY FallBackReplaces
<1>2. Cmd(id) \in OrderType
  BY Ordered
<1>3. /\ Cmd(id)' = [Cmd(id) EXCEPT !.status = "ACK_FAILED", !.heard = TRUE]
      /\ Ids \subseteq Ids'
      /\ \A j \in Ids : j # id => Cmd(j)' = Cmd(j)
      /\ \A j \in Ids' \ Ids : /\ j = <<id[1], Len(command[id[1]]) + 1>> /\ j[1] = id[1]
            /\ Cmd(j)' = Order(Cmd(id).leg, "EA", Cmd(id).kind, Cmd(id).lots, Cmd(id).source)
  BY <1>1 DEF Replaced
<1>4. SameTask(id)
  BY <1>2, <1>3 DEF SameTask, OrderType
<1>5. \A j \in Ids : j # id => SameTask(j)
  BY <1>3 DEF SameTask
<1>6. Cmd(id).kind # "OPEN" /\ Cmd(id).answer = "rejected" /\ Cmd(id).heard = FALSE
  BY <1>2 DEF AckFallBack, Closes, Answered, OrderType
<1> QED
  BY <1>3, <1>4, <1>5, <1>6

LEMMA TasksStay == ASSUME Typed, Moves PROVE \A j \in Ids : SameTask(j)
<1>1. CASE Sending
  BY <1>1 DEF Sending, SameTask
<1>2. ASSUME NEW id \in Ids, Editing(id) PROVE \A j \in Ids : SameTask(j)
  BY <1>2 DEF Editing, Edited, SameTask
<1>3. ASSUME NEW id \in Ids, AckFallBack(id) PROVE \A j \in Ids : SameTask(j)
  BY <1>3, FallBackOrders
<1> QED
  BY <1>1, <1>2, <1>3 DEF Moves

\* A new order closes, and has not been answered.
LEMMA NewCloses ==
    ASSUME Typed, Moves
    PROVE  \A j \in Ids' \ Ids : /\ Cmd(j)'.kind # "OPEN" /\ Cmd(j)'.answer = "none"
                                 /\ Cmd(j)'.status = "SENT" /\ Cmd(j)'.heard = FALSE
<1>1. CASE Sending
  BY <1>1 DEF Sending, Fresh
<1>2. ASSUME NEW id \in Ids, Editing(id) PROVE Ids' \ Ids = {}
  BY <1>2 DEF Editing, Edited
<1>3. ASSUME NEW id \in Ids, AckFallBack(id), NEW j \in Ids' \ Ids
      PROVE  /\ Cmd(j)'.kind # "OPEN" /\ Cmd(j)'.answer = "none"
             /\ Cmd(j)'.status = "SENT" /\ Cmd(j)'.heard = FALSE
  <2>1. Cmd(j)' = Order(Cmd(id).leg, "EA", Cmd(id).kind, Cmd(id).lots, Cmd(id).source)
    BY <1>3, FallBackOrders
  <2>2. Cmd(id).kind # "OPEN"
    BY <1>3, FallBackOrders
  <2> QED
    BY <2>1, <2>2 DEF Order
<1> QED
  BY <1>1, <1>2, <1>3 DEF Moves

LEMMA ClickerOrdersStay ==
    ASSUME Typed, Moves, NEW l, ClickerOrders(l) # {} PROVE ClickerOrders(l)' # {}
<1>1. PICK j \in Ids : /\ Cmd(j).via = "UI" /\ Cmd(j).kind # "OPEN"
                       /\ IF l = Master THEN Cmd(j).leg = Master ELSE j[1] = l
  BY DEF ClickerOrders, Closes
<1>2. SameTask(j)
  BY TasksStay
<1>3. j \in ClickerOrders(l)'
  BY <1>1, <1>2 DEF SameTask, ClickerOrders, Closes
<1> QED
  BY <1>3

LEMMA EventsStep ==
    ASSUME Typed, EventsOK, Unopened, Moves, Grows, Flows PROVE EventsOK'
<1>0. events \in [Legs -> Seq(EventType)]
  BY DEF Typed
<1>1. ASSUME NEW l \in Legs, NEW e, EventOK(l, e) PROVE EventOK(l, e)'
  <2>1. ClickerOrders(l) # {} => ClickerOrders(l)' # {}
    BY ClickerOrdersStay
  <2> QED
    BY <1>1, <2>1 DEF EventOK, Grows
<1>2. CASE UNCHANGED <<events, lots>>
  <2> SUFFICES ASSUME NEW l \in Legs, NEW k \in DOMAIN events'[l] PROVE EventOK(l, events[l][k])'
    BY <1>2 DEF EventsOK
  <2>1. PICK e : e = events[l][k] /\ e = events'[l][k]
    BY <1>2
  <2>2. EventOK(l, e)
    BY <1>2, <2>1 DEF EventsOK
  <2>3. EventOK(l, e)'
    BY <2>2, <1>1
  <2> QED
    BY <2>1, <2>3 DEF EventOK
<1>3. ASSUME NEW l \in Legs, NEW by \in {"hand", "bot"}, NEW cause \in {None} \cup Ids,
             NEW n \in 0 .. lots[l], Dealing(l, n, cause, by)
      PROVE  EventsOK'
  <2> DEFINE x == Event("CLOSED", lots[l] - n, n, cause, by)
  <2>1. /\ x \in EventType /\ lots[l] \in Nat
        /\ events' = [events EXCEPT ![l] = Append(events[l], x)]
    BY <1>3, DealTyped DEF Dealing
  <2>2. /\ x.kind = "CLOSED" /\ x.after = lots[l] - n /\ x.cause = cause /\ x.by = by
    BY DEF Event
  <2>3. x.after = 0 => n = lots[l]
    BY <2>1, <2>2
  <2>4. ClickerOrders(l) # {} => ClickerOrders(l)' # {}
    BY ClickerOrdersStay
  <2> HIDE DEF x
  <2>5. ASSUME NEW m \in Legs, NEW k \in DOMAIN events'[m] PROVE EventOK(m, events[m][k])'
    <3>1. CASE m # l \/ k \in 1 .. Len(events[l])
      <4>1. k \in DOMAIN events[m] /\ events'[m][k] = events[m][k]
        BY <1>0, <2>1, <2>5, <3>1, AppendProperties
      <4>2. PICK e : e = events[m][k] /\ e = events'[m][k]
        BY <4>1
      <4>3. EventOK(m, e)
        BY <4>1, <4>2 DEF EventsOK
      <4>4. EventOK(m, e)'
        BY <4>3, <1>1
      <4> QED
        BY <4>2, <4>4 DEF EventOK
    <3>2. CASE m = l /\ k \notin 1 .. Len(events[l])
      <4>1. events'[m][k] = x
        BY <1>0, <2>1, <2>5, <3>2, AppendProperties
      <4>2. /\ l \in Clients /\ x.by = "hand" /\ x.after = 0 => l \in handClosed'
            /\ x.by = "bot" /\ x.cause = None => ClickerOrders(l)' # {}
        BY <1>3, <2>2, <2>3, <2>4 DEF Dealing
      <4> QED
        BY <4>1, <4>2, <2>2, <3>2 DEF EventOK
    <3> QED
      BY <3>1, <3>2
  <2> QED
    BY <2>5 DEF EventsOK
<1>4. ASSUME NEW id \in Ids, OpenCopy(id) PROVE EventsOK'
  <2> DEFINE x == Event("OPENED", Lots, 0, None, "bot")
             q == <<x>>
  <2>1. x.kind = "OPENED" /\ x.by = "bot" /\ q[1] = x /\ DOMAIN q = {1}
    BY DEF Event
  <2>2. /\ id[1] \in Clients /\ id[1] # Master /\ events[id[1]] = <<>>
        /\ (events' = events \/ events' = [events EXCEPT ![id[1]] = q])
    BY <1>4, OpenCopyFlow
  <2> HIDE DEF x, q
  <2>3. ASSUME NEW m \in Legs, NEW k \in DOMAIN events'[m] PROVE EventOK(m, events[m][k])'
    <3>1. CASE events'[m] = events[m]
      <4>1. PICK e : e = events[m][k] /\ e = events'[m][k]
        BY <3>1
      <4>2. EventOK(m, e)
        BY <4>1, <2>3, <3>1 DEF EventsOK
      <4>3. EventOK(m, e)'
        BY <4>2, <1>1
      <4> QED
        BY <4>1, <4>3 DEF EventOK
    <3>2. CASE events'[m] # events[m]
      <4>1. m = id[1] /\ events'[m] = q
        BY <1>0, <2>2, <3>2
      <4>2. events'[m][k] = x
        BY <4>1, <2>1, <2>3
      <4> QED
        BY <4>1, <4>2, <2>1, <2>2 DEF EventOK
    <3> QED
      BY <3>1, <3>2
  <2> QED
    BY <2>3 DEF EventsOK
<1>5. ASSUME NEW l \in Legs, Hearing(l) PROVE EventsOK'
  <2>1. /\ events' = [events EXCEPT ![l] = Tail(events[l])] /\ events[l] # <<>>
        /\ events[l] \in Seq(EventType)
    BY <1>0, <1>5 DEF Hearing
  <2>2. /\ Tail(events[l]) \in Seq(EventType) /\ Len(events[l]) \in Nat
        /\ Len(Tail(events[l])) = Len(events[l]) - 1
        /\ \A k \in 1 .. Len(Tail(events[l])) : Tail(events[l])[k] = events[l][k + 1]
    BY <2>1, HeadTailProperties
  <2>3. ASSUME NEW m \in Legs, NEW k \in DOMAIN events'[m] PROVE EventOK(m, events[m][k])'
    <3>1. \E j \in DOMAIN events[m] : events'[m][k] = events[m][j]
      <4>1. CASE m # l
        <5>1. events'[m] = events[m]
          BY <2>1, <4>1
        <5> QED BY <5>1, <2>3
      <4>2. CASE m = l
        <5>1. k \in 1 .. Len(Tail(events[l])) /\ events'[m] = Tail(events[l])
          BY <1>0, <2>1, <2>2, <2>3, <4>2
        <5>2. k + 1 \in 1 .. Len(events[l]) /\ DOMAIN events[l] = 1 .. Len(events[l])
          BY <2>1, <2>2, <5>1
        <5>3. events'[m][k] = events[l][k + 1]
          BY <2>2, <5>1
        <5> QED BY <4>2, <5>2, <5>3
      <4> QED BY <4>1, <4>2
    <3>2. PICK j \in DOMAIN events[m] : events'[m][k] = events[m][j]
      BY <3>1
    <3>3. PICK e : e = events[m][j] /\ e = events'[m][k]
      BY <3>2
    <3>4. EventOK(m, e)
      BY <3>3 DEF EventsOK
    <3>5. EventOK(m, e)'
      BY <3>4, <1>1
    <3> QED
      BY <3>3, <3>5 DEF EventOK
  <2> QED
    BY <2>3 DEF EventsOK
<1> QED
  BY <1>2, <1>3, <1>4, <1>5 DEF Flows

-----------------------------------------------------------------------------
(* What happens to a pair's row.                                             *)

Relabelled(c) ==
    /\ pair'[c].known = pair[c].known /\ pair'[c].clots = pair[c].clots
    /\ pair'[c].status = pair[c].status \/ pair'[c].status \notin {"CLOSED", "PENDING_OPEN"}

Finished(c) ==
    /\ pair[c].known /\ pair'[c].known /\ pair'[c].clots = 0 /\ pair'[c].status = "CLOSED"
    /\ lots[c] = 0 /\ UNCHANGED lots

Reported(c) ==
    /\ pair[c].known /\ pair'[c].known /\ pair'[c].clots = Head(events[c]).after
    /\ pair'[c].status = pair[c].status \/ pair'[c].status \notin {"CLOSED", "PENDING_OPEN"}
    /\ Hearing(c) /\ Sending

Reduced(c) ==
    /\ pair[c].known /\ pair'[c].known /\ pair'[c].status = "PARTIALLY_CLOSED" /\ UNCHANGED lots
    /\ \E id \in Ids :
        LET executed == IF Cmd(id).via = "EA" THEN Cmd(id).lots ELSE 0
        IN  /\ id[1] = c /\ AckPartial(id) /\ pair[c].clots > executed
            /\ pair'[c].clots = pair[c].clots - executed

Named(c) ==
    /\ pair[c].status = "PENDING_OPEN" /\ pair'[c].known /\ UNCHANGED lots
    /\ pair'[c].status \notin {"CLOSED", "PENDING_OPEN"}
    /\ \/ \E id \in Ids : id[1] = c /\ AckOpen(id) /\ pair'[c].clots = Lots
       \/ Hearing(c) /\ pair'[c].clots = Head(events[c]).after /\ Sending

Rebooked(c) ==
    /\ pair'[c].wanted = "CLIENT" => pair[c].wanted = "CLIENT" \/ lots[Master] = 0
    /\ \/ pair'[c].mlots \in {0, pair[c].mlots}
       \/ Hearing(Master) /\ pair'[c].mlots = Head(events[Master]).after

PairMoves(c) ==
    /\ Relabelled(c) \/ Finished(c) \/ Reported(c) \/ Reduced(c) \/ Named(c)
    /\ Rebooked(c)

LEMMA PairKept == ASSUME UNCHANGED pair, NEW c PROVE PairMoves(c)
  BY DEF PairMoves, Relabelled, Rebooked

LEMMA NothingLeft ==
    ASSUME Typed, EventsAddUp, NEW l \in Legs, events[l] # <<>>
    PROVE  /\ Head(events[l]).after \in Nat /\ lots[l] \in Nat
           /\ Head(events[l]).after >= lots[l]
           /\ Head(events[l]).after = 0 => lots[l] = 0
<1>1. /\ lots[l] \in Nat /\ events[l] \in Seq(EventType)
  BY CloseAssumption DEF Typed, Volumes
<1>2. /\ Head(events[l]) = events[l][1] /\ 1 \in DOMAIN events[l] /\ 1 \in 1 .. Len(events[l])
  BY <1>1, HeadOfEvents
<1>3. events[l][1].after \in Nat /\ events[l][1].after >= lots[l]
  BY <1>1, <1>2, EventVolumes DEF EventsAddUp, Chained
<1> QED
  BY <1>1, <1>2, <1>3

LEMMA AnswersMovePairs ==
    ASSUME Typed, OrdersOK, NEW id \in Ids, NEW c \in Clients,
           pair[id[1]].known /\ lots[id[1]] > 0 => pair[id[1]].clots >= lots[id[1]] + Executed(id[1], id[2])
    PROVE  /\ AckMaster(id) => PairMoves(c)
           /\ AckClosed(id) => PairMoves(c)
           /\ AckPartial(id) => PairMoves(c)
           /\ AckUnknown(id) => PairMoves(c)
           /\ AckFailed(id) => PairMoves(c)
           /\ AckFallBack(id) => PairMoves(c)
           /\ AckOpen(id) => PairMoves(c)
<1>0. /\ id[1] \in Clients /\ pair[c] \in PairType /\ pair[id[1]] \in PairType
      /\ Cmd(id).leg \in {id[1], Master} /\ Cmd(id) \in OrderType /\ Cmd(id).lots \in Nat
      /\ pair \in [Clients -> PairType] /\ OrderOK(id, Cmd(id))
      /\ lots[id[1]] \in Nat /\ pair[id[1]].clots \in Nat
  <2>1. Cmd(id).lots \in Volumes
    BY TakenTyped
  <2>2. \A n \in Volumes : n \in Nat
    BY CloseAssumption DEF Volumes
  <2> QED
    BY <2>1, <2>2, Ordered DEF Typed, OrdersOK, PairType, Legs
<1>1. ASSUME AckMaster(id) PROVE PairMoves(c)
  <2>1. pair'[c] = [pair[c] EXCEPT !.mlots = 0]
    BY <1>1 DEF AckMaster
  <2> QED
    BY <1>0, <2>1 DEF PairMoves, Relabelled, Rebooked, PairType
<1>2. ASSUME SetPair(id[1], MarkClosed(id[1])), lots[id[1]] = 0, pair[id[1]].known, UNCHANGED lots
      PROVE  PairMoves(c)
  <2>1. CASE c = id[1]
    <3>1. pair'[c] = MarkClosed(c)
      BY <1>0, <1>2, <2>1 DEF SetPair
    <3>2. /\ pair'[c].status = "CLOSED" /\ pair'[c].clots = 0 /\ pair'[c].known = pair[c].known
          /\ pair'[c].mlots \in {0, pair[c].mlots} /\ pair'[c].wanted = pair[c].wanted
      BY <3>1, MarkClosedTyped
    <3> QED
      BY <1>2, <2>1, <3>2 DEF PairMoves, Finished, Rebooked
  <2>2. CASE c # id[1]
    <3>1. pair'[c] = pair[c]
      BY <1>0, <1>2, <2>2 DEF SetPair
    <3> QED
      BY <3>1 DEF PairMoves, Relabelled, Rebooked
  <2> QED BY <2>1, <2>2
<1>3. ASSUME AckClosed(id) PROVE PairMoves(c)
  <2>1. /\ SetPair(id[1], MarkClosed(id[1])) /\ UNCHANGED lots
        /\ Cmd(id).leg = id[1] /\ Cmd(id).leg # Master /\ Cmd(id).kind = "CLOSE"
        /\ Cmd(id).answer \in {"ok", "already_closed"}
    BY <1>0, <1>3 DEF AckClosed, Done, Answered
  <2>2. lots[id[1]] = 0 /\ pair[id[1]].known
    BY <1>0, <2>1 DEF OrderOK
  <2> QED
    BY <2>1, <2>2, <1>2
<1>4. ASSUME AckPartial(id) PROVE PairMoves(c)
  <2> DEFINE executed == IF Cmd(id).via = "EA" THEN Cmd(id).lots ELSE 0
  <2>1. /\ UNCHANGED lots
        /\ Cmd(id).leg = id[1] /\ Cmd(id).leg # Master /\ Cmd(id).kind = "PARTIAL"
        /\ Cmd(id).answer \in {"ok", "already_closed"} /\ ~Cmd(id).heard
        /\ SetPair(id[1], IF pair[id[1]].clots <= executed THEN MarkClosed(id[1])
                      ELSE [pair[id[1]] EXCEPT !.status = "PARTIALLY_CLOSED", !.clots = @ - executed])
    BY <1>0, <1>4 DEF AckPartial, Done, Answered
  <2>2. pair[id[1]].known /\ executed \in Nat
    BY <1>0, <2>1 DEF OrderOK
  <2>3. CASE pair[id[1]].clots <= executed
    <3>1. lots[id[1]] = 0
      <4>1. CASE Cmd(id).answer = "already_closed"
        BY <1>0, <2>1, <4>1 DEF OrderOK
      <4>2. CASE Cmd(id).answer = "ok" /\ lots[id[1]] > 0
        <5>1. Executed(id[1], id[2]) = executed
          BY <1>0, <2>1, <4>2 DEF Executed, Cmd
        <5>2. pair[id[1]].clots >= lots[id[1]] + executed
          BY <2>2, <4>2, <5>1
        <5> HIDE DEF executed
        <5> QED
          BY <1>0, <2>2, <2>3, <4>2, <5>2
      <4> QED
        BY <1>0, <2>1, <4>1, <4>2
    <3> QED
      BY <2>1, <2>2, <2>3, <3>1, <1>2
  <2>4. CASE ~(pair[id[1]].clots <= executed)
    <3>1. SetPair(id[1], [pair[id[1]] EXCEPT !.status = "PARTIALLY_CLOSED", !.clots = @ - executed])
      BY <2>1, <2>4
    <3>2. CASE c = id[1]
      <4>1. pair'[c] = [pair[c] EXCEPT !.status = "PARTIALLY_CLOSED", !.clots = @ - executed]
        BY <1>0, <3>1, <3>2 DEF SetPair
      <4>2. /\ pair'[c].status = "PARTIALLY_CLOSED" /\ pair'[c].clots = pair[c].clots - executed
            /\ pair'[c].known = pair[c].known /\ pair'[c].mlots = pair[c].mlots
            /\ pair'[c].wanted = pair[c].wanted
        BY <1>0, <4>1 DEF PairType
      <4>3. pair[c].clots > executed
        <5> HIDE DEF executed
        <5> QED BY <1>0, <2>2, <2>4, <3>2
      <4> QED
        BY <1>4, <2>1, <2>2, <3>2, <4>2, <4>3 DEF PairMoves, Reduced, Rebooked
    <3>3. CASE c # id[1]
      <4>1. pair'[c] = pair[c]
        BY <1>0, <3>1, <3>3 DEF SetPair
      <4> QED
        BY <4>1 DEF PairMoves, Relabelled, Rebooked
    <3> QED BY <3>2, <3>3
  <2> QED BY <2>3, <2>4
<1>5. ASSUME AckUnknown(id) \/ AckFallBack(id) PROVE PairMoves(c)
  BY <1>5, PairKept DEF AckUnknown, AckFallBack
<1>6. ASSUME AckFailed(id) PROVE PairMoves(c)
  <2>1. pair'[c] = IF c = id[1] THEN [pair[c] EXCEPT !.status = "ORPHANED"] ELSE pair[c]
    BY <1>0, <1>6 DEF AckFailed
  <2> QED
    BY <1>0, <2>1 DEF PairMoves, Relabelled, Rebooked, PairType
<1>7. ASSUME AckOpen(id) PROVE PairMoves(c)
  <2>1. UNCHANGED lots /\
        \/ UNCHANGED pair
        \/ pair[id[1]].status = "PENDING_OPEN" /\ pair' = [pair EXCEPT ![id[1]].status = "OPEN_FAILED"]
        \/ /\ pair[id[1]].status = "PENDING_OPEN"
           /\ pair' = [pair EXCEPT ![id[1]].status = "OPEN", ![id[1]].known = TRUE, ![id[1]].clots = Lots]
    BY <1>7 DEF AckOpen, Answered
  <2>2. CASE UNCHANGED pair
    BY <2>2, PairKept
  <2>3. CASE pair' = [pair EXCEPT ![id[1]].status = "OPEN_FAILED"]
    <3>1. pair'[c] = IF c = id[1] THEN [pair[c] EXCEPT !.status = "OPEN_FAILED"] ELSE pair[c]
      BY <1>0, <2>3
    <3> QED
      BY <1>0, <3>1 DEF PairMoves, Relabelled, Rebooked, PairType
  <2>4. CASE /\ pair[id[1]].status = "PENDING_OPEN"
             /\ pair' = [pair EXCEPT ![id[1]].status = "OPEN", ![id[1]].known = TRUE, ![id[1]].clots = Lots]
    <3>1. pair'[c] = IF c = id[1] THEN [pair[c] EXCEPT !.status = "OPEN", !.known = TRUE, !.clots = Lots]
                     ELSE pair[c]
      BY <1>0, <2>4
    <3>2. CASE c = id[1]
      <4>1. /\ pair'[c].status = "OPEN" /\ pair'[c].known = TRUE /\ pair'[c].clots = Lots
            /\ pair'[c].mlots = pair[c].mlots /\ pair'[c].wanted = pair[c].wanted
        BY <1>0, <3>1, <3>2 DEF PairType
      <4> QED
        BY <1>7, <2>1, <2>4, <3>2, <4>1 DEF PairMoves, Named, Rebooked
    <3>3. CASE c # id[1]
      BY <3>1, <3>3 DEF PairMoves, Relabelled, Rebooked
    <3> QED BY <3>2, <3>3
  <2> QED
    BY <2>1, <2>2, <2>3, <2>4
<1> QED
  BY <1>1, <1>3, <1>4, <1>5, <1>6, <1>7

LEMMA HearsOf ==
    ASSUME NEW l, NEW e, events[l] # <<>>, NextEvent(l, e) PROVE Hearing(l)
  BY DEF NextEvent, Hearing

LEMMA FullyClosedMoves ==
    ASSUME NEW S, NEW source, FullyClosed(pair, S, source), NEW c \in Clients,
           source = "CLIENT" => lots[Master] = 0
    PROVE  PairMoves(c)
  BY DEF FullyClosed, PairMoves, Relabelled, Rebooked

LEMMA MasterEventsMovePairs ==
    ASSUME Typed, events[Master] # <<>>, NEW c \in Clients
    PROVE  /\ HearMasterIgnored(Head(events[Master])) => PairMoves(c)
           /\ HearMasterClosed(Head(events[Master])) => PairMoves(c)
           /\ HearMasterPartial(Head(events[Master])) => PairMoves(c)
<1> DEFINE e == Head(events[Master])
<1>0. pair \in [Clients -> PairType] /\ pair[c] \in PairType
  BY DEF Typed
<1>1. ASSUME HearMasterIgnored(e) PROVE PairMoves(c)
  BY <1>1, PairKept DEF HearMasterIgnored
<1>2. ASSUME HearMasterClosed(e) PROVE PairMoves(c)
  <2> DEFINE S == {d \in Clients : Alive(d)}
  <2>1. CloseFully(pair, S, "MASTER") /\ S \in SUBSET Clients
    BY <1>2 DEF HearMasterClosed
  <2> HIDE DEF S
  <2>2. FullyClosed(pair, S, "MASTER")
    BY <2>1, <1>0, ClosesFully
  <2> QED
    BY <2>2, FullyClosedMoves
<1>3. ASSUME HearMasterPartial(e) PROVE PairMoves(c)
  <2>1. Hearing(Master)
    BY <1>3, HearsOf DEF HearMasterPartial
  <2>2. \/ pair'[c] = [pair[c] EXCEPT !.mlots = e.after, !.status = "PARTIALLY_CLOSED"]
        \/ pair'[c] = [pair[c] EXCEPT !.mlots = e.after]
        \/ pair'[c] = pair[c]
    BY <1>3 DEF HearMasterPartial
  <2> HIDE DEF e
  <2>3. /\ pair'[c].known = pair[c].known /\ pair'[c].clots = pair[c].clots
        /\ pair'[c].wanted = pair[c].wanted /\ pair'[c].mlots \in {e.after, pair[c].mlots}
        /\ pair'[c].status \in {pair[c].status, "PARTIALLY_CLOSED"}
    BY ONLY <1>0, <2>2 DEF PairType
  <2> QED
    BY <2>1, <2>3 DEF PairMoves, Relabelled, Rebooked, e
<1> QED
  BY <1>1, <1>2, <1>3

LEMMA ClientEventsMovePairs ==
    ASSUME Typed, EventsAddUp, MasterGone, EventsOK, NEW d \in Clients, events[d] # <<>>,
           NEW c \in Clients
    PROVE  /\ HearOpened(d, Head(events[d])) => PairMoves(c)
           /\ HearClientIgnored(d, Head(events[d])) => PairMoves(c)
           /\ HearOwnClose(d, Head(events[d])) => PairMoves(c)
           /\ HearClientPartial(d, Head(events[d])) => PairMoves(c)
           /\ HearClientKept(d, Head(events[d])) => PairMoves(c)
           /\ HearCascade(d, Head(events[d])) => PairMoves(c)
<1> DEFINE e == Head(events[d])
<1>0. /\ pair \in [Clients -> PairType] /\ pair[c] \in PairType /\ d \in Legs
      /\ e \in EventType /\ (e.after = 0 => lots[d] = 0)
  BY NothingLeft, HeadOfEvents DEF Typed, Legs
<1>1. ASSUME HearOpened(d, e) PROVE PairMoves(c)
  <2>1. Hearing(d) /\ Sending /\ UNCHANGED lots
    BY <1>1, HearsOf, ClientEventsSending DEF HearOpened, NextEvent
  <2>2. /\ FullyClosed(Bound(d, e), Deferred(d), pair[d].wanted)
        /\ c # d => Bound(d, e)[c] = pair[c]
        /\ c = d => Bound(d, e)[c] = IF pair[c].status = "PENDING_OPEN"
               THEN [pair[c] EXCEPT !.status = "OPEN", !.known = TRUE, !.clots = e.after]
               ELSE pair[c]
    BY <1>0, <1>1, OpenedCloses, ZenonT(60)
  <2>3. /\ pair'[c].known = Bound(d, e)[c].known
        /\ pair'[c].mlots = Bound(d, e)[c].mlots /\ pair'[c].clots = Bound(d, e)[c].clots
        /\ (pair'[c].wanted = Bound(d, e)[c].wanted
            \/ (c \in Deferred(d) /\ pair'[c].wanted = pair[d].wanted))
        /\ pair'[c].status \in {Bound(d, e)[c].status, "CLOSING"}
    BY <2>2 DEF FullyClosed
  <2>4. CASE c # d \/ pair[c].status # "PENDING_OPEN"
    <3>1. Bound(d, e)[c] = pair[c] /\ c \notin Deferred(d)
      BY <2>2, <2>4 DEF Deferred
    <3> QED
      BY <2>3, <3>1 DEF PairMoves, Relabelled, Rebooked
  <2>5. CASE c = d /\ pair[c].status = "PENDING_OPEN"
    <3> DEFINE b == Bound(d, e)[c]
    <3>1. b = [pair[c] EXCEPT !.status = "OPEN", !.known = TRUE, !.clots = e.after]
      BY <2>2, <2>5
    <3> HIDE DEF b, e
    <3>2. /\ b.known = TRUE /\ b.clots = e.after /\ b.status = "OPEN"
          /\ b.mlots = pair[c].mlots /\ b.wanted = pair[c].wanted
      BY ONLY <1>0, <3>1 DEF PairType
    <3>3. /\ pair'[c].known /\ pair'[c].clots = e.after /\ pair'[c].status \in {"OPEN", "CLOSING"}
          /\ pair'[c].mlots = pair[c].mlots /\ pair'[c].wanted = pair[c].wanted
      BY <2>3, <2>5, <3>2 DEF b
    <3> QED
      BY <2>1, <2>5, <3>3 DEF PairMoves, Named, Rebooked, e
  <2> QED BY <2>4, <2>5
<1>2. ASSUME HearClientIgnored(d, e) PROVE PairMoves(c)
  BY <1>2, PairKept DEF HearClientIgnored
<1>3. ASSUME c # d, \E p : SetPair(d, p) PROVE PairMoves(c)
  <2>1. pair'[c] = pair[c]
    BY <1>0, <1>3 DEF SetPair
  <2> QED
    BY <2>1 DEF PairMoves, Relabelled, Rebooked
<1>4. ASSUME c = d, SetPair(d, MarkClosed(d)), pair[d].known, e.after = 0, UNCHANGED lots
      PROVE  PairMoves(c)
  <2>1. pair'[c] = MarkClosed(c)
    BY <1>0, <1>4 DEF SetPair
  <2>2. /\ pair'[c].status = "CLOSED" /\ pair'[c].clots = 0 /\ pair'[c].known = pair[c].known
        /\ pair'[c].mlots \in {0, pair[c].mlots} /\ pair'[c].wanted = pair[c].wanted
    BY <2>1, MarkClosedTyped
  <2> QED
    BY <1>0, <1>4, <2>2 DEF PairMoves, Finished, Rebooked
<1>5. ASSUME HearOwnClose(d, e) PROVE PairMoves(c)
  <2>1. Hearing(d) /\ Sending /\ UNCHANGED lots /\ pair[d].known
    BY <1>5, HearsOf, ClientEventsSending DEF HearOwnClose, ClientClosed, NextEvent
  <2>2. \/ UNCHANGED pair
        \/ SetPair(d, MarkClosed(d)) /\ e.after = 0
        \/ SetPair(d, [pair[d] EXCEPT !.clots = e.after])
    BY <1>5 DEF HearOwnClose
  <2>3. CASE UNCHANGED pair
    BY <2>3, PairKept
  <2>4. CASE SetPair(d, MarkClosed(d)) /\ e.after = 0
    BY <2>1, <2>4, <1>3, <1>4
  <2>5. CASE SetPair(d, [pair[d] EXCEPT !.clots = e.after])
    <3>1. CASE c = d
      <4>1. pair'[c] = [pair[c] EXCEPT !.clots = e.after]
        BY <1>0, <2>5, <3>1 DEF SetPair
      <4> HIDE DEF e
      <4>2. /\ pair'[c].clots = e.after /\ pair'[c].known = pair[c].known
            /\ pair'[c].status = pair[c].status /\ pair'[c].mlots = pair[c].mlots
            /\ pair'[c].wanted = pair[c].wanted
        BY ONLY <1>0, <4>1 DEF PairType
      <4> QED
        BY <2>1, <3>1, <4>2 DEF PairMoves, Reported, Rebooked, e
    <3> QED BY <2>5, <3>1, <1>3
  <2> QED
    BY <2>2, <2>3, <2>4, <2>5
<1>6. ASSUME HearClientPartial(d, e) PROVE PairMoves(c)
  <2>1. Hearing(d) /\ Sending /\ pair[d].known
    BY <1>6, HearsOf, ClientEventsSending DEF HearClientPartial, ByHand, ClientClosed
  <2>2. SetPair(d, [pair[d] EXCEPT !.clots = e.after, !.status = "PARTIALLY_CLOSED"])
    BY <1>6 DEF HearClientPartial
  <2>3. CASE c = d
    <3>1. pair'[c] = [pair[c] EXCEPT !.clots = e.after, !.status = "PARTIALLY_CLOSED"]
      BY <1>0, <2>2, <2>3 DEF SetPair
    <3> HIDE DEF e
    <3>2. /\ pair'[c].clots = e.after /\ pair'[c].known = pair[c].known
          /\ pair'[c].status = "PARTIALLY_CLOSED" /\ pair'[c].mlots = pair[c].mlots
          /\ pair'[c].wanted = pair[c].wanted
      BY ONLY <1>0, <3>1 DEF PairType
    <3> QED
      BY <2>1, <2>3, <3>2 DEF PairMoves, Reported, Rebooked, e
  <2> QED BY <2>2, <2>3, <1>3
<1>7. ASSUME HearClientKept(d, e) PROVE PairMoves(c)
  <2>1. Hearing(d) /\ Sending /\ pair[d].known /\ e.after = 0
    BY <1>7, HearsOf, ClientEventsSending DEF HearClientKept, ByHand, ClientClosed
  <2>2. SetPair(d, [pair[d] EXCEPT !.status = "ORPHANED", !.clots = 0])
    BY <1>7 DEF HearClientKept
  <2>3. CASE c = d
    <3>1. pair'[c] = [pair[c] EXCEPT !.status = "ORPHANED", !.clots = 0]
      BY <1>0, <2>2, <2>3 DEF SetPair
    <3>2. /\ pair'[c].clots = 0 /\ pair'[c].known = pair[c].known
          /\ pair'[c].status = "ORPHANED" /\ pair'[c].mlots = pair[c].mlots
          /\ pair'[c].wanted = pair[c].wanted
      BY ONLY <1>0, <3>1 DEF PairType
    <3> QED
      BY <2>1, <2>3, <3>2 DEF PairMoves, Reported, Rebooked, e
  <2> QED BY <2>2, <2>3, <1>3
<1>8. ASSUME HearCascade(d, e) PROVE PairMoves(c)
  <2>1. UNCHANGED lots /\ pair[d].known /\ e.after = 0
    BY <1>8 DEF HearCascade, ByHand, ClientClosed, NextEvent
  <2>2. SetPair(d, [pair[d] EXCEPT !.status = "CLOSED", !.clots = 0])
    BY <1>8 DEF HearCascade
  <2>3. CASE c = d
    <3>1. pair'[c] = [pair[c] EXCEPT !.status = "CLOSED", !.clots = 0]
      BY <1>0, <2>2, <2>3 DEF SetPair
    <3>2. /\ pair'[c].clots = 0 /\ pair'[c].known = pair[c].known
          /\ pair'[c].status = "CLOSED" /\ pair'[c].mlots = pair[c].mlots
          /\ pair'[c].wanted = pair[c].wanted
      BY ONLY <1>0, <3>1 DEF PairType
    <3> QED
      BY <1>0, <2>1, <2>3, <3>2 DEF PairMoves, Finished, Rebooked
  <2> QED BY <2>2, <2>3, <1>3
<1> QED
  BY <1>1, <1>2, <1>5, <1>6, <1>7, <1>8

LEMMA TasksMovePairs ==
    ASSUME Typed, MasterGone, NEW c \in Clients
    PROVE  /\ \A id \in waiting : CascadeOn(id) => PairMoves(c)
           /\ \A id \in waiting : CascadeGiveUp(id) => PairMoves(c)
           /\ EmergencyClients => PairMoves(c)
<1>0. pair \in [Clients -> PairType] /\ pair[c] \in PairType
  BY DEF Typed
<1>1. ASSUME NEW id \in waiting, CascadeOn(id) PROVE PairMoves(c)
  <2> DEFINE S == {d \in Clients \ {id[1]} : Alive(d)}
  <2>1. CloseFully(pair, S, "CLIENT") /\ S \in SUBSET Clients /\ lots[Master] = 0
    BY <1>1 DEF CascadeOn, MasterGone
  <2> HIDE DEF S
  <2>2. FullyClosed(pair, S, "CLIENT")
    BY <2>1, <1>0, ClosesFully
  <2> QED
    BY <2>1, <2>2, FullyClosedMoves
<1>2. ASSUME pair'[c] = pair[c] \/ pair'[c] = [pair[c] EXCEPT !.status = "ORPHANED"]
             \/ pair'[c] = [pair[c] EXCEPT !.status = "CLOSING"]
      PROVE  PairMoves(c)
  <2>1. /\ pair'[c].clots = pair[c].clots /\ pair'[c].known = pair[c].known
        /\ pair'[c].status \in {pair[c].status, "ORPHANED", "CLOSING"}
        /\ pair'[c].mlots = pair[c].mlots /\ pair'[c].wanted = pair[c].wanted
    BY ONLY <1>0, <1>2 DEF PairType
  <2> QED
    BY <2>1 DEF PairMoves, Relabelled, Rebooked
<1>3. ASSUME NEW id \in waiting, CascadeGiveUp(id) PROVE PairMoves(c)
  BY <1>2, <1>3 DEF CascadeGiveUp
<1>4. ASSUME EmergencyClients PROVE PairMoves(c)
  BY <1>2, <1>4 DEF EmergencyClients
<1> QED
  BY <1>1, <1>3, <1>4

\* What an answer not yet heard will take off the book is on the book.
LEMMA BookBearsAnswer ==
    ASSUME Typed, BookCovers, NEW id \in Ids, pair[id[1]].known, lots[id[1]] > 0
    PROVE  pair[id[1]].clots >= lots[id[1]] + Executed(id[1], id[2])
<1>1. PICK c \in Clients, k \in Nat : c = id[1] /\ k = id[2]
  BY Ordered
<1>2. /\ k \in 1 .. Len(command[c]) /\ k \in DOMAIN command[c] /\ Len(command[c]) \in Nat
      /\ pair[c].clots \in Nat /\ lots[c] \in Nat
  <2>1. k \in 1 .. Len(command[c]) /\ command[c] \in Seq(OrderType)
    BY <1>1, Ordered DEF Typed
  <2>2. pair[c] \in PairType /\ c \in Legs /\ lots[c] \in Volumes
    BY DEF Typed, Legs
  <2> QED
    BY <2>1, <2>2, CloseAssumption DEF PairType, Volumes
<1>3. PICK acc \in [Nat -> Nat] : CoveredBy(c, acc)
  BY <1>1 DEF BookCovers
<1>4. k - 1 \in Nat
  <2>1. k \in 1 .. Len(command[c]) /\ Len(command[c]) \in Nat
    BY <1>2
  <2>2. k >= 1 /\ k \in Nat
    BY ONLY <2>1
  <2> QED
    BY ONLY <2>2
<1>5. acc[k] \in Nat /\ acc[k - 1] \in Nat
  BY <1>4
<1>6. Executed(c, k) \in Nat
  <2>1. Cmd(id).lots \in Volumes /\ Cmd(id) = command[c][k]
    BY <1>1, TakenTyped DEF Cmd
  <2> QED
    BY <2>1, CloseAssumption DEF Executed, Volumes
<1>7. acc[k] >= acc[k - 1] + Executed(c, k) /\ lots[c] + acc[k] <= pair[c].clots
  BY <1>2, <1>3 DEF CoveredBy
<1>8. pair[c].clots >= lots[c] + Executed(c, k)
  <2>1. /\ pair[c].clots \in Nat /\ lots[c] \in Nat
        /\ acc[k] >= acc[k - 1] + Executed(c, k) /\ lots[c] + acc[k] <= pair[c].clots
    BY <1>2, <1>7
  <2>2. \A x, y, z, u, v \in Nat : y >= z + u /\ x + y <= v => v >= x + u
    OBVIOUS
  <2> QED
    BY ONLY <1>5, <1>6, <2>1, <2>2
<1> QED
  BY <1>1, <1>8

\* Every step moves the row of a pair in one of these ways.
LEMMA PairStep ==
    ASSUME Typed, EventsAddUp, MasterGone, EventsOK, OrdersOK, BookCovers, [Next]_vars,
           NEW c \in Clients
    PROVE  PairMoves(c)
<1>1. CASE UNCHANGED pair
  BY <1>1, PairKept
<1>2. ASSUME NEW l \in Legs, NEW n \in 1 .. Lots, HandClose(l, n) PROVE UNCHANGED pair
  BY <1>2 DEF HandClose, tables
<1>3. ASSUME NEW id \in Ids, Agent(id) \/ Timeout(id) \/ CancelExpired(id) PROVE UNCHANGED pair
  BY <1>3 DEF Agent, Fill, FindGone, Refuse, OpenCopy, LoseAnswer, Answer, Timeout, CancelExpired
<1>4. ASSUME NEW id \in Ids, HearAnswer(id) PROVE PairMoves(c)
  <2>1. pair[id[1]].known /\ lots[id[1]] > 0 => pair[id[1]].clots >= lots[id[1]] + Executed(id[1], id[2])
    BY BookBearsAnswer
  <2> QED
    BY <1>4, <2>1, AnswersMovePairs DEF HearAnswer
<1>5. ASSUME events[Master] # <<>>, RouteMaster(Head(events[Master])) PROVE PairMoves(c)
  BY <1>5, MasterEventsMovePairs DEF RouteMaster
<1>6. ASSUME NEW d \in Clients, events[d] # <<>>, RouteClient(d, Head(events[d])) PROVE PairMoves(c)
  BY <1>6, ClientEventsMovePairs DEF RouteClient
<1>7. ASSUME NEW id \in waiting, CascadeOn(id) \/ CascadeGiveUp(id) PROVE PairMoves(c)
  BY <1>7, TasksMovePairs
<1>8. CASE EmergencyClients
  BY <1>8, TasksMovePairs
<1>9. CASE SetMode \/ Rearm \/ EmergencyMaster \/ BridgeCrash \/ \E l \in Clickered : ClickerStatus(l)
  BY <1>9, <1>1 DEF SetMode, Rearm, EmergencyMaster, BridgeCrash, ClickerStatus, tables
<1>10. CASE UNCHANGED vars
  BY <1>10, <1>1 DEF vars, tables
<1> QED
  BY <1>1, <1>2, <1>3, <1>4, <1>5, <1>6, <1>7, <1>8, <1>9, <1>10 DEF Next

-----------------------------------------------------------------------------
(* What the rows keep.                                                       *)

\* A position that is gone stays gone, and a position that is known stays known.
LEMMA GoneStays ==
    ASSUME Typed, Unopened, Flows, NEW l \in Legs, lots[l] = 0, l = Master \/ pair[l].known
    PROVE  lots'[l] = 0
<1>0. lots \in [Legs -> Volumes]
  BY DEF Typed
<1>1. ASSUME NEW m \in Legs, NEW by \in {"hand", "bot"}, NEW cause \in {None} \cup Ids,
             NEW n \in 0 .. lots[m], Dealing(m, n, cause, by)
      PROVE  lots'[l] = 0
  <2>1. lots' = [lots EXCEPT ![m] = lots[m] - n]
    BY <1>1 DEF Dealing, Deal
  <2>2. CASE m = l
    <3>1. n = 0
      BY <2>2
    <3> QED
      BY <1>0, <2>1, <2>2, <3>1
  <2>3. CASE m # l
    BY <1>0, <2>1, <2>3
  <2> QED BY <2>2, <2>3
<1>2. ASSUME NEW id \in Ids, OpenCopy(id) PROVE lots'[l] = 0
  <2>1. id[1] # l /\ lots' = [lots EXCEPT ![id[1]] = Lots]
    BY <1>2, OpenCopyFlow
  <2> QED
    BY <1>0, <2>1
<1> QED
  BY <1>1, <1>2 DEF Flows, Hearing

LEMMA KnownStays == ASSUME NEW c, PairMoves(c), pair[c].known PROVE pair'[c].known
  BY DEF PairMoves, Relabelled, Finished, Reported, Reduced, Named

LEMMA BookBehindStep ==
    ASSUME Typed, EventsAddUp, Unopened, BookBehind, Flows, \A c \in Clients : PairMoves(c)
    PROVE  BookBehind'
<1> SUFFICES ASSUME NEW c \in Clients, pair'[c].mlots # 0
             PROVE  pair'[c].mlots >= Before(Master)'
  BY DEF BookBehind
<1>1. Before(Master)' <= Before(Master) /\ Before(Master) \in Nat /\ Before(Master)' \in Nat
  BY BeforeFalls
<1>2. CASE pair'[c].mlots = pair[c].mlots
  <2>1. pair[c].mlots \in Nat
    BY CloseAssumption DEF Typed, PairType, Volumes
  <2>2. pair[c].mlots >= Before(Master)
    BY <1>2 DEF BookBehind
  <2> QED
    BY <1>1, <1>2, <2>1, <2>2
<1>3. CASE Hearing(Master) /\ pair'[c].mlots = Head(events[Master]).after
  <2>1. Before(Master)' = Head(events[Master]).after
    BY <1>3, HeardBefore
  <2> QED
    BY <1>1, <1>3, <2>1
<1> QED
  BY <1>2, <1>3 DEF PairMoves, Rebooked

LEMMA KnownIsBoundStep ==
    ASSUME KnownIsBound, \A c \in Clients : PairMoves(c) PROVE KnownIsBound'
  BY DEF KnownIsBound, PairMoves, Relabelled, Finished, Reported, Reduced, Named

LEMMA MasterGoneStep ==
    ASSUME Typed, EventsAddUp, Unopened, MasterGone, OrdersOK, Flows,
           [Next]_vars, \A c \in Clients : PairMoves(c)
    PROVE  MasterGone'
<1>1. lots[Master] = 0 => lots'[Master] = 0
  BY GoneStays DEF Legs
<1>2. ASSUME NEW c \in Clients, pair'[c].wanted = "CLIENT" PROVE lots'[Master] = 0
  BY <1>1, <1>2 DEF PairMoves, Rebooked, MasterGone
<1>3. ASSUME mbook' = "CLOSED", mbook # "CLOSED" PROVE lots'[Master] = 0
  <2>1. ASSUME NEW id \in Ids, AckMaster(id) PROVE lots[Master] = 0
    <3>1. Cmd(id).leg = Master /\ Cmd(id).answer \in {"ok", "already_closed"} /\ Closes(id)
      BY <2>1 DEF AckMaster, Done
    <3> QED
      BY <3>1 DEF OrdersOK, OrderOK
  <2>2. ASSUME events[Master] # <<>>, RouteMaster(Head(events[Master])) PROVE lots[Master] = 0
    <3>1. BookMaster(Head(events[Master]))
      BY <2>2 DEF RouteMaster, HearMasterIgnored, HearMasterClosed, HearMasterPartial
    <3>2. Head(events[Master]).after = 0
      BY <3>1, <1>3 DEF BookMaster
    <3> QED
      BY <2>2, <3>2, NothingLeft DEF Legs
  <2>3. \/ \E id \in Ids : AckMaster(id)
        \/ events[Master] # <<>> /\ RouteMaster(Head(events[Master]))
    <3>1. ASSUME NEW id \in Ids, Agent(id) \/ Timeout(id) \/ CancelExpired(id) PROVE UNCHANGED mbook
      BY <3>1 DEF Agent, Fill, FindGone, Refuse, OpenCopy, LoseAnswer, Answer, Timeout, CancelExpired
    <3>2. ASSUME NEW id \in Ids, HearAnswer(id), ~AckMaster(id) PROVE UNCHANGED mbook
      BY <3>2 DEF HearAnswer, AckClosed, AckPartial, AckUnknown, AckFailed, AckFallBack, AckOpen
    <3>3. ASSUME NEW c \in Clients, RouteClient(c, Head(events[c])) PROVE UNCHANGED mbook
      BY <3>3 DEF RouteClient, HearOpened, HearClientIgnored, HearOwnClose, HearClientPartial,
         HearClientKept, HearCascade
    <3>4. ASSUME NEW id \in waiting, CascadeOn(id) \/ CascadeGiveUp(id) PROVE UNCHANGED mbook
      BY <3>4 DEF CascadeOn, CascadeGiveUp
    <3>5. ASSUME \/ SetMode \/ Rearm \/ EmergencyClients \/ EmergencyMaster \/ BridgeCrash
                 \/ \E l \in Clickered : ClickerStatus(l)
                 \/ \E l \in Legs, n \in 1 .. Lots : HandClose(l, n)
                 \/ UNCHANGED vars
          PROVE  UNCHANGED mbook
      BY <3>5 DEF SetMode, Rearm, EmergencyClients, EmergencyMaster, BridgeCrash, ClickerStatus,
         HandClose, tables, vars
    <3> QED
      BY <1>3, <3>1, <3>2, <3>3, <3>4, <3>5 DEF Next
  <2> QED
    BY <1>1, <2>1, <2>2, <2>3
<1>4. mbook' = "CLOSED" => lots'[Master] = 0
  BY <1>1, <1>3 DEF MasterGone
<1> QED
  BY <1>2, <1>4 DEF MasterGone

\* What holds of an order goes on holding while the order does not change.
LEMMA OrderKept ==
    ASSUME Typed, Unopened, Flows, Grows, \A c \in Clients : PairMoves(c),
           NEW id, id[1] \in Clients, NEW o, o.leg \in {id[1], Master}, OrderOK(id, o)
    PROVE  OrderOK(id, o)'
<1>1. pair[id[1]].known => pair'[id[1]].known
  BY KnownStays
<1>2. lots[Master] = 0 => lots'[Master] = 0
  BY GoneStays DEF Legs
<1>3. ASSUME lots[o.leg] = 0, o.kind # "OPEN" PROVE lots'[o.leg] = 0
  <2>1. o.leg = Master \/ pair[o.leg].known
    BY <1>3 DEF OrderOK
  <2> QED
    BY <1>3, <2>1, GoneStays DEF Legs
<1>4. faults'.late = 0 => faults.late = 0
  BY DEF Grows
<1>5. told \subseteq told' /\ handClosed \subseteq handClosed'
  BY DEF Grows
<1> QED
  BY <1>1, <1>2, <1>3, <1>4, <1>5 DEF OrderOK

\* An order changes that stays in order.
LEMMA EditKeepsOrders ==
    ASSUME Typed, Unopened, OrdersOK, Flows, Grows, \A c \in Clients : PairMoves(c),
           NEW id \in Ids, NEW o, Edited(id, o), OrderOK(id, o)'
    PROVE  OrdersOK'
<1> SUFFICES ASSUME NEW j \in Ids' PROVE OrderOK(j, Cmd(j))'
  BY DEF OrdersOK
<1>1. CASE j = id
  BY <1>1 DEF Edited, OrderOK
<1>2. CASE j # id
  <2>1. j \in Ids /\ Cmd(j)' = Cmd(j)
    BY <1>2 DEF Edited
  <2>2. PICK x : x = Cmd(j) /\ x = Cmd(j)'
    BY <2>1
  <2>3. OrderOK(j, x)'
    BY <2>1, <2>2, Ordered, OrderKept DEF OrdersOK
  <2> QED
    BY <2>2, <2>3 DEF OrderOK
<1> QED BY <1>1, <1>2

\* The answer, or the end, of an order that is in order.
LEMMA SettledKeepsOrders ==
    ASSUME Typed, Unopened, OrdersOK, Flows, Grows, \A c \in Clients : PairMoves(c),
           NEW id \in Ids, NEW s \in {"ACK_OK", "ACK_FAILED", "TIMEOUT"},
           Cmd(id).answer # "none", s = "TIMEOUT" => Cmd(id).leg \in told',
           Edited(id, [Cmd(id) EXCEPT !.status = s, !.heard = TRUE])
    PROVE  OrdersOK'
<1>1. PICK b \in OrderType : b = Cmd(id)
  BY Ordered
<1>2. PICK o : o = [b EXCEPT !.status = s, !.heard = TRUE]
  OBVIOUS
<1>3. OrderOK(id, b)'
  BY <1>1, Ordered, OrderKept DEF OrdersOK
<1>4. /\ o.leg = b.leg /\ o.kind = b.kind /\ o.answer = b.answer /\ o.source = b.source
      /\ o.status = s /\ o.heard = TRUE
  BY ONLY <1>1, <1>2 DEF OrderType
<1>5. OrderOK(id, o)'
  BY <1>1, <1>3, <1>4 DEF OrderOK
<1>6. Edited(id, o)
  BY <1>1, <1>2
<1> QED
  BY <1>5, <1>6, EditKeepsOrders

LEMMA AgentKeepsOrders ==
    ASSUME Typed, Unopened, OrdersOK, Flows, Grows, \A c \in Clients : PairMoves(c), NEW id \in Ids
    PROVE  /\ Fill(id) => OrdersOK'
           /\ FindGone(id) => OrdersOK'
           /\ Refuse(id) => OrdersOK'
           /\ OpenCopy(id) => OrdersOK'
<1>1. PICK b \in OrderType : b = Cmd(id)
  BY Ordered
<1>2. OrderOK(id, b)' /\ OrderOK(id, b) /\ b.leg \in Legs /\ b.leg \in {id[1], Master}
  BY <1>1, Ordered, OrderKept DEF OrdersOK
<1>3. ASSUME NEW a \in Answers, NEW n \in Volumes, Answer(id, a, n),
             b.kind = "CLOSE" /\ a \in {"ok", "already_closed"} => lots'[b.leg] = 0,
             b.kind = "PARTIAL" /\ a = "already_closed" => lots'[b.leg] = 0
      PROVE  OrdersOK'
  <2>1. PICK o : o = [b EXCEPT !.answer = a, !.lots = n]
    OBVIOUS
  <2>2. Edited(id, o) /\ b.status # "CANCELLED"
    BY <1>1, <1>3, <2>1, AnswerEdits DEF Answer
  <2>3. /\ o.leg = b.leg /\ o.kind = b.kind /\ o.answer = a /\ o.source = b.source
        /\ o.status = b.status /\ o.heard = b.heard
    BY ONLY <1>1, <2>1 DEF OrderType
  <2>4. OrderOK(id, o)'
    BY <1>2, <1>3, <2>2, <2>3 DEF OrderOK
  <2> QED
    BY <2>2, <2>4, EditKeepsOrders
<1>4. Taken(id) \in Volumes /\ Cmd(id).lots \in Volumes /\ 0 \in Volumes /\ Lots \in Volumes
  BY TakenTyped, CloseAssumption DEF Volumes
<1>5. ASSUME Fill(id) PROVE OrdersOK'
  <2>1. PICK a \in {"ok", "unknown"} : Answer(id, a, Taken(id))
    BY <1>5 DEF Fill
  <2>2. lots' = [lots EXCEPT ![b.leg] = @ - Taken(id)] /\ lots \in [Legs -> Volumes]
    BY <1>1, <1>5 DEF Fill, Deal, Typed
  <2>3. b.kind = "CLOSE" => lots'[b.leg] = 0
    <3>1. b.kind = "CLOSE" => Taken(id) = lots[b.leg]
      BY <1>1 DEF Taken
    <3>2. lots[b.leg] \in Nat
      BY <1>2, <2>2, CloseAssumption DEF Volumes
    <3> QED
      BY <1>2, <2>2, <3>1, <3>2
  <2>4. a \in Answers /\ a # "already_closed"
    BY <2>1 DEF Answers
  <2> QED
    BY <1>3, <1>4, <2>1, <2>3, <2>4
<1>6. ASSUME FindGone(id) PROVE OrdersOK'
  <2>1. Answer(id, "already_closed", 0) /\ lots'[b.leg] = 0
    BY <1>1, <1>6 DEF FindGone
  <2> QED
    BY <1>3, <1>4, <2>1 DEF Answers
<1>7. ASSUME Refuse(id) PROVE OrdersOK'
  <2>1. PICK a \in {"failed", "rejected", "unknown"}, n \in {0, Cmd(id).lots} : Answer(id, a, n)
    BY <1>7 DEF Refuse
  <2>2. a \in Answers /\ a \notin {"ok", "already_closed"} /\ n \in Volumes
    BY <1>4, <2>1 DEF Answers
  <2> QED
    BY <1>3, <2>1, <2>2
<1>8. ASSUME OpenCopy(id) PROVE OrdersOK'
  <2>1. Answer(id, "ok", Lots) /\ b.kind = "OPEN"
    BY <1>1, <1>8 DEF OpenCopy, Closes
  <2> QED
    BY <1>3, <1>4, <2>1 DEF Answers
<1> QED
  BY <1>5, <1>6, <1>7, <1>8

LEMMA BridgeKeepsOrders ==
    ASSUME Typed, Unopened, OrdersOK, Flows, Grows, \A c \in Clients : PairMoves(c), NEW id \in Ids
    PROVE  /\ AckMaster(id) => OrdersOK'
           /\ AckClosed(id) => OrdersOK'
           /\ AckPartial(id) => OrdersOK'
           /\ AckUnknown(id) => OrdersOK'
           /\ AckFailed(id) => OrdersOK'
           /\ AckOpen(id) => OrdersOK'
           /\ Timeout(id) => OrdersOK'
           /\ CancelExpired(id) => OrdersOK'
           /\ LoseAnswer(id) => OrdersOK'
<1>1. ASSUME NEW s \in {"ACK_OK", "ACK_FAILED", "TIMEOUT"}, Heard(id, s), Cmd(id).answer # "none",
             s = "TIMEOUT" => Cmd(id).leg \in told'
      PROVE  OrdersOK'
  BY <1>1, HeardEdits, SettledKeepsOrders
<1>2. ASSUME AckMaster(id) \/ AckClosed(id) \/ AckPartial(id) PROVE OrdersOK'
  <2>1. Heard(id, "ACK_OK") /\ Cmd(id).answer # "none"
    BY <1>2 DEF AckMaster, AckClosed, AckPartial, Done
  <2> QED BY <2>1, <1>1
<1>3. ASSUME AckUnknown(id) PROVE OrdersOK'
  <2>1. Heard(id, "TIMEOUT") /\ Cmd(id).answer # "none" /\ Cmd(id).leg \in told'
    BY <1>3 DEF AckUnknown, Answered
  <2> QED BY <2>1, <1>1
<1>4. ASSUME AckFailed(id) PROVE OrdersOK'
  <2>1. Heard(id, "ACK_FAILED") /\ Cmd(id).answer # "none"
    BY <1>4 DEF AckFailed, Answered
  <2> QED BY <2>1, <1>1
<1>5. ASSUME AckOpen(id) PROVE OrdersOK'
  <2>1. PICK s \in {"ACK_OK", "ACK_FAILED"} : Heard(id, s)
    BY <1>5 DEF AckOpen
  <2>2. Cmd(id).answer # "none"
    BY <1>5 DEF AckOpen
  <2> QED BY <2>1, <2>2, <1>1
<1>6. PICK b \in OrderType : b = Cmd(id)
  BY Ordered
<1>7. OrderOK(id, b)' /\ OrderOK(id, b)
  BY <1>6, Ordered, OrderKept DEF OrdersOK
<1>8. ASSUME Timeout(id) PROVE OrdersOK'
  <2>1. PICK o : o = [b EXCEPT !.status = "TIMEOUT"]
    OBVIOUS
  <2>2. Edited(id, o) /\ b.leg \in told'
    BY <1>6, <1>8, <2>1, StatusEdits DEF Timeout
  <2>3. /\ o.leg = b.leg /\ o.kind = b.kind /\ o.answer = b.answer /\ o.source = b.source
        /\ o.status = "TIMEOUT" /\ o.heard = b.heard
    BY ONLY <1>6, <2>1 DEF OrderType
  <2>4. OrderOK(id, o)'
    BY <1>7, <2>2, <2>3 DEF OrderOK
  <2> QED BY <2>2, <2>4, EditKeepsOrders
<1>9. ASSUME CancelExpired(id) PROVE OrdersOK'
  <2>1. PICK o : o = [b EXCEPT !.status = "CANCELLED"]
    OBVIOUS
  <2>2. Edited(id, o) /\ b.answer = "none"
    BY <1>6, <1>9, <2>1, StatusEdits DEF CancelExpired
  <2>3. /\ o.leg = b.leg /\ o.kind = b.kind /\ o.answer = b.answer /\ o.source = b.source
        /\ o.status = "CANCELLED" /\ o.heard = b.heard
    BY ONLY <1>6, <2>1 DEF OrderType
  <2>4. OrderOK(id, o)'
    BY <1>7, <2>2, <2>3 DEF OrderOK
  <2> QED BY <2>2, <2>4, EditKeepsOrders
<1>10. ASSUME LoseAnswer(id) PROVE OrdersOK'
  <2>1. PICK o : o = [b EXCEPT !.heard = TRUE]
    OBVIOUS
  <2>2. Edited(id, o)
    BY <1>6, <1>10, <2>1, StatusEdits
  <2>3. /\ o.leg = b.leg /\ o.kind = b.kind /\ o.answer = b.answer /\ o.source = b.source
        /\ o.status = b.status /\ o.heard = TRUE
    BY ONLY <1>6, <2>1 DEF OrderType
  <2>4. OrderOK(id, o)'
    BY <1>7, <2>3 DEF OrderOK
  <2> QED BY <2>2, <2>4, EditKeepsOrders
<1> QED
  BY <1>2, <1>3, <1>4, <1>5, <1>8, <1>9, <1>10

LEMMA OrdersStep ==
    ASSUME Typed, Unopened, OrdersOK, Flows, Grows, Moves, \A c \in Clients : PairMoves(c)
    PROVE  OrdersOK'
<1>1. ASSUME NEW j \in Ids, Cmd(j)' = Cmd(j) PROVE OrderOK(j, Cmd(j))'
  <2>1. PICK x : x = Cmd(j) /\ x = Cmd(j)'
    BY <1>1
  <2>2. OrderOK(j, x) /\ j[1] \in Clients /\ x.leg \in {j[1], Master}
    BY <2>1, Ordered DEF OrdersOK
  <2>3. OrderOK(j, x)'
    BY <2>2, OrderKept
  <2> QED
    BY <2>1, <2>3 DEF OrderOK
<1>2. lots[Master] = 0 => lots'[Master] = 0
  BY GoneStays DEF Legs
<1>3. CASE Sending
  <2> SUFFICES ASSUME NEW j \in Ids' PROVE OrderOK(j, Cmd(j))'
    BY DEF OrdersOK
  <2>1. CASE j \in Ids
    BY <1>1, <1>3, <2>1 DEF Sending
  <2>2. CASE j \notin Ids
    <3>1. Fresh(j) /\ j[1] \in Clients /\ Master \notin Clients
      BY <1>3, <2>2, CloseAssumption DEF Sending, Fresh
    <3>2. handClosed \subseteq handClosed'
      BY DEF Grows
    <3> QED
      BY <1>2, <3>1, <3>2 DEF Fresh, OrderOK
  <2> QED BY <2>1, <2>2
<1>4. ASSUME NEW id \in Ids, AckFallBack(id) PROVE OrdersOK'
  <2> SUFFICES ASSUME NEW j \in Ids' PROVE OrderOK(j, Cmd(j))'
    BY DEF OrdersOK
  <2>1. PICK b \in OrderType : b = Cmd(id)
    BY Ordered
  <2>2. OrderOK(id, b)' /\ b.kind # "OPEN" /\ b.answer = "rejected"
    <3>1. OrderOK(id, b) /\ id[1] \in Clients /\ b.leg \in {id[1], Master}
      BY <2>1, Ordered DEF OrdersOK
    <3>2. OrderOK(id, b)'
      BY <3>1, OrderKept
    <3> QED
      BY <1>4, <2>1, <3>2, FallBackOrders
  <2>3. CASE j = id
    <3>1. PICK o : o = [b EXCEPT !.status = "ACK_FAILED", !.heard = TRUE] /\ o = Cmd(j)'
      BY <1>4, <2>1, <2>3, FallBackOrders
    <3>2. /\ o.leg = b.leg /\ o.kind = b.kind /\ o.answer = b.answer /\ o.source = b.source
          /\ o.status = "ACK_FAILED" /\ o.heard = TRUE
      BY ONLY <2>1, <3>1 DEF OrderType
    <3> QED
      BY <2>2, <2>3, <3>1, <3>2, ZenonT(60) DEF OrderOK
  <2>4. CASE j \in Ids /\ j # id
    BY <1>1, <1>4, <2>4, FallBackOrders
  <2>5. CASE j \notin Ids
    <3>1. /\ j[1] = id[1]
          /\ Cmd(j)' = Order(b.leg, "EA", b.kind, b.lots, b.source)
      BY <1>4, <2>1, <2>5, FallBackOrders
    <3>2. /\ Cmd(j)'.leg = b.leg /\ Cmd(j)'.kind = b.kind /\ Cmd(j)'.source = b.source
          /\ Cmd(j)'.answer = "none" /\ Cmd(j)'.status = "SENT"
      BY <3>1 DEF Order
    <3> QED
      BY <2>2, <3>1, <3>2 DEF OrderOK
  <2> QED BY <2>3, <2>4, <2>5
<1>5. ASSUME NEW id \in Ids, Handled(id) PROVE OrdersOK'
  BY <1>4, <1>5, AgentKeepsOrders, BridgeKeepsOrders DEF Handled, Agent, HearAnswer
<1> QED
  BY <1>3, <1>4, <1>5 DEF Moves

\* Nothing happens to a leg whose order to open has not been answered.
LEMMA UnopenedStep ==
    ASSUME Typed, Unopened, Flows, Moves, \A c \in Clients : PairMoves(c)
    PROVE  Unopened'
<1> SUFFICES ASSUME NEW id \in Ids', Cmd(id)'.kind = "OPEN"
             PROVE  /\ id[2] = 1 /\ Cmd(id)'.leg = id[1]
                    /\ Cmd(id)'.answer = "none" =>
                          /\ lots'[id[1]] = 0 /\ events'[id[1]] = <<>>
                          /\ ~pair'[id[1]].known /\ pair'[id[1]].status # "CLOSED"
  BY DEF Unopened, Closes
<1>1. id \in Ids /\ SameTask(id)
  BY NewCloses, TasksStay
<1>2. /\ Cmd(id).kind = "OPEN" /\ id[2] = 1 /\ Cmd(id).leg = id[1] /\ Cmd(id)'.leg = id[1]
      /\ id[1] \in Clients /\ id[1] \in Legs /\ id = <<id[1], id[2]>>
  BY <1>1, Ordered DEF SameTask, Unopened, Closes, Legs
<1> SUFFICES ASSUME Cmd(id)'.answer = "none"
             PROVE  /\ lots'[id[1]] = 0 /\ events'[id[1]] = <<>>
                    /\ ~pair'[id[1]].known /\ pair'[id[1]].status # "CLOSED"
  BY <1>2
<1>3. PICK c \in Clients : c = id[1]
  BY <1>2
<1>4. /\ Cmd(id).answer = "none" /\ lots[c] = 0 /\ events[c] = <<>> /\ ~pair[c].known
      /\ pair[c].status # "CLOSED" /\ c \in Legs
  BY <1>1, <1>2, <1>3 DEF SameTask, Unopened, Closes
<1>5. \A j \in Ids : j[1] = c /\ Cmd(j).kind = "OPEN" => j = id
  BY <1>2, <1>3, Ordered DEF Unopened, Closes
<1>6. lots \in [Legs -> Volumes] /\ events \in [Legs -> Seq(EventType)]
  BY DEF Typed
<1>7. lots'[c] = 0 /\ events'[c] = <<>>
  <2>1. ASSUME NEW l \in Legs, NEW by \in {"hand", "bot"}, NEW cause \in {None} \cup Ids,
               NEW n \in 0 .. lots[l], Dealing(l, n, cause, by)
        PROVE  lots'[c] = 0 /\ events'[c] = <<>>
    <3>1. l # c
      <4>1. n > 0 \/ lots[l] > 0
        BY <2>1 DEF Dealing
      <4> QED BY <4>1, <1>4
    <3>2. /\ lots' = [lots EXCEPT ![l] = @ - n]
          /\ events' = [events EXCEPT ![l] = Append(@, Event("CLOSED", lots[l] - n, n, cause, by))]
      BY <2>1 DEF Dealing, Deal
    <3> QED
      BY <1>4, <1>6, <3>1, <3>2
  <2>2. ASSUME NEW j \in Ids, OpenCopy(j) PROVE lots'[c] = 0 /\ events'[c] = <<>>
    <3>1. j # id
      <4>1. Edited(j, [Cmd(j) EXCEPT !.answer = "ok", !.lots = Lots]) /\ Cmd(j) \in OrderType
        <5>1. Answer(j, "ok", Lots)
          BY <2>2 DEF OpenCopy
        <5>2. "ok" \in Answers /\ Lots \in Volumes
          BY CloseAssumption DEF Answers, Volumes
        <5> QED
          BY <5>1, <5>2, AnswerEdits, Ordered
      <4>2. Cmd(j)'.answer = "ok"
        BY <4>1 DEF Edited, OrderType
      <4> QED BY <4>2
    <3>2. j[1] # c
      BY <2>2, <3>1, <1>5 DEF OpenCopy, Closes
    <3>3. /\ lots' = [lots EXCEPT ![j[1]] = Lots]
          /\ \/ events' = events
             \/ events' = [events EXCEPT ![j[1]] = <<Event("OPENED", Lots, 0, None, "bot")>>]
      BY <2>2, OpenCopyFlow
    <3> QED
      BY <1>4, <1>6, <3>2, <3>3
  <2>3. ASSUME NEW l \in Legs, Hearing(l) PROVE lots'[c] = 0 /\ events'[c] = <<>>
    BY <1>4, <1>6, <2>3 DEF Hearing
  <2> QED
    BY <1>4, <2>1, <2>2, <2>3 DEF Flows
<1>8. ~pair'[c].known /\ pair'[c].status # "CLOSED"
  <2>1. ~Named(c)
    <3>1. ~Hearing(c)
      BY <1>4 DEF Hearing
    <3>2. ASSUME NEW j \in Ids, j[1] = c, AckOpen(j) PROVE FALSE
      <4>1. Cmd(j).kind = "OPEN" /\ Cmd(j).answer # "none"
        BY <3>2 DEF AckOpen, Closes
      <4> QED BY <4>1, <3>2, <1>4, <1>5
    <3> QED
      BY <3>1, <3>2 DEF Named
  <2>2. ~Finished(c) /\ ~Reported(c) /\ ~Reduced(c)
    BY <1>4 DEF Finished, Reported, Reduced
  <2> QED
    BY <2>1, <2>2, <1>4 DEF PairMoves, Relabelled
<1> QED
  BY <1>3, <1>7, <1>8

LEMMA ClosedIsFlatStep ==
    ASSUME Typed, Unopened, ClosedIsFlat, Flows, \A c \in Clients : PairMoves(c)
    PROVE  ClosedIsFlat'
<1> SUFFICES ASSUME NEW c \in Clients, pair'[c].status = "CLOSED" PROVE lots'[c] = 0
  BY DEF ClosedIsFlat
<1>1. ASSUME lots[c] = 0, pair[c].status = "CLOSED" PROVE lots'[c] = 0
  <2>1. lots \in [Legs -> Volumes] /\ c \in Legs
    BY DEF Typed, Legs
  <2>2. ASSUME NEW l \in Legs, NEW by \in {"hand", "bot"}, NEW cause \in {None} \cup Ids,
               NEW n \in 0 .. lots[l], Dealing(l, n, cause, by)
        PROVE  lots'[c] = 0
    <3>1. lots' = [lots EXCEPT ![l] = lots[l] - n]
      BY <2>2 DEF Dealing, Deal
    <3>2. CASE l = c
      <4>1. n = 0
        BY <1>1, <3>2
      <4> QED BY <1>1, <2>1, <3>1, <3>2, <4>1
    <3>3. CASE l # c
      BY <1>1, <2>1, <3>1, <3>3
    <3> QED BY <3>2, <3>3
  <2>3. ASSUME NEW j \in Ids, OpenCopy(j) PROVE lots'[c] = 0
    <3>1. ~Closes(j) /\ Cmd(j).answer = "none" /\ lots' = [lots EXCEPT ![j[1]] = Lots]
      BY <2>3, OpenCopyFlow
    <3>2. pair[j[1]].status # "CLOSED"
      BY <3>1 DEF Unopened
    <3> QED
      BY <1>1, <2>1, <3>1, <3>2
  <2> QED
    BY <1>1, <2>2, <2>3 DEF Flows, Hearing
<1>2. CASE pair[c].status = "CLOSED"
  BY <1>1, <1>2 DEF ClosedIsFlat
<1>3. CASE Finished(c)
  BY <1>3 DEF Finished
<1> QED
  BY <1>2, <1>3 DEF PairMoves, Relabelled, Reported, Reduced, Named

LEMMA OneCloseStep ==
    ASSUME Typed, OrdersOK, OneCloseInFlight, Moves, Grows PROVE OneCloseInFlight'
<1> SUFFICES ASSUME NEW i \in Ids', NEW j \in Ids', Cmd(i)'.kind # "OPEN", Cmd(i)'.status = "SENT",
                    Cmd(j)'.kind # "OPEN", Cmd(j)'.status = "SENT", Cmd(i)'.leg = Cmd(j)'.leg,
                    i # j
             PROVE  Cmd(i)'.leg \in told'
  BY DEF OneCloseInFlight, Closes
<1>1. \A x \in Ids : SameTask(x)
  BY TasksStay
<1>2. told \subseteq told'
  BY DEF Grows
<1>3. CASE i \in Ids /\ j \in Ids
  <2>1. /\ Cmd(i).kind # "OPEN" /\ Cmd(i).status = "SENT" /\ Cmd(i).leg = Cmd(i)'.leg
        /\ Cmd(j).kind # "OPEN" /\ Cmd(j).status = "SENT" /\ Cmd(j).leg = Cmd(j)'.leg
    BY <1>1, <1>3 DEF SameTask
  <2> QED
    BY <1>2, <1>3, <2>1 DEF OneCloseInFlight, Closes
<1>4. ASSUME Sending, NEW x \in Ids', NEW y \in Ids', x \notin Ids, x # y,
             Cmd(x)'.leg = Cmd(y)'.leg, Cmd(y)'.status = "SENT"
      PROVE  FALSE
  <2>1. Fresh(x) /\ Master \notin Clients
    BY <1>4, CloseAssumption DEF Sending
  <2>2. CASE y \in Ids
    <3>1. Cmd(y).status = "SENT" /\ Cmd(y).leg = Cmd(x)'.leg
      BY <1>4, <2>2 DEF Sending
    <3>2. CASE Cmd(x)'.leg = Master
      BY <2>1, <2>2, <3>1, <3>2 DEF Fresh, MasterClosing
    <3>3. CASE Cmd(x)'.leg # Master
      <4>1. Cmd(x)'.leg = x[1] /\ ~Busy(x[1])
        BY <2>1, <3>3 DEF Fresh
      <4>2. y[1] = x[1]
        BY <2>2, <3>1, <3>3, <4>1, Ordered
      <4> QED
        BY <2>2, <3>1, <4>1, <4>2 DEF Busy, InFlight
    <3> QED BY <3>2, <3>3
  <2>3. CASE y \notin Ids
    <3>1. Fresh(y)
      BY <1>4, <2>3 DEF Sending
    <3> QED
      BY <1>4, <2>1, <2>3, <3>1 DEF Fresh
  <2> QED BY <2>2, <2>3
<1>5. ASSUME NEW id \in Ids, AckFallBack(id), NEW x \in Ids', NEW y \in Ids', x \notin Ids, x # y,
             Cmd(x)'.leg = Cmd(y)'.leg, Cmd(y)'.status = "SENT", Cmd(y)'.kind # "OPEN"
      PROVE  Cmd(x)'.leg \in told'
  <2>1. /\ x = <<id[1], Len(command[id[1]]) + 1>>
        /\ Cmd(x)' = Order(Cmd(id).leg, "EA", Cmd(id).kind, Cmd(id).lots, Cmd(id).source)
    BY <1>5, FallBackOrders
  <2>2. Cmd(x)'.leg = Cmd(id).leg
    BY <2>1 DEF Order
  <2>3. y \in Ids
    BY <1>5, <2>1, FallBackOrders
  <2>4. /\ Cmd(id).kind # "OPEN" /\ Cmd(id).answer = "rejected" /\ Cmd(id).heard = FALSE
        /\ Cmd(id)' = [Cmd(id) EXCEPT !.status = "ACK_FAILED", !.heard = TRUE]
    BY <1>5, FallBackOrders
  <2>5. Cmd(id) \in OrderType /\ OrderOK(id, Cmd(id))
    BY Ordered DEF OrdersOK
  <2>6. y # id
    <3>1. Cmd(id)'.status = "ACK_FAILED"
      BY <2>4, <2>5 DEF OrderType
    <3> QED BY <3>1, <1>5
  <2>7. Cmd(y).status = "SENT" /\ Cmd(y).kind # "OPEN" /\ Cmd(y).leg = Cmd(id).leg
    BY <1>1, <1>5, <2>2, <2>3 DEF SameTask
  <2>8. Cmd(id).status \in {"SENT", "TIMEOUT"}
    BY <2>4, <2>5 DEF OrderType, OrderOK
  <2>9. Cmd(id).leg \in told
    <3>1. CASE Cmd(id).status = "SENT"
      BY <2>3, <2>4, <2>6, <2>7, <3>1 DEF OneCloseInFlight, Closes
    <3>2. CASE Cmd(id).status = "TIMEOUT"
      BY <2>4, <2>5, <3>2 DEF OrderOK
    <3> QED BY <2>8, <3>1, <3>2
  <2> QED
    BY <1>2, <2>2, <2>9
<1>6. CASE Sending
  BY <1>3, <1>4, <1>6
<1>7. ASSUME NEW id \in Ids, Editing(id) PROVE i \in Ids /\ j \in Ids
  BY <1>7 DEF Editing, Edited
<1>8. ASSUME NEW id \in Ids, AckFallBack(id) PROVE Cmd(i)'.leg \in told'
  BY <1>3, <1>5, <1>8
<1> QED
  BY <1>3, <1>6, <1>7, <1>8 DEF Moves

-----------------------------------------------------------------------------
(* The book of a Client's volume.                                            *)

LEMMA AnswerOrders ==
    ASSUME Typed, NEW id \in Ids, NEW a \in Answers, NEW n \in Volumes, Answer(id, a, n)
    PROVE  /\ Cmd(id)'.answer = a /\ Cmd(id)'.lots = n /\ Cmd(id)'.kind = Cmd(id).kind
           /\ Cmd(id)'.via = Cmd(id).via /\ Cmd(id)'.leg = Cmd(id).leg
           /\ Cmd(id)'.heard = Cmd(id).heard
           /\ Cmd(id).answer = "none" /\ Ids' = Ids
           /\ \A j \in Ids : j # id => Cmd(j)' = Cmd(j)
<1>1. Edited(id, [Cmd(id) EXCEPT !.answer = a, !.lots = n]) /\ Cmd(id) \in OrderType
  BY AnswerEdits, Ordered
<1>2. PICK b \in OrderType : b = Cmd(id)
  BY <1>1
<1>3. PICK o : o = [b EXCEPT !.answer = a, !.lots = n]
  OBVIOUS
<1>4. /\ o.leg = b.leg /\ o.kind = b.kind /\ o.answer = a /\ o.lots = n
      /\ o.via = b.via /\ o.heard = b.heard
  BY ONLY <1>2, <1>3 DEF OrderType
<1>5. Edited(id, o)
  BY <1>1, <1>2, <1>3
<1> QED
  BY <1>2, <1>4, <1>5 DEF Edited, Answer

LEMMA ExecutedOf ==
    ASSUME NEW id
    PROVE  /\ Executed(id[1], id[2]) =
                 IF Cmd(id).leg # Master /\ Cmd(id).via = "EA" /\ Cmd(id).kind = "PARTIAL"
                    /\ Cmd(id).answer = "ok" /\ ~Cmd(id).heard
                 THEN Cmd(id).lots ELSE 0
           /\ Executed(id[1], id[2])' =
                 IF Cmd(id)'.leg # Master /\ Cmd(id)'.via = "EA" /\ Cmd(id)'.kind = "PARTIAL"
                    /\ Cmd(id)'.answer = "ok" /\ ~Cmd(id)'.heard
                 THEN Cmd(id)'.lots ELSE 0
  BY DEF Executed, Cmd

Settled(id) ==
    \/ Executed(id[1], id[2])' = 0
    \/ id \in Ids /\ Executed(id[1], id[2])' = Executed(id[1], id[2])

\* Only the filling of an order makes anything new to be taken off the book.
LEMMA ExecutedFalls ==
    ASSUME Typed, Moves, NEW id \in Ids', ~(id \in Ids /\ Fill(id))
    PROVE  Settled(id)
<1>1. ASSUME id \in Ids, Cmd(id)' = Cmd(id) PROVE Settled(id)
  BY <1>1, ExecutedOf DEF Settled
<1>2. ASSUME Cmd(id)'.answer # "ok" \/ Cmd(id)'.heard \/ Cmd(id)'.kind # "PARTIAL" PROVE Settled(id)
  BY <1>2, ExecutedOf DEF Settled
<1>3. CASE id \notin Ids
  BY <1>2, <1>3, NewCloses
<1>4. CASE Sending
  BY <1>1, <1>3, <1>4 DEF Sending
<1>5. ASSUME NEW x \in Ids, AckFallBack(x) PROVE Settled(id)
  <2>1. Cmd(x) \in OrderType /\ Cmd(x)' = [Cmd(x) EXCEPT !.status = "ACK_FAILED", !.heard = TRUE]
    BY <1>5, FallBackOrders, Ordered
  <2>2. Cmd(x)'.heard
    BY <2>1 DEF OrderType
  <2> QED
    BY <1>1, <1>2, <1>3, <1>5, <2>2, FallBackOrders
<1>6. ASSUME NEW x \in Ids, Editing(x), Handled(x) PROVE Settled(id)
  <2>1. CASE id # x
    <3>1. id \in Ids /\ Cmd(id)' = Cmd(id)
      BY <1>6, <2>1 DEF Editing, Edited
    <3> QED BY <3>1, <1>1
  <2>2. CASE id = x
    <3>1. PICK b \in OrderType : b = Cmd(id)
      BY <2>2, Ordered
    <3>2. ASSUME NEW s \in {"ACK_OK", "ACK_FAILED", "TIMEOUT"}, Heard(id, s) PROVE Settled(id)
      <4>1. Edited(id, [b EXCEPT !.status = s, !.heard = TRUE])
        BY <2>2, <3>1, <3>2, HeardEdits
      <4>2. Cmd(id)'.heard
        BY <3>1, <4>1 DEF Edited, OrderType
      <4> QED BY <4>2, <1>2
    <3>3. ASSUME NEW a \in Answers, NEW n \in Volumes, Answer(id, a, n), a # "ok" \/ b.kind = "OPEN"
          PROVE  Settled(id)
      <4>1. Cmd(id)'.answer = a /\ Cmd(id)'.kind = b.kind
        BY <2>2, <3>1, <3>3, AnswerOrders
      <4> QED BY <3>3, <4>1, <1>2
    <3>4. CASE FindGone(id)
      BY <3>3, <3>4, CloseAssumption DEF FindGone, Answers, Volumes
    <3>5. CASE Refuse(id)
      <4>1. PICK a \in {"failed", "rejected", "unknown"}, n \in {0, Cmd(id).lots} : Answer(id, a, n)
        BY <3>5 DEF Refuse
      <4>2. a \in Answers /\ a # "ok" /\ n \in Volumes
        BY <2>2, <4>1, TakenTyped, CloseAssumption DEF Answers, Volumes
      <4> QED BY <4>1, <4>2, <3>3
    <3>6. CASE OpenCopy(id)
      <4>1. Answer(id, "ok", Lots) /\ b.kind = "OPEN"
        BY <3>1, <3>6 DEF OpenCopy, Closes
      <4>2. "ok" \in Answers /\ Lots \in Volumes
        BY CloseAssumption DEF Answers, Volumes
      <4> QED BY <4>1, <4>2, <3>3
    <3>7. CASE LoseAnswer(id)
      <4>1. Edited(id, [b EXCEPT !.heard = TRUE])
        BY <2>2, <3>1, <3>7, StatusEdits
      <4>2. Cmd(id)'.heard
        BY <3>1, <4>1 DEF Edited, OrderType
      <4> QED BY <4>2, <1>2
    <3>8. CASE HearAnswer(id)
      <4>1. CASE AckFallBack(id)
        BY <2>2, <4>1, <1>5
      <4>2. CASE ~AckFallBack(id)
        <5>1. Heard(id, "ACK_OK") \/ Heard(id, "ACK_FAILED") \/ Heard(id, "TIMEOUT")
          BY <3>8, <4>2 DEF HearAnswer, AckMaster, AckClosed, AckPartial, AckUnknown, AckFailed, AckOpen
        <5> QED BY <5>1, <3>2
      <4> QED BY <4>1, <4>2
    <3>9. CASE Timeout(id) \/ CancelExpired(id)
      <4>1. PICK s : Edited(id, [b EXCEPT !.status = s])
        BY <2>2, <3>1, <3>9, StatusEdits
      <4>2. PICK o : o = [b EXCEPT !.status = s]
        OBVIOUS
      <4>3. /\ o.leg = b.leg /\ o.via = b.via /\ o.kind = b.kind /\ o.answer = b.answer
            /\ o.heard = b.heard /\ o.lots = b.lots
        BY ONLY <3>1, <4>2 DEF OrderType
      <4>4. Cmd(id)' = o
        BY <4>1, <4>2 DEF Edited
      <4>5. Executed(id[1], id[2])' = Executed(id[1], id[2])
        BY <3>1, <4>3, <4>4, ExecutedOf
      <4> QED BY <2>2, <4>5 DEF Settled
    <3>10. ~Fill(id)
      BY <2>2
    <3> QED
      BY <1>6, <2>2, <3>4, <3>5, <3>6, <3>7, <3>8, <3>9, <3>10 DEF Handled, Agent
  <2> QED BY <2>1, <2>2
<1> QED
  BY <1>4, <1>5, <1>6 DEF Moves

Falls(c, k) ==
    \/ Executed(c, k)' = 0
    \/ k \in DOMAIN command[c] /\ Executed(c, k)' = Executed(c, k)

LEMMA OrderAt ==
    ASSUME Typed, Moves, NEW c \in Clients, NEW k \in DOMAIN command'[c]
    PROVE  <<c, k>> \in Ids' /\ k \in Nat /\ k - 1 \in Nat /\ k > 0
<1>1. command' \in [Clients -> Seq(OrderType)] /\ Ids' = IdsOf(command')
  BY CommandsTyped DEF CommandTyped, Ids, IdsOf
<1>2. command'[c] \in Seq(OrderType) /\ k \in 1 .. Len(command'[c]) /\ Len(command'[c]) \in Nat
  BY <1>1
<1>3. <<c, k>> \in Ids'
  BY <1>1, <1>2, IdsAreOrders
<1>4. k \in Nat /\ k > 0
  BY ONLY <1>2
<1>5. k - 1 \in Nat
  BY ONLY <1>4
<1> QED
  BY <1>3, <1>4, <1>5

LEMMA FallsAt ==
    ASSUME Typed, Moves, NEW c \in Clients, NEW k \in DOMAIN command'[c],
           \A id \in Ids : id = <<c, k>> => ~Fill(id)
    PROVE  Falls(c, k)
<1>1. PICK id : id = <<c, k>>
  OBVIOUS
<1>2. id \in Ids' /\ id[1] = c /\ id[2] = k
  BY <1>1, OrderAt
<1>3. Settled(id)
  BY <1>1, <1>2, ExecutedFalls
<1>4. id \in Ids => k \in DOMAIN command[c]
  BY <1>2, Ordered DEF Typed
<1> QED
  BY <1>2, <1>3, <1>4 DEF Settled, Falls

LEMMA VolumesAreNat ==
    ASSUME Typed, NEW c \in Clients
    PROVE  /\ lots[c] \in Nat /\ pair[c].clots \in Nat
           /\ \A k \in DOMAIN command[c] : Executed(c, k) \in Nat
<1>1. c \in Legs /\ lots[c] \in Volumes /\ pair[c] \in PairType /\ command[c] \in Seq(OrderType)
  BY DEF Typed, Legs
<1>2. \A n \in Volumes : n \in Nat
  BY CloseAssumption DEF Volumes
<1>3. ASSUME NEW k \in DOMAIN command[c] PROVE Executed(c, k) \in Nat
  <2>1. command[c][k] \in OrderType
    BY <1>1, ElementOfSeq
  <2>2. command[c][k].lots \in Nat
    BY <1>2, <2>1 DEF OrderType
  <2> QED
    BY <2>2 DEF Executed
<1> QED
  BY <1>1, <1>2, <1>3 DEF PairType

\* Nothing is taken off, or only less.
LEMMA CoverStays ==
    ASSUME Typed, Moves, NEW c \in Clients, NEW acc \in [Nat -> Nat], CoveredBy(c, acc),
           lots'[c] \in Nat, lots'[c] <= lots[c], pair'[c].clots = pair[c].clots,
           \A k \in DOMAIN command'[c] : Falls(c, k)
    PROVE  CoveredBy(c, acc)'
<1>1. \A j, k \in Nat : j <= k => acc[j] <= acc[k]
  BY DEF CoveredBy
<1>2. ASSUME NEW k \in DOMAIN command'[c] PROVE acc[k] >= acc[k - 1] + Executed(c, k)'
  <2>1. k \in Nat /\ k - 1 \in Nat
    BY OrderAt
  <2>2. acc[k] \in Nat /\ acc[k - 1] \in Nat /\ acc[k - 1] <= acc[k]
    <3>1. k - 1 <= k
      BY ONLY <2>1
    <3> QED BY <2>1, <3>1, <1>1
  <2>3. CASE Executed(c, k)' = 0
    BY <2>2, <2>3
  <2>4. CASE k \in DOMAIN command[c] /\ Executed(c, k)' = Executed(c, k)
    BY <2>4 DEF CoveredBy
  <2> QED
    BY <2>3, <2>4 DEF Falls
<1>3. ASSUME NEW k \in Nat PROVE lots'[c] + acc[k] <= pair'[c].clots
  <2>1. lots[c] + acc[k] <= pair[c].clots /\ lots[c] \in Nat /\ pair[c].clots \in Nat /\ acc[k] \in Nat
    BY VolumesAreNat DEF CoveredBy
  <2> QED BY <2>1
<1> QED
  BY <1>1, <1>2, <1>3 DEF CoveredBy

\* Nothing is left to be taken off.
LEMMA NothingToTake ==
    ASSUME Typed, Moves, NEW c \in Clients, lots'[c] \in Nat, pair'[c].clots \in Nat,
           lots'[c] <= pair'[c].clots, \A k \in DOMAIN command'[c] : Executed(c, k)' = 0
    PROVE  \E acc \in [Nat -> Nat] : CoveredBy(c, acc)'
<1>1. PICK acc \in [Nat -> Nat] : acc = [k \in Nat |-> 0]
  OBVIOUS
<1>2. \A k \in Nat : acc[k] = 0
  BY <1>1
<1>3. ASSUME NEW k \in DOMAIN command'[c] PROVE acc[k] >= acc[k - 1] + Executed(c, k)'
  <2>1. acc[k] = 0 /\ acc[k - 1] = 0
    BY <1>2, OrderAt
  <2> QED
    BY <2>1
<1>4. \A k \in Nat : lots'[c] + acc[k] <= pair'[c].clots
  BY <1>2
<1>5. \A j, k \in Nat : j <= k => acc[j] <= acc[k]
  BY <1>2
<1>6. CoveredBy(c, acc)'
  BY <1>3, <1>4, <1>5 DEF CoveredBy
<1> QED
  BY <1>6

\* An order is filled: what it took is to be taken off the book.
LEMMA FillCovers ==
    ASSUME Typed, Moves, NEW id \in Ids, Fill(id), NEW acc \in [Nat -> Nat], CoveredBy(id[1], acc),
           Cmd(id).leg # Master
    PROVE  \E new \in [Nat -> Nat] : CoveredBy(id[1], new)'
<1>1. PICK c \in Clients, i \in Nat : c = id[1] /\ i = id[2] /\ id = <<c, i>>
  BY Ordered
<1>2. PICK n : n = Taken(id)
  OBVIOUS
<1>3. PICK a \in {"ok", "unknown"} : Answer(id, a, n)
  BY <1>2 DEF Fill
<1>4. Cmd(id).leg = c /\ n \in Volumes /\ n \in Nat /\ n <= lots[c] /\ lots[c] \in Nat /\ c \in Legs
  <2>1. Cmd(id).leg = c /\ n \in 0 .. lots[c] /\ n \in Volumes
    BY <1>1, <1>2, Ordered, TakenTyped
  <2> QED
    BY <2>1, VolumesAreNat, CloseAssumption DEF Volumes, Legs
<1>5. /\ Cmd(id)'.lots = n /\ Ids' = Ids /\ Cmd(id).answer = "none"
      /\ \A j \in Ids : j # id => Cmd(j)' = Cmd(j)
  BY <1>3, <1>4, AnswerOrders DEF Answers
<1>6. lots'[c] = lots[c] - n /\ pair' = pair
  <2>1. lots' = [lots EXCEPT ![c] = @ - n] /\ lots \in [Legs -> Volumes] /\ pair' = pair
    BY <1>2, <1>3, <1>4 DEF Fill, Deal, Typed, Answer
  <2> QED
    BY <1>4, <2>1
<1>7. PICK new \in [Nat -> Nat] : new = [k \in Nat |-> IF k < i THEN acc[k] ELSE acc[k] + n]
  <2>1. \A k \in Nat : acc[k] \in Nat /\ acc[k] + n \in Nat
    BY <1>4
  <2>2. [k \in Nat |-> IF k < i THEN acc[k] ELSE acc[k] + n] \in [Nat -> Nat]
    BY ONLY <2>1
  <2> QED BY <2>2
<1>8. \A k \in Nat : /\ acc[k] \in Nat /\ new[k] \in Nat
                     /\ new[k] = IF k < i THEN acc[k] ELSE acc[k] + n
  BY <1>7
<1>9. \A j, k \in Nat : j <= k => acc[j] <= acc[k]
  BY <1>1 DEF CoveredBy
<1>10. ASSUME NEW j \in Nat, NEW k \in Nat, j <= k PROVE new[j] <= new[k]
  <2>1. acc[j] <= acc[k]
    BY <1>9, <1>10
  <2> QED
    BY <1>1, <1>4, <1>8, <1>10, <2>1
<1>11. ASSUME NEW k \in DOMAIN command'[c] PROVE new[k] >= new[k - 1] + Executed(c, k)'
  <2>1. k \in Nat /\ k - 1 \in Nat /\ k > 0 /\ <<c, k>> \in Ids
    BY <1>5, OrderAt
  <2>2. k \in DOMAIN command[c]
    <3>1. PICK x \in Ids : x[1] = c /\ x[2] = k
      BY <2>1
    <3>2. k \in 1 .. Len(command[c])
      BY <3>1, Ordered
    <3>3. DOMAIN command[c] = 1 .. Len(command[c])
      <4>1. command[c] \in Seq(OrderType)
        BY DEF Typed
      <4> QED BY <4>1, LenProperties
    <3> QED BY ONLY <3>2, <3>3
  <2>3. acc[k] >= acc[k - 1] + Executed(c, k) /\ Executed(c, k) \in Nat
    BY <1>1, <2>2, VolumesAreNat DEF CoveredBy
  <2>4. CASE k = i
    <3>1. Executed(c, k)' \in {0, n}
      BY <1>1, <1>5, <2>4, ExecutedOf
    <3>2. new[k] = acc[k] + n /\ new[k - 1] = acc[k - 1]
      <4>1. k - 1 < i /\ ~(k < i)
        BY ONLY <2>1, <2>4, <1>1
      <4> QED BY <4>1, <2>1, <1>8
    <3>3. acc[k] \in Nat /\ acc[k - 1] \in Nat
      BY <2>1
    <3> QED
      BY <1>4, <2>3, <3>1, <3>2, <3>3
  <2>5. CASE k # i
    <3>1. Executed(c, k)' = Executed(c, k)
      <4>1. Cmd(<<c, k>>)' = Cmd(<<c, k>>)
        BY <1>1, <1>5, <2>1, <2>5
      <4> QED
        BY <4>1 DEF Executed, Cmd
    <3>2. acc[k] \in Nat /\ acc[k - 1] \in Nat
      BY <2>1
    <3>3. CASE k < i
      <4>1. new[k] = acc[k] /\ new[k - 1] = acc[k - 1]
        <5>1. k - 1 < i
          BY ONLY <3>3, <2>1, <1>1
        <5> QED BY <2>1, <3>3, <5>1, <1>8
      <4> QED BY <4>1, <3>1, <2>3
    <3>4. CASE i < k
      <4>1. new[k] = acc[k] + n /\ new[k - 1] = acc[k - 1] + n
        <5>1. ~(k < i) /\ ~(k - 1 < i)
          BY ONLY <3>4, <2>1, <1>1
        <5> QED BY <2>1, <5>1, <1>8
      <4> QED BY <4>1, <3>1, <3>2, <2>3, <1>4
    <3> QED
      BY <1>1, <2>1, <2>5, <3>3, <3>4
  <2> QED BY <2>4, <2>5
<1>12. ASSUME NEW k \in Nat PROVE lots'[c] + new[k] <= pair'[c].clots
  <2>1. lots[c] + acc[k] <= pair[c].clots /\ pair[c].clots \in Nat /\ acc[k] \in Nat
    BY <1>1, VolumesAreNat DEF CoveredBy
  <2>2. new[k] <= acc[k] + n /\ new[k] \in Nat
    BY <1>4, <1>8
  <2> QED
    BY <1>4, <1>6, <2>1, <2>2
<1>13. CoveredBy(c, new)'
  BY <1>10, <1>11, <1>12 DEF CoveredBy
<1> QED
  BY <1>1, <1>13

\* An answer is heard: what it says was taken is taken off the book.
LEMMA ReducedCovers ==
    ASSUME Typed, Moves, NEW id \in Ids, AckPartial(id), NEW acc \in [Nat -> Nat],
           CoveredBy(id[1], acc), lots' = lots, Cmd(id).answer = "ok", Cmd(id).leg # Master,
           Cmd(id).via = "EA", pair'[id[1]].clots = pair[id[1]].clots - Cmd(id).lots,
           \A k \in DOMAIN command'[id[1]] : Falls(id[1], k)
    PROVE  \E new \in [Nat -> Nat] : CoveredBy(id[1], new)'
<1>1. PICK c \in Clients, i \in Nat : c = id[1] /\ i = id[2] /\ id = <<c, i>>
  BY Ordered
<1>2. PICK n : n = Cmd(id).lots
  OBVIOUS
<1>3. i \in DOMAIN command[c] /\ i > 0 /\ i - 1 \in Nat /\ n \in Nat
  <2>1. i \in 1 .. Len(command[c]) /\ command[c] \in Seq(OrderType)
    BY <1>1, Ordered DEF Typed
  <2>2. DOMAIN command[c] = 1 .. Len(command[c]) /\ Len(command[c]) \in Nat
    BY <2>1, LenProperties
  <2>3. i \in DOMAIN command[c] /\ i \in Nat /\ i > 0
    BY ONLY <2>1, <2>2
  <2>4. i - 1 \in Nat
    BY ONLY <2>3
  <2>5. n \in Nat
    BY <1>2, TakenTyped, CloseAssumption DEF Volumes
  <2> QED BY <2>3, <2>4, <2>5
<1>4. Executed(c, i) = n /\ Executed(c, i)' = 0
  <2>1. Cmd(id).kind = "PARTIAL" /\ ~Cmd(id).heard /\ Heard(id, "ACK_OK")
    BY <1>1 DEF AckPartial, Answered
  <2>2. Edited(id, [Cmd(id) EXCEPT !.status = "ACK_OK", !.heard = TRUE]) /\ Cmd(id) \in OrderType
    BY <2>1, HeardEdits, Ordered
  <2>3. Cmd(id)'.heard
    BY <2>2 DEF Edited, OrderType
  <2> QED
    BY <1>1, <1>2, <2>1, <2>3, ExecutedOf
<1>5. acc[i] >= acc[i - 1] + n /\ acc[i] \in Nat /\ acc[i - 1] \in Nat
  BY <1>1, <1>3, <1>4 DEF CoveredBy
<1>6. \A j, k \in Nat : j <= k => acc[j] <= acc[k]
  BY <1>1 DEF CoveredBy
<1>7. \A k \in Nat : acc[k] \in Nat /\ (i <= k => acc[k] - n \in Nat)
  <2> SUFFICES ASSUME NEW k \in Nat PROVE acc[k] \in Nat /\ (i <= k => acc[k] - n \in Nat)
    OBVIOUS
  <2>1. i <= k => acc[i] <= acc[k]
    BY <1>1, <1>6
  <2> QED
    BY <2>1, <1>3, <1>5
<1>8. PICK new \in [Nat -> Nat] : new = [k \in Nat |-> IF k < i THEN acc[k] ELSE acc[k] - n]
  <2>1. \A k \in Nat : ~(k < i) => i <= k
    BY <1>1
  <2>2. [k \in Nat |-> IF k < i THEN acc[k] ELSE acc[k] - n] \in [Nat -> Nat]
    BY ONLY <1>7, <2>1
  <2> QED BY <2>2
<1>9. \A k \in Nat : new[k] \in Nat /\ new[k] = IF k < i THEN acc[k] ELSE acc[k] - n
  BY <1>8
<1>10. ASSUME NEW j \in Nat, NEW k \in Nat, j <= k PROVE new[j] <= new[k]
  <2>1. acc[j] <= acc[k] /\ acc[j] \in Nat /\ acc[k] \in Nat
    BY <1>6, <1>10
  <2>2. CASE j < i /\ i <= k
    <3>1. acc[j] <= acc[i - 1]
      <4>1. j <= i - 1
        BY ONLY <2>2, <1>1, <1>3, j \in Nat
      <4> QED BY <4>1, <1>3, <1>6
    <3>2. acc[i] <= acc[k]
      BY <2>2, <1>1, <1>6
    <3>3. new[j] = acc[j] /\ new[k] = acc[k] - n
      BY <2>2, <1>1, <1>9
    <3> QED
      BY <1>3, <1>5, <2>1, <3>1, <3>2, <3>3
  <2>3. CASE ~(j < i /\ i <= k)
    <3>1. \/ new[j] = acc[j] /\ new[k] = acc[k]
          \/ new[j] = acc[j] - n /\ new[k] = acc[k] - n
      BY <1>1, <1>9, <1>10, <2>3
    <3> QED
      BY <1>3, <2>1, <3>1
  <2> QED BY <2>2, <2>3
<1>11. ASSUME NEW k \in DOMAIN command'[c] PROVE new[k] >= new[k - 1] + Executed(c, k)'
  <2>1. k \in Nat /\ k - 1 \in Nat /\ k > 0
    BY OrderAt
  <2>2. new[k - 1] <= new[k] /\ new[k] \in Nat /\ new[k - 1] \in Nat
    <3>1. k - 1 <= k
      BY ONLY <2>1
    <3> QED BY <2>1, <3>1, <1>9, <1>10
  <2>3. CASE Executed(c, k)' = 0
    BY <2>2, <2>3
  <2>4. CASE Executed(c, k)' # 0
    <3>1. k # i /\ k \in DOMAIN command[c] /\ Executed(c, k)' = Executed(c, k)
      BY <1>1, <1>4, <2>4 DEF Falls
    <3>2. acc[k] >= acc[k - 1] + Executed(c, k) /\ Executed(c, k) \in Nat
      BY <1>1, <3>1, VolumesAreNat DEF CoveredBy
    <3>3. acc[k] \in Nat /\ acc[k - 1] \in Nat
      BY <2>1
    <3>4. CASE k < i
      <4>1. new[k] = acc[k] /\ new[k - 1] = acc[k - 1]
        <5>1. k - 1 < i
          BY ONLY <3>4, <2>1, <1>1
        <5> QED BY <2>1, <3>4, <5>1, <1>9
      <4> QED BY <4>1, <3>1, <3>2
    <3>5. CASE i < k
      <4>1. new[k] = acc[k] - n /\ new[k - 1] = acc[k - 1] - n
        <5>1. ~(k < i) /\ ~(k - 1 < i)
          BY ONLY <3>5, <2>1, <1>1
        <5> QED BY <2>1, <5>1, <1>9
      <4> QED BY <4>1, <3>1, <3>2, <3>3, <1>3
    <3> QED
      BY <1>1, <2>1, <3>1, <3>4, <3>5
  <2> QED BY <2>3, <2>4
<1>12. ASSUME NEW k \in Nat PROVE lots'[c] + new[k] <= pair'[c].clots
  <2>1. /\ lots[c] + acc[k] <= pair[c].clots /\ lots[c] + acc[i] <= pair[c].clots
        /\ pair[c].clots \in Nat /\ lots[c] \in Nat /\ acc[k] \in Nat
    BY <1>1, VolumesAreNat DEF CoveredBy
  <2>2. lots'[c] = lots[c] /\ pair'[c].clots = pair[c].clots - n
    BY <1>1, <1>2
  <2>3. CASE k < i
    <3>1. acc[k] <= acc[i - 1]
      <4>1. k <= i - 1
        BY ONLY <2>3, <1>1, <1>3, k \in Nat
      <4> QED BY <4>1, <1>3, <1>6
    <3>2. new[k] = acc[k]
      BY <2>3, <1>9
    <3> QED
      BY <1>3, <1>5, <2>1, <2>2, <3>1, <3>2
  <2>4. CASE ~(k < i)
    <3>1. new[k] = acc[k] - n
      BY <2>4, <1>9
    <3> QED
      BY <1>3, <2>1, <2>2, <3>1
  <2> QED BY <2>3, <2>4
<1>13. CoveredBy(c, new)'
  BY <1>10, <1>11, <1>12 DEF CoveredBy
<1> QED
  BY <1>1, <1>13

\* A known position does not grow.
LEMMA KnownFalls ==
    ASSUME Typed, Unopened, Flows, NEW c \in Clients, pair[c].known
    PROVE  lots'[c] <= lots[c]
<1>1. lots \in [Legs -> Volumes] /\ c \in Legs /\ \A l \in Legs : lots[l] \in Nat
  BY CloseAssumption DEF Typed, Legs, Volumes
<1>2. ASSUME NEW l \in Legs, NEW by \in {"hand", "bot"}, NEW cause \in {None} \cup Ids,
             NEW n \in 0 .. lots[l], Dealing(l, n, cause, by)
      PROVE  lots'[c] <= lots[c]
  <2>1. lots' = [lots EXCEPT ![l] = lots[l] - n] /\ n \in Nat
    BY <1>1, <1>2 DEF Dealing, Deal
  <2> QED
    BY <1>1, <2>1
<1>3. ASSUME NEW id \in Ids, OpenCopy(id) PROVE lots'[c] <= lots[c]
  <2>1. id[1] # c /\ lots' = [lots EXCEPT ![id[1]] = Lots]
    BY <1>3, OpenCopyFlow
  <2> QED
    BY <1>1, <2>1
<1>4. ASSUME UNCHANGED lots PROVE lots'[c] <= lots[c]
  <2>1. lots[c] \in Nat
    BY <1>1
  <2> QED
    BY <1>4, <2>1
<1> QED
  BY <1>2, <1>3, <1>4 DEF Flows, Hearing

LEMMA BookCoversStep ==
    ASSUME Typed, EventsAddUp, Unopened, OrdersOK, KnownIsBound, BookCovers, Flows, Moves, Typed',
           \A c \in Clients : PairMoves(c)
    PROVE  BookCovers'
<1> SUFFICES ASSUME NEW c \in Clients, pair'[c].known, lots'[c] > 0
             PROVE  \E acc \in [Nat -> Nat] : CoveredBy(c, acc)'
  BY DEF BookCovers
<1>1. /\ c \in Legs /\ lots'[c] \in Nat /\ lots[c] \in Nat
      /\ pair[c].clots \in Nat /\ pair'[c].clots \in Nat
  BY CloseAssumption DEF Typed, Legs, Volumes, PairType
<1>2. CASE \E id \in Ids : Fill(id) /\ id[1] = c /\ Cmd(id).leg # Master
  <2>1. PICK id \in Ids : Fill(id) /\ id[1] = c /\ Cmd(id).leg # Master
    BY <1>2
  <2>2. pair' = pair
    BY <2>1 DEF Fill, Answer
  <2>3. pair[c].known /\ lots[c] > 0
    BY <1>1, <2>2, KnownFalls
  <2>4. PICK acc \in [Nat -> Nat] : CoveredBy(c, acc)
    BY <2>3 DEF BookCovers
  <2> QED
    BY <2>1, <2>4, FillCovers
<1>3. CASE ~\E id \in Ids : Fill(id) /\ id[1] = c /\ Cmd(id).leg # Master
  <2>1. ASSUME NEW k \in DOMAIN command'[c] PROVE Falls(c, k)
    <3>1. CASE \A id \in Ids : id = <<c, k>> => ~Fill(id)
      BY <3>1, FallsAt
    <3>2. CASE \E id \in Ids : id = <<c, k>> /\ Fill(id)
      <4>1. PICK id \in Ids : id = <<c, k>> /\ Fill(id)
        BY <3>2
      <4>2. id[1] = c /\ id[2] = k /\ Cmd(id).leg = Master
        BY <1>3, <4>1
      <4>3. Cmd(id)'.leg = Master
        BY <4>2, TasksStay DEF SameTask
      <4> QED
        BY <4>2, <4>3, ExecutedOf DEF Falls
    <3> QED BY <3>1, <3>2
  <2>2. ASSUME pair[c].known, pair'[c].clots = pair[c].clots
        PROVE  \E acc \in [Nat -> Nat] : CoveredBy(c, acc)'
    <3>1. lots'[c] <= lots[c] /\ lots[c] > 0
      BY <1>1, <2>2, KnownFalls
    <3>2. PICK acc \in [Nat -> Nat] : CoveredBy(c, acc)
      BY <2>2, <3>1 DEF BookCovers
    <3>3. CoveredBy(c, acc)'
      BY <1>1, <2>1, <2>2, <3>1, <3>2, CoverStays
    <3> QED BY <3>3
  <2>3. ASSUME lots'[c] <= pair'[c].clots,
               \A id \in Ids : id[1] = c => Executed(id[1], id[2]) = 0
        PROVE  \E acc \in [Nat -> Nat] : CoveredBy(c, acc)'
    <3>1. ASSUME NEW k \in DOMAIN command'[c] PROVE Executed(c, k)' = 0
      <4>1. CASE k \in DOMAIN command[c]
        <5>1. <<c, k>> \in Ids
          BY <4>1 DEF Ids
        <5>2. PICK id \in Ids : id[1] = c /\ id[2] = k
          BY <5>1
        <5>3. Executed(c, k) = 0
          BY <2>3, <5>2
        <5> QED
          BY <2>1, <5>3 DEF Falls
      <4> QED
        BY <2>1, <4>1 DEF Falls
    <3> QED
      BY <1>1, <2>3, <3>1, NothingToTake
  <2>4. CASE Relabelled(c)
    BY <2>2, <2>4 DEF Relabelled
  <2>5. CASE Finished(c)
    BY <1>1, <2>5 DEF Finished
  <2>6. ASSUME Hearing(c), pair'[c].clots = Head(events[c]).after
        PROVE  \E acc \in [Nat -> Nat] : CoveredBy(c, acc)'
    <3>1. events[c] # <<>> /\ lots'[c] = lots[c]
      BY <2>6 DEF Hearing
    <3>2. lots'[c] <= pair'[c].clots
      BY <1>1, <2>6, <3>1, NothingLeft
    <3>3. ASSUME NEW id \in Ids, id[1] = c PROVE Executed(id[1], id[2]) = 0
      <4>1. Cmd(id).leg \in {c, Master}
        BY <3>3, Ordered
      <4> QED
        BY <2>6, <3>3, <4>1, ExecutedOf DEF Hearing
    <3> QED
      BY <2>3, <3>2, <3>3
  <2>7. CASE Reported(c)
    BY <2>6, <2>7 DEF Reported
  <2>8. CASE Reduced(c)
    <3>1. PICK id \in Ids :
            /\ id[1] = c /\ AckPartial(id)
            /\ pair'[c].clots = pair[c].clots - (IF Cmd(id).via = "EA" THEN Cmd(id).lots ELSE 0)
      BY <2>8 DEF Reduced
    <3>2. pair[c].known /\ lots' = lots /\ lots[c] > 0
      BY <1>1, <2>8 DEF Reduced
    <3>3. CASE Cmd(id).via # "EA"
      BY <1>1, <2>2, <3>1, <3>2, <3>3
    <3>4. CASE Cmd(id).via = "EA"
      <4>1. /\ Cmd(id).leg # Master /\ Cmd(id).kind = "PARTIAL"
            /\ Cmd(id).answer \in {"ok", "already_closed"} /\ Cmd(id).leg = c
        BY <3>1, Ordered DEF AckPartial, Done
      <4>2. Cmd(id).answer = "ok"
        BY <3>2, <4>1 DEF OrdersOK, OrderOK
      <4>3. PICK acc \in [Nat -> Nat] : CoveredBy(c, acc)
        BY <3>2 DEF BookCovers
      <4> QED
        BY <2>1, <3>1, <3>2, <3>4, <4>1, <4>2, <4>3, ReducedCovers
    <3> QED BY <3>3, <3>4
  <2>9. CASE Named(c)
    <3>1. ~pair[c].known /\ lots' = lots
      BY <2>9 DEF Named, KnownIsBound
    <3>2. ASSUME NEW id \in Ids, id[1] = c PROVE Executed(id[1], id[2]) = 0
      BY <3>1, <3>2, ExecutedOf DEF OrdersOK, OrderOK
    <3>3. CASE pair'[c].clots = Lots
      <4>1. lots'[c] <= Lots
        BY CloseAssumption DEF Typed, Volumes, Legs
      <4> QED
        BY <2>3, <3>2, <3>3, <4>1
    <3>4. CASE Hearing(c) /\ pair'[c].clots = Head(events[c]).after
      BY <2>6, <3>4
    <3> QED
      BY <2>9, <3>3, <3>4 DEF Named
  <2> QED
    BY <2>4, <2>5, <2>7, <2>8, <2>9 DEF PairMoves
<1> QED
  BY <1>2, <1>3

-----------------------------------------------------------------------------
(* The inductive invariant.                                                  *)

IInv ==
    /\ Typed /\ EventsAddUp /\ BookBehind /\ BookCovers
    /\ Unopened /\ KnownIsBound /\ OrdersOK /\ EventsOK /\ MasterGone
    /\ OneCloseInFlight /\ ClosedIsFlat

\* What there is at the start: a pair is open, or its copy has been ordered.
LEMMA Beginning ==
    ASSUME Init
    PROVE  /\ Typed /\ lots[Master] = Lots /\ mbook = "OPEN" /\ \A l \in Legs : events[l] = <<>>
           /\ \A c \in Clients :
                 /\ c # Master /\ pair[c].wanted = None /\ pair[c].mlots = Lots
                 /\ pair[c].known => /\ pair[c].status = "OPEN" /\ pair[c].clots = Lots
                                     /\ command[c] = <<>> /\ lots[c] = Lots
                 /\ ~pair[c].known => /\ pair[c].status = "PENDING_OPEN" /\ lots[c] = 0
                                      /\ <<c, 1>> \in Ids
           /\ \A id \in Ids :
                 /\ id[2] = 1 /\ id[1] \in Clients /\ ~pair[id[1]].known /\ Cmd(id).leg = id[1]
                 /\ Cmd(id).kind = "OPEN" /\ Cmd(id).source = "MASTER" /\ Cmd(id).status = "SENT"
                 /\ Cmd(id).answer = "none"
<1>0. Typed
  BY TypedInit
<1>1. PICK pending \in SUBSET Clients :
        /\ pair = [c \in Clients |->
               [status |-> IF c \in pending THEN "PENDING_OPEN" ELSE "OPEN",
                known |-> c \notin pending, wanted |-> None, mlots |-> Lots,
                clots |-> IF c \in pending THEN 0 ELSE Lots]]
        /\ command = [c \in Clients |->
               IF c \in pending
               THEN <<Order(c, IF c \in UiClients THEN "UI" ELSE "EA", "OPEN", Lots, "MASTER")>>
               ELSE <<>>]
        /\ lots = [l \in Legs |-> IF l \in pending THEN 0 ELSE Lots]
        /\ events = [l \in Legs |-> <<>>] /\ mbook = "OPEN"
  BY DEF Init
<1>2. ASSUME NEW c \in Clients
      PROVE  /\ pair[c].known <=> c \notin pending
             /\ pair[c].status = IF c \in pending THEN "PENDING_OPEN" ELSE "OPEN"
             /\ pair[c].wanted = None /\ pair[c].mlots = Lots
             /\ c \notin pending => pair[c].clots = Lots /\ command[c] = <<>>
             /\ lots[c] = IF c \in pending THEN 0 ELSE Lots
             /\ c # Master /\ (c \in pending => command[c] # <<>>)
  BY <1>1, CloseAssumption DEF Legs
<1>3. lots[Master] = Lots /\ \A l \in Legs : events[l] = <<>>
  BY <1>1, CloseAssumption DEF Legs
<1>4. ASSUME NEW id \in Ids
      PROVE  /\ id[2] = 1 /\ id[1] \in pending /\ id[1] \in Clients /\ Cmd(id).leg = id[1]
             /\ Cmd(id).kind = "OPEN" /\ Cmd(id).source = "MASTER" /\ Cmd(id).status = "SENT"
             /\ Cmd(id).answer = "none"
  <2>1. id[1] \in Clients /\ id[2] \in 1 .. Len(command[id[1]])
    BY <1>0, Ordered
  <2> DEFINE x == Order(id[1], IF id[1] \in UiClients THEN "UI" ELSE "EA", "OPEN", Lots, "MASTER")
  <2>2. x.leg = id[1] /\ x.kind = "OPEN" /\ x.source = "MASTER" /\ x.status = "SENT" /\ x.answer = "none"
    BY DEF Order
  <2>3. command[id[1]] = IF id[1] \in pending THEN <<x>> ELSE <<>>
    BY <1>1, <2>1
  <2> HIDE DEF x
  <2>4. id[1] \in pending /\ id[2] = 1 /\ command[id[1]][1] = x
    BY <2>1, <2>3
  <2> QED
    BY <2>1, <2>2, <2>4 DEF Cmd
<1>5. ASSUME NEW c \in Clients, c \in pending PROVE <<c, 1>> \in Ids
  <2>1. command[c] # <<>> /\ command[c] \in Seq(OrderType)
    BY <1>0, <1>2, <1>5 DEF Typed
  <2>2. 1 \in 1 .. Len(command[c])
    BY <2>1
  <2> QED
    BY <1>0, <2>2, Ordered
<1>6. ASSUME NEW c \in Clients
      PROVE  /\ pair[c].known => /\ pair[c].status = "OPEN" /\ pair[c].clots = Lots
                                 /\ command[c] = <<>> /\ lots[c] = Lots
             /\ ~pair[c].known => /\ pair[c].status = "PENDING_OPEN" /\ lots[c] = 0
                                  /\ <<c, 1>> \in Ids
  BY <1>2, <1>5
<1>7. \A id \in Ids : ~pair[id[1]].known
  BY <1>2, <1>4
<1> QED
  BY <1>0, <1>1, <1>2, <1>3, <1>4, <1>6, <1>7

LEMMA InvInit == Init => IInv
<1> SUFFICES ASSUME Init PROVE IInv
  OBVIOUS
<1>1. /\ Typed /\ lots[Master] = Lots /\ mbook = "OPEN" /\ \A l \in Legs : events[l] = <<>>
  BY Beginning
<1>2. ASSUME NEW c \in Clients
      PROVE  /\ c # Master /\ pair[c].wanted = None /\ pair[c].mlots = Lots
             /\ pair[c].status \in {"PENDING_OPEN", "OPEN"}
             /\ pair[c].known => /\ pair[c].status = "OPEN" /\ pair[c].clots = Lots
                                 /\ command[c] = <<>> /\ lots[c] = Lots
             /\ ~pair[c].known => lots[c] = 0
  BY Beginning
<1>3. ASSUME NEW id \in Ids
      PROVE  /\ id[2] = 1 /\ id[1] \in Clients /\ ~pair[id[1]].known /\ Cmd(id).leg = id[1]
             /\ Cmd(id).kind = "OPEN" /\ Cmd(id).source = "MASTER" /\ Cmd(id).status = "SENT"
             /\ Cmd(id).answer = "none"
  BY Beginning
<1>4. EventsAddUp /\ EventsOK
  BY <1>1 DEF EventsAddUp, Chained, EventsOK
<1>5. BookBehind
  <2>1. Before(Master) = Lots /\ Lots >= Lots
    BY <1>1, CloseAssumption DEF Before, Legs
  <2> QED
    BY <1>2, <2>1 DEF BookBehind
<1>6. BookCovers
  <2> SUFFICES ASSUME NEW c \in Clients, pair[c].known
               PROVE  \E acc \in [Nat -> Nat] : CoveredBy(c, acc)
    BY DEF BookCovers
  <2>1. PICK acc \in [Nat -> Nat] : acc = [k \in Nat |-> 0]
    OBVIOUS
  <2>2. \A k \in Nat : acc[k] = 0
    BY <2>1
  <2>3. command[c] = <<>> /\ lots[c] = Lots /\ pair[c].clots = Lots
    BY <1>2
  <2>4. CoveredBy(c, acc)
    BY <2>2, <2>3, CloseAssumption DEF CoveredBy
  <2> QED BY <2>4
<1>7. Unopened
  BY <1>1, <1>2, <1>3 DEF Unopened, Closes, Legs
<1>8. KnownIsBound /\ ClosedIsFlat
  BY <1>2 DEF KnownIsBound, ClosedIsFlat
<1>9. OrdersOK
  BY <1>2, <1>3 DEF OrdersOK, OrderOK
<1>10. MasterGone
  BY <1>1, <1>2, CloseAssumption DEF MasterGone
<1>11. OneCloseInFlight
  BY <1>3 DEF OneCloseInFlight, Closes
<1> QED
  BY <1>1, <1>4, <1>5, <1>6, <1>7, <1>8, <1>9, <1>10, <1>11 DEF IInv

LEMMA InvStep == IInv /\ [Next]_vars => IInv'
<1> SUFFICES ASSUME IInv, [Next]_vars PROVE IInv'
  OBVIOUS
<1> USE DEF IInv
<1>1. Typed'
  BY TypedStep
<1>2. Moves /\ Flows /\ Grows
  BY OrdersMove, FlowStep, GrowsStep
<1>3. \A c \in Clients : PairMoves(c)
  BY PairStep
<1>4. EventsAddUp' /\ BookBehind'
  BY <1>2, <1>3, AddUpStep, BookBehindStep
<1>5. BookCovers'
  BY <1>1, <1>2, <1>3, BookCoversStep
<1>6. Unopened' /\ KnownIsBound'
  BY <1>2, <1>3, UnopenedStep, KnownIsBoundStep
<1>7. OrdersOK' /\ OneCloseInFlight'
  BY <1>2, <1>3, OrdersStep, OneCloseStep
<1>8. EventsOK' /\ MasterGone'
  BY <1>2, <1>3, EventsStep, MasterGoneStep
<1>9. ClosedIsFlat'
  BY <1>2, <1>3, ClosedIsFlatStep
<1> QED
  BY <1>1, <1>4, <1>5, <1>6, <1>7, <1>8, <1>9

LEMMA Invariance == Spec => []IInv
  BY InvInit, InvStep, PTL DEF Spec

\* Every variable keeps its type: no book and no position goes below zero or
\* above what was opened, and the cascades wait for commands that exist.
THEOREM TypeCorrect == Spec => []TypeOK
<1>1. ASSUME IInv PROVE TypeOK
  <2>1. Typed
    BY <1>1 DEF IInv
  <2>2. ASSUME NEW id \in Ids
        PROVE  Cmd(id) \in [leg : {id[1], Master}, via : {"EA", "UI"},
                       kind : {"OPEN", "CLOSE", "PARTIAL"}, lots : 0 .. Lots,
                       source : {"MASTER", "CLIENT", "BOT"},
                       status : {"SENT", "ACK_OK", "ACK_FAILED", "TIMEOUT", "CANCELLED"},
                       answer : Answers \cup {"none"}, heard : BOOLEAN]
    <3>1. Cmd(id) \in OrderType /\ Cmd(id).leg \in {id[1], Master}
      BY <2>1, Ordered
    <3> QED
      BY ONLY <3>1 DEF OrderType, Volumes
  <2> QED
    BY <2>1, <2>2 DEF TypeOK, Typed, PairType, Volumes
<1> QED
  BY <1>1, Invariance, PTL

\* Whatever Master closes, cascades, fallbacks and the emergency do at once, no
\* leg has two orders to close it in flight before a person has been told of it.
THEOREM OneCloseCorrect == Spec => []OneCloseInFlight
<1>1. IInv => OneCloseInFlight
  BY DEF IInv
<1> QED
  BY <1>1, Invariance, PTL

\* A pair the book calls CLOSED has no position left at its Client, however
\* answers, events and closes by hand were ordered.
THEOREM ClosedIsFlatCorrect == Spec => []ClosedIsFlat
<1>1. IInv => ClosedIsFlat
  BY DEF IInv
<1> QED
  BY <1>1, Invariance, PTL

\* As long as no event of the bot's own is reported after the grace window, the
\* Master is closed on behalf of a Client only if a person closed that Client.
THEOREM NoFalseCascadeCorrect == Spec => []NoFalseCascade
<1>1. IInv => NoFalseCascade
  BY DEF IInv, OrdersOK, OrderOK, NoFalseCascade
<1> QED
  BY <1>1, Invariance, PTL

\* A cascade reaches the other Clients only when the Master's position is gone.
THEOREM CascadeWaitsCorrect == Spec => []CascadeWaitsForMaster
<1>1. IInv => CascadeWaitsForMaster
  BY DEF IInv, OrdersOK, OrderOK, CascadeWaitsForMaster
<1> QED
  BY <1>1, Invariance, PTL

=============================================================================
