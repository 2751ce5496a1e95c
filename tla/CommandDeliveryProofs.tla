----------------------- MODULE CommandDeliveryProofs -----------------------
(* Theorems about CommandDelivery for any set of pairs, any number of retries *)
(* and any number of breaks and crashes, for the EA and for the clicker.     *)
EXTENDS CommandDelivery, TLAPS

Elems(q) == {q[j] : j \in DOMAIN q}
Injective(q) == \A j, k \in DOMAIN q : q[j] = q[k] => j = k

\* Where an answer to a command may still come from.
Running(c) == doing = c /\ step = "reserved"
Owes(c)    == doing = c /\ step \in {"reserved", "acted", "saved"}
Queued(c)  == c \in Elems(toAgent)
Acked(c)   == \E m \in Elems(toBridge) : m.cmd = c
Unwritten(c) == c \in todo /\ c # written

\* The command has opened nothing and never will.
NotRun(c) == c \notin ran /\ journal[c] # "none" /\ ~Running(c)

\* What an answer proves.
Says(c, a) == /\ a \in {"refused", "denied"} => NotRun(c)
              /\ a = "ok" /\ Kind = "EA" => c \in ran

AgentInv ==
    /\ doing = NoCommand <=> step = "idle"
    /\ doing # NoCommand => journal[doing] # "none"
    /\ step \in {"acted", "saved", "sent"} => answer \in Answers
    /\ \A c \in ran : journal[c] # "none" /\ ~Running(c)
    /\ \A c \in Commands : journal[c] # "none" \/ Queued(c) => status[c] # "none"
    /\ ~up => toAgent = <<>>

Truth ==
    /\ step \in {"acted", "saved", "sent"} => Says(doing, answer)
    /\ \A m \in Elems(toBridge) : Says(m.cmd, m.answer)
    /\ \A c \in Commands : Says(c, journal[c]) /\ Says(c, result[c])

HandlerInv ==
    /\ \A c \in todo : status[c] = "PENDING"
    /\ written # NoCommand => written \in todo /\ conn
    /\ judged # NoCommand => todo = {}
    /\ judged # NoCommand => status[judged] # "none"
    /\ \A c \in Commands : status[c] \in {"none", "PENDING", "SENT"} => result[c] = "none"

\* At most one answer to a command is under way, and none once it has one.
OneAnswer ==
    /\ Injective(toAgent) /\ Injective(toBridge)
    /\ conn => \A c \in Commands :
        /\ Queued(c) => ~Owes(c) /\ ~Acked(c) /\ ~Unwritten(c)
        /\ Owes(c) => ~Acked(c) /\ ~Unwritten(c)
        /\ Acked(c) => ~Unwritten(c)
        /\ result[c] # "none" => ~Queued(c) /\ ~Owes(c) /\ ~Acked(c)
        /\ Acked(c) => status[c] # "none"
    /\ conn => \A m1, m2 \in Elems(toBridge) : m1.cmd = m2.cmd => m1 = m2

\* A pair's attempts follow each other, each after a refusal of the one before.
AttemptsInOrder ==
    /\ \A i \in Intents, n \in Attempts : status[<<i, n>>] # "none" => n <= retries[i]
    /\ \A i \in Intents, m \in Attempts :
          m < retries[i] => NotRun(<<i, m>>) /\ result[<<i, m>>] = "refused"
    /\ \A i \in retrying : status[<<i, retries[i]>>] = "none"
    /\ \A i \in Intents : pair[i] = "none" =>
          retries[i] = 0 /\ i \notin retrying /\ \A n \in Attempts : status[<<i, n>>] = "none"
    /\ judged # NoCommand /\ result[judged] = "refused" => judged[2] = retries[judged[1]]

Counted ==
    \A i \in Intents :
        /\ opened[i] \in {0, 1}
        /\ opened[i] = 1 <=> \E n \in Attempts : <<i, n>> \in ran
        /\ Kind = "EA" /\ pair[i] = "OPEN" => opened[i] = 1

\* A pair written off has a reason, or none of its commands has run or will.
Reason(i) == \E n \in Attempts : \/ Kind = "EA" /\ <<i, n>> \in timedOut
                                 \/ result[<<i, n>>] = "failed"
Hopelessly(i) == \A n \in Attempts : n <= retries[i] => NotRun(<<i, n>>)
WrittenOff ==
    /\ judged # NoCommand /\ result[judged] = "none" => judged \in timedOut
    /\ \A i \in Intents : pair[i] = "OPEN_FAILED" => Reason(i) \/ Hopelessly(i)

\* Of an EA: what timed out is the pair's last attempt, and while the pair still
\* waits (the Bridge has died before it judged) no answer to it is under way.
Answerless(c) == ~Queued(c) /\ ~Owes(c) /\ ~Acked(c)
LastWord(c) ==
    /\ status[c] \in {"TIMEOUT", "ACK_OK", "ACK_FAILED"}
    /\ c[2] = retries[c[1]]
    /\ pair[c[1]] = "PENDING_OPEN" =>
          result[c] = "none" /\ (judged # c /\ conn => Answerless(c))
Silence == Kind = "EA" => \A c \in timedOut : LastWord(c)

\* As long as the Bridge has not died, what it calls PENDING or CANCELLED has not
\* left it, unless it is the one being written.
Unseen ==
    faults.bridge = 0 =>
        \A c \in Commands : status[c] \in {"PENDING", "CANCELLED"} /\ c # written =>
            ~Queued(c) /\ journal[c] = "none"

IInv == TypeOK /\ AgentInv /\ Truth /\ HandlerInv /\ OneAnswer /\ AttemptsInOrder /\ Counted


USE DeliveryAssumption DEF Attempts

-----------------------------------------------------------------------------
(* What the two queue operations do to the elements of a queue.              *)

LEMMA QueueTail ==
    ASSUME NEW S, NEW q \in Seq(S), q # <<>>
    PROVE  /\ Head(q) \in S /\ Head(q) \in Elems(q) /\ Tail(q) \in Seq(S)
           /\ Elems(Tail(q)) \subseteq Elems(q)
           /\ Injective(q) => Injective(Tail(q)) /\ Head(q) \notin Elems(Tail(q))
  BY DEF Elems, Injective

LEMMA QueueAppend ==
    ASSUME NEW S, NEW q \in Seq(S), NEW x \in S
    PROVE  /\ Append(q, x) \in Seq(S)
           /\ Elems(Append(q, x)) = Elems(q) \cup {x}
           /\ Injective(q) /\ x \notin Elems(q) => Injective(Append(q, x))
  BY DEF Elems, Injective

LEMMA QueueElems == ASSUME NEW S, NEW q \in Seq(S) PROVE Elems(q) \subseteq S
  BY DEF Elems

LEMMA QueueEmpty == Elems(<<>>) = {} /\ Injective(<<>>)
  BY DEF Elems, Injective

-----------------------------------------------------------------------------
(* Types.                                                                    *)

LEMMA NoMessages == ASSUME NEW S PROVE <<>> \in Seq(S)
  OBVIOUS

LEMMA CommandOf ==
    /\ \A i \in Intents, n \in Attempts : <<i, n>> \in Commands
    /\ \A c \in Commands : c[1] \in Intents /\ c[2] \in Attempts /\ c = <<c[1], c[2]>>
  BY DEF Commands

LEMMA RetriesCounted ==
    ASSUME TypeOK
    PROVE  \A i \in Intents : /\ retries[i] \in Attempts /\ retries[i] \in Nat
                               /\ retries[i] <= retries[i] /\ ~(retries[i] < retries[i])
<1>1. retries \in [Intents -> 0 .. MaxRetry]
  BY DEF TypeOK
<1> QED
  BY ONLY <1>1, DeliveryAssumption DEF Attempts

LEMMA FaultsCounted ==
    ASSUME NEW f \in [breaks : Nat, agent : Nat, bridge : Nat]
    PROVE  /\ [f EXCEPT !.breaks = @ + 1] \in [breaks : Nat, agent : Nat, bridge : Nat]
           /\ [f EXCEPT !.agent = @ + 1] \in [breaks : Nat, agent : Nat, bridge : Nat]
           /\ [f EXCEPT !.bridge = @ + 1] \in [breaks : Nat, agent : Nat, bridge : Nat]
  OBVIOUS

LEMMA AnswerSent ==
    ASSUME TypeOK, NEW c \in Commands, NEW a \in Answers
    PROVE  /\ Answered(c, a) \in Seq([cmd : Commands, answer : Answers])
           /\ conn => Elems(Answered(c, a)) = Elems(toBridge) \cup {[cmd |-> c, answer |-> a]}
           /\ ~conn => Answered(c, a) = toBridge
<1> DEFINE M == [cmd : Commands, answer : Answers]
           m == [cmd |-> c, answer |-> a]
<1>1. toBridge \in Seq(M) /\ m \in M
  BY DEF TypeOK
<1> HIDE DEF M, m
<1>2. Append(toBridge, m) \in Seq(M) /\ Elems(Append(toBridge, m)) = Elems(toBridge) \cup {m}
  BY ONLY <1>1, QueueAppend
<1> QED
  BY <1>1, <1>2 DEF Answered, M, m

LEMMA TypeStep == TypeOK /\ AgentInv /\ Next => TypeOK'
<1> SUFFICES ASSUME TypeOK /\ AgentInv, Next PROVE TypeOK'
  OBVIOUS
<1> USE DEF TypeOK, tables, handler, agentVars, world
<1>1. ASSUME NEW i \in Intents, OpenPair(i) PROVE TypeOK'
  <2>1. 0 \in Attempts /\ <<i, 0>> \in Commands
    BY CommandOf, SMTT(30)
  <2>2. /\ status' = [status EXCEPT ![<<i, 0>>] = "PENDING"]
        /\ pair' = [pair EXCEPT ![i] = "PENDING_OPEN"] /\ todo' = {<<i, 0>>}
    BY <1>1 DEF OpenPair
  <2>3. /\ status' \in [Commands -> {"none", "PENDING", "SENT", "ACK_OK", "ACK_FAILED",
                                     "TIMEOUT", "CANCELLED"}]
        /\ pair' \in [Intents -> {"none", "PENDING_OPEN", "OPEN", "OPEN_FAILED"}]
        /\ todo' \subseteq Commands
    BY <2>1, <2>2
  <2> QED
    BY <1>1, <2>3 DEF OpenPair
<1>2. ASSUME NEW i \in Intents, RetryOpen(i) PROVE TypeOK'
  <2>1. retries[i] \in Attempts /\ <<i, retries[i]>> \in Commands
    BY CommandOf
  <2>2. \/ status' = status /\ todo' = todo
        \/ /\ status' = [status EXCEPT ![<<i, retries[i]>>] = "PENDING"]
           /\ todo' = {<<i, retries[i]>>}
    BY <1>2 DEF RetryOpen
  <2>3. /\ status' \in [Commands -> {"none", "PENDING", "SENT", "ACK_OK", "ACK_FAILED",
                                     "TIMEOUT", "CANCELLED"}]
        /\ todo' \subseteq Commands
    BY <2>1, <2>2
  <2> QED
    BY <1>2, <2>3 DEF RetryOpen
<1>3. ASSUME NEW i \in Intents, JudgeTooLate(i) PROVE TypeOK'
  BY <1>3 DEF JudgeTooLate, Judging
<1>4. ASSUME NEW i \in Intents, JudgeOk(i) PROVE TypeOK'
  BY <1>4 DEF JudgeOk, Judging
<1>5. ASSUME NEW i \in Intents, JudgeUnclear(i) PROVE TypeOK'
  BY <1>5 DEF JudgeUnclear, Judging
<1>6. ASSUME NEW i \in Intents, JudgeRetry(i) PROVE TypeOK'
  BY <1>6 DEF JudgeRetry, Judging, RetriesLeft
<1>7. ASSUME NEW i \in Intents, JudgeFailed(i) PROVE TypeOK'
  BY <1>7 DEF JudgeFailed, Judging
<1>8. ASSUME NEW c \in Commands, WriteCommand(c) PROVE TypeOK'
  BY <1>8, QueueAppend DEF WriteCommand
<1>9. ASSUME NEW c \in Commands, LeavePending(c) PROVE TypeOK'
  BY <1>9 DEF LeavePending
<1>10. ASSUME NEW c \in Commands, CancelExpired(c) PROVE TypeOK'
  BY <1>10 DEF CancelExpired
<1>11. ASSUME NEW c \in Commands, ScanDeadline(c) PROVE TypeOK'
  BY <1>11 DEF ScanDeadline
<1>12. CASE MarkSent
  BY <1>12 DEF MarkSent
<1>13. CASE RecvAck
  <2>1. /\ Head(toBridge) \in [cmd : Commands, answer : Answers]
        /\ Tail(toBridge) \in Seq([cmd : Commands, answer : Answers])
    BY <1>13, QueueTail DEF RecvAck
  <2> QED
    BY <1>13, <2>1 DEF RecvAck, StatusFor, Answers
<1>14. CASE Connect
  BY <1>14, NoMessages DEF Connect, Unsent
<1>15. ASSUME NEW c \in Commands, Reserve(c) PROVE TypeOK'
  BY <1>15, QueueTail DEF Reserve, NextCommand
<1>16. ASSUME NEW c \in Commands, AnswerAgain(c) PROVE TypeOK'
  <2>1. toAgent' \in Seq(Commands)
    BY <1>16, QueueTail DEF AnswerAgain, NextCommand
  <2>2. CASE journal[c] = "reserved"
    <3>1. toBridge' = Answered(c, "unknown") /\ "unknown" \in Answers
      BY <1>16, <2>2 DEF AnswerAgain, Answers
    <3>2. toBridge' \in Seq([cmd : Commands, answer : Answers])
      BY <3>1, AnswerSent
    <3>3. journal' \in [Commands -> Answers \cup {"none", "reserved"}]
      BY <1>16, <2>2, <3>1 DEF AnswerAgain
    <3> QED
      BY <1>16, <2>1, <3>2, <3>3 DEF AnswerAgain, NextCommand
  <2>3. CASE journal[c] # "reserved"
    <3>1. toBridge' = Answered(c, journal[c]) /\ journal' = journal
      BY <1>16, <2>3 DEF AnswerAgain
    <3>2. journal[c] \in Answers
      BY <1>16, <2>3 DEF AnswerAgain, Known
    <3>3. toBridge' \in Seq([cmd : Commands, answer : Answers])
      BY <3>1, <3>2, AnswerSent
    <3> QED
      BY <1>16, <2>1, <3>1, <3>3 DEF AnswerAgain, NextCommand
  <2> QED
    BY <2>2, <2>3
<1>17. ASSUME NEW a \in Answers, Refuse(a) PROVE TypeOK'
  BY <1>17 DEF Refuse
<1>18. ASSUME NEW a \in Answers, OpenPosition(a) PROVE TypeOK'
  <2>1. doing[1] \in Intents /\ doing \in Commands
    BY <1>18, CommandOf DEF OpenPosition, AgentInv
  <2> QED
    BY <1>18, <2>1 DEF OpenPosition
<1>19. ASSUME NEW a \in Answers, OpenNothing(a) PROVE TypeOK'
  BY <1>19 DEF OpenNothing
<1>20. CASE SendAck
  <2>1. doing \in Commands /\ answer \in Answers
    BY <1>20 DEF SendAck, AgentInv
  <2>2. toBridge' \in Seq([cmd : Commands, answer : Answers])
    BY <1>20, <2>1, AnswerSent DEF SendAck
  <2> QED
    BY <1>20, <2>2 DEF SendAck
<1>21. CASE SaveAnswer
  BY <1>21 DEF SaveAnswer
<1>22. CASE AgentDrop
  BY <1>22, NoMessages DEF AgentDrop
<1>23. ASSUME NEW c \in Commands, Expire(c) PROVE TypeOK'
  BY <1>23 DEF Expire
<1>24. CASE BridgeDrop
  BY <1>24, NoMessages, FaultsCounted DEF BridgeDrop
<1>25. CASE AgentCrash
  BY <1>25, NoMessages, FaultsCounted DEF AgentCrash
<1>26. CASE BridgeCrash
  BY <1>26, NoMessages, FaultsCounted DEF BridgeCrash
<1> QED
  BY <1>1, <1>2, <1>3, <1>4, <1>5, <1>6, <1>7, <1>8, <1>9, <1>10, <1>11, <1>12, <1>13, <1>14, <1>15, <1>16, <1>17, <1>18, <1>19, <1>20, <1>21, <1>22, <1>23, <1>24, <1>25, <1>26 DEF Next, BridgeStep, AgentStep

-----------------------------------------------------------------------------
(* The agent and its journal.                                               *)

LEMMA AgentStepInv == TypeOK /\ AgentInv /\ HandlerInv /\ AttemptsInOrder /\ Next => AgentInv'
<1> SUFFICES ASSUME TypeOK /\ AgentInv /\ HandlerInv /\ AttemptsInOrder, Next PROVE AgentInv'
  OBVIOUS
<1> USE DEF TypeOK, AgentInv, Running, Queued, tables, handler, agentVars, world
<1>1. ASSUME NEW i \in Intents, OpenPair(i) PROVE AgentInv'
  BY <1>1 DEF OpenPair
<1>2. ASSUME NEW i \in Intents, RetryOpen(i) PROVE AgentInv'
  BY <1>2 DEF RetryOpen
<1>3. ASSUME NEW i \in Intents, JudgeTooLate(i) PROVE AgentInv'
  BY <1>3 DEF JudgeTooLate, Judging
<1>4. ASSUME NEW i \in Intents, JudgeOk(i) PROVE AgentInv'
  BY <1>4 DEF JudgeOk, Judging
<1>5. ASSUME NEW i \in Intents, JudgeUnclear(i) PROVE AgentInv'
  BY <1>5 DEF JudgeUnclear, Judging
<1>6. ASSUME NEW i \in Intents, JudgeRetry(i) PROVE AgentInv'
  BY <1>6 DEF JudgeRetry, Judging
<1>7. ASSUME NEW i \in Intents, JudgeFailed(i) PROVE AgentInv'
  BY <1>7 DEF JudgeFailed, Judging
<1>8. ASSUME NEW c \in Commands, WriteCommand(c) PROVE AgentInv'
  BY <1>8, QueueAppend DEF WriteCommand, HandlerInv
<1>9. ASSUME NEW c \in Commands, LeavePending(c) PROVE AgentInv'
  BY <1>9 DEF LeavePending
<1>10. ASSUME NEW c \in Commands, CancelExpired(c) PROVE AgentInv'
  BY <1>10 DEF CancelExpired
<1>11. ASSUME NEW c \in Commands, ScanDeadline(c) PROVE AgentInv'
  BY <1>11 DEF ScanDeadline
<1>12. CASE MarkSent
  BY <1>12 DEF MarkSent
<1>13. CASE RecvAck
  <2>1. \A c \in Commands : status[c] # "none" => status'[c] # "none"
    BY <1>13 DEF RecvAck, StatusFor
  <2> QED
    BY <1>13, <2>1 DEF RecvAck
<1>14. CASE Connect
  BY <1>14, QueueEmpty DEF Connect
<1>15. ASSUME NEW c \in Commands, Reserve(c) PROVE AgentInv'
  BY <1>15, QueueTail DEF Reserve, NextCommand, Known
<1>16. ASSUME NEW c \in Commands, AnswerAgain(c) PROVE AgentInv'
  BY <1>16, QueueTail DEF AnswerAgain, NextCommand, Known
<1>17. ASSUME NEW a \in Answers, Refuse(a) PROVE AgentInv'
  BY <1>17 DEF Refuse
<1>18. ASSUME NEW a \in Answers, OpenPosition(a) PROVE AgentInv'
  BY <1>18 DEF OpenPosition
<1>19. ASSUME NEW a \in Answers, OpenNothing(a) PROVE AgentInv'
  BY <1>19 DEF OpenNothing
<1>20. CASE SendAck
  BY <1>20 DEF SendAck
<1>21. CASE SaveAnswer
  BY <1>21 DEF SaveAnswer, Answers
<1>22. CASE AgentDrop
  BY <1>22, QueueEmpty DEF AgentDrop, AgentIdle
<1>23. ASSUME NEW c \in Commands, Expire(c) PROVE AgentInv'
  BY <1>23 DEF Expire
<1>24. CASE BridgeDrop
  BY <1>24 DEF BridgeDrop
<1>25. CASE AgentCrash
  BY <1>25, QueueEmpty DEF AgentCrash
<1>26. CASE BridgeCrash
  BY <1>26 DEF BridgeCrash
<1> QED
  BY <1>1, <1>2, <1>3, <1>4, <1>5, <1>6, <1>7, <1>8, <1>9, <1>10, <1>11, <1>12, <1>13, <1>14, <1>15, <1>16, <1>17, <1>18, <1>19, <1>20, <1>21, <1>22, <1>23, <1>24, <1>25, <1>26 DEF Next, BridgeStep, AgentStep

\* What has been learned about a command stays true.
LegacyKept ==
    \A c \in Commands : /\ NotRun(c) => NotRun(c)'
                        /\ c \in ran => c \in ran'

LEMMA LegacyStep == TypeOK /\ AgentInv /\ Next => LegacyKept
<1> SUFFICES ASSUME TypeOK /\ AgentInv, Next PROVE LegacyKept
  OBVIOUS
<1> USE DEF AgentInv, NotRun, Running, LegacyKept, tables, handler, agentVars, world
<1>1. ASSUME NEW i \in Intents, OpenPair(i) PROVE LegacyKept
  BY <1>1 DEF OpenPair
<1>2. ASSUME NEW i \in Intents, RetryOpen(i) PROVE LegacyKept
  BY <1>2 DEF RetryOpen
<1>3. ASSUME NEW i \in Intents, JudgeTooLate(i) PROVE LegacyKept
  BY <1>3 DEF JudgeTooLate, Judging
<1>4. ASSUME NEW i \in Intents, JudgeOk(i) PROVE LegacyKept
  BY <1>4 DEF JudgeOk, Judging
<1>5. ASSUME NEW i \in Intents, JudgeUnclear(i) PROVE LegacyKept
  BY <1>5 DEF JudgeUnclear, Judging
<1>6. ASSUME NEW i \in Intents, JudgeRetry(i) PROVE LegacyKept
  BY <1>6 DEF JudgeRetry, Judging
<1>7. ASSUME NEW i \in Intents, JudgeFailed(i) PROVE LegacyKept
  BY <1>7 DEF JudgeFailed, Judging
<1>8. ASSUME NEW c \in Commands, WriteCommand(c) PROVE LegacyKept
  BY <1>8 DEF WriteCommand
<1>9. ASSUME NEW c \in Commands, LeavePending(c) PROVE LegacyKept
  BY <1>9 DEF LeavePending
<1>10. ASSUME NEW c \in Commands, CancelExpired(c) PROVE LegacyKept
  BY <1>10 DEF CancelExpired
<1>11. ASSUME NEW c \in Commands, ScanDeadline(c) PROVE LegacyKept
  BY <1>11 DEF ScanDeadline
<1>12. CASE MarkSent
  BY <1>12 DEF MarkSent
<1>13. CASE RecvAck
  BY <1>13 DEF RecvAck
<1>14. CASE Connect
  BY <1>14 DEF Connect
<1>15. ASSUME NEW c \in Commands, Reserve(c) PROVE LegacyKept
  BY <1>15 DEF Reserve, NextCommand, Known
<1>16. ASSUME NEW c \in Commands, AnswerAgain(c) PROVE LegacyKept
  BY <1>16 DEF AnswerAgain, NextCommand, Known, TypeOK
<1>17. ASSUME NEW a \in Answers, Refuse(a) PROVE LegacyKept
  BY <1>17 DEF Refuse
<1>18. ASSUME NEW a \in Answers, OpenPosition(a) PROVE LegacyKept
  BY <1>18 DEF OpenPosition
<1>19. ASSUME NEW a \in Answers, OpenNothing(a) PROVE LegacyKept
  BY <1>19 DEF OpenNothing
<1>20. CASE SendAck
  BY <1>20 DEF SendAck
<1>21. CASE SaveAnswer
  BY <1>21 DEF SaveAnswer, Answers, TypeOK
<1>22. CASE AgentDrop
  BY <1>22 DEF AgentDrop
<1>23. ASSUME NEW c \in Commands, Expire(c) PROVE LegacyKept
  BY <1>23 DEF Expire
<1>24. CASE BridgeDrop
  BY <1>24 DEF BridgeDrop
<1>25. CASE AgentCrash
  BY <1>25 DEF AgentCrash
<1>26. CASE BridgeCrash
  BY <1>26 DEF BridgeCrash
<1> QED
  BY <1>1, <1>2, <1>3, <1>4, <1>5, <1>6, <1>7, <1>8, <1>9, <1>10, <1>11, <1>12, <1>13, <1>14, <1>15, <1>16, <1>17, <1>18, <1>19, <1>20, <1>21, <1>22, <1>23, <1>24, <1>25, <1>26 DEF Next, BridgeStep, AgentStep

LEMMA MessageOf ==
    ASSUME TypeOK
    PROVE  \A m \in Elems(toBridge) : m.cmd \in Commands /\ m.answer \in Answers
<1> DEFINE M == [cmd : Commands, answer : Answers]
<1>1. toBridge \in Seq(M)
  BY DEF TypeOK
<1>2. Elems(toBridge) \subseteq M
  BY ONLY <1>1, QueueElems
<1> QED
  BY <1>2

LEMMA TruthStep == TypeOK /\ AgentInv /\ Truth /\ HandlerInv /\ Next => Truth'
<1> SUFFICES ASSUME TypeOK /\ AgentInv /\ Truth /\ HandlerInv, Next PROVE Truth'
  OBVIOUS
<1> USE DEF Truth, Says, NotRun, Running, tables, handler, agentVars, world
<1>a. LegacyKept
  BY LegacyStep
<1>b. \A m \in Elems(toBridge) : m.cmd \in Commands /\ m.answer \in Answers
  BY MessageOf
<1>c. step \in {"acted", "saved", "sent"} => doing \in Commands
  BY DEF AgentInv, TypeOK
<1>d. \A c \in Commands : /\ NotRun(c) => NotRun(c)'
                          /\ c \in ran => c \in ran'
  BY <1>a DEF LegacyKept
<1>1. ASSUME NEW i \in Intents, OpenPair(i) PROVE Truth'
  BY <1>1, <1>b, <1>c, <1>d DEF OpenPair
<1>2. ASSUME NEW i \in Intents, RetryOpen(i) PROVE Truth'
  BY <1>2, <1>b, <1>c, <1>d DEF RetryOpen
<1>3. ASSUME NEW i \in Intents, JudgeTooLate(i) PROVE Truth'
  BY <1>3, <1>b, <1>c, <1>d DEF JudgeTooLate, Judging
<1>4. ASSUME NEW i \in Intents, JudgeOk(i) PROVE Truth'
  BY <1>4, <1>b, <1>c, <1>d DEF JudgeOk, Judging
<1>5. ASSUME NEW i \in Intents, JudgeUnclear(i) PROVE Truth'
  BY <1>5, <1>b, <1>c, <1>d DEF JudgeUnclear, Judging
<1>6. ASSUME NEW i \in Intents, JudgeRetry(i) PROVE Truth'
  BY <1>6, <1>b, <1>c, <1>d DEF JudgeRetry, Judging
<1>7. ASSUME NEW i \in Intents, JudgeFailed(i) PROVE Truth'
  BY <1>7, <1>b, <1>c, <1>d DEF JudgeFailed, Judging
<1>8. ASSUME NEW c \in Commands, WriteCommand(c) PROVE Truth'
  BY <1>8, <1>b, <1>c, <1>d DEF WriteCommand
<1>9. ASSUME NEW c \in Commands, LeavePending(c) PROVE Truth'
  BY <1>9, <1>b, <1>c, <1>d DEF LeavePending
<1>10. ASSUME NEW c \in Commands, CancelExpired(c) PROVE Truth'
  BY <1>10, <1>b, <1>c, <1>d DEF CancelExpired
<1>11. ASSUME NEW c \in Commands, ScanDeadline(c) PROVE Truth'
  BY <1>11, <1>b, <1>c, <1>d DEF ScanDeadline
<1>12. CASE MarkSent
  BY <1>12, <1>b, <1>c, <1>d DEF MarkSent
<1>13. CASE RecvAck
  <2>1. Head(toBridge) \in Elems(toBridge) /\ Elems(toBridge') \subseteq Elems(toBridge)
    BY <1>13, QueueTail DEF RecvAck, TypeOK
  <2>2. result' = [result EXCEPT ![Head(toBridge).cmd] = Head(toBridge).answer]
    BY <1>13 DEF RecvAck
  <2> QED
    BY <1>13, <1>b, <1>c, <1>d, <2>1, <2>2 DEF RecvAck, TypeOK
<1>14. CASE Connect
  BY <1>14, <1>d, QueueEmpty DEF Connect, AgentIdle, AgentInv
<1>15. ASSUME NEW c \in Commands, Reserve(c) PROVE Truth'
  BY <1>15, <1>b, <1>d DEF Reserve, NextCommand, AgentIdle, AgentInv, TypeOK
<1>16. ASSUME NEW c \in Commands, AnswerAgain(c) PROVE Truth'
  <2>1. PICK a \in Answers :
          /\ toBridge' = Answered(c, a) /\ Says(c, a)
          /\ journal' = journal \/ (a = "unknown" /\ journal' = [journal EXCEPT ![c] = a])
    BY <1>16 DEF AnswerAgain, Known, TypeOK, Answers
  <2>2. \A m \in Elems(toBridge') : m \in Elems(toBridge) \/ m = [cmd |-> c, answer |-> a]
    BY <2>1, AnswerSent
  <2> QED
    BY <1>16, <1>b, <1>c, <1>d, <2>1, <2>2 DEF AnswerAgain, NextCommand, TypeOK, AgentIdle, AgentInv
<1>17. ASSUME NEW a \in Answers, Refuse(a) PROVE Truth'
  BY <1>17, <1>b, <1>d DEF Refuse, AgentInv, Refusals, TypeOK
<1>18. ASSUME NEW a \in Answers, OpenPosition(a) PROVE Truth'
  BY <1>18, <1>b, <1>d DEF OpenPosition, AgentInv
<1>19. ASSUME NEW a \in Answers, OpenNothing(a) PROVE Truth'
  BY <1>19, <1>b, <1>d DEF OpenNothing, AgentInv
<1>20. CASE SendAck
  <2>1. doing \in Commands /\ answer \in Answers /\ Says(doing, answer)
    BY <1>20, <1>c DEF SendAck, AgentInv
  <2>2. \A m \in Elems(toBridge') : m \in Elems(toBridge) \/ m = [cmd |-> doing, answer |-> answer]
    BY <1>20, <2>1, AnswerSent DEF SendAck
  <2> QED
    BY <1>20, <1>b, <1>c, <1>d, <2>1, <2>2 DEF SendAck
<1>21. CASE SaveAnswer
  BY <1>21, <1>b, <1>c, <1>d DEF SaveAnswer, TypeOK
<1>22. CASE AgentDrop
  BY <1>22, <1>b, <1>c, <1>d DEF AgentDrop
<1>23. ASSUME NEW c \in Commands, Expire(c) PROVE Truth'
  BY <1>23, <1>b, <1>c, <1>d DEF Expire
<1>24. CASE BridgeDrop
  BY <1>24, <1>c, <1>d, QueueEmpty DEF BridgeDrop
<1>25. CASE AgentCrash
  BY <1>25, <1>b, <1>d DEF AgentCrash
<1>26. CASE BridgeCrash
  BY <1>26, <1>c, <1>d, QueueEmpty DEF BridgeCrash
<1> QED
  BY <1>1, <1>2, <1>3, <1>4, <1>5, <1>6, <1>7, <1>8, <1>9, <1>10, <1>11, <1>12, <1>13, <1>14, <1>15, <1>16, <1>17, <1>18, <1>19, <1>20, <1>21, <1>22, <1>23, <1>24, <1>25, <1>26 DEF Next, BridgeStep, AgentStep

-----------------------------------------------------------------------------
(* The Bridge's handlers.                                                   *)

LEMMA HandlerStep == TypeOK /\ AgentInv /\ HandlerInv /\ OneAnswer /\ AttemptsInOrder /\ Next => HandlerInv'
<1> SUFFICES ASSUME TypeOK /\ AgentInv /\ HandlerInv /\ OneAnswer /\ AttemptsInOrder, Next PROVE HandlerInv'
  OBVIOUS
<1> USE DEF TypeOK, HandlerInv, BridgeIdle, tables, handler, agentVars, world
<1>1. ASSUME NEW i \in Intents, OpenPair(i) PROVE HandlerInv'
  <2>1. 0 \in Attempts /\ <<i, 0>> \in Commands /\ status[<<i, 0>>] = "none"
    BY <1>1, CommandOf DEF OpenPair, AttemptsInOrder
  <2>2. /\ status' = [status EXCEPT ![<<i, 0>>] = "PENDING"] /\ todo' = {<<i, 0>>}
        /\ result' = result /\ written' = written /\ judged' = NoCommand
        /\ todo = {} /\ conn' = conn
    BY <1>1 DEF OpenPair
  <2> QED
    BY <2>1, <2>2, ZenonT(60)
<1>2. ASSUME NEW i \in Intents, RetryOpen(i) PROVE HandlerInv'
  <2>1. <<i, retries[i]>> \in Commands /\ status[<<i, retries[i]>>] = "none"
    BY <1>2, CommandOf DEF RetryOpen, AttemptsInOrder
  <2>2. /\ result' = result /\ written' = written /\ judged' = NoCommand /\ todo = {}
        /\ judged = NoCommand /\ conn' = conn
    BY <1>2 DEF RetryOpen
  <2>3. CASE pair[i] = "PENDING_OPEN"
    <3>1. /\ status' = [status EXCEPT ![<<i, retries[i]>>] = "PENDING"]
          /\ todo' = {<<i, retries[i]>>}
      BY <1>2, <2>3 DEF RetryOpen
    <3> QED
      BY <2>1, <2>2, <3>1, ZenonT(60)
  <2>4. CASE pair[i] # "PENDING_OPEN"
    BY <1>2, <2>2, <2>4 DEF RetryOpen
  <2> QED
    BY <2>3, <2>4
<1>3. ASSUME NEW i \in Intents, JudgeTooLate(i) PROVE HandlerInv'
  BY <1>3 DEF JudgeTooLate, Judging
<1>4. ASSUME NEW i \in Intents, JudgeOk(i) PROVE HandlerInv'
  BY <1>4 DEF JudgeOk, Judging
<1>5. ASSUME NEW i \in Intents, JudgeUnclear(i) PROVE HandlerInv'
  BY <1>5 DEF JudgeUnclear, Judging
<1>6. ASSUME NEW i \in Intents, JudgeRetry(i) PROVE HandlerInv'
  BY <1>6 DEF JudgeRetry, Judging
<1>7. ASSUME NEW i \in Intents, JudgeFailed(i) PROVE HandlerInv'
  BY <1>7 DEF JudgeFailed, Judging
<1>8. ASSUME NEW c \in Commands, WriteCommand(c) PROVE HandlerInv'
  BY <1>8 DEF WriteCommand
<1>9. ASSUME NEW c \in Commands, LeavePending(c) PROVE HandlerInv'
  BY <1>9 DEF LeavePending
<1>10. ASSUME NEW c \in Commands, CancelExpired(c) PROVE HandlerInv'
  BY <1>10 DEF CancelExpired
<1>11. ASSUME NEW c \in Commands, ScanDeadline(c) PROVE HandlerInv'
  BY <1>11 DEF ScanDeadline
<1>12. CASE MarkSent
  BY <1>12 DEF MarkSent
<1>13. CASE RecvAck
  <2>1. Head(toBridge) \in Elems(toBridge)
    BY <1>13, QueueTail DEF RecvAck
  <2>2. Head(toBridge).cmd \in Commands /\ Head(toBridge).answer \in Answers
    BY <2>1, MessageOf
  <2> QED
    BY <1>13, <2>2 DEF RecvAck, StatusFor
<1>14. CASE Connect
  BY <1>14 DEF Connect, Unsent
<1>15. ASSUME NEW c \in Commands, Reserve(c) PROVE HandlerInv'
  BY <1>15 DEF Reserve, NextCommand
<1>16. ASSUME NEW c \in Commands, AnswerAgain(c) PROVE HandlerInv'
  BY <1>16 DEF AnswerAgain, NextCommand
<1>17. ASSUME NEW a \in Answers, Refuse(a) PROVE HandlerInv'
  BY <1>17 DEF Refuse
<1>18. ASSUME NEW a \in Answers, OpenPosition(a) PROVE HandlerInv'
  BY <1>18 DEF OpenPosition
<1>19. ASSUME NEW a \in Answers, OpenNothing(a) PROVE HandlerInv'
  BY <1>19 DEF OpenNothing
<1>20. CASE SendAck
  BY <1>20 DEF SendAck
<1>21. CASE SaveAnswer
  BY <1>21 DEF SaveAnswer
<1>22. CASE AgentDrop
  BY <1>22 DEF AgentDrop
<1>23. ASSUME NEW c \in Commands, Expire(c) PROVE HandlerInv'
  BY <1>23 DEF Expire
<1>24. CASE BridgeDrop
  BY <1>24 DEF BridgeDrop
<1>25. CASE AgentCrash
  BY <1>25 DEF AgentCrash
<1>26. CASE BridgeCrash
  BY <1>26 DEF BridgeCrash
<1> QED
  BY <1>1, <1>2, <1>3, <1>4, <1>5, <1>6, <1>7, <1>8, <1>9, <1>10, <1>11, <1>12, <1>13, <1>14, <1>15, <1>16, <1>17, <1>18, <1>19, <1>20, <1>21, <1>22, <1>23, <1>24, <1>25, <1>26 DEF Next, BridgeStep, AgentStep

-----------------------------------------------------------------------------
(* Positions.                                                               *)

\* A command that is about to run is the only one of its pair that can have.
LEMMA NothingYet ==
    ASSUME TypeOK, AgentInv, AttemptsInOrder, Counted, step = "reserved"
    PROVE  /\ doing \in Commands /\ status[doing] # "none" /\ opened[doing[1]] = 0
           /\ \A m \in Attempts : <<doing[1], m>> \notin ran
<1>1. doing \in Commands /\ Running(doing) /\ doing \notin ran
      /\ journal[doing] # "none" /\ status[doing] # "none"
  BY DEF AgentInv, TypeOK, Running
<1>2. PICK i \in Intents, n \in Attempts : doing = <<i, n>> /\ doing[1] = i
  BY <1>1, CommandOf
<1>3. \A m \in Attempts : <<i, m>> \notin ran
  <2> SUFFICES ASSUME NEW m \in Attempts, <<i, m>> \in ran PROVE FALSE
    OBVIOUS
  <2>1. m # n /\ status[<<i, m>>] # "none" /\ status[<<i, n>>] # "none"
    BY <1>1, <1>2, CommandOf DEF AgentInv
  <2>2. n <= retries[i] /\ m <= retries[i]
    BY <2>1 DEF AttemptsInOrder
  <2>3. retries[i] \in Nat /\ n \in Nat /\ m \in Nat
    BY RetriesCounted
  <2>4. CASE m < n
    <3>1. m < retries[i]
      BY <2>2, <2>3, <2>4
    <3> QED
      BY <3>1 DEF AttemptsInOrder, NotRun
  <2>5. CASE n < m
    <3>1. n < retries[i]
      BY <2>2, <2>3, <2>5
    <3>2. NotRun(doing)
      BY <1>2, <3>1 DEF AttemptsInOrder
    <3> QED
      BY <1>1, <3>2 DEF NotRun
  <2> QED
    BY <2>1, <2>3, <2>4, <2>5
<1>4. opened[i] = 0
  BY <1>3 DEF Counted
<1> QED
  BY <1>1, <1>2, <1>3, <1>4

LEMMA CountedStep == TypeOK /\ AgentInv /\ HandlerInv /\ Truth /\ AttemptsInOrder /\ Counted /\ Next => Counted'
<1> SUFFICES ASSUME TypeOK /\ AgentInv /\ HandlerInv /\ Truth /\ AttemptsInOrder /\ Counted, Next PROVE Counted'
  OBVIOUS
<1> USE DEF TypeOK, Counted, tables, handler, agentVars, world
<1>1. ASSUME NEW i \in Intents, OpenPair(i) PROVE Counted'
  BY <1>1 DEF OpenPair
<1>2. ASSUME NEW i \in Intents, RetryOpen(i) PROVE Counted'
  BY <1>2 DEF RetryOpen
<1>3. ASSUME NEW i \in Intents, JudgeTooLate(i) PROVE Counted'
  BY <1>3 DEF JudgeTooLate, Judging
<1>4. ASSUME NEW i \in Intents, JudgeOk(i) PROVE Counted'
  <2>1. judged \in Commands /\ judged = <<i, judged[2]>> /\ judged[2] \in Attempts
    BY <1>4, CommandOf DEF JudgeOk, Judging
  <2>2. Kind = "EA" => judged \in ran
    BY <1>4, <2>1 DEF JudgeOk, Success, Truth, Says
  <2>3. Kind = "EA" => opened[i] = 1
    BY <2>1, <2>2
  <2> QED
    BY <1>4, <2>3 DEF JudgeOk, Judging
<1>5. ASSUME NEW i \in Intents, JudgeUnclear(i) PROVE Counted'
  BY <1>5 DEF JudgeUnclear, Judging
<1>6. ASSUME NEW i \in Intents, JudgeRetry(i) PROVE Counted'
  BY <1>6 DEF JudgeRetry, Judging
<1>7. ASSUME NEW i \in Intents, JudgeFailed(i) PROVE Counted'
  BY <1>7 DEF JudgeFailed, Judging
<1>8. ASSUME NEW c \in Commands, WriteCommand(c) PROVE Counted'
  BY <1>8 DEF WriteCommand
<1>9. ASSUME NEW c \in Commands, LeavePending(c) PROVE Counted'
  BY <1>9 DEF LeavePending
<1>10. ASSUME NEW c \in Commands, CancelExpired(c) PROVE Counted'
  BY <1>10 DEF CancelExpired
<1>11. ASSUME NEW c \in Commands, ScanDeadline(c) PROVE Counted'
  BY <1>11 DEF ScanDeadline
<1>12. CASE MarkSent
  BY <1>12 DEF MarkSent
<1>13. CASE RecvAck
  BY <1>13 DEF RecvAck
<1>14. CASE Connect
  BY <1>14 DEF Connect
<1>15. ASSUME NEW c \in Commands, Reserve(c) PROVE Counted'
  BY <1>15 DEF Reserve, NextCommand
<1>16. ASSUME NEW c \in Commands, AnswerAgain(c) PROVE Counted'
  BY <1>16 DEF AnswerAgain, NextCommand
<1>17. ASSUME NEW a \in Answers, Refuse(a) PROVE Counted'
  BY <1>17 DEF Refuse
<1>18. ASSUME NEW a \in Answers, OpenPosition(a) PROVE Counted'
  <2>1. /\ doing \in Commands /\ opened[doing[1]] = 0
        /\ \A m \in Attempts : <<doing[1], m>> \notin ran
    BY <1>18, NothingYet DEF OpenPosition
  <2>2. PICK i \in Intents, n \in Attempts : doing = <<i, n>> /\ doing[1] = i
    BY <2>1, CommandOf
  <2>3. opened' = [opened EXCEPT ![i] = 1] /\ ran' = ran \cup {<<i, n>>} /\ pair' = pair
    BY <1>18, <2>1, <2>2 DEF OpenPosition
  <2> QED
    BY <2>1, <2>2, <2>3
<1>19. ASSUME NEW a \in Answers, OpenNothing(a) PROVE Counted'
  BY <1>19 DEF OpenNothing
<1>20. CASE SendAck
  BY <1>20 DEF SendAck
<1>21. CASE SaveAnswer
  BY <1>21 DEF SaveAnswer
<1>22. CASE AgentDrop
  BY <1>22 DEF AgentDrop
<1>23. ASSUME NEW c \in Commands, Expire(c) PROVE Counted'
  BY <1>23 DEF Expire
<1>24. CASE BridgeDrop
  BY <1>24 DEF BridgeDrop
<1>25. CASE AgentCrash
  BY <1>25 DEF AgentCrash
<1>26. CASE BridgeCrash
  BY <1>26 DEF BridgeCrash
<1> QED
  BY <1>1, <1>2, <1>3, <1>4, <1>5, <1>6, <1>7, <1>8, <1>9, <1>10, <1>11, <1>12, <1>13, <1>14, <1>15, <1>16, <1>17, <1>18, <1>19, <1>20, <1>21, <1>22, <1>23, <1>24, <1>25, <1>26 DEF Next, BridgeStep, AgentStep

-----------------------------------------------------------------------------
(* Answers under way.                                                       *)

LEMMA OneAnswerStep == TypeOK /\ AgentInv /\ HandlerInv /\ OneAnswer /\ AttemptsInOrder /\ Next => OneAnswer'
<1> SUFFICES ASSUME TypeOK /\ AgentInv /\ HandlerInv /\ OneAnswer /\ AttemptsInOrder, Next PROVE OneAnswer'
  OBVIOUS
<1> USE DEF OneAnswer, Queued, Acked, Owes, Unwritten, tables, handler, agentVars, world
<1>b. \A m \in Elems(toBridge) : m.cmd \in Commands /\ m.answer \in Answers
  BY MessageOf
<1>1. ASSUME NEW i \in Intents, OpenPair(i) PROVE OneAnswer'
  <2>1. 0 \in Attempts /\ <<i, 0>> \in Commands /\ status[<<i, 0>>] = "none"
    BY <1>1, CommandOf DEF OpenPair, AttemptsInOrder
  <2>2. ~Queued(<<i, 0>>) /\ ~Owes(<<i, 0>>) /\ (conn => ~Acked(<<i, 0>>))
    BY <2>1 DEF AgentInv
  <2>3. \A c \in Commands : status[c] # "none" => status'[c] # "none"
    BY <1>1, <2>1 DEF OpenPair, TypeOK
  <2>4. \A c \in Commands : Unwritten(c)' => c = <<i, 0>>
    BY <1>1 DEF OpenPair
  <2> QED
    BY <1>1, <2>2, <2>3, <2>4 DEF OpenPair
<1>2. ASSUME NEW i \in Intents, RetryOpen(i) PROVE OneAnswer'
  <2>1. <<i, retries[i]>> \in Commands /\ status[<<i, retries[i]>>] = "none"
    BY <1>2, CommandOf DEF RetryOpen, AttemptsInOrder, TypeOK
  <2>2. /\ ~Queued(<<i, retries[i]>>) /\ ~Owes(<<i, retries[i]>>)
        /\ conn => ~Acked(<<i, retries[i]>>)
    BY <2>1 DEF AgentInv
  <2>3. \A c \in Commands : status[c] # "none" => status'[c] # "none"
    BY <1>2, <2>1 DEF RetryOpen, TypeOK
  <2>4. \A c \in Commands : Unwritten(c)' => c = <<i, retries[i]>>
    BY <1>2 DEF RetryOpen, BridgeIdle
  <2> QED
    BY <1>2, <2>2, <2>3, <2>4 DEF RetryOpen
<1>3. ASSUME NEW i \in Intents, JudgeTooLate(i) PROVE OneAnswer'
  BY <1>3, <1>b DEF JudgeTooLate, Judging
<1>4. ASSUME NEW i \in Intents, JudgeOk(i) PROVE OneAnswer'
  BY <1>4, <1>b DEF JudgeOk, Judging
<1>5. ASSUME NEW i \in Intents, JudgeUnclear(i) PROVE OneAnswer'
  BY <1>5, <1>b DEF JudgeUnclear, Judging
<1>6. ASSUME NEW i \in Intents, JudgeRetry(i) PROVE OneAnswer'
  BY <1>6, <1>b DEF JudgeRetry, Judging
<1>7. ASSUME NEW i \in Intents, JudgeFailed(i) PROVE OneAnswer'
  BY <1>7, <1>b DEF JudgeFailed, Judging
<1>8. ASSUME NEW c \in Commands, WriteCommand(c) PROVE OneAnswer'
  <2>1. Unwritten(c) /\ conn /\ result[c] = "none" /\ status[c] = "PENDING"
    BY <1>8 DEF WriteCommand, HandlerInv
  <2>2. ~Queued(c) /\ ~Owes(c) /\ ~Acked(c)
    BY <2>1
  <2>3. Injective(toAgent') /\ Elems(toAgent') \subseteq Elems(toAgent) \cup {c}
    BY <1>8, <2>2, QueueAppend DEF WriteCommand, TypeOK
  <2> QED
    BY <1>8, <2>1, <2>2, <2>3 DEF WriteCommand
<1>9. ASSUME NEW c \in Commands, LeavePending(c) PROVE OneAnswer'
  BY <1>9 DEF LeavePending
<1>10. ASSUME NEW c \in Commands, CancelExpired(c) PROVE OneAnswer'
  BY <1>10 DEF CancelExpired, HandlerInv, TypeOK
<1>11. ASSUME NEW c \in Commands, ScanDeadline(c) PROVE OneAnswer'
  BY <1>11, <1>b DEF ScanDeadline, TypeOK
<1>12. CASE MarkSent
  BY <1>12, <1>b DEF MarkSent, HandlerInv, TypeOK
<1>13. CASE RecvAck
  <2> DEFINE m == Head(toBridge)
  <2>1. /\ m \in Elems(toBridge) /\ Elems(toBridge') \subseteq Elems(toBridge)
        /\ Injective(toBridge') /\ m \notin Elems(toBridge')
    BY <1>13, QueueTail DEF RecvAck, TypeOK
  <2>2. m.cmd \in Commands /\ Acked(m.cmd) /\ conn
    BY <1>13, <1>b, <2>1 DEF RecvAck
  <2>3. \A x \in Elems(toBridge') : x.cmd # m.cmd
    BY <2>1, <2>2
  <2> HIDE DEF m
  <2>4. ~Queued(m.cmd) /\ ~Owes(m.cmd)
    BY <2>2
  <2>5. /\ status' = [status EXCEPT ![m.cmd] = StatusFor(m.answer)]
        /\ result' = [result EXCEPT ![m.cmd] = m.answer]
        /\ StatusFor(m.answer) # "none"
    BY <1>13 DEF RecvAck, StatusFor, m
  <2> QED
    BY <1>13, <2>1, <2>3, <2>4, <2>5 DEF RecvAck, TypeOK
<1>14. CASE Connect
  <2>1. \A c \in Commands : ~Queued(c)' /\ ~Owes(c)' /\ ~Acked(c)'
    BY <1>14, QueueEmpty DEF Connect, AgentIdle, AgentInv
  <2> QED
    BY <1>14, <2>1, QueueEmpty DEF Connect
<1>15. ASSUME NEW c \in Commands, Reserve(c) PROVE OneAnswer'
  <2>1. /\ Queued(c) /\ Injective(toAgent') /\ c \notin Elems(toAgent')
        /\ Elems(toAgent') \subseteq Elems(toAgent)
    BY <1>15, QueueTail DEF Reserve, NextCommand, TypeOK
  <2> QED
    BY <1>15, <2>1 DEF Reserve, NextCommand
<1>16. ASSUME NEW c \in Commands, AnswerAgain(c) PROVE OneAnswer'
  <2>1. PICK a \in Answers : toBridge' = Answered(c, a)
    BY <1>16 DEF AnswerAgain, Known, TypeOK, Answers
  <2>2. /\ Queued(c) /\ Injective(toAgent') /\ c \notin Elems(toAgent')
        /\ Elems(toAgent') \subseteq Elems(toAgent)
    BY <1>16, QueueTail DEF AnswerAgain, NextCommand, TypeOK
  <2> DEFINE m == [cmd |-> c, answer |-> a]
  <2>3. /\ ~conn => toBridge' = toBridge
        /\ conn => Elems(toBridge') = Elems(toBridge) \cup {m}
    BY <2>1, AnswerSent
  <2>4. m.cmd = c
    OBVIOUS
  <2>5. conn => m \notin Elems(toBridge) /\ ~Acked(c) /\ ~Unwritten(c) /\ result[c] = "none"
    BY <2>2, <2>4
  <2>6. Injective(toBridge')
    <3>1. CASE conn
      <4>1. toBridge \in Seq([cmd : Commands, answer : Answers]) /\ m \in [cmd : Commands, answer : Answers]
        BY DEF TypeOK
      <4>2. m \notin Elems(toBridge) /\ Injective(toBridge)
        BY <2>5, <3>1
      <4>3. toBridge' = Append(toBridge, m)
        BY <2>1, <3>1 DEF Answered
      <4> HIDE DEF m
      <4> QED
        BY ONLY <4>1, <4>2, <4>3, QueueAppend
    <3>2. CASE ~conn
      BY <2>3, <3>2
    <3> QED
      BY <3>1, <3>2
  <2>7. status[c] # "none"
    BY <2>2 DEF AgentInv
  <2> HIDE DEF m
  <2> QED
    BY <1>16, <2>2, <2>3, <2>4, <2>5, <2>6, <2>7 DEF AnswerAgain, NextCommand
<1>17. ASSUME NEW a \in Answers, Refuse(a) PROVE OneAnswer'
  BY <1>17, <1>b DEF Refuse
<1>18. ASSUME NEW a \in Answers, OpenPosition(a) PROVE OneAnswer'
  BY <1>18, <1>b DEF OpenPosition
<1>19. ASSUME NEW a \in Answers, OpenNothing(a) PROVE OneAnswer'
  BY <1>19, <1>b DEF OpenNothing
<1>20. CASE SendAck
  <2>1. doing \in Commands /\ answer \in Answers /\ Owes(doing) /\ status[doing] # "none"
    BY <1>20 DEF SendAck, AgentInv, TypeOK
  <2> DEFINE m == [cmd |-> doing, answer |-> answer]
  <2>2. toBridge' = Answered(doing, answer) /\ toAgent' = toAgent
    BY <1>20 DEF SendAck
  <2>3. /\ ~conn => toBridge' = toBridge
        /\ conn => Elems(toBridge') = Elems(toBridge) \cup {m}
    BY <2>1, <2>2, AnswerSent
  <2>4. m.cmd = doing
    OBVIOUS
  <2>5. conn => /\ m \notin Elems(toBridge) /\ ~Acked(doing) /\ ~Unwritten(doing)
                /\ ~Queued(doing) /\ result[doing] = "none"
    BY <2>1, <2>4
  <2>6. Injective(toBridge')
    <3>1. CASE conn
      <4>1. toBridge \in Seq([cmd : Commands, answer : Answers]) /\ m \in [cmd : Commands, answer : Answers]
        BY <2>1 DEF TypeOK
      <4>2. m \notin Elems(toBridge) /\ Injective(toBridge)
        BY <2>5, <3>1
      <4>3. toBridge' = Append(toBridge, m)
        BY <2>2, <3>1 DEF Answered
      <4> HIDE DEF m
      <4> QED
        BY ONLY <4>1, <4>2, <4>3, QueueAppend
    <3>2. CASE ~conn
      BY <2>3, <3>2
    <3> QED
      BY <3>1, <3>2
  <2>7. \A c \in Commands : ~Owes(c)'
    BY <1>20, <2>1 DEF SendAck
  <2> HIDE DEF m
  <2> QED
    BY <1>20, <2>1, <2>2, <2>3, <2>4, <2>5, <2>6, <2>7 DEF SendAck
<1>21. CASE SaveAnswer
  BY <1>21, <1>b DEF SaveAnswer, AgentInv
<1>22. CASE AgentDrop
  BY <1>22, <1>b, QueueEmpty DEF AgentDrop
<1>23. ASSUME NEW c \in Commands, Expire(c) PROVE OneAnswer'
  BY <1>23, <1>b DEF Expire
<1>24. CASE BridgeDrop
  BY <1>24, QueueEmpty DEF BridgeDrop
<1>25. CASE AgentCrash
  BY <1>25, <1>b, QueueEmpty DEF AgentCrash
<1>26. CASE BridgeCrash
  BY <1>26, QueueEmpty DEF BridgeCrash
<1> QED
  BY <1>1, <1>2, <1>3, <1>4, <1>5, <1>6, <1>7, <1>8, <1>9, <1>10, <1>11, <1>12, <1>13, <1>14, <1>15, <1>16, <1>17, <1>18, <1>19, <1>20, <1>21, <1>22, <1>23, <1>24, <1>25, <1>26 DEF Next, BridgeStep, AgentStep

-----------------------------------------------------------------------------
(* Attempts.                                                                *)

LEMMA OrderStep == TypeOK /\ AgentInv /\ HandlerInv /\ Truth /\ OneAnswer /\ AttemptsInOrder /\ Next => AttemptsInOrder'
<1> SUFFICES ASSUME TypeOK /\ AgentInv /\ HandlerInv /\ Truth /\ OneAnswer /\ AttemptsInOrder, Next PROVE AttemptsInOrder'
  OBVIOUS
<1> USE DEF AttemptsInOrder, tables, handler, agentVars, world
<1>a. \A c \in Commands : NotRun(c) => NotRun(c)'
  BY LegacyStep DEF LegacyKept
<1>b. \A i \in Intents, n \in Attempts : <<i, n>> \in Commands
  BY CommandOf
<1>c. retries \in [Intents -> Attempts]
  BY DEF TypeOK
<1>1. ASSUME NEW i \in Intents, OpenPair(i) PROVE AttemptsInOrder'
  <2>1. /\ status' = [status EXCEPT ![<<i, 0>>] = "PENDING"] /\ pair[i] = "none"
        /\ pair' = [pair EXCEPT ![i] = "PENDING_OPEN"] /\ judged' = NoCommand
        /\ retries' = retries /\ retrying' = retrying /\ result' = result
    BY <1>1 DEF OpenPair, BridgeIdle
  <2>2. retries[i] = 0 /\ i \notin retrying /\ 0 \in Attempts
    BY <2>1
  <2>3. \A j \in Intents, n \in Attempts :
          j # i \/ n # 0 => status'[<<j, n>>] = status[<<j, n>>]
    BY <1>b, <2>1 DEF TypeOK
  <2>4. pair'[i] # "none" /\ \A j \in Intents : j # i => pair'[j] = pair[j]
    BY <2>1 DEF TypeOK
  <2>5. \A j \in Intents, n \in Attempts : status'[<<j, n>>] # "none" => n <= retries'[j]
    BY <2>1, <2>2, <2>3
  <2>6. \A j \in Intents, m \in Attempts :
          m < retries'[j] => NotRun(<<j, m>>)' /\ result'[<<j, m>>] = "refused"
    BY <1>a, <1>b, <2>1
  <2>7. \A j \in retrying' : status'[<<j, retries'[j]>>] = "none"
    <3> SUFFICES ASSUME NEW j \in retrying' PROVE status'[<<j, retries'[j]>>] = "none"
      OBVIOUS
    <3>1. j \in Intents /\ j \in retrying /\ j # i /\ retries[j] \in Attempts
      BY <2>1, <2>2, <1>c DEF TypeOK
    <3> QED
      BY <2>1, <2>3, <3>1
  <2>8. \A j \in Intents : pair'[j] = "none" =>
          /\ retries'[j] = 0 /\ j \notin retrying'
          /\ \A n \in Attempts : status'[<<j, n>>] = "none"
    BY <2>1, <2>3, <2>4
  <2> QED
    BY <2>1, <2>5, <2>6, <2>7, <2>8
<1>2. ASSUME NEW i \in Intents, RetryOpen(i) PROVE AttemptsInOrder'
  <2>1. /\ retrying' = retrying \ {i} /\ judged' = NoCommand /\ retries' = retries
        /\ pair' = pair /\ result' = result
    BY <1>2 DEF RetryOpen, BridgeIdle
  <2>2. pair[i] # "none" /\ retries[i] \in Attempts
    BY <1>2, <1>c DEF RetryOpen
  <2>3. \A j \in Intents, n \in Attempts :
          j # i \/ n # retries[i] => status'[<<j, n>>] = status[<<j, n>>]
    BY <1>2, <1>b, <2>1, <2>2 DEF RetryOpen, TypeOK
  <2>4. \A j \in Intents, n \in Attempts : status'[<<j, n>>] # "none" => n <= retries'[j]
    BY <2>1, <2>3, RetriesCounted
  <2>5. \A j \in Intents, m \in Attempts :
          m < retries'[j] => NotRun(<<j, m>>)' /\ result'[<<j, m>>] = "refused"
    BY <1>a, <1>b, <2>1
  <2>6. \A j \in retrying' : status'[<<j, retries'[j]>>] = "none"
    <3> SUFFICES ASSUME NEW j \in retrying' PROVE status'[<<j, retries'[j]>>] = "none"
      OBVIOUS
    <3>1. j \in Intents /\ j \in retrying /\ j # i /\ retries[j] \in Attempts
      BY <2>1, <1>c DEF TypeOK
    <3> QED
      BY <2>1, <2>3, <3>1
  <2>7. \A j \in Intents : pair'[j] = "none" =>
          /\ retries'[j] = 0 /\ j \notin retrying'
          /\ \A n \in Attempts : status'[<<j, n>>] = "none"
    BY <2>1, <2>2, <2>3
  <2> QED
    BY <2>1, <2>4, <2>5, <2>6, <2>7
<1>3. ASSUME NEW i \in Intents, JudgeTooLate(i) PROVE AttemptsInOrder'
  BY <1>3, <1>a, <1>b, <1>c DEF JudgeTooLate, Judging
<1>4. ASSUME NEW i \in Intents, JudgeOk(i) PROVE AttemptsInOrder'
  BY <1>4, <1>a, <1>b, <1>c DEF JudgeOk, Judging
<1>5. ASSUME NEW i \in Intents, JudgeUnclear(i) PROVE AttemptsInOrder'
  BY <1>5, <1>a, <1>b, <1>c DEF JudgeUnclear, Judging
<1>6. ASSUME NEW i \in Intents, JudgeRetry(i) PROVE AttemptsInOrder'
  <2>1. /\ judged \in Commands /\ judged = <<i, judged[2]>> /\ judged[2] \in Attempts
        /\ result[judged] = "refused" /\ judged' = NoCommand
    BY <1>6, CommandOf DEF JudgeRetry, Judging, Retryable, TypeOK
  <2>2. NotRun(judged) /\ judged[2] = retries[i]
    BY <1>6, <2>1 DEF Truth, Says, JudgeRetry, Judging
  <2>3. /\ retries' = [retries EXCEPT ![i] = @ + 1] /\ retrying' = retrying \cup {i}
        /\ status' = status /\ pair' = pair /\ result' = result /\ pair[i] # "none"
    BY <1>6 DEF JudgeRetry, Judging, Waiting
  <2>4. \A m \in Attempts : m < retries'[i] => m < retries[i] \/ m = retries[i]
    BY <1>c, <2>3
  <2>6. \A n \in Attempts : status[<<i, n>>] # "none" => n <= retries'[i] /\ n # retries'[i]
    BY <1>c, <2>3
  <2>7. retries[i] + 1 \in Attempts
    BY <1>6, <1>c DEF JudgeRetry, RetriesLeft
  <2> QED
    BY <1>a, <1>b, <1>c, <2>1, <2>2, <2>3, <2>4, <2>6, <2>7
<1>7. ASSUME NEW i \in Intents, JudgeFailed(i) PROVE AttemptsInOrder'
  BY <1>7, <1>a, <1>b, <1>c DEF JudgeFailed, Judging
<1>8. ASSUME NEW c \in Commands, WriteCommand(c) PROVE AttemptsInOrder'
  BY <1>8, <1>a, <1>b, <1>c DEF WriteCommand
<1>9. ASSUME NEW c \in Commands, LeavePending(c) PROVE AttemptsInOrder'
  BY <1>9, <1>a, <1>b, <1>c DEF LeavePending
<1>10. ASSUME NEW c \in Commands, CancelExpired(c) PROVE AttemptsInOrder'
  BY <1>10, <1>a, <1>b, <1>c DEF CancelExpired, HandlerInv, TypeOK
<1>11. ASSUME NEW c \in Commands, ScanDeadline(c) PROVE AttemptsInOrder'
  BY <1>11, <1>a, <1>b, <1>c DEF ScanDeadline, HandlerInv, TypeOK, BridgeIdle
<1>12. CASE MarkSent
  BY <1>12, <1>a, <1>b, <1>c DEF MarkSent, HandlerInv, TypeOK
<1>13. CASE RecvAck
  <2> DEFINE m == Head(toBridge)
  <2>1. m \in Elems(toBridge) /\ m.cmd \in Commands /\ conn
    BY <1>13, QueueTail, MessageOf DEF RecvAck, TypeOK
  <2>2. result[m.cmd] = "none" /\ status[m.cmd] # "none"
    BY <2>1 DEF OneAnswer, Acked
  <2>3. PICK i \in Intents, k \in Attempts : m.cmd = <<i, k>> /\ m.cmd[1] = i /\ m.cmd[2] = k
    BY <2>1, CommandOf
  <2>4. k = retries[i]
    <3>1. k <= retries[i] /\ ~(k < retries[i])
      BY <2>2, <2>3
    <3>2. k \in Nat /\ retries[i] \in Nat
      BY RetriesCounted
    <3> QED
      BY <3>1, <3>2
  <2>5. /\ status' = [status EXCEPT ![<<i, k>>] = StatusFor(m.answer)]
        /\ result' = [result EXCEPT ![<<i, k>>] = m.answer]
        /\ judged' = <<i, k>> /\ retries' = retries /\ retrying' = retrying /\ pair' = pair
    BY <1>13, <2>3 DEF RecvAck
  <2> HIDE DEF m
  <2>6. \A c \in Commands : /\ c # <<i, k>> => status'[c] = status[c] /\ result'[c] = result[c]
                            /\ status'[c] # "none" => status[c] # "none"
                            /\ status[c] = "none" => status'[c] = "none"
    BY <2>2, <2>3, <2>5, ZenonT(60) DEF TypeOK
  <2>7. \A j \in Intents, n \in Attempts : n < retries[j] => <<j, n>> # <<i, k>>
    <3>1. ~(retries[i] < retries[i])
      BY RetriesCounted
    <3> QED
      BY <2>4, <3>1
  <2>8. judged'[1] = i /\ judged'[2] = k
    BY <2>5
  <2> QED
    BY <1>a, <1>b, <1>c, <2>4, <2>5, <2>6, <2>7, <2>8
<1>14. CASE Connect
  BY <1>14, <1>a, <1>b, <1>c DEF Connect
<1>15. ASSUME NEW c \in Commands, Reserve(c) PROVE AttemptsInOrder'
  BY <1>15, <1>a, <1>b, <1>c DEF Reserve, NextCommand
<1>16. ASSUME NEW c \in Commands, AnswerAgain(c) PROVE AttemptsInOrder'
  BY <1>16, <1>a, <1>b, <1>c DEF AnswerAgain, NextCommand
<1>17. ASSUME NEW a \in Answers, Refuse(a) PROVE AttemptsInOrder'
  BY <1>17, <1>a, <1>b, <1>c DEF Refuse
<1>18. ASSUME NEW a \in Answers, OpenPosition(a) PROVE AttemptsInOrder'
  BY <1>18, <1>a, <1>b, <1>c DEF OpenPosition
<1>19. ASSUME NEW a \in Answers, OpenNothing(a) PROVE AttemptsInOrder'
  BY <1>19, <1>a, <1>b, <1>c DEF OpenNothing
<1>20. CASE SendAck
  BY <1>20, <1>a, <1>b, <1>c DEF SendAck
<1>21. CASE SaveAnswer
  BY <1>21, <1>a, <1>b, <1>c DEF SaveAnswer
<1>22. CASE AgentDrop
  BY <1>22, <1>a, <1>b, <1>c DEF AgentDrop
<1>23. ASSUME NEW c \in Commands, Expire(c) PROVE AttemptsInOrder'
  BY <1>23, <1>a, <1>b, <1>c DEF Expire
<1>24. CASE BridgeDrop
  BY <1>24, <1>a, <1>b, <1>c DEF BridgeDrop
<1>25. CASE AgentCrash
  BY <1>25, <1>a, <1>b, <1>c DEF AgentCrash
<1>26. CASE BridgeCrash
  BY <1>26, <1>a, <1>b, <1>c DEF BridgeCrash
<1> QED
  BY <1>1, <1>2, <1>3, <1>4, <1>5, <1>6, <1>7, <1>8, <1>9, <1>10, <1>11, <1>12, <1>13, <1>14, <1>15, <1>16, <1>17, <1>18, <1>19, <1>20, <1>21, <1>22, <1>23, <1>24, <1>25, <1>26 DEF Next, BridgeStep, AgentStep

-----------------------------------------------------------------------------
(* The invariant and what follows from it.                                  *)

LEMMA InvInit == Init => IInv
<1> SUFFICES ASSUME Init PROVE IInv
  OBVIOUS
<1> USE DEF Init
<1>1. TypeOK
  <2>1. 0 \in Attempts
    OBVIOUS
  <2>2. retries \in [Intents -> Attempts]
    BY <2>1
  <2> QED
    BY <2>2, NoMessages DEF TypeOK
<1>2. AgentInv /\ Truth /\ HandlerInv /\ OneAnswer
  BY QueueEmpty DEF AgentInv, Truth, HandlerInv, OneAnswer, Queued, Acked, Owes, Unwritten, Says,
                    Running
<1>3. \A i \in Intents, n \in Attempts : status[<<i, n>>] = "none"
  BY CommandOf
<1>a. \A m \in Attempts : ~(m < 0)
  OBVIOUS
<1>4. AttemptsInOrder
  BY <1>3, <1>a DEF AttemptsInOrder
<1>5. Counted
  <2>1. ran = {} /\ \A i \in Intents : opened[i] = 0 /\ pair[i] = "none"
    OBVIOUS
  <2> QED
    BY ONLY <2>1, 0 # 1, "none" # "OPEN" DEF Counted
<1> QED
  BY <1>1, <1>2, <1>4, <1>5 DEF IInv

LEMMA InvStep == IInv /\ [Next]_vars => IInv'
<1> SUFFICES ASSUME IInv, [Next]_vars PROVE IInv'
  OBVIOUS
<1>1. CASE Next
  BY <1>1, TypeStep, AgentStepInv, TruthStep, HandlerStep, OneAnswerStep, OrderStep, CountedStep
     DEF IInv
<1>2. CASE UNCHANGED vars
  <2> USE <1>2 DEF vars, tables, handler, agentVars, world
  <2>1. TypeOK'
    BY DEF IInv, TypeOK
  <2>2. AgentInv' /\ HandlerInv'
    BY DEF IInv, AgentInv, HandlerInv, Running, Queued
  <2>3. Truth'
    BY DEF IInv, Truth, Says, NotRun, Running
  <2>4. OneAnswer'
    BY DEF IInv, OneAnswer, Queued, Acked, Owes, Unwritten
  <2>5. AttemptsInOrder' /\ Counted'
    BY DEF IInv, AttemptsInOrder, NotRun, Running, Counted
  <2> QED
    BY <2>1, <2>2, <2>3, <2>4, <2>5 DEF IInv
<1> QED
  BY <1>1, <1>2

LEMMA Invariance == Spec => []IInv
  BY InvInit, InvStep, PTL DEF Spec

\* Every variable keeps its type.
THEOREM TypeCorrect == Spec => []TypeOK
<1>1. IInv => TypeOK
  BY DEF IInv
<1> QED
  BY <1>1, Invariance, PTL

\* No pair ever gets a second position at the broker, whichever agent it is and
\* however often messages are lost and either side dies.
THEOREM AtMostOnceCorrect == Spec => []AtMostOnce
<1>1. IInv => AtMostOnce
  <2> SUFFICES ASSUME IInv, NEW i \in Intents PROVE opened[i] <= 1
    BY DEF AtMostOnce
  <2>1. opened[i] = 0 \/ opened[i] = 1
    BY DEF IInv, Counted
  <2> QED
    BY <2>1
<1> QED
  BY <1>1, Invariance, PTL

\* A pair the Bridge calls OPEN on an EA's word has its position.
THEOREM OpenHasPositionCorrect == Spec => []OpenHasPosition
<1>1. IInv => OpenHasPosition
  BY DEF IInv, Counted, OpenHasPosition
<1> QED
  BY <1>1, Invariance, PTL

\* A pair never has two commands in flight, nor one beside a sleeping retry.
THEOREM OneAttemptCorrect == Spec => []OneAttemptInFlight
<1>1. IInv => OneAttemptInFlight
  <2> SUFFICES ASSUME IInv, NEW i \in Intents
               PROVE  /\ \A m, n \in Attempts :
                            <<i, m>> \in InFlight /\ <<i, n>> \in InFlight => m = n
                      /\ i \in retrying => \A n \in Attempts : <<i, n>> \notin InFlight
    BY DEF OneAttemptInFlight
  <2>1. \A n \in Attempts : <<i, n>> \in InFlight => n = retries[i]
    <3> SUFFICES ASSUME NEW n \in Attempts, <<i, n>> \in InFlight PROVE n = retries[i]
      OBVIOUS
    <3>1. status[<<i, n>>] # "none" /\ result[<<i, n>>] = "none"
      BY DEF InFlight, IInv, HandlerInv
    <3>2. n <= retries[i] /\ ~(n < retries[i])
      BY <3>1 DEF IInv, AttemptsInOrder
    <3>3. n \in Nat /\ retries[i] \in Nat
      BY RetriesCounted DEF IInv
    <3> QED
      BY <3>2, <3>3
  <2>2. i \in retrying => <<i, retries[i]>> \notin InFlight
    BY DEF IInv, AttemptsInOrder, InFlight
  <2> QED
    BY <2>1, <2>2
<1> QED
  BY <1>1, Invariance, PTL

-----------------------------------------------------------------------------
(* What a PENDING or CANCELLED row says.                                     *)

LEMMA UnseenStep == IInv /\ Unseen /\ Next => Unseen'
<1> SUFFICES ASSUME IInv /\ Unseen, Next PROVE Unseen'
  OBVIOUS
<1> USE DEF Unseen, Queued, tables, handler, agentVars, world
<1>a. /\ TypeOK /\ AgentInv /\ HandlerInv /\ AttemptsInOrder
      /\ faults.bridge = 0 => \A c \in Commands :
            status[c] \in {"PENDING", "CANCELLED"} /\ c # written => ~Queued(c) /\ journal[c] = "none"
  BY DEF IInv
<1>b. \A c \in Commands : status[c] = "none" => ~Queued(c) /\ journal[c] = "none"
  BY <1>a DEF AgentInv
<1>c. toAgent \in Seq(Commands) /\ status \in [Commands -> {"none", "PENDING", "SENT", "ACK_OK",
                                           "ACK_FAILED", "TIMEOUT", "CANCELLED"}]
  BY <1>a DEF TypeOK
<1>1. ASSUME NEW i \in Intents, OpenPair(i) PROVE Unseen'
  <2>1. <<i, 0>> \in Commands /\ status[<<i, 0>>] = "none"
    BY <1>1, <1>a, CommandOf DEF OpenPair, AttemptsInOrder
  <2>2. \A d \in Commands : d # <<i, 0>> => status'[d] = status[d]
    BY <1>1, <2>1, <1>c DEF OpenPair
  <2> QED
    BY <1>1, <1>a, <1>b, <2>1, <2>2 DEF OpenPair
<1>2. ASSUME NEW i \in Intents, RetryOpen(i) PROVE Unseen'
  <2>1. <<i, retries[i]>> \in Commands /\ status[<<i, retries[i]>>] = "none"
    BY <1>2, <1>a, CommandOf, RetriesCounted DEF RetryOpen, AttemptsInOrder
  <2>2. \A d \in Commands : d # <<i, retries[i]>> => status'[d] = status[d]
    BY <1>2, <2>1, <1>c DEF RetryOpen
  <2> QED
    BY <1>2, <1>a, <1>b, <2>1, <2>2 DEF RetryOpen
<1>3. ASSUME NEW i \in Intents, JudgeTooLate(i) PROVE Unseen'
  BY <1>3, <1>a DEF JudgeTooLate, Judging
<1>4. ASSUME NEW i \in Intents, JudgeOk(i) PROVE Unseen'
  BY <1>4, <1>a DEF JudgeOk, Judging
<1>5. ASSUME NEW i \in Intents, JudgeUnclear(i) PROVE Unseen'
  BY <1>5, <1>a DEF JudgeUnclear, Judging
<1>6. ASSUME NEW i \in Intents, JudgeRetry(i) PROVE Unseen'
  BY <1>6, <1>a DEF JudgeRetry, Judging
<1>7. ASSUME NEW i \in Intents, JudgeFailed(i) PROVE Unseen'
  BY <1>7, <1>a DEF JudgeFailed, Judging
<1>8. ASSUME NEW c \in Commands, WriteCommand(c) PROVE Unseen'
  <2>1. \A d \in Commands : d # c => (d \in Elems(toAgent') => d \in Elems(toAgent))
    BY <1>8, <1>c, QueueAppend DEF WriteCommand
  <2>2. \A d \in Commands : d # c => d # written
    BY <1>8 DEF WriteCommand
  <2> QED
    BY <1>8, <1>a, <2>1, <2>2 DEF WriteCommand
<1>9. ASSUME NEW c \in Commands, LeavePending(c) PROVE Unseen'
  BY <1>9, <1>a DEF LeavePending
<1>10. ASSUME NEW c \in Commands, CancelExpired(c) PROVE Unseen'
  <2>1. \A d \in Commands : d # c => status'[d] = status[d]
    BY <1>10, <1>c DEF CancelExpired
  <2>2. status[c] = "PENDING" /\ c # written
    BY <1>10, <1>a DEF CancelExpired, HandlerInv
  <2> QED
    BY <1>10, <1>a, <2>1, <2>2 DEF CancelExpired
<1>11. ASSUME NEW c \in Commands, ScanDeadline(c) PROVE Unseen'
  <2>1. status'[c] = "TIMEOUT" /\ \A d \in Commands : d # c => status'[d] = status[d]
    BY <1>11, <1>c DEF ScanDeadline
  <2> QED
    BY <1>11, <1>a, <2>1 DEF ScanDeadline
<1>12. CASE MarkSent
  <2>1. status'[written] = "SENT" /\ \A d \in Commands : d # written => status'[d] = status[d]
    BY <1>12, <1>a, <1>c DEF MarkSent, TypeOK
  <2> QED
    BY <1>12, <1>a, <2>1 DEF MarkSent
<1>13. CASE RecvAck
  <2>1. \A d \in Commands : status'[d] \in {"PENDING", "CANCELLED"} => status'[d] = status[d]
    <3>1. PICK d \in Commands, v \in {"TIMEOUT", "ACK_OK", "ACK_FAILED"} :
             status' = [status EXCEPT ![d] = v]
      <4>1. Head(toBridge).cmd \in Commands
        BY <1>13, <1>a, MessageOf, QueueTail DEF RecvAck, TypeOK
      <4> QED
        BY <1>13, <4>1 DEF RecvAck, StatusFor
    <3> QED
      BY <3>1, <1>c
  <2> QED
    BY <1>13, <1>a, <2>1 DEF RecvAck
<1>14. CASE Connect
  BY <1>14, <1>a, QueueEmpty DEF Connect
<1>15. ASSUME NEW c \in Commands, Reserve(c) PROVE Unseen'
  <2>1. c \in Elems(toAgent) /\ Elems(toAgent') \subseteq Elems(toAgent)
    BY <1>15, <1>c, QueueTail DEF Reserve, NextCommand
  <2>2. \A d \in Commands : d # c => journal'[d] = journal[d]
    BY <1>15, <1>a DEF Reserve, TypeOK
  <2> QED
    BY <1>15, <1>a, <2>1, <2>2 DEF Reserve
<1>16. ASSUME NEW c \in Commands, AnswerAgain(c) PROVE Unseen'
  <2>1. Elems(toAgent') \subseteq Elems(toAgent)
    BY <1>16, <1>c, QueueTail DEF AnswerAgain, NextCommand
  <2>2. \A d \in Commands : journal[d] = "none" => journal'[d] = "none"
    BY <1>16, <1>a DEF AnswerAgain, TypeOK, Known
  <2> QED
    BY <1>16, <1>a, <2>1, <2>2 DEF AnswerAgain
<1>17. ASSUME NEW a \in Answers, Refuse(a) PROVE Unseen'
  BY <1>17, <1>a DEF Refuse
<1>18. ASSUME NEW a \in Answers, OpenPosition(a) PROVE Unseen'
  BY <1>18, <1>a DEF OpenPosition
<1>19. ASSUME NEW a \in Answers, OpenNothing(a) PROVE Unseen'
  BY <1>19, <1>a DEF OpenNothing
<1>20. CASE SendAck
  BY <1>20, <1>a DEF SendAck
<1>21. CASE SaveAnswer
  <2>1. \A d \in Commands : journal[d] = "none" => journal'[d] = "none"
    BY <1>21, <1>a DEF SaveAnswer, TypeOK, AgentInv
  <2> QED
    BY <1>21, <1>a, <2>1 DEF SaveAnswer
<1>22. CASE AgentDrop
  BY <1>22, <1>a, QueueEmpty DEF AgentDrop
<1>23. ASSUME NEW c \in Commands, Expire(c) PROVE Unseen'
  BY <1>23, <1>a DEF Expire
<1>24. CASE BridgeDrop
  <2>1. faults'.bridge = faults.bridge
    BY <1>24, <1>a DEF BridgeDrop, TypeOK
  <2> QED
    BY <1>24, <1>a, <2>1 DEF BridgeDrop
<1>25. CASE AgentCrash
  <2>1. faults'.bridge = faults.bridge
    BY <1>25, <1>a DEF AgentCrash, TypeOK
  <2> QED
    BY <1>25, <1>a, <2>1, QueueEmpty DEF AgentCrash
<1>26. CASE BridgeCrash
  <2>1. faults' = [faults EXCEPT !.bridge = @ + 1] /\ faults \in [breaks : Nat, agent : Nat, bridge : Nat]
    BY <1>26, <1>a DEF BridgeCrash, TypeOK
  <2>2. faults'.bridge = faults.bridge + 1 /\ faults.bridge \in Nat
    BY <2>1
  <2>3. faults'.bridge # 0
    BY <2>2
  <2> QED
    BY <2>3
<1> QED
  BY <1>1, <1>2, <1>3, <1>4, <1>5, <1>6, <1>7, <1>8, <1>9, <1>10, <1>11, <1>12, <1>13, <1>14, <1>15, <1>16, <1>17, <1>18, <1>19, <1>20, <1>21, <1>22, <1>23, <1>24, <1>25, <1>26 DEF Next, BridgeStep, AgentStep

-----------------------------------------------------------------------------
(* What it takes to write a pair off, and what follows a timeout.            *)

\* What has been answered stays answered, and what has timed out has.
LEMMA ResultKept ==
    ASSUME IInv, Next
    PROVE  /\ \A c \in Commands : result[c] # "none" => result'[c] = result[c]
           /\ timedOut \subseteq timedOut'
<1>a. TypeOK /\ OneAnswer
  BY DEF IInv
<1>1. timedOut \subseteq timedOut'
  <2> USE DEF tables, handler, agentVars, world
  <2>1. ASSUME BridgeStep PROVE timedOut \subseteq timedOut'
    BY <2>1 DEF BridgeStep, RetryOpen, JudgeTooLate, JudgeOk, JudgeUnclear, JudgeRetry, JudgeFailed, Judging, WriteCommand,
                LeavePending, CancelExpired, ScanDeadline, MarkSent, RecvAck
  <2>2. ASSUME AgentStep PROVE timedOut \subseteq timedOut'
    BY <2>2 DEF AgentStep, Connect, Reserve, AnswerAgain, NextCommand, Refuse, OpenPosition, OpenNothing,
                SendAck, SaveAnswer, AgentDrop
  <2> QED
    BY <2>1, <2>2 DEF Next, OpenPair, Expire, BridgeDrop, AgentCrash, BridgeCrash
<1>2. result' = result \/ RecvAck
  <2> USE DEF tables, handler, agentVars, world
  <2>1. ASSUME BridgeStep PROVE result' = result \/ RecvAck
    BY <2>1 DEF BridgeStep, RetryOpen, JudgeTooLate, JudgeOk, JudgeUnclear, JudgeRetry, JudgeFailed, Judging, WriteCommand,
                LeavePending, CancelExpired, ScanDeadline, MarkSent
  <2>2. ASSUME AgentStep PROVE result' = result
    BY <2>2 DEF AgentStep, Connect, Reserve, AnswerAgain, NextCommand, Refuse, OpenPosition, OpenNothing,
                SendAck, SaveAnswer, AgentDrop
  <2> QED
    BY <2>1, <2>2 DEF Next, OpenPair, Expire, BridgeDrop, AgentCrash, BridgeCrash
<1>3. ASSUME RecvAck, NEW c \in Commands, result[c] # "none" PROVE result'[c] = result[c]
  <2>1. Head(toBridge) \in Elems(toBridge) /\ Head(toBridge).cmd \in Commands
    BY <1>3, <1>a, MessageOf, QueueTail DEF RecvAck, TypeOK
  <2>2. Head(toBridge).cmd # c
    BY <1>3, <1>a, <2>1 DEF RecvAck, OneAnswer, Acked
  <2> QED
    BY <1>3, <1>a, <2>1, <2>2 DEF RecvAck, TypeOK
<1> QED
  BY <1>1, <1>2, <1>3

\* Only a judgement writes a pair off, and only it counts retries.
LEMMA WrittenOffBy ==
    ASSUME IInv, Next, NEW i \in Intents, pair'[i] = "OPEN_FAILED"
    PROVE  JudgeFailed(i) \/ (pair[i] = "OPEN_FAILED" /\ retries'[i] = retries[i])
<1> DEFINE Same == pair[i] = "OPEN_FAILED" /\ retries'[i] = retries[i]
<1> USE DEF tables, handler, agentVars, world
<1>a. TypeOK
  BY DEF IInv
<1>1. ASSUME NEW j \in Intents, OpenPair(j) PROVE Same
  BY <1>1, <1>a DEF OpenPair, TypeOK
<1>2. ASSUME NEW j \in Intents, JudgeOk(j) PROVE Same
  BY <1>2, <1>a DEF JudgeOk, Judging, TypeOK
<1>3. ASSUME NEW j \in Intents, JudgeRetry(j) PROVE Same
  BY <1>3, <1>a DEF JudgeRetry, Judging, Waiting, TypeOK
<1>4. ASSUME NEW j \in Intents, JudgeFailed(j) PROVE Same \/ JudgeFailed(i)
  <2>1. CASE j = i
    BY <1>4, <2>1
  <2>2. CASE j # i
    BY <1>4, <2>2, <1>a DEF JudgeFailed, Judging, TypeOK
  <2> QED
    BY <2>1, <2>2
<1>5. ASSUME BridgeStep PROVE Same \/ JudgeFailed(i)
  <2>1. \/ \E j \in Intents : JudgeOk(j) \/ JudgeRetry(j) \/ JudgeFailed(j)
        \/ UNCHANGED <<pair, retries>>
    BY <1>5 DEF BridgeStep, RetryOpen, JudgeTooLate, JudgeUnclear, Judging, WriteCommand,
                LeavePending, CancelExpired, ScanDeadline, MarkSent, RecvAck
  <2> QED
    BY <2>1, <1>2, <1>3, <1>4
<1>6. ASSUME AgentStep PROVE Same
  BY <1>6 DEF AgentStep, Connect, Reserve, AnswerAgain, NextCommand, Refuse, OpenPosition, OpenNothing,
                SendAck, SaveAnswer, AgentDrop
<1> QED
  BY <1>1, <1>5, <1>6 DEF Next, Expire, BridgeDrop, AgentCrash, BridgeCrash

\* Why a pair is written off.
LEMMA WriteOff ==
    ASSUME IInv, WrittenOff, NEW i \in Intents, JudgeFailed(i)
    PROVE  Reason(i) \/ Hopelessly(i)
<1>a. TypeOK /\ Truth /\ HandlerInv /\ AttemptsInOrder
  BY DEF IInv
<1>1. PICK n \in Attempts : judged = <<i, n>> /\ judged \in Commands
  BY <1>a, CommandOf DEF JudgeFailed, Judging, TypeOK
<1>2. CASE result[judged] = "none" /\ Kind = "EA"
  BY <1>1, <1>2 DEF WrittenOff, Reason
<1>3. CASE result[judged] = "failed"
  BY <1>1, <1>3 DEF Reason
<1>4. CASE result[judged] \in {"refused", "denied"}
  <2>1. NotRun(<<i, n>>)
    BY <1>a, <1>1, <1>4 DEF Truth, Says
  <2>2. n <= retries[i]
    BY <1>a, <1>1 DEF HandlerInv, AttemptsInOrder
  <2>3. ~(n < retries[i]) \/ result[judged] = "refused"
    BY <1>a, <1>1 DEF AttemptsInOrder
  <2>4. result[judged] = "refused" => n = retries[i]
    BY <1>a, <1>1 DEF AttemptsInOrder
  <2>5. n \in Nat /\ retries[i] \in Nat /\ \A m \in Attempts : m \in Nat
    BY <1>a, RetriesCounted
  <2>6. n = retries[i]
    BY <2>2, <2>3, <2>4, <2>5
  <2>7. \A m \in Attempts : m < retries[i] => NotRun(<<i, m>>)
    BY <1>a DEF AttemptsInOrder
  <2> QED
    BY <2>1, <2>5, <2>6, <2>7 DEF Hopelessly
<1> QED
  BY <1>2, <1>3, <1>4 DEF JudgeFailed, Hopeless, Retryable

LEMMA WrittenOffStep == IInv /\ WrittenOff /\ Next => WrittenOff'
<1> SUFFICES ASSUME IInv, WrittenOff, Next PROVE WrittenOff'
  OBVIOUS
<1>a. TypeOK /\ AgentInv
  BY DEF IInv
<1>1. ASSUME judged' # NoCommand, result'[judged'] = "none" PROVE judged' \in timedOut'
  <2> USE DEF tables, handler, agentVars, world
  <2>1. ASSUME RecvAck PROVE FALSE
    <3>1. /\ Head(toBridge).cmd \in Commands /\ Head(toBridge).answer \in Answers
          /\ judged' = Head(toBridge).cmd
          /\ result' = [result EXCEPT ![Head(toBridge).cmd] = Head(toBridge).answer]
      BY <2>1, <1>a, MessageOf, QueueTail DEF RecvAck, TypeOK
    <3> QED
      BY <1>1, <3>1, <1>a DEF TypeOK, Answers
  <2>2. ASSUME NEW c \in Commands, ScanDeadline(c) PROVE judged' \in timedOut'
    BY <2>2 DEF ScanDeadline
  <2>3. judged' = NoCommand \/ RecvAck \/ (judged' = judged /\ result' = result)
        \/ \E c \in Commands : ScanDeadline(c)
    <3>1. ASSUME BridgeStep PROVE judged' = NoCommand \/ RecvAck \/ (judged' = judged /\ result' = result)
                                  \/ \E c \in Commands : ScanDeadline(c)
      BY <3>1 DEF BridgeStep, RetryOpen, JudgeTooLate, JudgeOk, JudgeUnclear, JudgeRetry, JudgeFailed,
                  Judging, WriteCommand, LeavePending, CancelExpired, MarkSent
    <3>2. ASSUME AgentStep PROVE judged' = judged /\ result' = result
      BY <3>2 DEF AgentStep, Connect, Reserve, AnswerAgain, NextCommand, Refuse, OpenPosition, OpenNothing,
                SendAck, SaveAnswer, AgentDrop
    <3> QED
      BY <3>1, <3>2 DEF Next, OpenPair, Expire, BridgeDrop, AgentCrash, BridgeCrash
  <2> QED
    BY <1>1, <2>1, <2>2, <2>3, ResultKept DEF WrittenOff
<1>2. ASSUME NEW i \in Intents, pair'[i] = "OPEN_FAILED" PROVE Reason(i)' \/ Hopelessly(i)'
  <2>1. Reason(i) => Reason(i)'
    BY ResultKept, CommandOf DEF Reason
  <2>2. Hopelessly(i) /\ retries'[i] = retries[i] => Hopelessly(i)'
    <3>1. \A n \in Attempts : NotRun(<<i, n>>) => NotRun(<<i, n>>)'
      BY <1>a, LegacyStep, CommandOf DEF LegacyKept
    <3> QED
      BY <3>1 DEF Hopelessly
  <2>3. (Reason(i) \/ Hopelessly(i)) /\ retries'[i] = retries[i]
    <3>1. CASE JudgeFailed(i)
      BY <3>1, WriteOff DEF JudgeFailed
    <3>2. CASE pair[i] = "OPEN_FAILED" /\ retries'[i] = retries[i]
      BY <3>2 DEF WrittenOff
    <3> QED
      BY <1>2, <3>1, <3>2, WrittenOffBy
  <2> QED
    BY <2>1, <2>2, <2>3
<1> QED
  BY <1>1, <1>2 DEF WrittenOff

LEMMA SilenceStep == IInv /\ Silence /\ Next => Silence'
<1> SUFFICES ASSUME IInv /\ Silence, Next PROVE Silence'
  OBVIOUS
<1>a. TypeOK /\ AgentInv /\ HandlerInv /\ OneAnswer /\ AttemptsInOrder
  BY DEF IInv
<1> SUFFICES ASSUME Kind = "EA", NEW d \in timedOut' PROVE LastWord(d)'
  BY DEF Silence
<1>b. d \in timedOut => LastWord(d)
  BY DEF Silence
<1>c. /\ d \in timedOut => d \in Commands
      /\ \A c \in Commands : c[1] \in Intents /\ c[2] \in Attempts /\ c = <<c[1], c[2]>>
  BY <1>a, CommandOf DEF TypeOK
<1> USE DEF LastWord, Answerless, Queued, Owes, Acked, tables, handler, agentVars, world
<1>1. ASSUME NEW i \in Intents, OpenPair(i) PROVE LastWord(d)'
  <2>1. d \in timedOut /\ d[1] # i
    BY <1>1, <1>a, <1>b, <1>c DEF OpenPair, AttemptsInOrder
  <2>2. status'[d] = status[d] /\ pair'[d[1]] = pair[d[1]]
    BY <1>1, <1>a, <1>c, <2>1 DEF OpenPair, TypeOK
  <2> QED
    BY <1>1, <1>b, <2>1, <2>2 DEF OpenPair
<1>2. ASSUME NEW i \in Intents, RetryOpen(i) PROVE LastWord(d)'
  <2>1. d \in timedOut /\ d # <<i, retries[i]>>
    BY <1>2, <1>a, <1>b, <1>c DEF RetryOpen, AttemptsInOrder
  <2>2. status'[d] = status[d]
    BY <1>2, <1>a, <1>c, <2>1 DEF RetryOpen, TypeOK
  <2> QED
    BY <1>2, <1>b, <2>1, <2>2 DEF RetryOpen
<1>3. ASSUME NEW i \in Intents, JudgeTooLate(i) PROVE LastWord(d)'
  BY <1>3, <1>b DEF JudgeTooLate, Judging, Waiting
<1>4. ASSUME NEW i \in Intents, JudgeOk(i) PROVE LastWord(d)'
  <2>1. pair' = [pair EXCEPT ![i] = "OPEN"] /\ i = judged[1] /\ d \in timedOut
    BY <1>4 DEF JudgeOk, Judging
  <2>2. pair'[d[1]] = "PENDING_OPEN" => d[1] # i /\ pair[d[1]] = "PENDING_OPEN"
    BY <1>a, <1>c, <2>1 DEF TypeOK
  <2> QED
    BY <1>4, <1>b, <2>1, <2>2 DEF JudgeOk, Judging
<1>5. ASSUME NEW i \in Intents, JudgeUnclear(i) PROVE LastWord(d)'
  BY <1>5, <1>b DEF JudgeUnclear, Judging, Waiting
<1>6. ASSUME NEW i \in Intents, JudgeRetry(i) PROVE LastWord(d)'
  <2>1. i = judged[1] /\ judged \in Commands /\ pair[i] = "PENDING_OPEN" /\ d \in timedOut
        /\ result[judged] = "refused" /\ judged[2] = retries[i]
    BY <1>6, <1>a DEF JudgeRetry, Judging, Waiting, Retryable, AttemptsInOrder, TypeOK
  <2>2. d[1] # i
    <3> SUFFICES ASSUME d[1] = i PROVE FALSE
      OBVIOUS
    <3>1. d[2] = retries[i] /\ result[d] = "none"
      BY <1>b, <2>1
    <3>2. d = judged
      BY <1>c, <2>1, <3>1
    <3> QED
      BY <2>1, <3>1, <3>2
  <2>3. retries'[d[1]] = retries[d[1]] /\ judged # d
    BY <1>6, <1>a, <1>c, <2>1, <2>2 DEF JudgeRetry, TypeOK
  <2> QED
    BY <1>6, <1>b, <2>1, <2>3 DEF JudgeRetry, Judging
<1>7. ASSUME NEW i \in Intents, JudgeFailed(i) PROVE LastWord(d)'
  <2>1. pair' = [pair EXCEPT ![i] = "OPEN_FAILED"] /\ i = judged[1] /\ d \in timedOut
    BY <1>7 DEF JudgeFailed, Judging
  <2>2. pair'[d[1]] = "PENDING_OPEN" => d[1] # i /\ pair[d[1]] = "PENDING_OPEN"
    BY <1>a, <1>c, <2>1 DEF TypeOK
  <2> QED
    BY <1>7, <1>b, <2>1, <2>2 DEF JudgeFailed, Judging
<1>8. ASSUME NEW c \in Commands, WriteCommand(c) PROVE LastWord(d)'
  <2>1. d \in timedOut /\ d # c /\ toAgent' \in {toAgent, Append(toAgent, c)}
    BY <1>8, <1>a, <1>b DEF WriteCommand, HandlerInv
  <2>2. d \in Elems(toAgent') => d \in Elems(toAgent)
    <3>1. CASE toAgent' = toAgent
      BY <3>1
    <3>2. CASE toAgent' = Append(toAgent, c)
      <4>1. Elems(Append(toAgent, c)) = Elems(toAgent) \cup {c}
        BY <1>a, QueueAppend DEF TypeOK
      <4> QED
        BY <2>1, <3>2, <4>1
    <3> QED
      BY <2>1, <3>1, <3>2
  <2> QED
    BY <1>8, <1>b, <2>1, <2>2 DEF WriteCommand
<1>9. ASSUME NEW c \in Commands, LeavePending(c) PROVE LastWord(d)'
  BY <1>9, <1>b DEF LeavePending
<1>10. ASSUME NEW c \in Commands, CancelExpired(c) PROVE LastWord(d)'
  <2>1. d \in timedOut /\ d # c
    BY <1>10, <1>a, <1>b DEF CancelExpired, HandlerInv
  <2>2. status'[d] = status[d]
    BY <1>10, <1>a, <1>c, <2>1 DEF CancelExpired, TypeOK
  <2> QED
    BY <1>10, <1>b, <2>1, <2>2 DEF CancelExpired
<1>11. ASSUME NEW c \in Commands, ScanDeadline(c) PROVE LastWord(d)'
  <2>1. /\ judged = NoCommand /\ judged' = c /\ status[c] = "SENT" /\ timedOut' = timedOut \cup {c}
        /\ status' = [status EXCEPT ![c] = "TIMEOUT"]
        /\ UNCHANGED <<pair, retries, result, conn, toAgent, toBridge, doing, step>>
    BY <1>11 DEF ScanDeadline, BridgeIdle
  <2>2. CASE d = c
    <3>1. PICK i \in Intents, n \in Attempts : c = <<i, n>> /\ c[1] = i /\ c[2] = n
      BY <1>c
    <3>2. result[c] = "none"
      BY <1>a, <2>1 DEF HandlerInv
    <3>3. n <= retries[i] /\ ~(n < retries[i])
      BY <1>a, <2>1, <3>1, <3>2 DEF AttemptsInOrder
    <3>4. n \in Nat /\ retries[i] \in Nat
      BY <1>a, RetriesCounted
    <3>5. n = retries[i]
      BY <3>3, <3>4
    <3>6. status'[c] = "TIMEOUT"
      BY <1>a, <2>1 DEF TypeOK
    <3> QED
      BY <2>1, <2>2, <3>1, <3>2, <3>5, <3>6
  <2>3. CASE d # c
    <3>1. d \in timedOut /\ d \in Commands
      BY <1>c, <2>1, <2>3
    <3>2. status'[d] = status[d] /\ judged # d
      BY <1>a, <2>1, <2>3, <3>1 DEF TypeOK
    <3> QED
      BY <1>b, <2>1, <2>3, <3>1, <3>2
  <2> QED
    BY <2>2, <2>3
<1>12. CASE MarkSent
  <2>1. d \in timedOut /\ d # written
    BY <1>12, <1>a, <1>b DEF MarkSent, HandlerInv
  <2>2. status'[d] = status[d]
    BY <1>12, <1>a, <1>c, <2>1 DEF MarkSent, TypeOK
  <2> QED
    BY <1>12, <1>b, <2>1, <2>2 DEF MarkSent
<1>13. CASE RecvAck
  <2>1. /\ judged = NoCommand /\ conn /\ UNCHANGED <<pair, retries, timedOut, conn, toAgent, doing, step>>
        /\ judged' = Head(toBridge).cmd /\ toBridge' = Tail(toBridge) /\ toBridge # <<>>
        /\ status' = [status EXCEPT ![Head(toBridge).cmd] = StatusFor(Head(toBridge).answer)]
        /\ result' = [result EXCEPT ![Head(toBridge).cmd] = Head(toBridge).answer]
    BY <1>13 DEF RecvAck, BridgeIdle
  <2>2. /\ Head(toBridge) \in Elems(toBridge) /\ Elems(Tail(toBridge)) \subseteq Elems(toBridge)
        /\ Head(toBridge).cmd \in Commands
    BY <1>a, <2>1, MessageOf, QueueTail DEF TypeOK
  <2>3. d \in timedOut /\ d \in Commands /\ judged # d
    BY <1>c, <2>1
  <2>4. status'[d] \in {"TIMEOUT", "ACK_OK", "ACK_FAILED"}
    <3>1. StatusFor(Head(toBridge).answer) \in {"TIMEOUT", "ACK_OK", "ACK_FAILED"}
      BY DEF StatusFor
    <3> QED
      BY <1>a, <1>b, <2>1, <2>3, <3>1 DEF TypeOK
  <2>5. ASSUME pair[d[1]] = "PENDING_OPEN"
        PROVE  result'[d] = "none" /\ Answerless(d)'
    <3>1. result[d] = "none" /\ Answerless(d)
      BY <1>b, <2>1, <2>3, <2>5
    <3>2. Head(toBridge).cmd # d
      BY <2>2, <3>1
    <3> QED
      BY <1>a, <2>1, <2>2, <2>3, <3>1, <3>2 DEF TypeOK
  <2> QED
    BY <1>b, <2>1, <2>3, <2>4, <2>5
<1>14. CASE Connect
  BY <1>14, <1>a, <1>b, <1>c, QueueEmpty DEF Connect, AgentIdle
<1>15. ASSUME NEW c \in Commands, Reserve(c) PROVE LastWord(d)'
  <2>1. c \in Elems(toAgent) /\ Elems(toAgent') \subseteq Elems(toAgent)
    BY <1>15, <1>a, QueueTail DEF Reserve, NextCommand, TypeOK
  <2> QED
    BY <1>15, <1>b, <2>1 DEF Reserve
<1>16. ASSUME NEW c \in Commands, AnswerAgain(c) PROVE LastWord(d)'
  <2>1. c \in Elems(toAgent) /\ Elems(toAgent') \subseteq Elems(toAgent)
    BY <1>16, <1>a, QueueTail DEF AnswerAgain, NextCommand, TypeOK
  <2>2. PICK a \in Answers : toBridge' = Answered(c, a)
    BY <1>16, <1>a DEF AnswerAgain, Known, TypeOK, Answers
  <2>3. conn => Elems(toBridge') = Elems(toBridge) \cup {[cmd |-> c, answer |-> a]}
    BY <1>a, <2>2, AnswerSent
  <2> QED
    BY <1>16, <1>b, <2>1, <2>3 DEF AnswerAgain
<1>17. ASSUME NEW a \in Answers, Refuse(a) PROVE LastWord(d)'
  BY <1>17, <1>b DEF Refuse
<1>18. ASSUME NEW a \in Answers, OpenPosition(a) PROVE LastWord(d)'
  BY <1>18, <1>b DEF OpenPosition
<1>19. ASSUME NEW a \in Answers, OpenNothing(a) PROVE LastWord(d)'
  BY <1>19, <1>b DEF OpenNothing
<1>20. CASE SendAck
  <2>1. doing \in Commands /\ answer \in Answers
    BY <1>20, <1>a DEF SendAck, AgentInv, TypeOK
  <2>2. conn => Elems(toBridge') = Elems(toBridge) \cup {[cmd |-> doing, answer |-> answer]}
    BY <1>20, <1>a, <2>1, AnswerSent DEF SendAck
  <2> QED
    BY <1>20, <1>b, <2>2 DEF SendAck
<1>21. CASE SaveAnswer
  BY <1>21, <1>b DEF SaveAnswer
<1>22. CASE AgentDrop
  BY <1>22, <1>b, QueueEmpty DEF AgentDrop
<1>23. ASSUME NEW c \in Commands, Expire(c) PROVE LastWord(d)'
  BY <1>23, <1>b DEF Expire
<1>24. CASE BridgeDrop
  BY <1>24, <1>a, <1>b, QueueEmpty DEF BridgeDrop
<1>25. CASE AgentCrash
  BY <1>25, <1>a, <1>b, <1>c, QueueEmpty DEF AgentCrash, TypeOK
<1>26. CASE BridgeCrash
  BY <1>26, <1>a, <1>b, QueueEmpty DEF BridgeCrash
<1> QED
  BY <1>1, <1>2, <1>3, <1>4, <1>5, <1>6, <1>7, <1>8, <1>9, <1>10, <1>11, <1>12, <1>13, <1>14, <1>15, <1>16, <1>17, <1>18, <1>19, <1>20, <1>21, <1>22, <1>23, <1>24, <1>25, <1>26 DEF Next, BridgeStep, AgentStep

\* The three together, with what they rest on.
Late == IInv /\ WrittenOff /\ Silence /\ Unseen

LEMMA LateInit == Init => Late
<1> SUFFICES ASSUME Init PROVE Late
  OBVIOUS
<1>1. IInv
  BY InvInit
<1>2. WrittenOff /\ Silence /\ Unseen
  BY QueueEmpty DEF Init, WrittenOff, Silence, Unseen, Queued
<1> QED
  BY <1>1, <1>2 DEF Late

LEMMA LateStep == Late /\ [Next]_vars => Late'
<1> SUFFICES ASSUME Late, [Next]_vars PROVE Late'
  OBVIOUS
<1>1. IInv'
  BY InvStep DEF Late
<1>2. CASE Next
  BY <1>1, <1>2, WrittenOffStep, SilenceStep, UnseenStep DEF Late
<1>3. CASE UNCHANGED vars
  <2> USE <1>3 DEF vars, tables, handler, agentVars, world, Late
  <2>1. WrittenOff'
    BY DEF WrittenOff, Reason, Hopelessly, NotRun, Running
  <2>2. Silence'
    BY DEF Silence, LastWord, Answerless, Queued, Owes, Acked
  <2>3. Unseen'
    BY DEF Unseen, Queued
  <2> QED
    BY <1>1, <2>1, <2>2, <2>3
<1> QED
  BY <1>2, <1>3

LEMMA LateInvariance == Spec => []Late
  BY LateInit, LateStep, PTL DEF Spec

\* A pair is written off with its position open only if a command was not answered
\* in time or failed without proof of refusal (processor.py:664).
THEOREM WriteOffCorrect == Spec => []WriteOffHasReason
<1>1. Late => WriteOffHasReason
  <2> SUFFICES ASSUME Late, NEW i \in Intents, pair[i] = "OPEN_FAILED", opened[i] > 0
               PROVE  Reason(i)
    BY DEF WriteOffHasReason, Reason
  <2>1. Reason(i) \/ Hopelessly(i)
    BY DEF Late, WrittenOff
  <2>2. PICK n \in Attempts : <<i, n>> \in ran
    <3>1. opened[i] = 1
      BY DEF Late, IInv, Counted
    <3> QED
      BY <3>1 DEF Late, IInv, Counted
  <2>3. n <= retries[i]
    BY <2>2, CommandOf DEF Late, IInv, AgentInv, AttemptsInOrder
  <2>4. ~Hopelessly(i)
    BY <2>2, <2>3 DEF Hopelessly, NotRun
  <2> QED
    BY <2>1, <2>4
<1> QED
  BY <1>1, LateInvariance, PTL

\* After an EA's command has timed out its pair gets no other, whether the Bridge has
\* judged the silence or died before it could.
THEOREM NoRetryCorrect == Spec => [](Kind = "EA" => NoRetryAfterTimeout)
<1>1. Late => (Kind = "EA" => NoRetryAfterTimeout)
  <2> SUFFICES ASSUME Late, Kind = "EA", NEW i \in Intents, NEW m \in Attempts, NEW n \in Attempts,
                      m < n, <<i, m>> \in timedOut, status[<<i, n>>] # "none"
               PROVE  FALSE
    BY DEF NoRetryAfterTimeout
  <2>1. m = retries[i]
    BY DEF Late, Silence, LastWord
  <2>2. n <= retries[i]
    BY DEF Late, IInv, AttemptsInOrder
  <2>3. m \in Nat /\ n \in Nat
    OBVIOUS
  <2> QED
    BY <2>1, <2>2, <2>3
<1> QED
  BY <1>1, LateInvariance, PTL

\* A command the Bridge has cancelled never ran, as long as the Bridge has not died
\* between the bytes of a command and the mark that they are out (dispatcher.py:98).
THEOREM CancelledCorrect == Spec => [](faults.bridge = 0 => CancelledNeverRan)
<1>1. Late => (faults.bridge = 0 => CancelledNeverRan)
  <2> SUFFICES ASSUME Late, faults.bridge = 0, NEW c \in Commands, status[c] = "CANCELLED"
               PROVE  c \notin ran
    BY DEF CancelledNeverRan
  <2>1. c # written
    BY DEF Late, IInv, HandlerInv
  <2>2. journal[c] = "none"
    BY <2>1 DEF Late, Unseen
  <2> QED
    BY <2>2 DEF Late, IInv, AgentInv
<1> QED
  BY <1>1, LateInvariance, PTL

-----------------------------------------------------------------------------
(* The implementation of OpenOnce.                                          *)

LEMMA PromiseInit == Init => Promise!Init
  BY DEF Init, Promise!Init

LEMMA PromiseStep == IInv /\ IInv' /\ [Next]_vars => [Promise!Next]_<<pair, opened>>
<1> SUFFICES ASSUME IInv, IInv', [Next]_vars PROVE [Promise!Next]_<<pair, opened>>
  OBVIOUS
<1> USE DEF tables, handler, agentVars, world
<1>1. ASSUME NEW i \in Intents, OpenPair(i) PROVE Promise!Next
  BY <1>1 DEF OpenPair, Promise!Next, Promise!Ask
<1>2. ASSUME NEW i \in Intents, JudgeOk(i) PROVE [Promise!Next]_<<pair, opened>>
  <2>1. pair \in [Intents -> {"none", "PENDING_OPEN", "OPEN", "OPEN_FAILED"}]
    BY DEF IInv, TypeOK
  <2>2. CASE Kind = "EA"
    <3>1. pair[i] = "PENDING_OPEN" /\ pair' = [pair EXCEPT ![i] = "OPEN"] /\ opened' = opened
      BY <1>2, <2>2 DEF JudgeOk, Judging, Waiting
    <3>2. pair'[i] = "OPEN"
      BY <2>1, <3>1
    <3>3. opened'[i] = 1
      BY <2>2, <3>2 DEF IInv, Counted
    <3> QED
      BY <2>2, <3>1, <3>3 DEF Promise!Next, Promise!Confirm
  <2>3. CASE Kind # "EA"
    BY <1>2, <2>3 DEF JudgeOk, Judging
  <2> QED
    BY <2>2, <2>3
<1>3. ASSUME NEW i \in Intents, JudgeFailed(i) PROVE Promise!Next
  BY <1>3 DEF JudgeFailed, Judging, Waiting, Promise!Next, Promise!GiveUp
<1>4. ASSUME NEW a \in Answers, OpenPosition(a) PROVE Promise!Next
  <2>1. doing \in Commands /\ status[doing] # "none" /\ opened[doing[1]] = 0
    BY <1>4, NothingYet DEF OpenPosition, IInv
  <2>2. PICK i \in Intents, n \in Attempts : doing = <<i, n>> /\ doing[1] = i
    BY <2>1, CommandOf
  <2>3. pair[i] # "none"
    BY <2>1, <2>2 DEF IInv, AttemptsInOrder
  <2>4. opened' = [opened EXCEPT ![i] = 1] /\ pair' = pair
    BY <1>4, <2>1, <2>2 DEF OpenPosition, IInv, TypeOK
  <2> QED
    BY <2>1, <2>2, <2>3, <2>4 DEF Promise!Next, Promise!Execute
<1>5. CASE UNCHANGED <<pair, opened>>
  BY <1>5
<1>6. \/ \E i \in Intents : OpenPair(i) \/ JudgeOk(i) \/ JudgeFailed(i)
      \/ \E a \in Answers : OpenPosition(a)
      \/ UNCHANGED <<pair, opened>>
  <2>1. CASE Next
    <3>1. CASE BridgeStep
      BY <3>1 DEF BridgeStep, RetryOpen, JudgeTooLate, JudgeUnclear, JudgeRetry, Judging,
                  WriteCommand, LeavePending, CancelExpired, ScanDeadline, MarkSent, RecvAck
    <3>2. CASE AgentStep
      BY <3>2 DEF AgentStep, Connect, Reserve, AnswerAgain, NextCommand, Refuse, OpenNothing,
                  SendAck, SaveAnswer, AgentDrop
    <3> QED
      BY <2>1, <3>1, <3>2 DEF Next, Expire, BridgeDrop, AgentCrash, BridgeCrash
  <2>2. CASE UNCHANGED vars
    BY <2>2 DEF vars
  <2> QED
    BY <2>1, <2>2
<1> QED
  BY <1>1, <1>2, <1>3, <1>4, <1>5, <1>6

\* CommandDelivery implements OpenOnce: every step of the protocol, its crashes
\* and its retries included, is one the promise allows or changes nothing of it.
THEOREM PromiseCorrect == Spec => PromiseKept
<1>1. IInv /\ IInv' /\ [Next]_vars => [Promise!Next]_(Promise!vars)
  BY PromiseStep DEF Promise!vars
<1> QED
  BY <1>1, PromiseInit, Invariance, PTL DEF Spec, PromiseKept, Promise!Spec
=============================================================================
