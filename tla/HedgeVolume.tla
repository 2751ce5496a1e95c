---------------------------- MODULE HedgeVolume ----------------------------
(***************************************************************************)
(* The volumes of the two legs of one pair from the open to the last partial *)
(* close: the Client's is computed once from the Master's (Sizing), and then *)
(* follows it down, each time by a share of what is left.                    *)
(***************************************************************************)
EXTENDS Sizing, Sequences

CONSTANTS
    Cases,       \* what compute_client_volume is given: the Master's volume, the
                 \* configuration and the specification of the symbol
    Accounts     \* the limits of the Client and what it holds already

\* The Master's volume in the Client's lots, times 100 * Sizes: what the Client's
\* should be if every number were exact.
Sizes(in) == IF Converts(in) THEN in.clientSize ELSE 1
Nominal(in) == in.master * in.multiplier * (IF Converts(in) THEN in.masterSize ELSE 1)

\* What an open can come to: volume_max, or the minimum that is put in its place.
Largest(in) == IF in.min + in.step > in.max THEN in.min + in.step ELSE in.max

\* Volumes are so small, against 28 digits, that no two different results of the
\* computation differ by less than its roundings.
ASSUME HedgeAssumption ==
    /\ \A in \in Cases :
          /\ {in.master, in.multiplier, in.min, in.max, in.step, in.masterSize, in.clientSize} \subseteq Nat
          /\ 7 * Nominal(in) < 2 * Ten[Digits - 1]
          /\ 7 * Largest(in) * in.master < 2 * Ten[Digits - 1]
    /\ \A acct \in Accounts : {acct.total, acct.pairs} \subseteq Nat

Vias == {"EA", "CLICKER"}
NoOrder == [lots |-> 0, via |-> "EA"]

VARIABLES
    case, acct,
    opened,      \* what compute_client_volume answered
    mlots,       \* pair.master_current_volume
    clots,       \* pair.client_current_volume, 0 once the pair is closed
    held,        \* what the Client holds at its broker
    order,       \* the partial close in flight
    news,        \* volume_after of a clicker's closes whose events are not processed
    unsure,      \* a partial close has gone unanswered
    blind        \* history: a share was taken while a close was not in the book

vars == <<case, acct, opened, mlots, clots, held, order, news, unsure, blind>>

Unsized == [volume |-> 0, skip |-> "none", alerts |-> {}]

Init ==
    /\ case \in Cases /\ acct \in Accounts
    /\ opened = Unsized
    /\ mlots = 0 /\ clots = 0 /\ held = 0
    /\ order = NoOrder /\ news = <<>> /\ unsure = FALSE /\ blind = FALSE

\* _open_for_client, and the order is filled.
Open ==
    /\ opened = Unsized
    /\ opened' = ClientVolume(case, acct)
    /\ mlots' = case.master
    /\ clots' = opened'.volume /\ held' = opened'.volume
    /\ UNCHANGED <<case, acct, order, news, unsure, blind>>

\* _close_pair_partially: the Master's volume is written down first. Then a share of
\* the volume in the book is ordered; but not while a command is in flight, nor when
\* the share rounds to nothing or the order cannot be sent.
MasterClosesPart(delta) ==
    /\ clots > 0 /\ delta \in 1 .. mlots - 1
    /\ mlots' = mlots - delta
    /\ \/ /\ order = NoOrder
          /\ \E via \in Vias :
                order' = [lots |-> CloseShare(clots, delta, mlots, case.step), via |-> via]
          /\ order'.lots > 0
          /\ blind' = (blind \/ news # <<>> \/ unsure)
       \/ UNCHANGED <<order, blind>>
    /\ UNCHANGED <<case, acct, opened, clots, held, news, unsure>>

\* _roi_ve_ea_sau_rejected: what a clicker has rejected goes to the EA as it is.
FallBack ==
    /\ order.lots > 0 /\ order.via = "CLICKER"
    /\ order' = [order EXCEPT !.via = "EA"]
    /\ UNCHANGED <<case, acct, opened, mlots, clots, held, news, unsure, blind>>

\* The broker closes n of the lots in flight, all, some or none of them. Of a
\* clicker's close the EA then tells the volume that is left.
Filled(n) ==
    /\ order.lots > 0 /\ n <= order.lots /\ n <= held
    /\ held' = held - n
    /\ news' = IF order.via = "CLICKER" /\ n > 0 THEN Append(news, held - n) ELSE news
    /\ order' = NoOrder

\* on_close_acked, _sau_dong_bot: an EA's answer says how much was filled, and that
\* is taken off the book; a clicker's says nothing of it.
Acked(n) ==
    /\ Filled(n)
    /\ clots' = IF order.via = "CLICKER" THEN clots ELSE IF n < clots THEN clots - n ELSE 0
    /\ UNCHANGED <<case, acct, opened, mlots, unsure, blind>>

\* The answer is "unknown", or none comes before the deadline (on_close_timeout): the
\* pair keeps its status and its book. A fill after that deadline is taken here for one
\* before it: of the shares in between the model says nothing either way.
Unanswered(n) ==
    /\ Filled(n)
    /\ unsure' = TRUE
    /\ UNCHANGED <<case, acct, opened, mlots, clots, blind>>

\* on_client_close, _ghi_volume_con_lai: the volume the EA tells goes into the book.
HearOfClose ==
    /\ news # <<>>
    /\ clots' = IF clots = 0 THEN 0 ELSE Head(news)
    /\ news' = Tail(news)
    /\ UNCHANGED <<case, acct, opened, mlots, held, order, unsure, blind>>

Next ==
    \/ Open \/ FallBack \/ HearOfClose
    \/ \E delta \in 1 .. mlots : MasterClosesPart(delta)
    \/ \E n \in 0 .. held : Acked(n) \/ Unanswered(n)

Spec == Init /\ [][Next]_vars

-----------------------------------------------------------------------------
(* What the numbers must satisfy.                                            *)

\* Types; no share is more than what was opened.
TypeOK ==
    /\ case \in Cases /\ acct \in Accounts
    /\ opened.volume \in Nat /\ opened.alerts \subseteq {"WARNING", "INFO", "ERROR"}
    /\ mlots \in Nat /\ clots \in Nat /\ held \in Nat
    /\ order \in [lots : 0 .. opened.volume, via : Vias] /\ news \in Seq(Nat)
    /\ unsure \in BOOLEAN /\ blind \in BOOLEAN

\* A symbol's specification as a broker gives it.
SoundSpec == case.step > 0 /\ case.min > 0 /\ case.min % case.step = 0 /\ case.min <= case.max

\* An order that is sent has a volume its broker takes and every limit of the
\* account allows: the roundings of compute_client_volume come in an order in
\* which a later one does not undo an earlier one (sizing.py:170-226).
OrderIsAllowed ==
    opened.volume > 0 /\ SoundSpec =>
        /\ opened.volume % case.step = 0
        /\ opened.volume >= case.min /\ opened.volume <= case.max
        /\ ~Exceeds(opened.volume, acct.perOrder)
        /\ ~Exceeds(opened.volume + acct.total, acct.maxTotal)
        /\ ~Exceeds(acct.pairs + 1, acct.maxPairs)

\* An open nothing was said about has the nominal volume rounded to a step: the
\* two conversions and the division by the step, each in a decimal arithmetic that
\* is not exact, never cost a whole step more nor make the order larger than the
\* Master's (D-18: no volume is raised on its own).
OpenIsNominal ==
    opened.volume > 0 /\ opened.alerts = {} =>
        LET exact == 100 * Sizes(case)
            over == IF case.rounding = "NEAREST" THEN case.step * exact ELSE 0
        IN /\ 2 * opened.volume * exact <= 2 * Nominal(case) + over
           /\ opened.volume * exact > Nominal(case) - 2 * case.step * exact

\* The Client is never left smaller, against its first volume, than the Master is
\* against its own: every partial close is rounded down (closing.py:303), what the
\* Client has missed stays with it, and a share that goes to the EA is not taken
\* twice. It needs every share to be of what is held: of a clicker's close the book
\* knows only by the event (closing.py:511-517), and of an unanswered one not at all,
\* and a share taken before that is one of too much.
NeverOverClosed == ~blind => held * case.master >= opened.volume * mlots

=============================================================================
