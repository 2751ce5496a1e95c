------------------------------- MODULE Hedge -------------------------------
(***************************************************************************)
(* What a user of the copier is promised about closing trades: a position of *)
(* a hedge is closed by a person, or by the Bridge for a cause the user can  *)
(* name. A Client follows its Master; the Master follows a Client that may   *)
(* close it, and the other Clients the Master; in an emergency everything    *)
(* goes. The cause has to hold when the Bridge decides: what it has decided  *)
(* on may happen later, in another mode, or not at all.                      *)
(***************************************************************************)
EXTENDS Naturals

CONSTANTS
    Clients, Master,
    MayCloseMaster,   \* Clients whose owner may end the hedge
    Lots              \* volume of every position

VARIABLES
    lots,             \* what the brokers hold
    opening,          \* Clients whose copy may still open
    hand,             \* how often a person has closed a position or a part of it
    handClosed,       \* Clients whose whole position a person has closed
    mode,             \* run_mode
    late,             \* a deal was reported too late to tell who made it
    due               \* closes decided on: the leg, and who is to blame (close_source)

vars == <<lots, opening, hand, handClosed, mode, late, due>>

Legs == Clients \cup {Master}

Init ==
    /\ opening \in SUBSET Clients
    /\ lots = [l \in Legs |-> IF l \in opening THEN 0 ELSE Lots]
    /\ hand = 0 /\ handClosed = {}
    /\ mode \in {"RUNNING", "PAUSED"}
    /\ late = FALSE /\ due = {}

Falls(l, n) == n \in 1 .. lots[l] /\ lots' = [lots EXCEPT ![l] = @ - n]

\* The copy opens, the one time it may.
Open(c) ==
    /\ c \in opening
    /\ opening' = opening \ {c}
    /\ lots' = [lots EXCEPT ![c] = Lots]
    /\ UNCHANGED <<hand, handClosed, mode, late, due>>

\* The copy is refused.
NotOpened(c) ==
    /\ c \in opening
    /\ opening' = opening \ {c}
    /\ UNCHANGED <<lots, hand, handClosed, mode, late, due>>

\* A person closes a position, or a part of it.
CloseByHand(l, n) ==
    /\ Falls(l, n)
    /\ hand' = hand + 1
    /\ handClosed' = IF l \in Clients /\ n = lots[l] THEN handClosed \cup {l} ELSE handClosed
    /\ UNCHANGED <<opening, mode, late, due>>

\* A Client after the Master; the hedge after a Client that may end it, or one of
\* which it cannot be told any more; everything.
Causes ==
    {<<c, "MASTER">> : c \in {d \in Clients : mode # "PAUSED" /\ lots[Master] < Lots}}
    \cup {<<l, "CLIENT">> : l \in {k \in Legs :
              mode # "PAUSED" /\ (handClosed \cap MayCloseMaster # {} \/ late')}}
    \cup {<<l, "BOT">> : l \in {k \in Legs : mode = "EMERGENCY"}}

\* The Bridge decides on closes for which there is a cause, and may drop others.
Decide ==
    /\ late' \in {late, TRUE}
    /\ due' \in SUBSET (due \cup Causes)
    /\ UNCHANGED <<lots, opening, hand, handClosed, mode>>

\* The Bridge closes a Client's position, or a part of it: after the Master's, whole
\* if the Master went for another Client, unless there is an emergency.
ClientFollows(c, n) ==
    /\ \/ <<c, "MASTER">> \in due /\ lots[Master] < Lots
       \/ <<c, "CLIENT">> \in due /\ lots[Master] = 0
       \/ <<c, "BOT">> \in due
    /\ Falls(c, n)
    /\ due' \in SUBSET due
    /\ UNCHANGED <<opening, hand, handClosed, mode, late>>

\* The Bridge closes the Master's whole position.
MasterFollows ==
    /\ {<<Master, "CLIENT">>, <<Master, "BOT">>} \cap due # {}
    /\ Falls(Master, lots[Master])
    /\ due' \in SUBSET due
    /\ UNCHANGED <<opening, hand, handClosed, mode, late>>

\* A person sets the mode.
SetMode ==
    /\ mode' \in {"RUNNING", "PAUSED", "EMERGENCY"}
    /\ UNCHANGED <<lots, opening, hand, handClosed, late, due>>

\* The Bridge starts again, PAUSED, and may have forgotten what it had decided.
Restart ==
    /\ mode' = "PAUSED"
    /\ due' \in SUBSET due
    /\ UNCHANGED <<lots, opening, hand, handClosed, late>>

Next ==
    \/ \E c \in Clients : Open(c) \/ NotOpened(c)
    \/ \E l \in Legs, n \in 1 .. Lots : CloseByHand(l, n)
    \/ \E c \in Clients, n \in 1 .. Lots : ClientFollows(c, n)
    \/ Decide \/ MasterFollows \/ SetMode \/ Restart

Spec == Init /\ [][Next]_vars
=============================================================================
