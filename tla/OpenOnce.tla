------------------------------ MODULE OpenOnce ------------------------------
(***************************************************************************)
(* What a user of the copier is promised about opening trades, whatever      *)
(* happens to messages, terminals and the Bridge: a Master position is       *)
(* copied to a Client at most once, and the pair is only called OPEN when    *)
(* the copy exists. CommandDelivery implements this.                         *)
(***************************************************************************)
EXTENDS Naturals

CONSTANTS
    Intents,       \* pairs to open: one Master position for one Client
    OkIsOpen       \* does the agent's "ok" say that the position exists?

VARIABLES
    book,          \* what the Bridge writes about the pair
    market         \* positions the Client's broker holds for it

vars == <<book, market>>

Init == book = [i \in Intents |-> "none"] /\ market = [i \in Intents |-> 0]

\* The Bridge decides to copy.
Ask(i) ==
    /\ book[i] = "none"
    /\ book' = [book EXCEPT ![i] = "PENDING_OPEN"]
    /\ UNCHANGED market

\* The broker opens the position, the one time it may. The Bridge may have
\* written the pair off by then.
Execute(i) ==
    /\ book[i] # "none" /\ market[i] = 0
    /\ market' = [market EXCEPT ![i] = 1]
    /\ UNCHANGED book

\* The Bridge calls the pair hedged.
Confirm(i) ==
    /\ book[i] = "PENDING_OPEN" /\ OkIsOpen /\ market[i] = 1
    /\ book' = [book EXCEPT ![i] = "OPEN"]
    /\ UNCHANGED market

\* The Bridge stops trying.
GiveUp(i) ==
    /\ book[i] = "PENDING_OPEN"
    /\ book' = [book EXCEPT ![i] = "OPEN_FAILED"]
    /\ UNCHANGED market

Next == \E i \in Intents : Ask(i) \/ Execute(i) \/ Confirm(i) \/ GiveUp(i)

Spec == Init /\ [][Next]_vars
=============================================================================
