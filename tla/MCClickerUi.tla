---------------------------- MODULE MCClickerUi ----------------------------
EXTENDS ClickerUi

CONSTANTS EURUSD, XAUUSD

\* The Market Watch is in one order: symbols are told apart only by their row.

\* A position to close, one to close in part, the same with its volume lost, and a
\* symbol to open.
MCCommands ==
    {[type |-> "CLOSE_UI", target |-> 2, volume |-> "none"],
     [type |-> "CLOSE_UI_PARTIAL", target |-> 1, volume |-> "part"],
     [type |-> "CLOSE_UI_PARTIAL", target |-> 1, volume |-> "none"],
     [type |-> "OPEN_UI", target |-> EURUSD, volume |-> "lots"]}
=============================================================================
