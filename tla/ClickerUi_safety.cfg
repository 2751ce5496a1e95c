SPECIFICATION Spec
CONSTANTS
    EURUSD = EURUSD XAUUSD = XAUUSD Spare = Spare Nobody = Nobody
    Commands <- MCCommands
    Held = {1, 2}
    Later = {3}
    Symbols = {EURUSD, XAUUSD}
    MayHappen = {"expired", "no terminal", "account", "no list", "leftover", "moves", "stuck", "hung", "late", "unread", "typing", "shape", "post", "breaks", "crash", "caption", "deaf"}
    MaxUpsets = 2
INVARIANT PressedIsRight
INVARIANT UntouchedIsTrue
PROPERTY ClosedUnlessFooled
CHECK_DEADLOCK FALSE
