SPECIFICATION LineSpec
CONSTANTS
    Height80 = 2
    Height132 = 3
    Text = {t1, t2}
    Message = {m1, m2}
    Blank = Blank
    Debris = Debris
    Nothing = Nothing
INVARIANTS LineTypeOK MessageNeedsLight
PROPERTIES OneErrorIsUndone
