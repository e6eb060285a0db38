SPECIFICATION Spec
CONSTANTS
    Texts = {t1}
    Empty = empty
    Passphrases = {p1, p2}
    Salts = {s1}
    None = none
    Short = short
    MaxCost = 1
CHECK_DEADLOCK FALSE
INVARIANTS RoundTrip ConfiguredLettersSealed RereadIsSafe
