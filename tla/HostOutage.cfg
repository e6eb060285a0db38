SPECIFICATION Spec
CONSTANTS
    Getter = getter
    Returners = {r1}
    NoOne = noOne
    MaxDials = 3
    MaxOutages = 0
    MaxNotices = 0
    MaxRefusals = 0
PROPERTY OutagePausesUntilCleared
