CONSTANTS
    r1 = r1
    r2 = r2
    one = one
    other = other
    Request = {r1, r2}
    Rule = {ra, rb}
    Matcher = {one, other}
    Verdict <- MCVerdict
    MaxRules = 2
    MaxMatchers = 2
SPECIFICATION Spec
INVARIANT FirstMatchWins
INVARIANT HandledByAMatch
INVARIANT PassedOnlyIfRefused
PROPERTY EveryRequestIsDecided
CHECK_DEADLOCK FALSE
