SPECIFICATION Spec
CONSTANTS
    e1 = e1  e2 = e2
    s1 = s1  s2 = s2
    None = None
    Ids = {e1}
    First = e1
    Slots = {s1, s2}
    MaxVersion <- OnceFirst
    MaxAgain <- OnceFirst
    MaxLate <- Never
    MaxFailures = 0
    Buttons = {"rerun"}
CHECK_DEADLOCK FALSE
INVARIANT PollsWhileActive
