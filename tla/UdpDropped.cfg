\* The clean-up of a session that has ended meets its successor.
SPECIFICATION Spec
CONSTANTS
    Peers = {p1}
    Targets = {d1}
    Sessions = {s1, s2}
    Modes = {FALSE}
    None = None
PROPERTIES
    ActiveNotDropped
CHECK_DEADLOCK FALSE
