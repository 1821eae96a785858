SPECIFICATION Spec
CONSTANTS
    Actions = {a1, a2}
    Executors = {e1, e2}
    NoAction = NoAction
    MaxChanges = 2
SYMMETRY Alike
INVARIANTS MailTypeOK SentOnce
PROPERTIES SendIsPermitted IsOneEffect
CHECK_DEADLOCK FALSE
