SPECIFICATION Spec
CONSTANTS
    Instances = {t1, t2}
    Events = {e1}
    Hooks = {h1}
    Members = {m1}
    Subscribed <- Everything
    Assignee <- TheMember
    Retries = 1
    MaxAttempts = 2
    MaxToggles = 1
    MaxFaults = 1
    None = None
CHECK_DEADLOCK FALSE
INVARIANTS
    AttemptSentOnce
    CopiesAreCounted
PROPERTIES
    HeldIsUntouched
    EventSettles
    MailSettles
