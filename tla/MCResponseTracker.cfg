\* m1 asks for receipts and specific responses but not for opt-outs, so an
\* opt-out is downgraded and, under 2018, collapses onto 252; m2 asks for
\* every response but has no replyTo, so its responses are gated.
SPECIFICATION FairSpec
CONSTANTS
    NoCaller = NoCaller
    Callers = {c1, c2, c3}
    Mrids = {m1, m2}
    Lfdis = {d1}
    ReceivedAsked = {m1, m2}
    SpecificAsked = {m1, m2}
    EnduserAsked = {m2}
    ReplyTo = {m1}
    AskedCodes = {"ACKNOWLEDGED", "OPT_OUT", "NOT_APPLICABLE"}
    Is2018 = TRUE
    MaxTime = 1
    MaxAge = 0
    MaxCalls = 1
    MaxRepeats = 1
INVARIANTS
    TypeOK
    NoDuplicateResponse
    SkippedWasDelivered
PROPERTIES
    ClaimHeldUntilOutcome
    EveryCallReturns
    ImplementsResponseOnce
CHECK_DEADLOCK FALSE
