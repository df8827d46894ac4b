SPECIFICATION Spec
CONSTANTS
    c1 = c1  c2 = c2
    Absent = Absent
    Calls <- MCCalls
    Setups <- MCSetups
CHECK_DEADLOCK FALSE
INVARIANTS TypeOK AnswersMatchRows ForgottenWereDecided AbandonedAreOutOfPool ApprovedBeforeRun EffectsHappenOnce
PROPERTIES RowsAreFinal RowsAreDecided CallsEnd
