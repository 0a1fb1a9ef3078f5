CONSTANTS
    Scopes = {s1, s2}
    Throttles = {quota, pin}
    PinOnly = {pin}
    Failures <- SomeFail
SPECIFICATION ThrottlerSpec
INVARIANTS ThrottlerTypeOK UndoKnown CleanAfterStop
