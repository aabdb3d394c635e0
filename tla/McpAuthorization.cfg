CONSTANTS
    q1 = q1
    s1 = s1
    s2 = s2
    t1 = t1
    Requests <- MCRequests
    Settings <- MCSettings
    NewMode <- MCNewMode
    TokenCalls <- MCTokenCalls
    Disables <- MCTokenCalls
    Actor = Actor
    Nobody = Nobody
    FirstMode = "confirm"
    SceneValues <- MCScene
    MaxDisturbances = 2
    MaxPending = 1
    MaxDialogs = 2
SPECIFICATION FairSpec
INVARIANTS
    RevokedStaysOut
    ConfirmationBinds
PROPERTIES
    StartsUnderCurrentPolicy
    RequestSettles
