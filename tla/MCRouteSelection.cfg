\* Two models with two routes each; health may change between any two steps.
SPECIFICATION Spec
CONSTANTS
    freeA = freeA
    authA = authA
    userB = userB
    authB = authB
    modelA = modelA
    modelB = modelB
    Route <- MCRoute
    ModelOf <- MCModelOf
    Model = {modelA, modelB}
    NoModel = NoModel
    Access <- MCAccess
    Policy <- MCPolicy
    Catalogs <- MCCatalogs
    Capable <- MCCapable
INVARIANTS
    ListIsSound
    NothingUsableIsLost
