SPECIFICATION Spec
CONSTANTS
    k1 = k1
    k2 = k2
    a1 = a1
    a2 = a2
    a3 = a3
    Key <- MCKey
    Attempt <- MCAttempt
    KeyOf <- MCKeyOf
    NoKey = NoKey
    MaxVersion = 3
    PromptDispatch = TRUE
SYMMETRY Symmetry
CHECK_DEADLOCK FALSE
INVARIANTS
    TypeOK
    FailedMeansNotApplied
    UncertainOfferFlagged
    ReconciledOnEvidence
    DispatchIsSound
PROPERTIES
    NoBlindResend
    
