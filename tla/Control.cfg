SPECIFICATION PlaneSpec
CONSTANTS
    s1 = s1
    SecretProviders = {"vault"}
    SecretRefs = {s1}
    ProviderOf <- MCProviderOf
    Intents = {"pull", "probe"}
    ProviderContents <- MCContents
    ReferenceIntents <- MCIntents
    GeneratedIntents = {"probe"}
    MaxChain = 2
    Correlations = {"c1"}
    Bootstrapped = {s1}
    Stored = {}
    NoUse = NoUse
    Descriptor <- MCDescriptor
    Interpreters = {"docker"}
    NoAuthority = NoAuthority
    Topologies <- MCTopologies
    RegistryRows <- MCRows
    GraphOf <- MCGraphOf
    Assignments <- MCAssignments
    TlsAuthorities = {"docker"}
    Admitted <- MCAdmitted
    MaxAdmissions = 2
    NoContext = NoContext
    IngressEffects = {1, 2, 3, 4}
    MaxEpochs = 2
    ControlCommands <- MCCommands
    Revisions <- MCRevisions
    ControlGraph <- MCControlGraph
    ControlKeys <- MCKeys
    ControlVariables <- MCVariables
    GrantLifetime = 1
    MaxControlTime = 1
    MaxChanges = 1
    NoCodec = NoCodec
    PagedCollections <- MCCollections
    RowIds = {1, 2, 3}
    PageScopes = {"p", "q"}
    PageLimits = {2}
    MaxInstant = 2
    ServiceCommands <- MCServiceCommands
    EvidenceAttempts <- MCEvidenceAttempts
    Contracts <- MCContracts
    ProviderAnswers <- MCProviderAnswers
    ObserverAnswers <- MCObserverAnswers
    EvidenceWorkers = {"w1"}
    MaxEvidenceFence = 2
    MaxAuthorityRow = 2
    MaxInspections = 1
    NoEvidence = NoEvidence
CHECK_DEADLOCK FALSE
CONSTRAINTS CallsInOrder FewRegistrations LateAuthority
INVARIANTS
    ControlTypeOK
    AttemptsKeepTheirRequest
    RolloutIsSafe
    RolloutEndsInAGraph
    RequestsMaterialize
    IngressOutcomesAreTrue
    ControlCommandsAreExact
    PagesCoverOnce
    RepliesAreTheCommandsOwn
    EvidenceReadsBack
PROPERTIES
    UsesRestOnActive
