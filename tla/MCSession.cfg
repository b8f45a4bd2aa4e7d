CONSTANTS
    Capabilities <- MCCapabilities
    MaxCaps = 2
    MaxTokens = 13
    Idents = {u1}
    BackendAcls <- MCBackendAcls
    RightsArgs <- MCRightsArgs
    MayArgs <- MCMayArgs
SPECIFICATION Spec
INVARIANTS
    TypeOK
    SelectParseComplete
    GetAclShowsEveryGrant
    EnableSuccessfulAppliedAll
PROPERTY
    SelectResponseFollowsSession
