CONSTANTS
    N = 3
    Tags <- MCTags
    Immutables <- MCImmutables
    Libraries <- MCLibraries
    Addresses <- MCAddresses
    Programs <- MCPrograms
SPECIFICATION Spec
INVARIANTS
    ReferencesExact
    LinksCoverUses
    CopiesFaithful
    FailsOnlyForCause
