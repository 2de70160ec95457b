CONSTANT CPUs = {p, q, r, s}
SPECIFICATION FairSpec
INVARIANTS ReleaseNeverFails SuccessExcludes LockedByOne
PROPERTY SomebodyEnters
