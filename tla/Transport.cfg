SPECIFICATION FairSpec
CONSTANT Fds = {3, 4, 5}
INVARIANTS TypeOK OnlyBrokenLeaks LogAgreesWithSocket LogAlternates RecoveryBound
PROPERTIES BrokenLinkIsNoticed Reconnects
