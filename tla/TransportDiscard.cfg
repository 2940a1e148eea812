SPECIFICATION Spec
CONSTANT Fds = {3, 4}
INVARIANT DiscardOnlyWhenUnreachable
