SPECIFICATION FairSpec
CONSTANT Fds = {3, 4}
PROPERTY SendsWhenServerListens
