SPECIFICATION Spec
CONSTANT Minimums = {0, 3, 4, 5, 6}
INVARIANT AutoPublishIsEarned
PROPERTY NeverLoosens
