\* Two processes, two calls, an admin who disconnects and another grant to
\* come; one fault, expiry or crash anywhere.
SPECIFICATION Spec
CONSTANTS
    Servers = {s1, s2}
    Calls = {c1, c2}
    Admins = {a1}
    Grants = {g1, g2}
    FirstGrant = g1
    NoConnection = NoConnection
    NoToken = NoToken
    MaxAttempts = 2
    MAX_TOKEN_ATTEMPTS = 2
    MaxFaults = 1
SYMMETRY CallSymmetry
INVARIANTS TokenTypeOK FreshAfter401 NoServiceWhenCutOff RemovedStaysRemoved RowMatchesCredential NobodyLeftWaiting
