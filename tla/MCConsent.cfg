\* Two browsers, two flows and two callbacks at a time, an admin who
\* disconnects, and one fault; the calls that use the connection are left out.
SPECIFICATION FlowSpec
CONSTANTS
    Servers = {s1}
    Calls = {}
    Admins = {a1}
    Grants = {g1, g2, g3}
    FirstGrant = g1
    NoConnection = NoConnection
    NoToken = NoToken
    MaxAttempts = 1
    MAX_TOKEN_ATTEMPTS = 2
    MaxFaults = 1
    Browsers = {b1, b2}
    MaxFlows = 2
    Callbacks = {k1, k2}
SYMMETRY FlowSymmetry
INVARIANTS StoredByItsFlow NeverComesBack
