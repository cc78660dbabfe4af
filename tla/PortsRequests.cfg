SPECIFICATION Spec
CONSTANTS
    d1 = d1  d2 = d2
    Requests = {r1, r2, r3}
    MaxId = 3
    MaxPort = 4
    Cloudflare <- MCCloudflare
    Foreign = {4}
    Domains <- MCDomains
    None = None
    InitStates <- MCStates
    Inputs <- MCInputs
SYMMETRY Interchangeable
INVARIANTS EnabledMatches PortsFit StartPortPacks
