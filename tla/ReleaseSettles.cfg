SPECIFICATION FairSpec
CONSTANTS
    c1 = c1
    c2 = c2
    safe = safe
    flawed = flawed
    None = None
    Components = {c1, c2}
    Packages = {safe, flawed}
    PackageOf <- TwoPackages
    Vulnerable = {flawed}
    DeleteOnHold = FALSE
    MaxFaults = 1
    MaxOutages = 0
    Operators = {o1}
    MaxRequests = 2
    NexusFails = FALSE
    MaxRestarts = 0
    Offered = {"edit", "grant", "unticket", "revoke", "promote"}
PROPERTIES JudgedUnderCurrentPolicy 
