SPECIFICATION Spec
CONSTANTS
    c1 = c1
    c2 = c2
    safe = safe
    flawed = flawed
    None = None
    Components = {c1, c2}
    Packages = {safe, flawed}
    PackageOf <- TwoPackages
    Vulnerable = {flawed}
    DeleteOnHold = TRUE
    MaxFaults = 1
    MaxOutages = 1
    Operators = {o1}
    MaxRequests = 2
    NexusFails = TRUE
    MaxRestarts = 1
    Offered = {"edit", "grant", "unticket", "revoke", "promote", "reset"}
INVARIANTS NoStaleVerdict ApprovedHasWarrant
 
