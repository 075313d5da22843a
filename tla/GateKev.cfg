SPECIFICATION Spec
CONSTANTS
    app = app
    lib = lib
    dep = dep
    leaf = leaf
    osv = osv
    malware = malware
    None = None
    Packages = {app, lib, dep, leaf}
    Root = app
    DependsOn <- Graph
    MaxTreeDepth = 2
    Feeds = {osv, malware}
    Available = {osv, malware}
    Failures = {"Errored"}
    Advisories <- Reported
    Worlds <- KnownAliased
    Policies <- Shipped
    Weights <- ModelFiles
INVARIANT KevIsBlocked
