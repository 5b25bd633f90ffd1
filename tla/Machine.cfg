CONSTANTS
    Pais = {p1, p2}
    Original = {p1}
    Nested = {p1}
    Odd = {}
    Editors = {e1, e2, e3}
    Setter = e3
    Edits = 2
    FleetBoots = 2
    Slugs = {d1, d2}
    DefaultOff = {d2}
    DriverSteps = 5
    app = app
    drv = drv
    lib = lib
    Bundles = {app, drv, lib}
    Deps <- DepsChain
    PaiBundles = {app}
    Reloading = {drv}
    Shells = {s1, s2}
    Editions = 2
    PackageRuns = 2
    Versions = {v1, v2}
    Oldest = v1
    Kernels = {k1, k2}
    UpdateFlags = {{}, {"no_restart"}, {"no_reprovision"}}
    ReleaseSteps = 3
    Topics = {fleet, rows}
    Gated = {fleet}
    Polled = {fleet, rows}
    Clients = {c1}
    HubChanges = 3
    HubQueue = 1
SPECIFICATION Spec
INVARIANTS
    MachineTypeOK
    QuietMirrors
    ShowsDisk
    NoSilentSkew
    PanelTruth
    Converged
    KernelFollows
CHECK_DEADLOCK FALSE
