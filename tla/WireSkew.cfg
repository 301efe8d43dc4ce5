\* One call between any two of the builds 0.20, 0.21, 0.23 and 0.24.
SPECIFICATION Spec
CONSTANTS
    MaxSeed = 24
    MaxPackageSeed = 160
INVARIANTS
    NothingMisread
    SameBuildDelivers
    InstallAcrossBuilds
