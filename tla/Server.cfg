\* Two checkpoints on a device that may fall back to the cpu; two strikes.
SPECIFICATION FairSpec
CONSTANTS
    Checkpoints = {english, multilingual}
    Names = {english, multilingual, other}
    Blank = Blank
    Environments <- MCEnvironments
    Configured = cuda
    Cpu = cpu
    Mixed = mixed
    Hidden = hidden
    Nobody = Nobody
    Retries = 2
INVARIANTS TypeOK OpensWithCheckpoints ReadyOnceOpen DowngradeIsShown BusyStaysHealthy
PROPERTIES StartupEnds ServingGetsHealthy
