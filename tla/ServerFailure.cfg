\* Two checkpoints on a device that may fall back to the cpu; two strikes.
SPECIFICATION Spec
CONSTANTS
    Checkpoints = {english, multilingual}
    Names = {english, multilingual, other}
    Blank = Blank
    Environments <- MCEnvironments
    Configured = cuda
    Cpu = cpu
    Mixed = mixed
    Hidden = hidden
    Nobody = Nobody
    Retries = 2
PROPERTIES EngineFailureIs503
