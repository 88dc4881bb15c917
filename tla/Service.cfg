\* Options up to 4, levels from 2 to 3, states of up to three tokens; a key is
\* configured, bodies are of up to two bytes.
SPECIFICATION ServiceSpec
CONSTANTS
    MaxOptions = 4
    MinLevels = 2
    MaxLevels = 3
    Jev = jev
    English = english
    Multilingual = multilingual
    Unknown = unknown
    None = None
    JevModels <- MCJevModels
    LayaModels <- MCLayaModels
    ModelNames <- MCModelNames
    AuthEnabled = TRUE
    Limit = 2
    Absent = Absent
    Inputs <- MCInputs
    Requests <- ServiceRequests
    Arrivals <- MCArrivals
INVARIANTS ServiceTypeOK OnlyServableIsServed ServableIsNotRefused FirstProblemIsNamed
           OverloadIsWorthRetrying ReplyIsJevs CatalogIsTrue
CHECK_DEADLOCK FALSE
