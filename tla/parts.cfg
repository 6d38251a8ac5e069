SPECIFICATION PartsSpec
CONSTANTS
    CIDChars = {"a", "b"}
    NonceChars = {"a", "b", "w"}
    OtherChars = {"x"}
    CIDLength = 2
    MinNonceLength = 2
    Modes = {"host", "everywhere", "ldap"}
    Inputs <- MCInputs
    Registries <- MCRegistries
    MaxChanges = 1
    Addresses = {a, bare, bad}
    Bare = {bare}
    Malformed = {bad}
    MaxRecipients = 2
    TeeMax = 5
    MaxLines = 6
    MaxAhead = 3
    None = None
    Domains <- MCDomains
    Width <- MCWidth
    Names <- MCNames
    IPv4 = {"v4"}
    IPv6 = {"v6"}
    OperatorFiles <- MCFiles
    Statuses = {0, 99, 200, 302}
    Values = {"url", "host"}
    Absent = Absent
    NoCounter = NoCounter
    NotANumber = NotANumber
    Consumers = {a, b}
    MaxBuffer = 2
    EvictionTTL = 2
    CleanupInterval = 1
    MaxAppends = 6
    MaxTime = 4
    MaxReceived = 12
    Enabled = {"uaTracker", "resolveIPs", "DNS-UDP", "DNS-TCP", "provisionTLS", "loadHTTPFiles",
               "HTTP", "HTTPS", "SMTP", "FTP"}
    Requests = {r1}
    MaxFailures = 1
    Nobody = Nobody
    Agents = {u1, u2}
    Records = {n1, n2, n3}
    Threshold = 2
    MaxWindows = 3
    DefaultServers <- MCDefaults
    FallbackServers <- MCFallbacks
    ServerLists <- MCLists
    ByURL = {"u2"}
    PlainHTTP = {"u2"}
    AddressBooks <- MCAddressBooks
    Lengths <- MCLengths
    MaxRuns = 2
    MaxArrivals = 2
    Counts = {0, 1}
    NoID = NoID
    Unreadable = Unreadable
INVARIANTS
    MatchesSound
    MatchesComplete
    OwnTransactionOnly
    WellSpacedIsComplete
    CertificateFits
    HandedOutResolves
    UnauthenticatedRedirectsOnly
    InOrderOnce
    ShutdownClosesAll
    AnsweredIsStored
    ReportedOnce
    OnlyRacingIsDropped
    ReturnedClientWorks
    NamesConsidered
    FileKeepsCollecting
    SuccessMeansCount
