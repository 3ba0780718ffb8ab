SPECIFICATION Spec
CONSTANTS
    r1 = r1
    r2 = r2
    a = a
    b = b
    o = o
    p = p
    s = s
    page1 = page1
    all = all
    u = u
    v = v
    c = c
    t = t
    n = n
    None = None
    Nil = Nil
    Nothing = Nothing
    Torn = Torn
    Readers = {r1, r2}
    Sources = {o, p}
    Written <- OneEach
    Unparsable = {2}
    MaxWrites = 3
    Editors = {r1, r2}
    Templates = {t}
    Copies = {c}
    Texts = {u, v, Torn}
    Valid = {u, v}
    Pages = {r1, r2}
    Experiments = {s}
    Notes = {a, b}
    MaxRevision = 2
    Threads = {r1, r2}
    Compared = {a, b}
    Unreadable = {2}
    Views = {all, page1}
    All = all
    MaxSources = 2
    MaxMemo = 1
    MaxVersions = 3
    Absent = Absent
    ConfigFiles = {c}
    Results = {o, p}
    Cases = {s}
    CaseOf <- OfOne
    Jobs = {r1, r2}
    Output <- WritesOne
    Polls = {a, b}
    MaxPosts = 1
    MaxAsked = 2
    Blank = Blank
SYMMETRY Symmetry
INVARIANTS
    EntriesHonest
    AnswersAreSnapshots
    CopiesHaveOrigins
    ShownBelongs
    AnswersAwaited
    RunGate
PROPERTIES
    ImplementsFreshRead
    NoLostEdit
    NoLostNote
    RefreshKeepsChoice
CHECK_DEADLOCK FALSE
