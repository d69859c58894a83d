\* Two accounts under two requests; two providers, browsers, logins and callbacks;
\* two edits of a key of two models; two edits of two models; two reads and two writes
\* of a family of settings.
SPECIFICATION MCSpec
CONSTANTS
    Users = {a, b}
    Calls = {c1, c2}
    LoginLockThreshold = 2
    MaxEdits = 2
    Slugs = {a, b}
    Browsers = {a, b}
    Subjects = {s1}
    Visits = {c1, c2}
    MaxId = 2
    MaxToken = 2
    MaxPeople = 2
    Models = {a, b}
    Edits = {c1, c2}
    Requests = {r1}
    MaxInstant = 3
    ModelNames = {a, b}
    ModelIds = {1, 2}
    Editors = {c1, c2}
    Families = {"custom_system_prompt", "input_compression", "vision_fallback",
                "key_auto_recovery", "request_log_retention", "admin_audit_retention",
                "outbound_proxy", "capability_enforcement"}
    Lookups = {a, b}
    Puts = {c1, c2}
    MaxVersion = 3
SYMMETRY MCSymmetry
CHECK_DEADLOCK FALSE
INVARIANTS
    AccountsAreSound
    LoginsAreSound
    KeysAreKept
    SettingsAreHonest
PROPERTIES
    LocksAreEarned
    EditsReplaceWhatTheyRead
    EditsChangeWhatTheyAsk
