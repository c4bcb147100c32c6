\* Three callers, two providers, caps of none, one and two slots.
SPECIFICATION FairSlots
CONSTANTS
    Caller = {c1, c2, c3}
    Provider = {opencode, gemini}
    Cap <- MCCap
INVARIANTS
    AdmissionIsExact
PROPERTIES
    WaitersSettle
    KeepsLimit
