\* Three requests of every kind, the first a start.  The second may be a start, an OFF
\* or a cancel that overlaps it, the third an OFF that overlaps both; every other
\* request arrives once those before it are served.  One fault.
SPECIFICATION FairSpec
CONSTANTS
    Requests <- ThreeRequests
    Kinds <- AllKinds
    Runner = runner
    None = none
    Overlap <- SomeOverlap
    MaxFaults = 1
\* Requests end and nothing more arrives.
CHECK_DEADLOCK FALSE
INVARIANTS
    TypeOK
PROPERTIES
    CancelledStaysCancelled
    ReplacementSettles
    StartSettles
