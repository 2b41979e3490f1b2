\* A table that begins with two slots, fingerprints that collide in small tables.
CONSTANTS
    Fingerprint = {1, 3, 4, 7}
    MinSize = 2
    Slack = 1
    MaxDocs = 5
SPECIFICATION Spec
INVARIANTS LookupIsExact HalfEmpty
