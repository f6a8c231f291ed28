SPECIFICATION EnrollSpec
CONSTANTS
    Codes = {c1}
    Nodes = {n1, n2}
    Requests = {r1, r2}
    MaxHost = 3
INVARIANT CertMatchesRow
PROPERTY CodesAreOneShot
