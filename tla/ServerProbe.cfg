CONSTANTS
    Callers = {c1, c2}
    Names = {n1, n2, n3}
    NoName = NoName
    Specs <- SomeSpecs
    Secrets <- SomeSecrets
SPECIFICATION FairSpec
INVARIANTS TypeOK FilesInPlace
PROPERTIES ImplementsContract Returns
