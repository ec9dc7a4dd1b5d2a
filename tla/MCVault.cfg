SPECIFICATION Spec
CONSTANTS
    c1 = c1
    c2 = c2
    n1 = n1
    n2 = n2
    u1 = u1
    s1 = s1
    empty = empty
    Client = {c1, c2}
    Name = {n1, n2}
    Url = {u1}
    Secret = {s1, empty}
    Empty = empty
    Operation = {"set", "rotate", "delete", "use", "export", "import"}
    None = None
    MaxVersion = 2
SYMMETRY Symmetry
INVARIANTS
    TypeOK
    BackupKeyWasInUse
    BackupKeyHasVersion
    ReadsAreCurrent
    ImportRestores
PROPERTIES
    UndisturbedIsAtomic
