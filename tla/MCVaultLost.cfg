SPECIFICATION Spec
CONSTANTS
    c1 = c1
    c2 = c2
    n1 = n1
    u1 = u1
    s1 = s1
    s2 = s2
    empty = empty
    Client = {c1, c2}
    Name = {n1}
    Url = {u1}
    Secret = {s1, s2}
    Empty = empty
    Operation = {"set", "rotate"}
    None = None
    MaxVersion = 2
PROPERTIES
    RotationKeepsReplaced
