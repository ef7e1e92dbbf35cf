\* One user is enough: the connection breaks before the commit.
CONSTANTS
    Id = {i1}
    Name = {n1}
SPECIFICATION Spec
INVARIANT RegistOkIsStored
