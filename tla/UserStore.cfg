\* Refused statements, broken connections, kills, wrong names: everything may fail.
CONSTANTS
    Id = {i1, i2}
    Name = {n1, n2}
SPECIFICATION Spec
INVARIANTS
    TypeOK
    UniqueIds
    MemoryMatchesTable
    TablesAgree
    PromiseKept
    NoOpenTransaction
