SPECIFICATION Spec
CONSTANTS
    spy = spy
    dia = dia
    monday = monday
    tuesday = tuesday
    Symbols = {spy, dia}
    Sessions = {monday, tuesday}
    Declared = {}
    Core = {spy}
    Workers = {w1, w2}
    Paths = {p1, p2}
    Overwritable = {p1}
    Archives <- FewArchives
    Nothing = Nothing
    MaxCommands = 3
    MaxEditions = 2
SYMMETRY Alike
CHECK_DEADLOCK FALSE
INVARIANT PublishedIsClean
PROPERTY SnapshotIsItsArchive
PROPERTY TemporariesAreRemoved
PROPERTY StoreSpec
