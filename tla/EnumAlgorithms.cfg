\* Declarations stop once the var blocks of package init have run:
\* a final state without successors is the registry's normal end.
CONSTANTS
    Types = {A, B}
    Strs = {s1, s2, s3}
    Ints = {0, 1, 2, 4}
    Empty = Empty
    d1 = d1
    Nil = Nil
    Panic = Panic
    Width = 3
    MaxDecls = 3
    Name <- MCName
    Displays <- MCDisplays
SPECIFICATION Spec
INVARIANT TypeOK
INVARIANT LookupsAgree
INVARIANT StringsInOrder
INVARIANT DictAgrees
INVARIANT BitsRoundTrip
CHECK_DEADLOCK FALSE
