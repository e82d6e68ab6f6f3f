SPECIFICATION Spec
CONSTANTS
    Path <- MCPath
    Root = "root"
    Parent <- MCParent
    Outside = "outside"
    Text = {"t1", "t2"}
    Server = {1, 2}
    OtherTool = {"x"}
    Ref <- MCRef
    RefOf <- MCRefOf
    Registered <- MCRegistered
    NoServer = 0
INVARIANTS
    CallsGoWhereOffered
PROPERTIES
    ChangesAreDeclared
