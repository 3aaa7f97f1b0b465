SPECIFICATION TypesSpec
CONSTANTS
    i1 = i1
    i2 = i2
    A = A
    B = B
    C = C
    Zero = Zero
    Interp <- TwoInterps
    Module <- ThreeModules
    Names <- NamesApart
    Row <- Apart
    Class <- NoClasses
    Equivalent <- SameName
INVARIANTS
    SearchesEnd
