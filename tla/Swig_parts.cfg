SPECIFICATION SwigSpec
CONSTANTS
    Parts = {"conditionals", "expressions", "wrapper", "overload", "typemaps", "fragments",
             "types", "python", "ruby", "directors", "java", "names", "macros", "classes",
             "symbols"}
    Sym = {X}
    SWIGIMPORTED = SWIGIMPORTED
    CondLines = 3
    MaxLine = 7
    MaxDepth = 2
    Unary = {"neg", "!", "plus"}
    MaxTokens = 5
    MaxParms = 2
    precedence <- Precedences
    Derived <- Inheritance
    Argument <- Arguments
    typecheck <- Typechecks
    Checks <- Passing
    MaxArgs = 2
    Signature <- Declarations
    nnodes = 3
    TmapMethod = {"in", "check"}
    TmapCode = {"c1", "c2"}
    SwigType <- Types
    Name = {"", "x"}
    Resolved <- Resolutions
    OwnTypes <- OfOwnTypes
    DefaultTypes <- OfDefaultTypes
    Parms <- OfDirectives
    Asked <- OfFunctions
    MaxDirectives = 3
    Frag = {"a", "b", "c"}
    Kwargs <- FragKwargs
    Lists <- FragLists
    MaxAsked = 2
    mA = mA
    mB = mB
    mC = mC
    mD = mD
    Interp = {interp}
    Module <- Modules
    Zero = Zero
    Names <- TypeNames
    Row <- Rows
    Equivalent <- Typedefs
    Class <- Classes
    PyObj = {o1, o2, o3}
    Inst = {i1, i2}
    This = {s1, s2, s3}
    MaxBases = 2
    ArgsFail = FALSE
    NULL = NULL
    Null = Null
    Address = {p1, p2}
    Val = {v1, v2, v3}
    RubyType = {cls}
    BadArgs = FALSE
    Nil = Nil
    PyThread = {pythread}
    CThread = {cthread}
    None = None
    MaxFrames = 5
    MaxNames = 1
    Obj = {o1, o2}
    Proxy = {q1, q2}
    JavaThread = {thread1, thread2}
    Finalizer = finalizer
    MaxCalls = 2
INVARIANTS
    TypesOK
    ImportedMarked
    EvaluatorRight
    CallsRelease
    FastIsRight
    MostSpecific
    SearchIsRight
    NeedsFirst
    TablesAgree
    ClassesAreShared
    SearchesEnd
    OneOwner
    DestroyedOnce
    TrackingRight
    LockIsRight
    OverridesRun
    ProtectedOutside
    JavaDestroysOnce
    JavaUpcallsArrive
    NamesRight
    ExpandsAsC
    ClassesRight
    OverloadsRight
PROPERTIES
    ImplementsConditionals
CHECK_DEADLOCK FALSE
