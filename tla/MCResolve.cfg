SPECIFICATION Spec
CONSTANTS
    Names <- MCNames
    Builtins <- MCBuiltins
    BuiltinEnums <- MCBuiltinEnums
    Inputs <- MCAll
INVARIANTS
    ResolvesToNearest
    ApartMeansTheSame
CHECK_DEADLOCK FALSE
