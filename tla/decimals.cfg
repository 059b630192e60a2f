SPECIFICATION Spec
CONSTANTS
    Unscaled <- UnscaledValues
    Scales <- DecimalScales
INVARIANTS TypeOK ShortDecimalsArrive NonNegativeNeverMisread
