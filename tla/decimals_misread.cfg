SPECIFICATION Spec
CONSTANTS
    Unscaled <- UnscaledValues
    Scales <- DecimalScales
INVARIANT DecimalsArrive
