\* Every kind and form of a schema, against every type of value.
CONSTANTS
    Texts <- AllTexts
    Options <- AllOptions
    Calls <- AllCalls
SPECIFICATION Spec
INVARIANTS
    AcceptedAsWritten
    ForwardedUnchanged
    CheckedPathArrives
\* An action that was refused forwards nothing.
CHECK_DEADLOCK FALSE
