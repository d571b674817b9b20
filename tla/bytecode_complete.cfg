CONSTANTS
    Nibbles <- MCNibbles
    SigBytes <- MCSigBytes
    CodeBytes <- MCCodeBytes
    TemplateName = TemplateName
SPECIFICATION Spec
INVARIANT MatchesEveryCarrier
\* One check per behaviour: the model stops once checkBytecodeForTokens
\* has returned.
CHECK_DEADLOCK FALSE
