CONSTANT Files <- LegalFiles
SPECIFICATION Spec
INVARIANTS
    TypeOK
    TerminatorInBuffer
    ResponseFits
    LengthIsOfThePage
