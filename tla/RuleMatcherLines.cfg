\* A command of two lines, which a star does not match as a whole.
SPECIFICATION Spec
CONSTANTS
    PatternChars = {"a", "*"}
    SubjectChars = {"A", "nl"}
    LowerCase <- MCLowerCase
    LabelChars = {"a", "A"}
    MaxPattern = 3
    MaxSubject = 3
INVARIANT StarMatchesAnySequence
\* The longest subject ends a behaviour.
CHECK_DEADLOCK FALSE
