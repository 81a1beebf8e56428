\* A letter, two special characters and the star; subjects with the letter in
\* the other case and the line end, long enough for three labels.
SPECIFICATION Spec
CONSTANTS
    PatternChars = {"a", ".", "*", "+"}
    SubjectChars = {"A", ".", "+", "nl"}
    LowerCase <- MCLowerCase
    LabelChars = {"a", "A"}
    MaxPattern = 4
    MaxSubject = 5
INVARIANTS
    CommandMeansGlob
    SubdomainMeansLabels
    DomainMeansGlob
\* The longest subject ends a behaviour.
CHECK_DEADLOCK FALSE
