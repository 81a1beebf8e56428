---------------------------- MODULE RuleMatcher ----------------------------
(***************************************************************************)
(* internal/rules/matcher.go: the pattern of a rule is rewritten into a    *)
(* regular expression, compiled, and matched against commands and domains. *)
(*                                                                         *)
(* Every pattern over a small alphabet is written character by character,  *)
(* compiled, and given every subject.  A compiled expression is a row of   *)
(* atoms, each with a repetition, as regexp.Compile reads the text that    *)
(* the code builds; the repetition operators * and + that the code leaves  *)
(* unescaped are taken the way regexp.Compile takes them.                  *)
(***************************************************************************)
EXTENDS Integers, Sequences

CONSTANTS
    PatternChars, SubjectChars,   \* the characters of patterns and subjects
    LowerCase,                    \* the upper case letters, each with its lower case
    LabelChars,                   \* [a-z0-9-], whatever the case
    MaxPattern, MaxSubject        \* bounds: their lengths

NewLine == "nl"
Special == {".", "+"}             \* escaped characters, for all of them

\* The characters that Special stands for: they would be operators unescaped.
Operators == {"?", "^", "$", "(", ")", "[", "]", "{", "}", "|", "\\"}
Letters == DOMAIN LowerCase \cup {LowerCase[c] : c \in DOMAIN LowerCase}

ASSUME AlphabetAssumption ==
    /\ Operators \cap PatternChars = {}
    /\ \A c \in DOMAIN LowerCase : LowerCase[c] \notin DOMAIN LowerCase
    /\ Letters \subseteq LabelChars
    /\ ({"*", NewLine} \cup Special) \cap LabelChars = {}

Lower(c) == IF c \in DOMAIN LowerCase THEN LowerCase[c] ELSE c
ToLower(s) == [i \in DOMAIN s |-> Lower(s[i])]

-----------------------------------------------------------------------------
(* Regular expressions.                                                    *)

Atom(kind, char, rep) == [kind |-> kind, char |-> char, rep |-> rep]
Literal(c) == Atom("char", c, "once")
AnyRun == Atom("any", "", "star")              \* .*  and  .*?
Begin == Atom("begin", "", "once")             \* ^
End == Atom("end", "", "once")                 \* $
Subdomains == Atom("labels", "", "star")       \* ([a-z0-9-]+\.)*

NoMatcher == <<Atom("none", "", "once")>>      \* a nil *regexp.Regexp
Error == <<Atom("error", "", "once")>>         \* regexp.Compile failed

\* A repetition operator goes to the atom before it, once.
Repeat(regex, rep) ==
    IF regex[Len(regex)].rep = "once" THEN [regex EXCEPT ![Len(regex)].rep = rep] ELSE Error

\* An atom, or an unescaped operator, after what is written already.
Then(regex, x) ==
    IF regex = Error THEN Error
    ELSE IF x.kind = "repeat" THEN Repeat(regex, x.rep)
    ELSE Append(regex, x)

Written(regex, atoms) ==
    LET written[n \in 0..Len(atoms)] ==
          IF n = 0 THEN regex ELSE Then(written[n - 1], atoms[n])
    IN  written[Len(atoms)]

Takes(atom, c) ==
    \/ atom.kind = "char" /\ Lower(c) = Lower(atom.char)
    \/ atom.kind = "any" /\ c # NewLine

\* A label and its dot.
LabelMoves(text) ==
    LET places == 1..(Len(text) + 1)
    IN  {m \in places \X places : /\ m[1] + 1 < m[2] /\ text[m[2] - 1] = "."
                                  /\ \A i \in m[1]..(m[2] - 2) : text[i] \in LabelChars}

\* From where to where an atom, taken once, moves in a text.
Moves(atom, text) ==
    IF atom.kind = "begin" THEN {<<1, 1>>}
    ELSE IF atom.kind = "end" THEN {<<Len(text) + 1, Len(text) + 1>>}
    ELSE IF atom.kind = "labels" THEN LabelMoves(text)
    ELSE {<<p, p + 1>> : p \in {q \in DOMAIN text : Takes(atom, text[q])}}

Moved(moves, at) == {m[2] : m \in {w \in moves : w[1] \in at}}

\* Where up to n moves lead.
Repeated(moves, at, n) ==
    LET seen[k \in 0..n] ==
          IF k = 0 THEN at ELSE LET before == seen[k - 1] IN before \cup Moved(moves, before)
    IN  seen[n]

\* Where a match may stand after the atom, from those before it.
After(atom, text, at) ==
    LET moves == Moves(atom, text)
        first == IF atom.rep = "star" THEN at ELSE Moved(moves, at)
    IN  IF atom.rep = "once" THEN first ELSE Repeated(moves, first, Len(text))

\* A match may begin anywhere.
MatchString(regex, text) ==
    LET at[n \in 0..Len(regex)] ==
          IF n = 0 THEN 1..(Len(text) + 1) ELSE After(regex[n], text, at[n - 1])
    IN  at[Len(regex)] # {}

-----------------------------------------------------------------------------
(* The translation.                                                        *)

\* Mutant: the characters that are special in an expression are not escaped.
GlobUnescaped(pattern) ==
    Written(<< >>, [i \in DOMAIN pattern |->
                      IF pattern[i] = "*" THEN AnyRun
                      ELSE IF pattern[i] = "." THEN Atom("any", "", "once")
                      ELSE Literal(pattern[i])])

\* Not anchored: the pattern may match anywhere in the command.
GlobToRegex(pattern) ==
    Written(<< >>, [i \in DOMAIN pattern |->
                      IF pattern[i] = "*" THEN AnyRun ELSE Literal(pattern[i])])

\* A character that the code writes as it is.
Raw(c) ==
    IF c = "*" THEN Atom("repeat", "", "star")
    ELSE IF c = "+" THEN Atom("repeat", "", "plus")
    ELSE Literal(c)

\* escapeRegexDomain, which leaves a star alone.
Escaped(s) == [i \in DOMAIN s |-> IF s[i] \in Special THEN Literal(s[i]) ELSE Raw(s[i])]

Wild(s) ==
    [i \in DOMAIN s |->
        IF s[i] = "*" THEN AnyRun ELSE IF s[i] = "." THEN Literal(".") ELSE Raw(s[i])]

IsSubdomainPattern(pattern) == Len(pattern) >= 2 /\ pattern[1] = "*" /\ pattern[2] = "."
HasStar(s) == \E i \in DOMAIN s : s[i] = "*"
Suffix(pattern) == SubSeq(pattern, 3, Len(pattern))

\* Mutant: at least one label is asked for in front of the suffix.
DomainBelowOnly(text) ==
    LET pattern == ToLower(text)
    IN  Then(IF IsSubdomainPattern(pattern)
             THEN Written(<<Begin, [Subdomains EXCEPT !.rep = "plus"]>>, Escaped(Suffix(pattern)))
             ELSE Written(<<Begin>>, IF HasStar(pattern) THEN Wild(pattern) ELSE Escaped(pattern)), End)

\* Mutant: the end is not anchored.
DomainOpenEnded(text) ==
    LET pattern == ToLower(text)
    IN  IF IsSubdomainPattern(pattern)
        THEN Written(<<Begin, Subdomains>>, Escaped(Suffix(pattern)))
        ELSE Written(<<Begin>>, IF HasStar(pattern) THEN Wild(pattern) ELSE Escaped(pattern))

DomainToRegex(text) ==
    LET pattern == ToLower(text)
    IN  Then(IF IsSubdomainPattern(pattern)
             THEN Written(<<Begin, Subdomains>>, Escaped(Suffix(pattern)))
             ELSE Written(<<Begin>>, IF HasStar(pattern) THEN Wild(pattern) ELSE Escaped(pattern)), End)

Uncompiled == [command |-> << >>, domain |-> << >>]
Broken == [command |-> Error, domain |-> Error]

\* The two matchers of a rule with these patterns, or an error for both.
CompileRule(pattern, domain) ==
    LET command == IF pattern = << >> THEN NoMatcher ELSE GlobToRegex(pattern)
        host == IF domain = << >> THEN NoMatcher ELSE DomainToRegex(domain)
    IN  IF Error \in {command, host} THEN Broken ELSE [command |-> command, domain |-> host]

MatchCommand(rule, cmd) == rule.command # NoMatcher /\ MatchString(rule.command, cmd)
MatchDomain(rule, name) == rule.domain # NoMatcher /\ MatchString(rule.domain, ToLower(name))

-----------------------------------------------------------------------------
VARIABLES
    pattern,   \* what is written in the rule file
    kind,      \* whether it is the rule's pattern or its domain
    rule,      \* the compiled rule
    subject    \* the command or the domain to be matched

vars == <<pattern, kind, rule, subject>>

Init ==
    /\ pattern = << >> /\ kind \in {"command", "domain"}
    /\ rule = Uncompiled /\ subject = << >>

Write(c) ==
    /\ rule = Uncompiled /\ Len(pattern) < MaxPattern
    /\ pattern' = Append(pattern, c)
    /\ UNCHANGED <<kind, rule, subject>>

Compile ==
    /\ rule = Uncompiled
    /\ rule' = IF kind = "command" THEN CompileRule(pattern, << >>) ELSE CompileRule(<< >>, pattern)
    /\ UNCHANGED <<pattern, kind, subject>>

Say(c) ==
    /\ rule \notin {Uncompiled, Broken} /\ Len(subject) < MaxSubject
    /\ subject' = Append(subject, c)
    /\ UNCHANGED <<pattern, kind, rule>>

Next ==
    \/ \E c \in PatternChars : Write(c)
    \/ Compile
    \/ \E c \in SubjectChars : Say(c)

Spec == Init /\ [][Next]_vars

-----------------------------------------------------------------------------
(* What the patterns are meant to say, without regular expressions.        *)

\* Where in t a character of a glob may begin, if what follows it begins at one
\* of rest and j is where all ends: a star stands for any run of characters,
\* every other character for itself, in either case.
Before(c, t, j, rest) ==
    IF c = "*"
    THEN {q \in 1..j : \E k \in rest : q <= k}
    ELSE {q \in 1..(j - 1) : Lower(c) = Lower(t[q]) /\ q + 1 \in rest}

\* The glob p describes t from i on, up to where j is next.
Describes(p, t, i, j) ==
    LET from[n \in 0..Len(p)] ==   \* where the last n characters may begin
          IF n = 0 THEN {j} ELSE Before(p[Len(p) - n + 1], t, j, from[n - 1])
    IN  i \in from[Len(p)]

\* The first n characters of t are a row of non-empty labels, each with its dot.
Labels(t, n) ==
    /\ n > 0 => t[n] = "."
    /\ \A i \in 1..n : t[i] \in LabelChars \/ (t[i] = "." /\ i > 1 /\ t[i - 1] # ".")

Compiled == rule \notin {Uncompiled, Broken}

\* The glob describes some part of the command.
Described == \E i, j \in 1..(Len(subject) + 1) : Describes(pattern, subject, i, j)

\* No star has a line end to stand for.
WithinLine(p, t) == HasStar(p) => \A i \in DOMAIN t : t[i] # NewLine

-----------------------------------------------------------------------------
(* Properties.                                                             *)

\* CompileRule of a command pattern never fails, and the rule matches nothing
\* but commands of which the glob describes some part: every character but the
\* star stands for itself, in either case, and the star for any sequence.  It
\* matches all of these if the pattern has no star or the command one line.
CommandMeansGlob ==
    kind = "command" =>
        /\ rule # Broken
        /\ Compiled /\ pattern # << >> =>
            /\ MatchCommand(rule, subject) => Described
            /\ Described /\ WithinLine(pattern, subject) => MatchCommand(rule, subject)

\* matcher.go:61, of globToRegex: "* matches any sequence of characters
\* (non-greedy)."
StarMatchesAnySequence ==
    kind = "command" /\ Compiled /\ pattern # << >> =>
        (MatchCommand(rule, subject) <=> Described)

\* "*.example.com" always compiles and matches example.com and every name of
\* labels before it, and nothing else: not a longer label that ends the same
\* way, and no name that goes on after it.
SubdomainMeansLabels ==
    kind = "domain" /\ IsSubdomainPattern(pattern) /\ ~HasStar(Suffix(pattern)) =>
        /\ rule # Broken
        /\ Compiled =>
            LET suffix == Suffix(pattern)
                rest == Len(subject) - Len(suffix)
            IN  MatchDomain(rule, subject) <=>
                    /\ rest >= 0
                    /\ \A i \in DOMAIN suffix : Lower(subject[rest + i]) = Lower(suffix[i])
                    /\ Labels(subject, rest)

\* Any other domain pattern compiles and describes the whole of the name: an
\* exact name itself, a name with stars what its parts allow, line ends taken as
\* for commands.  A star makes the code write a plus unescaped, which the
\* statement leaves out.
DomainMeansGlob ==
    /\ kind = "domain" /\ ~IsSubdomainPattern(pattern)
    /\ HasStar(pattern) => \A i \in DOMAIN pattern : pattern[i] # "+"
    =>  /\ rule # Broken
        /\ Compiled /\ pattern # << >> =>
            LET described == Describes(pattern, subject, 1, Len(subject) + 1)
            IN  /\ MatchDomain(rule, subject) => described
                /\ described /\ WithinLine(pattern, subject) => MatchDomain(rule, subject)

=============================================================================
