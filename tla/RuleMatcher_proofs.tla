------------------------- MODULE RuleMatcher_proofs -------------------------
(***************************************************************************)
(* Proofs about RuleMatcher, for any alphabet that AlphabetAssumption      *)
(* allows and for patterns and subjects of any length: the expression that *)
(* the code makes of a pattern matches what the pattern is meant to say.   *)
(***************************************************************************)
EXTENDS RuleMatcher, SequenceTheorems, WellFoundedInduction, TLAPS

-----------------------------------------------------------------------------
(* Induction over numbers, in a form that is about a set, and the          *)
(* recursions that the definitions use.                                    *)

LEMMA Upto ==
    ASSUME NEW m \in Nat, NEW S, 0 \in S, \A n \in 0..(m - 1) : n \in S => n + 1 \in S
    PROVE  \A n \in 0..m : n \in S
<1> DEFINE Out == {n \in 0..m : n \notin S}
<1> SUFFICES ASSUME Out # {} PROVE FALSE
  OBVIOUS
<1>1. PICK x \in Out : \A y \in Out : ~ (<<y, x>> \in OpToRel(<, Nat))
  <2>1. Out \subseteq Nat
    OBVIOUS
  <2> HIDE DEF Out
  <2> QED
    BY <2>1, NatLessThanWellFounded, WFMin
<1>2. x # 0 /\ x - 1 \in 0..(m - 1) /\ x - 1 \in 0..m /\ x - 1 < x /\ (x - 1) + 1 = x
  OBVIOUS
<1>3. x - 1 \in Out
  BY <1>2
<1>4. <<x - 1, x>> \in OpToRel(<, Nat)
  BY <1>2 DEF OpToRel
<1> QED
  BY <1>1, <1>3, <1>4

LEMMA Downto ==
    ASSUME NEW m \in Nat, NEW S, m \in S, \A n \in 1..m : n \in S => n - 1 \in S
    PROVE  \A n \in 0..m : n \in S
<1> DEFINE Back == {n \in 0..m : m - n \in S}
<1>1. 0 \in Back
  OBVIOUS
<1>2. ASSUME NEW n \in 0..(m - 1), n \in Back PROVE n + 1 \in Back
  <2>1. m - n \in 1..m /\ (m - n) - 1 = m - (n + 1) /\ n + 1 \in 0..m
    OBVIOUS
  <2> QED
    BY <1>2, <2>1
<1>3. \A n \in 0..m : n \in Back
  <2> HIDE DEF Back
  <2> QED
    BY <1>1, <1>2, Upto
<1>4. \A n \in 0..m : m - n \in 0..m /\ m - (m - n) = n
  OBVIOUS
<1> QED
  BY <1>3, <1>4

\* f goes from b by the steps of h.
Steps(f, b, m, h) == f[0] = b /\ \A n \in 1..m : f[n] = h[n][f[n - 1]]

LEMMA StepsExist ==
    ASSUME NEW S, NEW b \in S, NEW m \in Nat, NEW h \in [1..m -> [S -> S]]
    PROVE  \E f \in [0..m -> S] : Steps(f, b, m, h)
<1> DEFINE Some == {k \in 0..m : \E f \in [0..k -> S] : Steps(f, b, k, h)}
<1>1. 0 \in Some
  <2>1. Steps([n \in 0..0 |-> b], b, 0, h)
    BY DEF Steps
  <2> QED
    BY <2>1
<1>2. ASSUME NEW k \in 0..(m - 1), k \in Some PROVE k + 1 \in Some
  <2>1. PICK f \in [0..k -> S] : Steps(f, b, k, h)
    BY <1>2
  <2> DEFINE last == h[k + 1][f[k]]
             g == [n \in 0..(k + 1) |-> IF n = k + 1 THEN last ELSE f[n]]
  <2>2. last \in S
    <3>1. k + 1 \in 1..m /\ k \in 0..k
      OBVIOUS
    <3> QED
      BY <3>1
  <2> HIDE DEF last
  <2>3. g \in [0..(k + 1) -> S] /\ g[k + 1] = last /\ \A n \in 0..k : g[n] = f[n]
    BY <2>2
  <2> HIDE DEF g
  <2>4. g[0] = b
    BY <2>1, <2>3 DEF Steps
  <2>5. ASSUME NEW n \in 1..(k + 1) PROVE g[n] = h[n][g[n - 1]]
    <3>1. CASE n = k + 1
      <4>1. g[n - 1] = f[k] /\ g[n] = last
        BY <2>3, <3>1
      <4> QED
        BY <3>1, <4>1 DEF last
    <3>2. CASE n # k + 1
      <4>1. n \in 1..k /\ g[n] = f[n] /\ g[n - 1] = f[n - 1]
        BY <2>3, <3>2
      <4> QED
        BY <2>1, <4>1 DEF Steps
    <3> QED
      BY <3>1, <3>2
  <2> QED
    BY <2>3, <2>4, <2>5 DEF Steps
<1>3. m \in Some
  <2>1. m \in 0..m
    OBVIOUS
  <2> HIDE DEF Some
  <2> QED
    BY <1>1, <1>2, <2>1, Upto
<1> QED
  BY <1>3

-----------------------------------------------------------------------------
(* What repeated moves reach.                                              *)

Places(text) == 1..(Len(text) + 1)

SeenOf(g, moves, at, n) ==
    [k \in 0..n |-> IF k = 0 THEN at ELSE g[k - 1] \cup Moved(moves, g[k - 1])]

\* g has what is seen after each round, and what repetition yields in the end.
IsSeen(g, moves, at, n) ==
    /\ g[0] = at /\ \A k \in 1..n : g[k] = g[k - 1] \cup Moved(moves, g[k - 1])
    /\ Repeated(moves, at, n) = g[n]

LEMMA RepeatedLoop ==
    ASSUME NEW P, NEW moves \in SUBSET (P \X P), NEW at \in SUBSET P, NEW n \in Nat
    PROVE  \E g : IsSeen(g, moves, at, n)
<1> DEFINE h == [k \in 1..n |-> [s \in SUBSET P |-> s \cup Moved(moves, s)]]
<1>1. \A s \in SUBSET P : s \cup Moved(moves, s) \in SUBSET P
  BY DEF Moved
<1>2. PICK f \in [0..n -> SUBSET P] : Steps(f, at, n, h)
  <2>1. h \in [1..n -> [SUBSET P -> SUBSET P]]
    BY <1>1
  <2> HIDE DEF h
  <2> QED
    BY <2>1, StepsExist
<1>3. \A k \in 1..n : f[k] = f[k - 1] \cup Moved(moves, f[k - 1])
  <2> TAKE k \in 1..n
  <2>1. f[k] = h[k][f[k - 1]]
    BY <1>2 DEF Steps
  <2>2. f[k - 1] \in SUBSET P
    <3>1. k - 1 \in 0..n
      OBVIOUS
    <3> QED
      BY <1>2, <3>1
  <2> QED
    BY <2>1, <2>2
<1> HIDE DEF h
<1>4. f = SeenOf(f, moves, at, n)
  <2>1. f = [k \in 0..n |-> f[k]]
    BY <1>2
  <2>2. \A k \in 0..n : f[k] = IF k = 0 THEN at ELSE f[k - 1] \cup Moved(moves, f[k - 1])
    <3>1. f[0] = at /\ \A k \in 0..n : k = 0 \/ k \in 1..n
      BY <1>2 DEF Steps
    <3> QED
      BY <1>3, <3>1
  <2> QED
    BY <2>1, <2>2 DEF SeenOf
<1> DEFINE seen == CHOOSE g : g = SeenOf(g, moves, at, n)
<1>5. seen = SeenOf(seen, moves, at, n)
  BY <1>4
<1>6. Repeated(moves, at, n) = seen[n]
  BY DEF Repeated, SeenOf
<1> HIDE DEF seen
<1>7. PICK g : g = seen
  OBVIOUS
<1>8. g = SeenOf(g, moves, at, n)
  BY <1>5, <1>7
<1>9. \A k \in 0..n : SeenOf(g, moves, at, n)[k] =
                        IF k = 0 THEN at ELSE g[k - 1] \cup Moved(moves, g[k - 1])
  BY DEF SeenOf
<1>10. \A k \in 0..n : g[k] = IF k = 0 THEN at ELSE g[k - 1] \cup Moved(moves, g[k - 1])
  BY <1>8, <1>9
<1>11. 0 \in 0..n /\ \A k \in 1..n : k \in 0..n /\ k # 0
  OBVIOUS
<1> QED
  BY <1>6, <1>7, <1>10, <1>11 DEF IsSeen

\* Moves that go forward reach, in as many rounds as there are characters, the
\* least set that they do not leave.
LEMMA RepeatedIs ==
    ASSUME NEW L \in Nat, NEW moves \in SUBSET ((1..(L + 1)) \X (1..(L + 1))),
           \A m \in moves : m[1] < m[2],
           NEW at \in SUBSET (1..(L + 1))
    PROVE  LET all == Repeated(moves, at, L) IN
           /\ at \subseteq all /\ all \subseteq 1..(L + 1)
           /\ \A m \in moves : m[1] \in all => m[2] \in all
           /\ \A T : at \subseteq T /\ (\A m \in moves : m[1] \in T => m[2] \in T) => all \subseteq T
<1>1. PICK g : /\ g[0] = at /\ \A k \in 1..L : g[k] = g[k - 1] \cup Moved(moves, g[k - 1])
               /\ Repeated(moves, at, L) = g[L]
  <2>1. PICK P : moves \in SUBSET (P \X P) /\ at \in SUBSET P
    OBVIOUS
  <2>2. PICK g : IsSeen(g, moves, at, L)
    BY <2>1, RepeatedLoop
  <2> QED
    BY <2>2 DEF IsSeen
<1>2. \A s, y : y \in Moved(moves, s) <=> \E m \in moves : m[1] \in s /\ y = m[2]
  BY DEF Moved
<1>3. ASSUME NEW T, at \subseteq T, \A m \in moves : m[1] \in T => m[2] \in T
      PROVE  \A k \in 0..L : g[k] \subseteq T
  <2> DEFINE In == {k \in 0..L : g[k] \subseteq T}
  <2>1. 0 \in In
    <3>1. 0 \in 0..L /\ g[0] \subseteq T
      BY <1>1, <1>3
    <3> QED
      BY <3>1
  <2>2. ASSUME NEW k \in 0..(L - 1), k \in In PROVE k + 1 \in In
    <3>1. k + 1 \in 1..L /\ k + 1 \in 0..L /\ (k + 1) - 1 = k
      OBVIOUS
    <3>2. g[k + 1] = g[k] \cup Moved(moves, g[k])
      BY <1>1, <3>1
    <3> QED
      BY <1>2, <1>3, <2>2, <3>1, <3>2
  <2>3. \A k \in 0..L : k \in In
    <3> HIDE DEF In
    <3> QED
      BY <2>1, <2>2, Upto
  <2> QED
    BY <2>3
<1>4. \A k \in 0..L : g[k] \subseteq 1..(L + 1)
  <2>1. \A m \in moves : m[2] \in 1..(L + 1)
    OBVIOUS
  <2> QED
    BY <1>3, <2>1
\* What a round leaves open is further on than the round.
<1>5. \A k \in 0..L : /\ at \subseteq g[k]
                      /\ \A m \in moves : m[1] \in g[k] => m[2] \in g[k] \/ m[2] >= k + 2
  <2> DEFINE Far == {k \in 0..L : /\ at \subseteq g[k]
                                  /\ \A m \in moves : m[1] \in g[k] => m[2] \in g[k] \/ m[2] >= k + 2}
  <2>0. \A m \in moves : m[1] \in 1..(L + 1) /\ m[2] \in 1..(L + 1) /\ m[1] < m[2]
    OBVIOUS
  <2>1. 0 \in Far
    <3>1. \A m \in moves : m[2] >= 0 + 2
      BY <2>0
    <3> QED
      BY <1>1, <3>1
  <2>2. ASSUME NEW k \in 0..(L - 1), k \in Far PROVE k + 1 \in Far
    <3>1. k + 1 \in 1..L /\ k + 1 \in 0..L /\ (k + 1) - 1 = k /\ k \in 0..L
      OBVIOUS
    <3>2. g[k + 1] = g[k] \cup Moved(moves, g[k])
      BY <1>1, <3>1
    <3>3. ASSUME NEW m \in moves, m[1] \in g[k + 1], m[2] \notin g[k + 1]
          PROVE  m[2] >= (k + 1) + 2
      <4>1. m[1] \notin g[k]
        BY <1>2, <3>2, <3>3
      <4>2. PICK w \in moves : w[1] \in g[k] /\ m[1] = w[2]
        BY <1>2, <3>2, <3>3, <4>1
      <4>3. w[2] >= k + 2
        BY <2>2, <4>1, <4>2
      <4> QED
        BY <2>0, <4>2, <4>3
    <3>4. at \subseteq g[k + 1]
      BY <2>2, <3>2
    <3> QED
      BY <3>1, <3>3, <3>4
  <2>3. \A k \in 0..L : k \in Far
    <3> HIDE DEF Far
    <3> QED
      BY <2>1, <2>2, Upto
  <2> QED
    BY <2>3
<1>6. ASSUME NEW m \in moves, m[1] \in g[L] PROVE m[2] \in g[L]
  <2>1. m[2] \in 1..(L + 1) /\ L \in 0..L
    OBVIOUS
  <2>2. m[2] \in g[L] \/ m[2] >= L + 2
    BY <1>5, <1>6, <2>1
  <2> QED
    BY <2>1, <2>2
<1>7. L \in 0..L
  OBVIOUS
<1> QED
  BY <1>1, <1>3, <1>4, <1>5, <1>6, <1>7

-----------------------------------------------------------------------------
(* Where a match may stand after each kind of atom.                        *)

LEMMA LiteralIs ==
    ASSUME NEW C, NEW text \in Seq(C), NEW c, NEW at \in SUBSET Places(text)
    PROVE  \A x : x \in After(Literal(c), text, at) <=>
                    \E y \in at : y <= Len(text) /\ Lower(c) = Lower(text[y]) /\ x = y + 1
<1>1. Len(text) \in Nat /\ DOMAIN text = 1..Len(text)
  BY LenProperties
<1>2. After(Literal(c), text, at) = Moved(Moves(Literal(c), text), at)
  BY DEF After, Literal, Atom
<1>3. Moves(Literal(c), text) =
        {<<p, p + 1>> : p \in {q \in DOMAIN text : Lower(text[q]) = Lower(c)}}
  BY DEF Moves, Literal, Atom, Takes
<1>4. ASSUME NEW x, x \in Moved(Moves(Literal(c), text), at)
      PROVE  \E y \in at : y <= Len(text) /\ Lower(c) = Lower(text[y]) /\ x = y + 1
  <2>1. PICK m \in Moves(Literal(c), text) : m[1] \in at /\ x = m[2]
    BY <1>4 DEF Moved
  <2>2. PICK p \in DOMAIN text : Lower(text[p]) = Lower(c) /\ m = <<p, p + 1>>
    BY <1>3, <2>1
  <2> QED
    BY <1>1, <2>1, <2>2
<1>5. ASSUME NEW y \in at, y <= Len(text), Lower(c) = Lower(text[y])
      PROVE  y + 1 \in Moved(Moves(Literal(c), text), at)
  <2>1. y \in DOMAIN text
    BY <1>1, <1>5 DEF Places
  <2>2. <<y, y + 1>> \in Moves(Literal(c), text)
    BY <1>3, <1>5, <2>1
  <2>3. PICK m \in Moves(Literal(c), text) : m[1] = y /\ m[2] = y + 1
    BY <2>2
  <2> QED
    BY <2>3 DEF Moved
<1> QED
  BY <1>2, <1>4, <1>5

LEMMA AnchorsAre ==
    ASSUME NEW C, NEW text \in Seq(C), NEW at \in SUBSET Places(text)
    PROVE  /\ After(Begin, text, at) = at \cap {1}
           /\ After(End, text, at) = at \cap {Len(text) + 1}
<1>1. /\ After(Begin, text, at) = Moved({<<1, 1>>}, at)
      /\ After(End, text, at) = Moved({<<Len(text) + 1, Len(text) + 1>>}, at)
  BY DEF After, Begin, End, Atom, Moves
<1>2. \A x : Moved({<<x, x>>}, at) = at \cap {x}
  <2> TAKE x
  <2>0. <<x, x>>[1] = x /\ <<x, x>>[2] = x
    OBVIOUS
  <2>1. PICK w : w = <<x, x>> /\ w[1] = x /\ w[2] = x
    BY <2>0
  <2>2. CASE x \in at
    <3>1. {v \in {w} : v[1] \in at} = {w}
      BY <2>1, <2>2
    <3>2. Moved({w}, at) = {x}
      BY <2>1, <3>1 DEF Moved
    <3> QED
      BY <2>1, <2>2, <3>2
  <2>3. CASE x \notin at
    <3>1. {v \in {w} : v[1] \in at} = {}
      BY <2>1, <2>3
    <3>2. Moved({w}, at) = {}
      BY <3>1 DEF Moved
    <3> QED
      BY <2>1, <2>3, <3>2
  <2> QED
    BY <2>2, <2>3
<1> QED
  BY <1>1, <1>2

LEMMA AnyRunIs ==
    ASSUME NEW C, NEW text \in Seq(C), NEW at \in SUBSET Places(text)
    PROVE  After(AnyRun, text, at) =
             {x \in Places(text) : \E y \in at : y <= x /\ \A z \in y..(x - 1) : text[z] # NewLine}
<1> DEFINE moves == Moves(AnyRun, text)
           line == {x \in Places(text) : \E y \in at : y <= x /\ \A z \in y..(x - 1) : text[z] # NewLine}
<1>1. PICK L \in Nat : L = Len(text) /\ DOMAIN text = 1..L /\ Places(text) = 1..(L + 1)
  BY LenProperties DEF Places
<1>2. moves = {<<p, p + 1>> : p \in {q \in DOMAIN text : text[q] # NewLine}}
  BY DEF Moves, AnyRun, Atom, Takes
<1>3. After(AnyRun, text, at) = Repeated(moves, at, L)
  BY <1>1 DEF After, AnyRun, Atom
<1> HIDE DEF moves
<1>4. \A m \in moves : /\ m \in (1..(L + 1)) \X (1..(L + 1))
                       /\ m[1] \in 1..L /\ text[m[1]] # NewLine /\ m[2] = m[1] + 1
  BY <1>1, <1>2
<1>5. \A p \in 1..L : text[p] # NewLine => \E m \in moves : m[1] = p /\ m[2] = p + 1
  <2> TAKE p \in 1..L
  <2> HAVE text[p] # NewLine
  <2>1. <<p, p + 1>> \in moves
    BY <1>1, <1>2
  <2> QED
    BY <2>1
<1>6. PICK all : all = Repeated(moves, at, L)
  OBVIOUS
<1>7. /\ at \subseteq all /\ all \subseteq 1..(L + 1)
      /\ \A m \in moves : m[1] \in all => m[2] \in all
      /\ \A T : at \subseteq T /\ (\A m \in moves : m[1] \in T => m[2] \in T) => all \subseteq T
  <2>1. moves \in SUBSET ((1..(L + 1)) \X (1..(L + 1))) /\ \A m \in moves : m[1] < m[2]
    BY <1>4
  <2>2. at \in SUBSET (1..(L + 1))
    BY <1>1
  <2> QED
    BY <1>6, <2>1, <2>2, RepeatedIs
<1>8. all \subseteq line
  <2>1. at \subseteq line
    <3>1. ASSUME NEW y \in at PROVE y \in line
      <4>1. y \in Places(text) /\ y <= y /\ \A z \in y..(y - 1) : FALSE
        BY <1>1
      <4> QED
        BY <4>1
    <3> QED
      BY <3>1
  <2>2. ASSUME NEW m \in moves, m[1] \in line PROVE m[2] \in line
    <3>1. PICK y \in at : y <= m[1] /\ \A z \in y..(m[1] - 1) : text[z] # NewLine
      BY <2>2
    <3>2. /\ m[2] \in Places(text) /\ y <= m[2]
          /\ \A z \in y..(m[2] - 1) : z = m[1] \/ z \in y..(m[1] - 1)
      BY <1>1, <1>4, <3>1
    <3> QED
      BY <1>4, <3>1, <3>2
  <2> HIDE DEF line
  <2> QED
    BY <1>7, <2>1, <2>2
<1>9. ASSUME NEW x \in line PROVE x \in all
  <2>1. PICK y \in at : y <= x /\ \A z \in y..(x - 1) : text[z] # NewLine
    OBVIOUS
  <2>2. PICK d \in Nat : d = x - y /\ y + d = x /\ y \in 1..(L + 1) /\ x \in 1..(L + 1)
    BY <1>1, <2>1
  <2> DEFINE In == {k \in 0..d : y + k \in all}
  <2>3. 0 \in In
    <3>1. 0 \in 0..d /\ y + 0 = y
      BY <2>2
    <3> QED
      BY <1>7, <3>1
  <2>4. ASSUME NEW k \in 0..(d - 1), k \in In PROVE k + 1 \in In
    <3>1. y + k \in y..(x - 1) /\ y + k \in 1..L /\ k + 1 \in 0..d /\ (y + k) + 1 = y + (k + 1)
      BY <2>2
    <3>2. PICK m \in moves : m[1] = y + k /\ m[2] = (y + k) + 1
      BY <1>5, <2>1, <3>1
    <3> QED
      BY <1>7, <2>4, <3>1, <3>2
  <2>5. d \in In
    <3>1. d \in 0..d
      OBVIOUS
    <3> HIDE DEF In
    <3> QED
      BY <2>3, <2>4, <3>1, Upto
  <2> QED
    BY <2>2, <2>5
<1> QED
  BY <1>3, <1>6, <1>8, <1>9

-----------------------------------------------------------------------------
(* A glob: the moves of its atoms, from left to right, against what it is  *)
(* meant to say, from right to left.                                       *)

GlobAtom(c) == IF c = "*" THEN AnyRun ELSE Literal(c)
Globs(p) == [i \in DOMAIN p |-> GlobAtom(p[i])]

LEMMA GlobAtomMeans ==
    ASSUME NEW C, NEW text \in Seq(C), NEW c, NEW at \in SUBSET Places(text),
           NEW j \in Places(text), NEW rest \in SUBSET (1..j)
    PROVE  /\ After(GlobAtom(c), text, at) \in SUBSET Places(text)
           /\ Before(c, text, j, rest) \in SUBSET (1..j)
           /\ (\E q \in After(GlobAtom(c), text, at) : q \in rest)
                => \E q \in at : q \in Before(c, text, j, rest)
           /\ (c = "*" => \A x \in 1..Len(text) : text[x] # NewLine) =>
                ((\E q \in at : q \in Before(c, text, j, rest))
                   => \E q \in After(GlobAtom(c), text, at) : q \in rest)
<1>0. PICK L \in Nat : L = Len(text) /\ Places(text) = 1..(L + 1) /\ j \in 1..(L + 1)
  BY LenProperties DEF Places
<1>1. CASE c = "*"
  <2>1. After(GlobAtom(c), text, at) =
          {x \in Places(text) : \E y \in at : y <= x /\ \A z \in y..(x - 1) : text[z] # NewLine}
    BY <1>1, AnyRunIs DEF GlobAtom
  <2>2. Before(c, text, j, rest) =
          {q \in 1..j : \E k \in rest : q <= k}
    BY <1>1 DEF Before
  <2>3. \A k \in rest : k \in Places(text) /\ k <= j
    BY <1>0
  <2>4. ASSUME NEW y \in at, NEW k \in rest, y <= k
        PROVE  y \in 1..j /\ \A z \in y..(k - 1) : z \in 1..Len(text)
    BY <1>0, <2>4
  <2>5. After(GlobAtom(c), text, at) \in SUBSET Places(text)
    BY <2>1
  <2>6. Before(c, text, j, rest) \in SUBSET (1..j)
    BY <2>2
  <2>7. (\E q \in After(GlobAtom(c), text, at) : q \in rest)
          => \E q \in at : q \in Before(c, text, j, rest)
    BY <2>1, <2>2, <2>4
  <2>8. ASSUME \A x \in 1..Len(text) : text[x] # NewLine,
               NEW y \in at, NEW k \in rest, y <= k
        PROVE  k \in After(GlobAtom(c), text, at)
    BY <2>1, <2>3, <2>4, <2>8
  <2> QED
    BY <1>1, <2>2, <2>5, <2>6, <2>7, <2>8
<1>2. CASE c # "*"
  <2>1. \A x : x \in After(GlobAtom(c), text, at) <=>
                 \E y \in at : y <= Len(text) /\ Lower(c) = Lower(text[y]) /\ x = y + 1
    BY <1>2, LiteralIs DEF GlobAtom
  <2>2. Before(c, text, j, rest) = {q \in 1..(j - 1) : Lower(c) = Lower(text[q]) /\ q + 1 \in rest}
    BY <1>2 DEF Before
  <2>3. After(GlobAtom(c), text, at) \in SUBSET Places(text)
    BY <1>0, <2>1
  <2>4. Before(c, text, j, rest) \in SUBSET (1..j)
    BY <1>0, <2>2
  <2>5. ASSUME NEW y \in at, y + 1 \in rest PROVE y \in 1..(j - 1) /\ y <= Len(text)
    BY <1>0, <2>5
  <2>6. ASSUME NEW y \in 1..(j - 1) PROVE y <= Len(text)
    BY <1>0
  <2> QED
    BY <2>1, <2>2, <2>3, <2>4, <2>5, <2>6
<1> QED
  BY <1>1, <1>2

\* r has where the last n characters of p may begin.
IsFrom(r, p, t, j) ==
    r[0] = {j} /\ \A n \in 1..Len(p) : r[n] = Before(p[Len(p) - n + 1], t, j, r[n - 1])

FromOf(g, p, t, j) ==
    [n \in 0..Len(p) |-> IF n = 0 THEN {j} ELSE Before(p[Len(p) - n + 1], t, j, g[n - 1])]

LEMMA FromExists ==
    ASSUME NEW C, NEW p \in Seq(C), NEW t, NEW j \in Nat \ {0}
    PROVE  \E r \in [0..Len(p) -> SUBSET (1..j)] : IsFrom(r, p, t, j)
<1>1. Len(p) \in Nat
  BY LenProperties
<1> DEFINE h == [n \in 1..Len(p) |-> [s \in SUBSET (1..j) |-> Before(p[Len(p) - n + 1], t, j, s)]]
<1>2. \A c, s : Before(c, t, j, s) \in SUBSET (1..j)
  BY DEF Before
<1>3. PICK f \in [0..Len(p) -> SUBSET (1..j)] : Steps(f, {j}, Len(p), h)
  <2>1. h \in [1..Len(p) -> [SUBSET (1..j) -> SUBSET (1..j)]] /\ {j} \in SUBSET (1..j)
    BY <1>2
  <2> HIDE DEF h
  <2> QED
    BY <1>1, <2>1, StepsExist
<1>4. ASSUME NEW n \in 1..Len(p) PROVE f[n] = Before(p[Len(p) - n + 1], t, j, f[n - 1])
  <2>1. f[n] = h[n][f[n - 1]]
    BY <1>3 DEF Steps
  <2>2. n - 1 \in 0..Len(p)
    BY <1>1
  <2>3. f[n - 1] \in SUBSET (1..j)
    BY <1>3, <2>2
  <2> QED
    BY <2>1, <2>3
<1> HIDE DEF h
<1> QED
  BY <1>3, <1>4 DEF IsFrom, Steps

LEMMA DescribesIs ==
    ASSUME NEW C, NEW p \in Seq(C), NEW t, NEW j \in Nat \ {0}, NEW i, NEW r, IsFrom(r, p, t, j)
    PROVE  Describes(p, t, i, j) <=> i \in r[Len(p)]
<1>1. Len(p) \in Nat
  BY LenProperties
<1>2. PICK f \in [0..Len(p) -> SUBSET (1..j)] : IsFrom(f, p, t, j)
  BY FromExists
<1>3. f = FromOf(f, p, t, j)
  <2>1. f = [n \in 0..Len(p) |-> f[n]]
    BY <1>2
  <2>2. \A n \in 0..Len(p) :
          f[n] = IF n = 0 THEN {j} ELSE Before(p[Len(p) - n + 1], t, j, f[n - 1])
    <3>1. \A n \in 0..Len(p) : n = 0 \/ n \in 1..Len(p)
      BY <1>1
    <3> QED
      BY <1>2, <3>1 DEF IsFrom
  <2> QED
    BY <2>1, <2>2 DEF FromOf
<1> DEFINE from == CHOOSE g : g = FromOf(g, p, t, j)
<1>4. from = FromOf(from, p, t, j)
  BY <1>3
<1>5. Describes(p, t, i, j) <=> i \in from[Len(p)]
  BY DEF Describes, FromOf
<1> HIDE DEF from
<1>6. PICK g : g = from
  OBVIOUS
<1>7. g = FromOf(g, p, t, j)
  BY <1>4, <1>6
<1>8. IsFrom(g, p, t, j)
  <2>1. \A n \in 0..Len(p) :
          FromOf(g, p, t, j)[n] = IF n = 0 THEN {j} ELSE Before(p[Len(p) - n + 1], t, j, g[n - 1])
    BY DEF FromOf
  <2>2. 0 \in 0..Len(p) /\ \A n \in 1..Len(p) : n \in 0..Len(p) /\ n # 0
    BY <1>1
  <2> QED
    BY <1>7, <2>1, <2>2 DEF IsFrom
<1> DEFINE Same == {n \in 0..Len(p) : g[n] = r[n]}
<1>9. 0 \in Same
  <2>1. 0 \in 0..Len(p)
    BY <1>1
  <2> QED
    BY <1>8, <2>1 DEF IsFrom
<1>10. ASSUME NEW n \in 0..(Len(p) - 1), n \in Same PROVE n + 1 \in Same
  <2>1. n + 1 \in 1..Len(p) /\ n + 1 \in 0..Len(p) /\ (n + 1) - 1 = n
    BY <1>1
  <2>2. /\ g[n + 1] = Before(p[Len(p) - (n + 1) + 1], t, j, g[n])
        /\ r[n + 1] = Before(p[Len(p) - (n + 1) + 1], t, j, r[n])
    BY <1>8, <2>1 DEF IsFrom
  <2> QED
    BY <1>10, <2>1, <2>2
<1>11. Len(p) \in Same
  <2>1. Len(p) \in 0..Len(p)
    BY <1>1
  <2> HIDE DEF Same
  <2> QED
    BY <1>1, <1>9, <1>10, <2>1, Upto
<1> QED
  BY <1>5, <1>6, <1>11

\* A run of glob atoms goes to j only from where the glob describes the text up
\* to j, and from all of there within a line.
LEMMA GlobMeans ==
    ASSUME NEW C, NEW text \in Seq(C), NEW D, NEW p \in Seq(D), NEW A,
           A[0] \in SUBSET Places(text),
           \A n \in 1..Len(p) : A[n] = After(GlobAtom(p[n]), text, A[n - 1])
    PROVE  /\ \A n \in 0..Len(p) : A[n] \in SUBSET Places(text)
           /\ \A j \in Places(text) :
                j \in A[Len(p)] => \E i \in A[0] : Describes(p, text, i, j)
           /\ WithinLine(p, text) =>
                \A j \in Places(text) :
                   (\E i \in A[0] : Describes(p, text, i, j)) => j \in A[Len(p)]
<1>1. PICK N \in Nat : N = Len(p)
  BY LenProperties
<1>2. \A n \in 0..N : A[n] \in SUBSET Places(text)
  <2> DEFINE In == {n \in 0..N : A[n] \in SUBSET Places(text)}
  <2>1. 0 \in In
    OBVIOUS
  <2>2. ASSUME NEW n \in 0..(N - 1), n \in In PROVE n + 1 \in In
    <3>1. n + 1 \in 1..N /\ n + 1 \in 0..N /\ (n + 1) - 1 = n
      OBVIOUS
    <3>2. A[n + 1] = After(GlobAtom(p[n + 1]), text, A[n]) /\ A[n] \in SUBSET Places(text)
      BY <1>1, <2>2, <3>1
    <3>3. 1 \in Places(text) /\ {} \in SUBSET (1..1)
      BY LenProperties DEF Places
    <3>4. PICK at \in SUBSET Places(text), c \in {p[n + 1]} : at = A[n]
      BY <3>2
    <3>5. After(GlobAtom(c), text, at) \in SUBSET Places(text)
      BY <3>3, GlobAtomMeans
    <3> QED
      BY <3>1, <3>2, <3>4, <3>5
  <2>3. \A n \in 0..N : n \in In
    <3> HIDE DEF In
    <3> QED
      BY <2>1, <2>2, Upto
  <2> QED
    BY <2>3
<1>3. ASSUME NEW j \in Places(text)
      PROVE  /\ j \in A[N] => \E i \in A[0] : Describes(p, text, i, j)
             /\ WithinLine(p, text) =>
                  ((\E i \in A[0] : Describes(p, text, i, j)) => j \in A[N])
  <2>0. j \in Nat \ {0}
    BY LenProperties DEF Places
  <2>1. PICK r \in [0..N -> SUBSET (1..j)] : IsFrom(r, p, text, j)
    BY <1>1, <2>0, FromExists
  <2>2. \A i : Describes(p, text, i, j) <=> i \in r[N]
    BY <1>1, <2>0, <2>1, DescribesIs
  <2> DEFINE Meet(n) == \E q \in A[n] : q \in r[N - n]
             To == {n \in 0..N : j \in A[N] => Meet(n)}
             Fro == {n \in 0..N : Meet(n) => j \in A[N]}
  <2>3. N \in To /\ N \in Fro
    <3>1. N \in 0..N /\ N - N = 0 /\ r[0] = {j}
      BY <2>1 DEF IsFrom
    <3> QED
      BY <3>1
  <2>4. ASSUME NEW n \in 1..N
        PROVE  /\ Meet(n) => Meet(n - 1)
               /\ WithinLine(p, text) => (Meet(n - 1) => Meet(n))
    <3>1. /\ n - 1 \in 0..N /\ N - n \in 0..N /\ N - (n - 1) \in 1..N
          /\ (N - (n - 1)) - 1 = N - n /\ N - (N - (n - 1)) + 1 = n
      OBVIOUS
    <3>2. r[N - (n - 1)] = Before(p[n], text, j, r[N - n])
      BY <1>1, <2>1, <3>1 DEF IsFrom
    <3>3. A[n] = After(GlobAtom(p[n]), text, A[n - 1]) /\ A[n - 1] \in SUBSET Places(text)
      BY <1>1, <1>2, <3>1
    <3>4. r[N - n] \in SUBSET (1..j)
      BY <2>1, <3>1
    <3>5. PICK at \in SUBSET Places(text), rest \in SUBSET (1..j), c \in {p[n]} :
             at = A[n - 1] /\ rest = r[N - n]
      BY <3>3, <3>4
    <3>6. /\ (\E q \in After(GlobAtom(c), text, at) : q \in rest)
               => \E q \in at : q \in Before(c, text, j, rest)
          /\ (c = "*" => \A x \in 1..Len(text) : text[x] # NewLine) =>
               ((\E q \in at : q \in Before(c, text, j, rest))
                  => \E q \in After(GlobAtom(c), text, at) : q \in rest)
      BY GlobAtomMeans
    <3>7. WithinLine(p, text) => (c = "*" => \A x \in 1..Len(text) : text[x] # NewLine)
      <4>1. n \in DOMAIN p /\ DOMAIN text = 1..Len(text)
        BY <1>1, LenProperties
      <4> QED
        BY <4>1 DEF WithinLine, HasStar
    <3> QED
      BY <3>2, <3>3, <3>5, <3>6, <3>7
  <2> HIDE DEF Meet
  <2>5. 0 \in To
    <3>1. 0 \in 0..N
      OBVIOUS
    <3>2. \A n \in 1..N : n \in To => n - 1 \in To
      BY <2>4
    <3> HIDE DEF To
    <3> QED
      BY <2>3, <3>1, <3>2, Downto
  <2>6. WithinLine(p, text) => 0 \in Fro
    <3> HAVE WithinLine(p, text)
    <3>1. 0 \in 0..N
      OBVIOUS
    <3>2. \A n \in 1..N : n \in Fro => n - 1 \in Fro
      BY <2>4
    <3> HIDE DEF Fro
    <3> QED
      BY <2>3, <3>1, <3>2, Downto
  <2>7. Meet(0) <=> \E i \in A[0] : Describes(p, text, i, j)
    BY <2>2 DEF Meet
  <2> QED
    BY <2>5, <2>6, <2>7
<1> QED
  BY <1>1, <1>2, <1>3

-----------------------------------------------------------------------------
(* A row of labels.                                                        *)

LEMMA LabelMovesAre ==
    ASSUME NEW C, NEW text \in Seq(C)
    PROVE  /\ LabelMoves(text) \in SUBSET (Places(text) \X Places(text))
           /\ \A m \in LabelMoves(text) :
                 /\ m[1] + 1 < m[2] /\ text[m[2] - 1] = "."
                 /\ \A i \in m[1]..(m[2] - 2) : text[i] \in LabelChars
           /\ \A x, y \in Places(text) :
                 /\ x + 1 < y /\ text[y - 1] = "."
                 /\ \A i \in x..(y - 2) : text[i] \in LabelChars
                 => \E m \in LabelMoves(text) : m[1] = x /\ m[2] = y
<1>1. LabelMoves(text) = {m \in Places(text) \X Places(text) :
          /\ m[1] + 1 < m[2] /\ text[m[2] - 1] = "."
          /\ \A i \in m[1]..(m[2] - 2) : text[i] \in LabelChars}
  BY DEF LabelMoves, Places
<1>2. ASSUME NEW x \in Places(text), NEW y \in Places(text), x + 1 < y, text[y - 1] = ".",
             \A i \in x..(y - 2) : text[i] \in LabelChars
      PROVE  \E m \in LabelMoves(text) : m[1] = x /\ m[2] = y
  <2>1. <<x, y>> \in Places(text) \X Places(text) /\ <<x, y>>[1] = x /\ <<x, y>>[2] = y
    OBVIOUS
  <2>2. PICK m \in Places(text) \X Places(text) : m[1] = x /\ m[2] = y
    BY <2>1
  <2> QED
    BY <1>1, <1>2, <2>2
<1> QED
  BY <1>1, <1>2

LEMMA SubdomainsReach ==
    ASSUME NEW C, NEW text \in Seq(C), NEW at \in SUBSET Places(text)
    PROVE  LET all == After(Subdomains, text, at)
               moves == LabelMoves(text)
           IN  /\ at \subseteq all /\ all \subseteq Places(text)
               /\ \A m \in moves : m[1] \in all => m[2] \in all
               /\ \A T : at \subseteq T /\ (\A m \in moves : m[1] \in T => m[2] \in T)
                           => all \subseteq T
<1>1. PICK L \in Nat : L = Len(text) /\ Places(text) = 1..(L + 1)
  BY LenProperties DEF Places
<1>2. PICK moves : moves = LabelMoves(text)
  OBVIOUS
<1>3. After(Subdomains, text, at) = Repeated(moves, at, L)
  BY <1>1, <1>2 DEF After, Subdomains, Atom, Moves
<1>4. /\ moves \in SUBSET ((1..(L + 1)) \X (1..(L + 1))) /\ at \in SUBSET (1..(L + 1))
      /\ \A m \in moves : m[1] < m[2]
  <2>1. moves \in SUBSET ((1..(L + 1)) \X (1..(L + 1))) /\ at \in SUBSET (1..(L + 1))
    BY <1>1, <1>2, LabelMovesAre
  <2>2. \A m \in moves : m[1] + 1 < m[2]
    BY <1>2, LabelMovesAre
  <2>3. \A m \in moves : m[1] \in 1..(L + 1) /\ m[2] \in 1..(L + 1)
    BY <2>1
  <2> QED
    BY <2>1, <2>2, <2>3
<1>5. PICK all : all = Repeated(moves, at, L)
  OBVIOUS
<1>6. /\ at \subseteq all /\ all \subseteq 1..(L + 1)
      /\ \A m \in moves : m[1] \in all => m[2] \in all
      /\ \A T : at \subseteq T /\ (\A m \in moves : m[1] \in T => m[2] \in T) => all \subseteq T
  BY <1>4, <1>5, RepeatedIs
<1> QED
  BY <1>1, <1>2, <1>3, <1>5, <1>6

-----------------------------------------------------------------------------
(* The loops of the translation and of the match.                          *)

\* What the code writes when no operator is left unescaped.
Forms(D) == {GlobAtom(c) : c \in D} \cup {Begin, End, Subdomains}

LEMMA FormsAre ==
    ASSUME NEW D, NEW a \in Forms(D)
    PROVE  a.kind \notin {"repeat", "error", "none"}
<1>1. /\ AnyRun.kind = "any" /\ Begin.kind = "begin" /\ End.kind = "end"
      /\ Subdomains.kind = "labels" /\ \A c : Literal(c).kind = "char"
  BY DEF AnyRun, Literal, Begin, End, Subdomains, Atom
<1>2. \A c : GlobAtom(c) = AnyRun \/ GlobAtom(c) = Literal(c)
  BY DEF GlobAtom
<1>3. a \in {Begin, End, Subdomains} \/ \E c : a = GlobAtom(c)
  BY DEF Forms
<1> QED
  BY <1>1, <1>2, <1>3

LEMMA FormAfter ==
    ASSUME NEW C, NEW text \in Seq(C), NEW at \in SUBSET Places(text), NEW D, NEW a \in Forms(D)
    PROVE  After(a, text, at) \in SUBSET Places(text)
<1>1. CASE a \in {Begin, End}
  BY <1>1, AnchorsAre
<1>2. CASE a = Subdomains
  BY <1>2, SubdomainsReach
<1>3. ASSUME NEW c, a = GlobAtom(c) PROVE After(a, text, at) \in SUBSET Places(text)
  <2>1. 1 \in Places(text) /\ {} \in SUBSET (1..1)
    BY LenProperties DEF Places
  <2> QED
    BY <1>3, <2>1, GlobAtomMeans
<1> QED
  BY <1>1, <1>2, <1>3 DEF Forms

\* g has where a match may stand after each atom.
IsMatch(g, regex, text) ==
    /\ g[0] = Places(text)
    /\ \A n \in 1..Len(regex) : g[n] = After(regex[n], text, g[n - 1])
    /\ MatchString(regex, text) <=> g[Len(regex)] # {}

AtOf(g, regex, text) ==
    [n \in 0..Len(regex) |-> IF n = 0 THEN Places(text) ELSE After(regex[n], text, g[n - 1])]

LEMMA MatchIs ==
    ASSUME NEW C, NEW text \in Seq(C), NEW D, NEW regex \in Seq(Forms(D))
    PROVE  \E g : IsMatch(g, regex, text)
<1>1. PICK m \in Nat : m = Len(regex)
  BY LenProperties
<1> DEFINE P == SUBSET Places(text)
           h == [n \in 1..m |-> [at \in P |-> After(regex[n], text, at)]]
<1>2. PICK f \in [0..m -> P] : Steps(f, Places(text), m, h)
  <2>1. ASSUME NEW n \in 1..m, NEW at \in P PROVE After(regex[n], text, at) \in P
    <3>1. PICK a \in Forms(D) : a = regex[n]
      BY <1>1, ElementOfSeq
    <3> QED
      BY <3>1, FormAfter
  <2>2. h \in [1..m -> [P -> P]] /\ Places(text) \in P
    BY <2>1
  <2> HIDE DEF h, P
  <2> QED
    BY <2>2, StepsExist
<1>3. ASSUME NEW n \in 1..m PROVE f[n] = After(regex[n], text, f[n - 1])
  <2>1. f[n] = h[n][f[n - 1]]
    BY <1>2 DEF Steps
  <2>2. n - 1 \in 0..m
    OBVIOUS
  <2>3. f[n - 1] \in P
    BY <1>2, <2>2
  <2> QED
    BY <2>1, <2>3
<1> HIDE DEF h
<1>4. f = AtOf(f, regex, text)
  <2>1. f = [n \in 0..m |-> f[n]]
    BY <1>2
  <2>2. \A n \in 0..m : f[n] = IF n = 0 THEN Places(text) ELSE After(regex[n], text, f[n - 1])
    <3>1. f[0] = Places(text) /\ \A n \in 0..m : n = 0 \/ n \in 1..m
      BY <1>2 DEF Steps
    <3> QED
      BY <1>3, <3>1
  <2> QED
    BY <1>1, <2>1, <2>2 DEF AtOf
<1> DEFINE at == CHOOSE g : g = AtOf(g, regex, text)
<1>5. at = AtOf(at, regex, text)
  BY <1>4
<1>6. MatchString(regex, text) <=> at[Len(regex)] # {}
  BY DEF MatchString, AtOf, Places
<1> HIDE DEF at
<1>7. PICK g : g = at
  OBVIOUS
<1>8. g = AtOf(g, regex, text)
  BY <1>5, <1>7
<1>9. \A n \in 0..m : AtOf(g, regex, text)[n] =
                        IF n = 0 THEN Places(text) ELSE After(regex[n], text, g[n - 1])
  BY <1>1 DEF AtOf
<1>10. 0 \in 0..m /\ \A n \in 1..m : n \in 0..m /\ n # 0
  OBVIOUS
<1>11. g[0] = Places(text) /\ \A n \in 1..m : g[n] = After(regex[n], text, g[n - 1])
  BY <1>8, <1>9, <1>10
<1> QED
  BY <1>1, <1>6, <1>7, <1>11 DEF IsMatch

WrittenOf(g, regex, atoms) ==
    [n \in 0..Len(atoms) |-> IF n = 0 THEN regex ELSE Then(g[n - 1], atoms[n])]

\* Without unescaped operators, what is written is put behind what there is.
LEMMA WrittenIs ==
    ASSUME NEW D, NEW regex \in Seq(Forms(D)), NEW atoms \in Seq(Forms(D))
    PROVE  Written(regex, atoms) = regex \o atoms
<1>1. PICK m \in Nat : m = Len(atoms)
  BY LenProperties
<1> DEFINE f == [n \in 0..m |-> regex \o SubSeq(atoms, 1, n)]
<1>2. \A n \in 0..m : f[n] = regex \o SubSeq(atoms, 1, n)
  OBVIOUS
<1>2a. f = [n \in 0..m |-> f[n]]
  OBVIOUS
<1> HIDE DEF f
<1>3. f[0] = regex
  <2>1. SubSeq(atoms, 1, 0) = << >> /\ 0 \in 0..m
    BY SubSeqEmpty
  <2> QED
    BY <1>2, <2>1, ConcatEmptySeq
<1>4. ASSUME NEW n \in 1..m PROVE f[n] = Then(f[n - 1], atoms[n])
  <2>1. PICK a \in Forms(D) : a = atoms[n]
    BY <1>1, ElementOfSeq
  <2>2. n - 1 \in 0..m /\ n \in 0..m /\ 1 \in 1..Len(atoms) /\ n \in 1..Len(atoms)
    BY <1>1
  <2>3. PICK front \in Seq(Forms(D)) : front = SubSeq(atoms, 1, n - 1)
    <3>1. \A i \in 1..(n - 1) : atoms[i] \in Forms(D)
      <4>1. \A i \in 1..(n - 1) : i \in 1..Len(atoms)
        BY <1>1
      <4> QED
        BY <4>1, ElementOfSeq
    <3>2. 1 \in Int /\ n - 1 \in Int
      OBVIOUS
    <3>3. SubSeq(atoms, 1, n - 1) \in Seq(Forms(D))
      BY <3>1, <3>2, SubSeqProperties
    <3> QED
      BY <3>3
  <2>4. SubSeq(atoms, 1, n) = front \o <<a>>
    BY <2>1, <2>2, <2>3, SubSeqRecursiveSecond
  <2>5. PICK before \in Seq(Forms(D)) : before = regex \o front
    <3>1. regex \o front \in Seq(Forms(D))
      BY ConcatProperties
    <3> QED
      BY <3>1
  <2>6. <<a>> \in Seq(Forms(D))
    OBVIOUS
  <2>7. regex \o (front \o <<a>>) = before \o <<a>>
    BY <2>5, <2>6, ConcatAssociative
  <2>8. before \o <<a>> = Append(before, a)
    BY AppendIsConcat
  <2>9. before # Error
    <3>1. Error = <<Atom("error", "", "once")>> /\ Len(Error) = 1 /\ Error[1].kind = "error"
      BY DEF Error, Atom
    <3>2. before = Error => before[1] \in Forms(D)
      <4> HAVE before = Error
      <4>0. Len(before) = 1
        BY <3>1
      <4>1. 1 \in 1..Len(before)
        BY <4>0
      <4> QED
        BY <4>1, ElementOfSeq
    <3> QED
      BY <3>1, <3>2, FormsAre
  <2>10. Then(before, a) = Append(before, a)
    BY <2>1, <2>9, FormsAre DEF Then
  <2> QED
    BY <1>2, <2>1, <2>2, <2>3, <2>4, <2>5, <2>7, <2>8, <2>10
<1>5. f = WrittenOf(f, regex, atoms)
  <2>1. \A n \in 0..m : f[n] = IF n = 0 THEN regex ELSE Then(f[n - 1], atoms[n])
    <3>1. \A n \in 0..m : n = 0 \/ n \in 1..m
      OBVIOUS
    <3> QED
      BY <1>3, <1>4, <3>1
  <2> QED
    BY <1>1, <1>2a, <2>1 DEF WrittenOf
<1> DEFINE written == CHOOSE g : g = WrittenOf(g, regex, atoms)
<1>6. written = WrittenOf(written, regex, atoms)
  BY <1>5
<1>7. Written(regex, atoms) = written[Len(atoms)]
  BY DEF Written, WrittenOf
<1> HIDE DEF written
<1>8. PICK g : g = written
  OBVIOUS
<1>9. g = WrittenOf(g, regex, atoms)
  BY <1>6, <1>8
<1>10. \A n \in 0..m : g[n] = IF n = 0 THEN regex ELSE Then(g[n - 1], atoms[n])
  <2>1. \A n \in 0..m : WrittenOf(g, regex, atoms)[n] =
                           IF n = 0 THEN regex ELSE Then(g[n - 1], atoms[n])
    BY <1>1 DEF WrittenOf
  <2> QED
    BY <1>9, <2>1
<1> DEFINE Same == {n \in 0..m : g[n] = f[n]}
<1>11. 0 \in Same
  <2>1. 0 \in 0..m
    OBVIOUS
  <2> QED
    BY <1>3, <1>10, <2>1
<1>12. ASSUME NEW n \in 0..(m - 1), n \in Same PROVE n + 1 \in Same
  <2>1. n + 1 \in 1..m /\ n + 1 \in 0..m /\ n + 1 # 0 /\ (n + 1) - 1 = n
    OBVIOUS
  <2>2. f[n + 1] = Then(f[n], atoms[n + 1]) /\ g[n + 1] = Then(g[n], atoms[n + 1])
    BY <1>4, <1>10, <2>1
  <2> QED
    BY <1>12, <2>1, <2>2
<1>13. m \in Same
  <2>1. m \in 0..m
    OBVIOUS
  <2> HIDE DEF Same
  <2> QED
    BY <1>11, <1>12, <2>1, Upto
<1>14. f[m] = regex \o atoms
  <2>1. m \in 0..m
    OBVIOUS
  <2> QED
    BY <1>1, <1>2, <2>1, SubSeqFull
<1> QED
  BY <1>1, <1>7, <1>8, <1>13, <1>14

LEMMA GlobsAre ==
    ASSUME NEW D, NEW p \in Seq(D)
    PROVE  /\ Globs(p) \in Seq(Forms(D)) /\ Len(Globs(p)) = Len(p)
           /\ \A i \in 1..Len(p) : Globs(p)[i] = GlobAtom(p[i])
<1>1. Len(p) \in Nat /\ DOMAIN p = 1..Len(p) /\ \A i \in 1..Len(p) : p[i] \in D
  BY LenProperties, ElementOfSeq
<1>2. \A i \in 1..Len(p) : GlobAtom(p[i]) \in Forms(D)
  BY <1>1 DEF Forms
<1>3. PICK f : f = [i \in 1..Len(p) |-> GlobAtom(p[i])]
  OBVIOUS
<1>4. f \in [1..Len(p) -> Forms(D)] /\ \A i \in 1..Len(p) : f[i] = GlobAtom(p[i])
  BY <1>2, <1>3
<1>5. f \in Seq(Forms(D)) /\ Len(f) = Len(p)
  BY <1>1, <1>4, SeqDef
<1> QED
  BY <1>1, <1>3, <1>4, <1>5 DEF Globs

\* An expression of these atoms is neither an error nor a missing matcher.
LEMMA FormsCompile ==
    ASSUME NEW D, NEW regex \in Seq(Forms(D)), regex # << >>
    PROVE  regex # Error /\ regex # NoMatcher
<1>1. 1 \in 1..Len(regex)
  BY EmptySeq
<1>2. regex[1].kind \notin {"repeat", "error", "none"}
  BY <1>1, ElementOfSeq, FormsAre
<1>3. Error[1].kind = "error" /\ NoMatcher[1].kind = "none"
  BY DEF Error, NoMatcher, Atom
<1> QED
  BY <1>2, <1>3

LEMMA GlobMatches ==
    ASSUME NEW C, NEW text \in Seq(C), NEW D, NEW p \in Seq(D)
    PROVE  /\ MatchString(Globs(p), text)
                => \E i, j \in Places(text) : Describes(p, text, i, j)
           /\ WithinLine(p, text) =>
                ((\E i, j \in Places(text) : Describes(p, text, i, j))
                   => MatchString(Globs(p), text))
<1>1. PICK g : IsMatch(g, Globs(p), text)
  BY GlobsAre, MatchIs
<1>2. /\ g[0] = Places(text) /\ \A n \in 1..Len(p) : g[n] = After(GlobAtom(p[n]), text, g[n - 1])
      /\ MatchString(Globs(p), text) <=> g[Len(p)] # {}
  BY <1>1, GlobsAre DEF IsMatch
<1>3. /\ \A n \in 0..Len(p) : g[n] \in SUBSET Places(text)
      /\ \A j \in Places(text) :
           j \in g[Len(p)] => \E i \in g[0] : Describes(p, text, i, j)
      /\ WithinLine(p, text) =>
           \A j \in Places(text) :
              (\E i \in g[0] : Describes(p, text, i, j)) => j \in g[Len(p)]
  <2>1. g[0] \in SUBSET Places(text)
    BY <1>2
  <2> QED
    BY <1>2, <2>1, GlobMeans
<1>4. Len(p) \in 0..Len(p)
  BY LenProperties
<1> QED
  BY <1>2, <1>3, <1>4

LEMMA GlobToRegexIs ==
    ASSUME NEW D, NEW p \in Seq(D)
    PROVE  GlobToRegex(p) = Globs(p)
<1>1. GlobToRegex(p) = Written(<< >>, Globs(p))
  BY DEF GlobToRegex, Globs, GlobAtom
<1>2. << >> \in Seq(Forms(D)) /\ Globs(p) \in Seq(Forms(D))
  BY GlobsAre, EmptySeq
<1> QED
  BY <1>1, <1>2, WrittenIs, ConcatEmptySeq

-----------------------------------------------------------------------------
(* The state: what is written, what it is compiled to, what it is asked.   *)

\* The rule is what CompileRule makes of the pattern that stands in the file.
SoFar ==
    /\ pattern \in Seq(PatternChars) /\ subject \in Seq(SubjectChars)
    /\ kind \in {"command", "domain"}
    /\ \/ rule = Uncompiled
       \/ kind = "command" /\ rule = CompileRule(pattern, << >>)
       \/ kind = "domain" /\ rule = CompileRule(<< >>, pattern)

LEMMA SoFarHolds == Spec => []SoFar
<1>1. Init => SoFar
  BY EmptySeq DEF Init, SoFar
<1>2. SoFar /\ [Next]_vars => SoFar'
  <2> SUFFICES ASSUME SoFar, [Next]_vars PROVE SoFar'
    OBVIOUS
  <2>1. ASSUME NEW c \in PatternChars, Write(c) PROVE SoFar'
    BY <2>1, AppendProperties DEF SoFar, Write
  <2>2. CASE Compile
    BY <2>2 DEF SoFar, Compile
  <2>3. ASSUME NEW c \in SubjectChars, Say(c) PROVE SoFar'
    BY <2>3, AppendProperties DEF SoFar, Say
  <2>4. CASE UNCHANGED vars
    BY <2>4 DEF SoFar, vars
  <2> QED
    BY <2>1, <2>2, <2>3, <2>4 DEF Next
<1> QED
  BY <1>1, <1>2, PTL DEF Spec

\* The pattern of a command always compiles, and the compiled rule matches a
\* command only when the glob describes a part of it, and always when it does
\* and no star has a line end to cross (globToRegex and MatchCommand), whatever
\* the pattern and the command.
THEOREM CommandsMatchGlobs == Spec => []CommandMeansGlob
<1>1. SoFar => CommandMeansGlob
  <2> SUFFICES ASSUME SoFar, kind = "command"
               PROVE  /\ rule # Broken
                      /\ Compiled /\ pattern # << >> =>
                          /\ MatchCommand(rule, subject) => Described
                          /\ Described /\ WithinLine(pattern, subject)
                               => MatchCommand(rule, subject)
    BY DEF CommandMeansGlob
  <2>1. /\ GlobToRegex(pattern) = Globs(pattern)
        /\ Globs(pattern) \in Seq(Forms(PatternChars)) /\ Len(Globs(pattern)) = Len(pattern)
    BY GlobToRegexIs, GlobsAre DEF SoFar
  <2>2. pattern # << >> => Globs(pattern) # Error /\ Globs(pattern) # NoMatcher
    <3> HAVE pattern # << >>
    <3>1. Globs(pattern) # << >>
      BY <2>1, EmptySeq DEF SoFar
    <3> QED
      BY <2>1, <3>1, FormsCompile
  <2>3. NoMatcher # Error /\ Uncompiled # Broken
    <3>1. NoMatcher[1].kind = "none" /\ Error[1].kind = "error" /\ Len(Error) = 1
      BY DEF NoMatcher, Error, Atom
    <3> QED
      BY <3>1 DEF Uncompiled, Broken
  <2>4. rule = Uncompiled \/
        rule = [command |-> IF pattern = << >> THEN NoMatcher ELSE Globs(pattern),
                domain  |-> NoMatcher]
    BY <2>1, <2>2, <2>3 DEF SoFar, CompileRule
  <2>5. rule # Broken
    BY <2>2, <2>3, <2>4 DEF Broken
  <2>6. ASSUME Compiled, pattern # << >>
        PROVE  MatchCommand(rule, subject) <=> MatchString(Globs(pattern), subject)
    BY <2>2, <2>4, <2>6 DEF Compiled, MatchCommand
  <2>7. Described <=> \E i, j \in Places(subject) : Describes(pattern, subject, i, j)
    BY DEF Described, Places
  <2> QED
    BY <2>5, <2>6, <2>7, GlobMatches DEF SoFar
<1> QED
  BY <1>1, SoFarHolds, PTL

-----------------------------------------------------------------------------
(* Upper and lower case.                                                   *)

LEMMA LowerIs ==
    ASSUME NEW c
    PROVE  /\ Lower(Lower(c)) = Lower(c)
           /\ \A x \in {"*", ".", "+", NewLine} : Lower(c) = x <=> c = x
           /\ Lower(c) \in LabelChars <=> c \in LabelChars
           /\ "." \notin LabelChars
<1>1. CASE c \in DOMAIN LowerCase
  <2>1. LowerCase[c] \notin DOMAIN LowerCase /\ c \in LabelChars /\ LowerCase[c] \in LabelChars
    BY <1>1, AlphabetAssumption DEF Letters
  <2> QED
    BY <1>1, <2>1, AlphabetAssumption DEF Lower, Special
<1>2. CASE c \notin DOMAIN LowerCase
  BY <1>2, AlphabetAssumption DEF Lower, Special
<1> QED
  BY <1>1, <1>2

LEMMA ToLowerIs ==
    ASSUME NEW C, NEW s \in Seq(C)
    PROVE  /\ ToLower(s) \in Seq({Lower(c) : c \in C}) /\ Len(ToLower(s)) = Len(s)
           /\ \A i \in 1..Len(s) : ToLower(s)[i] = Lower(s[i])
<1>1. Len(s) \in Nat /\ DOMAIN s = 1..Len(s) /\ \A i \in 1..Len(s) : s[i] \in C
  BY LenProperties, ElementOfSeq
<1>2. PICK f : f = [i \in 1..Len(s) |-> Lower(s[i])]
  OBVIOUS
<1>3. f \in [1..Len(s) -> {Lower(c) : c \in C}] /\ \A i \in 1..Len(s) : f[i] = Lower(s[i])
  BY <1>1, <1>2
<1>4. f \in Seq({Lower(c) : c \in C}) /\ Len(f) = Len(s)
  BY <1>1, <1>3, SeqDef
<1> QED
  BY <1>1, <1>2, <1>3, <1>4 DEF ToLower

LEMMA BeforeLower ==
    ASSUME NEW C, NEW t \in Seq(C), NEW c, NEW j \in Places(t), NEW rest \in SUBSET (1..j)
    PROVE  Before(Lower(c), ToLower(t), j, rest) = Before(c, t, j, rest)
<1>1. PICK L \in Nat : L = Len(t) /\ j \in 1..(L + 1)
  BY LenProperties DEF Places
<1>2. PICK low : low = ToLower(t) /\ \A i \in 1..L : low[i] = Lower(t[i])
  BY <1>1, ToLowerIs
<1>3. Lower(c) = "*" <=> c = "*"
  BY LowerIs
<1>4. CASE c = "*"
  BY <1>3, <1>4 DEF Before
<1>5. CASE c # "*"
  <2>1. ASSUME NEW q \in 1..(j - 1)
        PROVE  Lower(Lower(c)) = Lower(low[q]) <=> Lower(c) = Lower(t[q])
    <3>1. q \in 1..L
      BY <1>1
    <3> QED
      BY <1>2, <3>1, LowerIs
  <2>2. Before(c, t, j, rest) = {q \in 1..(j - 1) : Lower(c) = Lower(t[q]) /\ q + 1 \in rest}
    BY <1>5 DEF Before
  <2>3. Before(Lower(c), low, j, rest) =
          {q \in 1..(j - 1) : Lower(Lower(c)) = Lower(low[q]) /\ q + 1 \in rest}
    BY <1>3, <1>5 DEF Before
  <2> QED
    BY <1>2, <2>1, <2>2, <2>3
<1> QED
  BY <1>4, <1>5

\* What a glob describes does not depend on the case of either.
LEMMA DescribesLower ==
    ASSUME NEW C, NEW t \in Seq(C), NEW D, NEW p \in Seq(D), NEW j \in Places(t), NEW i
    PROVE  Describes(ToLower(p), ToLower(t), i, j) <=> Describes(p, t, i, j)
<1>1. j \in Nat \ {0}
  BY LenProperties DEF Places
<1>2. PICK N \in Nat : N = Len(p) /\ N = Len(ToLower(p))
  BY LenProperties, ToLowerIs
<1>3. PICK r \in [0..N -> SUBSET (1..j)] : IsFrom(r, p, t, j)
  BY <1>1, <1>2, FromExists
<1>4. IsFrom(r, ToLower(p), ToLower(t), j)
  <2>1. ASSUME NEW n \in 1..N
        PROVE  r[n] = Before(ToLower(p)[N - n + 1], ToLower(t), j, r[n - 1])
    <3>1. N - n + 1 \in 1..N /\ n - 1 \in 0..N
      OBVIOUS
    <3>2. PICK rest \in SUBSET (1..j), c \in {p[N - n + 1]} : rest = r[n - 1]
      BY <3>1
    <3>3. ToLower(p)[N - n + 1] = Lower(c)
      BY <1>2, <3>1, <3>2, ToLowerIs
    <3>4. r[n] = Before(c, t, j, rest)
      BY <1>2, <1>3, <3>2 DEF IsFrom
    <3>5. Before(Lower(c), ToLower(t), j, rest) = Before(c, t, j, rest)
      BY BeforeLower
    <3> QED
      BY <3>2, <3>3, <3>4, <3>5
  <2> QED
    BY <1>2, <1>3, <2>1 DEF IsFrom
<1>5. Describes(p, t, i, j) <=> i \in r[N]
  BY <1>1, <1>2, <1>3, DescribesIs
<1>6. Describes(ToLower(p), ToLower(t), i, j) <=> i \in r[N]
  <2>1. ToLower(p) \in Seq({Lower(c) : c \in D})
    BY ToLowerIs
  <2> QED
    BY <1>1, <1>2, <1>4, <2>1, DescribesIs
<1> QED
  BY <1>5, <1>6

-----------------------------------------------------------------------------
(* A domain: the expression is anchored at both ends.                      *)

LEMMA PlainlyWritten ==
    ASSUME NEW D, NEW s \in Seq(D)
    PROVE  /\ ~HasStar(s) => Escaped(s) = Globs(s)
           /\ (\A i \in 1..Len(s) : s[i] # "+") => Wild(s) = Globs(s)
<1>1. DOMAIN s = 1..Len(s)
  BY LenProperties
<1> QED
  BY <1>1 DEF HasStar, Escaped, Wild, Globs, GlobAtom, Raw, Special

\* g has where a match may stand after each atom of pre, and what the glob p
\* describes to the end of the text makes the match, line ends apart.
IsEnded(g, pre, p, text) ==
    /\ g[0] = Places(text) /\ \A n \in 1..Len(pre) : g[n] = After(pre[n], text, g[n - 1])
    /\ MatchString(Then(Written(pre, Globs(p)), End), text)
         => \E i \in g[Len(pre)] : Describes(p, text, i, Len(text) + 1)
    /\ WithinLine(p, text) =>
         ((\E i \in g[Len(pre)] : Describes(p, text, i, Len(text) + 1))
            => MatchString(Then(Written(pre, Globs(p)), End), text))

LEMMA EndedCompiles ==
    ASSUME NEW D, NEW p \in Seq(D), NEW pre \in Seq(Forms(D)), pre # << >>
    PROVE  LET regex == Then(Written(pre, Globs(p)), End) IN
           /\ regex = Append(pre \o Globs(p), End) /\ regex \in Seq(Forms(D))
           /\ regex # Error /\ regex # NoMatcher
<1>1. Globs(p) \in Seq(Forms(D)) /\ End \in Forms(D)
  BY GlobsAre DEF Forms
<1>2. PICK front \in Seq(Forms(D)) : front = pre \o Globs(p)
  <2>1. pre \o Globs(p) \in Seq(Forms(D))
    BY <1>1, ConcatProperties
  <2> QED
    BY <2>1
<1>3. Written(pre, Globs(p)) = front
  BY <1>1, <1>2, WrittenIs
<1>4. front # << >>
  BY <1>1, <1>2, ConcatEqualIffEmpty
<1>5. front # Error
  BY <1>4, FormsCompile
<1>6. End.kind # "repeat"
  BY DEF End, Atom
<1>7. Then(front, End) = Append(front, End)
  BY <1>5, <1>6 DEF Then
<1>8. Append(front, End) \in Seq(Forms(D)) /\ Append(front, End) # << >>
  BY <1>1, AppendProperties
<1>9. Append(front, End) # Error /\ Append(front, End) # NoMatcher
  BY <1>8, FormsCompile
<1> QED
  BY <1>2, <1>3, <1>7, <1>8, <1>9

LEMMA EndedMatches ==
    ASSUME NEW C, NEW text \in Seq(C), NEW D, NEW p \in Seq(D),
           NEW pre \in Seq(Forms(D)), pre # << >>
    PROVE  \E g : IsEnded(g, pre, p, text)
<1>1. PICK a \in Nat, N \in Nat, regex \in Seq(Forms(D)) :
        a = Len(pre) /\ N = Len(p) /\ regex = Then(Written(pre, Globs(p)), End)
  BY LenProperties, EndedCompiles
<1>2. /\ Globs(p) \in Seq(Forms(D)) /\ Len(Globs(p)) = N
      /\ \A n \in 1..N : Globs(p)[n] = GlobAtom(p[n])
  BY <1>1, GlobsAre
<1>3. /\ Len(regex) = a + N + 1 /\ regex[a + N + 1] = End
      /\ \A n \in 1..a : regex[n] = pre[n]
      /\ \A n \in 1..N : regex[a + n] = GlobAtom(p[n])
  <2>1. PICK front \in Seq(Forms(D)) : front = pre \o Globs(p)
    <3>1. pre \o Globs(p) \in Seq(Forms(D))
      BY <1>2, ConcatProperties
    <3> QED
      BY <3>1
  <2>2. /\ Len(front) = a + N
        /\ \A n \in 1..(a + N) : front[n] = IF n <= a THEN pre[n] ELSE Globs(p)[n - a]
    <3>1. PICK globs \in Seq(Forms(D)) : globs = Globs(p)
      BY <1>2
    <3>2. /\ Len(pre \o globs) = Len(pre) + Len(globs)
          /\ \A n \in 1..(Len(pre) + Len(globs)) :
               (pre \o globs)[n] = IF n <= Len(pre) THEN pre[n] ELSE globs[n - Len(pre)]
      BY ConcatProperties
    <3> QED
      BY <1>1, <1>2, <2>1, <3>1, <3>2
  <2>3. regex = Append(front, End) /\ End \in Forms(D)
    BY <1>1, <2>1, EndedCompiles DEF Forms
  <2>4. /\ Len(regex) = a + N + 1 /\ regex[a + N + 1] = End
        /\ \A n \in 1..(a + N) : regex[n] = front[n]
    BY <2>2, <2>3, AppendProperties
  <2>5. ASSUME NEW n \in 1..a PROVE regex[n] = pre[n]
    <3>1. n \in 1..(a + N) /\ n <= a
      OBVIOUS
    <3> QED
      BY <2>2, <2>4, <3>1
  <2>6. ASSUME NEW n \in 1..N PROVE regex[a + n] = GlobAtom(p[n])
    <3>1. a + n \in 1..(a + N) /\ ~(a + n <= a) /\ (a + n) - a = n
      OBVIOUS
    <3> QED
      BY <1>2, <2>2, <2>4, <3>1
  <2> QED
    BY <2>4, <2>5, <2>6
<1>4. PICK g : IsMatch(g, regex, text)
  BY MatchIs
<1>5. /\ g[0] = Places(text)
      /\ \A n \in 1..(a + N + 1) : g[n] = After(regex[n], text, g[n - 1])
      /\ MatchString(regex, text) <=> g[a + N + 1] # {}
  BY <1>3, <1>4 DEF IsMatch
<1>6. \A n \in 1..a : g[n] = After(pre[n], text, g[n - 1])
  <2>1. \A n \in 1..a : n \in 1..(a + N + 1)
    OBVIOUS
  <2> QED
    BY <1>3, <1>5, <2>1
<1>7. g[a] \in SUBSET Places(text)
  <2> DEFINE In == {n \in 0..a : g[n] \in SUBSET Places(text)}
  <2>1. 0 \in In
    BY <1>5
  <2>2. ASSUME NEW n \in 0..(a - 1), n \in In PROVE n + 1 \in In
    <3>1. n + 1 \in 1..a /\ n + 1 \in 0..a /\ (n + 1) - 1 = n
      OBVIOUS
    <3>2. PICK at \in SUBSET Places(text), f \in Forms(D) : at = g[n] /\ f = pre[n + 1]
      BY <1>1, <2>2, <3>1, ElementOfSeq
    <3>3. g[n + 1] = After(f, text, at)
      BY <1>6, <3>1, <3>2
    <3> QED
      BY <3>1, <3>3, FormAfter
  <2>3. a \in 0..a
    OBVIOUS
  <2>4. a \in In
    <3> HIDE DEF In
    <3> QED
      BY <2>1, <2>2, <2>3, Upto
  <2> QED
    BY <2>4
<1>8. /\ g[a + N] \in SUBSET Places(text)
      /\ \A j \in Places(text) : j \in g[a + N] => \E i \in g[a] : Describes(p, text, i, j)
      /\ WithinLine(p, text) =>
           \A j \in Places(text) :
              (\E i \in g[a] : Describes(p, text, i, j)) => j \in g[a + N]
  <2>1. PICK A : A = [n \in 0..N |-> g[a + n]]
    OBVIOUS
  <2>2. \A n \in 0..N : A[n] = g[a + n]
    BY <2>1
  <2>3. A[0] = g[a] /\ A[N] = g[a + N]
    <3>1. 0 \in 0..N /\ N \in 0..N /\ a + 0 = a
      OBVIOUS
    <3> QED
      BY <2>2, <3>1
  <2>4. ASSUME NEW n \in 1..N PROVE A[n] = After(GlobAtom(p[n]), text, A[n - 1])
    <3>1. n \in 0..N /\ n - 1 \in 0..N /\ a + n \in 1..(a + N + 1) /\ (a + n) - 1 = a + (n - 1)
      OBVIOUS
    <3> QED
      BY <1>3, <1>5, <2>2, <3>1
  <2>5. /\ \A n \in 0..Len(p) : A[n] \in SUBSET Places(text)
        /\ \A j \in Places(text) : j \in A[Len(p)] => \E i \in A[0] : Describes(p, text, i, j)
        /\ WithinLine(p, text) =>
             \A j \in Places(text) :
                (\E i \in A[0] : Describes(p, text, i, j)) => j \in A[Len(p)]
    <3>1. A[0] \in SUBSET Places(text) /\ \A n \in 1..Len(p) : A[n] = After(GlobAtom(p[n]), text, A[n - 1])
      BY <1>1, <1>7, <2>3, <2>4
    <3> QED
      BY <3>1, GlobMeans
  <2>6. N \in 0..Len(p)
    BY <1>1
  <2> QED
    BY <1>1, <2>3, <2>5, <2>6
<1>9. g[a + N + 1] = g[a + N] \cap {Len(text) + 1}
  <2>1. a + N + 1 \in 1..(a + N + 1) /\ (a + N + 1) - 1 = a + N
    OBVIOUS
  <2>2. PICK at \in SUBSET Places(text) : at = g[a + N]
    BY <1>8
  <2>3. g[a + N + 1] = After(End, text, at)
    BY <1>3, <1>5, <2>1, <2>2
  <2> QED
    BY <2>2, <2>3, AnchorsAre
<1>10. Len(text) + 1 \in Places(text)
  BY LenProperties DEF Places
<1>11. /\ MatchString(regex, text) => \E i \in g[a] : Describes(p, text, i, Len(text) + 1)
       /\ WithinLine(p, text) =>
            ((\E i \in g[a] : Describes(p, text, i, Len(text) + 1)) => MatchString(regex, text))
  BY <1>5, <1>8, <1>9, <1>10
<1> QED
  BY <1>1, <1>5, <1>6, <1>11 DEF IsEnded

\* From i to j, t agrees with p, in either case.
Agrees(p, t, i, j) ==
    i = j - Len(p) /\ i >= 1 /\ \A k \in 1..Len(p) : Lower(p[k]) = Lower(t[i - 1 + k])

\* Without a star, the glob describes just the text that agrees with it.
LEMMA PlainDescribes ==
    ASSUME NEW t, NEW D, NEW p \in Seq(D), ~HasStar(p), NEW j \in Nat \ {0}, NEW i
    PROVE  Describes(p, t, i, j) <=> Agrees(p, t, i, j)
<1>1. PICK N \in Nat : N = Len(p) /\ DOMAIN p = 1..N
  BY LenProperties
<1>2. PICK e \in Int : e = j - 1 - N
  OBVIOUS
<1> DEFINE Agree(n) == \A k \in (N - n + 1)..N : Lower(p[k]) = Lower(t[e + k])
           r == [n \in 0..N |-> {q \in 1..j : q = j - n /\ Agree(n)}]
<1>3. r[0] = {j}
  <2>1. r[0] = {q \in 1..j : q = j - 0 /\ Agree(0)}
    OBVIOUS
  <2>2. Agree(0)
    OBVIOUS
  <2> HIDE DEF Agree, r
  <2> QED
    BY <2>1, <2>2
<1>4. ASSUME NEW n \in 1..N PROVE r[n] = Before(p[N - n + 1], t, j, r[n - 1])
  <2>1. /\ n \in 0..N /\ n - 1 \in 0..N /\ N - n + 1 \in 1..N /\ e + (N - n + 1) = j - n
        /\ N - (n - 1) + 1 = (N - n + 1) + 1
    BY <1>2
  <2>2. /\ r[n] = {q \in 1..j : q = j - n /\ Agree(n)}
        /\ r[n - 1] = {q \in 1..j : q = j - (n - 1) /\ Agree(n - 1)}
    BY <2>1
  <2>3. PICK c : c = p[N - n + 1] /\ c # "*"
    BY <1>1, <2>1 DEF HasStar
  <2>4. Agree(n) <=> Agree(n - 1) /\ Lower(c) = Lower(t[j - n])
    <3>1. \A k : k \in (N - n + 1)..N <=> k = N - n + 1 \/ k \in (N - (n - 1) + 1)..N
      BY <2>1
    <3> QED
      BY <2>1, <2>3, <3>1
  <2>5. PICK rest : rest = r[n - 1]
    OBVIOUS
  <2>6. Before(c, t, j, rest) = {q \in 1..(j - 1) : Lower(c) = Lower(t[q]) /\ q + 1 \in rest}
    BY <2>3 DEF Before
  <2> HIDE DEF r, Agree
  <2>7. ASSUME NEW q
        PROVE  q \in {x \in 1..j : x = j - n /\ Agree(n)} <=> 
               q \in {x \in 1..(j - 1) : Lower(c) = Lower(t[x]) /\ x + 1 \in rest}
    <3>1. CASE q \in 1..(j - 1)
      <4>1. q + 1 \in rest <=> q = j - n /\ Agree(n - 1)
        BY <2>2, <2>5, <3>1
      <4> QED
        BY <2>4, <3>1, <4>1
    <3>2. CASE q \notin 1..(j - 1)
      <4>1. ~(q \in 1..j /\ q = j - n)
        BY <3>2
      <4> QED
        BY <3>2, <4>1
    <3> QED
      BY <3>1, <3>2
  <2> QED
    BY <2>2, <2>3, <2>5, <2>6, <2>7
<1>5. IsFrom(r, p, t, j)
  <2> HIDE DEF r
  <2> QED
    BY <1>1, <1>3, <1>4 DEF IsFrom
<1>6. Describes(p, t, i, j) <=> i \in r[N]
  <2> HIDE DEF r
  <2> QED
    BY <1>1, <1>5, DescribesIs
<1>7. N \in 0..N /\ r[N] = {q \in 1..j : q = j - N /\ Agree(N)}
  OBVIOUS
<1>8. Agree(N) <=> \A k \in 1..N : Lower(p[k]) = Lower(t[e + k])
  <2>1. N - N + 1 = 1
    OBVIOUS
  <2> QED
    BY <2>1
<1> HIDE DEF r, Agree
<1>9. i = j - N => \A k \in 1..N : i - 1 + k = e + k
  BY <1>2
<1>10. i = j - N => (i \in 1..j <=> i >= 1)
  OBVIOUS
<1> QED
  BY <1>1, <1>6, <1>7, <1>8, <1>9, <1>10 DEF Agrees

\* A set of numbers has a least one.
LEMMA Least ==
    ASSUME NEW S \in SUBSET Nat, S # {}
    PROVE  \E x \in S : \A y \in S : x <= y
<1>1. PICK x \in S : \A y \in S : ~ (<<y, x>> \in OpToRel(<, Nat))
  BY NatLessThanWellFounded, WFMin
<1>2. ASSUME NEW y \in S PROVE x <= y
  <2>1. x \in Nat /\ y \in Nat
    OBVIOUS
  <2>2. y < x => <<y, x>> \in OpToRel(<, Nat)
    BY <2>1 DEF OpToRel
  <2>3. ~(y < x)
    BY <1>1, <2>2
  <2> QED
    BY <2>1, <2>3
<1> QED
  BY <1>2

\* ([a-z0-9-]+\.)* leads from the start to just the ends of rows of labels.
LEMMA SubdomainsAre ==
    ASSUME NEW C, NEW text \in Seq(C), NEW q
    PROVE  q \in After(Subdomains, text, {1}) <=> q \in Places(text) /\ Labels(text, q - 1)
<1>1. PICK L \in Nat : L = Len(text) /\ Places(text) = 1..(L + 1)
  BY LenProperties DEF Places
<1>2. PICK moves : moves = LabelMoves(text)
  OBVIOUS
<1>3. PICK all : all = After(Subdomains, text, {1})
  OBVIOUS
<1>4. /\ 1 \in all /\ all \subseteq Places(text)
      /\ \A m \in moves : m[1] \in all => m[2] \in all
      /\ \A T : 1 \in T /\ (\A m \in moves : m[1] \in T => m[2] \in T) => all \subseteq T
  <2>1. {1} \in SUBSET Places(text) /\ \A T : {1} \subseteq T <=> 1 \in T
    BY <1>1
  <2> QED
    BY <1>2, <1>3, <2>1, SubdomainsReach
<1> DEFINE T == {x \in Places(text) : Labels(text, x - 1)}
<1>5. "." \notin LabelChars
  BY LowerIs
<1>6. all \subseteq T
  <2>1. 1 \in T
    BY <1>1 DEF Labels
  <2>2. ASSUME NEW m \in moves, m[1] \in T PROVE m[2] \in T
    <3>1. PICK x \in 1..(L + 1), y \in 1..(L + 1) : x = m[1] /\ y = m[2]
      BY <1>1, <1>2, LabelMovesAre
    <3>2. /\ x + 1 < y /\ text[y - 1] = "." /\ \A i \in x..(y - 2) : text[i] \in LabelChars
      BY <1>2, <3>1, LabelMovesAre
    <3>3. \A i \in 1..(x - 1) : text[i] \in LabelChars \/ (text[i] = "." /\ i > 1 /\ text[i - 1] # ".")
      BY <2>2, <3>1 DEF Labels
    <3>4. text[y - 2] # "." /\ y - 1 > 1
      <4>1. y - 2 \in x..(y - 2)
        BY <3>2
      <4> QED
        BY <1>5, <3>2, <4>1
    <3>5. ASSUME NEW i \in 1..(y - 1)
          PROVE  text[i] \in LabelChars \/ (text[i] = "." /\ i > 1 /\ text[i - 1] # ".")
      <4>1. i \in 1..(x - 1) \/ i \in x..(y - 2) \/ (i = y - 1 /\ i - 1 = y - 2)
        OBVIOUS
      <4> QED
        BY <3>2, <3>3, <3>4, <4>1
    <3> QED
      BY <1>1, <3>1, <3>2, <3>5 DEF Labels
  <2> HIDE DEF T
  <2> QED
    BY <1>4, <2>1, <2>2
<1> DEFINE In == {n \in 0..(L + 1) : \A x \in 1..n : x \in T => x \in all}
<1>7. 0 \in In
  OBVIOUS
<1>8. ASSUME NEW n \in 0..L, n \in In PROVE n + 1 \in In
  <2>1. ASSUME n + 1 \in T PROVE n + 1 \in all
    <3>1. CASE n = 0
      BY <1>4, <3>1
    <3>2. CASE n # 0
      <4>1. /\ n \in 1..L /\ (n + 1) - 1 = n /\ text[n] = "."
            /\ \A i \in 1..n : text[i] \in LabelChars
                                 \/ (text[i] = "." /\ i > 1 /\ text[i - 1] # ".")
        BY <2>1, <3>2 DEF Labels
      <4>2. n > 1 /\ text[n - 1] # "." /\ n - 1 \in 1..n
        <5>1. n \in 1..n
          BY <3>2
        <5> QED
          BY <1>5, <4>1, <5>1
      <4> DEFINE Starts == {x \in 1..(n - 1) : \A i \in x..(n - 1) : text[i] \in LabelChars}
      <4>3. n - 1 \in Starts
        <5>1. n - 1 \in 1..(n - 1) /\ \A i \in (n - 1)..(n - 1) : i = n - 1
          BY <4>2
        <5> QED
          BY <4>1, <4>2, <5>1
      <4>4. PICK x \in Starts : \A y \in Starts : x <= y
        <5>1. Starts \in SUBSET Nat
          OBVIOUS
        <5>2. Starts # {}
          BY <4>3
        <5> HIDE DEF Starts
        <5> QED
          BY <5>1, <5>2, Least
      <4>5. x \in 1..(n - 1) /\ \A i \in x..(n - 1) : text[i] \in LabelChars
        OBVIOUS
      <4>6. x > 1 => text[x - 1] = "."
        <5> SUFFICES ASSUME x > 1, text[x - 1] # "." PROVE FALSE
          OBVIOUS
        <5>1. x - 1 \in 1..n /\ x - 1 \in 1..(n - 1)
          BY <4>5
        <5>2. \A i \in (x - 1)..(n - 1) : i = x - 1 \/ i \in x..(n - 1)
          BY <4>5
        <5>3. x - 1 \in Starts
          BY <4>1, <4>5, <5>1, <5>2
        <5> HIDE DEF Starts
        <5> QED
          BY <4>4, <4>5, <5>3
      <4>7. x \in T
        <5>1. x \in Places(text) /\ \A i \in 1..(x - 1) : i \in 1..n
          BY <1>1, <4>5
        <5> QED
          BY <4>1, <4>5, <4>6, <5>1 DEF Labels
      <4>8. x \in all
        <5>1. x \in 1..n
          BY <4>5
        <5> HIDE DEF T
        <5> QED
          BY <1>8, <4>7, <5>1
      <4>9. PICK m \in moves : m[1] = x /\ m[2] = n + 1
        <5>1. /\ x \in Places(text) /\ n + 1 \in Places(text) /\ x + 1 < n + 1
              /\ (n + 1) - 1 = n /\ (n + 1) - 2 = n - 1
          BY <1>1, <4>2, <4>5
        <5>2. PICK y \in Places(text) : y = n + 1
          BY <5>1
        <5>3. /\ x + 1 < y /\ text[y - 1] = "." /\ \A i \in x..(y - 2) : text[i] \in LabelChars
          BY <4>1, <4>5, <5>1, <5>2
        <5> QED
          BY <1>2, <5>1, <5>2, <5>3, LabelMovesAre
      <4> QED
        BY <1>4, <4>8, <4>9
    <3> QED
      BY <3>1, <3>2
  <2>2. n + 1 \in 0..(L + 1) /\ \A x \in 1..(n + 1) : x = n + 1 \/ x \in 1..n
    OBVIOUS
  <2> HIDE DEF T
  <2> QED
    BY <1>8, <2>1, <2>2
<1>9. L + 1 \in In
  <2>1. L + 1 \in 0..(L + 1) /\ (L + 1) - 1 = L /\ L + 1 \in Nat
    OBVIOUS
  <2>2. \A n \in 0..((L + 1) - 1) : n \in In => n + 1 \in In
    BY <1>8, <2>1
  <2> HIDE DEF In
  <2> QED
    BY <1>7, <2>1, <2>2, Upto
<1>10. T \subseteq all
  BY <1>1, <1>9
<1> QED
  BY <1>3, <1>6, <1>10

LEMMA LabelsLower ==
    ASSUME NEW C, NEW t \in Seq(C), NEW n \in 0..Len(t)
    PROVE  Labels(ToLower(t), n) <=> Labels(t, n)
<1>1. Len(t) \in Nat
  BY LenProperties
<1>2. PICK low : low = ToLower(t) /\ \A i \in 1..Len(t) : low[i] = Lower(t[i])
  BY ToLowerIs
<1>3. \A i \in 1..n : /\ low[i] = "." <=> t[i] = "."
                      /\ low[i] \in LabelChars <=> t[i] \in LabelChars
  <2>1. \A i \in 1..n : i \in 1..Len(t)
    BY <1>1
  <2> QED
    BY <1>2, <2>1, LowerIs
<1>4. (n > 0 => n \in 1..n) /\ \A i \in 1..n : i > 1 => i - 1 \in 1..n
  OBVIOUS
<1> QED
  BY <1>2, <1>3, <1>4 DEF Labels

LEMMA PatternsLower ==
    ASSUME NEW D, NEW p \in Seq(D)
    PROVE  /\ IsSubdomainPattern(ToLower(p)) <=> IsSubdomainPattern(p)
           /\ HasStar(ToLower(p)) <=> HasStar(p)
<1>0. PICK low \in Seq({Lower(c) : c \in D}) :
        /\ low = ToLower(p) /\ Len(low) = Len(p) /\ \A i \in 1..Len(p) : low[i] = Lower(p[i])
  BY ToLowerIs
<1>1. /\ low = ToLower(p) /\ Len(low) = Len(p) /\ DOMAIN low = 1..Len(p)
      /\ \A i \in 1..Len(p) : low[i] = Lower(p[i])
  BY <1>0, LenProperties
<1>2. Len(p) \in Nat /\ DOMAIN p = 1..Len(p)
  BY LenProperties
<1>3. \A i \in 1..Len(p) : (low[i] = "*" <=> p[i] = "*") /\ (low[i] = "." <=> p[i] = ".")
  BY <1>1, LowerIs
<1>4. Len(p) >= 2 => 1 \in 1..Len(p) /\ 2 \in 1..Len(p)
  BY <1>2
<1>5. HasStar(low) <=> HasStar(p)
  BY <1>1, <1>2, <1>3 DEF HasStar
<1>6. IsSubdomainPattern(low) <=> IsSubdomainPattern(p)
  BY <1>1, <1>3, <1>4 DEF IsSubdomainPattern
<1> QED
  BY <1>1, <1>5, <1>6

\* A domain pattern without "*." in front describes the whole of a name.
LEMMA WholeMatches ==
    ASSUME NEW C, NEW text \in Seq(C), NEW D, NEW p \in Seq(D), ~IsSubdomainPattern(p),
           HasStar(p) => \A i \in DOMAIN p : p[i] # "+"
    PROVE  /\ DomainToRegex(p) # Error /\ DomainToRegex(p) # NoMatcher
           /\ MatchString(DomainToRegex(p), ToLower(text))
                => Describes(p, text, 1, Len(text) + 1)
           /\ WithinLine(p, text) =>
                (Describes(p, text, 1, Len(text) + 1)
                   => MatchString(DomainToRegex(p), ToLower(text)))
<1>0. PICK E, F : E = {Lower(c) : c \in D} /\ F = {Lower(c) : c \in C}
  OBVIOUS
<1>1. PICK low \in Seq(E) : low = ToLower(p)
  BY <1>0, ToLowerIs
<1>2. PICK name \in Seq(F) : name = ToLower(text) /\ Len(name) = Len(text)
  BY <1>0, ToLowerIs
<1>3. ~IsSubdomainPattern(low) /\ (HasStar(low) <=> HasStar(p))
  BY <1>1, PatternsLower
<1>4. IF HasStar(low) THEN Wild(low) = Globs(low) ELSE Escaped(low) = Globs(low)
  <2>1. HasStar(low) => \A i \in 1..Len(low) : low[i] # "+"
    <3>1. Len(low) = Len(p) /\ DOMAIN p = 1..Len(p) /\ \A i \in 1..Len(p) : low[i] = Lower(p[i])
      BY <1>1, ToLowerIs, LenProperties
    <3> QED
      BY <1>3, <3>1, LowerIs
  <2> QED
    BY <2>1, PlainlyWritten
<1>5. PICK pre \in Seq(Forms(E)) : pre = <<Begin>> /\ Len(pre) = 1 /\ pre[1] = Begin /\ pre # << >>
  <2>1. Begin \in Forms(E)
    BY DEF Forms
  <2>2. <<Begin>> \in Seq(Forms(E))
    BY <2>1
  <2>3. Len(<<Begin>>) = 1 /\ <<Begin>>[1] = Begin
    OBVIOUS
  <2>4. <<Begin>> # << >>
    BY <2>3, EmptySeq
  <2> QED
    BY <2>2, <2>3, <2>4
<1>6. DomainToRegex(p) = Then(Written(pre, Globs(low)), End)
  BY <1>1, <1>3, <1>4, <1>5 DEF DomainToRegex
<1>7. PICK g : IsEnded(g, pre, low, name)
  BY <1>5, EndedMatches
<1>8. g[1] = {1}
  <2>1. g[1] = After(Begin, name, Places(name))
    BY <1>5, <1>7 DEF IsEnded
  <2>2. 1 \in Places(name)
    BY LenProperties DEF Places
  <2> QED
    BY <2>1, <2>2, AnchorsAre
<1>9. /\ MatchString(DomainToRegex(p), name) => Describes(low, name, 1, Len(name) + 1)
      /\ WithinLine(low, name) =>
           (Describes(low, name, 1, Len(name) + 1) => MatchString(DomainToRegex(p), name))
  BY <1>5, <1>6, <1>7, <1>8 DEF IsEnded
<1>10. Describes(low, name, 1, Len(name) + 1) <=> Describes(p, text, 1, Len(text) + 1)
  <2>1. Len(text) + 1 \in Places(text)
    BY LenProperties DEF Places
  <2> QED
    BY <1>1, <1>2, <2>1, DescribesLower
<1>11. DomainToRegex(p) # Error /\ DomainToRegex(p) # NoMatcher
  BY <1>5, <1>6, EndedCompiles
<1>12. WithinLine(p, text) => WithinLine(low, name)
  <2>1. DOMAIN name = 1..Len(text) /\ DOMAIN text = 1..Len(text)
    BY <1>2, LenProperties
  <2>2. \A i \in 1..Len(text) : name[i] = NewLine <=> text[i] = NewLine
    <3>1. \A i \in 1..Len(text) : name[i] = Lower(text[i])
      BY <1>2, ToLowerIs
    <3>2. \A c : Lower(c) = NewLine <=> c = NewLine
      BY LowerIs
    <3> QED
      BY <3>1, <3>2
  <2> QED
    BY <1>3, <2>1, <2>2 DEF WithinLine
<1> QED
  BY <1>2, <1>9, <1>10, <1>11, <1>12

LEMMA SuffixIs ==
    ASSUME NEW D, NEW p \in Seq(D), Len(p) >= 2
    PROVE  /\ Suffix(p) \in Seq(D) /\ Len(Suffix(p)) = Len(p) - 2
           /\ \A i \in 1..(Len(p) - 2) : Suffix(p)[i] = p[i + 2]
<1>1. PICK n \in Nat : n = Len(p)
  BY LenProperties
<1>2. \A i \in 3..n : p[i] \in D
  <2>1. \A i \in 3..n : i \in 1..Len(p)
    BY <1>1
  <2> QED
    BY <2>1, ElementOfSeq
<1>3. /\ SubSeq(p, 3, n) \in Seq(D)
      /\ Len(SubSeq(p, 3, n)) = IF 3 <= n THEN n - 3 + 1 ELSE 0
      /\ \A i \in 1..(n - 3 + 1) : SubSeq(p, 3, n)[i] = p[3 + i - 1]
  <2>1. 3 \in Int /\ n \in Int
    OBVIOUS
  <2> QED
    BY <1>2, <2>1, SubSeqProperties
<1>4. PICK s : s = SubSeq(p, 3, n)
  OBVIOUS
<1>5. /\ (IF 3 <= n THEN n - 3 + 1 ELSE 0) = n - 2 /\ n - 3 + 1 = n - 2
      /\ \A i \in 1..(n - 2) : 3 + i - 1 = i + 2
  BY <1>1
<1>6. s \in Seq(D) /\ Len(s) = n - 2
  BY <1>3, <1>4, <1>5
<1>7. \A i \in 1..(n - 2) : s[i] = p[i + 2]
  BY <1>3, <1>4, <1>5
<1> QED
  BY <1>1, <1>4, <1>6, <1>7 DEF Suffix

\* What the labels of text leave to the suffix of a pattern.
RestOf(text, suffix) == Len(text) - Len(suffix)

\* "*." in front of a suffix lets any row of labels stand before it.
LEMMA SubdomainMatches ==
    ASSUME NEW C, NEW text \in Seq(C), NEW D, NEW p \in Seq(D), IsSubdomainPattern(p),
           ~HasStar(Suffix(p))
    PROVE  /\ DomainToRegex(p) # Error /\ DomainToRegex(p) # NoMatcher
           /\ MatchString(DomainToRegex(p), ToLower(text)) <=>
                /\ RestOf(text, Suffix(p)) >= 0
                /\ \A i \in 1..Len(Suffix(p)) :
                      Lower(text[RestOf(text, Suffix(p)) + i]) = Lower(Suffix(p)[i])
                /\ Labels(text, RestOf(text, Suffix(p)))
<1>0. PICK E, F : E = {Lower(c) : c \in D} /\ F = {Lower(c) : c \in C}
  OBVIOUS
<1>1. PICK low \in Seq(E) : /\ low = ToLower(p) /\ Len(low) = Len(p)
                               /\ \A i \in 1..Len(p) : low[i] = Lower(p[i])
  BY <1>0, ToLowerIs
<1>2. PICK name \in Seq(F) : /\ name = ToLower(text) /\ Len(name) = Len(text)
                                /\ \A i \in 1..Len(text) : name[i] = Lower(text[i])
  BY <1>0, ToLowerIs
<1>3. PICK N \in Nat, L \in Nat : N = Len(p) - 2 /\ L = Len(text)
  <2>1. Len(p) \in Nat /\ Len(p) >= 2 /\ Len(text) \in Nat
    BY LenProperties DEF IsSubdomainPattern
  <2>2. Len(p) - 2 \in Nat
    BY <2>1
  <2> QED
    BY <2>1, <2>2
<1>4. PICK suffix \in Seq(D) : /\ suffix = Suffix(p) /\ Len(suffix) = N
                               /\ \A i \in 1..N : suffix[i] = p[i + 2]
  BY <1>3, SuffixIs DEF IsSubdomainPattern
<1>5. PICK tail \in Seq(E) : /\ tail = Suffix(low) /\ Len(tail) = N
                             /\ \A i \in 1..N : tail[i] = low[i + 2]
  BY <1>1, <1>3, SuffixIs DEF IsSubdomainPattern
<1>6. \A i \in 1..N : tail[i] = Lower(suffix[i])
  <2>1. \A i \in 1..N : i + 2 \in 1..Len(p)
    BY <1>3
  <2> QED
    BY <1>1, <1>4, <1>5, <2>1
<1>7. ~HasStar(tail)
  <2>1. DOMAIN tail = 1..N /\ DOMAIN suffix = 1..N
    BY <1>4, <1>5, LenProperties
  <2> QED
    BY <1>4, <1>6, <2>1, LowerIs DEF HasStar
<1>8. IsSubdomainPattern(low)
  BY <1>1, PatternsLower
<1>9. PICK pre \in Seq(Forms(E)) : /\ pre = <<Begin, Subdomains>> /\ Len(pre) = 2
                                   /\ pre[1] = Begin /\ pre[2] = Subdomains /\ pre # << >>
  <2>1. Begin \in Forms(E) /\ Subdomains \in Forms(E)
    BY DEF Forms
  <2>2. <<Begin, Subdomains>> \in Seq(Forms(E))
    BY <2>1
  <2>3. /\ Len(<<Begin, Subdomains>>) = 2 /\ <<Begin, Subdomains>>[1] = Begin
        /\ <<Begin, Subdomains>>[2] = Subdomains
    OBVIOUS
  <2>4. <<Begin, Subdomains>> # << >>
    BY <2>3, EmptySeq
  <2> QED
    BY <2>2, <2>3, <2>4
<1>10. DomainToRegex(p) = Then(Written(pre, Globs(tail)), End)
  BY <1>1, <1>5, <1>7, <1>8, <1>9, PlainlyWritten DEF DomainToRegex
<1>11. PICK g : IsEnded(g, pre, tail, name)
  BY <1>9, EndedMatches
<1>12. g[2] = After(Subdomains, name, {1})
  <2>1. g[1] = After(Begin, name, Places(name)) /\ g[2] = After(Subdomains, name, g[1])
    BY <1>9, <1>11 DEF IsEnded
  <2>2. 1 \in Places(name)
    BY LenProperties DEF Places
  <2>3. PICK at \in SUBSET Places(name) : at = Places(name)
    OBVIOUS
  <2>4. After(Begin, name, at) = at \cap {1}
    BY AnchorsAre
  <2>5. g[1] = {1}
    BY <2>1, <2>2, <2>3, <2>4
  <2> QED
    BY <2>1, <2>5
<1>13. MatchString(DomainToRegex(p), name) <=>
         \E i : i \in g[2] /\ Describes(tail, name, i, L + 1)
  BY <1>2, <1>3, <1>7, <1>9, <1>10, <1>11 DEF IsEnded, WithinLine
<1> DEFINE rest == L - N
<1>14. ASSUME NEW i
       PROVE  i \in g[2] /\ Describes(tail, name, i, L + 1) <=>
                /\ i = rest + 1 /\ rest >= 0 /\ Labels(text, rest)
                /\ \A k \in 1..N : Lower(text[rest + k]) = Lower(suffix[k])
  <2>1. i \in g[2] <=> i \in 1..(L + 1) /\ Labels(name, i - 1)
    BY <1>2, <1>3, <1>12, SubdomainsAre DEF Places
  <2>2. Describes(tail, name, i, L + 1) <=>
          /\ i = (L + 1) - N /\ i >= 1
          /\ \A k \in 1..N : Lower(tail[k]) = Lower(name[i - 1 + k])
    <3>1. PICK j \in Nat \ {0} : j = L + 1
      OBVIOUS
    <3>2. Describes(tail, name, i, j) <=> Agrees(tail, name, i, j)
      BY <1>7, PlainDescribes
    <3> QED
      BY <1>5, <3>1, <3>2 DEF Agrees
  <2>3. CASE ~(i = rest + 1 /\ rest >= 0)
    BY <2>2, <2>3
  <2>4. CASE i = rest + 1 /\ rest >= 0
    <3>1. /\ i \in 1..(L + 1) /\ i - 1 = rest /\ i = (L + 1) - N /\ i >= 1 /\ rest \in 0..Len(text)
          /\ \A k \in 1..N : rest + k \in 1..Len(text)
      BY <1>3, <2>4
    <3>2. Labels(name, i - 1) <=> Labels(text, rest)
      BY <1>2, <3>1, LabelsLower
    <3>3. \A k \in 1..N : Lower(tail[k]) = Lower(name[i - 1 + k])
                            <=> Lower(text[rest + k]) = Lower(suffix[k])
      <4>1. ASSUME NEW k \in 1..N
            PROVE  Lower(tail[k]) = Lower(suffix[k]) /\ Lower(name[i - 1 + k]) = Lower(text[rest + k])
        <5>1. tail[k] = Lower(suffix[k]) /\ name[i - 1 + k] = Lower(text[rest + k])
          BY <1>2, <1>6, <3>1
        <5> QED
          BY <5>1, LowerIs
      <4> QED
        BY <4>1
    <3> HIDE DEF rest
    <3> QED
      BY <2>1, <2>2, <2>4, <3>1, <3>2, <3>3
  <2> QED
    BY <2>3, <2>4
<1>15. rest = RestOf(text, suffix)
  BY <1>3, <1>4 DEF RestOf
<1>16. DomainToRegex(p) # Error /\ DomainToRegex(p) # NoMatcher
  BY <1>9, <1>10, EndedCompiles
<1> HIDE DEF rest
<1> QED
  BY <1>2, <1>4, <1>13, <1>14, <1>15, <1>16

\* A domain that compiles is matched by its expression.
LEMMA DomainRule ==
    ASSUME SoFar, kind = "domain",
           pattern # << >> => DomainToRegex(pattern) # Error /\ DomainToRegex(pattern) # NoMatcher
    PROVE  /\ rule # Broken
           /\ Compiled /\ pattern # << >> =>
                (MatchDomain(rule, subject)
                   <=> MatchString(DomainToRegex(pattern), ToLower(subject)))
<1>1. NoMatcher # Error /\ Uncompiled # Broken
  <2>1. NoMatcher[1].kind = "none" /\ Error[1].kind = "error" /\ Len(Error) = 1
    BY DEF NoMatcher, Error, Atom
  <2> QED
    BY <2>1 DEF Uncompiled, Broken
<1>2. rule = Uncompiled \/
      rule = [command |-> NoMatcher,
              domain  |-> IF pattern = << >> THEN NoMatcher ELSE DomainToRegex(pattern)]
  BY <1>1 DEF SoFar, CompileRule
<1>3. rule # Broken
  BY <1>1, <1>2 DEF Broken
<1> QED
  BY <1>2, <1>3 DEF Compiled, MatchDomain

\* A domain pattern that does not begin with "*." compiles, and matches a name
\* only when it describes the whole of it, and always when it does and no star
\* has a line end to cross (domainToRegex and MatchDomain), unless it has a plus
\* next to a star, which the code leaves unescaped.
THEOREM DomainsMatchGlobs == Spec => []DomainMeansGlob
<1>1. SoFar => DomainMeansGlob
  <2> SUFFICES ASSUME SoFar, kind = "domain", ~IsSubdomainPattern(pattern),
                      HasStar(pattern) => \A i \in DOMAIN pattern : pattern[i] # "+"
               PROVE  /\ rule # Broken
                      /\ Compiled /\ pattern # << >> =>
                          /\ MatchDomain(rule, subject)
                               => Describes(pattern, subject, 1, Len(subject) + 1)
                          /\ WithinLine(pattern, subject) =>
                               (Describes(pattern, subject, 1, Len(subject) + 1)
                                  => MatchDomain(rule, subject))
    BY DEF DomainMeansGlob
  <2>1. /\ DomainToRegex(pattern) # Error /\ DomainToRegex(pattern) # NoMatcher
        /\ MatchString(DomainToRegex(pattern), ToLower(subject))
             => Describes(pattern, subject, 1, Len(subject) + 1)
        /\ WithinLine(pattern, subject) =>
             (Describes(pattern, subject, 1, Len(subject) + 1)
                => MatchString(DomainToRegex(pattern), ToLower(subject)))
    BY WholeMatches DEF SoFar
  <2> QED
    BY <2>1, DomainRule
<1> QED
  BY <1>1, SoFarHolds, PTL

\* "*." and a suffix without a star, such as "*.example.com", compiles and matches
\* the suffix with any row of labels before it, and nothing else, whatever the
\* case of the letters (domainToRegex and MatchDomain).
THEOREM SubdomainsMatchLabels == Spec => []SubdomainMeansLabels
<1>1. SoFar => SubdomainMeansLabels
  <2> DEFINE suffix == Suffix(pattern)
             rest == Len(subject) - Len(suffix)
  <2> SUFFICES ASSUME SoFar, kind = "domain", IsSubdomainPattern(pattern), ~HasStar(suffix)
               PROVE  /\ rule # Broken
                      /\ Compiled =>
                          (MatchDomain(rule, subject) <=>
                             /\ rest >= 0
                             /\ \A i \in DOMAIN suffix : Lower(subject[rest + i]) = Lower(suffix[i])
                             /\ Labels(subject, rest))
    BY DEF SubdomainMeansLabels
  <2>1. pattern # << >>
    BY EmptySeq DEF IsSubdomainPattern, SoFar
  <2>2. DOMAIN suffix = 1..Len(suffix)
    <3>1. PICK s \in Seq(PatternChars) : s = suffix
      BY SuffixIs DEF IsSubdomainPattern, SoFar
    <3> QED
      BY <3>1, LenProperties
  <2>3. rest = RestOf(subject, Suffix(pattern))
    BY DEF RestOf
  <2>4. /\ DomainToRegex(pattern) # Error /\ DomainToRegex(pattern) # NoMatcher
        /\ MatchString(DomainToRegex(pattern), ToLower(subject)) <=>
                /\ rest >= 0
                /\ \A i \in 1..Len(suffix) : Lower(subject[rest + i]) = Lower(suffix[i])
                /\ Labels(subject, rest)
    <3> HIDE DEF rest
    <3> QED
      BY <2>3, SubdomainMatches DEF SoFar
  <2> HIDE DEF suffix, rest
  <2> QED
    BY <2>1, <2>2, <2>4, DomainRule
<1> QED
  BY <1>1, SoFarHolds, PTL

=============================================================================
