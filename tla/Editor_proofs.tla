---------------------------- MODULE Editor_proofs ----------------------------
(***************************************************************************)
(* The editor of module Editor, for any programs, texts and keys: the      *)
(* breakpoints of every program stay on lines of its text, the marks       *)
(* follow them, the handler of edits goes on listening, and breakpoints    *)
(* follow their lines.                                                     *)
(***************************************************************************)
EXTENDS Editor, FiniteSetTheorems, TLAPS

(* The end of line n - 1 is before the beginning of line n.                *)
Begin(t, n) == IF n = 1 THEN 0 ELSE End(t, n - 1) + 1

(* Ends of lines between two places, but for the end of the text.          *)
Breaks(t, a, b) == {i \in a .. b - 1 : t[i + 1] = NL}
AllBreaks(t) == Breaks(t, 0, Len(t))

(* What t has from a to b, u has d places later.                           *)
Shifted(t, u, a, b, d) == \A i \in a .. b - 1 : u[i + d + 1] = t[i + 1]

-----------------------------------------------------------------------------
(***************************************************************************)
(* Counting: the n-th element of a set of numbers.                         *)
(***************************************************************************)
UpTo(S, k) == {j \in S : j <= k}

(* A greater element has more elements up to it.                           *)
LEMMA RankGrows ==
  ASSUME NEW S, S \subseteq Int, IsFiniteSet(S)
  PROVE  /\ \A k \in S : Cardinality(UpTo(S, k)) \in 1 .. Cardinality(S)
         /\ \A j, k \in S : j < k => Cardinality(UpTo(S, j)) < Cardinality(UpTo(S, k))
         /\ \A k \in Int : IsFiniteSet(UpTo(S, k))
<1>1. \A k \in Int : UpTo(S, k) \in SUBSET S
  BY DEF UpTo
<1>2. \A k \in Int : /\ IsFiniteSet(UpTo(S, k))
                     /\ Cardinality(UpTo(S, k)) <= Cardinality(S)
                     /\ Cardinality(UpTo(S, k)) \in Nat
  BY <1>1, FS_Subset, FS_CardinalityType
<1>3. Cardinality(S) \in Nat
  BY FS_CardinalityType
<1>4. \A k \in S : Cardinality(UpTo(S, k)) # 0
  <2> TAKE k \in S
  <2>1. k \in UpTo(S, k)
    BY DEF UpTo
  <2>2. IsFiniteSet(UpTo(S, k))
    BY <1>2
  <2> QED BY <2>1, <2>2, FS_EmptySet
<1>5. ASSUME NEW j \in S, NEW k \in S, j < k
      PROVE  Cardinality(UpTo(S, j)) < Cardinality(UpTo(S, k))
  <2>0. j \in Int /\ k \in Int /\ \A i \in S : i \in Int /\ (i <= j => i <= k)
    BY <1>5
  <2>1. UpTo(S, j) \in SUBSET UpTo(S, k)
    BY <2>0 DEF UpTo
  <2>2. UpTo(S, j) # UpTo(S, k)
    BY <1>5 DEF UpTo
  <2>3. IsFiniteSet(UpTo(S, k)) /\ Cardinality(UpTo(S, k)) \in Nat
        /\ Cardinality(UpTo(S, j)) \in Nat
    BY <1>2
  <2>4. Cardinality(UpTo(S, j)) <= Cardinality(UpTo(S, k))
        /\ Cardinality(UpTo(S, j)) # Cardinality(UpTo(S, k))
    BY <2>1, <2>2, <2>3, FS_Subset
  <2> QED BY <2>3, <2>4
<1> QED BY <1>2, <1>3, <1>4, <1>5

(* Every number up to that of the elements is the rank of one: Nth.        *)
LEMMA NthRank ==
  ASSUME NEW S, S \subseteq Int, IsFiniteSet(S), NEW n \in 1 .. Cardinality(S)
  PROVE  Nth(S, n) \in S /\ Cardinality(UpTo(S, Nth(S, n))) = n
<1> DEFINE R == 1 .. Cardinality(S)
           rank == [k \in S |-> Cardinality(UpTo(S, k))]
<1>1. rank \in [S -> R]
  BY RankGrows
<1>2. \A j, k \in S : j # k => rank[j] # rank[k]
  <2>1. \A k \in S : rank[k] = Cardinality(UpTo(S, k)) /\ rank[k] \in Int
    BY <1>1
  <2> HIDE DEF rank
  <2>2. \A j, k \in S : j < k => rank[j] < rank[k]
    BY <2>1, RankGrows
  <2> QED BY <2>1, <2>2
<1>3. rank \in Injection(S, R)
  BY <1>1, <1>2 DEF Injection, IsInjective
<1>4. Cardinality(S) \in Nat
  BY FS_CardinalityType
<1>5. IsFiniteSet(R) /\ Cardinality(R) = Cardinality(S)
  BY <1>4, FS_Interval
<1>6. rank \in Surjection(S, R)
  BY <1>3, <1>5, FS_Injection
<1>7. PICK k \in S : rank[k] = n
  BY <1>6 DEF Surjection
<1>8. \E j \in S : Cardinality({i \in S : i <= j}) = n
  BY <1>7 DEF UpTo
<1> QED BY <1>8 DEF Nth, UpTo

(* An element is the one of its rank.                                      *)
LEMMA RankNth ==
  ASSUME NEW S, S \subseteq Int, IsFiniteSet(S), NEW k \in S
  PROVE  \E n \in 1 .. Cardinality(S) : Nth(S, n) = k
<1> DEFINE n == Cardinality(UpTo(S, k))
<1>1. n \in 1 .. Cardinality(S)
  BY RankGrows
<1>2. Nth(S, n) \in S /\ Cardinality(UpTo(S, Nth(S, n))) = n
  BY <1>1, NthRank
<1>3. ~(k < Nth(S, n)) /\ ~(Nth(S, n) < k)
  <2>1. k < Nth(S, n) => n < Cardinality(UpTo(S, Nth(S, n)))
    BY <1>2, RankGrows
  <2>2. Nth(S, n) < k => Cardinality(UpTo(S, Nth(S, n))) < n
    BY <1>2, RankGrows
  <2>3. n \in Int
    BY <1>1
  <2> HIDE DEF n
  <2> QED BY <2>1, <2>2, <2>3, <1>2
<1>4. Nth(S, n) \in Int /\ k \in Int
  BY <1>2
<1> HIDE DEF n
<1>5. Nth(S, n) = k
  BY <1>3, <1>4
<1> QED BY <1>1, <1>5

-----------------------------------------------------------------------------
(***************************************************************************)
(* Lines of a text: where they begin and end, and how many breaks there    *)
(* are before them.                                                        *)
(***************************************************************************)

(* Ends of lines are places of the text, and there is at least one.        *)
LEMMA EndPlacesType ==
  ASSUME NEW t \in Text
  PROVE  /\ Len(t) \in Nat
         /\ EndPlaces(t) \subseteq 0 .. Len(t) /\ EndPlaces(t) \subseteq Int
         /\ IsFiniteSet(EndPlaces(t))
         /\ Lines(t) \in Nat /\ Lines(t) >= 1
<1>1. Len(t) \in Nat
  BY DEF Text
<1>2. EndPlaces(t) \in SUBSET (0 .. Len(t)) /\ EndPlaces(t) \subseteq Int
  BY <1>1 DEF EndPlaces
<1>3. IsFiniteSet(EndPlaces(t)) /\ Cardinality(EndPlaces(t)) \in Nat
  <2>1. IsFiniteSet(0 .. Len(t))
    BY <1>1, FS_Interval
  <2> QED BY <1>2, <2>1, FS_Subset, FS_CardinalityType
<1>4. Len(t) \in EndPlaces(t)
  BY <1>1 DEF EndPlaces
<1>5. Cardinality(EndPlaces(t)) # 0
  BY <1>3, <1>4, FS_EmptySet
<1> QED BY <1>1, <1>2, <1>3, <1>5 DEF Lines

(* Breaks between two places are finitely many.                            *)
LEMMA BreaksFinite ==
  ASSUME NEW t, NEW a \in Int, NEW b \in Int
  PROVE  IsFiniteSet(Breaks(t, a, b)) /\ Cardinality(Breaks(t, a, b)) \in Nat
<1>1. IsFiniteSet(a .. b - 1)
  BY FS_Interval
<1>2. Breaks(t, a, b) \in SUBSET (a .. b - 1)
  BY DEF Breaks
<1> QED BY <1>1, <1>2, FS_Subset, FS_CardinalityType

(* They are those up to a place between, and those from it.                *)
LEMMA BreaksSplit ==
  ASSUME NEW t, NEW a \in Int, NEW b \in Int, NEW c \in Int, a <= b, b <= c
  PROVE  Cardinality(Breaks(t, a, c))
           = Cardinality(Breaks(t, a, b)) + Cardinality(Breaks(t, b, c))
<1>1. /\ IsFiniteSet(Breaks(t, a, b)) /\ IsFiniteSet(Breaks(t, b, c))
      /\ Cardinality(Breaks(t, a, b)) \in Nat /\ Cardinality(Breaks(t, b, c)) \in Nat
  BY BreaksFinite
<1>2. Breaks(t, a, c) = Breaks(t, a, b) \cup Breaks(t, b, c)
  BY DEF Breaks
<1>3. Breaks(t, a, b) \cap Breaks(t, b, c) = {}
  BY DEF Breaks
<1>4. Cardinality(Breaks(t, a, b) \cap Breaks(t, b, c)) = 0
  BY <1>3, FS_EmptySet
<1> DEFINE A == Breaks(t, a, b)
           B == Breaks(t, b, c)
<1>5. Cardinality(A \cup B) = Cardinality(A) + Cardinality(B) - Cardinality(A \cap B)
  BY <1>1, FS_Union
<1> QED BY <1>1, <1>2, <1>4, <1>5

(* Texts that agree between two places, but for a shift, have as many.     *)
LEMMA BreaksShifted ==
  ASSUME NEW t, NEW u, NEW a \in Int, NEW b \in Int, NEW d \in Int,
         Shifted(t, u, a, b, d)
  PROVE  Cardinality(Breaks(u, a + d, b + d)) = Cardinality(Breaks(t, a, b))
<1> DEFINE S == Breaks(t, a, b)
           T == Breaks(u, a + d, b + d)
           f == [i \in S |-> i + d]
<1>1. \A i \in S : i \in Int /\ i + d \in T
  <2> TAKE i \in S
  <2>1. i \in Int /\ i \in a .. b - 1 /\ t[i + 1] = NL
    BY DEF Breaks
  <2>2. u[i + d + 1] = t[i + 1] /\ i + d \in a + d .. b + d - 1
    BY <2>1 DEF Shifted
  <2> QED BY <2>1, <2>2 DEF Breaks
<1>2. \A k \in T : k - d \in S /\ k = (k - d) + d
  <2> TAKE k \in T
  <2>1. k \in Int /\ k \in a + d .. b + d - 1 /\ u[k + 1] = NL
    BY DEF Breaks
  <2>2. k - d \in a .. b - 1 /\ k = (k - d) + d
    BY <2>1
  <2>3. u[(k - d) + d + 1] = t[(k - d) + 1]
    BY <2>2 DEF Shifted
  <2>4. t[(k - d) + 1] = NL
    BY <2>1, <2>2, <2>3
  <2> QED BY <2>2, <2>4 DEF Breaks
<1>3. IsFiniteSet(S)
  BY BreaksFinite
<1> HIDE DEF S, T
<1>4. f \in [S -> T] /\ \A i \in S : f[i] = i + d
  BY <1>1
<1>5. \A i, j \in S : f[i] = f[j] => i = j
  <2> HIDE DEF f
  <2> TAKE i, j \in S
  <2>1. i \in Int /\ j \in Int /\ f[i] = i + d /\ f[j] = j + d
    BY <1>1, <1>4
  <2> QED BY <2>1
<1>6. \A k \in T : \E i \in S : f[i] = k
  <2> TAKE k \in T
  <2>1. k - d \in S /\ f[k - d] = k
    BY <1>2, <1>4
  <2> QED BY <2>1
<1>7. f \in Bijection(S, T)
  BY <1>4, <1>5, <1>6 DEF Bijection, Injection, Surjection, IsInjective
<1>8. Cardinality(T) = Cardinality(S)
  BY <1>3, <1>7, FS_Bijection DEF ExistsBijection
<1> QED BY <1>8 DEF S, T

(* A text has one line more than breaks.                                   *)
LEMMA LinesAndBreaks ==
  ASSUME NEW t \in Text
  PROVE  Lines(t) = Cardinality(AllBreaks(t)) + 1
<1>1. Len(t) \in Nat
  BY EndPlacesType
<1>2. EndPlaces(t) = AllBreaks(t) \cup {Len(t)} /\ Len(t) \notin AllBreaks(t)
  BY <1>1 DEF EndPlaces, AllBreaks, Breaks
<1>3. IsFiniteSet(AllBreaks(t))
  BY <1>1, BreaksFinite DEF AllBreaks
<1>4. Cardinality(AllBreaks(t) \cup {Len(t)}) = Cardinality(AllBreaks(t)) + 1
  BY <1>2, <1>3, FS_AddElement
<1> QED BY <1>2, <1>4 DEF Lines

(* Line n begins and ends in the text, n - 1 breaks before either of       *)
(* these places and none between them.                                     *)
LEMMA LinePlaces ==
  ASSUME NEW t \in Text, NEW n \in 1 .. Lines(t)
  PROVE  /\ Begin(t, n) \in 0 .. Len(t) /\ End(t, n) \in 0 .. Len(t)
         /\ Begin(t, n) <= End(t, n)
         /\ Cardinality(Breaks(t, 0, Begin(t, n))) = n - 1
         /\ Breaks(t, Begin(t, n), End(t, n)) = {}
<1> DEFINE T == EndPlaces(t)
           b == Begin(t, n)
           e == End(t, n)
<1>1. /\ Len(t) \in Nat /\ T \subseteq 0 .. Len(t) /\ T \subseteq Int /\ IsFiniteSet(T)
      /\ Cardinality(T) \in Nat /\ Lines(t) = Cardinality(T)
  BY EndPlacesType DEF Lines
<1>2. e \in T /\ Cardinality(UpTo(T, e)) = n
  BY <1>1, NthRank DEF End
<1>3. e \in 0 .. Len(t) /\ n \in Int
  BY <1>1, <1>2
<1>4. Cardinality(Breaks(t, 0, e)) = n - 1
  <2>1. UpTo(T, e) = Breaks(t, 0, e) \cup {e} /\ e \notin Breaks(t, 0, e)
    BY <1>1, <1>2, <1>3 DEF UpTo, Breaks, EndPlaces
  <2>2. IsFiniteSet(Breaks(t, 0, e)) /\ Cardinality(Breaks(t, 0, e)) \in Nat
    BY <1>3, BreaksFinite
  <2>3. Cardinality(Breaks(t, 0, e) \cup {e}) = Cardinality(Breaks(t, 0, e)) + 1
    BY <2>1, <2>2, FS_AddElement
  <2> QED BY <1>2, <1>3, <2>1, <2>2, <2>3
<1>5. b \in 0 .. e /\ Cardinality(Breaks(t, 0, b)) = n - 1
  <2>1. CASE n = 1
    <3>1. b = 0
      BY <2>1 DEF Begin
    <3>2. Breaks(t, 0, 0) = {}
      BY DEF Breaks
    <3> QED BY <1>3, <2>1, <3>1, <3>2, FS_EmptySet
  <2>2. CASE n # 1
    <3> DEFINE p == Nth(T, n - 1)
    <3>1. n - 1 \in 1 .. Cardinality(T)
      BY <1>1, <2>2
    <3>2. p \in T /\ Cardinality(UpTo(T, p)) = n - 1
      BY <1>1, <3>1, NthRank
    <3>3. b = p + 1
      BY <2>2 DEF Begin, End
    <3> HIDE DEF p
    <3>4. p < e
      <4>1. p # e
        BY <1>2, <1>3, <3>2
      <4>2. ~(e < p)
        <5>1. e < p => Cardinality(UpTo(T, e)) < Cardinality(UpTo(T, p))
          BY <1>1, <1>2, <3>2, RankGrows
        <5> QED BY <1>2, <1>3, <3>2, <5>1
      <4> QED BY <1>1, <1>2, <3>2, <4>1, <4>2
    <3>5. p \in Int /\ p >= 0 /\ p < Len(t)
      BY <1>1, <1>3, <3>2, <3>4
    <3>6. UpTo(T, p) = Breaks(t, 0, p + 1)
      BY <1>1, <3>2, <3>5 DEF UpTo, Breaks, EndPlaces
    <3> HIDE DEF b, e
    <3> QED BY <1>3, <3>2, <3>3, <3>4, <3>5, <3>6
  <2> QED BY <2>1, <2>2
<1>6. Breaks(t, b, e) = {}
  <2> HIDE DEF b, e
  <2>1. b \in Int /\ e \in Int /\ 0 <= b /\ b <= e
    BY <1>3, <1>5
  <2>2. Cardinality(Breaks(t, 0, e)) = Cardinality(Breaks(t, 0, b)) + Cardinality(Breaks(t, b, e))
    BY <2>1, BreaksSplit
  <2>3. IsFiniteSet(Breaks(t, b, e)) /\ Cardinality(Breaks(t, b, e)) \in Nat
    BY <2>1, BreaksFinite
  <2>4. Cardinality(Breaks(t, b, e)) = 0
    BY <1>3, <1>4, <1>5, <2>2, <2>3
  <2> QED BY <2>3, <2>4, FS_EmptySet
<1>7. b <= e /\ b \in 0 .. Len(t)
  <2> HIDE DEF b, e
  <2> QED BY <1>1, <1>3, <1>5
<1> QED BY <1>3, <1>5, <1>6, <1>7

-----------------------------------------------------------------------------
(***************************************************************************)
(* What is typed into a text, in place of some of it.                      *)
(***************************************************************************)

(* One text after another.                                                 *)
LEMMA Joined ==
  ASSUME NEW x \in Seq(Chars), NEW y \in Seq(Chars)
  PROVE  /\ x \o y \in Seq(Chars) /\ Len(x \o y) = Len(x) + Len(y)
         /\ \A i \in 1 .. Len(x) : (x \o y)[i] = x[i]
         /\ \A i \in 1 .. Len(y) : (x \o y)[Len(x) + i] = y[i]
OBVIOUS

(* It stands between what was before that and what was after it.           *)
LEMMA ReplacedPlaces ==
  ASSUME NEW t \in Text, NEW new \in Text, NEW from \in Nat, NEW to \in Nat,
         from <= to, to <= Len(t)
  PROVE  LET r == Replaced(t, from, to, new)
             d == from + Len(new) - to
         IN /\ r \in Text /\ Len(r) = Len(t) + d
            /\ Shifted(t, r, 0, from, 0)
            /\ Shifted(new, r, 0, Len(new), from)
            /\ Shifted(t, r, to, Len(t), d)
<1> DEFINE a == SubSeq(t, 1, from)
           c == SubSeq(t, to + 1, Len(t))
           b == a \o new
           r == b \o c
           d == from + Len(new) - to
<1>1. t \in Seq(Chars) /\ new \in Seq(Chars) /\ Len(t) \in Nat /\ Len(new) \in Nat
  BY DEF Text
<1>2. a \in Seq(Chars) /\ Len(a) = from /\ \A i \in 1 .. from : a[i] = t[i]
  BY <1>1
<1>3. c \in Seq(Chars) /\ Len(c) = Len(t) - to /\ \A i \in 1 .. Len(t) - to : c[i] = t[to + i]
  BY <1>1
<1>4. r = Replaced(t, from, to, new)
  BY DEF Replaced
<1> HIDE DEF a, c
<1>5. /\ b \in Seq(Chars) /\ Len(b) = from + Len(new)
      /\ \A i \in 1 .. from : b[i] = a[i]
      /\ \A i \in 1 .. Len(new) : b[from + i] = new[i]
  BY <1>1, <1>2, Joined
<1> HIDE DEF b
<1>6. /\ r \in Seq(Chars) /\ Len(r) = from + Len(new) + (Len(t) - to)
      /\ \A i \in 1 .. from + Len(new) : r[i] = b[i]
      /\ \A i \in 1 .. Len(t) - to : r[from + Len(new) + i] = c[i]
  <2>1. /\ r \in Seq(Chars) /\ Len(r) = Len(b) + Len(c)
        /\ \A i \in 1 .. Len(b) : r[i] = b[i]
        /\ \A i \in 1 .. Len(c) : r[Len(b) + i] = c[i]
    BY <1>3, <1>5, Joined
  <2> HIDE DEF r
  <2> QED BY <1>3, <1>5, <2>1
<1> HIDE DEF r
<1>7. r \in Text /\ Len(r) = Len(t) + d
  BY <1>1, <1>6 DEF Text
<1>8. \A i \in 0 .. from - 1 : r[i + 0 + 1] = t[i + 1]
  <2> TAKE i \in 0 .. from - 1
  <2>1. i + 1 \in 1 .. from /\ i + 1 \in 1 .. from + Len(new) /\ i + 0 + 1 = i + 1
    BY <1>1
  <2> QED BY <2>1, <1>2, <1>5, <1>6
<1>9. \A i \in 0 .. Len(new) - 1 : r[i + from + 1] = new[i + 1]
  <2> TAKE i \in 0 .. Len(new) - 1
  <2>1. /\ i + 1 \in 1 .. Len(new) /\ from + (i + 1) \in 1 .. from + Len(new)
        /\ i + from + 1 = from + (i + 1)
    BY <1>1
  <2> QED BY <2>1, <1>5, <1>6
<1>10. \A i \in to .. Len(t) - 1 : r[i + d + 1] = t[i + 1]
  <2> TAKE i \in to .. Len(t) - 1
  <2> DEFINE k == i - to + 1
  <2>1. k \in 1 .. Len(t) - to /\ i + d + 1 = from + Len(new) + k /\ to + k = i + 1
    BY <1>1
  <2> HIDE DEF k, d
  <2>2. r[from + Len(new) + k] = c[k] /\ c[k] = t[to + k]
    BY <2>1, <1>3, <1>6
  <2> QED BY <2>1, <2>2
<1> QED BY <1>4, <1>7, <1>8, <1>9, <1>10 DEF Shifted

(* The lines there are then: those breaks less, and these more.            *)
LEMMA ReplacedLines ==
  ASSUME NEW t \in Text, NEW new \in Text, NEW from \in Nat, NEW to \in Nat,
         from <= to, to <= Len(t)
  PROVE  LET r == Replaced(t, from, to, new)
         IN /\ Lines(r) = Lines(t) - Cardinality(Breaks(t, from, to)) + Cardinality(AllBreaks(new))
            /\ Lines(r) >= Cardinality(Breaks(t, 0, from)) + 1
<1> DEFINE r == Replaced(t, from, to, new)
           d == from + Len(new) - to
           m == from + Len(new)
           n == Len(t) + d
<1>1. Len(t) \in Nat /\ Len(new) \in Nat
  BY EndPlacesType
<1>2. /\ r \in Text /\ Len(r) = n
      /\ Shifted(t, r, 0, from, 0)
      /\ Shifted(new, r, 0, Len(new), from)
      /\ Shifted(t, r, to, Len(t), d)
  BY ReplacedPlaces
<1> HIDE DEF r
<1>3. m \in Int /\ n \in Int /\ d \in Int /\ from <= m /\ m <= n /\ to + d = m /\ Len(new) + from = m
      /\ from + 0 = from /\ 0 + from = from /\ 0 + 0 = 0
  BY <1>1
<1> DEFINE l == Len(new)
           z == Len(t)
<1>0. 0 \in Int /\ l \in Int /\ from \in Int /\ to \in Int /\ z \in Int
  BY <1>1
<1>4. Cardinality(Breaks(r, 0, from)) = Cardinality(Breaks(t, 0, from))
  <2>1. Cardinality(Breaks(r, 0 + 0, from + 0)) = Cardinality(Breaks(t, 0, from))
    BY <1>2, BreaksShifted
  <2> QED BY <2>1, <1>3
<1>5. Cardinality(Breaks(r, from, m)) = Cardinality(AllBreaks(new))
  <2>0. Shifted(new, r, 0, l, from)
    BY <1>2
  <2> HIDE DEF l
  <2>1. Cardinality(Breaks(r, 0 + from, l + from)) = Cardinality(Breaks(new, 0, l))
    BY <1>0, <2>0, BreaksShifted
  <2> USE DEF l
  <2> QED BY <2>1, <1>3 DEF AllBreaks
<1>6. Cardinality(Breaks(r, m, n)) = Cardinality(Breaks(t, to, Len(t)))
  <2>0. Shifted(t, r, to, z, d) /\ n = z + d
    BY <1>2
  <2> HIDE DEF d, z
  <2>1. Cardinality(Breaks(r, to + d, z + d)) = Cardinality(Breaks(t, to, z))
    BY <1>0, <1>3, <2>0, BreaksShifted
  <2> QED BY <2>0, <2>1, <1>3 DEF z
<1> DEFINE B(x, a, b) == Cardinality(Breaks(x, a, b))
<1>7. /\ B(r, 0, from) \in Nat /\ B(r, from, m) \in Nat /\ B(r, m, n) \in Nat
      /\ B(t, 0, from) \in Nat /\ B(t, from, to) \in Nat /\ B(t, to, Len(t)) \in Nat
  BY <1>1, <1>3, BreaksFinite
<1>8. B(r, 0, n) = B(r, 0, m) + B(r, m, n) /\ B(r, 0, m) = B(r, 0, from) + B(r, from, m)
  <2> HIDE DEF m, n
  <2>1. 0 <= m /\ 0 <= from
    BY <1>3
  <2> QED BY <1>3, <2>1, BreaksSplit
<1>9. B(t, 0, Len(t)) = B(t, 0, to) + B(t, to, Len(t)) /\ B(t, 0, to) = B(t, 0, from) + B(t, from, to)
  BY <1>1, BreaksSplit
<1>10. Lines(r) = B(r, 0, n) + 1 /\ Lines(t) = B(t, 0, Len(t)) + 1
  BY <1>2, LinesAndBreaks DEF AllBreaks
<1>11. B(r, 0, from) = B(t, 0, from) /\ B(r, m, n) = B(t, to, Len(t))
       /\ B(r, from, m) = Cardinality(AllBreaks(new))
  BY <1>4, <1>5, <1>6
<1> HIDE DEF B, m, n
<1>12. /\ Lines(r) = Lines(t) - B(t, from, to) + Cardinality(AllBreaks(new))
       /\ Lines(r) >= B(t, 0, from) + 1
  BY <1>7, <1>8, <1>9, <1>10, <1>11
<1> QED BY <1>12 DEF r, B

(* Without breaks of its own there are no more lines.                      *)
LEMMA NoBreaks ==
  ASSUME NEW new \in Text, \A i \in 1 .. Len(new) : new[i] # NL
  PROVE  Cardinality(AllBreaks(new)) = 0
<1>1. Len(new) \in Nat
  BY EndPlacesType
<1>2. \A i \in 0 .. Len(new) - 1 : i + 1 \in 1 .. Len(new)
  BY <1>1
<1>3. AllBreaks(new) = {}
  BY <1>2 DEF AllBreaks, Breaks
<1> QED BY <1>3, FS_EmptySet

-----------------------------------------------------------------------------
(***************************************************************************)
(* Lengths of escaped texts.                                               *)
(***************************************************************************)
(* An escaped text has a length.                                           *)
LEMMA EscapedLengthType ==
  ASSUME NEW t \in Text, NEW i \in 0 .. Len(t)
  PROVE  EscapedLength(t, i) \in Nat
<1> DEFINE W == {{j} \X (1 .. Escaped[t[j]]) : j \in 1 .. i}
<1>1. Len(t) \in Nat /\ i \in Nat
  BY EndPlacesType
<1>2. \A j \in 1 .. i : IsFiniteSet({j} \X (1 .. Escaped[t[j]]))
  <2> TAKE j \in 1 .. i
  <2>1. t[j] \in Chars
    BY <1>1 DEF Text
  <2>2. Escaped[t[j]] \in Int
    BY <2>1, EditorAssumption
  <2> DEFINE n == Escaped[t[j]]
  <2>3. IsFiniteSet(1 .. n)
    <3>1. n \in Int /\ 1 \in Int
      BY <2>2
    <3> HIDE DEF n
    <3> QED BY <3>1, FS_Interval
  <2>4. IsFiniteSet({j})
    BY FS_Singleton
  <2> QED BY <2>3, <2>4, FS_Product
<1>3. IsFiniteSet(W)
  <2> DEFINE f == [j \in 1 .. i |-> {j} \X (1 .. Escaped[t[j]])]
  <2>1. IsFiniteSet(1 .. i)
    BY <1>1, FS_Interval
  <2>2. f \in [1 .. i -> W] /\ \A w \in W : \E j \in 1 .. i : f[j] = w
    OBVIOUS
  <2>3. f \in Surjection(1 .. i, W)
    BY <2>2 DEF Surjection
  <2> QED BY <2>1, <2>3, FS_Surjection
<1>4. \A w \in W : IsFiniteSet(w)
  BY <1>2
<1>5. IsFiniteSet(UNION W)
  BY <1>3, <1>4, FS_UNION
<1> QED BY <1>5, FS_CardinalityType DEF EscapedLength

(* It is what it was when no character is escaped.                         *)
LEMMA EscapedLengthPlain ==
  ASSUME NEW t \in Text, ~Escapes(t), NEW i \in 0 .. Len(t)
  PROVE  EscapedLength(t, i) = i
<1> DEFINE W == UNION {{j} \X (1 .. Escaped[t[j]]) : j \in 1 .. i}
           f == [j \in 1 .. i |-> <<j, 1>>]
<1>1. Len(t) \in Nat /\ i \in Nat
  BY EndPlacesType
<1>2. \A j \in 1 .. i : Escaped[t[j]] = 1
  BY <1>1 DEF Escapes
<1>3. W = UNION {{j} \X {1} : j \in 1 .. i}
  <2>1. \A j \in 1 .. i : {j} \X (1 .. Escaped[t[j]]) = {j} \X {1}
    <3>1. 1 .. 1 = {1}
      OBVIOUS
    <3> QED BY <1>2, <3>1
  <2> QED BY <2>1
<1>4. W = {<<j, 1>> : j \in 1 .. i}
  <2>1. \A j : {j} \X {1} = {<<j, 1>>}
    OBVIOUS
  <2> QED BY <1>3, <2>1
<1> HIDE DEF W
<1>5. f \in [1 .. i -> W] /\ \A j \in 1 .. i : f[j] = <<j, 1>>
  BY <1>4
<1>6. \A j, k \in 1 .. i : f[j] = f[k] => j = k
  BY <1>5
<1>7. \A w \in W : \E j \in 1 .. i : f[j] = w
  BY <1>4, <1>5
<1>8. f \in Bijection(1 .. i, W)
  BY <1>5, <1>6, <1>7 DEF Bijection, Injection, Surjection, IsInjective
<1>9. IsFiniteSet(1 .. i) /\ Cardinality(1 .. i) = i
  BY <1>1, FS_Interval
<1>10. Cardinality(W) = i
  BY <1>8, <1>9, FS_Bijection DEF ExistsBijection
<1> QED BY <1>10 DEF W, EscapedLength

-----------------------------------------------------------------------------
(***************************************************************************)
(* The state keeps its types.                                              *)
(***************************************************************************)
SavedType == [start : Int, end : Int, key : Keys \cup {NoKey}]

ProgramsOK ==
  /\ asmText \in [Codes -> Text] /\ breakpoints \in [Codes -> Seq(Int)]
  /\ inEditor \in Codes /\ listed \in Codes
  /\ prevInText \in Text \cup {NoText} /\ entered \in BOOLEAN
PageOK ==
  /\ value \in Text /\ lineOffsets \in Seq(Nat) /\ lineOffsets # <<>>
  /\ lines \in Nat /\ marks \subseteq 1 .. lines
KeyboardOK == saved \in SavedType /\ enterDown \in BOOLEAN
HistoryOK ==
  /\ edit.from \in Nat /\ edit.to \in Nat
  /\ edits \in 0 .. MaxEdits /\ clicks \in 0 .. MaxClicks

(* The type invariant, in parts.                                           *)
LEMMA TypeParts == TypeOK <=> ProgramsOK /\ PageOK /\ KeyboardOK /\ HistoryOK
BY Zenon DEF TypeOK, ProgramsOK, PageOK, KeyboardOK, HistoryOK, SavedType

(* What stands at some places of a list is a list of that.                 *)
LEMMA OnlyThose ==
  ASSUME NEW X, NEW list \in Seq(X), NEW S \in SUBSET DOMAIN list
  PROVE  /\ Only(list, S) \in Seq(X)
         /\ Range(Only(list, S)) = {list[i] : i \in S}
<1> DEFINE o == Only(list, S)
           m == Cardinality(S)
<1>1. DOMAIN list = 1 .. Len(list) /\ Len(list) \in Nat /\ \A i \in DOMAIN list : list[i] \in X
  OBVIOUS
<1>2. IsFiniteSet(S) /\ m \in Nat /\ S \subseteq Int
  <2>1. IsFiniteSet(1 .. Len(list))
    BY <1>1, FS_Interval
  <2>2. S \in SUBSET (1 .. Len(list)) /\ S \subseteq Int
    BY <1>1
  <2> QED BY <2>1, <2>2, FS_Subset, FS_CardinalityType
<1>3. \A n \in 1 .. m : Nth(S, n) \in S
  BY <1>2, NthRank
<1>4. \A i \in S : \E n \in 1 .. m : Nth(S, n) = i
  BY <1>2, RankNth
<1>5. o = [n \in 1 .. m |-> list[Nth(S, n)]]
  BY DEF Only
<1> HIDE DEF o, m
<1>6. DOMAIN o = 1 .. m /\ \A n \in 1 .. m : o[n] = list[Nth(S, n)]
  BY <1>5
<1>7. \A n \in 1 .. m : list[Nth(S, n)] \in X
  BY <1>1, <1>3
<1>8. o \in [1 .. m -> X]
  BY <1>5, <1>7
<1>9. o \in Seq(X)
  BY <1>2, <1>8
<1>10. Range(o) = {list[i] : i \in S}
  BY <1>3, <1>4, <1>6 DEF Range
<1> QED BY <1>9, <1>10 DEF o

(* Offsets are a list of numbers that is not empty.                        *)
LEMMA OffsetsType ==
  ASSUME NEW t \in Text
  PROVE  /\ LineOffsets(t) \in Seq(Nat) /\ Len(LineOffsets(t)) = Lines(t)
         /\ LineOffsets(t) # <<>>
<1>1. Lines(t) \in Nat /\ Lines(t) >= 1
  BY EndPlacesType
<1>2. \A n \in 1 .. Lines(t) : EscapedLength(t, End(t, n)) \in Nat
  BY LinePlaces, EscapedLengthType
<1> DEFINE l == Lines(t)
<1>3. LineOffsets(t) = [n \in 1 .. l |-> EscapedLength(t, End(t, n))]
  BY DEF LineOffsets
<1> HIDE DEF l
<1>4. LineOffsets(t) \in [1 .. l -> Nat]
  BY <1>2, <1>3 DEF l
<1>5. l \in Nat /\ l >= 1
  BY <1>1 DEF l
<1> QED BY <1>4, <1>5 DEF l

(* What SetText leaves is typed.                                           *)
LEMMA SetTextType ==
  ASSUME TypeOK, NEW t \in Text
  PROVE  /\ OffsetsAfter(t) \in Seq(Nat) /\ OffsetsAfter(t) # <<>>
         /\ Shown(t) \in Nat
         /\ Len(OffsetsAfter(t)) - Len(lineOffsets) \in Int
<1>1. lineOffsets \in Seq(Nat) /\ lineOffsets # <<>>
  BY DEF TypeOK
<1>2. OffsetsAfter(t) \in Seq(Nat) /\ OffsetsAfter(t) # <<>>
  BY <1>1, OffsetsType DEF OffsetsAfter
<1>3. Shown(t) \in Nat
  BY EndPlacesType DEF Shown
<1> QED BY <1>1, <1>2, <1>3

(* What the loop over the breakpoints makes of them.                       *)
LEMMA LoopType ==
  ASSUME TypeOK, NEW k \in SavedType, NEW more \in Int, NEW shown \in Nat,
         NEW checked \in BOOLEAN
  PROVE  LET done == Done(k, more, shown, checked)
             kept == Kept(done, k, more)
             now == [i \in DOMAIN Current |-> Now(i, done, k, more, checked)]
         IN /\ Only(now, kept) \in Seq(Int)
            /\ Range(Only(now, kept)) = {now[i] : i \in kept}
            /\ {now[i] : i \in done \cap kept} \subseteq 1 .. shown
            /\ \A i \in done : now[i] = Moved(Current[i], k, more)
<1> DEFINE done == Done(k, more, shown, checked)
           kept == Kept(done, k, more)
           now == [i \in DOMAIN Current |-> Now(i, done, k, more, checked)]
<1>1. Current \in Seq(Int)
  BY DEF TypeOK, Current
<1>2. DOMAIN Current = 1 .. Len(Current) /\ Len(Current) \in Nat
      /\ \A i \in DOMAIN Current : Current[i] \in Int
  BY <1>1
<1>3. \A n \in Int : Moved(n, k, more) \in Int
  BY DEF Moved
<1>4. \A i \in DOMAIN Current : Now(i, done, k, more, checked) \in Int
  BY <1>2, <1>3 DEF Now
<1>5. now \in [1 .. Len(Current) -> Int]
  BY <1>2, <1>4
<1>6. now \in Seq(Int) /\ DOMAIN now = DOMAIN Current
  BY <1>2, <1>5
<1>7. kept \in SUBSET DOMAIN now
  BY <1>6 DEF Kept
<1>8. \A i \in done : /\ i \in DOMAIN Current /\ i \in Nat
                      /\ ~Throws(Current[i], k, more, shown, checked)
                      /\ 1 .. i - 1 \subseteq done
  <2> TAKE i \in done
  <2>1. i \in DOMAIN Current /\ i \in 1 .. i
    BY <1>2 DEF Done
  <2>2. \A j \in 1 .. i : ~Throws(Current[j], k, more, shown, checked)
    BY DEF Done
  <2>3. \A j \in 1 .. i - 1 : j \in DOMAIN Current /\ 1 .. j \subseteq 1 .. i
    BY <1>2, <2>1
  <2>4. \A j \in 1 .. i - 1 : j \in done
    BY <2>2, <2>3 DEF Done
  <2> QED BY <1>2, <2>1, <2>2, <2>4
<1>9. \A i \in done : now[i] = Moved(Current[i], k, more)
  <2> TAKE i \in done
  <2>1. ~Fails(Current[i], k, more, checked)
    BY <1>8 DEF Throws
  <2>2. Now(i, done, k, more, checked) = Moved(Current[i], k, more)
    BY <1>8, <2>1 DEF Now
  <2> HIDE DEF done
  <2> QED BY <1>8, <2>2
<1>10. \A i \in done \cap kept : now[i] \in 1 .. shown
  <2> TAKE i \in done \cap kept
  <2>1. ~Dropped(Current[i], k, more)
    BY DEF Kept
  <2>2. Moved(Current[i], k, more) \in 1 .. shown
    BY <1>8, <2>1 DEF Throws
  <2> HIDE DEF now, done, kept
  <2> QED BY <1>9, <2>2
<1> HIDE DEF now, done, kept
<1>11. Only(now, kept) \in Seq(Int) /\ Range(Only(now, kept)) = {now[i] : i \in kept}
  BY <1>6, <1>7, OnlyThose
<1>12. {now[i] : i \in done \cap kept} \subseteq 1 .. shown
  BY <1>10
<1> QED BY <1>9, <1>11, <1>12 DEF now, done, kept

-----------------------------------------------------------------------------
(***************************************************************************)
(* What an edit that is heard does to the breakpoints.                     *)
(***************************************************************************)
Growth(t) == Len(OffsetsAfter(t)) - Len(lineOffsets)
Stay(k, more) == {n \in Range(Current) : ~Dropped(n, k, more)}
Survivors(k, more) == {Moved(n, k, more) : n \in Stay(k, more)}

(* Either every breakpoint that is not dropped is moved, to a line that is *)
(* shown, and marked; or an exception has ended the loop.                  *)
LEMMA HeardParts ==
  ASSUME TypeOK, NEW t \in Text, NEW k \in SavedType, Heard(t, k)
  PROVE  /\ ~entered /\ SetText(t) /\ inEditor' = inEditor /\ listed' = listed
         /\ \E list \in Seq(Int) : breakpoints' = [breakpoints EXCEPT ![listed] = list]
         /\ marks' \subseteq 1 .. lines' /\ entered' \in BOOLEAN
         /\ entered' => /\ asmText' = asmText /\ prevInText' = prevInText
                        /\ \E n \in Range(Current), checked \in BOOLEAN :
                             Throws(n, k, Growth(t), Shown(t), checked)
         /\ ~entered' => /\ asmText' = [asmText EXCEPT ![inEditor] = t] /\ prevInText' = t
                         /\ Range(Current') = Survivors(k, Growth(t))
                         /\ marks' = Range(Current')
                         /\ Range(Current') \subseteq 1 .. Shown(t)
<1> DEFINE more == Growth(t)
           shown == Shown(t)
<1>1. more \in Int /\ shown \in Nat
  BY SetTextType DEF Growth
<1>2. ~entered /\ SetText(t) /\ inEditor' = inEditor /\ listed' = listed
  BY DEF Heard
<1>3. PICK checked \in BOOLEAN :
        LET done == Done(k, more, shown, checked)
            kept == Kept(done, k, more)
            now == [i \in DOMAIN Current |-> Now(i, done, k, more, checked)]
        IN /\ breakpoints' = [breakpoints EXCEPT ![listed] = Only(now, kept)]
           /\ marks' = {now[i] : i \in done \cap kept}
           /\ entered' = (done # DOMAIN Current)
           /\ IF entered' THEN UNCHANGED <<asmText, prevInText>>
              ELSE asmText' = [asmText EXCEPT ![inEditor] = t] /\ prevInText' = t
  BY DEF Heard, Growth
<1> DEFINE done == Done(k, more, shown, checked)
           kept == Kept(done, k, more)
           now == [i \in DOMAIN Current |-> Now(i, done, k, more, checked)]
           list == Only(now, kept)
<1> HIDE DEF more, shown
<1>4. /\ list \in Seq(Int)
      /\ Range(list) = {now[i] : i \in kept}
      /\ {now[i] : i \in done \cap kept} \subseteq 1 .. shown
      /\ \A i \in done : now[i] = Moved(Current[i], k, more)
  BY <1>1, LoopType
<1>5. /\ breakpoints' = [breakpoints EXCEPT ![listed] = list]
      /\ marks' = {now[i] : i \in done \cap kept}
      /\ entered' = (done # DOMAIN Current)
      /\ entered' => asmText' = asmText /\ prevInText' = prevInText
      /\ ~entered' => asmText' = [asmText EXCEPT ![inEditor] = t] /\ prevInText' = t
  BY <1>3
<1>6. done # DOMAIN Current => \E n \in Range(Current) : Throws(n, k, more, shown, checked)
  <2> SUFFICES ASSUME \A n \in Range(Current) : ~Throws(n, k, more, shown, checked)
               PROVE  done = DOMAIN Current
    OBVIOUS
  <2>1. \A i \in DOMAIN Current : i \in Nat /\ \A j \in 1 .. i : j \in DOMAIN Current
    BY DEF TypeOK, Current
  <2>2. \A i \in DOMAIN Current : Current[i] \in Range(Current)
    BY DEF Range
  <2>3. \A i \in DOMAIN Current : \A j \in 1 .. i : ~Throws(Current[j], k, more, shown, checked)
    BY <2>1, <2>2
  <2> QED BY <2>3 DEF Done
<1>7. kept = {i \in DOMAIN Current : i \in done => ~Dropped(Current[i], k, more)}
  BY DEF Kept
<1> HIDE DEF done, kept, now, list
<1>8. ASSUME done = DOMAIN Current
      PROVE  /\ Range(list) = Survivors(k, more)
             /\ Range(list) = {now[i] : i \in done \cap kept}
  <2>1. kept = {i \in DOMAIN Current : ~Dropped(Current[i], k, more)}
    BY <1>7, <1>8
  <2>2. Range(list) = {Moved(Current[i], k, more) : i \in kept}
    BY <1>4, <1>8, <2>1
  <2>3. Stay(k, more) = {Current[i] : i \in kept}
    BY <2>1 DEF Stay, Range
  <2>4. Survivors(k, more) = {Moved(Current[i], k, more) : i \in kept}
    BY <2>3 DEF Survivors
  <2>5. kept = done \cap kept
    BY <1>8, <2>1
  <2> QED BY <1>4, <2>2, <2>4, <2>5
<1>9. Current' = list
  <2>1. listed \in Codes /\ breakpoints \in [Codes -> Seq(Int)]
    BY DEF TypeOK
  <2> QED BY <1>2, <1>5, <2>1 DEF Current
<1>10. entered' => \E n \in Range(Current), c \in BOOLEAN : Throws(n, k, more, shown, c)
  BY <1>5, <1>6
<1>11. ~entered' => /\ Range(Current') = Survivors(k, more) /\ marks' = Range(Current')
                    /\ Range(Current') \subseteq 1 .. shown
  BY <1>4, <1>5, <1>8, <1>9, Zenon
<1>12. marks' \subseteq 1 .. lines'
  BY <1>2, <1>4, <1>5 DEF SetText, shown
<1>13. entered' \in BOOLEAN
  BY <1>5
<1> QED BY <1>2, <1>4, <1>5, <1>10, <1>11, <1>12, <1>13 DEF more, shown

(* An edit keeps the types, heard or not.                                  *)
LEMMA ChangedType ==
  ASSUME TypeOK, NEW t \in Text, NEW k \in SavedType, Changed(t, k)
  PROVE  ProgramsOK' /\ PageOK'
<1>1. ProgramsOK /\ PageOK
  BY TypeParts
<1>2. CASE Heard(t, k)
  <2>1. /\ SetText(t) /\ inEditor' = inEditor /\ listed' = listed
        /\ \E list \in Seq(Int) : breakpoints' = [breakpoints EXCEPT ![listed] = list]
        /\ marks' \subseteq 1 .. lines' /\ entered' \in BOOLEAN
        /\ entered' => asmText' = asmText /\ prevInText' = prevInText
        /\ ~entered' => asmText' = [asmText EXCEPT ![inEditor] = t] /\ prevInText' = t
    BY <1>2, HeardParts
  <2>2. OffsetsAfter(t) \in Seq(Nat) /\ OffsetsAfter(t) # <<>> /\ Shown(t) \in Nat
    BY SetTextType
  <2>3. PageOK'
    BY <2>1, <2>2 DEF PageOK, SetText
  <2>4. breakpoints' \in [Codes -> Seq(Int)]
    BY <1>1, <2>1 DEF ProgramsOK
  <2>5. asmText' \in [Codes -> Text] /\ prevInText' \in Text \cup {NoText}
    BY <1>1, <2>1 DEF ProgramsOK
  <2> QED BY <1>1, <2>1, <2>3, <2>4, <2>5 DEF ProgramsOK
<1>3. CASE Unheard(t)
  BY <1>1, <1>3 DEF Unheard, programs, ProgramsOK, PageOK
<1> QED BY <1>2, <1>3 DEF Changed

(* Edits are counted up to their bound.                                      *)
LEMMA EditedType ==
  ASSUME TypeOK, NEW from \in Nat, NEW to \in Nat, NEW k, Edited(from, to, k)
  PROVE  HistoryOK'
BY EditorAssumption DEF TypeOK, Edited, HistoryOK

(* So are clicks.                                                          *)
LEMMA ClickedType ==
  ASSUME TypeOK, Clicked
  PROVE  HistoryOK'
BY EditorAssumption DEF TypeOK, Clicked, NoEdit, HistoryOK

(* Indents, and tabs, are spaces.                                          *)
LEMMA IndentationType ==
  ASSUME TypeOK, NEW s \in Places
  PROVE  /\ Indentation(s) \in Text /\ \A i \in 1 .. Len(Indentation(s)) : Indentation(s)[i] # NL
         /\ TabText \in Text /\ \A i \in 1 .. Len(TabText) : TabText[i] # NL
<1>1. s \in Int
  BY DEF Places
<1>2. IsFiniteSet(1 .. s - 1)
  BY <1>1, FS_Interval
<1>3. Indented(s) \in SUBSET (1 .. s - 1)
  BY DEF Indented
<1>4. Cardinality(Indented(s)) \in Nat
  BY <1>2, <1>3, FS_Subset, FS_CardinalityType
<1>5. Space \in Chars /\ NL # Space /\ TabText \in Seq({Space})
  BY EditorAssumption
<1>6. Indentation(s) \in Text /\ \A i \in 1 .. Len(Indentation(s)) : Indentation(s)[i] # NL
  BY <1>4, <1>5 DEF Indentation, Text
<1>7. TabText \in Text /\ \A i \in 1 .. Len(TabText) : TabText[i] # NL
  BY <1>5 DEF Text
<1> QED BY <1>6, <1>7

(* Where a typed text goes, and what it is.                                *)
LEMMA TypePlaces ==
  ASSUME TypeOK, NEW k \in SavedType,
         0 <= From(k), From(k) <= To(k), To(k) <= Len(value)
  PROVE  /\ From(k) \in Nat /\ To(k) \in Nat
         /\ Typed(k.key) \subseteq Text
<1>1. k.start \in Int /\ k.end \in Int
  BY DEF SavedType
<1>2. From(k) \in Nat /\ To(k) \in Nat
  BY <1>1 DEF From, To
<1>3. <<>> \in Text /\ <<NL>> \in Text /\ Inserts \subseteq Text
  BY EditorAssumption DEF Text
<1> QED BY <1>2, <1>3 DEF Typed

(* Every step keeps the types.                                             *)
LEMMA TypeStep == TypeOK /\ [Next]_vars => TypeOK'
<1> SUFFICES ASSUME TypeOK, [Next]_vars
             PROVE  TypeOK'
  OBVIOUS
<1>0. /\ ProgramsOK /\ PageOK /\ KeyboardOK /\ HistoryOK
      /\ value \in Text /\ Len(value) \in Nat
      /\ Keys \subseteq Keys \cup {NoKey} /\ "Tab" \in Keys
  BY TypeParts, EndPlacesType DEF TypeOK, Keys
<1> SUFFICES ProgramsOK' /\ PageOK' /\ KeyboardOK' /\ HistoryOK'
  <2>1. (ProgramsOK /\ PageOK /\ KeyboardOK /\ HistoryOK)' => TypeOK'
    BY Zenon DEF TypeOK, ProgramsOK, PageOK, KeyboardOK, HistoryOK, SavedType
  <2> QED BY <2>1
<1>1. ASSUME NEW s \in Places, NEW key \in Keys \ {"Tab"}, NEW e \in s .. Len(value),
             Type([start |-> s, end |-> e, key |-> key])
      PROVE  ProgramsOK' /\ PageOK' /\ KeyboardOK' /\ HistoryOK'
  <2> DEFINE k == [start |-> s, end |-> e, key |-> key]
  <2>1. k \in SavedType
    BY <1>0 DEF SavedType, Places
  <2> HIDE DEF k
  <2>2. Type(k)
    BY <1>1 DEF k
  <2>3. /\ Edited(From(k), To(k), k)
        /\ 0 <= From(k) /\ From(k) <= To(k) /\ To(k) <= Len(value)
        /\ \E new \in Typed(k.key) : Changed(Replaced(value, From(k), To(k), new), k)
        /\ saved' = k /\ enterDown' = (enterDown \/ k.key = "Enter")
    BY <2>2 DEF Type
  <2>4. From(k) \in Nat /\ To(k) \in Nat /\ Typed(k.key) \subseteq Text
    BY <2>1, <2>3, TypePlaces
  <2>5. PICK new \in Typed(k.key) : Changed(Replaced(value, From(k), To(k), new), k)
    BY <2>3
  <2>6. Replaced(value, From(k), To(k), new) \in Text
    BY <1>0, <2>3, <2>4, <2>5, ReplacedPlaces
  <2>7. ProgramsOK' /\ PageOK'
    BY <2>1, <2>5, <2>6, ChangedType
  <2>8. HistoryOK'
    BY <2>3, <2>4, EditedType
  <2>9. KeyboardOK'
    BY <1>0, <2>1, <2>3 DEF KeyboardOK
  <2> QED BY <2>7, <2>8, <2>9
<1>2. ASSUME NEW s \in Places, NEW e \in Places, Select(s, e)
      PROVE  ProgramsOK' /\ PageOK' /\ KeyboardOK' /\ HistoryOK'
  <2>1. HistoryOK'
    BY <1>2, ClickedType DEF Select
  <2>2. ProgramsOK' /\ PageOK' /\ KeyboardOK'
    BY <1>0, <1>2 DEF Select, Places, programs, page, ProgramsOK, PageOK, KeyboardOK, SavedType
  <2> QED BY <2>1, <2>2
<1>3. ASSUME NEW s \in Places, Tab(s)
      PROVE  ProgramsOK' /\ PageOK' /\ KeyboardOK' /\ HistoryOK'
  <2>1. s \in Nat /\ s <= Len(value) /\ saved \in SavedType /\ TabText \in Text
    BY <1>0, IndentationType DEF Places, KeyboardOK
  <2>2. Edited(s, s, saved) /\ Changed(Replaced(value, s, s, TabText), saved)
    BY <1>3 DEF Tab
  <2>3. Replaced(value, s, s, TabText) \in Text
    BY <1>0, <2>1, ReplacedPlaces
  <2>4. ProgramsOK' /\ PageOK'
    BY <2>1, <2>2, <2>3, ChangedType
  <2>5. HistoryOK'
    BY <2>1, <2>2, EditedType
  <2>6. s + Len(TabText) \in Int
    BY <2>1, EndPlacesType
  <2>7. KeyboardOK'
    BY <1>0, <1>3, <2>6 DEF Tab, KeyboardOK, SavedType
  <2> QED BY <2>4, <2>5, <2>7
<1>4. ASSUME NEW s \in Places, Indent(s)
      PROVE  ProgramsOK' /\ PageOK' /\ KeyboardOK' /\ HistoryOK'
  <2>1. s \in Nat /\ s <= Len(value) /\ saved \in SavedType /\ Indentation(s) \in Text
    BY <1>0, IndentationType DEF Places, KeyboardOK
  <2>2. KeyboardOK'
    BY <1>0, <1>4 DEF Indent, KeyboardOK
  <2>3. CASE Indentation(s) = <<>>
    <3>1. Clicked /\ UNCHANGED <<programs, page, prevInText, entered>>
      BY <1>4, <2>3 DEF Indent
    <3>2. HistoryOK'
      BY <3>1, ClickedType
    <3>3. ProgramsOK' /\ PageOK'
      BY <1>0, <3>1 DEF programs, page, ProgramsOK, PageOK
    <3> QED BY <2>2, <3>2, <3>3
  <2>4. CASE Indentation(s) # <<>>
    <3>1. Edited(s, s, saved) /\ Changed(Replaced(value, s, s, Indentation(s)), saved)
      BY <1>4, <2>4 DEF Indent
    <3>2. Replaced(value, s, s, Indentation(s)) \in Text
      BY <1>0, <2>1, ReplacedPlaces
    <3>3. ProgramsOK' /\ PageOK'
      BY <2>1, <3>1, <3>2, ChangedType
    <3>4. HistoryOK'
      BY <2>1, <3>1, EditedType
    <3> QED BY <2>2, <3>3, <3>4
  <2> QED BY <2>3, <2>4
<1>5. ASSUME NEW n \in 1 .. lines, Toggle(n)
      PROVE  ProgramsOK' /\ PageOK' /\ KeyboardOK' /\ HistoryOK'
  <2>1. HistoryOK'
    BY <1>5, ClickedType DEF Toggle
  <2>2. /\ UNCHANGED <<asmText, inEditor, listed, value, lineOffsets, lines, prevInText,
                       keyboard, entered>>
        /\ breakpoints' = [breakpoints EXCEPT ![listed] =
             IF n \in Range(Current) THEN Only(Current, DOMAIN Current \ {First(Current, n)})
             ELSE Append(Current, n)]
        /\ marks' \subseteq marks \cup {n}
    BY <1>0, <1>5 DEF Toggle, Current, ProgramsOK
  <2>3. Current \in Seq(Int) /\ n \in Int
    BY <1>0 DEF Current, ProgramsOK, PageOK
  <2>4. Only(Current, DOMAIN Current \ {First(Current, n)}) \in Seq(Int)
    BY <2>3, OnlyThose
  <2>5. Append(Current, n) \in Seq(Int)
    BY <2>3
  <2>6. ProgramsOK'
    BY <1>0, <2>2, <2>4, <2>5 DEF ProgramsOK
  <2>7. PageOK'
    BY <1>0, <2>2 DEF PageOK
  <2>8. KeyboardOK'
    BY <1>0, <2>2 DEF KeyboardOK, keyboard
  <2> QED BY <2>1, <2>6, <2>7, <2>8
<1>6. ASSUME NEW c \in Codes, Switch(c)
      PROVE  ProgramsOK' /\ PageOK' /\ KeyboardOK' /\ HistoryOK'
  <2>1. HistoryOK' /\ UNCHANGED <<asmText, breakpoints, prevInText, keyboard, entered>>
    BY <1>6, ClickedType DEF Switch
  <2>2. KeyboardOK'
    BY <1>0, <2>1 DEF KeyboardOK, keyboard
  <2>3. inEditor' = c /\ listed' \in Codes
    BY <1>0, <1>6 DEF Switch, ProgramsOK
  <2>4. ProgramsOK'
    BY <1>0, <2>1, <2>3 DEF ProgramsOK
  <2>5. CASE AllReached(Current, lines)
    <3>1. SetText(asmText[c]) /\ marks' = Reached(breakpoints[c], lines')
      BY <1>6, <2>5 DEF Switch, MarkedAnew
    <3>2. asmText[c] \in Text
      BY <1>0 DEF ProgramsOK
    <3>3. breakpoints[c] \in Seq(Int)
      BY <1>0 DEF ProgramsOK
    <3>4. marks' \subseteq 1 .. lines'
      BY <3>1, <3>3 DEF Reached
    <3> QED BY <2>1, <2>2, <2>4, <3>1, <3>2, <3>4, SetTextType DEF SetText, PageOK
  <2>6. CASE ~AllReached(Current, lines)
    <3>1. marks' \subseteq marks /\ UNCHANGED <<value, lineOffsets, lines>>
      BY <1>6, <2>6 DEF Switch
    <3> QED BY <1>0, <2>1, <2>2, <2>4, <3>1 DEF PageOK
  <2> QED BY <2>5, <2>6
<1>7. ASSUME NEW t \in Disassembled, Load(t)
      PROVE  ProgramsOK' /\ PageOK' /\ KeyboardOK' /\ HistoryOK'
  <2>1. HistoryOK' /\ UNCHANGED <<inEditor, prevInText, keyboard, entered>>
        /\ breakpoints' = Cleared
    BY <1>7, ClickedType DEF Load
  <2>2. KeyboardOK'
    BY <1>0, <2>1 DEF KeyboardOK, keyboard
  <2>3. t \in Text /\ <<>> \in Text
    BY EditorAssumption DEF Text
  <2>4. breakpoints' \in [Codes -> Seq(Int)]
    BY <1>0, <2>1 DEF Cleared, ProgramsOK
  <2>5. asmText' \in [Codes -> Text] /\ listed' \in Codes
    BY <1>0, <1>7, <2>3 DEF Load, ProgramsOK
  <2>6. ProgramsOK'
    BY <1>0, <2>1, <2>4, <2>5 DEF ProgramsOK
  <2>7. PageOK'
    <3>1. CASE AllReached(Cleared[listed], lines)
      <4>1. SetText(t) /\ marks' = {}
        BY <1>7, <3>1 DEF Load
      <4> QED BY <2>3, <4>1, SetTextType DEF SetText, PageOK
    <3>2. CASE ~AllReached(Cleared[listed], lines)
      <4>1. marks' \subseteq marks /\ UNCHANGED <<value, lineOffsets, lines>>
        BY <1>7, <3>2 DEF Load
      <4> QED BY <1>0, <4>1 DEF PageOK
    <3> QED BY <3>1, <3>2
  <2> QED BY <2>1, <2>2, <2>6, <2>7
<1>8. CASE UNCHANGED vars
  BY <1>0, <1>8 DEF vars, programs, page, keyboard, ProgramsOK, PageOK, KeyboardOK, HistoryOK
<1> QED BY <1>1, <1>2, <1>3, <1>4, <1>5, <1>6, <1>7, <1>8 DEF Next

(* The state keeps its types, for any programs, texts, inserts and bounds. *)
THEOREM TypesKept == Spec => []TypeOK
<1>1. Init => TypeOK
  <2> SUFFICES ASSUME Init
               PROVE  TypeOK
    OBVIOUS
  <2>1. /\ asmText \in [Codes -> Text] /\ inEditor \in Codes /\ listed = inEditor
        /\ value = asmText[inEditor] /\ value \in Text
    BY EditorAssumption DEF Init
  <2>2. ProgramsOK
    <3>1. breakpoints = [c \in Codes |-> <<>>] /\ prevInText = NoText /\ entered = FALSE
      BY DEF Init
    <3>2. <<>> \in Seq(Int)
      OBVIOUS
    <3>3. breakpoints \in [Codes -> Seq(Int)]
      BY <3>1, <3>2
    <3> QED BY <2>1, <3>1, <3>3 DEF ProgramsOK
  <2>3. PageOK
    BY <2>1, OffsetsType, EndPlacesType DEF Init, PageOK
  <2>4. KeyboardOK
    <3>1. saved = [start |-> -1, end |-> -1, key |-> NoKey] /\ enterDown = FALSE
      BY DEF Init
    <3>2. -1 \in Int
      OBVIOUS
    <3> QED BY <3>1, <3>2 DEF KeyboardOK, SavedType
  <2>5. HistoryOK
    BY EditorAssumption DEF Init, HistoryOK, NoEdit
  <2> QED BY <2>2, <2>3, <2>4, <2>5, TypeParts
<1> QED BY <1>1, TypeStep, PTL DEF Spec

-----------------------------------------------------------------------------
(***************************************************************************)
(* While the editor listens, what it keeps fits together: the text and its *)
(* offsets, and the breakpoints of every program with the lines of its     *)
(* text.  Without the offsets the steps that move breakpoints say nothing  *)
(* about lines; an empty text has no line that is shown.                   *)
(***************************************************************************)
Steady ==
  ~entered =>
    /\ listed = inEditor /\ value = asmText[inEditor] /\ lines = Shown(value)
    /\ value # <<>> => lineOffsets = LineOffsets(value)
    /\ \A c \in Codes : Range(breakpoints[c]) \subseteq 1 .. Shown(asmText[c])

steady == <<asmText, breakpoints, inEditor, listed, value, lineOffsets, lines, entered>>

(* It does not depend on anything else.                                   *)
LEMMA SteadyKept ==
  ASSUME Steady, UNCHANGED steady
  PROVE  Steady'
BY DEF Steady, steady, Shown, LineOffsets

(* Setting a text makes its offsets and lines fit.                         *)
LEMMA SteadySet ==
  ASSUME NEW t, SetText(t),
         listed' = inEditor', t = asmText'[inEditor'],
         \A c \in Codes : Range(breakpoints'[c]) \subseteq 1 .. Shown(asmText'[c])
  PROVE  Steady'
<1>1. value' = t /\ lines' = Shown(t) /\ (t # <<>> => lineOffsets' = LineOffsets(t))
  BY DEF SetText, OffsetsAfter
<1> QED BY <1>1 DEF Steady, Shown, LineOffsets

(* Another element at the end of a list.                                   *)
LEMMA RangeOfAppended ==
  ASSUME NEW X, NEW list \in Seq(X), NEW n \in X
  PROVE  Range(Append(list, n)) = Range(list) \cup {n}
<1> DEFINE l == Append(list, n)
<1>1. Len(list) \in Nat /\ DOMAIN list = 1 .. Len(list)
  OBVIOUS
<1>2. /\ DOMAIN l = 1 .. Len(list) + 1 /\ l[Len(list) + 1] = n
      /\ \A i \in 1 .. Len(list) : l[i] = list[i]
  OBVIOUS
<1>3. DOMAIN l = DOMAIN list \cup {Len(list) + 1}
  BY <1>1, <1>2
<1> HIDE DEF l
<1>4. Range(l) = Range(list) \cup {n}
  BY <1>1, <1>2, <1>3 DEF Range
<1> QED BY <1>4 DEF l

(* An edit leaves breakpoints on lines of its text, or an exception.       *)
LEMMA SteadyChanged ==
  ASSUME TypeOK, Steady, NEW t \in Text, NEW k \in SavedType, Changed(t, k)
  PROVE  Steady'
<1>1. CASE Unheard(t)
  BY <1>1 DEF Unheard, Steady
<1>2. CASE Heard(t, k)
  <2>1. SUFFICES ASSUME ~entered'
                 PROVE  Steady'
    BY DEF Steady
  <2>2. /\ ~entered /\ SetText(t) /\ inEditor' = inEditor /\ listed' = listed
        /\ \E list \in Seq(Int) : breakpoints' = [breakpoints EXCEPT ![listed] = list]
        /\ asmText' = [asmText EXCEPT ![inEditor] = t]
        /\ Range(Current') \subseteq 1 .. Shown(t)
    BY <1>2, <2>1, HeardParts
  <2>3. /\ listed = inEditor /\ inEditor \in Codes
        /\ breakpoints \in [Codes -> Seq(Int)] /\ asmText \in [Codes -> Text]
        /\ \A c \in Codes : Range(breakpoints[c]) \subseteq 1 .. Shown(asmText[c])
    BY <2>2 DEF Steady, TypeOK
  <2>4. asmText'[inEditor] = t /\ Current' = breakpoints'[inEditor]
    BY <2>2, <2>3 DEF Current
  <2>5. \A c \in Codes : c # inEditor => breakpoints'[c] = breakpoints[c] /\ asmText'[c] = asmText[c]
    BY <2>2, <2>3
  <2>6. ASSUME NEW c \in Codes
        PROVE  Range(breakpoints'[c]) \subseteq 1 .. Shown(asmText'[c])
    <3>1. CASE c = inEditor
      BY <2>2, <2>4, <3>1
    <3>2. CASE c # inEditor
      BY <2>3, <2>5, <3>2
    <3> QED BY <3>1, <3>2
  <2> QED BY <2>2, <2>3, <2>4, <2>6, SteadySet
<1> QED BY <1>1, <1>2 DEF Changed

-----------------------------------------------------------------------------
(***************************************************************************)
(* The steps, once more: what is typed, the spaces of tabs and indents,    *)
(* and what is no edit.                                                    *)
(***************************************************************************)
TypedEdit(k, new) ==
  /\ edits' = edits + 1 /\ edit' = [from |-> From(k), to |-> To(k), by |-> k]
  /\ From(k) \in Nat /\ To(k) \in Nat /\ From(k) <= To(k) /\ To(k) <= Len(value)
  /\ k.start <= k.end /\ new \in Typed(k.key)
  /\ Changed(Replaced(value, From(k), To(k), new), k)
SpacesEdit(s, new) ==
  /\ edits' = edits + 1 /\ edit' = [from |-> s, to |-> s, by |-> saved]
  /\ s <= Len(value) /\ \A i \in 1 .. Len(new) : new[i] # NL
  /\ Changed(Replaced(value, s, s, new), saved)
NoEditStep ==
  /\ edits' = edits
  /\ \/ UNCHANGED steady /\ UNCHANGED marks
     \/ \E n \in 1 .. lines : Toggle(n)
     \/ \E c \in Codes : Switch(c)
     \/ \E t \in Disassembled : Load(t)

(* Every step is one of these.                                             *)
LEMMA Steps ==
  ASSUME TypeOK, [Next]_vars
  PROVE  \/ \E k \in SavedType, new \in Text : TypedEdit(k, new)
         \/ \E s \in Nat, new \in Text : SpacesEdit(s, new)
         \/ NoEditStep
<1>0. Len(value) \in Nat
  BY EndPlacesType DEF TypeOK
<1>1. ASSUME NEW s \in Places, NEW key \in Keys \ {"Tab"}, NEW e \in s .. Len(value),
             Type([start |-> s, end |-> e, key |-> key])
      PROVE  \E k \in SavedType, new \in Text : TypedEdit(k, new)
  <2> DEFINE k == [start |-> s, end |-> e, key |-> key]
  <2>1. k \in SavedType /\ k.start <= k.end
    BY <1>0 DEF SavedType, Places
  <2> HIDE DEF k
  <2>2. Type(k)
    BY <1>1 DEF k
  <2>3. /\ edits' = edits + 1 /\ edit' = [from |-> From(k), to |-> To(k), by |-> k]
        /\ 0 <= From(k) /\ From(k) <= To(k) /\ To(k) <= Len(value)
        /\ \E new \in Typed(k.key) : Changed(Replaced(value, From(k), To(k), new), k)
    BY <2>2 DEF Type, Edited
  <2>4. From(k) \in Nat /\ To(k) \in Nat /\ Typed(k.key) \subseteq Text
    BY <2>1, <2>3, TypePlaces
  <2>5. PICK new \in Typed(k.key) : Changed(Replaced(value, From(k), To(k), new), k)
    BY <2>3
  <2>6. TypedEdit(k, new)
    BY <2>1, <2>3, <2>4, <2>5 DEF TypedEdit
  <2> QED BY <2>1, <2>4, <2>5, <2>6
<1>2. ASSUME NEW s \in Places, Tab(s)
      PROVE  \E i \in Nat, new \in Text : SpacesEdit(i, new)
  <2>1. s \in Nat /\ s <= Len(value) /\ TabText \in Text /\ \A i \in 1 .. Len(TabText) : TabText[i] # NL
    BY <1>0, IndentationType DEF Places
  <2>2. SpacesEdit(s, TabText)
    BY <1>2, <2>1 DEF Tab, Edited, SpacesEdit
  <2> QED BY <2>1, <2>2
<1>3. ASSUME NEW s \in Places, Indent(s)
      PROVE  (\E i \in Nat, new \in Text : SpacesEdit(i, new)) \/ NoEditStep
  <2>1. /\ s \in Nat /\ s <= Len(value) /\ Indentation(s) \in Text
        /\ \A i \in 1 .. Len(Indentation(s)) : Indentation(s)[i] # NL
    BY <1>0, IndentationType DEF Places
  <2>2. CASE Indentation(s) = <<>>
    BY <1>3, <2>2 DEF Indent, Clicked, NoEditStep, programs, page, steady
  <2>3. CASE Indentation(s) # <<>>
    <3>1. SpacesEdit(s, Indentation(s))
      BY <1>3, <2>1, <2>3 DEF Indent, Edited, SpacesEdit
    <3> QED BY <2>1, <3>1
  <2> QED BY <2>2, <2>3
<1>4. ASSUME NEW s \in Places, NEW e \in Places, Select(s, e)
      PROVE  NoEditStep
  BY <1>4 DEF Select, Clicked, NoEditStep, programs, page, steady
<1>5. ASSUME NEW n \in 1 .. lines, Toggle(n)
      PROVE  NoEditStep
  BY <1>5 DEF Toggle, Clicked, NoEditStep
<1>6. ASSUME NEW c \in Codes, Switch(c)
      PROVE  NoEditStep
  BY <1>6 DEF Switch, Clicked, NoEditStep
<1>7. ASSUME NEW t \in Disassembled, Load(t)
      PROVE  NoEditStep
  BY <1>7 DEF Load, Clicked, NoEditStep
<1>8. CASE UNCHANGED vars
  BY <1>8 DEF vars, programs, page, steady, NoEditStep
<1> QED BY <1>1, <1>2, <1>3, <1>4, <1>5, <1>6, <1>7, <1>8 DEF Next

(* Every step keeps together what fits.                                    *)
LEMMA SteadyStep ==
  ASSUME TypeOK, Steady, [Next]_vars
  PROVE  Steady'
<1>0. value \in Text /\ Len(value) \in Nat /\ saved \in SavedType
  BY EndPlacesType DEF TypeOK, SavedType
<1>1. ASSUME NEW k \in SavedType, NEW new \in Text, TypedEdit(k, new)
      PROVE  Steady'
  <2>1. Replaced(value, From(k), To(k), new) \in Text
    BY <1>0, <1>1, ReplacedPlaces DEF TypedEdit
  <2> QED BY <1>1, <2>1, SteadyChanged DEF TypedEdit
<1>2. ASSUME NEW s \in Nat, NEW new \in Text, SpacesEdit(s, new)
      PROVE  Steady'
  <2>1. Replaced(value, s, s, new) \in Text
    BY <1>0, <1>2, ReplacedPlaces DEF SpacesEdit
  <2> QED BY <1>0, <1>2, <2>1, SteadyChanged DEF SpacesEdit
<1>3. ASSUME NEW n \in 1 .. lines, Toggle(n)
      PROVE  Steady'
  <2>1. SUFFICES ASSUME ~entered
                 PROVE  Steady'
    BY <1>3 DEF Toggle, Steady
  <2>2. /\ UNCHANGED <<asmText, inEditor, listed, value, lineOffsets, lines, prevInText,
                       keyboard, entered>>
        /\ breakpoints' = [breakpoints EXCEPT ![listed] =
             IF n \in Range(Current) THEN Only(Current, DOMAIN Current \ {First(Current, n)})
             ELSE Append(Current, n)]
    BY <1>3 DEF Toggle, Current
  <2>3. /\ listed \in Codes /\ breakpoints \in [Codes -> Seq(Int)] /\ Current \in Seq(Int)
        /\ n \in 1 .. Shown(asmText[listed]) /\ n \in Int
        /\ \A c \in Codes : Range(breakpoints[c]) \subseteq 1 .. Shown(asmText[c])
    BY <2>1 DEF TypeOK, Steady, Current
  <2>4. Range(Only(Current, DOMAIN Current \ {First(Current, n)})) \subseteq Range(Current)
    <3> DEFINE S == DOMAIN Current \ {First(Current, n)}
    <3>1. Range(Only(Current, S)) = {Current[i] : i \in S} /\ S \subseteq DOMAIN Current
      BY <2>3, OnlyThose
    <3>2. Range(Current) = {Current[i] : i \in DOMAIN Current}
      BY DEF Range
    <3> HIDE DEF S
    <3> QED BY <3>1, <3>2 DEF S
  <2>5. Range(Append(Current, n)) = Range(Current) \cup {n}
    BY <2>3, RangeOfAppended
  <2>6. Range(breakpoints'[listed]) \subseteq Range(Current) \cup {n}
    BY <2>2, <2>3, <2>4, <2>5
  <2>7. Range(breakpoints'[listed]) \subseteq 1 .. Shown(asmText[listed])
    BY <2>3, <2>6 DEF Current
  <2>8. \A c \in Codes : c # listed => breakpoints'[c] = breakpoints[c]
    BY <2>2, <2>3
  <2>9. \A c \in Codes : Range(breakpoints'[c]) \subseteq 1 .. Shown(asmText[c])
    BY <2>3, <2>7, <2>8
  <2>10. \A c \in Codes : Range(breakpoints'[c]) \subseteq 1 .. Shown(asmText'[c])
    BY <2>2, <2>9
  <2>11. (value' # <<>> => lineOffsets' = LineOffsets(value')) /\ listed' = inEditor'
         /\ value' = asmText'[inEditor'] /\ lines' = Shown(value')
    BY <2>1, <2>2 DEF Steady
  <2> QED BY <2>10, <2>11 DEF Steady, Shown, LineOffsets
<1>4. ASSUME NEW c \in Codes, Switch(c)
      PROVE  Steady'
  <2>1. SUFFICES ASSUME ~entered
                 PROVE  Steady'
    BY <1>4 DEF Switch, Steady
  <2>2. AllReached(Current, lines)
    BY <2>1 DEF AllReached, Steady, Current, TypeOK
  <2>3. SetText(asmText[c]) /\ listed' = c /\ inEditor' = c /\ UNCHANGED <<asmText, breakpoints>>
    BY <1>4, <2>2 DEF Switch
  <2>4. \A d \in Codes : Range(breakpoints'[d]) \subseteq 1 .. Shown(asmText'[d])
    BY <2>1, <2>3 DEF Steady
  <2> QED BY <2>3, <2>4, SteadySet
<1>5. ASSUME NEW t \in Disassembled, Load(t)
      PROVE  Steady'
  <2>1. SUFFICES ASSUME ~entered
                 PROVE  Steady'
    BY <1>5 DEF Load, Steady
  <2>2. /\ listed = inEditor /\ inEditor \in Codes
        /\ breakpoints \in [Codes -> Seq(Int)] /\ asmText \in [Codes -> Text]
        /\ \A c \in Codes : Range(breakpoints[c]) \subseteq 1 .. Shown(asmText[c])
    BY <2>1 DEF Steady, TypeOK
  <2>3. Cleared[listed] = <<>> /\ \A c \in Codes : c # inEditor => Cleared[c] = breakpoints[c]
    BY <2>2 DEF Cleared
  <2>4. Range(<<>>) = {}
    BY DEF Range
  <2>5. AllReached(Cleared[listed], lines)
    BY <2>3, <2>4 DEF AllReached
  <2>6. /\ SetText(t) /\ listed' = inEditor /\ inEditor' = inEditor
        /\ asmText' = [asmText EXCEPT ![inEditor] = t] /\ breakpoints' = Cleared
    BY <1>5, <2>5 DEF Load
  <2>7. asmText'[inEditor'] = t /\ \A c \in Codes : c # inEditor => asmText'[c] = asmText[c]
    BY <2>2, <2>6
  <2>8. ASSUME NEW c \in Codes
        PROVE  Range(breakpoints'[c]) \subseteq 1 .. Shown(asmText'[c])
    <3>1. CASE c = inEditor
      BY <2>2, <2>3, <2>4, <2>6, <3>1
    <3>2. CASE c # inEditor
      BY <2>2, <2>3, <2>6, <2>7, <3>2
    <3> QED BY <3>1, <3>2
  <2> QED BY <2>6, <2>7, <2>8, SteadySet
<1>6. CASE UNCHANGED steady
  BY <1>6, SteadyKept
<1> QED BY <1>1, <1>2, <1>3, <1>4, <1>5, <1>6, Steps DEF NoEditStep

(* Together, for every behaviour.                                          *)
LEMMA SteadyAlways == Spec => [](TypeOK /\ Steady)
<1>1. Init => Steady
  <2> SUFFICES ASSUME Init
               PROVE  Steady
    OBVIOUS
  <2>1. Range(<<>>) = {}
    BY DEF Range
  <2>2. \A c \in Codes : breakpoints[c] = <<>>
    BY DEF Init
  <2>3. \A c \in Codes : Range(breakpoints[c]) \subseteq 1 .. Shown(asmText[c])
    BY <2>1, <2>2
  <2>4. /\ listed = inEditor /\ value = asmText[inEditor] /\ lines = Shown(value)
        /\ lineOffsets = LineOffsets(value)
    BY DEF Init, Shown
  <2> QED BY <2>3, <2>4 DEF Steady
<1>2. TypeOK /\ Steady /\ [Next]_vars => Steady'
  BY SteadyStep
<1> QED BY <1>1, <1>2, TypesKept, PTL DEF Spec

(* While the editor listens, the breakpoints of every program are on lines *)
(* of its text, and the text shown is that of the program edits go to.     *)
THEOREM BreakpointsStayOnLines == Spec => []BreakpointsOnLines
<1>1. TypeOK /\ Steady => BreakpointsOnLines
  <2> SUFFICES ASSUME TypeOK, Steady, ~entered
               PROVE  BreakpointsOnLines
    BY DEF BreakpointsOnLines
  <2>1. \A c \in Codes : asmText[c] \in Text /\ Range(breakpoints[c]) \subseteq 1 .. Shown(asmText[c])
    BY DEF TypeOK, Steady
  <2>2. \A c \in Codes : Lines(asmText[c]) \in Nat /\ Shown(asmText[c]) \in Nat
                         /\ Shown(asmText[c]) <= Lines(asmText[c])
    BY <2>1, EndPlacesType DEF Shown
  <2>3. \A c \in Codes : 1 .. Shown(asmText[c]) \subseteq 1 .. Lines(asmText[c])
    BY <2>2
  <2>4. \A c \in Codes : Range(breakpoints[c]) \subseteq 1 .. Lines(asmText[c])
    BY <2>1, <2>3
  <2> QED BY <2>4 DEF Steady, BreakpointsOnLines
<1> QED BY <1>1, SteadyAlways, PTL

-----------------------------------------------------------------------------
(***************************************************************************)
(* Places of lines, and how many breaks an edit takes from before them.    *)
(***************************************************************************)

(* Breakpoints are on lines of the text in the editor, and the offsets     *)
(* used for them are the places of these lines.                            *)
LEMMA PlainLines ==
  ASSUME TypeOK, Steady, ~entered, NEW n \in Range(Current)
  PROVE  /\ value # <<>> /\ n \in 1 .. Lines(value)
         /\ n \in DOMAIN lineOffsets /\ Len(lineOffsets) = Lines(value)
         /\ ~Escapes(value) => /\ LineStart(n) = Begin(value, n) /\ LineEnd(n) = End(value, n)
                               /\ Starts(n) = Begin(value, n) /\ Stops(n) = End(value, n)
<1>1. listed = inEditor /\ inEditor \in Codes /\ value = asmText[inEditor] /\ value \in Text
  BY DEF Steady, TypeOK
<1>2. n \in 1 .. Shown(value)
  BY <1>1 DEF Steady, Current
<1>3. value # <<>> /\ n \in 1 .. Lines(value)
  BY <1>2 DEF Shown
<1>4. lineOffsets = LineOffsets(value) /\ Lines(value) \in Nat
  BY <1>1, <1>3, EndPlacesType DEF Steady
<1>5. Len(lineOffsets) = Lines(value) /\ DOMAIN lineOffsets = 1 .. Lines(value)
  BY <1>1, <1>4, OffsetsType DEF LineOffsets
<1>6. ASSUME ~Escapes(value), NEW m \in 1 .. Lines(value)
      PROVE  lineOffsets[m] = End(value, m)
  <2>1. End(value, m) \in 0 .. Len(value)
    BY <1>1, LinePlaces
  <2>2. EscapedLength(value, End(value, m)) = End(value, m)
    BY <1>1, <1>6, <2>1, EscapedLengthPlain
  <2> QED BY <1>4, <1>6, <2>2 DEF LineOffsets
<1>7. ASSUME ~Escapes(value)
      PROVE  /\ LineStart(n) = Begin(value, n) /\ LineEnd(n) = End(value, n)
             /\ Starts(n) = Begin(value, n) /\ Stops(n) = End(value, n)
  <2>1. LineEnd(n) = End(value, n)
    BY <1>3, <1>6, <1>7 DEF LineEnd
  <2>2. n # 1 => n - 1 \in 1 .. Lines(value)
    BY <1>3, <1>4
  <2>3. LineStart(n) = Begin(value, n)
    BY <1>6, <1>7, <2>2 DEF LineStart, Begin
  <2> QED BY <2>1, <2>3 DEF Starts, Stops, Begin
<1> QED BY <1>3, <1>5, <1>7

(* Of a text before line n, there are at most n - 1 breaks; and as many,   *)
(* or more, before a place that is not before the line.  The first         *)
(* character of a line that is not empty is none.                          *)
LEMMA BreaksBounds ==
  ASSUME NEW t \in Text, NEW n \in 1 .. Lines(t),
         NEW from \in Nat, NEW to \in Nat, from <= to, to <= Len(t)
  PROVE  /\ to <= Begin(t, n) => Cardinality(Breaks(t, from, to)) <= n - 1
         /\ Begin(t, n) <= from => Cardinality(Breaks(t, 0, from)) >= n - 1
         /\ from = Begin(t, n) /\ to = from + 1 /\ from < End(t, n)
              => Cardinality(Breaks(t, from, to)) = 0
<1> DEFINE b == Begin(t, n)
           e == End(t, n)
           B(x, y) == Cardinality(Breaks(t, x, y))
<1>1. /\ Len(t) \in Nat /\ b \in Nat /\ e \in Nat /\ n \in Int
      /\ Cardinality(Breaks(t, 0, b)) = n - 1 /\ Breaks(t, b, e) = {}
  BY LinePlaces, EndPlacesType
<1> HIDE DEF b, e
<1>2. B(0, from) \in Nat /\ B(from, to) \in Nat /\ B(0, b) \in Nat
      /\ B(to, b) \in Nat /\ B(0, to) \in Nat /\ B(b, from) \in Nat
  BY <1>1, BreaksFinite
<1>3. to <= b => B(0, b) = B(0, to) + B(to, b) /\ B(0, to) = B(0, from) + B(from, to)
  BY <1>1, BreaksSplit
<1>4. b <= from => B(0, from) = B(0, b) + B(b, from)
  BY <1>1, BreaksSplit
<1>5. ASSUME from = b, to = from + 1, from < e
      PROVE  B(from, to) = 0
  <2>1. Breaks(t, from, to) \subseteq Breaks(t, b, e)
    BY <1>1, <1>5 DEF Breaks
  <2>2. Breaks(t, from, to) = {}
    BY <1>1, <2>1
  <2> QED BY <2>2, FS_EmptySet
<1>6. B(0, b) = n - 1
  BY <1>1
<1> HIDE DEF B
<1>7. /\ to <= b => B(from, to) <= n - 1
      /\ b <= from => B(0, from) >= n - 1
  BY <1>1, <1>2, <1>3, <1>4, <1>6
<1> QED BY <1>5, <1>7 DEF b, e, B

(* How many lines a text has more once some of it is replaced.             *)
LEMMA GrowthOf ==
  ASSUME TypeOK, Steady, ~entered, value # <<>>,
         NEW new \in Text, NEW from \in Nat, NEW to \in Nat, from <= to, to <= Len(value),
         Replaced(value, from, to, new) # <<>>
  PROVE  LET t == Replaced(value, from, to, new)
         IN /\ t \in Text /\ Shown(t) = Lines(t) /\ Lines(t) \in Nat /\ Lines(value) \in Nat
            /\ Growth(t) = Lines(t) - Lines(value)
            /\ Growth(t) = Cardinality(AllBreaks(new)) - Cardinality(Breaks(value, from, to))
            /\ Lines(t) >= Cardinality(Breaks(value, 0, from)) + 1
            /\ Cardinality(AllBreaks(new)) \in Nat /\ Cardinality(Breaks(value, from, to)) \in Nat
<1> DEFINE t == Replaced(value, from, to, new)
<1>1. value \in Text
  BY DEF TypeOK
<1>2. t \in Text
  BY <1>1, ReplacedPlaces
<1>3. /\ Lines(t) = Lines(value) - Cardinality(Breaks(value, from, to)) + Cardinality(AllBreaks(new))
      /\ Lines(t) >= Cardinality(Breaks(value, 0, from)) + 1
  BY <1>1, ReplacedLines
<1>4. Lines(t) \in Nat /\ Lines(value) \in Nat /\ Len(new) \in Nat
  BY <1>1, <1>2, EndPlacesType
<1>5. Cardinality(AllBreaks(new)) \in Nat /\ Cardinality(Breaks(value, from, to)) \in Nat
  BY <1>4, BreaksFinite DEF AllBreaks
<1>6. Growth(t) = Lines(t) - Lines(value)
  <2>1. lineOffsets = LineOffsets(value) /\ OffsetsAfter(t) = LineOffsets(t)
    BY DEF Steady, OffsetsAfter
  <2> QED BY <1>1, <1>2, <2>1, OffsetsType DEF Growth
<1>7. Shown(t) = Lines(t)
  BY DEF Shown
<1> HIDE DEF t
<1>8. Growth(t) = Cardinality(AllBreaks(new)) - Cardinality(Breaks(value, from, to))
  BY <1>3, <1>4, <1>5, <1>6
<1> QED BY <1>2, <1>3, <1>4, <1>5, <1>6, <1>7, <1>8 DEF t

(* Spaces make no lines.                                                   *)
LEMMA SpacesGrow ==
  ASSUME TypeOK, Steady, ~entered, value # <<>>, NEW new \in Text, NEW s \in Nat,
         s <= Len(value), \A i \in 1 .. Len(new) : new[i] # NL,
         Replaced(value, s, s, new) # <<>>
  PROVE  Growth(Replaced(value, s, s, new)) = 0
<1>1. Breaks(value, s, s) = {}
  BY DEF Breaks
<1>2. Cardinality(Breaks(value, s, s)) = 0
  BY <1>1, FS_EmptySet
<1>3. Cardinality(AllBreaks(new)) = 0
  BY NoBreaks
<1> QED BY <1>2, <1>3, GrowthOf

-----------------------------------------------------------------------------
(***************************************************************************)
(* The handler goes on listening.                                          *)
(***************************************************************************)

(* What an edit, at a caret or of a selection, moves: a breakpoint that is *)
(* moved with more than its own line loses fewer lines than are before it; *)
(* one that stays has as many lines before it as it had.                   *)
LEMMA MovesOnto ==
  ASSUME TypeOK, Steady, ~entered, ~Escapes(value),
         NEW k \in SavedType, NEW new \in Text, TypedEdit(k, new),
         Replaced(value, From(k), To(k), new) # <<>>,
         NEW n \in Range(Current),
         ~Dropped(n, k, Growth(Replaced(value, From(k), To(k), new)))
  PROVE  Moved(n, k, Growth(Replaced(value, From(k), To(k), new)))
           \in 1 .. Lines(Replaced(value, From(k), To(k), new))
<1> DEFINE t == Replaced(value, From(k), To(k), new)
           g == Growth(t)
           s == Begin(value, n)
           e == End(value, n)
           lost == Cardinality(Breaks(value, From(k), To(k)))
           before == Cardinality(Breaks(value, 0, From(k)))
           got == Cardinality(AllBreaks(new))
<1>1. /\ From(k) \in Nat /\ To(k) \in Nat /\ From(k) <= To(k) /\ To(k) <= Len(value)
      /\ k.start <= k.end /\ k.start \in Int /\ k.end \in Int
  BY DEF TypedEdit, SavedType
<1>2. value # <<>> /\ value \in Text /\ n \in 1 .. Lines(value)
      /\ LineStart(n) = s /\ LineEnd(n) = e
  BY PlainLines DEF TypeOK
<1>3. /\ Lines(t) \in Nat /\ Lines(value) \in Nat
      /\ g = Lines(t) - Lines(value) /\ g = got - lost
      /\ Lines(t) >= before + 1 /\ got \in Nat /\ lost \in Nat
  BY <1>1, <1>2, GrowthOf
<1>4. /\ To(k) <= s => lost <= n - 1
      /\ s <= From(k) => before >= n - 1
      /\ From(k) = s /\ To(k) = From(k) + 1 /\ From(k) < e => lost = 0
  BY <1>1, <1>2, BreaksBounds
<1>5. s \in Nat /\ e \in Nat /\ s <= e /\ before \in Nat /\ n \in Int
  <2>1. before \in Nat
    BY <1>1, BreaksFinite
  <2> QED BY <1>2, <2>1, LinePlaces
<1>6. ~SelectedAway(n, k) /\ ~(ErasedAt(n, k, g) /\ ~WithText(n))
  BY DEF Dropped
<1> SUFFICES Moved(n, k, g) \in 1 .. Lines(t)
  OBVIOUS
<1> HIDE DEF t, g, s, e, lost, before, got
<1>7. CASE k.start <= s /\ k.end <= s
  <2>1. Moved(n, k, g) = n + g
    BY <1>2, <1>7 DEF Moved
  <2>2. n + g <= Lines(t)
    BY <1>2, <1>3, <1>5
  <2>3. CASE To(k) <= s
    <3>1. n + g >= 1
      BY <1>3, <1>4, <1>5, <2>3
    <3> QED BY <1>3, <1>5, <2>1, <2>2, <3>1
  <2>4. CASE ~(To(k) <= s)
    <3>1. k.start = s /\ k.end = s /\ k.key = "Delete" /\ From(k) = s /\ To(k) = s + 1
      BY <1>1, <1>5, <1>7, <2>4 DEF From, To
    <3>2. g >= 0
      <4>1. CASE s < e
        <5>1. lost = 0
          BY <1>4, <3>1, <4>1
        <5> QED BY <1>3, <5>1
      <4>2. CASE s = e
        <5>1. ~WithText(n)
          BY <1>2, <1>5, <4>2 DEF WithText, OnLine
        <5>2. g = 0
          BY <1>2, <1>6, <3>1, <5>1 DEF ErasedAt
        <5> QED BY <5>2
      <4> QED BY <1>5, <4>1, <4>2
    <3>3. n + g >= 1
      BY <1>2, <1>3, <3>2
    <3> QED BY <1>3, <1>5, <2>1, <2>2, <3>3
  <2> QED BY <2>3, <2>4
<1>8. CASE ~(k.start <= s /\ k.end <= s)
  <2>1. Moved(n, k, g) = n
    BY <1>2, <1>8 DEF Moved
  <2>2. s <= From(k)
    <3>1. CASE k.start = k.end
      BY <1>1, <1>5, <1>8, <3>1 DEF From
    <3>2. CASE k.start # k.end
      <4>1. From(k) = k.start /\ k.end > s
        BY <1>1, <1>5, <1>8, <3>2 DEF From
      <4>2. ~(k.start < s)
        BY <1>2, <1>6, <3>2, <4>1 DEF SelectedAway
      <4> QED BY <1>1, <1>5, <4>1, <4>2
    <3> QED BY <3>1, <3>2
  <2>3. n <= Lines(t)
    BY <1>3, <1>4, <1>5, <2>2
  <2> QED BY <1>2, <1>3, <2>1, <2>3
<1> QED BY <1>7, <1>8

(* The loop throws at no breakpoint, when the edit leaves a text, nothing  *)
(* is escaped and the text remembered is long enough, or none.             *)
LEMMA ThrowsOnlyOffLines ==
  ASSUME TypeOK, Steady, ~entered, ~Escapes(value),
         ~(prevInText # NoText /\ Len(prevInText) < Len(value)),
         NEW n \in Range(Current), NEW k, NEW more, NEW shown, NEW checked \in BOOLEAN,
         Throws(n, k, more, shown, checked)
  PROVE  ~Dropped(n, k, more) /\ Moved(n, k, more) \notin 1 .. shown
<1>1. n \in DOMAIN lineOffsets /\ value \in Text /\ n \in 1 .. Lines(value)
      /\ LineStart(n) = Begin(value, n) /\ LineEnd(n) = End(value, n)
  BY PlainLines DEF TypeOK
<1>2. Begin(value, n) \in Nat /\ End(value, n) \in 0 .. Len(value) /\ Len(value) \in Nat
  BY <1>1, LinePlaces, EndPlacesType
<1>3. prevInText # NoText => Len(prevInText) \in Nat /\ Len(value) <= Len(prevInText)
  <2>1. prevInText # NoText => Len(prevInText) \in Nat
    BY DEF TypeOK, Text
  <2>2. QED BY <1>2, <2>1
<1>4. ~RunsOver(n)
  BY <1>1, <1>2, <1>3 DEF RunsOver, OnLine
<1>5. ~Fails(n, k, more, checked)
  BY <1>1, <1>4 DEF Fails
<1> QED BY <1>5 DEF Throws

(* An edit is worked on to its end, and the next is heard: unless it       *)
(* leaves no text, or the offsets are those of escaped characters, or the  *)
(* text remembered is another's, and too short to look at what is erased.  *)
THEOREM EditorGoesOn == Spec => EditorListens
<1> DEFINE Listens == entered' => \/ entered
                                  \/ value' = <<>> \/ Escapes(value)
                                  \/ prevInText # NoText /\ Len(prevInText) < Len(value)
<1>1. TypeOK /\ Steady /\ [Next]_vars => [Listens]_vars
  <2> SUFFICES ASSUME TypeOK, Steady, [Next]_vars, entered', ~entered, value' # <<>>,
                      ~Escapes(value),
                      ~(prevInText # NoText /\ Len(prevInText) < Len(value))
               PROVE  FALSE
    OBVIOUS
  <2>0. saved \in SavedType /\ value \in Text
    BY DEF TypeOK, SavedType
  <2>1. CASE NoEditStep
    BY <2>1 DEF NoEditStep, steady, Toggle, Switch, Load
  <2>2. ASSUME NEW k \in SavedType, NEW new \in Text, TypedEdit(k, new)
        PROVE  FALSE
    <3> DEFINE t == Replaced(value, From(k), To(k), new)
    <3>1. t \in Text /\ Heard(t, k)
      BY <2>0, <2>2, ReplacedPlaces DEF TypedEdit, Changed, Unheard
    <3>2. t # <<>>
      BY <3>1 DEF Heard, SetText
    <3>3. PICK n \in Range(Current), checked \in BOOLEAN : Throws(n, k, Growth(t), Shown(t), checked)
      BY <3>1, HeardParts
    <3>4. ~Dropped(n, k, Growth(t)) /\ Moved(n, k, Growth(t)) \notin 1 .. Shown(t)
      BY <3>3, ThrowsOnlyOffLines
    <3>5. Moved(n, k, Growth(t)) \in 1 .. Lines(t)
      BY <2>2, <3>2, <3>4, MovesOnto
    <3> QED BY <3>2, <3>4, <3>5 DEF Shown
  <2>3. ASSUME NEW s \in Nat, NEW new \in Text, SpacesEdit(s, new)
        PROVE  FALSE
    <3> DEFINE t == Replaced(value, s, s, new)
    <3>0. s <= Len(value) /\ Changed(t, saved)
      BY <2>3 DEF SpacesEdit
    <3>9. t \in Text
      BY <2>0, <3>0, ReplacedPlaces
    <3> HIDE DEF t
    <3>1. t \in Text /\ Heard(t, saved)
      BY <3>0, <3>9 DEF Changed, Unheard
    <3> USE DEF t
    <3>2. t # <<>>
      BY <3>1 DEF Heard, SetText
    <3>3. PICK n \in Range(Current), checked \in BOOLEAN : Throws(n, saved, Growth(t), Shown(t), checked)
      BY <2>0, <3>1, HeardParts
    <3>4. ~Dropped(n, saved, Growth(t)) /\ Moved(n, saved, Growth(t)) \notin 1 .. Shown(t)
      BY <3>3, ThrowsOnlyOffLines
    <3>5. value # <<>> /\ n \in 1 .. Lines(value)
      BY PlainLines
    <3>6. Growth(t) = 0
      BY <2>3, <3>2, <3>5, SpacesGrow DEF SpacesEdit
    <3>7. Growth(t) = Lines(t) - Lines(value) /\ Lines(t) \in Nat /\ Lines(value) \in Nat
      BY <2>3, <3>2, <3>5, GrowthOf DEF SpacesEdit
    <3>8. Moved(n, saved, Growth(t)) = n
      BY <3>5, <3>6 DEF Moved
    <3>10. Lines(t) = Lines(value)
      BY <3>6, <3>7
    <3> QED BY <3>2, <3>4, <3>5, <3>8, <3>10 DEF Shown
  <2> QED BY <2>1, <2>2, <2>3, Steps
<1> QED BY <1>1, SteadyAlways, PTL DEF Spec, EditorListens

-----------------------------------------------------------------------------
(***************************************************************************)
(* The marks follow the breakpoints.                                       *)
(***************************************************************************)

(* Without the first of a value, a list in which it is the only one has    *)
(* all the others.                                                         *)
LEMMA OnlyOthers ==
  ASSUME NEW X, NEW list \in Seq(X), IsInjective(list), NEW n \in Range(list)
  PROVE  Range(Only(list, DOMAIN list \ {First(list, n)})) = Range(list) \ {n}
<1>1. PICK i \in DOMAIN list : list[i] = n
  BY DEF Range
<1>2. DOMAIN list = 1 .. Len(list) /\ Len(list) \in Nat
  OBVIOUS
<1>3. \A j \in 1 .. i - 1 : list[j] # n
  BY <1>1, <1>2 DEF IsInjective
<1>4. First(list, n) \in DOMAIN list /\ list[First(list, n)] = n
  BY <1>1, <1>3 DEF First
<1> DEFINE f == First(list, n)
           S == DOMAIN list \ {f}
<1>5. Range(Only(list, S)) = {list[j] : j \in S}
  BY OnlyThose
<1> HIDE DEF f
<1>6. \A j \in DOMAIN list : list[j] = n <=> j = f
  BY <1>4 DEF IsInjective, f
<1>7. {list[j] : j \in S} = Range(list) \ {n}
  BY <1>6 DEF Range
<1> QED BY <1>5, <1>7 DEF f

(* What marks the lines of breakpoints never forgets one, until two of     *)
(* them have come together on one line, and always after an edit.          *)
THEOREM MarksStay == Spec => MarksFollow
<1> DEFINE Follow == ~entered' /\ marks = Range(Current)
                       => \/ marks' = Range(Current')
                          \/ ~IsInjective(Current) /\ edits' = edits
<1>1. TypeOK /\ Steady /\ [Next]_vars => [Follow]_vars
  <2> SUFFICES ASSUME TypeOK, Steady, [Next]_vars, ~entered', marks = Range(Current),
                      IsInjective(Current) \/ edits' # edits
               PROVE  marks' = Range(Current')
    OBVIOUS
  <2>0. /\ saved \in SavedType /\ value \in Text /\ listed \in Codes
        /\ breakpoints \in [Codes -> Seq(Int)] /\ Current \in Seq(Int) /\ edits \in Int
    BY DEF TypeOK, SavedType, Current
  <2>1. ASSUME NEW t \in Text, NEW k \in SavedType, Changed(t, k)
        PROVE  marks' = Range(Current')
    BY <2>1, HeardParts DEF Changed, Unheard
  <2>2. ASSUME NEW k \in SavedType, NEW new \in Text, TypedEdit(k, new)
        PROVE  marks' = Range(Current')
    BY <2>0, <2>1, <2>2, ReplacedPlaces DEF TypedEdit
  <2>3. ASSUME NEW s \in Nat, NEW new \in Text, SpacesEdit(s, new)
        PROVE  marks' = Range(Current')
    <3>1. s <= Len(value) /\ Changed(Replaced(value, s, s, new), saved)
      BY <2>3 DEF SpacesEdit
    <3> QED BY <2>0, <2>1, <3>1, ReplacedPlaces
  <2>4. ASSUME NEW n \in 1 .. lines, Toggle(n)
        PROVE  marks' = Range(Current')
    <3>1. edits' = edits /\ listed' = listed /\ n \in Int
          /\ breakpoints' = [breakpoints EXCEPT ![listed] =
               IF n \in Range(Current) THEN Only(Current, DOMAIN Current \ {First(Current, n)})
               ELSE Append(Current, n)]
          /\ marks' = IF n \in Range(Current) THEN marks \ {n} ELSE marks \cup {n}
      BY <2>4 DEF Toggle, Current, Clicked
    <3>2. Current' = IF n \in Range(Current) THEN Only(Current, DOMAIN Current \ {First(Current, n)})
                     ELSE Append(Current, n)
      BY <2>0, <3>1 DEF Current
    <3>3. IsInjective(Current)
      BY <3>1
    <3>4. CASE n \in Range(Current)
      <4>1. Range(Only(Current, DOMAIN Current \ {First(Current, n)})) = Range(Current) \ {n}
        BY <2>0, <3>3, <3>4, OnlyOthers
      <4> QED BY <3>1, <3>2, <3>4, <4>1
    <3>5. CASE n \notin Range(Current)
      <4>1. Range(Append(Current, n)) = Range(Current) \cup {n}
        BY <2>0, <3>1, RangeOfAppended
      <4>2. Current' = Append(Current, n) /\ marks' = marks \cup {n}
        BY <3>1, <3>2, <3>5
      <4> QED BY <4>1, <4>2
    <3> QED BY <3>4, <3>5
  <2>5. ASSUME NEW c \in Codes, Switch(c)
        PROVE  marks' = Range(Current')
    <3>1. ~entered /\ Range(Current) \subseteq 1 .. lines
          /\ Range(breakpoints[c]) \subseteq 1 .. Shown(asmText[c])
      BY <2>5 DEF Switch, Steady, Current, TypeOK
    <3>2. /\ lines' = Shown(asmText[c]) /\ listed' = c /\ breakpoints' = breakpoints
          /\ marks' = Reached(breakpoints[c], lines')
      BY <2>5, <3>1 DEF Switch, AllReached, SetText, MarkedAnew
    <3> DEFINE l == breakpoints[c]
    <3>3. l \in Seq(Int) /\ \A i \in DOMAIN l : l[i] \in 1 .. lines'
      BY <2>0, <3>1, <3>2 DEF Range
    <3> HIDE DEF l
    <3>4. \A i \in DOMAIN l : \A j \in 1 .. i : l[j] \in 1 .. lines'
      BY <3>3
    <3>5. Reached(l, lines') = Range(l)
      BY <3>4 DEF Reached, Range
    <3> QED BY <3>2, <3>5 DEF l, Current
  <2>6. ASSUME NEW t \in Disassembled, Load(t)
        PROVE  marks' = Range(Current')
    <3>1. ~entered /\ listed = inEditor
      BY <2>6 DEF Load, Steady
    <3>2. Cleared[listed] = <<>> /\ Range(<<>>) = {}
      BY <2>0, <3>1 DEF Cleared, Range
    <3>3. marks' = {} /\ listed' = inEditor /\ breakpoints' = Cleared
      BY <2>6, <3>2 DEF Load, AllReached
    <3> QED BY <3>1, <3>2, <3>3 DEF Current
  <2>7. CASE UNCHANGED steady /\ UNCHANGED marks
    BY <2>7 DEF steady, Current
  <2> QED BY <2>2, <2>3, <2>4, <2>5, <2>6, <2>7, Steps DEF NoEditStep
<1> QED BY <1>1, SteadyAlways, PTL DEF Spec, MarksFollow

-----------------------------------------------------------------------------
(***************************************************************************)
(* Breakpoints follow their lines.                                         *)
(***************************************************************************)

(* A breakpoint on a line that an edit leaves whole is not dropped, unless *)
(* it is on a blank line, erased at the caret; and it is moved to where    *)
(* its line is.                                                            *)
LEMMA UntouchedStay ==
  ASSUME TypeOK, Steady, ~entered, ~Escapes(value),
         NEW k \in SavedType, NEW new \in Text, TypedEdit(k, new),
         Own(edit'), Remembered(edit'),
         NEW n \in Range(Current), Untouched(edit', n), ~BlankErased(edit', n), NEW more \in Int
  PROVE  /\ ~Dropped(n, k, more)
         /\ Moved(n, k, more) = Place(edit', n, more)
<1> DEFINE s == Begin(value, n)
           e == End(value, n)
           from == From(k)
           to == To(k)
<1>1. /\ from \in Nat /\ to \in Nat /\ from <= to /\ to <= Len(value)
      /\ k.start <= k.end /\ k.start \in Int /\ k.end \in Int
      /\ edit'.from = from /\ edit'.to = to /\ edit'.by = k
  BY DEF TypedEdit, SavedType
<1>2. value \in Text /\ n \in 1 .. Lines(value)
      /\ LineStart(n) = s /\ LineEnd(n) = e /\ Starts(n) = s /\ Stops(n) = e
  BY PlainLines DEF TypeOK
<1>3. /\ s \in Nat /\ e \in 0 .. Len(value) /\ Len(value) \in Nat /\ s <= e
      /\ Breaks(value, s, e) = {} /\ n \in Int
  BY <1>2, LinePlaces, EndPlacesType
<1>4. (s < from /\ e <= from) \/ s >= to
  BY <1>1, <1>2 DEF Untouched
<1>5. Erases(k.key) => prevInText = value
  BY <1>1 DEF Remembered
<1>6. ~(Erases(k.key) /\ Blank(n) /\ s = k.start /\ k.start = k.end)
  BY <1>1, <1>2 DEF BlankErased
<1>7. Place(edit', n, more) = IF s >= to THEN n + more ELSE n
  BY <1>1, <1>2 DEF Place
<1>8. Moved(n, k, more) = IF k.start <= s /\ k.end <= s THEN n + more ELSE n
  BY <1>2 DEF Moved
<1>9. SelectedAway(n, k) <=> /\ k.start # k.end
                             /\ \/ k.start < s /\ k.end > s
                                \/ k.start = s /\ k.end > e
  BY <1>2 DEF SelectedAway
<1>10. ASSUME Erases(k.key), s = k.start, k.start = k.end
       PROVE  WithText(n)
  <2>1. PICK i \in s + 1 .. e : value[i] # Space
    BY <1>2, <1>6, <1>10 DEF Blank
  <2>2. i - 1 \in s .. e - 1 /\ (i - 1) + 1 = i
    BY <1>3
  <2>3. value[i] # NL
    BY <1>3, <2>2 DEF Breaks
  <2>4. prevInText = value /\ value # NoText
    BY <1>2, <1>5, <1>10, EditorAssumption
  <2>5. i - 1 \in OnLine(n) /\ prevInText[(i - 1) + 1] \notin {Space, NL}
    BY <1>2, <2>1, <2>2, <2>3, <2>4 DEF OnLine
  <2> QED BY <2>4, <2>5 DEF WithText
<1>11. ErasedAt(n, k, more) => WithText(n)
  BY <1>2, <1>10 DEF ErasedAt, Erases
<1> HIDE DEF s, e
<1>12. CASE k.start # k.end
  <2>1. from = k.start /\ to = k.end
    BY <1>12 DEF From, To
  <2> HIDE DEF from, to
  <2>2. ~SelectedAway(n, k)
    BY <1>1, <1>3, <1>4, <1>9, <1>12, <2>1
  <2>3. Moved(n, k, more) = Place(edit', n, more)
    BY <1>1, <1>3, <1>4, <1>7, <1>8, <1>12, <2>1
  <2> QED BY <1>11, <2>2, <2>3 DEF Dropped
<1>13. CASE k.start = k.end
  <2>1. ~SelectedAway(n, k)
    BY <1>9, <1>13
  <2>2. s >= to <=> k.start <= s
    <3>1. CASE k.key = "Delete"
      <4>1. from = k.start /\ to = k.start + 1
        BY <1>1, <1>13, <3>1 DEF From, To
      <4> HIDE DEF from, to
      <4> QED BY <1>1, <1>3, <1>4, <4>1
    <3>2. CASE k.key # "Delete"
      <4>1. to = k.start
        BY <1>13, <3>2 DEF To
      <4> HIDE DEF from, to
      <4> QED BY <1>1, <1>3, <4>1
    <3> QED BY <3>1, <3>2
  <2>3. Moved(n, k, more) = Place(edit', n, more)
    BY <1>7, <1>8, <1>13, <2>2
  <2> QED BY <1>11, <2>1, <2>3 DEF Dropped
<1> QED BY <1>12, <1>13

(* One that is not dropped was on a line that did not begin within what is *)
(* replaced, and is moved to where that line is.                           *)
LEMMA MovedWithLine ==
  ASSUME TypeOK, Steady, ~entered, ~Escapes(value),
         NEW k \in SavedType, NEW new \in Text, TypedEdit(k, new),
         Replaced(value, From(k), To(k), new) # <<>>, Own(edit'),
         NEW n \in Range(Current),
         ~Dropped(n, k, Growth(Replaced(value, From(k), To(k), new)))
  PROVE  LET more == Growth(Replaced(value, From(k), To(k), new))
         IN /\ Starts(n) <= From(k) \/ Starts(n) >= To(k)
            /\ Moved(n, k, more) = Place(edit', n, more)
<1> DEFINE s == Begin(value, n)
           e == End(value, n)
           from == From(k)
           to == To(k)
           g == Growth(Replaced(value, From(k), To(k), new))
           lost == Cardinality(Breaks(value, from, to))
           got == Cardinality(AllBreaks(new))
<1>1. /\ from \in Nat /\ to \in Nat /\ from <= to /\ to <= Len(value)
      /\ k.start <= k.end /\ k.start \in Int /\ k.end \in Int
      /\ edit'.from = from /\ edit'.to = to /\ edit'.by = k /\ new \in Typed(k.key)
  BY DEF TypedEdit, SavedType
<1>2. value # <<>> /\ value \in Text /\ n \in 1 .. Lines(value)
      /\ LineStart(n) = s /\ LineEnd(n) = e /\ Starts(n) = s /\ Stops(n) = e
  BY PlainLines DEF TypeOK
<1>3. s \in Nat /\ e \in 0 .. Len(value) /\ Len(value) \in Nat /\ s <= e /\ n \in Int
  BY <1>2, LinePlaces, EndPlacesType
<1>4. g = got - lost /\ g \in Int
  BY <1>1, <1>2, GrowthOf
<1>5. Place(edit', n, g) = IF s >= to THEN n + g ELSE n
  BY <1>1, <1>2 DEF Place
<1>6. Moved(n, k, g) = IF k.start <= s /\ k.end <= s THEN n + g ELSE n
  BY <1>2 DEF Moved
<1>7. ~SelectedAway(n, k) /\ ~(ErasedAt(n, k, g) /\ ~WithText(n))
  BY DEF Dropped
<1>8. SelectedAway(n, k) <=> /\ k.start # k.end
                             /\ \/ k.start < s /\ k.end > s
                                \/ k.start = s /\ k.end > e
  BY <1>2 DEF SelectedAway
<1> SUFFICES (s <= from \/ s >= to) /\ Moved(n, k, g) = Place(edit', n, g)
  BY <1>2
<1> HIDE DEF s, e, g
<1>9. CASE k.start # k.end
  <2>1. from = k.start /\ to = k.end
    BY <1>9 DEF From, To
  <2> HIDE DEF from, to
  <2> QED BY <1>1, <1>3, <1>5, <1>6, <1>7, <1>8, <1>9, <2>1
<1>10. CASE k.start = k.end /\ (k.key # "Delete" \/ k.start # s)
  <2>1. /\ from <= k.start /\ from >= k.start - 1 /\ to >= k.start
        /\ k.key # "Delete" => to = k.start
        /\ k.key = "Delete" => to = k.start + 1
    BY <1>1, <1>10 DEF From, To
  <2> HIDE DEF from, to
  <2> QED BY <1>1, <1>3, <1>5, <1>6, <1>10, <2>1
<1>11. CASE k.start = k.end /\ k.key = "Delete" /\ k.start = s
  <2>1. from = s /\ to = s + 1 /\ new = <<>>
    BY <1>1, <1>11 DEF From, To, Typed, Erases
  <2>2. got = 0
    <3>1. AllBreaks(<<>>) = {}
      BY DEF AllBreaks, Breaks
    <3> QED BY <2>1, <3>1, FS_EmptySet
  <2>3. g = 0
    <3>1. CASE s = e
      <4>1. ~WithText(n)
        BY <1>2, <1>3, <3>1 DEF WithText, OnLine
      <4> QED BY <1>2, <1>7, <1>11, <4>1 DEF ErasedAt
    <3>2. CASE s < e
      <4>1. lost = 0
        <5> HIDE DEF from, to
        <5> QED BY <1>1, <1>2, <2>1, <3>2, BreaksBounds DEF s, e
      <4> QED BY <1>4, <2>2, <4>1
    <3> QED BY <1>3, <3>1, <3>2
  <2> HIDE DEF from, to
  <2> QED BY <1>3, <1>5, <1>6, <2>1, <2>3
<1> QED BY <1>9, <1>10, <1>11

(* What the property says of an edit.                                      *)
Follows(e, more) ==
  /\ \A n \in Range(Current) : Untouched(e, n) /\ ~BlankErased(e, n)
       => Place(e, n, more) \in Range(Current')
  /\ \A m \in Range(Current') : \E n \in Range(Current) :
       /\ Starts(n) <= e.from \/ Starts(n) >= e.to
       /\ m = Place(e, n, more)

(* It holds of what is typed: those kept are where their lines are.        *)
LEMMA TypedFollows ==
  ASSUME TypeOK, Steady, ~entered, ~entered', ~Escapes(value),
         NEW k \in SavedType, NEW new \in Text, TypedEdit(k, new),
         Own(edit'), Remembered(edit')
  PROVE  Follows(edit', Lines(value') - Lines(value))
<1> DEFINE t == Replaced(value, From(k), To(k), new)
           g == Growth(t)
           more == Lines(value') - Lines(value)
<1>0. /\ From(k) \in Nat /\ To(k) \in Nat /\ From(k) <= To(k) /\ To(k) <= Len(value)
      /\ value \in Text /\ Changed(t, k) /\ edit'.from = From(k) /\ edit'.to = To(k)
  BY DEF TypedEdit, TypeOK
<1>1. t \in Text
  BY <1>0, ReplacedPlaces
<1>2. Heard(t, k)
  BY <1>0 DEF Changed, Unheard
<1>3. /\ Range(Current') = Survivors(k, g) /\ Range(Current') \subseteq 1 .. Shown(t)
      /\ value' = t
  BY <1>1, <1>2, HeardParts DEF SetText
<1>4. g \in Int
  BY <1>1, SetTextType DEF Growth
<1>5. \A n \in Range(Current) : Untouched(edit', n) /\ ~BlankErased(edit', n)
        => ~Dropped(n, k, g) /\ Moved(n, k, g) = Place(edit', n, g)
  <2> HIDE DEF g
  <2> QED BY <1>4, UntouchedStay
<1>6. \A n \in Range(Current) : ~Dropped(n, k, g) => Moved(n, k, g) \in Range(Current')
  BY <1>3 DEF Survivors, Stay
<1>7. CASE t = <<>>
  <2>1. Range(Current') = {}
    BY <1>3, <1>7 DEF Shown
  <2> QED BY <1>5, <1>6, <2>1 DEF Follows
<1>8. CASE t # <<>>
  <2>1. \A n \in Range(Current) : g = more
    <3> TAKE n \in Range(Current)
    <3>1. value # <<>>
      BY PlainLines
    <3> QED BY <1>0, <1>3, <1>8, <3>1, GrowthOf
  <2>2. \A n \in Range(Current) : ~Dropped(n, k, g)
          => (Starts(n) <= From(k) \/ Starts(n) >= To(k)) /\ Moved(n, k, g) = Place(edit', n, g)
    BY <1>8, MovedWithLine
  <2>3. \A m \in Range(Current') : \E n \in Range(Current) : ~Dropped(n, k, g) /\ m = Moved(n, k, g)
    BY <1>3 DEF Survivors, Stay
  <2> HIDE DEF t, g, more
  <2>4. \A n \in Range(Current) : Untouched(edit', n) /\ ~BlankErased(edit', n)
          => Place(edit', n, more) \in Range(Current')
    BY <1>5, <1>6, <2>1
  <2>5. \A m \in Range(Current') : \E n \in Range(Current) :
          /\ Starts(n) <= From(k) \/ Starts(n) >= To(k)
          /\ m = Place(edit', n, more)
    BY <2>1, <2>2, <2>3
  <2> QED BY <1>0, <2>4, <2>5 DEF Follows, more
<1> QED BY <1>7, <1>8

(* Spaces leave every breakpoint where it is.                              *)
LEMMA SpacesFollow ==
  ASSUME TypeOK, Steady, ~entered, ~entered', ~Escapes(value),
         NEW s \in Nat, NEW new \in Text, SpacesEdit(s, new), Own(edit')
  PROVE  Follows(edit', Lines(value') - Lines(value))
<1> DEFINE t == Replaced(value, s, s, new)
           g == Growth(t)
           more == Lines(value') - Lines(value)
<1>0. /\ s <= Len(value) /\ value \in Text /\ saved \in SavedType
      /\ Changed(t, saved) /\ edit' = [from |-> s, to |-> s, by |-> saved]
      /\ \A i \in 1 .. Len(new) : new[i] # NL
  BY DEF SpacesEdit, TypeOK, SavedType
<1>1. t \in Text /\ Len(t) = Len(value) + (s + Len(new) - s)
  <2>1. s <= s
    OBVIOUS
  <2>2. t \in Text
    BY <1>0, <2>1, ReplacedPlaces
  <2>3. Len(t) = Len(value) + (s + Len(new) - s)
    BY <1>0, <2>1, ReplacedPlaces
  <2> QED BY <2>2, <2>3
<1>2. Heard(t, saved)
  <2> HIDE DEF t
  <2> QED BY <1>0 DEF Changed, Unheard
<1>3. Range(Current') = Survivors(saved, g) /\ value' = t
  BY <1>0, <1>1, <1>2, HeardParts DEF SetText
<1>4. edit'.from = s /\ edit'.to = s /\ edit'.by = saved /\ saved.start = saved.end
  BY <1>0 DEF Own
<1>5. \A n \in Range(Current) : g = 0 /\ more = 0 /\ n \in Int /\ Starts(n) \in Int
  <2> TAKE n \in Range(Current)
  <2>1. value # <<>> /\ n \in 1 .. Lines(value) /\ Starts(n) = Begin(value, n)
    BY PlainLines
  <2>2. t # <<>>
    <3>1. Len(value) \in Nat /\ Len(new) \in Nat /\ Len(value) # 0
      BY <1>0, <2>1 DEF Text
    <3>2. Len(t) # 0
      BY <1>1, <3>1
    <3> QED BY <3>2
  <2>3. g = 0
    BY <1>0, <2>1, <2>2, SpacesGrow
  <2>4. g = Lines(t) - Lines(value)
    BY <1>0, <2>1, <2>2, GrowthOf
  <2>5. Starts(n) \in Int
    BY <1>0, <2>1, LinePlaces
  <2> QED BY <1>3, <2>1, <2>3, <2>4, <2>5
<1> HIDE DEF g, more, t
<1>6. \A n \in Range(Current) : ~Dropped(n, saved, g) /\ Moved(n, saved, g) = n
                                /\ Place(edit', n, more) = n
  <2> TAKE n \in Range(Current)
  <2>1. ~SelectedAway(n, saved)
    BY <1>4 DEF SelectedAway
  <2>2. ~ErasedAt(n, saved, g)
    BY <1>5 DEF ErasedAt
  <2>3. Moved(n, saved, g) = n
    BY <1>5 DEF Moved
  <2>4. Place(edit', n, more) = n
    BY <1>5 DEF Place
  <2> QED BY <2>1, <2>2, <2>3, <2>4 DEF Dropped
<1>7. Range(Current') = Range(Current)
  BY <1>3, <1>6 DEF Survivors, Stay
<1>8. \A n \in Range(Current) : Starts(n) <= edit'.from \/ Starts(n) >= edit'.to
  BY <1>4, <1>5
<1> QED BY <1>6, <1>7, <1>8 DEF Follows, more

(* Breakpoints stay with their lines: of a line the edit leaves whole the  *)
(* breakpoint is kept, where the line is now; and a breakpoint is on the   *)
(* line where it was, which did not begin within what is replaced.  Only a *)
(* blank line may lose its breakpoint when it is erased at the caret.      *)
THEOREM BreakpointsStayWithLines == Spec => BreakpointsFollowLines
<1> DEFINE Moves ==
      LET e == edit'
          more == Lines(value') - Lines(value)
      IN edits' # edits /\ ~entered /\ ~entered' /\ e.by # <<>>
           /\ ~Escapes(value) /\ Own(e) /\ Remembered(e)
         => /\ \A n \in Range(Current) : Untouched(e, n) /\ ~BlankErased(e, n)
                 => Place(e, n, more) \in Range(Current')
            /\ \A m \in Range(Current') : \E n \in Range(Current) :
                 /\ Starts(n) <= e.from \/ Starts(n) >= e.to
                 /\ m = Place(e, n, more)
<1>1. TypeOK /\ Steady /\ [Next]_vars => [Moves]_vars
  <2> SUFFICES ASSUME TypeOK, Steady, [Next]_vars, edits' # edits, ~entered, ~entered',
                      ~Escapes(value), Own(edit'), Remembered(edit')
               PROVE  Follows(edit', Lines(value') - Lines(value))
    BY DEF Follows
  <2>1. ~NoEditStep
    BY DEF NoEditStep
  <2>2. ASSUME NEW k \in SavedType, NEW new \in Text, TypedEdit(k, new)
        PROVE  Follows(edit', Lines(value') - Lines(value))
    BY <2>2, TypedFollows
  <2>3. ASSUME NEW s \in Nat, NEW new \in Text, SpacesEdit(s, new)
        PROVE  Follows(edit', Lines(value') - Lines(value))
    BY <2>3, SpacesFollow
  <2> QED BY <2>1, <2>2, <2>3, Steps
<1> QED BY <1>1, SteadyAlways, PTL DEF Spec, BreakpointsFollowLines
=============================================================================
