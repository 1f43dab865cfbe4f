------------------------------ MODULE FoldProofs ------------------------------
(***************************************************************************)
(* Lemmas about folds over sequences: what a sum adds up, what the lexical *)
(* rules of PathRules make of a path, and what FlattenSeq makes of pieces  *)
(* with separators between them.  A fold is evaluated by a recursive      *)
(* function on the sets of indices; that it exists, and what it is on the  *)
(* initial segments, is shown by induction over a set of numbers.          *)
(***************************************************************************)
EXTENDS PathRules, SequenceTheorems, NaturalsInduction, WellFoundedInduction, TLAPS

LEMMA NatSetInduction ==
  ASSUME NEW T, 0 \in T, \A n \in Nat : n \in T => n + 1 \in T
  PROVE  Nat \subseteq T
  <1> SUFFICES ASSUME Nat \ T # {} PROVE FALSE
    OBVIOUS
  <1>1. PICK m \in Nat \ T : \A y \in Nat \ T : ~(<<y, m>> \in OpToRel(<, Nat))
    BY NatLessThanWellFounded, WFMin, Zenon
  <1>2. m - 1 \in Nat /\ m - 1 \in T
    <2>1. m # 0 /\ m - 1 \in Nat /\ m - 1 < m
      OBVIOUS
    <2> QED
      BY <1>1, <2>1 DEF OpToRel
  <1> QED
    BY <1>2

\* A set of indices that is not empty has a greatest one.
LEMMA MaxIsIn ==
  ASSUME NEW n \in Nat, NEW S \in SUBSET (1..n), S # {}
  PROVE  Max(S) \in S /\ \A y \in S : y <= Max(S)
  <1> DEFINE T == {m \in Nat : \A y \in S : y <= m}
  <1>1. PICK m \in T : \A y \in T : ~(<<y, m>> \in OpToRel(<, Nat))
    <2>1. n \in T
      OBVIOUS
    <2> QED
      BY <2>1, NatLessThanWellFounded, WFMin, Zenon
  <1>2. m \in S
    <2> SUFFICES ASSUME m \notin S PROVE FALSE
      OBVIOUS
    <2>1. \A y \in S : y \in Nat /\ 1 <= y /\ y <= m /\ y # m
      OBVIOUS
    <2>2. m \in Nat /\ m - 1 \in Nat
      <3>1. PICK y \in S : TRUE
        OBVIOUS
      <3> QED
        BY <2>1, <3>1
    <2>3. m - 1 \in T
      BY <2>1, <2>2
    <2>4. m - 1 < m
      BY <2>2
    <2> QED
      BY <1>1, <2>2, <2>3, <2>4 DEF OpToRel
  <1>3. \E x \in S : \A y \in S : x >= y
    BY <1>2
  <1> QED
    BY <1>3 DEF Max

LEMMA MaxOfSegment ==
  ASSUME NEW k \in Nat, k > 0
  PROVE  Max(1..k) = k /\ (1..k) \ {k} = 1..(k - 1)
  <1>1. k \in 1..k
    OBVIOUS
  <1>2. Max(1..k) \in 1..k /\ k <= Max(1..k)
    BY <1>1, MaxIsIn
  <1> QED
    BY <1>2

\* F folds sequences of n elements of Y into X, from e.
Folder(n, X, Y, F, e, s) ==
    n \in Nat /\ F \in [X \X Y -> X] /\ e \in X /\ s \in [1..n -> Y]

\* The equation of a fold of s with F from e, on the sets of indices.
FoldStep(n, F, e, s, g) ==
    [S \in SUBSET (1..n) |-> IF S = {} THEN e ELSE F[<<g[S \ {Max(S)}], s[Max(S)]>>]]

\* What is needed of a solution, wherever its values are in X.
IsFold(n, X, F, e, s, g) ==
    /\ g[{}] = e
    /\ \A S \in SUBSET (1..n) : S # {} /\ g[S \ {Max(S)}] \in X =>
            g[S] = F[<<g[S \ {Max(S)}], s[Max(S)]>>]

Foldable(n, X, F, e, s) ==
    \E g \in [SUBSET (1..n) -> X] : g = FoldStep(n, F, e, s, g)

LEMMA FoldExists ==
  ASSUME NEW n, NEW X, NEW Y, NEW F, NEW e, NEW s, Folder(n, X, Y, F, e, s)
  PROVE  Foldable(n, X, F, e, s)
  <1>. n \in Nat /\ F \in [X \X Y -> X] /\ e \in X /\ s \in [1..n -> Y]
    BY DEF Folder
  <1> DEFINE T == {k \in Nat : k <= n => Foldable(k, X, F, e, s)}
  <1>1. 0 \in T
    <2> DEFINE g == [S \in SUBSET (1..0) |-> e]
    <2>1. SUBSET (1..0) = {{}}
      OBVIOUS
    <2>2. g \in [SUBSET (1..0) -> X] /\ g = FoldStep(0, F, e, s, g)
      BY <2>1 DEF FoldStep
    <2> QED
      BY <2>2 DEF Foldable
  <1>2. ASSUME NEW k \in Nat, k \in T PROVE k + 1 \in T
    <2> SUFFICES ASSUME k + 1 <= n PROVE Foldable(k + 1, X, F, e, s)
      OBVIOUS
    <2>. Foldable(k, X, F, e, s)
      BY <1>2
    <2>1. PICK g \in [SUBSET (1..k) -> X] : g = FoldStep(k, F, e, s, g)
      BY DEF Foldable
    <2> DEFINE h == [S \in SUBSET (1..k + 1) |->
                       IF k + 1 \in S THEN F[<<g[S \ {k + 1}], s[k + 1]>>] ELSE g[S]]
    <2>2. ASSUME NEW S \in SUBSET (1..k + 1)
          PROVE  h[S] \in X /\ h[S] = FoldStep(k + 1, F, e, s, h)[S]
      <3>1. CASE k + 1 \in S
        <4>1. Max(S) = k + 1
          <5>1. k + 1 \in Nat /\ S # {}
            BY <3>1
          <5>2. Max(S) \in S /\ \A y \in S : y <= Max(S)
            BY <5>1, MaxIsIn
          <5>3. Max(S) \in 1..k + 1 /\ k + 1 <= Max(S)
            BY <3>1, <5>2
          <5> QED
            BY <5>3
        <4>2. S \ {k + 1} \in SUBSET (1..k) /\ S \ {k + 1} \in SUBSET (1..k + 1)
          OBVIOUS
        <4>3. h[S \ {k + 1}] = g[S \ {k + 1}] /\ g[S \ {k + 1}] \in X
          BY <4>2
        <4>4. s[k + 1] \in Y
          OBVIOUS
        <4>5. h[S] = F[<<g[S \ {k + 1}], s[k + 1]>>]
          BY <3>1
        <4>6. FoldStep(k + 1, F, e, s, h)[S] = F[<<h[S \ {k + 1}], s[k + 1]>>]
          BY <3>1, <4>1 DEF FoldStep
        <4>7. h[S] = FoldStep(k + 1, F, e, s, h)[S]
          BY <4>3, <4>5, <4>6
        <4>8. F[<<g[S \ {k + 1}], s[k + 1]>>] \in X
          BY <4>3, <4>4
        <4> HIDE DEF h
        <4> QED
          BY <4>5, <4>7, <4>8
      <3>2. CASE k + 1 \notin S
        <4>1. S \in SUBSET (1..k)
          BY <3>2
        <4>2. h[S] = g[S] /\ g[S] \in X /\ g[S] = FoldStep(k, F, e, s, g)[S]
          BY <2>1, <3>2, <4>1
        <4>3. CASE S = {}
          BY <4>2, <4>3, <4>1 DEF FoldStep
        <4>4. CASE S # {}
          <5>1. S \ {Max(S)} \in SUBSET (1..k) /\ k + 1 \notin S \ {Max(S)}
                /\ S \ {Max(S)} \in SUBSET (1..k + 1)
            BY <3>2, <4>1
          <5>2. h[S \ {Max(S)}] = g[S \ {Max(S)}]
            BY <5>1
          <5> QED
            BY <4>1, <4>2, <4>4, <5>2 DEF FoldStep
        <4> QED
          BY <4>3, <4>4
      <3> QED
        BY <3>1, <3>2
    <2>3. h \in [SUBSET (1..k + 1) -> X]
      BY <2>2
    <2>4. h = FoldStep(k + 1, F, e, s, h)
      BY <2>2 DEF FoldStep
    <2> QED
      BY <2>3, <2>4 DEF Foldable
  <1>3. n \in T
    BY <1>1, <1>2, NatSetInduction
  <1> QED
    BY <1>3

\* r holds the values of the fold on the initial segments of s.
FoldRun(n, X, F, e, s, r) ==
    /\ r \in [0..n -> X] /\ r[0] = e
    /\ \A k \in 1..n : r[k] = F[<<r[k - 1], s[k]>>]

\* What the fold returns.
Folded(n, g) == g[1..n]

LEMMA FoldIsRun ==
  ASSUME NEW n, NEW X, NEW Y, NEW F, NEW e, NEW s, Folder(n, X, Y, F, e, s),
         NEW g, IsFold(n, X, F, e, s, g)
  PROVE  \E r : FoldRun(n, X, F, e, s, r) /\ Folded(n, g) = r[n]
  <1>. n \in Nat /\ F \in [X \X Y -> X] /\ e \in X /\ s \in [1..n -> Y]
    BY DEF Folder
  <1> DEFINE r == [k \in 0..n |-> g[1..k]]
             T == {k \in Nat : k <= n => r[k] \in X}
  <1>1. r[0] = e
    <2>1. 1..0 = {} /\ 0 \in 0..n
      OBVIOUS
    <2>2. g[{}] = e
      BY DEF IsFold
    <2> QED
      BY <2>1, <2>2
  <1>2. ASSUME NEW k \in 1..n, r[k - 1] \in X PROVE r[k] = F[<<r[k - 1], s[k]>>]
    <2>1. /\ (1..k) \in SUBSET (1..n) /\ k \in Nat /\ k > 0
          /\ k - 1 \in 0..n /\ k \in 0..n /\ k \in 1..k
      OBVIOUS
    <2>2. Max(1..k) = k /\ (1..k) \ {k} = 1..(k - 1)
      BY <2>1, MaxOfSegment
    <2>3. r[k - 1] = g[(1..k) \ {Max(1..k)}] /\ r[k] = g[1..k]
      BY <2>1, <2>2
    <2>4. g[1..k] = F[<<g[(1..k) \ {Max(1..k)}], s[Max(1..k)]>>]
      BY <1>2, <2>1, <2>3 DEF IsFold
    <2> QED
      BY <2>2, <2>3, <2>4
  <1>3. r[n] = g[1..n] /\ n \in 0..n
    OBVIOUS
  <1> HIDE DEF r
  <1>4. 0 \in T
    BY <1>1
  <1>5. ASSUME NEW k \in Nat, k \in T PROVE k + 1 \in T
    <2> SUFFICES ASSUME k + 1 <= n PROVE r[k + 1] \in X
      OBVIOUS
    <2>1. k + 1 \in 1..n /\ (k + 1) - 1 = k /\ r[k] \in X /\ s[k + 1] \in Y
      BY <1>5
    <2>2. r[k + 1] = F[<<r[(k + 1) - 1], s[k + 1]>>]
      BY <1>2, <2>1
    <2> QED
      BY <2>1, <2>2
  <1>6. \A k \in 0..n : r[k] \in X
    <2>1. Nat \subseteq T
      <3> HIDE DEF T
      <3> QED
        BY <1>4, <1>5, NatSetInduction
    <2> QED
      BY <2>1
  <1>7. r \in [0..n -> X]
    BY <1>6 DEF r
  <1> QED
    BY <1>1, <1>2, <1>3, <1>6, <1>7 DEF FoldRun, Folded

LEMMA RunExists ==
  ASSUME NEW n, NEW X, NEW Y, NEW F, NEW e, NEW s, Folder(n, X, Y, F, e, s)
  PROVE  \E r : FoldRun(n, X, F, e, s, r)
  <1>1. Foldable(n, X, F, e, s)
    BY FoldExists
  <1>2. PICK g \in [SUBSET (1..n) -> X] : g = FoldStep(n, F, e, s, g)
    BY <1>1 DEF Foldable
  <1>3. IsFold(n, X, F, e, s, g)
    BY <1>2 DEF FoldStep, IsFold
  <1>4. \E r : FoldRun(n, X, F, e, s, r) /\ Folded(n, g) = r[n]
    BY <1>3, FoldIsRun
  <1> QED
    BY <1>4

\* A run of a longer sequence goes through the result of a shorter one.
SameUpTo(n, s, t) == \A i \in 1..n : s[i] = t[i]

LEMMA RunPrefix ==
  ASSUME NEW n \in Nat, NEW m \in Nat, n <= m, NEW X, NEW F, NEW e,
         NEW s, NEW t, NEW r, NEW q, SameUpTo(n, s, t),
         FoldRun(n, X, F, e, s, r), FoldRun(m, X, F, e, t, q)
  PROVE  r[n] = q[n]
  <1> DEFINE T == {k \in Nat : k <= n => r[k] = q[k]}
  <1>1. 0 \in T
    BY DEF FoldRun
  <1>2. ASSUME NEW k \in Nat, k \in T PROVE k + 1 \in T
    <2> SUFFICES ASSUME k + 1 <= n PROVE r[k + 1] = q[k + 1]
      OBVIOUS
    <2>1. k + 1 \in 1..n /\ k + 1 \in 1..m /\ (k + 1) - 1 = k /\ r[k] = q[k]
      BY <1>2
    <2>2. /\ r[k + 1] = F[<<r[(k + 1) - 1], s[k + 1]>>]
          /\ q[k + 1] = F[<<q[(k + 1) - 1], t[k + 1]>>]
      BY <2>1 DEF FoldRun
    <2> QED
      BY <2>1, <2>2 DEF SameUpTo
  <1>3. Nat \subseteq T
    <2> HIDE DEF T
    <2> QED
      BY <1>1, <1>2, NatSetInduction
  <1> QED
    BY <1>3

-----------------------------------------------------------------------------
(* Sums                                                                    *)

Add == [p \in Nat \X Nat |-> p[1] + p[2]]

LEMMA SumExists ==
  ASSUME NEW n \in Nat, NEW s \in [1..n -> Nat]
  PROVE  \E g \in [SUBSET (1..n) -> Nat] :
            \A S \in SUBSET (1..n) : g[S] = IF S = {} THEN 0 ELSE g[S \ {Max(S)}] + s[Max(S)]
  <1>1. Add \in [Nat \X Nat -> Nat] /\ \A x, y \in Nat : Add[<<x, y>>] = x + y
    BY DEF Add
  <1>2. Folder(n, Nat, Nat, Add, 0, s)
    BY <1>1 DEF Folder
  <1>3. Foldable(n, Nat, Add, 0, s)
    BY <1>2, FoldExists
  <1>4. PICK g \in [SUBSET (1..n) -> Nat] : g = FoldStep(n, Add, 0, s, g)
    BY <1>3 DEF Foldable
  <1>5. ASSUME NEW S \in SUBSET (1..n)
        PROVE  g[S] = IF S = {} THEN 0 ELSE g[S \ {Max(S)}] + s[Max(S)]
    <2>1. CASE S = {}
      BY <1>4, <2>1 DEF FoldStep
    <2>2. CASE S # {}
      <3>1. g[S \ {Max(S)}] \in Nat /\ s[Max(S)] \in Nat
        BY <2>2, MaxIsIn
      <3>2. g[S] = Add[<<g[S \ {Max(S)}], s[Max(S)]>>]
        BY <1>4, <2>2 DEF FoldStep
      <3> QED
        BY <1>1, <2>2, <3>1, <3>2
    <2> QED
      BY <2>1, <2>2
  <1> QED
    BY <1>5

\* What a run of a sum adds up.
LEMMA SumRun ==
  ASSUME NEW n \in Nat, NEW s \in [1..n -> Nat], NEW r, FoldRun(n, Nat, Add, 0, s, r)
  PROVE  /\ r \in [0..n -> Nat] /\ r[0] = 0
         /\ \A k \in 1..n : r[k] = r[k - 1] + s[k]
  <1>1. \A x, y \in Nat : Add[<<x, y>>] = x + y
    BY DEF Add
  <1>2. ASSUME NEW k \in 1..n PROVE r[k] = r[k - 1] + s[k]
    <2>1. k - 1 \in 0..n /\ r[k - 1] \in Nat /\ s[k] \in Nat
      BY DEF FoldRun
    <2>2. r[k] = Add[<<r[k - 1], s[k]>>]
      BY DEF FoldRun
    <2> QED
      BY <1>1, <2>1, <2>2
  <1> QED
    BY <1>2 DEF FoldRun

\* Sums agree as far as their sequences do.
LEMMA SumsAgree ==
  ASSUME NEW n \in Nat, NEW m \in Nat, n <= m, NEW s, NEW t, NEW r, NEW q,
         FoldRun(n, Nat, Add, 0, s, r), FoldRun(m, Nat, Add, 0, t, q),
         \A i \in 1..n : s[i] = t[i]
  PROVE  r[n] = q[n]
  <1> DEFINE X == Nat
             F == Add
             e == 0
  <1>1. FoldRun(n, X, F, e, s, r) /\ FoldRun(m, X, F, e, t, q) /\ SameUpTo(n, s, t)
    BY DEF SameUpTo
  <1> HIDE DEF X, F, e
  <1> QED
    BY <1>1, RunPrefix

-----------------------------------------------------------------------------
(* Clean                                                                   *)

TidyPart(abs, done, part) ==
    IF part = "." THEN done
    ELSE IF part = ".." /\ done = <<>> /\ abs THEN done
    ELSE IF part = ".." /\ done # <<>> /\ Last(done) # ".." THEN Front(done)
    ELSE Append(done, part)

Tidy(abs) == [p \in Seq(Part) \X Part |-> TidyPart(abs, p[1], p[2])]

LEMMA FrontProperties ==
  ASSUME NEW S, NEW s \in Seq(S), s # <<>>
  PROVE  /\ Front(s) \in Seq(S) /\ Len(Front(s)) = Len(s) - 1 /\ Last(s) \in S
         /\ Len(s) \in Nat /\ Len(s) > 0
         /\ \A i \in 1..(Len(s) - 1) : Front(s)[i] = s[i]
  <1>1. Len(s) \in Nat /\ Len(s) > 0 /\ DOMAIN s = 1..Len(s)
    BY LenProperties, EmptySeq
  <1>2. Front(s) = SubSeq(s, 1, Len(s) - 1)
    BY DEF Front
  <1>3. Last(s) \in S
    BY <1>1, ElementOfSeq DEF Last
  <1> QED
    BY <1>1, <1>2, <1>3, SubSeqProperties

LEMMA TidyType ==
  ASSUME NEW abs \in BOOLEAN
  PROVE  /\ Tidy(abs) \in [Seq(Part) \X Part -> Seq(Part)]
         /\ \A done \in Seq(Part), part \in Part :
              Tidy(abs)[<<done, part>>] = TidyPart(abs, done, part)
  <1>1. ASSUME NEW done \in Seq(Part), NEW part \in Part
        PROVE  TidyPart(abs, done, part) \in Seq(Part)
    BY FrontProperties, AppendProperties DEF TidyPart
  <1> QED
    BY <1>1 DEF Tidy

CleanRun(path, r) ==
    FoldRun(Len(path.parts), Seq(Part), Tidy(path.abs), <<>>, path.parts, r)

LEMMA CleanIsRun ==
  ASSUME NEW path \in Paths
  PROVE  /\ Clean(path) \in Paths /\ Clean(path).abs = path.abs
         /\ \E r : CleanRun(path, r) /\ Clean(path).parts = r[Len(path.parts)]
  <1> DEFINE n == Len(path.parts)
             X == Seq(Part)
             F == Tidy(path.abs)
             Raw(g) == [S \in SUBSET (1..n) |->
                          IF S = {} THEN <<>>
                          ELSE CASE path.parts[Max(S)] = "." -> g[S \ {Max(S)}]
                                 [] path.parts[Max(S)] = ".." /\ g[S \ {Max(S)}] = <<>> /\ path.abs
                                      -> g[S \ {Max(S)}]
                                 [] path.parts[Max(S)] = ".." /\ g[S \ {Max(S)}] # <<>>
                                    /\ Last(g[S \ {Max(S)}]) # ".." -> Front(g[S \ {Max(S)}])
                                 [] OTHER -> Append(g[S \ {Max(S)}], path.parts[Max(S)])]
             G == CHOOSE g : g = Raw(g)
  <1>1. /\ path.abs \in BOOLEAN /\ path.parts \in Seq(Part)
        /\ n \in Nat /\ DOMAIN path.parts = 1..n /\ path.parts \in [1..n -> Part]
        /\ <<>> \in Seq(Part)
    BY LenProperties, EmptySeq DEF Paths
  <1>2. Clean(path) = [path EXCEPT !.parts = G[1..n]]
    BY <1>1 DEF Clean, FoldLeft, MapThenFoldSet
  <1>3. Folder(n, X, Part, F, <<>>, path.parts)
    BY <1>1, TidyType DEF Folder
  <1>4. ASSUME NEW S \in SUBSET (1..n), S # {}
        PROVE  path.parts[Max(S)] \in Part
    BY <1>1, <1>4, MaxIsIn
  <1>5. ASSUME NEW g, NEW S \in SUBSET (1..n), S # {}, g[S \ {Max(S)}] \in X
        PROVE  Raw(g)[S] = F[<<g[S \ {Max(S)}], path.parts[Max(S)]>>]
    <2> DEFINE done == g[S \ {Max(S)}]
               part == path.parts[Max(S)]
    <2>1. done \in X /\ part \in Part
      BY <1>4, <1>5
    <2>2. F[<<done, part>>] = TidyPart(path.abs, done, part)
      BY <1>1, <2>1, TidyType
    <2>3. Raw(g)[S] = CASE part = "." -> done
                        [] part = ".." /\ done = <<>> /\ path.abs -> done
                        [] part = ".." /\ done # <<>> /\ Last(done) # ".." -> Front(done)
                        [] OTHER -> Append(done, part)
      BY <1>5
    <2> HIDE DEF done, part, Raw
    <2>4. Raw(g)[S] = TidyPart(path.abs, done, part)
      BY <2>3 DEF TidyPart
    <2> QED
      BY <2>2, <2>4 DEF done, part
  <1>6. \E g : g = Raw(g)
    <2>1. Foldable(n, X, F, <<>>, path.parts)
      BY <1>3, FoldExists
    <2>2. PICK g \in [SUBSET (1..n) -> X] : g = FoldStep(n, F, <<>>, path.parts, g)
      BY <2>1 DEF Foldable
    <2>3. ASSUME NEW S \in SUBSET (1..n) PROVE g[S] = Raw(g)[S]
      <3>1. CASE S = {}
        BY <2>2, <3>1 DEF FoldStep
      <3>2. CASE S # {}
        <4>1. g[S \ {Max(S)}] \in X
          OBVIOUS
        <4>2. g[S] = F[<<g[S \ {Max(S)}], path.parts[Max(S)]>>]
          BY <2>2, <3>2 DEF FoldStep
        <4> HIDE DEF F, Raw
        <4> QED
          BY <1>5, <3>2, <4>1, <4>2
      <3> QED
        BY <3>1, <3>2
    <2>4. Raw(g) \in [SUBSET (1..n) -> {Raw(g)[S] : S \in SUBSET (1..n)}]
      OBVIOUS
    <2>5. g = Raw(g)
      BY <2>3
    <2> QED
      BY <2>5
  <1>7. G = Raw(G)
    <2> HIDE DEF Raw
    <2> QED
      BY <1>6
  <1>8. IsFold(n, X, F, <<>>, path.parts, G)
    <2> HIDE DEF F, G
    <2>1. G[{}] = <<>>
      BY <1>7
    <2>2. ASSUME NEW S \in SUBSET (1..n), S # {}, G[S \ {Max(S)}] \in X
          PROVE  G[S] = F[<<G[S \ {Max(S)}], path.parts[Max(S)]>>]
      <3>1. Raw(G)[S] = F[<<G[S \ {Max(S)}], path.parts[Max(S)]>>]
        BY <1>5, <2>2
      <3> HIDE DEF Raw
      <3> QED
        BY <1>7, <3>1
    <2> QED
      BY <2>1, <2>2 DEF IsFold
  <1>9. PICK r : FoldRun(n, X, F, <<>>, path.parts, r) /\ Folded(n, G) = r[n]
    <2> HIDE DEF n, X, F, G
    <2> QED
      BY <1>3, <1>8, FoldIsRun
  <1>10. Clean(path) = [path EXCEPT !.parts = r[n]]
    BY <1>2, <1>9 DEF Folded
  <1>11. r[n] \in Seq(Part)
    BY <1>1, <1>9 DEF FoldRun
  <1>12. CleanRun(path, r)
    BY <1>9 DEF CleanRun
  <1> HIDE DEF n
  <1>13. Clean(path) \in Paths /\ Clean(path).abs = path.abs /\ Clean(path).parts = r[n]
    BY <1>10, <1>11 DEF Paths
  <1> QED
    BY <1>12, <1>13 DEF n

LEMMA CleanSteps ==
  ASSUME NEW path \in Paths, NEW r, CleanRun(path, r)
  PROVE  /\ Len(path.parts) \in Nat /\ path.parts \in Seq(Part) /\ path.abs \in BOOLEAN
         /\ r \in [0..Len(path.parts) -> Seq(Part)] /\ r[0] = <<>>
         /\ \A k \in 1..Len(path.parts) :
              /\ path.parts[k] \in Part
              /\ r[k] = TidyPart(path.abs, r[k - 1], path.parts[k])
  <1>1. path.parts \in Seq(Part) /\ path.abs \in BOOLEAN /\ Len(path.parts) \in Nat
    BY LenProperties DEF Paths
  <1>2. r \in [0..Len(path.parts) -> Seq(Part)] /\ r[0] = <<>>
    BY DEF CleanRun, FoldRun
  <1>3. ASSUME NEW k \in 1..Len(path.parts)
        PROVE  path.parts[k] \in Part /\ r[k] = TidyPart(path.abs, r[k - 1], path.parts[k])
    <2>1. path.parts[k] \in Part
      BY <1>1, ElementOfSeq
    <2>2. k - 1 \in 0..Len(path.parts)
      BY <1>1
    <2>3. r[k - 1] \in Seq(Part)
      BY <1>2, <2>2
    <2>4. r[k] = Tidy(path.abs)[<<r[k - 1], path.parts[k]>>]
      BY DEF CleanRun, FoldRun
    <2> QED
      BY <1>1, <2>1, <2>3, <2>4, TidyType
  <1> QED
    BY <1>1, <1>2, <1>3

\* What Clean leaves: no ".", and ".." only in front and not of an absolute path.
Tidied(abs, s) ==
    \A i \in 1..Len(s) :
        /\ s[i] # "."
        /\ s[i] = ".." => ~abs /\ \A j \in 1..i : s[j] = ".."

LEMMA TidyKeeps ==
  ASSUME NEW abs \in BOOLEAN, NEW s \in Seq(Part), NEW part \in Part, Tidied(abs, s)
  PROVE  TidyPart(abs, s, part) \in Seq(Part) /\ Tidied(abs, TidyPart(abs, s, part))
  <1>1. Len(s) \in Nat
    BY LenProperties
  <1>2. CASE part = "." \/ (part = ".." /\ s = <<>> /\ abs)
    BY <1>2 DEF TidyPart
  <1>3. CASE part = ".." /\ s # <<>> /\ Last(s) # ".."
    <2>1. TidyPart(abs, s, part) = Front(s)
      BY <1>3 DEF TidyPart
    <2>2. /\ Front(s) \in Seq(Part) /\ Len(Front(s)) = Len(s) - 1
          /\ \A i \in 1..(Len(s) - 1) : Front(s)[i] = s[i]
      BY <1>3, FrontProperties
    <2> QED
      BY <1>1, <2>1, <2>2 DEF Tidied
  <1>4. CASE part # "." /\ (part = ".." => IF s = <<>> THEN ~abs ELSE Last(s) = "..")
    <2>1. TidyPart(abs, s, part) = Append(s, part)
      BY <1>4 DEF TidyPart
    <2>2. /\ Append(s, part) \in Seq(Part) /\ Len(Append(s, part)) = Len(s) + 1
          /\ \A i \in 1..Len(s) : Append(s, part)[i] = s[i]
          /\ Append(s, part)[Len(s) + 1] = part
      <3>1. Append(s, part) \in Seq(Part)
        BY AppendProperties
      <3>2. Len(Append(s, part)) = Len(s) + 1
        BY <1>1
      <3>3. \A i \in 1..Len(s) : Append(s, part)[i] = s[i]
        BY <1>1
      <3>4. Append(s, part)[Len(s) + 1] = part
        BY AppendProperties
      <3> QED
        BY <3>1, <3>2, <3>3, <3>4
    <2>3. part = ".." => ~abs /\ \A j \in 1..Len(s) : s[j] = ".."
      <3>1. CASE s = <<>>
        BY <1>4, <3>1, EmptySeq
      <3>2. CASE s # <<>>
        <4>1. Len(s) \in 1..Len(s)
          BY <1>1, <3>2, EmptySeq
        <4> QED
          BY <1>4, <3>2, <4>1 DEF Tidied, Last
      <3> QED
        BY <3>1, <3>2
    <2>4. ASSUME NEW i \in 1..(Len(s) + 1)
          PROVE  /\ Append(s, part)[i] # "."
                 /\ Append(s, part)[i] = ".." => ~abs /\ \A j \in 1..i : Append(s, part)[j] = ".."
      <3>1. CASE i = Len(s) + 1
        <4>1. \A j \in 1..i : j \in 1..Len(s) \/ j = Len(s) + 1
          BY <1>1
        <4> QED
          BY <1>4, <2>2, <2>3, <3>1, <4>1
      <3>2. CASE i # Len(s) + 1
        <4>1. i \in 1..Len(s) /\ \A j \in 1..i : j \in 1..Len(s)
          BY <1>1, <3>2
        <4> QED
          BY <2>2, <4>1 DEF Tidied
      <3> QED
        BY <3>1, <3>2
    <2>5. Tidied(abs, Append(s, part))
      BY <2>2, <2>4 DEF Tidied
    <2> QED
      BY <2>1, <2>2, <2>5
  <1> QED
    BY <1>2, <1>3, <1>4

LEMMA CleanRunTidied ==
  ASSUME NEW path \in Paths, NEW r, CleanRun(path, r)
  PROVE  \A k \in 0..Len(path.parts) : Tidied(path.abs, r[k])
  <1> DEFINE n == Len(path.parts)
             T == {k \in Nat : k <= n => Tidied(path.abs, r[k])}
  <1>. /\ n \in Nat /\ path.abs \in BOOLEAN
       /\ r \in [0..n -> Seq(Part)] /\ r[0] = <<>>
       /\ \A k \in 1..n : path.parts[k] \in Part
                          /\ r[k] = TidyPart(path.abs, r[k - 1], path.parts[k])
    BY CleanSteps
  <1> HIDE DEF n
  <1>1. 0 \in T
    BY EmptySeq DEF Tidied
  <1>2. ASSUME NEW k \in Nat, k \in T PROVE k + 1 \in T
    <2> SUFFICES ASSUME k + 1 <= n PROVE Tidied(path.abs, r[k + 1])
      OBVIOUS
    <2>1. k + 1 \in 1..n /\ (k + 1) - 1 = k /\ k \in 0..n /\ Tidied(path.abs, r[k])
      BY <1>2
    <2>2. r[k + 1] = TidyPart(path.abs, r[(k + 1) - 1], path.parts[k + 1])
      BY <2>1
    <2>3. r[k] \in Seq(Part) /\ path.parts[k + 1] \in Part
      BY <2>1
    <2> QED
      BY <2>1, <2>2, <2>3, TidyKeeps
  <1>3. Nat \subseteq T
    <2> HIDE DEF T
    <2> QED
      BY <1>1, <1>2, NatSetInduction
  <1> QED
    BY <1>3 DEF n

\* Clean leaves nothing to clean.
LEMMA CleanIsTidied ==
  ASSUME NEW path \in Paths
  PROVE  Tidied(path.abs, Clean(path).parts)
  <1>1. PICK r : CleanRun(path, r) /\ Clean(path).parts = r[Len(path.parts)]
    BY CleanIsRun
  <1>2. Len(path.parts) \in 0..Len(path.parts)
    BY <1>1, CleanSteps
  <1> QED
    BY <1>1, <1>2, CleanRunTidied

LEMMA TidiedIsClean ==
  ASSUME NEW path \in Paths, Tidied(path.abs, path.parts)
  PROVE  Clean(path) = path
  <1>1. PICK r : CleanRun(path, r) /\ Clean(path).parts = r[Len(path.parts)]
    BY CleanIsRun
  <1> DEFINE n == Len(path.parts)
             s == path.parts
             T == {k \in Nat : k <= n => r[k] = SubSeq(s, 1, k)}
  <1>2. /\ n \in Nat /\ path.abs \in BOOLEAN /\ s \in Seq(Part)
        /\ r \in [0..n -> Seq(Part)] /\ r[0] = <<>>
        /\ \A k \in 1..n : s[k] \in Part /\ r[k] = TidyPart(path.abs, r[k - 1], s[k])
    BY <1>1, CleanSteps
  <1>3. \A k \in 1..n : s[k] # "." /\ (s[k] = ".." => ~path.abs /\ \A j \in 1..k : s[j] = "..")
    BY DEF Tidied
  <1>a. n = Len(s)
    OBVIOUS
  <1> HIDE DEF n, s
  <1>4. 0 \in T
    BY <1>2, SubSeqEmpty
  <1>5. ASSUME NEW k \in Nat, k \in T PROVE k + 1 \in T
    <2> SUFFICES ASSUME k + 1 <= n PROVE r[k + 1] = SubSeq(s, 1, k + 1)
      OBVIOUS
    <2>1. k + 1 \in 1..n /\ (k + 1) - 1 = k /\ k \in 0..n /\ r[k] = SubSeq(s, 1, k)
      BY <1>2, <1>5
    <2>2. r[k + 1] = TidyPart(path.abs, r[(k + 1) - 1], s[k + 1])
      BY <1>2, <2>1
    <2>3. r[k] \in Seq(Part) /\ s[k + 1] \in Part
      BY <1>2, <2>1
    <2>4. s[k + 1] # "." /\ (s[k + 1] = ".." => ~path.abs /\ \A j \in 1..(k + 1) : s[j] = "..")
      BY <1>3, <2>1
    <2>5. Len(r[k]) = k /\ \A j \in 1..k : r[k][j] = s[j]
      <3>1. \A j \in 1..k : s[j] \in Part
        BY <1>2, <2>1
      <3>2. /\ Len(SubSeq(s, 1, k)) = IF 1 <= k THEN k - 1 + 1 ELSE 0
            /\ \A j \in 1..(k - 1 + 1) : SubSeq(s, 1, k)[j] = s[1 + j - 1]
        BY <3>1, SubSeqProperties
      <3> QED
        BY <2>1, <3>2
    <2>6. s[k + 1] = ".." /\ r[k] # <<>> => Last(r[k]) = ".."
      BY <2>3, <2>4, <2>5, EmptySeq DEF Last
    <2>7. r[k + 1] = Append(r[k], s[k + 1])
      BY <2>1, <2>2, <2>4, <2>6 DEF TidyPart
    <2>8. SubSeq(s, 1, k + 1) = SubSeq(s, 1, k) \o <<s[k + 1]>>
      <3>1. 1 \in 1..Len(s) /\ k + 1 \in 1..Len(s) /\ k + 1 \in Nat
        BY <1>a, <1>2, <2>1
      <3>2. SubSeq(s, 1, k + 1) = SubSeq(s, 1, (k + 1) - 1) \o <<s[k + 1]>>
        BY <1>2, <3>1, SubSeqRecursiveSecond
      <3> QED
        BY <2>1, <3>2
    <2> QED
      BY <2>1, <2>3, <2>7, <2>8, AppendIsConcat
  <1>6. Nat \subseteq T
    <2> HIDE DEF T
    <2> QED
      BY <1>4, <1>5, NatSetInduction
  <1>7. r[n] = s
    BY <1>a, <1>2, <1>6, SubSeqFull
  <1>8. Clean(path).parts = path.parts /\ Clean(path) \in Paths /\ Clean(path).abs = path.abs
    BY <1>1, <1>7, CleanIsRun DEF n, s
  <1> QED
    BY <1>8 DEF Paths

-----------------------------------------------------------------------------
(* Join                                                                    *)

\* A path that starts above its base.
Escapes(s) == s # <<>> /\ s[1] = ".."

LEMMA EscapesStay ==
  ASSUME NEW s \in Seq(Part), NEW part \in Part, Escapes(s)
  PROVE  Escapes(TidyPart(FALSE, s, part))
  <1>1. Len(s) \in Nat /\ Len(s) > 0 /\ s[1] = ".."
    BY LenProperties, EmptySeq DEF Escapes
  <1>2. CASE part = "."
    BY <1>2 DEF TidyPart
  <1>3. CASE part = ".." /\ Last(s) # ".."
    <2>1. TidyPart(FALSE, s, part) = Front(s)
      BY <1>1, <1>3 DEF TidyPart, Escapes
    <2>2. Len(s) # 1
      BY <1>1, <1>3 DEF Last
    <2>3. Front(s) \in Seq(Part) /\ Len(Front(s)) = Len(s) - 1
          /\ \A i \in 1..(Len(s) - 1) : Front(s)[i] = s[i]
      BY FrontProperties DEF Escapes
    <2>4. Front(s) # <<>>
      BY <1>1, <2>2, <2>3, EmptySeq
    <2>5. Front(s)[1] = ".."
      BY <1>1, <2>2, <2>3
    <2> QED
      BY <2>1, <2>4, <2>5 DEF Escapes
  <1>4. CASE part # "." /\ (part = ".." => Last(s) = "..")
    <2>1. TidyPart(FALSE, s, part) = Append(s, part)
      BY <1>4 DEF TidyPart
    <2>2. Append(s, part) # <<>> /\ \A i \in 1..Len(s) : Append(s, part)[i] = s[i]
      BY <1>1, AppendProperties
    <2>3. Append(s, part)[1] = ".."
      BY <1>1, <2>2
    <2> QED
      BY <2>1, <2>2, <2>3 DEF Escapes
  <1> QED
    BY <1>2, <1>3, <1>4

\* The cleaning of a safe path never leaves its base on the way.
LEMMA SafeStays ==
  ASSUME NEW path \in Paths, ~path.abs, ~Escapes(Clean(path).parts), NEW r, CleanRun(path, r),
         Clean(path).parts = r[Len(path.parts)]
  PROVE  \A k \in 0..Len(path.parts) : ~Escapes(r[k])
  <1> DEFINE n == Len(path.parts)
  <1>1. /\ n \in Nat /\ r \in [0..n -> Seq(Part)]
        /\ \A k \in 1..n : path.parts[k] \in Part
                           /\ r[k] = TidyPart(FALSE, r[k - 1], path.parts[k])
    BY CleanSteps
  <1> HIDE DEF n
  <1>2. SUFFICES ASSUME NEW k \in 0..n, Escapes(r[k]) PROVE FALSE
    BY DEF n
  <1> DEFINE T == {i \in Nat : k + i <= n => Escapes(r[k + i])}
  <1>3. 0 \in T
    BY <1>2
  <1>4. ASSUME NEW i \in Nat, i \in T PROVE i + 1 \in T
    <2> SUFFICES ASSUME k + (i + 1) <= n PROVE Escapes(r[k + (i + 1)])
      OBVIOUS
    <2> DEFINE m == k + (i + 1)
    <2>0. m \in 1..n /\ m - 1 = k + i /\ k + i \in 0..n
      BY <1>1
    <2>1. m \in 1..n /\ m - 1 \in 0..n /\ Escapes(r[m - 1])
      BY <1>4, <2>0
    <2> HIDE DEF m
    <2>2. r[m - 1] \in Seq(Part) /\ path.parts[m] \in Part
      BY <1>1, <2>1
    <2>3. r[m] = TidyPart(FALSE, r[m - 1], path.parts[m])
      BY <1>1, <2>1
    <2>4. Escapes(r[m])
      BY <2>1, <2>2, <2>3, EscapesStay
    <2> QED
      BY <2>4 DEF m
  <1>5. Nat \subseteq T
    <2> HIDE DEF T
    <2> QED
      BY <1>3, <1>4, NatSetInduction
  <1> DEFINE i == n - k
  <1>6. i \in Nat /\ k + i = n /\ k + i <= n
    BY <1>1
  <1> HIDE DEF i
  <1>7. Escapes(r[k + i])
    BY <1>5, <1>6
  <1> QED
    BY <1>6, <1>7 DEF n

LEMMA SafePath ==
  ASSUME NEW path \in Paths, SafeRelative(path)
  PROVE  ~path.abs /\ ~Escapes(Clean(path).parts) /\ Clean(path).parts # <<>>
  <1>1. Clean(path).parts \in Seq(Part)
    BY CleanIsRun DEF Paths
  <1>2. Head(Clean(path).parts) = Clean(path).parts[1]
    BY <1>1 DEF SafeRelative
  <1> QED
    BY <1>2 DEF SafeRelative, Escapes

LEMMA FrontOfConcat ==
  ASSUME NEW S, NEW b \in Seq(S), NEW s \in Seq(S), s # <<>>
  PROVE  Front(b \o s) = b \o Front(s)
  <1> DEFINE f == Front(s)
             c == b \o s
             d == b \o f
  <1>1. Len(s) \in Nat /\ Len(b) \in Nat /\ Len(s) > 0
    BY LenProperties, EmptySeq
  <1>2. /\ c \in Seq(S) /\ Len(c) = Len(b) + Len(s)
        /\ \A i \in 1..Len(b) + Len(s) : c[i] = IF i <= Len(b) THEN b[i] ELSE s[i - Len(b)]
    BY <1>1, ConcatProperties
  <1>3. f \in Seq(S) /\ Len(f) = Len(s) - 1 /\ \A i \in 1..(Len(s) - 1) : f[i] = s[i]
    BY FrontProperties
  <1> HIDE DEF f, c
  <1>4. /\ d \in Seq(S) /\ Len(d) = Len(b) + Len(f)
        /\ \A i \in 1..Len(b) + Len(f) : d[i] = IF i <= Len(b) THEN b[i] ELSE f[i - Len(b)]
    BY <1>1, <1>3, ConcatProperties
  <1>5. c # <<>>
    BY <1>1, <1>2, EmptySeq
  <1>6. /\ Front(c) \in Seq(S) /\ Len(Front(c)) = Len(c) - 1
        /\ \A i \in 1..(Len(c) - 1) : Front(c)[i] = c[i]
    BY <1>2, <1>5, FrontProperties
  <1> HIDE DEF d
  <1>7. Len(Front(c)) = Len(d) /\ Len(d) = Len(c) - 1
    BY <1>1, <1>2, <1>3, <1>4, <1>6
  <1>8. ASSUME NEW i \in 1..Len(d) PROVE Front(c)[i] = d[i]
    <2>1. /\ i \in 1..(Len(c) - 1) /\ i \in 1..Len(b) + Len(s) /\ i \in 1..Len(b) + Len(f)
          /\ (~(i <= Len(b)) => i - Len(b) \in 1..(Len(s) - 1))
      BY <1>1, <1>2, <1>3, <1>4
    <2> QED
      BY <1>2, <1>3, <1>4, <1>6, <2>1
  <1>9. Front(c) = d
    BY <1>4, <1>6, <1>7, <1>8, SeqEqual
  <1> QED
    BY <1>9 DEF c, d, f

\* One step of a cleaning that stays below its base, on top of that base.
LEMMA TidyBelow ==
  ASSUME NEW abs \in BOOLEAN, NEW b \in Seq(Part), NEW s \in Seq(Part),
         NEW part \in Part, Tidied(FALSE, s), ~Escapes(s),
         ~Escapes(TidyPart(FALSE, s, part))
  PROVE  TidyPart(abs, b \o s, part) = b \o TidyPart(FALSE, s, part)
  <1>1. Len(s) \in Nat /\ Len(b) \in Nat
    BY LenProperties
  <1>2. CASE part = "."
    BY <1>2 DEF TidyPart
  <1>3. CASE part = ".."
    <2>1. s # <<>>
      <3> SUFFICES ASSUME s = <<>> PROVE FALSE
        OBVIOUS
      <3> DEFINE longer == Append(s, part)
      <3>1. TidyPart(FALSE, s, part) = longer
        BY <1>3 DEF TidyPart
      <3>2. longer # <<>> /\ longer[Len(s) + 1] = part
        BY <1>1, AppendProperties
      <3>3. Len(s) + 1 = 1
        BY EmptySeq
      <3> HIDE DEF longer
      <3>4. longer[1] = ".."
        BY <1>3, <3>2, <3>3
      <3> QED
        BY <3>1, <3>2, <3>4 DEF Escapes
    <2>2. Last(s) # ".."
      <3>1. Len(s) \in 1..Len(s) /\ 1 \in 1..Len(s)
        BY <1>1, <2>1, EmptySeq
      <3> QED
        BY <2>1, <3>1 DEF Last, Tidied, Escapes
    <2>3. TidyPart(FALSE, s, part) = Front(s)
      BY <1>3, <2>1, <2>2 DEF TidyPart
    <2>4. /\ b \o s \in Seq(Part) /\ Len(b \o s) = Len(b) + Len(s)
          /\ \A i \in 1..Len(b) + Len(s) :
               (b \o s)[i] = IF i <= Len(b) THEN b[i] ELSE s[i - Len(b)]
      BY <1>1, ConcatProperties
    <2>5. Len(s) > 0
      BY <1>1, <2>1, EmptySeq
    <2>6. Last(b \o s) = Last(s)
      <3>1. Len(b \o s) \in 1..Len(b) + Len(s) /\ Len(b \o s) - Len(b) = Len(s)
            /\ ~(Len(b \o s) <= Len(b))
        BY <1>1, <2>4, <2>5
      <3> QED
        BY <2>4, <3>1 DEF Last
    <2>7. b \o s # <<>>
      BY <1>1, <2>4, <2>5, EmptySeq
    <2>8. TidyPart(abs, b \o s, part) = Front(b \o s)
      BY <1>3, <2>2, <2>6, <2>7 DEF TidyPart
    <2>9. Front(b \o s) = b \o Front(s)
      BY <2>1, FrontOfConcat
    <2> QED
      BY <2>3, <2>8, <2>9
  <1>4. CASE part # "." /\ part # ".."
    <2>1. TidyPart(FALSE, s, part) = Append(s, part) /\ TidyPart(abs, b \o s, part) = Append(b \o s, part)
      BY <1>4 DEF TidyPart
    <2>2. <<part>> \in Seq(Part) /\ b \o s \in Seq(Part)
      BY ConcatProperties
    <2>3. Append(s, part) = s \o <<part>> /\ Append(b \o s, part) = (b \o s) \o <<part>>
      BY <2>2, AppendIsConcat
    <2>4. (b \o s) \o <<part>> = b \o (s \o <<part>>)
      BY <2>2, ConcatAssociative
    <2> QED
      BY <2>1, <2>3, <2>4
  <1> QED
    BY <1>2, <1>3, <1>4

\* A safe path leads below its base.
LEMMA JoinIsBelow ==
  ASSUME NEW base \in Paths, NEW path \in Paths, SafeRelative(path)
  PROVE  /\ Join(base, path) \in Paths /\ Join(base, path).abs = base.abs
         /\ Join(base, path).parts = Clean(base).parts \o Clean(path).parts
         /\ Tidied(base.abs, Join(base, path).parts)
  <1> DEFINE c == base.parts \o path.parts
             j == [base EXCEPT !.parts = c]
             m == Len(base.parts)
             n == Len(path.parts)
             B == Clean(base).parts
  <1>1. /\ base.parts \in Seq(Part) /\ path.parts \in Seq(Part) /\ m \in Nat /\ n \in Nat
        /\ base.abs \in BOOLEAN
    BY LenProperties DEF Paths
  <1>a. Len(base.parts) = m /\ Len(path.parts) = n
    OBVIOUS
  <1> HIDE DEF m, n
  <1>2. /\ c \in Seq(Part) /\ Len(c) = m + n
        /\ \A i \in 1..m + n : c[i] = IF i <= m THEN base.parts[i] ELSE path.parts[i - m]
    BY <1>1, <1>a, ConcatProperties
  <1>3. j \in Paths /\ j.abs = base.abs /\ j.parts = c /\ Join(base, path) = Clean(j)
    BY <1>2 DEF Paths, Join
  <1> HIDE DEF c, j
  <1>4. PICK q : CleanRun(j, q) /\ Clean(j).parts = q[Len(j.parts)]
    BY <1>3, CleanIsRun
  <1>5. PICK b : CleanRun(base, b) /\ B = b[m]
    BY <1>a, CleanIsRun
  <1>6. PICK r : CleanRun(path, r) /\ Clean(path).parts = r[n]
    BY <1>a, CleanIsRun
  <1>7. /\ q \in [0..m + n -> Seq(Part)]
        /\ \A k \in 1..m + n : c[k] \in Part /\ q[k] = TidyPart(base.abs, q[k - 1], c[k])
    <2>1. /\ q \in [0..Len(c) -> Seq(Part)]
          /\ \A k \in 1..Len(c) : c[k] \in Part /\ q[k] = TidyPart(base.abs, q[k - 1], c[k])
      BY <1>3, <1>4, CleanSteps
    <2> QED
      BY <1>2, <2>1
  <1>8. ~path.abs /\ ~Escapes(Clean(path).parts)
    BY SafePath
  <1>9. /\ r \in [0..n -> Seq(Part)] /\ r[0] = <<>>
        /\ \A k \in 1..n : /\ path.parts[k] \in Part
                           /\ r[k] = TidyPart(FALSE, r[k - 1], path.parts[k])
    BY <1>6, <1>8, <1>a, CleanSteps
  <1>10. \A k \in 0..n : Tidied(FALSE, r[k]) /\ ~Escapes(r[k])
    <2>1. path.abs = FALSE
      BY <1>8 DEF Paths
    <2> QED
      BY <1>6, <1>8, <1>a, <2>1, SafeStays, CleanRunTidied
  <1>11. B \in Seq(Part)
    BY CleanIsRun DEF Paths
  <1>12. q[m] = B
    <2>1. FoldRun(m, Seq(Part), Tidy(base.abs), <<>>, base.parts, b)
      BY <1>5, <1>a DEF CleanRun
    <2>2. FoldRun(m + n, Seq(Part), Tidy(base.abs), <<>>, c, q)
      BY <1>2, <1>3, <1>4 DEF CleanRun
    <2>3. m + n \in Nat /\ m <= m + n /\ m <= m /\ m \in 0..m
      BY <1>1
    <2>4. SameUpTo(m, base.parts, c)
      BY <1>1, <1>2 DEF SameUpTo
    <2>5. b[m] = q[m]
      <3> DEFINE l == m + n
                 X == Seq(Part)
                 F == Tidy(base.abs)
                 s == base.parts
                 e == <<>>
      <3>1. FoldRun(m, X, F, e, s, b) /\ FoldRun(l, X, F, e, c, q)
        BY <2>1, <2>2
      <3>2. l \in Nat /\ m <= l /\ SameUpTo(m, s, c)
        BY <2>3, <2>4
      <3> HIDE DEF l, X, F, s, e
      <3> QED
        BY <1>1, <3>1, <3>2, RunPrefix
    <2> QED
      BY <1>5, <2>5
  <1>13. \A k \in 1..n : c[m + k] = path.parts[k]
    <2> SUFFICES ASSUME NEW k \in 1..n PROVE c[m + k] = path.parts[k]
      OBVIOUS
    <2>1. m + k \in 1..m + n /\ ~(m + k <= m) /\ (m + k) - m = k
      BY <1>1
    <2> QED
      BY <1>2, <2>1
  <1> HIDE DEF B
  <1> DEFINE T == {k \in Nat : k <= n => q[m + k] = B \o r[k]}
  <1>14. 0 \in T
    <2>1. B \o <<>> = B
      BY <1>11, ConcatEmptySeq
    <2>2. m + 0 = m
      BY <1>1
    <2> QED
      BY <1>9, <1>12, <2>1, <2>2
  <1>15. ASSUME NEW k \in Nat, k \in T PROVE k + 1 \in T
    <2> SUFFICES ASSUME k + 1 <= n PROVE q[m + (k + 1)] = B \o r[k + 1]
      OBVIOUS
    <2> DEFINE i == m + (k + 1)
               part == path.parts[k + 1]
    <2>1. /\ k + 1 \in 1..n /\ (k + 1) - 1 = k /\ k \in 0..n /\ k + 1 \in 0..n
          /\ i \in 1..m + n /\ i - 1 = m + k
      BY <1>1
    <2>2. q[i - 1] = B \o r[k]
      BY <1>15, <2>1
    <2>3. part \in Part /\ r[k + 1] = TidyPart(FALSE, r[(k + 1) - 1], part)
      BY <1>9, <2>1
    <2>4. c[i] = part
      BY <1>13, <2>1
    <2>5. Tidied(FALSE, r[k]) /\ ~Escapes(r[k]) /\ ~Escapes(r[k + 1]) /\ r[k] \in Seq(Part)
      BY <1>9, <1>10, <2>1
    <2> HIDE DEF i, part
    <2>6. q[i] = TidyPart(base.abs, q[i - 1], c[i])
      BY <1>7, <2>1
    <2>7. r[k + 1] = TidyPart(FALSE, r[k], part)
      BY <2>1, <2>3
    <2>8. ~Escapes(TidyPart(FALSE, r[k], part))
      BY <2>5, <2>7
    <2>9. TidyPart(base.abs, B \o r[k], part) = B \o TidyPart(FALSE, r[k], part)
      <3> DEFINE s == r[k]
                 a == base.abs
      <3>1. s \in Seq(Part) /\ a \in BOOLEAN /\ Tidied(FALSE, s) /\ ~Escapes(s)
            /\ ~Escapes(TidyPart(FALSE, s, part)) /\ part \in Part /\ B \in Seq(Part)
        BY <1>1, <1>11, <2>3, <2>5, <2>8
      <3> HIDE DEF s, a
      <3>2. TidyPart(a, B \o s, part) = B \o TidyPart(FALSE, s, part)
        BY ONLY <3>1, TidyBelow
      <3> QED
        BY <3>2 DEF s, a
    <2>10. q[i] = TidyPart(base.abs, B \o r[k], part)
      BY <2>2, <2>4, <2>6
    <2>11. q[i] = B \o r[k + 1]
      BY <2>7, <2>9, <2>10
    <2> QED
      BY <2>11 DEF i
  <1>16. Nat \subseteq T
    <2> HIDE DEF T
    <2> QED
      BY <1>14, <1>15, NatSetInduction
  <1>17. q[m + n] = B \o r[n]
    BY <1>1, <1>16
  <1>18. Len(j.parts) = m + n
    BY <1>2, <1>3
  <1>19. Clean(j) \in Paths /\ Clean(j).abs = j.abs /\ Tidied(j.abs, Clean(j).parts)
    BY <1>3, CleanIsRun, CleanIsTidied
  <1> QED
    BY <1>3, <1>4, <1>6, <1>17, <1>18, <1>19 DEF B

\* A relative path that does not start above its base leads below it, in
\* every directory: what the comparison of prefixes in Validate is for holds
\* already when safeRelativePath accepts the path.
THEOREM SafeLeadsBelow ==
  ASSUME NEW base \in Paths, NEW path \in Paths, SafeRelative(path)
  PROVE  Below(base, path)
  <1> DEFINE b == Clean(base).parts
             s == Clean(path).parts
             t == Join(base, path).parts
  <1>1. b \in Seq(Part) /\ s \in Seq(Part) /\ s # <<>>
    BY CleanIsRun, SafePath DEF Paths
  <1>2. t = b \o s
    BY JoinIsBelow
  <1>3. Below(base, path) <=> IsPrefix(b, t) /\ b # t
    BY DEF Below, IsStrictPrefix
  <1> HIDE DEF b, s, t
  <1>4. Len(b) \in Nat /\ Len(s) \in Nat /\ Len(s) > 0
    BY <1>1, LenProperties, EmptySeq
  <1>5. /\ t \in Seq(Part) /\ Len(t) = Len(b) + Len(s)
        /\ \A i \in 1..Len(b) + Len(s) : t[i] = IF i <= Len(b) THEN b[i] ELSE s[i - Len(b)]
    BY <1>1, <1>2, ConcatProperties
  <1>6. Len(b) <= Len(t) /\ b # t
    BY <1>4, <1>5
  <1>7. SubSeq(b, 1, Len(b)) = SubSeq(t, 1, Len(b))
    <2>1. \A i \in 1..Len(b) : t[i] = b[i]
      BY <1>4, <1>5
    <2> QED
      BY <1>1, <1>4, <1>5, <1>6, <2>1
  <1> QED
    BY <1>3, <1>6, <1>7 DEF IsPrefix

\* A document has a directory with a name, if its base has one.
LEMMA DirOfDocument ==
  ASSUME NEW path \in Paths, Tidied(path.abs, path.parts), path.parts # <<>>
  PROVE  Dir(path) \in Paths /\ Clean(Dir(path)) = Dir(path)
  <1> DEFINE s == path.parts
             f == Front(s)
  <1>1. s \in Seq(Part) /\ path.abs \in BOOLEAN
    BY DEF Paths
  <1>2. /\ f \in Seq(Part) /\ Len(f) = Len(s) - 1 /\ Len(s) \in Nat
        /\ \A i \in 1..(Len(s) - 1) : f[i] = s[i]
    BY <1>1, FrontProperties
  <1>3. Dir(path) \in Paths /\ Dir(path).abs = path.abs /\ Dir(path).parts = f
    <2> HIDE DEF f
    <2>1. Dir(path) = [path EXCEPT !.parts = f]
      BY DEF Dir, f, Paths
    <2> QED
      BY <1>2, <2>1 DEF Paths
  <1>4. Tidied(path.abs, s)
    OBVIOUS
  <1> HIDE DEF s, f
  <1>5. Tidied(path.abs, f)
    <2> SUFFICES ASSUME NEW i \in 1..Len(f)
                 PROVE  /\ f[i] # "."
                        /\ f[i] = ".." => ~path.abs /\ \A j \in 1..i : f[j] = ".."
      BY DEF Tidied
    <2>1. i \in 1..Len(s) /\ i \in 1..(Len(s) - 1) /\ \A j \in 1..i : j \in 1..(Len(s) - 1)
      BY <1>2
    <2> QED
      BY <1>2, <1>4, <2>1 DEF Tidied
  <1> QED
    BY <1>3, <1>5, TidiedIsClean
-----------------------------------------------------------------------------
(* Text                                                                    *)

Slash(path) == IF path.abs THEN <<"/">> ELSE <<>>

\* A text and one more element.
Spell == [p \in Seq(Part) \X Part |-> p[1] \o <<"/", p[2]>>]

TextRun(s, r) == FoldRun(Len(s) - 1, Seq(Part), Spell, <<s[1]>>, Tail(s), r)

LEMMA SpellType ==
  /\ Spell \in [Seq(Part) \X Part -> Seq(Part)]
  /\ \A text \in Seq(Part), part \in Part :
       Spell[<<text, part>>] = text \o <<"/", part>>
  <1>1. "/" \in Part
    BY DEF Part
  <1>2. ASSUME NEW text \in Seq(Part), NEW part \in Part
        PROVE  text \o <<"/", part>> \in Seq(Part)
    <2>1. <<"/", part>> \in Seq(Part)
      BY <1>1
    <2> QED
      BY <2>1, ConcatProperties
  <1> QED
    BY <1>2 DEF Spell

LEMMA TextIsRun ==
  ASSUME NEW path \in Paths, path.parts # <<>>
  PROVE  \E r : /\ TextRun(path.parts, r)
                /\ Text(path) = Slash(path) \o r[Len(path.parts) - 1]
  <1> DEFINE s == path.parts
             t == Tail(s)
             n == Len(s) - 1
             X == Seq(Part)
             F == Spell
             e == <<s[1]>>
             Raw(g) == [S \in SUBSET (1..n) |->
                          IF S = {} THEN e ELSE g[S \ {Max(S)}] \o <<"/", t[Max(S)]>>]
             G == CHOOSE g : g = Raw(g)
  <1>1. /\ s \in Seq(Part) /\ n \in Nat /\ t \in Seq(Part) /\ Len(t) = n
        /\ DOMAIN t = 1..n /\ t \in [1..n -> Part] /\ s[1] \in Part /\ e \in X
    <2>1. s \in Seq(Part) /\ Len(s) \in Nat /\ Len(s) > 0
      BY LenProperties, EmptySeq DEF Paths
    <2>2. t \in Seq(Part) /\ Len(t) = Len(s) - 1
      BY <2>1, HeadTailProperties
    <2>3. DOMAIN t = 1..n /\ t \in [1..n -> Part]
      BY <2>2, LenProperties
    <2>4. s[1] \in Part
      BY <2>1, ElementOfSeq
    <2> QED
      BY <2>1, <2>2, <2>3, <2>4
  <1>2. Text(path) = Slash(path) \o G[1..n]
    <2>1. Head(s) = s[1]
      BY <1>1
    <2> QED
      BY <1>1, <2>1 DEF Text, Slash, FoldLeft, MapThenFoldSet
  <1>3. Folder(n, X, Part, F, e, t)
    BY <1>1, SpellType DEF Folder
  <1>4. ASSUME NEW g, NEW S \in SUBSET (1..n), S # {}, g[S \ {Max(S)}] \in X
        PROVE  Raw(g)[S] = F[<<g[S \ {Max(S)}], t[Max(S)]>>]
    <2>1. Max(S) \in 1..n
      BY <1>1, <1>4, MaxIsIn
    <2>2. t[Max(S)] \in Part
      BY <1>1, <2>1
    <2> QED
      BY <1>4, <2>2, SpellType
  <1>5. \E g : g = Raw(g)
    <2>1. Foldable(n, X, F, e, t)
      BY <1>3, FoldExists
    <2>2. PICK g \in [SUBSET (1..n) -> X] : g = FoldStep(n, F, e, t, g)
      BY <2>1 DEF Foldable
    <2>3. ASSUME NEW S \in SUBSET (1..n) PROVE g[S] = Raw(g)[S]
      <3>1. CASE S = {}
        BY <2>2, <3>1 DEF FoldStep
      <3>2. CASE S # {}
        <4>1. g[S \ {Max(S)}] \in X
          OBVIOUS
        <4>2. g[S] = F[<<g[S \ {Max(S)}], t[Max(S)]>>]
          BY <2>2, <3>2 DEF FoldStep
        <4> HIDE DEF F, Raw
        <4> QED
          BY <1>4, <3>2, <4>1, <4>2
      <3> QED
        BY <3>1, <3>2
    <2>4. g = Raw(g)
      BY <2>3
    <2> QED
      BY <2>4
  <1>6. G = Raw(G)
    <2> HIDE DEF Raw
    <2> QED
      BY <1>5
  <1>7. IsFold(n, X, F, e, t, G)
    <2> HIDE DEF F, G
    <2>1. G[{}] = e
      BY <1>6
    <2>2. ASSUME NEW S \in SUBSET (1..n), S # {}, G[S \ {Max(S)}] \in X
          PROVE  G[S] = F[<<G[S \ {Max(S)}], t[Max(S)]>>]
      <3>1. Raw(G)[S] = F[<<G[S \ {Max(S)}], t[Max(S)]>>]
        BY <1>4, <2>2
      <3> HIDE DEF Raw
      <3> QED
        BY <1>6, <3>1
    <2> QED
      BY <2>1, <2>2 DEF IsFold
  <1>8. PICK r : FoldRun(n, X, F, e, t, r) /\ Folded(n, G) = r[n]
    <2> HIDE DEF n, X, F, G, e, t
    <2> QED
      BY <1>3, <1>7, FoldIsRun
  <1>9. Text(path) = Slash(path) \o r[n]
    <2> HIDE DEF G
    <2> QED
      BY <1>2, <1>8 DEF Folded
  <1>10. TextRun(s, r)
    BY <1>8 DEF TextRun
  <1> QED
    BY <1>9, <1>10

LEMMA TextSteps ==
  ASSUME NEW s \in Seq(Part), s # <<>>, NEW r, TextRun(s, r)
  PROVE  /\ r \in [0..Len(s) - 1 -> Seq(Part)] /\ r[0] = <<s[1]>>
         /\ \A k \in 1..Len(s) - 1 :
              s[k + 1] \in Part /\ r[k] = r[k - 1] \o <<"/", s[k + 1]>>
  <1>1. Len(s) \in Nat /\ Len(s) > 0
    BY LenProperties, EmptySeq
  <1>2. Tail(s) \in Seq(Part) /\ \A k \in 1..Len(s) - 1 : Tail(s)[k] = s[k + 1]
    <2>1. Tail(s) \in Seq(Part) /\ Len(Tail(s)) = Len(s) - 1
          /\ \A k \in 1..Len(Tail(s)) : Tail(s)[k] = s[k + 1]
      BY HeadTailProperties
    <2> QED
      BY <2>1
  <1>3. r \in [0..Len(s) - 1 -> Seq(Part)] /\ r[0] = <<s[1]>>
    BY DEF TextRun, FoldRun
  <1>4. ASSUME NEW k \in 1..Len(s) - 1
        PROVE  s[k + 1] \in Part /\ r[k] = r[k - 1] \o <<"/", s[k + 1]>>
    <2>1. k + 1 \in 1..Len(s) /\ k - 1 \in 0..Len(s) - 1
      BY <1>1
    <2>2. s[k + 1] \in Part
      BY <2>1, ElementOfSeq
    <2>3. r[k - 1] \in Seq(Part)
      BY <1>3, <2>1
    <2>4. r[k] = Spell[<<r[k - 1], Tail(s)[k]>>]
      BY DEF TextRun, FoldRun
    <2> QED
      BY <1>2, <2>2, <2>3, <2>4, SpellType
  <1> QED
    BY <1>3, <1>4
Texts == Seq(Part)

LEMMA ConcatTexts ==
  \A x, y, z \in Texts : (x \o y) \o z = x \o (y \o z)
  BY ConcatAssociative DEF Texts

\* Text y is text x, a separator and something more.
GoesOn(x, y) == \E u \in Seq(Part) : y = (x \o <<"/">>) \o u

\* The text of a longer sequence of elements goes on after a separator.
LEMMA TextOfConcat ==
  ASSUME NEW b \in Seq(Part), b # <<>>, NEW s \in Seq(Part), s # <<>>,
         NEW r, TextRun(b, r), NEW q, TextRun(b \o s, q)
  PROVE  /\ r[Len(b) - 1] \in Seq(Part)
         /\ GoesOn(r[Len(b) - 1], q[Len(b \o s) - 1])
  <1> DEFINE c == b \o s
             m == Len(b)
             n == Len(s)
  <1>1. m \in Nat /\ n \in Nat /\ m > 0 /\ n > 0
    BY LenProperties, EmptySeq
  <1>2. /\ c \in Seq(Part) /\ Len(c) = m + n
        /\ \A i \in 1..m + n : c[i] = IF i <= m THEN b[i] ELSE s[i - m]
    BY <1>1, ConcatProperties
  <1>3. m = Len(b)
    OBVIOUS
  <1>4. c # <<>>
    BY <1>1, <1>2, EmptySeq
  <1>5. TextRun(c, q)
    OBVIOUS
  <1> HIDE DEF m, n, c
  <1>6. /\ r \in [0..m - 1 -> Seq(Part)] /\ r[0] = <<b[1]>>
        /\ \A k \in 1..m - 1 : b[k + 1] \in Part /\ r[k] = r[k - 1] \o <<"/", b[k + 1]>>
    BY <1>3, TextSteps
  <1>7. /\ q \in [0..(m + n) - 1 -> Seq(Part)] /\ q[0] = <<c[1]>>
        /\ \A k \in 1..(m + n) - 1 :
             c[k + 1] \in Part /\ q[k] = q[k - 1] \o <<"/", c[k + 1]>>
    <2>1. /\ q \in [0..Len(c) - 1 -> Seq(Part)] /\ q[0] = <<c[1]>>
          /\ \A k \in 1..Len(c) - 1 :
               c[k + 1] \in Part /\ q[k] = q[k - 1] \o <<"/", c[k + 1]>>
      BY <1>2, <1>4, <1>5, TextSteps
    <2> QED
      BY <1>2, <2>1
  <1> DEFINE T == {k \in Nat : k <= m - 1 => q[k] = r[k]}
  <1>8. 0 \in T
    <2>1. 1 \in 1..m + n /\ 1 <= m
      BY <1>1
    <2> QED
      BY <1>2, <1>6, <1>7, <2>1
  <1>9. ASSUME NEW k \in Nat, k \in T PROVE k + 1 \in T
    <2> SUFFICES ASSUME k + 1 <= m - 1 PROVE q[k + 1] = r[k + 1]
      OBVIOUS
    <2> DEFINE i == k + 1
    <2>1. /\ i \in 1..m - 1 /\ i \in 1..(m + n) - 1 /\ i - 1 = k
          /\ i + 1 \in 1..m + n /\ i + 1 <= m
      BY <1>1
    <2>2. q[k] = r[k]
      BY <1>1, <1>9
    <2> HIDE DEF i
    <2>3. c[i + 1] = b[i + 1]
      BY <1>2, <2>1
    <2>4. r[i] = r[i - 1] \o <<"/", b[i + 1]>> /\ q[i] = q[i - 1] \o <<"/", c[i + 1]>>
      BY <1>6, <1>7, <2>1
    <2>5. q[i] = r[i]
      BY <2>1, <2>2, <2>3, <2>4
    <2> QED
      BY <2>5 DEF i
  <1>10. Nat \subseteq T
    <2> HIDE DEF T
    <2> QED
      BY <1>8, <1>9, NatSetInduction
  <1>11. m - 1 \in Nat /\ q[m - 1] = r[m - 1] /\ r[m - 1] \in Seq(Part)
    BY <1>1, <1>6, <1>10
  <1> HIDE DEF T
  <1> DEFINE root == r[m - 1] \o <<"/">>
             Longer(i) == \E u \in Seq(Part) : q[i] = root \o u
             R == {k \in Nat : k <= n - 1 => Longer(m + k)}
  <1>12. <<"/">> \in Seq(Part) /\ root \in Seq(Part) /\ "/" \in Part
    <2>1. "/" \in Part
      BY DEF Part
    <2>2. <<"/">> \in Seq(Part)
      BY <2>1
    <2> QED
      BY <1>11, <2>1, <2>2, ConcatProperties
  <1>13. 0 \in R
    <2>1. m \in 1..(m + n) - 1 /\ m + 0 = m /\ m + 1 \in 1..m + n
      BY <1>1
    <2>2. c[m + 1] \in Part /\ q[m] = r[m - 1] \o <<"/", c[m + 1]>>
      BY <1>7, <1>11, <2>1
    <2> DEFINE part == c[m + 1]
               t == r[m - 1]
    <2>3. part \in Part /\ t \in Seq(Part) /\ q[m] = t \o <<"/", part>>
      BY <1>11, <2>2
    <2> HIDE DEF part, t
    <2>4. <<part>> \in Seq(Part) /\ <<"/", part>> = <<"/">> \o <<part>>
      BY <2>3
    <2>5. t \o (<<"/">> \o <<part>>) = (t \o <<"/">>) \o <<part>>
      BY <1>12, <2>3, <2>4, ConcatAssociative
    <2>6. q[m] = root \o <<part>>
      BY <2>3, <2>4, <2>5 DEF t
    <2> QED
      BY <2>1, <2>4, <2>6
  <1> HIDE DEF root, Longer
  <1>14. ASSUME NEW k \in Nat, k \in R PROVE k + 1 \in R
    <2> SUFFICES ASSUME k + 1 <= n - 1 PROVE Longer(m + (k + 1))
      OBVIOUS
    <2> DEFINE i == m + (k + 1)
    <2>1. i \in 1..(m + n) - 1 /\ i - 1 = m + k
      BY <1>1
    <2>a. Longer(m + k)
      BY <1>1, <1>14
    <2>2. PICK u \in Seq(Part) : q[m + k] = root \o u
      BY <2>a DEF Longer
    <2> HIDE DEF i
    <2> DEFINE w == <<"/", c[i + 1]>>
    <2>3. c[i + 1] \in Part /\ q[i] = q[i - 1] \o w
      BY <1>7, <2>1
    <2>4. w \in Seq(Part)
      BY <1>12, <2>3
    <2> HIDE DEF w
    <2>b. u \in Texts /\ root \in Texts /\ w \in Texts
      BY <1>12, <2>4 DEF Texts
    <2>5. (root \o u) \o w = root \o (u \o w)
      BY ONLY <2>b, ConcatTexts
    <2>6. u \o w \in Seq(Part)
      BY <2>4, ConcatProperties
    <2>7. q[i] = root \o (u \o w)
      BY <2>1, <2>2, <2>3, <2>5
    <2> QED
      BY <2>6, <2>7 DEF i, Longer
  <1>15. Nat \subseteq R
    <2> HIDE DEF R
    <2> QED
      BY <1>13, <1>14, NatSetInduction
  <1>16. n - 1 \in Nat /\ m + (n - 1) = (m + n) - 1
    BY <1>1
  <1>17. Longer((m + n) - 1)
    BY <1>15, <1>16
  <1> QED
    BY <1>2, <1>3, <1>11, <1>17 DEF Longer, root, c, GoesOn

\* A relative path that does not start above its base passes the comparison
\* of prefixes that Validate makes, if the cleaned base has an element: then
\* the text of the joined path is that of the base, a separator and more.
THEOREM ContainedBelow ==
  ASSUME NEW base \in Paths, NEW path \in Paths, SafeRelative(path),
         Clean(base).parts # <<>>
  PROVE  Contained(base, path)
  <1> DEFINE B == Clean(base)
             J == Join(base, path)
             C == Clean(path).parts
  <1>1. /\ B \in Paths /\ B.abs = base.abs /\ C \in Seq(Part) /\ C # <<>>
        /\ B.parts \in Seq(Part) /\ B.parts # <<>>
    BY CleanIsRun, SafePath DEF Paths
  <1>2. J \in Paths /\ J.abs = base.abs /\ J.parts = B.parts \o C
    BY JoinIsBelow
  <1>3. Contained(base, path) <=>
          Text(J) = Text(B) \/ IsPrefix(Text(B) \o <<"/">>, Text(J))
    BY DEF Contained
  <1> HIDE DEF B, J, C
  <1> DEFINE b == B.parts
             c == J.parts
             slash == Slash(B)
  <1>4. c # <<>> /\ c \in Seq(Part) /\ c = b \o C
    BY <1>1, <1>2, ConcatProperties, EmptySeq, LenProperties
  <1>5. PICK r : TextRun(b, r) /\ Text(B) = slash \o r[Len(b) - 1]
    BY <1>1, TextIsRun
  <1>6. PICK q : TextRun(c, q) /\ Text(J) = Slash(J) \o q[Len(c) - 1]
    BY <1>2, <1>4, TextIsRun
  <1>7. Slash(J) = slash
    BY <1>1, <1>2 DEF Slash
  <1>8. slash \in Seq(Part) /\ <<"/">> \in Seq(Part)
    <2>1. "/" \in Part
      BY DEF Part
    <2>2. <<"/">> \in Seq(Part) /\ <<>> \in Seq(Part)
      BY <2>1
    <2> QED
      BY <2>2 DEF Slash
  <1>9. b \in Seq(Part) /\ b # <<>> /\ C \in Seq(Part) /\ C # <<>>
    BY <1>1
  <1> HIDE DEF b, c, slash
  <1> DEFINE x == r[Len(b) - 1]
  <1>10. x \in Seq(Part) /\ GoesOn(x, q[Len(c) - 1])
    <2>1. TextRun(b \o C, q)
      BY <1>4, <1>6
    <2>2. r[Len(b) - 1] \in Seq(Part) /\ GoesOn(r[Len(b) - 1], q[Len(b \o C) - 1])
      BY <1>5, <1>9, <2>1, TextOfConcat
    <2> QED
      BY <1>4, <2>2
  <1>11. PICK u \in Seq(Part) : q[Len(c) - 1] = (x \o <<"/">>) \o u
    BY <1>10 DEF GoesOn
  <1>12. Text(B) = slash \o x
    BY <1>5
  <1> HIDE DEF x
  <1> DEFINE root == Text(B) \o <<"/">>
             xs == x \o <<"/">>
  <1>13. root = slash \o xs /\ xs \in Seq(Part) /\ root \in Seq(Part)
    <2>1. (slash \o x) \o <<"/">> = slash \o (x \o <<"/">>)
      BY <1>8, <1>10, ConcatAssociative
    <2>2. xs \in Seq(Part)
      BY <1>8, <1>10, ConcatProperties
    <2>3. root = slash \o xs
      BY <1>12, <2>1
    <2> HIDE DEF xs, root
    <2>4. slash \o xs \in Seq(Part)
      BY <1>8, <2>2, ConcatProperties
    <2> QED
      BY <2>2, <2>3, <2>4
  <1>14. Text(J) = slash \o (xs \o u)
    BY <1>6, <1>7, <1>11
  <1> HIDE DEF root, xs
  <1>15. Text(J) = root \o u
    <2>1. (slash \o xs) \o u = slash \o (xs \o u)
      BY <1>8, <1>13, ConcatAssociative
    <2> QED
      BY <1>13, <1>14, <2>1
  <1>16. IsPrefix(root, Text(J))
    <2> DEFINE t == root \o u
    <2>1. Len(root) \in Nat /\ Len(u) \in Nat
      BY <1>13, LenProperties
    <2>2. /\ t \in Seq(Part) /\ Len(t) = Len(root) + Len(u)
          /\ \A i \in 1..Len(root) + Len(u) :
               t[i] = IF i <= Len(root) THEN root[i] ELSE u[i - Len(root)]
      BY <1>13, <2>1, ConcatProperties
    <2>3. Len(root) <= Len(t)
      BY <2>1, <2>2
    <2>4. SubSeq(root, 1, Len(root)) = SubSeq(t, 1, Len(root))
      <3> HIDE DEF t
      <3>1. \A i \in 1..Len(root) : t[i] = root[i]
        BY <2>1, <2>2
      <3> QED
        BY <2>1, <2>2, <2>3, <3>1, <1>13
    <2> QED
      BY <1>15, <2>3, <2>4 DEF IsPrefix
  <1> QED
    BY <1>3, <1>16 DEF root

\* The text of a relative path begins with its first element.
LEMMA TextBegins ==
  ASSUME NEW path \in Paths, path.parts # <<>>, ~path.abs
  PROVE  Text(path) \in Seq(Part) /\ Len(Text(path)) > 0 /\ Text(path)[1] = path.parts[1]
  <1> DEFINE s == path.parts
             n == Len(s) - 1
             Begins(t) == t \in Seq(Part) /\ Len(t) > 0 /\ t[1] = s[1]
  <1>1. PICK r : TextRun(s, r) /\ Text(path) = Slash(path) \o r[n]
    BY TextIsRun
  <1>2. s \in Seq(Part) /\ s # <<>> /\ n \in Nat /\ s[1] \in Part
    <2>1. s \in Seq(Part) /\ Len(s) \in Nat /\ Len(s) > 0
      BY LenProperties, EmptySeq DEF Paths
    <2> QED
      BY <2>1, ElementOfSeq
  <1>3. /\ r \in [0..n -> Seq(Part)] /\ r[0] = <<s[1]>>
        /\ \A k \in 1..n : s[k + 1] \in Part /\ r[k] = r[k - 1] \o <<"/", s[k + 1]>>
    BY <1>1, <1>2, TextSteps
  <1>4. "/" \in Part
    BY DEF Part
  <1> HIDE DEF s, n
  <1> DEFINE T == {k \in Nat : k <= n => Begins(r[k])}
  <1>5. 0 \in T
    <2>1. Begins(<<s[1]>>)
      BY <1>2
    <2> HIDE DEF Begins
    <2> QED
      BY <1>3, <2>1
  <1>6. ASSUME NEW k \in Nat, k \in T PROVE k + 1 \in T
    <2> SUFFICES ASSUME k + 1 <= n PROVE Begins(r[k + 1])
      OBVIOUS
    <2> DEFINE i == k + 1
               t == r[k]
    <2>1. i \in 1..n /\ i - 1 = k
      BY <1>2
    <2>2. Begins(t)
      BY <1>2, <1>6
    <2> HIDE DEF i
    <2> DEFINE w == <<"/", s[i + 1]>>
    <2>3. s[i + 1] \in Part /\ r[i] = t \o w
      BY <1>3, <2>1
    <2>4. w \in Seq(Part)
      BY <1>4, <2>3
    <2> HIDE DEF w, t
    <2>5. /\ t \o w \in Seq(Part) /\ Len(t \o w) = Len(t) + Len(w)
          /\ \A j \in 1..Len(t) + Len(w) :
               (t \o w)[j] = IF j <= Len(t) THEN t[j] ELSE w[j - Len(t)]
      BY <2>2, <2>4, ConcatProperties
    <2>6. Len(t) \in Nat /\ Len(w) \in Nat /\ 1 \in 1..Len(t) + Len(w) /\ 1 <= Len(t)
      BY <2>2, <2>4, LenProperties
    <2>7. Begins(t \o w)
      BY <2>2, <2>5, <2>6
    <2> HIDE DEF Begins
    <2> QED
      BY <2>3, <2>7 DEF i
  <1>7. Nat \subseteq T
    <2> HIDE DEF T
    <2> QED
      BY <1>5, <1>6, NatSetInduction
  <1>8. Begins(r[n])
    BY <1>2, <1>7
  <1>9. Text(path) = r[n]
    <2>1. Slash(path) = <<>>
      BY DEF Slash
    <2> QED
      BY <1>1, <1>8, <2>1, ConcatEmptySeq
  <1> QED
    BY <1>8, <1>9 DEF s

\* In the current directory the comparison of prefixes rejects every such
\* path: its text starts with a name, and what it is compared with is ".".
THEOREM NothingIsContainedHere ==
  ASSUME NEW base \in Paths, NEW path \in Paths, SafeRelative(path),
         ~base.abs, Clean(base).parts = <<>>
  PROVE  ~Contained(base, path)
  <1> DEFINE B == Clean(base)
             J == Join(base, path)
             s == Clean(path).parts
  <1>1. s \in Seq(Part) /\ s # <<>> /\ B.parts = <<>> /\ ~B.abs
    BY CleanIsRun, SafePath DEF Paths
  <1>2. J \in Paths /\ ~J.abs /\ J.parts = B.parts \o s /\ Tidied(base.abs, J.parts)
    <2>1. /\ J \in Paths /\ J.abs = base.abs /\ J.parts = B.parts \o s
          /\ Tidied(base.abs, J.parts)
      BY JoinIsBelow
    <2>2. base.abs = FALSE
      BY DEF Paths
    <2> QED
      BY <2>1, <2>2
  <1>3. Contained(base, path) <=>
          Text(J) = Text(B) \/ IsPrefix(Text(B) \o <<"/">>, Text(J))
    BY DEF Contained
  <1>4. Text(B) = <<".">>
    BY <1>1 DEF Text
  <1> HIDE DEF B, J, s
  <1>5. J.parts = s
    BY <1>1, <1>2, ConcatEmptySeq
  <1> DEFINE t == Text(J)
  <1>6. t \in Seq(Part) /\ Len(t) > 0 /\ t[1] = s[1]
    BY <1>1, <1>2, <1>5, TextBegins
  <1>7. s[1] # "."
    <2>1. 1 \in 1..Len(s)
      BY <1>1, LenProperties, EmptySeq
    <2> QED
      BY <1>2, <1>5, <2>1 DEF Tidied
  <1> HIDE DEF t
  <1>8. t # <<".">>
    BY <1>6, <1>7
  <1>9. ~IsPrefix(<<".">> \o <<"/">>, t)
    <2> SUFFICES ASSUME IsPrefix(<<".">> \o <<"/">>, t) PROVE FALSE
      OBVIOUS
    <2> DEFINE D == {".", "/"}
               x == <<".">>
               y == <<"/">>
               p == x \o y
    <2>1. x \in Seq(D) /\ y \in Seq(D) /\ Len(x) = 1 /\ Len(y) = 1 /\ x[1] = "."
      OBVIOUS
    <2> HIDE DEF D, x, y
    <2>2. Len(p) = 2 /\ p[1] = "." /\ p \in Seq(D)
      <3>1. /\ p \in Seq(D) /\ Len(p) = Len(x) + Len(y)
            /\ \A i \in 1..Len(x) + Len(y) : p[i] = IF i <= Len(x) THEN x[i] ELSE y[i - Len(x)]
        BY <2>1, ConcatProperties
      <3> QED
        BY <2>1, <3>1
    <2>a. IsPrefix(p, t)
      BY DEF x, y
    <2> HIDE DEF p
    <2>3. 2 <= Len(t) /\ SubSeq(p, 1, 2) = SubSeq(t, 1, 2)
      BY <2>a, <2>2 DEF IsPrefix
    <2>4. Len(t) \in Nat
      BY <1>6, LenProperties
    <2>5. SubSeq(p, 1, 2)[1] = p[1]
      BY <2>2
    <2>6. SubSeq(t, 1, 2)[1] = t[1]
      BY <1>6, <2>3, <2>4
    <2> QED
      BY <1>6, <1>7, <2>2, <2>3, <2>5, <2>6
  <1> QED
    BY <1>3, <1>4, <1>8, <1>9 DEF t
-----------------------------------------------------------------------------
(* Flattened sequences                                                     *)

\* g holds what the first pieces of u flatten to.
FlatRun(S, u, g) ==
    /\ g \in [1..Len(u) -> Seq(S)] /\ g[1] = u[1]
    /\ \A k \in 2..Len(u) : g[k] = g[k - 1] \o u[k]

\* The equation by which FlattenSeq defines its recursive function.
FlatStep(u, g) == [k \in 1..Len(u) |-> IF k = 1 THEN u[k] ELSE g[k - 1] \o u[k]]

Glue(S) == [xy \in Seq(S) \X Seq(S) |-> xy[1] \o xy[2]]

LEMMA GlueFolds ==
  ASSUME NEW S, NEW u \in Seq(Seq(S))
  PROVE  /\ Folder(Len(u), Seq(S), Seq(S), Glue(S), <<>>, u)
         /\ \A x, y \in Seq(S) : x \o y \in Seq(S) /\ Glue(S)[<<x, y>>] = x \o y
  <1>1. \A x, y \in Seq(S) : x \o y \in Seq(S)
    BY ConcatProperties
  <1>2. Glue(S) \in [Seq(S) \X Seq(S) -> Seq(S)]
    BY <1>1 DEF Glue
  <1>3. \A x, y \in Seq(S) : Glue(S)[<<x, y>>] = x \o y
    BY DEF Glue
  <1>4. Len(u) \in Nat /\ u \in [1..Len(u) -> Seq(S)]
    BY LenProperties
  <1>5. <<>> \in Seq(S)
    OBVIOUS
  <1> QED
    BY <1>1, <1>2, <1>3, <1>4, <1>5 DEF Folder

LEMMA FlattenIsRun ==
  ASSUME NEW S, NEW u \in Seq(Seq(S)), u # <<>>
  PROVE  \E g : FlatRun(S, u, g) /\ FlattenSeq(u) = g[Len(u)]
  <1> DEFINE n == Len(u)
  <1>1. n \in Nat /\ n > 0 /\ \A k \in 1..n : u[k] \in Seq(S)
    BY LenProperties, EmptySeq, ElementOfSeq
  <1>2. PICK q : FoldRun(n, Seq(S), Glue(S), <<>>, u, q)
    BY GlueFolds, RunExists
  <1>2a. \A x, y \in Seq(S) : Glue(S)[<<x, y>>] = x \o y
    BY GlueFolds
  <1>2b. /\ q \in [0..n -> Seq(S)] /\ q[0] = <<>>
        /\ \A k \in 1..n : q[k] = Glue(S)[<<q[k - 1], u[k]>>]
    BY <1>2 DEF FoldRun
  <1> HIDE DEF n
  <1> DEFINE h == [k \in 1..n |-> q[k]]
  <1>3. h = FlatStep(u, h)
    <2>1. ASSUME NEW k \in 1..n
          PROVE  q[k] = IF k = 1 THEN u[k] ELSE q[k - 1] \o u[k]
      <3>1. k - 1 \in 0..n /\ q[k - 1] \in Seq(S) /\ q[0] = <<>> /\ u[k] \in Seq(S)
        <4>1. k - 1 \in 0..n
          BY <1>1
        <4> QED
          BY <1>1, <1>2b, <4>1
      <3>2. q[k] = Glue(S)[<<q[k - 1], u[k]>>]
        BY <1>2b
      <3>3. q[k] = q[k - 1] \o u[k]
        BY <1>2a, <3>1, <3>2
      <3>4. CASE k = 1
        <4>1. k - 1 = 0
          BY <3>4
        <4>2. q[k] = <<>> \o u[k]
          BY <3>1, <3>3, <4>1
        <4> QED
          BY <3>1, <3>4, <4>2, ConcatEmptySeq
      <3> QED
        BY <3>3, <3>4
    <2>2. ASSUME NEW k \in 1..n PROVE h[k] = IF k = 1 THEN u[k] ELSE h[k - 1] \o u[k]
      <3>1. k # 1 => k - 1 \in 1..n
        BY <1>1
      <3> QED
        BY <2>1, <3>1
    <2> QED
      BY <2>2 DEF FlatStep, n
  <1> HIDE DEF h
  <1> DEFINE g == CHOOSE f : f = FlatStep(u, f)
  <1>4. g = FlatStep(u, g)
    BY <1>3
  <1>5. FlattenSeq(u) = g[n]
    BY <1>1 DEF FlattenSeq, FlatStep, n
  <1> HIDE DEF g
  <1>6. /\ DOMAIN g = 1..n /\ g[1] = u[1]
        /\ \A k \in 2..n : g[k] = g[k - 1] \o u[k]
        /\ g = [k \in 1..n |-> g[k]]
    <2>1. g = [k \in 1..n |-> IF k = 1 THEN u[k] ELSE g[k - 1] \o u[k]]
      BY <1>4 DEF FlatStep, n
    <2>2. /\ DOMAIN g = 1..n
          /\ \A k \in 1..n : g[k] = IF k = 1 THEN u[k] ELSE g[k - 1] \o u[k]
      BY <2>1
    <2>3. 1 \in 1..n /\ \A k \in 2..n : k \in 1..n /\ k # 1
      BY <1>1
    <2>4. g[1] = u[1] /\ \A k \in 2..n : g[k] = g[k - 1] \o u[k]
      BY <2>2, <2>3
    <2>5. g = [k \in 1..n |-> g[k]]
      BY <2>1, <2>2
    <2> QED
      BY <2>2, <2>4, <2>5
  <1> DEFINE T == {k \in Nat : k + 1 <= n => g[k + 1] \in Seq(S)}
  <1>7. 0 \in T
    BY <1>1, <1>6
  <1>8. ASSUME NEW k \in Nat, k \in T PROVE k + 1 \in T
    <2> SUFFICES ASSUME (k + 1) + 1 <= n PROVE g[(k + 1) + 1] \in Seq(S)
      OBVIOUS
    <2> DEFINE j == (k + 1) + 1
    <2>1. j \in 2..n /\ j - 1 = k + 1 /\ g[k + 1] \in Seq(S) /\ u[j] \in Seq(S)
      BY <1>1, <1>8
    <2> HIDE DEF j
    <2>2. g[j] = g[j - 1] \o u[j]
      BY <1>6, <2>1
    <2>3. g[j] \in Seq(S)
      BY <2>1, <2>2, ConcatProperties
    <2> QED
      BY <2>3 DEF j
  <1>9. Nat \subseteq T
    <2> HIDE DEF T
    <2> QED
      BY <1>7, <1>8, NatSetInduction
  <1>10. ASSUME NEW k \in 1..n PROVE g[k] \in Seq(S)
    <2>1. k - 1 \in Nat /\ (k - 1) + 1 = k
      BY <1>1
    <2>2. PICK m \in Nat : m + 1 = k
      BY <2>1, Zenon
    <2>3. m \in T
      BY <1>9
    <2> QED
      BY <1>1, <2>2, <2>3
  <1>11. FlatRun(S, u, g)
    BY <1>6, <1>10 DEF FlatRun, n
  <1> QED
    BY <1>5, <1>11 DEF n

LEMMA FlattenOne ==
  ASSUME NEW S, NEW x \in Seq(S)
  PROVE  FlattenSeq(<<x>>) = x
  <1>1. <<x>> \in Seq(Seq(S)) /\ <<x>> # <<>> /\ Len(<<x>>) = 1 /\ <<x>>[1] = x
    OBVIOUS
  <1>2. PICK g : FlatRun(S, <<x>>, g) /\ FlattenSeq(<<x>>) = g[Len(<<x>>)]
    BY <1>1, FlattenIsRun
  <1> QED
    BY <1>1, <1>2 DEF FlatRun

\* One piece more is added to the end.
LEMMA FlattenAppend ==
  ASSUME NEW S, NEW u \in Seq(Seq(S)), u # <<>>, NEW x \in Seq(S)
  PROVE  /\ FlattenSeq(u) \in Seq(S)
         /\ FlattenSeq(Append(u, x)) = FlattenSeq(u) \o x
  <1> DEFINE v == Append(u, x)
             n == Len(u)
  <1>1. /\ v \in Seq(Seq(S)) /\ v # <<>> /\ Len(v) = n + 1
        /\ \A k \in 1..n : v[k] = u[k]
        /\ v[n + 1] = x
        /\ n \in Nat /\ n > 0
    BY AppendProperties, LenProperties, EmptySeq
  <1> HIDE DEF v
  <1>2. PICK g : FlatRun(S, u, g) /\ FlattenSeq(u) = g[n]
    BY FlattenIsRun
  <1>3. PICK h : FlatRun(S, v, h) /\ FlattenSeq(v) = h[Len(v)]
    BY <1>1, FlattenIsRun
  <1> DEFINE T == {k \in Nat : k + 1 <= n => g[k + 1] = h[k + 1]}
  <1>4. 0 \in T
    BY <1>1, <1>2, <1>3 DEF FlatRun
  <1>5. ASSUME NEW k \in Nat, k \in T PROVE k + 1 \in T
    <2> SUFFICES ASSUME (k + 1) + 1 <= n PROVE g[(k + 1) + 1] = h[(k + 1) + 1]
      OBVIOUS
    <2> DEFINE j == (k + 1) + 1
    <2>1. j \in 2..n /\ j \in 2..Len(v) /\ j - 1 = k + 1 /\ g[k + 1] = h[k + 1] /\ u[j] = v[j]
      BY <1>1, <1>5
    <2> HIDE DEF j
    <2>2. g[j] = g[j - 1] \o u[j] /\ h[j] = h[j - 1] \o v[j]
      BY <1>2, <1>3, <2>1 DEF FlatRun
    <2>3. g[j] = h[j]
      BY <2>1, <2>2
    <2> QED
      BY <2>3 DEF j
  <1>6. Nat \subseteq T
    <2> HIDE DEF T
    <2> QED
      BY <1>4, <1>5, NatSetInduction
  <1>7. g[n] = h[n]
    <2>0. n - 1 \in Nat /\ (n - 1) + 1 = n
      BY <1>1
    <2>1. PICK m \in Nat : m + 1 = n
      BY <2>0, Zenon
    <2>2. m \in T
      BY <1>6
    <2> QED
      BY <1>1, <2>1, <2>2
  <1>8. h[n + 1] = h[n] \o x
    <2>1. n + 1 \in 2..Len(v) /\ (n + 1) - 1 = n
      BY <1>1
    <2> QED
      BY <1>1, <1>3, <2>1 DEF FlatRun
  <1> QED
    BY <1>1, <1>2, <1>3, <1>7, <1>8 DEF FlatRun, v

LEMMA ConcatRange ==
  ASSUME NEW S, NEW x \in Seq(S), NEW y \in Seq(S)
  PROVE  ToSet(x \o y) = ToSet(x) \cup ToSet(y)
  <1> DEFINE z == x \o y
  <1>1. /\ z \in Seq(S) /\ Len(z) = Len(x) + Len(y)
        /\ \A i \in 1..Len(x) + Len(y) : z[i] = IF i <= Len(x) THEN x[i] ELSE y[i - Len(x)]
    BY ConcatProperties
  <1>2. Len(x) \in Nat /\ Len(y) \in Nat /\ DOMAIN x = 1..Len(x) /\ DOMAIN y = 1..Len(y)
    BY LenProperties
  <1> HIDE DEF z
  <1>3. DOMAIN z = 1..Len(x) + Len(y)
    BY <1>1, LenProperties
  <1>4. ASSUME NEW e
        PROVE  (\E i \in 1..Len(x) + Len(y) : z[i] = e) <=>
                  (\E i \in 1..Len(x) : x[i] = e) \/ (\E i \in 1..Len(y) : y[i] = e)
    <2>1. ASSUME NEW i \in 1..Len(x) + Len(y), z[i] = e
          PROVE  (\E k \in 1..Len(x) : x[k] = e) \/ (\E k \in 1..Len(y) : y[k] = e)
      <3>1. CASE i <= Len(x)
        BY <1>1, <1>2, <2>1, <3>1
      <3>2. CASE ~(i <= Len(x))
        <4>1. i - Len(x) \in 1..Len(y)
          BY <1>2, <3>2
        <4> QED
          BY <1>1, <2>1, <3>2, <4>1
      <3> QED
        BY <3>1, <3>2
    <2>2. ASSUME NEW i \in 1..Len(x), x[i] = e PROVE \E k \in 1..Len(x) + Len(y) : z[k] = e
      <3>1. i \in 1..Len(x) + Len(y) /\ i <= Len(x)
        BY <1>2
      <3> QED
        BY <1>1, <2>2, <3>1
    <2>3. ASSUME NEW i \in 1..Len(y), y[i] = e PROVE \E k \in 1..Len(x) + Len(y) : z[k] = e
      <3> DEFINE j == i + Len(x)
      <3>1. j \in 1..Len(x) + Len(y) /\ ~(j <= Len(x)) /\ j - Len(x) = i
        BY <1>2
      <3> HIDE DEF j
      <3> QED
        BY <1>1, <2>3, <3>1
    <2> QED
      BY <2>1, <2>2, <2>3
  <1> QED
    BY <1>2, <1>3, <1>4 DEF ToSet, z

\* What is in the flattened sequence is in one of the pieces.
LEMMA FlattenRange ==
  ASSUME NEW S, NEW u \in Seq(Seq(S)), u # <<>>
  PROVE  /\ FlattenSeq(u) \in Seq(S)
         /\ \A e : e \in ToSet(FlattenSeq(u)) <=> \E i \in 1..Len(u) : e \in ToSet(u[i])
  <1> DEFINE n == Len(u)
  <1>1. n \in Nat /\ n > 0 /\ \A k \in 1..n : u[k] \in Seq(S)
    BY LenProperties, EmptySeq, ElementOfSeq
  <1>2. PICK g : FlatRun(S, u, g) /\ FlattenSeq(u) = g[n]
    BY FlattenIsRun
  <1> DEFINE P(k) == \A e : e \in ToSet(g[k]) <=> \E i \in 1..k : e \in ToSet(u[i])
             T == {k \in Nat : k + 1 <= n => P(k + 1)}
  <1>3. P(1)
    BY <1>2 DEF FlatRun
  <1>4. ASSUME NEW j \in 2..n, P(j - 1) PROVE P(j)
    <2>0. j - 1 \in 1..n /\ j \in 1..n /\ g \in [1..n -> Seq(S)]
      BY <1>1, <1>2 DEF FlatRun
    <2>1. j - 1 \in 1..n /\ g[j - 1] \in Seq(S) /\ u[j] \in Seq(S)
      BY <1>1, <2>0
    <2>2. g[j] = g[j - 1] \o u[j]
      BY <1>2 DEF FlatRun
    <2>3. ToSet(g[j]) = ToSet(g[j - 1]) \cup ToSet(u[j])
      BY <2>1, <2>2, ConcatRange
    <2>4. \A e : (\E i \in 1..j : e \in ToSet(u[i])) <=>
                   (\E i \in 1..j - 1 : e \in ToSet(u[i])) \/ e \in ToSet(u[j])
      <3>1. \A i : i \in 1..j <=> i \in 1..j - 1 \/ i = j
        OBVIOUS
      <3> QED
        BY <3>1
    <2> QED
      BY <1>4, <2>3, <2>4
  <1> HIDE DEF P
  <1>5. 0 \in T
    BY <1>3
  <1>6. ASSUME NEW k \in Nat, k \in T PROVE k + 1 \in T
    <2> SUFFICES ASSUME (k + 1) + 1 <= n PROVE P((k + 1) + 1)
      OBVIOUS
    <2> DEFINE j == (k + 1) + 1
    <2>1. j \in 2..n /\ j - 1 = k + 1 /\ P(k + 1)
      BY <1>1, <1>6
    <2> HIDE DEF j
    <2>2. P(j - 1)
      BY <2>1
    <2>3. P(j)
      BY <1>4, <2>1, <2>2
    <2> QED
      BY <2>3 DEF j
  <1>7. Nat \subseteq T
    <2> HIDE DEF T
    <2> QED
      BY <1>5, <1>6, NatSetInduction
  <1>8. P(n)
    <2>0. n - 1 \in Nat /\ (n - 1) + 1 = n
      BY <1>1
    <2>1. PICK m \in Nat : m + 1 = n
      BY <2>0, Zenon
    <2>2. m \in T
      BY <1>7
    <2> QED
      BY <1>1, <2>1, <2>2
  <1>9. g[n] \in Seq(S)
    <2>1. g \in [1..n -> Seq(S)] /\ n \in 1..n
      BY <1>1, <1>2 DEF FlatRun
    <2> QED
      BY <2>1
  <1> QED
    BY <1>2, <1>8, <1>9 DEF P

\* What is before and after a separator c.
Around(x, c, w) == x \o (<<c>> \o w)

\* z is made of x, the separator and w, element by element.
MadeOf(z, x, c, w) ==
    /\ Len(x) \in Nat /\ Len(w) \in Nat /\ Len(z) = Len(x) + Len(w) + 1
    /\ \A i \in 1..Len(x) : z[i] = x[i]
    /\ \A i \in Nat : i = Len(x) + 1 => z[i] = c
    /\ \A i \in 1..Len(w) : \A j \in Nat : j = i + (Len(x) + 1) => z[j] = w[i]

LEMMA AroundParts ==
  ASSUME NEW S, NEW x \in Seq(S), NEW c \in S, NEW w \in Seq(S)
  PROVE  Around(x, c, w) \in Seq(S) /\ MadeOf(Around(x, c, w), x, c, w)
  <1> DEFINE v == <<c>> \o w
             z == x \o v
             m == Len(x)
             n == Len(w)
  <1>1. m \in Nat /\ n \in Nat
    BY LenProperties
  <1>2. /\ v \in Seq(S) /\ Len(v) = 1 + n
        /\ \A i \in 1..1 + n : v[i] = IF i <= 1 THEN c ELSE w[i - 1]
    <2>1. <<c>> \in Seq(S) /\ Len(<<c>>) = 1 /\ <<c>>[1] = c
      OBVIOUS
    <2>2. /\ v \in Seq(S) /\ Len(v) = Len(<<c>>) + n
          /\ \A i \in 1..Len(<<c>>) + n :
               v[i] = IF i <= Len(<<c>>) THEN <<c>>[i] ELSE w[i - Len(<<c>>)]
      BY <2>1, ConcatProperties
    <2> HIDE DEF v
    <2>3. \A i \in 1..1 + n : i <= 1 => i = 1
      OBVIOUS
    <2> QED
      BY <2>1, <2>2, <2>3
  <1> HIDE DEF v
  <1>3. /\ z \in Seq(S) /\ Len(z) = m + (1 + n)
        /\ \A i \in 1..m + (1 + n) : z[i] = IF i <= m THEN x[i] ELSE v[i - m]
    <2>1. /\ z \in Seq(S) /\ Len(z) = m + Len(v)
          /\ \A i \in 1..m + Len(v) : z[i] = IF i <= m THEN x[i] ELSE v[i - m]
      BY <1>2, ConcatProperties
    <2> QED
      BY <1>2, <2>1
  <1> HIDE DEF z, m, n
  <1>4. \A i \in 1..m : z[i] = x[i]
    <2>1. \A i \in 1..m : i \in 1..m + (1 + n) /\ i <= m
      BY <1>1
    <2> QED
      BY <1>3, <2>1
  <1>5. ASSUME NEW i \in Nat, i = m + 1 PROVE z[i] = c
    <2>1. i \in 1..m + (1 + n) /\ ~(i <= m) /\ i - m = 1 /\ 1 \in 1..1 + n /\ 1 <= 1
      BY <1>1, <1>5
    <2>2. z[i] = v[i - m] /\ v[1] = c
      BY <1>2, <1>3, <2>1
    <2> QED
      BY <2>1, <2>2
  <1>6. ASSUME NEW i \in 1..n, NEW j \in Nat, j = i + (m + 1) PROVE z[j] = w[i]
    <2> DEFINE k == i + 1
    <2>1. /\ j \in 1..m + (1 + n) /\ ~(j <= m) /\ j - m = k
          /\ k \in 1..1 + n /\ ~(k <= 1) /\ k - 1 = i
      BY <1>1, <1>6
    <2> HIDE DEF k
    <2>2. z[j] = v[j - m] /\ v[k] = w[k - 1]
      BY <1>2, <1>3, <2>1
    <2> QED
      BY <2>1, <2>2
  <1>7. Around(x, c, w) = z
    BY DEF Around, z, v
  <1>8. Len(z) = m + n + 1
    BY <1>1, <1>3
  <1> QED
    BY <1>1, <1>3, <1>4, <1>5, <1>6, <1>7, <1>8 DEF m, n, MadeOf

\* Two sequences with separators of equal length before them are equal in parts.
LEMMA AroundEqual ==
  ASSUME NEW S, NEW c \in S,
         NEW x \in Seq(S), NEW y \in Seq(S), NEW w \in Seq(S), NEW v \in Seq(S),
         Around(x, c, w) = Around(y, c, v), Len(x) = Len(y)
  PROVE  x = y /\ w = v
  <1> DEFINE z == Around(x, c, w)
             t == Around(y, c, v)
  <1>0. MadeOf(z, x, c, w) /\ MadeOf(t, y, c, v) /\ z = t
    BY AroundParts
  <1> HIDE DEF z, t
  <1>1. /\ Len(x) \in Nat /\ Len(w) \in Nat /\ Len(z) = Len(x) + Len(w) + 1
        /\ \A i \in 1..Len(x) : z[i] = x[i]
        /\ \A i \in 1..Len(w) : \A j \in Nat : j = i + (Len(x) + 1) => z[j] = w[i]
    BY <1>0 DEF MadeOf
  <1>2. /\ Len(y) \in Nat /\ Len(v) \in Nat /\ Len(t) = Len(y) + Len(v) + 1
        /\ \A i \in 1..Len(y) : t[i] = y[i]
        /\ \A i \in 1..Len(v) : \A j \in Nat : j = i + (Len(y) + 1) => t[j] = v[i]
    BY <1>0 DEF MadeOf
  <1>3. z = t
    BY <1>0
  <1>4. Len(w) = Len(v)
    BY <1>1, <1>2, <1>3
  <1>5. \A i \in 1..Len(x) : x[i] = y[i]
    BY <1>1, <1>2, <1>3
  <1>6. ASSUME NEW i \in 1..Len(w) PROVE w[i] = v[i]
    <2> DEFINE j == i + (Len(x) + 1)
    <2>1. j \in Nat /\ j = i + (Len(x) + 1) /\ j = i + (Len(y) + 1) /\ i \in 1..Len(v)
      BY <1>1, <1>4
    <2> HIDE DEF j
    <2> QED
      BY <1>1, <1>2, <1>3, <2>1
  <1>7. x = y
    BY <1>5, SeqEqual
  <1>8. w = v
    BY <1>4, <1>6, SeqEqual
  <1> QED
    BY <1>7, <1>8

\* The first separator is found where nothing before it is one.
LEMMA SplitFirst ==
  ASSUME NEW S, NEW c \in S,
         NEW x \in Seq(S), NEW y \in Seq(S), NEW w \in Seq(S), NEW v \in Seq(S),
         Around(x, c, w) = Around(y, c, v), c \notin ToSet(x), c \notin ToSet(y)
  PROVE  x = y /\ w = v
  <1>1. ASSUME NEW p \in Seq(S), NEW q \in Seq(S), NEW f \in Seq(S), NEW g \in Seq(S),
               Around(p, c, f) = Around(q, c, g), c \notin ToSet(q)
        PROVE  ~(Len(p) < Len(q))
    <2> SUFFICES ASSUME Len(p) < Len(q) PROVE FALSE
      OBVIOUS
    <2> DEFINE z == Around(p, c, f)
               i == Len(p) + 1
    <2>1. /\ Len(p) \in Nat /\ Len(q) \in Nat /\ DOMAIN q = 1..Len(q)
      BY LenProperties
    <2>2. i \in Nat /\ i = Len(p) + 1 /\ i \in 1..Len(q)
      BY <2>1
    <2>5. MadeOf(z, p, c, f) /\ MadeOf(z, q, c, g)
      BY <1>1, AroundParts
    <2> HIDE DEF z
    <2>3. \A j \in Nat : j = Len(p) + 1 => z[j] = c
      BY <2>5 DEF MadeOf
    <2>4. \A j \in 1..Len(q) : z[j] = q[j]
      BY <2>5 DEF MadeOf
    <2> HIDE DEF i
    <2>6. q[i] = c
      BY <2>2, <2>3, <2>4
    <2> QED
      BY <1>1, <2>1, <2>2, <2>6 DEF ToSet
  <1>2. ~(Len(x) < Len(y)) /\ ~(Len(y) < Len(x))
    BY <1>1
  <1>3. Len(x) = Len(y)
    BY <1>2, LenProperties
  <1> QED
    BY <1>3, AroundEqual

\* The last separator is found where nothing after it is one.
LEMMA SplitLast ==
  ASSUME NEW S, NEW c \in S,
         NEW x \in Seq(S), NEW y \in Seq(S), NEW w \in Seq(S), NEW v \in Seq(S),
         Around(x, c, w) = Around(y, c, v), c \notin ToSet(w), c \notin ToSet(v)
  PROVE  x = y /\ w = v
  <1>1. ASSUME NEW p \in Seq(S), NEW q \in Seq(S), NEW f \in Seq(S), NEW g \in Seq(S),
               Around(p, c, f) = Around(q, c, g), c \notin ToSet(g)
        PROVE  ~(Len(q) < Len(p))
    <2> SUFFICES ASSUME Len(q) < Len(p) PROVE FALSE
      OBVIOUS
    <2> DEFINE z == Around(p, c, f)
               j == Len(p) + 1
               i == Len(p) - Len(q)
    <2>3. MadeOf(z, p, c, f) /\ MadeOf(z, q, c, g)
      BY <1>1, AroundParts
    <2> HIDE DEF z
    <2>1. /\ Len(p) \in Nat /\ Len(f) \in Nat /\ Len(z) = Len(p) + Len(f) + 1
          /\ \A k \in Nat : k = Len(p) + 1 => z[k] = c
      BY <2>3 DEF MadeOf
    <2>2. /\ Len(q) \in Nat /\ Len(g) \in Nat /\ Len(z) = Len(q) + Len(g) + 1
          /\ \A k \in 1..Len(g) : \A l \in Nat : l = k + (Len(q) + 1) => z[l] = g[k]
      BY <2>3 DEF MadeOf
    <2>4. DOMAIN g = 1..Len(g)
      BY LenProperties
    <2>5. i \in 1..Len(g) /\ j \in Nat /\ j = i + (Len(q) + 1) /\ j = Len(p) + 1
      BY <2>1, <2>2
    <2> HIDE DEF i, j
    <2>6. g[i] = c
      BY <2>1, <2>2, <2>5
    <2> QED
      BY <1>1, <2>4, <2>5, <2>6 DEF ToSet
  <1>2. ~(Len(x) < Len(y)) /\ ~(Len(y) < Len(x))
    BY <1>1
  <1>3. Len(x) = Len(y)
    BY <1>2, LenProperties
  <1> QED
    BY <1>3, AroundEqual

LEMMA AroundRange ==
  ASSUME NEW S, NEW x \in Seq(S), NEW c \in S, NEW w \in Seq(S)
  PROVE  ToSet(Around(x, c, w)) = (ToSet(x) \cup {c}) \cup ToSet(w)
  <1> DEFINE s == <<c>>
             v == s \o w
  <1>1. s \in Seq(S) /\ ToSet(s) = {c}
    BY DEF ToSet
  <1> HIDE DEF s
  <1>2. v \in Seq(S) /\ ToSet(v) = ToSet(s) \cup ToSet(w)
    BY <1>1, ConcatProperties, ConcatRange
  <1> HIDE DEF v
  <1>3. ToSet(x \o v) = ToSet(x) \cup ToSet(v)
    BY <1>2, ConcatRange
  <1>4. Around(x, c, w) = x \o v
    BY DEF Around, v, s
  <1> QED
    BY <1>1, <1>2, <1>3, <1>4

\* Concatenation associates.
Associates(x, y, z) == (x \o y) \o z = x \o (y \o z)

LEMMA ConcatThree ==
  ASSUME NEW S, NEW x \in Seq(S), NEW y \in Seq(S), NEW z \in Seq(S)
  PROVE  Associates(x, y, z)
  <1>1. (x \o y) \o z = x \o (y \o z)
    BY ConcatAssociative
  <1> QED
    BY <1>1 DEF Associates

AllAssociate(x, y, z, w) == ((x \o y) \o z) \o w = x \o (y \o (z \o w))

LEMMA ConcatFour ==
  ASSUME NEW S, NEW x \in Seq(S), NEW y \in Seq(S), NEW z \in Seq(S), NEW w \in Seq(S)
  PROVE  AllAssociate(x, y, z, w)
  <1>1. x \o y \in Seq(S) /\ z \o w \in Seq(S)
    BY ConcatProperties
  <1>2. Associates(x, y, z \o w) /\ Associates(x \o y, z, w)
    BY <1>1, ConcatThree
  <1> QED
    BY ONLY <1>2 DEF Associates, AllAssociate
=============================================================================
