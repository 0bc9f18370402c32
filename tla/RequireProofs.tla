---------------------------- MODULE RequireProofs ----------------------------
(***************************************************************************)
(* Theorems about require: which files a chain of requires reads            *)
(* (RequireChain), for every directory, path and length of the chain; and   *)
(* what require hands out of a file (ModuleCache), for every set of modules *)
(* and every depth of nested requires.                                      *)
(***************************************************************************)
EXTENDS ModuleCache, RequireChain, SequenceLemmas, WellFoundedInduction

----------------------------------------------------------------------------
(* Induction, for the loops over the components of a path                  *)

\* A set of numbers that is not empty has a least one.
LEMMA LeastNumber ==
  ASSUME NEW T, T \subseteq Nat, T # {}
  PROVE  \E m \in T: \A n \in T: m <= n
  <1>. DEFINE R == OpToRel(<, Nat)
  <1>1. \A m, n \in Nat: <<n, m>> \in R <=> n < m
    BY DEF OpToRel
  <1>2. IsWellFoundedOn(R, Nat)
    BY NatLessThanWellFounded
  <1>. HIDE DEF R
  <1>3. PICK m \in T: \A n \in T: ~(<<n, m>> \in R)
    BY <1>2, WFMin
  <1>4. ASSUME NEW n \in T PROVE m <= n
    <2>1. n \in Nat /\ m \in Nat /\ ~(n < m)
      BY <1>1, <1>3
    <2> QED
      BY <2>1
  <1> QED
    BY <1>4

\* A set that holds 0, and with a number the next one, up to N.
LEMMA Induction ==
  ASSUME NEW N \in Nat, NEW S, 0 \in S, \A n \in 0..(N - 1): n \in S => n + 1 \in S
  PROVE  0..N \subseteq S
  <1>. DEFINE T == (0..N) \ S
  <1>1. ASSUME T # {} PROVE FALSE
    <2>1. T \subseteq Nat
      OBVIOUS
    <2>2. PICK m \in T: \A n \in T: m <= n
      BY <1>1, <2>1, LeastNumber
    <2>3. m \in 1..N /\ m - 1 \in 0..(N - 1) /\ (m - 1) + 1 = m /\ ~(m <= m - 1)
      BY <2>2
    <2>4. m - 1 \in S
      BY <2>2, <2>3
    <2> QED
      BY <2>2, <2>3, <2>4
  <1> QED
    BY <1>1

\* The loops do what the definitions say of each component.
LEMMA WalkSteps ==
  ASSUME NEW d, NEW comps \in Seq(Component)
  PROVE  /\ Walk(d, comps)[0] = d
         /\ \A n \in 1..Len(comps): Walk(d, comps)[n] = Enter(Walk(d, comps)[n - 1], comps[n])
  <1>. DEFINE N == Len(comps)
              Upto(m, f) == f = [n \in 0..m |-> IF n = 0 THEN d ELSE Enter(f[n - 1], comps[n])]
              S == {m \in Nat: \E f: Upto(m, f)}
  <1>0. N \in Nat
    BY LenProperties
  <1>1. 0 \in S
    <2>1. Upto(0, [n \in 0..0 |-> d])
      OBVIOUS
    <2> QED
      BY <2>1
  <1>2. ASSUME NEW m \in 0..(N - 1), m \in S PROVE m + 1 \in S
    <2>1. PICK f: Upto(m, f)
      BY <1>2
    <2>. DEFINE g == [n \in 0..(m + 1) |-> IF n = m + 1 THEN Enter(f[m], comps[m + 1]) ELSE f[n]]
    <2>2. m \in Nat
      BY <1>0
    <2>3. ASSUME NEW n \in 0..(m + 1) PROVE g[n] = IF n = 0 THEN d ELSE Enter(g[n - 1], comps[n])
      <3>1. CASE n = 0
        BY <2>1, <2>2, <3>1
      <3>2. CASE n = m + 1
        <4>1. g[n] = Enter(f[m], comps[n]) /\ g[n - 1] = f[m] /\ n # 0
          BY <2>2, <3>2
        <4> QED
          BY <4>1
      <3>3. CASE n # 0 /\ n # m + 1
        <4>1. n \in 0..m /\ n - 1 \in 0..m /\ n - 1 # m + 1
          BY <2>2, <3>3
        <4>2. g[n] = f[n] /\ g[n - 1] = f[n - 1] /\ f[n] = Enter(f[n - 1], comps[n])
          BY <2>1, <3>3, <4>1
        <4> QED
          BY <3>3, <4>2
      <3> QED
        BY <3>1, <3>2, <3>3
    <2>4. Upto(m + 1, g)
      BY <2>3
    <2>. HIDE DEF g, Upto
    <2>5. m + 1 \in Nat /\ \E h: Upto(m + 1, h)
      BY <2>2, <2>4
    <2> QED
      BY <2>5
  <1>3. N \in S
    <2>1. 0..N \subseteq S
      <3>. HIDE DEF S
      <3> QED
        BY <1>0, <1>1, <1>2, Induction
    <2> QED
      BY <1>0, <2>1
  <1>4. \E f: Upto(N, f)
    BY <1>3
  <1>5. Upto(N, CHOOSE f: Upto(N, f))
    BY <1>4
  <1>6. Walk(d, comps) = CHOOSE f: Upto(N, f)
    BY DEF Walk
  <1>. HIDE DEF N
  <1>7. \A n \in 0..N: Walk(d, comps)[n] = IF n = 0 THEN d ELSE Enter(Walk(d, comps)[n - 1], comps[n])
    BY <1>5, <1>6
  <1>8. \A n \in 1..N: n \in 0..N /\ n # 0
    BY <1>0
  <1>9. 0 \in 0..N
    BY <1>0
  <1> QED
    BY <1>7, <1>8, <1>9 DEF N

LEMMA ResolutionSteps ==
  ASSUME NEW rooted, NEW d, NEW comps \in Seq(Component)
  PROVE  /\ Resolution(rooted, d, comps)[0] = Partial(0, d)
         /\ \A n \in 1..Len(comps):
              Resolution(rooted, d, comps)[n] = Apply(rooted, Resolution(rooted, d, comps)[n - 1], comps[n])
  <1>. DEFINE N == Len(comps)
              b == Partial(0, d)
              Upto(m, f) == f = [n \in 0..m |-> IF n = 0 THEN b ELSE Apply(rooted, f[n - 1], comps[n])]
              S == {m \in Nat: \E f: Upto(m, f)}
  <1>0. N \in Nat
    BY LenProperties
  <1>. HIDE DEF b
  <1>1. 0 \in S
    <2>1. Upto(0, [n \in 0..0 |-> b])
      OBVIOUS
    <2> QED
      BY <2>1
  <1>2. ASSUME NEW m \in 0..(N - 1), m \in S PROVE m + 1 \in S
    <2>1. PICK f: Upto(m, f)
      BY <1>2
    <2>. DEFINE g == [n \in 0..(m + 1) |-> IF n = m + 1 THEN Apply(rooted, f[m], comps[m + 1]) ELSE f[n]]
    <2>2. m \in Nat
      BY <1>0
    <2>3. ASSUME NEW n \in 0..(m + 1) PROVE g[n] = IF n = 0 THEN b ELSE Apply(rooted, g[n - 1], comps[n])
      <3>1. CASE n = 0
        BY <2>1, <2>2, <3>1
      <3>2. CASE n = m + 1
        <4>1. g[n] = Apply(rooted, f[m], comps[n]) /\ g[n - 1] = f[m] /\ n # 0
          BY <2>2, <3>2
        <4> QED
          BY <4>1
      <3>3. CASE n # 0 /\ n # m + 1
        <4>1. n \in 0..m /\ n - 1 \in 0..m /\ n - 1 # m + 1
          BY <2>2, <3>3
        <4>2. g[n] = f[n] /\ g[n - 1] = f[n - 1] /\ f[n] = Apply(rooted, f[n - 1], comps[n])
          BY <2>1, <3>3, <4>1
        <4> QED
          BY <3>3, <4>2
      <3> QED
        BY <3>1, <3>2, <3>3
    <2>4. Upto(m + 1, g)
      BY <2>3
    <2>. HIDE DEF g, Upto
    <2>5. m + 1 \in Nat /\ \E h: Upto(m + 1, h)
      BY <2>2, <2>4
    <2> QED
      BY <2>5
  <1>3. N \in S
    <2>1. 0..N \subseteq S
      <3>. HIDE DEF S
      <3> QED
        BY <1>0, <1>1, <1>2, Induction
    <2> QED
      BY <1>0, <2>1
  <1>4. \E f: Upto(N, f)
    BY <1>3
  <1>5. Upto(N, CHOOSE f: Upto(N, f))
    BY <1>4
  <1>6. Resolution(rooted, d, comps) = CHOOSE f: Upto(N, f)
    BY DEF Resolution, b
  <1>. HIDE DEF N, b
  <1>7. \A n \in 0..N: Resolution(rooted, d, comps)[n] = IF n = 0 THEN b ELSE Apply(rooted, Resolution(rooted, d, comps)[n - 1], comps[n])
    BY <1>5, <1>6
  <1>8. \A n \in 1..N: n \in 0..N /\ n # 0
    BY <1>0
  <1>9. 0 \in 0..N
    BY <1>0
  <1> QED
    BY <1>7, <1>8, <1>9 DEF N, b

----------------------------------------------------------------------------
(* What a path leads to                                                   *)

\* Front and Last take an appended component off again.
LEMMA FrontOfAppend ==
  ASSUME NEW S, NEW s \in Seq(S), NEW e \in S
  PROVE  /\ Front(Append(s, e)) = s /\ Last(Append(s, e)) = e
         /\ Append(s, e) \in Seq(S) /\ Append(s, e) # <<>>
  <1>. DEFINE t == Append(s, e)
  <1>1. /\ t \in Seq(S) /\ t # <<>> /\ Len(t) = Len(s) + 1 /\ t[Len(s) + 1] = e
        /\ \A k \in 1..Len(s): t[k] = s[k]
    BY AppendProperties
  <1>. HIDE DEF t
  <1>2. Len(s) \in Nat
    BY LenProperties
  <1>3. /\ Front(t) \in Seq(S) /\ Len(Front(t)) = Len(s)
        /\ \A k \in 1..Len(s): Front(t)[k] = s[k]
        /\ Last(t) = e
    <2>1. /\ Front(t) \in Seq(S) /\ Len(Front(t)) = Len(t) - 1 /\ Last(t) = t[Len(t)]
          /\ \A k \in 1..(Len(t) - 1): Front(t)[k] = t[k]
      BY <1>1, FrontProperties
    <2>2. Len(t) - 1 = Len(s)
      BY <1>1, <1>2
    <2> QED
      BY <1>1, <2>1, <2>2
  <1>4. Front(t) = s
    BY <1>3, SeqEqual
  <1> QED
    BY <1>1, <1>3, <1>4 DEF t

\* A sequence that is not empty is its front and its last element.
LEMMA AppendToFront ==
  ASSUME NEW S, NEW s \in Seq(S), s # <<>>
  PROVE  Front(s) \in Seq(S) /\ Last(s) \in S /\ s = Append(Front(s), Last(s))
  <1>1. PICK r \in Seq(S), e \in S: s = Append(r, e)
    BY SequenceEmptyOrAppend
  <1> QED
    BY <1>1, FrontOfAppend

\* One step of a walk comes from a directory to a directory.
LEMMA EnterDirectory ==
  ASSUME NEW d \in Seq(Name), NEW c \in Component
  PROVE  Enter(d, c) \in Seq(Name)
  <1>1. CASE c = ".." /\ d = <<>>
    BY <1>1 DEF Enter
  <1>2. CASE c = ".." /\ d # <<>>
    BY <1>2, AppendToFront DEF Enter
  <1>3. CASE c \in {".", ""}
    BY <1>3 DEF Enter
  <1>4. CASE c \notin {"..", ".", ""}
    <2>1. c \in Name
      BY <1>4 DEF Name
    <2>2. Append(d, c) \in Seq(Name)
      BY <2>1, AppendProperties
    <2> QED
      BY <1>4, <2>2 DEF Enter
  <1> QED
    BY <1>1, <1>2, <1>3, <1>4

LEMMA WalkType ==
  ASSUME NEW d \in Seq(Name), NEW comps \in Seq(Component)
  PROVE  \A n \in 0..Len(comps): Walk(d, comps)[n] \in Seq(Name)
  <1>. DEFINE N == Len(comps)
              S == {n \in Nat: Walk(d, comps)[n] \in Seq(Name)}
  <1>1. N \in Nat /\ \A n \in 1..N: comps[n] \in Component
    BY LenProperties, ElementOfSeq
  <1>2. 0 \in S
    BY WalkSteps
  <1>3. ASSUME NEW n \in 0..(N - 1), n \in S PROVE n + 1 \in S
    <2>1. n + 1 \in 1..N /\ (n + 1) - 1 = n
      BY <1>1
    <2>2. Walk(d, comps)[n + 1] = Enter(Walk(d, comps)[n], comps[n + 1])
      BY <2>1, WalkSteps
    <2>3. PICK w \in Seq(Name): w = Walk(d, comps)[n]
      BY <1>3
    <2>4. PICK c \in Component: c = comps[n + 1]
      BY <1>1, <2>1
    <2>5. Enter(w, c) \in Seq(Name) /\ n + 1 \in Nat
      BY <1>1, <2>1, EnterDirectory
    <2> QED
      BY <2>2, <2>3, <2>4, <2>5
  <1>4. 0..N \subseteq S
    <2>. HIDE DEF S, N
    <2> QED
      BY <1>1, <1>2, <1>3, Induction
  <1> QED
    BY <1>4

\* A walk along more components begins with the walk along the first of them.
LEMMA WalkAppend ==
  ASSUME NEW d \in Seq(Name), NEW s \in Seq(Component), NEW c \in Component
  PROVE  Walk(d, Append(s, c))[Len(Append(s, c))] = Enter(Walk(d, s)[Len(s)], c)
  <1>. DEFINE t == Append(s, c)
              N == Len(s)
              S == {n \in Nat: Walk(d, t)[n] = Walk(d, s)[n]}
  <1>1. /\ t \in Seq(Component) /\ Len(t) = N + 1 /\ t[N + 1] = c
        /\ \A n \in 1..N: t[n] = s[n]
    BY AppendProperties
  <1>2. N \in Nat
    BY LenProperties
  <1>. HIDE DEF t
  <1>3. /\ Walk(d, t)[0] = d
        /\ \A n \in 1..(N + 1): Walk(d, t)[n] = Enter(Walk(d, t)[n - 1], t[n])
    BY <1>1, WalkSteps
  <1>4. /\ Walk(d, s)[0] = d
        /\ \A n \in 1..N: Walk(d, s)[n] = Enter(Walk(d, s)[n - 1], s[n])
    BY WalkSteps
  <1>5. 0 \in S
    BY <1>3, <1>4
  <1>6. ASSUME NEW n \in 0..(N - 1), n \in S PROVE n + 1 \in S
    <2>1. n + 1 \in 1..N /\ n + 1 \in 1..(N + 1) /\ (n + 1) - 1 = n
      BY <1>2
    <2>2. /\ Walk(d, t)[n + 1] = Enter(Walk(d, t)[n], t[n + 1])
          /\ Walk(d, s)[n + 1] = Enter(Walk(d, s)[n], s[n + 1])
      BY <1>3, <1>4, <2>1
    <2> QED
      BY <1>1, <1>6, <2>1, <2>2
  <1>7. 0..N \subseteq S
    <2>. HIDE DEF S, N
    <2> QED
      BY <1>2, <1>5, <1>6, Induction
  <1>8. Walk(d, t)[N] = Walk(d, s)[N]
    BY <1>2, <1>7
  <1>9. N + 1 \in 1..(N + 1) /\ (N + 1) - 1 = N
    BY <1>2
  <1>10. Walk(d, t)[N + 1] = Enter(Walk(d, s)[N], c)
    BY <1>1, <1>3, <1>8, <1>9
  <1> QED
    BY <1>1, <1>10 DEF t

\* In a rooted path resolve_path does what a file system does.
LEMMA RootedResolution ==
  ASSUME NEW rooted, rooted, NEW d \in Seq(Name), NEW comps \in Seq(Component)
  PROVE  \A n \in 0..Len(comps):
           Resolution(rooted, d, comps)[n] = Partial(0, Walk(d, comps)[n])
  <1>. DEFINE N == Len(comps)
              S == {n \in 0..N: Resolution(rooted, d, comps)[n] = Partial(0, Walk(d, comps)[n])}
  <1>1. N \in Nat /\ \A n \in 1..N: comps[n] \in Component
    BY LenProperties, ElementOfSeq
  <1>w. /\ Walk(d, comps)[0] = d
        /\ \A n \in 1..N: Walk(d, comps)[n] = Enter(Walk(d, comps)[n - 1], comps[n])
    BY WalkSteps
  <1>r. /\ Resolution(rooted, d, comps)[0] = Partial(0, d)
        /\ \A n \in 1..N:
             Resolution(rooted, d, comps)[n] = Apply(rooted, Resolution(rooted, d, comps)[n - 1], comps[n])
    BY ResolutionSteps
  <1>2. 0 \in S
    <2>1. 0 \in 0..N
      BY <1>1
    <2>2. Resolution(rooted, d, comps)[0] = Partial(0, Walk(d, comps)[0])
      BY <1>w, <1>r
    <2> QED
      BY <2>1, <2>2
  <1>3. ASSUME NEW n \in 0..(N - 1), n \in S PROVE n + 1 \in S
    <2>. DEFINE w == Walk(d, comps)[n]
                c == comps[n + 1]
                acc == Partial(0, w)
    <2>1. n + 1 \in 1..N /\ n + 1 \in 0..N /\ (n + 1) - 1 = n /\ n \in 0..N
      BY <1>1
    <2>2. /\ Walk(d, comps)[n + 1] = Enter(w, c)
          /\ Resolution(rooted, d, comps)[n + 1] = Apply(rooted, acc, c)
      BY <1>3, <1>w, <1>r, <2>1
    <2>3. w \in Seq(Name) /\ c \in Component
      BY <1>1, <2>1, WalkType
    <2>. HIDE DEF w, c
    <2>4. acc.ups = 0 /\ acc.comps = w
      BY DEF Partial
    <2>. HIDE DEF acc
    <2>5. Apply(rooted, acc, c) = Partial(0, Enter(w, c))
      <3>1. CASE c = ".." /\ w # <<>>
        <4>1. Last(w) \in Name
          BY <2>3, <3>1, AppendToFront
        <4>2. Last(w) # ".."
          BY <4>1 DEF Name
        <4> QED
          BY <2>4, <3>1, <4>2 DEF Apply, Enter
      <3>2. CASE c = ".." /\ w = <<>>
        BY <2>4, <3>2 DEF Apply, Enter, acc
      <3>3. CASE c \in {".", ""}
        BY <2>4, <3>3 DEF Apply, Enter, acc
      <3>4. CASE c \notin {"..", ".", ""}
        BY <2>4, <3>4 DEF Apply, Enter
      <3> QED
        BY <3>1, <3>2, <3>3, <3>4
    <2> QED
      BY <2>1, <2>2, <2>5
  <1>4. 0..N \subseteq S
    <2>. HIDE DEF S, N
    <2> QED
      BY <1>1, <1>2, <1>3, Induction
  <1> QED
    BY <1>4

----------------------------------------------------------------------------
(* Where a path ends                                                       *)

\* The place that relative components lead to from a directory.
Follow(d, comps) == Walk(d, comps)[Len(comps)]

\* The texts that the code itself puts into paths.
LEMMA Literals ==
  /\ ".." \in Component /\ "main.luau" \in Name /\ "init.luau" \in Name
  /\ ".luau" \in Name /\ "stdin" \in Component /\ "placeholder" \in Component
  BY PathAssumption DEF Name

\* What is a sequence of names is one of components.
LEMMA NamesAreComponents ==
  ASSUME NEW s \in Seq(Name)
  PROVE  s \in Seq(Component)
  <1>1. Len(s) \in Nat /\ \A k \in 1..Len(s): s[k] \in Name
    BY LenProperties, ElementOfSeq
  <1>2. s \in [1..Len(s) -> Component]
    <2>1. s = [k \in 1..Len(s) |-> s[k]]
      BY LenProperties
    <2>2. \A k \in 1..Len(s): s[k] \in Component
      BY <1>1 DEF Name
    <2> QED
      BY <2>1, <2>2
  <1> QED
    BY <1>1, <1>2, MapIsSeq

\* A name leads one step down.
LEMMA EnterName ==
  ASSUME NEW d, NEW c \in Name
  PROVE  Enter(d, c) = Append(d, c)
  BY DEF Enter, Name

\* No component leads nowhere else; any leads from a directory to a directory.
LEMMA FollowBasics ==
  ASSUME NEW d \in Seq(Name), NEW s \in Seq(Component)
  PROVE  Follow(d, <<>>) = d /\ Follow(d, s) \in Seq(Name)
  <1>1. <<>> \in Seq(Component) /\ Len(<<>>) = 0 /\ Len(s) \in 0..Len(s)
    BY EmptySeq, LenProperties
  <1>2. Walk(d, <<>>)[0] = d
    BY <1>1, WalkSteps
  <1>3. Walk(d, s)[Len(s)] \in Seq(Name)
    BY <1>1, WalkType
  <1> QED
    BY <1>1, <1>2, <1>3 DEF Follow

\* The last component is followed last.
LEMMA FollowAppend ==
  ASSUME NEW d \in Seq(Name), NEW s \in Seq(Component), NEW c \in Component
  PROVE  Follow(d, Append(s, c)) = Enter(Follow(d, s), c)
  BY WalkAppend DEF Follow

\* A file is entered below the directory that the rest leads to.
LEMMA FollowName ==
  ASSUME NEW d \in Seq(Name), NEW s \in Seq(Component), NEW c \in Name
  PROVE  Follow(d, Append(s, c)) = Append(Follow(d, s), c)
  <1>1. c \in Component
    BY DEF Name
  <1>2. Follow(d, Append(s, c)) = Enter(Follow(d, s), c)
    BY <1>1, FollowAppend
  <1> QED
    BY <1>2, EnterName

\* Names only lead down: from the root, to where they say.
LEMMA FollowNames ==
  ASSUME NEW w \in Seq(Name)
  PROVE  Follow(<<>>, w) = w
  <1>. DEFINE S == {n \in Nat: \A s \in Seq(Name): Len(s) = n => Follow(<<>>, s) = s}
  <1>0. <<>> \in Seq(Name) /\ Len(w) \in Nat
    BY EmptySeq, LenProperties
  <1>1. 0 \in S
    <2>1. ASSUME NEW s \in Seq(Name), Len(s) = 0 PROVE Follow(<<>>, s) = s
      <3>1. s = <<>>
        BY <2>1, EmptySeq
      <3>2. Follow(<<>>, <<>>) = <<>>
        BY <1>0, NamesAreComponents, FollowBasics
      <3> QED
        BY <3>1, <3>2
    <2> QED
      BY <2>1
  <1>2. ASSUME NEW n \in 0..(Len(w) - 1), n \in S PROVE n + 1 \in S
    <2>1. ASSUME NEW s \in Seq(Name), Len(s) = n + 1 PROVE Follow(<<>>, s) = s
      <3>1. s # <<>>
        BY <1>0, <2>1, EmptySeq
      <3>2. /\ Front(s) \in Seq(Name) /\ Last(s) \in Name /\ s = Append(Front(s), Last(s))
            /\ Len(Front(s)) = n
        <4>1. Len(Front(s)) = Len(s) - 1
          BY <3>1, FrontProperties
        <4> QED
          BY <1>0, <2>1, <3>1, <4>1, AppendToFront
      <3>3. Follow(<<>>, Front(s)) = Front(s)
        BY <1>2, <3>2
      <3>4. Front(s) \in Seq(Component)
        BY <3>2, NamesAreComponents
      <3>5. Follow(<<>>, Append(Front(s), Last(s))) = Append(Follow(<<>>, Front(s)), Last(s))
        BY <1>0, <3>2, <3>4, FollowName
      <3> QED
        BY <3>2, <3>3, <3>5
    <2>2. n + 1 \in Nat
      BY <1>0
    <2> QED
      BY <2>1, <2>2
  <1>3. 0..Len(w) \subseteq S
    <2>. HIDE DEF S
    <2> QED
      BY <1>0, <1>1, <1>2, Induction
  <1>4. Len(w) \in S
    BY <1>0, <1>3
  <1> QED
    BY <1>4

----------------------------------------------------------------------------
(* Chunknames in normal form                                               *)

\* No "." and no empty component, ".." at the head only.
Normal ==
  {comps \in Seq(Component):
     \A k \in 1..Len(comps): /\ comps[k] \notin {"", "."}
                             /\ comps[k] = ".." => \A j \in 1..k: comps[j] = ".."}

Dots(n) == [k \in 1..n |-> ".."]

\* Names are in normal form, a name keeps it, and so does taking off the last.
LEMMA NamesAreNormal ==
  ASSUME NEW s \in Seq(Name)
  PROVE  s \in Normal
  <1>1. \A k \in 1..Len(s): s[k] \in Name
    BY ElementOfSeq
  <1>2. \A k \in 1..Len(s): s[k] \notin {"", ".", ".."}
    BY <1>1 DEF Name
  <1> QED
    BY <1>2, NamesAreComponents DEF Normal

LEMMA NormalAppend ==
  ASSUME NEW s \in Normal, NEW c \in Name
  PROVE  Append(s, c) \in Normal
  <1>0. s \in Seq(Component) /\ c \in Component
    BY DEF Normal, Name
  <1>1. c \notin {"", ".", ".."}
    BY DEF Name
  <1>. DEFINE t == Append(s, c)
  <1>2. /\ t \in Seq(Component) /\ Len(t) = Len(s) + 1 /\ t[Len(s) + 1] = c
        /\ \A k \in 1..Len(s): t[k] = s[k]
    BY <1>0, AppendProperties
  <1>. HIDE DEF t
  <1>3. Len(s) \in Nat
    BY <1>0, LenProperties
  <1>4. ASSUME NEW k \in 1..Len(t)
        PROVE  t[k] \notin {"", "."} /\ (t[k] = ".." => \A j \in 1..k: t[j] = "..")
    <2>1. CASE k = Len(s) + 1
      BY <1>1, <1>2, <2>1
    <2>2. CASE k # Len(s) + 1
      <3>1. k \in 1..Len(s) /\ \A j \in 1..k: j \in 1..Len(s)
        BY <1>2, <1>3, <2>2
      <3>2. s[k] \notin {"", "."} /\ (s[k] = ".." => \A j \in 1..k: s[j] = "..")
        BY <3>1 DEF Normal
      <3> QED
        BY <1>2, <3>1, <3>2
    <2> QED
      BY <2>1, <2>2
  <1>5. t \in Normal
    BY <1>2, <1>4 DEF Normal
  <1> QED
    BY <1>5 DEF t

LEMMA NormalFront ==
  ASSUME NEW s \in Normal, s # <<>>
  PROVE  Front(s) \in Normal
  <1>1. s \in Seq(Component)
    BY DEF Normal
  <1>2. /\ Front(s) \in Seq(Component) /\ Len(Front(s)) = Len(s) - 1 /\ Len(s) \in Nat
        /\ \A k \in 1..(Len(s) - 1): Front(s)[k] = s[k]
    BY <1>1, FrontProperties, LenProperties
  <1>3. ASSUME NEW k \in 1..(Len(s) - 1)
        PROVE  /\ Front(s)[k] \notin {"", "."}
               /\ Front(s)[k] = ".." => \A j \in 1..k: Front(s)[j] = ".."
    <2>1. k \in 1..Len(s) /\ \A j \in 1..k: j \in 1..(Len(s) - 1)
      BY <1>2
    <2>2. s[k] \notin {"", "."} /\ (s[k] = ".." => \A j \in 1..k: s[j] = "..")
      BY <2>1 DEF Normal
    <2> QED
      BY <1>2, <2>1, <2>2
  <1> QED
    BY <1>2, <1>3 DEF Normal

\* What does not begin with ".." has only names.
LEMMA NormalNames ==
  ASSUME NEW s \in Normal, s # <<>>, s[1] # ".."
  PROVE  s \in Seq(Name)
  <1>1. s \in Seq(Component) /\ Len(s) \in Nat /\ s = [k \in 1..Len(s) |-> s[k]]
    BY LenProperties DEF Normal
  <1>2. ASSUME NEW k \in 1..Len(s) PROVE s[k] \in Name
    <2>1. s[k] \in Component
      BY <1>1, ElementOfSeq
    <2>2. s[k] \notin {"", "."} /\ (s[k] = ".." => \A j \in 1..k: s[j] = "..")
      BY DEF Normal
    <2>3. 1 \in 1..k
      BY <1>1
    <2> QED
      BY <2>1, <2>2, <2>3 DEF Name
  <1>3. s \in [1..Len(s) -> Name]
    BY <1>1, <1>2
  <1> QED
    BY <1>1, <1>3, MapIsSeq

\* The ".." that resolve_path puts in front are a sequence that grows by one.
LEMMA DotsIsSeq ==
  ASSUME NEW n \in Nat
  PROVE  /\ Dots(n) \in Seq(Component) /\ Len(Dots(n)) = n
         /\ \A k \in 1..n: Dots(n)[k] = ".."
  <1>1. Dots(n) \in [1..n -> Component]
    BY Literals DEF Dots
  <1> QED
    BY <1>1, MapIsSeq DEF Dots

LEMMA NoDots == Dots(0) = <<>>
  BY DotsIsSeq, EmptySeq

LEMMA MoreDots ==
  ASSUME NEW n \in Nat
  PROVE  Dots(n + 1) = Append(Dots(n), "..")
  <1>. DEFINE t == Append(Dots(n), "..")
              r == Dots(n + 1)
  <1>1. /\ Dots(n) \in Seq(Component) /\ Len(Dots(n)) = n
        /\ \A k \in 1..n: Dots(n)[k] = ".."
    BY DotsIsSeq
  <1>2. /\ t \in Seq(Component) /\ Len(t) = n + 1 /\ t[n + 1] = ".."
        /\ \A k \in 1..n: t[k] = Dots(n)[k]
    BY <1>1, Literals, AppendProperties
  <1>3. n + 1 \in Nat
    OBVIOUS
  <1>4. r \in Seq(Component) /\ Len(r) = n + 1 /\ \A k \in 1..(n + 1): r[k] = ".."
    BY <1>3, DotsIsSeq
  <1>. HIDE DEF t, r
  <1>5. \A k \in 1..(n + 1): k = n + 1 \/ k \in 1..n
    OBVIOUS
  <1>6. \A k \in 1..Len(t): t[k] = r[k]
    BY <1>1, <1>2, <1>4, <1>5
  <1>7. t = r
    BY <1>2, <1>4, <1>6, SeqEqual
  <1> QED
    BY <1>7 DEF t, r

\* Names below a number of ".." are in normal form.
LEMMA DotsThenNames ==
  ASSUME NEW n \in Nat, NEW w \in Seq(Name)
  PROVE  Dots(n) \o w \in Normal
  <1>. DEFINE t == Dots(n) \o w
  <1>0. Dots(n) \in Seq(Component) /\ Len(Dots(n)) = n /\ w \in Seq(Component)
    BY DotsIsSeq, NamesAreComponents
  <1>1. \A k \in 1..n: Dots(n)[k] = ".."
    BY DotsIsSeq
  <1>2. Len(w) \in Nat /\ \A k \in 1..Len(w): w[k] \in Name
    BY LenProperties, ElementOfSeq
  <1>3. /\ t \in Seq(Component) /\ Len(t) = n + Len(w)
        /\ \A k \in 1..(n + Len(w)): t[k] = IF k <= n THEN Dots(n)[k] ELSE w[k - n]
    <2>. DEFINE p == Dots(n)
    <2>1. p \in Seq(Component) /\ Len(p) = n
      BY <1>0
    <2>. HIDE DEF p
    <2>2. /\ p \o w \in Seq(Component) /\ Len(p \o w) = Len(p) + Len(w)
          /\ \A k \in 1..(Len(p) + Len(w)): (p \o w)[k] = IF k <= Len(p) THEN p[k] ELSE w[k - Len(p)]
      BY <1>0, <2>1, ConcatProperties
    <2>3. /\ p \o w \in Seq(Component) /\ Len(p \o w) = n + Len(w)
          /\ \A k \in 1..(n + Len(w)): (p \o w)[k] = IF k <= n THEN p[k] ELSE w[k - n]
      BY <2>1, <2>2
    <2> QED
      BY <2>3 DEF p
  <1>. HIDE DEF t
  <1>4. ASSUME NEW k \in 1..Len(t)
        PROVE  t[k] \notin {"", "."} /\ (t[k] = ".." => \A j \in 1..k: t[j] = "..")
    <2>1. CASE k <= n
      <3>1. \A j \in 1..k: j \in 1..n /\ j \in 1..(n + Len(w)) /\ j <= n
        BY <1>2, <1>3, <2>1
      <3>2. \A j \in 1..k: t[j] = ".."
        BY <1>1, <1>3, <3>1
      <3>3. k \in 1..k
        BY <1>2, <1>3
      <3> QED
        BY <3>2, <3>3
    <2>2. CASE ~(k <= n)
      <3>1. k - n \in 1..Len(w) /\ k \in 1..(n + Len(w))
        BY <1>2, <1>3, <2>2
      <3>2. t[k] \in Name
        BY <1>2, <1>3, <2>2, <3>1
      <3> QED
        BY <3>2 DEF Name
    <2> QED
      BY <2>1, <2>2
  <1>5. t \in Normal
    BY <1>3, <1>4 DEF Normal
  <1> QED
    BY <1>5 DEF t

\* Concatenation, with the elements that paths have.
LEMMA ConcatAppend ==
  ASSUME NEW s \in Seq(Component), NEW w \in Seq(Component), NEW c \in Component
  PROVE  s \o Append(w, c) = Append(s \o w, c) /\ s \o w \in Seq(Component)
  <1>1. Append(w, c) = w \o <<c>> /\ <<c>> \in Seq(Component)
    BY AppendIsConcat
  <1>2. s \o w \in Seq(Component)
    BY ConcatProperties
  <1>3. Append(s \o w, c) = (s \o w) \o <<c>>
    BY <1>2, AppendIsConcat
  <1>4. (s \o w) \o <<c>> = s \o (w \o <<c>>)
    BY <1>1, ConcatAssociative
  <1> QED
    BY <1>1, <1>2, <1>3, <1>4

LEMMA NoConcat ==
  ASSUME NEW s \in Seq(Component)
  PROVE  s \o <<>> = s /\ Dots(0) \o s = s
  BY NoDots, ConcatEmptySeq

----------------------------------------------------------------------------
(* resolve_path, for a path that stays relative                            *)

\* What the loop does with each kind of component.
LEMMA ApplyCases ==
  ASSUME NEW rooted, ~rooted, NEW u \in Nat, NEW w \in Normal, NEW c \in Component
  PROVE  /\ c = ".." /\ w = <<>> => Apply(rooted, Partial(u, w), c) = Partial(u + 1, w)
         /\ c = ".." /\ w # <<>> /\ Last(w) # ".." =>
              Apply(rooted, Partial(u, w), c) = Partial(u, Front(w))
         /\ c = ".." /\ w # <<>> /\ Last(w) = ".." =>
              Apply(rooted, Partial(u, w), c) = Partial(u, w)
         /\ c \notin {"..", ".", ""} => Apply(rooted, Partial(u, w), c) = Partial(u, Append(w, c))
         /\ c \in {".", ""} => Apply(rooted, Partial(u, w), c) = Partial(u, w)
  <1>. DEFINE acc == Partial(u, w)
  <1>1. acc.ups = u /\ acc.comps = w
    BY DEF Partial
  <1>2. acc = Partial(u, w)
    OBVIOUS
  <1>. HIDE DEF acc
  <1>3. CASE c = ".." /\ w = <<>>
    BY <1>1, <1>2, <1>3 DEF Apply
  <1>4. CASE c = ".." /\ w # <<>> /\ Last(w) # ".."
    BY <1>1, <1>2, <1>4 DEF Apply
  <1>5. CASE c = ".." /\ w # <<>> /\ Last(w) = ".."
    BY <1>1, <1>2, <1>5 DEF Apply
  <1>6. CASE c \notin {"..", ".", ""}
    BY <1>1, <1>2, <1>6 DEF Apply
  <1>7. CASE c \in {".", ""}
    BY <1>1, <1>2, <1>7 DEF Apply
  <1> QED
    BY <1>3, <1>4, <1>5, <1>6, <1>7

\* A name is appended.
LEMMA ApplyName ==
  ASSUME NEW rooted, ~rooted, NEW u \in Nat, NEW w \in Normal, NEW c \in Name
  PROVE  Apply(rooted, Partial(u, w), c) = Partial(u, Append(w, c))
  <1>. DEFINE acc == Partial(u, w)
  <1>1. acc.ups = u /\ acc.comps = w
    BY DEF Partial
  <1>2. c \notin {"..", ".", ""}
    BY DEF Name
  <1>. HIDE DEF acc
  <1>3. Apply(rooted, acc, c) = Partial(u, Append(w, c))
    BY <1>1, <1>2 DEF Apply
  <1> QED
    BY <1>3 DEF acc

\* A component leaves normal form, and moves the place the result stands for
\* as a walk would: unless it is a ".." that should take off another one.
StepsTo(cwd, u, w, c, v, x) ==
  /\ (v > 0 \/ w \in Seq(Name)) => x \in Seq(Name)
  /\ (w \in Seq(Name) \/ c # "..") =>
       Follow(cwd, Dots(v) \o x) = Enter(Follow(cwd, Dots(u) \o w), c)

LEMMA UnrootedStep ==
  ASSUME NEW rooted, ~rooted, NEW cwd \in Seq(Name), NEW u \in Nat, NEW w \in Normal,
         NEW c \in Component, u > 0 => w \in Seq(Name)
  PROVE  \E v \in Nat, x \in Normal:
           Apply(rooted, Partial(u, w), c) = Partial(v, x) /\ StepsTo(cwd, u, w, c, v, x)
  <1>. DEFINE t == Dots(u)
              Goal(v, x) == /\ Apply(rooted, Partial(u, w), c) = Partial(v, x)
                            /\ (v > 0 \/ w \in Seq(Name)) => x \in Seq(Name)
                            /\ (w \in Seq(Name) \/ c # "..") =>
                                 Follow(cwd, Dots(v) \o x) = Enter(Follow(cwd, t \o w), c)
  <1>1. t \in Seq(Component) /\ w \in Seq(Component)
    BY DotsIsSeq DEF Normal
  <1>2. t = Dots(u)
    OBVIOUS
  <1>. HIDE DEF t
  <1>. SUFFICES \E v \in Nat, x \in Normal: Goal(v, x)
    BY <1>2 DEF StepsTo
  <1>3. CASE c = ".." /\ w = <<>>
    <2>1. Apply(rooted, Partial(u, w), c) = Partial(u + 1, w)
      BY <1>3, ApplyCases
    <2>2. t \o w = t /\ Dots(u + 1) = Append(t, c)
      BY <1>1, <1>2, <1>3, NoConcat, MoreDots
    <2>3. Append(t, c) \o w = Append(t, c)
      <3>1. Append(t, c) \in Seq(Component)
        BY <1>1, AppendProperties
      <3> QED
        BY <1>3, <3>1, NoConcat
    <2>4. Follow(cwd, Append(t, c)) = Enter(Follow(cwd, t), c)
      BY <1>1, FollowAppend
    <2>5. Follow(cwd, Dots(u + 1) \o w) = Enter(Follow(cwd, t \o w), c)
      BY <2>2, <2>3, <2>4
    <2>6. w \in Seq(Name)
      BY <1>3, EmptySeq
    <2>7. u + 1 \in Nat /\ Goal(u + 1, w)
      BY <2>1, <2>5, <2>6
    <2>. HIDE DEF Goal
    <2> QED
      BY <2>7
  <1>4. CASE c = ".." /\ w # <<>> /\ Last(w) # ".."
    <2>. DEFINE x == Front(w)
    <2>1. Apply(rooted, Partial(u, w), c) = Partial(u, x)
      <3>. HIDE DEF x, Goal
      <3>1. (c = ".." /\ w # <<>> /\ Last(w) # "..") =>
              Apply(rooted, Partial(u, w), c) = Partial(u, Front(w))
        BY ApplyCases
      <3> QED
        BY <1>4, <3>1 DEF x
    <2>2. x \in Normal
      BY <1>4, NormalFront
    <2>3. w \in Seq(Name) => x \in Seq(Name)
      BY <1>4, AppendToFront
    <2>4. ASSUME w \in Seq(Name) PROVE Follow(cwd, t \o x) = Enter(Follow(cwd, t \o w), c)
      <3>. DEFINE e == Last(w)
                  p == t \o x
      <3>1. x \in Seq(Name) /\ e \in Name /\ w = Append(x, e)
        BY <1>4, <2>4, AppendToFront
      <3>. HIDE DEF x, e
      <3>2. x \in Seq(Component) /\ e \in Component
        BY <3>1, NamesAreComponents DEF Name
      <3>3. p \in Seq(Component) /\ t \o w = Append(p, e)
        BY <1>1, <3>1, <3>2, ConcatAppend
      <3>. HIDE DEF p
      <3>4. Follow(cwd, Append(p, e)) = Append(Follow(cwd, p), e)
        BY <3>1, <3>3, FollowName
      <3>5. Follow(cwd, p) \in Seq(Name)
        BY <3>3, FollowBasics
      <3>. DEFINE r == Follow(cwd, p)
      <3>6. r \in Seq(Name) /\ Follow(cwd, t \o w) = Append(r, e)
        BY <3>3, <3>4, <3>5
      <3>7. r = Follow(cwd, p)
        OBVIOUS
      <3>. HIDE DEF r
      <3>8. Front(Append(r, e)) = r /\ Append(r, e) # <<>>
        BY <3>1, <3>6, FrontOfAppend
      <3>9. Enter(Append(r, e), c) = r
        BY <1>4, <3>8 DEF Enter
      <3> QED
        BY <3>6, <3>7, <3>9 DEF p
    <2>. HIDE DEF x
    <2>5. Goal(u, x)
      BY <1>2, <1>4, <2>1, <2>3, <2>4
    <2>. HIDE DEF Goal
    <2> QED
      BY <2>2, <2>5
  <1>5. CASE c = ".." /\ w # <<>> /\ Last(w) = ".."
    <2>1. Apply(rooted, Partial(u, w), c) = Partial(u, w)
      BY <1>5, ApplyCases
    <2>2. w \notin Seq(Name)
      <3>1. ASSUME w \in Seq(Name) PROVE FALSE
        <4>1. Last(w) \in Name
          BY <1>5, <3>1, AppendToFront
        <4> QED
          BY <1>5, <4>1 DEF Name
      <3> QED
        BY <3>1
    <2>3. Goal(u, w)
      BY <1>5, <2>1, <2>2
    <2>. HIDE DEF Goal
    <2> QED
      BY <2>3
  <1>6. CASE c \notin {"..", ".", ""}
    <2>. DEFINE x == Append(w, c)
    <2>2. c \in Name
      BY <1>6 DEF Name
    <2>1. Apply(rooted, Partial(u, w), c) = Partial(u, x)
      BY <2>2, ApplyName
    <2>3. x \in Normal
      BY <2>2, NormalAppend
    <2>4. w \in Seq(Name) => x \in Seq(Name)
      BY <2>2, AppendProperties
    <2>5. t \o x = Append(t \o w, c) /\ t \o w \in Seq(Component)
      BY <1>1, ConcatAppend
    <2>6. Follow(cwd, t \o x) = Enter(Follow(cwd, t \o w), c)
      BY <2>5, FollowAppend
    <2>. HIDE DEF x
    <2>7. Goal(u, x)
      BY <1>2, <2>1, <2>4, <2>6
    <2>. HIDE DEF Goal
    <2> QED
      BY <2>3, <2>7
  <1>7. CASE c \in {".", ""}
    <2>1. Apply(rooted, Partial(u, w), c) = Partial(u, w)
      BY <1>7, ApplyCases
    <2>2. Enter(Follow(cwd, t \o w), c) = Follow(cwd, t \o w)
      BY <1>7 DEF Enter
    <2>3. Goal(u, w)
      BY <1>2, <2>1, <2>2
    <2>. HIDE DEF Goal
    <2> QED
      BY <2>3
  <1> QED
    BY <1>3, <1>4, <1>5, <1>6, <1>7

\* No ".." of the path meets another one of the directory.
Straight(d, q) == d \in Seq(Name) \/ \A k \in 1..Len(q): q[k] # ".."

\* The loop over a path, from the directory part of a relative chunkname: after
\* n components it stands for `u` times ".." and then `w`.
ResolvesTo(cwd, d, q, n, u, w) ==
  /\ (u > 0 \/ d \in Seq(Name)) => w \in Seq(Name)
  /\ Straight(d, q) =>
       Follow(cwd, Dots(u) \o w) = Walk(Follow(cwd, d), q)[n]

LEMMA UnrootedResolution ==
  ASSUME NEW rooted, ~rooted, NEW cwd \in Seq(Name), NEW d \in Normal,
         NEW q \in Seq(Component)
  PROVE  \A n \in 0..Len(q): \E u \in Nat, w \in Normal:
           Resolution(rooted, d, q)[n] = Partial(u, w) /\ ResolvesTo(cwd, d, q, n, u, w)
  <1>. DEFINE N == Len(q)
              f == Follow(cwd, d)
              Reached(n, u, w) ==
                /\ Resolution(rooted, d, q)[n] = Partial(u, w)
                /\ (u > 0 \/ d \in Seq(Name)) => w \in Seq(Name)
                /\ Straight(d, q) => Follow(cwd, Dots(u) \o w) = Walk(f, q)[n]
              S == {n \in 0..N: \E u \in Nat, w \in Normal: Reached(n, u, w)}
  <1>1. N \in Nat /\ (\A n \in 1..N: q[n] \in Component) /\ d \in Seq(Component)
    BY LenProperties, ElementOfSeq DEF Normal
  <1>2. f \in Seq(Name)
    BY <1>1, FollowBasics
  <1>w. Walk(f, q)[0] = f /\ \A n \in 1..N: Walk(f, q)[n] = Enter(Walk(f, q)[n - 1], q[n])
    BY WalkSteps
  <1>r. /\ Resolution(rooted, d, q)[0] = Partial(0, d)
        /\ \A n \in 1..N: Resolution(rooted, d, q)[n] = Apply(rooted, Resolution(rooted, d, q)[n - 1], q[n])
    BY ResolutionSteps
  <1>3. 0 \in S
    <2>1. Dots(0) \o d = d
      BY <1>1, NoConcat
    <2>2. Follow(cwd, Dots(0) \o d) = Walk(f, q)[0]
      BY <2>1, <1>w
    <2>3. Reached(0, 0, d)
      BY <1>r, <2>2
    <2>4. 0 \in 0..N /\ 0 \in Nat
      BY <1>1
    <2>. HIDE DEF Reached
    <2> QED
      BY <2>3, <2>4
  <1>4. ASSUME NEW n \in 0..(N - 1), n \in S PROVE n + 1 \in S
    <2>1. n + 1 \in 1..N /\ n + 1 \in 0..N /\ (n + 1) - 1 = n
      BY <1>1
    <2>2. PICK u \in Nat, w \in Normal: Reached(n, u, w)
      BY <1>4
    <2>3. PICK c \in Component: c = q[n + 1]
      BY <1>1, <2>1
    <2>4. u > 0 => w \in Seq(Name)
      BY <2>2
    <2>a. PICK v \in Nat, x \in Normal:
            Apply(rooted, Partial(u, w), c) = Partial(v, x) /\ StepsTo(cwd, u, w, c, v, x)
      BY <2>4, UnrootedStep
    <2>5. /\ Apply(rooted, Partial(u, w), c) = Partial(v, x)
          /\ (v > 0 \/ w \in Seq(Name)) => x \in Seq(Name)
          /\ (w \in Seq(Name) \/ c # "..") =>
               Follow(cwd, Dots(v) \o x) = Enter(Follow(cwd, Dots(u) \o w), c)
      BY <2>a DEF StepsTo
    <2>6. Resolution(rooted, d, q)[n + 1] = Partial(v, x)
      <3>1. Resolution(rooted, d, q)[n] = Partial(u, w)
        BY <2>2
      <3>2. Resolution(rooted, d, q)[n + 1] = Apply(rooted, Resolution(rooted, d, q)[n], q[n + 1])
        BY <1>r, <2>1
      <3> QED
        BY <2>3, <2>5, <3>1, <3>2
    <2>7. (v > 0 \/ d \in Seq(Name)) => x \in Seq(Name)
      BY <2>2, <2>5
    <2>8. ASSUME Straight(d, q) PROVE Follow(cwd, Dots(v) \o x) = Walk(f, q)[n + 1]
      <3>1. w \in Seq(Name) \/ c # ".."
        BY <2>1, <2>2, <2>3, <2>8 DEF Straight
      <3>2. Follow(cwd, Dots(u) \o w) = Walk(f, q)[n]
        BY <2>2, <2>8
      <3>3. Walk(f, q)[n + 1] = Enter(Walk(f, q)[n], q[n + 1])
        BY <1>w, <2>1
      <3>4. Follow(cwd, Dots(v) \o x) = Enter(Follow(cwd, Dots(u) \o w), c)
        BY <2>5, <3>1
      <3> QED
        BY <2>3, <3>2, <3>3, <3>4
    <2>9. Reached(n + 1, v, x)
      BY <2>6, <2>7, <2>8
    <2>. HIDE DEF Reached
    <2> QED
      BY <2>1, <2>9
  <1>5. 0..N \subseteq S
    <2>. HIDE DEF S, N
    <2> QED
      BY <1>1, <1>3, <1>4, Induction
  <1>6. \A n \in 0..N: \E u \in Nat, w \in Normal: Reached(n, u, w)
    BY <1>5
  <1> QED
    BY <1>6 DEF ResolvesTo

----------------------------------------------------------------------------
(* Whole paths                                                             *)

\* The two fields of a path.
LEMMA PathFields ==
  ASSUME NEW x
  PROVE  /\ Relative(x).abs = FALSE /\ Relative(x).comps = x
         /\ Absolute(x).abs = TRUE /\ Absolute(x).comps = x
  BY DEF Relative, Absolute

\* A path that is rooted comes out as the place a walk along it ends at.
LEMMA RootedPath ==
  ASSUME NEW path, NEW base, path.abs \/ base.abs,
         NEW q \in Seq(Component), path.comps = q,
         NEW d \in Seq(Name), BaseDirectory(path, base) = d
  PROVE  ResolvePath(path, base) = Absolute(Follow(d, q))
  <1>. DEFINE rooted == path.abs \/ base.abs
              end == Resolution(rooted, d, q)[Len(q)]
              r == Follow(d, q)
  <1>1. Len(q) \in 0..Len(q)
    BY LenProperties
  <1>r. rooted /\ rooted = TRUE
    OBVIOUS
  <1>2. end = Partial(0, r)
    <2>1. \A n \in 0..Len(q): Resolution(rooted, d, q)[n] = Partial(0, Walk(d, q)[n])
      <3>. HIDE DEF rooted
      <3> QED
        BY <1>r, RootedResolution
    <2> QED
      BY <1>1, <2>1 DEF Follow
  <1>3. ResolvePath(path, base) = [abs |-> rooted, comps |-> Dots(end.ups) \o end.comps]
    BY DEF ResolvePath, Dots
  <1>4. r \in Seq(Component)
    BY FollowBasics, NamesAreComponents
  <1>. HIDE DEF end, r, rooted
  <1>5. end.ups = 0 /\ end.comps = r
    BY <1>2 DEF Partial
  <1>6. Dots(0) \o r = r
    BY <1>4, NoConcat
  <1>7. ResolvePath(path, base) = [abs |-> TRUE, comps |-> r]
    BY <1>3, <1>5, <1>6, <1>r
  <1> QED
    BY <1>7 DEF Absolute, r

\* A path that stays relative comes out in normal form.
LEMMA UnrootedPath ==
  ASSUME NEW path, NEW base, path.abs = FALSE, base.abs = FALSE,
         NEW q \in Seq(Component), path.comps = q,
         NEW d \in Normal, BaseDirectory(path, base) = d
  PROVE  \E w \in Normal: ResolvePath(path, base) = Relative(w)
  <1>. DEFINE rooted == path.abs \/ base.abs
              end == Resolution(rooted, d, q)[Len(q)]
  <1>1. Len(q) \in 0..Len(q) /\ <<>> \in Seq(Name)
    BY LenProperties, EmptySeq
  <1>2. ResolvePath(path, base) = [abs |-> rooted, comps |-> Dots(end.ups) \o end.comps]
    BY DEF ResolvePath, Dots
  <1>3. ~rooted
    OBVIOUS
  <1>e. rooted = FALSE
    OBVIOUS
  <1>. HIDE DEF rooted
  <1>4. PICK u \in Nat, w \in Normal: end = Partial(u, w) /\ ResolvesTo(<<>>, d, q, Len(q), u, w)
    BY <1>1, <1>3, UnrootedResolution
  <1>. HIDE DEF end
  <1>5. end.ups = u /\ end.comps = w
    BY <1>4 DEF Partial
  <1>6. ResolvePath(path, base) = Relative(Dots(u) \o w)
    BY <1>2, <1>e, <1>5 DEF Relative
  <1>7. Dots(u) \o w \in Normal
    <2>1. CASE u = 0
      <3>1. w \in Seq(Component)
        BY DEF Normal
      <3> QED
        BY <2>1, <3>1, NoConcat
    <2>2. CASE u # 0
      <3>1. w \in Seq(Name)
        BY <1>4, <2>2 DEF ResolvesTo
      <3> QED
        BY <3>1, DotsThenNames
    <2> QED
      BY <2>1, <2>2
  <1> QED
    BY <1>6, <1>7

\* What stands before the name in `result` leads to the directory that a walk along
\* q reaches before the name.
KeepsPlace(result, cwd, d, q, w) ==
  /\ result = Relative(Append(w, Last(q)))
  /\ Follow(Follow(cwd, d), q) = Append(Follow(cwd, w), Last(q))

\* One that ends in a name keeps its place.
LEMMA UnrootedName ==
  ASSUME NEW path, NEW base, path.abs = FALSE, base.abs = FALSE,
         NEW q \in Seq(Component), path.comps = q, q # <<>>, Last(q) \in Name,
         NEW d \in Normal, BaseDirectory(path, base) = d,
         NEW cwd \in Seq(Name), Straight(d, q)
  PROVE  \E w \in Normal: KeepsPlace(ResolvePath(path, base), cwd, d, q, w)
  <1>. DEFINE rooted == path.abs \/ base.abs
              N == Len(q)
              f == Follow(cwd, d)
              end == Resolution(rooted, d, q)[N]
              before == Resolution(rooted, d, q)[N - 1]
              l == Last(q)
  <1>1. /\ N \in 1..N /\ N - 1 \in 0..N /\ l = q[N] /\ l \in Name
        /\ l \in Component /\ l \notin {"..", ".", ""}
    <2>1. N \in Nat /\ N # 0
      BY LenProperties, EmptySeq
    <2>2. l = q[N]
      BY FrontProperties
    <2>3. l \in Component /\ l \notin {"..", ".", ""}
      BY DEF Name
    <2>4. N \in 1..N /\ N - 1 \in 0..N
      BY <2>1
    <2>5. l \in Name
      OBVIOUS
    <2>. HIDE DEF l, N
    <2> QED
      BY <2>2, <2>3, <2>4, <2>5
  <1>2. ResolvePath(path, base) = [abs |-> rooted, comps |-> Dots(end.ups) \o end.comps]
    BY DEF ResolvePath, Dots
  <1>3. ~rooted
    OBVIOUS
  <1>e. rooted = FALSE
    OBVIOUS
  <1>. HIDE DEF rooted
  <1>4. PICK u \in Nat, w \in Normal: before = Partial(u, w) /\ ResolvesTo(cwd, d, q, N - 1, u, w)
    <2>. HIDE DEF N, f, l
    <2>1. \A n \in 0..Len(q): \E u \in Nat, w \in Normal:
            Resolution(rooted, d, q)[n] = Partial(u, w) /\ ResolvesTo(cwd, d, q, n, u, w)
      BY <1>3, UnrootedResolution
    <2> QED
      BY <1>1, <2>1 DEF N
  <1>5. end = Apply(rooted, before, l)
    <2>1. \A n \in 1..N: Resolution(rooted, d, q)[n] = Apply(rooted, Resolution(rooted, d, q)[n - 1], q[n])
      BY ResolutionSteps
    <2> QED
      BY <1>1, <2>1
  <1>6. w \in Seq(Component) /\ Dots(u) \in Seq(Component) /\ d \in Seq(Component)
    BY DotsIsSeq DEF Normal
  <1>w. \A n \in 1..N: Walk(f, q)[n] = Enter(Walk(f, q)[n - 1], q[n])
    BY WalkSteps
  <1>f. f \in Seq(Name)
    BY <1>6, FollowBasics
  <1>. HIDE DEF end, before
  <1>. DEFINE g == Dots(u) \o w
              x == Append(w, l)
  <1>7. end = Partial(u, x)
    <2>1. l \in Name
      OBVIOUS
    <2>. HIDE DEF l, N, f
    <2>2. Apply(rooted, Partial(u, w), l) = Partial(u, Append(w, l))
      BY <1>3, <2>1, ApplyName
    <2> QED
      BY <1>4, <1>5, <2>2
  <1>8. end.ups = u /\ end.comps = x
    BY <1>7 DEF Partial
  <1>9. Dots(u) \o x = Append(g, l)
    <2>1. l \in Component
      BY <1>1
    <2>. HIDE DEF l, N, f
    <2> QED
      BY <1>6, <2>1, ConcatAppend
  <1>10. ResolvePath(path, base) = Relative(Append(g, l))
    BY <1>2, <1>e, <1>8, <1>9 DEF Relative
  <1>11. g \in Normal
    <2>1. CASE u = 0
      BY <1>6, <2>1, NoConcat
    <2>2. CASE u # 0
      <3>1. w \in Seq(Name)
        BY <1>4, <2>2 DEF ResolvesTo
      <3> QED
        BY <3>1, DotsThenNames
    <2> QED
      BY <2>1, <2>2
  <1>12. Follow(cwd, g) = Walk(f, q)[N - 1]
    BY <1>4 DEF ResolvesTo
  <1>13. Follow(f, q) = Append(Follow(cwd, g), l)
    <2>1. Walk(f, q)[N] = Enter(Walk(f, q)[N - 1], l)
      BY <1>1, <1>w
    <2>. DEFINE r == Follow(cwd, g)
    <2>2. Follow(f, q) = Enter(r, l)
      BY <1>12, <2>1 DEF Follow
    <2>. HIDE DEF r
    <2>3. Enter(r, l) = Append(r, l)
      BY <1>1, EnterName
    <2> QED
      BY <2>2, <2>3 DEF r
  <1>. HIDE DEF g, f, l
  <1> QED
    BY <1>10, <1>11, <1>13 DEF f, l, KeepsPlace

----------------------------------------------------------------------------
(* Suffixes                                                                *)

\* A fact about texts that no prover here knows: no text with ".luau" at its end
\* is empty, "." or "..".
Texts == \A component \in Component: component \o ".luau" \in Name

\* A module's name with the suffix, in the directory `front`.
Suffix(front, last, suffix) ==
  IF suffix = ".luau" THEN Append(front, last \o ".luau")
  ELSE Append(Append(front, last), "init.luau")

\* What Suffixed does with a path that has components, and with an empty one.
LEMMA SuffixedText ==
  ASSUME NEW x, x # <<>>
  PROVE  /\ Suffixed(Relative(x), ".luau") = Relative(Append(Front(x), Last(x) \o ".luau"))
         /\ Suffixed(Absolute(x), ".luau") = Absolute(Append(Front(x), Last(x) \o ".luau"))
         /\ Suffixed(Relative(x), "/init.luau") = Relative(Append(x, "init.luau"))
         /\ Suffixed(Absolute(x), "/init.luau") = Absolute(Append(x, "init.luau"))
  BY Zenon DEF Suffixed, Relative, Absolute

LEMMA SuffixedEmpty ==
  /\ Suffixed(Relative(<<>>), ".luau") = Relative(<<".luau">>)
  /\ Suffixed(Absolute(<<>>), ".luau") = Absolute(<<".luau">>)
  /\ Suffixed(Relative(<<>>), "/init.luau") = Absolute(Append(<<>>, "init.luau"))
  BY Zenon DEF Suffixed, Relative, Absolute

\* With the suffix, a name is still the last component, or becomes a directory.
LEMMA SuffixedName ==
  ASSUME NEW front \in Seq(Component), NEW last \in Component,
         NEW suffix \in {".luau", "/init.luau"}
  PROVE  /\ Suffixed(Relative(Append(front, last)), suffix) = Relative(Suffix(front, last, suffix))
         /\ Suffixed(Absolute(Append(front, last)), suffix) = Absolute(Suffix(front, last, suffix))
  <1>. DEFINE x == Append(front, last)
  <1>1. x # <<>> /\ Front(x) = front /\ Last(x) = last
    BY FrontOfAppend
  <1>. HIDE DEF x
  <1>2. CASE suffix = ".luau"
    <2>1. /\ Suffixed(Relative(x), ".luau") = Relative(Append(Front(x), Last(x) \o ".luau"))
          /\ Suffixed(Absolute(x), ".luau") = Absolute(Append(Front(x), Last(x) \o ".luau"))
      BY <1>1, SuffixedText
    <2> QED
      BY <1>1, <1>2, <2>1 DEF Suffix, x
  <1>3. CASE suffix = "/init.luau"
    <2>1. /\ Suffixed(Relative(x), "/init.luau") = Relative(Append(x, "init.luau"))
          /\ Suffixed(Absolute(x), "/init.luau") = Absolute(Append(x, "init.luau"))
      BY <1>1, SuffixedText
    <2> QED
      BY <1>1, <1>3, <2>1 DEF Suffix, x
  <1> QED
    BY <1>2, <1>3

\* The chunkname of a module: in normal form, with a name at the end.
Chunkname(c) ==
  \E f \in Normal, l \in Name:
    \/ c = Relative(Append(f, l))
    \/ f \in Seq(Name) /\ c = Absolute(Append(f, l))

\* With its suffix, the name of a file is in normal form and ends in a name.
LEMMA SuffixedAbsolute ==
  ASSUME Texts, NEW x \in Seq(Name), x # <<>>, NEW suffix \in {".luau", "/init.luau"}
  PROVE  \E f \in Seq(Name), l \in Name: Suffixed(Absolute(x), suffix) = Absolute(Append(f, l))
  <1>1. PICK f \in Seq(Name), l \in Name: x = Append(f, l)
    BY AppendToFront
  <1>2. f \in Seq(Component) /\ l \in Component
    BY NamesAreComponents DEF Name
  <1>3. Suffixed(Absolute(x), suffix) = Absolute(Suffix(f, l, suffix))
    BY <1>1, <1>2, SuffixedName
  <1>4. CASE suffix = ".luau"
    <2>1. Suffix(f, l, suffix) = Append(f, l \o ".luau")
      BY <1>4 DEF Suffix
    <2>2. l \o ".luau" \in Name
      BY <1>2 DEF Texts
    <2> QED
      BY <1>3, <2>1, <2>2
  <1>5. CASE suffix = "/init.luau"
    <2>1. Suffix(f, l, suffix) = Append(x, "init.luau")
      BY <1>1, <1>5 DEF Suffix
    <2> QED
      BY <1>3, <2>1, Literals
  <1> QED
    BY <1>4, <1>5

\* And so does a chunkname.
LEMMA SuffixedRelative ==
  ASSUME Texts, NEW x \in Normal, NEW suffix \in {".luau", "/init.luau"}
  PROVE  Chunkname(Suffixed(Relative(x), suffix))
  <1>0. <<>> \in Seq(Name) /\ <<>> \in Normal
    BY EmptySeq, NamesAreNormal
  <1>1. CASE x = <<>>
    <2>1. <<".luau">> = Append(<<>>, ".luau")
      BY EmptySeq
    <2>2. /\ Suffixed(Relative(<<>>), ".luau") = Relative(Append(<<>>, ".luau"))
          /\ Suffixed(Relative(<<>>), "/init.luau") = Absolute(Append(<<>>, "init.luau"))
      BY <2>1, SuffixedEmpty
    <2> QED
      BY <1>0, <1>1, <2>2, Literals DEF Chunkname
  <1>2. CASE x # <<>>
    <2>0. x \in Seq(Component)
      BY DEF Normal
    <2>1. PICK f \in Seq(Component), l \in Component: x = Append(f, l) /\ f = Front(x)
      BY <1>2, <2>0, AppendToFront
    <2>2. f \in Normal
      BY <1>2, <2>1, NormalFront
    <2>3. Suffixed(Relative(x), suffix) = Relative(Suffix(f, l, suffix))
      BY <2>1, SuffixedName
    <2>4. CASE suffix = ".luau"
      <3>1. Suffix(f, l, suffix) = Append(f, l \o ".luau")
        BY <2>4 DEF Suffix
      <3>2. l \o ".luau" \in Name
        BY DEF Texts
      <3> QED
        BY <2>2, <2>3, <3>1, <3>2 DEF Chunkname
    <2>5. CASE suffix = "/init.luau"
      <3>1. Suffix(f, l, suffix) = Append(x, "init.luau")
        BY <2>1, <2>5 DEF Suffix
      <3> QED
        BY <2>3, <3>1, Literals DEF Chunkname
    <2> QED
      BY <2>4, <2>5
  <1> QED
    BY <1>1, <1>2

\* The suffix keeps a chunkname at the place of the file.
LEMMA SuffixedPlace ==
  ASSUME Texts, NEW g \in Seq(Component), NEW d \in Seq(Name), NEW cwd \in Seq(Name),
         NEW l \in Name, Follow(cwd, g) = d, NEW suffix \in {".luau", "/init.luau"}
  PROVE  Follow(cwd, Suffix(g, l, suffix)) = Suffix(d, l, suffix)
  <1>1. l \in Component /\ l \o ".luau" \in Name
    BY DEF Name, Texts
  <1>2. CASE suffix = ".luau"
    <2>1. Follow(cwd, Append(g, l \o ".luau")) = Append(d, l \o ".luau")
      BY <1>1, FollowName
    <2> QED
      BY <1>2, <2>1 DEF Suffix
  <1>3. CASE suffix = "/init.luau"
    <2>1. Follow(cwd, Append(g, l)) = Append(d, l)
      BY FollowName
    <2>2. Append(g, l) \in Seq(Component)
      BY <1>1, AppendProperties
    <2>3. Follow(cwd, Append(Append(g, l), "init.luau")) = Append(Append(d, l), "init.luau")
      BY <2>1, <2>2, Literals, FollowName
    <2> QED
      BY <1>3, <2>3 DEF Suffix
  <1> QED
    BY <1>2, <1>3

\* The place of a path, relative or absolute.
LEMMA PlaceOf ==
  ASSUME NEW x, NEW cwd
  PROVE  /\ Place(Relative(x), cwd) = Follow(cwd, x)
         /\ Place(Absolute(x), cwd) = Follow(<<>>, x)
  BY PathFields DEF Place, Follow

----------------------------------------------------------------------------
(* What a require reads                                                    *)

\* A relative path, followed from the directory of a file.
LEMMA BesideFile ==
  ASSUME NEW path, path.abs = FALSE, path.comps \in Seq(Component), NEW d \in Seq(Name), NEW l
  PROVE  ResolvePath(path, Absolute(Append(d, l))) = Absolute(Place(path, d))
  <1>. DEFINE base == Absolute(Append(d, l))
              q == path.comps
  <1>1. path.abs = FALSE /\ q \in Seq(Component)
    OBVIOUS
  <1>2. base.abs = TRUE /\ base.comps = Append(d, l)
    BY PathFields
  <1>3. BaseDirectory(path, base) = d
    <2>1. Append(d, l) # <<>> /\ Front(Append(d, l)) = d
      <3>1. d \in Seq(Name \cup {l}) /\ l \in Name \cup {l}
        OBVIOUS
      <3> QED
        BY <3>1, FrontOfAppend
    <2>. HIDE DEF base
    <2> QED
      BY <1>1, <1>2, <2>1 DEF BaseDirectory
  <1>4. Place(path, d) = Follow(d, q)
    BY <1>1 DEF Place, Follow
  <1>. HIDE DEF base, q
  <1>5. ResolvePath(path, base) = Absolute(Follow(d, q))
    BY <1>1, <1>2, <1>3, RootedPath DEF q
  <1> QED
    BY <1>4, <1>5 DEF base

\* A path that ends in a name does not lead to the root.
LEMMA SomewhereNamed ==
  ASSUME EndsInNames, NEW path \in Requests \union Aliased, NEW d \in Seq(Name),
         Place(path, d) = Follow(d, path.comps)
  PROVE  Place(path, d) # <<>>
  <1>. DEFINE q == path.comps
  <1>1. q \in Seq(Component) /\ q # <<>> /\ Last(q) \in Name
    BY PathAssumption DEF EndsInNames
  <1>. HIDE DEF q
  <1>2. PICK g \in Seq(Component), e \in Name: q = Append(g, e)
    BY <1>1, AppendToFront
  <1>3. Follow(d, Append(g, e)) = Append(Follow(d, g), e) /\ Follow(d, g) \in Seq(Name)
    BY FollowName, FollowBasics
  <1>4. Follow(d, q) # <<>>
    BY <1>2, <1>3, FrontOfAppend
  <1> QED
    BY <1>4 DEF q

\* An absolute path, whatever the base.
LEMMA Sanitized ==
  ASSUME EndsInNames, NEW path \in Aliased
  PROVE  /\ ResolvePath(path, Relative(<<>>)) = Absolute(Place(path, <<>>))
         /\ Place(path, <<>>) \in Seq(Name) /\ Place(path, <<>>) # <<>>
  <1>. DEFINE base == Relative(<<>>)
              q == path.comps
  <1>1. path.abs = TRUE /\ q \in Seq(Component) /\ <<>> \in Seq(Name)
    BY PathAssumption, EmptySeq
  <1>2. BaseDirectory(path, base) = <<>>
    BY <1>1 DEF BaseDirectory
  <1>3. Place(path, <<>>) = Follow(<<>>, q)
    BY <1>1 DEF Place, Follow
  <1>. HIDE DEF base, q
  <1>4. ResolvePath(path, base) = Absolute(Follow(<<>>, q))
    BY <1>1, <1>2, RootedPath DEF q
  <1>5. Place(path, <<>>) # <<>>
    BY <1>1, <1>3, SomewhereNamed DEF q
  <1> QED
    BY <1>1, <1>3, <1>4, <1>5, FollowBasics DEF base

\* A request names a place below the directory it is made from, or above.
LEMMA PlaceBeside ==
  ASSUME NEW path \in Requests, NEW d \in Seq(Name)
  PROVE  /\ path.abs = FALSE /\ path.comps \in Seq(Component)
         /\ Place(path, d) = Follow(d, path.comps) /\ Place(path, d) \in Seq(Name)
  <1>1. path.abs = FALSE /\ path.comps \in Seq(Component)
    BY PathAssumption
  <1>2. Place(path, d) = Follow(d, path.comps)
    BY <1>1 DEF Place, Follow
  <1> QED
    BY <1>1, <1>2, FollowBasics

\* join_paths appends.
LEMMA JoinAbsolute ==
  ASSUME NEW x, NEW name
  PROVE  Join(Absolute(x), name) = Absolute(Append(x, name))
  <1>1. Join(Absolute(x), name) = [abs |-> TRUE, comps |-> Append(x, name)]
    BY PathFields DEF Join
  <1> QED
    BY <1>1 DEF Absolute

\* The directories of "paths" are absolute.
LEMMA SearchDirectory ==
  ASSUME NEW directory \in SearchDirs
  PROVE  directory = Absolute(directory.comps)
  <1>1. directory \in [abs: {TRUE}, comps: Seq(Component)]
    BY PathAssumption
  <1>2. directory = [abs |-> TRUE, comps |-> directory.comps]
    BY <1>1
  <1> QED
    BY <1>2 DEF Absolute

----------------------------------------------------------------------------
(* Names in normal form                                                    *)

\* Whatever a chain reads has a name in normal form.
NameInv == file \in Seq(Name) /\ Chunkname(source_chunkname)

\* The absolute name of the running module, made from its chunkname.
LEMMA ContextPlace ==
  ASSUME Chunkname(source_chunkname)
  PROVE  \E d \in Seq(Name), l \in Name:
           AbsoluteContext = Absolute(Append(d, l)) /\ Place(source_chunkname, Cwd) = Append(d, l)
  <1>1. PICK f \in Normal, l \in Name:
          \/ source_chunkname = Relative(Append(f, l))
          \/ f \in Seq(Name) /\ source_chunkname = Absolute(Append(f, l))
    BY DEF Chunkname
  <1>. DEFINE x == Append(f, l)
  <1>2. f \in Seq(Component) /\ l \in Component
    BY DEF Normal, Name
  <1>3. x \in Seq(Component)
    BY <1>2, AppendProperties
  <1>4. CASE source_chunkname = Relative(x)
    <2>. DEFINE d == Follow(Cwd, f)
    <2>1. Cwd \in Seq(Name)
      BY PathAssumption
    <2>2. Follow(Cwd, x) = Append(d, l) /\ d \in Seq(Name)
      BY <1>2, <2>1, FollowName, FollowBasics
    <2>3. Relative(x).abs = FALSE /\ Relative(x).comps = x
      BY PathFields
    <2>4. Place(Relative(x), Cwd) = Append(d, l)
      BY <2>2, PlaceOf
    <2>5. AbsoluteContext = ResolvePath(Relative(x), Absolute(Append(Cwd, "stdin")))
      BY <1>4, <2>3, JoinAbsolute DEF AbsoluteContext
    <2>. DEFINE path == Relative(x)
    <2>6. path.abs = FALSE /\ path.comps \in Seq(Component) /\ path = Relative(x)
      BY <1>3, <2>3
    <2>. HIDE DEF path, d
    <2>7. ResolvePath(path, Absolute(Append(Cwd, "stdin"))) = Absolute(Place(path, Cwd))
      BY <2>1, <2>6, BesideFile
    <2>8. AbsoluteContext = Absolute(Append(d, l)) /\ Place(source_chunkname, Cwd) = Append(d, l)
      BY <1>4, <2>4, <2>5, <2>6, <2>7
    <2> QED
      BY <2>2, <2>8
  <1>5. CASE f \in Seq(Name) /\ source_chunkname = Absolute(x)
    <2>1. x \in Seq(Name)
      BY <1>5, AppendProperties
    <2>2. Absolute(x).abs = TRUE
      BY PathFields
    <2>3. AbsoluteContext = Absolute(x)
      BY <1>5, <2>2 DEF AbsoluteContext
    <2>4. Place(Absolute(x), Cwd) = x
      BY <2>1, PlaceOf, FollowNames
    <2> QED
      BY <1>5, <2>3, <2>4
  <1> QED
    BY <1>1, <1>4, <1>5

\* The chunkname that a require beside the running module makes.
LEMMA DefaultName ==
  ASSUME EndsInNames, NEW c, Chunkname(c), NEW path \in Requests
  PROVE  \/ \E w \in Normal: ResolvePath(path, c) = Relative(w)
         \/ \E w \in Seq(Name): w # <<>> /\ ResolvePath(path, c) = Absolute(w)
  <1>1. PICK f \in Normal, l \in Name:
          c = Relative(Append(f, l)) \/ (f \in Seq(Name) /\ c = Absolute(Append(f, l)))
    BY DEF Chunkname
  <1>2. path.abs = FALSE /\ path.comps \in Seq(Component)
    BY PathAssumption
  <1>3. CASE c = Relative(Append(f, l))
    <2>. DEFINE q == path.comps
    <2>1. c.abs = FALSE /\ c.comps = Append(f, l)
      BY <1>3, PathFields
    <2>2. f \in Seq(Component) /\ l \in Component
      BY DEF Normal, Name
    <2>3. Append(f, l) # <<>> /\ Front(Append(f, l)) = f
      BY <2>2, FrontOfAppend
    <2>4. BaseDirectory(path, c) = f
      BY <1>2, <2>1, <2>3 DEF BaseDirectory
    <2>5. \E w \in Normal: ResolvePath(path, c) = Relative(w)
      BY <1>2, <2>1, <2>4, UnrootedPath
    <2> QED
      BY <2>5
  <1>4. CASE f \in Seq(Name) /\ c = Absolute(Append(f, l))
    <2>1. ResolvePath(path, Absolute(Append(f, l))) = Absolute(Place(path, f))
      BY <1>2, <1>4, BesideFile
    <2>2. Place(path, f) \in Seq(Name) /\ Place(path, f) # <<>>
      BY <1>4, PlaceBeside, SomewhereNamed
    <2> QED
      BY <1>4, <2>1, <2>2
  <1> QED
    BY <1>1, <1>3, <1>4

\* A module is given its name and read.
LEMMA RunNames ==
  ASSUME Texts, NEW c, NEW x \in Seq(Name), x # <<>>, NEW path, NEW from, Run(c, Absolute(x), path, from),
         (\E w \in Normal: c = Relative(w)) \/ (\E w \in Seq(Name): w # <<>> /\ c = Absolute(w))
  PROVE  NameInv'
  <1>1. PICK suffix \in {".luau", "/init.luau"}:
          /\ source_chunkname' = Suffixed(c, suffix)
          /\ file' = Suffixed(Absolute(x), suffix).comps
    BY DEF Run
  <1>2. PICK f \in Seq(Name), l \in Name: Suffixed(Absolute(x), suffix) = Absolute(Append(f, l))
    BY SuffixedAbsolute
  <1>3. file' \in Seq(Name)
    <2>1. Absolute(Append(f, l)).comps = Append(f, l)
      BY PathFields
    <2> QED
      BY <1>1, <1>2, <2>1, AppendProperties
  <1>4. Chunkname(Suffixed(c, suffix))
    <2>1. ASSUME NEW w \in Normal, c = Relative(w) PROVE Chunkname(Suffixed(c, suffix))
      BY <2>1, SuffixedRelative
    <2>2. ASSUME NEW w \in Seq(Name), w # <<>>, c = Absolute(w) PROVE Chunkname(Suffixed(c, suffix))
      <3>1. PICK g \in Seq(Name), e \in Name: Suffixed(Absolute(w), suffix) = Absolute(Append(g, e))
        BY <2>2, SuffixedAbsolute
      <3>2. g \in Normal
        BY NamesAreNormal
      <3> QED
        BY <2>2, <3>1, <3>2 DEF Chunkname
    <2> QED
      BY <2>1, <2>2
  <1> QED
    BY <1>1, <1>3, <1>4 DEF NameInv

\* The main script has such a name.
LEMMA InitNames ==
  ChainInit => NameInv
  <1>. SUFFICES ASSUME ChainInit PROVE NameInv
    OBVIOUS
  <1>1. <<"main.luau">> = Append(<<>>, "main.luau") /\ <<>> \in Seq(Name)
    BY EmptySeq
  <1>2. <<>> \in Normal
    BY <1>1, NamesAreNormal
  <1>3. source_chunkname = Relative(Append(<<>>, "main.luau"))
    BY <1>1 DEF ChainInit
  <1>4. Chunkname(source_chunkname)
    BY <1>2, <1>3, Literals DEF Chunkname
  <1>5. MainDir \in Seq(Name) /\ file = MainDir \o <<"main.luau">>
    BY PathAssumption DEF ChainInit
  <1>6. MainDir \o <<"main.luau">> = Append(MainDir, "main.luau")
    BY <1>5, Literals, AppendIsConcat
  <1>7. file \in Seq(Name)
    BY <1>5, <1>6, Literals, AppendProperties
  <1> QED
    BY <1>4, <1>7 DEF NameInv

\* A path below a directory of "paths".
LEMMA InPaths ==
  ASSUME PlainDirectories, EndsInNames, NEW path \in Requests, NEW directory \in SearchDirs
  PROVE  /\ ResolvePath(path, Join(directory, "placeholder")) = Absolute(Place(path, directory.comps))
         /\ Place(path, directory.comps) \in Seq(Name) /\ directory.comps \in Seq(Name)
         /\ Place(path, directory.comps) # <<>>
  <1>. DEFINE d == directory.comps
  <1>1. d \in Seq(Name)
    BY DEF PlainDirectories
  <1>2. directory = Absolute(d)
    BY SearchDirectory
  <1>3. Join(Absolute(d), "placeholder") = Absolute(Append(d, "placeholder"))
    BY JoinAbsolute
  <1>. HIDE DEF d
  <1>4. path.abs = FALSE /\ path.comps \in Seq(Component) /\ Place(path, d) \in Seq(Name)
        /\ Place(path, d) # <<>>
    BY <1>1, PlaceBeside, SomewhereNamed
  <1>5. ResolvePath(path, Absolute(Append(d, "placeholder"))) = Absolute(Place(path, d))
    BY <1>1, <1>4, BesideFile
  <1>6. ResolvePath(path, Join(directory, "placeholder")) = Absolute(Place(path, d))
    BY <1>2, <1>3, <1>5
  <1> QED
    BY <1>1, <1>4, <1>6 DEF d

\* Each kind of require keeps names in normal form.
LEMMA NextNames ==
  ASSUME Texts, PlainDirectories, EndsInNames, NameInv, [ChainNext]_chain
  PROVE  NameInv'
  <1>1. ASSUME NEW path \in Requests, RequireDefault(path) PROVE NameInv'
    <2>1. PICK d \in Seq(Name), l \in Name: AbsoluteContext = Absolute(Append(d, l))
      BY ContextPlace DEF NameInv
    <2>2. path.abs = FALSE /\ path.comps \in Seq(Component) /\ Place(path, d) \in Seq(Name)
          /\ Place(path, d) # <<>>
      BY PlaceBeside, SomewhereNamed
    <2>3. ResolvePath(path, Absolute(Append(d, l))) = Absolute(Place(path, d))
      BY <2>2, BesideFile
    <2>4. Run(ResolvePath(path, source_chunkname), Absolute(Place(path, d)), path, Front(file))
      BY <1>1, <2>1, <2>3 DEF RequireDefault
    <2>5. \/ \E w \in Normal: ResolvePath(path, source_chunkname) = Relative(w)
          \/ \E w \in Seq(Name): w # <<>> /\ ResolvePath(path, source_chunkname) = Absolute(w)
      BY DefaultName DEF NameInv
    <2> QED
      BY <2>2, <2>4, <2>5, RunNames
  <1>2. ASSUME NEW path \in Requests, RequireInPaths(path) PROVE NameInv'
    <2>1. PICK directory \in SearchDirs:
            LET found == ResolvePath(path, Join(directory, "placeholder"))
            IN  Run(found, found, path, directory.comps)
      BY <1>2 DEF RequireInPaths
    <2>. DEFINE x == Place(path, directory.comps)
    <2>2. ResolvePath(path, Join(directory, "placeholder")) = Absolute(x) /\ x \in Seq(Name) /\ x # <<>>
      BY InPaths
    <2>. HIDE DEF x
    <2>3. Run(Absolute(x), Absolute(x), path, directory.comps)
      BY <2>1, <2>2
    <2> QED
      BY <2>2, <2>3, RunNames
  <1>3. ASSUME NEW path \in Aliased, RequireAlias(path) PROVE NameInv'
    <2>. DEFINE x == Place(path, <<>>)
    <2>1. ResolvePath(path, Relative(<<>>)) = Absolute(x) /\ x \in Seq(Name) /\ x # <<>>
      BY Sanitized
    <2>. HIDE DEF x
    <2>2. Run(Absolute(x), Absolute(x), path, <<>>)
      BY <1>3, <2>1 DEF RequireAlias
    <2> QED
      BY <2>1, <2>2, RunNames
  <1>4. CASE UNCHANGED chain
    BY <1>4 DEF chain, NameInv
  <1> QED
    BY <1>1, <1>2, <1>3, <1>4 DEF ChainNext

\* Which is what Normalized says, component by component.
LEMMA NamesNormalized ==
  NameInv => Normalized
  <1>. SUFFICES ASSUME NameInv PROVE Normalized
    OBVIOUS
  <1>1. \A k \in DOMAIN file: file[k] \notin {"", ".", ".."}
    <2>1. DOMAIN file = 1..Len(file) /\ \A k \in 1..Len(file): file[k] \in Name
      BY LenProperties, ElementOfSeq DEF NameInv
    <2> QED
      BY <2>1 DEF Name
  <1>2. PICK f \in Normal, l \in Name:
          \/ source_chunkname = Relative(Append(f, l))
          \/ f \in Seq(Name) /\ source_chunkname = Absolute(Append(f, l))
    BY DEF NameInv, Chunkname
  <1>. DEFINE x == Append(f, l)
  <1>3. x \in Normal
    BY NormalAppend
  <1>4. source_chunkname.comps = x
    BY <1>2, PathFields
  <1>5. source_chunkname.abs = FALSE \/ x \in Seq(Name)
    <2>1. CASE source_chunkname = Relative(x)
      BY <2>1, PathFields
    <2>2. CASE f \in Seq(Name)
      BY <2>2, AppendProperties
    <2> QED
      BY <1>2, <2>1, <2>2
  <1>. HIDE DEF x
  <1>6. DOMAIN x = 1..Len(x)
    <2>1. x \in Seq(Component)
      BY <1>3 DEF Normal
    <2> QED
      BY <2>1, LenProperties
  <1>7. ASSUME NEW k \in 1..Len(x)
        PROVE  x[k] \notin {"", "."} /\ (x[k] = ".." => ~source_chunkname.abs /\ \A j \in 1..k: x[j] = "..")
    <2>1. x[k] \notin {"", "."} /\ (x[k] = ".." => \A j \in 1..k: x[j] = "..")
      BY <1>3 DEF Normal
    <2>2. ASSUME x \in Seq(Name) PROVE x[k] # ".."
      <3>1. x[k] \in Name
        BY <2>2, ElementOfSeq
      <3> QED
        BY <3>1 DEF Name
    <2> QED
      BY <1>5, <2>1, <2>2
  <1>8. \A k \in DOMAIN source_chunkname.comps:
          /\ source_chunkname.comps[k] \notin {"", "."}
          /\ source_chunkname.comps[k] = ".." =>
               ~source_chunkname.abs /\ \A j \in 1..k: source_chunkname.comps[j] = ".."
    BY <1>4, <1>6, <1>7
  <1> QED
    BY <1>1, <1>8 DEF Normalized

\* Whatever modules require, from wherever the main script lies: the names of
\* files and chunks are in normal form, if what is required ends in a name. (A
\* require of the root itself reads "//init.luau".)
THEOREM AlwaysNormalized ==
  ASSUME Texts, PlainDirectories, EndsInNames
  PROVE  ChainSpec => []Normalized
  <1>1. ChainInit => NameInv
    BY InitNames
  <1>2. NameInv /\ [ChainNext]_chain => NameInv'
    BY NextNames
  <1>3. NameInv => Normalized
    BY NamesNormalized
  <1> QED
    BY <1>1, <1>2, <1>3, PTL DEF ChainSpec

----------------------------------------------------------------------------
(* Names and places                                                        *)

\* The name of the running module leads to its file, which is what was asked for.
PlaceInv == NameInv /\ ChunkNamesFile /\ ReadsWhatIsAsked

\* A chunkname that is the absolute path itself.
LEMMA SamePlaces ==
  ASSUME Texts, NEW path, NEW from, NEW x \in Seq(Name), x # <<>>, Place(path, from) = x,
         Run(Absolute(x), Absolute(x), path, from)
  PROVE  ChunkNamesFile' /\ ReadsWhatIsAsked'
  <1>1. PICK suffix \in {".luau", "/init.luau"}:
          /\ source_chunkname' = Suffixed(Absolute(x), suffix)
          /\ file' = Suffixed(Absolute(x), suffix).comps
          /\ asked' = [path |-> path, from |-> from, suffix |-> suffix]
    BY DEF Run
  <1>2. PICK f \in Seq(Name), l \in Name: Suffixed(Absolute(x), suffix) = Absolute(Append(f, l))
    BY SuffixedAbsolute
  <1>. DEFINE y == Append(f, l)
  <1>3. y \in Seq(Name) /\ Absolute(y).comps = y
    BY AppendProperties, PathFields
  <1>4. Place(Absolute(y), Cwd) = y
    BY <1>3, PlaceOf, FollowNames
  <1>. HIDE DEF y
  <1>5. source_chunkname' = Absolute(y) /\ file' = y
    BY <1>1, <1>2, <1>3 DEF y
  <1>6. ChunkNamesFile'
    BY <1>4, <1>5 DEF ChunkNamesFile
  <1>7. asked'.path = path /\ asked'.from = from /\ asked'.suffix = suffix
    BY <1>1
  <1>8. ReadsWhatIsAsked'
    BY <1>1, <1>7 DEF ReadsWhatIsAsked
  <1> QED
    BY <1>6, <1>8

\* A relative chunkname keeps at the place of the file, if the path does not take
\* ".." off what begins with ".." already.
LEMMA RelativePlaces ==
  ASSUME Texts, NEW path \in Requests, path.comps # <<>>, Last(path.comps) \in Name,
         NEW c, NEW f \in Normal, NEW l \in Name, c = Relative(Append(f, l)),
         Straight(f, path.comps),
         NEW suffix \in {".luau", "/init.luau"}
  PROVE  Place(Suffixed(ResolvePath(path, c), suffix), Cwd)
           = Suffixed(Absolute(Follow(Follow(Cwd, f), path.comps)), suffix).comps
  <1>. DEFINE q == path.comps
              e == Last(q)
              r == Follow(Follow(Cwd, f), q)
  <1>1. path.abs = FALSE /\ q \in Seq(Component) /\ Cwd \in Seq(Name) /\ e \in Name
    BY PathAssumption
  <1>2. c.abs = FALSE /\ c.comps = Append(f, l)
    BY PathFields
  <1>3. f \in Seq(Component) /\ l \in Component
    BY DEF Normal, Name
  <1>4. Append(f, l) # <<>> /\ Front(Append(f, l)) = f
    BY <1>3, FrontOfAppend
  <1>5. BaseDirectory(path, c) = f
    BY <1>1, <1>2, <1>4 DEF BaseDirectory
  <1>6. PICK w \in Normal: ResolvePath(path, c) = Relative(Append(w, e)) /\ r = Append(Follow(Cwd, w), e)
    <2>. HIDE DEF q
    <2>1. \E w \in Normal: KeepsPlace(ResolvePath(path, c), Cwd, f, q, w)
      <3>1. /\ path.abs = FALSE /\ c.abs = FALSE /\ path.comps = q /\ q # <<>>
            /\ Last(q) \in Name
        BY <1>1, <1>2 DEF q
      <3>2. Straight(f, q)
        BY DEF q
      <3>3. q \in Seq(Component) /\ Cwd \in Seq(Name)
        BY <1>1
      <3>. HIDE DEF e, r
      <3> QED
        BY <1>5, <3>1, <3>2, <3>3, UnrootedName
    <2> QED
      BY <2>1 DEF KeepsPlace
  <1>. DEFINE d == Follow(Cwd, w)
  <1>7. w \in Seq(Component)
    BY DEF Normal
  <1>8. d \in Seq(Name)
    BY <1>1, <1>7, FollowBasics
  <1>9. d \in Seq(Component) /\ e \in Component /\ d = Follow(Cwd, w)
    BY <1>1, <1>8, NamesAreComponents DEF Name
  <1>. HIDE DEF d, e, r
  <1>10. Suffixed(Relative(Append(w, e)), suffix) = Relative(Suffix(w, e, suffix))
    BY <1>7, <1>9, SuffixedName
  <1>11. Suffixed(Absolute(Append(d, e)), suffix) = Absolute(Suffix(d, e, suffix))
    BY <1>9, SuffixedName
  <1>12. Follow(Cwd, Suffix(w, e, suffix)) = Suffix(d, e, suffix)
    BY <1>1, <1>7, <1>8, <1>9, SuffixedPlace
  <1>13. Place(Relative(Suffix(w, e, suffix)), Cwd) = Suffix(d, e, suffix)
    BY <1>12, PlaceOf
  <1>14. Absolute(Suffix(d, e, suffix)).comps = Suffix(d, e, suffix)
    BY PathFields
  <1>15. Place(Suffixed(ResolvePath(path, c), suffix), Cwd) = Suffixed(Absolute(r), suffix).comps
    BY <1>6, <1>9, <1>10, <1>11, <1>13, <1>14
  <1> QED
    BY <1>15 DEF r

\* A require beside the running module, in both kinds of chunkname.
LEMMA DefaultPlaces ==
  ASSUME Texts, EndsInNames, ~Climbs, NameInv, ChunkNamesFile,
         NEW path \in Requests, RequireDefault(path)
  PROVE  ChunkNamesFile' /\ ReadsWhatIsAsked'
  <1>1. PICK d \in Seq(Name), l \in Name:
          AbsoluteContext = Absolute(Append(d, l)) /\ Place(source_chunkname, Cwd) = Append(d, l)
    BY ContextPlace DEF NameInv
  <1>2. path.abs = FALSE /\ path.comps \in Seq(Component) /\ Place(path, d) \in Seq(Name)
        /\ Place(path, d) = Follow(d, path.comps)
    BY PlaceBeside
  <1>3. path.comps # <<>> /\ Last(path.comps) \in Name
    BY DEF EndsInNames
  <1>4. ResolvePath(path, Absolute(Append(d, l))) = Absolute(Place(path, d))
    BY <1>2, BesideFile
  <1>. DEFINE x == Place(path, d)
  <1>5. Front(file) = d
    <2>1. file = Append(d, l)
      BY <1>1 DEF ChunkNamesFile
    <2> QED
      BY <2>1, FrontOfAppend
  <1>6. Run(ResolvePath(path, source_chunkname), Absolute(x), path, d)
    BY <1>1, <1>4, <1>5 DEF RequireDefault
  <1>7. ".." \notin ToSet(path.comps) \/ Head(source_chunkname.comps) # ".."
    BY DEF RequireDefault
  <1>8. PICK f \in Normal, e \in Name:
          \/ source_chunkname = Relative(Append(f, e))
          \/ f \in Seq(Name) /\ source_chunkname = Absolute(Append(f, e))
    BY DEF NameInv, Chunkname
  <1>9. f \in Seq(Component) /\ e \in Component /\ Cwd \in Seq(Name)
    BY PathAssumption DEF Normal, Name
  <1>10. CASE source_chunkname = Relative(Append(f, e))
    <2>. DEFINE s == Append(f, e)
                q == path.comps
    <2>1. s \in Normal /\ s # <<>> /\ source_chunkname.comps = s /\ s[1] = Head(s)
      <3>1. s \in Normal
        BY NormalAppend
      <3>2. s # <<>>
        BY <1>9, FrontOfAppend
      <3>3. source_chunkname.comps = s
        BY <1>10, PathFields
      <3> QED
        BY <3>1, <3>2, <3>3
    <2>2. Follow(Cwd, f) = d
      <3>1. Follow(Cwd, s) = Append(Follow(Cwd, f), e) /\ Follow(Cwd, f) \in Seq(Name)
        BY <1>9, FollowName, FollowBasics
      <3>2. Place(Relative(s), Cwd) = Follow(Cwd, s)
        BY PlaceOf
      <3>3. Append(Follow(Cwd, f), e) = Append(d, l)
        BY <1>1, <1>10, <3>1, <3>2
      <3>4. Front(Append(d, l)) = d /\ Front(Append(Follow(Cwd, f), e)) = Follow(Cwd, f)
        BY <3>1, FrontOfAppend
      <3> QED
        BY <3>3, <3>4
    <2>3. Straight(f, q)
      <3>1. CASE ".." \notin ToSet(q)
        <4>1. DOMAIN q = 1..Len(q)
          BY <1>2, LenProperties
        <4>2. \A k \in DOMAIN q: q[k] # ".."
          BY <3>1 DEF ToSet
        <4> QED
          BY <4>1, <4>2 DEF Straight
      <3>2. CASE s[1] # ".."
        <4>1. s \in Seq(Name)
          BY <2>1, <3>2, NormalNames
        <4>2. Front(s) = f
          BY <1>9, FrontOfAppend
        <4> QED
          BY <2>1, <4>1, <4>2, AppendToFront DEF Straight
      <3> QED
        BY <1>7, <2>1, <3>1, <3>2
    <2>4. PICK suffix \in {".luau", "/init.luau"}:
            /\ source_chunkname' = Suffixed(ResolvePath(path, source_chunkname), suffix)
            /\ file' = Suffixed(Absolute(x), suffix).comps
            /\ asked' = [path |-> path, from |-> d, suffix |-> suffix]
      BY <1>6 DEF Run
    <2>5. Place(Suffixed(ResolvePath(path, source_chunkname), suffix), Cwd)
            = Suffixed(Absolute(Follow(Follow(Cwd, f), q)), suffix).comps
      BY <1>3, <1>10, <2>3, RelativePlaces
    <2>6. Follow(Follow(Cwd, f), q) = x
      BY <1>2, <2>2
    <2>7. ChunkNamesFile'
      BY <2>4, <2>5, <2>6 DEF ChunkNamesFile
    <2>8. asked'.path = path /\ asked'.from = d /\ asked'.suffix = suffix
      BY <2>4
    <2>9. ReadsWhatIsAsked'
      BY <2>4, <2>8 DEF ReadsWhatIsAsked
    <2> QED
      BY <2>7, <2>9
  <1>11. CASE f \in Seq(Name) /\ source_chunkname = Absolute(Append(f, e))
    <2>1. AbsoluteContext = source_chunkname
      <3>1. Absolute(Append(f, e)).abs = TRUE
        BY PathFields
      <3> QED
        BY <1>11, <3>1 DEF AbsoluteContext
    <2>2. Run(Absolute(x), Absolute(x), path, d)
      BY <1>1, <1>4, <1>6, <2>1
    <2>3. x \in Seq(Name) /\ x # <<>>
      BY <1>2, SomewhereNamed
    <2>4. Place(path, d) = x
      OBVIOUS
    <2>. HIDE DEF x
    <2> QED
      BY <2>2, <2>3, <2>4, SamePlaces
  <1> QED
    BY <1>8, <1>10, <1>11

\* Each kind of require keeps names and places together.
LEMMA NextPlaces ==
  ASSUME Texts, PlainDirectories, EndsInNames, ~Climbs, PlaceInv, [ChainNext]_chain
  PROVE  PlaceInv'
  <1>0. NameInv'
    BY NextNames DEF PlaceInv
  <1>1. ASSUME NEW path \in Requests, RequireDefault(path)
        PROVE  ChunkNamesFile' /\ ReadsWhatIsAsked'
    BY <1>1, DefaultPlaces DEF PlaceInv
  <1>2. ASSUME NEW path \in Requests, RequireInPaths(path)
        PROVE  ChunkNamesFile' /\ ReadsWhatIsAsked'
    <2>1. PICK directory \in SearchDirs:
            LET found == ResolvePath(path, Join(directory, "placeholder"))
            IN  Run(found, found, path, directory.comps)
      BY <1>2 DEF RequireInPaths
    <2>2. PICK d: d = directory.comps
      OBVIOUS
    <2>. DEFINE x == Place(path, d)
    <2>3. ResolvePath(path, Join(directory, "placeholder")) = Absolute(x) /\ x \in Seq(Name) /\ x # <<>>
      BY <2>2, InPaths
    <2>4. Place(path, d) = x
      OBVIOUS
    <2>. HIDE DEF x
    <2>5. Run(Absolute(x), Absolute(x), path, d)
      BY <2>1, <2>2, <2>3
    <2> QED
      BY <2>3, <2>4, <2>5, SamePlaces
  <1>3. ASSUME NEW path \in Aliased, RequireAlias(path)
        PROVE  ChunkNamesFile' /\ ReadsWhatIsAsked'
    <2>. DEFINE x == Place(path, <<>>)
    <2>1. ResolvePath(path, Relative(<<>>)) = Absolute(x) /\ x \in Seq(Name) /\ x # <<>>
      BY Sanitized
    <2>2. Place(path, <<>>) = x
      OBVIOUS
    <2>. HIDE DEF x
    <2>3. Run(Absolute(x), Absolute(x), path, <<>>)
      BY <1>3, <2>1 DEF RequireAlias
    <2> QED
      BY <2>1, <2>2, <2>3, SamePlaces
  <1>4. ASSUME UNCHANGED chain PROVE ChunkNamesFile' /\ ReadsWhatIsAsked'
    BY <1>4 DEF chain, PlaceInv, ChunkNamesFile, ReadsWhatIsAsked
  <1>5. ChunkNamesFile' /\ ReadsWhatIsAsked'
    BY <1>1, <1>2, <1>3, <1>4 DEF ChainNext
  <1> QED
    BY <1>0, <1>5 DEF PlaceInv

\* The main script is in the current directory.
LEMMA InitPlaces ==
  MainDir = Cwd /\ ChainInit => PlaceInv
  <1>. SUFFICES ASSUME MainDir = Cwd, ChainInit PROVE PlaceInv
    OBVIOUS
  <1>1. Cwd \in Seq(Name) /\ <<>> \in Seq(Component) /\ <<>> \in Seq(Name)
    BY PathAssumption, EmptySeq
  <1>2. <<"main.luau">> = Append(<<>>, "main.luau")
    BY EmptySeq
  <1>3. Follow(Cwd, <<>>) = Cwd
    BY <1>1, FollowBasics
  <1>4. Follow(Cwd, Append(<<>>, "main.luau")) = Append(Cwd, "main.luau")
    BY <1>1, <1>3, Literals, FollowName
  <1>5. Place(source_chunkname, Cwd) = Append(Cwd, "main.luau")
    BY <1>2, <1>4, PlaceOf DEF ChainInit
  <1>6. Cwd \o <<"main.luau">> = Append(Cwd, "main.luau")
    BY <1>1, Literals, AppendIsConcat
  <1>7. file = Cwd \o <<"main.luau">> /\ depth = 0
    BY DEF ChainInit
  <1>8. ChunkNamesFile /\ ReadsWhatIsAsked
    BY <1>5, <1>6, <1>7 DEF ChunkNamesFile, ReadsWhatIsAsked
  <1> QED
    BY <1>8, InitNames DEF PlaceInv

\* After any chain of requires, from a main script in the current directory, the
\* chunkname of a module leads to the file it was read from, if no module whose
\* chunkname begins with ".." requires upwards again.
THEOREM ChunkAlwaysNamesFile ==
  ASSUME Texts, PlainDirectories, EndsInNames, ~Climbs, MainDir = Cwd
  PROVE  ChainSpec => []ChunkNamesFile
  <1>1. ChainInit => PlaceInv
    BY InitPlaces
  <1>2. PlaceInv /\ [ChainNext]_chain => PlaceInv'
    BY NextPlaces
  <1>3. PlaceInv => ChunkNamesFile
    BY DEF PlaceInv
  <1> QED
    BY <1>1, <1>2, <1>3, PTL DEF ChainSpec

\* Under the same conditions, a require reads what its path means to a reader of
\* the file that contains it.
THEOREM AlwaysReadsWhatIsAsked ==
  ASSUME Texts, PlainDirectories, EndsInNames, ~Climbs, MainDir = Cwd
  PROVE  ChainSpec => []ReadsWhatIsAsked
  <1>1. ChainInit => PlaceInv
    BY InitPlaces
  <1>2. PlaceInv /\ [ChainNext]_chain => PlaceInv'
    BY NextPlaces
  <1>3. PlaceInv => ReadsWhatIsAsked
    BY DEF PlaceInv
  <1> QED
    BY <1>1, <1>2, <1>3, PTL DEF ChainSpec

----------------------------------------------------------------------------
(* The cache of modules: the inductive invariants                          *)

Same(b, c) == b.module = c.module /\ b.run = c.run

\* A module and a run identify a body: no two threads stand for the same one.
Identified ==
  /\ \A j, k \in 1..Len(stack): Same(stack[j], stack[k]) => j = k
  /\ \A b \in waiting: b.late /\ \A k \in 1..Len(stack): ~Same(b, stack[k])
  /\ \A b, c \in waiting: Same(b, c) => b = c

\* Runs are counted, so that the next one is new.
Counted ==
  /\ \A k \in 1..Len(stack): stack[k].run <= runs[stack[k].module]
  /\ \A b \in waiting: b.run <= runs[b.module]
  /\ \A m \in Module: \A n \in got[m]: n <= runs[m]

Finished ==
  /\ \A b \in waiting: b.run \notin got[b.module]
  /\ \A k \in 1..Len(stack): stack[k].run \notin got[stack[k].module]

\* A table that is stored was returned to the code that required it first.
Given == \A m \in Module: modules[m].kind = "table" => modules[m].run \in got[m]

BodyInv == TypeOK /\ Identified /\ Counted /\ Finished /\ Given

\* The body at k is awaited by a require, and its module is in no cycle.
Once(k) == ~stack[k].late /\ stack[k].module \notin cyclic

\* A module in no cycle that is loading has no result, and is loading once; what
\* was given out is what is stored.
StoreInv ==
  /\ \A k \in 1..Len(stack): Once(k) => modules[stack[k].module].kind = "nil"
  /\ \A j, k \in 1..Len(stack):
       Once(j) /\ Once(k) /\ stack[j].module = stack[k].module => j = k
  /\ \A m \in Module \ cyclic: \A n \in got[m]: modules[m] = Table(n)

----------------------------------------------------------------------------
(* The stack *)

\* A body pushed on the stack is the last one, above those that were there.
LEMMA Pushed ==
  ASSUME NEW s \in Seq(Body), NEW b \in Body
  PROVE  /\ Append(s, b) \in Seq(Body) /\ Len(Append(s, b)) = Len(s) + 1
         /\ Len(s) \in Nat /\ \A k \in 1..Len(s): s[k] \in Body /\ Append(s, b)[k] = s[k]
         /\ Append(s, b)[Len(s) + 1] = b
  BY AppendProperties, LenProperties, ElementOfSeq

\* A stack that is not empty has a body on top, and the others below it.
LEMMA Popped ==
  ASSUME NEW s \in Seq(Body), s # <<>>
  PROVE  /\ Front(s) \in Seq(Body) /\ Len(Front(s)) = Len(s) - 1
         /\ Len(s) \in Nat /\ Len(s) > 0
         /\ \A k \in 1..Len(s): s[k] \in Body
         /\ \A k \in 1..(Len(s) - 1): Front(s)[k] = s[k]
         /\ Last(s) \in Body /\ Last(s) = s[Len(s)]
  BY FrontProperties, LenProperties, ElementOfSeq, EmptySeq

LEMMA Below ==
  ASSUME NEW s \in Seq(Body), s # <<>>, NEW k \in 1..Len(Front(s))
  PROVE  k \in 1..Len(s) /\ k # Len(s) /\ Front(s)[k] = s[k]
  BY Popped

\* A body that is suspended keeps its identity.
LEMMA Suspended ==
  ASSUME NEW b \in Body
  PROVE  LET w == [b EXCEPT !.late = TRUE] IN w \in Body /\ w.late /\ Same(w, b)
  BY DEF Body, Same

LEMMA BodyFacts ==
  ASSUME NEW b \in Body
  PROVE  b.module \in Module /\ b.run \in Nat /\ b.late \in BOOLEAN
  BY DEF Body

----------------------------------------------------------------------------
(* The invariant of bodies *)

LEMMA InitBodyInv == Init => BodyInv
  <1>. SUFFICES ASSUME Init PROVE BodyInv
    OBVIOUS
  <1>1. Len(stack) = 0
    BY DEF Init
  <1>2. TypeOK
    BY DEF Init, TypeOK, Entry, Nothing
  <1> QED
    BY <1>1, <1>2 DEF Init, BodyInv, Identified, Counted, Finished, Given, Nothing

LEMMA StepBodyInv == BodyInv /\ [Next]_vars => BodyInv'
  <1>. SUFFICES ASSUME BodyInv, [Next]_vars PROVE BodyInv'
    OBVIOUS
  <1>. USE DEF BodyInv
  <1>0. /\ stack \in Seq(Body) /\ Len(stack) \in Nat
        /\ \A k \in 1..Len(stack): stack[k] \in Body /\ stack[k].module \in Module /\ stack[k].run \in Nat
        /\ \A b \in waiting: b \in Body /\ b.module \in Module /\ b.run \in Nat
        /\ runs \in [Module -> Nat] /\ got \in [Module -> SUBSET Nat] /\ modules \in [Module -> Entry]
    BY LenProperties, ElementOfSeq, BodyFacts DEF TypeOK
  <1>1. ASSUME UNCHANGED <<stack, runs, waiting, got, cyclic>>, pc' \in {"lua", "raise", "exit", "undefined"},
               modules' = modules
        PROVE  BodyInv'
    BY <1>1 DEF TypeOK, Identified, Counted, Finished, Given
  <1>2. ASSUME NEW m \in Module, RequireCached(m) PROVE BodyInv'
    <2>1. CASE modules[m].kind # "table"
      BY <2>1, <1>1, <1>2 DEF RequireCached
    <2>2. CASE modules[m].kind = "table"
      <3>1. modules[m].run \in got[m]
        BY <2>2 DEF Given
      <3>2. got' = got
        BY <1>0, <1>2, <2>2, <3>1 DEF RequireCached
      <3> QED
        BY <3>2, <2>2, <1>1, <1>2 DEF RequireCached, TypeOK
    <2> QED
      BY <2>1, <2>2
  <1>3. ASSUME NEW m \in Module, RequireFile(m) PROVE BodyInv'
    <2>. DEFINE n == runs[m] + 1
                b == [module |-> m, run |-> n, late |-> FALSE]
    <2>1. n \in Nat /\ runs[m] \in Nat /\ n > runs[m] /\ b \in Body
      BY <1>0 DEF Body
    <2>2. /\ runs' = [runs EXCEPT ![m] = n] /\ stack' = Append(stack, b)
          /\ UNCHANGED <<pc, modules, waiting, got>> /\ cyclic' \subseteq Module
      BY <1>0, <1>3 DEF RequireFile, Cyclic, TypeOK
    <2>3. /\ stack' \in Seq(Body) /\ Len(stack') = Len(stack) + 1
          /\ \A k \in 1..Len(stack): stack'[k] = stack[k]
          /\ stack'[Len(stack) + 1] = b /\ b.module = m /\ b.run = n
      BY <2>1, <2>2, Pushed DEF TypeOK
    <2>. HIDE DEF n, b
    <2>4. runs'[m] = n /\ \A x \in Module: runs'[x] >= runs[x] /\ runs'[x] \in Nat
      BY <1>0, <2>1, <2>2
    <2>5. \A k \in 1..Len(stack'): k \in 1..Len(stack) \/ k = Len(stack) + 1
      BY <1>0, <2>3
    <2>6. \A k \in 1..Len(stack): ~Same(stack[k], b)
      BY <1>0, <2>1, <2>3 DEF Counted, Same
    <2>7. \A c \in waiting: ~Same(c, b) /\ n \notin got[m]
      BY <1>0, <2>1, <2>3 DEF Counted, Same
    <2>8. n \notin got[m]
      BY <1>0, <2>1 DEF Counted
    <2>9. TypeOK'
      BY <1>0, <2>2, <2>3, <2>4 DEF TypeOK
    <2>10. Identified'
      <3>1. \A j, k \in 1..Len(stack'): Same(stack'[j], stack'[k]) => j = k
        <4>1. \A k \in 1..Len(stack): ~Same(stack'[k], b) /\ ~Same(b, stack'[k])
          BY <2>3, <2>6 DEF Same
        <4>2. \A k \in 1..Len(stack'): stack'[k] = b \/ (k \in 1..Len(stack) /\ stack'[k] = stack[k])
          BY <2>3, <2>5
        <4> QED
          BY <2>3, <2>5, <4>1, <4>2 DEF Identified
      <3>2. \A c \in waiting': c.late /\ \A k \in 1..Len(stack'): ~Same(c, stack'[k])
        BY <2>2, <2>3, <2>5, <2>7 DEF Identified
      <3> QED
        BY <2>2, <3>1, <3>2 DEF Identified
    <2>11. Counted'
      BY <1>0, <2>1, <2>2, <2>3, <2>4, <2>5 DEF Counted, TypeOK
    <2>12. Finished' /\ Given'
      BY <1>0, <2>2, <2>3, <2>5, <2>8 DEF Finished, Given
    <2> QED
      BY <2>9, <2>10, <2>11, <2>12
  <1>4. ASSUME NEW m \in Module, RequireFails(m) PROVE BodyInv'
    <2>1. /\ runs' = [runs EXCEPT ![m] = @ + 1] /\ pc' = "raise"
          /\ modules' = [modules EXCEPT ![m] = Error(runs[m] + 1)]
          /\ UNCHANGED <<stack, waiting, got>> /\ runs[m] \in Nat /\ cyclic' \subseteq Module
      BY <1>0, <1>4 DEF RequireFails, Cyclic, TypeOK
    <2>2. runs' \in [Module -> Nat] /\ \A x \in Module: runs'[x] >= runs[x]
      BY <1>0, <2>1
    <2>3. /\ modules' \in [Module -> Entry] /\ modules'[m].kind # "table"
          /\ \A x \in Module \ {m}: modules'[x] = modules[x]
      BY <1>0, <2>1 DEF Entry, Error
    <2>4. TypeOK' /\ Identified' /\ Finished'
      BY <1>0, <2>1, <2>2, <2>3 DEF TypeOK, Identified, Finished
    <2>5. Counted'
      BY <1>0, <2>1, <2>2 DEF Counted, TypeOK
    <2>6. Given'
      BY <1>0, <2>1, <2>3 DEF Given
    <2> QED
      BY <2>4, <2>5, <2>6
  <1>5. CASE Returns
    <2>1. stack # <<>> /\ stack' = Front(stack) /\ UNCHANGED <<pc, runs, waiting, cyclic>>
      BY <1>5 DEF Returns, Required
    <2>2. PICK t \in Body: t = Last(stack) /\ t = stack[Len(stack)]
      BY <2>1, Popped DEF TypeOK
    <2>3. /\ modules' = [modules EXCEPT ![t.module] = Table(t.run)]
          /\ got' = [got EXCEPT ![t.module] = @ \union {t.run}]
      BY <1>5, <2>2 DEF Returns, Top
    <2>4. /\ stack' \in Seq(Body) /\ Len(stack') = Len(stack) - 1 /\ Len(stack) > 0
          /\ \A k \in 1..(Len(stack) - 1): stack'[k] = stack[k]
      BY <2>1, Popped DEF TypeOK
    <2>5. \A k \in 1..Len(stack'): k \in 1..Len(stack) /\ k # Len(stack) /\ stack'[k] = stack[k]
      BY <2>1, Below DEF TypeOK
    <2>6. t.module \in Module /\ t.run \in Nat /\ t.run <= runs[t.module]
      BY <1>0, <2>2, <2>4, BodyFacts DEF Counted
    <2>7. \A k \in 1..Len(stack'): ~Same(stack[k], t)
      <3>1. Len(stack) \in 1..Len(stack)
        BY <1>0, <2>4
      <3> QED
        BY <2>2, <2>5, <3>1 DEF Identified
    <2>8. \A b \in waiting: ~Same(b, t)
      BY <1>0, <2>2, <2>4 DEF Identified
    <2>9. TypeOK'
      BY <1>0, <2>1, <2>3, <2>4, <2>6 DEF TypeOK, Table, Entry
    <2>10. Identified'
      BY <2>1, <2>5 DEF Identified
    <2>11. Counted'
      BY <1>0, <2>1, <2>3, <2>5, <2>6 DEF Counted
    <2>12. Finished'
      BY <1>0, <2>1, <2>3, <2>5, <2>6, <2>7, <2>8 DEF Finished, Same
    <2>13. Given'
      BY <1>0, <2>3, <2>6 DEF Given, Table
    <2> QED
      BY <2>9, <2>10, <2>11, <2>12, <2>13
  <1>6. ASSUME NEW x \in Module, NEW n \in Nat, stack # <<>>, stack' = Front(stack),
               modules' = [modules EXCEPT ![x] = Error(n)], UNCHANGED <<runs, got, cyclic>>,
               pc' \in {"lua", "raise", "exit", "undefined"},
               waiting' = waiting \/ waiting' = waiting \union {[Last(stack) EXCEPT !.late = TRUE]}
        PROVE  BodyInv'
    <2>1. PICK t \in Body: t = Last(stack) /\ t = stack[Len(stack)]
      BY <1>6, Popped DEF TypeOK
    <2>2. PICK w \in Body: w = [t EXCEPT !.late = TRUE] /\ w.late /\ Same(w, t)
      BY Suspended
    <2>3. /\ stack' \in Seq(Body) /\ Len(stack') = Len(stack) - 1 /\ Len(stack) > 0
          /\ \A k \in 1..(Len(stack) - 1): stack'[k] = stack[k]
      BY <1>6, Popped DEF TypeOK
    <2>4. \A k \in 1..Len(stack'): k \in 1..Len(stack) /\ k # Len(stack) /\ stack'[k] = stack[k]
      BY <1>6, Below DEF TypeOK
    <2>5. \A b \in waiting': b \in waiting \/ b = w
      BY <1>6, <2>1, <2>2
    <2>6. w.run \notin got[w.module] /\ w.run <= runs[w.module] /\ w.module \in Module
      BY <1>0, <2>1, <2>2, <2>3, BodyFacts DEF Finished, Counted, Same
    <2>7. \A k \in 1..Len(stack'): ~Same(w, stack[k])
      BY <1>0, <2>1, <2>2, <2>3, <2>4 DEF Identified, Same
    <2>8. \A b \in waiting: ~Same(b, w) /\ ~Same(w, b)
      BY <1>0, <2>1, <2>2, <2>3 DEF Identified, Same
    <2>9. TypeOK'
      BY <1>0, <1>6, <2>2, <2>3, <2>5 DEF TypeOK, Error, Entry
    <2>10. Identified'
      BY <2>2, <2>4, <2>5, <2>7, <2>8 DEF Identified
    <2>11. Counted'
      BY <1>0, <1>6, <2>4, <2>5, <2>6 DEF Counted
    <2>12. Finished'
      BY <1>0, <1>6, <2>4, <2>5, <2>6 DEF Finished
    <2>13. Given'
      BY <1>0, <1>6 DEF Given, Error
    <2> QED
      BY <2>9, <2>10, <2>11, <2>12, <2>13
  <1>7. CASE Fails \/ Yields
    <2>1. stack # <<>> /\ Top \in Body
      BY <1>7, Popped DEF Fails, Yields, Required, Top, TypeOK
    <2>2. Top.module \in Module /\ Top.run \in Nat
      BY <2>1, BodyFacts
    <2> QED
      BY <1>6, <1>7, <2>1, <2>2 DEF Fails, Yields, Top
  <1>8. ASSUME NEW b \in waiting, ResumeLate(b) PROVE BodyInv'
    <2>1. /\ stack' = <<b>> /\ waiting' = waiting \ {b} /\ UNCHANGED <<pc, modules, runs, got, cyclic>>
          /\ b \in Body
      BY <1>0, <1>8 DEF ResumeLate
    <2>2. Len(stack') = 1 /\ stack' \in Seq(Body) /\ \A k \in 1..Len(stack'): k = 1 /\ stack'[k] = b
      BY <2>1
    <2>3. TypeOK' /\ Given'
      BY <2>1, <2>2 DEF TypeOK, Given
    <2>4. Identified'
      BY <2>1, <2>2 DEF Identified, Same
    <2>5. Counted' /\ Finished'
      BY <2>1, <2>2 DEF Counted, Finished
    <2> QED
      BY <2>3, <2>4, <2>5
  <1>9. CASE LateEnds
    <2>1. /\ stack # <<>> /\ stack' = Front(stack) /\ UNCHANGED <<modules, runs, got, cyclic>>
          /\ waiting' = waiting \/ waiting' = waiting \union {Last(stack)}
          /\ pc' \in {"lua", "raise", "exit", "undefined"} /\ Last(stack).late
      BY <1>9 DEF LateEnds, Top
    <2>2. PICK t \in Body: t = Last(stack) /\ t = stack[Len(stack)] /\ t.late
      BY <2>1, Popped DEF TypeOK
    <2>3. /\ stack' \in Seq(Body) /\ Len(stack') = Len(stack) - 1 /\ Len(stack) > 0
          /\ \A k \in 1..(Len(stack) - 1): stack'[k] = stack[k]
      BY <2>1, Popped DEF TypeOK
    <2>4. \A k \in 1..Len(stack'): k \in 1..Len(stack) /\ k # Len(stack) /\ stack'[k] = stack[k]
      BY <2>1, Below DEF TypeOK
    <2>5. \A b \in waiting': b \in waiting \/ b = t
      BY <2>1, <2>2
    <2>6. \A k \in 1..Len(stack'): ~Same(t, stack[k])
      BY <1>0, <2>2, <2>3, <2>4 DEF Identified
    <2>7. \A b \in waiting: ~Same(b, t) /\ ~Same(t, b)
      BY <1>0, <2>2, <2>3 DEF Identified, Same
    <2>8. TypeOK' /\ Given'
      BY <2>1, <2>2, <2>3 DEF TypeOK, Given
    <2>9. Identified'
      BY <2>2, <2>4, <2>5, <2>6, <2>7 DEF Identified
    <2>10. t.run \notin got[t.module] /\ t.run <= runs[t.module]
      BY <1>0, <2>2, <2>3 DEF Counted, Finished
    <2>11. Counted'
      BY <2>1, <2>4, <2>5, <2>10 DEF Counted
    <2>12. Finished'
      BY <2>1, <2>4, <2>5, <2>10 DEF Finished
    <2> QED
      BY <2>8, <2>9, <2>11, <2>12
  <1>10. CASE RequireNothing \/ Throw \/ Catch \/ ProgramFails \/ FreeWaiting \/ Over \/ UNCHANGED vars
    BY <1>1, <1>10 DEF RequireNothing, Throw, Catch, ProgramFails, FreeWaiting, Over, vars, TypeOK
  <1> QED
    BY <1>2, <1>3, <1>4, <1>5, <1>6, <1>7, <1>8, <1>9, <1>10 DEF Next

----------------------------------------------------------------------------
(* The store *)

LEMMA InitStoreInv == Init => StoreInv
  <1>. SUFFICES ASSUME Init PROVE StoreInv
    OBVIOUS
  <1>1. Len(stack) = 0
    BY DEF Init
  <1> QED
    BY <1>1 DEF Init, StoreInv

LEMMA StepStoreInv == BodyInv /\ StoreInv /\ [Next]_vars => StoreInv'
  <1>. SUFFICES ASSUME BodyInv, StoreInv, [Next]_vars PROVE StoreInv'
    OBVIOUS
  <1>0. /\ stack \in Seq(Body) /\ Len(stack) \in Nat /\ DOMAIN stack = 1..Len(stack)
        /\ \A k \in 1..Len(stack): stack[k] \in Body /\ stack[k].module \in Module /\ stack[k].run \in Nat
        /\ got \in [Module -> SUBSET Nat] /\ modules \in [Module -> Entry]
    BY LenProperties, ElementOfSeq, BodyFacts DEF TypeOK, BodyInv
  <1>1. ASSUME UNCHANGED <<stack, modules, got, cyclic>> PROVE StoreInv'
    BY <1>1 DEF StoreInv, Once
  <1>2. ASSUME NEW m \in Module, RequireCached(m) PROVE StoreInv'
    <2>1. got' = got
      BY <1>0, <1>2 DEF RequireCached, BodyInv, Given
    <2> QED
      BY <2>1, <1>1, <1>2 DEF RequireCached
  <1>3. ASSUME NEW m \in Module, RequireFile(m) PROVE StoreInv'
    <2>. DEFINE b == [module |-> m, run |-> runs[m] + 1, late |-> FALSE]
    <2>1. b \in Body /\ b.module = m /\ runs'[m] = runs[m] + 1
      BY <1>3 DEF Body, RequireFile, BodyInv, TypeOK
    <2>2. /\ stack' = Append(stack, b) /\ UNCHANGED <<modules, got>>
          /\ modules[m].kind = "nil" /\ cyclic' = Cyclic(m)
      BY <1>3, <2>1 DEF RequireFile
    <2>3. /\ Len(stack') = Len(stack) + 1 /\ \A k \in 1..Len(stack): stack'[k] = stack[k]
          /\ stack'[Len(stack) + 1] = b
      BY <1>0, <2>1, <2>2, Pushed
    <2>. HIDE DEF b
    <2>4. \A k \in 1..Len(stack'): k \in 1..Len(stack) \/ k = Len(stack) + 1
      BY <1>0, <2>3
    <2>5. /\ cyclic \subseteq cyclic'
          /\ \A k \in 1..Len(stack): ~stack[k].late /\ stack[k].module = m => m \in cyclic'
      BY <1>0, <2>2 DEF Cyclic, Loading
    <2> QED
      BY <2>1, <2>2, <2>3, <2>4, <2>5 DEF StoreInv, Once
  <1>4. ASSUME NEW m \in Module, RequireFails(m) PROVE StoreInv'
    <2>1. /\ modules' = [modules EXCEPT ![m] = Error(runs'[m])] /\ UNCHANGED <<stack, got>>
          /\ modules[m].kind = "nil" /\ cyclic' = Cyclic(m)
      BY <1>4 DEF RequireFails
    <2>2. /\ cyclic \subseteq cyclic'
          /\ \A k \in 1..Len(stack): ~stack[k].late /\ stack[k].module = m => m \in cyclic'
      BY <1>0, <2>1 DEF Cyclic, Loading
    <2>3. m \notin cyclic => got[m] = {}
      BY <1>0, <2>1 DEF StoreInv, Table
    <2> QED
      BY <1>0, <2>1, <2>2, <2>3 DEF StoreInv, Once
  <1>5. ASSUME NEW e \in Entry, ~Last(stack).late, stack # <<>>, stack' = Front(stack), cyclic' = cyclic,
               modules' = [modules EXCEPT ![Last(stack).module] = e],
               got' = got \/ (/\ e = Table(Last(stack).run)
                              /\ got' = [got EXCEPT ![Last(stack).module] = @ \union {Last(stack).run}])
        PROVE  StoreInv'
    <2>1. PICK t \in Body: t = Last(stack) /\ t = stack[Len(stack)] /\ ~t.late
      BY <1>0, <1>5, Popped
    <2>2. t.module \in Module /\ t.run \in Nat /\ Len(stack) \in 1..Len(stack)
      BY <1>0, <1>5, <2>1, BodyFacts, Popped
    <2>3. t.module \notin cyclic => modules[t.module].kind = "nil"
      BY <2>1, <2>2 DEF StoreInv, Once
    <2>4. t.module \notin cyclic => got[t.module] = {}
      BY <1>0, <2>2, <2>3 DEF StoreInv, Table
    <2>5. \A k \in 1..Len(stack'): k \in 1..Len(stack) /\ k # Len(stack) /\ stack'[k] = stack[k]
      BY <1>0, <1>5, Below
    <2>6. \A k \in 1..Len(stack'): Once(k) => stack[k].module # t.module
      BY <2>1, <2>2, <2>5 DEF StoreInv, Once
    <2>7. /\ \A x \in Module \ {t.module}: modules'[x] = modules[x] /\ got'[x] = got[x]
          /\ modules'[t.module] = e
          /\ t.module \notin cyclic
             => got'[t.module] = {} \/ (e = Table(t.run) /\ got'[t.module] = {t.run})
      BY <1>0, <1>5, <2>1, <2>2, <2>4
    <2>8. \A m \in Module \ cyclic: \A n \in got'[m]: modules'[m] = Table(n)
      BY <2>2, <2>7 DEF StoreInv
    <2>9. \A k \in 1..Len(stack'): Once(k) => modules'[stack'[k].module].kind = "nil"
      <3>. SUFFICES ASSUME NEW k \in 1..Len(stack'), Once(k)
                    PROVE  modules'[stack'[k].module].kind = "nil"
        OBVIOUS
      <3>1. k \in 1..Len(stack) /\ stack'[k] = stack[k] /\ stack[k].module \in Module \ {t.module}
        BY <1>0, <2>5, <2>6
      <3>2. modules[stack[k].module].kind = "nil"
        BY <3>1 DEF StoreInv
      <3>3. modules'[stack[k].module] = modules[stack[k].module]
        BY <3>1, <2>7
      <3> QED
        BY <3>1, <3>2, <3>3
    <2> QED
      BY <1>5, <2>5, <2>8, <2>9 DEF StoreInv, Once
  <1>6. CASE Returns \/ Fails \/ Yields
    <2>1. stack # <<>> /\ Top \in Body /\ ~Top.late
      BY <1>0, <1>6, Popped DEF Returns, Fails, Yields, Required, Top
    <2>2. Table(Top.run) \in Entry /\ Error(Top.run) \in Entry
      BY <2>1, BodyFacts DEF Table, Error, Entry
    <2> QED
      BY <1>5, <1>6, <2>1, <2>2 DEF Returns, Fails, Yields, Top
  <1>7. ASSUME NEW b \in waiting, ResumeLate(b) PROVE StoreInv'
    <2>1. stack' = <<b>> /\ b.late /\ UNCHANGED <<modules, got, cyclic>>
      BY <1>7 DEF ResumeLate, BodyInv, Identified
    <2>2. Len(stack') = 1 /\ \A k \in 1..Len(stack'): stack'[k].late /\ k = 1
      BY <2>1
    <2> QED
      BY <2>1, <2>2 DEF StoreInv, Once
  <1>8. CASE LateEnds
    <2>1. stack # <<>> /\ stack' = Front(stack) /\ UNCHANGED <<modules, got, cyclic>>
      BY <1>8 DEF LateEnds
    <2>2. \A k \in 1..Len(stack'): k \in 1..Len(stack) /\ stack'[k] = stack[k]
      BY <1>0, <2>1, Below
    <2> QED
      BY <2>1, <2>2 DEF StoreInv, Once
  <1>9. CASE RequireNothing \/ Throw \/ Catch \/ ProgramFails \/ FreeWaiting \/ Over \/ UNCHANGED vars
    BY <1>1, <1>9 DEF RequireNothing, Throw, Catch, ProgramFails, FreeWaiting, Over, vars
  <1> QED
    BY <1>2, <1>3, <1>4, <1>6, <1>7, <1>8, <1>9 DEF Next

----------------------------------------------------------------------------
(* Theorems *)

LEMMA BodyInvariant == Spec => []BodyInv
  BY InitBodyInv, StepBodyInv, PTL DEF Spec

LEMMA StoreInvariant == Spec => [](BodyInv /\ StoreInv)
  BY InitBodyInv, InitStoreInv, StepBodyInv, StepStoreInv, PTL DEF Spec

\* Every variable of ModuleCache keeps its type.
THEOREM TypeCorrect == Spec => []TypeOK
  <1>1. BodyInv => TypeOK
    BY DEF BodyInv
  <1> QED
    BY <1>1, BodyInvariant, PTL

\* require never hands out the table of a body that is still running or
\* suspended, even when modules require each other in cycles.
THEOREM OnlyFinished == Spec => []TablesAreFinished
  <1>1. BodyInv => TablesAreFinished
    <2>. SUFFICES ASSUME BodyInv PROVE TablesAreFinished
      OBVIOUS
    <2>1. DOMAIN stack = 1..Len(stack)
      BY LenProperties DEF BodyInv, TypeOK
    <2> QED
      BY <2>1 DEF BodyInv, Finished, TablesAreFinished
  <1> QED
    BY <1>1, BodyInvariant, PTL

\* Every require that succeeds of a module in no cycle returns one table,
\* however many other modules require each other in cycles.
THEOREM OneInstance == Spec => []SingleInstance
  <1>1. BodyInv /\ StoreInv => SingleInstance
    <2>. SUFFICES ASSUME StoreInv, NEW m \in Module \ cyclic, NEW n1 \in got[m], NEW n2 \in got[m]
                  PROVE  n1 = n2
      BY DEF SingleInstance
    <2>1. Table(n1) = Table(n2)
      BY DEF StoreInv
    <2>2. Table(n1).run = n1 /\ Table(n2).run = n2
      BY DEF Table
    <2> QED
      BY <2>1, <2>2
  <1> QED
    BY <1>1, StoreInvariant, PTL

\* The result of a module in no cycle, a table or an error, is final: the body
\* is not run again, and what it does after it yielded changes nothing.
THEOREM StoredForGood == Spec => StoredOnce
  <1>1. BodyInv /\ StoreInv /\ [Next]_vars
        => [\A m \in Module \ cyclic: modules[m].kind # "nil" => modules'[m] = modules[m]]_vars
    <2>. SUFFICES ASSUME BodyInv, StoreInv, Next, NEW m \in Module \ cyclic, modules[m].kind # "nil"
                  PROVE  modules'[m] = modules[m]
      OBVIOUS
    <2>1. modules \in [Module -> Entry] /\ stack \in Seq(Body)
      BY DEF BodyInv, TypeOK
    <2>2. ASSUME NEW x \in Module, RequireCached(x) \/ RequireFile(x) \/ RequireFails(x)
          PROVE  modules'[m] = modules[m]
      BY <2>1, <2>2 DEF RequireCached, RequireFile, RequireFails
    <2>3. CASE Returns \/ Fails \/ Yields
      <3>1. stack # <<>> /\ ~Top.late /\ Top = stack[Len(stack)] /\ Len(stack) \in 1..Len(stack)
        BY <2>1, <2>3, Popped DEF Returns, Fails, Yields, Required, Top
      <3>2. Top.module # m
        BY <3>1 DEF StoreInv, Once
      <3> QED
        BY <2>1, <2>3, <3>2 DEF Returns, Fails, Yields
    <2>4. ASSUME NEW b \in waiting, ResumeLate(b) PROVE modules'[m] = modules[m]
      BY <2>4 DEF ResumeLate
    <2>5. CASE RequireNothing \/ Throw \/ Catch \/ ProgramFails \/ LateEnds \/ FreeWaiting \/ Over
      BY <2>5 DEF RequireNothing, Throw, Catch, ProgramFails, LateEnds, FreeWaiting, Over, vars
    <2> QED
      BY <2>2, <2>3, <2>4, <2>5 DEF Next
  <1> QED
    BY <1>1, StoreInvariant, PTL DEF Spec, StoredOnce
==============================================================================
