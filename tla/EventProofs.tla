---------------------------- MODULE EventProofs ----------------------------
(***************************************************************************)
(* Theorems about Event, for every set of functions, every number of       *)
(* connections and every depth of nested calls.                            *)
(***************************************************************************)
EXTENDS Event, SequenceLemmas

----------------------------------------------------------------------------
(* The inductive invariant *)

\* Every pair of a sequence stands for a function in the registry.
LivePairs(s, reg) == \A n \in 1..Len(s): s[n].ref \in Ref /\ reg[s[n].ref] # Nil

\* A fire iterates over the vector, or over the buffer it was stranded on.
View(f, b) == IF f.old = <<>> THEN b ELSE f.old

\* As long as nothing is disconnected the slots of a fire are what it began
\* with, and it has called those before its cursor.
CleanOK(f, v) ==
  /\ f.stop = Len(f.start) /\ f.stop <= Len(v)
  /\ \A n \in 1..f.stop: v[n] = f.start[n]
  /\ Len(f.called) = f.cursor - 1
  /\ \A n \in 1..(f.cursor - 1): f.called[n] = f.start[n]

\* The cursor of a fire stays within its slots, and these hold live pairs.
\* r is the vector, b its buffer with the residue, reg the registry.
FrameOK(f, r, b, reg) ==
  /\ f.cursor \in 1..(f.stop + 1) /\ f.stop <= Len(View(f, b))
  /\ LivePairs(f.old, reg)
  /\ f.clean => CleanOK(f, View(f, r))

Distinct(r) == \A i, j \in DOMAIN r: r[i].ref = r[j].ref => i = j

\* The event is there while the C++ of fire runs.
ControlOK == pc = "fire" => stack # <<>> /\ Top.kind = "fire" /\ alive # "destroyed"

VectorOK ==
  /\ LivePairs(refs, registry) /\ LivePairs(residue, registry) /\ Distinct(refs)
  /\ \A k \in FireFrames: FrameOK(stack[k], refs, refs \o residue, registry)

IInv ==
  /\ VectorTypes /\ SortedById /\ ControlOK
  /\ IF alive = "destroyed" THEN refs = <<>> ELSE VectorOK

----------------------------------------------------------------------------
(* Lemmas *)

\* The pairs of a sequence, element by element.
LEMMA PairsOf ==
  ASSUME NEW s \in Seq(Pair)
  PROVE  /\ Len(s) \in Nat /\ DOMAIN s = 1..Len(s)
         /\ \A i \in 1..Len(s): s[i] \in Pair /\ s[i].id \in Nat /\ s[i].ref \in Nat
  <1>1. Len(s) \in Nat /\ DOMAIN s = 1..Len(s) /\ \A i \in 1..Len(s): s[i] \in Pair
    BY LenProperties, ElementOfSeq
  <1>2. \A p \in Pair: p.id \in Nat /\ p.ref \in Int
    BY DEF Pair, Ref
  <1>3. \A p \in Pair: p.ref \in Nat
    BY DEF Pair, Ref
  <1> QED
    BY <1>1, <1>2, <1>3

\* Appending keeps the ids sorted, as connect takes a fresh one.
LEMMA SortedAppend ==
  ASSUME VectorTypes, SortedById, NEW e \in Pair, e.id = curr_id + 1,
         refs' = Append(refs, e), curr_id' = curr_id + 1
  PROVE  SortedById'
  <1>1. /\ refs \in Seq(Pair) /\ curr_id \in Nat /\ DOMAIN refs = 1..Len(refs) /\ Len(refs) \in Nat
        /\ \A i \in 1..Len(refs): refs[i].id \in Nat
    BY PairsOf DEF VectorTypes
  <1>2. /\ refs' \in Seq(Pair) /\ Len(refs') = Len(refs) + 1 /\ refs'[Len(refs) + 1] = e
        /\ \A i \in 1..Len(refs): refs'[i] = refs[i]
    BY <1>1, AppendProperties
  <1>3. DOMAIN refs' = 1..(Len(refs) + 1)
    BY <1>2, LenProperties
  <1> QED
    BY <1>1, <1>2, <1>3 DEF SortedById

\* Erasing keeps them sorted.
LEMMA SortedErase ==
  ASSUME VectorTypes, SortedById, NEW i \in 1..Len(refs),
         refs' = RemoveAt(refs, i), curr_id' = curr_id
  PROVE  SortedById'
  <1>1. /\ refs \in Seq(Pair) /\ curr_id \in Nat /\ DOMAIN refs = 1..Len(refs) /\ Len(refs) \in Nat
        /\ \A k \in 1..Len(refs): refs[k].id \in Nat
    BY PairsOf DEF VectorTypes
  <1>2. /\ refs' \in Seq(Pair) /\ Len(refs') = Len(refs) - 1
        /\ \A k \in 1..(Len(refs) - 1): refs'[k] = IF k < i THEN refs[k] ELSE refs[k + 1]
    BY <1>1, RemoveAtProperties
  <1>3. DOMAIN refs' = 1..(Len(refs) - 1)
    BY <1>2, LenProperties
  <1>. DEFINE n == Len(refs) - 1
  <1>4. n \in Int /\ n = Len(refs) - 1
    BY <1>1
  <1>5. /\ \A k \in 1..(n + 1): refs[k].id \in 1..curr_id
        /\ \A k, m \in 1..(n + 1): k < m => refs[k].id < refs[m].id
    <2>1. DOMAIN refs = 1..(n + 1)
      BY <1>1
    <2>. HIDE DEF n
    <2> QED
      BY <2>1 DEF SortedById
  <1>6. \A k \in 1..n: refs'[k] = IF k < i THEN refs[k] ELSE refs[k + 1]
    BY <1>2
  <1>7. DOMAIN refs' = 1..n /\ i \in Int
    BY <1>1, <1>3
  <1>. HIDE DEF n
  <1>8. \A k \in 1..n: refs'[k].id \in 1..curr_id
    BY <1>4, <1>5, <1>6, <1>7
  <1>9. ASSUME NEW k \in 1..n, NEW m \in 1..n, k < m PROVE refs'[k].id < refs'[m].id
    <2>1. k \in 1..(n + 1) /\ m \in 1..(n + 1) /\ k + 1 \in 1..(n + 1) /\ m + 1 \in 1..(n + 1)
      BY <1>4
    <2>2. refs[k].id < refs[m].id /\ refs[k].id < refs[m + 1].id /\ refs[k + 1].id < refs[m + 1].id
      BY <1>4, <1>5, <1>9, <2>1
    <2> QED
      BY <1>6, <1>7, <1>9, <2>1, <2>2
  <1> QED
    BY <1>7, <1>8, <1>9 DEF SortedById

\* lower_bound finds a connection exactly when it is in the vector: `disconnect`
\* raises its error for no id that is connected.
THEOREM DisconnectFinds ==
  ASSUME VectorTypes, SortedById, NEW k \in DOMAIN refs
  PROVE  \A i: LowerBound(i, refs[k].id) <=> i = k
  <1>1. /\ DOMAIN refs = 1..Len(refs) /\ Len(refs) \in Nat
        /\ \A i \in 1..Len(refs): refs[i].id \in Nat
    BY PairsOf DEF VectorTypes
  <1>2. LowerBound(k, refs[k].id)
    BY <1>1 DEF LowerBound, SortedById
  <1>3. ASSUME NEW i, LowerBound(i, refs[k].id) PROVE i = k
    <2>1. i \in 1..(Len(refs) + 1)
      BY <1>3 DEF LowerBound
    <2>2. ~(i < k)
      <3>1. SUFFICES ASSUME i < k PROVE FALSE
        OBVIOUS
      <3>2. i \in DOMAIN refs /\ refs[i].id >= refs[k].id
        BY <1>1, <1>3, <2>1, <3>1 DEF LowerBound
      <3>3. refs[i].id < refs[k].id
        BY <3>1, <3>2 DEF SortedById
      <3> QED
        BY <1>1, <3>2, <3>3
    <2>3. ~(k < i)
      <3>1. SUFFICES ASSUME k < i PROVE FALSE
        OBVIOUS
      <3>2. k \in 1..(i - 1)
        BY <1>1, <2>1, <3>1
      <3>3. refs[k].id < refs[k].id
        BY <1>3, <3>2 DEF LowerBound
      <3> QED
        BY <1>1, <3>3
    <2> QED
      BY <1>1, <2>1, <2>2, <2>3
  <1> QED
    BY <1>2, <1>3

\* What the buffer of the vector holds.
LEMMA BufferFacts ==
  ASSUME NEW r \in Seq(Pair), NEW s \in Seq(Pair)
  PROVE  /\ r \o s \in Seq(Pair) /\ Len(r \o s) = Len(r) + Len(s)
         /\ \A n \in 1..Len(r): (r \o s)[n] = r[n]
         /\ \A reg: LivePairs(r, reg) /\ LivePairs(s, reg) => LivePairs(r \o s, reg)
  <1>1. /\ r \o s \in Seq(Pair) /\ Len(r \o s) = Len(r) + Len(s) /\ Len(r) \in Nat /\ Len(s) \in Nat
        /\ \A n \in 1..(Len(r) + Len(s)): (r \o s)[n] = IF n <= Len(r) THEN r[n] ELSE s[n - Len(r)]
    BY ConcatProperties, LenProperties
  <1>. DEFINE c == r \o s
  <1>2. /\ Len(c) = Len(r) + Len(s)
        /\ \A n \in 1..(Len(r) + Len(s)): c[n] = IF n <= Len(r) THEN r[n] ELSE s[n - Len(r)]
    BY <1>1
  <1>. HIDE DEF c
  <1>3. \A n \in 1..Len(r): c[n] = r[n]
    BY <1>1, <1>2
  <1>4. ASSUME NEW reg, LivePairs(r, reg), LivePairs(s, reg), NEW n \in 1..Len(c)
        PROVE  c[n].ref \in Ref /\ reg[c[n].ref] # Nil
    <2>1. CASE n <= Len(r)
      BY <1>1, <1>2, <1>4, <2>1 DEF LivePairs
    <2>2. CASE n > Len(r)
      <3>1. n - Len(r) \in 1..Len(s) /\ c[n] = s[n - Len(r)]
        BY <1>1, <1>2, <2>2
      <3> QED
        BY <1>4, <3>1 DEF LivePairs
    <2> QED
      BY <1>1, <1>2, <2>1, <2>2
  <1> QED
    BY <1>1, <1>3, <1>4 DEF c, LivePairs

\* A frame stays in order when the vector only grows, in its buffer.
LEMMA FrameGrows ==
  ASSUME NEW f \in FireFrame, NEW r \in Seq(Pair), NEW b \in Seq(Pair), NEW reg, NEW r2 \in Seq(Pair),
         NEW b2 \in Seq(Pair), NEW reg2, FrameOK(f, r, b, reg),
         Len(r) <= Len(r2), \A n \in 1..Len(r): r2[n] = r[n], Len(b) <= Len(b2),
         \A x \in Ref: reg[x] # Nil => reg2[x] # Nil
  PROVE  FrameOK(f, r2, b2, reg2)
  <1>1. /\ Len(r) \in Nat /\ Len(b) \in Nat /\ Len(r2) \in Nat /\ Len(b2) \in Nat /\ Len(f.old) \in Nat
        /\ f.stop \in Nat /\ f.cursor \in Nat
    BY LenProperties DEF FireFrame
  <1>2. LivePairs(f.old, reg2)
    BY DEF FrameOK, LivePairs
  <1>3. f.stop <= Len(View(f, b2)) /\ f.cursor \in 1..(f.stop + 1)
    BY <1>1 DEF FrameOK, View
  <1>4. ASSUME f.clean PROVE CleanOK(f, View(f, r2))
    <2>1. CleanOK(f, View(f, r))
      BY <1>4 DEF FrameOK
    <2>2. CASE f.old = <<>>
      <3>1. CleanOK(f, r) /\ View(f, r2) = r2
        BY <2>1, <2>2 DEF View
      <3> QED
        BY <1>1, <3>1 DEF CleanOK
    <2>3. CASE f.old # <<>>
      BY <2>1, <2>3 DEF View
    <2> QED
      BY <2>2, <2>3
  <1> QED
    BY <1>2, <1>3, <1>4 DEF FrameOK

\* A frame that is stranded on the buffer b, while the vector moves to r2.
LEMMA FrameStranded ==
  ASSUME NEW f \in FireFrame, NEW r \in Seq(Pair), NEW s \in Seq(Pair), NEW reg, NEW r2 \in Seq(Pair),
         NEW b2 \in Seq(Pair), NEW reg2, FrameOK(f, r, r \o s, reg), f.old = <<>>,
         LivePairs(r \o s, reg2), Len(r) <= Len(r2), \A n \in 1..Len(r): r2[n] = r[n]
  PROVE  [f EXCEPT !.old = r \o s] \in FireFrame /\ FrameOK([f EXCEPT !.old = r \o s], r2, b2, reg2)
  <1>. DEFINE b == r \o s
              g == [f EXCEPT !.old = b]
  <1>1. b \in Seq(Pair) /\ Len(b) = Len(r) + Len(s) /\ (\A n \in 1..Len(r): b[n] = r[n]) /\ LivePairs(b, reg2)
    BY BufferFacts
  <1>2. /\ Len(r) \in Nat /\ Len(s) \in Nat /\ Len(r2) \in Nat /\ Len(b2) \in Nat
        /\ f.stop \in Nat /\ f.cursor \in Nat
    BY LenProperties DEF FireFrame
  <1>3. f.stop <= Len(b) /\ f.cursor \in 1..(f.stop + 1) /\ (f.clean => CleanOK(f, r))
    BY DEF FrameOK, View
  <1>. HIDE DEF b
  <1>4. g \in FireFrame
    BY <1>1 DEF FireFrame
  <1>5. /\ g.old = b /\ g.stop = f.stop /\ g.cursor = f.cursor /\ g.clean = f.clean
        /\ g.start = f.start /\ g.called = f.called
    BY DEF FireFrame
  <1>. HIDE DEF g
  <1>6. Len(<<>>) = 0
    OBVIOUS
  <1>7. f.stop <= Len(View(g, b2))
    <2>1. CASE b = <<>>
      BY <1>2, <1>3, <1>5, <1>6, <2>1 DEF View
    <2>2. CASE b # <<>>
      BY <1>3, <1>5, <2>2 DEF View
    <2> QED
      BY <2>1, <2>2
  <1>8. ASSUME f.clean PROVE CleanOK(g, View(g, r2))
    <2>1. CASE b = <<>>
      <3>1. f.stop = 0 /\ View(g, r2) = r2
        BY <1>2, <1>3, <1>5, <1>6, <2>1 DEF View
      <3> QED
        BY <1>2, <1>3, <1>5, <1>8, <3>1 DEF CleanOK
    <2>2. CASE b # <<>>
      <3>1. View(g, r2) = b
        BY <1>5, <2>2 DEF View
      <3> QED
        BY <1>1, <1>2, <1>3, <1>5, <1>8, <3>1 DEF CleanOK
    <2> QED
      BY <2>1, <2>2
  <1>9. FrameOK(g, r2, b2, reg2)
    BY <1>1, <1>3, <1>5, <1>7, <1>8 DEF FrameOK
  <1> QED
    BY <1>4, <1>9 DEF g, b

LEMMA StackFacts ==
  ASSUME NEW s \in Seq(FireFrame \union SpawnFrame)
  PROVE  /\ Len(s) \in Nat /\ DOMAIN s = 1..Len(s)
         /\ \A k \in 1..Len(s): s[k] \in FireFrame \union SpawnFrame
         /\ \A k \in 1..Len(s): s[k].kind = "fire" => s[k] \in FireFrame
         /\ s # <<>> => Len(s) \in Nat \ {0} /\ Last(s) = s[Len(s)]
  <1>1. Len(s) \in Nat /\ DOMAIN s = 1..Len(s) /\ \A k \in 1..Len(s): s[k] \in FireFrame \union SpawnFrame
    BY LenProperties, ElementOfSeq
  <1>2. \A f \in SpawnFrame: f.kind = "spawn"
    BY DEF SpawnFrame
  <1>3. s # <<>> => Len(s) \in Nat \ {0} /\ Last(s) = s[Len(s)]
    BY EmptySeq DEF Last
  <1> QED
    BY <1>1, <1>2, <1>3

\* The frames of an event that exists.
LEMMA FramesOf ==
  ASSUME IInv, alive # "destroyed", NEW k \in 1..Len(stack), stack[k].kind = "fire"
  PROVE  stack[k] \in FireFrame /\ FrameOK(stack[k], refs, refs \o residue, registry)
  BY StackFacts DEF IInv, VectorTypes, VectorOK, FireFrames

LEMMA ConnectInv == ASSUME IInv, NEW h \in Handler, Connect(h) PROVE IInv'
  <1>. DEFINE n == curr_id + 1
  <1>1. PICK r \in Ref: /\ registry[r] = Nil /\ registry' = [registry EXCEPT ![r] = h]
                        /\ PushBack([id |-> n, ref |-> r])
    BY DEF Connect
  <1>. DEFINE e == [id |-> n, ref |-> r]
  <1>2. /\ pc = "lua" /\ pc' = "lua" /\ alive = "held" /\ alive' = "held" /\ curr_id' = curr_id + 1
        /\ refs' = Append(refs, e) /\ curr_id \in Nat /\ cap \in Nat
        /\ refs \in Seq(Pair) /\ residue \in Seq(Pair) /\ stack \in Seq(FireFrame \union SpawnFrame)
        /\ registry \in [Ref -> Handler \union {Nil}]
    BY <1>1 DEF Connect, IInv, VectorTypes, PushBack
  <1>3. e \in Pair /\ e.id = curr_id + 1 /\ e.ref = r
    BY <1>2 DEF Pair
  <1>4. VectorOK /\ VectorTypes /\ SortedById
    BY <1>2 DEF IInv
  <1>5. SortedById'
    BY <1>2, <1>3, <1>4, SortedAppend
  <1>. HIDE DEF e, n
  <1>6. /\ registry' \in [Ref -> Handler \union {Nil}] /\ registry'[r] # Nil
        /\ \A x \in Ref: registry[x] # Nil => registry'[x] # Nil
    BY <1>1, <1>2, HandlerAssumption
  <1>7. /\ refs' \in Seq(Pair) /\ Len(refs') = Len(refs) + 1 /\ refs'[Len(refs) + 1] = e
        /\ \A i \in 1..Len(refs): refs'[i] = refs[i]
    BY <1>2, <1>3, AppendProperties
  <1>8. /\ Len(refs) \in Nat /\ DOMAIN refs = 1..Len(refs) /\ DOMAIN refs' = 1..(Len(refs) + 1)
        /\ Len(residue) \in Nat
    BY <1>2, <1>7, PairsOf
  <1>9. LivePairs(refs', registry')
    BY <1>3, <1>4, <1>6, <1>7, <1>8 DEF LivePairs, VectorOK
  <1>10. Distinct(refs')
    <2>1. \A i \in 1..Len(refs): refs[i].ref # r
      BY <1>1, <1>4 DEF VectorOK, LivePairs
    <2> QED
      BY <2>1, <1>3, <1>4, <1>7, <1>8 DEF Distinct, VectorOK
  <1>11. /\ Len(stack) \in Nat /\ DOMAIN stack = 1..Len(stack)
         /\ \A k \in 1..Len(stack): stack[k] \in FireFrame \union SpawnFrame
         /\ \A k \in 1..Len(stack): stack[k].kind = "fire" =>
              stack[k] \in FireFrame /\ FrameOK(stack[k], refs, refs \o residue, registry)
    BY <1>2, StackFacts, FramesOf
  <1>12. LivePairs(residue, registry') /\ LivePairs(refs, registry')
    BY <1>4, <1>6 DEF LivePairs, VectorOK
  <1>13. CASE Len(refs) < cap
    <2>1. /\ residue' = (IF residue = <<>> THEN <<>> ELSE Tail(residue)) /\ cap' = cap /\ stack' = stack
      BY <1>1, <1>13 DEF PushBack
    <2>2. /\ residue' \in Seq(Pair) /\ Len(residue) <= Len(residue') + 1 /\ Len(residue') \in Nat
          /\ LivePairs(residue', registry')
      <3>1. CASE residue = <<>>
        BY <3>1, <2>1, <1>2, <1>12, EmptySeq
      <3>2. CASE residue # <<>>
        <4>1. /\ Tail(residue) \in Seq(Pair) /\ Len(Tail(residue)) = Len(residue) - 1
              /\ \A i \in 1..Len(Tail(residue)): Tail(residue)[i] = residue[i + 1]
          BY <1>2, <3>2, HeadTailProperties
        <4>2. Len(residue) \in Nat \ {0}
          BY <1>2, <3>2, EmptySeq
        <4> QED
          BY <4>1, <4>2, <3>2, <2>1, <1>12 DEF LivePairs
      <3> QED
        BY <3>1, <3>2
    <2>3. /\ refs \o residue \in Seq(Pair) /\ refs' \o residue' \in Seq(Pair)
          /\ Len(refs \o residue) <= Len(refs' \o residue')
      BY <1>2, <1>7, <1>8, <2>2, BufferFacts
    <2>4. \A k \in FireFrames': FrameOK(stack'[k], refs', refs' \o residue', registry')
      <3>1. Len(refs) <= Len(refs')
        BY <1>7, <1>8
      <3>2. SUFFICES ASSUME NEW k \in 1..Len(stack), stack[k].kind = "fire"
                     PROVE  FrameOK(stack[k], refs', refs' \o residue', registry')
        BY <1>11, <2>1 DEF FireFrames
      <3>3. stack[k] \in FireFrame /\ FrameOK(stack[k], refs, refs \o residue, registry)
        BY <1>11, <3>2
      <3> QED
        BY <1>2, <1>6, <1>7, <2>3, <3>1, <3>3, FrameGrows
    <2> QED
      BY <1>2, <1>5, <1>6, <1>7, <1>9, <1>10, <2>1, <2>2, <2>4 DEF IInv, VectorTypes, ControlOK, VectorOK
  <1>14. CASE ~(Len(refs) < cap)
    <2>1. /\ residue' = <<>> /\ stack' = Strand(stack) /\ cap' \in Nat
      <3>1. cap' \in (cap + 1)..(IF cap = 0 THEN 1 ELSE 2 * cap) /\ residue' = <<>> /\ stack' = Strand(stack)
        BY <1>1, <1>14 DEF PushBack
      <3> QED
        BY <3>1, <1>2
    <2>2. /\ residue' \in Seq(Pair) /\ LivePairs(residue', registry') /\ refs' \o residue' \in Seq(Pair)
          /\ LivePairs(refs \o residue, registry')
      BY <2>1, <1>2, <1>7, <1>12, EmptySeq, BufferFacts DEF LivePairs
    <2>3. stack' = [k \in 1..Len(stack) |->
            IF stack[k].kind = "fire" /\ stack[k].old = <<>>
            THEN [stack[k] EXCEPT !.old = refs \o residue] ELSE stack[k]]
      BY <2>1, <1>11 DEF Strand
    <2>4. ASSUME NEW k \in 1..Len(stack)
          PROVE  /\ stack'[k] \in FireFrame \union SpawnFrame
                 /\ stack'[k].kind = "fire" => FrameOK(stack'[k], refs', refs' \o residue', registry')
      <3>1. CASE stack[k].kind = "fire" /\ stack[k].old = <<>>
        <4>1. stack'[k] = [stack[k] EXCEPT !.old = refs \o residue]
          BY <2>3, <3>1
        <4>2. /\ [stack[k] EXCEPT !.old = refs \o residue] \in FireFrame
              /\ FrameOK([stack[k] EXCEPT !.old = refs \o residue], refs', refs' \o residue', registry')
          <5>1. stack[k] \in FireFrame /\ FrameOK(stack[k], refs, refs \o residue, registry) /\ stack[k].old = <<>>
            BY <1>11, <3>1
          <5>2. Len(refs) <= Len(refs') /\ \A i \in 1..Len(refs): refs'[i] = refs[i]
            BY <1>7, <1>8
          <5> QED
            BY <1>2, <1>7, <2>2, <5>1, <5>2, FrameStranded
        <4> QED
          BY <4>1, <4>2
      <3>2. CASE stack[k].kind # "fire"
        BY <2>3, <1>11, <3>2
      <3>3. CASE stack[k].kind = "fire" /\ stack[k].old # <<>>
        <4>1. stack'[k] = stack[k] /\ stack[k] \in FireFrame /\ FrameOK(stack[k], refs, refs \o residue, registry)
          BY <2>3, <1>11, <3>3
        <4>2. /\ FrameOK(stack[k], refs', refs' \o residue', registry')
          BY <4>1, <1>6, <3>3 DEF FrameOK, View, LivePairs, FireFrame
        <4> QED
          BY <4>1, <4>2
      <3> QED
        BY <3>1, <3>2, <3>3
    <2>5. stack' \in Seq(FireFrame \union SpawnFrame) /\ DOMAIN stack' = 1..Len(stack)
      BY <1>11, <2>3, <2>4, MapIsSeq
    <2> QED
      BY <1>2, <1>5, <1>6, <1>7, <1>9, <1>10, <2>1, <2>2, <2>4, <2>5
         DEF IInv, VectorTypes, ControlOK, VectorOK, FireFrames
  <1> QED
    BY <1>13, <1>14

LEMMA DisconnectInv == ASSUME IInv, NEW id, Disconnect(id) PROVE IInv'
  <1>1. PICK i \in 1..Len(refs): EraseAt(i)
    <2>1. DOMAIN refs = 1..Len(refs)
      BY PairsOf DEF IInv, VectorTypes
    <2> QED
      BY <2>1 DEF Disconnect
  <1>2. /\ pc = "lua" /\ pc' = "lua" /\ alive = "held" /\ alive' = "held" /\ curr_id' = curr_id /\ cap' = cap
        /\ refs' = RemoveAt(refs, i) /\ residue' = <<Last(refs)>> \o residue
        /\ stack' = Mark(stack, id) /\ registry' = registry
        /\ refs \in Seq(Pair) /\ residue \in Seq(Pair) /\ stack \in Seq(FireFrame \union SpawnFrame)
    BY <1>1 DEF Disconnect, EraseAt, IInv, VectorTypes
  <1>3. VectorOK /\ VectorTypes /\ SortedById
    BY <1>2 DEF IInv
  <1>4. SortedById'
    BY <1>2, <1>3, SortedErase
  <1>5. /\ refs' \in Seq(Pair) /\ Len(refs') = Len(refs) - 1
        /\ \A k \in 1..(Len(refs) - 1): refs'[k] = IF k < i THEN refs[k] ELSE refs[k + 1]
    BY <1>2, RemoveAtProperties
  <1>6. /\ Len(refs) \in Nat /\ DOMAIN refs = 1..Len(refs) /\ DOMAIN refs' = 1..(Len(refs) - 1)
        /\ Len(residue) \in Nat /\ Len(refs) >= 1
    <2>1. Len(refs) \in Nat /\ DOMAIN refs = 1..Len(refs) /\ Len(residue) \in Nat
      BY <1>2, PairsOf
    <2>2. DOMAIN refs' = 1..Len(refs')
      BY <1>5, LenProperties
    <2> QED
      BY <1>5, <2>1, <2>2
  <1>7. Last(refs) = refs[Len(refs)] /\ Last(refs) \in Pair
    BY <1>2, <1>6, PairsOf DEF Last
  <1>8. /\ residue' \in Seq(Pair) /\ Len(residue') = Len(residue) + 1
        /\ \A n \in 1..(Len(residue) + 1): residue'[n] = IF n = 1 THEN Last(refs) ELSE residue[n - 1]
    <2>. DEFINE l == <<Last(refs)>>
    <2>1. l \in Seq(Pair) /\ Len(l) = 1 /\ l[1] = Last(refs)
      BY <1>7
    <2>. HIDE DEF l
    <2>2. /\ l \o residue \in Seq(Pair) /\ Len(l \o residue) = Len(l) + Len(residue)
          /\ \A n \in 1..(Len(l) + Len(residue)):
               (l \o residue)[n] = IF n <= Len(l) THEN l[n] ELSE residue[n - Len(l)]
      BY <1>2, <2>1, ConcatProperties
    <2>3. residue' = l \o residue
      BY <1>2 DEF l
    <2> QED
      BY <1>6, <2>1, <2>2, <2>3
  <1>9. LivePairs(residue', registry')
    <2>1. \A n \in 1..Len(refs): refs[n].ref \in Ref /\ registry[refs[n].ref] # Nil
      BY <1>3 DEF VectorOK, LivePairs
    <2>2. \A n \in 1..Len(residue): residue[n].ref \in Ref /\ registry[residue[n].ref] # Nil
      BY <1>3 DEF VectorOK, LivePairs
    <2>3. ASSUME NEW n \in 1..(Len(residue) + 1)
          PROVE  residue'[n].ref \in Ref /\ registry[residue'[n].ref] # Nil
      <3>1. CASE n = 1
        BY <1>6, <1>7, <1>8, <2>1, <3>1
      <3>2. CASE n # 1
        <4>1. n - 1 \in 1..Len(residue) /\ residue'[n] = residue[n - 1]
          BY <1>6, <1>8, <3>2
        <4> QED
          BY <2>2, <4>1
      <3> QED
        BY <3>1, <3>2
    <2> QED
      BY <1>2, <1>8, <2>3 DEF LivePairs
  <1>10. LivePairs(refs', registry')
    <2>1. \A n \in 1..Len(refs): refs[n].ref \in Ref /\ registry[refs[n].ref] # Nil
      BY <1>3 DEF VectorOK, LivePairs
    <2>2. \A n \in 1..(Len(refs) - 1): \E m \in 1..Len(refs): refs'[n] = refs[m]
      BY <1>5, <1>6
    <2> QED
      BY <1>2, <1>5, <2>1, <2>2 DEF LivePairs
  <1>11. Distinct(refs')
    <2>. SUFFICES ASSUME NEW k \in 1..(Len(refs) - 1), NEW m \in 1..(Len(refs) - 1), refs'[k].ref = refs'[m].ref
                  PROVE  k = m
      BY <1>6 DEF Distinct
    <2>. DEFINE s(x) == IF x < i THEN x ELSE x + 1
    <2>1. s(k) \in 1..Len(refs) /\ s(m) \in 1..Len(refs) /\ refs'[k] = refs[s(k)] /\ refs'[m] = refs[s(m)]
      BY <1>5, <1>6
    <2>2. s(k) = s(m)
      BY <1>3, <1>6, <2>1 DEF VectorOK, Distinct
    <2> QED
      BY <2>2
  <1>12. /\ refs' \o residue' \in Seq(Pair) /\ Len(refs' \o residue') = Len(refs \o residue)
    <2>1. refs \o residue \in Seq(Pair) /\ Len(refs \o residue) = Len(refs) + Len(residue)
      BY <1>2, BufferFacts
    <2>2. refs' \o residue' \in Seq(Pair) /\ Len(refs' \o residue') = Len(refs') + Len(residue')
      BY <1>5, <1>8, BufferFacts
    <2>3. Len(refs') + Len(residue') = Len(refs) + Len(residue)
      BY <1>5, <1>6, <1>8
    <2> QED
      BY <2>1, <2>2, <2>3
  <1>13. /\ Len(stack) \in Nat /\ DOMAIN stack = 1..Len(stack)
         /\ \A k \in 1..Len(stack): stack[k] \in FireFrame \union SpawnFrame
         /\ \A k \in 1..Len(stack): stack[k].kind = "fire" =>
              stack[k] \in FireFrame /\ FrameOK(stack[k], refs, refs \o residue, registry)
    BY <1>2, StackFacts, FramesOf
  <1>14. stack' = [k \in 1..Len(stack) |->
           IF stack[k].kind # "fire" THEN stack[k]
           ELSE [stack[k] EXCEPT !.clean = FALSE,
                                 !.left = IF Last(stack[k].called).id = id THEN @ \union {id} ELSE @]]
    BY <1>2, <1>13 DEF Mark
  <1>15. id \in Nat
    <2>1. PICK k \in DOMAIN refs: refs[k].id = id
      BY DEF Disconnect
    <2> QED
      BY <1>2, <1>6, <2>1, PairsOf
  <1>16. ASSUME NEW k \in 1..Len(stack)
         PROVE  /\ stack'[k] \in FireFrame \union SpawnFrame
                /\ stack'[k].kind = "fire" => FrameOK(stack'[k], refs', refs' \o residue', registry')
    <2>1. CASE stack[k].kind # "fire"
      BY <1>13, <1>14, <2>1
    <2>2. CASE stack[k].kind = "fire"
      <3>. DEFINE f == stack[k]
                  l == IF Last(f.called).id = id THEN f.left \union {id} ELSE f.left
                  g == [f EXCEPT !.clean = FALSE, !.left = l]
      <3>1. f \in FireFrame /\ FrameOK(f, refs, refs \o residue, registry) /\ stack'[k] = g
        BY <1>13, <1>14, <2>2
      <3>2. l \in SUBSET Nat
        BY <1>15, <3>1 DEF FireFrame
      <3>. HIDE DEF l
      <3>3. g \in FireFrame /\ g.old = f.old /\ g.stop = f.stop /\ g.cursor = f.cursor /\ ~g.clean
        BY <3>1, <3>2 DEF FireFrame
      <3>. HIDE DEF g
      <3>4. FrameOK(g, refs', refs' \o residue', registry')
        BY <1>2, <1>12, <3>1, <3>3 DEF FrameOK, View
      <3> QED
        BY <3>1, <3>3, <3>4
    <2> QED
      BY <2>1, <2>2
  <1>17. stack' \in Seq(FireFrame \union SpawnFrame) /\ DOMAIN stack' = 1..Len(stack)
    BY <1>13, <1>14, <1>16, MapIsSeq
  <1> QED
    BY <1>2, <1>3, <1>4, <1>5, <1>8, <1>9, <1>10, <1>11, <1>16, <1>17
       DEF IInv, VectorTypes, ControlOK, VectorOK, FireFrames

LEMMA FireInv == ASSUME IInv, Fire PROVE IInv'
  <1>. DEFINE f == [kind |-> "fire", cursor |-> 1, stop |-> Len(refs), old |-> <<>>,
                    args |-> IF Foreign THEN "stray" ELSE "given",
                    start |-> refs, called |-> <<>>, clean |-> TRUE, left |-> {}]
  <1>1. /\ alive = "held" /\ pc' = "fire" /\ stack' = Append(stack, f)
        /\ UNCHANGED <<refs, residue, cap, curr_id, registry, alive>>
        /\ refs \in Seq(Pair) /\ residue \in Seq(Pair) /\ stack \in Seq(FireFrame \union SpawnFrame)
    BY DEF Fire, vector, IInv, VectorTypes
  <1>2. Len(refs) \in Nat /\ Len(<<>>) = 0 /\ <<>> \in Seq(Pair)
    BY <1>1, PairsOf, EmptySeq
  <1>3. f \in FireFrame
    BY <1>1, <1>2 DEF FireFrame
  <1>4. FrameOK(f, refs, refs \o residue, registry)
    <2>1. Len(refs) <= Len(refs \o residue)
      BY <1>1, BufferFacts, PairsOf
    <2> QED
      BY <1>2, <2>1 DEF FrameOK, View, CleanOK, LivePairs
  <1>5. f.kind = "fire"
    OBVIOUS
  <1>. HIDE DEF f
  <1>6. /\ stack' \in Seq(FireFrame \union SpawnFrame) /\ stack' # <<>> /\ Len(stack') = Len(stack) + 1
        /\ \A k \in 1..Len(stack): stack'[k] = stack[k]
        /\ stack'[Len(stack) + 1] = f
    BY <1>1, <1>3, AppendProperties
  <1>7. Len(stack) \in Nat /\ DOMAIN stack = 1..Len(stack) /\ DOMAIN stack' = 1..(Len(stack) + 1) /\ Last(stack') = f
    BY <1>1, <1>6, StackFacts
  <1>8. \A k \in 1..(Len(stack) + 1): stack'[k].kind = "fire" =>
          FrameOK(stack'[k], refs, refs \o residue, registry)
    BY <1>1, <1>4, <1>6, <1>7, FramesOf
  <1>9. VectorOK' /\ SortedById' /\ VectorTypes'
    BY <1>1, <1>6, <1>7, <1>8 DEF IInv, VectorTypes, VectorOK, FireFrames, SortedById
  <1> QED
    BY <1>1, <1>5, <1>6, <1>7, <1>9 DEF IInv, ControlOK, Top

\* The slot a fire reads is live, and the one it was connected with while nothing is disconnected.
LEMMA SlotLive ==
  ASSUME IInv, alive # "destroyed", NEW k \in 1..Len(stack), stack[k].kind = "fire",
         NEW n \in stack[k].cursor..stack[k].stop
  PROVE  /\ Slots(stack[k])[n] \in Pair
         /\ Slots(stack[k])[n].ref \in Ref /\ registry[Slots(stack[k])[n].ref] # Nil
         /\ stack[k].clean => n \in 1..Len(stack[k].start) /\ Slots(stack[k])[n] = stack[k].start[n]
  <1>. DEFINE f == stack[k]
              b == refs \o residue
              v == View(f, b)
  <1>1. f \in FireFrame /\ FrameOK(f, refs, b, registry) /\ refs \in Seq(Pair) /\ residue \in Seq(Pair)
    BY FramesOf DEF IInv, VectorTypes
  <1>2. LivePairs(b, registry) /\ b \in Seq(Pair) /\ \A m \in 1..Len(refs): b[m] = refs[m]
    BY <1>1, BufferFacts DEF IInv, VectorOK
  <1>3. Slots(f) = v
    BY DEF Slots, View
  <1>. HIDE DEF b
  <1>4. v \in Seq(Pair) /\ LivePairs(v, registry) /\ f.stop \in Nat /\ f.cursor \in Nat
    BY <1>1, <1>2 DEF View, FrameOK, FireFrame
  <1>5. n \in 1..Len(v) /\ n \in 1..f.stop
    BY <1>1, <1>4, LenProperties DEF FrameOK
  <1>6. ASSUME f.clean PROVE n \in 1..Len(f.start) /\ v[n] = f.start[n]
    <2>1. CleanOK(f, View(f, refs))
      BY <1>1, <1>6 DEF FrameOK
    <2>2. CASE f.old = <<>>
      <3>1. n \in 1..Len(refs) /\ View(f, refs) = refs /\ v = b
        BY <1>1, <1>5, <2>1, <2>2, LenProperties DEF CleanOK, View
      <3> QED
        BY <1>2, <1>5, <2>1, <3>1 DEF CleanOK
    <2>3. CASE f.old # <<>>
      BY <1>5, <2>1, <2>3 DEF CleanOK, View
    <2> QED
      BY <2>2, <2>3
  <1> QED
    BY <1>3, <1>4, <1>5, <1>6, PairsOf DEF LivePairs

LEMMA ReadSlotInv == ASSUME IInv, ReadSlot PROVE IInv'
  <1>. DEFINE m == Len(stack)
              f == stack[m]
              e == Slots(f)[f.cursor]
              g == [f EXCEPT !.cursor = @ + 1, !.called = Append(@, e)]
  <1>1. /\ pc = "fire" /\ stack # <<>> /\ Top.kind = "fire" /\ alive # "destroyed"
        /\ UNCHANGED <<refs, residue, cap, curr_id, registry, alive>>
        /\ stack \in Seq(FireFrame \union SpawnFrame) /\ VectorOK /\ VectorTypes /\ SortedById
        /\ refs \in Seq(Pair) /\ residue \in Seq(Pair)
    BY DEF ReadSlot, vector, IInv, ControlOK, VectorTypes
  <1>2. m \in 1..Len(stack) /\ Top = f /\ f.kind = "fire" /\ DOMAIN stack = 1..Len(stack) /\ Len(stack) \in Nat
    BY <1>1, StackFacts DEF Top
  <1>3. f \in FireFrame /\ FrameOK(f, refs, refs \o residue, registry)
    BY <1>1, <1>2, FramesOf
  <1>4. ~(f.cursor > f.stop) /\ stack' = [stack EXCEPT ![m].cursor = @ + 1, ![m].called = Append(@, e)]
        /\ pc' = IF registry[e.ref] = Nil THEN pc ELSE "lua"
    BY <1>2 DEF ReadSlot, PastEnd
  <1>5. f.stop \in Nat /\ f.cursor \in Nat /\ f.called \in Seq(Pair) /\ f.start \in Seq(Pair) /\ Len(f.called) \in Nat
    BY <1>3, LenProperties DEF FireFrame
  <1>6. f.cursor \in f.cursor..f.stop /\ f.cursor >= 1
    BY <1>3, <1>4, <1>5 DEF FrameOK
  <1>7. /\ e \in Pair
        /\ f.clean => f.cursor \in 1..Len(f.start) /\ e = f.start[f.cursor]
    BY <1>1, <1>2, <1>6, SlotLive
  <1>. HIDE DEF e
  <1>8. stack' = [stack EXCEPT ![m] = g]
    BY <1>1, <1>2, <1>3, <1>4 DEF FireFrame
  <1>9. /\ Append(f.called, e) \in Seq(Pair) /\ Len(Append(f.called, e)) = Len(f.called) + 1
        /\ \A n \in 1..Len(f.called): Append(f.called, e)[n] = f.called[n]
        /\ Append(f.called, e)[Len(f.called) + 1] = e
    BY <1>5, <1>7, AppendProperties
  <1>. DEFINE c == Append(f.called, e)
  <1>10. c \in Seq(Pair) /\ f.cursor + 1 \in Nat
    BY <1>5, <1>9
  <1>11. g = [f EXCEPT !.cursor = f.cursor + 1, !.called = c]
    BY <1>3 DEF FireFrame
  <1>. HIDE DEF c
  <1>12. /\ g \in FireFrame /\ g.cursor = f.cursor + 1 /\ g.called = c /\ g.stop = f.stop /\ g.old = f.old
         /\ g.start = f.start /\ g.clean = f.clean /\ g.kind = "fire"
    BY <1>3, <1>10, <1>11 DEF FireFrame
  <1>. HIDE DEF g
  <1>13. FrameOK(g, refs, refs \o residue, registry)
    <2>1. g.cursor \in 1..(g.stop + 1)
      BY <1>5, <1>6, <1>12
    <2>2. ASSUME f.clean PROVE CleanOK(g, View(g, refs))
      <3>1. CleanOK(f, View(f, refs))
        BY <1>3, <2>2 DEF FrameOK
      <3>2. View(g, refs) = View(f, refs)
        BY <1>12 DEF View
      <3>3. Len(c) = g.cursor - 1
        BY <3>1, <1>5, <1>9, <1>12 DEF CleanOK, c
      <3>4. \A n \in 1..(g.cursor - 1): c[n] = f.start[n]
        BY <3>1, <2>2, <1>5, <1>7, <1>9, <1>12 DEF CleanOK, c
      <3> QED
        BY <1>12, <3>1, <3>2, <3>3, <3>4 DEF CleanOK
    <2>3. View(g, refs \o residue) = View(f, refs \o residue)
      BY <1>12 DEF View
    <2> QED
      BY <1>3, <1>12, <2>1, <2>2, <2>3 DEF FrameOK
  <1>14. stack' \in Seq(FireFrame \union SpawnFrame) /\ DOMAIN stack' = 1..Len(stack)
    BY <1>1, <1>2, <1>8, <1>12, ExceptSeq
  <1>15. stack' # <<>> /\ Last(stack') = g /\ Len(stack') = Len(stack)
    <2>1. Len(stack') = Len(stack) /\ stack'[m] = g
      BY <1>1, <1>2, <1>8, <1>12, ExceptSeq
    <2> QED
      BY <1>2, <1>14, <2>1, EmptySeq DEF Last
  <1>16. \A k \in 1..Len(stack): stack'[k].kind = "fire" => FrameOK(stack'[k], refs, refs \o residue, registry)
    <2>. SUFFICES ASSUME NEW k \in 1..Len(stack), stack'[k].kind = "fire"
                  PROVE  FrameOK(stack'[k], refs, refs \o residue, registry)
      OBVIOUS
    <2>1. CASE k = m
      BY <1>2, <1>8, <1>13, <2>1
    <2>2. CASE k # m
      BY <1>1, <1>2, <1>8, <2>2, FramesOf
    <2> QED
      BY <2>1, <2>2
  <1>17. VectorOK'
    BY <1>1, <1>14, <1>16 DEF VectorOK, FireFrames
  <1>18. VectorTypes' /\ SortedById'
    BY <1>1, <1>4, <1>14 DEF VectorTypes, SortedById
  <1>19. ControlOK'
    BY <1>1, <1>12, <1>15 DEF ControlOK, Top
  <1> QED
    BY <1>1, <1>17, <1>18, <1>19 DEF IInv

\* The frames below the top one stay as they are when it is popped.
LEMMA PopInv ==
  ASSUME IInv, stack # <<>>, stack' = Front(stack), pc' = "lua",
         UNCHANGED <<refs, residue, cap, curr_id, registry, alive>>
  PROVE  IInv'
  <1>1. /\ Front(stack) \in Seq(FireFrame \union SpawnFrame) /\ Len(Front(stack)) = Len(stack) - 1
        /\ \A k \in 1..(Len(stack) - 1): Front(stack)[k] = stack[k]
    BY FrontProperties DEF IInv, VectorTypes
  <1>2. Len(stack) \in Nat /\ DOMAIN stack = 1..Len(stack) /\ DOMAIN stack' = 1..(Len(stack) - 1)
    BY <1>1, StackFacts DEF IInv, VectorTypes
  <1>3. ASSUME alive # "destroyed" PROVE VectorOK'
    <2>1. \A k \in 1..(Len(stack) - 1): stack'[k].kind = "fire" => FrameOK(stack'[k], refs, refs \o residue, registry)
      BY <1>1, <1>2, <1>3, FramesOf
    <2> QED
      BY <1>2, <1>3, <2>1 DEF IInv, VectorOK, FireFrames
  <1> QED
    BY <1>1, <1>3 DEF IInv, VectorTypes, SortedById, ControlOK

LEMMA SpawnInv == ASSUME IInv, Spawn PROVE IInv'
  <1>. DEFINE f == [kind |-> "spawn"]
  <1>1. /\ pc = "lua" /\ pc' = "lua" /\ stack' = Append(stack, f) /\ f \in SpawnFrame /\ f.kind = "spawn"
        /\ UNCHANGED <<refs, residue, cap, curr_id, registry, alive>>
        /\ stack \in Seq(FireFrame \union SpawnFrame)
    BY DEF Spawn, vector, SpawnFrame, IInv, VectorTypes
  <1>. HIDE DEF f
  <1>2. /\ stack' \in Seq(FireFrame \union SpawnFrame) /\ Len(stack') = Len(stack) + 1
        /\ \A k \in 1..Len(stack): stack'[k] = stack[k]
        /\ stack'[Len(stack) + 1] = f
    BY <1>1, AppendProperties
  <1>3. Len(stack) \in Nat /\ DOMAIN stack' = 1..(Len(stack) + 1)
    BY <1>1, <1>2, StackFacts
  <1>4. ASSUME alive # "destroyed" PROVE VectorOK'
    <2>1. \A k \in 1..(Len(stack) + 1): stack'[k].kind = "fire" => FrameOK(stack'[k], refs, refs \o residue, registry)
      BY <1>1, <1>2, <1>3, <1>4, FramesOf
    <2> QED
      BY <1>1, <1>3, <1>4, <2>1 DEF IInv, VectorOK, FireFrames
  <1> QED
    BY <1>1, <1>2, <1>4 DEF IInv, VectorTypes, SortedById, ControlOK

LEMMA DestroyInv == ASSUME IInv, Destroy PROVE IInv'
  <1>1. /\ pc' \in {"lua", "undefined"} /\ alive' = "destroyed" /\ refs' = <<>> /\ residue' = <<>> /\ cap' = 0
        /\ registry' = [r \in Ref |-> IF \E i \in DOMAIN refs: refs[i].ref = r THEN Nil ELSE registry[r]]
        /\ UNCHANGED <<curr_id, stack>>
    BY DEF Destroy
  <1>2. registry' \in [Ref -> Handler \union {Nil}]
    BY <1>1 DEF IInv, VectorTypes
  <1>3. refs' \in Seq(Pair) /\ residue' \in Seq(Pair) /\ DOMAIN refs' = {}
    BY <1>1, EmptySeq
  <1> QED
    BY <1>1, <1>2, <1>3 DEF IInv, VectorTypes, SortedById, ControlOK

----------------------------------------------------------------------------
(* Theorems *)

LEMMA InitIInv == Init => IInv
  <1>. SUFFICES ASSUME Init PROVE IInv
    OBVIOUS
  <1>1. /\ refs = <<>> /\ residue = <<>> /\ stack = <<>> /\ pc = "lua" /\ alive = "held" /\ cap = 0 /\ curr_id = 0
        /\ registry = [r \in Ref |-> Nil]
    BY DEF Init
  <1>2. /\ refs \in Seq(Pair) /\ residue \in Seq(Pair) /\ stack \in Seq(FireFrame \union SpawnFrame)
        /\ DOMAIN refs = {} /\ DOMAIN stack = {} /\ Len(refs) = 0 /\ Len(residue) = 0
    BY <1>1, EmptySeq
  <1> QED
    BY <1>1, <1>2 DEF IInv, VectorTypes, SortedById, ControlOK, VectorOK, LivePairs, Distinct, FireFrames

\* A frame is that of a fire or of a co_spawn.
LEMMA TopKind == ASSUME VectorTypes, stack # <<>> PROVE Top.kind \in {"fire", "spawn"}
  <1>1. Top \in FireFrame \union SpawnFrame
    BY StackFacts DEF VectorTypes, Top
  <1> QED
    BY <1>1 DEF FireFrame, SpawnFrame

LEMMA StepIInv == IInv /\ [Next]_vars => IInv'
  <1>. SUFFICES ASSUME IInv, [Next]_vars PROVE IInv'
    OBVIOUS
  <1>1. ASSUME UNCHANGED <<refs, residue, cap, curr_id, registry, stack>>,
               alive' \in {alive, "dropped"}, alive # "destroyed" \/ alive' = alive,
               pc' \in {"lua", "undefined"} \/ (pc' = "fire" /\ stack # <<>> /\ Top.kind = "fire" /\ alive' # "destroyed")
        PROVE  IInv'
    <2>1. VectorTypes' /\ SortedById'
      BY <1>1 DEF IInv, VectorTypes, SortedById
    <2>2. ControlOK'
      BY <1>1 DEF ControlOK, Top
    <2>3. IF alive' = "destroyed" THEN refs' = <<>> ELSE VectorOK'
      BY <1>1 DEF IInv, VectorOK, FireFrames
    <2> QED
      BY <2>1, <2>2, <2>3 DEF IInv
  <1>2. CASE ReadFreed \/ HandlerDone \/ HandlerFails \/ StrayPop \/ Drop \/ FreeCreator \/ UseFreed
    BY <1>1, <1>2 DEF ReadFreed, HandlerDone, HandlerFails, StrayPop, Drop, FreeCreator, UseFreed, vector, IInv, VectorTypes
  <1>3. CASE EndFire
    BY <1>3, PopInv DEF EndFire, vector, IInv, ControlOK
  <1>4. CASE SpawnDone
    BY <1>4, PopInv DEF SpawnDone, Foreign, vector
  <1>5. CASE UNCHANGED vars
    BY <1>1, <1>5 DEF vars, IInv, ControlOK, VectorTypes
  <1>6. ASSUME NEW id, DisconnectMissing(id) PROVE IInv'
    <2>1. /\ UNCHANGED <<refs, residue, cap, curr_id, registry, stack, alive>> /\ alive = "held"
          /\ pc' = "undefined" \/ (pc' = "fire" /\ stack # <<>> /\ Top.kind # "spawn")
      BY <1>6 DEF DisconnectMissing, Foreign, vector
    <2>2. stack # <<>> => Top.kind \in {"fire", "spawn"}
      BY TopKind DEF IInv
    <2> QED
      BY <1>1, <2>1, <2>2
  <1> QED
    BY <1>2, <1>3, <1>4, <1>5, <1>6, ConnectInv, DisconnectInv, FireInv, ReadSlotInv, SpawnInv, DestroyInv
       DEF Next, Loop, Lua, Done, Idle

\* The inductive invariant holds throughout.
THEOREM Invariant == Spec => []IInv
  BY InitIInv, StepIInv, PTL DEF Spec

\* A fire iterates over a buffer that was freed.
Stranded(s) == \E k \in DOMAIN s: s[k].kind = "fire" /\ s[k].old # <<>>

\* How the code gets to where it touches freed memory.
SafeInv ==
  /\ creator \in {"alive", "freed"} /\ misuse \subseteq Misuse
  /\ creator = "freed" => "orphan" \in misuse
  /\ Stranded(stack) => "connect" \in misuse
  /\ alive = "destroyed" /\ Firing => "drop" \in misuse
  /\ SafeUse

LEMMA InitSafe == Init => SafeInv
  BY EmptySeq DEF Init, SafeInv, Stranded, Firing, SafeUse, Misuse

LEMMA ConnectSafe == ASSUME IInv, SafeInv, NEW h \in Handler, Connect(h) PROVE SafeInv'
  <1>1. PICK e: PushBack(e)
    BY DEF Connect
  <1>2. pc' = "lua" /\ alive' = "held" /\ creator' = creator
    BY DEF Connect
  <1>3. CASE Len(refs) < cap
    BY <1>1, <1>2, <1>3 DEF PushBack, SafeInv, SafeUse, Stranded
  <1>4. CASE ~(Len(refs) < cap)
    <2>1. stack' = Strand(stack) /\ misuse' = IF Firing THEN misuse \union {"connect"} ELSE misuse
      BY <1>1, <1>4 DEF PushBack
    <2>2. stack \in Seq(FireFrame \union SpawnFrame)
      BY DEF IInv, VectorTypes
    <2>3. Stranded(stack') => Firing
      <3>1. DOMAIN stack' = DOMAIN stack
        BY <2>1 DEF Strand
      <3>2. \A k \in DOMAIN stack: stack[k].kind # "fire" => stack'[k] = stack[k]
        BY <2>1 DEF Strand
      <3> QED
        BY <3>1, <3>2 DEF Stranded, Firing
    <2> QED
      BY <1>2, <2>1, <2>3 DEF SafeInv, SafeUse, Misuse
  <1> QED
    BY <1>3, <1>4

\* What the stack of calls becomes strands no fire, and begins none after the event's end.
LEMMA StackSafe ==
  ASSUME SafeInv, Stranded(stack') => Stranded(stack), (Firing' /\ alive' = "destroyed") => (Firing /\ alive = "destroyed"),
         creator' = creator, misuse \subseteq misuse', misuse' \subseteq Misuse, pc' = "undefined" => misuse' # {}
  PROVE  SafeInv'
  BY DEF SafeInv, SafeUse

LEMMA DisconnectSafe == ASSUME IInv, SafeInv, NEW id, Disconnect(id) PROVE SafeInv'
  <1>1. pc' = "lua" /\ alive' = "held" /\ creator' = creator /\ misuse' = misuse /\ stack' = Mark(stack, id)
    BY DEF Disconnect, story
  <1>2. stack \in Seq(FireFrame \union SpawnFrame)
    BY DEF IInv, VectorTypes
  <1>3. DOMAIN stack' = DOMAIN stack
    BY <1>1 DEF Mark
  <1>4. ASSUME NEW k \in DOMAIN stack, stack'[k].kind = "fire", stack'[k].old # <<>>
        PROVE  stack[k].kind = "fire" /\ stack[k].old # <<>>
    <2>1. CASE stack[k].kind # "fire"
      <3>1. stack'[k] = stack[k]
        BY <1>1, <2>1 DEF Mark
      <3> QED
        BY <1>4, <2>1, <3>1
    <2>2. CASE stack[k].kind = "fire"
      <3>1. stack[k] \in FireFrame
        BY <1>2, <2>2, StackFacts
      <3>2. stack'[k] = [stack[k] EXCEPT !.clean = FALSE,
                          !.left = IF Last(stack[k].called).id = id THEN @ \union {id} ELSE @]
        BY <1>1, <2>2 DEF Mark
      <3>3. stack'[k].old = stack[k].old
        BY <3>1, <3>2 DEF FireFrame
      <3> QED
        BY <1>4, <2>2, <3>3
    <2> QED
      BY <2>1, <2>2
  <1>5. Stranded(stack') => Stranded(stack)
    BY <1>3, <1>4 DEF Stranded
  <1> QED
    BY <1>1, <1>5, StackSafe DEF SafeInv

LEMMA ReadSlotSafe == ASSUME IInv, SafeInv, ReadSlot PROVE SafeInv'
  <1>. DEFINE m == Len(stack)
  <1>1. /\ pc = "fire" /\ alive # "destroyed" /\ stack # <<>> /\ Top.kind = "fire"
        /\ alive' = alive /\ creator' = creator /\ misuse' = misuse /\ pc' \in {"fire", "lua"}
        /\ stack \in Seq(FireFrame \union SpawnFrame)
    BY DEF ReadSlot, IInv, ControlOK, VectorTypes, story
  <1>2. DOMAIN stack = 1..m /\ m \in 1..m /\ stack[m] \in FireFrame /\ stack[m].kind = "fire"
    BY <1>1, StackFacts DEF Top
  <1>3. PICK e: stack' = [stack EXCEPT ![m].cursor = @ + 1, ![m].called = Append(@, e)]
    BY DEF ReadSlot
  <1>4. DOMAIN stack' = DOMAIN stack /\ stack'[m].old = stack[m].old
        /\ \A k \in DOMAIN stack: k # m => stack'[k] = stack[k]
    BY <1>1, <1>2, <1>3 DEF FireFrame
  <1>5. Stranded(stack') => Stranded(stack)
    BY <1>2, <1>4 DEF Stranded
  <1> QED
    BY <1>1, <1>5, StackSafe DEF SafeInv

\* A call that begins is not stranded.
LEMMA FireSafe == ASSUME IInv, SafeInv, Fire PROVE SafeInv'
  <1>1. PICK f: stack' = Append(stack, f) /\ f.old = <<>>
    BY DEF Fire
  <1>2. /\ pc' = "fire" /\ alive' = "held" /\ creator' = creator /\ misuse \subseteq misuse' /\ misuse' \subseteq Misuse
    BY DEF Fire, SafeInv, Misuse
  <1>3. stack \in Seq(FireFrame \union SpawnFrame) /\ DOMAIN stack = 1..Len(stack) /\ Len(stack) \in Nat
    BY StackFacts DEF IInv, VectorTypes
  <1>4. DOMAIN stack' = 1..(Len(stack) + 1) /\ stack'[Len(stack) + 1] = f /\ \A k \in 1..Len(stack): stack'[k] = stack[k]
    BY <1>1, <1>3
  <1>5. Stranded(stack') => Stranded(stack)
    BY <1>1, <1>3, <1>4 DEF Stranded
  <1> QED
    BY <1>2, <1>5, StackSafe

LEMMA SpawnSafe == ASSUME IInv, SafeInv, Spawn PROVE SafeInv'
  <1>. DEFINE f == [kind |-> "spawn"]
  <1>1. pc' = "lua" /\ alive' = alive /\ creator' = creator /\ misuse' = misuse /\ stack' = Append(stack, f) /\ f.kind # "fire"
    BY DEF Spawn, story
  <1>. HIDE DEF f
  <1>2. stack \in Seq(FireFrame \union SpawnFrame) /\ DOMAIN stack = 1..Len(stack) /\ Len(stack) \in Nat
    BY StackFacts DEF IInv, VectorTypes
  <1>3. DOMAIN stack' = 1..(Len(stack) + 1) /\ stack'[Len(stack) + 1] = f /\ \A k \in 1..Len(stack): stack'[k] = stack[k]
    BY <1>1, <1>2
  <1>4. (Stranded(stack') => Stranded(stack)) /\ (Firing' => Firing)
    BY <1>1, <1>2, <1>3 DEF Stranded, Firing
  <1> QED
    BY <1>1, <1>4, StackSafe DEF SafeInv

LEMMA PopSafe ==
  ASSUME IInv, SafeInv, stack # <<>>, stack' = Front(stack), pc' = "lua", UNCHANGED <<alive, story>>
  PROVE  SafeInv'
  <1>1. /\ Front(stack) \in Seq(FireFrame \union SpawnFrame) /\ Len(Front(stack)) = Len(stack) - 1
        /\ \A k \in 1..(Len(stack) - 1): Front(stack)[k] = stack[k]
    BY FrontProperties DEF IInv, VectorTypes
  <1>2. Len(stack) \in Nat /\ DOMAIN stack = 1..Len(stack) /\ DOMAIN stack' = 1..(Len(stack) - 1)
    BY <1>1, StackFacts DEF IInv, VectorTypes
  <1>3. (Stranded(stack') => Stranded(stack)) /\ (Firing' => Firing)
    BY <1>1, <1>2 DEF Stranded, Firing
  <1> QED
    BY <1>3, StackSafe DEF SafeInv, story

LEMMA StepSafe == IInv /\ SafeInv /\ [Next]_vars => SafeInv'
  <1>. SUFFICES ASSUME IInv, SafeInv, [Next]_vars PROVE SafeInv'
    OBVIOUS
  <1>1. CASE ReadFreed
    <2>1. Stranded(stack)
      BY <1>1, StackFacts DEF ReadFreed, IInv, ControlOK, VectorTypes, Stranded, Top
    <2> QED
      BY <1>1, <2>1 DEF ReadFreed, SafeInv, SafeUse, story, Firing, Stranded
  <1>2. CASE HandlerDone
    <2>1. Firing
      BY <1>2, StackFacts DEF HandlerDone, IInv, VectorTypes, Firing, Top
    <2> QED
      BY <1>2, <2>1 DEF HandlerDone, SafeInv, SafeUse, story, Firing, Stranded
  <1>3. CASE EndFire
    BY <1>3, PopSafe DEF EndFire, IInv, ControlOK
  <1>4. CASE SpawnDone
    BY <1>4, PopSafe DEF SpawnDone, Foreign
  <1>5. CASE StrayPop \/ FreeCreator \/ UseFreed \/ Drop
    BY <1>5 DEF StrayPop, FreeCreator, UseFreed, Drop, SafeInv, SafeUse, story, Firing, Stranded, Misuse
  <1>6. CASE Destroy
    BY <1>6 DEF Destroy, SafeInv, SafeUse, Firing, Stranded, Misuse
  <1>7. CASE UNCHANGED vars
    BY <1>7 DEF vars, SafeInv, SafeUse, Firing, Stranded
  <1>8. CASE HandlerFails \/ \E id \in 0..MaxId: DisconnectMissing(id)
    BY <1>8 DEF HandlerFails, DisconnectMissing, SafeInv, SafeUse, Firing, Stranded, Misuse
  <1> QED
    BY <1>8, <1>1, <1>2, <1>3, <1>4, <1>5, <1>6, <1>7, ConnectSafe, DisconnectSafe, FireSafe, ReadSlotSafe, SpawnSafe
       DEF Next, Loop, Lua, Done, Idle

LEMMA SafeInvariant == Spec => []SafeInv
  BY InitIInv, StepIInv, InitSafe, StepSafe, PTL DEF Spec

\* Undefined behaviour has one of the five causes that SafeUse names, and no other:
\* for every number of functions and connections, every depth of nested calls and
\* every class of scripts.
THEOREM OnlyMisuseHurts == Spec => []SafeUse
  BY SafeInvariant, PTL DEF SafeInv

\* Every variable keeps its type.
THEOREM TypeCorrect == Spec => []TypeOK
  <1>1. IInv /\ SafeInv => TypeOK
    BY DEF IInv, SafeInv, TypeOK
  <1> QED
    BY <1>1, Invariant, SafeInvariant, PTL

\* The vector is sorted by id whenever disconnect looks an id up in it.
THEOREM AlwaysSorted == Spec => []SortedById
  BY Invariant, PTL DEF IInv

\* What a fire has yet to read stands for functions that were connected.
THEOREM NeverCallsOthers == Spec => []RefsOwned
  <1>1. IInv => RefsOwned
    <2>. SUFFICES ASSUME IInv PROVE RefsOwned
      OBVIOUS
    <2>1. CASE alive = "destroyed"
      BY <2>1, EmptySeq DEF IInv, RefsOwned
    <2>2. CASE alive # "destroyed"
      <3>1. Distinct(refs) /\ \A i \in DOMAIN refs: registry[refs[i].ref] # Nil
        BY <2>2, PairsOf DEF IInv, VectorTypes, VectorOK, LivePairs
      <3>2. \A k \in FireFrames: \A n \in stack[k].cursor..stack[k].stop: registry[Slots(stack[k])[n].ref] # Nil
        BY <2>2, SlotLive, StackFacts DEF FireFrames, IInv, VectorTypes
      <3> QED
        BY <3>1, <3>2 DEF RefsOwned, Distinct
    <2> QED
      BY <2>1, <2>2
  <1> QED
    BY <1>1, Invariant, PTL

\* A fire in which nothing is disconnected calls what it found, in order and once each.
THEOREM FiresExactly == Spec => FireExact
  <1>1. IInv /\ [Next]_vars => [EndFire /\ Top.clean => Top.called = Top.start]_vars
    <2>. SUFFICES ASSUME IInv, EndFire, Top.clean PROVE Top.called = Top.start
      OBVIOUS
    <2>. DEFINE f == stack[Len(stack)]
    <2>1. /\ stack # <<>> /\ Top.kind = "fire" /\ alive # "destroyed" /\ Top.cursor > Top.stop
          /\ stack \in Seq(FireFrame \union SpawnFrame)
      BY DEF EndFire, PastEnd, IInv, ControlOK, VectorTypes
    <2>2. Top = f /\ Len(stack) \in 1..Len(stack)
      BY <2>1, StackFacts DEF Top
    <2>3. f \in FireFrame /\ FrameOK(f, refs, refs \o residue, registry) /\ f.cursor > f.stop /\ f.clean
      BY <2>1, <2>2, FramesOf
    <2>. HIDE DEF f
    <2>4. f.called \in Seq(Pair) /\ f.start \in Seq(Pair) /\ f.stop \in Nat /\ f.cursor = f.stop + 1
      BY <2>3 DEF FireFrame, FrameOK
    <2>5. Len(f.called) = Len(f.start) /\ \A n \in 1..Len(f.start): f.called[n] = f.start[n]
      BY <2>3, <2>4 DEF FrameOK, CleanOK
    <2>6. f.called = f.start
      BY <2>4, <2>5, SeqEqual
    <2> QED
      BY <2>2, <2>6
  <1> QED
    BY <1>1, Invariant, PTL DEF Spec, FireExact
============================================================================
