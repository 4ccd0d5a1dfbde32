-------------------------- MODULE SearchTextProofs --------------------------
(***************************************************************************)
(* Proofs about SearchText, for texts of any length over any characters:   *)
(* the COPY format gives back every text it is given, and a search pattern *)
(* matches exactly the messages that contain the text it was built from.   *)
(***************************************************************************)
EXTENDS SearchText, SequenceTheorems, WellFoundedInduction, TLAPS

-----------------------------------------------------------------------------
(* Induction and recursion over sets.                                      *)

(* Induction over the naturals, for a property given as a set. *)
LEMMA IndexInduction ==
  ASSUME NEW S, 0 \in S, \A n \in Nat : n \in S => n + 1 \in S
  PROVE  Nat \subseteq S
<1> SUFFICES ASSUME Nat \ S # {} PROVE FALSE
    OBVIOUS
<1>1. IsWellFoundedOn(OpToRel(<, Nat), Nat)
    BY NatLessThanWellFounded
<1>2. PICK x \in Nat \ S : \A y \in Nat \ S : <<y, x>> \notin OpToRel(<, Nat)
    BY <1>1, WFMin
<1>3. \A y \in Nat \ S : ~(y < x)
    BY <1>2 DEF OpToRel
<1>4. x # 0
    OBVIOUS
<1>5. x - 1 \in Nat /\ x - 1 < x /\ (x - 1) + 1 = x
    BY <1>4
<1> QED BY <1>3, <1>5

\* The equation of a recursive function as a function of its own: the value
\* at a point reads the function only at points of a smaller measure.
Descends(step, D, V, measure, bound) ==
  /\ V # {} /\ step \in [[D -> V] -> [D -> V]] /\ measure \in [D -> Nat]
  /\ bound \in Nat /\ \A x \in D : measure[x] < bound
  /\ \A g, h \in [D -> V], x \in D :
       (\A y \in D : measure[y] < measure[x] => g[y] = h[y]) => step[g][x] = step[h][x]

(* A recursive function, the fixed point of its equation, exists if the
   recursion descends. *)
LEMMA Recursion ==
  ASSUME NEW D, NEW V, NEW measure, NEW bound, NEW step, Descends(step, D, V, measure, bound)
  PROVE  \E f \in [D -> V] : f = step[f]
<1> USE DEF Descends
<1> DEFINE Settled(g, n) == \A x \in D : measure[x] < n => g[x] = step[g][x]
<1> HIDE DEF Settled
<1>0. PICK S : S = {n \in Nat : \E g \in [D -> V] : Settled(g, n)}
    OBVIOUS
<1>1. 0 \in S
  <2>1. PICK v \in V : TRUE
      OBVIOUS
  <2>2. [x \in D |-> v] \in [D -> V]
      OBVIOUS
  <2>3. Settled([x \in D |-> v], 0)
      BY DEF Settled
  <2> QED BY <1>0, <2>2, <2>3
<1>2. \A n \in Nat : n \in S => n + 1 \in S
  <2> SUFFICES ASSUME NEW n \in Nat, n \in S PROVE n + 1 \in S
      OBVIOUS
  <2>1. PICK g \in [D -> V] : Settled(g, n)
      BY <1>0
  <2>2. PICK h : h = step[g]
      OBVIOUS
  <2>4. h \in [D -> V] /\ \A x \in D : h[x] = step[g][x]
      BY <2>2
  <2>5. ASSUME NEW x \in D, measure[x] < n + 1  PROVE h[x] = step[h][x]
    <3>1. \A y \in D : measure[y] < measure[x] => measure[y] < n
      <4>1. \A y \in D : measure[y] \in Nat
          OBVIOUS
      <4> QED BY <2>5, <4>1
    <3>2. \A y \in D : measure[y] < measure[x] => g[y] = h[y]
        BY <2>1, <2>4, <3>1 DEF Settled
    <3>3. step[g][x] = step[h][x]
        BY <2>4, <3>2 DEF Descends
    <3> QED BY <2>4, <3>3
  <2>6. Settled(h, n + 1)
      BY <2>5 DEF Settled
  <2> QED BY <1>0, <2>4, <2>6
<1>3. bound \in S
    BY <1>1, <1>2, IndexInduction
<1>4. PICK f \in [D -> V] : Settled(f, bound)
    BY <1>0, <1>3
<1>5. \A x \in D : f[x] = step[f][x]
    BY <1>4 DEF Settled
<1> QED BY <1>4, <1>5

-----------------------------------------------------------------------------
(* Concatenation.                                                          *)

\* all is the concatenation of the first n sequences, of which the k-th begins
\* behind position off[k - 1].
Joins(all, off, seqs, n) ==
  /\ off \in [0 .. n -> Nat] /\ off[0] = 0 /\ Len(all) = off[n]
  /\ \A k \in 1 .. n : off[k] = off[k - 1] + Len(seqs[k]) /\ off[k] <= off[n]
  /\ \A k \in 1 .. n : \A i \in 1 .. Len(seqs[k]) : all[off[k - 1] + i] = seqs[k][i]

(* One sequence more. *)
LEMMA JoinsOneMore ==
  ASSUME NEW S, NEW all \in Seq(S), NEW off, NEW seqs, NEW n \in Nat, Joins(all, off, seqs, n),
         \A k \in 1 .. n + 1 : seqs[k] \in Seq(S)
  PROVE  /\ all \o seqs[n + 1] \in Seq(S)
         /\ \E o : Joins(all \o seqs[n + 1], o, seqs, n + 1)
<1>1. PICK next \in Seq(S) : next = seqs[n + 1]
    OBVIOUS
<1>2. PICK m \in Nat, l \in Nat : m = Len(all) /\ l = Len(next)
    BY LenProperties
<1>3. PICK both \in Seq(S) :
        /\ both = all \o next /\ Len(both) = m + l
        /\ \A i \in 1 .. m + l : both[i] = IF i <= m THEN all[i] ELSE next[i - m]
  <2>1. /\ all \o next \in Seq(S) /\ Len(all \o next) = Len(all) + Len(next)
        /\ \A i \in 1 .. Len(all) + Len(next) :
             (all \o next)[i] = IF i <= Len(all) THEN all[i] ELSE next[i - Len(all)]
      BY ConcatProperties
  <2>2. PICK both : both = all \o next
      OBVIOUS
  <2> QED BY <1>2, <2>1, <2>2
<1>4. /\ off \in [0 .. n -> Nat] /\ off[0] = 0 /\ m = off[n]
      /\ \A k \in 1 .. n : off[k] = off[k - 1] + Len(seqs[k]) /\ off[k] <= off[n]
      /\ \A k \in 1 .. n : \A i \in 1 .. Len(seqs[k]) : all[off[k - 1] + i] = seqs[k][i]
    BY <1>2 DEF Joins
<1>5. PICK o : o = [k \in 0 .. n + 1 |-> IF k = n + 1 THEN m + l ELSE off[k]]
    OBVIOUS
<1>6. \A k \in 0 .. n : k # n + 1 /\ k \in 0 .. n + 1
    OBVIOUS
<1>7. /\ o \in [0 .. n + 1 -> Nat] /\ o[n + 1] = m + l /\ \A k \in 0 .. n : o[k] = off[k]
  <2>1. \A k \in 0 .. n + 1 : k = n + 1 \/ k \in 0 .. n
      OBVIOUS
  <2>2. n + 1 \in 0 .. n + 1
      OBVIOUS
  <2> QED BY <1>4, <1>5, <1>6, <2>1, <2>2
<1>8. \A k \in 1 .. n : k \in 0 .. n /\ k - 1 \in 0 .. n
    OBVIOUS
<1>9. \A k \in 1 .. n + 1 : k \in 1 .. n \/ k = n + 1
    OBVIOUS
<1>10. ASSUME NEW k \in 1 .. n + 1
       PROVE  o[k] = o[k - 1] + Len(seqs[k]) /\ o[k] <= o[n + 1]
  <2>1. CASE k \in 1 .. n
    <3>1. o[k] = off[k] /\ o[k - 1] = off[k - 1]
        BY <1>7, <1>8, <2>1
    <3>2. off[k] <= m /\ off[k] \in Nat
        BY <1>4, <1>8, <2>1
    <3> QED BY <1>4, <1>7, <2>1, <3>1, <3>2
  <2>2. CASE k = n + 1
    <3>1. k - 1 = n /\ n \in 0 .. n
        BY <2>2
    <3>2. o[k - 1] = m
        BY <1>4, <1>7, <3>1
    <3> QED BY <1>1, <1>2, <1>7, <2>2, <3>2
  <2> QED BY <1>9, <2>1, <2>2
<1>11. ASSUME NEW k \in 1 .. n + 1, NEW i \in 1 .. Len(seqs[k])
       PROVE  both[o[k - 1] + i] = seqs[k][i]
  <2>1. CASE k \in 1 .. n
    <3>1. o[k - 1] = off[k - 1] /\ off[k - 1] \in Nat /\ off[k] \in Nat
        BY <1>4, <1>7, <1>8, <2>1
    <3>2. Len(seqs[k]) \in Nat
        BY LenProperties
    <3>3. off[k - 1] + i \in 1 .. m + l /\ off[k - 1] + i <= m
      <4>1. PICK a \in Nat, b \in Nat : a = off[k - 1] /\ b = Len(seqs[k])
          BY <3>1, <3>2
      <4>2. a + b <= m
          BY <1>4, <2>1, <4>1
      <4>3. i \in 1 .. b
          BY <4>1
      <4>4. a + i \in 1 .. m + l /\ a + i <= m
          BY <4>2, <4>3
      <4> QED BY <4>1, <4>4
    <3>4. both[off[k - 1] + i] = all[off[k - 1] + i]
        BY <1>3, <3>3
    <3> QED BY <1>4, <2>1, <3>1, <3>4
  <2>2. CASE k = n + 1
    <3>1. o[k - 1] = m
      <4>1. k - 1 = n /\ n \in 0 .. n
          BY <2>2
      <4> QED BY <1>4, <1>7, <4>1
    <3>2. i \in 1 .. l
        BY <1>1, <1>2, <2>2
    <3>3. m + i \in 1 .. m + l /\ ~(m + i <= m) /\ (m + i) - m = i
        BY <3>2
    <3> QED BY <1>1, <1>3, <2>2, <3>1, <3>3
  <2> QED BY <1>9, <2>1, <2>2
<1>12. Joins(both, o, seqs, n + 1)
  <2>1. o[0] = 0
      BY <1>4, <1>7
  <2> QED BY <1>3, <1>7, <1>10, <1>11, <2>1 DEF Joins
<1> QED BY <1>1, <1>3, <1>12

(* The concatenation of a sequence of sequences: where each one begins. *)
LEMMA Flattened ==
  ASSUME NEW S, NEW seqs \in Seq(Seq(S))
  PROVE  /\ FlattenSeq(seqs) \in Seq(S)
         /\ \E off : Joins(FlattenSeq(seqs), off, seqs, Len(seqs))
<1>1. PICK n \in Nat : n = Len(seqs)
    BY LenProperties
<1>2. \A i \in 1 .. n : seqs[i] \in Seq(S)
    BY <1>1, ElementOfSeq
<1>3. CASE n = 0
  <2>1. FlattenSeq(seqs) = seqs /\ seqs = << >>
      BY <1>1, <1>3, EmptySeq DEF FlattenSeq
  <2>2. << >> \in Seq(S) /\ Len(<< >>) = 0
      BY EmptySeq
  <2>3. PICK off : off = [k \in 0 .. 0 |-> 0]
      OBVIOUS
  <2>4. Joins(<< >>, off, seqs, 0)
      BY <2>2, <2>3 DEF Joins
  <2> QED BY <1>1, <1>3, <2>1, <2>2, <2>4
<1>4. CASE n # 0
  <2> DEFINE D == 1 .. n
             body(g) == [i \in D |-> IF i = 1 THEN seqs[i] ELSE g[i - 1] \o seqs[i]]
             flatten == CHOOSE f : f = body(f)
  <2>1. FlattenSeq(seqs) = flatten[n]
      BY <1>1, <1>4 DEF FlattenSeq
  <2>2. PICK step : step = [g \in [D -> Seq(S)] |-> body(g)]
      OBVIOUS
  <2>3. \A g \in [D -> Seq(S)] : body(g) \in [D -> Seq(S)]
    <3> SUFFICES ASSUME NEW g \in [D -> Seq(S)], NEW i \in D, i # 1 PROVE g[i - 1] \o seqs[i] \in Seq(S)
        BY <1>2
    <3>1. i - 1 \in D
        BY <1>1
    <3>2. g[i - 1] \in Seq(S) /\ seqs[i] \in Seq(S)
        BY <1>2, <3>1
    <3> QED BY <3>2, ConcatProperties
  <2>4. step \in [[D -> Seq(S)] -> [D -> Seq(S)]] /\ \A g \in [D -> Seq(S)] : step[g] = body(g)
    <3> HIDE DEF body
    <3> QED BY <2>2, <2>3
  <2>5. PICK measure : measure = [i \in D |-> i]
      OBVIOUS
  <2>6. Descends(step, D, Seq(S), measure, n + 1)
    <3>1. Seq(S) # {}
        BY EmptySeq
    <3>2. measure \in [D -> Nat] /\ n + 1 \in Nat /\ \A i \in D : measure[i] < n + 1
        BY <2>5
    <3>3. ASSUME NEW g \in [D -> Seq(S)], NEW h \in [D -> Seq(S)], NEW i \in D,
                 \A y \in D : measure[y] < measure[i] => g[y] = h[y]
          PROVE  step[g][i] = step[h][i]
      <4>1. step[g] = body(g) /\ step[h] = body(h)
        <5> HIDE DEF body
        <5> QED BY <2>4
      <4>2. /\ step[g][i] = IF i = 1 THEN seqs[i] ELSE g[i - 1] \o seqs[i]
            /\ step[h][i] = IF i = 1 THEN seqs[i] ELSE h[i - 1] \o seqs[i]
          BY <4>1, Zenon
      <4>3. CASE i = 1
          BY <4>2, <4>3
      <4>4. CASE i # 1
        <5>1. i - 1 \in D /\ measure[i - 1] < measure[i]
            BY <2>5, <4>4
        <5>2. g[i - 1] = h[i - 1]
            BY <3>3, <5>1
        <5> QED BY <4>2, <4>4, <5>2
      <4> QED BY <4>3, <4>4
    <3> HIDE DEF D, body, flatten
    <3> QED BY <2>4, <3>1, <3>2, <3>3, Zenon DEF Descends
  <2>7. \E f \in [D -> Seq(S)] : f = step[f]
    <3> HIDE DEF D, body, flatten
    <3>1. PICK V, E, b : V = Seq(S) /\ E = D /\ b = n + 1
        OBVIOUS
    <3>2. Descends(step, E, V, measure, b)
        BY <2>6, <3>1, Zenon
    <3>3. \E f \in [E -> V] : f = step[f]
        BY <3>2, Recursion
    <3> QED BY <3>1, <3>3, Zenon
  <2>8. PICK all : all = flatten
      OBVIOUS
  <2>9. all = body(all)
    <3>1. \E f : f = body(f)
      <4>1. PICK f \in [D -> Seq(S)] : f = step[f]
          BY <2>7, Zenon
      <4>2. step[f] = body(f)
          BY <2>4, Zenon
      <4>3. f = body(f)
          BY <4>1, <4>2, Zenon
      <4> QED BY <4>3, Zenon
    <3> HIDE DEF body
    <3> QED BY <2>8, <3>1, Zenon
  <2>10. \A i \in 1 .. n : all[i] = IF i = 1 THEN seqs[i] ELSE all[i - 1] \o seqs[i]
      BY <2>9
  <2> HIDE DEF flatten, body
  <2>11. PICK Good : Good = {m \in Nat : m + 1 \in 1 .. n =>
                               all[m + 1] \in Seq(S) /\ \E off : Joins(all[m + 1], off, seqs, m + 1)}
      OBVIOUS
  <2>12. 0 \in Good
    <3>1. all[1] = seqs[1] /\ seqs[1] \in Seq(S) /\ 1 \in 1 .. n
        BY <1>2, <1>4, <2>10
    <3>2. << >> \in Seq(S) /\ Len(<< >>) = 0
        BY EmptySeq
    <3>3. PICK off : off = [k \in 0 .. 0 |-> 0]
        OBVIOUS
    <3>4. Joins(<< >>, off, seqs, 0)
        BY <3>2, <3>3 DEF Joins
    <3>5. \A k \in 1 .. 0 + 1 : seqs[k] \in Seq(S)
        BY <3>1
    <3>6. \E o : Joins(<< >> \o seqs[0 + 1], o, seqs, 0 + 1)
        BY <3>2, <3>4, <3>5, JoinsOneMore
    <3>7. << >> \o seqs[1] = seqs[1]
        BY <3>1, ConcatEmptySeq
    <3> QED BY <2>11, <3>1, <3>6, <3>7
  <2>13. ASSUME NEW m \in Nat, m \in Good  PROVE m + 1 \in Good
    <3> SUFFICES ASSUME (m + 1) + 1 \in 1 .. n
                 PROVE  all[(m + 1) + 1] \in Seq(S)
                        /\ \E off : Joins(all[(m + 1) + 1], off, seqs, (m + 1) + 1)
        BY <2>11
    <3>1. PICK k \in Nat : k = m + 1
        OBVIOUS
    <3>2. k \in 1 .. n /\ k + 1 \in 1 .. n /\ k + 1 # 1 /\ (k + 1) - 1 = k
        BY <3>1
    <3>3. all[k] \in Seq(S) /\ \E off : Joins(all[k], off, seqs, k)
        BY <2>11, <2>13, <3>1, <3>2
    <3>4. all[k + 1] = all[k] \o seqs[k + 1]
        BY <2>10, <3>2
    <3>5. \A i \in 1 .. k + 1 : seqs[i] \in Seq(S)
        BY <1>2, <3>2
    <3>6. all[k] \o seqs[k + 1] \in Seq(S) /\ \E o : Joins(all[k] \o seqs[k + 1], o, seqs, k + 1)
        BY <3>3, <3>5, JoinsOneMore
    <3> QED BY <3>1, <3>4, <3>6
  <2>14. Nat \subseteq Good
      BY <2>12, <2>13, IndexInduction
  <2>15. n - 1 \in Nat /\ (n - 1) + 1 = n /\ n \in 1 .. n
      BY <1>4
  <2>16. all[n] \in Seq(S) /\ \E off : Joins(all[n], off, seqs, n)
      BY <2>11, <2>14, <2>15
  <2> QED BY <1>1, <2>1, <2>8, <2>16
<1> QED BY <1>3, <1>4

-----------------------------------------------------------------------------
(* Escaping.                                                               *)

\* all is text with a backslash and a code for each special character: the
\* k-th character ends at position off[k].
Escapes(all, off, text, n, special, code) ==
  /\ off \in [0 .. n -> Nat] /\ off[0] = 0 /\ Len(all) = off[n]
  /\ \A k \in 1 .. n : off[k] <= off[n]
  /\ \A k \in 1 .. n :
       text[k] \in special => /\ off[k] = off[k - 1] + 2
                              /\ all[off[k - 1] + 1] = "\\" /\ all[off[k - 1] + 2] = code[k]
  /\ \A k \in 1 .. n :
       text[k] \notin special => off[k] = off[k - 1] + 1 /\ all[off[k - 1] + 1] = text[k]

\* seqs has each character of text by itself or, if it is special, as its code.
Coded(seqs, text, n, special, code) ==
  seqs = [i \in 1 .. n |-> IF text[i] \in special THEN << "\\", code[i] >> ELSE << text[i] >>]

(* What concatenating the characters' codes gives. *)
LEMMA Escaping ==
  ASSUME NEW S, "\\" \in S, NEW n \in Nat, NEW text \in [1 .. n -> S], NEW special,
         NEW code \in [1 .. n -> S], NEW seqs, Coded(seqs, text, n, special, code)
  PROVE  /\ FlattenSeq(seqs) \in Seq(S)
         /\ \E off : Escapes(FlattenSeq(seqs), off, text, n, special, code)
<1>1. \A i \in 1 .. n :
        /\ text[i] \in S /\ code[i] \in S
        /\ text[i] \in special => seqs[i] = << "\\", code[i] >>
        /\ text[i] \notin special => seqs[i] = << text[i] >>
    BY DEF Coded
<1>3. \A i \in 1 .. n :
        /\ seqs[i] \in Seq(S)
        /\ text[i] \in special => Len(seqs[i]) = 2 /\ seqs[i][1] = "\\" /\ seqs[i][2] = code[i]
        /\ text[i] \notin special => Len(seqs[i]) = 1 /\ seqs[i][1] = text[i]
  <2> SUFFICES ASSUME NEW i \in 1 .. n
               PROVE  /\ seqs[i] \in Seq(S)
                      /\ text[i] \in special =>
                           Len(seqs[i]) = 2 /\ seqs[i][1] = "\\" /\ seqs[i][2] = code[i]
                      /\ text[i] \notin special => Len(seqs[i]) = 1 /\ seqs[i][1] = text[i]
      OBVIOUS
  <2>1. PICK a \in S, b \in S : a = text[i] /\ b = code[i]
      BY <1>1
  <2>2. CASE text[i] \in special
    <3>1. seqs[i] = << "\\", b >>
        BY <1>1, <2>1, <2>2
    <3> QED BY <2>1, <2>2, <3>1
  <2>3. CASE text[i] \notin special
    <3>1. seqs[i] = << a >>
        BY <1>1, <2>1, <2>3
    <3> QED BY <2>1, <2>3, <3>1
  <2> QED BY <2>2, <2>3
<1>4. seqs \in Seq(Seq(S)) /\ Len(seqs) = n
  <2>1. PICK T : T = Seq(S)
      OBVIOUS
  <2>2. seqs \in [1 .. n -> T]
      BY <1>3, <2>1 DEF Coded
  <2>3. seqs \in Seq(T)
      BY <2>2, SeqDef
  <2>4. Len(seqs) \in Nat /\ DOMAIN seqs = 1 .. n /\ DOMAIN seqs = 1 .. Len(seqs)
      BY <2>2, <2>3, LenProperties
  <2> QED BY <2>1, <2>3, <2>4
<1>5. PICK all, off : all = FlattenSeq(seqs) /\ all \in Seq(S) /\ Joins(all, off, seqs, n)
    BY <1>4, Flattened
<1>6. Escapes(all, off, text, n, special, code)
  <2>1. off \in [0 .. n -> Nat] /\ off[0] = 0 /\ Len(all) = off[n]
      BY <1>5 DEF Joins
  <2>2. \A k \in 1 .. n : off[k] = off[k - 1] + Len(seqs[k]) /\ off[k] <= off[n]
      BY <1>5 DEF Joins
  <2>3. \A k \in 1 .. n : \A i \in 1 .. Len(seqs[k]) : all[off[k - 1] + i] = seqs[k][i]
      BY <1>5 DEF Joins
  <2>4. ASSUME NEW k \in 1 .. n, text[k] \in special
        PROVE  /\ off[k] = off[k - 1] + 2
               /\ all[off[k - 1] + 1] = "\\" /\ all[off[k - 1] + 2] = code[k]
    <3>1. Len(seqs[k]) = 2 /\ seqs[k][1] = "\\" /\ seqs[k][2] = code[k]
        BY <1>3, <2>4
    <3>2. 1 \in 1 .. Len(seqs[k]) /\ 2 \in 1 .. Len(seqs[k])
        BY <3>1
    <3> QED BY <2>2, <2>3, <3>1, <3>2
  <2>5. ASSUME NEW k \in 1 .. n, text[k] \notin special
        PROVE  off[k] = off[k - 1] + 1 /\ all[off[k - 1] + 1] = text[k]
    <3>1. Len(seqs[k]) = 1 /\ seqs[k][1] = text[k]
        BY <1>3, <2>5
    <3>2. 1 \in 1 .. Len(seqs[k])
        BY <3>1
    <3> QED BY <2>2, <2>3, <3>1, <3>2
  <2> QED BY <2>1, <2>2, <2>4, <2>5 DEF Escapes
<1> QED BY <1>5, <1>6

-----------------------------------------------------------------------------
(* COPY.                                                                   *)

\* The equation of the server's reader.
Reads(field, read) ==
  \A i \in 1 .. Len(field) + 2 :
    read[i] = IF i > Len(field) THEN << >>
              ELSE IF field[i] = "\\" /\ i < Len(field)
                   THEN << IF field[i + 1] = "t" THEN "TAB" ELSE field[i + 1] >> \o read[i + 2]
              ELSE << field[i] >> \o read[i + 1]

(* The server reads a field that is not the NULL marker by that equation. *)
LEMMA CopyReads ==
  ASSUME NEW S, "TAB" \in S, NEW field \in Seq(S), NEW Null
  PROVE  \E read : /\ Reads(field, read)
                   /\ field # << "\\", "N" >> => CopyField(field, Null) = read[1]
<1>1. PICK n \in Nat : n = Len(field)
    BY LenProperties
<1>2. \A i \in 1 .. n : field[i] \in S
    BY <1>1, ElementOfSeq
<1> DEFINE D == 1 .. n + 2
           body(g) == [i \in D |->
                         IF i > n THEN << >>
                         ELSE IF field[i] = "\\" /\ i < n
                              THEN << IF field[i + 1] = "t" THEN "TAB" ELSE field[i + 1] >> \o g[i + 2]
                         ELSE << field[i] >> \o g[i + 1]]
           read == CHOOSE f : f = body(f)
<1>3. field # << "\\", "N" >> => CopyField(field, Null) = read[1]
    BY <1>1 DEF CopyField
<1>4. ASSUME NEW g \in [D -> Seq(S)], NEW i \in D
      PROVE  /\ i > n => body(g)[i] = << >>
             /\ ~(i > n) /\ field[i] = "\\" /\ i < n =>
                  body(g)[i] = << IF field[i + 1] = "t" THEN "TAB" ELSE field[i + 1] >> \o g[i + 2]
             /\ ~(i > n) /\ ~(field[i] = "\\" /\ i < n) => body(g)[i] = << field[i] >> \o g[i + 1]
    BY Zenon
<1>5. ASSUME NEW g \in [D -> Seq(S)]  PROVE body(g) \in [D -> Seq(S)]
  <2>1. ASSUME NEW i \in D  PROVE body(g)[i] \in Seq(S)
    <3>1. CASE i > n
        BY <1>4, <3>1, EmptySeq
    <3>2. CASE ~(i > n) /\ field[i] = "\\" /\ i < n
      <4>1. i + 2 \in D /\ field[i + 1] \in S
          BY <1>2, <3>2
      <4>2. PICK c \in S : c = IF field[i + 1] = "t" THEN "TAB" ELSE field[i + 1]
          BY <4>1
      <4>3. << c >> \in Seq(S) /\ g[i + 2] \in Seq(S)
          BY <4>1
      <4>4. << c >> \o g[i + 2] \in Seq(S)
          BY <4>3, ConcatProperties
      <4>5. body(g)[i] = << c >> \o g[i + 2]
          BY <1>4, <3>2, <4>2, Zenon
      <4> QED BY <4>4, <4>5, Zenon
    <3>3. CASE ~(i > n) /\ ~(field[i] = "\\" /\ i < n)
      <4>1. i + 1 \in D /\ field[i] \in S
          BY <1>2, <3>3
      <4>2. PICK c \in S : c = field[i]
          BY <4>1
      <4>3. << c >> \in Seq(S) /\ g[i + 1] \in Seq(S)
          BY <4>1
      <4>4. << c >> \o g[i + 1] \in Seq(S)
          BY <4>3, ConcatProperties
      <4>5. body(g)[i] = << c >> \o g[i + 1]
          BY <1>4, <3>3, <4>2, Zenon
      <4> QED BY <4>4, <4>5, Zenon
    <3> QED BY <3>1, <3>2, <3>3
  <2>2. body(g) = [i \in D |-> body(g)[i]]
      OBVIOUS
  <2> HIDE DEF body
  <2> QED BY <2>1, <2>2
<1>6. PICK step : step = [g \in [D -> Seq(S)] |-> body(g)]
    OBVIOUS
<1>7. step \in [[D -> Seq(S)] -> [D -> Seq(S)]] /\ \A g \in [D -> Seq(S)] : step[g] = body(g)
  <2> HIDE DEF body
  <2> QED BY <1>5, <1>6
<1>8. PICK measure : measure = [i \in D |-> n + 2 - i]
    OBVIOUS
<1>9. Descends(step, D, Seq(S), measure, n + 3)
  <2>1. Seq(S) # {}
      BY EmptySeq
  <2>2. measure \in [D -> Nat] /\ n + 3 \in Nat /\ \A i \in D : measure[i] < n + 3
      BY <1>8
  <2>3. ASSUME NEW g \in [D -> Seq(S)], NEW h \in [D -> Seq(S)], NEW i \in D,
               \A y \in D : measure[y] < measure[i] => g[y] = h[y]
        PROVE  step[g][i] = step[h][i]
    <3>1. step[g] = body(g) /\ step[h] = body(h)
      <4> HIDE DEF body
      <4> QED BY <1>7
    <3>2. ~(i > n) => i + 1 \in D /\ i + 2 \in D
                      /\ measure[i + 1] < measure[i] /\ measure[i + 2] < measure[i]
        BY <1>8
    <3>3. ~(i > n) => g[i + 1] = h[i + 1] /\ g[i + 2] = h[i + 2]
        BY <2>3, <3>2
    <3>4. body(g)[i] = body(h)[i]
      <4>1. CASE i > n
          BY <1>4, <4>1, Zenon
      <4>2. CASE ~(i > n) /\ field[i] = "\\" /\ i < n
          BY <1>4, <3>3, <4>2, Zenon
      <4>3. CASE ~(i > n) /\ ~(field[i] = "\\" /\ i < n)
          BY <1>4, <3>3, <4>3, Zenon
      <4> QED BY <4>1, <4>2, <4>3
    <3> QED BY <3>1, <3>4, Zenon
  <2> HIDE DEF D, body, read
  <2> QED BY <1>7, <2>1, <2>2, <2>3, Zenon DEF Descends
<1>10. PICK f \in [D -> Seq(S)] : f = step[f]
  <2> HIDE DEF D, body, read
  <2>1. PICK V, E, b : V = Seq(S) /\ E = D /\ b = n + 3
      OBVIOUS
  <2>2. Descends(step, E, V, measure, b)
      BY <1>9, <2>1, Zenon
  <2>3. \E f \in [E -> V] : f = step[f]
      BY <2>2, Recursion
  <2> QED BY <2>1, <2>3, Zenon
<1>11. read = body(read)
  <2>1. f = body(f)
    <3> HIDE DEF body
    <3> QED BY <1>7, <1>10
  <2> HIDE DEF body
  <2> QED BY <2>1, Zenon
<1>12. PICK all : all = read
    OBVIOUS
<1>13. all = body(all)
    BY <1>11, <1>12, Zenon
<1>14. Reads(field, all)
  <2>1. \A i \in D : all[i] = IF i > n THEN << >>
                              ELSE IF field[i] = "\\" /\ i < n
                                   THEN << IF field[i + 1] = "t" THEN "TAB" ELSE field[i + 1] >> \o all[i + 2]
                              ELSE << field[i] >> \o all[i + 1]
      BY <1>13, Zenon
  <2> QED BY <1>1, <2>1, Zenon DEF Reads
<1> QED BY <1>3, <1>12, <1>14, Zenon

Escapees == {"\\", "TAB"}

(* push_text writes a backslash and a letter for each character COPY gives a
   meaning to. *)
LEMMA PushTextEscapes ==
  ASSUME NEW S, "\\" \in S, "t" \in S, NEW text \in Seq(S), NEW n \in Nat, n = Len(text)
  PROVE  /\ PushText(text) \in Seq(S)
         /\ \E off, code :
              /\ Escapes(PushText(text), off, text, n, Escapees, code)
              /\ \A k \in 1 .. n : code[k] = IF text[k] = "\\" THEN "\\" ELSE "t"
<1>1. text \in [1 .. n -> S]
    BY ElementOfSeq, LenProperties
<1>2. PICK code \in [1 .. n -> S] : code = [k \in 1 .. n |-> IF text[k] = "\\" THEN "\\" ELSE "t"]
    OBVIOUS
<1>3. PICK seqs : seqs = [i \in 1 .. n |-> CASE text[i] = "\\" -> << "\\", "\\" >>
                                             [] text[i] = "TAB" -> << "\\", "t" >>
                                             [] OTHER -> << text[i] >>]
    OBVIOUS
<1>4. \A i \in 1 .. n :
        (CASE text[i] = "\\" -> << "\\", "\\" >>
           [] text[i] = "TAB" -> << "\\", "t" >>
           [] OTHER -> << text[i] >>)
        = IF text[i] \in Escapees THEN << "\\", code[i] >> ELSE << text[i] >>
  <2> SUFFICES ASSUME NEW i \in 1 .. n
               PROVE  (CASE text[i] = "\\" -> << "\\", "\\" >>
                         [] text[i] = "TAB" -> << "\\", "t" >>
                         [] OTHER -> << text[i] >>)
                      = IF text[i] \in Escapees THEN << "\\", code[i] >> ELSE << text[i] >>
      OBVIOUS
  <2>1. CASE text[i] = "\\"
      BY <1>2, <2>1 DEF Escapees
  <2>2. CASE text[i] = "TAB"
      BY <1>2, <2>2 DEF Escapees
  <2>3. CASE text[i] \notin {"\\", "TAB"}
      BY <2>3 DEF Escapees
  <2> QED BY <2>1, <2>2, <2>3
<1>5. Coded(seqs, text, n, Escapees, code)
    BY <1>3, <1>4, Zenon DEF Coded
<1>6. PushText(text) = FlattenSeq(seqs)
    BY <1>3, Zenon DEF PushText
<1>7. /\ FlattenSeq(seqs) \in Seq(S)
      /\ \E off : Escapes(FlattenSeq(seqs), off, text, n, Escapees, code)
    BY <1>1, <1>5, Escaping
<1> QED BY <1>2, <1>6, <1>7

(* COPY gives back what it was given: text and NULL, the two characters of the
   NULL marker included. *)
THEOREM CopyRoundTrip ==
  ASSUME NEW Null, NEW C, NEW text \in Seq(C) \cup {Null}
  PROVE  CopyField(PushTextOrNull(text, Null), Null) = text
<1>1. CASE text = Null
  <2>1. PushTextOrNull(text, Null) = << "\\", "N" >>
      BY <1>1, Zenon DEF PushTextOrNull
  <2>2. CopyField(<< "\\", "N" >>, Null) = Null
      BY Zenon DEF CopyField
  <2> QED BY <1>1, <2>1, <2>2, Zenon
<1>2. CASE text # Null
  <2>1. PICK S : S = C \cup {"\\", "t", "TAB"}
      OBVIOUS
  <2>2. text \in Seq(S)
    <3>1. text \in Seq(C)
        BY <1>2
    <3>2. Len(text) \in Nat /\ text \in [1 .. Len(text) -> C]
        BY <3>1, LenProperties
    <3>3. text \in [1 .. Len(text) -> S]
        BY <2>1, <3>2
    <3> QED BY <3>2, <3>3, SeqDef
  <2>3. PICK n \in Nat : n = Len(text)
      BY <2>2, LenProperties
  <2>4. PICK field, off, code :
          /\ field = PushText(text) /\ field \in Seq(S)
          /\ Escapes(field, off, text, n, Escapees, code)
          /\ \A k \in 1 .. n : code[k] = IF text[k] = "\\" THEN "\\" ELSE "t"
      BY <2>1, <2>2, <2>3, PushTextEscapes
  <2>5. /\ off \in [0 .. n -> Nat] /\ off[0] = 0 /\ Len(field) = off[n]
        /\ \A k \in 1 .. n : off[k] <= off[n] /\ off[k] \in Nat /\ off[k - 1] \in Nat
      BY <2>4 DEF Escapes
  <2>6. \A k \in 1 .. n :
          text[k] \in Escapees =>
            /\ off[k] = off[k - 1] + 2 /\ field[off[k - 1] + 1] = "\\"
            /\ field[off[k - 1] + 2] = IF text[k] = "\\" THEN "\\" ELSE "t"
      BY <2>4 DEF Escapes
  <2>7. \A k \in 1 .. n :
          text[k] \notin Escapees => off[k] = off[k - 1] + 1 /\ field[off[k - 1] + 1] = text[k]
      BY <2>4 DEF Escapes
  <2>8. field # << "\\", "N" >>
    <3> SUFFICES ASSUME field = << "\\", "N" >> PROVE FALSE
        OBVIOUS
    <3>1. Len(field) = 2 /\ field[1] = "\\" /\ field[2] = "N"
        OBVIOUS
    <3>2. 1 \in 1 .. n
        BY <2>3, <2>5, <3>1
    <3>5. PICK k \in 1 .. n : k = 1 /\ off[k - 1] = 0
      <4>1. 1 - 1 = 0
          OBVIOUS
      <4> QED BY <2>5, <3>2, <4>1
    <3>3. CASE text[k] \in Escapees
      <4>1. field[0 + 2] \in {"\\", "t"} /\ 0 + 2 = 2
          BY <2>6, <3>5, <3>3
      <4> QED BY <3>1, <4>1
    <3>4. CASE text[k] \notin Escapees
      <4>1. field[0 + 1] = text[k] /\ 0 + 1 = 1
          BY <2>7, <3>5, <3>4
      <4> QED BY <3>1, <3>4, <4>1 DEF Escapees
    <3> QED BY <3>3, <3>4
  <2>9. PICK read : Reads(field, read) /\ CopyField(field, Null) = read[1]
      BY <2>1, <2>4, <2>8, CopyReads
  <2>10. ASSUME NEW k \in 1 .. n  PROVE read[off[k - 1] + 1] = << text[k] >> \o read[off[k] + 1]
    <3>0. PICK a \in Nat, b \in Nat, m \in Nat : a = off[k - 1] /\ b = off[k] /\ m = Len(field) /\ b <= m
        BY <2>4, <2>5, LenProperties
    <3>1. \A i \in 1 .. m + 2 :
            read[i] = IF i > m THEN << >>
                      ELSE IF field[i] = "\\" /\ i < m
                           THEN << IF field[i + 1] = "t" THEN "TAB" ELSE field[i + 1] >> \o read[i + 2]
                      ELSE << field[i] >> \o read[i + 1]
        BY <2>9, <3>0 DEF Reads
    <3>2. CASE text[k] \in Escapees
      <4>1. b = a + 2 /\ field[a + 1] = "\\" /\ field[a + 2] = IF text[k] = "\\" THEN "\\" ELSE "t"
          BY <2>6, <3>0, <3>2
      <4>2. a + 1 \in 1 .. m + 2 /\ ~(a + 1 > m) /\ a + 1 < m /\ (a + 1) + 1 = a + 2 /\ (a + 1) + 2 = b + 1
          BY <3>0, <4>1
      <4>3. (IF field[a + 2] = "t" THEN "TAB" ELSE field[a + 2]) = text[k]
          BY <3>2, <4>1 DEF Escapees
      <4>4. read[a + 1] = << IF field[a + 2] = "t" THEN "TAB" ELSE field[a + 2] >> \o read[b + 1]
          BY <3>1, <4>1, <4>2
      <4> QED BY <3>0, <4>3, <4>4
    <3>3. CASE text[k] \notin Escapees
      <4>1. b = a + 1 /\ field[a + 1] = text[k] /\ text[k] # "\\"
          BY <2>7, <3>0, <3>3 DEF Escapees
      <4>2. a + 1 \in 1 .. m + 2 /\ ~(a + 1 > m) /\ (a + 1) + 1 = b + 1
          BY <3>0, <4>1
      <4> QED BY <3>0, <3>1, <4>1, <4>2
    <3> QED BY <3>2, <3>3
  <2>11. read[off[n] + 1] = << >>
    <3>1. PICK m \in Nat : m = off[n] /\ m = Len(field)
        BY <2>5
    <3>2. m + 1 \in 1 .. m + 2 /\ m + 1 > m
        BY <3>1
    <3> QED BY <2>9, <3>1, <3>2 DEF Reads
  <2>12. PICK Done : Done = {d \in Nat : d <= n => read[off[n - d] + 1] = SubSeq(text, (n - d) + 1, n)}
      OBVIOUS
  <2>13. 0 \in Done
    <3>1. SubSeq(text, (n - 0) + 1, n) = << >>
        BY SubSeqEmpty
    <3>2. n - 0 = n
        OBVIOUS
    <3> QED BY <2>11, <2>12, <3>1, <3>2
  <2>14. ASSUME NEW d \in Nat, d \in Done  PROVE d + 1 \in Done
    <3> SUFFICES ASSUME d + 1 <= n
                 PROVE  read[off[n - (d + 1)] + 1] = SubSeq(text, (n - (d + 1)) + 1, n)
        BY <2>12
    <3>1. PICK k \in 1 .. n : k = n - d /\ n - (d + 1) = k - 1 /\ (n - (d + 1)) + 1 = k /\ d <= n
        OBVIOUS
    <3>2. read[off[k] + 1] = SubSeq(text, k + 1, n)
        BY <2>12, <2>14, <3>1
    <3>3. SubSeq(text, k, n) = << text[k] >> \o SubSeq(text, k + 1, n)
      <4>1. k \in 1 .. Len(text) /\ n \in k .. Len(text)
          BY <2>3
      <4> QED BY <2>2, <4>1, SubSeqRecursiveFirst
    <3>4. read[off[k - 1] + 1] = << text[k] >> \o read[off[k] + 1]
        BY <2>10
    <3> QED BY <3>1, <3>2, <3>3, <3>4
  <2>15. n \in Done
      BY <2>13, <2>14, IndexInduction
  <2>16. read[1] = text
    <3>1. n - n = 0 /\ n <= n /\ 0 + 1 = 1
        OBVIOUS
    <3>2. read[off[0] + 1] = SubSeq(text, 1, n)
        BY <2>12, <2>15, <3>1
    <3>3. SubSeq(text, 1, n) = text
        BY <2>2, <2>3, SubSeqFull
    <3> QED BY <2>5, <3>1, <3>2, <3>3
  <2> QED BY <1>2, <2>4, <2>9, <2>16 DEF PushTextOrNull
<1> QED BY <1>1, <1>2

-----------------------------------------------------------------------------
(* LIKE.                                                                   *)

\* The equation of the engine's matcher in the cases that a search pattern
\* has: from position i of the pattern on, the message matches from position j.
MatchesBy(engine, pattern, P, message, M, m) ==
  \A i \in 1 .. P + 1, j \in 1 .. M + 1 :
    /\ i > P => (m[i][j] <=> j > M)
    /\ i < P /\ pattern[i] = "\\" /\ engine = "postgres" =>
         (m[i][j] <=> j <= M /\ pattern[i + 1] = message[j] /\ m[i + 2][j + 1])
    /\ i <= P /\ pattern[i] = "%" => (m[i][j] <=> \E k \in j .. M + 1 : m[i + 1][k])
    /\ i <= P /\ pattern[i] \notin Metacharacters =>
         (m[i][j] <=> j <= M /\ SameChar(engine, pattern[i], message[j]) /\ m[i + 1][j + 1])

(* An engine matches by that equation. *)
LEMMA LikeMatches ==
  ASSUME NEW engine, NEW pattern, NEW message, Len(pattern) \in Nat, Len(message) \in Nat
  PROVE  \E m : /\ MatchesBy(engine, pattern, Len(pattern), message, Len(message), m)
                /\ Like(engine, pattern, message) = m[1][1]
<1> DEFINE P == Len(pattern)
           M == Len(message)
           D == 1 .. P + 1
           E == 1 .. M + 1
           value(g, i, j) ==
             IF i > P THEN j > M
             ELSE IF pattern[i] = "\\" /\ engine = "postgres" /\ i < P
                  THEN j <= M /\ pattern[i + 1] = message[j] /\ g[i + 2][j + 1]
             ELSE IF pattern[i] = "%" THEN \E k \in j .. M + 1 : g[i + 1][k]
             ELSE j <= M /\ (pattern[i] = "_" \/ SameChar(engine, pattern[i], message[j]))
                         /\ g[i + 1][j + 1]
           body(g) == [i \in D |-> [j \in E |-> value(g, i, j)]]
           matches == CHOOSE f : f = body(f)
<1>1. Like(engine, pattern, message) = matches[1][1]
    BY Zenon DEF Like
<1>2. P \in Nat /\ M \in Nat
    OBVIOUS
<1> HIDE DEF P, M
<1> USE <1>2
<1>3. ASSUME NEW g, NEW i \in D, NEW j \in E  PROVE value(g, i, j) \in BOOLEAN
  <2>1. CASE i > P
      BY <2>1
  <2>2. CASE ~(i > P) /\ pattern[i] = "\\" /\ engine = "postgres" /\ i < P
      BY <2>2
  <2>3. CASE ~(i > P) /\ ~(pattern[i] = "\\" /\ engine = "postgres" /\ i < P) /\ pattern[i] = "%"
      BY <2>3
  <2>4. CASE ~(i > P) /\ ~(pattern[i] = "\\" /\ engine = "postgres" /\ i < P) /\ pattern[i] # "%"
      BY <2>4
  <2> HIDE DEF value
  <2> QED BY <2>1, <2>2, <2>3, <2>4
<1>4. ASSUME NEW g  PROVE /\ body(g) \in [D -> [E -> BOOLEAN]]
                          /\ \A i \in D, j \in E : body(g)[i][j] = value(g, i, j)
  <2> HIDE DEF value, D, E
  <2>1. \A i \in D : [j \in E |-> value(g, i, j)] \in [E -> BOOLEAN]
      BY <1>3
  <2>2. \A i \in D, j \in E : body(g)[i][j] = value(g, i, j)
      BY Zenon
  <2> QED BY <2>1, <2>2, Zenon
<1>5. PICK V : V = [E -> BOOLEAN]
    OBVIOUS
<1>6. PICK step : step = [g \in [D -> V] |-> body(g)]
    OBVIOUS
<1>7. step \in [[D -> V] -> [D -> V]] /\ \A g \in [D -> V] : step[g] = body(g)
  <2> HIDE DEF body, D, E
  <2> QED BY <1>4, <1>5, <1>6
<1>8. PICK measure : measure = [i \in D |-> P + 1 - i]
    OBVIOUS
<1>9. Descends(step, D, V, measure, P + 2)
  <2>1. V # {}
    <3>1. [j \in E |-> TRUE] \in [E -> BOOLEAN]
        OBVIOUS
    <3> QED BY <1>5, <3>1, Zenon
  <2>2. measure \in [D -> Nat] /\ P + 2 \in Nat /\ \A i \in D : measure[i] < P + 2
      BY <1>8
  <2>3. ASSUME NEW g \in [D -> V], NEW h \in [D -> V], NEW i \in D,
               \A y \in D : measure[y] < measure[i] => g[y] = h[y]
        PROVE  step[g][i] = step[h][i]
    <3>1. step[g] = body(g) /\ step[h] = body(h)
      <4> HIDE DEF body
      <4> QED BY <1>7
    <3>2. ~(i > P) => i + 1 \in D /\ measure[i + 1] < measure[i]
                      /\ (i < P => i + 2 \in D /\ measure[i + 2] < measure[i])
        BY <1>8
    <3>3. ~(i > P) => g[i + 1] = h[i + 1] /\ (i < P => g[i + 2] = h[i + 2])
        BY <2>3, <3>2
    <3>4. ASSUME NEW j \in E  PROVE value(g, i, j) = value(h, i, j)
        BY <3>3, Zenon
    <3>5. body(g)[i] = body(h)[i]
      <4>1. body(g)[i] = [j \in E |-> value(g, i, j)] /\ body(h)[i] = [j \in E |-> value(h, i, j)]
        <5> HIDE DEF value, D, E
        <5> QED BY Zenon
      <4>2. [j \in E |-> value(g, i, j)] = [j \in E |-> value(h, i, j)]
        <5> HIDE DEF value, D, E
        <5> QED BY <3>4
      <4> HIDE DEF body, value
      <4> QED BY <4>1, <4>2, Zenon
    <3> HIDE DEF body
    <3> QED BY <3>1, <3>5, Zenon
  <2> HIDE DEF D, E, body, matches
  <2> QED BY <1>7, <2>1, <2>2, <2>3, Zenon DEF Descends
<1>10. \E f : f = body(f)
  <2> HIDE DEF D, E, body, matches
  <2>1. PICK X, b : X = D /\ b = P + 2
      OBVIOUS
  <2>2. Descends(step, X, V, measure, b)
      BY <1>9, <2>1, Zenon
  <2>3. PICK f \in [X -> V] : f = step[f]
      BY <2>2, Recursion
  <2>4. step[f] = body(f)
      BY <1>7, <2>1, Zenon
  <2>5. f = body(f)
      BY <2>3, <2>4, Zenon
  <2> QED BY <2>5, Zenon
<1>11. PICK m : m = matches /\ m = body(m)
  <2> HIDE DEF body
  <2> QED BY <1>10, Zenon
<1>12. \A i \in D, j \in E : m[i][j] = value(m, i, j)
  <2> HIDE DEF body, value, D, E
  <2> QED BY <1>4, <1>11, Zenon
<1>13. MatchesBy(engine, pattern, P, message, M, m)
  <2> SUFFICES ASSUME NEW i \in D, NEW j \in E
               PROVE  /\ i > P => (m[i][j] <=> j > M)
                      /\ i < P /\ pattern[i] = "\\" /\ engine = "postgres" =>
                           (m[i][j] <=> j <= M /\ pattern[i + 1] = message[j] /\ m[i + 2][j + 1])
                      /\ i <= P /\ pattern[i] = "%" => (m[i][j] <=> \E k \in j .. M + 1 : m[i + 1][k])
                      /\ i <= P /\ pattern[i] \notin Metacharacters =>
                           (m[i][j] <=> /\ j <= M /\ SameChar(engine, pattern[i], message[j])
                                        /\ m[i + 1][j + 1])
      BY Zenon DEF MatchesBy
  <2>1. m[i][j] = value(m, i, j)
      BY <1>12
  <2>2. (i < P => ~(i > P)) /\ (i <= P => ~(i > P))
      OBVIOUS
  <2>3. pattern[i] = "%" => pattern[i] # "\\"
      OBVIOUS
  <2>4. pattern[i] \notin Metacharacters => pattern[i] # "\\" /\ pattern[i] # "%" /\ pattern[i] # "_"
      BY DEF Metacharacters
  <2> QED BY <2>1, <2>2, <2>3, <2>4, Zenon
<1> QED BY <1>1, <1>11, <1>13, Zenon DEF P, M

\* q from its k-th character on is what message holds from position j on.
Continues(engine, message, q, j, k) ==
  /\ j + (Len(q) - k) <= Len(message)
  /\ \A x \in k .. Len(q) : SameChar(engine, message[j + (x - k)], q[x])

(* One character more of the text searched for. *)
LEMMA ContinuesOneMore ==
  ASSUME NEW engine, NEW message, NEW q, Len(message) \in Nat, Len(q) \in Nat,
         NEW j \in 1 .. Len(message) + 1, NEW k \in 1 .. Len(q)
  PROVE  Continues(engine, message, q, j, k) <=>
           /\ j <= Len(message) /\ SameChar(engine, message[j], q[k])
           /\ Continues(engine, message, q, j + 1, k + 1)
<1>1. PICK M \in Nat, L \in Nat : M = Len(message) /\ L = Len(q)
    OBVIOUS
<1>2. j + (L - k) <= M <=> j <= M /\ (j + 1) + (L - (k + 1)) <= M
    BY <1>1
<1>3. \A x \in k .. L : x = k \/ x \in k + 1 .. L
    BY <1>1
<1>4. \A x \in k + 1 .. L : x \in k .. L /\ j + (x - k) = (j + 1) + (x - (k + 1))
    BY <1>1
<1>5. k \in k .. L /\ j + (k - k) = j
    BY <1>1
<1> QED BY <1>1, <1>2, <1>3, <1>4, <1>5 DEF Continues

(* A message contains a text that continues from one of its positions. *)
LEMMA SubstringContinues ==
  ASSUME NEW engine, NEW message, NEW q, Len(message) \in Nat, Len(q) \in Nat
  PROVE  HasSubstring(engine, message, q) <=>
           \E j \in 1 .. Len(message) + 1 : Continues(engine, message, q, j, 1)
<1>1. PICK M \in Nat, L \in Nat : M = Len(message) /\ L = Len(q)
    OBVIOUS
<1>2. ASSUME NEW i \in 0 .. M - L, \A k \in 1 .. L : SameChar(engine, message[i + k], q[k])
      PROVE  \E j \in 1 .. M + 1 : Continues(engine, message, q, j, 1)
  <2>1. i + 1 \in 1 .. M + 1 /\ (i + 1) + (L - 1) <= M
      BY <1>1
  <2>2. \A x \in 1 .. L : (i + 1) + (x - 1) = i + x
      BY <1>1
  <2>3. Continues(engine, message, q, i + 1, 1)
      BY <1>1, <1>2, <2>1, <2>2 DEF Continues
  <2> QED BY <2>1, <2>3
<1>3. ASSUME NEW j \in 1 .. M + 1, Continues(engine, message, q, j, 1)
      PROVE  \E i \in 0 .. M - L : \A k \in 1 .. L : SameChar(engine, message[i + k], q[k])
  <2>1. j + (L - 1) <= M /\ \A x \in 1 .. L : SameChar(engine, message[j + (x - 1)], q[x])
      BY <1>1, <1>3 DEF Continues
  <2>2. j - 1 \in 0 .. M - L
      BY <1>1, <2>1
  <2>3. \A x \in 1 .. L : (j - 1) + x = j + (x - 1)
      BY <1>1
  <2>4. \A x \in 1 .. L : SameChar(engine, message[(j - 1) + x], q[x])
      BY <2>1, <2>3
  <2> QED BY <2>2, <2>4
<1> QED BY <1>1, <1>2, <1>3 DEF HasSubstring

\* pattern is the one of the text q: its k-th character ends at position
\* off[k] + 1.
SearchesFor(pattern, off, q, n) ==
  /\ off \in [0 .. n -> Nat] /\ off[0] = 0 /\ Len(pattern) = off[n] + 2
  /\ pattern[1] = "%" /\ pattern[off[n] + 2] = "%"
  /\ \A k \in 1 .. n : off[k] <= off[n]
  /\ \A k \in 1 .. n :
       q[k] \in Metacharacters => /\ off[k] = off[k - 1] + 2
                                  /\ pattern[off[k - 1] + 2] = "\\"
                                  /\ pattern[off[k - 1] + 3] = q[k]
  /\ \A k \in 1 .. n :
       q[k] \notin Metacharacters => off[k] = off[k - 1] + 1 /\ pattern[off[k - 1] + 2] = q[k]

(* build_like_pattern: a percent sign, the text with a backslash before each
   metacharacter, a percent sign. *)
LEMMA PatternEscapes ==
  ASSUME NEW C, NEW q \in Seq(C), NEW n \in Nat, n = Len(q)
  PROVE  \E off : SearchesFor(BuildLikePattern(q), off, q, n)
<1>1. PICK S : S = C \cup {"\\", "%"}
    OBVIOUS
<1>2. q \in [1 .. n -> S]
  <2>1. q \in [1 .. n -> C]
      BY LenProperties
  <2> QED BY <1>1, <2>1
<1>3. PICK seqs : seqs = [i \in 1 .. n |-> IF q[i] \in Metacharacters THEN << "\\", q[i] >> ELSE << q[i] >>]
    OBVIOUS
<1>4. PICK esc, off : /\ esc = FlattenSeq(seqs) /\ esc \in Seq(S)
                      /\ Escapes(esc, off, q, n, Metacharacters, q)
  <2>1. Coded(seqs, q, n, Metacharacters, q)
      BY <1>3, Zenon DEF Coded
  <2>2. "\\" \in S
      BY <1>1
  <2> QED BY <1>2, <2>1, <2>2, Escaping
<1>5. Escaped(q, Metacharacters) = esc
    BY <1>3, <1>4, Zenon DEF Escaped
<1>6. /\ off \in [0 .. n -> Nat] /\ off[0] = 0 /\ Len(esc) = off[n]
      /\ \A k \in 1 .. n : off[k] <= off[n] /\ off[k] \in Nat /\ off[k - 1] \in Nat
  <2>1. off \in [0 .. n -> Nat] /\ off[0] = 0 /\ Len(esc) = off[n]
        /\ \A k \in 1 .. n : off[k] <= off[n]
      BY <1>4 DEF Escapes
  <2>2. \A k \in 1 .. n : k \in 0 .. n /\ k - 1 \in 0 .. n
      OBVIOUS
  <2> QED BY <2>1, <2>2
<1>7. PICK m \in Nat : m = off[n]
    BY <1>6
<1>8. PICK pattern \in Seq(S) :
        /\ pattern = BuildLikePattern(q) /\ Len(pattern) = m + 2
        /\ pattern[1] = "%" /\ pattern[m + 2] = "%"
        /\ \A x \in 1 .. m : pattern[x + 1] = esc[x]
  <2>1. PICK front : front = << "%" >> \o esc
      OBVIOUS
  <2>2. << "%" >> \in Seq(S) /\ Len(<< "%" >>) = 1 /\ << "%" >>[1] = "%"
      BY <1>1
  <2>3. front \in Seq(S) /\ Len(front) = 1 + m
        /\ \A i \in 1 .. 1 + m : front[i] = IF i <= 1 THEN << "%" >>[i] ELSE esc[i - 1]
      BY <1>4, <1>6, <1>7, <2>1, <2>2, ConcatProperties
  <2>4. PICK pattern : pattern = front \o << "%" >>
      OBVIOUS
  <2>5. pattern \in Seq(S) /\ Len(pattern) = (1 + m) + 1
        /\ \A i \in 1 .. (1 + m) + 1 : pattern[i] = IF i <= 1 + m THEN front[i] ELSE << "%" >>[i - (1 + m)]
    <3>1. PICK last \in Seq(S) : last = << "%" >> /\ Len(last) = 1
        BY <2>2
    <3>2. PICK l \in Nat : l = 1 + m /\ l = Len(front)
        BY <2>3
    <3>3. front \o last \in Seq(S) /\ Len(front \o last) = l + 1
          /\ \A i \in 1 .. l + 1 : (front \o last)[i] = IF i <= l THEN front[i] ELSE last[i - l]
        BY <2>3, <3>1, <3>2, ConcatProperties
    <3> QED BY <2>4, <3>1, <3>2, <3>3
  <2>6. pattern = BuildLikePattern(q)
      BY <1>5, <2>1, <2>4 DEF BuildLikePattern
  <2>7. pattern[1] = "%"
    <3>1. 1 \in 1 .. (1 + m) + 1 /\ 1 \in 1 .. 1 + m /\ 1 <= 1 + m /\ 1 <= 1
        OBVIOUS
    <3> QED BY <2>2, <2>3, <2>5, <3>1
  <2>8. pattern[m + 2] = "%"
    <3>1. m + 2 \in 1 .. (1 + m) + 1 /\ ~(m + 2 <= 1 + m) /\ (m + 2) - (1 + m) = 1
        OBVIOUS
    <3> QED BY <2>2, <2>5, <3>1
  <2>9. ASSUME NEW x \in 1 .. m  PROVE pattern[x + 1] = esc[x]
    <3>1. x + 1 \in 1 .. (1 + m) + 1 /\ x + 1 \in 1 .. 1 + m /\ x + 1 <= 1 + m
          /\ ~(x + 1 <= 1) /\ (x + 1) - 1 = x
        OBVIOUS
    <3> QED BY <2>3, <2>5, <3>1
  <2>10. Len(pattern) = m + 2
      BY <2>5
  <2> QED BY <2>5, <2>6, <2>7, <2>8, <2>9, <2>10
<1>9. ASSUME NEW k \in 1 .. n, q[k] \in Metacharacters
      PROVE  /\ off[k] = off[k - 1] + 2
             /\ pattern[off[k - 1] + 2] = "\\" /\ pattern[off[k - 1] + 3] = q[k]
  <2>1. off[k] = off[k - 1] + 2 /\ esc[off[k - 1] + 1] = "\\" /\ esc[off[k - 1] + 2] = q[k]
      BY <1>4, <1>9 DEF Escapes
  <2>2. PICK a \in Nat : a = off[k - 1] /\ a + 2 <= m
      BY <1>6, <1>7, <2>1
  <2>3. a + 1 \in 1 .. m /\ a + 2 \in 1 .. m /\ (a + 1) + 1 = a + 2 /\ (a + 2) + 1 = a + 3
      BY <2>2
  <2> QED BY <1>8, <2>1, <2>2, <2>3
<1>10. ASSUME NEW k \in 1 .. n, q[k] \notin Metacharacters
       PROVE  off[k] = off[k - 1] + 1 /\ pattern[off[k - 1] + 2] = q[k]
  <2>1. off[k] = off[k - 1] + 1 /\ esc[off[k - 1] + 1] = q[k]
      BY <1>4, <1>10 DEF Escapes
  <2>2. PICK a \in Nat : a = off[k - 1] /\ a + 1 <= m
      BY <1>6, <1>7, <2>1
  <2>3. a + 1 \in 1 .. m /\ (a + 1) + 1 = a + 2
      BY <2>2
  <2> QED BY <1>8, <2>1, <2>2, <2>3
<1>11. SearchesFor(pattern, off, q, n)
    BY <1>6, <1>7, <1>8, <1>9, <1>10 DEF SearchesFor
<1> QED BY <1>8, <1>11

(* A search finds a message exactly if it contains the text: on Postgres
   whatever the text is made of, on SQLite for texts without metacharacters. *)
THEOREM LikeIsSubstring ==
  ASSUME NEW C, NEW engine, NEW q \in Seq(C), NEW message, Len(message) \in Nat,
         engine = "postgres" \/ \A k \in 1 .. Len(q) : q[k] \notin Metacharacters
  PROVE  Like(engine, BuildLikePattern(q), message) <=> HasSubstring(engine, message, q)
<1>1. PICK L \in Nat, M \in Nat : L = Len(q) /\ M = Len(message)
    BY LenProperties
<1>2. PICK pattern, off : pattern = BuildLikePattern(q) /\ SearchesFor(pattern, off, q, L)
    BY <1>1, PatternEscapes
<1>3. PICK P \in Nat : P = Len(pattern) /\ P = off[L] + 2
  <2>1. off[L] \in Nat /\ Len(pattern) = off[L] + 2
      BY <1>2 DEF SearchesFor
  <2> QED BY <2>1
<1>4. PICK m : MatchesBy(engine, pattern, P, message, M, m) /\ Like(engine, pattern, message) = m[1][1]
  <2>1. Len(pattern) \in Nat /\ Len(message) \in Nat
      BY <1>1, <1>3
  <2> QED BY <1>1, <1>3, <2>1, LikeMatches
<1>5. ASSUME NEW i \in 1 .. P + 1, NEW j \in 1 .. M + 1
      PROVE  /\ i > P => (m[i][j] <=> j > M)
             /\ i < P /\ pattern[i] = "\\" /\ engine = "postgres" =>
                  (m[i][j] <=> j <= M /\ pattern[i + 1] = message[j] /\ m[i + 2][j + 1])
             /\ i <= P /\ pattern[i] = "%" => (m[i][j] <=> \E k \in j .. M + 1 : m[i + 1][k])
             /\ i <= P /\ pattern[i] \notin Metacharacters =>
                  (m[i][j] <=> j <= M /\ SameChar(engine, pattern[i], message[j]) /\ m[i + 1][j + 1])
    BY <1>4, Zenon DEF MatchesBy
<1>6. \A a, b : SameChar(engine, a, b) <=> SameChar(engine, b, a)
    BY DEF SameChar
<1>7. \A a, b : engine = "postgres" => (a = b <=> SameChar(engine, a, b))
    BY DEF SameChar
<1>8. ASSUME NEW k \in 1 .. L, NEW j \in 1 .. M + 1
      PROVE  m[off[k - 1] + 2][j] <=>
               j <= M /\ SameChar(engine, message[j], q[k]) /\ m[off[k] + 2][j + 1]
  <2>1. PICK a \in Nat, b \in Nat : a = off[k - 1] /\ b = off[k] /\ b + 2 <= P
    <3>1. k \in 0 .. L /\ k - 1 \in 0 .. L /\ L \in 0 .. L
        OBVIOUS
    <3>2. off[k - 1] \in Nat /\ off[k] \in Nat /\ off[L] \in Nat /\ off[k] <= off[L]
        BY <1>2, <3>1 DEF SearchesFor
    <3> QED BY <1>3, <3>2
  <2>2. CASE q[k] \in Metacharacters
    <3>1. engine = "postgres"
        BY <1>1, <2>2
    <3>2. b = a + 2 /\ pattern[a + 2] = "\\" /\ pattern[a + 3] = q[k]
        BY <1>2, <2>1, <2>2 DEF SearchesFor
    <3>3. a + 2 \in 1 .. P + 1 /\ a + 2 < P /\ (a + 2) + 1 = a + 3 /\ (a + 2) + 2 = b + 2
        BY <2>1, <3>2
    <3>4. m[a + 2][j] <=> j <= M /\ q[k] = message[j] /\ m[b + 2][j + 1]
        BY <1>5, <3>1, <3>2, <3>3
    <3> QED BY <1>6, <1>7, <2>1, <3>1, <3>4, Zenon
  <2>3. CASE q[k] \notin Metacharacters
    <3>1. b = a + 1 /\ pattern[a + 2] = q[k]
        BY <1>2, <2>1, <2>3 DEF SearchesFor
    <3>2. a + 2 \in 1 .. P + 1 /\ a + 2 <= P /\ (a + 2) + 1 = b + 2
        BY <2>1, <3>1
    <3>3. m[a + 2][j] <=> j <= M /\ SameChar(engine, q[k], message[j]) /\ m[b + 2][j + 1]
        BY <1>5, <2>3, <3>1, <3>2
    <3> QED BY <1>6, <2>1, <3>3, Zenon
  <2> QED BY <2>2, <2>3
<1>9. \A j \in 1 .. M + 1 : m[off[L] + 2][j]
  <2> SUFFICES ASSUME NEW j \in 1 .. M + 1 PROVE m[off[L] + 2][j]
      OBVIOUS
  <2>1. pattern[P] = "%" /\ P \in 1 .. P + 1 /\ P <= P
      BY <1>2, <1>3 DEF SearchesFor
  <2>2. m[P + 1][M + 1]
    <3>1. P + 1 \in 1 .. P + 1 /\ P + 1 > P /\ M + 1 \in 1 .. M + 1 /\ M + 1 > M
        OBVIOUS
    <3> QED BY <1>5, <3>1
  <2>3. M + 1 \in j .. M + 1
      OBVIOUS
  <2>4. m[P][j]
      BY <1>5, <2>1, <2>2, <2>3
  <2> QED BY <1>3, <2>4
<1>10. PICK Done : Done = {d \in Nat : d <= L =>
                             \A j \in 1 .. M + 1 : m[off[L - d] + 2][j] <=>
                                                   Continues(engine, message, q, j, (L - d) + 1)}
    OBVIOUS
<1>11. 0 \in Done
  <2>1. L - 0 = L /\ (L - 0) + 1 = L + 1
      OBVIOUS
  <2>2. \A j \in 1 .. M + 1 : Continues(engine, message, q, j, L + 1)
      BY <1>1 DEF Continues
  <2> QED BY <1>9, <1>10, <2>1, <2>2
<1>12. ASSUME NEW d \in Nat, d \in Done  PROVE d + 1 \in Done
  <2> SUFFICES ASSUME d + 1 <= L, NEW j \in 1 .. M + 1
               PROVE  m[off[L - (d + 1)] + 2][j] <=>
                      Continues(engine, message, q, j, (L - (d + 1)) + 1)
      BY <1>10
  <2>1. PICK k \in 1 .. L : k = L - d /\ L - (d + 1) = k - 1 /\ (L - (d + 1)) + 1 = k /\ d <= L
      OBVIOUS
  <2>2. \A i \in 1 .. M + 1 : m[off[k] + 2][i] <=> Continues(engine, message, q, i, k + 1)
      BY <1>10, <1>12, <2>1
  <2>3. m[off[k - 1] + 2][j] <=>
          j <= M /\ SameChar(engine, message[j], q[k]) /\ m[off[k] + 2][j + 1]
      BY <1>8
  <2>4. Continues(engine, message, q, j, k) <=>
          j <= M /\ SameChar(engine, message[j], q[k]) /\ Continues(engine, message, q, j + 1, k + 1)
      BY <1>1, ContinuesOneMore
  <2>5. j <= M => j + 1 \in 1 .. M + 1
      OBVIOUS
  <2>6. m[off[k - 1] + 2][j] <=> Continues(engine, message, q, j, k)
      BY <2>2, <2>3, <2>4, <2>5
  <2> QED BY <2>1, <2>6
<1>13. L \in Done
    BY <1>11, <1>12, IndexInduction
<1>14. \A j \in 1 .. M + 1 : m[2][j] <=> Continues(engine, message, q, j, 1)
  <2>1. L - L = 0 /\ L <= L /\ 0 + 1 = 1
      OBVIOUS
  <2>2. \A j \in 1 .. M + 1 : m[off[0] + 2][j] <=> Continues(engine, message, q, j, 1)
      BY <1>10, <1>13, <2>1
  <2>3. off[0] + 2 = 2
      BY <1>2 DEF SearchesFor
  <2> QED BY <2>2, <2>3
<1>15. m[1][1] <=> \E j \in 1 .. M + 1 : m[2][j]
  <2>1. pattern[1] = "%" /\ 1 \in 1 .. P + 1 /\ 1 <= P /\ 1 \in 1 .. M + 1 /\ 1 + 1 = 2
    <3>1. off[L] \in Nat
        BY <1>2 DEF SearchesFor
    <3> QED BY <1>2, <1>3, <3>1 DEF SearchesFor
  <2> QED BY <1>5, <2>1
<1>16. HasSubstring(engine, message, q) <=> \E j \in 1 .. M + 1 : Continues(engine, message, q, j, 1)
    BY <1>1, SubstringContinues
<1> QED BY <1>2, <1>4, <1>14, <1>15, <1>16
=============================================================================
