-------------------------- MODULE VideoPipelineProofs --------------------------
(***************************************************************************)
(* What holds of a publisher process for every channel, limit and number   *)
(* of frames, whatever the encoder and the room do.                        *)
(***************************************************************************)
EXTENDS VideoPipeline, FiniteSetTheorems, SequenceTheorems, TLAPS

-----------------------------------------------------------------------------
(* Induction on numbers, by the choice of a least counterexample.          *)

LEMMA Least ==
    ASSUME NEW T, T \subseteq Nat, T # {}
    PROVE  \E m \in T : \A n \in T : m <= n
<1> DEFINE Below == {0 .. n : n \in T}
<1>1. Below \subseteq FiniteSubsetsOf(Nat)
  <2>1. ASSUME NEW n \in T PROVE IsFiniteSet(0 .. n) /\ 0 .. n \subseteq Nat
    BY FS_Interval
  <2>2. QED BY <2>1 DEF FiniteSubsetsOf
<1> Below # {} OBVIOUS
<1> HIDE DEF Below
<1>2. PICK X \in Below : \A Y \in Below : <<Y, X>> \notin StrictSubsetOrdering(Nat)
  BY <1>1, FS_StrictSubsetOrderingWellFounded, WFMin
<1> USE DEF Below
<1>3. PICK m \in T : X = 0 .. m OBVIOUS
<1>4. ASSUME NEW n \in T, n < m PROVE FALSE
  <2>1. m \in 0 .. m /\ m \notin 0 .. n BY <1>4
  <2>2. 0 .. n \subseteq 0 .. m /\ 0 .. n # 0 .. m BY <1>4, <2>1
  <2>3. <<0 .. n, X>> \in StrictSubsetOrdering(Nat)
    BY <1>3, <2>2 DEF StrictSubsetOrdering
  <2>4. QED BY <1>2, <2>3
<1>5. QED BY <1>4

\* A set of numbers that holds 0, and n + 1 with n, holds all up to a limit.
LEMMA Induction ==
    ASSUME NEW n \in Nat, NEW P, 0 \in P, \A k \in 0 .. n - 1 : k \in P => k + 1 \in P
    PROVE  0 .. n \subseteq P
<1> DEFINE T == 0 .. n \ P
<1> SUFFICES ASSUME T # {} PROVE FALSE OBVIOUS
<1> T \subseteq Nat OBVIOUS
<1> HIDE DEF T
<1>1. PICK m \in T : \A k \in T : m <= k BY Least
<1> USE DEF T
<1>2. m \in 1 .. n /\ m - 1 \in 0 .. n - 1 OBVIOUS
<1>3. m - 1 \in P BY <1>1, <1>2
<1>4. QED BY <1>2, <1>3

-----------------------------------------------------------------------------
(* How an access unit is laid out.                                         *)

\* at[k] bytes precede the piece after the k-th.
Layout(data, pieces, at) ==
    /\ at \in [0 .. Len(pieces) -> Nat] /\ at[0] = 0
    /\ \A k \in 1 .. Len(pieces) : at[k] = at[k - 1] + Len(pieces[k])
    /\ data \in Seq(Bytes) /\ Len(data) = at[Len(pieces)]
    /\ \A k \in 1 .. Len(pieces) : \A j \in 1 .. Len(pieces[k]) :
          data[at[k - 1] + j] = pieces[k][j]

\* The function that FlattenSeq computes exists.
LEMMA FlattenFunction ==
    ASSUME NEW pieces \in Seq(Seq(Bytes)), pieces # <<>>
    PROVE  \E flat \in [1 .. Len(pieces) -> Seq(Bytes)] :
              /\ flat[1] = pieces[1]
              /\ \A k \in 2 .. Len(pieces) : flat[k] = flat[k - 1] \o pieces[k]
              /\ FlattenSeq(pieces) = flat[Len(pieces)]
<1> DEFINE n == Len(pieces)
           Right(f, k) == f[k] = IF k = 1 THEN pieces[k] ELSE f[k - 1] \o pieces[k]
           P == {m \in 0 .. n : \E f \in [1 .. n -> Seq(Bytes)] : \A k \in 1 .. m : Right(f, k)}
<1>1. n \in Nat \ {0} /\ DOMAIN pieces = 1 .. n /\ \A k \in 1 .. n : pieces[k] \in Seq(Bytes)
  BY EmptySeq, LenProperties, ElementOfSeq
<1> HIDE DEF n
<1>2. 0 \in P
  <2>1. [k \in 1 .. n |-> <<>>] \in [1 .. n -> Seq(Bytes)] OBVIOUS
  <2>2. QED BY <1>1, <2>1
<1>3. ASSUME NEW m \in 0 .. n - 1, m \in P PROVE m + 1 \in P
  <2>1. PICK f \in [1 .. n -> Seq(Bytes)] : \A k \in 1 .. m : Right(f, k) BY <1>3
  <2> DEFINE new == IF m + 1 = 1 THEN pieces[m + 1] ELSE f[m] \o pieces[m + 1]
             g   == [f EXCEPT ![m + 1] = new]
  <2>2. m + 1 \in 1 .. n /\ (m # 0 => m \in 1 .. n) /\ (m + 1) - 1 = m BY <1>1
  <2>3. new \in Seq(Bytes) BY <1>1, <2>2, ConcatProperties
  <2> HIDE DEF new
  <2>4. g \in [1 .. n -> Seq(Bytes)] BY <2>3
  <2>5. g[m + 1] = new /\ \A k \in 1 .. m : g[k] = f[k] BY <1>1, <2>2
  <2> HIDE DEF g
  <2>6. ASSUME NEW k \in 1 .. m + 1 PROVE Right(g, k)
    <3>1. CASE k = m + 1
      <4>1. m # 0 => g[m] = f[m] BY <2>5
      <4>2. QED BY <2>2, <2>5, <3>1, <4>1 DEF new
    <3>2. CASE k # m + 1
      <4>1. k \in 1 .. m /\ (k # 1 => k - 1 \in 1 .. m) BY <1>1, <3>2
      <4>2. g[k] = f[k] /\ (k # 1 => g[k - 1] = f[k - 1]) BY <2>5, <4>1
      <4>3. QED BY <2>1, <4>1, <4>2
    <3>3. QED BY <3>1, <3>2
  <2> HIDE DEF Right
  <2>7. QED BY <2>2, <2>4, <2>6
<1>4. n \in P
  <2> HIDE DEF P
  <2>1. 0 .. n \subseteq P BY <1>1, <1>2, <1>3, Induction
  <2>2. QED BY <1>1, <2>1
<1>5. PICK f \in [1 .. n -> Seq(Bytes)] : \A k \in 1 .. n : Right(f, k) BY <1>1, <1>4
<1> DEFINE flatten[k \in 1 .. n] == IF k = 1 THEN pieces[k] ELSE flatten[k - 1] \o pieces[k]
<1>6. f = [k \in 1 .. n |-> IF k = 1 THEN pieces[k] ELSE f[k - 1] \o pieces[k]] BY <1>5
<1>7. flatten = [k \in 1 .. n |-> IF k = 1 THEN pieces[k] ELSE flatten[k - 1] \o pieces[k]]
  <2> SUFFICES \E g : g = [k \in 1 .. n |-> IF k = 1 THEN pieces[k] ELSE g[k - 1] \o pieces[k]]
    OBVIOUS
  <2> QED BY <1>6
<1>8. FlattenSeq(pieces) = flatten[n]
  BY <1>1 DEF FlattenSeq, n
<1> HIDE DEF P, flatten
<1>9. \A k \in 1 .. n : flatten[k] = f[k]
  <2> DEFINE Q == {m \in 0 .. n : \A k \in 1 .. m : flatten[k] = f[k]}
  <2>1. 0 \in Q BY <1>1
  <2>2. ASSUME NEW m \in 0 .. n - 1, m \in Q PROVE m + 1 \in Q
    <3>1. m + 1 \in 1 .. n /\ m + 1 \in 0 .. n /\ (m # 0 => m \in 1 .. m) /\ (m + 1) - 1 = m
      BY <1>1
    <3>2. flatten[m + 1] = IF m + 1 = 1 THEN pieces[m + 1] ELSE flatten[m] \o pieces[m + 1]
      BY <1>7, <3>1
    <3>3. f[m + 1] = IF m + 1 = 1 THEN pieces[m + 1] ELSE f[m] \o pieces[m + 1]
      BY <1>5, <3>1
    <3>4. flatten[m + 1] = f[m + 1] BY <2>2, <3>1, <3>2, <3>3
    <3>5. \A k \in 1 .. m + 1 : k = m + 1 \/ k \in 1 .. m BY <1>1
    <3>6. QED BY <2>2, <3>1, <3>4, <3>5
  <2> HIDE DEF Q
  <2>3. 0 .. n \subseteq Q BY <1>1, <2>1, <2>2, Induction
  <2>4. n \in Q BY <1>1, <2>3
  <2>5. QED BY <2>4 DEF Q
<1>10. f[1] = pieces[1] BY <1>1, <1>5
<1>11. ASSUME NEW k \in 2 .. n PROVE f[k] = f[k - 1] \o pieces[k]
  <2>1. k \in 1 .. n /\ k # 1 BY <1>1
  <2>2. QED BY <1>5, <2>1
<1>12. FlattenSeq(pieces) = f[n] BY <1>1, <1>8, <1>9
<1> HIDE DEF Right
<1>13. QED BY <1>10, <1>11, <1>12 DEF n

LEMMA FlattenLayout ==
    ASSUME NEW pieces \in Seq(Seq(Bytes)), pieces # <<>>
    PROVE  \E at : Layout(FlattenSeq(pieces), pieces, at)
<1> DEFINE n == Len(pieces)
<1>1. n \in Nat \ {0} /\ \A k \in 1 .. n : pieces[k] \in Seq(Bytes) /\ Len(pieces[k]) \in Nat
  BY EmptySeq, LenProperties, ElementOfSeq
<1>2. PICK f \in [1 .. n -> Seq(Bytes)] :
         /\ f[1] = pieces[1]
         /\ \A k \in 2 .. n : f[k] = f[k - 1] \o pieces[k]
         /\ FlattenSeq(pieces) = f[n]
  BY FlattenFunction
<1> HIDE DEF n
<1>3. \A k \in 1 .. n : Len(f[k]) \in Nat BY LenProperties
<1> DEFINE at == [k \in 0 .. n |-> IF k = 0 THEN 0 ELSE Len(f[k])]
<1>4. at \in [0 .. n -> Nat] /\ at[0] = 0 /\ \A k \in 1 .. n : at[k] = Len(f[k])
  BY <1>1, <1>3
<1> HIDE DEF at
<1>5. \A k \in 1 .. n : at[k] = at[k - 1] + Len(pieces[k])
  <2> TAKE k \in 1 .. n
  <2>1. CASE k = 1 BY <1>1, <1>2, <1>4, <2>1
  <2>2. CASE k # 1
    <3>1. k \in 2 .. n /\ k - 1 \in 1 .. n BY <1>1, <2>2
    <3>2. f[k - 1] \in Seq(Bytes) /\ pieces[k] \in Seq(Bytes) BY <1>1, <1>2, <3>1
    <3>3. Len(f[k - 1] \o pieces[k]) = Len(f[k - 1]) + Len(pieces[k])
      BY <3>2, ConcatProperties
    <3>4. f[k] = f[k - 1] \o pieces[k] BY <1>2, <3>1
    <3>5. QED BY <1>4, <3>1, <3>3, <3>4
  <2>3. QED BY <2>1, <2>2
<1> DEFINE Laid(m) == \A k \in 1 .. m : \A j \in 1 .. Len(pieces[k]) :
                         at[k - 1] + j \in 1 .. at[m] /\ f[m][at[k - 1] + j] = pieces[k][j]
           P == {m \in 0 .. n : Laid(m)}
<1>6. 0 \in P BY <1>1
<1>7. ASSUME NEW m \in 0 .. n - 1, m \in P PROVE m + 1 \in P
  <2>1. m + 1 \in 1 .. n /\ m + 1 \in 0 .. n /\ m \in 0 .. n /\ (m + 1) - 1 = m BY <1>1
  <2>2. at[m + 1] = at[m] + Len(pieces[m + 1]) /\ at[m] \in Nat BY <1>4, <1>5, <2>1
  <2>3. ASSUME NEW k \in 1 .. m + 1, NEW j \in 1 .. Len(pieces[k])
        PROVE  at[k - 1] + j \in 1 .. at[m + 1] /\ f[m + 1][at[k - 1] + j] = pieces[k][j]
    <3>1. k \in 1 .. n /\ k - 1 \in 0 .. n BY <1>1
    <3>2. at[k - 1] \in Nat /\ j \in Nat \ {0} BY <1>1, <1>4, <3>1
    <3>3. CASE m = 0
      <4>1. k = 1 BY <3>3
      <4>2. QED BY <1>1, <1>2, <1>4, <2>2, <3>3, <4>1
    <3>4. CASE m # 0
      <4>1. m \in 1 .. n /\ f[m] \in Seq(Bytes) /\ Len(f[m]) = at[m] BY <1>1, <1>4, <3>4
      <4>2. f[m + 1] = f[m] \o pieces[m + 1]
        <5>1. m + 1 \in 2 .. n BY <1>1, <3>4
        <5>2. QED BY <1>2, <2>1, <5>1
      <4>3. \A i \in 1 .. at[m + 1] :
               f[m + 1][i] = IF i <= at[m] THEN f[m][i] ELSE pieces[m + 1][i - at[m]]
        <5>1. pieces[m + 1] \in Seq(Bytes) BY <1>1, <2>1
        <5>2. \A i \in 1 .. Len(f[m]) + Len(pieces[m + 1]) : (f[m] \o pieces[m + 1])[i] =
                IF i <= Len(f[m]) THEN f[m][i] ELSE pieces[m + 1][i - Len(f[m])]
          BY <4>1, <5>1, ConcatProperties
        <5>3. QED BY <2>2, <4>1, <4>2, <5>2
      <4>4. CASE k = m + 1
        <5>1. at[m] + j \in 1 .. at[m + 1] /\ ~(at[m] + j <= at[m]) /\ (at[m] + j) - at[m] = j
          <6> DEFINE length == Len(pieces[m + 1])
          <6>1. j \in 1 .. length /\ length \in Nat BY <1>1, <2>1, <4>4
          <6>2. at[m + 1] = at[m] + length BY <2>2
          <6> HIDE DEF at, length
          <6>3. QED BY <2>2, <6>1, <6>2
        <5>2. f[m + 1][at[m] + j] = pieces[m + 1][j]
          <6> HIDE DEF at
          <6>1. QED BY <4>3, <5>1
        <5>3. k - 1 = m BY <2>1, <4>4
        <5>4. QED BY <4>4, <5>1, <5>2, <5>3
      <4>5. CASE k # m + 1
        <5>1. k \in 1 .. m BY <1>1, <4>5
        <5>2. at[k - 1] + j \in 1 .. at[m] /\ f[m][at[k - 1] + j] = pieces[k][j]
          BY <1>7, <5>1
        <5>3. at[k - 1] + j \in 1 .. at[m + 1] /\ at[k - 1] + j <= at[m]
          <6>1. Len(pieces[m + 1]) \in Nat BY <1>1, <2>1
          <6>2. QED BY <2>2, <5>2, <6>1
        <5>4. QED BY <4>3, <5>2, <5>3
      <4>6. QED BY <4>4, <4>5
    <3>5. QED BY <3>3, <3>4
  <2>4. QED BY <2>1, <2>3
<1> HIDE DEF P
<1>8. 0 .. n \subseteq P BY <1>1, <1>6, <1>7, Induction
<1>9. Laid(n) BY <1>1, <1>8 DEF P
<1>10. Len(FlattenSeq(pieces)) = at[n] /\ FlattenSeq(pieces) \in Seq(Bytes) BY <1>1, <1>2, <1>4
<1> DEFINE data == FlattenSeq(pieces)
<1>11. data = f[n] BY <1>2
<1> HIDE DEF data
<1>12. \A k \in 1 .. n : \A j \in 1 .. Len(pieces[k]) : data[at[k - 1] + j] = pieces[k][j]
  BY <1>9, <1>11
<1>13. Layout(data, pieces, at) BY <1>4, <1>5, <1>10, <1>12 DEF Layout, n, data
<1>14. QED BY <1>13 DEF data

LEMMA LayoutOrder ==
    ASSUME NEW data, NEW pieces \in Seq(Seq(Bytes)), NEW at, Layout(data, pieces, at),
           NEW k \in 0 .. Len(pieces), NEW l \in k .. Len(pieces)
    PROVE  at[k] <= at[l]
<1> DEFINE n == Len(pieces)
           P == {d \in 0 .. n - k : at[k] <= at[k + d]}
<1>1. n \in Nat /\ k \in 0 .. n /\ l \in k .. n BY LenProperties
<1>2. /\ \A m \in 0 .. n : at[m] \in Nat
      /\ \A m \in 1 .. n : at[m] = at[m - 1] + Len(pieces[m]) /\ Len(pieces[m]) \in Nat
  <2>1. \A m \in 1 .. n : Len(pieces[m]) \in Nat BY LenProperties, ElementOfSeq
  <2>2. QED BY <2>1 DEF Layout
<1> HIDE DEF n
<1>3. 0 \in P BY <1>1, <1>2
<1>4. ASSUME NEW d \in 0 .. (n - k) - 1, d \in P PROVE d + 1 \in P
  <2>1. d + 1 \in 0 .. n - k /\ k + (d + 1) \in 1 .. n /\ (k + (d + 1)) - 1 = k + d
        /\ k + d \in 0 .. n
    BY <1>1
  <2>2. at[k + (d + 1)] = at[k + d] + Len(pieces[k + (d + 1)]) BY <1>2, <2>1
  <2>3. at[k] <= at[k + (d + 1)]
    <3>1. at[k] \in Nat /\ at[k + d] \in Nat /\ at[k] <= at[k + d]
          /\ Len(pieces[k + (d + 1)]) \in Nat
      BY <1>1, <1>2, <1>4, <2>1
    <3>2. QED BY <2>2, <3>1
  <2>4. QED BY <2>1, <2>3
<1> HIDE DEF P
<1>5. 0 .. n - k \subseteq P
  <2>1. n - k \in Nat BY <1>1
  <2>2. QED BY <1>3, <1>4, <2>1, Induction
<1>6. l - k \in P /\ k + (l - k) = l BY <1>1, <1>5
<1>7. QED BY <1>6 DEF P

\* Every byte is in a piece.
LEMMA LayoutCovers ==
    ASSUME NEW data, NEW pieces \in Seq(Seq(Bytes)), NEW at, Layout(data, pieces, at)
    PROVE  \A i \in 1 .. Len(data) : \E k \in 1 .. Len(pieces) :
              i - at[k - 1] \in 1 .. Len(pieces[k])
<1> SUFFICES ASSUME NEW i \in 1 .. Len(data)
             PROVE  \E k \in 1 .. Len(pieces) : i - at[k - 1] \in 1 .. Len(pieces[k])
  OBVIOUS
<1> DEFINE n == Len(pieces)
           T == {k \in 0 .. n : i <= at[k]}
<1>1. n \in Nat /\ i \in Nat \ {0} /\ n \in T BY LenProperties DEF Layout
<1>2. /\ at[0] = 0 /\ \A m \in 0 .. n : at[m] \in Nat
      /\ \A m \in 1 .. n : at[m] = at[m - 1] + Len(pieces[m]) /\ Len(pieces[m]) \in Nat
  <2>1. \A m \in 1 .. n : Len(pieces[m]) \in Nat BY LenProperties, ElementOfSeq
  <2>2. QED BY <2>1 DEF Layout
<1> HIDE DEF n
<1>3. PICK k \in T : \A m \in T : k <= m
  <2>1. T \subseteq Nat /\ T # {} BY <1>1
  <2> HIDE DEF T
  <2>2. QED BY <2>1, Least
<1>4. k \in 1 .. n /\ k - 1 \in 0 .. n BY <1>1, <1>2
<1>5. ~(i <= at[k - 1])
  <2>1. k - 1 \notin T BY <1>3, <1>4
  <2>2. QED BY <1>4, <2>1
<1>6. at[k] = at[k - 1] + Len(pieces[k]) /\ at[k - 1] \in Nat /\ Len(pieces[k]) \in Nat
  BY <1>2, <1>4
<1>7. i - at[k - 1] \in 1 .. Len(pieces[k])
  <2>1. i \in Nat /\ i <= at[k] BY <1>1, <1>3
  <2> HIDE DEF T
  <2>2. QED BY <1>5, <1>6, <2>1
<1>8. QED BY <1>4, <1>7 DEF n

\* NALUs behind marks of one size.
FramedAt(data, nalus, marks, size, at) ==
    LET n == Len(nalus) IN
    /\ at \in [0 .. n -> Nat] /\ at[0] = 0
    /\ \A k \in 1 .. n : at[k] = at[k - 1] + size + Len(nalus[k])
    /\ \A k \in 0 .. n : \A l \in k .. n : at[k] <= at[l]
    /\ data \in Seq(Bytes) /\ Len(data) = at[n]
    /\ \A k \in 1 .. n : \A j \in 1 .. size : data[at[k - 1] + j] = marks[k][j]
    /\ \A k \in 1 .. n : \A j \in 1 .. Len(nalus[k]) : data[at[k - 1] + size + j] = nalus[k][j]
    /\ \A i \in 1 .. Len(data) : \E k \in 1 .. n : \E j \in 1 .. size + Len(nalus[k]) :
          i = at[k - 1] + j

LEMMA FramedLayout ==
    ASSUME NEW nalus \in Seq(Seq(Bytes)), nalus # <<>>, NEW size \in Nat, NEW marks,
           \A k \in 1 .. Len(nalus) : marks[k] \in Seq(Bytes) /\ Len(marks[k]) = size
    PROVE  \E at : FramedAt(Framed(nalus, marks), nalus, marks, size, at)
<1> DEFINE n == Len(nalus)
           pieces == [k \in 1 .. n |-> marks[k] \o nalus[k]]
           data == FlattenSeq(pieces)
<1>1. n \in Nat \ {0} /\ \A k \in 1 .. n : nalus[k] \in Seq(Bytes) /\ Len(nalus[k]) \in Nat
  BY EmptySeq, LenProperties, ElementOfSeq
<1>2. \A k \in 1 .. n : /\ marks[k] \o nalus[k] \in Seq(Bytes)
                        /\ Len(marks[k] \o nalus[k]) = size + Len(nalus[k])
                        /\ \A i \in 1 .. size + Len(nalus[k]) : (marks[k] \o nalus[k])[i] =
                              IF i <= size THEN marks[k][i] ELSE nalus[k][i - size]
  <2> TAKE k \in 1 .. n
  <2>1. marks[k] \in Seq(Bytes) /\ nalus[k] \in Seq(Bytes) /\ Len(marks[k]) = size BY <1>1
  <2> DEFINE mark == marks[k]
             nalu == nalus[k]
  <2> HIDE DEF mark, nalu
  <2>2. /\ mark \o nalu \in Seq(Bytes)
        /\ Len(mark \o nalu) = Len(mark) + Len(nalu)
        /\ \A i \in 1 .. Len(mark) + Len(nalu) : (mark \o nalu)[i] =
              IF i <= Len(mark) THEN mark[i] ELSE nalu[i - Len(mark)]
    <3>1. mark \in Seq(Bytes) /\ nalu \in Seq(Bytes) BY <2>1 DEF mark, nalu
    <3>2. QED BY <3>1, ConcatProperties
  <2>3. QED BY <2>1, <2>2 DEF mark, nalu
<1>3. Framed(nalus, marks) = data BY LenProperties DEF Framed
<1> HIDE DEF n
<1>4. /\ pieces \in Seq(Seq(Bytes)) /\ Len(pieces) = n /\ pieces # <<>>
      /\ \A k \in 1 .. n : pieces[k] = marks[k] \o nalus[k]
  <2>1. pieces \in [1 .. n -> Seq(Bytes)] BY <1>2
  <2>2. pieces \in Seq(Seq(Bytes)) BY <1>1, <2>1, IsASeq
  <2>3. Len(pieces) = n BY <1>1, <2>2, LenProperties
  <2>4. QED BY <1>1, <2>2, <2>3, EmptySeq
<1> HIDE DEF pieces
<1>5. PICK at : Layout(data, pieces, at) BY <1>4, FlattenLayout
<1> HIDE DEF data
<1>6. \A k \in 1 .. n : Len(pieces[k]) = size + Len(nalus[k]) BY <1>2, <1>4
<1>7. at \in [0 .. n -> Nat] /\ at[0] = 0 BY <1>4, <1>5 DEF Layout
<1>8. \A k \in 1 .. n : at[k] = at[k - 1] + size + Len(nalus[k])
  <2> TAKE k \in 1 .. n
  <2>1. at[k] = at[k - 1] + Len(pieces[k]) BY <1>4, <1>5 DEF Layout
  <2>2. at[k - 1] \in Nat BY <1>1, <1>7
  <2>3. QED BY <1>1, <1>6, <2>1, <2>2
<1>9. \A k \in 0 .. n : \A l \in k .. n : at[k] <= at[l] BY <1>4, <1>5, LayoutOrder
<1>10. data \in Seq(Bytes) /\ Len(data) = at[n] BY <1>4, <1>5 DEF Layout
<1>11. \A k \in 1 .. n : \A j \in 1 .. size + Len(nalus[k]) :
          data[at[k - 1] + j] = IF j <= size THEN marks[k][j] ELSE nalus[k][j - size]
  <2> TAKE k \in 1 .. n
  <2> TAKE j \in 1 .. size + Len(nalus[k])
  <2>1. data[at[k - 1] + j] = pieces[k][j] BY <1>4, <1>5, <1>6 DEF Layout
  <2>2. QED BY <1>2, <1>4, <2>1
<1>12. \A k \in 1 .. n : \A j \in 1 .. size : data[at[k - 1] + j] = marks[k][j]
  <2> TAKE k \in 1 .. n
  <2> TAKE j \in 1 .. size
  <2>1. j \in 1 .. size + Len(nalus[k]) /\ j <= size BY <1>1
  <2>2. QED BY <1>11, <2>1
<1>13. \A k \in 1 .. n : \A j \in 1 .. Len(nalus[k]) : data[at[k - 1] + size + j] = nalus[k][j]
  <2> TAKE k \in 1 .. n
  <2> TAKE j \in 1 .. Len(nalus[k])
  <2>1. size + j \in 1 .. size + Len(nalus[k]) /\ ~(size + j <= size) /\ (size + j) - size = j
    BY <1>1
  <2>2. at[k - 1] \in Nat BY <1>1, <1>7
  <2>3. at[k - 1] + size + j = at[k - 1] + (size + j) BY <1>1, <2>2
  <2>4. QED BY <1>11, <2>1, <2>3
<1>14. \A i \in 1 .. Len(data) : \E k \in 1 .. n : \E j \in 1 .. size + Len(nalus[k]) :
          i = at[k - 1] + j
  <2> SUFFICES ASSUME NEW i \in 1 .. Len(data)
               PROVE  \E k \in 1 .. n : \E j \in 1 .. size + Len(nalus[k]) : i = at[k - 1] + j
    OBVIOUS
  <2>1. pieces \in Seq(Seq(Bytes)) /\ Layout(data, pieces, at) BY <1>4, <1>5
  <2>2. \E k \in 1 .. Len(pieces) : i - at[k - 1] \in 1 .. Len(pieces[k])
    BY <2>1, LayoutCovers
  <2>3. PICK k \in 1 .. n : i - at[k - 1] \in 1 .. Len(pieces[k]) BY <1>4, <2>2
  <2>4. i - at[k - 1] \in 1 .. size + Len(nalus[k]) BY <1>6, <2>3
  <2>5. at[k - 1] \in Nat /\ i \in Nat /\ i = at[k - 1] + (i - at[k - 1])
    <3>1. at[k - 1] \in Nat BY <1>1, <1>7
    <3>2. i \in Nat BY <1>10, LenProperties
    <3>3. QED BY <3>1, <3>2
  <2>6. QED BY <2>4, <2>5
<1>15. FramedAt(data, nalus, marks, size, at)
  BY <1>7, <1>8, <1>9, <1>10, <1>12, <1>13, <1>14 DEF FramedAt, n
<1>16. QED BY <1>3, <1>15

\* The positions depend on no mark, only on their size.
LEMMA SamePositions ==
    ASSUME NEW nalus \in Seq(Seq(Bytes)), NEW size \in Nat,
           NEW data, NEW marks, NEW at, FramedAt(data, nalus, marks, size, at),
           NEW other, NEW codes, NEW bt, FramedAt(other, nalus, codes, size, bt)
    PROVE  bt = at
<1> DEFINE n == Len(nalus)
           P == {k \in 0 .. n : bt[k] = at[k]}
<1>1. n \in Nat BY LenProperties
<1>2. /\ at \in [0 .. n -> Nat] /\ bt \in [0 .. n -> Nat] /\ bt[0] = at[0]
      /\ \A k \in 1 .. n : /\ at[k] = at[k - 1] + size + Len(nalus[k])
                           /\ bt[k] = bt[k - 1] + size + Len(nalus[k])
  BY DEF FramedAt
<1> HIDE DEF n
<1>3. 0 \in P BY <1>1, <1>2
<1>4. ASSUME NEW k \in 0 .. n - 1, k \in P PROVE k + 1 \in P
  <2>1. k + 1 \in 1 .. n /\ k + 1 \in 0 .. n /\ (k + 1) - 1 = k BY <1>1
  <2>2. QED BY <1>2, <1>4, <2>1
<1> HIDE DEF P
<1>5. 0 .. n \subseteq P BY <1>1, <1>3, <1>4, Induction
<1>6. \A k \in 0 .. n : bt[k] = at[k] BY <1>5 DEF P
<1>7. at = [k \in 0 .. n |-> at[k]] /\ bt = [k \in 0 .. n |-> bt[k]] BY <1>2
<1>8. QED BY <1>6, <1>7

-----------------------------------------------------------------------------
(* Big-endian lengths.                                                     *)

LEMMA Divided ==
    ASSUME NEW n \in Nat
    PROVE  n \div Base \in Nat /\ n % Base \in Bytes /\ n = (n \div Base) * Base + (n % Base)
<1>1. Base \in Nat /\ Base > 0 BY BaseAssumption
<1>2. n % Base \in 0 .. Base - 1 BY <1>1
<1>3. n \div Base \in Nat BY <1>1
<1>4. n = Base * (n \div Base) + (n % Base) BY <1>1
<1>5. Base * (n \div Base) = (n \div Base) * Base BY <1>1, <1>3
<1>6. QED BY <1>2, <1>3, <1>4, <1>5 DEF Bytes

LEMMA DividedBelow ==
    ASSUME NEW n \in Nat, NEW m \in Nat, n < m * Base
    PROVE  n \div Base < m
<1> DEFINE q == n \div Base
           r == n % Base
<1>1. q \in Nat /\ r \in Nat /\ n = q * Base + r BY Divided DEF Bytes
<1> HIDE DEF q, r
<1>2. ASSUME ~(q < m) PROVE FALSE
  <2>1. PICK d \in Nat : q = m + d
    <3>1. q - m \in Nat /\ q = m + (q - m) BY <1>1, <1>2
    <3>2. QED BY <3>1
  <2>2. q * Base = m * Base + d * Base BY <2>1, BaseAssumption
  <2>3. d * Base \in Nat BY BaseAssumption
  <2>4. m * Base \in Nat BY BaseAssumption
  <2>5. QED BY <1>1, <2>2, <2>3, <2>4
<1>3. QED BY <1>1, <1>2 DEF q

LEMMA Modulo ==
    ASSUME NEW n \in Bytes
    PROVE  n % Base = n
<1>1. n \in Nat /\ n < 1 * Base /\ 1 \in Nat BY BaseAssumption DEF Bytes
<1>2. n \div Base < 1 BY <1>1, DividedBelow
<1>3. n \div Base = 0 BY <1>1, <1>2, Divided
<1>4. n = 0 * Base + (n % Base) BY <1>1, <1>3, Divided
<1>5. n % Base \in Nat BY <1>1, Divided DEF Bytes
<1>6. 0 * Base = 0 BY BaseAssumption
<1>7. QED BY <1>4, <1>5, <1>6

LEMMA BigEndianValue ==
    ASSUME NEW n \in 1 .. Base * Base * Base * Base - 1
    PROVE  /\ BigEndian(n) \in Seq(Bytes) /\ Len(BigEndian(n)) = 4
           /\ Value(BigEndian(n)) = n
<1> DEFINE upper == n \div Base
           high  == upper \div Base
           top   == high \div Base
<1>1. Base \in Nat /\ Base * Base \in Nat /\ Base * Base * Base \in Nat
      /\ Base * Base * Base * Base \in Nat
  BY BaseAssumption
<1>2. n \in Nat /\ n < Base * Base * Base * Base BY <1>1
<1>3. upper \in Nat /\ upper < Base * Base * Base /\ n % Base \in Bytes
      /\ n = upper * Base + (n % Base)
  BY <1>1, <1>2, Divided, DividedBelow
<1> HIDE DEF upper
<1>4. high \in Nat /\ high < Base * Base /\ upper % Base \in Bytes
      /\ upper = high * Base + (upper % Base)
  BY <1>1, <1>3, Divided, DividedBelow
<1> HIDE DEF high
<1>5. top \in Nat /\ top < Base /\ high % Base \in Bytes /\ high = top * Base + (high % Base)
  BY <1>1, <1>4, Divided, DividedBelow
<1> HIDE DEF top
<1>6. top \in Bytes /\ top % Base = top
  <2>1. top \in Bytes BY <1>1, <1>5 DEF Bytes
  <2>2. QED BY <2>1, Modulo
<1>7. BigEndian(n) = <<top % Base, high % Base, upper % Base, n % Base>>
  BY DEF BigEndian, upper, high, top
<1> DEFINE a == top % Base
           b == high % Base
           c == upper % Base
           d == n % Base
           mark == <<a, b, c, d>>
<1>8. /\ a \in Bytes /\ b \in Bytes /\ c \in Bytes /\ d \in Bytes
      /\ high = a * Base + b /\ upper = high * Base + c /\ n = upper * Base + d
  BY <1>3, <1>4, <1>5, <1>6
<1>9. BigEndian(n) = mark BY <1>7
<1> HIDE DEF a, b, c, d
<1>10. mark \in Seq(Bytes) /\ Len(mark) = 4 BY <1>8
<1>11. Value(mark) = ((a * Base + b) * Base + c) * Base + d BY DEF Value
<1>12. Value(mark) = n BY <1>8, <1>11
<1> HIDE DEF mark
<1>13. QED BY <1>9, <1>10, <1>12

-----------------------------------------------------------------------------
(* The conversion.                                                         *)

\* A slice of a buffer.
LEMMA Sliced ==
    ASSUME NEW data \in Seq(Bytes), NEW i \in Nat \ {0}, NEW length \in Nat,
           i + length <= Len(data) + 1
    PROVE  /\ Slice(data, i, length) \in Seq(Bytes) /\ Len(Slice(data, i, length)) = length
           /\ \A j \in 1 .. length : Slice(data, i, length)[j] = data[i + j - 1]
<1> DEFINE final == i + length - 1
<1>1. Len(data) \in Nat /\ \A k \in 1 .. Len(data) : data[k] \in Bytes
  BY LenProperties, ElementOfSeq
<1>2. i \in Int /\ final \in Int /\ final <= Len(data) BY <1>1
<1>3. \A k \in i .. final : data[k] \in Bytes BY <1>1, <1>2
<1> HIDE DEF final
<1>4. /\ SubSeq(data, i, final) \in Seq(Bytes)
      /\ Len(SubSeq(data, i, final)) = IF i <= final THEN final - i + 1 ELSE 0
      /\ \A j \in 1 .. final - i + 1 : SubSeq(data, i, final)[j] = data[i + j - 1]
  BY <1>2, <1>3, SubSeqProperties
<1>5. final - i + 1 = length /\ (i <= final <=> length # 0) BY DEF final
<1>6. Slice(data, i, length) = SubSeq(data, i, final) BY DEF Slice, final
<1>7. QED BY <1>4, <1>5, <1>6

LEMMA ValueNat ==
    ASSUME NEW mark, mark[1] \in Bytes, mark[2] \in Bytes, mark[3] \in Bytes, mark[4] \in Bytes
    PROVE  Value(mark) \in Nat
<1> DEFINE a == mark[1]
           b == mark[2]
           c == mark[3]
           d == mark[4]
           upper == a * Base + b
           high == upper * Base + c
<1>1. Base \in Nat BY BaseAssumption
<1>2. a \in Nat /\ b \in Nat /\ c \in Nat /\ d \in Nat BY <1>1 DEF Bytes
<1> HIDE DEF a, b, c, d
<1>3. upper \in Nat
  <2>1. a * Base \in Nat BY <1>1, <1>2
  <2>2. QED BY <1>2, <2>1
<1> HIDE DEF upper
<1>4. high \in Nat
  <2>1. upper * Base \in Nat BY <1>1, <1>3
  <2>2. QED BY <1>2, <2>1
<1> HIDE DEF high
<1>5. high * Base + d \in Nat
  <2>1. high * Base \in Nat BY <1>1, <1>4
  <2>2. QED BY <1>2, <2>1
<1>6. QED BY <1>5 DEF Value, high, upper, a, b, c, d

\* The loop of the conversion is well defined.
LEMMA ReframedStep ==
    ASSUME NEW avcc \in Seq(Bytes), NEW i \in 1 .. Len(avcc) + 1
    PROVE  Reframed(avcc)[i] =
             IF i = Len(avcc) + 1 THEN {<<>>}
             ELSE IF i + 4 > Len(avcc) + 1 THEN {}
             ELSE LET length == Value(Slice(avcc, i, 4))
                      next   == i + 4 + length
                  IN  IF length < 1 \/ next > Len(avcc) + 1 THEN {}
                      ELSE {LongCode \o Slice(avcc, i + 4, length) \o others :
                               others \in Reframed(avcc)[next]}
<1> DEFINE end == Len(avcc) + 1
           length(k) == Value(Slice(avcc, k, 4))
           next(k) == k + 4 + length(k)
           Behind(k, all) == {LongCode \o Slice(avcc, k + 4, length(k)) \o others : others \in all}
           Body(f, k) == IF k = end THEN {<<>>}
                         ELSE IF k + 4 > end THEN {}
                         ELSE IF length(k) < 1 \/ next(k) > end THEN {}
                         ELSE Behind(k, f[next(k)])
           P == {m \in 0 .. end : \E f : /\ f = [k \in 1 .. end |-> f[k]]
                                         /\ \A k \in end + 1 - m .. end : f[k] = Body(f, k)}
<1>1. end \in Nat \ {0} BY LenProperties
<1>2. \A k \in 1 .. end : k + 4 <= end => length(k) \in Nat
  <2> TAKE k \in 1 .. end
  <2> HAVE k + 4 <= end
  <2>1. k \in Nat \ {0} /\ 4 \in Nat /\ k + 4 <= Len(avcc) + 1 BY <1>1
  <2>2. Slice(avcc, k, 4) \in Seq(Bytes) /\ Len(Slice(avcc, k, 4)) = 4 BY <2>1, Sliced
  <2> DEFINE mark == Slice(avcc, k, 4)
  <2>3. mark \in Seq(Bytes) /\ Len(mark) = 4 BY <2>2
  <2> HIDE DEF mark
  <2>4. mark[1] \in Bytes /\ mark[2] \in Bytes /\ mark[3] \in Bytes /\ mark[4] \in Bytes
    <3>1. \A j \in 1 .. 4 : mark[j] \in Bytes BY <2>3, ElementOfSeq
    <3>2. QED BY <3>1
  <2>5. Value(mark) \in Nat BY <2>4, ValueNat
  <2>6. QED BY <2>5 DEF mark, length
<1> HIDE DEF end, length
<1>3. 0 \in P
  <2> DEFINE f == [k \in 1 .. end |-> {}]
  <2>1. f = [k \in 1 .. end |-> f[k]] OBVIOUS
  <2>2. end + 1 - 0 .. end = {} BY <1>1
  <2> HIDE DEF f, Body
  <2>3. QED BY <1>1, <2>1, <2>2
<1>4. ASSUME NEW m \in 0 .. end - 1, m \in P PROVE m + 1 \in P
  <2> HIDE DEF Behind
  <2>1. PICK f : f = [k \in 1 .. end |-> f[k]] /\ \A k \in end + 1 - m .. end : f[k] = Body(f, k)
    BY <1>4
  <2> DEFINE at == end - m
             g == [k \in 1 .. end |-> IF k = at THEN Body(f, at) ELSE f[k]]
  <2>2. at \in 1 .. end /\ end + 1 - m = at + 1 /\ end + 1 - (m + 1) = at BY <1>1
  <2> HIDE DEF at
  <2>3. ASSUME NEW k \in at .. end PROVE g[k] = Body(g, k)
    <3>1. k \in 1 .. end BY <1>1, <2>2
    <3>2. ASSUME k + 4 <= end, ~(length(k) < 1), ~(next(k) > end) PROVE g[next(k)] = f[next(k)]
      <4>1. next(k) \in 1 .. end /\ next(k) # at BY <1>1, <1>2, <2>2, <3>1, <3>2
      <4> HIDE DEF next, Body
      <4>2. QED BY <4>1
    <3>3. Body(g, k) = Body(f, k)
      <4> HIDE DEF g, next
      <4>1. ~(k + 4 > end) => k + 4 <= end BY <1>1, <3>1
      <4>2. QED BY <3>2, <4>1
    <3>4. g[k] = Body(f, k)
      <4> HIDE DEF Body
      <4>1. CASE k = at BY <3>1, <4>1
      <4>2. CASE k # at
        <5>1. k \in end + 1 - m .. end BY <2>2, <4>2
        <5>2. QED BY <2>1, <3>1, <4>2, <5>1
      <4>3. QED BY <4>1, <4>2
    <3>5. QED BY <3>3, <3>4
  <2>4. g = [k \in 1 .. end |-> g[k]] OBVIOUS
  <2>5. m + 1 \in 0 .. end BY <1>1
  <2> HIDE DEF g, Body
  <2>6. QED BY <2>2, <2>3, <2>4, <2>5
<1>5. \E f : f = [k \in 1 .. end |-> Body(f, k)]
  <2>1. end \in P
    <3> HIDE DEF P
    <3>1. 0 .. end \subseteq P BY <1>1, <1>3, <1>4, Induction
    <3>2. QED BY <1>1, <3>1
  <2> HIDE DEF Body
  <2>2. end + 1 - end = 1 BY <1>1
  <2>3. QED BY <2>1, <2>2
<1> HIDE DEF P
<1> DEFINE rest[k \in 1 .. end] == Body(rest, k)
<1>6. rest = [k \in 1 .. end |-> Body(rest, k)]
  <2> SUFFICES \E g : g = [k \in 1 .. end |-> Body(g, k)] OBVIOUS
  <2> QED BY <1>5
<1>7. Reframed(avcc) = rest BY DEF Reframed, end, length
<1> HIDE DEF rest
<1>8. Reframed(avcc)[i] = Body(Reframed(avcc), i)
  <2> HIDE DEF Body
  <2>1. i \in 1 .. end BY DEF end
  <2>2. QED BY <1>6, <1>7, <2>1
<1>9. QED BY <1>8 DEF end, length

\* What the loop adds before what it makes of the rest.
Behind(nalu, all) == {LongCode \o nalu \o others : others \in all}

LEMMA ReframedEnd ==
    ASSUME NEW avcc \in Seq(Bytes)
    PROVE  Reframed(avcc)[Len(avcc) + 1] = {<<>>}
<1> Len(avcc) + 1 \in 1 .. Len(avcc) + 1 BY LenProperties
<1> QED BY ReframedStep

LEMMA ReframedNext ==
    ASSUME NEW avcc \in Seq(Bytes), NEW i \in 1 .. Len(avcc), i + 4 <= Len(avcc) + 1,
           NEW length \in Nat \ {0}, Value(Slice(avcc, i, 4)) = length
    PROVE  Reframed(avcc)[i] =
             IF i + 4 + length > Len(avcc) + 1 THEN {}
             ELSE Behind(Slice(avcc, i + 4, length), Reframed(avcc)[i + 4 + length])
<1>1. Len(avcc) \in Nat BY LenProperties
<1>2. i \in 1 .. Len(avcc) + 1 /\ i # Len(avcc) + 1 /\ ~(i + 4 > Len(avcc) + 1) /\ ~(length < 1)
  BY <1>1
<1>3. Reframed(avcc)[i] =
         IF i = Len(avcc) + 1 THEN {<<>>}
         ELSE IF i + 4 > Len(avcc) + 1 THEN {}
         ELSE IF length < 1 \/ i + 4 + length > Len(avcc) + 1 THEN {}
         ELSE {LongCode \o Slice(avcc, i + 4, length) \o others :
                 others \in Reframed(avcc)[i + 4 + length]}
  <2> DEFINE value == Value(Slice(avcc, i, 4))
  <2>1. Reframed(avcc)[i] =
          IF i = Len(avcc) + 1 THEN {<<>>}
          ELSE IF i + 4 > Len(avcc) + 1 THEN {}
          ELSE IF value < 1 \/ i + 4 + value > Len(avcc) + 1 THEN {}
          ELSE {LongCode \o Slice(avcc, i + 4, value) \o others :
                  others \in Reframed(avcc)[i + 4 + value]}
    BY <1>2, ReframedStep
  <2>2. QED BY <2>1
<1>4. QED BY <1>2, <1>3 DEF Behind

\* A buffer, or what is left of it when its end is cut off.
Begins(data, framed) ==
    data \in Seq(Bytes) /\ \A i \in 1 .. Len(data) : data[i] = framed[i]

\* Where the k-th mark and the k-th NALU are read.
LEMMA MarkRead ==
    ASSUME NEW nalus \in Seq(Seq(Bytes)), NEW size \in Nat, NEW marks, NEW framed, NEW at,
           FramedAt(framed, nalus, marks, size, at),
           NEW data, Begins(data, framed),
           NEW k \in 1 .. Len(nalus), marks[k] \in Seq(Bytes), Len(marks[k]) = size,
           at[k - 1] + size <= Len(data)
    PROVE  Slice(data, at[k - 1] + 1, size) = marks[k]
<1> DEFINE p == at[k - 1]
           L == Len(data)
           i == p + 1
<1>1. p \in Nat
  <2>1. k - 1 \in 0 .. Len(nalus) BY LenProperties
  <2>2. QED BY <2>1 DEF FramedAt
<1>2. data \in Seq(Bytes) /\ L \in Nat BY LenProperties DEF Begins
<1>3. \A j \in 1 .. size : framed[p + j] = marks[k][j] BY DEF FramedAt
<1>4. \A j \in 1 .. L : data[j] = framed[j] BY DEF Begins
<1>5. p + size <= L OBVIOUS
<1> HIDE DEF p, L
<1>6. \A j \in 1 .. size : data[i + j - 1] = marks[k][j]
  <2> TAKE j \in 1 .. size
  <2>1. i + j - 1 = p + j /\ p + j \in 1 .. L BY <1>1, <1>2, <1>5
  <2>2. QED BY <1>3, <1>4, <2>1
<1>7. i \in Nat \ {0} /\ i + size <= L + 1 BY <1>1, <1>2, <1>5
<1> HIDE DEF i
<1> DEFINE read == Slice(data, i, size)
<1>8. /\ read \in Seq(Bytes) /\ Len(read) = size
      /\ \A j \in 1 .. size : read[j] = data[i + j - 1]
  BY <1>2, <1>7, Sliced DEF L
<1> HIDE DEF read
<1>9. \A j \in 1 .. size : read[j] = marks[k][j] BY <1>6, <1>8
<1>10. read = marks[k] BY <1>8, <1>9, SeqEqual
<1>11. QED BY <1>10 DEF read, i, p

LEMMA NaluRead ==
    ASSUME NEW nalus \in Seq(Seq(Bytes)), NEW size \in Nat, NEW marks, NEW framed, NEW at,
           FramedAt(framed, nalus, marks, size, at),
           NEW data, Begins(data, framed),
           NEW k \in 1 .. Len(nalus), at[k] <= Len(data)
    PROVE  Slice(data, at[k - 1] + size + 1, Len(nalus[k])) = nalus[k]
<1> DEFINE p == at[k - 1]
           q == at[k]
           L == Len(data)
           i == p + size + 1
           nalu == nalus[k]
           length == Len(nalu)
<1>1. p \in Nat
  <2>1. k - 1 \in 0 .. Len(nalus) BY LenProperties
  <2>2. QED BY <2>1 DEF FramedAt
<1>2. data \in Seq(Bytes) /\ L \in Nat BY LenProperties DEF Begins
<1>3. nalu \in Seq(Bytes) /\ length \in Nat BY LenProperties, ElementOfSeq
<1>4. q = p + size + length /\ q <= L BY DEF FramedAt
<1>5. \A j \in 1 .. length : framed[p + size + j] = nalu[j] BY DEF FramedAt
<1>6. \A j \in 1 .. L : data[j] = framed[j] BY DEF Begins
<1> HIDE DEF p, q, L, nalu, length
<1>7. \A j \in 1 .. length : data[i + j - 1] = nalu[j]
  <2> TAKE j \in 1 .. length
  <2>1. i + j - 1 = p + size + j /\ p + size + j \in 1 .. L BY <1>1, <1>2, <1>3, <1>4
  <2>2. QED BY <1>5, <1>6, <2>1
<1>8. i \in Nat \ {0} /\ i + length <= L + 1 BY <1>1, <1>2, <1>3, <1>4
<1> HIDE DEF i
<1> DEFINE read == Slice(data, i, length)
<1>9. /\ read \in Seq(Bytes) /\ Len(read) = length
      /\ \A j \in 1 .. length : read[j] = data[i + j - 1]
  BY <1>2, <1>3, <1>8, Sliced DEF L
<1> HIDE DEF read
<1>10. \A j \in 1 .. length : read[j] = nalu[j] BY <1>7, <1>9
<1>11. read = nalu BY <1>3, <1>9, <1>10, SeqEqual DEF length
<1>12. QED BY <1>11 DEF read, i, p, nalu, length

\* The lengths before the NALUs of an access unit, as marks.
Lengths(nalus) == [k \in DOMAIN nalus |-> BigEndian(Len(nalus[k]))]

SoundUnit(nalus) ==
    /\ nalus \in Seq(Seq(Bytes)) \ {<<>>}
    /\ \A k \in DOMAIN nalus : Sound(nalus[k])

LEMMA LengthMarks ==
    ASSUME NEW nalus, SoundUnit(nalus), NEW k \in 1 .. Len(nalus)
    PROVE  /\ nalus[k] \in Seq(Bytes) /\ Len(nalus[k]) \in Nat \ {0}
           /\ Lengths(nalus)[k] \in Seq(Bytes) /\ Len(Lengths(nalus)[k]) = 4
           /\ Value(Lengths(nalus)[k]) = Len(nalus[k])
<1>1. DOMAIN nalus = 1 .. Len(nalus) BY LenProperties DEF SoundUnit
<1>2. Sound(nalus[k]) BY <1>1 DEF SoundUnit
<1>3. nalus[k] \in Seq(Bytes) /\ Len(nalus[k]) \in 1 .. Base * Base * Base * Base - 1
  BY <1>2 DEF Sound
<1>4. Len(nalus[k]) \in Nat \ {0} BY <1>3, LenProperties
<1>5. Lengths(nalus)[k] = BigEndian(Len(nalus[k])) BY <1>1 DEF Lengths
<1>6. QED BY <1>3, <1>4, <1>5, BigEndianValue

\* What the conversion makes of the part that begins with the k-th NALU.
LEMMA ReframedFrom ==
    ASSUME NEW nalus, SoundUnit(nalus), NEW avcc, NEW at,
           FramedAt(avcc, nalus, Lengths(nalus), 4, at),
           NEW data, Begins(data, avcc),
           at[Len(nalus)] <= Len(data) + 1, NEW k \in 1 .. Len(nalus)
    PROVE  Reframed(data)[at[k - 1] + 1] =
             IF at[k] > Len(data) THEN {}
             ELSE Behind(nalus[k], Reframed(data)[at[k] + 1])
<1> DEFINE n == Len(nalus)
           p == at[k - 1]
           q == at[k]
           L == Len(data)
           i == p + 1
           length == Len(nalus[k])
<1>1. nalus \in Seq(Seq(Bytes)) /\ n \in Nat BY LenProperties DEF SoundUnit
<1>2. /\ nalus[k] \in Seq(Bytes) /\ length \in Nat \ {0}
      /\ Lengths(nalus)[k] \in Seq(Bytes) /\ Len(Lengths(nalus)[k]) = 4
      /\ Value(Lengths(nalus)[k]) = length
  BY LengthMarks
<1>3. data \in Seq(Bytes) /\ L \in Nat BY LenProperties DEF Begins
<1>4. p \in Nat /\ q \in Nat /\ at[n] \in Nat
  <2>1. k - 1 \in 0 .. n /\ k \in 0 .. n /\ n \in 0 .. n BY <1>1
  <2>2. QED BY <2>1 DEF FramedAt
<1>5. q = p + 4 + length /\ q <= at[n] /\ at[n] <= L + 1
  <2>1. k \in 0 .. n /\ n \in k .. n BY <1>1
  <2>2. QED BY <2>1 DEF FramedAt
<1>6. k \in 1 .. n OBVIOUS
<1> HIDE DEF p, q, L, n, length
<1>7. p + 4 <= L BY <1>2, <1>3, <1>4, <1>5
<1>8. i \in 1 .. L + 1 /\ i # L + 1 /\ ~(i + 4 > L + 1)
      /\ i + 4 + length = q + 1 /\ i + 4 = p + 4 + 1
  BY <1>2, <1>3, <1>4, <1>5, <1>7
<1>9. Slice(data, p + 1, 4) = Lengths(nalus)[k]
  <2> DEFINE marks == Lengths(nalus)
  <2>1. PICK size \in Nat : size = 4 OBVIOUS
  <2>2. FramedAt(avcc, nalus, marks, size, at) /\ marks[k] \in Seq(Bytes) /\ Len(marks[k]) = size
    BY <1>2, <2>1
  <2>3. at[k - 1] + size <= Len(data) BY <1>7, <2>1 DEF p, L
  <2> HIDE DEF marks
  <2>4. Slice(data, at[k - 1] + 1, size) = marks[k]
    BY <1>1, <2>2, <2>3, MarkRead
  <2>5. QED BY <2>1, <2>4 DEF marks, p
<1>10. q <= L => Slice(data, i + 4, length) = nalus[k]
  <2> HAVE q <= L
  <2>1. 4 \in Nat OBVIOUS
  <2>2. Slice(data, p + 4 + 1, length) = nalus[k]
    BY <1>1, <2>1, NaluRead DEF p, q, L, length
  <2>3. QED BY <1>8, <2>2
<1>11. Value(Slice(data, i, 4)) = length BY <1>2, <1>9
<1> HIDE DEF i
<1>12. Reframed(data)[i] =
         IF i + 4 + length > L + 1 THEN {}
         ELSE Behind(Slice(data, i + 4, length), Reframed(data)[i + 4 + length])
  <2>1. i \in 1 .. L /\ i + 4 <= L + 1 BY <1>3, <1>8
  <2>2. QED BY <1>2, <1>3, <1>11, <2>1, ReframedNext DEF L
<1>13. Reframed(data)[i] =
         IF q + 1 > L + 1 THEN {} ELSE Behind(Slice(data, i + 4, length), Reframed(data)[q + 1])
  BY <1>8, <1>12
<1>14. (q + 1 > L + 1 <=> q > L) /\ (~(q > L) => q <= L) BY <1>3, <1>4
<1>15. Reframed(data)[i] = IF q > L THEN {} ELSE Behind(nalus[k], Reframed(data)[q + 1])
  BY <1>10, <1>13, <1>14
<1>16. QED BY <1>15 DEF i, p, q, L

LEMMA UnitProperties ==
    ASSUME NEW nalus, SoundUnit(nalus)
    PROVE  /\ nalus \in Seq(Seq(Bytes)) /\ nalus # <<>> /\ Len(nalus) \in Nat \ {0}
           /\ DOMAIN nalus = 1 .. Len(nalus)
BY EmptySeq, LenProperties DEF SoundUnit

LEMMA LengthLayout ==
    ASSUME NEW nalus, SoundUnit(nalus)
    PROVE  \E at : FramedAt(LengthFramed(nalus), nalus, Lengths(nalus), 4, at)
<1>1. nalus \in Seq(Seq(Bytes)) /\ nalus # <<>> BY UnitProperties
<1> DEFINE marks == Lengths(nalus)
<1>2. PICK size \in Nat : size = 4 OBVIOUS
<1>3. \A k \in 1 .. Len(nalus) : marks[k] \in Seq(Bytes) /\ Len(marks[k]) = size
  BY <1>2, LengthMarks
<1>4. LengthFramed(nalus) = Framed(nalus, marks) BY DEF LengthFramed, Lengths
<1> HIDE DEF marks
<1>5. \E at : FramedAt(Framed(nalus, marks), nalus, marks, size, at)
  BY <1>1, <1>3, FramedLayout
<1>6. QED BY <1>2, <1>4, <1>5 DEF marks

\* The marks of an access unit in Annex B.
Codes(nalus, code) == [k \in DOMAIN nalus |-> code]

LEMMA CodeLayout ==
    ASSUME NEW nalus, SoundUnit(nalus), NEW code \in Seq(Bytes)
    PROVE  \E at : FramedAt(CodeFramed(nalus, code), nalus, Codes(nalus, code), Len(code), at)
<1>1. nalus \in Seq(Seq(Bytes)) /\ nalus # <<>> /\ DOMAIN nalus = 1 .. Len(nalus)
  BY UnitProperties
<1> DEFINE marks == Codes(nalus, code)
           size  == Len(code)
<1>2. \A k \in 1 .. Len(nalus) : marks[k] \in Seq(Bytes) /\ Len(marks[k]) = size
  BY <1>1 DEF Codes
<1>3. CodeFramed(nalus, code) = Framed(nalus, marks) BY DEF CodeFramed, Codes
<1>4. size \in Nat BY LenProperties
<1> HIDE DEF marks, size
<1>5. \E at : FramedAt(Framed(nalus, marks), nalus, marks, size, at)
  BY <1>1, <1>2, <1>4, FramedLayout
<1>6. QED BY <1>3, <1>5 DEF marks, size

LEMMA LongCodeProperties == LongCode \in Seq(Bytes) /\ Len(LongCode) = 4
<1>1. 0 \in Bytes /\ 1 \in Bytes BY BaseAssumption DEF Bytes
<1>2. QED BY <1>1 DEF LongCode

\* Two slices that meet are one.
LEMMA Adjacent ==
    ASSUME NEW data \in Seq(Bytes), NEW i \in Nat, NEW j \in Nat, NEW k \in Nat,
           i <= j, j <= k, k <= Len(data)
    PROVE  SubSeq(data, i + 1, j) \o SubSeq(data, j + 1, k) = SubSeq(data, i + 1, k)
<1>1. Len(data) \in Nat BY LenProperties
<1>2. i + 1 \in 1 .. Len(data) + 1 /\ j \in (i + 1) - 1 .. Len(data) /\ k \in j .. Len(data)
  BY <1>1
<1>3. QED BY <1>2, ConcatAdjacentSubSeq

\* An access unit in AVCC becomes the same one in Annex B, with long start codes.
LEMMA Converted ==
    ASSUME NEW nalus, SoundUnit(nalus)
    PROVE  AVCCToAnnexB(LengthFramed(nalus)) = {CodeFramed(nalus, LongCode)}
<1> DEFINE n == Len(nalus)
           avcc == LengthFramed(nalus)
           annexB == CodeFramed(nalus, LongCode)
           codes == Codes(nalus, LongCode)
<1>1. nalus \in Seq(Seq(Bytes)) /\ n \in Nat \ {0} /\ DOMAIN nalus = 1 .. n BY UnitProperties
<1>2. PICK at : FramedAt(avcc, nalus, Lengths(nalus), 4, at) BY LengthLayout
<1>3. FramedAt(annexB, nalus, codes, 4, at)
  <2>1. PICK bt : FramedAt(annexB, nalus, codes, Len(LongCode), bt)
    BY CodeLayout, LongCodeProperties
  <2>2. PICK size \in Nat : size = 4 OBVIOUS
  <2>3. FramedAt(annexB, nalus, codes, size, bt) BY <2>1, <2>2, LongCodeProperties
  <2>4. FramedAt(avcc, nalus, Lengths(nalus), size, at) BY <1>2, <2>2
  <2> DEFINE marks == Lengths(nalus)
  <2> HIDE DEF avcc, annexB, codes, marks
  <2>5. bt = at BY <1>1, <2>3, <2>4, SamePositions DEF marks
  <2>6. QED BY <2>2, <2>3, <2>5
<1> HIDE DEF avcc, annexB, n
<1> DEFINE end == at[n]
           rest == Reframed(avcc)
           P == {d \in 0 .. n : rest[at[n - d] + 1] = {SubSeq(annexB, at[n - d] + 1, end)}}
<1>4. /\ avcc \in Seq(Bytes) /\ Len(avcc) = end /\ annexB \in Seq(Bytes) /\ Len(annexB) = end
      /\ \A k \in 0 .. n : at[k] \in Nat /\ at[k] <= end
  <2>1. \A k \in 0 .. n : at[k] \in Nat BY <1>2 DEF FramedAt, n
  <2>2. \A k \in 0 .. n : at[k] <= at[n]
    <3> TAKE k \in 0 .. n
    <3>1. n \in k .. n BY <1>1
    <3>2. QED BY <1>2, <3>1 DEF FramedAt, n
  <2>3. QED BY <1>2, <1>3, <2>1, <2>2 DEF FramedAt, n
<1>5. at[0] = 0 BY <1>2 DEF FramedAt
<1>6. Begins(avcc, avcc) /\ Begins(annexB, annexB) BY <1>4 DEF Begins
<1>7. end \in Nat BY <1>1, <1>4
<1> HIDE DEF end
<1>8. 0 \in P
  <2>1. rest[end + 1] = {<<>>} BY <1>4, ReframedEnd
  <2>2. SubSeq(annexB, end + 1, end) = <<>> BY <1>7, SubSeqEmpty
  <2>3. n - 0 = n BY <1>1
  <2>4. at[n - 0] = end BY <2>3 DEF end
  <2>5. 0 \in 0 .. n BY <1>1
  <2> HIDE DEF rest
  <2>6. rest[at[n - 0] + 1] = {SubSeq(annexB, at[n - 0] + 1, end)} BY <2>1, <2>2, <2>4
  <2>7. QED BY <2>5, <2>6
<1>9. ASSUME NEW d \in 0 .. n - 1, d \in P PROVE d + 1 \in P
  <2> DEFINE k == n - d
             p == at[k - 1]
             q == at[k]
             others == SubSeq(annexB, q + 1, end)
  <2>1. k \in 1 .. n /\ n - (d + 1) = k - 1 /\ d + 1 \in 0 .. n BY <1>1
  <2>2. p \in Nat /\ q \in Nat /\ q <= end
    <3>1. k - 1 \in 0 .. n /\ k \in 0 .. n BY <1>1, <2>1
    <3>2. QED BY <1>4, <3>1
  <2>3. rest[q + 1] = {others} BY <1>9
  <2> HIDE DEF k
  <2>4. nalus[k] \in Seq(Bytes) /\ Len(nalus[k]) \in Nat /\ q = p + 4 + Len(nalus[k])
    <3>1. nalus[k] \in Seq(Bytes) BY <1>1, <2>1, ElementOfSeq DEF n
    <3>2. q = p + 4 + Len(nalus[k]) BY <1>2, <2>1 DEF FramedAt, n
    <3>3. QED BY <3>1, <3>2, LenProperties
  <2>5. rest[p + 1] = Behind(nalus[k], rest[q + 1])
    <3>1. rest[p + 1] = IF q > Len(avcc) THEN {} ELSE Behind(nalus[k], rest[q + 1])
      <4>1. k \in 1 .. Len(nalus) /\ at[Len(nalus)] <= Len(avcc) + 1
        BY <1>4, <1>7, <2>1 DEF n, end
      <4>2. QED BY <1>2, <1>6, <4>1, ReframedFrom
    <3>2. ~(q > Len(avcc)) BY <1>4, <1>7, <2>2
    <3>3. QED BY <3>1, <3>2
  <2>6. SubSeq(annexB, p + 1, p + 4) = LongCode
    <3>1. PICK size \in Nat : size = 4 OBVIOUS
    <3>2. FramedAt(annexB, nalus, codes, size, at) BY <1>3, <3>1
    <3>3. codes[k] = LongCode BY <1>1, <2>1 DEF Codes
    <3>4. codes[k] \in Seq(Bytes) /\ Len(codes[k]) = size
      BY <3>1, <3>3, LongCodeProperties
    <3>5. at[k - 1] + size <= Len(annexB) BY <1>4, <1>7, <2>2, <2>4, <3>1
    <3>6. k \in 1 .. Len(nalus) BY <2>1 DEF n
    <3> HIDE DEF codes
    <3>7. Slice(annexB, at[k - 1] + 1, size) = codes[k]
      BY <1>1, <1>6, <3>2, <3>4, <3>5, <3>6, MarkRead
    <3>8. (p + 1) + 4 - 1 = p + 4 BY <2>2
    <3>9. QED BY <3>1, <3>3, <3>7, <3>8 DEF Slice
  <2>7. SubSeq(annexB, p + 4 + 1, q) = nalus[k]
    <3>1. PICK size \in Nat : size = 4 OBVIOUS
    <3>2. FramedAt(annexB, nalus, codes, size, at) BY <1>3, <3>1
    <3>3. k \in 1 .. Len(nalus) /\ at[k] <= Len(annexB) BY <1>4, <2>1, <2>2 DEF n
    <3> HIDE DEF codes
    <3>4. Slice(annexB, at[k - 1] + size + 1, Len(nalus[k])) = nalus[k]
      BY <1>1, <1>6, <3>2, <3>3, NaluRead
    <3>5. (p + 4 + 1) + Len(nalus[k]) - 1 = q
      <4> DEFINE length == Len(nalus[k])
      <4> HIDE DEF p, q, length
      <4>1. length \in Nat /\ q = p + 4 + length BY <2>4 DEF length
      <4>2. (p + 4 + 1) + length - 1 = q BY <2>2, <4>1
      <4>3. QED BY <4>2 DEF length
    <3>6. QED BY <3>1, <3>4, <3>5 DEF Slice
  <2>8. SubSeq(annexB, p + 1, p + 4) \o SubSeq(annexB, p + 4 + 1, q) = SubSeq(annexB, p + 1, q)
    <3>1. p + 4 \in Nat /\ p <= p + 4 /\ p + 4 <= q BY <2>2, <2>4
    <3>2. annexB \in Seq(Bytes) /\ q <= Len(annexB) BY <1>4, <1>7, <2>2
    <3> HIDE DEF p, q
    <3>3. QED BY <2>2, <3>1, <3>2, Adjacent
  <2>9. SubSeq(annexB, p + 1, q) \o others = SubSeq(annexB, p + 1, end)
    <3>1. p <= q BY <2>2, <2>4
    <3>2. annexB \in Seq(Bytes) /\ end <= Len(annexB) BY <1>4, <1>7
    <3> HIDE DEF p, q
    <3>3. QED BY <1>7, <2>2, <3>1, <3>2, Adjacent
  <2>10. LongCode \o nalus[k] \o others = SubSeq(annexB, p + 1, end)
    BY <2>6, <2>7, <2>8, <2>9
  <2> HIDE DEF others, p, q
  <2>11. rest[p + 1] = {SubSeq(annexB, p + 1, end)}
    BY <2>3, <2>5, <2>10 DEF Behind
  <2>12. QED BY <2>1, <2>11 DEF p
<1> HIDE DEF P
<1>10. n \in P
  <2>1. 0 .. n \subseteq P BY <1>1, <1>8, <1>9, Induction
  <2>2. QED BY <1>1, <2>1
<1>11. rest[0 + 1] = {SubSeq(annexB, 0 + 1, end)}
  <2>1. n - n = 0 BY <1>1
  <2>2. QED BY <1>5, <1>10, <2>1 DEF P
<1>12. SubSeq(annexB, 1, end) = annexB BY <1>4, SubSeqFull
<1>13. rest[1] = {annexB}
  <2>1. 0 + 1 = 1 OBVIOUS
  <2> HIDE DEF rest
  <2>2. QED BY <1>11, <1>12, <2>1
<1>14. avcc # <<>>
  <2>1. at[1] = at[1 - 1] + 4 + Len(nalus[1]) BY <1>1, <1>2 DEF FramedAt, n
  <2>2. at[1] \in Nat /\ at[1] <= end /\ Len(nalus[1]) \in Nat
    <3>1. 1 \in 0 .. n /\ 1 \in 1 .. Len(nalus) BY <1>1 DEF n
    <3>2. QED BY <1>4, <3>1, LengthMarks
  <2>3. Len(avcc) # 0 BY <1>4, <1>5, <1>7, <2>1, <2>2
  <2>4. QED BY <2>3, EmptySeq
<1>15. QED BY <1>13, <1>14 DEF AVCCToAnnexB, avcc, annexB

\* One whose end is cut off becomes nothing.
LEMMA CutRejected ==
    ASSUME NEW nalus, SoundUnit(nalus)
    PROVE  /\ Begins(Front(LengthFramed(nalus)), LengthFramed(nalus))
           /\ Len(Front(LengthFramed(nalus))) + 1 = Len(LengthFramed(nalus))
           /\ AVCCToAnnexB(Front(LengthFramed(nalus))) = {}
<1> DEFINE n == Len(nalus)
           avcc == LengthFramed(nalus)
           data == Front(avcc)
           L == Len(data)
           rest == Reframed(data)
<1>1. nalus \in Seq(Seq(Bytes)) /\ n \in Nat \ {0} BY UnitProperties
<1>2. PICK at : FramedAt(avcc, nalus, Lengths(nalus), 4, at) BY LengthLayout
<1> HIDE DEF avcc, n
<1>3. /\ avcc \in Seq(Bytes) /\ Len(avcc) = at[n] /\ at[0] = 0
      /\ \A k \in 0 .. n : at[k] \in Nat
      /\ \A k \in 1 .. n : at[k] = at[k - 1] + 4 + Len(nalus[k]) /\ Len(nalus[k]) \in Nat \ {0}
  <2>1. \A k \in 1 .. n : Len(nalus[k]) \in Nat \ {0} BY LengthMarks DEF n
  <2>2. QED BY <1>2, <2>1 DEF FramedAt, n
<1>4. /\ data \in Seq(Bytes) /\ \A i \in 1 .. L : data[i] = avcc[i]
      /\ L \in Nat /\ L + 1 = at[n]
  <2>1. at[n] > 0
    <3>1. n \in 1 .. n /\ n - 1 \in 0 .. n BY <1>1
    <3>2. QED BY <1>3, <3>1
  <2>2. at[n] \in Nat BY <1>1, <1>3
  <2>3. /\ SubSeq(avcc, 1, at[n] - 1) \in Seq(Bytes)
        /\ Len(SubSeq(avcc, 1, at[n] - 1)) = IF 1 <= at[n] - 1 THEN at[n] - 1 - 1 + 1 ELSE 0
        /\ \A i \in 1 .. at[n] - 1 - 1 + 1 : SubSeq(avcc, 1, at[n] - 1)[i] = avcc[1 + i - 1]
    <3> DEFINE final == at[n] - 1
    <3>1. final \in Int /\ final <= Len(avcc) BY <1>3, <2>2
    <3> HIDE DEF final
    <3>2. \A i \in 1 .. final : avcc[i] \in Bytes
      <4> TAKE i \in 1 .. final
      <4>1. i \in 1 .. Len(avcc) BY <1>3, <2>2, <3>1
      <4>2. QED BY <1>3, <4>1, ElementOfSeq
    <3>3. 1 \in Int OBVIOUS
    <3>4. QED BY <3>1, <3>2, <3>3, SubSeqProperties DEF final
  <2>4. data = SubSeq(avcc, 1, at[n] - 1) BY <1>3 DEF Front
  <2>5. L = at[n] - 1 BY <2>1, <2>2, <2>3, <2>4
  <2>6. \A i \in 1 .. L : data[i] = avcc[i]
    <3> TAKE i \in 1 .. L
    <3>1. i \in 1 .. at[n] - 1 - 1 + 1 /\ 1 + i - 1 = i BY <2>2, <2>5
    <3>2. QED BY <2>3, <2>4, <3>1
  <2>7. QED BY <2>1, <2>2, <2>3, <2>4, <2>5, <2>6
<1>5. Begins(data, avcc) BY <1>4 DEF Begins
<1> HIDE DEF data, L, rest
<1>6. ASSUME NEW k \in 1 .. n
      PROVE  rest[at[k - 1] + 1] = IF at[k] > L THEN {} ELSE Behind(nalus[k], rest[at[k] + 1])
  <2>1. k \in 1 .. Len(nalus) /\ at[Len(nalus)] <= L + 1 BY <1>1, <1>3, <1>4 DEF n
  <2>2. QED BY <1>2, <1>5, <2>1, ReframedFrom DEF rest, L
<1> DEFINE P == {d \in 0 .. n - 1 : rest[at[n - 1 - d] + 1] = {}}
<1>7. 0 \in P
  <2>1. n \in 1 .. n /\ n - 1 - 0 = n - 1 /\ 0 \in 0 .. n - 1 BY <1>1
  <2>2. at[n] > L
    <3>1. at[n] \in Nat BY <1>1, <1>3
    <3>2. QED BY <1>4, <3>1
  <2>3. rest[at[n - 1] + 1] = {} BY <1>6, <2>1, <2>2
  <2>4. QED BY <2>1, <2>3
<1>8. ASSUME NEW d \in 0 .. (n - 1) - 1, d \in P PROVE d + 1 \in P
  <2>1. n - 1 - d \in 1 .. n /\ (n - 1 - d) - 1 = n - 1 - (d + 1) /\ d + 1 \in 0 .. n - 1
    BY <1>1
  <2>2. rest[at[n - 1 - d] + 1] = {} BY <1>8
  <2>3. Behind(nalus[n - 1 - d], {}) = {} BY DEF Behind
  <2>4. rest[at[(n - 1 - d) - 1] + 1] = {} BY <1>6, <2>1, <2>2, <2>3
  <2>5. QED BY <2>1, <2>4
<1> HIDE DEF P
<1>9. n - 1 \in P
  <2>1. n - 1 \in Nat BY <1>1
  <2>2. 0 .. n - 1 \subseteq P BY <1>7, <1>8, <2>1, Induction
  <2>3. QED BY <2>1, <2>2
<1>10. rest[1] = {}
  <2>1. n - 1 - (n - 1) = 0 BY <1>1
  <2>2. rest[at[0] + 1] = {} BY <1>9, <2>1 DEF P
  <2>3. at[0] + 1 = 1 BY <1>3
  <2>4. QED BY <2>2, <2>3
<1>11. AVCCToAnnexB(data) = {} BY <1>10 DEF AVCCToAnnexB, rest
<1>12. L + 1 = Len(avcc) BY <1>3, <1>4
<1>13. QED BY <1>5, <1>11, <1>12 DEF L, data, avcc

-----------------------------------------------------------------------------
(* What a decoder reads.                                                   *)

LEMMA MarkBytes ==
    ASSUME NEW data \in Seq(Bytes), NEW i \in 1 .. Len(data) - 2
    PROVE  i \in Marks(data) <=> data[i] = 0 /\ data[i + 1] = 0 /\ data[i + 2] = 1
<1> DEFINE read == Slice(data, i, 3)
<1>1. i \in Nat \ {0} /\ 3 \in Nat /\ i + 3 <= Len(data) + 1 BY LenProperties
<1>2. /\ read \in Seq(Bytes) /\ Len(read) = 3
      /\ \A j \in 1 .. 3 : read[j] = data[i + j - 1]
  BY <1>1, Sliced
<1>3. i + 1 - 1 = i /\ i + 2 - 1 = i + 1 /\ i + 3 - 1 = i + 2 BY <1>1
<1>4. i \in Marks(data) <=> read = ShortCode BY DEF Marks
<1> HIDE DEF read
<1>5. read[1] = data[i] /\ read[2] = data[i + 1] /\ read[3] = data[i + 2] BY <1>2, <1>3
<1>6. ShortCode \in Seq(Bytes) /\ Len(ShortCode) = 3
      /\ ShortCode[1] = 0 /\ ShortCode[2] = 0 /\ ShortCode[3] = 1
  <2>1. 0 \in Bytes /\ 1 \in Bytes BY BaseAssumption DEF Bytes
  <2>2. QED BY <2>1 DEF ShortCode
<1>7. read[1] = 0 /\ read[2] = 0 /\ read[3] = 1 => read = ShortCode
  <2> HAVE read[1] = 0 /\ read[2] = 0 /\ read[3] = 1
  <2>1. \A j \in 1 .. 3 : read[j] = ShortCode[j] BY <1>6
  <2>2. QED BY <1>2, <1>6, <2>1, SeqEqual
<1>8. QED BY <1>4, <1>5, <1>6, <1>7

StartCode(code) ==
    /\ code \in Seq(Bytes) /\ Len(code) \in {3, 4}
    /\ code[Len(code)] = 1
    /\ \A j \in 1 .. Len(code) - 1 : code[j] = 0

LEMMA StartCodes == StartCode(LongCode) /\ StartCode(ShortCode)
<1>1. 0 \in Bytes /\ 1 \in Bytes BY BaseAssumption DEF Bytes
<1>2. QED BY <1>1 DEF StartCode, LongCode, ShortCode

\* The facts about one NALU and the code before it.
LEMMA CodeFacts ==
    ASSUME NEW nalus, SoundUnit(nalus), NEW code, StartCode(code), NEW data, NEW at,
           FramedAt(data, nalus, Codes(nalus, code), Len(code), at),
           NEW k \in 1 .. Len(nalus)
    PROVE  /\ at[k - 1] \in Nat /\ at[k] \in Nat /\ at[k] <= Len(data)
           /\ Len(nalus[k]) \in Nat \ {0} /\ nalus[k] \in Seq(Bytes)
           /\ at[k] = at[k - 1] + Len(code) + Len(nalus[k])
           /\ \A j \in 1 .. Len(code) : data[at[k - 1] + j] = code[j]
           /\ \A j \in 1 .. Len(nalus[k]) : data[at[k - 1] + Len(code) + j] = nalus[k][j]
           /\ nalus[k][1] # 0 /\ nalus[k][Len(nalus[k])] # 0
           /\ \A j \in 1 .. Len(nalus[k]) - 2 :
                 nalus[k][j] = 0 /\ nalus[k][j + 1] = 0 => nalus[k][j + 2] > 2
<1> DEFINE n == Len(nalus)
<1>1. nalus \in Seq(Seq(Bytes)) /\ n \in Nat \ {0} /\ DOMAIN nalus = 1 .. n BY UnitProperties
<1>2. Codes(nalus, code)[k] = code BY <1>1 DEF Codes
<1>3. k - 1 \in 0 .. n /\ k \in 0 .. n /\ n \in k .. n BY <1>1
<1>4. at[k - 1] \in Nat /\ at[k] \in Nat /\ at[k] <= Len(data) BY <1>3 DEF FramedAt
<1>5. Len(nalus[k]) \in Nat \ {0} /\ nalus[k] \in Seq(Bytes) BY LengthMarks
<1>6. at[k] = at[k - 1] + Len(code) + Len(nalus[k]) BY DEF FramedAt
<1>7. \A j \in 1 .. Len(code) : data[at[k - 1] + j] = code[j] BY <1>2 DEF FramedAt
<1>8. \A j \in 1 .. Len(nalus[k]) : data[at[k - 1] + Len(code) + j] = nalus[k][j]
  BY DEF FramedAt
<1>9. Sound(nalus[k]) BY <1>1 DEF SoundUnit
<1>10. QED BY <1>4, <1>5, <1>6, <1>7, <1>8, <1>9 DEF Sound, Last

\* The marks of an access unit are those of its start codes.
LEMMA MarksAreCodes ==
    ASSUME NEW nalus, SoundUnit(nalus), NEW code, StartCode(code), NEW data, NEW at,
           FramedAt(data, nalus, Codes(nalus, code), Len(code), at)
    PROVE  Marks(data) = {at[k - 1] + Len(code) - 2 : k \in 1 .. Len(nalus)}
<1> DEFINE n == Len(nalus)
           size == Len(code)
           L == Len(data)
<1>1. data \in Seq(Bytes) /\ L \in Nat BY LenProperties DEF FramedAt
<1>2. size \in {3, 4} /\ code[size] = 1 /\ code[size - 1] = 0 /\ code[size - 2] = 0
      /\ \A j \in 1 .. size - 1 : code[j] = 0
  <2>1. size \in {3, 4} /\ code[size] = 1 /\ \A j \in 1 .. size - 1 : code[j] = 0
    BY DEF StartCode
  <2> HIDE DEF size
  <2>2. size - 1 \in 1 .. size - 1 /\ size - 2 \in 1 .. size - 1 BY <2>1
  <2>3. QED BY <2>1, <2>2
<1> DEFINE Facts(p, q, nalu, length) ==
        /\ p \in Nat /\ q \in Nat /\ q <= L /\ length \in Nat \ {0} /\ q = p + size + length
        /\ \A j \in 1 .. size : data[p + j] = code[j]
        /\ \A j \in 1 .. length : data[p + size + j] = nalu[j]
        /\ nalu[1] # 0 /\ nalu[length] # 0
        /\ \A j \in 1 .. length - 2 : nalu[j] = 0 /\ nalu[j + 1] = 0 => nalu[j + 2] > 2
<1>f. \A k \in 1 .. n : Facts(at[k - 1], at[k], nalus[k], Len(nalus[k])) BY CodeFacts
<1>3. ASSUME NEW k \in 1 .. n PROVE at[k - 1] + size - 2 \in Marks(data)
  <2> DEFINE p == at[k - 1]
             q == at[k]
             length == Len(nalus[k])
             i == p + size - 2
  <2>1. /\ p \in Nat /\ q \in Nat /\ q <= L /\ length \in Nat \ {0} /\ q = p + size + length
        /\ \A j \in 1 .. size : data[p + j] = code[j]
    <3>1. Facts(p, q, nalus[k], length) BY <1>f
    <3> HIDE DEF p, q, length, L, size
    <3>2. QED BY <3>1
  <2> HIDE DEF p, q, length, L, size
  <2>2. i \in 1 .. L - 2 BY <1>1, <1>2, <2>1
  <2>3. i = p + (size - 2) /\ i + 1 = p + (size - 1) /\ i + 2 = p + size BY <1>2, <2>1
  <2>4. size - 2 \in 1 .. size /\ size - 1 \in 1 .. size /\ size \in 1 .. size BY <1>2
  <2>5. data[i] = 0 /\ data[i + 1] = 0 /\ data[i + 2] = 1 BY <1>2, <2>1, <2>3, <2>4
  <2> HIDE DEF i
  <2>6. i \in Marks(data) BY <1>1, <2>2, <2>5, MarkBytes DEF L
  <2>7. QED BY <2>6 DEF i, p
<1>4. ASSUME NEW i \in Marks(data) PROVE \E k \in 1 .. n : i = at[k - 1] + size - 2
  <2>1. i \in 1 .. L - 2 BY DEF Marks
  <2>2. data[i] = 0 /\ data[i + 1] = 0 /\ data[i + 2] = 1 BY <1>1, <2>1, MarkBytes
  <2>3. PICK k \in 1 .. n : \E j \in 1 .. size + Len(nalus[k]) : i = at[k - 1] + j
    <3>1. i \in 1 .. L BY <1>1, <2>1
    <3>2. QED BY <3>1 DEF FramedAt
  <2> DEFINE p == at[k - 1]
             nalu == nalus[k]
             length == Len(nalu)
  <2>4. PICK j \in 1 .. size + length : i = p + j BY <2>3
  <2>5. /\ p \in Nat /\ length \in Nat \ {0}
        /\ \A m \in 1 .. size : data[p + m] = code[m]
        /\ \A m \in 1 .. length : data[p + size + m] = nalu[m]
        /\ nalu[1] # 0 /\ nalu[length] # 0
        /\ \A m \in 1 .. length - 2 : nalu[m] = 0 /\ nalu[m + 1] = 0 => nalu[m + 2] > 2
    <3>1. Facts(p, at[k], nalu, length) BY <1>f
    <3> HIDE DEF p, nalu, length, L, size
    <3>2. QED BY <3>1
  <2> HIDE DEF p, nalu, length, L, size
  <2>6. CASE j \in 1 .. size
    <3>1. data[p + j] = code[j] BY <2>5, <2>6
    <3>2. j # size BY <1>2, <2>2, <2>4, <3>1
    <3>3. j # size - 1
      <4>1. ASSUME j = size - 1 PROVE FALSE
        <5>1. i + 1 = p + size BY <1>2, <2>4, <2>5, <4>1
        <5>2. size \in 1 .. size BY <1>2
        <5>3. data[i + 1] = 1 BY <1>2, <2>5, <5>1, <5>2
        <5>4. QED BY <2>2, <5>3
      <4>2. QED BY <4>1
    <3>4. j # size - 3
      <4>1. ASSUME j = size - 3 PROVE FALSE
        <5>1. i + 2 = p + (size - 1) BY <1>2, <2>4, <2>5, <4>1
        <5>2. size - 1 \in 1 .. size BY <1>2
        <5>3. data[i + 2] = 0 BY <1>2, <2>5, <5>1, <5>2
        <5>4. QED BY <2>2, <5>3
      <4>2. QED BY <4>1
    <3>5. j = size - 2 BY <1>2, <2>6, <3>2, <3>3, <3>4
    <3>6. i = p + size - 2 BY <1>2, <2>4, <2>5, <3>5
    <3>7. QED BY <3>6 DEF p, size
  <2>7. CASE j \notin 1 .. size
    <3> DEFINE m == j - size
    <3>1. m \in 1 .. length /\ i = p + size + m BY <1>2, <2>4, <2>5, <2>7
    <3> HIDE DEF m
    <3>2. nalu[m] = 0 BY <2>2, <2>5, <3>1
    <3>3. m # length /\ m + 1 \in 1 .. length /\ i + 1 = p + size + (m + 1)
      <4>1. m # length BY <2>5, <3>2
      <4>2. QED BY <1>2, <2>5, <3>1, <4>1
    <3>4. nalu[m + 1] = 0 BY <2>2, <2>5, <3>3
    <3>5. m + 1 # length /\ m + 2 \in 1 .. length /\ m \in 1 .. length - 2
          /\ i + 2 = p + size + (m + 2)
      <4>1. m + 1 # length BY <2>5, <3>4
      <4>2. QED BY <1>2, <2>5, <3>1, <3>3, <4>1
    <3>6. nalu[m + 2] = 1 BY <2>2, <2>5, <3>5
    <3>7. nalu[m + 2] > 2 BY <2>5, <3>2, <3>4, <3>5
    <3>8. FALSE BY <3>6, <3>7
    <3>9. QED BY <3>8
  <2>8. QED BY <2>6, <2>7
<1>5. QED BY <1>3, <1>4

\* A decoder reads an access unit in Annex B as its NALUs.
LEMMA ReadBack ==
    ASSUME NEW nalus, SoundUnit(nalus), NEW code, StartCode(code)
    PROVE  ReadAs(CodeFramed(nalus, code), nalus)
<1> DEFINE n == Len(nalus)
           size == Len(code)
           data == CodeFramed(nalus, code)
<1>1. nalus \in Seq(Seq(Bytes)) /\ n \in Nat \ {0} /\ DOMAIN nalus = 1 .. n BY UnitProperties
<1>2. code \in Seq(Bytes) /\ size \in {3, 4} /\ \A j \in 1 .. size - 1 : code[j] = 0
  BY DEF StartCode
<1>3. PICK at : FramedAt(data, nalus, Codes(nalus, code), size, at) BY <1>2, CodeLayout
<1> HIDE DEF data, n
<1> DEFINE mark == [k \in DOMAIN nalus |-> at[k - 1] + size - 2]
           L == Len(data)
           Ending(k) == IF k = n THEN L ELSE mark[k + 1] - 1
           End(k) == mark[k] + 2 + Len(nalus[k])
<1>4. Marks(data) = {at[k - 1] + size - 2 : k \in 1 .. n} BY <1>3, MarksAreCodes DEF n
<1>5. mark \in [DOMAIN nalus -> Marks(data)] BY <1>1, <1>4
<1>6. \A i \in Marks(data) : \E k \in DOMAIN nalus : i = mark[k] BY <1>1, <1>4
<1>7. \A k \in 1 .. n : mark[k] = at[k - 1] + size - 2 BY <1>1
<1> HIDE DEF mark
<1>8. \A k \in 1 .. n :
        /\ at[k - 1] \in Nat /\ at[k] \in Nat /\ at[k] <= L
        /\ Len(nalus[k]) \in Nat \ {0} /\ nalus[k] \in Seq(Bytes)
        /\ at[k] = at[k - 1] + size + Len(nalus[k])
        /\ \A j \in 1 .. size : data[at[k - 1] + j] = code[j]
        /\ \A j \in 1 .. Len(nalus[k]) : data[at[k - 1] + size + j] = nalus[k][j]
        /\ nalus[k][Len(nalus[k])] # 0
  BY <1>3, CodeFacts DEF n
<1>9. data \in Seq(Bytes) /\ L = at[n] BY <1>3 DEF FramedAt, n
<1>10. ASSUME NEW k \in 1 .. n, NEW l \in 1 .. n, k < l PROVE mark[k] < mark[l]
  <2> DEFINE length == Len(nalus[k])
  <2>1. at[k - 1] \in Nat /\ at[k] \in Nat /\ at[l - 1] \in Nat /\ length \in Nat \ {0}
        /\ at[k] = at[k - 1] + size + length
    BY <1>8
  <2>2. k \in 0 .. n /\ l - 1 \in k .. n BY <1>1, <1>10
  <2>3. at[k] <= at[l - 1] BY <1>3, <2>2 DEF FramedAt, n
  <2> HIDE DEF length
  <2>4. QED BY <1>2, <1>7, <2>1, <2>3
<1>11. ASSUME NEW k \in 1 .. n
       PROVE  /\ End(k) <= Ending(k)
              /\ nalus[k] = Slice(data, mark[k] + 3, Len(nalus[k]))
              /\ data[End(k)] # 0
              /\ \A i \in End(k) + 1 .. Ending(k) : data[i] = 0
  <2> DEFINE p == at[k - 1]
             q == at[k]
             nalu == nalus[k]
             length == Len(nalu)
  <2>1. /\ p \in Nat /\ q \in Nat /\ q <= L /\ length \in Nat \ {0} /\ q = p + size + length
        /\ data[p + size + length] = nalu[length] /\ nalu[length] # 0
    <3>1. length \in 1 .. length BY <1>8
    <3>2. QED BY <1>8, <3>1
  <2>2. mark[k] = p + size - 2 BY <1>7
  <2>3. nalu = Slice(data, mark[k] + 3, length)
    <3>1. Begins(data, data) BY <1>9 DEF Begins
    <3> DEFINE codes == Codes(nalus, code)
    <3>2. FramedAt(data, nalus, codes, size, at) /\ k \in 1 .. Len(nalus) /\ size \in Nat
      BY <1>2, <1>3 DEF n
    <3> HIDE DEF codes, size
    <3>3. nalus \in Seq(Seq(Bytes)) /\ at[k] <= Len(data) BY <1>1, <2>1
    <3>4. Slice(data, at[k - 1] + size + 1, Len(nalus[k])) = nalus[k]
      BY <3>1, <3>2, <3>3, NaluRead
    <3>5. mark[k] + 3 = p + size + 1
      <4> HIDE DEF p
      <4>1. QED BY <2>1, <2>2, <3>2
    <3>6. QED BY <3>4, <3>5
  <2> HIDE DEF p, q, nalu, length, L, size
  <2>4. End(k) = q BY <1>2, <2>1, <2>2 DEF length, nalu
  <2>5. data[q] # 0 BY <2>1
  <2>6. q <= Ending(k) /\ \A i \in q + 1 .. Ending(k) : data[i] = 0
    <3>1. CASE k = n
      <4>1. Ending(k) = q BY <1>9, <3>1 DEF q
      <4>2. QED BY <2>1, <4>1
    <3>2. CASE k # n
      <4>1. k + 1 \in 1 .. n /\ (k + 1) - 1 = k BY <1>1, <3>2
      <4>2. mark[k + 1] = q + size - 2 BY <1>7, <4>1 DEF q, size
      <4>3. Ending(k) = q + size - 3 BY <1>2, <2>1, <3>2, <4>2
      <4>4. \A j \in 1 .. size : data[q + j] = code[j] BY <1>8, <4>1 DEF q, size
      <4>5. ASSUME NEW i \in q + 1 .. Ending(k) PROVE data[i] = 0
        <5>1. i - q \in 1 .. size - 1 /\ i = q + (i - q) /\ i - q \in 1 .. size
          BY <1>2, <2>1, <4>3, <4>5
        <5>2. QED BY <1>2, <4>4, <5>1 DEF size
      <4>6. QED BY <1>2, <2>1, <4>3, <4>5
    <3>3. QED BY <3>1, <3>2
  <2>7. QED BY <2>3, <2>4, <2>5, <2>6 DEF nalu, length
<1>12. ReadAs(data, nalus)
  BY <1>1, <1>5, <1>6, <1>10, <1>11 DEF ReadAs, L, n
<1>13. QED BY <1>12 DEF data

-----------------------------------------------------------------------------
(* Units as isAnnexB takes them.                                           *)

\* An access unit in Annex B is taken as it is.
LEMMA CodeRecognized ==
    ASSUME NEW nalus, SoundUnit(nalus), NEW code \in {LongCode, ShortCode}
    PROVE  ToAnnexB(CodeFramed(nalus, code)) = {CodeFramed(nalus, code)}
<1> DEFINE data == CodeFramed(nalus, code)
           size == Len(code)
           codes == Codes(nalus, code)
<1>1. /\ nalus \in Seq(Seq(Bytes)) /\ Len(nalus) \in Nat \ {0} /\ DOMAIN nalus = 1 .. Len(nalus)
      /\ 1 \in 1 .. Len(nalus)
  BY UnitProperties
<1>2. StartCode(code) BY StartCodes
<1>3. code \in Seq(Bytes) /\ size \in {3, 4} /\ size \in Nat BY <1>2 DEF StartCode
<1>4. PICK at : FramedAt(data, nalus, codes, size, at) BY <1>3, CodeLayout
<1>5. codes[1] = code BY <1>1 DEF Codes
<1>6. at[0] = 0 /\ data \in Seq(Bytes) BY <1>4 DEF FramedAt
<1>7. size <= Len(data) /\ Len(data) \in Nat
  <2>1. /\ at[1 - 1] \in Nat /\ at[1] \in Nat /\ at[1] <= Len(data) /\ Len(nalus[1]) \in Nat
        /\ at[1] = at[1 - 1] + size + Len(nalus[1])
    BY <1>1, <1>2, <1>4, CodeFacts
  <2>2. Len(data) \in Nat BY <1>6, LenProperties
  <2> HIDE DEF data, size
  <2>3. QED BY <1>3, <1>6, <2>1, <2>2
<1>8. Slice(data, 0 + 1, size) = code
  <2>1. Begins(data, data) BY <1>6 DEF Begins
  <2>2. at[1 - 1] + size <= Len(data) BY <1>3, <1>6, <1>7
  <2>3. codes[1] \in Seq(Bytes) /\ Len(codes[1]) = size BY <1>3, <1>5
  <2> HIDE DEF data, size, codes
  <2>4. Slice(data, at[1 - 1] + 1, size) = codes[1]
    BY <1>1, <1>3, <1>4, <2>1, <2>2, <2>3, MarkRead
  <2>5. QED BY <1>5, <1>6, <2>4
<1>9. SubSeq(data, 1, size) = SubSeq(code, 1, size)
  <2>1. SubSeq(code, 1, size) = code BY <1>3, SubSeqFull
  <2>2. 0 + 1 = 1 /\ 0 + 1 + size - 1 = size BY <1>3
  <2>3. QED BY <1>8, <2>1, <2>2 DEF Slice
<1>10. IsPrefix(code, data) BY <1>7, <1>9 DEF IsPrefix
<1>11. isAnnexB(data) BY <1>10 DEF isAnnexB
<1>12. data # <<>>
  <2> HIDE DEF data, size
  <2>1. Len(data) # 0 BY <1>3, <1>7
  <2>2. QED BY <2>1, EmptySeq
<1>13. QED BY <1>11, <1>12 DEF ToAnnexB

\* Where lengths are taken for start codes.
LEMMA LengthsMistaken ==
    ASSUME NEW nalus, SoundUnit(nalus), NEW data, Begins(data, LengthFramed(nalus)),
           Len(LengthFramed(nalus)) <= Len(data) + 1, isAnnexB(data)
    PROVE  Len(nalus[1]) \in {1} \cup Base .. 2 * Base - 1
<1> DEFINE marks == Lengths(nalus)
           mark == marks[1]
           L == Len(data)
<1>1. nalus \in Seq(Seq(Bytes)) /\ Len(nalus) \in Nat \ {0} /\ 1 \in 1 .. Len(nalus)
  BY UnitProperties
<1>2. /\ Len(nalus[1]) \in Nat \ {0} /\ mark \in Seq(Bytes) /\ Len(mark) = 4
      /\ Value(mark) = Len(nalus[1])
  BY <1>1, LengthMarks
<1>3. PICK at : FramedAt(LengthFramed(nalus), nalus, marks, 4, at) BY LengthLayout
<1>4. data \in Seq(Bytes) /\ L \in Nat BY LenProperties DEF Begins
<1>5. 4 <= L /\ at[0] = 0
  <2> DEFINE n == Len(nalus)
             q == at[1]
             length == Len(nalus[1])
             N == Len(LengthFramed(nalus))
  <2>1. 1 \in 0 .. n /\ n \in 1 .. n /\ n \in 0 .. n BY <1>1
  <2>2. at[1 - 1] = 0 /\ q = at[1 - 1] + 4 + length BY <1>1, <1>3 DEF FramedAt
  <2>3. at[n] = N /\ q <= at[n] /\ at[n] \in Nat /\ q \in Nat /\ at[0] = 0
    BY <1>3, <2>1 DEF FramedAt
  <2>4. N <= L + 1 OBVIOUS
  <2> HIDE DEF n, q, length, N, L
  <2>5. length \in Nat \ {0} BY <1>2 DEF length
  <2>6. QED BY <1>4, <2>2, <2>3, <2>4, <2>5
<1> HIDE DEF L
<1>6. Slice(data, 1, 4) = mark
  <2> DEFINE framed == LengthFramed(nalus)
  <2>1. PICK size \in Nat : size = 4 OBVIOUS
  <2>2. FramedAt(framed, nalus, marks, size, at) /\ Begins(data, framed) BY <1>3, <2>1
  <2>3. at[1 - 1] + size <= Len(data) BY <1>4, <1>5, <2>1 DEF L
  <2>4. marks[1] \in Seq(Bytes) /\ Len(marks[1]) = size BY <1>2, <2>1
  <2> HIDE DEF framed, marks
  <2>5. Slice(data, at[1 - 1] + 1, size) = marks[1]
    BY <1>1, <2>2, <2>3, <2>4, MarkRead
  <2>6. at[1 - 1] + 1 = 1 BY <1>5
  <2>7. QED BY <2>1, <2>5, <2>6
<1>7. /\ mark[1] \in Bytes /\ mark[2] \in Bytes /\ mark[3] \in Bytes /\ mark[4] \in Bytes
      /\ mark[1] = data[1] /\ mark[2] = data[2] /\ mark[3] = data[3] /\ mark[4] = data[4]
  <2>1. 1 \in Nat \ {0} /\ 4 \in Nat /\ 1 + 4 <= L + 1 BY <1>4, <1>5
  <2>2. \A j \in 1 .. 4 : Slice(data, 1, 4)[j] = data[1 + j - 1] BY <1>4, <2>1, Sliced DEF L
  <2>3. \A j \in 1 .. 4 : mark[j] = data[j] BY <1>6, <2>2
  <2> HIDE DEF mark
  <2>4. \A j \in 1 .. 4 : mark[j] \in Bytes BY <1>2, ElementOfSeq
  <2>5. QED BY <2>3, <2>4
<1>8. \A code \in {LongCode, ShortCode} : IsPrefix(code, data) =>
          \A j \in 1 .. Len(code) : data[j] = code[j]
  <2> TAKE code \in {LongCode, ShortCode}
  <2> HAVE IsPrefix(code, data)
  <2> DEFINE size == Len(code)
  <2>1. code \in Seq(Bytes) /\ size \in {3, 4} BY StartCodes DEF StartCode
  <2>2. size <= L /\ SubSeq(code, 1, size) = SubSeq(data, 1, size) BY DEF IsPrefix, L
  <2>3. SubSeq(code, 1, size) = code BY <2>1, SubSeqFull
  <2>4. 1 \in Nat \ {0} /\ size \in Nat /\ 1 + size <= L + 1 BY <1>4, <2>1, <2>2
  <2>5. \A j \in 1 .. size : Slice(data, 1, size)[j] = data[1 + j - 1]
    BY <1>4, <2>4, Sliced DEF L
  <2>6. Slice(data, 1, size) = SubSeq(data, 1, size)
    <3>1. 1 + size - 1 = size BY <2>4
    <3>2. QED BY <3>1 DEF Slice
  <2> HIDE DEF size
  <2>7. \A j \in 1 .. size : code[j] = data[1 + j - 1] BY <2>2, <2>3, <2>5, <2>6
  <2>8. ASSUME NEW j \in 1 .. size PROVE data[j] = code[j]
    <3>1. 1 + j - 1 = j BY <2>4
    <3>2. QED BY <2>7, <3>1
  <2>9. QED BY <2>8 DEF size
<1> DEFINE a == mark[1]
           b == mark[2]
           c == mark[3]
           d == mark[4]
<1>9. Value(mark) = ((a * Base + b) * Base + c) * Base + d BY DEF Value
<1>10. Base \in Nat /\ Base > 1 BY BaseAssumption
<1>11. d \in 0 .. Base - 1 BY <1>7 DEF Bytes
<1>12. CASE IsPrefix(LongCode, data)
  <2>1. \A j \in 1 .. 4 : data[j] = LongCode[j] BY <1>8, <1>12, LongCodeProperties
  <2>2. a = 0 /\ b = 0 /\ c = 0 /\ d = 1 BY <1>7, <2>1 DEF LongCode
  <2>3. ((0 * Base + 0) * Base + 0) * Base + 1 = 1 BY <1>10
  <2> HIDE DEF a, b, c, d, mark
  <2>4. Value(mark) = 1 BY <1>9, <2>2, <2>3
  <2>5. QED BY <1>2, <2>4
<1>13. CASE IsPrefix(ShortCode, data)
  <2>1. Len(ShortCode) = 3 BY DEF ShortCode
  <2>2. \A j \in 1 .. 3 : data[j] = ShortCode[j] BY <1>8, <1>13, <2>1
  <2>3. a = 0 /\ b = 0 /\ c = 1 BY <1>7, <2>2 DEF ShortCode
  <2>4. ((0 * Base + 0) * Base + 1) * Base = Base BY <1>10
  <2> HIDE DEF a, b, c, d, mark
  <2>5. Value(mark) = Base + d BY <1>9, <2>3, <2>4
  <2>6. Base + d \in Base .. 2 * Base - 1 BY <1>10, <1>11
  <2>7. QED BY <1>2, <2>5, <2>6
<1>14. QED BY <1>12, <1>13 DEF isAnnexB

\* What the conversion returns of a unit, if it returns anything, is the same unit for a
\* decoder, or one that isAnnexB mistakes, as it came.
LEMMA ConversionSound ==
    ASSUME NEW unit \in Units, NEW data \in ToAnnexB(Encoded(unit))
    PROVE  \/ ReadAs(data, unit.nalus)
           \/ Mistaken(unit) /\ data = Encoded(unit)
<1> DEFINE Written == \/ ReadAs(data, unit.nalus)
                      \/ Mistaken(unit) /\ data = Encoded(unit)
<1> DEFINE nalus == unit.nalus
           input == Encoded(unit)
<1>1. SoundUnit(nalus) /\ unit.framing \in {"avc", "long", "short", "cut"}
  BY UnitsAssumption DEF SoundUnit
<1>2. StartCode(LongCode) /\ StartCode(ShortCode) BY StartCodes
<1> HIDE DEF nalus
<1>3. CASE unit.framing = "long"
  <2>1. input = CodeFramed(nalus, LongCode) BY <1>3 DEF Encoded, nalus
  <2>2. data = CodeFramed(nalus, LongCode) BY <1>1, <2>1, CodeRecognized
  <2>3. QED BY <1>1, <1>2, <2>2, ReadBack DEF nalus
<1>4. CASE unit.framing = "short"
  <2>1. input = CodeFramed(nalus, ShortCode) BY <1>4 DEF Encoded, nalus
  <2>2. data = CodeFramed(nalus, ShortCode) BY <1>1, <2>1, CodeRecognized
  <2>3. QED BY <1>1, <1>2, <2>2, ReadBack DEF nalus
<1>5. \/ isAnnexB(input) /\ data = input
      \/ ~isAnnexB(input) /\ data \in AVCCToAnnexB(input)
  BY DEF ToAnnexB
<1>6. ASSUME Begins(input, LengthFramed(nalus)), Len(LengthFramed(nalus)) <= Len(input) + 1,
             isAnnexB(input), data = input, unit.framing \in {"avc", "cut"}
      PROVE  Written
  <2>1. Len(nalus[1]) \in {1} \cup Base .. 2 * Base - 1 BY <1>1, <1>6, LengthsMistaken
  <2>2. QED BY <1>6, <2>1 DEF Mistaken, nalus
<1>7. CASE unit.framing = "avc"
  <2>1. input = LengthFramed(nalus) BY <1>7 DEF Encoded, nalus
  <2>2. Begins(input, LengthFramed(nalus)) /\ Len(LengthFramed(nalus)) <= Len(input) + 1
    <3>1. PICK at : FramedAt(LengthFramed(nalus), nalus, Lengths(nalus), 4, at)
      BY <1>1, LengthLayout
    <3>2. LengthFramed(nalus) \in Seq(Bytes) BY <3>1 DEF FramedAt
    <3>3. Len(input) \in Nat BY <2>1, <3>2, LenProperties
    <3>4. QED BY <2>1, <3>2, <3>3 DEF Begins
  <2>3. CASE isAnnexB(input) /\ data = input BY <1>6, <1>7, <2>2, <2>3
  <2>4. CASE data \in AVCCToAnnexB(input)
    <3>1. data = CodeFramed(nalus, LongCode) BY <1>1, <2>1, <2>4, Converted
    <3>2. QED BY <1>1, <1>2, <3>1, ReadBack DEF nalus
  <2>5. QED BY <1>5, <2>3, <2>4
<1>8. CASE unit.framing = "cut"
  <2>1. input = Front(LengthFramed(nalus)) BY <1>8 DEF Encoded, nalus
  <2>2. /\ Begins(input, LengthFramed(nalus)) /\ Len(input) + 1 = Len(LengthFramed(nalus))
        /\ AVCCToAnnexB(input) = {}
    BY <1>1, <2>1, CutRejected
  <2>3. isAnnexB(input) /\ data = input BY <1>5, <2>2
  <2>4. Len(LengthFramed(nalus)) <= Len(input) + 1
    <3>1. Len(input) \in Nat BY <2>2, LenProperties DEF Begins
    <3>2. QED BY <2>2, <3>1
  <2>5. QED BY <1>6, <1>8, <2>2, <2>3, <2>4
<1>9. QED BY <1>1, <1>3, <1>4, <1>7, <1>8

\* No unit is dropped that arrives whole, and what a decoder is given is the unit, except
\* for those that isAnnexB mistakes (avcc_to_annexb.go:44-130).
THEOREM Conversion ==
    ASSUME NEW unit \in Units
    PROVE  /\ unit.framing # "cut" => ToAnnexB(Encoded(unit)) # {}
           /\ \A data \in ToAnnexB(Encoded(unit)) :
                 ReadAs(data, unit.nalus) \/ (Mistaken(unit) /\ data = Encoded(unit))
<1> DEFINE nalus == unit.nalus
           input == Encoded(unit)
<1>1. SoundUnit(nalus) /\ unit.framing \in {"avc", "long", "short", "cut"}
  BY UnitsAssumption DEF SoundUnit
<1> HIDE DEF nalus
<1>2. ASSUME unit.framing = "avc" PROVE ToAnnexB(input) # {}
  <2>1. AVCCToAnnexB(input) = {CodeFramed(nalus, LongCode)}
    BY <1>1, <1>2, Converted DEF Encoded, nalus
  <2> HIDE DEF input
  <2>2. input # <<>> BY <2>1 DEF AVCCToAnnexB
  <2>3. ToAnnexB(input) = {input} \/ ToAnnexB(input) = {CodeFramed(nalus, LongCode)}
    BY <2>1, <2>2 DEF ToAnnexB
  <2>4. QED BY <2>3
<1>3. ASSUME NEW code \in {LongCode, ShortCode}, input = CodeFramed(nalus, code)
      PROVE  ToAnnexB(input) # {}
  <2>1. ToAnnexB(input) = {input} BY <1>1, <1>3, CodeRecognized
  <2> HIDE DEF input
  <2>2. QED BY <2>1
<1>4. unit.framing \in {"long", "short"} =>
        \E code \in {LongCode, ShortCode} : input = CodeFramed(nalus, code)
  BY DEF Encoded, nalus
<1>5. unit.framing # "cut" => ToAnnexB(input) # {}
  <2>1. CASE unit.framing = "avc" BY <1>2, <2>1
  <2>2. CASE unit.framing \in {"long", "short"}
    <3>1. PICK code \in {LongCode, ShortCode} : input = CodeFramed(nalus, code) BY <1>4, <2>2
    <3>2. QED BY <1>3, <3>1
  <2>3. QED BY <1>1, <2>1, <2>2
<1>6. QED BY <1>5, ConversionSound

-----------------------------------------------------------------------------
(* The process.                                                            *)

\* Main stops only after ctx has been cancelled.
Stopping == main \in {"stopping", "draining", "leaving", "parting", "forgetting", "closing"}

\* The room counts no connection but the newest; it is that of p.room, unless the loop
\* is about to set it, or main has set p.room to nil after the loop had set it.  The
\* loop joins only when it has left; and main leaves nothing behind that it saw.
RoomInv ==
    /\ mode \in {"ipc", "direct"}
    /\ made \in Nat
    /\ joined \subseteq {made} /\ None \notin joined
    /\ main \in {"creating", "starting", "connecting"} => joined = {} /\ loop = "idle"
    /\ Stopping => cancelled
    /\ loop \in {"forgetting", "rejoining"} => joined = {}
    /\ loop \in {"rejoining", "joined"} => room = None
    /\ loop \in {"waiting", "parting", "failed"} =>
          joined \subseteq {room} /\ (main = "forgetting" => joined = {})
    /\ loop = "joined" \/ joined \subseteq {room} \/ (crossed /\ cancelled)
    /\ HasLooked \/ main = "exited" => joined = {} \/ crossed

LEMMA InitRoom == VideoInit => RoomInv
BY DEF VideoInit, RoomInv, HasLooked, Stopping, None

LEMMA MainRoom ==
    ASSUME RoomInv, NewPipeline \/ StartPipeline \/ FirstConnect \/ FirstConnectFails
                    \/ AskedToStop \/ LoopFailed
    PROVE  RoomInv'
<1> USE DEF RoomInv, HasLooked, Stopping, rooms, loopVars, Exit
<1>1. CASE NewPipeline BY <1>1 DEF NewPipeline
<1>2. CASE StartPipeline BY <1>2 DEF StartPipeline
<1>3. CASE FirstConnect
  <2>0. joined = {} /\ made' = made + 1 /\ joined' = joined \cup {made'} /\ room' = made'
    BY <1>3 DEF FirstConnect
  <2>1. made' \in Nat /\ made' # 0 /\ joined' = {made'} BY <2>0
  <2>2. main' = "serving" /\ loop' = "reading" /\ UNCHANGED <<mode, cancelled>>
    BY <1>3 DEF FirstConnect
  <2>3. QED BY <2>0, <2>1, <2>2 DEF None
<1>4. CASE FirstConnectFails
  <2>1. joined' = {} /\ made' \in Nat /\ main' = "failed" /\ loop' = "idle" /\ mode' = mode
    BY <1>4 DEF FirstConnectFails
  <2>2. QED BY <2>1
<1>5. CASE AskedToStop BY <1>5 DEF AskedToStop
<1>6. CASE LoopFailed BY <1>6 DEF LoopFailed
<1>7. QED BY <1>1, <1>2, <1>3, <1>4, <1>5, <1>6

LEMMA EndRoom ==
    ASSUME RoomInv,
           StopPipeline \/ PipelineStopped \/ LeaveRoom \/ Part \/ Parted \/ CleanExit
    PROVE  RoomInv'
<1> USE DEF RoomInv, HasLooked, Stopping, rooms, loopVars, Exit, After
<1>1. CASE StopPipeline BY <1>1 DEF StopPipeline
<1>2. CASE PipelineStopped BY <1>2 DEF PipelineStopped
<1>3. CASE LeaveRoom
  <2>1. UNCHANGED <<mode, cancelled, loop, room, joined, made>> BY <1>3 DEF LeaveRoom
  <2>2. CASE room = None
    <3>1. main' = After /\ crossed' = (crossed \/ loop = "joined") BY <1>3, <2>2 DEF LeaveRoom
    <3>2. joined = {} \/ crossed' BY <2>2, <3>1
    <3>3. cancelled BY <1>3 DEF LeaveRoom
    <3>4. main' \in {"closing", "stopping"} BY <3>1
    <3>5. crossed => crossed' BY <3>1
    <3>6. QED BY <2>1, <3>2, <3>3, <3>4, <3>5
  <2>3. CASE room # None BY <1>3, <2>3 DEF LeaveRoom
  <2>4. QED BY <2>2, <2>3
<1>4. CASE Part
  <2>1. CASE room = None BY <1>4, <2>1 DEF Part
  <2>2. CASE room # None
    <3>1. main' = "forgetting" /\ joined' = joined \ {room}
          /\ UNCHANGED <<mode, cancelled, loop, room, made, crossed>>
      BY <1>4, <2>2 DEF Part, Leave
    <3>2. cancelled BY <1>4 DEF Part
    <3>3. loop # "joined" /\ loop # "rejoining" BY <2>2
    <3>4. joined \subseteq {room} => joined' = {} BY <3>1
    <3>5. joined' = {} \/ crossed' BY <3>1, <3>3, <3>4
    <3>6. QED BY <3>1, <3>2, <3>3, <3>4, <3>5
  <2>3. QED BY <2>1, <2>2
<1>5. CASE Parted
  <2>1. main = "forgetting" /\ main' \in {"closing", "stopping"} /\ room' = None /\ cancelled
        /\ UNCHANGED <<mode, cancelled, loop, joined, made, crossed>>
    BY <1>5 DEF Parted, Forget
  <2>2. joined = {} \/ crossed BY <2>1
  <2>3. QED BY <2>1, <2>2
<1>6. CASE CleanExit BY <1>6 DEF CleanExit
<1>7. QED BY <1>1, <1>2, <1>3, <1>4, <1>5, <1>6

LEMMA LoopRoom ==
    ASSUME RoomInv, Capture \/ TakeSample \/ WriteSample \/ WriteFails \/ LoopCancelled
                    \/ Backoff \/ LoopParts \/ LoopParted \/ Rejoin \/ SetRoom \/ PublishTrack
                    \/ RoomLost
    PROVE  RoomInv'
<1> USE DEF RoomInv, HasLooked, Stopping, rooms, loopVars, LoopRuns
<1>1. CASE Capture BY <1>1 DEF Capture
<1>2. CASE TakeSample BY <1>2 DEF TakeSample
<1>3. CASE WriteSample BY <1>3 DEF WriteSample
<1>4. CASE WriteFails BY <1>4 DEF WriteFails
<1>5. CASE LoopCancelled BY <1>5 DEF LoopCancelled
<1>6. CASE Backoff BY <1>6 DEF Backoff
<1>7. CASE LoopParts
  <2>1. CASE room = None BY <1>7, <2>1 DEF LoopParts, Exit
  <2>2. CASE room # None
    <3>1. loop = "parting" /\ loop' = "forgetting" /\ joined' = joined \ {room}
          /\ UNCHANGED <<mode, main, cancelled, room, made, crossed>>
      BY <1>7, <2>2 DEF LoopParts, Leave
    <3>2. joined' = {} BY <3>1
    <3>3. QED BY <3>1, <3>2
  <2>3. QED BY <2>1, <2>2
<1>8. CASE LoopParted BY <1>8 DEF LoopParted, Forget
<1>9. CASE Rejoin
  <2>1. CASE loop' = "reading" BY <1>9, <2>1 DEF Rejoin
  <2>2. CASE loop' = "joined"
    <3>1. /\ loop = "rejoining" /\ Running /\ UNCHANGED <<mode, main, cancelled, room>>
          /\ made' = made + 1 /\ joined' = joined \cup {made'}
          /\ crossed' = (crossed \/ HasLooked)
      BY <1>9, <2>2 DEF Rejoin
    <3>2. made' \in Nat /\ made' # 0 /\ joined' = {made'}
      <4>1. joined = {} /\ made \in Nat BY <3>1
      <4> HIDE DEF RoomInv
      <4>2. QED BY <3>1, <4>1
    <3>3. main \notin {"creating", "starting", "connecting", "exited"} BY <3>1 DEF Running, Ended
    <3>4. HasLooked' = HasLooked BY <3>1
    <3>5. QED BY <2>2, <3>1, <3>2, <3>3, <3>4 DEF None
  <2>3. QED BY <1>9, <2>1, <2>2 DEF Rejoin
<1>10. CASE SetRoom BY <1>10 DEF SetRoom
<1>11. CASE PublishTrack BY <1>11 DEF PublishTrack
<1>12. CASE RoomLost BY <1>12 DEF RoomLost
<1>13. QED
  BY <1>1, <1>2, <1>3, <1>4, <1>5, <1>6, <1>7, <1>8, <1>9, <1>10, <1>11, <1>12

LEMMA StutterRoom ==
    ASSUME RoomInv, UNCHANGED videoVars
    PROVE  RoomInv'
BY DEF RoomInv, HasLooked, Stopping, videoVars, rooms, loopVars

\* The room never counts a publisher twice, and one that exits cleanly only if the
\* loop's joining and main's leaving have crossed (livekit.go:71-77, 107-112, 141-142).
THEOREM RoomIsLeft == VideoSpec => []RoomLeft
<1>1. RoomInv /\ [VideoNext]_videoVars => RoomInv'
  BY MainRoom, EndRoom, LoopRoom, StutterRoom DEF VideoNext
<1>2. RoomInv => RoomLeft
  <2>1. ASSUME RoomInv PROVE RoomLeft
    <3>1. IsFiniteSet({made}) /\ Cardinality({made}) = 1 BY FS_Singleton
    <3>2. Cardinality(joined) <= 1 BY <2>1, <3>1, FS_Subset DEF RoomInv
    <3>3. QED BY <2>1, <3>2 DEF RoomInv, RoomLeft
  <2>2. QED BY <2>1
<1>3. QED BY <1>1, <1>2, InitRoom, PTL DEF VideoSpec

-----------------------------------------------------------------------------
(* The frames.                                                             *)

Empty == hand = NoFrame

CountInv ==
    /\ captured \in Nat /\ overrun \in Nat /\ counted \in Nat
    /\ captured = overrun + Len(samples) + (IF Empty THEN 0 ELSE 1) + counted

\* The frames in the channel are newer than the one in hand, and that is newer than
\* the last one written.
OrderInv ==
    /\ last \in 0 .. captured
    /\ samples \in Seq(1 .. captured)
    /\ \A i \in DOMAIN samples : last < samples[i]
    /\ \A i, j \in DOMAIN samples : i < j => samples[i] < samples[j]
    /\ ~Empty => /\ hand.frame \in 1 .. captured /\ last < hand.frame
                 /\ \A i \in DOMAIN samples : hand.frame < samples[i]

HandInv == Empty <=> loop # "writing"

FramesInv == CountInv /\ OrderInv /\ HandInv

frameVars == <<captured, overrun, counted, last, samples, hand>>

LEMMA InitFrames == VideoInit => FramesInv
<1> SUFFICES ASSUME VideoInit PROVE FramesInv
  OBVIOUS
<1>1. samples = <<>> /\ Len(samples) = 0 /\ DOMAIN samples = {} BY DEF VideoInit
<1>2. CountInv BY <1>1 DEF VideoInit, CountInv, Empty
<1>3. OrderInv BY <1>1 DEF VideoInit, OrderInv, Empty
<1>4. HandInv BY DEF VideoInit, HandInv, Empty
<1>5. QED BY <1>2, <1>3, <1>4 DEF FramesInv

LEMMA SameFrames ==
    ASSUME FramesInv, UNCHANGED frameVars, (loop = "writing") = (loop' = "writing")
    PROVE  FramesInv'
BY DEF FramesInv, CountInv, OrderInv, HandInv, Empty, frameVars

LEMMA AppendedElements ==
    ASSUME NEW S, NEW s \in Seq(S), NEW e \in S, NEW i \in DOMAIN Append(s, e)
    PROVE  \/ i \in DOMAIN s /\ Append(s, e)[i] = s[i]
           \/ i = Len(s) + 1 /\ Append(s, e)[i] = e
<1>1. /\ DOMAIN s = 1 .. Len(s) /\ Len(s) \in Nat
      /\ DOMAIN Append(s, e) = 1 .. Len(s) + 1
  BY AppendProperties, LenProperties
<1>2. i \in 1 .. Len(s) \/ i = Len(s) + 1 BY <1>1
<1>3. QED BY <1>1, <1>2, AppendProperties

LEMMA Pair ==
    ASSUME NEW a \in Nat, NEW b \in Nat
    PROVE  /\ <<a>> \o <<b>> \in Seq(Nat) /\ Len(<<a>> \o <<b>>) = 2
           /\ (<<a>> \o <<b>>)[1] = a /\ (<<a>> \o <<b>>)[2] = b
OBVIOUS

LEMMA CaptureFrames ==
    ASSUME FramesInv, Capture
    PROVE  FramesInv'
<1> USE DEF FramesInv, CountInv, OrderInv, HandInv, Empty
<1>1. captured' = captured + 1 /\ captured' \in Nat BY DEF Capture
<1>2. UNCHANGED <<counted, last, hand, loop>> BY DEF Capture, counts, loopVars
<1>3. samples \in Seq(1 .. captured') BY <1>1
<1>4. CASE Len(samples) < Capacity
  <2>1. samples' = Append(samples, captured') /\ overrun' = overrun
    BY <1>4 DEF Capture
  <2>2. captured' \in 1 .. captured' BY <1>1
  <2>3. samples' \in Seq(1 .. captured') BY <1>3, <2>1, <2>2
  <2>4. Len(samples') = Len(samples) + 1 BY <1>3, <2>1
  <2>5. \A i \in DOMAIN samples' :
           \/ i \in DOMAIN samples /\ samples'[i] = samples[i]
           \/ i = Len(samples) + 1 /\ samples'[i] = captured + 1
    BY <1>1, <1>3, <2>1, <2>2, AppendedElements
  <2>6. \A i \in DOMAIN samples : samples[i] \in 1 .. captured OBVIOUS
  <2>7. CountInv' BY <1>1, <1>2, <2>1, <2>4
  <2>8. \A i, j \in DOMAIN samples' : i < j => samples'[i] < samples'[j]
    <3>1. TAKE i, j \in DOMAIN samples'
    <3>2. HAVE i < j
    <3>3. DOMAIN samples = 1 .. Len(samples) /\ DOMAIN samples' = 1 .. Len(samples) + 1
          /\ Len(samples) \in Nat
      BY <2>3, <2>4
    <3>4. i \in DOMAIN samples BY <3>2, <3>3
    <3>5. samples'[i] = samples[i] /\ samples[i] \in 1 .. captured BY <2>5, <2>6, <3>3, <3>4
    <3>6. CASE j \in DOMAIN samples BY <2>5, <3>2, <3>3, <3>4, <3>5, <3>6
    <3>7. CASE samples'[j] = captured + 1 BY <3>5, <3>7
    <3>8. QED BY <2>5, <3>6, <3>7
  <2>9. OrderInv'
    <3>1. last \in 0 .. captured /\ last < captured + 1 OBVIOUS
    <3>2. \A i \in DOMAIN samples' : last < samples'[i] BY <2>5, <3>1
    <3>3. ~Empty => /\ hand.frame \in 1 .. captured' /\ last < hand.frame
                    /\ \A i \in DOMAIN samples' : hand.frame < samples'[i]
      <4>1. SUFFICES ASSUME ~Empty
                     PROVE  /\ hand.frame \in 1 .. captured' /\ last < hand.frame
                            /\ \A i \in DOMAIN samples' : hand.frame < samples'[i]
        OBVIOUS
      <4>2. hand.frame \in 1 .. captured' /\ last < hand.frame /\ hand.frame < captured + 1
        BY <1>1, <4>1
      <4>3. \A i \in DOMAIN samples' : hand.frame < samples'[i] BY <2>5, <4>1, <4>2
      <4>4. QED BY <4>2, <4>3
    <3>4. last' \in 0 .. captured' BY <1>1, <1>2
    <3>5. QED BY <1>2, <2>3, <2>8, <3>2, <3>3, <3>4
  <2>10. QED BY <1>2, <2>7, <2>9
<1>5. CASE ~(Len(samples) < Capacity)
  <2>1. samples' = samples /\ overrun' = overrun + 1 BY <1>5 DEF Capture
  <2>2. CountInv' BY <1>1, <1>2, <2>1
  <2>3. OrderInv' BY <1>1, <1>2, <1>3, <2>1
  <2>4. QED BY <1>2, <2>2, <2>3
<1>6. QED BY <1>4, <1>5

LEMMA TakeFrames ==
    ASSUME FramesInv, TakeSample
    PROVE  FramesInv'
<1> USE DEF FramesInv, CountInv, OrderInv, HandInv, Empty
<1>1. /\ samples # <<>> /\ samples' = Tail(samples) /\ hand = NoFrame /\ loop = "reading"
      /\ UNCHANGED <<captured, overrun, last>>
  BY DEF TakeSample, LoopRuns
<1>2. /\ Len(samples') = Len(samples) - 1 /\ samples' \in Seq(1 .. captured)
      /\ 1 \in DOMAIN samples /\ Head(samples) = samples[1]
      /\ \A i \in DOMAIN samples' : i + 1 \in DOMAIN samples /\ samples'[i] = samples[i + 1]
  BY <1>1
<1>3. Head(samples) \in 1 .. captured /\ last < Head(samples)
  <2>1. samples[1] \in 1 .. captured
    BY <1>2, ElementOfSeq, LenProperties
  <2>0. last < samples[1] BY <1>2
  <2>2. QED BY <1>2, <2>0, <2>1
<1>4. \A i \in DOMAIN samples' : last < samples'[i] /\ Head(samples) < samples'[i]
  <2>1. \A i \in DOMAIN samples' : 1 < i + 1 BY <1>2
  <2>2. QED BY <1>2, <2>1
<1>5. \A i, j \in DOMAIN samples' : i < j => samples'[i] < samples'[j]
  <2>1. \A i, j \in DOMAIN samples' : i < j => i + 1 < j + 1 BY <1>2
  <2>2. QED BY <1>2, <2>1
<1>6. CASE counted' = counted + 1 /\ UNCHANGED <<loop, hand>>
  BY <1>1, <1>2, <1>4, <1>5, <1>6
<1>7. ASSUME loop' = "writing", counted' = counted,
             NEW unit, NEW bytes,
             hand' = [frame |-> Head(samples), unit |-> unit, data |-> bytes]
      PROVE  FramesInv'
  <2>1. hand'.frame = Head(samples) /\ hand'.frame # 0 BY <1>3, <1>7
  <2>2. hand' # NoFrame BY <2>1 DEF NoFrame
  <2>3. CountInv' BY <1>1, <1>2, <1>7, <2>2
  <2>4. OrderInv' BY <1>1, <1>2, <1>3, <1>4, <1>5, <2>1
  <2>5. QED BY <1>7, <2>2, <2>3, <2>4
<1>8. QED BY <1>6, <1>7 DEF TakeSample

LEMMA WriteFrames ==
    ASSUME FramesInv, WriteSample \/ WriteFails
    PROVE  FramesInv'
<1> USE DEF FramesInv, CountInv, OrderInv, HandInv, Empty
<1>1. /\ loop = "writing" /\ loop' # "writing" /\ hand' = NoFrame /\ counted' = counted + 1
      /\ UNCHANGED <<captured, overrun, samples>>
      /\ last' = last \/ last' = hand.frame
  BY DEF WriteSample, WriteFails, LoopRuns
<1>2. hand # NoFrame BY <1>1
<1>3. CountInv' BY <1>1, <1>2
<1>4. OrderInv' BY <1>1, <1>2
<1>5. QED BY <1>1, <1>3, <1>4

LEMMA NextFrames ==
    ASSUME FramesInv, RoomInv, [VideoNext]_videoVars
    PROVE  FramesInv'
<1> USE SameFrames DEF frameVars, media, counts, rooms, loopVars, LoopRuns
<1>1. CASE NewPipeline \/ StartPipeline \/ FirstConnectFails \/ AskedToStop \/ LoopFailed
  BY <1>1 DEF NewPipeline, StartPipeline, FirstConnectFails, AskedToStop, LoopFailed
<1>2. CASE FirstConnect
  BY <1>2 DEF FirstConnect, RoomInv
<1>3. CASE StopPipeline \/ PipelineStopped \/ LeaveRoom \/ Part \/ Parted \/ CleanExit \/ RoomLost
  BY <1>3 DEF StopPipeline, PipelineStopped, LeaveRoom, Part, Parted, CleanExit, RoomLost
<1>4. CASE LoopCancelled \/ Backoff \/ LoopParts \/ LoopParted \/ Rejoin \/ SetRoom \/ PublishTrack
  BY <1>4 DEF LoopCancelled, Backoff, LoopParts, LoopParted, Rejoin, SetRoom, PublishTrack
<1>5. CASE UNCHANGED videoVars BY <1>5 DEF videoVars
<1>6. QED
  BY <1>1, <1>2, <1>3, <1>4, <1>5, CaptureFrames, TakeFrames, WriteFrames DEF VideoNext

LEMMA FramesOrdered ==
    ASSUME FramesInv
    PROVE  FramesKept
<1> DEFINE held     == IF hand = NoFrame THEN <<>> ELSE <<hand.frame>>
           underway == <<last>> \o held \o samples
<1> USE DEF FramesInv, CountInv, OrderInv, Empty
<1>1. CASE hand = NoFrame
  <2>1. held = <<>> BY <1>1
  <2>2. underway = <<last>> \o samples BY <2>1
  <2>3. Len(underway) = 1 + Len(samples) BY <2>2
  <2>4. underway[1] = last /\ \A i \in DOMAIN samples : underway[i + 1] = samples[i]
    BY <2>2
  <2>5. \A i \in 1 .. Len(underway) - 1 : underway[i] < underway[i + 1]
    <3>1. DOMAIN samples = 1 .. Len(samples) /\ 1 .. Len(underway) - 1 = 1 .. Len(samples)
          /\ Len(samples) \in Nat
      BY <2>3
    <3> HIDE DEF underway, held
    <3> SUFFICES ASSUME NEW i \in 1 .. Len(samples)
                 PROVE  underway[i] < underway[i + 1]
      BY <3>1
    <3>2. i \in DOMAIN samples /\ underway[i + 1] = samples[i] BY <2>4, <3>1
    <3>3. CASE i = 1 BY <2>4, <3>2, <3>3
    <3>4. CASE i # 1
      <4>1. i - 1 \in DOMAIN samples /\ (i - 1) + 1 = i BY <3>1, <3>2, <3>4
      <4>2. underway[i] = samples[i - 1] BY <2>4, <4>1
      <4>3. i - 1 < i BY <3>2
      <4>4. samples[i - 1] < samples[i] BY <3>2, <4>1, <4>3
      <4>5. QED BY <3>2, <4>2, <4>4
    <3>5. QED BY <3>3, <3>4
  <2>6. captured = overrun + Len(samples) + Len(held) + counted BY <1>1, <2>1
  <2>7. QED BY <2>5, <2>6 DEF FramesKept
<1>2. CASE hand # NoFrame
  <2>1. held = <<hand.frame>> BY <1>2
  <2>2. underway = <<last>> \o <<hand.frame>> \o samples BY <2>1
  <2>3. Len(underway) = 2 + Len(samples) BY <2>2
  <2>4. /\ underway[1] = last /\ underway[2] = hand.frame
        /\ \A i \in DOMAIN samples : underway[i + 2] = samples[i]
    <3> DEFINE front == <<last>> \o <<hand.frame>>
    <3>1. /\ front \in Seq(Nat) /\ Len(front) = 2
          /\ front[1] = last /\ front[2] = hand.frame
      <4>1. last \in Nat /\ hand.frame \in Nat BY <1>2
      <4> HIDE DEF FramesInv, CountInv, OrderInv, Empty
      <4>2. QED BY <4>1, Pair
    <3>2. samples \in Seq(Nat) /\ DOMAIN samples = 1 .. Len(samples) OBVIOUS
    <3>3. underway = front \o samples BY <2>2
    <3>4. \A i \in 1 .. Len(front) + Len(samples) :
             underway[i] = IF i <= Len(front) THEN front[i] ELSE samples[i - Len(front)]
      BY <3>1, <3>2, <3>3, ConcatProperties
    <3>5. underway[1] = front[1] /\ underway[2] = front[2]
      <4>1. 1 \in 1 .. Len(front) + Len(samples) /\ 2 \in 1 .. Len(front) + Len(samples)
        BY <3>1, <3>2
      <4>2. 1 <= Len(front) /\ 2 <= Len(front) BY <3>1
      <4>3. QED BY <3>4, <4>1, <4>2
    <3>6. ASSUME NEW i \in DOMAIN samples PROVE underway[i + 2] = samples[i]
      <4>1. i + 2 \in 1 .. 2 + Len(samples) /\ ~(i + 2 <= 2) /\ (i + 2) - 2 = i BY <3>2
      <4>2. QED BY <3>1, <3>4, <4>1
    <3> HIDE DEF underway, front
    <3>7. QED BY <3>1, <3>5, <3>6
  <2>5. \A i \in 1 .. Len(underway) - 1 : underway[i] < underway[i + 1]
    <3>1. TAKE i \in 1 .. Len(underway) - 1
    <3>2. CASE i = 1 BY <1>2, <2>4, <3>2
    <3>3. CASE i # 1
      <4>1. i - 1 \in DOMAIN samples /\ (i - 1) + 2 = i + 1 BY <2>3, <3>3
      <4>2. underway[i + 1] = samples[i - 1] BY <2>4, <4>1
      <4>3. CASE i = 2 BY <1>2, <2>4, <4>1, <4>2, <4>3
      <4>4. CASE i # 2
        <5>1. i - 2 \in DOMAIN samples /\ (i - 2) + 2 = i BY <3>3, <4>1, <4>4
        <5>2. underway[i] = samples[i - 2] BY <2>4, <5>1
        <5>3. i - 2 < i - 1 BY <4>1
        <5>4. samples[i - 2] < samples[i - 1] BY <4>1, <5>1, <5>3
        <5>5. QED BY <4>2, <5>2, <5>4
      <4>5. QED BY <4>3, <4>4
    <3>4. QED BY <3>2, <3>3
  <2>6. Len(held) = 1 BY <2>1
  <2>7. captured = overrun + Len(samples) + Len(held) + counted BY <1>2, <2>6
  <2>8. QED BY <2>5, <2>7 DEF FramesKept
<1>3. QED BY <1>1, <1>2

\* Frames reach the room in order, none twice, and each is accounted for
\* (pipeline.go:86-102, livekit.go:148-173).
THEOREM FramesAreKept == VideoSpec => []FramesKept
<1>1. RoomInv /\ [VideoNext]_videoVars => RoomInv'
  BY MainRoom, EndRoom, LoopRoom, StutterRoom DEF VideoNext
<1>2. FramesInv /\ RoomInv /\ [VideoNext]_videoVars => FramesInv' BY NextFrames
<1>3. FramesInv => FramesKept BY FramesOrdered
<1>4. QED BY <1>1, <1>2, <1>3, InitRoom, InitFrames, PTL DEF VideoSpec

-----------------------------------------------------------------------------
(* The types, with the limits of the channel and of the reconnections.     *)

\* A connection is made at the start, and one for every attempt but the one under way.
LimitInv ==
    /\ cancelled \in BOOLEAN /\ crossed \in BOOLEAN
    /\ pipe \in {"none", "ready", "playing", "draining", "stopped"}
    /\ loop \in LoopOver \cup LoopSteps
    /\ Len(samples) <= Capacity
    /\ attempts \in 0 .. maxReconnectAttempts + 1
    /\ loop # "failed" => attempts <= maxReconnectAttempts
    /\ made <= attempts + 1
    /\ loop \in {"waiting", "parting", "forgetting", "rejoining", "failed"} => made <= attempts
    /\ main \in {"creating", "starting", "connecting"} => made = 0
    /\ room \in 0 .. made

LEMMA InitLimits == VideoInit => LimitInv
<1>1. ASSUME VideoInit PROVE LimitInv
  <2>1. samples = <<>> /\ Len(samples) = 0 BY <1>1 DEF VideoInit
  <2>2. /\ cancelled = FALSE /\ crossed = FALSE /\ pipe = "none" /\ loop = "idle" /\ attempts = 0
        /\ made = 0 /\ room = 0
    BY <1>1 DEF VideoInit, None
  <2>3. Len(samples) <= Capacity /\ 0 \in 0 .. maxReconnectAttempts + 1 /\ 0 <= maxReconnectAttempts
    BY <2>1, VideoAssumption
  <2>4. cancelled \in BOOLEAN /\ crossed \in BOOLEAN BY <2>2
  <2>5. loop \in LoopOver /\ loop \notin {"waiting", "parting", "forgetting", "rejoining", "failed"}
    BY <2>2 DEF LoopOver
  <2>6. made <= attempts + 1 /\ room \in 0 .. made BY <2>2
  <2>7. QED BY <2>2, <2>3, <2>4, <2>5, <2>6 DEF LimitInv
<1>2. QED BY <1>1

LEMMA MainLimits ==
    ASSUME LimitInv, RoomInv,
           NewPipeline \/ StartPipeline \/ FirstConnect \/ FirstConnectFails
                       \/ AskedToStop \/ LoopFailed
    PROVE  LimitInv'
<1> USE VideoAssumption DEF LimitInv, RoomInv, LoopOver, LoopSteps, media, rooms, loopVars, Exit
<1>1. CASE NewPipeline BY <1>1 DEF NewPipeline
<1>2. CASE StartPipeline BY <1>2 DEF StartPipeline
<1>3. CASE FirstConnect
  <2>1. made = 0 /\ made' = 1 /\ room' = 1 /\ crossed' = crossed BY <1>3 DEF FirstConnect
  <2>2. QED BY <1>3, <2>1 DEF FirstConnect
<1>4. CASE FirstConnectFails
  <2>1. made = 0 /\ crossed' = crossed /\ room' \in 0 .. made' /\ made' \in 0 .. 1
    BY <1>4 DEF FirstConnectFails
  <2>2. pipe' \in {pipe, "stopped"} BY <1>4 DEF FirstConnectFails
  <2>3. QED BY <1>4, <2>1, <2>2 DEF FirstConnectFails
<1>5. CASE AskedToStop BY <1>5 DEF AskedToStop
<1>6. CASE LoopFailed BY <1>6 DEF LoopFailed
<1>7. QED BY <1>1, <1>2, <1>3, <1>4, <1>5, <1>6

LEMMA EndLimits ==
    ASSUME LimitInv, RoomInv,
           StopPipeline \/ PipelineStopped \/ LeaveRoom \/ Part \/ Parted \/ CleanExit
    PROVE  LimitInv'
<1> USE DEF LimitInv, RoomInv, media, rooms, loopVars, Exit, After
<1>1. CASE StopPipeline BY <1>1 DEF StopPipeline
<1>2. CASE PipelineStopped BY <1>2 DEF PipelineStopped
<1>3. CASE LeaveRoom BY <1>3 DEF LeaveRoom
<1>4. CASE Part BY <1>4 DEF Part, Leave
<1>5. CASE Parted BY <1>5 DEF Parted, Forget, None
<1>6. CASE CleanExit BY <1>6 DEF CleanExit
<1>7. QED BY <1>1, <1>2, <1>3, <1>4, <1>5, <1>6

LEMMA LoopLimits ==
    ASSUME LimitInv, RoomInv, FramesInv,
           WriteSample \/ WriteFails \/ LoopCancelled \/ Backoff \/ LoopParts \/ LoopParted
                       \/ Rejoin \/ SetRoom \/ PublishTrack \/ RoomLost
    PROVE  LimitInv'
<1> USE VideoAssumption DEF LimitInv, RoomInv, LoopOver, LoopSteps, media, rooms, loopVars, LoopRuns
<1>1. CASE WriteSample BY <1>1 DEF WriteSample
<1>2. CASE WriteFails
  <2>1. CASE cancelled BY <1>2, <2>1 DEF WriteFails
  <2>2. CASE ~cancelled BY <1>2, <2>2 DEF WriteFails
  <2>3. QED BY <2>1, <2>2
<1>3. CASE LoopCancelled BY <1>3 DEF LoopCancelled
<1>4. CASE Backoff BY <1>4 DEF Backoff
<1>5. CASE LoopParts BY <1>5 DEF LoopParts, Leave, Exit
<1>6. CASE LoopParted BY <1>6 DEF LoopParted, Forget, None
<1>7. CASE Rejoin
  <2>1. /\ loop = "rejoining" /\ loop' \in {"reading", "joined"}
        /\ UNCHANGED <<main, cancelled, pipe, attempts, samples, room>>
    BY <1>7 DEF Rejoin
  <2>2. made' \in {made, made + 1} /\ crossed' \in BOOLEAN BY <1>7 DEF Rejoin, HasLooked
  <2>3. main \notin {"creating", "starting", "connecting"} BY <2>1
  <2>4. QED BY <2>1, <2>2, <2>3
<1>8. CASE SetRoom BY <1>8 DEF SetRoom
<1>9. CASE PublishTrack BY <1>9 DEF PublishTrack
<1>10. CASE RoomLost BY <1>10 DEF RoomLost
<1>11. QED BY <1>1, <1>2, <1>3, <1>4, <1>5, <1>6, <1>7, <1>8, <1>9, <1>10

LEMMA ChannelLimits ==
    ASSUME LimitInv, RoomInv, FramesInv, Capture \/ TakeSample
    PROVE  LimitInv'
<1> USE DEF LimitInv, RoomInv, LoopOver, LoopSteps, rooms, loopVars, LoopRuns
<1>s. samples \in Seq(1 .. captured) /\ captured \in Nat
  BY DEF FramesInv, CountInv, OrderInv
<1>1. CASE Capture
  <2>1. CASE Len(samples) < Capacity
    <3>1. samples' = Append(samples, captured + 1) BY <1>1, <2>1 DEF Capture
    <3>2. samples \in Seq(Nat) BY <1>s
    <3>3. Len(samples') = Len(samples) + 1 /\ Len(samples) \in Nat BY <1>s, <3>1, <3>2
    <3>4. Len(samples') <= Capacity BY <2>1, <3>3, VideoAssumption
    <3>5. QED BY <1>1, <3>4 DEF Capture
  <2>2. CASE ~(Len(samples) < Capacity) BY <1>1, <2>2 DEF Capture
  <2>3. QED BY <2>1, <2>2
<1>2. CASE TakeSample
  <2>1. samples # <<>> /\ samples' = Tail(samples) BY <1>2 DEF TakeSample
  <2>2. Len(samples') <= Len(samples) BY <1>s, <2>1
  <2>3. Len(samples') <= Capacity BY <1>s, <2>1, <2>2, VideoAssumption
  <2>4. /\ UNCHANGED <<main, cancelled, pipe, attempts, made, room, crossed>>
        /\ loop = "reading" /\ loop' \in {"reading", "writing"}
    BY <1>2 DEF TakeSample
  <2>5. QED BY <2>3, <2>4
<1>3. QED BY <1>1, <1>2

LEMMA StutterLimits ==
    ASSUME LimitInv, UNCHANGED videoVars
    PROVE  LimitInv'
BY DEF LimitInv, videoVars, media, rooms, loopVars

LEMMA TypesFollow ==
    ASSUME RoomInv, FramesInv, LimitInv
    PROVE  VideoTypeOK
<1> USE DEF FramesInv, CountInv, OrderInv, HandInv, Empty
<1>1. hand.frame \in 0 .. captured
  <2>1. CASE Empty BY <2>1 DEF NoFrame
  <2>2. CASE ~Empty BY <2>2
  <2>3. QED BY <2>1, <2>2
<1>2. made \in 0 .. maxReconnectAttempts + 1
  BY VideoAssumption DEF RoomInv, LimitInv
<1>3. joined \subseteq 1 .. made
  BY DEF RoomInv, LimitInv, None
<1>4. QED
  BY <1>1, <1>2, <1>3 DEF RoomInv, LimitInv, VideoTypeOK

\* The channel never holds more samples than it was made for (pipeline.go:86-102), and
\* the room is joined no more often than the attempts allow (livekit.go:163-176).
THEOREM VideoTypes == VideoSpec => []VideoTypeOK
<1>1. RoomInv /\ [VideoNext]_videoVars => RoomInv'
  BY MainRoom, EndRoom, LoopRoom, StutterRoom DEF VideoNext
<1>2. FramesInv /\ RoomInv /\ [VideoNext]_videoVars => FramesInv' BY NextFrames
<1>3. LimitInv /\ RoomInv /\ FramesInv /\ [VideoNext]_videoVars => LimitInv'
  BY MainLimits, EndLimits, LoopLimits, ChannelLimits, StutterLimits DEF VideoNext
<1>4. RoomInv /\ FramesInv /\ LimitInv => VideoTypeOK BY TypesFollow
<1>5. QED BY <1>1, <1>2, <1>3, <1>4, InitRoom, InitFrames, InitLimits, PTL DEF VideoSpec

\* The frame in hand is one the conversion made.
HeldInv ==
    loop = "writing" => hand.unit \in Units /\ hand.data \in ToAnnexB(Encoded(hand.unit))

LEMMA NextHeld ==
    ASSUME HeldInv, [VideoNext]_videoVars
    PROVE  HeldInv'
<1> USE DEF HeldInv
<1>1. CASE TakeSample
  <2>1. CASE loop' = "writing"
    <3>1. PICK unit \in Units : \E data \in ToAnnexB(Encoded(unit)) :
             hand' = [frame |-> Head(samples), unit |-> unit, data |-> data]
      BY <1>1, <2>1 DEF TakeSample
    <3>2. hand'.unit = unit /\ hand'.data \in ToAnnexB(Encoded(unit)) BY <3>1
    <3>3. QED BY <3>1, <3>2
  <2>2. QED BY <2>1
<1>2. ASSUME ~TakeSample PROVE loop' = "writing" => loop = "writing" /\ hand' = hand
  BY <1>2 DEF VideoNext, NewPipeline, StartPipeline, FirstConnect, FirstConnectFails,
      AskedToStop, LoopFailed, StopPipeline, PipelineStopped, LeaveRoom, Part, Parted, CleanExit,
      Capture, WriteSample, WriteFails, LoopCancelled, Backoff, LoopParts, LoopParted, Rejoin,
      SetRoom, PublishTrack, RoomLost,
      videoVars, loopVars
<1>3. QED BY <1>1, <1>2

\* What the track is given decodes to what the encoder made, but for the units that
\* isAnnexB mistakes (avcc_to_annexb.go:49-130).
THEOREM FramesAreDecodable == VideoSpec => []Decodable
<1>1. VideoInit => HeldInv BY DEF VideoInit, HeldInv
<1>2. HeldInv /\ [VideoNext]_videoVars => HeldInv' BY NextHeld
<1>3. HeldInv => Decodable BY ConversionSound DEF HeldInv, Decodable
<1>4. QED BY <1>1, <1>2, <1>3, PTL DEF VideoSpec
===============================================================================
