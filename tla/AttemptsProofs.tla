--------------------------- MODULE AttemptsProofs ---------------------------
(***************************************************************************)
(* Proofs about the spoken attempts (Attempts) and the forced alignment of *)
(* their recordings (Alignment), for any words, transcripts, probabilities *)
(* and recordings.                                                         *)
(***************************************************************************)
EXTENDS Attempts, SequenceTheorems, FiniteSetTheorems, TLAPS
LOCAL INSTANCE SequencesExt
WF == INSTANCE WellFoundedInduction

----------------------------------------------------------------------------
(* Numbers                                                                 *)

\* A set of numbers that is not empty has a least one.
LEMMA LeastNumber ==
    ASSUME NEW T \in SUBSET Nat, T # {}
    PROVE  \E n \in T : \A m \in T : n <= m
<1>. DEFINE R == {x \in Nat \X Nat : x[1] < x[2]}
<1>1. WF!IsWellFoundedOn(R, Nat)
  BY WF!NatLessThanWellFounded DEF WF!OpToRel
<1>2. PICK n \in T : \A m \in T : ~(<<m, n>> \in R)
  <2>. HIDE DEF R
  <2>. QED
    BY <1>1, WF!WFMin
<1>3. ASSUME NEW m \in T PROVE n <= m
  <2>1. ~(m < n)
    BY <1>2
  <2>. QED
    BY <2>1
<1>. QED
  BY <1>3

\* What begins with 0 and goes on from each number to the next holds up to n.
LEMMA UpTo ==
    ASSUME NEW n \in Nat, NEW T \in SUBSET (0..n), 0 \in T,
           \A m \in 0..n : m + 1 \in 0..n /\ m \in T => m + 1 \in T
    PROVE  T = 0..n
<1>. DEFINE U == (0..n) \ T
<1>. SUFFICES ASSUME U # {} PROVE FALSE
  OBVIOUS
<1>0. U \in SUBSET Nat
  OBVIOUS
<1>1. PICK m \in U : \A k \in U : m <= k
  <2>. HIDE DEF U
  <2>. QED
    BY <1>0, LeastNumber
<1>2. m # 0 /\ m - 1 \in 0..n /\ (m - 1) + 1 = m
  BY <1>1
<1>3. m - 1 \in T
  BY <1>1, <1>2
<1>. QED
  BY <1>1, <1>2, <1>3

----------------------------------------------------------------------------
(* Recursion along a sequence                                              *)

\* A state in S that is carried along 1..n, each time by a step.
Carried(F, S, a, n, move) ==
    /\ F \in [0..n -> S] /\ F[0] = a
    /\ \A k \in 1..n : F[k] = move[k][F[k - 1]]

LEMMA Recursion ==
    ASSUME NEW S, NEW a \in S, NEW n \in Nat, NEW move, move \in [1..n -> [S -> S]]
    PROVE  \E F : Carried(F, S, a, n, move)
<1>. DEFINE T == {m \in 0..n : \E F \in [0..m -> S] :
                                  F[0] = a /\ \A k \in 1..m : F[k] = move[k][F[k - 1]]}
<1>1. 0 \in T
  <2>. DEFINE F == [k \in 0..0 |-> a]
  <2>1. F \in [0..0 -> S] /\ F[0] = a
    OBVIOUS
  <2>2. \A k \in 1..0 : FALSE
    OBVIOUS
  <2>. HIDE DEF F
  <2>. QED
    BY <2>1, <2>2
<1>2. ASSUME NEW m \in 0..n, m + 1 \in 0..n, m \in T PROVE m + 1 \in T
  <2>1. PICK F \in [0..m -> S] : F[0] = a /\ \A k \in 1..m : F[k] = move[k][F[k - 1]]
    BY <1>2
  <2>2. m + 1 \in 1..n /\ F[m] \in S
    BY <1>2
  <2>3. move[m + 1][F[m]] \in S
    BY <2>2
  <2>. DEFINE G == [k \in 0..(m + 1) |-> IF k = m + 1 THEN move[m + 1][F[m]] ELSE F[k]]
  <2>4. \A k \in 0..m : G[k] = F[k]
    OBVIOUS
  <2>5. G[m + 1] = move[m + 1][F[m]]
    OBVIOUS
  <2>6. \A k \in 0..(m + 1) : k = m + 1 \/ k \in 0..m
    OBVIOUS
  <2>7. G \in [0..(m + 1) -> S]
    BY <2>3, <2>6
  <2>. HIDE DEF G
  <2>8. G[0] = a
    BY <2>1, <2>4
  <2>9. ASSUME NEW k \in 1..(m + 1) PROVE G[k] = move[k][G[k - 1]]
    <3>1. CASE k = m + 1
      <4>1. k - 1 = m /\ G[m] = F[m]
        BY <2>4, <3>1
      <4>. QED
        BY <2>5, <3>1, <4>1
    <3>2. CASE k \in 1..m
      <4>1. k \in 0..m /\ k - 1 \in 0..m
        BY <3>2
      <4>2. G[k] = F[k] /\ G[k - 1] = F[k - 1]
        BY <2>4, <4>1
      <4>. QED
        BY <2>1, <3>2, <4>2
    <3>. QED
      BY <3>1, <3>2
  <2>. QED
    BY <1>2, <2>7, <2>8, <2>9
<1>3. T = 0..n
  <2>1. T \in SUBSET (0..n)
    OBVIOUS
  <2>. HIDE DEF T
  <2>. QED
    BY <1>1, <1>2, <2>1, UpTo
<1>4. n \in T
  <2>. HIDE DEF T
  <2>. QED
    BY <1>3
<1>. QED
  BY <1>4 DEF Carried

\* A function that follows the steps as long as it stays in S is carried by them.
LEMMA Carries ==
    ASSUME NEW S, NEW a \in S, NEW n \in Nat, NEW move, move \in [1..n -> [S -> S]],
           NEW F, F = [k \in 0..n |-> F[k]], F[0] = a,
           \A k \in 1..n : F[k - 1] \in S => F[k] = move[k][F[k - 1]]
    PROVE  Carried(F, S, a, n, move)
<1>. DEFINE T == {k \in 0..n : F[k] \in S}
<1>1. 0 \in T
  OBVIOUS
<1>2. ASSUME NEW m \in 0..n, m + 1 \in 0..n, m \in T PROVE m + 1 \in T
  <2>1. m + 1 \in 1..n /\ (m + 1) - 1 = m
    BY <1>2
  <2>2. F[m + 1] = move[m + 1][F[m]]
    BY <1>2, <2>1
  <2>3. move[m + 1][F[m]] \in S
    BY <1>2, <2>1
  <2>. QED
    BY <1>2, <2>2, <2>3
<1>3. T = 0..n
  <2>1. T \in SUBSET (0..n)
    OBVIOUS
  <2>. HIDE DEF T
  <2>. QED
    BY <1>1, <1>2, <2>1, UpTo
<1>4. \A k \in 0..n : F[k] \in S
  BY <1>3
<1>5. \A k \in 1..n : k - 1 \in 0..n
  OBVIOUS
<1>6. F \in [0..n -> S]
  BY <1>4
<1>7. \A k \in 1..n : F[k] = move[k][F[k - 1]]
  BY <1>4, <1>5
<1>. QED
  BY <1>6, <1>7 DEF Carried

----------------------------------------------------------------------------
(* Alignment: what is computed along a recording                           *)

Totals(total, recording, labels) ==
    /\ total \in [0..Len(recording) -> Int] /\ total[0] = 0
    /\ \A f \in 1..Len(recording) : total[f] = total[f - 1] + recording[f][labels[f]]

LEMMA LikelihoodIs ==
    ASSUME NEW recording, Recording(recording),
           NEW labels \in [1..Len(recording) -> DOMAIN recording[1]]
    PROVE  \E total : Totals(total, recording, labels) /\ Likelihood(recording, labels) = total[Len(recording)]
<1>. DEFINE n == Len(recording)
            move == [k \in 1..n |-> [x \in Int |-> x + recording[k][labels[k]]]]
            Rule(g) == g = [f \in 0..n |-> IF f = 0 THEN 0 ELSE g[f - 1] + recording[f][labels[f]]]
            total == CHOOSE g : Rule(g)
<1>1. n \in Nat /\ \A k \in 1..n : recording[k][labels[k]] \in Int
  <2>1. n \in Nat
    BY DEF Recording
  <2>2. ASSUME NEW k \in 1..n PROVE recording[k][labels[k]] \in Int
    <3>1. recording[k] \in [DOMAIN recording[1] -> Int]
      BY DEF Recording
    <3>2. labels[k] \in DOMAIN recording[1]
      OBVIOUS
    <3>. QED
      BY <3>1, <3>2
  <2>. QED
    BY <2>1, <2>2
<1>2. move \in [1..n -> [Int -> Int]] /\ \A k \in 1..n : \A x \in Int : move[k][x] = x + recording[k][labels[k]]
  BY <1>1
<1>3. PICK F : F \in [0..n -> Int] /\ F[0] = 0 /\ \A k \in 1..n : F[k] = move[k][F[k - 1]]
  <2>. DEFINE S == Int
              a == 0
  <2>1. n \in Nat /\ a \in S /\ move \in [1..n -> [S -> S]]
    BY <1>1, <1>2
  <2>. HIDE DEF move, n, S, a
  <2>2. \E F : Carried(F, S, a, n, move)
    BY <2>1, Recursion
  <2>. QED
    BY <2>2 DEF Carried, S, a
<1>. HIDE DEF move, n
<1>4. Rule(F)
  <2>1. \A k \in 0..n : k # 0 => k \in 1..n /\ k - 1 \in 0..n
    BY <1>1
  <2>2. \A k \in 0..n : F[k] = IF k = 0 THEN 0 ELSE F[k - 1] + recording[k][labels[k]]
    BY <1>2, <1>3, <2>1
  <2>. QED
    BY <1>3, <2>2
<1>5. Rule(total)
  <2>. HIDE DEF Rule
  <2>. QED
    BY <1>4
<1>6. Likelihood(recording, labels) = total[n]
  BY DEF Likelihood, n
<1>. HIDE DEF total
<1>7. total = [k \in 0..n |-> total[k]] /\ total[0] = 0 /\ \A k \in 1..n : total[k] = total[k - 1] + recording[k][labels[k]]
  <2>1. \A k \in 1..n : k \in 0..n /\ k # 0
    BY <1>1
  <2>. QED
    BY <1>1, <1>5, <2>1
<1>8. Carried(total, Int, 0, n, move)
  <2>. DEFINE S == Int
              a == 0
  <2>1. n \in Nat /\ a \in S /\ move \in [1..n -> [S -> S]]
    BY <1>1, <1>2
  <2>2. /\ total = [k \in 0..n |-> total[k]] /\ total[0] = a
        /\ \A k \in 1..n : total[k - 1] \in S => total[k] = move[k][total[k - 1]]
    BY <1>2, <1>7
  <2>. HIDE DEF S, a
  <2>3. Carried(total, S, a, n, move)
    BY <2>1, <2>2, Carries
  <2>. QED
    BY <2>3 DEF S, a
<1>. QED
  BY <1>6, <1>7, <1>8 DEF Carried, Totals, n

\* What has been said up to a frame.
Says(said, labels, D) ==
    /\ said \in [0..Len(labels) -> Seq(D)] /\ said[0] = <<>>
    /\ \A f \in 1..Len(labels) :
           LET begins == labels[f] # BlankId /\ (f > 1 => labels[f] # labels[f - 1])
           IN  /\ begins => said[f] = Append(said[f - 1], labels[f])
               /\ ~begins => said[f] = said[f - 1]

LEMMA CollapsedIs ==
    ASSUME NEW D, NEW labels \in Seq(D)
    PROVE  \E said : Says(said, labels, D) /\ Collapsed(labels) = said[Len(labels)]
<1>. DEFINE n == Len(labels)
            S == Seq(D)
            begins(f) == labels[f] # BlankId /\ (f > 1 => labels[f] # labels[f - 1])
            move == [k \in 1..n |-> [x \in S |-> IF begins(k) THEN Append(x, labels[k]) ELSE x]]
            Rule(g) == g = [f \in 0..n |-> IF f = 0 THEN <<>>
                               ELSE IF begins(f) THEN Append(g[f - 1], labels[f]) ELSE g[f - 1]]
            a == <<>>
            said == CHOOSE g : Rule(g)
<1>1. n \in Nat /\ a \in S /\ \A k \in 1..n : labels[k] \in D
  OBVIOUS
<1>2. Collapsed(labels) = said[n]
  BY DEF Collapsed
<1>. HIDE DEF begins
<1>3. move \in [1..n -> [S -> S]]
  <2>. SUFFICES ASSUME NEW k \in 1..n, NEW x \in S PROVE (IF begins(k) THEN Append(x, labels[k]) ELSE x) \in S
    OBVIOUS
  <2>. QED
    BY <1>1
<1>4. \A k \in 1..n : \A x \in S : move[k][x] = IF begins(k) THEN Append(x, labels[k]) ELSE x
  OBVIOUS
<1>. HIDE DEF move, n, S
<1>5. PICK F : F \in [0..n -> S] /\ F[0] = a /\ \A k \in 1..n : F[k] = move[k][F[k - 1]]
  <2>. HIDE DEF a
  <2>1. \E F : Carried(F, S, a, n, move)
    BY <1>1, <1>3, Recursion
  <2>. QED
    BY <2>1 DEF Carried
<1>6. Rule(F)
  <2>1. \A k \in 0..n : k # 0 => k \in 1..n /\ k - 1 \in 0..n
    BY <1>1
  <2>2. ASSUME NEW k \in 0..n
        PROVE  F[k] = IF k = 0 THEN <<>> ELSE IF begins(k) THEN Append(F[k - 1], labels[k]) ELSE F[k - 1]
    <3>1. CASE k = 0
      BY <1>5, <3>1
    <3>2. CASE k # 0
      <4>1. F[k - 1] \in S /\ k \in 1..n
        BY <1>5, <2>1, <3>2
      <4>. DEFINE x == F[k - 1]
      <4>2. move[k][x] = IF begins(k) THEN Append(x, labels[k]) ELSE x
        BY <1>4, <4>1
      <4>. QED
        BY <1>5, <3>2, <4>1, <4>2
    <3>. QED
      BY <3>1, <3>2
  <2>. QED
    BY <1>5, <2>2
<1>7. Rule(said)
  <2>. HIDE DEF Rule
  <2>. QED
    BY <1>6
<1>. HIDE DEF said
<1>8. said = [k \in 0..n |-> said[k]] /\ said[0] = a
      /\ \A k \in 1..n : said[k] = IF begins(k) THEN Append(said[k - 1], labels[k]) ELSE said[k - 1]
  <2>1. \A k \in 1..n : k \in 0..n /\ k # 0
    BY <1>1
  <2>2. \A k \in 0..n : said[k] = IF k = 0 THEN <<>>
                               ELSE IF begins(k) THEN Append(said[k - 1], labels[k]) ELSE said[k - 1]
    BY <1>7
  <2>3. ASSUME NEW k \in 1..n
        PROVE  said[k] = IF begins(k) THEN Append(said[k - 1], labels[k]) ELSE said[k - 1]
    <3>1. k \in 0..n /\ k # 0
      BY <2>1
    <3>2. said[k] = IF k = 0 THEN <<>> ELSE IF begins(k) THEN Append(said[k - 1], labels[k]) ELSE said[k - 1]
      BY <2>2, <3>1
    <3>. QED
      BY <3>1, <3>2
  <2>4. said[0] = a
    <3>1. 0 \in 0..n
      BY <1>1
    <3>. QED
      BY <2>2, <3>1
  <2>5. said = [k \in 0..n |-> said[k]]
    BY <1>7
  <2>. QED
    BY <2>3, <2>4, <2>5
<1>9. Carried(said, S, a, n, move)
  <2>1. \A k \in 1..n : said[k - 1] \in S => said[k] = move[k][said[k - 1]]
    BY <1>4, <1>8
  <2>. HIDE DEF a
  <2>. QED
    BY <1>1, <1>3, <1>8, <2>1, Carries
<1>10. /\ said \in [0..n -> S] /\ said[0] = <<>>
       /\ \A k \in 1..n : /\ begins(k) => said[k] = Append(said[k - 1], labels[k])
                          /\ ~begins(k) => said[k] = said[k - 1]
  BY <1>8, <1>9 DEF Carried
<1>. QED
  BY <1>2, <1>10 DEF Says, n, S, begins

LEMMA KnownIs ==
    ASSUME NEW recording, NEW expected \in Seq(Nat)
    PROVE  Known(recording, expected) \in Seq(Phonemes(recording))
<1>. DEFINE n == Len(expected)
            P == Phonemes(recording)
            S == Seq(P)
            move == [k \in 1..n |-> [x \in S |-> IF expected[k] \in P THEN Append(x, expected[k]) ELSE x]]
            Rule(g) == g = [k \in 0..n |-> IF k = 0 THEN <<>>
                               ELSE IF expected[k] \in P THEN Append(g[k - 1], expected[k]) ELSE g[k - 1]]
            a == <<>>
            known == CHOOSE g : Rule(g)
<1>1. n \in Nat /\ a \in S
  OBVIOUS
<1>2. Known(recording, expected) = known[n]
  BY DEF Known
<1>. HIDE DEF P
<1>3. move \in [1..n -> [S -> S]]
  OBVIOUS
<1>4. \A k \in 1..n : \A x \in S : move[k][x] = IF expected[k] \in P THEN Append(x, expected[k]) ELSE x
  OBVIOUS
<1>. HIDE DEF move, n, S
<1>5. PICK F : F \in [0..n -> S] /\ F[0] = a /\ \A k \in 1..n : F[k] = move[k][F[k - 1]]
  <2>. HIDE DEF a
  <2>1. \E F : Carried(F, S, a, n, move)
    BY <1>1, <1>3, Recursion
  <2>. QED
    BY <2>1 DEF Carried
<1>6. Rule(F)
  <2>1. ASSUME NEW k \in 0..n
        PROVE  F[k] = IF k = 0 THEN <<>> ELSE IF expected[k] \in P THEN Append(F[k - 1], expected[k]) ELSE F[k - 1]
    <3>1. CASE k = 0
      BY <1>5, <3>1
    <3>2. CASE k # 0
      <4>1. k - 1 \in 0..n /\ k \in 1..n
        BY <1>1, <3>2
      <4>. DEFINE x == F[k - 1]
      <4>2. x \in S
        BY <1>5, <4>1
      <4>3. move[k][x] = IF expected[k] \in P THEN Append(x, expected[k]) ELSE x
        BY <1>4, <4>1, <4>2
      <4>. QED
        BY <1>5, <3>2, <4>1, <4>3
    <3>. QED
      BY <3>1, <3>2
  <2>. QED
    BY <1>5, <2>1
<1>7. Rule(known)
  <2>. HIDE DEF Rule
  <2>. QED
    BY <1>6
<1>. HIDE DEF known
<1>8. known = [k \in 0..n |-> known[k]]
      /\ \A k \in 0..n : known[k] = IF k = 0 THEN <<>>
                               ELSE IF expected[k] \in P THEN Append(known[k - 1], expected[k]) ELSE known[k - 1]
  BY <1>7
<1>9. ASSUME NEW k \in 1..n, known[k - 1] \in S PROVE known[k] = move[k][known[k - 1]]
  <2>1. k \in 0..n /\ k # 0
    BY <1>1
  <2>2. known[k] = IF k = 0 THEN <<>>
                   ELSE IF expected[k] \in P THEN Append(known[k - 1], expected[k]) ELSE known[k - 1]
    BY <1>8, <2>1
  <2>. DEFINE x == known[k - 1]
  <2>3. move[k][x] = IF expected[k] \in P THEN Append(x, expected[k]) ELSE x
    BY <1>4, <1>9
  <2>. QED
    BY <2>1, <2>2, <2>3
<1>10. known[0] = a
  <2>1. 0 \in 0..n
    BY <1>1
  <2>. QED
    BY <1>8, <2>1
<1>11. Carried(known, S, a, n, move)
  <2>1. known = [k \in 0..n |-> known[k]]
    BY <1>8
  <2>. HIDE DEF a
  <2>. QED
    BY <1>1, <1>3, <1>9, <1>10, <2>1, Carries
<1>. QED
  BY <1>1, <1>2, <1>11 DEF Carried, S, P

\* A recording and the phonemes that are looked for in it.
Aligning(recording, ids) ==
    /\ Recording(recording) /\ recording # <<>>
    /\ ids \in Seq(Phonemes(recording)) /\ ids # <<>>
Last2(ids) == 2 * Len(ids) + 1
Cell(L) == [reached : BOOLEAN, value : Int, back : 0..L]
Row(L) == [1..L -> Cell(L)]

\* The extended labels: a blank, a phoneme, ..., a blank.
LEMMA ExtendedIs ==
    ASSUME NEW recording, NEW ids, Aligning(recording, ids), NEW ext, ext = Extended(ids)
    PROVE  /\ Len(ids) \in Nat /\ Len(ids) > 0 /\ Last2(ids) \in Nat /\ Last2(ids) >= 3
           /\ ext \in [1..Last2(ids) -> DOMAIN recording[1]]
           /\ \A i \in 1..Len(ids) : ext[2 * i] = ids[i] /\ ids[i] \in DOMAIN recording[1] /\ ids[i] # BlankId
           /\ \A i \in 0..Len(ids) : ext[2 * i + 1] = BlankId
<1>1. Len(ids) \in Nat /\ Len(ids) > 0
  BY DEF Aligning
<1>2. Last2(ids) \in Nat /\ Last2(ids) >= 3
  BY <1>1 DEF Last2
<1>3. \A i \in 1..Len(ids) : ids[i] \in DOMAIN recording[1] /\ ids[i] # BlankId
  BY DEF Aligning, Phonemes
<1>4. BlankId \in DOMAIN recording[1]
  BY DEF Aligning, Recording
<1>5. ext = [s \in 1..Last2(ids) |-> IF s % 2 = 0 THEN ids[s \div 2] ELSE BlankId]
  BY DEF Extended, Last2
<1>6. \A s \in 1..Last2(ids) : s % 2 = 0 => s \div 2 \in 1..Len(ids)
  BY <1>1 DEF Last2
<1>7. ext \in [1..Last2(ids) -> DOMAIN recording[1]]
  BY <1>3, <1>4, <1>5, <1>6
<1>8. ASSUME NEW i \in 1..Len(ids) PROVE ext[2 * i] = ids[i]
  <2>1. 2 * i \in 1..Last2(ids) /\ (2 * i) % 2 = 0 /\ (2 * i) \div 2 = i
    BY <1>1 DEF Last2
  <2>. QED
    BY <1>5, <2>1
<1>9. ASSUME NEW i \in 0..Len(ids) PROVE ext[2 * i + 1] = BlankId
  <2>1. 2 * i + 1 \in 1..Last2(ids) /\ (2 * i + 1) % 2 # 0
    BY <1>1 DEF Last2
  <2>. QED
    BY <1>5, <2>1
<1>. QED
  BY <1>1, <1>2, <1>3, <1>7, <1>8, <1>9

\* A cell is that of a phoneme or of a blank.
LEMMA CellIs ==
    ASSUME NEW n \in Nat, NEW s \in 1..(2 * n + 1)
    PROVE  (\E i \in 1..n : s = 2 * i) \/ (\E i \in 0..n : s = 2 * i + 1)
<1>1. CASE s % 2 = 0
  <2>1. s \div 2 \in 1..n /\ s = 2 * (s \div 2)
    BY <1>1
  <2>. QED
    BY <2>1
<1>2. CASE s % 2 # 0
  <2>1. s \div 2 \in 0..n /\ s = 2 * (s \div 2) + 1
    BY <1>2
  <2>. QED
    BY <2>1
<1>. QED
  BY <1>1, <1>2

LEMMA PredecessorsAre ==
    ASSUME NEW L \in Nat, NEW ext, NEW s \in 1..L
    PROVE  \A p \in Predecessors(ext, s) : p \in 1..L /\ (p = s \/ p = s - 1 \/ p = s - 2)
  BY DEF Predecessors

LEMMA GreatestIs ==
    ASSUME NEW S, NEW m \in S, \A x \in S : x \in Int /\ m >= x
    PROVE  Max(S) = m
<1>1. \A k \in S : (\A x \in S : k >= x) => k = m
  OBVIOUS
<1>. QED
  BY <1>1 DEF Max

LEMMA BestIs ==
    ASSUME NEW L \in Nat, NEW row \in Row(L), NEW s \in 1..L, NEW from \in SUBSET (1..L),
           \A p \in from : p = s \/ p = s - 1 \/ p = s - 2, from # {}
    PROVE  BestOf(row, from) \in from /\ \A q \in from : row[q].value <= row[BestOf(row, from)].value
<1>. DEFINE v(p) == row[p].value
            over(p, q) == v(q) < v(p) \/ (v(q) = v(p) /\ q <= p)
            best(p) == \A q \in from : over(p, q)
<1>1. \A p \in from : v(p) \in Int /\ p \in Int
  BY DEF Row, Cell
<1>. HIDE DEF v
<1>2. \A p, q \in from : over(p, q) \/ over(q, p)
  BY <1>1
<1>3. \A p, q, r \in from : over(p, q) /\ over(q, r) => over(p, r)
  BY <1>1
<1>4. \A p \in from : over(p, p)
  BY <1>1
<1>. HIDE DEF over
<1>5. \E p \in from : best(p)
  <2>1. ASSUME NEW p \in from, NEW q \in from, NEW r \in from, \A x \in from : x = p \/ x = q \/ x = r
        PROVE  \E x \in from : best(x)
    BY <1>2, <1>3, <1>4, <2>1
  <2>. HIDE DEF best
  <2>2. PICK p \in from : TRUE
    OBVIOUS
  <2>3. CASE \A x \in from : x = p
    BY <2>1, <2>3
  <2>4. CASE \E q \in from : q # p
    <3>1. PICK q \in from : q # p
      BY <2>4
    <3>2. CASE \A x \in from : x = p \/ x = q
      BY <2>1, <3>2
    <3>3. CASE \E r \in from : r # p /\ r # q
      <4>1. PICK r \in from : r # p /\ r # q
        BY <3>3
      <4>2. \A x \in from : x = p \/ x = q \/ x = r
        BY <3>1, <4>1
      <4>. QED
        BY <2>1, <4>2
    <3>. QED
      BY <3>2, <3>3
  <2>. QED
    BY <2>3, <2>4
<1>6. PICK p \in from : best(p)
  BY <1>5
<1>7. \A q \in from : v(q) <= v(p) /\ (v(q) = v(p) => q <= p)
  BY <1>1, <1>6 DEF over
<1>. HIDE DEF best
<1>8. BestOf(row, from) = Max({q \in from : v(q) = Max({v(r) : r \in from})})
  BY DEF BestOf, v
<1>9. Max({v(r) : r \in from}) = v(p)
  <2>1. v(p) \in {v(r) : r \in from} /\ \A x \in {v(r) : r \in from} : x \in Int /\ v(p) >= x
    BY <1>1, <1>7
  <2>. QED
    BY <2>1, GreatestIs
<1>10. Max({q \in from : v(q) = v(p)}) = p
  <2>1. p \in {q \in from : v(q) = v(p)} /\ \A q \in {q \in from : v(q) = v(p)} : q \in Int /\ p >= q
    BY <1>1, <1>7
  <2>. QED
    BY <2>1, GreatestIs
<1>11. BestOf(row, from) = p
  BY <1>8, <1>9, <1>10
<1>. QED
  BY <1>7, <1>11 DEF v

\* A row takes each of its cells from the best cell before it, if one is reached.
Follows(row, next, frame, ext, L) ==
    \A s \in 1..L :
        /\ next[s].reached <=> \E p \in Predecessors(ext, s) : row[p].reached
        /\ next[s].reached => /\ next[s].back \in Predecessors(ext, s) /\ row[next[s].back].reached
                              /\ next[s].value = row[next[s].back].value + frame[ext[s]]
        /\ \A p \in Predecessors(ext, s) : row[p].reached => row[p].value + frame[ext[s]] <= next[s].value

LEMMA NextRowIs ==
    ASSUME NEW L \in Nat, NEW D, NEW ext \in [1..L -> D], NEW frame \in [D -> Int], NEW row \in Row(L)
    PROVE  NextRow(row, frame, ext) \in Row(L) /\ Follows(row, NextRow(row, frame, ext), frame, ext, L)
<1>. DEFINE next == NextRow(row, frame, ext)
            from(s) == {p \in Predecessors(ext, s) : row[p].reached}
            best(s) == BestOf(row, from(s))
<1>1. next = [s \in 1..L |-> IF from(s) = {} THEN Unreached
                  ELSE [reached |-> TRUE, value |-> row[best(s)].value + frame[ext[s]], back |-> best(s)]]
  BY DEF NextRow
<1>2. ASSUME NEW s \in 1..L
      PROVE  /\ from(s) = {} => next[s] = Unreached
             /\ from(s) # {} => /\ next[s].reached /\ next[s].back = best(s)
                                /\ next[s].value = row[best(s)].value + frame[ext[s]]
                                /\ best(s) \in from(s) /\ \A q \in from(s) : row[q].value <= row[best(s)].value
             /\ next[s] \in Cell(L)
             /\ frame[ext[s]] \in Int /\ \A p \in from(s) : row[p].value \in Int
  <2>. HIDE DEF next
  <2>1. \A p \in from(s) : p \in 1..L /\ (p = s \/ p = s - 1 \/ p = s - 2)
    BY PredecessorsAre
  <2>2. frame[ext[s]] \in Int /\ \A p \in from(s) : row[p].value \in Int
    BY <2>1 DEF Row, Cell
  <2>3. CASE from(s) = {}
    <3>1. next[s] = Unreached
      BY <1>1, <2>3
    <3>2. Unreached \in Cell(L)
      BY DEF Unreached, Cell
    <3>. QED
      BY <2>2, <2>3, <3>1, <3>2
  <2>4. CASE from(s) # {}
    <3>. DEFINE b == best(s)
                value == row[b].value + frame[ext[s]]
    <3>1. b \in from(s) /\ \A q \in from(s) : row[q].value <= row[b].value
      <4>. DEFINE G == from(s)
      <4>1. G \in SUBSET (1..L) /\ (\A p \in G : p = s \/ p = s - 1 \/ p = s - 2) /\ G # {}
        BY <2>1, <2>4
      <4>2. b = BestOf(row, G)
        OBVIOUS
      <4>. HIDE DEF G
      <4>3. BestOf(row, G) \in G /\ \A q \in G : row[q].value <= row[BestOf(row, G)].value
        BY <4>1, BestIs
      <4>. QED
        BY <4>2, <4>3 DEF G
    <3>2. next[s] = [reached |-> TRUE, value |-> value, back |-> b]
      BY <1>1, <2>4
    <3>. HIDE DEF b
    <3>3. b \in 1..L /\ row[b].value \in Int
      BY <2>1, <2>2, <3>1
    <3>4. value \in Int
      BY <2>2, <3>3
    <3>5. next[s].reached /\ next[s].back = b /\ next[s].value = value
      BY <3>2
    <3>6. next[s] \in Cell(L)
      BY <3>2, <3>3, <3>4 DEF Cell
    <3>. QED
      BY <2>2, <2>4, <3>1, <3>5, <3>6 DEF b
  <2>. QED
    BY <2>3, <2>4
<1>3. next \in Row(L)
  <2>1. next = [s \in 1..L |-> next[s]]
    BY <1>1
  <2>. HIDE DEF next
  <2>. QED
    BY <1>2, <2>1 DEF Row
<1>4. ASSUME NEW s \in 1..L
      PROVE  /\ next[s].reached <=> \E p \in Predecessors(ext, s) : row[p].reached
             /\ next[s].reached => /\ next[s].back \in Predecessors(ext, s) /\ row[next[s].back].reached
                                   /\ next[s].value = row[next[s].back].value + frame[ext[s]]
             /\ \A p \in Predecessors(ext, s) : row[p].reached => row[p].value + frame[ext[s]] <= next[s].value
  <2>. HIDE DEF next
  <2>0. \A p : p \in from(s) <=> p \in Predecessors(ext, s) /\ row[p].reached
    OBVIOUS
  <2>. HIDE DEF from
  <2>1. CASE from(s) = {}
    <3>1. next[s] = Unreached
      BY <1>2, <2>1
    <3>2. next[s].reached = FALSE
      BY <3>1 DEF Unreached
    <3>. QED
      BY <2>0, <2>1, <3>2
  <2>2. CASE from(s) # {}
    <3>. DEFINE b == best(s)
    <3>1. /\ next[s].reached /\ next[s].back = b /\ next[s].value = row[b].value + frame[ext[s]]
          /\ b \in from(s) /\ \A q \in from(s) : row[q].value <= row[b].value
          /\ frame[ext[s]] \in Int /\ \A p \in from(s) : row[p].value \in Int
      BY <1>2, <2>2
    <3>. HIDE DEF b
    <3>2. ASSUME NEW p \in Predecessors(ext, s), row[p].reached PROVE row[p].value + frame[ext[s]] <= next[s].value
      <4>1. row[p].value <= row[b].value /\ row[p].value \in Int /\ row[b].value \in Int
        BY <2>0, <3>1, <3>2
      <4>. QED
        BY <3>1, <4>1
    <3>. QED
      BY <2>0, <3>1, <3>2
  <2>. QED
    BY <2>1, <2>2
<1>. HIDE DEF next
<1>5. Follows(row, next, frame, ext, L)
  BY <1>4 DEF Follows
<1>. QED
  BY <1>3, <1>5 DEF next

\* The trellis: its first row is the opening one, and each row follows the one before.
IsTrellis(rows, recording, ext, L) ==
    /\ rows \in [1..Len(recording) -> Row(L)]
    /\ rows[1] = OpeningRow(recording[1], ext)
    /\ \A f \in 2..Len(recording) : Follows(rows[f - 1], rows[f], recording[f], ext, L)

LEMMA TrellisIs ==
    ASSUME NEW recording, NEW ids, Aligning(recording, ids), NEW ext, ext = Extended(ids), NEW L, L = Last2(ids)
    PROVE  IsTrellis(Trellis(recording, ext), recording, ext, L)
<1>. DEFINE n == Len(recording)
            D == DOMAIN recording[1]
            S == Row(L)
            a == OpeningRow(recording[1], ext)
            N(f, row) == NextRow(row, recording[f], ext)
            move == [k \in 1..(n - 1) |-> [row \in S |-> N(k + 1, row)]]
            Rule(g) == g = [f \in 1..n |-> IF f = 1 THEN a ELSE N(f, g[f - 1])]
            rows == CHOOSE g : Rule(g)
<1>1. n \in Nat /\ n >= 1 /\ n - 1 \in Nat /\ \A f \in 1..n : recording[f] \in [D -> Int]
  BY DEF Aligning, Recording
<1>2. L \in Nat /\ ext \in [1..L -> D]
  BY ExtendedIs
<1>3. Trellis(recording, ext) = rows
  BY DEF Trellis
<1>4. ASSUME NEW f \in 1..n, NEW row \in S PROVE N(f, row) \in S /\ Follows(row, N(f, row), recording[f], ext, L)
  <2>1. recording[f] \in [D -> Int]
    BY <1>1
  <2>. HIDE DEF D, n
  <2>. QED
    BY <1>2, <2>1, NextRowIs
<1>5. a \in S
  <2>1. recording[1] \in [D -> Int]
    BY <1>1
  <2>2. DOMAIN ext = 1..L /\ \A s \in 1..L : recording[1][ext[s]] \in Int
    BY <1>2, <2>1
  <2>3. ASSUME NEW s \in 1..L
        PROVE  (IF s <= 2 THEN [reached |-> TRUE, value |-> recording[1][ext[s]], back |-> 0] ELSE Unreached) \in Cell(L)
    BY <1>2, <2>2 DEF Cell, Unreached
  <2>. QED
    BY <2>2, <2>3 DEF OpeningRow, Row
<1>. HIDE DEF N, a, S, n
<1>6. \A k \in 1..(n - 1) : k + 1 \in 1..n /\ (k + 1) - 1 = k /\ k - 1 \in 0..(n - 1)
  BY <1>1
<1>7. move \in [1..(n - 1) -> [S -> S]] /\ \A k \in 1..(n - 1) : \A row \in S : move[k][row] = N(k + 1, row)
  <2>1. \A k \in 1..(n - 1) : \A row \in S : N(k + 1, row) \in S
    BY <1>4, <1>6
  <2>. QED
    BY <2>1
<1>. HIDE DEF move
<1>8. PICK F : F \in [0..(n - 1) -> S] /\ F[0] = a /\ \A k \in 1..(n - 1) : F[k] = move[k][F[k - 1]]
  <2>. DEFINE m == n - 1
  <2>1. m \in Nat /\ move \in [1..m -> [S -> S]]
    BY <1>1, <1>7
  <2>. HIDE DEF m
  <2>2. \E F : Carried(F, S, a, m, move)
    BY <1>5, <2>1, Recursion
  <2>. QED
    BY <2>2 DEF Carried, m
<1>9. \E g : Rule(g)
  <2>. DEFINE G == [f \in 1..n |-> F[f - 1]]
  <2>1. ASSUME NEW f \in 1..n PROVE G[f] = IF f = 1 THEN a ELSE N(f, G[f - 1])
    <3>1. CASE f = 1
      BY <1>8, <3>1
    <3>2. CASE f # 1
      <4>1. f - 1 \in 1..(n - 1) /\ f - 1 \in 1..n /\ (f - 1) + 1 = f /\ (f - 1) - 1 \in 0..(n - 1)
        BY <1>1, <3>2
      <4>2. F[f - 1] = move[f - 1][F[(f - 1) - 1]] /\ F[(f - 1) - 1] \in S
        BY <1>8, <4>1
      <4>3. F[f - 1] = N(f, F[(f - 1) - 1])
        BY <1>7, <4>1, <4>2
      <4>4. G[f] = F[f - 1] /\ G[f - 1] = F[(f - 1) - 1]
        BY <4>1
      <4>. QED
        BY <3>2, <4>3, <4>4
    <3>. QED
      BY <3>1, <3>2
  <2>2. G = [f \in 1..n |-> G[f]]
    OBVIOUS
  <2>. HIDE DEF G
  <2>3. Rule(G)
    BY <2>1, <2>2
  <2>. HIDE DEF Rule
  <2>. QED
    BY <2>3
<1>10. Rule(rows)
  <2>. HIDE DEF Rule
  <2>. QED
    BY <1>9
<1>. HIDE DEF rows
<1>11. rows = [f \in 1..n |-> rows[f]] /\ rows[1] = a /\ \A f \in 2..n : rows[f] = N(f, rows[f - 1])
  <2>1. 1 \in 1..n /\ \A f \in 2..n : f \in 1..n /\ f # 1
    BY <1>1
  <2>2. \A f \in 1..n : rows[f] = IF f = 1 THEN a ELSE N(f, rows[f - 1])
    BY <1>10
  <2>3. rows = [f \in 1..n |-> rows[f]]
    BY <1>10
  <2>. QED
    BY <2>1, <2>2, <2>3
<1>. DEFINE H == [k \in 0..(n - 1) |-> rows[k + 1]]
<1>12. ASSUME NEW k \in 1..(n - 1), H[k - 1] \in S PROVE H[k] = move[k][H[k - 1]]
  <2>1. k \in 0..(n - 1) /\ k - 1 \in 0..(n - 1) /\ k + 1 \in 2..n /\ (k + 1) - 1 = k /\ (k - 1) + 1 = k
    BY <1>1
  <2>2. H[k] = rows[k + 1] /\ H[k - 1] = rows[k]
    BY <2>1
  <2>3. rows[k + 1] = N(k + 1, rows[k])
    BY <1>11, <2>1
  <2>. HIDE DEF H
  <2>4. move[k][rows[k]] = N(k + 1, rows[k])
    BY <1>7, <1>12, <2>2
  <2>. QED
    BY <2>2, <2>3, <2>4
<1>13. \A k \in 0..(n - 1) : H[k] \in S
  <2>. DEFINE m == n - 1
  <2>1. H = [k \in 0..m |-> H[k]]
    OBVIOUS
  <2>2. H[0] = a
    BY <1>1, <1>11
  <2>3. m \in Nat /\ move \in [1..m -> [S -> S]] /\ \A k \in 1..m : H[k - 1] \in S => H[k] = move[k][H[k - 1]]
    BY <1>1, <1>7, <1>12
  <2>. HIDE DEF H, m
  <2>4. Carried(H, S, a, m, move)
    BY <1>5, <2>1, <2>2, <2>3, Carries
  <2>. QED
    BY <2>4 DEF Carried, m
<1>14. \A f \in 1..n : rows[f] \in S
  <2>1. ASSUME NEW f \in 1..n PROVE rows[f] \in S
    <3>1. f - 1 \in 0..(n - 1) /\ (f - 1) + 1 = f
      BY <1>1
    <3>2. H[f - 1] = rows[f]
      BY <3>1
    <3>. HIDE DEF H
    <3>. QED
      BY <1>13, <3>1, <3>2
  <2>. QED
    BY <2>1
<1>15. rows \in [1..n -> S]
  BY <1>11, <1>14
<1>16. \A f \in 2..n : Follows(rows[f - 1], rows[f], recording[f], ext, L)
  <2>1. \A f \in 2..n : f \in 1..n /\ f - 1 \in 1..n
    BY <1>1
  <2>. QED
    BY <1>4, <1>11, <1>14, <2>1
<1>. QED
  BY <1>3, <1>11, <1>15, <1>16 DEF IsTrellis, n, S, a

\* The path from the end cell back: each cell is the back pointer of the one behind it.
IsBacktracked(path, rows, n, L) ==
    /\ path \in [1..n -> 0..L] /\ path[n] = EndCell(rows[n])
    /\ \A f \in 2..n : path[f] # 0 => path[f - 1] = rows[f][path[f]].back

LEMMA BacktrackedIs ==
    ASSUME NEW n \in Nat, n >= 1, NEW L \in Nat, L >= 2, NEW rows \in [1..n -> Row(L)]
    PROVE  IsBacktracked(Backtracked(rows), rows, n, L)
<1>. DEFINE S == 0..L
            a == EndCell(rows[n])
            B(k, s) == Back(rows[n - k + 1], s)
            move == [k \in 1..n |-> [s \in S |-> B(k, s)]]
            Rule(g) == g = [k \in 0..n |-> IF k = 0 THEN a ELSE B(k, g[k - 1])]
            at == CHOOSE g : Rule(g)
<1>1. Len(rows) = n /\ \A f \in 1..n : rows[f] \in Row(L) /\ Len(rows[f]) = L
  BY DEF Row
<1>2. Backtracked(rows) = [f \in 1..n |-> at[n - f]]
  BY <1>1 DEF Backtracked
<1>3. a \in S
  <2>1. n \in 1..n
    OBVIOUS
  <2>2. Len(rows[n]) = L
    BY <1>1, <2>1
  <2>. QED
    BY <2>2 DEF EndCell
<1>4. ASSUME NEW k \in 1..n, NEW s \in S PROVE B(k, s) \in S /\ (s # 0 => B(k, s) = rows[n - k + 1][s].back)
  <2>. DEFINE row == rows[n - k + 1]
              t == IF s = 0 THEN Len(row) ELSE s
  <2>1. n - k + 1 \in 1..n
    OBVIOUS
  <2>2. row \in Row(L) /\ Len(row) = L
    BY <1>1, <2>1
  <2>3. t \in 1..L
    BY <2>2
  <2>. HIDE DEF row
  <2>4. row[t].back \in S
    <3>. HIDE DEF t
    <3>. QED
      BY <2>2, <2>3 DEF Row, Cell
  <2>5. B(k, s) = row[t].back
    BY DEF Back, row
  <2>. QED
    BY <2>4, <2>5 DEF row
<1>. HIDE DEF B, a, S
<1>5. move \in [1..n -> [S -> S]] /\ \A k \in 1..n : \A s \in S : move[k][s] = B(k, s)
  <2>1. \A k \in 1..n : \A s \in S : B(k, s) \in S
    BY <1>4
  <2>. QED
    BY <2>1
<1>. HIDE DEF move
<1>6. PICK F : F \in [0..n -> S] /\ F[0] = a /\ \A k \in 1..n : F[k] = move[k][F[k - 1]]
  <2>1. \E F : Carried(F, S, a, n, move)
    BY <1>3, <1>5, Recursion
  <2>. QED
    BY <2>1 DEF Carried
<1>7. Rule(F)
  <2>1. \A k \in 0..n : k # 0 => k \in 1..n /\ k - 1 \in 0..n
    OBVIOUS
  <2>2. \A k \in 0..n : F[k] = IF k = 0 THEN a ELSE B(k, F[k - 1])
    BY <1>5, <1>6, <2>1
  <2>. QED
    BY <1>6, <2>2
<1>8. Rule(at)
  <2>. HIDE DEF Rule
  <2>. QED
    BY <1>7
<1>. HIDE DEF at
<1>9. at = [k \in 0..n |-> at[k]] /\ at[0] = a /\ \A k \in 1..n : at[k] = B(k, at[k - 1])
  <2>1. 0 \in 0..n /\ \A k \in 1..n : k \in 0..n /\ k # 0
    OBVIOUS
  <2>2. \A k \in 0..n : at[k] = IF k = 0 THEN a ELSE B(k, at[k - 1])
    BY <1>8
  <2>3. at = [k \in 0..n |-> at[k]]
    BY <1>8
  <2>. QED
    BY <2>1, <2>2, <2>3
<1>10. at \in [0..n -> S]
  <2>1. \A k \in 1..n : at[k - 1] \in S => at[k] = move[k][at[k - 1]]
    BY <1>5, <1>9
  <2>2. Carried(at, S, a, n, move)
    BY <1>3, <1>5, <1>9, <2>1, Carries
  <2>. QED
    BY <2>2 DEF Carried
<1>. DEFINE path == Backtracked(rows)
<1>11. path \in [1..n -> S] /\ \A f \in 1..n : path[f] = at[n - f]
  <2>1. \A f \in 1..n : n - f \in 0..n
    OBVIOUS
  <2>. QED
    BY <1>2, <1>10, <2>1
<1>. HIDE DEF path
<1>12. path[n] = a
  <2>1. n \in 1..n /\ n - n = 0
    OBVIOUS
  <2>. QED
    BY <1>9, <1>11, <2>1
<1>13. ASSUME NEW f \in 2..n, path[f] # 0 PROVE path[f - 1] = rows[f][path[f]].back
  <2>. DEFINE k == n - f + 1
  <2>1. k \in 1..n /\ f \in 1..n /\ f - 1 \in 1..n /\ n - (f - 1) = k /\ k - 1 = n - f /\ n - k + 1 = f
    OBVIOUS
  <2>. HIDE DEF k
  <2>2. path[f - 1] = at[k] /\ path[f] = at[k - 1] /\ path[f] \in S
    BY <1>11, <2>1
  <2>3. at[k] = B(k, at[k - 1])
    BY <1>9, <2>1
  <2>4. B(k, path[f]) = rows[n - k + 1][path[f]].back
    BY <1>4, <1>13, <2>1, <2>2
  <2>. QED
    BY <2>1, <2>2, <2>3, <2>4
<1>. QED
  BY <1>11, <1>12, <1>13 DEF IsBacktracked, S, a, path

----------------------------------------------------------------------------
(* Alignment: the best path                                                *)

\* A path through the trellis, and the labels it stands for.
IsPath(q, n, ext, L) ==
    /\ q \in [1..n -> 1..L] /\ q[1] <= 2
    /\ \A f \in 2..n : q[f - 1] \in Predecessors(ext, q[f])
LabelsOf(q, n, ext) == [f \in 1..n |-> ext[q[f]]]

\* The first row reaches the first blank and the first phoneme.
Opens(row, frame, ext, L) ==
    \A s \in 1..L : (row[s].reached <=> s <= 2) /\ (s <= 2 => row[s].value = frame[ext[s]])

LEMMA OpeningIs ==
    ASSUME NEW frame, NEW L, NEW ext, DOMAIN ext = 1..L
    PROVE  Opens(OpeningRow(frame, ext), frame, ext, L)
<1>. DEFINE row == OpeningRow(frame, ext)
<1>1. ASSUME NEW s \in 1..L PROVE (row[s].reached <=> s <= 2) /\ (s <= 2 => row[s].value = frame[ext[s]])
  <2>1. row[s] = IF s <= 2 THEN [reached |-> TRUE, value |-> frame[ext[s]], back |-> 0] ELSE Unreached
    BY DEF OpeningRow
  <2>. HIDE DEF row
  <2>. QED
    BY <2>1 DEF Unreached
<1>. HIDE DEF row
<1>2. Opens(row, frame, ext, L)
  BY <1>1 DEF Opens
<1>. QED
  BY <1>2 DEF row

\* No path is better than the cell it ends in.
LEMMA PathsAreBelow ==
    ASSUME NEW recording, NEW ids, Aligning(recording, ids), NEW ext, ext = Extended(ids), NEW L, L = Last2(ids),
           NEW rows, IsTrellis(rows, recording, ext, L), NEW n, n = Len(recording),
           NEW q, IsPath(q, n, ext, L), NEW total, Totals(total, recording, LabelsOf(q, n, ext))
    PROVE  \A f \in 1..n : rows[f][q[f]].reached /\ total[f] <= rows[f][q[f]].value
<1>. DEFINE Good(f) == rows[f][q[f]].reached /\ total[f] <= rows[f][q[f]].value
            T == {m \in 0..n : m > 0 => Good(m)}
            D == DOMAIN recording[1]
<1>1. n \in Nat /\ n >= 1 /\ \A f \in 1..n : recording[f] \in [D -> Int]
  BY DEF Aligning, Recording
<1>2. L \in Nat /\ ext \in [1..L -> D] /\ DOMAIN ext = 1..L
  BY ExtendedIs
<1>3. q \in [1..n -> 1..L] /\ q[1] <= 2 /\ \A f \in 2..n : q[f - 1] \in Predecessors(ext, q[f])
  BY DEF IsPath
<1>4. /\ total \in [0..n -> Int] /\ total[0] = 0
      /\ \A f \in 1..n : total[f] = total[f - 1] + recording[f][ext[q[f]]]
  BY DEF Totals, LabelsOf
<1>5. /\ rows \in [1..n -> Row(L)] /\ rows[1] = OpeningRow(recording[1], ext)
      /\ \A f \in 2..n : Follows(rows[f - 1], rows[f], recording[f], ext, L)
  BY DEF IsTrellis
<1>6. \A f \in 1..n : recording[f][ext[q[f]]] \in Int /\ q[f] \in 1..L /\ \A s \in 1..L : rows[f][s].value \in Int
  <2>. SUFFICES ASSUME NEW f \in 1..n
                PROVE  recording[f][ext[q[f]]] \in Int /\ q[f] \in 1..L /\ \A s \in 1..L : rows[f][s].value \in Int
    OBVIOUS
  <2>1. q[f] \in 1..L /\ recording[f] \in [D -> Int] /\ rows[f] \in Row(L)
    BY <1>1, <1>3, <1>5
  <2>. QED
    BY <1>2, <2>1 DEF Row, Cell
<1>7. 0 \in T
  BY <1>1
<1>8. ASSUME NEW m \in 0..n, m + 1 \in 0..n, m \in T PROVE m + 1 \in T
  <2>1. CASE m = 0
    <3>1. 1 \in 1..n /\ q[1] \in 1..L
      BY <1>1, <1>6
    <3>2. rows[1][q[1]].reached /\ rows[1][q[1]].value = recording[1][ext[q[1]]]
      <4>1. Opens(rows[1], recording[1], ext, L)
        BY <1>2, <1>5, OpeningIs
      <4>. QED
        BY <1>3, <3>1, <4>1 DEF Opens
    <3>3. total[1] = total[0] + recording[1][ext[q[1]]]
      <4>1. total[1] = total[1 - 1] + recording[1][ext[q[1]]]
        BY <1>4, <3>1
      <4>. QED
        BY <4>1
    <3>4. total[1] = recording[1][ext[q[1]]] /\ recording[1][ext[q[1]]] \in Int
      BY <1>4, <1>6, <3>1, <3>3
    <3>5. Good(1)
      BY <3>2, <3>4
    <3>. QED
      BY <1>8, <2>1, <3>5
  <2>2. CASE m > 0
    <3>. DEFINE f == m + 1
                p == q[m]
                s == q[f]
    <3>1. f \in 2..n /\ f \in 1..n /\ f - 1 = m /\ m \in 1..n /\ m \in 0..n
      BY <1>1, <1>8, <2>2
    <3>2. Good(m)
      BY <1>8, <2>2
    <3>3. p \in Predecessors(ext, s) /\ s \in 1..L /\ p \in 1..L
      BY <1>3, <1>6, <3>1
    <3>4. Follows(rows[m], rows[f], recording[f], ext, L)
      BY <1>5, <3>1
    <3>5. rows[m][p].reached /\ total[m] <= rows[m][p].value
      BY <3>2
    <3>6. total[f] = total[m] + recording[f][ext[s]]
      BY <1>4, <3>1
    <3>7. total[m] \in Int /\ rows[m][p].value \in Int /\ recording[f][ext[s]] \in Int /\ rows[f][s].value \in Int
      BY <1>4, <1>6, <3>1, <3>3
    <3>. HIDE DEF f, p, s
    <3>8. rows[f][s].reached /\ rows[m][p].value + recording[f][ext[s]] <= rows[f][s].value
      BY <3>3, <3>4, <3>5 DEF Follows
    <3>9. total[f] <= rows[f][s].value
      BY <3>5, <3>6, <3>7, <3>8
    <3>10. Good(m + 1)
      BY <3>8, <3>9 DEF f, s
    <3>. HIDE DEF Good
    <3>. QED
      BY <1>8, <3>10
  <2>. QED
    BY <1>8, <2>1, <2>2
<1>9. T = 0..n
  <2>1. T \in SUBSET (0..n)
    OBVIOUS
  <2>. HIDE DEF T
  <2>. QED
    BY <1>1, <1>7, <1>8, <2>1, UpTo
<1>10. \A f \in 1..n : f \in 0..n /\ f > 0
  BY <1>1
<1>. QED
  <2>. HIDE DEF Good
  <2>1. \A f \in 1..n : Good(f)
    BY <1>9, <1>10
  <2>. QED
    BY <2>1 DEF Good

\* The back pointers from a cell that is reached are a path that is as good as the cell.
LEMMA BackPointersArePath ==
    ASSUME NEW recording, NEW ids, Aligning(recording, ids), NEW ext, ext = Extended(ids), NEW L, L = Last2(ids),
           NEW rows, IsTrellis(rows, recording, ext, L), NEW n, n = Len(recording),
           NEW path, IsBacktracked(path, rows, n, L), path[n] \in 1..L, rows[n][path[n]].reached
    PROVE  /\ IsPath(path, n, ext, L)
           /\ \A total : Totals(total, recording, LabelsOf(path, n, ext)) => total[n] = rows[n][path[n]].value
<1>. DEFINE D == DOMAIN recording[1]
<1>1. n \in Nat /\ n >= 1 /\ n - 1 \in Nat /\ \A f \in 1..n : recording[f] \in [D -> Int]
  BY DEF Aligning, Recording
<1>2. L \in Nat /\ ext \in [1..L -> D] /\ DOMAIN ext = 1..L
  BY ExtendedIs
<1>3. /\ path \in [1..n -> 0..L]
      /\ \A f \in 2..n : path[f] # 0 => path[f - 1] = rows[f][path[f]].back
  BY DEF IsBacktracked
<1>4. /\ rows \in [1..n -> Row(L)] /\ rows[1] = OpeningRow(recording[1], ext)
      /\ \A f \in 2..n : Follows(rows[f - 1], rows[f], recording[f], ext, L)
  BY DEF IsTrellis
<1>. DEFINE On(f) == path[f] \in 1..L /\ rows[f][path[f]].reached
<1>5. ASSUME NEW f \in 2..n, On(f)
      PROVE  /\ On(f - 1) /\ path[f - 1] \in Predecessors(ext, path[f])
             /\ rows[f][path[f]].value = rows[f - 1][path[f - 1]].value + recording[f][ext[path[f]]]
  <2>1. path[f - 1] = rows[f][path[f]].back
    BY <1>3, <1>5
  <2>2. Follows(rows[f - 1], rows[f], recording[f], ext, L)
    BY <1>4
  <2>. DEFINE s == path[f]
              p == path[f - 1]
  <2>3. s \in 1..L /\ rows[f][s].reached /\ rows[f][s].back = p
    BY <1>5, <2>1
  <2>. HIDE DEF s, p
  <2>4. p \in Predecessors(ext, s) /\ rows[f - 1][p].reached /\ rows[f][s].value = rows[f - 1][p].value + recording[f][ext[s]]
    BY <2>2, <2>3 DEF Follows
  <2>5. p \in 1..L
    BY <1>2, <2>3, <2>4, PredecessorsAre
  <2>. QED
    BY <2>4, <2>5 DEF s, p
<1>. DEFINE T == {k \in 0..(n - 1) : On(n - k)}
<1>6. 0 \in T
  <2>1. n - 0 = n
    BY <1>1
  <2>. QED
    BY <1>1, <2>1
<1>7. ASSUME NEW k \in 0..(n - 1), k + 1 \in 0..(n - 1), k \in T PROVE k + 1 \in T
  <2>1. n - k \in 2..n /\ (n - k) - 1 = n - (k + 1)
    BY <1>1, <1>7
  <2>2. On(n - k)
    BY <1>7
  <2>. HIDE DEF On
  <2>3. On((n - k) - 1)
    BY <1>5, <2>1, <2>2
  <2>. QED
    BY <1>7, <2>1, <2>3
<1>8. T = 0..(n - 1)
  <2>. DEFINE m == n - 1
  <2>1. m \in Nat /\ T \in SUBSET (0..m) /\ 0 \in T /\ \A k \in 0..m : k + 1 \in 0..m /\ k \in T => k + 1 \in T
    BY <1>1, <1>6, <1>7
  <2>. HIDE DEF T, m
  <2>2. T = 0..m
    BY <2>1, UpTo
  <2>. QED
    BY <2>2 DEF m
<1>. HIDE DEF On
<1>9. ASSUME NEW f \in 1..n PROVE On(f)
  <2>1. n - f \in 0..(n - 1) /\ n - (n - f) = f
    BY <1>1
  <2>2. On(n - (n - f))
    BY <1>8, <2>1
  <2>. QED
    BY <2>1, <2>2
<1>10. IsPath(path, n, ext, L)
  <2>1. path \in [1..n -> 1..L]
    BY <1>3, <1>9 DEF On
  <2>2. path[1] <= 2
    <3>1. 1 \in 1..n
      BY <1>1
    <3>2. path[1] \in 1..L /\ rows[1][path[1]].reached
      BY <1>9, <3>1 DEF On
    <3>3. Opens(rows[1], recording[1], ext, L)
      BY <1>2, <1>4, OpeningIs
    <3>. QED
      BY <3>2, <3>3 DEF Opens
  <2>3. \A f \in 2..n : path[f - 1] \in Predecessors(ext, path[f])
    <3>1. \A f \in 2..n : f \in 1..n
      BY <1>1
    <3>. QED
      BY <1>5, <1>9, <3>1
  <2>. QED
    BY <2>1, <2>2, <2>3 DEF IsPath
<1>11. ASSUME NEW total, Totals(total, recording, LabelsOf(path, n, ext))
       PROVE  total[n] = rows[n][path[n]].value
  <2>1. /\ total \in [0..n -> Int] /\ total[0] = 0
        /\ \A f \in 1..n : total[f] = total[f - 1] + recording[f][ext[path[f]]]
    BY <1>11 DEF Totals, LabelsOf
  <2>. DEFINE U == {m \in 0..n : m > 0 => total[m] = rows[m][path[m]].value}
  <2>2. 0 \in U
    BY <1>1
  <2>3. ASSUME NEW m \in 0..n, m + 1 \in 0..n, m \in U PROVE m + 1 \in U
    <3>1. CASE m = 0
      <4>1. 1 \in 1..n
        BY <1>1
      <4>2. path[1] \in 1..L /\ rows[1][path[1]].reached /\ recording[1] \in [D -> Int]
        BY <1>1, <1>9, <4>1 DEF On
      <4>3. rows[1][path[1]].value = recording[1][ext[path[1]]]
        <5>1. Opens(rows[1], recording[1], ext, L)
          BY <1>2, <1>4, OpeningIs
        <5>. QED
          BY <4>2, <5>1 DEF Opens
      <4>4. total[1] = total[1 - 1] + recording[1][ext[path[1]]] /\ recording[1][ext[path[1]]] \in Int
        BY <1>2, <2>1, <4>1, <4>2
      <4>5. total[1] = rows[1][path[1]].value
        BY <2>1, <4>3, <4>4
      <4>. QED
        BY <2>3, <3>1, <4>5
    <3>2. CASE m > 0
      <4>1. m + 1 \in 2..n /\ m + 1 \in 1..n /\ (m + 1) - 1 = m
        BY <1>1, <2>3, <3>2
      <4>2. rows[m + 1][path[m + 1]].value = rows[m][path[m]].value + recording[m + 1][ext[path[m + 1]]]
        BY <1>5, <1>9, <4>1
      <4>3. total[m + 1] = total[m] + recording[m + 1][ext[path[m + 1]]]
        BY <2>1, <4>1
      <4>4. total[m] = rows[m][path[m]].value
        BY <2>3, <3>2
      <4>5. total[m + 1] = rows[m + 1][path[m + 1]].value
        BY <4>2, <4>3, <4>4
      <4>. QED
        BY <2>3, <4>5
    <3>. QED
      BY <2>3, <3>1, <3>2
  <2>4. U = 0..n
    <3>1. U \in SUBSET (0..n)
      OBVIOUS
    <3>. HIDE DEF U
    <3>. QED
      BY <1>1, <2>2, <2>3, <3>1, UpTo
  <2>5. n \in 0..n /\ n > 0
    BY <1>1
  <2>. QED
    BY <2>4, <2>5
<1>. QED
  BY <1>10, <1>11

----------------------------------------------------------------------------
(* Alignment: paths and labellings                                         *)

Begins(labels, f) == labels[f] # BlankId /\ (f > 1 => labels[f] # labels[f - 1])
Within(x, y) == Len(x) <= Len(y) /\ \A i \in 1..Len(x) : x[i] = y[i]

LEMMA SaysNext ==
    ASSUME NEW D, NEW labels \in Seq(D), NEW said, Says(said, labels, D), NEW f \in 1..Len(labels)
    PROVE  /\ said[f - 1] \in Seq(D) /\ said[f] \in Seq(D) /\ labels[f] \in D
           /\ Begins(labels, f) => /\ Len(said[f]) = Len(said[f - 1]) + 1
                                   /\ said[f][Len(said[f - 1]) + 1] = labels[f]
           /\ ~Begins(labels, f) => said[f] = said[f - 1]
           /\ Within(said[f - 1], said[f])
<1>. DEFINE x == said[f - 1]
            y == said[f]
<1>1. x \in Seq(D) /\ y \in Seq(D) /\ labels[f] \in D
  <2>1. f - 1 \in 0..Len(labels) /\ f \in 0..Len(labels)
    OBVIOUS
  <2>2. said \in [0..Len(labels) -> Seq(D)]
    BY DEF Says
  <2>3. labels[f] \in D
    OBVIOUS
  <2>. QED
    BY <2>1, <2>2, <2>3
<1>2. (Begins(labels, f) => y = Append(x, labels[f])) /\ (~Begins(labels, f) => y = x)
  BY DEF Says, Begins
<1>. HIDE DEF x, y
<1>3. CASE Begins(labels, f)
  <2>1. y = Append(x, labels[f])
    BY <1>2, <1>3
  <2>2. Len(y) = Len(x) + 1 /\ y[Len(x) + 1] = labels[f] /\ \A i \in 1..Len(x) : y[i] = x[i]
    BY <1>1, <2>1
  <2>3. Within(x, y)
    BY <1>1, <2>2 DEF Within
  <2>. QED
    BY <1>1, <1>3, <2>2, <2>3 DEF x, y
<1>4. CASE ~Begins(labels, f)
  <2>1. y = x
    BY <1>2, <1>4
  <2>2. Within(x, y)
    BY <1>1, <2>1 DEF Within
  <2>. QED
    BY <1>1, <1>4, <2>1, <2>2 DEF x, y
<1>. QED
  BY <1>3, <1>4

\* The same, as one fact.
Grows(said, labels, f, D) ==
    /\ said[f - 1] \in Seq(D) /\ said[f] \in Seq(D)
    /\ Begins(labels, f) => /\ Len(said[f]) = Len(said[f - 1]) + 1
                            /\ said[f][Len(said[f - 1]) + 1] = labels[f]
    /\ ~Begins(labels, f) => said[f] = said[f - 1]
    /\ Within(said[f - 1], said[f])

LEMMA SaysGrows ==
    ASSUME NEW D, NEW labels \in Seq(D), NEW said, Says(said, labels, D), NEW f \in 1..Len(labels)
    PROVE  Grows(said, labels, f, D)
  BY SaysNext DEF Grows

\* What was said at a frame is a beginning of the whole, is no longer than the frames
\* were many, and ends with the label of the frame.
LEMMA SaidIs ==
    ASSUME NEW D, NEW labels \in Seq(D), NEW said, Says(said, labels, D), NEW n, n = Len(labels)
    PROVE  /\ \A f \in 0..n : said[f] \in Seq(D) /\ Len(said[f]) <= f /\ Within(said[f], said[n])
           /\ \A f \in 1..n : labels[f] # BlankId =>
                  Len(said[f]) > 0 /\ said[f][Len(said[f])] = labels[f]
<1>1. n \in Nat /\ said \in [0..n -> Seq(D)] /\ said[0] = <<>>
  BY DEF Says
<1>2. \A f \in 0..n : said[f] \in Seq(D) /\ Len(said[f]) \in Nat
  BY <1>1
<1>. DEFINE T == {f \in 0..n : Len(said[f]) <= f}
            U == {g \in 0..n : \A f \in 0..g : Within(said[f], said[g])}
            V == {f \in 0..n : f > 0 /\ labels[f] # BlankId =>
                                   Len(said[f]) > 0 /\ said[f][Len(said[f])] = labels[f]}
<1>3. T = 0..n
  <2>1. 0 \in T
    BY <1>1
  <2>2. ASSUME NEW m \in 0..n, m + 1 \in 0..n, m \in T PROVE m + 1 \in T
    <3>1. m + 1 \in 1..n /\ (m + 1) - 1 = m
      BY <1>1, <2>2
    <3>2. Len(said[m + 1]) = Len(said[m]) + 1 \/ said[m + 1] = said[m]
      <4>1. Grows(said, labels, m + 1, D)
        BY <3>1, SaysGrows
      <4>. QED
        BY <3>1, <4>1 DEF Grows
    <3>3. Len(said[m]) <= m /\ Len(said[m]) \in Nat
      BY <1>2, <2>2
    <3>4. Len(said[m + 1]) <= m + 1
      BY <1>1, <3>2, <3>3
    <3>. QED
      BY <2>2, <3>4
  <2>3. T \in SUBSET (0..n)
    OBVIOUS
  <2>. HIDE DEF T
  <2>. QED
    BY <1>1, <2>1, <2>2, <2>3, UpTo
<1>4. U = 0..n
  <2>1. 0 \in U
    <3>1. \A f \in 0..0 : f = 0
      OBVIOUS
    <3>2. Within(said[0], said[0])
      BY <1>1 DEF Within
    <3>. QED
      BY <1>1, <3>1, <3>2
  <2>2. ASSUME NEW m \in 0..n, m + 1 \in 0..n, m \in U PROVE m + 1 \in U
    <3>1. m + 1 \in 1..n /\ (m + 1) - 1 = m
      BY <1>1, <2>2
    <3>2. Within(said[m], said[m + 1])
      <4>1. Grows(said, labels, m + 1, D)
        BY <3>1, SaysGrows
      <4>. QED
        BY <3>1, <4>1 DEF Grows
    <3>3. ASSUME NEW f \in 0..(m + 1) PROVE Within(said[f], said[m + 1])
      <4>1. CASE f = m + 1
        <5>1. Len(said[m + 1]) \in Nat
          BY <1>2, <2>2
        <5>. QED
          BY <4>1, <5>1 DEF Within
      <4>2. CASE f # m + 1
        <5>1. f \in 0..m /\ f \in 0..n
          BY <1>1, <2>2, <4>2
        <5>2. Within(said[f], said[m])
          BY <2>2, <5>1
        <5>3. Len(said[f]) \in Nat /\ Len(said[m]) \in Nat /\ Len(said[m + 1]) \in Nat
          BY <1>2, <2>2, <5>1
        <5>. QED
          BY <3>2, <5>2, <5>3 DEF Within
      <4>. QED
        BY <4>1, <4>2
    <3>. QED
      BY <2>2, <3>3
  <2>3. U \in SUBSET (0..n)
    OBVIOUS
  <2>. HIDE DEF U
  <2>. QED
    BY <1>1, <2>1, <2>2, <2>3, UpTo
<1>5. V = 0..n
  <2>1. 0 \in V
    BY <1>1
  <2>2. ASSUME NEW m \in 0..n, m + 1 \in 0..n, m \in V PROVE m + 1 \in V
    <3>1. m + 1 \in 1..n /\ (m + 1) - 1 = m
      BY <1>1, <2>2
    <3>2. /\ Begins(labels, m + 1) => /\ Len(said[m + 1]) = Len(said[m]) + 1
                                      /\ said[m + 1][Len(said[m]) + 1] = labels[m + 1]
          /\ ~Begins(labels, m + 1) => said[m + 1] = said[m]
      <4>1. Grows(said, labels, m + 1, D)
        BY <3>1, SaysGrows
      <4>. QED
        BY <3>1, <4>1 DEF Grows
    <3>3. ASSUME labels[m + 1] # BlankId
          PROVE  Len(said[m + 1]) > 0 /\ said[m + 1][Len(said[m + 1])] = labels[m + 1]
      <4>1. CASE Begins(labels, m + 1)
        BY <1>2, <3>2, <4>1
      <4>2. CASE ~Begins(labels, m + 1)
        <5>1. m > 0 /\ labels[m + 1] = labels[m]
          BY <1>1, <3>1, <3>3, <4>2 DEF Begins
        <5>2. Len(said[m]) > 0 /\ said[m][Len(said[m])] = labels[m]
          BY <2>2, <3>3, <5>1
        <5>. QED
          BY <3>2, <4>2, <5>1, <5>2
      <4>. QED
        BY <4>1, <4>2
    <3>. QED
      BY <2>2, <3>3
  <2>3. V \in SUBSET (0..n)
    OBVIOUS
  <2>. HIDE DEF V
  <2>. QED
    BY <1>1, <2>1, <2>2, <2>3, UpTo
<1>6. \A f \in 0..n : Len(said[f]) <= f
  BY <1>3
<1>7. \A f \in 0..n : Within(said[f], said[n])
  <2>1. n \in U
    BY <1>1, <1>4
  <2>. QED
    BY <2>1
<1>8. \A f \in 1..n : labels[f] # BlankId => Len(said[f]) > 0 /\ said[f][Len(said[f])] = labels[f]
  <2>1. \A f \in 1..n : f \in 0..n /\ f > 0
    BY <1>1
  <2>. QED
    BY <1>5, <2>1
<1>. QED
  BY <1>2, <1>6, <1>7, <1>8

\* Up to a frame, a path has said the phonemes up to its cell.
Through(x, s, ids) ==
    \E h \in 0..Len(ids) : (s = 2 * h \/ s = 2 * h + 1) /\ Len(x) = h /\ \A i \in 1..h : x[i] = ids[i]

LEMMA PathSays ==
    ASSUME NEW recording, NEW ids, Aligning(recording, ids), NEW ext, ext = Extended(ids), NEW L, L = Last2(ids),
           NEW n, n = Len(recording), NEW q, IsPath(q, n, ext, L),
           NEW labels, labels = LabelsOf(q, n, ext), NEW D, D = DOMAIN recording[1],
           NEW said, Says(said, labels, D)
    PROVE  \A f \in 1..n : Through(said[f], q[f], ids)
<1>1. n \in Nat /\ n >= 1
  BY DEF Aligning, Recording
<1>2. /\ Len(ids) \in Nat /\ L \in Nat /\ L = 2 * Len(ids) + 1 /\ ext \in [1..L -> D]
      /\ \A i \in 1..Len(ids) : ext[2 * i] = ids[i] /\ ids[i] # BlankId
      /\ \A i \in 0..Len(ids) : ext[2 * i + 1] = BlankId
  BY ExtendedIs DEF Last2
<1>3. q \in [1..n -> 1..L] /\ q[1] <= 2 /\ \A f \in 2..n : q[f - 1] \in Predecessors(ext, q[f])
  BY DEF IsPath
<1>4. \A f \in 1..n : q[f] \in 1..L /\ labels[f] = ext[q[f]]
  BY <1>3 DEF LabelsOf
<1>5. labels \in Seq(D) /\ Len(labels) = n
  <2>1. labels \in [1..n -> D]
    BY <1>2, <1>3 DEF LabelsOf
  <2>. QED
    BY <1>1, <2>1
<1>6. said[0] = <<>>
  BY DEF Says
<1>. DEFINE T == {m \in 0..n : m > 0 => Through(said[m], q[m], ids)}
<1>7. 0 \in T
  BY <1>1
<1>8. ASSUME NEW m \in 0..n, m + 1 \in 0..n, m \in T PROVE m + 1 \in T
  <2>. DEFINE x == said[m]
              y == said[m + 1]
              s == q[m + 1]
              h == Len(x)
  <2>1. m + 1 \in 1..n /\ (m + 1) - 1 = m /\ m + 1 \in 1..Len(labels)
    BY <1>1, <1>5, <1>8
  <2>2. /\ x \in Seq(D) /\ y \in Seq(D)
        /\ Begins(labels, m + 1) => Len(y) = h + 1 /\ y[h + 1] = labels[m + 1]
        /\ ~Begins(labels, m + 1) => y = x
        /\ Within(x, y)
    <3>1. PICK f : f = m + 1
      OBVIOUS
    <3>2. f \in 1..Len(labels) /\ f - 1 = m
      BY <2>1, <3>1
    <3>3. Grows(said, labels, f, D)
      BY <1>5, <3>2, SaysGrows
    <3>. QED
      BY <3>1, <3>2, <3>3 DEF Grows
  <2>3. s \in 1..L /\ labels[m + 1] = ext[s]
    BY <1>4, <2>1
  <2>. HIDE DEF x, y, s
  <2>4. h \in Nat
    BY <2>2
  <2>. SUFFICES Through(y, s, ids)
    BY <1>8 DEF y, s
  <2>5. CASE m = 0
    <3>1. h = 0 /\ s <= 2 /\ s \in 1..L
      BY <1>3, <1>6, <2>3, <2>5 DEF x, s
    <3>2. CASE s = 1
      <4>1. ext[2 * 0 + 1] = BlankId
        BY <1>2
      <4>2. ~Begins(labels, m + 1)
        BY <2>3, <3>2, <4>1 DEF Begins
      <4>3. Len(y) = 0 /\ s = 2 * 0 + 1 /\ 0 \in 0..Len(ids)
        BY <1>2, <2>2, <3>1, <3>2, <4>2
      <4>. QED
        BY <4>3 DEF Through
    <3>3. CASE s = 2
      <4>1. 1 \in 1..Len(ids)
        BY <1>2, <2>3, <3>3
      <4>2. ext[2 * 1] = ids[1] /\ ids[1] # BlankId
        BY <1>2, <4>1
      <4>3. labels[m + 1] = ids[1]
        BY <2>3, <3>3, <4>2
      <4>4. Begins(labels, m + 1)
        BY <2>5, <4>2, <4>3 DEF Begins
      <4>5. Len(y) = 1 /\ y[1] = ids[1] /\ s = 2 * 1 /\ 1 \in 0..Len(ids)
        BY <2>2, <3>1, <3>3, <4>1, <4>3, <4>4
      <4>. QED
        BY <4>5 DEF Through
    <3>. QED
      BY <3>1, <3>2, <3>3
  <2>6. CASE m > 0
    <3>. DEFINE p == q[m]
    <3>1. m \in 1..n /\ m + 1 \in 2..n
      BY <1>1, <1>8, <2>6
    <3>2. p \in 1..L /\ labels[m] = ext[p] /\ p \in Predecessors(ext, s)
      BY <1>3, <1>4, <2>1, <3>1 DEF s
    <3>. HIDE DEF p
    <3>3. Through(x, p, ids)
      BY <1>8, <2>6 DEF x, p
    <3>4. h \in 0..Len(ids) /\ (p = 2 * h \/ p = 2 * h + 1) /\ \A i \in 1..h : x[i] = ids[i]
      BY <3>3 DEF Through
    <3>5. s = p \/ s = p + 1 \/ (s = p + 2 /\ ext[s] # BlankId /\ ext[s] # ext[p])
      BY <2>3, <3>2 DEF Predecessors
    <3>6. CASE s = p
      <4>1. ~Begins(labels, m + 1)
        BY <2>1, <2>3, <2>6, <3>2, <3>6 DEF Begins
      <4>2. y = x
        BY <2>2, <4>1
      <4>. QED
        BY <3>3, <3>6, <4>2
    <3>7. CASE s = 2 * h + 1
      <4>1. ext[s] = BlankId
        BY <1>2, <3>4, <3>7
      <4>2. ~Begins(labels, m + 1)
        BY <2>3, <4>1 DEF Begins
      <4>3. y = x
        BY <2>2, <4>2
      <4>. QED
        BY <3>4, <3>7, <4>3 DEF Through
    <3>8. CASE s = 2 * (h + 1) /\ ext[s] # ext[p]
      <4>1. h + 1 \in 1..Len(ids)
        BY <1>2, <2>3, <2>4, <3>8
      <4>2. ext[2 * (h + 1)] = ids[h + 1] /\ ids[h + 1] # BlankId
        BY <1>2, <4>1
      <4>3. labels[m + 1] = ids[h + 1] /\ labels[m + 1] # labels[m]
        BY <2>3, <3>2, <3>8, <4>2
      <4>4. Begins(labels, m + 1)
        BY <2>1, <4>2, <4>3 DEF Begins
      <4>5. Len(y) = h + 1 /\ y[h + 1] = ids[h + 1]
        BY <2>2, <4>3, <4>4
      <4>6. \A i \in 1..(h + 1) : y[i] = ids[i]
        BY <2>2, <2>4, <3>4, <4>5 DEF Within
      <4>7. h + 1 \in 0..Len(ids) /\ s = 2 * (h + 1)
        BY <3>8, <4>1
      <4>. HIDE DEF h
      <4>. QED
        BY <4>5, <4>6, <4>7 DEF Through
    <3>9. CASE s = p + 1 /\ p = 2 * h + 1
      <4>1. s = 2 * (h + 1) /\ h + 1 \in 1..Len(ids)
        BY <1>2, <2>3, <2>4, <3>9
      <4>2. ext[s] # ext[p]
        <5>1. ext[2 * (h + 1)] = ids[h + 1] /\ ids[h + 1] # BlankId
          BY <1>2, <4>1
        <5>2. ext[2 * h + 1] = BlankId
          BY <1>2, <3>4
        <5>. QED
          BY <3>9, <4>1, <5>1, <5>2
      <4>. QED
        BY <3>8, <4>1, <4>2
    <3>10. CASE s = p + 2 /\ p = 2 * h + 1 /\ ext[s] # BlankId
      <4>1. s = 2 * (h + 1) + 1 /\ h + 1 \in 0..Len(ids)
        BY <1>2, <2>3, <2>4, <3>10
      <4>2. ext[2 * (h + 1) + 1] = BlankId
        BY <1>2, <4>1
      <4>. QED
        BY <3>10, <4>1, <4>2
    <3>11. CASE s = p + 2 /\ p = 2 * h /\ ext[s] # ext[p]
      <4>1. s = 2 * (h + 1)
        BY <2>4, <3>11
      <4>. QED
        BY <3>8, <3>11, <4>1
    <3>12. CASE s = p + 1 /\ p = 2 * h
      BY <3>7, <3>12
    <3>. QED
      BY <3>4, <3>5, <3>6, <3>9, <3>10, <3>11, <3>12
  <2>. QED
    BY <1>8, <2>5, <2>6
<1>9. T = 0..n
  <2>1. T \in SUBSET (0..n)
    OBVIOUS
  <2>. HIDE DEF T
  <2>. QED
    BY <1>1, <1>7, <1>8, <2>1, UpTo
<1>10. \A f \in 1..n : f \in 0..n /\ f > 0
  BY <1>1
<1>. QED
  BY <1>9, <1>10

\* The labels of a path to one of the two last cells collapse to the phonemes.
LEMMA PathsAreLabellings ==
    ASSUME NEW recording, NEW ids, Aligning(recording, ids), NEW ext, ext = Extended(ids), NEW L, L = Last2(ids),
           NEW n, n = Len(recording), NEW q, IsPath(q, n, ext, L), q[n] = L \/ q[n] = L - 1
    PROVE  LabelsOf(q, n, ext) \in Labellings(recording, ids)
<1>. DEFINE D == DOMAIN recording[1]
            labels == LabelsOf(q, n, ext)
<1>1. n \in Nat /\ n >= 1
  BY DEF Aligning, Recording
<1>2. /\ Len(ids) \in Nat /\ L \in Nat /\ L = 2 * Len(ids) + 1 /\ ext \in [1..L -> D]
  BY ExtendedIs DEF Last2
<1>3. labels \in [1..n -> D]
  BY <1>2 DEF LabelsOf, IsPath
<1>4. labels \in Seq(D) /\ Len(labels) = n
  BY <1>1, <1>3
<1>5. PICK said : Says(said, labels, D) /\ Collapsed(labels) = said[n]
  <2>. HIDE DEF labels, D
  <2>1. \E said : Says(said, labels, D) /\ Collapsed(labels) = said[Len(labels)]
    BY <1>4, CollapsedIs
  <2>. QED
    BY <1>4, <2>1
<1>6. Through(said[n], q[n], ids)
  <2>1. n \in 1..n
    BY <1>1
  <2>. QED
    BY <1>5, <2>1, PathSays
<1>7. PICK h \in 0..Len(ids) : (q[n] = 2 * h \/ q[n] = 2 * h + 1) /\ Len(said[n]) = h /\ \A i \in 1..h : said[n][i] = ids[i]
  BY <1>6 DEF Through
<1>8. h = Len(ids)
  BY <1>2, <1>7
<1>9. said[n] \in Seq(D) /\ ids \in Seq(D)
  <2>1. said \in [0..n -> Seq(D)]
    BY <1>4, <1>5 DEF Says
  <2>2. ids \in Seq(D)
    BY DEF Aligning, Phonemes
  <2>. QED
    BY <1>1, <2>1, <2>2
<1>10. said[n] = ids
  BY <1>7, <1>8, <1>9
<1>. QED
  BY <1>3, <1>5, <1>10 DEF Labellings

\* A labelling has a frame for each phoneme, and is the labels of a path to one of the
\* two last cells.
LEMMA LabellingsArePaths ==
    ASSUME NEW recording, NEW ids, Aligning(recording, ids), NEW ext, ext = Extended(ids), NEW L, L = Last2(ids),
           NEW n, n = Len(recording), NEW v \in Labellings(recording, ids)
    PROVE  /\ Len(ids) <= n
           /\ \E q : IsPath(q, n, ext, L) /\ LabelsOf(q, n, ext) = v /\ (q[n] = L \/ q[n] = L - 1)
<1>. DEFINE D == DOMAIN recording[1]
<1>1. n \in Nat /\ n >= 1
  BY DEF Aligning, Recording
<1>2. /\ Len(ids) \in Nat /\ L \in Nat /\ L = 2 * Len(ids) + 1
      /\ \A i \in 1..Len(ids) : ext[2 * i] = ids[i] /\ ids[i] # BlankId
      /\ \A i \in 0..Len(ids) : ext[2 * i + 1] = BlankId
  BY ExtendedIs DEF Last2
<1>3. v \in [1..n -> D] /\ Collapsed(v) = ids
  BY DEF Labellings
<1>4. v \in Seq(D) /\ Len(v) = n
  BY <1>1, <1>3
<1>. HIDE DEF D
<1>5. PICK said : Says(said, v, D) /\ said[n] = ids
  <2>1. \E said : Says(said, v, D) /\ Collapsed(v) = said[Len(v)]
    BY <1>4, CollapsedIs
  <2>. QED
    BY <1>3, <1>4, <2>1
<1>6. /\ \A f \in 0..n : said[f] \in Seq(D) /\ Len(said[f]) <= f /\ Within(said[f], ids)
      /\ \A f \in 1..n : v[f] # BlankId => Len(said[f]) > 0 /\ said[f][Len(said[f])] = v[f]
  BY <1>4, <1>5, SaidIs
<1>. DEFINE len(f) == Len(said[f])
            q == [f \in 1..n |-> IF v[f] = BlankId THEN 2 * len(f) + 1 ELSE 2 * len(f)]
<1>7. ASSUME NEW f \in 0..n PROVE len(f) \in Nat /\ len(f) <= f /\ len(f) <= Len(ids)
  BY <1>6 DEF Within
<1>8. Len(ids) <= n
  <2>1. n \in 0..n
    BY <1>1
  <2>. QED
    BY <1>5, <1>7, <2>1
<1>9. ASSUME NEW f \in 1..n
      PROVE  /\ q[f] \in 1..L /\ ext[q[f]] = v[f]
             /\ v[f] = BlankId => q[f] = 2 * len(f) + 1
             /\ v[f] # BlankId => q[f] = 2 * len(f) /\ len(f) > 0
  <2>1. f \in 0..n
    BY <1>1
  <2>2. len(f) \in Nat /\ len(f) <= Len(ids)
    BY <1>7, <2>1
  <2>3. CASE v[f] = BlankId
    <3>1. q[f] = 2 * len(f) + 1
      BY <2>3
    <3>. HIDE DEF q
    <3>2. len(f) \in 0..Len(ids)
      BY <1>2, <2>2
    <3>3. ext[2 * len(f) + 1] = BlankId
      BY <1>2, <3>2
    <3>4. q[f] \in 1..L
      BY <1>2, <2>2, <3>1
    <3>. QED
      BY <2>3, <3>1, <3>3, <3>4
  <2>4. CASE v[f] # BlankId
    <3>1. q[f] = 2 * len(f)
      BY <2>4
    <3>. HIDE DEF q
    <3>2. len(f) > 0 /\ said[f][len(f)] = v[f]
      BY <1>6, <2>4
    <3>3. len(f) \in 1..Len(ids)
      BY <1>2, <2>2, <3>2
    <3>4. ids[len(f)] = v[f]
      <4>1. Within(said[f], ids) /\ len(f) \in 1..Len(said[f])
        BY <1>6, <2>1, <2>2, <3>2
      <4>. QED
        BY <3>2, <4>1 DEF Within
    <3>5. ext[2 * len(f)] = v[f]
      BY <1>2, <3>3, <3>4
    <3>6. q[f] \in 1..L
      BY <1>2, <3>1, <3>3
    <3>. QED
      BY <2>4, <3>1, <3>2, <3>5, <3>6
  <2>. QED
    BY <2>3, <2>4
<1>10. q \in [1..n -> 1..L]
  <2>1. q = [f \in 1..n |-> q[f]]
    OBVIOUS
  <2>. HIDE DEF q
  <2>. QED
    BY <1>9, <2>1
<1>11. LabelsOf(q, n, ext) = v
  <2>. HIDE DEF q
  <2>1. v = [f \in 1..n |-> v[f]]
    BY <1>3
  <2>. QED
    BY <1>9, <2>1 DEF LabelsOf
<1>. HIDE DEF q
<1>12. q[n] = L \/ q[n] = L - 1
  <2>1. n \in 1..n
    BY <1>1
  <2>2. q[n] = 2 * len(n) + 1 \/ q[n] = 2 * len(n)
    BY <1>9, <2>1
  <2>3. len(n) = Len(ids)
    BY <1>5
  <2>4. q[n] = 2 * Len(ids) + 1 \/ q[n] = 2 * Len(ids)
    BY <2>2, <2>3
  <2>. QED
    BY <1>2, <2>4
<1>13. ASSUME NEW f \in 1..n
       PROVE  (Begins(v, f) => len(f) = len(f - 1) + 1) /\ (~Begins(v, f) => len(f) = len(f - 1))
  <2>1. Grows(said, v, f, D)
    BY <1>4, <1>5, <1>13, SaysGrows
  <2>. QED
    BY <2>1 DEF Grows
<1>14. q[1] <= 2
  <2>1. 1 \in 1..n /\ 1 \in 0..n /\ 0 \in 0..n
    BY <1>1
  <2>2. len(0) = 0
    BY <1>7, <2>1
  <2>3. CASE v[1] = BlankId
    <3>1. len(1) = 0
      <4>1. ~Begins(v, 1)
        BY <2>3 DEF Begins
      <4>2. len(1) = len(1 - 1)
        BY <1>13, <2>1, <4>1
      <4>. QED
        BY <2>2, <4>2
    <3>. QED
      BY <1>9, <2>1, <2>3, <3>1
  <2>4. CASE v[1] # BlankId
    <3>1. q[1] = 2 * len(1) /\ len(1) \in Nat /\ len(1) <= 1
      BY <1>7, <1>9, <2>1, <2>4
    <3>. QED
      BY <3>1
  <2>. QED
    BY <2>3, <2>4
<1>15. ASSUME NEW f \in 2..n PROVE q[f - 1] \in Predecessors(ext, q[f])
  <2>. DEFINE a == len(f - 1)
              p == q[f - 1]
              s == q[f]
  <2>1. f \in 1..n /\ f - 1 \in 1..n /\ f - 1 \in 0..n /\ f > 1
    BY <1>1
  <2>2. a \in Nat /\ p \in 1..L /\ s \in 1..L
    BY <1>7, <1>9, <2>1
  <2>3. ext[p] = v[f - 1] /\ ext[s] = v[f]
    BY <1>9, <2>1
  <2>4. (v[f - 1] = BlankId => p = 2 * a + 1) /\ (v[f - 1] # BlankId => p = 2 * a /\ a > 0)
    BY <1>9, <2>1
  <2>5. (v[f] = BlankId => s = 2 * len(f) + 1) /\ (v[f] # BlankId => s = 2 * len(f))
    BY <1>9, <2>1
  <2>6. (Begins(v, f) => len(f) = a + 1) /\ (~Begins(v, f) => len(f) = a)
    BY <1>13, <2>1
  <2>. SUFFICES p \in Predecessors(ext, s)
    OBVIOUS
  <2>. HIDE DEF a, p, s, len
  <2>7. CASE Begins(v, f)
    <3>1. v[f] # BlankId /\ v[f] # v[f - 1] /\ s = 2 * (a + 1)
      BY <2>1, <2>5, <2>6, <2>7 DEF Begins
    <3>2. CASE v[f - 1] = BlankId
      <4>1. p = s - 1 /\ s > 1
        BY <2>2, <2>4, <3>1, <3>2
      <4>. QED
        BY <4>1 DEF Predecessors
    <3>3. CASE v[f - 1] # BlankId
      <4>1. p = s - 2 /\ s > 2 /\ ext[s] # BlankId /\ ext[s] # ext[s - 2]
        <5>1. p = s - 2 /\ s > 2
          BY <2>2, <2>4, <3>1, <3>3
        <5>. QED
          BY <2>3, <3>1, <5>1
      <4>. QED
        BY <4>1 DEF Predecessors
    <3>. QED
      BY <3>2, <3>3
  <2>8. CASE ~Begins(v, f)
    <3>1. CASE v[f] = BlankId
      <4>1. s = 2 * a + 1 /\ (p = 2 * a + 1 \/ p = 2 * a)
        BY <2>4, <2>5, <2>6, <2>8, <3>1
      <4>2. p = s \/ (p = s - 1 /\ s > 1)
        BY <2>2, <4>1
      <4>. QED
        BY <4>2 DEF Predecessors
    <3>2. CASE v[f] # BlankId
      <4>1. v[f] = v[f - 1]
        BY <2>8, <3>2 DEF Begins
      <4>2. p = s
        BY <2>4, <2>5, <2>6, <2>8, <3>2, <4>1
      <4>. QED
        BY <4>2 DEF Predecessors
    <3>. QED
      BY <3>1, <3>2
  <2>. QED
    BY <2>7, <2>8
<1>16. IsPath(q, n, ext, L)
  BY <1>10, <1>14, <1>15 DEF IsPath
<1>. QED
  BY <1>8, <1>11, <1>12, <1>16

----------------------------------------------------------------------------
(* Alignment: the spans of the best path                                   *)

LEMMA GreatestNumber ==
    ASSUME NEW n \in Nat, NEW T \in SUBSET (1..n), T # {}
    PROVE  \E m \in T : \A k \in T : k <= m
<1>. DEFINE U == {k \in 1..n : n - k + 1 \in T}
<1>1. U \in SUBSET Nat
  OBVIOUS
<1>2. U # {}
  <2>1. PICK k \in T : TRUE
    OBVIOUS
  <2>2. n - k + 1 \in 1..n /\ n - (n - k + 1) + 1 = k
    BY <2>1
  <2>. QED
    BY <2>1, <2>2
<1>3. PICK m \in U : \A k \in U : m <= k
  <2>. HIDE DEF U
  <2>. QED
    BY <1>1, <1>2, LeastNumber
<1>4. n - m + 1 \in T
  BY <1>3
<1>5. ASSUME NEW k \in T PROVE k <= n - m + 1
  <2>1. n - k + 1 \in 1..n /\ n - (n - k + 1) + 1 = k
    OBVIOUS
  <2>2. n - k + 1 \in U
    BY <2>1
  <2>3. m <= n - k + 1 /\ m \in 1..n
    BY <1>3, <2>2
  <2>. QED
    BY <2>3
<1>. QED
  BY <1>4, <1>5

\* A path never goes back.
LEMMA PathsAscend ==
    ASSUME NEW n \in Nat, NEW L \in Nat, NEW ext, NEW q, IsPath(q, n, ext, L)
    PROVE  \A g \in 1..n : \A f \in 1..g : q[f] <= q[g]
<1>1. q \in [1..n -> 1..L] /\ \A f \in 2..n : q[f - 1] \in Predecessors(ext, q[f])
  BY DEF IsPath
<1>. DEFINE T == {g \in 0..n : \A f \in 1..g : q[f] <= q[g]}
<1>2. 0 \in T
  OBVIOUS
<1>3. ASSUME NEW m \in 0..n, m + 1 \in 0..n, m \in T PROVE m + 1 \in T
  <2>1. ASSUME NEW f \in 1..(m + 1) PROVE q[f] <= q[m + 1]
    <3>1. m + 1 \in 1..n /\ q[m + 1] \in 1..L
      BY <1>1, <1>3
    <3>2. CASE f = m + 1
      BY <3>1, <3>2
    <3>3. CASE f # m + 1
      <4>1. f \in 1..m /\ f \in 1..n /\ m \in 1..n /\ m + 1 \in 2..n /\ (m + 1) - 1 = m
        BY <1>3, <3>3
      <4>2. q[f] <= q[m] /\ q[f] \in 1..L /\ q[m] \in 1..L
        BY <1>1, <1>3, <4>1
      <4>3. q[m] \in Predecessors(ext, q[m + 1])
        BY <1>1, <4>1
      <4>4. q[m] = q[m + 1] \/ q[m] = q[m + 1] - 1 \/ q[m] = q[m + 1] - 2
        BY <3>1, <4>3, PredecessorsAre
      <4>. QED
        BY <3>1, <4>2, <4>4
    <3>. QED
      BY <3>2, <3>3
  <2>. QED
    BY <1>3, <2>1
<1>4. T = 0..n
  <2>1. T \in SUBSET (0..n)
    OBVIOUS
  <2>. HIDE DEF T
  <2>. QED
    BY <1>2, <1>3, <2>1, UpTo
<1>5. \A g \in 1..n : g \in T
  BY <1>4
<1>. QED
  BY <1>5

\* The span of a cell is the frames in which the path is there.
LEMMA SpansAre ==
    ASSUME NEW n \in Nat, NEW L \in Nat, NEW ext, NEW q, IsPath(q, n, ext, L), NEW s, NEW f \in 1..n
    PROVE  f \in SpanOf(q, s)[1]..SpanOf(q, s)[2] <=> q[f] = s
<1>. DEFINE frames == {g \in 1..n : q[g] = s}
            lo == Min(frames)
            hi == Max(frames)
<1>1. q \in [1..n -> 1..L] /\ Len(q) = n
  BY DEF IsPath
<1>2. SpanOf(q, s) = IF frames = {} THEN <<n + 1, n>> ELSE <<lo, hi>>
  BY <1>1 DEF SpanOf
<1>3. CASE frames = {}
  <2>1. SpanOf(q, s)[1] = n + 1 /\ SpanOf(q, s)[2] = n
    BY <1>2, <1>3
  <2>2. q[f] # s
    BY <1>3
  <2>. QED
    BY <2>1, <2>2
<1>4. CASE frames # {}
  <2>0. SpanOf(q, s)[1] = lo /\ SpanOf(q, s)[2] = hi
    BY <1>2, <1>4
  <2>. DEFINE G == frames
  <2>1. G \in SUBSET (1..n) /\ G \in SUBSET Nat /\ G # {}
    BY <1>4
  <2>2. lo \in G /\ \A k \in G : lo <= k
    <3>. HIDE DEF frames
    <3>1. \E m \in G : \A k \in G : m <= k
      BY <2>1, LeastNumber
    <3>. QED
      BY <3>1 DEF Min
  <2>3. hi \in G /\ \A k \in G : k <= hi
    <3>. HIDE DEF frames
    <3>1. \E m \in G : \A k \in G : k <= m
      BY <2>1, GreatestNumber
    <3>2. \A m, k \in G : k <= m <=> m >= k
      BY <2>1
    <3>3. \E m \in G : \A k \in G : m >= k
      BY <3>1, <3>2
    <3>4. hi \in G /\ \A k \in G : hi >= k
      BY <3>3 DEF Max
    <3>. QED
      BY <3>2, <3>4
  <2>4. lo \in 1..n /\ hi \in 1..n /\ q[lo] = s /\ q[hi] = s
    <3>. HIDE DEF lo, hi
    <3>. QED
      BY <2>2, <2>3
  <2>. HIDE DEF lo, hi
  <2>5. ASSUME f \in lo..hi PROVE q[f] = s
    <3>1. q[lo] <= q[f] /\ q[f] <= q[hi]
      <4>1. lo \in 1..f /\ f \in 1..hi
        BY <2>4, <2>5
      <4>. QED
        BY <2>4, <4>1, PathsAscend
    <3>2. q[f] \in 1..L /\ q[lo] \in 1..L
      BY <1>1, <2>4
    <3>. QED
      BY <2>4, <3>1, <3>2
  <2>6. ASSUME q[f] = s PROVE f \in lo..hi
    <3>1. f \in G
      BY <2>6
    <3>2. lo <= f /\ f <= hi
      <4>. HIDE DEF frames
      <4>. QED
        BY <2>2, <2>3, <3>1
    <3>. QED
      BY <2>4, <3>2
  <2>. QED
    BY <2>0, <2>5, <2>6
<1>. QED
  BY <1>3, <1>4

\* The end cell is reached if one of the two last is, and is the better of them.
LEMMA EndCellIs ==
    ASSUME NEW L \in Nat, L >= 3, NEW row \in Row(L), NEW e, e = EndCell(row)
    PROVE  /\ e = L \/ e = L - 1
           /\ \A c \in {L, L - 1} : row[c].reached => row[e].reached /\ row[c].value <= row[e].value
<1>. DEFINE blank == row[L]
            label == row[L - 1]
<1>1. Len(row) = L
  BY DEF Row
<1>2. L \in 1..L /\ L - 1 \in 1..L
  OBVIOUS
<1>3. blank.value \in Int /\ label.value \in Int /\ blank.reached \in BOOLEAN /\ label.reached \in BOOLEAN
  BY <1>2 DEF Row, Cell
<1>4. e = IF label.reached /\ (blank.reached => label.value > blank.value) THEN L - 1 ELSE L
  BY <1>1 DEF EndCell
<1>. HIDE DEF blank, label
<1>5. CASE label.reached /\ (blank.reached => label.value > blank.value)
  <2>1. e = L - 1 /\ row[e] = label
    BY <1>4, <1>5 DEF label
  <2>2. blank.reached => blank.value <= label.value
    BY <1>3, <1>5
  <2>3. ASSUME NEW c \in {L, L - 1}, row[c].reached PROVE row[e].reached /\ row[c].value <= row[e].value
    <3>1. row[c] = blank \/ row[c] = label
      BY DEF blank, label
    <3>. QED
      BY <1>3, <1>5, <2>1, <2>2, <2>3, <3>1
  <2>. QED
    BY <2>1, <2>3
<1>6. CASE ~(label.reached /\ (blank.reached => label.value > blank.value))
  <2>1. e = L /\ row[e] = blank
    BY <1>4, <1>6 DEF blank
  <2>2. label.reached => blank.reached /\ label.value <= blank.value
    BY <1>3, <1>6
  <2>3. ASSUME NEW c \in {L, L - 1}, row[c].reached PROVE row[e].reached /\ row[c].value <= row[e].value
    <3>1. row[c] = blank \/ row[c] = label
      BY DEF blank, label
    <3>. QED
      BY <1>3, <2>1, <2>2, <2>3, <3>1
  <2>. QED
    BY <2>1, <2>3
<1>. QED
  BY <1>5, <1>6

\* Where there is a labelling, the path of forced_align is the best of them.
LEMMA ForcedAlignIsBest ==
    ASSUME NEW recording, NEW ids, Aligning(recording, ids), NEW ext, ext = Extended(ids), NEW L, L = Last2(ids),
           NEW n, n = Len(recording), Labellings(recording, ids) # {}
    PROVE  \E path : /\ IsPath(path, n, ext, L)
                     /\ ForcedAlign(recording, ids) = [i \in 1..Len(ids) |-> SpanOf(path, 2 * i)]
                     /\ LabelsOf(path, n, ext) \in Labellings(recording, ids)
                     /\ \A v \in Labellings(recording, ids) :
                            Likelihood(recording, v) <= Likelihood(recording, LabelsOf(path, n, ext))
<1>. DEFINE D == DOMAIN recording[1]
            rows == Trellis(recording, ext)
            path == Backtracked(rows)
            all == Labellings(recording, ids)
            w == LabelsOf(path, n, ext)
<1>1. n \in Nat /\ n >= 1 /\ Recording(recording)
  BY DEF Aligning, Recording
<1>2. Len(ids) \in Nat /\ L \in Nat /\ L >= 3
  BY ExtendedIs
<1>3. \A v \in all : Len(ids) <= n
  BY LabellingsArePaths
<1>4. ForcedAlign(recording, ids) = [i \in 1..Len(ids) |-> SpanOf(path, 2 * i)]
  <2>1. ~(Len(recording) < Len(ids))
    BY <1>1, <1>2, <1>3
  <2>. QED
    BY <2>1 DEF ForcedAlign
<1>5. IsTrellis(rows, recording, ext, L)
  BY TrellisIs
<1>6. rows \in [1..n -> Row(L)] /\ rows[n] \in Row(L)
  BY <1>1, <1>5 DEF IsTrellis
<1>7. IsBacktracked(path, rows, n, L)
  <2>. HIDE DEF rows
  <2>1. L >= 2
    BY <1>2
  <2>. QED
    BY <1>1, <1>2, <1>6, <2>1, BacktrackedIs
<1>. HIDE DEF rows, path, all
<1>. DEFINE e == path[n]
<1>8. e = EndCell(rows[n])
  BY <1>7 DEF IsBacktracked
<1>9. /\ e = L \/ e = L - 1
      /\ \A c \in {L, L - 1} : rows[n][c].reached => rows[n][e].reached /\ rows[n][c].value <= rows[n][e].value
  <2>. DEFINE row == rows[n]
  <2>1. row \in Row(L) /\ e = EndCell(row)
    BY <1>6, <1>8
  <2>. HIDE DEF row, e
  <2>2. /\ e = L \/ e = L - 1
        /\ \A c \in {L, L - 1} : row[c].reached => row[e].reached /\ row[c].value <= row[e].value
    BY <1>2, <2>1, EndCellIs
  <2>. QED
    BY <2>2 DEF row
<1>10. ASSUME NEW v \in all
       PROVE  /\ rows[n][e].reached
              /\ Likelihood(recording, v) <= rows[n][e].value /\ Likelihood(recording, v) \in Int
  <2>1. PICK q : IsPath(q, n, ext, L) /\ LabelsOf(q, n, ext) = v /\ (q[n] = L \/ q[n] = L - 1)
    BY LabellingsArePaths DEF all
  <2>2. v \in [1..n -> D]
    BY DEF all, Labellings
  <2>3. PICK total : Totals(total, recording, v) /\ Likelihood(recording, v) = total[n]
    BY <1>1, <2>2, LikelihoodIs
  <2>4. Totals(total, recording, LabelsOf(q, n, ext))
    BY <2>1, <2>3
  <2>5. \A f \in 1..n : rows[f][q[f]].reached /\ total[f] <= rows[f][q[f]].value
    BY <1>5, <2>1, <2>4, PathsAreBelow
  <2>6. n \in 1..n /\ n \in 0..n
    BY <1>1
  <2>7. rows[n][q[n]].reached /\ total[n] <= rows[n][q[n]].value
    BY <2>5, <2>6
  <2>8. total[n] \in Int
    BY <2>3, <2>6 DEF Totals
  <2>. DEFINE c == q[n]
  <2>9. c \in {L, L - 1}
    BY <2>1
  <2>10. rows[n][e].reached /\ rows[n][c].value <= rows[n][e].value
    BY <1>9, <2>7, <2>9
  <2>11. rows[n][c].value \in Int /\ rows[n][e].value \in Int
    <3>1. c \in 1..L /\ e \in 1..L
      BY <1>2, <1>9, <2>9
    <3>. HIDE DEF c, e
    <3>. QED
      BY <1>6, <3>1 DEF Row, Cell
  <2>12. total[n] <= rows[n][c].value
    BY <2>7
  <2>. HIDE DEF c, e
  <2>13. total[n] <= rows[n][e].value
    BY <2>8, <2>10, <2>11, <2>12
  <2>. QED
    BY <2>3, <2>8, <2>10, <2>13
<1>11. rows[n][path[n]].reached /\ path[n] \in 1..L
  <2>1. \E v \in all : TRUE
    BY DEF all
  <2>2. e \in 1..L
    BY <1>2, <1>9
  <2>. QED
    BY <1>10, <2>1, <2>2
<1>12. /\ IsPath(path, n, ext, L)
       /\ \A total : Totals(total, recording, LabelsOf(path, n, ext)) => total[n] = rows[n][path[n]].value
  BY <1>5, <1>7, <1>11, BackPointersArePath
<1>13. w \in all
  <2>1. path[n] = L \/ path[n] = L - 1
    BY <1>9
  <2>. QED
    BY <1>12, <2>1, PathsAreLabellings DEF all
<1>14. Likelihood(recording, w) = rows[n][e].value
  <2>. HIDE DEF w
  <2>1. w \in [1..n -> D]
    BY <1>13 DEF all, Labellings
  <2>2. PICK total : Totals(total, recording, w) /\ Likelihood(recording, w) = total[n]
    BY <1>1, <2>1, LikelihoodIs
  <2>. QED
    BY <1>12, <2>2 DEF w
<1>15. \A v \in all : Likelihood(recording, v) <= Likelihood(recording, w)
  BY <1>10, <1>14
<1>. QED
  BY <1>4, <1>12, <1>13, <1>15 DEF all

\* The scores of a recording belong to its most likely alignment.
LEMMA ScoresAreAligned ==
    ASSUME NEW recording, Recording(recording), recording # <<>>, NEW expected \in Seq(Nat),
           NEW scores, scores = Score(recording, expected), scores # <<>>
    PROVE  BestAligned(recording, expected, scores)
<1>. DEFINE ids == Known(recording, expected)
            ext == Extended(ids)
            L == Last2(ids)
            n == Len(recording)
            spans == ForcedAlign(recording, ids)
            all == Labellings(recording, ids)
            N == Len(ids)
<1>1. ids \in Seq(Phonemes(recording)) /\ ids # <<>>
  <2>1. ids \in Seq(Phonemes(recording))
    BY KnownIs
  <2>2. ids # <<>>
    BY DEF Score
  <2>. QED
    BY <2>1, <2>2
<1>2. scores = GopScores(recording, ids)
  BY <1>1 DEF Score
<1>. HIDE DEF ids
<1>3. Aligning(recording, ids)
  BY <1>1 DEF Aligning
<1>4. N \in Nat
  BY <1>1
<1>5. scores = [i \in 1..N |-> [phoneme |-> ids[i], span |-> spans[i], gop |-> GopOf(recording, ids[i], spans[i])]]
  BY <1>2 DEF GopScores
<1>6. Len(scores) = N /\ \A i \in 1..N : scores[i].phoneme = ids[i] /\ scores[i].span = spans[i]
  BY <1>4, <1>5
<1>7. ASSUME all # {}
      PROVE  /\ Labelled(recording, scores) \in all
             /\ \A v \in all : Likelihood(recording, v) <= Likelihood(recording, Labelled(recording, scores))
  <2>1. PICK path : /\ IsPath(path, n, ext, L)
                    /\ ForcedAlign(recording, ids) = [i \in 1..Len(ids) |-> SpanOf(path, 2 * i)]
                    /\ LabelsOf(path, n, ext) \in Labellings(recording, ids)
                    /\ \A v \in Labellings(recording, ids) :
                           Likelihood(recording, v) <= Likelihood(recording, LabelsOf(path, n, ext))
    BY <1>3, <1>7, ForcedAlignIsBest
  <2>2. /\ n \in Nat /\ L \in Nat /\ L = 2 * N + 1
        /\ \A i \in 1..N : ext[2 * i] = ids[i]
        /\ \A i \in 0..N : ext[2 * i + 1] = BlankId
    <3>1. n \in Nat
      BY DEF Recording
    <3>. QED
      BY <1>3, <3>1, ExtendedIs DEF Last2
  <2>. HIDE DEF ext, L, n
  <2>. DEFINE In(f, i) == f \in scores[i].span[1]..scores[i].span[2]
  <2>3. ASSUME NEW f \in 1..n, NEW i \in 1..N PROVE In(f, i) <=> path[f] = 2 * i
    <3>1. scores[i].span = SpanOf(path, 2 * i)
      BY <1>6, <2>1
    <3>2. f \in SpanOf(path, 2 * i)[1]..SpanOf(path, 2 * i)[2] <=> path[f] = 2 * i
      BY <2>1, <2>2, SpansAre
    <3>. QED
      BY <3>1, <3>2
  <2>. HIDE DEF In
  <2>. DEFINE at(f) == IF \E i \in 1..N : In(f, i) THEN scores[CHOOSE i \in 1..N : In(f, i)].phoneme ELSE BlankId
  <2>4. ASSUME NEW f \in 1..n PROVE at(f) = ext[path[f]]
    <3>1. path[f] \in 1..(2 * N + 1)
      BY <2>1, <2>2 DEF IsPath
    <3>2. CASE \E i \in 1..N : path[f] = 2 * i
      <4>1. PICK i \in 1..N : path[f] = 2 * i
        BY <3>2
      <4>2. \E j \in 1..N : In(f, j)
        BY <2>3, <4>1
      <4>. DEFINE j == CHOOSE j \in 1..N : In(f, j)
      <4>3. j \in 1..N /\ In(f, j)
        BY <4>2
      <4>. HIDE DEF j
      <4>4. path[f] = 2 * j
        BY <2>3, <4>3
      <4>5. j = i
        BY <1>4, <4>1, <4>3, <4>4
      <4>6. at(f) = scores[j].phoneme
        BY <4>2 DEF j
      <4>7. scores[j].phoneme = ids[i] /\ ext[path[f]] = ids[i]
        BY <1>6, <2>2, <4>1, <4>5
      <4>. QED
        BY <4>6, <4>7
    <3>3. CASE ~\E i \in 1..N : path[f] = 2 * i
      <4>1. ~\E i \in 1..N : In(f, i)
        BY <2>3, <3>3
      <4>2. at(f) = BlankId
        BY <4>1
      <4>3. PICK i \in 0..N : path[f] = 2 * i + 1
        BY <1>4, <3>1, <3>3, CellIs
      <4>. QED
        BY <2>2, <4>2, <4>3
    <3>. QED
      BY <3>2, <3>3
  <2>5. Labelled(recording, scores) = [f \in 1..n |-> at(f)]
    BY <1>6 DEF Labelled, In, n
  <2>. HIDE DEF at
  <2>6. Labelled(recording, scores) = LabelsOf(path, n, ext)
    BY <2>4, <2>5 DEF LabelsOf
  <2>. QED
    BY <2>1, <2>6
<1>. QED
  BY <1>6, <1>7 DEF BestAligned, ids

----------------------------------------------------------------------------
(* Attempts: words and their forms                                         *)

Word == Seq(Seq(STRING))

\* The form of a word of one token is that token, of one without tokens nothing.
LEMMA ShortForms ==
    ASSUME NEW word \in Word, Len(word) <= 1
    PROVE  Normalize(word) = IF Len(word) = 0 THEN <<>> ELSE word[1]
<1>1. CASE Len(word) = 0
  <2>1. word = <<>>
    BY <1>1 DEF Word
  <2>. QED
    BY <1>1, <2>1 DEF Normalize, FlattenSeq
<1>2. CASE Len(word) = 1
  <2>. DEFINE f == CHOOSE f : f = [i \in 1..Len(word) |-> IF i = 1 THEN word[i] ELSE f[i - 1] \o word[i]]
              g == [i \in 1..1 |-> word[1]]
  <2>1. g = [i \in 1..1 |-> IF i = 1 THEN word[i] ELSE g[i - 1] \o word[i]]
    OBVIOUS
  <2>2. \E h : h = [i \in 1..Len(word) |-> IF i = 1 THEN word[i] ELSE h[i - 1] \o word[i]]
    <3>. HIDE DEF g
    <3>. QED
      BY <1>2, <2>1
  <2>3. f = [i \in 1..Len(word) |-> IF i = 1 THEN word[i] ELSE f[i - 1] \o word[i]]
    BY <2>2
  <2>4. Normalize(word) = f[1]
    BY <1>2 DEF Normalize, FlattenSeq
  <2>. HIDE DEF f
  <2>5. f[1] = word[1]
    BY <1>2, <2>3
  <2>. QED
    BY <1>2, <2>4, <2>5
<1>3. Len(word) = 0 \/ Len(word) = 1
  <2>1. Len(word) \in Nat
    BY DEF Word
  <2>2. \A m \in Nat : m <= 1 => m = 0 \/ m = 1
    OBVIOUS
  <2>. QED
    BY <2>1, <2>2
<1>. QED
  BY <1>1, <1>2, <1>3

\* The words of a text that have a form.
LEMMA SpokenIs ==
    ASSUME NEW text \in Seq(Word)
    PROVE  Spoken(text) \in Seq({w \in Word : Normalize(w) # <<>>})
<1>. DEFINE S == Seq({w \in Word : Normalize(w) # <<>>})
            n == Len(text)
            move == [k \in 1..n |-> [s \in S |-> IF Normalize(text[k]) = <<>> THEN s ELSE Append(s, text[k])]]
<1>1. n \in Nat /\ <<>> \in S /\ \A k \in 1..n : text[k] \in Word
  OBVIOUS
<1>2. move \in [1..n -> [S -> S]]
  <2>. SUFFICES ASSUME NEW k \in 1..n, NEW s \in S
                PROVE  (IF Normalize(text[k]) = <<>> THEN s ELSE Append(s, text[k])) \in S
    OBVIOUS
  <2>1. text[k] \in Word
    BY <1>1
  <2>. QED
    BY <2>1
<1>3. \A k \in 1..n, s \in S : move[k][s] = IF Normalize(text[k]) = <<>> THEN s ELSE Append(s, text[k])
  OBVIOUS
<1>4. <<>> \in S
  BY <1>1
<1>5. PICK F \in [0..n -> S] : F[0] = <<>> /\ \A k \in 1..n : F[k] = move[k][F[k - 1]]
  <2>. DEFINE a == <<>>
  <2>1. n \in Nat
    BY <1>1
  <2>2. a \in S
    BY <1>4
  <2>. HIDE DEF move, S, n, a
  <2>3. \E F : Carried(F, S, a, n, move)
    BY <1>2, <2>1, <2>2, Recursion
  <2>. QED
    BY <2>3 DEF Carried, a
<1>. DEFINE Rule(f) == f = [k \in 0..n |-> IF k = 0 THEN <<>>
                               ELSE IF Normalize(text[k]) = <<>> THEN f[k - 1] ELSE Append(f[k - 1], text[k])]
            kept == CHOOSE f : Rule(f)
<1>6. \A k \in 1..n : F[k - 1] \in S
  <2>1. \A k \in 1..n : k - 1 \in 0..n
    BY <1>1
  <2>. HIDE DEF move, S, n
  <2>. QED
    BY <1>5, <2>1
<1>7. Rule(F)
  <2>1. \A k \in 1..n : move[k][F[k - 1]] = IF Normalize(text[k]) = <<>> THEN F[k - 1] ELSE Append(F[k - 1], text[k])
    <3>. HIDE DEF move, S, n
    <3>. QED
      BY <1>3, <1>6
  <2>2. \A k \in 0..n : k # 0 => k \in 1..n
    BY <1>1
  <2>. HIDE DEF move, S, n
  <2>3. \A k \in 0..n : F[k] = IF k = 0 THEN <<>>
                              ELSE IF Normalize(text[k]) = <<>> THEN F[k - 1] ELSE Append(F[k - 1], text[k])
    BY <1>5, <2>1, <2>2
  <2>. QED
    BY <1>5, <2>3
<1>8. Rule(kept)
  <2>. HIDE DEF Rule
  <2>. QED
    BY <1>7
<1>9. Spoken(text) = kept[n]
  BY DEF Spoken
<1>. DEFINE T == {k \in 0..n : kept[k] \in S}
<1>. HIDE DEF kept, S
<1>10. 0 \in T
  BY <1>1, <1>4, <1>8
<1>11. ASSUME NEW m \in 0..n, m + 1 \in 0..n, m \in T PROVE m + 1 \in T
  <2>1. m + 1 \in 1..n /\ (m + 1) - 1 = m /\ m + 1 # 0
    BY <1>11
  <2>2. kept[m + 1] = IF Normalize(text[m + 1]) = <<>> THEN kept[m] ELSE Append(kept[m], text[m + 1])
    BY <1>8, <1>11, <2>1
  <2>3. move[m + 1][kept[m]] \in S
    <3>. HIDE DEF move
    <3>. QED
      BY <1>2, <1>11, <2>1
  <2>. QED
    BY <1>3, <1>11, <2>1, <2>2, <2>3
<1>12. T = 0..n
  <2>1. T \in SUBSET (0..n)
    OBVIOUS
  <2>. HIDE DEF T, n
  <2>. QED
    BY <1>1, <1>10, <1>11, <2>1, UpTo
<1>. QED
  <2>1. n \in T
    BY <1>1, <1>12
  <2>. QED
    BY <1>9, <2>1 DEF S

\* How many of the first k words have this form, and what is left of a number.
Asked(words, k, f) == Cardinality({i \in 1..k : Normalize(words[i]) = f})
Left(total, used) == IF used < total THEN total - used ELSE 0

LEMMA AskedNext ==
    ASSUME NEW words, NEW k \in Nat, NEW f
    PROVE  /\ Asked(words, 0, f) = 0 /\ Asked(words, k, f) \in Nat
           /\ Normalize(words[k + 1]) = f => Asked(words, k + 1, f) = Asked(words, k, f) + 1
           /\ Normalize(words[k + 1]) # f => Asked(words, k + 1, f) = Asked(words, k, f)
<1>. DEFINE P(m) == {i \in 1..m : Normalize(words[i]) = f}
<1>1. P(0) = {}
  OBVIOUS
<1>2. Asked(words, 0, f) = 0
  BY <1>1, FS_EmptySet DEF Asked
<1>3. P(k) \in SUBSET (1..k) /\ IsFiniteSet(1..k)
  BY FS_Interval
<1>4. IsFiniteSet(P(k)) /\ Cardinality(P(k)) \in Nat
  <2>. HIDE DEF P
  <2>. QED
    BY <1>3, FS_Subset, FS_CardinalityType
<1>5. \A i : i \in 1..(k + 1) <=> i \in 1..k \/ i = k + 1
  OBVIOUS
<1>6. P(k + 1) = IF Normalize(words[k + 1]) = f THEN P(k) \cup {k + 1} ELSE P(k)
  BY <1>5
<1>7. k + 1 \notin P(k)
  OBVIOUS
<1>8. Cardinality(P(k + 1)) = IF Normalize(words[k + 1]) = f THEN Cardinality(P(k)) + 1 ELSE Cardinality(P(k))
  <2>. HIDE DEF P
  <2>1. Cardinality(P(k) \cup {k + 1}) = Cardinality(P(k)) + 1
    BY <1>4, <1>7, FS_AddElement
  <2>. QED
    BY <1>6, <2>1
<1>. QED
  BY <1>2, <1>4, <1>8 DEF Asked

\* A text has finitely many tokens.
LEMMA TokensAreFinite ==
    ASSUME NEW text \in Seq(Word)
    PROVE  /\ IsFiniteSet(Tokens(text))
           /\ \A token : Occurrences(text, token) \in Nat
<1>1. Len(text) \in Nat /\ \A i \in 1..Len(text) : Len(text[i]) \in Nat
  BY DEF Word
<1>. DEFINE Of(i) == {<<i, j>> : j \in 1..Len(text[i])}
            T == {k \in 0..Len(text) : IsFiniteSet(UNION {Of(i) : i \in 1..k})}
<1>2. ASSUME NEW i \in 1..Len(text) PROVE IsFiniteSet(Of(i))
  <2>. DEFINE U == {k \in 0..Len(text[i]) : IsFiniteSet({<<i, j>> : j \in 1..k})}
  <2>1. 0 \in U
    <3>1. {<<i, j>> : j \in 1..0} = {}
      OBVIOUS
    <3>2. IsFiniteSet({<<i, j>> : j \in 1..0})
      BY <3>1, FS_EmptySet
    <3>3. Len(text[i]) \in Nat
      BY <1>1
    <3>. QED
      BY <3>2, <3>3
  <2>2. ASSUME NEW m \in 0..Len(text[i]), m + 1 \in 0..Len(text[i]), m \in U PROVE m + 1 \in U
    <3>1. \A j : j \in 1..(m + 1) <=> j \in 1..m \/ j = m + 1
      BY <1>1
    <3>2. {<<i, j>> : j \in 1..(m + 1)} = {<<i, j>> : j \in 1..m} \cup {<<i, m + 1>>}
      BY <3>1
    <3>3. IsFiniteSet({<<i, j>> : j \in 1..m} \cup {<<i, m + 1>>})
      BY <2>2, FS_AddElement
    <3>. QED
      BY <2>2, <3>2, <3>3
  <2>3. U = 0..Len(text[i])
    <3>1. U \in SUBSET (0..Len(text[i])) /\ Len(text[i]) \in Nat
      BY <1>1
    <3>. HIDE DEF U
    <3>. QED
      BY <2>1, <2>2, <3>1, UpTo
  <2>4. Len(text[i]) \in U
    <3>. HIDE DEF U
    <3>. QED
      BY <1>1, <2>3
  <2>. QED
    BY <2>4
<1>3. 0 \in T
  <2>1. UNION {Of(i) : i \in 1..0} = {}
    OBVIOUS
  <2>2. IsFiniteSet(UNION {Of(i) : i \in 1..0})
    BY <2>1, FS_EmptySet
  <2>. QED
    BY <1>1, <2>2
<1>4. ASSUME NEW m \in 0..Len(text), m + 1 \in 0..Len(text), m \in T PROVE m + 1 \in T
  <2>1. (\A i : i \in 1..(m + 1) <=> i \in 1..m \/ i = m + 1) /\ m + 1 \in 1..Len(text)
    BY <1>1, <1>4
  <2>. HIDE DEF Of
  <2>2. UNION {Of(i) : i \in 1..(m + 1)} = (UNION {Of(i) : i \in 1..m}) \cup Of(m + 1)
    <3>1. \A x : (\E i \in 1..(m + 1) : x \in Of(i)) <=> (\E i \in 1..m : x \in Of(i)) \/ x \in Of(m + 1)
      BY <2>1
    <3>. QED
      BY <3>1
  <2>3. IsFiniteSet((UNION {Of(i) : i \in 1..m}) \cup Of(m + 1))
    <3>1. IsFiniteSet(UNION {Of(i) : i \in 1..m}) /\ IsFiniteSet(Of(m + 1))
      BY <1>2, <1>4, <2>1
    <3>. QED
      BY <3>1, FS_Union
  <2>. QED
    BY <1>4, <2>2, <2>3
<1>5. T = 0..Len(text)
  <2>1. T \in SUBSET (0..Len(text))
    OBVIOUS
  <2>. HIDE DEF T
  <2>. QED
    BY <1>1, <1>3, <1>4, <2>1, UpTo
<1>6. Len(text) \in T
  <2>. HIDE DEF T
  <2>. QED
    BY <1>1, <1>5
<1>7. IsFiniteSet(Tokens(text))
  BY <1>6 DEF Tokens
<1>8. ASSUME NEW token PROVE Occurrences(text, token) \in Nat
  <2>. DEFINE P == {p \in Tokens(text) : text[p[1]][p[2]] = token}
  <2>1. P \in SUBSET Tokens(text)
    OBVIOUS
  <2>2. Occurrences(text, token) = Cardinality(P)
    BY DEF Occurrences
  <2>. HIDE DEF P
  <2>. QED
    BY <1>7, <2>1, <2>2, FS_Subset, FS_CardinalityType
<1>. QED
  BY <1>7, <1>8

\* The form of the k-th word is one of the forms.
Forms(words) == {Normalize(words[k]) : k \in 1..Len(words)}
Comparison(words) == [available : [Forms(words) -> Nat], heard : Seq(BOOLEAN)]

LEMMA ComparedIs ==
    ASSUME NEW words, NEW done \in Comparison(words), NEW f \in Forms(words)
    PROVE  /\ Compared(done, f) \in Comparison(words)
           /\ Len(Compared(done, f).heard) = Len(done.heard) + 1
           /\ \A i \in 1..Len(done.heard) : Compared(done, f).heard[i] = done.heard[i]
           /\ Compared(done, f).heard[Len(done.heard) + 1] = (done.available[f] > 0)
           /\ \A g \in Forms(words) : Compared(done, f).available[g] =
                  IF g = f THEN Left(done.available[f], 1) ELSE done.available[g]
<1>1. done.available \in [Forms(words) -> Nat] /\ done.heard \in Seq(BOOLEAN) /\ done.available[f] \in Nat
  BY DEF Comparison
<1>. DEFINE less == IF done.available[f] > 0 THEN Consume(done.available, f) ELSE done.available
            more == Append(done.heard, done.available[f] > 0)
<1>2. Compared(done, f) = [available |-> less, heard |-> more]
  BY DEF Compared
<1>3. less \in [Forms(words) -> Nat]
  <2>1. CASE done.available[f] > 0
    <3>1. less = [done.available EXCEPT ![f] = done.available[f] - 1]
      BY <2>1 DEF Consume
    <3>2. done.available[f] - 1 \in Nat
      BY <1>1, <2>1
    <3>. HIDE DEF less
    <3>. QED
      BY <1>1, <3>1, <3>2
  <2>2. CASE ~(done.available[f] > 0)
    BY <1>1, <2>2
  <2>. QED
    BY <2>1, <2>2
<1>4. \A g \in Forms(words) : less[g] = IF g = f THEN Left(done.available[f], 1) ELSE done.available[g]
  BY <1>1 DEF Consume, Left
<1>5. (done.available[f] > 0) \in BOOLEAN
  OBVIOUS
<1>6. PICK b \in BOOLEAN : b = (done.available[f] > 0)
  BY <1>5
<1>7. /\ Append(done.heard, b) \in Seq(BOOLEAN) /\ Len(Append(done.heard, b)) = Len(done.heard) + 1
      /\ \A i \in 1..Len(done.heard) : Append(done.heard, b)[i] = done.heard[i]
      /\ Append(done.heard, b)[Len(done.heard) + 1] = b
  BY <1>1
<1>8. more = Append(done.heard, b)
  BY <1>6
<1>. HIDE DEF less, more
<1>. QED
  BY <1>2, <1>3, <1>4, <1>6, <1>7, <1>8 DEF Comparison

\* compare_words carries a comparison along the target's words.
ComparesWords(F, text, words) ==
    /\ F \in [0..Len(words) -> Comparison(words)]
    /\ F[0] = [available |-> [f \in Forms(words) |-> Occurrences(text, f)], heard |-> <<>>]
    /\ \A k \in 1..Len(words) : F[k] = Compared(F[k - 1], Normalize(words[k]))

LEMMA CompareRun ==
    ASSUME NEW target \in Seq(Word), NEW text \in Seq(Word), NEW words, words = Spoken(target)
    PROVE  \E F : ComparesWords(F, text, words) /\ CompareWords(target, text) = F[Len(words)].heard
<1>. DEFINE S == Comparison(words)
            n == Len(words)
            a == [available |-> [f \in Forms(words) |-> Occurrences(text, f)], heard |-> <<>>]
            move == [k \in 1..n |-> [s \in S |-> Compared(s, Normalize(words[k]))]]
            Rule(f) == f = [k \in 0..n |-> IF k = 0 THEN a ELSE Compared(f[k - 1], Normalize(words[k]))]
            after == CHOOSE f : Rule(f)
<1>1. n \in Nat /\ \A k \in 1..n : Normalize(words[k]) \in Forms(words)
  <2>1. n \in Nat
    BY SpokenIs
  <2>. QED
    BY <2>1 DEF Forms
<1>2. a \in S
  <2>1. [f \in Forms(words) |-> Occurrences(text, f)] \in [Forms(words) -> Nat]
    BY TokensAreFinite
  <2>. QED
    BY <2>1 DEF Comparison
<1>3. \A k \in 1..n : \A s \in S : Compared(s, Normalize(words[k])) \in S
  <2>. HIDE DEF n
  <2>. QED
    BY <1>1, ComparedIs
<1>4. move \in [1..n -> [S -> S]] /\ \A k \in 1..n : \A s \in S : move[k][s] = Compared(s, Normalize(words[k]))
  <2>. HIDE DEF S, n
  <2>. QED
    BY <1>3
<1>5. PICK F : F \in [0..n -> S] /\ F[0] = a /\ \A k \in 1..n : F[k] = move[k][F[k - 1]]
  <2>1. n \in Nat
    BY <1>1
  <2>. HIDE DEF move, S, n, a
  <2>2. \E F : Carried(F, S, a, n, move)
    BY <1>2, <1>4, <2>1, Recursion
  <2>. QED
    BY <2>2 DEF Carried
<1>6. Rule(F)
  <2>. HIDE DEF move, S, n, a
  <2>1. \A k \in 0..n : k # 0 => k \in 1..n /\ k - 1 \in 0..n
    BY <1>1
  <2>2. \A k \in 0..n : F[k] = IF k = 0 THEN a ELSE Compared(F[k - 1], Normalize(words[k]))
    BY <1>4, <1>5, <2>1
  <2>. QED
    BY <1>5, <2>2
<1>7. Rule(after)
  <2>. HIDE DEF Rule
  <2>. QED
    BY <1>6
<1>8. CompareWords(target, text) = after[n].heard
  BY DEF CompareWords, Forms
<1>. HIDE DEF after, S, a
<1>9. after[0] = a /\ \A k \in 1..n : after[k] = Compared(after[k - 1], Normalize(words[k]))
  BY <1>1, <1>7
<1>. DEFINE T == {k \in 0..n : after[k] \in S}
<1>10. 0 \in T
  BY <1>1, <1>2, <1>9
<1>11. ASSUME NEW m \in 0..n, m + 1 \in 0..n, m \in T PROVE m + 1 \in T
  <2>1. m + 1 \in 1..n /\ (m + 1) - 1 = m
    BY <1>11
  <2>2. after[m + 1] = Compared(after[m], Normalize(words[m + 1]))
    BY <1>9, <2>1
  <2>. QED
    BY <1>3, <1>11, <2>1, <2>2
<1>12. T = 0..n
  <2>1. T \in SUBSET (0..n)
    OBVIOUS
  <2>. HIDE DEF T, n
  <2>. QED
    BY <1>1, <1>10, <1>11, <2>1, UpTo
<1>13. after = [k \in 0..n |-> after[k]]
  <2>. HIDE DEF n
  <2>. QED
    BY <1>7
<1>14. after \in [0..n -> S]
  <2>1. \A k \in 0..n : after[k] \in S
    BY <1>12
  <2>. HIDE DEF n
  <2>. QED
    BY <1>13, <2>1
<1>. QED
  BY <1>8, <1>9, <1>14 DEF S, a, ComparesWords

\* A target word is heard exactly if so many of its form were said.
LEMMA CompareWordsIs ==
    ASSUME NEW target \in Seq(Word), NEW text \in Seq(Word), NEW words, words = Spoken(target)
    PROVE  /\ Len(CompareWords(target, text)) = Len(words)
           /\ \A k \in 1..Len(words) : CompareWords(target, text)[k] =
                  (Asked(words, k, Normalize(words[k])) <= Occurrences(text, Normalize(words[k])))
<1>. DEFINE n == Len(words)
            form(k) == Normalize(words[k])
<1>0. PICK F : ComparesWords(F, text, words) /\ CompareWords(target, text) = F[n].heard
  BY CompareRun
<1>1. /\ F \in [0..n -> Comparison(words)]
      /\ F[0] = [available |-> [f \in Forms(words) |-> Occurrences(text, f)], heard |-> <<>>]
      /\ \A k \in 1..n : F[k] = Compared(F[k - 1], Normalize(words[k]))
  BY <1>0 DEF ComparesWords
<1>2. n \in Nat /\ \A k \in 1..n : form(k) \in Forms(words)
  <2>1. n \in Nat
    BY SpokenIs
  <2>. QED
    BY <2>1 DEF Forms
<1>. DEFINE Good(k) == /\ Len(F[k].heard) = k
                       /\ \A f \in Forms(words) :
                              F[k].available[f] = Left(Occurrences(text, f), Asked(words, k, f))
                       /\ \A i \in 1..k : F[k].heard[i] = (Asked(words, i, form(i)) <= Occurrences(text, form(i)))
            T == {k \in 0..n : Good(k)}
<1>. HIDE DEF n
<1>3. 0 \in T
  <2>1. F[0].heard = <<>> /\ \A f \in Forms(words) : F[0].available[f] = Occurrences(text, f)
    BY <1>1
  <2>2. \A f : Left(Occurrences(text, f), Asked(words, 0, f)) = Occurrences(text, f)
    <3>1. \A f : Asked(words, 0, f) = 0 /\ Occurrences(text, f) \in Nat
      BY AskedNext, TokensAreFinite
    <3>. QED
      BY <3>1 DEF Left
  <2>3. Good(0)
    BY <2>1, <2>2
  <2>. HIDE DEF Good
  <2>. QED
    BY <1>2, <2>3
<1>4. ASSUME NEW m \in 0..n, m + 1 \in 0..n, m \in T PROVE m + 1 \in T
  <2>1. m + 1 \in 1..n /\ (m + 1) - 1 = m /\ m \in Nat
    BY <1>2, <1>4
  <2>2. Good(m)
    BY <1>4
  <2>. DEFINE f == form(m + 1)
  <2>3. f \in Forms(words) /\ F[m] \in Comparison(words) /\ F[m + 1] = Compared(F[m], f)
    BY <1>1, <1>2, <2>1
  <2>4. f = Normalize(words[m + 1])
    OBVIOUS
  <2>. HIDE DEF f
  <2>5. /\ Len(F[m + 1].heard) = Len(F[m].heard) + 1
        /\ \A i \in 1..Len(F[m].heard) : F[m + 1].heard[i] = F[m].heard[i]
        /\ F[m + 1].heard[Len(F[m].heard) + 1] = (F[m].available[f] > 0)
        /\ \A g \in Forms(words) : F[m + 1].available[g] =
               IF g = f THEN Left(F[m].available[f], 1) ELSE F[m].available[g]
    BY <2>3, ComparedIs
  <2>6. Len(F[m + 1].heard) = m + 1
    BY <2>2, <2>5
  <2>7. \A g : Occurrences(text, g) \in Nat /\ Asked(words, m, g) \in Nat
               /\ Asked(words, m + 1, g) = IF g = f THEN Asked(words, m, g) + 1 ELSE Asked(words, m, g)
    <3>1. \A g : Occurrences(text, g) \in Nat
      BY TokensAreFinite
    <3>2. ASSUME NEW g
          PROVE  /\ Asked(words, m, g) \in Nat
                 /\ Asked(words, m + 1, g) = IF g = f THEN Asked(words, m, g) + 1 ELSE Asked(words, m, g)
      <4>1. m \in Nat
        BY <2>1
      <4>2. /\ Asked(words, m, g) \in Nat
            /\ Normalize(words[m + 1]) = g => Asked(words, m + 1, g) = Asked(words, m, g) + 1
            /\ Normalize(words[m + 1]) # g => Asked(words, m + 1, g) = Asked(words, m, g)
        BY <4>1, AskedNext
      <4>. QED
        BY <2>4, <4>2
    <3>. QED
      BY <3>1, <3>2
  <2>8. ASSUME NEW g \in Forms(words)
        PROVE  F[m + 1].available[g] = Left(Occurrences(text, g), Asked(words, m + 1, g))
    <3>1. F[m].available[g] = Left(Occurrences(text, g), Asked(words, m, g))
      BY <2>2
    <3>2. \A x, y \in Nat : Left(Left(x, y), 1) = Left(x, y + 1)
      BY DEF Left
    <3>3. CASE g = f
      <4>1. F[m + 1].available[g] = Left(Left(Occurrences(text, g), Asked(words, m, g)), 1)
        BY <2>5, <3>1, <3>3
      <4>2. Asked(words, m + 1, g) = Asked(words, m, g) + 1 /\ Occurrences(text, g) \in Nat /\ Asked(words, m, g) \in Nat
        BY <2>7, <3>3
      <4>. QED
        BY <3>2, <4>1, <4>2
    <3>4. CASE g # f
      <4>1. F[m + 1].available[g] = F[m].available[g]
        BY <2>5, <3>4
      <4>2. Asked(words, m + 1, g) = Asked(words, m, g)
        BY <2>7, <3>4
      <4>. QED
        BY <3>1, <4>1, <4>2
    <3>. QED
      BY <3>3, <3>4
  <2>9. F[m + 1].heard[m + 1] = (Asked(words, m + 1, f) <= Occurrences(text, f))
    <3>1. F[m].available[f] = Left(Occurrences(text, f), Asked(words, m, f))
      BY <2>2, <2>3
    <3>2. F[m + 1].heard[m + 1] = (F[m].available[f] > 0)
      BY <2>2, <2>5
    <3>3. \A x, y \in Nat : (Left(x, y) > 0) = (y + 1 <= x)
      BY DEF Left
    <3>. QED
      BY <2>7, <3>1, <3>2, <3>3
  <2>10. ASSUME NEW i \in 1..(m + 1)
         PROVE  F[m + 1].heard[i] = (Asked(words, i, form(i)) <= Occurrences(text, form(i)))
    <3>1. CASE i = m + 1
      BY <2>9, <3>1 DEF f
    <3>2. CASE i \in 1..m
      <4>1. F[m + 1].heard[i] = F[m].heard[i]
        BY <2>2, <2>5, <3>2
      <4>. QED
        BY <2>2, <3>2, <4>1
    <3>. QED
      BY <2>1, <3>1, <3>2
  <2>11. Good(m + 1)
    BY <2>6, <2>8, <2>10
  <2>. HIDE DEF Good
  <2>. QED
    BY <1>4, <2>11
<1>5. T = 0..n
  <2>1. T \in SUBSET (0..n)
    OBVIOUS
  <2>. HIDE DEF T
  <2>. QED
    BY <1>2, <1>3, <1>4, <2>1, UpTo
<1>6. Good(n)
  <2>. HIDE DEF Good
  <2>. QED
    BY <1>2, <1>5
<1>. QED
  BY <1>0, <1>6 DEF n

----------------------------------------------------------------------------
(* Attempts: scores                                                        *)

\* The words a recogniser gave, each with a probability or without one.
Given(given) == /\ Len(given) \in Nat
                /\ \A i \in 1..Len(given) : given[i].probability \in Probabilities
Scoring(given) == [left : SUBSET (1..Len(given)), scores : Seq(Nat)]
Matching(given, left, f) == Cardinality(OfForm(given, left, f))

LEMMA FirstIs ==
    ASSUME NEW places \in SUBSET Nat, places # {}
    PROVE  First(places) \in places
  BY LeastNumber DEF First

LEMMA ClarityIs ==
    ASSUME NEW p \in Probabilities
    PROVE  Clarity(p) \in Nat
  BY AttemptsAssumption DEF Clarity

LEMMA MatchingIsCounted ==
    ASSUME NEW given, Given(given), NEW left \in SUBSET (1..Len(given)), NEW f
    PROVE  /\ OfForm(given, left, f) \in SUBSET (1..Len(given))
           /\ IsFiniteSet(OfForm(given, left, f)) /\ Matching(given, left, f) \in Nat
           /\ (Matching(given, left, f) > 0) = (OfForm(given, left, f) # {})
<1>1. OfForm(given, left, f) \in SUBSET (1..Len(given))
  BY DEF OfForm
<1>2. Len(given) \in Nat
  BY DEF Given
<1>3. IsFiniteSet(1..Len(given))
  BY <1>2, FS_Interval
<1>4. IsFiniteSet(OfForm(given, left, f))
  BY <1>1, <1>3, FS_Subset
<1>5. Matching(given, left, f) \in Nat /\ (Matching(given, left, f) = 0 <=> OfForm(given, left, f) = {})
  BY <1>4, FS_CardinalityType, FS_EmptySet DEF Matching
<1>. QED
  BY <1>1, <1>4, <1>5

\* One more word is scored, and takes a word of its form if there is one.
ScoresWord(before, after, given, f) ==
    /\ Len(after.scores) = Len(before.scores) + 1
    /\ \A i \in 1..Len(before.scores) : after.scores[i] = before.scores[i]
    /\ after.scores[Len(before.scores) + 1] > 0 => Matching(given, before.left, f) > 0
    /\ Matching(given, before.left, f) > 0 => after.scores[Len(before.scores) + 1] > 0 \/ Faint(given)
    /\ Matching(given, after.left, f) = Left(Matching(given, before.left, f), 1)
    /\ \A g : g # f => Matching(given, after.left, g) = Matching(given, before.left, g)

LEMMA ScoredIs ==
    ASSUME NEW given, Given(given), NEW done \in Scoring(given), NEW f
    PROVE  Scored(done, given, f) \in Scoring(given) /\ ScoresWord(done, Scored(done, given, f), given, f)
<1>. DEFINE mine == OfForm(given, done.left, f)
            less == IF mine = {} THEN done.left ELSE done.left \ {First(mine)}
            score == IF mine = {} THEN 0 ELSE Clarity(given[First(mine)].probability)
            more == Append(done.scores, score)
<1>1. done.left \in SUBSET (1..Len(given)) /\ done.scores \in Seq(Nat) /\ Len(given) \in Nat
  BY DEF Scoring, Given
<1>2. Scored(done, given, f) = [left |-> less, scores |-> more]
  BY DEF Scored
<1>3. mine \in SUBSET (1..Len(given)) /\ IsFiniteSet(mine) /\ Matching(given, done.left, f) \in Nat
      /\ (Matching(given, done.left, f) > 0) = (mine # {})
  BY <1>1, MatchingIsCounted
<1>4. mine \in SUBSET Nat
  BY <1>1, <1>3
<1>5. mine # {} => First(mine) \in mine
  <2>. HIDE DEF mine
  <2>. QED
    BY <1>4, FirstIs
<1>6. score \in Nat /\ (score > 0 => mine # {}) /\ (mine # {} => score > 0 \/ Faint(given))
  <2>1. CASE mine = {}
    BY <2>1
  <2>2. CASE mine # {}
    <3>1. First(mine) \in 1..Len(given)
      BY <1>3, <1>5, <2>2
    <3>2. given[First(mine)].probability \in Probabilities
      BY <3>1 DEF Given
    <3>3. Clarity(given[First(mine)].probability) \in Nat
      BY <3>2, ClarityIs
    <3>4. Clarity(given[First(mine)].probability) = 0 => Faint(given)
      BY <3>1 DEF Faint
    <3>. HIDE DEF mine
    <3>. QED
      BY <2>2, <3>3, <3>4
  <2>. QED
    BY <2>1, <2>2
<1>7. less \in SUBSET (1..Len(given))
  BY <1>1
<1>8. Matching(given, less, f) = Left(Matching(given, done.left, f), 1)
  <2>1. CASE mine = {}
    <3>1. less = done.left /\ ~(Matching(given, done.left, f) > 0)
      BY <1>3, <2>1
    <3>. QED
      BY <1>3, <3>1 DEF Left
  <2>2. CASE mine # {}
    <3>1. less = done.left \ {First(mine)}
      BY <2>2
    <3>2. OfForm(given, less, f) = mine \ {First(mine)}
      BY <3>1 DEF OfForm
    <3>. HIDE DEF mine, less
    <3>3. Cardinality(mine \ {First(mine)}) = Cardinality(mine) - 1
      BY <1>3, <1>5, <2>2, FS_RemoveElement
    <3>4. Matching(given, less, f) = Matching(given, done.left, f) - 1
      BY <3>2, <3>3 DEF Matching, mine
    <3>5. Matching(given, done.left, f) > 0
      BY <1>3, <2>2
    <3>. QED
      BY <1>3, <3>4, <3>5 DEF Left
  <2>. QED
    BY <2>1, <2>2
<1>9. ASSUME NEW g, g # f PROVE Matching(given, less, g) = Matching(given, done.left, g)
  <2>1. CASE mine = {}
    BY <2>1
  <2>2. CASE mine # {}
    <3>1. Normalize(given[First(mine)].word) = f
      BY <1>5, <2>2 DEF OfForm
    <3>2. OfForm(given, less, g) = OfForm(given, done.left, g)
      BY <1>9, <2>2, <3>1 DEF OfForm
    <3>. QED
      BY <3>2 DEF Matching
  <2>. QED
    BY <2>1, <2>2
<1>10. /\ more \in Seq(Nat) /\ Len(more) = Len(done.scores) + 1
       /\ \A i \in 1..Len(done.scores) : more[i] = done.scores[i]
       /\ more[Len(done.scores) + 1] = score
  <2>. HIDE DEF score
  <2>. QED
    BY <1>1, <1>6
<1>. HIDE DEF less, more, score, mine
<1>11. Scored(done, given, f).left = less /\ Scored(done, given, f).scores = more
  BY <1>2
<1>12. Scored(done, given, f) \in Scoring(given)
  BY <1>2, <1>7, <1>10 DEF Scoring
<1>13. /\ more[Len(done.scores) + 1] > 0 => Matching(given, done.left, f) > 0
       /\ Matching(given, done.left, f) > 0 => more[Len(done.scores) + 1] > 0 \/ Faint(given)
  BY <1>3, <1>6, <1>10
<1>. QED
  BY <1>8, <1>9, <1>10, <1>11, <1>12, <1>13 DEF ScoresWord

\* score_words carries what is left of the recogniser's words along the target's.
ScoresWords(F, given, words) ==
    /\ F \in [0..Len(words) -> Scoring(given)]
    /\ F[0] = [left |-> 1..Len(given), scores |-> <<>>]
    /\ \A k \in 1..Len(words) : F[k] = Scored(F[k - 1], given, Normalize(words[k]))

LEMMA ScoreRun ==
    ASSUME NEW target \in Seq(Word), NEW given, Given(given), given # <<>>,
           NEW words, words = Spoken(target)
    PROVE  \E F : ScoresWords(F, given, words) /\ ScoreWords(target, given) = F[Len(words)].scores
<1>. DEFINE S == Scoring(given)
            n == Len(words)
            a == [left |-> 1..Len(given), scores |-> <<>>]
            move == [k \in 1..n |-> [s \in S |-> Scored(s, given, Normalize(words[k]))]]
            Rule(f) == f = [k \in 0..n |-> IF k = 0 THEN a ELSE Scored(f[k - 1], given, Normalize(words[k]))]
            after == CHOOSE f : Rule(f)
<1>1. n \in Nat
  BY SpokenIs
<1>2. a \in S
  BY DEF Scoring
<1>3. \A k \in 1..n : \A s \in S : Scored(s, given, Normalize(words[k])) \in S
  <2>. HIDE DEF n
  <2>. QED
    BY ScoredIs
<1>4. move \in [1..n -> [S -> S]] /\ \A k \in 1..n : \A s \in S : move[k][s] = Scored(s, given, Normalize(words[k]))
  <2>. HIDE DEF S, n
  <2>. QED
    BY <1>3
<1>5. PICK F : F \in [0..n -> S] /\ F[0] = a /\ \A k \in 1..n : F[k] = move[k][F[k - 1]]
  <2>1. n \in Nat
    BY <1>1
  <2>. HIDE DEF move, S, n, a
  <2>2. \E F : Carried(F, S, a, n, move)
    BY <1>2, <1>4, <2>1, Recursion
  <2>. QED
    BY <2>2 DEF Carried
<1>6. Rule(F)
  <2>. HIDE DEF move, S, n, a
  <2>1. \A k \in 0..n : k # 0 => k \in 1..n /\ k - 1 \in 0..n
    BY <1>1
  <2>2. \A k \in 0..n : F[k] = IF k = 0 THEN a ELSE Scored(F[k - 1], given, Normalize(words[k]))
    BY <1>4, <1>5, <2>1
  <2>. QED
    BY <1>5, <2>2
<1>7. Rule(after)
  <2>. HIDE DEF Rule
  <2>. QED
    BY <1>6
<1>8. ScoreWords(target, given) = after[n].scores
  BY DEF ScoreWords
<1>. HIDE DEF after, S, a
<1>9. after[0] = a /\ \A k \in 1..n : after[k] = Scored(after[k - 1], given, Normalize(words[k]))
  BY <1>1, <1>7
<1>. DEFINE T == {k \in 0..n : after[k] \in S}
<1>10. 0 \in T
  BY <1>1, <1>2, <1>9
<1>11. ASSUME NEW m \in 0..n, m + 1 \in 0..n, m \in T PROVE m + 1 \in T
  <2>1. m + 1 \in 1..n /\ (m + 1) - 1 = m
    BY <1>11
  <2>2. after[m + 1] = Scored(after[m], given, Normalize(words[m + 1]))
    BY <1>9, <2>1
  <2>. QED
    BY <1>3, <1>11, <2>1, <2>2
<1>12. T = 0..n
  <2>1. T \in SUBSET (0..n)
    OBVIOUS
  <2>. HIDE DEF T, n
  <2>. QED
    BY <1>1, <1>10, <1>11, <2>1, UpTo
<1>13. after = [k \in 0..n |-> after[k]]
  <2>. HIDE DEF n
  <2>. QED
    BY <1>7
<1>14. after \in [0..n -> S]
  <2>1. \A k \in 0..n : after[k] \in S
    BY <1>12
  <2>. HIDE DEF n
  <2>. QED
    BY <1>13, <2>1
<1>. QED
  BY <1>8, <1>9, <1>14 DEF S, a, ScoresWords

\* A target word is scored exactly if the recogniser gave so many of its form, unless
\* it gave one with probability 0.
LEMMA ScoreWordsIs ==
    ASSUME NEW target \in Seq(Word), NEW given, Given(given), given # <<>>,
           NEW words, words = Spoken(target)
    PROVE  \A k \in 1..Len(words) :
               /\ ScoreWords(target, given)[k] \in Nat
               /\ ScoreWords(target, given)[k] > 0 =>
                      Asked(words, k, Normalize(words[k])) <= Matching(given, 1..Len(given), Normalize(words[k]))
               /\ Asked(words, k, Normalize(words[k])) <= Matching(given, 1..Len(given), Normalize(words[k]))
                      => ScoreWords(target, given)[k] > 0 \/ Faint(given)
<1>. DEFINE n == Len(words)
            form(k) == Normalize(words[k])
            all == 1..Len(given)
            Fair(score, i) == /\ score > 0 => Asked(words, i, form(i)) <= Matching(given, all, form(i))
                              /\ Asked(words, i, form(i)) <= Matching(given, all, form(i)) => score > 0 \/ Faint(given)
<1>0. PICK F : ScoresWords(F, given, words) /\ ScoreWords(target, given) = F[n].scores
  BY ScoreRun
<1>1. /\ F \in [0..n -> Scoring(given)]
      /\ F[0] = [left |-> all, scores |-> <<>>]
      /\ \A k \in 1..n : F[k] = Scored(F[k - 1], given, form(k))
  BY <1>0 DEF ScoresWords
<1>2. n \in Nat /\ Len(given) \in Nat
  BY SpokenIs DEF Given
<1>. DEFINE Good(k) == /\ Len(F[k].scores) = k
                       /\ \A f : Matching(given, F[k].left, f) = Left(Matching(given, all, f), Asked(words, k, f))
                       /\ \A i \in 1..k : Fair(F[k].scores[i], i)
            T == {k \in 0..n : Good(k)}
<1>. HIDE DEF n
<1>3. \A f : Matching(given, all, f) \in Nat
  BY MatchingIsCounted
<1>. HIDE DEF all
<1>4. 0 \in T
  <2>1. F[0].scores = <<>> /\ F[0].left = all
    BY <1>1
  <2>2. \A f : Left(Matching(given, all, f), Asked(words, 0, f)) = Matching(given, all, f)
    <3>1. \A f : Asked(words, 0, f) = 0
      BY AskedNext
    <3>. QED
      BY <1>3, <3>1 DEF Left
  <2>3. Good(0)
    BY <2>1, <2>2
  <2>. HIDE DEF Good
  <2>. QED
    BY <1>2, <2>3
<1>5. ASSUME NEW m \in 0..n, m + 1 \in 0..n, m \in T PROVE m + 1 \in T
  <2>1. m + 1 \in 1..n /\ (m + 1) - 1 = m /\ m \in Nat
    BY <1>2, <1>5
  <2>2. Good(m)
    BY <1>5
  <2>. DEFINE f == form(m + 1)
  <2>3. F[m] \in Scoring(given) /\ F[m + 1] = Scored(F[m], given, f)
    BY <1>1, <1>2, <2>1
  <2>4. f = Normalize(words[m + 1])
    OBVIOUS
  <2>. HIDE DEF f
  <2>5. /\ Len(F[m + 1].scores) = Len(F[m].scores) + 1
        /\ \A i \in 1..Len(F[m].scores) : F[m + 1].scores[i] = F[m].scores[i]
        /\ F[m + 1].scores[Len(F[m].scores) + 1] > 0 => Matching(given, F[m].left, f) > 0
        /\ Matching(given, F[m].left, f) > 0 => F[m + 1].scores[Len(F[m].scores) + 1] > 0 \/ Faint(given)
        /\ Matching(given, F[m + 1].left, f) = Left(Matching(given, F[m].left, f), 1)
        /\ \A g : g # f => Matching(given, F[m + 1].left, g) = Matching(given, F[m].left, g)
    <3>1. ScoresWord(F[m], Scored(F[m], given, f), given, f)
      BY <2>3, ScoredIs
    <3>. QED
      BY <2>3, <3>1 DEF ScoresWord
  <2>6. Len(F[m + 1].scores) = m + 1
    BY <2>2, <2>5
  <2>7. \A g : /\ Matching(given, all, g) \in Nat /\ Asked(words, m, g) \in Nat
               /\ g = f => Asked(words, m + 1, g) = Asked(words, m, g) + 1
               /\ g # f => Asked(words, m + 1, g) = Asked(words, m, g)
    <3>1. ASSUME NEW g
          PROVE  /\ Asked(words, m, g) \in Nat
                 /\ g = f => Asked(words, m + 1, g) = Asked(words, m, g) + 1
                 /\ g # f => Asked(words, m + 1, g) = Asked(words, m, g)
      <4>1. m \in Nat
        BY <2>1
      <4>2. /\ Asked(words, m, g) \in Nat
            /\ Normalize(words[m + 1]) = g => Asked(words, m + 1, g) = Asked(words, m, g) + 1
            /\ Normalize(words[m + 1]) # g => Asked(words, m + 1, g) = Asked(words, m, g)
        BY <4>1, AskedNext
      <4>. QED
        BY <2>4, <4>2
    <3>. QED
      BY <1>3, <3>1
  <2>8. ASSUME NEW g
        PROVE  Matching(given, F[m + 1].left, g) = Left(Matching(given, all, g), Asked(words, m + 1, g))
    <3>1. Matching(given, F[m].left, g) = Left(Matching(given, all, g), Asked(words, m, g))
      BY <2>2
    <3>2. \A x, y \in Nat : Left(Left(x, y), 1) = Left(x, y + 1)
      BY DEF Left
    <3>3. CASE g = f
      <4>1. Matching(given, F[m + 1].left, g) = Left(Left(Matching(given, all, g), Asked(words, m, g)), 1)
        BY <2>5, <3>1, <3>3
      <4>2. Asked(words, m + 1, g) = Asked(words, m, g) + 1 /\ Matching(given, all, g) \in Nat /\ Asked(words, m, g) \in Nat
        BY <2>7, <3>3
      <4>. QED
        BY <3>2, <4>1, <4>2
    <3>4. CASE g # f
      <4>1. Matching(given, F[m + 1].left, g) = Matching(given, F[m].left, g)
        BY <2>5, <3>4
      <4>2. Asked(words, m + 1, g) = Asked(words, m, g)
        BY <2>7, <3>4
      <4>. QED
        BY <3>1, <4>1, <4>2
    <3>. QED
      BY <3>3, <3>4
  <2>9. Fair(F[m + 1].scores[m + 1], m + 1)
    <3>1. Matching(given, F[m].left, f) = Left(Matching(given, all, f), Asked(words, m, f))
      BY <2>2
    <3>2. /\ F[m + 1].scores[m + 1] > 0 => Matching(given, F[m].left, f) > 0
          /\ Matching(given, F[m].left, f) > 0 => F[m + 1].scores[m + 1] > 0 \/ Faint(given)
      BY <2>2, <2>5
    <3>3. \A x, y \in Nat : Left(x, y) > 0 <=> y + 1 <= x
      BY DEF Left
    <3>4. Asked(words, m + 1, f) = Asked(words, m, f) + 1 /\ Asked(words, m, f) \in Nat /\ Matching(given, all, f) \in Nat
      BY <2>7
    <3>5. Matching(given, F[m].left, f) > 0 <=> Asked(words, m + 1, f) <= Matching(given, all, f)
      BY <3>1, <3>3, <3>4
    <3>. QED
      BY <3>2, <3>5 DEF f
  <2>10. ASSUME NEW i \in 1..(m + 1)
         PROVE  Fair(F[m + 1].scores[i], i)
    <3>1. CASE i = m + 1
      BY <2>9, <3>1
    <3>2. CASE i \in 1..m
      <4>1. F[m + 1].scores[i] = F[m].scores[i]
        BY <2>2, <2>5, <3>2
      <4>. QED
        BY <2>2, <3>2, <4>1
    <3>. QED
      BY <2>1, <3>1, <3>2
  <2>11. Good(m + 1)
    BY <2>6, <2>8, <2>10
  <2>. HIDE DEF Good
  <2>. QED
    BY <1>5, <2>11
<1>6. T = 0..n
  <2>1. T \in SUBSET (0..n)
    OBVIOUS
  <2>. HIDE DEF T
  <2>. QED
    BY <1>2, <1>4, <1>5, <2>1, UpTo
<1>7. Good(n)
  <2>. HIDE DEF Good
  <2>. QED
    BY <1>2, <1>6
<1>8. \A k \in 1..n : F[n].scores[k] \in Nat
  <2>1. F[n].scores \in Seq(Nat)
    BY <1>1, <1>2 DEF Scoring
  <2>. QED
    BY <1>7, <2>1
<1>. QED
  BY <1>0, <1>7, <1>8 DEF n, all

\* Where no word is hyphenated, the words of a form are the tokens of that form.
LEMMA TokensAreWords ==
    ASSUME NEW text \in Seq(Word), SingleTokens(text), NEW given, NEW p,
           given = [k \in 1..Len(text) |-> [word |-> text[k], probability |-> p[k]]],
           Given(given), NEW f, f # <<>>
    PROVE  Matching(given, 1..Len(given), f) = Occurrences(text, f)
<1>. DEFINE A == OfForm(given, 1..Len(given), f)
            B == {q \in Tokens(text) : text[q[1]][q[2]] = f}
<1>1. Len(given) = Len(text) /\ Len(text) \in Nat /\ \A i \in 1..Len(text) : text[i] \in Word /\ Len(text[i]) \in Nat
  BY DEF Word
<1>2. ASSUME NEW i \in 1..Len(text) PROVE i \in A <=> Len(text[i]) = 1 /\ text[i][1] = f
  <2>1. text[i] \in Word /\ Len(text[i]) \in Nat /\ Len(text[i]) <= 1
    BY <1>1 DEF SingleTokens
  <2>2. /\ Len(text[i]) = 0 => Normalize(text[i]) = <<>>
        /\ Len(text[i]) # 0 => Normalize(text[i]) = text[i][1]
    <3>1. Normalize(text[i]) = IF Len(text[i]) = 0 THEN <<>> ELSE text[i][1]
      BY <2>1, ShortForms
    <3>. QED
      BY <3>1
  <2>3. i \in A <=> Normalize(text[i]) = f
    <3>1. given[i].word = text[i]
      OBVIOUS
    <3>. QED
      BY <1>1, <3>1 DEF OfForm
  <2>4. Len(text[i]) # 0 <=> Len(text[i]) = 1
    <3>1. \A m \in Nat : m <= 1 => (m # 0 <=> m = 1)
      OBVIOUS
    <3>. QED
      BY <2>1, <3>1
  <2>. HIDE DEF A
  <2>5. CASE Len(text[i]) = 0
    <3>1. Normalize(text[i]) = <<>>
      BY <2>2, <2>5
    <3>. QED
      BY <2>3, <2>4, <2>5, <3>1
  <2>6. CASE Len(text[i]) # 0
    <3>1. Normalize(text[i]) = text[i][1]
      BY <2>2, <2>6
    <3>. QED
      BY <2>3, <2>4, <2>6, <3>1
  <2>. QED
    BY <2>5, <2>6
<1>3. A \in SUBSET (1..Len(text))
  BY <1>1 DEF OfForm
<1>4. ASSUME NEW i \in A PROVE <<i, 1>> \in B
  <2>1. i \in 1..Len(text) /\ Len(text[i]) = 1 /\ text[i][1] = f
    BY <1>2, <1>3
  <2>2. 1 \in 1..Len(text[i])
    BY <2>1
  <2>3. <<i, 1>> \in Tokens(text)
    BY <2>1, <2>2 DEF Tokens
  <2>. QED
    BY <2>1, <2>3
<1>5. ASSUME NEW q \in B PROVE q[1] \in A /\ q = <<q[1], 1>>
  <2>1. PICK i \in 1..Len(text) : \E j \in 1..Len(text[i]) : q = <<i, j>>
    BY DEF Tokens
  <2>2. PICK j \in 1..Len(text[i]) : q = <<i, j>>
    BY <2>1
  <2>3. Len(text[i]) \in Nat /\ Len(text[i]) <= 1
    BY <1>1 DEF SingleTokens
  <2>4. j = 1 /\ Len(text[i]) = 1
    <3>1. \A m \in Nat : m <= 1 => \A x \in 1..m : x = 1 /\ m = 1
      OBVIOUS
    <3>. QED
      BY <2>3, <3>1
  <2>5. text[i][1] = f
    BY <2>2, <2>4
  <2>. QED
    BY <1>2, <2>2, <2>4, <2>5
<1>6. IsFiniteSet(A) /\ Cardinality(A) = Matching(given, 1..Len(given), f) /\ Cardinality(A) \in Nat
  BY MatchingIsCounted, FS_CardinalityType DEF Matching
<1>7. IsFiniteSet(B) /\ Cardinality(B) = Occurrences(text, f) /\ Cardinality(B) \in Nat
  <2>1. B \in SUBSET Tokens(text) /\ IsFiniteSet(Tokens(text))
    BY TokensAreFinite
  <2>2. Cardinality(B) = Occurrences(text, f)
    BY DEF Occurrences
  <2>. HIDE DEF B
  <2>. QED
    BY <2>1, <2>2, FS_Subset, FS_CardinalityType
<1>. HIDE DEF A, B
<1>8. ~(Cardinality(B) < Cardinality(A))
  <2>. SUFFICES ASSUME Cardinality(B) < Cardinality(A) PROVE FALSE
    OBVIOUS
  <2>. DEFINE h == [i \in A |-> <<i, 1>>]
  <2>1. h \in [A -> B]
    BY <1>4
  <2>2. PICK x \in A : \E y \in A : x # y /\ h[x] = h[y]
    <3>. HIDE DEF h
    <3>. QED
      BY <1>6, <1>7, <2>1, FS_PigeonHole
  <2>. QED
    BY <2>2
<1>9. ~(Cardinality(A) < Cardinality(B))
  <2>. SUFFICES ASSUME Cardinality(A) < Cardinality(B) PROVE FALSE
    OBVIOUS
  <2>. DEFINE h == [q \in B |-> q[1]]
  <2>1. h \in [B -> A]
    BY <1>5
  <2>2. PICK x \in B, y \in B : x # y /\ h[x] = h[y]
    <3>. HIDE DEF h
    <3>. QED
      BY <1>6, <1>7, <2>1, FS_PigeonHole
  <2>3. x[1] = y[1]
    BY <2>2
  <2>. QED
    BY <1>5, <2>2, <2>3
<1>. QED
  BY <1>6, <1>7, <1>8, <1>9

----------------------------------------------------------------------------
(* Attempts: the verdict                                                   *)

\* The recogniser's words are those of the text, or there are none.
WordsOf(given, text) ==
    given = <<>> \/ \E p \in [1..Len(text) -> Probabilities] :
                       given = [k \in 1..Len(text) |-> [word |-> text[k], probability |-> p[k]]]

\* The verdict on a phrase is the one its transcript gives, and the scores are those of
\* its recording.
AttemptInv ==
    /\ try \in Tries
    /\ recognised.there => recognised.text = try.spoken /\ WordsOf(recognised.words, try.spoken)
    /\ Phrase /\ verdict # <<>> =>
           /\ recognised.there
           /\ verdict = Merge(CompareWords(try.target, try.spoken), ScoreWords(try.target, recognised.words))
    /\ service # "none" \/ phonemes # <<>> => mayScore /\ try.recording # <<>>
    /\ phonemes # <<>> => phonemes = Score(try.recording, try.expected)

LEMMA AttemptInvHolds == AttemptsSpec => []AttemptInv
<1>1. AttemptsInit => AttemptInv
  BY DEF AttemptsInit, AttemptInv, NoTranscript
<1>2. AttemptInv /\ [AttemptsNext]_attemptVars => AttemptInv'
  <2>. SUFFICES ASSUME AttemptInv, [AttemptsNext]_attemptVars PROVE AttemptInv'
    OBVIOUS
  <2>0. try' = try /\ mayScore' = mayScore /\ (Phrase' <=> Phrase)
    BY DEF attemptVars, AttemptsNext, NoAudio, ScoreAttempt, TranscriptionFails, ScorePhonemes, ScoringFails,
           TranscribeVerbose, Respond, RespondPair, Coach, Phrase
  <2>. USE <2>0
  <2>1. CASE NoAudio \/ TranscriptionFails \/ \E ok \in BOOLEAN : Coach(ok)
    BY <2>1 DEF NoAudio, TranscriptionFails, Coach, AttemptInv
  <2>2. CASE ScoreAttempt
    BY <2>2 DEF ScoreAttempt, AttemptInv
  <2>3. CASE ScorePhonemes \/ ScoringFails
    BY <2>3 DEF ScorePhonemes, ScoringFails, AttemptInv
  <2>4. ASSUME NEW withWords \in BOOLEAN, NEW probabilities \in [1..Len(try.spoken) -> Probabilities],
               TranscribeVerbose(withWords, probabilities)
        PROVE  AttemptInv'
    <3>1. ~recognised.there /\ UNCHANGED <<service, phonemes, verdict>>
      BY <2>4 DEF TranscribeVerbose
    <3>2. recognised'.text = try.spoken /\ WordsOf(recognised'.words, try.spoken)
      BY <2>4 DEF TranscribeVerbose, WordsOf
    <3>3. ~(Phrase /\ verdict # <<>>)
      BY <3>1 DEF AttemptInv
    <3>. QED
      BY <3>1, <3>2, <3>3 DEF AttemptInv
  <2>5. CASE Respond
    <3>1. recognised.there /\ UNCHANGED <<recognised, service, phonemes>>
          /\ verdict' = Merge(CompareWords(try.target, recognised.text), ScoreWords(try.target, recognised.words))
      BY <2>5 DEF Respond
    <3>2. recognised.text = try.spoken
      BY <3>1 DEF AttemptInv
    <3>. QED
      BY <3>1, <3>2 DEF AttemptInv
  <2>6. CASE RespondPair
    BY <2>6 DEF RespondPair, AttemptInv
  <2>7. CASE UNCHANGED attemptVars
    BY <2>7 DEF attemptVars, AttemptInv
  <2>. QED
    BY <2>1, <2>2, <2>3, <2>4, <2>5, <2>6, <2>7 DEF AttemptsNext
<1>. QED
  BY <1>1, <1>2, PTL DEF AttemptsSpec

\* A word of the target is heard as often as it was said, and scored as often.
LEMMA VerdictOnAWord ==
    ASSUME NEW target \in Seq(Word), NEW text \in Seq(Word), NEW given, WordsOf(given, text),
           NEW words, words = Spoken(target), NEW k \in 1..Len(words), NEW result,
           result = Merge(CompareWords(target, text), ScoreWords(target, given))[k]
    PROVE  /\ result.heard <=> Nth(target, k) <= Occurrences(text, Normalize(words[k]))
           /\ result.score = NoScore <=> given = <<>>
           /\ SingleTokens(text) /\ result.score # NoScore => (result.score > 0 => result.heard)
           /\ SingleTokens(text) /\ result.score # NoScore => (result.heard => result.score > 0 \/ Faint(given))
<1>. DEFINE f == Normalize(words[k])
<1>1. result = [heard |-> CompareWords(target, text)[k], score |-> ScoreWords(target, given)[k]]
  <2>1. Len(CompareWords(target, text)) = Len(words)
    BY CompareWordsIs
  <2>. QED
    BY <2>1 DEF Merge
<1>2. Nth(target, k) = Asked(words, k, f)
  BY DEF Nth, Asked
<1>3. result.heard = (Nth(target, k) <= Occurrences(text, f))
  <2>1. CompareWords(target, text)[k] = (Asked(words, k, f) <= Occurrences(text, f))
    BY CompareWordsIs
  <2>. QED
    BY <1>1, <1>2, <2>1
<1>4. CASE given = <<>>
  <2>1. ScoreWords(target, given)[k] = NoScore
    BY <1>4 DEF ScoreWords
  <2>2. result.score = NoScore
    BY <1>1, <2>1
  <2>. QED
    BY <1>3, <1>4, <2>2
<1>5. CASE given # <<>>
  <2>1. PICK p \in [1..Len(text) -> Probabilities] :
            given = [i \in 1..Len(text) |-> [word |-> text[i], probability |-> p[i]]]
    BY <1>5 DEF WordsOf
  <2>2. Given(given)
    BY <2>1 DEF Given
  <2>3. /\ ScoreWords(target, given)[k] \in Nat
        /\ ScoreWords(target, given)[k] > 0 => Asked(words, k, f) <= Matching(given, 1..Len(given), f)
        /\ Asked(words, k, f) <= Matching(given, 1..Len(given), f) => ScoreWords(target, given)[k] > 0 \/ Faint(given)
    BY <1>5, <2>2, ScoreWordsIs
  <2>4. /\ result.score \in Nat
        /\ result.score > 0 => Nth(target, k) <= Matching(given, 1..Len(given), f)
        /\ Nth(target, k) <= Matching(given, 1..Len(given), f) => result.score > 0 \/ Faint(given)
    BY <1>1, <1>2, <2>3
  <2>5. result.score # NoScore
    BY <2>4, AttemptsAssumption
  <2>6. f # <<>>
    <3>1. words \in Seq({w \in Word : Normalize(w) # <<>>})
      BY SpokenIs
    <3>2. words[k] \in {w \in Word : Normalize(w) # <<>>}
      BY <3>1
    <3>. QED
      BY <3>2
  <2>7. ASSUME SingleTokens(text)
        PROVE  (result.score > 0 => result.heard) /\ (result.heard => result.score > 0 \/ Faint(given))
    <3>1. Matching(given, 1..Len(given), f) = Occurrences(text, f)
      BY <2>1, <2>2, <2>6, <2>7, TokensAreWords
    <3>. QED
      BY <1>3, <2>4, <3>1
  <2>. QED
    BY <1>3, <1>5, <2>5, <2>7
<1>. QED
  BY <1>4, <1>5

\* The verdicts on every attempt are fair: a word said once is credited once, by
\* compare_words and score_words alike, no recording is scored without consent, and
\* the scores belong to the most likely alignment; for every target, transcript,
\* probability and recording.
THEOREM VerdictsAreFair == AttemptsSpec => []FairVerdicts
<1>1. AttemptInv => CreditedOnce
  <2>. SUFFICES ASSUME AttemptInv, Phrase, verdict # <<>>, NEW k \in 1..Len(Spoken(try.target))
                PROVE  /\ verdict[k].heard <=> Nth(try.target, k) <= Occurrences(try.spoken, Normalize(Spoken(try.target)[k]))
                       /\ verdict[k].score = NoScore <=> recognised.words = <<>>
                       /\ SingleTokens(try.target) /\ SingleTokens(try.spoken) /\ verdict[k].score # NoScore
                            => /\ verdict[k].score > 0 => verdict[k].heard
                               /\ verdict[k].heard => verdict[k].score > 0 \/ Faint(recognised.words)
    BY DEF CreditedOnce
  <2>1. try.target \in Seq(Word) /\ try.spoken \in Seq(Word)
    <3>1. PICK t : t = try
      OBVIOUS
    <3>2. t \in Tries
      BY <3>1 DEF AttemptInv
    <3>3. {t.target, t.spoken} \subseteq Seq(Word)
      BY <3>2, AttemptsAssumption DEF Word
    <3>. QED
      BY <3>1, <3>3
  <2>2. WordsOf(recognised.words, try.spoken)
        /\ verdict = Merge(CompareWords(try.target, try.spoken), ScoreWords(try.target, recognised.words))
    BY DEF AttemptInv
  <2>. QED
    BY <2>1, <2>2, VerdictOnAWord
<1>2. AttemptInv => ScoredByConsent
  BY DEF AttemptInv, ScoredByConsent
<1>3. ASSUME AttemptInv, phonemes # <<>> PROVE BestAligned(try.recording, try.expected, phonemes)
  <2>1. try.recording # <<>> /\ phonemes = Score(try.recording, try.expected)
    BY <1>3 DEF AttemptInv
  <2>2. Recording(try.recording) /\ try.expected \in Seq(Nat)
    <3>1. PICK t : t = try
      OBVIOUS
    <3>2. t \in Tries
      BY <1>3, <3>1 DEF AttemptInv
    <3>3. t.expected \in Seq(Nat) /\ (t.recording # <<>> => Recording(t.recording))
      BY <3>2, AttemptsAssumption
    <3>. QED
      BY <2>1, <3>1, <3>3
  <2>. QED
    BY <1>3, <2>1, <2>2, ScoresAreAligned
<1>4. AttemptInv => FairVerdicts
  BY <1>1, <1>2, <1>3 DEF FairVerdicts
<1>. QED
  BY <1>4, AttemptInvHolds, PTL
=============================================================================
