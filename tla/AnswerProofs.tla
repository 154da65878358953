---------------------------- MODULE AnswerProofs ---------------------------
(***************************************************************************)
(* Proofs about Answer, Messages and Executors: a client makes out of the  *)
(* bytes the messages that were written, whatever is in them; the answer   *)
(* to a SELECT is all of its result set or an error; and statements end at *)
(* the SQL executor the application has named last.                        *)
(*                                                                         *)
(* Lists of bytes are put together, and read, by recursion on the number   *)
(* of their items.  What is said of them by induction is said of the set   *)
(* of numbers it holds of: a set of natural numbers has a least element.   *)
(***************************************************************************)
EXTENDS Answer, TLAPS, SequenceTheorems, WellFoundedInduction

-----------------------------------------------------------------------------
(***************************************************************************)
(* Induction.                                                              *)
(***************************************************************************)
LEMMA NatMin ==
    ASSUME NEW S \in SUBSET Nat, S # {}
    PROVE  \E m \in S : \A k \in S : m <= k
  <1>1. IsWellFoundedOn({ss \in Nat \X Nat : ss[1] < ss[2]}, Nat)
    BY NatLessThanWellFounded DEF OpToRel
  <1>2. PICK x \in S : \A y \in S : <<y, x>> \notin {ss \in Nat \X Nat : ss[1] < ss[2]}
    BY <1>1, WFMin
  <1>3. \A y \in S : ~(y < x)
    BY <1>2
  <1> QED
    BY <1>3

\* What holds of 0 turns, and of one more whenever it holds of some.
LEMMA Turns ==
    ASSUME NEW n \in Nat, NEW T, 0 \in T, \A i \in 1 .. n : i - 1 \in T => i \in T
    PROVE  \A i \in 0 .. n : i \in T
  <1> DEFINE S == {i \in 0 .. n : i \notin T}
  <1> SUFFICES ASSUME S # {} PROVE FALSE
    OBVIOUS
  <1>0. S \in SUBSET Nat
    OBVIOUS
  <1>1. PICK m \in S : \A k \in S : m <= k
    <2> HIDE DEF S
    <2> QED
      BY <1>0, NatMin
  <1>2. m \in 1 .. n /\ m - 1 \in 0 .. n /\ m - 1 \notin S
    BY <1>1
  <1> QED
    BY <1>2

\* v is the states before and after each of the n turns of a loop.
Course(n, D, d, f, v) ==
    /\ v \in [0 .. n -> D]
    /\ v[0] = d /\ \A i \in 1 .. n : v[i] = f[<<v[i - 1], i>>]

\* A loop of n turns over a set of states that its turns do not leave.
LEMMA Loop ==
    ASSUME NEW n \in Nat, NEW D, NEW d \in D, NEW f \in [D \X (1 .. n) -> D]
    PROVE  \E v : Course(n, D, d, f, v)
  <1> DEFINE Runs(m, v) ==
               v = [i \in 0 .. m |-> IF i = 0 THEN d ELSE f[<<v[i - 1], i>>]]
             T == {m \in 0 .. n : \E v \in [0 .. m -> D] : Runs(m, v)}
  <1>1. 0 \in T
    <2>1. PICK v : v = [i \in 0 .. 0 |-> d]
      OBVIOUS
    <2>2. v \in [0 .. 0 -> D] /\ Runs(0, v)
      BY <2>1
    <2> QED
      BY <2>2
  <1>2. ASSUME NEW i \in 1 .. n, i - 1 \in T PROVE i \in T
    <2>1. PICK v \in [0 .. i - 1 -> D] : Runs(i - 1, v)
      BY <1>2
    <2>2. v[i - 1] \in D /\ <<v[i - 1], i>> \in D \X (1 .. n)
      BY <2>1
    <2>3. PICK w : w = [j \in 0 .. i |-> IF j < i THEN v[j] ELSE f[<<v[i - 1], i>>]]
      OBVIOUS
    <2>4. w \in [0 .. i -> D]
      BY <2>2, <2>3
    <2>5. \A j \in 0 .. i : w[j] = IF j = 0 THEN d ELSE f[<<w[j - 1], j>>]
      <3>1. ASSUME NEW j \in 0 .. i - 1 PROVE w[j] = IF j = 0 THEN d ELSE f[<<w[j - 1], j>>]
        <4>1. j \in 0 .. i /\ j < i /\ (j # 0 => j - 1 \in 0 .. i /\ j - 1 < i)
          OBVIOUS
        <4>2. w[j] = v[j] /\ (j # 0 => w[j - 1] = v[j - 1])
          BY <2>3, <4>1
        <4>3. v[j] = IF j = 0 THEN d ELSE f[<<v[j - 1], j>>]
          BY <2>1
        <4> QED
          BY <4>2, <4>3
      <3>2. w[i] = f[<<v[i - 1], i>>] /\ w[i - 1] = v[i - 1] /\ i # 0
        <4>1. i \in 0 .. i /\ i - 1 \in 0 .. i /\ i - 1 < i /\ ~(i < i) /\ i # 0
          OBVIOUS
        <4> QED
          BY <2>3, <4>1
      <3> QED
        BY <3>1, <3>2
    <2>6. Runs(i, w)
      <3>1. w = [j \in 0 .. i |-> w[j]]
        BY <2>4
      <3>2. [j \in 0 .. i |-> w[j]]
              = [j \in 0 .. i |-> IF j = 0 THEN d ELSE f[<<w[j - 1], j>>]]
        BY <2>5
      <3> QED
        BY <3>1, <3>2
    <2>7. i \in 0 .. n /\ \E u \in [0 .. i -> D] : Runs(i, u)
      <3> HIDE DEF Runs
      <3> QED
        BY <2>4, <2>6
    <2> QED
      BY <2>7
  <1>3. n \in T
    <2> HIDE DEF T
    <2> QED
      BY <1>1, <1>2, Turns
  <1>4. PICK v \in [0 .. n -> D] : Runs(n, v)
    BY <1>3
  <1>5. v[0] = d /\ \A i \in 1 .. n : v[i] = f[<<v[i - 1], i>>]
    BY <1>4
  <1>6. Course(n, D, d, f, v)
    BY <1>5 DEF Course
  <1> QED
    BY <1>6

-----------------------------------------------------------------------------
(***************************************************************************)
(* Concatenation.                                                          *)
(***************************************************************************)

\* v is the concatenations of the first 0, 1, ... elements of s.
Concats(S, s, v) ==
    /\ v \in [0 .. Len(s) -> Seq(S)]
    /\ v[0] = <<>> /\ \A i \in 1 .. Len(s) : v[i] = v[i - 1] \o s[i]

LEMMA PrefixStep ==
    ASSUME NEW S, NEW s \in Seq(Seq(S)), NEW v, Concats(S, s, v), NEW i \in 1 .. Len(s)
    PROVE  /\ v[i] = v[i - 1] \o s[i]
           /\ v[i - 1] \in Seq(S) /\ v[i] \in Seq(S) /\ s[i] \in Seq(S)
  <1>1. i - 1 \in 0 .. Len(s) /\ i \in 0 .. Len(s)
    OBVIOUS
  <1>2. s[i] \in Seq(S)
    BY ElementOfSeq
  <1> QED
    BY <1>1, <1>2 DEF Concats

LEMMA FlattenConcats ==
    ASSUME NEW S, NEW s \in Seq(Seq(S))
    PROVE  \E v : Concats(S, s, v) /\ FlattenSeq(s) = v[Len(s)]
  <1>0. PICK n \in Nat : n = Len(s)
    OBVIOUS
  <1>1. PICK f \in [Seq(S) \X (1 .. n) -> Seq(S)] :
          \A e \in Seq(S) : \A i \in 1 .. n : f[<<e, i>>] = e \o s[i]
    <2>1. PICK f : f = [x \in Seq(S) \X (1 .. n) |-> x[1] \o s[x[2]]]
      OBVIOUS
    <2>2. \A x \in Seq(S) \X (1 .. n) : x[1] \in Seq(S) /\ s[x[2]] \in Seq(S)
      BY <1>0
    <2>3. \A x \in Seq(S) \X (1 .. n) : x[1] \o s[x[2]] \in Seq(S)
      BY <2>2
    <2>4. f \in [Seq(S) \X (1 .. n) -> Seq(S)]
      BY <2>1, <2>3
    <2> QED
      BY <2>1, <2>4
  <1>2. PICK v : Course(n, Seq(S), <<>>, f, v)
    <2>1. <<>> \in Seq(S)
      OBVIOUS
    <2> QED
      BY <2>1, Loop
  <1>3. Concats(S, s, v)
    <2>1. v \in [0 .. n -> Seq(S)] /\ v[0] = <<>>
      BY <1>2 DEF Course
    <2>2. ASSUME NEW i \in 1 .. n PROVE v[i] = v[i - 1] \o s[i]
      <3>1. PICK e \in Seq(S) : e = v[i - 1]
        BY <2>1
      <3>2. v[i] = f[<<e, i>>]
        BY <1>2, <3>1 DEF Course
      <3> QED
        BY <1>1, <3>1, <3>2
    <2> QED
      BY <1>0, <2>1, <2>2 DEF Concats
  <1>4. CASE n = 0
    <2>1. s = <<>>
      BY <1>0, <1>4, EmptySeq
    <2>2. FlattenSeq(s) = s
      BY <1>0, <1>4 DEF FlattenSeq
    <2> QED
      BY <1>0, <1>3, <1>4, <2>1, <2>2 DEF Concats
  <1>5. CASE n # 0
    <2> DEFINE Turn(g, i) == IF i = 1 THEN s[i] ELSE g[i - 1] \o s[i]
    <2>1. PICK w : w = [i \in 1 .. n |-> v[i]]
      OBVIOUS
    <2>2. \A i \in 1 .. n : w[i] = Turn(w, i)
      <3> SUFFICES ASSUME NEW i \in 1 .. n PROVE w[i] = Turn(w, i)
        OBVIOUS
      <3>1. w[i] = v[i - 1] \o s[i]
        BY <1>0, <1>3, <2>1 DEF Concats
      <3>2. CASE i = 1
        <4>1. v[i - 1] = <<>> /\ s[i] \in Seq(S)
          BY <1>0, <1>3, <3>2 DEF Concats
        <4> QED
          BY <3>1, <3>2, <4>1
      <3>3. CASE i # 1
        <4>1. i - 1 \in 1 .. n
          BY <3>3
        <4>2. w[i - 1] = v[i - 1]
          BY <2>1, <4>1
        <4> QED
          BY <3>1, <3>3, <4>2
      <3> QED
        BY <3>2, <3>3
    <2>3. w = [i \in 1 .. n |-> Turn(w, i)]
      <3> HIDE DEF Turn
      <3> QED
        BY <2>1, <2>2
    <2>4. PICK g : g = [i \in 1 .. n |-> Turn(g, i)] /\ FlattenSeq(s) = g[n]
      <3> DEFINE all == CHOOSE g : g = [i \in 1 .. n |-> Turn(g, i)]
      <3>1. all = [i \in 1 .. n |-> Turn(all, i)]
        <4> HIDE DEF Turn
        <4> QED
          BY <2>3
      <3>2. FlattenSeq(s) = all[n]
        BY <1>0, <1>5 DEF FlattenSeq
      <3> QED
        BY <3>1, <3>2
    <2> DEFINE T == {i \in 1 .. n : g[i] = w[i]}
    <2>5. \A i \in 1 .. n : g[i] = Turn(g, i)
      <3> HIDE DEF Turn
      <3> QED
        BY <2>4
    <2>6. 1 \in T
      <3>1. g[1] = Turn(g, 1) /\ w[1] = Turn(w, 1)
        <4> HIDE DEF Turn
        <4> QED
          BY <1>5, <2>2, <2>5
      <3>2. g[1] = s[1] /\ w[1] = s[1]
        BY <3>1
      <3> QED
        BY <1>5, <3>2
    <2>7. ASSUME NEW i \in 2 .. n, i - 1 \in T PROVE i \in T
      <3>1. i \in 1 .. n /\ i # 1
        OBVIOUS
      <3>2. g[i] = Turn(g, i) /\ w[i] = Turn(w, i)
        <4> HIDE DEF Turn
        <4> QED
          BY <2>2, <2>5, <3>1
      <3>3. g[i] = g[i - 1] \o s[i] /\ w[i] = w[i - 1] \o s[i]
        BY <3>1, <3>2
      <3> QED
        BY <2>7, <3>1, <3>3
    <2>8. n - 1 \in 0 .. n /\ \A i \in 0 .. n - 1 : i + 1 \in T
      <3> DEFINE U == {i \in 0 .. n - 1 : i + 1 \in T}
      <3>1. 0 \in U
        BY <1>5, <2>6
      <3>2. ASSUME NEW i \in 1 .. n - 1, i - 1 \in U PROVE i \in U
        <4>1. i + 1 \in 2 .. n /\ (i + 1) - 1 \in T
          <5> HIDE DEF T
          <5> QED
            BY <3>2
        <4>2. i + 1 \in T
          <5> HIDE DEF T
          <5> QED
            BY <2>7, <4>1
        <4> QED
          BY <4>2
      <3>3. n - 1 \in Nat
        BY <1>5
      <3>4. \A i \in 0 .. n - 1 : i \in U
        <4> HIDE DEF U
        <4> QED
          BY <3>1, <3>2, <3>3, Turns
      <3> QED
        BY <1>5, <3>4
    <2>9. g[n] = w[n]
      <3>1. n - 1 \in 0 .. n - 1 /\ (n - 1) + 1 = n
        BY <1>5
      <3>2. n \in T
        <4> HIDE DEF T
        <4> QED
          BY <2>8, <3>1
      <3> QED
        BY <3>2
    <2>10. w[n] = v[n] /\ FlattenSeq(s) = g[n]
      BY <1>5, <2>1, <2>4
    <2> QED
      BY <1>0, <1>3, <2>9, <2>10
  <1> QED
    BY <1>4, <1>5

\* One element more.
LEMMA FlattenAppend ==
    ASSUME NEW S, NEW s \in Seq(Seq(S)), NEW x \in Seq(S)
    PROVE  FlattenSeq(Append(s, x)) = FlattenSeq(s) \o x /\ FlattenSeq(s) \in Seq(S)
  <1>1. PICK v : Concats(S, s, v) /\ FlattenSeq(s) = v[Len(s)]
    BY FlattenConcats
  <1>2. PICK t \in Seq(Seq(S)) : t = Append(s, x)
    BY AppendProperties
  <1>3. PICK w : Concats(S, t, w) /\ FlattenSeq(t) = w[Len(t)]
    BY FlattenConcats
  <1>4. PICK n \in Nat : n = Len(s)
    OBVIOUS
  <1>5. Len(t) = n + 1 /\ t[n + 1] = x /\ \A i \in 1 .. n : t[i] = s[i]
    BY <1>2, <1>4
  <1> DEFINE T == {i \in 0 .. n : w[i] = v[i]}
  <1>6. \A i \in 0 .. n : i \in T
    <2>1. 0 \in T
      BY <1>1, <1>3 DEF Concats
    <2>2. ASSUME NEW i \in 1 .. n, i - 1 \in T PROVE i \in T
      <3>1. v[i] = v[i - 1] \o s[i]
        BY <1>1, <1>4 DEF Concats
      <3>2. w[i] = w[i - 1] \o t[i]
        <4>1. i \in 1 .. Len(t)
          BY <1>5
        <4> QED
          BY <1>3, <4>1 DEF Concats
      <3>3. w[i - 1] = v[i - 1] /\ t[i] = s[i]
        BY <1>5, <2>2
      <3>4. w[i] = v[i]
        BY <3>1, <3>2, <3>3
      <3> QED
        BY <3>4
    <2> HIDE DEF T
    <2> QED
      BY <2>1, <2>2, Turns
  <1>7. w[n] = v[n]
    BY <1>6
  <1>8. w[n + 1] = w[n] \o t[n + 1]
    <2>1. n + 1 \in 1 .. Len(t) /\ (n + 1) - 1 = n
      BY <1>5
    <2>2. w[n + 1] = w[(n + 1) - 1] \o t[n + 1]
      BY <1>3, <2>1 DEF Concats
    <2> QED
      BY <2>1, <2>2
  <1>9. v[n] \in Seq(S)
    BY <1>1, <1>4 DEF Concats
  <1> QED
    BY <1>1, <1>2, <1>3, <1>4, <1>5, <1>7, <1>8, <1>9

LEMMA FlattenEmpty == FlattenSeq(<<>>) = <<>>
  BY DEF FlattenSeq

LEMMA FlattenTyped ==
    ASSUME NEW S, NEW s \in Seq(Seq(S))
    PROVE  FlattenSeq(s) \in Seq(S)
  BY FlattenAppend, <<>> \in Seq(S)

LEMMA ConcatThree ==
    ASSUME NEW S, NEW x \in Seq(S), NEW y \in Seq(S), NEW z \in Seq(S),
           NEW xy, xy = x \o y, NEW yz, yz = y \o z
    PROVE  xy \o z = x \o yz
  BY ConcatAssociative

\* One element in front.
LEMMA FlattenCons ==
    ASSUME NEW S, NEW s \in Seq(Seq(S)), NEW x \in Seq(S)
    PROVE  FlattenSeq(<<x>> \o s) = x \o FlattenSeq(s)
  <1>0. PICK n \in Nat : n = Len(s)
    OBVIOUS
  <1> DEFINE First(i) == SubSeq(s, 1, i)
             T == {i \in 0 .. n : FlattenSeq(<<x>> \o First(i)) = x \o FlattenSeq(First(i))}
  <1>1. \A i \in 0 .. n : First(i) \in Seq(Seq(S))
    BY <1>0
  <1>2. 0 \in T
    <2>1. First(0) = <<>>
      BY SubSeqEmpty
    <2>2. <<x>> \o <<>> = Append(<<>>, x) /\ <<>> \in Seq(Seq(S)) /\ <<>> \in Seq(S)
      OBVIOUS
    <2>3. FlattenSeq(Append(<<>>, x)) = FlattenSeq(<<>>) \o x
      BY <2>2, FlattenAppend
    <2>4. <<>> \o x = x /\ x \o <<>> = x
      BY ConcatEmptySeq
    <2>5. FlattenSeq(<<x>> \o First(0)) = x
      BY <2>1, <2>2, <2>3, <2>4, FlattenEmpty, Zenon
    <2>6. x \o FlattenSeq(First(0)) = x
      BY <2>1, <2>4, FlattenEmpty, Zenon
    <2>7. 0 \in 0 .. n
      OBVIOUS
    <2> HIDE DEF First
    <2> QED
      BY <2>5, <2>6, <2>7, Zenon
  <1>3. ASSUME NEW i \in 1 .. n, i - 1 \in T PROVE i \in T
    <2>1. First(i) = Append(First(i - 1), s[i]) /\ s[i] \in Seq(S)
      BY <1>0
    <2>2. PICK f \in Seq(Seq(S)) : f = First(i - 1)
      <3>1. i - 1 \in 0 .. n
        OBVIOUS
      <3> HIDE DEF First
      <3> QED
        BY <1>1, <3>1
    <2>3. <<x>> \o Append(f, s[i]) = Append(<<x>> \o f, s[i])
      BY <2>1, <2>2
    <2>4. <<x>> \o f \in Seq(Seq(S))
      BY <2>2
    <2>5. FlattenSeq(Append(<<x>> \o f, s[i])) = FlattenSeq(<<x>> \o f) \o s[i]
      BY <2>1, <2>4, FlattenAppend
    <2>6. FlattenSeq(Append(f, s[i])) = FlattenSeq(f) \o s[i] /\ FlattenSeq(f) \in Seq(S)
      BY <2>1, FlattenAppend
    <2>7. FlattenSeq(<<x>> \o f) = x \o FlattenSeq(f)
      BY <1>3, <2>2
    <2>8. FlattenSeq(<<x>> \o f) \o s[i] = x \o FlattenSeq(Append(f, s[i]))
      <3> HIDE DEF First, T
      <3>1. PICK y \in Seq(S), z \in Seq(S) : y = FlattenSeq(f) /\ z = s[i]
        BY <2>1, <2>6
      <3>2. PICK xy, yz : xy = FlattenSeq(<<x>> \o f) /\ yz = FlattenSeq(Append(f, s[i]))
        OBVIOUS
      <3>3. xy = x \o y /\ yz = y \o z
        BY <2>6, <2>7, <3>1, <3>2
      <3>4. xy \o z = x \o yz
        BY <3>3, ConcatThree
      <3> QED
        BY <3>1, <3>2, <3>4
    <2>9. First(i) = Append(f, s[i])
      BY <2>1, <2>2
    <2>10. FlattenSeq(<<x>> \o First(i)) = x \o FlattenSeq(First(i))
      <3> HIDE DEF First
      <3> QED
        BY <2>3, <2>5, <2>8, <2>9
    <2>11. i \in 0 .. n
      OBVIOUS
    <2> HIDE DEF First
    <2> QED
      BY <2>10, <2>11
  <1>4. n \in T
    <2>1. \A i \in 0 .. n : i \in T
      <3> HIDE DEF T
      <3> QED
        BY <1>2, <1>3, Turns
    <2> HIDE DEF T
    <2> QED
      BY <2>1
  <1>5. First(n) = s
    BY <1>0, SubSeqFull
  <1> QED
    BY <1>4, <1>5

\* No element is longer than a message field can be.
MaxPiece == 65535

LEMMA PrefixLengths ==
    ASSUME NEW S, NEW s \in Seq(Seq(S)), NEW v, Concats(S, s, v),
           \A i \in 1 .. Len(s) : Len(s[i]) <= MaxPiece
    PROVE  \A i \in 0 .. Len(s) : Len(v[i]) <= MaxPiece * i
  <1>0. PICK n \in Nat : n = Len(s)
    OBVIOUS
  <1> DEFINE T == {i \in 0 .. n : Len(v[i]) <= MaxPiece * i}
  <1>1. 0 \in T
    BY DEF Concats, MaxPiece
  <1>2. ASSUME NEW i \in 1 .. n, i - 1 \in T PROVE i \in T
    <2>1. v[i] = v[i - 1] \o s[i] /\ v[i - 1] \in Seq(S) /\ s[i] \in Seq(S)
      BY <1>0, PrefixStep
    <2>2. Len(v[i]) = Len(v[i - 1]) + Len(s[i]) /\ Len(v[i - 1]) \in Nat /\ Len(s[i]) \in Nat
      BY <2>1
    <2>3. Len(v[i - 1]) <= MaxPiece * (i - 1) /\ Len(s[i]) <= MaxPiece
      BY <1>0, <1>2
    <2>4. MaxPiece * i = MaxPiece * (i - 1) + MaxPiece
      BY DEF MaxPiece
    <2>5. Len(v[i]) <= MaxPiece * i
      <3>1. PICK m \in Int : m = MaxPiece * (i - 1)
        BY DEF MaxPiece
      <3>2. PICK k \in Nat, l \in Nat : k = Len(v[i - 1]) /\ l = Len(s[i])
        BY <2>2
      <3>3. k <= m /\ l <= MaxPiece /\ MaxPiece \in Nat
        BY <2>3, <3>1, <3>2 DEF MaxPiece
      <3>4. k + l <= m + MaxPiece
        BY <3>3
      <3> QED
        BY <2>2, <2>4, <3>1, <3>2, <3>4
    <2> QED
      BY <2>5
  <1>3. \A i \in 0 .. n : i \in T
    <2> HIDE DEF T
    <2> QED
      BY <1>1, <1>2, Turns
  <1> QED
    BY <1>0, <1>3

LEMMA FlattenLength ==
    ASSUME NEW S, NEW s \in Seq(Seq(S)), \A i \in 1 .. Len(s) : Len(s[i]) <= MaxPiece
    PROVE  Len(FlattenSeq(s)) <= MaxPiece * Len(s)
  <1>1. PICK v : Concats(S, s, v) /\ FlattenSeq(s) = v[Len(s)]
    BY FlattenConcats
  <1>2. Len(s) \in 0 .. Len(s)
    OBVIOUS
  <1> QED
    BY <1>1, <1>2, PrefixLengths

-----------------------------------------------------------------------------
(***************************************************************************)
(* Bytes within bytes.                                                     *)
(***************************************************************************)

\* The bytes x lie in b from the place p on.
Lies(b, p, x) ==
    /\ p + Len(x) - 1 <= Len(b)
    /\ \A j \in 1 .. Len(x) : b[p + j - 1] = x[j]

LEMMA LiesInFront ==
    ASSUME NEW x \in Seq(Byte), NEW y \in Seq(Byte)
    PROVE  Lies(x \o y, 1, x) /\ Lies(x, 1, x)
  BY DEF Lies

LEMMA LiesConcat ==
    ASSUME NEW b \in Seq(Byte), NEW p \in Nat, NEW x \in Seq(Byte), NEW y \in Seq(Byte),
           Lies(b, p, x \o y)
    PROVE  Lies(b, p, x) /\ Lies(b, p + Len(x), y)
  <1>1. /\ Len(x \o y) = Len(x) + Len(y) /\ Len(x) \in Nat /\ Len(y) \in Nat
        /\ \A j \in 1 .. Len(x) : (x \o y)[j] = x[j]
        /\ \A j \in 1 .. Len(y) : (x \o y)[Len(x) + j] = y[j]
    OBVIOUS
  <1>2. PICK z : z = x \o y
    OBVIOUS
  <1>3. Lies(b, p, x)
    BY <1>1, <1>2 DEF Lies
  <1>4. ASSUME NEW j \in 1 .. Len(y) PROVE b[p + Len(x) + j - 1] = y[j]
    <2>1. Len(x) + j \in 1 .. Len(z)
      BY <1>1, <1>2
    <2>2. b[p + (Len(x) + j) - 1] = z[Len(x) + j]
      BY <1>2, <2>1 DEF Lies
    <2>3. p + (Len(x) + j) - 1 = p + Len(x) + j - 1
      BY <1>1
    <2> QED
      BY <1>1, <1>2, <2>2, <2>3
  <1>5. p + Len(x) + Len(y) - 1 <= Len(b)
    BY <1>1 DEF Lies
  <1> QED
    BY <1>3, <1>4, <1>5 DEF Lies

LEMMA LiesCut ==
    ASSUME NEW b \in Seq(Byte), NEW p \in Nat \ {0}, NEW x \in Seq(Byte), Lies(b, p, x)
    PROVE  SubSeq(b, p, p + Len(x) - 1) = x
  <1>1. PICK q \in Int : q = p + Len(x) - 1
    OBVIOUS
  <1>2. \A i \in p .. q : b[i] \in Byte
    BY <1>1 DEF Lies
  <1>3. /\ SubSeq(b, p, q) \in Seq(Byte)
        /\ Len(SubSeq(b, p, q)) = IF p <= q THEN q - p + 1 ELSE 0
        /\ \A i \in 1 .. q - p + 1 : SubSeq(b, p, q)[i] = b[p + i - 1]
    BY <1>1, <1>2, SubSeqProperties
  <1>4. Len(SubSeq(b, p, q)) = Len(x) /\ q - p + 1 = Len(x)
    BY <1>1, <1>3
  <1>5. \A i \in 1 .. Len(x) : SubSeq(b, p, q)[i] = x[i]
    BY <1>3, <1>4 DEF Lies
  <1> QED
    BY <1>1, <1>3, <1>4, <1>5, SeqEqual

\* Each piece of a concatenation lies behind those before it.
LEMMA LiesPiece ==
    ASSUME NEW b \in Seq(Byte), NEW p \in Nat, NEW s \in Seq(Seq(Byte)), NEW v,
           Concats(Byte, s, v), Lies(b, p, v[Len(s)]), NEW i \in 1 .. Len(s)
    PROVE  Lies(b, p + Len(v[i - 1]), s[i])
  <1>0. PICK n \in Nat : n = Len(s)
    OBVIOUS
  <1> DEFINE T == {k \in 0 .. n : Lies(b, p, v[n - k])}
  <1>1. 0 \in T
    BY <1>0
  <1>2. ASSUME NEW k \in 1 .. n, k - 1 \in T PROVE k \in T
    <2>1. PICK m \in 1 .. n : m = n - (k - 1) /\ m - 1 = n - k
      OBVIOUS
    <2>2. v[m] = v[m - 1] \o s[m] /\ v[m - 1] \in Seq(Byte) /\ s[m] \in Seq(Byte)
      BY <1>0, PrefixStep
    <2>3. Lies(b, p, v[m])
      BY <1>2, <2>1
    <2>4. Lies(b, p, v[m - 1])
      BY <2>2, <2>3, LiesConcat
    <2> QED
      BY <2>1, <2>4
  <1>3. \A k \in 0 .. n : k \in T
    <2> HIDE DEF T
    <2> QED
      BY <1>1, <1>2, Turns
  <1>4. n - i \in 0 .. n /\ n - (n - i) = i
    BY <1>0
  <1>5. Lies(b, p, v[i])
    BY <1>3, <1>4
  <1>6. v[i] = v[i - 1] \o s[i] /\ v[i - 1] \in Seq(Byte) /\ s[i] \in Seq(Byte)
    BY PrefixStep
  <1> QED
    BY <1>5, <1>6, LiesConcat

-----------------------------------------------------------------------------
(***************************************************************************)
(* Numbers.                                                                *)
(***************************************************************************)
\* A number without its last one, two or three bytes, and its last byte.
But1(v) == v \div 256
But2(v) == v \div 65536
But3(v) == v \div 16777216
Low(v)  == v % 256

LEMMA Parts ==
    ASSUME NEW v \in Int
    PROVE  /\ But1(v) \in Int /\ But2(v) \in Int /\ But3(v) \in Int /\ Low(v) \in Byte
           /\ v = 256 * But1(v) + Low(v)
           /\ But1(v) = 256 * But2(v) + Low(But1(v))
           /\ But2(v) = 256 * But3(v) + Low(But2(v))
  <1>1. But1(v) \in Int /\ But2(v) \in Int /\ But3(v) \in Int
    BY SMT DEF But1, But2, But3
  <1>2. Low(v) \in Byte
    BY SMT DEF Low, Byte
  <1>3. v = 256 * But1(v) + Low(v)
    BY SMT DEF But1, Low
  <1>4. But1(v) = 256 * But2(v) + Low(But1(v))
    BY SMT DEF But1, But2, Low
  <1>5. But2(v) = 256 * But3(v) + Low(But2(v))
    BY SMT DEF But2, But3, Low
  <1> QED
    BY <1>1, <1>2, <1>3, <1>4, <1>5, Zenon

LEMMA ShiftedIs ==
    ASSUME NEW v \in Int
    PROVE  /\ Shifted(v, 0) = v /\ Shifted(v, 1) = But1(v)
           /\ Shifted(v, 2) = But2(v) /\ Shifted(v, 3) = But3(v)
  <1>1. Weight[1] = 1 /\ Weight[2] = 256 /\ Weight[3] = 65536 /\ Weight[4] = 16777216
    BY SMT DEF Weight
  <1>2. v \div 1 = v
    BY SMT
  <1> QED
    BY <1>1, <1>2, SMT DEF Shifted, But1, But2, But3

LEMMA ShiftedTyped ==
    ASSUME NEW v \in Int, NEW i \in Nat
    PROVE  Shifted(v, i) \in Int
  <1>1. CASE i >= 4
    BY <1>1, SMT DEF Shifted
  <1>2. CASE i < 4
    <2>1. i = 0 \/ i = 1 \/ i = 2 \/ i = 3
      BY <1>2, SMT
    <2>2. Shifted(v, i) \in {v, But1(v), But2(v), But3(v)}
      BY <2>1, ShiftedIs, Zenon
    <2>3. But1(v) \in Int /\ But2(v) \in Int /\ But3(v) \in Int
      BY Parts, Zenon
    <2> QED
      BY <2>2, <2>3, Zenon
  <1>3. i >= 4 \/ i < 4
    BY SMT
  <1> QED
    BY <1>1, <1>2, <1>3, Zenon

LEMMA IntBytes ==
    ASSUME NEW v \in Int, NEW size \in Nat
    PROVE  /\ IntToBytes(v, size) \in Seq(Byte)
           /\ Len(IntToBytes(v, size)) = size
           /\ \A i \in 1 .. size : IntToBytes(v, size)[i] = Low(Shifted(v, size - i))
  <1>1. ASSUME NEW i \in 1 .. size PROVE Low(Shifted(v, size - i)) \in Byte
    <2>1. size - i \in Nat
      BY SMT
    <2> QED
      BY <2>1, ShiftedTyped, Parts, Zenon
  <1>2. IntToBytes(v, size) = [i \in 1 .. size |-> Low(Shifted(v, size - i))]
    BY Zenon DEF IntToBytes, Low
  <1> QED
    BY <1>1, <1>2, SMT

LEMMA Int16Bytes ==
    ASSUME NEW v \in Int
    PROVE  /\ Int16(v) \in Seq(Byte) /\ Len(Int16(v)) = 2
           /\ Int16(v)[1] = Low(But1(v)) /\ Int16(v)[2] = Low(v)
  <1>1. /\ Int16(v) \in Seq(Byte) /\ Len(Int16(v)) = 2
        /\ \A i \in 1 .. 2 : Int16(v)[i] = Low(Shifted(v, 2 - i))
    BY IntBytes, 2 \in Nat, Zenon DEF Int16
  <1>2. Int16(v)[1] = Low(Shifted(v, 1)) /\ Int16(v)[2] = Low(Shifted(v, 0))
    BY <1>1, SMT
  <1> QED
    BY <1>1, <1>2, ShiftedIs, Zenon

LEMMA Int32Bytes ==
    ASSUME NEW v \in Int
    PROVE  /\ Int32(v) \in Seq(Byte) /\ Len(Int32(v)) = 4
           /\ Int32(v)[1] = Low(But3(v)) /\ Int32(v)[2] = Low(But2(v))
           /\ Int32(v)[3] = Low(But1(v)) /\ Int32(v)[4] = Low(v)
  <1>1. /\ Int32(v) \in Seq(Byte) /\ Len(Int32(v)) = 4
        /\ \A i \in 1 .. 4 : Int32(v)[i] = Low(Shifted(v, 4 - i))
    BY IntBytes, 4 \in Nat, Zenon DEF Int32
  <1>2. /\ Int32(v)[1] = Low(Shifted(v, 3)) /\ Int32(v)[2] = Low(Shifted(v, 2))
        /\ Int32(v)[3] = Low(Shifted(v, 1)) /\ Int32(v)[4] = Low(Shifted(v, 0))
    BY <1>1, SMT
  <1> QED
    BY <1>1, <1>2, ShiftedIs, Zenon

\* The numbers of two and of four bytes.
Int16s == -(MaxInt16 + 1) .. MaxInt16

LEMMA Limits ==
    /\ MaxInt16 \in Int /\ MaxInt16 > 65 /\ MaxInt32 \in Int /\ MaxInt32 > 65536
    /\ \A v \in Int : (v <= MaxInt16 <=> v <= 32767) /\ (-(MaxInt16 + 1) <= v <=> -32768 <= v)
    /\ \A v \in Int : (v <= MaxInt32 => v <= 2147483647) /\ (-MaxInt32 <= v => -2147483647 <= v)
  BY SMT DEF MaxInt16, MaxInt32

LEMMA Int16sAre ==
    /\ \A v \in Int16s : v \in Int /\ v >= -32768 /\ v <= 32767
    /\ \A v \in Int : -32768 <= v /\ v <= MaxInt16 => v \in Int16s
  BY Limits, SMT DEF Int16s

LEMMA Int31sAre ==
    /\ MaxInt32 \in Nat
    /\ \A v \in Int31 : v \in Int /\ -MaxInt32 <= v /\ v <= MaxInt32
    /\ \A v \in Int : -MaxInt32 <= v /\ v <= MaxInt32 => v \in Int31
    /\ \A v \in 0 .. MaxInt32 : v \in Nat /\ v <= MaxInt32 /\ v \in Int31
    /\ \A v \in Nat : v <= MaxInt32 => v \in 0 .. MaxInt32
  <1>1. MaxInt32 \in Nat
    BY Limits, SMT
  <1> QED
    BY <1>1, SMT DEF Int31

LEMMA SmallNumbers ==
    ASSUME NEW v \in Int, -65536 <= v, v <= 65536
    PROVE  v \in Int31 /\ (v >= 0 => v \in 0 .. MaxInt32)
  <1>1. -MaxInt32 <= v /\ v <= MaxInt32
    BY Limits, SMT
  <1> QED
    BY <1>1, Int31sAre, SMT

\* The first byte of a number in two's complement has its sign.
LEMMA SignOfByte ==
    ASSUME NEW h \in -128 .. 127
    PROVE  Signed(Low(h)) = h
  BY SMT DEF Signed, Low

LEMMA ReadsInt16 ==
    ASSUME NEW b \in Seq(Byte), NEW p \in Nat, NEW v \in Int16s, Lies(b, p, Int16(v))
    PROVE  ReadInt16(b, p) = v
  <1>0. v \in Int /\ v >= -32768 /\ v <= 32767
    BY Int16sAre, SMT
  <1>1. p + 1 <= Len(b) /\ b[p] = Low(But1(v)) /\ b[p + 1] = Low(v)
    <2>1. Len(Int16(v)) = 2 /\ Int16(v)[1] = Low(But1(v)) /\ Int16(v)[2] = Low(v)
      BY <1>0, Int16Bytes, SMT
    <2>2. p + 2 - 1 <= Len(b) /\ b[p + 1 - 1] = Int16(v)[1] /\ b[p + 2 - 1] = Int16(v)[2]
      BY <2>1, SMT DEF Lies
    <2> QED
      BY <2>1, <2>2, SMT
  <1>2. But1(v) \in -128 .. 127
    BY <1>0, SMT DEF But1
  <1>3. Signed(b[p]) = But1(v)
    <2>1. PICK h \in -128 .. 127 : h = But1(v)
      BY <1>2
    <2>2. Signed(Low(h)) = h
      BY ONLY h \in -128 .. 127, SMT DEF Signed, Low
    <2> QED
      BY <1>1, <2>1, <2>2, Zenon
  <1>4. v = 256 * But1(v) + Low(v)
    BY <1>0, Parts, SMT
  <1> QED
    BY <1>1, <1>3, <1>4, SMT DEF ReadInt16

LEMMA ReadsInt32 ==
    ASSUME NEW b \in Seq(Byte), NEW p \in Nat, NEW v \in Int31, Lies(b, p, Int32(v))
    PROVE  ReadInt32(b, p) = v
  <1>0. v \in Int /\ v >= -2147483648 /\ v <= 2147483647
    <2>1. v \in Int /\ -MaxInt32 <= v /\ v <= MaxInt32
      BY Int31sAre, SMT
    <2> QED
      BY <2>1, Limits, SMT
  <1>1. /\ p + 3 <= Len(b)
        /\ b[p] = Low(But3(v)) /\ b[p + 1] = Low(But2(v))
        /\ b[p + 2] = Low(But1(v)) /\ b[p + 3] = Low(v)
    <2>1. /\ Len(Int32(v)) = 4
          /\ Int32(v)[1] = Low(But3(v)) /\ Int32(v)[2] = Low(But2(v))
          /\ Int32(v)[3] = Low(But1(v)) /\ Int32(v)[4] = Low(v)
      BY <1>0, Int32Bytes, SMT
    <2>2. /\ p + 4 - 1 <= Len(b)
          /\ b[p + 1 - 1] = Int32(v)[1] /\ b[p + 2 - 1] = Int32(v)[2]
          /\ b[p + 3 - 1] = Int32(v)[3] /\ b[p + 4 - 1] = Int32(v)[4]
      BY <2>1, SMT DEF Lies
    <2> QED
      BY <2>1, <2>2, SMT
  <1>2. But3(v) \in -128 .. 127
    BY <1>0, SMT DEF But3
  <1>3. Signed(b[p]) = But3(v)
    BY <1>1, <1>2, SignOfByte, Zenon
  <1>4. /\ v = 256 * But1(v) + Low(v)
        /\ But1(v) = 256 * But2(v) + Low(But1(v))
        /\ But2(v) = 256 * But3(v) + Low(But2(v))
    BY <1>0, Parts, SMT
  <1>5. 256 * (256 * (256 * Signed(b[p]) + b[p + 1]) + b[p + 2]) + b[p + 3] = v
    BY <1>1, <1>3, <1>4, SMT
  <1> QED
    BY <1>1, <1>5, SMT DEF ReadInt32

-----------------------------------------------------------------------------
(***************************************************************************)
(* Texts, and things one after the other.                                  *)
(***************************************************************************)
Place == Nat \ {0}

\* z is x and then y.
Joined(x, y, z) == x \in Seq(Byte) /\ y \in Seq(Byte) /\ z = x \o y

LEMMA JoinIsBytes ==
    ASSUME NEW x, NEW y, NEW z, Joined(x, y, z)
    PROVE  z \in Seq(Byte) /\ Len(z) = Len(x) + Len(y)
  BY ConcatProperties DEF Joined

LEMMA LiesJoined ==
    ASSUME NEW b \in Seq(Byte), NEW p \in Place, NEW x, NEW y, NEW z, Joined(x, y, z),
           Lies(b, p, z)
    PROVE  Lies(b, p, x) /\ Lies(b, p + Len(x), y) /\ p + Len(x) \in Place
  <1>1. x \in Seq(Byte) /\ y \in Seq(Byte) /\ Lies(b, p, x \o y) /\ p \in Nat
    BY DEF Joined, Place
  <1>2. Lies(b, p, x) /\ Lies(b, p + Len(x), y)
    BY <1>1, LiesConcat, Zenon
  <1>3. p + Len(x) \in Place
    BY <1>1, LenProperties DEF Place
  <1> QED
    BY <1>2, <1>3, Zenon

LEMMA TextIsBytes ==
    ASSUME NEW t \in Texts
    PROVE  /\ t \in Seq(Byte) /\ Len(t) \in Nat
           /\ AppendString(t) = t \o <<0>> /\ AppendString(t) \in Seq(Byte)
           /\ Len(AppendString(t)) = Len(t) + 1
  <1>1. t \in Seq(Byte)
    BY SeqMonotonic, 1 .. 255 \subseteq Byte DEF Texts, Byte
  <1>2. 0 \in Byte /\ <<0>> \in Seq(Byte)
    BY DEF Byte
  <1>3. AppendString(t) = t \o <<0>>
    BY <1>1, <1>2, AppendIsConcat DEF AppendString
  <1>4. AppendString(t) \in Seq(Byte) /\ Len(AppendString(t)) = Len(t) + 1
    BY <1>1, <1>2, AppendProperties DEF AppendString
  <1> QED
    BY <1>1, <1>3, <1>4, LenProperties

\* A text is read up to its terminator.
LEMMA ReadsText ==
    ASSUME NEW b \in Seq(Byte), NEW p \in Place, NEW t \in Texts,
           Lies(b, p, AppendString(t))
    PROVE  Text(b, p) = t /\ End(b, p) = p + Len(t)
  <1> USE DEF Place
  <1>0. PICK n \in Nat, e \in Nat : n = Len(t) /\ e = p + n
    BY TextIsBytes
  <1>1. t \in Seq(Byte) /\ AppendString(t) = t \o <<0>> /\ <<0>> \in Seq(Byte)
    BY TextIsBytes DEF Byte
  <1>2. Lies(b, p, t) /\ Lies(b, e, <<0>>)
    <2>1. Joined(t, <<0>>, AppendString(t))
      BY <1>1, Zenon DEF Joined
    <2> QED
      BY <1>0, <2>1, LiesJoined, Zenon
  <1>3. e <= Len(b) /\ b[e] = 0
    <2>1. Len(<<0>>) = 1 /\ <<0>>[1] = 0
      OBVIOUS
    <2> QED
      BY <1>0, <1>2, <2>1 DEF Lies
  <1>4. ASSUME NEW i \in p .. e - 1 PROVE b[i] # 0
    <2>1. PICK j \in 1 .. n : i = p + j - 1
      <3>1. i - p + 1 \in 1 .. n /\ i = p + (i - p + 1) - 1
        BY <1>0
      <3> QED
        BY <3>1
    <2>2. b[i] = t[j] /\ t[j] \in 1 .. 255
      <3>1. t[j] \in 1 .. 255
        BY <1>0, ElementOfSeq DEF Texts
      <3>2. b[p + j - 1] = t[j]
        BY <1>0, <1>2 DEF Lies
      <3> QED
        BY <2>1, <3>1, <3>2
    <2>3. PICK c \in 1 .. 255 : b[i] = c
      BY <2>2, Zenon
    <2>4. c # 0
      OBVIOUS
    <2> QED
      BY <2>3, <2>4, Zenon
  <1> DEFINE ends == {i \in p .. Len(b) : b[i] = 0}
  <1>5. e \in ends /\ \A j \in ends : e <= j
    <2>1. e \in ends
      BY <1>0, <1>3
    <2>2. ASSUME NEW j \in ends PROVE e <= j
      <3>1. j \in Int /\ j >= p /\ b[j] = 0
        OBVIOUS
      <3> QED
        BY <1>0, <1>4, <3>1
    <2> QED
      BY <2>1, <2>2
  <1>6. \A i \in ends : i \in Int
    OBVIOUS
  <1>7. End(b, p) = e
    <2>1. End(b, p) = CHOOSE i \in ends : \A j \in ends : i <= j
      BY <1>5 DEF End
    <2> HIDE DEF ends
    <2>2. PICK x : x = CHOOSE i \in ends : \A j \in ends : i <= j
      OBVIOUS
    <2>3. x \in ends /\ \A j \in ends : x <= j
      BY <1>5, <2>2
    <2>4. x <= e /\ e <= x /\ x \in Int /\ e \in Int
      BY <1>5, <1>6, <2>3
    <2> QED
      BY <2>1, <2>2, <2>4
  <1>8. SubSeq(b, p, e - 1) = t
    <2>1. SubSeq(b, p, p + Len(t) - 1) = t
      BY <1>1, <1>2, LiesCut
    <2> QED
      BY <1>0, <2>1
  <1> QED
    BY <1>0, <1>7, <1>8 DEF Text

\* item reads, where the i-th of the byte sequences s lies, the i-th of the things.
Reads(b, item, s, things) ==
    /\ Len(things) = Len(s)
    /\ \A i \in 1 .. Len(s) : \A p \in Place :
          Lies(b, p, s[i]) => item[p] = Item(things[i], p + Len(s[i]))

\* The things that are read are those whose bytes lie one after the other.
LEMMA ReadsAll ==
    ASSUME NEW b \in Seq(Byte), NEW at \in Place, NEW s \in Seq(Seq(Byte)),
           Lies(b, at, FlattenSeq(s)),
           NEW S, NEW things \in Seq(S), NEW item, Reads(b, item, s, things)
    PROVE  ReadAll(item, Len(s), at) = things
  <1> USE DEF Place, Reads
  <1>0. PICK n \in Nat : n = Len(s)
    OBVIOUS
  <1>1. PICK v : Concats(Byte, s, v) /\ FlattenSeq(s) = v[Len(s)]
    BY FlattenConcats
  <1> DEFINE Turn(g, i) ==
               IF i = 0 THEN [things |-> <<>>, next |-> at]
               ELSE [things |-> Append(g[i - 1].things, item[g[i - 1].next].thing),
                     next   |-> item[g[i - 1].next].next]
             State(i) == [things |-> SubSeq(things, 1, i), next |-> at + Len(v[i])]
  <1>2. \A g : Turn(g, 0) = State(0)
    <2>1. SubSeq(things, 1, 0) = <<>> /\ v[0] = <<>> /\ at + Len(v[0]) = at
      BY <1>1, SubSeqEmpty DEF Concats
    <2> QED
      BY <2>1
  <1>3. ASSUME NEW i \in 1 .. n, NEW g, g[i - 1] = State(i - 1) PROVE Turn(g, i) = State(i)
    <2>1. v[i] = v[i - 1] \o s[i] /\ v[i - 1] \in Seq(Byte) /\ s[i] \in Seq(Byte)
      <3>1. i \in 1 .. Len(s)
        BY <1>0
      <3> HIDE DEF Turn, State
      <3> QED
        BY <1>1, <3>1, PrefixStep, ZenonT(30)
    <2>2. PICK p : p = at + Len(v[i - 1])
      OBVIOUS
    <2>3. p \in Place /\ at + Len(v[i]) = p + Len(s[i])
      <3>1. PICK k \in Nat, l \in Nat : k = Len(v[i - 1]) /\ l = Len(s[i]) /\ Len(v[i]) = k + l
        <4> HIDE DEF Turn, State
        <4>1. Len(v[i]) = Len(v[i - 1]) + Len(s[i])
          BY <2>1, ConcatProperties
        <4>2. Len(v[i - 1]) \in Nat /\ Len(s[i]) \in Nat
          BY <2>1, LenProperties
        <4> QED
          BY <4>1, <4>2
      <3>2. at + k \in Place /\ at + (k + l) = (at + k) + l
        <4> HIDE DEF Turn, State
        <4>1. at \in Nat /\ at > 0
          BY DEF Place
        <4> QED
          BY ONLY <4>1, k \in Nat, l \in Nat, SMT DEF Place
      <3> QED
        BY <2>2, <3>1, <3>2, Zenon
    <2>4. Lies(b, p, s[i])
      BY <1>0, <1>1, <2>2, LiesPiece
    <2>5. item[p] = Item(things[i], p + Len(s[i]))
      BY <1>0, <2>3, <2>4
    <2>6. g[i - 1].next = p /\ g[i - 1].things = SubSeq(things, 1, i - 1)
      BY <1>3, <2>2
    <2>7. SubSeq(things, 1, i) = Append(SubSeq(things, 1, i - 1), things[i])
      BY <1>0
    <2>8. Turn(g, i) = [things |-> Append(SubSeq(things, 1, i - 1), item[p].thing),
                        next |-> item[p].next]
      BY <2>6
    <2>9. item[p].thing = things[i] /\ item[p].next = p + Len(s[i])
      BY <2>5 DEF Item
    <2> QED
      BY <2>3, <2>7, <2>8, <2>9
  <1>4. PICK w : w = [i \in 0 .. n |-> State(i)]
    OBVIOUS
  <1>5. w = [i \in 0 .. n |-> Turn(w, i)]
    <2> HIDE DEF Turn, State
    <2>1. ASSUME NEW i \in 0 .. n PROVE w[i] = Turn(w, i)
      <3>1. CASE i = 0
        BY <1>2, <1>4, <3>1
      <3>2. CASE i # 0
        <4>1. i \in 1 .. n /\ i - 1 \in 0 .. n
          BY <3>2
        <4> QED
          BY <1>3, <1>4, <4>1
      <3> QED
        BY <3>1, <3>2
    <2> QED
      BY <1>4, <2>1
  <1>6. PICK read : /\ read = [i \in 0 .. n |-> Turn(read, i)]
                    /\ ReadAll(item, Len(s), at) = read[n].things
    <2> DEFINE all == CHOOSE g : g = [i \in 0 .. n |-> Turn(g, i)]
    <2>1. all = [i \in 0 .. n |-> Turn(all, i)]
      <3> HIDE DEF Turn
      <3> QED
        BY <1>5
    <2>2. ReadAll(item, Len(s), at) = all[n].things
      BY <1>0 DEF ReadAll
    <2> QED
      BY <2>1, <2>2
  <1>7. \A i \in 0 .. n : read[i] = Turn(read, i)
    <2> HIDE DEF Turn, State
    <2>1. PICK r : r = read
      OBVIOUS
    <2>2. r = [i \in 0 .. n |-> Turn(r, i)]
      BY <1>6, <2>1, Zenon
    <2>3. \A i \in 0 .. n : r[i] = Turn(r, i)
      BY <2>2
    <2> QED
      BY <2>1, <2>3, Zenon
  <1> DEFINE T == {i \in 0 .. n : read[i] = State(i)}
  <1>8. 0 \in T
    <2>1. read[0] = Turn(read, 0) /\ 0 \in 0 .. n
      <3> HIDE DEF Turn
      <3> QED
        BY <1>7
    <2> HIDE DEF Turn, State
    <2> QED
      BY <1>2, <2>1
  <1>9. ASSUME NEW i \in 1 .. n, i - 1 \in T PROVE i \in T
    <2> HIDE DEF Turn, State
    <2>1. read[i] = Turn(read, i) /\ i \in 0 .. n
      BY <1>7
    <2>2. read[i - 1] = State(i - 1)
      BY <1>9
    <2> QED
      BY <1>3, <2>1, <2>2
  <1>10. n \in T
    <2> HIDE DEF T
    <2>1. n \in 0 .. n
      OBVIOUS
    <2> QED
      BY <1>8, <1>9, <2>1, Turns
  <1>11. SubSeq(things, 1, n) = things
    BY <1>0, SubSeqFull
  <1>12. read[n].things = things
    <2>1. read[n] = State(n)
      <3> HIDE DEF State, Turn
      <3> QED
        BY <1>10
    <2>2. State(n).things = SubSeq(things, 1, n)
      <3> HIDE DEF Turn, T
      <3> QED
        OBVIOUS
    <2> HIDE DEF State, Turn, T
    <2> QED
      BY <1>11, <2>1, <2>2, Zenon
  <1> QED
    BY <1>6, <1>12, Zenon

-----------------------------------------------------------------------------
(***************************************************************************)
(* What a message becomes on the wire is read as what it was.              *)
(***************************************************************************)
LEMMA DecodeIs ==
    ASSUME NEW b
    PROVE  /\ Decode("RowDescription", b)
                = ReadAll([at \in Nat |-> ReadRowField(b, at)], ReadInt16(b, 1), 3)
           /\ Decode("DataRow", b)
                = ReadAll([at \in Nat |-> ReadColumn(b, at)], ReadInt16(b, 1), 3)
           /\ Decode("ParameterDescription", b)
                = ReadAll([at \in Nat |-> Item(ReadInt32(b, at), at + 4)], ReadInt16(b, 1), 3)
           /\ Decode("CopyInResponse", b)
                = ReadAll([at \in Nat |-> Item(ReadInt16(b, at), at + 2)], ReadInt16(b, 2), 4)
           /\ Decode("CommandComplete", b) = ReadTag(Text(b, 1))
           /\ Decode("ErrorResponse", b)
                = IF ReadByte(b, 1) # MessageError THEN <<>> ELSE <<Text(b, 2)>>
           /\ Decode("ParameterStatus", b) = <<Text(b, 1), Text(b, End(b, 1) + 1)>>
           /\ Decode("BackendKeyData", b) = <<ReadInt32(b, 1), ReadInt32(b, 5)>>
           /\ Decode("Authentication", b) = ReadInt32(b, 1)
           /\ Decode("ReadyForQuery", b) = ReadByte(b, 1)
           /\ \A type \in {"NoData", "ParseComplete", "BindComplete", "CloseComplete"} :
                 Decode(type, b) = b
  BY DEF Decode

LEMMA PayloadIs ==
    ASSUME NEW body
    PROVE  /\ Payload(Message("RowDescription", body)) = RowDescriptionBytes(body)
           /\ Payload(Message("DataRow", body)) = DataRowBytes(body)
           /\ Payload(Message("CommandComplete", body)) = CommandCompleteBytes(body)
           /\ Payload(Message("ErrorResponse", body)) = ErrorResponseBytes(body)
           /\ Payload(Message("ParameterStatus", body)) = ParameterStatusBytes(body)
           /\ Payload(Message("BackendKeyData", body)) = BackendKeyDataBytes(body)
           /\ Payload(Message("ParameterDescription", body)) = ParameterDescriptionBytes(body)
           /\ Payload(Message("CopyInResponse", body)) = CopyInResponseBytes(body)
           /\ Payload(Message("Authentication", body)) = Int32(body)
           /\ Payload(Message("ReadyForQuery", body)) = <<body>>
           /\ \A type \in {"NoData", "ParseComplete", "BindComplete", "CloseComplete"} :
                 Payload(Message(type, body)) = <<>>
  BY DEF Payload, Message

Field == [name : Names, number : Int16s, oid : Int31, size : Int16s, format : Int16s]

LEMMA NumberIsBytes ==
    ASSUME NEW v \in Int16s \cup Int31
    PROVE  /\ Int16(v) \in Seq(Byte) /\ Len(Int16(v)) = 2
           /\ Int32(v) \in Seq(Byte) /\ Len(Int32(v)) = 4
  <1>1. v \in Int
    BY Int16sAre, Int31sAre, SMT
  <1> QED
    BY <1>1, Int16Bytes, Int32Bytes, Zenon

LEMMA RowFieldIsBytes ==
    ASSUME NEW f \in Field
    PROVE  /\ WriteRowField(f) \in Seq(Byte) /\ Len(WriteRowField(f)) = Len(f.name) + 19
           /\ \A b \in Seq(Byte) : \A p \in Place :
                 Lies(b, p, WriteRowField(f))
                    => ReadRowField(b, p) = Item(f, p + Len(WriteRowField(f)))
  <1>1. /\ f.name \in Texts /\ f.number \in Int16s /\ f.oid \in Int31
        /\ f.size \in Int16s /\ f.format \in Int16s
    BY DEF Field, Names
  <1>2. PICK n \in Nat : n = Len(f.name)
    BY <1>1, TextIsBytes
  <1>3. PICK x0 \in Seq(Byte), table \in Seq(Byte), number \in Seq(Byte), oid \in Seq(Byte),
             size \in Seq(Byte), format \in Seq(Byte) :
          /\ x0 = AppendString(f.name) /\ table = Int32(0) /\ number = Int16(f.number)
          /\ oid = Int32(f.oid) /\ size = Int16(f.size) /\ format = Int16(f.format)
    <2>1. 0 \in Int31
      BY SmallNumbers, SMT
    <2> QED
      BY <1>1, <2>1, TextIsBytes, NumberIsBytes, Zenon
  <1>4. /\ Len(x0) = n + 1 /\ Len(table) = 4 /\ Len(number) = 2 /\ Len(oid) = 4
        /\ Len(size) = 2 /\ Len(format) = 2
    <2>1. 0 \in Int31
      BY SmallNumbers, SMT
    <2> QED
      BY <1>1, <1>2, <1>3, <2>1, TextIsBytes, NumberIsBytes, Zenon
  <1>5. PICK x1, x2, x3, x4, x5, x6 :
          /\ x1 = x0 \o table /\ x2 = x1 \o number /\ x3 = x2 \o oid /\ x4 = x3 \o size
          /\ x5 = x4 \o table /\ x6 = x5 \o format
    OBVIOUS
  <1>6. WriteRowField(f) = x6
    BY <1>3, <1>5, Zenon DEF WriteRowField
  <1>7. /\ Joined(x0, table, x1) /\ Joined(x1, number, x2) /\ Joined(x2, oid, x3)
        /\ Joined(x3, size, x4) /\ Joined(x4, table, x5) /\ Joined(x5, format, x6)
        /\ Len(x1) = n + 5 /\ Len(x2) = n + 7 /\ Len(x3) = n + 11
        /\ Len(x4) = n + 13 /\ Len(x5) = n + 17 /\ Len(x6) = n + 19 /\ x6 \in Seq(Byte)
    <2>1. Joined(x0, table, x1) /\ Len(x1) = n + 5 /\ x1 \in Seq(Byte)
      <3>1. Joined(x0, table, x1)
        BY <1>5, Zenon DEF Joined
      <3>2. x1 \in Seq(Byte) /\ Len(x1) = Len(x0) + Len(table)
        BY <3>1, JoinIsBytes, Zenon
      <3> QED
        BY <1>4, <3>1, <3>2
    <2>2. Joined(x1, number, x2) /\ Len(x2) = n + 7 /\ x2 \in Seq(Byte)
      <3>1. Joined(x1, number, x2)
        BY <1>5, <2>1, Zenon DEF Joined
      <3>2. x2 \in Seq(Byte) /\ Len(x2) = Len(x1) + Len(number)
        BY <3>1, JoinIsBytes, Zenon
      <3> QED
        BY <1>4, <2>1, <3>1, <3>2
    <2>3. Joined(x2, oid, x3) /\ Len(x3) = n + 11 /\ x3 \in Seq(Byte)
      <3>1. Joined(x2, oid, x3)
        BY <1>5, <2>2, Zenon DEF Joined
      <3>2. x3 \in Seq(Byte) /\ Len(x3) = Len(x2) + Len(oid)
        BY <3>1, JoinIsBytes, Zenon
      <3> QED
        BY <1>4, <2>2, <3>1, <3>2
    <2>4. Joined(x3, size, x4) /\ Len(x4) = n + 13 /\ x4 \in Seq(Byte)
      <3>1. Joined(x3, size, x4)
        BY <1>5, <2>3, Zenon DEF Joined
      <3>2. x4 \in Seq(Byte) /\ Len(x4) = Len(x3) + Len(size)
        BY <3>1, JoinIsBytes, Zenon
      <3> QED
        BY <1>4, <2>3, <3>1, <3>2
    <2>5. Joined(x4, table, x5) /\ Len(x5) = n + 17 /\ x5 \in Seq(Byte)
      <3>1. Joined(x4, table, x5)
        BY <1>5, <2>4, Zenon DEF Joined
      <3>2. x5 \in Seq(Byte) /\ Len(x5) = Len(x4) + Len(table)
        BY <3>1, JoinIsBytes, Zenon
      <3> QED
        BY <1>4, <2>4, <3>1, <3>2
    <2>6. Joined(x5, format, x6) /\ Len(x6) = n + 19 /\ x6 \in Seq(Byte)
      <3>1. Joined(x5, format, x6)
        BY <1>5, <2>5, Zenon DEF Joined
      <3>2. x6 \in Seq(Byte) /\ Len(x6) = Len(x5) + Len(format)
        BY <3>1, JoinIsBytes, Zenon
      <3> QED
        BY <1>4, <2>5, <3>1, <3>2
    <2> QED
      BY <2>1, <2>2, <2>3, <2>4, <2>5, <2>6, Zenon
  <1>8. ASSUME NEW b \in Seq(Byte), NEW p \in Place, Lies(b, p, x6)
        PROVE  ReadRowField(b, p) = Item(f, p + (n + 19))
    <2>1. PICK k \in Nat : k = p + n + 1
      BY DEF Place
    <2>2. /\ k + 4 = p + (n + 5) /\ k + 6 = p + (n + 7) /\ k + 10 = p + (n + 11)
          /\ k + 16 = p + (n + 17) /\ k + 18 = p + (n + 19)
      BY <2>1 DEF Place
    <2>3. Lies(b, p, x5) /\ Lies(b, p + Len(x5), format)
      BY <1>7, <1>8, LiesJoined, Zenon
    <2>4. Lies(b, p, x4)
      BY <1>7, <2>3, LiesJoined, Zenon
    <2>5. Lies(b, p, x3) /\ Lies(b, p + Len(x3), size)
      BY <1>7, <2>4, LiesJoined, Zenon
    <2>6. Lies(b, p, x2) /\ Lies(b, p + Len(x2), oid)
      BY <1>7, <2>5, LiesJoined, Zenon
    <2>7. Lies(b, p, x1) /\ Lies(b, p + Len(x1), number)
      BY <1>7, <2>6, LiesJoined, Zenon
    <2>8. Lies(b, p, x0)
      BY <1>7, <2>7, LiesJoined, Zenon
    <2>15. /\ Lies(b, k + 4, number) /\ Lies(b, k + 6, oid) /\ Lies(b, k + 10, size)
           /\ Lies(b, k + 16, format)
      BY <1>7, <2>2, <2>3, <2>5, <2>6, <2>7, Zenon
    <2>9. Text(b, p) = f.name /\ End(b, p) = p + n
      BY <1>1, <1>2, <1>3, <2>8, ReadsText, Zenon
    <2>10. k = End(b, p) + 1
      BY <2>1, <2>9
    <2>11. k + 4 \in Nat /\ k + 6 \in Nat /\ k + 10 \in Nat /\ k + 16 \in Nat
      BY SMT
    <2>12. /\ ReadInt16(b, k + 4) = f.number /\ ReadInt32(b, k + 6) = f.oid
           /\ ReadInt16(b, k + 10) = f.size /\ ReadInt16(b, k + 16) = f.format
      BY <1>1, <1>3, <2>15, <2>11, ReadsInt16, ReadsInt32, Zenon
    <2>13. ReadRowField(b, p)
             = Item([name |-> f.name, number |-> f.number, oid |-> f.oid, size |-> f.size,
                     format |-> f.format], k + 18)
      BY <2>9, <2>10, <2>12, Zenon DEF ReadRowField
    <2>14. f = [name |-> f.name, number |-> f.number, oid |-> f.oid, size |-> f.size,
                format |-> f.format]
      BY DEF Field
    <2> QED
      BY <2>2, <2>13, <2>14, Zenon
  <1> QED
    BY <1>2, <1>6, <1>7, <1>8, Zenon

\* What a column of a row can be: NULL, or some bytes.
Columns == {<<>>} \cup {<<x>> : x \in {y \in Seq(Byte) : Len(y) <= MaxInt16}}

LEMMA ColumnIsBytes ==
    ASSUME NEW column \in Columns
    PROVE  /\ WriteColumn(column) \in Seq(Byte) /\ Len(WriteColumn(column)) <= MaxPiece
           /\ \A b \in Seq(Byte) : \A p \in Place :
                 Lies(b, p, WriteColumn(column))
                    => ReadColumn(b, p) = Item(column, p + Len(WriteColumn(column)))
  <1>1. CASE column = <<>>
    <2>0. 4 <= MaxPiece
      BY SMT DEF MaxPiece
    <2>1. -1 \in Int31 /\ WriteColumn(column) = Int32(-1)
      BY <1>1, SmallNumbers, SMT DEF WriteColumn
    <2>2. WriteColumn(column) \in Seq(Byte) /\ Len(WriteColumn(column)) = 4
      BY <2>1, NumberIsBytes, Zenon
    <2>3. ASSUME NEW b \in Seq(Byte), NEW p \in Place, Lies(b, p, Int32(-1))
          PROVE  ReadColumn(b, p) = Item(<<>>, p + 4)
      <3>1. ReadInt32(b, p) = -1
        BY <2>1, <2>3, ReadsInt32, p \in Nat, Zenon DEF Place
      <3> QED
        BY <3>1 DEF ReadColumn
    <2> QED
      BY <1>1, <2>0, <2>1, <2>2, <2>3, Zenon
  <1>2. CASE column # <<>>
    <2>1. PICK x \in Seq(Byte) : column = <<x>> /\ Len(x) <= MaxInt16
      BY <1>2 DEF Columns
    <2>2. PICK n \in Nat : n = Len(x)
      OBVIOUS
    <2>3. n \in Int31 /\ n <= MaxInt16
      BY <2>1, <2>2, SmallNumbers, SMT DEF MaxInt16
    <2>4. WriteColumn(column) = Int32(n) \o x
      BY <1>2, <2>1, <2>2 DEF WriteColumn
    <2>5. Int32(n) \in Seq(Byte) /\ Len(Int32(n)) = 4
      BY <2>3, NumberIsBytes, Zenon
    <2>6. WriteColumn(column) \in Seq(Byte) /\ Len(WriteColumn(column)) = 4 + n
      <3>1. Joined(Int32(n), x, WriteColumn(column))
        BY <2>4, <2>5, Zenon DEF Joined
      <3> QED
        BY <2>2, <2>5, <3>1, JoinIsBytes, Zenon
    <2>7. ASSUME NEW b \in Seq(Byte), NEW p \in Place, Lies(b, p, Int32(n) \o x)
          PROVE  ReadColumn(b, p) = Item(column, p + (4 + n))
      <3>1. PICK q : q = p + 4
        OBVIOUS
      <3>2. Lies(b, p, Int32(n)) /\ Lies(b, q, x) /\ q \in Place
        <4>1. Joined(Int32(n), x, Int32(n) \o x)
          BY <2>5, Zenon DEF Joined
        <4> QED
          BY <2>5, <2>7, <3>1, <4>1, LiesJoined, Zenon
      <3>3. ReadInt32(b, p) = n
        BY <2>3, <3>2, ReadsInt32, p \in Nat, Zenon DEF Place
      <3>4. SubSeq(b, q, q + Len(x) - 1) = x
        BY <3>2, LiesCut, Zenon DEF Place
      <3>5. q + Len(x) - 1 = p + 3 + n /\ p + 4 + n = p + (4 + n) /\ ~(n < 0)
        BY <2>2, <3>1, SMT DEF Place
      <3>6. ReadColumn(b, p) = Item(<<SubSeq(b, p + 4, p + 3 + n)>>, p + 4 + n)
        BY <3>3, <3>5, Zenon DEF ReadColumn
      <3> QED
        BY <2>1, <3>1, <3>4, <3>5, <3>6, Zenon
    <2>8. 4 + n <= MaxPiece
      BY <2>3, SMT DEF MaxInt16, MaxPiece
    <2> QED
      BY <2>4, <2>6, <2>7, <2>8, Zenon
  <1> QED
    BY <1>1, <1>2, Zenon

\* A short head, and the place behind it.
Heads(head, at) == head \in Seq(Byte) /\ Len(head) <= 3 /\ at = 1 + Len(head)

\* Not too many byte sequences, none of them too long.
Pieces(s) ==
    /\ s \in Seq(Seq(Byte)) /\ Len(s) <= MaxInt16
    /\ \A i \in 1 .. Len(s) : Len(s[i]) <= MaxPiece

\* A count and the things that are counted.
LEMMA ReadsList ==
    ASSUME NEW head, NEW at, Heads(head, at), NEW s, Pieces(s),
           NEW b, Joined(head, FlattenSeq(s), b),
           NEW S, NEW things \in Seq(S), NEW item, Reads(b, item, s, things)
    PROVE  /\ b \in Seq(Byte) /\ Len(b) <= MaxInt32 - 4
           /\ Lies(b, 1, head) /\ ReadAll(item, Len(s), at) = things
  <1>1. FlattenSeq(s) \in Seq(Byte) /\ head \in Seq(Byte)
    BY Zenon DEF Joined
  <1>2. b \in Seq(Byte) /\ Len(b) = Len(head) + Len(FlattenSeq(s))
    BY JoinIsBytes, Zenon
  <1>3. Len(FlattenSeq(s)) <= MaxPiece * Len(s)
    BY FlattenLength, Zenon DEF Pieces
  <1>4. Len(b) <= MaxInt32 - 4
    <2>1. PICK n \in Nat, k \in Nat, l \in Nat :
            n = Len(s) /\ k = Len(head) /\ l = Len(FlattenSeq(s))
      BY <1>1, LenProperties, Zenon DEF Pieces
    <2>2. l <= 65535 * n /\ n <= 32767 /\ k <= 3
      BY <1>3, <2>1, SMT DEF MaxPiece, MaxInt16, Heads, Pieces
    <2>3. k + l <= 2147483643
      BY <2>2, SMT
    <2> QED
      BY <1>2, <2>1, <2>3, SMT DEF MaxInt32
  <1>5. Lies(b, 1, b)
    BY <1>2, LiesInFront, Zenon
  <1>6. Lies(b, 1, head) /\ Lies(b, at, FlattenSeq(s)) /\ at \in Place
    <2>1. 1 \in Place
      BY SMT DEF Place
    <2>3. 1 + Len(head) = at
      BY DEF Heads
    <2> QED
      BY <1>2, <1>5, <2>1, <2>3, LiesJoined, Zenon
  <1>7. ReadAll(item, Len(s), at) = things
    BY <1>2, <1>6, ReadsAll, Zenon DEF Pieces
  <1> QED
    BY <1>2, <1>4, <1>6, <1>7, Zenon

Writes(S, write) ==
    write \in [S -> Seq(Byte)] /\ \A x \in S : Len(write[x]) <= MaxPiece
ReadsWhat(b, S, write, item) ==
    b \in Seq(Byte) => \A x \in S : \A p \in Place :
        Lies(b, p, write[x]) => item[p] = Item(x, p + Len(write[x]))
Written(write, things, s) == s = [c \in DOMAIN things |-> write[things[c]]]
JoinedToAll(head, s, b)   == b = head \o FlattenSeq(s)

LEMMA ReadsCounted ==
    ASSUME NEW S, NEW things \in Seq(S), Len(things) <= MaxInt16,
           NEW write, Writes(S, write),
           NEW s, Written(write, things, s), NEW head, NEW at, Heads(head, at),
           NEW b, JoinedToAll(head, s, b),
           NEW item, ReadsWhat(b, S, write, item)
    PROVE  /\ b \in Seq(Byte) /\ Len(b) <= MaxInt32 - 4
           /\ Lies(b, 1, head) /\ ReadAll(item, Len(things), at) = things
  <1>0. PICK n \in Nat : n = Len(things)
    BY LenProperties
  <1>1. DOMAIN things = 1 .. n /\ \A i \in 1 .. n : things[i] \in S
    BY <1>0, LenProperties, ElementOfSeq
  <1>2. s \in Seq(Seq(Byte)) /\ Len(s) = n /\ \A i \in 1 .. n : s[i] = write[things[i]]
    BY <1>0, <1>1 DEF Written, Writes
  <1>3. \A i \in 1 .. n : Len(s[i]) <= MaxPiece
    BY <1>1, <1>2 DEF Writes
  <1>4. Joined(head, FlattenSeq(s), b)
    BY <1>2, FlattenTyped, Zenon DEF Joined, JoinedToAll, Heads
  <1>5. Reads(b, item, s, things)
    <2>1. b \in Seq(Byte)
      BY <1>4, JoinIsBytes, Zenon
    <2>2. ASSUME NEW i \in 1 .. n, NEW p \in Place, Lies(b, p, s[i])
          PROVE  item[p] = Item(things[i], p + Len(s[i]))
      <3>1. PICK x \in S : x = things[i] /\ s[i] = write[x]
        BY <1>1, <1>2, Zenon
      <3>2. item[p] = Item(x, p + Len(write[x]))
        BY <2>1, <2>2, <3>1, Zenon DEF ReadsWhat
      <3> QED
        BY <3>1, <3>2, Zenon
    <2> QED
      BY <1>0, <1>2, <2>2, Zenon DEF Reads
  <1>6. Pieces(s)
    BY <1>0, <1>2, <1>3 DEF Pieces
  <1>7. /\ b \in Seq(Byte) /\ Len(b) <= MaxInt32 - 4
        /\ Lies(b, 1, head) /\ ReadAll(item, Len(s), at) = things
    BY <1>4, <1>5, <1>6, ReadsList, SMT
  <1> QED
    BY <1>0, <1>2, <1>7

LEMMA CountIsRead ==
    ASSUME NEW S, NEW things \in Seq(S), Len(things) <= MaxInt16,
           NEW b \in Seq(Byte), NEW p \in Place, Lies(b, p, Int16(Len(things)))
    PROVE  ReadInt16(b, p) = Len(things)
  <1>1. PICK n \in Int16s : n = Len(things)
    <2>1. Len(things) \in Nat
      BY LenProperties
    <2> QED
      BY <2>1, Int16sAre, SMT
  <1>2. Lies(b, p, Int16(n))
    BY <1>1, Zenon
  <1> QED
    BY <1>1, <1>2, ReadsInt16, Zenon DEF Place

LEMMA CountIsBytes ==
    ASSUME NEW S, NEW things \in Seq(S), Len(things) <= MaxInt16
    PROVE  Int16(Len(things)) \in Seq(Byte) /\ Len(Int16(Len(things))) = 2
  <1>1. PICK n \in Int16s : n = Len(things)
    <2>1. Len(things) \in Nat
      BY LenProperties
    <2> QED
      BY <2>1, Int16sAre, SMT
  <1> QED
    BY <1>1, NumberIsBytes, Zenon

\* Bytes that are a payload, and what the client makes of them.
IsRead(type, b, body) ==
    b \in Seq(Byte) /\ Len(b) <= MaxInt32 - 4 /\ Decode(type, b) = body

LEMMA ListIsRead ==
    ASSUME NEW S, NEW things \in Seq(S), Len(things) <= MaxInt16,
           NEW write, Writes(S, write), NEW s, Written(write, things, s),
           NEW b, JoinedToAll(Int16(Len(things)), s, b),
           NEW item, ReadsWhat(b, S, write, item)
    PROVE  /\ b \in Seq(Byte) /\ Len(b) <= MaxInt32 - 4
           /\ ReadAll(item, ReadInt16(b, 1), 3) = things
  <1>1. PICK head : head = Int16(Len(things))
    OBVIOUS
  <1>2. Heads(head, 3)
    <2>1. head \in Seq(Byte) /\ Len(head) = 2
      BY <1>1, CountIsBytes, Zenon
    <2> QED
      BY <2>1 DEF Heads
  <1>3. JoinedToAll(head, s, b)
    BY <1>1, Zenon
  <1>4. /\ b \in Seq(Byte) /\ Len(b) <= MaxInt32 - 4
        /\ Lies(b, 1, head) /\ ReadAll(item, Len(things), 3) = things
    BY <1>2, <1>3, ReadsCounted, SMT
  <1>5. 1 \in Place
    BY DEF Place
  <1>6. ReadInt16(b, 1) = Len(things)
    BY <1>1, <1>4, <1>5, CountIsRead, Zenon
  <1> QED
    BY <1>4, <1>6, Zenon

LEMMA RowDescriptionIsRead ==
    ASSUME NEW fields \in Seq(Field), Len(fields) <= MaxInt16
    PROVE  IsRead("RowDescription", RowDescriptionBytes(fields), fields)
  <1>1. PICK write : write = [f \in Field |-> WriteRowField(f)]
    OBVIOUS
  <1>2. PICK s : s = [c \in DOMAIN fields |-> WriteRowField(fields[c])]
    OBVIOUS
  <1>3. PICK b : b = RowDescriptionBytes(fields)
    OBVIOUS
  <1>4. PICK item : item = [at \in Nat |-> ReadRowField(b, at)]
    OBVIOUS
  <1>5. JoinedToAll(Int16(Len(fields)), s, b)
    BY <1>2, <1>3, Zenon DEF RowDescriptionBytes, JoinedToAll
  <1>6. Writes(Field, write)
    <2>1. ASSUME NEW f \in Field
          PROVE  WriteRowField(f) \in Seq(Byte) /\ Len(WriteRowField(f)) <= MaxPiece
      <3>1. WriteRowField(f) \in Seq(Byte) /\ Len(WriteRowField(f)) = Len(f.name) + 19
        BY RowFieldIsBytes, Zenon
      <3>2. PICK n \in Nat : n = Len(f.name) /\ n <= MaxInt16
        BY LenProperties DEF Field, Names, Texts
      <3>3. n + 19 <= MaxPiece
        BY <3>2, SMT DEF MaxInt16, MaxPiece
      <3> QED
        BY <3>1, <3>2, <3>3, Zenon
    <2> QED
      BY <1>1, <2>1 DEF Writes
  <1>7. Written(write, fields, s)
    <2>1. \A c \in DOMAIN fields : fields[c] \in Field
      BY LenProperties, ElementOfSeq
    <2> QED
      BY <1>1, <1>2, <2>1 DEF Written
  <1>8. ReadsWhat(b, Field, write, item)
    <2> SUFFICES ASSUME b \in Seq(Byte), NEW f \in Field, NEW p \in Place,
                        Lies(b, p, write[f])
                 PROVE  item[p] = Item(f, p + Len(write[f]))
      BY DEF ReadsWhat
    <2>1. write[f] = WriteRowField(f) /\ item[p] = ReadRowField(b, p)
      BY <1>1, <1>4 DEF Place
    <2> QED
      BY <2>1, RowFieldIsBytes, Zenon
  <1>9. /\ b \in Seq(Byte) /\ Len(b) <= MaxInt32 - 4
        /\ ReadAll(item, ReadInt16(b, 1), 3) = fields
    BY <1>5, <1>6, <1>7, <1>8, ListIsRead, SMT
  <1> QED
    BY <1>3, <1>4, <1>9, DecodeIs, Zenon DEF IsRead

LEMMA DataRowIsRead ==
    ASSUME NEW columns \in Seq(Columns), Len(columns) <= MaxInt16
    PROVE  IsRead("DataRow", DataRowBytes(columns), columns)
  <1>1. PICK write : write = [c \in Columns |-> WriteColumn(c)]
    OBVIOUS
  <1>2. PICK s : s = [c \in DOMAIN columns |-> WriteColumn(columns[c])]
    OBVIOUS
  <1>3. PICK b : b = DataRowBytes(columns)
    OBVIOUS
  <1>4. PICK item : item = [at \in Nat |-> ReadColumn(b, at)]
    OBVIOUS
  <1>5. JoinedToAll(Int16(Len(columns)), s, b)
    BY <1>2, <1>3, Zenon DEF DataRowBytes, JoinedToAll
  <1>6. Writes(Columns, write)
    BY <1>1, ColumnIsBytes DEF Writes
  <1>7. Written(write, columns, s)
    <2>1. \A c \in DOMAIN columns : columns[c] \in Columns
      BY LenProperties, ElementOfSeq
    <2> QED
      BY <1>1, <1>2, <2>1 DEF Written
  <1>8. ReadsWhat(b, Columns, write, item)
    <2> SUFFICES ASSUME b \in Seq(Byte), NEW x \in Columns, NEW p \in Place,
                        Lies(b, p, write[x])
                 PROVE  item[p] = Item(x, p + Len(write[x]))
      BY DEF ReadsWhat
    <2>1. write[x] = WriteColumn(x) /\ item[p] = ReadColumn(b, p)
      BY <1>1, <1>4 DEF Place
    <2> QED
      BY <2>1, ColumnIsBytes, Zenon
  <1>9. /\ b \in Seq(Byte) /\ Len(b) <= MaxInt32 - 4
        /\ ReadAll(item, ReadInt16(b, 1), 3) = columns
    BY <1>5, <1>6, <1>7, <1>8, ListIsRead, SMT
  <1> QED
    BY <1>3, <1>4, <1>9, DecodeIs, Zenon DEF IsRead

LEMMA ParameterDescriptionIsRead ==
    ASSUME NEW ids \in Seq(Int31), Len(ids) <= MaxInt16
    PROVE  IsRead("ParameterDescription", ParameterDescriptionBytes(ids), ids)
  <1>1. PICK write : write = [id \in Int31 |-> Int32(id)]
    OBVIOUS
  <1>2. PICK s : s = [i \in DOMAIN ids |-> Int32(ids[i])]
    OBVIOUS
  <1>3. PICK b : b = ParameterDescriptionBytes(ids)
    OBVIOUS
  <1>4. PICK item : item = [at \in Nat |-> Item(ReadInt32(b, at), at + 4)]
    OBVIOUS
  <1>5. JoinedToAll(Int16(Len(ids)), s, b)
    BY <1>2, <1>3, Zenon DEF ParameterDescriptionBytes, JoinedToAll
  <1>6. Writes(Int31, write)
    <2>1. 4 <= MaxPiece
      BY SMT DEF MaxPiece
    <2>2. \A id \in Int31 : Int32(id) \in Seq(Byte) /\ Len(Int32(id)) = 4
      BY NumberIsBytes, Zenon
    <2> QED
      BY <1>1, <2>1, <2>2 DEF Writes
  <1>7. Written(write, ids, s)
    <2>1. \A i \in DOMAIN ids : ids[i] \in Int31
      BY LenProperties, ElementOfSeq
    <2> QED
      BY <1>1, <1>2, <2>1 DEF Written
  <1>8. ReadsWhat(b, Int31, write, item)
    <2> SUFFICES ASSUME b \in Seq(Byte), NEW x \in Int31, NEW p \in Place,
                        Lies(b, p, write[x])
                 PROVE  item[p] = Item(x, p + Len(write[x]))
      BY DEF ReadsWhat
    <2>1. write[x] = Int32(x) /\ item[p] = Item(ReadInt32(b, p), p + 4)
      BY <1>1, <1>4 DEF Place
    <2>2. Len(Int32(x)) = 4
      BY NumberIsBytes, Zenon
    <2> QED
      BY <2>1, <2>2, ReadsInt32, Zenon DEF Place
  <1>9. /\ b \in Seq(Byte) /\ Len(b) <= MaxInt32 - 4
        /\ ReadAll(item, ReadInt16(b, 1), 3) = ids
    BY <1>5, <1>6, <1>7, <1>8, ListIsRead, SMT
  <1> QED
    BY <1>3, <1>4, <1>9, DecodeIs, Zenon DEF IsRead

\* The format of the whole copy is one byte in front of the count.
LEMMA CopyInResponseIsRead ==
    ASSUME NEW codes \in Seq(Int16s), Len(codes) <= MaxInt16
    PROVE  IsRead("CopyInResponse", CopyInResponseBytes(codes), codes)
  <1>1. PICK write : write = [code \in Int16s |-> Int16(code)]
    OBVIOUS
  <1>2. PICK s : s = [c \in DOMAIN codes |-> Int16(codes[c])]
    OBVIOUS
  <1>3. PICK b : b = CopyInResponseBytes(codes)
    OBVIOUS
  <1>4. PICK item : item = [at \in Nat |-> Item(ReadInt16(b, at), at + 2)]
    OBVIOUS
  <1>5. PICK count, head : count = Int16(Len(codes)) /\ head = Int8(0) \o count
    OBVIOUS
  <1>6. JoinedToAll(head, s, b)
    BY <1>2, <1>3, <1>5, Zenon DEF CopyInResponseBytes, JoinedToAll
  <1>7. Int8(0) \in Seq(Byte) /\ Len(Int8(0)) = 1 /\ count \in Seq(Byte) /\ Len(count) = 2
    BY <1>5, CountIsBytes, IntBytes, 0 \in Int, 1 \in Nat, Zenon DEF Int8
  <1>8. Joined(Int8(0), count, head)
    BY <1>5, <1>7, Zenon DEF Joined
  <1>9. Heads(head, 4)
    <2>1. head \in Seq(Byte) /\ Len(head) = Len(Int8(0)) + Len(count)
      BY <1>8, JoinIsBytes, Zenon
    <2>2. Len(head) = 1 + 2
      BY <1>7, <2>1, Zenon
    <2>3. 1 + 2 = 3 /\ 3 <= 3 /\ 4 = 1 + 3
      OBVIOUS
    <2> QED
      BY <2>1, <2>2, <2>3, Zenon DEF Heads
  <1>10. Writes(Int16s, write)
    <2>1. 2 <= MaxPiece
      BY SMT DEF MaxPiece
    <2>2. \A code \in Int16s : Int16(code) \in Seq(Byte) /\ Len(Int16(code)) = 2
      BY NumberIsBytes, Zenon
    <2> QED
      BY <1>1, <2>1, <2>2 DEF Writes
  <1>11. Written(write, codes, s)
    <2>1. \A i \in DOMAIN codes : codes[i] \in Int16s
      BY LenProperties, ElementOfSeq
    <2> QED
      BY <1>1, <1>2, <2>1 DEF Written
  <1>12. ReadsWhat(b, Int16s, write, item)
    <2> SUFFICES ASSUME b \in Seq(Byte), NEW x \in Int16s, NEW p \in Place,
                        Lies(b, p, write[x])
                 PROVE  item[p] = Item(x, p + Len(write[x]))
      BY DEF ReadsWhat
    <2>1. write[x] = Int16(x) /\ item[p] = Item(ReadInt16(b, p), p + 2)
      BY <1>1, <1>4 DEF Place
    <2>2. Len(Int16(x)) = 2
      BY NumberIsBytes, Zenon
    <2> QED
      BY <2>1, <2>2, ReadsInt16, Zenon DEF Place
  <1>13. /\ b \in Seq(Byte) /\ Len(b) <= MaxInt32 - 4
         /\ Lies(b, 1, head) /\ ReadAll(item, Len(codes), 4) = codes
    BY <1>6, <1>9, <1>10, <1>11, <1>12, ReadsCounted, SMT
  <1>14. ReadInt16(b, 2) = Len(codes)
    <2>1. 1 \in Place /\ 2 \in Place /\ 1 + 1 = 2
      BY DEF Place
    <2>2. Lies(b, 2, count)
      BY <1>7, <1>8, <1>13, <2>1, LiesJoined, Zenon
    <2> QED
      BY <1>5, <1>13, <2>1, <2>2, CountIsRead, Zenon
  <1> QED
    BY <1>3, <1>4, <1>13, <1>14, DecodeIs, Zenon DEF IsRead

LEMMA ByteIsRead ==
    ASSUME NEW x \in Byte
    PROVE  /\ <<x>> \in Seq(Byte) /\ Len(<<x>>) = 1
           /\ \A b \in Seq(Byte) : \A p \in Place : Lies(b, p, <<x>>) => ReadByte(b, p) = x
  <1>1. <<x>> \in Seq(Byte) /\ Len(<<x>>) = 1 /\ <<x>>[1] = x
    OBVIOUS
  <1>2. ASSUME NEW b \in Seq(Byte), NEW p \in Place, Lies(b, p, <<x>>)
        PROVE  ReadByte(b, p) = x
    <2>1. PICK y : y = <<x>> /\ Len(y) = 1 /\ y[1] = x
      BY <1>1
    <2>2. p \in Nat /\ p + 1 - 1 = p /\ Len(b) \in Nat
      BY LenProperties DEF Place
    <2>3. p <= Len(b) /\ b[p] = x
      BY <1>2, <2>1, <2>2 DEF Lies
    <2>4. ~(p > Len(b))
      BY <2>2, <2>3
    <2> QED
      BY <2>3, <2>4, Zenon DEF ReadByte
  <1> QED
    BY <1>1, <1>2, Zenon

LEMMA Short ==
    ASSUME NEW n \in Nat, n <= 100000
    PROVE  n <= MaxInt32 - 4
  BY SMT DEF MaxInt32

LEMMA LiesWhole ==
    ASSUME NEW b \in Seq(Byte)
    PROVE  Lies(b, 1, b) /\ 1 \in Place
  BY LiesInFront DEF Place

\* An error response without a field is its terminator.
LEMMA ErrorResponseIsRead ==
    ASSUME NEW fields \in {<<>>} \cup {<<t>> : t \in Names}
    PROVE  IsRead("ErrorResponse", ErrorResponseBytes(fields), fields)
  <1>0. 0 \in Byte /\ MessageError \in Byte /\ MessageError # 0
    BY DEF Byte, MessageError
  <1>1. CASE fields = <<>>
    <2>1. [i \in DOMAIN fields |-> <<MessageError>> \o AppendString(fields[i])] = <<>>
      BY <1>1
    <2>2. ErrorResponseBytes(fields) = <<>> \o <<0>>
      BY <2>1, FlattenEmpty, Zenon DEF ErrorResponseBytes
    <2>3. PICK b : b = <<0>>
      OBVIOUS
    <2>4. b \in Seq(Byte) /\ Len(b) = 1 /\ ErrorResponseBytes(fields) = b
      BY <1>0, <2>2, <2>3, ByteIsRead, ConcatEmptySeq, Zenon
    <2>5. ReadByte(b, 1) = 0
      BY <1>0, <2>3, <2>4, LiesWhole, ByteIsRead, Zenon
    <2>6. Decode("ErrorResponse", b) = <<>>
      BY <1>0, <2>5, DecodeIs, Zenon
    <2>7. Len(b) <= MaxInt32 - 4
      BY <2>4, Short, 1 \in Nat /\ 1 <= 100000
    <2> QED
      BY <1>1, <2>4, <2>6, <2>7, Zenon DEF IsRead
  <1>2. CASE fields # <<>>
    <2>1. PICK t \in Names : fields = <<t>>
      BY <1>2
    <2>2. t \in Texts /\ Len(t) <= MaxInt16
      BY DEF Names
    <2>3. PICK text, x, b : text = AppendString(t) /\ x = <<MessageError>> \o text /\ b = x \o <<0>>
      OBVIOUS
    <2>4. text \in Seq(Byte) /\ Len(text) = Len(t) + 1 /\ Len(t) \in Nat
      BY <2>2, <2>3, TextIsBytes, Zenon
    <2>5. Joined(<<MessageError>>, text, x) /\ x \in Seq(Byte)
      BY <1>0, <2>3, <2>4, ByteIsRead, JoinIsBytes, Zenon DEF Joined
    <2>6. Joined(x, <<0>>, b) /\ b \in Seq(Byte)
      BY <1>0, <2>3, <2>5, ByteIsRead, JoinIsBytes, Zenon DEF Joined
    <2>7. Len(x) = 1 + Len(text) /\ Len(b) = Len(x) + 1
      BY <1>0, <2>5, <2>6, ByteIsRead, JoinIsBytes, Zenon
    <2>8. ErrorResponseBytes(fields) = b
      <3>1. [i \in DOMAIN fields |-> <<MessageError>> \o AppendString(fields[i])] = Append(<<>>, x)
        <4>1. DOMAIN fields = {1} /\ fields[1] = t
          BY <2>1
        <4>2. PICK y : y = <<MessageError>> \o AppendString(fields[1])
          OBVIOUS
        <4>3. [i \in DOMAIN fields |-> <<MessageError>> \o AppendString(fields[i])]
                = [i \in {1} |-> y]
          BY <4>1, <4>2
        <4>4. [i \in {1} |-> y] = Append(<<>>, y)
          OBVIOUS
        <4>5. y = x
          BY <2>3, <4>1, <4>2, Zenon
        <4> QED
          BY <4>3, <4>4, <4>5
      <3>2. FlattenSeq(Append(<<>>, x)) = <<>> \o x
        BY <2>5, FlattenAppend, FlattenEmpty, <<>> \in Seq(Seq(Byte)), Zenon
      <3>3. <<>> \o x = x
        BY <2>5, ConcatEmptySeq, Zenon
      <3> QED
        BY <2>3, <3>1, <3>2, <3>3, Zenon DEF ErrorResponseBytes
    <2>9. Lies(b, 1, <<MessageError>>) /\ Lies(b, 1 + 1, text) /\ 1 + 1 \in Place
      <3>1. Lies(b, 1, x) /\ 1 \in Place
        BY <2>6, LiesWhole, LiesJoined, Zenon
      <3>2. Len(<<MessageError>>) = 1
        BY <1>0, ByteIsRead, Zenon
      <3> QED
        BY <2>5, <2>6, <3>1, <3>2, LiesJoined, Zenon
    <2>10. ReadByte(b, 1) = MessageError
      BY <1>0, <2>6, <2>9, LiesWhole, ByteIsRead, Zenon
    <2>11. Text(b, 2) = t
      <3>1. 1 + 1 = 2
        OBVIOUS
      <3> QED
        BY <2>2, <2>3, <2>6, <2>9, <3>1, ReadsText, Zenon
    <2>12. Decode("ErrorResponse", b) = fields
      BY <2>1, <2>10, <2>11, DecodeIs, Zenon
    <2>13. Len(b) <= MaxInt32 - 4
      BY <2>2, <2>4, <2>7, SMT DEF MaxInt16, MaxInt32
    <2> QED
      BY <2>6, <2>8, <2>12, <2>13, Zenon DEF IsRead
  <1> QED
    BY <1>1, <1>2, Zenon

LEMMA ParameterStatusIsRead ==
    ASSUME NEW t \in Names, NEW u \in Names
    PROVE  IsRead("ParameterStatus", ParameterStatusBytes(<<t, u>>), <<t, u>>)
  <1>1. t \in Texts /\ Len(t) <= MaxInt16 /\ u \in Texts /\ Len(u) <= MaxInt16
    BY DEF Names
  <1>2. PICK x, y, b : x = AppendString(t) /\ y = AppendString(u) /\ b = x \o y
    OBVIOUS
  <1>3. /\ x \in Seq(Byte) /\ Len(x) = Len(t) + 1 /\ Len(t) \in Nat
        /\ y \in Seq(Byte) /\ Len(y) = Len(u) + 1 /\ Len(u) \in Nat
    BY <1>1, <1>2, TextIsBytes, Zenon
  <1>4. Joined(x, y, b)
    BY <1>2, <1>3, Zenon DEF Joined
  <1>5. b \in Seq(Byte) /\ Len(b) = Len(x) + Len(y)
    BY <1>4, JoinIsBytes, Zenon
  <1>6. Len(b) <= MaxInt32 - 4
    BY <1>1, <1>3, <1>5, SMT DEF MaxInt16, MaxInt32
  <1>7. ParameterStatusBytes(<<t, u>>) = b
    BY <1>2 DEF ParameterStatusBytes
  <1>8. Lies(b, 1, x) /\ Lies(b, 1 + Len(x), y) /\ 1 \in Place /\ 1 + Len(x) \in Place
    BY <1>4, <1>5, LiesWhole, LiesJoined, Zenon
  <1>9. Text(b, 1) = t /\ End(b, 1) = 1 + Len(t)
    BY <1>1, <1>2, <1>5, <1>8, ReadsText, Zenon
  <1>10. Text(b, 1 + Len(x)) = u
    BY <1>1, <1>2, <1>5, <1>8, ReadsText, Zenon
  <1>11. End(b, 1) + 1 = 1 + Len(x)
    BY <1>3, <1>9
  <1>12. Decode("ParameterStatus", b) = <<Text(b, 1), Text(b, End(b, 1) + 1)>>
    BY DecodeIs, Zenon
  <1>13. Decode("ParameterStatus", b) = <<t, u>>
    BY <1>9, <1>10, <1>11, <1>12, Zenon
  <1> QED
    BY <1>5, <1>6, <1>7, <1>13, Zenon DEF IsRead

LEMMA BackendKeyDataIsRead ==
    ASSUME NEW i \in Int31, NEW j \in Int31
    PROVE  IsRead("BackendKeyData", BackendKeyDataBytes(<<i, j>>), <<i, j>>)
  <1>1. PICK x, y, b : x = Int32(i) /\ y = Int32(j) /\ b = x \o y
    OBVIOUS
  <1>2. x \in Seq(Byte) /\ Len(x) = 4 /\ y \in Seq(Byte) /\ Len(y) = 4
    BY <1>1, NumberIsBytes, Zenon
  <1>3. Joined(x, y, b)
    BY <1>1, <1>2, Zenon DEF Joined
  <1>4. b \in Seq(Byte) /\ Len(b) = Len(x) + Len(y)
    BY <1>3, JoinIsBytes, Zenon
  <1>5. Len(b) <= MaxInt32 - 4
    BY <1>2, <1>4, SMT DEF MaxInt32
  <1>6. BackendKeyDataBytes(<<i, j>>) = b
    BY <1>1 DEF BackendKeyDataBytes
  <1>7. 1 + Len(x) = 5
    BY <1>2
  <1>8. Lies(b, 1, x) /\ Lies(b, 5, y) /\ 1 \in Nat /\ 5 \in Nat
    BY <1>3, <1>4, <1>7, LiesWhole, LiesJoined, Zenon DEF Place
  <1>9. ReadInt32(b, 1) = i /\ ReadInt32(b, 5) = j
    BY <1>1, <1>4, <1>8, ReadsInt32, Zenon
  <1> QED
    BY <1>4, <1>5, <1>6, <1>9, DecodeIs, Zenon DEF IsRead

LEMMA AuthenticationIsRead ==
    ASSUME NEW i \in Int31
    PROVE  IsRead("Authentication", Int32(i), i)
  <1>1. Int32(i) \in Seq(Byte) /\ Len(Int32(i)) = 4 /\ 1 \in Nat
    BY NumberIsBytes, Zenon
  <1>2. Len(Int32(i)) <= MaxInt32 - 4
    BY <1>1, SMT DEF MaxInt32
  <1>3. ReadInt32(Int32(i), 1) = i
    BY <1>1, LiesWhole, ReadsInt32, Zenon
  <1> QED
    BY <1>1, <1>2, <1>3, DecodeIs, Zenon DEF IsRead

LEMMA ReadyForQueryIsRead ==
    ASSUME NEW x \in Byte
    PROVE  IsRead("ReadyForQuery", <<x>>, x)
  <1>1. <<x>> \in Seq(Byte) /\ Len(<<x>>) = 1
    BY ByteIsRead, Zenon
  <1>2. Len(<<x>>) <= MaxInt32 - 4
    BY <1>1, SMT DEF MaxInt32
  <1>3. ReadByte(<<x>>, 1) = x
    BY <1>1, LiesWhole, ByteIsRead, Zenon
  <1> QED
    BY <1>1, <1>2, <1>3, DecodeIs, Zenon DEF IsRead

Plains == {"NoData", "ParseComplete", "BindComplete", "CloseComplete"}

LEMMA PlainIsRead ==
    ASSUME NEW type \in Plains
    PROVE  IsRead(type, <<>>, <<>>)
  <1>1. <<>> \in Seq(Byte) /\ Len(<<>>) = 0 /\ 0 <= MaxInt32 - 4
    BY SMT DEF MaxInt32
  <1> QED
    BY <1>1, DecodeIs, Zenon DEF IsRead, Plains

-----------------------------------------------------------------------------
(***************************************************************************)
(* Decimal numbers, and the tags they end.                                 *)
(***************************************************************************)
LEMMA PowerIs ==
    /\ Power[1] = 1 /\ Power[2] = 10 /\ Power[3] = 100 /\ Power[4] = 1000
    /\ Power[5] = 10000 /\ Power[6] = 100000 /\ Power[7] = 1000000
    /\ Power[8] = 10000000 /\ Power[9] = 100000000 /\ Power[10] = 1000000000
  BY SMT DEF Power

\* A number without its last j - 1 digits.
Upper(n, j) == n \div Power[j]

LEMMA UpperIs ==
    ASSUME NEW n \in 0 .. MaxInt32
    PROVE  /\ \A j \in 1 .. 10 : Upper(n, j) \in Nat
           /\ \A j \in 1 .. 9 : Upper(n, j) = 10 * Upper(n, j + 1) + (Upper(n, j) % 10)
           /\ Upper(n, 1) = n /\ Upper(n, 10) < 10
           /\ \A j \in 1 .. 9 : n < Power[j + 1] => Upper(n, j) < 10
  <1>0. n \in Nat /\ n <= 2147483647
    <2>1. n \in Nat /\ n <= MaxInt32
      BY Int31sAre, SMT
    <2> QED
      BY <2>1, Limits, SMT
  <1>1. /\ Upper(n, 1) = n /\ Upper(n, 2) = n \div 10 /\ Upper(n, 3) = n \div 100
        /\ Upper(n, 4) = n \div 1000 /\ Upper(n, 5) = n \div 10000
        /\ Upper(n, 6) = n \div 100000 /\ Upper(n, 7) = n \div 1000000
        /\ Upper(n, 8) = n \div 10000000 /\ Upper(n, 9) = n \div 100000000
        /\ Upper(n, 10) = n \div 1000000000
    BY <1>0, PowerIs, SMT DEF Upper
  <1>2. \A j \in 1 .. 10 : Upper(n, j) \in Nat
    <2> SUFFICES ASSUME NEW j \in 1 .. 10 PROVE Upper(n, j) \in Nat
      OBVIOUS
    <2>1. \/ j = 1 \/ j = 2 \/ j = 3 \/ j = 4 \/ j = 5 \/ j = 6 \/ j = 7 \/ j = 8 \/ j = 9
          \/ j = 10
      BY SMT
    <2> QED
      BY <1>0, <1>1, <2>1, SMT
  <1>3. Upper(n, 10) < 10
    BY <1>0, <1>1, SMT
  <1>4. /\ n = 10 * (n \div 10) + (n % 10)
        /\ n \div 10 = 10 * (n \div 100) + ((n \div 10) % 10)
        /\ n \div 100 = 10 * (n \div 1000) + ((n \div 100) % 10)
        /\ n \div 1000 = 10 * (n \div 10000) + ((n \div 1000) % 10)
        /\ n \div 10000 = 10 * (n \div 100000) + ((n \div 10000) % 10)
    BY <1>0, SMT
  <1>5. /\ n \div 100000 = 10 * (n \div 1000000) + ((n \div 100000) % 10)
        /\ n \div 1000000 = 10 * (n \div 10000000) + ((n \div 1000000) % 10)
        /\ n \div 10000000 = 10 * (n \div 100000000) + ((n \div 10000000) % 10)
        /\ n \div 100000000 = 10 * (n \div 1000000000) + ((n \div 100000000) % 10)
    BY <1>0, SMT
  <1>6. \A j \in 1 .. 9 : Upper(n, j) = 10 * Upper(n, j + 1) + (Upper(n, j) % 10)
    <2> SUFFICES ASSUME NEW j \in 1 .. 9
                 PROVE  Upper(n, j) = 10 * Upper(n, j + 1) + (Upper(n, j) % 10)
      OBVIOUS
    <2>1. \/ j = 1 \/ j = 2 \/ j = 3 \/ j = 4 \/ j = 5 \/ j = 6 \/ j = 7 \/ j = 8 \/ j = 9
      BY SMT
    <2> HIDE <1>4, <1>5
    <2>2. CASE j = 1
      <3>1. j + 1 = 2
        BY <2>2, SMT
      <3> QED
        BY <1>1, <1>4, <2>2, <3>1, SMT
    <2>3. CASE j = 2
      <3>1. j + 1 = 3
        BY <2>3, SMT
      <3> QED
        BY <1>1, <1>4, <2>3, <3>1, SMT
    <2>4. CASE j = 3
      <3>1. j + 1 = 4
        BY <2>4, SMT
      <3> QED
        BY <1>1, <1>4, <2>4, <3>1, SMT
    <2>5. CASE j = 4
      <3>1. j + 1 = 5
        BY <2>5, SMT
      <3> QED
        BY <1>1, <1>4, <2>5, <3>1, SMT
    <2>6. CASE j = 5
      <3>1. j + 1 = 6
        BY <2>6, SMT
      <3> QED
        BY <1>1, <1>4, <2>6, <3>1, SMT
    <2>7. CASE j = 6
      <3>1. j + 1 = 7
        BY <2>7, SMT
      <3> QED
        BY <1>1, <1>5, <2>7, <3>1, SMT
    <2>8. CASE j = 7
      <3>1. j + 1 = 8
        BY <2>8, SMT
      <3> QED
        BY <1>1, <1>5, <2>8, <3>1, SMT
    <2>9. CASE j = 8
      <3>1. j + 1 = 9
        BY <2>9, SMT
      <3> QED
        BY <1>1, <1>5, <2>9, <3>1, SMT
    <2>10. CASE j = 9
      <3>1. j + 1 = 10
        BY <2>10, SMT
      <3> QED
        BY <1>1, <1>5, <2>10, <3>1, SMT
    <2> QED
      BY <2>1, <2>2, <2>3, <2>4, <2>5, <2>6, <2>7, <2>8, <2>9, <2>10, SMT
  <1>7. \A j \in 1 .. 9 : n < Power[j + 1] => Upper(n, j) < 10
    <2> SUFFICES ASSUME NEW j \in 1 .. 9, n < Power[j + 1] PROVE Upper(n, j) < 10
      OBVIOUS
    <2>1. \/ j = 1 \/ j = 2 \/ j = 3 \/ j = 4 \/ j = 5 \/ j = 6 \/ j = 7 \/ j = 8 \/ j = 9
      BY SMT
    <2> QED
      BY <1>0, <1>1, <2>1, PowerIs, SMT
  <1> QED
    BY <1>1, <1>2, <1>3, <1>6, <1>7

LEMMA DigitCountIs ==
    ASSUME NEW n \in 0 .. MaxInt32
    PROVE  DigitCount(n) \in 1 .. 10 /\ (DigitCount(n) < 10 => n < Power[DigitCount(n) + 1])
  <1> DEFINE Fits(k) == (k < 10 => n < Power[k + 1]) /\ (k > 1 => n >= Power[k])
  <1>0. n \in Nat
    OBVIOUS
  <1>1. \E k \in 1 .. 10 : Fits(k)
    <2>1. CASE n < 10
      <3>1. Fits(1)
        BY <1>0, <2>1, PowerIs
      <3> QED
        BY <3>1
    <2>2. CASE n >= 10 /\ n < 100
      <3>1. Fits(2)
        BY <1>0, <2>2, PowerIs
      <3> QED
        BY <3>1
    <2>3. CASE n >= 100 /\ n < 1000
      <3>1. Fits(3)
        BY <1>0, <2>3, PowerIs
      <3> QED
        BY <3>1
    <2>4. CASE n >= 1000 /\ n < 10000
      <3>1. Fits(4)
        BY <1>0, <2>4, PowerIs, SMT
      <3> QED
        BY <3>1
    <2>5. CASE n >= 10000 /\ n < 100000
      <3>1. Fits(5)
        BY <1>0, <2>5, PowerIs, SMT
      <3> QED
        BY <3>1, SMT
    <2>6. CASE n >= 100000 /\ n < 1000000
      <3>1. Fits(6)
        BY <1>0, <2>6, PowerIs, SMT
      <3> QED
        BY <3>1, SMT
    <2>7. CASE n >= 1000000 /\ n < 10000000
      <3>1. Fits(7)
        BY <1>0, <2>7, PowerIs, SMT
      <3> QED
        BY <3>1, SMT
    <2>8. CASE n >= 10000000 /\ n < 100000000
      <3>1. Fits(8)
        BY <1>0, <2>8, PowerIs, SMT
      <3> QED
        BY <3>1, SMT
    <2>9. CASE n >= 100000000 /\ n < 1000000000
      <3>1. Fits(9)
        BY <1>0, <2>9, PowerIs, SMT
      <3> QED
        BY <3>1, SMT
    <2>10. CASE n >= 1000000000
      <3>1. Fits(10)
        BY <1>0, <2>10, PowerIs, SMT
      <3> QED
        BY <3>1, SMT
    <2> HIDE DEF Fits
    <2> QED
      BY <1>0, <2>1, <2>2, <2>3, <2>4, <2>5, <2>6, <2>7, <2>8, <2>9, <2>10, SMT
  <1>2. DigitCount(n) = CHOOSE k \in 1 .. 10 : Fits(k)
    BY DEF DigitCount
  <1>3. DigitCount(n) \in 1 .. 10 /\ Fits(DigitCount(n))
    <2> HIDE DEF Fits
    <2> QED
      BY <1>1, <1>2
  <1> QED
    BY <1>3

LEMMA NatDigitsAre ==
    ASSUME NEW n \in 0 .. MaxInt32
    PROVE  /\ NatDigits(n) \in Seq(DigitBytes) /\ Len(NatDigits(n)) = DigitCount(n)
           /\ \A i \in 1 .. DigitCount(n) :
                 NatDigits(n)[i] = 48 + (Upper(n, DigitCount(n) + 1 - i) % 10)
  <1>1. PICK k \in 1 .. 10 : k = DigitCount(n)
    BY DigitCountIs
  <1>2. NatDigits(n) = [i \in 1 .. k |-> 48 + (Upper(n, k + 1 - i) % 10)]
    BY <1>1, Zenon DEF NatDigits, Upper
  <1>3. ASSUME NEW i \in 1 .. k PROVE 48 + (Upper(n, k + 1 - i) % 10) \in DigitBytes
    <2>1. k + 1 - i \in 1 .. 10
      BY <1>1
    <2>2. PICK u \in Nat : u = Upper(n, k + 1 - i)
      BY <2>1, UpperIs
    <2>3. 48 + (u % 10) \in DigitBytes
      BY SMT DEF DigitBytes
    <2> QED
      BY <2>2, <2>3
  <1>4. k \in Nat
    OBVIOUS
  <1> QED
    BY <1>1, <1>2, <1>3, <1>4

LEMMA DigitsAre ==
    ASSUME NEW n \in Int31
    PROVE  Digits(n) \in Seq(Byte) /\ Len(Digits(n)) <= MaxInt16
  <1>0. n \in Int /\ n <= MaxInt32 /\ -n <= MaxInt32
    BY Int31sAre, SMT
  <1>1. ASSUME NEW m \in 0 .. MaxInt32
        PROVE  /\ NatDigits(m) \in Seq(Byte)
               /\ Len(NatDigits(m)) \in Nat /\ Len(NatDigits(m)) <= 10
    <2>1. DigitBytes \subseteq Byte
      BY DEF DigitBytes, Byte
    <2>2. NatDigits(m) \in Seq(Byte)
      BY <2>1, NatDigitsAre, SeqMonotonic, Zenon
    <2>3. PICK k \in 1 .. 10 : k = Len(NatDigits(m))
      BY NatDigitsAre, DigitCountIs
    <2>4. k \in Nat /\ k <= 10
      OBVIOUS
    <2> QED
      BY <2>2, <2>3, <2>4, Zenon
  <1>2. CASE n < 0
    <2>1. -n \in 0 .. MaxInt32
      BY <1>0, <1>2, Int31sAre, SMT
    <2>2. PICK d \in Seq(Byte) : d = NatDigits(-n) /\ Len(d) \in Nat /\ Len(d) <= 10
      BY <1>1, <2>1
    <2>3. Minus \in Byte
      BY DEF Minus, Byte
    <2>4. <<Minus>> \in Seq(Byte) /\ Len(<<Minus>>) = 1
      BY <2>3, ByteIsRead, Zenon
    <2>5. <<Minus>> \o d \in Seq(Byte) /\ Len(<<Minus>> \o d) = 1 + Len(d)
      BY <2>4, ConcatProperties, Zenon
    <2>6. Digits(n) = <<Minus>> \o d
      BY <1>2, <2>2, Zenon DEF Digits
    <2>7. 1 + Len(d) <= MaxInt16
      BY <2>2, SMT DEF MaxInt16
    <2> QED
      BY <2>5, <2>6, <2>7, Zenon
  <1>3. CASE ~(n < 0)
    <2>1. n \in 0 .. MaxInt32
      BY <1>0, <1>3, Int31sAre, SMT
    <2>2. Digits(n) = NatDigits(n)
      BY <1>3, Zenon DEF Digits
    <2>3. Len(NatDigits(n)) <= MaxInt16
      BY <1>1, <2>1, SMT DEF MaxInt16
    <2> QED
      BY <1>1, <2>1, <2>2, <2>3, Zenon
  <1> QED
    BY <1>2, <1>3, Zenon

\* The digits of a number are read as the number.
LEMMA ReadsDecimal ==
    ASSUME NEW n \in 0 .. MaxInt32
    PROVE  ReadDecimal(NatDigits(n)) = n
  <1>1. PICK k \in 1 .. 10 : k = DigitCount(n) /\ (k < 10 => n < Power[k + 1])
    BY DigitCountIs
  <1>2. PICK d : d = NatDigits(n)
    OBVIOUS
  <1>3. Len(d) = k /\ \A i \in 1 .. k : d[i] - 48 = Upper(n, k + 1 - i) % 10
    <2>1. Len(d) = k /\ \A i \in 1 .. k : d[i] = 48 + (Upper(n, k + 1 - i) % 10)
      BY <1>1, <1>2, NatDigitsAre
    <2>2. ASSUME NEW i \in 1 .. k PROVE d[i] - 48 = Upper(n, k + 1 - i) % 10
      <3>1. k + 1 - i \in 1 .. 10
        OBVIOUS
      <3>2. PICK u \in Nat : u = Upper(n, k + 1 - i)
        BY <3>1, UpperIs
      <3>3. d[i] = 48 + (u % 10)
        BY <2>1, <3>2
      <3>4. (48 + (u % 10)) - 48 = u % 10
        BY SMT
      <3> QED
        BY <3>2, <3>3, <3>4, Zenon
    <2> QED
      BY <2>1, <2>2
  <1> DEFINE Turn(g, i) == IF i = 0 THEN 0 ELSE 10 * g[i - 1] + (d[i] - 48)
             State(i) == IF i = 0 THEN 0 ELSE Upper(n, k + 1 - i)
  <1>4. \A g : Turn(g, 0) = State(0)
    OBVIOUS
  <1>5. ASSUME NEW i \in 1 .. k, NEW g, g[i - 1] = State(i - 1) PROVE Turn(g, i) = State(i)
    <2>1. Turn(g, i) = 10 * State(i - 1) + (Upper(n, k + 1 - i) % 10)
      BY <1>3, <1>5
    <2>2. State(i) = Upper(n, k + 1 - i)
      OBVIOUS
    <2>3. CASE i = 1
      <3>1. State(i - 1) = 0 /\ k + 1 - i = k
        BY <2>3
      <3>2. PICK u \in Nat : u = Upper(n, k)
        BY UpperIs
      <3>3. u < 10
        <4>1. CASE k = 10
          BY <3>2, <4>1, UpperIs
        <4>2. CASE k # 10
          BY <1>1, <3>2, <4>2, UpperIs
        <4> QED
          BY <4>1, <4>2
      <3>4. 10 * 0 + (u % 10) = u
        BY <3>3, SMT
      <3> HIDE DEF Turn, State
      <3> QED
        BY <2>1, <2>2, <3>1, <3>2, <3>4, Zenon
    <2>4. CASE i # 1
      <3>1. PICK j \in 1 .. 9 : j = k + 1 - i /\ j + 1 = k + 1 - (i - 1)
        BY <2>4
      <3>2. State(i - 1) = Upper(n, j + 1)
        BY <2>4, <3>1
      <3>3. Upper(n, j) = 10 * Upper(n, j + 1) + (Upper(n, j) % 10)
        BY UpperIs, Zenon
      <3> HIDE DEF Turn, State
      <3> QED
        BY <2>1, <2>2, <3>1, <3>2, <3>3, Zenon
    <2> QED
      BY <2>3, <2>4, Zenon
  <1>6. PICK w : w = [i \in 0 .. k |-> State(i)]
    OBVIOUS
  <1>7. w = [i \in 0 .. k |-> Turn(w, i)]
    <2> HIDE DEF Turn, State
    <2>1. ASSUME NEW i \in 0 .. k PROVE w[i] = Turn(w, i)
      <3>1. CASE i = 0
        BY <1>4, <1>6, <3>1
      <3>2. CASE i # 0
        <4>1. i \in 1 .. k /\ i - 1 \in 0 .. k
          BY <3>2
        <4> QED
          BY <1>5, <1>6, <4>1
      <3> QED
        BY <3>1, <3>2
    <2> QED
      BY <1>6, <2>1
  <1>8. PICK value : /\ value = [i \in 0 .. k |-> Turn(value, i)]
                     /\ ReadDecimal(d) = value[k]
    <2> DEFINE all == CHOOSE g : g = [i \in 0 .. k |-> Turn(g, i)]
    <2>1. all = [i \in 0 .. k |-> Turn(all, i)]
      <3> HIDE DEF Turn
      <3> QED
        BY <1>7
    <2>2. ReadDecimal(d) = all[k]
      BY <1>3 DEF ReadDecimal
    <2> QED
      BY <2>1, <2>2
  <1>9. \A i \in 0 .. k : value[i] = Turn(value, i)
    <2> HIDE DEF Turn, State
    <2>1. PICK r : r = value
      OBVIOUS
    <2>2. r = [i \in 0 .. k |-> Turn(r, i)]
      BY <1>8, <2>1, Zenon
    <2>3. \A i \in 0 .. k : r[i] = Turn(r, i)
      BY <2>2
    <2> QED
      BY <2>1, <2>3, Zenon
  <1> DEFINE T == {i \in 0 .. k : value[i] = State(i)}
  <1>10. 0 \in T
    <2>1. value[0] = Turn(value, 0) /\ 0 \in 0 .. k
      <3> HIDE DEF Turn
      <3> QED
        BY <1>9
    <2> HIDE DEF Turn, State
    <2> QED
      BY <1>4, <2>1
  <1>11. ASSUME NEW i \in 1 .. k, i - 1 \in T PROVE i \in T
    <2> HIDE DEF Turn, State
    <2>1. value[i] = Turn(value, i) /\ i \in 0 .. k
      BY <1>9
    <2>2. value[i - 1] = State(i - 1)
      BY <1>11
    <2> QED
      BY <1>5, <2>1, <2>2
  <1>12. k \in T
    <2> HIDE DEF T
    <2>1. k \in 0 .. k /\ k \in Nat
      OBVIOUS
    <2> QED
      BY <1>10, <1>11, <2>1, Turns
  <1>13. value[k] = Upper(n, 1)
    <2>1. k # 0 /\ k + 1 - k = 1
      OBVIOUS
    <2> QED
      BY <1>12, <2>1
  <1> QED
    BY <1>2, <1>8, <1>13, UpperIs

\* A tag with a count: its word is in front of the first space, and the digits
\* of the count behind the last.
HasSpaces(text, f, l) ==
    /\ f \in 1 .. Len(text) /\ l \in f .. Len(text)
    /\ text[f] = Space /\ text[l] = Space
    /\ \A i \in 1 .. f - 1 : text[i] # Space
    /\ \A i \in l + 1 .. Len(text) : text[i] # Space
HasCount(text, f, l, word, count) ==
    /\ SubSeq(text, 1, f - 1) = word
    /\ count \in Seq(DigitBytes) /\ count # <<>> /\ SubSeq(text, l + 1, Len(text)) = count
IsCounted(word) == \E v \in WithCount : word = Spelling[v]

LEMMA ReadsCountedTag ==
    ASSUME NEW text \in Seq(Byte), NEW f, NEW l, HasSpaces(text, f, l),
           NEW word, NEW count, HasCount(text, f, l, word, count), IsCounted(word)
    PROVE  ReadTag(text) = [word |-> word, n |-> ReadDecimal(count)]
  <1> USE DEF HasSpaces, HasCount
  <1> DEFINE spaces == Spaces(text)
  <1>0. spaces = {i \in DOMAIN text : text[i] = Space}
    BY Zenon DEF Spaces
  <1>1. DOMAIN text = 1 .. Len(text) /\ Len(text) \in Nat
    BY LenProperties
  <1> HIDE DEF spaces
  <1>2. f \in spaces /\ \A j \in spaces : f <= j
    BY <1>0, <1>1
  <1>3. l \in spaces /\ \A j \in spaces : j <= l
    BY <1>0, <1>1
  <1>4. \A i \in spaces : i \in Int
    BY <1>0, <1>1
  <1>5. (CHOOSE i \in spaces : \A j \in spaces : j <= i) = l
    <2>1. PICK x : x = CHOOSE i \in spaces : \A j \in spaces : j <= i
      OBVIOUS
    <2>2. x \in spaces /\ \A j \in spaces : j <= x
      BY <1>3, <2>1
    <2>3. x <= l /\ l <= x /\ x \in Int /\ l \in Int
      BY <1>3, <1>4, <2>2
    <2> QED
      BY <2>1, <2>3
  <1>6. (CHOOSE i \in spaces : \A j \in spaces : i <= j) = f
    <2>1. PICK x : x = CHOOSE i \in spaces : \A j \in spaces : i <= j
      OBVIOUS
    <2>2. x \in spaces /\ \A j \in spaces : x <= j
      BY <1>2, <2>1
    <2>3. x <= f /\ f <= x /\ x \in Int /\ f \in Int
      BY <1>2, <1>4, <2>2
    <2> QED
      BY <2>1, <2>3
  <1>7. spaces # {} /\ count # <<>> /\ \A i \in DOMAIN count : count[i] \in DigitBytes
    BY <1>2, LenProperties, ElementOfSeq
  <1>8. FirstWord(text) = word
    BY <1>6, <1>7, Zenon DEF FirstWord, spaces
  <1>9. StartsWithCounted(text)
    BY <1>8, Zenon DEF StartsWithCounted, IsCounted
  <1> QED
    BY <1>5, <1>7, <1>8, <1>9, Zenon DEF ReadTag, spaces

\* Any other text is read as it is.
LEMMA ReadsPlainTag ==
    ASSUME NEW text, ~StartsWithCounted(text)
    PROVE  ReadTag(text) = [word |-> text, n |-> -1]
  BY Zenon DEF ReadTag

Tags == [word : WithCount, n : 0 .. MaxInt32] \cup [word : WithoutCount, n : {-1}]

LEMMA WordIs ==
    ASSUME NEW word \in WithCount \cup WithoutCount
    PROVE  /\ Spelling[word] \in Texts /\ Len(Spelling[word]) <= MaxInt16
           /\ word \in WithCount => \A i \in DOMAIN Spelling[word] : Spelling[word][i] # Space
           /\ word \in WithoutCount => ~StartsWithCounted(Spelling[word])
  BY SpellingAssumption, TagsAssumption, Zenon

\* A word without spaces, a space, and a number after any bytes with no more
\* than one space behind them.
LastIsSpace(text, y) == text[Len(y)] = Space

LEMMA ReadsWordAndCount ==
    ASSUME NEW word \in WithCount, NEW n \in 0 .. MaxInt32,
           NEW x \in Seq(Byte), Joined(Spelling[word], <<Space>>, x),
           NEW y \in Seq(Byte), Len(y) >= Len(x), NEW text, Joined(y, NatDigits(n), text),
           Lies(text, 1, x), LastIsSpace(text, y)
    PROVE  ReadTag(text) = [word |-> Spelling[word], n |-> n]
  <1>1. /\ Spelling[word] \in Texts /\ Spelling[word] \in Seq(Byte)
        /\ \A i \in DOMAIN Spelling[word] : Spelling[word][i] # Space
    BY WordIs, TextIsBytes, Zenon
  <1>2. PICK w \in Seq(Byte) : w = Spelling[word]
    BY <1>1
  <1>3. PICK d \in Seq(DigitBytes) : d = NatDigits(n)
    BY NatDigitsAre
  <1>4. /\ text \in Seq(Byte) /\ Len(text) = Len(y) + Len(d) /\ d \in Seq(Byte)
        /\ Len(x) = Len(w) + 1
    <2>1. d \in Seq(Byte)
      BY <1>3, Zenon DEF Joined
    <2>2. text \in Seq(Byte) /\ Len(text) = Len(y) + Len(d)
      BY <1>3, JoinIsBytes, Zenon
    <2>3. Len(x) = Len(w) + Len(<<Space>>)
      BY <1>2, JoinIsBytes, Zenon
    <2>4. Len(<<Space>>) = 1
      OBVIOUS
    <2> QED
      BY <2>1, <2>2, <2>3, <2>4, Zenon
  <1>5. PICK f \in Nat, l \in Nat, m \in Nat, k \in Nat :
          f = Len(w) + 1 /\ l = Len(y) /\ m = Len(text) /\ k = Len(d)
    BY <1>4, LenProperties
  <1>6. k # 0 /\ m = l + k /\ f <= l /\ f >= 1
    <2>1. k \in 1 .. 10
      BY <1>3, <1>5, NatDigitsAre, DigitCountIs
    <2>2. Len(w) \in Nat
      BY LenProperties
    <2>3. m = l + k /\ l >= Len(w) + 1
      BY <1>4, <1>5, Zenon
    <2>4. PICK a \in Nat : a = Len(w)
      BY <2>2
    <2>5. l >= f /\ f = a + 1
      BY <1>5, <2>3, <2>4, Zenon
    <2>6. k # 0 /\ f <= l /\ f >= 1
      BY <2>1, <2>5
    <2> QED
      BY <2>3, <2>6, Zenon
  <1>7. Lies(text, 1, w) /\ Lies(text, f, <<Space>>) /\ 1 \in Place
    <2>1. 1 \in Place /\ 1 + Len(w) = f
      BY <1>5, LenProperties DEF Place
    <2> QED
      BY <1>2, <1>4, <2>1, LiesJoined, Zenon
  <1>8. Lies(text, l + 1, d)
    <2>1. Lies(text, 1 + Len(y), NatDigits(n))
      BY <1>4, <1>7, LiesWhole, LiesJoined, Zenon
    <2>2. 1 + Len(y) = l + 1
      BY <1>5
    <2> QED
      BY <1>3, <2>1, <2>2, Zenon
  <1>9. text[f] = Space
    <2>1. Len(<<Space>>) = 1 /\ <<Space>>[1] = Space
      OBVIOUS
    <2>2. text[f + 1 - 1] = <<Space>>[1] /\ f + 1 - 1 = f
      BY <1>7, <2>1 DEF Lies
    <2> QED
      BY <2>1, <2>2
  <1>10. \A i \in 1 .. f - 1 : text[i] # Space
    <2> SUFFICES ASSUME NEW i \in 1 .. f - 1 PROVE text[i] # Space
      OBVIOUS
    <2>1. i \in 1 .. Len(w) /\ 1 + i - 1 = i /\ i \in DOMAIN w
      BY <1>5, LenProperties
    <2>2. text[1 + i - 1] = w[i]
      BY <1>7, <2>1 DEF Lies
    <2> QED
      BY <1>1, <1>2, <2>1, <2>2, Zenon
  <1>11. \A i \in l + 1 .. m : text[i] # Space
    <2> SUFFICES ASSUME NEW i \in l + 1 .. m PROVE text[i] # Space
      OBVIOUS
    <2>1. PICK j \in 1 .. Len(d) : (l + 1) + j - 1 = i
      <3>1. i - l \in 1 .. Len(d) /\ (l + 1) + (i - l) - 1 = i
        BY <1>5, <1>6
      <3> QED
        BY <3>1, Zenon
    <2>2. text[(l + 1) + j - 1] = d[j]
      BY <1>8 DEF Lies
    <2>3. d[j] \in DigitBytes
      BY ElementOfSeq, Zenon
    <2>4. Space \notin DigitBytes
      BY DEF Space, DigitBytes
    <2> QED
      BY <2>1, <2>2, <2>3, <2>4, Zenon
  <1>12. SubSeq(text, 1, f - 1) = w
    <2>1. SubSeq(text, 1, 1 + Len(w) - 1) = w
      BY <1>4, <1>7, LiesCut, Zenon DEF Place
    <2>2. 1 + Len(w) - 1 = f - 1
      BY <1>5, LenProperties
    <2> QED
      BY <2>1, <2>2, Zenon
  <1>13. SubSeq(text, l + 1, m) = d
    <2>1. l + 1 \in Nat \ {0} /\ (l + 1) + Len(d) - 1 = m
      BY <1>5, <1>6
    <2>2. SubSeq(text, l + 1, (l + 1) + Len(d) - 1) = d
      BY <1>4, <1>8, <2>1, LiesCut, Zenon
    <2> QED
      BY <2>1, <2>2, Zenon
  <1>14. ReadTag(text) = [word |-> w, n |-> ReadDecimal(d)]
    <2>1. f \in 1 .. Len(text) /\ l \in f .. Len(text) /\ d # <<>>
      BY <1>5, <1>6
    <2>2. text[l] = Space
      BY <1>5, Zenon DEF LastIsSpace
    <2>3. \A i \in l + 1 .. Len(text) : text[i] # Space
      BY <1>5, <1>11, Zenon
    <2>4. SubSeq(text, l + 1, Len(text)) = d
      BY <1>5, <1>13, Zenon
    <2>5. HasSpaces(text, f, l)
      BY <1>9, <1>10, <2>1, <2>2, <2>3, Zenon DEF HasSpaces
    <2>6. HasCount(text, f, l, w, d)
      BY <1>12, <2>1, <2>4, Zenon DEF HasCount
    <2>7. IsCounted(w)
      BY <1>2, Zenon DEF IsCounted
    <2> QED
      BY <1>4, <2>5, <2>6, <2>7, ReadsCountedTag, SMT
  <1> QED
    BY <1>2, <1>3, <1>14, ReadsDecimal, Zenon

\* A tag as a text, and the text as a tag.
LEMMA TagIsText ==
    ASSUME NEW tag \in Tags
    PROVE  /\ TagText(tag) \in Texts /\ Len(TagText(tag)) <= MaxInt16 + 22
           /\ ReadTag(TagText(tag)) = [word |-> Spelling[tag.word], n |-> tag.n]
  <1>0. Space \in 1 .. 255 /\ <<Space>> \in Texts /\ <<Space>> \in Seq(Byte)
    BY DEF Space, Byte, Texts
  <1>1. ASSUME NEW m \in 0 .. MaxInt32
        PROVE  /\ NatDigits(m) \in Texts /\ NatDigits(m) \in Seq(Byte)
               /\ Len(NatDigits(m)) \in 1 .. 10
    <2>1. DigitBytes \subseteq 1 .. 255 /\ DigitBytes \subseteq Byte
      BY DEF DigitBytes, Byte
    <2>2. NatDigits(m) \in Seq(1 .. 255) /\ NatDigits(m) \in Seq(Byte)
      <3>1. PICK d \in Seq(DigitBytes) : d = NatDigits(m)
        BY NatDigitsAre, Zenon
      <3>2. d \in Seq(1 .. 255)
        BY <2>1, SeqMonotonic, Zenon
      <3>3. d \in Seq(Byte)
        BY <2>1, SeqMonotonic, Zenon
      <3> QED
        BY <3>1, <3>2, <3>3, Zenon
    <2>3. Len(NatDigits(m)) \in 1 .. 10
      BY NatDigitsAre, DigitCountIs
    <2> QED
      BY <2>2, <2>3, Zenon DEF Texts
  <1>2. PICK w : w = Spelling[tag.word]
    OBVIOUS
  <1>3. /\ w \in Texts /\ Len(w) <= MaxInt16 /\ w \in Seq(Byte) /\ Len(w) \in Nat
        /\ tag.word \in WithoutCount => ~StartsWithCounted(w)
    <2>1. tag.word \in WithCount \cup WithoutCount
      BY DEF Tags
    <2> QED
      BY <1>2, <2>1, WordIs, TextIsBytes, Zenon
  <1>4. ASSUME NEW s \in Texts, NEW t \in Texts
        PROVE  s \o t \in Texts /\ Len(s \o t) = Len(s) + Len(t) /\ Joined(s, t, s \o t)
    BY TextIsBytes, ConcatProperties, Zenon DEF Texts, Joined
  <1>5. CASE tag.n < 0
    <2>1. tag.n = -1 /\ tag.word \in WithoutCount
      BY <1>5 DEF Tags
    <2>2. TagText(tag) = w
      BY <1>2, <2>1 DEF TagText
    <2>3. Len(w) <= MaxInt16 + 22
      BY <1>3, SMT DEF MaxInt16
    <2> QED
      BY <1>2, <1>3, <2>1, <2>2, <2>3, ReadsPlainTag, Zenon
  <1>6. CASE ~(tag.n < 0)
    <2>1. tag.word \in WithCount /\ tag.n \in 0 .. MaxInt32 /\ tag.n >= 0
      BY <1>6 DEF Tags
    <2>2. PICK d : d = NatDigits(tag.n)
      OBVIOUS
    <2>3. d \in Texts /\ d \in Seq(Byte) /\ Len(d) \in 1 .. 10 /\ Digits(tag.n) = d
      BY <1>1, <1>6, <2>1, <2>2, Zenon DEF Digits
    <2>4. PICK x : x = w \o <<Space>>
      OBVIOUS
    <2>5. x \in Texts /\ x \in Seq(Byte) /\ Joined(w, <<Space>>, x)
      BY <1>0, <1>3, <1>4, <2>4, TextIsBytes, Zenon
    <2>6. Len(x) = Len(w) + 1 /\ Len(x) \in Nat
      <3>1. Len(<<Space>>) = 1
        OBVIOUS
      <3>2. Len(x) = Len(w) + Len(<<Space>>)
        BY <2>5, JoinIsBytes, Zenon
      <3> QED
        BY <1>3, <3>1, <3>2
    <2>7. CASE tag.word # "INSERT"
      <3>1. TagText(tag) = x \o d
        BY <1>2, <2>1, <2>3, <2>4, <2>7 DEF TagText
      <3>2. PICK text : text = x \o d
        OBVIOUS
      <3>3. text \in Texts /\ Joined(x, d, text) /\ Len(text) = Len(x) + Len(d)
        BY <1>4, <2>3, <2>5, <3>2, Zenon
      <3>4. Len(text) <= MaxInt16 + 22
        <4>1. PICK a \in Nat, k \in 1 .. 10 : a = Len(w) /\ k = Len(d)
          BY <1>3, <2>3
        <4>2. Len(text) = (a + 1) + k /\ a <= MaxInt16
          BY <1>3, <2>6, <3>3, <4>1, Zenon
        <4>3. (a + 1) + k <= MaxInt16 + 22
          BY <4>2, SMT DEF MaxInt16
        <4> QED
          BY <4>2, <4>3, Zenon
      <3>5. Lies(text, 1, x) /\ text \in Seq(Byte)
        BY <2>5, <3>3, TextIsBytes, LiesWhole, LiesJoined, Zenon
      <3>6. text[Len(x)] = Space
        <4>1. x[Len(x)] = Space /\ Len(x) \in 1 .. Len(x) /\ 1 + Len(x) - 1 = Len(x)
          BY <1>3, <2>4, <2>6
        <4>2. text[1 + Len(x) - 1] = x[Len(x)]
          BY <3>5, <4>1 DEF Lies
        <4> QED
          BY <4>1, <4>2, Zenon
      <3>7. Len(x) >= Len(x)
        BY <2>6
      <3>8. ReadTag(text) = [word |-> w, n |-> tag.n]
        <4>1. Joined(Spelling[tag.word], <<Space>>, x) /\ Joined(x, NatDigits(tag.n), text)
          BY <1>2, <2>2, <2>5, <3>3, Zenon
        <4>2. LastIsSpace(text, x)
          BY <3>6, Zenon DEF LastIsSpace
        <4>3. ReadTag(text) = [word |-> Spelling[tag.word], n |-> tag.n]
          BY <2>1, <2>5, <3>5, <3>7, <4>1, <4>2, ReadsWordAndCount, SMT
        <4> QED
          BY <1>2, <4>3, Zenon
      <3> QED
        BY <1>2, <3>1, <3>2, <3>3, <3>4, <3>8, Zenon
    <2>8. CASE tag.word = "INSERT"
      <3>1. PICK o : o = NatDigits(0)
        OBVIOUS
      <3>2. o \in Texts /\ o \in Seq(Byte) /\ Len(o) \in 1 .. 10 /\ Digits(0) = o
        <4>1. 0 \in 0 .. MaxInt32 /\ ~(0 < 0)
          BY SmallNumbers, SMT
        <4> QED
          BY <1>1, <3>1, <4>1, Zenon DEF Digits
      <3>3. TagText(tag) = ((x \o o) \o <<Space>>) \o d
        BY <1>2, <2>1, <2>3, <2>4, <2>8, <3>2 DEF TagText
      <3>4. PICK z, y, text : z = x \o o /\ y = z \o <<Space>> /\ text = y \o d
        OBVIOUS
      <3>5. z \in Texts /\ Joined(x, o, z) /\ Len(z) = Len(x) + Len(o)
        BY <1>4, <2>5, <3>2, <3>4, Zenon
      <3>6. y \in Texts /\ Joined(z, <<Space>>, y) /\ Len(y) = Len(z) + Len(<<Space>>)
        BY <1>0, <1>4, <3>4, <3>5, Zenon
      <3>7. text \in Texts /\ Joined(y, d, text) /\ Len(text) = Len(y) + Len(d)
        BY <1>4, <2>3, <3>4, <3>6, Zenon
      <3>8. Len(<<Space>>) = 1
        OBVIOUS
      <3>9. /\ Len(text) <= MaxInt16 + 22 /\ Len(y) >= Len(x)
            /\ Len(y) = Len(z) + 1 /\ Len(z) \in Nat /\ Len(y) \in Nat
        <4>1. PICK a \in Nat, k \in 1 .. 10, j \in 1 .. 10 :
                a = Len(w) /\ k = Len(d) /\ j = Len(o)
          BY <1>3, <2>3, <3>2
        <4>2. /\ a <= MaxInt16 /\ Len(x) = a + 1 /\ Len(z) = (a + 1) + j
              /\ Len(y) = ((a + 1) + j) + 1 /\ Len(text) = (((a + 1) + j) + 1) + k
          BY <1>3, <2>6, <3>5, <3>6, <3>7, <3>8, <4>1, Zenon
        <4>3. /\ (((a + 1) + j) + 1) + k <= MaxInt16 + 22 /\ ((a + 1) + j) + 1 >= a + 1
              /\ (a + 1) + j \in Nat /\ ((a + 1) + j) + 1 \in Nat
          <5>1. MaxInt16 \in Int
            BY Limits, SMT
          <5>2. a <= MaxInt16
            BY <4>2, Zenon
          <5> QED
            BY ONLY <5>1, <5>2, a \in Nat, k \in 1 .. 10, j \in 1 .. 10, SMT
        <4> QED
          BY <4>2, <4>3, Zenon
      <3>10. Lies(text, 1, y) /\ Lies(text, 1, z) /\ Lies(text, 1, x)
             /\ text \in Seq(Byte) /\ y \in Seq(Byte)
        <4>1. text \in Seq(Byte) /\ y \in Seq(Byte)
          BY <3>6, <3>7, TextIsBytes, Zenon
        <4>2. Lies(text, 1, y) /\ 1 \in Place
          BY <3>7, <4>1, LiesWhole, LiesJoined, Zenon
        <4>3. Lies(text, 1, z)
          BY <3>6, <4>1, <4>2, LiesJoined, Zenon
        <4>4. Lies(text, 1, x)
          BY <3>5, <4>1, <4>2, <4>3, LiesJoined, Zenon
        <4> QED
          BY <4>1, <4>2, <4>3, <4>4, Zenon
      <3>11. text[Len(y)] = Space
        <4>1. y[Len(z) + 1] = Space
          BY <3>4, <3>5 DEF Texts
        <4>2. Len(y) \in 1 .. Len(y) /\ 1 + Len(y) - 1 = Len(y)
          BY <3>9
        <4>3. text[1 + Len(y) - 1] = y[Len(y)]
          BY <3>10, <4>2 DEF Lies
        <4> QED
          BY <3>9, <4>1, <4>2, <4>3, Zenon
      <3>12. ReadTag(text) = [word |-> w, n |-> tag.n]
        <4>1. Joined(Spelling[tag.word], <<Space>>, x) /\ Joined(y, NatDigits(tag.n), text)
          BY <1>2, <2>2, <2>5, <3>7, Zenon
        <4>2. LastIsSpace(text, y)
          BY <3>11, Zenon DEF LastIsSpace
        <4>3. ReadTag(text) = [word |-> Spelling[tag.word], n |-> tag.n]
          BY <2>1, <2>5, <3>9, <3>10, <4>1, <4>2, ReadsWordAndCount, Zenon
        <4> QED
          BY <1>2, <4>3, Zenon
      <3> QED
        BY <1>2, <3>3, <3>4, <3>7, <3>9, <3>12, Zenon
    <2> QED
      BY <2>7, <2>8, Zenon
  <1> QED
    BY <1>5, <1>6, Zenon

\* The tag the client finds has its word spelled.
Spelled(tag) == [word |-> Spelling[tag.word], n |-> tag.n]

LEMMA CommandCompleteIsRead ==
    ASSUME NEW tag \in Tags
    PROVE  IsRead("CommandComplete", CommandCompleteBytes(tag), Spelled(tag))
  <1>1. PICK text, b : text = TagText(tag) /\ b = AppendString(text)
    OBVIOUS
  <1>2. text \in Texts /\ Len(text) <= MaxInt16 + 22 /\ ReadTag(text) = Spelled(tag)
    BY <1>1, TagIsText, Zenon DEF Spelled
  <1>3. b \in Seq(Byte) /\ Len(b) = Len(text) + 1 /\ Len(text) \in Nat
    BY <1>1, <1>2, TextIsBytes, Zenon
  <1>4. Len(b) <= MaxInt32 - 4
    BY <1>2, <1>3, SMT DEF MaxInt16, MaxInt32
  <1>5. Text(b, 1) = text
    BY <1>1, <1>2, <1>3, LiesWhole, ReadsText, Zenon
  <1>6. CommandCompleteBytes(tag) = b
    BY <1>1, Zenon DEF CommandCompleteBytes
  <1> QED
    BY <1>2, <1>3, <1>4, <1>5, <1>6, DecodeIs, Zenon DEF IsRead

-----------------------------------------------------------------------------
(***************************************************************************)
(* The messages that can be sent, and the frames they become.              *)
(***************************************************************************)
Short16(S) == {list \in Seq(S) : Len(list) <= MaxInt16}

Sendable ==
         [type : {"RowDescription"}, body : Short16(Field)]
    \cup [type : {"DataRow"}, body : Short16(Columns)]
    \cup [type : {"CommandComplete"}, body : Tags]
    \cup [type : {"ErrorResponse"}, body : {<<>>} \cup {<<t>> : t \in Names}]
    \cup [type : {"ParameterStatus"}, body : Names \X Names]
    \cup [type : {"BackendKeyData"}, body : Int31 \X Int31]
    \cup [type : {"ParameterDescription"}, body : Short16(Int31)]
    \cup [type : {"CopyInResponse"}, body : Short16(Int16s)]
    \cup [type : {"Authentication"}, body : Int31]
    \cup [type : {"ReadyForQuery"}, body : Byte]
    \cup [type : Plains, body : {<<>>}]

LEMMA MessageIs ==
    \A type, body : Message(type, body).type = type /\ Message(type, body).body = body
  BY DEF Message

LEMMA TypesAreBytes ==
    /\ DOMAIN Type = {"Authentication", "ParameterStatus", "BackendKeyData", "ReadyForQuery",
                      "RowDescription", "DataRow", "CommandComplete", "ErrorResponse",
                      "ParameterDescription", "NoData", "ParseComplete", "BindComplete",
                      "CloseComplete", "CopyInResponse"}
    /\ \A t \in DOMAIN Type : Type[t] \in Byte
    /\ \A t, u \in DOMAIN Type : Type[t] = Type[u] => t = u
  BY DEF Type, Byte

MeaningOf(msg) == IF msg.type = "CommandComplete" THEN Spelled(msg.body) ELSE msg.body

LEMMA MessageIsRead ==
    ASSUME NEW msg \in Sendable
    PROVE  /\ IsRead(msg.type, Payload(msg), MeaningOf(msg)) /\ msg.type \in DOMAIN Type
           /\ Meaning(msg) = Message(msg.type, MeaningOf(msg))
  <1>1. msg = Message(msg.type, msg.body)
    BY DEF Sendable, Message
  <1>2. Meaning(msg) = Message(msg.type, MeaningOf(msg))
    BY <1>1, Zenon DEF Meaning, MeaningOf, Spelled
  <1>3. PICK type, body : msg = Message(type, body) /\ type = msg.type /\ body = msg.body
    BY <1>1, Zenon
  <1>4. CASE msg \in [type : {"RowDescription"}, body : Short16(Field)]
    <2>1. type = "RowDescription" /\ body \in Seq(Field) /\ Len(body) <= MaxInt16
      BY <1>3, <1>4 DEF Short16
    <2>2. Payload(msg) = RowDescriptionBytes(body) /\ MeaningOf(msg) = body
      BY <1>3, <2>1, PayloadIs, "RowDescription" # "CommandComplete", Zenon DEF MeaningOf
    <2> QED
      BY <1>2, <1>3, <2>1, <2>2, RowDescriptionIsRead, TypesAreBytes, Zenon
  <1>5. CASE msg \in [type : {"DataRow"}, body : Short16(Columns)]
    <2>1. type = "DataRow" /\ body \in Seq(Columns) /\ Len(body) <= MaxInt16
      BY <1>3, <1>5 DEF Short16
    <2>2. Payload(msg) = DataRowBytes(body) /\ MeaningOf(msg) = body
      BY <1>3, <2>1, PayloadIs, "DataRow" # "CommandComplete", Zenon DEF MeaningOf
    <2> QED
      BY <1>2, <1>3, <2>1, <2>2, DataRowIsRead, TypesAreBytes, Zenon
  <1>6. CASE msg \in [type : {"CommandComplete"}, body : Tags]
    <2>1. type = "CommandComplete" /\ body \in Tags
      BY <1>3, <1>6
    <2>2. Payload(msg) = CommandCompleteBytes(body) /\ MeaningOf(msg) = Spelled(body)
      BY <1>3, <2>1, PayloadIs, Zenon DEF MeaningOf
    <2> QED
      BY <1>2, <1>3, <2>1, <2>2, CommandCompleteIsRead, TypesAreBytes, Zenon
  <1>7. CASE msg \in [type : {"ErrorResponse"}, body : {<<>>} \cup {<<t>> : t \in Names}]
    <2>1. type = "ErrorResponse" /\ body \in {<<>>} \cup {<<t>> : t \in Names}
      BY <1>3, <1>7
    <2>2. Payload(msg) = ErrorResponseBytes(body) /\ MeaningOf(msg) = body
      BY <1>3, <2>1, PayloadIs, "ErrorResponse" # "CommandComplete", Zenon DEF MeaningOf
    <2> QED
      BY <1>2, <1>3, <2>1, <2>2, ErrorResponseIsRead, TypesAreBytes, Zenon
  <1>8. CASE msg \in [type : {"ParameterStatus"}, body : Names \X Names]
    <2>1. type = "ParameterStatus" /\ body \in Names \X Names
      BY <1>3, <1>8
    <2>2. PICK t \in Names, u \in Names : body = <<t, u>>
      BY <2>1
    <2>3. Payload(msg) = ParameterStatusBytes(body) /\ MeaningOf(msg) = body
      BY <1>3, <2>1, PayloadIs, "ParameterStatus" # "CommandComplete", Zenon DEF MeaningOf
    <2> QED
      BY <1>2, <1>3, <2>1, <2>2, <2>3, ParameterStatusIsRead, TypesAreBytes, Zenon
  <1>9. CASE msg \in [type : {"BackendKeyData"}, body : Int31 \X Int31]
    <2>1. type = "BackendKeyData" /\ body \in Int31 \X Int31
      BY <1>3, <1>9
    <2>2. PICK i \in Int31, j \in Int31 : body = <<i, j>>
      BY <2>1
    <2>3. Payload(msg) = BackendKeyDataBytes(body) /\ MeaningOf(msg) = body
      BY <1>3, <2>1, PayloadIs, "BackendKeyData" # "CommandComplete", Zenon DEF MeaningOf
    <2> QED
      BY <1>2, <1>3, <2>1, <2>2, <2>3, BackendKeyDataIsRead, TypesAreBytes, Zenon
  <1>10. CASE msg \in [type : {"ParameterDescription"}, body : Short16(Int31)]
    <2>1. type = "ParameterDescription" /\ body \in Seq(Int31) /\ Len(body) <= MaxInt16
      BY <1>3, <1>10 DEF Short16
    <2>2. Payload(msg) = ParameterDescriptionBytes(body) /\ MeaningOf(msg) = body
      BY <1>3, <2>1, PayloadIs, "ParameterDescription" # "CommandComplete", Zenon
         DEF MeaningOf
    <2> QED
      BY <1>2, <1>3, <2>1, <2>2, ParameterDescriptionIsRead, TypesAreBytes, Zenon
  <1>11. CASE msg \in [type : {"CopyInResponse"}, body : Short16(Int16s)]
    <2>1. type = "CopyInResponse" /\ body \in Seq(Int16s) /\ Len(body) <= MaxInt16
      BY <1>3, <1>11 DEF Short16
    <2>2. Payload(msg) = CopyInResponseBytes(body) /\ MeaningOf(msg) = body
      BY <1>3, <2>1, PayloadIs, "CopyInResponse" # "CommandComplete", Zenon DEF MeaningOf
    <2> QED
      BY <1>2, <1>3, <2>1, <2>2, CopyInResponseIsRead, TypesAreBytes, Zenon
  <1>12. CASE msg \in [type : {"Authentication"}, body : Int31]
    <2>1. type = "Authentication" /\ body \in Int31
      BY <1>3, <1>12
    <2>2. Payload(msg) = Int32(body) /\ MeaningOf(msg) = body
      BY <1>3, <2>1, PayloadIs, "Authentication" # "CommandComplete", Zenon DEF MeaningOf
    <2> QED
      BY <1>2, <1>3, <2>1, <2>2, AuthenticationIsRead, TypesAreBytes, Zenon
  <1>13. CASE msg \in [type : {"ReadyForQuery"}, body : Byte]
    <2>1. type = "ReadyForQuery" /\ body \in Byte
      BY <1>3, <1>13
    <2>2. Payload(msg) = <<body>> /\ MeaningOf(msg) = body
      BY <1>3, <2>1, PayloadIs, "ReadyForQuery" # "CommandComplete", Zenon DEF MeaningOf
    <2> QED
      BY <1>2, <1>3, <2>1, <2>2, ReadyForQueryIsRead, TypesAreBytes, Zenon
  <1>14. CASE msg \in [type : Plains, body : {<<>>}]
    <2>1. type \in Plains /\ body = <<>>
      BY <1>3, <1>14
    <2>2. type # "CommandComplete" /\ type \in DOMAIN Type
      BY <2>1, TypesAreBytes DEF Plains
    <2>3. Payload(msg) = <<>> /\ MeaningOf(msg) = <<>>
      BY <1>3, <2>1, <2>2, PayloadIs, Zenon DEF MeaningOf, Plains
    <2> QED
      BY <1>2, <1>3, <2>1, <2>2, <2>3, PlainIsRead, Zenon
  <1> QED
    BY <1>4, <1>5, <1>6, <1>7, <1>8, <1>9, <1>10, <1>11, <1>12, <1>13, <1>14, Zenon DEF Sendable

\* A message at the head of what has arrived, whatever is behind it.
LEMMA FrameIsRead ==
    ASSUME NEW msg \in Sendable, NEW rest \in Seq(Byte), NEW arrived,
           arrived = Bytes(msg) \o rest
    PROVE  /\ Bytes(msg) \in Seq(Byte) /\ Len(Bytes(msg)) > 0
           /\ HasFrame(arrived) /\ Frame(arrived) = Meaning(msg)
           /\ SubSeq(arrived, FrameLength(arrived) + 1, Len(arrived)) = rest
  <1>1. PICK b : b = Payload(msg)
    OBVIOUS
  <1>2. /\ b \in Seq(Byte) /\ Len(b) <= MaxInt32 - 4 /\ msg.type \in DOMAIN Type
        /\ Decode(msg.type, b) = MeaningOf(msg)
    BY <1>1, MessageIsRead, Zenon DEF IsRead
  <1>3. PICK code \in Byte : code = Type[msg.type]
    BY <1>2, TypesAreBytes, Zenon
  <1>4. PICK n \in Nat : n = Len(b)
    BY <1>2, LenProperties, Zenon
  <1>5. n + 4 \in Int31
    <2>1. n + 4 <= MaxInt32 /\ -MaxInt32 <= n + 4
      BY <1>2, <1>4, Int31sAre, SMT
    <2> QED
      BY <1>4, <2>1, Int31sAre, SMT
  <1>6. PICK l \in Seq(Byte) : l = Int32(n + 4) /\ Len(l) = 4
    BY <1>5, NumberIsBytes, Zenon
  <1>7. PICK h, m : h = <<code>> \o l /\ m = h \o b
    OBVIOUS
  <1>8. Bytes(msg) = m
    BY <1>1, <1>3, <1>4, <1>6, <1>7, Zenon DEF Bytes
  <1>9. /\ <<code>> \in Seq(Byte) /\ Len(<<code>>) = 1
        /\ Joined(<<code>>, l, h) /\ h \in Seq(Byte) /\ Len(h) = Len(<<code>>) + Len(l)
        /\ Joined(h, b, m) /\ m \in Seq(Byte) /\ Len(m) = Len(h) + Len(b)
        /\ Joined(m, rest, arrived) /\ arrived \in Seq(Byte)
        /\ Len(arrived) = Len(m) + Len(rest)
    <2>1. <<code>> \in Seq(Byte) /\ Len(<<code>>) = 1
      BY ByteIsRead, Zenon
    <2>2. Joined(<<code>>, l, h) /\ h \in Seq(Byte) /\ Len(h) = Len(<<code>>) + Len(l)
      BY <1>7, <2>1, JoinIsBytes, Zenon DEF Joined
    <2>3. Joined(h, b, m) /\ m \in Seq(Byte) /\ Len(m) = Len(h) + Len(b)
      BY <1>2, <1>7, <2>2, JoinIsBytes, Zenon DEF Joined
    <2>4. /\ Joined(m, rest, arrived) /\ arrived \in Seq(Byte)
          /\ Len(arrived) = Len(m) + Len(rest)
      BY <1>8, <2>3, JoinIsBytes, Zenon DEF Joined
    <2> QED
      BY <2>1, <2>2, <2>3, <2>4, Zenon
  <1>10. PICK r \in Nat : r = Len(rest)
    BY LenProperties, Zenon
  <1>11. Len(h) = 5 /\ Len(m) = n + 5 /\ Len(arrived) = (n + 5) + r
    BY <1>4, <1>6, <1>9, <1>10
  <1>12. Lies(arrived, 1, m) /\ Lies(arrived, 1 + (n + 5), rest) /\ 1 + (n + 5) \in Place
    BY <1>9, <1>11, LiesWhole, LiesJoined, Zenon
  <1>13. Lies(arrived, 1, h) /\ Lies(arrived, 1 + 5, b) /\ 1 + 5 \in Place
    BY <1>9, <1>11, <1>12, LiesWhole, LiesJoined, Zenon
  <1>14. Lies(arrived, 1, <<code>>) /\ Lies(arrived, 1 + 1, l) /\ 1 + 1 \in Place
    BY <1>9, <1>13, LiesWhole, LiesJoined, Zenon
  <1>15. 1 + 5 = 6 /\ 1 + 1 = 2 /\ 1 + (n + 5) = n + 6 /\ 2 \in Nat
    BY <1>4
  <1>16. arrived[1] = code
    <2>1. Len(<<code>>) = 1 /\ <<code>>[1] = code
      OBVIOUS
    <2>2. arrived[1 + 1 - 1] = <<code>>[1] /\ 1 + 1 - 1 = 1
      BY <1>14, <2>1 DEF Lies
    <2> QED
      BY <2>1, <2>2, Zenon
  <1>17. FrameLength(arrived) = n + 5
    <2>1. ReadInt32(arrived, 2) = n + 4
      BY <1>5, <1>6, <1>9, <1>14, <1>15, ReadsInt32, Zenon
    <2>2. 1 + (n + 4) = n + 5
      BY <1>4
    <2> QED
      BY <2>1, <2>2, Zenon DEF FrameLength
  <1>18. HasFrame(arrived)
    BY <1>4, <1>10, <1>11, <1>17 DEF HasFrame
  <1>19. FrameType(arrived) = msg.type
    <2>1. \E t \in DOMAIN Type : Type[t] = arrived[1]
      BY <1>2, <1>3, <1>16, Zenon
    <2>2. PICK u : u = CHOOSE t \in DOMAIN Type : Type[t] = arrived[1]
      OBVIOUS
    <2>3. u \in DOMAIN Type /\ Type[u] = arrived[1]
      BY <2>1, <2>2, Zenon
    <2>4. u = msg.type
      BY <1>2, <1>3, <1>16, <2>3, TypesAreBytes, Zenon
    <2> QED
      BY <2>1, <2>2, <2>4, Zenon DEF FrameType
  <1>20. SubSeq(arrived, 6, FrameLength(arrived)) = b
    <2>1. SubSeq(arrived, 6, 6 + Len(b) - 1) = b
      BY <1>2, <1>9, <1>13, <1>15, LiesCut, Zenon DEF Place
    <2>2. 6 + Len(b) - 1 = n + 5
      BY <1>4
    <2> QED
      BY <1>17, <2>1, <2>2, Zenon
  <1>21. Frame(arrived) = Meaning(msg)
    BY <1>2, <1>19, <1>20, MessageIsRead, Zenon DEF Frame
  <1>22. SubSeq(arrived, n + 6, Len(arrived)) = rest
    <2>1. SubSeq(arrived, n + 6, (n + 6) + Len(rest) - 1) = rest
      BY <1>9, <1>12, <1>15, LiesCut, Zenon DEF Place
    <2>2. (n + 6) + Len(rest) - 1 = Len(arrived)
      BY <1>4, <1>10, <1>11
    <2> QED
      BY <2>1, <2>2, Zenon
  <1>23. (n + 5) + 1 = n + 6 /\ n + 5 > 0
    BY <1>4
  <1> QED
    BY <1>8, <1>9, <1>11, <1>17, <1>18, <1>21, <1>22, <1>23, Zenon

-----------------------------------------------------------------------------
(***************************************************************************)
(* The connection: what has been sent is what has been read and, behind    *)
(* it, the frames that still lie on the wire.                              *)
(***************************************************************************)
BytesOf(msgs) == [i \in DOMAIN msgs |-> Bytes(msgs[i])]

AsWire(msgs) == FlattenSeq(BytesOf(msgs))

AreRead(old, msgs) ==
    /\ DOMAIN msgs = 1 .. Len(msgs) /\ Len(msgs) = Len(old)
    /\ \A i \in 1 .. Len(msgs) : msgs[i] = Meaning(old[i])

Flow(all, read, bytes, old, new) ==
    /\ old \in Seq(Sendable) /\ new \in Seq(Sendable)
    /\ all = old \o new /\ bytes = AsWire(new)
    /\ read \in Seq({Meaning(m) : m \in Sendable}) /\ AreRead(old, read)

LEMMA BytesAreBytes ==
    ASSUME NEW msg \in Sendable
    PROVE  Bytes(msg) \in Seq(Byte) /\ Len(Bytes(msg)) > 0
  <1>1. PICK arrived : arrived = Bytes(msg) \o <<>>
    OBVIOUS
  <1>2. <<>> \in Seq(Byte)
    OBVIOUS
  <1> QED
    BY <1>1, <1>2, FrameIsRead, Zenon

LEMMA BytesOfIs ==
    ASSUME NEW msgs \in Seq(Sendable)
    PROVE  /\ BytesOf(msgs) \in Seq(Seq(Byte)) /\ Len(BytesOf(msgs)) = Len(msgs)
           /\ AsWire(msgs) \in Seq(Byte)
           /\ \A i \in 1 .. Len(msgs) : BytesOf(msgs)[i] = Bytes(msgs[i])
  <1>1. PICK n \in Nat : n = Len(msgs) /\ DOMAIN msgs = 1 .. n
    BY LenProperties
  <1>2. \A i \in 1 .. n : Bytes(msgs[i]) \in Seq(Byte)
    BY <1>1, BytesAreBytes, ElementOfSeq
  <1>3. /\ BytesOf(msgs) \in Seq(Seq(Byte)) /\ Len(BytesOf(msgs)) = n
        /\ \A i \in 1 .. n : BytesOf(msgs)[i] = Bytes(msgs[i])
    BY <1>1, <1>2 DEF BytesOf
  <1> QED
    BY <1>1, <1>3, FlattenTyped, Zenon DEF AsWire

LEMMA FlowEmpty ==
    Flow(<<>>, <<>>, <<>>, <<>>, <<>>)
  <1>1. <<>> \in Seq(Sendable) /\ <<>> = <<>> \o <<>> /\ DOMAIN <<>> = 1 .. 0 /\ Len(<<>>) = 0
    OBVIOUS
  <1>2. <<>> \in Seq({Meaning(m) : m \in Sendable})
    OBVIOUS
  <1>3. BytesOf(<<>>) = <<>>
    BY DEF BytesOf
  <1>4. AreRead(<<>>, <<>>)
    BY <1>1 DEF AreRead
  <1> QED
    BY <1>1, <1>2, <1>3, <1>4, FlattenEmpty, Zenon DEF Flow, AsWire

LEMMA FlowWrite ==
    ASSUME NEW all, NEW read, NEW bytes, NEW old, NEW new, Flow(all, read, bytes, old, new),
           NEW msg \in Sendable
    PROVE  Flow(Append(all, msg), read, bytes \o Bytes(msg), old, Append(new, msg))
  <1>1. old \in Seq(Sendable) /\ new \in Seq(Sendable) /\ all = old \o new
    BY DEF Flow
  <1>2. Append(new, msg) \in Seq(Sendable)
    BY <1>1, AppendProperties, Zenon
  <1>3. Append(all, msg) = old \o Append(new, msg)
    BY <1>1
  <1>4. BytesOf(Append(new, msg)) = Append(BytesOf(new), Bytes(msg))
    <2>1. PICK n \in Nat : n = Len(new) /\ DOMAIN new = 1 .. n
      BY <1>1, LenProperties
    <2>2. PICK t : t = Append(new, msg)
      OBVIOUS
    <2>3. /\ t \in Seq(Sendable) /\ Len(t) = n + 1 /\ t[n + 1] = msg
          /\ \A i \in 1 .. n : t[i] = new[i]
      BY <1>1, <2>1, <2>2, AppendProperties
    <2>4. PICK u \in Seq(Seq(Byte)) : u = BytesOf(t)
      BY <2>3, BytesOfIs, Zenon
    <2>5. Len(u) = n + 1 /\ \A i \in 1 .. n + 1 : u[i] = Bytes(t[i])
      BY <2>3, <2>4, BytesOfIs, Zenon
    <2>6. PICK v \in Seq(Seq(Byte)) : v = BytesOf(new)
      BY <1>1, BytesOfIs, Zenon
    <2>7. Len(v) = n /\ \A i \in 1 .. n : v[i] = Bytes(new[i])
      BY <1>1, <2>1, <2>6, BytesOfIs, Zenon
    <2>8. PICK w \in Seq(Byte) : w = Bytes(msg)
      BY BytesAreBytes, Zenon
    <2>9. PICK z : z = Append(v, w)
      OBVIOUS
    <2>10. z \in Seq(Seq(Byte)) /\ Len(z) = n + 1 /\ z[n + 1] = w
           /\ \A i \in 1 .. n : z[i] = v[i]
      BY <2>7, <2>9, AppendProperties
    <2>11. ASSUME NEW i \in 1 .. n + 1 PROVE u[i] = z[i]
      <3>1. CASE i = n + 1
        BY <2>3, <2>5, <2>8, <2>10, <3>1
      <3>2. CASE i # n + 1
        <4>1. i \in 1 .. n
          BY <3>2
        <4> QED
          BY <2>3, <2>5, <2>7, <2>10, <4>1
      <3> QED
        BY <3>1, <3>2
    <2>12. u = z
      <3>1. Len(u) = Len(z) /\ \A i \in 1 .. Len(u) : u[i] = z[i]
        BY <2>5, <2>10, <2>11
      <3> QED
        BY <2>10, <3>1, SeqEqual, Zenon
    <2> QED
      BY <2>2, <2>4, <2>6, <2>8, <2>9, <2>12, Zenon
  <1>5. BytesOf(new) \in Seq(Seq(Byte)) /\ Bytes(msg) \in Seq(Byte)
    BY <1>1, BytesOfIs, BytesAreBytes, Zenon
  <1>6. AsWire(Append(new, msg)) = AsWire(new) \o Bytes(msg)
    BY <1>4, <1>5, FlattenAppend, Zenon DEF AsWire
  <1> QED
    BY <1>1, <1>2, <1>3, <1>6, Zenon DEF Flow

LEMMA Appended ==
    ASSUME NEW S, NEW s \in Seq(S), NEW e \in S
    PROVE  /\ Append(s, e) \in Seq(S) /\ Len(Append(s, e)) = Len(s) + 1
           /\ Append(s, e)[Len(s) + 1] = e
           /\ \A i \in 1 .. Len(s) : Append(s, e)[i] = s[i]
  OBVIOUS

\* Bytes that have not been read are those of messages, and the client takes the
\* first of them.
LEMMA FlowRead ==
    ASSUME NEW all, NEW read, NEW bytes, NEW old, NEW new, Flow(all, read, bytes, old, new),
           HasFrame(bytes)
    PROVE  /\ new # <<>>
           /\ Flow(all, Append(read, Frame(bytes)),
                   SubSeq(bytes, FrameLength(bytes) + 1, Len(bytes)),
                   Append(old, Head(new)), Tail(new))
  <1>1. /\ old \in Seq(Sendable) /\ new \in Seq(Sendable) /\ all = old \o new
        /\ bytes = AsWire(new)
        /\ read \in Seq({Meaning(m) : m \in Sendable}) /\ AreRead(old, read)
    BY DEF Flow
  <1>2. new # <<>>
    <2> SUFFICES ASSUME new = <<>> PROVE FALSE
      OBVIOUS
    <2>1. BytesOf(new) = <<>>
      BY DEF BytesOf
    <2>2. bytes = <<>>
      BY <1>1, <2>1, FlattenEmpty, Zenon DEF AsWire
    <2>3. Len(bytes) = 0
      BY <2>2
    <2> QED
      BY <2>3 DEF HasFrame
  <1>3. PICK msg \in Sendable, rest \in Seq(Sendable) : msg = Head(new) /\ rest = Tail(new)
    BY <1>1, <1>2, HeadTailProperties
  <1>4. new = <<msg>> \o rest /\ <<msg>> \in Seq(Sendable)
    BY <1>1, <1>2, <1>3
  <1>5. all = Append(old, msg) \o rest /\ Append(old, msg) \in Seq(Sendable)
    <2>1. all = old \o (<<msg>> \o rest) /\ old \in Seq(Sendable)
      BY <1>1, <1>4, Zenon
    <2>2. all = (old \o <<msg>>) \o rest
      BY <1>4, <2>1, ConcatAssociative
    <2> QED
      BY <2>1, <2>2, AppendIsConcat, AppendProperties, Zenon
  <1>6. BytesOf(new) = <<Bytes(msg)>> \o BytesOf(rest)
    <2>1. PICK n \in Nat : n = Len(rest) /\ DOMAIN rest = 1 .. n
      BY LenProperties
    <2>2. Len(new) = n + 1 /\ new[1] = msg /\ \A i \in 2 .. n + 1 : new[i] = rest[i - 1]
      BY <1>4, <2>1
    <2>3. PICK u \in Seq(Seq(Byte)) : u = BytesOf(new)
      BY <1>1, BytesOfIs, Zenon
    <2>4. Len(u) = n + 1 /\ \A i \in 1 .. n + 1 : u[i] = Bytes(new[i])
      BY <1>1, <2>2, <2>3, BytesOfIs, Zenon
    <2>5. PICK v \in Seq(Seq(Byte)) : v = BytesOf(rest)
      BY BytesOfIs, Zenon
    <2>6. Len(v) = n /\ \A i \in 1 .. n : v[i] = Bytes(rest[i])
      BY <2>1, <2>5, BytesOfIs, Zenon
    <2>7. PICK w \in Seq(Byte) : w = Bytes(msg)
      BY BytesAreBytes, Zenon
    <2>8. PICK z : z = <<w>> \o v
      OBVIOUS
    <2>9. /\ z \in Seq(Seq(Byte)) /\ Len(z) = n + 1 /\ z[1] = w
          /\ \A i \in 2 .. n + 1 : z[i] = v[i - 1]
      BY <2>6, <2>8
    <2>10. ASSUME NEW i \in 1 .. n + 1 PROVE u[i] = z[i]
      <3>1. CASE i = 1
        BY <2>2, <2>4, <2>7, <2>9, <3>1
      <3>2. CASE i # 1
        <4>1. i \in 2 .. n + 1 /\ i - 1 \in 1 .. n
          BY <3>2
        <4> QED
          BY <2>2, <2>4, <2>6, <2>9, <4>1
      <3> QED
        BY <3>1, <3>2
    <2>11. u = z
      <3>1. Len(u) = Len(z) /\ \A i \in 1 .. Len(u) : u[i] = z[i]
        BY <2>4, <2>9, <2>10
      <3>2. z \in Seq(Seq(Byte)) /\ u \in Seq(Seq(Byte))
        BY <2>9
      <3> QED
        BY <3>1, <3>2, SeqEqual
    <2> QED
      BY <2>3, <2>5, <2>7, <2>8, <2>11, Zenon
  <1>7. BytesOf(rest) \in Seq(Seq(Byte)) /\ Bytes(msg) \in Seq(Byte) /\ AsWire(rest) \in Seq(Byte)
    BY BytesOfIs, BytesAreBytes, Zenon
  <1>8. bytes = Bytes(msg) \o AsWire(rest)
    BY <1>1, <1>6, <1>7, FlattenCons, Zenon DEF AsWire
  <1>9. /\ Frame(bytes) = Meaning(msg)
        /\ SubSeq(bytes, FrameLength(bytes) + 1, Len(bytes)) = AsWire(rest)
    BY <1>7, <1>8, FrameIsRead, Zenon
  <1>10. Append(read, Meaning(msg)) \in Seq({Meaning(m) : m \in Sendable})
    BY <1>1
  <1>11. AreRead(Append(old, msg), Append(read, Meaning(msg)))
    <2>1. PICK n \in Nat : n = Len(read) /\ n = Len(old)
      BY <1>1, LenProperties DEF AreRead
    <2>2. PICK o, t : o = Append(old, msg) /\ t = Append(read, Meaning(msg))
      OBVIOUS
    <2>3. Len(o) = n + 1 /\ o[n + 1] = msg /\ \A i \in 1 .. n : o[i] = old[i]
      BY <1>1, <2>1, <2>2, AppendProperties
    <2>4. /\ Len(t) = n + 1 /\ t[n + 1] = Meaning(msg) /\ \A i \in 1 .. n : t[i] = read[i]
          /\ DOMAIN t = 1 .. n + 1
      <3>1. PICK S : S = {Meaning(m) : m \in Sendable}
        OBVIOUS
      <3>2. PICK e \in S : e = Meaning(msg)
        BY <3>1
      <3>3. read \in Seq(S) /\ t = Append(read, e)
        BY <1>1, <2>2, <3>1, <3>2, Zenon
      <3>4. Len(t) = n + 1 /\ t[n + 1] = e /\ \A i \in 1 .. n : t[i] = read[i]
        <4>1. /\ Len(Append(read, e)) = Len(read) + 1 /\ Append(read, e)[Len(read) + 1] = e
              /\ \A i \in 1 .. Len(read) : Append(read, e)[i] = read[i]
          <5>1. PICK r \in Seq(S) : r = read
            BY <3>3
          <5>2. /\ Len(Append(r, e)) = Len(r) + 1 /\ Append(r, e)[Len(r) + 1] = e
                /\ \A i \in 1 .. Len(r) : Append(r, e)[i] = r[i]
            OBVIOUS
          <5> QED
            BY <5>1, <5>2, Zenon
        <4> QED
          BY <2>1, <3>3, <4>1, Zenon
      <3>5. t \in Seq(S)
        BY <3>2, <3>3, AppendProperties, Zenon
      <3>6. DOMAIN t = 1 .. n + 1
        BY <3>4, <3>5, LenProperties
      <3> QED
        BY <3>2, <3>4, <3>6, Zenon
    <2>5. ASSUME NEW i \in 1 .. n + 1 PROVE t[i] = Meaning(o[i])
      <3>1. CASE i = n + 1
        BY <2>3, <2>4, <3>1
      <3>2. CASE i # n + 1
        <4>1. i \in 1 .. n
          BY <3>2
        <4>2. read[i] = Meaning(old[i])
          BY <1>1, <2>1, <4>1 DEF AreRead
        <4> QED
          BY <2>3, <2>4, <4>1, <4>2
      <3> QED
        BY <3>1, <3>2
    <2> QED
      BY <2>2, <2>3, <2>4, <2>5, Zenon DEF AreRead
  <1> QED
    BY <1>2, <1>3, <1>5, <1>9, <1>10, <1>11, Zenon DEF Flow

\* Nothing that is sent is left over when the wire is empty.
LEMMA FlowProps ==
    ASSUME NEW all, NEW read, NEW bytes, NEW old, NEW new, Flow(all, read, bytes, old, new)
    PROVE  /\ Len(read) \in Nat /\ Len(all) \in Nat /\ Len(read) <= Len(all)
           /\ DOMAIN read = 1 .. Len(read) /\ all \in Seq(Sendable) /\ bytes \in Seq(Byte)
           /\ \A i \in DOMAIN read : read[i] = Meaning(all[i])
           /\ bytes = <<>> => Len(read) = Len(all)
  <1>1. /\ old \in Seq(Sendable) /\ new \in Seq(Sendable) /\ all = old \o new
        /\ bytes = AsWire(new) /\ AreRead(old, read)
    BY DEF Flow
  <1>2. PICK n \in Nat, k \in Nat : n = Len(old) /\ k = Len(new)
    BY <1>1, LenProperties
  <1>3. all \in Seq(Sendable) /\ Len(all) = n + k /\ \A i \in 1 .. n : all[i] = old[i]
    BY <1>1, <1>2
  <1>4. DOMAIN read = 1 .. n /\ Len(read) = n /\ \A i \in 1 .. n : read[i] = Meaning(old[i])
    BY <1>1, <1>2, Zenon DEF AreRead
  <1>5. bytes \in Seq(Byte)
    BY <1>1, BytesOfIs, Zenon
  <1>6. ASSUME bytes = <<>>, new # <<>> PROVE FALSE
    <2>1. PICK s \in Seq(Seq(Byte)) : s = BytesOf(new)
      BY <1>1, BytesOfIs, Zenon
    <2>2. Len(s) = k /\ \A i \in 1 .. k : s[i] = Bytes(new[i])
      BY <1>1, <1>2, <2>1, BytesOfIs, Zenon
    <2>3. k # 0 /\ 1 \in 1 .. k
      BY <1>1, <1>2, <1>6, EmptySeq
    <2>4. PICK x \in Seq(Byte) : x = s[1] /\ Len(x) > 0
      <3>1. new[1] \in Sendable
        BY <1>1, <1>2, <2>3, ElementOfSeq, Zenon
      <3> QED
        BY <2>2, <2>3, <3>1, BytesAreBytes, Zenon
    <2>5. PICK t \in Seq(Seq(Byte)) : s = <<x>> \o t
      <3>1. s # <<>>
        BY <2>2, <2>3
      <3>2. s = <<Head(s)>> \o Tail(s) /\ Tail(s) \in Seq(Seq(Byte)) /\ Head(s) = s[1]
        BY <3>1
      <3> QED
        BY <2>4, <3>2, Zenon
    <2>6. bytes = x \o FlattenSeq(t)
      BY <1>1, <2>1, <2>5, FlattenCons, Zenon DEF AsWire
    <2>7. PICK y \in Seq(Byte) : y = FlattenSeq(t)
      BY <2>5, FlattenTyped, Zenon
    <2>8. Len(x \o y) = Len(x) + Len(y) /\ Len(x) \in Nat /\ Len(y) \in Nat
      BY ConcatProperties, LenProperties, Zenon
    <2>9. x \o y = <<>> /\ Len(<<>>) = 0
      BY <1>6, <2>6, <2>7, Zenon
    <2> QED
      BY <2>4, <2>8, <2>9
  <1>7. new = <<>> => k = 0
    BY <1>2
  <1> QED
    BY <1>2, <1>3, <1>4, <1>5, <1>6, <1>7

-----------------------------------------------------------------------------
(***************************************************************************)
(* The responses that executors make can be sent, all but the message that *)
(* cannot be encoded.                                                      *)
(***************************************************************************)
LEMMA ResultSetIs ==
    ASSUME NEW rs \in ResultSets
    PROVE  \E n, m \in Nat :
              /\ Len(rs.types) = n /\ n <= MaxInt16 /\ DOMAIN rs.types = 1 .. n
              /\ \A c \in 1 .. n : rs.names[c] \in Names
              /\ Len(rs.rows) = m /\ m <= MaxInt32 /\ DOMAIN rs.rows = 1 .. m
              /\ \A r \in 1 .. m : \A c \in 1 .. n : rs.rows[r][c] \in Cell
  <1>1. /\ rs.names \in Seq(Names) /\ rs.types \in Seq(QueryTypes) /\ rs.rows \in Seq(Seq(Cell))
        /\ Len(rs.names) = Len(rs.types)
        /\ \A r \in DOMAIN rs.rows : Len(rs.rows[r]) = Len(rs.types)
        /\ Len(rs.types) <= MaxInt16 /\ Len(rs.rows) <= MaxInt32
    BY ResultSetsAssumption
  <1>2. PICK n \in Nat : Len(rs.types) = n /\ DOMAIN rs.types = 1 .. n
    BY <1>1, LenProperties
  <1>3. PICK m \in Nat : Len(rs.rows) = m /\ DOMAIN rs.rows = 1 .. m
    BY <1>1, LenProperties
  <1>4. \A c \in 1 .. n : rs.names[c] \in Names
    BY <1>1, <1>2, ElementOfSeq
  <1>5. ASSUME NEW r \in 1 .. m, NEW c \in 1 .. n PROVE rs.rows[r][c] \in Cell
    <2>1. PICK row \in Seq(Cell) : row = rs.rows[r]
      BY <1>1, <1>3, ElementOfSeq
    <2>2. Len(row) = n
      BY <1>1, <1>2, <1>3, <2>1
    <2> QED
      BY <2>1, <2>2, ElementOfSeq
  <1> QED
    BY <1>1, <1>2, <1>3, <1>4, <1>5, Zenon

LEMMA IDsAre ==
    ASSUME NEW t
    PROVE  /\ NewObjectIDFrom(t) \in DOMAIN DataTypes \cup {"none"}
           /\ "none" \notin DOMAIN DataTypes
  BY SMT DEF NewObjectIDFrom, DataTypes

LEMMA DataTypesAre ==
    ASSUME NEW id \in DOMAIN DataTypes
    PROVE  /\ DataTypes[id][1] \in Int31 /\ DataTypes[id][2] \in Int16s
           /\ FormatCode(id) \in Int16s
  <1>1. DataTypes[id][1] \in 0 .. 1560 /\ DataTypes[id][2] \in -1 .. 8
    BY SMT DEF DataTypes
  <1>2. DataTypes[id][1] \in Int31
    BY <1>1, SmallNumbers, SMT
  <1>3. DataTypes[id][2] \in Int16s
    <2>1. MaxInt16 \in Int /\ MaxInt16 > 8
      BY Limits, SMT
    <2> QED
      BY <1>1, <2>1, Int16sAre, SMT
  <1>4. FormatCode(id) \in Int16s
    <2>1. FormatCode(id) \in 0 .. 1
      BY DEF FormatCode, TextFormat, BinaryFormat
    <2> QED
      BY <2>1, Limits, Int16sAre, SMT
  <1> QED
    BY <1>2, <1>3, <1>4, Zenon

\* A cell is read as the value it is, whatever its column makes of it.
LEMMA ValueIsShown ==
    ASSUME NEW id \in DOMAIN DataTypes, NEW cell \in Cell,
           ~Refused(id, cell), ~NotEncodable(id, cell)
    PROVE  AppendData(id, cell) = Shown(id, cell)
  <1>1. PICK v : v = AsColumn(id, cell)
    OBVIOUS
  <1>2. v.v = cell.v
    BY <1>1, SMT DEF AsColumn, Become, Cell
  <1>3. (id = "Bytea") <=> (FormatCode(id) # TextFormat)
    BY SMT DEF FormatCode, TextFormat, BinaryFormat
  <1>4. "nil" \notin DOMAIN IntWidth /\ "Bytea" \notin DOMAIN GoTypeOf
    BY SMT DEF IntWidth, GoTypeOf
  <1>5. CASE cell.go = "nil"
    <2>1. ~NotOfItsType(id, cell)
      BY <1>5 DEF Refused, Cell
    <2>2. AsColumn(id, cell) = cell
      BY <2>1, Zenon DEF AsColumn
    <2>3. AppendData(id, cell) = <<>>
      BY <1>5, <2>2, Zenon DEF AppendData
    <2>4. Shown(id, cell) = <<>>
      BY <1>4, <1>5, SMT DEF Shown
    <2> QED
      BY <2>3, <2>4
  <1>6. CASE cell.go # "nil"
    <2>1. v.go # "nil"
      <3>1. id \in DOMAIN GoTypeOf => GoTypeOf[id] # "nil"
        BY SMT DEF GoTypeOf
      <3> QED
        BY <1>1, <1>6, <3>1, SMT DEF AsColumn, Become, NotOfItsType, Cell
    <2>2. CASE id = "Bytea"
      <3>1. v = cell
        BY <1>1, <1>4, <2>2, Zenon DEF AsColumn, NotOfItsType
      <3>2. FormatCode(id) # TextFormat
        BY <1>3, <2>2
      <3> QED
        BY <1>1, <1>6, <2>2, <3>1, <3>2, SMT DEF AppendData, Shown, FormatCode, TextFormat
    <2>3. CASE id # "Bytea"
      <3>1. FormatCode(id) = TextFormat
        BY <1>3, <2>3
      <3> QED
        BY <1>1, <1>2, <1>6, <2>1, <2>3, <3>1, SMT
           DEF AppendData, Shown, TextFormat, BinaryFormat
    <2> QED
      BY <2>2, <2>3
  <1> QED
    BY <1>5, <1>6

LEMMA ValueIsColumn ==
    ASSUME NEW id, NEW cell \in Cell
    PROVE  AppendData(id, cell) \in Columns
  <1>1. PICK v : v = AsColumn(id, cell)
    OBVIOUS
  <1>2. v.v \in Int31
    BY <1>1, SMT DEF AsColumn, Become, Cell
  <1>3. <<Digits(v.v)>> \in Columns
    BY <1>2, DigitsAre, Zenon DEF Columns
  <1>4. ASSUME v.go \in DOMAIN IntWidth PROVE <<IntToBytes(v.v, IntWidth[v.go])>> \in Columns
    <2>1. PICK w \in Nat : w = IntWidth[v.go] /\ w <= 8
      BY <1>4, SMT DEF IntWidth
    <2>2. v.v \in Int
      BY <1>2 DEF Int31
    <2>3. w <= MaxInt16
      BY <2>1, SMT DEF MaxInt16
    <2> QED
      BY <2>1, <2>2, <2>3, IntBytes, Zenon DEF Columns
  <1>5. <<>> \in Columns
    BY DEF Columns
  <1>6. \/ AppendData(id, cell) = <<>> \/ AppendData(id, cell) = <<Digits(v.v)>>
        \/ v.go \in DOMAIN IntWidth /\ AppendData(id, cell) = <<IntToBytes(v.v, IntWidth[v.go])>>
    <2>1. AppendData(id, cell)
            = IF v.go = "nil" THEN <<>>
              ELSE IF FormatCode(id) = BinaryFormat /\ v.go \in DOMAIN IntWidth
                   THEN <<IntToBytes(v.v, IntWidth[v.go])>> ELSE <<Digits(v.v)>>
      BY <1>1, Zenon DEF AppendData
    <2>2. CASE v.go = "nil"
      BY <2>1, <2>2, Zenon
    <2>3. CASE v.go # "nil" /\ FormatCode(id) = BinaryFormat /\ v.go \in DOMAIN IntWidth
      BY <2>1, <2>3, Zenon
    <2>4. CASE v.go # "nil" /\ ~(FormatCode(id) = BinaryFormat /\ v.go \in DOMAIN IntWidth)
      BY <2>1, <2>4, Zenon
    <2> QED
      BY <2>2, <2>3, <2>4, Zenon
  <1> QED
    BY <1>3, <1>4, <1>5, <1>6, Zenon

\* A row keeps values of its columns that are not refused, and no more than it has.
LEMMA KeptIs ==
    ASSUME NEW rs, NEW r, Len(rs.types) \in Nat
    PROVE  /\ Kept(rs, r) \in Seq(1 .. Len(rs.types)) /\ Len(Kept(rs, r)) <= Len(rs.types)
           /\ \A k \in 1 .. Len(Kept(rs, r)) :
                 ~Refused(IDsOf(rs)[Kept(rs, r)[k]], rs.rows[r][Kept(rs, r)[k]])
  <1> DEFINE n == Len(rs.types)
  <1>0. n \in Nat
    OBVIOUS
  <1> HIDE DEF n
  <1> DEFINE Drops(c) == Refused(IDsOf(rs)[c], rs.rows[r][c])
             Turn(g, c) == IF c = 0 THEN <<>>
                           ELSE IF Drops(c) THEN g[c - 1] ELSE Append(g[c - 1], c)
             D == Seq(1 .. n)
             f == [p \in D \X (1 .. n) |-> IF Drops(p[2]) THEN p[1] ELSE Append(p[1], p[2])]
  <1>1. \A g : Turn(g, 0) = <<>>
    <2> HIDE DEF Drops
    <2> QED
      BY SMT
  <1>2. ASSUME NEW c \in 1 .. n, NEW g
        PROVE  Turn(g, c) = IF Drops(c) THEN g[c - 1] ELSE Append(g[c - 1], c)
    <2> HIDE DEF Drops
    <2> QED
      BY SMT
  <1>3. <<>> \in D /\ f \in [D \X (1 .. n) -> D]
    <2>1. ASSUME NEW s \in D, NEW c \in 1 .. n PROVE Append(s, c) \in D
      BY AppendProperties
    <2>2. ASSUME NEW p \in D \X (1 .. n)
          PROVE  (IF Drops(p[2]) THEN p[1] ELSE Append(p[1], p[2])) \in D
      <3>1. p[1] \in D /\ p[2] \in 1 .. n
        OBVIOUS
      <3> HIDE DEF Drops, D
      <3> QED
        BY <2>1, <3>1, Zenon
    <2>3. <<>> \in D
      OBVIOUS
    <2> HIDE DEF Drops, D
    <2> QED
      BY <2>2, <2>3, Zenon
  <1>4. PICK w : Course(n, D, <<>>, f, w)
    <2> HIDE DEF D, f
    <2> QED
      BY <1>0, <1>3, Loop, Zenon
  <1>5. w \in [0 .. n -> D] /\ w[0] = <<>> /\ \A i \in 1 .. n : w[i] = f[<<w[i - 1], i>>]
    BY <1>4 DEF Course
  <1>6. w = [i \in 0 .. n |-> Turn(w, i)]
    <2>1. ASSUME NEW i \in 0 .. n PROVE w[i] = Turn(w, i)
      <3>1. CASE i = 0
        <4> HIDE DEF Turn, D, f
        <4> QED
          BY <1>1, <1>5, <3>1
      <3>2. CASE i # 0
        <4>1. i \in 1 .. n /\ i - 1 \in 0 .. n
          BY <1>0, <3>2
        <4>2. PICK s \in D : s = w[i - 1]
          BY <1>5, <4>1
        <4>3. <<s, i>> \in D \X (1 .. n) /\ <<s, i>>[1] = s /\ <<s, i>>[2] = i
          BY <4>1
        <4>4. f[<<s, i>>] = IF Drops(i) THEN s ELSE Append(s, i)
          <5> HIDE DEF D, Drops
          <5> QED
            BY <4>3, Zenon
        <4> HIDE DEF Turn, D, f, Drops
        <4> QED
          BY <1>2, <1>5, <4>1, <4>2, <4>4, Zenon
      <3> QED
        BY <3>1, <3>2
    <2> HIDE DEF Turn
    <2> QED
      BY <1>5, <2>1
  <1>7. PICK value : /\ value = [i \in 0 .. n |-> Turn(value, i)]
                     /\ Kept(rs, r) = value[n]
    <2> DEFINE all == CHOOSE g : g = [i \in 0 .. n |-> Turn(g, i)]
    <2>1. all = [i \in 0 .. n |-> Turn(all, i)]
      <3> HIDE DEF Turn
      <3> QED
        BY <1>6
    <2>2. Kept(rs, r) = all[n]
      BY DEF Kept, n
    <2> QED
      BY <2>1, <2>2
  <1>8. \A i \in 0 .. n : value[i] = Turn(value, i)
    <2> HIDE DEF Turn
    <2>1. PICK v : v = value
      OBVIOUS
    <2>2. v = [i \in 0 .. n |-> Turn(v, i)]
      BY <1>7, <2>1, Zenon
    <2>3. \A i \in 0 .. n : v[i] = Turn(v, i)
      BY <2>2
    <2> QED
      BY <2>1, <2>3, Zenon
  <1> DEFINE Good(s, i) == s \in D /\ Len(s) <= i /\ \A k \in 1 .. Len(s) : ~Drops(s[k])
             T == {i \in 0 .. n : Good(value[i], i)}
  <1>9. 0 \in T
    <2>1. value[0] = <<>>
      <3> HIDE DEF Turn
      <3> QED
        BY <1>0, <1>1, <1>8, 0 \in 0 .. n
    <2>2. Good(<<>>, 0) /\ 0 \in 0 .. n
      <3> HIDE DEF Drops
      <3> QED
        BY <1>0
    <2> HIDE DEF Good
    <2> QED
      BY <2>1, <2>2, Zenon
  <1>10. ASSUME NEW i \in 1 .. n, i - 1 \in T PROVE i \in T
    <2>1. i \in 0 .. n /\ i - 1 \in 0 .. n /\ (i - 1) + 1 = i /\ i - 1 <= i
      BY <1>0
    <2>2. PICK s : s = value[i - 1] /\ Good(s, i - 1)
      <3> HIDE DEF Good
      <3> QED
        BY <1>10
    <2>3. value[i] = IF Drops(i) THEN s ELSE Append(s, i)
      <3> HIDE DEF Turn, Drops, Good
      <3> QED
        BY <1>2, <1>8, <2>1, <2>2, Zenon
    <2>4. CASE Drops(i)
      <3>1. Good(s, i)
        <4> HIDE DEF Drops
        <4>1. Len(s) \in Nat
          BY <2>2, LenProperties
        <4> QED
          BY <2>1, <2>2, <4>1
      <3> HIDE DEF Drops, Good
      <3> QED
        BY <2>1, <2>3, <2>4, <3>1, Zenon
    <2>5. CASE ~Drops(i)
      <3>1. PICK t : t = Append(s, i)
        OBVIOUS
      <3>2. /\ t \in D /\ Len(t) = Len(s) + 1 /\ t[Len(s) + 1] = i
            /\ \A k \in 1 .. Len(s) : t[k] = s[k]
        BY <2>2, <3>1
      <3>3. PICK l \in Nat : l = Len(s) /\ l <= i - 1
        BY <2>2, LenProperties
      <3>4. ASSUME NEW k \in 1 .. l + 1 PROVE ~Drops(t[k])
        <4>1. k = l + 1 \/ k \in 1 .. l
          OBVIOUS
        <4> HIDE DEF Drops
        <4> QED
          BY <2>2, <2>5, <3>2, <3>3, <4>1, Zenon
      <3>5. Len(t) = l + 1 /\ l + 1 <= i
        BY <3>2, <3>3
      <3>6. Good(t, i)
        <4> HIDE DEF Drops, D
        <4> QED
          BY <3>2, <3>4, <3>5, Zenon
      <3> HIDE DEF Drops, Good
      <3> QED
        BY <2>1, <2>3, <2>5, <3>1, <3>6, Zenon
    <2> QED
      BY <2>4, <2>5, Zenon
  <1>11. n \in T
    <2> HIDE DEF T
    <2>1. n \in 0 .. n
      BY <1>0
    <2> QED
      BY <1>0, <1>9, <1>10, <2>1, Turns
  <1> QED
    BY <1>7, <1>11, Zenon DEF n

HasAllIDs(rs) == \A c \in DOMAIN rs.types : IDsOf(rs)[c] # "none"

LEMMA IDIs ==
    ASSUME NEW rs, HasAllIDs(rs), NEW c \in DOMAIN rs.types
    PROVE  IDsOf(rs)[c] \in DOMAIN DataTypes
  <1>1. IDsOf(rs)[c] = NewObjectIDFrom(rs.types[c])
    BY Zenon DEF IDsOf
  <1> QED
    BY <1>1, IDsAre, Zenon DEF HasAllIDs

LEMMA RowFieldsAre ==
    ASSUME NEW rs \in ResultSets, HasAllIDs(rs)
    PROVE  RowFields(rs) \in Short16(Field)
  <1>1. PICK n \in Nat : /\ Len(rs.types) = n /\ n <= MaxInt16 /\ DOMAIN rs.types = 1 .. n
                         /\ \A c \in 1 .. n : rs.names[c] \in Names
    BY ResultSetIs, Zenon
  <1>2. ASSUME NEW c \in 1 .. n
        PROVE  [name   |-> rs.names[c], number |-> c,
                oid    |-> DataTypes[IDsOf(rs)[c]][1],
                size   |-> DataTypes[IDsOf(rs)[c]][2],
                format |-> FormatCode(IDsOf(rs)[c])] \in Field
    <2>1. PICK id \in DOMAIN DataTypes : id = IDsOf(rs)[c]
      BY <1>1, IDIs, Zenon
    <2>2. PICK oid \in Int31, size \in Int16s, format \in Int16s :
            oid = DataTypes[id][1] /\ size = DataTypes[id][2] /\ format = FormatCode(id)
      BY DataTypesAre, Zenon
    <2>3. PICK name \in Names : name = rs.names[c]
      BY <1>1
    <2>4. c \in Int16s
      <3>1. c \in Int /\ -32768 <= c /\ c <= MaxInt16
        BY <1>1, Limits, SMT
      <3> QED
        BY <3>1, Int16sAre, SMT
    <2>5. [name |-> name, number |-> c, oid |-> oid, size |-> size, format |-> format] \in Field
      BY <2>2, <2>3, <2>4, Zenon DEF Field
    <2> QED
      BY <2>1, <2>2, <2>3, <2>5, Zenon
  <1>3. RowFields(rs) \in [1 .. n -> Field]
    BY <1>1, <1>2, Zenon DEF RowFields
  <1> QED
    BY <1>1, <1>3 DEF Short16

\* The values of a row are what can be sent, and what is to be read for them.
LEMMA DataRowIs ==
    ASSUME NEW rs \in ResultSets, NEW r \in DOMAIN rs.rows
    PROVE  /\ DataRow(rs, r) = Message("DataRow", DataRow(rs, r).body)
           /\ DataRow(rs, r).body \in Short16(Columns)
           /\ HasAllIDs(rs) /\ ~Unencodable(rs, r) => ReadsRow(rs, r, DataRow(rs, r).body)
  <1>1. PICK n \in Nat : /\ Len(rs.types) = n /\ n <= MaxInt16 /\ DOMAIN rs.types = 1 .. n
                         /\ \A c \in 1 .. n : rs.rows[r][c] \in Cell
    BY ResultSetIs, Zenon
  <1>2. PICK kept \in Seq(1 .. n) :
          /\ kept = Kept(rs, r) /\ Len(kept) <= n
          /\ \A k \in 1 .. Len(kept) : ~Refused(IDsOf(rs)[kept[k]], rs.rows[r][kept[k]])
    BY <1>1, KeptIs, Zenon
  <1>3. PICK m \in Nat : m = Len(kept) /\ DOMAIN kept = 1 .. m
    BY LenProperties
  <1>4. DataRow(rs, r)
          = Message("DataRow", [k \in 1 .. m |-> AppendData(IDsOf(rs)[kept[k]], rs.rows[r][kept[k]])])
    BY <1>2, <1>3, Zenon DEF DataRow
  <1>5. PICK body :
          body = [k \in 1 .. m |-> AppendData(IDsOf(rs)[kept[k]], rs.rows[r][kept[k]])]
    OBVIOUS
  <1>6. DataRow(rs, r) = Message("DataRow", body) /\ DataRow(rs, r).body = body
    <2>1. DataRow(rs, r) = Message("DataRow", body)
      BY <1>4, <1>5, Zenon
    <2> QED
      BY <2>1, SMT DEF Message
  <1>7. ASSUME NEW k \in 1 .. m PROVE kept[k] \in 1 .. n /\ rs.rows[r][kept[k]] \in Cell
    BY <1>1, <1>3, ElementOfSeq
  <1>8. body \in Short16(Columns)
    <2>1. body \in [1 .. m -> Columns]
      BY <1>5, <1>7, ValueIsColumn, Zenon
    <2>2. m <= MaxInt16
      BY <1>1, <1>2, <1>3, SMT DEF MaxInt16
    <2> QED
      BY <2>1, <2>2 DEF Short16
  <1>9. ASSUME HasAllIDs(rs), ~Unencodable(rs, r) PROVE ReadsRow(rs, r, body)
    <2>1. ASSUME NEW k \in 1 .. m
          PROVE  AppendData(IDsOf(rs)[kept[k]], rs.rows[r][kept[k]])
                   = Shown(IDsOf(rs)[kept[k]], rs.rows[r][kept[k]])
      <3>1. PICK c, id, cell : c = kept[k] /\ id = IDsOf(rs)[c] /\ cell = rs.rows[r][c]
        OBVIOUS
      <3>0. c \in 1 .. n /\ cell \in Cell
        BY <1>7, <3>1, Zenon
      <3>2. id \in DOMAIN DataTypes
        BY <1>1, <1>9, <3>0, <3>1, IDIs, Zenon
      <3>3. ~Refused(id, cell)
        BY <1>2, <1>3, <3>1, Zenon
      <3>4. ~NotEncodable(id, cell)
        BY <1>1, <1>9, <3>0, <3>1, Zenon DEF Unencodable
      <3> QED
        BY <3>0, <3>1, <3>2, <3>3, <3>4, ValueIsShown, Zenon
    <2>2. body = [k \in 1 .. m |-> Shown(IDsOf(rs)[kept[k]], rs.rows[r][kept[k]])]
      BY <1>5, <2>1, Zenon
    <2> QED
      BY <1>2, <1>3, <2>2, Zenon DEF ReadsRow
  <1> QED
    BY <1>6, <1>8, <1>9, Zenon

LEMMA ObjectIDIs ==
    ASSUME NEW rs \in ResultSets, NEW name
    PROVE  ObjectID(rs, name) \in Int31
  <1>1. PICK n \in Nat, m \in Nat :
          /\ Len(rs.types) = n /\ n <= MaxInt16 /\ DOMAIN rs.rows = 1 .. m
          /\ \A r \in 1 .. m : \A c \in 1 .. n : rs.rows[r][c] \in Cell
    BY ResultSetIs, Zenon
  <1> DEFINE named == {r \in DOMAIN rs.rows :
                         Numbers(rs, r) /\ DataRow(rs, r).body[1] = <<name>>}
  <1>2. CASE named = {}
    <2>1. ObjectID(rs, name) = 0
      BY <1>2, Zenon DEF ObjectID
    <2> QED
      BY <2>1, SmallNumbers, SMT
  <1>3. CASE named # {}
    <2>1. named \in SUBSET Nat
      BY <1>1
    <2>2. \E r \in named : \A s \in named : r <= s
      <3> HIDE DEF named
      <3> QED
        BY <1>3, <2>1, NatMin
    <2>3. PICK r \in named : r = CHOOSE x \in named : \A s \in named : x <= s
      <3> HIDE DEF named
      <3> QED
        BY <2>2
    <2>4. ObjectID(rs, name) = rs.rows[r][Kept(rs, r)[2]].v
      BY <1>3, <2>3, Zenon DEF ObjectID
    <2>5. r \in 1 .. m /\ Len(Kept(rs, r)) >= 2
      BY <1>1 DEF Numbers
    <2>6. PICK kept \in Seq(1 .. n) : kept = Kept(rs, r) /\ Len(kept) >= 2
      BY <1>1, <2>5, KeptIs, Zenon
    <2>7. kept[2] \in 1 .. n
      <3>1. 2 \in 1 .. Len(kept)
        BY <2>6, LenProperties
      <3> QED
        BY <3>1, ElementOfSeq
    <2>8. rs.rows[r][kept[2]] \in Cell
      BY <1>1, <2>5, <2>7
    <2>9. rs.rows[r][kept[2]].v \in Int31
      BY <2>8 DEF Cell
    <2> QED
      BY <2>4, <2>6, <2>9, Zenon
  <1> QED
    BY <1>2, <1>3

Outgoing == Sendable \cup {Broken}

LEMMA BrokenIsNotSent == Broken \notin Sendable /\ \A msg \in Sendable : msg # Broken
  BY DEF Broken, Message, Sendable, Plains

LEMMA Between ==
    ASSUME NEW S, NEW x \in S, NEW z \in S, NEW b \in Seq(S), NEW m \in Nat, Len(b) = m
    PROVE  /\ <<x>> \o b \o <<z>> \in Seq(S) /\ Len(<<x>> \o b \o <<z>>) = m + 2
           /\ (<<x>> \o b \o <<z>>)[1] = x /\ (<<x>> \o b \o <<z>>)[m + 2] = z
           /\ \A i \in 1 .. m : (<<x>> \o b \o <<z>>)[i + 1] = b[i]
  <1>1. PICK y : y = <<x>> \o b
    OBVIOUS
  <1>2. /\ y \in Seq(S) /\ Len(y) = m + 1 /\ y[1] = x
        /\ \A i \in 1 .. m : y[i + 1] = b[i]
    BY <1>1
  <1>3. PICK t : t = y \o <<z>>
    OBVIOUS
  <1>4. t \in Seq(S) /\ Len(t) = m + 2 /\ t[m + 2] = z /\ \A i \in 1 .. m + 1 : t[i] = y[i]
    BY <1>2, <1>3
  <1>5. t[1] = x /\ \A i \in 1 .. m : t[i + 1] = b[i]
    BY <1>2, <1>4
  <1> QED
    BY <1>1, <1>3, <1>4, <1>5, Zenon

\* what is sent for a result set
Listed(rs, list, m) ==
    /\ Len(rs.rows) = m /\ DOMAIN rs.rows = 1 .. m
    /\ list \in Seq(Outgoing) /\ Len(list) = m + 2
    /\ list[1] = Message("RowDescription", RowFields(rs))
    /\ list[m + 2] = Complete("SELECT", m)
    /\ \A r \in 1 .. m : list[r + 1] = RowOfResult(rs, r)

LEMMA RowsAreListed ==
    ASSUME NEW rs \in ResultSets, HasAllIDs(rs)
    PROVE  \E m \in Nat : Listed(rs, RowsOfResult(rs), m)
  <1>1. PICK m \in Nat : Len(rs.rows) = m /\ m <= MaxInt32 /\ DOMAIN rs.rows = 1 .. m
    BY ResultSetIs, Zenon
  <1>2. PICK x \in Outgoing : x = Message("RowDescription", RowFields(rs))
    <2>1. PICK fields \in Short16(Field) : fields = RowFields(rs)
      BY RowFieldsAre, Zenon
    <2>2. Message("RowDescription", fields) \in Sendable
      BY DEF Sendable, Message
    <2> QED
      BY <2>1, <2>2, Zenon DEF Outgoing
  <1>3. PICK z \in Outgoing : z = Complete("SELECT", m)
    <2>1. m \in 0 .. MaxInt32
      BY <1>1, Int31sAre, SMT
    <2>2. [word |-> "SELECT", n |-> m] \in Tags
      BY <2>1, Zenon DEF Tags, WithCount
    <2>3. Complete("SELECT", m) \in Sendable
      BY <2>2 DEF Sendable, Complete, Message
    <2> QED
      BY <2>3, Zenon DEF Outgoing
  <1>4. PICK b : b = [r \in DOMAIN rs.rows |-> RowOfResult(rs, r)]
    OBVIOUS
  <1>5. b \in Seq(Outgoing) /\ Len(b) = m /\ \A r \in 1 .. m : b[r] = RowOfResult(rs, r)
    <2>1. ASSUME NEW r \in 1 .. m PROVE RowOfResult(rs, r) \in Outgoing
      <3>1. PICK body \in Short16(Columns) : DataRow(rs, r) = Message("DataRow", body)
        BY <1>1, DataRowIs, Zenon
      <3>2. Message("DataRow", body) \in Sendable
        BY DEF Sendable, Message
      <3> QED
        BY <3>1, <3>2, Zenon DEF RowOfResult, Outgoing
    <2> QED
      BY <1>1, <1>4, <2>1
  <1>6. RowsOfResult(rs) = <<x>> \o b \o <<z>>
    BY <1>1, <1>2, <1>3, <1>4, Zenon DEF RowsOfResult
  <1>7. /\ <<x>> \o b \o <<z>> \in Seq(Outgoing) /\ Len(<<x>> \o b \o <<z>>) = m + 2
        /\ (<<x>> \o b \o <<z>>)[1] = x /\ (<<x>> \o b \o <<z>>)[m + 2] = z
        /\ \A i \in 1 .. m : (<<x>> \o b \o <<z>>)[i + 1] = b[i]
    BY <1>5, Between
  <1>8. PICK list : list = RowsOfResult(rs)
    OBVIOUS
  <1>9. /\ list \in Seq(Outgoing) /\ Len(list) = m + 2 /\ list[1] = x /\ list[m + 2] = z
        /\ \A i \in 1 .. m : list[i + 1] = b[i]
    BY <1>6, <1>7, <1>8, Zenon
  <1> QED
    BY <1>1, <1>2, <1>3, <1>5, <1>8, <1>9, Zenon DEF Listed

\* A list of responses that is put on the connection.
Given(answer) == answer.list \in Seq(Outgoing) /\ answer.failed \in BOOLEAN

LEMMA ResponsesAre == \A list : Responses(list).list = list /\ Responses(list).failed = FALSE
  BY DEF Responses

LEMMA GivenList ==
    ASSUME NEW list \in Seq(Sendable)
    PROVE  Given(Responses(list))
  <1>1. Sendable \subseteq Outgoing
    BY Zenon DEF Outgoing
  <1>2. list \in Seq(Outgoing)
    BY <1>1
  <1> QED
    BY <1>2, Zenon DEF Given, Responses

LEMMA GivenRefusal == Given(Refusal)
  BY DEF Given, Refusal

LEMMA GivenOne ==
    ASSUME NEW msg \in Sendable
    PROVE  Given(Responses(<<msg>>))
  <1>1. <<msg>> \in Seq(Sendable)
    OBVIOUS
  <1> QED
    BY <1>1, GivenList, Zenon

LEMMA PlainIsSent ==
    ASSUME NEW type \in Plains
    PROVE  Plain(type) \in Sendable
  BY DEF Plain, Message, Sendable, Plains

LEMMA TagIsSent ==
    ASSUME NEW word, NEW n, \/ word \in WithCount /\ n \in 0 .. MaxInt32
                            \/ word \in WithoutCount /\ n = NoCount
    PROVE  Complete(word, n) \in Sendable
  <1>1. NoCount = -1
    BY DEF NoCount
  <1>2. [word |-> word, n |-> n] \in Tags
    BY <1>1, Zenon DEF Tags
  <1> QED
    BY <1>2 DEF Complete, Message, Sendable

LEMMA ErrorIsSent ==
    /\ Message("ErrorResponse", Error) \in Sendable
    /\ Message("ErrorResponse", <<>>) \in Sendable
  <1>1. Spelling["error"] \in Names
    BY SpellingAssumption, TagsAssumption, Zenon DEF Names
  <1>2. Error \in {<<>>} \cup {<<t>> : t \in Names} /\ <<>> \in {<<>>} \cup {<<t>> : t \in Names}
    BY <1>1 DEF Error
  <1> QED
    BY <1>2 DEF Message, Sendable

LEMMA ReadyIsSent == Message("ReadyForQuery", TransactionIdle) \in Sendable
  <1>1. TransactionIdle \in Byte
    BY DEF TransactionIdle, Byte
  <1> QED
    BY <1>1 DEF Message, Sendable

LEMMA ResultIsGiven ==
    ASSUME NEW rs \in ResultSets
    PROVE  /\ HasAllIDs(rs) => NewResponseFromResultSet(rs) = Responses(RowsOfResult(rs))
           /\ ~HasAllIDs(rs) => NewResponseFromResultSet(rs) = Refusal
           /\ Given(NewResponseFromResultSet(rs))
  <1>1. CASE HasAllIDs(rs)
    <2>1. NewResponseFromResultSet(rs) = Responses(RowsOfResult(rs))
      BY <1>1, Zenon DEF NewResponseFromResultSet, HasAllIDs
    <2>2. RowsOfResult(rs) \in Seq(Outgoing)
      BY <1>1, RowsAreListed, Zenon DEF Listed
    <2> QED
      BY <1>1, <2>1, <2>2, ResponsesAre, Zenon DEF Given
  <1>2. CASE ~HasAllIDs(rs)
    <2>1. NewResponseFromResultSet(rs) = Refusal
      BY <1>2, Zenon DEF NewResponseFromResultSet, HasAllIDs
    <2> QED
      BY <1>2, <2>1, GivenRefusal, Zenon
  <1> QED
    BY <1>1, <1>2, Zenon

LEMMA DescribeIsGiven ==
    ASSUME NEW rs \in ResultSets, NEW names \in Selectors
    PROVE  Given(DescribeStatement(rs, names))
  <1>1. CASE NewResponseFromResultSet(rs).failed
    BY <1>1, GivenRefusal, Zenon DEF DescribeStatement
  <1>2. CASE ~NewResponseFromResultSet(rs).failed
    <2>1. PICK ids : ids = [k \in DOMAIN names |-> ObjectID(rs, names[k])]
      OBVIOUS
    <2>2. PICK n \in Nat : DOMAIN names = 1 .. n /\ Len(names) = n /\ n <= MaxInt16
      BY SelectorsAssumption, LenProperties
    <2>3. ids \in [1 .. n -> Int31]
      BY <2>1, <2>2, ObjectIDIs, Zenon
    <2>4. ids \in Short16(Int31)
      BY <2>2, <2>3 DEF Short16
    <2>5. PICK x \in Sendable, y \in Sendable :
            x = Message("ParameterDescription", ids) /\ y = Plain("NoData")
      <3>1. Message("ParameterDescription", ids) \in Sendable
        BY <2>4 DEF Message, Sendable
      <3>2. "NoData" \in Plains
        BY DEF Plains
      <3> QED
        BY <3>1, <3>2, PlainIsSent, Zenon
    <2>6. <<x, y>> \in Seq(Sendable)
      OBVIOUS
    <2>7. DescribeStatement(rs, names) = Responses(<<x, y>>)
      BY <1>2, <2>1, <2>5, Zenon DEF DescribeStatement
    <2> QED
      BY <2>6, <2>7, GivenList, Zenon
  <1> QED
    BY <1>1, <1>2, Zenon

LEMMA PartitionIsGiven == Given(GetPartition)
  <1>1. 2 \in Int31 /\ 0 \in Int31
    BY SmallNumbers, SMT
  <1>2. PICK c \in Columns, d \in Columns, e \in Columns :
          c = <<Digits(2)>> /\ d = <<>> /\ e = <<Digits(0)>>
    BY <1>1, DigitsAre, Zenon DEF Columns
  <1>3. PICK row : row = <<c, d, e>>
    OBVIOUS
  <1>4. row \in Short16(Columns)
    <2>1. row \in Seq(Columns) /\ Len(row) = 3
      BY <1>3
    <2>2. 3 <= MaxInt16
      BY SMT DEF MaxInt16
    <2> QED
      BY <2>1, <2>2, Zenon DEF Short16
  <1>5. <<>> \in Short16(Field)
    <2>1. 0 <= MaxInt16
      BY SMT DEF MaxInt16
    <2>2. <<>> \in Seq(Field) /\ Len(<<>>) = 0
      OBVIOUS
    <2> QED
      BY <2>1, <2>2, Zenon DEF Short16
  <1>6. PICK x \in Sendable, y \in Sendable, z \in Sendable :
          /\ x = Message("RowDescription", <<>>) /\ y = Message("DataRow", row)
          /\ z = Complete("SELECT", 1)
    <2>1. Message("RowDescription", <<>>) \in Sendable
      BY <1>5 DEF Message, Sendable
    <2>2. Message("DataRow", row) \in Sendable
      BY <1>4 DEF Message, Sendable
    <2>3. "SELECT" \in WithCount /\ 1 \in 0 .. MaxInt32
      <3>1. 1 \in 0 .. MaxInt32
        BY SmallNumbers, SMT
      <3> QED
        BY <3>1, Zenon DEF WithCount
    <2>4. Complete("SELECT", 1) \in Sendable
      BY <2>3, TagIsSent, Zenon
    <2> QED
      BY <2>1, <2>2, <2>4, Zenon
  <1>7. <<x, y, z>> \in Seq(Sendable)
    OBVIOUS
  <1>8. GetPartition = Responses(<<x, y, z>>)
    BY <1>2, <1>3, <1>6, Zenon DEF GetPartition
  <1> QED
    BY <1>7, <1>8, GivenList, Zenon

LEMMA GreetingIsGiven == Given(Greeting)
  <1>1. 0 \in Int31 /\ 1 \in Int31 /\ 300 \in Int31
    BY SmallNumbers, SMT
  <1>2. PICK c \in Names, s \in Names, u \in Names :
          c = Spelling["client"] /\ s = Spelling["server"] /\ u = Spelling["UTF8"]
    BY SpellingAssumption, TagsAssumption, Zenon DEF Names
  <1>3. PICK w \in Sendable, x \in Sendable, y \in Sendable, z \in Sendable :
          /\ w = Message("Authentication", 0) /\ x = Message("ParameterStatus", <<c, u>>)
          /\ y = Message("ParameterStatus", <<s, u>>)
          /\ z = Message("BackendKeyData", <<1, 300>>)
    <2>1. Message("Authentication", 0) \in Sendable
      BY <1>1 DEF Message, Sendable
    <2>2. /\ <<c, u>> \in Names \X Names /\ <<s, u>> \in Names \X Names
          /\ <<1, 300>> \in Int31 \X Int31
      BY <1>1
    <2>3. /\ Message("ParameterStatus", <<c, u>>) \in Sendable
          /\ Message("ParameterStatus", <<s, u>>) \in Sendable
          /\ Message("BackendKeyData", <<1, 300>>) \in Sendable
      BY <2>2 DEF Message, Sendable
    <2> QED
      BY <2>1, <2>3, Zenon
  <1>4. <<w, x, y, z>> \in Seq(Sendable)
    OBVIOUS
  <1>5. Greeting = Responses(<<w, x, y, z>>)
    BY <1>2, <1>3, Zenon DEF Greeting
  <1> QED
    BY <1>4, <1>5, GivenList, Zenon

LEMMA CopyIsGiven ==
    ASSUME NEW n \in Nat, n <= MaxInt16
    PROVE  Given(Responses(<<Message("CopyInResponse", [c \in 1 .. n |-> TextFormat])>>))
  <1>1. PICK codes : codes = [c \in 1 .. n |-> TextFormat]
    OBVIOUS
  <1>2. TextFormat \in Int16s
    BY Limits, Int16sAre, SMT DEF TextFormat
  <1>3. codes \in [1 .. n -> Int16s]
    BY <1>1, <1>2
  <1>4. codes \in Short16(Int16s)
    BY <1>3 DEF Short16
  <1>5. Message("CopyInResponse", codes) \in Sendable
    BY <1>4 DEF Message, Sendable
  <1> QED
    BY <1>1, <1>5, GivenOne, Zenon

\* Whatever is requested, and whoever is installed.
LEMMA AnswerIsGiven ==
    ASSUME NEW q \in Request
    PROVE  Given(AnswerTo(q))
  <1>1. CASE q.type = "STARTUP"
    BY <1>1, GreetingIsGiven DEF AnswerTo
  <1>2. CASE q.type = "PASSWORD REFUSED"
    <2>1. AnswerTo(q) = Responses(<<Message("ErrorResponse", <<>>)>>)
      BY <1>2 DEF AnswerTo
    <2> QED
      BY <2>1, ErrorIsSent, GivenOne, Zenon
  <1>3. CASE q.type \in {"EMPTY", "VACUUM"}
    <2>1. AnswerTo(q) = Responses(<<Complete(q.type, NoCount)>>)
      BY <1>3 DEF AnswerTo
    <2>2. q.type \in WithoutCount
      BY <1>3 DEF WithoutCount
    <2> QED
      BY <2>1, <2>2, TagIsSent, GivenOne, Zenon
  <1>4. CASE q.type \in {"Parse", "Bind", "Close", "Describe portal"}
    <2>1. \E t \in Plains : AnswerTo(q) = Responses(<<Plain(t)>>)
      BY <1>4 DEF AnswerTo, Plains
    <2> QED
      BY <2>1, PlainIsSent, GivenOne, Zenon
  <1>5. CASE q.type = "Describe other"
    <2>1. AnswerTo(q) = Responses(<<Message("ParameterDescription", <<>>), Plain("NoData")>>)
      BY <1>5 DEF AnswerTo
    <2>2. <<>> \in Short16(Int31)
      <3>1. 0 <= MaxInt16
        BY SMT DEF MaxInt16
      <3>2. <<>> \in Seq(Int31) /\ Len(<<>>) = 0
        OBVIOUS
      <3> QED
        BY <3>1, <3>2, Zenon DEF Short16
    <2>3. Message("ParameterDescription", <<>>) \in Sendable
      BY <2>2 DEF Message, Sendable
    <2>4. Plain("NoData") \in Sendable
      BY PlainIsSent DEF Plains
    <2>5. <<Message("ParameterDescription", <<>>), Plain("NoData")>> \in Seq(Sendable)
      BY <2>3, <2>4
    <2> QED
      BY <2>1, <2>5, GivenList, Zenon
  <1>6. CASE q.type = "Sync"
    <2>1. AnswerTo(q) = Responses(<<>>)
      BY <1>6 DEF AnswerTo
    <2>2. <<>> \in Seq(Sendable)
      OBVIOUS
    <2> QED
      BY <2>1, <2>2, GivenList, Zenon
  <1>7. CASE q.type = "SYNTAX ERROR"
    <2>1. AnswerTo(q) = ParserError(q)
      BY <1>7 DEF AnswerTo
    <2> QED
      BY <2>1, PartitionIsGiven, ErrorIsSent, GivenOne, Zenon DEF ParserError
  <1> DEFINE Others == {"SELECT", "SYSTEM SELECT", "Describe", "COPY"}
                         \cup Counted \cup Tagged \cup Extra
  <1>8. CASE q.type \in Others
    <2>1. AnswerTo(q) = IF Fails(q) THEN Refusal ELSE Executed(q)
      BY <1>8 DEF AnswerTo, Counted, Tagged, Indexes, Extra
    <2>2. ASSUME ~Fails(q) PROVE Given(Executed(q))
      <3>1. q.result # Failure
        BY <2>2 DEF Fails
      <3>2. CASE q.type \in {"SELECT", "SYSTEM SELECT"}
        <4>1. q.result \in ResultSets
          BY <3>1, <3>2 DEF Request, Counted, Tagged, Indexes, Extra
        <4>2. Executed(q) = NewResponseFromResultSet(q.result)
          BY <3>2 DEF Executed, Counted, Tagged, Indexes, Extra
        <4> QED
          BY <4>1, <4>2, ResultIsGiven, Zenon
      <3>3. CASE q.type = "Describe"
        <4>1. q.result \in ResultSets /\ q.names \in Selectors
          BY <3>1, <3>3 DEF Request, Counted, Tagged, Indexes, Extra
        <4>2. Executed(q) = DescribeStatement(q.result, q.names)
          BY <3>3 DEF Executed, Counted, Tagged, Indexes, Extra
        <4> QED
          BY <4>1, <4>2, DescribeIsGiven, Zenon
      <3>4. CASE q.type = "COPY"
        <4>1. q.result \in [n : {n \in Counts : n <= MaxInt16}]
          BY <3>1, <3>4 DEF Request, Counted, Tagged, Indexes, Extra
        <4>2. q.result.n \in Nat /\ q.result.n <= MaxInt16
          <5>1. q.result.n \in Counts /\ q.result.n <= MaxInt16
            BY <4>1
          <5>2. q.result.n \in 0 .. MaxInt32
            BY <5>1, CountsAssumption, Zenon
          <5> QED
            BY <5>1, <5>2, Int31sAre, Zenon
        <4>3. Executed(q) = Responses(<<Message("CopyInResponse",
                                                [c \in 1 .. q.result.n |-> TextFormat])>>)
          BY <3>4 DEF Executed, Counted, Tagged, Indexes, Extra
        <4> QED
          BY <4>2, <4>3, CopyIsGiven, Zenon
      <3>5. CASE q.type \in Counted
        <4>1. q.result \in [n : Counts]
          BY <3>1, <3>5 DEF Request, Counted, Tagged, Indexes, Extra
        <4>2. q.result.n \in 0 .. MaxInt32
          BY <4>1, CountsAssumption
        <4>3. Executed(q) = Responses(<<Complete(q.type, q.result.n)>>)
          BY <3>5 DEF Executed, Counted, Tagged, Indexes, Extra
        <4>4. q.type \in WithCount
          BY <3>5, Zenon DEF WithCount, Counted
        <4> QED
          BY <4>2, <4>3, <4>4, TagIsSent, GivenOne, Zenon
      <3>6. CASE q.type \in Tagged \cup Indexes
        <4>1. Executed(q) = Responses(<<Complete(q.text, NoCount)>>)
          BY <3>6 DEF Executed, Counted, Tagged, Indexes, Extra
        <4>2. q.text \in WithoutCount
          BY <3>6 DEF Request, Counted, Tagged, Indexes, WithoutCount
        <4> QED
          BY <4>1, <4>2, TagIsSent, GivenOne, Zenon
      <3>7. CASE q.type = "TRUNCATE"
        <4>1. Executed(q) = Responses(<<Complete("TRUNCATE", NoCount)>>)
          BY <3>7 DEF Executed, Counted, Tagged, Indexes, Extra
        <4>2. "TRUNCATE" \in WithoutCount
          BY DEF WithoutCount
        <4> QED
          BY <4>1, <4>2, TagIsSent, GivenOne, Zenon
      <3> QED
        BY <1>8, <3>2, <3>3, <3>4, <3>5, <3>6, <3>7, Zenon DEF Extra
    <2> QED
      BY <2>1, <2>2, GivenRefusal, Zenon
  <1>9. \/ q.type \in {"STARTUP", "PASSWORD REFUSED", "EMPTY", "VACUUM", "Parse", "Bind",
                       "Close", "Describe portal", "Describe other", "Sync", "SYNTAX ERROR"}
        \/ q.type \in Others
    BY Zenon DEF Request, Extra
  <1> QED
    BY <1>1, <1>2, <1>3, <1>4, <1>5, <1>6, <1>7, <1>8, <1>9, Zenon

-----------------------------------------------------------------------------
(***************************************************************************)
(* How far the answer has come.  list and refused are the answer, out what *)
(* has been sent of it.                                                    *)
(***************************************************************************)
ErrorMessage == Message("ErrorResponse", Error)
ReadyMessage == Message("ReadyForQuery", TransactionIdle)

\* the list has been sent up to a message that cannot be encoded
CutShort(list, out) ==
    \E rest \in Seq(Outgoing) : list = (out \o <<Broken>>) \o rest

\* all of the list, or some of it and an error
Ended(list, refused, out) ==
    \/ out = list /\ ~refused
    \/ \E done \in Seq(Sendable) :
          /\ out = Append(done, ErrorMessage)
          /\ (done = list /\ refused) \/ CutShort(list, done)

Writing(list, refused, out, todo, error) ==
    \/ list = out \o todo /\ error = (IF refused THEN Error ELSE <<>>)
    \/ todo = <<>> /\ error = Error /\ CutShort(list, out)
    \/ todo = <<>> /\ error = <<>> /\ Ended(list, refused, out)

Copies(msgs) == \E i \in DOMAIN msgs : msgs[i].type = "CopyInResponse"

Answered(list, refused, out) ==
    \E body \in Seq(Sendable) :
        /\ Ended(list, refused, body)
        /\ out = Append(body, ReadyMessage) \/ (Copies(body) /\ out = body)

ListOf(q)  == AnswerTo(q).list
Refuses(q) == AnswerTo(q).failed

Typed ==
    /\ request \in Request \cup {None}
    /\ stage \in {"idle", "write", "crashed"}
    /\ pending \in Seq(Outgoing) /\ failed \in {<<>>, Error}

Flows == \E old, new : Flow(sent, seen, wire, old, new)

Progress ==
    /\ request = None => stage = "idle" /\ sent = <<>> /\ seen = <<>> /\ wire = <<>>
    /\ stage = "idle" => pending = <<>> /\ failed = <<>>
    /\ stage = "write" => Writing(ListOf(request), Refuses(request), sent, pending, failed)
    /\ request # None /\ stage = "idle" => Answered(ListOf(request), Refuses(request), sent)

AnswerInv == Typed /\ Flows /\ Progress

\* An answer does not change while it is given: the application may replace its
\* executors between two requests.
LEMMA AnswerStays ==
    ASSUME UNCHANGED <<executorVars, request>>
    PROVE  ListOf(request)' = ListOf(request) /\ Refuses(request)' = Refuses(request)
  <1>1. installed' = installed /\ uses' = uses /\ request' = request
    BY DEF executorVars
  <1>2. Fails(request)' = Fails(request)
    BY <1>1 DEF Fails, NotImplemented, SlotOf, HolderOf
  <1>3. ParserError(request)' = ParserError(request)
    BY <1>1 DEF ParserError
  <1>4. AnswerTo(request)' = AnswerTo(request)
    BY <1>1, <1>2, <1>3 DEF AnswerTo
  <1> QED
    BY <1>4 DEF ListOf, Refuses

LEMMA HeadMoves ==
    ASSUME NEW S, NEW x \in Seq(S), NEW y \in Seq(S), y # <<>>
    PROVE  /\ Head(y) \in S /\ Tail(y) \in Seq(S)
           /\ x \o y = (x \o <<Head(y)>>) \o Tail(y)
           /\ x \o y = Append(x, Head(y)) \o Tail(y)
  <1>1. PICK e \in S, z \in Seq(S) : e = Head(y) /\ z = Tail(y)
    BY HeadTailProperties
  <1>2. y = <<e>> \o z /\ <<e>> \in Seq(S)
    BY <1>1
  <1>3. /\ x \o y = (x \o <<e>>) \o z /\ x \o y = Append(x, e) \o z
    <2>1. (x \o <<e>>) \o z = x \o (<<e>> \o z)
      BY <1>2, ConcatAssociative
    <2>2. Append(x, e) = x \o <<e>>
      BY AppendIsConcat
    <2> QED
      BY <1>2, <2>1, <2>2, Zenon
  <1> QED
    BY <1>1, <1>3, Zenon

LEMMA SentIsOutgoing ==
    ASSUME NEW s \in Seq(Sendable)
    PROVE  s \in Seq(Outgoing) /\ Len(s) \in Nat
  <1>1. Sendable \subseteq Outgoing
    BY Zenon DEF Outgoing
  <1> QED
    BY <1>1

LEMMA AnswerInit == Init => AnswerInv
  <1> SUFFICES ASSUME Init PROVE AnswerInv
    OBVIOUS
  <1>1. Typed
    <2>1. <<>> \in Seq(Outgoing)
      OBVIOUS
    <2> QED
      BY <2>1, Zenon DEF Init, Typed
  <1>2. Flows
    BY FlowEmpty, Zenon DEF Init, Flows
  <1>3. Progress
    BY DEF Init, Progress
  <1> QED
    BY <1>1, <1>2, <1>3 DEF AnswerInv

LEMMA NextRequestInv ==
    ASSUME AnswerInv, NextRequest
    PROVE  AnswerInv'
  <1>1. Typed'
    BY DEF AnswerInv, Typed, NextRequest
  <1>2. Flows'
    <2>1. Flow(sent', seen', wire', <<>>, <<>>)
      BY FlowEmpty, Zenon DEF NextRequest, HasReadAll
    <2> QED
      BY <2>1, Zenon DEF Flows
  <1>3. Progress'
    BY DEF AnswerInv, Progress, NextRequest, HasReadAll
  <1> QED
    BY <1>1, <1>2, <1>3 DEF AnswerInv

LEMMA SetUpInv ==
    ASSUME AnswerInv, SetUp
    PROVE  AnswerInv'
  <1>1. UNCHANGED answerVars /\ request = None
    BY DEF SetUp
  <1>2. Typed'
    BY <1>1 DEF AnswerInv, Typed, answerVars
  <1>3. Flows'
    BY <1>1, Zenon DEF AnswerInv, Flows, answerVars
  <1>4. Progress'
    BY <1>1 DEF AnswerInv, Progress, answerVars
  <1> QED
    BY <1>2, <1>3, <1>4 DEF AnswerInv

LEMMA ServeInv ==
    ASSUME AnswerInv, NEW q \in Request, Serve(q)
    PROVE  AnswerInv'
  <1>1. /\ request = None /\ request' = q /\ sent = <<>> /\ stage = "idle"
        /\ UNCHANGED <<executorVars, wire, sent, seen>>
        /\ pending = <<>> /\ failed = <<>>
    BY DEF AnswerInv, Progress, Serve
  <1>2. Given(AnswerTo(q))
    BY AnswerIsGiven
  <1>3. \/ /\ stage' = "crashed" /\ UNCHANGED <<pending, failed>>
        \/ /\ stage' = "write" /\ pending' = AnswerTo(q).list
           /\ failed' = IF AnswerTo(q).failed THEN Error ELSE <<>>
    BY DEF Serve
  <1>4. Typed'
    BY <1>1, <1>2, <1>3 DEF AnswerInv, Typed, Given
  <1>5. Flows'
    BY <1>1, Zenon DEF AnswerInv, Flows
  <1>6. ListOf(request)' = AnswerTo(q).list /\ Refuses(request)' = AnswerTo(q).failed
    <2>1. /\ installed' = installed /\ uses' = uses
      BY <1>1 DEF executorVars
    <2>2. Fails(request)' = Fails(q)
      BY <1>1, <2>1 DEF Fails, NotImplemented, SlotOf, HolderOf
    <2>3. ParserError(request)' = ParserError(q)
      BY <1>1, <2>1 DEF ParserError
    <2>4. AnswerTo(request)' = AnswerTo(q)
      BY <1>1, <2>2, <2>3 DEF AnswerTo
    <2> QED
      BY <2>4 DEF ListOf, Refuses
  <1>7. q # None
    <2>1. q.type # "none"
      BY DEF Request, Counted, Tagged, Indexes, Extra
    <2>2. None.type = "none"
      BY DEF None
    <2> QED
      BY <2>1, <2>2
  <1>8. Progress'
    <2>1. AnswerTo(q).list = <<>> \o AnswerTo(q).list
      BY <1>2 DEF Given
    <2>2. ASSUME stage' = "write"
          PROVE  Writing(ListOf(request)', Refuses(request)', sent', pending', failed')
      BY <1>1, <1>3, <1>6, <2>1, <2>2 DEF Writing
    <2>3. stage' # "idle" /\ request' # None
      BY <1>1, <1>3, <1>7
    <2> QED
      BY <2>2, <2>3, Zenon DEF Progress
  <1> QED
    BY <1>4, <1>5, <1>8 DEF AnswerInv

LEMMA ClientReadsInv ==
    ASSUME AnswerInv, ClientReads
    PROVE  AnswerInv'
  <1>1. /\ HasFrame(wire) /\ seen' = Append(seen, Frame(wire))
        /\ wire' = SubSeq(wire, FrameLength(wire) + 1, Len(wire))
        /\ UNCHANGED <<executorVars, request, pending, failed, stage, sent>>
    BY DEF ClientReads
  <1>2. Typed'
    BY <1>1 DEF AnswerInv, Typed
  <1>3. Flows'
    <2>1. PICK old, new : Flow(sent, seen, wire, old, new)
      BY DEF AnswerInv, Flows
    <2>2. Flow(sent, seen', wire', Append(old, Head(new)), Tail(new))
      BY <1>1, <2>1, FlowRead, Zenon
    <2> QED
      BY <1>1, <2>2, Zenon DEF Flows
  <1>4. Progress'
    <2>1. ListOf(request)' = ListOf(request) /\ Refuses(request)' = Refuses(request)
      BY <1>1, AnswerStays
    <2>2. request # None
      <3> SUFFICES ASSUME request = None PROVE FALSE
        OBVIOUS
      <3>1. wire = <<>>
        BY DEF AnswerInv, Progress
      <3>2. Len(wire) = 0
        BY <3>1
      <3> QED
        BY <1>1, <3>2 DEF HasFrame
    <2> QED
      BY <1>1, <2>1, <2>2, Zenon DEF AnswerInv, Progress
  <1> QED
    BY <1>2, <1>3, <1>4 DEF AnswerInv

\* A message that is written lies behind those that have not been read.
LEMMA WriteFlows ==
    ASSUME Flows, NEW msg \in Sendable, Write(msg), UNCHANGED seen
    PROVE  Flows' /\ sent \in Seq(Sendable)
  <1>1. PICK old, new : Flow(sent, seen, wire, old, new)
    BY DEF Flows
  <1>2. Flow(sent', seen', wire', old, Append(new, msg))
    BY <1>1, FlowWrite, Zenon DEF Write
  <1>3. sent \in Seq(Sendable)
    BY <1>1, FlowProps, Zenon
  <1> QED
    BY <1>2, <1>3, Zenon DEF Flows

LEMMA MessagesAreSent ==
    /\ ErrorMessage \in Sendable /\ ReadyMessage \in Sendable /\ Error # <<>>
  <1>1. Error # <<>>
    BY DEF Error
  <1> QED
    BY <1>1, ErrorIsSent, ReadyIsSent, Zenon DEF ErrorMessage, ReadyMessage

LEMMA WriteResponseInv ==
    ASSUME AnswerInv, WriteResponse
    PROVE  AnswerInv'
  <1>1. /\ stage = "write" /\ pending # <<>> /\ pending \in Seq(Outgoing)
        /\ UNCHANGED <<executorVars, request, stage, seen>>
    BY DEF WriteResponse, AnswerInv, Typed
  <1>2. /\ ListOf(request)' = ListOf(request) /\ Refuses(request)' = Refuses(request)
        /\ request # None
    BY <1>1, AnswerStays DEF AnswerInv, Progress
  <1>3. PICK list, refused : list = ListOf(request) /\ refused = Refuses(request)
    OBVIOUS
  <1>4. list = sent \o pending /\ failed = (IF refused THEN Error ELSE <<>>)
    BY <1>1, <1>3, Zenon DEF AnswerInv, Progress, Writing
  <1>5. sent \in Seq(Sendable) /\ sent \in Seq(Outgoing)
    <2>1. PICK old, new : Flow(sent, seen, wire, old, new)
      BY DEF AnswerInv, Flows
    <2> QED
      BY <2>1, FlowProps, SentIsOutgoing, Zenon
  <1>6. PICK head \in Outgoing, tail \in Seq(Outgoing) :
          /\ head = Head(pending) /\ tail = Tail(pending)
          /\ list = (sent \o <<head>>) \o tail /\ list = Append(sent, head) \o tail
    <2>1. /\ Head(pending) \in Outgoing /\ Tail(pending) \in Seq(Outgoing)
          /\ sent \o pending = (sent \o <<Head(pending)>>) \o Tail(pending)
          /\ sent \o pending = Append(sent, Head(pending)) \o Tail(pending)
      BY <1>1, <1>5, HeadMoves
    <2> QED
      BY <1>4, <2>1, Zenon
  <1>7. CASE head = Broken
    <2>1. pending' = <<>> /\ failed' = Error /\ UNCHANGED <<wire, sent>>
      BY <1>6, <1>7, Zenon DEF WriteResponse
    <2>2. Typed'
      BY <1>1, <2>1 DEF AnswerInv, Typed
    <2>3. Flows'
      BY <1>1, <2>1, Zenon DEF AnswerInv, Flows
    <2>4. CutShort(list, sent)
      BY <1>6, <1>7, Zenon DEF CutShort
    <2>5. Writing(list, refused, sent', pending', failed')
      BY <2>1, <2>4, Zenon DEF Writing
    <2>6. Progress'
      BY <1>1, <1>2, <1>3, <2>5 DEF Progress
    <2> QED
      BY <2>2, <2>3, <2>6 DEF AnswerInv
  <1>8. CASE head # Broken
    <2>1. pending' = tail /\ Write(head) /\ UNCHANGED failed
      BY <1>6, <1>8, Zenon DEF WriteResponse
    <2>2. Typed'
      BY <1>1, <2>1 DEF AnswerInv, Typed
    <2>3. head \in Sendable
      BY <1>8 DEF Outgoing
    <2>4. Flows'
      BY <1>1, <2>1, <2>3, WriteFlows, Zenon DEF AnswerInv
    <2>5. Writing(list, refused, sent', pending', failed')
      BY <1>4, <1>6, <2>1, Zenon DEF Writing, Write
    <2>6. Progress'
      BY <1>1, <1>2, <1>3, <2>5 DEF Progress
    <2> QED
      BY <2>2, <2>4, <2>6 DEF AnswerInv
  <1> QED
    BY <1>7, <1>8

LEMMA WriteErrorInv ==
    ASSUME AnswerInv, WriteError
    PROVE  AnswerInv'
  <1>1. /\ stage = "write" /\ pending = <<>> /\ failed # <<>> /\ failed = Error
        /\ UNCHANGED <<executorVars, request, pending, stage, seen>>
        /\ Write(ErrorMessage) /\ failed' = <<>>
    BY DEF WriteError, AnswerInv, Typed, ErrorMessage
  <1>2. /\ ListOf(request)' = ListOf(request) /\ Refuses(request)' = Refuses(request)
        /\ request # None
    BY <1>1, AnswerStays DEF AnswerInv, Progress
  <1>3. PICK list, refused : list = ListOf(request) /\ refused = Refuses(request)
    OBVIOUS
  <1>4. Flows' /\ sent \in Seq(Sendable) /\ sent \in Seq(Outgoing)
    BY <1>1, MessagesAreSent, WriteFlows, SentIsOutgoing, Zenon DEF AnswerInv
  <1>5. \/ list = sent \o pending /\ failed = (IF refused THEN Error ELSE <<>>)
        \/ CutShort(list, sent)
    BY <1>1, <1>3, Zenon DEF AnswerInv, Progress, Writing
  <1>6. (sent = list /\ refused) \/ CutShort(list, sent)
    <2>1. sent \o <<>> = sent
      BY <1>4
    <2> QED
      BY <1>1, <1>5, <2>1, Zenon
  <1>7. Ended(list, refused, sent')
    BY <1>1, <1>4, <1>6, Zenon DEF Ended, Write
  <1>8. Writing(list, refused, sent', pending', failed')
    BY <1>1, <1>7, Zenon DEF Writing
  <1>9. Typed'
    BY <1>1 DEF AnswerInv, Typed
  <1>10. Progress'
    BY <1>1, <1>2, <1>3, <1>8 DEF Progress
  <1> QED
    BY <1>4, <1>9, <1>10 DEF AnswerInv

LEMMA WriteReadyInv ==
    ASSUME AnswerInv, WriteReady
    PROVE  AnswerInv'
  <1>1. /\ stage = "write" /\ pending = <<>> /\ failed = <<>> /\ stage' = "idle"
        /\ UNCHANGED <<executorVars, request, pending, failed, seen>>
    BY DEF WriteReady
  <1>2. /\ ListOf(request)' = ListOf(request) /\ Refuses(request)' = Refuses(request)
        /\ request # None
    BY <1>1, AnswerStays DEF AnswerInv, Progress
  <1>3. PICK list, refused : list = ListOf(request) /\ refused = Refuses(request)
    OBVIOUS
  <1>4. sent \in Seq(Sendable) /\ sent \in Seq(Outgoing)
    <2>1. PICK old, new : Flow(sent, seen, wire, old, new)
      BY DEF AnswerInv, Flows
    <2> QED
      BY <2>1, FlowProps, SentIsOutgoing, Zenon
  <1>5. Ended(list, refused, sent)
    <2>1. \/ list = sent \o <<>> /\ ~refused
          \/ Ended(list, refused, sent)
      BY <1>1, <1>3, MessagesAreSent, Zenon DEF AnswerInv, Progress, Writing
    <2>2. sent \o <<>> = sent
      BY <1>4
    <2> QED
      BY <2>1, <2>2, Zenon DEF Ended
  <1>6. \/ Copies(sent) /\ UNCHANGED <<wire, sent>>
        \/ Write(ReadyMessage)
    BY DEF WriteReady, Copies, ReadyMessage
  <1>7. Flows'
    <2>1. CASE UNCHANGED <<wire, sent>>
      BY <1>1, <2>1, Zenon DEF AnswerInv, Flows
    <2>2. CASE Write(ReadyMessage)
      BY <1>1, <2>2, MessagesAreSent, WriteFlows, Zenon DEF AnswerInv
    <2> QED
      BY <1>6, <2>1, <2>2
  <1>8. Answered(list, refused, sent')
    BY <1>4, <1>5, <1>6, Zenon DEF Answered, Write
  <1>9. Typed'
    BY <1>1 DEF AnswerInv, Typed
  <1>10. Progress'
    BY <1>1, <1>2, <1>3, <1>8 DEF Progress
  <1> QED
    BY <1>7, <1>9, <1>10 DEF AnswerInv

LEMMA AnswerNext ==
    ASSUME AnswerInv, [Next]_vars
    PROVE  AnswerInv'
  <1>1. CASE UNCHANGED vars
    <2>1. UNCHANGED <<executorVars, request, pending, failed, stage, wire, sent, seen>>
      BY <1>1 DEF vars, answerVars
    <2>2. ListOf(request)' = ListOf(request) /\ Refuses(request)' = Refuses(request)
      BY <2>1, AnswerStays
    <2>3. Typed'
      BY <2>1 DEF AnswerInv, Typed
    <2>4. Flows'
      BY <2>1, Zenon DEF AnswerInv, Flows
    <2>5. Progress'
      BY <2>1, <2>2 DEF AnswerInv, Progress
    <2> QED
      BY <2>3, <2>4, <2>5 DEF AnswerInv
  <1>2. CASE Next
    BY <1>2, SetUpInv, ServeInv, WriteResponseInv, WriteErrorInv, WriteReadyInv,
       ClientReadsInv, NextRequestInv DEF Next
  <1> QED
    BY <1>1, <1>2

-----------------------------------------------------------------------------
(***************************************************************************)
(* What the client has read.                                               *)
(***************************************************************************)
\* got is what a client makes of the messages out
GotAll(out, got) ==
    /\ Len(got) = Len(out) /\ DOMAIN got = 1 .. Len(out)
    /\ \A i \in 1 .. Len(out) : got[i] = Meaning(out[i])

LEMMA WireFollows ==
    ASSUME AnswerInv
    PROVE  /\ WireIsFramed
           /\ HasReadAll => GotAll(sent, seen)
           /\ wire \in Seq(Byte)
  <1>1. PICK old, new : Flow(sent, seen, wire, old, new)
    BY DEF AnswerInv, Flows
  <1>2. /\ Len(seen) \in Nat /\ Len(sent) \in Nat /\ Len(seen) <= Len(sent)
        /\ DOMAIN seen = 1 .. Len(seen) /\ wire \in Seq(Byte)
        /\ \A i \in DOMAIN seen : seen[i] = Meaning(sent[i])
        /\ wire = <<>> => Len(seen) = Len(sent)
    BY <1>1, FlowProps, Zenon
  <1> QED
    BY <1>2, Zenon DEF WireIsFramed, HasReadAll, GotAll

LEMMA Joins ==
    ASSUME NEW S, NEW x \in Seq(S), NEW y \in Seq(S)
    PROVE  /\ x \o y \in Seq(S) /\ Len(x \o y) = Len(x) + Len(y)
           /\ \A i \in 1 .. Len(x) : (x \o y)[i] = x[i]
  OBVIOUS

LEMMA CutShortIs ==
    ASSUME NEW list \in Seq(Outgoing), NEW done \in Seq(Sendable), CutShort(list, done)
    PROVE  /\ Len(done) \in Nat /\ Len(list) \in Nat /\ Len(done) < Len(list)
           /\ \A i \in 1 .. Len(done) : list[i] = done[i]
  <1>1. done \in Seq(Outgoing) /\ Broken \in Outgoing
    BY SentIsOutgoing, Zenon DEF Outgoing
  <1>2. PICK rest \in Seq(Outgoing) : list = (done \o <<Broken>>) \o rest
    BY DEF CutShort
  <1>3. PICK y : y = done \o <<Broken>>
    OBVIOUS
  <1>4. y \in Seq(Outgoing) /\ Len(y) = Len(done) + 1 /\ \A i \in 1 .. Len(done) : y[i] = done[i]
    BY <1>1, <1>3
  <1>5. list = y \o rest
    BY <1>2, <1>3
  <1>6. Len(list) = Len(y) + Len(rest) /\ \A i \in 1 .. Len(y) : list[i] = y[i]
    BY <1>4, <1>5, Joins, Zenon
  <1>7. PICK n \in Nat, k \in Nat : n = Len(done) /\ k = Len(rest)
    BY LenProperties
  <1> QED
    BY <1>4, <1>6, <1>7

LEMMA MeaningIs ==
    ASSUME NEW msg
    PROVE  /\ msg.type # "CommandComplete" => Meaning(msg) = msg
           /\ Meaning(msg).type = msg.type
  BY DEF Meaning, Message

\* An answer that ends with an error and ReadyForQuery.
EndsInError(got) ==
    /\ \A i \in DOMAIN got : got[i].type # "CommandComplete"
    /\ got[Len(got) - 1].type = "ErrorResponse"

LEMMA ErrorIsRead ==
    ASSUME NEW done \in Seq(Sendable),
           \A i \in 1 .. Len(done) : done[i].type \notin {"CommandComplete", "CopyInResponse"},
           NEW body, body = Append(done, ErrorMessage),
           NEW out, out = Append(body, ReadyMessage) \/ (Copies(body) /\ out = body),
           NEW got, GotAll(out, got)
    PROVE  EndsInError(got)
  <1>1. PICK n \in Nat : n = Len(done)
    BY LenProperties
  <1>2. ErrorMessage.type = "ErrorResponse" /\ ReadyMessage.type = "ReadyForQuery"
    BY DEF ErrorMessage, ReadyMessage, Message
  <1>3. /\ body \in Seq(Sendable) /\ Len(body) = n + 1 /\ body[n + 1] = ErrorMessage
        /\ \A i \in 1 .. n : body[i] = done[i]
    BY <1>1, MessagesAreSent, Appended
  <1>4. \A i \in 1 .. n + 1 : body[i].type \notin {"CommandComplete", "CopyInResponse"}
    <2> SUFFICES ASSUME NEW i \in 1 .. n + 1
                 PROVE  body[i].type \notin {"CommandComplete", "CopyInResponse"}
      OBVIOUS
    <2>1. CASE i = n + 1
      BY <1>2, <1>3, <2>1
    <2>2. CASE i # n + 1
      <3>1. i \in 1 .. n
        BY <2>2
      <3> QED
        BY <1>1, <1>3, <3>1
    <2> QED
      BY <2>1, <2>2
  <1>5. ~Copies(body)
    BY <1>3, <1>4 DEF Copies
  <1>6. out = Append(body, ReadyMessage)
    BY <1>5
  <1>7. /\ out \in Seq(Sendable) /\ Len(out) = n + 2 /\ out[n + 2] = ReadyMessage
        /\ \A i \in 1 .. n + 1 : out[i] = body[i]
    <2>1. /\ out \in Seq(Sendable) /\ Len(out) = Len(body) + 1 /\ out[Len(body) + 1] = ReadyMessage
          /\ \A i \in 1 .. Len(body) : out[i] = body[i]
      BY <1>3, <1>6, MessagesAreSent, Appended
    <2> QED
      BY <1>3, <2>1
  <1>8. ASSUME NEW i \in 1 .. n + 2 PROVE out[i].type # "CommandComplete"
    <2>1. i = n + 2 \/ i \in 1 .. n + 1
      OBVIOUS
    <2> QED
      BY <1>2, <1>4, <1>7, <2>1
  <1>9. Len(got) = n + 2 /\ DOMAIN got = 1 .. n + 2 /\ \A i \in 1 .. n + 2 : got[i] = Meaning(out[i])
    BY <1>7, Zenon DEF GotAll
  <1>10. \A i \in 1 .. n + 2 : got[i].type = out[i].type
    BY <1>9, MeaningIs, Zenon
  <1>11. n + 1 \in 1 .. n + 2 /\ n + 1 \in 1 .. n + 1 /\ (n + 2) - 1 = n + 1
    OBVIOUS
  <1>12. got[n + 1].type = "ErrorResponse"
    BY <1>2, <1>3, <1>7, <1>10, <1>11, Zenon
  <1> QED
    BY <1>8, <1>9, <1>10, <1>11, <1>12, Zenon DEF EndsInError

\* The answer that is all of a result set, as ResultSetIsRead has it.
ReadsAllOf(rs, got) ==
    /\ Types(got) = <<"RowDescription">> \o [r \in DOMAIN rs.rows |-> "DataRow"]
                        \o <<"CommandComplete", "ReadyForQuery">>
    /\ got[1].body = RowFields(rs)
    /\ \A r \in DOMAIN rs.rows : ReadsRow(rs, r, got[r + 1].body)
    /\ got[Len(got) - 1].body = [word |-> Spelling["SELECT"], n |-> Len(rs.rows)]

LEMMA TypesAreListed ==
    ASSUME NEW rows, NEW m \in Nat, DOMAIN rows = 1 .. m,
           NEW got, Len(got) = m + 3, DOMAIN got = 1 .. m + 3,
           got[1].type = "RowDescription", got[m + 2].type = "CommandComplete",
           got[m + 3].type = "ReadyForQuery",
           \A r \in 1 .. m : got[r + 1].type = "DataRow"
    PROVE  Types(got) = <<"RowDescription">> \o [r \in DOMAIN rows |-> "DataRow"]
                            \o <<"CommandComplete", "ReadyForQuery">>
  <1>0. PICK S : /\ "RowDescription" \in S /\ "DataRow" \in S
                 /\ "CommandComplete" \in S /\ "ReadyForQuery" \in S
    <2>1. PICK S : S = {"RowDescription", "DataRow", "CommandComplete", "ReadyForQuery"}
      OBVIOUS
    <2> QED
      BY <2>1
  <1>1. PICK b : b = [r \in DOMAIN rows |-> "DataRow"]
    OBVIOUS
  <1>2. b \in Seq(S) /\ Len(b) = m /\ \A r \in 1 .. m : b[r] = "DataRow"
    <2>1. b \in [1 .. m -> S] /\ \A r \in 1 .. m : b[r] = "DataRow"
      BY <1>0, <1>1, Zenon
    <2> QED
      BY <2>1
  <1>3. PICK y : y = <<"RowDescription">> \o b
    OBVIOUS
  <1>4. /\ y \in Seq(S) /\ Len(y) = m + 1 /\ y[1] = "RowDescription"
        /\ \A i \in 2 .. m + 1 : y[i] = "DataRow"
    <2>1. PICK a \in S : a = "RowDescription"
      BY <1>0
    <2>2. y = <<a>> \o b
      BY <1>3, <2>1, Zenon
    <2>3. y \in Seq(S) /\ Len(y) = m + 1 /\ y[1] = a /\ \A i \in 2 .. m + 1 : y[i] = b[i - 1]
      BY <1>2, <2>2
    <2>4. \A i \in 2 .. m + 1 : i - 1 \in 1 .. m
      OBVIOUS
    <2> QED
      BY <1>2, <2>1, <2>3, <2>4, Zenon
  <1>5. PICK z : z = <<"CommandComplete", "ReadyForQuery">>
    OBVIOUS
  <1>6. z \in Seq(S) /\ Len(z) = 2 /\ z[1] = "CommandComplete" /\ z[2] = "ReadyForQuery"
    <2>1. PICK c \in S, d \in S : c = "CommandComplete" /\ d = "ReadyForQuery"
      BY <1>0
    <2>2. z = <<c, d>>
      BY <1>5, <2>1, Zenon
    <2>3. z \in Seq(S) /\ Len(z) = 2 /\ z[1] = c /\ z[2] = d
      BY <2>2
    <2> QED
      BY <2>1, <2>3, Zenon
  <1>7. PICK t : t = y \o z
    OBVIOUS
  <1>8. /\ t \in Seq(S) /\ Len(t) = m + 3 /\ t[m + 2] = "CommandComplete"
        /\ t[m + 3] = "ReadyForQuery" /\ \A i \in 1 .. m + 1 : t[i] = y[i]
    <2>0. y \in Seq(S) /\ z \in Seq(S) /\ Len(y) = m + 1 /\ Len(z) = 2
      BY <1>4, <1>6
    <2>1. /\ t \in Seq(S) /\ Len(t) = Len(y) + Len(z)
          /\ \A i \in 1 .. Len(y) : t[i] = y[i]
      <3>1. /\ y \o z \in Seq(S) /\ Len(y \o z) = Len(y) + Len(z)
            /\ \A i \in 1 .. Len(y) : (y \o z)[i] = y[i]
        BY <2>0, Joins, Zenon
      <3> QED
        BY <1>7, <3>1, Zenon
    <2>2. t[(m + 1) + 1] = z[1] /\ t[(m + 1) + 2] = z[2]
      <3>1. PICK k \in Nat, l \in Nat : k = Len(y) /\ l = Len(z) /\ k = m + 1 /\ l = 2
        BY <2>0
      <3>2. ASSUME NEW j \in 1 .. l PROVE t[k + j] = z[j]
        <4>1. k + j \in 1 .. k + l /\ ~(k + j <= k) /\ (k + j) - k = j
          OBVIOUS
        <4>2. \A i \in 1 .. Len(y) + Len(z) :
                (y \o z)[i] = IF i <= Len(y) THEN y[i] ELSE z[i - Len(y)]
          BY <2>0, ConcatProperties
        <4>3. \A i \in 1 .. k + l : t[i] = IF i <= k THEN y[i] ELSE z[i - k]
          BY <1>7, <3>1, <4>2, Zenon
        <4> QED
          BY <4>1, <4>3, Zenon
      <3> QED
        BY <3>1, <3>2
    <2>3. (m + 1) + 1 = m + 2 /\ (m + 1) + 2 = m + 3
      OBVIOUS
    <2>4. t[m + 2] = z[1] /\ t[m + 3] = z[2]
      BY <2>2, <2>3, Zenon
    <2>5. Len(t) = m + 3
      BY <1>4, <1>6, <2>1
    <2> QED
      BY <1>4, <1>6, <2>1, <2>4, <2>5, Zenon
  <1>9. PICK u : u = Types(got)
    OBVIOUS
  <1>10. u = [i \in 1 .. m + 3 |-> got[i].type]
    BY <1>9, Zenon DEF Types
  <1>11. ASSUME NEW i \in 1 .. m + 3 PROVE got[i].type = t[i]
    <2>1. i = 1 \/ i \in 2 .. m + 1 \/ i = m + 2 \/ i = m + 3
      OBVIOUS
    <2>2. CASE i = 1
      <3>1. 1 \in 1 .. m + 1
        OBVIOUS
      <3> QED
        BY <1>4, <1>8, <2>2, <3>1, Zenon
    <2>3. CASE i \in 2 .. m + 1
      <3>1. i - 1 \in 1 .. m /\ (i - 1) + 1 = i /\ i \in 1 .. m + 1
        BY <2>3
      <3>2. got[i].type = "DataRow"
        BY <3>1
      <3> QED
        BY <1>4, <1>8, <2>3, <3>1, <3>2, Zenon
    <2>4. CASE i \in {m + 2, m + 3}
      BY <1>8, <2>4, Zenon
    <2> QED
      BY <2>1, <2>2, <2>3, <2>4, Zenon
  <1>12. u \in Seq(S) /\ Len(u) = m + 3 /\ \A i \in 1 .. m + 3 : u[i] = t[i]
    <2>1. \A i \in 1 .. m + 3 : t[i] \in S
      BY <1>8, ElementOfSeq
    <2> QED
      BY <1>10, <1>11, <2>1
  <1>13. u = t
    <2>1. Len(u) = Len(t) /\ \A i \in 1 .. Len(u) : u[i] = t[i]
      BY <1>8, <1>12
    <2> QED
      BY <1>8, <1>12, <2>1, SeqEqual
  <1> QED
    BY <1>1, <1>3, <1>5, <1>7, <1>9, <1>13, Zenon

LEMMA ResultIsRead ==
    ASSUME NEW rs \in ResultSets, HasAllIDs(rs), NEW m \in Nat,
           NEW list \in Seq(Sendable), Listed(rs, list, m),
           NEW out, out = Append(list, ReadyMessage) \/ (Copies(list) /\ out = list),
           NEW got, GotAll(out, got)
    PROVE  ReadsAllOf(rs, got)
  <1>1. /\ Len(rs.rows) = m /\ DOMAIN rs.rows = 1 .. m /\ Len(list) = m + 2
        /\ list[1] = Message("RowDescription", RowFields(rs))
        /\ list[m + 2] = Complete("SELECT", m)
        /\ \A r \in 1 .. m : list[r + 1] = RowOfResult(rs, r)
    BY DEF Listed
  <1>2. ASSUME NEW r \in 1 .. m
        PROVE  /\ ~Unencodable(rs, r) /\ list[r + 1] = DataRow(rs, r)
               /\ DataRow(rs, r) = Message("DataRow", DataRow(rs, r).body)
               /\ ReadsRow(rs, r, DataRow(rs, r).body)
    <2>1. list[r + 1] \in Sendable
      <3>1. r + 1 \in 1 .. Len(list)
        BY <1>1
      <3> QED
        BY <3>1, ElementOfSeq
    <2>2. ~Unencodable(rs, r) /\ list[r + 1] = DataRow(rs, r)
      BY <1>1, <2>1, BrokenIsNotSent, Zenon DEF RowOfResult
    <2> QED
      BY <1>1, <2>2, DataRowIs, Zenon
  <1>3. /\ ReadyMessage.type = "ReadyForQuery" /\ list[1].type = "RowDescription"
        /\ list[1].body = RowFields(rs)
        /\ list[m + 2] = Message("CommandComplete", [word |-> "SELECT", n |-> m])
        /\ list[m + 2].type = "CommandComplete"
    BY <1>1 DEF ReadyMessage, Message, Complete
  <1>4. ASSUME NEW r \in 1 .. m PROVE list[r + 1].type = "DataRow"
    <2>1. PICK row : list[r + 1] = Message("DataRow", row)
      BY <1>2, Zenon
    <2>2. Message("DataRow", row).type = "DataRow"
      BY DEF Message
    <2> QED
      BY <2>1, <2>2, Zenon
  <1>5. ~Copies(list)
    <2>1. ASSUME NEW i \in 1 .. m + 2 PROVE list[i].type # "CopyInResponse"
      <3>1. i = 1 \/ i = m + 2 \/ (i - 1 \in 1 .. m /\ (i - 1) + 1 = i)
        OBVIOUS
      <3>2. CASE i - 1 \in 1 .. m /\ (i - 1) + 1 = i
        <4>1. list[i].type = "DataRow"
          BY <1>4, <3>2
        <4> QED
          BY <4>1
      <3> QED
        BY <1>3, <3>1, <3>2
    <2> QED
      BY <1>1, <2>1, LenProperties DEF Copies
  <1>6. /\ Len(out) = m + 3 /\ out[m + 3] = ReadyMessage
        /\ \A i \in 1 .. m + 2 : out[i] = list[i]
    <2>1. out = Append(list, ReadyMessage)
      BY <1>5
    <2>2. /\ Len(out) = Len(list) + 1 /\ out[Len(list) + 1] = ReadyMessage
          /\ \A i \in 1 .. Len(list) : out[i] = list[i]
      BY <2>1, MessagesAreSent, Appended
    <2> QED
      BY <1>1, <2>2
  <1>7. Len(got) = m + 3 /\ DOMAIN got = 1 .. m + 3 /\ \A i \in 1 .. m + 3 : got[i] = Meaning(out[i])
    BY <1>6, Zenon DEF GotAll
  <1>8. \A i \in 1 .. m + 2 : got[i] = Meaning(list[i])
    <2>1. ASSUME NEW i \in 1 .. m + 2 PROVE i \in 1 .. m + 3
      OBVIOUS
    <2> QED
      BY <1>6, <1>7, <2>1, Zenon
  <1>9. got[1].type = "RowDescription" /\ got[1].body = RowFields(rs)
    <2>1. 1 \in 1 .. m + 2
      OBVIOUS
    <2> QED
      BY <1>3, <1>8, <2>1, MeaningIs
  <1>10. /\ got[m + 2].type = "CommandComplete"
         /\ got[m + 2].body = [word |-> Spelling["SELECT"], n |-> m]
    <2>1. m + 2 \in 1 .. m + 2
      OBVIOUS
    <2>2. Meaning(list[m + 2]) = Message("CommandComplete", [word |-> Spelling["SELECT"], n |-> m])
      BY <1>3 DEF Meaning, Message
    <2> QED
      BY <1>8, <2>1, <2>2 DEF Message
  <1>11. got[m + 3].type = "ReadyForQuery"
    <2>1. m + 3 \in 1 .. m + 3
      OBVIOUS
    <2> QED
      BY <1>3, <1>6, <1>7, <2>1, MeaningIs, Zenon
  <1>12. ASSUME NEW r \in 1 .. m
         PROVE  got[r + 1].type = "DataRow" /\ ReadsRow(rs, r, got[r + 1].body)
    <2>1. r + 1 \in 1 .. m + 2
      OBVIOUS
    <2>2. got[r + 1] = list[r + 1]
      <3>1. list[r + 1].type # "CommandComplete"
        BY <1>4
      <3> QED
        BY <1>8, <2>1, <3>1, MeaningIs, Zenon
    <2> QED
      BY <1>2, <1>4, <2>2, Zenon
  <1>13. Types(got) = <<"RowDescription">> \o [r \in DOMAIN rs.rows |-> "DataRow"]
                          \o <<"CommandComplete", "ReadyForQuery">>
    BY <1>1, <1>7, <1>9, <1>10, <1>11, <1>12, TypesAreListed, Zenon
  <1>14. (m + 3) - 1 = m + 2
    OBVIOUS
  <1> QED
    BY <1>1, <1>7, <1>9, <1>10, <1>12, <1>13, <1>14, Zenon DEF ReadsAllOf

Selects(q) == q.type \in {"SELECT", "SYSTEM SELECT"}

LEMMA RefusalIs == Refusal.list = <<>> /\ Refusal.failed = TRUE
  BY SMT DEF Refusal

LEMMA ResultSetFollows ==
    ASSUME AnswerInv
    PROVE  ResultSetIsRead
  <1> SUFFICES ASSUME HasReadAll, Selects(request)
               PROVE  \/ request.result # Failure /\ ReadsAllOf(request.result, seen)
                      \/ EndsInError(seen)
    BY Zenon DEF ResultSetIsRead, ReadsAllOf, EndsInError, Selects
  <1>1. PICK q \in Request : q = request
    BY DEF AnswerInv, Typed, HasReadAll
  <1>2. q.type \in {"SELECT", "SYSTEM SELECT"} /\ q.result \in ResultSets \cup {Failure}
    <2>1. q.type \in {"SELECT", "SYSTEM SELECT"}
      BY <1>1, Zenon DEF Selects
    <2> QED
      BY <2>1 DEF Request, Counted, Tagged, Indexes, Extra
  <1>3. Answered(ListOf(q), Refuses(q), sent)
    BY <1>1, Zenon DEF AnswerInv, Progress, HasReadAll
  <1>4. PICK body \in Seq(Sendable) :
          /\ Ended(ListOf(q), Refuses(q), body)
          /\ sent = Append(body, ReadyMessage) \/ (Copies(body) /\ sent = body)
    BY <1>3, Zenon DEF Answered
  <1>5. GotAll(sent, seen)
    BY WireFollows, Zenon
  <1>6. ASSUME NEW done \in Seq(Sendable), body = Append(done, ErrorMessage),
               \A i \in 1 .. Len(done) : done[i].type \notin {"CommandComplete", "CopyInResponse"}
        PROVE  EndsInError(seen)
    BY <1>4, <1>5, <1>6, ErrorIsRead, Zenon
  <1>7. CASE Fails(q) \/ ~HasAllIDs(q.result)
    <2>1. AnswerTo(q) = Refusal
      <3>1. AnswerTo(q) = IF Fails(q) THEN Refusal ELSE Executed(q)
        BY <1>2 DEF AnswerTo
      <3>2. CASE ~Fails(q)
        <4>1. q.result \in ResultSets /\ ~HasAllIDs(q.result)
          BY <1>2, <1>7, <3>2 DEF Fails
        <4>2. Executed(q) = NewResponseFromResultSet(q.result)
          BY <1>2 DEF Executed, Counted, Tagged, Indexes, Extra
        <4> QED
          BY <3>1, <3>2, <4>1, <4>2, ResultIsGiven, Zenon
      <3> QED
        BY <3>1, <3>2, Zenon
    <2>2. ListOf(q) = <<>> /\ Refuses(q) = TRUE
      BY <2>1, RefusalIs, Zenon DEF ListOf, Refuses
    <2>3. PICK done \in Seq(Sendable) :
            body = Append(done, ErrorMessage) /\ (done = <<>> \/ CutShort(<<>>, done))
      BY <1>4, <2>2, Zenon DEF Ended
    <2>4. ~CutShort(<<>>, done)
      <3> SUFFICES ASSUME CutShort(<<>>, done) PROVE FALSE
        OBVIOUS
      <3>1. <<>> \in Seq(Outgoing) /\ Len(<<>>) = 0
        BY EmptySeq, Zenon
      <3>2. Len(done) \in Nat /\ Len(done) < Len(<<>>)
        BY <3>1, CutShortIs, Zenon
      <3> QED
        BY <3>1, <3>2
    <2>5. done = <<>>
      BY <2>3, <2>4
    <2>6. \A i \in 1 .. Len(done) : done[i].type \notin {"CommandComplete", "CopyInResponse"}
      BY <2>5
    <2> QED
      BY <1>6, <2>3, <2>6
  <1>8. CASE ~Fails(q) /\ HasAllIDs(q.result)
    <2>1. PICK rs \in ResultSets : rs = q.result /\ rs # Failure /\ HasAllIDs(rs)
      BY <1>2, <1>8 DEF Fails
    <2>2. ListOf(q) = RowsOfResult(rs) /\ Refuses(q) = FALSE
      <3>1. AnswerTo(q) = IF Fails(q) THEN Refusal ELSE Executed(q)
        BY <1>2 DEF AnswerTo
      <3>2. Executed(q) = NewResponseFromResultSet(q.result)
        BY <1>2 DEF Executed, Counted, Tagged, Indexes, Extra
      <3>3. AnswerTo(q) = Responses(RowsOfResult(rs))
        BY <1>8, <2>1, <3>1, <3>2, ResultIsGiven, Zenon
      <3> QED
        BY <3>3, ResponsesAre, Zenon DEF ListOf, Refuses
    <2>3. PICK m \in Nat, list \in Seq(Outgoing) : list = RowsOfResult(rs) /\ Listed(rs, list, m)
      BY <2>1, RowsAreListed, Zenon DEF Listed
    <2>4. CASE body = list
      <3>1. ReadsAllOf(rs, seen)
        BY <1>4, <1>5, <2>1, <2>3, <2>4, ResultIsRead, Zenon
      <3> QED
        BY <1>1, <2>1, <3>1, Zenon
    <2>5. CASE body # list
      <3>1. PICK done \in Seq(Sendable) : body = Append(done, ErrorMessage) /\ CutShort(list, done)
        BY <1>4, <2>2, <2>3, <2>5, Zenon DEF Ended
      <3>2. /\ Len(done) \in Nat /\ Len(done) < Len(list)
            /\ \A i \in 1 .. Len(done) : list[i] = done[i]
        BY <3>1, CutShortIs, Zenon
      <3>3. ASSUME NEW i \in 1 .. Len(done)
            PROVE  done[i].type \notin {"CommandComplete", "CopyInResponse"}
        <4>1. Len(list) = m + 2 /\ done[i] = list[i] /\ done[i] \in Sendable
          BY <2>3, <3>2, ElementOfSeq DEF Listed
        <4>2. i = 1 \/ (i - 1 \in 1 .. m /\ (i - 1) + 1 = i)
          <5>1. PICK n \in Nat : n = Len(done) /\ n < m + 2
            BY <3>2, <4>1, Zenon
          <5>2. i \in 1 .. n
            BY <5>1
          <5> QED
            BY <5>1, <5>2
        <4>3. CASE i = 1
          <5>1. PICK fields : list[1] = Message("RowDescription", fields)
            BY <2>3, Zenon DEF Listed
          <5>2. list[1].type = "RowDescription"
            BY <5>1, MessageIs, Zenon
          <5> QED
            BY <4>1, <4>3, <5>2, Zenon
        <4>4. CASE i - 1 \in 1 .. m /\ (i - 1) + 1 = i
          <5>1. PICK r \in 1 .. m : r + 1 = i
            BY <4>4
          <5>2. done[i] = RowOfResult(rs, r)
            BY <2>3, <4>1, <5>1, Zenon DEF Listed
          <5>3. done[i] # Broken
            BY <4>1, BrokenIsNotSent
          <5>4. done[i] = DataRow(rs, r)
            BY <5>2, <5>3, Zenon DEF RowOfResult
          <5>5. done[i].type = "DataRow"
            <6>1. r \in DOMAIN rs.rows
              BY <2>3, Zenon DEF Listed
            <6>2. DataRow(rs, r) = Message("DataRow", DataRow(rs, r).body)
              BY <6>1, DataRowIs, Zenon
            <6>3. PICK row : DataRow(rs, r) = Message("DataRow", row)
              BY <6>2, Zenon
            <6> QED
              BY <5>4, <6>3, MessageIs, Zenon
          <5> QED
            BY <5>5
        <4> QED
          BY <4>2, <4>3, <4>4, Zenon
      <3> QED
        BY <1>6, <3>1, <3>3
    <2> QED
      BY <2>4, <2>5
  <1> QED
    BY <1>7, <1>8, Zenon

-----------------------------------------------------------------------------

\* The request, the responses that are still to be written and the bytes on the
\* connection keep their types, and the connection holds frames of messages that
\* have been sent and not yet read, nothing else (response_message.go,
\* conn_impl.go).
THEOREM AnswerInvariant == Spec => []AnswerInv
  <1>1. Init => AnswerInv
    BY AnswerInit
  <1>2. AnswerInv /\ [Next]_vars => AnswerInv'
    BY AnswerNext
  <1> QED
    BY <1>1, <1>2, PTL DEF Spec

LEMMA TypeFollows ==
    ASSUME AnswerInv, ExecutorsTypeOK
    PROVE  TypeOK
  <1>1. wire \in Seq(Byte)
    BY WireFollows, Zenon
  <1> QED
    BY <1>1 DEF AnswerInv, Typed, TypeOK, Byte

\* A client makes out of the bytes the messages that were written, in their
\* order and with what is in them, and when it has read all of them it has missed
\* none: for every text, number of columns and number of rows that 16 and 31 bits
\* can count (ResponseMessage.Bytes, and Bytes of each message).
THEOREM WireIsAlwaysFramed == Spec => []WireIsFramed
  <1>1. AnswerInv => WireIsFramed
    BY WireFollows
  <1> QED
    BY <1>1, AnswerInvariant, PTL

\* The answer to a SELECT is all of its result set, with a count that is the
\* number of the rows the client has read, or an error and no count
\* (NewResponseFromResultSet, NewDataRowForSelectors, AppendData,
\* ResponseMessages).
THEOREM ResultSetIsAlwaysRead == Spec => []ResultSetIsRead
  <1>1. AnswerInv => ResultSetIsRead
    BY ResultSetFollows
  <1> QED
    BY <1>1, AnswerInvariant, PTL

-----------------------------------------------------------------------------
(***************************************************************************)
(* The executors: whatever the application installs, in whatever order and *)
(* however often, those that were there when it last named its SQL         *)
(* executor send their statements to that one.                             *)
(***************************************************************************)
ExecutorsInv == ExecutorsTypeOK /\ LastSQLExecutorServes

\* A call that fills a slot touches no holder that another slot ends at.
LEMMA SetExecutorInv ==
    ASSUME ExecutorsInv, NEW slot \in Slots, SetExecutor(slot)
    PROVE  ExecutorsInv'
  <1>1. PICK kind \in Kinds \ {"default"} :
          /\ kind = "own" => <<slot, "own">> \in Holders
          /\ installed' = [installed EXCEPT ![slot] = kind]
          /\ uses' = [h \in Holders |-> IF h = <<slot, "own">> THEN Nil ELSE uses[h]]
    BY DEF SetExecutor
  <1>2. ExecutorsTypeOK'
    BY <1>1, MaxSetsAssumption DEF ExecutorsInv, ExecutorsTypeOK, SetExecutor
  <1>3. ASSUME NEW other \in Slots \ late', HolderOf(other)' \in Holders
        PROVE  uses'[HolderOf(other)'] = sql'
    <2>1. other \in Slots \ late /\ other # slot
      BY DEF SetExecutor
    <2>2. installed'[other] = installed[other]
      BY <1>1, <2>1 DEF ExecutorsInv, ExecutorsTypeOK
    <2>3. HolderOf(other)' = HolderOf(other)
      BY <2>2 DEF HolderOf
    <2>4. HolderOf(other) # <<slot, "own">>
      BY <2>1 DEF HolderOf
    <2>5. uses'[HolderOf(other)] = uses[HolderOf(other)]
      BY <1>1, <1>3, <2>3, <2>4
    <2> QED
      BY <1>3, <2>1, <2>3, <2>5 DEF ExecutorsInv, LastSQLExecutorServes, SetExecutor
  <1> QED
    BY <1>2, <1>3 DEF ExecutorsInv, LastSQLExecutorServes

\* SetSQLExecutor reaches the holder every slot ends at.
LEMMA SetSQLExecutorInv ==
    ASSUME ExecutorsInv, NEW se \in SQLExecutors, SetSQLExecutor(se)
    PROVE  ExecutorsInv'
  <1>1. ExecutorsTypeOK'
    BY MaxSetsAssumption DEF ExecutorsInv, ExecutorsTypeOK, SetSQLExecutor
  <1>2. ASSUME NEW slot \in Slots, HolderOf(slot)' \in Holders
        PROVE  uses'[HolderOf(slot)'] = sql'
    <2>1. HolderOf(slot)' = HolderOf(slot)
      BY DEF HolderOf, SetSQLExecutor
    <2>2. HolderOf(slot) \in GivenSQL
      BY <1>2, <2>1 DEF GivenSQL, Holding
    <2> QED
      BY <1>2, <2>1, <2>2 DEF SetSQLExecutor
  <1> QED
    BY <1>1, <1>2 DEF ExecutorsInv, LastSQLExecutorServes

LEMMA NewServerInv == NewServer => ExecutorsInv
  <1> SUFFICES ASSUME NewServer PROVE ExecutorsInv
    OBVIOUS
  <1>1. ExecutorsTypeOK
    BY MaxSetsAssumption DEF NewServer, ExecutorsTypeOK, Kinds
  <1>2. LastSQLExecutorServes
    BY DEF NewServer, LastSQLExecutorServes
  <1> QED
    BY <1>1, <1>2 DEF ExecutorsInv

\* The executors keep their types, and each ends at the application's SQL
\* executor (SetSQLExecutor and the setters of server_impl.go).
THEOREM ExecutorsInvariant == ExecutorsSpec => []ExecutorsInv
  <1>1. ExecutorsInv /\ [Configure]_executorVars => ExecutorsInv'
    <2> SUFFICES ASSUME ExecutorsInv, [Configure]_executorVars PROVE ExecutorsInv'
      OBVIOUS
    <2>1. ASSUME NEW slot \in Slots, SetExecutor(slot) PROVE ExecutorsInv'
      BY <2>1, SetExecutorInv
    <2>2. ASSUME NEW se \in SQLExecutors, SetSQLExecutor(se) PROVE ExecutorsInv'
      BY <2>2, SetSQLExecutorInv
    <2>3. CASE UNCHANGED executorVars
      BY <2>3 DEF ExecutorsInv, ExecutorsTypeOK, LastSQLExecutorServes, HolderOf, executorVars
    <2> QED
      BY <2>1, <2>2, <2>3 DEF Configure
  <1> QED
    BY <1>1, NewServerInv, PTL DEF ExecutorsSpec

\* A statement ends at the SQL executor the application has named last.
THEOREM LastSQLExecutorIsServed == ExecutorsSpec => []LastSQLExecutorServes
  <1>1. ExecutorsInv => LastSQLExecutorServes
    BY DEF ExecutorsInv
  <1> QED
    BY <1>1, ExecutorsInvariant, PTL

\* Whatever is requested and answered in between, the executors are those of a
\* server that is configured and nothing else (server_impl.go).
THEOREM AnswerImplementsExecutors == Spec => ExecutorsSpec
  <1>1. Init => NewServer
    BY DEF Init
  <1>2. [Next]_vars => [Configure]_executorVars
    <2> SUFFICES ASSUME [Next]_vars PROVE [Configure]_executorVars
      OBVIOUS
    <2>1. CASE UNCHANGED vars
      BY <2>1 DEF vars
    <2>2. CASE SetUp
      BY <2>2 DEF SetUp
    <2>3. CASE \E q \in Request : Serve(q)
      BY <2>3 DEF Serve
    <2>4. CASE WriteResponse \/ WriteError \/ WriteReady \/ ClientReads \/ NextRequest
      BY <2>4 DEF WriteResponse, WriteError, WriteReady, ClientReads, NextRequest
    <2> QED
      BY <2>1, <2>2, <2>3, <2>4 DEF Next
  <1> QED
    BY <1>1, <1>2, PTL DEF Spec, ExecutorsSpec

\* The statements of a client end at the SQL executor the application has named
\* last, and the answer has its types.
THEOREM AnswersComeFromLastSQLExecutor == Spec => [](LastSQLExecutorServes /\ TypeOK)
  <1>1. AnswerInv /\ ExecutorsInv => LastSQLExecutorServes /\ TypeOK
    BY TypeFollows DEF ExecutorsInv
  <1> QED
    BY <1>1, AnswerInvariant, ExecutorsInvariant, AnswerImplementsExecutors, PTL

=============================================================================
