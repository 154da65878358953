-------------------------- MODULE TableStoreProofs --------------------------
(***************************************************************************)
(* Proofs about TableStore: the loops over the slice do what the list of   *)
(* rows promises, for any number of sessions and rows.                     *)
(*                                                                         *)
(* The loops are functions defined by recursion on the number of turns.    *)
(* What is said of them by induction is said of the set of turns it holds  *)
(* of: a set of natural numbers has a least element.                       *)
(***************************************************************************)
EXTENDS TableStore, TLAPS, SequenceTheorems, WellFoundedInduction

-----------------------------------------------------------------------------
(***************************************************************************)
(* Induction.                                                              *)
(***************************************************************************)
LEMMA NatMin ==
    ASSUME NEW S \in SUBSET Nat, S # {}
    PROVE  \E m \in S : \A k \in S : m <= k
  <1>1. IsWellFoundedOn({ss \in Nat \X Nat : ss[1] < ss[2]}, Nat)
    BY NatLessThanWellFounded DEF OpToRel
  <1>2. PICK x \in S : \A y \in S : <<y, x>> \notin {ss \in Nat \X Nat : ss[1] < ss[2]}
    BY <1>1, WFMin
  <1>3. \A y \in S : ~(y < x)
    BY <1>2
  <1> QED
    BY <1>3

\* What holds of 0 turns, and of one more whenever it holds of some.
LEMMA Turns ==
    ASSUME NEW n \in Nat, NEW T, 0 \in T, \A i \in 1 .. n : i - 1 \in T => i \in T
    PROVE  \A i \in 0 .. n : i \in T
  <1> DEFINE S == {i \in 0 .. n : i \notin T}
  <1> SUFFICES ASSUME S # {} PROVE FALSE
    OBVIOUS
  <1>0. S \in SUBSET Nat
    OBVIOUS
  <1>1. PICK m \in S : \A k \in S : m <= k
    <2> HIDE DEF S
    <2> QED
      BY <1>0, NatMin
  <1>2. m \in 1 .. n /\ m - 1 \in 0 .. n /\ m - 1 \notin S
    BY <1>1
  <1> QED
    BY <1>2

\* v is the states before and after each of the n turns of a loop.
Course(n, D, d, f, v) ==
    /\ v \in [0 .. n -> D]
    /\ v[0] = d /\ \A i \in 1 .. n : v[i] = f[<<v[i - 1], i>>]

\* A loop of n turns over a set of states that its turns do not leave.
LEMMA Loop ==
    ASSUME NEW n \in Nat, NEW D, NEW d \in D, NEW f \in [D \X (1 .. n) -> D]
    PROVE  \E v : Course(n, D, d, f, v)
  <1> DEFINE Runs(m, v) ==
               v = [i \in 0 .. m |-> IF i = 0 THEN d ELSE f[<<v[i - 1], i>>]]
             T == {m \in 0 .. n : \E v \in [0 .. m -> D] : Runs(m, v)}
  <1>1. 0 \in T
    <2>1. PICK v : v = [i \in 0 .. 0 |-> d]
      OBVIOUS
    <2>2. v \in [0 .. 0 -> D] /\ Runs(0, v)
      BY <2>1
    <2> QED
      BY <2>2
  <1>2. ASSUME NEW i \in 1 .. n, i - 1 \in T PROVE i \in T
    <2>1. PICK v \in [0 .. i - 1 -> D] : Runs(i - 1, v)
      BY <1>2
    <2>2. v[i - 1] \in D /\ <<v[i - 1], i>> \in D \X (1 .. n)
      BY <2>1
    <2>3. PICK w : w = [j \in 0 .. i |-> IF j < i THEN v[j] ELSE f[<<v[i - 1], i>>]]
      OBVIOUS
    <2>4. w \in [0 .. i -> D]
      BY <2>2, <2>3
    <2>5. \A j \in 0 .. i : w[j] = IF j = 0 THEN d ELSE f[<<w[j - 1], j>>]
      <3>1. ASSUME NEW j \in 0 .. i - 1 PROVE w[j] = IF j = 0 THEN d ELSE f[<<w[j - 1], j>>]
        <4>1. j \in 0 .. i /\ j < i /\ (j # 0 => j - 1 \in 0 .. i /\ j - 1 < i)
          OBVIOUS
        <4>2. w[j] = v[j] /\ (j # 0 => w[j - 1] = v[j - 1])
          BY <2>3, <4>1
        <4>3. v[j] = IF j = 0 THEN d ELSE f[<<v[j - 1], j>>]
          BY <2>1
        <4> QED
          BY <4>2, <4>3
      <3>2. w[i] = f[<<v[i - 1], i>>] /\ w[i - 1] = v[i - 1] /\ i # 0
        <4>1. i \in 0 .. i /\ i - 1 \in 0 .. i /\ i - 1 < i /\ ~(i < i) /\ i # 0
          OBVIOUS
        <4> QED
          BY <2>3, <4>1
      <3> QED
        BY <3>1, <3>2
    <2>6. Runs(i, w)
      <3>1. w = [j \in 0 .. i |-> w[j]]
        BY <2>4
      <3>2. [j \in 0 .. i |-> w[j]]
              = [j \in 0 .. i |-> IF j = 0 THEN d ELSE f[<<w[j - 1], j>>]]
        BY <2>5
      <3> QED
        BY <3>1, <3>2
    <2>7. i \in 0 .. n /\ \E u \in [0 .. i -> D] : Runs(i, u)
      <3> HIDE DEF Runs
      <3> QED
        BY <2>4, <2>6
    <2> QED
      BY <2>7
  <1>3. n \in T
    <2> HIDE DEF T
    <2> QED
      BY <1>1, <1>2, Turns
  <1>4. PICK v \in [0 .. n -> D] : Runs(n, v)
    BY <1>3
  <1>5. v[0] = d /\ \A i \in 1 .. n : v[i] = f[<<v[i - 1], i>>]
    BY <1>4
  <1>6. Course(n, D, d, f, v)
    BY <1>5 DEF Course
  <1> QED
    BY <1>6

-----------------------------------------------------------------------------
(***************************************************************************)
(* The five loops, one turn at a time.                                     *)
(***************************************************************************)

\* A function that takes each turn of such a loop keeps to the set.
LEMMA Follows ==
    ASSUME NEW n \in Nat, NEW D, NEW g, g = [i \in 0 .. n |-> g[i]], g[0] \in D,
           \A i \in 1 .. n : g[i - 1] \in D => g[i] \in D
    PROVE  g \in [0 .. n -> D]
  <1> DEFINE T == {k \in 0 .. n : g[k] \in D}
  <1>1. \A i \in 0 .. n : i \in T
    <2>1. 0 \in T
      OBVIOUS
    <2>2. \A i \in 1 .. n : i - 1 \in T => i \in T
      OBVIOUS
    <2> HIDE DEF T
    <2> QED
      BY <2>1, <2>2, Turns
  <1>2. \A i \in 0 .. n : g[i] \in D
    BY <1>1
  <1>3. [i \in 0 .. n |-> g[i]] \in [0 .. n -> D]
    BY <1>2
  <1> QED
    BY <1>3

\* The inner loop of Delete.
LEMMA InnerLoop ==
    ASSUME NEW D, NEW d \in D, d.len \in Nat, NEW row,
           \A e \in D : \A i \in 1 .. d.len : Visit(row, e, i) \in D
    PROVE  \E v \in [0 .. d.len -> D] :
             /\ v[0] = d
             /\ \A i \in 1 .. d.len : v[i] = Visit(row, v[i - 1], i)
             /\ DeleteEqual(d, row) = v[d.len]
  <1>0. PICK n \in Nat : n = d.len
    OBVIOUS
  <1> DEFINE Turn(g, i) == IF i = 0 THEN d ELSE Visit(row, g[i - 1], i)
  <1>1. PICK f \in [D \X (1 .. n) -> D] :
          \A e \in D : \A i \in 1 .. n : f[<<e, i>>] = Visit(row, e, i)
    <2>0. \A e \in D : \A i \in 1 .. n : Visit(row, e, i) \in D
      BY <1>0
    <2>1. PICK f : f = [x \in D \X (1 .. n) |-> Visit(row, x[1], x[2])]
      OBVIOUS
    <2>2. \A x \in D \X (1 .. n) : x[1] \in D /\ x[2] \in 1 .. n
      OBVIOUS
    <2>3. f \in [D \X (1 .. n) -> D]
      BY <2>0, <2>1, <2>2
    <2> QED
      BY <2>1, <2>3
  <1>2. PICK v \in [0 .. n -> D] :
          v[0] = d /\ \A i \in 1 .. n : v[i] = f[<<v[i - 1], i>>]
    <2>1. PICK v : Course(n, D, d, f, v)
      BY Loop
    <2> QED
      BY <2>1 DEF Course
  <1>3. \A i \in 0 .. n : v[i] = Turn(v, i)
    <2> SUFFICES ASSUME NEW i \in 1 .. n PROVE v[i] = Visit(row, v[i - 1], i)
      BY <1>0, <1>2
    <2>1. PICK e \in D : e = v[i - 1]
      OBVIOUS
    <2>2. v[i] = f[<<e, i>>]
      BY <1>2, <2>1
    <2> QED
      BY <1>1, <2>1, <2>2
  <1>4. v = [i \in 0 .. n |-> Turn(v, i)]
    <2> HIDE DEF Turn
    <2> QED
      BY <1>3
  <1>5. PICK g : g = [i \in 0 .. n |-> Turn(g, i)] /\ DeleteEqual(d, row) = g[n]
    <2> DEFINE seen == CHOOSE g : g = [i \in 0 .. n |-> Turn(g, i)]
    <2>1. seen = [i \in 0 .. n |-> Turn(seen, i)]
      <3> HIDE DEF Turn
      <3> QED
        BY <1>4
    <2>2. DeleteEqual(d, row) = seen[n]
      BY <1>0 DEF DeleteEqual
    <2> QED
      BY <2>1, <2>2
  <1>6. g[0] = d /\ \A i \in 1 .. n : g[i] = Visit(row, g[i - 1], i)
    <2>1. \A i \in 0 .. n : g[i] = Turn(g, i)
      <3> HIDE DEF Turn
      <3> QED
        BY <1>5
    <2>2. ASSUME NEW i \in 1 .. n PROVE Turn(g, i) = Visit(row, g[i - 1], i)
      BY i # 0, Zenon
    <2>3. Turn(g, 0) = d
      BY <1>0
    <2> HIDE DEF Turn
    <2> QED
      BY <2>1, <2>2, <2>3
  <1>7. g = [i \in 0 .. n |-> g[i]]
    <2> HIDE DEF Turn
    <2> QED
      BY <1>5
  <1>8. g \in [0 .. n -> D]
    <2>1. ASSUME NEW i \in 1 .. n, g[i - 1] \in D PROVE g[i] \in D
      <3>1. PICK e \in D : e = g[i - 1]
        BY <2>1
      <3>2. g[i] = Visit(row, e, i)
        BY <1>6, <3>1
      <3> QED
        BY <1>0, <3>1, <3>2
    <2> QED
      BY <1>6, <1>7, <2>1, Follows
  <1> QED
    BY <1>0, <1>5, <1>6, <1>8

\* The outer loop of Delete.
LEMMA OuterLoop ==
    ASSUME NEW D, NEW s, Len(Picked(s)) \in Nat,
           [cells |-> Cells, len |-> len, panic |-> FALSE] \in D,
           \A e \in D : \A i \in 1 .. Len(Picked(s)) : DeleteEqual(e, PickedRow(s, e, i)) \in D
    PROVE  \E v \in [0 .. Len(Picked(s)) -> D] :
             /\ v[0] = [cells |-> Cells, len |-> len, panic |-> FALSE]
             /\ \A i \in 1 .. Len(Picked(s)) : v[i] = DeleteEqual(v[i - 1], PickedRow(s, v[i - 1], i))
             /\ DeletePicked(s) = v[Len(Picked(s))]
  <1>0. PICK n \in Nat, d \in D : n = Len(Picked(s)) /\ d = [cells |-> Cells, len |-> len, panic |-> FALSE]
    OBVIOUS
  <1> DEFINE Turn(g, i) == IF i = 0 THEN [cells |-> Cells, len |-> len, panic |-> FALSE] ELSE DeleteEqual(g[i - 1], PickedRow(s, g[i - 1], i))
  <1>1. PICK f \in [D \X (1 .. n) -> D] :
          \A e \in D : \A i \in 1 .. n : f[<<e, i>>] = DeleteEqual(e, PickedRow(s, e, i))
    <2>0. \A e \in D : \A i \in 1 .. n : DeleteEqual(e, PickedRow(s, e, i)) \in D
      BY <1>0
    <2>1. PICK f : f = [x \in D \X (1 .. n) |-> DeleteEqual(x[1], PickedRow(s, x[1], x[2]))]
      OBVIOUS
    <2>2. \A x \in D \X (1 .. n) : x[1] \in D /\ x[2] \in 1 .. n
      OBVIOUS
    <2>3. f \in [D \X (1 .. n) -> D]
      BY <2>0, <2>1, <2>2
    <2> QED
      BY <2>1, <2>3
  <1>2. PICK v \in [0 .. n -> D] :
          v[0] = d /\ \A i \in 1 .. n : v[i] = f[<<v[i - 1], i>>]
    <2>1. PICK v : Course(n, D, d, f, v)
      BY Loop
    <2> QED
      BY <2>1 DEF Course
  <1>3. \A i \in 0 .. n : v[i] = Turn(v, i)
    <2> SUFFICES ASSUME NEW i \in 1 .. n PROVE v[i] = DeleteEqual(v[i - 1], PickedRow(s, v[i - 1], i))
      BY <1>0, <1>2
    <2>1. PICK e \in D : e = v[i - 1]
      OBVIOUS
    <2>2. v[i] = f[<<e, i>>]
      BY <1>2, <2>1
    <2> QED
      BY <1>1, <2>1, <2>2
  <1>4. v = [i \in 0 .. n |-> Turn(v, i)]
    <2> HIDE DEF Turn
    <2> QED
      BY <1>3
  <1>5. PICK g : g = [i \in 0 .. n |-> Turn(g, i)] /\ DeletePicked(s) = g[n]
    <2> DEFINE done == CHOOSE g : g = [i \in 0 .. n |-> Turn(g, i)]
    <2>1. done = [i \in 0 .. n |-> Turn(done, i)]
      <3> HIDE DEF Turn
      <3> QED
        BY <1>4
    <2>2. DeletePicked(s) = done[n]
      BY <1>0 DEF DeletePicked
    <2> QED
      BY <2>1, <2>2
  <1>6. g[0] = d /\ \A i \in 1 .. n : g[i] = DeleteEqual(g[i - 1], PickedRow(s, g[i - 1], i))
    <2>1. \A i \in 0 .. n : g[i] = Turn(g, i)
      <3> HIDE DEF Turn
      <3> QED
        BY <1>5
    <2>2. ASSUME NEW i \in 1 .. n PROVE Turn(g, i) = DeleteEqual(g[i - 1], PickedRow(s, g[i - 1], i))
      BY i # 0, Zenon
    <2>3. Turn(g, 0) = d
      BY <1>0
    <2> HIDE DEF Turn
    <2> QED
      BY <2>1, <2>2, <2>3
  <1>7. g = [i \in 0 .. n |-> g[i]]
    <2> HIDE DEF Turn
    <2> QED
      BY <1>5
  <1>8. g \in [0 .. n -> D]
    <2>1. ASSUME NEW i \in 1 .. n, g[i - 1] \in D PROVE g[i] \in D
      <3>1. PICK e \in D : e = g[i - 1]
        BY <2>1
      <3>2. g[i] = DeleteEqual(e, PickedRow(s, e, i))
        BY <1>6, <3>1
      <3> QED
        BY <1>0, <3>1, <3>2
    <2> QED
      BY <1>6, <1>7, <2>1, Follows
  <1> QED
    BY <1>0, <1>5, <1>6, <1>8

\* A turn of the loop of Update, for row r.
TurnOf(s, r, row, i) == IF Picked(s)[i] = r THEN Changed(s, row) ELSE row

Makes(s, r, v) ==
    /\ v[0] = content[r]
    /\ \A i \in 1 .. Len(Picked(s)) : v[i] = TurnOf(s, r, v[i - 1], i)
    /\ Updated(s, r) = v[Len(Picked(s))]

\* The loop of Update.
LEMMA UpdateLoop ==
    ASSUME NEW D, NEW s, NEW r, Len(Picked(s)) \in Nat,
           content[r] \in D,
           \A e \in D : \A i \in 1 .. Len(Picked(s)) : TurnOf(s, r, e, i) \in D
    PROVE  \E v \in [0 .. Len(Picked(s)) -> D] : Makes(s, r, v)
  <1> USE DEF Makes
  <1>0. PICK n \in Nat, d \in D : n = Len(Picked(s)) /\ d = content[r]
    OBVIOUS
  <1> DEFINE Turn(g, i) == IF i = 0 THEN content[r] ELSE TurnOf(s, r, g[i - 1], i)
  <1>1. PICK f \in [D \X (1 .. n) -> D] :
          \A e \in D : \A i \in 1 .. n : f[<<e, i>>] = TurnOf(s, r, e, i)
    <2>0. \A e \in D : \A i \in 1 .. n : TurnOf(s, r, e, i) \in D
      BY <1>0
    <2>1. PICK f : f = [x \in D \X (1 .. n) |-> TurnOf(s, r, x[1], x[2])]
      OBVIOUS
    <2>2. \A x \in D \X (1 .. n) : x[1] \in D /\ x[2] \in 1 .. n
      OBVIOUS
    <2>3. f \in [D \X (1 .. n) -> D]
      BY <2>0, <2>1, <2>2
    <2> QED
      BY <2>1, <2>3
  <1>2. PICK v \in [0 .. n -> D] :
          v[0] = d /\ \A i \in 1 .. n : v[i] = f[<<v[i - 1], i>>]
    <2>1. PICK v : Course(n, D, d, f, v)
      BY Loop
    <2> QED
      BY <2>1 DEF Course
  <1>3. \A i \in 0 .. n : v[i] = Turn(v, i)
    <2> SUFFICES ASSUME NEW i \in 1 .. n PROVE v[i] = TurnOf(s, r, v[i - 1], i)
      BY <1>0, <1>2
    <2>1. PICK e \in D : e = v[i - 1]
      OBVIOUS
    <2>2. v[i] = f[<<e, i>>]
      BY <1>2, <2>1
    <2> QED
      BY <1>1, <2>1, <2>2
  <1>4. v = [i \in 0 .. n |-> Turn(v, i)]
    <2> HIDE DEF Turn
    <2> QED
      BY <1>3
  <1>5. PICK g : g = [i \in 0 .. n |-> Turn(g, i)] /\ Updated(s, r) = g[n]
    <2> DEFINE row == CHOOSE g : g = [i \in 0 .. n |-> Turn(g, i)]
    <2>1. row = [i \in 0 .. n |-> Turn(row, i)]
      <3> HIDE DEF Turn
      <3> QED
        BY <1>4
    <2>2. Updated(s, r) = row[n]
      BY <1>0 DEF Updated, TurnOf
    <2> QED
      BY <2>1, <2>2
  <1>6. g[0] = d /\ \A i \in 1 .. n : g[i] = TurnOf(s, r, g[i - 1], i)
    <2>1. \A i \in 0 .. n : g[i] = Turn(g, i)
      <3> HIDE DEF Turn
      <3> QED
        BY <1>5
    <2>2. ASSUME NEW i \in 1 .. n PROVE Turn(g, i) = TurnOf(s, r, g[i - 1], i)
      BY i # 0, Zenon
    <2>3. Turn(g, 0) = d
      BY <1>0
    <2> HIDE DEF Turn
    <2> QED
      BY <2>1, <2>2, <2>3
  <1>7. g = [i \in 0 .. n |-> g[i]]
    <2> HIDE DEF Turn
    <2> QED
      BY <1>5
  <1>8. g \in [0 .. n -> D]
    <2>1. ASSUME NEW i \in 1 .. n, g[i - 1] \in D PROVE g[i] \in D
      <3>1. PICK e \in D : e = g[i - 1]
        BY <2>1
      <3>2. g[i] = TurnOf(s, r, e, i)
        BY <1>6, <3>1
      <3> QED
        BY <1>0, <3>1, <3>2
    <2> QED
      BY <1>6, <1>7, <2>1, Follows
  <1> QED
    BY <1>0, <1>5, <1>6, <1>8

\* The loop of Insert.
LEMMA InsertLoop ==
    ASSUME NEW D, NEW m \in Nat, [arrays |-> arrays, len |-> len] \in D,
           \A e \in D : \A i \in 1 .. m : AppendRow(e, inserted + i) \in D
    PROVE  \E v \in [0 .. m -> D] :
             /\ v[0] = [arrays |-> arrays, len |-> len]
             /\ \A i \in 1 .. m : v[i] = AppendRow(v[i - 1], inserted + i)
             /\ Appended(m) = v[m]
  <1>0. PICK n \in Nat, d \in D : n = m /\ d = [arrays |-> arrays, len |-> len]
    OBVIOUS
  <1> DEFINE Turn(g, i) == IF i = 0 THEN [arrays |-> arrays, len |-> len] ELSE AppendRow(g[i - 1], inserted + i)
  <1>1. PICK f \in [D \X (1 .. n) -> D] :
          \A e \in D : \A i \in 1 .. n : f[<<e, i>>] = AppendRow(e, inserted + i)
    <2>0. \A e \in D : \A i \in 1 .. n : AppendRow(e, inserted + i) \in D
      BY <1>0
    <2>1. PICK f : f = [x \in D \X (1 .. n) |-> AppendRow(x[1], inserted + x[2])]
      OBVIOUS
    <2>2. \A x \in D \X (1 .. n) : x[1] \in D /\ x[2] \in 1 .. n
      OBVIOUS
    <2>3. f \in [D \X (1 .. n) -> D]
      BY <2>0, <2>1, <2>2
    <2> QED
      BY <2>1, <2>3
  <1>2. PICK v \in [0 .. n -> D] :
          v[0] = d /\ \A i \in 1 .. n : v[i] = f[<<v[i - 1], i>>]
    <2>1. PICK v : Course(n, D, d, f, v)
      BY Loop
    <2> QED
      BY <2>1 DEF Course
  <1>3. \A i \in 0 .. n : v[i] = Turn(v, i)
    <2> SUFFICES ASSUME NEW i \in 1 .. n PROVE v[i] = AppendRow(v[i - 1], inserted + i)
      BY <1>0, <1>2
    <2>1. PICK e \in D : e = v[i - 1]
      OBVIOUS
    <2>2. v[i] = f[<<e, i>>]
      BY <1>2, <2>1
    <2> QED
      BY <1>1, <2>1, <2>2
  <1>4. v = [i \in 0 .. n |-> Turn(v, i)]
    <2> HIDE DEF Turn
    <2> QED
      BY <1>3
  <1>5. PICK g : g = [i \in 0 .. n |-> Turn(g, i)] /\ Appended(m) = g[n]
    <2> DEFINE made == CHOOSE g : g = [i \in 0 .. n |-> Turn(g, i)]
    <2>1. made = [i \in 0 .. n |-> Turn(made, i)]
      <3> HIDE DEF Turn
      <3> QED
        BY <1>4
    <2>2. Appended(m) = made[n]
      BY <1>0 DEF Appended
    <2> QED
      BY <2>1, <2>2
  <1>6. g[0] = d /\ \A i \in 1 .. n : g[i] = AppendRow(g[i - 1], inserted + i)
    <2>1. \A i \in 0 .. n : g[i] = Turn(g, i)
      <3> HIDE DEF Turn
      <3> QED
        BY <1>5
    <2>2. ASSUME NEW i \in 1 .. n PROVE Turn(g, i) = AppendRow(g[i - 1], inserted + i)
      BY i # 0, Zenon
    <2>3. Turn(g, 0) = d
      BY <1>0
    <2> HIDE DEF Turn
    <2> QED
      BY <2>1, <2>2, <2>3
  <1>7. g = [i \in 0 .. n |-> g[i]]
    <2> HIDE DEF Turn
    <2> QED
      BY <1>5
  <1>8. g \in [0 .. n -> D]
    <2>1. ASSUME NEW i \in 1 .. n, g[i - 1] \in D PROVE g[i] \in D
      <3>1. PICK e \in D : e = g[i - 1]
        BY <2>1
      <3>2. g[i] = AppendRow(e, inserted + i)
        BY <1>6, <3>1
      <3> QED
        BY <1>0, <3>1, <3>2
    <2> QED
      BY <1>6, <1>7, <2>1, Follows
  <1> QED
    BY <1>0, <1>5, <1>6, <1>8

\* A turn of the loop of Select.
Found(where, e, i) == IF IsMatched(Cells[i], where) THEN Append(e, Cells[i]) ELSE e

\* The loop of Select.
LEMMA SelectLoop ==
    ASSUME NEW D, NEW where, len \in Nat, <<>> \in D,
           \A e \in D : \A i \in 1 .. len : Found(where, e, i) \in D
    PROVE  \E v \in [0 .. len -> D] :
             /\ v[0] = <<>>
             /\ \A i \in 1 .. len : v[i] = Found(where, v[i - 1], i)
             /\ Matching(where) = v[len]
  <1>0. PICK n \in Nat, d \in D : n = len /\ d = <<>>
    OBVIOUS
  <1> DEFINE Turn(g, i) == IF i = 0 THEN <<>> ELSE Found(where, g[i - 1], i)
  <1>1. PICK f \in [D \X (1 .. n) -> D] :
          \A e \in D : \A i \in 1 .. n : f[<<e, i>>] = Found(where, e, i)
    <2>0. \A e \in D : \A i \in 1 .. n : Found(where, e, i) \in D
      BY <1>0
    <2>1. PICK f : f = [x \in D \X (1 .. n) |-> Found(where, x[1], x[2])]
      OBVIOUS
    <2>2. \A x \in D \X (1 .. n) : x[1] \in D /\ x[2] \in 1 .. n
      OBVIOUS
    <2>3. f \in [D \X (1 .. n) -> D]
      BY <2>0, <2>1, <2>2
    <2> QED
      BY <2>1, <2>3
  <1>2. PICK v \in [0 .. n -> D] :
          v[0] = d /\ \A i \in 1 .. n : v[i] = f[<<v[i - 1], i>>]
    <2>1. PICK v : Course(n, D, d, f, v)
      BY Loop
    <2> QED
      BY <2>1 DEF Course
  <1>3. \A i \in 0 .. n : v[i] = Turn(v, i)
    <2> SUFFICES ASSUME NEW i \in 1 .. n PROVE v[i] = Found(where, v[i - 1], i)
      BY <1>0, <1>2
    <2>1. PICK e \in D : e = v[i - 1]
      OBVIOUS
    <2>2. v[i] = f[<<e, i>>]
      BY <1>2, <2>1
    <2> QED
      BY <1>1, <2>1, <2>2
  <1>4. v = [i \in 0 .. n |-> Turn(v, i)]
    <2> HIDE DEF Turn
    <2> QED
      BY <1>3
  <1>5. PICK g : g = [i \in 0 .. n |-> Turn(g, i)] /\ Matching(where) = g[n]
    <2> DEFINE found == CHOOSE g : g = [i \in 0 .. n |-> Turn(g, i)]
    <2>1. found = [i \in 0 .. n |-> Turn(found, i)]
      <3> HIDE DEF Turn
      <3> QED
        BY <1>4
    <2>2. Matching(where) = found[n]
      BY <1>0 DEF Matching, Found
    <2> QED
      BY <2>1, <2>2
  <1>6. g[0] = d /\ \A i \in 1 .. n : g[i] = Found(where, g[i - 1], i)
    <2>1. \A i \in 0 .. n : g[i] = Turn(g, i)
      <3> HIDE DEF Turn
      <3> QED
        BY <1>5
    <2>2. ASSUME NEW i \in 1 .. n PROVE Turn(g, i) = Found(where, g[i - 1], i)
      BY i # 0, Zenon
    <2>3. Turn(g, 0) = d
      BY <1>0
    <2> HIDE DEF Turn
    <2> QED
      BY <2>1, <2>2, <2>3
  <1>7. g = [i \in 0 .. n |-> g[i]]
    <2> HIDE DEF Turn
    <2> QED
      BY <1>5
  <1>8. g \in [0 .. n -> D]
    <2>1. ASSUME NEW i \in 1 .. n, g[i - 1] \in D PROVE g[i] \in D
      <3>1. PICK e \in D : e = g[i - 1]
        BY <2>1
      <3>2. g[i] = Found(where, e, i)
        BY <1>6, <3>1
      <3> QED
        BY <1>0, <3>1, <3>2
    <2> QED
      BY <1>6, <1>7, <2>1, Follows
  <1> QED
    BY <1>0, <1>5, <1>6, <1>8

-----------------------------------------------------------------------------
(***************************************************************************)
(* append: what a row put at the end of the slice does to its memory.      *)
(***************************************************************************)
Arrays == Seq(Seq(Rows \cup {Free}))

Memories == {e \in [arrays : Arrays, len : Nat] :
                e.arrays # <<>> /\ e.len <= Len(Last(e.arrays))}

\* An array only changes where row is put.
SameBut(e, f, row) ==
    /\ Len(f.arrays) >= Len(e.arrays)
    /\ \A k \in 1 .. Len(e.arrays) :
         /\ Len(f.arrays[k]) = Len(e.arrays[k])
         /\ \A j \in 1 .. Len(e.arrays[k]) : f.arrays[k][j] \in {e.arrays[k][j], row}

LEMMA AppendRowKeeps ==
    ASSUME NEW e \in Memories, NEW row \in Rows, NEW f, f = AppendRow(e, row)
    PROVE  /\ f \in Memories
           /\ f.len = e.len + 1
           /\ SameBut(e, f, row)
           /\ \A j \in 1 .. e.len : Last(f.arrays)[j] = Last(e.arrays)[j]
           /\ Last(f.arrays)[f.len] = row
  <1>1. PICK k \in Nat, cells \in Seq(Rows \cup {Free}), n \in Nat :
          /\ k = Len(e.arrays) /\ cells = e.arrays[k] /\ n = e.len
          /\ k >= 1 /\ n <= Len(cells)
    <2>1. e.arrays \in Arrays /\ e.arrays # <<>> /\ e.len \in Nat
            /\ e.len <= Len(Last(e.arrays))
      BY DEF Memories
    <2>2. Len(e.arrays) \in Nat /\ Len(e.arrays) >= 1
      BY <2>1 DEF Arrays
    <2>3. Last(e.arrays) \in Seq(Rows \cup {Free})
      BY <2>1, <2>2 DEF Arrays, Last
    <2> QED
      BY <2>1, <2>2, <2>3 DEF Last
  <1>2. e.arrays \in Arrays /\ Last(e.arrays) = cells
    BY <1>1 DEF Memories, Last
  <1>3. CASE n < Len(cells)
    <2>1. PICK new \in Seq(Rows \cup {Free}) : new = [cells EXCEPT ![n + 1] = row]
      <3>1. [cells EXCEPT ![n + 1] = row] \in Seq(Rows \cup {Free})
        BY <1>1, <1>3, ExceptSeq
      <3> QED
        BY <3>1
    <2>2. /\ Len(new) = Len(cells) /\ new[n + 1] = row
          /\ \A j \in 1 .. Len(cells) : j # n + 1 => new[j] = cells[j]
      BY <1>1, <1>3, <2>1
    <2>3. f.arrays = [e.arrays EXCEPT ![k] = new] /\ f.len = n + 1
            /\ f = [arrays |-> f.arrays, len |-> f.len]
      <3>1. f = [arrays |-> [e.arrays EXCEPT ![k] = [@ EXCEPT ![n + 1] = row]], len |-> n + 1]
        BY <1>1, <1>3 DEF AppendRow
      <3>2. [e.arrays EXCEPT ![k] = [@ EXCEPT ![n + 1] = row]] = [e.arrays EXCEPT ![k] = new]
        BY <1>1, <1>2, <2>1 DEF Arrays
      <3> QED
        BY <3>1, <3>2
    <2>4. /\ f.arrays \in Arrays /\ Len(f.arrays) = k /\ f.arrays[k] = new
          /\ \A h \in 1 .. k : h # k => f.arrays[h] = e.arrays[h]
      BY <1>1, <1>2, <2>3 DEF Arrays
    <2>5. Last(f.arrays) = new
      BY <2>4 DEF Last
    <2>6. f \in Memories
      <3>1. f \in [arrays : Arrays, len : Nat]
        BY <2>3, <2>4
      <3>2. f.arrays # <<>> /\ f.len <= Len(Last(f.arrays))
        BY <1>1, <1>3, <2>2, <2>3, <2>4, <2>5
      <3> QED
        BY <3>1, <3>2 DEF Memories
    <2>7. SameBut(e, f, row)
      <3> SUFFICES ASSUME NEW h \in 1 .. k
                   PROVE  /\ Len(f.arrays[h]) = Len(e.arrays[h])
                          /\ \A j \in 1 .. Len(e.arrays[h]) :
                               f.arrays[h][j] \in {e.arrays[h][j], row}
        BY <1>1, <2>4 DEF SameBut
      <3>1. CASE h = k
        BY <1>1, <2>2, <2>4, <3>1
      <3>2. CASE h # k
        BY <1>1, <2>4, <3>2
      <3> QED
        BY <3>1, <3>2
    <2>8. \A j \in 1 .. e.len : Last(f.arrays)[j] = Last(e.arrays)[j]
      BY <1>1, <1>2, <1>3, <2>2, <2>5
    <2> QED
      BY <1>1, <2>2, <2>3, <2>5, <2>6, <2>7, <2>8
  <1>4. CASE ~(n < Len(cells))
    <2>1. PICK size \in Nat : size = Grown(Len(cells)) /\ size >= n + 1
      BY <1>1, <1>4 DEF Grown
    <2>2. PICK new : new = [i \in 1 .. size |-> IF i <= n THEN cells[i]
                                               ELSE IF i = n + 1 THEN row ELSE Free]
      OBVIOUS
    <2>3. new \in Seq(Rows \cup {Free}) /\ Len(new) = size
      <3>1. \A i \in 1 .. size : new[i] \in Rows \cup {Free}
        <4> SUFFICES ASSUME NEW i \in 1 .. size PROVE new[i] \in Rows \cup {Free}
          OBVIOUS
        <4>1. CASE i <= n
          BY <1>1, <2>2, <4>1
        <4>2. CASE ~(i <= n)
          BY <1>1, <2>2, <4>2
        <4> QED
          BY <4>1, <4>2
      <3>2. new \in [1 .. size -> Rows \cup {Free}]
        BY <2>2, <3>1
      <3> QED
        BY <3>2
    <2>4. new[n + 1] = row /\ \A j \in 1 .. n : new[j] = cells[j]
      BY <1>1, <2>1, <2>2
    <2>5. f.arrays = Append(e.arrays, new) /\ f.len = n + 1
            /\ f = [arrays |-> f.arrays, len |-> f.len]
      BY <1>1, <1>4, <2>1, <2>2 DEF AppendRow
    <2>6. /\ f.arrays \in Arrays /\ Len(f.arrays) = k + 1 /\ f.arrays[k + 1] = new
          /\ \A h \in 1 .. k : f.arrays[h] = e.arrays[h]
      BY <1>1, <1>2, <2>3, <2>5 DEF Arrays
    <2>7. Last(f.arrays) = new
      BY <2>6 DEF Last
    <2>8. f \in Memories
      <3>1. f \in [arrays : Arrays, len : Nat]
        <4>1. f.arrays \in Arrays /\ f.len \in Nat
          BY <1>1, <2>5, <2>6
        <4> QED
          BY <2>5, <4>1
      <3>2. f.arrays # <<>> /\ f.len <= Len(Last(f.arrays))
        BY <1>1, <2>1, <2>3, <2>5, <2>6, <2>7
      <3> QED
        BY <3>1, <3>2 DEF Memories
    <2>9. SameBut(e, f, row)
      BY <1>1, <2>6 DEF SameBut
    <2>10. \A j \in 1 .. e.len : Last(f.arrays)[j] = Last(e.arrays)[j]
      BY <1>1, <1>2, <2>4, <2>7
    <2> QED
      BY <1>1, <2>4, <2>5, <2>7, <2>8, <2>9, <2>10
  <1> QED
    BY <1>3, <1>4

\* e is the memory of the table with i more rows put at its end: an array that
\* was there has new rows in it, and else what it had.
Filled(i, e) ==
    /\ e \in Memories
    /\ e.len = len + i
    /\ Len(e.arrays) >= Len(arrays)
    /\ \A k \in 1 .. Len(arrays) :
         /\ Len(e.arrays[k]) = Len(arrays[k])
         /\ \A j \in 1 .. Len(arrays[k]) :
              e.arrays[k][j] = arrays[k][j] \/ e.arrays[k][j] \in inserted + 1 .. inserted + i
    /\ \A j \in 1 .. len : Last(e.arrays)[j] = Cells[j]
    /\ \A j \in 1 .. i : Last(e.arrays)[len + j] = inserted + j

LEMMA FilledTurn ==
    ASSUME arrays \in Arrays, len \in Nat, inserted \in Nat, NEW i \in Nat, i > 0,
           NEW h \in Nat, h = i - 1, inserted + i <= MaxRows,
           NEW e, Filled(h, e), NEW f, f = AppendRow(e, inserted + i)
    PROVE  Filled(i, f)
  <1>1. PICK row \in Rows : row = inserted + i
    BY BoundAssumption DEF Rows
  <1>2. /\ f \in Memories
        /\ f.len = e.len + 1
        /\ SameBut(e, f, row)
        /\ \A j \in 1 .. e.len : Last(f.arrays)[j] = Last(e.arrays)[j]
        /\ Last(f.arrays)[f.len] = row
    <2>1. e \in Memories
      BY DEF Filled
    <2>2. f = AppendRow(e, row)
      BY <1>1
    <2> QED
      BY <2>1, <2>2, AppendRowKeeps
  <1>3. Len(e.arrays) \in Nat /\ Len(f.arrays) \in Nat /\ Len(arrays) \in Nat
    BY <1>2 DEF Filled, Memories, Arrays
  <1>4. Len(f.arrays) >= Len(arrays) /\ f.len = len + i
    BY <1>2, <1>3 DEF Filled, SameBut
  <1>5. ASSUME NEW k \in 1 .. Len(arrays)
        PROVE  /\ Len(f.arrays[k]) = Len(arrays[k])
               /\ \A j \in 1 .. Len(arrays[k]) :
                    f.arrays[k][j] = arrays[k][j] \/ f.arrays[k][j] \in inserted + 1 .. inserted + i
    <2>1. k \in 1 .. Len(e.arrays)
      BY <1>3 DEF Filled
    <2>2. Len(f.arrays[k]) = Len(e.arrays[k]) /\ Len(e.arrays[k]) = Len(arrays[k])
      BY <1>2, <2>1 DEF SameBut, Filled
    <2>3. ASSUME NEW j \in 1 .. Len(arrays[k])
          PROVE  f.arrays[k][j] = arrays[k][j] \/ f.arrays[k][j] \in inserted + 1 .. inserted + i
      <3>1. f.arrays[k][j] \in {e.arrays[k][j], row}
        BY <1>2, <2>1, <2>2 DEF SameBut
      <3>2. e.arrays[k][j] = arrays[k][j] \/ e.arrays[k][j] \in inserted + 1 .. inserted + h
        BY DEF Filled
      <3>3. inserted + 1 .. inserted + h \subseteq inserted + 1 .. inserted + i
              /\ row \in inserted + 1 .. inserted + i
        BY <1>1
      <3> QED
        BY <3>1, <3>2, <3>3
    <2> QED
      BY <2>2, <2>3
  <1>6. ASSUME NEW j \in 1 .. len PROVE Last(f.arrays)[j] = Cells[j]
    <2>1. e.len = len + h /\ Last(e.arrays)[j] = Cells[j]
      BY DEF Filled
    <2>2. j \in 1 .. e.len
      BY <2>1
    <2> QED
      BY <1>2, <2>1, <2>2
  <1>7. ASSUME NEW j \in 1 .. i PROVE Last(f.arrays)[len + j] = inserted + j
    <2>1. CASE j = i
      BY <1>1, <1>2, <1>4, <2>1
    <2>2. CASE j # i
      <3>1. j \in 1 .. h /\ len + j \in 1 .. e.len
        BY <2>2 DEF Filled
      <3>2. Last(e.arrays)[len + j] = inserted + j
        BY <3>1 DEF Filled
      <3> QED
        BY <1>2, <3>1, <3>2
    <2> QED
      BY <2>1, <2>2
  <1> QED
    BY <1>2, <1>4, <1>5, <1>6, <1>7 DEF Filled

LEMMA AppendedFills ==
    ASSUME arrays \in Arrays, arrays # <<>>, len \in 0 .. Len(Cells), inserted \in Nat,
           NEW n \in Nat, inserted + n <= MaxRows
    PROVE  Filled(n, Appended(n))
  <1>1. PICK d : d = [arrays |-> arrays, len |-> len]
    OBVIOUS
  <1>2. Filled(0, d)
    <2>1. d \in Memories
      BY <1>1 DEF Memories, Last, Cells
    <2>2. d.arrays = arrays /\ d.len = len
      BY <1>1
    <2>3. Len(arrays) \in Nat
      BY DEF Arrays
    <2> QED
      BY <2>1, <2>2, <2>3 DEF Filled, Last, Cells
  <1>3. \A e \in Memories : \A i \in 1 .. n : AppendRow(e, inserted + i) \in Memories
    <2> SUFFICES ASSUME NEW e \in Memories, NEW i \in 1 .. n
                 PROVE  AppendRow(e, inserted + i) \in Memories
      OBVIOUS
    <2>1. PICK row \in Rows : row = inserted + i
      BY BoundAssumption DEF Rows
    <2> QED
      BY <2>1, AppendRowKeeps
  <1>4. [arrays |-> arrays, len |-> len] \in Memories
    BY <1>1, <1>2 DEF Filled
  <1>5. PICK v \in [0 .. n -> Memories] :
          /\ v[0] = d
          /\ \A i \in 1 .. n : v[i] = AppendRow(v[i - 1], inserted + i)
          /\ Appended(n) = v[n]
    BY <1>1, <1>3, <1>4, InsertLoop
  <1>6. \A i \in 0 .. n : i \in {k \in 0 .. n : Filled(k, v[k])}
    <2> DEFINE T == {k \in 0 .. n : Filled(k, v[k])}
    <2>1. 0 \in T
      BY <1>2, <1>5
    <2>2. ASSUME NEW i \in 1 .. n, i - 1 \in T PROVE i \in T
      <3>1. PICK h \in 0 .. n : h = i - 1
        OBVIOUS
      <3>2. Filled(h, v[h])
        BY <2>2, <3>1
      <3>3. v[i] = AppendRow(v[h], inserted + i)
        BY <1>5, <3>1
      <3>4. /\ i \in Nat /\ i > 0 /\ h \in Nat /\ h = i - 1 /\ inserted + i <= MaxRows
            /\ len \in Nat
        <4>1. Len(Cells) \in Nat
          BY DEF Cells, Arrays
        <4> QED
          BY <3>1, <4>1, BoundAssumption
      <3>5. Filled(i, v[i])
        <4>1. PICK e, f : e = v[h] /\ f = v[i]
          OBVIOUS
        <4>2. Filled(h, e) /\ f = AppendRow(e, inserted + i)
          BY <3>2, <3>3, <4>1
        <4>3. Filled(i, f)
          BY <3>4, <4>2, FilledTurn
        <4> QED
          BY <4>1, <4>3
      <3> QED
        BY <3>5
    <2>3. \A i \in 0 .. n : i \in T
      <3> HIDE DEF T
      <3> QED
        BY <2>1, <2>2, Turns
    <2> QED
      BY <2>3
  <1>7. Filled(n, v[n])
    BY <1>6
  <1> QED
    BY <1>5, <1>7

-----------------------------------------------------------------------------
(***************************************************************************)
(* Types: the memory of the table, and of the slices that sessions hold.   *)
(***************************************************************************)
Made == 1 .. inserted

Picks == [array : Nat, len : Nat, list : Seq(Rows)]

\* The table's slice holds rows that were made.
Stored ==
    /\ fault \in {"none", "panic", "rowrace"}
    /\ arrays \in Arrays /\ arrays # <<>>
    /\ len \in 0 .. Len(Cells)
    /\ inserted \in 0 .. MaxRows
    /\ content \in [Rows -> Contents]
    /\ op \in [Sessions -> Operations \cup {Idle}]
    /\ pick \in [Sessions -> Picks]
    /\ \A j \in 1 .. len : Cells[j] \in Made

\* So does the slice p, even where the table has grown out of its array, or
\* has become shorter than it.
PickStored(p) ==
    /\ p.array = 0 => p.list \in Seq(Made)
    /\ p.array # 0 => /\ p.array <= Len(arrays)
                      /\ p.len <= Len(arrays[p.array])
                      /\ \A j \in 1 .. p.len : arrays[p.array][j] \in Made

TableInv == Stored /\ \A s \in Sessions : PickStored(pick[s])

LEMMA Prefix ==
    ASSUME NEW S, NEW a \in Seq(S), NEW n \in Nat, n <= Len(a)
    PROVE  /\ SubSeq(a, 1, n) \in Seq(S) /\ Len(SubSeq(a, 1, n)) = n
           /\ \A j \in 1 .. n : SubSeq(a, 1, n)[j] = a[j]
  <1>1. PICK m \in Nat : m = Len(a) /\ n <= m
    OBVIOUS
  <1>2. 1 \in 1 .. m + 1 /\ n \in 0 .. m
    BY <1>1
  <1>3. \A i \in 1 .. n : i \in 1 .. m
    BY <1>1
  <1> QED
    BY <1>1, <1>2, <1>3, SubSeqProperties

LEMMA CellsType ==
    ASSUME Stored
    PROVE  /\ Cells \in Seq(Rows \cup {Free}) /\ len \in Nat /\ len <= Len(Cells)
           /\ inserted \in Nat /\ Made \subseteq Rows /\ Made \subseteq Nat /\ Len(arrays) >= 1
           /\ Len(arrays) \in Nat /\ Len(Cells) \in Nat
           /\ Visible \in Seq(Made) /\ Len(Visible) = len
           /\ \A j \in 1 .. len : Visible[j] = Cells[j]
  <1>1. Len(arrays) \in Nat /\ Len(arrays) >= 1
    BY DEF Stored, Arrays
  <1>2. Cells \in Seq(Rows \cup {Free})
    BY <1>1 DEF Stored, Arrays, Cells
  <1>3. len \in Nat /\ len <= Len(Cells) /\ Len(Cells) \in Nat
    BY <1>2 DEF Stored
  <1>4. inserted \in Nat /\ Made \subseteq Rows /\ Made \subseteq Nat
    BY BoundAssumption DEF Stored, Made, Rows
  <1>5. /\ Visible \in Seq(Rows \cup {Free}) /\ Len(Visible) = len
        /\ \A j \in 1 .. len : Visible[j] = Cells[j]
    BY <1>2, <1>3, Prefix DEF Visible
  <1>6. Visible \in Seq(Made)
    BY <1>3, <1>5 DEF Stored
  <1> QED
    BY <1>1, <1>2, <1>3, <1>4, <1>5, <1>6

\* What a slice holds are rows that were made.
LEMMA PickedType ==
    ASSUME TableInv, NEW s \in Sessions
    PROVE  Picked(s) \in Seq(Made)
  <1>1. pick[s] \in Picks /\ PickStored(pick[s])
    BY DEF TableInv, Stored
  <1>2. CASE pick[s].array = 0
    BY <1>1, <1>2 DEF Picked, PickStored
  <1>3. CASE pick[s].array # 0
    <2>1. PICK a \in Seq(Rows \cup {Free}), n \in Nat :
            /\ a = arrays[pick[s].array] /\ n = pick[s].len /\ n <= Len(a)
            /\ \A j \in 1 .. n : a[j] \in Made
      <3>1. pick[s].array \in 1 .. Len(arrays) /\ pick[s].len \in Nat
        BY <1>1, <1>3, CellsType DEF PickStored, Picks, TableInv
      <3>2. arrays[pick[s].array] \in Seq(Rows \cup {Free})
        BY <3>1 DEF TableInv, Stored, Arrays
      <3> QED
        BY <1>1, <1>3, <3>1, <3>2 DEF PickStored
    <2>2. /\ SubSeq(a, 1, n) \in Seq(Rows \cup {Free}) /\ Len(SubSeq(a, 1, n)) = n
          /\ \A j \in 1 .. n : SubSeq(a, 1, n)[j] = a[j]
      BY <2>1, Prefix
    <2>3. SubSeq(a, 1, n) \in Seq(Made)
      BY <2>1, <2>2
    <2> QED
      BY <1>3, <2>1, <2>3 DEF Picked
  <1> QED
    BY <1>2, <1>3

LEMMA InvTypes == TableInv => TypeOK
  <1> SUFFICES ASSUME TableInv PROVE TypeOK
    OBVIOUS
  <1>1. Stored
    BY DEF TableInv
  <1>2. ToSet(Visible) \subseteq 1 .. inserted
    BY <1>1, CellsType DEF ToSet, Made
  <1>3. ASSUME NEW s \in Sessions
        PROVE  op[s] \in Operations \cup {Idle} /\ ToSet(Picked(s)) \subseteq 1 .. inserted
    <2>1. PICK p \in Seq(Made) : p = Picked(s)
      BY PickedType
    <2>2. ToSet(p) \subseteq Made
      BY DEF ToSet
    <2>3. op[s] \in Operations \cup {Idle}
      BY <1>1 DEF Stored
    <2> QED
      BY <2>1, <2>2, <2>3 DEF Made
  <1> QED
    BY <1>1, <1>2, <1>3 DEF TypeOK, Stored, Arrays

LEMMA InitStored == Init => TableInv
  <1> SUFFICES ASSUME Init PROVE TableInv
    OBVIOUS
  <1>1. arrays \in Arrays /\ arrays # <<>> /\ Len(arrays) = 1 /\ Cells = <<>>
    BY DEF Init, Arrays, Cells
  <1>2. content \in [Rows -> Contents]
    <2>1. (CHOOSE x \in Contents : TRUE) \in Contents
      <3>1. PICK k \in Keys, v \in Vals : TRUE
        BY ValuesAssumption
      <3>2. [key |-> k, val |-> v] \in Contents
        BY DEF Contents
      <3> QED
        BY <3>2
    <2> QED
      BY <2>1 DEF Init
  <1>3. pick \in [Sessions -> Picks]
    BY DEF Init, NoPick, Picks
  <1>4. Stored
    BY <1>1, <1>2, <1>3, BoundAssumption DEF Init, Stored
  <1>5. ASSUME NEW s \in Sessions PROVE PickStored(pick[s])
    <2>1. pick[s].array = 0 /\ pick[s].list = <<>> /\ <<>> \in Seq(Made)
      BY DEF Init, NoPick
    <2> QED
      BY <2>1 DEF PickStored
  <1> QED
    BY <1>4, <1>5 DEF TableInv

\* What Select finds are rows of the table.
LEMMA MatchingType ==
    ASSUME len \in Nat, NEW S, \A j \in 1 .. len : Cells[j] \in S, NEW where
    PROVE  Matching(where) \in Seq(S)
  <1>1. \A e \in Seq(S) : \A i \in 1 .. len : Found(where, e, i) \in Seq(S)
    BY DEF Found
  <1>2. <<>> \in Seq(S)
    OBVIOUS
  <1>3. PICK v \in [0 .. len -> Seq(S)] : Matching(where) = v[len]
    BY <1>1, <1>2, SelectLoop
  <1> QED
    BY <1>3

-----------------------------------------------------------------------------
(***************************************************************************)
(* The two loops of Delete.                                                *)
(***************************************************************************)
Slices == [cells : Seq(Rows \cup {Free}), len : Nat, panic : BOOLEAN]

\* The array of the table while rows are taken out of it: a cell that held a
\* row holds a row.
Shrunk ==
    {d \in Slices :
        /\ Len(d.cells) = Len(Cells) /\ d.len <= len
        /\ \A j \in 1 .. d.len : d.cells[j] \in Made
        /\ \A j \in 1 .. Len(Cells) : Cells[j] \in Made => d.cells[j] \in Made}

Start == [cells |-> Cells, len |-> len, panic |-> FALSE]

LEMMA StartShrunk ==
    ASSUME Stored
    PROVE  Start \in Shrunk /\ Start.cells = Cells /\ Start.len = len /\ ~Start.panic
  <1>1. Start.cells = Cells /\ Start.len = len /\ Start.panic = FALSE
    BY DEF Start
  <1>2. Start \in Slices
    BY CellsType DEF Start, Slices
  <1>3. \A j \in 1 .. len : Cells[j] \in Made
    BY DEF Stored
  <1> QED
    BY <1>1, <1>2, <1>3, CellsType DEF Shrunk

\* The cells behind the one taken out move down by one.
LEMMA WithoutMoves ==
    ASSUME Stored, NEW d \in Shrunk, NEW i \in 1 .. d.len, NEW w, w = Without(d, i)
    PROVE  /\ w \in Shrunk /\ w.len = d.len - 1 /\ w.panic = d.panic
           /\ \A j \in 1 .. Len(Cells) :
                w.cells[j] = IF j \in i .. d.len - 1 THEN d.cells[j + 1] ELSE d.cells[j]
  <1>1. PICK a \in Seq(Rows \cup {Free}), n \in Nat, k \in Nat :
          /\ a = d.cells /\ n = d.len /\ k = Len(Cells)
          /\ Len(a) = k /\ n <= len /\ d.panic \in BOOLEAN
          /\ \A j \in 1 .. n : a[j] \in Made
          /\ \A j \in 1 .. k : Cells[j] \in Made => a[j] \in Made
    BY CellsType DEF Shrunk, Slices
  <1>2. len \in Nat /\ len <= k /\ Made \subseteq Rows
    BY <1>1, CellsType
  <1>3. PICK b : b = [j \in DOMAIN a |-> IF j \in i .. n - 1 THEN a[j + 1] ELSE a[j]]
    OBVIOUS
  <1>4. DOMAIN a = 1 .. k /\ i \in 1 .. n /\ n <= k
    BY <1>1, <1>2
  <1>5. \A j \in 1 .. k : b[j] = IF j \in i .. n - 1 THEN a[j + 1] ELSE a[j]
    BY <1>3, <1>4
  <1>6. w.cells = b /\ w.len = n - 1 /\ w.panic = d.panic /\ w = [cells |-> b, len |-> n - 1, panic |-> d.panic]
    BY <1>1, <1>3 DEF Without
  <1>7. b \in Seq(Rows \cup {Free}) /\ Len(b) = k
    <2>1. \A j \in 1 .. k : b[j] \in Rows \cup {Free}
      BY <1>1, <1>4, <1>5
    <2>2. b \in [1 .. k -> Rows \cup {Free}]
      BY <1>3, <1>4, <2>1
    <2> QED
      BY <2>2
  <1>8. w \in Slices
    <2>1. n - 1 \in Nat
      BY <1>4
    <2> QED
      BY <1>1, <1>6, <1>7, <2>1 DEF Slices
  <1>9. \A j \in 1 .. n - 1 : b[j] \in Made
    BY <1>1, <1>4, <1>5
  <1>10. \A j \in 1 .. k : Cells[j] \in Made => b[j] \in Made
    BY <1>1, <1>4, <1>5
  <1>11. w \in Shrunk
    BY <1>1, <1>2, <1>4, <1>6, <1>7, <1>8, <1>9, <1>10 DEF Shrunk
  <1> QED
    BY <1>1, <1>5, <1>6, <1>11

LEMMA VisitType ==
    ASSUME Stored, NEW d \in Shrunk, NEW i \in Nat \ {0}, NEW row
    PROVE  Visit(row, d, i) \in Shrunk
  <1>1. CASE d.panic \/ ~IsEqual(row, d.cells[i])
    BY <1>1 DEF Visit
  <1>2. CASE ~(d.panic \/ ~IsEqual(row, d.cells[i])) /\ i > d.len
    <2>1. PICK w : w = [d EXCEPT !.panic = TRUE]
      OBVIOUS
    <2>2. w \in Slices /\ w.cells = d.cells /\ w.len = d.len
      BY <2>1 DEF Shrunk, Slices
    <2>3. Visit(row, d, i) = w
      BY <1>2, <2>1 DEF Visit
    <2> QED
      BY <2>2, <2>3 DEF Shrunk
  <1>3. CASE ~(d.panic \/ ~IsEqual(row, d.cells[i])) /\ ~(i > d.len)
    <2>1. i \in 1 .. d.len
      BY <1>3 DEF Shrunk, Slices
    <2>2. Visit(row, d, i) = Without(d, i)
      BY <1>3 DEF Visit
    <2> QED
      BY <2>1, <2>2, WithoutMoves
  <1> QED
    BY <1>1, <1>2, <1>3

LEMMA DeleteEqualType ==
    ASSUME Stored, NEW d \in Shrunk, NEW row
    PROVE  DeleteEqual(d, row) \in Shrunk
  <1>1. d.len \in Nat
    BY DEF Shrunk, Slices
  <1>2. \A e \in Shrunk : \A i \in 1 .. d.len : Visit(row, e, i) \in Shrunk
    BY <1>1, VisitType
  <1>3. PICK v \in [0 .. d.len -> Shrunk] : DeleteEqual(d, row) = v[d.len]
    BY <1>1, <1>2, InnerLoop
  <1> QED
    BY <1>1, <1>3

LEMMA DeletePickedType ==
    ASSUME TableInv, NEW s \in Sessions
    PROVE  DeletePicked(s) \in Shrunk
  <1>1. Len(Picked(s)) \in Nat
    BY PickedType
  <1>2. \A e \in Shrunk : \A i \in 1 .. Len(Picked(s)) :
          DeleteEqual(e, PickedRow(s, e, i)) \in Shrunk
    BY DeleteEqualType DEF TableInv
  <1>3. [cells |-> Cells, len |-> len, panic |-> FALSE] \in Shrunk
    BY StartShrunk DEF Start, TableInv
  <1>4. PICK v \in [0 .. Len(Picked(s)) -> Shrunk] : DeletePicked(s) = v[Len(Picked(s))]
    BY <1>1, <1>2, <1>3, OuterLoop
  <1> QED
    BY <1>1, <1>4

-----------------------------------------------------------------------------
(***************************************************************************)
(* Every step keeps the types.                                             *)
(***************************************************************************)

\* A slice keeps its rows when no array loses one.
LEMMA PicksKept ==
    ASSUME NEW p \in Picks, PickStored(p), arrays \in Arrays,
           NEW m, Made \subseteq m, m = Made',
           Len(arrays') >= Len(arrays), Len(arrays) \in Nat, Len(arrays') \in Nat,
           \A k \in 1 .. Len(arrays) :
             /\ Len(arrays'[k]) = Len(arrays[k])
             /\ \A j \in 1 .. Len(arrays[k]) : arrays[k][j] \in Made => arrays'[k][j] \in m
    PROVE  PickStored(p)'
  <1>1. CASE p.array = 0
    BY <1>1 DEF PickStored
  <1>2. CASE p.array # 0
    <2>1. PICK k \in 1 .. Len(arrays) : k = p.array
      BY <1>2 DEF PickStored, Picks
    <2>2. p.len \in Nat /\ p.len <= Len(arrays[k]) /\ \A j \in 1 .. p.len : arrays[k][j] \in Made
      BY <1>2, <2>1 DEF PickStored, Picks
    <2>3. arrays[k] \in Seq(Rows \cup {Free})
      BY DEF Arrays
    <2>4. Len(arrays'[k]) = Len(arrays[k]) /\ Len(arrays[k]) \in Nat
      BY <2>3
    <2>5. ASSUME NEW j \in 1 .. p.len PROVE arrays'[k][j] \in m
      <3>1. j \in 1 .. Len(arrays[k])
        BY <2>2, <2>4
      <3> QED
        BY <2>2, <3>1
    <2> QED
      BY <1>2, <2>1, <2>2, <2>4, <2>5 DEF PickStored
  <1> QED
    BY <1>1, <1>2

LEMMA InsertStored ==
    ASSUME TableInv, NEW s \in Sessions, NEW rows \in Seq(Contents), Insert(s, rows)
    PROVE  TableInv'
  <1>1. PICK n \in Nat : n = Len(rows) /\ inserted + n <= MaxRows
    BY DEF Insert
  <1>2. PICK f : f = Appended(n) /\ Filled(n, f) /\ arrays' = f.arrays /\ len' = f.len
    <2>1. arrays \in Arrays /\ arrays # <<>> /\ len \in 0 .. Len(Cells) /\ inserted \in Nat
      BY CellsType DEF TableInv, Stored
    <2>2. Filled(n, Appended(n))
      BY <1>1, <2>1, AppendedFills
    <2> QED
      BY <1>1, <2>2 DEF Insert
  <1>3. /\ Stored /\ inserted' = inserted + n /\ inserted \in Nat
        /\ fault' = fault /\ op' = op /\ pick' = pick
    BY <1>1, CellsType DEF Insert, TableInv
  <1>4. /\ arrays' \in Arrays /\ arrays' # <<>> /\ Cells' = Last(arrays')
        /\ Len(arrays') \in Nat /\ Len(arrays) \in Nat /\ Len(arrays') >= Len(arrays)
        /\ len' \in Nat /\ len' <= Len(Cells') /\ len' = len + n
    BY <1>2, <1>3, CellsType DEF Filled, Memories, Arrays, Cells, Last
  <1>5. Made' = 1 .. inserted + n /\ Made \subseteq 1 .. inserted + n
          /\ inserted + 1 .. inserted + n \subseteq 1 .. inserted + n
    BY <1>3 DEF Made
  <1>6. ASSUME NEW j \in 1 .. len + n PROVE Last(f.arrays)[j] \in 1 .. inserted + n
    <2>1. CASE j <= len
      <3>1. Last(f.arrays)[j] = Cells[j] /\ Cells[j] \in Made
        BY <1>2, <1>3, <2>1, CellsType DEF Filled, Stored
      <3> QED
        BY <1>5, <3>1
    <2>2. CASE ~(j <= len)
      <3>1. PICK i \in 1 .. n : j = len + i
        <4>1. j - len \in 1 .. n /\ j = len + (j - len)
          BY <1>3, <2>2, CellsType
        <4> QED
          BY <4>1
      <3>2. Last(f.arrays)[j] = inserted + i
        BY <1>2, <3>1 DEF Filled
      <3> QED
        BY <1>3, <3>2
    <2> QED
      BY <2>1, <2>2
  <1>7. content' \in [Rows -> Contents]
    <2>1. \A r \in inserted + 1 .. inserted + n : rows[r - inserted] \in Contents
      BY <1>1, <1>3
    <2>2. content' = [r \in Rows |-> IF r \in inserted + 1 .. inserted + n
                                     THEN rows[r - inserted] ELSE content[r]]
      BY <1>1 DEF Insert
    <2>3. content \in [Rows -> Contents]
      BY <1>3 DEF Stored
    <2> QED
      BY <2>1, <2>2, <2>3
  <1>8. Stored'
    <2>1. \A j \in 1 .. len' : Cells'[j] \in Made'
      BY <1>2, <1>4, <1>5, <1>6
    <2>2. inserted' \in 0 .. MaxRows
      BY <1>1, <1>3, BoundAssumption
    <2>3. len' \in 0 .. Len(Cells')
      BY <1>4, CellsType
    <2> QED
      BY <1>3, <1>4, <1>7, <2>1, <2>2, <2>3 DEF Stored
  <1>9. ASSUME NEW t \in Sessions PROVE PickStored(pick[t])'
    <2>1. PICK p \in Picks : p = pick[t] /\ PickStored(p)
      BY <1>3 DEF TableInv, Stored
    <2>2. ASSUME NEW k \in 1 .. Len(arrays)
          PROVE  /\ Len(arrays'[k]) = Len(arrays[k])
                 /\ \A j \in 1 .. Len(arrays[k]) :
                      arrays[k][j] \in Made => arrays'[k][j] \in 1 .. inserted + n
      BY <1>2, <1>5 DEF Filled
    <2>3. PICK m : m = 1 .. inserted + n
      OBVIOUS
    <2>4. PickStored(p)'
      BY <1>3, <1>4, <1>5, <2>1, <2>2, <2>3, PicksKept DEF Stored
    <2> QED
      BY <1>3, <2>1, <2>4
  <1> QED
    BY <1>8, <1>9 DEF TableInv

LEMMA SelectStored ==
    ASSUME TableInv, NEW s \in Sessions, NEW o \in Operations, Select(s, o)
    PROVE  TableInv'
  <1>1. /\ Stored /\ fault' = fault /\ arrays' = arrays /\ len' = len /\ inserted' = inserted
        /\ content' = content
    BY DEF Select, TableInv
  <1>2. PICK p \in Picks : PickStored(p) /\ pick' = [pick EXCEPT ![s] = p]
    <2>1. CASE o.where.kind = "none"
      <3>1. PICK p : p = [array |-> Len(arrays), len |-> len, list |-> <<>>]
        OBVIOUS
      <3>2. p \in Picks /\ p.array = Len(arrays) /\ p.len = len
        BY <1>1, <3>1, CellsType DEF Picks
      <3>3. PickStored(p)
        BY <1>1, <3>2, CellsType DEF PickStored, Stored, Cells
      <3>4. pick' = [pick EXCEPT ![s] = p]
        BY <2>1, <3>1 DEF Select
      <3> QED
        BY <3>2, <3>3, <3>4
    <2>2. CASE o.where.kind # "none"
      <3>1. PICK l \in Seq(Made) : l = Matching(o.where)
        <4>1. Matching(o.where) \in Seq(Made)
          BY <1>1, CellsType, MatchingType DEF Stored
        <4> QED
          BY <4>1
      <3>2. PICK p : p = [array |-> 0, len |-> 0, list |-> l]
        OBVIOUS
      <3>3. p \in Picks /\ p.array = 0 /\ p.list = l
        <4>1. l \in Seq(Rows)
          BY <1>1, CellsType
        <4> QED
          BY <3>2, <4>1 DEF Picks
      <3>4. PickStored(p)
        BY <3>3 DEF PickStored
      <3>5. pick' = [pick EXCEPT ![s] = p]
        BY <2>2, <3>1, <3>2 DEF Select
      <3> QED
        BY <3>3, <3>4, <3>5
    <2> QED
      BY <2>1, <2>2
  <1>3. op' \in [Sessions -> Operations \cup {Idle}] /\ pick' \in [Sessions -> Picks]
    BY <1>1, <1>2 DEF Stored, Select
  <1>4. Stored'
    BY <1>1, <1>3 DEF Stored, Cells, Made
  <1>5. ASSUME NEW q, PickStored(q) PROVE PickStored(q)'
    BY <1>1, <1>5 DEF PickStored, Made
  <1>6. ASSUME NEW t \in Sessions PROVE PickStored(pick[t])'
    <2>1. PICK q : q = pick'[t]
      OBVIOUS
    <2>2. PickStored(q)
      <3>1. q = p \/ q = pick[t]
        BY <1>1, <1>2, <2>1 DEF Stored
      <3> QED
        BY <1>2, <3>1 DEF TableInv
    <2>3. PickStored(q)'
      BY <1>5, <2>2
    <2> QED
      BY <2>1, <2>3
  <1> QED
    BY <1>4, <1>6 DEF TableInv

LEMMA DeleteStored ==
    ASSUME TableInv, NEW s \in Sessions, Delete(s)
    PROVE  TableInv'
  <1>1. PICK d \in Shrunk, k \in Nat :
          /\ d = DeletePicked(s) /\ k = Len(arrays) /\ k >= 1
          /\ arrays' = [arrays EXCEPT ![k] = d.cells] /\ len' = d.len
          /\ fault' = IF d.panic THEN "panic" ELSE fault
    BY DeletePickedType, CellsType DEF Delete, TableInv
  <1>2. /\ Stored /\ inserted' = inserted /\ content' = content /\ Made' = Made
        /\ op' = [op EXCEPT ![s] = Idle] /\ pick' = [pick EXCEPT ![s] = NoPick]
    BY DEF Delete, Finish, TableInv, Made
  <1>3. PICK a \in Seq(Rows \cup {Free}), n \in Nat :
          /\ a = d.cells /\ n = d.len /\ Len(a) = Len(Cells) /\ n <= len
          /\ \A j \in 1 .. n : a[j] \in Made
          /\ \A j \in 1 .. Len(Cells) : Cells[j] \in Made => a[j] \in Made
    BY DEF Shrunk, Slices
  <1>4. /\ arrays' \in Arrays /\ Len(arrays') = k /\ arrays'[k] = a
        /\ \A h \in 1 .. k : h # k => arrays'[h] = arrays[h]
    <2>1. arrays \in Arrays
      BY <1>2 DEF Stored
    <2> QED
      BY <1>1, <1>3, <2>1, ExceptSeq DEF Arrays
  <1>5. Cells' = a /\ arrays' # <<>>
    BY <1>1, <1>4 DEF Cells
  <1>6. Stored'
    <2>1. len' \in 0 .. Len(Cells')
      BY <1>1, <1>2, <1>3, <1>5, CellsType
    <2>2. op' \in [Sessions -> Operations \cup {Idle}]
      BY <1>2 DEF Stored
    <2>3. pick' \in [Sessions -> Picks]
      BY <1>2 DEF Stored, Picks, NoPick
    <2>4. fault' \in {"none", "panic", "rowrace"}
      BY <1>1, <1>2 DEF Stored
    <2>5. \A j \in 1 .. len' : Cells'[j] \in Made'
      BY <1>1, <1>2, <1>3, <1>5
    <2> QED
      BY <1>2, <1>4, <1>5, <2>1, <2>2, <2>3, <2>4, <2>5 DEF Stored
  <1>7. ASSUME NEW h \in 1 .. Len(arrays)
        PROVE  /\ Len(arrays'[h]) = Len(arrays[h])
               /\ \A j \in 1 .. Len(arrays[h]) : arrays[h][j] \in Made => arrays'[h][j] \in Made
    <2>1. CASE h = k
      <3>1. arrays'[h] = a /\ arrays[h] = Cells
        BY <1>1, <1>4, <2>1 DEF Cells
      <3> QED
        BY <1>3, <3>1
    <2>2. CASE h # k
      BY <1>1, <1>4, <2>2
    <2> QED
      BY <2>1, <2>2
  <1>8. ASSUME NEW q \in Picks, PickStored(q) PROVE PickStored(q)'
    <2>1. arrays \in Arrays /\ Len(arrays) \in Nat /\ Len(arrays') \in Nat /\ Len(arrays') >= Len(arrays)
      BY <1>1, <1>2, <1>4 DEF Stored
    <2>2. PICK m : m = Made
      OBVIOUS
    <2>3. \A h \in 1 .. Len(arrays) :
            /\ Len(arrays'[h]) = Len(arrays[h])
            /\ \A j \in 1 .. Len(arrays[h]) : arrays[h][j] \in Made => arrays'[h][j] \in m
      BY <1>7, <2>2
    <2>4. Made \subseteq m /\ m = Made'
      BY <1>2, <2>2
    <2> QED
      BY <1>8, <2>1, <2>3, <2>4, PicksKept
  <1>9. ASSUME NEW t \in Sessions PROVE PickStored(pick[t])'
    <2>1. PICK q : q = pick'[t]
      OBVIOUS
    <2>2. q \in Picks /\ PickStored(q)
      <3>1. pick[t] \in Picks /\ PickStored(pick[t])
        BY <1>2 DEF TableInv, Stored
      <3>2. NoPick \in Picks /\ PickStored(NoPick)
        <4>1. NoPick.array = 0 /\ NoPick.list = <<>> /\ <<>> \in Seq(Made)
          BY DEF NoPick
        <4>2. NoPick \in Picks
          BY DEF NoPick, Picks
        <4> QED
          BY <4>1, <4>2 DEF PickStored
      <3>3. q = pick[t] \/ q = NoPick
        BY <1>2, <2>1 DEF Stored
      <3> QED
        BY <3>1, <3>2, <3>3
    <2>3. PickStored(q)'
      BY <1>8, <2>2
    <2> QED
      BY <2>1, <2>3
  <1> QED
    BY <1>6, <1>9 DEF TableInv

\* A step that leaves the memory of the table alone, and at most lets go of
\* slices.
LEMMA FinishStored ==
    ASSUME TableInv,
           arrays' = arrays, len' = len, inserted' = inserted,
           fault' \in {"none", "panic", "rowrace"}, content' \in [Rows -> Contents],
           op' \in [Sessions -> Operations \cup {Idle}], pick' \in [Sessions -> Picks],
           \A t \in Sessions : pick'[t] \in {pick[t], NoPick}
    PROVE  TableInv'
  <1>1. Stored'
    BY DEF TableInv, Stored, Cells, Made
  <1>2. ASSUME NEW t \in Sessions PROVE PickStored(pick[t])'
    <2>1. PICK q : q = pick'[t] /\ (q = pick[t] \/ q = NoPick)
      OBVIOUS
    <2>2. PickStored(NoPick)
      BY DEF PickStored, NoPick
    <2>3. PickStored(q)
      BY <2>1, <2>2 DEF TableInv
    <2>4. PickStored(q)'
      BY <2>3 DEF PickStored, Made
    <2> QED
      BY <2>1, <2>4
  <1> QED
    BY <1>1, <1>2 DEF TableInv

LEMMA FinishTypes ==
    ASSUME TableInv, NEW s \in Sessions, Finish(s)
    PROVE  /\ op' \in [Sessions -> Operations \cup {Idle}] /\ pick' \in [Sessions -> Picks]
           /\ \A t \in Sessions : pick'[t] \in {pick[t], NoPick}
  <1>1. NoPick \in Picks
    BY DEF NoPick, Picks
  <1> QED
    BY <1>1 DEF Finish, TableInv, Stored

\* An UPDATE sets a value of the column's type, and no key.
LEMMA ChangedType ==
    ASSUME NEW s, op[s].set \in [Contents -> Vals], NEW row \in Contents
    PROVE  Changed(s, row) \in Contents /\ Changed(s, row).key = row.key
  <1>1. op[s].set[row] \in Vals
    OBVIOUS
  <1>2. PICK v \in Vals : v = op[s].set[row]
    BY <1>1
  <1> QED
    BY <1>2 DEF Changed, Contents

LEMMA UpdatedType ==
    ASSUME TableInv, NEW s \in Sessions, op[s].set \in [Contents -> Vals], NEW r \in Rows
    PROVE  Updated(s, r) \in Contents /\ Updated(s, r).key = content[r].key
  <1> DEFINE D == {x \in Contents : x.key = content[r].key}
  <1>1. PICK n \in Nat : n = Len(Picked(s))
    BY PickedType
  <1>2. content[r] \in D
    BY DEF TableInv, Stored
  <1>3. \A e \in D : \A i \in 1 .. n : TurnOf(s, r, e, i) \in D
    BY ChangedType DEF TurnOf
  <1> HIDE DEF D
  <1>4. PICK v \in [0 .. n -> D] : Updated(s, r) = v[n]
    <2>1. PICK v \in [0 .. Len(Picked(s)) -> D] : Makes(s, r, v)
      BY <1>1, <1>2, <1>3, UpdateLoop
    <2> QED
      BY <1>1, <2>1 DEF Makes
  <1>5. Updated(s, r) \in D
    BY <1>4
  <1> QED
    BY <1>5 DEF D

LEMMA UpdateContent ==
    ASSUME TableInv, NEW s \in Sessions, Update(s)
    PROVE  /\ op[s] \in Operations /\ op[s].kind = "update"
           /\ op[s].set \in [Contents -> Vals]
           /\ content' \in [Rows -> Contents]
           /\ \A r \in Rows : content'[r].key = content[r].key
  <1>1. op[s] \in Operations /\ op[s].kind = "update"
    BY DEF Update, Running, TableInv, Stored, Idle
  <1>2. op[s].set \in [Contents -> Vals]
    BY <1>1, OperationsAssumption DEF Operation
  <1>3. \A r \in Rows : Updated(s, r) \in Contents /\ Updated(s, r).key = content[r].key
    BY <1>2, UpdatedType
  <1>4. content' = [r \in Rows |-> Updated(s, r)]
    BY DEF Update
  <1> QED
    BY <1>1, <1>2, <1>3, <1>4

LEMMA InvStep == TableInv /\ [Next]_vars => TableInv'
  <1> SUFFICES ASSUME TableInv, [Next]_vars PROVE TableInv'
    OBVIOUS
  <1>1. ASSUME NEW s \in Sessions, Statement(s) PROVE TableInv'
    <2>1. ASSUME NEW x \in Contents, Insert(s, <<x>>) PROVE TableInv'
      <3>1. PICK rows \in Seq(Contents) : rows = <<x>>
        <4>1. <<x>> \in Seq(Contents)
          OBVIOUS
        <4> QED
          BY <4>1
      <3> QED
        BY <2>1, <3>1, InsertStored
    <2>2. ASSUME NEW x \in Contents, NEW y \in Contents, Insert(s, <<x, y>>) PROVE TableInv'
      <3>1. PICK rows \in Seq(Contents) : rows = <<x, y>>
        <4>1. <<x, y>> \in Seq(Contents)
          OBVIOUS
        <4> QED
          BY <4>1
      <3> QED
        BY <2>2, <3>1, InsertStored
    <2>3. ASSUME NEW o \in Operations, Select(s, o) PROVE TableInv'
      BY <2>3, SelectStored
    <2>4. CASE ReturnRows(s)
      BY <2>4, FinishTypes, FinishStored DEF ReturnRows, TableInv, Stored
    <2>5. CASE Update(s)
      BY <2>5, FinishTypes, UpdateContent, FinishStored DEF Update, TableInv, Stored
    <2>6. CASE Delete(s)
      BY <2>6, DeleteStored
    <2>7. CASE RowRace(s)
      BY <2>7, FinishStored DEF RowRace, TableInv, Stored
    <2> QED
      BY <1>1, <2>1, <2>2, <2>3, <2>4, <2>5, <2>6, <2>7 DEF Statement
  <1>2. CASE UNCHANGED vars
    BY <1>2, FinishStored DEF vars, TableInv, Stored
  <1> QED
    BY <1>1, <1>2 DEF Next

\* The table's slice and the slices that statements hold are made of rows that
\* were inserted, however the memory under them is shared, moved and written
\* over (Table.Select, Table.Delete and append).
THEOREM TableTyped == Spec => []TypeOK
  <1>1. Spec => []TableInv
    BY InitStored, InvStep, PTL DEF Spec
  <1> QED
    BY <1>1, InvTypes, PTL

-----------------------------------------------------------------------------
(***************************************************************************)
(* Where clients keep keys unique, at most one row of the table equals the *)
(* one that Delete looks for, and the loop takes out that one.             *)
(***************************************************************************)
Held(d) == {d.cells[j] : j \in 1 .. d.len}

\* The rows of the table.
Present == {Cells[j] : j \in 1 .. len}

\* The rows of the table while Delete runs: in the order they were made.
Sorted ==
    {d \in Shrunk :
        /\ d.panic = FALSE
        /\ \A i, j \in 1 .. d.len : i < j => d.cells[i] < d.cells[j]
        /\ Held(d) \subseteq Present}

Ordered == \A i, j \in 1 .. len : i < j => Cells[i] < Cells[j]
KeysUnique == \A q, r \in Present : content[q].key = content[r].key => q = r

SortedInv == Ordered /\ KeysUnique /\ fault # "panic"

LEMMA StartSorted ==
    ASSUME Stored, Ordered
    PROVE  Start \in Sorted /\ Held(Start) = Present
  <1>1. Start \in Shrunk /\ Start.cells = Cells /\ Start.len = len /\ Start.panic = FALSE
    BY StartShrunk DEF Start
  <1>2. Held(Start) = Present
    BY <1>1 DEF Held, Present
  <1> QED
    BY <1>1, <1>2 DEF Sorted, Ordered

\* The inner loop finds no row like row, or the one there is.
LEMMA DeleteEqualFinds ==
    ASSUME Stored, KeysUnique, NEW d \in Sorted, NEW row
    PROVE  \/ /\ \A j \in 1 .. d.len : ~IsEqual(row, d.cells[j])
              /\ DeleteEqual(d, row) = d
           \/ \E p \in 1 .. d.len : /\ IsEqual(row, d.cells[p])
                                    /\ DeleteEqual(d, row) = Without(d, p)
  <1>1. PICK n \in Nat : /\ n = d.len /\ n <= len /\ d \in Shrunk /\ d.panic = FALSE
                         /\ n <= Len(Cells)
    BY CellsType DEF Sorted, Shrunk, Slices
  <1>2. PICK v \in [0 .. n -> Shrunk] :
          /\ v[0] = d
          /\ \A i \in 1 .. n : v[i] = Visit(row, v[i - 1], i)
          /\ DeleteEqual(d, row) = v[n]
    <2>1. \A e \in Shrunk : \A i \in 1 .. d.len : Visit(row, e, i) \in Shrunk
      BY <1>1, VisitType
    <2> QED
      BY <1>1, <2>1, InnerLoop
  <1>3. \A i \in 1 .. n : ~IsEqual(row, d.cells[i]) => Visit(row, d, i) = d
    BY DEF Visit
  <1>4. CASE \A j \in 1 .. n : ~IsEqual(row, d.cells[j])
    <2>1. \A i \in 0 .. n : i \in {k \in 0 .. n : v[k] = d}
      <3> DEFINE T == {k \in 0 .. n : v[k] = d}
      <3>1. 0 \in T
        BY <1>2
      <3>2. ASSUME NEW i \in 1 .. n, i - 1 \in T PROVE i \in T
        <4>1. PICK e : e = v[i - 1] /\ e = d
          BY <3>2
        <4>2. v[i] = Visit(row, e, i)
          BY <1>2, <4>1
        <4> QED
          BY <1>3, <1>4, <4>1, <4>2
      <3>3. \A i \in 0 .. n : i \in T
        <4> HIDE DEF T
        <4> QED
          BY <3>1, <3>2, Turns
      <3> QED
        BY <3>3
    <2>2. v[n] = d
      BY <2>1
    <2> QED
      BY <1>1, <1>2, <1>4, <2>2
  <1>5. ASSUME NEW p \in 1 .. n, IsEqual(row, d.cells[p])
        PROVE  DeleteEqual(d, row) = Without(d, p)
    <2>1. PICK w \in Shrunk :
            /\ w = Without(d, p) /\ w.panic = FALSE
            /\ \A j \in 1 .. Len(Cells) :
                 w.cells[j] = IF j \in p .. n - 1 THEN d.cells[j + 1] ELSE d.cells[j]
      BY <1>1, WithoutMoves
    <2>2. ASSUME NEW j \in 1 .. n, j # p PROVE ~IsEqual(row, d.cells[j])
      <3>1. d.cells[j] \in Present /\ d.cells[p] \in Present
        BY <1>1 DEF Held, Sorted
      <3>2. d.cells[j] # d.cells[p]
        <4>1. d.cells[j] \in Nat /\ d.cells[p] \in Nat
          BY <1>1, CellsType DEF Shrunk
        <4>2. j < p \/ p < j
          BY <2>2
        <4> QED
          BY <1>1, <4>1, <4>2 DEF Sorted
      <3> QED
        BY <1>5, <3>1, <3>2 DEF KeysUnique, IsEqual
    <2>3. \A i \in 1 .. n : i < p => Visit(row, d, i) = d
      BY <1>3, <2>2
    <2>4. Visit(row, d, p) = w
      BY <1>1, <1>5, <2>1 DEF Visit
    <2>5. ASSUME NEW i \in 1 .. n, i > p PROVE Visit(row, w, i) = w
      <3>1. PICK j \in 1 .. n : j # p /\ w.cells[i] = d.cells[j]
        <4>1. CASE i = n
          BY <1>1, <2>1, <2>5, <4>1
        <4>2. CASE i # n
          <5>1. i \in p .. n - 1 /\ i + 1 \in 1 .. n /\ i + 1 # p /\ i \in 1 .. Len(Cells)
            BY <1>1, <2>5, <4>2
          <5> QED
            BY <2>1, <5>1
        <4> QED
          BY <4>1, <4>2
      <3>2. ~IsEqual(row, w.cells[i])
        BY <2>2, <3>1
      <3> QED
        BY <3>2 DEF Visit
    <2>6. \A i \in 0 .. n : i \in {k \in 0 .. n : v[k] = IF k < p THEN d ELSE w}
      <3> DEFINE T == {k \in 0 .. n : v[k] = IF k < p THEN d ELSE w}
      <3>1. 0 \in T
        BY <1>2
      <3>2. ASSUME NEW i \in 1 .. n, i - 1 \in T PROVE i \in T
        <4>1. PICK e : e = v[i - 1] /\ e = IF i - 1 < p THEN d ELSE w
          BY <3>2
        <4>2. v[i] = Visit(row, e, i)
          BY <1>2, <4>1
        <4>3. CASE i < p
          BY <2>3, <4>1, <4>2, <4>3
        <4>4. CASE i = p
          BY <2>4, <4>1, <4>2, <4>4
        <4>5. CASE i > p
          BY <2>5, <4>1, <4>2, <4>5
        <4> QED
          BY <4>3, <4>4, <4>5
      <3>3. \A i \in 0 .. n : i \in T
        <4> HIDE DEF T
        <4> QED
          BY <3>1, <3>2, Turns
      <3> QED
        BY <3>3
    <2>7. v[n] = w
      <3>1. n \in 0 .. n /\ ~(n < p)
        OBVIOUS
      <3> QED
        BY <2>6, <3>1
    <2> QED
      BY <1>2, <2>1, <2>7
  <1> QED
    BY <1>1, <1>4, <1>5

\* A turn of the outer loop takes out the row that equals row, and keeps the
\* others in their order.
LEMMA DeleteEqualKeeps ==
    ASSUME Stored, KeysUnique, NEW d \in Sorted, NEW row, NEW e, e = DeleteEqual(d, row)
    PROVE  e \in Sorted /\ Held(e) = {r \in Held(d) : ~IsEqual(row, r)}
  <1>1. CASE (\A j \in 1 .. d.len : ~IsEqual(row, d.cells[j])) /\ e = d
    BY <1>1 DEF Held
  <1>2. ASSUME NEW p \in 1 .. d.len, IsEqual(row, d.cells[p]), e = Without(d, p)
        PROVE  e \in Sorted /\ Held(e) = {r \in Held(d) : ~IsEqual(row, r)}
    <2>1. PICK n \in Nat : /\ n = d.len /\ n <= len /\ d \in Shrunk /\ d.panic = FALSE
                           /\ n <= Len(Cells)
      BY CellsType DEF Sorted, Shrunk, Slices
    <2>2. /\ e \in Shrunk /\ e.len = n - 1 /\ e.panic = FALSE
          /\ \A j \in 1 .. Len(Cells) :
               e.cells[j] = IF j \in p .. n - 1 THEN d.cells[j + 1] ELSE d.cells[j]
      BY <1>2, <2>1, WithoutMoves
    <2>3. \A j \in 1 .. n - 1 : e.cells[j] = IF j < p THEN d.cells[j] ELSE d.cells[j + 1]
      BY <2>1, <2>2
    <2>4. /\ \A j \in 1 .. n : d.cells[j] \in Nat
          /\ \A i, j \in 1 .. n : i < j => d.cells[i] < d.cells[j]
      BY <2>1, CellsType DEF Sorted, Shrunk
    <2>5. \A i, j \in 1 .. n - 1 : i < j => e.cells[i] < e.cells[j]
      <3> SUFFICES ASSUME NEW i \in 1 .. n - 1, NEW j \in 1 .. n - 1, i < j
                   PROVE  e.cells[i] < e.cells[j]
        OBVIOUS
      <3>1. PICK g \in 1 .. n, h \in 1 .. n :
              /\ g = (IF i < p THEN i ELSE i + 1) /\ h = (IF j < p THEN j ELSE j + 1)
              /\ g < h
        <4>1. i \in 1 .. n /\ i + 1 \in 1 .. n /\ j \in 1 .. n /\ j + 1 \in 1 .. n
          BY <2>1
        <4>2. CASE i < p /\ j < p
          BY <4>1, <4>2
        <4>3. CASE i < p /\ ~(j < p)
          BY <4>1, <4>3
        <4>4. CASE ~(i < p)
          <5>1. ~(j < p) /\ i + 1 < j + 1
            BY <2>1, <4>4
          <5> QED
            BY <4>1, <4>4, <5>1
        <4> QED
          BY <4>2, <4>3, <4>4
      <3>2. e.cells[i] = d.cells[g] /\ e.cells[j] = d.cells[h]
        BY <2>3, <3>1
      <3> QED
        BY <2>4, <3>1, <3>2
    <2>6. ASSUME NEW j \in 1 .. n, j # p PROVE ~IsEqual(row, d.cells[j])
      <3>1. d.cells[j] \in Present /\ d.cells[p] \in Present
        BY <2>1 DEF Held, Sorted
      <3>2. d.cells[j] # d.cells[p]
        <4>1. j < p \/ p < j
          BY <2>1, <2>6
        <4> QED
          BY <2>1, <2>4, <4>1
      <3> QED
        BY <1>2, <3>1, <3>2 DEF KeysUnique, IsEqual
    <2>7. ASSUME NEW j \in 1 .. n - 1 PROVE e.cells[j] \in {r \in Held(d) : ~IsEqual(row, r)}
      <3>1. PICK i \in 1 .. n : i # p /\ e.cells[j] = d.cells[i]
        <4>1. CASE j < p
          BY <2>1, <2>3, <4>1
        <4>2. CASE ~(j < p)
          <5>1. j + 1 \in 1 .. n /\ j + 1 # p
            BY <2>1, <4>2
          <5> QED
            BY <2>3, <4>2, <5>1
        <4> QED
          BY <4>1, <4>2
      <3> QED
        BY <2>1, <2>6, <3>1 DEF Held
    <2>8. ASSUME NEW i \in 1 .. n, ~IsEqual(row, d.cells[i])
          PROVE  \E j \in 1 .. n - 1 : e.cells[j] = d.cells[i]
      <3>1. i # p
        BY <1>2, <2>8
      <3>2. CASE i < p
        <4>1. i \in 1 .. n - 1
          BY <2>1, <3>2
        <4> QED
          BY <2>3, <3>2, <4>1
      <3>3. CASE i > p
        <4>1. i - 1 \in 1 .. n - 1 /\ ~(i - 1 < p) /\ (i - 1) + 1 = i
          BY <2>1, <3>3
        <4> QED
          BY <2>3, <4>1
      <3> QED
        BY <2>1, <3>1, <3>2, <3>3
    <2>9. Held(e) = {r \in Held(d) : ~IsEqual(row, r)}
      <3>1. Held(e) = {e.cells[j] : j \in 1 .. n - 1} /\ Held(d) = {d.cells[j] : j \in 1 .. n}
        BY <2>1, <2>2 DEF Held
      <3>2. {e.cells[j] : j \in 1 .. n - 1} \subseteq {r \in Held(d) : ~IsEqual(row, r)}
        BY <2>7
      <3>3. {r \in {d.cells[j] : j \in 1 .. n} : ~IsEqual(row, r)}
              \subseteq {e.cells[j] : j \in 1 .. n - 1}
        BY <2>8
      <3> QED
        BY <3>1, <3>2, <3>3
    <2>10. Held(d) \subseteq Present
      BY DEF Sorted
    <2>11. Held(e) \subseteq Present
      BY <2>9, <2>10
    <2>12. \A i, j \in 1 .. e.len : i < j => e.cells[i] < e.cells[j]
      BY <2>2, <2>5
    <2> QED
      BY <2>2, <2>9, <2>11, <2>12 DEF Sorted
  <1> QED
    BY <1>1, <1>2, DeleteEqualFinds

\* What the outer loop leaves of the table.  A DELETE that picked the rows
\* by a WHERE clause leaves those that equal none of them.
LEMMA DeletePickedKeeps ==
    ASSUME TableInv, Ordered, KeysUnique, NEW s \in Sessions
    PROVE  /\ DeletePicked(s) \in Sorted
           /\ pick[s].array = 0 =>
                Held(DeletePicked(s)) =
                  {r \in Present : \A j \in 1 .. Len(Picked(s)) : ~IsEqual(Picked(s)[j], r)}
  <1>1. PICK n \in Nat : n = Len(Picked(s))
    BY PickedType
  <1>2. PICK d : d = [cells |-> Cells, len |-> len, panic |-> FALSE] /\ d \in Sorted
                   /\ Held(d) = Present
    BY StartSorted DEF Start, TableInv
  <1>3. \A e \in Sorted : \A i \in 1 .. n : DeleteEqual(e, PickedRow(s, e, i)) \in Sorted
    BY DeleteEqualKeeps DEF TableInv
  <1>4. PICK v \in [0 .. n -> Sorted] :
          /\ v[0] = d
          /\ \A i \in 1 .. n : v[i] = DeleteEqual(v[i - 1], PickedRow(s, v[i - 1], i))
          /\ DeletePicked(s) = v[n]
    BY <1>1, <1>2, <1>3, OuterLoop
  <1>5. ASSUME pick[s].array = 0
        PROVE  Held(v[n]) = {r \in Present : \A j \in 1 .. n : ~IsEqual(Picked(s)[j], r)}
    <2> DEFINE Left(i) == {r \in Present : \A j \in 1 .. i : ~IsEqual(Picked(s)[j], r)}
               T == {k \in 0 .. n : Held(v[k]) = Left(k)}
    <2>1. 0 \in T
      <3>1. Left(0) = Present
        OBVIOUS
      <3>2. Held(v[0]) = Left(0) /\ 0 \in 0 .. n
        <4> HIDE DEF Left
        <4> QED
          BY <1>2, <1>4, <3>1
      <3> QED
        BY <3>2
    <2>2. ASSUME NEW i \in 1 .. n, i - 1 \in T PROVE i \in T
      <3>1. PICK h \in 0 .. n : h = i - 1
        OBVIOUS
      <3>2. PICK e \in Sorted : e = v[h] /\ Held(e) = Left(h)
        BY <2>2, <3>1
      <3>3. PickedRow(s, e, i) = Picked(s)[i]
        BY <1>5, CellsType DEF PickedRow, TableInv
      <3>4. PICK row : row = Picked(s)[i]
        OBVIOUS
      <3>5. v[i] = DeleteEqual(e, row)
        <4>1. v[i] = DeleteEqual(v[i - 1], PickedRow(s, v[i - 1], i))
          BY <1>4
        <4> QED
          BY <3>1, <3>2, <3>3, <3>4, <4>1
      <3>6. Held(v[i]) = {r \in Held(e) : ~IsEqual(row, r)}
        BY <3>5, DeleteEqualKeeps DEF TableInv
      <3>7. Left(i) = {r \in Left(h) : ~IsEqual(row, r)}
        BY <3>1, <3>4
      <3> QED
        BY <3>2, <3>6, <3>7
    <2>3. \A i \in 0 .. n : i \in T
      <3> HIDE DEF T
      <3> QED
        BY <2>1, <2>2, Turns
    <2> QED
      BY <2>3
  <1> QED
    BY <1>1, <1>4, <1>5

-----------------------------------------------------------------------------
(***************************************************************************)
(* The rows of the table stay in order and their keys unique.              *)
(***************************************************************************)
LEMMA InsertSorted ==
    ASSUME Distinct, TableInv, SortedInv, NEW s \in Sessions, NEW rows \in Seq(Contents),
           Insert(s, rows)
    PROVE  /\ SortedInv'
           /\ \E n \in Nat : /\ inserted' = inserted + n /\ len' = len + n
                             /\ inserted + n <= MaxRows
                             /\ \A j \in 1 .. len : Cells'[j] = Cells[j]
                             /\ \A j \in 1 .. n : Cells'[len + j] = inserted + j
                             /\ \A r \in Rows : r \notin inserted + 1 .. inserted + n =>
                                                  content'[r] = content[r]
  <1>1. PICK n \in Nat : n = Len(rows) /\ inserted + n <= MaxRows /\ inserted' = inserted + n
    BY DEF Insert
  <1>2. PICK f : f = Appended(n) /\ Filled(n, f) /\ arrays' = f.arrays /\ len' = f.len
    <2>1. arrays \in Arrays /\ arrays # <<>> /\ len \in 0 .. Len(Cells) /\ inserted \in Nat
      BY CellsType DEF TableInv, Stored
    <2>2. Filled(n, Appended(n))
      BY <1>1, <2>1, AppendedFills
    <2> QED
      BY <1>1, <2>2 DEF Insert
  <1>3. /\ Stored /\ inserted \in Nat /\ len \in Nat /\ len' = len + n
        /\ \A j \in 1 .. len : Cells'[j] = Cells[j]
        /\ \A j \in 1 .. n : Cells'[len + j] = inserted + j
    BY <1>2, CellsType DEF TableInv, Filled, Cells, Last
  <1>4. PICK c : c = Cells'
    OBVIOUS
  <1>5. /\ \A j \in 1 .. len : c[j] = Cells[j] /\ c[j] \in Made /\ c[j] \in 1 .. inserted
        /\ \A j \in 1 .. n : c[len + j] = inserted + j
    BY <1>3, <1>4 DEF Stored, Made
  <1>6. \A j \in 1 .. len + n : j \in 1 .. len \/ (j - len \in 1 .. n /\ j = len + (j - len))
    BY <1>3
  <1>7. \A j \in 1 .. len + n : ~(j <= len) => c[j] = inserted + (j - len)
    <2> SUFFICES ASSUME NEW j \in 1 .. len + n, ~(j <= len) PROVE c[j] = inserted + (j - len)
      OBVIOUS
    <2>1. PICK i \in 1 .. n : i = j - len /\ j = len + i
      BY <1>3, <1>6
    <2> QED
      BY <1>5, <2>1
  <1>8. Ordered'
    <2> SUFFICES ASSUME NEW i \in 1 .. len + n, NEW j \in 1 .. len + n, i < j
                 PROVE  c[i] < c[j]
      BY <1>3, <1>4 DEF Ordered
    <2>1. CASE j <= len
      <3>1. i \in 1 .. len /\ j \in 1 .. len
        BY <1>3, <2>1
      <3> QED
        BY <1>5, <3>1 DEF SortedInv, Ordered
    <2>2. CASE ~(j <= len) /\ i <= len
      <3>1. i \in 1 .. len /\ c[j] = inserted + (j - len) /\ j - len >= 1
        BY <1>3, <1>7, <2>2
      <3>2. c[i] \in 1 .. inserted
        BY <1>5, <3>1
      <3> QED
        BY <1>3, <3>1, <3>2
    <2>3. CASE ~(j <= len) /\ ~(i <= len)
      BY <1>3, <1>7, <2>3
    <2> QED
      BY <2>1, <2>2, <2>3
  <1>9. /\ \A r \in Rows : r \notin inserted + 1 .. inserted + n => content'[r] = content[r]
        /\ \A i \in 1 .. n : content'[inserted + i] = rows[i]
    <2>1. content' = [r \in Rows |-> IF r \in inserted + 1 .. inserted + n
                                     THEN rows[r - inserted] ELSE content[r]]
      BY <1>1 DEF Insert
    <2>2. \A i \in 1 .. n : inserted + i \in Rows /\ inserted + i \in inserted + 1 .. inserted + n
                              /\ (inserted + i) - inserted = i
      BY <1>1, <1>3, BoundAssumption DEF Rows
    <2> QED
      BY <2>1, <2>2
  <1>10. KeysUnique'
    <2>1. Present' = Present \cup {inserted + i : i \in 1 .. n}
      <3>1. Present' = {c[j] : j \in 1 .. len + n}
        BY <1>3, <1>4 DEF Present
      <3>2. \A j \in 1 .. len + n : c[j] \in Present \cup {inserted + i : i \in 1 .. n}
        <4> SUFFICES ASSUME NEW j \in 1 .. len + n
                     PROVE  c[j] \in Present \cup {inserted + i : i \in 1 .. n}
          OBVIOUS
        <4>1. CASE j \in 1 .. len
          BY <1>5, <4>1 DEF Present
        <4>2. CASE j \notin 1 .. len
          <5>1. PICK i \in 1 .. n : j = len + i
            BY <1>6, <4>2
          <5> QED
            BY <1>5, <5>1
        <4> QED
          BY <4>1, <4>2
      <3>3. \A j \in 1 .. len : Cells[j] \in {c[i] : i \in 1 .. len + n}
        <4>1. 1 .. len \subseteq 1 .. len + n
          BY <1>3
        <4> QED
          BY <1>5, <4>1
      <3>4. \A i \in 1 .. n : inserted + i \in {c[j] : j \in 1 .. len + n}
        <4>1. \A i \in 1 .. n : len + i \in 1 .. len + n
          BY <1>3
        <4> QED
          BY <1>5, <4>1
      <3> QED
        BY <3>1, <3>2, <3>3, <3>4 DEF Present
    <2>2. \A r \in Present : r \in Made /\ content'[r] = content[r]
      <3>1. \A r \in Present : r \in Made
        BY <1>3 DEF Present, Stored
      <3>2. \A r \in Made : r \in Rows /\ r \notin inserted + 1 .. inserted + n
        BY <1>3, CellsType DEF Made
      <3> QED
        BY <1>9, <3>1, <3>2
    <2>3. ToSet(Visible) = Present
      <3>1. PICK u \in Seq(Made) : u = Visible /\ Len(u) = len /\ \A j \in 1 .. len : u[j] = Cells[j]
        BY <1>3, CellsType
      <3>2. ToSet(u) = {u[j] : j \in 1 .. len}
        BY <1>3, <3>1 DEF ToSet
      <3> QED
        BY <3>1, <3>2 DEF Present
    <2>4. /\ \A i, j \in 1 .. n : rows[i].key = rows[j].key => i = j
          /\ \A i \in 1 .. n : \A r \in Present : content[r].key # rows[i].key
      <3>1. UniqueKeys(rows) /\ DOMAIN rows = 1 .. n
        BY <1>1 DEF Insert
      <3> QED
        BY <2>3, <3>1 DEF UniqueKeys
    <2>5. ASSUME NEW q \in Present', NEW r \in Present', content'[q].key = content'[r].key
          PROVE  q = r
      <3>1. CASE q \in Present /\ r \in Present
        BY <2>2, <2>5, <3>1 DEF SortedInv, KeysUnique
      <3>2. CASE q \in Present /\ r \notin Present
        <4>1. PICK i \in 1 .. n : r = inserted + i
          BY <2>1, <3>2
        <4> QED
          BY <1>9, <2>2, <2>4, <2>5, <3>2, <4>1
      <3>3. CASE q \notin Present /\ r \in Present
        <4>1. PICK i \in 1 .. n : q = inserted + i
          BY <2>1, <3>3
        <4> QED
          BY <1>9, <2>2, <2>4, <2>5, <3>3, <4>1
      <3>4. CASE q \notin Present /\ r \notin Present
        <4>1. PICK i \in 1 .. n, j \in 1 .. n : q = inserted + i /\ r = inserted + j
          BY <2>1, <3>4
        <4> QED
          BY <1>9, <2>4, <2>5, <4>1
      <3> QED
        BY <3>1, <3>2, <3>3, <3>4
    <2> QED
      BY <2>5 DEF KeysUnique
  <1>11. fault' = fault
    BY DEF Insert
  <1> QED
    BY <1>1, <1>3, <1>8, <1>9, <1>10, <1>11 DEF SortedInv

LEMMA DeleteSorted ==
    ASSUME TableInv, SortedInv, NEW s \in Sessions, Delete(s)
    PROVE  /\ SortedInv'
           /\ Present' = Held(DeletePicked(s))
  <1>1. PICK d \in Sorted, k \in Nat :
          /\ d = DeletePicked(s) /\ k = Len(arrays) /\ k >= 1 /\ d.panic = FALSE
          /\ arrays' = [arrays EXCEPT ![k] = d.cells] /\ len' = d.len /\ fault' = fault
          /\ content' = content
    <2>1. DeletePicked(s) \in Sorted
      BY DeletePickedKeeps DEF SortedInv
    <2>2. Len(arrays) \in Nat /\ Len(arrays) >= 1
      BY CellsType DEF TableInv
    <2>3. DeletePicked(s).panic = FALSE
      BY <2>1 DEF Sorted
    <2> QED
      BY <2>1, <2>2, <2>3 DEF Delete
  <1>2. Cells' = d.cells
    <2>1. arrays \in Arrays
      BY DEF TableInv, Stored
    <2>2. Len(arrays') = k /\ arrays'[k] = d.cells
      BY <1>1, <2>1 DEF Arrays
    <2> QED
      BY <2>2 DEF Cells
  <1>3. Present' = Held(d) /\ Held(d) \subseteq Present
    BY <1>1, <1>2 DEF Present, Held, Sorted
  <1>4. Ordered'
    BY <1>1, <1>2 DEF Ordered, Sorted
  <1>5. KeysUnique'
    BY <1>1, <1>3 DEF KeysUnique, SortedInv
  <1> QED
    BY <1>1, <1>3, <1>4, <1>5 DEF SortedInv

\* An UPDATE sets no key.
LEMMA UpdateSorted ==
    ASSUME TableInv, SortedInv, NEW s \in Sessions, Update(s)
    PROVE  SortedInv'
  <1>1. \A r \in Rows : content'[r].key = content[r].key
    BY UpdateContent
  <1>2. arrays' = arrays /\ len' = len /\ fault' = fault
    BY DEF Update
  <1>3. Present \subseteq Rows /\ Present' = Present
    BY <1>2, CellsType DEF TableInv, Stored, Present, Cells
  <1>4. KeysUnique'
    BY <1>1, <1>3 DEF KeysUnique, SortedInv
  <1>5. Ordered'
    BY <1>2 DEF Ordered, SortedInv, Cells
  <1> QED
    BY <1>2, <1>4, <1>5 DEF SortedInv

LEMMA SortedStep ==
    ASSUME Distinct, TableInv, SortedInv, [Next]_vars
    PROVE  SortedInv'
  <1>1. ASSUME UNCHANGED <<arrays, len, content>>, fault' \in {fault, "rowrace"}
        PROVE  SortedInv'
    BY <1>1 DEF SortedInv, Ordered, KeysUnique, Present, Cells
  <1>2. ASSUME NEW s \in Sessions, Statement(s) PROVE SortedInv'
    <2>1. ASSUME NEW x \in Contents, Insert(s, <<x>>) PROVE SortedInv'
      <3>1. PICK rows \in Seq(Contents) : rows = <<x>>
        <4>1. <<x>> \in Seq(Contents)
          OBVIOUS
        <4> QED
          BY <4>1
      <3> QED
        BY <2>1, <3>1, InsertSorted
    <2>2. ASSUME NEW x \in Contents, NEW y \in Contents, Insert(s, <<x, y>>) PROVE SortedInv'
      <3>1. PICK rows \in Seq(Contents) : rows = <<x, y>>
        <4>1. <<x, y>> \in Seq(Contents)
          OBVIOUS
        <4> QED
          BY <4>1
      <3> QED
        BY <2>2, <3>1, InsertSorted
    <2>3. CASE \E o \in Operations : Select(s, o)
      BY <1>1, <2>3 DEF Select
    <2>4. CASE ReturnRows(s)
      BY <1>1, <2>4 DEF ReturnRows
    <2>5. CASE Update(s)
      BY <2>5, UpdateSorted
    <2>6. CASE Delete(s)
      BY <2>6, DeleteSorted
    <2>7. CASE RowRace(s)
      BY <1>1, <2>7 DEF RowRace
    <2> QED
      BY <1>2, <2>1, <2>2, <2>3, <2>4, <2>5, <2>6, <2>7 DEF Statement
  <1>3. CASE UNCHANGED vars
    BY <1>1, <1>3 DEF vars
  <1> QED
    BY <1>2, <1>3 DEF Next

LEMMA InitSorted == Init => SortedInv
  BY DEF Init, SortedInv, Ordered, KeysUnique, Present

\* Where clients keep the keys of a table unique, a DELETE never slices past
\* the end of the slice that its inner loop shortens, even when the rows it
\* picked were moved, changed or deleted before it took the mutex again
\* (Table.Delete of store/table.go).
THEOREM DeletesDoNotPanic == ASSUME Distinct PROVE Spec => []DeleteNeverPanics
  <1>1. Init => TableInv /\ SortedInv
    BY InitStored, InitSorted
  <1>2. TableInv /\ SortedInv /\ [Next]_vars => (TableInv /\ SortedInv)'
    BY InvStep, SortedStep
  <1>3. TableInv /\ SortedInv => DeleteNeverPanics
    BY DEF SortedInv, DeleteNeverPanics
  <1> QED
    BY <1>1, <1>2, <1>3, PTL DEF Spec

-----------------------------------------------------------------------------
(***************************************************************************)
(* The slice is an implementation of the list.                             *)
(***************************************************************************)

\* No UPDATE or DELETE does without a WHERE clause.
WherePresent == \A o \in Operations : o.kind \in {"update", "delete"} => o.where.kind # "none"

Changes(s) == op[s].kind \in {"update", "delete"}

Once(l) == \A i, j \in DOMAIN l : l[i] = l[j] => i = j

\* So what it picked is a list of its own, which no other statement reaches, and
\* has no row twice.
OwnList == \A s \in Sessions : Changes(s) => pick[s].array = 0 /\ Once(pick[s].list)

RefineInv == TableInv /\ SortedInv /\ OwnList

LEMMA VisibleIsPresent == Stored => ToSet(Visible) = Present
  <1> SUFFICES ASSUME Stored PROVE ToSet(Visible) = Present
    OBVIOUS
  <1>1. PICK u \in Seq(Made) : u = Visible /\ Len(u) = len /\ \A j \in 1 .. len : u[j] = Cells[j]
    BY CellsType
  <1>2. ToSet(u) = {u[j] : j \in 1 .. len}
    BY <1>1, CellsType DEF ToSet
  <1> QED
    BY <1>1, <1>2 DEF Present

\* The rows of the table are numbers.
LEMMA VisibleIsCells ==
    Stored => /\ Visible \in Seq(Nat) /\ Len(Visible) = len
              /\ \A j \in 1 .. len : Visible[j] = Cells[j]
  <1> SUFFICES ASSUME Stored
               PROVE  /\ Visible \in Seq(Nat) /\ Len(Visible) = len
                      /\ \A j \in 1 .. len : Visible[j] = Cells[j]
    OBVIOUS
  <1>1. PICK u \in Seq(Made) : u = Visible
    BY CellsType
  <1>2. u \in Seq(Nat)
    BY CellsType
  <1> QED
    BY <1>1, <1>2, CellsType

\* The list has the same notion of its set of rows.
LEMMA SameToSet == \A q : Promise!ToSet(q) = ToSet(q)
  BY DEF ToSet, Promise!ToSet

\* What a session has chosen stays so while it does nothing.
LEMMA ChosenStays ==
    ASSUME OwnList, NEW t \in Sessions, op'[t] = op[t], pick'[t] = pick[t]
    PROVE  Chosen'[t] = Chosen[t]
  <1>1. CASE Changes(t)
    BY <1>1 DEF OwnList, Changes, Chosen, Picked
  <1>2. CASE ~Changes(t)
    BY <1>2 DEF Changes, Chosen
  <1> QED
    BY <1>1, <1>2

\* When a session ends its statement, nothing is left for it to reach.
LEMMA ChosenFinish ==
    ASSUME RefineInv, NEW s \in Sessions, Finish(s)
    PROVE  Chosen' = [Chosen EXCEPT ![s] = {}] /\ OwnList'
  <1>1. op \in [Sessions -> Operations \cup {Idle}] /\ pick \in [Sessions -> Picks] /\ OwnList
    BY DEF RefineInv, TableInv, Stored
  <1>2. /\ op'[s].kind = "idle"
        /\ \A t \in Sessions \ {s} : op'[t] = op[t] /\ pick'[t] = pick[t]
    BY <1>1 DEF Finish, Idle
  <1>3. Chosen'[s] = {}
    BY <1>2 DEF Chosen
  <1>4. \A t \in Sessions \ {s} : Chosen'[t] = Chosen[t]
    BY <1>1, <1>2, ChosenStays
  <1>5. Chosen = [t \in Sessions |-> Chosen[t]] /\ Chosen' = [t \in Sessions |-> Chosen'[t]]
    BY DEF Chosen
  <1>6. Chosen' = [Chosen EXCEPT ![s] = {}]
    BY <1>3, <1>4, <1>5
  <1>7. OwnList'
    BY <1>1, <1>2 DEF OwnList, Changes
  <1> QED
    BY <1>6, <1>7

LEMMA ChosenSame ==
    ASSUME OwnList, op' = op, pick' = pick
    PROVE  Chosen' = Chosen /\ OwnList'
  <1>1. \A t \in Sessions : Chosen'[t] = Chosen[t]
    BY ChosenStays
  <1>2. Chosen = [t \in Sessions |-> Chosen[t]] /\ Chosen' = [t \in Sessions |-> Chosen'[t]]
    BY DEF Chosen
  <1>3. OwnList'
    BY DEF OwnList, Changes
  <1> QED
    BY <1>1, <1>2, <1>3

LEMMA VisibleSame ==
    ASSUME arrays' = arrays, len' = len
    PROVE  Visible' = Visible
  BY DEF Visible, Cells

LEMMA InsertRefines ==
    ASSUME Distinct, RefineInv, NEW s \in Sessions, NEW rows \in Seq(Contents), Insert(s, rows),
           TableInv'
    PROVE  Promise!Insert /\ OwnList'
  <1>1. PICK n \in Nat :
          /\ inserted' = inserted + n /\ len' = len + n /\ inserted + n <= MaxRows
          /\ \A j \in 1 .. len : Cells'[j] = Cells[j]
          /\ \A j \in 1 .. n : Cells'[len + j] = inserted + j
          /\ \A r \in Rows : r \notin inserted + 1 .. inserted + n => content'[r] = content[r]
    BY InsertSorted DEF RefineInv
  <1>2. PICK u \in Seq(Nat), w \in Seq(Nat) :
          /\ u = Visible /\ Len(u) = len /\ \A j \in 1 .. len : u[j] = Cells[j]
          /\ w = Visible' /\ Len(w) = len + n /\ \A j \in 1 .. len + n : w[j] = Cells'[j]
    <2>1. /\ Visible \in Seq(Nat) /\ Len(Visible) = len
          /\ \A j \in 1 .. len : Visible[j] = Cells[j]
      BY VisibleIsCells DEF RefineInv, TableInv
    <2>2. Stored'
      BY DEF TableInv
    <2>3. (/\ Visible \in Seq(Nat) /\ Len(Visible) = len
           /\ \A j \in 1 .. len : Visible[j] = Cells[j])'
      BY <2>2, VisibleIsCells, PTL
    <2> QED
      BY <1>1, <2>1, <2>3
  <1>3. len \in Nat /\ inserted \in Nat /\ (inserted + n) - inserted = n
    BY CellsType DEF RefineInv, TableInv
  <1>4. PICK new : new = [i \in 1 .. n |-> inserted + i]
    OBVIOUS
  <1>5. new \in Seq(Nat) /\ Len(new) = n
    BY <1>3, <1>4
  <1>6. w = u \o new
    <2>1. /\ u \o new \in Seq(Nat) /\ Len(u \o new) = len + n
          /\ \A j \in 1 .. len + n : (u \o new)[j] = IF j <= len THEN u[j] ELSE new[j - len]
      <3>1. /\ u \o new \in Seq(Nat) /\ Len(u \o new) = Len(u) + Len(new)
            /\ \A j \in 1 .. Len(u) + Len(new) :
                 (u \o new)[j] = IF j <= Len(u) THEN u[j] ELSE new[j - Len(u)]
        BY <1>5, ConcatProperties
      <3> QED
        BY <1>2, <1>5, <3>1
    <2>2. ASSUME NEW j \in 1 .. len + n PROVE w[j] = (u \o new)[j]
      <3>1. CASE j <= len
        <4>1. j \in 1 .. len
          BY <1>3, <3>1
        <4>2. w[j] = Cells'[j] /\ Cells'[j] = Cells[j] /\ u[j] = Cells[j]
          BY <1>1, <1>2, <4>1
        <4>3. (u \o new)[j] = u[j]
          BY <2>1, <3>1
        <4> QED
          BY <4>2, <4>3
      <3>2. CASE ~(j <= len)
        <4>1. PICK i \in 1 .. n : j = len + i /\ i = j - len
          <5>1. j - len \in 1 .. n /\ j = len + (j - len)
            BY <1>3, <3>2
          <5> QED
            BY <5>1
        <4>2. w[j] = inserted + i
          BY <1>1, <1>2, <4>1
        <4>3. (u \o new)[j] = new[i]
          BY <2>1, <3>2, <4>1
        <4> QED
          BY <1>4, <4>2, <4>3
      <3> QED
        BY <3>1, <3>2
    <2> QED
      BY <1>2, <2>1, <2>2, SeqEqual
  <1>7. op' = op /\ pick' = pick
    BY DEF Insert
  <1>8. Chosen' = Chosen /\ OwnList'
    BY <1>7, ChosenSame DEF RefineInv
  <1>9. Visible' = Visible \o [i \in 1 .. inserted' - inserted |-> inserted + i]
    <2>1. inserted' - inserted = n
      BY <1>1, <1>3
    <2> QED
      BY <1>2, <1>4, <1>6, <2>1
  <1>10. inserted' \in inserted .. MaxRows
    BY <1>1, <1>3, BoundAssumption
  <1>11. \A r \in 1 .. MaxRows : r \notin inserted + 1 .. inserted' => content'[r] = content[r]
    BY <1>1 DEF Rows
  <1> QED
    BY <1>8, <1>9, <1>10, <1>11 DEF Promise!Insert

\* The rows of the table are in order, and so Select finds none twice.
LEMMA MatchingOnce ==
    ASSUME Stored, Ordered, NEW where
    PROVE  Once(Matching(where))
  <1>1. PICK n \in Nat : n = len
    BY CellsType
  <1>2. \A j \in 1 .. n : Cells[j] \in Nat
    BY <1>1, CellsType DEF Stored, Made
  <1>3. \A e \in Seq(Nat) : \A i \in 1 .. n : Found(where, e, i) \in Seq(Nat)
    BY <1>2 DEF Found
  <1>4. <<>> \in Seq(Nat)
    OBVIOUS
  <1>5. PICK v \in [0 .. n -> Seq(Nat)] :
          /\ v[0] = <<>> /\ Matching(where) = v[n]
          /\ \A i \in 1 .. n : v[i] = Found(where, v[i - 1], i)
    <2>1. PICK D : D = Seq(Nat)
      OBVIOUS
    <2>2. <<>> \in D /\ len \in Nat
      BY <1>1, <1>4, <2>1
    <2>3. \A e \in D : \A i \in 1 .. len : Found(where, e, i) \in D
      BY <1>1, <1>3, <2>1, Zenon
    <2>4. \E v \in [0 .. len -> D] :
             /\ v[0] = <<>>
             /\ \A i \in 1 .. len : v[i] = Found(where, v[i - 1], i)
             /\ Matching(where) = v[len]
      BY <2>2, <2>3, SelectLoop
    <2> QED
      BY <1>1, <2>1, <2>4, Zenon
  <1> DEFINE Below(i) == \A a \in DOMAIN v[i] : \E j \in 1 .. i : v[i][a] = Cells[j]
             T == {i \in 0 .. n : Below(i) /\ Once(v[i])}
  <1>6. 0 \in T
    BY <1>5 DEF Once
  <1>7. ASSUME NEW i \in 1 .. n, i - 1 \in T PROVE i \in T
    <2>0. i \in 0 .. n /\ v[i - 1] \in Seq(Nat) /\ Below(i - 1) /\ Once(v[i - 1])
      BY <1>7
    <2> SUFFICES Below(i) /\ Once(v[i])
      BY <2>0
    <2> HIDE DEF T
    <2>1. PICK e \in Seq(Nat), m \in Nat :
            /\ e = v[i - 1] /\ m = Len(e) /\ DOMAIN e = 1 .. m
            /\ \A a \in 1 .. m : e[a] \in Nat /\ \E j \in 1 .. i - 1 : e[a] = Cells[j]
            /\ \A a, b \in 1 .. m : e[a] = e[b] => a = b
      <3>1. PICK e \in Seq(Nat), m \in Nat : e = v[i - 1] /\ m = Len(e) /\ DOMAIN e = 1 .. m
        BY <2>0, LenProperties
      <3>2. \A a \in 1 .. m : e[a] \in Nat
        BY <3>1, ElementOfSeq
      <3>3. \A a \in 1 .. m : \E j \in 1 .. i - 1 : e[a] = Cells[j]
        BY <2>0, <3>1, Zenon
      <3>4. \A a, b \in 1 .. m : e[a] = e[b] => a = b
        BY <2>0, <3>1, Zenon DEF Once
      <3> QED
        BY <3>1, <3>2, <3>3, <3>4, Zenon
    <2> HIDE DEF Below
    <2>2. CASE ~IsMatched(Cells[i], where)
      <3>1. v[i] = v[i - 1]
        BY <1>5, <2>2, Zenon DEF Found
      <3>2. \A a \in DOMAIN v[i] : \E j \in 1 .. i : v[i][a] = Cells[j]
        <4>0. v[i] = e /\ DOMAIN e = 1 .. m
          BY <2>1, <3>1, Zenon
        <4> SUFFICES ASSUME NEW a \in 1 .. m PROVE \E j \in 1 .. i : e[a] = Cells[j]
          BY <4>0
        <4>1. PICK j \in 1 .. i - 1 : e[a] = Cells[j]
          BY <2>1
        <4>2. j \in 1 .. i
          OBVIOUS
        <4> QED
          BY <4>1, <4>2, Zenon
      <3> QED
        BY <2>0, <3>1, <3>2, Zenon DEF Below
    <2>3. CASE IsMatched(Cells[i], where)
      <3>1. v[i] = Append(v[i - 1], Cells[i]) /\ Cells[i] \in Nat
        BY <1>2, <1>5, <2>3, Zenon DEF Found
      <3>2. PICK w \in Seq(Nat), x \in Nat :
              /\ w = v[i] /\ x = Cells[i] /\ DOMAIN w = 1 .. m + 1 /\ w[m + 1] = x
              /\ \A a \in 1 .. m : w[a] = e[a]
        <4>1. PICK x \in Nat : x = Cells[i]
          BY <3>1
        <4>2. v[i] = Append(e, x)
          BY <2>1, <3>1, <4>1, Zenon
        <4>3. PICK w \in Seq(Nat) :
                /\ w = Append(e, x) /\ DOMAIN w = 1 .. m + 1 /\ w[m + 1] = x
                /\ \A a \in 1 .. m : w[a] = e[a]
          <5>1. PICK w \in Seq(Nat) : w = Append(e, x)
            BY AppendProperties
          <5>2. Len(w) = Len(e) + 1 /\ w[Len(e) + 1] = x /\ \A a \in 1 .. Len(e) : w[a] = e[a]
            <6>1. /\ Len(Append(e, x)) = Len(e) + 1 /\ Append(e, x)[Len(e) + 1] = x
                  /\ \A a \in 1 .. Len(e) : Append(e, x)[a] = e[a]
              BY AppendProperties, SMT
            <6> QED
              BY <5>1, <6>1, Zenon
          <5>3. DOMAIN w = 1 .. Len(w)
            BY LenProperties
          <5> QED
            BY <2>1, <5>1, <5>2, <5>3, Zenon
        <4> QED
          BY <4>1, <4>2, <4>3
      <3>3. \A a \in 1 .. m : e[a] < x
        <4>1. \A j \in 1 .. i - 1 : Cells[j] < x
          BY <1>1, <3>2 DEF Ordered
        <4> QED
          BY <2>1, <4>1
      <3>4. \A a \in 1 .. m + 1 : \E j \in 1 .. i : w[a] = Cells[j]
        <4> SUFFICES ASSUME NEW a \in 1 .. m + 1 PROVE \E j \in 1 .. i : w[a] = Cells[j]
          OBVIOUS
        <4>1. CASE a = m + 1
          BY <3>2, <4>1
        <4>2. CASE a \in 1 .. m
          BY <2>1, <3>2, <4>2
        <4> QED
          BY <4>1, <4>2
      <3>5. \A a, b \in 1 .. m + 1 : w[a] = w[b] => a = b
        <4> SUFFICES ASSUME NEW a \in 1 .. m + 1, NEW b \in 1 .. m + 1, w[a] = w[b] PROVE a = b
          OBVIOUS
        <4>1. (a = m + 1 \/ a \in 1 .. m) /\ (b = m + 1 \/ b \in 1 .. m)
          OBVIOUS
        <4>2. \A y \in 1 .. m : w[y] # x
          <5>1. \A y \in 1 .. m : e[y] \in Nat /\ e[y] < x /\ w[y] = e[y]
            BY <2>1, <3>2, <3>3, Zenon
          <5>2. \A y \in 1 .. m : e[y] # x
            BY ONLY <5>1, x \in Nat
          <5> QED
            BY <5>1, <5>2, Zenon
        <4>3. CASE a \in 1 .. m /\ b \in 1 .. m
          BY <2>1, <3>2, <4>3
        <4> QED
          BY <3>2, <4>1, <4>2, <4>3
      <3>6. DOMAIN v[i] = 1 .. m + 1 /\ w = v[i]
        BY <3>2
      <3> QED
        BY <3>4, <3>5, <3>6, Zenon DEF Below, Once
    <2> QED
      BY <2>2, <2>3
  <1>8. n \in T
    <2>1. n \in 0 .. n
      OBVIOUS
    <2>2. \A i \in 1 .. n : i - 1 \in T => i \in T
      BY <1>7
    <2> HIDE DEF T
    <2>3. \A i \in 0 .. n : i \in T
      BY <1>6, <2>2, Turns, Zenon
    <2> QED
      BY <2>1, <2>3
  <1> QED
    BY <1>5, <1>8

LEMMA SelectRefines ==
    ASSUME WherePresent, RefineInv, NEW s \in Sessions, NEW o \in Operations, Select(s, o)
    PROVE  (Promise!Choose(s) \/ UNCHANGED Promise!vars) /\ OwnList'
  <1>1. /\ op \in [Sessions -> Operations \cup {Idle}] /\ pick \in [Sessions -> Picks] /\ OwnList
        /\ op[s] = Idle /\ op' = [op EXCEPT ![s] = o]
        /\ inserted' = inserted /\ content' = content
        /\ \A t \in Sessions \ {s} : op'[t] = op[t] /\ pick'[t] = pick[t]
        /\ op'[s] = o
    BY DEF Select, RefineInv, TableInv, Stored
  <1>2. Visible' = Visible
    BY VisibleSame DEF Select
  <1>3. Chosen[s] = {} /\ \A t \in Sessions \ {s} : Chosen'[t] = Chosen[t]
    BY <1>1, ChosenStays DEF Chosen, Idle
  <1>4. Chosen = [t \in Sessions |-> Chosen[t]] /\ Chosen' = [t \in Sessions |-> Chosen'[t]]
    BY DEF Chosen
  <1>5. CASE o.kind \in {"update", "delete"}
    <2>1. o.where.kind # "none"
      BY <1>5 DEF WherePresent
    <2>2. PICK l \in Seq(Present) : l = Matching(o.where) /\ Once(l)
      <3>1. \A j \in 1 .. len : Cells[j] \in Present
        BY DEF Present
      <3>2. Matching(o.where) \in Seq(Present)
        BY <3>1, MatchingType, CellsType DEF RefineInv, TableInv
      <3>3. Once(Matching(o.where))
        BY MatchingOnce DEF RefineInv, SortedInv, TableInv
      <3> QED
        BY <3>2, <3>3
    <2>3. pick'[s] = [array |-> 0, len |-> 0, list |-> l]
      BY <1>1, <2>1, <2>2 DEF Select
    <2>4. Chosen'[s] = ToSet(l)
      BY <1>1, <1>5, <2>3 DEF Chosen, Picked
    <2>5. ToSet(l) \in SUBSET ToSet(Visible)
      <3>1. ToSet(l) \subseteq Present
        BY DEF ToSet
      <3> QED
        BY <3>1, VisibleIsPresent DEF RefineInv, TableInv
    <2>6. Chosen' = [Chosen EXCEPT ![s] = ToSet(l)]
      BY <1>3, <1>4, <2>4
    <2>7. Promise!Choose(s)
      BY <1>1, <1>2, <1>3, <2>5, <2>6, SameToSet DEF Promise!Choose
    <2>8. OwnList'
      BY <1>1, <2>2, <2>3 DEF OwnList, Changes
    <2> QED
      BY <2>7, <2>8
  <1>6. CASE o.kind \notin {"update", "delete"}
    <2>1. Chosen'[s] = {}
      BY <1>1, <1>6 DEF Chosen
    <2>2. Chosen' = Chosen
      BY <1>3, <1>4, <2>1
    <2>3. UNCHANGED Promise!vars
      BY <1>1, <1>2, <2>2 DEF Promise!vars
    <2>4. OwnList'
      BY <1>1, <1>6 DEF OwnList, Changes
    <2> QED
      BY <2>3, <2>4
  <1> QED
    BY <1>5, <1>6

\* A row that was picked once is changed once.
LEMMA UpdatedOnce ==
    ASSUME TableInv, NEW s \in Sessions, op[s].set \in [Contents -> Vals], Once(Picked(s)),
           NEW r \in Rows
    PROVE  Updated(s, r) = IF r \in ToSet(Picked(s)) THEN Changed(s, content[r]) ELSE content[r]
  <1>1. PICK p \in Seq(Made), n \in Nat : p = Picked(s) /\ n = Len(p) /\ DOMAIN p = 1 .. n
    BY PickedType, LenProperties
  <1>2. content[r] \in Contents
    BY DEF TableInv, Stored
  <1>3. \A e \in Contents : \A i \in 1 .. n : TurnOf(s, r, e, i) \in Contents
    BY ChangedType DEF TurnOf
  <1>4. PICK v \in [0 .. n -> Contents] :
          /\ v[0] = content[r] /\ Updated(s, r) = v[n]
          /\ \A i \in 1 .. n : v[i] = TurnOf(s, r, v[i - 1], i)
    <2>1. Len(Picked(s)) = n /\ Len(Picked(s)) \in Nat
      BY <1>1
    <2>2. PICK D : D = Contents
      OBVIOUS
    <2>3. content[r] \in D /\ \A e \in D : \A i \in 1 .. Len(Picked(s)) : TurnOf(s, r, e, i) \in D
      BY <1>2, <1>3, <2>1, <2>2, Zenon
    <2>4. PICK v \in [0 .. Len(Picked(s)) -> D] : Makes(s, r, v)
      BY <2>1, <2>3, UpdateLoop
    <2> QED
      BY <2>1, <2>2, <2>4, Zenon DEF Makes
  <1> DEFINE After(i) == IF \E j \in 1 .. i : p[j] = r THEN Changed(s, content[r]) ELSE content[r]
             T == {i \in 0 .. n : v[i] = After(i)}
  <1>5. 0 \in T
    BY <1>4
  <1>6. ASSUME NEW i \in 1 .. n, i - 1 \in T PROVE i \in T
    <2>1. v[i - 1] = After(i - 1) /\ i \in 0 .. n
      BY <1>6
    <2>2. v[i] = IF p[i] = r THEN Changed(s, v[i - 1]) ELSE v[i - 1]
      BY <1>1, <1>4 DEF TurnOf
    <2>3. CASE p[i] = r
      <3>1. \A j \in 1 .. i - 1 : p[j] # r
        BY <1>1, <2>3 DEF Once
      <3>2. After(i - 1) = content[r] /\ After(i) = Changed(s, content[r])
        BY <2>3, <3>1
      <3> HIDE DEF After
      <3> QED
        BY <2>1, <2>2, <2>3, <3>2
    <2>4. CASE p[i] # r
      <3>1. (\E j \in 1 .. i : p[j] = r) <=> (\E j \in 1 .. i - 1 : p[j] = r)
        BY <2>4
      <3>2. After(i) = After(i - 1)
        BY <3>1
      <3> HIDE DEF After
      <3> QED
        BY <2>1, <2>2, <2>4, <3>2
    <2> QED
      BY <2>3, <2>4
  <1>7. n \in T
    <2>1. n \in 0 .. n
      OBVIOUS
    <2>2. \A i \in 1 .. n : i - 1 \in T => i \in T
      BY <1>6
    <2> HIDE DEF T
    <2>3. \A i \in 0 .. n : i \in T
      BY <1>5, <2>2, Turns, Zenon
    <2> QED
      BY <2>1, <2>3
  <1>8. r \in ToSet(Picked(s)) <=> \E j \in 1 .. n : p[j] = r
    BY <1>1 DEF ToSet
  <1> QED
    BY <1>4, <1>7, <1>8

LEMMA UpdateRefines ==
    ASSUME RefineInv, NEW s \in Sessions, Update(s)
    PROVE  Promise!Update(s) /\ OwnList'
  <1>1. Visible' = Visible /\ inserted' = inserted
    BY VisibleSame DEF Update
  <1>2. Chosen' = [Chosen EXCEPT ![s] = {}] /\ OwnList'
    BY ChosenFinish DEF Update
  <1>3. op[s].kind = "update" /\ op[s].set \in [Contents -> Vals]
    BY UpdateContent DEF RefineInv
  <1>4. Chosen[s] = ToSet(Picked(s))
    BY <1>3 DEF Chosen
  <1>5. Once(Picked(s))
    BY <1>3 DEF RefineInv, OwnList, Changes, Picked
  <1>6. \A r \in Rows : Updated(s, r) =
          IF r \in Chosen[s] THEN Changed(s, content[r]) ELSE content[r]
    BY <1>3, <1>4, <1>5, UpdatedOnce DEF RefineInv
  <1>7. content' = [r \in 1 .. MaxRows |->
                      IF r \in Chosen[s] THEN [content[r] EXCEPT !.val = op[s].set[content[r]]]
                      ELSE content[r]]
    BY <1>6 DEF Update, Rows, Changed
  <1>8. op[s].set \in [Promise!Contents -> Vals]
    BY <1>3 DEF Contents, Promise!Contents
  <1> QED
    BY <1>1, <1>2, <1>7, <1>8 DEF Promise!Update

LEMMA DeleteRefines ==
    ASSUME RefineInv, NEW s \in Sessions, Delete(s), TableInv'
    PROVE  Promise!Delete(s) /\ OwnList'
  <1>1. inserted' = inserted /\ content' = content /\ op[s].kind = "delete"
    BY DEF Delete, Running
  <1>2. Chosen' = [Chosen EXCEPT ![s] = {}] /\ OwnList'
    BY ChosenFinish DEF Delete
  <1>3. Chosen[s] = ToSet(Picked(s)) /\ pick[s].array = 0
    BY <1>1 DEF Chosen, RefineInv, OwnList, Changes
  <1>4. ToSet(Visible) = Present /\ ToSet(Visible') = Present'
    <2>1. ToSet(Visible) = Present
      BY VisibleIsPresent DEF RefineInv, TableInv
    <2>2. Stored'
      BY DEF TableInv
    <2>3. (ToSet(Visible) = Present)'
      BY <2>2, VisibleIsPresent, PTL
    <2> QED
      BY <2>1, <2>3
  <1>5. /\ SortedInv'
        /\ Present' =
             {r \in Present : \A j \in 1 .. Len(Picked(s)) : ~IsEqual(Picked(s)[j], r)}
    BY <1>3, DeleteSorted, DeletePickedKeeps DEF RefineInv, SortedInv
  <1>6. ASSUME NEW r
        PROVE  Promise!Stays(s, r) <=> \A j \in 1 .. Len(Picked(s)) : ~IsEqual(Picked(s)[j], r)
    <2>1. PICK p \in Seq(Made) : p = Picked(s)
      BY PickedType DEF RefineInv
    <2>2. Chosen[s] = {p[j] : j \in 1 .. Len(p)}
      BY <1>3, <2>1 DEF ToSet
    <2> QED
      BY <2>1, <2>2 DEF Promise!Stays, IsEqual
  <1>7. ToSet(Visible') = {r \in ToSet(Visible) : Promise!Stays(s, r)}
    BY <1>4, <1>5, <1>6
  <1>8. Promise!InOrder
    <2>1. PICK u \in Seq(Nat), n \in Nat :
            /\ u = Visible /\ n = Len(u) /\ \A i, j \in 1 .. n : i < j => u[i] < u[j]
      <3>1. /\ Visible \in Seq(Nat) /\ Len(Visible) = len
            /\ \A j \in 1 .. len : Visible[j] = Cells[j]
        BY VisibleIsCells DEF RefineInv, TableInv
      <3> QED
        BY <3>1 DEF RefineInv, SortedInv, Ordered
    <2>2. PICK w \in Seq(Nat), m \in Nat :
            /\ w = Visible' /\ m = Len(w) /\ \A i, j \in 1 .. m : i < j => w[i] < w[j]
      <3>1. Stored'
        BY DEF TableInv
      <3>2. (/\ Visible \in Seq(Nat) /\ Len(Visible) = len
             /\ \A j \in 1 .. len : Visible[j] = Cells[j])'
        BY <3>1, VisibleIsCells, PTL
      <3>3. (\A i, j \in 1 .. len : i < j => Cells[i] < Cells[j])'
        BY <1>5 DEF SortedInv, Ordered
      <3>4. PICK w \in Seq(Nat), m \in Nat : w = Visible' /\ m = Len(w) /\ m = len'
        BY <3>2
      <3>5. \A j \in 1 .. m : w[j] = Cells'[j]
        BY <3>2, <3>4
      <3>6. \A i, j \in 1 .. m : i < j => Cells'[i] < Cells'[j]
        BY <3>3, <3>4
      <3> QED
        BY <3>4, <3>5, <3>6
    <2>3. ASSUME NEW i \in 1 .. m PROVE \E g \in 1 .. n : u[g] = w[i]
      <3>1. w[i] \in ToSet(w) /\ ToSet(u) = {u[g] : g \in 1 .. n}
        <4>1. DOMAIN w = 1 .. m /\ DOMAIN u = 1 .. n
          BY <2>1, <2>2
        <4> QED
          BY <4>1 DEF ToSet
      <3>2. ToSet(w) \subseteq ToSet(u)
        BY <1>7, <2>1, <2>2
      <3> QED
        BY <3>1, <3>2
    <2>4. ASSUME NEW i \in 1 .. m, NEW j \in 1 .. m, i < j
          PROVE  \E g, h \in 1 .. n : g < h /\ u[g] = w[i] /\ u[h] = w[j]
      <3>1. PICK g \in 1 .. n, h \in 1 .. n : u[g] = w[i] /\ u[h] = w[j]
        BY <2>3
      <3>2. w[i] < w[j] /\ u[g] \in Nat /\ u[h] \in Nat
        BY <2>1, <2>2, <2>4
      <3>3. g < h
        <4>1. CASE h < g
          <5>1. u[h] < u[g]
            BY <2>1, <4>1
          <5> QED
            BY <3>1, <3>2, <5>1
        <4>2. CASE g = h
          BY <3>1, <3>2, <4>2
        <4> QED
          BY <4>1, <4>2
      <3> QED
        BY <3>1, <3>3
    <2>5. DOMAIN Visible = 1 .. n /\ DOMAIN Visible' = 1 .. m
      BY <2>1, <2>2
    <2>6. \A i, j \in 1 .. m : i < j =>
            \E g, h \in 1 .. n : g < h /\ Visible[g] = Visible'[i] /\ Visible[h] = Visible'[j]
      BY <2>1, <2>2, <2>4
    <2>7. \A i, j \in DOMAIN Visible' : i < j =>
            \E g, h \in DOMAIN Visible : g < h /\ Visible[g] = Visible'[i] /\ Visible[h] = Visible'[j]
      <3> SUFFICES ASSUME NEW i \in DOMAIN Visible', NEW j \in DOMAIN Visible', i < j
                   PROVE  \E g, h \in DOMAIN Visible :
                            g < h /\ Visible[g] = Visible'[i] /\ Visible[h] = Visible'[j]
        OBVIOUS
      <3>1. i \in 1 .. m /\ j \in 1 .. m
        BY <2>5
      <3>2. PICK g \in 1 .. n, h \in 1 .. n :
              g < h /\ Visible[g] = Visible'[i] /\ Visible[h] = Visible'[j]
        BY <2>6, <3>1
      <3>3. g \in DOMAIN Visible /\ h \in DOMAIN Visible
        BY <2>5
      <3> QED
        BY <3>2, <3>3
    <2> QED
      BY <2>7, Zenon DEF Promise!InOrder
  <1> QED
    BY <1>1, <1>2, <1>7, <1>8, SameToSet DEF Promise!Delete

LEMMA RefineStep ==
    ASSUME Distinct, WherePresent, RefineInv, [Next]_vars
    PROVE  [Promise!Next]_(Promise!vars) /\ RefineInv'
  <1>1. TableInv' /\ SortedInv'
    BY InvStep, SortedStep DEF RefineInv
  <1>2. OwnList
    BY DEF RefineInv
  <1>3. ASSUME UNCHANGED <<arrays, len, inserted, content, op, pick>>
        PROVE  UNCHANGED Promise!vars /\ OwnList'
    BY <1>2, <1>3, VisibleSame, ChosenSame DEF Promise!vars
  <1>4. ASSUME NEW s \in Sessions, Statement(s)
        PROVE  [Promise!Next]_(Promise!vars) /\ OwnList'
    <2>1. ASSUME NEW x \in Contents, Insert(s, <<x>>)
          PROVE  Promise!Insert /\ OwnList'
      <3>1. PICK rows \in Seq(Contents) : rows = <<x>>
        <4>1. <<x>> \in Seq(Contents)
          OBVIOUS
        <4> QED
          BY <4>1
      <3> QED
        BY <1>1, <2>1, <3>1, InsertRefines
    <2>2. ASSUME NEW x \in Contents, NEW y \in Contents, Insert(s, <<x, y>>)
          PROVE  Promise!Insert /\ OwnList'
      <3>1. PICK rows \in Seq(Contents) : rows = <<x, y>>
        <4>1. <<x, y>> \in Seq(Contents)
          OBVIOUS
        <4> QED
          BY <4>1
      <3> QED
        BY <1>1, <2>2, <3>1, InsertRefines
    <2>3. ASSUME NEW o \in Operations, Select(s, o)
          PROVE  (Promise!Choose(s) \/ UNCHANGED Promise!vars) /\ OwnList'
      BY <2>3, SelectRefines
    <2>4. ASSUME ReturnRows(s) PROVE UNCHANGED Promise!vars /\ OwnList'
      <3>1. Chosen' = [Chosen EXCEPT ![s] = {}] /\ OwnList'
        BY <2>4, ChosenFinish DEF ReturnRows
      <3>2. Chosen[s] = {}
        BY <2>4 DEF ReturnRows, Running, Chosen
      <3>3. Chosen' = Chosen
        BY <3>1, <3>2 DEF Chosen
      <3>4. Visible' = Visible
        BY <2>4, VisibleSame DEF ReturnRows
      <3> QED
        BY <2>4, <3>1, <3>3, <3>4 DEF ReturnRows, Promise!vars
    <2>5. ASSUME Update(s) PROVE Promise!Update(s) /\ OwnList'
      BY <2>5, UpdateRefines
    <2>6. ASSUME Delete(s) PROVE Promise!Delete(s) /\ OwnList'
      BY <1>1, <2>6, DeleteRefines
    <2>7. ASSUME RowRace(s) PROVE UNCHANGED Promise!vars /\ OwnList'
      BY <1>3, <2>7 DEF RowRace
    <2> QED
      BY <1>4, <2>1, <2>2, <2>3, <2>4, <2>5, <2>6, <2>7 DEF Statement, Promise!Next
  <1>5. ASSUME UNCHANGED vars PROVE UNCHANGED Promise!vars /\ OwnList'
    BY <1>3, <1>5 DEF vars
  <1>6. [Promise!Next]_(Promise!vars) /\ OwnList'
    BY <1>3, <1>4, <1>5 DEF Next, vars
  <1> QED
    BY <1>1, <1>6 DEF RefineInv

LEMMA InitRefines == Init => Promise!Init /\ RefineInv
  <1> SUFFICES ASSUME Init PROVE Promise!Init /\ RefineInv
    OBVIOUS
  <1>1. TableInv /\ SortedInv
    BY InitStored, InitSorted
  <1>2. OwnList
    BY DEF Init, OwnList, Changes, Idle
  <1>3. Visible = <<>>
    <2>1. Visible \in Seq(Nat) /\ Len(Visible) = 0
      BY <1>1, VisibleIsCells DEF TableInv, Init
    <2> QED
      BY <2>1
  <1>4. Chosen = [s \in Sessions |-> {}]
    BY DEF Init, Chosen, Idle
  <1>5. inserted = 0 /\ content \in [1 .. MaxRows -> Promise!Contents]
    BY <1>1 DEF Init, TableInv, Stored, Rows, Contents, Promise!Contents
  <1> QED
    BY <1>1, <1>2, <1>3, <1>4, <1>5 DEF RefineInv, Promise!Init

\* The slice of the table, its shared arrays and the moves of Delete included,
\* behaves as the list of rows that RowList promises, whatever statements come
\* between the two sections of an UPDATE or DELETE, where clients keep keys
\* unique and every UPDATE and DELETE has a WHERE clause: no row is lost,
\* doubled, revived or moved past another.
THEOREM TableIsRowList == ASSUME Distinct, WherePresent PROVE Spec => TableImplementsRowList
  <1>1. Init => Promise!Init /\ RefineInv
    BY InitRefines
  <1>2. RefineInv /\ [Next]_vars => [Promise!Next]_(Promise!vars) /\ RefineInv'
    BY RefineStep
  <1> QED
    BY <1>1, <1>2, PTL DEF Spec, TableImplementsRowList, Promise!Spec

=============================================================================
