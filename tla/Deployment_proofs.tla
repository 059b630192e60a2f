------------------------- MODULE Deployment_proofs -------------------------
(***************************************************************************)
(* What TLAPS proves of Deployment, for all workers, requests, connections *)
(* and source tables and any number of writes: Inv (below) is inductive, and *)
(* the module's six invariants follow from it.                             *)
(*                                                                         *)
(* The theorems are about any str.strip() and str.split() for which        *)
(* TextOperations holds.  First come lemmas about the recursive functions   *)
(* of the model (Keep, UniqueTopics, BuildTableConfigs, FlattenSeq): such a *)
(* function is shown to be what its equation says, and to agree with a      *)
(* closed form, by UpTo, which is induction up to a bound.                 *)
(***************************************************************************)
EXTENDS Deployment, SequenceTheorems, WellFoundedInduction, TLAPS

-----------------------------------------------------------------------------
(* Recursive functions. *)

LEMMA LeastElement ==
    ASSUME NEW S \in SUBSET Nat, S # {}
    PROVE  \E n \in S : \A m \in S : n <= m
<1>1. \E n \in S : \A m \in S : ~(<<m, n>> \in OpToRel(<, Nat))
  BY NatLessThanWellFounded, WFMin
<1>2. PICK n \in S : \A m \in S : ~(<<m, n>> \in OpToRel(<, Nat))
  BY <1>1
<1>3. \A m \in S : m < n => <<m, n>> \in OpToRel(<, Nat)
  BY Zenon DEF OpToRel
<1>4. \A m \in S : ~(m < n)
  BY <1>2, <1>3, Zenon
<1> QED
  BY <1>4

\* What holds at 0 and passes from each number to the next holds up to a bound: of the
\* numbers up to N at which it fails there would be a least one.
LEMMA UpTo ==
    ASSUME NEW N \in Nat, NEW holds \in SUBSET (0 .. N), 0 \in holds,
           \A n \in 1 .. N : n - 1 \in holds => n \in holds
    PROVE  holds = 0 .. N
<1>1. SUFFICES ASSUME (0 .. N) \ holds # {} PROVE FALSE
  OBVIOUS
<1>2. (0 .. N) \ holds \in SUBSET Nat
  OBVIOUS
<1>3. PICK n \in (0 .. N) \ holds : \A m \in (0 .. N) \ holds : n <= m
  BY <1>1, <1>2, LeastElement
<1>4. n \in 1 .. N /\ n - 1 \in 0 .. N /\ ~(n <= n - 1)
  BY <1>3
<1> QED
  BY <1>3, <1>4

\* f starts with zero and makes its n-th value of the one before by step.
Iterates(f, X, zero, N, step) ==
    /\ f \in [0 .. N -> X]
    /\ f[0] = zero
    /\ \A n \in 1 .. N : f[n] = step[<<n, f[n - 1]>>]

LEMMA RecursiveFunction ==
    ASSUME NEW X, NEW zero \in X, NEW N \in Nat, NEW step \in [(1 .. N) \X X -> X]
    PROVE  \E f : Iterates(f, X, zero, N, step)
<1> DEFINE Upto(m) == \E f \in [0 .. m -> X] :
                         f[0] = zero /\ \A n \in 1 .. m : f[n] = step[<<n, f[n - 1]>>]
           holds == {m \in 0 .. N : Upto(m)}
<1>1. Upto(0)
  <2> DEFINE g == [n \in 0 .. 0 |-> zero]
  <2>1. g \in [0 .. 0 -> X] /\ g[0] = zero
    OBVIOUS
  <2>2. 1 .. 0 = {}
    OBVIOUS
  <2> HIDE DEF g
  <2> QED
    BY <2>1, <2>2
<1>2. ASSUME NEW m \in 1 .. N, Upto(m - 1) PROVE Upto(m)
  <2>1. PICK f \in [0 .. (m - 1) -> X] :
            f[0] = zero /\ \A n \in 1 .. (m - 1) : f[n] = step[<<n, f[n - 1]>>]
    BY <1>2
  <2> DEFINE g == [n \in 0 .. m |-> IF n = m THEN step[<<m, f[m - 1]>>] ELSE f[n]]
  <2>2. f[m - 1] \in X
    OBVIOUS
  <2>3. step[<<m, f[m - 1]>>] \in X
    BY <2>2
  <2>4. \A n \in 0 .. m : n # m => n \in 0 .. (m - 1)
    OBVIOUS
  <2>5. g \in [0 .. m -> X]
    BY <2>3, <2>4
  <2>6. g[0] = zero
    BY <2>1
  <2>7. \A n \in 1 .. m : g[n - 1] = f[n - 1]
    OBVIOUS
  <2>8. ASSUME NEW n \in 1 .. m PROVE g[n] = step[<<n, g[n - 1]>>]
    <3>1. CASE n = m
      <4>1. m \in 0 .. m /\ g[m] = step[<<m, f[m - 1]>>]
        OBVIOUS
      <4> HIDE DEF g
      <4> QED
        BY <2>7, <3>1, <4>1
    <3>2. CASE n # m
      <4>1. n \in 1 .. (m - 1) /\ n \in 0 .. m
        BY <3>2
      <4>2. g[n] = f[n]
        BY <3>2, <4>1
      <4> QED
        BY <2>1, <2>7, <4>1, <4>2
    <3> QED
      BY <3>1, <3>2
  <2> HIDE DEF g
  <2> QED
    BY <2>5, <2>6, <2>8
<1>3. holds = 0 .. N
  <2>1. \A m \in 1 .. N : m - 1 \in holds => m \in holds
    <3> HIDE DEF Upto
    <3> QED
      BY <1>2
  <2>2. 0 \in holds
    <3> HIDE DEF Upto
    <3> QED
      BY <1>1
  <2>3. holds \in SUBSET (0 .. N)
    OBVIOUS
  <2> HIDE DEF holds
  <2> QED
    BY <2>1, <2>2, <2>3, UpTo
<1>4. N \in holds
  <2> HIDE DEF holds
  <2> QED
    BY <1>3
<1> QED
  BY <1>4 DEF Iterates

-----------------------------------------------------------------------------
(* Keep. *)

\* kept[n] is what is kept of the first n elements.
Keeps(kept, T, seq, set) ==
    /\ kept \in [0 .. Len(seq) -> Seq(T)]
    /\ kept[0] = << >>
    /\ \A n \in 1 .. Len(seq) :
         kept[n] = IF seq[n] \in set THEN Append(kept[n - 1], seq[n]) ELSE kept[n - 1]
    /\ Keep(seq, set) = kept[Len(seq)]

LEMMA KeepIsRecursive ==
    ASSUME NEW T, NEW seq \in Seq(T), NEW set
    PROVE  \E kept : Keeps(kept, T, seq, set)
<1> DEFINE N == Len(seq)
           Body(g) == [n \in 0 .. N |-> IF n = 0 THEN << >>
                                        ELSE IF seq[n] \in set THEN Append(g[n - 1], seq[n])
                                        ELSE g[n - 1]]
           step == [p \in (1 .. N) \X Seq(T) |->
                       IF seq[p[1]] \in set THEN Append(p[2], seq[p[1]]) ELSE p[2]]
           kept == CHOOSE g : g = Body(g)
<1>1. N \in Nat /\ \A n \in 1 .. N : seq[n] \in T
  OBVIOUS
<1>2. \A x \in Seq(T), n \in 1 .. N : Append(x, seq[n]) \in Seq(T)
  BY <1>1
<1>3. /\ step \in [(1 .. N) \X Seq(T) -> Seq(T)]
      /\ \A n \in 1 .. N, x \in Seq(T) :
           step[<<n, x>>] = IF seq[n] \in set THEN Append(x, seq[n]) ELSE x
  <2> HIDE DEF N
  <2> QED
    BY <1>2
<1>4. << >> \in Seq(T)
  OBVIOUS
<1>5. PICK f \in [0 .. N -> Seq(T)] :
          f[0] = << >> /\ \A n \in 1 .. N : f[n] = step[<<n, f[n - 1]>>]
  <2>1. \E f : Iterates(f, Seq(T), << >>, N, step)
    <3> HIDE DEF N, step
    <3> QED
      BY <1>1, <1>3, <1>4, RecursiveFunction
  <2> HIDE DEF N, step
  <2> QED
    BY <2>1 DEF Iterates
<1>6. \A n \in 1 .. N : n - 1 \in 0 .. N /\ n \in 0 .. N /\ n # 0
  BY <1>1
<1>7. \A n \in 0 .. N : n = 0 \/ n \in 1 .. N
  BY <1>1
<1>8. \A n \in 1 .. N : f[n] = IF seq[n] \in set THEN Append(f[n - 1], seq[n]) ELSE f[n - 1]
  <2> HIDE DEF step, N
  <2> QED
    BY <1>3, <1>5, <1>6
<1>9. f = Body(f)
  <2>1. \A n \in 0 .. N : f[n] = Body(f)[n]
    <3> HIDE DEF N, step
    <3> QED
      BY <1>5, <1>6, <1>7, <1>8
  <2> HIDE DEF N, step
  <2> QED
    BY <1>5, <2>1
<1>10. kept = Body(kept)
  <2> HIDE DEF Body
  <2> QED
    BY <1>9
<1>11. /\ kept[0] = << >>
       /\ \A n \in 1 .. N : kept[n] = IF seq[n] \in set THEN Append(kept[n - 1], seq[n])
                                                       ELSE kept[n - 1]
  <2>1. 0 \in 0 .. N
    BY <1>1
  <2> HIDE DEF N, kept
  <2> QED
    BY <1>6, <1>10, <2>1
<1>12. DOMAIN kept = 0 .. N /\ kept = [n \in 0 .. N |-> kept[n]]
  <2> HIDE DEF N, kept
  <2> QED
    BY <1>10
<1>13. {n \in 0 .. N : kept[n] \in Seq(T)} = 0 .. N
  <2> DEFINE holds == {n \in 0 .. N : kept[n] \in Seq(T)}
  <2>1. 0 \in holds /\ holds \in SUBSET (0 .. N)
    <3>1. 0 \in 0 .. N
      BY <1>1
    <3> HIDE DEF N, kept
    <3> QED
      BY <1>4, <1>11, <3>1
  <2>2. ASSUME NEW n \in 1 .. N, n - 1 \in holds PROVE n \in holds
    <3> HIDE DEF N, kept
    <3> QED
      BY <1>2, <1>6, <1>11, <2>2
  <2>3. holds = 0 .. N
    <3> HIDE DEF holds, N
    <3> QED
      BY <1>1, <2>1, <2>2, UpTo
  <2> QED
    BY <2>3
<1>14. kept \in [0 .. N -> Seq(T)]
  <2> HIDE DEF N, kept
  <2> QED
    BY <1>12, <1>13
<1>15. Keep(seq, set) = kept[N]
  BY DEF Keep
<1> HIDE DEF kept
<1> QED
  BY <1>11, <1>14, <1>15 DEF Keeps

LEMMA KeepElements ==
    ASSUME NEW T, NEW seq \in Seq(T), NEW set
    PROVE  /\ Keep(seq, set) \in Seq(T)
           /\ ToSet(Keep(seq, set)) = ToSet(seq) \cap set
           /\ Distinct(seq) => Distinct(Keep(seq, set))
           /\ ToSet(seq) \subseteq set => Keep(seq, set) = seq
<1> DEFINE N == Len(seq)
<1>1. N \in Nat /\ \A n \in 1 .. N : seq[n] \in T
  OBVIOUS
<1>2. PICK kept : Keeps(kept, T, seq, set)
  BY KeepIsRecursive
<1>3. /\ kept \in [0 .. N -> Seq(T)]
      /\ kept[0] = << >>
      /\ \A n \in 1 .. N :
           kept[n] = IF seq[n] \in set THEN Append(kept[n - 1], seq[n]) ELSE kept[n - 1]
      /\ Keep(seq, set) = kept[N]
  BY <1>2 DEF Keeps
<1> DEFINE Elements(n) == \A x : x \in ToSet(kept[n]) <=> x \in set /\ \E i \in 1 .. n : x = seq[i]
           Different(n) == Distinct(seq) => Distinct(kept[n])
           Whole(n) == ToSet(seq) \subseteq set =>
                          Len(kept[n]) = n /\ \A i \in 1 .. n : kept[n][i] = seq[i]
           holds == {n \in 0 .. N : Elements(n) /\ Different(n) /\ Whole(n)}
<1>4. 0 \in holds
  <2>1. 0 \in 0 .. N /\ 1 .. 0 = {}
    BY <1>1
  <2>2. Elements(0)
    <3> HIDE DEF N
    <3> QED
      BY <1>3, <2>1 DEF ToSet
  <2>3. Different(0) /\ Whole(0)
    BY <1>3, <2>1 DEF Distinct
  <2> QED
    BY <2>1, <2>2, <2>3
<1>5. ASSUME NEW n \in 1 .. N, n - 1 \in holds PROVE n \in holds
  <2> DEFINE before == kept[n - 1]
  <2>1. n \in 0 .. N /\ n - 1 \in 0 .. N /\ n \in Nat /\ n - 1 \in Nat
    BY <1>1
  <2>2. before \in Seq(T) /\ Elements(n - 1) /\ Different(n - 1) /\ Whole(n - 1)
    <3>1. before \in Seq(T)
      BY <1>3, <2>1
    <3>2. Elements(n - 1) /\ Different(n - 1) /\ Whole(n - 1)
      <4> HIDE DEF Elements, Different, Whole
      <4> QED
        BY <1>5
    <3> QED
      BY <3>1, <3>2
  <2>3. 1 .. n = (1 .. (n - 1)) \cup {n} /\ n \notin 1 .. (n - 1)
    BY <2>1
  <2>4. CASE seq[n] \in set
    <3>1. kept[n] = Append(before, seq[n])
      BY <1>3, <2>4
    <3>2. /\ DOMAIN kept[n] = 1 .. (Len(before) + 1)
          /\ Len(kept[n]) = Len(before) + 1
          /\ kept[n][Len(before) + 1] = seq[n]
          /\ \A i \in DOMAIN before : kept[n][i] = before[i]
          /\ DOMAIN before = 1 .. Len(before) /\ Len(before) \in Nat
          /\ DOMAIN kept[n] = DOMAIN before \cup {Len(before) + 1}
          /\ Len(before) + 1 \notin DOMAIN before
      <4> HIDE DEF before
      <4> QED
        BY <1>1, <2>2, <3>1
    <3>3. Elements(n)
      <4>1. ToSet(kept[n]) = ToSet(before) \cup {seq[n]}
        <5> HIDE DEF before
        <5> QED
          BY <3>2 DEF ToSet
      <4> QED
        BY <2>2, <2>3, <2>4, <4>1
    <3>4. Different(n)
      <4>1. SUFFICES ASSUME Distinct(seq) PROVE Distinct(kept[n])
        OBVIOUS
      <4>2. Distinct(before)
        BY <2>2, <4>1
      <4>3. \A i \in DOMAIN before : before[i] # seq[n]
        <5>1. seq[n] \notin ToSet(before)
          <6>1. \A i \in 1 .. (n - 1) : seq[i] # seq[n]
            BY <1>1, <2>1, <4>1 DEF Distinct
          <6> QED
            BY <2>2, <6>1
        <5> QED
          BY <5>1 DEF ToSet
      <4> HIDE DEF before
      <4> QED
        BY <3>2, <4>2, <4>3 DEF Distinct
    <3>5. Whole(n)
      <4>1. SUFFICES ASSUME ToSet(seq) \subseteq set
                     PROVE  Len(kept[n]) = n /\ \A i \in 1 .. n : kept[n][i] = seq[i]
        OBVIOUS
      <4>2. Len(before) = n - 1 /\ \A i \in 1 .. (n - 1) : before[i] = seq[i]
        BY <2>2, <4>1
      <4> HIDE DEF before
      <4>3. Len(kept[n]) = n
        BY <2>1, <3>2, <4>2
      <4>4. kept[n][n] = seq[n] /\ \A i \in 1 .. (n - 1) : kept[n][i] = seq[i]
        BY <2>1, <3>2, <4>2
      <4> QED
        BY <2>3, <4>3, <4>4
    <3> QED
      BY <2>1, <3>3, <3>4, <3>5
  <2>5. CASE seq[n] \notin set
    <3>1. kept[n] = before
      BY <1>3, <2>5
    <3>2. Elements(n)
      BY <2>2, <2>3, <2>5, <3>1
    <3>3. Different(n)
      BY <2>2, <3>1
    <3>4. Whole(n)
      <4>1. seq[n] \in ToSet(seq)
        BY DEF ToSet
      <4> QED
        BY <2>5, <4>1
    <3> QED
      BY <2>1, <3>2, <3>3, <3>4
  <2> QED
    BY <2>4, <2>5
<1>6. holds = 0 .. N
  <2>1. holds \in SUBSET (0 .. N)
    OBVIOUS
  <2> HIDE DEF holds, N
  <2> QED
    BY <1>1, <1>4, <1>5, <2>1, UpTo
<1>7. Elements(N) /\ Different(N) /\ Whole(N) /\ kept[N] \in Seq(T)
  <2>1. N \in 0 .. N
    BY <1>1
  <2> HIDE DEF N, Elements, Different, Whole
  <2> QED
    BY <1>3, <1>6, <2>1
<1>8. ToSet(kept[N]) = ToSet(seq) \cap set
  <2>1. ToSet(seq) = {seq[i] : i \in 1 .. N}
    BY DEF ToSet
  <2> HIDE DEF N
  <2> QED
    BY <1>7, <2>1
<1>9. ToSet(seq) \subseteq set => kept[N] = seq
  <2>1. SUFFICES ASSUME ToSet(seq) \subseteq set PROVE kept[N] = seq
    OBVIOUS
  <2>2. kept[N] \in Seq(T) /\ Len(kept[N]) = Len(seq) /\ \A i \in 1 .. Len(seq) : kept[N][i] = seq[i]
    BY <1>7, <2>1
  <2> HIDE DEF N
  <2> QED
    BY <2>2
<1> QED
  BY <1>3, <1>7, <1>8, <1>9

-----------------------------------------------------------------------------
(* Lists that are built element by element. *)

LEMMA AppendNext ==
    ASSUME NEW n \in Nat \ {0}, NEW values
    PROVE  /\ Append([i \in 1 .. (n - 1) |-> values[i]], values[n]) = [i \in 1 .. n |-> values[i]]
           /\ Len([i \in 1 .. (n - 1) |-> values[i]]) = n - 1
<1> DEFINE S == {values[i] : i \in 1 .. n}
           front == [i \in 1 .. (n - 1) |-> values[i]]
           all == [i \in 1 .. n |-> values[i]]
<1>1. front \in Seq(S) /\ Len(front) = n - 1 /\ DOMAIN front = 1 .. (n - 1)
  OBVIOUS
<1>2. all \in Seq(S) /\ Len(all) = n
  OBVIOUS
<1>3. values[n] \in S /\ \A i \in 1 .. (n - 1) : front[i] = all[i]
  OBVIOUS
<1>4. all[n] = values[n]
  OBVIOUS
<1> HIDE DEF front, all, S
<1>5. Append(front, values[n]) \in Seq(S) /\ Len(Append(front, values[n])) = n
  BY <1>1, <1>3
<1>6. \A i \in 1 .. n : Append(front, values[n])[i] = all[i]
  <2>1. \A i \in 1 .. n : i = n \/ i \in 1 .. (n - 1)
    OBVIOUS
  <2> QED
    BY <1>1, <1>3, <1>4, <2>1
<1>7. Append(front, values[n]) = all
  BY <1>2, <1>5, <1>6
<1> QED
  BY <1>1, <1>7 DEF front, all

\* Topics that differ are all taken.
LEMMA UniqueTopicsOfDistinct ==
    ASSUME NEW T, NEW tables \in Seq(T), UniqueBy(tables, "cdc_topic")
    PROVE  UniqueTopics(tables) = [i \in 1 .. Len(tables) |-> tables[i].cdc_topic]
<1> DEFINE N == Len(tables)
           values == [i \in DOMAIN tables |-> tables[i].cdc_topic]
           Body(g) == [n \in 0 .. N |-> IF n = 0 THEN << >>
                                        ELSE IF Contains(g[n - 1], tables[n].cdc_topic)
                                          THEN g[n - 1]
                                        ELSE Append(g[n - 1], tables[n].cdc_topic)]
           f == [n \in 0 .. N |-> [i \in 1 .. n |-> values[i]]]
           topics == CHOOSE g : g = Body(g)
<1>1. N \in Nat /\ DOMAIN tables = 1 .. N
  OBVIOUS
<1>2. \A i \in 1 .. N : values[i] = tables[i].cdc_topic
  BY <1>1
<1>3. \A i, j \in 1 .. N : values[i] = values[j] => i = j
  BY <1>1, <1>2 DEF UniqueBy, Distinct, Map
<1>4. \A n \in 1 .. N : n - 1 \in 0 .. N /\ n \in 0 .. N /\ n # 0 /\ n \in Nat \ {0}
  BY <1>1
<1>5. \A n \in 0 .. N : n = 0 \/ n \in 1 .. N
  BY <1>1
<1> HIDE DEF values, N
<1>6. f[0] = << >> /\ 0 \in 0 .. N
  BY <1>1
<1>7. ASSUME NEW n \in 1 .. N
      PROVE  /\ ~Contains(f[n - 1], tables[n].cdc_topic)
             /\ f[n] = Append(f[n - 1], tables[n].cdc_topic)
  <2>1. f[n - 1] = [i \in 1 .. (n - 1) |-> values[i]] /\ f[n] = [i \in 1 .. n |-> values[i]]
    BY <1>4
  <2>2. tables[n].cdc_topic = values[n]
    BY <1>2
  <2>3. f[n] = Append(f[n - 1], tables[n].cdc_topic) /\ Len(f[n - 1]) = n - 1
    BY <1>4, <2>1, <2>2, AppendNext
  <2>4. ~Contains(f[n - 1], tables[n].cdc_topic)
    <3>1. SUFFICES ASSUME NEW i \in 1 .. Len(f[n - 1]), f[n - 1][i] = tables[n].cdc_topic
                   PROVE  FALSE
      BY DEF Contains
    <3>2. i \in 1 .. (n - 1) /\ i \in 1 .. N /\ i # n
      BY <1>1, <2>3
    <3> QED
      BY <1>3, <2>1, <2>2, <3>1, <3>2
  <2> QED
    BY <2>3, <2>4
<1>8. DOMAIN f = 0 .. N /\ f = [n \in 0 .. N |-> f[n]]
  OBVIOUS
<1> HIDE DEF f
<1>9. f = Body(f)
  BY <1>5, <1>6, <1>7, <1>8
<1>10. topics = Body(topics)
  <2> HIDE DEF Body
  <2> QED
    BY <1>9
<1> HIDE DEF topics
<1>11. /\ topics[0] = << >>
       /\ \A n \in 1 .. N :
            topics[n] = IF Contains(topics[n - 1], tables[n].cdc_topic) THEN topics[n - 1]
                        ELSE Append(topics[n - 1], tables[n].cdc_topic)
  BY <1>4, <1>6, <1>10
<1>12. topics[N] = f[N]
  <2> DEFINE holds == {n \in 0 .. N : topics[n] = f[n]}
  <2>1. 0 \in holds /\ holds \in SUBSET (0 .. N)
    BY <1>6, <1>11
  <2>2. ASSUME NEW n \in 1 .. N, n - 1 \in holds PROVE n \in holds
    BY <1>4, <1>7, <1>11, <2>2
  <2>3. holds = 0 .. N
    <3> HIDE DEF holds
    <3> QED
      BY <1>1, <2>1, <2>2, UpTo
  <2>4. N \in holds
    BY <1>1, <2>3
  <2> QED
    BY <2>4
<1>13. UniqueTopics(tables) = topics[N]
  BY DEF UniqueTopics, topics, N
<1>14. f[N] = [i \in 1 .. N |-> tables[i].cdc_topic]
  BY <1>1, <1>2 DEF f
<1> QED
  BY <1>12, <1>13, <1>14 DEF N

\* The dict entry of a table of the contract.
Built(entry) == [name |-> Strip(entry.name), table |-> BuildTableConfig(entry.table)]

\* Tables whose names differ each get a place of their own.
LEMMA BuildTableConfigsOfDistinct ==
    ASSUME NEW T, NEW tables \in Seq(T),
           \A i, j \in DOMAIN tables : Strip(tables[i].name) = Strip(tables[j].name) => i = j
    PROVE  BuildTableConfigs(tables) = [i \in 1 .. Len(tables) |-> Built(tables[i])]
<1> DEFINE N == Len(tables)
           values == [i \in DOMAIN tables |-> Built(tables[i])]
           Put(built, entry) ==
               IF \E i \in DOMAIN built : built[i].name = entry.name
                 THEN Map(built, LAMBDA b : IF b.name = entry.name THEN entry ELSE b)
                 ELSE Append(built, entry)
           Body(g) == [n \in 0 .. N |-> IF n = 0 THEN << >>
                                        ELSE Put(g[n - 1], Built(tables[n]))]
           f == [n \in 0 .. N |-> [i \in 1 .. n |-> values[i]]]
           dict == CHOOSE g : g = Body(g)
<1>1. N \in Nat /\ DOMAIN tables = 1 .. N
  OBVIOUS
<1>2. \A i \in 1 .. N : values[i] = Built(tables[i])
  BY <1>1
<1>3. \A i, j \in 1 .. N : values[i].name = values[j].name => i = j
  BY <1>1, <1>2 DEF Built
<1>4. \A n \in 1 .. N : n - 1 \in 0 .. N /\ n \in 0 .. N /\ n # 0 /\ n \in Nat \ {0}
  BY <1>1
<1>5. \A n \in 0 .. N : n = 0 \/ n \in 1 .. N
  BY <1>1
<1> HIDE DEF values, N
<1>6. f[0] = << >> /\ 0 \in 0 .. N
  BY <1>1
<1>7. ASSUME NEW n \in 1 .. N
      PROVE  f[n] = Put(f[n - 1], Built(tables[n]))
  <2>1. f[n - 1] = [i \in 1 .. (n - 1) |-> values[i]] /\ f[n] = [i \in 1 .. n |-> values[i]]
    BY <1>4
  <2>2. Built(tables[n]) = values[n]
    BY <1>2
  <2>3. f[n] = Append(f[n - 1], Built(tables[n])) /\ DOMAIN f[n - 1] = 1 .. (n - 1)
    BY <1>4, <2>1, <2>2, AppendNext
  <2>4. ~\E i \in DOMAIN f[n - 1] : f[n - 1][i].name = Built(tables[n]).name
    <3>1. SUFFICES ASSUME NEW i \in DOMAIN f[n - 1], f[n - 1][i].name = Built(tables[n]).name
                   PROVE  FALSE
      OBVIOUS
    <3>2. i \in 1 .. (n - 1) /\ i \in 1 .. N /\ i # n
      BY <1>1, <2>3
    <3>3. f[n - 1][i] = values[i]
      BY <2>1, <3>2
    <3> QED
      BY <1>3, <2>2, <3>1, <3>2, <3>3
  <2> HIDE DEF f
  <2> QED
    BY <2>3, <2>4
<1>8. DOMAIN f = 0 .. N /\ f = [n \in 0 .. N |-> f[n]]
  OBVIOUS
<1> HIDE DEF f, Put
<1>9. f = Body(f)
  BY <1>5, <1>6, <1>7, <1>8
<1>10. dict = Body(dict)
  <2> HIDE DEF Body
  <2> QED
    BY <1>9
<1> HIDE DEF dict
<1>11. /\ dict[0] = << >>
       /\ \A n \in 1 .. N : dict[n] = Put(dict[n - 1], Built(tables[n]))
  BY <1>4, <1>6, <1>10
<1>12. dict[N] = f[N]
  <2> DEFINE holds == {n \in 0 .. N : dict[n] = f[n]}
  <2>1. 0 \in holds /\ holds \in SUBSET (0 .. N)
    BY <1>6, <1>11
  <2>2. ASSUME NEW n \in 1 .. N, n - 1 \in holds PROVE n \in holds
    BY <1>4, <1>7, <1>11, <2>2
  <2>3. holds = 0 .. N
    <3> HIDE DEF holds
    <3> QED
      BY <1>1, <2>1, <2>2, UpTo
  <2>4. N \in holds
    BY <1>1, <2>3
  <2> QED
    BY <2>4
<1>13. BuildTableConfigs(tables) = dict[N]
  BY DEF BuildTableConfigs, dict, N, Put, Built
<1>14. f[N] = [i \in 1 .. N |-> Built(tables[i])]
  BY <1>1, <1>2 DEF f
<1> QED
  BY <1>12, <1>13, <1>14 DEF N

-----------------------------------------------------------------------------
(* Lists, and lists of lists. *)

LEMMA ListIs ==
    ASSUME NEW list, IsList(list)
    PROVE  /\ Len(list) \in Nat
           /\ DOMAIN list = 1 .. Len(list)
           /\ list = [i \in 1 .. Len(list) |-> list[i]]
           /\ list = << >> <=> Len(list) = 0
BY DEF IsList

LEMMA IsListWhen ==
    ASSUME NEW list, NEW n \in Nat, list = [i \in 1 .. n |-> list[i]]
    PROVE  IsList(list) /\ Len(list) = n
<1>1. DOMAIN list = 1 .. n
  OBVIOUS
<1>2. \A i \in 1 .. n : list[i] \in ToSet(list)
  BY <1>1 DEF ToSet
<1>3. list \in [1 .. n -> ToSet(list)]
  BY <1>2
<1>4. list \in Seq(ToSet(list))
  BY <1>3
<1> QED
  BY <1>1, <1>4 DEF IsList

LEMMA SeqIsList ==
    ASSUME NEW T, NEW list \in Seq(T)
    PROVE  IsList(list) /\ ToSet(list) \subseteq T
<1>1. Len(list) \in Nat /\ list = [i \in 1 .. Len(list) |-> list[i]]
  OBVIOUS
<1>2. IsList(list)
  BY <1>1, IsListWhen
<1>3. ToSet(list) \subseteq T
  BY DEF ToSet
<1> QED
  BY <1>2, <1>3

LEMMA ListInSeq ==
    ASSUME NEW list, IsList(list), NEW T, ToSet(list) \subseteq T
    PROVE  list \in Seq(T)
BY DEF IsList

\* The concatenation of lists is a list, and that of lists of one element each is the
\* list of the elements.
LEMMA FlattenSeqList ==
    ASSUME NEW T, NEW seqs \in Seq(Seq(T))
    PROVE  IsList(FlattenSeq(seqs))
<1> DEFINE N == Len(seqs)
           Body(g) == [i \in 1 .. N |-> IF i = 1 THEN seqs[i] ELSE g[i - 1] \o seqs[i]]
           step == [p \in (1 .. N) \X Seq(T) |-> p[2] \o seqs[p[1]]]
           flatten == CHOOSE g : g = Body(g)
<1>1. N \in Nat /\ \A n \in 1 .. N : seqs[n] \in Seq(T)
  OBVIOUS
<1>2. \A x, y \in Seq(T) : x \o y \in Seq(T)
  OBVIOUS
<1>3. /\ step \in [(1 .. N) \X Seq(T) -> Seq(T)]
      /\ \A n \in 1 .. N, x \in Seq(T) : step[<<n, x>>] = x \o seqs[n]
  <2> HIDE DEF N
  <2> QED
    BY <1>1, <1>2
<1> HIDE DEF N, step
<1>4. PICK f : Iterates(f, Seq(T), << >>, N, step)
  <2>1. << >> \in Seq(T)
    OBVIOUS
  <2> QED
    BY <1>1, <1>3, <2>1, RecursiveFunction
<1>5. \A n \in 1 .. N : n - 1 \in 0 .. N /\ n \in 0 .. N /\ (n # 1 => n - 1 \in 1 .. N)
  BY <1>1
<1>6. /\ f \in [0 .. N -> Seq(T)] /\ f[0] = << >>
      /\ \A n \in 1 .. N : f[n] = f[n - 1] \o seqs[n]
  BY <1>3, <1>4, <1>5 DEF Iterates
<1> DEFINE g == [i \in 1 .. N |-> f[i]]
<1>7. g = Body(g)
  <2>1. \A i \in 1 .. N : g[i] = Body(g)[i]
    <3>1. SUFFICES ASSUME NEW i \in 1 .. N
                   PROVE  f[i] = IF i = 1 THEN seqs[i] ELSE g[i - 1] \o seqs[i]
      OBVIOUS
    <3>2. CASE i = 1
      <4>1. 1 \in 1 .. N /\ 1 - 1 = 0
        BY <3>2
      <4>2. f[1] = f[1 - 1] \o seqs[1]
        BY <1>6, <4>1
      <4>3. f[1] = << >> \o seqs[1]
        BY <1>6, <4>1, <4>2
      <4>4. \A x \in Seq(T) : << >> \o x = x
        OBVIOUS
      <4> QED
        BY <1>1, <3>2, <4>1, <4>3, <4>4
    <3>3. CASE i # 1
      BY <1>5, <1>6, <3>3
    <3> QED
      BY <3>2, <3>3
  <2> QED
    BY <2>1
<1>8. flatten = Body(flatten)
  <2> HIDE DEF Body, g
  <2> QED
    BY <1>7
<1> HIDE DEF flatten, g
<1>9. \A i \in 1 .. N : flatten[i] = IF i = 1 THEN seqs[i] ELSE flatten[i - 1] \o seqs[i]
  BY <1>8
<1>10. N \in 1 .. N => flatten[N] \in Seq(T)
  <2> DEFINE holds == {n \in 0 .. N : n \in 1 .. N => flatten[n] \in Seq(T)}
  <2>1. 0 \in holds /\ holds \in SUBSET (0 .. N)
    BY <1>1
  <2>2. ASSUME NEW n \in 1 .. N, n - 1 \in holds PROVE n \in holds
    <3>1. CASE n = 1
      BY <1>1, <1>5, <1>9, <3>1
    <3>2. CASE n # 1
      BY <1>1, <1>2, <1>5, <1>9, <2>2, <3>2
    <3> QED
      BY <3>1, <3>2
  <2>3. holds = 0 .. N
    <3> HIDE DEF holds
    <3> QED
      BY <1>1, <2>1, <2>2, UpTo
  <2>4. N \in holds
    BY <1>1, <2>3
  <2> QED
    BY <2>4
<1>11. FlattenSeq(seqs) = IF N = 0 THEN seqs ELSE flatten[N]
  BY DEF FlattenSeq, flatten, N
<1>12. CASE N = 0
  BY <1>11, <1>12, SeqIsList
<1>13. CASE N # 0
  <2>1. N \in 1 .. N
    BY <1>1, <1>13
  <2> QED
    BY <1>10, <1>11, <1>13, <2>1, SeqIsList
<1> QED
  BY <1>12, <1>13

LEMMA FlattenSingletons ==
    ASSUME NEW list, IsList(list)
    PROVE  FlattenSeq([i \in DOMAIN list |-> <<list[i]>>]) = list
<1> DEFINE N == Len(list)
           T == ToSet(list)
           seqs == [i \in DOMAIN list |-> <<list[i]>>]
           Body(g) == [i \in 1 .. N |-> IF i = 1 THEN seqs[i] ELSE g[i - 1] \o seqs[i]]
           f == [n \in 1 .. N |-> [i \in 1 .. n |-> list[i]]]
           flatten == CHOOSE g : g = Body(g)
<1>1. N \in Nat /\ DOMAIN list = 1 .. N /\ list = [i \in 1 .. N |-> list[i]]
  BY ListIs
<1>2. \A n \in 1 .. N : seqs[n] = <<list[n]>> /\ list[n] \in T
  BY <1>1 DEF ToSet
<1>3. Len(seqs) = N
  <2>1. seqs = [i \in 1 .. N |-> seqs[i]]
    BY <1>1
  <2> HIDE DEF seqs, N
  <2> QED
    BY <1>1, <2>1, IsListWhen
<1>4. \A s \in Seq(T), x \in T : s \o <<x>> = Append(s, x)
  OBVIOUS
<1>5. \A n \in 1 .. N : n \in Nat \ {0} /\ (n # 1 => n - 1 \in 1 .. N)
  BY <1>1
<1>6. \A n \in 1 .. N : [i \in 1 .. n |-> list[i]] \in Seq(T)
  <2>1. SUFFICES ASSUME NEW n \in 1 .. N PROVE [i \in 1 .. n |-> list[i]] \in Seq(T)
    OBVIOUS
  <2>2. n \in Nat /\ \A i \in 1 .. n : i \in 1 .. N
    BY <1>1
  <2>3. [i \in 1 .. n |-> list[i]] \in [1 .. n -> T]
    BY <1>2, <2>2
  <2> HIDE DEF T, N
  <2> QED
    BY <2>2, <2>3
<1>7. f = Body(f)
  <2>1. ASSUME NEW n \in 1 .. N
        PROVE  f[n] = IF n = 1 THEN seqs[n] ELSE f[n - 1] \o seqs[n]
    <3>1. f[n] = [i \in 1 .. n |-> list[i]]
      OBVIOUS
    <3>2. CASE n = 1
      <4>1. seqs[1] = <<list[1]>>
        BY <1>2, <3>2
      <4>2. 1 .. 1 = {1}
        OBVIOUS
      <4>3. [i \in 1 .. 1 |-> list[i]] = <<list[1]>>
        BY <4>2
      <4> HIDE DEF f, seqs
      <4> QED
        BY <3>1, <3>2, <4>1, <4>3
    <3>3. CASE n # 1
      <4>1. f[n - 1] = [i \in 1 .. (n - 1) |-> list[i]] /\ f[n - 1] \in Seq(T)
        BY <1>5, <1>6, <3>3
      <4>2. f[n] = Append(f[n - 1], list[n])
        <5> HIDE DEF f
        <5> QED
          BY <1>5, <3>1, <4>1, AppendNext
      <4>3. f[n - 1] \o seqs[n] = Append(f[n - 1], list[n])
        <5> HIDE DEF f, seqs, T
        <5> QED
          BY <1>2, <1>4, <4>1
      <4> QED
        BY <3>3, <4>2, <4>3
    <3> QED
      BY <3>2, <3>3
  <2>2. f = [n \in 1 .. N |-> f[n]]
    OBVIOUS
  <2> HIDE DEF f, seqs, N
  <2> QED
    BY <2>1, <2>2
<1>8. flatten = Body(flatten)
  <2> HIDE DEF Body, f
  <2> QED
    BY <1>7
<1> HIDE DEF flatten, seqs, N
<1>9. \A n \in 1 .. N : flatten[n] = IF n = 1 THEN seqs[n] ELSE flatten[n - 1] \o seqs[n]
  BY <1>8
<1>10. \A n \in 1 .. N : f[n] = IF n = 1 THEN seqs[n] ELSE f[n - 1] \o seqs[n]
  <2> HIDE DEF f
  <2> QED
    BY <1>7
<1>11. N \in 1 .. N => flatten[N] = f[N]
  <2> HIDE DEF f
  <2> DEFINE holds == {n \in 0 .. N : n \in 1 .. N => flatten[n] = f[n]}
  <2>1. 0 \in holds /\ holds \in SUBSET (0 .. N)
    BY <1>1
  <2>2. ASSUME NEW n \in 1 .. N, n - 1 \in holds PROVE n \in holds
    <3>1. n \in 0 .. N
      BY <1>1
    <3>2. CASE n = 1
      BY <1>9, <1>10, <3>1, <3>2
    <3>3. CASE n # 1
      <4>1. flatten[n - 1] = f[n - 1]
        BY <1>5, <2>2, <3>3
      <4> QED
        BY <1>9, <1>10, <3>1, <3>3, <4>1
    <3> QED
      BY <3>2, <3>3
  <2>3. holds = 0 .. N
    <3> HIDE DEF holds
    <3> QED
      BY <1>1, <2>1, <2>2, UpTo
  <2>4. N \in holds
    BY <1>1, <2>3
  <2> QED
    BY <2>4
<1>12. FlattenSeq(seqs) = IF N = 0 THEN seqs ELSE flatten[N]
  BY <1>3 DEF FlattenSeq, flatten
<1>13. CASE N = 0
  <2>1. seqs = list
    BY <1>1, <1>13 DEF seqs
  <2> QED
    BY <1>12, <1>13, <2>1 DEF seqs
<1>14. CASE N # 0
  <2>1. N \in 1 .. N
    BY <1>1, <1>14
  <2>2. f[N] = list
    BY <1>1, <2>1
  <2> HIDE DEF f
  <2> QED
    BY <1>11, <1>12, <1>14, <2>1, <2>2 DEF seqs
<1> QED
  BY <1>13, <1>14

-----------------------------------------------------------------------------
(* Stored configurations. *)

\* str.strip() leaves nothing to strip; str.split() gives a list, of the text itself
\* where it finds nothing to split at.
TextOperations ==
    \A text : /\ Strip(Strip(text)) = Strip(text)
              /\ IsList(Parts(text)) /\ IsList(CommaParts(text))
              /\ ~Comma(text) => CommaParts(text) = <<text>>

ListsOf(r) == IsList(r.tables) /\ \A t \in ToSet(r.tables) : IsList(t.primary_key_fields)

\* What the database holds of a configuration: normalised, so that normalising it again
\* changes nothing, and valid.
GoodConfig(c) ==
    /\ c = SyncConfig(c)
    /\ ListsOf(c)
    /\ ValidSyncConfig(c)
    /\ ConstraintsHold(c)

GoodTable(t) ==
    /\ t = ConfiguredTable(t)
    /\ IsList(t.primary_key_fields)
    /\ ValidConfiguredTable(t)

LEMMA DestinationColumnNormal ==
    ASSUME TextOperations, NEW c
    PROVE  DestinationColumn(DestinationColumn(c)) = DestinationColumn(c)
BY DEF TextOperations, DestinationColumn

LEMMA ConfiguredTableNormal ==
    ASSUME TextOperations, NEW t
    PROVE  ConfiguredTable(ConfiguredTable(t)) = ConfiguredTable(t)
<1> DEFINE s == ConfiguredTable(t)
<1>1. /\ Strip(s.logical_name) = s.logical_name
      /\ Strip(s.source_schema) = s.source_schema
      /\ Strip(s.source_table) = s.source_table
      /\ Strip(s.cdc_topic) = s.cdc_topic
      /\ Strip(s.destination_table) = s.destination_table
  BY DEF TextOperations, ConfiguredTable
<1>2. Map(s.primary_key_fields, Strip) = s.primary_key_fields
  BY DEF TextOperations, ConfiguredTable, Map
<1>3. Map(s.destination_columns, DestinationColumn) = s.destination_columns
  BY DestinationColumnNormal DEF ConfiguredTable, Map
<1>4. s = [logical_name |-> s.logical_name, source_schema |-> s.source_schema,
           source_table |-> s.source_table, cdc_topic |-> s.cdc_topic,
           destination_table |-> s.destination_table,
           primary_key_fields |-> s.primary_key_fields,
           destination_columns |-> s.destination_columns, enabled |-> s.enabled]
  BY DEF ConfiguredTable
<1> HIDE DEF s
<1>5. ConfiguredTable(s) = s
  BY <1>1, <1>2, <1>3, <1>4 DEF ConfiguredTable
<1> QED
  BY <1>5 DEF s

LEMMA SyncConfigNormal ==
    ASSUME TextOperations, NEW r
    PROVE  SyncConfig(SyncConfig(r)) = SyncConfig(r)
<1> DEFINE c == SyncConfig(r)
<1>1. Map(c.tables, ConfiguredTable) = c.tables
  BY ConfiguredTableNormal DEF SyncConfig, Map
<1>2. c = [sync_mode |-> c.sync_mode, tables |-> c.tables, enabled |-> c.enabled]
  BY DEF SyncConfig
<1> HIDE DEF c
<1>3. SyncConfig(c) = c
  BY <1>1, <1>2 DEF SyncConfig
<1> QED
  BY <1>3 DEF c

LEMMA SyncConfigLists ==
    ASSUME NEW r, ListsOf(r)
    PROVE  ListsOf(SyncConfig(r))
<1> DEFINE tables == SyncConfig(r).tables
<1>1. tables = [i \in DOMAIN r.tables |-> ConfiguredTable(r.tables[i])]
  BY DEF SyncConfig, Map
<1>2. Len(r.tables) \in Nat /\ DOMAIN r.tables = 1 .. Len(r.tables)
  BY ListIs DEF ListsOf
<1> HIDE DEF tables
<1>3. IsList(tables)
  <2>1. tables = [i \in 1 .. Len(r.tables) |-> tables[i]]
    BY <1>1, <1>2
  <2> QED
    BY <1>2, <2>1, IsListWhen
<1>4. ASSUME NEW t \in ToSet(tables) PROVE IsList(t.primary_key_fields)
  <2>1. PICK i \in DOMAIN r.tables : t = ConfiguredTable(r.tables[i])
    BY <1>1 DEF ToSet
  <2> DEFINE pk == r.tables[i].primary_key_fields
             fields == t.primary_key_fields
  <2>2. IsList(pk)
    BY <2>1 DEF ListsOf, ToSet
  <2>3. fields = [k \in DOMAIN pk |-> Strip(pk[k])]
    BY <2>1 DEF ConfiguredTable, Map
  <2> HIDE DEF pk, fields
  <2>4. Len(pk) \in Nat /\ DOMAIN pk = 1 .. Len(pk)
    BY <2>2, ListIs
  <2>5. fields = [k \in 1 .. Len(pk) |-> fields[k]]
    BY <2>3, <2>4
  <2>6. IsList(fields)
    BY <2>4, <2>5, IsListWhen
  <2> QED
    BY <2>6 DEF fields
<1> QED
  BY <1>3, <1>4 DEF ListsOf, tables

\* A request that is answered 200 leaves a good configuration.
LEMMA StoredIsGood ==
    ASSUME TextOperations, NEW r, ListsOf(r), Stored(r).status = 200
    PROVE  GoodConfig(Stored(r).config)
<1>1. /\ SyncConfigRequest(r) /\ ValidSyncConfig(SyncConfig(r)) /\ ConstraintsHold(SyncConfig(r))
      /\ Stored(r).config = SyncConfig(r)
  BY DEF Stored, Invalid, Conflict
<1> QED
  BY <1>1, SyncConfigNormal, SyncConfigLists DEF GoodConfig

LEMMA TablesOfGood ==
    ASSUME NEW c, GoodConfig(c)
    PROVE  \A t \in ToSet(c.tables) : GoodTable(t)
<1>1. c.tables = [i \in DOMAIN c.tables |-> ConfiguredTable(c.tables[i])]
  BY DEF GoodConfig, SyncConfig, Map
<1>2. ForAll(c.tables, ValidConfiguredTable)
  BY DEF GoodConfig, ValidSyncConfig
<1> QED
  BY <1>1, <1>2 DEF GoodConfig, ListsOf, ForAll, ToSet, GoodTable

LEMMA EnabledOfGood ==
    ASSUME NEW c, GoodConfig(c)
    PROVE  /\ IsList(EnabledTables(c))
           /\ ToSet(EnabledTables(c)) = {t \in ToSet(c.tables) : t.enabled}
           /\ UniqueBy(EnabledTables(c), "logical_name")
           /\ UniqueBy(EnabledTables(c), "cdc_topic")
           /\ UniqueBy(EnabledTables(c), "destination_table")
<1> DEFINE T == ToSet(c.tables)
           set == {t \in T : t.enabled}
           kept == Keep(c.tables, set)
<1>1. c.tables \in Seq(T)
  BY DEF GoodConfig, ListsOf, IsList
<1>2. /\ kept \in Seq(T) /\ ToSet(kept) = T \cap set
      /\ Distinct(c.tables) => Distinct(kept)
  <2> HIDE DEF set
  <2> QED
    BY <1>1, KeepElements
<1>3. IsList(kept) /\ ToSet(kept) = set
  <2> HIDE DEF kept
  <2> QED
    BY <1>2, SeqIsList
<1>4. \A field \in {"logical_name", "cdc_topic", "destination_table"} :
         \A i, j \in DOMAIN c.tables : c.tables[i][field] = c.tables[j][field] => i = j
  BY DEF GoodConfig, ValidSyncConfig, UniqueBy, Distinct, Map
<1>5. Distinct(c.tables)
  BY <1>4 DEF Distinct
<1>6. \A i \in DOMAIN kept : \E n \in DOMAIN c.tables : kept[i] = c.tables[n]
  <2>1. \A i \in DOMAIN kept : kept[i] \in T
    <3> HIDE DEF kept, T
    <3> QED
      BY <1>2
  <2> QED
    BY <2>1 DEF ToSet
<1> HIDE DEF kept
<1>7. \A field \in {"logical_name", "cdc_topic", "destination_table"} :
         \A i, j \in DOMAIN kept : kept[i][field] = kept[j][field] => i = j
  <2>1. SUFFICES ASSUME NEW field \in {"logical_name", "cdc_topic", "destination_table"},
                        NEW i \in DOMAIN kept, NEW j \in DOMAIN kept,
                        kept[i][field] = kept[j][field]
                 PROVE  i = j
    OBVIOUS
  <2>2. PICK m \in DOMAIN c.tables : kept[i] = c.tables[m]
    BY <1>6
  <2>3. PICK n \in DOMAIN c.tables : kept[j] = c.tables[n]
    BY <1>6
  <2>4. m = n
    BY <1>4, <2>1, <2>2, <2>3
  <2>5. kept[i] = kept[j]
    BY <2>2, <2>3, <2>4
  <2> QED
    BY <1>2, <1>5, <2>5 DEF Distinct
<1>8. \A field \in {"logical_name", "cdc_topic", "destination_table"} : UniqueBy(kept, field)
  BY <1>7 DEF UniqueBy, Distinct, Map
<1>9. EnabledTables(c) = kept
  BY DEF EnabledTables, kept
<1> QED
  BY <1>3, <1>8, <1>9

-----------------------------------------------------------------------------
(* What is published of a good configuration, and what a worker makes of it. *)

\* The worker's table of a configured one.
WorkerTable(t) ==
    [enabled |-> TRUE,
     source |-> [adapter |-> "debezium_postgres", schema |-> t.source_schema,
                 table |-> t.source_table, topic |-> t.cdc_topic],
     primary_key_fields |-> t.primary_key_fields,
     sync |-> [mode |-> "realtime"],
     destination |->
       [table |-> t.destination_table,
        columns |-> Map(t.destination_columns, LAMBDA column :
                          [name |-> column.name, type |-> column.destination_type,
                           nullable |-> column.nullable])]]

WorkerTables(c) ==
    Map(EnabledTables(c), LAMBDA t : [name |-> t.logical_name, table |-> WorkerTable(t)])

LEMMA WorkerTableIs ==
    ASSUME NEW t
    PROVE  /\ WorkerTable(t).enabled
           /\ WorkerTable(t).source.adapter = "debezium_postgres"
           /\ WorkerTable(t).source.schema = t.source_schema
           /\ WorkerTable(t).source.table = t.source_table
           /\ WorkerTable(t).source.topic = t.cdc_topic
           /\ WorkerTable(t).primary_key_fields = t.primary_key_fields
           /\ WorkerTable(t).sync.mode = "realtime"
           /\ WorkerTable(t).destination.table = t.destination_table
BY DEF WorkerTable

\* A table of the contract.
Sent(c, t) == RuntimeTableResponse(BuildTable("debezium_postgres", c, t))

LEMMA SentColumns ==
    ASSUME NEW c, NEW t, GoodTable(t)
    PROVE  LET columns == Sent(c, t).destination.columns
               built == BuildDestinationConfig(Sent(c, t).destination).columns
           IN  /\ ForAll(columns, ColumnAccepted)
               /\ built = WorkerTable(t).destination.columns
               /\ DOMAIN built = DOMAIN t.destination_columns
               /\ \A i \in DOMAIN built : /\ built[i].name = t.destination_columns[i].name
                                          /\ built[i].nullable = t.destination_columns[i].nullable
<1> DEFINE columns == Sent(c, t).destination.columns
           built == BuildDestinationConfig(Sent(c, t).destination).columns
           stored == t.destination_columns
<1>1. columns = [i \in DOMAIN stored |->
                   [name |-> stored[i].name, type |-> stored[i].destination_type,
                    nullable |-> stored[i].nullable]]
  BY DEF Sent, BuildTable, RuntimeTableResponse, RuntimeTableDestinationResponse, Map
<1>2. built = [i \in DOMAIN columns |->
                 [name |-> Strip(columns[i].name), type |-> Strip(columns[i].type),
                  nullable |-> columns[i].nullable]]
  BY DEF BuildDestinationConfig, BuildColumn, Map
<1>3. \A i \in DOMAIN stored : /\ Strip(stored[i].name) = stored[i].name
                               /\ Strip(stored[i].destination_type) = stored[i].destination_type
                               /\ stored[i].name # "" /\ stored[i].destination_type # ""
  <2>1. stored = Map(stored, DestinationColumn)
    BY DEF GoodTable, ConfiguredTable
  <2>2. \A i \in DOMAIN stored : stored[i] = DestinationColumn(stored[i])
    BY <2>1 DEF Map
  <2>3. ForAll(stored, ValidDestinationColumn)
    BY DEF GoodTable, ValidConfiguredTable
  <2> HIDE DEF stored
  <2>4. \A i \in DOMAIN stored : ValidDestinationColumn(stored[i])
    BY <2>3 DEF ForAll
  <2>5. \A y : /\ DestinationColumn(y).name = Strip(y.name)
                /\ DestinationColumn(y).destination_type = Strip(y.destination_type)
    BY DEF DestinationColumn
  <2> SUFFICES ASSUME NEW i \in DOMAIN stored
               PROVE  /\ Strip(stored[i].name) = stored[i].name
                      /\ Strip(stored[i].destination_type) = stored[i].destination_type
                      /\ stored[i].name # "" /\ stored[i].destination_type # ""
    OBVIOUS
  <2>6. stored[i] = DestinationColumn(stored[i])
    BY <2>2
  <2>7. /\ stored[i].name = DestinationColumn(stored[i]).name
        /\ stored[i].destination_type = DestinationColumn(stored[i]).destination_type
    BY <2>6
  <2>8. stored[i].name # "" /\ stored[i].destination_type # ""
    BY <2>4 DEF ValidDestinationColumn, NonEmpty
  <2> QED
    BY <2>5, <2>7, <2>8
<1>4. ForAll(columns, ColumnAccepted)
  <2>1. ASSUME NEW i \in DOMAIN columns PROVE ColumnAccepted(columns[i])
    <3> HIDE DEF columns, stored
    <3>1. i \in DOMAIN stored
      BY <1>1
    <3>2. columns[i] = [name |-> stored[i].name, type |-> stored[i].destination_type,
                        nullable |-> stored[i].nullable]
      BY <1>1, <3>1
    <3>3. DOMAIN columns[i] = {"name", "type", "nullable"}
      BY <3>2
    <3>4. columns[i].name = stored[i].name /\ columns[i].type = stored[i].destination_type
      BY <3>2
    <3>5. Strip(columns[i].name) # "" /\ Strip(columns[i].type) # ""
      BY <1>3, <3>1, <3>4
    <3> QED
      BY <3>3, <3>5 DEF ColumnAccepted, HasTexts, Has, NotBlank
  <2> HIDE DEF columns
  <2> QED
    BY <2>1 DEF ForAll
<1>5. built = [i \in DOMAIN stored |->
                 [name |-> stored[i].name, type |-> stored[i].destination_type,
                  nullable |-> stored[i].nullable]]
  <2> HIDE DEF columns, built, stored
  <2> QED
    BY <1>1, <1>2, <1>3
<1>6. built = WorkerTable(t).destination.columns
  <2> HIDE DEF columns, built
  <2> QED
    BY <1>5 DEF WorkerTable, Map
<1> HIDE DEF columns, built
<1> QED
  BY <1>4, <1>5, <1>6 DEF columns, built

LEMMA TextsOfGoodTable ==
    ASSUME NEW t, GoodTable(t)
    PROVE  /\ \A field \in TableTexts : Strip(t[field]) = t[field] /\ t[field] # ""
           /\ Map(t.primary_key_fields, Strip) = t.primary_key_fields
           /\ ForAll(t.primary_key_fields, NotBlank)
           /\ t.primary_key_fields # << >> /\ t.destination_columns # << >>
<1>1. \A s : /\ ConfiguredTable(s).logical_name = Strip(s.logical_name)
             /\ ConfiguredTable(s).source_schema = Strip(s.source_schema)
             /\ ConfiguredTable(s).source_table = Strip(s.source_table)
             /\ ConfiguredTable(s).cdc_topic = Strip(s.cdc_topic)
             /\ ConfiguredTable(s).destination_table = Strip(s.destination_table)
             /\ ConfiguredTable(s).primary_key_fields = Map(s.primary_key_fields, Strip)
  BY DEF ConfiguredTable
<1>2. t = ConfiguredTable(t) /\ ValidConfiguredTable(t)
  BY DEF GoodTable
<1>3. /\ Strip(t.logical_name) = t.logical_name /\ Strip(t.source_schema) = t.source_schema
      /\ Strip(t.source_table) = t.source_table /\ Strip(t.cdc_topic) = t.cdc_topic
      /\ Strip(t.destination_table) = t.destination_table
      /\ Map(t.primary_key_fields, Strip) = t.primary_key_fields
  <2>1. t = ConfiguredTable(t)
    BY <1>2
  <2> QED
    BY <1>1, <2>1
<1>4. \A field \in TableTexts : t[field] # ""
  BY <1>2 DEF ValidConfiguredTable, NonEmpty
<1>5. ForAll(t.primary_key_fields, NotBlank)
  <2> DEFINE pk == t.primary_key_fields
  <2>1. \A i \in DOMAIN pk : pk[i] # ""
    BY <1>2 DEF ValidConfiguredTable, ForAll, NonEmpty
  <2>2. \A i \in DOMAIN pk : Map(pk, Strip)[i] = Strip(pk[i])
    BY DEF Map
  <2>3. \A i \in DOMAIN pk : Strip(pk[i]) = pk[i]
    BY <1>3, <2>2
  <2> QED
    BY <2>1, <2>3 DEF ForAll, NotBlank
<1>6. \A field \in TableTexts : Strip(t[field]) = t[field]
  BY <1>3 DEF TableTexts
<1>7. t.primary_key_fields # << >> /\ t.destination_columns # << >>
  BY <1>2 DEF ValidConfiguredTable
<1> QED
  BY <1>3, <1>4, <1>5, <1>6, <1>7

LEMMA SentAccepted ==
    ASSUME NEW c, c.sync_mode = "realtime", NEW t, GoodTable(t)
    PROVE  TableAccepted(Sent(c, t)) /\ BuildTableConfig(Sent(c, t)) = WorkerTable(t)
<1> DEFINE sent == Sent(c, t)
           built == BuildDestinationConfig(sent.destination)
<1>1. /\ sent.enabled = TRUE
      /\ sent.source = [adapter |-> "debezium_postgres", schema |-> t.source_schema,
                        table |-> t.source_table, topic |-> t.cdc_topic]
      /\ sent.pk = t.primary_key_fields
      /\ sent.sync = [mode |-> "realtime"]
      /\ sent.destination.table = t.destination_table
      /\ DOMAIN sent = {"enabled", "source", "pk", "sync", "destination"}
      /\ DOMAIN sent.destination = {"table", "columns"}
  BY DEF Sent, RuntimeTableResponse, RuntimeTableSourceResponse,
         RuntimeTableDestinationResponse, BuildTable
<1>2. /\ Strip(t.source_schema) = t.source_schema /\ t.source_schema # ""
      /\ Strip(t.source_table) = t.source_table /\ t.source_table # ""
      /\ Strip(t.cdc_topic) = t.cdc_topic /\ t.cdc_topic # ""
      /\ Strip(t.destination_table) = t.destination_table /\ t.destination_table # ""
  BY TextsOfGoodTable DEF TableTexts
<1>3. Strip("debezium_postgres") = "debezium_postgres" /\ Strip("realtime") = "realtime"
  BY KeywordsAssumption
<1>4. /\ ForAll(sent.destination.columns, ColumnAccepted)
      /\ built.columns = WorkerTable(t).destination.columns
      /\ DOMAIN built.columns = DOMAIN t.destination_columns
      /\ \A i \in DOMAIN built.columns :
           /\ built.columns[i].name = t.destination_columns[i].name
           /\ built.columns[i].nullable = t.destination_columns[i].nullable
  BY SentColumns
<1>5. built = [table |-> t.destination_table, columns |-> WorkerTable(t).destination.columns]
  <2>1. built = [table |-> Strip(sent.destination.table), columns |-> built.columns]
    BY DEF BuildDestinationConfig
  <2> HIDE DEF built, sent
  <2> QED
    BY <1>1, <1>2, <1>4, <2>1
<1>6. Map(sent.pk, Strip) = t.primary_key_fields /\ ForAll(sent.pk, NotBlank)
  BY <1>1, TextsOfGoodTable
<1> HIDE DEF sent, built
<1>7. TableDestinationValid(t.primary_key_fields, built)
  <2> DEFINE columns == built.columns
             stored == t.destination_columns
             pk == t.primary_key_fields
  <2>1. ValidConfiguredTable(t)
    BY DEF GoodTable
  <2>2. /\ pk # << >> /\ stored # << >>
        /\ \A i \in DOMAIN stored : stored[i].name \notin {"version", "deleted"}
        /\ \A i, j \in DOMAIN stored : stored[i].name = stored[j].name => i = j
        /\ \A field \in ToSet(pk) :
             \E i \in DOMAIN stored : stored[i].name = field /\ ~stored[i].nullable
    <3>1. pk # << >> /\ stored # << >>
      BY <2>1 DEF ValidConfiguredTable
    <3>2. \A i \in DOMAIN stored : stored[i].name \notin {"version", "deleted"}
      BY <2>1 DEF ValidConfiguredTable, ForAll, ValidDestinationColumn, TechnicalColumns
    <3>3. \A i, j \in DOMAIN stored : stored[i].name = stored[j].name => i = j
      BY <2>1 DEF ValidConfiguredTable, Distinct, Map
    <3>4. \A field \in ToSet(pk) :
             \E i \in DOMAIN stored : stored[i].name = field /\ ~stored[i].nullable
      <4>1. \A field \in ToSet(pk) : \E c_ \in ToSet(stored) : c_.name = field /\ ~c_.nullable
        BY <2>1 DEF ValidConfiguredTable
      <4> QED
        BY <4>1 DEF ToSet
    <3> QED
      BY <3>1, <3>2, <3>3, <3>4
  <2> HIDE DEF stored, pk
  <2>3. columns # << >>
    <3>1. DOMAIN stored # {}
      <4>1. stored = Map(stored, DestinationColumn)
        BY DEF GoodTable, ConfiguredTable, stored
      <4>2. stored = [i \in DOMAIN stored |-> DestinationColumn(stored[i])]
        BY <4>1 DEF Map
      <4>3. ASSUME DOMAIN stored = {} PROVE stored = << >>
        BY <4>2, <4>3
      <4> QED
        BY <2>2, <4>3
    <3> QED
      BY <1>4, <3>1 DEF stored
  <2>4. /\ DOMAIN columns = DOMAIN stored
        /\ \A i \in DOMAIN stored : /\ columns[i].name = stored[i].name
                                    /\ columns[i].nullable = stored[i].nullable
    BY <1>4 DEF stored
  <2> HIDE DEF columns
  <2>5. ForAll(columns, LAMBDA c_ : c_.name \notin {"version", "deleted"})
    BY <2>2, <2>4 DEF ForAll
  <2>6. Distinct(Map(columns, LAMBDA c_ : c_.name))
    BY <2>2, <2>4 DEF Distinct, Map
  <2>7. \A field \in ToSet(pk) : \E c_ \in ToSet(columns) : c_.name = field /\ ~c_.nullable
    <3>1. SUFFICES ASSUME NEW field \in ToSet(pk)
                   PROVE  \E c_ \in ToSet(columns) : c_.name = field /\ ~c_.nullable
      OBVIOUS
    <3>2. PICK i \in DOMAIN stored : stored[i].name = field /\ ~stored[i].nullable
      BY <2>2
    <3>3. columns[i] \in ToSet(columns)
      BY <2>4 DEF ToSet
    <3>4. columns[i].name = field /\ ~columns[i].nullable
      BY <2>4, <3>2
    <3> QED
      BY <3>3, <3>4
  <2> QED
    BY <2>2, <2>3, <2>5, <2>6, <2>7 DEF TableDestinationValid, columns, pk
<1>8. TableAccepted(sent)
  <2>1. HasTexts(sent.source, {"adapter", "schema", "table", "topic"})
    <3>1. /\ DOMAIN sent.source = {"adapter", "schema", "table", "topic"}
          /\ sent.source.adapter = "debezium_postgres" /\ sent.source.schema = t.source_schema
          /\ sent.source.table = t.source_table /\ sent.source.topic = t.cdc_topic
      BY <1>1
    <3> QED
      BY <1>2, <1>3, <3>1 DEF HasTexts, Has, NotBlank
  <2>2. HasTexts(sent.sync, {"mode"})
    <3>1. DOMAIN sent.sync = {"mode"} /\ sent.sync.mode = "realtime"
      BY <1>1
    <3> QED
      BY <1>3, <3>1 DEF HasTexts, Has, NotBlank
  <2>3. HasTexts(sent.destination, {"table"}) /\ Has(sent.destination, {"columns"})
    BY <1>1, <1>2 DEF HasTexts, Has, NotBlank
  <2> QED
    BY <1>1, <1>4, <1>6, <1>7, <2>1, <2>2, <2>3 DEF TableAccepted, Has, built
<1>9. BuildTableConfig(sent) = WorkerTable(t)
  <2>1. WorkerTable(t).destination = built
    BY <1>5 DEF WorkerTable
  <2>2. /\ sent.source.adapter = "debezium_postgres" /\ sent.source.schema = t.source_schema
        /\ sent.source.table = t.source_table /\ sent.source.topic = t.cdc_topic
        /\ sent.sync.mode = "realtime"
    BY <1>1
  <2>3. BuildTableConfig(sent)
          = [enabled |-> sent.enabled,
             source |-> [adapter |-> Strip(sent.source.adapter),
                         schema |-> Strip(sent.source.schema),
                         table |-> Strip(sent.source.table),
                         topic |-> Strip(sent.source.topic)],
             primary_key_fields |-> Map(sent.pk, Strip),
             sync |-> [mode |-> Strip(sent.sync.mode)],
             destination |-> built]
    BY DEF BuildTableConfig, built
  <2>4. WorkerTable(t)
          = [enabled |-> TRUE,
             source |-> [adapter |-> "debezium_postgres", schema |-> t.source_schema,
                         table |-> t.source_table, topic |-> t.cdc_topic],
             primary_key_fields |-> t.primary_key_fields,
             sync |-> [mode |-> "realtime"],
             destination |-> WorkerTable(t).destination]
    BY DEF WorkerTable
  <2> QED
    BY <1>1, <1>2, <1>3, <1>6, <2>1, <2>2, <2>3, <2>4
<1> QED
  BY <1>8, <1>9 DEF sent

ClientId(settings, w) == Strip(settings.client_id_prefix) \o "-" \o w

\* The connections and settings that create_source_connection, create_destination and
\* the API's start have accepted.
GoodConnections(c) ==
    /\ ValidSourceConnection(c.source)
    /\ c.destination = Destination(c.destination) /\ ValidDestination(c.destination)
    /\ ValidKafkaSettings(c.settings)
    /\ \A w \in Workers : NotBlank(ClientId(c.settings, w))

Answer(n, w, c) == GetConfig(n.settings, Worker(w), c, n.source, n.destination)

\* The fields of what is published.
LEMMA ContractOf ==
    ASSUME NEW n, GoodConnections(n), NEW w, NEW c, Answer(n, w, c).status = 200
    PROVE  LET contract == Answer(n, w, c).contract
               tables == EnabledTables(c)
           IN  /\ c.enabled /\ tables # << >>
               /\ DOMAIN contract = {"contract_version", "worker", "kafka", "destination", "tables"}
               /\ contract.contract_version = 1
               /\ contract.worker = [worker_id |-> w]
               /\ contract.kafka = BuildKafka(n.settings, Worker(w), tables)
               /\ contract.destination = BuildDestination(n.destination)
               /\ contract.tables = [i \in DOMAIN tables |-> [name |-> tables[i].logical_name,
                                                             table |-> Sent(c, tables[i])]]
<1> DEFINE tables == EnabledTables(c)
           dto == [contract_version |-> ContractVersion,
                   worker |-> [worker_id |-> Worker(w).worker_id],
                   kafka |-> BuildKafka(n.settings, Worker(w), tables),
                   destination |-> BuildDestination(n.destination),
                   tables |-> BuildTables(n.source, c, tables)]
<1>1. /\ c.enabled /\ tables # << >>
      /\ Answer(n, w, c).contract = WorkerRuntimeConfigResponse(dto)
  BY DEF Answer, GetConfig, Invalid, tables
<1>2. SourceRuntimeAdapter(n.source) = "debezium_postgres"
  <2>1. n.source.source_type = "postgresql"
    <3>1. ValidSourceConnection(n.source)
      BY DEF GoodConnections
    <3> QED
      BY <3>1 DEF ValidSourceConnection
  <2> QED
    BY <2>1 DEF SourceRuntimeAdapter
<1>3. dto.tables = [i \in DOMAIN tables |->
                      [name |-> tables[i].logical_name,
                       table |-> BuildTable("debezium_postgres", c, tables[i])]]
  <2> HIDE DEF tables
  <2> QED
    BY <1>2 DEF BuildTables, Map
<1>4. Map(dto.tables, LAMBDA entry : [name |-> entry.name,
                                       table |-> RuntimeTableResponse(entry.table)])
        = [i \in DOMAIN tables |-> [name |-> tables[i].logical_name,
                                    table |-> Sent(c, tables[i])]]
  <2> DEFINE all == dto.tables
  <2>1. all = [i \in DOMAIN tables |->
                      [name |-> tables[i].logical_name,
                       table |-> BuildTable("debezium_postgres", c, tables[i])]]
    BY <1>3
  <2> HIDE DEF all, tables
  <2>2. Map(all, LAMBDA entry : [name |-> entry.name,
                                 table |-> RuntimeTableResponse(entry.table)])
        = [i \in DOMAIN tables |-> [name |-> tables[i].logical_name,
                                    table |-> Sent(c, tables[i])]]
    BY <2>1 DEF Map, Sent
  <2> QED
    BY <2>2 DEF all
<1>5. RuntimeKafkaResponse(dto.kafka) = dto.kafka
  BY DEF RuntimeKafkaResponse, BuildKafka
<1>6. RuntimeDestinationResponse(dto.destination) = dto.destination
  BY DEF RuntimeDestinationResponse, BuildDestination
<1>7. WorkerRuntimeConfigResponse(dto)
        = [contract_version |-> 1, worker |-> [worker_id |-> w],
           kafka |-> BuildKafka(n.settings, Worker(w), tables),
           destination |-> BuildDestination(n.destination),
           tables |-> [i \in DOMAIN tables |-> [name |-> tables[i].logical_name,
                                                table |-> Sent(c, tables[i])]]]
  <2>1. /\ dto.contract_version = 1 /\ dto.worker.worker_id = w
        /\ dto.kafka = BuildKafka(n.settings, Worker(w), tables)
        /\ dto.destination = BuildDestination(n.destination)
    BY DEF ContractVersion, Worker
  <2> HIDE DEF dto, tables
  <2> QED
    BY <1>4, <1>5, <1>6, <2>1 DEF WorkerRuntimeConfigResponse
<1> HIDE DEF dto, tables
<1>8. QED
  BY <1>1, <1>7 DEF tables

LEMMA KafkaFits ==
    ASSUME TextOperations, NEW n, GoodConnections(n), NEW w \in Workers, NEW tables
    PROVE  LET kafka == BuildKafka(n.settings, Worker(w), tables)
           IN  KafkaAccepted(kafka) /\ kafka.topics = UniqueTopics(tables)
<1> DEFINE s == n.settings
           kafka == BuildKafka(s, Worker(w), tables)
<1>1. kafka = [bootstrap_servers |-> Strip(s.bootstrap_servers),
               client_id |-> ClientId(s, w), group_id |-> EffectiveGroup(Worker(w)),
               auto_offset_reset |-> s.auto_offset_reset,
               poll_timeout_ms |-> s.poll_timeout_ms, topics |-> UniqueTopics(tables)]
  BY DEF BuildKafka, ClientId, Worker
<1>2. NotBlank(EffectiveGroup(Worker(w)))
  BY WorkersAssumption DEF EffectiveGroup, Worker, None
<1>3. NotBlank(ClientId(s, w))
  BY DEF GoodConnections
<1>4. ValidKafkaSettings(s)
  BY DEF GoodConnections
<1> HIDE DEF s
<1>5. /\ Strip(Strip(s.bootstrap_servers)) # ""
      /\ s.auto_offset_reset \in {"earliest", "latest"}
      /\ s.poll_timeout_ms > 0
  <2>1. Strip(s.bootstrap_servers) # "" /\ s.auto_offset_reset \in {"earliest", "latest"}
        /\ s.poll_timeout_ms > 0
    BY <1>4 DEF ValidKafkaSettings, NotBlank
  <2>2. Strip(Strip(s.bootstrap_servers)) = Strip(s.bootstrap_servers)
    BY DEF TextOperations
  <2> QED
    BY <2>1, <2>2
<1>6. Strip(s.auto_offset_reset) = s.auto_offset_reset /\ s.auto_offset_reset # ""
  BY <1>5, KeywordsAssumption
<1> HIDE DEF kafka
<1>7. HasTexts(kafka, {"bootstrap_servers", "client_id", "group_id", "auto_offset_reset"})
  <2>1. DOMAIN kafka = {"bootstrap_servers", "client_id", "group_id", "auto_offset_reset",
                        "poll_timeout_ms", "topics"}
    BY <1>1
  <2>2. /\ NotBlank(kafka.bootstrap_servers) /\ NotBlank(kafka.auto_offset_reset)
    BY <1>1, <1>5, <1>6 DEF NotBlank
  <2>3. NotBlank(kafka.client_id) /\ NotBlank(kafka.group_id)
    BY <1>1, <1>2, <1>3
  <2> QED
    BY <2>1, <2>2, <2>3 DEF HasTexts, Has
<1>8. KafkaAccepted(kafka)
  <2>1. Has(kafka, {"poll_timeout_ms", "topics"})
    BY <1>1 DEF Has
  <2>2. kafka.auto_offset_reset = s.auto_offset_reset /\ kafka.poll_timeout_ms = s.poll_timeout_ms
    BY <1>1
  <2> QED
    BY <1>5, <1>6, <1>7, <2>1, <2>2 DEF KafkaAccepted
<1> QED
  BY <1>1, <1>8 DEF kafka, s

LEMMA DestinationFits ==
    ASSUME TextOperations, NEW n, GoodConnections(n)
    PROVE  DestinationAccepted(BuildDestination(n.destination))
<1> DEFINE d == n.destination
           sent == BuildDestination(d)
<1>1. d = Destination(d) /\ ValidDestination(d)
  BY DEF GoodConnections
<1> HIDE DEF d
<1>2. \A x : /\ Destination(x).host = Strip(x.host)
             /\ Destination(x).database_name = Strip(x.database_name)
             /\ Destination(x).credentials
                  = [user |-> Strip(x.credentials.user), password |-> Strip(x.credentials.password)]
  BY DEF Destination, SecretReference
<1>3. /\ d.host = Strip(d.host) /\ d.database_name = Strip(d.database_name)
      /\ d.credentials = [user |-> Strip(d.credentials.user),
                          password |-> Strip(d.credentials.password)]
  BY <1>1, <1>2
<1>4. Strip(d.credentials.user) = d.credentials.user
      /\ Strip(d.credentials.password) = d.credentials.password
  BY <1>3
<1>5. /\ d.host # "" /\ d.database_name # "" /\ d.port \in 1 .. MaxPort
      /\ d.credentials.user # "" /\ d.credentials.password # ""
  BY <1>1 DEF ValidDestination, ValidSecretReference, NonEmpty
<1>6. d.port > 0
  <2>1. MaxPort \in Nat
    BY DEF MaxPort
  <2>2. \A x \in 1 .. MaxPort : x > 0
    BY <2>1
  <2> QED
    BY <1>5, <2>2
<1>7. Strip("clickhouse") = "clickhouse"
  BY KeywordsAssumption
<1>8. /\ DOMAIN sent = {"adapter", "host", "port", "secure", "database", "credentials"}
      /\ sent.adapter = "clickhouse" /\ sent.host = d.host /\ sent.database = d.database_name
      /\ sent.port = d.port
      /\ DOMAIN sent.credentials = {"user", "password"}
      /\ sent.credentials.user = d.credentials.user
      /\ sent.credentials.password = d.credentials.password
  BY DEF BuildDestination, DestinationCredentials
<1> HIDE DEF sent
<1>9. HasTexts(sent, {"adapter", "host", "database"})
  BY <1>3, <1>5, <1>7, <1>8 DEF HasTexts, Has, NotBlank
<1>10. HasTexts(sent.credentials, {"user", "password"})
  BY <1>4, <1>5, <1>8 DEF HasTexts, Has, NotBlank
<1>11. DestinationAccepted(sent)
  BY <1>6, <1>7, <1>8, <1>9, <1>10 DEF DestinationAccepted, Has
<1> QED
  BY <1>11 DEF sent, d

\* What the API publishes the worker accepts, and makes its tables of.
LEMMA ContractFits ==
    ASSUME TextOperations, NEW n, GoodConnections(n), NEW w \in Workers,
           NEW c, GoodConfig(c), Answer(n, w, c).status = 200
    PROVE  /\ Accepts(Answer(n, w, c).contract, w)
           /\ BuildConfig(Answer(n, w, c).contract, w).tables = WorkerTables(c)
<1> DEFINE contract == Answer(n, w, c).contract
           E == EnabledTables(c)
           N == Len(E)
           built == BuildTableConfigs(contract.tables)
<1>1. /\ c.enabled /\ E # << >>
      /\ DOMAIN contract = {"contract_version", "worker", "kafka", "destination", "tables"}
      /\ contract.contract_version = 1
      /\ contract.worker = [worker_id |-> w]
      /\ contract.kafka = BuildKafka(n.settings, Worker(w), E)
      /\ contract.destination = BuildDestination(n.destination)
      /\ contract.tables = [i \in DOMAIN E |-> [name |-> E[i].logical_name,
                                                table |-> Sent(c, E[i])]]
  BY ContractOf
<1>2. /\ IsList(E) /\ \A i \in DOMAIN E : GoodTable(E[i])
      /\ UniqueBy(E, "logical_name") /\ UniqueBy(E, "cdc_topic")
      /\ UniqueBy(E, "destination_table")
  BY EnabledOfGood, TablesOfGood DEF ToSet
<1> HIDE DEF contract, E
<1>3. N \in Nat /\ DOMAIN E = 1 .. N /\ N # 0
  BY <1>1, <1>2, ListIs
<1>4. \A i \in DOMAIN E : /\ Strip(E[i].logical_name) = E[i].logical_name
                          /\ E[i].logical_name # ""
                          /\ Strip(E[i].cdc_topic) = E[i].cdc_topic
                          /\ E[i].cdc_topic # ""
  BY <1>2, TextsOfGoodTable DEF TableTexts
<1>5. c.sync_mode = "realtime"
  BY DEF GoodConfig, ValidSyncConfig
<1>6. \A i \in DOMAIN E : /\ TableAccepted(Sent(c, E[i]))
                          /\ BuildTableConfig(Sent(c, E[i])) = WorkerTable(E[i])
  BY <1>2, <1>5, SentAccepted
<1> DEFINE tables == contract.tables
<1>7. /\ DOMAIN tables = DOMAIN E
      /\ \A i \in DOMAIN E : /\ tables[i].name = E[i].logical_name
                             /\ tables[i].table = Sent(c, E[i])
  BY <1>1
<1>8. IsList(tables) /\ Len(tables) = N
  <2>1. tables = [i \in 1 .. N |-> tables[i]]
    BY <1>1, <1>3
  <2> HIDE DEF tables, N
  <2> QED
    BY <1>3, <2>1, IsListWhen
<1> HIDE DEF tables, N
<1>9. \A i \in DOMAIN tables : /\ Strip(tables[i].name) = E[i].logical_name
                               /\ Strip(tables[i].name) # ""
                               /\ TableAccepted(tables[i].table)
                               /\ BuildTableConfig(tables[i].table) = WorkerTable(E[i])
  <2>1. SUFFICES ASSUME NEW i \in DOMAIN tables
                 PROVE  /\ Strip(tables[i].name) = E[i].logical_name
                        /\ Strip(tables[i].name) # ""
                        /\ TableAccepted(tables[i].table)
                        /\ BuildTableConfig(tables[i].table) = WorkerTable(E[i])
    OBVIOUS
  <2>2. i \in DOMAIN E /\ tables[i].name = E[i].logical_name /\ tables[i].table = Sent(c, E[i])
    BY <1>7
  <2>3. Strip(E[i].logical_name) = E[i].logical_name /\ E[i].logical_name # ""
    BY <1>4, <2>2
  <2>4. TableAccepted(Sent(c, E[i])) /\ BuildTableConfig(Sent(c, E[i])) = WorkerTable(E[i])
    BY <1>6, <2>2
  <2> QED
    BY <2>2, <2>3, <2>4
<1>10. \A i, j \in DOMAIN tables : Strip(tables[i].name) = Strip(tables[j].name) => i = j
  <2>1. \A i, j \in DOMAIN E : E[i].logical_name = E[j].logical_name => i = j
    BY <1>2 DEF UniqueBy, Distinct, Map
  <2>2. \A i \in DOMAIN tables : i \in DOMAIN E /\ Strip(tables[i].name) = E[i].logical_name
    BY <1>7, <1>9
  <2> QED
    BY <2>1, <2>2
<1>11. built = WorkerTables(c)
  <2>1. tables \in Seq(ToSet(tables))
    BY <1>8 DEF IsList
  <2>2. BuildTableConfigs(tables) = [i \in 1 .. N |-> Built(tables[i])]
    BY <1>8, <1>10, <2>1, BuildTableConfigsOfDistinct
  <2>3. \A i \in 1 .. N : Built(tables[i]) = [name |-> E[i].logical_name,
                                              table |-> WorkerTable(E[i])]
    BY <1>3, <1>7, <1>9 DEF Built
  <2>4. WorkerTables(c) = [i \in 1 .. N |-> [name |-> E[i].logical_name,
                                             table |-> WorkerTable(E[i])]]
    BY <1>3 DEF WorkerTables, Map, E
  <2> QED
    BY <2>2, <2>3, <2>4 DEF tables
<1>12. /\ DOMAIN built = 1 .. N
       /\ \A i \in 1 .. N : built[i] = [name |-> E[i].logical_name,
                                        table |-> WorkerTable(E[i])]
  BY <1>3, <1>11 DEF WorkerTables, Map, E
<1> HIDE DEF built
<1>13. \A i \in 1 .. N : built[i].table = WorkerTable(E[i])
  BY <1>12
<1>14. DestinationTablesDiffer(built)
  <2>1. \A i \in 1 .. N : built[i].table.destination.table = E[i].destination_table
    BY <1>13, WorkerTableIs
  <2> QED
    BY <1>2, <1>3, <1>12, <2>1 DEF DestinationTablesDiffer, Distinct, Map, UniqueBy
<1>15. RuntimeTablesValid(built)
  <2>1. \A i \in 1 .. N : /\ built[i].table.enabled
                          /\ built[i].table.source.adapter = "debezium_postgres"
                          /\ built[i].table.sync.mode = "realtime"
    <3>1. SUFFICES ASSUME NEW i \in 1 .. N
                   PROVE  /\ built[i].table.enabled
                          /\ built[i].table.source.adapter = "debezium_postgres"
                          /\ built[i].table.sync.mode = "realtime"
      OBVIOUS
    <3>2. built[i].table = WorkerTable(E[i])
      BY <1>13
    <3>3. WorkerTable(E[i]).enabled
      BY DEF WorkerTable
    <3>4. /\ WorkerTable(E[i]).source.adapter = "debezium_postgres"
          /\ WorkerTable(E[i]).sync.mode = "realtime"
      BY WorkerTableIs
    <3> QED
      BY <3>2, <3>3, <3>4
  <2>2. built # << >>
    BY <1>3, <1>12
  <2> QED
    BY <1>12, <2>1, <2>2 DEF RuntimeTablesValid, ForAll
<1>16. TopicsAccepted(contract.kafka, built)
  <2> DEFINE topics == contract.kafka.topics
  <2>1. topics = [i \in 1 .. N |-> E[i].cdc_topic]
    <3>1. contract.kafka.topics = UniqueTopics(E)
      BY <1>1, KafkaFits
    <3>2. E \in Seq(ToSet(E))
      BY <1>2 DEF IsList
    <3> QED
      BY <1>2, <3>1, <3>2, UniqueTopicsOfDistinct DEF N
  <2>2. TableTopics(built) = [i \in 1 .. N |-> E[i].cdc_topic]
    <3>1. \A i \in 1 .. N : built[i].table.source.topic = E[i].cdc_topic
      BY <1>13, WorkerTableIs
    <3> QED
      BY <1>12, <3>1 DEF TableTopics, Map
  <2> HIDE DEF topics
  <2>3. \A i \in 1 .. N : Strip(topics[i]) = topics[i] /\ Strip(topics[i]) # ""
    <3>1. SUFFICES ASSUME NEW i \in 1 .. N
                   PROVE  Strip(topics[i]) = topics[i] /\ Strip(topics[i]) # ""
      OBVIOUS
    <3>2. topics[i] = E[i].cdc_topic /\ i \in DOMAIN E
      BY <1>3, <2>1
    <3>3. Strip(E[i].cdc_topic) = E[i].cdc_topic /\ E[i].cdc_topic # ""
      BY <1>4, <3>2
    <3> QED
      BY <3>2, <3>3
  <2>4. DOMAIN topics = 1 .. N
    BY <2>1
  <2>5. ForAll(topics, NotBlank)
    <3>1. \A i \in DOMAIN topics : Strip(topics[i]) # ""
      BY <2>3, <2>4
    <3> QED
      BY <3>1 DEF ForAll, NotBlank
  <2>6. topics # << >>
    BY <1>3, <2>1
  <2>7. Distinct(TableTopics(built))
    BY <1>2, <1>3, <2>2 DEF Distinct, UniqueBy, Map
  <2>8. Map(topics, Strip) = TableTopics(built)
    BY <2>1, <2>2, <2>3, <2>4 DEF Map
  <2> QED
    BY <2>5, <2>6, <2>7, <2>8 DEF TopicsAccepted, topics
<1>17. IdentityAccepted(contract, w)
  <2>1. DOMAIN contract.worker = {"worker_id"} /\ contract.worker.worker_id = w
    BY <1>1
  <2>2. Strip(w) = w /\ w # ""
    BY WorkersAssumption DEF NonEmpty
  <2> QED
    BY <2>1, <2>2 DEF IdentityAccepted, HasTexts, Has, NotBlank
<1>18. ForAll(tables, LAMBDA entry : NotBlank(entry.name) /\ TableAccepted(entry.table))
  BY <1>9 DEF ForAll, NotBlank
<1>19. DestinationAccepted(contract.destination) /\ KafkaAccepted(contract.kafka)
  BY <1>1, DestinationFits, KafkaFits
<1>20. Accepts(contract, w)
  BY <1>1, <1>14, <1>15, <1>16, <1>17, <1>18, <1>19
     DEF Accepts, Has, ContractVersionSupported, tables, built
<1>21. BuildConfig(contract, w).tables = WorkerTables(c)
  BY <1>11 DEF BuildConfig, built
<1> QED
  BY <1>20, <1>21 DEF contract

-----------------------------------------------------------------------------
(* The inductive invariant. *)

ConfigsOK ==
    /\ DOMAIN configs = Workers
    /\ \A w \in Workers : configs[w] = NoConfig \/ GoodConfig(configs[w])

\* The connector is what the compiler makes of the configurations it comes from.
ConnectorOK ==
    /\ connector.status \in {200, 404}
    /\ connector.status = 200 =>
         Compile(connections.source, {connector.from[w] : w \in Workers} \ {NoConfig})
           = [status |-> 200, connector |-> connector.connector]

\* A process runs what was published of a good configuration, and the tables that it has
\* not created yet are pending.
RunsPublished(p) ==
    /\ DOMAIN p = {"step", "from", "config", "pending"}
    /\ p.step \in {"bootstrap", "running"}
    /\ GoodConfig(p.from) /\ p.from.enabled
    /\ p.config.tables = WorkerTables(p.from)
    /\ IsList(p.pending)
    /\ \A entry \in ToSet(p.config.tables) :
         entry.table.destination.table \in DOMAIN schema \/ entry \in ToSet(p.pending)
    /\ p.step = "running" => p.pending = << >>

ProcessesOK ==
    /\ DOMAIN process = Workers
    /\ \A w \in Workers : process[w] = Down \/ RunsPublished(process[w])

Inv ==
    /\ GoodConnections(connections)
    /\ ConfigsOK
    /\ ConnectorOK
    /\ ProcessesOK
    /\ writes \in 0 .. MaxWrites

LEMMA InitInv ==
    ASSUME TextOperations, Init
    PROVE  Inv
<1>1. PICK c \in Connections :
          /\ ValidSourceConnection(SourceConnection(c.source))
          /\ ValidDestination(Destination(c.destination))
          /\ ValidKafkaSettings(c.settings)
          /\ connections = [source |-> SourceConnection(c.source),
                            destination |-> Destination(c.destination),
                            settings |-> c.settings]
  BY DEF Init
<1>2. /\ connections.source = SourceConnection(c.source)
      /\ connections.destination = Destination(c.destination)
      /\ connections.settings = c.settings
  BY <1>1
<1>3. Destination(Destination(c.destination)) = Destination(c.destination)
  BY DEF TextOperations, Destination, SecretReference
<1>4. \A w \in Workers : NotBlank(ClientId(c.settings, w))
  BY WorkersAssumption DEF ClientId
<1>5. GoodConnections(connections)
  BY <1>1, <1>2, <1>3, <1>4 DEF GoodConnections
<1>6. ConfigsOK /\ ConnectorOK /\ ProcessesOK /\ writes \in 0 .. MaxWrites
  BY MaxWritesAssumption DEF Init, ConfigsOK, ConnectorOK, NoConnector, ProcessesOK
<1> QED
  BY <1>5, <1>6 DEF Inv

LEMMA PutConfigInv ==
    ASSUME TextOperations, Inv, NEW w \in Workers, NEW r, ListsOf(r), PutConfig(w, r)
    PROVE  Inv'
<1>1. ConfigsOK'
  <2>1. CASE Stored(r).status = 200
    <3>1. GoodConfig(Stored(r).config)
      BY <2>1, StoredIsGood
    <3>2. configs' = [configs EXCEPT ![w] = Stored(r).config]
      BY <2>1 DEF PutConfig
    <3> QED
      BY <3>1, <3>2 DEF Inv, ConfigsOK
  <2>2. CASE Stored(r).status # 200
    BY <2>2 DEF PutConfig, Inv, ConfigsOK
  <2> QED
    BY <2>1, <2>2
<1>2. writes' \in 0 .. MaxWrites
  BY MaxWritesAssumption DEF PutConfig, Inv
<1>3. UNCHANGED <<connections, connector, process, schema>>
  BY DEF PutConfig
<1>4. ConnectorOK' /\ ProcessesOK'
  BY <1>3 DEF Inv, ConnectorOK, ProcessesOK, RunsPublished
<1> QED
  BY <1>1, <1>2, <1>3, <1>4 DEF Inv

\* A list that has a value for each element of another.
LEMMA ListOfSameLength ==
    ASSUME NEW list, IsList(list), NEW values, values = [i \in DOMAIN list |-> values[i]]
    PROVE  IsList(values) /\ Len(values) = Len(list)
<1>1. Len(list) \in Nat /\ DOMAIN list = 1 .. Len(list)
  BY ListIs
<1> QED
  BY <1>1, IsListWhen

\* What the form sends for the keys of a table is a list.
LEMMA SplitIsList ==
    ASSUME TextOperations, NEW joined, IsList(joined)
    PROVE  IsList(SplitCommaSeparatedText(joined))
<1> DEFINE T == UNION {ToSet(CommaParts(joined[i])) : i \in DOMAIN joined}
           split == Map(joined, CommaParts)
           flat == FlattenSeq(split)
           parts == Map(flat, Strip)
<1>1. \A i \in DOMAIN joined : CommaParts(joined[i]) \in Seq(T)
  <2>1. SUFFICES ASSUME NEW i \in DOMAIN joined PROVE CommaParts(joined[i]) \in Seq(T)
    OBVIOUS
  <2>2. IsList(CommaParts(joined[i]))
    BY DEF TextOperations
  <2>3. ToSet(CommaParts(joined[i])) \subseteq T
    OBVIOUS
  <2> HIDE DEF T
  <2> QED
    BY <2>2, <2>3, ListInSeq
<1> HIDE DEF T
<1>2. split = [i \in DOMAIN joined |-> split[i]] /\ \A i \in DOMAIN joined : split[i] \in Seq(T)
  BY <1>1 DEF Map
<1> HIDE DEF split
<1>3. IsList(split) /\ DOMAIN split = DOMAIN joined
  BY <1>2, ListOfSameLength
<1>4. split \in Seq(Seq(T))
  <2>1. ToSet(split) \subseteq Seq(T)
    BY <1>2, <1>3 DEF ToSet
  <2> QED
    BY <1>3, <2>1, ListInSeq
<1>5. IsList(flat)
  BY <1>4, FlattenSeqList
<1> HIDE DEF flat
<1>6. parts = [i \in DOMAIN flat |-> parts[i]]
  BY DEF Map
<1> HIDE DEF parts
<1>7. IsList(parts)
  BY <1>5, <1>6, ListOfSameLength
<1>8. parts \in Seq(ToSet(parts))
  BY <1>7 DEF IsList
<1>9. Keep(parts, ToSet(parts) \ {""}) \in Seq(ToSet(parts))
  BY <1>8, KeepElements
<1>10. SplitCommaSeparatedText(joined) = Keep(parts, ToSet(parts) \ {""})
  BY DEF SplitCommaSeparatedText, parts, flat, split
<1> QED
  BY <1>9, <1>10, SeqIsList

\* The tables of a form, and of each its keys, are lists.
FormLists(v) ==
    /\ IsList(v.tables)
    /\ \A i \in DOMAIN v.tables : IsList(v.tables[i].primaryKeyFields)

LEMMA FormOfGood ==
    ASSUME Inv, NEW w \in Workers
    PROVE  FormLists(Form(w)) /\ "tables" \in DOMAIN Form(w)
<1>1. CASE configs[w] = NoConfig
  <2>1. Form(w).tables = << >> /\ "tables" \in DOMAIN Form(w)
    BY <1>1 DEF Form, NewFormValues
  <2>2. IsList(<< >>) /\ DOMAIN << >> = {}
    BY DEF IsList
  <2> QED
    BY <2>1, <2>2 DEF FormLists
<1>2. CASE configs[w] # NoConfig
  <2> DEFINE c == configs[w]
             tables == Form(w).tables
  <2>1. GoodConfig(c)
    BY <1>2 DEF Inv, ConfigsOK
  <2>2. "tables" \in DOMAIN Form(w)
    BY <1>2 DEF Form, FormValues
  <2>3. tables = [i \in DOMAIN c.tables |-> tables[i]]
        /\ \A i \in DOMAIN c.tables :
             tables[i].primaryKeyFields = c.tables[i].primary_key_fields
    BY <1>2 DEF Form, FormValues, SyncConfigResponse, Map, TableFormValues,
                ConfiguredTableResponse
  <2> HIDE DEF tables, c
  <2>4. IsList(c.tables) /\ \A i \in DOMAIN c.tables : IsList(c.tables[i].primary_key_fields)
    BY <2>1 DEF GoodConfig, ListsOf, ToSet
  <2>5. IsList(tables) /\ DOMAIN tables = DOMAIN c.tables
    BY <2>3, <2>4, ListOfSameLength
  <2>6. \A i \in DOMAIN tables : IsList(tables[i].primaryKeyFields)
    BY <2>3, <2>4, <2>5
  <2> QED
    BY <2>2, <2>5, <2>6 DEF FormLists, tables
<1> QED
  BY <1>1, <1>2

LEMMA PayloadLists ==
    ASSUME TextOperations, NEW v, FormLists(v)
    PROVE  ListsOf(Payload(v))
<1> DEFINE tables == Payload(v).tables
<1>1. tables = [i \in DOMAIN v.tables |-> tables[i]]
      /\ \A i \in DOMAIN v.tables :
           tables[i].primary_key_fields = SplitCommaSeparatedText(v.tables[i].primaryKeyFields)
  BY DEF Payload, Map, TablePayload
<1> HIDE DEF tables
<1>2. IsList(tables) /\ DOMAIN tables = DOMAIN v.tables
  BY <1>1, ListOfSameLength DEF FormLists
<1>3. ASSUME NEW t \in ToSet(tables) PROVE IsList(t.primary_key_fields)
  <2>1. PICK i \in DOMAIN v.tables : t = tables[i]
    BY <1>2 DEF ToSet
  <2>2. IsList(v.tables[i].primaryKeyFields)
    BY DEF FormLists
  <2> QED
    BY <1>1, <2>1, <2>2, SplitIsList
<1> QED
  BY <1>2, <1>3 DEF ListsOf, tables

LEMMA WithTableLists ==
    ASSUME NEW v, FormLists(v), "tables" \in DOMAIN v, NEW name, NEW namespace, NEW type
    PROVE  FormLists(WithTable(v, name, namespace, type))
<1> DEFINE new == CreateConfiguredTableFromName(name, namespace, v.tables)
           filled == [new EXCEPT !.destinationColumns[1].destinationType = type]
           T == ToSet(v.tables) \cup {filled}
           tables == Append(v.tables, filled)
<1>1. SUFFICES ASSUME NotBlank(name) /\ NotBlank(namespace)
               PROVE  FormLists(WithTable(v, name, namespace, type))
  BY DEF WithTable
<1>2. filled.primaryKeyFields = <<"id">> /\ IsList(<<"id">>)
  <2>1. filled.primaryKeyFields = <<"id">>
    BY DEF CreateConfiguredTableFromName
  <2>2. <<"id">> \in Seq({"id"})
    OBVIOUS
  <2> QED
    BY <2>1, <2>2, SeqIsList
<1>3. WithTable(v, name, namespace, type).tables = tables
  BY <1>1 DEF WithTable
<1> HIDE DEF filled
<1>4. v.tables \in Seq(T) /\ filled \in T
  <2>1. v.tables \in Seq(ToSet(v.tables))
    BY DEF FormLists, IsList
  <2> QED
    BY <2>1
<1> HIDE DEF T
<1>5. tables \in Seq(T) /\ \A i \in DOMAIN tables :
                             (i \in DOMAIN v.tables /\ tables[i] = v.tables[i]) \/ tables[i] = filled
  BY <1>4
<1>6. IsList(tables)
  BY <1>5, SeqIsList
<1>7. \A i \in DOMAIN tables : IsList(tables[i].primaryKeyFields)
  BY <1>2, <1>5 DEF FormLists
<1> HIDE DEF tables
<1> QED
  BY <1>3, <1>6, <1>7 DEF FormLists

LEMMA SaveFormInv ==
    ASSUME TextOperations, Inv, NEW w \in Workers, NEW new, SaveForm(w, new)
    PROVE  Inv'
<1> DEFINE payload == Payload(WithTable(Form(w), new[1], new[2], "String"))
<1>1. ListsOf(payload)
  BY FormOfGood, WithTableLists, PayloadLists
<1>2. PutConfig(w, payload)
  BY DEF SaveForm
<1> QED
  BY <1>1, <1>2, PutConfigInv

LEMMA MaterialiseInv ==
    ASSUME Inv, Materialise
    PROVE  Inv'
<1> DEFINE compiled == Compile(connections.source, StoredConfigs)
<1>1. ConnectorOK'
  <2>1. CASE compiled.status = 200
    <3>1. connector' = [status |-> 200, connector |-> compiled.connector, from |-> configs]
          /\ connections' = connections
      BY <2>1 DEF Materialise
    <3>2. compiled = [status |-> 200, connector |-> compiled.connector]
      <4>1. compiled = Invalid \/ \E x : compiled = [status |-> 200, connector |-> x]
        BY DEF Compile
      <4> HIDE DEF compiled
      <4> QED
        BY <2>1, <4>1 DEF Invalid
    <3>3. {connector'.from[w] : w \in Workers} \ {NoConfig} = StoredConfigs
      BY <3>1 DEF StoredConfigs
    <3> HIDE DEF compiled
    <3>4. connector'.status = 200 /\ connector'.connector = compiled.connector
      BY <3>1
    <3>5. Compile(connections'.source, StoredConfigs) = compiled
      BY <3>1 DEF compiled
    <3> QED
      BY <3>2, <3>3, <3>4, <3>5 DEF ConnectorOK
  <2>2. CASE compiled.status # 200
    <3>1. UNCHANGED <<connector, connections>>
      BY <2>2 DEF Materialise
    <3> QED
      BY <3>1 DEF Inv, ConnectorOK
  <2> QED
    BY <2>1, <2>2
<1>2. UNCHANGED <<connections, configs, process, schema, writes>>
  BY DEF Materialise
<1> QED
  BY <1>1, <1>2 DEF Inv, ConfigsOK, ProcessesOK, RunsPublished

LEMMA LoadInv ==
    ASSUME TextOperations, Inv, NEW w \in Workers, Load(w)
    PROVE  Inv'
<1> DEFINE c == configs[w]
           contract == Published(w).contract
           config == BuildConfig(contract, w)
<1>1. Published(w).status = 200
  BY DEF Load, Fetched
<1>2. GoodConfig(c) /\ Published(w) = Answer(connections, w, c)
  <2>1. c # NoConfig
    BY <1>1 DEF Published
  <2> QED
    BY <2>1 DEF Inv, ConfigsOK, Published, Answer
<1>3. GoodConnections(connections)
  BY DEF Inv
<1>4. config.tables = WorkerTables(c) /\ c.enabled
  <2>1. Answer(connections, w, c).status = 200
    BY <1>1, <1>2
  <2>2. c.enabled
    BY <2>1 DEF Answer, GetConfig, Invalid
  <2>3. BuildConfig(Answer(connections, w, c).contract, w).tables = WorkerTables(c)
    BY <1>2, <1>3, <2>1, ContractFits
  <2> QED
    BY <1>2, <2>2, <2>3
<1>5. IsList(WorkerTables(c))
  <2>1. WorkerTables(c) = [i \in DOMAIN EnabledTables(c) |-> WorkerTables(c)[i]]
    BY DEF WorkerTables, Map
  <2>2. IsList(EnabledTables(c))
    BY <1>2, EnabledOfGood
  <2> QED
    BY <2>1, <2>2, ListOfSameLength
<1>6. process' = [process EXCEPT ![w] = [step |-> "bootstrap", from |-> c, config |-> config,
                                         pending |-> config.tables]]
      /\ UNCHANGED <<connections, configs, connector, schema, writes>>
  BY DEF Load
<1> HIDE DEF config, c
<1> DEFINE p == [step |-> "bootstrap", from |-> c, config |-> config, pending |-> config.tables]
<1>7. RunsPublished(p)
  <2>1. /\ DOMAIN p = {"step", "from", "config", "pending"}
        /\ p.step = "bootstrap" /\ p.from = c /\ p.config = config /\ p.pending = config.tables
    OBVIOUS
  <2> HIDE DEF p
  <2>2. \A entry \in ToSet(p.config.tables) : entry \in ToSet(p.pending)
    BY <2>1
  <2>3. IsList(p.pending) /\ GoodConfig(p.from) /\ p.from.enabled
        /\ p.config.tables = WorkerTables(p.from)
    BY <1>2, <1>4, <1>5, <2>1 DEF c
  <2> QED
    BY <2>1, <2>2, <2>3 DEF RunsPublished
<1> HIDE DEF p
<1> QED
  BY <1>6, <1>7 DEF Inv, ConfigsOK, ConnectorOK, ProcessesOK, RunsPublished, p

\* A process that gives up a pending table whose destination exists now, or none, still
\* runs what was published.
LEMMA BootstrapInv ==
    ASSUME Inv, NEW w \in Workers, Bootstrap(w)
    PROVE  Inv'
<1> DEFINE p == process[w]
           q == process'[w]
           first == Head(p.pending)
<1>1. RunsPublished(p) /\ p.step = "bootstrap" /\ p.pending # << >>
  <2>1. p.step = "bootstrap" /\ p.pending # << >>
    BY DEF Bootstrap
  <2>2. p # Down
    BY <2>1 DEF Down
  <2> QED
    BY <2>1, <2>2 DEF Inv, ProcessesOK
<1>2. /\ process' = [process EXCEPT ![w].pending = Tail(@)]
      /\ DOMAIN process = Workers
      /\ UNCHANGED <<connections, configs, connector, writes>>
  BY DEF Bootstrap, Inv, ProcessesOK
<1>3. DOMAIN schema' = DOMAIN schema \cup {first.table.destination.table}
  BY DEF Bootstrap
<1>4. q = [p EXCEPT !.pending = Tail(@)] /\ \A v \in Workers \ {w} : process'[v] = process[v]
  BY <1>2
<1> HIDE DEF p, q
<1>5. /\ DOMAIN q = {"step", "from", "config", "pending"}
      /\ q.step = p.step /\ q.from = p.from /\ q.config = p.config /\ q.pending = Tail(p.pending)
  BY <1>1, <1>4 DEF RunsPublished
<1> DEFINE T == ToSet(p.pending)
<1>6. p.pending \in Seq(T)
  BY <1>1 DEF RunsPublished, IsList
<1>7. Tail(p.pending) \in Seq(T) /\ \A entry \in T : entry = first \/ entry \in ToSet(Tail(p.pending))
  <2>1. Len(p.pending) \in Nat /\ Len(p.pending) > 0 /\ T = {p.pending[i] : i \in 1 .. Len(p.pending)}
    <3>1. DOMAIN p.pending = 1 .. Len(p.pending) /\ Len(p.pending) \in Nat
      BY <1>6
    <3>2. Len(p.pending) # 0
      BY <1>1, <1>6
    <3> QED
      BY <3>1, <3>2 DEF ToSet
  <2>2. /\ Tail(p.pending) \in Seq(T)
        /\ Len(Tail(p.pending)) = Len(p.pending) - 1
        /\ \A i \in 1 .. (Len(p.pending) - 1) : Tail(p.pending)[i] = p.pending[i + 1]
        /\ first = p.pending[1]
    <3> DEFINE s == p.pending
    <3>1. s \in Seq(T) /\ s # << >>
      BY <1>1, <1>6
    <3> HIDE DEF s, T
    <3>2. /\ Tail(s) \in Seq(T) /\ Len(Tail(s)) = Len(s) - 1
          /\ \A i \in 1 .. (Len(s) - 1) : Tail(s)[i] = s[i + 1]
          /\ Head(s) = s[1]
      BY <3>1
    <3> QED
      BY <3>2 DEF s
  <2> HIDE DEF T, first
  <2>3. DOMAIN Tail(p.pending) = 1 .. (Len(p.pending) - 1)
    BY <2>1, <2>2
  <2>4. SUFFICES ASSUME NEW i \in 1 .. Len(p.pending), p.pending[i] # first
                 PROVE  p.pending[i] \in ToSet(Tail(p.pending))
    BY <2>1, <2>2
  <2>5. i - 1 \in 1 .. (Len(p.pending) - 1) /\ (i - 1) + 1 = i
    BY <2>1, <2>2, <2>4
  <2>6. Tail(p.pending)[i - 1] = p.pending[i]
    BY <2>2, <2>5
  <2>7. \A list : \A n \in DOMAIN list : list[n] \in ToSet(list)
    BY DEF ToSet
  <2> QED
    BY <2>3, <2>5, <2>6, <2>7
<1>8. IsList(q.pending)
  BY <1>5, <1>7, SeqIsList
<1>9. \A entry \in ToSet(q.config.tables) :
        entry.table.destination.table \in DOMAIN schema' \/ entry \in ToSet(q.pending)
  <2>1. SUFFICES ASSUME NEW entry \in ToSet(p.config.tables)
                 PROVE  entry.table.destination.table \in DOMAIN schema'
                        \/ entry \in ToSet(Tail(p.pending))
    BY <1>5
  <2>2. entry.table.destination.table \in DOMAIN schema \/ entry \in T
    BY <1>1 DEF RunsPublished
  <2> HIDE DEF T, first
  <2> QED
    BY <1>3, <1>7, <2>2
<1>10. GoodConfig(p.from) /\ p.from.enabled /\ p.config.tables = WorkerTables(p.from)
  BY <1>1 DEF RunsPublished
<1>11. ProcessesOK'
  <2>1. SUFFICES ASSUME NEW v \in Workers, process'[v] # Down PROVE RunsPublished(process[v])'
    BY <1>2 DEF ProcessesOK
  <2>2. CASE v = w
    <3>1. process'[v] = q
      BY <2>2 DEF q
    <3> QED
      BY <1>1, <1>5, <1>8, <1>9, <1>10, <3>1 DEF RunsPublished
  <2>3. CASE v # w
    <3>1. process'[v] = process[v] /\ RunsPublished(process[v])
      BY <1>4, <2>1, <2>3 DEF Inv, ProcessesOK
    <3> QED
      BY <1>3, <3>1 DEF RunsPublished
  <2> QED
    BY <2>2, <2>3
<1> QED
  BY <1>2, <1>11 DEF Inv, ConfigsOK, ConnectorOK

LEMMA SubscribeInv ==
    ASSUME Inv, NEW w \in Workers, Subscribe(w)
    PROVE  Inv'
<1> DEFINE p == process[w]
           q == process'[w]
<1>1. RunsPublished(p) /\ p.pending = << >>
  <2>1. p.step = "bootstrap" /\ p.pending = << >>
    BY DEF Subscribe
  <2>2. p # Down
    BY <2>1 DEF Down
  <2> QED
    BY <2>1, <2>2 DEF Inv, ProcessesOK
<1>2. /\ process' = [process EXCEPT ![w].step = "running"]
      /\ DOMAIN process = Workers
      /\ UNCHANGED <<connections, configs, connector, schema, writes>>
  BY DEF Subscribe, Inv, ProcessesOK
<1>3. q = [p EXCEPT !.step = "running"] /\ \A v \in Workers \ {w} : process'[v] = process[v]
  BY <1>2
<1> HIDE DEF p, q
<1>4. /\ DOMAIN q = {"step", "from", "config", "pending"}
      /\ q.step = "running" /\ q.from = p.from /\ q.config = p.config /\ q.pending = p.pending
  BY <1>1, <1>3 DEF RunsPublished
<1>5. RunsPublished(q)
  BY <1>1, <1>4 DEF RunsPublished
<1>6. \A v \in Workers : process'[v] = Down \/ RunsPublished(process'[v])
  BY <1>3, <1>5 DEF Inv, ProcessesOK, q
<1>7. ProcessesOK'
  BY <1>2, <1>6 DEF ProcessesOK, RunsPublished
<1> QED
  BY <1>2, <1>7 DEF Inv, ConfigsOK, ConnectorOK

LEMMA StopInv ==
    ASSUME Inv, NEW w \in Workers, Stop(w)
    PROVE  Inv'
<1>1. /\ process' = [process EXCEPT ![w] = Down]
      /\ UNCHANGED <<connections, configs, connector, schema, writes>>
  BY DEF Stop
<1>2. ProcessesOK'
  BY <1>1 DEF Inv, ProcessesOK, RunsPublished
<1> QED
  BY <1>1, <1>2 DEF Inv, ConfigsOK, ConnectorOK

LEMMA NextInv ==
    ASSUME TextOperations, Inv, [Next]_vars
    PROVE  Inv'
<1>1. CASE Materialise
  BY <1>1, MaterialiseInv
<1>2. ASSUME NEW w \in Workers, NEW request \in Requests[w], PutConfig(w, request) PROVE Inv'
  <2>1. ListsOf(request)
    BY RequestsAssumption DEF ListsOf
  <2> QED
    BY <1>2, <2>1, PutConfigInv
<1>3. ASSUME NEW w \in Workers, NEW new \in NewTables, SaveForm(w, new) PROVE Inv'
  BY <1>3, SaveFormInv
<1>4. ASSUME NEW w \in Workers, Load(w) PROVE Inv'
  BY <1>4, LoadInv
<1>5. ASSUME NEW w \in Workers, Bootstrap(w) PROVE Inv'
  BY <1>5, BootstrapInv
<1>6. ASSUME NEW w \in Workers, Subscribe(w) PROVE Inv'
  BY <1>6, SubscribeInv
<1>7. ASSUME NEW w \in Workers, Stop(w) PROVE Inv'
  BY <1>7, StopInv
<1>8. CASE UNCHANGED vars
  BY <1>8 DEF vars, Inv, ConfigsOK, ConnectorOK, ProcessesOK, RunsPublished
<1> QED
  BY <1>1, <1>2, <1>3, <1>4, <1>5, <1>6, <1>7, <1>8 DEF Next

LEMMA Invariance ==
    ASSUME TextOperations
    PROVE  Spec => []Inv
<1>1. Init => Inv
  BY InitInv
<1>2. Inv /\ [Next]_vars => Inv'
  BY NextInv
<1> QED
  BY <1>1, <1>2, PTL DEF Spec

-----------------------------------------------------------------------------
(* The properties. *)

\* Only connections and configurations that the domain has validated and the database
\* has let pass are ever kept, and a process is down, bootstraps or runs: the
\* __post_init__ checks of domain/control_plane.py and the constraints of config_tables
\* hold of everything that is compiled or published later.
THEOREM DeploymentTypeOK ==
    ASSUME TextOperations
    PROVE  Spec => []TypeOK
<1>1. ASSUME Inv PROVE TypeOK
  <2>1. /\ ValidSourceConnection(connections.source) /\ ValidDestination(connections.destination)
        /\ ValidKafkaSettings(connections.settings)
    BY <1>1 DEF Inv, GoodConnections
  <2>2. \A w \in Workers : configs[w] # NoConfig =>
             ValidSyncConfig(configs[w]) /\ ConstraintsHold(configs[w])
    BY <1>1 DEF Inv, ConfigsOK, GoodConfig
  <2>3. \A w \in Workers : process[w].step \in {"down", "bootstrap", "running"}
    BY <1>1 DEF Inv, ProcessesOK, Down, RunsPublished
  <2> QED
    BY <1>1, <2>1, <2>2, <2>3 DEF TypeOK, Inv, ConnectorOK
<1>2. Spec => []Inv
  BY Invariance
<1> QED
  BY <1>1, <1>2, PTL

\* What config.py makes of the published contract is what the administrator configured.
LEMMA WorkerTablesAreEnabled ==
    ASSUME NEW c
    PROVE  Map(WorkerTables(c),
               LAMBDA b : <<b.name, b.table.source.schema, b.table.source.table,
                            b.table.source.topic, b.table.primary_key_fields,
                            b.table.destination>>)
             = Map(EnabledTables(c),
                   LAMBDA t : <<t.logical_name, t.source_schema, t.source_table,
                                t.cdc_topic, t.primary_key_fields,
                                [table |-> t.destination_table,
                                 columns |-> Map(t.destination_columns, LAMBDA column :
                                   [name |-> column.name, type |-> column.destination_type,
                                    nullable |-> column.nullable])]>>)
<1> DEFINE E == EnabledTables(c)
           destination(t) == [table |-> t.destination_table,
                              columns |-> Map(t.destination_columns, LAMBDA column :
                                   [name |-> column.name, type |-> column.destination_type,
                                    nullable |-> column.nullable])]
<1>1. \A t : WorkerTable(t).destination = destination(t)
  BY DEF WorkerTable
<1> HIDE DEF destination, E
<1>2. DOMAIN WorkerTables(c) = DOMAIN E
      /\ \A i \in DOMAIN E : /\ WorkerTables(c)[i].name = E[i].logical_name
                             /\ WorkerTables(c)[i].table = WorkerTable(E[i])
  BY DEF WorkerTables, Map, E
<1>3. [i \in DOMAIN WorkerTables(c) |->
         <<WorkerTables(c)[i].name, WorkerTables(c)[i].table.source.schema,
           WorkerTables(c)[i].table.source.table, WorkerTables(c)[i].table.source.topic,
           WorkerTables(c)[i].table.primary_key_fields, WorkerTables(c)[i].table.destination>>]
       = [i \in DOMAIN E |->
           <<E[i].logical_name, E[i].source_schema, E[i].source_table, E[i].cdc_topic,
             E[i].primary_key_fields, destination(E[i])>>]
  BY <1>1, <1>2, WorkerTableIs
<1> QED
  BY <1>3 DEF Map, E, destination

\* Every contract that GET /workers/{id}/config answers with 200 is one that config.py
\* and table_config.py accept, and they make exactly the enabled tables of it: what the
\* two code bases check and normalise twice never disagrees.
THEOREM DeploymentPublishedContractsAccepted ==
    ASSUME TextOperations
    PROVE  Spec => []PublishedContractsAccepted
<1>1. ASSUME Inv PROVE PublishedContractsAccepted
  <2>1. SUFFICES ASSUME NEW w \in Workers, Published(w).status = 200
                 PROVE  LET contract == Published(w).contract
                        IN  /\ Accepts(contract, w)
                            /\ BuildConfig(contract, w).tables = WorkerTables(configs[w])
    BY WorkerTablesAreEnabled DEF PublishedContractsAccepted
  <2>2. GoodConfig(configs[w]) /\ Published(w) = Answer(connections, w, configs[w])
    <3>1. configs[w] # NoConfig
      BY <2>1 DEF Published
    <3> QED
      BY <1>1, <3>1 DEF Inv, ConfigsOK, Published, Answer
  <2>3. GoodConnections(connections)
    BY <1>1 DEF Inv
  <2>4. Answer(connections, w, configs[w]).status = 200
    BY <2>1, <2>2
  <2> QED
    BY <2>2, <2>3, <2>4, ContractFits
<1>2. Spec => []Inv
  BY Invariance
<1> QED
  BY <1>1, <1>2, PTL

\* A list is what SubSeq takes up to its last two elements and from there on.
LEMMA LastTwo ==
    ASSUME NEW parts, IsList(parts), Len(parts) >= 2
    PROVE  SubSeq(parts, 1, Len(parts) - 2) \o SubSeq(parts, Len(parts) - 1, Len(parts)) = parts
<1> DEFINE T == ToSet(parts)
           N == Len(parts)
           front == SubSeq(parts, 1, N - 2)
           back == SubSeq(parts, N - 1, N)
<1>1. /\ parts \in Seq(T) /\ N \in Nat /\ N >= 2
      /\ \A i \in 1 .. N : parts[i] \in T
  BY DEF IsList
<1> HIDE DEF N, T
<1>2. front \in Seq(T) /\ Len(front) = N - 2 /\ \A i \in 1 .. (N - 2) : front[i] = parts[i]
  <2>1. N - 2 \in Int /\ \A i \in 1 .. (N - 2) : i \in 1 .. N /\ 1 + i - 1 = i
    BY <1>1
  <2>2. /\ front \in Seq(T) /\ Len(front) = (IF 1 <= N - 2 THEN (N - 2) - 1 + 1 ELSE 0)
        /\ \A i \in 1 .. ((N - 2) - 1 + 1) : front[i] = parts[1 + i - 1]
    BY <1>1, <2>1, SubSeqProperties
  <2> HIDE DEF front
  <2> QED
    BY <1>1, <2>1, <2>2
<1>3. back \in Seq(T) /\ Len(back) = 2 /\ back[1] = parts[N - 1] /\ back[2] = parts[N]
  <2>1. N - 1 \in Int /\ N \in Int /\ \A i \in (N - 1) .. N : parts[i] \in T
    BY <1>1
  <2>2. /\ back \in Seq(T) /\ Len(back) = (IF N - 1 <= N THEN N - (N - 1) + 1 ELSE 0)
        /\ \A i \in 1 .. (N - (N - 1) + 1) : back[i] = parts[(N - 1) + i - 1]
    BY <2>1, SubSeqProperties
  <2> HIDE DEF back
  <2> QED
    BY <1>1, <2>2
<1> HIDE DEF front, back
<1>4. /\ front \o back \in Seq(T) /\ Len(front \o back) = N
      /\ \A i \in 1 .. N : (front \o back)[i] = IF i <= N - 2 THEN front[i] ELSE back[i - (N - 2)]
  <2>1. Len(front) + Len(back) = N /\ Len(front) = N - 2
    BY <1>1, <1>2, <1>3
  <2>2. /\ front \o back \in Seq(T) /\ Len(front \o back) = Len(front) + Len(back)
        /\ \A i \in 1 .. Len(front) + Len(back) :
             (front \o back)[i] = IF i <= Len(front) THEN front[i] ELSE back[i - Len(front)]
    BY <1>2, <1>3, ConcatProperties
  <2> DEFINE all == front \o back
  <2> HIDE DEF all
  <2> QED
    BY <2>1, <2>2 DEF all
<1>5. \A i \in 1 .. N : (front \o back)[i] = parts[i]
  <2>1. SUFFICES ASSUME NEW i \in 1 .. N PROVE (front \o back)[i] = parts[i]
    OBVIOUS
  <2>2. CASE i <= N - 2
    <3>1. i \in 1 .. (N - 2)
      BY <1>1, <2>2
    <3> QED
      BY <1>2, <1>4, <2>2, <3>1
  <2>3. CASE i = N - 1
    <3>1. ~(i <= N - 2) /\ i - (N - 2) = 1
      BY <1>1, <2>3
    <3> QED
      BY <1>3, <1>4, <2>3, <3>1
  <2>4. CASE i = N
    <3>1. ~(i <= N - 2) /\ i - (N - 2) = 2
      BY <1>1, <2>4
    <3>2. (front \o back)[i] = back[i - (N - 2)]
      BY <1>4, <3>1
    <3> QED
      BY <1>3, <2>4, <3>1, <3>2
  <2>5. i <= N - 2 \/ i = N - 1 \/ i = N
    BY <1>1
  <2> QED
    BY <2>2, <2>3, <2>4, <2>5
<1>6. front \o back = parts
  <2>1. Len(parts) = N
    BY DEF N
  <2> QED
    BY <1>1, <1>4, <1>5, <2>1, SeqEqual
<1> QED
  BY <1>6 DEF front, back, N

\* A connector that the compiler has made writes each table it was made of to the topic
\* that is configured for the table.
LEMMA CompiledWritesTopics ==
    ASSUME TextOperations, NEW source, NEW S, NEW x,
           Compile(source, S) = [status |-> 200, connector |-> x],
           NEW t \in TablesToCapture(S)
    PROVE  WritesTopic(x, t.cdc_topic, <<t.source_schema, t.source_table>>)
<1> DEFINE tables == TablesToCapture(S)
           prefixes == TopicPrefixes(tables)
           parts == Parts(t.cdc_topic)
<1>1. Compile(source, S) # Invalid
  BY DEF Invalid
<1>2. /\ \A s \in tables : TopicMatches(s)
      /\ OneTopicPrefix(tables)
  BY <1>1 DEF Compile
<1>3. /\ x.topic_prefix = CHOOSE p \in prefixes : TRUE
      /\ x.captured_tables = CapturedTables(tables)
  BY <1>1 DEF Compile
<1>4. x.topic_prefix = TopicPrefixForTable(t)
  <2>1. TopicPrefixForTable(t) \in prefixes
    BY DEF TopicPrefixes
  <2>2. x.topic_prefix \in prefixes
    BY <1>3, <2>1
  <2> QED
    BY <1>2, <2>1, <2>2 DEF OneTopicPrefix
<1>5. <<t.source_schema, t.source_table>> \in x.captured_tables
  BY <1>3 DEF CapturedTables, TableIdentifier
<1>6. parts = TopicPrefixForTable(t) \o <<t.source_schema, t.source_table>>
  <2>1. TopicMatches(t)
    BY <1>2
  <2>2. /\ Len(parts) >= 3
        /\ SubSeq(parts, Len(parts) - 1, Len(parts)) = <<t.source_schema, t.source_table>>
        /\ TopicPrefixForTable(t) = SubSeq(parts, 1, Len(parts) - 2)
    BY <2>1 DEF TopicMatches, TableIdentifier, TopicPrefixForTable
  <2>3. IsList(parts) /\ Len(parts) \in Nat
    BY ListIs DEF TextOperations
  <2> HIDE DEF parts
  <2>4. SubSeq(parts, 1, Len(parts) - 2) \o SubSeq(parts, Len(parts) - 1, Len(parts)) = parts
    <3>1. Len(parts) >= 2
      BY <2>2, <2>3
    <3> QED
      BY <2>3, <3>1, LastTwo
  <2> QED
    BY <2>2, <2>4
<1> QED
  BY <1>4, <1>5, <1>6 DEF WritesTopic

\* A running worker is subscribed, for each of its tables, to the topic to which the
\* connector writes the changes of that table, if the two come from the same
\* configuration or the connector's configurations still have the table and the topic:
\* debezium_postgres_connector_compiler.py never compiles topics that it would not write
\* to, from whatever versions of the configurations.
THEOREM DeploymentWorkersAreFed ==
    ASSUME TextOperations
    PROVE  Spec => []WorkersAreFed
<1>1. ASSUME Inv PROVE WorkersAreFed
  <2> DEFINE S == ConnectorConfigs
             Subscribed(entry) == entry.table.source.topic
             TableOf(entry) == <<entry.table.source.schema, entry.table.source.table>>
             Captured(entry) ==
                 \E t \in TablesToCapture(S) :
                    TableIdentifier(t) = TableOf(entry) /\ t.cdc_topic = Subscribed(entry)
  <2>1. SUFFICES ASSUME connector.status = 200, NEW w \in Workers,
                        process[w].step = "running",
                        NEW entry \in ToSet(process[w].config.tables),
                        process[w].from = connector.from[w] \/ Captured(entry)
                 PROVE  WritesTopic(connector.connector, Subscribed(entry), TableOf(entry))
    BY DEF WorkersAreFed
  <2>2. Compile(connections.source, S) = [status |-> 200, connector |-> connector.connector]
    BY <1>1, <2>1 DEF Inv, ConnectorOK, ConnectorConfigs
  <2>3. ASSUME process[w].from = connector.from[w]
        PROVE  Captured(entry)
    <3> DEFINE c == process[w].from
    <3>1. GoodConfig(c) /\ c.enabled /\ process[w].config.tables = WorkerTables(c)
      <4>1. process[w] # Down
        BY <2>1 DEF Down
      <4> QED
        BY <1>1, <4>1 DEF Inv, ProcessesOK, RunsPublished
    <3>2. c \in S
      <4>1. c # NoConfig
        BY <3>1 DEF GoodConfig, ValidSyncConfig, NoConfig
      <4> QED
        BY <2>3, <4>1 DEF ConnectorConfigs
    <3> HIDE DEF c, S
    <3>3. PICK i \in DOMAIN EnabledTables(c) :
              entry = [name |-> EnabledTables(c)[i].logical_name,
                       table |-> WorkerTable(EnabledTables(c)[i])]
      BY <2>1, <3>1 DEF WorkerTables, Map, ToSet
    <3> DEFINE t == EnabledTables(c)[i]
    <3>4. t \in ToSet(c.tables) /\ t.enabled
      <4>1. t \in ToSet(EnabledTables(c))
        BY DEF ToSet
      <4> QED
        BY <3>1, <4>1, EnabledOfGood
    <3>5. t \in TablesToCapture(S)
      BY <3>1, <3>2, <3>4 DEF TablesToCapture
    <3>6. entry.table = WorkerTable(t)
      BY <3>3
    <3> HIDE DEF t
    <3>7. TableIdentifier(t) = TableOf(entry) /\ t.cdc_topic = Subscribed(entry)
      BY <3>6, WorkerTableIs DEF TableIdentifier
    <3> QED
      BY <3>5, <3>7
  <2>4. Captured(entry)
    BY <2>1, <2>3
  <2>5. PICK t \in TablesToCapture(S) :
            TableIdentifier(t) = TableOf(entry) /\ t.cdc_topic = Subscribed(entry)
    BY <2>4
  <2> HIDE DEF S, Subscribed, TableOf
  <2>6. WritesTopic(connector.connector, t.cdc_topic, <<t.source_schema, t.source_table>>)
    BY <2>2, CompiledWritesTopics
  <2> QED
    BY <2>5, <2>6 DEF TableIdentifier
<1>2. Spec => []Inv
  BY Invariance
<1> QED
  BY <1>1, <1>2, PTL

-----------------------------------------------------------------------------
(* The console's form. *)

\* Names that have no blanks around them and no commas within come back from the form.
LEMMA SplitOfNames ==
    ASSUME TextOperations, NEW names, IsList(names), Map(names, Strip) = names,
           \A i \in DOMAIN names : ~Comma(names[i]) /\ names[i] # ""
    PROVE  SplitCommaSeparatedText(names) = names
<1>1. Map(names, CommaParts) = [i \in DOMAIN names |-> <<names[i]>>]
  <2>1. \A i \in DOMAIN names : CommaParts(names[i]) = <<names[i]>>
    BY DEF TextOperations
  <2> QED
    BY <2>1 DEF Map
<1>2. FlattenSeq(Map(names, CommaParts)) = names
  BY <1>1, FlattenSingletons
<1>3. Map(FlattenSeq(Map(names, CommaParts)), Strip) = names
  BY <1>2
<1>4. names \in Seq(ToSet(names)) /\ ToSet(names) \subseteq ToSet(names) \ {""}
  <2>1. "" \notin ToSet(names)
    BY DEF ToSet
  <2> QED
    BY <2>1 DEF IsList
<1>5. Keep(names, ToSet(names) \ {""}) = names
  BY <1>4, KeepElements
<1> QED
  BY <1>3, <1>5 DEF SplitCommaSeparatedText

LEMMA ColumnsOfGoodTable ==
    ASSUME NEW t, GoodTable(t)
    PROVE  LET columns == t.destination_columns
           IN  /\ columns = [i \in DOMAIN columns |->
                               [name |-> columns[i].name,
                                destination_type |-> columns[i].destination_type,
                                nullable |-> columns[i].nullable]]
               /\ \A i \in DOMAIN columns :
                    /\ Strip(columns[i].name) = columns[i].name
                    /\ Strip(columns[i].destination_type) = columns[i].destination_type
                    /\ columns[i].name # "" /\ columns[i].destination_type # ""
                    /\ columns[i].name \notin TechnicalColumns
<1> DEFINE columns == t.destination_columns
<1>1. /\ columns = Map(columns, DestinationColumn)
      /\ ForAll(columns, ValidDestinationColumn)
  BY DEF GoodTable, ConfiguredTable, ValidConfiguredTable
<1> HIDE DEF columns
<1>2. columns = [i \in DOMAIN columns |-> DestinationColumn(columns[i])]
  BY <1>1 DEF Map
<1>3. \A y : /\ DestinationColumn(y).name = Strip(y.name)
             /\ DestinationColumn(y).destination_type = Strip(y.destination_type)
             /\ DestinationColumn(y) = [name |-> DestinationColumn(y).name,
                                        destination_type |-> DestinationColumn(y).destination_type,
                                        nullable |-> DestinationColumn(y).nullable]
  BY DEF DestinationColumn
<1>4. ASSUME NEW i \in DOMAIN columns
      PROVE  /\ columns[i] = [name |-> columns[i].name,
                              destination_type |-> columns[i].destination_type,
                              nullable |-> columns[i].nullable]
             /\ Strip(columns[i].name) = columns[i].name
             /\ Strip(columns[i].destination_type) = columns[i].destination_type
             /\ columns[i].name # "" /\ columns[i].destination_type # ""
             /\ columns[i].name \notin TechnicalColumns
  <2>1. columns[i] = DestinationColumn(columns[i])
    BY <1>2
  <2>2. ValidDestinationColumn(columns[i])
    BY <1>1 DEF ForAll
  <2>3. /\ columns[i].name = DestinationColumn(columns[i]).name
        /\ columns[i].destination_type = DestinationColumn(columns[i]).destination_type
        /\ columns[i].nullable = DestinationColumn(columns[i]).nullable
    BY <2>1
  <2>4. /\ columns[i].name # "" /\ columns[i].destination_type # ""
        /\ columns[i].name \notin TechnicalColumns
    BY <2>2 DEF ValidDestinationColumn, NonEmpty
  <2>5. columns[i] = [name |-> columns[i].name,
                      destination_type |-> columns[i].destination_type,
                      nullable |-> columns[i].nullable]
    BY <1>3, <2>1, <2>3
  <2>6. /\ Strip(columns[i].name) = columns[i].name
        /\ Strip(columns[i].destination_type) = columns[i].destination_type
    BY <1>3, <2>3
  <2> QED
    BY <2>4, <2>5, <2>6
<1>5. columns = [i \in DOMAIN columns |-> columns[i]]
  BY <1>2
<1>6. columns = [i \in DOMAIN columns |->
                   [name |-> columns[i].name,
                    destination_type |-> columns[i].destination_type,
                    nullable |-> columns[i].nullable]]
  BY <1>4, <1>5
<1> QED
  BY <1>4, <1>6 DEF columns

\* What the form shows of a table, and sends for it when nothing has been changed.
Shown(t) == TableFormValues(ConfiguredTableResponse(t))

LEMMA ShownTable ==
    ASSUME TextOperations, NEW t, GoodTable(t),
           \A i \in DOMAIN t.primary_key_fields : ~Comma(t.primary_key_fields[i])
    PROVE  /\ SplitCommaSeparatedText(Shown(t).primaryKeyFields) = t.primary_key_fields
           /\ TablePayload(Shown(t)) = t
<1> DEFINE pk == t.primary_key_fields
           columns == t.destination_columns
           shown == Shown(t)
<1>1. /\ shown.logicalName = t.logical_name /\ shown.sourceSchema = t.source_schema
      /\ shown.sourceTable = t.source_table /\ shown.cdcTopic = t.cdc_topic
      /\ shown.destinationTable = t.destination_table
      /\ shown.primaryKeyFields = t.primary_key_fields
      /\ shown.enabled = t.enabled
  BY DEF Shown, TableFormValues, ConfiguredTableResponse
<1>2. shown.destinationColumns = [i \in DOMAIN columns |->
                                    [name |-> columns[i].name,
                                     destinationType |-> columns[i].destination_type,
                                     nullable |-> columns[i].nullable]]
  <2>1. shown.destinationColumns
          = Map(Map(columns, DestinationColumnResponse), ColumnFormValues)
    BY DEF Shown, TableFormValues, ConfiguredTableResponse
  <2> QED
    BY <2>1 DEF Map, DestinationColumnResponse, ColumnFormValues
<1>3. SplitCommaSeparatedText(pk) = pk
  <2>1. IsList(pk)
    BY DEF GoodTable
  <2>2. Map(pk, Strip) = pk
    BY TextsOfGoodTable
  <2>3. \A i \in DOMAIN pk : pk[i] # ""
    BY DEF GoodTable, ValidConfiguredTable, ForAll, NonEmpty
  <2> QED
    BY <2>1, <2>2, <2>3, SplitOfNames
<1> HIDE DEF shown
<1>4. Map(shown.destinationColumns, ColumnPayload) = columns
  <2> DEFINE v == shown.destinationColumns
  <2>1. /\ columns = [i \in DOMAIN columns |->
                               [name |-> columns[i].name,
                                destination_type |-> columns[i].destination_type,
                                nullable |-> columns[i].nullable]]
        /\ \A i \in DOMAIN columns :
                    /\ Strip(columns[i].name) = columns[i].name
                    /\ Strip(columns[i].destination_type) = columns[i].destination_type
    BY ColumnsOfGoodTable
  <2>2. v = [i \in DOMAIN columns |-> [name |-> columns[i].name,
                                       destinationType |-> columns[i].destination_type,
                                       nullable |-> columns[i].nullable]]
    BY <1>2
  <2> HIDE DEF v, columns
  <2>3. DOMAIN v = DOMAIN columns
        /\ \A i \in DOMAIN columns : /\ v[i].name = columns[i].name
                                     /\ v[i].destinationType = columns[i].destination_type
                                     /\ v[i].nullable = columns[i].nullable
    BY <2>2
  <2>4. Map(v, ColumnPayload) = [i \in DOMAIN v |->
                                   [name |-> Strip(v[i].name),
                                    destination_type |-> Strip(v[i].destinationType),
                                    nullable |-> v[i].nullable]]
    BY DEF Map, ColumnPayload
  <2>5. Map(v, ColumnPayload) = columns
    BY <2>1, <2>3, <2>4
  <2> QED
    BY <2>5 DEF v
<1>5. /\ Strip(t.logical_name) = t.logical_name /\ Strip(t.source_schema) = t.source_schema
      /\ Strip(t.source_table) = t.source_table /\ Strip(t.cdc_topic) = t.cdc_topic
      /\ Strip(t.destination_table) = t.destination_table
  BY TextsOfGoodTable DEF TableTexts
<1>6. t = [logical_name |-> t.logical_name, source_schema |-> t.source_schema,
           source_table |-> t.source_table, cdc_topic |-> t.cdc_topic,
           destination_table |-> t.destination_table,
           primary_key_fields |-> pk, destination_columns |-> columns,
           enabled |-> t.enabled]
  <2>1. \A s : LET u == ConfiguredTable(s)
               IN  u = [logical_name |-> u.logical_name, source_schema |-> u.source_schema,
                        source_table |-> u.source_table, cdc_topic |-> u.cdc_topic,
                        destination_table |-> u.destination_table,
                        primary_key_fields |-> u.primary_key_fields,
                        destination_columns |-> u.destination_columns,
                        enabled |-> u.enabled]
    BY DEF ConfiguredTable
  <2>2. t = ConfiguredTable(t)
    BY DEF GoodTable
  <2> QED
    BY <2>1, <2>2
<1> HIDE DEF pk, columns
<1>7. TablePayload(shown) = t
  <2>1. shown.primaryKeyFields = pk
    BY <1>1 DEF pk
  <2> QED
    BY <1>1, <1>3, <1>4, <1>5, <1>6, <2>1 DEF TablePayload
<1>8. SplitCommaSeparatedText(shown.primaryKeyFields) = pk
  BY <1>1, <1>3 DEF pk
<1> QED
  BY <1>7, <1>8 DEF shown, pk

\* Names that are not empty before they are stripped.
LEMMA GoodTableRequest ==
    ASSUME NEW t, GoodTable(t)
    PROVE  ConfiguredTableRequest(t)
<1>1. \A field \in TableTexts : NonEmpty(t[field])
  BY DEF GoodTable, ValidConfiguredTable
<1>2. t.primary_key_fields # << >> /\ ForAll(t.primary_key_fields, NonEmpty)
  BY DEF GoodTable, ValidConfiguredTable
<1>3. t.destination_columns # << >> /\ ForAll(t.destination_columns, DestinationColumnRequest)
  <2>1. ForAll(t.destination_columns, ValidDestinationColumn) /\ t.destination_columns # << >>
    BY DEF GoodTable, ValidConfiguredTable
  <2> QED
    BY <2>1 DEF ForAll, ValidDestinationColumn, DestinationColumnRequest
<1> QED
  BY <1>1, <1>2, <1>3 DEF ConfiguredTableRequest

\* A good configuration is a request for itself.
LEMMA StoredAgain ==
    ASSUME NEW c, GoodConfig(c)
    PROVE  Stored(c) = [status |-> 200, config |-> c]
<1>1. SyncConfig(c) = c /\ ValidSyncConfig(c) /\ ConstraintsHold(c)
  BY DEF GoodConfig
<1>2. SyncConfigRequest(c)
  <2>1. c.sync_mode = "realtime" /\ c.tables # << >>
    BY <1>1 DEF ValidSyncConfig
  <2>2. ForAll(c.tables, ConfiguredTableRequest)
    BY TablesOfGood, GoodTableRequest DEF ForAll, ToSet
  <2> QED
    BY <2>1, <2>2 DEF SyncConfigRequest, NonEmpty
<1> QED
  BY <1>1, <1>2 DEF Stored

LEMMA ShownConfig ==
    ASSUME TextOperations, NEW c, GoodConfig(c), KeysWithoutCommas(c)
    PROVE  LET form == FormValues(SyncConfigResponse(c))
           IN  ValidForm(form) /\ Payload(form) = c
<1> DEFINE tables == c.tables
           form == FormValues(SyncConfigResponse(c))
<1>1. \A i \in DOMAIN tables :
        /\ GoodTable(tables[i])
        /\ \A k \in DOMAIN tables[i].primary_key_fields :
             ~Comma(tables[i].primary_key_fields[k])
  BY TablesOfGood DEF KeysWithoutCommas, ForAll, ToSet
<1>2. /\ form.syncMode = c.sync_mode /\ form.enabled = c.enabled
      /\ form.tables = [i \in DOMAIN tables |-> Shown(tables[i])]
  BY DEF FormValues, SyncConfigResponse, Map, Shown
<1>3. c.sync_mode = "realtime" /\ tables # << >> /\ Strip("realtime") = "realtime"
  BY KeywordsAssumption DEF GoodConfig, ValidSyncConfig
<1>4. c = [sync_mode |-> c.sync_mode, tables |-> tables, enabled |-> c.enabled]
      /\ tables = [i \in DOMAIN tables |-> tables[i]]
  BY DEF GoodConfig, SyncConfig, Map
<1> HIDE DEF form, tables
<1>5. Map(form.tables, TablePayload) = tables
  <2>1. Map(form.tables, TablePayload) = [i \in DOMAIN tables |-> TablePayload(Shown(tables[i]))]
    BY <1>2 DEF Map
  <2>2. \A i \in DOMAIN tables : TablePayload(Shown(tables[i])) = tables[i]
    BY <1>1, ShownTable
  <2> QED
    BY <1>4, <2>1, <2>2
<1>6. Payload(form) = c
  BY <1>2, <1>3, <1>4, <1>5 DEF Payload
<1>7. ValidForm(form)
  <2>1. NotBlank(form.syncMode)
    BY <1>2, <1>3 DEF NotBlank
  <2>2. DOMAIN form.tables = DOMAIN tables
    BY <1>2
  <2>3. form.tables # << >>
    <3>1. ASSUME DOMAIN tables = {} PROVE FALSE
      BY <1>3, <1>4, <3>1
    <3> QED
      BY <2>2, <3>1
  <2>4. ASSUME NEW i \in DOMAIN tables
        PROVE  LET s == form.tables[i]
               IN  /\ \A field \in {"logicalName", "sourceSchema", "sourceTable", "cdcTopic",
                                    "destinationTable"} : NotBlank(s[field])
                   /\ SplitCommaSeparatedText(s.primaryKeyFields) # << >>
                   /\ s.destinationColumns # << >>
                   /\ ForAll(s.destinationColumns, LAMBDA column :
                        NotBlank(column.name) /\ NotBlank(column.destinationType))
    <3> DEFINE t == tables[i]
               s == form.tables[i]
               v == s.destinationColumns
    <3>1. s = Shown(t) /\ GoodTable(t)
      BY <1>1, <1>2
    <3>2. SplitCommaSeparatedText(s.primaryKeyFields) = t.primary_key_fields
      BY <1>1, <3>1, ShownTable
    <3> HIDE DEF s, t
    <3>3. /\ s.logicalName = t.logical_name /\ s.sourceSchema = t.source_schema
          /\ s.sourceTable = t.source_table /\ s.cdcTopic = t.cdc_topic
          /\ s.destinationTable = t.destination_table
      BY <3>1 DEF Shown, TableFormValues, ConfiguredTableResponse
    <3>4. DOMAIN v = DOMAIN t.destination_columns
          /\ \A k \in DOMAIN v : /\ v[k].name = t.destination_columns[k].name
                                 /\ v[k].destinationType = t.destination_columns[k].destination_type
      BY <3>1 DEF Shown, TableFormValues, ConfiguredTableResponse, Map,
                  DestinationColumnResponse, ColumnFormValues
    <3>5. \A k \in DOMAIN v : NotBlank(v[k].name) /\ NotBlank(v[k].destinationType)
      <4>1. SUFFICES ASSUME NEW k \in DOMAIN v
                     PROVE  Strip(v[k].name) # "" /\ Strip(v[k].destinationType) # ""
        BY DEF NotBlank
      <4>2. k \in DOMAIN t.destination_columns
        BY <3>4
      <4> DEFINE column == t.destination_columns[k]
      <4>3. /\ Strip(column.name) = column.name /\ column.name # ""
            /\ Strip(column.destination_type) = column.destination_type
            /\ column.destination_type # ""
        BY <3>1, <4>2, ColumnsOfGoodTable
      <4>4. v[k].name = column.name /\ v[k].destinationType = column.destination_type
        BY <3>4
      <4> HIDE DEF column, v
      <4> QED
        BY <4>3, <4>4
    <3>6. t.primary_key_fields # << >> /\ v # << >>
      <4>1. t.primary_key_fields # << >> /\ t.destination_columns # << >>
        BY <3>1, TextsOfGoodTable
      <4>2. DOMAIN t.destination_columns # {}
        <5> DEFINE columns == t.destination_columns
        <5>1. columns = [k \in DOMAIN columns |->
                          [name |-> columns[k].name,
                           destination_type |-> columns[k].destination_type,
                           nullable |-> columns[k].nullable]]
          BY <3>1, ColumnsOfGoodTable
        <5>2. columns # << >>
          BY <4>1
        <5> HIDE DEF columns
        <5>3. ASSUME DOMAIN columns = {} PROVE columns = << >>
          BY <5>1, <5>3
        <5> QED
          BY <5>2, <5>3 DEF columns
      <4>3. v # << >>
        BY <3>4, <4>2
      <4> QED
        BY <4>1, <4>3
    <3>7. /\ NotBlank(s.logicalName) /\ NotBlank(s.sourceSchema) /\ NotBlank(s.sourceTable)
          /\ NotBlank(s.cdcTopic) /\ NotBlank(s.destinationTable)
      <4>1. \A field \in TableTexts : Strip(t[field]) # ""
        BY <3>1, TextsOfGoodTable
      <4> QED
        BY <3>3, <4>1 DEF TableTexts, NotBlank
    <3>8. ForAll(v, LAMBDA column : NotBlank(column.name) /\ NotBlank(column.destinationType))
      <4> HIDE DEF v
      <4> QED
        BY <3>5 DEF ForAll
    <3> QED
      BY <3>2, <3>6, <3>7, <3>8 DEF s
  <2> QED
    BY <2>1, <2>2, <2>3, <2>4 DEF ValidForm, ForAll
<1> QED
  BY <1>6, <1>7 DEF form

\* Opened in the console and saved without a change, a configuration is accepted and
\* stored as it was: the mappings of payloadMappers.ts are inverse to each other on
\* everything the API keeps, key names with commas excepted.
THEOREM DeploymentShownConfigsSaveUnchanged ==
    ASSUME TextOperations
    PROVE  Spec => []ShownConfigsSaveUnchanged
<1>1. ASSUME Inv PROVE ShownConfigsSaveUnchanged
  <2>1. SUFFICES ASSUME NEW w \in Workers, configs[w] # NoConfig, KeysWithoutCommas(configs[w])
                 PROVE  /\ ValidForm(Form(w))
                        /\ Stored(Payload(Form(w))) = [status |-> 200, config |-> configs[w]]
    BY DEF ShownConfigsSaveUnchanged
  <2>2. GoodConfig(configs[w])
    BY <1>1, <2>1 DEF Inv, ConfigsOK
  <2>3. Form(w) = FormValues(SyncConfigResponse(configs[w]))
    BY <2>1 DEF Form
  <2>4. ValidForm(Form(w)) /\ Payload(Form(w)) = configs[w]
    BY <2>1, <2>2, <2>3, ShownConfig
  <2> QED
    BY <2>2, <2>4, StoredAgain
<1>2. Spec => []Inv
  BY Invariance
<1> QED
  BY <1>1, <1>2, PTL

-----------------------------------------------------------------------------
(* The records that arrive. *)

\* The keys of a worker's table are columns that are not null; its columns are no
\* technical ones, and there is one.
GoodEntry(entry) ==
    LET columns == ToSet(entry.table.destination.columns)
    IN  /\ \A field \in ToSet(entry.table.primary_key_fields) :
             \E c \in columns : c.name = field /\ ~c.nullable
        /\ \A c \in columns : c.name \notin {"version", "deleted"}
        /\ columns # {}

LEMMA WorkerTableGood ==
    ASSUME NEW t, GoodTable(t), NEW entry, entry.table = WorkerTable(t)
    PROVE  GoodEntry(entry)
<1> DEFINE stored == t.destination_columns
           columns == entry.table.destination.columns
<1>1. columns = [i \in DOMAIN stored |->
                   [name |-> stored[i].name, type |-> stored[i].destination_type,
                    nullable |-> stored[i].nullable]]
  BY DEF WorkerTable, Map
<1>2. /\ \A field \in ToSet(t.primary_key_fields) : \E c \in ToSet(stored) : c.name = field /\ ~c.nullable
      /\ stored # << >>
  BY DEF GoodTable, ValidConfiguredTable
<1>3. \A i \in DOMAIN stored : stored[i].name \notin TechnicalColumns
  BY ColumnsOfGoodTable
<1>4. DOMAIN stored # {}
  <2>1. stored = Map(stored, DestinationColumn)
    BY DEF GoodTable, ConfiguredTable
  <2> HIDE DEF stored
  <2>2. stored = [i \in DOMAIN stored |-> DestinationColumn(stored[i])]
    BY <2>1 DEF Map
  <2>3. ASSUME DOMAIN stored = {} PROVE stored = << >>
    BY <2>2, <2>3
  <2> QED
    BY <1>2, <2>3
<1> HIDE DEF stored, columns
<1>5. /\ DOMAIN columns = DOMAIN stored
      /\ \A i \in DOMAIN stored : /\ columns[i].name = stored[i].name
                                  /\ columns[i].nullable = stored[i].nullable
  BY <1>1
<1>6. \A field \in ToSet(t.primary_key_fields) : \E c \in ToSet(columns) : c.name = field /\ ~c.nullable
  <2>1. SUFFICES ASSUME NEW field \in ToSet(t.primary_key_fields)
                 PROVE  \E c \in ToSet(columns) : c.name = field /\ ~c.nullable
    OBVIOUS
  <2>2. PICK i \in DOMAIN stored : stored[i].name = field /\ ~stored[i].nullable
    BY <1>2 DEF ToSet
  <2>3. columns[i] \in ToSet(columns)
    BY <1>5 DEF ToSet
  <2> QED
    BY <1>5, <2>2, <2>3
<1>7. \A c \in ToSet(columns) : c.name \notin {"version", "deleted"}
  BY <1>3, <1>5 DEF ToSet, TechnicalColumns
<1>8. ToSet(columns) # {}
  BY <1>4, <1>5 DEF ToSet
<1>9. entry.table.primary_key_fields = t.primary_key_fields
  BY WorkerTableIs
<1> QED
  BY <1>6, <1>7, <1>8, <1>9 DEF GoodEntry, columns

\* No two tables of a worker have a topic or a name in common.
LEMMA RouteOfEntry ==
    ASSUME NEW c, GoodConfig(c), NEW entry \in ToSet(WorkerTables(c))
    PROVE  LET tables == WorkerTables(c)
           IN  /\ GoodEntry(entry)
               /\ \E i \in DOMAIN tables :
                    /\ tables[i] = entry
                    /\ TopicRoutes(tables, entry.table.source.topic) = {i}
                    /\ \A j \in DOMAIN tables : tables[j].name = entry.name => j = i
<1> DEFINE E == EnabledTables(c)
           tables == WorkerTables(c)
<1>1. /\ \A i \in DOMAIN E : GoodTable(E[i])
      /\ UniqueBy(E, "logical_name") /\ UniqueBy(E, "cdc_topic")
  BY EnabledOfGood, TablesOfGood DEF ToSet
<1> HIDE DEF E
<1>2. DOMAIN tables = DOMAIN E
      /\ \A i \in DOMAIN E : tables[i] = [name |-> E[i].logical_name, table |-> WorkerTable(E[i])]
  BY DEF WorkerTables, Map, E
<1> HIDE DEF tables
<1>3. \A i \in DOMAIN E : /\ tables[i].name = E[i].logical_name
                          /\ tables[i].table = WorkerTable(E[i])
  BY <1>2
<1>4. \A i \in DOMAIN E : tables[i].table.source.topic = E[i].cdc_topic
  BY <1>3, WorkerTableIs
<1>5. /\ \A i, j \in DOMAIN E : E[i].logical_name = E[j].logical_name => i = j
      /\ \A i, j \in DOMAIN E : E[i].cdc_topic = E[j].cdc_topic => i = j
  BY <1>1 DEF UniqueBy, Distinct, Map
<1>6. PICK i \in DOMAIN E : tables[i] = entry
  BY <1>2 DEF ToSet, tables
<1>7. GoodEntry(entry)
  <2>1. GoodTable(E[i]) /\ entry.table = WorkerTable(E[i])
    BY <1>1, <1>3, <1>6
  <2> QED
    BY <2>1, WorkerTableGood
<1>8. TopicRoutes(tables, entry.table.source.topic) = {i}
  BY <1>2, <1>4, <1>5, <1>6 DEF TopicRoutes
<1>9. \A j \in DOMAIN tables : tables[j].name = entry.name => j = i
  BY <1>2, <1>3, <1>5, <1>6
<1> QED
  BY <1>2, <1>6, <1>7, <1>8, <1>9 DEF tables

\* The rows of a table's events: that of a change has every column, null where it may
\* be; that of a delete the key.
LEMMA RowOfEvent ==
    ASSUME NEW entry, GoodEntry(entry),
           NEW t, Null \notin DOMAIN t.columns, Describes(entry, t), NEW change \in EventsOf(t)
    PROVE  LET row == DataField(change)
               columns == ToSet(entry.table.destination.columns)
           IN  /\ change.table = t.table /\ change.lsn = 1
               /\ change.op \in {"c", "u", "d", "r"}
               /\ change # Tombstone
               /\ DOMAIN row = DOMAIN t.columns
               /\ \A c \in columns : c.name \in DOMAIN row
               /\ \A field \in ToSet(t.key) : field \in DOMAIN row /\ row[field] = field
               /\ change.op # "d" =>
                    \A c \in columns : row[c.name] = Null => c.nullable
<1> DEFINE row == DataField(change)
           columns == ToSet(entry.table.destination.columns)
<1>1. /\ \A field \in ToSet(t.key) : \E c \in columns : c.name = field /\ ~c.nullable
      /\ \A c \in columns : c.name \in DOMAIN t.columns /\ (t.columns[c.name] => c.nullable)
  BY DEF GoodEntry, Describes
<1> HIDE DEF columns
<1>2. \A field \in ToSet(t.key) : field \in DOMAIN t.columns /\ ~t.columns[field] /\ field # Null
  BY <1>1
<1>3. CASE \E op \in {"c", "u", "r"}, after \in RowsOf(t) :
             change = [op |-> op, table |-> t.table, lsn |-> 1, before |-> NoRow,
                       after |-> after]
  <2>1. PICK op \in {"c", "u", "r"}, after \in RowsOf(t) :
             change = [op |-> op, table |-> t.table, lsn |-> 1, before |-> NoRow,
                       after |-> after]
    BY <1>3
  <2>2. /\ change.op = op /\ change.table = t.table /\ change.lsn = 1 /\ change.after = after
        /\ DOMAIN change = {"op", "table", "lsn", "before", "after"}
    BY <2>1
  <2>3. change # Tombstone
    <3>1. DOMAIN Tombstone = {"tombstone"}
      BY DEF Tombstone
    <3> QED
      BY <2>2, <3>1
  <2>4. row = after
    BY <2>2 DEF DataField
  <2>5. PICK nulls \in SUBSET {c \in DOMAIN t.columns : t.columns[c]} :
            after = [c \in DOMAIN t.columns |-> IF c \in nulls THEN Null ELSE c]
    BY DEF RowsOf
  <2>6. \A field \in ToSet(t.key) : field \in DOMAIN after /\ after[field] = field
    BY <1>2, <2>5
  <2>7. \A c \in columns : after[c.name] = Null => c.nullable
    BY <1>1, <2>5
  <2> HIDE DEF row
  <2> QED
    BY <1>1, <2>2, <2>3, <2>4, <2>5, <2>6, <2>7 DEF row, columns
<1>4. CASE change = [op |-> "d", table |-> t.table, lsn |-> 1, before |-> KeyRow(t),
                     after |-> NoRow]
  <2>1. /\ change.op = "d" /\ change.table = t.table /\ change.lsn = 1
        /\ change.before = KeyRow(t)
        /\ DOMAIN change = {"op", "table", "lsn", "before", "after"}
    BY <1>4
  <2>2. change # Tombstone
    <3>1. DOMAIN Tombstone = {"tombstone"}
      BY DEF Tombstone
    <3> QED
      BY <2>1, <3>1
  <2>3. row = KeyRow(t)
    BY <2>1 DEF DataField
  <2>4. DOMAIN KeyRow(t) = DOMAIN t.columns
        /\ \A field \in ToSet(t.key) : KeyRow(t)[field] = field
    BY <1>2 DEF KeyRow
  <2> HIDE DEF row
  <2> QED
    BY <1>1, <1>2, <2>1, <2>2, <2>3, <2>4 DEF row, columns
<1> QED
  BY <1>3, <1>4 DEF EventsOf

\* The record of a change is parsed and stored under the key of its table t.
Arrives(tables, database, entry, t, change) ==
    LET definition == TableDefinition(entry, database)
        event == Parse(tables, entry.table.source.topic, change)
        insert == InsertRow(DefinitionOf(tables, database, event.table), event)
    IN  /\ event.outcome = "event"
        /\ insert.outcome = "row"
        /\ Insertable(definition, insert.row)
        /\ SortingKey(definition, insert.row) = [c \in ToSet(t.key) |-> c]
        /\ insert.row.deleted = IF change.op = "d" THEN 1 ELSE 0

LEMMA RecordStored ==
    ASSUME NEW tables, NEW i \in DOMAIN tables, NEW entry, tables[i] = entry,
           TopicRoutes(tables, entry.table.source.topic) = {i},
           \A j \in DOMAIN tables : tables[j].name = entry.name => j = i,
           GoodEntry(entry),
           NEW t, t.table # None, Null \notin DOMAIN t.columns, Describes(entry, t),
           NEW change \in EventsOf(t), NEW database
    PROVE  Arrives(tables, database, entry, t, change)
<1> DEFINE topic == entry.table.source.topic
           definition == TableDefinition(entry, database)
           event == Parse(tables, topic, change)
           insert == InsertRow(DefinitionOf(tables, database, event.table), event)
           row == DataField(change)
           columns == ToSet(entry.table.destination.columns)
           key == ToSet(t.key)
           stored == insert.row
<1>1. /\ change.table = t.table /\ change.lsn = 1
      /\ change.op \in {"c", "u", "d", "r"}
      /\ change # Tombstone
      /\ DOMAIN row = DOMAIN t.columns
      /\ \A c \in columns : c.name \in DOMAIN row
      /\ \A field \in key : field \in DOMAIN row /\ row[field] = field
      /\ change.op # "d" => \A c \in columns : row[c.name] = Null => c.nullable
  BY RowOfEvent
<1>2. entry.name = t.table /\ entry.table.primary_key_fields = t.key
  BY DEF Describes
<1>3. row # NoRow
  <2>1. DOMAIN row # {}
    BY <1>1 DEF GoodEntry
  <2>2. DOMAIN NoRow = {}
    BY DEF NoRow
  <2> QED
    BY <2>1, <2>2
<1>4. (CHOOSE j \in {i} : TRUE) = i
  OBVIOUS
<1>5. event = [outcome |-> "event", table |-> entry.name,
               primary_key |-> [field \in key |-> row[field]],
               data |-> IF change.op = "d" THEN NoRow ELSE row,
               version |-> 1, deleted |-> change.op = "d"]
  <2>1. ExtractTableName(topic, change) = ExpectedTableName(entry)
    BY <1>1, <1>2 DEF ExtractTableName, ExpectedTableName
  <2>2. HasPrimaryKey(entry, row) /\ PrimaryKeyOf(entry, row) = [field \in key |-> row[field]]
    BY <1>1, <1>2 DEF HasPrimaryKey, PrimaryKeyOf
  <2>3. HasDestinationFields(entry, row)
    BY <1>1 DEF HasDestinationFields
  <2>4. ValidVersion(change) /\ ExtractVersion(change) = 1
    BY <1>1 DEF ValidVersion, ExtractVersion
  <2>5. TopicRoutes(tables, topic) # {} /\ tables[CHOOSE j \in TopicRoutes(tables, topic) : TRUE] = entry
    BY <1>4
  <2> HIDE DEF row, topic, key
  <2> QED
    BY <1>1, <1>3, <2>1, <2>2, <2>3, <2>4, <2>5 DEF Parse, row
<1>6. DefinitionOf(tables, database, event.table) = definition
  <2>1. event.table = entry.name
    BY <1>5
  <2>2. (CHOOSE j \in DOMAIN tables : tables[j].name = entry.name) = i
    OBVIOUS
  <2> HIDE DEF event
  <2> QED
    BY <2>1, <2>2 DEF DefinitionOf
<1>7. /\ definition.business_columns = entry.table.destination.columns
      /\ definition.order_by_columns = t.key
      /\ ColumnNames(definition) = {c.name : c \in columns}
  BY <1>2 DEF TableDefinition, ColumnNames
<1>8. /\ \A field \in key : \E c \in columns : c.name = field /\ ~c.nullable
      /\ \A c \in columns : c.name \notin {"version", "deleted"}
  BY <1>2 DEF GoodEntry
<1>9. /\ event.outcome = "event" /\ event.version = 1 /\ event.deleted = (change.op = "d")
      /\ event.primary_key = [field \in key |-> row[field]]
      /\ event.data = IF change.op = "d" THEN NoRow ELSE row
  BY <1>5
<1> HIDE DEF event, definition, row, columns, key
<1> DEFINE values == IF change.op = "d" THEN [field \in key |-> row[field]]
                     ELSE [column \in {c.name : c \in columns} |-> row[column]]
<1>10. insert = [outcome |-> "row", row |-> WithTechnicalValues(values, event)]
  <2>1. CASE change.op = "d"
    <3>1. DeleteRow(definition, event) = WithTechnicalValues(values, event)
      <4>1. [column \in ToSet(definition.order_by_columns) |-> event.primary_key[column]]
              = [field \in key |-> row[field]]
        BY <1>7, <1>9 DEF key
      <4> QED
        BY <2>1, <4>1 DEF DeleteRow
    <3>2. event.deleted
      BY <1>9, <2>1
    <3> QED
      BY <1>6, <3>1, <3>2 DEF InsertRow
  <2>2. CASE change.op # "d"
    <3>1. ~event.deleted /\ event.data = row
      BY <1>9, <2>2
    <3>2. NullsAllowed(definition, event.data)
      BY <1>1, <1>7, <2>2, <3>1 DEF NullsAllowed, columns
    <3>3. UpsertRow(definition, event) = WithTechnicalValues(values, event)
      <4>1. [column \in ColumnNames(definition) |-> event.data[column]]
              = [column \in {c.name : c \in columns} |-> row[column]]
        BY <1>7, <3>1
      <4> QED
        BY <2>2, <4>1 DEF UpsertRow
    <3> QED
      BY <1>6, <3>1, <3>2, <3>3 DEF InsertRow
  <2> QED
    BY <2>1, <2>2
<1>11. insert.outcome = "row" /\ stored = WithTechnicalValues(values, event)
  BY <1>10
<1> HIDE DEF insert, stored
<1>12. \A name \in DOMAIN values : \E c \in columns : c.name = name
  BY <1>8 DEF values
<1>13. \A field \in key : field \in DOMAIN values /\ values[field] = field
  BY <1>1, <1>8
<1>14. \A c \in columns : c.name \in DOMAIN values /\ values[c.name] = Null => c.nullable
  <2>1. CASE change.op = "d"
    <3>1. \A c \in columns : c.name \in DOMAIN values => c.name \in key /\ values[c.name] = c.name
      BY <1>1, <2>1
    <3>2. \A c \in columns : c.name # Null
      BY <1>1
    <3> HIDE DEF values
    <3> QED
      BY <3>1, <3>2
  <2>2. CASE change.op # "d"
    BY <1>1, <2>2
  <2> QED
    BY <2>1, <2>2
<1> HIDE DEF values
<1>15. /\ DOMAIN stored = DOMAIN values \cup {"version", "deleted"}
       /\ \A name \in DOMAIN values : name \notin {"version", "deleted"} /\ stored[name] = values[name]
       /\ stored["deleted"] = IF change.op = "d" THEN 1 ELSE 0
  BY <1>8, <1>9, <1>11, <1>12 DEF WithTechnicalValues
<1>16. Insertable(definition, stored)
  <2>1. SUFFICES ASSUME NEW name \in DOMAIN stored \ {"version", "deleted"}
                 PROVE  \E c \in columns : c.name = name /\ (stored[name] = Null => c.nullable)
    BY <1>7 DEF Insertable, columns
  <2>2. name \in DOMAIN values /\ stored[name] = values[name]
    BY <1>15, <2>1
  <2>3. PICK c \in columns : c.name = name
    BY <1>12, <2>2
  <2> QED
    BY <1>14, <2>2, <2>3
<1>17. SortingKey(definition, stored) = [c \in key |-> c]
  <2>1. \A field \in key : stored[field] = field
    BY <1>13, <1>15
  <2> QED
    BY <1>7, <2>1 DEF SortingKey, key
<1> QED
  BY <1>9, <1>11, <1>15, <1>16, <1>17 DEF event, insert, stored, definition, topic, key, Arrives

\* A record of a source table that a running process's configuration describes is
\* parsed and stored under the key it has in the source, deletes included: no route, no
\* definition and no required column is missing for it, whatever has been configured.
THEOREM DeploymentRecordsArrive ==
    ASSUME TextOperations
    PROVE  Spec => []RecordsArrive
<1>1. ASSUME Inv PROVE RecordsArrive
  <2>1. SUFFICES ASSUME NEW w \in Workers, process[w].step = "running",
                        NEW entry \in ToSet(process[w].config.tables), NEW t \in SourceTables,
                        Describes(entry, t)
                 PROVE  LET tables == process[w].config.tables
                            database == process[w].config.clickhouse.database
                            topic == entry.table.source.topic
                            definition == TableDefinition(entry, database)
                        IN  /\ definition.table_name \in DOMAIN schema
                            /\ Parse(tables, topic, Tombstone) = Skipped
                            /\ \A change \in EventsOf(t) :
                                 LET event == Parse(tables, topic, change)
                                     insert == InsertRow(DefinitionOf(tables, database, event.table),
                                                         event)
                                 IN  /\ event.outcome = "event"
                                     /\ insert.outcome = "row"
                                     /\ Insertable(definition, insert.row)
                                     /\ SortingKey(definition, insert.row) = [c \in ToSet(t.key) |-> c]
                                     /\ insert.row.deleted = IF change.op = "d" THEN 1 ELSE 0
    BY DEF RecordsArrive
  <2> DEFINE p == process[w]
             tables == p.config.tables
             database == p.config.clickhouse.database
  <2>2. RunsPublished(p)
    <3>1. p # Down
      BY <2>1 DEF Down
    <3> QED
      BY <1>1, <3>1 DEF Inv, ProcessesOK
  <2>3. GoodConfig(p.from) /\ tables = WorkerTables(p.from) /\ p.pending = << >>
    BY <2>1, <2>2 DEF RunsPublished
  <2>4. entry.table.destination.table \in DOMAIN schema
    <3>1. entry.table.destination.table \in DOMAIN schema \/ entry \in ToSet(p.pending)
      BY <2>1, <2>2 DEF RunsPublished
    <3>2. ToSet(<< >>) = {}
      BY DEF ToSet
    <3> QED
      BY <2>3, <3>1, <3>2
  <2>5. PICK i \in DOMAIN tables :
          /\ tables[i] = entry
          /\ TopicRoutes(tables, entry.table.source.topic) = {i}
          /\ \A j \in DOMAIN tables : tables[j].name = entry.name => j = i
    <3> DEFINE c == p.from
    <3>1. GoodConfig(c) /\ entry \in ToSet(WorkerTables(c)) /\ tables = WorkerTables(c)
      BY <2>1, <2>3
    <3> HIDE DEF c, tables
    <3> QED
      BY <3>1, RouteOfEntry
  <2>6. GoodEntry(entry)
    BY <2>1, <2>3, RouteOfEntry
  <2>7. t.table # None /\ Null \notin DOMAIN t.columns
    BY SourceTablesAssumption
  <2> HIDE DEF tables, database
  <2>8. Parse(tables, entry.table.source.topic, Tombstone) = Skipped
    BY <2>5 DEF Parse
  <2>9. TableDefinition(entry, database).table_name \in DOMAIN schema
    BY <2>4 DEF TableDefinition
  <2>10. ASSUME NEW change \in EventsOf(t)
         PROVE  Arrives(tables, database, entry, t, change)
    BY <2>1, <2>5, <2>6, <2>7, RecordStored
  <2> QED
    BY <2>8, <2>9, <2>10, Zenon DEF tables, database, Arrives
<1>2. Spec => []Inv
  BY Invariance
<1> QED
  BY <1>1, <1>2, PTL

-----------------------------------------------------------------------------
(* Tables that are added in the console. *)

\* The parts of a text are texts.  A topic of three parts or more is a prefix, a namespace
\* and a table joined by dots, and what has been joined is found again, by splitting at
\* the dots as by removing the suffix; nothing is to strip from what begins and ends as
\* stripped texts do.
TopicOperations ==
    /\ Parts("") = <<"">>
    /\ \A text \in STRING : Strip(text) \in STRING
    /\ \A topic : Len(Parts(topic)) >= 3 =>
         LET n == Len(Parts(topic))
             namespace == Parts(topic)[n - 1]
             table == Parts(topic)[n]
         IN  /\ namespace \in STRING /\ table \in STRING
             /\ \E prefix \in STRING :
                  /\ topic = Topic(prefix, namespace, table)
                  /\ Parts(prefix) = SubSeq(Parts(topic), 1, n - 2)
    /\ \A prefix, namespace, table \in STRING :
         /\ EndsWith(Topic(prefix, namespace, table), Suffix(namespace, table))
         /\ WithoutDot(Before(Topic(prefix, namespace, table), Suffix(namespace, table))) = prefix
         /\ Len(Parts(namespace)) = 1 /\ Len(Parts(table)) = 1 =>
              Parts(Topic(prefix, namespace, table)) = Parts(prefix) \o <<namespace, table>>
    /\ \A prefix, namespace, table \in STRING :
         prefix # "" /\ Strip(Topic(prefix, namespace, table)) = Topic(prefix, namespace, table) =>
           \A s, t \in STRING : Strip(s) = s /\ Strip(t) = t /\ t # "" =>
             Strip(Topic(prefix, s, t)) = Topic(prefix, s, t)

LEMMA TopicJoined ==
    ASSUME TopicOperations, NEW prefix \in STRING, NEW namespace \in STRING, NEW table \in STRING
    PROVE  /\ EndsWith(Topic(prefix, namespace, table), Suffix(namespace, table))
           /\ WithoutDot(Before(Topic(prefix, namespace, table), Suffix(namespace, table))) = prefix
           /\ Len(Parts(namespace)) = 1 /\ Len(Parts(table)) = 1 =>
                Parts(Topic(prefix, namespace, table)) = Parts(prefix) \o <<namespace, table>>
BY Zenon DEF TopicOperations

LEMMA TopicStripped ==
    ASSUME TopicOperations, NEW prefix \in STRING, NEW namespace \in STRING, NEW table \in STRING,
           prefix # "",
           Strip(Topic(prefix, namespace, table)) = Topic(prefix, namespace, table)
    PROVE  \A s, t \in STRING : Strip(s) = s /\ Strip(t) = t /\ t # "" =>
             Strip(Topic(prefix, s, t)) = Topic(prefix, s, t)
<1>1. \A p, u, v \in STRING :
         p # "" /\ Strip(Topic(p, u, v)) = Topic(p, u, v) =>
           \A s, t \in STRING : Strip(s) = s /\ Strip(t) = t /\ t # "" =>
             Strip(Topic(p, s, t)) = Topic(p, s, t)
  BY DEF TopicOperations
<1> QED
  BY <1>1, Zenon

\* The form takes the prefix that the compiler takes.
LEMMA ReusedPrefix ==
    ASSUME TextOperations, TopicOperations, NEW t, GoodTable(t), TopicMatches(t)
    PROVE  LET prefix == ReusablePrefix(Shown(t))
           IN  /\ prefix \in STRING /\ prefix # ""
               /\ Parts(prefix) = TopicPrefixForTable(t)
               /\ t.source_schema \in STRING /\ t.source_table \in STRING
               /\ t.cdc_topic = Topic(prefix, t.source_schema, t.source_table)
<1> DEFINE parts == Parts(t.cdc_topic)
           n == Len(parts)
           shown == Shown(t)
<1>1. /\ n >= 3 /\ SubSeq(parts, n - 1, n) = <<t.source_schema, t.source_table>>
      /\ TopicPrefixForTable(t) = SubSeq(parts, 1, n - 2)
      /\ TopicPrefixForTable(t) # <<"">>
  BY DEF TopicMatches, TableIdentifier, TopicPrefixForTable
<1>2. IsList(parts) /\ n \in Nat
  BY ListIs DEF TextOperations
<1>3. parts[n - 1] = t.source_schema /\ parts[n] = t.source_table
  <2>1. SubSeq(parts, n - 1, n)[1] = parts[n - 1] /\ SubSeq(parts, n - 1, n)[2] = parts[n]
    <3>1. DOMAIN parts = 1 .. n /\ n \in Nat /\ n >= 3
      BY <1>1, <1>2, ListIs
    <3> HIDE DEF parts, n
    <3>2. n - 1 \in Int /\ n \in Int /\ \A i \in (n - 1) .. n : parts[i] \in ToSet(parts)
      BY <3>1 DEF ToSet
    <3>3. \A i \in 1 .. (n - (n - 1) + 1) :
            SubSeq(parts, n - 1, n)[i] = parts[(n - 1) + i - 1]
      BY <3>2, SubSeqProperties
    <3>4. 1 \in 1 .. (n - (n - 1) + 1) /\ 2 \in 1 .. (n - (n - 1) + 1)
          /\ (n - 1) + 1 - 1 = n - 1 /\ (n - 1) + 2 - 1 = n
      BY <1>2
    <3> QED
      BY <3>3, <3>4
  <2> HIDE DEF parts, n
  <2>2. <<t.source_schema, t.source_table>>[1] = t.source_schema
        /\ <<t.source_schema, t.source_table>>[2] = t.source_table
    OBVIOUS
  <2> QED
    BY <1>1, <2>1, <2>2
<1>4. t.source_schema \in STRING /\ t.source_table \in STRING
  BY <1>1, <1>3 DEF TopicOperations
<1>5. PICK prefix \in STRING :
        /\ t.cdc_topic = Topic(prefix, t.source_schema, t.source_table)
        /\ Parts(prefix) = SubSeq(parts, 1, n - 2)
  BY <1>1, <1>3 DEF TopicOperations
<1>6. /\ shown.cdcTopic = t.cdc_topic
      /\ shown.sourceSchema = t.source_schema /\ shown.sourceTable = t.source_table
  BY DEF Shown, TableFormValues, ConfiguredTableResponse
<1>7. /\ Strip(t.source_schema) = t.source_schema /\ t.source_schema # ""
      /\ Strip(t.source_table) = t.source_table /\ t.source_table # ""
  BY TextsOfGoodTable DEF TableTexts
<1> HIDE DEF shown, parts, n
<1>8. TopicSuffix(shown) = Suffix(t.source_schema, t.source_table)
  BY <1>6, <1>7 DEF TopicSuffix
<1>9. /\ EndsWith(t.cdc_topic, Suffix(t.source_schema, t.source_table))
      /\ WithoutDot(Before(t.cdc_topic, Suffix(t.source_schema, t.source_table))) = prefix
  <2>1. /\ EndsWith(Topic(prefix, t.source_schema, t.source_table),
                    Suffix(t.source_schema, t.source_table))
        /\ WithoutDot(Before(Topic(prefix, t.source_schema, t.source_table),
                             Suffix(t.source_schema, t.source_table))) = prefix
    BY <1>4, TopicJoined, Zenon
  <2> QED
    BY <1>5, <2>1, Zenon
<1>10. ReusablePrefix(shown) = prefix
  BY <1>6, <1>7, <1>8, <1>9 DEF ReusablePrefix, HasReusablePattern, NotBlank
<1>11. prefix # ""
  BY <1>1, <1>5 DEF TopicOperations
<1> QED
  BY <1>1, <1>4, <1>5, <1>10, <1>11 DEF shown

LEMMA FirstOfList ==
    ASSUME NEW list, IsList(list), list # << >>
    PROVE  1 \in DOMAIN list /\ DOMAIN list \in SUBSET Nat
BY ListIs

\* The topic that the form makes up for a table has the prefix of a table that is there.
LEMMA InferredTopic ==
    ASSUME TextOperations, TopicOperations, NEW c, GoodConfig(c),
           \A t \in ToSet(c.tables) : TopicMatches(t),
           NEW name \in STRING, NEW namespace \in STRING,
           Strip(name) = name, Strip(namespace) = namespace, name # "", namespace # "",
           Len(Parts(name)) = 1, Len(Parts(namespace)) = 1
    PROVE  LET topic == InferCdcTopic(FormValues(SyncConfigResponse(c)).tables, namespace, name)
           IN  /\ Strip(topic) = topic
               /\ \E t \in ToSet(c.tables) :
                    Parts(topic) = TopicPrefixForTable(t) \o <<namespace, name>>
<1> DEFINE tables == c.tables
           shown == FormValues(SyncConfigResponse(c)).tables
           reusable == {i \in DOMAIN shown : ReusablePrefix(shown[i]) # ""}
           first == CHOOSE i \in reusable : \A j \in reusable : i <= j
           prefix == ReusablePrefix(shown[first])
<1>1. shown = [i \in DOMAIN tables |-> Shown(tables[i])]
  BY DEF FormValues, SyncConfigResponse, Map, Shown
<1>2. /\ IsList(tables) /\ tables # << >>
      /\ \A i \in DOMAIN tables : tables[i] \in ToSet(tables) /\ GoodTable(tables[i])
  BY TablesOfGood DEF GoodConfig, ListsOf, ValidSyncConfig, ToSet
<1> HIDE DEF tables, shown
<1>3. Len(tables) \in Nat \ {0} /\ DOMAIN tables = 1 .. Len(tables)
  BY <1>2, ListIs
<1>4. reusable = DOMAIN tables
  <2>1. \A i \in DOMAIN tables : ReusablePrefix(Shown(tables[i])) # ""
    BY <1>2, ReusedPrefix DEF tables
  <2> QED
    BY <1>1, <2>1
<1>5. reusable # {} /\ reusable \in SUBSET Nat
  <2> HIDE DEF reusable
  <2>1. 1 \in DOMAIN tables /\ DOMAIN tables \in SUBSET Nat
    BY <1>2, FirstOfList
  <2> QED
    BY <1>4, <2>1, Zenon
<1>6. first \in reusable
  <2>1. \E i \in reusable : \A j \in reusable : i <= j
    <3> HIDE DEF reusable
    <3> QED
      BY <1>5, LeastElement
  <2> HIDE DEF reusable
  <2> QED
    BY <2>1
<1> HIDE DEF first
<1> DEFINE t == tables[first]
<1>7. /\ t \in ToSet(tables) /\ GoodTable(t) /\ TopicMatches(t)
      /\ prefix = ReusablePrefix(Shown(t))
  BY <1>1, <1>2, <1>4, <1>6 DEF tables
<1> HIDE DEF t
<1>8. /\ prefix \in STRING /\ prefix # ""
      /\ Parts(prefix) = TopicPrefixForTable(t)
      /\ t.source_schema \in STRING /\ t.source_table \in STRING
      /\ t.cdc_topic = Topic(prefix, t.source_schema, t.source_table)
  BY <1>7, ReusedPrefix
<1>9. InferCdcTopic(shown, namespace, name) = Topic(prefix, namespace, name)
  BY <1>5 DEF InferCdcTopic, first
<1> HIDE DEF prefix
<1>10. Strip(t.cdc_topic) = t.cdc_topic
  BY <1>7, TextsOfGoodTable DEF TableTexts
<1>11. Strip(Topic(prefix, namespace, name)) = Topic(prefix, namespace, name)
  <2>1. Strip(Topic(prefix, t.source_schema, t.source_table))
          = Topic(prefix, t.source_schema, t.source_table)
    BY <1>8, <1>10, Zenon
  <2>2. \A u, v \in STRING : Strip(u) = u /\ Strip(v) = v /\ v # "" =>
          Strip(Topic(prefix, u, v)) = Topic(prefix, u, v)
    BY <1>8, <2>1, TopicStripped, Zenon
  <2> QED
    BY <2>2, Zenon
<1>12. Parts(Topic(prefix, namespace, name)) = Parts(prefix) \o <<namespace, name>>
  BY <1>8, TopicJoined
<1> QED
  BY <1>7, <1>8, <1>9, <1>11, <1>12 DEF shown, tables

\* What the form sends for a table that has been added.
AddedTable(topic, namespace, name) ==
    [logical_name |-> name, source_schema |-> namespace, source_table |-> name,
     cdc_topic |-> topic, destination_table |-> name, primary_key_fields |-> <<"id">>,
     destination_columns |->
         <<[name |-> "id", destination_type |-> "String", nullable |-> FALSE]>>,
     enabled |-> TRUE]

LEMMA OnlyElement ==
    ASSUME NEW x
    PROVE  /\ IsList(<<x>>) /\ <<x>> # << >> /\ DOMAIN <<x>> = {1} /\ <<x>>[1] = x
           /\ ToSet(<<x>>) = {x} /\ Distinct(<<x>>)
           /\ <<x>> = [i \in {1} |-> x]
<1>1. <<x>> \in Seq({x}) /\ <<x>> # << >> /\ DOMAIN <<x>> = {1} /\ <<x>>[1] = x
  OBVIOUS
<1>2. IsList(<<x>>)
  BY <1>1, SeqIsList
<1>3. ToSet(<<x>>) = {x} /\ Distinct(<<x>>)
  BY <1>1 DEF ToSet, Distinct
<1>4. <<x>> = [i \in {1} |-> x]
  <2>1. Len(<<x>>) = 1 /\ 1 .. 1 = {1}
    OBVIOUS
  <2>2. <<x>> = [i \in 1 .. Len(<<x>>) |-> <<x>>[i]]
    BY <1>2, ListIs
  <2>3. \A i \in {1} : <<x>>[i] = x
    BY <1>1
  <2> QED
    BY <2>1, <2>2, <2>3
<1> QED
  BY <1>1, <1>2, <1>3, <1>4

LEMMA AddedTableIsGood ==
    ASSUME TextOperations, NEW topic, NEW namespace, NEW name,
           Strip(topic) = topic, Strip(namespace) = namespace, Strip(name) = name,
           topic # "", namespace # "", name # ""
    PROVE  LET t == AddedTable(topic, namespace, name)
           IN  /\ GoodTable(t)
               /\ Distinct(t.primary_key_fields) /\ UniqueBy(t.destination_columns, "name")
<1> DEFINE t == AddedTable(topic, namespace, name)
           column == [name |-> "id", destination_type |-> "String", nullable |-> FALSE]
<1>1. /\ t.logical_name = name /\ t.source_schema = namespace /\ t.source_table = name
      /\ t.cdc_topic = topic /\ t.destination_table = name
      /\ t.primary_key_fields = <<"id">> /\ t.destination_columns = <<column>>
      /\ t.enabled = TRUE
      /\ t = [logical_name |-> name, source_schema |-> namespace, source_table |-> name,
              cdc_topic |-> topic, destination_table |-> name,
              primary_key_fields |-> <<"id">>, destination_columns |-> <<column>>,
              enabled |-> TRUE]
  BY DEF AddedTable
<1>2. Strip("id") = "id" /\ Strip("String") = "String"
  BY KeywordsAssumption
<1>3. /\ IsList(<<"id">>) /\ <<"id">> # << >> /\ DOMAIN <<"id">> = {1} /\ <<"id">>[1] = "id"
      /\ ToSet(<<"id">>) = {"id"} /\ Distinct(<<"id">>) /\ <<"id">> = [i \in {1} |-> "id"]
  BY OnlyElement
<1>4. /\ <<column>> # << >> /\ DOMAIN <<column>> = {1} /\ <<column>>[1] = column
      /\ ToSet(<<column>>) = {column} /\ <<column>> = [i \in {1} |-> column]
  BY OnlyElement
<1>5. DestinationColumn(column) = column
  BY <1>2 DEF DestinationColumn
<1>6. ValidDestinationColumn(column)
  BY DEF ValidDestinationColumn, NonEmpty, TechnicalColumns
<1>7. column.name = "id" /\ column.nullable = FALSE
  OBVIOUS
<1> HIDE DEF t, column
<1>8. Map(<<"id">>, Strip) = <<"id">>
  <2>1. Map(<<"id">>, Strip) = [i \in {1} |-> Strip(<<"id">>[i])]
    BY <1>3 DEF Map
  <2>2. \A i \in {1} : Strip(<<"id">>[i]) = "id"
    BY <1>2, <1>3
  <2> QED
    BY <1>3, <2>1, <2>2
<1>9. Map(<<column>>, DestinationColumn) = <<column>>
  <2>1. Map(<<column>>, DestinationColumn) = [i \in {1} |-> DestinationColumn(<<column>>[i])]
    BY <1>4 DEF Map
  <2>2. \A i \in {1} : DestinationColumn(<<column>>[i]) = column
    BY <1>4, <1>5
  <2> QED
    BY <1>4, <2>1, <2>2
<1>10. t = ConfiguredTable(t)
  BY <1>1, <1>8, <1>9 DEF ConfiguredTable
<1>11. Distinct(Map(<<column>>, LAMBDA c : c.name)) /\ UniqueBy(<<column>>, "name")
  BY <1>4 DEF UniqueBy, Map, Distinct
<1>12. ValidConfiguredTable(t)
  <2>1. \A field \in TableTexts : NonEmpty(t[field])
    BY <1>1 DEF TableTexts, NonEmpty
  <2>2. ForAll(<<"id">>, NonEmpty) /\ ForAll(<<column>>, ValidDestinationColumn)
    BY <1>3, <1>4, <1>6 DEF ForAll, NonEmpty
  <2>3. \A field \in ToSet(<<"id">>) : \E c \in ToSet(<<column>>) : c.name = field /\ ~c.nullable
    BY <1>3, <1>4, <1>7
  <2> QED
    BY <1>1, <1>3, <1>4, <1>11, <2>1, <2>2, <2>3 DEF ValidConfiguredTable
<1> QED
  BY <1>1, <1>3, <1>10, <1>11, <1>12 DEF GoodTable, t

LEMMA AppendedList ==
    ASSUME NEW list, IsList(list), NEW x
    PROVE  /\ IsList(Append(list, x))
           /\ Len(Append(list, x)) = Len(list) + 1 /\ Len(list) \in Nat
           /\ DOMAIN list = 1 .. Len(list)
           /\ DOMAIN Append(list, x) = 1 .. (Len(list) + 1)
           /\ \A i \in 1 .. Len(list) : Append(list, x)[i] = list[i]
           /\ Append(list, x)[Len(list) + 1] = x
           /\ ToSet(Append(list, x)) = ToSet(list) \cup {x}
<1> DEFINE T == ToSet(list) \cup {x}
           all == Append(list, x)
<1>1. list \in Seq(T)
  BY DEF IsList
<1>2. /\ all \in Seq(T) /\ Len(all) = Len(list) + 1 /\ Len(list) \in Nat
      /\ DOMAIN list = 1 .. Len(list) /\ DOMAIN all = 1 .. (Len(list) + 1)
      /\ \A i \in 1 .. Len(list) : all[i] = list[i]
      /\ all[Len(list) + 1] = x
  <2>1. x \in T
    OBVIOUS
  <2> HIDE DEF T
  <2> QED
    BY <1>1, <2>1
<1> HIDE DEF all
<1>3. IsList(all)
  BY <1>2, SeqIsList
<1>4. ToSet(all) = ToSet(list) \cup {x}
  BY <1>2 DEF ToSet
<1> QED
  BY <1>2, <1>3, <1>4 DEF all

LEMMA UniqueWithAnother ==
    ASSUME NEW tables, IsList(tables), NEW field, UniqueBy(tables, field), NEW t,
           \A s \in ToSet(tables) : s[field] # t[field]
    PROVE  UniqueBy(Append(tables, t), field)
<1> DEFINE all == Append(tables, t)
           n == Len(tables)
<1>1. /\ n \in Nat /\ DOMAIN tables = 1 .. n /\ DOMAIN all = 1 .. (n + 1)
      /\ \A i \in 1 .. n : all[i] = tables[i]
      /\ all[n + 1] = t
  BY AppendedList
<1>2. \A i \in 1 .. n : tables[i][field] # t[field]
  BY <1>1 DEF ToSet
<1>3. \A i, j \in 1 .. n : tables[i][field] = tables[j][field] => i = j
  BY <1>1 DEF UniqueBy, Distinct, Map
<1> HIDE DEF all, n
<1>4. \A i \in 1 .. (n + 1) : i \in 1 .. n \/ i = n + 1
  BY <1>1
<1>5. \A i, j \in DOMAIN all : all[i][field] = all[j][field] => i = j
  BY <1>1, <1>2, <1>3, <1>4
<1> QED
  BY <1>5 DEF UniqueBy, Distinct, Map, all

WithAnother(c, t) ==
    [sync_mode |-> c.sync_mode, tables |-> Append(c.tables, t), enabled |-> c.enabled]

\* A configuration with one more good table is good.
LEMMA GoodWithAnother ==
    ASSUME NEW c, GoodConfig(c), NEW t, GoodTable(t),
           Distinct(t.primary_key_fields), UniqueBy(t.destination_columns, "name"),
           \A s \in ToSet(c.tables) : /\ s.logical_name # t.logical_name
                                      /\ s.cdc_topic # t.cdc_topic
                                      /\ s.destination_table # t.destination_table
    PROVE  GoodConfig(WithAnother(c, t))
<1> DEFINE tables == c.tables
           all == Append(tables, t)
           d == WithAnother(c, t)
           n == Len(tables)
<1>1. /\ IsList(tables) /\ \A s \in ToSet(tables) : IsList(s.primary_key_fields)
      /\ ForAll(tables, ValidConfiguredTable) /\ c.sync_mode = "realtime"
      /\ UniqueBy(tables, "logical_name") /\ UniqueBy(tables, "cdc_topic")
      /\ UniqueBy(tables, "destination_table")
      /\ ForAll(tables, LAMBDA s : /\ Distinct(s.primary_key_fields)
                                   /\ UniqueBy(s.destination_columns, "name"))
  BY DEF GoodConfig, ListsOf, ValidSyncConfig, ConstraintsHold
<1>2. /\ c = [sync_mode |-> c.sync_mode, tables |-> Map(tables, ConfiguredTable),
              enabled |-> c.enabled]
  BY DEF GoodConfig, SyncConfig
<1>3. /\ d = [sync_mode |-> c.sync_mode, tables |-> all, enabled |-> c.enabled]
      /\ d.tables = all /\ d.sync_mode = c.sync_mode /\ d.enabled = c.enabled
  BY DEF WithAnother
<1>4. /\ n \in Nat /\ DOMAIN tables = 1 .. n /\ DOMAIN all = 1 .. (n + 1)
      /\ \A i \in 1 .. n : all[i] = tables[i]
      /\ all[n + 1] = t
      /\ IsList(all) /\ ToSet(all) = ToSet(tables) \cup {t}
  BY <1>1, AppendedList
<1>5. tables = Map(tables, ConfiguredTable)
  BY <1>2
<1>6. \A i \in 1 .. n : tables[i] = ConfiguredTable(tables[i])
  <2> HIDE DEF tables
  <2>1. tables = [i \in DOMAIN tables |-> ConfiguredTable(tables[i])]
    BY <1>5 DEF Map
  <2> HIDE DEF n
  <2> QED
    BY <1>4, <2>1
<1>7. /\ UniqueBy(all, "logical_name") /\ UniqueBy(all, "cdc_topic")
      /\ UniqueBy(all, "destination_table")
  BY <1>1, UniqueWithAnother
<1>8. \A i \in 1 .. n : /\ ValidConfiguredTable(tables[i])
                        /\ Distinct(tables[i].primary_key_fields)
                        /\ UniqueBy(tables[i].destination_columns, "name")
  BY <1>1, <1>4 DEF ForAll
<1> HIDE DEF all, n, tables, d
<1>9. \A i \in DOMAIN all : i \in 1 .. n \/ i = n + 1
  BY <1>4
<1>10. all = Map(all, ConfiguredTable)
  <2>1. \A i \in DOMAIN all : all[i] = ConfiguredTable(all[i])
    BY <1>4, <1>6, <1>9 DEF GoodTable
  <2>2. all = [i \in DOMAIN all |-> all[i]]
    BY <1>4, ListIs
  <2> QED
    BY <2>1, <2>2 DEF Map
<1>11. ForAll(all, ValidConfiguredTable)
       /\ ForAll(all, LAMBDA s : /\ Distinct(s.primary_key_fields)
                                 /\ UniqueBy(s.destination_columns, "name"))
  BY <1>4, <1>8, <1>9 DEF ForAll, GoodTable
<1>12. \A s \in ToSet(all) : IsList(s.primary_key_fields)
  BY <1>1, <1>4 DEF GoodTable
<1>13. all # << >>
  <2>1. n + 1 \in DOMAIN all
    BY <1>4
  <2> QED
    BY <2>1
<1>14. d = SyncConfig(d)
  BY <1>3, <1>10 DEF SyncConfig
<1> QED
  BY <1>1, <1>3, <1>4, <1>7, <1>11, <1>12, <1>13, <1>14
     DEF GoodConfig, ListsOf, ValidSyncConfig, ConstraintsHold, d, all, tables

LEMMA FilledTable ==
    ASSUME NEW name, NEW namespace, NEW topic, NEW keys, NEW first, NEW type, NEW enabled,
           NEW t, t = [logicalName |-> name, sourceSchema |-> namespace, sourceTable |-> name,
                       cdcTopic |-> topic, destinationTable |-> name,
                       primaryKeyFields |-> keys, destinationColumns |-> <<first>>,
                       enabled |-> enabled]
    PROVE  [t EXCEPT !.destinationColumns[1].destinationType = type]
             = [logicalName |-> name, sourceSchema |-> namespace, sourceTable |-> name,
                cdcTopic |-> topic, destinationTable |-> name, primaryKeyFields |-> keys,
                destinationColumns |-> <<[first EXCEPT !.destinationType = type]>>,
                enabled |-> enabled]
<1> DEFINE filled == [first EXCEPT !.destinationType = type]
           columns == [t.destinationColumns EXCEPT ![1] = [@ EXCEPT !.destinationType = type]]
<1>1. t.destinationColumns = <<first>> /\ <<first>>[1] = first
  BY OnlyElement
<1>2. columns = <<filled>>
  <2>1. <<first>> = [i \in {1} |-> first] /\ <<filled>> = [i \in {1} |-> filled]
    BY OnlyElement
  <2>2. columns = [<<first>> EXCEPT ![1] = filled]
    BY <1>1
  <2> HIDE DEF filled, columns
  <2> QED
    BY <2>1, <2>2
<1>3. [t EXCEPT !.destinationColumns[1].destinationType = type]
        = [t EXCEPT !.destinationColumns = columns]
  OBVIOUS
<1> HIDE DEF columns
<1> QED
  BY <1>2, <1>3

\* The request that is sent for the form with the table.
LEMMA PayloadWithTable ==
    ASSUME TextOperations, NEW c, GoodConfig(c), KeysWithoutCommas(c),
           NEW name, NEW namespace, NotBlank(name), NotBlank(namespace), NEW topic,
           topic = InferCdcTopic(FormValues(SyncConfigResponse(c)).tables,
                                 Strip(namespace), Strip(name)),
           Strip(topic) = topic
    PROVE  Payload(WithTable(FormValues(SyncConfigResponse(c)), name, namespace, "String"))
             = WithAnother(c, AddedTable(topic, Strip(namespace), Strip(name)))
<1> DEFINE form == FormValues(SyncConfigResponse(c))
           tables == c.tables
           shown == form.tables
           column == [name |-> "id", destinationType |-> "String", nullable |-> FALSE]
           values == [logicalName |-> Strip(name), sourceSchema |-> Strip(namespace),
                      sourceTable |-> Strip(name), cdcTopic |-> topic,
                      destinationTable |-> Strip(name), primaryKeyFields |-> <<"id">>,
                      destinationColumns |-> <<column>>, enabled |-> TRUE]
           t == AddedTable(topic, Strip(namespace), Strip(name))
           added == WithTable(form, name, namespace, "String")
           new == CreateConfiguredTableFromName(name, namespace, shown)
<1>1. Payload(form) = c
  BY ShownConfig
<1>2. /\ form = [syncMode |-> c.sync_mode, tables |-> Map(Map(tables, ConfiguredTableResponse), TableFormValues),
                 enabled |-> c.enabled]
  BY DEF FormValues, SyncConfigResponse
<1>3. [new EXCEPT !.destinationColumns[1].destinationType = "String"] = values
  <2> DEFINE first == [name |-> "id", destinationType |-> "", nullable |-> FALSE]
  <2>1. new = [logicalName |-> Strip(name), sourceSchema |-> Strip(namespace),
               sourceTable |-> Strip(name), cdcTopic |-> topic,
               destinationTable |-> Strip(name), primaryKeyFields |-> <<"id">>,
               destinationColumns |-> <<first>>, enabled |-> TRUE]
    BY DEF CreateConfiguredTableFromName
  <2>2. [first EXCEPT !.destinationType = "String"] = column
    <3>1. ASSUME NEW field, NEW nullable
          PROVE  [[name |-> field, destinationType |-> "", nullable |-> nullable]
                     EXCEPT !.destinationType = "String"]
                   = [name |-> field, destinationType |-> "String", nullable |-> nullable]
      <4>1. ASSUME NEW before, NEW type, before = "", type = "String"
            PROVE  [[name |-> field, destinationType |-> before, nullable |-> nullable]
                       EXCEPT !.destinationType = type]
                     = [name |-> field, destinationType |-> type, nullable |-> nullable]
        OBVIOUS
      <4> QED
        BY <4>1
    <3> QED
      BY <3>1
  <2> HIDE DEF first, column
  <2>3. ASSUME NEW keys, NEW enabled,
               new = [logicalName |-> Strip(name), sourceSchema |-> Strip(namespace),
                      sourceTable |-> Strip(name), cdcTopic |-> topic,
                      destinationTable |-> Strip(name), primaryKeyFields |-> keys,
                      destinationColumns |-> <<first>>, enabled |-> enabled]
        PROVE  [new EXCEPT !.destinationColumns[1].destinationType = "String"]
                 = [logicalName |-> Strip(name), sourceSchema |-> Strip(namespace),
                    sourceTable |-> Strip(name), cdcTopic |-> topic,
                    destinationTable |-> Strip(name), primaryKeyFields |-> keys,
                    destinationColumns |-> <<column>>, enabled |-> enabled]
    <3> HIDE DEF new
    <3> QED
      BY <2>2, <2>3, FilledTable
  <2> HIDE DEF new
  <2> QED
    BY <2>1, <2>3
<1>4. added = [form EXCEPT !.tables = Append(shown, values)]
  BY <1>3 DEF WithTable
<1>5. TablePayload(values) = t
  <2>1. Strip("id") = "id" /\ Strip("String") = "String" /\ ~Comma("id")
    BY KeywordsAssumption
  <2>2. /\ IsList(<<"id">>) /\ DOMAIN <<"id">> = {1} /\ <<"id">>[1] = "id"
        /\ <<"id">> = [i \in {1} |-> "id"]
    BY OnlyElement
  <2>3. SplitCommaSeparatedText(<<"id">>) = <<"id">>
    <3>1. Map(<<"id">>, Strip) = <<"id">>
      <4>1. Map(<<"id">>, Strip) = [i \in {1} |-> Strip(<<"id">>[i])]
        BY <2>2 DEF Map
      <4>2. \A i \in {1} : Strip(<<"id">>[i]) = "id"
        BY <2>1, <2>2
      <4> QED
        BY <2>2, <4>1, <4>2
    <3>2. \A i \in DOMAIN <<"id">> : ~Comma(<<"id">>[i]) /\ <<"id">>[i] # ""
      BY <2>1, <2>2
    <3> QED
      BY <2>2, <3>1, <3>2, SplitOfNames
  <2> DEFINE stored == [name |-> "id", destination_type |-> "String", nullable |-> FALSE]
  <2>4. Map(<<column>>, ColumnPayload) = <<stored>>
    <3>1. /\ DOMAIN <<column>> = {1} /\ <<column>>[1] = column
          /\ <<stored>> = [i \in {1} |-> stored]
      BY OnlyElement
    <3>2. ColumnPayload(column) = stored
      BY <2>1 DEF ColumnPayload
    <3> HIDE DEF column, stored
    <3>3. Map(<<column>>, ColumnPayload) = [i \in {1} |-> ColumnPayload(<<column>>[i])]
      BY <3>1 DEF Map
    <3>4. \A i \in {1} : ColumnPayload(<<column>>[i]) = stored
      BY <3>1, <3>2
    <3> QED
      BY <3>1, <3>3, <3>4
  <2>5. Strip(Strip(name)) = Strip(name) /\ Strip(Strip(namespace)) = Strip(namespace)
    BY DEF TextOperations
  <2> HIDE DEF column
  <2> QED
    BY <2>3, <2>4, <2>5 DEF TablePayload, AddedTable
<1>6. IsList(tables)
  BY DEF GoodConfig, ListsOf
<1>7. shown = [i \in DOMAIN tables |-> shown[i]]
  BY <1>2 DEF Map
<1> HIDE DEF values, shown, tables
<1>8. IsList(shown) /\ Len(shown) = Len(tables)
  BY <1>6, <1>7, ListOfSameLength
<1> DEFINE n == Len(tables)
<1>9. /\ n \in Nat /\ DOMAIN shown = 1 .. n /\ DOMAIN tables = 1 .. n
      /\ DOMAIN Append(shown, values) = 1 .. (n + 1)
      /\ \A i \in 1 .. n : Append(shown, values)[i] = shown[i]
      /\ Append(shown, values)[n + 1] = values
      /\ Len(Append(tables, t)) = n + 1
      /\ \A i \in 1 .. n : Append(tables, t)[i] = tables[i]
      /\ Append(tables, t)[n + 1] = t /\ IsList(Append(tables, t))
  BY <1>6, <1>8, AppendedList
<1>10. \A i \in 1 .. n : TablePayload(shown[i]) = tables[i]
  <2>1. Map(shown, TablePayload) = tables
    BY <1>1 DEF Payload, shown, tables
  <2>2. \A i \in DOMAIN shown : Map(shown, TablePayload)[i] = TablePayload(shown[i])
    BY DEF Map
  <2> QED
    BY <1>9, <2>1, <2>2
<1>11. Map(Append(shown, values), TablePayload) = Append(tables, t)
  <2> DEFINE all == Append(shown, values)
             after == Append(tables, t)
  <2>1. after = [i \in 1 .. (n + 1) |-> after[i]]
    BY <1>9, ListIs
  <2>2. Map(all, TablePayload) = [i \in 1 .. (n + 1) |-> TablePayload(all[i])]
    BY <1>9 DEF Map
  <2>3. \A i \in 1 .. (n + 1) : i \in 1 .. n \/ i = n + 1
    BY <1>9
  <2> HIDE DEF t, n
  <2>4. \A i \in 1 .. (n + 1) : TablePayload(all[i]) = after[i]
    BY <1>5, <1>9, <1>10, <2>3
  <2> HIDE DEF all, after
  <2>5. Map(all, TablePayload) = after
    BY <2>1, <2>2, <2>4
  <2> QED
    BY <2>5 DEF all, after
<1>12. Strip(c.sync_mode) = c.sync_mode
  <2>1. c.sync_mode = "realtime"
    BY DEF GoodConfig, ValidSyncConfig
  <2> QED
    BY <2>1, KeywordsAssumption
<1>13. /\ added.syncMode = c.sync_mode /\ added.enabled = c.enabled
       /\ added.tables = Append(shown, values)
  BY <1>2, <1>4
<1> HIDE DEF added, t, form
<1>14. Payload(added) = [sync_mode |-> c.sync_mode, tables |-> Append(tables, t),
                         enabled |-> c.enabled]
  BY <1>11, <1>12, <1>13 DEF Payload
<1> QED
  BY <1>14 DEF WithAnother, added, t, form, tables

LEMMA FrontAndTwo ==
    ASSUME NEW T, NEW front \in Seq(T), NEW a \in T, NEW b \in T
    PROVE  LET all == front \o <<a, b>>
               n == Len(all)
           IN  /\ n = Len(front) + 2
               /\ SubSeq(all, 1, n - 2) = front
               /\ SubSeq(all, n - 1, n) = <<a, b>>
<1> DEFINE back == <<a, b>>
           all == front \o back
           m == Len(front)
<1>1. back \in Seq(T) /\ Len(back) = 2 /\ back[1] = a /\ back[2] = b
  OBVIOUS
<1> HIDE DEF back
<1>2. /\ all \in Seq(T) /\ Len(all) = m + 2 /\ m \in Nat
      /\ \A i \in 1 .. (m + 2) : all[i] = IF i <= m THEN front[i] ELSE back[i - m]
  <2>1. /\ front \o back \in Seq(T) /\ Len(front \o back) = Len(front) + Len(back)
        /\ \A i \in 1 .. Len(front) + Len(back) :
             (front \o back)[i] = IF i <= Len(front) THEN front[i] ELSE back[i - Len(front)]
    BY <1>1, ConcatProperties
  <2> QED
    BY <1>1, <2>1
<1> HIDE DEF all, m
<1>3. all[m + 1] = a /\ all[m + 2] = b /\ \A i \in 1 .. m : all[i] = front[i]
  <2>1. m + 1 \in 1 .. (m + 2) /\ m + 2 \in 1 .. (m + 2) /\ ~(m + 1 <= m) /\ ~(m + 2 <= m)
        /\ (m + 1) - m = 1 /\ (m + 2) - m = 2
    BY <1>2
  <2>2. \A i \in 1 .. m : i \in 1 .. (m + 2) /\ i <= m
    BY <1>2
  <2> QED
    BY <1>1, <1>2, <2>1, <2>2
<1>4. \A i \in 1 .. (m + 2) : all[i] \in T
  BY <1>2
<1>5. SubSeq(all, 1, m) = front
  <2>1. /\ SubSeq(all, 1, m) \in Seq(T)
        /\ Len(SubSeq(all, 1, m)) = (IF 1 <= m THEN m - 1 + 1 ELSE 0)
        /\ \A i \in 1 .. (m - 1 + 1) : SubSeq(all, 1, m)[i] = all[1 + i - 1]
    <3>1. m \in Int /\ \A i \in 1 .. m : all[i] \in T
      BY <1>2, <1>4
    <3> QED
      BY <3>1, SubSeqProperties
  <2> DEFINE sub == SubSeq(all, 1, m)
  <2> HIDE DEF sub
  <2>2. sub \in Seq(T) /\ Len(sub) = m /\ \A i \in 1 .. m : sub[i] = front[i]
    <3>1. \A i \in 1 .. m : 1 + i - 1 = i /\ i \in 1 .. (m - 1 + 1)
      BY <1>2
    <3> QED
      BY <1>2, <1>3, <2>1, <3>1 DEF sub
  <2>3. sub = front
    BY <2>2, SeqEqual DEF m
  <2> QED
    BY <2>3 DEF sub
<1>6. SubSeq(all, m + 1, m + 2) = back
  <2> DEFINE sub == SubSeq(all, m + 1, m + 2)
  <2>1. /\ sub \in Seq(T)
        /\ Len(sub) = (IF m + 1 <= m + 2 THEN (m + 2) - (m + 1) + 1 ELSE 0)
        /\ \A i \in 1 .. ((m + 2) - (m + 1) + 1) : sub[i] = all[(m + 1) + i - 1]
    <3>1. m + 1 \in Int /\ m + 2 \in Int /\ \A i \in (m + 1) .. (m + 2) : all[i] \in T
      BY <1>2, <1>4
    <3> QED
      BY <3>1, SubSeqProperties
  <2> HIDE DEF sub
  <2>2. Len(sub) = 2 /\ sub[1] = a /\ sub[2] = b
    <3>1. (m + 2) - (m + 1) + 1 = 2 /\ m + 1 <= m + 2 /\ 1 \in 1 .. 2 /\ 2 \in 1 .. 2
          /\ (m + 1) + 1 - 1 = m + 1 /\ (m + 1) + 2 - 1 = m + 2
      BY <1>2
    <3> QED
      BY <1>3, <2>1, <3>1
  <2>3. \A i \in 1 .. Len(sub) : sub[i] = back[i]
    BY <1>1, <2>2
  <2>4. sub = back
    BY <1>1, <2>1, <2>2, <2>3, SeqEqual
  <2> QED
    BY <2>4 DEF sub
<1>7. Len(all) - 2 = m /\ Len(all) - 1 = m + 1 /\ Len(all) = m + 2
  <2>1. Len(all) = m + 2 /\ m \in Nat
    BY <1>2
  <2>2. (m + 2) - 2 = m /\ (m + 2) - 1 = m + 1
    BY <2>1
  <2> QED
    BY <2>1, <2>2, Zenon
<1> QED
  BY <1>5, <1>6, <1>7 DEF all, back, m

\* The prefix of a table whose topic matches, followed by two names.
LEMMA JoinedParts ==
    ASSUME TextOperations, NEW s, TopicMatches(s), NEW namespace, NEW table
    PROVE  LET front == TopicPrefixForTable(s)
               parts == front \o <<namespace, table>>
           IN  /\ Len(parts) >= 3 /\ SubSeq(parts, 1, Len(parts) - 2) = front
               /\ SubSeq(parts, Len(parts) - 1, Len(parts)) = <<namespace, table>>
               /\ front # <<"">>
<1> DEFINE front == TopicPrefixForTable(s)
           parts == front \o <<namespace, table>>
<1>1. IsList(front) /\ Len(front) >= 1 /\ front # <<"">>
  <2> DEFINE old == Parts(s.cdc_topic)
             n == Len(old)
  <2>1. n >= 3 /\ front = SubSeq(old, 1, n - 2) /\ front # <<"">>
    BY DEF TopicMatches, TopicPrefixForTable
  <2>2. IsList(old) /\ n \in Nat /\ DOMAIN old = 1 .. n
    BY ListIs DEF TextOperations
  <2> HIDE DEF old, n, front
  <2>3. n - 2 \in Int /\ \A i \in 1 .. (n - 2) : old[i] \in ToSet(old)
    <3>1. n - 2 \in Int /\ \A i \in 1 .. (n - 2) : i \in 1 .. n
      BY <2>2
    <3>2. \A i \in 1 .. n : old[i] \in ToSet(old)
      BY <2>2 DEF ToSet
    <3> QED
      BY <3>1, <3>2, Zenon
  <2>4. /\ SubSeq(old, 1, n - 2) \in Seq(ToSet(old))
        /\ Len(SubSeq(old, 1, n - 2)) = (IF 1 <= n - 2 THEN (n - 2) - 1 + 1 ELSE 0)
    BY <2>3, SubSeqProperties
  <2>5. front \in Seq(ToSet(old)) /\ Len(front) >= 1
    <3>1. n \in Nat /\ n >= 3
      BY <2>1, <2>2
    <3>2. (IF 1 <= n - 2 THEN (n - 2) - 1 + 1 ELSE 0) >= 1
      BY <3>1
    <3> QED
      BY <2>1, <2>4, <3>2, Zenon
  <2> QED
    BY <2>1, <2>5, SeqIsList
<1>2. /\ Len(parts) = Len(front) + 2
      /\ SubSeq(parts, 1, Len(parts) - 2) = front
      /\ SubSeq(parts, Len(parts) - 1, Len(parts)) = <<namespace, table>>
  <2> DEFINE T == ToSet(front) \cup {namespace, table}
  <2>1. front \in Seq(T) /\ namespace \in T /\ table \in T
    <3> HIDE DEF front
    <3> QED
      BY <1>1, ListInSeq
  <2> HIDE DEF T, front
  <2> QED
    BY <2>1, FrontAndTwo DEF front
<1>3. Len(front) + 2 >= 3
  <2> DEFINE k == Len(front)
  <2>1. k \in Nat /\ k >= 1
    BY <1>1, ListIs
  <2> HIDE DEF k
  <2>2. k + 2 >= 3
    BY <2>1
  <2> QED
    BY <2>2, Zenon DEF k
<1> HIDE DEF front, parts
<1>4. Len(parts) >= 3
  BY <1>2, <1>3, Zenon
<1> QED
  BY <1>1, <1>2, <1>4 DEF front, parts

\* Tables still compile with one more that has the prefix of one of them.
LEMMA CompilesWithAnother ==
    ASSUME TextOperations, NEW source, NEW S, Compile(source, S).status = 200,
           NEW s \in TablesToCapture(S), NEW R, NEW t \in TablesToCapture(R),
           TablesToCapture(R) \subseteq TablesToCapture(S) \cup {t},
           ValidTableIdentifier(t),
           Parts(t.cdc_topic) = TopicPrefixForTable(s) \o <<t.source_schema, t.source_table>>
    PROVE  /\ Compile(source, R).status = 200
           /\ WritesTopic(Compile(source, R).connector, t.cdc_topic, TableIdentifier(t))
<1> DEFINE tables == TablesToCapture(S)
           more == TablesToCapture(R)
           front == TopicPrefixForTable(s)
           parts == Parts(t.cdc_topic)
<1>1. /\ source.source_type = "postgresql" /\ ValidSecretReference(source.credentials)
      /\ \A u \in tables : ValidTableIdentifier(u) /\ TopicMatches(u)
      /\ OneTopicPrefix(tables)
  BY DEF Compile, Invalid
<1>2. /\ Len(parts) >= 3 /\ SubSeq(parts, 1, Len(parts) - 2) = front
      /\ SubSeq(parts, Len(parts) - 1, Len(parts)) = <<t.source_schema, t.source_table>>
      /\ front # <<"">>
  <2> DEFINE joined == front \o <<t.source_schema, t.source_table>>
  <2>1. parts = joined /\ TopicMatches(s)
    BY <1>1
  <2>2. /\ Len(joined) >= 3 /\ SubSeq(joined, 1, Len(joined) - 2) = front
        /\ SubSeq(joined, Len(joined) - 1, Len(joined)) = <<t.source_schema, t.source_table>>
        /\ front # <<"">>
    BY <2>1, JoinedParts
  <2> HIDE DEF parts, joined
  <2> QED
    BY <2>1, <2>2, Zenon
<1> HIDE DEF front, parts
<1>3. TopicPrefixForTable(t) = front
  BY <1>2 DEF TopicPrefixForTable, parts
<1>4. TopicMatches(t)
  BY <1>2, <1>3, Zenon DEF TopicMatches, TableIdentifier, parts
<1>5. \A u \in more : ValidTableIdentifier(u) /\ TopicMatches(u)
  BY <1>1, <1>4
<1>6. \A u \in more : TopicPrefixForTable(u) = front
  <2>1. \A u \in tables : TopicPrefixForTable(u) = front
    BY <1>1 DEF OneTopicPrefix, TopicPrefixes, front
  <2> QED
    BY <1>3, <2>1
<1>7. OneTopicPrefix(more)
  BY <1>6 DEF OneTopicPrefix, TopicPrefixes
<1>8. more # {}
  OBVIOUS
<1> DEFINE x == Compile(source, R).connector
<1>9. Compile(source, R) = [status |-> 200, connector |-> x]
  <2> HIDE DEF more
  <2>1. \E y : Compile(source, R) = [status |-> 200, connector |-> y]
    BY <1>1, <1>5, <1>7, <1>8 DEF Compile, more
  <2> HIDE DEF x
  <2> QED
    BY <2>1 DEF x
<1> HIDE DEF x
<1>10. WritesTopic(x, t.cdc_topic, <<t.source_schema, t.source_table>>)
  BY <1>9, CompiledWritesTopics
<1>11. Compile(source, R).status = 200
  BY <1>9
<1> QED
  BY <1>10, <1>11 DEF TableIdentifier, x

\* A table added by its name fits: whatever tables a configuration has, the prefix that
\* syncConfigFormDefaults.ts takes from them is the one the compiler will ask of it, and
\* what the form sends is accepted.
THEOREM DeploymentAddedTablesFit ==
    ASSUME TextOperations, TopicOperations
    PROVE  Spec => []AddedTablesFit
<1>1. ASSUME Inv PROVE AddedTablesFit
  <2>1. SUFFICES
          ASSUME NEW w \in Workers, NEW new \in NewTables,
                 configs[w] # NoConfig, KeysWithoutCommas(configs[w]), configs[w].enabled,
                 \A t \in ToSet(configs[w].tables) :
                   t.enabled
                   /\ Strip(new[1]) \notin {t.logical_name, t.source_table, t.destination_table},
                 Compile(connections.source, StoredConfigs).status = 200,
                 NonEmpty(Strip(new[1])), SimpleIdentifier(Strip(new[1])),
                 NonEmpty(Strip(new[2])), SimpleIdentifier(Strip(new[2]))
          PROVE  LET saved == Stored(Payload(WithTable(Form(w), new[1], new[2], "String")))
                     compiled == Compile(connections.source,
                                         {IF v = w THEN saved.config ELSE configs[v] :
                                             v \in {v \in Workers : configs[v] # NoConfig}})
                     table == Last(saved.config.tables)
                 IN  /\ saved.status = 200
                     /\ compiled.status = 200
                     /\ WritesTopic(compiled.connector, table.cdc_topic, TableIdentifier(table))
    BY DEF AddedTablesFit
  <2> DEFINE c == configs[w]
             source == connections.source
             name == Strip(new[1])
             namespace == Strip(new[2])
             form == FormValues(SyncConfigResponse(c))
             topic == InferCdcTopic(form.tables, namespace, name)
             t == AddedTable(topic, namespace, name)
             d == WithAnother(c, t)
             saved == Stored(Payload(WithTable(Form(w), new[1], new[2], "String")))
             R == {IF v = w THEN saved.config ELSE configs[v] :
                     v \in {v \in Workers : configs[v] # NoConfig}}
  <2>2. GoodConfig(c) /\ Form(w) = form
    BY <1>1, <2>1 DEF Inv, ConfigsOK, Form
  <2>3. /\ name \in STRING /\ namespace \in STRING
        /\ Strip(name) = name /\ Strip(namespace) = namespace
        /\ name # "" /\ namespace # ""
        /\ Len(Parts(name)) = 1 /\ Len(Parts(namespace)) = 1
    <3>1. new[1] \in STRING /\ new[2] \in STRING
      BY NewTablesAssumption
    <3>2. name \in STRING /\ namespace \in STRING
      BY <3>1 DEF TopicOperations
    <3>3. Strip(name) = name /\ Strip(namespace) = namespace
      BY DEF TextOperations
    <3> QED
      BY <2>1, <3>2, <3>3 DEF NonEmpty, SimpleIdentifier
  <2>4. \A s \in ToSet(c.tables) : s \in TablesToCapture(StoredConfigs) /\ TopicMatches(s)
    <3>1. \A s \in TablesToCapture(StoredConfigs) : TopicMatches(s)
      BY <2>1 DEF Compile, Invalid
    <3>2. c \in StoredConfigs
      BY <2>1 DEF StoredConfigs
    <3>3. \A s \in ToSet(c.tables) : s \in TablesToCapture(StoredConfigs)
      BY <2>1, <3>2 DEF TablesToCapture
    <3> QED
      BY <3>1, <3>3
  <2>5. /\ Strip(topic) = topic
        /\ \E s \in ToSet(c.tables) :
             Parts(topic) = TopicPrefixForTable(s) \o <<namespace, name>>
    <3> HIDE DEF c, name, namespace
    <3> QED
      BY <2>2, <2>3, <2>4, InferredTopic
  <2>6. PICK s \in ToSet(c.tables) :
          Parts(topic) = TopicPrefixForTable(s) \o <<namespace, name>>
    BY <2>5
  <2>7. Payload(WithTable(Form(w), new[1], new[2], "String")) = d
    <3>1. NotBlank(new[1]) /\ NotBlank(new[2])
      BY <2>3 DEF NotBlank
    <3> HIDE DEF c
    <3> QED
      BY <2>1, <2>2, <2>5, <3>1, PayloadWithTable DEF c
  <2>8. GoodConfig(d)
    <3> DEFINE parts == Parts(topic)
    <3>1. Len(parts) >= 3 /\ SubSeq(parts, Len(parts) - 1, Len(parts)) = <<namespace, name>>
      BY <2>4, <2>6, JoinedParts
    <3>2. topic # ""
      <4>1. Len(<<"">>) = 1 /\ ~(1 >= 3)
        OBVIOUS
      <4>2. Parts("") = <<"">>
        BY DEF TopicOperations
      <4> HIDE DEF topic
      <4> QED
        BY <3>1, <4>1, <4>2, Zenon
    <3>3. GoodTable(t)
          /\ Distinct(t.primary_key_fields) /\ UniqueBy(t.destination_columns, "name")
      <4> HIDE DEF topic, name, namespace
      <4> QED
        BY <2>3, <2>5, <3>2, AddedTableIsGood
    <3>4. t.logical_name = name /\ t.cdc_topic = topic /\ t.destination_table = name
      BY DEF AddedTable
    <3>5. ASSUME NEW u \in ToSet(c.tables)
          PROVE  /\ u.logical_name # t.logical_name
                 /\ u.cdc_topic # t.cdc_topic
                 /\ u.destination_table # t.destination_table
      <4>1. name \notin {u.logical_name, u.source_table, u.destination_table}
        BY <2>1
      <4>2. ASSUME u.cdc_topic = topic PROVE FALSE
        <5>1. SubSeq(parts, Len(parts) - 1, Len(parts)) = <<u.source_schema, u.source_table>>
          BY <2>4, <4>2 DEF TopicMatches, TableIdentifier
        <5> HIDE DEF parts, name, namespace
        <5>2. <<u.source_schema, u.source_table>> = <<namespace, name>>
          BY <3>1, <5>1
        <5>3. u.source_table = name
          BY <5>2
        <5> QED
          BY <4>1, <5>3
      <4> HIDE DEF t
      <4> QED
        BY <3>4, <4>1, <4>2
    <3> QED
      BY <2>2, <3>3, <3>5, GoodWithAnother
  <2>9. saved = [status |-> 200, config |-> d]
    BY <2>7, <2>8, StoredAgain
  <2>10. /\ TablesToCapture(R) \subseteq TablesToCapture(StoredConfigs) \cup {t}
         /\ t \in TablesToCapture(R)
    <3>1. /\ ToSet(d.tables) = ToSet(c.tables) \cup {t}
          /\ d.enabled = c.enabled /\ t.enabled
      <4>1. IsList(c.tables)
        BY <2>2 DEF GoodConfig, ListsOf
      <4>2. d.tables = Append(c.tables, t) /\ d.enabled = c.enabled
        BY DEF WithAnother
      <4>3. t.enabled
        BY DEF AddedTable
      <4> HIDE DEF c, d, t
      <4> QED
        BY <4>1, <4>2, <4>3, AppendedList
    <3>2. saved.config = d
      BY <2>9
    <3>3. c \in StoredConfigs /\ d \in R
      BY <2>1, <3>2 DEF StoredConfigs
    <3>4. \A e \in R : e = d \/ e \in StoredConfigs
      BY <3>2 DEF StoredConfigs
    <3> HIDE DEF c, d, t, saved, R
    <3>5. c.enabled
      BY <2>1 DEF c
    <3> QED
      BY <3>1, <3>3, <3>4, <3>5 DEF TablesToCapture
  <2>11. Last(d.tables) = t
    <3>1. IsList(c.tables)
      BY <2>2 DEF GoodConfig, ListsOf
    <3>2. d.tables = Append(c.tables, t)
      BY DEF WithAnother
    <3> HIDE DEF c, d, t
    <3> QED
      BY <3>1, <3>2, AppendedList DEF Last
  <2>12. /\ t.cdc_topic = topic /\ t.source_schema = namespace /\ t.source_table = name
    BY DEF AddedTable
  <2>13. ValidTableIdentifier(t)
    BY <2>1, <2>12 DEF ValidTableIdentifier
  <2> HIDE DEF c, t, d, saved, R, topic, name, namespace
  <2>14. /\ Compile(source, R).status = 200
         /\ WritesTopic(Compile(source, R).connector, t.cdc_topic, TableIdentifier(t))
    BY <2>1, <2>4, <2>6, <2>10, <2>12, <2>13, CompilesWithAnother
  <2>15. saved.status = 200 /\ Last(saved.config.tables) = t
    BY <2>9, <2>11
  <2> QED
    BY <2>14, <2>15 DEF saved, R
<1>2. Spec => []Inv
  BY Invariance
<1> QED
  BY <1>1, <1>2, PTL
=============================================================================
