-------------------------- MODULE AccumulationProofs --------------------------
(***************************************************************************)
(* Proofs about Accumulation.                                              *)
(*                                                                         *)
(* The first part is about lists.  A weight gives every row a number, and  *)
(* the total of a list is the sum of the weights of its rows: a list with  *)
(* the same rows in another order has the same total for every weight, so  *)
(* that sorting, merging and cutting a list are shown to lose and repeat   *)
(* nothing by one lemma each.  With weight one the total is the length,    *)
(* with the copies of a row in the partial results it is the bag of rows   *)
(* a list stands for.                                                      *)
(*                                                                         *)
(* The second part has an inductive invariant for the types, one for the   *)
(* tables of LiMBinder, kept by the steps of a tree as by its own, and one *)
(* for the lists cut from a set.                                           *)
(*                                                                         *)
(* The third part has the invariant of a tree that is being built.  For    *)
(* every weight that gives a partial result the sum of what its operands   *)
(* weigh, the rows at hand and the rows that wait for a later step weigh   *)
(* what the list does; with weight one, doubled from step to step, they    *)
(* are as many as the steps that are left need; and a row is ready at most *)
(* two states for every step after the rows of its list.                   *)
(***************************************************************************)
EXTENDS Accumulation, LiMBinderProofs, NaturalFacts

(* f goes from v0 step by step.                                            *)
Follows(f, V, v0, step, n) ==
  /\ f \in [0..n -> V]
  /\ f[0] = v0
  /\ \A k \in 1..n : f[k] = step[<<k, f[k - 1]>>]

(* A function of the naturals up to n can be defined step by step, from a  *)
(* value for 0 on.                                                         *)
LEMMA Recursion ==
  ASSUME NEW V, NEW v0 \in V, NEW step \in [Nat \X V -> V], NEW n \in Nat
  PROVE  \E f : Follows(f, V, v0, step, n)
<1> DEFINE Good(m, f) == f[0] = v0 /\ \A k \in 1..m : f[k] = step[<<k, f[k - 1]>>]
           P == {m \in Nat : \E f \in [0..m -> V] : Good(m, f)}
<1>1. 0 \in P
  <2>1. [k \in 0..0 |-> v0] \in [0..0 -> V] /\ Good(0, [k \in 0..0 |-> v0])
    OBVIOUS
  <2> QED BY <2>1
<1>2. ASSUME NEW m \in Nat, m \in P
      PROVE  m + 1 \in P
  <2>1. PICK f \in [0..m -> V] : Good(m, f)
    BY <1>2
  <2> DEFINE g == [k \in 0..(m + 1) |-> IF k = m + 1 THEN step[<<k, f[m]>>] ELSE f[k]]
  <2>2. f[m] \in V /\ step[<<m + 1, f[m]>>] \in V
    OBVIOUS
  <2>3. g \in [0..(m + 1) -> V]
    BY <2>2
  <2>4. g[0] = v0
    BY <2>1
  <2>5. ASSUME NEW k \in 1..(m + 1)
        PROVE  g[k] = step[<<k, g[k - 1]>>]
    <3>1. CASE k = m + 1
      <4>1. g[k] = step[<<k, f[m]>>] /\ g[k - 1] = f[k - 1] /\ k - 1 = m
        BY <3>1
      <4> QED BY <4>1
    <3>2. CASE k # m + 1
      <4>1. k \in 1..m
        BY <3>2
      <4>2. g[k] = f[k] /\ g[k - 1] = f[k - 1]
        BY <4>1
      <4> QED BY <4>1, <4>2, <2>1
    <3> QED BY <3>1, <3>2
  <2>6. Good(m + 1, g)
    BY <2>4, <2>5
  <2> HIDE DEF g, Good
  <2> QED BY <2>3, <2>6
<1>3. n \in P
  <2> HIDE DEF P
  <2> QED BY <1>1, <1>2, Induction
<1> QED BY <1>3 DEF Follows

(* What holds at 0 and passes from one element to the next.               *)
LEMMA Reached ==
  ASSUME NEW V, NEW n \in Nat, NEW g,
         g[0] \in V, \A k \in 1..n : g[k - 1] \in V => g[k] \in V
  PROVE  \A k \in 0..n : g[k] \in V
<1> DEFINE P == {m \in Nat : m <= n => g[m] \in V}
<1>1. 0 \in P
  OBVIOUS
<1>2. ASSUME NEW m \in Nat, m \in P
      PROVE  m + 1 \in P
  <2>1. CASE m + 1 <= n
    <3>1. m + 1 \in 1..n /\ (m + 1) - 1 = m /\ g[m] \in V
      BY <1>2, <2>1
    <3> QED BY <3>1
  <2> QED BY <2>1
<1> HIDE DEF P
<1>3. \A m \in Nat : m \in P
  BY <1>1, <1>2, Induction
<1> QED BY <1>3 DEF P

(* What Among computes, element by element. *)
IsAmong(list, set, f) ==
  f = [n \in 0..Len(list) |->
         IF n = 0 THEN << >>
         ELSE IF list[n] \in set THEN Append(f[n - 1], list[n]) ELSE f[n - 1]]

(* What the loops that filter a list do: one row after the other, kept or  *)
(* left out.                                                               *)
LEMMA AmongUnfold ==
  ASSUME NEW list \in Seq(Row), NEW set
  PROVE  \E f :
           /\ f[0] = << >>
           /\ \A k \in 1..Len(list) :
                f[k] = IF list[k] \in set THEN Append(f[k - 1], list[k]) ELSE f[k - 1]
           /\ \A k \in 0..Len(list) : f[k] \in Seq(Row)
           /\ Among(list, set) = f[Len(list)]
<1>1. \E f : IsAmong(list, set, f)
  <2> DEFINE step == [kv \in Nat \X Seq(Row) |->
                        IF kv[1] \in 1..Len(list) /\ list[kv[1]] \in set
                        THEN Append(kv[2], list[kv[1]]) ELSE kv[2]]
  <2>1. step \in [Nat \X Seq(Row) -> Seq(Row)]
    OBVIOUS
  <2>2. << >> \in Seq(Row) /\ Len(list) \in Nat
    OBVIOUS
  <2>3. \A k \in Nat, v \in Seq(Row) :
          step[<<k, v>>] = IF k \in 1..Len(list) /\ list[k] \in set
                           THEN Append(v, list[k]) ELSE v
    OBVIOUS
  <2> DEFINE L == Len(list)
             V == Seq(Row)
             e == << >>
  <2>6. L \in Nat /\ e \in V /\ step \in [Nat \X V -> V]
    BY <2>1, <2>2
  <2> HIDE DEF step, L, V, e
  <2>7. PICK f : Follows(f, V, e, step, L)
    BY <2>6, Recursion
  <2>4. /\ f \in [0..Len(list) -> Seq(Row)]
        /\ f[0] = << >>
        /\ \A k \in 1..Len(list) : f[k] = step[<<k, f[k - 1]>>]
    BY <2>7 DEF L, V, e, Follows
  <2>5. \A k \in 1..Len(list) :
          f[k] = IF list[k] \in set THEN Append(f[k - 1], list[k]) ELSE f[k - 1]
    <3> TAKE k \in 1..Len(list)
    <3>1. k \in Nat /\ k - 1 \in 0..Len(list) /\ Len(list) \in Nat
      BY <2>2
    <3>2. f[k - 1] \in Seq(Row) /\ f[k] = step[<<k, f[k - 1]>>]
      BY <3>1, <2>4
    <3> QED BY <2>3, <3>1, <3>2
  <2> DEFINE body(n) == IF n = 0 THEN << >>
                        ELSE IF list[n] \in set THEN Append(f[n - 1], list[n])
                             ELSE f[n - 1]
  <2>8. \A n \in 0..Len(list) : f[n] = body(n)
    <3> TAKE n \in 0..Len(list)
    <3>1. CASE n = 0
      BY <3>1, <2>4
    <3>2. CASE n # 0
      <4>1. n \in 1..Len(list)
        BY <3>2, <2>2
      <4> QED BY <3>2, <4>1, <2>5
    <3> QED BY <3>1, <3>2
  <2> HIDE DEF body
  <2>9. f = [n \in 0..Len(list) |-> body(n)]
    BY <2>4, <2>8
  <2> QED BY <2>9 DEF IsAmong, body
<1> DEFINE among == CHOOSE f : IsAmong(list, set, f)
<1>2. IsAmong(list, set, among)
  BY <1>1
<1>3. Among(list, set) = among[Len(list)]
  BY DEF Among, IsAmong
<1> HIDE DEF among
<1>4. /\ among[0] = << >>
      /\ \A k \in 1..Len(list) :
           among[k] = IF list[k] \in set THEN Append(among[k - 1], list[k])
                      ELSE among[k - 1]
  <2>1. Len(list) \in Nat
    OBVIOUS
  <2>2. 0 \in 0..Len(list) /\ \A k \in 1..Len(list) : k \in 0..Len(list) /\ k # 0
    BY <2>1
  <2> QED BY <1>2, <2>2 DEF IsAmong
<1>5. \A k \in 0..Len(list) : among[k] \in Seq(Row)
  <2> DEFINE V == Seq(Row)
             n == Len(list)
  <2>1. n \in Nat /\ among[0] \in V
    BY <1>4
  <2>2. ASSUME NEW k \in 1..n, among[k - 1] \in V
        PROVE  among[k] \in V
    <3>1. list[k] \in Row
      OBVIOUS
    <3>2. \/ among[k] = Append(among[k - 1], list[k])
          \/ among[k] = among[k - 1]
      BY <1>4, <2>2
    <3>3. Append(among[k - 1], list[k]) \in Seq(Row)
      BY <2>2, <3>1, AppendProperties
    <3> QED BY <2>2, <3>2, <3>3
  <2> HIDE DEF V, n
  <2>3. \A k \in 0..n : among[k] \in V
    BY <2>1, <2>2, Reached
  <2> QED BY <2>3 DEF V, n
<1> QED BY <1>3, <1>4, <1>5
-----------------------------------------------------------------------------
(* The sum of a weight over the elements of a list.                        *)
Weights == [Row -> Nat]

(* What the rows of a list weigh together.                                 *)
Total(w, list) ==
  LET total[n \in 0..Len(list)] ==
        IF n = 0 THEN 0 ELSE total[n - 1] + w[list[n]]
  IN  total[Len(list)]

(* The function Total takes its value of.                                  *)
IsTotal(w, list, f) ==
  f = [n \in 0..Len(list) |-> IF n = 0 THEN 0 ELSE f[n - 1] + w[list[n]]]

(* Two functions that start alike and go on alike are alike.               *)
Agree(n, f, g) ==
  f[0] = g[0] /\ \A k \in 1..n : f[k - 1] = g[k - 1] => f[k] = g[k]

LEMMA SameValues ==
  ASSUME NEW n \in Nat, NEW f, NEW g, Agree(n, f, g)
  PROVE  \A k \in 0..n : f[k] = g[k]
<1>0. f[0] = g[0] /\ \A k \in 1..n : f[k - 1] = g[k - 1] => f[k] = g[k]
  BY DEF Agree
<1> DEFINE P == {m \in Nat : m <= n => f[m] = g[m]}
<1>1. 0 \in P
  BY <1>0
<1>2. ASSUME NEW m \in Nat, m \in P
      PROVE  m + 1 \in P
  <2>1. CASE m + 1 <= n
    <3>1. m + 1 \in 1..n /\ (m + 1) - 1 = m /\ f[m] = g[m]
      BY <1>2, <2>1
    <3> QED BY <1>0, <3>1
  <2> QED BY <2>1
<1> HIDE DEF P
<1>3. \A m \in Nat : m \in P
  BY <1>1, <1>2, Induction
<1> QED BY <1>3 DEF P

(* The recursive function of Total exists.                                 *)
LEMMA TotalExists ==
  ASSUME NEW w \in Weights, NEW list \in Seq(Row)
  PROVE  \E f : IsTotal(w, list, f)
<1> DEFINE L == Len(list)
           weight == [k \in Nat |-> IF k \in 1..L THEN w[list[k]] ELSE 0]
           step == [kv \in Nat \X Nat |-> kv[2] + weight[kv[1]]]
<1>1. L \in Nat /\ \A k \in 1..L : list[k] \in Row
  OBVIOUS
<1>2. weight \in [Nat -> Nat] /\ \A k \in 1..L : weight[k] = w[list[k]]
  <2>1. \A k \in 1..L : w[list[k]] \in Nat
    BY <1>1 DEF Weights
  <2>2. \A k \in 1..L : k \in Nat
    BY <1>1
  <2> QED BY <2>1, <2>2
<1> HIDE DEF weight
<1>3. step \in [Nat \X Nat -> Nat]
  <2>1. \A kv \in Nat \X Nat : kv[1] \in Nat /\ kv[2] \in Nat
    OBVIOUS
  <2>2. \A kv \in Nat \X Nat : weight[kv[1]] \in Nat
    BY <1>2, <2>1
  <2>3. \A kv \in Nat \X Nat : kv[2] + weight[kv[1]] \in Nat
    BY <2>1, <2>2
  <2> QED BY <2>3
<1>4. \A k, v \in Nat : step[<<k, v>>] = v + weight[k]
  OBVIOUS
<1> HIDE DEF step
<1>5. PICK f : Follows(f, Nat, 0, step, L)
  <2> HIDE DEF L
  <2> QED BY <1>1, <1>3, Recursion
<1>6. f \in [0..L -> Nat] /\ f[0] = 0 /\ \A k \in 1..L : f[k] = step[<<k, f[k - 1]>>]
  BY <1>5 DEF Follows
<1> DEFINE body(n) == IF n = 0 THEN 0 ELSE f[n - 1] + w[list[n]]
<1>7. ASSUME NEW n \in 0..L
      PROVE  f[n] = body(n)
  <2>1. CASE n = 0
    BY <2>1, <1>6
  <2>2. CASE n # 0
    <3>1. n \in 1..L /\ n \in Nat /\ n - 1 \in 0..L
      BY <1>1, <2>2
    <3>2. f[n] = f[n - 1] + weight[n] /\ weight[n] = w[list[n]]
      BY <3>1, <1>2, <1>4, <1>6
    <3> QED BY <2>2, <3>2
  <2> QED BY <2>1, <2>2
<1> HIDE DEF body
<1>8. f = [n \in 0..L |-> body(n)]
  BY <1>6, <1>7
<1> QED BY <1>8 DEF IsTotal, body

(* Total goes through the list row by row.                                 *)
LEMMA TotalUnfold ==
  ASSUME NEW w \in Weights, NEW list \in Seq(Row)
  PROVE  \E f :
           /\ f[0] = 0
           /\ \A k \in 1..Len(list) : f[k] = f[k - 1] + w[list[k]]
           /\ \A k \in 0..Len(list) : f[k] \in Nat
           /\ Total(w, list) = f[Len(list)]
<1> DEFINE f == CHOOSE f : IsTotal(w, list, f)
<1>1. IsTotal(w, list, f)
  BY TotalExists
<1>2. Total(w, list) = f[Len(list)]
  BY DEF Total, IsTotal
<1> HIDE DEF f
<1> DEFINE L == Len(list)
<1>3. L \in Nat /\ \A k \in 1..L : w[list[k]] \in Nat
  BY DEF Weights
<1>4. 0 \in 0..L /\ \A k \in 1..L : k \in 0..L /\ k # 0
  BY <1>3
<1>5. f[0] = 0 /\ \A k \in 1..L : f[k] = f[k - 1] + w[list[k]]
  BY <1>1, <1>4 DEF IsTotal
<1> HIDE DEF L
<1>6. \A k \in 1..L : f[k - 1] \in Nat => f[k] \in Nat
  BY <1>3, <1>5
<1>7. \A k \in 0..L : f[k] \in Nat
  <2> DEFINE V == Nat
  <2>1. f[0] \in V /\ L \in Nat /\ \A k \in 1..L : f[k - 1] \in V => f[k] \in V
    BY <1>3, <1>5, <1>6
  <2> HIDE DEF V
  <2>2. \A k \in 0..L : f[k] \in V
    BY <2>1, Reached
  <2> QED BY <2>2 DEF V
<1> QED BY <1>2, <1>5, <1>7 DEF L

(* Nothing weighs nothing.                                                 *)
LEMMA TotalEmpty ==
  ASSUME NEW w \in Weights
  PROVE  Total(w, << >>) = 0
<1>1. << >> \in Seq(Row) /\ Len(<< >>) = 0
  OBVIOUS
<1> QED BY <1>1, TotalUnfold

(* A total is a number.                                                    *)
LEMMA TotalNat ==
  ASSUME NEW w \in Weights, NEW s \in Seq(Row)
  PROVE  Total(w, s) \in Nat
<1>1. Len(s) \in 0..Len(s)
  OBVIOUS
<1> QED BY <1>1, TotalUnfold

(* The total of two lists one after the other.                             *)
LEMMA TotalConcat ==
  ASSUME NEW w \in Weights, NEW s \in Seq(Row), NEW t \in Seq(Row)
  PROVE  Total(w, s \o t) = Total(w, s) + Total(w, t)
<1> DEFINE a == Len(s)
           b == Len(t)
           both == s \o t
<1>1. /\ a \in Nat /\ b \in Nat
      /\ both \in Seq(Row) /\ Len(both) = a + b
      /\ \A k \in 1..a : both[k] = s[k]
      /\ \A k \in 1..b : both[a + k] = t[k]
  <2>1. \A k \in 1..b : a + k \in 1..(a + b) /\ a + k > a /\ (a + k) - a = k
    OBVIOUS
  <2> QED BY <2>1, ConcatProperties
<1>2. \A x \in Row : w[x] \in Nat
  BY DEF Weights
<1>3. PICK f : /\ f[0] = 0
               /\ \A k \in 1..a : f[k] = f[k - 1] + w[s[k]]
               /\ \A k \in 0..a : f[k] \in Nat
               /\ Total(w, s) = f[a]
  BY TotalUnfold
<1>4. PICK g : /\ g[0] = 0
               /\ \A k \in 1..b : g[k] = g[k - 1] + w[t[k]]
               /\ \A k \in 0..b : g[k] \in Nat
               /\ Total(w, t) = g[b]
  BY TotalUnfold
<1> HIDE DEF a, b, both
<1>0. PICK h : /\ h[0] = 0
               /\ \A k \in 1..Len(both) : h[k] = h[k - 1] + w[both[k]]
               /\ \A k \in 0..Len(both) : h[k] \in Nat
               /\ Total(w, both) = h[Len(both)]
  BY <1>1, TotalUnfold
<1>5. /\ h[0] = 0
      /\ \A k \in 1..(a + b) : h[k] = h[k - 1] + w[both[k]]
      /\ \A k \in 0..(a + b) : h[k] \in Nat
      /\ Total(w, both) = h[a + b]
  BY <1>0, <1>1
<1>6. \A k \in 0..a : f[k] = h[k]
  <2>1. ASSUME NEW k \in 1..a, f[k - 1] = h[k - 1]
        PROVE  f[k] = h[k]
    <3>1. k \in 1..(a + b) /\ both[k] = s[k]
      BY <1>1
    <3>2. f[k] = f[k - 1] + w[s[k]]
      BY <1>3
    <3>3. h[k] = h[k - 1] + w[both[k]]
      BY <3>1, <1>5
    <3> QED BY <2>1, <3>1, <3>2, <3>3
  <2>2. f[0] = h[0] /\ \A k \in 1..a : f[k - 1] = h[k - 1] => f[k] = h[k]
    BY <1>3, <1>5, <2>1
  <2>3. a \in Nat
    BY <1>1
  <2>4. Agree(a, f, h)
    BY <2>2, Zenon DEF Agree
  <2> QED BY <2>3, <2>4, SameValues, Zenon
<1> DEFINE e == [k \in 0..b |-> h[a + k] - g[k]]
<1>7. e[0] = f[a]
  <2>1. a \in 0..a /\ a + 0 = a /\ 0 \in 0..b /\ f[a] \in Nat
    BY <1>1, <1>3
  <2> QED BY <2>1, <1>4, <1>6
<1>8. ASSUME NEW k \in 1..b, e[k - 1] \in {f[a]}
      PROVE  e[k] \in {f[a]}
  <2>1. /\ a + k \in 1..(a + b) /\ (a + k) - 1 = a + (k - 1)
        /\ k - 1 \in 0..b /\ k \in 0..b /\ a + (k - 1) \in 0..(a + b)
    BY <1>1
  <2>2. /\ h[a + k] = h[a + (k - 1)] + w[both[a + k]]
        /\ h[a + (k - 1)] \in Nat
    BY <2>1, <1>5
  <2>3. g[k] = g[k - 1] + w[t[k]] /\ g[k - 1] \in Nat
    BY <2>1, <1>4
  <2>4. both[a + k] = t[k] /\ w[t[k]] \in Nat
    <3>1. t[k] \in Row
      BY DEF b
    <3> QED BY <3>1, <1>1, <1>2
  <2>5. h[a + (k - 1)] - g[k - 1] = f[a]
    BY <1>8, <2>1
  <2>6. h[a + k] - g[k] = f[a]
    BY <2>2, <2>3, <2>4, <2>5
  <2> QED BY <2>1, <2>6
<1> HIDE DEF e
<1>9. \A k \in 0..b : e[k] \in {f[a]}
  <2> DEFINE V == {f[a]}
  <2>1. e[0] \in V /\ \A k \in 1..b : e[k - 1] \in V => e[k] \in V
    BY <1>7, <1>8
  <2> HIDE DEF V
  <2>2. \A k \in 0..b : e[k] \in V
    BY <1>1, <2>1, Reached
  <2> QED BY <2>2 DEF V
<1>10. h[a + b] - g[b] = f[a]
  <2>1. b \in 0..b
    BY <1>1
  <2> QED BY <2>1, <1>9 DEF e
<1>11. h[a + b] \in Nat /\ g[b] \in Nat /\ f[a] \in Nat
  BY <1>1, <1>3, <1>4, <1>5
<1> QED BY <1>3, <1>4, <1>5, <1>10, <1>11 DEF both

(* The total of a list of one row.                                         *)
LEMMA TotalOne ==
  ASSUME NEW w \in Weights, NEW x \in Row
  PROVE  Total(w, <<x>>) = w[x]
<1> DEFINE s == <<x>>
<1>1. s \in Seq(Row) /\ Len(s) = 1 /\ s[1] = x
  OBVIOUS
<1> HIDE DEF s
<1>2. PICK f : /\ f[0] = 0
               /\ \A k \in 1..1 : f[k] = f[k - 1] + w[s[k]]
               /\ Total(w, s) = f[1]
  BY <1>1, TotalUnfold
<1>3. f[1] = f[0] + w[x] /\ w[x] \in Nat
  BY <1>1, <1>2 DEF Weights
<1> QED BY <1>2, <1>3 DEF s

(* A row is put at the end of a list.                                      *)
LEMMA TotalAppend ==
  ASSUME NEW w \in Weights, NEW s \in Seq(Row), NEW x \in Row
  PROVE  Total(w, Append(s, x)) = Total(w, s) + w[x]
<1>1. Append(s, x) = s \o <<x>> /\ <<x>> \in Seq(Row)
  BY AppendIsConcat
<1>2. Total(w, s \o <<x>>) = Total(w, s) + Total(w, <<x>>)
  BY <1>1, TotalConcat
<1> QED BY <1>1, <1>2, TotalOne
-----------------------------------------------------------------------------
(* A piece of a list, its length and its rows.                             *)
LEMMA PieceType ==
  ASSUME NEW s \in Seq(Row), NEW m \in Nat \ {0}, NEW n \in Int, n <= Len(s)
  PROVE  /\ SubSeq(s, m, n) \in Seq(Row)
         /\ Len(SubSeq(s, m, n)) = IF m <= n THEN n - m + 1 ELSE 0
         /\ \A i \in 1..(n - m + 1) : SubSeq(s, m, n)[i] = s[m + i - 1]
<1>1. \A i \in m..n : s[i] \in Row
  <2> TAKE i \in m..n
  <2>1. i \in 1..Len(s)
    OBVIOUS
  <2> QED BY <2>1
<1>2. m \in Int /\ n \in Int
  OBVIOUS
<1> QED BY <1>1, <1>2, SubSeqProperties

(* A piece cut in two.                                                     *)
LEMMA TotalPieces ==
  ASSUME NEW w \in Weights, NEW s \in Seq(Row),
         NEW m \in 1..(Len(s) + 1), NEW k \in (m - 1)..Len(s), NEW n \in k..Len(s)
  PROVE  Total(w, SubSeq(s, m, n)) = Total(w, SubSeq(s, m, k)) + Total(w, SubSeq(s, k + 1, n))
<1>1. /\ m \in Nat \ {0} /\ k \in Int /\ k <= Len(s) /\ k + 1 \in Nat \ {0}
      /\ n \in Int /\ n <= Len(s)
  OBVIOUS
<1>2. SubSeq(s, m, k) \in Seq(Row) /\ SubSeq(s, k + 1, n) \in Seq(Row)
  BY <1>1, PieceType
<1>3. SubSeq(s, m, k) \o SubSeq(s, k + 1, n) = SubSeq(s, m, n)
  BY ConcatAdjacentSubSeq
<1>4. Total(w, SubSeq(s, m, k) \o SubSeq(s, k + 1, n))
        = Total(w, SubSeq(s, m, k)) + Total(w, SubSeq(s, k + 1, n))
  BY <1>2, TotalConcat
<1> QED BY <1>3, <1>4

(* A piece without its first row.                                          *)
LEMMA TotalFirst ==
  ASSUME NEW w \in Weights, NEW s \in Seq(Row),
         NEW m \in 1..Len(s), NEW n \in m..Len(s)
  PROVE  Total(w, SubSeq(s, m, n)) = w[s[m]] + Total(w, SubSeq(s, m + 1, n))
<1>1. s[m] \in Row /\ <<s[m]>> \in Seq(Row)
  OBVIOUS
<1>2. SubSeq(s, m + 1, n) \in Seq(Row)
  <2>1. m + 1 \in Nat \ {0} /\ n \in Int /\ n <= Len(s)
    OBVIOUS
  <2> QED BY <2>1, PieceType
<1>3. SubSeq(s, m, n) = <<s[m]>> \o SubSeq(s, m + 1, n)
  BY SubSeqRecursiveFirst
<1>4. Total(w, <<s[m]>> \o SubSeq(s, m + 1, n))
        = Total(w, <<s[m]>>) + Total(w, SubSeq(s, m + 1, n))
  BY <1>1, <1>2, TotalConcat
<1> QED BY <1>1, <1>3, <1>4, TotalOne

(* The piece that is the whole list.                                       *)
LEMMA TotalWhole ==
  ASSUME NEW w \in Weights, NEW s \in Seq(Row)
  PROVE  Total(w, SubSeq(s, 1, Len(s))) = Total(w, s)
BY SubSeqFull

(* The piece that is empty.                                                *)
LEMMA TotalNothing ==
  ASSUME NEW w \in Weights, NEW s \in Seq(Row), NEW m \in Int, NEW n \in Int, n < m
  PROVE  Total(w, SubSeq(s, m, n)) = 0
BY SubSeqEmpty, TotalEmpty

(* No element weighs more than the list.                                   *)
LEMMA TotalBounds ==
  ASSUME NEW w \in Weights, NEW s \in Seq(Row), NEW k \in 1..Len(s)
  PROVE  w[s[k]] <= Total(w, s)
<1>1. /\ 1 \in 1..(Len(s) + 1) /\ k - 1 \in (1 - 1)..Len(s) /\ Len(s) \in (k - 1)..Len(s)
      /\ Len(s) \in k..Len(s) /\ (k - 1) + 1 = k
  OBVIOUS
<1>2. Total(w, SubSeq(s, 1, Len(s)))
        = Total(w, SubSeq(s, 1, k - 1)) + Total(w, SubSeq(s, (k - 1) + 1, Len(s)))
  BY <1>1, TotalPieces
<1>3. Total(w, SubSeq(s, k, Len(s))) = w[s[k]] + Total(w, SubSeq(s, k + 1, Len(s)))
  BY <1>1, TotalFirst
<1>4. Total(w, SubSeq(s, 1, k - 1)) \in Nat /\ Total(w, SubSeq(s, k + 1, Len(s))) \in Nat
  <2>1. /\ 1 \in Nat \ {0} /\ k - 1 \in Int /\ k - 1 <= Len(s)
        /\ k + 1 \in Nat \ {0} /\ Len(s) \in Int /\ Len(s) <= Len(s)
    OBVIOUS
  <2>2. SubSeq(s, 1, k - 1) \in Seq(Row) /\ SubSeq(s, k + 1, Len(s)) \in Seq(Row)
    BY <2>1, PieceType
  <2> QED BY <2>2, TotalNat
<1>5. w[s[k]] \in Nat
  BY DEF Weights
<1> DEFINE a == Total(w, SubSeq(s, 1, k - 1))
           b == Total(w, SubSeq(s, k + 1, Len(s)))
           c == Total(w, s)
<1>6. c = a + (w[s[k]] + b)
  BY <1>1, <1>2, <1>3, TotalWhole
<1>7. a \in Nat /\ b \in Nat
  BY <1>4
<1> HIDE DEF a, b, c
<1>8. w[s[k]] <= c
  BY <1>5, <1>6, <1>7
<1> QED BY <1>8 DEF c

(* Weights are added element by element.                                   *)
LEMMA TotalSum ==
  ASSUME NEW u \in Weights, NEW v \in Weights, NEW w \in Weights, NEW s \in Seq(Row),
         \A k \in 1..Len(s) : w[s[k]] = u[s[k]] + v[s[k]]
  PROVE  Total(w, s) = Total(u, s) + Total(v, s)
<1> DEFINE L == Len(s)
<1>1. L \in Nat /\ \A k \in 1..L : u[s[k]] \in Nat /\ v[s[k]] \in Nat /\ w[s[k]] \in Nat
  BY DEF Weights
<1>2. PICK f : /\ f[0] = 0 /\ \A k \in 1..L : f[k] = f[k - 1] + u[s[k]]
               /\ \A k \in 0..L : f[k] \in Nat
               /\ Total(u, s) = f[L]
  BY TotalUnfold
<1>3. PICK g : /\ g[0] = 0 /\ \A k \in 1..L : g[k] = g[k - 1] + v[s[k]]
               /\ \A k \in 0..L : g[k] \in Nat
               /\ Total(v, s) = g[L]
  BY TotalUnfold
<1>4. PICK h : /\ h[0] = 0 /\ \A k \in 1..L : h[k] = h[k - 1] + w[s[k]]
               /\ \A k \in 0..L : h[k] \in Nat
               /\ Total(w, s) = h[L]
  BY TotalUnfold
<1>5. \A k \in 1..L : w[s[k]] = u[s[k]] + v[s[k]]
  OBVIOUS
<1> HIDE DEF L
<1> DEFINE e == [k \in 0..L |-> h[k] - (f[k] + g[k])]
           V == {0}
<1>6. e[0] \in V
  <2>1. 0 \in 0..L
    BY <1>1
  <2> QED BY <2>1, <1>2, <1>3, <1>4
<1>7. ASSUME NEW k \in 1..L, e[k - 1] \in V
      PROVE  e[k] \in V
  <2>1. k \in 0..L /\ k - 1 \in 0..L
    BY <1>1
  <2>2. h[k - 1] \in Nat /\ f[k - 1] \in Nat /\ g[k - 1] \in Nat
    BY <2>1, <1>2, <1>3, <1>4
  <2>3. h[k - 1] - (f[k - 1] + g[k - 1]) = 0
    BY <1>7, <2>1
  <2>4. /\ h[k] = h[k - 1] + w[s[k]] /\ f[k] = f[k - 1] + u[s[k]]
        /\ g[k] = g[k - 1] + v[s[k]]
    BY <1>2, <1>3, <1>4
  <2>5. w[s[k]] = u[s[k]] + v[s[k]] /\ u[s[k]] \in Nat /\ v[s[k]] \in Nat
    BY <1>1, <1>5
  <2>6. h[k] - (f[k] + g[k]) = 0
    <3> DEFINE a == f[k - 1]
               b == g[k - 1]
               c == u[s[k]]
               d == v[s[k]]
               z == h[k - 1]
    <3>1. a \in Nat /\ b \in Nat /\ c \in Nat /\ d \in Nat
      BY <2>2, <2>5, Zenon
    <3>2. z \in Nat /\ z - (a + b) = 0
      BY <2>2, <2>3, Zenon
    <3>3. h[k] = z + (c + d) /\ f[k] = a + c /\ g[k] = b + d
      BY <2>4, <2>5, Zenon
    <3> HIDE DEF a, b, c, d, z
    <3>4. z = a + b
      BY <3>1, <3>2
    <3>5. ((a + b) + (c + d)) - ((a + c) + (b + d)) = 0
      BY <3>1
    <3> QED BY <3>3, <3>4, <3>5, Zenon
  <2> QED BY <2>1, <2>6
<1> HIDE DEF e, V
<1>8. \A k \in 0..L : e[k] \in V
  BY <1>1, <1>6, <1>7, Reached
<1>9. h[L] - (f[L] + g[L]) = 0 /\ L \in 0..L
  <2>1. L \in 0..L
    BY <1>1
  <2> QED BY <1>8, <2>1 DEF e, V
<1>10. h[L] \in Nat /\ f[L] \in Nat /\ g[L] \in Nat
  BY <1>2, <1>3, <1>4, <1>9
<1>11. h[L] = f[L] + g[L]
  BY <1>9, <1>10
<1>12. Total(w, s) = h[L] /\ Total(u, s) = f[L] /\ Total(v, s) = g[L]
  BY <1>2, <1>3, <1>4
<1> QED BY <1>11, <1>12

(* A weight that is zero on the elements.                                  *)
LEMMA TotalZero ==
  ASSUME NEW w \in Weights, NEW s \in Seq(Row), \A k \in 1..Len(s) : w[s[k]] = 0
  PROVE  Total(w, s) = 0
<1>1. \A k \in 1..Len(s) : w[s[k]] = w[s[k]] + w[s[k]]
  OBVIOUS
<1>2. Total(w, s) = Total(w, s) + Total(w, s)
  BY <1>1, TotalSum
<1>3. Total(w, s) \in Nat
  BY TotalNat
<1> QED BY <1>2, <1>3

(* Only the weights of its elements count.                                 *)
LEMMA TotalSame ==
  ASSUME NEW w \in Weights, NEW v \in Weights, NEW s \in Seq(Row),
         \A k \in 1..Len(s) : w[s[k]] = v[s[k]]
  PROVE  Total(w, s) = Total(v, s)
<1> DEFINE z == [r \in Row |-> 0]
<1>1. z \in Weights /\ \A r \in Row : z[r] = 0
  BY DEF Weights
<1> HIDE DEF z
<1>2. \A k \in 1..Len(s) : s[k] \in Row
  OBVIOUS
<1>3. \A k \in 1..Len(s) : w[s[k]] = v[s[k]] + z[s[k]]
  BY <1>1, <1>2 DEF Weights
<1>4. Total(w, s) = Total(v, s) + Total(z, s)
  BY <1>1, <1>3, TotalSum
<1>5. Total(z, s) = 0
  BY <1>1, <1>2, TotalZero
<1>6. Total(v, s) \in Nat
  BY TotalNat
<1> QED BY <1>4, <1>5, <1>6

(* Counted by ones, a list is as heavy as it is long.                      *)
One == [r \in Row |-> 1]

(* Where every row weighs one, the total is the length.                    *)
LEMMA TotalLength ==
  ASSUME NEW s \in Seq(Row)
  PROVE  Total(One, s) = Len(s)
<1> DEFINE L == Len(s)
<1>1. One \in Weights /\ L \in Nat /\ \A k \in 1..L : One[s[k]] = 1
  BY DEF One, Weights
<1>2. PICK f : /\ f[0] = 0 /\ \A k \in 1..L : f[k] = f[k - 1] + One[s[k]]
               /\ \A k \in 0..L : f[k] \in Nat
               /\ Total(One, s) = f[L]
  BY <1>1, TotalUnfold
<1> DEFINE g == [k \in 0..L |-> k]
<1>3. \A k \in 0..L : g[k] = k
  OBVIOUS
<1> HIDE DEF g, L
<1>4. f[0] = g[0] /\ \A k \in 1..L : f[k - 1] = g[k - 1] => f[k] = g[k]
  <2>1. 0 \in 0..L /\ \A k \in 1..L : k \in 0..L /\ k - 1 \in 0..L /\ k \in Nat
    BY <1>1
  <2>2. ASSUME NEW k \in 1..L, f[k - 1] = g[k - 1]
        PROVE  f[k] = g[k]
    <3>1. f[k] = f[k - 1] + 1
      BY <1>1, <1>2
    <3>2. f[k - 1] = k - 1 /\ g[k] = k
      BY <2>1, <2>2, <1>3
    <3> QED BY <3>1, <3>2, <2>1
  <2> QED BY <2>1, <2>2, <1>2, <1>3
<1>5. \A k \in 0..L : f[k] = g[k]
  <2>1. L \in Nat
    BY <1>1
  <2>2. Agree(L, f, g)
    BY <1>4, Zenon DEF Agree
  <2> QED BY <2>1, <2>2, SameValues, Zenon
<1>6. L \in 0..L
  BY <1>1
<1> QED BY <1>2, <1>3, <1>5, <1>6 DEF L
-----------------------------------------------------------------------------
(* The weight w on a set, nothing outside it.                              *)
Only(w, set) == [r \in Row |-> IF r \in set THEN w[r] ELSE 0]

(* Weights with the rows outside a set left out.                           *)
LEMMA OnlyWeights ==
  ASSUME NEW w \in Weights, NEW set
  PROVE  /\ Only(w, set) \in Weights
         /\ \A r \in Row : Only(w, set)[r] = IF r \in set THEN w[r] ELSE 0
BY DEF Only, Weights

(* A filtered list weighs what its rows of the set weigh.                  *)
LEMMA AmongTotal ==
  ASSUME NEW w \in Weights, NEW list \in Seq(Row), NEW set
  PROVE  /\ Among(list, set) \in Seq(Row)
         /\ Total(w, Among(list, set)) = Total(Only(w, set), list)
<1> DEFINE L == Len(list)
<1>1. L \in Nat /\ \A k \in 1..L : list[k] \in Row /\ w[list[k]] \in Nat
  BY DEF Weights
<1>2. PICK f :
        /\ f[0] = << >>
        /\ \A k \in 1..L :
             f[k] = IF list[k] \in set THEN Append(f[k - 1], list[k]) ELSE f[k - 1]
        /\ \A k \in 0..L : f[k] \in Seq(Row)
        /\ Among(list, set) = f[L]
  BY AmongUnfold
<1>3. Only(w, set) \in Weights
  BY OnlyWeights
<1>4. PICK g : /\ g[0] = 0 /\ \A k \in 1..L : g[k] = g[k - 1] + Only(w, set)[list[k]]
               /\ \A k \in 0..L : g[k] \in Nat
               /\ Total(Only(w, set), list) = g[L]
  BY <1>3, TotalUnfold
<1> HIDE DEF L
<1> DEFINE h == [k \in 0..L |-> Total(w, f[k])]
<1>5. h[0] = g[0]
  <2>1. 0 \in 0..L
    BY <1>1
  <2> QED BY <2>1, <1>2, <1>4, TotalEmpty
<1>6. ASSUME NEW k \in 1..L, h[k - 1] = g[k - 1]
      PROVE  h[k] = g[k]
  <2>1. k \in 0..L /\ k - 1 \in 0..L /\ list[k] \in Row /\ w[list[k]] \in Nat
    BY <1>1
  <2>2. f[k - 1] \in Seq(Row) /\ g[k - 1] \in Nat /\ Total(w, f[k - 1]) = g[k - 1]
    BY <2>1, <1>2, <1>4, <1>6
  <2>3. g[k] = g[k - 1] + Only(w, set)[list[k]]
    BY <1>4
  <2>4. h[k] = Total(w, f[k])
    BY <2>1
  <2>5. CASE list[k] \in set
    <3>1. f[k] = Append(f[k - 1], list[k])
      BY <2>5, <1>2
    <3>2. Total(w, f[k]) = Total(w, f[k - 1]) + w[list[k]]
      BY <3>1, <2>1, <2>2, TotalAppend
    <3>3. Only(w, set)[list[k]] = w[list[k]]
      BY <2>1, <2>5, OnlyWeights
    <3> QED BY <2>2, <2>3, <2>4, <3>2, <3>3
  <2>6. CASE list[k] \notin set
    <3>1. f[k] = f[k - 1]
      BY <2>6, <1>2
    <3>2. Only(w, set)[list[k]] = 0
      BY <2>1, <2>6, OnlyWeights
    <3> QED BY <2>2, <2>3, <2>4, <3>1, <3>2
  <2> QED BY <2>5, <2>6
<1> HIDE DEF h
<1>7. \A k \in 0..L : h[k] = g[k]
  <2>1. L \in Nat
    BY <1>1
  <2>2. h[0] = g[0] /\ \A k \in 1..L : h[k - 1] = g[k - 1] => h[k] = g[k]
    BY <1>5, <1>6
  <2>3. Agree(L, h, g)
    BY <2>2, Zenon DEF Agree
  <2> QED BY <2>1, <2>3, SameValues, Zenon
<1>8. L \in 0..L
  BY <1>1
<1>9. h[L] = Total(w, f[L])
  BY <1>8 DEF h
<1> QED BY <1>2, <1>4, <1>7, <1>8, <1>9

(* A list is cut in two by any set.                                        *)
LEMMA AmongParts ==
  ASSUME NEW w \in Weights, NEW list \in Seq(Row), NEW set
  PROVE  Total(w, Among(list, set)) + Total(w, Among(list, Row \ set)) = Total(w, list)
<1> DEFINE u == Only(w, set)
           v == Only(w, Row \ set)
<1>1. /\ u \in Weights /\ v \in Weights
      /\ \A r \in Row : u[r] = IF r \in set THEN w[r] ELSE 0
      /\ \A r \in Row : v[r] = IF r \in Row \ set THEN w[r] ELSE 0
  BY OnlyWeights
<1>2. Total(w, Among(list, set)) = Total(u, list)
  BY AmongTotal
<1>3. Total(w, Among(list, Row \ set)) = Total(v, list)
  BY AmongTotal
<1> HIDE DEF u, v
<1>4. \A k \in 1..Len(list) : w[list[k]] = u[list[k]] + v[list[k]]
  <2> TAKE k \in 1..Len(list)
  <2>1. list[k] \in Row /\ w[list[k]] \in Nat
    BY DEF Weights
  <2> QED BY <2>1, <1>1
<1>5. Total(w, list) = Total(u, list) + Total(v, list)
  BY <1>1, <1>4, TotalSum
<1> QED BY <1>2, <1>3, <1>5

-----------------------------------------------------------------------------
(* The n-th row of a list, or nothing behind its end.                      *)
LEMMA NthTotal ==
  ASSUME NEW w \in Weights, NEW s \in Seq(Row), NEW n \in Nat \ {0}
  PROVE  /\ Nth(s, n) \in Seq(Row)
         /\ n <= Len(s) => Total(w, Nth(s, n)) = w[s[n]]
         /\ n > Len(s) => Total(w, Nth(s, n)) = 0
<1>1. CASE n <= Len(s)
  <2>1. n \in 1..Len(s)
    BY <1>1
  <2>2. s[n] \in Row
    BY <2>1
  <2>3. Nth(s, n) = <<s[n]>>
    BY <1>1 DEF Nth
  <2>4. Total(w, <<s[n]>>) = w[s[n]] /\ <<s[n]>> \in Seq(Row)
    BY <2>2, TotalOne
  <2> QED BY <1>1, <2>3, <2>4
<1>2. CASE ~(n <= Len(s))
  <2>1. Nth(s, n) = << >>
    BY <1>2 DEF Nth
  <2>2. Total(w, << >>) = 0 /\ << >> \in Seq(Row)
    BY TotalEmpty
  <2> QED BY <1>2, <2>1, <2>2
<1> QED BY <1>1, <1>2

(* What a list weighs up to its n-th element.                              *)
Upto(w, s, n) == Total(w, SubSeq(s, 1, IF n <= Len(s) THEN n ELSE Len(s)))

(* One row more of a list.                                                 *)
LEMMA UptoStep ==
  ASSUME NEW w \in Weights, NEW s \in Seq(Row), NEW n \in Nat \ {0}
  PROVE  Upto(w, s, n) = Upto(w, s, n - 1) + Total(w, Nth(s, n))
<1>0. Len(s) \in Nat
  OBVIOUS
<1>1. CASE n <= Len(s)
  <2>1. /\ 1 \in 1..(Len(s) + 1) /\ n - 1 \in (1 - 1)..Len(s) /\ n \in (n - 1)..Len(s)
        /\ n \in 1..Len(s) /\ n \in n..Len(s) /\ (n - 1) + 1 = n /\ n - 1 <= Len(s)
    BY <1>0, <1>1
  <2>2. Total(w, SubSeq(s, 1, n))
          = Total(w, SubSeq(s, 1, n - 1)) + Total(w, SubSeq(s, (n - 1) + 1, n))
    BY <2>1, TotalPieces
  <2>3. Total(w, SubSeq(s, n, n)) = w[s[n]] + Total(w, SubSeq(s, n + 1, n))
    BY <2>1, TotalFirst
  <2>4. n + 1 \in Int /\ n \in Int /\ n < n + 1
    OBVIOUS
  <2>5. Total(w, SubSeq(s, n + 1, n)) = 0
    BY <2>4, TotalNothing
  <2>6. w[s[n]] \in Nat
    BY <2>1 DEF Weights
  <2>7. Total(w, SubSeq(s, n, n)) = w[s[n]]
    BY <2>3, <2>5, <2>6
  <2>8. Total(w, Nth(s, n)) = w[s[n]]
    BY <1>1, NthTotal
  <2>9. Total(w, SubSeq(s, 1, n)) = Total(w, SubSeq(s, 1, n - 1)) + Total(w, SubSeq(s, n, n))
    BY <2>1, <2>2
  <2> QED BY <1>1, <2>1, <2>7, <2>8, <2>9 DEF Upto
<1>2. CASE ~(n <= Len(s))
  <2>1. Total(w, Nth(s, n)) = 0
    BY <1>0, <1>2, NthTotal
  <2>2. (IF n - 1 <= Len(s) THEN n - 1 ELSE Len(s)) = Len(s)
    BY <1>0, <1>2
  <2>3. Upto(w, s, n) = Total(w, s) /\ Upto(w, s, n - 1) = Total(w, s)
    BY <1>2, <2>2, TotalWhole DEF Upto
  <2>4. Total(w, s) \in Nat
    BY TotalNat
  <2> QED BY <2>1, <2>3, <2>4
<1> QED BY <1>1, <1>2

(* Nothing of a list, and all of it.                                       *)
LEMMA UptoEnds ==
  ASSUME NEW w \in Weights, NEW s \in Seq(Row), NEW n \in Nat
  PROVE  /\ Upto(w, s, 0) = 0
         /\ Upto(w, s, n) \in Nat
         /\ n >= Len(s) => Upto(w, s, n) = Total(w, s)
<1>0. Len(s) \in Nat
  OBVIOUS
<1>1. Upto(w, s, 0) = 0
  <2>1. (IF 0 <= Len(s) THEN 0 ELSE Len(s)) = 0
    BY <1>0
  <2> QED BY <2>1, TotalNothing DEF Upto
<1>2. Upto(w, s, n) \in Nat
  <2> DEFINE m == IF n <= Len(s) THEN n ELSE Len(s)
  <2>1. m \in Int /\ m <= Len(s) /\ 1 \in Nat \ {0}
    BY <1>0
  <2> HIDE DEF m
  <2>2. SubSeq(s, 1, m) \in Seq(Row)
    BY <2>1, PieceType
  <2> QED BY <2>2, TotalNat DEF Upto, m
<1>3. ASSUME n >= Len(s)
      PROVE  Upto(w, s, n) = Total(w, s)
  <2>1. (IF n <= Len(s) THEN n ELSE Len(s)) = Len(s)
    BY <1>0, <1>3
  <2> QED BY <2>1, TotalWhole DEF Upto
<1> QED BY <1>1, <1>2, <1>3
-----------------------------------------------------------------------------
(* a and b in turn, n elements of each as far as there are any.            *)
IsAlternated(a, b, n, f) ==
  f = [k \in 0..n |-> IF k = 0 THEN << >> ELSE f[k - 1] \o Nth(a, k) \o Nth(b, k)]

(* The recursive function of Alternate exists.                             *)
LEMMA AlternatedExists ==
  ASSUME NEW a \in Seq(Row), NEW b \in Seq(Row), NEW n \in Nat
  PROVE  \E f : IsAlternated(a, b, n, f)
<1> DEFINE V == Seq(Row)
           step == [kv \in Nat \X V |->
                      IF kv[1] = 0 THEN kv[2] ELSE kv[2] \o Nth(a, kv[1]) \o Nth(b, kv[1])]
           e == << >>
<1>1. \A k \in Nat \ {0} : Nth(a, k) \in V /\ Nth(b, k) \in V
  <2>1. One \in Weights
    BY DEF One, Weights
  <2> QED BY <2>1, NthTotal
<1>2. \A s, t \in V : s \o t \in V
  BY ConcatProperties
<1>3. e \in V
  OBVIOUS
<1> HIDE DEF V
<1>4. step \in [Nat \X V -> V]
  <2>1. \A kv \in Nat \X V : kv[1] \in Nat /\ kv[2] \in V
    OBVIOUS
  <2>2. ASSUME NEW kv \in Nat \X V
        PROVE  (IF kv[1] = 0 THEN kv[2] ELSE kv[2] \o Nth(a, kv[1]) \o Nth(b, kv[1])) \in V
    <3>1. CASE kv[1] = 0
      BY <3>1, <2>1
    <3>2. CASE kv[1] # 0
      <4>1. Nth(a, kv[1]) \in V /\ Nth(b, kv[1]) \in V /\ kv[2] \in V
        BY <3>2, <2>1, <1>1
      <4>2. kv[2] \o Nth(a, kv[1]) \in V
        BY <4>1, <1>2
      <4>3. kv[2] \o Nth(a, kv[1]) \o Nth(b, kv[1]) \in V
        BY <4>1, <4>2, <1>2
      <4> QED BY <3>2, <4>3
    <3> QED BY <3>1, <3>2
  <2> QED BY <2>2
<1>5. \A k \in Nat, v \in V :
        step[<<k, v>>] = IF k = 0 THEN v ELSE v \o Nth(a, k) \o Nth(b, k)
  OBVIOUS
<1> HIDE DEF step, e
<1>6. PICK f : Follows(f, V, e, step, n)
  BY <1>3, <1>4, Recursion
<1>7. f \in [0..n -> V] /\ f[0] = e /\ \A k \in 1..n : f[k] = step[<<k, f[k - 1]>>]
  BY <1>6 DEF Follows
<1> DEFINE body(k) == IF k = 0 THEN << >> ELSE f[k - 1] \o Nth(a, k) \o Nth(b, k)
<1>8. ASSUME NEW k \in 0..n
      PROVE  f[k] = body(k)
  <2>1. CASE k = 0
    BY <2>1, <1>7 DEF e
  <2>2. CASE k # 0
    <3>1. k \in 1..n /\ k \in Nat /\ k - 1 \in 0..n
      BY <2>2
    <3>2. f[k - 1] \in V /\ f[k] = step[<<k, f[k - 1]>>]
      BY <3>1, <1>7
    <3>3. f[k] = f[k - 1] \o Nth(a, k) \o Nth(b, k)
      BY <2>2, <3>1, <3>2, <1>5
    <3> QED BY <2>2, <3>3
  <2> QED BY <2>1, <2>2
<1> HIDE DEF body
<1>9. f = [k \in 0..n |-> body(k)]
  BY <1>7, <1>8
<1> QED BY <1>9 DEF IsAlternated, body

(* Two lists taken in turn weigh what both weigh.                          *)
LEMMA AlternatedTotal ==
  ASSUME NEW a \in Seq(Row), NEW b \in Seq(Row), NEW n \in Nat, NEW w \in Weights,
         NEW f, IsAlternated(a, b, n, f), Len(a) <= n, Len(b) <= n
  PROVE  f[n] \in Seq(Row) /\ Total(w, f[n]) = Total(w, a) + Total(w, b)
<1> DEFINE sum(k) == Upto(w, a, k) + Upto(w, b, k)
           Fine(k) == f[k] \in Seq(Row) /\ Total(w, f[k]) = sum(k)
           P == {k \in Nat : k <= n => Fine(k)}
<1>1. f[0] = << >> /\ \A k \in 1..n : f[k] = f[k - 1] \o Nth(a, k) \o Nth(b, k)
  <2>1. 0 \in 0..n /\ \A k \in 1..n : k \in 0..n /\ k # 0
    OBVIOUS
  <2> QED BY <2>1 DEF IsAlternated
<1>2. 0 \in P
  <2>1. f[0] \in Seq(Row) /\ Total(w, f[0]) = 0
    BY <1>1, TotalEmpty
  <2>2. Upto(w, a, 0) = 0 /\ Upto(w, b, 0) = 0
    BY UptoEnds
  <2> QED BY <2>1, <2>2
<1>3. ASSUME NEW k \in Nat, k \in P, k + 1 <= n
      PROVE  Fine(k + 1)
  <2> DEFINE m == k + 1
             x == Nth(a, m)
             y == Nth(b, m)
  <2>1. m \in 1..n /\ m - 1 = k /\ m \in Nat \ {0} /\ k <= n
    BY <1>3
  <2>2. f[k] \in Seq(Row) /\ Total(w, f[k]) = sum(k)
    BY <1>3, <2>1
  <2>3. /\ x \in Seq(Row) /\ y \in Seq(Row)
        /\ Upto(w, a, m) = Upto(w, a, k) + Total(w, x)
        /\ Upto(w, b, m) = Upto(w, b, k) + Total(w, y)
    BY <2>1, NthTotal, UptoStep
  <2>4. f[m] = f[k] \o x \o y
    BY <1>1, <2>1
  <2> HIDE DEF x, y, m
  <2>5. f[k] \o x \in Seq(Row) /\ Total(w, f[k] \o x) = Total(w, f[k]) + Total(w, x)
    BY <2>2, <2>3, ConcatProperties, TotalConcat
  <2> DEFINE z == f[k] \o x
  <2>6. z \in Seq(Row)
    BY <2>5
  <2> HIDE DEF z
  <2>7. z \o y \in Seq(Row) /\ Total(w, z \o y) = Total(w, z) + Total(w, y)
    BY <2>3, <2>6, ConcatProperties, TotalConcat
  <2>8. f[m] = z \o y
    BY <2>4 DEF z
  <2>9. Total(w, z) = Total(w, f[k]) + Total(w, x)
    BY <2>5 DEF z
  <2>10. /\ Upto(w, a, k) \in Nat /\ Upto(w, b, k) \in Nat
         /\ Total(w, x) \in Nat /\ Total(w, y) \in Nat
    BY <2>3, UptoEnds, TotalNat
  <2>11. Total(w, f[m]) = sum(m)
    BY <2>2, <2>3, <2>7, <2>8, <2>9, <2>10
  <2>12. f[m] \in Seq(Row)
    BY <2>7, <2>8
  <2> QED BY <2>11, <2>12 DEF m
<1>4. \A k \in Nat : k \in P => k + 1 \in P
  BY <1>3
<1> HIDE DEF P
<1>5. \A k \in Nat : k \in P
  BY <1>2, <1>4, Induction
<1>6. Fine(n)
  <2>1. n \in P /\ n <= n
    BY <1>5
  <2> QED BY <2>1 DEF P
<1>7. Upto(w, a, n) = Total(w, a) /\ Upto(w, b, n) = Total(w, b)
  BY UptoEnds
<1> QED BY <1>6, <1>7

(* Alternating loses no row and takes none twice (LiMBinder.cpp:636-687).  *)
LEMMA AlternateTotal ==
  ASSUME NEW w \in Weights, NEW rows \in Seq(Row)
  PROVE  Alternate(rows) \in Seq(Row) /\ Total(w, Alternate(rows)) = Total(w, rows)
<1> DEFINE adders == {r \in DOMAIN limArray : isLiMRowOfThisType(limArray, r, "add")}
           b == Among(rows, adders)
           a == Among(rows, Row \ adders)
           n == Len(rows)
           f == CHOOSE f : IsAlternated(a, b, n, f)
<1>1. Alternate(rows) = f[n]
  BY DEF Alternate, IsAlternated
<1>2. a \in Seq(Row) /\ b \in Seq(Row) /\ n \in Nat
  BY AmongTotal
<1>3. Total(w, b) + Total(w, a) = Total(w, rows)
  BY AmongParts
<1>4. One \in Weights
  BY DEF One, Weights
<1>5. Total(One, b) + Total(One, a) = Total(One, rows)
  BY <1>4, AmongParts
<1> HIDE DEF adders
<1>6. Len(b) + Len(a) = n /\ Len(b) \in Nat /\ Len(a) \in Nat
  <2>1. Total(One, b) = Len(b) /\ Total(One, a) = Len(a) /\ Total(One, rows) = n
    BY <1>2, TotalLength
  <2>2. Len(b) \in Nat /\ Len(a) \in Nat
    BY <1>2
  <2> HIDE DEF a, b, n
  <2> QED BY <1>5, <2>1, <2>2
<1> HIDE DEF a, b, n
<1>7. IsAlternated(a, b, n, f)
  BY <1>2, AlternatedExists
<1> HIDE DEF f
<1>8. Len(a) <= n /\ Len(b) <= n
  BY <1>2, <1>6
<1>9. f[n] \in Seq(Row) /\ Total(w, f[n]) = Total(w, a) + Total(w, b)
  BY <1>2, <1>7, <1>8, AlternatedTotal
<1>10. Total(w, a) \in Nat /\ Total(w, b) \in Nat
  BY <1>2, TotalNat
<1> QED BY <1>1, <1>3, <1>9, <1>10
-----------------------------------------------------------------------------
(* Two lists one after the other are a list.                               *)
LEMMA ConcatType ==
  ASSUME NEW s \in Seq(Row), NEW t \in Seq(Row)
  PROVE  s \o t \in Seq(Row)
BY ConcatProperties

(* An element goes to the end (LiMBinder.cpp:617-628).                     *)
LEMMA MovedTotal ==
  ASSUME NEW w \in Weights, NEW s \in Seq(Row), NEW n \in 1..Len(s)
  PROVE  /\ MovedToEnd(s, n) \in Seq(Row)
         /\ Len(MovedToEnd(s, n)) = Len(s)
         /\ Total(w, MovedToEnd(s, n)) = Total(w, s)
<1> DEFINE a == SubSeq(s, 1, n - 1)
           b == SubSeq(s, n + 1, Len(s))
           c == <<s[n]>>
<1>0. Len(s) \in Nat /\ n \in Nat /\ n <= Len(s) /\ 1 <= n
  OBVIOUS
<1>1. a \in Seq(Row) /\ Len(a) = n - 1
  <2>1. 1 \in Nat \ {0} /\ n - 1 \in Int /\ n - 1 <= Len(s)
    BY <1>0
  <2>2. Len(a) = IF 1 <= n - 1 THEN (n - 1) - 1 + 1 ELSE 0
    BY <2>1, PieceType
  <2> QED BY <1>0, <2>1, <2>2, PieceType
<1>2. b \in Seq(Row) /\ Len(b) = Len(s) - n
  <2>1. n + 1 \in Nat \ {0} /\ Len(s) \in Int /\ Len(s) <= Len(s)
    BY <1>0
  <2>2. Len(b) = IF n + 1 <= Len(s) THEN Len(s) - (n + 1) + 1 ELSE 0
    BY <2>1, PieceType
  <2> QED BY <1>0, <2>1, <2>2, PieceType
<1>3. c \in Seq(Row) /\ Len(c) = 1 /\ Total(w, c) = w[s[n]]
  <2>1. s[n] \in Row
    OBVIOUS
  <2> QED BY <2>1, TotalOne
<1>4. Total(w, s) = Total(w, a) + (w[s[n]] + Total(w, b))
  <2>1. /\ 1 \in 1..(Len(s) + 1) /\ n - 1 \in (1 - 1)..Len(s) /\ Len(s) \in (n - 1)..Len(s)
        /\ n \in 1..Len(s) /\ Len(s) \in n..Len(s) /\ (n - 1) + 1 = n
    BY <1>0
  <2>2. Total(w, SubSeq(s, 1, Len(s)))
          = Total(w, a) + Total(w, SubSeq(s, (n - 1) + 1, Len(s)))
    BY <2>1, TotalPieces
  <2>3. Total(w, SubSeq(s, n, Len(s))) = w[s[n]] + Total(w, b)
    BY <2>1, TotalFirst
  <2> QED BY <2>1, <2>2, <2>3, TotalWhole
<1>5. MovedToEnd(s, n) = a \o b \o c
  BY DEF MovedToEnd
<1>6. w[s[n]] \in Nat
  BY DEF Weights
<1> HIDE DEF a, b, c
<1>7. /\ a \o b \in Seq(Row) /\ Len(a \o b) = Len(a) + Len(b)
      /\ Total(w, a \o b) = Total(w, a) + Total(w, b)
  BY <1>1, <1>2, ConcatProperties, TotalConcat
<1> DEFINE d == a \o b
<1> HIDE DEF d
<1>8. /\ d \o c \in Seq(Row) /\ Len(d \o c) = Len(d) + Len(c)
      /\ Total(w, d \o c) = Total(w, d) + Total(w, c)
  <2>1. d \in Seq(Row)
    BY <1>7 DEF d
  <2> QED BY <2>1, <1>3, ConcatProperties, TotalConcat
<1>9. /\ MovedToEnd(s, n) = d \o c /\ Len(d) = Len(a) + Len(b)
      /\ Total(w, d) = Total(w, a) + Total(w, b)
  BY <1>5, <1>7 DEF d
<1>10. Total(w, a) \in Nat /\ Total(w, b) \in Nat
  BY <1>1, <1>2, TotalNat
<1>11. Len(MovedToEnd(s, n)) = Len(s)
  <2>1. Len(d \o c) = Len(d) + Len(c) /\ Len(d) = Len(a) + Len(b)
    BY <1>8, <1>9
  <2>2. Len(a) = n - 1 /\ Len(b) = Len(s) - n /\ Len(c) = 1
    BY <1>1, <1>2, <1>3
  <2>3. Len(d \o c) = Len(s)
    BY <1>0, <2>1, <2>2
  <2>4. MovedToEnd(s, n) = d \o c
    BY <1>9
  <2> HIDE DEF MovedToEnd
  <2> QED BY <2>3, <2>4
<1>12. Total(w, MovedToEnd(s, n)) = Total(w, s)
  BY <1>3, <1>4, <1>6, <1>8, <1>9, <1>10
<1> QED BY <1>8, <1>9, <1>11, <1>12

(* The function Reorganise takes its value of.                             *)
IsMoved(list, f) ==
  f = [n \in 0..Len(list) |->
         IF n = 0 THEN list
         ELSE IF n % 2 = 1 THEN MovedToEnd(f[n - 1], n) ELSE f[n - 1]]

(* The recursive function of Reorganise exists.                            *)
LEMMA MovedExists ==
  ASSUME NEW list \in Seq(Row)
  PROVE  \E f : IsMoved(list, f)
<1> DEFINE n == Len(list)
           V == {s \in Seq(Row) : Len(s) = n}
           step == [kv \in Nat \X V |->
                      IF kv[1] \in 1..n /\ kv[1] % 2 = 1 THEN MovedToEnd(kv[2], kv[1])
                      ELSE kv[2]]
<1>1. n \in Nat /\ list \in V
  OBVIOUS
<1>2. step \in [Nat \X V -> V]
  <2>1. ASSUME NEW kv \in Nat \X V
        PROVE  (IF kv[1] \in 1..n /\ kv[1] % 2 = 1 THEN MovedToEnd(kv[2], kv[1])
                ELSE kv[2]) \in V
    <3>1. kv[1] \in Nat /\ kv[2] \in V
      OBVIOUS
    <3>2. CASE kv[1] \in 1..n /\ kv[1] % 2 = 1
      <4>1. kv[2] \in Seq(Row) /\ Len(kv[2]) = n /\ kv[1] \in 1..Len(kv[2])
        BY <3>1, <3>2
      <4>2. One \in Weights
        BY DEF One, Weights
      <4>3. MovedToEnd(kv[2], kv[1]) \in Seq(Row) /\ Len(MovedToEnd(kv[2], kv[1])) = n
        BY <4>1, <4>2, MovedTotal
      <4> QED BY <3>2, <4>3
    <3>3. CASE ~(kv[1] \in 1..n /\ kv[1] % 2 = 1)
      BY <3>1, <3>3
    <3> QED BY <3>2, <3>3
  <2> HIDE DEF V, n
  <2> QED BY <2>1
<1>3. \A k \in 1..n, v \in V :
        step[<<k, v>>] = IF k % 2 = 1 THEN MovedToEnd(v, k) ELSE v
  <2> HIDE DEF V
  <2>1. \A k \in 1..n, v \in V : <<k, v>> \in Nat \X V /\ k \in Nat
    BY <1>1
  <2> QED BY <2>1
<1> HIDE DEF V, n, step
<1>4. PICK f : Follows(f, V, list, step, n)
  BY <1>1, <1>2, Recursion
<1>5. f \in [0..n -> V] /\ f[0] = list /\ \A k \in 1..n : f[k] = step[<<k, f[k - 1]>>]
  BY <1>4 DEF Follows
<1> DEFINE body(k) == IF k = 0 THEN list
                      ELSE IF k % 2 = 1 THEN MovedToEnd(f[k - 1], k) ELSE f[k - 1]
<1>6. ASSUME NEW k \in 0..n
      PROVE  f[k] = body(k)
  <2>1. CASE k = 0
    BY <2>1, <1>5
  <2>2. CASE k # 0
    <3>1. k \in 1..n /\ k - 1 \in 0..n
      BY <1>1, <2>2
    <3>2. f[k - 1] \in V /\ f[k] = step[<<k, f[k - 1]>>]
      BY <3>1, <1>5
    <3>3. f[k] = IF k % 2 = 1 THEN MovedToEnd(f[k - 1], k) ELSE f[k - 1]
      BY <3>1, <3>2, <1>3
    <3> QED BY <2>2, <3>3
  <2> QED BY <2>1, <2>2
<1> HIDE DEF body
<1>7. f = [k \in 0..n |-> body(k)]
  BY <1>5, <1>6
<1> QED BY <1>7 DEF IsMoved, body, n

(* The initial order loses no row and repeats none                         *)
(* (LiMBinder.cpp:618-628).                                                *)
LEMMA ReorganiseTotal ==
  ASSUME NEW w \in Weights, NEW list \in Seq(Row)
  PROVE  Reorganise(list) \in Seq(Row) /\ Total(w, Reorganise(list)) = Total(w, list)
<1> DEFINE n == Len(list)
           f == CHOOSE f : IsMoved(list, f)
           V == {s \in Seq(Row) : Len(s) = n /\ Total(w, s) = Total(w, list)}
<1>1. Reorganise(list) = f[n]
  BY DEF Reorganise, IsMoved
<1>2. IsMoved(list, f)
  BY MovedExists
<1> HIDE DEF f
<1>3. n \in Nat /\ n \in 0..n
  OBVIOUS
<1>4. /\ f[0] = list
      /\ \A k \in 1..n : f[k] = IF k % 2 = 1 THEN MovedToEnd(f[k - 1], k) ELSE f[k - 1]
  <2>1. 0 \in 0..n /\ \A k \in 1..n : k \in 0..n /\ k # 0
    BY <1>3
  <2> QED BY <2>1, <1>2 DEF IsMoved
<1>5. f[0] \in V
  BY <1>4
<1>6. ASSUME NEW k \in 1..n, f[k - 1] \in V
      PROVE  f[k] \in V
  <2>1. CASE k % 2 = 1
    <3>1. f[k] = MovedToEnd(f[k - 1], k)
      BY <2>1, <1>4
    <3>2. f[k - 1] \in Seq(Row) /\ Len(f[k - 1]) = n /\ Total(w, f[k - 1]) = Total(w, list)
      BY <1>6
    <3>3. k \in 1..Len(f[k - 1])
      BY <3>2
    <3>4. /\ f[k] \in Seq(Row) /\ Len(f[k]) = Len(f[k - 1])
          /\ Total(w, f[k]) = Total(w, f[k - 1])
      BY <3>1, <3>2, <3>3, MovedTotal
    <3> QED BY <3>2, <3>4
  <2>2. CASE ~(k % 2 = 1)
    BY <2>2, <1>4, <1>6
  <2> QED BY <2>1, <2>2
<1> HIDE DEF V
<1>7. \A k \in 0..n : f[k] \in V
  <2> HIDE DEF n
  <2> QED BY <1>3, <1>5, <1>6, Reached
<1> QED BY <1>1, <1>3, <1>7 DEF V
-----------------------------------------------------------------------------
(* One step of the merge: the rows from the i-th and the j-th on.          *)
MergeFrom(list1, list2, f, i, j) ==
  IF i > Len(list1) THEN SubSeq(list2, j, Len(list2))
  ELSE IF j > Len(list2) THEN SubSeq(list1, i, Len(list1))
  ELSE IF list2[j] < list1[i] THEN <<list2[j]>> \o f[<<i, j + 1>>]
  ELSE <<list1[i]>> \o f[<<i + 1, j>>]

(* Where the merge of two lists may stand.                                 *)
Fronts(list1, list2) == (1..(Len(list1) + 1)) \X (1..(Len(list2) + 1))

(* The function Merge takes its value of.                                  *)
IsMerged(list1, list2, f) ==
  f = [p \in Fronts(list1, list2) |-> MergeFrom(list1, list2, f, p[1], p[2])]

(* How many rows are left from there on.                                   *)
Left(list1, list2, i, j) == (Len(list1) + 1 - i) + (Len(list2) + 1 - j)

(* What the merge of two lists goes on with is a list.                     *)
LEMMA MergeFromType ==
  ASSUME NEW list1 \in Seq(Row), NEW list2 \in Seq(Row),
         NEW f \in [Fronts(list1, list2) -> Seq(Row)],
         NEW i \in 1..(Len(list1) + 1), NEW j \in 1..(Len(list2) + 1)
  PROVE  MergeFrom(list1, list2, f, i, j) \in Seq(Row)
<1>1. CASE i > Len(list1)
  <2>1. j \in Nat \ {0} /\ Len(list2) \in Int /\ Len(list2) <= Len(list2)
    OBVIOUS
  <2>2. SubSeq(list2, j, Len(list2)) \in Seq(Row)
    BY <2>1, PieceType
  <2> QED BY <1>1, <2>2 DEF MergeFrom
<1>2. CASE ~(i > Len(list1)) /\ j > Len(list2)
  <2>1. i \in Nat \ {0} /\ Len(list1) \in Int /\ Len(list1) <= Len(list1)
    OBVIOUS
  <2>2. SubSeq(list1, i, Len(list1)) \in Seq(Row)
    BY <2>1, PieceType
  <2> QED BY <1>2, <2>2 DEF MergeFrom
<1>3. CASE ~(i > Len(list1)) /\ ~(j > Len(list2))
  <2>1. i \in 1..Len(list1) /\ j \in 1..Len(list2)
    BY <1>3
  <2>2. <<list1[i]>> \in Seq(Row) /\ <<list2[j]>> \in Seq(Row)
    BY <2>1
  <2>3. <<i, j + 1>> \in Fronts(list1, list2) /\ <<i + 1, j>> \in Fronts(list1, list2)
    BY <2>1 DEF Fronts
  <2>4. f[<<i, j + 1>>] \in Seq(Row) /\ f[<<i + 1, j>>] \in Seq(Row)
    BY <2>3
  <2>5. /\ <<list2[j]>> \o f[<<i, j + 1>>] \in Seq(Row)
        /\ <<list1[i]>> \o f[<<i + 1, j>>] \in Seq(Row)
    BY <2>2, <2>4, ConcatType
  <2> QED BY <1>3, <2>5 DEF MergeFrom
<1> QED BY <1>1, <1>2, <1>3

(* Two merges agree where at most n rows are left.                         *)
AgreeUpto(list1, list2, n, f, g) ==
  \A i \in 1..(Len(list1) + 1), j \in 1..(Len(list2) + 1) :
    Left(list1, list2, i, j) <= n => f[<<i, j>>] = g[<<i, j>>]

(* Only what is left further on is read.                                   *)
LEMMA MergeFromLater ==
  ASSUME NEW list1 \in Seq(Row), NEW list2 \in Seq(Row), NEW f, NEW g,
         NEW i \in 1..(Len(list1) + 1), NEW j \in 1..(Len(list2) + 1), NEW n \in Nat,
         Left(list1, list2, i, j) <= n + 1, AgreeUpto(list1, list2, n, f, g)
  PROVE  MergeFrom(list1, list2, f, i, j) = MergeFrom(list1, list2, g, i, j)
<1>1. CASE i <= Len(list1) /\ j <= Len(list2)
  <2>1. /\ i \in 1..(Len(list1) + 1) /\ j + 1 \in 1..(Len(list2) + 1)
        /\ i + 1 \in 1..(Len(list1) + 1) /\ j \in 1..(Len(list2) + 1)
        /\ Left(list1, list2, i, j + 1) <= n /\ Left(list1, list2, i + 1, j) <= n
    BY <1>1 DEF Left
  <2>2. f[<<i, j + 1>>] = g[<<i, j + 1>>] /\ f[<<i + 1, j>>] = g[<<i + 1, j>>]
    BY <2>1 DEF AgreeUpto
  <2> QED BY <2>2 DEF MergeFrom
<1>2. CASE ~(i <= Len(list1) /\ j <= Len(list2))
  BY <1>2 DEF MergeFrom
<1> QED BY <1>1, <1>2

(* f is the merge where at most n rows are left.                           *)
MergedTo(list1, list2, n, f) ==
  /\ f \in [Fronts(list1, list2) -> Seq(Row)]
  /\ \A i \in 1..(Len(list1) + 1), j \in 1..(Len(list2) + 1) :
       Left(list1, list2, i, j) <= n =>
         f[<<i, j>>] = MergeFrom(list1, list2, f, i, j)

(* The recursive function of Merge exists.                                 *)
LEMMA MergedExists ==
  ASSUME NEW list1 \in Seq(Row), NEW list2 \in Seq(Row)
  PROVE  \E f : IsMerged(list1, list2, f)
<1> DEFINE I == 1..(Len(list1) + 1)
           J == 1..(Len(list2) + 1)
           D == Fronts(list1, list2)
           left(i, j) == Left(list1, list2, i, j)
           P == {n \in Nat : \E f : MergedTo(list1, list2, n, f)}
<1>0. /\ \A i \in I, j \in J : <<i, j>> \in D /\ left(i, j) \in Nat
      /\ \A p \in D : p[1] \in I /\ p[2] \in J /\ p = <<p[1], p[2]>>
  BY DEF Fronts, Left
<1>1. 0 \in P
  <2> DEFINE f == [p \in D |-> << >>]
  <2>1. f \in [D -> Seq(Row)] /\ \A i \in I, j \in J : f[<<i, j>>] = << >>
    BY <1>0
  <2>2. ASSUME NEW i \in I, NEW j \in J, left(i, j) <= 0
        PROVE  MergeFrom(list1, list2, f, i, j) = << >>
    <3>1. i = Len(list1) + 1 /\ j = Len(list2) + 1 /\ Len(list1) \in Nat /\ Len(list2) \in Nat
      BY <2>2 DEF Left
    <3>2. i > Len(list1) /\ j \in Int /\ Len(list2) \in Int /\ Len(list2) < j
      BY <3>1
    <3>3. SubSeq(list2, j, Len(list2)) = << >>
      BY <3>2, SubSeqEmpty
    <3> HIDE DEF f
    <3> QED BY <3>2, <3>3 DEF MergeFrom
  <2> HIDE DEF f
  <2>3. MergedTo(list1, list2, 0, f)
    BY <2>1, <2>2 DEF MergedTo
  <2> QED BY <2>3
<1>2. ASSUME NEW n \in Nat, n \in P
      PROVE  n + 1 \in P
  <2>1. PICK f : MergedTo(list1, list2, n, f)
    BY <1>2
  <2> DEFINE g == [p \in D |-> IF left(p[1], p[2]) = n + 1
                               THEN MergeFrom(list1, list2, f, p[1], p[2]) ELSE f[p]]
  <2>2. f \in [D -> Seq(Row)]
    BY <2>1 DEF MergedTo
  <2>3. \A i \in I, j \in J : MergeFrom(list1, list2, f, i, j) \in Seq(Row)
    BY <2>2, MergeFromType
  <2>4. g \in [D -> Seq(Row)]
    <3>1. \A p \in D : MergeFrom(list1, list2, f, p[1], p[2]) \in Seq(Row) /\ f[p] \in Seq(Row)
      BY <1>0, <2>2, <2>3
    <3> HIDE DEF D, left
    <3> QED BY <3>1
  <2>5. \A i \in I, j \in J :
          g[<<i, j>>] = IF left(i, j) = n + 1 THEN MergeFrom(list1, list2, f, i, j)
                        ELSE f[<<i, j>>]
    <3> HIDE DEF D, I, J, left
    <3> QED BY <1>0
  <2> HIDE DEF g
  <2>6. ASSUME NEW i \in I, NEW j \in J, left(i, j) <= n + 1
        PROVE  g[<<i, j>>] = MergeFrom(list1, list2, g, i, j)
    <3>1. \A k \in I, l \in J : left(k, l) <= n => f[<<k, l>>] = g[<<k, l>>]
      <4> TAKE k \in I, l \in J
      <4> HAVE left(k, l) <= n
      <4>1. left(k, l) # n + 1
        BY <1>0
      <4> QED BY <4>1, <2>5
    <3>2. MergeFrom(list1, list2, f, i, j) = MergeFrom(list1, list2, g, i, j)
      <4>1. AgreeUpto(list1, list2, n, f, g)
        BY <3>1 DEF AgreeUpto
      <4> QED BY <2>6, <4>1, MergeFromLater
    <3>3. CASE left(i, j) = n + 1
      BY <2>5, <3>2, <3>3
    <3>4. CASE left(i, j) # n + 1
      <4>1. left(i, j) <= n
        <5>1. left(i, j) \in Nat
          BY <1>0
        <5> HIDE DEF left
        <5> QED BY <5>1, <2>6, <3>4
      <4>2. f[<<i, j>>] = MergeFrom(list1, list2, f, i, j)
        BY <2>1, <4>1 DEF MergedTo
      <4> QED BY <2>5, <3>2, <3>4, <4>2
    <3> QED BY <3>3, <3>4
  <2>7. MergedTo(list1, list2, n + 1, g)
    BY <2>4, <2>6 DEF MergedTo
  <2> QED BY <2>7
<1> HIDE DEF P
<1>3. \A n \in Nat : n \in P
  BY <1>1, <1>2, Induction
<1> DEFINE n == Len(list1) + Len(list2)
<1>4. n \in Nat /\ \A i \in I, j \in J : left(i, j) <= n
  BY DEF Left
<1>5. PICK f : MergedTo(list1, list2, n, f)
  BY <1>3, <1>4 DEF P
<1>6. \A p \in D : f[p] = MergeFrom(list1, list2, f, p[1], p[2])
  <2> TAKE p \in D
  <2>1. p[1] \in I /\ p[2] \in J /\ p = <<p[1], p[2]>>
    BY <1>0
  <2>2. f[<<p[1], p[2]>>] = MergeFrom(list1, list2, f, p[1], p[2])
    BY <1>4, <1>5, <2>1 DEF MergedTo
  <2> QED BY <2>1, <2>2
<1>7. f = [p \in D |-> MergeFrom(list1, list2, f, p[1], p[2])]
  <2>1. f \in [D -> Seq(Row)]
    BY <1>5 DEF MergedTo
  <2> HIDE DEF D
  <2> QED BY <1>6, <2>1
<1> QED BY <1>7 DEF IsMerged
-----------------------------------------------------------------------------
(* Merging loses no row and takes none twice (LiMBinder.cpp:635).          *)
LEMMA MergeTotal ==
  ASSUME NEW w \in Weights, NEW list1 \in Seq(Row), NEW list2 \in Seq(Row)
  PROVE  /\ Merge(list1, list2) \in Seq(Row)
         /\ Total(w, Merge(list1, list2)) = Total(w, list1) + Total(w, list2)
<1> DEFINE I == 1..(Len(list1) + 1)
           J == 1..(Len(list2) + 1)
           f == CHOOSE f : IsMerged(list1, list2, f)
           rest(i, j) == Total(w, SubSeq(list1, i, Len(list1)))
                           + Total(w, SubSeq(list2, j, Len(list2)))
           Fine(i, j) == f[<<i, j>>] \in Seq(Row) /\ Total(w, f[<<i, j>>]) = rest(i, j)
           left(i, j) == Left(list1, list2, i, j)
           P == {n \in Nat : \A i \in I, j \in J : left(i, j) <= n => Fine(i, j)}
<1>0. Len(list1) \in Nat /\ Len(list2) \in Nat
  OBVIOUS
<1>1. Merge(list1, list2) = f[<<1, 1>>]
  BY DEF Merge, IsMerged, MergeFrom, Fronts
<1>2. IsMerged(list1, list2, f)
  BY MergedExists
<1> HIDE DEF f
<1>3. ASSUME NEW i \in I, NEW j \in J
      PROVE  f[<<i, j>>] = MergeFrom(list1, list2, f, i, j)
  <2>1. <<i, j>> \in Fronts(list1, list2) /\ <<i, j>>[1] = i /\ <<i, j>>[2] = j
    BY DEF Fronts
  <2> HIDE DEF I, J
  <2> QED BY <2>1, <1>2 DEF IsMerged
<1>4. \A i \in I : SubSeq(list1, i, Len(list1)) \in Seq(Row)
  <2>1. \A i \in I : i \in Nat \ {0} /\ Len(list1) \in Int /\ Len(list1) <= Len(list1)
    OBVIOUS
  <2> QED BY <2>1, PieceType
<1>5. \A j \in J : SubSeq(list2, j, Len(list2)) \in Seq(Row)
  <2>1. \A j \in J : j \in Nat \ {0} /\ Len(list2) \in Int /\ Len(list2) <= Len(list2)
    OBVIOUS
  <2> QED BY <2>1, PieceType
<1>6. /\ \A i \in I : Total(w, SubSeq(list1, i, Len(list1))) \in Nat
      /\ \A j \in J : Total(w, SubSeq(list2, j, Len(list2))) \in Nat
  BY <1>4, <1>5, TotalNat
<1>7. ASSUME NEW i \in I, NEW j \in J,
             i <= Len(list1) /\ j <= Len(list2) => Fine(i, j + 1) /\ Fine(i + 1, j)
      PROVE  Fine(i, j)
  <2>1. CASE i > Len(list1)
    <3>1. i \in Int /\ Len(list1) \in Int /\ Len(list1) < i
      BY <2>1
    <3>2. Total(w, SubSeq(list1, i, Len(list1))) = 0
      BY <3>1, TotalNothing
    <3>3. f[<<i, j>>] = SubSeq(list2, j, Len(list2))
      BY <1>3, <2>1 DEF MergeFrom
    <3> QED BY <3>2, <3>3, <1>5, <1>6
  <2>2. CASE ~(i > Len(list1)) /\ j > Len(list2)
    <3>1. j \in Int /\ Len(list2) \in Int /\ Len(list2) < j
      BY <2>2
    <3>2. Total(w, SubSeq(list2, j, Len(list2))) = 0
      BY <3>1, TotalNothing
    <3>3. f[<<i, j>>] = SubSeq(list1, i, Len(list1))
      BY <1>3, <2>2 DEF MergeFrom
    <3> QED BY <3>2, <3>3, <1>4, <1>6
  <2>3. CASE ~(i > Len(list1)) /\ ~(j > Len(list2))
    <3>1. /\ i \in 1..Len(list1) /\ j \in 1..Len(list2)
          /\ Len(list1) \in i..Len(list1) /\ Len(list2) \in j..Len(list2)
          /\ i + 1 \in I /\ j + 1 \in J
      BY <1>0, <2>3
    <3>2. /\ list1[i] \in Row /\ list2[j] \in Row
          /\ w[list1[i]] \in Nat /\ w[list2[j]] \in Nat
      <4>1. list1[i] \in Row /\ list2[j] \in Row
        BY <3>1
      <4> QED BY <4>1 DEF Weights
    <3>3. /\ Total(w, SubSeq(list1, i, Len(list1)))
               = w[list1[i]] + Total(w, SubSeq(list1, i + 1, Len(list1)))
          /\ Total(w, SubSeq(list2, j, Len(list2)))
               = w[list2[j]] + Total(w, SubSeq(list2, j + 1, Len(list2)))
      BY <3>1, TotalFirst
    <3>4. Fine(i, j + 1) /\ Fine(i + 1, j)
      BY <1>7, <3>1
    <3> DEFINE x == Total(w, SubSeq(list1, i, Len(list1)))
               x1 == Total(w, SubSeq(list1, i + 1, Len(list1)))
               y == Total(w, SubSeq(list2, j, Len(list2)))
               y1 == Total(w, SubSeq(list2, j + 1, Len(list2)))
               a == w[list1[i]]
               b == w[list2[j]]
    <3>7. /\ x = a + x1 /\ y = b + y1 /\ x \in Nat /\ y \in Nat
          /\ x1 \in Nat /\ y1 \in Nat /\ a \in Nat /\ b \in Nat
      BY <3>1, <3>2, <3>3, <1>6
    <3>8. rest(i, j) = x + y /\ rest(i + 1, j) = x1 + y /\ rest(i, j + 1) = x + y1
      OBVIOUS
    <3> HIDE DEF x, x1, y, y1, a, b, rest
    <3>5. CASE list2[j] < list1[i]
      <4>1. f[<<i, j>>] = <<list2[j]>> \o f[<<i, j + 1>>]
        BY <1>3, <2>3, <3>5 DEF MergeFrom
      <4>2. /\ <<list2[j]>> \in Seq(Row) /\ Total(w, <<list2[j]>>) = w[list2[j]]
            /\ f[<<i, j + 1>>] \in Seq(Row) /\ Total(w, f[<<i, j + 1>>]) = rest(i, j + 1)
        BY <3>2, <3>4, TotalOne
      <4>3. /\ <<list2[j]>> \o f[<<i, j + 1>>] \in Seq(Row)
            /\ Total(w, <<list2[j]>> \o f[<<i, j + 1>>])
                 = Total(w, <<list2[j]>>) + Total(w, f[<<i, j + 1>>])
        BY <4>2, ConcatType, TotalConcat
      <4>4. Total(w, f[<<i, j>>]) = b + (x + y1)
        BY <4>1, <4>2, <4>3, <3>8 DEF b
      <4>5. b + (x + y1) = x + y
        BY <3>7
      <4> QED BY <4>1, <4>3, <4>4, <4>5, <3>8
    <3>6. CASE ~(list2[j] < list1[i])
      <4>1. f[<<i, j>>] = <<list1[i]>> \o f[<<i + 1, j>>]
        BY <1>3, <2>3, <3>6 DEF MergeFrom
      <4>2. /\ <<list1[i]>> \in Seq(Row) /\ Total(w, <<list1[i]>>) = w[list1[i]]
            /\ f[<<i + 1, j>>] \in Seq(Row) /\ Total(w, f[<<i + 1, j>>]) = rest(i + 1, j)
        BY <3>2, <3>4, TotalOne
      <4>3. /\ <<list1[i]>> \o f[<<i + 1, j>>] \in Seq(Row)
            /\ Total(w, <<list1[i]>> \o f[<<i + 1, j>>])
                 = Total(w, <<list1[i]>>) + Total(w, f[<<i + 1, j>>])
        BY <4>2, ConcatType, TotalConcat
      <4>4. Total(w, f[<<i, j>>]) = a + (x1 + y)
        BY <4>1, <4>2, <4>3, <3>8 DEF a
      <4>5. a + (x1 + y) = x + y
        BY <3>7
      <4> QED BY <4>1, <4>3, <4>4, <4>5, <3>8
    <3> QED BY <3>5, <3>6
  <2> QED BY <2>1, <2>2, <2>3
<1>8. \A i \in I, j \in J : left(i, j) \in Nat
  BY <1>0 DEF Left
<1>9. ASSUME NEW i \in I, NEW j \in J, i <= Len(list1), j <= Len(list2)
      PROVE  /\ i + 1 \in I /\ j + 1 \in J
             /\ left(i, j + 1) = left(i, j) - 1 /\ left(i + 1, j) = left(i, j) - 1
  BY <1>0, <1>9 DEF Left
<1>10. ASSUME NEW i \in I, NEW j \in J, i <= Len(list1), j <= Len(list2)
       PROVE  left(i, j) >= 2
  BY <1>0, <1>10 DEF Left
<1> HIDE DEF I, J, left, Fine
<1>11. 0 \in P
  <2>1. ASSUME NEW i \in I, NEW j \in J, left(i, j) <= 0
        PROVE  Fine(i, j)
    <3>1. ~(i <= Len(list1) /\ j <= Len(list2))
      BY <1>8, <1>10, <2>1
    <3> QED BY <3>1, <1>7
  <2> QED BY <2>1
<1>12. ASSUME NEW n \in Nat, n \in P
       PROVE  n + 1 \in P
  <2>1. ASSUME NEW i \in I, NEW j \in J, left(i, j) <= n + 1
        PROVE  Fine(i, j)
    <3>1. ASSUME i <= Len(list1), j <= Len(list2)
          PROVE  Fine(i, j + 1) /\ Fine(i + 1, j)
      <4>1. /\ i + 1 \in I /\ j + 1 \in J
            /\ left(i, j + 1) = left(i, j) - 1 /\ left(i + 1, j) = left(i, j) - 1
        BY <1>9, <3>1
      <4>2. left(i, j) \in Nat
        BY <1>8
      <4>3. left(i, j + 1) <= n /\ left(i + 1, j) <= n
        BY <2>1, <4>1, <4>2
      <4> QED BY <1>12, <4>1, <4>3
    <3> QED BY <3>1, <1>7
  <2> QED BY <2>1
<1> HIDE DEF P
<1>13. \A n \in Nat : n \in P
  BY <1>11, <1>12, Induction
<1>14. 1 \in I /\ 1 \in J
  BY <1>0 DEF I, J
<1>15. Fine(1, 1)
  <2>1. left(1, 1) \in Nat /\ left(1, 1) <= left(1, 1)
    BY <1>8, <1>14
  <2>2. left(1, 1) \in P
    BY <1>13, <2>1
  <2> QED BY <1>14, <2>1, <2>2 DEF P
<1> QED BY <1>1, <1>15, TotalWhole DEF Fine
-----------------------------------------------------------------------------
-----------------------------------------------------------------------------
(* Halving.                                                                *)
Half(n) == (n + 1) \div 2

(* The function Steps takes its value of.                                  *)
IsHalvings(n, f) ==
  f = [m \in 1..n |-> IF m = 1 THEN 0 ELSE f[(m + 1) \div 2] + 1]

(* The same with its types.                                                *)
HalvingsTo(n, f) ==
  /\ f \in [1..n -> Nat]
  /\ \A m \in 1..n : f[m] = IF m = 1 THEN 0 ELSE f[Half(m)] + 1

(* Half of a number above 1, rounded up, is smaller and not 0.             *)
LEMMA HalfBounds ==
  ASSUME NEW m \in Nat, m >= 2
  PROVE  Half(m) \in 1..(m - 1)
BY DEF Half

(* The recursive function of Steps exists.                                 *)
LEMMA HalvingsExist ==
  ASSUME NEW n \in Nat
  PROVE  \E f : HalvingsTo(n, f)
<1> DEFINE P == {k \in Nat : \E f : HalvingsTo(k, f)}
<1>1. 0 \in P
  <2> DEFINE f == [m \in 1..0 |-> 0]
  <2>1. HalvingsTo(0, f)
    BY DEF HalvingsTo
  <2> QED BY <2>1
<1>2. ASSUME NEW k \in Nat, k \in P
      PROVE  k + 1 \in P
  <2>1. PICK f : HalvingsTo(k, f)
    BY <1>2
  <2>2. /\ f \in [1..k -> Nat]
        /\ \A m \in 1..k : f[m] = IF m = 1 THEN 0 ELSE f[Half(m)] + 1
    BY <2>1 DEF HalvingsTo
  <2> DEFINE v == IF k = 0 THEN 0 ELSE f[Half(k + 1)] + 1
             g == [m \in 1..(k + 1) |-> IF m = k + 1 THEN v ELSE f[m]]
  <2>3. v \in Nat
    <3>1. CASE k # 0
      <4>1. Half(k + 1) \in 1..k
        BY <3>1, HalfBounds
      <4>2. f[Half(k + 1)] \in Nat
        BY <2>2, <4>1
      <4> QED BY <3>1, <4>2
    <3> QED BY <3>1
  <2>4. g \in [1..(k + 1) -> Nat]
    <3> HIDE DEF v
    <3>1. \A m \in 1..(k + 1) : m # k + 1 => f[m] \in Nat
      BY <2>2
    <3> QED BY <2>3, <3>1
  <2>5. ASSUME NEW m \in 1..(k + 1)
        PROVE  g[m] = IF m = 1 THEN 0 ELSE g[Half(m)] + 1
    <3>1. CASE m = 1
      <4>1. k = 0 \/ (1 \in 1..k /\ m # k + 1)
        BY <3>1
      <4> QED BY <2>2, <3>1, <4>1
    <3>2. CASE m # 1
      <4>1. Half(m) \in 1..(m - 1) /\ m \in Nat
        BY <3>2, HalfBounds
      <4>2. Half(m) \in 1..(k + 1) /\ Half(m) # k + 1
        BY <4>1
      <4>3. g[Half(m)] = f[Half(m)]
        BY <4>2
      <4>4. g[m] = f[Half(m)] + 1
        <5>1. CASE m = k + 1
          BY <5>1, <3>2
        <5>2. CASE m # k + 1
          <6>1. m \in 1..k /\ g[m] = f[m]
            BY <5>2
          <6> QED BY <6>1, <2>2, <3>2
        <5> QED BY <5>1, <5>2
      <4> QED BY <3>2, <4>3, <4>4
    <3> QED BY <3>1, <3>2
  <2> HIDE DEF g
  <2>6. HalvingsTo(k + 1, g)
    BY <2>4, <2>5 DEF HalvingsTo
  <2> QED BY <2>6
<1> HIDE DEF P
<1>3. \A k \in Nat : k \in P
  BY <1>1, <1>2, Induction
<1> QED BY <1>3 DEF P

(* It is the same function for every bound.                                *)
LEMMA HalvingsAgree ==
  ASSUME NEW n \in Nat, NEW f, HalvingsTo(n, f), NEW k \in 0..n, NEW g, HalvingsTo(k, g)
  PROVE  \A m \in 1..k : f[m] = g[m]
<1> DEFINE P == {j \in Nat : \A m \in 1..j : m <= k => f[m] = g[m]}
<1>1. /\ \A m \in 1..k : f[m] = IF m = 1 THEN 0 ELSE f[Half(m)] + 1
      /\ \A m \in 1..k : g[m] = IF m = 1 THEN 0 ELSE g[Half(m)] + 1
  BY DEF HalvingsTo
<1>2. 0 \in P
  OBVIOUS
<1>3. ASSUME NEW j \in Nat, j \in P
      PROVE  j + 1 \in P
  <2>1. ASSUME j + 1 <= k
        PROVE  f[j + 1] = g[j + 1]
    <3>1. CASE j = 0
      BY <1>1, <2>1, <3>1
    <3>2. CASE j # 0
      <4>1. j + 1 \in 1..k /\ j + 1 # 1 /\ j + 1 >= 2 /\ j + 1 \in Nat
        BY <2>1, <3>2
      <4>2. Half(j + 1) \in 1..((j + 1) - 1)
        BY <4>1, HalfBounds
      <4>3. Half(j + 1) \in 1..j /\ Half(j + 1) <= k
        BY <2>1, <4>2
      <4>4. f[Half(j + 1)] = g[Half(j + 1)]
        BY <1>3, <4>3
      <4> QED BY <1>1, <4>1, <4>4
    <3> QED BY <3>1, <3>2
  <2>2. \A m \in 1..(j + 1) : m \in 1..j \/ m = j + 1
    OBVIOUS
  <2>3. \A m \in 1..(j + 1) : m <= k => f[m] = g[m]
    BY <1>3, <2>1, <2>2
  <2> QED BY <2>3
<1> HIDE DEF P
<1>4. \A j \in Nat : j \in P
  BY <1>2, <1>3, Induction
<1>5. k \in P
  BY <1>4
<1> QED BY <1>5 DEF P

(* Steps is a value of that function.                                      *)
LEMMA StepsValue ==
  ASSUME NEW n \in Nat \ {0}
  PROVE  \E f : HalvingsTo(n, f) /\ Steps(n) = f[n]
<1> DEFINE f == CHOOSE f : IsHalvings(n, f)
<1>1. \E g : IsHalvings(n, g)
  <2>1. PICK g : HalvingsTo(n, g)
    BY HalvingsExist
  <2>2. g = [m \in 1..n |-> IF m = 1 THEN 0 ELSE g[(m + 1) \div 2] + 1]
    BY <2>1 DEF HalvingsTo, Half
  <2> QED BY <2>2 DEF IsHalvings
<1>2. IsHalvings(n, f)
  BY <1>1
<1>3. Steps(n) = f[n]
  BY DEF Steps, IsHalvings
<1> HIDE DEF f
<1>4. \A m \in 1..n : f[m] = IF m = 1 THEN 0 ELSE f[Half(m)] + 1
  BY <1>2 DEF IsHalvings, Half
<1>5. \A m \in 1..n : f[m] \in Nat
  <2> DEFINE P == {j \in Nat : \A m \in 1..j : m <= n => f[m] \in Nat}
  <2>1. 0 \in P
    OBVIOUS
  <2>2. ASSUME NEW j \in Nat, j \in P
        PROVE  j + 1 \in P
    <3>1. ASSUME j + 1 <= n
          PROVE  f[j + 1] \in Nat
      <4>1. CASE j = 0
        BY <1>4, <3>1, <4>1
      <4>2. CASE j # 0
        <5>1. j + 1 \in 1..n /\ j + 1 # 1 /\ j + 1 >= 2 /\ j + 1 \in Nat
          BY <3>1, <4>2
        <5>2. Half(j + 1) \in 1..((j + 1) - 1)
          BY <5>1, HalfBounds
        <5>3. Half(j + 1) \in 1..j /\ Half(j + 1) <= n
          BY <3>1, <5>2
        <5>4. f[Half(j + 1)] \in Nat
          BY <2>2, <5>3
        <5> QED BY <1>4, <5>1, <5>4
      <4> QED BY <4>1, <4>2
    <3>2. \A m \in 1..(j + 1) : m \in 1..j \/ m = j + 1
      OBVIOUS
    <3>3. \A m \in 1..(j + 1) : m <= n => f[m] \in Nat
      BY <2>2, <3>1, <3>2
    <3> QED BY <3>3
  <2> HIDE DEF P
  <2>3. \A j \in Nat : j \in P
    BY <2>1, <2>2, Induction
  <2>4. n \in P
    BY <2>3
  <2> QED BY <2>4 DEF P
<1>6. f \in [1..n -> Nat]
  <2>1. f = [m \in 1..n |-> f[m]]
    BY <1>2 DEF IsHalvings
  <2> QED BY <1>5, <2>1
<1> QED BY <1>3, <1>4, <1>6 DEF HalvingsTo

(* The steps of a tree: none for one row, one more than for half the rows, *)
(* rounded up (LiMBinder.cpp:466-467).                                     *)
LEMMA StepsHalve ==
  ASSUME NEW n \in Nat \ {0}
  PROVE  /\ Steps(n) \in Nat
         /\ n = 1 => Steps(n) = 0
         /\ n > 1 => Half(n) \in Nat \ {0} /\ Steps(n) = Steps(Half(n)) + 1
<1>1. PICK f : HalvingsTo(n, f) /\ Steps(n) = f[n]
  BY StepsValue
<1>2. n \in 1..n
  OBVIOUS
<1>3. Steps(n) \in Nat /\ Steps(n) = IF n = 1 THEN 0 ELSE f[Half(n)] + 1
  BY <1>1, <1>2 DEF HalvingsTo
<1>4. ASSUME n > 1
      PROVE  Half(n) \in Nat \ {0} /\ Steps(n) = Steps(Half(n)) + 1
  <2> DEFINE h == Half(n)
  <2>1. h \in 1..(n - 1)
    BY <1>4, HalfBounds
  <2> HIDE DEF h
  <2>2. h \in Nat \ {0} /\ h \in 0..n /\ h \in 1..h
    BY <2>1
  <2>3. PICK g : HalvingsTo(h, g) /\ Steps(h) = g[h]
    BY <2>2, StepsValue
  <2>4. f[h] = g[h]
    BY <1>1, <2>2, <2>3, HalvingsAgree
  <2>5. Steps(n) = Steps(h) + 1
    BY <1>3, <1>4, <2>3, <2>4 DEF h
  <2> QED BY <2>2, <2>5 DEF h
<1> QED BY <1>3, <1>4
-----------------------------------------------------------------------------
-----------------------------------------------------------------------------
(* Bags of rows.                                                           *)
RowBags == {b \in UNION {[S -> Nat \ {0}] : S \in SUBSET Row} : TRUE}

(* How often e is in a bag.                                                *)
Copies(e, b) == IF e \in DOMAIN b THEN b[e] ELSE 0

(* What a bag of rows is.                                                  *)
LEMMA BagParts ==
  ASSUME NEW b
  PROVE  b \in RowBags <=> DOMAIN b \subseteq Row /\ b \in [DOMAIN b -> Nat \ {0}]
<1>1. ASSUME b \in RowBags
      PROVE  DOMAIN b \subseteq Row /\ b \in [DOMAIN b -> Nat \ {0}]
  <2>1. PICK S \in SUBSET Row : b \in [S -> Nat \ {0}]
    BY <1>1 DEF RowBags
  <2> QED BY <2>1
<1>2. ASSUME DOMAIN b \subseteq Row, b \in [DOMAIN b -> Nat \ {0}]
      PROVE  b \in RowBags
  <2>1. DOMAIN b \in SUBSET Row
    BY <1>2
  <2> QED BY <1>2, <2>1 DEF RowBags
<1> QED BY <1>1, <1>2

(* How often a row is in the union of two bags.                            *)
LEMMA BagAdd ==
  ASSUME NEW a \in RowBags, NEW b \in RowBags
  PROVE  /\ a (+) b \in RowBags
         /\ \A e \in Row : Copies(e, a (+) b) = Copies(e, a) + Copies(e, b)
<1>1. /\ DOMAIN a \subseteq Row /\ \A e \in DOMAIN a : a[e] \in Nat \ {0}
      /\ DOMAIN b \subseteq Row /\ \A e \in DOMAIN b : b[e] \in Nat \ {0}
  BY BagParts
<1> DEFINE c == a (+) b
           sum(e) == (IF e \in DOMAIN a THEN a[e] ELSE 0) + (IF e \in DOMAIN b THEN b[e] ELSE 0)
<1>2. c = [e \in DOMAIN a \cup DOMAIN b |-> sum(e)]
  BY DEF (+)
<1>3. \A e \in DOMAIN a \cup DOMAIN b : sum(e) \in Nat \ {0}
  BY <1>1
<1>4. \A e : Copies(e, a) + Copies(e, b) = sum(e)
  BY DEF Copies
<1>5. \A e : e \notin DOMAIN a \cup DOMAIN b => sum(e) = 0
  OBVIOUS
<1> HIDE DEF c, sum
<1>6. c \in [DOMAIN a \cup DOMAIN b -> Nat \ {0}] /\ DOMAIN c = DOMAIN a \cup DOMAIN b
  BY <1>2, <1>3
<1>7. c \in RowBags
  <2>1. DOMAIN c \subseteq Row /\ c \in [DOMAIN c -> Nat \ {0}]
    BY <1>1, <1>6
  <2> QED BY <2>1, BagParts
<1>8. \A e \in Row : Copies(e, c) = sum(e)
  BY <1>2, <1>5 DEF Copies
<1> QED BY <1>4, <1>7, <1>8 DEF c

(* The bag of one row.                                                     *)
LEMMA BagOne ==
  ASSUME NEW r \in Row
  PROVE  SetToBag({r}) \in RowBags
<1>1. SetToBag({r}) = [e \in {r} |-> 1]
  BY DEF SetToBag
<1>2. DOMAIN SetToBag({r}) = {r} /\ SetToBag({r}) \in [{r} -> Nat \ {0}]
  BY <1>1
<1> QED BY <1>2, BagParts

(* Bags with the same copies are the same bag.                             *)
LEMMA BagEqual ==
  ASSUME NEW a \in RowBags, NEW b \in RowBags, \A e \in Row : Copies(e, a) = Copies(e, b)
  PROVE  a = b
<1>1. /\ DOMAIN a \subseteq Row /\ a \in [DOMAIN a -> Nat \ {0}]
      /\ DOMAIN b \subseteq Row /\ b \in [DOMAIN b -> Nat \ {0}]
  BY BagParts
<1>2. ASSUME NEW e \in Row
      PROVE  /\ e \in DOMAIN a <=> e \in DOMAIN b
             /\ e \in DOMAIN a => a[e] = b[e]
  <2>1. Copies(e, a) = Copies(e, b)
    OBVIOUS
  <2>2. /\ e \in DOMAIN a => a[e] \in Nat \ {0} /\ Copies(e, a) = a[e]
        /\ e \notin DOMAIN a => Copies(e, a) = 0
        /\ e \in DOMAIN b => b[e] \in Nat \ {0} /\ Copies(e, b) = b[e]
        /\ e \notin DOMAIN b => Copies(e, b) = 0
    BY <1>1 DEF Copies
  <2> QED BY <2>1, <2>2
<1>3. DOMAIN a = DOMAIN b
  BY <1>1, <1>2
<1>4. \A e \in DOMAIN a : a[e] = b[e]
  BY <1>1, <1>2
<1> QED BY <1>1, <1>3, <1>4

-----------------------------------------------------------------------------
(* The sums of the history variable are bags.                              *)
SummandsOK == \A r \in Row : Summands(r) \in RowBags

(* How often the row e was summed in a row.                                *)
CountOf(e) == [r \in Row |-> Copies(e, Summands(r))]

(* How often a row was summed in the others is a weight of them.           *)
LEMMA CountWeights ==
  ASSUME SummandsOK, NEW e \in Row
  PROVE  CountOf(e) \in Weights /\ \A r \in Row : CountOf(e)[r] = Copies(e, Summands(r))
<1>1. \A r \in Row : Copies(e, Summands(r)) \in Nat
  <2> TAKE r \in Row
  <2>1. Summands(r) \in [DOMAIN Summands(r) -> Nat \ {0}]
    BY BagParts DEF SummandsOK
  <2> QED BY <2>1 DEF Copies
<1> QED BY <1>1 DEF CountOf, Weights

(* The function SumOf takes its value of.                                  *)
IsSum(list, f) ==
  f = [n \in 0..Len(list) |-> IF n = 0 THEN EmptyBag ELSE f[n - 1] (+) Summands(list[n])]

(* The empty bag.                                                          *)
LEMMA EmptyBagFacts ==
  /\ EmptyBag \in RowBags
  /\ \A e \in Row : Copies(e, EmptyBag) = 0
<1>1. EmptyBag = [e \in {} |-> 1]
  BY DEF EmptyBag, SetToBag
<1>2. DOMAIN EmptyBag = {} /\ EmptyBag \in [{} -> Nat \ {0}]
  BY <1>1
<1>3. EmptyBag \in RowBags
  BY <1>2, BagParts
<1> QED BY <1>2, <1>3 DEF Copies

(* The recursive function of SumOf exists.                                 *)
LEMMA SumExists ==
  ASSUME SummandsOK, NEW list \in Seq(Row)
  PROVE  \E f : IsSum(list, f)
<1> DEFINE n == Len(list)
           V == RowBags
           e == EmptyBag
           part == [k \in Nat |-> IF k \in 1..n THEN Summands(list[k]) ELSE e]
           step == [kv \in Nat \X V |-> kv[2] (+) part[kv[1]]]
<1>1. n \in Nat /\ \A k \in 1..n : k \in Nat /\ list[k] \in Row
  OBVIOUS
<1>2. e \in V
  BY EmptyBagFacts
<1>3. \A k \in 1..n : Summands(list[k]) \in V
  BY <1>1 DEF SummandsOK
<1> HIDE DEF e, V, n
<1>4. part \in [Nat -> V] /\ \A k \in 1..n : part[k] = Summands(list[k])
  BY <1>1, <1>2, <1>3
<1> HIDE DEF part
<1>5. \A a, b \in V : a (+) b \in V
  BY BagAdd DEF V
<1>6. step \in [Nat \X V -> V]
  <2>1. \A kv \in Nat \X V : kv[2] (+) part[kv[1]] \in V
    <3> TAKE kv \in Nat \X V
    <3>1. kv[2] \in V /\ kv[1] \in Nat
      OBVIOUS
    <3>2. part[kv[1]] \in V
      BY <3>1, <1>4
    <3> QED BY <3>1, <3>2, <1>5
  <2> QED BY <2>1
<1>7. \A k \in Nat, v \in V : step[<<k, v>>] = v (+) part[k]
  OBVIOUS
<1> HIDE DEF step
<1>8. PICK f : Follows(f, V, e, step, n)
  BY <1>1, <1>2, <1>6, Recursion
<1>9. f \in [0..n -> V] /\ f[0] = e /\ \A k \in 1..n : f[k] = step[<<k, f[k - 1]>>]
  BY <1>8 DEF Follows
<1> DEFINE body(k) == IF k = 0 THEN EmptyBag ELSE f[k - 1] (+) Summands(list[k])
<1>10. ASSUME NEW k \in 0..n
       PROVE  f[k] = body(k)
  <2>1. CASE k = 0
    BY <2>1, <1>9 DEF e
  <2>2. CASE k # 0
    <3>1. k \in 1..n /\ k - 1 \in 0..n /\ k \in Nat
      BY <1>1, <2>2
    <3>2. f[k - 1] \in V /\ f[k] = step[<<k, f[k - 1]>>] /\ part[k] = Summands(list[k])
      BY <3>1, <1>4, <1>9
    <3>3. f[k] = f[k - 1] (+) part[k]
      BY <3>1, <3>2, <1>7
    <3> QED BY <2>2, <3>2, <3>3
  <2> QED BY <2>1, <2>2
<1> HIDE DEF body
<1>11. f = [k \in 0..n |-> body(k)]
  BY <1>9, <1>10
<1> QED BY <1>11 DEF IsSum, body, n

(* A sum has each row as often as the elements of the list together.       *)
LEMMA SumCopies ==
  ASSUME SummandsOK, NEW list \in Seq(Row), NEW e \in Row
  PROVE  SumOf(list) \in RowBags /\ Copies(e, SumOf(list)) = Total(CountOf(e), list)
<1> DEFINE n == Len(list)
           f == CHOOSE f : IsSum(list, f)
           w == CountOf(e)
<1>1. SumOf(list) = f[n]
  BY DEF SumOf, IsSum
<1>2. IsSum(list, f)
  BY SumExists
<1>3. n \in Nat /\ \A k \in 1..n : list[k] \in Row
  OBVIOUS
<1>4. w \in Weights /\ \A r \in Row : w[r] = Copies(e, Summands(r))
  BY CountWeights
<1> HIDE DEF f
<1>5. f[0] = EmptyBag /\ \A k \in 1..n : f[k] = f[k - 1] (+) Summands(list[k])
  <2>1. 0 \in 0..n /\ \A k \in 1..n : k \in 0..n /\ k # 0
    BY <1>3
  <2> QED BY <2>1, <1>2 DEF IsSum
<1> HIDE DEF w
<1>6. PICK g : /\ g[0] = 0 /\ \A k \in 1..n : g[k] = g[k - 1] + w[list[k]]
               /\ \A k \in 0..n : g[k] \in Nat
               /\ Total(w, list) = g[n]
  BY <1>4, TotalUnfold
<1> HIDE DEF n
<1> DEFINE P == {k \in Nat : k <= n => f[k] \in RowBags /\ Copies(e, f[k]) = g[k]}
<1>7. 0 \in P
  BY <1>5, <1>6, EmptyBagFacts
<1>8. ASSUME NEW k \in Nat, k \in P, k + 1 <= n
      PROVE  f[k + 1] \in RowBags /\ Copies(e, f[k + 1]) = g[k + 1]
  <2>1. k + 1 \in 1..n /\ (k + 1) - 1 = k
    BY <1>3, <1>8
  <2>2. f[k] \in RowBags /\ Copies(e, f[k]) = g[k]
    BY <1>3, <1>8
  <2> DEFINE m == k + 1
             x == list[m]
  <2>3. m \in 1..n /\ m - 1 = k
    BY <2>1
  <2> HIDE DEF m
  <2>4. x \in Row /\ f[m] = f[k] (+) Summands(x) /\ g[m] = g[k] + w[x]
    BY <2>3, <1>3, <1>5, <1>6
  <2> HIDE DEF x
  <2>5. Summands(x) \in RowBags /\ w[x] = Copies(e, Summands(x))
    BY <2>4, <1>4 DEF SummandsOK
  <2>6. f[m] \in RowBags /\ Copies(e, f[m]) = Copies(e, f[k]) + Copies(e, Summands(x))
    BY <2>2, <2>4, <2>5, BagAdd
  <2>7. f[m] \in RowBags /\ Copies(e, f[m]) = g[m]
    BY <2>2, <2>4, <2>5, <2>6
  <2> QED BY <2>7 DEF m
<1>9. \A k \in Nat : k \in P => k + 1 \in P
  BY <1>8
<1> HIDE DEF P
<1>10. \A k \in Nat : k \in P
  BY <1>7, <1>9, Induction
<1>11. f[n] \in RowBags /\ Copies(e, f[n]) = g[n]
  <2>1. n \in P /\ n <= n
    BY <1>3, <1>10
  <2> QED BY <2>1 DEF P
<1> QED BY <1>1, <1>6, <1>11 DEF w
-----------------------------------------------------------------------------
(* The locals of handleAccumulationBindingProcess.                         *)
AccState ==
  [operation : AccOps, destReg : Temps, set : Seq(Row), shape : Shapes,
   i : Nat, skipElements : Nat, tmpAccList : Seq(Row)]

(* accumulationListTime: the rows that join, by step.                      *)
ByTimes == UNION {[S -> Seq(Row)] : S \in SUBSET Nat}

(* The locals of performAccBinding.                                        *)
TreeState ==
  [phase : {"reuse", "merge", "bind"}, list : Seq(Row), steps : Nat,
   currList : Seq(Row), nextList : Seq(Row), remainList : Seq(Row),
   k : Nat, isReduceable : BOOLEAN, time : Nat, step : Nat,
   currTimeAccList : Seq(Row), p : Nat, pairs : Nat, byTime : ByTimes]

(* The two rows of every pair still to be added are in the list.           *)
PairsLeft ==
  tree.phase = "bind" =>
    /\ Len(tree.currTimeAccList) + tree.p >= 2 * tree.pairs + 1
    /\ \A k \in 1..Len(tree.currTimeAccList) : tree.currTimeAccList[k] \in Rows

(* The types of addMap.                                                    *)
AddMapOK == \A m \in DOMAIN addMap : m \in Row /\ addMap[m] \in Row \X Row

(* The types of the answers.                                               *)
SumsOK == \A s \in sums : s.list \in Seq(Row) /\ s.row \in Row

(* The types of a tree: a step that binds has its pair.                    *)
TreeOK ==
  /\ Accumulating
  /\ tree \in TreeState
  /\ tree.k # 0 /\ tree.p # 0 /\ Len(tree.list) # 0
  /\ PairsLeft

(* The types of what the accumulation keeps.                               *)
AccTypes ==
  /\ AddMapOK
  /\ Accumulating => ins = Idle /\ acc \in AccState
  /\ Summing => TreeOK
  /\ SumsOK

(* The inductive types: those of the binder and those of the accumulation. *)
TypeAcc == TypeInv /\ AccTypes

(* The inductive types imply the type invariant the run checks.            *)
LEMMA TypeAccGives ==
  ASSUME TypeAcc
  PROVE  TypeOKAcc
<1>1. ASSUME Summing
      PROVE  /\ \A t \in DOMAIN tree.byTime : t \in Nat /\ tree.byTime[t] \in Seq(Row)
             /\ [tree EXCEPT !.byTime = EmptyMap] \in Tree
  <2>1. tree \in TreeState
    BY <1>1 DEF TypeAcc, AccTypes, TreeOK
  <2>2. tree.byTime \in ByTimes
    BY <2>1 DEF TreeState
  <2>3. PICK S \in SUBSET Nat : tree.byTime \in [S -> Seq(Row)]
    BY <2>2 DEF ByTimes
  <2>4. [tree EXCEPT !.byTime = EmptyMap] \in Tree
    BY <2>1 DEF TreeState, Tree
  <2> QED BY <2>3, <2>4
<1> QED BY <1>1 DEF TypeAcc, AccTypes, TypeInv, TypeOKAcc, TreeOK, AddMapOK, SumsOK, AccState

(* The rows that join at a step are a list, empty when none were entered.  *)
LEMMA ListAtType ==
  ASSUME NEW b \in ByTimes, NEW t
  PROVE  ListAt(b, t) \in Seq(Row)
<1>1. PICK S \in SUBSET Nat : b \in [S -> Seq(Row)]
  BY DEF ByTimes
<1>2. << >> \in Seq(Row)
  OBVIOUS
<1> QED BY <1>1, <1>2 DEF ListAt

(* Rows are entered for a step.                                            *)
LEMMA InsertTime ==
  ASSUME NEW b \in ByTimes, NEW t \in Nat, NEW s \in Seq(Row)
  PROVE  Insert(b, t, s) \in ByTimes
<1>1. PICK S \in SUBSET Nat : b \in [S -> Seq(Row)]
  BY DEF ByTimes
<1>2. Insert(b, t, s) \in [S \cup {t} -> Seq(Row)]
  BY <1>1 DEF Insert
<1>3. S \cup {t} \in SUBSET Nat
  BY <1>1
<1> QED BY <1>2, <1>3 DEF ByTimes

(* std::list::remove leaves a list.                                        *)
LEMMA WithoutType ==
  ASSUME NEW list \in Seq(Row), NEW x
  PROVE  Without(list, x) \in Seq(Row)
<1>1. One \in Weights
  BY DEF One, Weights, Row
<1> QED BY <1>1, AmongTotal DEF Without

(* A merge leaves a list with the rows of both.                            *)
LEMMA MergeType ==
  ASSUME NEW list1 \in Seq(Row), NEW list2 \in Seq(Row)
  PROVE  /\ Merge(list1, list2) \in Seq(Row)
         /\ Len(Merge(list1, list2)) = Len(list1) + Len(list2)
<1>1. One \in Weights
  BY DEF One, Weights, Row
<1>2. /\ Merge(list1, list2) \in Seq(Row)
      /\ Total(One, Merge(list1, list2)) = Total(One, list1) + Total(One, list2)
  BY <1>1, MergeTotal
<1>3. /\ Total(One, Merge(list1, list2)) = Len(Merge(list1, list2))
      /\ Total(One, list1) = Len(list1) /\ Total(One, list2) = Len(list2)
  BY <1>2, TotalLength
<1> QED BY <1>2, <1>3

(* Alternate only changes the order.                                       *)
LEMMA AlternateType ==
  ASSUME NEW rows \in Seq(Row), NEW S, \A k \in 1..Len(rows) : rows[k] \in S
  PROVE  /\ Alternate(rows) \in Seq(Row)
         /\ Len(Alternate(rows)) = Len(rows)
         /\ \A k \in 1..Len(rows) : Alternate(rows)[k] \in S
<1> DEFINE a == Alternate(rows)
           out == [r \in Row |-> IF r \in S THEN 0 ELSE 1]
<1>1. One \in Weights /\ out \in Weights
  BY DEF One, Weights, Row
<1>2. a \in Seq(Row) /\ Total(One, a) = Total(One, rows) /\ Total(out, a) = Total(out, rows)
  BY <1>1, AlternateTotal
<1>3. Len(a) = Len(rows)
  BY <1>2, TotalLength
<1>4. \A k \in 1..Len(rows) : out[rows[k]] = 0
  OBVIOUS
<1> HIDE DEF out, a
<1>5. Total(out, rows) = 0
  BY <1>1, <1>4, TotalZero
<1>6. ASSUME NEW k \in 1..Len(a) PROVE a[k] \in S
  <2>1. out[a[k]] <= 0
    BY <1>1, <1>2, <1>5, TotalBounds
  <2>2. a[k] \in Row
    BY <1>2
  <2> QED BY <2>1, <2>2 DEF out
<1> QED BY <1>2, <1>3, <1>6 DEF a

(* The initial order is a list.                                            *)
LEMMA ReorganiseType ==
  ASSUME NEW list \in Seq(Row)
  PROVE  Reorganise(list) \in Seq(Row)
<1>1. One \in Weights
  BY DEF One, Weights, Row
<1> QED BY <1>1, ReorganiseTotal

(* An element of a list, or the size its end node keeps, is a row.         *)
LEMMA ElementType ==
  ASSUME NEW list \in Seq(Row), NEW n \in Nat
  PROVE  ElementAt(list, n) \in Row
<1> DEFINE k == n % (Len(list) + 1)
<1>1. k \in 0..Len(list)
  OBVIOUS
<1>2. k < Len(list) => k + 1 \in 1..Len(list)
  BY <1>1
<1> HIDE DEF k
<1>3. k < Len(list) => list[k + 1] \in Row
  BY <1>2
<1> QED BY <1>3, EndAssumption DEF ElementAt, k
-----------------------------------------------------------------------------
(* getSubset returns a list (AddressList.cpp:255-293).                     *)
LEMMA SubsetType ==
  ASSUME NEW list \in Seq(Row), NEW subsetNumber \in Nat, NEW nSubsetElements \in Nat,
         NEW skipElements \in Nat
  PROVE  getSubset(list, subsetNumber, nSubsetElements, skipElements) \in Seq(Row)
<1> DEFINE skipped == CASE subsetNumber = 0 -> 0
                        [] subsetNumber = 1 -> 1
                        [] OTHER -> skipElements
           rounds == IF subsetNumber = 0 THEN 0 ELSE nSubsetElements
           n == IF rounds < Len(list) THEN nSubsetElements ELSE 0
           subset == [k \in 1..n |-> ElementAt(list, skipped + k - 1)]
<1>1. skipped \in Nat /\ n \in Nat
  OBVIOUS
<1> HIDE DEF skipped, n
<1>2. ASSUME NEW k \in 1..n PROVE ElementAt(list, skipped + k - 1) \in Row
  <2>1. skipped + k - 1 \in Nat
    BY <1>1
  <2> QED BY <2>1, ElementType
<1>3. subset \in [1..n -> Row]
  BY <1>2
<1> HIDE DEF subset
<1>4. subset \in Seq(Row)
  BY <1>1, <1>3
<1>5. getSubset(list, subsetNumber, nSubsetElements, skipElements) = subset
  BY DEF getSubset, subset, n, skipped
<1> QED BY <1>4, <1>5

(* A list of a triangle has an element.                                    *)
LEMMA WidthType ==
  ASSUME acc.shape \in Shapes, NEW i \in Nat
  PROVE  Width(i) \in Nat \ {0}
<1> DEFINE c == acc.shape.cols
           a == i \div c + 1
           b == (i % c) + 1
<1>1. c \in Nat \ {0}
  BY ShapesAssumption
<1> HIDE DEF c
<1>2. i \div c \in Nat /\ i % c \in Nat
  BY <1>1
<1>3. a \in Nat \ {0} /\ b \in Nat \ {0}
  BY <1>2
<1> HIDE DEF a, b
<1>4. a * b \in Nat \ {0}
  BY <1>3
<1> QED BY <1>4 DEF Width, a, b, c

(* The second half of performAccBinding begins with a well formed tree.    *)
LEMMA AllocateType ==
  ASSUME NEW t \in TreeState, NEW byTime \in ByTimes
  PROVE  /\ Allocate(t, byTime) \in TreeState
         /\ Allocate(t, byTime).phase = "merge"
         /\ Allocate(t, byTime).list = t.list
         /\ Allocate(t, byTime).k = t.k
         /\ Allocate(t, byTime).p = t.p
<1> DEFINE b == IF Len(ListAt(byTime, 0)) = Len(t.list)
                THEN [byTime EXCEPT ![0] = Reorganise(@)] ELSE byTime
<1>1. b \in ByTimes
  <2>1. PICK S \in SUBSET Nat : byTime \in [S -> Seq(Row)]
    BY DEF ByTimes
  <2>2. ASSUME 0 \in S PROVE Reorganise(byTime[0]) \in Seq(Row)
    BY <2>1, <2>2, ReorganiseType
  <2>3. [byTime EXCEPT ![0] = Reorganise(@)] \in [S -> Seq(Row)]
    BY <2>1, <2>2
  <2>4. b \in [S -> Seq(Row)]
    BY <2>1, <2>3
  <2> QED BY <2>4 DEF ByTimes
<1> HIDE DEF b
<1>2. Allocate(t, byTime) = [t EXCEPT !.phase = "merge", !.byTime = b]
  BY DEF Allocate, b
<1> QED BY <1>1, <1>2 DEF TreeState

(* performAccBinding begins with a well formed tree.                       *)
LEMMA NewTreeType ==
  ASSUME NEW list \in Seq(Row), Len(list) # 0
  PROVE  /\ NewTree(list) \in TreeState
         /\ NewTree(list).phase # "bind"
         /\ NewTree(list).list = list
         /\ NewTree(list).k # 0 /\ NewTree(list).p # 0
<1> DEFINE t == [phase |-> "reuse", list |-> list, steps |-> Steps(Len(list)),
            currList |-> list, nextList |-> << >>, remainList |-> << >>,
            k |-> 1, isReduceable |-> FALSE, time |-> 0, byTime |-> EmptyMap,
            step |-> 0, currTimeAccList |-> << >>, p |-> 1, pairs |-> 0]
<1>1. Steps(Len(list)) \in Nat
  BY StepsHalve
<1>2. EmptyMap \in ByTimes
  <2>1. EmptyMap \in [{} -> Seq(Row)]
    BY DEF EmptyMap
  <2>2. {} \in SUBSET Nat
    OBVIOUS
  <2> QED BY <2>1, <2>2, Zenon DEF ByTimes
<1>3. [time \in {0} |-> list] \in ByTimes
  <2>1. [time \in {0} |-> list] \in [{0} -> Seq(Row)]
    OBVIOUS
  <2>2. {0} \in SUBSET Nat
    OBVIOUS
  <2> QED BY <2>1, <2>2, Zenon DEF ByTimes
<1>4. t \in TreeState
  BY <1>1, <1>2 DEF TreeState
<1>5. t.phase = "reuse" /\ t.list = list /\ t.k = 1 /\ t.p = 1
  OBVIOUS
<1>6. NewTree(list) = IF optimise /\ t.steps > 0 THEN t
                      ELSE Allocate(t, [time \in {0} |-> list])
  BY DEF NewTree
<1> HIDE DEF t
<1> QED BY <1>3, <1>4, <1>5, <1>6, AllocateType

(* The accumulation is fetched (LiMBinder.cpp:163-230).                    *)
LEMMA FetchAccumulationType ==
  ASSUME TypeAcc, NEW op \in AccOps, NEW reg \in Temps, NEW reg1 \in Named,
         NEW a \in AccAccesses, NEW shape \in Shapes,
         FetchAccumulation(op, reg, reg1, a, shape)
  PROVE  TypeAcc'
<1>1. TypeInv'
  <2>1. UNCHANGED vars
    BY DEF FetchAccumulation
  <2> QED BY <2>1, TypeInvStutter DEF TypeAcc
<1>2. RowsOf(reg1, a) \in Seq(Row)
  <2>1. a \in Seq(Nat \ {0})
    BY AccAccessAssumption
  <2>2. arrayNamesMap[reg1] \in Seq(Row)
    BY DEF TypeAcc, TypeInv, TypeOK
  <2>3. DOMAIN a = 1..Len(a) /\ Len(a) \in Nat
    BY <2>1
  <2>4. ASSUME NEW k \in 1..Len(a) PROVE arrayNamesMap[reg1][a[k]] \in Row
    <3>1. a[k] \in Nat \ {0} /\ a[k] <= Len(arrayNamesMap[reg1])
      BY <2>1, <2>3 DEF FetchAccumulation, Readable
    <3> QED BY <2>2, <3>1
  <2>5. RowsOf(reg1, a) \in [1..Len(a) -> Row]
    BY <2>3, <2>4 DEF RowsOf
  <2> QED BY <2>3, <2>5
<1>3. acc' \in AccState
  BY <1>2 DEF FetchAccumulation, AccState
<1>4. ins' = Idle /\ UNCHANGED <<addMap, tree, sums, limArray>>
  BY DEF FetchAccumulation, vars, tables, Busy
<1>5. ~Summing
  BY DEF FetchAccumulation, TypeAcc, AccTypes, TreeOK
<1> QED BY <1>1, <1>3, <1>4, <1>5 DEF TypeAcc, AccTypes, AddMapOK, SumsOK, Summing

(* A list is cut and its tree begun (LiMBinder.cpp:230-268).               *)
LEMMA TakeListType ==
  ASSUME TypeAcc, TakeList
  PROVE  TypeAcc'
<1> DEFINE subset == IF acc.shape.triangle
                     THEN getSubset(acc.set, acc.i, Width(acc.i), acc.skipElements)
                     ELSE acc.tmpAccList
           list == Append(subset, ElementAt(acc.set, acc.i))
<1>1. TypeInv' /\ ins' = ins
  <2>1. UNCHANGED vars
    BY DEF TakeList
  <2> QED BY <2>1, TypeInvStutter DEF TypeAcc, vars
<1>2. acc \in AccState /\ ins = Idle
  BY DEF TakeList, TypeAcc, AccTypes
<1>3. Width(acc.i) \in Nat
  BY <1>2, WidthType DEF AccState
<1>4. subset \in Seq(Row)
  BY <1>2, <1>3, SubsetType DEF AccState
<1>5. ElementAt(acc.set, acc.i) \in Row
  BY <1>2, ElementType DEF AccState
<1> HIDE DEF subset
<1>6. list \in Seq(Row) /\ Len(list) # 0
  BY <1>4, <1>5, AppendProperties
<1>7. /\ acc' = [acc EXCEPT !.i = @ + 1, !.tmpAccList = list,
                            !.skipElements = @ + Width(acc.i)]
      /\ tree' = NewTree(list)
  BY DEF TakeList, list, subset
<1> HIDE DEF list
<1>8. acc' \in AccState
  <2>1. acc.i + 1 \in Nat /\ acc.skipElements + Width(acc.i) \in Nat
    BY <1>2, <1>3 DEF AccState
  <2> DEFINE skip == acc.skipElements + Width(acc.i)
  <2>2. acc' = [acc EXCEPT !.i = acc.i + 1, !.tmpAccList = list, !.skipElements = skip]
    BY <1>2, <1>7 DEF AccState
  <2> HIDE DEF skip
  <2>3. skip \in Nat
    BY <2>1 DEF skip
  <2> QED BY <1>2, <1>6, <2>1, <2>2, <2>3 DEF AccState
<1>9. TreeOK'
  <2>1. /\ tree' \in TreeState /\ tree'.phase # "bind" /\ tree'.list = list
        /\ tree'.k # 0 /\ tree'.p # 0
    BY <1>6, <1>7, NewTreeType
  <2>2. Accumulating'
    BY <1>8 DEF Accumulating, Idle, AccState
  <2> QED BY <1>6, <2>1, <2>2 DEF TreeOK, PairsLeft
<1>10. UNCHANGED <<addMap, sums>>
  BY DEF TakeList
<1> QED BY <1>1, <1>2, <1>8, <1>9, <1>10 DEF TypeAcc, AccTypes, AddMapOK, SumsOK
-----------------------------------------------------------------------------
(* The lowest result the two rows share.                                   *)
LEMMA SearchFacts ==
  ASSUME AddMapOK, NEW a, NEW b, Available(a, b) # {}
  PROVE  /\ searchForResult(a, b) \in Available(a, b)
         /\ searchForResult(a, b) \in Row
<1>1. Available(a, b) \subseteq Nat
  BY DEF Available, AddMapOK, Row
<1>2. \E m \in Available(a, b) : \A other \in Available(a, b) : m <= other
  BY <1>1, LeastNumber
<1>3. searchForResult(a, b) \in Available(a, b)
  BY <1>2 DEF searchForResult
<1> QED BY <1>1, <1>3 DEF Row

(* The row that is found first for row k.                                  *)
FirstPartner(k) == CHOOSE l \in Partners(k) : \A m \in Partners(k) : l <= m

(* The first row behind row k that addMap has a result for.                *)
LEMMA PartnerFacts ==
  ASSUME tree.currList \in Seq(Row), NEW k \in Nat \ {0}, Partners(k) # {}
  PROVE  /\ FirstPartner(k) \in Partners(k)
         /\ FirstPartner(k) \in (k + 1)..Len(tree.currList)
<1>1. Partners(k) \subseteq (k + 1)..Len(tree.currList)
  BY DEF Partners
<1>2. Partners(k) \subseteq Nat
  BY <1>1
<1>3. \E l \in Partners(k) : \A m \in Partners(k) : l <= m
  BY <1>2, LeastNumber
<1>4. FirstPartner(k) \in Partners(k)
  BY <1>3 DEF FirstPartner
<1> QED BY <1>1, <1>4

(* A step that only moves rows about in the tree.                          *)
LEMMA TreeStep ==
  ASSUME TypeAcc, Summing, UNCHANGED <<vars, optimise, addMap, acc, summands, sums>>,
         tree' \in TreeState, tree'.k # 0, tree'.p # 0, Len(tree'.list) # 0, PairsLeft'
  PROVE  TypeAcc'
<1>1. TypeInv'
  BY TypeInvStutter DEF TypeAcc
<1>2. ins' = ins
  BY DEF vars
<1>3. TreeOK'
  BY DEF TypeAcc, AccTypes, TreeOK, Accumulating
<1> QED BY <1>1, <1>2, <1>3 DEF TypeAcc, AccTypes, AddMapOK, SumsOK, Accumulating

(* A pair is replaced by its result.                                       *)
LEMMA ReplacePairType ==
  ASSUME TypeAcc, ReplacePair
  PROVE  TypeAcc'
<1> DEFINE a == tree.currList[tree.k]
           b == tree.currList[FirstPartner(tree.k)]
           m == searchForResult(a, b)
           next == Append(tree.nextList, m)
           curr == Without(tree.currList, b)
<1>1. Summing /\ tree \in TreeState /\ tree.k # 0 /\ tree.p # 0 /\ Len(tree.list) # 0
  BY DEF ReplacePair, Reducing, TypeAcc, AccTypes, TreeOK
<1>2. tree.phase = "reuse" /\ Partners(tree.k) # {}
  BY DEF ReplacePair, Reducing
<1>3. FirstPartner(tree.k) \in Partners(tree.k)
  BY <1>1, <1>2, PartnerFacts DEF TreeState
<1>4. m \in Row
  BY <1>3, SearchFacts DEF Partners, TypeAcc, AccTypes
<1>5. curr \in Seq(Row)
  BY <1>1, WithoutType DEF TreeState
<1>6. tree' = [tree EXCEPT !.nextList = Append(@, m), !.currList = Without(@, b),
                           !.k = @ + 1, !.isReduceable = TRUE]
  BY DEF ReplacePair, FirstPartner
<1> HIDE DEF m, b
<1>7. next \in Seq(Row)
  BY <1>1, <1>4, AppendProperties DEF TreeState
<1> DEFINE later == tree.k + 1
<1>8. /\ tree' = [tree EXCEPT !.nextList = next, !.currList = curr,
                              !.k = later, !.isReduceable = TRUE]
      /\ later \in Nat \ {0}
  BY <1>1, <1>6 DEF TreeState
<1> HIDE DEF next, curr, later
<1>9. /\ tree' \in TreeState /\ tree'.k # 0 /\ tree'.p = tree.p
      /\ tree'.list = tree.list /\ tree'.phase = tree.phase
  BY <1>1, <1>5, <1>7, <1>8 DEF TreeState
<1>10. UNCHANGED <<vars, optimise, addMap, acc, summands, sums>>
  BY DEF ReplacePair
<1> QED BY <1>1, <1>2, <1>9, <1>10, TreeStep DEF PairsLeft

(* A row without a partner is kept.                                        *)
LEMMA KeepRowType ==
  ASSUME TypeAcc, KeepRow
  PROVE  TypeAcc'
<1> DEFINE remain == Append(tree.remainList, tree.currList[tree.k])
<1>1. Summing /\ tree \in TreeState /\ tree.k # 0 /\ tree.p # 0 /\ Len(tree.list) # 0
  BY DEF KeepRow, Reducing, TypeAcc, AccTypes, TreeOK
<1>2. tree.phase = "reuse" /\ tree.k <= Len(tree.currList)
  BY DEF KeepRow, Reducing
<1>3. tree.currList[tree.k] \in Row
  BY <1>1, <1>2 DEF TreeState
<1>4. remain \in Seq(Row)
  BY <1>1, <1>3, AppendProperties DEF TreeState
<1> DEFINE later == tree.k + 1
<1>5. tree' = [tree EXCEPT !.remainList = remain, !.k = later] /\ later \in Nat \ {0}
  BY <1>1 DEF KeepRow, TreeState
<1> HIDE DEF remain, later
<1>6. /\ tree' \in TreeState /\ tree'.k # 0 /\ tree'.p = tree.p
      /\ tree'.list = tree.list /\ tree'.phase = tree.phase
  BY <1>1, <1>4, <1>5 DEF TreeState
<1>7. UNCHANGED <<vars, optimise, addMap, acc, summands, sums>>
  BY DEF KeepRow
<1> QED BY <1>1, <1>2, <1>6, <1>7, TreeStep DEF PairsLeft

(* A pass over the list ends.                                              *)
LEMMA EndPassType ==
  ASSUME TypeAcc, EndPass
  PROVE  TypeAcc'
<1> DEFINE byTime == Insert(tree.byTime, tree.time, tree.remainList)
           time == tree.time + 1
<1>1. Summing /\ tree \in TreeState /\ tree.k # 0 /\ tree.p # 0 /\ Len(tree.list) # 0
  BY DEF EndPass, Reducing, TypeAcc, AccTypes, TreeOK
<1>2. tree.phase = "reuse"
  BY DEF EndPass, Reducing
<1>3. byTime \in ByTimes /\ time \in Nat
  <2>1. tree.byTime \in ByTimes /\ tree.time \in Nat /\ tree.remainList \in Seq(Row)
    BY <1>1 DEF TreeState
  <2> QED BY <2>1, InsertTime
<1>4. Insert(byTime, time, tree.nextList) \in ByTimes
  <2>1. tree.nextList \in Seq(Row)
    BY <1>1 DEF TreeState
  <2> HIDE DEF byTime, time
  <2> QED BY <1>3, <2>1, InsertTime
<1>5. tree' = IF tree.isReduceable /\ time < tree.steps
              THEN [tree EXCEPT !.byTime = byTime, !.time = time, !.k = 1,
                        !.currList = tree.nextList, !.nextList = << >>,
                        !.remainList = << >>, !.isReduceable = FALSE]
              ELSE Allocate(tree, IF tree.isReduceable
                                  THEN Insert(byTime, time, tree.nextList)
                                  ELSE byTime)
  BY DEF EndPass
<1>6. UNCHANGED <<vars, optimise, addMap, acc, summands, sums>>
  BY DEF EndPass
<1> HIDE DEF byTime, time
<1>7. /\ tree' \in TreeState /\ tree'.k # 0 /\ tree'.p # 0
      /\ tree'.list = tree.list /\ tree'.phase # "bind"
  <2>1. CASE tree.isReduceable /\ time < tree.steps
    <3>1. tree' = [tree EXCEPT !.byTime = byTime, !.time = time, !.k = 1,
                        !.currList = tree.nextList, !.nextList = << >>,
                        !.remainList = << >>, !.isReduceable = FALSE]
      BY <1>5, <2>1
    <3>2. tree'.phase = "reuse" /\ tree'.list = tree.list /\ tree'.k = 1 /\ tree'.p = tree.p
      BY <1>1, <1>2, <3>1 DEF TreeState
    <3> DEFINE empty == << >>
    <3>3. empty \in Seq(Row)
      OBVIOUS
    <3>4. tree' = [tree EXCEPT !.byTime = byTime, !.time = time, !.k = 1,
                        !.currList = tree.nextList, !.nextList = empty,
                        !.remainList = empty, !.isReduceable = FALSE]
      BY <3>1
    <3> HIDE DEF empty
    <3>5. tree' \in TreeState
      BY <1>1, <1>3, <3>3, <3>4 DEF TreeState
    <3> QED BY <1>1, <3>2, <3>5
  <2>2. CASE ~(tree.isReduceable /\ time < tree.steps)
    <3> DEFINE b == IF tree.isReduceable THEN Insert(byTime, time, tree.nextList)
                    ELSE byTime
    <3>1. tree' = Allocate(tree, b)
      BY <1>5, <2>2
    <3>2. b \in ByTimes
      BY <1>3, <1>4
    <3> HIDE DEF b
    <3> QED BY <1>1, <3>1, <3>2, AllocateType
  <2> QED BY <2>1, <2>2
<1> QED BY <1>1, <1>6, <1>7, TreeStep DEF PairsLeft

(* The rows of a step are sorted: as many pairs as there are rows for      *)
(* them.                                                                   *)
LEMMA BeginStepType ==
  ASSUME TypeAcc, BeginStep
  PROVE  TypeAcc'
<1> DEFINE joining == JoiningRows
           rows == Alternate(joining)
           half == Len(joining) \div 2
<1>1. Summing /\ tree \in TreeState /\ tree.k # 0 /\ tree.p # 0 /\ Len(tree.list) # 0
  BY DEF BeginStep, Merging, TypeAcc, AccTypes, TreeOK
<1>2. joining \in Seq(Row)
  <2>1. ListAt(tree.byTime, tree.step) \in Seq(Row)
    BY <1>1, ListAtType DEF TreeState
  <2>2. tree.currTimeAccList \in Seq(Row)
    BY <1>1 DEF TreeState
  <2> QED BY <2>1, <2>2, MergeType DEF JoiningRows
<1>3. /\ tree' = [tree EXCEPT !.phase = "bind", !.p = 1, !.pairs = half,
                              !.currTimeAccList = rows]
      /\ \A k \in DOMAIN joining : joining[k] \in Rows
      /\ UNCHANGED <<vars, optimise, addMap, acc, summands, sums>>
  BY DEF BeginStep, Rows
<1> HIDE DEF joining
<1>4. /\ rows \in Seq(Row) /\ Len(rows) = Len(joining)
      /\ \A k \in 1..Len(joining) : rows[k] \in Rows
  BY <1>2, <1>3, AlternateType
<1>5. half \in Nat /\ 2 * half <= Len(joining)
  BY <1>2
<1> HIDE DEF rows, half
<1>6. /\ tree' \in TreeState /\ tree'.k # 0 /\ tree'.p = 1 /\ tree'.list = tree.list
      /\ tree'.currTimeAccList = rows /\ tree'.pairs = half
  BY <1>1, <1>3, <1>4, <1>5 DEF TreeState
<1>7. limArray' = limArray
  BY <1>3 DEF vars
<1>8. PairsLeft'
  <2>1. Rows' = Rows
    BY <1>7 DEF Rows
  <2>2. \A k \in 1..Len(rows) : rows[k] \in Rows
    BY <1>4
  <2>3. Len(rows) + 1 >= 2 * half + 1
    BY <1>4, <1>5
  <2> QED BY <1>6, <2>1, <2>2, <2>3 DEF PairsLeft
<1> QED BY <1>1, <1>3, <1>6, <1>8, TreeStep

(* A step of the tree ends.                                                *)
LEMMA EndStepType ==
  ASSUME TypeAcc, EndStep
  PROVE  TypeAcc'
<1>1. Summing /\ tree \in TreeState /\ tree.k # 0 /\ tree.p # 0 /\ Len(tree.list) # 0
  BY DEF EndStep, TypeAcc, AccTypes, TreeOK
<1> DEFINE later == tree.step + 1
<1>2. tree' = [tree EXCEPT !.phase = "merge", !.step = later] /\ later \in Nat
  BY <1>1 DEF EndStep, TreeState
<1> HIDE DEF later
<1>3. /\ tree' \in TreeState /\ tree'.k # 0 /\ tree'.p # 0 /\ tree'.list = tree.list
      /\ tree'.phase = "merge"
  BY <1>1, <1>2 DEF TreeState
<1>4. UNCHANGED <<vars, optimise, addMap, acc, summands, sums>>
  BY DEF EndStep
<1> QED BY <1>1, <1>3, <1>4, TreeStep DEF PairsLeft
-----------------------------------------------------------------------------
(* No operation is being bound while an accumulation is.                   *)
LEMMA NoBinding ==
  ASSUME ins' = Idle
  PROVE  InsOK' /\ InsTypeOK' /\ ~IsBinding'
BY DEF InsOK, IsBinding, Busy, InsTypeOK

(* The two rows under the iterators exist and have a state.                *)
LEMMA CanPairFacts ==
  ASSUME TypeAcc, CanPair
  PROVE  /\ status = "running" /\ ins = Idle /\ acc \in AccState /\ acc.operation \in Ops
         /\ Summing /\ Accumulating /\ tree \in TreeState /\ tree.phase = "bind"
         /\ tree.k # 0 /\ Len(tree.list) # 0
         /\ tree.p \in 1..tree.pairs /\ tree.p + 1 <= Len(tree.currTimeAccList)
         /\ row1 \in Rows /\ row2 \in Rows /\ row1 \in DOMAIN FSM2 /\ row2 \in DOMAIN FSM2
         /\ row1 \in Row /\ row2 \in Row /\ pairTime \in Nat /\ zeroAddr \in Nat
<1>1. /\ status = "running" /\ ins = Idle /\ acc \in AccState
      /\ Summing /\ Accumulating /\ tree \in TreeState /\ tree.phase = "bind"
      /\ tree.k # 0 /\ tree.p # 0 /\ Len(tree.list) # 0 /\ PairsLeft
      /\ tree.p <= tree.pairs /\ row1 \in DOMAIN FSM2 /\ row2 \in DOMAIN FSM2
  BY DEF CanPair, Pairing, TypeAcc, AccTypes, TreeOK
<1>2. tree.p \in Nat /\ tree.pairs \in Nat /\ tree.currTimeAccList \in Seq(Row)
  BY <1>1 DEF TreeState
<1>3. tree.p \in 1..tree.pairs /\ tree.p + 1 <= Len(tree.currTimeAccList)
  BY <1>1, <1>2 DEF PairsLeft
<1>4. tree.p \in 1..Len(tree.currTimeAccList) /\ tree.p + 1 \in 1..Len(tree.currTimeAccList)
  BY <1>2, <1>3
<1>5. row1 \in Rows /\ row2 \in Rows
  BY <1>1, <1>4 DEF PairsLeft, row1, row2
<1>6. row1 \in Row /\ row2 \in Row
  BY <1>2, <1>4 DEF row1, row2
<1>7. acc.operation \in Ops
  BY <1>1, AccOpsAssumption DEF AccState
<1>8. zeroAddr \in Nat /\ getTime(FSM2, row1) \in Nat /\ getTime(FSM2, row2) \in Nat
  BY <1>1 DEF TypeAcc, TypeInv, TypeOK, getTime
<1>9. pairTime \in Nat
  <2> DEFINE t1 == getTime(FSM2, row1)
             t2 == getTime(FSM2, row2)
  <2>1. pairTime = Maximum(t1, t2) + 1
    BY DEF pairTime
  <2>2. t1 \in Nat /\ t2 \in Nat
    BY <1>8
  <2> HIDE DEF t1, t2
  <2> QED BY <2>1, <2>2, MaximumBounds
<1> QED BY <1>1, <1>3, <1>5, <1>6, <1>7, <1>8, <1>9

(* The list after a pair is replaced by its result.                        *)
Replaced(s, p, name, t) ==
  /\ t \in Seq(Row)
  /\ Len(t) = Len(s) - 1
  /\ \A k \in 1..Len(t) :
       t[k] = IF k < p THEN s[k] ELSE IF k = p THEN name ELSE s[k + 1]

(* The list after the result has taken the place of its operands.          *)
LEMMA PairReplaced ==
  ASSUME NEW s \in Seq(Row), NEW p \in Nat \ {0}, p + 1 <= Len(s), NEW name \in Row,
         NEW t, t = SubSeq(s, 1, p - 1) \o <<name>> \o SubSeq(s, p + 2, Len(s))
  PROVE  Replaced(s, p, name, t)
<1> DEFINE a == SubSeq(s, 1, p - 1)
           b == <<name>>
           c == SubSeq(s, p + 2, Len(s))
           ab == a \o b
<1>1. a \in Seq(Row) /\ Len(a) = p - 1 /\ \A i \in 1..(p - 1) : a[i] = s[i]
  BY PieceType
<1>2. /\ c \in Seq(Row) /\ Len(c) = Len(s) - p - 1
      /\ \A i \in 1..(Len(s) - p - 1) : c[i] = s[p + 1 + i]
  <2>1. /\ c \in Seq(Row)
        /\ Len(c) = IF p + 2 <= Len(s) THEN Len(s) - (p + 2) + 1 ELSE 0
        /\ \A i \in 1..(Len(s) - (p + 2) + 1) : c[i] = s[p + 2 + i - 1]
    BY PieceType
  <2> QED BY <2>1
<1>3. b \in Seq(Row) /\ Len(b) = 1 /\ b[1] = name
  OBVIOUS
<1> HIDE DEF a, b, c
<1>4. /\ ab \in Seq(Row) /\ Len(ab) = Len(a) + Len(b)
      /\ \A i \in 1..(Len(a) + Len(b)) :
           ab[i] = IF i <= Len(a) THEN a[i] ELSE b[i - Len(a)]
  BY <1>1, <1>3, ConcatProperties, Zenon
<1>5. Len(ab) = p /\ \A i \in 1..p : ab[i] = IF i < p THEN s[i] ELSE name
  BY <1>1, <1>3, <1>4
<1> DEFINE abc == ab \o c
<1> HIDE DEF ab
<1>8. ab \in Seq(Row) /\ c \in Seq(Row)
  BY <1>2, <1>4
<1>6. /\ abc \in Seq(Row) /\ Len(abc) = Len(ab) + Len(c)
      /\ \A i \in 1..(Len(ab) + Len(c)) :
           abc[i] = IF i <= Len(ab) THEN ab[i] ELSE c[i - Len(ab)]
  BY <1>8, ConcatProperties, Zenon
<1> HIDE DEF abc
<1>7. /\ Len(abc) = Len(s) - 1
      /\ \A i \in 1..(Len(s) - 1) :
           abc[i] = IF i < p THEN s[i] ELSE IF i = p THEN name ELSE s[i + 1]
  <2>1. Len(abc) = Len(s) - 1 /\ Len(ab) = p /\ Len(c) = Len(s) - p - 1
    BY <1>2, <1>5, <1>6
  <2>2. ASSUME NEW i \in 1..(Len(s) - 1), i <= p
        PROVE  abc[i] = IF i < p THEN s[i] ELSE IF i = p THEN name ELSE s[i + 1]
    <3>1. i \in 1..(Len(ab) + Len(c)) /\ i <= Len(ab) /\ i \in 1..p
      BY <2>1, <2>2
    <3>2. abc[i] = ab[i]
      BY <3>1, <1>6
    <3> QED BY <3>1, <3>2, <1>5
  <2>3. ASSUME NEW i \in 1..(Len(s) - 1), ~(i <= p)
        PROVE  abc[i] = IF i < p THEN s[i] ELSE IF i = p THEN name ELSE s[i + 1]
    <3>1. i \in 1..(Len(ab) + Len(c)) /\ ~(i <= Len(ab))
      BY <2>1, <2>3
    <3>2. abc[i] = c[i - p]
      BY <3>1, <2>1, <1>6
    <3>3. i - p \in 1..(Len(s) - p - 1)
      BY <2>3
    <3>4. c[i - p] = s[p + 1 + (i - p)]
      BY <3>3, <1>2
    <3> QED BY <3>2, <3>4, <2>3
  <2> QED BY <2>1, <2>2, <2>3
<1> QED BY <1>6, <1>7 DEF abc, ab, a, b, c, Replaced

(* A partial result is entered in the tables.                              *)
LEMMA AddPartialType ==
  ASSUME TypeAcc, CanPair, NEW arr, ArrayOK(arr), Rows \subseteq DOMAIN arr,
         NEW fsm2, TimesOK(fsm2), NEW row \in Row, NEW name \in Nat, NEW time \in Nat,
         AddPartial(arr, fsm2, row, name, time), AddMapOK'
  PROVE  TypeAcc'
<1> DEFINE list == SubSeq(tree.currTimeAccList, 1, tree.p - 1) \o <<name>>
                      \o SubSeq(tree.currTimeAccList, tree.p + 2, Len(tree.currTimeAccList))
           later == tree.p + 1
           q == [operation |-> acc.operation, row |-> name, src1 |-> row1, src2 |-> row2]
<1>1. /\ ins = Idle /\ acc \in AccState /\ acc.operation \in Ops
      /\ Summing /\ Accumulating /\ tree \in TreeState /\ tree.phase = "bind"
      /\ tree.k # 0 /\ Len(tree.list) # 0
      /\ tree.p \in 1..tree.pairs /\ tree.p + 1 <= Len(tree.currTimeAccList)
      /\ row1 \in Row /\ row2 \in Row
  BY CanPairFacts
<1>2. /\ limArray' = addNewResultRow(arr, name, row)
      /\ FSM2' = addNewInstruction(fsm2, time, name)
      /\ zeroAddr' = name + 1
      /\ computes' = Insert(computes, name, q)
      /\ UNCHANGED <<FSM, selectionSignalsList, lastDestMap, arrayNamesMap,
                     shiftAmount, ins, status, answers, acc, sums>>
      /\ tree' = [tree EXCEPT !.p = later, !.currTimeAccList = list]
  BY <1>1 DEF AddPartial, TreeState
<1>3. ArrayOK(limArray') /\ DOMAIN limArray' = DOMAIN arr \cup {name}
  <2>1. row \in InputLine /\ name \in Row /\ "load" \in RowType
    BY DEF InputLine, RowType, Row
  <2>2. limArray' = Insert(arr, name, [rowType |-> "load", inputConnections |-> <<row>>])
    BY <1>2 DEF addNewResultRow
  <2> QED BY <2>1, <2>2, InsertRow
<1>4. TimesOK(FSM2')
  BY <1>2, InsertFacts DEF TimesOK, addNewInstruction, Insert, Row
<1>5. TypeOK /\ ArrayOK(limArray) /\ SignalsOK /\ NamesOK /\ LastDestOK /\ ComputesOK /\ RestOK
  BY TypeParts DEF TypeAcc, TypeInv
<1>6. ComputesOK'
  <2>1. q \in Question
    BY <1>1 DEF Question, Row
  <2> HIDE DEF q
  <2> QED BY <1>2, <1>5, <2>1, InsertFacts DEF ComputesOK, Insert, Row
<1>7. SignalsOK' /\ NamesOK' /\ LastDestOK' /\ RestOK'
  <2>1. zeroAddr' \in Nat
    BY <1>2
  <2> QED BY <1>2, <1>5, <2>1 DEF SignalsOK, NamesOK, LastDestOK, RestOK, Named
<1>8. TypeInv'
  <2>1. ins' = Idle
    BY <1>1, <1>2
  <2> QED BY <1>3, <1>4, <1>6, <1>7, <2>1, NoBinding, TypePartsPrime DEF TypeInv
<1>9. /\ list \in Seq(Row) /\ Len(list) = Len(tree.currTimeAccList) - 1
      /\ \A k \in 1..Len(list) : list[k] \in Rows'
  <2> DEFINE s == tree.currTimeAccList
             p == tree.p
  <2>1. s \in Seq(Row) /\ p \in Nat \ {0} /\ p + 1 <= Len(s)
    BY <1>1 DEF TreeState
  <2>2. \A k \in 1..Len(s) : s[k] \in Rows
    BY <1>1 DEF TypeAcc, AccTypes, TreeOK, PairsLeft
  <2>3. Rows \subseteq Rows' /\ name \in Rows'
    BY <1>3 DEF Rows
  <2>4. name \in Row
    BY DEF Row
  <2>5. list = SubSeq(s, 1, p - 1) \o <<name>> \o SubSeq(s, p + 2, Len(s))
    OBVIOUS
  <2> HIDE DEF s, p, list
  <2>6. /\ list \in Seq(Row) /\ Len(list) = Len(s) - 1
        /\ \A k \in 1..Len(list) :
             list[k] = IF k < p THEN s[k] ELSE IF k = p THEN name ELSE s[k + 1]
    <3>1. Replaced(s, p, name, list)
      BY <2>1, <2>4, <2>5, PairReplaced
    <3> QED BY <3>1 DEF Replaced
  <2>7. ASSUME NEW k \in 1..Len(list) PROVE list[k] \in Rows'
    <3>1. k \in 1..Len(s) /\ k + 1 \in 1..Len(s)
      BY <2>1, <2>6
    <3> QED BY <2>2, <2>3, <2>6, <3>1
  <2> QED BY <2>6, <2>7 DEF s
<1>10. TreeOK'
  <2>1. later \in Nat \ {0} /\ tree.currTimeAccList \in Seq(Row) /\ later = tree.p + 1
    BY <1>1 DEF TreeState
  <2>2. tree.p \in Nat /\ tree.pairs \in Nat /\ Len(tree.currTimeAccList) \in Nat
    BY <1>1, <2>1 DEF TreeState
  <2> HIDE DEF list, later
  <2>3. tree' \in TreeState
    BY <1>1, <1>2, <1>9, <2>1 DEF TreeState
  <2>4. /\ tree'.k = tree.k /\ tree'.p = later /\ tree'.list = tree.list
        /\ tree'.pairs = tree.pairs /\ tree'.currTimeAccList = list
    BY <1>1, <1>2 DEF TreeState
  <2>5. Len(tree.currTimeAccList) + tree.p >= 2 * tree.pairs + 1
    BY <1>1 DEF TypeAcc, AccTypes, TreeOK, PairsLeft
  <2>6. Len(list) + later >= 2 * tree.pairs + 1
    <3>1. Len(list) = Len(tree.currTimeAccList) - 1
      BY <1>9, Zenon
    <3>2. later = tree.p + 1
      BY <2>1, Zenon
    <3> DEFINE a == Len(tree.currTimeAccList)
               b == tree.p
               c == tree.pairs
    <3>3. a \in Nat /\ b \in Nat /\ c \in Nat /\ a + b >= 2 * c + 1
      BY <2>2, <2>5, Zenon
    <3>4. Len(list) = a - 1 /\ later = b + 1
      BY <3>1, <3>2, Zenon
    <3> HIDE DEF a, b, c
    <3>5. (a - 1) + (b + 1) >= 2 * c + 1
      BY <3>3
    <3> QED BY <3>4, <3>5, Zenon DEF c
  <2>7. PairsLeft'
    BY <1>9, <2>4, <2>6 DEF PairsLeft
  <2>8. Accumulating'
    BY <1>1, <1>2 DEF Accumulating
  <2> QED BY <1>1, <2>1, <2>3, <2>4, <2>7, <2>8 DEF TreeOK
<1>11. SumsOK'
  BY <1>2 DEF SumsOK, TypeAcc, AccTypes
<1> QED BY <1>1, <1>2, <1>8, <1>10, <1>11 DEF TypeAcc, AccTypes
-----------------------------------------------------------------------------
(* addMap learns a result.                                                 *)
LEMMA AddMapInsert ==
  ASSUME AddMapOK, NEW name \in Nat, row1 \in Row, row2 \in Row,
         addMap' = Insert(addMap, name, <<row1, row2>>)
  PROVE  AddMapOK'
<1> DEFINE pair == <<row1, row2>>
<1>1. pair \in Row \X Row
  OBVIOUS
<1> HIDE DEF pair
<1>2. addMap' = Insert(addMap, name, pair)
  BY DEF pair
<1>3. /\ DOMAIN addMap' = DOMAIN addMap \cup {name}
      /\ \A m \in DOMAIN addMap' : addMap'[m] = pair \/ (m \in DOMAIN addMap /\ addMap'[m] = addMap[m])
  BY <1>2 DEF Insert
<1> QED BY <1>1, <1>3 DEF AddMapOK, Row

(* A plain word becomes an adder.                                          *)
LEMMA ConvertInTreeType ==
  ASSUME TypeAcc, CanPair, NEW row \in Rows, NEW other \in Row,
         ~checkIfRowIsLiM(limArray, row), ConvertInTree(row, other)
  PROVE  TypeAcc'
<1> DEFINE arr == addNewInputConnection(
                    changeLiMRowType(limArray, row, acc.operation), row, other)
<1>1. /\ acc.operation \in Ops /\ row1 \in Row /\ row2 \in Row /\ pairTime \in Nat
      /\ zeroAddr \in Nat
  BY CanPairFacts
<1>2. TypeOK /\ AddMapOK
  BY DEF TypeAcc, TypeInv, AccTypes
<1>3. ArrayOK(arr) /\ DOMAIN arr = Rows
  BY <1>1, <1>2, ConvertArray
<1>4. AddPartial(arr, FSM2, row, zeroAddr, pairTime)
  BY DEF ConvertInTree
<1>5. AddMapOK'
  BY <1>1, <1>2, AddMapInsert DEF ConvertInTree
<1>6. TimesOK(FSM2) /\ row \in Row
  BY <1>2, TypeParts DEF ArrayOK, Rows
<1> HIDE DEF arr
<1> QED BY <1>1, <1>3, <1>4, <1>5, <1>6, AddPartialType

(* An adder is added for two rows that are LiM already.                    *)
LEMMA CopyInTreeType ==
  ASSUME TypeAcc, CopyInTree
  PROVE  TypeAcc'
<1> DEFINE arr == addNewInputConnection(
                    addNewLiMRow(limArray, zeroAddr, acc.operation, row1), zeroAddr, row2)
           f == addNewInstruction(FSM2, pairTime, zeroAddr)
           later == zeroAddr + 1
           time == pairTime + 1
<1>1. CanPair
  BY DEF CopyInTree
<1>2. /\ acc.operation \in Ops /\ row1 \in Row /\ row2 \in Row /\ pairTime \in Nat
      /\ zeroAddr \in Nat
  BY <1>1, CanPairFacts
<1>3. TypeOK /\ AddMapOK
  BY DEF TypeAcc, TypeInv, AccTypes
<1>4. zeroAddr \in Row
  BY <1>2 DEF Row
<1>5. ArrayOK(arr) /\ DOMAIN arr = Rows \cup {zeroAddr}
  <2>1. Copied(arr, zeroAddr, acc.operation, row1, row2)
    <3> DEFINE op == acc.operation
    <3> HIDE DEF op
    <3>1. op \in Ops
      BY <1>2 DEF op
    <3>2. ASSUME NEW a,
                 a = addNewInputConnection(
                       addNewLiMRow(limArray, zeroAddr, op, row1), zeroAddr, row2)
          PROVE  Copied(a, zeroAddr, op, row1, row2)
      BY <1>2, <1>3, <1>4, <3>1, <3>2, CopyArray
    <3> QED BY <3>2 DEF op
  <2> QED BY <2>1 DEF Copied
<1>6. AddPartial(arr, f, zeroAddr, later, time) /\ addMap' = addMap
  BY DEF CopyInTree
<1>7. TimesOK(f)
  <2>1. TimesOK(FSM2)
    BY <1>3, TypeParts
  <2>2. /\ DOMAIN f = DOMAIN FSM2 \cup {zeroAddr}
        /\ \A r \in DOMAIN f : f[r] = pairTime \/ (r \in DOMAIN FSM2 /\ f[r] = FSM2[r])
    BY DEF addNewInstruction, Insert
  <2> HIDE DEF f
  <2> QED BY <1>2, <1>4, <2>1, <2>2 DEF TimesOK
<1>8. later \in Nat /\ time \in Nat
  BY <1>2
<1>9. AddMapOK'
  BY <1>3, <1>6 DEF AddMapOK
<1> HIDE DEF arr, f, later, time
<1>10. Rows \subseteq DOMAIN arr
  BY <1>5
<1> QED BY <1>1, <1>4, <1>5, <1>6, <1>7, <1>8, <1>9, <1>10, AddPartialType

(* The destination gets the row at the front, or what an empty list reads. *)
LEMMA AnswerFrontType ==
  ASSUME TypeAcc, AnswerFront
  PROVE  TypeAcc'
<1>1. /\ Summing /\ Accumulating /\ ins = Idle /\ acc \in AccState /\ tree \in TreeState
  BY DEF AnswerFront, Merging, TypeAcc, AccTypes, TreeOK
<1>2. PICK row, lost : row \in Row /\ Answer(row, lost)
  <2>1. CASE tree.currTimeAccList # << >> /\ Answer(Head(tree.currTimeAccList), FALSE)
    <3>1. tree.currTimeAccList \in Seq(Row)
      BY <1>1 DEF TreeState
    <3>2. Head(tree.currTimeAccList) \in Row
      BY <2>1, <3>1
    <3> QED BY <2>1, <3>2
  <2>2. CASE \E row \in GarbageRows : Answer(row, TRUE)
    BY <2>2, GarbageAssumption DEF Row
  <2> QED BY <2>1, <2>2 DEF AnswerFront
<1> DEFINE s == [destReg |-> acc.destReg, i |-> acc.i, list |-> tree.list,
                 row |-> row, lost |-> lost]
<1>3. /\ arrayNamesMap' = PushBack(arrayNamesMap, acc.destReg, row)
      /\ sums' = sums \cup {s}
      /\ tree' = Idle
      /\ UNCHANGED <<tables, FSM, zeroAddr, shiftAmount, ins, status, history,
                     optimise, addMap, acc, summands>>
  BY <1>2 DEF Answer
<1>4. s.list \in Seq(Row) /\ s.row \in Row
  BY <1>1, <1>2 DEF TreeState
<1> HIDE DEF s
<1>5. TypeOK /\ NamesOK
  BY TypeParts DEF TypeAcc, TypeInv
<1>6. NamesOK'
  <2>1. acc.destReg \in Vars \cup Temps
    BY <1>1 DEF AccState
  <2>2. \A x \in DOMAIN arrayNamesMap : arrayNamesMap[x] \in Seq(Row)
    BY <1>5 DEF NamesOK, Named
  <2>3. /\ DOMAIN arrayNamesMap' = DOMAIN arrayNamesMap \cup {acc.destReg}
        /\ \A x \in DOMAIN arrayNamesMap' : arrayNamesMap'[x] \in Seq(Row)
    <3> DEFINE reg == acc.destReg
               new == PushBack(arrayNamesMap, reg, row)
    <3> HIDE DEF reg
    <3>1. /\ DOMAIN new = DOMAIN arrayNamesMap \cup {reg}
          /\ \A x \in DOMAIN arrayNamesMap \cup {reg} : new[x] \in Seq(Row)
      BY <1>2, <2>2, PushBackType
    <3>2. arrayNamesMap' = new
      BY <1>3 DEF reg
    <3> HIDE DEF new
    <3> QED BY <3>1, <3>2 DEF reg
  <2> QED BY <1>5, <2>1, <2>3 DEF NamesOK, Named
<1>7. TypeOK'
  BY <1>3, <1>5, <1>6
     DEF TypeOK, NamesOK, Named, tables, history
<1>8. TypeInv'
  BY <1>1, <1>3, <1>7, NoBinding DEF TypeInv
<1>9. SumsOK'
  BY <1>3, <1>4 DEF SumsOK, TypeAcc, AccTypes
<1> QED BY <1>1, <1>3, <1>8, <1>9 DEF TypeAcc, AccTypes, AddMapOK, Summing, Accumulating

(* The run ends at a row that is not there.                                *)
LEMMA MissingAccRowType ==
  ASSUME TypeAcc, MissingAccRow
  PROVE  TypeAcc'
<1>1. /\ status' = "row not in limArray"
      /\ UNCHANGED <<tables, FSM, zeroAddr, arrayNamesMap, shiftAmount, ins, history, accVars>>
      /\ Summing
  BY DEF MissingAccRow, Merging, Pairing
<1>2. TypeOK'
  BY <1>1 DEF TypeOK, TypeAcc, TypeInv, Named, tables, history
<1>3. InsOK'
  BY <1>1 DEF TypeAcc, TypeInv, InsOK, IsBinding, Busy, dest, operation
<1> QED BY <1>1, <1>2, <1>3
        DEF TypeAcc, TypeInv, AccTypes, AddMapOK, SumsOK, TreeOK, PairsLeft, Rows,
            Summing, Accumulating, accVars, tables

(* The accumulation has answered all its lists.                            *)
LEMMA EndAccumulationType ==
  ASSUME TypeAcc, EndAccumulation
  PROVE  TypeAcc'
<1>1. /\ UNCHANGED <<vars, addMap, tree, sums>> /\ acc' = Idle /\ ~Summing
  BY DEF EndAccumulation
<1>2. TypeInv'
  BY <1>1, TypeInvStutter DEF TypeAcc
<1> QED BY <1>1, <1>2 DEF TypeAcc, AccTypes, AddMapOK, SumsOK, Summing, Accumulating

(* The steps of the other operations.                                      *)
LEMMA BinderType ==
  ASSUME TypeAcc, ~Accumulating, [Next]_vars, UNCHANGED accVars
  PROVE  TypeAcc'
<1>1. TypeInv'
  BY TypeInvStep DEF TypeAcc
<1>2. ~Summing
  BY DEF TypeAcc, AccTypes, TreeOK
<1> QED BY <1>1, <1>2 DEF TypeAcc, AccTypes, AddMapOK, SumsOK, Summing, Accumulating, accVars

(* Nothing changes.                                                        *)
LEMMA AccStutter ==
  ASSUME TypeAcc, UNCHANGED allVars
  PROVE  TypeAcc'
<1>1. TypeInv'
  BY TypeInvStutter DEF TypeAcc, allVars
<1> QED BY <1>1 DEF TypeAcc, AccTypes, AddMapOK, SumsOK, TreeOK, PairsLeft, Rows,
                    Summing, Accumulating, allVars, accVars, vars

(* The types hold at the start.                                            *)
LEMMA TypeAccInit == InitAcc => TypeAcc
<1> SUFFICES ASSUME InitAcc PROVE TypeAcc
  OBVIOUS
<1>1. TypeInv
  BY TypeInvInit DEF InitAcc
<1> QED BY <1>1 DEF InitAcc, TypeAcc, AccTypes, AddMapOK, SumsOK, Summing, Accumulating,
                    EmptyMap

(* Every step keeps the types.                                             *)
LEMMA TypeAccStep ==
  ASSUME TypeAcc, [NextAcc]_allVars
  PROVE  TypeAcc'
<1>1. CASE ~Accumulating /\ Next /\ UNCHANGED accVars
  BY <1>1, BinderType
<1>2. CASE \E op \in AccOps, reg \in Temps, reg1 \in Named, a \in AccAccesses,
              shape \in Shapes : FetchAccumulation(op, reg, reg1, a, shape)
  BY <1>2, FetchAccumulationType
<1>3. CASE TakeList
  BY <1>3, TakeListType
<1>4. CASE ReplacePair
  BY <1>4, ReplacePairType
<1>5. CASE KeepRow
  BY <1>5, KeepRowType
<1>6. CASE EndPass
  BY <1>6, EndPassType
<1>7. CASE BeginStep
  BY <1>7, BeginStepType
<1>8. CASE EndStep
  BY <1>8, EndStepType
<1>9. CASE AnswerFront
  BY <1>9, AnswerFrontType
<1>10. CASE ConvertRow2
  <2>1. CanPair /\ ~checkIfRowIsLiM(limArray, row2) /\ ConvertInTree(row2, row1)
    BY <1>10 DEF ConvertRow2
  <2>2. row2 \in Rows /\ row1 \in Row
    BY <2>1, CanPairFacts
  <2> QED BY <2>1, <2>2, ConvertInTreeType
<1>11. CASE ConvertRow1
  <2>1. CanPair /\ ~checkIfRowIsLiM(limArray, row1) /\ ConvertInTree(row1, row2)
    BY <1>11 DEF ConvertRow1
  <2>2. row1 \in Rows /\ row2 \in Row
    BY <2>1, CanPairFacts
  <2> QED BY <2>1, <2>2, ConvertInTreeType
<1>12. CASE CopyInTree
  BY <1>12, CopyInTreeType
<1>13. CASE MissingAccRow
  BY <1>13, MissingAccRowType
<1>14. CASE EndAccumulation
  BY <1>14, EndAccumulationType
<1>15. CASE UNCHANGED allVars
  BY <1>15, AccStutter
<1> QED BY <1>1, <1>2, <1>3, <1>4, <1>5, <1>6, <1>7, <1>8, <1>9, <1>10, <1>11, <1>12,
           <1>13, <1>14, <1>15
        DEF NextAcc, performAccBinding

(* The inductive types hold in every state.                                *)
LEMMA TypeAccInvariant == SpecAcc => []TypeAcc
<1>1. TypeAcc /\ [NextAcc]_allVars => TypeAcc'
  BY TypeAccStep
<1> QED BY <1>1, TypeAccInit, PTL DEF SpecAcc

(* Members and locals of the accumulation keep their types, whatever       *)
(* lists, geometries and results there are: in particular the two rows of  *)
(* every pair the loop over pairs reads are elements of currTimeAccList    *)
(* (LiMBinder.cpp:691-699).                                                *)
THEOREM AccumulationTypeCorrect == SpecAcc => []TypeOKAcc
<1>1. TypeAcc => TypeOKAcc
  BY TypeAccGives
<1> QED BY <1>1, TypeAccInvariant, PTL
-----------------------------------------------------------------------------
(* The operation on a pair as the binder would have it.                    *)
PairAsked(name) ==
  [operation |-> acc.operation, row |-> name, src1 |-> row1, src2 |-> row2]

(* row reads the other row of the pair, or is a copy that reads both: no   *)
(* row is shared in the tree, so no operand is dropped.                    *)
HasPair(arr, row) ==
  \/ row = row2 /\ WiredTo(arr, row, row1)
  \/ row = row1 /\ WiredTo(arr, row, row2)
  \/ row \notin Rows /\ arr[row].inputConnections = Append(<<row1>>, row2)

(* How a pair was bound: what row drives the result name, and what the     *)
(* tables are before the result is entered.                                *)
PairBound(arr, fsm2, row, name, time) ==
  /\ ArrayOK(arr) /\ ExtendsArray(limArray, arr)
  /\ TimesOK(fsm2) /\ DOMAIN fsm2 = DOMAIN arr
  /\ \A r \in Rows : fsm2[r] = FSM2[r]
  /\ row \in DOMAIN arr /\ arr[row].rowType = acc.operation /\ HasPair(arr, row)
  /\ time \in Nat /\ FSM2[row1] < time /\ FSM2[row2] < time
  /\ name \in Nat /\ zeroAddr <= name /\ \A r \in DOMAIN arr : r < name
  /\ LinesOK(arr, selectionSignalsList) /\ IsFiniteSet(DOMAIN arr)
  /\ \A t \in 0..(time - 1) : \E p \in DOMAIN fsm2 : fsm2[p] = t
  /\ Steady([r \in DOMAIN arr \ {row} |-> arr[r]], fsm2)
  /\ fsm2[row] < time
  /\ AddPartial(arr, fsm2, row, name, time)

(* What the tables are after the result is entered.                        *)
PairTables(arr, fsm2, row, name, time) ==
  /\ zeroAddr' = name + 1
  /\ name \notin DOMAIN arr
  /\ DOMAIN limArray' = DOMAIN arr \cup {name} /\ Rows \subseteq DOMAIN arr
  /\ \A r \in DOMAIN arr : limArray'[r] = arr[r]
  /\ limArray'[name] = [rowType |-> "load", inputConnections |-> <<row>>]
  /\ DOMAIN FSM2' = DOMAIN arr \cup {name}
  /\ \A r \in DOMAIN arr : FSM2'[r] = fsm2[r]
  /\ \A r \in Rows : FSM2'[r] = FSM2[r]
  /\ FSM2'[name] = time
  /\ DOMAIN computes' = DOMAIN computes \cup {name}
  /\ name \notin DOMAIN computes
  /\ \A r \in DOMAIN computes : computes'[r] = computes[r]
  /\ computes'[name] = PairAsked(name)
  /\ UNCHANGED <<selectionSignalsList, lastDestMap, answers, ins, status>>

(* What the tables are after a partial result.                             *)
LEMMA PairTablesHold ==
  ASSUME BindInv, CanPair,
         NEW arr, NEW fsm2, NEW row, NEW name, NEW time,
         PairBound(arr, fsm2, row, name, time)
  PROVE  PairTables(arr, fsm2, row, name, time)
<1>1. AddPartial(arr, fsm2, row, name, time) /\ ArrayOK(arr) /\ name \in Nat
  BY DEF PairBound
<1>2. /\ limArray' = addNewResultRow(arr, name, row)
      /\ FSM2' = addNewInstruction(fsm2, time, name)
      /\ zeroAddr' = name + 1
      /\ computes' = Insert(computes, name, PairAsked(name))
      /\ UNCHANGED <<selectionSignalsList, lastDestMap, answers, ins, status>>
  BY <1>1 DEF AddPartial, PairAsked
<1>3. name \notin DOMAIN arr
  <2>1. \A r \in DOMAIN arr : r \in Nat /\ r < name
    BY DEF PairBound, ArrayOK, Row
  <2> QED BY <1>1, <2>1
<1>4. /\ DOMAIN fsm2 = DOMAIN arr /\ \A r \in Rows : fsm2[r] = FSM2[r]
      /\ Rows \subseteq DOMAIN arr
  BY DEF PairBound, ExtendsArray, Rows
<1>5. /\ DOMAIN limArray' = DOMAIN arr \cup {name}
      /\ \A r \in DOMAIN arr : limArray'[r] = arr[r]
      /\ limArray'[name] = [rowType |-> "load", inputConnections |-> <<row>>]
  <2>1. limArray' = Insert(arr, name, [rowType |-> "load", inputConnections |-> <<row>>])
    BY <1>2 DEF addNewResultRow
  <2> QED BY <1>3, <2>1 DEF Insert
<1>6. /\ DOMAIN FSM2' = DOMAIN arr \cup {name}
      /\ \A r \in DOMAIN arr : FSM2'[r] = fsm2[r]
      /\ FSM2'[name] = time
  <2>1. FSM2' = Insert(fsm2, name, time)
    BY <1>2 DEF addNewInstruction
  <2>2. name \notin DOMAIN fsm2
    BY <1>3, <1>4
  <2> QED BY <1>4, <2>1, <2>2 DEF Insert
<1>7. name \notin DOMAIN computes
  BY <1>3, <1>4 DEF BindInv, Results, ResultOK
<1>8. /\ DOMAIN computes' = DOMAIN computes \cup {name}
      /\ \A r \in DOMAIN computes : computes'[r] = computes[r]
      /\ computes'[name] = PairAsked(name)
  BY <1>2, <1>7 DEF Insert
<1> QED BY <1>2, <1>3, <1>4, <1>5, <1>6, <1>7, <1>8 DEF PairTables

(* Every result is still driven by its operation, the partial one by the   *)
(* row that adds its operands.                                             *)
LEMMA PairResults ==
  ASSUME BindInv, CanPair, ArrayOK(limArray'), ExtendsArray(limArray, limArray'),
         row1 \in Rows, row2 \in Rows,
         NEW arr, NEW fsm2, NEW row, NEW name, NEW time,
         PairBound(arr, fsm2, row, name, time), PairTables(arr, fsm2, row, name, time)
  PROVE  Results'
<1>1. /\ DOMAIN limArray' = DOMAIN arr \cup {name} /\ Rows \subseteq DOMAIN arr
      /\ \A r \in DOMAIN arr : limArray'[r] = arr[r]
      /\ limArray'[name] = [rowType |-> "load", inputConnections |-> <<row>>]
      /\ \A r \in Rows : FSM2'[r] = FSM2[r]
      /\ FSM2'[name] = time
      /\ DOMAIN computes' = DOMAIN computes \cup {name}
      /\ \A r \in DOMAIN computes : computes'[r] = computes[r]
      /\ computes'[name] = PairAsked(name)
  BY DEF PairTables
<1>2. /\ ArrayOK(arr) /\ row \in DOMAIN arr /\ arr[row].rowType = acc.operation
      /\ HasPair(arr, row) /\ FSM2[row1] < time /\ FSM2[row2] < time
  BY DEF PairBound
<1>3. ASSUME NEW r \in DOMAIN computes
      PROVE  ResultOK(r)'
  <2>1. SignalsKept
    BY DEF PairTables, SignalsKept, HasSignal
  <2>2. \A x \in DOMAIN computes' \ DOMAIN computes : x \notin Rows
    BY <1>1 DEF PairTables
  <2> QED BY <1>1, <2>1, <2>2, ResultKept
<1>4. ASSUME NEW r, r = name
      PROVE  ResultOK(r)'
  <2>1. PICK q, s1, s2 : q = PairAsked(name) /\ s1 = row1 /\ s2 = row2
    OBVIOUS
  <2>2. /\ computes'[r] = q /\ q.src1 = s1 /\ q.src2 = s2
        /\ q.operation = acc.operation
    BY <1>1, <1>4, <2>1 DEF PairAsked
  <2>3. /\ r \in Rows' /\ s1 \in Rows' /\ s2 \in Rows'
        /\ FSM2'[s1] < FSM2'[r] /\ FSM2'[s2] < FSM2'[r]
    BY <1>1, <1>2, <1>4, <2>1 DEF Rows
  <2>4. Driver(r)' = row /\ row \in Rows'
    BY <1>1, <1>2, <1>4 DEF Driver, Rows
  <2>5. Combines(arr, row, s1, s2)
    BY <1>2, <2>1, Zenon DEF HasPair, Combines
  <2>6. row \notin Rows => row \notin DOMAIN computes'
    <3>1. DOMAIN computes \subseteq Rows
      BY DEF BindInv, Results, ResultOK
    <3>2. name \notin DOMAIN arr
      BY DEF PairTables
    <3> QED BY <1>1, <1>2, <3>1, <3>2
  <2>7. Fed(row, q)'
    BY <1>1, <1>2, <2>2, <2>5, <2>6, CombinesFeeds
  <2>8. Fed(Driver(r), computes[r])'
    BY <2>2, <2>4, <2>7
  <2> QED BY <2>2, <2>3, <2>4, <2>8 DEF ResultOK
<1> QED BY <1>1, <1>3, <1>4 DEF Results

(* Rows that are wired are ready before they are read.                     *)
LEMMA PairSteady ==
  ASSUME NEW arr, NEW fsm2, NEW row, NEW name, NEW time,
         PairBound(arr, fsm2, row, name, time), PairTables(arr, fsm2, row, name, time)
  PROVE  Steady(limArray', FSM2')
<1>1. /\ DOMAIN limArray' = DOMAIN arr \cup {name}
      /\ \A r \in DOMAIN arr : limArray'[r] = arr[r]
      /\ limArray'[name].rowType = "load"
      /\ DOMAIN FSM2' = DOMAIN fsm2 \cup {name} /\ DOMAIN fsm2 = DOMAIN arr
      /\ \A r \in DOMAIN fsm2 : FSM2'[r] = fsm2[r]
      /\ FSM2'[name] = time
  BY DEF PairTables, PairBound
<1>2. time \in Nat /\ \A r \in DOMAIN fsm2 : fsm2[r] \in Nat
  BY DEF PairBound, TimesOK
<1>3. /\ \A r \in DOMAIN fsm2 : \A t \in 0..fsm2[r] : \E p \in DOMAIN fsm2 : fsm2[p] = t
      /\ \A r \in DOMAIN arr \ {row} :
           arr[r].rowType # "load" => \E p \in DOMAIN fsm2 : fsm2[r] < fsm2[p]
      /\ \A t \in 0..(time - 1) : \E p \in DOMAIN fsm2 : fsm2[p] = t
      /\ fsm2[row] < time
  BY DEF PairBound, Steady
<1>4. \A r \in DOMAIN FSM2' : \A t \in 0..FSM2'[r] : \E p \in DOMAIN FSM2' : FSM2'[p] = t
  <2> SUFFICES ASSUME NEW r \in DOMAIN FSM2', NEW t \in 0..FSM2'[r]
               PROVE  \E p \in DOMAIN FSM2' : FSM2'[p] = t
    OBVIOUS
  <2>1. CASE r \in DOMAIN fsm2
    <3>1. PICK p \in DOMAIN fsm2 : fsm2[p] = t
      BY <1>1, <1>3, <2>1
    <3> QED BY <1>1, <3>1
  <2>2. CASE r = name /\ t = time
    BY <1>1, <2>2
  <2>3. CASE r = name /\ t # time
    <3>1. t \in 0..(time - 1)
      BY <1>1, <1>2, <2>3
    <3>2. PICK p \in DOMAIN fsm2 : fsm2[p] = t
      BY <1>3, <3>1
    <3> QED BY <1>1, <3>2
  <2> QED BY <1>1, <2>1, <2>2, <2>3
<1>5. \A r \in DOMAIN limArray' :
        limArray'[r].rowType # "load" => \E p \in DOMAIN FSM2' : FSM2'[r] < FSM2'[p]
  <2> SUFFICES ASSUME NEW r \in DOMAIN arr, arr[r].rowType # "load"
               PROVE  \E p \in DOMAIN FSM2' : FSM2'[r] < FSM2'[p]
    BY <1>1
  <2>1. CASE r = row
    BY <1>1, <1>3, <2>1
  <2>2. CASE r # row
    <3>1. PICK p \in DOMAIN fsm2 : fsm2[r] < fsm2[p]
      BY <1>3, <2>2
    <3> QED BY <1>1, <3>1
  <2> QED BY <2>1, <2>2
<1> QED BY <1>4, <1>5 DEF Steady

(* A partial result keeps what the binder relies on.                       *)
LEMMA PairInv ==
  ASSUME BindInv, TypeAcc, TypeInv', CanPair,
         NEW arr, NEW fsm2, NEW row, NEW name, NEW time,
         PairBound(arr, fsm2, row, name, time)
  PROVE  BindInv' /\ PairTables(arr, fsm2, row, name, time)
<1>1. PairTables(arr, fsm2, row, name, time)
  BY PairTablesHold
<1>2. ArrayOK(limArray) /\ ArrayOK(limArray') /\ ArrayOK(arr)
  BY TypeParts, TypePartsPrime DEF BindInv, TypeInv, PairBound
<1>3. ExtendsArray(limArray, limArray')
  <2>1. ExtendsArray(arr, arr) /\ ExtendsArray(limArray, arr)
    BY <1>2, ExtendsReflexive DEF PairBound
  <2>2. ExtendsArray(arr, limArray')
    <3>1. /\ DOMAIN limArray' = DOMAIN arr \cup {name}
          /\ \A r \in DOMAIN arr : limArray'[r] = arr[r]
      BY <1>1 DEF PairTables
    <3> QED BY <2>1, <3>1 DEF ExtendsArray
  <2> QED BY <1>2, <2>1, <2>2, ExtendsTransitive
<1>4. row1 \in Rows /\ row2 \in Rows /\ ins = Idle /\ status = "running"
  BY CanPairFacts
<1>5. Results'
  BY <1>1, <1>2, <1>3, <1>4, PairResults
<1>6. /\ Rows' = DOMAIN arr \cup {name} /\ DOMAIN FSM2' = DOMAIN arr \cup {name}
      /\ zeroAddr' = name + 1 /\ name \in Nat
      /\ DOMAIN arr \subseteq Nat /\ \A r \in DOMAIN arr : r < name
      /\ name \notin DOMAIN computes /\ zeroAddr \in Nat /\ zeroAddr <= name
      /\ DOMAIN computes' = DOMAIN computes \cup {name}
      /\ \A r \in DOMAIN computes : computes'[r] = computes[r]
      /\ lastDestMap' = lastDestMap /\ answers' = answers /\ ins' = Idle
      /\ status' = status /\ selectionSignalsList' = selectionSignalsList
  BY <1>1, <1>2, <1>4 DEF PairTables, PairBound, Rows, Row, ArrayOK, BindInv, TypeInv, TypeOK
<1>7. ~IsBinding'
  BY <1>6, NoBinding
<1>8. Placed' /\ Fresh'
  BY <1>6, <1>7 DEF Placed, Fresh
<1>9. Remembered'
  BY <1>6 DEF BindInv, Remembered
<1>10. Answered'
  <2>1. ASSUME NEW a \in answers
        PROVE  /\ a.row < zeroAddr'
               /\ a.row \in DOMAIN computes' /\ a.src1 # a.src2 =>
                    SameQuestion(computes'[a.row], a)
    <3>1. /\ a.row \in Nat /\ a.row < zeroAddr
          /\ a.row \in DOMAIN computes /\ a.src1 # a.src2 => SameQuestion(computes[a.row], a)
      BY DEF BindInv, TypeInv, TypeOK, Question, Answered, Row
    <3>2. a.row < name
      BY <1>6, <3>1
    <3> QED BY <1>6, <3>1, <3>2
  <2> QED BY <1>6, <1>7, <2>1 DEF Answered
<1>11. LinesOK(limArray', selectionSignalsList')
  <2>1. /\ DOMAIN limArray' = DOMAIN arr \cup {name}
        /\ \A r \in DOMAIN arr : limArray'[r] = arr[r]
        /\ limArray'[name] = [rowType |-> "load", inputConnections |-> <<row>>]
    BY <1>1 DEF PairTables
  <2>2. /\ limArray'[name].rowType = "load" /\ Len(limArray'[name].inputConnections) = 1
        /\ 1 \in 1..3 /\ 1 # 3
    BY <2>1
  <2>3. LinesOK(arr, selectionSignalsList)
    BY Zenon DEF PairBound
  <2>4. LinesOK(arr, selectionSignalsList')
    BY <1>6, <2>3, Zenon
  <2> SUFFICES ASSUME NEW r \in DOMAIN limArray'
               PROVE  LET lines == limArray'[r].inputConnections IN
                      /\ Len(lines) \in 1..3
                      /\ limArray'[r].rowType = "load" => Len(lines) = 1
                      /\ Len(lines) = 3 =>
                           \E k \in DOMAIN selectionSignalsList' :
                             selectionSignalsList'[k].destRow = r
    BY Zenon DEF LinesOK
  <2>5. CASE r \in DOMAIN arr
    <3>1. limArray'[r] = arr[r]
      BY <2>1, <2>5, Zenon
    <3> QED BY <2>4, <2>5, <3>1, Zenon DEF LinesOK
  <2>6. CASE r = name
    BY <2>2, <2>6, Zenon
  <2> QED BY <2>1, <2>5, <2>6, Zenon
<1>12. Steady(limArray', FSM2')
  BY <1>1, PairSteady
<1>13. IsFiniteSet(Rows')
  BY <1>6, FS_AddElement DEF PairBound
<1>14. Transformed'
  BY <1>4, <1>6 DEF Transformed
<1> QED BY <1>1, <1>5, <1>8, <1>9, <1>10, <1>11, <1>12, <1>13, <1>14 DEF BindInv
-----------------------------------------------------------------------------
(* The state of a pair is after those of its operands, and none before it  *)
(* is unused.                                                              *)
LEMMA PairTimes ==
  ASSUME BindInv, TypeAcc, CanPair
  PROVE  /\ pairTime \in Nat /\ FSM2[row1] < pairTime /\ FSM2[row2] < pairTime
         /\ FSM2[row1] \in Nat /\ FSM2[row2] \in Nat
         /\ pairTime = FSM2[row1] + 1 \/ pairTime = FSM2[row2] + 1
         /\ \A t \in 0..(pairTime - 1) : \E p \in DOMAIN FSM2 : FSM2[p] = t
<1> DEFINE t1 == FSM2[row1]
           t2 == FSM2[row2]
<1>1. t1 \in Nat /\ t2 \in Nat /\ row1 \in DOMAIN FSM2 /\ row2 \in DOMAIN FSM2
  BY CanPairFacts DEF TypeAcc, TypeInv, TypeOK
<1>2. pairTime = Maximum(t1, t2) + 1
  BY DEF pairTime, getTime
<1>3. Steady(limArray, FSM2)
  BY DEF BindInv
<1>4. (pairTime = t1 + 1 \/ pairTime = t2 + 1) /\ pairTime \in Nat
      /\ t1 < pairTime /\ t2 < pairTime
  <2> DEFINE m == Maximum(t1, t2)
  <2> HIDE DEF t1, t2
  <2>1. m \in Nat /\ t1 <= m /\ t2 <= m /\ (m = t1 \/ m = t2)
    BY <1>1, MaximumBounds
  <2>2. pairTime = m + 1
    BY <1>2
  <2> HIDE DEF m
  <2> QED BY <1>1, <2>1, <2>2
<1>5. pairTime - 1 = t1 \/ pairTime - 1 = t2
  BY <1>1, <1>4
<1>6. \A t \in 0..(pairTime - 1) : \E p \in DOMAIN FSM2 : FSM2[p] = t
  BY <1>1, <1>3, <1>5 DEF Steady
<1> QED BY <1>1, <1>4, <1>6

(* A plain word that becomes an adder is bound as PairBound says.          *)
LEMMA ConvertInTreeInv ==
  ASSUME BindInv, TypeAcc, TypeInv', CanPair, NEW row, NEW other,
         (row = row1 /\ other = row2) \/ (row = row2 /\ other = row1),
         ~checkIfRowIsLiM(limArray, row), ConvertInTree(row, other)
  PROVE  \E arr : /\ PairBound(arr, FSM2, row, zeroAddr, pairTime)
                  /\ DOMAIN arr = Rows
<1> DEFINE arr == addNewInputConnection(
                    changeLiMRowType(limArray, row, acc.operation), row, other)
           op == acc.operation
<1>1. /\ TypeOK /\ op \in Ops /\ zeroAddr \in Nat
      /\ row \in Rows /\ other \in Row /\ row1 \in Rows /\ row2 \in Rows
  BY CanPairFacts DEF TypeAcc, TypeInv
<1>2. /\ Rows \subseteq Nat /\ DOMAIN FSM2 = Rows /\ TimesOK(FSM2)
      /\ \A r \in Rows : r < zeroAddr
      /\ LinesOK(limArray, selectionSignalsList)
      /\ Steady(limArray, FSM2) /\ IsFiniteSet(Rows)
  BY <1>1, TypeParts DEF BindInv, Placed, Fresh, ArrayOK, Rows, Row
<1>3. /\ ArrayOK(arr) /\ ExtendsArray(limArray, arr) /\ DOMAIN arr = Rows
      /\ arr[row].rowType = op
      /\ Listed(arr[row].inputConnections, other)
      /\ Len(limArray[row].inputConnections) = 1 =>
           arr[row].inputConnections = Append(limArray[row].inputConnections, other)
      /\ \A r \in Rows : r # row => arr[r] = limArray[r]
  BY <1>1, ConvertArray
<1>4. AddPartial(arr, FSM2, row, zeroAddr, pairTime)
  BY DEF ConvertInTree
<1> HIDE DEF arr
<1>5. HasPair(arr, row)
  <2> DEFINE list == limArray[row].inputConnections
  <2>1. list \in Seq(InputLine) /\ other \in InputLine /\ Len(list) = 1
    BY <1>1, <1>2 DEF LinesOK, checkIfRowIsLiM, Rows, TypeOK, InputLine
  <2>2. arr[row].inputConnections = Append(list, other)
    BY <1>3, <2>1
  <2> HIDE DEF list
  <2>3. Len(list) >= 1
    BY <2>1
  <2>4. WiredTo(arr, row, other)
    BY <2>1, <2>2, <2>3, AppendedIsWired
  <2> QED BY <2>4, Zenon DEF HasPair
<1>6. LinesOK(arr, selectionSignalsList)
  <2>1. Len(limArray[row].inputConnections) = 1 /\ limArray[row] \in
          [rowType : RowType, inputConnections : Seq(InputLine)]
    BY <1>1, <1>2 DEF LinesOK, checkIfRowIsLiM, Rows, TypeOK
  <2>2. Len(arr[row].inputConnections) = 2
    <3>1. arr[row].inputConnections = Append(limArray[row].inputConnections, other)
      BY <1>3, <2>1
    <3>2. limArray[row].inputConnections \in Seq(InputLine) /\ other \in InputLine
      BY <1>1, <2>1 DEF InputLine
    <3> QED BY <2>1, <3>1, <3>2, AppendProperties
  <2>3. arr[row].rowType # "load"
    BY <1>1, <1>3, OpsAssumption
  <2>4. ASSUME NEW r \in DOMAIN arr, r # row
        PROVE  arr[r] = limArray[r] /\ r \in DOMAIN limArray
    BY <1>3, <2>4 DEF Rows
  <2> QED BY <1>2, <2>2, <2>3, <2>4 DEF LinesOK
<1>7. Steady([r \in DOMAIN arr \ {row} |-> arr[r]], FSM2)
  <2>1. \A r \in DOMAIN arr \ {row} :
          arr[r].rowType # "load" => \E p \in DOMAIN FSM2 : FSM2[r] < FSM2[p]
    BY <1>2, <1>3 DEF Steady, Rows
  <2> QED BY <1>2, <2>1 DEF Steady
<1>8. PairBound(arr, FSM2, row, zeroAddr, pairTime)
  <2>1. zeroAddr <= zeroAddr /\ \A r \in DOMAIN arr : r < zeroAddr
    <3>1. zeroAddr <= zeroAddr
      BY <1>1
    <3>2. \A r \in DOMAIN arr : r < zeroAddr
      BY <1>2, <1>3, Zenon
    <3> QED BY <3>1, <3>2
  <2>2. /\ pairTime \in Nat /\ FSM2[row1] < pairTime /\ FSM2[row2] < pairTime
        /\ \A t \in 0..(pairTime - 1) : \E p \in DOMAIN FSM2 : FSM2[p] = t
    BY PairTimes
  <2>3. FSM2[row] < pairTime /\ row \in DOMAIN arr /\ DOMAIN FSM2 = DOMAIN arr
        /\ IsFiniteSet(DOMAIN arr)
    BY <1>1, <1>2, <1>3, <2>2
  <2> QED BY <1>1, <1>2, <1>3, <1>4, <1>5, <1>6, <1>7, <2>1, <2>2, <2>3, Zenon DEF PairBound
<1> QED BY <1>3, <1>8

(* A row added for two LiM rows is bound as PairBound says.                *)
LEMMA CopyInTreeInv ==
  ASSUME BindInv, TypeAcc, TypeInv', CopyInTree
  PROVE  \E arr, fsm2 :
           /\ PairBound(arr, fsm2, zeroAddr, zeroAddr + 1, pairTime + 1)
           /\ DOMAIN arr = Rows \cup {zeroAddr}
<1> DEFINE op == acc.operation
           s1 == row1
           s2 == row2
           arr == addNewInputConnection(
                    addNewLiMRow(limArray, zeroAddr, op, s1), zeroAddr, s2)
           fsm2 == addNewInstruction(FSM2, pairTime, zeroAddr)
           time == pairTime + 1
           name == zeroAddr + 1
<1>1. /\ TypeOK /\ op \in Ops /\ zeroAddr \in Nat /\ zeroAddr \in Row /\ CanPair
      /\ s1 \in Rows /\ s2 \in Rows /\ s1 \in Row /\ s2 \in Row /\ op # "load"
  BY CanPairFacts, OpsAssumption DEF TypeAcc, TypeInv, CopyInTree, Row
<1>2. /\ Rows \subseteq Nat /\ DOMAIN FSM2 = Rows /\ TimesOK(FSM2)
      /\ \A r \in Rows : r < zeroAddr
      /\ LinesOK(limArray, selectionSignalsList)
      /\ Steady(limArray, FSM2) /\ IsFiniteSet(Rows)
  BY <1>1, TypeParts DEF BindInv, Placed, Fresh, ArrayOK, Rows, Row
<1>3. zeroAddr \notin Rows
  BY <1>1, <1>2
<1>4. AddPartial(arr, fsm2, zeroAddr, name, time)
  BY DEF CopyInTree
<1>5. /\ pairTime \in Nat /\ FSM2[s1] < pairTime /\ FSM2[s2] < pairTime
      /\ FSM2[s1] \in Nat /\ FSM2[s2] \in Nat
      /\ \A t \in 0..(pairTime - 1) : \E p \in DOMAIN FSM2 : FSM2[p] = t
  BY <1>1, PairTimes
<1>6. HasPair(arr, zeroAddr) <=>
        \/ zeroAddr = s2 /\ WiredTo(arr, zeroAddr, s1)
        \/ zeroAddr = s1 /\ WiredTo(arr, zeroAddr, s2)
        \/ zeroAddr \notin Rows /\ arr[zeroAddr].inputConnections = Append(<<s1>>, s2)
  BY DEF HasPair
<1>7. PairBound(arr, fsm2, zeroAddr, name, time) <=>
        /\ ArrayOK(arr) /\ ExtendsArray(limArray, arr)
        /\ TimesOK(fsm2) /\ DOMAIN fsm2 = DOMAIN arr
        /\ \A r \in Rows : fsm2[r] = FSM2[r]
        /\ zeroAddr \in DOMAIN arr /\ arr[zeroAddr].rowType = op /\ HasPair(arr, zeroAddr)
        /\ time \in Nat /\ FSM2[s1] < time /\ FSM2[s2] < time
        /\ name \in Nat /\ zeroAddr <= name /\ \A r \in DOMAIN arr : r < name
        /\ LinesOK(arr, selectionSignalsList) /\ IsFiniteSet(DOMAIN arr)
        /\ \A t \in 0..(time - 1) : \E p \in DOMAIN fsm2 : fsm2[p] = t
        /\ Steady([r \in DOMAIN arr \ {zeroAddr} |-> arr[r]], fsm2)
        /\ fsm2[zeroAddr] < time
        /\ AddPartial(arr, fsm2, zeroAddr, name, time)
  BY DEF PairBound
<1> HIDE DEF op, s1, s2
<1>8. /\ ArrayOK(arr) /\ ExtendsArray(limArray, arr)
      /\ DOMAIN arr = Rows \cup {zeroAddr}
      /\ \A r \in Rows : arr[r] = limArray[r]
      /\ arr[zeroAddr].rowType = op
      /\ arr[zeroAddr].inputConnections = Append(<<s1>>, s2)
  <2>1. ASSUME NEW a,
               a = addNewInputConnection(
                     addNewLiMRow(limArray, zeroAddr, op, s1), zeroAddr, s2)
        PROVE  Copied(a, zeroAddr, op, s1, s2)
    BY <1>1, <2>1, CopyArray
  <2>2. Copied(arr, zeroAddr, op, s1, s2)
    BY <2>1
  <2> HIDE DEF arr
  <2> QED BY <1>3, <2>2 DEF Copied
<1>9. /\ DOMAIN fsm2 = Rows \cup {zeroAddr}
      /\ \A r \in Rows : fsm2[r] = FSM2[r]
      /\ fsm2[zeroAddr] = pairTime
      /\ TimesOK(fsm2)
  <2>1. zeroAddr \notin DOMAIN FSM2 /\ DOMAIN FSM2 = Rows
    BY <1>2, <1>3
  <2>2. /\ DOMAIN fsm2 = Rows \cup {zeroAddr}
        /\ \A r \in Rows : fsm2[r] = FSM2[r]
        /\ fsm2[zeroAddr] = pairTime
    BY <2>1 DEF addNewInstruction, Insert
  <2> HIDE DEF fsm2
  <2> QED BY <1>1, <1>2, <1>5, <2>2 DEF TimesOK
<1> HIDE DEF arr, fsm2
<1>10. LinesOK(arr, selectionSignalsList)
  <2>1. Len(arr[zeroAddr].inputConnections) = 2
    BY <1>8, Pair
  <2>2. arr[zeroAddr].rowType # "load"
    BY <1>1, <1>8
  <2>3. ASSUME NEW r \in DOMAIN arr, r # zeroAddr
        PROVE  arr[r] = limArray[r] /\ r \in DOMAIN limArray
    BY <1>8, <2>3 DEF Rows
  <2> QED BY <1>2, <2>1, <2>2, <2>3 DEF LinesOK
<1>11. \A t \in 0..(time - 1) : \E p \in DOMAIN fsm2 : fsm2[p] = t
  <2> SUFFICES ASSUME NEW t \in 0..(time - 1)
               PROVE  \E p \in DOMAIN fsm2 : fsm2[p] = t
    OBVIOUS
  <2>1. CASE t = pairTime
    BY <1>9, <2>1
  <2>2. CASE t # pairTime
    <3>1. t \in 0..(pairTime - 1)
      BY <1>5, <2>2
    <3>2. PICK p \in DOMAIN FSM2 : FSM2[p] = t
      BY <1>5, <3>1
    <3> QED BY <1>2, <1>9, <3>2
  <2> QED BY <2>1, <2>2
<1>12. Steady([r \in DOMAIN arr \ {zeroAddr} |-> arr[r]], fsm2)
  <2> DEFINE rest == [r \in DOMAIN arr \ {zeroAddr} |-> arr[r]]
  <2>1. DOMAIN rest = Rows /\ \A r \in Rows : rest[r] = limArray[r]
    BY <1>3, <1>8
  <2> HIDE DEF rest
  <2>2. ASSUME NEW r \in Rows, limArray[r].rowType # "load"
        PROVE  \E p \in DOMAIN fsm2 : fsm2[r] < fsm2[p]
    <3>1. PICK p \in DOMAIN FSM2 : FSM2[r] < FSM2[p]
      BY <1>2, <2>2 DEF Steady, Rows
    <3> QED BY <1>2, <1>9, <3>1
  <2>3. ASSUME NEW r \in DOMAIN fsm2, NEW t \in 0..fsm2[r]
        PROVE  \E p \in DOMAIN fsm2 : fsm2[p] = t
    <3>1. CASE r \in Rows
      <4>1. PICK p \in DOMAIN FSM2 : FSM2[p] = t
        BY <1>2, <1>9, <2>3, <3>1 DEF Steady
      <4> QED BY <1>2, <1>9, <4>1
    <3>2. CASE r = zeroAddr
      <4>1. t \in 0..(time - 1)
        BY <1>5, <1>9, <2>3, <3>2
      <4> QED BY <1>11, <4>1
    <3> QED BY <1>9, <3>1, <3>2
  <2>4. Steady(rest, fsm2)
    BY <2>1, <2>2, <2>3 DEF Steady
  <2> QED BY <2>4 DEF rest
<1>13. /\ time \in Nat /\ FSM2[s1] < time /\ FSM2[s2] < time /\ fsm2[zeroAddr] < time
  BY <1>5, <1>9
<1>14. name \in Nat /\ zeroAddr <= name /\ \A r \in DOMAIN arr : r < name
  <2>1. ASSUME NEW r \in DOMAIN arr PROVE r < name
    <3>1. r = zeroAddr \/ (r \in Nat /\ r < zeroAddr)
      BY <1>2, <1>8
    <3> QED BY <1>1, <3>1
  <2>2. name \in Nat /\ zeroAddr <= name
    BY <1>1
  <2> HIDE DEF name
  <2> QED BY <2>1, <2>2
<1>15. IsFiniteSet(DOMAIN arr)
  BY <1>2, <1>8, FS_AddElement
<1>16. zeroAddr \in DOMAIN arr /\ DOMAIN fsm2 = DOMAIN arr /\ HasPair(arr, zeroAddr)
  BY <1>3, <1>6, <1>8, <1>9
<1> HIDE DEF time, name
<1>17. PairBound(arr, fsm2, zeroAddr, name, time)
  BY <1>4, <1>7, <1>8, <1>9, <1>10, <1>11, <1>12, <1>13, <1>14, <1>15, <1>16, Zenon
<1> QED BY <1>8, <1>17 DEF name, time
-----------------------------------------------------------------------------
(* A result of the tree, as the steps that add one have it in common.      *)
Paired(arr, fsm2, row, name, time) ==
  /\ PairBound(arr, fsm2, row, name, time)
  /\ PairTables(arr, fsm2, row, name, time)

(* A converted row keeps the invariant of the binder.                      *)
LEMMA ConvertedPair ==
  ASSUME BindInv, TypeAcc, TypeInv', ConvertRow1 \/ ConvertRow2
  PROVE  /\ BindInv'
         /\ \E arr, row : /\ Paired(arr, FSM2, row, zeroAddr, pairTime)
                          /\ DOMAIN arr = Rows
<1>1. CanPair
  BY DEF ConvertRow1, ConvertRow2
<1>2. PICK row, other : /\ (row = row1 /\ other = row2) \/ (row = row2 /\ other = row1)
                        /\ ~checkIfRowIsLiM(limArray, row)
                        /\ ConvertInTree(row, other)
  <2>1. CASE ConvertRow2
    BY <2>1 DEF ConvertRow2
  <2>2. CASE ConvertRow1
    BY <2>2 DEF ConvertRow1
  <2> QED BY <2>1, <2>2
<1>3. PICK arr : PairBound(arr, FSM2, row, zeroAddr, pairTime) /\ DOMAIN arr = Rows
  BY <1>1, <1>2, ConvertInTreeInv
<1>4. BindInv' /\ PairTables(arr, FSM2, row, zeroAddr, pairTime)
  BY <1>1, <1>3, PairInv
<1> QED BY <1>3, <1>4 DEF Paired

(* A copied row keeps the invariant of the binder.                         *)
LEMMA CopiedPair ==
  ASSUME BindInv, TypeAcc, TypeInv', CopyInTree
  PROVE  /\ BindInv'
         /\ \E arr, fsm2 :
              /\ Paired(arr, fsm2, zeroAddr, zeroAddr + 1, pairTime + 1)
              /\ DOMAIN arr = Rows \cup {zeroAddr}
<1>1. CanPair
  BY DEF CopyInTree
<1>2. PICK arr, fsm2 : /\ PairBound(arr, fsm2, zeroAddr, zeroAddr + 1, pairTime + 1)
                       /\ DOMAIN arr = Rows \cup {zeroAddr}
  BY CopyInTreeInv
<1>3. BindInv' /\ PairTables(arr, fsm2, zeroAddr, zeroAddr + 1, pairTime + 1)
  BY <1>1, <1>2, PairInv
<1> QED BY <1>2, <1>3 DEF Paired

(* The steps that leave the array, the states and the history alone.       *)
LEMMA BinderKept ==
  ASSUME BindInv, TypeAcc, TypeInv', Accumulating \/ ~Busy,
         UNCHANGED <<tables, FSM, zeroAddr, ins, history>>,
         status' = status \/ status' = "row not in limArray"
  PROVE  BindInv'
<1>1. UNCHANGED <<tables, history>> /\ zeroAddr' = zeroAddr
  OBVIOUS
<1>2. ins' = Idle
  BY DEF TypeAcc, AccTypes, Busy
<1>3. ~IsBinding'
  BY <1>2, NoBinding
<1>4. status' = "done" => FSM' = transform(FSM2)
  BY DEF BindInv, Transformed, tables
<1> QED BY <1>1, <1>3, <1>4, TablesKept

(* Every step keeps the invariant of the binder.                           *)
LEMMA BindInvAccStep ==
  ASSUME NoShifts, BindInv, TypeAcc, [NextAcc]_allVars
  PROVE  BindInv'
<1>1. TypeInv'
  BY TypeAccStep DEF TypeAcc
<1>2. CASE ~Accumulating /\ Next /\ UNCHANGED accVars
  BY <1>2, BindInvStep
<1>3. CASE UNCHANGED vars
  BY <1>3, BindInvStep
<1>4. CASE \E op \in AccOps, reg \in Temps, reg1 \in Named, a \in AccAccesses,
              shape \in Shapes : FetchAccumulation(op, reg, reg1, a, shape)
  BY <1>3, <1>4 DEF FetchAccumulation
<1>5. CASE TakeList \/ EndAccumulation
  BY <1>3, <1>5 DEF TakeList, EndAccumulation
<1>6. CASE ReplacePair \/ KeepRow \/ EndPass \/ BeginStep \/ EndStep
  BY <1>3, <1>6 DEF ReplacePair, KeepRow, EndPass, BeginStep, EndStep
<1>7. CASE AnswerFront
  <2>1. PICK row, lost : Answer(row, lost)
    BY <1>7 DEF AnswerFront
  <2>2. Accumulating
    BY <1>7 DEF AnswerFront, Merging, TypeAcc, AccTypes, TreeOK
  <2> QED BY <1>1, <2>1, <2>2, BinderKept DEF Answer
<1>8. CASE MissingAccRow
  <2>1. Accumulating
    BY <1>8 DEF MissingAccRow, Merging, Pairing, TypeAcc, AccTypes, TreeOK
  <2> QED BY <1>1, <1>8, <2>1, BinderKept DEF MissingAccRow
<1>9. CASE ConvertRow1 \/ ConvertRow2
  BY <1>1, <1>9, ConvertedPair
<1>10. CASE CopyInTree
  BY <1>1, <1>10, CopiedPair
<1>11. CASE UNCHANGED allVars
  BY <1>3, <1>11 DEF allVars
<1> QED BY <1>2, <1>4, <1>5, <1>6, <1>7, <1>8, <1>9, <1>10, <1>11
        DEF NextAcc, performAccBinding

(* The invariant of the binder and the types hold in every state.          *)
LEMMA BindAccInvariant == NoShifts => (SpecAcc => [](BindInv /\ TypeAcc))
<1> SUFFICES ASSUME NoShifts
             PROVE  SpecAcc => [](BindInv /\ TypeAcc)
  OBVIOUS
<1>1. InitAcc => BindInv /\ TypeAcc
  BY BindInvInit, TypeAccInit DEF InitAcc
<1>2. BindInv /\ TypeAcc /\ [NextAcc]_allVars => (BindInv /\ TypeAcc)'
  BY TypeAccStep, BindInvAccStep
<1> QED BY <1>1, <1>2, PTL DEF SpecAcc

(* Sums that run between the operations take nothing from an earlier       *)
(* result, and add none that lacks an operand: the row that feeds it       *)
(* combines both, but for the operand a shared row drops, which no pair of *)
(* the tree is bound to (LiMBinder.cpp:699-846).                           *)
THEOREM AccumulatedResultsDriven == NoShifts => (SpecAcc => []ResultsDriven)
<1> SUFFICES ASSUME NoShifts
             PROVE  SpecAcc => []ResultsDriven
  OBVIOUS
<1>1. BindInv => ResultsDriven
  BY DEF BindInv, Results, ResultOK, Fed, ResultsDriven
<1> QED BY <1>1, BindAccInvariant, PTL
-----------------------------------------------------------------------------
(* What the loop of the handler knows of the lists before acc.i.           *)
ListsCut ==
  Accumulating =>
    IF acc.shape.triangle
    THEN /\ acc.i = 0 => acc.skipElements = 0
         /\ acc.i = 1 => acc.skipElements = 1
         /\ acc.i > 0 => acc.skipElements > 0
    ELSE /\ Len(acc.tmpAccList) = acc.i
         /\ \A n \in 1..acc.i : acc.tmpAccList[n] = ElementAt(acc.set, n - 1)

(* What is known of the lists, and the property itself.                    *)
ListsInv ==
  /\ ListsCut
  /\ Summing => acc.i > 0
  /\ ListsTaken

(* Only TakeList changes the list that is summed and what it was cut from. *)
LEMMA SameList ==
  ASSUME TypeAcc, [NextAcc]_allVars, Summing
  PROVE  /\ acc' = acc
         /\ Summing' => tree'.list = tree.list
<1>1. tree \in TreeState /\ Accumulating
  BY DEF TypeAcc, AccTypes, TreeOK
<1>2. CASE ReplacePair \/ KeepRow \/ BeginStep \/ EndStep
  BY <1>1, <1>2 DEF ReplacePair, KeepRow, BeginStep, EndStep, TreeState
<1>3. CASE EndPass
  <2> DEFINE byTime == Insert(tree.byTime, tree.time, tree.remainList)
             time == tree.time + 1
             b == IF tree.isReduceable THEN Insert(byTime, time, tree.nextList) ELSE byTime
  <2>1. /\ acc' = acc
        /\ \/ tree' = [tree EXCEPT !.byTime = byTime, !.time = time, !.k = 1,
                        !.currList = tree.nextList, !.nextList = << >>,
                        !.remainList = << >>, !.isReduceable = FALSE]
           \/ tree' = Allocate(tree, b)
    BY <1>3 DEF EndPass
  <2> HIDE DEF byTime, time, b
  <2>2. Allocate(tree, b).list = tree.list
    BY <1>1 DEF Allocate, TreeState
  <2> QED BY <1>1, <2>1, <2>2 DEF TreeState
<1>4. CASE AnswerFront
  BY <1>4 DEF AnswerFront, Answer, Summing
<1>5. CASE ConvertRow1 \/ ConvertRow2 \/ CopyInTree
  <2>1. PICK arr, fsm2, row, name, time : AddPartial(arr, fsm2, row, name, time)
    BY <1>5 DEF ConvertRow1, ConvertRow2, CopyInTree, ConvertInTree
  <2> QED BY <1>1, <2>1 DEF AddPartial, TreeState
<1>6. CASE MissingAccRow
  BY <1>6 DEF MissingAccRow, accVars
<1>7. CASE UNCHANGED allVars
  BY <1>7 DEF allVars, accVars
<1>8. CASE \/ ~Accumulating /\ Next /\ UNCHANGED accVars
           \/ \E op \in AccOps, reg \in Temps, reg1 \in Named, a \in AccAccesses,
                 shape \in Shapes : FetchAccumulation(op, reg, reg1, a, shape)
           \/ TakeList \/ EndAccumulation
  BY <1>1, <1>8 DEF FetchAccumulation, TakeList, EndAccumulation
<1> QED BY <1>2, <1>3, <1>4, <1>5, <1>6, <1>7, <1>8 DEF NextAcc, performAccBinding

(* A piece of a triangle that is no longer than the set comes whole.       *)
LEMMA SubsetTaken ==
  ASSUME NEW list \in Seq(Row), NEW i \in Nat, NEW n \in Nat \ {0}, NEW skip \in Nat,
         i = 0 => skip = 0, i = 1 => skip = 1, i > 0 => skip > 0,
         skip + n <= Len(list)
  PROVE  /\ Len(getSubset(list, i, n, skip)) = n
         /\ \A k \in 1..n : getSubset(list, i, n, skip)[k] = ElementAt(list, skip + k - 1)
<1> DEFINE skipped == CASE i = 0 -> 0 [] i = 1 -> 1 [] OTHER -> skip
           rounds == IF i = 0 THEN 0 ELSE n
           m == IF rounds < Len(list) THEN n ELSE 0
           subset == [k \in 1..m |-> ElementAt(list, skipped + k - 1)]
<1>1. skipped = skip /\ m = n
  OBVIOUS
<1>2. getSubset(list, i, n, skip) = subset
  BY DEF getSubset
<1> HIDE DEF skipped, m
<1>3. subset = [k \in 1..n |-> ElementAt(list, skip + k - 1)]
  BY <1>1
<1> HIDE DEF subset
<1>4. Len(subset) = n /\ \A k \in 1..n : subset[k] = ElementAt(list, skip + k - 1)
  BY <1>3
<1> QED BY <1>2, <1>4

(* The first list of a triangle has one element.                           *)
LEMMA FirstWidth ==
  ASSUME acc.shape \in Shapes
  PROVE  Width(0) = 1
<1> DEFINE c == acc.shape.cols
<1>1. c \in Nat \ {0}
  BY ShapesAssumption
<1> HIDE DEF c
<1>2. 0 \div c = 0 /\ 0 % c = 0
  BY <1>1
<1> QED BY <1>2 DEF Width, c

(* The next list is cut behind the last one (LiMBinder.cpp:230-268).       *)
LEMMA TakeListCut ==
  ASSUME TypeAcc, ListsCut, TakeList
  PROVE  ListsInv'
<1> DEFINE set == acc.set
           i == acc.i
           skip == acc.skipElements
           n == Width(i)
           subset == IF acc.shape.triangle THEN getSubset(set, i, n, skip) ELSE acc.tmpAccList
           list == Append(subset, ElementAt(set, i))
           taken == IF acc.shape.triangle THEN n ELSE i
           first == IF acc.shape.triangle THEN skip ELSE 0
<1>1. acc \in AccState /\ Accumulating
  BY DEF TakeList, TypeAcc, AccTypes
<1>2. set \in Seq(Row) /\ i \in Nat /\ skip \in Nat /\ acc.tmpAccList \in Seq(Row)
  BY <1>1 DEF AccState
<1>3. n \in Nat \ {0}
  BY <1>1, <1>2, WidthType DEF AccState
<1>4. /\ acc' = [acc EXCEPT !.i = i + 1, !.tmpAccList = list, !.skipElements = skip + n]
      /\ tree' = NewTree(list)
  BY <1>1 DEF TakeList, AccState
<1>5. subset \in Seq(Row) /\ ElementAt(set, i) \in Row
  BY <1>2, <1>3, SubsetType, ElementType
<1>6. acc.shape.triangle =>
        (i = 0 => skip = 0) /\ (i = 1 => skip = 1) /\ (i > 0 => skip > 0)
  BY <1>1 DEF ListsCut
<1>7. ~acc.shape.triangle =>
        Len(subset) = i /\ \A k \in 1..i : subset[k] = ElementAt(set, k - 1)
  BY <1>1 DEF ListsCut
<1>8. acc.shape.triangle /\ skip + n <= Len(set) =>
        Len(subset) = n /\ \A k \in 1..n : subset[k] = ElementAt(set, skip + k - 1)
  <2> SUFFICES ASSUME acc.shape.triangle, skip + n <= Len(set)
               PROVE  /\ Len(subset) = n
                      /\ \A k \in 1..n : subset[k] = ElementAt(set, skip + k - 1)
    OBVIOUS
  <2> DEFINE piece == getSubset(set, i, n, skip)
  <2>1. (i = 0 => skip = 0) /\ (i = 1 => skip = 1) /\ (i > 0 => skip > 0)
    BY <1>6
  <2>2. subset = piece
    OBVIOUS
  <2> HIDE DEF set, i, skip, n, subset
  <2>3. /\ Len(piece) = n
        /\ \A k \in 1..n : piece[k] = ElementAt(set, skip + k - 1)
    BY <1>2, <1>3, <2>1, SubsetTaken
  <2> QED BY <2>2, <2>3
<1>9. (acc.shape.triangle => skip + n <= Len(set)) =>
        Len(subset) = taken /\ \A k \in 1..taken : subset[k] = ElementAt(set, first + k - 1)
  BY <1>2, <1>3, <1>7, <1>8
<1> HIDE DEF subset
<1>10. /\ list \in Seq(Row) /\ Len(list) = Len(subset) + 1
       /\ \A k \in 1..Len(subset) : list[k] = subset[k]
       /\ list[Len(subset) + 1] = ElementAt(set, i)
  BY <1>5, AppendProperties
<1> HIDE DEF list
<1>11. /\ acc'.set = set /\ acc'.i = i + 1 /\ acc'.skipElements = skip + n
       /\ acc'.shape = acc.shape /\ acc'.tmpAccList = list
  BY <1>1, <1>4 DEF AccState
<1>12. tree'.list = list
  BY <1>4, <1>10, NewTreeType
<1>13. \A j : acc'.shape = acc.shape => (j = i => Width(j)' = Width(j))
  BY DEF Width
<1>14. Width(acc.i - 1)' = n
  <2>1. acc'.i - 1 = i
    BY <1>2, <1>11
  <2>2. Width(acc.i - 1)' = (((acc'.i - 1) \div acc'.shape.cols) + 1)
                              * (((acc'.i - 1) % acc'.shape.cols) + 1)
    BY DEF Width
  <2> QED BY <1>11, <2>1, <2>2 DEF Width
<1> HIDE DEF n
<1>15. ListsTaken'
  <2> SUFFICES ASSUME acc.shape.triangle => skip + n <= Len(set)
               PROVE  /\ Len(list) = taken + 1
                      /\ \A k \in 1..taken : list[k] = ElementAt(set, first + k - 1)
    <3>1. (IF acc'.shape.triangle THEN Width(acc.i - 1)' ELSE acc'.i - 1) = taken
      BY <1>2, <1>11, <1>14
    <3>2. (IF acc'.shape.triangle THEN acc'.skipElements - Width(acc.i - 1)' ELSE 0) = first
      BY <1>2, <1>3, <1>11, <1>14
    <3> HIDE DEF taken, first
    <3> QED BY <1>11, <1>12, <3>1, <3>2 DEF ListsTaken
  <2> HIDE DEF taken, first
  <2>1. Len(subset) = taken /\ \A k \in 1..taken : subset[k] = ElementAt(set, first + k - 1)
    BY <1>9
  <2> QED BY <1>10, <2>1
<1>16. ListsCut'
  <2>1. CASE acc.shape.triangle
    <3>1. i + 1 = 1 => skip + n = 1
      <4>1. ASSUME i = 0 PROVE skip + n = 1
        <5>1. n = 1
          BY <1>1, <4>1, FirstWidth DEF n, AccState
        <5> QED BY <1>6, <2>1, <4>1, <5>1
      <4> QED BY <1>2, <4>1
    <3>2. skip + n > 0 /\ i + 1 # 0
      BY <1>2, <1>3
    <3> HIDE DEF i, skip
    <3> QED BY <1>11, <2>1, <3>1, <3>2 DEF ListsCut
  <2>2. CASE ~acc.shape.triangle
    <3>1. Len(list) = i + 1
      BY <1>7, <1>10, <2>2
    <3>2. ASSUME NEW k \in 1..(i + 1) PROVE list[k] = ElementAt(set, k - 1)
      <4>1. CASE k = i + 1
        <5>1. k - 1 = i
          BY <1>2, <4>1
        <5> QED BY <1>7, <1>10, <2>2, <4>1, <5>1
      <4>2. CASE k # i + 1
        <5>1. k \in 1..i
          BY <1>2, <4>2
        <5> QED BY <1>7, <1>10, <2>2, <5>1
      <4> QED BY <4>1, <4>2
    <3> QED BY <1>11, <2>2, <3>1, <3>2 DEF ListsCut
  <2> QED BY <2>1, <2>2
<1>17. acc'.i > 0
  BY <1>2, <1>11
<1> QED BY <1>15, <1>16, <1>17 DEF ListsInv

(* Every step keeps what is known of the lists.                            *)
LEMMA ListsStep ==
  ASSUME TypeAcc, ListsInv, [NextAcc]_allVars
  PROVE  ListsInv'
<1>1. CASE Summing
  <2>1. acc' = acc /\ (Summing' => tree'.list = tree.list)
    BY <1>1, SameList
  <2>2. ListsTaken'
    BY <1>1, <2>1 DEF ListsInv, ListsTaken, Width
  <2>3. ListsCut'
    BY <2>1 DEF ListsInv, ListsCut, Accumulating
  <2> QED BY <1>1, <2>1, <2>2, <2>3 DEF ListsInv
<1>2. CASE TakeList
  BY <1>2, TakeListCut DEF ListsInv
<1>3. CASE ~Summing /\ ~TakeList
  <2>1. ~Summing' /\ (ListsCut' \/ (acc' = acc))
    <3>1. CASE ~Accumulating /\ Next /\ UNCHANGED accVars
      BY <1>3, <3>1 DEF accVars, Summing
    <3>2. CASE UNCHANGED allVars
      BY <1>3, <3>2 DEF allVars, accVars, Summing
    <3>3. CASE EndAccumulation
      BY <1>3, <3>3 DEF EndAccumulation, Summing, ListsCut, Accumulating
    <3>4. CASE \E op \in AccOps, reg \in Temps, reg1 \in Named, a \in AccAccesses,
                 shape \in Shapes : FetchAccumulation(op, reg, reg1, a, shape)
      <4>1. PICK op \in AccOps, reg \in Temps, reg1 \in Named, a \in AccAccesses,
                 shape \in Shapes : FetchAccumulation(op, reg, reg1, a, shape)
        BY <3>4
      <4>2. /\ acc'.i = 0 /\ acc'.skipElements = 0 /\ acc'.tmpAccList = << >>
            /\ tree' = tree
        BY <4>1 DEF FetchAccumulation
      <4> QED BY <1>3, <4>2 DEF ListsCut, Summing
    <3>5. ~performAccBinding
      BY <1>3 DEF performAccBinding, ReplacePair, KeepRow, EndPass, BeginStep, EndStep,
           AnswerFront, ConvertRow2, ConvertRow1, CopyInTree, MissingAccRow, Reducing,
           Merging, Pairing, CanPair
    <3> QED BY <1>3, <3>1, <3>2, <3>3, <3>4, <3>5 DEF NextAcc
  <2>2. ListsCut'
    BY <2>1 DEF ListsInv, ListsCut, Accumulating
  <2> QED BY <2>1, <2>2 DEF ListsInv, ListsTaken
<1> QED BY <1>1, <1>2, <1>3

(* Every list that is summed is cut where it should be: consecutive pieces *)
(* of the set for a triangle, though getSubset skips differently for the   *)
(* first, the second and the other lists (AddressList.cpp:255-293), and    *)
(* the prefixes of the set otherwise (LiMBinder.cpp:230-268).              *)
THEOREM ListsAreTaken == SpecAcc => []ListsTaken
<1>1. InitAcc => TypeAcc /\ ListsInv
  BY TypeAccInit DEF InitAcc, ListsInv, ListsCut, ListsTaken, Accumulating, Summing
<1>2. TypeAcc /\ ListsInv /\ [NextAcc]_allVars => (TypeAcc /\ ListsInv)'
  BY TypeAccStep, ListsStep
<1>3. ListsInv => ListsTaken
  BY DEF ListsInv
<1> QED BY <1>1, <1>2, <1>3, PTL DEF SpecAcc
-----------------------------------------------------------------------------
(* What a map had for a key it has for ever.                               *)
Enlarges(old, new) ==
  /\ DOMAIN old \subseteq DOMAIN new
  /\ \A x \in DOMAIN old : new[x] = old[x]

(* A new entry of a table leaves the others.                               *)
LEMMA EnlargesInsert ==
  ASSUME NEW old, NEW m, Enlarges(old, m), NEW k, NEW v
  PROVE  Enlarges(old, Insert(m, k, v))
<1> DEFINE new == Insert(m, k, v)
<1>1. DOMAIN new = DOMAIN m \cup {k} /\ \A x \in DOMAIN m : new[x] = m[x]
  BY DEF Insert
<1> HIDE DEF new
<1> SUFFICES Enlarges(old, new)
  BY DEF new
<1> QED BY <1>1, Zenon DEF Enlarges

(* So does leaving the table alone.                                        *)
LEMMA EnlargesSame ==
  ASSUME NEW old, NEW new, new = old
  PROVE  Enlarges(old, new)
BY DEF Enlarges

(* Every table keeps what it has.                                          *)
Grown ==
  /\ Enlarges(FSM2, FSM2')
  /\ Enlarges(computes, computes')
  /\ Enlarges(summands, summands')
  /\ Enlarges(addMap, addMap')

(* The tables of the binder keep what they have.                           *)
TablesGrown == Enlarges(FSM2, FSM2') /\ Enlarges(computes, computes')

(* A result row is entered beside the others.                              *)
LEMMA AddResultGrown ==
  ASSUME NEW arr, NEW fsm2, NEW row, NEW time, AddResult(arr, fsm2, row, time),
         Enlarges(FSM2, fsm2)
  PROVE  TablesGrown
<1>1. FSM2' = Insert(fsm2, dest, time) \/ FSM2' = Insert(fsm2, time, dest)
  BY DEF AddResult, addNewInstruction
<1>1a. Enlarges(FSM2, FSM2')
  BY <1>1, EnlargesInsert
<1>2. computes' = Insert(computes, dest, Asked(dest))
  BY DEF AddResult
<1>3. Enlarges(computes, computes')
  BY <1>2, EnlargesSame, EnlargesInsert
<1> QED BY <1>1a, <1>3 DEF TablesGrown

(* The other operations only add to the states and to the results.         *)
LEMMA NextGrown ==
  ASSUME NoShifts, TypeInv, [Next]_vars
  PROVE  TablesGrown
<1>1. CASE UNCHANGED <<FSM2, computes>>
  BY <1>1, EnlargesSame DEF TablesGrown
<1>2. ASSUME NEW reg \in Vars, NEW n \in 1..MaxSize, FetchLoad(reg, n)
      PROVE  TablesGrown
  BY <1>1, <1>2 DEF FetchLoad, tables, history
<1>3. CASE BindLoad
  <2>1. FSM2' = Insert(FSM2, zeroAddr, 0) \/ FSM2' = Insert(FSM2, 0, zeroAddr)
    BY <1>3 DEF BindLoad, addNewInstruction
  <2>2. Enlarges(FSM2, FSM2')
    BY <2>1, EnlargesSame, EnlargesInsert
  <2>3. computes' = computes
    BY <1>3 DEF BindLoad, history
  <2> QED BY <2>2, <2>3, EnlargesSame DEF TablesGrown
<1>4. ASSUME NEW op \in Ops, NEW reg \in Temps, NEW reg1 \in Named, NEW reg2 \in Named,
             NEW a1 \in Accesses, NEW a2 \in Accesses,
             FetchOperation(op, reg, reg1, a1, reg2, a2)
      PROVE  TablesGrown
  BY <1>1, <1>4 DEF FetchOperation, tables, history
<1>5. CASE FetchConstantOperand \/ MissingRow \/ Finish
  BY <1>1, <1>5 DEF FetchConstantOperand, MissingRow, Finish, tables, history
<1>8. CASE ReuseResult \/ DropOperation
  BY <1>1, <1>8 DEF ReuseResult, DropOperation, tables, history
<1>10. CASE ConvertSrc2 \/ ConvertSrc1 \/ ShareSrc2 \/ ShareSrc1
  <2>1. PICK arr, row, time : AddResult(arr, FSM2, row, time)
    BY <1>10 DEF ConvertSrc2, ConvertSrc1, ShareSrc2, ShareSrc1, Convert, Share
  <2> QED BY <2>1, AddResultGrown, EnlargesSame
<1>14. CASE CopyRow
  <2>1. PICK arr, row, time :
          AddResult(arr, addNewInstruction(FSM2, activeTime, zeroAddr), row, time)
    BY <1>14 DEF CopyRow
  <2>2. Enlarges(FSM2, addNewInstruction(FSM2, activeTime, zeroAddr))
    BY EnlargesSame, EnlargesInsert DEF addNewInstruction
  <2> QED BY <2>1, <2>2, AddResultGrown
<1>15. CASE ShiftInPlace \/ ShiftCopy
  <2>1. IsBinding /\ operation \in ShiftOps
    BY <1>15 DEF ShiftInPlace, ShiftCopy, CanShift, Binding, IsBinding
  <2>2. operation \in Ops
    BY <2>1, OperandTypes DEF TypeInv
  <2> QED BY <2>1, <2>2 DEF NoShifts
<1>16. CASE UNCHANGED vars
  BY <1>1, <1>16 DEF vars, tables, history
<1> QED
  BY <1>2, <1>3, <1>4, <1>5, <1>8, <1>10, <1>14, <1>15, <1>16
  DEF Next, performBinding

(* Nothing that was entered in a table is changed or taken out again.      *)
LEMMA GrownStep ==
  ASSUME NoShifts, BindInv, TypeAcc, TypeInv', [NextAcc]_allVars
  PROVE  Grown
<1>1. CASE UNCHANGED <<vars, addMap, summands>>
  <2>1. UNCHANGED <<FSM2, computes, summands, addMap>>
    BY <1>1 DEF vars, tables, history
  <2> QED BY <2>1, EnlargesSame DEF Grown
<1>2. CASE ~Accumulating /\ Next /\ UNCHANGED accVars
  <2>1. TablesGrown
    BY <1>2, NextGrown DEF BindInv
  <2>2. UNCHANGED <<summands, addMap>>
    BY <1>2 DEF accVars
  <2> QED BY <2>1, <2>2, EnlargesSame DEF Grown, TablesGrown
<1>4. CASE \E op \in AccOps, reg \in Temps, reg1 \in Named, a \in AccAccesses,
              shape \in Shapes : FetchAccumulation(op, reg, reg1, a, shape)
  BY <1>1, <1>4 DEF FetchAccumulation
<1>5. CASE TakeList \/ EndAccumulation
  BY <1>1, <1>5 DEF TakeList, EndAccumulation
<1>6. CASE ReplacePair \/ KeepRow \/ EndPass \/ BeginStep \/ EndStep
  BY <1>1, <1>6 DEF ReplacePair, KeepRow, EndPass, BeginStep, EndStep
<1>7. CASE AnswerFront \/ MissingAccRow
  <2>1. UNCHANGED <<FSM2, computes, summands, addMap>>
    BY <1>7 DEF AnswerFront, Answer, MissingAccRow, tables, history, accVars
  <2> QED BY <2>1, EnlargesSame DEF Grown
<1>9. ASSUME NEW arr, NEW fsm2, NEW row, NEW name, NEW time,
             AddPartial(arr, fsm2, row, name, time), Enlarges(FSM2, fsm2),
             Enlarges(addMap, addMap')
      PROVE  Grown
  <2>1. FSM2' = Insert(fsm2, name, time) \/ FSM2' = Insert(fsm2, time, name)
    BY <1>9 DEF AddPartial, addNewInstruction
  <2>2. Enlarges(FSM2, FSM2')
    BY <1>9, <2>1, EnlargesInsert
  <2>3. \E v : computes' = Insert(computes, name, v)
    BY <1>9 DEF AddPartial
  <2>4. Enlarges(computes, computes')
    BY <2>3, EnlargesSame, EnlargesInsert
  <2>5. \E v : summands' = Insert(summands, name, v)
    BY <1>9 DEF AddPartial
  <2>6. Enlarges(summands, summands')
    BY <2>5, EnlargesSame, EnlargesInsert
  <2> QED BY <1>9, <2>2, <2>4, <2>6 DEF Grown
<1>10. CASE ConvertRow1 \/ ConvertRow2
  <2>1. PICK row, other : ConvertInTree(row, other)
    BY <1>10 DEF ConvertRow1, ConvertRow2
  <2>2. Enlarges(addMap, addMap')
    BY <2>1, EnlargesSame, EnlargesInsert DEF ConvertInTree
  <2>3. PICK arr, time : AddPartial(arr, FSM2, row, zeroAddr, time)
    BY <2>1 DEF ConvertInTree
  <2> QED BY <1>9, <2>2, <2>3, EnlargesSame
<1>11. CASE CopyInTree
  <2>1. PICK arr, row, name, time :
          AddPartial(arr, addNewInstruction(FSM2, pairTime, zeroAddr), row, name, time)
    BY <1>11 DEF CopyInTree
  <2>2. Enlarges(FSM2, addNewInstruction(FSM2, pairTime, zeroAddr))
    BY EnlargesSame, EnlargesInsert DEF addNewInstruction
  <2>3. Enlarges(addMap, addMap')
    BY <1>11, EnlargesSame DEF CopyInTree
  <2> QED BY <1>9, <2>1, <2>2, <2>3
<1>12. CASE UNCHANGED allVars
  BY <1>1, <1>12 DEF allVars, accVars
<1> QED BY <1>2, <1>4, <1>5, <1>6, <1>7, <1>10, <1>11, <1>12
        DEF NextAcc, performAccBinding
-----------------------------------------------------------------------------
(* A partial result stands for the rows its two operands stand for.        *)
PartialOK(m) ==
  /\ m \in DOMAIN computes
  /\ summands[m] \in RowBags
  /\ summands[m] = Summands(computes[m].src1) (+) Summands(computes[m].src2)

(* What addMap has of a result: its operands, added in the state after     *)
(* both are written.                                                       *)
KnownOK(m) ==
  /\ m \in DOMAIN summands
  /\ addMap[m] = <<computes[m].src1, computes[m].src2>>
  /\ FSM2[m] = Maximum(FSM2[computes[m].src1], FSM2[computes[m].src2]) + 1

(* Partial results and what addMap knows of them are right.                *)
PartialsOK ==
  /\ \A m \in DOMAIN summands : PartialOK(m)
  /\ \A m \in DOMAIN addMap : KnownOK(m)

(* The first half of it.                                                   *)
AllPartial == \A m \in DOMAIN summands : PartialOK(m)

(* A result and its operands are rows that have a state.                   *)
LEMMA ResultRows ==
  ASSUME BindInv, NEW m \in DOMAIN computes
  PROVE  /\ m \in Rows /\ computes[m].src1 \in Rows /\ computes[m].src2 \in Rows
         /\ DOMAIN FSM2 = Rows /\ Rows \subseteq Row
         /\ FSM2[m] \in Nat
         /\ FSM2[computes[m].src1] \in Nat /\ FSM2[computes[m].src2] \in Nat
<1>1. m \in Rows /\ computes[m].src1 \in Rows /\ computes[m].src2 \in Rows
  BY DEF BindInv, Results, ResultOK
<1>2. DOMAIN FSM2 = Rows
  BY DEF BindInv, Placed
<1>3. TimesOK(FSM2)
  BY TypeParts DEF BindInv, TypeInv
<1> QED BY <1>1, <1>2, <1>3 DEF TimesOK

(* An old result is kept, as long as its operands stand for the same.      *)
LEMMA PartialKept ==
  ASSUME BindInv, PartialsOK, Grown, NEW m \in DOMAIN summands,
         \A r \in Rows : Summands(r)' = Summands(r)
  PROVE  PartialOK(m)'
<1>1. PartialOK(m)
  BY DEF PartialsOK
<1>2. m \in DOMAIN computes /\ computes[m].src1 \in Rows /\ computes[m].src2 \in Rows
  BY <1>1, ResultRows DEF PartialOK
<1>3. m \in DOMAIN computes' /\ computes'[m] = computes[m] /\ summands'[m] = summands[m]
  BY <1>2 DEF Grown, Enlarges
<1> DEFINE a == computes[m].src1
           b == computes[m].src2
<1>4. a \in Rows /\ b \in Rows
  BY <1>2
<1>5. computes'[m].src1 = a /\ computes'[m].src2 = b
  BY <1>3
<1>6. summands[m] \in RowBags /\ summands[m] = Summands(a) (+) Summands(b)
  BY <1>1 DEF PartialOK
<1> HIDE DEF a, b
<1>7. \A r : r = a => Summands(r)' = Summands(a)
  BY <1>4
<1>8. \A r : r = b => Summands(r)' = Summands(b)
  BY <1>4
<1>9. Summands(computes[m].src1)' = Summands(a) /\ Summands(computes[m].src2)' = Summands(b)
  BY <1>5, <1>7, <1>8
<1> QED BY <1>3, <1>6, <1>9 DEF PartialOK

(* What addMap knows goes on being a partial result.                       *)
LEMMA KnownKeptInTree ==
  ASSUME BindInv, PartialsOK, Grown, NEW m \in DOMAIN addMap
  PROVE  KnownOK(m)'
<1>1. KnownOK(m) /\ m \in DOMAIN summands
  BY DEF PartialsOK, KnownOK
<1>2. m \in DOMAIN computes
  BY <1>1 DEF PartialsOK, PartialOK
<1>3. /\ m \in DOMAIN FSM2
      /\ computes[m].src1 \in DOMAIN FSM2 /\ computes[m].src2 \in DOMAIN FSM2
  BY <1>2, ResultRows
<1>4. /\ m \in DOMAIN summands' /\ computes'[m] = computes[m] /\ addMap'[m] = addMap[m]
      /\ FSM2'[m] = FSM2[m]
      /\ FSM2'[computes[m].src1] = FSM2[computes[m].src1]
      /\ FSM2'[computes[m].src2] = FSM2[computes[m].src2]
  BY <1>1, <1>2, <1>3 DEF Grown, Enlarges
<1> QED BY <1>1, <1>4 DEF KnownOK

(* There are no partial results at the start.                              *)
LEMMA PartialsInit == InitAcc => PartialsOK
BY DEF InitAcc, PartialsOK, EmptyMap

(* The partial results are right after a step that adds none.              *)
LEMMA PartialsSame ==
  ASSUME BindInv, PartialsOK, Grown, UNCHANGED <<summands, addMap>>
  PROVE  PartialsOK'
<1>1. \A r \in Rows : Summands(r)' = Summands(r)
  BY DEF Summands
<1>2. \A m \in DOMAIN summands : PartialOK(m)'
  BY <1>1, PartialKept
<1>3. \A m \in DOMAIN addMap : KnownOK(m)'
  BY KnownKeptInTree
<1> QED BY <1>2, <1>3 DEF PartialsOK

(* Every row stands for a bag of rows.                                     *)
LEMMA SummandsAreBags ==
  ASSUME PartialsOK
  PROVE  SummandsOK
<1> SUFFICES ASSUME NEW r \in Row
             PROVE  Summands(r) \in RowBags
  BY DEF SummandsOK
<1>1. r \in DOMAIN summands => summands[r] \in RowBags
  BY DEF PartialsOK, PartialOK
<1> QED BY <1>1, BagOne DEF Summands

(* The new result has the rows of both.                                    *)
LEMMA PartialAdded ==
  ASSUME BindInv, PartialsOK, Grown, CanPair, TypeAcc,
         NEW arr, NEW fsm2, NEW row, NEW name, NEW time,
         Paired(arr, fsm2, row, name, time)
  PROVE  /\ name \in Row /\ name \notin DOMAIN summands /\ name \notin Rows
         /\ DOMAIN summands' = DOMAIN summands \cup {name}
         /\ computes'[name].src1 = row1 /\ computes'[name].src2 = row2
         /\ AllPartial'
<1>1. /\ name \notin DOMAIN computes /\ name \in DOMAIN computes' /\ name \in Row
      /\ computes'[name] = PairAsked(name) /\ name \notin Rows
  BY DEF Paired, PairTables, PairBound, Row
<1>2. name \notin DOMAIN summands
  BY <1>1 DEF PartialsOK, PartialOK
<1>3. summands' = Insert(summands, name, Summands(row1) (+) Summands(row2))
  BY DEF Paired, PairBound, AddPartial
<1> DEFINE both == Summands(row1) (+) Summands(row2)
<1>4. DOMAIN summands' = DOMAIN summands \cup {name} /\ summands'[name] = both
  <2> HIDE DEF both
  <2>1. summands' = Insert(summands, name, both)
    BY <1>3 DEF both
  <2> QED BY <1>2, <2>1 DEF Insert
<1>5. row1 \in Rows /\ row2 \in Rows /\ row1 \in Row /\ row2 \in Row
  BY CanPairFacts
<1>6. ASSUME NEW r \in Rows
      PROVE  Summands(r)' = Summands(r)
  <2>1. r # name
    BY <1>1
  <2>2. r \in DOMAIN summands' <=> r \in DOMAIN summands
    BY <1>4, <2>1
  <2>3. r \in DOMAIN summands => summands'[r] = summands[r]
    BY DEF Grown, Enlarges
  <2> QED BY <2>2, <2>3 DEF Summands
<1>7. computes'[name].src1 = row1 /\ computes'[name].src2 = row2
  BY <1>1 DEF PairAsked
<1>8. PartialOK(name)'
  <2> DEFINE a == row1
             b == row2
  <2>0. a \in Rows /\ b \in Rows /\ a \in Row /\ b \in Row
    BY <1>5
  <2>1. computes'[name].src1 = a /\ computes'[name].src2 = b
    BY <1>7
  <2>2. summands'[name] = Summands(a) (+) Summands(b)
    BY <1>4
  <2> HIDE DEF a, b
  <2>3. (\A r : r = a => Summands(r)' = Summands(a)) /\ (\A r : r = b => Summands(r)' = Summands(b))
    BY <1>6, <2>0
  <2>4. Summands(computes[name].src1)' = Summands(a) /\ Summands(computes[name].src2)' = Summands(b)
    BY <2>1, <2>3
  <2>5. Summands(a) \in RowBags /\ Summands(b) \in RowBags
    BY <2>0, SummandsAreBags DEF SummandsOK
  <2>6. Summands(a) (+) Summands(b) \in RowBags
    BY <2>5, BagAdd
  <2> QED BY <1>1, <2>2, <2>4, <2>6 DEF PartialOK
<1>9. \A m \in DOMAIN summands : PartialOK(m)'
  BY <1>6, PartialKept
<1>10. \A m \in DOMAIN summands' : PartialOK(m)'
  BY <1>4, <1>8, <1>9
<1> QED BY <1>1, <1>2, <1>4, <1>7, <1>10 DEF AllPartial

(* They are right after the step that adds one: addMap learns a result in  *)
(* its own state only (LiMBinder.cpp:796-803).                             *)
LEMMA PartialsPair ==
  ASSUME BindInv, PartialsOK, Grown, CanPair, TypeAcc,
         NEW arr, NEW fsm2, NEW row, NEW name, NEW time,
         Paired(arr, fsm2, row, name, time),
         \/ addMap' = addMap
         \/ addMap' = Insert(addMap, name, <<row1, row2>>) /\ time = pairTime
  PROVE  PartialsOK'
<1>1. /\ \A m \in DOMAIN summands' : PartialOK(m)'
      /\ name \in DOMAIN summands' /\ name \notin DOMAIN summands
      /\ computes'[name].src1 = row1 /\ computes'[name].src2 = row2
  <2>1. /\ AllPartial' /\ DOMAIN summands' = DOMAIN summands \cup {name}
        /\ name \notin DOMAIN summands
        /\ computes'[name].src1 = row1 /\ computes'[name].src2 = row2
    BY PartialAdded
  <2> QED BY <2>1 DEF AllPartial
<1>2. \A m \in DOMAIN addMap : KnownOK(m)'
  BY KnownKeptInTree
<1>3. CASE addMap' = addMap
  BY <1>1, <1>2, <1>3 DEF PartialsOK
<1>4. CASE addMap' = Insert(addMap, name, <<row1, row2>>) /\ time = pairTime
  <2>1. name \notin DOMAIN addMap
    BY <1>1 DEF PartialsOK, KnownOK
  <2>2. DOMAIN addMap' = DOMAIN addMap \cup {name} /\ addMap'[name] = <<row1, row2>>
    <3> DEFINE pair == <<row1, row2>>
    <3>1. addMap' = Insert(addMap, name, pair)
      BY <1>4
    <3> HIDE DEF pair
    <3>2. DOMAIN addMap' = DOMAIN addMap \cup {name} /\ addMap'[name] = pair
      BY <2>1, <3>1 DEF Insert
    <3> QED BY <3>2 DEF pair
  <2>3. row1 \in Rows /\ row2 \in Rows
    BY CanPairFacts
  <2>4. FSM2'[row1] = FSM2[row1] /\ FSM2'[row2] = FSM2[row2] /\ FSM2'[name] = pairTime
    BY <1>4, <2>3 DEF Paired, PairTables
  <2>5. pairTime = Maximum(FSM2[row1], FSM2[row2]) + 1
    BY DEF pairTime, getTime
  <2>6. KnownOK(name)'
    BY <1>1, <2>2, <2>4, <2>5 DEF KnownOK
  <2> QED BY <1>1, <1>2, <2>2, <2>6 DEF PartialsOK
<1> QED BY <1>3, <1>4
-----------------------------------------------------------------------------
(* Every step keeps the partial results right.                             *)
LEMMA PartialsStep ==
  ASSUME NoShifts, BindInv, TypeAcc, TypeInv', PartialsOK, [NextAcc]_allVars
  PROVE  PartialsOK'
<1>1. Grown
  BY GrownStep
<1>2. CASE UNCHANGED <<summands, addMap>>
  BY <1>1, <1>2, PartialsSame
<1>3. CASE (~Accumulating /\ Next /\ UNCHANGED accVars) \/ UNCHANGED allVars
  BY <1>2, <1>3 DEF accVars, allVars
<1>4. CASE \E op \in AccOps, reg \in Temps, reg1 \in Named, a \in AccAccesses,
              shape \in Shapes : FetchAccumulation(op, reg, reg1, a, shape)
  BY <1>2, <1>4 DEF FetchAccumulation
<1>5. CASE TakeList \/ EndAccumulation \/ AnswerFront \/ MissingAccRow
  BY <1>2, <1>5 DEF TakeList, EndAccumulation, AnswerFront, Answer, MissingAccRow, accVars
<1>6. CASE ReplacePair \/ KeepRow \/ EndPass \/ BeginStep \/ EndStep
  BY <1>2, <1>6 DEF ReplacePair, KeepRow, EndPass, BeginStep, EndStep
<1>7. CASE ConvertRow1 \/ ConvertRow2
  <2>1. CanPair
    BY <1>7 DEF ConvertRow1, ConvertRow2
  <2>2. PICK arr, row : Paired(arr, FSM2, row, zeroAddr, pairTime)
    BY <1>7, ConvertedPair
  <2>3. addMap' = Insert(addMap, zeroAddr, <<row1, row2>>)
    BY <1>7 DEF ConvertRow1, ConvertRow2, ConvertInTree
  <2> QED BY <1>1, <2>1, <2>2, <2>3, PartialsPair
<1>8. CASE CopyInTree
  <2>1. CanPair /\ addMap' = addMap
    BY <1>8 DEF CopyInTree
  <2>2. PICK arr, fsm2 : Paired(arr, fsm2, zeroAddr, zeroAddr + 1, pairTime + 1)
    BY <1>8, CopiedPair
  <2> QED BY <1>1, <2>1, <2>2, PartialsPair
<1> QED BY <1>3, <1>4, <1>5, <1>6, <1>7, <1>8
        DEF NextAcc, performAccBinding

(* A weight by which every partial result weighs what its operands weigh.  *)
Additive(w) ==
  /\ w \in Weights
  /\ \A m \in DOMAIN summands : w[m] = w[computes[m].src1] + w[computes[m].src2]

(* Weights that fit the results of the next state fit those of this one.   *)
LEMMA AdditiveBefore ==
  ASSUME PartialsOK, Grown, NEW w, Additive(w)'
  PROVE  Additive(w)
<1>1. ASSUME NEW m \in DOMAIN summands
      PROVE  w[m] = w[computes[m].src1] + w[computes[m].src2]
  <2>1. m \in DOMAIN computes
    BY DEF PartialsOK, PartialOK
  <2>2. m \in DOMAIN summands' /\ computes'[m] = computes[m]
    BY <2>1 DEF Grown, Enlarges
  <2> QED BY <2>2 DEF Additive
<1> QED BY <1>1 DEF Additive

(* A result has the copies of both operands, so the copies of a row are    *)
(* weights a tree keeps.                                                   *)
LEMMA CountAdditive ==
  ASSUME BindInv, PartialsOK, NEW e \in Row
  PROVE  Additive(CountOf(e))
<1> DEFINE w == CountOf(e)
<1>1. SummandsOK
  BY SummandsAreBags
<1>2. w \in Weights /\ \A r \in Row : w[r] = Copies(e, Summands(r))
  BY <1>1, CountWeights
<1> HIDE DEF w
<1>3. ASSUME NEW m \in DOMAIN summands
      PROVE  w[m] = w[computes[m].src1] + w[computes[m].src2]
  <2> DEFINE a == computes[m].src1
             b == computes[m].src2
  <2>1. m \in DOMAIN computes /\ summands[m] = Summands(a) (+) Summands(b)
    BY DEF PartialsOK, PartialOK
  <2>2. m \in Row /\ a \in Row /\ b \in Row
    BY <2>1, ResultRows
  <2> HIDE DEF a, b
  <2>3. Summands(a) \in RowBags /\ Summands(b) \in RowBags
    BY <1>1, <2>2 DEF SummandsOK
  <2> DEFINE sa == Summands(a)
             sb == Summands(b)
  <2>4. sa \in RowBags /\ sb \in RowBags /\ summands[m] = sa (+) sb
    BY <2>1, <2>3
  <2>5. Summands(m) = summands[m]
    BY DEF Summands
  <2>6. w[m] = Copies(e, summands[m]) /\ w[a] = Copies(e, sa) /\ w[b] = Copies(e, sb)
    BY <1>2, <2>2, <2>5
  <2> HIDE DEF sa, sb
  <2>7. Copies(e, sa (+) sb) = Copies(e, sa) + Copies(e, sb)
    BY <2>4, BagAdd
  <2> QED BY <2>4, <2>6, <2>7 DEF a, b
<1> QED BY <1>2, <1>3 DEF Additive, w

(* Weight 1 for what is no row of the array.                               *)
OffRows == [r \in Row |-> IF r \in Rows THEN 0 ELSE 1]

(* So is being no row of the array: what a list without weight of this     *)
(* kind joins are rows.                                                    *)
LEMMA OffRowsAdditive ==
  ASSUME BindInv, PartialsOK
  PROVE  Additive(OffRows) /\ \A r \in Row : OffRows[r] = 0 <=> r \in Rows
<1>1. \A r \in Row : OffRows[r] = IF r \in Rows THEN 0 ELSE 1
  BY DEF OffRows
<1>2. OffRows \in Weights
  BY DEF OffRows, Weights
<1>3. ASSUME NEW m \in DOMAIN summands
      PROVE  OffRows[m] = 0 /\ OffRows[computes[m].src1] = 0 /\ OffRows[computes[m].src2] = 0
  <2>1. m \in DOMAIN computes
    BY DEF PartialsOK, PartialOK
  <2>2. m \in Rows /\ computes[m].src1 \in Rows /\ computes[m].src2 \in Rows /\ Rows \subseteq Row
    BY <2>1, ResultRows
  <2> QED BY <1>1, <2>2
<1> QED BY <1>1, <1>2, <1>3 DEF Additive

(* Adding two by two: each row counts once, or each row counts one and the *)
(* rows of a later step count double.                                      *)
Balanced(w, factor) ==
  \/ factor = 1 /\ Additive(w)
  \/ factor = 2 /\ w = One

(* What weights a tree is counted with, and by which factor a state        *)
(* multiplies.                                                             *)
LEMMA BalancedFacts ==
  ASSUME NEW w, NEW factor, Balanced(w, factor)
  PROVE  /\ w \in Weights /\ factor \in 1..2
         /\ factor = 1 => Additive(w)
         /\ factor = 2 => \A r \in Row : w[r] = 1
BY DEF Balanced, Additive, One, Weights

(* Weights for the next state are weights for this one.                    *)
LEMMA BalancedBefore ==
  ASSUME PartialsOK, Grown, NEW w, NEW factor, Balanced(w, factor)'
  PROVE  Balanced(w, factor)
<1>1. (factor = 1 /\ Additive(w)') \/ (factor = 2 /\ w = One)
  BY DEF Balanced, One
<1> QED BY <1>1, AdditiveBefore DEF Balanced

(* A known result and its operands.                                        *)
LEMMA KnownBalanced ==
  ASSUME BindInv, PartialsOK, NEW w, NEW factor, Balanced(w, factor), NEW m \in DOMAIN addMap
  PROVE  /\ m \in Row /\ addMap[m][1] \in Row /\ addMap[m][2] \in Row
         /\ factor * w[m] = w[addMap[m][1]] + w[addMap[m][2]]
<1>1. m \in DOMAIN summands /\ addMap[m] = <<computes[m].src1, computes[m].src2>>
  BY DEF PartialsOK, KnownOK
<1>2. m \in DOMAIN computes
  BY <1>1 DEF PartialsOK, PartialOK
<1>3. m \in Row /\ computes[m].src1 \in Row /\ computes[m].src2 \in Row
  BY <1>2, ResultRows
<1>4. addMap[m][1] = computes[m].src1 /\ addMap[m][2] = computes[m].src2
  BY <1>1
<1>5. CASE factor = 1
  <2>1. w[m] = w[computes[m].src1] + w[computes[m].src2] /\ w \in [Row -> Nat]
    BY <1>1, <1>5, BalancedFacts DEF Additive, Weights
  <2> DEFINE x == w[m]
             y == w[computes[m].src1] + w[computes[m].src2]
  <2>2. x = y /\ x \in Nat
    BY <1>3, <2>1
  <2> HIDE DEF x, y
  <2>3. factor * x = y
    BY <1>5, <2>2
  <2> QED BY <1>3, <1>4, <2>3 DEF x, y
<1>6. CASE factor = 2
  <2>1. w[m] = 1 /\ w[computes[m].src1] = 1 /\ w[computes[m].src2] = 1
    BY <1>3, <1>6, BalancedFacts
  <2> QED BY <1>3, <1>4, <1>6, <2>1
<1> QED BY <1>5, <1>6, BalancedFacts DEF Balanced
-----------------------------------------------------------------------------
(* d[t] is what joins the tree from step t on: the rows of byTime b at     *)
(* step t, and factor times what joins later.                              *)
Chain(w, factor, b, d, n) ==
  /\ d \in [0..n -> Nat]
  /\ \A t \in 0..(n - 1) : d[t] = Total(w, ListAt(b, t)) + factor * d[t + 1]

(* One step further along the tree.                                        *)
LEMMA ChainStep ==
  ASSUME NEW w, NEW factor, NEW b, NEW d, NEW n \in Nat, Chain(w, factor, b, d, n),
         NEW t \in 0..(n - 1)
  PROVE  /\ d[t] = Total(w, ListAt(b, t)) + factor * d[t + 1]
         /\ d[t] \in Nat /\ d[t + 1] \in Nat
<1>1. t + 1 \in 0..n /\ t \in 0..n
  OBVIOUS
<1>2. d[t] \in Nat /\ d[t + 1] \in Nat
  BY <1>1 DEF Chain
<1> QED BY <1>2 DEF Chain

(* Only the weights of the rows that join matter.                          *)
LEMMA ChainSame ==
  ASSUME NEW w, NEW factor, NEW b, NEW c, NEW d, NEW n \in Nat, Chain(w, factor, b, d, n),
         \A t \in 0..(n - 1) : Total(w, ListAt(b, t)) = Total(w, ListAt(c, t))
  PROVE  Chain(w, factor, c, d, n)
BY DEF Chain

(* One step more.                                                          *)
LEMMA ChainLonger ==
  ASSUME NEW w \in Weights, NEW factor \in 1..2, NEW b, NEW d, NEW n \in Nat,
         Chain(w, factor, b, d, n), NEW last \in Nat,
         d[n] = Total(w, ListAt(b, n)) + factor * last
  PROVE  \E e : /\ Chain(w, factor, b, e, n + 1)
                /\ e[0] = d[0] /\ e[n + 1] = last
<1> DEFINE e == [t \in 0..(n + 1) |-> IF t = n + 1 THEN last ELSE d[t]]
<1>1. \A t \in 0..n : e[t] = d[t] /\ d[t] \in Nat
  BY DEF Chain
<1>2. e[n + 1] = last
  OBVIOUS
<1>3. e \in [0..(n + 1) -> Nat]
  <2>1. ASSUME NEW t \in 0..(n + 1)
        PROVE  (IF t = n + 1 THEN last ELSE d[t]) \in Nat
    <3>1. t # n + 1 => t \in 0..n
      OBVIOUS
    <3> QED BY <1>1, <3>1
  <2> QED BY <2>1
<1> HIDE DEF e
<1>4. ASSUME NEW t \in 0..((n + 1) - 1)
      PROVE  e[t] = Total(w, ListAt(b, t)) + factor * e[t + 1]
  <2>1. CASE t = n
    BY <1>1, <1>2, <2>1
  <2>2. CASE t # n
    <3>1. t \in 0..(n - 1) /\ t + 1 \in 0..n /\ t \in 0..n
      BY <2>2
    <3>2. d[t] = Total(w, ListAt(b, t)) + factor * d[t + 1]
      BY <3>1 DEF Chain
    <3> QED BY <1>1, <3>1, <3>2
  <2> QED BY <2>1, <2>2
<1>5. Chain(w, factor, b, e, n + 1)
  BY <1>3, <1>4 DEF Chain
<1> QED BY <1>1, <1>2, <1>5

(* What is tree.byTime when the second half begins.                        *)
Allocated(w, factor, list, b, n) ==
  \E d : /\ Chain(w, factor, b, d, n)
         /\ d[0] = Total(w, list)
         /\ d[n] = Total(w, ListAt(b, n))

(* Steps at which nothing joins.                                           *)
LEMMA AllocatedLonger ==
  ASSUME NEW w \in Weights, NEW factor \in 1..2, NEW list, NEW b, NEW n \in Nat,
         Allocated(w, factor, list, b, n), NEW steps \in Nat, n <= steps,
         \A t \in (n + 1)..steps : ListAt(b, t) = << >>
  PROVE  Allocated(w, factor, list, b, steps)
<1> DEFINE P == {m \in Nat : n + m <= steps => Allocated(w, factor, list, b, n + m)}
<1>1. 0 \in P
  OBVIOUS
<1>2. ASSUME NEW m \in Nat, m \in P
      PROVE  m + 1 \in P
  <2> SUFFICES ASSUME n + (m + 1) <= steps
               PROVE  Allocated(w, factor, list, b, n + (m + 1))
    OBVIOUS
  <2> DEFINE k == n + m
  <2>0. k \in Nat /\ k + 1 = n + (m + 1) /\ k + 1 \in (n + 1)..steps
    OBVIOUS
  <2>1. Allocated(w, factor, list, b, k)
    BY <1>2
  <2> HIDE DEF k, P
  <2>2. PICK d : /\ Chain(w, factor, b, d, k) /\ d[0] = Total(w, list)
                 /\ d[k] = Total(w, ListAt(b, k))
    BY <2>1 DEF Allocated
  <2>3. d[k] = Total(w, ListAt(b, k)) + factor * 0
    <3>1. d[k] \in Nat
      BY <2>0, <2>2 DEF Chain
    <3>2. factor * 0 = 0
      OBVIOUS
    <3> QED BY <2>2, <3>1, <3>2
  <2>4. PICK e : Chain(w, factor, b, e, k + 1) /\ e[0] = d[0] /\ e[k + 1] = 0
    BY <2>0, <2>2, <2>3, ChainLonger
  <2>5. ListAt(b, k + 1) = << >>
    BY <2>0
  <2>6. Total(w, ListAt(b, k + 1)) = 0
    BY <2>5, TotalEmpty
  <2>7. Allocated(w, factor, list, b, k + 1)
    BY <2>2, <2>4, <2>6 DEF Allocated
  <2> QED BY <2>0, <2>7
<1>3. \A m \in Nat : m \in P
  <2> HIDE DEF P
  <2>1. P \subseteq Nat
    BY DEF P
  <2> QED BY <1>1, <1>2, Induction
<1>4. steps - n \in Nat /\ n + (steps - n) = steps
  OBVIOUS
<1>5. steps - n \in P
  BY <1>3, <1>4
<1> QED BY <1>4, <1>5

(* If nothing of weight joins from a step on, nothing is due there.        *)
LEMMA ChainZero ==
  ASSUME NEW w \in Weights, NEW b, NEW d, NEW n \in Nat, Chain(w, 1, b, d, n),
         NEW from \in 0..n, d[n] = Total(w, ListAt(b, n)),
         \A t \in from..n : Total(w, ListAt(b, t)) = 0
  PROVE  d[from] = 0
<1> DEFINE P == {m \in Nat : from <= n - m => d[n - m] = 0}
<1>1. 0 \in P
  OBVIOUS
<1>2. ASSUME NEW m \in Nat, m \in P
      PROVE  m + 1 \in P
  <2> SUFFICES ASSUME from <= n - (m + 1)
               PROVE  d[n - (m + 1)] = 0
    OBVIOUS
  <2> DEFINE t == n - (m + 1)
  <2>1. t \in 0..(n - 1) /\ t + 1 = n - m /\ from <= n - m /\ t \in from..n
    OBVIOUS
  <2>2. d[t + 1] = 0
    BY <1>2, <2>1
  <2> HIDE DEF t
  <2>3. d[t] = Total(w, ListAt(b, t)) + 1 * d[t + 1]
    BY <2>1, ChainStep
  <2>4. Total(w, ListAt(b, t)) = 0
    BY <2>1
  <2>5. d[t] = 0
    BY <2>2, <2>3, <2>4
  <2> QED BY <2>5 DEF t
<1>3. \A m \in Nat : m \in P
  <2> HIDE DEF P
  <2>1. P \subseteq Nat
    BY DEF P
  <2> QED BY <1>1, <1>2, Induction
<1>4. n - from \in Nat /\ n - (n - from) = from
  OBVIOUS
<1>5. n - from \in P
  BY <1>3, <1>4
<1> QED BY <1>4, <1>5
-----------------------------------------------------------------------------
(* Lists of the same rows are the same list.                               *)
LEMMA SameRows ==
  ASSUME NEW s \in Seq(Row), NEW t \in Seq(Row), Len(s) = Len(t),
         \A i \in 1..Len(s) : s[i] = t[i]
  PROVE  s = t
<1>1. s \in [1..Len(s) -> Row] /\ t \in [1..Len(s) -> Row]
  OBVIOUS
<1> QED BY <1>1

(* The list t is s without its l-th row.                                   *)
Removed(s, l, t) ==
  /\ t \in Seq(Row)
  /\ Len(t) = Len(s) - 1
  /\ \A i \in 1..Len(t) : t[i] = IF i < l THEN s[i] ELSE s[i + 1]

(* std::list::remove takes one row out of a list without repetitions.      *)
LEMMA WithoutOne ==
  ASSUME NEW s \in Seq(Row), Distinct(s), NEW l \in 1..Len(s)
  PROVE  Removed(s, l, Without(s, s[l]))
<1> DEFINE others == Row \ {s[l]}
<1>1. PICK f :
         /\ f[0] = << >>
         /\ \A k \in 1..Len(s) :
              f[k] = IF s[k] \in others THEN Append(f[k - 1], s[k]) ELSE f[k - 1]
         /\ \A k \in 0..Len(s) : f[k] \in Seq(Row)
         /\ Among(s, others) = f[Len(s)]
  <2> HIDE DEF others
  <2> QED BY AmongUnfold
<1>2. \A k \in 1..Len(s) : s[k] \in others <=> k # l
  <2>1. \A k \in 1..Len(s) : s[k] \in Row /\ (s[k] = s[l] => k = l)
    BY DEF Distinct
  <2> QED BY <2>1
<1>3. \A k \in 1..Len(s) : f[k] = IF k # l THEN Append(f[k - 1], s[k]) ELSE f[k - 1]
  <2> HIDE DEF others
  <2> QED BY <1>1, <1>2
<1> DEFINE Upto1(k) == /\ Len(f[k]) = IF k < l THEN k ELSE k - 1
                       /\ \A i \in 1..Len(f[k]) : f[k][i] = IF i < l THEN s[i] ELSE s[i + 1]
           P == {k \in Nat : k <= Len(s) => Upto1(k)}
<1>4. 0 \in P
  <2>1. Len(f[0]) = 0
    BY <1>1
  <2>2. Upto1(0)
    BY <2>1
  <2> HIDE DEF Upto1
  <2> QED BY <2>2
<1>5. ASSUME NEW k \in Nat, k \in P
      PROVE  k + 1 \in P
  <2> SUFFICES ASSUME k + 1 <= Len(s)
               PROVE  Upto1(k + 1)
    OBVIOUS
  <2>1. Upto1(k)
    BY <1>5
  <2>2. k + 1 \in 1..Len(s) /\ (k + 1) - 1 = k /\ k \in 0..Len(s) /\ Len(s) \in Nat
    OBVIOUS
  <2>3. f[k + 1] = IF k + 1 # l THEN Append(f[k], s[k + 1]) ELSE f[k]
    BY <1>3, <2>2
  <2>4. f[k] \in Seq(Row) /\ s[k + 1] \in Row
    BY <1>1, <2>2
  <2> DEFINE g == f[k]
             h == f[k + 1]
             x == s[k + 1]
  <2>5. /\ g \in Seq(Row) /\ x \in Row /\ h = IF k + 1 # l THEN Append(g, x) ELSE g
        /\ Len(g) = IF k < l THEN k ELSE k - 1
        /\ \A i \in 1..Len(g) : g[i] = IF i < l THEN s[i] ELSE s[i + 1]
    BY <2>1, <2>3, <2>4
  <2>5a. x = s[k + 1]
    OBVIOUS
  <2> HIDE DEF g, h, x, P
  <2>6. /\ Len(h) = IF k + 1 < l THEN k + 1 ELSE k
        /\ \A i \in 1..Len(h) : h[i] = IF i < l THEN s[i] ELSE s[i + 1]
    <3>1. CASE k + 1 = l
      <4>1. h = g /\ Len(g) = k
        BY <2>5, <3>1
      <4> QED BY <2>5, <3>1, <4>1
    <3>2. CASE k + 1 # l
      <4>1. h = Append(g, x)
        BY <2>5, <3>2
      <4>2. Len(h) = Len(g) + 1 /\ h[Len(g) + 1] = x /\ \A i \in 1..Len(g) : h[i] = g[i]
        BY <2>5, <4>1
      <4>3. CASE k + 1 < l
        <5>1. Len(g) = k
          BY <2>5, <4>3
        <5> QED BY <2>5, <2>5a, <4>2, <4>3, <5>1
      <4>4. CASE k + 1 > l
        <5>1. Len(g) = k - 1 /\ ~(k < l)
          BY <2>5, <4>4
        <5>2. Len(h) = k /\ h[k] = s[k + 1]
          BY <2>5a, <4>2, <5>1
        <5>3. ASSUME NEW i \in 1..Len(h)
              PROVE  h[i] = IF i < l THEN s[i] ELSE s[i + 1]
          <6>1. CASE i = k
            BY <4>4, <5>1, <5>2, <6>1
          <6>2. CASE i # k
            <7>1. i \in 1..Len(g)
              BY <5>1, <5>2, <6>2
            <7> QED BY <2>5, <4>2, <7>1
          <6> QED BY <6>1, <6>2
        <5> QED BY <4>4, <5>2, <5>3
      <4> QED BY <3>2, <4>3, <4>4
    <3> QED BY <3>1, <3>2
  <2>7. Len(f[k + 1]) = IF k + 1 < l THEN k + 1 ELSE (k + 1) - 1
    BY <2>6 DEF h
  <2> QED BY <2>6, <2>7 DEF h
<1>6. Len(s) \in P
  <2> HIDE DEF P
  <2>1. \A k \in Nat : k \in P
    BY <1>4, <1>5, Induction
  <2> QED BY <2>1
<1>7. Upto1(Len(s))
  BY <1>6
<1>8. Len(f[Len(s)]) = Len(s) - 1
  BY <1>7
<1>9. f[Len(s)] \in Seq(Row)
  BY <1>1
<1>10. Without(s, s[l]) = f[Len(s)]
  BY <1>1 DEF Without
<1> QED BY <1>7, <1>8, <1>9, <1>10 DEF Removed

(* The rows from k on: the k-th, a later one, and what is left of them.    *)
LEMMA RemovedTotal ==
  ASSUME NEW w \in Weights, NEW s \in Seq(Row), NEW l \in 1..Len(s), NEW k \in 1..(l - 1),
         NEW t, Removed(s, l, t)
  PROVE  Total(w, SubSeq(s, k, Len(s)))
           = w[s[k]] + w[s[l]] + Total(w, SubSeq(t, k + 1, Len(t)))
<1> DEFINE n == Len(s)
<1>1. /\ t \in Seq(Row) /\ Len(t) = n - 1 /\ n \in Nat /\ l \in 2..n /\ k + 1 <= l
      /\ k \in 1..n /\ n - 1 \in Nat
  BY DEF Removed
<1>2. \A i \in 1..(n - 1) : t[i] = IF i < l THEN s[i] ELSE s[i + 1]
  BY <1>1 DEF Removed
<1>2a. n = Len(s)
  OBVIOUS
<1> HIDE DEF n
<1>3. Total(w, SubSeq(s, k, n)) = w[s[k]] + Total(w, SubSeq(s, k + 1, n))
  <2>1. k \in 1..Len(s) /\ n \in k..Len(s)
    BY <1>1, <1>2a
  <2> QED BY <2>1, TotalFirst
<1>4. Total(w, SubSeq(s, k + 1, n))
        = Total(w, SubSeq(s, k + 1, l - 1)) + Total(w, SubSeq(s, l, n))
  <2>1. /\ k + 1 \in 1..(Len(s) + 1) /\ l - 1 \in ((k + 1) - 1)..Len(s)
        /\ n \in (l - 1)..Len(s) /\ (l - 1) + 1 = l
    BY <1>1, <1>2a
  <2> QED BY <2>1, TotalPieces
<1>5. Total(w, SubSeq(s, l, n)) = w[s[l]] + Total(w, SubSeq(s, l + 1, n))
  <2>1. l \in 1..Len(s) /\ n \in l..Len(s)
    BY <1>1, <1>2a
  <2> QED BY <2>1, TotalFirst
<1>6. Total(w, SubSeq(t, k + 1, n - 1))
        = Total(w, SubSeq(t, k + 1, l - 1)) + Total(w, SubSeq(t, l, n - 1))
  <2>1. /\ k + 1 \in 1..(Len(t) + 1) /\ l - 1 \in ((k + 1) - 1)..Len(t)
        /\ n - 1 \in (l - 1)..Len(t) /\ (l - 1) + 1 = l
    BY <1>1
  <2> QED BY <1>1, <2>1, TotalPieces
<1>7. SubSeq(t, k + 1, l - 1) = SubSeq(s, k + 1, l - 1)
  <2> DEFINE u == SubSeq(t, k + 1, l - 1)
             v == SubSeq(s, k + 1, l - 1)
  <2>0. k + 1 \in Nat \ {0} /\ l - 1 \in Int /\ l - 1 <= Len(t) /\ l - 1 <= Len(s)
    BY <1>1, <1>2a
  <2>1. /\ u \in Seq(Row) /\ Len(u) = (IF k + 1 <= l - 1 THEN (l - 1) - (k + 1) + 1 ELSE 0)
        /\ \A i \in 1..((l - 1) - (k + 1) + 1) : u[i] = t[(k + 1) + i - 1]
    BY <1>1, <2>0, PieceType
  <2>2. /\ v \in Seq(Row) /\ Len(v) = (IF k + 1 <= l - 1 THEN (l - 1) - (k + 1) + 1 ELSE 0)
        /\ \A i \in 1..((l - 1) - (k + 1) + 1) : v[i] = s[(k + 1) + i - 1]
    BY <2>0, PieceType
  <2> HIDE DEF u, v
  <2>3. ASSUME NEW i \in 1..Len(u)
        PROVE  u[i] = v[i]
    <3>1. i \in 1..((l - 1) - (k + 1) + 1) /\ (k + 1) + i - 1 \in 1..(n - 1)
          /\ (k + 1) + i - 1 < l
      BY <1>1, <2>1
    <3>2. t[(k + 1) + i - 1] = s[(k + 1) + i - 1]
      BY <1>2, <3>1
    <3> QED BY <2>1, <2>2, <3>1, <3>2
  <2>4. u = v
    BY <2>1, <2>2, <2>3, SameRows
  <2> QED BY <2>4 DEF u, v
<1>8. SubSeq(t, l, n - 1) = SubSeq(s, l + 1, n)
  <2> DEFINE u == SubSeq(t, l, n - 1)
             v == SubSeq(s, l + 1, n)
  <2>0. l \in Nat \ {0} /\ l + 1 \in Nat \ {0} /\ n - 1 \in Int /\ n \in Int
        /\ n - 1 <= Len(t) /\ n <= Len(s)
    BY <1>1, <1>2a
  <2>1. /\ u \in Seq(Row) /\ Len(u) = (IF l <= n - 1 THEN (n - 1) - l + 1 ELSE 0)
        /\ \A i \in 1..((n - 1) - l + 1) : u[i] = t[l + i - 1]
    <3>1. t \in Seq(Row)
      BY <1>1, Zenon
    <3> QED BY <2>0, <3>1, PieceType, Zenon
  <2>2. /\ v \in Seq(Row) /\ Len(v) = (IF l + 1 <= n THEN n - (l + 1) + 1 ELSE 0)
        /\ \A i \in 1..(n - (l + 1) + 1) : v[i] = s[(l + 1) + i - 1]
    BY <2>0, PieceType
  <2> HIDE DEF u, v
  <2>3. ASSUME NEW i \in 1..Len(u)
        PROVE  u[i] = v[i]
    <3>1. i \in 1..((n - 1) - l + 1) /\ i \in 1..(n - (l + 1) + 1)
          /\ l + i - 1 \in 1..(n - 1) /\ ~(l + i - 1 < l) /\ (l + i - 1) + 1 = (l + 1) + i - 1
      BY <1>1, <2>1
    <3>2. t[l + i - 1] = s[(l + i - 1) + 1]
      BY <1>2, <3>1
    <3> QED BY <2>1, <2>2, <3>1, <3>2
  <2>4. Len(u) = Len(v)
    BY <1>1, <2>1, <2>2
  <2>5. u = v
    BY <2>1, <2>2, <2>3, <2>4, SameRows
  <2> QED BY <2>5 DEF u, v
<1> DEFINE a == Total(w, SubSeq(s, k + 1, l - 1))
           b == Total(w, SubSeq(s, l + 1, n))
<1>9. a \in Nat /\ b \in Nat
  <2>1. SubSeq(s, k + 1, l - 1) \in Seq(Row) /\ SubSeq(s, l + 1, n) \in Seq(Row)
    <3>1. /\ k + 1 \in Nat \ {0} /\ l - 1 \in Int /\ l - 1 <= Len(s)
          /\ l + 1 \in Nat \ {0} /\ n \in Int /\ n <= Len(s)
      BY <1>1, <1>2a
    <3> QED BY <3>1, PieceType
  <2> QED BY <2>1, TotalNat
<1>10. w[s[k]] \in Nat /\ w[s[l]] \in Nat
  <2>1. s[k] \in Row /\ s[l] \in Row
    BY <1>1, <1>2a
  <2> QED BY <2>1 DEF Weights
<1> DEFINE wk == w[s[k]]
           wl == w[s[l]]
           tot == Total(w, SubSeq(s, k, n))
           rest == Total(w, SubSeq(t, k + 1, n - 1))
<1>11. tot = wk + (a + (wl + b)) /\ rest = a + b
  BY <1>3, <1>4, <1>5, <1>6, <1>7, <1>8
<1>12. a \in Nat /\ b \in Nat /\ wk \in Nat /\ wl \in Nat
  BY <1>9, <1>10
<1> HIDE DEF a, b, wk, wl, tot, rest
<1>13. tot = wk + wl + rest
  BY <1>11, <1>12
<1> QED BY <1>1, <1>2a, <1>13 DEF wk, wl, tot, rest
-----------------------------------------------------------------------------
(* What all rows of two lists have in common, those of a list that weighs  *)
(* as much as both for every weight have too.                              *)
LEMMA MembersOf ==
  ASSUME NEW a \in Seq(Row), NEW b \in Seq(Row), NEW c \in Seq(Row),
         \A w \in Weights : Total(w, a) = Total(w, b) + Total(w, c),
         NEW S, \A k \in 1..Len(b) : b[k] \in S, \A k \in 1..Len(c) : c[k] \in S
  PROVE  \A k \in 1..Len(a) : a[k] \in S
<1> DEFINE out == [r \in Row |-> IF r \in S THEN 0 ELSE 1]
<1>1. out \in Weights
  BY DEF Weights
<1>2. (\A k \in 1..Len(b) : out[b[k]] = 0) /\ (\A k \in 1..Len(c) : out[c[k]] = 0)
  OBVIOUS
<1>3. \A r \in Row : out[r] = 0 => r \in S
  OBVIOUS
<1>4. \A r \in Row : out[r] \in Nat
  OBVIOUS
<1> HIDE DEF out
<1>5. Total(out, b) = 0 /\ Total(out, c) = 0
  BY <1>1, <1>2, TotalZero
<1>6. Total(out, a) = 0
  BY <1>1, <1>5
<1>7. ASSUME NEW k \in 1..Len(a)
      PROVE  a[k] \in S
  <2>1. out[a[k]] <= 0
    BY <1>1, <1>6, TotalBounds
  <2>2. a[k] \in Row
    OBVIOUS
  <2>3. out[a[k]] = 0
    BY <1>4, <2>1, <2>2
  <2> QED BY <1>3, <2>2, <2>3
<1> QED BY <1>7

(* Every row of the list is in the set.                                    *)
AllIn(list, S) == \A j \in 1..Len(list) : list[j] \in S

(* The rows that are written by state B, and those that are no rows yet.   *)
By(B) == {r \in Row : r \in Rows => FSM2[r] <= B}

(* The results addMap has.                                                 *)
KnownRows == DOMAIN addMap

(* A list that weighs what another does has its rows.                      *)
LEMMA InSame ==
  ASSUME NEW a \in Seq(Row), NEW b \in Seq(Row),
         \A w \in Weights : Total(w, a) = Total(w, b), NEW S, AllIn(b, S)
  PROVE  AllIn(a, S)
<1>1. << >> \in Seq(Row)
  OBVIOUS
<1> DEFINE c == << >>
<1>2. c \in Seq(Row) /\ Len(c) = 0
  BY <1>1
<1>3. \A w \in Weights : Total(w, a) = Total(w, b) + Total(w, c)
  <2> SUFFICES ASSUME NEW w \in Weights
               PROVE  Total(w, a) = Total(w, b) + Total(w, c)
    OBVIOUS
  <2>1. Total(w, c) = 0
    BY TotalEmpty
  <2>2. Total(w, b) \in Nat
    BY TotalNat
  <2>3. Total(w, a) = Total(w, b)
    OBVIOUS
  <2> HIDE DEF c
  <2> QED BY <2>1, <2>2, <2>3
<1> HIDE DEF c
<1>4. (\A k \in 1..Len(b) : b[k] \in S) /\ (\A k \in 1..Len(c) : c[k] \in S)
  BY <1>2 DEF AllIn
<1>5. \A k \in 1..Len(a) : a[k] \in S
  BY <1>2, <1>3, <1>4, MembersOf
<1> QED BY <1>5 DEF AllIn

(* A list that weighs what two lists do has their rows.                    *)
LEMMA InMerged ==
  ASSUME NEW a \in Seq(Row), NEW b \in Seq(Row), NEW c \in Seq(Row),
         \A w \in Weights : Total(w, a) = Total(w, b) + Total(w, c),
         NEW S, AllIn(b, S), AllIn(c, S)
  PROVE  AllIn(a, S)
BY MembersOf DEF AllIn

-----------------------------------------------------------------------------
(* What the passes leave for the steps, from which the tree is built.      *)
JoinOK(list, steps, b) ==
  /\ steps = Steps(Len(list))
  /\ \A t \in 1..steps : AllIn(ListAt(b, t), KnownRows)
  /\ \A w, factor : Balanced(w, factor) => Allocated(w, factor, list, b, steps)
  /\ \A B \in Nat : AllIn(list, By(B)) =>
       \A t \in 0..steps : AllIn(ListAt(b, t), By(B + t))

(* The initial order changes nothing of this.                              *)
LEMMA JoinReorganised ==
  ASSUME NEW list \in Seq(Row), NEW steps \in Nat, NEW b \in ByTimes, JoinOK(list, steps, b),
         NEW c, c = [b EXCEPT ![0] = Reorganise(@)]
  PROVE  JoinOK(list, steps, c)
<1>1. \A t \in Nat \ {0} : ListAt(c, t) = ListAt(b, t)
  BY DEF ListAt, ByTimes
<1>2. ListAt(b, 0) \in Seq(Row) /\ ListAt(c, 0) \in Seq(Row)
      /\ \A w \in Weights : Total(w, ListAt(c, 0)) = Total(w, ListAt(b, 0))
  <2>1. ListAt(b, 0) \in Seq(Row)
    BY ListAtType
  <2>2. CASE 0 \in DOMAIN b
    <3>1. ListAt(c, 0) = Reorganise(ListAt(b, 0))
      BY <2>2 DEF ListAt, ByTimes
    <3> DEFINE l == ListAt(b, 0)
    <3>2. l \in Seq(Row) /\ ListAt(c, 0) = Reorganise(l)
      BY <2>1, <3>1
    <3> HIDE DEF l
    <3>3. \A w \in Weights : Reorganise(l) \in Seq(Row) /\ Total(w, Reorganise(l)) = Total(w, l)
      BY <3>2, ReorganiseTotal
    <3>4. Reorganise(l) \in Seq(Row)
      BY <3>2, ReorganiseType
    <3> QED BY <2>1, <3>2, <3>3, <3>4 DEF l
  <2>3. CASE 0 \notin DOMAIN b
    <3>1. c = b
      BY <2>3 DEF ByTimes
    <3> QED BY <2>1, <3>1
  <2> QED BY <2>2, <2>3
<1>3. ASSUME NEW w \in Weights, NEW t \in Nat
      PROVE  Total(w, ListAt(c, t)) = Total(w, ListAt(b, t))
  BY <1>1, <1>2
<1>4. ASSUME NEW t \in 1..steps
      PROVE  AllIn(ListAt(c, t), KnownRows)
  <2>1. t \in Nat \ {0}
    OBVIOUS
  <2>2. ListAt(c, t) = ListAt(b, t)
    BY <1>1, <2>1
  <2>3. AllIn(ListAt(b, t), KnownRows)
    BY DEF JoinOK
  <2> QED BY <2>2, <2>3, Zenon
<1>5. ASSUME NEW w, NEW factor, Balanced(w, factor)
      PROVE  Allocated(w, factor, list, c, steps)
  <2>1. w \in Weights
    BY <1>5, BalancedFacts
  <2>2. PICK d : /\ Chain(w, factor, b, d, steps) /\ d[0] = Total(w, list)
                 /\ d[steps] = Total(w, ListAt(b, steps))
    BY <1>5 DEF JoinOK, Allocated
  <2>3. ASSUME NEW t \in 0..(steps - 1)
        PROVE  Total(w, ListAt(b, t)) = Total(w, ListAt(c, t))
    <3>1. t \in Nat
      OBVIOUS
    <3> QED BY <1>3, <2>1, <3>1, Zenon
  <2>4. Chain(w, factor, c, d, steps)
    BY <2>2, <2>3, ChainSame
  <2>5. Total(w, ListAt(b, steps)) = Total(w, ListAt(c, steps))
    BY <1>3, <2>1
  <2> QED BY <2>2, <2>4, <2>5 DEF Allocated
<1>6. ASSUME NEW B \in Nat, AllIn(list, By(B)), NEW t \in 0..steps
      PROVE  AllIn(ListAt(c, t), By(B + t))
  <2>1. AllIn(ListAt(b, t), By(B + t))
    BY <1>6 DEF JoinOK
  <2>2. CASE t = 0
    <3> DEFINE u == ListAt(b, t)
               v == ListAt(c, t)
    <3>1. u \in Seq(Row) /\ v \in Seq(Row) /\ \A w \in Weights : Total(w, v) = Total(w, u)
      BY <1>2, <2>2
    <3>2. AllIn(u, By(B + t))
      BY <2>1
    <3> HIDE DEF u, v
    <3>3. AllIn(v, By(B + t))
      BY <3>1, <3>2, InSame
    <3> QED BY <3>3 DEF v
  <2>3. CASE t # 0
    <3>0. t \in Nat \ {0}
      BY <2>3
    <3>1. ListAt(c, t) = ListAt(b, t)
      BY <1>1, <3>0, Zenon
    <3> QED BY <2>1, <3>1, Zenon
  <2> QED BY <2>2, <2>3
<1>7. steps = Steps(Len(list))
  BY DEF JoinOK
<1> QED BY <1>4, <1>5, <1>6, <1>7 DEF JoinOK
-----------------------------------------------------------------------------
(* The step whose rows come next.                                          *)
From(t) == IF t.phase = "bind" THEN t.step + 1 ELSE t.step

(* How many rows there are, and would be if the rows of the later steps    *)
(* had not been added yet.                                                 *)
Due(t, c) ==
  IF t.phase = "bind" THEN (Len(t.currTimeAccList) + t.p - 1) + 2 * c[t.step + 1]
  ELSE Len(t.currTimeAccList) + c[t.step]

(* The rows at hand and those that wait are rows of the array.             *)
MergeRows(t) ==
  /\ t.steps = Steps(Len(t.list)) /\ t.step <= t.steps
  /\ \A k \in 1..t.steps : AllIn(ListAt(t.byTime, k), KnownRows)
  /\ t.phase = "merge" /\ t.step = 0 => t.currTimeAccList = << >>
  /\ t.phase = "bind" \/ t.step > 0 => AllIn(t.currTimeAccList, Rows) /\ AllIn(t.list, Rows)
  /\ t.phase = "bind" =>
       /\ t.step < t.steps
       /\ t.p <= t.pairs + 1
       /\ t.pairs = (Len(t.currTimeAccList) + t.p - 1) \div 2

(* The rows there are and those still to join are those of the list.       *)
MergeWeighs(t, w) ==
  \E d : /\ Chain(w, 1, t.byTime, d, t.steps)
         /\ d[t.steps] = Total(w, ListAt(t.byTime, t.steps))
         /\ Total(w, t.list) = Total(w, t.currTimeAccList) + d[From(t)]

(* There are as many steps left as it takes to add them all.               *)
MergeCounts(t) ==
  \E c : /\ Chain(One, 2, t.byTime, c, t.steps)
         /\ c[t.steps] = Total(One, ListAt(t.byTime, t.steps))
         /\ Due(t, c) \in Nat \ {0}
         /\ Steps(Due(t, c)) = t.steps - t.step

(* Each step takes two states at most.                                     *)
MergeBelow(t, B) ==
  /\ \A k \in 1..t.steps : AllIn(ListAt(t.byTime, k), By(B + k))
  /\ t.phase = "merge" /\ t.step = 0 => AllIn(ListAt(t.byTime, 0), By(B))
  /\ t.phase = "merge" => AllIn(t.currTimeAccList, By(B + 2 * t.step))
  /\ t.phase = "bind" =>
       \A j \in 1..Len(t.currTimeAccList) :
         t.currTimeAccList[j] \in
           By(IF j < t.p THEN B + 2 * t.step + 2 ELSE B + 2 * t.step)

(* A tree whose pairs are being bound is in order.                         *)
MergeOK(t) ==
  /\ MergeRows(t)
  /\ \A w : Additive(w) => MergeWeighs(t, w)
  /\ MergeCounts(t)
  /\ \A B \in Nat : AllIn(t.list, By(B)) => MergeBelow(t, B)

(* Rows are counted with weight one, doubled from step to step.            *)
LEMMA OneWeight == One \in Weights /\ Balanced(One, 2)
BY DEF One, Weights, Row, Balanced

(* The number of steps of a list that is not empty.                        *)
LEMMA StepsOfLength ==
  ASSUME NEW list \in Seq(Row), Len(list) # 0
  PROVE  Steps(Len(list)) \in Nat
BY StepsHalve

(* The steps begin.                                                        *)
LEMMA JoinedOK ==
  ASSUME NEW t \in TreeState, Len(t.list) # 0, t.phase = "merge", t.step = 0,
         t.currTimeAccList = << >>, JoinOK(t.list, t.steps, t.byTime)
  PROVE  MergeOK(t)
<1> DEFINE b == t.byTime
           steps == t.steps
           list == t.list
<1>0. /\ list \in Seq(Row) /\ steps \in Nat /\ b \in ByTimes /\ Len(list) \in Nat \ {0}
      /\ steps = t.steps /\ b = t.byTime /\ list = t.list
  BY DEF TreeState
<1> HIDE DEF b, steps, list
<1>1. JoinOK(list, steps, b)
  BY <1>0
<1>2. /\ steps = Steps(Len(list))
      /\ \A k \in 1..steps : AllIn(ListAt(b, k), KnownRows)
  BY <1>1 DEF JoinOK
<1>3. MergeRows(t)
  BY <1>0, <1>2 DEF MergeRows
<1>4. ASSUME NEW w, Additive(w)
      PROVE  MergeWeighs(t, w)
  <2>1. Balanced(w, 1) /\ w \in Weights
    BY <1>4 DEF Balanced, Additive
  <2>2. PICK d : /\ Chain(w, 1, b, d, steps) /\ d[0] = Total(w, list)
                 /\ d[steps] = Total(w, ListAt(b, steps))
    BY <1>1, <2>1 DEF JoinOK, Allocated
  <2>3. Total(w, t.currTimeAccList) = 0
    BY <2>1, TotalEmpty
  <2>4. Total(w, list) \in Nat
    BY <1>0, <2>1, TotalNat
  <2>5. From(t) = 0
    BY DEF From
  <2>6. Total(w, list) = Total(w, t.currTimeAccList) + d[From(t)]
    BY <2>2, <2>3, <2>4, <2>5
  <2> QED BY <1>0, <2>2, <2>6 DEF MergeWeighs
<1>5. MergeCounts(t)
  <2>1. PICK c : /\ Chain(One, 2, b, c, steps) /\ c[0] = Total(One, list)
                 /\ c[steps] = Total(One, ListAt(b, steps))
    BY <1>1, OneWeight DEF JoinOK, Allocated
  <2>2. c[0] = Len(list)
    BY <1>0, <2>1, TotalLength
  <2>3. Len(t.currTimeAccList) = 0
    OBVIOUS
  <2>4. Due(t, c) = Len(list)
    BY <1>0, <2>2, <2>3 DEF Due
  <2>5. Steps(Due(t, c)) = steps - t.step
    BY <1>0, <1>2, <2>4
  <2> QED BY <1>0, <2>1, <2>4, <2>5 DEF MergeCounts
<1>6. ASSUME NEW B \in Nat, AllIn(list, By(B))
      PROVE  MergeBelow(t, B)
  <2>1. \A k \in 0..steps : AllIn(ListAt(b, k), By(B + k))
    BY <1>1, <1>6 DEF JoinOK
  <2>2. ASSUME NEW k \in 1..steps
        PROVE  AllIn(ListAt(b, k), By(B + k))
    <3>1. k \in 0..steps
      BY <1>0
    <3> QED BY <2>1, <3>1, Zenon
  <2>3. AllIn(ListAt(b, 0), By(B))
    <3>1. 0 \in 0..steps /\ B + 0 = B
      BY <1>0
    <3>2. AllIn(ListAt(b, 0), By(B + 0))
      BY <2>1, <3>1, Zenon
    <3> QED BY <3>1, <3>2
  <2>4. AllIn(t.currTimeAccList, By(B + 2 * t.step))
    BY DEF AllIn
  <2> QED BY <1>0, <2>2, <2>3, <2>4 DEF MergeBelow
<1> QED BY <1>0, <1>3, <1>4, <1>5, <1>6 DEF MergeOK

(* The second half begins with the rows as performAccBinding sorted them   *)
(* (LiMBinder.cpp:595-628).                                                *)
LEMMA AllocateOK ==
  ASSUME NEW t \in TreeState, NEW byTime \in ByTimes, Len(t.list) # 0, t.step = 0,
         t.currTimeAccList = << >>, JoinOK(t.list, t.steps, byTime)
  PROVE  MergeOK(Allocate(t, byTime))
<1> DEFINE b == [byTime EXCEPT ![0] = Reorganise(@)]
           c == IF Len(ListAt(byTime, 0)) = Len(t.list) THEN b ELSE byTime
           a == Allocate(t, byTime)
<1>1. t.list \in Seq(Row) /\ t.steps \in Nat
  BY DEF TreeState
<1>2. JoinOK(t.list, t.steps, b)
  <2>1. b = [byTime EXCEPT ![0] = Reorganise(@)]
    OBVIOUS
  <2> HIDE DEF b
  <2> QED BY <1>1, <2>1, JoinReorganised
<1>3. a = [t EXCEPT !.phase = "merge", !.byTime = c]
  BY DEF Allocate
<1>4. a \in TreeState
  BY AllocateType
<1>5. c = b \/ c = byTime
  OBVIOUS
<1> HIDE DEF b, c, a
<1>6. JoinOK(t.list, t.steps, c)
  BY <1>2, <1>5
<1>7. /\ a.list = t.list /\ a.steps = t.steps /\ a.phase = "merge" /\ a.step = 0
      /\ a.currTimeAccList = << >> /\ a.byTime = c
  BY <1>3 DEF TreeState
<1>8. JoinOK(a.list, a.steps, a.byTime) /\ Len(a.list) # 0
  BY <1>6, <1>7
<1>9. MergeOK(a)
  BY <1>4, <1>7, <1>8, JoinedOK
<1> QED BY <1>9 DEF a
-----------------------------------------------------------------------------
(* The rows the pass has still to look at.                                 *)
Waiting(t) == SubSeq(t.currList, t.k, Len(t.currList))

(* A pass of the search for known results: where it stands.                *)
ReuseRows(t) ==
  /\ optimise
  /\ t.steps = Steps(Len(t.list)) /\ t.time < t.steps
  /\ DOMAIN t.byTime = 0..(t.time - 1)
  /\ t.k <= Len(t.currList) + 1
  /\ ~t.isReduceable => t.nextList = << >>
  /\ t.step = 0 /\ t.currTimeAccList = << >>
  /\ Distinct(t.currList) /\ Distinct(t.nextList)

(* Every list but those of the first pass has results only, and no row     *)
(* that waits is in one that was found.                                    *)
ReuseKnown(t) ==
  /\ AllIn(t.nextList, KnownRows)
  /\ t.time > 0 => AllIn(t.currList, KnownRows) /\ AllIn(t.remainList, KnownRows)
  /\ \A k \in 1..(t.time - 1) : AllIn(t.byTime[k], KnownRows)
  /\ \A j \in 1..Len(t.nextList), l \in t.k..Len(t.currList) :
       /\ addMap[t.nextList[j]][1] # t.currList[l]
       /\ addMap[t.nextList[j]][2] # t.currList[l]

(* The rows it has and those that wait weigh what the list does.           *)
ReuseWeighs(t, w, factor) ==
  \E d : /\ Chain(w, factor, t.byTime, d, t.time)
         /\ d[0] = Total(w, t.list)
         /\ d[t.time] = Total(w, t.remainList) + factor * Total(w, t.nextList)
                          + Total(w, Waiting(t))

(* A pass is one state later than the one before.                          *)
ReuseBelow(t, B) ==
  /\ AllIn(t.currList, By(B + t.time)) /\ AllIn(t.remainList, By(B + t.time))
  /\ AllIn(t.nextList, By(B + t.time + 1))
  /\ \A k \in 0..(t.time - 1) : AllIn(t.byTime[k], By(B + k))

(* A tree whose list is searched for known results is in order.            *)
ReuseOK(t) ==
  /\ ReuseRows(t)
  /\ ReuseKnown(t)
  /\ \A w, factor : Balanced(w, factor) => ReuseWeighs(t, w, factor)
  /\ \A B \in Nat : AllIn(t.list, By(B)) => ReuseBelow(t, B)

(* A tree is in order.                                                     *)
TreeFits(t) == IF t.phase = "reuse" THEN ReuseOK(t) ELSE MergeOK(t)

(* A new tree is in order, with and without the search for known results.  *)
LEMMA NewTreeFits ==
  ASSUME NEW list \in Seq(Row), Len(list) # 0, Sound(list), optimise \in BOOLEAN
  PROVE  TreeFits(NewTree(list))
<1> DEFINE t == [phase |-> "reuse", list |-> list, steps |-> Steps(Len(list)),
            currList |-> list, nextList |-> << >>, remainList |-> << >>,
            k |-> 1, isReduceable |-> FALSE, time |-> 0, byTime |-> EmptyMap,
            step |-> 0, currTimeAccList |-> << >>, p |-> 1, pairs |-> 0]
           b == [time \in {0} |-> list]
<1>1. Steps(Len(list)) \in Nat
  BY StepsHalve
<1>2. EmptyMap \in ByTimes
  <2>1. EmptyMap \in [{} -> Seq(Row)]
    BY DEF EmptyMap
  <2>2. {} \in SUBSET Nat
    OBVIOUS
  <2> QED BY <2>1, <2>2, Zenon DEF ByTimes
<1>3. b \in ByTimes
  <2>1. b \in [{0} -> Seq(Row)]
    OBVIOUS
  <2>2. {0} \in SUBSET Nat
    OBVIOUS
  <2> QED BY <2>1, <2>2, Zenon DEF ByTimes
<1>4. t \in TreeState
  BY <1>1, <1>2 DEF TreeState
<1>5. NewTree(list) = IF optimise /\ t.steps > 0 THEN t ELSE Allocate(t, b)
  BY DEF NewTree
<1>6. /\ t.phase = "reuse" /\ t.list = list /\ t.steps = Steps(Len(list))
      /\ t.currList = list /\ t.nextList = << >> /\ t.remainList = << >>
      /\ t.k = 1 /\ t.isReduceable = FALSE /\ t.time = 0 /\ t.byTime = EmptyMap
      /\ t.step = 0 /\ t.currTimeAccList = << >>
  OBVIOUS
<1>7. DOMAIN b = {0} /\ b[0] = list
  OBVIOUS
<1> HIDE DEF t, b
<1>8. ASSUME optimise, t.steps > 0
      PROVE  ReuseOK(t)
  <2>1. ReuseRows(t)
    <3>1. Distinct(list)
      BY <1>8 DEF Sound
    <3>2. Distinct(<< >>)
      BY DEF Distinct
    <3>3. DOMAIN EmptyMap = 0..(0 - 1)
      BY DEF EmptyMap
    <3> QED BY <1>6, <1>8, <3>1, <3>2, <3>3 DEF ReuseRows
  <2>2. ReuseKnown(t)
    BY <1>6 DEF ReuseKnown, AllIn
  <2>3. ASSUME NEW w, NEW factor, Balanced(w, factor)
        PROVE  ReuseWeighs(t, w, factor)
    <3>1. w \in Weights /\ factor \in 1..2
      BY <2>3, BalancedFacts
    <3> DEFINE n == Total(w, list)
               d == [x \in {0} |-> n]
    <3>2. n \in Nat
      BY <3>1, TotalNat
    <3>3. Total(w, << >>) = 0
      BY <3>1, TotalEmpty
    <3>4. Total(w, Waiting(t)) = n
      BY <1>6, <3>1, TotalWhole DEF Waiting
    <3>5. 0..0 = {0} /\ 0..(0 - 1) = {}
      OBVIOUS
    <3> HIDE DEF n
    <3>6. d \in [0..0 -> Nat] /\ d[0] = n
      BY <3>2, <3>5
    <3> HIDE DEF d
    <3>7. Chain(w, factor, t.byTime, d, 0)
      BY <3>5, <3>6 DEF Chain
    <3>8. factor * 0 = 0
      BY <3>1
    <3>9. d[0] = Total(w, << >>) + factor * Total(w, << >>) + Total(w, Waiting(t))
      BY <3>2, <3>3, <3>4, <3>6, <3>8
    <3>10. Total(w, t.remainList) = Total(w, << >>) /\ Total(w, t.nextList) = Total(w, << >>)
      BY <1>6
    <3>11. d[0] = Total(w, t.remainList) + factor * Total(w, t.nextList)
                  + Total(w, Waiting(t))
      BY <3>9, <3>10
    <3>12. d[0] = Total(w, t.list)
      BY <1>6, <3>6 DEF n
    <3> QED BY <1>6, <3>7, <3>11, <3>12 DEF ReuseWeighs
  <2>4. ASSUME NEW B \in Nat, AllIn(list, By(B))
        PROVE  ReuseBelow(t, B)
    <3>1. B + 0 = B
      OBVIOUS
    <3>2. AllIn(<< >>, By(B)) /\ AllIn(<< >>, By(B + 0 + 1))
      BY DEF AllIn
    <3> QED BY <1>6, <2>4, <3>1, <3>2 DEF ReuseBelow
  <2> QED BY <1>6, <2>1, <2>2, <2>3, <2>4 DEF ReuseOK
<1>9. JoinOK(t.list, t.steps, b)
  <2> DEFINE steps == t.steps
  <2>0. steps \in Nat /\ steps = Steps(Len(list))
    BY <1>1, <1>6
  <2> HIDE DEF steps
  <2>1. ListAt(b, 0) = list /\ \A x \in Nat \ {0} : ListAt(b, x) = << >>
    BY <1>7 DEF ListAt
  <2>2. \A x \in 1..steps : AllIn(ListAt(b, x), KnownRows)
    <3>1. AllIn(<< >>, KnownRows)
      BY DEF AllIn
    <3> SUFFICES ASSUME NEW x \in 1..steps
                 PROVE  AllIn(ListAt(b, x), KnownRows)
      OBVIOUS
    <3>2. ListAt(b, x) = << >>
      BY <2>1
    <3> QED BY <3>1, <3>2
  <2>3. ASSUME NEW w, NEW factor, Balanced(w, factor)
        PROVE  Allocated(w, factor, list, b, steps)
    <3>1. w \in Weights /\ factor \in 1..2
      BY <2>3, BalancedFacts
    <3> DEFINE n == Total(w, list)
               d == [x \in {0} |-> n]
    <3>2. n \in Nat
      BY <3>1, TotalNat
    <3>5. 0..0 = {0} /\ 0..(0 - 1) = {}
      OBVIOUS
    <3> HIDE DEF n
    <3>6. d \in [0..0 -> Nat] /\ d[0] = n
      BY <3>2, <3>5
    <3> HIDE DEF d
    <3>7. Chain(w, factor, b, d, 0)
      BY <3>5, <3>6 DEF Chain
    <3>8. d[0] = Total(w, ListAt(b, 0)) /\ d[0] = Total(w, list)
      BY <2>1, <3>6 DEF n
    <3>9. Allocated(w, factor, list, b, 0)
      BY <3>7, <3>8 DEF Allocated
    <3>10. \A x \in (0 + 1)..steps : ListAt(b, x) = << >>
      BY <2>1
    <3>11. 0 \in Nat /\ 0 <= steps
      BY <2>0
    <3> QED BY <2>0, <3>1, <3>9, <3>10, <3>11, AllocatedLonger
  <2>4. ASSUME NEW B \in Nat, AllIn(list, By(B)), NEW x \in 0..steps
        PROVE  AllIn(ListAt(b, x), By(B + x))
    <3>1. CASE x = 0
      <4>1. ListAt(b, x) = list /\ B + x = B
        BY <2>1, <3>1
      <4> QED BY <2>4, <4>1, Zenon
    <3>2. CASE x # 0
      <4>1. x \in Nat \ {0}
        BY <3>2
      <4>2. ListAt(b, x) = << >>
        BY <2>1, <4>1
      <4>3. AllIn(<< >>, By(B + x))
        BY DEF AllIn
      <4> QED BY <4>2, <4>3
    <3> QED BY <3>1, <3>2
  <2>5. JoinOK(list, steps, b)
    BY <2>0, <2>2, <2>3, <2>4 DEF JoinOK
  <2> QED BY <1>6, <2>5 DEF steps
<1>10. MergeOK(Allocate(t, b))
  BY <1>3, <1>4, <1>6, <1>9, AllocateOK
<1>11. Allocate(t, b).phase = "merge"
  BY <1>3, <1>4, AllocateType
<1> QED BY <1>5, <1>6, <1>8, <1>10, <1>11 DEF TreeFits
-----------------------------------------------------------------------------
(* A row more in a list.                                                   *)
LEMMA InAppend ==
  ASSUME NEW s \in Seq(Row), NEW x \in Row, NEW S, AllIn(s, S), x \in S
  PROVE  AllIn(Append(s, x), S)
<1> DEFINE t == Append(s, x)
<1>1. t \in Seq(Row) /\ Len(t) = Len(s) + 1 /\ t[Len(s) + 1] = x
      /\ \A j \in 1..Len(s) : t[j] = s[j]
  BY AppendProperties
<1> HIDE DEF t
<1>2. ASSUME NEW j \in 1..Len(t)
      PROVE  t[j] \in S
  <2>1. j = Len(s) + 1 \/ j \in 1..Len(s)
    BY <1>1
  <2> QED BY <1>1, <2>1 DEF AllIn
<1> QED BY <1>2 DEF AllIn, t

(* The types of a tree whose passes go on.                                 *)
LEMMA ReuseTypes ==
  ASSUME TypeAcc, Summing
  PROVE  /\ tree \in TreeState /\ Len(tree.list) # 0
         /\ tree.list \in Seq(Row) /\ tree.steps \in Nat /\ tree.currList \in Seq(Row)
         /\ tree.nextList \in Seq(Row) /\ tree.remainList \in Seq(Row)
         /\ tree.k \in Nat \ {0} /\ tree.time \in Nat /\ tree.step \in Nat
         /\ tree.currTimeAccList \in Seq(Row) /\ tree.p \in Nat \ {0} /\ tree.pairs \in Nat
         /\ tree.byTime \in ByTimes /\ tree.isReduceable \in BOOLEAN
         /\ tree.phase \in {"reuse", "merge", "bind"}
BY DEF TypeAcc, AccTypes, TreeOK, TreeState

(* A row without a partner goes on in the list that remains                *)
(* (LiMBinder.cpp:561-565).                                                *)
LEMMA KeepRowFits ==
  ASSUME TypeAcc, KeepRow, ReuseOK(tree)
  PROVE  TreeFits(tree')
<1> DEFINE x == tree.currList[tree.k]
           later == tree.k + 1
           kept == Append(tree.remainList, x)
           u == [tree EXCEPT !.remainList = kept, !.k = later]
<1>0. Summing /\ tree.phase = "reuse" /\ tree.k <= Len(tree.currList) /\ tree' = u
  BY DEF KeepRow, Reducing
<1>1. /\ tree \in TreeState
      /\ tree.currList \in Seq(Row)
      /\ tree.nextList \in Seq(Row) /\ tree.remainList \in Seq(Row)
      /\ tree.k \in Nat \ {0} /\ tree.time \in Nat
  BY <1>0, ReuseTypes
<1>2. later = tree.k + 1 /\ later \in Nat /\ tree.k \in 1..Len(tree.currList)
  BY <1>0, <1>1
<1>3. x = tree.currList[tree.k] /\ x \in Row
  BY <1>1, <1>2
<1>3a. kept = Append(tree.remainList, x)
  OBVIOUS
<1> HIDE DEF later, x, kept
<1>4a. /\ u.phase = "reuse" /\ u.list = tree.list /\ u.steps = tree.steps
      /\ u.currList = tree.currList /\ u.nextList = tree.nextList
      /\ u.remainList = kept /\ u.k = later
      /\ u.isReduceable = tree.isReduceable /\ u.time = tree.time
      /\ u.byTime = tree.byTime /\ u.step = tree.step
      /\ u.currTimeAccList = tree.currTimeAccList
  BY <1>0, <1>1 DEF TreeState
<1> HIDE DEF u
<1>4. /\ u.phase = "reuse" /\ u.list = tree.list /\ u.steps = tree.steps
      /\ u.currList = tree.currList /\ u.nextList = tree.nextList
      /\ u.remainList = Append(tree.remainList, x) /\ u.k = later
      /\ u.isReduceable = tree.isReduceable /\ u.time = tree.time
      /\ u.byTime = tree.byTime /\ u.step = tree.step
      /\ u.currTimeAccList = tree.currTimeAccList
  BY <1>4a, <1>3a
<1>5. ReuseRows(u)
  <2>1. ReuseRows(tree)
    BY DEF ReuseOK
  <2>2. u.k <= Len(u.currList) + 1
    BY <1>1, <1>2, <1>4
  <2> QED BY <1>4, <2>1, <2>2 DEF ReuseRows
<1>6. ReuseKnown(u)
  <2>1. ReuseKnown(tree)
    BY DEF ReuseOK
  <2>2. u.time > 0 => AllIn(u.remainList, KnownRows)
    <3> SUFFICES ASSUME tree.time > 0
                 PROVE  AllIn(u.remainList, KnownRows)
      BY <1>4
    <3>1. AllIn(tree.currList, KnownRows) /\ AllIn(tree.remainList, KnownRows)
      BY <2>1 DEF ReuseKnown
    <3>2. x \in KnownRows
      BY <1>2, <1>3, <3>1 DEF AllIn
    <3>3. AllIn(Append(tree.remainList, x), KnownRows)
      BY <1>1, <1>3, <3>1, <3>2, InAppend
    <3> QED BY <1>4, <3>3
  <2>3. ASSUME NEW j \in 1..Len(u.nextList), NEW l \in u.k..Len(u.currList)
        PROVE  /\ addMap[u.nextList[j]][1] # u.currList[l]
               /\ addMap[u.nextList[j]][2] # u.currList[l]
    <3>1. l \in tree.k..Len(tree.currList) /\ j \in 1..Len(tree.nextList)
      BY <1>1, <1>2, <1>4
    <3> QED BY <1>4, <2>1, <3>1 DEF ReuseKnown
  <2> QED BY <1>4, <2>1, <2>2, <2>3 DEF ReuseKnown
<1>7. ASSUME NEW w, NEW factor, Balanced(w, factor)
      PROVE  ReuseWeighs(u, w, factor)
  <2>1. w \in Weights /\ factor \in 1..2
    BY <1>7, BalancedFacts
  <2>2. PICK d :
         /\ Chain(w, factor, tree.byTime, d, tree.time) /\ d[0] = Total(w, tree.list)
         /\ d[tree.time] = Total(w, tree.remainList) + factor * Total(w, tree.nextList)
                             + Total(w, Waiting(tree))
    BY <1>7 DEF ReuseOK, ReuseWeighs
  <2>3. Total(w, Waiting(tree)) = w[x] + Total(w, Waiting(u))
    <3>1. Len(tree.currList) \in tree.k..Len(tree.currList)
      BY <1>1, <1>2
    <3>2. Total(w, SubSeq(tree.currList, tree.k, Len(tree.currList)))
            = w[tree.currList[tree.k]]
                + Total(w, SubSeq(tree.currList, tree.k + 1, Len(tree.currList)))
      BY <1>1, <1>2, <2>1, <3>1, TotalFirst
    <3> QED BY <1>2, <1>3, <1>4, <3>2 DEF Waiting
  <2>4. Total(w, u.remainList) = Total(w, tree.remainList) + w[x]
    BY <1>1, <1>3, <1>4, <2>1, TotalAppend
  <2>5. Waiting(u) \in Seq(Row)
    <3>1. later \in Nat \ {0} /\ Len(tree.currList) \in Int
      BY <1>1, <1>2
    <3> QED BY <1>1, <1>4, <3>1, PieceType DEF Waiting
  <2> DEFINE r == Total(w, tree.remainList)
             n == Total(w, tree.nextList)
             v == Total(w, Waiting(u))
             wx == w[x]
  <2>6. r \in Nat /\ n \in Nat /\ v \in Nat /\ wx \in Nat
    BY <1>1, <1>3, <2>1, <2>5, TotalNat DEF Weights
  <2>7. d[tree.time] = r + factor * n + (wx + v) /\ Total(w, u.remainList) = r + wx
    BY <2>2, <2>3, <2>4
  <2> HIDE DEF r, n, v, wx
  <2>8. d[tree.time] = Total(w, u.remainList) + factor * n + v
    <3> DEFINE fn == factor * n
    <3>1. fn \in Nat
      BY <2>1, <2>6
    <3>2. d[tree.time] = r + fn + (wx + v)
      BY <2>7
    <3> HIDE DEF fn
    <3>3. d[tree.time] = Total(w, u.remainList) + fn + v
      BY <2>6, <2>7, <3>1, <3>2
    <3> QED BY <3>3 DEF fn
  <2> QED BY <1>4, <2>2, <2>8 DEF ReuseWeighs, n, v
<1>8. ASSUME NEW B \in Nat, AllIn(u.list, By(B))
      PROVE  ReuseBelow(u, B)
  <2>1. ReuseBelow(tree, B)
    BY <1>4, <1>8 DEF ReuseOK
  <2>2. x \in By(B + tree.time)
    BY <1>2, <1>3, <2>1 DEF ReuseBelow, AllIn
  <2>3. AllIn(u.remainList, By(B + tree.time))
    BY <1>1, <1>3, <1>4, <2>1, <2>2, InAppend DEF ReuseBelow
  <2> QED BY <1>4, <2>1, <2>3 DEF ReuseBelow
<1> QED BY <1>0, <1>4, <1>5, <1>6, <1>7, <1>8 DEF TreeFits, ReuseOK
-----------------------------------------------------------------------------
(* A result known for two rows that differ has just these two operands.    *)
LEMMA AvailablePair ==
  ASSUME BindInv, PartialsOK, NEW a \in Row, NEW b \in Row, a # b,
         NEW m \in Available(a, b)
  PROVE  /\ m \in DOMAIN addMap /\ m \in Row /\ m \in Rows /\ m \in KnownRows
         /\ \/ addMap[m][1] = a /\ addMap[m][2] = b
            \/ addMap[m][1] = b /\ addMap[m][2] = a
         /\ \A w, factor : Balanced(w, factor) => factor * w[m] = w[a] + w[b]
         /\ \A B \in Nat : a \in By(B) /\ b \in By(B) => m \in By(B + 1)
<1>1. m \in DOMAIN addMap /\ Listed(addMap[m], a) /\ Listed(addMap[m], b)
  BY DEF Available
<1>2. /\ m \in DOMAIN summands /\ addMap[m] = <<computes[m].src1, computes[m].src2>>
      /\ FSM2[m] = Maximum(FSM2[computes[m].src1], FSM2[computes[m].src2]) + 1
  BY <1>1 DEF PartialsOK, KnownOK
<1>3. m \in DOMAIN computes
  BY <1>2 DEF PartialsOK, PartialOK
<1> DEFINE x == computes[m].src1
           y == computes[m].src2
<1>4. /\ m \in Rows /\ x \in Rows /\ y \in Rows /\ Rows \subseteq Row
      /\ FSM2[m] \in Nat /\ FSM2[x] \in Nat /\ FSM2[y] \in Nat
  BY <1>3, ResultRows
<1>5. addMap[m] = <<x, y>> /\ FSM2[m] = Maximum(FSM2[x], FSM2[y]) + 1
  BY <1>2
<1> HIDE DEF x, y
<1>6. (a = x \/ a = y) /\ (b = x \/ b = y)
  BY <1>1, <1>5 DEF Listed
<1>7. addMap[m][1] = x /\ addMap[m][2] = y
  BY <1>5
<1>8. (x = a /\ y = b) \/ (x = b /\ y = a)
  BY <1>6
<1>9. ASSUME NEW w, NEW factor, Balanced(w, factor)
      PROVE  factor * w[m] = w[a] + w[b]
  <2>1. factor * w[m] = w[addMap[m][1]] + w[addMap[m][2]]
    BY <1>1, <1>9, KnownBalanced
  <2>2. factor * w[m] = w[x] + w[y]
    BY <1>7, <2>1
  <2>3. w \in Weights
    BY <1>9, BalancedFacts
  <2>4. w[x] \in Nat /\ w[y] \in Nat
    BY <1>4, <2>3 DEF Weights
  <2> QED BY <1>8, <2>2, <2>4
<1>10. ASSUME NEW B \in Nat, a \in By(B), b \in By(B)
       PROVE  m \in By(B + 1)
  <2>1. FSM2[x] <= B /\ FSM2[y] <= B
    BY <1>4, <1>8, <1>10 DEF By
  <2> DEFINE fx == FSM2[x]
             fy == FSM2[y]
             fm == FSM2[m]
  <2>2. fx \in Nat /\ fy \in Nat /\ fm \in Nat /\ fx <= B /\ fy <= B /\ fm = Maximum(fx, fy) + 1
    BY <1>4, <1>5, <2>1
  <2> HIDE DEF fx, fy, fm
  <2>3. fm <= B + 1
    BY <2>2 DEF Maximum
  <2> QED BY <1>4, <2>3 DEF By, fm
<1> QED BY <1>1, <1>4, <1>7, <1>8, <1>9, <1>10 DEF KnownRows

(* The list after row1 and a later row gave way to a result.               *)
LEMMA RemovedIn ==
  ASSUME NEW s \in Seq(Row), NEW l \in 1..Len(s), NEW t, Removed(s, l, t)
  PROVE  /\ t \in Seq(Row) /\ Len(t) = Len(s) - 1
         /\ \A i \in 1..Len(t) : \E j \in 1..Len(s) : j # l /\ i <= j /\ t[i] = s[j]
         /\ Distinct(s) => Distinct(t)
         /\ \A S : AllIn(s, S) => AllIn(t, S)
<1>1. /\ t \in Seq(Row) /\ Len(t) = Len(s) - 1 /\ Len(s) \in Nat
      /\ \A i \in 1..Len(t) : t[i] = IF i < l THEN s[i] ELSE s[i + 1]
  BY DEF Removed
<1>2. DOMAIN t = 1..Len(t) /\ DOMAIN s = 1..Len(s)
  BY <1>1
<1>3. ASSUME NEW i \in 1..Len(t)
      PROVE  \E j \in 1..Len(s) : j # l /\ i <= j /\ t[i] = s[j]
  <2>1. CASE i < l
    <3>1. i \in 1..Len(s) /\ i # l /\ i <= i /\ t[i] = s[i]
      BY <1>1, <2>1
    <3> QED BY <3>1
  <2>2. CASE ~(i < l)
    <3>1. i + 1 \in 1..Len(s) /\ i + 1 # l /\ i <= i + 1 /\ t[i] = s[i + 1]
      BY <1>1, <2>2
    <3> QED BY <3>1
  <2> QED BY <2>1, <2>2
<1>4. ASSUME Distinct(s), NEW i \in 1..Len(t), NEW j \in 1..Len(t), t[i] = t[j]
      PROVE  i = j
  <2>1. i \in 1..(Len(s) - 1) /\ j \in 1..(Len(s) - 1)
    BY <1>1
  <2> DEFINE p == IF i < l THEN i ELSE i + 1
             q == IF j < l THEN j ELSE j + 1
  <2>2. p \in 1..Len(s) /\ q \in 1..Len(s)
    BY <1>1, <2>1
  <2>3. t[i] = s[p] /\ t[j] = s[q]
    BY <1>1
  <2>4. p = q
    <3> HIDE DEF p, q
    <3> QED BY <1>2, <1>4, <2>2, <2>3 DEF Distinct
  <2> QED BY <2>1, <2>4
<1>5. Distinct(s) => Distinct(t)
  BY <1>2, <1>4 DEF Distinct
<1>6. ASSUME NEW S, AllIn(s, S)
      PROVE  AllIn(t, S)
  BY <1>3, <1>6 DEF AllIn
<1> QED BY <1>1, <1>3, <1>5, <1>6
-----------------------------------------------------------------------------
(* A pair is replaced by the row that already sums it: the row weighs what *)
(* both did (LiMBinder.cpp:541-553).                                       *)
LEMMA ReplacePairFits ==
  ASSUME BindInv, TypeAcc, PartialsOK, ReplacePair, ReuseOK(tree)
  PROVE  TreeFits(tree')
<1> DEFINE s == tree.currList
           k == tree.k
           l == FirstPartner(k)
           a == s[k]
           b == s[l]
           m == searchForResult(a, b)
           left == Without(s, b)
           found == Append(tree.nextList, m)
           later == k + 1
           u == [tree EXCEPT !.nextList = found, !.currList = left, !.k = later,
                             !.isReduceable = TRUE]
<1>0. Summing /\ tree.phase = "reuse" /\ k <= Len(s) /\ Partners(k) # {}
  BY DEF ReplacePair, Reducing
<1>1. /\ tree \in TreeState /\ s \in Seq(Row)
      /\ tree.nextList \in Seq(Row) /\ tree.remainList \in Seq(Row)
      /\ k \in Nat \ {0} /\ tree.time \in Nat
  BY <1>0, ReuseTypes
<1>2. Distinct(s) /\ Distinct(tree.nextList)
  BY DEF ReuseOK, ReuseRows
<1>3. l \in Partners(k) /\ l \in (k + 1)..Len(s)
  BY <1>0, <1>1, PartnerFacts
<1>4. tree' = u
  <2>1. tree' = [tree EXCEPT !.nextList = Append(@, m), !.currList = Without(@, b),
                             !.k = @ + 1, !.isReduceable = TRUE]
    BY DEF ReplacePair, FirstPartner
  <2> HIDE DEF m, b
  <2> QED BY <1>1, <2>1 DEF TreeState
<1>5. m \in Available(a, b)
  <2>1. Available(a, b) # {}
    BY <1>3 DEF Partners
  <2>2. AddMapOK
    BY DEF TypeAcc, AccTypes
  <2> HIDE DEF a, b
  <2> QED BY <2>1, <2>2, SearchFacts
<1>5a. s = tree.currList /\ k = tree.k /\ a = s[k] /\ b = s[l] /\ left = Without(s, b)
       /\ found = Append(tree.nextList, m) /\ later = k + 1
  OBVIOUS
<1> HIDE DEF s, k, l, m, later
<1>6. k \in 1..Len(s) /\ l \in 1..Len(s) /\ k \in 1..(l - 1) /\ k # l /\ k + 1 <= l
      /\ Len(s) \in Nat
  BY <1>0, <1>1, <1>3
<1>7. Removed(s, l, left)
  BY <1>1, <1>2, <1>6, WithoutOne
<1>8. a \in Row /\ b \in Row /\ a # b
  <2>1. s[k] # s[l]
    <3>1. k \in DOMAIN s /\ l \in DOMAIN s
      BY <1>1, <1>6
    <3> QED BY <1>2, <1>6, <3>1 DEF Distinct
  <2> QED BY <1>1, <1>6, <2>1
<1> HIDE DEF a, b, left, found
<1>9. /\ m \in Row /\ m \in KnownRows
      /\ \/ addMap[m][1] = a /\ addMap[m][2] = b
         \/ addMap[m][1] = b /\ addMap[m][2] = a
      /\ \A w, factor : Balanced(w, factor) => factor * w[m] = w[a] + w[b]
      /\ \A B \in Nat : a \in By(B) /\ b \in By(B) => m \in By(B + 1)
  BY <1>5, <1>8, AvailablePair
<1>10. /\ left \in Seq(Row) /\ Len(left) = Len(s) - 1
       /\ \A i \in 1..Len(left) : \E j \in 1..Len(s) : j # l /\ i <= j /\ left[i] = s[j]
       /\ Distinct(left)
       /\ \A S : AllIn(s, S) => AllIn(left, S)
  BY <1>1, <1>2, <1>6, <1>7, RemovedIn
<1>11. /\ found \in Seq(Row) /\ Len(found) = Len(tree.nextList) + 1
       /\ found[Len(tree.nextList) + 1] = m
       /\ \A j \in 1..Len(tree.nextList) : found[j] = tree.nextList[j]
  BY <1>1, <1>5a, <1>9, AppendProperties
<1>12. later \in Nat \ {0} /\ later <= Len(left) + 1
  BY <1>5a, <1>6, <1>10
<1>13. /\ u.phase = "reuse" /\ u.list = tree.list /\ u.steps = tree.steps
       /\ u.currList = left /\ u.nextList = found
       /\ u.remainList = tree.remainList /\ u.k = later
       /\ u.isReduceable = TRUE /\ u.time = tree.time
       /\ u.byTime = tree.byTime /\ u.step = tree.step
       /\ u.currTimeAccList = tree.currTimeAccList
  BY <1>0, <1>1 DEF TreeState
<1> HIDE DEF u
<1>14. ReuseKnown(tree)
  BY DEF ReuseOK
<1>15. Distinct(found)
  <2>1. ASSUME NEW j \in 1..Len(tree.nextList)
        PROVE  tree.nextList[j] # m
    <3>1. k \in tree.k..Len(tree.currList) /\ l \in tree.k..Len(tree.currList)
      BY <1>1, <1>5a, <1>6
    <3>2. addMap[tree.nextList[j]][1] # s[k] /\ addMap[tree.nextList[j]][1] # s[l]
      BY <1>5a, <1>14, <3>1 DEF ReuseKnown
    <3> QED BY <1>5a, <1>9, <3>2
  <2>2. DOMAIN found = 1..(Len(tree.nextList) + 1)
        /\ DOMAIN tree.nextList = 1..Len(tree.nextList) /\ Len(tree.nextList) \in Nat
    BY <1>1, <1>11
  <2>3. ASSUME NEW i \in DOMAIN found, NEW j \in DOMAIN found, found[i] = found[j]
        PROVE  i = j
    <3>1. CASE i \in 1..Len(tree.nextList) /\ j \in 1..Len(tree.nextList)
      <4>1. tree.nextList[i] = tree.nextList[j]
        BY <1>11, <2>3, <3>1
      <4> QED BY <1>2, <2>2, <3>1, <4>1 DEF Distinct
    <3>2. CASE i \notin 1..Len(tree.nextList) \/ j \notin 1..Len(tree.nextList)
      BY <1>11, <2>1, <2>2, <2>3, <3>2
    <3> QED BY <3>1, <3>2
  <2> QED BY <2>3 DEF Distinct
<1>16. ReuseRows(u)
  <2>1. ReuseRows(tree)
    BY DEF ReuseOK
  <2> QED BY <1>10, <1>12, <1>13, <1>15, <2>1 DEF ReuseRows
<1>17. ReuseKnown(u)
  <2>1. AllIn(u.nextList, KnownRows)
    <3>1. AllIn(tree.nextList, KnownRows)
      BY <1>14 DEF ReuseKnown
    <3> QED BY <1>1, <1>5a, <1>9, <1>13, <3>1, InAppend
  <2>2. u.time > 0 => AllIn(u.currList, KnownRows) /\ AllIn(u.remainList, KnownRows)
    BY <1>5a, <1>10, <1>13, <1>14 DEF ReuseKnown
  <2>3. \A i \in 1..(u.time - 1) : AllIn(u.byTime[i], KnownRows)
    BY <1>13, <1>14 DEF ReuseKnown
  <2>4. ASSUME NEW j \in 1..Len(u.nextList), NEW i \in u.k..Len(u.currList)
        PROVE  /\ addMap[u.nextList[j]][1] # u.currList[i]
               /\ addMap[u.nextList[j]][2] # u.currList[i]
    <3>1. i \in 1..Len(left) /\ i >= k + 1
      BY <1>5a, <1>6, <1>12, <1>13, <2>4
    <3>2. PICK n \in 1..Len(s) : n # l /\ i <= n /\ left[i] = s[n]
      BY <1>10, <3>1
    <3>3. n \in tree.k..Len(tree.currList) /\ n >= k + 1 /\ n # k
      BY <1>5a, <1>6, <3>1, <3>2
    <3>4. CASE j \in 1..Len(tree.nextList)
      <4>1. /\ addMap[tree.nextList[j]][1] # tree.currList[n]
            /\ addMap[tree.nextList[j]][2] # tree.currList[n]
        BY <1>14, <3>3, <3>4 DEF ReuseKnown
      <4> QED BY <1>5a, <1>11, <1>13, <3>2, <3>4, <4>1
    <3>5. CASE j \notin 1..Len(tree.nextList)
      <4>1. u.nextList[j] = m
        <5>1. j \in 1..(Len(tree.nextList) + 1) /\ Len(tree.nextList) \in Nat
          BY <1>1, <1>11, <1>13
        <5>2. j = Len(tree.nextList) + 1
          BY <3>5, <5>1
        <5> QED BY <1>11, <1>13, <5>2
      <4>2. s[n] # a /\ s[n] # b
        <5>1. n \in DOMAIN s /\ k \in DOMAIN s /\ l \in DOMAIN s
          BY <1>1, <1>6
        <5> QED BY <1>2, <1>5a, <3>2, <3>3, <5>1 DEF Distinct
      <4> QED BY <1>9, <1>13, <3>2, <4>1, <4>2
    <3> QED BY <3>4, <3>5
  <2> QED BY <2>1, <2>2, <2>3, <2>4 DEF ReuseKnown
<1>18. ASSUME NEW w, NEW factor, Balanced(w, factor)
       PROVE  ReuseWeighs(u, w, factor)
  <2>1. w \in Weights /\ factor \in 1..2
    BY <1>18, BalancedFacts
  <2>2. PICK d :
         /\ Chain(w, factor, tree.byTime, d, tree.time) /\ d[0] = Total(w, tree.list)
         /\ d[tree.time] = Total(w, tree.remainList) + factor * Total(w, tree.nextList)
                             + Total(w, Waiting(tree))
    BY <1>18 DEF ReuseOK, ReuseWeighs
  <2>3. Total(w, Waiting(tree)) = w[a] + w[b] + Total(w, Waiting(u))
    <3>1. Total(w, SubSeq(s, k, Len(s)))
            = w[s[k]] + w[s[l]] + Total(w, SubSeq(left, k + 1, Len(left)))
      BY <1>1, <1>6, <1>7, <2>1, RemovedTotal
    <3> QED BY <1>5a, <1>13, <3>1 DEF Waiting
  <2>4. Total(w, u.nextList) = Total(w, tree.nextList) + w[m]
    BY <1>1, <1>5a, <1>9, <1>13, <2>1, TotalAppend
  <2>5. Waiting(u) \in Seq(Row)
    <3>1. Len(left) \in Int
      BY <1>10
    <3> QED BY <1>10, <1>12, <1>13, <3>1, PieceType DEF Waiting
  <2>6. factor * w[m] = w[a] + w[b]
    BY <1>9, <1>18
  <2> DEFINE r == Total(w, tree.remainList)
             n == Total(w, tree.nextList)
             v == Total(w, Waiting(u))
             wm == w[m]
             wab == w[a] + w[b]
             new == Total(w, u.nextList)
             due == d[tree.time]
  <2>7. r \in Nat /\ n \in Nat /\ v \in Nat /\ wm \in Nat /\ wab \in Nat
    <3>1. w[m] \in Nat /\ w[a] \in Nat /\ w[b] \in Nat
      BY <1>8, <1>9, <2>1 DEF Weights
    <3>2. r \in Nat /\ n \in Nat /\ v \in Nat
      BY <1>1, <2>1, <2>5, TotalNat
    <3> QED BY <3>1, <3>2
  <2>8. due = r + factor * n + (wab + v) /\ new = n + wm /\ factor * wm = wab
    BY <2>2, <2>3, <2>4, <2>6
  <2> HIDE DEF r, n, v, wm, wab, new, due
  <2>9. due = r + factor * new + v
    <3>1. CASE factor = 1
      BY <2>7, <2>8, <3>1
    <3>2. CASE factor = 2
      BY <2>7, <2>8, <3>2
    <3> QED BY <2>1, <3>1, <3>2
  <2> QED BY <1>13, <2>2, <2>9 DEF ReuseWeighs, r, v, new, due
<1>19. ASSUME NEW B \in Nat, AllIn(u.list, By(B))
       PROVE  ReuseBelow(u, B)
  <2>1. ReuseBelow(tree, B)
    BY <1>13, <1>19 DEF ReuseOK
  <2>2. AllIn(s, By(B + tree.time)) /\ AllIn(tree.nextList, By(B + tree.time + 1))
    BY <1>5a, <2>1 DEF ReuseBelow
  <2>3. a \in By(B + tree.time) /\ b \in By(B + tree.time)
    BY <1>5a, <1>6, <2>2 DEF AllIn
  <2>4. m \in By(B + tree.time + 1)
    <3>1. B + tree.time \in Nat
      BY <1>1
    <3> QED BY <1>9, <2>3, <3>1
  <2>5. AllIn(u.nextList, By(B + tree.time + 1))
    BY <1>1, <1>5a, <1>9, <1>13, <2>2, <2>4, InAppend
  <2>6. AllIn(u.currList, By(B + tree.time))
    BY <1>10, <1>13, <2>2
  <2> QED BY <1>13, <2>1, <2>5, <2>6 DEF ReuseBelow
<1> QED BY <1>4, <1>13, <1>16, <1>17, <1>18, <1>19 DEF TreeFits, ReuseOK
-----------------------------------------------------------------------------
(* What a pass keeps is entered at the next free step.                     *)
LEMMA TimesInserted ==
  ASSUME NEW n \in Nat, NEW b, DOMAIN b = 0..(n - 1), NEW s, NEW e, e = Insert(b, n, s)
  PROVE  /\ DOMAIN e = 0..((n + 1) - 1)
         /\ \A t \in 0..(n - 1) : e[t] = b[t] /\ ListAt(e, t) = b[t] /\ ListAt(b, t) = b[t]
         /\ e[n] = s /\ ListAt(e, n) = s
         /\ \A t \in Nat : t > n => ListAt(e, t) = << >>
<1>1. DOMAIN e = (0..(n - 1)) \cup {n}
  BY DEF Insert
<1>2. (0..(n - 1)) \cup {n} = 0..((n + 1) - 1) /\ n \notin 0..(n - 1)
  OBVIOUS
<1>3. \A t \in 0..(n - 1) : e[t] = b[t]
  BY DEF Insert
<1>4. e[n] = s
  BY <1>2 DEF Insert
<1> QED BY <1>1, <1>2, <1>3, <1>4 DEF ListAt

(* A pass went over all its rows.                                          *)
PassDone(t) == t.phase = "reuse" /\ t.k > Len(t.currList)

(* What a pass leaves behind joins at its time, what it found goes on, one *)
(* step later.                                                             *)
LEMMA PassWeighs ==
  ASSUME NEW t \in TreeState, PassDone(t), ReuseOK(t), NEW w, NEW factor, Balanced(w, factor),
         NEW b, b = Insert(t.byTime, t.time, t.remainList)
  PROVE  \E d : /\ Chain(w, factor, b, d, t.time) /\ d[0] = Total(w, t.list)
                /\ d[t.time] = Total(w, ListAt(b, t.time)) + factor * Total(w, t.nextList)
<1>1. w \in Weights /\ factor \in 1..2
  BY BalancedFacts
<1>2. /\ t.time \in Nat /\ t.currList \in Seq(Row) /\ t.k \in Nat
      /\ t.remainList \in Seq(Row) /\ t.nextList \in Seq(Row)
  BY DEF TreeState
<1>3. PICK d : /\ Chain(w, factor, t.byTime, d, t.time) /\ d[0] = Total(w, t.list)
               /\ d[t.time] = Total(w, t.remainList) + factor * Total(w, t.nextList)
                                + Total(w, Waiting(t))
  BY DEF ReuseOK, ReuseWeighs
<1>4. Total(w, Waiting(t)) = 0
  <2>1. t.k \in Int /\ Len(t.currList) \in Int /\ Len(t.currList) < t.k
    BY <1>2 DEF PassDone
  <2> QED BY <1>1, <1>2, <2>1, TotalNothing DEF Waiting
<1>5. DOMAIN t.byTime = 0..(t.time - 1)
  BY DEF ReuseOK, ReuseRows
<1>6. /\ \A x \in 0..(t.time - 1) : ListAt(b, x) = ListAt(t.byTime, x)
      /\ ListAt(b, t.time) = t.remainList
  BY <1>2, <1>5, TimesInserted
<1>7. Chain(w, factor, b, d, t.time)
  BY <1>2, <1>3, <1>6, ChainSame
<1> DEFINE r == Total(w, t.remainList)
           fn == factor * Total(w, t.nextList)
<1>8. r \in Nat /\ fn \in Nat
  <2>1. Total(w, t.nextList) \in Nat /\ r \in Nat
    BY <1>1, <1>2, TotalNat
  <2> QED BY <1>1, <2>1
<1>9. d[t.time] = r + fn + 0
  BY <1>3, <1>4
<1> HIDE DEF r, fn
<1>10. d[t.time] = r + fn
  BY <1>8, <1>9
<1>11. d[t.time] = Total(w, ListAt(b, t.time)) + factor * Total(w, t.nextList)
  BY <1>6, <1>10 DEF r, fn
<1> QED BY <1>3, <1>7, <1>11

(* The chain of a list is known up to a step, where last is due.           *)
DueAt(w, factor, b, first, n, last) ==
  \E d : Chain(w, factor, b, d, n) /\ d[0] = first /\ d[n] = last

(* One step more of the tree is due.                                       *)
LEMMA DueLater ==
  ASSUME NEW w \in Weights, NEW factor \in 1..2, NEW b, NEW d, NEW n \in Nat,
         Chain(w, factor, b, d, n), NEW last \in Nat,
         d[n] = Total(w, ListAt(b, n)) + factor * last
  PROVE  DueAt(w, factor, b, d[0], n + 1, last)
<1>1. PICK e : Chain(w, factor, b, e, n + 1) /\ e[0] = d[0] /\ e[n + 1] = last
  BY ChainLonger
<1> QED BY <1>1 DEF DueAt

(* The chain goes on with what the pass reduced.                           *)
LEMMA PassWeighsOn ==
  ASSUME NEW t \in TreeState, PassDone(t), ReuseOK(t), NEW w, NEW factor, Balanced(w, factor),
         NEW b, b = Insert(t.byTime, t.time, t.remainList)
  PROVE  DueAt(w, factor, b, Total(w, t.list), t.time + 1, Total(w, t.nextList))
<1>1. w \in Weights /\ factor \in 1..2
  BY BalancedFacts
<1>2. t.time \in Nat /\ t.nextList \in Seq(Row)
  BY DEF TreeState
<1>3. PICK d :
        /\ Chain(w, factor, b, d, t.time) /\ d[0] = Total(w, t.list)
        /\ d[t.time] = Total(w, ListAt(b, t.time)) + factor * Total(w, t.nextList)
  BY PassWeighs
<1>4. Total(w, t.nextList) \in Nat
  BY <1>1, <1>2, TotalNat
<1>5. DueAt(w, factor, b, d[0], t.time + 1, Total(w, t.nextList))
  BY <1>1, <1>2, <1>3, <1>4, DueLater
<1> QED BY <1>3, <1>5 DEF DueAt

(* What the passes have entered so far, the last one included.             *)
LEMMA PassRows ==
  ASSUME NEW t \in TreeState, ReuseOK(t),
         NEW b, b = Insert(t.byTime, t.time, t.remainList)
  PROVE  /\ DOMAIN b = 0..((t.time + 1) - 1)
         /\ \A x \in 1..t.time : AllIn(b[x], KnownRows)
         /\ \A B \in Nat : AllIn(t.list, By(B)) =>
              \A x \in 0..t.time : AllIn(b[x], By(B + x))
         /\ \A x \in 0..t.time : ListAt(b, x) = b[x]
         /\ \A x \in Nat : x > t.time => ListAt(b, x) = << >>
<1>1. t.time \in Nat
  BY DEF TreeState
<1>2. DOMAIN t.byTime = 0..(t.time - 1) /\ ReuseKnown(t)
  BY DEF ReuseOK, ReuseRows
<1>3. /\ DOMAIN b = 0..((t.time + 1) - 1)
      /\ \A x \in 0..(t.time - 1) : b[x] = t.byTime[x]
      /\ b[t.time] = t.remainList
      /\ \A x \in 0..(t.time - 1) : ListAt(b, x) = b[x]
      /\ ListAt(b, t.time) = b[t.time]
      /\ \A x \in Nat : x > t.time => ListAt(b, x) = << >>
  BY <1>1, <1>2, TimesInserted
<1>4. ASSUME NEW x \in 1..t.time
      PROVE  AllIn(b[x], KnownRows)
  <2>1. CASE x = t.time
    BY <1>1, <1>2, <1>3, <2>1 DEF ReuseKnown
  <2>2. CASE x # t.time
    <3>1. x \in 1..(t.time - 1) /\ x \in 0..(t.time - 1)
      BY <1>1, <2>2
    <3> QED BY <1>2, <1>3, <3>1 DEF ReuseKnown
  <2> QED BY <2>1, <2>2
<1>5. ASSUME NEW B \in Nat, AllIn(t.list, By(B)), NEW x \in 0..t.time
      PROVE  AllIn(b[x], By(B + x)) /\ ListAt(b, x) = b[x]
  <2>1. ReuseBelow(t, B)
    BY <1>5 DEF ReuseOK
  <2>2. CASE x = t.time
    BY <1>3, <2>1, <2>2 DEF ReuseBelow
  <2>3. CASE x # t.time
    <3>1. x \in 0..(t.time - 1)
      BY <1>1, <2>3
    <3> QED BY <1>3, <2>1, <3>1 DEF ReuseBelow
  <2> QED BY <2>2, <2>3
<1>6. ASSUME NEW x \in 0..t.time
      PROVE  ListAt(b, x) = b[x]
  <2>1. x = t.time \/ x \in 0..(t.time - 1)
    BY <1>1
  <2> QED BY <1>3, <2>1
<1> QED BY <1>3, <1>4, <1>5, <1>6
-----------------------------------------------------------------------------
(* Another pass begins with the results of the last one.                   *)
LEMMA NextPassFits ==
  ASSUME NEW t \in TreeState, PassDone(t), ReuseOK(t), t.time + 1 < t.steps,
         NEW b, b = Insert(t.byTime, t.time, t.remainList), NEW u \in TreeState,
         u.phase = "reuse", u.list = t.list, u.steps = t.steps,
         u.currList = t.nextList, u.nextList = << >>, u.remainList = << >>,
         u.k = 1, u.isReduceable = FALSE, u.time = t.time + 1, u.byTime = b,
         u.step = t.step, u.currTimeAccList = t.currTimeAccList
  PROVE  ReuseOK(u)
<1>1. t.time \in Nat /\ t.nextList \in Seq(Row)
  BY DEF TreeState
<1>2. /\ DOMAIN b = 0..((t.time + 1) - 1)
      /\ \A x \in 1..t.time : AllIn(b[x], KnownRows)
      /\ \A B \in Nat : AllIn(t.list, By(B)) =>
           \A x \in 0..t.time : AllIn(b[x], By(B + x))
  BY PassRows
<1>3. ReuseRows(t) /\ ReuseKnown(t)
  BY DEF ReuseOK
<1>4. AllIn(<< >>, KnownRows) /\ \A B : AllIn(<< >>, By(B))
  BY DEF AllIn
<1>5. ReuseRows(u)
  <2>1. Distinct(<< >>)
    BY DEF Distinct
  <2>2. Distinct(t.nextList)
    BY <1>3 DEF ReuseRows
  <2>3. 1 <= Len(t.nextList) + 1
    BY <1>1
  <2> QED BY <1>2, <1>3, <2>1, <2>2, <2>3 DEF ReuseRows
<1>6. ReuseKnown(u)
  <2>1. AllIn(t.nextList, KnownRows)
    BY <1>3 DEF ReuseKnown
  <2>2. (t.time + 1) - 1 = t.time
    BY <1>1
  <2> QED BY <1>2, <1>4, <2>1, <2>2 DEF ReuseKnown
<1>7. ASSUME NEW w, NEW factor, Balanced(w, factor)
      PROVE  ReuseWeighs(u, w, factor)
  <2>1. w \in Weights /\ factor \in 1..2
    BY <1>7, BalancedFacts
  <2>2. PICK d : /\ Chain(w, factor, b, d, t.time + 1) /\ d[0] = Total(w, t.list)
                 /\ d[t.time + 1] = Total(w, t.nextList)
    BY <1>7, PassWeighsOn DEF DueAt
  <2>3. Total(w, << >>) = 0
    BY <2>1, TotalEmpty
  <2>4. Total(w, Waiting(u)) = Total(w, t.nextList)
    BY <1>1, <2>1, TotalWhole DEF Waiting
  <2> DEFINE n == Total(w, t.nextList)
             z == Total(w, << >>)
  <2>5. n \in Nat /\ z = 0
    BY <1>1, <2>1, <2>3, TotalNat
  <2>6. d[t.time + 1] = n /\ Total(w, Waiting(u)) = n
    BY <2>2, <2>4
  <2> HIDE DEF n, z
  <2>7. factor * z = 0
    BY <2>1, <2>5
  <2>8. d[t.time + 1] = z + factor * z + Total(w, Waiting(u))
    BY <2>5, <2>6, <2>7
  <2>9. d[u.time] = Total(w, u.remainList) + factor * Total(w, u.nextList)
                      + Total(w, Waiting(u))
    BY <2>8 DEF z
  <2> QED BY <2>2, <2>9 DEF ReuseWeighs
<1>8. ASSUME NEW B \in Nat, AllIn(u.list, By(B))
      PROVE  ReuseBelow(u, B)
  <2>1. ReuseBelow(t, B)
    BY <1>8 DEF ReuseOK
  <2>2. B + t.time + 1 = B + (t.time + 1) /\ (t.time + 1) - 1 = t.time
    <3> DEFINE n == t.time
    <3>1. n \in Nat
      BY <1>1
    <3> HIDE DEF n
    <3>2. B + n + 1 = B + (n + 1) /\ (n + 1) - 1 = n
      BY <3>1
    <3> QED BY <3>2 DEF n
  <2>3. AllIn(t.nextList, By(B + (t.time + 1)))
    BY <2>1, <2>2 DEF ReuseBelow
  <2>4. \A x \in 0..t.time : AllIn(b[x], By(B + x))
    BY <1>2, <1>8
  <2> QED BY <1>4, <2>2, <2>3, <2>4 DEF ReuseBelow
<1> QED BY <1>5, <1>6, <1>7, <1>8 DEF ReuseOK

(* The passes end with the lists they have entered.                        *)
LEMMA PassesKept ==
  ASSUME NEW t \in TreeState, PassDone(t), ReuseOK(t), ~t.isReduceable,
         NEW b, b = Insert(t.byTime, t.time, t.remainList)
  PROVE  JoinOK(t.list, t.steps, b)
<1>1. t.time \in Nat /\ t.steps \in Nat
  BY DEF TreeState
<1>2. t.steps = Steps(Len(t.list)) /\ t.time < t.steps /\ t.nextList = << >>
  BY DEF ReuseOK, ReuseRows
<1>3. /\ \A x \in 1..t.time : AllIn(b[x], KnownRows)
      /\ \A B \in Nat : AllIn(t.list, By(B)) =>
           \A x \in 0..t.time : AllIn(b[x], By(B + x))
      /\ \A x \in 0..t.time : ListAt(b, x) = b[x]
      /\ \A x \in Nat : x > t.time => ListAt(b, x) = << >>
  BY PassRows
<1>4. AllIn(<< >>, KnownRows) /\ \A B : AllIn(<< >>, By(B))
  BY DEF AllIn
<1>5. ASSUME NEW x \in 1..t.steps
      PROVE  AllIn(ListAt(b, x), KnownRows)
  <2>1. CASE x <= t.time
    <3>1. x \in 1..t.time /\ x \in 0..t.time
      BY <1>1, <2>1
    <3> QED BY <1>3, <3>1
  <2>2. CASE x > t.time
    <3>1. ListAt(b, x) = << >>
      BY <1>3, <2>2
    <3> QED BY <1>4, <3>1, Zenon
  <2> QED BY <1>1, <2>1, <2>2
<1>6. ASSUME NEW w, NEW factor, Balanced(w, factor)
      PROVE  Allocated(w, factor, t.list, b, t.steps)
  <2>1. w \in Weights /\ factor \in 1..2
    BY <1>6, BalancedFacts
  <2>2. PICK d :
          /\ Chain(w, factor, b, d, t.time) /\ d[0] = Total(w, t.list)
          /\ d[t.time] = Total(w, ListAt(b, t.time)) + factor * Total(w, t.nextList)
    BY <1>6, PassWeighs
  <2>3. Total(w, t.nextList) = 0
    BY <1>2, <2>1, TotalEmpty
  <2>4. d[t.time] \in Nat
    <3>1. t.time \in 0..t.time
      BY <1>1
    <3> QED BY <2>2, <3>1 DEF Chain
  <2>5. ListAt(b, t.time) \in Seq(Row)
    <3>1. ListAt(b, t.time) = t.remainList
      <4>1. DOMAIN t.byTime = 0..(t.time - 1)
        BY DEF ReuseOK, ReuseRows
      <4> QED BY <1>1, <4>1, TimesInserted
    <3> QED BY <3>1 DEF TreeState
  <2> DEFINE r == Total(w, ListAt(b, t.time))
             n == Total(w, t.nextList)
  <2>6. r \in Nat /\ n = 0 /\ d[t.time] = r + factor * n
    BY <2>1, <2>2, <2>3, <2>5, TotalNat
  <2> HIDE DEF r, n
  <2>7. d[t.time] = r
    <3>1. factor * n = 0
      BY <2>1, <2>6
    <3> QED BY <2>6, <3>1
  <2>8. Allocated(w, factor, t.list, b, t.time)
    BY <2>2, <2>7 DEF Allocated, r
  <2>9. \A x \in (t.time + 1)..t.steps : ListAt(b, x) = << >>
    BY <1>1, <1>3
  <2>10. t.time <= t.steps
    BY <1>1, <1>2
  <2> QED BY <1>1, <2>1, <2>8, <2>9, <2>10, AllocatedLonger
<1>7. ASSUME NEW B \in Nat, AllIn(t.list, By(B)), NEW x \in 0..t.steps
      PROVE  AllIn(ListAt(b, x), By(B + x))
  <2>1. CASE x <= t.time
    <3>1. x \in 0..t.time
      BY <1>1, <2>1
    <3>2. AllIn(b[x], By(B + x)) /\ ListAt(b, x) = b[x]
      BY <1>3, <1>7, <3>1
    <3> QED BY <3>2, Zenon
  <2>2. CASE x > t.time
    <3>1. ListAt(b, x) = << >>
      BY <1>3, <2>2
    <3> QED BY <1>4, <3>1, Zenon
  <2> QED BY <1>1, <2>1, <2>2
<1> QED BY <1>2, <1>5, <1>6, <1>7 DEF JoinOK
-----------------------------------------------------------------------------
(* The passes end with what the last one reduced, a step after it.         *)
LEMMA PassesReduced ==
  ASSUME NEW t \in TreeState, PassDone(t), ReuseOK(t), ~(t.time + 1 < t.steps),
         NEW b, b = Insert(t.byTime, t.time, t.remainList),
         NEW c, c = Insert(b, t.time + 1, t.nextList)
  PROVE  JoinOK(t.list, t.steps, c)
<1> DEFINE n == t.time + 1
<1>1. t.time \in Nat /\ t.steps \in Nat /\ n \in Nat
  BY DEF TreeState
<1>2. t.steps = Steps(Len(t.list)) /\ t.steps = n
  BY <1>1 DEF ReuseOK, ReuseRows
<1>3. /\ DOMAIN b = 0..(n - 1)
      /\ \A x \in 1..t.time : AllIn(b[x], KnownRows)
      /\ \A B \in Nat : AllIn(t.list, By(B)) =>
           \A x \in 0..t.time : AllIn(b[x], By(B + x))
  BY PassRows
<1>4. /\ \A x \in 0..(n - 1) : ListAt(c, x) = b[x] /\ ListAt(b, x) = b[x]
      /\ ListAt(c, n) = t.nextList
  <2> HIDE DEF n
  <2>1. c = Insert(b, n, t.nextList)
    BY DEF n
  <2> QED BY <1>1, <1>3, <2>1, TimesInserted
<1>6. ASSUME NEW x \in 1..t.steps
      PROVE  AllIn(ListAt(c, x), KnownRows)
  <2>1. CASE x = n
    <3>1. AllIn(t.nextList, KnownRows)
      BY DEF ReuseOK, ReuseKnown
    <3>2. ListAt(c, x) = t.nextList
      BY <1>4, <2>1
    <3> QED BY <3>1, <3>2, Zenon
  <2>2. CASE x # n
    <3>1. x \in 1..t.time /\ x \in 0..(n - 1)
      BY <1>1, <1>2, <2>2
    <3>2. AllIn(b[x], KnownRows) /\ ListAt(c, x) = b[x]
      BY <1>3, <1>4, <3>1
    <3> QED BY <3>2, Zenon
  <2> QED BY <2>1, <2>2
<1>7. ASSUME NEW w, NEW factor, Balanced(w, factor)
      PROVE  Allocated(w, factor, t.list, c, t.steps)
  <2>1. PICK d : /\ Chain(w, factor, b, d, n) /\ d[0] = Total(w, t.list)
                 /\ d[n] = Total(w, t.nextList)
    BY <1>7, PassWeighsOn DEF DueAt
  <2> HIDE DEF n
  <2>2. \A x \in 0..(n - 1) : Total(w, ListAt(b, x)) = Total(w, ListAt(c, x))
    BY <1>4
  <2>3. Chain(w, factor, c, d, n)
    BY <1>1, <2>1, <2>2, ChainSame
  <2> QED BY <1>2, <1>4, <2>1, <2>3 DEF Allocated
<1>8. ASSUME NEW B \in Nat, AllIn(t.list, By(B)), NEW x \in 0..t.steps
      PROVE  AllIn(ListAt(c, x), By(B + x))
  <2>1. CASE x = n
    <3>1. ReuseBelow(t, B)
      BY <1>8 DEF ReuseOK
    <3>2. B + t.time + 1 = B + x
      BY <1>1, <2>1
    <3>3. AllIn(t.nextList, By(B + x))
      BY <3>1, <3>2 DEF ReuseBelow
    <3>4. ListAt(c, x) = t.nextList
      BY <1>4, <2>1
    <3> QED BY <3>3, <3>4, Zenon
  <2>2. CASE x # n
    <3>1. x \in 0..t.time /\ x \in 0..(n - 1)
      BY <1>1, <1>2, <2>2
    <3>2. AllIn(b[x], By(B + x)) /\ ListAt(c, x) = b[x]
      BY <1>3, <1>4, <1>8, <3>1
    <3> QED BY <3>2, Zenon
  <2> QED BY <2>1, <2>2
<1> QED BY <1>2, <1>6, <1>7, <1>8 DEF JoinOK

(* The next pass, or the second half, begins in order                      *)
(* (LiMBinder.cpp:577-614).                                                *)
LEMMA EndPassFits ==
  ASSUME TypeAcc, EndPass, ReuseOK(tree)
  PROVE  TreeFits(tree')
<1> DEFINE b == Insert(tree.byTime, tree.time, tree.remainList)
           time == tree.time + 1
           c == Insert(b, time, tree.nextList)
<1>0. Summing /\ tree.phase = "reuse" /\ tree.k > Len(tree.currList)
  BY DEF EndPass, Reducing
<1>1. /\ tree \in TreeState /\ Len(tree.list) # 0
      /\ tree.byTime \in ByTimes /\ tree.time \in Nat /\ tree.remainList \in Seq(Row)
      /\ tree.nextList \in Seq(Row) /\ tree.steps \in Nat
  BY <1>0, ReuseTypes
<1>2. PassDone(tree)
  BY <1>0 DEF PassDone
<1>3. b \in ByTimes /\ time \in Nat
  BY <1>1, InsertTime
<1>4. b = Insert(tree.byTime, tree.time, tree.remainList) /\ time = tree.time + 1
      /\ c = Insert(b, tree.time + 1, tree.nextList)
  OBVIOUS
<1>5. tree' = IF tree.isReduceable /\ time < tree.steps
              THEN [tree EXCEPT !.byTime = b, !.time = time, !.k = 1,
                        !.currList = tree.nextList, !.nextList = << >>,
                        !.remainList = << >>, !.isReduceable = FALSE]
              ELSE Allocate(tree, IF tree.isReduceable THEN c ELSE b)
  BY DEF EndPass
<1>6. c \in ByTimes
  <2> HIDE DEF b, time
  <2> QED BY <1>1, <1>3, InsertTime
<1> HIDE DEF b, time, c
<1>7. CASE tree.isReduceable /\ time < tree.steps
  <2> DEFINE empty == << >>
             u == [tree EXCEPT !.byTime = b, !.time = time, !.k = 1,
                        !.currList = tree.nextList, !.nextList = empty,
                        !.remainList = empty, !.isReduceable = FALSE]
  <2>1. tree' = u
    BY <1>5, <1>7
  <2>2. empty \in Seq(Row) /\ empty = << >>
    OBVIOUS
  <2> HIDE DEF empty
  <2>3. u \in TreeState
    BY <1>1, <1>3, <2>2 DEF TreeState
  <2>4. /\ u.phase = "reuse" /\ u.list = tree.list /\ u.steps = tree.steps
        /\ u.currList = tree.nextList /\ u.nextList = empty /\ u.remainList = empty
        /\ u.k = 1 /\ u.isReduceable = FALSE /\ u.time = time /\ u.byTime = b
        /\ u.step = tree.step /\ u.currTimeAccList = tree.currTimeAccList
    BY <1>0, <1>1 DEF TreeState
  <2> HIDE DEF u
  <2>5. /\ u.phase = "reuse" /\ u.list = tree.list /\ u.steps = tree.steps
        /\ u.currList = tree.nextList /\ u.nextList = << >> /\ u.remainList = << >>
        /\ u.k = 1 /\ u.isReduceable = FALSE /\ u.time = tree.time + 1 /\ u.byTime = b
        /\ u.step = tree.step /\ u.currTimeAccList = tree.currTimeAccList
    BY <1>4, <2>2, <2>4
  <2>6. tree.time + 1 < tree.steps
    BY <1>4, <1>7
  <2>7. ReuseOK(u)
    BY <1>1, <1>2, <1>4, <2>3, <2>5, <2>6, NextPassFits
  <2> QED BY <2>1, <2>5, <2>7 DEF TreeFits
<1>8. ASSUME NEW e, e \in ByTimes, tree' = Allocate(tree, e), JoinOK(tree.list, tree.steps, e)
      PROVE  TreeFits(tree')
  <2>1. tree.step = 0 /\ tree.currTimeAccList = << >>
    BY DEF ReuseOK, ReuseRows
  <2>2. MergeOK(Allocate(tree, e))
    BY <1>1, <1>8, <2>1, AllocateOK
  <2>3. Allocate(tree, e).phase = "merge"
    BY <1>1, <1>8, AllocateType
  <2> QED BY <1>8, <2>2, <2>3 DEF TreeFits
<1>9. CASE ~(tree.isReduceable /\ time < tree.steps)
  <2>1. CASE tree.isReduceable
    <3>1. tree' = Allocate(tree, c) /\ ~(tree.time + 1 < tree.steps)
      BY <1>4, <1>5, <1>9, <2>1
    <3>2. JoinOK(tree.list, tree.steps, c)
      BY <1>1, <1>2, <1>4, <3>1, PassesReduced
    <3> QED BY <1>6, <1>8, <3>1, <3>2
  <2>2. CASE ~tree.isReduceable
    <3>1. tree' = Allocate(tree, b)
      BY <1>5, <2>2
    <3>2. JoinOK(tree.list, tree.steps, b)
      BY <1>1, <1>2, <1>4, <2>2, PassesKept
    <3> QED BY <1>3, <1>8, <3>1, <3>2
  <2> QED BY <2>1, <2>2
<1> QED BY <1>7, <1>9
-----------------------------------------------------------------------------
(* What addMap knows are rows of the array.                                *)
LEMMA KnownAreRows ==
  ASSUME BindInv, PartialsOK
  PROVE  KnownRows \subseteq Rows
<1> SUFFICES ASSUME NEW m \in KnownRows
             PROVE  m \in Rows
  OBVIOUS
<1>1. m \in DOMAIN computes
  BY DEF KnownRows, PartialsOK, PartialOK, KnownOK
<1> QED BY <1>1, ResultRows

(* What is ready by a state is ready by a later one.                       *)
LEMMA ByLater ==
  ASSUME BindInv, NEW B \in Nat, NEW C \in Nat, B <= C
  PROVE  By(B) \subseteq By(C)
<1>1. \A r \in Rows : FSM2[r] \in Nat
  <2>1. DOMAIN FSM2 = Rows
    BY DEF BindInv, Placed
  <2>2. TimesOK(FSM2)
    BY TypeParts DEF BindInv, TypeInv
  <2> QED BY <2>1, <2>2 DEF TimesOK
<1> SUFFICES ASSUME NEW r \in By(B)
             PROVE  r \in By(C)
  OBVIOUS
<1>2. r \in Rows => FSM2[r] <= C
  BY <1>1 DEF By
<1> QED BY <1>2 DEF By

(* A list of a set is one of a larger set.                                 *)
LEMMA AllInMore ==
  ASSUME NEW s, NEW S, NEW T, S \subseteq T, AllIn(s, S)
  PROVE  AllIn(s, T)
BY DEF AllIn

(* When the rows of the first step are rows, those of the list are.        *)
LEMMA ListIsRows ==
  ASSUME BindInv, PartialsOK, NEW t \in TreeState, MergeOK(t), t.phase = "merge", t.step = 0,
         AllIn(ListAt(t.byTime, 0), Rows)
  PROVE  AllIn(t.list, Rows)
<1> DEFINE w == OffRows
           b == t.byTime
           n == t.steps
<1>1. /\ t.list \in Seq(Row) /\ n \in Nat /\ b \in ByTimes
      /\ t.currTimeAccList = << >>
  BY DEF TreeState, MergeOK, MergeRows
<1>2. Additive(w) /\ w \in Weights /\ \A r \in Row : w[r] = 0 <=> r \in Rows
  BY OffRowsAdditive DEF Additive
<1>3. PICK d : /\ Chain(w, 1, b, d, n) /\ d[n] = Total(w, ListAt(b, n))
               /\ Total(w, t.list) = Total(w, t.currTimeAccList) + d[0]
  BY <1>2 DEF MergeOK, MergeWeighs, From
<1>4. \A x \in 0..n : AllIn(ListAt(b, x), Rows)
  <2>1. \A x \in 1..n : AllIn(ListAt(b, x), KnownRows)
    BY DEF MergeOK, MergeRows
  <2>2. KnownRows \subseteq Rows
    BY KnownAreRows
  <2> SUFFICES ASSUME NEW x \in 0..n
               PROVE  AllIn(ListAt(b, x), Rows)
    OBVIOUS
  <2>3. CASE x = 0
    BY <2>3
  <2>4. CASE x # 0
    <3>1. x \in 1..n
      BY <2>4
    <3> QED BY <2>1, <2>2, <3>1, AllInMore
  <2> QED BY <2>3, <2>4
<1> HIDE DEF w, b, n
<1>5. ASSUME NEW x \in 0..n
      PROVE  Total(w, ListAt(b, x)) = 0
  <2> DEFINE s == ListAt(b, x)
  <2>1. s \in Seq(Row)
    BY <1>1, ListAtType
  <2>2. AllIn(s, Rows)
    BY <1>4
  <2> HIDE DEF s
  <2>3. \A k \in 1..Len(s) : w[s[k]] = 0
    BY <1>2, <2>1, <2>2 DEF AllIn
  <2>4. Total(w, s) = 0
    BY <1>2, <2>1, <2>3, TotalZero
  <2> QED BY <2>4 DEF s
<1>6. d[0] = 0
  <2>1. 0 \in 0..n
    BY <1>1
  <2> QED BY <1>1, <1>2, <1>3, <1>5, <2>1, ChainZero
<1>7. Total(w, t.list) = 0
  <2>1. Total(w, t.currTimeAccList) = 0
    BY <1>1, <1>2, TotalEmpty
  <2> QED BY <1>3, <1>6, <2>1
<1>8. ASSUME NEW k \in 1..Len(t.list)
      PROVE  t.list[k] \in Rows
  <2>1. w[t.list[k]] <= 0
    BY <1>1, <1>2, <1>7, TotalBounds
  <2>2. t.list[k] \in Row
    BY <1>1
  <2>3. w[t.list[k]] \in Nat
    BY <1>2, <2>2 DEF Weights
  <2>4. w[t.list[k]] = 0
    BY <2>1, <2>3
  <2> QED BY <1>2, <2>2, <2>4
<1> QED BY <1>8 DEF AllIn

(* The rows that join are merged with those that are left, and sorted:     *)
(* none is lost, and half as many pairs are due (LiMBinder.cpp:633-696).   *)
LEMMA BeginStepFits ==
  ASSUME BindInv, TypeAcc, PartialsOK, BeginStep, MergeOK(tree)
  PROVE  TreeFits(tree')
<1> DEFINE curr == tree.currTimeAccList
           join == ListAt(tree.byTime, tree.step)
           joining == JoiningRows
           rows == Alternate(joining)
           half == Len(joining) \div 2
           u == [tree EXCEPT !.phase = "bind", !.p = 1, !.pairs = half,
                             !.currTimeAccList = rows]
<1>0. /\ Summing /\ tree.phase = "merge" /\ tree.step < tree.steps
      /\ \A k \in DOMAIN joining : joining[k] \in Rows
      /\ tree' = u
  BY DEF BeginStep, Merging, Rows
<1>1. /\ tree \in TreeState /\ curr \in Seq(Row) /\ tree.list \in Seq(Row)
      /\ tree.byTime \in ByTimes /\ tree.step \in Nat /\ tree.steps \in Nat
  BY <1>0, ReuseTypes
<1>2. join \in Seq(Row)
  BY <1>1, ListAtType
<1>3. joining = Merge(curr, join)
  BY DEF JoiningRows
<1>4. MergeRows(tree)
  BY DEF MergeOK
<1>4a. join = ListAt(tree.byTime, tree.step) /\ curr = tree.currTimeAccList
       /\ rows = Alternate(joining) /\ half = Len(joining) \div 2
  OBVIOUS
<1> HIDE DEF curr, join, joining, rows, half
<1>5. /\ joining \in Seq(Row) /\ Len(joining) = Len(curr) + Len(join)
      /\ \A w \in Weights : Total(w, joining) = Total(w, curr) + Total(w, join)
  BY <1>1, <1>2, <1>3, MergeTotal, MergeType
<1>6. AllIn(joining, Rows)
  BY <1>0, <1>5 DEF AllIn
<1>7. /\ rows \in Seq(Row) /\ Len(rows) = Len(joining)
      /\ \A w \in Weights : Total(w, rows) = Total(w, joining)
  <2>1. \A k \in 1..Len(joining) : joining[k] \in Row
    BY <1>5
  <2>2. rows \in Seq(Row) /\ Len(rows) = Len(joining)
    BY <1>4a, <1>5, <2>1, AlternateType
  <2> QED BY <1>4a, <1>5, <2>2, AlternateTotal
<1>8. \A S : AllIn(joining, S) => AllIn(rows, S)
  <2> SUFFICES ASSUME NEW S, AllIn(joining, S)
               PROVE  AllIn(rows, S)
    OBVIOUS
  <2>1. \A w \in Weights : Total(w, rows) = Total(w, joining)
    BY <1>7
  <2> QED BY <1>5, <1>7, <2>1, InSame
<1>9. /\ u.phase = "bind" /\ u.list = tree.list /\ u.steps = tree.steps
      /\ u.step = tree.step /\ u.currTimeAccList = rows /\ u.p = 1 /\ u.pairs = half
      /\ u.byTime = tree.byTime
  BY <1>1 DEF TreeState
<1> HIDE DEF u
<1>10. MergeRows(u)
  <2>1. AllIn(rows, Rows)
    BY <1>6, <1>8
  <2>2. AllIn(tree.list, Rows)
    <3>1. CASE tree.step > 0
      BY <1>4, <3>1 DEF MergeRows
    <3>2. CASE tree.step = 0
      <4>1. curr = << >>
        BY <1>0, <1>4, <1>4a, <3>2 DEF MergeRows
      <4>2. \A w \in Weights : Total(w, join) = Total(w, joining)
        <5> SUFFICES ASSUME NEW w \in Weights
                     PROVE  Total(w, join) = Total(w, joining)
          OBVIOUS
        <5>1. Total(w, curr) = 0
          BY <4>1, TotalEmpty
        <5>2. Total(w, join) \in Nat
          BY <1>2, TotalNat
        <5>3. Total(w, joining) = Total(w, curr) + Total(w, join)
          BY <1>5
        <5> QED BY <5>1, <5>2, <5>3
      <4>3. AllIn(join, Rows)
        BY <1>2, <1>5, <1>6, <4>2, InSame
      <4>4. AllIn(ListAt(tree.byTime, 0), Rows)
        BY <1>4a, <3>2, <4>3, Zenon
      <4> QED BY <1>0, <1>1, <3>2, <4>4, ListIsRows
    <3> QED BY <1>1, <3>1, <3>2
  <2>3. half = (Len(rows) + 1 - 1) \div 2 /\ half \in Nat
    <3> DEFINE n == Len(joining)
    <3>0. n \in Nat
      BY <1>5
    <3>1. n \in Nat /\ Len(rows) = n /\ half = n \div 2
      BY <1>4a, <1>7, <3>0, Zenon
    <3> HIDE DEF n
    <3>2. n + 1 - 1 = n /\ n \div 2 \in Nat
      BY <3>1
    <3> QED BY <3>1, <3>2
  <2>4. 1 <= half + 1
    BY <2>3
  <2> QED BY <1>0, <1>4, <1>9, <2>1, <2>2, <2>3, <2>4 DEF MergeRows
<1>11. ASSUME NEW t, t = tree.step, NEW w \in Weights, NEW factor, NEW d,
              Chain(w, factor, tree.byTime, d, tree.steps)
       PROVE  /\ d[t] = Total(w, join) + factor * d[t + 1]
              /\ d[t] \in Nat /\ d[t + 1] \in Nat
  <2>1. t \in 0..(tree.steps - 1)
    BY <1>0, <1>1, <1>11
  <2>2. d[t] = Total(w, ListAt(tree.byTime, t)) + factor * d[t + 1]
        /\ d[t] \in Nat /\ d[t + 1] \in Nat
    BY <1>1, <1>11, <2>1, ChainStep
  <2> QED BY <1>4a, <1>11, <2>2
<1>12. ASSUME NEW w, Additive(w)
       PROVE  MergeWeighs(u, w)
  <2>1. w \in Weights
    BY <1>12 DEF Additive
  <2>2. PICK d : /\ Chain(w, 1, tree.byTime, d, tree.steps)
                 /\ d[tree.steps] = Total(w, ListAt(tree.byTime, tree.steps))
                 /\ Total(w, tree.list) = Total(w, curr) + d[tree.step]
    BY <1>0, <1>4a, <1>12 DEF MergeOK, MergeWeighs, From
  <2>3. d[tree.step] = Total(w, join) + 1 * d[tree.step + 1] /\ d[tree.step + 1] \in Nat
    BY <1>11, <2>1, <2>2
  <2>4. Total(w, rows) = Total(w, curr) + Total(w, join)
    BY <1>5, <1>7, <2>1
  <2>5. Total(w, curr) \in Nat /\ Total(w, join) \in Nat
    BY <1>1, <1>2, <2>1, TotalNat
  <2> DEFINE x == Total(w, curr)
             y == Total(w, join)
             z == d[tree.step + 1]
             all == Total(w, tree.list)
             some == Total(w, rows)
  <2>6. all = x + (y + 1 * z) /\ some = x + y /\ x \in Nat /\ y \in Nat /\ z \in Nat
    BY <2>2, <2>3, <2>4, <2>5
  <2> HIDE DEF x, y, z, all, some
  <2>7. all = some + z
    BY <2>6
  <2>8. From(u) = tree.step + 1
    BY <1>9 DEF From
  <2>9. Total(w, u.list) = Total(w, u.currTimeAccList) + d[From(u)]
    BY <1>9, <2>7, <2>8 DEF z, all, some
  <2> QED BY <1>9, <2>2, <2>9 DEF MergeWeighs
<1>13. MergeCounts(u)
  <2>1. PICK c : /\ Chain(One, 2, tree.byTime, c, tree.steps)
                 /\ c[tree.steps] = Total(One, ListAt(tree.byTime, tree.steps))
                 /\ Due(tree, c) \in Nat \ {0}
                 /\ Steps(Due(tree, c)) = tree.steps - tree.step
    BY DEF MergeOK, MergeCounts
  <2>2. c[tree.step] = Total(One, join) + 2 * c[tree.step + 1] /\ c[tree.step + 1] \in Nat
    BY <1>11, <2>1, OneWeight
  <2>3. Total(One, join) = Len(join)
    BY <1>2, TotalLength
  <2>4. Due(tree, c) = Len(curr) + c[tree.step]
    BY <1>0, <1>4a DEF Due
  <2>5. Due(u, c) = (Len(rows) + 1 - 1) + 2 * c[tree.step + 1]
    BY <1>9 DEF Due
  <2>6. Len(curr) \in Nat /\ Len(join) \in Nat
    BY <1>1, <1>2
  <2>7. Due(u, c) = Due(tree, c)
    <3> DEFINE x == Len(curr)
               y == Len(join)
               z == c[tree.step + 1]
               n == Len(rows)
               due == Due(tree, c)
               left == Due(u, c)
    <3>1. x \in Nat /\ y \in Nat /\ z \in Nat /\ n = x + y
      BY <1>5, <1>7, <2>2, <2>6
    <3>2. due = x + (y + 2 * z)
      BY <2>2, <2>3, <2>4
    <3>3. left = (n + 1 - 1) + 2 * z
      BY <2>5
    <3> HIDE DEF x, y, z, n, due, left
    <3>4. left = due
      BY <3>1, <3>2, <3>3
    <3> QED BY <3>4 DEF due, left
  <2> QED BY <1>9, <2>1, <2>7 DEF MergeCounts
<1>14. ASSUME NEW B \in Nat, AllIn(u.list, By(B))
       PROVE  MergeBelow(u, B)
  <2>1. MergeBelow(tree, B)
    BY <1>9, <1>14 DEF MergeOK
  <2> DEFINE C == B + 2 * tree.step
  <2>2. C \in Nat /\ B <= C /\ B + tree.step \in Nat /\ B + tree.step <= C
    BY <1>1
  <2>3. AllIn(curr, By(C))
    BY <1>0, <1>4a, <2>1 DEF MergeBelow
  <2>4. AllIn(join, By(C))
    <3>1. CASE tree.step = 0
      <4>1. AllIn(ListAt(tree.byTime, 0), By(B))
        BY <1>0, <2>1, <3>1 DEF MergeBelow
      <4>2. AllIn(join, By(B))
        BY <1>4a, <3>1, <4>1, Zenon
      <4>3. By(B) \subseteq By(C)
        <5> HIDE DEF C
        <5> QED BY <2>2, ByLater
      <4> QED BY <4>2, <4>3, AllInMore
    <3>2. CASE tree.step # 0
      <4>1. tree.step \in 1..tree.steps
        BY <1>0, <1>1, <3>2
      <4>2. AllIn(join, By(B + tree.step))
        BY <1>4a, <2>1, <4>1 DEF MergeBelow
      <4>3. By(B + tree.step) \subseteq By(C)
        <5> HIDE DEF C
        <5> QED BY <2>2, ByLater
      <4> QED BY <4>2, <4>3, AllInMore
    <3> QED BY <3>1, <3>2
  <2> HIDE DEF C
  <2>5. AllIn(joining, By(C))
    BY <1>1, <1>2, <1>5, <2>3, <2>4, InMerged
  <2>6. AllIn(rows, By(C))
    BY <1>8, <2>5
  <2>7. \A j \in 1..Len(rows) : rows[j] \in By(C) /\ ~(j < 1)
    BY <2>6 DEF AllIn
  <2>8. \A k \in 1..tree.steps : AllIn(ListAt(tree.byTime, k), By(B + k))
    BY <2>1 DEF MergeBelow
  <2> QED BY <1>9, <2>7, <2>8 DEF MergeBelow, C
<1> QED BY <1>0, <1>9, <1>10, <1>12, <1>13, <1>14 DEF TreeFits, MergeOK
-----------------------------------------------------------------------------
(* The rows that a step leaves are half as many.                           *)
LEMMA HalfAgain ==
  ASSUME NEW n \in Nat, NEW p \in Nat \ {0}, NEW pairs \in Nat, p > pairs, p <= pairs + 1,
         pairs = (n + p - 1) \div 2, NEW c \in Nat
  PROVE  n + c = Half((n + p - 1) + 2 * c)
<1>1. p = pairs + 1
  OBVIOUS
<1>2. pairs = (n + pairs) \div 2
  BY <1>1
<1>3. n = pairs \/ n = pairs + 1
  BY <1>2
<1>4. n + c = ((n + pairs) + 2 * c + 1) \div 2
  BY <1>3
<1>5. (n + p - 1) + 2 * c + 1 = (n + pairs) + 2 * c + 1
  BY <1>1
<1> QED BY <1>4, <1>5 DEF Half

(* After a step the results, and an odd row, are the list                  *)
(* (LiMBinder.cpp:633-635).                                                *)
LEMMA EndStepFits ==
  ASSUME BindInv, TypeAcc, EndStep, MergeOK(tree)
  PROVE  TreeFits(tree')
<1> DEFINE later == tree.step + 1
           u == [tree EXCEPT !.phase = "merge", !.step = later]
           curr == tree.currTimeAccList
<1>0. Summing /\ tree.phase = "bind" /\ tree.p > tree.pairs
  BY DEF EndStep
<1>1. /\ tree \in TreeState /\ curr \in Seq(Row) /\ tree.step \in Nat /\ tree.steps \in Nat
      /\ tree.p \in Nat \ {0} /\ tree.pairs \in Nat
  BY <1>0, ReuseTypes
<1>2. tree' = u
  BY <1>1 DEF EndStep, TreeState
<1>3. later \in Nat \ {0} /\ later = tree.step + 1 /\ curr = tree.currTimeAccList
  BY <1>1
<1> HIDE DEF later, curr
<1>4. /\ u.phase = "merge" /\ u.list = tree.list /\ u.steps = tree.steps /\ u.step = later
      /\ u.currTimeAccList = curr /\ u.byTime = tree.byTime
  BY <1>1, <1>3 DEF TreeState
<1> HIDE DEF u
<1>5. MergeRows(tree)
  BY DEF MergeOK
<1>6. /\ tree.step < tree.steps /\ tree.p <= tree.pairs + 1
      /\ tree.pairs = (Len(curr) + tree.p - 1) \div 2
      /\ AllIn(curr, Rows) /\ AllIn(tree.list, Rows)
      /\ tree.steps = Steps(Len(tree.list))
      /\ \A k \in 1..tree.steps : AllIn(ListAt(tree.byTime, k), KnownRows)
  BY <1>0, <1>3, <1>5 DEF MergeRows
<1>7. MergeRows(u)
  <2>1. later <= tree.steps /\ later # 0
    BY <1>1, <1>3, <1>6
  <2> QED BY <1>4, <1>6, <2>1 DEF MergeRows
<1>8. ASSUME NEW w, Additive(w)
      PROVE  MergeWeighs(u, w)
  <2>1. MergeWeighs(tree, w)
    BY <1>8 DEF MergeOK
  <2>2. From(u) = From(tree)
    BY <1>0, <1>3, <1>4 DEF From
  <2> QED BY <1>3, <1>4, <2>1, <2>2 DEF MergeWeighs
<1>9. MergeCounts(u)
  <2>1. PICK c : /\ Chain(One, 2, tree.byTime, c, tree.steps)
                 /\ c[tree.steps] = Total(One, ListAt(tree.byTime, tree.steps))
                 /\ Due(tree, c) \in Nat \ {0}
                 /\ Steps(Due(tree, c)) = tree.steps - tree.step
    BY DEF MergeOK, MergeCounts
  <2> DEFINE n == Len(curr)
             x == c[later]
             due == Due(tree, c)
             left == Due(u, c)
  <2>2. n \in Nat /\ x \in Nat
    <3>1. later \in 0..tree.steps
      BY <1>1, <1>3, <1>6
    <3>2. c \in [0..tree.steps -> Nat]
      BY <2>1 DEF Chain
    <3>3. n \in Nat
      BY <1>1
    <3> QED BY <3>1, <3>2, <3>3
  <2>3. due = (n + tree.p - 1) + 2 * x
    BY <1>0, <1>3 DEF Due
  <2>4. left = n + x
    BY <1>4 DEF Due
  <2>5. due \in Nat \ {0} /\ Steps(due) = tree.steps - tree.step
    BY <2>1
  <2>6. tree.pairs = (n + tree.p - 1) \div 2
    BY <1>6
  <2> HIDE DEF n, x, due, left
  <2>7. left = Half(due)
    <3>1. /\ tree.p \in Nat \ {0} /\ tree.pairs \in Nat /\ tree.p > tree.pairs
          /\ tree.p <= tree.pairs + 1
      BY <1>0, <1>1, <1>6, Zenon
    <3>2. n + x = Half((n + tree.p - 1) + 2 * x)
      BY <2>2, <2>6, <3>1, HalfAgain, Zenon
    <3> QED BY <2>3, <2>4, <3>2, Zenon
  <2>8. due > 1
    <3>1. Steps(due) # 0
      <4>1. tree.step \in Nat /\ tree.steps \in Nat /\ tree.step < tree.steps
        BY <1>1, <1>6
      <4> QED BY <2>5, <4>1
    <3>2. due # 1
      BY <2>5, <3>1, StepsHalve
    <3> QED BY <2>5, <3>2
  <2>9. left \in Nat \ {0} /\ Steps(due) = Steps(left) + 1 /\ Steps(left) \in Nat
    BY <2>5, <2>7, <2>8, StepsHalve
  <2>10. Steps(left) = tree.steps - later
    <3>1. Steps(left) \in Nat /\ Steps(left) + 1 = tree.steps - tree.step
      BY <2>5, <2>9, Zenon
    <3>2. later = tree.step + 1 /\ tree.step \in Nat /\ tree.steps \in Nat
      BY <1>1, <1>3, Zenon
    <3> QED BY <3>1, <3>2
  <2> QED BY <1>4, <2>1, <2>9, <2>10 DEF MergeCounts, left
<1>10. ASSUME NEW B \in Nat, AllIn(u.list, By(B))
       PROVE  MergeBelow(u, B)
  <2>1. MergeBelow(tree, B)
    BY <1>4, <1>10 DEF MergeOK
  <2> DEFINE C == B + 2 * tree.step
             D == B + 2 * later
  <2>2. C \in Nat /\ D \in Nat /\ C <= D /\ B + 2 * tree.step + 2 = D
    <3> DEFINE n == tree.step
    <3>1. n \in Nat /\ later = n + 1
      BY <1>1, <1>3
    <3> HIDE DEF n
    <3>2. /\ B + 2 * n \in Nat /\ B + 2 * later \in Nat /\ B + 2 * n <= B + 2 * later
          /\ B + 2 * n + 2 = B + 2 * later
      BY <3>1
    <3> QED BY <3>2 DEF n
  <2>3. \A j \in 1..Len(curr) : curr[j] \in By(IF j < tree.p THEN D ELSE C)
    BY <1>0, <1>3, <2>1, <2>2 DEF MergeBelow
  <2> HIDE DEF C, D
  <2>4. By(C) \subseteq By(D)
    BY <2>2, ByLater
  <2>5. AllIn(curr, By(D))
    BY <2>3, <2>4 DEF AllIn
  <2>6. later # 0
    BY <1>3
  <2>7. \A k \in 1..tree.steps : AllIn(ListAt(tree.byTime, k), By(B + k))
    BY <2>1 DEF MergeBelow
  <2> QED BY <1>4, <2>5, <2>6, <2>7 DEF MergeBelow, D
<1> QED BY <1>2, <1>4, <1>7, <1>8, <1>9, <1>10 DEF TreeFits, MergeOK

(* Two rows give way to their sum.                                         *)
LEMMA PairTotal ==
  ASSUME NEW w \in Weights, NEW s \in Seq(Row), NEW p \in Nat \ {0}, p + 1 <= Len(s),
         NEW name \in Row, w[name] = w[s[p]] + w[s[p + 1]],
         NEW t, t = SubSeq(s, 1, p - 1) \o <<name>> \o SubSeq(s, p + 2, Len(s))
  PROVE  Total(w, t) = Total(w, s)
<1> DEFINE n == Len(s)
           a == SubSeq(s, 1, p - 1)
           b == SubSeq(s, p + 2, n)
           one == <<name>>
<1>0. n \in Nat /\ p + 1 <= n /\ n = Len(s)
  OBVIOUS
<1>1. a \in Seq(Row) /\ b \in Seq(Row) /\ one \in Seq(Row)
  <2>1. /\ 1 \in Nat \ {0} /\ p - 1 \in Int /\ p - 1 <= Len(s)
        /\ p + 2 \in Nat \ {0} /\ n \in Int /\ n <= Len(s)
    OBVIOUS
  <2>2. a \in Seq(Row) /\ b \in Seq(Row)
    BY <2>1, PieceType
  <2> QED BY <2>2
<1>2. Total(w, one) = w[name]
  BY TotalOne
<1>3. Total(w, s) = Total(w, a) + Total(w, SubSeq(s, p, n))
  <2>1. /\ 1 \in 1..(Len(s) + 1) /\ p - 1 \in (1 - 1)..Len(s)
        /\ n \in (p - 1)..Len(s) /\ (p - 1) + 1 = p
    BY <1>0
  <2>2. Total(w, SubSeq(s, 1, n)) = Total(w, a) + Total(w, SubSeq(s, p, n))
    BY <2>1, TotalPieces
  <2> QED BY <2>2, TotalWhole
<1>4. Total(w, SubSeq(s, p, n)) = w[s[p]] + Total(w, SubSeq(s, p + 1, n))
  <2>1. p \in 1..Len(s) /\ n \in p..Len(s)
    BY <1>0
  <2> QED BY <2>1, TotalFirst
<1>5. Total(w, SubSeq(s, p + 1, n)) = w[s[p + 1]] + Total(w, b)
  <2>1. p + 1 \in 1..Len(s) /\ n \in (p + 1)..Len(s) /\ (p + 1) + 1 = p + 2
    BY <1>0
  <2> QED BY <2>1, TotalFirst
<1>6. t = (a \o one) \o b
  OBVIOUS
<1>6a. s[p] \in Row /\ s[p + 1] \in Row
  BY <1>0
<1> HIDE DEF a, b, one, n
<1>7. Total(w, t) = Total(w, a) + w[name] + Total(w, b)
  <2>1. a \o one \in Seq(Row)
    BY <1>1, ConcatType
  <2>2. Total(w, t) = Total(w, a \o one) + Total(w, b)
    <3> DEFINE u == a \o one
    <3>1. u \in Seq(Row) /\ b \in Seq(Row)
      BY <1>1, <2>1, Zenon
    <3> HIDE DEF u
    <3>2. Total(w, u \o b) = Total(w, u) + Total(w, b)
      BY <3>1, TotalConcat, Zenon
    <3> QED BY <1>6, <3>2, Zenon DEF u
  <2>3. Total(w, a \o one) = Total(w, a) + w[name]
    BY <1>1, <1>2, TotalConcat
  <2> QED BY <2>2, <2>3
<1> DEFINE x == Total(w, a)
           y == Total(w, b)
           v == w[s[p]]
           z == w[s[p + 1]]
           m == w[name]
<1>8. x \in Nat /\ y \in Nat /\ v \in Nat /\ z \in Nat /\ m = v + z
  <2>1. x \in Nat /\ y \in Nat
    BY <1>1, TotalNat
  <2>2. v \in Nat /\ z \in Nat
    BY <1>6a DEF Weights
  <2> QED BY <2>1, <2>2
<1>9. Total(w, t) = x + m + y /\ Total(w, s) = x + (v + (z + y))
  BY <1>3, <1>4, <1>5, <1>7
<1> HIDE DEF x, y, v, z, m
<1> QED BY <1>8, <1>9
-----------------------------------------------------------------------------
(* A new result changes nothing of the rows there were.                    *)
LEMMA ByKept ==
  ASSUME NEW arr, NEW fsm2, NEW row, NEW name, NEW time, Paired(arr, fsm2, row, name, time)
  PROVE  /\ Rows \subseteq Rows' /\ name \in Rows' /\ FSM2'[name] = time
         /\ \A B : \A r \in Rows : r \in By(B)' <=> r \in By(B)
<1>1. /\ Rows' = DOMAIN arr \cup {name} /\ Rows \subseteq DOMAIN arr
      /\ \A r \in Rows : FSM2'[r] = FSM2[r]
      /\ FSM2'[name] = time
  BY DEF Paired, PairTables, Rows
<1>2. ASSUME NEW B, NEW r \in Rows
      PROVE  r \in By(B)' <=> r \in By(B)
  <2>1. r \in Rows' /\ FSM2'[r] = FSM2[r]
    BY <1>1
  <2> QED BY <2>1 DEF By
<1> QED BY <1>1, <1>2

(* The result of a pair takes its place: it weighs what both did, and is   *)
(* ready at most two states later, one for its own row and one for a copy  *)
(* (LiMBinder.cpp:699-872).                                                *)
LEMMA PairFits ==
  ASSUME BindInv, TypeAcc, PartialsOK, Grown, CanPair,
         NEW arr, NEW fsm2, NEW row, NEW name, NEW time, Paired(arr, fsm2, row, name, time),
         time <= pairTime + 1, MergeOK(tree), NEW u, u = tree'
  PROVE  TreeFits(u)'
<1> DEFINE s == tree.currTimeAccList
           p == tree.p
           later == p + 1
           t == SubSeq(s, 1, p - 1) \o <<name>> \o SubSeq(s, p + 2, Len(s))
           v == [tree EXCEPT !.p = later, !.currTimeAccList = t]
<1>1. /\ Summing /\ tree \in TreeState /\ tree.phase = "bind"
      /\ p \in 1..tree.pairs /\ p + 1 <= Len(s)
      /\ row1 \in Row /\ row2 \in Row
  BY CanPairFacts
<1>2. /\ s \in Seq(Row) /\ tree.list \in Seq(Row) /\ tree.step \in Nat /\ tree.steps \in Nat
      /\ tree.pairs \in Nat /\ p \in Nat \ {0} /\ tree.byTime \in ByTimes
  BY <1>1, ReuseTypes
<1>3. name \in Row /\ name \in DOMAIN summands' /\ time \in Nat
      /\ computes'[name].src1 = row1 /\ computes'[name].src2 = row2
  <2>1. time \in Nat
    BY DEF Paired, PairBound
  <2>2. /\ name \in Row /\ DOMAIN summands' = DOMAIN summands \cup {name}
        /\ computes'[name].src1 = row1 /\ computes'[name].src2 = row2
    BY PartialAdded
  <2> QED BY <2>1, <2>2
<1>4. u = v
  <2>1. AddPartial(arr, fsm2, row, name, time)
    BY DEF Paired, PairBound
  <2> QED BY <1>1, <2>1 DEF AddPartial, TreeState
<1>5. row1 = s[p] /\ row2 = s[p + 1]
  BY DEF row1, row2
<1>6. Replaced(s, p, name, t)
  BY <1>1, <1>2, <1>3, PairReplaced
<1>6a. s = tree.currTimeAccList /\ p = tree.p /\ later = p + 1
  OBVIOUS
<1>6b. t = SubSeq(s, 1, p - 1) \o <<name>> \o SubSeq(s, p + 2, Len(s))
  OBVIOUS
<1> HIDE DEF s, p, later, t
<1>7. /\ t \in Seq(Row) /\ Len(t) = Len(s) - 1
      /\ \A k \in 1..Len(t) :
           t[k] = IF k < p THEN s[k] ELSE IF k = p THEN name ELSE s[k + 1]
  BY <1>6 DEF Replaced
<1>8. /\ u.phase = "bind" /\ u.list = tree.list /\ u.steps = tree.steps /\ u.step = tree.step
      /\ u.currTimeAccList = t /\ u.byTime = tree.byTime /\ u.p = later /\ u.pairs = tree.pairs
  BY <1>1, <1>4 DEF TreeState
<1> HIDE DEF v
<1>9. /\ Rows \subseteq Rows' /\ name \in Rows' /\ FSM2'[name] = time
      /\ \A B : \A r \in Rows : r \in By(B)' <=> r \in By(B)
  BY ByKept
<1>10. /\ tree.steps = Steps(Len(tree.list)) /\ tree.step < tree.steps
       /\ \A k \in 1..tree.steps : AllIn(ListAt(tree.byTime, k), KnownRows)
       /\ AllIn(s, Rows) /\ AllIn(tree.list, Rows)
       /\ tree.pairs = (Len(s) + p - 1) \div 2
  BY <1>1, <1>6a DEF MergeOK, MergeRows
<1>11. \A k \in 1..tree.steps :
         AllIn(ListAt(tree.byTime, k), Rows) /\ AllIn(ListAt(tree.byTime, k), KnownRows')
  <2>1. KnownRows \subseteq Rows
    BY KnownAreRows
  <2>2. KnownRows \subseteq KnownRows'
    BY DEF KnownRows, Grown, Enlarges
  <2> QED BY <1>10, <2>1, <2>2, AllInMore
<1>12. Len(t) + later - 1 = Len(s) + p - 1 /\ Len(s) \in Nat
  <2> DEFINE n == Len(s)
             m == Len(t)
  <2>1. n \in Nat /\ m = n - 1 /\ p \in Nat /\ later = p + 1
    BY <1>2, <1>6a, <1>7
  <2> HIDE DEF n, m
  <2>2. m + later - 1 = n + p - 1
    BY <2>1
  <2> QED BY <2>1, <2>2 DEF n, m
<1>13. MergeRows(u)'
  <2>1. AllIn(t, Rows')
    <3> SUFFICES ASSUME NEW k \in 1..Len(t)
                 PROVE  t[k] \in Rows'
      BY DEF AllIn
    <3>1. k + 1 \in 1..Len(s) /\ k \in 1..Len(s)
      BY <1>7, <1>12
    <3>2. s[k] \in Rows /\ s[k + 1] \in Rows
      BY <1>10, <3>1 DEF AllIn
    <3> QED BY <1>7, <1>9, <3>2
  <2>2. AllIn(tree.list, Rows')
    BY <1>9, <1>10, AllInMore
  <2>3. later <= tree.pairs + 1 /\ tree.step <= tree.steps
    <3>1. tree.step \in Nat /\ tree.steps \in Nat /\ tree.step < tree.steps
      BY <1>2, <1>10
    <3>2. later <= tree.pairs + 1
      BY <1>1, <1>2, <1>6a
    <3>3. tree.step <= tree.steps
      BY <3>1
    <3> QED BY <3>2, <3>3
  <2>4. tree.pairs = (Len(t) + later - 1) \div 2
    BY <1>10, <1>12
  <2> QED BY <1>8, <1>10, <1>11, <2>1, <2>2, <2>3, <2>4 DEF MergeRows
<1>14. ASSUME NEW w, Additive(w)'
       PROVE  MergeWeighs(u, w)
  <2>1. Additive(w)
    BY <1>14, AdditiveBefore
  <2>2. w \in Weights /\ w[name] = w[row1] + w[row2]
    BY <1>3, <1>14 DEF Additive
  <2>3. Total(w, t) = Total(w, s)
    <3>1. w[name] = w[s[p]] + w[s[p + 1]] /\ w \in Weights
      BY <1>5, <2>2
    <3>2. p \in Nat \ {0} /\ p + 1 <= Len(s) /\ s \in Seq(Row) /\ name \in Row
      BY <1>1, <1>2, <1>3
    <3>3. t = SubSeq(s, 1, p - 1) \o <<name>> \o SubSeq(s, p + 2, Len(s))
      BY <1>6b
    <3> QED BY <3>1, <3>2, <3>3, PairTotal
  <2>4. MergeWeighs(tree, w)
    BY <2>1 DEF MergeOK
  <2>5. From(u) = From(tree)
    BY <1>1, <1>8 DEF From
  <2> QED BY <1>6a, <1>8, <2>3, <2>4, <2>5 DEF MergeWeighs
<1>15. MergeCounts(u)
  <2>1. PICK c : /\ Chain(One, 2, tree.byTime, c, tree.steps)
                 /\ c[tree.steps] = Total(One, ListAt(tree.byTime, tree.steps))
                 /\ Due(tree, c) \in Nat \ {0}
                 /\ Steps(Due(tree, c)) = tree.steps - tree.step
    BY DEF MergeOK, MergeCounts
  <2>2. Due(u, c) = Due(tree, c)
    <3>1. Due(u, c) = (Len(t) + later - 1) + 2 * c[tree.step + 1]
      BY <1>8 DEF Due
    <3>2. Due(tree, c) = (Len(s) + p - 1) + 2 * c[tree.step + 1]
      BY <1>1, <1>6a DEF Due
    <3> QED BY <1>12, <3>1, <3>2
  <2> QED BY <1>8, <2>1, <2>2 DEF MergeCounts
<1>16. ASSUME NEW B \in Nat, AllIn(u.list, By(B)')
       PROVE  MergeBelow(u, B)'
  <2>1. AllIn(tree.list, By(B))
    BY <1>8, <1>9, <1>10, <1>16 DEF AllIn
  <2>2. MergeBelow(tree, B)
    BY <2>1 DEF MergeOK
  <2>3. PICK C \in Nat, D \in Nat :
          C = B + 2 * tree.step /\ D = B + 2 * tree.step + 2 /\ D = C + 2
    <3>1. B + 2 * tree.step \in Nat /\ B + 2 * tree.step + 2 \in Nat
          /\ B + 2 * tree.step + 2 = (B + 2 * tree.step) + 2
      BY <1>2
    <3> QED BY <3>1
  <2>4. \A j \in 1..Len(s) : s[j] \in By(IF j < p THEN D ELSE C)
    BY <1>1, <1>6a, <2>2, <2>3 DEF MergeBelow
  <2>5. ASSUME NEW k \in 1..tree.steps
        PROVE  AllIn(ListAt(tree.byTime, k), By(B + k)')
    <3>1. AllIn(ListAt(tree.byTime, k), By(B + k))
      BY <2>2 DEF MergeBelow
    <3>2. AllIn(ListAt(tree.byTime, k), Rows)
      BY <1>11
    <3> QED BY <1>9, <3>1, <3>2 DEF AllIn
  <2>6. ASSUME NEW j \in 1..Len(t)
        PROVE  t[j] \in By(IF j < u.p THEN D ELSE C)'
    <3>1. /\ j \in 1..Len(s) /\ j + 1 \in 1..Len(s) /\ p \in 1..Len(s) /\ p + 1 \in 1..Len(s)
          /\ p \in Nat /\ j \in Nat
      BY <1>1, <1>2, <1>7, <1>12
    <3>1a. later = p + 1 /\ u.p = later
      BY <1>6a, <1>8
    <3>2. \A i \in 1..Len(s) : s[i] \in Rows
      BY <1>10 DEF AllIn
    <3>3. CASE j < p
      <4>1. t[j] = s[j] /\ j < later
        <5>1. t[j] = s[j]
          BY <1>7, <3>3
        <5>2. j < later
          BY <3>1, <3>1a, <3>3
        <5> QED BY <5>1, <5>2
      <4>2. s[j] \in By(D) /\ s[j] \in Rows
        BY <2>4, <3>1, <3>2, <3>3
      <4>3. s[j] \in By(D)'
        BY <1>9, <4>2
      <4> QED BY <3>1a, <4>1, <4>3
    <3>4. CASE j > p
      <4>1. t[j] = s[j + 1] /\ ~(j < later) /\ ~(j + 1 < p)
        <5>1. t[j] = s[j + 1]
          BY <1>7, <3>1, <3>4
        <5>2. ~(j < later) /\ ~(j + 1 < p)
          BY <3>1, <3>1a, <3>4
        <5> QED BY <5>1, <5>2, Zenon
      <4>2. s[j + 1] \in By(C) /\ s[j + 1] \in Rows
        BY <2>4, <3>1, <3>2, <4>1
      <4>3. s[j + 1] \in By(C)'
        BY <1>9, <4>2
      <4> QED BY <3>1a, <4>1, <4>3
    <3>5. CASE j = p
      <4>1. t[j] = name /\ j < later
        BY <1>7, <3>1, <3>1a, <3>5
      <4>2. row1 \in By(C) /\ row2 \in By(C) /\ row1 \in Rows /\ row2 \in Rows
        <5>1. ~(p < p) /\ ~(p + 1 < p)
          BY <3>1
        <5> QED BY <1>5, <2>4, <3>1, <3>2, <5>1
      <4>3. FSM2[row1] <= C /\ FSM2[row2] <= C
        BY <4>2 DEF By
      <4> DEFINE f1 == FSM2[row1]
                 f2 == FSM2[row2]
                 pt == pairTime
      <4>4. f1 \in Nat /\ f2 \in Nat /\ f1 <= C /\ f2 <= C /\ (pt = f1 + 1 \/ pt = f2 + 1)
        BY <4>3, PairTimes
      <4>5. time <= pt + 1
        OBVIOUS
      <4> HIDE DEF f1, f2, pt
      <4>5a. time \in Nat
        BY <1>3
      <4>5b. C \in Nat /\ D = C + 2
        BY <2>3
      <4>6. time <= D
        BY <4>4, <4>5, <4>5a, <4>5b
      <4>7. name \in By(D)'
        BY <1>3, <1>9, <4>6 DEF By
      <4> QED BY <3>1a, <4>1, <4>7
    <3> QED BY <3>1, <3>3, <3>4, <3>5
  <2> QED BY <1>8, <2>3, <2>5, <2>6 DEF MergeBelow
<1> QED BY <1>8, <1>13, <1>14, <1>15, <1>16 DEF TreeFits, MergeOK
-----------------------------------------------------------------------------
(* The row r stands for all rows of the list.                              *)
Whole(r, list) == \A w : Additive(w) => w[r] = Total(w, list)

(* The row r is written at most 2 * steps states after a row of the list.  *)
Prompt(r, list, steps) ==
  \E k \in 1..Len(list) : list[k] \in Rows /\ FSM2[r] <= FSM2[list[k]] + 2 * steps

(* What was answered for a list.                                           *)
ListAnswered(s) ==
  Sound(s.list) =>
    /\ ~s.lost => /\ s.row \in Rows /\ Whole(s.row, s.list)
                  /\ Prompt(s.row, s.list, Steps(Len(s.list)))
    /\ s.lost => \/ Len(s.list) = 1
                 \/ \E r \in KnownRows : Whole(r, s.list)

(* Every list was answered right.                                          *)
ListsAnswered == \A s \in sums : ListAnswered(s)

(* One row is left, or the one row that never joined, when the steps end.  *)
OneLeft(t) ==
  LET cur == t.currTimeAccList
      last == ListAt(t.byTime, t.steps)
  IN /\ t.step = t.steps /\ Len(cur) + Len(last) = 1
     /\ \A w : Additive(w) => Total(w, t.list) = Total(w, cur) + Total(w, last)

LEMMA OneIsLeft ==
  ASSUME NEW t \in TreeState, MergeOK(t), t.phase = "merge", t.step >= t.steps
  PROVE  OneLeft(t)
<1> DEFINE cur == t.currTimeAccList
           last == ListAt(t.byTime, t.steps)
<1>1. /\ t.step \in Nat /\ t.steps \in Nat /\ cur \in Seq(Row) /\ last \in Seq(Row)
  BY ListAtType DEF TreeState
<1>2. t.step = t.steps
  BY <1>1 DEF MergeOK, MergeRows
<1>3. PICK c : /\ c[t.steps] = Total(One, last)
               /\ Due(t, c) \in Nat \ {0}
               /\ Steps(Due(t, c)) = t.steps - t.step
  BY DEF MergeOK, MergeCounts
<1>4. Steps(Due(t, c)) = 0
  BY <1>1, <1>2, <1>3
<1> DEFINE due == Due(t, c)
<1>5. due \in Nat \ {0} /\ Steps(due) = 0
  BY <1>3, <1>4
<1>6. due = Len(cur) + Len(last)
  <2>1. Total(One, last) = Len(last)
    BY <1>1, TotalLength
  <2> QED BY <1>2, <1>3, <2>1 DEF Due
<1> HIDE DEF due
<1>7. due = 1
  <2> SUFFICES ASSUME due > 1
               PROVE  FALSE
    BY <1>5
  <2>1. Half(due) \in Nat \ {0} /\ Steps(due) = Steps(Half(due)) + 1
    BY <1>5, StepsHalve
  <2>2. Steps(Half(due)) \in Nat
    BY <2>1, StepsHalve
  <2> QED BY <1>5, <2>1, <2>2
<1>8. ASSUME NEW w, Additive(w)
      PROVE  Total(w, t.list) = Total(w, cur) + Total(w, last)
  <2>1. From(t) = t.steps
    BY <1>2 DEF From
  <2> QED BY <1>8, <2>1 DEF MergeOK, MergeWeighs
<1>9. Len(cur) + Len(last) = 1
  BY <1>6, <1>7, Zenon
<1> QED BY <1>2, <1>8, <1>9, Zenon DEF OneLeft

(* An element of a list of rows.                                           *)
LEMMA RowIn ==
  ASSUME NEW s \in Seq(Row), NEW k \in 1..Len(s)
  PROVE  s[k] \in Row
OBVIOUS

(* A list of one row weighs what the row does.                             *)
LEMMA OneRow ==
  ASSUME NEW s \in Seq(Row), Len(s) = 1
  PROVE  s[1] \in Row /\ \A w \in Weights : Total(w, s) = w[s[1]]
<1>0. 1 \in 1..Len(s)
  OBVIOUS
<1>1. s[1] \in Row
  BY <1>0, RowIn
<1> DEFINE r == s[1]
           t == <<r>>
<1>2. t \in Seq(Row) /\ Len(t) = 1 /\ t[1] = r /\ r = s[1]
  BY <1>1
<1>3. s = t
  <2> HIDE DEF t, r
  <2>1. \A i \in 1..Len(s) : s[i] = t[i]
    <3> SUFFICES ASSUME NEW i \in 1..Len(s)
                 PROVE  s[i] = t[i]
      OBVIOUS
    <3>1. i = 1
      OBVIOUS
    <3> QED BY <1>2, <3>1
  <2> QED BY <1>2, <2>1, SameRows
<1>4. ASSUME NEW w \in Weights
      PROVE  Total(w, s) = w[s[1]]
  <2>1. Total(w, t) = w[r]
    BY <1>1, TotalOne
  <2> HIDE DEF t
  <2> QED BY <1>3, <2>1
<1> QED BY <1>1, <1>4

(* A list of none weighs nothing.                                          *)
LEMMA NoRow ==
  ASSUME NEW s \in Seq(Row), Len(s) = 0, NEW w \in Weights
  PROVE  Total(w, s) = 0
<1>1. s = << >>
  OBVIOUS
<1> QED BY <1>1, TotalEmpty

(* The last row written of a list, from the bounds that hold for all.      *)
LEMMA PromptFrom ==
  ASSUME BindInv, NEW list \in Seq(Row), Len(list) # 0, AllIn(list, Rows), NEW r \in Rows,
         NEW steps \in Nat, \A B \in Nat : AllIn(list, By(B)) => r \in By(B + 2 * steps)
  PROVE  Prompt(r, list, steps)
<1> DEFINE Late == {B \in Nat : AllIn(list, By(B))}
           w == [x \in Row |-> IF x \in Rows THEN FSM2[x] ELSE 0]
<1>1. Rows \subseteq Row /\ \A x \in Rows : FSM2[x] \in Nat
  <2>1. DOMAIN FSM2 = Rows
    BY DEF BindInv, Placed
  <2>2. TimesOK(FSM2)
    BY TypeParts DEF BindInv, TypeInv
  <2> QED BY <2>1, <2>2 DEF TimesOK
<1>2. w \in Weights /\ \A x \in Rows : w[x] = FSM2[x]
  BY <1>1 DEF Weights
<1> HIDE DEF w
<1>3. Total(w, list) \in Late
  <2>1. Total(w, list) \in Nat
    BY <1>2, TotalNat
  <2>2. ASSUME NEW k \in 1..Len(list)
        PROVE  list[k] \in By(Total(w, list))
    <3>1. w[list[k]] <= Total(w, list)
      BY <1>2, TotalBounds
    <3> QED BY <1>1, <1>2, <3>1 DEF By
  <2> QED BY <2>1, <2>2 DEF AllIn
<1>4. PICK B \in Late : \A C \in Late : B <= C
  <2>1. Late \subseteq Nat /\ Late # {}
    BY <1>3
  <2> HIDE DEF Late
  <2> QED BY <2>1, LeastNumber
<1>5. B \in Nat /\ AllIn(list, By(B))
  OBVIOUS
<1>6. FSM2[r] <= B + 2 * steps /\ FSM2[r] \in Nat
  BY <1>1, <1>5 DEF By
<1>7. \A k \in 1..Len(list) : list[k] \in Rows
  BY DEF AllIn
<1>8. CASE B = 0
  <2>1. 1 \in 1..Len(list) /\ list[1] \in Rows
    BY <1>7
  <2>2. FSM2[list[1]] \in Nat
    BY <1>1, <2>1
  <2>3. FSM2[r] <= FSM2[list[1]] + 2 * steps
    BY <1>6, <1>8, <2>2
  <2> QED BY <2>1, <2>3 DEF Prompt
<1>9. CASE B # 0
  <2>1. B - 1 \in Nat /\ ~(B <= B - 1)
    BY <1>5, <1>9
  <2>2. B - 1 \notin Late
    <3> HIDE DEF Late
    <3> QED BY <1>4, <2>1
  <2>3. ~AllIn(list, By(B - 1))
    BY <2>1, <2>2
  <2>4. PICK k \in 1..Len(list) : list[k] \notin By(B - 1)
    BY <2>3 DEF AllIn
  <2>5. list[k] \in Rows /\ FSM2[list[k]] \in Nat /\ ~(FSM2[list[k]] <= B - 1)
    BY <1>1, <1>7, <2>4 DEF By
  <2>6. FSM2[r] <= FSM2[list[k]] + 2 * steps
    BY <1>5, <1>6, <2>5
  <2> QED BY <2>5, <2>6 DEF Prompt
<1> QED BY <1>8, <1>9
-----------------------------------------------------------------------------
(* What was answered stays right.                                          *)
LEMMA AnsweredKept ==
  ASSUME BindInv, BindInv', PartialsOK, Grown, optimise' = optimise, NEW s,
         s.list \in Seq(Row), ListAnswered(s)
  PROVE  ListAnswered(s)'
<1>1. DOMAIN FSM2 = Rows /\ DOMAIN FSM2' = Rows'
  BY DEF BindInv, Placed
<1>2. Rows \subseteq Rows' /\ \A r \in Rows : FSM2'[r] = FSM2[r]
  BY <1>1 DEF Grown, Enlarges
<1>3. KnownRows \subseteq KnownRows'
  BY DEF KnownRows, Grown, Enlarges
<1>4. ASSUME NEW r, NEW list, Whole(r, list)
      PROVE  Whole(r, list)'
  <2>1. ASSUME NEW w, Additive(w)'
        PROVE  w[r] = Total(w, list)
    <3>1. Additive(w)
      BY <2>1, AdditiveBefore
    <3> QED BY <1>4, <3>1 DEF Whole
  <2> QED BY <2>1 DEF Whole
<1>5. ASSUME NEW r \in Rows, NEW list, NEW steps, Prompt(r, list, steps)
      PROVE  Prompt(r, list, steps)'
  BY <1>2, <1>5 DEF Prompt
<1> SUFFICES ASSUME Sound(s.list)'
             PROVE  /\ ~s.lost => /\ s.row \in Rows' /\ Whole(s.row, s.list)'
                                  /\ Prompt(s.row, s.list, Steps(Len(s.list)))'
                    /\ s.lost => \/ Len(s.list) = 1
                                 \/ \E r \in KnownRows' : Whole(r, s.list)'
  BY DEF ListAnswered
<1>6. Sound(s.list)
  BY DEF Sound
<1>7. CASE ~s.lost
  <2>1. /\ s.row \in Rows /\ Whole(s.row, s.list)
        /\ Prompt(s.row, s.list, Steps(Len(s.list)))
    BY <1>6, <1>7 DEF ListAnswered
  <2> QED BY <1>2, <1>4, <1>5, <1>7, <2>1
<1>8. CASE s.lost
  <2>1. Len(s.list) = 1 \/ \E r \in KnownRows : Whole(r, s.list)
    BY <1>6, <1>8 DEF ListAnswered
  <2> QED BY <1>3, <1>4, <1>8, <2>1
<1> QED BY <1>7, <1>8

(* The front of the list, when the tree is built.                          *)
LEMMA FrontAnswered ==
  ASSUME BindInv, TypeAcc, PartialsOK, AnswerFront, Sound(tree.list) => MergeOK(tree),
         NEW s \in sums', s \notin sums
  PROVE  ListAnswered(s)
<1> DEFINE cur == tree.currTimeAccList
           last == ListAt(tree.byTime, tree.steps)
           list == tree.list
<1>1. Summing /\ tree.phase = "merge" /\ tree.step >= tree.steps
  BY DEF AnswerFront, Merging
<1>2. /\ tree \in TreeState /\ cur \in Seq(Row) /\ list \in Seq(Row) /\ Len(list) # 0
      /\ tree.step \in Nat /\ tree.steps \in Nat /\ tree.byTime \in ByTimes
  BY <1>1, ReuseTypes
<1>3. last \in Seq(Row)
  BY <1>2, ListAtType
<1>4. /\ s.list = list
      /\ \/ cur # << >> /\ s.row = Head(cur) /\ s.lost = FALSE
         \/ cur = << >> /\ s.lost = TRUE
  BY DEF AnswerFront, Answer
<1> SUFFICES ASSUME Sound(list)
             PROVE  /\ ~s.lost => /\ s.row \in Rows /\ Whole(s.row, list)
                                  /\ Prompt(s.row, list, Steps(Len(list)))
                    /\ s.lost => \/ Len(list) = 1
                                 \/ \E r \in KnownRows : Whole(r, list)
  BY <1>4 DEF ListAnswered
<1>5. MergeOK(tree) /\ MergeRows(tree)
  BY DEF MergeOK
<1>6. /\ tree.step = tree.steps /\ Len(cur) + Len(last) = 1
      /\ \A w : Additive(w) => Total(w, list) = Total(w, cur) + Total(w, last)
  <2>1. /\ tree \in TreeState /\ MergeOK(tree) /\ tree.phase = "merge"
        /\ tree.step >= tree.steps
    BY <1>1, <1>2, <1>5, Zenon
  <2>2. OneLeft(tree)
    BY <2>1, OneIsLeft, Zenon
  <2> QED BY <2>2, Zenon DEF OneLeft
<1>7. tree.steps = Steps(Len(list))
  BY <1>5 DEF MergeRows
<1>8. \A w : Additive(w) => w \in Weights
  BY DEF Additive
<1>9. CASE cur # << >>
  <2>1. Len(cur) = 1 /\ Len(last) = 0
    <3>1. Len(cur) \in Nat /\ Len(last) \in Nat /\ Len(cur) # 0
      BY <1>2, <1>3, <1>9
    <3> DEFINE x == Len(cur)
               y == Len(last)
    <3>2. x + y = 1 /\ x \in Nat /\ y \in Nat /\ x # 0
      BY <1>6, <3>1
    <3> HIDE DEF x, y
    <3>3. x = 1 /\ y = 0
      BY <3>2
    <3> QED BY <3>3 DEF x, y
  <2>2. cur[1] \in Row /\ \A w \in Weights : Total(w, cur) = w[cur[1]]
    <3> HIDE DEF cur
    <3> QED BY <1>2, <2>1, OneRow
  <2>3. s.row = cur[1] /\ ~s.lost
    BY <1>2, <1>4, <1>9, HeadTailProperties
  <2>4. tree.step # 0
    BY <1>1, <1>5, <1>9 DEF MergeRows
  <2>5. AllIn(cur, Rows) /\ AllIn(list, Rows)
    BY <1>1, <1>2, <1>5, <2>4 DEF MergeRows
  <2>6. cur[1] \in Rows
    <3>1. 1 \in 1..Len(cur)
      BY <2>1
    <3> QED BY <2>5, <3>1 DEF AllIn
  <2> HIDE DEF cur, last, list
  <2>7. Whole(cur[1], list)
    <3> SUFFICES ASSUME NEW w, Additive(w)
                 PROVE  w[cur[1]] = Total(w, list)
      BY DEF Whole
    <3>1. w \in Weights /\ Total(w, list) = Total(w, cur) + Total(w, last)
      BY <1>6, <1>8
    <3>2. Total(w, last) = 0 /\ Total(w, cur) = w[cur[1]]
      BY <1>3, <2>1, <2>2, <3>1, NoRow
    <3>3. w[cur[1]] \in Nat
      BY <2>2, <3>1 DEF Weights
    <3> QED BY <3>1, <3>2, <3>3
  <2>8. ASSUME NEW B \in Nat, AllIn(list, By(B))
        PROVE  cur[1] \in By(B + 2 * tree.steps)
    <3>1. MergeBelow(tree, B)
      BY <1>5, <2>8 DEF MergeOK, list
    <3>2. AllIn(cur, By(B + 2 * tree.step))
      BY <1>1, <3>1 DEF MergeBelow, cur
    <3>3. 1 \in 1..Len(cur)
      BY <2>1
    <3> QED BY <1>6, <3>2, <3>3 DEF AllIn
  <2>9. Prompt(cur[1], list, tree.steps)
    BY <1>2, <2>5, <2>6, <2>8, PromptFrom
  <2> QED BY <1>7, <2>3, <2>6, <2>7, <2>9
<1>10. CASE cur = << >>
  <2>1. Len(cur) = 0 /\ Len(last) = 1 /\ s.lost
    <3>1. Len(cur) = 0 /\ Len(last) \in Nat
      BY <1>3, <1>10
    <3> QED BY <1>4, <1>6, <1>10, <3>1
  <2>2. last[1] \in Row /\ \A w \in Weights : Total(w, last) = w[last[1]]
    <3> HIDE DEF last
    <3> QED BY <1>3, <2>1, OneRow
  <2>3. CASE tree.steps = 0
    <3> DEFINE n == Len(list)
    <3>1. n \in Nat \ {0} /\ Steps(n) = 0
      BY <1>2, <1>7, <2>3
    <3> HIDE DEF n
    <3>2. n = 1
      <4> SUFFICES ASSUME n > 1
                   PROVE  FALSE
        BY <3>1
      <4>1. Half(n) \in Nat \ {0} /\ Steps(n) = Steps(Half(n)) + 1
        BY <3>1, StepsHalve
      <4>2. Steps(Half(n)) \in Nat
        BY <4>1, StepsHalve
      <4> QED BY <3>1, <4>1, <4>2
    <3> QED BY <2>1, <3>2 DEF n
  <2>4. CASE tree.steps # 0
    <3>1. tree.steps \in 1..tree.steps /\ 1 \in 1..Len(last)
      BY <1>2, <2>1, <2>4
    <3>2. AllIn(last, KnownRows)
      BY <1>5, <3>1 DEF MergeRows
    <3>3. last[1] \in KnownRows
      BY <3>1, <3>2 DEF AllIn
    <3> HIDE DEF cur, last, list
    <3>4. Whole(last[1], list)
      <4> SUFFICES ASSUME NEW w, Additive(w)
                   PROVE  w[last[1]] = Total(w, list)
        BY DEF Whole
      <4>1. w \in Weights /\ Total(w, list) = Total(w, cur) + Total(w, last)
        BY <1>6, <1>8
      <4>2. Total(w, cur) = 0 /\ Total(w, last) = w[last[1]]
        BY <1>2, <2>1, <2>2, <4>1, NoRow
      <4>3. w[last[1]] \in Nat
        BY <2>2, <4>1 DEF Weights
      <4> QED BY <4>1, <4>2, <4>3
    <3> QED BY <2>1, <3>3, <3>4
  <2> QED BY <2>3, <2>4
<1> QED BY <1>9, <1>10

(* A step that leaves the tables alone leaves a tree as it is.             *)
LEMMA FitsKept ==
  ASSUME UNCHANGED <<limArray, FSM2, computes, optimise, addMap, summands>>,
         NEW u, TreeFits(u)
  PROVE  TreeFits(u)'
<1>1. /\ Rows' = Rows /\ KnownRows' = KnownRows /\ FSM2' = FSM2 /\ addMap' = addMap
      /\ optimise' = optimise /\ summands' = summands /\ computes' = computes
  BY DEF Rows, KnownRows
<1>2. \A B : By(B)' = By(B)
  BY <1>1 DEF By
<1>3. \A w : Additive(w)' => Additive(w)
  BY <1>1 DEF Additive
<1>4. \A w, factor : Balanced(w, factor)' => Balanced(w, factor)
  BY <1>3 DEF Balanced, One
<1>5. CASE u.phase = "reuse"
  <2>1. ReuseOK(u)
    BY <1>5 DEF TreeFits
  <2>2. ReuseRows(u)'
    BY <1>1, <2>1 DEF ReuseOK, ReuseRows
  <2>3. ReuseKnown(u)'
    BY <1>1, <2>1 DEF ReuseOK, ReuseKnown
  <2>4. \A w, factor : Balanced(w, factor)' => ReuseWeighs(u, w, factor)'
    BY <1>4, <2>1 DEF ReuseOK, ReuseWeighs
  <2>5. ASSUME NEW B \in Nat, AllIn(u.list, By(B)')
        PROVE  ReuseBelow(u, B)'
    <3>1. ReuseBelow(u, B)
      BY <1>2, <2>1, <2>5 DEF ReuseOK
    <3> QED BY <1>2, <3>1 DEF ReuseBelow
  <2> QED BY <1>5, <2>2, <2>3, <2>4, <2>5 DEF TreeFits, ReuseOK
<1>6. CASE u.phase # "reuse"
  <2>1. MergeOK(u)
    BY <1>6 DEF TreeFits
  <2>2. MergeRows(u)'
    BY <1>1, <2>1 DEF MergeOK, MergeRows
  <2>3. \A w : Additive(w)' => MergeWeighs(u, w)'
    BY <1>3, <2>1 DEF MergeOK, MergeWeighs
  <2>4. MergeCounts(u)'
    BY <2>1 DEF MergeOK, MergeCounts
  <2>5. ASSUME NEW B \in Nat, AllIn(u.list, By(B)')
        PROVE  MergeBelow(u, B)'
    <3>1. MergeBelow(u, B)
      BY <1>2, <2>1, <2>5 DEF MergeOK
    <3> QED BY <1>2, <3>1 DEF MergeBelow
  <2> QED BY <1>6, <2>2, <2>3, <2>4, <2>5 DEF TreeFits, MergeOK
<1> QED BY <1>5, <1>6
-----------------------------------------------------------------------------
(* The tree of a list with which the optimisation can deal is in order.    *)
TreeInv == Summing /\ Sound(tree.list) => \A t : t = tree => TreeFits(t)

(* The inductive invariant of the accumulation.                            *)
AccInv ==
  BindInv /\ TypeAcc /\ PartialsOK /\ optimise \in BOOLEAN /\ TreeInv /\ ListsAnswered

(* No list is answered at the start.                                       *)
LEMMA AccInvInit == InitAcc => TreeInv /\ ListsAnswered /\ optimise \in BOOLEAN
BY OptimisationsAssumption DEF InitAcc, TreeInv, ListsAnswered, Summing

(* The option is never written.                                            *)
LEMMA OptimiseKept ==
  ASSUME [NextAcc]_allVars
  PROVE  optimise' = optimise
<1>1. CASE UNCHANGED allVars \/ (~Accumulating /\ Next /\ UNCHANGED accVars)
  BY <1>1 DEF accVars, allVars
<1>2. CASE \E op \in AccOps, reg \in Temps, reg1 \in Named, a \in AccAccesses,
              shape \in Shapes : FetchAccumulation(op, reg, reg1, a, shape)
  BY <1>2 DEF FetchAccumulation
<1>3. CASE TakeList \/ EndAccumulation \/ AnswerFront \/ MissingAccRow
  BY <1>3 DEF TakeList, EndAccumulation, AnswerFront, Answer, MissingAccRow, accVars
<1>4. CASE ReplacePair \/ KeepRow \/ EndPass \/ BeginStep \/ EndStep
  BY <1>4 DEF ReplacePair, KeepRow, EndPass, BeginStep, EndStep
<1>5. CASE ConvertRow1 \/ ConvertRow2 \/ CopyInTree
  BY <1>5 DEF ConvertRow1, ConvertRow2, CopyInTree, ConvertInTree, AddPartial
<1> QED BY <1>1, <1>2, <1>3, <1>4, <1>5 DEF NextAcc, performAccBinding

(* A step that moves rows about in the tree, or begins one.                *)
LEMMA TreeMoved ==
  ASSUME UNCHANGED <<limArray, FSM2, computes, optimise, addMap, summands>>,
         Sound(tree'.list) => TreeFits(tree')
  PROVE  TreeInv'
<1> SUFFICES ASSUME Sound(tree.list)', NEW t, t = tree'
             PROVE  TreeFits(t)'
  BY DEF TreeInv
<1>1. Sound(tree'.list)
  BY DEF Sound
<1>2. TreeFits(t)
  BY <1>1
<1> QED BY <1>2, FitsKept

(* Every step keeps the tree in order.                                     *)
LEMMA TreeInvStep ==
  ASSUME NoShifts, AccInv, [NextAcc]_allVars, Grown, BindInv', TypeAcc', PartialsOK'
  PROVE  TreeInv'
<1>0. /\ BindInv /\ TypeAcc /\ PartialsOK /\ optimise \in BOOLEAN /\ TreeInv
      /\ optimise' = optimise /\ TypeInv'
  BY OptimiseKept DEF AccInv, TypeAcc
<1>1. ASSUME Summing, Summing', Sound(tree.list)'
      PROVE  Sound(tree.list) /\ TreeFits(tree)
  <2>1. tree'.list = tree.list
    BY <1>0, <1>1, SameList
  <2>2. Sound(tree.list)
    BY <1>0, <1>1, <2>1 DEF Sound
  <2> QED BY <1>0, <1>1, <2>2 DEF TreeInv
<1>2. CASE ~Summing'
  BY <1>2 DEF TreeInv
<1>3. CASE UNCHANGED <<limArray, FSM2, computes, optimise, addMap, summands>> /\ tree' = tree
  <2> SUFFICES ASSUME Summing', Sound(tree.list)', NEW t, t = tree'
               PROVE  TreeFits(t)'
    BY DEF TreeInv
  <2>1. Summing
    BY <1>3 DEF Summing
  <2>2. TreeFits(t)
    BY <1>1, <1>3, <2>1
  <2> QED BY <1>3, <2>2, FitsKept
<1>4. CASE UNCHANGED allVars
  BY <1>3, <1>4 DEF allVars, vars, accVars
<1>5. CASE ~Accumulating /\ Next /\ UNCHANGED accVars
  <2>1. ~Summing
    BY <1>0, <1>5 DEF TypeAcc, AccTypes, TreeOK
  <2>2. tree' = tree
    BY <1>5 DEF accVars
  <2> QED BY <1>2, <2>1, <2>2 DEF Summing
<1>6. CASE \E op \in AccOps, reg \in Temps, reg1 \in Named, a \in AccAccesses,
              shape \in Shapes : FetchAccumulation(op, reg, reg1, a, shape)
  BY <1>3, <1>6 DEF FetchAccumulation, vars
<1>7. CASE TakeList
  <2> SUFFICES ASSUME Summing'
               PROVE  TreeInv'
    BY <1>2
  <2>1. PICK list : tree' = NewTree(list)
    BY <1>7 DEF TakeList
  <2>2. UNCHANGED <<limArray, FSM2, computes, optimise, addMap, summands>> /\ Summing'
    BY <1>7 DEF TakeList, vars
  <2>3. tree'.list = list
    BY <2>1 DEF NewTree, Allocate
  <2>4. list \in Seq(Row) /\ Len(list) # 0
    <3>1. tree' \in TreeState /\ Len(tree'.list) # 0
      BY <2>2 DEF TypeAcc, AccTypes, TreeOK
    <3> QED BY <2>3, <3>1 DEF TreeState
  <2>5. Sound(list) => TreeFits(NewTree(list))
    BY <1>0, <2>4, NewTreeFits
  <2> QED BY <2>1, <2>2, <2>3, <2>5, TreeMoved
<1>8. CASE EndAccumulation \/ AnswerFront
  <2>1. ~Summing'
    BY <1>8 DEF EndAccumulation, AnswerFront, Answer, Summing
  <2> QED BY <1>2, <2>1
<1>9. CASE MissingAccRow
  BY <1>3, <1>9 DEF MissingAccRow, tables, history, accVars
<1>10. CASE ReplacePair \/ KeepRow \/ EndPass
  <2>1. /\ Summing /\ tree.phase = "reuse"
        /\ UNCHANGED <<limArray, FSM2, computes, optimise, addMap, summands>>
    BY <1>10 DEF ReplacePair, KeepRow, EndPass, Reducing, vars
  <2> SUFFICES ASSUME Summing', Sound(tree.list)'
               PROVE  TreeFits(tree')
    BY <1>2, <2>1, TreeMoved DEF Sound
  <2>2. ReuseOK(tree)
    BY <1>1, <2>1 DEF TreeFits
  <2> QED BY <1>0, <1>10, <2>2, ReplacePairFits, KeepRowFits, EndPassFits
<1>11. CASE BeginStep \/ EndStep
  <2>1. /\ Summing /\ tree.phase # "reuse"
        /\ UNCHANGED <<limArray, FSM2, computes, optimise, addMap, summands>>
    BY <1>11 DEF BeginStep, EndStep, Merging, vars
  <2> SUFFICES ASSUME Summing', Sound(tree.list)'
               PROVE  TreeFits(tree')
    BY <1>2, <2>1, TreeMoved DEF Sound
  <2>2. MergeOK(tree)
    BY <1>1, <2>1 DEF TreeFits
  <2> QED BY <1>0, <1>11, <2>2, BeginStepFits, EndStepFits
<1>12. ASSUME CanPair, NEW arr, NEW fsm2, NEW row, NEW name, NEW time,
              Paired(arr, fsm2, row, name, time), time <= pairTime + 1
       PROVE  TreeInv'
  <2>1. Summing /\ tree.phase = "bind"
    BY <1>0, <1>12, CanPairFacts
  <2> SUFFICES ASSUME Summing', Sound(tree.list)', NEW t, t = tree'
               PROVE  TreeFits(t)'
    BY DEF TreeInv
  <2>2. MergeOK(tree)
    BY <1>1, <2>1 DEF TreeFits
  <2> QED BY <1>0, <1>12, <2>2, PairFits
<1>13. CASE ConvertRow1 \/ ConvertRow2
  <2>1. CanPair
    BY <1>13 DEF ConvertRow1, ConvertRow2
  <2>2. PICK arr, row : Paired(arr, FSM2, row, zeroAddr, pairTime)
    BY <1>0, <1>13, ConvertedPair
  <2>3. pairTime \in Nat
    BY <1>0, <2>1, CanPairFacts
  <2>4. pairTime <= pairTime + 1
    <3> DEFINE n == pairTime
    <3>1. n \in Nat
      BY <2>3
    <3> HIDE DEF n
    <3>2. n <= n + 1
      BY <3>1
    <3> QED BY <3>2 DEF n
  <2> QED BY <1>12, <2>1, <2>2, <2>4
<1>14. CASE CopyInTree
  <2>1. CanPair
    BY <1>14 DEF CopyInTree
  <2>2. PICK arr, fsm2 : Paired(arr, fsm2, zeroAddr, zeroAddr + 1, pairTime + 1)
    BY <1>0, <1>14, CopiedPair
  <2>3. pairTime + 1 <= pairTime + 1
    <3>1. pairTime + 1 \in Nat
      BY <1>0, <2>1, CanPairFacts
    <3> QED BY <3>1
  <2> QED BY <1>12, <2>1, <2>2, <2>3
<1> QED BY <1>4, <1>5, <1>6, <1>7, <1>8, <1>9, <1>10, <1>11, <1>13, <1>14
        DEF NextAcc, performAccBinding

(* Every step answers a list right, and leaves the answers right.          *)
LEMMA ListsAnsweredStep ==
  ASSUME NoShifts, AccInv, [NextAcc]_allVars, Grown, BindInv', TypeAcc'
  PROVE  ListsAnswered'
<1>0. /\ BindInv /\ TypeAcc /\ PartialsOK /\ TreeInv /\ ListsAnswered /\ optimise' = optimise
  BY OptimiseKept DEF AccInv
<1> SUFFICES ASSUME NEW s \in sums'
             PROVE  ListAnswered(s)'
  BY DEF ListsAnswered
<1>1. s.list \in Seq(Row)
  BY DEF TypeAcc, AccTypes, SumsOK
<1>2. sums' = sums \/ AnswerFront
  <2>1. CASE UNCHANGED allVars \/ (~Accumulating /\ Next /\ UNCHANGED accVars)
    BY <2>1 DEF accVars, allVars
  <2>2. CASE \E op \in AccOps, reg \in Temps, reg1 \in Named, a \in AccAccesses,
                shape \in Shapes : FetchAccumulation(op, reg, reg1, a, shape)
    BY <2>2 DEF FetchAccumulation
  <2>3. CASE TakeList \/ EndAccumulation \/ MissingAccRow
    BY <2>3 DEF TakeList, EndAccumulation, MissingAccRow, accVars
  <2>4. CASE ReplacePair \/ KeepRow \/ EndPass \/ BeginStep \/ EndStep
    BY <2>4 DEF ReplacePair, KeepRow, EndPass, BeginStep, EndStep
  <2>5. CASE ConvertRow1 \/ ConvertRow2 \/ CopyInTree
    BY <2>5 DEF ConvertRow1, ConvertRow2, CopyInTree, ConvertInTree, AddPartial
  <2> QED BY <2>1, <2>2, <2>3, <2>4, <2>5 DEF NextAcc, performAccBinding
<1>3. ListAnswered(s)
  <2>1. CASE s \in sums
    BY <1>0, <2>1 DEF ListsAnswered
  <2>2. CASE s \notin sums
    <3>1. AnswerFront
      BY <1>2, <2>2
    <3>2. Summing /\ tree.phase = "merge"
      BY <3>1 DEF AnswerFront, Merging
    <3>3. Sound(tree.list) => MergeOK(tree)
      BY <1>0, <3>2 DEF TreeInv, TreeFits
    <3> QED BY <1>0, <2>2, <3>1, <3>3, FrontAnswered
  <2> QED BY <2>1, <2>2
<1> QED BY <1>0, <1>1, <1>3, AnsweredKept

(* The invariant of the accumulation is inductive.                         *)
LEMMA AccInvStep ==
  ASSUME NoShifts, AccInv, [NextAcc]_allVars
  PROVE  AccInv'
<1>1. BindInv /\ TypeAcc /\ PartialsOK
  BY DEF AccInv
<1>2. BindInv' /\ TypeAcc'
  BY <1>1, BindInvAccStep, TypeAccStep
<1>3. TypeInv'
  BY <1>2 DEF TypeAcc
<1>4. Grown /\ PartialsOK'
  BY <1>1, <1>3, GrownStep, PartialsStep
<1>5. optimise' \in BOOLEAN
  BY OptimiseKept DEF AccInv
<1>6. TreeInv'
  BY <1>2, <1>4, TreeInvStep
<1>7. ListsAnswered'
  BY <1>2, <1>4, ListsAnsweredStep
<1> QED BY <1>2, <1>4, <1>5, <1>6, <1>7 DEF AccInv
-----------------------------------------------------------------------------
(* A row that stands for a list is the sum of its rows, copy by copy.      *)
LEMMA WholeIsSum ==
  ASSUME BindInv, PartialsOK, NEW list \in Seq(Row), NEW r \in Row, Whole(r, list)
  PROVE  Summands(r) = SumOf(list)
<1>1. SummandsOK
  BY SummandsAreBags
<1>2. Summands(r) \in RowBags /\ SumOf(list) \in RowBags
  BY <1>1, SumCopies DEF SummandsOK
<1>3. ASSUME NEW e \in Row
      PROVE  Copies(e, Summands(r)) = Copies(e, SumOf(list))
  <2>1. CountOf(e)[r] = Total(CountOf(e), list)
    BY CountAdditive DEF Whole
  <2>2. CountOf(e)[r] = Copies(e, Summands(r))
    BY <1>1, CountWeights
  <2>3. Copies(e, SumOf(list)) = Total(CountOf(e), list)
    BY <1>1, SumCopies
  <2> QED BY <2>1, <2>2, <2>3
<1> QED BY <1>2, <1>3, BagEqual

(* The invariant of the accumulation, on every reachable state.            *)
LEMMA AccInvariant == NoShifts => (SpecAcc => []AccInv)
<1> SUFFICES ASSUME NoShifts
             PROVE  SpecAcc => []AccInv
  OBVIOUS
<1>1. InitAcc => AccInv
  BY BindInvInit, TypeAccInit, PartialsInit, AccInvInit DEF InitAcc, AccInv
<1>2. AccInv /\ [NextAcc]_allVars => AccInv'
  BY AccInvStep
<1> QED BY <1>1, <1>2, PTL DEF SpecAcc

(* What the invariant says of a list that was answered.                    *)
LEMMA AnsweredRows ==
  ASSUME AccInv, NEW s \in sums
  PROVE  /\ BindInv /\ PartialsOK /\ ListAnswered(s)
         /\ s.list \in Seq(Row) /\ Rows \subseteq Row /\ KnownRows \subseteq Row
<1>1. BindInv /\ TypeAcc /\ PartialsOK /\ ListAnswered(s)
  BY DEF AccInv, ListsAnswered
<1>2. s.list \in Seq(Row)
  BY <1>1 DEF TypeAcc, AccTypes, SumsOK
<1>3. Rows \subseteq Row
  <2>1. DOMAIN FSM2 = Rows
    BY <1>1 DEF BindInv, Placed
  <2>2. TimesOK(FSM2)
    BY <1>1, TypeParts DEF BindInv, TypeInv
  <2> QED BY <2>1, <2>2 DEF TimesOK
<1>4. KnownRows \subseteq Row
  BY <1>1 DEF TypeAcc, AccTypes, AddMapOK, KnownRows
<1> QED BY <1>1, <1>2, <1>3, <1>4

(* Whatever was reused, converted or copied on the way, the row answered   *)
(* for a list adds every row of the list as often as the list names it     *)
(* (findBestMatch, LiMBinder.cpp:514-593; the tree of two operand          *)
(* additions, 633-888).                                                    *)
THEOREM SumsAreExact == NoShifts => (SpecAcc => []SumsExact)
<1> SUFFICES ASSUME NoShifts
             PROVE  SpecAcc => []SumsExact
  OBVIOUS
<1>1. AccInv => SumsExact
  <2> SUFFICES ASSUME AccInv, NEW s \in sums, ~s.lost, Sound(s.list)
               PROVE  Summands(s.row) = SumOf(s.list)
    BY DEF SumsExact
  <2>1. s.row \in Row /\ Whole(s.row, s.list)
    BY AnsweredRows DEF ListAnswered
  <2> QED BY <2>1, AnsweredRows, WholeIsSum
<1> QED BY <1>1, AccInvariant, PTL

(* The front of an empty list is read (LiMBinder.cpp:885,898) only when    *)
(* the list has one row, or when one known row already is its whole sum.   *)
THEOREM OnlyWholeIsLost == NoShifts => (SpecAcc => []LostOnlyWhole)
<1> SUFFICES ASSUME NoShifts
             PROVE  SpecAcc => []LostOnlyWhole
  OBVIOUS
<1>1. AccInv => LostOnlyWhole
  <2> SUFFICES ASSUME AccInv, NEW s \in sums, s.lost, Sound(s.list), Len(s.list) # 1
               PROVE  \E r \in DOMAIN addMap : Summands(r) = SumOf(s.list)
    BY DEF LostOnlyWhole
  <2>1. PICK r \in KnownRows : Whole(r, s.list)
    BY AnsweredRows DEF ListAnswered
  <2>2. r \in Row
    BY AnsweredRows
  <2>3. Summands(r) = SumOf(s.list)
    BY <2>1, <2>2, AnsweredRows, WholeIsSum
  <2> QED BY <2>1, <2>3 DEF KnownRows
<1> QED BY <1>1, AccInvariant, PTL

(* The sum of a list is written at most two states a level after one of    *)
(* its rows: a level costs a copy row and a result row at worst            *)
(* (LiMBinder.cpp:699-872).                                                *)
THEOREM DelayIsLogarithmic == NoShifts => (SpecAcc => []LogarithmicDelay)
<1> SUFFICES ASSUME NoShifts
             PROVE  SpecAcc => []LogarithmicDelay
  OBVIOUS
<1>1. AccInv => LogarithmicDelay
  <2> SUFFICES ASSUME AccInv, NEW s \in sums, ~s.lost, Sound(s.list)
               PROVE  \E k \in DOMAIN s.list :
                        FSM2[s.row] <= FSM2[s.list[k]] + 2 * Steps(Len(s.list))
    BY DEF LogarithmicDelay
  <2>1. Prompt(s.row, s.list, Steps(Len(s.list))) /\ s.list \in Seq(Row)
    BY AnsweredRows DEF ListAnswered
  <2>2. DOMAIN s.list = 1..Len(s.list)
    BY <2>1
  <2> QED BY <2>1, <2>2 DEF Prompt
<1> QED BY <1>1, AccInvariant, PTL
=============================================================================
