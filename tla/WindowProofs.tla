---------------------------- MODULE WindowProofs ----------------------------
(* The theorems about the window and its worker. *)
EXTENDS Window, FiniteSetTheorems, SequenceTheorems, NaturalsInduction, TLAPS

-----------------------------------------------------------------------------
(* What is defined by going through a sequence: it exists, and what every step keeps
   holds at the end.  Sets stand for the induction, as the provers cannot
   instantiate an operator. *)

\* A set of natural numbers that is not empty has a least one.
LEMMA LeastNatural ==
  ASSUME NEW S \in SUBSET Nat, S # {}
  PROVE  \E n \in S : \A k \in S : n <= k
<1>1. IsWellFoundedOn(OpToRel(<, Nat), Nat)
  BY NatLessThanWellFounded
<1>2. \E n \in S : \A k \in S : ~(<<k, n>> \in OpToRel(<, Nat))
  BY <1>1, WFMin
<1>3. ASSUME NEW k \in Nat, NEW n \in Nat, k < n PROVE <<k, n>> \in OpToRel(<, Nat)
  <2>1. <<k, n>> \in Nat \X Nat /\ <<k, n>>[1] = k /\ <<k, n>>[2] = n
    OBVIOUS
  <2> QED BY <1>3, <2>1 DEF OpToRel
<1>4. PICK n \in S : \A k \in S : ~(<<k, n>> \in OpToRel(<, Nat))
  BY <1>2
<1>5. \A k \in S : k \in Nat /\ n \in Nat /\ ~(k < n)
  BY <1>3, <1>4
<1>6. \A k \in S : n <= k
  BY <1>5
<1> QED BY <1>4, <1>6

\* A set that has 0, and every number up to n whose predecessor it has, has them all.
LEMMA UpTo ==
  ASSUME NEW n \in Nat, NEW Good, 0 \in Good,
         \A i \in 1..n : i - 1 \in Good => i \in Good
  PROVE  \A i \in 0..n : i \in Good
<1> DEFINE Bad == {i \in 0..n : i \notin Good}
<1> SUFFICES ASSUME Bad # {} PROVE FALSE
  OBVIOUS
<1>1. Bad \in SUBSET Nat
  OBVIOUS
<1>2. PICK m \in Bad : \A k \in Bad : m <= k
  <2> HIDE DEF Bad
  <2> QED BY <1>1, LeastNatural
<1>3. m \in 0..n /\ m \notin Good
  OBVIOUS
<1>4. m # 0 /\ m \in 1..n
  BY <1>3
<1>5. m - 1 \in 0..n /\ m - 1 \notin Bad
  BY <1>2, <1>4
<1>6. m - 1 \in Good
  BY <1>5
<1> QED BY <1>3, <1>4, <1>6

\* The values f[0], ..., f[n] that n steps go through from x, F[i] being the i-th step.
Through(f, S, n, x, F) ==
  f \in [0..n -> S] /\ f[0] = x /\ \A i \in 1..n : f[i] = F[i][f[i - 1]]

LEMMA Folding ==
  ASSUME NEW S, NEW n \in Nat, NEW x \in S, NEW F \in [1..n -> [S -> S]]
  PROVE  \E f : Through(f, S, n, x, F)
<1> DEFINE Good == {m \in 0..n : \E f : Through(f, S, m, x, F)}
<1>1. 0 \in Good
  <2>1. Through([i \in 0..0 |-> x], S, 0, x, F)
    BY DEF Through
  <2> QED BY <2>1
<1>2. ASSUME NEW m \in 1..n, m - 1 \in Good PROVE m \in Good
  <2>1. PICK f : Through(f, S, m - 1, x, F)
    BY <1>2
  <2> DEFINE g == [i \in 0..m |-> IF i = m THEN F[m][f[m - 1]] ELSE f[i]]
  <2>2. m - 1 \in 0..(m - 1) /\ f[m - 1] \in S /\ F[m] \in [S -> S]
    BY <2>1 DEF Through
  <2>3. g \in [0..m -> S]
    BY <2>1, <2>2 DEF Through
  <2>4. g[0] = x
    BY <2>1 DEF Through
  <2>5. ASSUME NEW i \in 1..m PROVE g[i] = F[i][g[i - 1]]
    <3>1. CASE i = m
      BY <3>1
    <3>2. CASE i # m
      <4>1. i \in 1..(m - 1) /\ i - 1 \in 0..m /\ i - 1 # m
        BY <3>2
      <4> QED BY <2>1, <3>2, <4>1 DEF Through
    <3> QED BY <3>1, <3>2
  <2>6. Through(g, S, m, x, F)
    BY <2>3, <2>4, <2>5 DEF Through
  <2> QED BY <2>6
<1>3. \A m \in 0..n : m \in Good
  <2> HIDE DEF Good
  <2> QED BY <1>1, <1>2, UpTo
<1>4. n \in Good
  BY <1>3
<1> QED BY <1>4

-----------------------------------------------------------------------------
(* The view model. *)

Views == [valid : BOOLEAN, guilds : SUBSET Guilds, loaded : BOOLEAN,
          channels : SUBSET Channels, conflicts : Seq(Games), update : BOOLEAN]
Once(cs) == \A i, j \in 1..Len(cs) : cs[i] = cs[j] => i = j

\* Retain takes one game out, and leaves the others as they are.
LEMMA Retained ==
  ASSUME NEW cs \in Seq(Games), NEW g
  PROVE  /\ Retain(cs, g) \in Seq(Games)
         /\ Range(Retain(cs, g)) = Range(cs) \ {g}
         /\ Once(cs) => Once(Retain(cs, g))
<1> DEFINE n == Len(cs)
           F == [i \in 1..n |-> [a \in Seq(Games) |-> IF cs[i] = g THEN a ELSE Append(a, cs[i])]]
           Def(h) == [i \in 0..n |-> IF i = 0 THEN <<>>
                                     ELSE IF cs[i] = g THEN h[i - 1] ELSE Append(h[i - 1], cs[i])]
           kept == CHOOSE h : h = Def(h)
<1>1. n \in Nat /\ \A i \in 1..n : cs[i] \in Games
  OBVIOUS
<1>2. F \in [1..n -> [Seq(Games) -> Seq(Games)]]
  <2>1. \A i \in 1..n : \A a \in Seq(Games) : Append(a, cs[i]) \in Seq(Games)
    BY <1>1
  <2> QED BY <1>1, <2>1
<1>3. PICK f \in [0..n -> Seq(Games)] : f[0] = <<>> /\ \A i \in 1..n : f[i] = F[i][f[i - 1]]
  <2>1. <<>> \in Seq(Games) /\ n \in Nat
    BY <1>1
  <2>2. \E f : Through(f, Seq(Games), n, <<>>, F)
    <3> HIDE DEF n, F
    <3> QED BY <1>2, <2>1, Folding
  <2> HIDE DEF n, F
  <2> QED BY <2>2 DEF Through
<1>4. \A i \in 1..n : f[i] = IF cs[i] = g THEN f[i - 1] ELSE Append(f[i - 1], cs[i])
  <2> SUFFICES ASSUME NEW i \in 1..n
               PROVE  f[i] = IF cs[i] = g THEN f[i - 1] ELSE Append(f[i - 1], cs[i])
    OBVIOUS
  <2>1. f[i - 1] \in Seq(Games)
    BY <1>1, <1>3
  <2> QED BY <1>3, <2>1
<1>5. f = Def(f)
  <2>1. \A i \in 0..n : i = 0 \/ i \in 1..n
    BY <1>1
  <2>2. \A i \in 0..n : f[i] = Def(f)[i]
    <3> HIDE DEF F
    <3> QED BY <1>3, <1>4, <2>1
  <2>3. f = [i \in 0..n |-> f[i]] /\ Def(f) = [i \in 0..n |-> Def(f)[i]]
    <3> HIDE DEF F
    <3> QED BY <1>3
  <2> HIDE DEF Def
  <2> QED BY <2>2, <2>3
<1>6. kept = Def(kept)
  <2> HIDE DEF Def
  <2> QED BY <1>5
<1>7. \A i \in 0..n : f[i] = kept[i]
  <2>1. f[0] = kept[0]
    <3>1. 0 \in 0..n
      BY <1>1
    <3>2. Def(kept)[0] = <<>>
      <4> HIDE DEF kept
      <4> QED BY <3>1
    <3> HIDE DEF kept, Def, F
    <3> QED BY <1>3, <1>6, <3>2
  <2>2. ASSUME NEW i \in 1..n, f[i - 1] = kept[i - 1] PROVE f[i] = kept[i]
    <3>1. kept[i] = IF cs[i] = g THEN kept[i - 1] ELSE Append(kept[i - 1], cs[i])
      <4>1. i \in 0..n /\ i # 0
        BY <1>1
      <4>2. Def(kept)[i] = IF cs[i] = g THEN kept[i - 1] ELSE Append(kept[i - 1], cs[i])
        <5> HIDE DEF kept
        <5> QED BY <4>1
      <4> HIDE DEF kept, Def
      <4> QED BY <1>6, <4>2
    <3> QED BY <1>4, <2>2, <3>1
  <2> DEFINE Same == {i \in 0..n : f[i] = kept[i]}
  <2>3. 0 \in Same /\ \A i \in 1..n : i - 1 \in Same => i \in Same
    <3> HIDE DEF kept
    <3> QED BY <1>1, <2>1, <2>2
  <2>4. \A i \in 0..n : i \in Same
    <3> HIDE DEF Same, n
    <3> QED BY <1>1, <2>3, UpTo
  <2> QED BY <2>4
<1>8. Retain(cs, g) = f[n]
  <2>1. Retain(cs, g) = kept[n]
    BY DEF Retain
  <2> HIDE DEF kept
  <2> QED BY <1>1, <1>7, <2>1
<1> DEFINE Good == {i \in 0..n : /\ Range(f[i]) = {cs[k] : k \in 1..i} \ {g}
                                 /\ Once(cs) => Once(f[i])}
<1>9. 0 \in Good
  <2>1. 0 \in 0..n /\ 1..0 = {} /\ Len(<<>>) = 0 /\ DOMAIN <<>> = {}
    BY <1>1
  <2>2. Range(f[0]) = {} /\ Once(f[0]) /\ {cs[k] : k \in 1..0} = {}
    <3> HIDE DEF F, n
    <3> QED BY <1>3, <2>1 DEF Range, Once
  <2> QED BY <2>1, <2>2
<1>10. ASSUME NEW i \in 1..n, i - 1 \in Good PROVE i \in Good
  <2> DEFINE h == f[i - 1]
             Was == {cs[k] : k \in 1..(i - 1)}
  <2>1. h \in Seq(Games) /\ cs[i] \in Games /\ i \in 0..n /\ i - 1 \in 0..n
    <3>1. cs[i] \in Games /\ i \in 0..n /\ i - 1 \in 0..n
      BY <1>1
    <3> HIDE DEF F, n
    <3> QED BY <1>3, <3>1
  <2>2. {cs[k] : k \in 1..i} = Was \union {cs[i]}
    <3>1. \A k \in 1..i : k = i \/ k \in 1..(i - 1)
      BY <1>1
    <3>2. 1..(i - 1) \subseteq 1..i /\ i \in 1..i
      BY <1>1
    <3> QED BY <3>1, <3>2
  <2>3. Range(h) = Was \ {g} /\ (Once(cs) => Once(h))
    BY <1>10
  <2>4. CASE cs[i] = g
    <3>1. f[i] = h
      BY <1>4, <2>4
    <3> QED BY <2>1, <2>2, <2>3, <2>4, <3>1
  <2>5. CASE cs[i] # g
    <3>1. f[i] = Append(h, cs[i])
      BY <1>4, <2>5
    <3>2. /\ Len(f[i]) = Len(h) + 1 /\ Len(h) \in Nat /\ f[i][Len(h) + 1] = cs[i]
          /\ \A k \in 1..Len(h) : f[i][k] = h[k]
      BY <2>1, <3>1
    <3>3. Range(f[i]) = Range(h) \union {cs[i]}
      <4>1. f[i] \in Seq(Games) /\ DOMAIN f[i] = 1..(Len(h) + 1) /\ DOMAIN h = 1..Len(h)
        BY <2>1, <3>1, <3>2
      <4>2. \A k \in 1..(Len(h) + 1) : k = Len(h) + 1 \/ k \in 1..Len(h)
        BY <3>2
      <4>3. 1..Len(h) \subseteq 1..(Len(h) + 1) /\ Len(h) + 1 \in 1..(Len(h) + 1)
        BY <3>2
      <4> HIDE DEF h
      <4> QED BY <3>2, <4>1, <4>2, <4>3 DEF Range
    <3>4. ASSUME Once(cs) PROVE Once(f[i])
      <4>1. \A k \in 1..Len(h) : h[k] # cs[i]
        <5> SUFFICES ASSUME NEW k \in 1..Len(h), h[k] = cs[i] PROVE FALSE
          OBVIOUS
        <5>1. h[k] \in Range(h)
          BY <2>1 DEF Range
        <5>2. PICK j \in 1..(i - 1) : cs[j] = cs[i]
          BY <2>3, <5>1
        <5> QED BY <1>1, <3>4, <5>2 DEF Once
      <4>2. Once(h)
        BY <2>3, <3>4
      <4> HIDE DEF h
      <4> QED BY <3>2, <4>1, <4>2 DEF Once
    <3> QED BY <2>1, <2>2, <2>3, <2>5, <3>3, <3>4
  <2> QED BY <2>4, <2>5
<1>11. n \in Good
  <2>1. \A i \in 0..n : i \in Good
    <3> HIDE DEF Good, n
    <3> QED BY <1>1, <1>9, <1>10, UpTo
  <2> QED BY <1>1, <2>1
<1>12. Range(cs) = {cs[k] : k \in 1..n}
  BY DEF Range
<1>13. f[n] \in Seq(Games)
  <2>1. n \in 0..n
    BY <1>1
  <2> HIDE DEF n, F
  <2> QED BY <1>3, <2>1
<1> QED BY <1>8, <1>11, <1>12, <1>13

\* An event changes the lists, the conflicts or the update, and nothing else of them.
Becomes(v, e, w) ==
  /\ w \in Views
  /\ w.channels = IF e.op = "guilds" THEN {}
                  ELSE IF e.op = "channels" THEN e.channels ELSE v.channels
  /\ w.conflicts = IF e.op = "conflict" THEN Asking(v.conflicts, e.game)
                   ELSE IF e.op = "resolved" THEN Retain(v.conflicts, e.game)
                   ELSE v.conflicts
  /\ w.update = (v.update \/ e.op = "update")

LEMMA Applied ==
  ASSUME NEW v \in Views, NEW e \in Answers
  PROVE  Becomes(v, e, Apply(v, e))
<1> USE DEF Becomes
<1>1. e.op \in {"valid", "guilds", "channels", "conflict", "resolved", "update"}
  BY DEF Answers
<1>2. CASE e.op = "valid"
  BY <1>2 DEF Apply, Views
<1>3. CASE e.op = "guilds"
  <2>1. e.guilds \in SUBSET Guilds
    BY <1>3 DEF Answers
  <2> QED BY <1>3, <2>1 DEF Apply, Views
<1>4. CASE e.op = "channels"
  <2>1. e.channels \in SUBSET Channels
    BY <1>4 DEF Answers
  <2> QED BY <1>4, <2>1 DEF Apply, Views
<1>5. CASE e.op = "conflict"
  <2>1. e.game \in Games /\ v.conflicts \in Seq(Games)
    BY <1>5 DEF Answers, Views
  <2>2. Asking(v.conflicts, e.game) \in Seq(Games)
    BY <2>1 DEF Asking
  <2>3. Apply(v, e) = [v EXCEPT !.conflicts = Asking(@, e.game)]
    BY <1>5 DEF Apply
  <2> HIDE DEF Asking
  <2> QED BY <1>5, <2>2, <2>3 DEF Views
<1>6. CASE e.op = "resolved"
  <2>1. e.game \in Games /\ v.conflicts \in Seq(Games)
    BY <1>6 DEF Answers, Views
  <2>2. Retain(v.conflicts, e.game) \in Seq(Games)
    BY <2>1, Retained
  <2>3. Apply(v, e) = [v EXCEPT !.conflicts = Retain(@, e.game)]
    BY <1>6 DEF Apply
  <2> QED BY <1>6, <2>2, <2>3 DEF Views
<1>7. CASE e.op = "update"
  BY <1>7 DEF Apply, Views
<1> QED BY <1>1, <1>2, <1>3, <1>4, <1>5, <1>6, <1>7

\* The view models that drain_events goes through.
After(f, v, es) ==
  /\ f \in [0..Len(es) -> Views]
  /\ f[0] = v /\ Drain(v, es) = f[Len(es)]
  /\ \A i \in 1..Len(es) : es[i] \in Answers /\ f[i] = Apply(f[i - 1], es[i])

LEMMA Draining ==
  ASSUME NEW v \in Views, NEW es \in Seq(Answers)
  PROVE  \E f : After(f, v, es)
<1> DEFINE n == Len(es)
           F == [i \in 1..n |-> [a \in Views |-> Apply(a, es[i])]]
           Def(h) == [i \in 0..n |-> IF i = 0 THEN v ELSE Apply(h[i - 1], es[i])]
           after == CHOOSE h : h = Def(h)
<1>1. n \in Nat /\ \A i \in 1..n : es[i] \in Answers
  OBVIOUS
<1>2. F \in [1..n -> [Views -> Views]]
  <2>1. \A i \in 1..n : \A a \in Views : Apply(a, es[i]) \in Views
    BY <1>1, Applied DEF Becomes
  <2> QED BY <2>1
<1>3. PICK f \in [0..n -> Views] : f[0] = v /\ \A i \in 1..n : f[i] = F[i][f[i - 1]]
  <2>1. \E f : Through(f, Views, n, v, F)
    <3> HIDE DEF n, F
    <3> QED BY <1>1, <1>2, Folding
  <2> HIDE DEF n, F
  <2> QED BY <2>1 DEF Through
<1>4. \A i \in 1..n : f[i] = Apply(f[i - 1], es[i])
  <2> SUFFICES ASSUME NEW i \in 1..n PROVE f[i] = Apply(f[i - 1], es[i])
    OBVIOUS
  <2>1. f[i - 1] \in Views
    <3>1. i - 1 \in 0..n
      BY <1>1
    <3> HIDE DEF n, F
    <3> QED BY <1>3, <3>1
  <2>2. F[i][f[i - 1]] = Apply(f[i - 1], es[i])
    BY <2>1
  <2> HIDE DEF F
  <2> QED BY <1>3, <2>2
<1>5. f = Def(f)
  <2>1. \A i \in 0..n : i = 0 \/ i \in 1..n
    BY <1>1
  <2>2. \A i \in 0..n : f[i] = Def(f)[i]
    <3> HIDE DEF F
    <3> QED BY <1>3, <1>4, <2>1
  <2>3. f = [i \in 0..n |-> f[i]] /\ Def(f) = [i \in 0..n |-> Def(f)[i]]
    <3> HIDE DEF F
    <3> QED BY <1>3
  <2> HIDE DEF Def
  <2> QED BY <2>2, <2>3
<1>6. after = Def(after)
  <2> HIDE DEF Def
  <2> QED BY <1>5
<1>7. \A i \in 0..n : f[i] = after[i]
  <2>1. f[0] = after[0]
    <3>1. 0 \in 0..n
      BY <1>1
    <3>2. Def(after)[0] = v
      <4> HIDE DEF after
      <4> QED BY <3>1
    <3> HIDE DEF after, Def, F
    <3> QED BY <1>3, <1>6, <3>2
  <2>2. ASSUME NEW i \in 1..n, f[i - 1] = after[i - 1] PROVE f[i] = after[i]
    <3>1. after[i] = Apply(after[i - 1], es[i])
      <4>1. i \in 0..n /\ i # 0
        BY <1>1
      <4>2. Def(after)[i] = Apply(after[i - 1], es[i])
        <5> HIDE DEF after
        <5> QED BY <4>1
      <4> HIDE DEF after, Def
      <4> QED BY <1>6, <4>2
    <3> HIDE DEF after
    <3> QED BY <1>4, <2>2, <3>1
  <2> DEFINE Same == {i \in 0..n : f[i] = after[i]}
  <2>3. 0 \in Same /\ \A i \in 1..n : i - 1 \in Same => i \in Same
    <3> HIDE DEF after
    <3> QED BY <1>1, <2>1, <2>2
  <2>4. \A i \in 0..n : i \in Same
    <3> HIDE DEF Same, n
    <3> QED BY <1>1, <2>3, UpTo
  <2> QED BY <2>4
<1>8. Drain(v, es) = f[n]
  <2>1. Drain(v, es) = after[n]
    BY DEF Drain
  <2> HIDE DEF after
  <2> QED BY <1>1, <1>7, <2>1
<1>9. After(f, v, es)
  <2> HIDE DEF F
  <2> QED BY <1>1, <1>3, <1>4, <1>8 DEF After
<1> QED BY <1>9

\* Draining nothing leaves the view model, draining one event more applies it last.
LEMMA DrainedNothing ==
  ASSUME NEW v \in Views
  PROVE  Drain(v, <<>>) = v
<1>1. <<>> \in Seq(Answers) /\ Len(<<>>) = 0
  OBVIOUS
<1>2. PICK f : After(f, v, <<>>)
  BY <1>1, Draining
<1> QED BY <1>1, <1>2 DEF After

LEMMA DrainedMore ==
  ASSUME NEW v \in Views, NEW es \in Seq(Answers), NEW e \in Answers
  PROVE  /\ Drain(v, es) \in Views
         /\ Drain(v, Append(es, e)) = Apply(Drain(v, es), e)
<1> DEFINE n == Len(es)
           more == Append(es, e)
<1>1. /\ n \in Nat /\ more \in Seq(Answers) /\ Len(more) = n + 1 /\ more[n + 1] = e
      /\ \A i \in 1..n : more[i] = es[i]
  OBVIOUS
<1>2. PICK f : After(f, v, es)
  BY Draining
<1>3. PICK g : After(g, v, more)
  BY <1>1, Draining
<1>4. ASSUME NEW i \in 1..n, f[i - 1] = g[i - 1] PROVE f[i] = g[i]
  <2>1. i \in 1..Len(more) /\ more[i] = es[i] /\ i \in 1..Len(es)
    BY <1>1
  <2> HIDE DEF n, more
  <2> QED BY <1>2, <1>3, <1>4, <2>1 DEF After
<1>5. f[0] = g[0]
  BY <1>2, <1>3 DEF After
<1>6. \A i \in 0..n : f[i] = g[i]
  <2> DEFINE Same == {i \in 0..n : f[i] = g[i]}
  <2>1. 0 \in Same /\ \A i \in 1..n : i - 1 \in Same => i \in Same
    BY <1>1, <1>4, <1>5
  <2>2. \A i \in 0..n : i \in Same
    <3> HIDE DEF Same, n
    <3> QED BY <1>1, <2>1, UpTo
  <2> QED BY <2>2
<1>7. f[n] = g[n] /\ n + 1 \in 1..Len(more) /\ (n + 1) - 1 = n /\ f[n] \in Views
  <2>1. n \in 0..n
    BY <1>1
  <2> HIDE DEF more
  <2> QED BY <1>1, <1>2, <1>6, <2>1 DEF After
<1>8. g[n + 1] = Apply(g[n], e) /\ Drain(v, more) = g[n + 1] /\ Drain(v, es) = f[n]
  <2> HIDE DEF more
  <2> QED BY <1>1, <1>2, <1>3, <1>7 DEF After
<1> QED BY <1>7, <1>8

\* What the conflicts and the update come to depends on no other part of the view model;
\* an update stays; and the channels stay while no list comes.
LEMMA DrainedParts ==
  ASSUME NEW v \in Views, NEW w \in Views, NEW es \in Seq(Answers)
  PROVE  /\ v.conflicts = w.conflicts => Drain(v, es).conflicts = Drain(w, es).conflicts
         /\ v.update = w.update => Drain(v, es).update = Drain(w, es).update
         /\ v.channels = w.channels => Drain(v, es).channels = Drain(w, es).channels
         /\ v.update => Drain(v, es).update
         /\ (\A i \in 1..Len(es) : es[i].op \notin {"guilds", "channels"})
              => Drain(v, es).channels = v.channels
<1> DEFINE n == Len(es)
           quiet == \A i \in 1..n : es[i].op \notin {"guilds", "channels"}
<1>1. PICK f : After(f, v, es)
  BY Draining
<1>2. PICK g : After(g, w, es)
  BY Draining
<1> DEFINE Good == {i \in 0..n :
                      /\ v.conflicts = w.conflicts => f[i].conflicts = g[i].conflicts
                      /\ v.update = w.update => f[i].update = g[i].update
                      /\ v.channels = w.channels => f[i].channels = g[i].channels
                      /\ v.update => f[i].update
                      /\ quiet => f[i].channels = v.channels}
<1>3. n \in Nat /\ 0 \in 0..n /\ n \in 0..n
  OBVIOUS
<1>4. 0 \in Good
  BY <1>1, <1>2, <1>3 DEF After
<1>5. ASSUME NEW i \in 1..n, i - 1 \in Good PROVE i \in Good
  <2>1. i \in 0..n /\ i - 1 \in 0..n
    BY <1>3
  <2>2. /\ f[i - 1] \in Views /\ g[i - 1] \in Views /\ es[i] \in Answers
        /\ f[i] = Apply(f[i - 1], es[i]) /\ g[i] = Apply(g[i - 1], es[i])
    <3> HIDE DEF Good
    <3> QED BY <1>1, <1>2, <2>1 DEF After
  <2> DEFINE e == es[i]
  <2>3. Becomes(f[i - 1], e, f[i]) /\ Becomes(g[i - 1], e, g[i])
    <3> HIDE DEF Good, n
    <3> QED BY <2>2, Applied
  <2>4. quiet => e.op \notin {"guilds", "channels"}
    OBVIOUS
  <2>5. /\ v.conflicts = w.conflicts => f[i - 1].conflicts = g[i - 1].conflicts
        /\ v.update = w.update => f[i - 1].update = g[i - 1].update
        /\ v.channels = w.channels => f[i - 1].channels = g[i - 1].channels
        /\ v.update => f[i - 1].update
        /\ quiet => f[i - 1].channels = v.channels
    BY <1>5
  <2> HIDE DEF quiet, e
  <2>6. /\ v.conflicts = w.conflicts => f[i].conflicts = g[i].conflicts
        /\ v.update = w.update => f[i].update = g[i].update
        /\ v.channels = w.channels => f[i].channels = g[i].channels
        /\ v.update => f[i].update
        /\ quiet => f[i].channels = v.channels
    BY <2>3, <2>4, <2>5 DEF Becomes
  <2> QED BY <2>1, <2>6
<1>6. n \in Good
  <2>1. \A i \in 0..n : i \in Good
    <3> HIDE DEF Good, n
    <3> QED BY <1>3, <1>4, <1>5, UpTo
  <2> QED BY <1>3, <2>1
<1>7. Drain(v, es) = f[n] /\ Drain(w, es) = g[n]
  BY <1>1, <1>2 DEF After
<1> QED BY <1>6, <1>7

-----------------------------------------------------------------------------
(* The types. *)

\* What a message is made of.
LEMMA Sent ==
  /\ \A t \in Tokens : /\ [op |-> "validate", token |-> t] \in Requests
                       /\ [op |-> "guilds", token |-> t] \in Requests
  /\ \A t \in Opt(Tokens), g \in Guilds :
       [op |-> "channels", token |-> t, guild |-> g] \in Requests
  /\ \A t \in Opt(Tokens), g \in Guilds, c \in Channels :
       [op |-> "create", token |-> t, guild |-> g, channel |-> c] \in Requests
  /\ \A g \in Games : [op |-> "resolve", game |-> g] \in Requests
  /\ [op |-> "check"] \in Requests /\ [op |-> "apply"] \in Requests
BY DEF Requests

LEMMA Received ==
  ASSUME NEW c \in Requests
  PROVE  /\ c.op \in {"validate", "guilds"} => c.token \in Tokens
         /\ c.op = "channels" => c.token \in Opt(Tokens) /\ c.guild \in Guilds
         /\ c.op = "resolve" => c.game \in Games
BY DEF Requests

LEMMA Told ==
  /\ \A t \in Tokens : [op |-> "valid", token |-> t] \in Answers
  /\ \A S \in SUBSET Guilds : [op |-> "guilds", guilds |-> S] \in Answers
  /\ \A S \in SUBSET Channels : [op |-> "channels", channels |-> S] \in Answers
  /\ \A g \in Games : /\ [op |-> "conflict", game |-> g] \in Answers
                      /\ [op |-> "resolved", game |-> g] \in Answers
  /\ [op |-> "update"] \in Answers
BY DEF Answers

Forms == [open : BOOLEAN, step : Steps, token : Opt(Tokens), guild : Opt(Guilds),
          channel : Opt(Channels)]

\* A click changes the wizard, empties its lists, and sends at most one command.
LEMMA ClickTypes ==
  ASSUME TypeOK, Click
  PROVE  /\ form' \in Forms /\ vm' \in Views
         /\ \/ commands' = commands
            \/ /\ Len(commands) + Len(events) < MaxQueue
               /\ \E c \in Requests : commands' = Append(commands, c)
         /\ UNCHANGED <<events, pending, raised>>
         /\ vm'.conflicts = vm.conflicts /\ vm'.update = vm.update
         /\ asked' \in Opt(Tokens) /\ failed' \in BOOLEAN /\ hasty' \in BOOLEAN
<1>1. form \in Forms /\ vm \in Views /\ asked \in Opt(Tokens) /\ failed \in BOOLEAN
      /\ hasty \in BOOLEAN
  BY DEF TypeOK, Forms, Views
<1>2. CASE OpenWizard
  BY <1>1, <1>2 DEF OpenWizard, Rest, Empty, Blank, Forms, Views, Steps, Opt
<1>3. CASE CloseWizard
  BY <1>1, <1>3 DEF CloseWizard, Rest, Ask, Forms
<1>4. CASE Forward
  BY <1>1, <1>4 DEF Forward, Goto, Rest, Ask, Forms, Steps
<1>5. CASE Back
  BY <1>1, <1>5 DEF Back, Goto, Rest, Ask, Forms, Steps
<1>6. ASSUME NEW t \in Opt(Tokens), TypeToken(t) PROVE form' \in Forms
  BY <1>1, <1>6 DEF TypeToken, Forms
<1>7. CASE \E t \in Opt(Tokens) : TypeToken(t)
  BY <1>1, <1>6, <1>7 DEF TypeToken, Rest, Ask
<1>8. CASE ValidateToken
  <2>1. form.token \in Tokens
    BY <1>1, <1>8 DEF ValidateToken, Forms, Opt
  <2>2. [op |-> "validate", token |-> form.token] \in Requests
    BY <2>1, Sent
  <2> QED BY <1>1, <1>8, <2>2 DEF ValidateToken, Send, Rest, Ask, Views
<1>9. CASE FetchGuilds
  <2>1. form.token \in Tokens
    BY <1>1, <1>9 DEF FetchGuilds, Forms, Opt
  <2>2. [op |-> "guilds", token |-> form.token] \in Requests
    BY <2>1, Sent
  <2> QED BY <1>1, <1>9, <2>2 DEF FetchGuilds, Send, Rest, Views, Forms, Opt
<1>10. ASSUME NEW g \in Guilds, PickGuild(g)
       PROVE  /\ form' \in Forms /\ asked' \in Opt(Tokens)
              /\ [op |-> "channels", token |-> form.token, guild |-> g] \in Requests
  <2>1. form.token \in Opt(Tokens)
    BY <1>1 DEF Forms
  <2> QED BY <1>1, <1>10, <2>1, Sent DEF PickGuild, Forms, Opt
<1>11. CASE \E g \in Guilds : PickGuild(g)
  BY <1>1, <1>10, <1>11 DEF PickGuild, Send, Rest
<1>12. ASSUME NEW c \in Channels, PickChannel(c) PROVE form' \in Forms /\ hasty' \in BOOLEAN
  BY <1>1, <1>12 DEF PickChannel, Forms, Opt
<1>13. CASE \E c \in Channels : PickChannel(c)
  BY <1>1, <1>12, <1>13 DEF PickChannel, Rest
<1>14. CASE CreateGroup
  <2>1. form.token \in Opt(Tokens) /\ form.guild \in Guilds /\ form.channel \in Channels
    BY <1>1, <1>14 DEF CreateGroup, Forms, Opt
  <2>2. [op |-> "create", token |-> form.token, guild |-> form.guild,
         channel |-> form.channel] \in Requests
    BY <2>1, Sent
  <2> QED BY <1>1, <1>14, <2>2 DEF CreateGroup, Send, Rest, Ask, Forms
<1>15. CASE Resolve
  <2>1. Head(vm.conflicts) \in Games
    BY <1>1, <1>15 DEF Resolve, Views
  <2>2. [op |-> "resolve", game |-> Head(vm.conflicts)] \in Requests
    BY <2>1, Sent
  <2> QED BY <1>1, <1>15, <2>2 DEF Resolve, Send, Rest, Ask
<1>16. CASE ApplyUpdate
  BY <1>1, <1>16, Sent DEF ApplyUpdate, Send, Rest, Ask
<1> QED BY <1>2, <1>3, <1>4, <1>5, <1>7, <1>8, <1>9, <1>11, <1>13, <1>14, <1>15, <1>16 DEF Click

\* What the worker does to the window's queue and to the conflicts that are not resolved.
Tells ==
  \/ UNCHANGED <<events, raised>>
  \/ \E e \in Answers :
       /\ events' = Append(events, e)
       /\ raised' = (IF e.op = "conflict" THEN raised \union {e.game}
                     ELSE IF e.op = "resolved" THEN raised \ {e.game} ELSE raised)
       /\ e.op = "update" => pending'

LEMMA Answering ==
  ASSUME TypeOK
  PROVE  /\ Answer(<<>>) => events' = events
         /\ \A e : Answer(<<e>>) => events' = Append(events, e)
<1>1. events \in Seq(Answers)
  BY DEF TypeOK
<1> QED BY <1>1 DEF Answer

LEMMA FoundTypes ==
  ASSUME TypeOK, NEW ok \in BOOLEAN, Found(ok), raised' = raised
  PROVE  Tells /\ pending' \in BOOLEAN /\ (pending => pending')
<1>1. pending \in BOOLEAN
  BY DEF TypeOK
<1>2. CASE ok /\ ~pending
  <2>1. Answer(<<[op |-> "update"]>>) /\ pending'
    BY <1>2 DEF Found
  <2>2. events' = Append(events, [op |-> "update"])
    BY <2>1, Answering
  <2> QED BY <1>1, <1>2, <2>1, <2>2, Told DEF Tells, Found
<1>3. CASE ~(ok /\ ~pending)
  <2>1. Answer(<<>>)
    BY <1>3 DEF Found
  <2> QED BY <1>1, <1>3, <2>1, Answering DEF Tells, Found
<1> QED BY <1>2, <1>3

\* A command that is answered leaves the queue; its answer is one event at most.
LEMMA ServeTypes ==
  ASSUME TypeOK, NEW ok \in BOOLEAN, Serve(ok)
  PROVE  /\ Tells /\ pending' \in BOOLEAN /\ (pending => pending') /\ failed' \in BOOLEAN
         /\ UNCHANGED <<form, vm, surfaced, minimized, asked, hasty>>
         /\ commands # <<>> /\ commands' = Tail(commands)
<1>1. /\ commands \in Seq(Requests) /\ pending \in BOOLEAN /\ failed \in BOOLEAN
      /\ Sees \in [Tokens -> SUBSET Guilds]
  BY WindowAssumption DEF TypeOK
<1>2. PICK c \in Range(commands) :
        /\ Op(c)
        /\ \/ Validated(c, ok) \/ GuildsListed(c, ok) \/ ChannelsListed(c, ok)
           \/ Resolved(c, ok) \/ Others(c, ok)
  BY DEF Serve
<1>3. c \in Requests /\ commands # <<>> /\ commands' = Tail(commands)
  BY <1>1, <1>2 DEF Op, Range
<1>4. UNCHANGED <<form, vm, surfaced, minimized, asked, hasty>>
  BY DEF Serve, screen
<1>5. ASSUME Answer(<<>>), raised' = raised PROVE Tells
  BY <1>5, Answering DEF Tells
<1>6. CASE Validated(c, ok)
  <2>1. c.token \in Tokens
    BY <1>3, <1>6, Received DEF Validated
  <2>2. CASE ok
    <3>1. events' = Append(events, [op |-> "valid", token |-> c.token])
      BY <1>6, <2>2, Answering DEF Validated
    <3>2. [op |-> "valid", token |-> c.token] \in Answers
      BY <2>1, Told
    <3>3. Tells
      BY <1>6, <3>1, <3>2 DEF Validated, Tells
    <3> QED BY <1>1, <1>3, <1>4, <1>6, <3>3 DEF Validated
  <2>3. CASE ~ok
    BY <1>1, <1>3, <1>4, <1>5, <1>6, <2>3 DEF Validated
  <2> QED BY <2>2, <2>3
<1>7. CASE GuildsListed(c, ok)
  <2>1. c.token \in Tokens
    BY <1>3, <1>7, Received DEF GuildsListed
  <2>2. CASE ok
    <3>1. events' = Append(events, [op |-> "guilds", guilds |-> Sees[c.token]])
      BY <1>7, <2>2, Answering DEF GuildsListed
    <3>2. Sees[c.token] \in SUBSET Guilds
      BY <1>1, <2>1
    <3>3. [op |-> "guilds", guilds |-> Sees[c.token]] \in Answers
      BY <3>2, Told
    <3>4. Tells
      BY <1>7, <3>1, <3>3 DEF GuildsListed, Tells
    <3> QED BY <1>1, <1>3, <1>4, <1>7, <3>4 DEF GuildsListed
  <2>3. CASE ~ok
    BY <1>1, <1>3, <1>4, <1>5, <1>7, <2>3 DEF GuildsListed
  <2> QED BY <2>2, <2>3
<1>8. CASE ChannelsListed(c, ok)
  <2>1. failed' \in BOOLEAN
    BY <1>8 DEF ChannelsListed
  <2>2. CASE ok
    <3>1. events' = Append(events, [op |-> "channels", channels |-> Of(c.guild)])
      BY <1>8, <2>2, Answering DEF ChannelsListed
    <3>2. Of(c.guild) \in SUBSET Channels
      BY DEF Of
    <3>3. [op |-> "channels", channels |-> Of(c.guild)] \in Answers
      BY <3>2, Told
    <3>4. Tells
      BY <1>8, <3>1, <3>3 DEF ChannelsListed, Tells
    <3> QED BY <1>1, <1>3, <1>4, <1>8, <2>1, <3>4 DEF ChannelsListed
  <2>3. CASE ~ok
    BY <1>1, <1>3, <1>4, <1>5, <1>8, <2>1, <2>3 DEF ChannelsListed
  <2> QED BY <2>2, <2>3
<1>9. CASE Resolved(c, ok)
  <2>1. c.game \in Games
    BY <1>3, <1>9, Received DEF Resolved
  <2>2. CASE ok
    <3>1. events' = Append(events, [op |-> "resolved", game |-> c.game])
      BY <1>9, <2>2, Answering DEF Resolved
    <3>2. [op |-> "resolved", game |-> c.game] \in Answers
      BY <2>1, Told
    <3>3. Tells
      BY <1>9, <2>2, <3>1, <3>2 DEF Resolved, Tells
    <3> QED BY <1>1, <1>3, <1>4, <1>9, <3>3 DEF Resolved
  <2>3. CASE ~ok
    BY <1>1, <1>3, <1>4, <1>5, <1>9, <2>3 DEF Resolved
  <2> QED BY <2>2, <2>3
<1>10. CASE Others(c, ok)
  <2>1. raised' = raised /\ failed' = failed
    BY <1>10 DEF Others
  <2>2. CASE Found(ok)
    BY <1>1, <1>3, <1>4, <2>1, <2>2, FoundTypes
  <2>3. CASE Answer(<<>>) /\ UNCHANGED pending
    BY <1>1, <1>3, <1>4, <1>5, <2>1, <2>3
  <2> QED BY <1>10, <2>2, <2>3 DEF Others
<1> QED BY <1>2, <1>6, <1>7, <1>8, <1>9, <1>10

Tick == (\E g \in Games : TickConflict(g)) \/ (\E ok \in BOOLEAN : TickUpdate(ok))

LEMMA TickTypes ==
  ASSUME TypeOK, Tick
  PROVE  /\ Tells /\ pending' \in BOOLEAN /\ (pending => pending')
         /\ UNCHANGED <<form, vm, surfaced, minimized, commands, asked, failed, hasty>>
         /\ Len(commands) + Len(events) < MaxQueue
<1>1. pending \in BOOLEAN
  BY DEF TypeOK
<1>2. ASSUME NEW g \in Games, TickConflict(g)
      PROVE  /\ Tells /\ pending' = pending
             /\ UNCHANGED <<form, vm, surfaced, minimized, commands, asked, failed, hasty>>
             /\ Len(commands) + Len(events) < MaxQueue
  <2>1. events' = Append(events, [op |-> "conflict", game |-> g])
    BY <1>2, Answering DEF TickConflict
  <2>2. [op |-> "conflict", game |-> g] \in Answers
    BY Told
  <2>3. Tells
    BY <1>2, <2>1, <2>2 DEF TickConflict, Tells
  <2> QED BY <1>2, <2>3 DEF TickConflict, screen, Ask, Room
<1>3. ASSUME NEW ok \in BOOLEAN, TickUpdate(ok)
      PROVE  /\ Tells /\ pending' \in BOOLEAN /\ (pending => pending')
             /\ UNCHANGED <<form, vm, surfaced, minimized, commands, asked, failed, hasty>>
             /\ Len(commands) + Len(events) < MaxQueue
  <2>1. Found(ok) /\ raised' = raised
    BY <1>3 DEF TickUpdate
  <2> QED BY <1>3, <2>1, FoundTypes DEF TickUpdate, screen, Ask, Room
<1> QED BY <1>1, <1>2, <1>3 DEF Tick

\* A frame applies what there is, and shows it.
LEMMA FrameTypes ==
  ASSUME TypeOK, Frame
  PROVE  /\ Drained \in Views /\ vm' = Drained /\ events' = <<>>
         /\ surfaced' = AsksAbout(vm'.conflicts) /\ surfaced' \in Opt(Games)
         /\ minimized' \in BOOLEAN
         /\ UNCHANGED <<form, commands, pending, raised, asked, failed, hasty>>
<1>1. vm \in Views /\ events \in Seq(Answers) /\ minimized \in BOOLEAN
  BY DEF TypeOK, Views
<1>2. PICK f : After(f, vm, events)
  BY <1>1, Draining
<1>3. Drained \in Views
  BY <1>1, <1>2 DEF After, Drained
<1>4. vm' = Drained /\ Drained.conflicts \in Seq(Games)
  BY <1>3 DEF Frame, Views
<1> QED BY <1>1, <1>3, <1>4 DEF Frame, Surface, AsksAbout, history, Opt

LEMMA InitTypeOK == Init => TypeOK
<1> SUFFICES ASSUME Init PROVE TypeOK
  OBVIOUS
<1>1. commands \in Seq(Requests) /\ events \in Seq(Answers) /\ Len(commands) + Len(events) <= MaxQueue
  BY WindowAssumption DEF Init
<1>2. form \in [open : BOOLEAN, step : Steps, token : Opt(Tokens), guild : Opt(Guilds),
               channel : Opt(Channels)]
  BY DEF Init, Empty, Steps, Opt
<1>3. vm \in [valid : BOOLEAN, guilds : SUBSET Guilds, loaded : BOOLEAN,
             channels : SUBSET Channels, conflicts : Seq(Games), update : BOOLEAN]
  BY DEF Init
<1> QED BY <1>1, <1>2, <1>3 DEF Init, TypeOK, Opt

LEMMA NextTypeOK ==
  ASSUME TypeOK, [Next]_vars
  PROVE  TypeOK'
<1>1. /\ form \in Forms /\ vm \in Views /\ asked \in Opt(Tokens) /\ failed \in BOOLEAN
      /\ hasty \in BOOLEAN /\ commands \in Seq(Requests) /\ events \in Seq(Answers)
      /\ Len(commands) + Len(events) <= MaxQueue /\ MaxQueue \in Nat
      /\ pending \in BOOLEAN /\ surfaced \in Opt(Games) /\ minimized \in BOOLEAN
      /\ raised \subseteq Games
  BY WindowAssumption DEF TypeOK, Forms, Views
<1>2. SUFFICES
        /\ form' \in Forms /\ vm' \in Views /\ asked' \in Opt(Tokens) /\ failed' \in BOOLEAN
        /\ hasty' \in BOOLEAN /\ commands' \in Seq(Requests) /\ events' \in Seq(Answers)
        /\ Len(commands') + Len(events') <= MaxQueue
        /\ pending' \in BOOLEAN /\ surfaced' \in Opt(Games) /\ minimized' \in BOOLEAN
        /\ raised' \subseteq Games
  BY DEF TypeOK, Forms, Views
<1>3. ASSUME Tells
      PROVE  /\ events' \in Seq(Answers) /\ raised' \subseteq Games
             /\ Len(events') \in {Len(events), Len(events) + 1}
  <2>1. ASSUME NEW e \in Answers, events' = Append(events, e),
               raised' = (IF e.op = "conflict" THEN raised \union {e.game}
                          ELSE IF e.op = "resolved" THEN raised \ {e.game} ELSE raised)
        PROVE  /\ events' \in Seq(Answers) /\ raised' \subseteq Games
               /\ Len(events') = Len(events) + 1
    <3>1. e.op = "conflict" => e.game \in Games
      BY DEF Answers
    <3>2. Append(events, e) \in Seq(Answers) /\ Len(Append(events, e)) = Len(events) + 1
      BY <1>1
    <3> QED BY <1>1, <2>1, <3>1, <3>2
  <2> QED BY <1>1, <1>3, <2>1 DEF Tells
<1>4. Len(commands) \in Nat /\ Len(events) \in Nat
  BY <1>1
<1>5. ASSUME NEW c \in Requests, commands' = Append(commands, c)
      PROVE  commands' \in Seq(Requests) /\ Len(commands') = Len(commands) + 1
  BY <1>1, <1>5
<1>6. CASE ~minimized /\ Click /\ UNCHANGED screen
  <2>1. UNCHANGED <<surfaced, minimized>>
    BY <1>6 DEF screen
  <2>2. CASE commands' = commands
    BY <1>1, <1>4, <1>6, <2>1, <2>2, ClickTypes
  <2>3. CASE /\ Len(commands) + Len(events) < MaxQueue
             /\ \E c \in Requests : commands' = Append(commands, c)
    BY <1>1, <1>4, <1>5, <1>6, <2>1, <2>3, ClickTypes
  <2> QED BY <1>6, <2>2, <2>3, ClickTypes
<1>7. CASE Minimize
  BY <1>1, <1>7 DEF Minimize, Ask, Rest
<1>8. CASE RegainFocus
  <2>1. CASE Send([op |-> "check"])
    <3>1. commands' \in Seq(Requests) /\ Len(commands') = Len(commands) + 1
      BY <1>5, <2>1, Sent DEF Send
    <3>2. Len(commands) + Len(events) < MaxQueue
      BY <2>1 DEF Send
    <3>3. minimized' \in BOOLEAN /\ UNCHANGED <<form, vm, surfaced, Ask, Rest>>
      BY <1>8 DEF RegainFocus
    <3> QED BY <1>1, <1>4, <3>1, <3>2, <3>3 DEF Ask, Rest
  <2>2. CASE UNCHANGED commands
    BY <1>1, <1>8, <2>2 DEF RegainFocus, Ask, Rest
  <2> QED BY <1>8, <2>1, <2>2 DEF RegainFocus
<1>9. CASE Frame
  <2>1. <<>> \in Seq(Answers) /\ Len(<<>>) = 0
    OBVIOUS
  <2> QED BY <1>1, <1>4, <1>9, <2>1, FrameTypes
<1>10. ASSUME NEW ok \in BOOLEAN, Serve(ok)
       PROVE  /\ form' \in Forms /\ vm' \in Views /\ asked' \in Opt(Tokens)
              /\ failed' \in BOOLEAN /\ hasty' \in BOOLEAN /\ commands' \in Seq(Requests)
              /\ events' \in Seq(Answers) /\ Len(commands') + Len(events') <= MaxQueue
              /\ pending' \in BOOLEAN /\ surfaced' \in Opt(Games) /\ minimized' \in BOOLEAN
              /\ raised' \subseteq Games
  <2>1. commands # <<>> /\ commands' = Tail(commands)
    BY <1>10, ServeTypes
  <2>2. commands' \in Seq(Requests) /\ Len(commands') = Len(commands) - 1
    BY <1>1, <2>1
  <2> QED BY <1>1, <1>3, <1>4, <1>10, <2>2, ServeTypes
<1>11. CASE Tick
  BY <1>1, <1>3, <1>4, <1>11, TickTypes
<1>12. CASE UNCHANGED vars
  BY <1>1, <1>12 DEF vars, screen, history
<1> QED BY <1>6, <1>7, <1>8, <1>9, <1>10, <1>11, <1>12 DEF Next, Gesture, Worker, Tick

\* TypeOK: app.rs, viewmodel.rs and worker.rs keep the two queues and the view model
\* within their types, and no step puts more under way than the bound.
THEOREM WindowTypes == Spec => []TypeOK
<1>1. Init => TypeOK
  BY InitTypeOK
<1>2. TypeOK /\ [Next]_vars => TypeOK'
  BY NextTypeOK
<1> QED BY <1>1, <1>2, PTL DEF Spec

-----------------------------------------------------------------------------
(* The inductive invariant.  The properties look ahead to the view model that the
   events under way lead to (Drained), so that a frame changes none of them. *)

Lists == {"guilds", "channels"}
Quiet(q) == \A i \in 1..Len(q) : q[i].op \notin Lists

\* The dialog asks about each unresolved conflict once.
DialogInv == Range(Drained.conflicts) = raised /\ Once(Drained.conflicts)

\* What was surfaced is what the dialog asks about.
SurfacedInv == surfaced = AsksAbout(vm.conflicts)

\* The last request for a list that is under way is the one for the picked guild,
\* or it is answered: by an error, or by an event that is the last one to set the channels.
Asked ==
  \E i \in 1..Len(commands) :
    /\ commands[i] = [op |-> "channels", token |-> asked, guild |-> form.guild]
    /\ \A j \in 1..Len(commands) : j > i => commands[j].op \notin Lists
Answered ==
  /\ Quiet(commands)
  /\ failed \/ (Drained.channels = Of(form.guild) /\ form.guild \in Sees[asked])
ListInv == form.guild # None => Asked \/ Answered

\* A channel that was picked from a list that was no longer awaited is in the guild, and the
\* bot of the token that the list was asked with is in that guild.
PickedInv ==
  form.channel # None /\ ~hasty =>
    Home[form.channel] = form.guild /\ form.guild \in Sees[asked]

WindowInv ==
  TypeOK /\ DialogInv /\ SurfacedInv /\ ListInv /\ PickedInv

-----------------------------------------------------------------------------
(* How a step changes what the events under way lead to. *)

LEMMA DrainedKept ==
  ASSUME TypeOK, vm' \in Views, events' = events
  PROVE  /\ vm'.conflicts = vm.conflicts => Drained'.conflicts = Drained.conflicts
         /\ vm'.update = vm.update => Drained'.update = Drained.update
         /\ vm'.channels = vm.channels => Drained'.channels = Drained.channels
<1>1. vm \in Views /\ events \in Seq(Answers) /\ Drained' = Drain(vm', events)
  BY DEF TypeOK, Views, Drained
<1> QED BY <1>1, DrainedParts DEF Drained

LEMMA DrainedAnswer ==
  ASSUME TypeOK, vm' = vm, NEW e \in Answers, events' = Append(events, e)
  PROVE  Drained \in Views /\ Becomes(Drained, e, Drained')
<1>1. vm \in Views /\ events \in Seq(Answers)
  BY DEF TypeOK, Views
<1>2. Drained' = Apply(Drained, e) /\ Drained \in Views
  BY <1>1, DrainedMore DEF Drained
<1> QED BY <1>2, Applied

LEMMA DrainedFrame ==
  ASSUME TypeOK, Frame
  PROVE  Drained' = Drained
<1>1. vm' \in Views /\ vm' = Drained /\ events' = <<>>
  BY FrameTypes
<1>2. Drain(vm', <<>>) = vm'
  BY <1>1, DrainedNothing
<1> QED BY <1>1, <1>2 DEF Drained

\* A step is the user's, a frame, or the worker's.
Users ==
  /\ vm' \in Views /\ vm'.conflicts = vm.conflicts /\ vm'.update = vm.update
  /\ UNCHANGED <<events, pending, raised, surfaced>>
Workers ==
  Tells /\ UNCHANGED <<vm, surfaced, form, asked, hasty>> /\ (pending => pending')

LEMMA Kinds ==
  ASSUME TypeOK, [Next]_vars
  PROVE  Users \/ Frame \/ Workers
<1>1. vm \in Views
  BY DEF TypeOK, Views
<1>2. CASE ~minimized /\ Click /\ UNCHANGED screen
  BY <1>2, ClickTypes DEF Users, screen
<1>3. CASE Minimize \/ RegainFocus
  BY <1>1, <1>3 DEF Minimize, RegainFocus, Users, Rest
<1>4. CASE Worker
  BY <1>4, ServeTypes DEF Worker, Workers
<1>5. CASE Tick
  BY <1>5, TickTypes DEF Workers
<1>6. CASE UNCHANGED vars
  BY <1>1, <1>6 DEF vars, screen, history, Users
<1> QED BY <1>2, <1>3, <1>4, <1>5, <1>6 DEF Next, Gesture, Tick

-----------------------------------------------------------------------------
(* The conflicts. *)

LEMMA AppendedOnce ==
  ASSUME NEW cs \in Seq(Games), NEW g \in Games
  PROVE  /\ Range(Asking(cs, g)) = Range(cs) \union {g}
         /\ Once(cs) => Once(Asking(cs, g))
<1>1. CASE g \in Range(cs)
  BY <1>1 DEF Asking
<1>2. CASE g \notin Range(cs)
  <2> DEFINE ds == Append(cs, g)
             n == Len(cs)
  <2>1. /\ n \in Nat /\ ds \in Seq(Games) /\ Len(ds) = n + 1 /\ ds[n + 1] = g
        /\ \A i \in 1..n : ds[i] = cs[i]
    OBVIOUS
  <2>2. DOMAIN ds = 1..(n + 1) /\ DOMAIN cs = 1..n
    OBVIOUS
  <2>3. Asking(cs, g) = ds
    BY <1>2 DEF Asking
  <2>4. \A i \in 1..n : cs[i] # g
    BY <1>2, <2>2 DEF Range
  <2> HIDE DEF ds, n
  <2>5. Range(ds) = Range(cs) \union {g}
    <3>1. \A i \in 1..(n + 1) : i = n + 1 \/ i \in 1..n
      BY <2>1
    <3>2. 1..n \subseteq 1..(n + 1) /\ n + 1 \in 1..(n + 1)
      BY <2>1
    <3> QED BY <2>1, <2>2, <3>1, <3>2 DEF Range
  <2>6. Once(cs) => Once(ds)
    <3>1. Len(cs) = n
      BY DEF n
    <3> QED BY <2>1, <2>4, <3>1 DEF Once
  <2> QED BY <2>3, <2>5, <2>6
<1> QED BY <1>1, <1>2

LEMMA DialogKept ==
  ASSUME TypeOK, DialogInv, [Next]_vars
  PROVE  DialogInv'
<1>1. CASE Users
  <2>1. Drained'.conflicts = Drained.conflicts
    BY <1>1, DrainedKept DEF Users
  <2> QED BY <1>1, <2>1 DEF Users, DialogInv
<1>2. CASE Frame
  <2>1. Drained' = Drained /\ raised' = raised
    BY <1>2, DrainedFrame, FrameTypes
  <2> QED BY <2>1 DEF DialogInv
<1>3. CASE Workers
  <2>1. CASE UNCHANGED <<events, raised>>
    BY <1>3, <2>1 DEF Workers, DialogInv, Drained
  <2>2. ASSUME NEW e \in Answers, events' = Append(events, e),
               raised' = (IF e.op = "conflict" THEN raised \union {e.game}
                          ELSE IF e.op = "resolved" THEN raised \ {e.game} ELSE raised)
        PROVE  DialogInv'
    <3>1. Drained \in Views /\ Becomes(Drained, e, Drained')
      BY <1>3, <2>2, DrainedAnswer DEF Workers
    <3>2. Drained.conflicts \in Seq(Games)
      BY <3>1 DEF Views
    <3>3. CASE e.op = "conflict"
      <4>1. e.game \in Games /\ Drained'.conflicts = Asking(Drained.conflicts, e.game)
        BY <3>1, <3>3 DEF Answers, Becomes
      <4> QED BY <2>2, <3>2, <3>3, <4>1, AppendedOnce DEF DialogInv
    <3>4. CASE e.op = "resolved"
      <4>1. e.game \in Games /\ Drained'.conflicts = Retain(Drained.conflicts, e.game)
        BY <3>1, <3>4 DEF Answers, Becomes
      <4> QED BY <2>2, <3>2, <3>4, <4>1, Retained DEF DialogInv
    <3>5. CASE e.op \notin {"conflict", "resolved"}
      <4>1. Drained'.conflicts = Drained.conflicts /\ raised' = raised
        BY <2>2, <3>1, <3>5 DEF Becomes
      <4> QED BY <4>1 DEF DialogInv
    <3> QED BY <3>3, <3>4, <3>5
  <2> QED BY <1>3, <2>1, <2>2 DEF Workers, Tells
<1> QED BY <1>1, <1>2, <1>3, Kinds

LEMMA SurfacedKept ==
  ASSUME TypeOK, SurfacedInv, [Next]_vars
  PROVE  SurfacedInv'
<1>1. CASE Users
  BY <1>1 DEF Users, SurfacedInv, AsksAbout
<1>2. CASE Frame
  BY <1>2, FrameTypes DEF SurfacedInv
<1>3. CASE Workers
  BY <1>3 DEF Workers, SurfacedInv
<1> QED BY <1>1, <1>2, <1>3, Kinds

-----------------------------------------------------------------------------
(* The lists of the wizard. *)

\* A step that leaves the guild, its request and the channels alone, and asks for no list.
LEMMA ListKept ==
  ASSUME TypeOK, ListInv, form'.guild = form.guild, asked' = asked, failed' = failed,
         Drained'.channels = Drained.channels,
         commands' = commands \/ \E c \in Requests : c.op \notin Lists /\ commands' = Append(commands, c)
  PROVE  ListInv'
<1>1. commands \in Seq(Requests)
  BY DEF TypeOK
<1>2. CASE commands' = commands
  BY <1>2 DEF ListInv, Asked, Answered, Quiet
<1>3. ASSUME NEW c \in Requests, c.op \notin Lists, commands' = Append(commands, c)
      PROVE  ListInv'
  <2> DEFINE n == Len(commands)
  <2>1. /\ n \in Nat /\ Len(commands') = n + 1 /\ commands'[n + 1] = c
        /\ \A i \in 1..n : commands'[i] = commands[i]
    BY <1>1, <1>3
  <2>2. \A i \in 1..(n + 1) : i = n + 1 \/ i \in 1..n
    BY <2>1
  <2>3. Asked => Asked'
    <3> SUFFICES ASSUME NEW i \in 1..n,
                        commands[i] = [op |-> "channels", token |-> asked, guild |-> form.guild],
                        \A j \in 1..n : j > i => commands[j].op \notin Lists
                 PROVE  Asked'
      BY DEF Asked
    <3>1. i \in 1..(n + 1) /\ commands'[i] = commands[i]
      BY <2>1
    <3>2. \A j \in 1..(n + 1) : j > i => commands'[j].op \notin Lists
      BY <1>3, <2>1, <2>2
    <3> QED BY <2>1, <3>1, <3>2 DEF Asked
  <2>4. Answered => Answered'
    BY <1>3, <2>1, <2>2 DEF Answered, Quiet
  <2> QED BY <2>3, <2>4 DEF ListInv
<1> QED BY <1>2, <1>3

\* Nothing is known of the lists while no guild is picked.
LEMMA NoGuildYet ==
  ASSUME form'.guild = None
  PROVE  ListInv'
BY DEF ListInv

LEMMA GuildPicked ==
  ASSUME TypeOK, NEW g \in Guilds, PickGuild(g)
  PROVE  ListInv'
<1> DEFINE c == [op |-> "channels", token |-> form.token, guild |-> g]
           n == Len(commands)
<1>1. commands \in Seq(Requests) /\ form \in Forms
  BY DEF TypeOK, Forms
<1>2. commands' = Append(commands, c) /\ asked' = form.token /\ form'.guild = g
  BY <1>1 DEF PickGuild, Send, Forms
<1>3. /\ n \in Nat /\ Len(commands') = n + 1 /\ commands'[n + 1] = c
  BY <1>1, <1>2
<1>4. n + 1 \in 1..Len(commands') /\ \A j \in 1..Len(commands') : ~(j > n + 1)
  BY <1>3
<1> QED BY <1>2, <1>3, <1>4 DEF ListInv, Asked

\* What an answer says of a list.
LEMMA ServeLists ==
  ASSUME TypeOK, NEW ok \in BOOLEAN, Serve(ok)
  PROVE  LET c == Head(commands) IN
         /\ c.op = "channels" =>
              \/ failed'
              \/ /\ [op |-> "channels", channels |-> Of(c.guild)] \in Answers
                 /\ events' = Append(events, [op |-> "channels", channels |-> Of(c.guild)])
                 /\ c.guild \in Sees[c.token]
         /\ c.op \notin Lists =>
              /\ failed' = failed
              /\ \/ events' = events
                 \/ \E e \in Answers : e.op \notin Lists /\ events' = Append(events, e)
<1> DEFINE c == Head(commands)
<1>1. /\ Op(c)
      /\ \/ Validated(c, ok) \/ GuildsListed(c, ok) \/ ChannelsListed(c, ok)
         \/ Resolved(c, ok) \/ Others(c, ok)
  BY DEF Serve, Op
<1>2. c \in Requests
  BY <1>1 DEF Op, TypeOK
<1> HIDE DEF c
<1>3. ASSUME c.op = "channels"
      PROVE  \/ failed'
             \/ /\ [op |-> "channels", channels |-> Of(c.guild)] \in Answers
                /\ events' = Append(events, [op |-> "channels", channels |-> Of(c.guild)])
                /\ c.guild \in Sees[c.token]
  <2>1. ChannelsListed(c, ok)
    BY <1>1, <1>3 DEF Validated, GuildsListed, Resolved, Others
  <2>2. CASE ok
    <3>1. events' = Append(events, [op |-> "channels", channels |-> Of(c.guild)])
      BY <2>1, <2>2, Answering DEF ChannelsListed
    <3>2. Of(c.guild) \in SUBSET Channels
      BY DEF Of
    <3>3. [op |-> "channels", channels |-> Of(c.guild)] \in Answers
      BY <3>2, Told
    <3>4. c.guild \in Sees[c.token]
      BY <2>1, <2>2 DEF ChannelsListed
    <3> QED BY <3>1, <3>3, <3>4
  <2>3. CASE ~ok
    BY <2>1, <2>3 DEF ChannelsListed
  <2> QED BY <2>2, <2>3
<1>4. ASSUME c.op \notin Lists
      PROVE  /\ failed' = failed
             /\ \/ events' = events
                \/ \E e \in Answers : e.op \notin Lists /\ events' = Append(events, e)
  <2>1. CASE Validated(c, ok)
    <3>1. c.token \in Tokens
      BY <1>2, <2>1, Received DEF Validated
    <3>2. CASE ok
      <4> DEFINE e == [op |-> "valid", token |-> c.token]
      <4>1. events' = Append(events, e) /\ e \in Answers /\ e.op \notin Lists
        BY <2>1, <3>1, <3>2, Answering, Told DEF Validated, Lists
      <4> HIDE DEF e
      <4> QED BY <2>1, <4>1 DEF Validated
    <3>3. CASE ~ok
      BY <2>1, <3>3, Answering DEF Validated
    <3> QED BY <3>2, <3>3
  <2>2. CASE Resolved(c, ok)
    <3>1. c.game \in Games
      BY <1>2, <2>2, Received DEF Resolved
    <3>2. CASE ok
      <4> DEFINE e == [op |-> "resolved", game |-> c.game]
      <4>1. events' = Append(events, e) /\ e \in Answers /\ e.op \notin Lists
        BY <2>2, <3>1, <3>2, Answering, Told DEF Resolved, Lists
      <4> HIDE DEF e
      <4> QED BY <2>2, <4>1 DEF Resolved
    <3>3. CASE ~ok
      BY <2>2, <3>3, Answering DEF Resolved
    <3> QED BY <3>2, <3>3
  <2>3. CASE Others(c, ok)
    <3>1. failed' = failed
      BY <2>3 DEF Others
    <3>2. events' = events \/ events' = Append(events, [op |-> "update"])
      BY <2>3, Answering DEF Others, Found
    <3>3. [op |-> "update"] \in Answers /\ [op |-> "update"].op \notin Lists
      BY Told DEF Lists
    <3> QED BY <3>1, <3>2, <3>3
  <2> QED BY <1>1, <1>4, <2>1, <2>2, <2>3 DEF GuildsListed, ChannelsListed, Lists
<1> QED BY <1>3, <1>4 DEF c

LEMMA QuietTail ==
  ASSUME NEW q \in Seq(Requests), q # <<>>
  PROVE  /\ Quiet(q) => Quiet(Tail(q)) /\ Head(q).op \notin Lists
         /\ \A i \in 1..Len(Tail(q)) : Tail(q)[i] = q[i + 1]
         /\ Len(Tail(q)) = Len(q) - 1
<1>1. Len(q) \in Nat /\ 1 \in 1..Len(q) /\ Head(q) = q[1]
  OBVIOUS
<1>2. Len(Tail(q)) = Len(q) - 1 /\ \A i \in 1..Len(Tail(q)) : Tail(q)[i] = q[i + 1]
  BY HeadTailProperties
<1>3. \A i \in 1..Len(Tail(q)) : i + 1 \in 1..Len(q)
  BY <1>1, <1>2
<1> QED BY <1>1, <1>2, <1>3 DEF Quiet

LEMMA ListServed ==
  ASSUME TypeOK, ListInv, NEW ok \in BOOLEAN, Serve(ok)
  PROVE  ListInv'
<1> DEFINE c == Head(commands)
           n == Len(commands)
           listed == [op |-> "channels", channels |-> Of(c.guild)]
<1>1. /\ commands \in Seq(Requests) /\ commands # <<>> /\ commands' = Tail(commands)
      /\ vm' = vm /\ form' = form /\ asked' = asked
  BY ServeTypes DEF TypeOK
<1>2. SUFFICES ASSUME form.guild # None PROVE Asked' \/ Answered'
  BY <1>1 DEF ListInv
<1>3. /\ Quiet(commands) => Quiet(commands') /\ c.op \notin Lists
      /\ \A i \in 1..Len(commands') : commands'[i] = commands[i + 1]
      /\ Len(commands') = n - 1 /\ n \in Nat /\ c = commands[1]
  <2>1. n \in Nat /\ c = commands[1]
    BY <1>1
  <2> HIDE DEF c, n
  <2> QED BY <1>1, <2>1, QuietTail DEF c, n
<1>4. CASE Answered
  <2>1. Quiet(commands') /\ c.op \notin Lists
    BY <1>3, <1>4 DEF Answered
  <2>2. /\ failed' = failed
        /\ \/ events' = events
           \/ \E e \in Answers : e.op \notin Lists /\ events' = Append(events, e)
    BY <2>1, ServeLists
  <2>3. Drained'.channels = Drained.channels
    <3>1. CASE events' = events
      BY <1>1, <3>1 DEF Drained
    <3>2. ASSUME NEW e \in Answers, e.op \notin Lists, events' = Append(events, e)
          PROVE  Drained'.channels = Drained.channels
      <4>1. Becomes(Drained, e, Drained')
        BY <1>1, <3>2, DrainedAnswer
      <4> QED BY <3>2, <4>1 DEF Becomes, Lists
    <3> QED BY <2>2, <3>1, <3>2
  <2>4. Answered'
    BY <1>1, <1>4, <2>1, <2>2, <2>3 DEF Answered
  <2> QED BY <2>4
<1>5. ASSUME NEW i \in 1..n,
             commands[i] = [op |-> "channels", token |-> asked, guild |-> form.guild],
             \A j \in 1..n : j > i => commands[j].op \notin Lists
      PROVE  Asked' \/ Answered'
  <2>1. CASE i = 1
    <3>1. c.op = "channels" /\ c.token = asked /\ c.guild = form.guild
      BY <1>3, <1>5, <2>1
    <3>2. Quiet(commands')
      <4>1. \A k \in 1..Len(commands') : k + 1 \in 1..n /\ k + 1 > 1
        BY <1>3
      <4> QED BY <1>3, <1>5, <2>1, <4>1 DEF Quiet
    <3>3. failed' \/ (/\ listed \in Answers /\ events' = Append(events, listed)
                      /\ c.guild \in Sees[c.token])
      BY <3>1, ServeLists
    <3>4. CASE failed'
      BY <3>2, <3>4 DEF Answered
    <3>5. CASE /\ listed \in Answers /\ events' = Append(events, listed)
               /\ c.guild \in Sees[c.token]
      <4>1. Becomes(Drained, listed, Drained')
        <5> HIDE DEF listed
        <5> QED BY <1>1, <3>5, DrainedAnswer
      <4>2. Drained'.channels = Of(c.guild)
        BY <4>1 DEF Becomes
      <4> QED BY <1>1, <3>1, <3>2, <3>5, <4>2 DEF Answered
    <3> QED BY <3>3, <3>4, <3>5
  <2>2. CASE i # 1
    <3>1. i - 1 \in 1..Len(commands') /\ (i - 1) + 1 = i
      BY <1>3, <2>2
    <3>2. commands'[i - 1] = [op |-> "channels", token |-> asked', guild |-> form'.guild]
      BY <1>1, <1>3, <1>5, <3>1
    <3>3. \A j \in 1..Len(commands') : j > i - 1 => commands'[j].op \notin Lists
      <4>1. \A j \in 1..Len(commands') : j > i - 1 => j + 1 \in 1..n /\ j + 1 > i
        BY <1>3
      <4> QED BY <1>3, <1>5, <4>1
    <3>4. Asked'
      BY <3>1, <3>2, <3>3 DEF Asked
    <3> QED BY <3>4
  <2> QED BY <2>1, <2>2
<1> QED BY <1>2, <1>4, <1>5 DEF ListInv, Asked

LEMMA ListInvKept ==
  ASSUME TypeOK, ListInv, [Next]_vars
  PROVE  ListInv'
<1>1. form \in Forms /\ vm \in Views
  BY DEF TypeOK, Forms, Views
<1>2. ASSUME form'.guild = form.guild, vm' \in Views, vm'.channels = vm.channels,
             UNCHANGED <<events, asked, failed>>,
             commands' = commands
               \/ \E c \in Requests : c.op \notin Lists /\ commands' = Append(commands, c)
      PROVE  ListInv'
  <2>1. Drained'.channels = Drained.channels
    BY <1>2, DrainedKept
  <2> QED BY <1>2, <2>1, ListKept
<1>3. CASE ~minimized /\ Click /\ UNCHANGED screen
  <2>1. CASE OpenWizard
    <3>1. form'.guild = None
      BY <2>1 DEF OpenWizard, Empty
    <3> QED BY <3>1, NoGuildYet
  <2>2. CASE FetchGuilds
    <3>1. form'.guild = None
      BY <1>1, <2>2 DEF FetchGuilds, Forms
    <3> QED BY <3>1, NoGuildYet
  <2>3. CASE \E g \in Guilds : PickGuild(g)
    BY <2>3, GuildPicked
  <2>4. CASE CloseWizard \/ Forward \/ Back \/ (\E t \in Opt(Tokens) : TypeToken(t))
             \/ (\E c \in Channels : PickChannel(c))
    <3>1. form'.guild = form.guild
      BY <1>1, <2>4 DEF CloseWizard, Forward, Back, TypeToken, PickChannel, Goto, Forms
    <3>2. UNCHANGED <<vm, events, asked, failed, commands>>
      BY <2>4 DEF CloseWizard, Forward, Back, TypeToken, PickChannel, Ask, Rest
    <3> QED BY <1>1, <1>2, <3>1, <3>2
  <2>5. CASE ValidateToken
    <3>1. form.token \in Tokens
      BY <1>1, <2>5 DEF ValidateToken, Forms, Opt
    <3> DEFINE c == [op |-> "validate", token |-> form.token]
    <3>2. c \in Requests /\ c.op \notin Lists
      BY <3>1, Sent DEF Lists
    <3>3. vm' \in Views /\ vm'.channels = vm.channels
      BY <1>1, <2>5 DEF ValidateToken, Views
    <3>4. commands' = Append(commands, c) /\ UNCHANGED <<form, events, asked, failed>>
      BY <2>5 DEF ValidateToken, Send, Ask, Rest
    <3> HIDE DEF c
    <3> QED BY <1>2, <3>2, <3>3, <3>4
  <2>6. CASE CreateGroup
    <3>1. form.token \in Opt(Tokens) /\ form.guild \in Guilds /\ form.channel \in Channels
      BY <1>1, <2>6 DEF CreateGroup, Forms, Opt
    <3> DEFINE c == [op |-> "create", token |-> form.token, guild |-> form.guild,
                     channel |-> form.channel]
    <3>2. c \in Requests /\ c.op \notin Lists
      BY <3>1, Sent DEF Lists
    <3>3. form'.guild = form.guild
      BY <1>1, <2>6 DEF CreateGroup, Forms
    <3>4. commands' = Append(commands, c) /\ UNCHANGED <<vm, events, asked, failed>>
      BY <2>6 DEF CreateGroup, Send, Ask, Rest
    <3> HIDE DEF c
    <3> QED BY <1>1, <1>2, <3>2, <3>3, <3>4
  <2>7. CASE Resolve
    <3>1. Head(vm.conflicts) \in Games
      BY <1>1, <2>7 DEF Resolve, Views
    <3> DEFINE c == [op |-> "resolve", game |-> Head(vm.conflicts)]
    <3>2. c \in Requests /\ c.op \notin Lists
      BY <3>1, Sent DEF Lists
    <3>3. commands' = Append(commands, c) /\ UNCHANGED <<form, vm, events, asked, failed>>
      BY <2>7 DEF Resolve, Send, Ask, Rest
    <3> HIDE DEF c
    <3> QED BY <1>1, <1>2, <3>2, <3>3
  <2>8. CASE ApplyUpdate
    <3> DEFINE c == [op |-> "apply"]
    <3>1. c \in Requests /\ c.op \notin Lists
      BY Sent DEF Lists
    <3>2. commands' = Append(commands, c) /\ UNCHANGED <<form, vm, events, asked, failed>>
      BY <2>8 DEF ApplyUpdate, Send, Ask, Rest
    <3> HIDE DEF c
    <3> QED BY <1>1, <1>2, <3>1, <3>2
  <2> QED BY <1>3, <2>1, <2>2, <2>3, <2>4, <2>5, <2>6, <2>7, <2>8 DEF Click
<1>4. CASE Minimize
  BY <1>1, <1>2, <1>4 DEF Minimize, Ask, Rest
<1>5. CASE RegainFocus
  <2> DEFINE c == [op |-> "check"]
  <2>1. c \in Requests /\ c.op \notin Lists
    BY Sent DEF Lists
  <2>2. commands' = Append(commands, c) \/ commands' = commands
    BY <1>5 DEF RegainFocus, Send
  <2>3. UNCHANGED <<form, vm, events, asked, failed>>
    BY <1>5 DEF RegainFocus, Ask, Rest
  <2> HIDE DEF c
  <2> QED BY <1>1, <1>2, <2>1, <2>2, <2>3
<1>6. CASE Frame
  <2>1. Drained' = Drained /\ UNCHANGED <<form, commands, asked, failed>>
    BY <1>6, DrainedFrame, FrameTypes
  <2> QED BY <2>1, ListKept
<1>7. CASE Worker
  BY <1>7, ListServed DEF Worker
<1>8. CASE Tick
  <2>1. UNCHANGED <<form, vm, commands, asked, failed>>
    BY <1>8, TickTypes
  <2>2. CASE events' = events
    BY <2>1, <2>2, ListKept DEF Drained
  <2>3. ASSUME NEW e \in Answers, e.op \notin Lists, events' = Append(events, e)
        PROVE  ListInv'
    <3>1. Becomes(Drained, e, Drained')
      BY <2>1, <2>3, DrainedAnswer
    <3>2. Drained'.channels = Drained.channels
      BY <2>3, <3>1 DEF Becomes, Lists
    <3> QED BY <2>1, <3>2, ListKept
  <2>4. events' = events \/ \E e \in Answers : e.op \notin Lists /\ events' = Append(events, e)
    <3>1. ASSUME NEW g \in Games, TickConflict(g)
          PROVE  \E e \in Answers : e.op \notin Lists /\ events' = Append(events, e)
      <4> DEFINE e == [op |-> "conflict", game |-> g]
      <4>1. events' = Append(events, e) /\ e \in Answers /\ e.op \notin Lists
        BY <3>1, Answering, Told DEF TickConflict, Lists
      <4> HIDE DEF e
      <4> QED BY <4>1
    <3>2. ASSUME NEW ok \in BOOLEAN, TickUpdate(ok)
          PROVE  events' = events
                 \/ \E e \in Answers : e.op \notin Lists /\ events' = Append(events, e)
      <4> DEFINE e == [op |-> "update"]
      <4>1. events' = events \/ events' = Append(events, e)
        BY <3>2, Answering DEF TickUpdate, Found
      <4>2. e \in Answers /\ e.op \notin Lists
        BY Told DEF Lists
      <4> HIDE DEF e
      <4> QED BY <4>1, <4>2
    <3> QED BY <1>8, <3>1, <3>2 DEF Tick
  <2> QED BY <2>2, <2>3, <2>4
<1>9. CASE UNCHANGED vars
  BY <1>1, <1>2, <1>9 DEF vars, history
<1> QED BY <1>3, <1>4, <1>5, <1>6, <1>7, <1>8, <1>9 DEF Next, Gesture, Tick

\* Once no list is under way and none failed, the channels shown are those of the guild
\* that is picked.
LEMMA ListShown ==
  ASSUME TypeOK, ListInv, form.guild # None, ~Waiting, ~failed
  PROVE  vm.channels = Of(form.guild) /\ form.guild \in Sees[asked]
<1>1. commands \in Seq(Requests) /\ events \in Seq(Answers) /\ vm \in Views
  BY DEF TypeOK, Views
<1>2. \A m \in Range(commands) \union Range(events) : m.op \notin Lists
  BY DEF Waiting, Lists
<1>3. \A i \in 1..Len(commands) : commands[i].op \notin Lists
  BY <1>1, <1>2 DEF Range
<1>4. \A i \in 1..Len(events) : events[i].op \notin Lists
  BY <1>1, <1>2 DEF Range
<1>5. ~Asked
  BY <1>3 DEF Asked, Lists
<1>6. Answered
  BY <1>5 DEF ListInv
<1>7. Drained.channels = vm.channels
  BY <1>1, <1>4, DrainedParts DEF Drained, Lists
<1> QED BY <1>6, <1>7 DEF Answered

LEMMA PickedKept ==
  ASSUME TypeOK, ListInv, PickedInv, [Next]_vars
  PROVE  PickedInv'
<1>1. form \in Forms
  BY DEF TypeOK, Forms
<1>2. ASSUME form'.guild = form.guild, form'.channel = form.channel, asked' = asked, hasty' = hasty
      PROVE  PickedInv'
  BY <1>2 DEF PickedInv
<1>3. ASSUME form'.channel = None PROVE PickedInv'
  BY <1>3 DEF PickedInv
<1>4. CASE ~minimized /\ Click /\ UNCHANGED screen
  <2>1. CASE OpenWizard
    BY <1>3, <2>1 DEF OpenWizard, Empty
  <2>2. CASE FetchGuilds
    BY <1>1, <1>3, <2>2 DEF FetchGuilds, Forms
  <2>3. CASE \E g \in Guilds : PickGuild(g)
    BY <1>1, <1>3, <2>3 DEF PickGuild, Forms
  <2>4. ASSUME NEW c \in Channels, PickChannel(c) PROVE PickedInv'
    <3>1. form'.channel = c /\ form'.guild = form.guild /\ asked' = asked /\ form.guild # None
      BY <1>1, <2>4 DEF PickChannel, Forms
    <3>2. c \in vm.channels /\ hasty' = (Waiting \/ failed)
      BY <2>4 DEF PickChannel
    <3>3. ~hasty' => c \in Of(form.guild) /\ form.guild \in Sees[asked]
      BY <3>1, <3>2, ListShown
    <3> QED BY <3>1, <3>3 DEF PickedInv, Of
  <2>5. CASE CloseWizard \/ Forward \/ Back \/ ValidateToken \/ CreateGroup \/ Resolve
             \/ ApplyUpdate \/ \E t \in Opt(Tokens) : TypeToken(t)
    BY <1>1, <1>2, <2>5 DEF CloseWizard, Forward, Back, Goto, TypeToken, ValidateToken,
       CreateGroup, Resolve, ApplyUpdate, Ask, Forms
  <2> QED BY <1>4, <2>1, <2>2, <2>3, <2>4, <2>5 DEF Click
<1>5. CASE Minimize \/ RegainFocus
  BY <1>2, <1>5 DEF Minimize, RegainFocus, Ask
<1>6. CASE Frame
  BY <1>2, <1>6, FrameTypes
<1>7. CASE Worker
  BY <1>2, <1>7, ServeTypes DEF Worker
<1>8. CASE Tick
  BY <1>2, <1>8, TickTypes
<1>9. CASE UNCHANGED vars
  BY <1>2, <1>9 DEF vars, history
<1> QED BY <1>4, <1>5, <1>6, <1>7, <1>8, <1>9 DEF Next, Gesture, Tick

-----------------------------------------------------------------------------
LEMMA InitWindowInv == Init => WindowInv
<1> SUFFICES ASSUME Init PROVE WindowInv
  OBVIOUS
<1>1. TypeOK
  BY InitTypeOK
<1>2. vm \in Views /\ events = <<>>
  BY <1>1 DEF Init, TypeOK, Views
<1>3. Drained = vm
  BY <1>2, DrainedNothing DEF Drained
<1>4. vm.conflicts = <<>> /\ ~vm.update /\ raised = {} /\ commands = <<>> /\ surfaced = None
      /\ form.guild = None /\ form.channel = None
  BY DEF Init, Empty
<1>5. Range(<<>>) = {} /\ Once(<<>>)
  BY DEF Range, Once
<1> QED BY <1>1, <1>3, <1>4, <1>5 DEF WindowInv, DialogInv, SurfacedInv, AsksAbout,
        ListInv, PickedInv

LEMMA WindowInvariant == Spec => []WindowInv
<1>1. Init => WindowInv
  BY InitWindowInv
<1>2. WindowInv /\ [Next]_vars => WindowInv'
  BY NextTypeOK, DialogKept, SurfacedKept, ListInvKept, PickedKept DEF WindowInv
<1> QED BY <1>1, <1>2, PTL DEF Spec

\* DialogMatches: once the events under way are applied, the dialog asks about each
\* unresolved conflict once and about nothing else (viewmodel.rs, Conflict and
\* ResolvedConflict).
THEOREM WindowDialogMatches == Spec => []DialogMatches
<1>1. ASSUME WindowInv PROVE DialogMatches
  <2> DEFINE cs == Drained.conflicts
             n == Len(cs)
  <2>1. vm \in Views /\ events \in Seq(Answers)
    BY <1>1 DEF WindowInv, TypeOK, Views
  <2>2. PICK f : After(f, vm, events)
    BY <2>1, Draining
  <2>3. Drained \in Views
    BY <2>1, <2>2 DEF After, Drained
  <2>4. cs \in Seq(Games) /\ n \in Nat /\ Range(cs) = raised /\ Once(cs)
    BY <1>1, <2>3 DEF WindowInv, DialogInv, Views
  <2>5. cs \in Bijection(1..n, raised)
    <3> HIDE DEF cs
    <3> QED BY <2>4 DEF Bijection, Injection, Surjection, IsInjective, Range, Once
  <2>6. Cardinality(raised) = n
    <3> HIDE DEF cs, n
    <3> QED BY <2>4, <2>5, FS_CountingElements DEF ExistsBijection
  <2> QED BY <2>4, <2>6 DEF DialogMatches
<1> QED BY <1>1, WindowInvariant, PTL

\* ListIsCurrent: once no list is under way and the last request did not fail, the channels
\* offered are those of the guild that is picked (app.rs, channel_pickers_ui).
THEOREM WindowListIsCurrent == Spec => []ListIsCurrent
<1>1. WindowInv => ListIsCurrent
  BY ListShown DEF WindowInv, ListIsCurrent
<1> QED BY <1>1, WindowInvariant, PTL

\* CreateFits: the channel and the guild of the group that is created fit together, and the
\* bot of the token is in the guild (app.rs, create_wizard).
THEOREM WindowCreateFits == Spec => CreateFits
<1>1. ASSUME WindowInv, CreateGroup, ~hasty, form.token = asked
      PROVE  form.guild \in Sees[form.token] /\ Home[form.channel] = form.guild
  BY <1>1 DEF WindowInv, PickedInv, CreateGroup
<1>2. WindowInv => [CreateGroup /\ ~hasty /\ form.token = asked =>
                      /\ form.guild \in Sees[form.token]
                      /\ Home[form.channel] = form.guild]_vars
  BY <1>1
<1> QED BY <1>2, WindowInvariant, PTL DEF CreateFits

\* ConflictSurfaces: the window comes to the front whenever the dialog begins to ask about
\* a game (app.rs, surfaced_conflict).
THEOREM WindowConflictSurfaces == Spec => ConflictSurfaces
<1>1. ASSUME WindowInv, [Next]_vars,
             AsksAbout(vm.conflicts') \notin {None, AsksAbout(vm.conflicts)}
      PROVE  ~minimized'
  <2>1. Frame
    BY <1>1, Kinds DEF WindowInv, Users, Workers
  <2>2. vm' = Drained
    BY <1>1, <2>1, FrameTypes DEF WindowInv
  <2> DEFINE cs == Drained.conflicts
  <2>3. minimized' = (minimized /\ (cs = <<>> \/ surfaced = Head(cs)))
    BY <2>1 DEF Frame, Surface
  <2>4. cs # <<>> /\ surfaced # Head(cs)
    BY <1>1, <2>2 DEF WindowInv, SurfacedInv, AsksAbout
  <2> QED BY <2>3, <2>4
<1>2. WindowInv /\ [Next]_vars =>
        [AsksAbout(vm.conflicts') \notin {None, AsksAbout(vm.conflicts)} => ~minimized']_vars
  BY <1>1
<1> QED BY <1>2, WindowInvariant, PTL DEF Spec, ConflictSurfaces
=============================================================================
