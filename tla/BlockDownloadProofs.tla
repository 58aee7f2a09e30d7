------------------------ MODULE BlockDownloadProofs ------------------------
(***************************************************************************)
(* The books of the blocks in flight, for every tree of blocks, finite or  *)
(* not, every finite set of peers and every limit.  Sound says that the    *)
(* map, the queues and the counters agree, peer by peer; Covered that what *)
(* is in flight was asked for; Limit that no peer has too much to send.    *)
(* Their conjunction is inductive.  MarkBlockAsReceived and                *)
(* MarkBlockAsInFlight keep Sound (ReceivedSound, InFlightSound); other    *)
(* changes of an entry make books that are Alike; the handlers are made of *)
(* these.                                                                  *)
(***************************************************************************)
EXTENDS BlockDownload, FiniteSetTheorems, SequenceTheorems, WellFoundedInduction, TLAPS

\* The provers may take a minute; Zenon is the one to try where a leaf names none.
USE ZenonT(60)

----------------------------------------------------------------------------
(* Numbers, sequences and the tree of blocks *)

Tree(N, r, par) ==
    /\ r \in N /\ par \in [N \ {r} -> N]
    /\ \A S \in SUBSET (N \ {r}) : S # {} => \E b \in S : par[b] \notin S
Steps(N, X, base, G) == base \in X /\ G \in [N -> [X -> X]]
Recursive(f, N, r, par, base, G) ==
    f[r] = base /\ \A b \in N \ {r} : f[b] = G[b][f[par[b]]]

\* A recursion from the parents of a tree to their children defines a function.
\* The tree may be infinite: each member comes after finitely many others.
LEMMA TreeRecursion ==
  ASSUME NEW N, NEW r, NEW par, Tree(N, r, par), NEW X, NEW base, NEW G, Steps(N, X, base, G)
  PROVE  \E f \in [N -> X] : Recursive(f, N, r, par, base, G)
<1>0. /\ r \in N /\ par \in [N \ {r} -> N] /\ base \in X /\ G \in [N -> [X -> X]]
      /\ \A S \in SUBSET (N \ {r}) : S # {} => \E b \in S : par[b] \notin S
  BY DEF Tree, Steps
<1> USE <1>0
<1> DEFINE Follows(T) == /\ <<r, base>> \in T
                        /\ \A b \in N \ {r}, x \in X : <<par[b], x>> \in T => <<b, G[b][x]>> \in T
           R == {p \in N \X X : \A T \in SUBSET (N \X X) : Follows(T) => p \in T}
<1>1. Follows(R)
  <2>1. <<r, base>> \in R
    OBVIOUS
  <2>2. ASSUME NEW b \in N \ {r}, NEW x \in X, <<par[b], x>> \in R
        PROVE  <<b, G[b][x]>> \in R
    <3>1. <<b, G[b][x]>> \in N \X X
      BY SMTT(60)
    <3> QED
      BY <2>2, <3>1
  <2> QED
    BY <2>1, <2>2
<1>2. \A b \in N : \E x \in X : <<b, x>> \in R
  <2> DEFINE S == {b \in N : ~ \E x \in X : <<b, x>> \in R}
  <2>1. r \notin S
    BY <1>1
  <2>2. ASSUME NEW b \in S, par[b] \notin S PROVE FALSE
    <3>1. b \in N \ {r} /\ par[b] \in N
      BY <2>1
    <3>2. PICK x \in X : <<par[b], x>> \in R
      BY <2>2, <3>1
    <3>3. <<b, G[b][x]>> \in R /\ G[b][x] \in X
      <4> HIDE DEF R
      <4> QED
        BY SMTT(60), <1>1, <3>1, <3>2
    <3> QED
      BY <3>3
  <2>3. S = {}
    <3>1. S \in SUBSET (N \ {r})
      BY <2>1
    <3> HIDE DEF S
    <3> QED
      BY <2>2, <3>1
  <2> QED
    BY <2>3
<1>3. \A b \in N : \A x, y \in X : <<b, x>> \in R /\ <<b, y>> \in R => x = y
  <2> DEFINE S == {b \in N : \E x, y \in X : <<b, x>> \in R /\ <<b, y>> \in R /\ x # y}
  <2>1. \A b \in N \ {r} : \A y \in X : <<b, y>> \in R => \E z \in X : <<par[b], z>> \in R /\ y = G[b][z]
    <3> TAKE b \in N \ {r}
    <3> TAKE y \in X
    <3> SUFFICES ASSUME <<b, y>> \in R, ~ \E z \in X : <<par[b], z>> \in R /\ y = G[b][z]
                 PROVE  FALSE
      OBVIOUS
    <3> DEFINE T == R \ {<<b, y>>}
    <3>1. T \in SUBSET (N \X X)
      OBVIOUS
    <3>2. Follows(T)
      BY <1>1
    <3> QED
      BY <3>1, <3>2
  <2>2. \A y \in X : <<r, y>> \in R => y = base
    <3> SUFFICES ASSUME NEW y \in X, <<r, y>> \in R, y # base PROVE FALSE
      OBVIOUS
    <3> DEFINE T == R \ {<<r, y>>}
    <3>1. T \in SUBSET (N \X X)
      OBVIOUS
    <3>2. Follows(T)
      BY <1>1
    <3> QED
      BY <3>1, <3>2
  <2> HIDE DEF R
  <2>3. r \notin S
    BY <2>2
  <2>4. ASSUME NEW b \in S, par[b] \notin S PROVE FALSE
    <3>1. PICK x \in X, y \in X : <<b, x>> \in R /\ <<b, y>> \in R /\ x # y
      BY <2>4
    <3>2. b \in N \ {r} /\ par[b] \in N
      BY <2>3
    <3>3. PICK u \in X : <<par[b], u>> \in R /\ x = G[b][u]
      BY <2>1, <3>1, <3>2
    <3>4. PICK v \in X : <<par[b], v>> \in R /\ y = G[b][v]
      BY <2>1, <3>1, <3>2
    <3>5. u = v
      BY <2>4, <3>2, <3>3, <3>4
    <3> QED
      BY <3>1, <3>3, <3>4, <3>5
  <2>5. S = {}
    <3>1. S \in SUBSET (N \ {r})
      BY <2>3
    <3> HIDE DEF S
    <3> QED
      BY <2>4, <3>1
  <2> QED
    BY <2>5
<1> HIDE DEF R
<1> DEFINE f == [b \in N |-> CHOOSE x \in X : <<b, x>> \in R]
<1>4. \A b \in N : f[b] \in X /\ <<b, f[b]>> \in R
  BY <1>2
<1>5. f \in [N -> X]
  BY <1>4
<1>6. f[r] = base
  BY <1>1, <1>3, <1>4
<1>7. ASSUME NEW b \in N \ {r} PROVE f[b] = G[b][f[par[b]]]
  <2> HIDE DEF f
  <2>1. par[b] \in N /\ G[b][f[par[b]]] \in X
    BY SMTT(60), <1>5
  <2>2. <<b, G[b][f[par[b]]]>> \in R
    BY <1>1, <1>4, <2>1
  <2>3. b \in N /\ f[b] \in X /\ <<b, f[b]>> \in R
    BY <1>4
  <2> QED
    BY <1>3, <2>1, <2>2, <2>3
<1> QED
  BY <1>5, <1>6, <1>7 DEF Recursive

\* A set of numbers has a least one.
LEMMA LeastNat ==
    ASSUME NEW T, T \subseteq Nat, T # {}
    PROVE  Min(T) \in T /\ \A n \in T : Min(T) =< n
<1>1. PICK R : IsWellFoundedOn(R, Nat) /\ \A x, y \in Nat : <<y, x>> \in R <=> y < x
  <2>1. \A x, y \in Nat : <<y, x>> \in OpToRel(<, Nat) <=> y < x
    BY DEF OpToRel
  <2> QED
    BY <2>1, NatLessThanWellFounded
<1>2. PICK n \in T : \A y \in T : ~ (<<y, n>> \in R)
  BY <1>1, WFMin
<1>3. \A y \in T : n =< y
  <2> SUFFICES ASSUME NEW y \in T PROVE n =< y
    OBVIOUS
  <2>1. y \in Nat /\ n \in Nat /\ ~(y < n)
    BY <1>1, <1>2
  <2> QED
    BY SMTT(60), <2>1
<1> QED
  BY <1>3 DEF Min

\* The greatest member of a bounded set of numbers.
LEMMA GreatestNat ==
    ASSUME NEW n \in Nat, NEW T, T \subseteq 1 .. n, T # {}
    PROVE  Max(T) \in T /\ \A t \in T : t =< Max(T)
<1> DEFINE U == {m \in Nat : \A t \in T : t =< m}
<1>1. U \subseteq Nat /\ n \in U
  BY SMTT(60)
<1>2. PICK m : m \in U /\ \A u \in U : m =< u
  <2> HIDE DEF U
  <2>1. Min(U) \in U /\ \A u \in U : Min(U) =< u
    BY <1>1, LeastNat
  <2> QED
    BY <2>1
<1>3. m \in T
  <2> SUFFICES ASSUME m \notin T PROVE FALSE
    OBVIOUS
  <2>1. PICK t \in T : t \in 1 .. n
    OBVIOUS
  <2>2. m \in Nat /\ t =< m /\ m - 1 \in Nat
    BY SMTT(60), <1>2, <2>1
  <2>3. \A u \in T : u =< m - 1
    BY SMTT(60), <1>2, <2>2
  <2>4. m - 1 \in U
    BY <2>2, <2>3
  <2> QED
    BY SMTT(60), <1>2, <2>2, <2>4
<1>4. \A t \in T : m >= t
  BY <1>2
<1>5. \E x \in T : \A t \in T : x >= t
  BY <1>3, <1>4
<1> HIDE DEF U
<1>6. Max(T) \in T /\ \A t \in T : Max(T) >= t
  BY <1>5 DEF Max
<1> QED
  BY <1>6

\* Induction up to n.
LEMMA UpTo ==
    ASSUME NEW n \in Nat, NEW Y, 0 \in Y, \A i \in 1 .. n : i - 1 \in Y => i \in Y
    PROVE  n \in Y
<1> DEFINE T == {i \in 0 .. n : i \notin Y}
<1> SUFFICES ASSUME n \notin Y PROVE FALSE
  OBVIOUS
<1>1. T \subseteq Nat /\ T # {}
  BY SMTT(60)
<1>2. Min(T) \in T /\ \A t \in T : Min(T) =< t
  <2> HIDE DEF T
  <2> QED
    BY <1>1, LeastNat
<1>3. PICK i \in 0 .. n : i \notin Y /\ \A t \in T : i =< t
  BY <1>2
<1>4. i \in 1 .. n /\ i - 1 \in 0 .. n
  BY SMTT(60), <1>3
<1>5. i - 1 \notin T
  BY SMTT(60), <1>3, <1>4
<1> QED
  BY <1>3, <1>4, <1>5

\* What a loop over the indices of a sequence computes is well defined.
LEMMA LoopRecursion ==
    ASSUME NEW n \in Nat, NEW X, NEW base, NEW G, Steps(0 .. n, X, base, G)
    PROVE  \E f \in [0 .. n -> X] : f[0] = base /\ \A i \in 1 .. n : f[i] = G[i][f[i - 1]]
<1> DEFINE N == 0 .. n
           par == [i \in N \ {0} |-> i - 1]
<1>1. 0 \in N /\ par \in [N \ {0} -> N]
  BY SMTT(60)
<1>2. ASSUME NEW S \in SUBSET (N \ {0}), S # {}
      PROVE  \E i \in S : par[i] \notin S
  <2>1. S \subseteq Nat
    BY SMTT(60)
  <2>2. PICK m : m \in S /\ \A i \in S : m =< i
    BY <1>2, <2>1, LeastNat
  <2>3. par[m] = m - 1 /\ m \in Nat
    BY SMTT(60), <2>2
  <2> QED
    BY SMTT(60), <2>1, <2>2, <2>3
<1>3. \A i \in 1 .. n : i \in N \ {0} /\ par[i] = i - 1
  BY SMTT(60)
<1>4. PICK M, p : M = N /\ p = par
  OBVIOUS
<1> HIDE DEF par
<1>5. Tree(M, 0, p)
  BY <1>1, <1>2, <1>4 DEF Tree
<1>6. Steps(M, X, base, G)
  BY <1>4
<1>7. PICK f \in [M -> X] : Recursive(f, M, 0, p, base, G)
  BY <1>5, <1>6, TreeRecursion
<1>8. f[0] = base /\ \A i \in M \ {0} : f[i] = G[i][f[p[i]]]
  BY <1>7 DEF Recursive
<1>9. \A i \in 1 .. n : f[i] = G[i][f[i - 1]]
  BY <1>3, <1>4, <1>8
<1> QED
  BY <1>4, <1>7, <1>8, <1>9

\* Selected takes members of T only.
LEMMA SelectedType ==
    ASSUME NEW S, NEW T, NEW s \in Seq(S)
    PROVE  Selected(s, T) \in Seq(S \cap T)
<1>0. PICK X : X = Seq(S \cap T)
  OBVIOUS
<1>1. PICK n \in Nat : n = Len(s) /\ DOMAIN s = 1 .. n /\ \A i \in 1 .. n : s[i] \in S
  BY SMTT(60)
<1> DEFINE G == [i \in 0 .. n |-> [x \in X |-> IF i # 0 /\ s[i] \in T THEN Append(x, s[i]) ELSE x]]
<1>2. \A i \in 1 .. n, x \in X : (IF s[i] \in T THEN Append(x, s[i]) ELSE x) \in X
  BY SMTT(60), <1>0, <1>1
<1>3. G \in [0 .. n -> [X -> X]]
  BY SMTT(60), <1>2
<1>4. PICK e : e \in X /\ e = <<>>
  <2>1. <<>> \in Seq(S \cap T)
    BY EmptySeq
  <2> QED
    BY <1>0, <2>1
<1>5. \A i \in 1 .. n, x \in X : G[i][x] = IF s[i] \in T THEN Append(x, s[i]) ELSE x
  BY SMTT(60)
<1> HIDE DEF G
<1>6. PICK f \in [0 .. n -> X] : f[0] = e /\ \A i \in 1 .. n : f[i] = G[i][f[i - 1]]
  <2>1. Steps(0 .. n, X, e, G)
    BY <1>3, <1>4 DEF Steps
  <2> QED
    BY SMTT(60), <2>1, LoopRecursion
<1>7. \A i \in 0 .. n :
         f[i] = IF i = 0 THEN <<>> ELSE IF s[i] \in T THEN Append(f[i - 1], s[i]) ELSE f[i - 1]
  <2>1. ASSUME NEW i \in 1 .. n PROVE f[i] = IF s[i] \in T THEN Append(f[i - 1], s[i]) ELSE f[i - 1]
    <3>1. f[i - 1] \in X
      BY SMTT(60)
    <3> QED
      BY <1>5, <1>6, <3>1
  <2>2. \A i \in 0 .. n : i = 0 \/ i \in 1 .. n
    BY SMTT(60)
  <2>3. 0 \notin 1 .. n
    BY SMTT(60)
  <2> QED
    BY <1>4, <1>6, <2>1, <2>2, <2>3
<1> DEFINE F(g) == [i \in 0 .. Len(s) |->
                      IF i = 0 THEN <<>> ELSE IF s[i] \in T THEN Append(g[i - 1], s[i]) ELSE g[i - 1]]
<1>8. f = F(f)
  BY <1>1, <1>7
<1>9. Selected(s, T) = (CHOOSE g : g = F(g))[Len(s)]
  BY DEF Selected
<1>10. PICK g : g = F(g) /\ Selected(s, T) = g[Len(s)]
  <2> HIDE DEF F
  <2> QED
    BY <1>8, <1>9
<1>11. g[0] = <<>> /\ \A i \in 1 .. n : g[i] = IF s[i] \in T THEN Append(g[i - 1], s[i]) ELSE g[i - 1]
  <2>1. \A i \in 0 .. n :
           g[i] = IF i = 0 THEN <<>> ELSE IF s[i] \in T THEN Append(g[i - 1], s[i]) ELSE g[i - 1]
    BY <1>1, <1>10
  <2>2. 0 \in 0 .. n /\ \A i \in 1 .. n : i \in 0 .. n /\ i # 0
    BY SMTT(60)
  <2> QED
    BY <2>1, <2>2
<1> HIDE DEF F
<1> DEFINE Y == {i \in 0 .. n : g[i] \in X}
<1>12. 0 \in Y
  BY SMTT(60), <1>4, <1>11
<1>13. ASSUME NEW i \in 1 .. n, i - 1 \in Y PROVE i \in Y
  BY SMTT(60), <1>2, <1>11, <1>13
<1>14. n \in Y
  <2> HIDE DEF Y
  <2> QED
    BY <1>12, <1>13, UpTo
<1> QED
  BY <1>0, <1>1, <1>10, <1>14

\* Within keeps members of T only.
LEMMA WithinType ==
    ASSUME NEW S, NEW T, NEW s \in Seq(S)
    PROVE  Within(s, T) \in Seq(S \cap T)
<1>1. {Selected(q, T) : q \in {s}} = {Selected(s, T)}
  OBVIOUS
<1>2. Within(s, T) = Selected(s, T)
  BY <1>1 DEF Within
<1> QED
  BY <1>2, SelectedType

\* A loop that marks the blocks of s as in flight keeps what each of its rounds keeps.
LEMMA AllInFlightLoop ==
    ASSUME NEW p, NEW s \in Seq(Blocks), NEW X, NEW bk \in X,
           \A st \in X, b \in Blocks : MarkBlockAsInFlight(st, p, b, FALSE) \in X,
           NEW Y, bk \in Y[0],
           \A i \in 1 .. Len(s), st \in X :
              st \in Y[i - 1] => MarkBlockAsInFlight(st, p, s[i], FALSE) \in Y[i]
    PROVE  AllInFlight(bk, p, s) \in X /\ AllInFlight(bk, p, s) \in Y[Len(s)]
<1>1. PICK n \in Nat : n = Len(s) /\ DOMAIN s = 1 .. n /\ \A i \in 1 .. n : s[i] \in Blocks
  BY SMTT(60)
<1> DEFINE Mark(st, b) == MarkBlockAsInFlight(st, p, b, FALSE)
           G == [i \in 0 .. n |-> [x \in X |-> IF i = 0 THEN x ELSE Mark(x, s[i])]]
<1> HIDE DEF Mark
<1>2. \A st \in X, b \in Blocks : Mark(st, b) \in X
  BY DEF Mark
<1>3. \A i \in 1 .. n, st \in X : st \in Y[i - 1] => Mark(st, s[i]) \in Y[i]
  BY <1>1 DEF Mark
<1>4. /\ 0 \in 0 .. n /\ 0 \notin 1 .. n /\ n \in 0 .. n
      /\ \A i \in 0 .. n : i = 0 \/ i \in 1 .. n
      /\ \A i \in 1 .. n : i \in 0 .. n /\ i # 0 /\ i - 1 \in 0 .. n
  BY SMTT(60)
<1>5. Steps(0 .. n, X, bk, G)
  BY <1>1, <1>2, <1>4 DEF Steps
<1>6. \A i \in 1 .. n, x \in X : G[i][x] = Mark(x, s[i])
  BY <1>4
<1> HIDE DEF G
<1>7. PICK f \in [0 .. n -> X] : f[0] = bk /\ \A i \in 1 .. n : f[i] = G[i][f[i - 1]]
  BY SMTT(60), <1>5, LoopRecursion
<1>8. \A i \in 0 .. n : f[i] = IF i = 0 THEN bk ELSE Mark(f[i - 1], s[i])
  BY <1>4, <1>6, <1>7
<1> DEFINE F(g) == [i \in 0 .. Len(s) |-> IF i = 0 THEN bk ELSE Mark(g[i - 1], s[i])]
<1>9. f = F(f)
  BY <1>1, <1>8
<1>10. AllInFlight(bk, p, s) = (CHOOSE g : g = F(g))[Len(s)]
  BY DEF AllInFlight, Mark
<1>11. PICK g : g = F(g) /\ AllInFlight(bk, p, s) = g[Len(s)]
  <2> HIDE DEF F
  <2> QED
    BY <1>9, <1>10
<1>12. g[0] = bk /\ \A i \in 1 .. n : g[i] = Mark(g[i - 1], s[i])
  <2>1. \A i \in 0 .. n : g[i] = IF i = 0 THEN bk ELSE Mark(g[i - 1], s[i])
    BY <1>1, <1>11
  <2> QED
    BY <1>4, <2>1
<1> HIDE DEF F
<1> DEFINE Z == {i \in 0 .. n : g[i] \in X /\ g[i] \in Y[i]}
<1>13. 0 \in Z
  BY <1>4, <1>12
<1>14. ASSUME NEW i \in 1 .. n, i - 1 \in Z PROVE i \in Z
  <2>1. g[i - 1] \in X /\ g[i - 1] \in Y[i - 1]
    BY <1>14
  <2>2. Mark(g[i - 1], s[i]) \in X /\ Mark(g[i - 1], s[i]) \in Y[i]
    BY <1>1, <1>2, <1>3, <2>1
  <2> QED
    BY <1>4, <1>12, <2>2
<1>15. n \in Z
  <2> HIDE DEF Z
  <2> QED
    BY <1>13, <1>14, UpTo
<1> QED
  BY <1>1, <1>11, <1>15

----------------------------------------------------------------------------
(* The tree of blocks *)

\* A set with genesis, and with every block whose parent it has, has all blocks.
LEMMA TreeInduction ==
    ASSUME NEW S \in SUBSET Blocks, Genesis \in S,
           \A b \in Blocks \ {Genesis} : Parent[b] \in S => b \in S
    PROVE  S = Blocks
<1> DEFINE T == Blocks \ S
<1>1. T \in SUBSET (Blocks \ {Genesis})
  OBVIOUS
<1>2. T = {}
  BY <1>1, TreeAssumption
<1> QED
  BY <1>2

\* The path to a block is its parent's with the block at the end.
LEMMA Paths ==
    /\ Path \in [Blocks -> Seq(Blocks)] /\ Path[Genesis] = <<Genesis>>
    /\ \A b \in Blocks \ {Genesis} : Path[b] = Append(Path[Parent[b]], b)
<1>1. \E h \in [Blocks -> Seq(Blocks)] :
         h = [b \in Blocks |-> IF b = Genesis THEN <<b>> ELSE Append(h[Parent[b]], b)]
  <2>x. PICK X : X = Seq(Blocks)
    OBVIOUS
  <2>y. PICK base : base = <<Genesis>>
    OBVIOUS
  <2> DEFINE G == [b \in Blocks |-> [q \in X |-> Append(q, b)]]
  <2>1. Steps(Blocks, X, base, G)
    <3>1. base \in X
      BY SMTT(60), <2>x, <2>y, TreeAssumption
    <3>2. G \in [Blocks -> [X -> X]]
      BY SMTT(60), <2>x
    <3> QED
      BY <3>1, <3>2 DEF Steps
  <2>2. \A b \in Blocks, q \in X : G[b][q] = Append(q, b)
    OBVIOUS
  <2> HIDE DEF G
  <2>3. Tree(Blocks, Genesis, Parent)
    BY TreeAssumption DEF Tree
  <2>4. PICK f \in [Blocks -> X] : Recursive(f, Blocks, Genesis, Parent, base, G)
    BY <2>1, <2>3, TreeRecursion
  <2>5. \A b \in Blocks : f[b] = IF b = Genesis THEN <<b>> ELSE Append(f[Parent[b]], b)
    BY <2>y, <2>2, <2>4, TreeAssumption DEF Recursive
  <2>6. f = [b \in Blocks |-> IF b = Genesis THEN <<b>> ELSE Append(f[Parent[b]], b)]
    BY <2>4, <2>5
  <2> QED
    BY <2>x, <2>6
<1>2. Path = [b \in Blocks |-> IF b = Genesis THEN <<b>> ELSE Append(Path[Parent[b]], b)]
  BY <1>1 DEF Path
<1>3. Path[Genesis] = <<Genesis>> /\ \A b \in Blocks \ {Genesis} : Path[b] = Append(Path[Parent[b]], b)
  BY <1>2, TreeAssumption
<1>4. {b \in Blocks : Path[b] \in Seq(Blocks)} = Blocks
  <2> DEFINE S == {b \in Blocks : Path[b] \in Seq(Blocks)}
  <2>1. S \in SUBSET Blocks /\ Genesis \in S
    BY SMTT(60), <1>3, TreeAssumption
  <2>2. ASSUME NEW b \in Blocks \ {Genesis}, Parent[b] \in S PROVE b \in S
    <3>1. PICK q \in Seq(Blocks) : q = Path[Parent[b]]
      BY <2>2
    <3>2. Append(q, b) \in Seq(Blocks)
      BY SMTT(60)
    <3> QED
      BY <1>3, <3>1, <3>2
  <2> HIDE DEF S
  <2>3. S = Blocks
    BY <2>1, <2>2, TreeInduction
  <2> QED
    BY <2>3 DEF S
<1> QED
  BY <1>2, <1>3, <1>4

\* A block's height is that of its parent and one.
LEMMA Heights ==
    /\ nHeight \in [Blocks -> Nat] /\ nHeight[Genesis] = 0
    /\ \A b \in Blocks : Len(Path[b]) = nHeight[b] + 1
    /\ \A b \in Blocks \ {Genesis} : nHeight[b] = nHeight[Parent[b]] + 1
<1>1. \A b \in Blocks : nHeight[b] = Len(Path[b]) - 1
  BY DEF nHeight
<1>2. Genesis \in Blocks /\ \A b \in Blocks \ {Genesis} : Parent[b] \in Blocks
  BY TreeAssumption
<1>3. nHeight[Genesis] = 0
  <2>1. Path[Genesis] = <<Genesis>> /\ nHeight[Genesis] = Len(Path[Genesis]) - 1
    BY <1>1, <1>2, Paths
  <2> QED
    BY SMTT(60), <2>1
<1>4. \A b \in Blocks : Len(Path[b]) \in Nat
  BY SMTT(60), Paths
<1>5. ASSUME NEW b \in Blocks \ {Genesis} PROVE nHeight[b] = nHeight[Parent[b]] + 1
  <2>1. Path[b] = Append(Path[Parent[b]], b) /\ Path[Parent[b]] \in Seq(Blocks)
    BY <1>2, Paths
  <2>2. Len(Path[b]) = Len(Path[Parent[b]]) + 1
    BY SMTT(60), <2>1
  <2> QED
    BY SMTT(60), <1>1, <1>2, <1>4, <2>2
<1>6. \A b \in Blocks : Len(Path[b]) >= 1
  <2> SUFFICES ASSUME NEW b \in Blocks PROVE Len(Path[b]) >= 1
    OBVIOUS
  <2>1. CASE b = Genesis
    BY SMTT(60), <2>1, Paths
  <2>2. CASE b # Genesis
    <3>1. Path[b] = Append(Path[Parent[b]], b) /\ Path[Parent[b]] \in Seq(Blocks)
      BY <1>2, <2>2, Paths
    <3> QED
      BY SMTT(60), <3>1
  <2> QED
    BY <2>1, <2>2
<1>7. nHeight \in [Blocks -> Nat]
  BY SMTT(60), <1>1, <1>4, <1>6 DEF nHeight
<1> QED
  BY SMTT(60), <1>1, <1>3, <1>4, <1>5, <1>7

\* A chain has genesis, and no block higher than the one it ends in.
LEMMA Chains ==
    ASSUME NEW b \in Blocks
    PROVE  /\ ChainTo[b] \subseteq Blocks /\ Genesis \in ChainTo[b]
           /\ \A c \in ChainTo[b] : nHeight[c] =< nHeight[b]
<1> DEFINE Fine(c) == ChainTo[c] \subseteq Blocks /\ Genesis \in ChainTo[c]
                      /\ \A d \in ChainTo[c] : nHeight[d] =< nHeight[c]
           S == {c \in Blocks : Fine(c)}
<1>1. \A c \in Blocks : ChainTo[c] = {Path[c][i] : i \in DOMAIN Path[c]}
  BY DEF ChainTo, Range
<1>2. ChainTo[Genesis] = {Genesis}
  <2>1. Path[Genesis] = <<Genesis>>
    BY Paths
  <2>2. DOMAIN Path[Genesis] = {1} /\ Path[Genesis][1] = Genesis
    BY SMTT(60), <2>1
  <2> QED
    BY SMTT(60), <1>1, <2>2, TreeAssumption
<1>3. Genesis \in S
  BY SMTT(60), <1>2, Heights, TreeAssumption
<1>4. ASSUME NEW c \in Blocks \ {Genesis} PROVE ChainTo[c] = ChainTo[Parent[c]] \cup {c}
  <2>1. PICK q \in Seq(Blocks) : q = Path[Parent[c]] /\ Path[c] = Append(q, c)
    BY Paths, TreeAssumption
  <2>2. /\ DOMAIN Path[c] = DOMAIN q \cup {Len(q) + 1} /\ Path[c][Len(q) + 1] = c
        /\ \A i \in DOMAIN q : Path[c][i] = q[i]
    BY SMTT(60), <2>1
  <2>3. Parent[c] \in Blocks
    BY TreeAssumption
  <2>4. ChainTo[c] = {Path[c][i] : i \in DOMAIN q \cup {Len(q) + 1}}
    BY <1>1, <2>2
  <2>5. ChainTo[Parent[c]] = {q[i] : i \in DOMAIN q}
    BY SMTT(60), <1>1, <2>1, <2>3
  <2> QED
    BY SMTT(60), <2>2, <2>4, <2>5
<1>5. ASSUME NEW c \in Blocks \ {Genesis}, Parent[c] \in S PROVE c \in S
  <2>1. Fine(Parent[c]) /\ nHeight[c] = nHeight[Parent[c]] + 1 /\ nHeight[Parent[c]] \in Nat
        /\ \A d \in Blocks : nHeight[d] \in Nat
    BY <1>5, Heights
  <2> QED
    BY SMTT(60), <1>4, <2>1
<1> HIDE DEF Fine
<1>6. S = Blocks
  <2> HIDE DEF S
  <2>1. S \in SUBSET Blocks
    BY DEF S
  <2> QED
    BY <1>3, <1>5, <2>1, TreeInduction
<1> QED
  BY <1>6 DEF Fine

----------------------------------------------------------------------------
(* The books of one peer, and all of them *)

Queued == [hash : Blocks, partialBlock : BOOLEAN]
InQueue(i, b) == \E k \in DOMAIN i.vBlocksInFlight : i.vBlocksInFlight[k].hash = b
Once(queue) == \A k, l \in DOMAIN queue : queue[k].hash = queue[l].hash => k = l

\* The entry of one peer.
Fine(i) ==
    /\ i.nBlocksInFlight = Len(i.vBlocksInFlight) /\ Once(i.vBlocksInFlight)
    /\ i.nStallingSince => i.nBlocksInFlight > 0
    /\ i.nMisbehavior = banscore => i.fDisconnect

Downloading(node) == {p \in Peers : node[p] # None /\ node[p].nBlocksInFlight > 0}
PreferredOnes(node) == {p \in Peers : node[p] # None /\ node[p].fPreferredDownload}

\* The books agree with themselves.
Sound(bk) ==
    /\ bk \in Books
    /\ \A p \in Peers : bk.node[p] # None => Fine(bk.node[p])
    /\ \A b \in Blocks, p \in Peers :
          bk.mapBlocksInFlight[b] = p <=> bk.node[p] # None /\ InQueue(bk.node[p], b)
    /\ bk.nPeersWithValidatedDownloads = Cardinality(Downloading(bk.node))
    /\ bk.nPreferredDownload = Cardinality(PreferredOnes(bk.node))

\* One peer's entry j and, for that peer, the map are replaced.
Replaced(bk, p, j, m) ==
    [node |-> [bk.node EXCEPT ![p] = j], mapBlocksInFlight |-> m,
     nPeersWithValidatedDownloads |-> bk.nPeersWithValidatedDownloads
         - One(bk.node[p].nBlocksInFlight > 0) + One(j.nBlocksInFlight > 0),
     nPreferredDownload |-> bk.nPreferredDownload]

\* Counting with and without one.
LEMMA CountChange ==
    ASSUME NEW A, NEW B, NEW p, IsFiniteSet(A), A \ {p} = B \ {p}
    PROVE  /\ IsFiniteSet(B) /\ Cardinality(A) \in Nat /\ Cardinality(B) \in Nat
           /\ Cardinality(B) = Cardinality(A) - One(p \in A) + One(p \in B)
<1> DEFINE C == A \ {p}
<1>1. IsFiniteSet(C) /\ Cardinality(C) \in Nat
  BY FS_Subset, FS_CardinalityType
<1>2. p \notin C
  OBVIOUS
<1>3. IsFiniteSet(C \cup {p}) /\ Cardinality(C \cup {p}) = Cardinality(C) + 1
  BY <1>1, <1>2, FS_AddElement
<1>4. A = (IF p \in A THEN C \cup {p} ELSE C) /\ B = (IF p \in B THEN C \cup {p} ELSE C)
  OBVIOUS
<1> HIDE DEF C
<1>5. CASE p \in A /\ p \in B
  <2>1. A = B /\ A = C \cup {p}
    BY <1>4, <1>5
  <2> QED
    BY SMTT(60), <1>1, <1>3, <1>5, <2>1 DEF One
<1>6. CASE p \in A /\ p \notin B
  BY SMTT(60), <1>1, <1>3, <1>4, <1>6 DEF One
<1>7. CASE p \notin A /\ p \in B
  BY SMTT(60), <1>1, <1>3, <1>4, <1>7 DEF One
<1>8. CASE p \notin A /\ p \notin B
  BY SMTT(60), <1>1, <1>3, <1>4, <1>8 DEF One
<1> QED
  BY <1>5, <1>6, <1>7, <1>8

\* The sets that the two counters count.
LEMMA SetsFinite ==
    ASSUME NEW node PROVE IsFiniteSet(Downloading(node)) /\ IsFiniteSet(PreferredOnes(node))
BY PeerAssumption, FS_Subset DEF Downloading, PreferredOnes

\* When one peer's entry and the blocks mapped to it change together, the books
\* stay in order.
LEMMA ReplacedSound ==
    ASSUME NEW bk, Sound(bk), NEW p \in Peers, bk.node[p] # None,
           NEW j \in NodeInfo, Fine(j), j.fPreferredDownload = bk.node[p].fPreferredDownload,
           NEW m \in [Blocks -> Peers \cup {None}],
           \A b \in Blocks : m[b] = p <=> InQueue(j, b),
           \A b \in Blocks, r \in Peers \ {p} : m[b] = r <=> bk.mapBlocksInFlight[b] = r
    PROVE  Sound(Replaced(bk, p, j, m))
<1> DEFINE st == Replaced(bk, p, j, m)
<1>1. /\ st.node = [bk.node EXCEPT ![p] = j] /\ st.mapBlocksInFlight = m
      /\ st.nPeersWithValidatedDownloads = bk.nPeersWithValidatedDownloads
            - One(bk.node[p].nBlocksInFlight > 0) + One(j.nBlocksInFlight > 0)
      /\ st.nPreferredDownload = bk.nPreferredDownload
  BY DEF Replaced
<1>2. /\ bk \in Books /\ bk.node \in [Peers -> NodeInfo \cup {None}]
      /\ bk.nPreferredDownload \in Nat /\ bk.nPeersWithValidatedDownloads \in Nat
  BY DEF Sound, Books
<1>3. /\ st.node \in [Peers -> NodeInfo \cup {None}] /\ st.node[p] = j /\ j # None
      /\ \A r \in Peers \ {p} : st.node[r] = bk.node[r]
  BY SMTT(60), <1>1, <1>2, NoneAssumption
<1>4. PICK node : node = st.node
  OBVIOUS
<1>5. /\ bk.node[p].nBlocksInFlight > 0 <=> p \in Downloading(bk.node)
      /\ j.nBlocksInFlight > 0 <=> p \in Downloading(node)
      /\ Downloading(bk.node) \ {p} = Downloading(node) \ {p}
  BY SMTT(60), <1>3, <1>4 DEF Downloading
<1>6. PreferredOnes(node) = PreferredOnes(bk.node)
  BY SMTT(60), <1>3, <1>4 DEF PreferredOnes
<1>7. /\ Cardinality(Downloading(node)) \in Nat
      /\ Cardinality(Downloading(node)) = Cardinality(Downloading(bk.node))
            - One(p \in Downloading(bk.node)) + One(p \in Downloading(node))
  <2>1. PICK A, B : A = Downloading(bk.node) /\ B = Downloading(node)
    OBVIOUS
  <2>2. IsFiniteSet(A) /\ A \ {p} = B \ {p}
    BY <1>5, <2>1, SetsFinite
  <2> QED
    BY <2>1, <2>2, CountChange
<1>8. st.nPeersWithValidatedDownloads = Cardinality(Downloading(node))
  BY SMTT(60), <1>1, <1>5, <1>7 DEF Sound, One
<1>9. st.nPreferredDownload = Cardinality(PreferredOnes(node))
  BY <1>1, <1>6 DEF Sound
<1>10. st \in Books
  BY <1>1, <1>2, <1>3, <1>4, <1>7, <1>8 DEF Books, Replaced
<1>11. \A r \in Peers : st.node[r] # None => Fine(st.node[r])
  BY <1>3 DEF Sound
<1>12. \A b \in Blocks, r \in Peers :
          st.mapBlocksInFlight[b] = r <=> st.node[r] # None /\ InQueue(st.node[r], b)
  <2> SUFFICES ASSUME NEW b \in Blocks, NEW r \in Peers
               PROVE  st.mapBlocksInFlight[b] = r <=> st.node[r] # None /\ InQueue(st.node[r], b)
    OBVIOUS
  <2> HIDE DEF st
  <2>1. CASE r = p
    BY <1>1, <1>3, <2>1
  <2>2. CASE r # p
    BY SMTT(60), <1>1, <1>3, <2>2 DEF Sound
  <2> QED
    BY <2>1, <2>2
<1> HIDE DEF st
<1>13. Sound(st)
  BY <1>4, <1>8, <1>9, <1>10, <1>11, <1>12 DEF Sound
<1> QED
  BY <1>13 DEF st

----------------------------------------------------------------------------

\* The queue q without its entry k.
Dropped(q, k) == SubSeq(q, 1, k - 1) \o SubSeq(q, k + 1, Len(q))

\* erase() of one entry of a queue.
LEMMA DroppedFacts ==
    ASSUME NEW S, NEW q \in Seq(S), NEW k \in 1 .. Len(q)
    PROVE  /\ Dropped(q, k) \in Seq(S) /\ Len(Dropped(q, k)) = Len(q) - 1
           /\ \A i \in 1 .. Len(q) - 1 : Dropped(q, k)[i] = IF i < k THEN q[i] ELSE q[i + 1]
<1> DEFINE a == SubSeq(q, 1, k - 1)
           c == SubSeq(q, k + 1, Len(q))
<1>1. a \in Seq(S) /\ Len(a) = k - 1 /\ \A i \in 1 .. k - 1 : a[i] = q[i]
  BY SMTT(60)
<1>2. c \in Seq(S) /\ Len(c) = Len(q) - k /\ \A i \in 1 .. Len(q) - k : c[i] = q[k + i]
  BY SMTT(60)
<1>3. Dropped(q, k) = a \o c
  BY DEF Dropped
<1> HIDE DEF a, c
<1>4. /\ a \o c \in Seq(S) /\ Len(a \o c) = Len(a) + Len(c)
      /\ \A i \in 1 .. Len(a) + Len(c) : (a \o c)[i] = IF i <= Len(a) THEN a[i] ELSE c[i - Len(a)]
  BY <1>1, <1>2, ConcatProperties
<1>5. Len(a) + Len(c) = Len(q) - 1
  BY SMTT(60), <1>1, <1>2
<1>6. ASSUME NEW i \in 1 .. Len(q) - 1 PROVE (a \o c)[i] = IF i < k THEN q[i] ELSE q[i + 1]
  <2>1. (a \o c)[i] = IF i <= Len(a) THEN a[i] ELSE c[i - Len(a)]
    BY <1>4, <1>5
  <2>2. CASE i < k
    <3>1. i <= Len(a) /\ i \in 1 .. k - 1
      BY SMTT(60), <1>1, <2>2
    <3> QED
      BY <1>1, <2>1, <2>2, <3>1
  <2>3. CASE ~(i < k)
    <3>1. ~(i <= Len(a)) /\ i - Len(a) \in 1 .. Len(q) - k /\ k + (i - Len(a)) = i + 1
      BY SMTT(60), <1>1, <2>3
    <3>2. c[i - Len(a)] = q[i + 1]
      BY <1>2, <3>1
    <3> QED
      BY <2>1, <2>3, <3>1, <3>2
  <2> QED
    BY <2>2, <2>3
<1> QED
  BY <1>3, <1>4, <1>5, <1>6

\* The queue after MarkBlockAsReceived has erased the entry of b.
LEMMA ErasedFacts ==
    ASSUME NEW q \in Seq(Queued), Once(q), NEW b \in Blocks, \E k \in DOMAIN q : q[k].hash = b
    PROVE  /\ Erased(q, b) \in Seq(Queued) /\ Len(Erased(q, b)) = Len(q) - 1 /\ Len(q) > 0
           /\ Once(Erased(q, b))
           /\ \A e : (\E k \in DOMAIN Erased(q, b) : Erased(q, b)[k] = e)
                        <=> (\E k \in DOMAIN q : q[k] = e /\ e.hash # b)
<1>1. PICK k : k = CHOOSE i \in DOMAIN q : q[i].hash = b
  OBVIOUS
<1>2. k \in DOMAIN q /\ q[k].hash = b
  BY <1>1
<1>3. PICK n \in Nat : n = Len(q) /\ DOMAIN q = 1 .. n
  BY SMTT(60)
<1>4. PICK e : e = Erased(q, b)
  OBVIOUS
<1>5. e = Dropped(q, k)
  BY <1>1, <1>4 DEF Erased, Dropped
<1>6. e \in Seq(Queued) /\ Len(e) = n - 1 /\ \A i \in 1 .. n - 1 : e[i] = IF i < k THEN q[i] ELSE q[i + 1]
  BY <1>2, <1>3, <1>5, DroppedFacts
<1>7. DOMAIN e = 1 .. n - 1 /\ n > 0 /\ k \in 1 .. n
  BY SMTT(60), <1>2, <1>3, <1>6
<1>8. Once(e)
  <2> DEFINE f(i) == IF i < k THEN i ELSE i + 1
  <2>1. \A i \in DOMAIN e : f(i) \in DOMAIN q /\ e[i] = q[f(i)]
    BY SMTT(60), <1>3, <1>6, <1>7
  <2>2. \A i, l \in DOMAIN e : f(i) = f(l) => i = l
    BY SMTT(60), <1>7
  <2> HIDE DEF f
  <2> QED
    BY SMTT(60), <2>1, <2>2 DEF Once
<1>9. ASSUME NEW x, NEW i \in DOMAIN e, e[i] = x PROVE \E l \in DOMAIN q : q[l] = x /\ x.hash # b
  <2>1. CASE i < k
    <3>1. i \in DOMAIN q /\ q[i] = x /\ i # k
      BY SMTT(60), <1>3, <1>6, <1>7, <1>9, <2>1
    <3> QED
      BY <1>2, <3>1 DEF Once
  <2>2. CASE ~(i < k)
    <3>1. i + 1 \in DOMAIN q /\ q[i + 1] = x /\ i + 1 # k
      BY SMTT(60), <1>3, <1>6, <1>7, <1>9, <2>2
    <3> QED
      BY <1>2, <3>1 DEF Once
  <2> QED
    BY <2>1, <2>2
<1>10. ASSUME NEW x, NEW l \in DOMAIN q, q[l] = x, x.hash # b PROVE \E i \in DOMAIN e : e[i] = x
  <2>1. CASE l < k
    <3>1. l \in DOMAIN e /\ e[l] = x
      BY SMTT(60), <1>3, <1>6, <1>7, <1>10, <2>1
    <3> QED
      BY <3>1
  <2>2. CASE ~(l < k)
    <3>1. l - 1 \in DOMAIN e /\ e[l - 1] = q[l]
      <4>1. l # k /\ l \in 1 .. n
        BY <1>2, <1>3, <1>10
      <4>2. l - 1 \in 1 .. n - 1 /\ ~(l - 1 < k)
        BY SMTT(60), <1>7, <2>2, <4>1
      <4> QED
        BY SMTT(60), <1>6, <1>7, <4>2
    <3> QED
      BY <1>10, <3>1
  <2> QED
    BY <2>1, <2>2
<1> QED
  BY <1>3, <1>4, <1>6, <1>7, <1>8, <1>9, <1>10

\* What the books' functions leave alone.
Kept(bk, st) ==
    \A r \in Peers :
        /\ st.node[r] # None <=> bk.node[r] # None
        /\ bk.node[r] # None => /\ st.node[r].fDisconnect = bk.node[r].fDisconnect
                                /\ st.node[r].nMisbehavior = bk.node[r].nMisbehavior

\* The types of a peer's entry.
LEMMA EntryTypes ==
    ASSUME NEW bk, Sound(bk), NEW p \in Peers, bk.node[p] # None
    PROVE  /\ bk.node[p] \in NodeInfo /\ Fine(bk.node[p])
           /\ bk.node[p].vBlocksInFlight \in Seq(Queued) /\ bk.node[p].nBlocksInFlight \in Nat
<1>1. bk.node[p] \in NodeInfo /\ Fine(bk.node[p])
  BY SMTT(60) DEF Sound, Books
<1>2. PICK i : i = bk.node[p]
  OBVIOUS
<1>3. i \in NodeInfo
  BY <1>1, <1>2
<1>4. i.vBlocksInFlight \in Seq(Queued) /\ i.nBlocksInFlight \in Nat
  BY <1>3 DEF NodeInfo, Queued
<1> QED
  BY <1>1, <1>2, <1>4

\* A block in flight is in the queue of its peer.
LEMMA OwnerHas ==
    ASSUME NEW bk, Sound(bk), NEW b \in Blocks, bk.mapBlocksInFlight[b] # None
    PROVE  /\ bk.mapBlocksInFlight[b] \in Peers /\ bk.node[bk.mapBlocksInFlight[b]] # None
           /\ InQueue(bk.node[bk.mapBlocksInFlight[b]], b)
BY DEF Sound, Books

\* MarkBlockAsReceived keeps the books in order.
LEMMA ReceivedSound ==
    ASSUME NEW bk, Sound(bk), NEW b \in Blocks
    PROVE  LET st == MarkBlockAsReceived(bk, b)
           IN  /\ Sound(st) /\ Kept(bk, st)
               /\ st.mapBlocksInFlight = [bk.mapBlocksInFlight EXCEPT ![b] = None]
               /\ \A r \in Peers : bk.node[r] # None =>
                     /\ st.node[r].nBlocksInFlight =< bk.node[r].nBlocksInFlight
                     /\ bk.mapBlocksInFlight[b] # r => st.node[r] = bk.node[r]
                     /\ \A c \in Blocks \ {b} : HasPartial(bk, r, c) => HasPartial(st, r, c)
<1> DEFINE st == MarkBlockAsReceived(bk, b)
<1>0. bk \in Books /\ bk.mapBlocksInFlight \in [Blocks -> Peers \cup {None}]
  BY DEF Sound, Books
<1>1. CASE bk.mapBlocksInFlight[b] = None
  <2>1. st = bk
    BY <1>1 DEF MarkBlockAsReceived
  <2>2. \A r \in Peers : bk.node[r] # None => bk.node[r].nBlocksInFlight \in Nat
    BY EntryTypes
  <2> QED
    BY SMTT(60), <1>0, <1>1, <2>1, <2>2 DEF Kept
<1>2. CASE bk.mapBlocksInFlight[b] # None
  <2>1. PICK p \in Peers : bk.mapBlocksInFlight[b] = p
    BY <1>2, OwnerHas
  <2>2. PICK i : i = bk.node[p] /\ i # None /\ InQueue(i, b)
    BY <1>2, <2>1, OwnerHas
  <2>3. i \in NodeInfo /\ Fine(i) /\ i.vBlocksInFlight \in Seq(Queued) /\ i.nBlocksInFlight \in Nat
    BY <2>2, EntryTypes
  <2>4. PICK e : e = Erased(i.vBlocksInFlight, b)
    OBVIOUS
  <2>5. /\ e \in Seq(Queued) /\ Len(e) = Len(i.vBlocksInFlight) - 1 /\ Len(i.vBlocksInFlight) > 0
        /\ Once(e)
        /\ \A x : (\E k \in DOMAIN e : e[k] = x)
                     <=> (\E k \in DOMAIN i.vBlocksInFlight : i.vBlocksInFlight[k] = x /\ x.hash # b)
    <3>1. PICK q \in Seq(Queued) : q = i.vBlocksInFlight
      BY <2>3
    <3>2. Once(q) /\ \E k \in DOMAIN q : q[k].hash = b
      BY <2>2, <2>3, <3>1 DEF Fine, InQueue
    <3> QED
      BY SMTT(60), <2>4, <3>1, <3>2, ErasedFacts
  <2>6. PICK j : j = [i EXCEPT !.vBlocksInFlight = e, !.nBlocksInFlight = @ - 1, !.nStallingSince = FALSE]
    OBVIOUS
  <2>7. /\ j \in NodeInfo /\ j.vBlocksInFlight = e /\ j.nBlocksInFlight = i.nBlocksInFlight - 1
        /\ j.nStallingSince = FALSE /\ j.fPreferredDownload = i.fPreferredDownload
        /\ j.fDisconnect = i.fDisconnect /\ j.nMisbehavior = i.nMisbehavior
        /\ i.nBlocksInFlight = Len(i.vBlocksInFlight)
    <3>1. i.nBlocksInFlight = Len(i.vBlocksInFlight) /\ i.nBlocksInFlight - 1 \in Nat
      BY SMTT(60), <2>3, <2>5 DEF Fine
    <3>2. e \in Seq([hash : Blocks, partialBlock : BOOLEAN])
      BY <2>5 DEF Queued
    <3> QED
      BY <2>3, <2>6, <3>1, <3>2 DEF NodeInfo
  <2>8. Fine(j)
    BY <2>3, <2>5, <2>7 DEF Fine
  <2>9. PICK m : m = [bk.mapBlocksInFlight EXCEPT ![b] = None]
    OBVIOUS
  <2>10. /\ m \in [Blocks -> Peers \cup {None}] /\ m[b] = None
         /\ \A c \in Blocks \ {b} : m[c] = bk.mapBlocksInFlight[c]
    BY <1>0, <2>9
  <2>11. \A c \in Blocks : InQueue(j, c) <=> c # b /\ InQueue(i, c)
    <3>1. ASSUME NEW c \in Blocks, InQueue(j, c) PROVE c # b /\ InQueue(i, c)
      <4>1. PICK k \in DOMAIN e : e[k].hash = c
        BY <2>7, <3>1 DEF InQueue
      <4>2. PICK l \in DOMAIN i.vBlocksInFlight : i.vBlocksInFlight[l] = e[k] /\ e[k].hash # b
        BY <2>5, <4>1
      <4> QED
        BY <4>1, <4>2 DEF InQueue
    <3>2. ASSUME NEW c \in Blocks, c # b, InQueue(i, c) PROVE InQueue(j, c)
      <4>1. PICK l \in DOMAIN i.vBlocksInFlight : i.vBlocksInFlight[l].hash = c
        BY <3>2 DEF InQueue
      <4>2. PICK k \in DOMAIN e : e[k] = i.vBlocksInFlight[l]
        BY <2>5, <3>2, <4>1
      <4> QED
        BY <2>7, <4>1, <4>2 DEF InQueue
    <3> QED
      BY <3>1, <3>2
  <2>12. \A c \in Blocks : m[c] = p <=> InQueue(j, c)
    BY SMTT(60), <2>1, <2>2, <2>10, <2>11, NoneAssumption DEF Sound
  <2>13. \A c \in Blocks, r \in Peers \ {p} : m[c] = r <=> bk.mapBlocksInFlight[c] = r
    BY <2>1, <2>10, NoneAssumption
  <2>14. Sound(Replaced(bk, p, j, m))
    <3>1. bk.node[p] # None /\ j.fPreferredDownload = bk.node[p].fPreferredDownload
      BY <2>2, <2>7
    <3> QED
      BY <2>7, <2>8, <2>10, <2>12, <2>13, <3>1, ReplacedSound
  <2>15. st = Replaced(bk, p, j, m)
    <3>1. bk.nPeersWithValidatedDownloads \in Nat
      BY <1>0 DEF Books
    <3>2. CountWithout(bk, p) = bk.nPeersWithValidatedDownloads - One(i.nBlocksInFlight > 0) + One(j.nBlocksInFlight > 0)
      <4>1. PICK n \in Nat, l \in Int, c \in Nat :
               /\ n = i.nBlocksInFlight /\ l = j.nBlocksInFlight /\ l = n - 1 /\ n > 0
               /\ c = bk.nPeersWithValidatedDownloads
        BY SMTT(60), <2>3, <2>5, <2>7, <3>1
      <4>2. CountWithout(bk, p) = c - (IF n = 1 THEN 1 ELSE 0)
        BY <2>2, <4>1 DEF CountWithout
      <4>3. c - (IF n = 1 THEN 1 ELSE 0) = c - One(n > 0) + One(l > 0)
        BY SMTT(60), <4>1 DEF One
      <4> QED
        BY <4>1, <4>2, <4>3
    <3>3. st = [bk EXCEPT
                !.node[p] = j,
                !.mapBlocksInFlight[b] = None,
                !.nPeersWithValidatedDownloads = CountWithout(bk, p)]
      <4>1. Received(i, b) = j
        BY <2>4, <2>6 DEF Received, StallAfterReceipt
      <4> QED
        BY <1>2, <2>1, <2>2, <4>1 DEF MarkBlockAsReceived
    <3>4. PICK nd, mp, v, w : bk = [node |-> nd, mapBlocksInFlight |-> mp, nPeersWithValidatedDownloads |-> v, nPreferredDownload |-> w]
      BY <1>0 DEF Books
    <3>5. PICK c : c = CountWithout(bk, p)
      OBVIOUS
    <3>6. st = [node |-> [nd EXCEPT ![p] = j], mapBlocksInFlight |-> m, nPeersWithValidatedDownloads |-> c, nPreferredDownload |-> w]
      BY <2>2, <2>6, <2>9, <3>3, <3>4, <3>5
    <3> QED
      BY <2>2, <3>2, <3>4, <3>5, <3>6 DEF Replaced
  <2> HIDE DEF st
  <2>16. st.node = [bk.node EXCEPT ![p] = j] /\ st.mapBlocksInFlight = m
    BY <2>15 DEF Replaced
  <2>17. st.node[p] = j /\ j # None /\ \A r \in Peers \ {p} : st.node[r] = bk.node[r]
    BY <1>0, <2>7, <2>16, NoneAssumption DEF Books
  <2>18. Kept(bk, st)
    BY <2>2, <2>7, <2>17 DEF Kept
  <2>19. ASSUME NEW r \in Peers, bk.node[r] # None
         PROVE  /\ st.node[r].nBlocksInFlight =< bk.node[r].nBlocksInFlight
                /\ bk.mapBlocksInFlight[b] # r => st.node[r] = bk.node[r]
                /\ \A c \in Blocks \ {b} : HasPartial(bk, r, c) => HasPartial(st, r, c)
    <3>1. CASE r # p
      <4>1. st.node[r] = bk.node[r] /\ bk.node[r].nBlocksInFlight \in Nat
        BY <2>17, <2>19, <3>1, EntryTypes
      <4> QED
        BY SMTT(60), <4>1 DEF HasPartial
    <3>2. CASE r = p
      <4>1. st.node[r].nBlocksInFlight =< bk.node[r].nBlocksInFlight
        BY SMTT(60), <2>2, <2>3, <2>7, <2>17, <3>2
      <4>2. ASSUME NEW c \in Blocks \ {b}, HasPartial(bk, p, c) PROVE HasPartial(st, p, c)
        <5>1. PICK k \in DOMAIN i.vBlocksInFlight : i.vBlocksInFlight[k].hash = c /\ i.vBlocksInFlight[k].partialBlock
          BY <2>2, <4>2 DEF HasPartial, Range
        <5>2. PICK l \in DOMAIN e : e[l] = i.vBlocksInFlight[k]
          BY <2>5, <5>1
        <5>3. st.node[p].vBlocksInFlight = e
          BY <2>7, <2>17
        <5> QED
          BY <5>1, <5>2, <5>3 DEF HasPartial, Range
      <4> QED
        BY <2>1, <3>2, <4>1, <4>2
    <3> QED
      BY <3>1, <3>2
  <2> QED
    BY <2>9, <2>14, <2>15, <2>16, <2>18, <2>19 DEF st
<1> QED
  BY <1>1, <1>2

\* MarkBlockAsInFlight keeps the books in order.
LEMMA InFlightSound ==
    ASSUME NEW bk, Sound(bk), NEW p \in Peers, bk.node[p] # None, NEW b \in Blocks, NEW partial \in BOOLEAN
    PROVE  LET st == MarkBlockAsInFlight(bk, p, b, partial)
           IN  /\ Sound(st) /\ Kept(bk, st)
               /\ st.mapBlocksInFlight = [bk.mapBlocksInFlight EXCEPT ![b] = p]
               /\ \A r \in Peers : bk.node[r] # None =>
                     /\ st.node[r].nBlocksInFlight =< bk.node[r].nBlocksInFlight + One(r = p)
                     /\ \A c \in Blocks \ {b} : HasPartial(bk, r, c) => HasPartial(st, r, c)
<1> DEFINE st == MarkBlockAsInFlight(bk, p, b, partial)
<1>0. bk \in Books /\ bk.mapBlocksInFlight \in [Blocks -> Peers \cup {None}]
  BY DEF Sound, Books
<1>1. CASE bk.mapBlocksInFlight[b] = p
  <2>1. st = bk
    BY <1>1 DEF MarkBlockAsInFlight
  <2>2. \A r \in Peers : bk.node[r] # None => bk.node[r].nBlocksInFlight \in Nat
    BY EntryTypes
  <2>3. [bk.mapBlocksInFlight EXCEPT ![b] = p] = bk.mapBlocksInFlight
    BY <1>0, <1>1
  <2> QED
    BY SMTT(60), <2>1, <2>2, <2>3 DEF Kept, One
<1>2. CASE bk.mapBlocksInFlight[b] # p
  <2>1. PICK rc : rc = MarkBlockAsReceived(bk, b)
    OBVIOUS
  <2>2. /\ Sound(rc) /\ Kept(bk, rc)
        /\ rc.mapBlocksInFlight = [bk.mapBlocksInFlight EXCEPT ![b] = None]
        /\ \A r \in Peers : bk.node[r] # None =>
               /\ rc.node[r].nBlocksInFlight =< bk.node[r].nBlocksInFlight
               /\ bk.mapBlocksInFlight[b] # r => rc.node[r] = bk.node[r]
               /\ \A c \in Blocks \ {b} : HasPartial(bk, r, c) => HasPartial(rc, r, c)
    BY SMTT(60), <2>1, ReceivedSound
  <2>3. PICK i : i = rc.node[p] /\ i # None /\ i = bk.node[p]
    BY <1>2, <2>2 DEF Kept
  <2>4. i \in NodeInfo /\ Fine(i) /\ i.vBlocksInFlight \in Seq(Queued) /\ i.nBlocksInFlight \in Nat
    BY SMTT(60), <2>2, <2>3, EntryTypes
  <2>5. rc.mapBlocksInFlight[b] = None /\ ~InQueue(i, b)
    <3>1. rc.mapBlocksInFlight[b] = None
      BY <1>0, <2>2
    <3>2. rc.mapBlocksInFlight[b] # p
      BY <3>1, NoneAssumption
    <3>3. rc.mapBlocksInFlight[b] = p <=> rc.node[p] # None /\ InQueue(rc.node[p], b)
      BY <2>2 DEF Sound
    <3> QED
      BY <2>3, <3>1, <3>2, <3>3
  <2>6. PICK q, x : q = i.vBlocksInFlight /\ x = [hash |-> b, partialBlock |-> partial]
    OBVIOUS
  <2>7. PICK e : e = Append(q, x)
    OBVIOUS
  <2>8. /\ q \in Seq(Queued) /\ x \in Queued /\ x.hash = b /\ Once(q)
        /\ e \in Seq(Queued) /\ Len(e) = Len(q) + 1 /\ e[Len(q) + 1] = x
        /\ DOMAIN e = 1 .. Len(q) + 1 /\ DOMAIN q = 1 .. Len(q) /\ Len(q) \in Nat
        /\ \A k \in 1 .. Len(q) : e[k] = q[k]
    <3>1. q \in Seq(Queued) /\ x \in Queued /\ x.hash = b /\ Once(q)
      BY <2>4, <2>6 DEF Queued, Fine
    <3> QED
      BY SMTT(60), <2>7, <3>1
  <2>9. \A k \in DOMAIN q : q[k].hash # b
    BY <2>5, <2>6 DEF InQueue
  <2>10. Once(e)
    <3> SUFFICES ASSUME NEW k \in DOMAIN e, NEW l \in DOMAIN e, e[k].hash = e[l].hash PROVE k = l
      BY DEF Once
    <3>1. k \in DOMAIN q \/ k = Len(q) + 1
      BY SMTT(60), <2>8
    <3>2. l \in DOMAIN q \/ l = Len(q) + 1
      BY SMTT(60), <2>8
    <3> QED
      BY <2>8, <2>9, <3>1, <3>2 DEF Once
  <2>11. PICK j : j = Awaiting(i, b, partial)
    OBVIOUS
  <2>12. /\ j \in NodeInfo /\ j.vBlocksInFlight = e /\ j.nBlocksInFlight = i.nBlocksInFlight + 1
         /\ j.nStallingSince = i.nStallingSince /\ j.fPreferredDownload = i.fPreferredDownload
         /\ j.fDisconnect = i.fDisconnect /\ j.nMisbehavior = i.nMisbehavior
         /\ i.nBlocksInFlight = Len(q)
    <3>1. i.nBlocksInFlight = Len(q)
      BY <2>4, <2>6 DEF Fine
    <3>2. e \in Seq([hash : Blocks, partialBlock : BOOLEAN])
      BY <2>8 DEF Queued
    <3>3. j = [i EXCEPT !.vBlocksInFlight = e, !.nBlocksInFlight = i.nBlocksInFlight + 1]
      BY <2>6, <2>7, <2>11 DEF Awaiting
    <3> QED
      <4>1. i.nBlocksInFlight + 1 \in Nat
        BY SMTT(60), <2>4
      <4>2. PICK n \in Nat : n = i.nBlocksInFlight + 1
        BY <4>1
      <4>3. j = [i EXCEPT !.vBlocksInFlight = e, !.nBlocksInFlight = n]
        BY <3>3, <4>2
      <4>4. /\ j \in NodeInfo /\ j.vBlocksInFlight = e /\ j.nBlocksInFlight = n
            /\ j.nStallingSince = i.nStallingSince /\ j.fPreferredDownload = i.fPreferredDownload
            /\ j.fDisconnect = i.fDisconnect /\ j.nMisbehavior = i.nMisbehavior
        BY <2>4, <3>2, <4>3 DEF NodeInfo
      <4> QED
        BY <3>1, <4>2, <4>4
  <2>13. Fine(j)
    BY SMTT(60), <2>4, <2>8, <2>10, <2>12 DEF Fine
  <2>14. PICK m : m = [rc.mapBlocksInFlight EXCEPT ![b] = p]
    OBVIOUS
  <2>15. /\ m \in [Blocks -> Peers \cup {None}] /\ m[b] = p
         /\ \A c \in Blocks \ {b} : m[c] = rc.mapBlocksInFlight[c]
         /\ m = [bk.mapBlocksInFlight EXCEPT ![b] = p]
    BY <1>0, <2>2, <2>14
  <2>16. \A c \in Blocks : InQueue(j, c) <=> c = b \/ InQueue(i, c)
    <3>1. ASSUME NEW c \in Blocks, InQueue(j, c) PROVE c = b \/ InQueue(i, c)
      <4>1. PICK k \in DOMAIN e : e[k].hash = c
        BY <2>12, <3>1 DEF InQueue
      <4>2. k \in DOMAIN q \/ k = Len(q) + 1
        BY SMTT(60), <2>8
      <4> QED
        BY <2>6, <2>8, <4>1, <4>2 DEF InQueue
    <3>2. ASSUME NEW c \in Blocks, c = b \/ InQueue(i, c) PROVE InQueue(j, c)
      <4>1. CASE c = b
        <5>1. Len(q) + 1 \in DOMAIN e /\ e[Len(q) + 1].hash = c
          BY SMTT(60), <2>8, <4>1
        <5> QED
          BY <2>12, <5>1 DEF InQueue
      <4>2. CASE InQueue(i, c)
        <5>1. PICK k \in DOMAIN q : q[k].hash = c
          BY <2>6, <4>2 DEF InQueue
        <5>2. k \in DOMAIN e /\ e[k].hash = c
          BY SMTT(60), <2>8, <5>1
        <5> QED
          BY <2>12, <5>2 DEF InQueue
      <4> QED
        BY <3>2, <4>1, <4>2
    <3> QED
      BY <3>1, <3>2
  <2>17. \A c \in Blocks : m[c] = p <=> InQueue(j, c)
    BY SMTT(60), <2>2, <2>3, <2>15, <2>16 DEF Sound
  <2>18. \A c \in Blocks, r \in Peers \ {p} : m[c] = r <=> rc.mapBlocksInFlight[c] = r
    BY <2>5, <2>15, NoneAssumption
  <2>19. Sound(Replaced(rc, p, j, m))
    <3>1. rc.node[p] # None /\ j.fPreferredDownload = rc.node[p].fPreferredDownload
      BY <2>3, <2>12
    <3> QED
      BY <2>2, <2>12, <2>13, <2>15, <2>17, <2>18, <3>1, ReplacedSound
  <2>20. st = Replaced(rc, p, j, m)
    <3>0. rc \in Books
      BY <2>2 DEF Sound
    <3>1. PICK nd, mp, v, w : /\ rc = [node |-> nd, mapBlocksInFlight |-> mp, nPeersWithValidatedDownloads |-> v, nPreferredDownload |-> w]
                              /\ v \in Nat
      BY <3>0 DEF Books
    <3>2. PICK n \in Nat, l \in Nat : n = i.nBlocksInFlight /\ l = j.nBlocksInFlight /\ l = n + 1
      BY SMTT(60), <2>4, <2>12
    <3>3. v + (IF n = 0 THEN 1 ELSE 0) = v - One(n > 0) + One(l > 0)
      BY SMTT(60), <3>1, <3>2 DEF One
    <3>4. st = [rc EXCEPT !.node[p] = j,
                          !.nPeersWithValidatedDownloads = @ + (IF n = 0 THEN 1 ELSE 0),
                          !.mapBlocksInFlight[b] = p]
      BY <1>2, <2>1, <2>3, <2>11, <3>2 DEF MarkBlockAsInFlight
    <3>5. PICK u : u = v + (IF n = 0 THEN 1 ELSE 0)
      OBVIOUS
    <3>6. st = [node |-> [nd EXCEPT ![p] = j], mapBlocksInFlight |-> m, nPeersWithValidatedDownloads |-> u, nPreferredDownload |-> w]
      BY <2>14, <3>1, <3>4, <3>5
    <3> QED
      BY <2>3, <3>1, <3>2, <3>3, <3>5, <3>6 DEF Replaced
  <2> HIDE DEF st
  <2>21. st.node = [rc.node EXCEPT ![p] = j] /\ st.mapBlocksInFlight = m
    BY <2>20 DEF Replaced
  <2>22. st.node[p] = j /\ j # None /\ \A r \in Peers \ {p} : st.node[r] = rc.node[r]
    BY SMTT(60), <2>2, <2>12, <2>21, NoneAssumption DEF Sound, Books
  <2>23. Kept(bk, st)
    BY SMTT(60), <2>2, <2>3, <2>12, <2>22 DEF Kept
  <2>24. ASSUME NEW r \in Peers, bk.node[r] # None
         PROVE  /\ st.node[r].nBlocksInFlight =< bk.node[r].nBlocksInFlight + One(r = p)
                /\ \A c \in Blocks \ {b} : HasPartial(bk, r, c) => HasPartial(st, r, c)
    <3>1. CASE r # p
      <4>1. st.node[r] = rc.node[r] /\ bk.node[r].nBlocksInFlight \in Nat
        BY <2>22, <2>24, <3>1, EntryTypes
      <4>2. \A c : HasPartial(rc, r, c) => HasPartial(st, r, c)
        BY <4>1 DEF HasPartial
      <4>3. rc.node[r].nBlocksInFlight =< bk.node[r].nBlocksInFlight + 0
        BY SMTT(60), <2>2, <2>24, <4>1
      <4> QED
        BY <2>2, <2>24, <3>1, <4>1, <4>2, <4>3 DEF One
    <3>2. CASE r = p
      <4>1. st.node[r].nBlocksInFlight =< bk.node[r].nBlocksInFlight + One(r = p)
        BY SMTT(60), <2>3, <2>4, <2>12, <2>22, <3>2 DEF One
      <4>2. ASSUME NEW c \in Blocks \ {b}, HasPartial(bk, p, c) PROVE HasPartial(st, p, c)
        <5>1. PICK k \in DOMAIN q : q[k].hash = c /\ q[k].partialBlock
          BY <2>3, <2>6, <4>2 DEF HasPartial, Range
        <5>2. k \in DOMAIN e /\ e[k] = q[k]
          BY SMTT(60), <2>8
        <5>3. st.node[p].vBlocksInFlight = e
          BY <2>12, <2>22
        <5> QED
          BY <5>1, <5>2, <5>3 DEF HasPartial, Range
      <4> QED
        BY <3>2, <4>1, <4>2
    <3> QED
      BY <3>1, <3>2
  <2> QED
    BY <2>15, <2>19, <2>20, <2>21, <2>23, <2>24 DEF st
<1> QED
  BY <1>1, <1>2

----------------------------------------------------------------------------
(* Changes that leave the blocks in flight alone *)

\* The same blocks in flight from the same peers, with what is known of them.
Alike(bk, st) ==
    /\ Sound(st) /\ st.mapBlocksInFlight = bk.mapBlocksInFlight
    /\ \A r \in Peers :
          /\ st.node[r] # None <=> bk.node[r] # None
          /\ bk.node[r] # None =>
                /\ st.node[r].nBlocksInFlight = bk.node[r].nBlocksInFlight
                /\ \A c \in Blocks : HasPartial(bk, r, c) => HasPartial(st, r, c)

\* A queue with the same blocks, of which no partial block was lost.
SameQueue(q, e) ==
    /\ e \in Seq(Queued) /\ Len(e) = Len(q)
    /\ \A k \in 1 .. Len(q) : e[k].hash = q[k].hash /\ (q[k].partialBlock => e[k].partialBlock)

\* A change of one peer's entry that leaves the blocks in its queue alone.
LEMMA TouchedAlike ==
    ASSUME NEW bk, Sound(bk), NEW p \in Peers, NEW i, i = bk.node[p], i # None,
           NEW j \in NodeInfo, SameQueue(i.vBlocksInFlight, j.vBlocksInFlight),
           j.nBlocksInFlight = i.nBlocksInFlight, j.fPreferredDownload = i.fPreferredDownload,
           j.nStallingSince => j.nBlocksInFlight > 0, j.nMisbehavior = banscore => j.fDisconnect
    PROVE  LET st == [bk EXCEPT !.node[p] = j]
           IN  /\ Alike(bk, st) /\ st.node = [bk.node EXCEPT ![p] = j]
               /\ st.node[p] = j /\ \A r \in Peers \ {p} : st.node[r] = bk.node[r]
               /\ (j.fDisconnect = i.fDisconnect /\ j.nMisbehavior = i.nMisbehavior) => Kept(bk, st)
<1> DEFINE st == [bk EXCEPT !.node[p] = j]
<1>1. PICK nd, m, v, w :
         /\ bk = [node |-> nd, mapBlocksInFlight |-> m, nPeersWithValidatedDownloads |-> v, nPreferredDownload |-> w]
         /\ nd \in [Peers -> NodeInfo \cup {None}] /\ m \in [Blocks -> Peers \cup {None}] /\ v \in Nat
  BY DEF Sound, Books
<1>2. i \in NodeInfo /\ Fine(i) /\ i.vBlocksInFlight \in Seq(Queued) /\ i.nBlocksInFlight \in Nat
  BY EntryTypes
<1>3. PICK q, e : q = i.vBlocksInFlight /\ e = j.vBlocksInFlight
  OBVIOUS
<1>4. /\ q \in Seq(Queued) /\ e \in Seq(Queued) /\ Len(q) = Len(e) /\ Len(q) \in Nat
      /\ DOMAIN q = 1 .. Len(q) /\ DOMAIN e = 1 .. Len(q)
      /\ \A k \in 1 .. Len(q) : e[k].hash = q[k].hash /\ (q[k].partialBlock => e[k].partialBlock)
  <2>1. SameQueue(q, e) /\ q \in Seq(Queued)
    BY <1>2, <1>3
  <2>2. /\ e \in Seq(Queued) /\ Len(e) = Len(q)
        /\ \A k \in 1 .. Len(q) : e[k].hash = q[k].hash /\ (q[k].partialBlock => e[k].partialBlock)
    BY <2>1 DEF SameQueue
  <2>3. Len(q) \in Nat /\ DOMAIN q = 1 .. Len(q) /\ DOMAIN e = 1 .. Len(e)
    BY SMTT(60), <2>1, <2>2
  <2> QED
    BY <2>1, <2>2, <2>3
<1>5. Once(q) /\ i.nBlocksInFlight = Len(q)
  BY <1>2, <1>3 DEF Fine
<1>6. Once(e)
  BY SMTT(60), <1>4, <1>5 DEF Once
<1>7. Fine(j)
  BY <1>3, <1>4, <1>5, <1>6 DEF Fine
<1>8. \A b \in Blocks : InQueue(j, b) <=> InQueue(i, b)
  BY SMTT(60), <1>3, <1>4 DEF InQueue
<1>9. \A b \in Blocks : m[b] = p <=> InQueue(j, b)
  BY <1>1, <1>8 DEF Sound
<1>10. Sound(Replaced(bk, p, j, m))
  <2>1. bk.node[p] # None /\ j.fPreferredDownload = bk.node[p].fPreferredDownload
    OBVIOUS
  <2>2. \A b \in Blocks, r \in Peers \ {p} : m[b] = r <=> bk.mapBlocksInFlight[b] = r
    BY <1>1
  <2> QED
    BY <1>1, <1>7, <1>9, <2>1, <2>2, ReplacedSound
<1>11. st = [node |-> [nd EXCEPT ![p] = j], mapBlocksInFlight |-> m, nPeersWithValidatedDownloads |-> v, nPreferredDownload |-> w]
  BY SMTT(60), <1>1
<1>12. v - One(i.nBlocksInFlight > 0) + One(j.nBlocksInFlight > 0) = v
  BY SMTT(60), <1>1, <1>2 DEF One
<1>13. st = Replaced(bk, p, j, m)
  BY <1>1, <1>11, <1>12 DEF Replaced
<1> HIDE DEF st
<1>14. st.node = [bk.node EXCEPT ![p] = j] /\ st.mapBlocksInFlight = bk.mapBlocksInFlight
  BY <1>1, <1>11
<1>15. st.node[p] = j /\ j # None /\ \A r \in Peers \ {p} : st.node[r] = bk.node[r]
  BY <1>1, <1>14, NoneAssumption
<1>16. ASSUME NEW r \in Peers, bk.node[r] # None
       PROVE  /\ st.node[r] # None /\ st.node[r].nBlocksInFlight = bk.node[r].nBlocksInFlight
              /\ \A c \in Blocks : HasPartial(bk, r, c) => HasPartial(st, r, c)
  <2>1. CASE r # p
    BY <1>15, <1>16, <2>1 DEF HasPartial
  <2>2. CASE r = p
    <3>1. st.node[r] # None /\ st.node[r].nBlocksInFlight = bk.node[r].nBlocksInFlight
      BY <1>15, <2>2
    <3>2. ASSUME NEW c \in Blocks, HasPartial(bk, p, c) PROVE HasPartial(st, p, c)
      <4>1. PICK k \in DOMAIN q : q[k].hash = c /\ q[k].partialBlock
        BY <1>3, <3>2 DEF HasPartial, Range
      <4>2. k \in DOMAIN e /\ e[k].hash = c /\ e[k].partialBlock
        BY <1>4, <4>1
      <4>3. st.node[p].vBlocksInFlight = e
        BY <1>3, <1>15
      <4> QED
        BY <4>2, <4>3 DEF HasPartial, Range
    <3> QED
      BY <2>2, <3>1, <3>2
  <2> QED
    BY <2>1, <2>2
<1>17. \A r \in Peers : st.node[r] # None <=> bk.node[r] # None
  BY <1>15
<1>18. Alike(bk, st)
  BY <1>10, <1>13, <1>14, <1>16, <1>17 DEF Alike
<1>19. (j.fDisconnect = i.fDisconnect /\ j.nMisbehavior = i.nMisbehavior) => Kept(bk, st)
  BY <1>15, <1>17 DEF Kept
<1> QED
  BY <1>14, <1>15, <1>18, <1>19 DEF st

\* A queue is the same as itself.
LEMMA SameQueueRefl ==
    ASSUME NEW q \in Seq(Queued) PROVE SameQueue(q, q)
BY DEF SameQueue

\* Books are like themselves.
LEMMA AlikeRefl ==
    ASSUME NEW bk, Sound(bk) PROVE Alike(bk, bk) /\ Kept(bk, bk)
BY DEF Alike, Kept

\* What is like something like the books is like the books.
LEMMA AlikeTrans ==
    ASSUME NEW a, NEW b, NEW c, Alike(a, b), Kept(a, b), Alike(b, c), Kept(b, c)
    PROVE  Alike(a, c) /\ Kept(a, c)
BY SMTT(60) DEF Alike, Kept

\* BetterKnown gives a block.
LEMMA BetterKnownType ==
    ASSUME NEW best \in Blocks \cup {None}, NEW b \in Blocks PROVE BetterKnown(best, b) \in Blocks
BY DEF BetterKnown

\* ProcessBlockAvailability changes what is known of a peer's chain only.
LEMMA ProcessAlike ==
    ASSUME NEW bk, Sound(bk), NEW p \in Peers, bk.node[p] # None, NEW idx \in SUBSET Blocks
    PROVE  LET st == ProcessBlockAvailability(bk, p, idx) IN Alike(bk, st) /\ Kept(bk, st)
<1> DEFINE st == ProcessBlockAvailability(bk, p, idx)
<1>1. PICK i : i = bk.node[p] /\ i # None
  OBVIOUS
<1>2. PICK last : last = i.hashLastUnknownBlock
  OBVIOUS
<1>3. CASE last \notin idx
  BY <1>1, <1>2, <1>3, AlikeRefl DEF ProcessBlockAvailability
<1>4. CASE last \in idx
  <2>1. PICK j : j = [i EXCEPT !.pindexBestKnownBlock = BetterKnown(i.pindexBestKnownBlock, last), !.hashLastUnknownBlock = None]
    OBVIOUS
  <2>2. st = [bk EXCEPT !.node[p] = j]
    BY <1>1, <1>2, <1>4, <2>1 DEF ProcessBlockAvailability
  <2>3. i \in NodeInfo /\ Fine(i) /\ i.vBlocksInFlight \in Seq(Queued) /\ i.nBlocksInFlight \in Nat
    BY <1>1, EntryTypes
  <2>4. BetterKnown(i.pindexBestKnownBlock, last) \in Blocks
    <3>1. i.pindexBestKnownBlock \in Blocks \cup {None} /\ last \in Blocks
      BY <1>4, <2>3 DEF NodeInfo
    <3> QED
      BY <3>1, BetterKnownType
  <2>5. PICK t \in Blocks : t = BetterKnown(i.pindexBestKnownBlock, last)
    BY <2>4
  <2>6. j = [i EXCEPT !.pindexBestKnownBlock = t, !.hashLastUnknownBlock = None]
    BY <2>1, <2>5
  <2>7. /\ j \in NodeInfo /\ j.vBlocksInFlight = i.vBlocksInFlight /\ j.nBlocksInFlight = i.nBlocksInFlight
        /\ j.fPreferredDownload = i.fPreferredDownload /\ j.nStallingSince = i.nStallingSince
        /\ j.nMisbehavior = i.nMisbehavior /\ j.fDisconnect = i.fDisconnect
    BY <2>3, <2>6 DEF NodeInfo
  <2>8. /\ (j.nStallingSince => j.nBlocksInFlight > 0) /\ (j.nMisbehavior = banscore => j.fDisconnect)
        /\ SameQueue(i.vBlocksInFlight, j.vBlocksInFlight)
    <3>1. SameQueue(i.vBlocksInFlight, i.vBlocksInFlight)
      BY <2>3, SameQueueRefl
    <3> QED
      BY <2>3, <2>7, <3>1 DEF Fine
  <2> QED
    BY SMTT(60), <1>1, <2>2, <2>7, <2>8, TouchedAlike
<1> QED
  BY <1>3, <1>4

\* UpdateBlockAvailability changes what is known of a peer's chain only.
LEMMA UpdateAlike ==
    ASSUME NEW bk, Sound(bk), NEW p \in Peers, bk.node[p] # None, NEW idx \in SUBSET Blocks, NEW b \in Blocks
    PROVE  LET st == UpdateBlockAvailability(bk, p, b, idx) IN Alike(bk, st) /\ Kept(bk, st)
<1> DEFINE st == UpdateBlockAvailability(bk, p, b, idx)
<1>0. PICK pr : pr = ProcessBlockAvailability(bk, p, idx)
  OBVIOUS
<1>1. Alike(bk, pr) /\ Kept(bk, pr) /\ Sound(pr) /\ pr.node[p] # None
  BY SMTT(60), <1>0, ProcessAlike DEF Alike
<1>2. PICK i : i = pr.node[p] /\ i # None
  BY <1>1
<1>3. i \in NodeInfo /\ Fine(i) /\ i.vBlocksInFlight \in Seq(Queued) /\ i.nBlocksInFlight \in Nat
  BY <1>1, <1>2, EntryTypes
<1>4. ASSUME NEW j \in NodeInfo, j.vBlocksInFlight = i.vBlocksInFlight, j.nBlocksInFlight = i.nBlocksInFlight,
             j.fPreferredDownload = i.fPreferredDownload, j.nStallingSince = i.nStallingSince,
             j.nMisbehavior = i.nMisbehavior, j.fDisconnect = i.fDisconnect,
             st = [pr EXCEPT !.node[p] = j]
      PROVE  Alike(bk, st) /\ Kept(bk, st)
  <2>1. /\ (j.nStallingSince => j.nBlocksInFlight > 0) /\ (j.nMisbehavior = banscore => j.fDisconnect)
        /\ SameQueue(i.vBlocksInFlight, j.vBlocksInFlight)
    <3>1. SameQueue(i.vBlocksInFlight, i.vBlocksInFlight)
      BY <1>3, SameQueueRefl
    <3> QED
      BY <1>3, <1>4, <3>1 DEF Fine
  <2> HIDE DEF st
  <2>2. Alike(pr, st) /\ Kept(pr, st)
    BY <1>1, <1>2, <1>4, <2>1, TouchedAlike
  <2> QED
    BY <1>1, <2>2, AlikeTrans
<1>5. CASE b \in idx
  <2>1. PICK t \in Blocks : t = BetterKnown(i.pindexBestKnownBlock, b)
    <3>1. i.pindexBestKnownBlock \in Blocks \cup {None}
      BY <1>3 DEF NodeInfo
    <3> QED
      BY <3>1, BetterKnownType
  <2>2. PICK j : j = [i EXCEPT !.pindexBestKnownBlock = t]
    OBVIOUS
  <2>3. /\ j \in NodeInfo /\ j.vBlocksInFlight = i.vBlocksInFlight /\ j.nBlocksInFlight = i.nBlocksInFlight
        /\ j.fPreferredDownload = i.fPreferredDownload /\ j.nStallingSince = i.nStallingSince
        /\ j.nMisbehavior = i.nMisbehavior /\ j.fDisconnect = i.fDisconnect
    BY <1>3, <2>2 DEF NodeInfo
  <2>4. st = [pr EXCEPT !.node[p].pindexBestKnownBlock = BetterKnown(@, b)]
    BY <1>0, <1>5 DEF UpdateBlockAvailability
  <2>5. PICK nd, m, v, w :
           pr = [node |-> nd, mapBlocksInFlight |-> m, nPeersWithValidatedDownloads |-> v, nPreferredDownload |-> w]
    BY <1>1 DEF Sound, Books
  <2>6. st = [pr EXCEPT !.node[p] = j]
    BY <1>2, <2>1, <2>2, <2>4, <2>5
  <2> QED
    BY <1>4, <2>3, <2>6
<1>6. CASE b \notin idx
  <2>2. PICK j : j = [i EXCEPT !.hashLastUnknownBlock = b]
    OBVIOUS
  <2>3. /\ j \in NodeInfo /\ j.vBlocksInFlight = i.vBlocksInFlight /\ j.nBlocksInFlight = i.nBlocksInFlight
        /\ j.fPreferredDownload = i.fPreferredDownload /\ j.nStallingSince = i.nStallingSince
        /\ j.nMisbehavior = i.nMisbehavior /\ j.fDisconnect = i.fDisconnect
    BY <1>3, <2>2 DEF NodeInfo
  <2>4. st = [pr EXCEPT !.node[p].hashLastUnknownBlock = b]
    BY <1>0, <1>6 DEF UpdateBlockAvailability
  <2>5. PICK nd, m, v, w :
           pr = [node |-> nd, mapBlocksInFlight |-> m, nPeersWithValidatedDownloads |-> v, nPreferredDownload |-> w]
    BY <1>1 DEF Sound, Books
  <2>6. st = [pr EXCEPT !.node[p] = j]
    BY <1>2, <2>2, <2>4, <2>5
  <2> QED
    BY <1>4, <2>3, <2>6
<1> QED
  BY <1>5, <1>6

\* The shape of the books.
LEMMA Shape ==
    ASSUME NEW bk, Sound(bk)
    PROVE  \E nd, m, v, w :
              /\ bk = [node |-> nd, mapBlocksInFlight |-> m, nPeersWithValidatedDownloads |-> v, nPreferredDownload |-> w]
              /\ nd \in [Peers -> NodeInfo \cup {None}] /\ m \in [Blocks -> Peers \cup {None}]
              /\ v \in Nat /\ w \in Nat
BY DEF Sound, Books

\* The partial block of a compact block goes into the queue's entry.
LEMMA WithPartialAlike ==
    ASSUME NEW bk, Sound(bk), NEW p \in Peers, bk.node[p] # None, NEW b \in Blocks
    PROVE  LET st == WithPartial(bk, p, b)
           IN  /\ Alike(bk, st) /\ Kept(bk, st)
               /\ bk.mapBlocksInFlight[b] = p => HasPartial(st, p, b)
<1> DEFINE st == WithPartial(bk, p, b)
<1>1. PICK i : i = bk.node[p] /\ i # None
  OBVIOUS
<1>2. i \in NodeInfo /\ Fine(i) /\ i.vBlocksInFlight \in Seq(Queued) /\ i.nBlocksInFlight \in Nat
  BY <1>1, EntryTypes
<1>3. PICK q \in Seq(Queued) : q = i.vBlocksInFlight
  BY <1>2
<1>4. PICK e : e = [k \in DOMAIN q |-> [hash |-> q[k].hash, partialBlock |-> q[k].partialBlock \/ q[k].hash = b]]
  OBVIOUS
<1>5. PICK n \in Nat : n = Len(q) /\ DOMAIN q = 1 .. n /\ \A k \in 1 .. n : q[k] \in Queued
  BY SMTT(60), <1>3
<1>6. \A k \in 1 .. n : /\ e[k] \in Queued /\ e[k].hash = q[k].hash
                        /\ e[k].partialBlock <=> (q[k].partialBlock \/ q[k].hash = b)
  BY <1>4, <1>5 DEF Queued
<1>7. e \in Seq(Queued) /\ Len(e) = n /\ DOMAIN e = 1 .. n
  <2>1. e \in [1 .. n -> Queued]
    BY <1>4, <1>5, <1>6
  <2> QED
    BY SMTT(60), <2>1
<1>8. SameQueue(q, e)
  BY <1>5, <1>6, <1>7 DEF SameQueue
<1>9. PICK j : j = [i EXCEPT !.vBlocksInFlight = e]
  OBVIOUS
<1>10. /\ j \in NodeInfo /\ j.vBlocksInFlight = e /\ j.nBlocksInFlight = i.nBlocksInFlight
       /\ j.fPreferredDownload = i.fPreferredDownload /\ j.nStallingSince = i.nStallingSince
       /\ j.nMisbehavior = i.nMisbehavior /\ j.fDisconnect = i.fDisconnect
  BY <1>2, <1>7, <1>9 DEF NodeInfo, Queued
<1>11. st = [bk EXCEPT !.node[p] = j]
  <2>1. st = [bk EXCEPT !.node[p].vBlocksInFlight = e]
    BY <1>1, <1>3, <1>4 DEF WithPartial
  <2> HIDE DEF st
  <2>2. PICK nd, m, v, w :
           bk = [node |-> nd, mapBlocksInFlight |-> m, nPeersWithValidatedDownloads |-> v, nPreferredDownload |-> w]
    BY Shape
  <2> QED
    BY <1>1, <1>9, <2>1, <2>2
<1> HIDE DEF st
<1>12. SameQueue(i.vBlocksInFlight, j.vBlocksInFlight) /\ (j.nStallingSince => j.nBlocksInFlight > 0)
       /\ (j.nMisbehavior = banscore => j.fDisconnect)
  BY <1>2, <1>3, <1>8, <1>10 DEF Fine
<1>13. Alike(bk, st) /\ Kept(bk, st) /\ st.node[p] = j
  BY SMTT(60), <1>1, <1>10, <1>11, <1>12, TouchedAlike
<1>14. ASSUME bk.mapBlocksInFlight[b] = p PROVE HasPartial(st, p, b)
  <2>1. PICK k \in DOMAIN q : q[k].hash = b
    BY <1>1, <1>3, <1>14 DEF Sound, InQueue
  <2>2. k \in DOMAIN e /\ e[k].hash = b /\ e[k].partialBlock /\ st.node[p].vBlocksInFlight = e
    BY <1>5, <1>6, <1>7, <1>10, <1>13, <2>1
  <2> QED
    BY <2>2 DEF HasPartial, Range
<1> QED
  BY <1>13, <1>14 DEF st

\* Misbehaving.
LEMMA MisbehavingAlike ==
    ASSUME NEW bk, Sound(bk), NEW p \in Peers, bk.node[p] # None, ~bk.node[p].fDisconnect
    PROVE  Alike(bk, Misbehaving(bk, p))
<1> DEFINE st == Misbehaving(bk, p)
<1>1. PICK i : i = bk.node[p] /\ i # None
  OBVIOUS
<1>2. i \in NodeInfo /\ Fine(i) /\ i.vBlocksInFlight \in Seq(Queued) /\ i.nBlocksInFlight \in Nat
  BY <1>1, EntryTypes
<1>3. PICK n : n = i.nMisbehavior + 1
  OBVIOUS
<1>4. n \in 0 .. banscore
  <2>1. i.nMisbehavior \in 0 .. banscore
    BY <1>2 DEF NodeInfo
  <2>2. i.nMisbehavior # banscore
    BY <1>1, <1>2 DEF Fine
  <2> QED
    BY SMTT(60), <1>3, <2>1, <2>2, BoundAssumption
<1>5. PICK d \in BOOLEAN : d <=> n = banscore
  OBVIOUS
<1>6. PICK j : j = [i EXCEPT !.nMisbehavior = n, !.fDisconnect = d]
  OBVIOUS
<1>7. /\ j \in NodeInfo /\ j.vBlocksInFlight = i.vBlocksInFlight /\ j.nBlocksInFlight = i.nBlocksInFlight
      /\ j.fPreferredDownload = i.fPreferredDownload /\ j.nStallingSince = i.nStallingSince
      /\ j.nMisbehavior = n /\ j.fDisconnect = d
  BY <1>2, <1>4, <1>6 DEF NodeInfo
<1>8. st = [bk EXCEPT !.node[p] = j]
  <2>1. (n = banscore) = d
    BY <1>5
  <2> QED
    BY <1>1, <1>3, <1>6, <2>1 DEF Misbehaving
<1> HIDE DEF st
<1>9. SameQueue(i.vBlocksInFlight, j.vBlocksInFlight) /\ (j.nStallingSince => j.nBlocksInFlight > 0)
      /\ (j.nMisbehavior = banscore => j.fDisconnect)
  <2>1. SameQueue(i.vBlocksInFlight, i.vBlocksInFlight)
    BY <1>2, SameQueueRefl
  <2> QED
    BY <1>2, <1>5, <1>7, <2>1 DEF Fine
<1>10. Alike(bk, st)
  BY SMTT(60), <1>1, <1>7, <1>8, <1>9, TouchedAlike
<1> QED
  BY <1>10 DEF st

\* A field of the entry that says nothing of the blocks in flight.
LEMMA FieldsAlike ==
    ASSUME NEW bk, Sound(bk), NEW p \in Peers, bk.node[p] # None
    PROVE  /\ Alike(bk, [bk EXCEPT !.node[p].fDisconnect = TRUE])
           /\ \A c \in Blocks \cup {None} :
                 LET st == [bk EXCEPT !.node[p].pindexLastCommonBlock = c] IN Alike(bk, st) /\ Kept(bk, st)
           /\ bk.node[p].nBlocksInFlight > 0 => Alike(bk, [bk EXCEPT !.node[p].nStallingSince = TRUE])
<1>1. PICK i : i = bk.node[p] /\ i # None
  OBVIOUS
<1>2. i \in NodeInfo /\ Fine(i) /\ i.vBlocksInFlight \in Seq(Queued) /\ i.nBlocksInFlight \in Nat
  BY <1>1, EntryTypes
<1>3. SameQueue(i.vBlocksInFlight, i.vBlocksInFlight)
  BY <1>2, SameQueueRefl
<1>4. PICK nd, m, v, w :
         bk = [node |-> nd, mapBlocksInFlight |-> m, nPeersWithValidatedDownloads |-> v, nPreferredDownload |-> w]
  BY Shape
<1>5. (i.nStallingSince => i.nBlocksInFlight > 0) /\ (i.nMisbehavior = banscore => i.fDisconnect)
  BY <1>2 DEF Fine
<1>6. Alike(bk, [bk EXCEPT !.node[p].fDisconnect = TRUE])
  <2>1. PICK j : j = [i EXCEPT !.fDisconnect = TRUE]
    OBVIOUS
  <2>2. /\ j \in NodeInfo /\ j.vBlocksInFlight = i.vBlocksInFlight /\ j.nBlocksInFlight = i.nBlocksInFlight
        /\ j.fPreferredDownload = i.fPreferredDownload /\ j.nStallingSince = i.nStallingSince
        /\ j.nMisbehavior = i.nMisbehavior /\ j.fDisconnect
    BY <1>2, <2>1 DEF NodeInfo
  <2>3. [bk EXCEPT !.node[p].fDisconnect = TRUE] = [bk EXCEPT !.node[p] = j]
    BY <1>1, <1>4, <2>1
  <2>4. Alike(bk, [bk EXCEPT !.node[p] = j])
    BY <1>1, <1>3, <1>5, <2>2, TouchedAlike
  <2> QED
    BY <2>3, <2>4
<1>7. ASSUME NEW c \in Blocks \cup {None}
      PROVE  LET st == [bk EXCEPT !.node[p].pindexLastCommonBlock = c] IN Alike(bk, st) /\ Kept(bk, st)
  <2>1. PICK j : j = [i EXCEPT !.pindexLastCommonBlock = c]
    OBVIOUS
  <2>2. /\ j \in NodeInfo /\ j.vBlocksInFlight = i.vBlocksInFlight /\ j.nBlocksInFlight = i.nBlocksInFlight
        /\ j.fPreferredDownload = i.fPreferredDownload /\ j.nStallingSince = i.nStallingSince
        /\ j.nMisbehavior = i.nMisbehavior /\ j.fDisconnect = i.fDisconnect
    BY <1>2, <2>1 DEF NodeInfo
  <2>3. [bk EXCEPT !.node[p].pindexLastCommonBlock = c] = [bk EXCEPT !.node[p] = j]
    BY <1>1, <1>4, <2>1
  <2>4. Alike(bk, [bk EXCEPT !.node[p] = j]) /\ Kept(bk, [bk EXCEPT !.node[p] = j])
    BY SMTT(60), <1>1, <1>3, <1>5, <2>2, TouchedAlike
  <2> QED
    BY <2>3, <2>4
<1>8. ASSUME bk.node[p].nBlocksInFlight > 0
      PROVE  Alike(bk, [bk EXCEPT !.node[p].nStallingSince = TRUE])
  <2>1. PICK j : j = [i EXCEPT !.nStallingSince = TRUE]
    OBVIOUS
  <2>2. /\ j \in NodeInfo /\ j.vBlocksInFlight = i.vBlocksInFlight /\ j.nBlocksInFlight = i.nBlocksInFlight
        /\ j.fPreferredDownload = i.fPreferredDownload
        /\ j.nMisbehavior = i.nMisbehavior /\ j.fDisconnect = i.fDisconnect
    BY <1>2, <2>1 DEF NodeInfo
  <2>3. [bk EXCEPT !.node[p].nStallingSince = TRUE] = [bk EXCEPT !.node[p] = j]
    BY <1>1, <1>4, <2>1
  <2>5. j.nBlocksInFlight > 0
    BY <1>1, <1>8, <2>2
  <2>4. Alike(bk, [bk EXCEPT !.node[p] = j])
    BY SMTT(60), <1>1, <1>3, <1>5, <2>2, <2>5, TouchedAlike
  <2> QED
    BY <2>3, <2>4
<1> QED
  BY <1>6, <1>7, <1>8

----------------------------------------------------------------------------
(* Many blocks at once, and the inductive invariant *)

\* The first k blocks of s have been marked.
Marked(bk, p, s, k, st) ==
    /\ \A l \in 1 .. k : st.mapBlocksInFlight[s[l]] = p
    /\ \A c \in Blocks : (\A l \in 1 .. k : s[l] # c) =>
          /\ st.mapBlocksInFlight[c] = bk.mapBlocksInFlight[c]
          /\ \A r \in Peers : bk.node[r] # None /\ HasPartial(bk, r, c) => HasPartial(st, r, c)
    /\ \A r \in Peers : bk.node[r] # None =>
          st.node[r].nBlocksInFlight =< bk.node[r].nBlocksInFlight + IF r = p THEN k ELSE 0

\* The loop over the blocks to fetch keeps the books in order and marks those blocks.
LEMMA AllInFlightSound ==
    ASSUME NEW bk, Sound(bk), NEW p \in Peers, bk.node[p] # None, NEW s \in Seq(Blocks)
    PROVE  LET st == AllInFlight(bk, p, s) IN Sound(st) /\ Kept(bk, st) /\ Marked(bk, p, s, Len(s), st)
<1> DEFINE X == {st \in Books : Sound(st) /\ Kept(bk, st)}
           Y == [k \in 0 .. Len(s) |-> {st \in X : Marked(bk, p, s, k, st)}]
<1>0. Len(s) \in Nat /\ \A k \in 1 .. Len(s) : s[k] \in Blocks
  BY SMTT(60)
<1>1. bk \in X
  BY AlikeRefl DEF Sound
<1>2. bk \in Y[0]
  <2>1. \A r \in Peers : bk.node[r] # None => bk.node[r].nBlocksInFlight \in Nat
    BY EntryTypes
  <2>2. Marked(bk, p, s, 0, bk)
    BY SMTT(60), <2>1 DEF Marked
  <2>3. 0 \in 0 .. Len(s)
    BY SMTT(60), <1>0
  <2> QED
    BY <1>1, <2>2, <2>3
<1>3. ASSUME NEW st \in X, NEW b \in Blocks
      PROVE  LET nx == MarkBlockAsInFlight(st, p, b, FALSE)
             IN  /\ nx \in X /\ Sound(nx) /\ Kept(st, nx)
                 /\ nx.mapBlocksInFlight = [st.mapBlocksInFlight EXCEPT ![b] = p]
                 /\ \A r \in Peers : bk.node[r] # None =>
                       /\ nx.node[r].nBlocksInFlight =< st.node[r].nBlocksInFlight + One(r = p)
                       /\ nx.node[r].nBlocksInFlight \in Nat /\ st.node[r].nBlocksInFlight \in Nat
                       /\ \A c \in Blocks \ {b} : HasPartial(st, r, c) => HasPartial(nx, r, c)
  <2>1. PICK nx : nx = MarkBlockAsInFlight(st, p, b, FALSE)
    OBVIOUS
  <2>2. Sound(st) /\ Kept(bk, st) /\ st.node[p] # None
    BY DEF Kept
  <2>3. /\ Sound(nx) /\ Kept(st, nx)
        /\ nx.mapBlocksInFlight = [st.mapBlocksInFlight EXCEPT ![b] = p]
        /\ \A r \in Peers : st.node[r] # None =>
              /\ nx.node[r].nBlocksInFlight =< st.node[r].nBlocksInFlight + One(r = p)
              /\ \A c \in Blocks \ {b} : HasPartial(st, r, c) => HasPartial(nx, r, c)
    <3>1. PICK f \in BOOLEAN : f = FALSE
      OBVIOUS
    <3>2. nx = MarkBlockAsInFlight(st, p, b, f)
      BY <2>1, <3>1
    <3> HIDE DEF X
    <3> QED
      BY SMTT(60), <2>2, <3>1, <3>2, InFlightSound
  <2>4. Kept(bk, nx)
    BY <2>2, <2>3 DEF Kept
  <2>5. nx \in X
    BY <2>3, <2>4 DEF Sound
  <2>6. \A r \in Peers : bk.node[r] # None => st.node[r] # None /\ nx.node[r] # None
    BY <2>2, <2>4 DEF Kept
  <2>7. \A r \in Peers : bk.node[r] # None => nx.node[r].nBlocksInFlight \in Nat /\ st.node[r].nBlocksInFlight \in Nat
    BY <2>2, <2>3, <2>6, EntryTypes
  <2> HIDE DEF X
  <2> QED
    BY <2>1, <2>3, <2>5, <2>6, <2>7
<1>4. \A st \in X, b \in Blocks : MarkBlockAsInFlight(st, p, b, FALSE) \in X
  BY <1>3
<1>5. ASSUME NEW k \in 1 .. Len(s), NEW st \in X, st \in Y[k - 1]
      PROVE  MarkBlockAsInFlight(st, p, s[k], FALSE) \in Y[k]
  <2>1. PICK b \in Blocks : b = s[k]
    BY <1>0
  <2>2. PICK nx : nx = MarkBlockAsInFlight(st, p, b, FALSE)
    OBVIOUS
  <2>3. /\ nx \in X
        /\ nx.mapBlocksInFlight = [st.mapBlocksInFlight EXCEPT ![b] = p]
        /\ \A r \in Peers : bk.node[r] # None =>
              /\ nx.node[r].nBlocksInFlight =< st.node[r].nBlocksInFlight + One(r = p)
              /\ nx.node[r].nBlocksInFlight \in Nat /\ st.node[r].nBlocksInFlight \in Nat
              /\ \A c \in Blocks \ {b} : HasPartial(st, r, c) => HasPartial(nx, r, c)
    BY <1>3, <2>2
  <2>4. k - 1 \in 0 .. Len(s) /\ k \in 0 .. Len(s) /\ k \in Nat
    BY SMTT(60), <1>0
  <2>5. Marked(bk, p, s, k - 1, st)
    BY <1>5, <2>4
  <2>6. st.mapBlocksInFlight \in [Blocks -> Peers \cup {None}]
    BY DEF Books
  <2>7. nx.mapBlocksInFlight[b] = p /\ \A c \in Blocks \ {b} : nx.mapBlocksInFlight[c] = st.mapBlocksInFlight[c]
    BY <2>3, <2>6
  <2>8. 1 .. k = (1 .. k - 1) \cup {k} /\ \A l \in 1 .. k - 1 : s[l] \in Blocks
    BY SMTT(60), <1>0
  <2>9. ASSUME NEW l \in 1 .. k PROVE nx.mapBlocksInFlight[s[l]] = p
    BY <2>1, <2>5, <2>7, <2>8 DEF Marked
  <2>10. ASSUME NEW c \in Blocks, \A l \in 1 .. k : s[l] # c
         PROVE  /\ nx.mapBlocksInFlight[c] = bk.mapBlocksInFlight[c]
                /\ \A r \in Peers : bk.node[r] # None /\ HasPartial(bk, r, c) => HasPartial(nx, r, c)
    <3>1. c # b /\ \A l \in 1 .. k - 1 : s[l] # c
      BY <2>1, <2>8, <2>10
    <3>2. /\ st.mapBlocksInFlight[c] = bk.mapBlocksInFlight[c]
          /\ \A r \in Peers : bk.node[r] # None /\ HasPartial(bk, r, c) => HasPartial(st, r, c)
      BY <2>5, <3>1 DEF Marked
    <3> QED
      BY <2>3, <2>7, <3>1, <3>2
  <2>11. ASSUME NEW r \in Peers, bk.node[r] # None
         PROVE  nx.node[r].nBlocksInFlight =< bk.node[r].nBlocksInFlight + IF r = p THEN k ELSE 0
    <3>1. PICK n \in Nat, o \in Nat, i \in Nat :
             n = nx.node[r].nBlocksInFlight /\ o = st.node[r].nBlocksInFlight /\ i = bk.node[r].nBlocksInFlight
      BY <2>3, <2>11, EntryTypes
    <3>2. n =< o + One(r = p) /\ o =< i + IF r = p THEN k - 1 ELSE 0
      BY <2>3, <2>5, <2>11, <3>1 DEF Marked
    <3>3. n =< i + IF r = p THEN k ELSE 0
      <4>1. CASE r = p
        <5>1. n =< o + 1 /\ o =< i + (k - 1)
          BY <3>2, <4>1 DEF One
        <5>2. n =< i + k
          BY SMTT(60), <2>4, <5>1
        <5> QED
          BY <4>1, <5>2
      <4>2. CASE r # p
        <5>1. n =< o + 0 /\ o =< i + 0
          BY <3>2, <4>2 DEF One
        <5>2. n =< i + 0
          BY SMTT(60), <5>1
        <5> QED
          BY <4>2, <5>2
      <4> QED
        BY <4>1, <4>2
    <3> QED
      BY <3>1, <3>3
  <2>12. Marked(bk, p, s, k, nx)
    BY <2>9, <2>10, <2>11 DEF Marked
  <2> HIDE DEF X
  <2>13. nx \in Y[k]
    BY <2>3, <2>4, <2>12
  <2> QED
    BY <2>1, <2>2, <2>13
<1>6. AllInFlight(bk, p, s) \in X /\ AllInFlight(bk, p, s) \in Y[Len(s)]
  <2> HIDE DEF X, Y
  <2> QED
    BY <1>1, <1>2, <1>4, <1>5, AllInFlightLoop
<1> QED
  BY SMTT(60), <1>0, <1>6

\* A queue of entries names as many blocks as it has entries.
LEMMA OnceCounts ==
    ASSUME NEW q \in Seq(Queued), Once(q)
    PROVE  Cardinality({x.hash : x \in Range(q)}) = Len(q)
<1> DEFINE S == {x.hash : x \in Range(q)}
           f == [k \in 1 .. Len(q) |-> q[k].hash]
<1>1. Len(q) \in Nat /\ DOMAIN q = 1 .. Len(q)
  BY SMTT(60)
<1>2. S = {q[k].hash : k \in 1 .. Len(q)}
  BY <1>1 DEF Range
<1>3. \A k \in 1 .. Len(q) : f[k] \in S
  BY <1>2
<1>4. f \in Bijection(1 .. Len(q), S)
  <2>1. f \in [1 .. Len(q) -> S]
    BY <1>3
  <2>2. \A k, l \in 1 .. Len(q) : f[k] = f[l] => k = l
    BY <1>1 DEF Once
  <2>3. \A y \in S : \E k \in 1 .. Len(q) : f[k] = y
    BY <1>2
  <2> HIDE DEF f, S
  <2> QED
    BY <2>1, <2>2, <2>3 DEF Bijection, Injection, Surjection, IsInjective
<1> HIDE DEF f, S
<1>5. Cardinality(S) = Len(q)
  BY <1>1, <1>4, FS_CountingElements DEF ExistsBijection
<1> QED
  BY <1>5 DEF S

\* No more blocks are in flight from a peer than a peer may be asked for.
Limit(bk) == \A p \in Peers : bk.node[p] # None => bk.node[p].nBlocksInFlight =< MAX_BLOCKS_IN_TRANSIT_PER_PEER

\* EveryFlightAsked, of books bk and requests a.
Covered(bk, a) ==
    \A b \in Blocks : bk.mapBlocksInFlight[b] # None =>
        LET p == bk.mapBlocksInFlight[b]
        IN  <<b, "block">> \in a[p] \/ (<<b, "txn">> \in a[p] /\ HasPartial(bk, p, b))

\* The inductive invariant.
IInv == TypeOK /\ Sound(books) /\ Limit(books) /\ Covered(books, asked)

\* The inductive invariant implies the three properties.
LEMMA IInvImplies ==
    ASSUME IInv PROVE InFlightConsistent /\ EveryFlightAsked /\ StallerOwes
<1>1. TypeOK /\ Sound(books) /\ Limit(books) /\ Covered(books, asked)
  BY DEF IInv
<1>2. EveryFlightAsked
  BY <1>1 DEF Covered, EveryFlightAsked
<1>3. StallerOwes
  BY <1>1 DEF Sound, Fine, StallerOwes, info
<1>4. ASSUME NEW b \in Blocks, NEW p \in Peers
      PROVE  books.mapBlocksInFlight[b] = p <=>
                info(p) # None /\ \E q \in Range(info(p).vBlocksInFlight) : q.hash = b
  BY SMTT(60), <1>1 DEF Sound, InQueue, Range, info
<1>5. ASSUME NEW p \in Peers, info(p) # None
      PROVE  /\ info(p).nBlocksInFlight = Len(info(p).vBlocksInFlight)
             /\ Cardinality({q.hash : q \in Range(info(p).vBlocksInFlight)}) = info(p).nBlocksInFlight
             /\ info(p).nBlocksInFlight <= MAX_BLOCKS_IN_TRANSIT_PER_PEER
  <2>1. PICK i : i = books.node[p] /\ i # None
    BY <1>5 DEF info
  <2>2. Fine(i) /\ i.vBlocksInFlight \in Seq(Queued)
    BY <1>1, <2>1, EntryTypes
  <2>3. Cardinality({q.hash : q \in Range(i.vBlocksInFlight)}) = Len(i.vBlocksInFlight)
    BY <2>2, OnceCounts DEF Fine
  <2>4. i.nBlocksInFlight = Len(i.vBlocksInFlight) /\ i.nBlocksInFlight <= MAX_BLOCKS_IN_TRANSIT_PER_PEER
    BY <1>1, <2>1, <2>2 DEF Fine, Limit
  <2> QED
    BY <2>1, <2>3, <2>4 DEF info
<1>6. /\ books.nPeersWithValidatedDownloads
            = Cardinality({p \in Peers : info(p) # None /\ info(p).nBlocksInFlight > 0})
      /\ books.nPreferredDownload
            = Cardinality({p \in Peers : info(p) # None /\ info(p).fPreferredDownload})
  BY <1>1 DEF Sound, Downloading, PreferredOnes, info
<1> QED
  BY <1>1, <1>2, <1>3, <1>4, <1>5, <1>6 DEF InFlightConsistent

\* It holds when the node starts.
LEMMA InitIInv ==
    ASSUME Init PROVE IInv
<1>1. /\ books.node = [p \in Peers |-> None] /\ books.mapBlocksInFlight = [b \in Blocks |-> None]
      /\ books.nPeersWithValidatedDownloads = 0 /\ books.nPreferredDownload = 0
  BY DEF Init
<1>2. books \in Books
  BY DEF Init, Books
<1>3. TypeOK
  BY <1>2, TreeAssumption DEF Init, TypeOK
<1>4. \A p \in Peers : books.node[p] = None
  BY <1>1
<1>5. \A b \in Blocks : books.mapBlocksInFlight[b] = None
  BY <1>1
<1>6. Downloading(books.node) = {} /\ PreferredOnes(books.node) = {}
  BY <1>4 DEF Downloading, PreferredOnes
<1>7. Cardinality({}) = 0
  BY FS_EmptySet
<1>8. Sound(books)
  BY <1>1, <1>2, <1>4, <1>5, <1>6, <1>7, NoneAssumption DEF Sound
<1>9. Limit(books) /\ Covered(books, asked)
  BY <1>4, <1>5 DEF Limit, Covered
<1> QED
  BY <1>3, <1>8, <1>9 DEF IInv

\* Limits and requests of books that are alike.
LEMMA AlikeLimits ==
    ASSUME NEW bk, Sound(bk), Limit(bk), NEW a, Covered(bk, a), NEW st, Alike(bk, st)
    PROVE  Sound(st) /\ Limit(st) /\ Covered(st, a)
<1>1. Sound(st) /\ Limit(st)
  BY DEF Alike, Limit
<1>2. ASSUME NEW b \in Blocks, st.mapBlocksInFlight[b] # None, NEW p, p = st.mapBlocksInFlight[b]
      PROVE  <<b, "block">> \in a[p] \/ (<<b, "txn">> \in a[p] /\ HasPartial(st, p, b))
  <2>1. bk.mapBlocksInFlight[b] = p /\ p \in Peers /\ bk.node[p] # None
    BY <1>2, OwnerHas DEF Alike
  <2>2. <<b, "block">> \in a[p] \/ (<<b, "txn">> \in a[p] /\ HasPartial(bk, p, b))
    BY <1>2, <2>1 DEF Covered, Alike
  <2> QED
    BY <2>1, <2>2 DEF Alike
<1> QED
  BY <1>1, <1>2 DEF Covered

\* More requests cover what fewer did.
LEMMA CoveredMore ==
    ASSUME NEW bk, Sound(bk), NEW a, Covered(bk, a), NEW c, \A r \in Peers : a[r] \subseteq c[r]
    PROVE  Covered(bk, c)
BY OwnerHas DEF Covered

\* MarkBlockAsReceived: the requests for the block are not needed any more.
LEMMA ReceivedLimits ==
    ASSUME NEW bk, Sound(bk), Limit(bk), NEW a, Covered(bk, a), NEW b \in Blocks,
           NEW c, \A r \in Peers : a[r] \ {<<b, "block">>, <<b, "txn">>} \subseteq c[r]
    PROVE  LET st == MarkBlockAsReceived(bk, b)
           IN  Sound(st) /\ Limit(st) /\ Covered(st, c) /\ Kept(bk, st)
<1>1. PICK st : st = MarkBlockAsReceived(bk, b)
  OBVIOUS
<1>2. /\ Sound(st) /\ Kept(bk, st)
      /\ st.mapBlocksInFlight = [bk.mapBlocksInFlight EXCEPT ![b] = None]
      /\ \A r \in Peers : bk.node[r] # None =>
            /\ st.node[r].nBlocksInFlight =< bk.node[r].nBlocksInFlight
            /\ \A d \in Blocks \ {b} : HasPartial(bk, r, d) => HasPartial(st, r, d)
  BY <1>1, ReceivedSound
<1>3. ASSUME NEW r \in Peers, st.node[r] # None
      PROVE  st.node[r].nBlocksInFlight =< MAX_BLOCKS_IN_TRANSIT_PER_PEER
  <2>1. bk.node[r] # None
    BY <1>2, <1>3 DEF Kept
  <2>2. PICK n \in Nat, o \in Nat : n = st.node[r].nBlocksInFlight /\ o = bk.node[r].nBlocksInFlight
    BY <1>2, <1>3, <2>1, EntryTypes
  <2>3. n =< o /\ o =< MAX_BLOCKS_IN_TRANSIT_PER_PEER
    BY <1>2, <2>1, <2>2 DEF Limit
  <2> QED
    BY SMTT(60), <2>2, <2>3, BoundAssumption
<1>4. ASSUME NEW d \in Blocks, st.mapBlocksInFlight[d] # None, NEW p, p = st.mapBlocksInFlight[d]
      PROVE  <<d, "block">> \in c[p] \/ (<<d, "txn">> \in c[p] /\ HasPartial(st, p, d))
  <2>1. bk.mapBlocksInFlight \in [Blocks -> Peers \cup {None}]
    BY DEF Sound, Books
  <2>2. d # b /\ bk.mapBlocksInFlight[d] = p
    BY <1>2, <1>4, <2>1
  <2>3. p \in Peers /\ bk.node[p] # None
    BY <1>4, <2>2, OwnerHas
  <2>4. <<d, "block">> \in a[p] \/ (<<d, "txn">> \in a[p] /\ HasPartial(bk, p, d))
    BY <1>4, <2>2 DEF Covered
  <2>5. HasPartial(bk, p, d) => HasPartial(st, p, d)
    BY <1>2, <2>2, <2>3
  <2>6. \A w : <<d, w>> \in a[p] => <<d, w>> \in c[p]
    BY <2>2, <2>3
  <2> QED
    BY <2>4, <2>5, <2>6
<1> QED
  BY <1>1, <1>2, <1>3, <1>4 DEF Limit, Covered

\* Blocks marked as in flight and asked for.
LEMMA AskedInFlight ==
    ASSUME NEW bk, Sound(bk), Limit(bk), NEW a \in [Peers -> SUBSET (Blocks \X {"block", "txn"})], Covered(bk, a),
           NEW p \in Peers, bk.node[p] # None, NEW s \in Seq(Blocks),
           bk.node[p].nBlocksInFlight + Len(s) =< MAX_BLOCKS_IN_TRANSIT_PER_PEER
    PROVE  LET st == AllInFlight(bk, p, s)
           IN  /\ Sound(st) /\ Kept(bk, st) /\ Limit(st)
               /\ Covered(st, [a EXCEPT ![p] = @ \cup {<<b, "block">> : b \in Range(s)}])
<1>0. PICK c : c = [a EXCEPT ![p] = @ \cup {<<b, "block">> : b \in Range(s)}]
  OBVIOUS
<1>1. PICK st : st = AllInFlight(bk, p, s)
  OBVIOUS
<1>2. Sound(st) /\ Kept(bk, st) /\ Marked(bk, p, s, Len(s), st)
  BY <1>1, AllInFlightSound
<1>3. ASSUME NEW r \in Peers, st.node[r] # None
      PROVE  st.node[r].nBlocksInFlight =< MAX_BLOCKS_IN_TRANSIT_PER_PEER
  <2>1. bk.node[r] # None
    BY <1>2, <1>3 DEF Kept
  <2>2. PICK n \in Nat, o \in Nat : n = st.node[r].nBlocksInFlight /\ o = bk.node[r].nBlocksInFlight
    BY <1>2, <1>3, <2>1, EntryTypes
  <2>3. n =< o + (IF r = p THEN Len(s) ELSE 0) /\ o =< MAX_BLOCKS_IN_TRANSIT_PER_PEER
    BY <1>2, <2>1, <2>2 DEF Limit, Marked
  <2>4. Len(s) \in Nat
    BY SMTT(60)
  <2>5. CASE r = p
    <3>1. o + Len(s) =< MAX_BLOCKS_IN_TRANSIT_PER_PEER /\ n =< o + Len(s)
      BY <2>2, <2>3, <2>5
    <3> QED
      BY SMTT(60), <2>2, <2>4, <3>1, BoundAssumption
  <2>6. CASE r # p
    BY SMTT(60), <2>2, <2>3, <2>4, <2>6, BoundAssumption
  <2> QED
    BY <2>5, <2>6
<1>4. \A r \in Peers : a[r] \subseteq c[r]
  BY <1>0
<1>5. \A b \in Range(s) : <<b, "block">> \in c[p]
  BY <1>0
<1>6. ASSUME NEW d \in Blocks, st.mapBlocksInFlight[d] # None, NEW r, r = st.mapBlocksInFlight[d]
      PROVE  <<d, "block">> \in c[r] \/ (<<d, "txn">> \in c[r] /\ HasPartial(st, r, d))
  <2>1. CASE \E l \in 1 .. Len(s) : s[l] = d
    <3>1. r = p
      BY <1>2, <1>6, <2>1 DEF Marked
    <3>2. d \in Range(s)
      BY SMTT(60), <2>1 DEF Range
    <3> QED
      BY <1>5, <3>1, <3>2
  <2>2. CASE \A l \in 1 .. Len(s) : s[l] # d
    <3>1. /\ bk.mapBlocksInFlight[d] = r
          /\ \A q \in Peers : bk.node[q] # None /\ HasPartial(bk, q, d) => HasPartial(st, q, d)
      BY <1>2, <1>6, <2>2 DEF Marked
    <3>2. r \in Peers /\ bk.node[r] # None
      BY <1>6, <3>1, OwnerHas
    <3>3. <<d, "block">> \in a[r] \/ (<<d, "txn">> \in a[r] /\ HasPartial(bk, r, d))
      BY <1>6, <3>1 DEF Covered
    <3> QED
      BY <1>4, <3>1, <3>2, <3>3
  <2> QED
    BY <2>1, <2>2
<1> QED
  BY <1>0, <1>1, <1>2, <1>3, <1>6 DEF Limit, Covered

----------------------------------------------------------------------------
(* The handlers *)

\* What TypeOK says of the blocks.
Stored == data \subseteq index /\ index \subseteq Blocks /\ tip \in data

\* ProcessNewBlock.
LEMMA NewBlockStored ==
    ASSUME Stored, NEW b \in Blocks, NEW forced, ProcessNewBlock(b, forced) PROVE Stored'
<1>1. CASE b \in index \/ Parent[b] \in index
  <2>1. /\ index' = index \cup {b}
        /\ data' = IF forced \/ nHeight[b] > nHeight[tip] THEN data \cup {b} ELSE data
        /\ tip' \in BestTips(data')
    BY <1>1 DEF ProcessNewBlock
  <2>2. data' \subseteq index' /\ index' \subseteq Blocks
    BY <2>1 DEF Stored
  <2>3. tip' \in data'
    BY <2>1 DEF BestTips
  <2> QED
    BY <2>2, <2>3 DEF Stored
<1>2. CASE ~(b \in index \/ Parent[b] \in index)
  BY SMTT(60), <1>2 DEF ProcessNewBlock, Stored
<1> QED
  BY <1>1, <1>2

\* The parts of the invariant.
LEMMA IInvParts ==
    /\ IInv => /\ Stored /\ gone \subseteq Peers /\ asked \in [Peers -> SUBSET (Blocks \X {"block", "txn"})]
               /\ Sound(books) /\ Limit(books) /\ Covered(books, asked)
    /\ Stored' /\ gone' \subseteq Peers /\ asked' \in [Peers -> SUBSET (Blocks \X {"block", "txn"})]
          /\ Sound(books') /\ Limit(books') /\ Covered(books', asked') => IInv'
<1>1. Sound(books') => books' \in Books
  BY DEF Sound
<1>2. Sound(books)' = Sound(books') /\ Limit(books)' = Limit(books') /\ Covered(books, asked)' = Covered(books', asked')
  OBVIOUS
<1>3. Stored' /\ gone' \subseteq Peers /\ asked' \in [Peers -> SUBSET (Blocks \X {"block", "txn"})] /\ books' \in Books => TypeOK'
  BY DEF TypeOK, Stored
<1>4. IInv => Stored /\ gone \subseteq Peers /\ asked \in [Peers -> SUBSET (Blocks \X {"block", "txn"})]
  BY DEF IInv, TypeOK, Stored
<1>5. IInv => Sound(books) /\ Limit(books) /\ Covered(books, asked)
  BY DEF IInv
<1>6. TypeOK' /\ Sound(books') /\ Limit(books') /\ Covered(books', asked') => IInv'
  BY <1>2 DEF IInv
<1> QED
  BY <1>1, <1>3, <1>4, <1>5, <1>6

\* InitializeNode and the version message preserve the invariant.
LEMMA ConnectIInv ==
    ASSUME IInv, NEW p \in Peers, Connect(p) PROVE IInv'
<1>1. /\ Stored /\ gone \subseteq Peers /\ asked \in [Peers -> SUBSET (Blocks \X {"block", "txn"})]
      /\ Sound(books) /\ Limit(books) /\ Covered(books, asked)
  BY IInvParts
<1>2. PICK nd, m, v, w :
         /\ books = [node |-> nd, mapBlocksInFlight |-> m, nPeersWithValidatedDownloads |-> v, nPreferredDownload |-> w]
         /\ nd \in [Peers -> NodeInfo \cup {None}] /\ m \in [Blocks -> Peers \cup {None}]
         /\ v \in Nat /\ w \in Nat
  BY <1>1, Shape
<1>3. PICK j : j = [NewInfo EXCEPT !.fPreferredDownload = p \in Preferred]
  OBVIOUS
<1>4. /\ j \in NodeInfo /\ j.vBlocksInFlight = <<>> /\ j.nBlocksInFlight = 0 /\ j.nStallingSince = FALSE
      /\ j.nMisbehavior = 0 /\ j.fPreferredDownload \in BOOLEAN /\ (j.fPreferredDownload <=> p \in Preferred)
  <2>0. PICK f \in BOOLEAN : f <=> p \in Preferred
    OBVIOUS
  <2>1. (p \in Preferred) = f
    BY <2>0
  <2>2. PICK e : e = <<>> /\ e \in Seq([hash : Blocks, partialBlock : BOOLEAN])
    BY EmptySeq
  <2>3. 0 \in 0 .. banscore
    BY SMTT(60), BoundAssumption
  <2>4. j = [pindexBestKnownBlock |-> None, hashLastUnknownBlock |-> None, pindexLastCommonBlock |-> None,
             fPreferredDownload |-> f, nStallingSince |-> FALSE, nBlocksInFlight |-> 0, vBlocksInFlight |-> e,
             nMisbehavior |-> 0, fDisconnect |-> FALSE]
    BY <1>3, <2>1, <2>2 DEF NewInfo
  <2> QED
    BY <2>0, <2>1, <2>2, <2>3, <2>4 DEF NodeInfo
<1>5. PICK st : st = [node |-> [nd EXCEPT ![p] = j], mapBlocksInFlight |-> m, nPeersWithValidatedDownloads |-> v,
                      nPreferredDownload |-> w + IF p \in Preferred THEN 1 ELSE 0]
  OBVIOUS
<1>6. books' = st /\ nd[p] = None
  <2>1. books' = [books EXCEPT !.node[p] = j, !.nPreferredDownload = @ + IF p \in Preferred THEN 1 ELSE 0]
    BY <1>3 DEF Connect
  <2>2. books.node[p] = None
    BY DEF Connect, info
  <2>3. PICK u : u = w + IF p \in Preferred THEN 1 ELSE 0
    OBVIOUS
  <2>4. books' = [node |-> [nd EXCEPT ![p] = j], mapBlocksInFlight |-> m, nPeersWithValidatedDownloads |-> v, nPreferredDownload |-> u]
    BY <1>2, <2>1, <2>3
  <2> QED
    BY <1>2, <1>5, <2>2, <2>3, <2>4
<1>7. /\ st.node = [nd EXCEPT ![p] = j] /\ st.mapBlocksInFlight = m /\ st.nPeersWithValidatedDownloads = v
      /\ st.nPreferredDownload = w + (IF p \in Preferred THEN 1 ELSE 0) /\ st.nPreferredDownload \in Nat
  BY SMTT(60), <1>2, <1>5
<1>8. st.node[p] = j /\ j # None /\ \A r \in Peers \ {p} : st.node[r] = nd[r]
  BY <1>2, <1>4, <1>7, NoneAssumption
<1>9. st \in Books
  <2>1. [nd EXCEPT ![p] = j] \in [Peers -> NodeInfo \cup {None}]
    BY <1>2, <1>4
  <2> QED
    BY <1>2, <1>5, <1>7, <2>1 DEF Books
<1>10. \A b \in Blocks : m[b] # p /\ ~InQueue(j, b)
  BY SMTT(60), <1>1, <1>2, <1>4, <1>6 DEF Sound, InQueue
<1>11. /\ Fine(j)
       /\ \A r \in Peers : nd[r] # None => Fine(nd[r])
       /\ \A b \in Blocks, r \in Peers : m[b] = r <=> nd[r] # None /\ InQueue(nd[r], b)
       /\ v = Cardinality(Downloading(nd)) /\ w = Cardinality(PreferredOnes(nd))
  <2>1. Fine(j)
    BY SMTT(60), <1>4, BoundAssumption DEF Fine, Once
  <2> QED
    BY <1>1, <1>2, <2>1 DEF Sound
<1>12. Downloading(st.node) = Downloading(nd)
  BY SMTT(60), <1>4, <1>6, <1>8 DEF Downloading
<1>13. st.nPreferredDownload = Cardinality(PreferredOnes(st.node))
  <2>1. PICK A, B : A = PreferredOnes(nd) /\ B = PreferredOnes(st.node)
    OBVIOUS
  <2>2. A \ {p} = B \ {p} /\ p \notin A /\ (p \in B <=> p \in Preferred)
    BY <1>4, <1>6, <1>8, <2>1 DEF PreferredOnes
  <2>3. IsFiniteSet(A)
    BY <2>1, SetsFinite
  <2>4. /\ Cardinality(A) \in Nat /\ Cardinality(B) \in Nat
        /\ Cardinality(B) = Cardinality(A) - One(p \in A) + One(p \in B)
    BY <2>2, <2>3, CountChange
  <2> QED
    BY SMTT(60), <1>7, <1>11, <2>1, <2>2, <2>4 DEF One
<1>14. \A b \in Blocks, r \in Peers : m[b] = r <=> st.node[r] # None /\ InQueue(st.node[r], b)
  BY SMTT(60), <1>8, <1>10, <1>11
<1>15. Sound(st)
  BY <1>7, <1>8, <1>9, <1>11, <1>12, <1>13, <1>14 DEF Sound
<1>16. Limit(st)
  BY SMTT(60), <1>1, <1>2, <1>4, <1>8, BoundAssumption DEF Limit
<1>17. Covered(st, asked)
  <2> SUFFICES ASSUME NEW b \in Blocks, m[b] # None
               PROVE  <<b, "block">> \in asked[m[b]] \/ (<<b, "txn">> \in asked[m[b]] /\ HasPartial(st, m[b], b))
    BY <1>7 DEF Covered
  <2>1. <<b, "block">> \in asked[m[b]] \/ (<<b, "txn">> \in asked[m[b]] /\ HasPartial(books, m[b], b))
    BY <1>1, <1>2 DEF Covered
  <2>2. st.node[m[b]] = books.node[m[b]]
    BY <1>2, <1>8, <1>10
  <2> QED
    BY <2>1, <2>2 DEF HasPartial
<1>18. Stored' /\ gone' \subseteq Peers /\ asked' = asked
  BY <1>1 DEF Connect, Stored
<1>19. Sound(books') /\ Limit(books') /\ Covered(books', asked')
  BY <1>6, <1>15, <1>16, <1>17, <1>18
<1> QED
  BY <1>1, <1>18, <1>19, IInvParts

\* FinalizeNode takes the peer's blocks out of mapBlocksInFlight: what is left is in
\* order.
LEMMA FinalizeIInv ==
    ASSUME IInv, NEW p \in Peers, FinalizeNode(p) PROVE IInv'
<1>1. /\ Stored /\ gone \subseteq Peers /\ asked \in [Peers -> SUBSET (Blocks \X {"block", "txn"})]
      /\ Sound(books) /\ Limit(books) /\ Covered(books, asked)
  BY IInvParts
<1>2. PICK nd, m, v, w :
         /\ books = [node |-> nd, mapBlocksInFlight |-> m, nPeersWithValidatedDownloads |-> v, nPreferredDownload |-> w]
         /\ nd \in [Peers -> NodeInfo \cup {None}] /\ m \in [Blocks -> Peers \cup {None}]
         /\ v \in Nat /\ w \in Nat
  BY <1>1, Shape
<1>3. PICK i : i = nd[p] /\ i = books.node[p] /\ i # None
  BY <1>2 DEF FinalizeNode, info
<1>4. i \in NodeInfo /\ Fine(i) /\ i.nBlocksInFlight \in Nat
  BY <1>1, <1>3, EntryTypes
<1>5. /\ \A r \in Peers : nd[r] # None => Fine(nd[r])
      /\ \A b \in Blocks, r \in Peers : m[b] = r <=> nd[r] # None /\ InQueue(nd[r], b)
      /\ v = Cardinality(Downloading(nd)) /\ w = Cardinality(PreferredOnes(nd))
  BY <1>1, <1>2 DEF Sound
<1>6. PICK e : e = [nd EXCEPT ![p] = None]
  OBVIOUS
<1>7. e \in [Peers -> NodeInfo \cup {None}] /\ e[p] = None /\ \A r \in Peers \ {p} : e[r] = nd[r]
  BY <1>2, <1>6
<1>8. PICK g : g = [b \in Blocks |-> IF b \in ErasedWith(p) THEN None ELSE m[b]]
  OBVIOUS
<1>9. /\ g \in [Blocks -> Peers \cup {None}]
      /\ \A b \in Blocks : g[b] = IF m[b] = p THEN None ELSE m[b]
  <2>1. \A b \in Blocks : b \in ErasedWith(p) <=> InQueue(i, b)
    BY <1>3 DEF ErasedWith, InQueue, Range, info
  <2>2. \A b \in Blocks : b \in ErasedWith(p) <=> m[b] = p
    <3>1. \A b \in Blocks : m[b] = p <=> nd[p] # None /\ InQueue(nd[p], b)
      BY <1>5
    <3> QED
      BY <1>3, <2>1, <3>1
  <2> QED
    BY <1>2, <1>8, <2>2
<1>10. PICK x, y : x = v - One(i.nBlocksInFlight # 0) /\ y = w - One(i.fPreferredDownload)
  OBVIOUS
<1>11. x \in Nat /\ x = Cardinality(Downloading(e))
  <2>1. PICK A, B : A = Downloading(nd) /\ B = Downloading(e)
    OBVIOUS
  <2>2. A \ {p} = B \ {p} /\ p \notin B /\ (p \in A <=> i.nBlocksInFlight > 0)
    BY <1>3, <1>7, <2>1 DEF Downloading
  <2>3. IsFiniteSet(A)
    BY <2>1, SetsFinite
  <2>4. /\ Cardinality(A) \in Nat /\ Cardinality(B) \in Nat
        /\ Cardinality(B) = Cardinality(A) - One(p \in A) + One(p \in B)
    BY <2>2, <2>3, CountChange
  <2>5. One(p \in B) = 0 /\ One(p \in A) = One(i.nBlocksInFlight # 0)
    BY SMTT(60), <1>4, <2>2 DEF One
  <2>6. One(p \in A) \in Nat
    BY DEF One
  <2> QED
    BY SMTT(60), <1>5, <1>10, <2>1, <2>4, <2>5, <2>6
<1>12. y \in Nat /\ y = Cardinality(PreferredOnes(e))
  <2>1. PICK A, B : A = PreferredOnes(nd) /\ B = PreferredOnes(e)
    OBVIOUS
  <2>2. A \ {p} = B \ {p} /\ p \notin B /\ (p \in A <=> i.fPreferredDownload)
    BY <1>3, <1>7, <2>1 DEF PreferredOnes
  <2>3. IsFiniteSet(A)
    BY <2>1, SetsFinite
  <2>4. /\ Cardinality(A) \in Nat /\ Cardinality(B) \in Nat
        /\ Cardinality(B) = Cardinality(A) - One(p \in A) + One(p \in B)
    BY <2>2, <2>3, CountChange
  <2>5. One(p \in B) = 0 /\ One(p \in A) = One(i.fPreferredDownload)
    BY <2>2 DEF One
  <2>6. One(p \in A) \in Nat
    BY DEF One
  <2> QED
    BY SMTT(60), <1>5, <1>10, <2>1, <2>4, <2>5, <2>6
<1>13. PICK st : st = [node |-> e, mapBlocksInFlight |-> g, nPeersWithValidatedDownloads |-> x, nPreferredDownload |-> y]
  OBVIOUS
<1>14. books' = st
  BY <1>2, <1>3, <1>6, <1>8, <1>10, <1>13 DEF FinalizeNode, HadDownloads, info
<1>15. st \in Books /\ st.node = e /\ st.mapBlocksInFlight = g /\ st.nPeersWithValidatedDownloads = x /\ st.nPreferredDownload = y
  BY <1>7, <1>9, <1>11, <1>12, <1>13 DEF Books
<1>16. \A b \in Blocks, r \in Peers : g[b] = r <=> e[r] # None /\ InQueue(e[r], b)
  BY SMTT(60), <1>5, <1>7, <1>9, NoneAssumption
<1>17. Sound(st)
  BY SMTT(60), <1>5, <1>7, <1>11, <1>12, <1>15, <1>16 DEF Sound
<1>18. Limit(st)
  BY <1>1, <1>2, <1>7, <1>15 DEF Limit
<1>19. /\ asked' = [asked EXCEPT ![p] = {}] /\ gone' = gone \cup {p} /\ UNCHANGED <<index, data, tip>>
  BY DEF FinalizeNode
<1>20. asked' \in [Peers -> SUBSET (Blocks \X {"block", "txn"})] /\ \A r \in Peers \ {p} : asked'[r] = asked[r]
  BY <1>1, <1>19
<1>21. ASSUME NEW b \in Blocks, g[b] # None, NEW r, r = g[b]
       PROVE  <<b, "block">> \in asked'[r] \/ (<<b, "txn">> \in asked'[r] /\ HasPartial(st, r, b))
  <2>1. m[b] = r /\ r # p /\ r \in Peers
    BY <1>2, <1>9, <1>21
  <2>2. <<b, "block">> \in asked[r] \/ (<<b, "txn">> \in asked[r] /\ HasPartial(books, r, b))
    BY <1>1, <1>2, <1>21, <2>1 DEF Covered
  <2>3. st.node[r] = books.node[r]
    BY <1>2, <1>7, <1>15, <2>1
  <2> QED
    BY <1>20, <2>1, <2>2, <2>3 DEF HasPartial
<1>22. Covered(st, asked')
  BY <1>15, <1>21 DEF Covered
<1>23. Stored' /\ gone' \subseteq Peers
  BY <1>1, <1>19 DEF Stored
<1>24. Sound(books') /\ Limit(books') /\ Covered(books', asked')
  BY <1>14, <1>17, <1>18, <1>22
<1> QED
  BY <1>20, <1>23, <1>24, IInvParts

\* A block message preserves the invariant, asked for or not.
LEMMA BlockIInv ==
    ASSUME IInv, NEW p \in Peers, NEW b \in Blocks, Block(p, b) PROVE IInv'
<1>1. /\ Stored /\ gone \subseteq Peers /\ asked \in [Peers -> SUBSET (Blocks \X {"block", "txn"})]
      /\ Sound(books) /\ Limit(books) /\ Covered(books, asked)
  BY IInvParts
<1>2. /\ asked' = [asked EXCEPT ![p] = @ \ {<<b, "block">>}] /\ books' = MarkBlockAsReceived(books, b)
      /\ ProcessNewBlock(b, books.mapBlocksInFlight[b] # None) /\ gone' = gone
  BY DEF Block
<1>3. Stored'
  BY <1>1, <1>2, NewBlockStored
<1>4. PICK a, c : a = asked /\ c = asked'
  OBVIOUS
<1>5. /\ c \in [Peers -> SUBSET (Blocks \X {"block", "txn"})]
      /\ \A r \in Peers : a[r] \ {<<b, "block">>, <<b, "txn">>} \subseteq c[r]
  BY <1>1, <1>2, <1>4
<1>6. Sound(books') /\ Limit(books') /\ Covered(books', c)
  BY <1>1, <1>2, <1>4, <1>5, ReceivedLimits
<1> QED
  BY <1>1, <1>2, <1>3, <1>4, <1>5, <1>6, IInvParts

\* So does a block of the node's own; it stays in flight from a peer.
LEMMA SubmitIInv ==
    ASSUME IInv, NEW b \in Blocks, SubmitBlock(b) PROVE IInv'
<1>1. /\ Stored /\ gone \subseteq Peers /\ asked \in [Peers -> SUBSET (Blocks \X {"block", "txn"})]
      /\ Sound(books) /\ Limit(books) /\ Covered(books, asked)
  BY IInvParts
<1>2. ProcessNewBlock(b, TRUE) /\ books' = books /\ asked' = asked /\ gone' = gone
  BY DEF SubmitBlock
<1>3. Stored'
  BY <1>1, <1>2, NewBlockStored
<1>4. Sound(books') /\ Limit(books') /\ Covered(books', asked')
  BY <1>1, <1>2
<1> QED
  BY <1>1, <1>2, <1>3, <1>4, IInvParts

\* So does an inv.
LEMMA InvIInv ==
    ASSUME IInv, NEW p \in Peers, NEW b \in Blocks, Inv(p, b) PROVE IInv'
<1>1. /\ Stored /\ gone \subseteq Peers /\ asked \in [Peers -> SUBSET (Blocks \X {"block", "txn"})]
      /\ Sound(books) /\ Limit(books) /\ Covered(books, asked)
  BY IInvParts
<1>2. /\ books' = UpdateBlockAvailability(books, p, b, index) /\ books.node[p] # None
      /\ UNCHANGED <<index, data, tip, asked, gone>>
  BY DEF Inv, Connected, info
<1>3. Alike(books, books') /\ index \in SUBSET Blocks
  <2>1. index \in SUBSET Blocks
    BY <1>1 DEF Stored
  <2> QED
    BY <1>1, <1>2, <2>1, UpdateAlike
<1>4. Sound(books') /\ Limit(books') /\ Covered(books', asked)
  BY <1>1, <1>3, AlikeLimits
<1>5. Stored' /\ gone' \subseteq Peers /\ asked' = asked
  BY <1>1, <1>2 DEF Stored
<1> QED
  BY <1>1, <1>4, <1>5, IInvParts

\* So does the end of a timeout.
LEMMA TimesOutIInv ==
    ASSUME IInv, NEW p \in Peers, SendMessagesTimesOut(p) PROVE IInv'
<1>1. /\ Stored /\ gone \subseteq Peers /\ asked \in [Peers -> SUBSET (Blocks \X {"block", "txn"})]
      /\ Sound(books) /\ Limit(books) /\ Covered(books, asked)
  BY IInvParts
<1>2. /\ books' = [books EXCEPT !.node[p].fDisconnect = TRUE] /\ books.node[p] # None
      /\ UNCHANGED <<index, data, tip, asked, gone>>
  BY DEF SendMessagesTimesOut, Connected, info
<1>3. Alike(books, books')
  BY <1>1, <1>2, FieldsAlike
<1>4. Sound(books') /\ Limit(books') /\ Covered(books', asked)
  BY <1>1, <1>3, AlikeLimits
<1>5. Stored' /\ gone' \subseteq Peers /\ asked' = asked
  BY <1>1, <1>2 DEF Stored
<1> QED
  BY <1>1, <1>4, <1>5, IInvParts

\* The smaller of two numbers.
LEMMA LesserOf ==
    ASSUME NEW a \in Nat, NEW b \in Nat
    PROVE  Min({a, b}) \in Nat /\ Min({a, b}) =< a /\ Min({a, b}) =< b
<1>1. {a, b} \subseteq Nat /\ {a, b} # {}
  OBVIOUS
<1>2. Min({a, b}) \in {a, b} /\ \A x \in {a, b} : Min({a, b}) =< x
  BY <1>1, LeastNat
<1> QED
  BY <1>2

\* The first blocks of a sequence.
LEMMA FirstOf ==
    ASSUME NEW s \in Seq(Blocks), NEW n \in Nat
    PROVE  LET f == SubSeq(s, 1, Min({n, Len(s)})) IN f \in Seq(Blocks) /\ Len(f) =< n /\ Len(f) =< Len(s)
<1>1. Len(s) \in Nat
  BY SMTT(60)
<1>2. PICK k \in Nat : k = Min({n, Len(s)}) /\ k =< n /\ k =< Len(s)
  BY <1>1, LesserOf
<1>3. SubSeq(s, 1, k) \in Seq(Blocks) /\ Len(SubSeq(s, 1, k)) = k
  <2>1. CASE k = 0
    <3>1. SubSeq(s, 1, k) = <<>>
      BY SMTT(60), <2>1
    <3> QED
      BY <2>1, <3>1, EmptySeq
  <2>2. CASE k # 0
    <3>1. \A i \in 1 .. k : s[i] \in Blocks
      BY SMTT(60), <1>1, <1>2
    <3>2. /\ SubSeq(s, 1, k) \in Seq(Blocks)
          /\ Len(SubSeq(s, 1, k)) = IF 1 <= k THEN k - 1 + 1 ELSE 0
      BY SMTT(60), <3>1, SubSeqProperties
    <3> QED
      BY SMTT(60), <2>2, <3>2
  <2> QED
    BY <2>1, <2>2
<1> QED
  BY <1>2, <1>3

\* Missing and DirectFetch name blocks.
LEMMA DirectFetchType ==
    ASSUME NEW bk, NEW b \in Blocks, NEW can PROVE DirectFetch(bk, b, can) \in Seq(Blocks)
<1>1. PICK T : T = {c \in Blocks \ data : bk.mapBlocksInFlight[c] = None}
  OBVIOUS
<1>2. PICK all : all = Within(Path[b], T)
  OBVIOUS
<1>3. all \in Seq(Blocks)
  <2>1. Path[b] \in Seq(Blocks)
    BY Paths
  <2>2. all \in Seq(Blocks \cap T)
    BY <1>2, <2>1, WithinType
  <2>3. Blocks \cap T \subseteq Blocks
    OBVIOUS
  <2> QED
    BY SMTT(60), <2>2, <2>3
<1>4. PICK n \in Nat, most \in Nat : n = Len(all) /\ most = MAX_BLOCKS_IN_TRANSIT_PER_PEER + 1
  BY SMTT(60), <1>3, BoundAssumption
<1>5. Missing(b, bk) = IF n > most THEN SubSeq(all, n - most + 1, n) ELSE all
  BY <1>1, <1>2, <1>4 DEF Missing
<1>6. n > most => SubSeq(all, n - most + 1, n) \in Seq(Blocks)
  BY SMTT(60), <1>3, <1>4
<1>7. Missing(b, bk) \in Seq(Blocks)
  BY <1>3, <1>5, <1>6
<1>8. <<>> \in Seq(Blocks)
  BY EmptySeq
<1> QED
  BY <1>7, <1>8 DEF DirectFetch

\* WithinTransit keeps to the room that is left.
LEMMA WithinTransitFacts ==
    ASSUME NEW bk, NEW p, NEW n \in Nat, n = bk.node[p].nBlocksInFlight, n =< MAX_BLOCKS_IN_TRANSIT_PER_PEER,
           NEW s \in Seq(Blocks)
    PROVE  LET f == WithinTransit(bk, p, s)
           IN  f \in Seq(Blocks) /\ n + Len(f) =< MAX_BLOCKS_IN_TRANSIT_PER_PEER
<1>1. PICK room \in Nat : room = MAX_BLOCKS_IN_TRANSIT_PER_PEER - n
  BY SMTT(60), BoundAssumption
<1>2. WithinTransit(bk, p, s) = IF room <= 0 THEN <<>> ELSE SubSeq(s, 1, Min({room, Len(s)}))
  BY <1>1 DEF WithinTransit
<1>3. <<>> \in Seq(Blocks) /\ Len(<<>>) = 0
  BY EmptySeq
<1>4. PICK f : f = SubSeq(s, 1, Min({room, Len(s)}))
  OBVIOUS
<1>5. f \in Seq(Blocks) /\ Len(f) =< room
  BY <1>4, FirstOf
<1>6. PICK g : g = WithinTransit(bk, p, s)
  OBVIOUS
<1>7. g \in Seq(Blocks) /\ Len(g) =< room /\ Len(g) \in Nat
  <2>1. g = <<>> \/ g = f
    BY <1>2, <1>4, <1>6
  <2>2. <<>> \in Seq(Blocks) /\ Len(<<>>) =< room /\ Len(<<>>) \in Nat
    BY SMTT(60), <1>1, <1>3
  <2>3. f \in Seq(Blocks) /\ Len(f) =< room /\ Len(f) \in Nat
    BY SMTT(60), <1>5
  <2> QED
    BY <2>1, <2>2, <2>3
<1>8. n + Len(g) =< MAX_BLOCKS_IN_TRANSIT_PER_PEER
  BY SMTT(60), <1>1, <1>7, BoundAssumption
<1> QED
  BY <1>6, <1>7, <1>8

\* GetData asks for blocks.
LEMMA GetDataType ==
    ASSUME asked \in [Peers -> SUBSET (Blocks \X {"block", "txn"})], NEW p \in Peers, NEW s \in Seq(Blocks)
    PROVE  GetData(p, s) \in [Peers -> SUBSET (Blocks \X {"block", "txn"})]
<1>1. Range(s) \subseteq Blocks
  BY SMTT(60) DEF Range
<1>2. {<<b, "block">> : b \in Range(s)} \subseteq Blocks \X {"block", "txn"}
  BY SMTT(60), <1>1
<1> QED
  BY <1>2 DEF GetData

\* The second part of the headers handler.
LEMMA HeadersAcceptedSound ==
    ASSUME IInv, NEW p \in Peers, books.node[p] # None, NEW b \in Blocks, NEW idx \in SUBSET Blocks,
           HeadersAccepted(p, b, idx)
    PROVE  /\ asked' \in [Peers -> SUBSET (Blocks \X {"block", "txn"})]
           /\ Sound(books') /\ Limit(books') /\ Covered(books', asked')
<1>1. /\ asked \in [Peers -> SUBSET (Blocks \X {"block", "txn"})]
      /\ Sound(books) /\ Limit(books) /\ Covered(books, asked)
  BY IInvParts
<1>2. PICK can \in BOOLEAN :
         LET bk == UpdateBlockAvailability(books, p, b, idx)
             fetch == WithinTransit(bk, p, DirectFetch(bk, b, can))
         IN  books' = AllInFlight(bk, p, fetch) /\ asked' = GetData(p, fetch)
  BY DEF HeadersAccepted
<1>3. PICK bk : bk = UpdateBlockAvailability(books, p, b, idx)
  OBVIOUS
<1>4. PICK s : s = DirectFetch(bk, b, can)
  OBVIOUS
<1>5. PICK fetch : fetch = WithinTransit(bk, p, s)
  OBVIOUS
<1>6. books' = AllInFlight(bk, p, fetch) /\ asked' = GetData(p, fetch)
  BY <1>2, <1>3, <1>4, <1>5
<1>7. Alike(books, bk)
  BY <1>1, <1>3, UpdateAlike
<1>8. Sound(bk) /\ Limit(bk) /\ Covered(bk, asked) /\ bk.node[p] # None
  BY <1>1, <1>7, AlikeLimits DEF Alike
<1>9. s \in Seq(Blocks)
  BY <1>4, DirectFetchType
<1>10. PICK n \in Nat : n = bk.node[p].nBlocksInFlight /\ n =< MAX_BLOCKS_IN_TRANSIT_PER_PEER
  BY <1>8, EntryTypes DEF Limit
<1>11. fetch \in Seq(Blocks) /\ n + Len(fetch) =< MAX_BLOCKS_IN_TRANSIT_PER_PEER
  BY <1>5, <1>9, <1>10, WithinTransitFacts
<1>12. asked' \in [Peers -> SUBSET (Blocks \X {"block", "txn"})]
  BY <1>1, <1>6, <1>11, GetDataType
<1>13. PICK a : a = asked
  OBVIOUS
<1>14. asked' = [a EXCEPT ![p] = @ \cup {<<c, "block">> : c \in Range(fetch)}]
  BY <1>6, <1>13 DEF GetData
<1>15. Sound(books') /\ Limit(books') /\ Covered(books', asked')
  <2>1. a \in [Peers -> SUBSET (Blocks \X {"block", "txn"})] /\ Covered(bk, a)
    BY <1>1, <1>8, <1>13
  <2>2. bk.node[p].nBlocksInFlight + Len(fetch) =< MAX_BLOCKS_IN_TRANSIT_PER_PEER
    BY <1>10, <1>11
  <2>3. PICK st : st = AllInFlight(bk, p, fetch)
    OBVIOUS
  <2>4. PICK c : c = [a EXCEPT ![p] = @ \cup {<<x, "block">> : x \in Range(fetch)}]
    OBVIOUS
  <2>5. Sound(st) /\ Limit(st) /\ Covered(st, c)
    BY <1>8, <1>11, <2>1, <2>2, <2>3, <2>4, AskedInFlight
  <2>6. books' = st /\ asked' = c
    BY <1>6, <1>14, <2>3, <2>4
  <2> QED
    BY <2>5, <2>6
<1> QED
  BY <1>12, <1>15

\* So does a headers message, with the direct fetch.
LEMMA HeadersIInv ==
    ASSUME IInv, NEW p \in Peers, NEW first \in Blocks, NEW last \in Blocks, Headers(p, first, last) PROVE IInv'
<1>1. /\ Stored /\ gone \subseteq Peers /\ asked \in [Peers -> SUBSET (Blocks \X {"block", "txn"})]
      /\ Sound(books) /\ Limit(books) /\ Covered(books, asked)
  BY IInvParts
<1>2. books.node[p] # None /\ data' = data /\ tip' = tip /\ gone' = gone
  BY DEF Headers, Connected, info
<1>3. CASE Parent[first] \notin index
  <2>1. books' = UpdateBlockAvailability(books, p, last, index) /\ index' = index /\ asked' = asked
    BY <1>3 DEF Headers
  <2>2. index \in SUBSET Blocks
    BY <1>1 DEF Stored
  <2>3. Alike(books, books')
    BY <1>1, <1>2, <2>1, <2>2, UpdateAlike
  <2>4. Sound(books') /\ Limit(books') /\ Covered(books', asked)
    BY <1>1, <2>3, AlikeLimits
  <2>5. Stored'
    BY <1>1, <1>2, <2>1 DEF Stored
  <2> QED
    BY <1>1, <1>2, <2>1, <2>4, <2>5, IInvParts
<1>4. CASE Parent[first] \in index
  <2>1. index' = index \cup (ChainTo[last] \ ChainTo[Parent[first]]) /\ HeadersAccepted(p, last, index')
    BY <1>4 DEF Headers
  <2>2. index' \in SUBSET Blocks
    BY <1>1, <2>1, Chains DEF Stored
  <2>3. /\ asked' \in [Peers -> SUBSET (Blocks \X {"block", "txn"})]
        /\ Sound(books') /\ Limit(books') /\ Covered(books', asked')
    <3>1. PICK idx : idx = index'
      OBVIOUS
    <3> QED
      BY <1>2, <2>1, <2>2, <3>1, HeadersAcceptedSound
  <2>4. Stored'
    BY <1>1, <1>2, <2>1, <2>2 DEF Stored
  <2> QED
    BY <1>1, <1>2, <2>3, <2>4, IInvParts
<1> QED
  BY <1>3, <1>4

\* What the requests a and c say of all blocks but b.
Besides(a, b, c) == \A r \in Peers : a[r] \ {<<b, "block">>, <<b, "txn">>} \subseteq c[r]

\* The block is there.
LEMMA CompletedSound ==
    ASSUME Stored, NEW bk, Sound(bk), Limit(bk), NEW a, Covered(bk, a), NEW b \in Blocks,
           NEW c, Besides(a, b, c), Completed(bk, b)
    PROVE  Stored' /\ Sound(books') /\ Limit(books') /\ Covered(books', c)
<1>1. books' = MarkBlockAsReceived(bk, b) /\ ProcessNewBlock(b, TRUE)
  BY DEF Completed
<1>2. Stored'
  <2>1. PICK f : f = TRUE
    OBVIOUS
  <2>2. ProcessNewBlock(b, f)
    BY <1>1, <2>1
  <2> QED
    BY <2>2, NewBlockStored
<1>3. PICK st : st = MarkBlockAsReceived(bk, b)
  OBVIOUS
<1>4. Sound(st) /\ Limit(st) /\ Covered(st, c)
  BY <1>3, ReceivedLimits DEF Besides
<1> QED
  BY <1>1, <1>2, <1>3, <1>4

\* The block cannot be had from what the peer sent.
LEMMA UnreadableSound ==
    ASSUME NEW bk, Sound(bk), Limit(bk), NEW a, Covered(bk, a), NEW b \in Blocks, NEW c, Besides(a, b, c),
           NEW p \in Peers, bk.node[p] # None, ~bk.node[p].fDisconnect, Unreadable(p, bk, b)
    PROVE  data' = data /\ tip' = tip /\ Sound(books') /\ Limit(books') /\ Covered(books', c)
<1>1. PICK st : st = MarkBlockAsReceived(bk, b)
  OBVIOUS
<1>2. data' = data /\ tip' = tip /\ books' = Misbehaving(st, p)
  BY <1>1 DEF Unreadable
<1>3. Sound(st) /\ Limit(st) /\ Covered(st, c) /\ Kept(bk, st)
  BY <1>1, ReceivedLimits DEF Besides
<1>4. st.node[p] # None /\ ~st.node[p].fDisconnect
  BY <1>3 DEF Kept
<1>5. PICK m : m = Misbehaving(st, p)
  OBVIOUS
<1>6. Alike(st, m)
  BY <1>3, <1>4, <1>5, MisbehavingAlike
<1>7. Sound(m) /\ Limit(m) /\ Covered(m, c)
  BY <1>3, <1>6, AlikeLimits
<1> QED
  BY <1>2, <1>5, <1>7

\* The peer's partial block.
LEMMA PartialSound ==
    ASSUME NEW bk, Sound(bk), Limit(bk), NEW a, Covered(bk, a), NEW p \in Peers, bk.node[p] # None, NEW b \in Blocks,
           \/ bk.mapBlocksInFlight[b] = p
           \/ bk.node[p].nBlocksInFlight < MAX_BLOCKS_IN_TRANSIT_PER_PEER,
           NEW c, \A r \in Peers : a[r] \subseteq c[r], <<b, "block">> \in c[p] \/ <<b, "txn">> \in c[p]
    PROVE  LET st == WithPartial(MarkBlockAsInFlight(bk, p, b, TRUE), p, b)
           IN  Sound(st) /\ Limit(st) /\ Covered(st, c) /\ Kept(bk, st)
<1>1. PICK f \in BOOLEAN : f = TRUE
  OBVIOUS
<1>2. PICK m : m = MarkBlockAsInFlight(bk, p, b, f)
  OBVIOUS
<1>3. /\ Sound(m) /\ Kept(bk, m)
      /\ m.mapBlocksInFlight = [bk.mapBlocksInFlight EXCEPT ![b] = p]
      /\ \A r \in Peers : bk.node[r] # None =>
            /\ m.node[r].nBlocksInFlight =< bk.node[r].nBlocksInFlight + One(r = p)
            /\ \A x \in Blocks \ {b} : HasPartial(bk, r, x) => HasPartial(m, r, x)
  BY SMTT(60), <1>2, InFlightSound
<1>4. Limit(m)
  <2>1. CASE bk.mapBlocksInFlight[b] = p
    <3>1. m = bk
      BY <1>2, <2>1 DEF MarkBlockAsInFlight
    <3> QED
      BY <3>1
  <2>2. CASE bk.node[p].nBlocksInFlight < MAX_BLOCKS_IN_TRANSIT_PER_PEER
    <3>1. SUFFICES ASSUME NEW r \in Peers, m.node[r] # None
                   PROVE  m.node[r].nBlocksInFlight =< MAX_BLOCKS_IN_TRANSIT_PER_PEER
      BY DEF Limit
    <3>2. bk.node[r] # None
      BY <1>3, <3>1 DEF Kept
    <3>3. m.node[r].nBlocksInFlight \in Nat /\ bk.node[r].nBlocksInFlight \in Nat
      BY <1>3, <3>1, <3>2, EntryTypes
    <3>4. bk.node[r].nBlocksInFlight =< MAX_BLOCKS_IN_TRANSIT_PER_PEER
      BY <3>2 DEF Limit
    <3>5. m.node[r].nBlocksInFlight =< bk.node[r].nBlocksInFlight + One(r = p)
      BY <1>3, <3>2
    <3> QED
      BY SMTT(60), <2>2, <3>3, <3>4, <3>5, BoundAssumption DEF One
  <2> QED
    BY <2>1, <2>2
<1>5. PICK st : st = WithPartial(m, p, b)
  OBVIOUS
<1>6. m.node[p] # None /\ m.mapBlocksInFlight[b] = p
  BY SMTT(60), <1>3 DEF Kept, Sound, Books
<1>7. Alike(m, st) /\ Kept(m, st) /\ HasPartial(st, p, b)
  BY <1>3, <1>5, <1>6, WithPartialAlike
<1>8. Sound(st) /\ st.mapBlocksInFlight = m.mapBlocksInFlight
  BY <1>7 DEF Alike
<1>9. Limit(st)
  BY <1>4, <1>7 DEF Alike, Limit
<1>10. Kept(bk, st)
  BY <1>3, <1>7 DEF Kept
<1>11. Covered(st, c)
  <2>1. SUFFICES ASSUME NEW x \in Blocks, NEW r, r = st.mapBlocksInFlight[x], r # None
                 PROVE  <<x, "block">> \in c[r] \/ (<<x, "txn">> \in c[r] /\ HasPartial(st, r, x))
    BY DEF Covered
  <2>2. CASE x = b
    BY <1>6, <1>7, <1>8, <2>1, <2>2
  <2>3. CASE x # b
    <3>1. bk.mapBlocksInFlight[x] = r
      BY SMTT(60), <1>3, <1>8, <2>1, <2>3 DEF Sound, Books
    <3>2. r \in Peers /\ bk.node[r] # None
      BY <2>1, <3>1, OwnerHas
    <3>3. <<x, "block">> \in a[r] \/ (<<x, "txn">> \in a[r] /\ HasPartial(bk, r, x))
      BY <2>1, <3>1 DEF Covered
    <3>4. HasPartial(bk, r, x) => HasPartial(st, r, x)
      <4>1. HasPartial(bk, r, x) => HasPartial(m, r, x)
        BY <1>3, <2>3, <3>2
      <4>2. m.node[r] # None
        BY <1>3, <3>2 DEF Kept
      <4>3. HasPartial(m, r, x) => HasPartial(st, r, x)
        BY <1>7, <3>2, <4>2 DEF Alike
      <4> QED
        BY <4>1, <4>3
    <3> QED
      BY <3>2, <3>3, <3>4
  <2> QED
    BY <2>2, <2>3
<1> QED
  BY <1>1, <1>2, <1>5, <1>8, <1>9, <1>10, <1>11

\* Asking a peer for something about a block.
LEMMA AskType ==
    ASSUME asked \in [Peers -> SUBSET (Blocks \X {"block", "txn"})], NEW p \in Peers, NEW b \in Blocks,
           NEW what \in {"block", "txn"}, NEW a, a = [asked EXCEPT ![p] = @ \cup {<<b, what>>}]
    PROVE  /\ a \in [Peers -> SUBSET (Blocks \X {"block", "txn"})] /\ <<b, what>> \in a[p]
           /\ \A r \in Peers : asked[r] \subseteq a[r]
           /\ Besides(a, b, asked)
<1>1. <<b, what>> \in Blocks \X {"block", "txn"}
  OBVIOUS
<1>2. a \in [Peers -> SUBSET (Blocks \X {"block", "txn"})]
  BY <1>1
<1>3. a[p] = asked[p] \cup {<<b, what>>} /\ \A r \in Peers \ {p} : a[r] = asked[r]
  OBVIOUS
<1>4. \A r \in Peers : a[r] \ {<<b, "block">>, <<b, "txn">>} \subseteq asked[r]
  BY <1>3
<1> QED
  BY <1>2, <1>3, <1>4 DEF Besides

\* The rest of the handler when the block is near the tip.
LEMMA ReconstructSound ==
    ASSUME Stored, asked \in [Peers -> SUBSET (Blocks \X {"block", "txn"})],
           NEW bk, Sound(bk), Limit(bk), Covered(bk, asked), NEW p \in Peers, NEW b \in Blocks,
           bk.node[p] # None, ~bk.node[p].fDisconnect,
           \/ bk.mapBlocksInFlight[b] = p
           \/ bk.node[p].nBlocksInFlight < MAX_BLOCKS_IN_TRANSIT_PER_PEER,
           Reconstruct(p, b, bk)
    PROVE  /\ Stored' /\ asked' \in [Peers -> SUBSET (Blocks \X {"block", "txn"})]
           /\ Sound(books') /\ Limit(books') /\ Covered(books', asked')
<1>1. PICK st : st = WithPartial(MarkBlockAsInFlight(bk, p, b, TRUE), p, b)
  OBVIOUS
<1>2. index' = index \cup {b} /\ data' = data /\ tip' = tip => Stored'
  BY DEF Stored
<1>3. ASSUME NEW what \in {"block", "txn"}, NEW a, a = [asked EXCEPT ![p] = @ \cup {<<b, what>>}]
      PROVE  Sound(st) /\ Limit(st) /\ Covered(st, a) /\ Kept(bk, st)
  <2>1. <<b, what>> \in a[p] /\ \A r \in Peers : asked[r] \subseteq a[r]
    BY <1>3, AskType
  <2>2. <<b, "block">> \in a[p] \/ <<b, "txn">> \in a[p]
    BY <2>1
  <2>3. PICK c : c = asked
    OBVIOUS
  <2>4. Covered(bk, c) /\ \A r \in Peers : c[r] \subseteq a[r]
    BY <2>1, <2>3
  <2> QED
    BY <1>1, <2>2, <2>4, PartialSound
<1>4. PICK w \in {"block", "txn"} : w = "block"
  OBVIOUS
<1>5. PICK full : full = [asked EXCEPT ![p] = @ \cup {<<b, w>>}]
  OBVIOUS
<1>6. Sound(st) /\ Limit(st) /\ Covered(st, full) /\ Kept(bk, st)
  BY <1>3, <1>4, <1>5
<1>7. PICK c : c = asked
  OBVIOUS
<1>8. Besides(full, b, c)
  BY <1>4, <1>5, <1>7, AskType
<1>9. CASE HasPartial(bk, p, b)
  <2>1. books' = bk /\ index' = index \cup {b} /\ data' = data /\ tip' = tip /\ asked' = asked
    BY <1>9 DEF Reconstruct
  <2> QED
    BY <1>2, <2>1
<1>10. CASE ~HasPartial(bk, p, b) /\ Completed(st, b) /\ asked' = asked
  <2>1. Stored' /\ Sound(books') /\ Limit(books') /\ Covered(books', c)
    BY <1>6, <1>8, <1>10, CompletedSound
  <2> QED
    BY <1>7, <1>10, <2>1
<1>11. CASE /\ ~HasPartial(bk, p, b)
            /\ books' = st /\ index' = index \cup {b} /\ data' = data /\ tip' = tip
            /\ \E what \in {"block", "txn"} : Ask(p, b, what)
  <2>1. PICK what \in {"block", "txn"} : Ask(p, b, what)
    BY <1>11
  <2>2. PICK a : a = [asked EXCEPT ![p] = @ \cup {<<b, what>>}]
    OBVIOUS
  <2>3. asked' = a
    BY <2>1, <2>2 DEF Ask
  <2>4. Sound(st) /\ Limit(st) /\ Covered(st, a)
    BY <1>3, <2>2
  <2>5. a \in [Peers -> SUBSET (Blocks \X {"block", "txn"})]
    BY <2>2, AskType
  <2> QED
    BY <1>2, <1>11, <2>3, <2>4, <2>5
<1>12. CASE ~HasPartial(bk, p, b) /\ Unreadable(p, st, b) /\ index' = index \cup {b} /\ asked' = asked
  <2>1. st.node[p] # None /\ ~st.node[p].fDisconnect
    BY <1>6 DEF Kept
  <2>2. data' = data /\ tip' = tip /\ Sound(books') /\ Limit(books') /\ Covered(books', c)
    BY <1>6, <1>8, <1>12, <2>1, UnreadableSound
  <2> QED
    BY <1>2, <1>7, <1>12, <2>2
<1> QED
  BY <1>1, <1>9, <1>10, <1>11, <1>12 DEF Reconstruct

\* So does a compact block, in all of its cases.
LEMMA CompactIInv ==
    ASSUME IInv, NEW p \in Peers, NEW b \in Blocks, CompactBlock(p, b) PROVE IInv'
<1>1. /\ Stored /\ gone \subseteq Peers /\ asked \in [Peers -> SUBSET (Blocks \X {"block", "txn"})]
      /\ Sound(books) /\ Limit(books) /\ Covered(books, asked)
  BY IInvParts
<1>2. books.node[p] # None /\ ~books.node[p].fDisconnect /\ gone' = gone
  BY DEF CompactBlock, Connected, info
<1>3. PICK idx : idx = index \cup {b}
  OBVIOUS
<1>4. PICK bk : bk = UpdateBlockAvailability(books, p, b, idx)
  OBVIOUS
<1>5. idx \in SUBSET Blocks
  BY <1>1, <1>3 DEF Stored
<1>6. Alike(books, bk) /\ Kept(books, bk)
  BY <1>1, <1>2, <1>4, <1>5, UpdateAlike
<1>7. Sound(bk) /\ Limit(bk) /\ Covered(bk, asked) /\ bk.node[p] # None /\ ~bk.node[p].fDisconnect
  BY <1>1, <1>2, <1>6, AlikeLimits DEF Kept
<1>8. \/ /\ books' = bk /\ index' = idx /\ data' = data /\ tip' = tip
         /\ asked' = asked \/ Ask(p, b, "block")
      \/ index' = idx /\ HeadersAccepted(p, b, idx) /\ data' = data /\ tip' = tip
      \/ /\ \/ bk.mapBlocksInFlight[b] = p
            \/ bk.node[p].nBlocksInFlight < MAX_BLOCKS_IN_TRANSIT_PER_PEER
         /\ Reconstruct(p, b, bk)
      \/ Completed(bk, b) /\ asked' = asked
  BY <1>3, <1>4 DEF CompactBlock
<1>9. index' = idx /\ data' = data /\ tip' = tip => Stored'
  BY <1>1, <1>3 DEF Stored
<1>10. CASE /\ books' = bk /\ index' = idx /\ data' = data /\ tip' = tip
            /\ asked' = asked \/ Ask(p, b, "block")
  <2>1. CASE asked' = asked
    BY <1>1, <1>2, <1>7, <1>9, <1>10, <2>1, IInvParts
  <2>2. CASE Ask(p, b, "block")
    <3>1. PICK w \in {"block", "txn"} : w = "block"
      OBVIOUS
    <3>2. PICK a : a = [asked EXCEPT ![p] = @ \cup {<<b, w>>}]
      OBVIOUS
    <3>3. asked' = a
      BY <2>2, <3>1, <3>2 DEF Ask
    <3>4. a \in [Peers -> SUBSET (Blocks \X {"block", "txn"})] /\ \A r \in Peers : asked[r] \subseteq a[r]
      BY <1>1, <3>2, AskType
    <3>5. PICK c : c = asked
      OBVIOUS
    <3>6. Covered(bk, a)
      BY <1>7, <3>4, <3>5, CoveredMore
    <3> QED
      BY <1>1, <1>2, <1>7, <1>9, <1>10, <3>3, <3>4, <3>6, IInvParts
  <2> QED
    BY <1>10, <2>1, <2>2
<1>11. CASE index' = idx /\ HeadersAccepted(p, b, idx) /\ data' = data /\ tip' = tip
  BY <1>1, <1>2, <1>5, <1>9, <1>11, HeadersAcceptedSound, IInvParts
<1>12. CASE /\ \/ bk.mapBlocksInFlight[b] = p
               \/ bk.node[p].nBlocksInFlight < MAX_BLOCKS_IN_TRANSIT_PER_PEER
            /\ Reconstruct(p, b, bk)
  <2>1. /\ Stored' /\ asked' \in [Peers -> SUBSET (Blocks \X {"block", "txn"})]
        /\ Sound(books') /\ Limit(books') /\ Covered(books', asked')
    BY <1>1, <1>7, <1>12, ReconstructSound
  <2> QED
    BY <1>1, <1>2, <2>1, IInvParts
<1>13. CASE Completed(bk, b) /\ asked' = asked
  <2>1. PICK c : c = asked
    OBVIOUS
  <2>2. Covered(bk, c) /\ Besides(c, b, c)
    BY <1>7, <2>1 DEF Besides
  <2>3. Stored' /\ Sound(books') /\ Limit(books') /\ Covered(books', c)
    BY <1>1, <1>7, <1>13, <2>2, CompletedSound
  <2> QED
    BY <1>1, <1>2, <1>13, <2>1, <2>3, IInvParts
<1> QED
  BY <1>8, <1>10, <1>11, <1>12, <1>13

\* So do the transactions of a getblocktxn, wanted or not: a failure falls back to
\* a getdata, and an answer that is not waited for covers nothing.
LEMMA BlockTxnIInv ==
    ASSUME IInv, NEW p \in Peers, NEW b \in Blocks, BlockTxn(p, b) PROVE IInv'
<1>1. /\ Stored /\ gone \subseteq Peers /\ asked \in [Peers -> SUBSET (Blocks \X {"block", "txn"})]
      /\ Sound(books) /\ Limit(books) /\ Covered(books, asked)
  BY IInvParts
<1>2. books.node[p] # None /\ ~books.node[p].fDisconnect /\ gone' = gone
  BY DEF BlockTxn, Connected, info
<1>3. PICK answered : answered = [asked EXCEPT ![p] = @ \ {<<b, "txn">>}]
  OBVIOUS
<1>4. /\ answered \in [Peers -> SUBSET (Blocks \X {"block", "txn"})]
      /\ answered[p] = asked[p] \ {<<b, "txn">>} /\ \A r \in Peers \ {p} : answered[r] = asked[r]
  BY <1>1, <1>3
<1>5. PICK c : c = asked
  OBVIOUS
<1>6. Covered(books, c) /\ Besides(c, b, answered)
  <2>1. \A r \in Peers : c[r] \ {<<b, "block">>, <<b, "txn">>} \subseteq answered[r]
    BY <1>4, <1>5
  <2> QED
    BY <1>1, <1>5, <2>1 DEF Besides
<1>7. PICK bk : bk = books
  OBVIOUS
<1>8. Sound(bk) /\ Limit(bk) /\ Covered(bk, c) /\ bk.node[p] # None /\ ~bk.node[p].fDisconnect
  BY <1>1, <1>2, <1>6, <1>7
<1>9. CASE bk.mapBlocksInFlight[b] = p /\ HasPartial(bk, p, b) /\ Completed(bk, b) /\ asked' = answered
  <2>1. Stored' /\ Sound(books') /\ Limit(books') /\ Covered(books', answered)
    BY <1>1, <1>6, <1>8, <1>9, CompletedSound
  <2> QED
    BY <1>1, <1>2, <1>4, <1>9, <2>1, IInvParts
<1>10. CASE /\ bk.mapBlocksInFlight[b] = p /\ asked' = FallBack(answered, p, b)
            /\ index' = index /\ data' = data /\ tip' = tip /\ books' = books
  <2>1. PICK a : a = FallBack(answered, p, b)
    OBVIOUS
  <2>2. <<b, "block">> \in Blocks \X {"block", "txn"}
    OBVIOUS
  <2>3. a = [answered EXCEPT ![p] = @ \cup {<<b, "block">>}]
    BY <2>1 DEF FallBack
  <2>4. /\ a \in [Peers -> SUBSET (Blocks \X {"block", "txn"})] /\ <<b, "block">> \in a[p]
        /\ \A r \in Peers : answered[r] \subseteq a[r]
    BY <1>4, <2>2, <2>3
  <2>5. Covered(bk, a)
    <3>1. SUFFICES ASSUME NEW x \in Blocks, NEW r, r = bk.mapBlocksInFlight[x], r # None
                   PROVE  <<x, "block">> \in a[r] \/ (<<x, "txn">> \in a[r] /\ HasPartial(bk, r, x))
      BY DEF Covered
    <3>2. CASE x = b
      BY <1>10, <2>4, <3>1, <3>2
    <3>3. CASE x # b
      <4>1. r \in Peers
        BY <1>8, <3>1, OwnerHas
      <4>2. <<x, "block">> \in c[r] \/ (<<x, "txn">> \in c[r] /\ HasPartial(bk, r, x))
        BY <1>8, <3>1 DEF Covered
      <4>3. c[r] \ {<<b, "block">>, <<b, "txn">>} \subseteq answered[r]
        BY <1>6, <4>1 DEF Besides
      <4> QED
        BY <2>4, <3>3, <4>1, <4>2, <4>3
    <3> QED
      BY <3>2, <3>3
  <2>6. Stored'
    BY <1>1, <1>10 DEF Stored
  <2>7. books' = bk /\ asked' = a
    BY <1>7, <1>10, <2>1
  <2> QED
    BY <1>1, <1>2, <1>8, <2>4, <2>5, <2>6, <2>7, IInvParts
<1>11. CASE Unreadable(p, bk, b) /\ asked' = answered /\ index' = index
  <2>1. data' = data /\ tip' = tip /\ Sound(books') /\ Limit(books') /\ Covered(books', answered)
    BY <1>6, <1>8, <1>11, UnreadableSound
  <2>2. Stored'
    BY <1>1, <1>11, <2>1 DEF Stored
  <2> QED
    BY <1>1, <1>2, <1>4, <1>11, <2>1, <2>2, IInvParts
<1>12. CASE /\ ~(bk.mapBlocksInFlight[b] = p /\ HasPartial(bk, p, b)) /\ asked' = answered
            /\ index' = index /\ data' = data /\ tip' = tip /\ books' = books
  <2>1. Covered(bk, answered)
    <3>1. SUFFICES ASSUME NEW x \in Blocks, NEW r, r = bk.mapBlocksInFlight[x], r # None
                   PROVE  <<x, "block">> \in answered[r] \/ (<<x, "txn">> \in answered[r] /\ HasPartial(bk, r, x))
      BY DEF Covered
    <3>2. r \in Peers
      BY <1>8, <3>1, OwnerHas
    <3>3. <<x, "block">> \in c[r] \/ (<<x, "txn">> \in c[r] /\ HasPartial(bk, r, x))
      BY <1>8, <3>1 DEF Covered
    <3>4. CASE x = b /\ r = p
      BY <1>4, <1>5, <1>12, <3>1, <3>3, <3>4
    <3>5. CASE x # b \/ r # p
      BY <1>4, <1>5, <3>2, <3>3, <3>5
    <3> QED
      BY <3>4, <3>5
  <2>2. Stored'
    BY <1>1, <1>12 DEF Stored
  <2>3. books' = bk /\ asked' = answered
    BY <1>7, <1>12
  <2> QED
    BY <1>1, <1>2, <1>4, <1>8, <2>1, <2>2, <2>3, IInvParts
<1> QED
  BY <1>3, <1>7, <1>9, <1>10, <1>11, <1>12 DEF BlockTxn

\* Two chains have a last common block.
LEMMA CommonAncestor ==
    ASSUME NEW a \in Blocks, NEW b \in Blocks PROVE LastCommonAncestor(a, b) \in Blocks
<1>1. PICK C : C = ChainTo[a] \cap ChainTo[b]
  OBVIOUS
<1>2. C \subseteq Blocks /\ C # {} /\ \A d \in C : nHeight[d] =< nHeight[b]
  BY <1>1, Chains
<1>3. PICK h \in [Blocks -> Nat] : h = nHeight
  BY Heights
<1>4. PICK T : T = {h[d] + 1 : d \in C}
  OBVIOUS
<1>5. PICK n \in Nat : n = h[b] + 1
  BY SMTT(60), <1>3
<1>6. T # {}
  BY <1>2, <1>4
<1>7. T \subseteq 1 .. n
  BY SMTT(60), <1>2, <1>3, <1>4, <1>5
<1>8. Max(T) \in T /\ \A t \in T : t =< Max(T)
  BY <1>5, <1>6, <1>7, GreatestNat
<1>9. PICK d \in C : Max(T) = h[d] + 1
  BY <1>4, <1>8
<1>10. \A e \in C : h[e] =< h[d]
  <2>1. SUFFICES ASSUME NEW e \in C PROVE h[e] =< h[d]
    OBVIOUS
  <2>2. h[e] + 1 =< h[d] + 1
    BY <1>4, <1>8, <1>9
  <2> QED
    BY SMTT(60), <1>2, <1>3, <2>2
<1>11. LastCommonAncestor(a, b) \in C
  BY <1>1, <1>3, <1>10 DEF LastCommonAncestor
<1> QED
  BY <1>2, <1>11

----------------------------------------------------------------------------
(* SendMessages *)

\* The blocks of a sequence that are in a set.
LEMMA WithinBlocks ==
    ASSUME NEW s \in Seq(Blocks), NEW T
    PROVE  /\ Within(s, T) \in Seq(Blocks)
           /\ Within(s, T) # <<>> => Head(Within(s, T)) \in Blocks \cap T /\ Within(s, T)[Len(Within(s, T))] \in Blocks
<1>1. PICK w : w = Within(s, T)
  OBVIOUS
<1>2. w \in Seq(Blocks \cap T)
  BY <1>1, WithinType
<1>3. w \in Seq(Blocks)
  <2>1. Blocks \cap T \subseteq Blocks
    OBVIOUS
  <2> QED
    BY SMTT(60), <1>2, <2>1
<1>4. w # <<>> => Head(w) \in Blocks \cap T /\ w[Len(w)] \in Blocks
  <2>1. SUFFICES ASSUME w # <<>> PROVE Head(w) \in Blocks \cap T /\ w[Len(w)] \in Blocks
    OBVIOUS
  <2>2. Len(w) \in Nat /\ Len(w) > 0
    BY SMTT(60), <1>2, <2>1
  <2>3. Head(w) \in Blocks \cap T
    BY SMTT(60), <1>2, <2>1
  <2>4. w[Len(w)] \in Blocks
    BY SMTT(60), <1>3, <2>2
  <2> QED
    BY <2>3, <2>4
<1> QED
  BY <1>1, <1>3, <1>4

\* FetchFrom: blocks for which there is room, or the sender of a block in flight.
LEMMA FetchFacts ==
    ASSUME Sound(books), NEW p \in Peers, NEW walk \in Seq(Blocks), NEW windowEnd, NEW count \in Nat
    PROVE  LET f == FetchFrom(p, walk, windowEnd, count)
           IN  /\ f.blocks \in Seq(Blocks) /\ Len(f.blocks) =< count
               /\ f.staller # None => /\ f.blocks = <<>>
                                      /\ \E x \in Blocks : books.mapBlocksInFlight[x] = f.staller
<1>1. PICK lacking : lacking = Blocks \ (data \cup ChainTo[tip])
  OBVIOUS
<1>2. PICK free : free = Within(walk, {b \in lacking : books.mapBlocksInFlight[b] = None})
  OBVIOUS
<1>3. PICK inWindow : inWindow = Within(free, {b \in lacking : nHeight[b] <= windowEnd})
  OBVIOUS
<1>4. PICK awaited : awaited = Within(walk, {b \in lacking : books.mapBlocksInFlight[b] # None})
  OBVIOUS
<1>5. PICK waitingfor : waitingfor = IF awaited = <<>> THEN None ELSE books.mapBlocksInFlight[Head(awaited)]
  OBVIOUS
<1>6. PICK s : s = SubSeq(inWindow, 1, Min({count, Len(inWindow)}))
  OBVIOUS
<1>7. FetchFrom(p, walk, windowEnd, count)
        = [blocks |-> s, staller |-> IF inWindow = <<>> /\ free # <<>> /\ waitingfor # p THEN waitingfor ELSE None]
  BY <1>1, <1>2, <1>3, <1>4, <1>5, <1>6 DEF FetchFrom
<1>8. free \in Seq(Blocks)
  BY <1>2, WithinBlocks
<1>9. inWindow \in Seq(Blocks)
  BY <1>3, <1>8, WithinBlocks
<1>10. s \in Seq(Blocks) /\ Len(s) =< count /\ Len(s) =< Len(inWindow)
  BY <1>6, <1>9, FirstOf
<1>11. inWindow = <<>> => s = <<>>
  <2>1. SUFFICES ASSUME inWindow = <<>> PROVE s = <<>>
    OBVIOUS
  <2>2. Len(s) \in Nat /\ Len(s) =< 0
    BY SMTT(60), <1>10, <2>1
  <2> QED
    BY SMTT(60), <1>10, <2>2
<1>12. waitingfor # None => \E x \in Blocks : books.mapBlocksInFlight[x] = waitingfor
  <2>1. SUFFICES ASSUME waitingfor # None PROVE \E x \in Blocks : books.mapBlocksInFlight[x] = waitingfor
    OBVIOUS
  <2>2. awaited # <<>> /\ waitingfor = books.mapBlocksInFlight[Head(awaited)]
    BY <1>5, <2>1
  <2>3. Head(awaited) \in Blocks
    BY <1>4, <2>2, WithinBlocks
  <2> QED
    BY <2>2, <2>3
<1> QED
  BY SMTT(60), <1>7, <1>10, <1>11, <1>12

\* What FindNextBlocksToDownload returns.
Result(found, count) ==
    /\ found.common \in Blocks \cup {None}
    /\ found.blocks \in Seq(Blocks) /\ Len(found.blocks) =< count
    /\ found.staller # None => /\ found.blocks = <<>>
                               /\ \E x \in Blocks : books.mapBlocksInFlight[x] = found.staller

\* FindNextBlocksToDownload finds what there is room for, or else a peer that owes
\* a block.
LEMMA FindResult ==
    ASSUME Stored, Sound(books), NEW p \in Peers, NEW i \in NodeInfo, NEW count \in Nat
    PROVE  Result(FindNextBlocksToDownload(p, i, count), count)
<1>1. PICK best \in Blocks \cup {None}, last \in Blocks \cup {None} :
         best = i.pindexBestKnownBlock /\ last = i.pindexLastCommonBlock
  BY DEF NodeInfo
<1>2. PICK guess : guess = IF last # None THEN last ELSE Path[tip][Min({nHeight[best], nHeight[tip]}) + 1]
  OBVIOUS
<1>3. CASE best = None \/ nHeight[best] < nHeight[tip]
  <2>1. FindNextBlocksToDownload(p, i, count) = [common |-> last, blocks |-> <<>>, staller |-> None]
    BY <1>1, <1>3 DEF FindNextBlocksToDownload
  <2>2. <<>> \in Seq(Blocks) /\ Len(<<>>) = 0 /\ 0 =< count
    BY SMTT(60), EmptySeq
  <2> QED
    BY SMTT(60), <1>1, <2>1, <2>2 DEF Result
<1>4. CASE ~(best = None \/ nHeight[best] < nHeight[tip])
  <2>1. best \in Blocks /\ tip \in Blocks
    BY <1>1, <1>4 DEF Stored
  <2>2. PICK high \in Nat : high = nHeight[best]
    BY <2>1, Heights
  <2>3. guess \in Blocks
    <3>1. PICK h \in Nat : h = nHeight[tip]
      BY <2>1, Heights
    <3>2. PICK m \in Nat : m = Min({high, h}) /\ m =< h
      BY LesserOf
    <3>3. Path[tip] \in Seq(Blocks) /\ Len(Path[tip]) = h + 1
      BY <2>1, <3>1, Paths, Heights
    <3>4. Path[tip][m + 1] \in Blocks
      BY SMTT(60), <3>2, <3>3
    <3> QED
      BY <1>1, <1>2, <2>2, <3>1, <3>2, <3>4
  <2>4. PICK common : common = LastCommonAncestor(guess, best)
    OBVIOUS
  <2>5. common \in Blocks
    BY <2>1, <2>3, <2>4, CommonAncestor
  <2>6. PICK from \in Nat : from = nHeight[common]
    BY <2>5, Heights
  <2>7. PICK windowEnd \in Nat : windowEnd = nHeight[common] + BLOCK_DOWNLOAD_WINDOW
    BY SMTT(60), <2>6, BoundAssumption
  <2>8. PICK walk : walk = SubSeq(Path[best], nHeight[common] + 2, Min({nHeight[best], windowEnd + 1}) + 1)
    OBVIOUS
  <2>9. walk \in Seq(Blocks)
    <3>1. PICK m \in Nat : m = Min({high, windowEnd + 1}) /\ m =< high
      BY SMTT(60), LesserOf
    <3>2. Path[best] \in Seq(Blocks) /\ Len(Path[best]) = high + 1
      BY <2>1, <2>2, Paths, Heights
    <3>3. PICK c \in Int, d \in Int : c = from + 2 /\ d = m + 1
      BY SMTT(60)
    <3>4. \A k \in c .. d : Path[best][k] \in Blocks
      BY SMTT(60), <3>1, <3>2, <3>3
    <3>5. SubSeq(Path[best], c, d) \in Seq(Blocks)
      BY <3>4, SubSeqProperties
    <3> QED
      BY <2>2, <2>6, <2>8, <3>1, <3>3, <3>5
  <2>10. PICK fetch : fetch = FetchFrom(p, walk, windowEnd, count)
    OBVIOUS
  <2>11. PICK r : r = [common |-> LastLinked(common, walk), blocks |-> fetch.blocks, staller |-> fetch.staller]
    OBVIOUS
  <2>12. FindNextBlocksToDownload(p, i, count) = r
    <3>1. FoundAfter(p, common, best, count) = r
      BY <2>7, <2>8, <2>10, <2>11 DEF FoundAfter
    <3>2. {FoundAfter(p, c, best, count) : c \in {common}} = {r}
      BY <3>1
    <3>3. FindNextBlocksToDownload(p, i, count) = CHOOSE found \in {FoundAfter(p, c, best, count) : c \in {common}} : TRUE
      BY <1>1, <1>2, <1>4, <2>4 DEF FindNextBlocksToDownload
    <3>4. (CHOOSE found \in {FoundAfter(p, c, best, count) : c \in {common}} : TRUE) \in {r}
      BY <3>2
    <3> QED
      BY <3>3, <3>4
  <2>13. LastLinked(common, walk) \in Blocks
    BY <2>5, <2>9, WithinBlocks DEF LastLinked
  <2>14. /\ fetch.blocks \in Seq(Blocks) /\ Len(fetch.blocks) =< count
         /\ fetch.staller # None => /\ fetch.blocks = <<>>
                                    /\ \E x \in Blocks : books.mapBlocksInFlight[x] = fetch.staller
    BY <2>9, <2>10, FetchFacts
  <2>15. Result(r, count)
    BY <2>11, <2>13, <2>14 DEF Result
  <2> QED
    BY <2>12, <2>15
<1> QED
  BY <1>3, <1>4

\* What is asked for, and the mark on the staller.
LEMMA RequestedSound ==
    ASSUME Sound(books), NEW bk, Alike(books, bk), Limit(bk), Covered(bk, asked),
           asked \in [Peers -> SUBSET (Blocks \X {"block", "txn"})], NEW p \in Peers, bk.node[p] # None,
           NEW count \in Nat, bk.node[p].nBlocksInFlight + count = MAX_BLOCKS_IN_TRANSIT_PER_PEER,
           NEW found, Result(found, count)
    PROVE  LET st == Requested(bk, p, found)
           IN  Sound(st) /\ Limit(st) /\ Covered(st, GetData(p, found.blocks))
<1>0. PICK staller : staller = found.staller
  OBVIOUS
<1>1. PICK common \in Blocks \cup {None}, s \in Seq(Blocks) : common = found.common /\ s = found.blocks
  BY DEF Result
<1>2. Len(s) =< count /\ (staller # None => s = <<>> /\ \E x \in Blocks : books.mapBlocksInFlight[x] = staller)
  BY <1>0, <1>1 DEF Result
<1>3. Sound(bk) /\ bk.mapBlocksInFlight = books.mapBlocksInFlight
  BY DEF Alike
<1>4. PICK c : c = [bk EXCEPT !.node[p].pindexLastCommonBlock = common]
  OBVIOUS
<1>5. Alike(bk, c) /\ Kept(bk, c)
  BY <1>1, <1>3, <1>4, FieldsAlike
<1>6. PICK a : a = asked
  OBVIOUS
<1>7. Covered(bk, a) /\ a \in [Peers -> SUBSET (Blocks \X {"block", "txn"})]
  BY <1>6
<1>8. Sound(c) /\ Limit(c) /\ Covered(c, a)
  BY <1>3, <1>5, <1>7, AlikeLimits
<1>9. c.node[p] # None /\ c.node[p].nBlocksInFlight = bk.node[p].nBlocksInFlight
  BY <1>5 DEF Alike
<1>10. c.node[p].nBlocksInFlight + Len(s) =< MAX_BLOCKS_IN_TRANSIT_PER_PEER
  <2>1. bk.node[p].nBlocksInFlight \in Nat
    BY <1>3, EntryTypes
  <2>2. Len(s) \in Nat
    BY SMTT(60)
  <2> QED
    BY SMTT(60), <1>2, <1>9, <2>1, <2>2, BoundAssumption
<1>11. PICK st : st = AllInFlight(c, p, s)
  OBVIOUS
<1>12. PICK g : g = [a EXCEPT ![p] = @ \cup {<<x, "block">> : x \in Range(s)}]
  OBVIOUS
<1>13. Sound(st) /\ Limit(st) /\ Covered(st, g)
  BY <1>7, <1>8, <1>9, <1>10, <1>11, <1>12, AskedInFlight
<1>14. GetData(p, found.blocks) = g
  BY <1>1, <1>6, <1>12 DEF GetData
<1>15. Requested(bk, p, found) = IF st.node[p].nBlocksInFlight = 0 /\ staller # None
                                 THEN [st EXCEPT !.node[staller].nStallingSince = TRUE] ELSE st
  BY <1>0, <1>1, <1>4, <1>11 DEF Requested
<1>16. CASE staller = None \/ st.node[p].nBlocksInFlight # 0
  BY <1>13, <1>14, <1>15, <1>16
<1>17. CASE staller # None /\ st.node[p].nBlocksInFlight = 0
  <2>1. PICK x \in Blocks : books.mapBlocksInFlight[x] = staller
    BY <1>2, <1>17
  <2>2. st.mapBlocksInFlight[x] = staller
    <3>1. Marked(c, p, s, Len(s), st)
      BY <1>8, <1>9, <1>11, AllInFlightSound
    <3>2. Len(s) = 0
      BY SMTT(60), <1>2, <1>17
    <3>3. \A l \in 1 .. Len(s) : s[l] # x
      BY SMTT(60), <3>2
    <3>4. st.mapBlocksInFlight[x] = c.mapBlocksInFlight[x]
      BY <3>1, <3>3 DEF Marked
    <3> QED
      BY <1>3, <1>5, <2>1, <3>4 DEF Alike
  <2>3. staller \in Peers /\ st.node[staller] # None /\ InQueue(st.node[staller], x)
    BY <1>13, <1>17, <2>2, OwnerHas
  <2>4. st.node[staller].nBlocksInFlight > 0
    <3>1. PICK q \in Seq(Queued) : q = st.node[staller].vBlocksInFlight /\ st.node[staller].nBlocksInFlight = Len(q)
      BY <1>13, <2>3, EntryTypes DEF Fine
    <3>2. DOMAIN q # {}
      BY <2>3, <3>1 DEF InQueue
    <3> QED
      BY SMTT(60), <3>1, <3>2
  <2>5. PICK t : t = [st EXCEPT !.node[staller].nStallingSince = TRUE]
    OBVIOUS
  <2>6. Alike(st, t)
    BY <1>13, <2>3, <2>4, <2>5, FieldsAlike
  <2>7. Sound(t) /\ Limit(t) /\ Covered(t, g)
    BY <1>13, <2>6, AlikeLimits
  <2> QED
    BY <1>14, <1>15, <1>17, <2>5, <2>7
<1> QED
  BY <1>16, <1>17

\* SendMessages preserves the invariant.
LEMMA SendIInv ==
    ASSUME IInv, NEW p \in Peers, SendMessages(p) PROVE IInv'
<1>1. /\ Stored /\ gone \subseteq Peers /\ asked \in [Peers -> SUBSET (Blocks \X {"block", "txn"})]
      /\ Sound(books) /\ Limit(books) /\ Covered(books, asked)
  BY IInvParts
<1>2. /\ books.node[p] # None /\ books.node[p].nBlocksInFlight < MAX_BLOCKS_IN_TRANSIT_PER_PEER
      /\ index' = index /\ data' = data /\ tip' = tip /\ gone' = gone
  BY DEF SendMessages, Connected, info
<1>3. PICK n \in Nat : n = books.node[p].nBlocksInFlight
  BY <1>1, <1>2, EntryTypes
<1>4. PICK count \in Nat : count = MAX_BLOCKS_IN_TRANSIT_PER_PEER - n /\ n + count = MAX_BLOCKS_IN_TRANSIT_PER_PEER
  <2>1. PICK m \in Nat : m = MAX_BLOCKS_IN_TRANSIT_PER_PEER /\ n < m
    BY <1>2, <1>3, BoundAssumption
  <2>2. m - n \in Nat /\ n + (m - n) = m
    BY SMTT(60), <2>1
  <2> QED
    BY <2>1, <2>2
<1>5. PICK bk : bk = ProcessBlockAvailability(books, p, index)
  OBVIOUS
<1>6. PICK found : found = FindNextBlocksToDownload(p, bk.node[p], count)
  OBVIOUS
<1>7. books' = Requested(bk, p, found) /\ asked' = GetData(p, found.blocks)
  BY <1>3, <1>4, <1>5, <1>6 DEF SendMessages, info
<1>8. Alike(books, bk) /\ Kept(books, bk)
  <2>1. PICK idx \in SUBSET Blocks : idx = index
    BY <1>1 DEF Stored
  <2> QED
    BY <1>1, <1>2, <1>5, <2>1, ProcessAlike
<1>9. Sound(bk) /\ Limit(bk) /\ Covered(bk, asked)
  BY <1>1, <1>8, AlikeLimits
<1>10. bk.node[p] # None /\ bk.node[p].nBlocksInFlight = n
  BY <1>2, <1>3, <1>8 DEF Alike
<1>11. PICK i \in NodeInfo : i = bk.node[p]
  BY <1>9, <1>10, EntryTypes
<1>12. Result(found, count)
  BY <1>1, <1>6, <1>11, FindResult
<1>13. PICK st : st = Requested(bk, p, found)
  OBVIOUS
<1>14. bk.node[p].nBlocksInFlight + count = MAX_BLOCKS_IN_TRANSIT_PER_PEER
  BY <1>4, <1>10
<1>15. Sound(st) /\ Limit(st) /\ Covered(st, GetData(p, found.blocks))
  BY <1>1, <1>8, <1>9, <1>10, <1>12, <1>13, <1>14, RequestedSound
<1>16. GetData(p, found.blocks) \in [Peers -> SUBSET (Blocks \X {"block", "txn"})]
  BY <1>1, <1>12, GetDataType DEF Result
<1>17. Stored'
  BY <1>1, <1>2 DEF Stored
<1> QED
  BY <1>1, <1>2, <1>7, <1>13, <1>15, <1>16, <1>17, IInvParts

\* Every step preserves the invariant.
LEMMA NextIInv ==
    ASSUME IInv, [Next]_vars PROVE IInv'
<1>1. CASE \E p \in Peers : Connect(p) \/ SendMessagesTimesOut(p) \/ SendMessages(p) \/ FinalizeNode(p)
  BY <1>1, ConnectIInv, TimesOutIInv, SendIInv, FinalizeIInv
<1>2. ASSUME NEW p \in Peers, Message(p) PROVE IInv'
  BY <1>2, BlockIInv, InvIInv, CompactIInv, BlockTxnIInv, HeadersIInv DEF Message
<1>3. ASSUME NEW p \in Answering, Answers(p) \/ Announces(p) PROVE IInv'
  <2>1. p \in Peers /\ PeerTip[p] \in Blocks
    BY PeerAssumption
  <2>2. Answers(p) => Message(p)
    BY DEF Answers, Message
  <2>3. Announces(p) => Message(p)
    BY <2>1 DEF Announces, Message
  <2> QED
    BY <1>2, <1>3, <2>1, <2>2, <2>3
<1>4. CASE \E b \in Blocks \ {Genesis} : SubmitBlock(b)
  BY <1>4, SubmitIInv
<1>5. CASE UNCHANGED vars
  BY <1>5 DEF vars, IInv, TypeOK
<1> QED
  BY <1>1, <1>2, <1>3, <1>4, <1>5 DEF Next

\* The invariant holds in every reachable state.
LEMMA SpecIInv == Spec => []IInv
  BY InitIInv, NextIInv, PTL DEF Spec

\* For every tree of blocks, every finite set of peers and every limit: mapBlocksInFlight
\* and the queues of the connected peers name each other, no block is in flight twice,
\* no peer has more than MAX_BLOCKS_IN_TRANSIT_PER_PEER of them, and the counters that
\* FinalizeNode asserts to be zero at the end are the numbers of peers they stand for.
THEOREM BooksConsistent == Spec => []InFlightConsistent
<1>1. IInv => InFlightConsistent
  BY IInvImplies
<1> QED
  BY <1>1, SpecIInv, PTL

\* Nothing is in flight that was not asked for: for every entry of mapBlocksInFlight the
\* peer has a getdata to answer, or a getblocktxn whose answer finds the partial block.
THEOREM EveryFlightIsAsked == Spec => []EveryFlightAsked
<1>1. IInv => EveryFlightAsked
  BY IInvImplies
<1> QED
  BY <1>1, SpecIInv, PTL

\* nStallingSince is set only for a peer that has a block to send, so that the stall
\* timeout of SendMessages never takes a peer that has sent everything.
THEOREM StallersOwe == Spec => []StallerOwes
<1>1. IInv => StallerOwes
  BY IInvImplies
<1> QED
  BY <1>1, SpecIInv, PTL
=============================================================================
