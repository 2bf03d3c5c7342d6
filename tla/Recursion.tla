------------------------------- MODULE Recursion -------------------------------
(***************************************************************************)
(* What the proofs of the other modules need of definitions that recur: of *)
(* FoldLeft, and of functions that are defined by recursion on a number.   *)
(* TLAPS knows such a definition as a CHOOSE and no more; that the chosen  *)
(* function exists is what is proved here, for any step Op and anything    *)
(* that is given to all its steps.  A module that folds makes an instance. *)
(***************************************************************************)
EXTENDS Integers, Sequences, SequencesExt, WellFoundedInduction, TLAPS

CONSTANTS
  Op(_, _, _),  \* the step: what is given, the result so far and an element
  Start(_)      \* what it starts from, which depends on what is given

\* The function by which FoldLeft is defined, and its value for the first k.
Iterates(given, seq, D, f) ==
  f = [s \in SUBSET D |-> IF s = {} THEN Start(given)
                          ELSE LET x == Max(s) IN Op(given, f[s \ {x}], seq[x])]
Iter(given, seq, D) == CHOOSE f : Iterates(given, seq, D, f)
Prefix(given, seq, k) == Iter(given, seq, DOMAIN seq)[1 .. k]

\* Results that no step leaves.
Closed(given, Results, Elements) ==
  /\ Start(given) \in Results
  /\ \A r \in Results, e \in Elements : Op(given, r, e) \in Results

(* Of numbers that there are, one is the least (well-foundedness of <).      *)
THEOREM LeastNumber ==
  ASSUME NEW S \in SUBSET Nat, S # {}
  PROVE  \E x \in S : \A y \in S : x <= y
<1> DEFINE R == OpToRel(<, Nat)
<1>1. \E x \in S : \A y \in S : ~(<<y, x>> \in R)
  <2>1. IsWellFoundedOn(R, Nat)
    BY NatLessThanWellFounded
  <2> HIDE DEF R
  <2> QED  BY <2>1, WFMin
<1>2. \A x, y \in Nat : y < x => <<y, x>> \in R
  BY DEF OpToRel
<1> HIDE DEF R
<1>3. PICK x \in S : \A y \in S : ~(<<y, x>> \in R)
  BY <1>1
<1>4. ASSUME NEW y \in S PROVE x <= y
  <2>1. x \in Nat /\ y \in Nat /\ ~(y < x)
    BY <1>2, <1>3
  <2> QED  BY <2>1
<1> QED  BY <1>4

(* Induction over the natural numbers, for a set instead of a predicate: the *)
(* number before the least one outside the set would be outside too.         *)
THEOREM InductionOverNat ==
  ASSUME NEW S, 0 \in S, \A n \in Nat : n \in S => n + 1 \in S
  PROVE  Nat \subseteq S
<1> SUFFICES ASSUME Nat \ S # {} PROVE FALSE
  OBVIOUS
<1>1. PICK x \in Nat \ S : \A y \in Nat \ S : x <= y
  BY LeastNumber
<1>2. x # 0 /\ x - 1 \in Nat /\ ~(x <= x - 1)
  OBVIOUS
<1>3. x - 1 \in S
  BY <1>1, <1>2
<1> QED  BY <1>2, <1>3

(* The largest of numbers up to k + 1 is k + 1 when it is among them.        *)
LEMMA MaxUpTo == ASSUME NEW k \in Nat, NEW s \in SUBSET (1 .. k+1), k + 1 \in s
  PROVE Max(s) = k + 1
<1>1. k + 1 \in s /\ \A y \in s : k + 1 >= y
  OBVIOUS
<1>2. \A x \in s : (\A y \in s : x >= y) => x = k + 1
  OBVIOUS
<1> QED  BY <1>1, <1>2 DEF Max

(* The function that FoldLeft chooses exists.                                *)
LEMMA IterExists ==
  ASSUME NEW given, NEW E, NEW seq \in Seq(E)
  PROVE  \E f : Iterates(given, seq, DOMAIN seq, f)
<1> DEFINE Rec(f, n) == f = [s \in SUBSET (1 .. n) |-> IF s = {} THEN Start(given)
                                ELSE LET x == Max(s) IN Op(given, f[s \ {x}], seq[x])]
           Good(n) == \E f : Rec(f, n)
           S == {n \in Nat : Good(n)}
<1>1. 0 \in S
  <2> DEFINE f == [s \in {{}} |-> Start(given)]
  <2>1. SUBSET (1 .. 0) = {{}}
    OBVIOUS
  <2>2. Rec(f, 0)
    <3>1. \A s \in SUBSET (1 .. 0) : s = {}
      OBVIOUS
    <3> QED  BY <2>1, <3>1
  <2> HIDE DEF f, Rec
  <2> QED  BY <2>2
<1>2. ASSUME NEW n \in Nat, n \in S PROVE n + 1 \in S
  <2>1. PICK f : Rec(f, n)
    <3> HIDE DEF Rec
    <3> QED  BY <1>2
  <2> DEFINE g == [s \in SUBSET (1 .. n + 1) |->
                     IF n + 1 \in s THEN Op(given, f[s \ {n + 1}], seq[n + 1]) ELSE f[s]]
  <2>2. \A s \in SUBSET (1 .. n + 1) :
          n + 1 \in s => /\ s \ {n + 1} \in SUBSET (1 .. n)
                         /\ n + 1 \notin s \ {n + 1} /\ Max(s) = n + 1
    BY MaxUpTo
  <2>3. \A s \in SUBSET (1 .. n + 1) : n + 1 \notin s => s \in SUBSET (1 .. n)
    OBVIOUS
  <2>4. \A s \in SUBSET (1 .. n) : g[s] = f[s]
    <3> TAKE s \in SUBSET (1 .. n)
    <3>1. n + 1 \notin s /\ s \in SUBSET (1 .. n + 1)
      OBVIOUS
    <3> QED  BY <3>1
  <2>5. ASSUME NEW s \in SUBSET (1 .. n + 1)
        PROVE g[s] = IF s = {} THEN Start(given)
                     ELSE LET x == Max(s) IN Op(given, g[s \ {x}], seq[x])
    <3>1. CASE n + 1 \in s
      <4>1. g[s] = Op(given, f[s \ {n + 1}], seq[n + 1])
        BY <3>1
      <4>2. g[s \ {n + 1}] = f[s \ {n + 1}]
        BY <2>2, <2>4, <3>1
      <4> HIDE DEF g
      <4> QED  BY <3>1, <4>1, <4>2, <2>2
    <3>2. CASE n + 1 \notin s
      <4>1. s \in SUBSET (1 .. n)
        BY <2>3, <3>2
      <4>2. f[s] = IF s = {} THEN Start(given) ELSE LET x == Max(s) IN Op(given, f[s \ {x}], seq[x])
        BY <2>1, <4>1
      <4>3. \A x : s \ {x} \in SUBSET (1 .. n)
        BY <4>1
      <4> HIDE DEF g
      <4> QED  BY <4>1, <4>2, <4>3, <2>4
    <3> QED  BY <3>1, <3>2
  <2>6. Rec(g, n + 1)
    <3> DEFINE Val(s) == IF s = {} THEN Start(given)
                         ELSE LET x == Max(s) IN Op(given, g[s \ {x}], seq[x])
    <3>1. \A s \in SUBSET (1 .. n + 1) : g[s] = Val(s)
       BY <2>5
    <3>2. g = [s \in SUBSET (1 .. n + 1) |-> Val(s)]
       <4>1. g = [s \in SUBSET (1 .. n + 1) |-> g[s]]
          OBVIOUS
       <4> HIDE DEF g, Val
       <4> QED  BY <3>1, <4>1, Zenon
    <3> QED  BY <3>2, Zenon
  <2> HIDE DEF g, Rec
  <2> QED  BY <2>6
<1>3. Len(seq) \in S
  <2> HIDE DEF S
  <2> QED  BY <1>1, <1>2, InductionOverNat
<1>4. DOMAIN seq = 1 .. Len(seq)
  OBVIOUS
<1> HIDE DEF Rec
<1>5. \E f : Rec(f, Len(seq))
  BY <1>3
<1> QED  BY <1>4, <1>5, Zenon DEF Rec, Iterates

-----------------------------------------------------------------------------
Fold(given, seq) == FoldLeft(LAMBDA r, e : Op(given, r, e), Start(given), seq)

(* FoldLeft, unfolded.                                                       *)
LEMMA FoldIsPrefix ==
  ASSUME NEW given, NEW seq
  PROVE  Fold(given, seq) = Iter(given, seq, DOMAIN seq)[DOMAIN seq]
BY DEF Fold, FoldLeft, MapThenFoldSet, Iter, Iterates

(* The chosen function takes the elements from the first to the last.        *)
THEOREM PrefixSteps ==
  ASSUME NEW given, NEW E, NEW seq \in Seq(E)
  PROVE  /\ Prefix(given, seq, 0) = Start(given)
         /\ \A k \in 0 .. Len(seq) - 1 :
              Prefix(given, seq, k + 1) = Op(given, Prefix(given, seq, k), seq[k + 1])
         /\ Fold(given, seq) = Prefix(given, seq, Len(seq))
<1> DEFINE D == DOMAIN seq
           f == Iter(given, seq, D)
           Val(g, s) == IF s = {} THEN Start(given)
                        ELSE LET x == Max(s) IN Op(given, g[s \ {x}], seq[x])
           Rec(g) == g = [s \in SUBSET D |-> Val(g, s)]
<1>1. D = 1 .. Len(seq)
  OBVIOUS
<1>2. \E g : Rec(g)
  <2>1. \E g : Iterates(given, seq, DOMAIN seq, g)
    BY IterExists
  <2> QED  BY <2>1, Zenon DEF Iterates
<1>3. f = CHOOSE g : Rec(g)
  BY Zenon DEF Iter, Iterates
<1>4. f = [s \in SUBSET D |-> Val(f, s)]
  <2>1. Rec(f)
    <3> HIDE DEF Rec, f
    <3> QED  BY <1>2, <1>3, Zenon
  <2> QED  BY <2>1, Zenon
<1> HIDE DEF f
<1>5. \A s \in SUBSET D : f[s] = Val(f, s)
  <2> HIDE DEF Val, D
  <2> QED  BY <1>4
<1>6. f[1 .. 0] = Start(given)
  <2>1. 1 .. 0 = {} /\ {} \in SUBSET D
    OBVIOUS
  <2> QED  BY <2>1, <1>5, Zenon
<1>7. ASSUME NEW k \in 0 .. Len(seq) - 1
      PROVE  f[1 .. k + 1] = Op(given, f[1 .. k], seq[k + 1])
  <2>1. Max(1 .. k + 1) = k + 1
    BY MaxUpTo
  <2>2. 1 .. k + 1 \in SUBSET D /\ 1 .. k + 1 # {} /\ (1 .. k + 1) \ {k + 1} = 1 .. k
    BY <1>1
  <2>3. f[1 .. k + 1] = Op(given, f[(1 .. k + 1) \ {k + 1}], seq[k + 1])
    <3> HIDE DEF D
    <3> QED  BY <1>5, <2>1, <2>2
  <2> QED  BY <2>2, <2>3
<1>8. \A k : Prefix(given, seq, k) = f[1 .. k]
  BY DEF Prefix, f
<1>9. Fold(given, seq) = f[1 .. Len(seq)]
  BY <1>1, FoldIsPrefix DEF f
<1> QED  BY <1>6, <1>7, <1>8, <1>9

(* Folding nothing gives the start.                                          *)
THEOREM FoldEmpty == ASSUME NEW given PROVE Fold(given, <<>>) = Start(given)
<1>1. <<>> \in Seq({}) /\ Len(<<>>) = 0
  OBVIOUS
<1> QED  BY <1>1, PrefixSteps

(* Folding one element more is one step more.                                *)
THEOREM FoldAppend ==
  ASSUME NEW given, NEW E, NEW seq \in Seq(E), NEW e \in E
  PROVE  Fold(given, Append(seq, e)) = Op(given, Fold(given, seq), e)
<1> DEFINE longer == Append(seq, e)
           S == {k \in Nat : k <= Len(seq) => Prefix(given, longer, k) = Prefix(given, seq, k)}
<1>1. /\ longer \in Seq(E) /\ Len(longer) = Len(seq) + 1 /\ longer[Len(seq) + 1] = e
      /\ \A k \in 1 .. Len(seq) : longer[k] = seq[k]
  OBVIOUS
<1> HIDE DEF longer
<1>2. 0 \in S
  BY <1>1, PrefixSteps
<1>3. ASSUME NEW k \in Nat, k \in S PROVE k + 1 \in S
  <2> SUFFICES ASSUME k + 1 <= Len(seq)
               PROVE  Prefix(given, longer, k + 1) = Prefix(given, seq, k + 1)
    OBVIOUS
  <2>1. Prefix(given, longer, k) = Prefix(given, seq, k)
    BY <1>3
  <2>2. k \in 0 .. Len(seq) - 1 /\ k \in 0 .. Len(longer) - 1
    BY <1>1
  <2>3. Prefix(given, longer, k + 1) = Op(given, Prefix(given, longer, k), longer[k + 1])
    BY <1>1, <2>2, PrefixSteps
  <2>4. Prefix(given, seq, k + 1) = Op(given, Prefix(given, seq, k), seq[k + 1])
    BY <2>2, PrefixSteps
  <2>5. longer[k + 1] = seq[k + 1]
    BY <1>1
  <2> QED  BY <2>1, <2>3, <2>4, <2>5
<1>4. Len(seq) \in S
  <2> HIDE DEF S
  <2> QED  BY <1>2, <1>3, InductionOverNat
<1>5. Fold(given, longer) = Op(given, Prefix(given, longer, Len(seq)), e)
  <2>1. Len(seq) \in 0 .. Len(longer) - 1
    BY <1>1
  <2> QED  BY <1>1, <2>1, PrefixSteps
<1>6. Fold(given, seq) = Prefix(given, seq, Len(seq))
  BY PrefixSteps
<1> QED  BY <1>4, <1>5, <1>6 DEF longer

(* What a fold gives is a result when no step leaves the results.            *)
THEOREM FoldTyped ==
  ASSUME NEW given, NEW Results, NEW Elements, Closed(given, Results, Elements),
         NEW seq \in Seq(Elements)
  PROVE  Fold(given, seq) \in Results
<1> DEFINE S == {k \in Nat : k <= Len(seq) => Prefix(given, seq, k) \in Results}
<1>1. 0 \in S
  BY PrefixSteps DEF Closed
<1>2. ASSUME NEW k \in Nat, k \in S PROVE k + 1 \in S
  <2> SUFFICES ASSUME k + 1 <= Len(seq) PROVE Prefix(given, seq, k + 1) \in Results
    OBVIOUS
  <2>1. seq[k + 1] \in Elements /\ k \in 0 .. Len(seq) - 1
    OBVIOUS
  <2>2. Prefix(given, seq, k) \in Results
    BY <1>2
  <2> QED  BY <2>1, <2>2, PrefixSteps DEF Closed
<1>3. Len(seq) \in S
  <2> HIDE DEF S
  <2> QED  BY <1>1, <1>2, InductionOverNat
<1> QED  BY <1>3, PrefixSteps

\* f[k] from f[k - 1], as f[k \in Nat] == IF k = 0 THEN ... ELSE ... f[k - 1] ...
Recursive(given) ==
  CHOOSE f : f = [k \in Nat |-> IF k = 0 THEN Start(given) ELSE Op(given, f[k - 1], k)]

(* A function defined by recursion on a number does what its definition      *)
(* says.                                                                     *)
THEOREM RecursiveSteps ==
  ASSUME NEW given
  PROVE  /\ Recursive(given)[0] = Start(given)
         /\ \A k \in Nat : Recursive(given)[k + 1] = Op(given, Recursive(given)[k], k + 1)
<1> DEFINE Val(f, k) == IF k = 0 THEN Start(given) ELSE Op(given, f[k - 1], k)
           Rec(f) == f = [k \in Nat |-> Val(f, k)]
           UpTo(k) == [i \in 1 .. k |-> i]
           g == [k \in Nat |-> Fold(given, UpTo(k))]
           h == CHOOSE f : Rec(f)
<1>1. /\ UpTo(0) = <<>>
      /\ \A k \in Nat : UpTo(k) \in Seq(Nat) /\ UpTo(k + 1) = Append(UpTo(k), k + 1)
  OBVIOUS
<1>2. Fold(given, UpTo(0)) = Start(given)
  <2> HIDE DEF UpTo
  <2> QED  BY <1>1, FoldEmpty
<1>3. \A k \in Nat : Fold(given, UpTo(k + 1)) = Op(given, Fold(given, UpTo(k)), k + 1)
  <2> HIDE DEF UpTo
  <2> TAKE k \in Nat
  <2>1. k + 1 \in Nat
    OBVIOUS
  <2>3. UpTo(k) \in Seq(Nat) /\ UpTo(k + 1) = Append(UpTo(k), k + 1)
    BY <1>1, Zenon
  <2>2. Fold(given, Append(UpTo(k), k + 1)) = Op(given, Fold(given, UpTo(k)), k + 1)
    BY <2>1, <2>3, FoldAppend
  <2> QED  BY <2>2, <2>3
<1>4. ASSUME NEW k \in Nat PROVE g[k] = Val(g, k)
  <2> HIDE DEF UpTo
  <2>1. CASE k = 0
    BY <1>2, <2>1
  <2>2. CASE k # 0
    <3>1. k - 1 \in Nat /\ (k - 1) + 1 = k
      BY <2>2
    <3>2. Fold(given, UpTo((k - 1) + 1)) = Op(given, Fold(given, UpTo(k - 1)), (k - 1) + 1)
      BY <1>3, <3>1
    <3>3. Fold(given, UpTo(k)) = Op(given, Fold(given, UpTo(k - 1)), k)
      BY <3>1, <3>2
    <3> QED  BY <2>2, <3>1, <3>3
  <2> QED  BY <2>1, <2>2
<1>5. Rec(g)
  <2>1. g = [k \in Nat |-> g[k]]
    OBVIOUS
  <2> HIDE DEF g, Val
  <2> QED  BY <1>4, <2>1, Zenon
<1>6. Rec(h)
  <2> HIDE DEF Rec, g
  <2> QED  BY <1>5, Zenon
<1>7. h = Recursive(given)
  BY DEF Recursive
<1> HIDE DEF h
<1>8. \A k \in Nat : h[k] = Val(h, k)
  <2> HIDE DEF Val
  <2> QED  BY <1>6
<1>9. h[0] = Start(given)
  BY <1>8
<1>10. ASSUME NEW k \in Nat PROVE h[k + 1] = Op(given, h[k], k + 1)
  <2>1. k + 1 \in Nat /\ k + 1 # 0 /\ (k + 1) - 1 = k
    OBVIOUS
  <2>2. h[k + 1] = Op(given, h[(k + 1) - 1], k + 1)
    <3> HIDE DEF Rec
    <3> QED  BY <1>8, <2>1
  <2> QED  BY <2>1, <2>2
<1> QED  BY <1>7, <1>9, <1>10

(* Its values are results when no step leaves the results.                   *)
THEOREM RecursiveTyped ==
  ASSUME NEW given, NEW Results, Closed(given, Results, Nat)
  PROVE  \A k \in Nat : Recursive(given)[k] \in Results
<1> DEFINE S == {k \in Nat : Recursive(given)[k] \in Results}
<1>1. 0 \in S
  BY RecursiveSteps DEF Closed
<1>2. ASSUME NEW k \in Nat, k \in S PROVE k + 1 \in S
  <2>1. k + 1 \in Nat /\ Recursive(given)[k] \in Results
    BY <1>2
  <2> QED  BY <2>1, RecursiveSteps DEF Closed
<1>3. Nat \subseteq S
  <2> HIDE DEF S
  <2> QED  BY <1>1, <1>2, InductionOverNat
<1> QED  BY <1>3
=============================================================================
