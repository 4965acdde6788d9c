------------------------- MODULE MacroProgramProofs -------------------------
(***************************************************************************)
(* Theorems about MacroProgram: its types, and that RunProgram executes    *)
(* what the macros say.  The reference Meaning is a recursive function; a  *)
(* function that satisfies its equation exists because what a macro means  *)
(* depends on points of a lower rank only (fewer repetitions left, a later *)
(* macro, or a later item).  Inductions are by a least counterexample,     *)
(* LeastNat.                                                               *)
(***************************************************************************)
EXTENDS MacroProgram, FiniteSetTheorems, SequenceTheorems, WellFoundedInduction, TLAPS

-----------------------------------------------------------------------------
(***************************************************************************)
(* The constants.                                                          *)
(***************************************************************************)
Last == Cardinality(Macros)

\* The macros are numbered from 1, and the bounds are natural.
LEMMA Constants ==
  /\ Last \in Nat /\ Macros = 1..Last /\ Macros \subseteq Nat
  /\ MaxLen \in Nat /\ MaxRepeats \in Nat
  BY MacroAssumption, FS_CardinalityType DEF Last

\* What an item of a macro is: an operation, and for a leaf a later macro.
LEMMA ItemTypes ==
  ASSUME NEW c \in Codes, NEW m \in Macros
  PROVE  /\ c \in Trees /\ c[m].on \in BOOLEAN
         /\ c[m].items \in Seq(Ops \X Nat)
         /\ Len(c[m].items) \in 0..MaxLen
         /\ \A i \in 1..Len(c[m].items) :
              /\ c[m].items[i][1] \in Ops
              /\ i \in 1..MaxLen /\ i + 1 \in 1..MaxLen + 1
              /\ c[m].items[i][1] \in Leaves =>
                   c[m].items[i][2] \in Macros /\ c[m].items[i][2] > m
<1>1. c \in Trees /\ Len(c[m].items) <= MaxLen
  BY MacroAssumption
<1>2. c[m] \in [on : BOOLEAN, items : Seq(Ops \X Nat)]
  BY <1>1 DEF Trees
<1>3. c[m].items \in Seq(Ops \X Nat) /\ c[m].on \in BOOLEAN
  BY <1>2
<1>4. Len(c[m].items) \in Nat
  BY <1>3, LenProperties
<1>5. \A i \in 1..Len(c[m].items) : c[m].items[i] \in Ops \X Nat
  BY <1>3, ElementOfSeq
<1>6. \A i \in 1..Len(c[m].items) : i \in 1..MaxLen /\ i + 1 \in 1..MaxLen + 1
  BY <1>1, <1>4, Constants
<1> QED
  BY <1>1, <1>3, <1>4, <1>5, <1>6, ForwardAssumption, Constants

\* A set of natural numbers has a least one.
LEMMA LeastNat == 
  ASSUME NEW T, T \subseteq Nat, T # {} 
  PROVE \E x \in T : \A y \in T : x <= y
<1> DEFINE R == {ss \in Nat \X Nat : ss[1] < ss[2]}
<1>1. IsWellFoundedOn(R, Nat)
  BY NatLessThanWellFounded DEF OpToRel
<1>2. PICK x \in T : \A y \in T : ~ (<<y, x>> \in R)
  <2> HIDE DEF R
  <2> QED BY <1>1, WFMin
<1>3. ASSUME NEW y \in T, y < x PROVE FALSE
  <2>1. <<y, x>> \in Nat \X Nat /\ <<y, x>>[1] < <<y, x>>[2]
    BY <1>3
  <2>2. <<y, x>> \in R
    BY <2>1
  <2> QED
    BY <1>2, <2>2
<1> QED
  BY <1>2, <1>3

-----------------------------------------------------------------------------
(***************************************************************************)
(* The rank of a point: what a macro means from there on depends on points *)
(* of a lower rank.                                                        *)
(***************************************************************************)
Length == MaxLen + 1
Rank(x) == x[3].left * (Last * Length) + ((Last - x[1]) * Length + (Length - x[2]))

\* A smaller number of blocks of size k leaves room for one more block.
LEMMA Multiples ==
  ASSUME NEW a \in Nat, NEW b \in Nat, NEW k \in Nat, a < b
  PROVE  a * k \in Nat /\ b * k \in Nat /\ a * k + k <= b * k
<1> DEFINE d == b - a - 1
<1>1. d \in Nat /\ b = (a + 1) + d
  OBVIOUS
<1>2. b * k = a * k + k + d * k
  BY <1>1
<1>3. d * k \in Nat /\ a * k \in Nat
  BY <1>1
<1> QED
  BY <1>2, <1>3

\* The parts of a point, and that its rank is a number.
LEMMA RankType ==
  ASSUME NEW x \in Points
  PROVE  /\ x[1] \in Macros /\ x[2] \in 1..Length /\ x[3] \in States
         /\ x = <<x[1], x[2], x[3]>>
         /\ x[3].left \in 0..MaxRepeats
         /\ (Last - x[1]) * Length + (Length - x[2]) \in 0..(Last * Length - 1)
         /\ Rank(x) \in Nat
<1>1. x[1] \in Macros /\ x[2] \in 1..Length /\ x[3] \in States /\ x = <<x[1], x[2], x[3]>>
  BY DEF Points, Length
<1>2. x[3].left \in 0..MaxRepeats
  BY <1>1 DEF States
<1>3. Length \in Nat /\ Last - x[1] \in Nat /\ Last - x[1] < Last
  BY <1>1, Constants DEF Length
<1>4. (Last - x[1]) * Length \in Nat /\ (Last - x[1]) * Length + Length <= Last * Length
      /\ Last * Length \in Nat
  BY <1>3, Constants, Multiples
<1>5. (Last - x[1]) * Length + (Length - x[2]) \in 0..(Last * Length - 1)
  BY <1>1, <1>3, <1>4
<1>6. x[3].left * (Last * Length) \in Nat
  BY <1>2, <1>4, Constants
<1> QED
  BY <1>1, <1>2, <1>5, <1>6 DEF Rank

\* From an item, the rank falls with every way on: to a later item or a later
\* macro with no more repetitions left, or anywhere with fewer.
LEMMA RankFalls ==
  ASSUME NEW x \in Points, NEW y \in Points,
         \/ y[3].left < x[3].left
         \/ y[3].left <= x[3].left /\ y[1] > x[1]
         \/ y[3].left <= x[3].left /\ y[1] = x[1] /\ y[2] > x[2]
  PROVE  Rank(y) < Rank(x)
<1> DEFINE A == Last * Length
           U(z) == (Last - z[1]) * Length + (Length - z[2])
<1>1. \A z \in {x, y} : /\ z[1] \in 1..Last /\ z[2] \in 1..Length
                        /\ z[3].left \in Nat /\ U(z) \in 0..(A - 1)
                        /\ Rank(z) = z[3].left * A + U(z)
  BY RankType, Constants DEF Rank
<1>2. Length \in Nat /\ A \in Nat
  BY Constants DEF Length
<1>3. \A a \in Nat : a * A \in Nat
  BY <1>2
<1>4. y[3].left * A <= x[3].left * A
  BY <1>1, <1>2, <1>3, Multiples
<1>5. CASE y[3].left < x[3].left
  <2>1. y[3].left * A + A <= x[3].left * A
    BY <1>5, <1>1, <1>2, Multiples
  <2> HIDE DEF A, U
  <2> QED
    BY <2>1, <1>1, <1>2, <1>3
<1>6. CASE y[1] > x[1]
  <2>1. (Last - y[1]) * Length + Length <= (Last - x[1]) * Length
        /\ (Last - y[1]) * Length \in Nat /\ (Last - x[1]) * Length \in Nat
    <3> DEFINE a == Last - y[1]
               b == Last - x[1]
    <3>1. a \in Nat /\ b \in Nat /\ a < b
      BY <1>6, <1>1, Constants
    <3> HIDE DEF a, b
    <3>2. a * Length + Length <= b * Length /\ a * Length \in Nat /\ b * Length \in Nat
      BY <3>1, <1>2, Multiples
    <3> QED
      BY <3>2 DEF a, b
  <2>2. U(y) < U(x)
    BY <2>1, <1>1, <1>2
  <2> HIDE DEF A, U
  <2> QED
    BY <2>2, <1>1, <1>2, <1>3, <1>4
<1>7. CASE y[1] = x[1] /\ y[2] > x[2]
  <2>1. (Last - y[1]) * Length = (Last - x[1]) * Length /\ (Last - x[1]) * Length \in Nat
    <3>1. Last - x[1] \in Nat
      BY <1>1, Constants
    <3>2. \A a \in Nat : a * Length \in Nat
      BY <1>2
    <3> QED
      BY <3>1, <3>2, <1>7
  <2>2. U(y) < U(x)
    BY <2>1, <1>7, <1>1, <1>2
  <2> HIDE DEF A, U
  <2> QED
    BY <2>2, <1>1, <1>2, <1>3, <1>4
<1> QED
  BY <1>5, <1>6, <1>7

-----------------------------------------------------------------------------
(***************************************************************************)
(* One turn of the reference.                                              *)
(***************************************************************************)
\* What a turn T over an item does, for each kind of item.
Unfolds(T, F, c, m, i, s, op, to, t) ==
  /\ op = "jump" => T = Called(F, c, to, t)
  /\ op = "gosub" => T = F[<<m, i + 1, Called(F, c, to, t)>>]
  /\ op = "lost" => T = F[<<m, i + 1, F[<<m, i + 1, t>>]>>]
  /\ op = "stop" => T = t
  /\ op = "stopall" => T = [t EXCEPT !.over = TRUE]
  /\ op = "skip" => T = F[<<m, i + 1, [t EXCEPT !.skip = @ \/ ~s.stale]>>]
  /\ op = "repeat" /\ s.left > 0 =>
       T = F[<<m, IF i = 1 THEN 2 ELSE 1, [t EXCEPT !.left = @ - 1]>>]
  /\ op \in {"inplace", "restored"} /\ c[to].on =>
       T = [Called(F, c, to, [t EXCEPT !.skip = FALSE, !.stale = FALSE])
              EXCEPT !.over = TRUE, !.skip = s.skip, !.stale = s.stale \/ op = "inplace"]
  /\ (\/ op = "plain"
      \/ op = "repeat" /\ ~(s.left > 0)
      \/ op \in {"inplace", "restored"} /\ ~c[to].on) =>
       T = F[<<m, i + 1, [t EXCEPT !.stale = s.stale \/ op = "inplace"]>>]

\* One turn of the reference is the unfolding for the item that is there.
LEMMA TurnIs ==
  ASSUME NEW F, NEW c, NEW m, NEW i, NEW s, ~s.over, ~(i > Len(c[m].items))
  PROVE  Unfolds(Turn(F, c, m, i, s), F, c, m, i, s, c[m].items[i][1], c[m].items[i][2],
                 [s EXCEPT !.log = Append(@, <<m, i>>)])
  BY DEF Turn, Unfolds

\* A turn without an item.
LEMMA NoTurn ==
  ASSUME NEW F, NEW c, NEW m, NEW i, NEW s, s.over \/ i > Len(c[m].items)
  PROVE  Turn(F, c, m, i, s) = s
  BY DEF Turn

\* The result of F from the point y: a state, with no repetitions gained.
Good(F, y) == F[y] \in States /\ F[y].left <= y[3].left

\* The fields of a state of the reference.
LEMMA StateFields ==
  ASSUME NEW s \in States
  PROVE  /\ s.left \in 0..MaxRepeats /\ s.left \in Nat /\ s.over \in BOOLEAN
         /\ s.skip \in BOOLEAN /\ s.stale \in BOOLEAN /\ s.log \in Seq(Places)
  BY Constants DEF States

\* An item that is executed is put down, and nothing else changes.
LEMMA Logged ==
  ASSUME NEW s \in States, NEW p \in Places
  PROVE  /\ [s EXCEPT !.log = Append(@, p)] \in States
         /\ [s EXCEPT !.log = Append(@, p)].left = s.left
<1>1. Append(s.log, p) \in Seq(Places)
  BY StateFields, AppendProperties
<1> QED
  BY <1>1 DEF States

\* The points a turn goes on from, all of a lower rank.
LEMMA Below ==
  ASSUME NEW c \in Codes, NEW m \in Macros, NEW i \in 1..Len(c[m].items), NEW s \in States
  PROVE  /\ <<m, i, s>> \in Points /\ <<m, i>> \in Places
         /\ \A r \in States : r.left <= s.left =>
              /\ <<m, i + 1, r>> \in Points
              /\ Rank(<<m, i + 1, r>>) < Rank(<<m, i, s>>)
         /\ \A to \in Macros, r \in States : to > m /\ r.left <= s.left =>
              /\ <<to, 1, r>> \in Points
              /\ Rank(<<to, 1, r>>) < Rank(<<m, i, s>>)
         /\ \A j \in 1..2, r \in States : r.left < s.left =>
              /\ <<m, j, r>> \in Points
              /\ Rank(<<m, j, r>>) < Rank(<<m, i, s>>)
<1>1. i \in 1..MaxLen /\ i + 1 \in 1..MaxLen + 1 /\ 1 \in 1..MaxLen + 1 /\ 2 \in 1..MaxLen + 1
  BY ItemTypes, Constants
<1>2. <<m, i, s>> \in Points /\ <<m, i>> \in Places
  BY <1>1, Constants DEF Points, Places
<1>3. ASSUME NEW r \in States, r.left <= s.left
      PROVE  <<m, i + 1, r>> \in Points /\ Rank(<<m, i + 1, r>>) < Rank(<<m, i, s>>)
  <2>1. <<m, i + 1, r>> \in Points
    BY <1>1 DEF Points
  <2>2. i + 1 > i
    BY <1>1
  <2> QED
    BY <1>2, <1>3, <2>1, <2>2, RankFalls
<1>4. ASSUME NEW to \in Macros, NEW r \in States, to > m, r.left <= s.left
      PROVE  <<to, 1, r>> \in Points /\ Rank(<<to, 1, r>>) < Rank(<<m, i, s>>)
  <2>1. <<to, 1, r>> \in Points
    BY <1>1 DEF Points
  <2> QED
    BY <1>2, <1>4, <2>1, RankFalls
<1>5. ASSUME NEW j \in 1..2, NEW r \in States, r.left < s.left
      PROVE  <<m, j, r>> \in Points /\ Rank(<<m, j, r>>) < Rank(<<m, i, s>>)
  <2>1. <<m, j, r>> \in Points
    BY <1>1 DEF Points
  <2> QED
    BY <1>2, <1>5, <2>1, RankFalls
<1> QED
  BY <1>2, <1>3, <1>4, <1>5

\* A turn is good when what it goes on with is.
LEMMA TurnGood ==
  ASSUME NEW c \in Codes, NEW F, NEW x \in Points,
         \A y \in Points : Rank(y) < Rank(x) => Good(F, y)
  PROVE  /\ Turn(F, c, x[1], x[2], x[3]) \in States
         /\ Turn(F, c, x[1], x[2], x[3]).left <= x[3].left
<1> DEFINE m == x[1]
           i == x[2]
           s == x[3]
           T == Turn(F, c, m, i, s)
<1>1. m \in Macros /\ i \in 1..Length /\ s \in States /\ x = <<m, i, s>>
  BY RankType
<1> HIDE DEF m, i, s
<1> SUFFICES T \in States /\ T.left <= s.left
  BY DEF m, i, s
<1>2. s.left \in Nat
  BY <1>1, StateFields
<1>3. CASE s.over \/ i > Len(c[m].items)
  BY <1>1, <1>2, <1>3, NoTurn
<1>4. CASE ~(s.over \/ i > Len(c[m].items))
  <2> DEFINE op == c[m].items[i][1]
             to == c[m].items[i][2]
             t == [s EXCEPT !.log = Append(@, <<m, i>>)]
  <2>1. i \in 1..Len(c[m].items)
    BY <1>1, <1>4, ItemTypes DEF Length
  <2>2. t \in States /\ t.left = s.left
    BY <1>1, <2>1, Below, Logged
  <2>3. op \in Ops /\ (op \in Leaves => to \in Macros /\ to > m)
    BY <1>1, <2>1, ItemTypes
  <2>4. ASSUME NEW r \in States, r.left <= s.left
        PROVE  F[<<m, i + 1, r>>] \in States /\ F[<<m, i + 1, r>>].left <= s.left
    <3>1. Good(F, <<m, i + 1, r>>)
      BY <1>1, <2>1, <2>4, Below
    <3> QED
      BY <3>1, <2>4, <1>2, StateFields DEF Good
  <2>5. ASSUME op \in Leaves, NEW r \in States, r.left <= s.left
        PROVE  Called(F, c, to, r) \in States /\ Called(F, c, to, r).left <= s.left
    <3>1. Good(F, <<to, 1, r>>)
      BY <1>1, <2>1, <2>3, <2>5, Below
    <3> QED
      BY <3>1, <2>5, <1>2, StateFields DEF Good, Called
  <2>6. ASSUME NEW j \in 1..2, NEW r \in States, r.left < s.left
        PROVE  F[<<m, j, r>>] \in States /\ F[<<m, j, r>>].left <= s.left
    <3>1. Good(F, <<m, j, r>>)
      BY <1>1, <2>1, <2>6, Below
    <3> QED
      BY <3>1, <2>6, <1>2, StateFields DEF Good
  <2>7. s.stale \in BOOLEAN /\ s.skip \in BOOLEAN /\ (s.stale \/ op = "inplace") \in BOOLEAN
    BY <1>1, StateFields
  <2>u. Unfolds(T, F, c, m, i, s, op, to, t)
    BY <1>4, TurnIs
  <2> HIDE DEF op, to, t, T
  <2>8. CASE op = "jump"
    BY <2>u, <2>2, <2>5, <2>8, <1>2 DEF Leaves, Unfolds
  <2>9. CASE op = "gosub"
    <3>1. Called(F, c, to, t) \in States /\ Called(F, c, to, t).left <= s.left
      BY <2>2, <2>5, <2>9, <1>2 DEF Leaves
    <3>2. T = F[<<m, i + 1, Called(F, c, to, t)>>]
      BY <2>u, <2>9 DEF Unfolds
    <3> QED
      BY <3>1, <3>2, <2>4
  <2>10. CASE op = "lost"
    <3>1. F[<<m, i + 1, t>>] \in States /\ F[<<m, i + 1, t>>].left <= s.left
      BY <2>2, <2>4, <1>2
    <3>2. T = F[<<m, i + 1, F[<<m, i + 1, t>>]>>]
      BY <2>u, <2>10 DEF Unfolds
    <3> QED
      BY <3>1, <3>2, <2>4
  <2>11. CASE op = "stop"
    <3>1. T = t
      BY <2>u, <2>11 DEF Unfolds
    <3> QED
      BY <3>1, <2>2, <1>2
  <2>12. CASE op = "stopall"
    <3>1. T = [t EXCEPT !.over = TRUE]
      BY <2>u, <2>12 DEF Unfolds
    <3>2. [t EXCEPT !.over = TRUE] \in States
      BY <2>2 DEF States
    <3>3. [t EXCEPT !.over = TRUE].left = t.left
      BY <2>2 DEF States
    <3> QED
      BY <3>1, <3>2, <3>3, <2>2, <1>2
  <2>13. CASE op = "skip"
    <3> DEFINE r == [t EXCEPT !.skip = @ \/ ~s.stale]
    <3>1. T = F[<<m, i + 1, r>>]
      BY <2>u, <2>13 DEF Unfolds
    <3>2. r \in States /\ r.left = s.left
      BY <2>2, <2>7 DEF States
    <3> HIDE DEF r
    <3> QED
      BY <3>1, <3>2, <2>4, <1>2
  <2>14. CASE op = "repeat" /\ s.left > 0
    <3> DEFINE r == [t EXCEPT !.left = @ - 1]
               j == IF i = 1 THEN 2 ELSE 1
    <3>1. T = F[<<m, j, r>>]
      BY <2>u, <2>14 DEF Unfolds
    <3>2. r \in States /\ r.left < s.left /\ j \in 1..2
      BY <2>2, <2>14, <1>2, Constants DEF States
    <3> HIDE DEF r, j
    <3> QED
      BY <3>1, <3>2, <2>6
  <2>15. CASE op \in {"inplace", "restored"} /\ c[to].on
    <3> DEFINE r == [t EXCEPT !.skip = FALSE, !.stale = FALSE]
               b == s.stale \/ op = "inplace"
    <3>1. T = [Called(F, c, to, r) EXCEPT !.over = TRUE, !.skip = s.skip, !.stale = b]
      BY <2>u, <2>15 DEF Unfolds
    <3>2. r \in States /\ r.left = s.left /\ b \in BOOLEAN
      BY <2>2, <2>7, Constants DEF States
    <3> HIDE DEF r, b
    <3>3. Called(F, c, to, r) \in States /\ Called(F, c, to, r).left <= s.left
      BY <2>5, <2>15, <3>2, <1>2 DEF Leaves
    <3>4. T \in States /\ T.left = Called(F, c, to, r).left
      BY <3>1, <3>2, <3>3, <2>7, Constants DEF States
    <3> QED
      BY <3>3, <3>4
  <2>16. CASE \/ op = "plain"
              \/ op = "repeat" /\ ~(s.left > 0)
              \/ op \in {"inplace", "restored"} /\ ~c[to].on
    <3> DEFINE b == s.stale \/ op = "inplace"
               r == [t EXCEPT !.stale = b]
    <3>1. T = F[<<m, i + 1, r>>]
      BY <2>u, <2>16 DEF Unfolds
    <3>2. r \in States /\ r.left = s.left
      BY <2>2, <2>7 DEF States
    <3> HIDE DEF r
    <3> QED
      BY <3>1, <3>2, <2>4, <1>2
  <2> QED
    BY <2>3, <2>8, <2>9, <2>10, <2>11, <2>12, <2>13, <2>14, <2>15, <2>16 DEF Ops
<1> QED
  BY <1>3, <1>4

\* A turn is the same when what it goes on with is.
LEMMA TurnDepends ==
  ASSUME NEW c \in Codes, NEW F, NEW G, NEW x \in Points,
         \A y \in Points : Rank(y) < Rank(x) => Good(F, y) /\ G[y] = F[y]
  PROVE  Turn(G, c, x[1], x[2], x[3]) = Turn(F, c, x[1], x[2], x[3])
<1> DEFINE m == x[1]
           i == x[2]
           s == x[3]
           T == Turn(F, c, m, i, s)
           W == Turn(G, c, m, i, s)
<1>1. m \in Macros /\ i \in 1..Length /\ s \in States /\ x = <<m, i, s>>
  BY RankType
<1> HIDE DEF m, i, s
<1> SUFFICES W = T
  BY DEF m, i, s
<1>2. s.left \in Nat
  BY <1>1, StateFields
<1>3. CASE s.over \/ i > Len(c[m].items)
  BY <1>3, NoTurn
<1>4. CASE ~(s.over \/ i > Len(c[m].items))
  <2> DEFINE op == c[m].items[i][1]
             to == c[m].items[i][2]
             t == [s EXCEPT !.log = Append(@, <<m, i>>)]
  <2>1. i \in 1..Len(c[m].items)
    BY <1>1, <1>4, ItemTypes DEF Length
  <2>2. t \in States /\ t.left = s.left
    BY <1>1, <2>1, Below, Logged
  <2>3. op \in Ops /\ (op \in Leaves => to \in Macros /\ to > m)
    BY <1>1, <2>1, ItemTypes
  <2>4. ASSUME NEW r \in States, r.left <= s.left
        PROVE  /\ F[<<m, i + 1, r>>] \in States /\ F[<<m, i + 1, r>>].left <= s.left
               /\ G[<<m, i + 1, r>>] = F[<<m, i + 1, r>>]
    <3>1. Good(F, <<m, i + 1, r>>) /\ G[<<m, i + 1, r>>] = F[<<m, i + 1, r>>]
      BY <1>1, <2>1, <2>4, Below
    <3> QED
      BY <3>1, <2>4, <1>2, StateFields DEF Good
  <2>5. ASSUME op \in Leaves, NEW r \in States, r.left <= s.left
        PROVE  /\ Called(F, c, to, r) \in States /\ Called(F, c, to, r).left <= s.left
               /\ Called(G, c, to, r) = Called(F, c, to, r)
    <3>1. Good(F, <<to, 1, r>>) /\ G[<<to, 1, r>>] = F[<<to, 1, r>>]
      BY <1>1, <2>1, <2>3, <2>5, Below
    <3> QED
      BY <3>1, <2>5, <1>2, StateFields DEF Good, Called
  <2>6. ASSUME NEW j \in 1..2, NEW r \in States, r.left < s.left
        PROVE  G[<<m, j, r>>] = F[<<m, j, r>>]
    BY <1>1, <2>1, <2>6, Below
  <2>7. s.stale \in BOOLEAN /\ s.skip \in BOOLEAN /\ (s.stale \/ op = "inplace") \in BOOLEAN
    BY <1>1, StateFields
  <2>u. Unfolds(T, F, c, m, i, s, op, to, t) /\ Unfolds(W, G, c, m, i, s, op, to, t)
    BY <1>4, TurnIs
  <2> HIDE DEF op, to, t, T, W
  <2>8. CASE op = "jump"
    BY <2>u, <2>2, <2>5, <2>8, <1>2 DEF Leaves, Unfolds
  <2>9. CASE op = "gosub"
    <3>1. Called(F, c, to, t) \in States /\ Called(F, c, to, t).left <= s.left
          /\ Called(G, c, to, t) = Called(F, c, to, t)
      BY <2>2, <2>5, <2>9, <1>2 DEF Leaves
    <3>2. T = F[<<m, i + 1, Called(F, c, to, t)>>] /\ W = G[<<m, i + 1, Called(G, c, to, t)>>]
      BY <2>u, <2>9 DEF Unfolds
    <3> QED
      BY <3>1, <3>2, <2>4
  <2>10. CASE op = "lost"
    <3>1. F[<<m, i + 1, t>>] \in States /\ F[<<m, i + 1, t>>].left <= s.left
          /\ G[<<m, i + 1, t>>] = F[<<m, i + 1, t>>]
      BY <2>2, <2>4, <1>2
    <3>2. T = F[<<m, i + 1, F[<<m, i + 1, t>>]>>] /\ W = G[<<m, i + 1, G[<<m, i + 1, t>>]>>]
      BY <2>u, <2>10 DEF Unfolds
    <3> QED
      BY <3>1, <3>2, <2>4
  <2>11. CASE op \in {"stop", "stopall"}
    BY <2>u, <2>11 DEF Unfolds
  <2>13. CASE op = "skip"
    <3> DEFINE r == [t EXCEPT !.skip = @ \/ ~s.stale]
    <3>1. T = F[<<m, i + 1, r>>] /\ W = G[<<m, i + 1, r>>]
      BY <2>u, <2>13 DEF Unfolds
    <3>2. r \in States /\ r.left = s.left
      BY <2>2, <2>7 DEF States
    <3> HIDE DEF r
    <3> QED
      BY <3>1, <3>2, <2>4, <1>2
  <2>14. CASE op = "repeat" /\ s.left > 0
    <3> DEFINE r == [t EXCEPT !.left = @ - 1]
               j == IF i = 1 THEN 2 ELSE 1
    <3>1. T = F[<<m, j, r>>] /\ W = G[<<m, j, r>>]
      BY <2>u, <2>14 DEF Unfolds
    <3>2. r \in States /\ r.left < s.left /\ j \in 1..2
      BY <2>2, <2>14, <1>2, Constants DEF States
    <3> HIDE DEF r, j
    <3> QED
      BY <3>1, <3>2, <2>6
  <2>15. CASE op \in {"inplace", "restored"} /\ c[to].on
    <3> DEFINE r == [t EXCEPT !.skip = FALSE, !.stale = FALSE]
               b == s.stale \/ op = "inplace"
    <3>1. /\ T = [Called(F, c, to, r) EXCEPT !.over = TRUE, !.skip = s.skip, !.stale = b]
          /\ W = [Called(G, c, to, r) EXCEPT !.over = TRUE, !.skip = s.skip, !.stale = b]
      BY <2>u, <2>15 DEF Unfolds
    <3>2. r \in States /\ r.left = s.left
      BY <2>2, <2>7, Constants DEF States
    <3> HIDE DEF r, b
    <3>3. Called(G, c, to, r) = Called(F, c, to, r)
      BY <2>5, <2>15, <3>2, <1>2 DEF Leaves
    <3> QED
      BY <3>1, <3>3
  <2>16. CASE \/ op = "plain"
              \/ op = "repeat" /\ ~(s.left > 0)
              \/ op \in {"inplace", "restored"} /\ ~c[to].on
    <3> DEFINE b == s.stale \/ op = "inplace"
               r == [t EXCEPT !.stale = b]
    <3>1. T = F[<<m, i + 1, r>>] /\ W = G[<<m, i + 1, r>>]
      BY <2>u, <2>16 DEF Unfolds
    <3>2. r \in States /\ r.left = s.left
      BY <2>2, <2>7 DEF States
    <3> HIDE DEF r
    <3> QED
      BY <3>1, <3>2, <2>4, <1>2
  <2> QED
    BY <2>3, <2>8, <2>9, <2>10, <2>11, <2>13, <2>14, <2>15, <2>16 DEF Ops
<1> QED
  BY <1>3, <1>4

-----------------------------------------------------------------------------
(***************************************************************************)
(* The recursive function exists.                                          *)
(***************************************************************************)
\* F satisfies the equation of Meaning(c) at the points of a rank below n.
Solves(F, c, n) ==
  \A x \in Points : Rank(x) < n => F[x] = Turn(F, c, x[1], x[2], x[3])

\* What a solution gives below its rank is a state without repetitions gained.
LEMMA SolutionsAreGood ==
  ASSUME NEW c \in Codes, NEW F, NEW n \in Nat, Solves(F, c, n)
  PROVE  \A x \in Points : Rank(x) < n => Good(F, x)
<1> DEFINE T == {k \in Nat : \E x \in Points : Rank(x) = k /\ k < n /\ ~Good(F, x)}
<1> SUFFICES ASSUME T # {} PROVE FALSE
  BY RankType
<1>1. PICK k \in T : \A j \in T : k <= j
  BY LeastNat
<1>2. PICK x \in Points : Rank(x) = k /\ k < n /\ ~Good(F, x)
  BY <1>1
<1>3. ASSUME NEW y \in Points, Rank(y) < Rank(x)
      PROVE  Good(F, y)
  <2>1. Rank(y) \in Nat /\ Rank(y) < n /\ Rank(y) < k /\ k \in Nat
    BY <1>1, <1>2, <1>3, RankType
  <2>2. Rank(y) \notin T
    BY <1>1, <2>1
  <2> QED
    BY <2>1, <2>2
<1>4. Turn(F, c, x[1], x[2], x[3]) \in States /\ Turn(F, c, x[1], x[2], x[3]).left <= x[3].left
  BY <1>3, TurnGood
<1>5. F[x] = Turn(F, c, x[1], x[2], x[3])
  BY <1>2 DEF Solves
<1> QED
  BY <1>2, <1>4, <1>5 DEF Good

\* A solution below a rank extends to the next rank.
LEMMA SolutionGrows ==
  ASSUME NEW c \in Codes, NEW n \in Nat, \E F : Solves(F, c, n)
  PROVE  \E G : Solves(G, c, n + 1)
<1>1. PICK F : Solves(F, c, n)
  OBVIOUS
<1> DEFINE G == [x \in Points |-> Turn(F, c, x[1], x[2], x[3])]
<1>2. \A y \in Points : Rank(y) < n => Good(F, y) /\ G[y] = F[y]
  BY <1>1, SolutionsAreGood DEF Solves
<1>3. ASSUME NEW x \in Points, Rank(x) < n + 1
      PROVE  G[x] = Turn(G, c, x[1], x[2], x[3])
  <2>1. \A y \in Points : Rank(y) < Rank(x) => Rank(y) < n
    BY <1>3, RankType
  <2>2. \A y \in Points : Rank(y) < Rank(x) => Good(F, y) /\ G[y] = F[y]
    BY <1>2, <2>1
  <2>3. G[x] = Turn(F, c, x[1], x[2], x[3])
    OBVIOUS
  <2> HIDE DEF G
  <2>4. Turn(G, c, x[1], x[2], x[3]) = Turn(F, c, x[1], x[2], x[3])
    BY <2>2, TurnDepends
  <2> QED
    BY <2>3, <2>4
<1>4. Solves(G, c, n + 1)
  <2> HIDE DEF G
  <2> QED
    BY <1>3 DEF Solves
<1> QED
  BY <1>4

\* So there is one below every rank.
LEMMA SolutionExists ==
  ASSUME NEW c \in Codes, NEW n \in Nat
  PROVE  \E F : Solves(F, c, n)
<1> DEFINE T == {k \in Nat : ~ \E F : Solves(F, c, k)}
<1> SUFFICES ASSUME T # {} PROVE FALSE
  OBVIOUS
<1>1. PICK k \in T : \A j \in T : k <= j
  BY LeastNat
<1>2. \E F : Solves(F, c, 0)
  BY RankType DEF Solves
<1>3. k \in Nat /\ k # 0 /\ ~ \E F : Solves(F, c, k)
  BY <1>1, <1>2
<1>4. k - 1 \in Nat /\ k - 1 \notin T /\ k = (k - 1) + 1
  BY <1>1, <1>3
<1>5. \E F : Solves(F, c, k - 1)
  BY <1>4
<1> QED
  BY <1>3, <1>4, <1>5, SolutionGrows

\* The equation of Meaning, and that it only takes repetitions away.
LEMMA MeaningIs ==
  ASSUME NEW c \in Codes
  PROVE  \A x \in Points :
           /\ Meaning(c)[x] = Turn(Meaning(c), c, x[1], x[2], x[3])
           /\ Good(Meaning(c), x)
<1> DEFINE A == Last * Length
           n == MaxRepeats * A + A
<1>1. A \in Nat /\ n \in Nat
  BY Constants DEF Length
<1>2. ASSUME NEW x \in Points
      PROVE  Rank(x) < n
  <2>1. x[3].left \in 0..MaxRepeats /\ Rank(x) \in Nat
        /\ (Last - x[1]) * Length + (Length - x[2]) \in 0..(A - 1)
        /\ Rank(x) = x[3].left * A + ((Last - x[1]) * Length + (Length - x[2]))
    BY RankType DEF Rank
  <2>2. x[3].left * A <= MaxRepeats * A /\ x[3].left * A \in Nat /\ MaxRepeats * A \in Nat
    <3> HIDE DEF A
    <3>1. \A a \in Nat : a * A \in Nat
      BY <1>1
    <3> DEFINE a == x[3].left
    <3>2. a \in Nat /\ MaxRepeats \in Nat /\ (a < MaxRepeats \/ a = MaxRepeats)
      BY <2>1, Constants
    <3> HIDE DEF a
    <3>3. a < MaxRepeats => a * A + A <= MaxRepeats * A
      BY <3>2, <1>1, Multiples
    <3>4. a * A \in Nat /\ MaxRepeats * A \in Nat
      BY <3>1, <3>2
    <3>5. a * A <= MaxRepeats * A
      BY <3>2, <3>3, <3>4, <1>1
    <3> QED
      BY <3>4, <3>5 DEF a
  <2> HIDE DEF A
  <2> QED
    BY <2>1, <2>2, <1>1
<1>3. PICK F : Solves(F, c, n)
  <2> HIDE DEF n
  <2> QED
    BY <1>1, SolutionExists
<1> HIDE DEF n
<1> DEFINE G == [x \in Points |-> F[x]]
<1>4. \A y \in Points : Good(F, y) /\ G[y] = F[y]
  BY <1>1, <1>2, <1>3, SolutionsAreGood
<1>5. ASSUME NEW x \in Points
      PROVE  F[x] = Turn(G, c, x[1], x[2], x[3])
  <2>1. F[x] = Turn(F, c, x[1], x[2], x[3])
    BY <1>2, <1>3 DEF Solves
  <2> HIDE DEF G
  <2>2. Turn(G, c, x[1], x[2], x[3]) = Turn(F, c, x[1], x[2], x[3])
    BY <1>4, TurnDepends
  <2> QED
    BY <2>1, <2>2
<1>6. \E H : H = [x \in Points |-> Turn(H, c, x[1], x[2], x[3])]
  <2>1. G = [x \in Points |-> Turn(G, c, x[1], x[2], x[3])]
    BY <1>5
  <2> HIDE DEF G
  <2> QED
    BY <2>1
<1>7. Meaning(c) = [x \in Points |-> Turn(Meaning(c), c, x[1], x[2], x[3])]
  BY <1>6 DEF Meaning
<1> DEFINE M == Meaning(c)
<1>8. M = [x \in Points |-> Turn(M, c, x[1], x[2], x[3])]
  BY <1>7
<1> HIDE DEF M
<1>9. \A x \in Points : M[x] = Turn(M, c, x[1], x[2], x[3])
  BY <1>8
<1>10. \A x \in Points : Good(M, x)
  BY <1>1, <1>2, <1>9, SolutionsAreGood DEF Solves
<1> QED
  BY <1>9, <1>10 DEF M

-----------------------------------------------------------------------------
(***************************************************************************)
(* Recursion and induction along 0..n.                                     *)
(***************************************************************************)
LEMMA Along ==
  ASSUME NEW n \in Nat, NEW S, 0 \in S, \A k \in 0..(n - 1) : k \in S => k + 1 \in S
  PROVE  0..n \subseteq S
<1> DEFINE T == (0..n) \ S
<1> SUFFICES ASSUME T # {} PROVE FALSE
  OBVIOUS
<1>1. PICK k \in T : \A j \in T : k <= j
  <2>1. T \subseteq Nat
    OBVIOUS
  <2> HIDE DEF T
  <2> QED
    BY <2>1, LeastNat
<1>2. k # 0 /\ k - 1 \in 0..(n - 1) /\ k - 1 \notin T /\ k = (k - 1) + 1
  BY <1>1
<1>3. k - 1 \in S
  BY <1>2
<1> QED
  BY <1>2, <1>3

\* The steps of a recursion over the results X.
Steps(n, X) == [1..n -> [X -> X]]
Runs(n, X, a, g) ==
  \E f \in [0..n -> X] : f[0] = a /\ \A k \in 1..n : f[k] = g[k][f[k - 1]]

\* n steps from a can be made one after the other.
LEMMA Recursion ==
  ASSUME NEW n \in Nat, NEW X, NEW a \in X, NEW g \in Steps(n, X)
  PROVE  Runs(n, X, a, g)
<1> DEFINE P(f, j) == f[0] = a /\ \A k \in 1..j : f[k] = g[k][f[k - 1]]
           S == {j \in 0..n : \E f \in [0..n -> X] : P(f, j)}
<1> USE DEF Steps
<1>1. 0 \in S
  <2> DEFINE f == [k \in 0..n |-> a]
  <2>1. f \in [0..n -> X] /\ P(f, 0)
    OBVIOUS
  <2> HIDE DEF f, P
  <2> QED
    BY <2>1
<1>2. ASSUME NEW j \in 0..(n - 1), j \in S
      PROVE  j + 1 \in S
  <2>1. PICK f \in [0..n -> X] : P(f, j)
    BY <1>2
  <2> DEFINE e == [f EXCEPT ![j + 1] = g[j + 1][f[j]]]
  <2>2. f[j] \in X /\ g[j + 1][f[j]] \in X
    BY <2>1
  <2>3. e \in [0..n -> X] /\ P(e, j + 1)
    BY <2>1, <2>2
  <2> HIDE DEF e, P
  <2> QED
    BY <2>3
<1>3. PICK f \in [0..n -> X] : P(f, n)
  <2> HIDE DEF S
  <2>1. 0..n \subseteq S
    BY <1>1, <1>2, Along
  <2>2. n \in S
    BY <2>1
  <2> USE DEF S
  <2> HIDE DEF P
  <2> QED
    BY <2>2
<1> QED
  BY <1>3 DEF Runs

\* The active handlers, as Execute finds them.
LEMMA ActiveIs ==
  ASSUME code \in Codes
  PROVE  /\ \A h \in Seq(Macros) : Active(h) \in Seq(Macros)
         /\ \A m \in Macros : Active(<<m>>) = IF code[m].on THEN <<m>> ELSE <<>>
<1> DEFINE X == Seq(Macros)
           Add(m, q) == IF code[m].on THEN Append(q, m) ELSE q
<1>1. ASSUME NEW m \in Macros, NEW q \in X
      PROVE  Add(m, q) \in X
  BY <1>1, AppendProperties
<1>2. ASSUME NEW h \in X
      PROVE  \E F : /\ F[0] = <<>> /\ \A k \in 1..Len(h) : F[k] = Add(h[k], F[k - 1])
                    /\ Active(h) = F[Len(h)]
  <2> DEFINE n == Len(h)
             Eq(F) == F = [k \in 0..n |-> IF k = 0 THEN <<>> ELSE Add(h[k], F[k - 1])]
             g == [k \in 1..n |-> [q \in X |-> Add(h[k], q)]]
  <2>1. n \in Nat /\ <<>> \in X /\ \A k \in 1..n : h[k] \in Macros
    BY <1>2
  <2> HIDE DEF n, X, Add
  <2>2. g \in Steps(n, X)
    BY <1>1, <2>1 DEF Steps
  <2>3. PICK f \in [0..n -> X] : f[0] = <<>> /\ \A k \in 1..n : f[k] = g[k][f[k - 1]]
    <3> DEFINE a == <<>>
    <3>1. a \in X
      BY <2>1
    <3> HIDE DEF g, a
    <3>2. Runs(n, X, a, g)
      BY <2>1, <2>2, <3>1, Recursion
    <3> QED
      BY <3>2 DEF a, Runs
  <2>4. \A k \in 1..n : f[k - 1] \in X
    BY <2>1
  <2>5. \A k \in 1..n : f[k] = Add(h[k], f[k - 1])
    BY <2>1, <2>3, <2>4
  <2>6. Eq(f)
    BY <2>1, <2>3, <2>5
  <2>7. PICK F : Eq(F) /\ Active(h) = F[n]
    <3>1. Active(h) = (CHOOSE F : Eq(F))[n]
      BY DEF Active, n, Add
    <3> HIDE DEF Eq
    <3> QED
      BY <2>6, <3>1
  <2> QED
    BY <2>1, <2>7 DEF n
<1>3. ASSUME NEW h \in X
      PROVE  Active(h) \in X
  <2>1. PICK F : /\ F[0] = <<>> /\ \A k \in 1..Len(h) : F[k] = Add(h[k], F[k - 1])
                 /\ Active(h) = F[Len(h)]
    <3> HIDE DEF Add
    <3> QED
      BY <1>2
  <2> DEFINE S == {k \in 0..Len(h) : F[k] \in X}
  <2>2. Len(h) \in Nat /\ <<>> \in X /\ \A k \in 1..Len(h) : h[k] \in Macros
    BY <1>3
  <2> HIDE DEF Add, X
  <2>3. 0 \in S
    BY <2>1, <2>2
  <2>4. ASSUME NEW k \in 0..(Len(h) - 1), k \in S
        PROVE  k + 1 \in S
    <3>1. k + 1 \in 1..Len(h) /\ h[k + 1] \in Macros /\ (k + 1) - 1 = k
      BY <2>2
    <3>2. F[k + 1] = Add(h[k + 1], F[k])
      BY <2>1, <3>1
    <3> QED
      BY <2>4, <3>1, <3>2, <1>1
  <2>5. 0..Len(h) \subseteq S
    <3> HIDE DEF S
    <3> QED
      BY <2>2, <2>3, <2>4, Along
  <2> QED
    BY <2>1, <2>2, <2>5
<1>4. ASSUME NEW m \in Macros
      PROVE  Active(<<m>>) = IF code[m].on THEN <<m>> ELSE <<>>
  <2> DEFINE h == <<m>>
  <2>1. h \in X /\ Len(h) = 1 /\ h[1] = m
    BY <1>4
  <2> HIDE DEF h, Add, X
  <2>2. PICK F : /\ F[0] = <<>> /\ \A k \in 1..Len(h) : F[k] = Add(h[k], F[k - 1])
                 /\ Active(h) = F[Len(h)]
    BY <1>2, <2>1
  <2>3. Active(h) = Add(m, <<>>)
    BY <2>1, <2>2
  <2> QED
    BY <2>3 DEF h, Add
<1> QED
  BY <1>3, <1>4

\* What a called macro does is a state again.
LEMMA CalledIs ==
  ASSUME NEW c \in Codes, NEW m \in Macros, NEW s \in States
  PROVE  /\ <<m, 1, s>> \in Points
         /\ Called(Meaning(c), c, m, s) \in States
         /\ [Called(Meaning(c), c, m, s) EXCEPT !.over = FALSE] \in States
<1>1. <<m, 1, s>> \in Points
  BY Constants DEF Points
<1>2. Meaning(c)[<<m, 1, s>>] \in States
  BY <1>1, MeaningIs DEF Good
<1>3. Called(Meaning(c), c, m, s) \in States
  BY <1>2 DEF Called
<1>4. \A r \in States : [r EXCEPT !.over = FALSE] \in States
  BY DEF States
<1> QED
  BY <1>1, <1>3, <1>4

\* The equations of Handled.
LEMMA HandledIs ==
  ASSUME NEW c \in Codes, NEW h \in Seq(Macros), NEW s \in States
  PROVE  /\ Handled(c, h, s)[0] = s
         /\ \A k \in 1..Len(h) :
              Handled(c, h, s)[k] =
                IF Handled(c, h, s)[k - 1].skip THEN Handled(c, h, s)[k - 1]
                ELSE [Called(Meaning(c), c, h[k], Handled(c, h, s)[k - 1]) EXCEPT !.over = FALSE]
         /\ \A k \in 0..Len(h) : Handled(c, h, s)[k] \in States
<1> DEFINE n == Len(h)
           Go(m, r) == IF r.skip THEN r
                       ELSE [Called(Meaning(c), c, m, r) EXCEPT !.over = FALSE]
           Eq(F) == F = [k \in 0..n |-> IF k = 0 THEN s ELSE Go(h[k], F[k - 1])]
           g == [k \in 1..n |-> [r \in States |-> Go(h[k], r)]]
           H == Handled(c, h, s)
<1>1. n \in Nat /\ \A k \in 1..n : h[k] \in Macros
  OBVIOUS
<1>2. ASSUME NEW m \in Macros, NEW r \in States
      PROVE  Go(m, r) \in States
  BY <1>2, CalledIs
<1>3. H = CHOOSE F : Eq(F)
  BY DEF Handled
<1> HIDE DEF n, Go, H
<1>4. g \in Steps(n, States)
  BY <1>1, <1>2 DEF Steps
<1>5. PICK f \in [0..n -> States] : f[0] = s /\ \A k \in 1..n : f[k] = g[k][f[k - 1]]
  <2> HIDE DEF g
  <2>1. Runs(n, States, s, g)
    BY <1>1, <1>4, Recursion
  <2> QED
    BY <2>1 DEF Runs
<1>6. \A k \in 1..n : f[k - 1] \in States
  BY <1>1
<1>7. \A k \in 1..n : f[k] = Go(h[k], f[k - 1])
  BY <1>1, <1>5, <1>6
<1>8. Eq(f)
  BY <1>1, <1>5, <1>7
<1>9. Eq(H)
  <2> HIDE DEF Eq
  <2> QED
    BY <1>3, <1>8
<1>10. H[0] = s /\ \A k \in 1..n : H[k] = Go(h[k], H[k - 1])
  BY <1>1, <1>9
<1> DEFINE S == {k \in 0..n : H[k] \in States}
<1>11. 0 \in S
  BY <1>1, <1>10
<1>12. ASSUME NEW k \in 0..(n - 1), k \in S
       PROVE  k + 1 \in S
  <2>1. k + 1 \in 1..n /\ h[k + 1] \in Macros /\ (k + 1) - 1 = k
    BY <1>1
  <2>2. H[k + 1] = Go(h[k + 1], H[k])
    BY <1>10, <2>1
  <2> QED
    BY <1>2, <1>12, <2>1, <2>2
<1>13. 0..n \subseteq S
  <2> HIDE DEF S
  <2> QED
    BY <1>1, <1>11, <1>12, Along
<1> QED
  BY <1>10, <1>13 DEF n, Go, H

-----------------------------------------------------------------------------
(***************************************************************************)
(* Types.                                                                  *)
(***************************************************************************)
\* The places of the items, and of the macros themselves.
Spots == {p \in Places : p[2] \in 1..Len(Items(p[1]))}
Heads == Macros \X {0}
Frames == [handlers : Seq(Macros), skip : BOOLEAN, stale : BOOLEAN]

Types ==
  /\ code \in Codes /\ roots \in HandlerLists
  /\ phase \in {"next", "run", "done"}
  /\ handlers \in Seq(Macros)
  /\ skip \in BOOLEAN /\ stale \in BOOLEAN
  /\ phase = "run" => pc \in Spots \cup Heads
  /\ phase # "run" => pc = None /\ stack = <<>>
  /\ stack \in Seq(Spots)
  /\ repeats \in 0..MaxRepeats
  /\ log \in Seq(Places)
  /\ outer \in Seq(Frames)

\* What is at the places of a tree.
LEMMA PlaceTypes ==
  ASSUME code \in Codes
  PROVE  /\ Spots \subseteq Places /\ Heads \subseteq Places
         /\ None \notin Spots /\ None \notin Heads
         /\ \A p \in Heads : /\ p[1] \in Macros /\ p = <<p[1], 0>> /\ Op(p) = "macro"
                             /\ GetNextChild(p) = None
         /\ \A p \in Spots :
              /\ p[1] \in Macros /\ p[2] \in 1..Len(Items(p[1])) /\ p = <<p[1], p[2]>>
              /\ p[2] \in 1..MaxLen
              /\ Op(p) = Items(p[1])[p[2]][1] /\ Op(p) \in Ops /\ Op(p) # "macro"
              /\ Op(p) \in Leaves => Target(p) \in Macros /\ Target(p) > p[1]
              /\ GetNextChild(p) = IF p[2] < Len(Items(p[1])) THEN <<p[1], p[2] + 1>> ELSE None
              /\ GetNextChild(p) \in Spots \cup {None}
         /\ \A m \in Macros : /\ <<m, 0>> \in Heads
                              /\ FirstChild(m) = IF Items(m) = <<>> THEN None ELSE <<m, 1>>
                              /\ FirstChild(m) \in Spots \cup {None}
<1>1. \A m \in Macros : m \in Nat /\ m >= 1 /\ Len(Items(m)) \in 0..MaxLen
  BY Constants, ItemTypes DEF Items
<1>2. MaxLen \in Nat
  BY Constants
<1>3. ASSUME NEW p \in Heads
      PROVE  /\ p[1] \in Macros /\ p = <<p[1], 0>> /\ p[2] = 0 /\ p \in Places /\ p # None
             /\ Op(p) = "macro" /\ GetNextChild(p) = None
  <2>1. p[1] \in Macros /\ p = <<p[1], 0>> /\ p[2] = 0
    BY <1>3 DEF Heads
  <2>2. 0 \in 0..MaxLen /\ p[1] # 0
    BY <1>1, <1>2, <2>1
  <2> QED
    BY <2>1, <2>2 DEF Places, None, Op, GetNextChild
<1>4. ASSUME NEW p \in Spots
      PROVE  /\ p \in Places /\ p # None
             /\ p[1] \in Macros /\ p[2] \in 1..Len(Items(p[1])) /\ p = <<p[1], p[2]>>
             /\ p[2] \in 1..MaxLen
             /\ Op(p) = Items(p[1])[p[2]][1] /\ Op(p) \in Ops /\ Op(p) # "macro"
             /\ Op(p) \in Leaves => Target(p) \in Macros /\ Target(p) > p[1]
             /\ GetNextChild(p) = IF p[2] < Len(Items(p[1])) THEN <<p[1], p[2] + 1>> ELSE None
             /\ GetNextChild(p) \in Spots \cup {None}
  <2>1. p \in Places /\ p[1] \in Macros /\ p[2] \in 1..Len(Items(p[1])) /\ p = <<p[1], p[2]>>
    BY <1>4 DEF Spots, Places
  <2>2. p[2] # 0 /\ p[2] > 0 /\ p[2] \in 1..MaxLen /\ p[1] # 0
    BY <1>1, <1>2, <2>1
  <2>3. Op(p) = Items(p[1])[p[2]][1] /\ p # None
    BY <2>1, <2>2 DEF Op, None
  <2>4. Op(p) \in Ops /\ (Op(p) \in Leaves => Target(p) \in Macros /\ Target(p) > p[1])
    BY <2>1, <2>3, ItemTypes DEF Items, Target
  <2>5. Op(p) # "macro"
    BY <2>4 DEF Ops
  <2>6. GetNextChild(p) = IF p[2] < Len(Items(p[1])) THEN <<p[1], p[2] + 1>> ELSE None
    BY <2>2 DEF GetNextChild
  <2>7. p[2] < Len(Items(p[1])) => <<p[1], p[2] + 1>> \in Spots
    <3>1. SUFFICES ASSUME p[2] < Len(Items(p[1])) PROVE <<p[1], p[2] + 1>> \in Spots
      OBVIOUS
    <3>2. p[2] + 1 \in 1..Len(Items(p[1])) /\ p[2] + 1 \in 0..MaxLen
      BY <1>1, <1>2, <2>1, <3>1
    <3> QED
      BY <2>1, <3>2 DEF Spots, Places
  <2> QED
    BY <2>1, <2>2, <2>3, <2>4, <2>5, <2>6, <2>7
<1>5. ASSUME NEW m \in Macros
      PROVE  /\ <<m, 0>> \in Heads
             /\ FirstChild(m) = IF Items(m) = <<>> THEN None ELSE <<m, 1>>
             /\ FirstChild(m) \in Spots \cup {None}
  <2>1. Items(m) # <<>> => <<m, 1>> \in Spots
    <3>1. SUFFICES ASSUME Items(m) # <<>> PROVE <<m, 1>> \in Spots
      OBVIOUS
    <3>2. Items(m) \in Seq(Ops \X Nat)
      BY ItemTypes DEF Items
    <3>3. Len(Items(m)) # 0
      BY <3>1, <3>2, EmptySeq
    <3>4. 1 \in 1..Len(Items(m)) /\ 1 \in 0..MaxLen
      BY <1>1, <1>2, <3>3
    <3> QED
      BY <3>4 DEF Spots, Places
  <2> QED
    BY <2>1 DEF Heads, FirstChild
<1> QED
  BY <1>3, <1>4, <1>5

\* CHOOSE takes the greatest of some numbers.
LEMMA TopIs ==
  ASSUME NEW n \in Nat, NEW R, R \subseteq 1..n, R # {}
  PROVE  LET k == CHOOSE i \in R : \A j \in R : j <= i
         IN k \in R /\ \A j \in R : j <= k
<1> DEFINE T == {t \in 0..n : n - t \in R}
<1>1. T \subseteq Nat
  OBVIOUS
<1>2. \A j \in R : n - j \in T /\ j \in 1..n
  BY SMT
<1>3. T # {}
  BY <1>2
<1>4. PICK t \in T : \A y \in T : t <= y
  <2> HIDE DEF T
  <2> QED
    BY <1>1, <1>3, LeastNat
<1>5. n - t \in R
  BY <1>4
<1>6. ASSUME NEW j \in R
      PROVE  j <= n - t
  <2>1. t <= n - j /\ t \in Nat /\ j \in Nat
    BY <1>1, <1>2, <1>4
  <2> QED
    BY <2>1
<1> DEFINE P(i) == \A j \in R : j <= i
<1>7. (CHOOSE i \in R : P(i)) \in R /\ P(CHOOSE i \in R : P(i))
  <2> HIDE DEF P
  <2>1. P(n - t)
    BY <1>6 DEF P
  <2> QED
    BY <1>5, <2>1
<1> QED
  BY <1>7

\* The three ways a turn ends: with a place to go on with, with a return to the
\* last caller that has a next item, or with the program.
LEMMA AdvanceIs ==
  ASSUME code \in Codes, NEW p, NEW s \in Seq(Spots), Advance(p, s),
         NEW q, q = IF p = pc THEN GetNextChild(p) ELSE p
  PROVE  \/ q # None /\ pc' = q /\ stack' = s /\ phase' = "run"
         \/ /\ q = None /\ phase' = "run"
            /\ \E k \in 1..Len(s) :
                 /\ GetNextChild(s[k]) # None /\ pc' = GetNextChild(s[k])
                 /\ \A j \in (k + 1)..Len(s) : GetNextChild(s[j]) = None
                 /\ stack' = SubSeq(s, 1, k - 1)
         \/ /\ q = None /\ phase' = "next" /\ pc' = None /\ stack' = <<>>
            /\ \A j \in 1..Len(s) : GetNextChild(s[j]) = None
<1> DEFINE R == Resumable(s)
           k == CHOOSE i \in R : \A j \in R : j <= i
<1>1. /\ pc' = IF q = None /\ R # {} THEN GetNextChild(s[k]) ELSE q
      /\ stack' = IF q # None THEN s ELSE IF R # {} THEN SubSeq(s, 1, k - 1) ELSE <<>>
      /\ phase' = IF q = None /\ R = {} THEN "next" ELSE "run"
  BY DEF Advance
<1>2. Len(s) \in Nat /\ R \subseteq 1..Len(s)
        /\ \A j \in 1..Len(s) : j \in R <=> GetNextChild(s[j]) # None
  BY DEF Resumable
<1> HIDE DEF R
<1>3. R # {} => k \in R /\ \A j \in R : j <= k
  BY <1>2, TopIs
<1> HIDE DEF k
<1>4. CASE q # None
  BY <1>1, <1>4
<1>5. CASE q = None /\ R # {}
  <2>1. k \in 1..Len(s) /\ \A j \in (k + 1)..Len(s) : j \in 1..Len(s) /\ j \notin R
    <3>1. k \in 1..Len(s) /\ \A j \in R : j <= k
      BY <1>2, <1>3, <1>5
    <3>2. \A j \in (k + 1)..Len(s) : j \in 1..Len(s) /\ ~(j <= k)
      BY <1>2, <3>1
    <3> QED
      BY <3>1, <3>2
  <2> QED
    BY <1>1, <1>2, <1>3, <1>5, <2>1
<1>6. CASE q = None /\ R = {}
  BY <1>1, <1>2, <1>6
<1> QED
  BY <1>4, <1>5, <1>6

\* The end of a turn leads to an item, a head of a macro, or nowhere with an empty stack.
LEMMA AdvanceTypes ==
  ASSUME code \in Codes, NEW p \in Spots \cup Heads \cup {None}, NEW s \in Seq(Spots),
         Advance(p, s)
  PROVE  /\ phase' \in {"run", "next"} /\ stack' \in Seq(Spots)
         /\ phase' = "run" => pc' \in Spots \cup Heads
         /\ phase' # "run" => pc' = None /\ stack' = <<>>
<1> DEFINE q == IF p = pc THEN GetNextChild(p) ELSE p
<1>1. q \in Spots \cup Heads \cup {None}
  <2>1. GetNextChild(None) = None
    BY DEF GetNextChild, None
  <2> QED
    BY <2>1, PlaceTypes
<1>2. \/ q # None /\ pc' = q /\ stack' = s /\ phase' = "run"
      \/ /\ q = None /\ phase' = "run"
         /\ \E k \in 1..Len(s) :
              /\ GetNextChild(s[k]) # None /\ pc' = GetNextChild(s[k])
              /\ \A j \in (k + 1)..Len(s) : GetNextChild(s[j]) = None
              /\ stack' = SubSeq(s, 1, k - 1)
      \/ /\ q = None /\ phase' = "next" /\ pc' = None /\ stack' = <<>>
         /\ \A j \in 1..Len(s) : GetNextChild(s[j]) = None
  BY AdvanceIs
<1> HIDE DEF q
<1>3. CASE q # None /\ pc' = q /\ stack' = s /\ phase' = "run"
  BY <1>1, <1>3
<1>4. CASE /\ phase' = "run"
           /\ \E k \in 1..Len(s) : /\ GetNextChild(s[k]) # None /\ pc' = GetNextChild(s[k])
                                   /\ stack' = SubSeq(s, 1, k - 1)
  <2>1. PICK k \in 1..Len(s) : /\ GetNextChild(s[k]) # None /\ pc' = GetNextChild(s[k])
                               /\ stack' = SubSeq(s, 1, k - 1)
    BY <1>4
  <2>2. s[k] \in Spots
    BY <2>1
  <2>3. pc' \in Spots
    BY <2>1, <2>2, PlaceTypes
  <2>4. SubSeq(s, 1, k - 1) \in Seq(Spots)
    BY <2>1
  <2> QED
    BY <1>4, <2>1, <2>3, <2>4
<1>5. CASE phase' = "next" /\ pc' = None /\ stack' = <<>>
  BY <1>5
<1> QED
  BY <1>2, <1>3, <1>4, <1>5

\* Types says what TypeOK says, and more.
LEMMA TypesImplyTypeOK == Types => TypeOK
<1> SUFFICES ASSUME Types PROVE TypeOK
  OBVIOUS
<1>1. Spots \subseteq Places /\ Heads \subseteq Places /\ None \notin Spots /\ None \notin Heads
  BY PlaceTypes DEF Types
<1>2. stack \in Seq(Places)
  BY <1>1 DEF Types
<1>3. \A i \in 1..Len(outer) : outer[i] \in Frames
  BY DEF Types
<1>4. pc \in Places \cup {None} /\ (phase = "run" <=> pc # None)
  BY <1>1 DEF Types
<1> QED
  BY <1>2, <1>3, <1>4 DEF Types, TypeOK, Frames

\* The types hold at the start.
LEMMA InitTypes == Init => Types
<1> SUFFICES ASSUME Init PROVE Types
  OBVIOUS
<1>1. roots \in Seq(Macros) /\ code \in Codes
  BY MacroAssumption DEF Init
<1>2. handlers \in Seq(Macros)
  BY <1>1, ActiveIs DEF Init
<1>3. repeats \in 0..MaxRepeats
  BY Constants DEF Init
<1>4. stack \in Seq(Spots) /\ log \in Seq(Places) /\ outer \in Seq(Frames)
  BY DEF Init
<1>5. skip \in BOOLEAN /\ stale \in BOOLEAN /\ phase = "next" /\ pc = None /\ stack = <<>>
      /\ roots \in HandlerLists
  BY DEF Init
<1> QED
  BY <1>1, <1>2, <1>3, <1>4, <1>5 DEF Types

\* The types hold after each turn of RunProgram and each event.
LEMMA NextTypes == Types /\ [Next]_vars => Types'
<1> SUFFICES ASSUME Types, [Next]_vars PROVE Types'
  OBVIOUS
<1>1. CASE UNCHANGED vars
  <2>1. Spots' = Spots
    BY <1>1 DEF vars, Spots, Items
  <2> QED
    BY <1>1, <2>1 DEF vars, Types
<1>2. CASE StartProgram
  <2>1. Spots' = Spots /\ code' = code /\ roots' = roots
    BY <1>2 DEF StartProgram, Spots, Items
  <2>2. Head(handlers) \in Macros /\ Tail(handlers) \in Seq(Macros)
    BY <1>2 DEF StartProgram, Types
  <2>3. pc' \in Heads
    BY <1>2, <2>2 DEF StartProgram, Heads
  <2> QED
    BY <1>2, <2>1, <2>2, <2>3 DEF StartProgram, Types
<1>3. ASSUME NEW ops, Executes(ops)
      PROVE  /\ code \in Codes /\ Spots' = Spots /\ code' = code /\ roots' = roots /\ phase = "run"
             /\ pc \in Spots \cup Heads /\ Op(pc) \in ops /\ log' \in Seq(Places)
             /\ Op(pc) = "macro" => pc \in Heads
             /\ Op(pc) # "macro" => pc \in Spots
             /\ stack \in Seq(Spots) /\ pc[1] \in Macros
  <2>1. code' = code /\ roots' = roots /\ phase = "run" /\ Op(pc) \in ops
    BY <1>3 DEF Executes
  <2>2. Spots' = Spots
    BY <2>1 DEF Spots, Items
  <2>3. pc \in Spots \cup Heads /\ code \in Codes /\ stack \in Seq(Spots)
    BY <2>1 DEF Types
  <2>4. /\ Op(pc) = "macro" => pc \in Heads
        /\ Op(pc) # "macro" => pc \in Spots
        /\ pc[1] \in Macros
        /\ pc \in Places
    BY <2>3, PlaceTypes
  <2>5. log' \in Seq(Places)
    BY <1>3, <2>4, AppendProperties DEF Executes, Types
  <2> QED
    BY <2>1, <2>2, <2>3, <2>4, <2>5
<1>4. ASSUME NEW p \in Spots \cup Heads \cup {None}, NEW s \in Seq(Spots), Advance(p, s),
             NEW ops, Executes(ops)
      PROVE  /\ phase' \in {"run", "next"} /\ stack' \in Seq(Spots)
             /\ phase' = "run" => pc' \in Spots \cup Heads
             /\ phase' # "run" => pc' = None /\ stack' = <<>>
  BY <1>3, <1>4, AdvanceTypes
<1>5. CASE ExecuteMacro
  <2>1. Executes({"macro"}) /\ UNCHANGED <<handlers, skip, stale, outer, repeats>>
        /\ Advance(IF code[pc[1]].on THEN FirstChild(pc[1]) ELSE pc, stack)
    BY <1>5 DEF ExecuteMacro
  <2>2. (IF code[pc[1]].on THEN FirstChild(pc[1]) ELSE pc) \in Spots \cup Heads \cup {None}
    BY <2>1, <1>3, PlaceTypes
  <2> QED
    BY <2>1, <2>2, <1>3, <1>4 DEF Types
<1>6. CASE Plain
  <2>1. Executes({"plain", "skip"}) /\ UNCHANGED <<handlers, stale, outer, repeats>>
        /\ Advance(pc, stack) /\ skip' = (skip \/ (Op(pc) = "skip" /\ ~stale))
    BY <1>6 DEF Plain
  <2>2. skip' \in BOOLEAN
    BY <2>1
  <2> QED
    BY <2>1, <2>2, <1>3, <1>4 DEF Types
<1>7. CASE Stop
  <2>1. Executes({"stop", "stopall"}) /\ UNCHANGED <<handlers, skip, stale, outer, repeats>>
        /\ Advance(None, IF Op(pc) = "stop" THEN stack ELSE <<>>)
    BY <1>7 DEF Stop
  <2>2. (IF Op(pc) = "stop" THEN stack ELSE <<>>) \in Seq(Spots)
    BY <2>1, <1>3
  <2> QED
    BY <2>1, <2>2, <1>3, <1>4 DEF Types
<1>8. CASE Jump
  <2>1. Executes({"jump", "gosub"}) /\ UNCHANGED <<handlers, skip, stale, outer, repeats>>
        /\ Advance(<<Target(pc), 0>>, IF Op(pc) = "gosub" THEN Append(stack, pc) ELSE stack)
    BY <1>8 DEF Jump
  <2>2. pc \in Spots /\ Op(pc) \in Leaves
    BY <2>1, <1>3 DEF Leaves
  <2>3. <<Target(pc), 0>> \in Heads
    BY <2>1, <2>2, <1>3, PlaceTypes
  <2>4. (IF Op(pc) = "gosub" THEN Append(stack, pc) ELSE stack) \in Seq(Spots)
    BY <2>1, <2>2, <1>3, AppendProperties
  <2> QED
    BY <2>1, <2>3, <2>4, <1>3, <1>4 DEF Types
<1>9. CASE LostJump
  <2>1. Executes({"lost"}) /\ UNCHANGED <<handlers, skip, stale, outer, repeats>>
        /\ Advance(pc, Append(stack, pc))
    BY <1>9 DEF LostJump
  <2>2. pc \in Spots /\ Append(stack, pc) \in Seq(Spots)
    BY <2>1, <1>3, AppendProperties
  <2> QED
    BY <2>1, <2>2, <1>3, <1>4 DEF Types
<1>10. CASE AutoRepeat
  <2>1. Executes({"repeat"}) /\ UNCHANGED <<handlers, skip, stale, outer>>
    BY <1>10 DEF AutoRepeat
  <2>2. CASE repeats < MaxRepeats /\ repeats' = repeats + 1 /\ Advance(FirstChild(pc[1]), stack)
    <3>1. FirstChild(pc[1]) \in Spots \cup Heads \cup {None}
      BY <2>1, <1>3, PlaceTypes
    <3>2. repeats' \in 0..MaxRepeats
      BY <2>2, Constants DEF Types
    <3> QED
      BY <2>1, <2>2, <3>1, <3>2, <1>3, <1>4 DEF Types
  <2>3. CASE Advance(pc, stack) /\ UNCHANGED repeats
    BY <2>1, <2>3, <1>3, <1>4 DEF Types
  <2> QED
    BY <1>10, <2>2, <2>3 DEF AutoRepeat
<1>11. CASE ExecuteInPlace
  <2>1. Executes({"inplace", "restored"}) /\ UNCHANGED repeats
    BY <1>11 DEF ExecuteInPlace
  <2>2. StaleAfter(Op(pc)) \in BOOLEAN
    BY DEF StaleAfter, Types
  <2>3. CASE /\ Active(<<Target(pc)>>) # <<>>
             /\ outer' = Append(outer, [handlers |-> handlers, skip |-> skip,
                                        stale |-> StaleAfter(Op(pc))])
             /\ handlers' = Active(<<Target(pc)>>) /\ skip' = FALSE /\ stale' = FALSE
             /\ phase' = "next" /\ pc' = None /\ stack' = <<>>
    <3>1. pc \in Spots /\ Op(pc) \in Leaves
      BY <2>1, <1>3 DEF Leaves
    <3>2. Target(pc) \in Macros
      BY <2>1, <3>1, <1>3, PlaceTypes
    <3>3. <<Target(pc)>> \in Seq(Macros)
      BY <3>2
    <3>4. handlers' \in Seq(Macros)
      BY <2>1, <2>3, <3>3, <1>3, ActiveIs
    <3>5. [handlers |-> handlers, skip |-> skip, stale |-> StaleAfter(Op(pc))] \in Frames
      BY <2>2 DEF Frames, Types
    <3>6. outer' \in Seq(Frames)
      BY <2>3, <3>5, AppendProperties DEF Types
    <3>7. stack' = <<>> /\ pc' = None /\ phase' = "next"
      BY <2>3
    <3>9. stack' \in Seq(Spots)
      BY <3>7
    <3>10. skip' \in BOOLEAN /\ stale' \in BOOLEAN
      BY <2>3
    <3>8. /\ code' \in Codes /\ roots' \in HandlerLists /\ repeats' \in 0..MaxRepeats
          /\ Spots' = Spots /\ log' \in Seq(Places)
      BY <2>1, <1>3 DEF Types
    <3> QED
      BY <3>4, <3>6, <3>7, <3>8, <3>9, <3>10 DEF Types
  <2>4. CASE /\ stale' = StaleAfter(Op(pc)) /\ Advance(pc, stack)
             /\ UNCHANGED <<handlers, skip, outer>>
    BY <2>1, <2>2, <2>4, <1>3, <1>4 DEF Types
  <2> QED
    BY <1>11, <2>3, <2>4 DEF ExecuteInPlace
<1>12. CASE InnerDone
  <2>1. Spots' = Spots /\ code' = code /\ roots' = roots
    BY <1>12 DEF InnerDone, Spots, Items
  <2>2. outer \in Seq(Frames) /\ outer # <<>>
    BY <1>12 DEF InnerDone, Types
  <2>3. Len(outer) \in 1..Len(outer) /\ Len(outer) \in Nat
    BY <2>2, EmptySeq
  <2>4. outer[Len(outer)] \in Frames /\ SubSeq(outer, 1, Len(outer) - 1) \in Seq(Frames)
    BY <2>2, <2>3
  <2> QED
    BY <1>12, <2>1, <2>4 DEF InnerDone, Types, Frames
<1>13. CASE Finish
  <2>1. Spots' = Spots
    BY <1>13 DEF Finish, Spots, Items
  <2> QED
    BY <1>13, <2>1 DEF Finish, Types
<1> QED
  BY <1>1, <1>2, <1>5, <1>6, <1>7, <1>8, <1>9, <1>10, <1>11, <1>12, <1>13 DEF Next

\* TypeOK is an invariant: places are real places of the tree, and the stack is
\* empty between programs, whatever a jump has pushed.
THEOREM MacroTypes == Spec => []TypeOK
<1>1. Spec => []Types
  BY InitTypes, NextTypes, PTL DEF Spec
<1> QED
  BY <1>1, TypesImplyTypeOK, PTL

-----------------------------------------------------------------------------
(***************************************************************************)
(* RunProgram is on course: what it has done so far, continued as the      *)
(* macros say through the item it is at, the return stack and the events   *)
(* around this one, is what the handlers so far are to do.                 *)
(***************************************************************************)
Now == [log |-> log, left |-> MaxRepeats - repeats, over |-> FALSE, skip |-> skip,
        stale |-> stale]

\* What is done from the place p on, in its macro.
Ahead(c, p, s) == IF p[2] = 0 THEN Called(Meaning(c), c, p[1], s)
                  ELSE Meaning(c)[<<p[1], p[2], s>>]

\* u[k] is what is done when the returns of the stack s above k are: the caller
\* s[k] then goes on after its gosub.
Returns(c, s, u) ==
  /\ u \in [0..Len(s) -> States]
  /\ \A k \in 1..Len(s) : u[k - 1] = Meaning(c)[<<s[k][1], s[k][2] + 1, u[k]>>]

\* Nothing is done after the end of a macro, or when the program is over.
LEMMA MeaningEnds ==
  ASSUME NEW c \in Codes, NEW m \in Macros, NEW i \in 1..(MaxLen + 1), NEW s \in States,
         s.over \/ i > Len(c[m].items)
  PROVE  Meaning(c)[<<m, i, s>>] = s
<1> DEFINE x == <<m, i, s>>
<1>1. x \in Points /\ x[1] = m /\ x[2] = i /\ x[3] = s
  BY DEF Points
<1> HIDE DEF x
<1>2. Meaning(c)[x] = Turn(Meaning(c), c, m, i, s)
  BY <1>1, MeaningIs
<1> QED
  BY <1>2, NoTurn DEF x

\* What is done at an item.
LEMMA MeaningTurns ==
  ASSUME code \in Codes, NEW p \in Spots, NEW s \in States, ~s.over
  PROVE  Unfolds(Ahead(code, p, s), Meaning(code), code, p[1], p[2], s, Op(p), Target(p),
                 [s EXCEPT !.log = Append(@, p)])
<1> DEFINE x == <<p[1], p[2], s>>
<1>1. p[1] \in Macros /\ p[2] \in 1..Len(Items(p[1])) /\ p = <<p[1], p[2]>>
      /\ p[2] \in 1..(MaxLen + 1) /\ p[2] # 0 /\ Len(Items(p[1])) \in Nat
  BY PlaceTypes, ItemTypes, Constants DEF Items
<1>2. x \in Points /\ x[1] = p[1] /\ x[2] = p[2] /\ x[3] = s
  BY <1>1 DEF Points
<1> HIDE DEF x
<1>3. Meaning(code)[x] = Turn(Meaning(code), code, p[1], p[2], s)
  BY <1>2, MeaningIs
<1>4. Ahead(code, p, s) = Turn(Meaning(code), code, p[1], p[2], s)
  BY <1>1, <1>3 DEF Ahead, x
<1>5. ~(p[2] > Len(code[p[1]].items))
  BY <1>1 DEF Items
<1>6. Unfolds(Turn(Meaning(code), code, p[1], p[2], s), Meaning(code), code, p[1], p[2], s,
              code[p[1]].items[p[2]][1], code[p[1]].items[p[2]][2],
              [s EXCEPT !.log = Append(@, <<p[1], p[2]>>)])
  BY <1>5, TurnIs
<1>7. Op(p) = code[p[1]].items[p[2]][1] /\ Target(p) = code[p[1]].items[p[2]][2]
  BY <1>1 DEF Op, Target, Items
<1> QED
  BY <1>1, <1>4, <1>6, <1>7

\* What is done after an item is what is done at its next one.
LEMMA MeaningOfNext ==
  ASSUME code \in Codes, NEW p \in Spots, NEW s \in States
  PROVE  /\ Meaning(code)[<<p[1], p[2] + 1, s>>] =
              IF GetNextChild(p) = None THEN s ELSE Ahead(code, GetNextChild(p), s)
         /\ <<p[1], p[2] + 1, s>> \in Points
<1>1. /\ p[1] \in Macros /\ p[2] \in 1..Len(Items(p[1])) /\ p[2] + 1 \in 1..(MaxLen + 1)
      /\ p[2] + 1 # 0 /\ Len(Items(p[1])) \in Nat
      /\ GetNextChild(p) = IF p[2] < Len(Items(p[1])) THEN <<p[1], p[2] + 1>> ELSE None
  BY PlaceTypes, ItemTypes, Constants DEF Items
<1>2. <<p[1], p[2] + 1, s>> \in Points
  BY <1>1 DEF Points
<1>3. CASE p[2] < Len(Items(p[1]))
  BY <1>1, <1>2, <1>3 DEF Ahead, None
<1>4. CASE ~(p[2] < Len(Items(p[1])))
  <2>1. p[2] + 1 > Len(code[p[1]].items)
    BY <1>1, <1>4 DEF Items
  <2>2. Meaning(code)[<<p[1], p[2] + 1, s>>] = s
    BY <1>1, <2>1, MeaningEnds
  <2> QED
    BY <1>1, <1>2, <1>4, <2>2
<1> QED
  BY <1>3, <1>4

\* Callers without a next item, and all of them when the program is over, do
\* nothing more.
LEMMA NothingReturns ==
  ASSUME code \in Codes, NEW s \in Seq(Spots), NEW u, Returns(code, s, u),
         NEW k \in 0..Len(s),
         \/ \A j \in (k + 1)..Len(s) : GetNextChild(s[j]) = None
         \/ u[Len(s)].over
  PROVE  u[k] = u[Len(s)]
<1> DEFINE n == Len(s)
           S == {d \in 0..(n - k) : u[n - d] = u[n]}
<1>1. n \in Nat /\ n - k \in Nat /\ u \in [0..n -> States]
  BY DEF Returns
<1>2. 0 \in S
  BY <1>1
<1>3. ASSUME NEW d \in 0..(n - k - 1), d \in S
      PROVE  d + 1 \in S
  <2> DEFINE j == n - d
  <2>1. j \in (k + 1)..n /\ j \in 1..n /\ n - (d + 1) = j - 1 /\ u[j] = u[n] /\ u[j] \in States
        /\ d + 1 \in 0..(n - k)
    BY <1>1, <1>3
  <2> HIDE DEF j
  <2>2. s[j] \in Spots
    BY <2>1
  <2>3. u[j - 1] = Meaning(code)[<<s[j][1], s[j][2] + 1, u[j]>>]
    BY <2>1 DEF Returns
  <2>4. CASE GetNextChild(s[j]) = None
    <3>1. u[j - 1] = u[j]
      BY <2>1, <2>2, <2>3, <2>4, MeaningOfNext
    <3> QED
      BY <2>1, <3>1
  <2>5. CASE u[n].over
    <3>1. s[j][1] \in Macros /\ s[j][2] + 1 \in 1..(MaxLen + 1)
      BY <2>2, PlaceTypes, Constants
    <3>2. u[j - 1] = u[j]
      BY <2>1, <2>3, <2>5, <3>1, MeaningEnds
    <3> QED
      BY <2>1, <3>2
  <2> QED
    BY <2>1, <2>4, <2>5
<1>4. 0..(n - k) \subseteq S
  <2> HIDE DEF S
  <2> QED
    BY <1>1, <1>2, <1>3, Along
<1>5. n - k \in S /\ n - (n - k) = k
  BY <1>1, <1>4
<1> QED
  BY <1>5

\* What a turn ends with keeps what the whole program does, n being the state
\* after the item.
LEMMA AdvanceKeeps ==
  ASSUME code \in Codes, NEW p \in Spots \cup Heads \cup {None}, NEW s \in Seq(Spots),
         Advance(p, s), NEW n \in States,
         NEW q, q = IF p = pc THEN GetNextChild(p) ELSE p,
         NEW u, Returns(code, s, u),
         u[Len(s)] = IF q = None THEN n ELSE Ahead(code, q, n)
  PROVE  /\ phase' = "run" =>
              \E w : /\ Returns(code, stack', w)
                     /\ w[Len(stack')] = Ahead(code, pc', n) /\ w[0] = u[0]
         /\ phase' # "run" => u[0] = n
<1>1. \/ q # None /\ pc' = q /\ stack' = s /\ phase' = "run"
      \/ /\ q = None /\ phase' = "run"
         /\ \E k \in 1..Len(s) :
              /\ GetNextChild(s[k]) # None /\ pc' = GetNextChild(s[k])
              /\ \A j \in (k + 1)..Len(s) : GetNextChild(s[j]) = None
              /\ stack' = SubSeq(s, 1, k - 1)
      \/ /\ q = None /\ phase' = "next" /\ pc' = None /\ stack' = <<>>
         /\ \A j \in 1..Len(s) : GetNextChild(s[j]) = None
  BY AdvanceIs
<1>2. CASE q # None /\ pc' = q /\ stack' = s /\ phase' = "run"
  BY <1>2
<1>3. CASE /\ q = None /\ phase' = "run"
           /\ \E k \in 1..Len(s) :
                /\ GetNextChild(s[k]) # None /\ pc' = GetNextChild(s[k])
                /\ \A j \in (k + 1)..Len(s) : GetNextChild(s[j]) = None
                /\ stack' = SubSeq(s, 1, k - 1)
  <2>1. PICK k \in 1..Len(s) :
                /\ GetNextChild(s[k]) # None /\ pc' = GetNextChild(s[k])
                /\ \A j \in (k + 1)..Len(s) : GetNextChild(s[j]) = None
                /\ stack' = SubSeq(s, 1, k - 1)
    BY <1>3
  <2>2. k \in 0..Len(s) /\ Len(s) \in Nat /\ k - 1 \in 0..Len(s) /\ s[k] \in Spots
    OBVIOUS
  <2>3. u[k] = n
    BY <1>3, <2>1, <2>2, NothingReturns
  <2>4. u[k - 1] = Meaning(code)[<<s[k][1], s[k][2] + 1, u[k]>>]
    BY DEF Returns
  <2>5. u[k - 1] = Ahead(code, pc', n)
    BY <2>1, <2>2, <2>3, <2>4, MeaningOfNext
  <2> DEFINE t == SubSeq(s, 1, k - 1)
             w == [j \in 0..(k - 1) |-> u[j]]
  <2>6. t \in Seq(Spots) /\ Len(t) = k - 1 /\ \A j \in 1..(k - 1) : t[j] = s[j]
    BY <2>2
  <2>7. w \in [0..Len(t) -> States]
    BY <2>2, <2>6 DEF Returns
  <2>8. \A j \in 1..(k - 1) : w[j - 1] = Meaning(code)[<<t[j][1], t[j][2] + 1, w[j]>>]
    <3>1. \A j \in 1..(k - 1) : /\ j \in 1..Len(s) /\ t[j] = s[j]
                                /\ w[j - 1] = u[j - 1] /\ w[j] = u[j]
      BY <2>2, <2>6
    <3> HIDE DEF w, t
    <3> QED
      BY <3>1 DEF Returns
  <2>9. Returns(code, t, w) /\ w[Len(t)] = u[k - 1] /\ w[0] = u[0]
    BY <2>2, <2>6, <2>7, <2>8 DEF Returns
  <2> HIDE DEF t, w
  <2>10. stack' = t
    BY <2>1 DEF t
  <2> QED
    BY <1>3, <2>5, <2>9, <2>10
<1>4. CASE /\ q = None /\ phase' = "next"
           /\ \A j \in 1..Len(s) : GetNextChild(s[j]) = None
  <2>1. 0 \in 0..Len(s) /\ \A j \in (0 + 1)..Len(s) : GetNextChild(s[j]) = None
    BY <1>4
  <2>2. u[0] = u[Len(s)]
    BY <2>1, NothingReturns
  <2> QED
    BY <1>4, <2>2
<1> QED
  BY <1>1, <1>2, <1>3, <1>4

\* The handlers of the outermost event still to come, and those that had their
\* turn; the outer event's own flags come back when the inner ones are done.
Base(o, h) == IF o = <<>> THEN h ELSE o[1].handlers
Turned(o, h) == Len(Active(roots)) - Len(Base(o, h))
Resumed(o, r) == IF o = <<>> THEN [r EXCEPT !.over = FALSE]
                 ELSE [r EXCEPT !.over = FALSE, !.skip = o[1].skip, !.stale = o[1].stale]
Fits(o, h, r) == Resumed(o, r) = Handled(code, Active(roots), Start)[Turned(o, h)]

\* Only the outermost event has more than one handler.
HandlersLeft ==
  /\ \A j \in 2..Len(outer) : outer[j].handlers = <<>>
  /\ outer # <<>> => handlers = <<>> \/ (phase = "next" /\ ~skip /\ Len(handlers) = 1)
  /\ phase = "done" => outer = <<>>
  /\ Len(Base(outer, handlers)) <= Len(Active(roots))
  /\ \A i \in 1..Len(Base(outer, handlers)) :
       Base(outer, handlers)[i] = Active(roots)[Turned(outer, handlers) + i]

OnCourse ==
  /\ phase = "run" =>
       \E u : /\ Returns(code, stack, u)
              /\ u[Len(stack)] = Ahead(code, pc, Now) /\ Fits(outer, handlers, u[0])
  /\ phase = "next" =>
       Fits(outer, handlers, IF outer # <<>> /\ handlers # <<>>
                             THEN Called(Meaning(code), code, handlers[1], Now) ELSE Now)
  /\ phase = "done" => log = Written(code, Active(roots))

\* What has been executed so far is a state of the reference.
LEMMA NowType == Types => Now \in States
<1> SUFFICES ASSUME Types PROVE Now \in States
  OBVIOUS
<1>1. MaxRepeats - repeats \in 0..MaxRepeats
  BY Constants DEF Types
<1> QED
  BY <1>1 DEF Types, Now, States

\* The order of the handlers depends on the tree and the events only.
LEMMA ActiveStays ==
  ASSUME code' = code, roots' = roots
  PROVE  /\ Active(roots)' = Active(roots)
         /\ \A o, h : Turned(o, h)' = Turned(o, h)
         /\ \A o, h, r : Fits(o, h, r)' <=> Fits(o, h, r)
  BY DEF Active, Turned, Fits

\* The same of the next state.
LEMMA NowTypeNext == Types' => Now' \in States
<1> SUFFICES ASSUME Types' PROVE Now' \in States
  OBVIOUS
<1>1. repeats' \in 0..MaxRepeats /\ log' \in Seq(Places) /\ skip' \in BOOLEAN
      /\ stale' \in BOOLEAN
  BY Zenon DEF Types
<1>2. \A r \in 0..MaxRepeats : MaxRepeats - r \in 0..MaxRepeats
  BY Constants
<1> QED
  BY <1>1, <1>2 DEF Now, States

\* An item keeps RunProgram on course when it leaves the returns and the counter
\* it ends its turn with as its meaning says.
LEMMA ItemKeeps ==
  ASSUME Types, Types', HandlersLeft, phase = "run",
         code' = code, roots' = roots, handlers' = handlers, outer' = outer,
         NEW p \in Spots \cup Heads \cup {None}, NEW s \in Seq(Spots), Advance(p, s),
         NEW q, q = IF p = pc THEN GetNextChild(p) ELSE p,
         NEW u, Returns(code, s, u),
         u[Len(s)] = IF q = None THEN Now' ELSE Ahead(code, q, Now'),
         Fits(outer, handlers, u[0])
  PROVE  HandlersLeft' /\ OnCourse'
<1>1. code \in Codes /\ Now' \in States
  BY NowTypeNext DEF Types
<1>2. phase' \in {"run", "next"}
  BY <1>1, AdvanceTypes
<1>3. /\ phase' = "run" => \E w : /\ Returns(code, stack', w)
                                  /\ w[Len(stack')] = Ahead(code, pc', Now') /\ w[0] = u[0]
      /\ phase' # "run" => u[0] = Now'
  <2> DEFINE n == Now'
  <2>1. n \in States /\ u[Len(s)] = IF q = None THEN n ELSE Ahead(code, q, n)
    BY <1>1
  <2> HIDE DEF n
  <2>2. /\ phase' = "run" => \E w : /\ Returns(code, stack', w)
                                    /\ w[Len(stack')] = Ahead(code, pc', n) /\ w[0] = u[0]
        /\ phase' # "run" => u[0] = n
    BY <1>1, <2>1, AdvanceKeeps
  <2> QED
    BY <2>2 DEF n
<1>4. outer # <<>> => handlers = <<>>
  BY DEF HandlersLeft
<1>5. Active(roots)' = Active(roots) /\ \A o, h : Turned(o, h)' = Turned(o, h)
      /\ \A a, b, r : Fits(a, b, r)' <=> Fits(a, b, r)
  BY ActiveStays
<1>6. HandlersLeft'
  BY <1>2, <1>4, <1>5 DEF HandlersLeft, Base
<1>7. OnCourse'
  BY <1>2, <1>3, <1>4, <1>5 DEF OnCourse
<1> QED
  BY <1>6, <1>7

\* The item at the program counter: t is the state with its place logged, T what
\* is done from the item on.
LEMMA AtItem ==
  ASSUME Types, HandlersLeft, OnCourse, NEW ops, Executes(ops), Op(pc) # "macro",
         NEW t, t = [Now EXCEPT !.log = Append(@, pc)]
  PROVE  /\ code \in Codes /\ code' = code /\ roots' = roots /\ phase = "run" /\ pc \in Spots
         /\ Op(pc) \in ops /\ stack \in Seq(Spots) /\ Now \in States /\ t \in States
         /\ t.over = FALSE /\ t.skip = skip /\ t.stale = stale /\ t.left = Now.left
         /\ t = [log |-> log', left |-> MaxRepeats - repeats, over |-> FALSE,
                 skip |-> skip, stale |-> stale]
         /\ \E u : /\ Returns(code, stack, u)
                   /\ Unfolds(u[Len(stack)], Meaning(code), code, pc[1], pc[2], Now,
                              Op(pc), Target(pc), t)
                   /\ Fits(outer, handlers, u[0])
<1>1. code' = code /\ roots' = roots /\ phase = "run" /\ Op(pc) \in ops
      /\ log' = Append(log, pc)
  BY DEF Executes
<1>2. code \in Codes /\ pc \in Spots /\ stack \in Seq(Spots) /\ pc \in Places
  <2>1. code \in Codes /\ stack \in Seq(Spots) /\ pc \in Spots \cup Heads
    BY <1>1 DEF Types
  <2> QED
    BY <2>1, PlaceTypes
<1>3. Now \in States /\ t \in States
  BY <1>2, NowType, Logged
<1>4. t.over = FALSE /\ t.skip = skip /\ t.stale = stale /\ t.left = Now.left
      /\ t = [log |-> log', left |-> MaxRepeats - repeats, over |-> FALSE,
              skip |-> skip, stale |-> stale]
      /\ ~Now.over
  BY <1>1 DEF Now
<1>5. PICK u : /\ Returns(code, stack, u)
               /\ u[Len(stack)] = Ahead(code, pc, Now) /\ Fits(outer, handlers, u[0])
  BY <1>1 DEF OnCourse
<1>6. Unfolds(Ahead(code, pc, Now), Meaning(code), code, pc[1], pc[2], Now,
              Op(pc), Target(pc), t)
  BY <1>2, <1>3, <1>4, MeaningTurns
<1> QED
  BY <1>1, <1>2, <1>3, <1>4, <1>5, <1>6

\* A level pushed on the return stack.
LEMMA ReturnsPush ==
  ASSUME code \in Codes, NEW s \in Seq(Spots), NEW u, Returns(code, s, u), NEW p \in Spots,
         NEW r \in States, u[Len(s)] = Meaning(code)[<<p[1], p[2] + 1, r>>]
  PROVE  /\ Append(s, p) \in Seq(Spots)
         /\ \E w : /\ Returns(code, Append(s, p), w)
                   /\ w[Len(Append(s, p))] = r /\ w[0] = u[0]
<1> DEFINE n == Len(s)
           t == Append(s, p)
           w == [j \in 0..(n + 1) |-> IF j <= n THEN u[j] ELSE r]
<1>1. n \in Nat /\ t \in Seq(Spots) /\ Len(t) = n + 1 /\ t[n + 1] = p
      /\ \A j \in 1..n : t[j] = s[j]
  BY AppendProperties
<1>2. u \in [0..n -> States]
  BY DEF Returns
<1>3. w \in [0..Len(t) -> States] /\ w[n + 1] = r /\ \A j \in 0..n : w[j] = u[j]
  BY <1>1, <1>2
<1>4. ASSUME NEW k \in 1..Len(t)
      PROVE  w[k - 1] = Meaning(code)[<<t[k][1], t[k][2] + 1, w[k]>>]
  <2> HIDE DEF w, t
  <2>1. CASE k <= n
    <3>1. k \in 1..n /\ k - 1 \in 0..n /\ k \in 0..n
      BY <1>1, <2>1
    <3>2. u[k - 1] = Meaning(code)[<<s[k][1], s[k][2] + 1, u[k]>>]
      BY <3>1 DEF Returns
    <3>3. t[k] = s[k] /\ w[k] = u[k] /\ w[k - 1] = u[k - 1]
      BY <1>1, <1>3, <3>1
    <3> QED
      BY <3>2, <3>3
  <2>2. CASE k = n + 1
    <3>1. k - 1 = n /\ n \in 0..n
      BY <1>1, <2>2
    <3>2. t[k] = p /\ w[k] = r /\ w[k - 1] = u[n]
      BY <1>1, <1>3, <2>2, <3>1
    <3> QED
      BY <3>2
  <2> QED
    BY <1>1, <2>1, <2>2
<1>5. Returns(code, t, w) /\ w[Len(t)] = r /\ w[0] = u[0]
  <2> HIDE DEF w, t
  <2> QED
    BY <1>1, <1>3, <1>4 DEF Returns
<1> HIDE DEF w, t
<1>6. t \in Seq(Spots) /\ \E v : Returns(code, t, v) /\ v[Len(t)] = r /\ v[0] = u[0]
  BY <1>1, <1>5
<1> QED
  BY <1>6 DEF t

-----------------------------------------------------------------------------
(***************************************************************************)
(* Every action keeps RunProgram on course.                                *)
(***************************************************************************)
\* A state is its fields.
LEMMA StatesEqual ==
  ASSUME NEW r \in States, NEW n \in States,
         r.log = n.log, r.left = n.left, r.over = n.over, r.skip = n.skip, r.stale = n.stale
  PROVE  r = n
  BY DEF States

\* A state with another StopProcessing.
LEMMA SkipUpdate ==
  ASSUME NEW t \in States, NEW b \in BOOLEAN
  PROVE  LET r == [t EXCEPT !.skip = b]
         IN r \in States /\ r.log = t.log /\ r.left = t.left /\ r.over = t.over
            /\ r.skip = b /\ r.stale = t.stale
  BY DEF States

\* A plain item, one turn of RunProgram's loop, is one unfolding of the reference.
LEMMA PlainKeeps ==
  ASSUME Types, Types', HandlersLeft, OnCourse, Plain
  PROVE  HandlersLeft' /\ OnCourse'
<1>1. Executes({"plain", "skip"}) /\ UNCHANGED <<handlers, stale, outer, repeats>>
      /\ Advance(pc, stack) /\ skip' = (skip \/ (Op(pc) = "skip" /\ ~stale))
  BY DEF Plain
<1>2. Op(pc) # "macro" /\ Op(pc) \in {"plain", "skip"}
  BY <1>1 DEF Executes
<1> DEFINE t == [Now EXCEPT !.log = Append(@, pc)]
           n == Now'
<1>3. /\ code \in Codes /\ code' = code /\ roots' = roots /\ phase = "run" /\ pc \in Spots
      /\ stack \in Seq(Spots) /\ Now \in States /\ t \in States
      /\ t = [log |-> log', left |-> MaxRepeats - repeats, over |-> FALSE,
              skip |-> skip, stale |-> stale]
      /\ \E u : /\ Returns(code, stack, u)
                /\ Unfolds(u[Len(stack)], Meaning(code), code, pc[1], pc[2], Now,
                           Op(pc), Target(pc), t)
                /\ Fits(outer, handlers, u[0])
  BY <1>1, <1>2, AtItem
<1>4. PICK u : /\ Returns(code, stack, u)
               /\ Unfolds(u[Len(stack)], Meaning(code), code, pc[1], pc[2], Now,
                          Op(pc), Target(pc), t)
               /\ Fits(outer, handlers, u[0])
  BY <1>3
<1>5. n \in States /\ n = [log |-> log', left |-> MaxRepeats - repeats, over |-> FALSE,
                           skip |-> skip', stale |-> stale]
  BY <1>1, NowTypeNext DEF Now
<1>6. Now.stale = stale /\ skip \in BOOLEAN /\ stale \in BOOLEAN
  BY DEF Now, Types
<1> HIDE DEF n
<1>7. u[Len(stack)] = Meaning(code)[<<pc[1], pc[2] + 1, n>>]
  <2>1. CASE Op(pc) = "skip"
    <3> HIDE DEF t
    <3> DEFINE b == t.skip \/ ~Now.stale
    <3>1. b = skip'
      BY <1>1, <1>3, <1>6, <2>1
    <3> HIDE DEF b
    <3> DEFINE r == [t EXCEPT !.skip = b]
    <3>2. r \in States /\ r.log = t.log /\ r.left = t.left /\ r.over = t.over
          /\ r.skip = b /\ r.stale = t.stale
      BY <1>1, <1>3, <1>5, <3>1, SkipUpdate
    <3>4. n.log = t.log /\ n.left = t.left /\ n.over = t.over /\ n.skip = skip'
          /\ n.stale = t.stale
      BY <1>3, <1>5
    <3>5. r = n
      <4> HIDE DEF r
      <4> QED
        BY <1>5, <3>1, <3>2, <3>4, StatesEqual
    <3>3. [t EXCEPT !.skip = @ \/ ~Now.stale] = n
      BY <3>5 DEF b
    <3> QED
      BY <1>4, <2>1, <3>3 DEF Unfolds
  <2>2. CASE Op(pc) = "plain"
    <3>1. [t EXCEPT !.stale = Now.stale \/ Op(pc) = "inplace"] = n
      BY <1>1, <1>3, <1>5, <1>6, <2>2
    <3> HIDE DEF t
    <3> QED
      BY <1>4, <2>2, <3>1 DEF Unfolds
  <2> QED
    BY <1>2, <2>1, <2>2
<1> DEFINE q == GetNextChild(pc)
<1>8. u[Len(stack)] = IF q = None THEN n ELSE Ahead(code, q, n)
  BY <1>3, <1>5, <1>7, MeaningOfNext
<1> HIDE DEF q, t
<1>9. q = IF pc = pc THEN GetNextChild(pc) ELSE pc
  BY DEF q
<1> QED
  BY <1>1, <1>3, <1>4, <1>8, <1>9, ItemKeeps DEF n

\* So is StopMacro, with and without ignoreReturn.
LEMMA StopKeeps ==
  ASSUME Types, Types', HandlersLeft, OnCourse, Stop
  PROVE  HandlersLeft' /\ OnCourse'
<1> DEFINE s == IF Op(pc) = "stop" THEN stack ELSE <<>>
<1>1. Executes({"stop", "stopall"}) /\ UNCHANGED <<handlers, skip, stale, outer, repeats>>
      /\ Advance(None, s)
  BY DEF Stop
<1>2. Op(pc) # "macro" /\ Op(pc) \in {"stop", "stopall"}
  BY <1>1 DEF Executes
<1> DEFINE t == [Now EXCEPT !.log = Append(@, pc)]
           n == Now'
<1>3. /\ code \in Codes /\ code' = code /\ roots' = roots /\ phase = "run" /\ pc \in Spots
      /\ stack \in Seq(Spots) /\ Now \in States /\ t \in States
      /\ t = [log |-> log', left |-> MaxRepeats - repeats, over |-> FALSE,
              skip |-> skip, stale |-> stale]
      /\ \E u : /\ Returns(code, stack, u)
                /\ Unfolds(u[Len(stack)], Meaning(code), code, pc[1], pc[2], Now,
                           Op(pc), Target(pc), t)
                /\ Fits(outer, handlers, u[0])
  BY <1>1, <1>2, AtItem
<1>4. PICK u : /\ Returns(code, stack, u)
               /\ Unfolds(u[Len(stack)], Meaning(code), code, pc[1], pc[2], Now,
                          Op(pc), Target(pc), t)
               /\ Fits(outer, handlers, u[0])
  BY <1>3
<1>5. n \in States /\ n = t
  BY <1>1, <1>3, NowTypeNext DEF Now
<1> HIDE DEF n, t
<1>6. None = IF None = pc THEN GetNextChild(None) ELSE None
  BY <1>3, PlaceTypes
<1>7. CASE Op(pc) = "stop"
  <2>1. s = stack
    BY <1>7
  <2>2. u[Len(s)] = n
    BY <1>4, <1>5, <1>7, <2>1 DEF Unfolds
  <2> HIDE DEF s
  <2> QED
    BY <1>1, <1>3, <1>4, <1>6, <2>1, <2>2, ItemKeeps DEF n
<1>8. CASE Op(pc) = "stopall"
  <2>1. s = <<>>
    BY <1>8
  <2>2. u[Len(stack)] = [n EXCEPT !.over = TRUE]
    BY <1>4, <1>5, <1>8 DEF Unfolds
  <2>3. u[Len(stack)].over
    BY <1>5, <2>2 DEF States
  <2>4. 0 \in 0..Len(stack)
    BY <1>3
  <2>5. u[0] = [n EXCEPT !.over = TRUE]
    BY <1>3, <1>4, <2>2, <2>3, <2>4, NothingReturns
  <2>6. Fits(outer, handlers, n)
    <3>1. Resumed(outer, n) = Resumed(outer, [n EXCEPT !.over = TRUE])
      BY <1>5 DEF Resumed, States
    <3> QED
      BY <1>4, <2>5, <3>1 DEF Fits
  <2> DEFINE w == [j \in 0..0 |-> n]
  <2>7. s \in Seq(Spots) /\ Len(s) = 0
    <3> HIDE DEF s
    <3> QED
      BY <2>1
  <2>8. Returns(code, s, w) /\ w[0] = n
    BY <1>5, <2>7 DEF Returns
  <2> HIDE DEF s, w
  <2> QED
    BY <1>1, <1>3, <1>6, <2>6, <2>7, <2>8, ItemKeeps DEF n
<1> QED
  BY <1>2, <1>7, <1>8

\* So is a jump, whose return is pushed where it is wanted.
LEMMA JumpKeeps ==
  ASSUME Types, Types', HandlersLeft, OnCourse, Jump
  PROVE  HandlersLeft' /\ OnCourse'
<1> DEFINE s == IF Op(pc) = "gosub" THEN Append(stack, pc) ELSE stack
           p == <<Target(pc), 0>>
<1>1. Executes({"jump", "gosub"}) /\ UNCHANGED <<handlers, skip, stale, outer, repeats>>
      /\ Advance(p, s)
  BY DEF Jump
<1>2. Op(pc) # "macro" /\ Op(pc) \in {"jump", "gosub"} /\ Op(pc) \in Leaves
  BY <1>1 DEF Executes, Leaves
<1> DEFINE t == [Now EXCEPT !.log = Append(@, pc)]
           n == Now'
<1>3. /\ code \in Codes /\ code' = code /\ roots' = roots /\ phase = "run" /\ pc \in Spots
      /\ stack \in Seq(Spots) /\ Now \in States /\ t \in States
      /\ t = [log |-> log', left |-> MaxRepeats - repeats, over |-> FALSE,
              skip |-> skip, stale |-> stale]
      /\ \E u : /\ Returns(code, stack, u)
                /\ Unfolds(u[Len(stack)], Meaning(code), code, pc[1], pc[2], Now,
                           Op(pc), Target(pc), t)
                /\ Fits(outer, handlers, u[0])
  BY <1>1, <1>2, AtItem
<1>4. PICK u : /\ Returns(code, stack, u)
               /\ Unfolds(u[Len(stack)], Meaning(code), code, pc[1], pc[2], Now,
                          Op(pc), Target(pc), t)
               /\ Fits(outer, handlers, u[0])
  BY <1>3
<1>5. n \in States /\ n = t
  BY <1>1, <1>3, NowTypeNext DEF Now
<1> HIDE DEF n, t
<1>6. Target(pc) \in Macros /\ p \in Heads /\ p # pc /\ p # None
  BY <1>2, <1>3, PlaceTypes
<1> DEFINE r == Called(Meaning(code), code, Target(pc), n)
<1>7. r = Ahead(code, p, n) /\ r \in States
  BY <1>3, <1>5, <1>6, CalledIs DEF Ahead
<1> HIDE DEF r, p
<1>8. p = IF p = pc THEN GetNextChild(p) ELSE p
  BY <1>6
<1>9. CASE Op(pc) = "jump"
  <2>1. s = stack
    BY <1>9
  <2>2. u[Len(s)] = Ahead(code, p, n)
    BY <1>4, <1>5, <1>7, <1>9, <2>1 DEF Unfolds, r
  <2> HIDE DEF s
  <2> QED
    BY <1>1, <1>3, <1>4, <1>6, <1>8, <2>1, <2>2, ItemKeeps DEF n
<1>10. CASE Op(pc) = "gosub"
  <2>1. s = Append(stack, pc)
    BY <1>10
  <2>2. u[Len(stack)] = Meaning(code)[<<pc[1], pc[2] + 1, r>>]
    BY <1>4, <1>5, <1>10 DEF Unfolds, r
  <2> HIDE DEF s
  <2>3. s \in Seq(Spots) /\ \E w : Returns(code, s, w) /\ w[Len(s)] = r /\ w[0] = u[0]
    BY <1>3, <1>4, <1>7, <2>1, <2>2, ReturnsPush
  <2>4. PICK w : Returns(code, s, w) /\ w[Len(s)] = r /\ w[0] = u[0]
    BY <2>3
  <2> QED
    BY <1>1, <1>3, <1>4, <1>6, <1>7, <1>8, <2>3, <2>4, ItemKeeps DEF n
<1> QED
  BY <1>2, <1>9, <1>10

\* So is a jump whose target was deleted.
LEMMA LostJumpKeeps ==
  ASSUME Types, Types', HandlersLeft, OnCourse, LostJump
  PROVE  HandlersLeft' /\ OnCourse'
<1> DEFINE s == Append(stack, pc)
<1>1. Executes({"lost"}) /\ UNCHANGED <<handlers, skip, stale, outer, repeats>>
      /\ Advance(pc, s)
  BY DEF LostJump
<1>2. Op(pc) # "macro" /\ Op(pc) = "lost"
  BY <1>1 DEF Executes
<1> DEFINE t == [Now EXCEPT !.log = Append(@, pc)]
           n == Now'
<1>3. /\ code \in Codes /\ code' = code /\ roots' = roots /\ phase = "run" /\ pc \in Spots
      /\ stack \in Seq(Spots) /\ Now \in States /\ t \in States
      /\ t = [log |-> log', left |-> MaxRepeats - repeats, over |-> FALSE,
              skip |-> skip, stale |-> stale]
      /\ \E u : /\ Returns(code, stack, u)
                /\ Unfolds(u[Len(stack)], Meaning(code), code, pc[1], pc[2], Now,
                           Op(pc), Target(pc), t)
                /\ Fits(outer, handlers, u[0])
  BY <1>1, <1>2, AtItem
<1>4. PICK u : /\ Returns(code, stack, u)
               /\ Unfolds(u[Len(stack)], Meaning(code), code, pc[1], pc[2], Now,
                          Op(pc), Target(pc), t)
               /\ Fits(outer, handlers, u[0])
  BY <1>3
<1>5. n \in States /\ n = t
  BY <1>1, <1>3, NowTypeNext DEF Now
<1> HIDE DEF n, t
<1> DEFINE r == Meaning(code)[<<pc[1], pc[2] + 1, n>>]
           q == GetNextChild(pc)
<1>6. r = (IF q = None THEN n ELSE Ahead(code, q, n)) /\ r \in States
  BY <1>3, <1>5, MeaningOfNext, MeaningIs DEF Good
<1>7. u[Len(stack)] = Meaning(code)[<<pc[1], pc[2] + 1, r>>]
  BY <1>2, <1>4, <1>5 DEF Unfolds
<1> HIDE DEF r, q
<1>8. s \in Seq(Spots) /\ \E w : Returns(code, s, w) /\ w[Len(s)] = r /\ w[0] = u[0]
  BY <1>3, <1>4, <1>6, <1>7, ReturnsPush
<1> HIDE DEF s
<1>9. PICK w : Returns(code, s, w) /\ w[Len(s)] = r /\ w[0] = u[0]
  BY <1>8
<1>10. q = IF pc = pc THEN GetNextChild(pc) ELSE pc
  BY DEF q
<1> QED
  BY <1>1, <1>3, <1>4, <1>6, <1>8, <1>9, <1>10, ItemKeeps DEF n

\* An item that leaves the counter alone goes on with the next one.
LEMMA NextItemKeeps ==
  ASSUME Types, Types', HandlersLeft, phase = "run", pc \in Spots,
         code' = code, roots' = roots, handlers' = handlers, outer' = outer,
         Advance(pc, stack),
         NEW u, Returns(code, stack, u),
         u[Len(stack)] = Meaning(code)[<<pc[1], pc[2] + 1, Now'>>],
         Fits(outer, handlers, u[0])
  PROVE  HandlersLeft' /\ OnCourse'
<1> DEFINE n == Now'
           q == GetNextChild(pc)
<1>1. code \in Codes /\ stack \in Seq(Spots) /\ n \in States
  BY NowTypeNext DEF Types
<1>2. u[Len(stack)] = Meaning(code)[<<pc[1], pc[2] + 1, n>>]
  OBVIOUS
<1> HIDE DEF n
<1>3. u[Len(stack)] = IF q = None THEN n ELSE Ahead(code, q, n)
  BY <1>1, <1>2, MeaningOfNext
<1> HIDE DEF q
<1>4. q = IF pc = pc THEN GetNextChild(pc) ELSE pc
  BY DEF q
<1> QED
  BY <1>1, <1>3, <1>4, ItemKeeps DEF n

\* A state with another number of repetitions left.
LEMMA LeftUpdate ==
  ASSUME NEW t \in States, NEW k \in 0..MaxRepeats
  PROVE  LET r == [t EXCEPT !.left = k]
         IN r \in States /\ r.log = t.log /\ r.left = k /\ r.over = t.over
            /\ r.skip = t.skip /\ r.stale = t.stale
  BY DEF States

\* AutoRepeat is one unfolding of the reference.
LEMMA AutoRepeatKeeps ==
  ASSUME Types, Types', HandlersLeft, OnCourse, AutoRepeat
  PROVE  HandlersLeft' /\ OnCourse'
<1>1. /\ Executes({"repeat"}) /\ UNCHANGED <<handlers, skip, stale, outer>>
      /\ \/ /\ repeats < MaxRepeats /\ repeats' = repeats + 1
            /\ Advance(FirstChild(pc[1]), stack)
         \/ /\ repeats = MaxRepeats /\ Advance(pc, stack) /\ repeats' = repeats
  BY DEF AutoRepeat
<1>2. Op(pc) # "macro" /\ Op(pc) = "repeat"
  BY <1>1 DEF Executes
<1> DEFINE t == [Now EXCEPT !.log = Append(@, pc)]
           n == Now'
<1>3. /\ code \in Codes /\ code' = code /\ roots' = roots /\ phase = "run" /\ pc \in Spots
      /\ stack \in Seq(Spots) /\ Now \in States /\ t \in States
      /\ t = [log |-> log', left |-> MaxRepeats - repeats, over |-> FALSE,
              skip |-> skip, stale |-> stale]
      /\ \E u : /\ Returns(code, stack, u)
                /\ Unfolds(u[Len(stack)], Meaning(code), code, pc[1], pc[2], Now,
                           Op(pc), Target(pc), t)
                /\ Fits(outer, handlers, u[0])
  BY <1>1, <1>2, AtItem
<1>4. PICK u : /\ Returns(code, stack, u)
               /\ Unfolds(u[Len(stack)], Meaning(code), code, pc[1], pc[2], Now,
                          Op(pc), Target(pc), t)
               /\ Fits(outer, handlers, u[0])
  BY <1>3
<1>5. n \in States /\ n = [log |-> log', left |-> MaxRepeats - repeats', over |-> FALSE,
                           skip |-> skip, stale |-> stale]
  BY <1>1, NowTypeNext DEF Now
<1>6. /\ Now.stale = stale /\ stale \in BOOLEAN /\ Now.left = MaxRepeats - repeats
      /\ repeats \in 0..MaxRepeats /\ MaxRepeats \in Nat
  BY Constants DEF Now, Types
<1> HIDE DEF n
<1>7. CASE repeats < MaxRepeats /\ repeats' = repeats + 1 /\ Advance(FirstChild(pc[1]), stack)
  <2>1. Now.left > 0 /\ t.left = MaxRepeats - repeats /\ t.left - 1 \in 0..MaxRepeats
        /\ t.left - 1 = MaxRepeats - repeats'
    BY <1>3, <1>6, <1>7
  <2>2. [t EXCEPT !.left = @ - 1] = n
    <3> HIDE DEF t
    <3> DEFINE k == t.left - 1
               r == [t EXCEPT !.left = k]
    <3>1. r \in States /\ r.log = t.log /\ r.left = k /\ r.over = t.over
          /\ r.skip = t.skip /\ r.stale = t.stale
      <4> HIDE DEF k
      <4> QED
        BY <1>3, <2>1, LeftUpdate DEF k
    <3>2. n.log = t.log /\ n.left = k /\ n.over = t.over /\ n.skip = t.skip
          /\ n.stale = t.stale
      BY <1>3, <1>5, <2>1
    <3>3. r = n
      <4> HIDE DEF r, k
      <4> QED
        BY <1>5, <3>1, <3>2, StatesEqual
    <3> QED
      BY <3>3 DEF r, k
  <2> HIDE DEF t
  <2>3. u[Len(stack)] = Meaning(code)[<<pc[1], IF pc[2] = 1 THEN 2 ELSE 1, n>>]
    BY <1>2, <1>4, <2>1, <2>2 DEF Unfolds
  <2>4. /\ pc[1] \in Macros /\ pc[2] \in 1..Len(Items(pc[1])) /\ pc = <<pc[1], pc[2]>>
        /\ FirstChild(pc[1]) \in Spots \cup {None}
    BY <1>3, PlaceTypes
  <2>5. FirstChild(pc[1]) = <<pc[1], 1>>
    <3>1. Items(pc[1]) # <<>>
      BY <2>4
    <3> QED
      BY <3>1 DEF FirstChild
  <2>6. CASE pc[2] = 1
    <3>1. FirstChild(pc[1]) = pc
      BY <2>4, <2>5, <2>6
    <3>2. u[Len(stack)] = Meaning(code)[<<pc[1], pc[2] + 1, n>>]
      BY <2>3, <2>6
    <3> QED
      BY <1>1, <1>3, <1>4, <1>7, <3>1, <3>2, NextItemKeeps DEF n
  <2>7. CASE pc[2] # 1
    <3> DEFINE p == <<pc[1], 1>>
    <3>1. p # pc /\ p \in Spots \cup Heads \cup {None} /\ p # None
      BY <2>4, <2>5, <2>7 DEF None
    <3>2. u[Len(stack)] = Ahead(code, p, n)
      BY <2>3, <2>7 DEF Ahead
    <3>3. Advance(p, stack)
      BY <1>7, <2>5
    <3> HIDE DEF p
    <3>4. p = IF p = pc THEN GetNextChild(p) ELSE p
      BY <3>1
    <3> QED
      BY <1>1, <1>3, <1>4, <3>1, <3>2, <3>3, <3>4, ItemKeeps DEF n
  <2> QED
    BY <2>6, <2>7
<1>8. CASE repeats = MaxRepeats /\ Advance(pc, stack) /\ repeats' = repeats
  <2>1. [t EXCEPT !.stale = Now.stale \/ Op(pc) = "inplace"] = n
    BY <1>2, <1>3, <1>5, <1>6, <1>8
  <2>2. ~(Now.left > 0)
    BY <1>6, <1>8
  <2> HIDE DEF t
  <2>3. u[Len(stack)] = Meaning(code)[<<pc[1], pc[2] + 1, n>>]
    BY <1>2, <1>4, <2>1, <2>2 DEF Unfolds
  <2> QED
    BY <1>1, <1>3, <1>4, <1>8, <2>3, NextItemKeeps DEF n
<1> QED
  BY <1>1, <1>7, <1>8

\* So is a macro that is called.
LEMMA ExecuteMacroKeeps ==
  ASSUME Types, Types', HandlersLeft, OnCourse, ExecuteMacro
  PROVE  HandlersLeft' /\ OnCourse'
<1> DEFINE m == pc[1]
           p == IF code[m].on THEN FirstChild(m) ELSE pc
           n == Now'
<1>1. Executes({"macro"}) /\ UNCHANGED <<handlers, skip, stale, outer, repeats>>
      /\ Advance(p, stack)
  BY DEF ExecuteMacro
<1>2. /\ code' = code /\ roots' = roots /\ phase = "run" /\ log' = log
      /\ Op(pc) = "macro"
  BY <1>1 DEF Executes
<1>3. code \in Codes /\ stack \in Seq(Spots) /\ pc \in Spots \cup Heads
  BY <1>2 DEF Types
<1>4. pc \in Heads
  BY <1>2, <1>3, PlaceTypes
<1>5. m \in Macros /\ pc = <<m, 0>> /\ GetNextChild(pc) = None
  BY <1>3, <1>4, PlaceTypes
<1>6. n = Now /\ n \in States
  BY <1>1, <1>2, NowTypeNext DEF Now
<1>7. PICK u : /\ Returns(code, stack, u)
               /\ u[Len(stack)] = Ahead(code, pc, Now) /\ Fits(outer, handlers, u[0])
  BY <1>2 DEF OnCourse
<1> HIDE DEF n
<1>8. u[Len(stack)] = Called(Meaning(code), code, m, n)
  BY <1>5, <1>6, <1>7 DEF Ahead
<1>9. FirstChild(m) \in Spots \cup {None}
      /\ FirstChild(m) = IF Items(m) = <<>> THEN None ELSE <<m, 1>>
  BY <1>3, <1>5, PlaceTypes
<1> DEFINE q == IF p = pc THEN GetNextChild(p) ELSE p
<1>10. p \in Spots \cup Heads \cup {None}
  BY <1>4, <1>9
<1>11. u[Len(stack)] = IF q = None THEN n ELSE Ahead(code, q, n)
  <2>1. CASE ~code[m].on
    BY <1>5, <1>8, <2>1 DEF Called
  <2>2. CASE code[m].on
    <3>1. u[Len(stack)] = Meaning(code)[<<m, 1, n>>] /\ p = FirstChild(m)
      BY <1>8, <2>2 DEF Called
    <3>2. CASE Items(m) = <<>>
      <4>1. 1 > Len(code[m].items) /\ 1 \in 1..(MaxLen + 1)
        BY <3>2, Constants DEF Items
      <4>2. Meaning(code)[<<m, 1, n>>] = n
        BY <1>3, <1>5, <1>6, <4>1, MeaningEnds
      <4>3. q = None
        BY <1>5, <1>9, <3>1, <3>2
      <4> QED
        BY <3>1, <4>2, <4>3
    <3>3. CASE Items(m) # <<>>
      <4>1. q = <<m, 1>> /\ q # None
        BY <1>5, <1>9, <3>1, <3>3 DEF None
      <4> QED
        BY <3>1, <4>1 DEF Ahead
    <3> QED
      BY <3>2, <3>3
  <2> QED
    BY <1>3, <1>5, <2>1, <2>2, ItemTypes
<1> HIDE DEF p
<1>12. q = IF p = pc THEN GetNextChild(p) ELSE p
  OBVIOUS
<1> HIDE DEF q
<1> QED
  BY <1>1, <1>2, <1>3, <1>7, <1>10, <1>11, <1>12, ItemKeeps DEF n

\* What the outermost event resumes with.
LEMMA ResumedIs ==
  ASSUME NEW o \in Seq(Frames), NEW r \in States
  PROVE  /\ Resumed(o, r) \in States
         /\ Resumed(o, r).log = r.log /\ Resumed(o, r).left = r.left
         /\ Resumed(o, r).over = FALSE
         /\ Resumed(o, r).skip = IF o = <<>> THEN r.skip ELSE o[1].skip
         /\ Resumed(o, r).stale = IF o = <<>> THEN r.stale ELSE o[1].stale
<1>1. CASE o = <<>>
  BY <1>1 DEF Resumed, States
<1>2. CASE o # <<>>
  <2>1. o[1] \in Frames
    BY <1>2
  <2>2. o[1].skip \in BOOLEAN /\ o[1].stale \in BOOLEAN
    BY <2>1 DEF Frames
  <2> DEFINE a == o[1].skip
             b == o[1].stale
  <2>3. Resumed(o, r) = [r EXCEPT !.over = FALSE, !.skip = a, !.stale = b]
    BY <1>2 DEF Resumed
  <2>4. a \in BOOLEAN /\ b \in BOOLEAN
    BY <2>2
  <2> HIDE DEF a, b
  <2>5. [r EXCEPT !.over = FALSE, !.skip = a, !.stale = b] \in States
        /\ [r EXCEPT !.over = FALSE, !.skip = a, !.stale = b].log = r.log
        /\ [r EXCEPT !.over = FALSE, !.skip = a, !.stale = b].left = r.left
        /\ [r EXCEPT !.over = FALSE, !.skip = a, !.stale = b].over = FALSE
        /\ [r EXCEPT !.over = FALSE, !.skip = a, !.stale = b].skip = a
        /\ [r EXCEPT !.over = FALSE, !.skip = a, !.stale = b].stale = b
    BY <2>4 DEF States
  <2>6. /\ Resumed(o, r) \in States
        /\ Resumed(o, r).log = r.log /\ Resumed(o, r).left = r.left
        /\ Resumed(o, r).over = FALSE /\ Resumed(o, r).skip = a /\ Resumed(o, r).stale = b
    BY <2>3, <2>5
  <2> QED
    BY <1>2, <2>6 DEF a, b
<1> QED
  BY <1>1, <1>2

\* Levels of events in place that resume with the same result.
LEMMA ResumedSame ==
  ASSUME NEW o \in Seq(Frames), NEW r \in States, NEW e \in Seq(Frames), NEW n \in States,
         r.log = n.log, r.left = n.left,
         (IF o = <<>> THEN r.skip ELSE o[1].skip) = (IF e = <<>> THEN n.skip ELSE e[1].skip),
         (IF o = <<>> THEN r.stale ELSE o[1].stale) = (IF e = <<>> THEN n.stale ELSE e[1].stale)
  PROVE  Resumed(o, r) = Resumed(e, n)
<1> DEFINE a == Resumed(o, r)
           b == Resumed(e, n)
<1>1. /\ a \in States /\ a.log = r.log /\ a.left = r.left /\ a.over = FALSE
      /\ a.skip = (IF o = <<>> THEN r.skip ELSE o[1].skip)
      /\ a.stale = (IF o = <<>> THEN r.stale ELSE o[1].stale)
  BY ResumedIs, Zenon
<1>3. /\ b \in States /\ b.log = n.log /\ b.left = n.left /\ b.over = FALSE
      /\ b.skip = (IF e = <<>> THEN n.skip ELSE e[1].skip)
      /\ b.stale = (IF e = <<>> THEN n.stale ELSE e[1].stale)
  BY ResumedIs, Zenon
<1>4. /\ a.log = b.log /\ a.left = b.left /\ a.over = b.over /\ a.skip = b.skip
      /\ a.stale = b.stale
  BY <1>1, <1>3, Zenon
<1> HIDE DEF a, b
<1>2. a = b
  BY <1>1, <1>3, <1>4, StatesEqual
<1> QED
  BY <1>2 DEF a, b

\* The state an event in place starts with, and the stale event it leaves.
LEMMA InPlaceUpdate ==
  ASSUME NEW t \in States
  PROVE  LET r == [t EXCEPT !.skip = FALSE, !.stale = FALSE]
         IN r \in States /\ r.log = t.log /\ r.left = t.left /\ r.over = t.over
            /\ r.skip = FALSE /\ r.stale = FALSE
  BY DEF States

\* A state with another event that is over.
LEMMA StaleUpdate ==
  ASSUME NEW t \in States, NEW b \in BOOLEAN
  PROVE  LET r == [t EXCEPT !.stale = b]
         IN r \in States /\ r.log = t.log /\ r.left = t.left /\ r.over = t.over
            /\ r.skip = t.skip /\ r.stale = b
  BY DEF States

\* An event executed in place is one unfolding of the reference.
LEMMA ExecuteInPlaceKeeps ==
  ASSUME Types, Types', HandlersLeft, OnCourse, ExecuteInPlace
  PROVE  HandlersLeft' /\ OnCourse'
<1> DEFINE to == Target(pc)
           b == StaleAfter(Op(pc))
           f == [handlers |-> handlers, skip |-> skip, stale |-> b]
<1>1. /\ Executes({"inplace", "restored"}) /\ repeats' = repeats
      /\ \/ /\ Active(<<to>>) # <<>>
            /\ outer' = Append(outer, f)
            /\ handlers' = Active(<<to>>) /\ skip' = FALSE /\ stale' = FALSE
            /\ phase' = "next" /\ pc' = None /\ stack' = <<>>
         \/ /\ Active(<<to>>) = <<>>
            /\ stale' = b /\ Advance(pc, stack)
            /\ UNCHANGED <<handlers, skip, outer>>
  BY DEF ExecuteInPlace
<1>2. Op(pc) # "macro" /\ Op(pc) \in {"inplace", "restored"} /\ Op(pc) \in Leaves
  BY <1>1 DEF Executes, Leaves
<1> DEFINE t == [Now EXCEPT !.log = Append(@, pc)]
           n == Now'
<1>3. /\ code \in Codes /\ code' = code /\ roots' = roots /\ phase = "run" /\ pc \in Spots
      /\ stack \in Seq(Spots) /\ Now \in States /\ t \in States
      /\ t = [log |-> log', left |-> MaxRepeats - repeats, over |-> FALSE,
              skip |-> skip, stale |-> stale]
      /\ \E u : /\ Returns(code, stack, u)
                /\ Unfolds(u[Len(stack)], Meaning(code), code, pc[1], pc[2], Now,
                           Op(pc), Target(pc), t)
                /\ Fits(outer, handlers, u[0])
  BY <1>1, <1>2, AtItem
<1>4. PICK u : /\ Returns(code, stack, u)
               /\ Unfolds(u[Len(stack)], Meaning(code), code, pc[1], pc[2], Now,
                          Op(pc), Target(pc), t)
               /\ Fits(outer, handlers, u[0])
  BY <1>3
<1>5. n \in States /\ n = [log |-> log', left |-> MaxRepeats - repeats, over |-> FALSE,
                           skip |-> skip', stale |-> stale']
  BY <1>1, NowTypeNext DEF Now
<1>6. Now.stale = stale /\ Now.skip = skip /\ skip \in BOOLEAN /\ stale \in BOOLEAN
      /\ b \in BOOLEAN /\ b = (Now.stale \/ Op(pc) = "inplace")
      /\ outer \in Seq(Frames) /\ handlers \in Seq(Macros)
  BY DEF Now, Types, StaleAfter
<1>7. to \in Macros
  BY <1>2, <1>3, PlaceTypes
<1>8. Active(<<to>>) = IF code[to].on THEN <<to>> ELSE <<>>
  BY <1>3, <1>7, ActiveIs
<1> HIDE DEF n, b, to
<1>9. CASE /\ Active(<<to>>) = <<>>
           /\ stale' = b /\ Advance(pc, stack) /\ UNCHANGED <<handlers, skip, outer>>
  <2>1. ~code[to].on
    BY <1>8, <1>9
  <2> HIDE DEF t
  <2>2. [t EXCEPT !.stale = Now.stale \/ Op(pc) = "inplace"] = n
    <3> DEFINE r == [t EXCEPT !.stale = b]
    <3>1. r \in States /\ r.log = t.log /\ r.left = t.left /\ r.over = t.over
          /\ r.skip = t.skip /\ r.stale = b
      BY <1>3, <1>6, StaleUpdate
    <3>2. n.log = t.log /\ n.left = t.left /\ n.over = t.over /\ n.skip = t.skip
          /\ n.stale = b
      BY <1>3, <1>5, <1>9
    <3>3. r = n
      <4> HIDE DEF r
      <4> QED
        BY <1>5, <3>1, <3>2, StatesEqual
    <3> QED
      BY <1>6, <3>3
  <2>3. u[Len(stack)] = Meaning(code)[<<pc[1], pc[2] + 1, n>>]
    BY <1>2, <1>4, <2>1, <2>2 DEF Unfolds, to
  <2> QED
    BY <1>1, <1>3, <1>4, <1>9, <2>3, NextItemKeeps DEF n
<1>10. CASE /\ Active(<<to>>) # <<>>
            /\ outer' = Append(outer, f)
            /\ handlers' = Active(<<to>>) /\ skip' = FALSE /\ stale' = FALSE
            /\ phase' = "next" /\ pc' = None /\ stack' = <<>>
  <2>1. code[to].on /\ handlers' = <<to>>
    BY <1>8, <1>10
  <2> HIDE DEF t
  <2>2. [t EXCEPT !.skip = FALSE, !.stale = FALSE] = n
    <3> DEFINE r == [t EXCEPT !.skip = FALSE, !.stale = FALSE]
    <3>1. r \in States /\ r.log = t.log /\ r.left = t.left /\ r.over = t.over
          /\ r.skip = FALSE /\ r.stale = FALSE
      BY <1>3, InPlaceUpdate
    <3>2. n.log = t.log /\ n.left = t.left /\ n.over = t.over /\ n.skip = FALSE
          /\ n.stale = FALSE
      BY <1>3, <1>5, <1>10
    <3>3. r = n
      <4> HIDE DEF r
      <4> QED
        BY <1>5, <3>1, <3>2, StatesEqual
    <3> QED
      BY <3>3 DEF r
  <2> DEFINE r == Called(Meaning(code), code, to, n)
             a == Now.skip
             d == [r EXCEPT !.over = TRUE, !.skip = a, !.stale = b]
  <2>3. r \in States
    BY <1>3, <1>5, <1>7, CalledIs
  <2>4. u[Len(stack)] = d
    <3>1. u[Len(stack)] = [r EXCEPT !.over = TRUE, !.skip = Now.skip,
                                    !.stale = Now.stale \/ Op(pc) = "inplace"]
      BY <1>2, <1>4, <2>1, <2>2 DEF Unfolds, to
    <3> QED
      BY <1>6, <3>1
  <2>5. d \in States /\ d.log = r.log /\ d.left = r.left /\ d.over = TRUE
        /\ d.skip = a /\ d.stale = b
    <3>1. a \in BOOLEAN
      BY <1>6
    <3> HIDE DEF r, a
    <3> QED
      BY <1>6, <2>3, <3>1 DEF States
  <2> HIDE DEF r, d
  <2>6. u[0] = d
    <3>1. 0 \in 0..Len(stack) /\ u[Len(stack)].over
      BY <1>3, <2>4, <2>5
    <3> QED
      BY <1>3, <1>4, <2>4, <3>1, NothingReturns
  <2>7. f \in Frames /\ f.handlers = handlers /\ f.skip = skip /\ f.stale = b
    BY <1>6 DEF Frames
  <2> HIDE DEF f
  <2>8. /\ outer' \in Seq(Frames) /\ Len(outer') = Len(outer) + 1 /\ Len(outer) \in Nat
        /\ outer'[Len(outer) + 1] = f /\ \A j \in 1..Len(outer) : outer'[j] = outer[j]
    BY <1>6, <1>10, <2>7, AppendProperties
  <2>9. outer' # <<>> /\ outer'[1] = IF outer = <<>> THEN f ELSE outer[1]
    <3>1. CASE outer = <<>>
      BY <2>8, <3>1
    <3>2. CASE outer # <<>>
      <4>1. 1 \in 1..Len(outer)
        BY <1>6, <2>8, <3>2, EmptySeq
      <4> QED
        BY <2>8, <3>2, <4>1
    <3> QED
      BY <3>1, <3>2
  <2>10. Base(outer', handlers') = Base(outer, handlers)
    BY <2>7, <2>9 DEF Base
  <2>11. /\ Active(roots)' = Active(roots) /\ Turned(outer', handlers') = Turned(outer, handlers)
         /\ \A o, h : Turned(o, h)' = Turned(o, h)
         /\ \A o, h, v : Fits(o, h, v)' <=> Fits(o, h, v)
    BY <1>3, <2>10, ActiveStays DEF Turned
  <2>12. Fits(outer', handlers', r)
    <3>1. (IF outer = <<>> THEN d.skip ELSE outer[1].skip) = outer'[1].skip
          /\ (IF outer = <<>> THEN d.stale ELSE outer[1].stale) = outer'[1].stale
      BY <1>6, <2>5, <2>7, <2>9
    <3>2. Resumed(outer, d) = Resumed(outer', r)
      BY <1>6, <2>3, <2>5, <2>8, <2>9, <3>1, ResumedSame
    <3> QED
      BY <1>4, <2>6, <2>11, <3>2 DEF Fits
  <2>13. \A j \in 2..Len(outer') : outer'[j].handlers = <<>>
    <3> SUFFICES ASSUME NEW j \in 2..Len(outer') PROVE outer'[j].handlers = <<>>
      OBVIOUS
    <3>1. CASE j \in 1..Len(outer)
      <4>1. j \in 2..Len(outer)
        BY <2>8, <3>1
      <4>2. outer'[j] = outer[j]
        BY <2>8, <3>1
      <4> QED
        BY <4>1, <4>2 DEF HandlersLeft
    <3>2. CASE j \notin 1..Len(outer)
      <4>1. j = Len(outer) + 1 /\ Len(outer) # 0
        BY <2>8, <3>2
      <4>2. outer # <<>>
        BY <4>1
      <4> QED
        BY <1>3, <2>7, <2>8, <4>1, <4>2 DEF HandlersLeft
    <3> QED
      BY <3>1, <3>2
  <2>14. handlers' # <<>> /\ handlers'[1] = to /\ Len(handlers') = 1
    BY <2>1
  <2>15. HandlersLeft'
    BY <1>10, <2>10, <2>11, <2>13, <2>14 DEF HandlersLeft, Base
  <2>16. OnCourse'
    <3>1. r = Called(Meaning(code), code, handlers'[1], Now')
      BY <2>14 DEF r, n
    <3>2. Fits(outer', handlers', IF outer' # <<>> /\ handlers' # <<>>
                             THEN Called(Meaning(code), code, handlers'[1], Now') ELSE Now')
      BY <2>9, <2>12, <2>14, <3>1
    <3> QED
      BY <1>3, <1>10, <2>11, <3>2 DEF OnCourse
  <2> QED
    BY <2>15, <2>16
<1> QED
  BY <1>1, <1>9, <1>10

\* The outer event's next handler, or the inner event's only one.
LEMMA StartProgramKeeps ==
  ASSUME Types, Types', HandlersLeft, OnCourse, StartProgram
  PROVE  HandlersLeft' /\ OnCourse'
<1> DEFINE m == Head(handlers)
           n == Now'
           r == Called(Meaning(code), code, m, n)
           w == [j \in 0..0 |-> r]
           Done == Handled(code, Active(roots), Start)
           k == Turned(outer, handlers)
<1>1. /\ phase = "next" /\ handlers # <<>> /\ ~skip
      /\ pc' = <<m, 0>> /\ stack' = <<>> /\ phase' = "run" /\ handlers' = Tail(handlers)
      /\ code' = code /\ roots' = roots /\ skip' = skip /\ stale' = stale /\ outer' = outer
      /\ repeats' = repeats /\ log' = log
  BY DEF StartProgram
<1>2. code \in Codes /\ handlers \in Seq(Macros) /\ outer \in Seq(Frames)
      /\ roots \in Seq(Macros)
  BY MacroAssumption DEF Types
<1>3. /\ m \in Macros /\ m = handlers[1] /\ Len(handlers) \in Nat /\ Len(handlers) > 0
      /\ Len(handlers') = Len(handlers) - 1
      /\ \A i \in 1..Len(handlers') : handlers'[i] = handlers[i + 1]
  BY <1>1, <1>2
<1>4. n = Now /\ n \in States /\ n.over = FALSE /\ n.skip = FALSE
  BY <1>1, NowTypeNext DEF Now
<1> HIDE DEF n, m
<1>5. r \in States
  BY <1>2, <1>3, <1>4, CalledIs
<1>6. Ahead(code, pc', n) = r
  BY <1>1 DEF Ahead
<1> HIDE DEF r
<1>7. Returns(code, stack', w) /\ w[Len(stack')] = r /\ w[0] = r
  BY <1>1, <1>5 DEF Returns
<1> HIDE DEF w
<1>8. /\ Active(roots)' = Active(roots)
      /\ \A o, h : Turned(o, h)' = Turned(o, h)
      /\ \A o, h, v : Fits(o, h, v)' <=> Fits(o, h, v)
  BY <1>1, ActiveStays
<1>9. SUFFICES HandlersLeft' /\ Fits(outer, handlers', r)
  <2>1. ASSUME HandlersLeft', Fits(outer, handlers', r)
        PROVE  OnCourse'
    <3>1. /\ Returns(code, stack', w) /\ w[Len(stack')] = Ahead(code, pc', Now')
          /\ Fits(outer, handlers', w[0])
      BY <1>6, <1>7, <2>1 DEF n
    <3> QED
      BY <1>1, <1>8, <3>1 DEF OnCourse
  <2> QED
    BY <2>1
<1>10. CASE outer = <<>>
  <2>1. Base(outer, handlers) = handlers /\ Base(outer, handlers') = handlers'
    BY <1>10 DEF Base
  <2>2. Active(roots) \in Seq(Macros) /\ Len(Active(roots)) \in Nat
    BY <1>2, ActiveIs
  <2>3. /\ Len(handlers) <= Len(Active(roots))
        /\ \A i \in 1..Len(handlers) : handlers[i] = Active(roots)[k + i]
        /\ k = Len(Active(roots)) - Len(handlers)
    BY <2>1 DEF HandlersLeft, Turned
  <2>4. Turned(outer, handlers') = k + 1 /\ k \in Nat /\ k + 1 \in 1..Len(Active(roots))
    <3> DEFINE a == Len(Active(roots))
               b == Len(handlers)
    <3>1. k = a - b /\ Turned(outer, handlers') = a - (b - 1)
      BY <1>3, <2>1, <2>3 DEF Turned
    <3>2. a \in Nat /\ b \in Nat /\ b > 0 /\ b <= a
      BY <1>3, <2>2, <2>3
    <3> HIDE DEF a, b, k
    <3>3. a - (b - 1) = k + 1 /\ k \in Nat /\ k + 1 \in 1..a
      BY <3>1, <3>2
    <3> QED
      BY <3>1, <3>3 DEF a
  <2> HIDE DEF k
  <2>5. \A i \in 1..Len(handlers') : handlers'[i] = Active(roots)[k + 1 + i]
    <3>1. SUFFICES ASSUME NEW i \in 1..Len(handlers')
                   PROVE  handlers'[i] = Active(roots)[k + 1 + i]
      OBVIOUS
    <3>2. i + 1 \in 1..Len(handlers) /\ k + (i + 1) = k + 1 + i
      BY <1>3, <2>4
    <3>3. handlers[i + 1] = Active(roots)[k + (i + 1)]
      BY <2>3, <3>2
    <3> QED
      BY <1>3, <3>2, <3>3
  <2>6. HandlersLeft'
    <3>1. Len(handlers') <= Len(Active(roots))
      BY <1>3, <2>2, <2>3
    <3> QED
      BY <1>1, <1>8, <1>10, <2>1, <2>4, <2>5, <3>1 DEF HandlersLeft
  <2>7. Done[k] = n
    <3>1. Resumed(outer, n) = Done[k]
      <4>1. Fits(outer, handlers, Now)
        BY <1>1, <1>10 DEF OnCourse
      <4> QED
        BY <1>4, <4>1 DEF Fits, k
    <3>2. Resumed(outer, n) \in States /\ Resumed(outer, n).log = n.log
          /\ Resumed(outer, n).left = n.left /\ Resumed(outer, n).over = n.over
          /\ Resumed(outer, n).skip = n.skip /\ Resumed(outer, n).stale = n.stale
      BY <1>2, <1>4, <1>10, ResumedIs
    <3>3. Resumed(outer, n) = n
      BY <1>4, <3>2, StatesEqual
    <3> QED
      BY <3>1, <3>3
  <2>8. Active(roots)[k + 1] = m
    <3>1. 1 \in 1..Len(handlers)
      BY <1>3
    <3> QED
      BY <1>3, <2>3, <3>1
  <2>9. Done[k + 1] = [r EXCEPT !.over = FALSE]
    <3> DEFINE h == Active(roots)
               Did == Handled(code, h, Start)
    <3>1. h \in Seq(Macros) /\ Start \in States /\ k + 1 \in 1..Len(h) /\ (k + 1) - 1 = k
      BY <2>2, <2>4, Constants DEF Start, States
    <3> HIDE DEF h
    <3>2. Did[k + 1] = IF Did[(k + 1) - 1].skip THEN Did[(k + 1) - 1]
                       ELSE [Called(Meaning(code), code, h[k + 1], Did[(k + 1) - 1])
                               EXCEPT !.over = FALSE]
      BY <1>2, <3>1, HandledIs
    <3> HIDE DEF Did
    <3>3. Did[k] = n /\ h[k + 1] = m
      BY <2>7, <2>8 DEF Did, h
    <3>4. Did[k + 1] = [Called(Meaning(code), code, m, n) EXCEPT !.over = FALSE]
      BY <1>4, <3>1, <3>2, <3>3
    <3> QED
      BY <3>4 DEF Did, h, r
  <2>10. Resumed(outer, r) = [r EXCEPT !.over = FALSE]
    BY <1>10 DEF Resumed
  <2> QED
    BY <2>4, <2>6, <2>9, <2>10 DEF Fits
<1>11. CASE outer # <<>>
  <2>1. Base(outer, handlers') = Base(outer, handlers)
    BY <1>11 DEF Base
  <2>2. handlers' = <<>>
    <3>1. Len(handlers) = 1
      BY <1>1, <1>11, Zenon DEF HandlersLeft
    <3>2. handlers' \in Seq(Macros) /\ Len(handlers') = 0
      BY <1>1, <1>2, <1>3, <3>1
    <3> QED
      BY <3>2, EmptySeq
  <2>3. HandlersLeft'
    BY <1>1, <1>8, <1>11, <2>1, <2>2 DEF HandlersLeft, Turned
  <2>4. r = Called(Meaning(code), code, handlers[1], Now)
    BY <1>3, <1>4 DEF r
  <2>5. Fits(outer, handlers, r)
    BY <1>1, <1>11, <2>4 DEF OnCourse
  <2>6. Fits(outer, handlers', r)
    BY <2>1, <2>5 DEF Fits, Turned
  <2> QED
    BY <2>3, <2>6
<1> QED
  BY <1>10, <1>11

\* The outer event goes on with its own flags.
LEMMA InnerDoneKeeps ==
  ASSUME Types, Types', HandlersLeft, OnCourse, InnerDone
  PROVE  HandlersLeft' /\ OnCourse'
<1> DEFINE d == Len(outer)
           n == Now'
<1>1. /\ phase = "next" /\ (handlers = <<>> \/ skip) /\ outer # <<>>
      /\ handlers' = outer[d].handlers /\ skip' = outer[d].skip /\ stale' = outer[d].stale
      /\ outer' = SubSeq(outer, 1, d - 1)
      /\ code' = code /\ roots' = roots /\ phase' = phase /\ repeats' = repeats /\ log' = log
  BY DEF InnerDone
<1>2. outer \in Seq(Frames) /\ d \in Nat /\ d > 0 /\ d = Len(outer) /\ outer[d] \in Frames
      /\ outer[1] \in Frames
  <2>1. outer \in Seq(Frames)
    BY DEF Types
  <2> QED
    BY <1>1, <2>1, EmptySeq
<1> HIDE DEF d
<1>3. outer' \in Seq(Frames) /\ Len(outer') = d - 1
      /\ \A j \in 1..(d - 1) : outer'[j] = outer[j]
  BY <1>1, <1>2
<1>4. handlers = <<>>
  BY <1>1 DEF HandlersLeft
<1>5. n \in States /\ n.log = log /\ n.left = MaxRepeats - repeats /\ n.over = FALSE
      /\ n.skip = outer[d].skip /\ n.stale = outer[d].stale
  BY <1>1, NowTypeNext DEF Now
<1>6. Now \in States /\ Now.log = log /\ Now.left = MaxRepeats - repeats
  BY NowType DEF Now
<1>7. Fits(outer, handlers, Now)
  BY <1>1, <1>4 DEF OnCourse
<1>8. /\ Active(roots)' = Active(roots)
      /\ \A o, h : Turned(o, h)' = Turned(o, h)
      /\ \A o, h, v : Fits(o, h, v)' <=> Fits(o, h, v)
  BY <1>1, ActiveStays
<1>9. /\ Base(outer', handlers') = Base(outer, handlers)
      /\ \A j \in 2..Len(outer') : outer'[j].handlers = <<>>
      /\ outer' # <<>> => handlers' = <<>> /\ outer'[1] = outer[1]
      /\ outer' = <<>> => d = 1
  <2>1. CASE d = 1
    <3>1. outer' = <<>>
      BY <1>3, <2>1, EmptySeq
    <3> QED
      BY <1>1, <1>3, <2>1, <3>1 DEF Base
  <2>2. CASE d # 1
    <3>1. d \in 2..d /\ 1 \in 1..(d - 1)
      BY <1>2, <2>2
    <3>2. outer' # <<>> /\ outer'[1] = outer[1]
      BY <1>3, <3>1
    <3>3. \A j \in 2..Len(outer') : outer'[j].handlers = <<>>
      BY <1>2, <1>3 DEF HandlersLeft
    <3>4. handlers' = <<>>
      BY <1>1, <1>2, <3>1 DEF HandlersLeft
    <3> QED
      BY <1>1, <3>2, <3>3, <3>4 DEF Base
  <2> QED
    BY <2>1, <2>2
<1>10. HandlersLeft'
  <2>1. Turned(outer', handlers') = Turned(outer, handlers)
    BY <1>9 DEF Turned
  <2> QED
    BY <1>1, <1>8, <1>9, <2>1 DEF HandlersLeft
<1> HIDE DEF n
<1>11. Resumed(outer', n) = Resumed(outer, Now)
  <2>1. (IF outer' = <<>> THEN n.skip ELSE outer'[1].skip) = outer[1].skip
        /\ (IF outer' = <<>> THEN n.stale ELSE outer'[1].stale) = outer[1].stale
    BY <1>5, <1>9
  <2> DEFINE o == outer'
             v == Now
  <2>2. /\ o \in Seq(Frames) /\ outer \in Seq(Frames) /\ n \in States /\ v \in States
        /\ n.log = v.log /\ n.left = v.left
        /\ (IF o = <<>> THEN n.skip ELSE o[1].skip)
             = (IF outer = <<>> THEN v.skip ELSE outer[1].skip)
        /\ (IF o = <<>> THEN n.stale ELSE o[1].stale)
             = (IF outer = <<>> THEN v.stale ELSE outer[1].stale)
    BY <1>1, <1>2, <1>3, <1>5, <1>6, <2>1
  <2> HIDE DEF o, v
  <2>3. Resumed(o, n) = Resumed(outer, v)
    BY <2>2, ResumedSame, Zenon
  <2> QED
    BY <2>3 DEF o, v
<1>12. Fits(outer', handlers', n)
  BY <1>7, <1>9, <1>11 DEF Fits, Turned
<1>13. OnCourse'
  BY <1>1, <1>8, <1>9, <1>12 DEF OnCourse, n
<1> QED
  BY <1>10, <1>13

\* A stopped event's handlers do nothing more.
LEMMA HandledStops ==
  ASSUME NEW c \in Codes, NEW h \in Seq(Macros), NEW s \in States, NEW k \in 0..Len(h),
         k = Len(h) \/ Handled(c, h, s)[k].skip
  PROVE  Handled(c, h, s)[Len(h)] = Handled(c, h, s)[k]
<1> DEFINE n == Len(h)
           H == Handled(c, h, s)
           S == {d \in 0..(n - k) : H[k + d] = H[k]}
<1>1. n \in Nat /\ k \in 0..n /\ n - k \in Nat
  OBVIOUS
<1>2. CASE k = n
  BY <1>2
<1>3. CASE H[k].skip
  <2>1. \A j \in 1..n : H[j - 1].skip => H[j] = H[j - 1]
    BY HandledIs
  <2> HIDE DEF n, H
  <2>2. 0 \in S
    BY <1>1
  <2>3. ASSUME NEW d \in 0..(n - k - 1), d \in S
        PROVE  d + 1 \in S
    <3>1. k + d + 1 \in 1..n /\ (k + d + 1) - 1 = k + d /\ k + (d + 1) = k + d + 1
          /\ d + 1 \in 0..(n - k) /\ H[k + d] = H[k]
      BY <1>1, <2>3
    <3>2. H[k + d + 1] = H[k + d]
      BY <1>3, <2>1, <3>1
    <3> QED
      BY <3>1, <3>2
  <2>4. 0..(n - k) \subseteq S
    <3> HIDE DEF S
    <3> QED
      BY <1>1, <2>2, <2>3, Along
  <2>5. n - k \in S /\ k + (n - k) = n
    BY <1>1, <2>4
  <2> QED
    BY <2>5 DEF n, H
<1> QED
  BY <1>2, <1>3

\* When no handler has a turn left, all of the event has been executed as written.
LEMMA FinishKeeps ==
  ASSUME Types, Types', HandlersLeft, OnCourse, Finish
  PROVE  HandlersLeft' /\ OnCourse'
<1> DEFINE h == Active(roots)
           k == Turned(outer, handlers)
<1>1. /\ phase = "next" /\ (handlers = <<>> \/ skip) /\ outer = <<>> /\ phase' = "done"
      /\ code' = code /\ roots' = roots /\ handlers' = handlers /\ skip' = skip
      /\ outer' = outer /\ log' = log
  BY DEF Finish
<1>2. code \in Codes /\ handlers \in Seq(Macros) /\ roots \in Seq(Macros) /\ outer \in Seq(Frames)
  BY MacroAssumption DEF Types
<1>3. h \in Seq(Macros) /\ Len(h) \in Nat /\ Len(handlers) \in Nat
  BY <1>2, ActiveIs
<1>4. Len(handlers) <= Len(h) /\ k = Len(h) - Len(handlers)
  BY <1>1 DEF HandlersLeft, Base, Turned
<1> HIDE DEF h, k
<1>5. k \in 0..Len(h) /\ (handlers = <<>> => k = Len(h))
  BY <1>3, <1>4
<1>6. Resumed(outer, Now) = Handled(code, h, Start)[k]
  BY <1>1 DEF OnCourse, Fits, h, k
<1>7. Now \in States /\ Now.skip = skip /\ Now.log = log
  BY NowType DEF Now
<1>8. Resumed(outer, Now).skip = skip /\ Resumed(outer, Now).log = log
  BY <1>1, <1>2, <1>7, ResumedIs
<1>9. Start \in States
  BY Constants DEF Start, States
<1>10. Handled(code, h, Start)[Len(h)] = Handled(code, h, Start)[k]
  BY <1>1, <1>2, <1>3, <1>5, <1>6, <1>8, <1>9, HandledStops
<1>11. log = Written(code, Active(roots))
  BY <1>6, <1>8, <1>10 DEF Written, h
<1>12. /\ Active(roots)' = Active(roots)
       /\ \A o, e : Turned(o, e)' = Turned(o, e)
  BY <1>1, ActiveStays
<1>13. HandlersLeft'
  BY <1>1, <1>12 DEF HandlersLeft
<1> QED
  BY <1>1, <1>11, <1>12, <1>13 DEF OnCourse

\* Nothing has been executed at the start.
LEMMA InitOnCourse == Init => HandlersLeft /\ OnCourse
<1> SUFFICES ASSUME Init PROVE HandlersLeft /\ OnCourse
  OBVIOUS
<1>1. /\ code \in Codes /\ roots \in Seq(Macros) /\ phase = "next" /\ handlers = Active(roots)
      /\ skip = FALSE /\ stale = FALSE /\ outer = <<>> /\ repeats = 0 /\ log = <<>>
  BY MacroAssumption DEF Init
<1> DEFINE h == Active(roots)
<1>2. h \in Seq(Macros) /\ Len(h) \in Nat
  BY <1>1, ActiveIs
<1>3. Base(outer, handlers) = h /\ Turned(outer, handlers) = 0
  BY <1>1, <1>2 DEF Base, Turned
<1>4. HandlersLeft
  <2> HIDE DEF h
  <2>1. \A i \in 1..Len(h) : h[i] = h[0 + i]
    BY <1>2
  <2> QED
    BY <1>1, <1>2, <1>3, <2>1 DEF HandlersLeft, h
<1>5. Now = Start /\ Start \in States
  <2>1. MaxRepeats - repeats = MaxRepeats
    BY <1>1, Constants
  <2>2. Now = Start
    BY <1>1, <2>1, Zenon DEF Now, Start
  <2> QED
    BY <2>2, Constants DEF Start, States
<1>6. Resumed(outer, Now) = Start
  BY <1>1, <1>5 DEF Resumed, Start
<1>7. Handled(code, h, Start)[0] = Start
  BY <1>1, <1>2, <1>5, HandledIs
<1>8. Fits(outer, handlers, Now)
  BY <1>3, <1>6, <1>7 DEF Fits
<1> QED
  BY <1>1, <1>4, <1>8 DEF OnCourse

\* Every step keeps what is executed on the course the reference gives.
LEMMA NextOnCourse ==
  Types /\ Types' /\ HandlersLeft /\ OnCourse /\ [Next]_vars => HandlersLeft' /\ OnCourse'
<1> SUFFICES ASSUME Types, Types', HandlersLeft, OnCourse, [Next]_vars
             PROVE  HandlersLeft' /\ OnCourse'
  OBVIOUS
<1>1. CASE UNCHANGED vars
  <2>1. /\ code' = code /\ roots' = roots /\ phase' = phase /\ handlers' = handlers
        /\ skip' = skip /\ stale' = stale /\ pc' = pc /\ stack' = stack /\ outer' = outer
        /\ repeats' = repeats /\ log' = log
    BY <1>1 DEF vars
  <2>2. /\ Active(roots)' = Active(roots)
        /\ \A o, h : Turned(o, h)' = Turned(o, h)
        /\ \A o, h, v : Fits(o, h, v)' <=> Fits(o, h, v)
    BY <2>1, ActiveStays
  <2>3. HandlersLeft'
    BY <2>1, <2>2 DEF HandlersLeft
  <2>4. Now' = Now
    BY <2>1 DEF Now
  <2> QED
    BY <2>1, <2>2, <2>3, <2>4 DEF OnCourse
<1> QED
  BY <1>1, StartProgramKeeps, ExecuteMacroKeeps, PlainKeeps, StopKeeps, JumpKeeps,
     LostJumpKeeps, AutoRepeatKeeps, ExecuteInPlaceKeeps, InnerDoneKeeps, FinishKeeps
     DEF Next

\* RunsAsWritten is an invariant: whatever the macros jump to, call, repeat or
\* execute in place, and whichever of them are disabled, RunProgram's counter and
\* return stack make it execute what the macros say, handler after handler.
THEOREM MacrosRunAsWritten == Spec => []RunsAsWritten
<1> DEFINE I == Types /\ HandlersLeft /\ OnCourse
<1>1. Init => I
  BY InitTypes, InitOnCourse
<1>2. I /\ [Next]_vars => I'
  BY NextTypes, NextOnCourse
<1>3. I => RunsAsWritten
  BY DEF OnCourse, RunsAsWritten
<1> QED
  BY <1>1, <1>2, <1>3, PTL DEF Spec
=============================================================================
