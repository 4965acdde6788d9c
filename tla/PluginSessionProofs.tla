------------------------- MODULE PluginSessionProofs -------------------------
(***************************************************************************)
(* What holds of plugins and sessions for any files, failures and bounds.  *)
(*                                                                         *)
(* Inv is inductive in every run.  It has the types, and who waits for     *)
(* whom: at most one job of the action thread is waited for by the main    *)
(* thread and one by the event thread, it is the job that fits the place   *)
(* where the caller is, and then no answer is on its way yet.  So an       *)
(* answer always finds the caller that asked, and what the main thread     *)
(* gets from NewPlugin is a plugin.                                        *)
(*                                                                         *)
(* Uncrossed is inductive as long as `crossed` is FALSE: no end of a       *)
(* session came between, no command ran beside the dialog of a new plugin, *)
(* and no OnDelete raised.  (RestoredNameIsFree is violated where one of   *)
(* the last two happened, so this cannot be dropped.)  It has the order of *)
(* sessions (at most one change of sessions is under way), where the       *)
(* plugins of the waiting jobs are (in the tree, or taken out of it and    *)
(* still open), that a plugin's close comes after every start of it but    *)
(* those `strays` knows, and that eg.pluginList holds the tree and what is *)
(* to be closed.                                                           *)
(*                                                                         *)
(* The jobs are first put into classes by what they have in common:        *)
(* RunStep, DeleteStep, OpenStep, CloseStep, GoneStep and MadeStep.  Each  *)
(* class keeps the invariant (the lemmas ...Keeps), and each job is in one *)
(* (the lemmas ...Gives).                                                  *)
(*                                                                         *)
(* Following and WayBack are each inductive on top of the two.  Following  *)
(* says which jobs still owe a plugin its start or stop.  WayBack says     *)
(* that the two undo stocks lead back from the names of the tree: there    *)
(* are trees of names, one for each handler, and what a handler puts in    *)
(* or takes out leads from one to the next.  While a command is under way  *)
(* its handler is on no stock, and Between says where the stocks start.    *)
(***************************************************************************)
EXTENDS PluginSession, TLAPS

-----------------------------------------------------------------------------
(* Sequences: the queues, and the plugins of the tree. *)
LEMMA RangeOfAppend ==
  ASSUME NEW S, NEW s \in Seq(S), NEW e \in S
  PROVE  Append(s, e) \in Seq(S) /\ Range(Append(s, e)) = Range(s) \cup {e}
<1>1. Append(s, e) \in Seq(S) /\ Len(Append(s, e)) = Len(s) + 1
  OBVIOUS
<1>2. \A k \in DOMAIN s : Append(s, e)[k] = s[k]
  OBVIOUS
<1>3. Append(s, e)[Len(s) + 1] = e
  OBVIOUS
<1>4. QED
  BY <1>1, <1>2, <1>3 DEF Range

\* A sequence over a set is one over a larger set.
LEMMA WiderSeq == ASSUME NEW S, NEW T, S \subseteq T, NEW s \in Seq(S) PROVE s \in Seq(T)
  OBVIOUS

\* What is left of a queue without its head.
LEMMA RangeOfTail ==
  ASSUME NEW S, NEW s \in Seq(S), s # <<>>
  PROVE  /\ Tail(s) \in Seq(S) /\ Head(s) \in S /\ Head(s) \in Range(s)
         /\ Range(s) = {Head(s)} \cup Range(Tail(s))
         /\ Len(Tail(s)) = Len(s) - 1
         /\ \A k \in DOMAIN Tail(s) : k + 1 \in DOMAIN s /\ Tail(s)[k] = s[k + 1]
<1>1. Tail(s) \in Seq(S) /\ Head(s) = s[1] /\ Len(Tail(s)) = Len(s) - 1 /\ Len(s) \in Nat \ {0}
  OBVIOUS
<1>2. \A k \in DOMAIN Tail(s) : k + 1 \in DOMAIN s /\ Tail(s)[k] = s[k + 1]
  OBVIOUS
<1>3. \A k \in DOMAIN s : k # 1 => k - 1 \in DOMAIN Tail(s) /\ Tail(s)[k - 1] = s[k]
  OBVIOUS
<1>4. Range(s) \subseteq {Head(s)} \cup Range(Tail(s))
  BY <1>1, <1>3 DEF Range
<1>5. {Head(s)} \cup Range(Tail(s)) \subseteq Range(s)
  BY <1>1, <1>2 DEF Range
<1>6. QED
  BY <1>1, <1>2, <1>4, <1>5

\* The sequences a job appends: none, one or two elements.
LEMMA RangeOfShort ==
  ASSUME NEW S, NEW a \in S, NEW b \in S
  PROVE  /\ Range(<<>>) = {} /\ <<>> \in Seq(S)
         /\ Range(<<a>>) = {a} /\ <<a>> \in Seq(S)
         /\ Range(<<a, b>>) = {a, b} /\ <<a, b>> \in Seq(S)
  BY DEF Range

\* The elements of a concatenation.
LEMMA ConcatAt ==
  ASSUME NEW S, NEW s \in Seq(S), NEW t \in Seq(S)
  PROVE  /\ s \o t \in Seq(S) /\ Len(s \o t) = Len(s) + Len(t)
         /\ \A k \in 1..Len(s) : (s \o t)[k] = s[k]
         /\ \A k \in Len(s) + 1..Len(s) + Len(t) : (s \o t)[k] = t[k - Len(s)]
<1>1. s \o t \in Seq(S) /\ Len(s \o t) = Len(s) + Len(t)
  OBVIOUS
<1>2. \A k \in 1..Len(s) : (s \o t)[k] = s[k]
  OBVIOUS
<1>3. \A k \in Len(s) + 1..Len(s) + Len(t) : (s \o t)[k] = t[k - Len(s)]
  OBVIOUS
<1>4. QED
  BY <1>1, <1>2, <1>3

\* The elements of a concatenation, as a set.
LEMMA RangeOfConcat ==
  ASSUME NEW S, NEW s \in Seq(S), NEW t \in Seq(S)
  PROVE  s \o t \in Seq(S) /\ Range(s \o t) = Range(s) \cup Range(t)
<1>1. s \o t \in Seq(S) /\ Len(s \o t) = Len(s) + Len(t)
  OBVIOUS
<1>2. \A k \in DOMAIN s : k \in DOMAIN (s \o t) /\ (s \o t)[k] = s[k]
  OBVIOUS
<1>3. \A k \in DOMAIN t : Len(s) + k \in DOMAIN (s \o t) /\ (s \o t)[Len(s) + k] = t[k]
  OBVIOUS
<1>4. \A k \in DOMAIN (s \o t) : k \in DOMAIN s \/ (k - Len(s) \in DOMAIN t /\ (s \o t)[k] = t[k - Len(s)])
  OBVIOUS
<1>5. Range(s) \cup Range(t) \subseteq Range(s \o t)
  BY <1>2, <1>3 DEF Range
<1>6. Range(s \o t) \subseteq Range(s) \cup Range(t)
  BY <1>2, <1>4 DEF Range
<1>7. QED
  BY <1>1, <1>5, <1>6

\* Without, place by place.
LEMMA WithoutAt ==
  ASSUME NEW S, tree \in Seq(S), IsInjective(tree), NEW p \in DOMAIN tree
  PROVE  LET t == Without(tree[p])
         IN /\ t \in Seq(S) /\ Len(t) = Len(tree) - 1
            /\ \A k \in 1..Len(tree) - 1 : t[k] = IF k < p THEN tree[k] ELSE tree[k + 1]
<1> DEFINE q == CHOOSE k \in DOMAIN tree : tree[k] = tree[p]
           t == Without(tree[p])
<1>1. q = p
  BY DEF IsInjective
<1>2. t = SubSeq(tree, 1, p - 1) \o SubSeq(tree, p + 1, Len(tree))
  BY <1>1 DEF Without, RemoveAt, Range
<1> HIDE DEF q, t
<1>3. /\ t \in Seq(S) /\ Len(t) = Len(tree) - 1
      /\ \A k \in 1..Len(tree) - 1 : t[k] = IF k < p THEN tree[k] ELSE tree[k + 1]
  <2>1. p \in 1..Len(tree) /\ Len(tree) \in Nat
    OBVIOUS
  <2> DEFINE n == Len(tree)
             u == SubSeq(tree, 1, p - 1)
             v == SubSeq(tree, p + 1, n)
  <2>2. /\ u \in Seq(S) /\ Len(u) = p - 1 /\ \A k \in 1..p - 1 : u[k] = tree[k]
        /\ v \in Seq(S) /\ Len(v) = n - p /\ \A k \in 1..n - p : v[k] = tree[p + k]
    BY <2>1
  <2>3. t = u \o v /\ n \in Nat /\ p \in 1..n
    BY <1>2, <2>1
  <2> HIDE DEF u, v, n
  <2>4. /\ t \in Seq(S) /\ Len(t) = n - 1
        /\ \A k \in 1..n - 1 : t[k] = IF k < p THEN u[k] ELSE v[k - (p - 1)]
    <3>0. u \in Seq(S) /\ v \in Seq(S)
      BY <2>2
    <3>1. /\ t \in Seq(S) /\ Len(t) = Len(u) + Len(v)
          /\ \A k \in 1..Len(u) : t[k] = u[k]
          /\ \A k \in Len(u) + 1..Len(u) + Len(v) : t[k] = v[k - Len(u)]
      BY <2>3, <3>0, ConcatAt
    <3>2. ASSUME NEW k \in 1..n - 1, ~(k < p) PROVE t[k] = v[k - (p - 1)]
      <4>1. k \in Len(u) + 1..Len(u) + Len(v) /\ k - (p - 1) = k - Len(u)
        BY <2>2, <2>3, <3>2
      <4>2. QED
        BY <3>1, <4>1
    <3>3. ASSUME NEW k \in 1..n - 1, k < p PROVE t[k] = u[k]
      BY <2>2, <2>3, <3>1, <3>3
    <3>4. Len(t) = n - 1
      BY <2>2, <2>3, <3>1
    <3>5. QED
      BY <3>1, <3>2, <3>3, <3>4
  <2>5. ASSUME NEW k \in 1..n - 1 PROVE t[k] = IF k < p THEN tree[k] ELSE tree[k + 1]
    <3>1. CASE k < p
      BY <2>2, <2>3, <2>4, <3>1
    <3>2. CASE ~(k < p)
      <4>1. k - (p - 1) \in 1..n - p /\ p + (k - (p - 1)) = k + 1
        BY <2>3, <3>2
      <4>2. t[k] = v[k - (p - 1)] /\ v[k - (p - 1)] = tree[p + (k - (p - 1))]
        BY <2>2, <2>4, <3>2, <4>1
      <4>3. QED
        BY <3>2, <4>1, <4>2
    <3>3. QED
      BY <3>1, <3>2
  <2>6. QED
    BY <2>4, <2>5 DEF n
<1>4. QED
  BY <1>3 DEF t

\* The tree with a new item, place by place.
LEMMA InsertedAt ==
  ASSUME NEW S, tree \in Seq(S), NEW x \in S, NEW p \in Nat, p >= 1
  PROVE  LET t == IF p > Len(tree) THEN Append(tree, x) ELSE InsertAt(tree, p, x)
             q == IF p > Len(tree) THEN Len(tree) + 1 ELSE p
         IN /\ q \in 1..Len(tree) + 1 /\ t \in Seq(S) /\ Len(t) = Len(tree) + 1
            /\ \A k \in 1..Len(tree) + 1 :
                 t[k] = IF k < q THEN tree[k] ELSE IF k = q THEN x ELSE tree[k - 1]
<1> DEFINE t == IF p > Len(tree) THEN Append(tree, x) ELSE InsertAt(tree, p, x)
           q == IF p > Len(tree) THEN Len(tree) + 1 ELSE p
<1>1. q \in 1..Len(tree) + 1
  OBVIOUS
<1>2. /\ t \in Seq(S) /\ Len(t) = Len(tree) + 1
      /\ \A k \in 1..Len(tree) + 1 : t[k] = IF k < q THEN tree[k] ELSE IF k = q THEN x ELSE tree[k - 1]
  <2>1. CASE p > Len(tree)
    BY <2>1
  <2>2. CASE p <= Len(tree)
    <3>1. t = SubSeq(tree, 1, p - 1) \o <<x>> \o SubSeq(tree, p, Len(tree)) /\ q = p
      BY <2>2 DEF InsertAt
    <3>2. /\ SubSeq(tree, 1, p - 1) \in Seq(S) /\ SubSeq(tree, p, Len(tree)) \in Seq(S)
          /\ Len(SubSeq(tree, 1, p - 1)) = p - 1
          /\ Len(SubSeq(tree, p, Len(tree))) = Len(tree) - p + 1
          /\ \A k \in 1..p - 1 : SubSeq(tree, 1, p - 1)[k] = tree[k]
          /\ \A k \in 1..Len(tree) - p + 1 : SubSeq(tree, p, Len(tree))[k] = tree[p + k - 1]
      BY <2>2
    <3> DEFINE u == SubSeq(tree, 1, p - 1)
               v == SubSeq(tree, p, Len(tree))
    <3> HIDE DEF t, q, u, v
    <3>3. /\ t \in Seq(S) /\ Len(t) = Len(tree) + 1
          /\ \A k \in 1..p - 1 : t[k] = u[k]
          /\ t[p] = x
          /\ \A k \in p + 1..Len(tree) + 1 : t[k] = v[k - p]
      <4>1. u \in Seq(S) /\ v \in Seq(S) /\ Len(u) = p - 1 /\ Len(v) = Len(tree) - p + 1
            /\ t = u \o <<x>> \o v
        BY <3>1, <3>2 DEF u, v
      <4> HIDE DEF u, v
      <4>2. /\ t \in Seq(S) /\ Len(t) = Len(u) + 1 + Len(v)
            /\ \A k \in 1..Len(u) : t[k] = u[k]
            /\ t[Len(u) + 1] = x
            /\ \A k \in Len(u) + 2..Len(u) + 1 + Len(v) : t[k] = v[k - Len(u) - 1]
        <5> DEFINE w == u \o <<x>>
        <5>1. /\ w \in Seq(S) /\ Len(w) = Len(u) + 1 /\ w[Len(u) + 1] = x
              /\ \A k \in 1..Len(u) : w[k] = u[k]
          BY <4>1
        <5>2. t = w \o v
          BY <4>1
        <5> HIDE DEF w
        <5>3. /\ w \o v \in Seq(S) /\ Len(w \o v) = Len(w) + Len(v)
              /\ \A k \in 1..Len(w) : (w \o v)[k] = w[k]
              /\ \A k \in Len(w) + 1..Len(w) + Len(v) : (w \o v)[k] = v[k - Len(w)]
          BY <4>1, <5>1
        <5>4. Len(u) \in Nat /\ Len(v) \in Nat /\ Len(w) = Len(u) + 1
          BY <4>1, <5>1
        <5>5. ASSUME NEW k \in Len(u) + 2..Len(u) + 1 + Len(v) PROVE t[k] = v[k - Len(u) - 1]
          <6>1. k \in Len(w) + 1..Len(w) + Len(v) /\ k - Len(w) = k - Len(u) - 1
            BY <5>4
          <6>2. t[k] = v[k - Len(w)]
            BY <6>1, <5>2, <5>3
          <6>3. QED
            BY <6>1, <6>2
        <5>6. /\ t \in Seq(S) /\ Len(t) = Len(u) + 1 + Len(v)
              /\ \A k \in 1..Len(u) : t[k] = w[k]
              /\ t[Len(u) + 1] = w[Len(u) + 1]
          BY <5>2, <5>3, <5>4
        <5>7. QED
          BY <5>1, <5>4, <5>5, <5>6
      <4>3. \A k \in Nat : k - (p - 1) - 1 = k - p
        BY <2>2
      <4>4. QED
        BY <4>1, <4>2, <4>3, <2>2
    <3>4. \A k \in p + 1..Len(tree) + 1 : t[k] = tree[k - 1]
      BY <2>2, <3>2, <3>3 DEF v
    <3>5. \A k \in 1..p - 1 : t[k] = tree[k]
      BY <3>2, <3>3 DEF u
    <3>6. ASSUME NEW k \in 1..Len(tree) + 1
          PROVE  t[k] = IF k < q THEN tree[k] ELSE IF k = q THEN x ELSE tree[k - 1]
      <4>1. q = p /\ (k < p => k \in 1..p - 1) /\ (k > p => k \in p + 1..Len(tree) + 1)
        BY <2>2, <3>1
      <4>2. CASE k < p
        BY <3>5, <4>1, <4>2
      <4>3. CASE k = p
        BY <3>3, <4>1, <4>3
      <4>4. CASE k > p
        BY <3>4, <4>1, <4>4
      <4>5. QED
        BY <4>2, <4>3, <4>4
    <3>7. QED
      BY <3>3, <3>6
  <2>3. QED
    BY <2>1, <2>2
<1>3. QED
  BY <1>1, <1>2

\* Without takes the item out of the tree and nothing else.
LEMMA RemovedFromTree ==
  ASSUME NEW S, tree \in Seq(S), IsInjective(tree), NEW i
  PROVE  Without(i) \in Seq(S) /\ IsInjective(Without(i)) /\ Range(Without(i)) = Range(tree) \ {i}
<1>1. CASE i \notin Range(tree)
  BY <1>1 DEF Without
<1>2. CASE i \in Range(tree)
  <2>1. PICK p \in DOMAIN tree : tree[p] = i
    BY <1>2 DEF Range
  <2> DEFINE t == Without(i)
  <2>2. t = Without(tree[p])
    BY <2>1
  <2>3. /\ t \in Seq(S) /\ Len(t) = Len(tree) - 1
        /\ \A k \in 1..Len(tree) - 1 : t[k] = IF k < p THEN tree[k] ELSE tree[k + 1]
    BY <2>2, WithoutAt
  <2> HIDE DEF t
  <2>4. IsInjective(t)
    <3>1. SUFFICES ASSUME NEW a \in 1..Len(t), NEW b \in 1..Len(t), t[a] = t[b] PROVE a = b
      BY <2>3 DEF IsInjective
    <3>2. \A k, l \in 1..Len(tree) : tree[k] = tree[l] => k = l
      BY DEF IsInjective
    <3> DEFINE Old(k) == IF k < p THEN k ELSE k + 1
    <3>3. \A k \in 1..Len(t) : t[k] = tree[Old(k)] /\ Old(k) \in 1..Len(tree)
      BY <2>1, <2>3
    <3>4. Old(a) = Old(b)
      BY <3>1, <3>2, <3>3
    <3>5. QED
      BY <3>4, <2>1, <2>3
  <2>5. \A k \in DOMAIN tree : k # p => \E l \in DOMAIN t : t[l] = tree[k]
    <3>1. SUFFICES ASSUME NEW k \in DOMAIN tree, k # p PROVE \E l \in DOMAIN t : t[l] = tree[k]
      OBVIOUS
    <3>2. CASE k < p
      BY <3>1, <3>2, <2>1, <2>3
    <3>3. CASE k > p
      <4>1. k - 1 \in DOMAIN t /\ t[k - 1] = tree[k]
        BY <3>1, <3>3, <2>1, <2>3
      <4>2. QED
        BY <4>1
    <3>4. QED
      BY <3>1, <3>2, <3>3, <2>1
  <2>6. \A l \in DOMAIN t : t[l] \in Range(tree) /\ t[l] # i
    BY <2>1, <2>3 DEF IsInjective, Range
  <2>7. Range(t) = Range(tree) \ {i}
    BY <2>1, <2>5, <2>6 DEF Range
  <2>8. QED
    BY <2>3, <2>4, <2>7 DEF t
<1>3. QED
  BY <1>1, <1>2

\* Open puts the new item into the tree, at its place or at the end.
LEMMA InsertedInTree ==
  ASSUME NEW S, tree \in Seq(S), IsInjective(tree), NEW x \in S, x \notin Range(tree),
         NEW p \in Nat
  PROVE  LET t == IF p > Len(tree) THEN Append(tree, x) ELSE InsertAt(tree, p, x)
         IN p >= 1 => t \in Seq(S) /\ IsInjective(t) /\ Range(t) = Range(tree) \cup {x}
<1> DEFINE t == IF p > Len(tree) THEN Append(tree, x) ELSE InsertAt(tree, p, x)
<1> SUFFICES ASSUME p >= 1 PROVE t \in Seq(S) /\ IsInjective(t) /\ Range(t) = Range(tree) \cup {x}
  OBVIOUS
<1> DEFINE q == IF p > Len(tree) THEN Len(tree) + 1 ELSE p
<1>1. q \in 1..Len(tree) + 1
  OBVIOUS
<1>2. /\ t \in Seq(S) /\ Len(t) = Len(tree) + 1
      /\ \A k \in 1..Len(tree) + 1 : t[k] = IF k < q THEN tree[k] ELSE IF k = q THEN x ELSE tree[k - 1]
  BY InsertedAt
<1> HIDE DEF t, q
<1>3. \A k, l \in 1..Len(tree) : tree[k] = tree[l] => k = l
  BY DEF IsInjective
<1>4. \A k \in 1..Len(tree) : tree[k] # x
  BY DEF Range
<1>5. IsInjective(t)
  <2>1. SUFFICES ASSUME NEW a \in 1..Len(t), NEW b \in 1..Len(t), t[a] = t[b] PROVE a = b
    BY <1>2 DEF IsInjective
  <2> DEFINE Old(k) == IF k < q THEN k ELSE k - 1
  <2>2. \A k \in 1..Len(t) : k # q => t[k] = tree[Old(k)] /\ Old(k) \in 1..Len(tree)
    BY <1>1, <1>2
  <2>3. t[q] = x
    BY <1>1, <1>2
  <2>4. a = q <=> b = q
    BY <2>1, <2>2, <2>3, <1>4
  <2>5. a # q => Old(a) = Old(b)
    BY <2>1, <2>2, <2>4, <1>3
  <2>6. QED
    BY <2>4, <2>5, <1>1, <1>2
<1>6. \A k \in 1..Len(tree) : \E l \in 1..Len(t) : t[l] = tree[k]
  <2>1. SUFFICES ASSUME NEW k \in 1..Len(tree) PROVE \E l \in 1..Len(t) : t[l] = tree[k]
    OBVIOUS
  <2>2. CASE k < q
    BY <2>2, <1>1, <1>2
  <2>3. CASE k >= q
    <3>1. k + 1 \in 1..Len(t) /\ t[k + 1] = tree[k]
      BY <2>3, <1>1, <1>2
    <3>2. QED
      BY <3>1
  <2>4. QED
    BY <2>2, <2>3, <1>1
<1>7. q \in 1..Len(t) /\ t[q] = x
  BY <1>1, <1>2
<1>8. \A l \in 1..Len(t) : t[l] = x \/ \E k \in 1..Len(tree) : t[l] = tree[k]
  BY <1>1, <1>2
<1>9. Range(t) = Range(tree) \cup {x}
  <2>1. DOMAIN t = 1..Len(t) /\ DOMAIN tree = 1..Len(tree)
    BY <1>2
  <2>2. Range(t) \subseteq Range(tree) \cup {x}
    BY <1>8, <2>1 DEF Range
  <2>3. Range(tree) \cup {x} \subseteq Range(t)
    BY <1>6, <1>7, <2>1 DEF Range
  <2>4. QED
    BY <2>2, <2>3
<1>10. QED
  BY <1>2, <1>5, <1>9 DEF t

-----------------------------------------------------------------------------
(* The methods of PluginInstanceInfo. *)
Known(n) == SUBSET (1..n)
Names == SUBSET Nat

Infos(n) == [started : Known(n), failed : Known(n), initFailed : Known(n), list : Known(n),
             names : SUBSET Nat, closed : Known(n), again : Known(n)]

\* What is known of some instances is still so when there are more.
LEMMA InfosGrow ==
  ASSUME NEW m \in Nat, NEW n \in Nat, m <= n, NEW w \in Infos(m)
  PROVE  w \in Infos(n)
<1>1. 1..m \subseteq 1..n
  OBVIOUS
<1>2. QED
  BY <1>1 DEF Infos, Known

\* Start: what is not started is called; those that raise are failed.
LEMMA StartFacts ==
  ASSUME NEW n, NEW w \in Infos(n), NEW S \in Known(n), NEW bad \in Known(n)
  PROVE  LET v == StartOf(w, S, bad)
         IN /\ v \in Infos(n)
            /\ v.started = w.started \cup (S \ bad)
            /\ v.failed = (w.failed \ (S \ w.started)) \cup ((S \ w.started) \cap bad)
            /\ v.again = w.again \cup ((S \ w.started) \cap w.closed)
            /\ v.list = w.list /\ v.names = w.names /\ v.closed = w.closed
            /\ v.initFailed = w.initFailed
<1> DEFINE v == StartOf(w, S, bad)
<1>1. /\ v = [w EXCEPT !.started = w.started \cup ((S \ w.started) \ bad),
                       !.failed = (w.failed \ (S \ w.started)) \cup ((S \ w.started) \cap bad),
                       !.again = w.again \cup ((S \ w.started) \cap w.closed)]
  BY DEF StartOf
<1> HIDE DEF v
<1>2. /\ v \in Infos(n)
      /\ v.started = w.started \cup ((S \ w.started) \ bad)
      /\ v.failed = (w.failed \ (S \ w.started)) \cup ((S \ w.started) \cap bad)
      /\ v.again = w.again \cup ((S \ w.started) \cap w.closed)
      /\ v.list = w.list /\ v.names = w.names /\ v.closed = w.closed
      /\ v.initFailed = w.initFailed
  BY <1>1 DEF Infos, Known
<1>3. w.started \cup ((S \ w.started) \ bad) = w.started \cup (S \ bad)
  OBVIOUS
<1>4. QED
  BY <1>2, <1>3 DEF v

\* Stop: a plugin with an exception is left as it is.
LEMMA StopFacts ==
  ASSUME NEW n, NEW w \in Infos(n), NEW S \in Known(n), NEW bad \in Known(n)
  PROVE  LET v == StopOf(w, S, bad)
         IN /\ v \in Infos(n)
            /\ v.started = w.started \ (S \ w.failed)
            /\ v.failed = w.failed \cup (((S \cap w.started) \ w.failed) \cap bad)
            /\ v.list = w.list /\ v.names = w.names /\ v.closed = w.closed
            /\ v.initFailed = w.initFailed /\ v.again = w.again
<1> DEFINE v == StopOf(w, S, bad)
<1>1. /\ v = [w EXCEPT !.started = w.started \ ((S \cap w.started) \ w.failed),
                       !.failed = w.failed \cup (((S \cap w.started) \ w.failed) \cap bad)]
  BY DEF StopOf
<1> HIDE DEF v
<1>2. /\ v \in Infos(n)
      /\ v.started = w.started \ ((S \cap w.started) \ w.failed)
      /\ v.failed = w.failed \cup (((S \cap w.started) \ w.failed) \cap bad)
      /\ v.list = w.list /\ v.names = w.names /\ v.closed = w.closed
      /\ v.initFailed = w.initFailed /\ v.again = w.again
  BY <1>1 DEF Infos, Known
<1>3. w.started \ ((S \cap w.started) \ w.failed) = w.started \ (S \ w.failed)
  OBVIOUS
<1>4. QED
  BY <1>2, <1>3 DEF v

\* Close: all are stopped but those with an exception, and __close__ is called.
LEMMA CloseFacts ==
  ASSUME NEW n, NEW w \in Infos(n), NEW S \in Known(n), NEW bad \in Known(n)
  PROVE  LET v == CloseOf(w, S, bad)
         IN /\ v \in Infos(n)
            /\ v.started = w.started \ (S \ w.failed)
            /\ w.failed \subseteq v.failed /\ v.failed \subseteq w.failed \cup (S \cap bad)
            /\ v.list = w.list /\ v.names = w.names /\ v.initFailed = w.initFailed
            /\ v.closed = w.closed \cup (S \ w.initFailed)
            /\ v.again = w.again \cup ((S \ w.initFailed) \cap w.closed)
<1> DEFINE u == StopOf(w, S, bad)
           v == CloseOf(w, S, bad)
<1>1. /\ u \in Infos(n)
      /\ u.started = w.started \ (S \ w.failed)
      /\ u.failed = w.failed \cup (((S \cap w.started) \ w.failed) \cap bad)
      /\ u.list = w.list /\ u.names = w.names /\ u.closed = w.closed
      /\ u.initFailed = w.initFailed /\ u.again = w.again
  BY StopFacts
<1>2. v = [u EXCEPT !.closed = u.closed \cup (S \ w.initFailed),
                    !.again = u.again \cup ((S \ w.initFailed) \cap w.closed)]
  BY DEF CloseOf
<1> HIDE DEF u, v
<1>3. /\ v \in Infos(n)
      /\ v.closed = u.closed \cup (S \ w.initFailed)
      /\ v.again = u.again \cup ((S \ w.initFailed) \cap w.closed)
      /\ v.list = u.list /\ v.names = u.names /\ v.started = u.started
      /\ v.initFailed = u.initFailed /\ v.failed = u.failed
  BY <1>1, <1>2 DEF Infos, Known
<1>4. QED
  BY <1>1, <1>3 DEF v

\* RemovePluginInstance: the names are free again.
LEMMA RemoveFacts ==
  ASSUME NEW n, NEW w \in Infos(n), NEW S \in Known(n)
  PROVE  LET v == RemoveOf(w, S)
         IN /\ v \in Infos(n)
            /\ v.names = w.names \ {name[i] : i \in S}
            /\ v.list = w.list \ {i \in S : Named(w, i)}
            /\ v.started = w.started /\ v.failed = w.failed /\ v.closed = w.closed
            /\ v.initFailed = w.initFailed /\ v.again = w.again
  BY DEF RemoveOf, Infos, Known

\* CreateInstance: the instances are in the list and their names are taken.
LEMMA CreateFacts ==
  ASSUME NEW n, NEW w \in Infos(n), NEW S \in Known(n), NEW N \in Names,
         NEW bad \in Known(n)
  PROVE  LET v == CreateOf(w, S, N, bad)
         IN /\ v \in Infos(n)
            /\ v.names = w.names \cup N /\ v.list = w.list \cup S
            /\ v.started = w.started /\ v.failed = w.failed /\ v.closed = w.closed
            /\ v.initFailed = w.initFailed \cup bad /\ v.again = w.again
  BY DEF CreateOf, Infos, Known, Names

\* Those that may fail are among those called.
LEMMA BadIsKnown ==
  ASSUME NEW n, NEW S \in Known(n), NEW kind, NEW bad \in BadSet(kind, S)
  PROVE  bad \in Known(n) /\ bad \subseteq S
  BY DEF BadSet, Known

\* One instance as a set of instances.
LEMMA OneIsKnown == ASSUME NEW n, NEW i \in 1..n PROVE {i} \in Known(n)
  BY DEF Known

-----------------------------------------------------------------------------
(* Types. *)
Args == (0..MaxInstances) \cup Files \cup Handlers
Jobs == [op : Ops, arg : Args, by : Callers]

\* A handler that brings a plugin back knows its name and place.
Placed(h) == h.kind \in {"new", "clear"} => h.name # 0 /\ h.pos # 0

\* The instances that are plugins of a tree; the core plugins have no name.
Items == {i \in DOMAIN name : name[i] # 0}
OnPlugin(j) == j.op \in PluginOps \cup {"toggle"}

ItemsOK ==
  /\ name \in Seq(Nat) /\ Len(name) <= MaxInstances
  /\ info \in Infos(Len(name))
  /\ enabled \in Known(Len(name)) /\ detached \in Known(Len(name)) /\ strays \in Known(Len(name))
  /\ tree \in Seq(1..Len(name)) /\ IsInjective(tree) /\ clash \in BOOLEAN
  /\ Range(tree) \cup info.failed \cup strays \subseteq Items

AroundOK ==
  /\ core \in Seq(1..Len(name)) /\ host \in 0..Len(name)
  /\ host \notin Items /\ Range(core) \cap Items = {}
  /\ loaded \in {"no", "yes", "gone"} /\ opened \in Files \cup {NoFile}
  /\ stockUndo \in Seq(Handlers) /\ stockRedo \in Seq(Handlers) /\ crossed \in BOOLEAN
  /\ \A h \in Range(stockUndo) \cup Range(stockRedo) : Placed(h)

PostsOK ==
  /\ posts \in Seq(Jobs)
  /\ \A j \in Range(posts) : IsJob(j) /\ j.op \in PluginOps /\ j.by = "nobody" /\ j.arg \in Items

ForAction(j) ==
  /\ IsJob(j) /\ j.op # "event"
  /\ OnPlugin(j) => j.arg \in Items
  /\ j.op \in HandlerOps => Placed(j.arg)
ForEvents(j) == IsJob(j) /\ j.op \in SessionOps \cup {"event", "quit"}

QueuesOK ==
  /\ aq \in Seq(Jobs) /\ eq \in Seq(Jobs)
  /\ \A j \in Range(aq) : ForAction(j)
  /\ \A j \in Range(eq) : ForEvents(j)

Answers == [by : Callers, ok : BOOLEAN, val : Handlers]

ControlOK ==
  /\ done \in Answers /\ mval \in Handlers /\ marg \in Handlers /\ dialogs \subseteq Handlers
  /\ epc \in {"idle", "stopping", "starting", "ended"}
  /\ mpc \in {"idle", "unload", "create", "setup", "edit", "undo", "redo", "exit", "ended", "stuck"}
  /\ mreply \in {"none", "ok", "raised"} /\ ereply \in {"none", "ok", "raised"}
  /\ ereply # "none" => epc \in {"stopping", "starting"}
  /\ mreply # "none" => mpc \notin {"idle", "ended", "stuck"}
  /\ commands \in Nat /\ events \in Nat

Types == ItemsOK /\ AroundOK /\ PostsOK /\ QueuesOK /\ ControlOK

\* The types of the proof are those of the specification, and more.
LEMMA TypesGiveTypeOK == Types => TypeOK
  BY DEF Types, ItemsOK, AroundOK, PostsOK, QueuesOK, ControlOK, TypeOK, Infos, Known, Answers,
         ForAction, ForEvents

\* A job that waits stays one when plugins are made.
LEMMA JobsStay ==
  ASSUME NEW j, IsJob(j), name \in Seq(Nat), name' \in Seq(Nat), Len(name) <= Len(name')
  PROVE  IsJob(j)'
<1>1. 1..Len(name) \subseteq 1..Len(name')
  OBVIOUS
<1>2. QED
  BY <1>1 DEF IsJob

\* The value that stands for no handler is one.
LEMMA NoHandlerType == NoHandler \in Handlers
  BY SessionAssumption DEF NoHandler, Handler, Handlers

\* It brings no plugin back.
LEMMA NoHandlerIsPlaced == Placed(NoHandler)
  BY DEF NoHandler, Handler, Placed

\* The jobs on plugins.
LEMMA PluginJobs ==
  ASSUME ItemsOK, NEW i \in 1..Len(name), NEW op \in PluginOps \cup {"toggle"}, NEW by \in Callers
  PROVE  Job(op, i, by) \in Jobs /\ IsJob(Job(op, i, by))
  BY SessionAssumption DEF Job, Jobs, IsJob, Args, Ops, ItemsOK, SessionOps, HandlerOps, PluginOps

\* The jobs without an argument.
LEMMA OtherJobs ==
  ASSUME NEW op \in {"create", "macro", "event", "quit", "stopSession"}, NEW by \in Callers
  PROVE  Job(op, 0, by) \in Jobs /\ IsJob(Job(op, 0, by))
  BY SessionAssumption DEF Job, Jobs, IsJob, Args, Ops, SessionOps, HandlerOps, PluginOps

\* The jobs that start a session.
LEMMA SessionJobs ==
  ASSUME NEW f \in Files, NEW by \in Callers
  PROVE  Job("startSession", f, by) \in Jobs /\ IsJob(Job("startSession", f, by))
  BY DEF Job, Jobs, IsJob, Args, Ops, SessionOps, HandlerOps, PluginOps

\* The jobs of undo and redo.
LEMMA HandlerJobs ==
  ASSUME NEW op \in HandlerOps, NEW h \in Handlers, NEW by \in Callers
  PROVE  Job(op, h, by) \in Jobs /\ IsJob(Job(op, h, by))
  BY DEF Job, Jobs, IsJob, Args, Ops, SessionOps, HandlerOps, PluginOps

-----------------------------------------------------------------------------
(* What Start and Stop do to the plugins of the tree. *)
LEMMA ItemsAreKnown == ASSUME ItemsOK PROVE Items \subseteq 1..Len(name)
  BY DEF Items, ItemsOK

\* The plugins in A are started or left as they are.
Runs(A) ==
  /\ info' \in Infos(Len(name)) /\ info'.failed \subseteq Items
  /\ info'.started \subseteq info.started \cup A
  /\ info.failed \cap info'.started \subseteq info'.failed \cup A
  /\ info'.again \subseteq info.again \cup (A \cap info.closed)
  /\ info'.list = info.list /\ info'.names = info.names /\ info'.closed = info.closed

\* Start of one plugin.
LEMMA SomeStarted ==
  ASSUME ItemsOK, NEW i \in Items, NEW bad \in BadSet("start", {i}), info' = StartOf(info, {i}, bad)
  PROVE  Runs({i})
<1> DEFINE S == {i}
<1>1. S \in Known(Len(name)) /\ S \subseteq Items
  BY ItemsAreKnown DEF Known
<1> HIDE DEF S
<1>2. bad \in Known(Len(name)) /\ bad \subseteq S
  BY <1>1, BadIsKnown DEF S
<1>3. info \in Infos(Len(name)) /\ info.failed \subseteq Items /\ info' = StartOf(info, S, bad)
  BY DEF ItemsOK, S
<1> DEFINE v == StartOf(info, S, bad)
<1>4. /\ v \in Infos(Len(name))
      /\ v.started = info.started \cup (S \ bad)
      /\ v.failed = (info.failed \ (S \ info.started)) \cup ((S \ info.started) \cap bad)
      /\ v.again = info.again \cup ((S \ info.started) \cap info.closed)
      /\ v.list = info.list /\ v.names = info.names /\ v.closed = info.closed
  BY <1>1, <1>2, <1>3, StartFacts
<1> HIDE DEF v
<1>7. info' = v
  BY <1>3 DEF v
<1>5. Runs(S)
  BY <1>1, <1>3, <1>4, <1>7 DEF Runs
<1>6. QED
  BY <1>5 DEF S

\* Stop of some plugins.
LEMMA SomeStopped ==
  ASSUME ItemsOK, NEW S \in SUBSET Items, NEW bad \in BadSet("stop", S), info' = StopOf(info, S, bad)
  PROVE  Runs({}) /\ info.failed \subseteq info'.failed
<1>1. S \in Known(Len(name))
  BY ItemsAreKnown DEF Known
<1>2. bad \in Known(Len(name)) /\ bad \subseteq S
  BY <1>1, BadIsKnown
<1>3. info \in Infos(Len(name)) /\ info.failed \subseteq Items
  BY DEF ItemsOK
<1>4. /\ info' \in Infos(Len(name))
      /\ info'.started = info.started \ (S \ info.failed)
      /\ info'.failed = info.failed \cup (((S \cap info.started) \ info.failed) \cap bad)
      /\ info'.list = info.list /\ info'.names = info.names /\ info'.closed = info.closed
      /\ info'.again = info.again
  BY <1>1, <1>2, <1>3, StopFacts
<1>5. QED
  BY <1>3, <1>4 DEF Runs

\* No plugin is called.
LEMMA NoneCalled == ASSUME ItemsOK, UNCHANGED info PROVE Runs({})
  BY DEF Runs, ItemsOK

-----------------------------------------------------------------------------
(* What a job does to the items keeps their types. *)
NamesStay == Len(name) <= Len(name') /\ \A i \in DOMAIN name : name'[i] = name[i]
ItemStep == ItemsOK' /\ NamesStay /\ PostsOK'

\* A job that leaves nothing to later jobs.
LEMMA NoPosts == ASSUME posts' = <<>> PROVE PostsOK'
  BY RangeOfShort DEF PostsOK, Range

\* A job that leaves one job on a plugin.
LEMMA OnePost ==
  ASSUME ItemsOK, ItemsOK', NEW i \in Items', NEW op \in PluginOps,
         posts' = <<Job(op, i, "nobody")>>
  PROVE  PostsOK'
<1> DEFINE j == Job(op, i, "nobody")
<1>0. i \in 1..Len(name')
  BY DEF Items, ItemsOK
<1>1. j \in Jobs /\ IsJob(j)'
  BY <1>0, SessionAssumption DEF Job, Jobs, IsJob, Args, Ops, ItemsOK, SessionOps, HandlerOps, PluginOps, Callers
<1>2. Range(posts') = {j} /\ posts' \in Seq(Jobs)
  BY <1>1, RangeOfShort
<1>3. j.op \in PluginOps /\ j.by = "nobody" /\ j.arg \in Items'
  BY DEF Job
<1> HIDE DEF j
<1>4. QED
  BY <1>1, <1>2, <1>3 DEF PostsOK

\* SetArguments keeps the types.
LEMMA SetArgsTypes ==
  ASSUME ItemsOK, NEW i \in Items, SetArgs(i) PROVE ItemStep
<1>0. i \in 1..Len(name)
  BY DEF Items, ItemsOK
<1>1. ItemsOK' /\ NamesStay /\ name' = name /\ Items' = Items
  BY DEF SetArgs, itemVars, ItemsOK, NamesStay, Items
<1>2. CASE i \in enabled \ detached
  <2> DEFINE a == Job("stop", i, "nobody")
             b == Job("start", i, "nobody")
  <2>1. a \in Jobs /\ IsJob(a) /\ b \in Jobs /\ IsJob(b)
    BY <1>0, PluginJobs DEF PluginOps, Callers
  <2>2. /\ a.op \in PluginOps /\ a.by = "nobody" /\ b.op \in PluginOps /\ b.by = "nobody"
        /\ a.arg \in Items' /\ b.arg \in Items'
    BY <1>1 DEF Job, PluginOps
  <2>3. posts' = <<a, b>>
    BY <1>2 DEF SetArgs
  <2> HIDE DEF a, b
  <2>4. Range(posts') = {a, b} /\ posts' \in Seq(Jobs)
    BY <2>1, <2>3, RangeOfShort
  <2>5. IsJob(a)' /\ IsJob(b)'
    BY <2>1, <1>1 DEF IsJob
  <2>6. QED
    BY <1>1, <2>2, <2>4, <2>5 DEF PostsOK, ItemStep
<1>3. CASE i \notin enabled \ detached
  BY <1>3, <1>1, NoPosts DEF SetArgs, ItemStep
<1>4. QED
  BY <1>2, <1>3

\* Delete keeps the types.
LEMMA DeleteTypes ==
  ASSUME ItemsOK, NEW i \in Items, Delete(i) PROVE ItemStep
<1>1. ItemsOK' /\ NamesStay /\ name' = name /\ Items' = Items
  <2>1. Items' = Items /\ NamesStay /\ name' = name /\ i \in 1..Len(name)
    BY DEF Delete, NamesStay, Items, ItemsOK
  <2>2. Without(i) \in Seq(1..Len(name)) /\ IsInjective(Without(i)) /\ Range(Without(i)) = Range(tree) \ {i}
    BY RemovedFromTree DEF ItemsOK
  <2>3. QED
    BY <2>1, <2>2 DEF Delete, ItemsOK, Known
<1>2. CASE i \in detached
  BY <1>2, <1>1, NoPosts DEF Delete, ItemStep
<1>3. CASE i \notin detached
  BY <1>3, <1>1, OnePost DEF Delete, ItemStep, PluginOps
<1>4. QED
  BY <1>2, <1>3

\* SetEnable calls its own plugin, if it still has one.
LEMMA SetEnableRuns ==
  ASSUME ItemsOK, NEW i \in Items, NEW flag, SetEnable(i, flag)
  PROVE  Runs({i} \ detached)
<1>1. CASE i \in detached
  BY <1>1, NoneCalled DEF SetEnable, Runs
<1>2. CASE i \notin detached /\ flag
  <2>1. PICK bad \in BadSet("start", {i}) : info' = StartOf(info, {i}, bad)
    BY <1>2 DEF SetEnable
  <2>2. Runs({i})
    BY <2>1, SomeStarted
  <2>3. QED
    BY <2>2, <1>2, {i} \ detached = {i}
<1>3. CASE i \notin detached /\ ~flag
  <2>1. PICK bad \in BadSet("stop", {i}) : info' = StopOf(info, {i}, bad)
    BY <1>3 DEF SetEnable
  <2>2. Runs({})
    BY <2>1, SomeStopped
  <2>3. QED
    BY <2>2 DEF Runs
<1>4. QED
  BY <1>1, <1>2, <1>3

\* SetEnable keeps the types.
LEMMA SetEnableTypes ==
  ASSUME ItemsOK, NEW i \in Items, NEW flag, SetEnable(i, flag) PROVE ItemStep
<1>1. i \in 1..Len(name)
  BY ItemsAreKnown
<1>2. info' \in Infos(Len(name)) /\ info'.failed \subseteq Items
  BY SetEnableRuns DEF Runs
<1>3. /\ enabled' \in Known(Len(name)) /\ strays' \in Known(Len(name))
      /\ name' = name /\ tree' = tree /\ detached' = detached /\ clash' = clash /\ posts' = <<>>
  BY <1>1 DEF SetEnable, ItemsOK, Known
<1>4. Items' = Items /\ strays' \subseteq Items
  BY <1>3 DEF Items, SetEnable, ItemsOK
<1>5. QED
  BY <1>2, <1>3, <1>4, NoPosts DEF ItemStep, ItemsOK, NamesStay

\* The plugin called n is made and put into the tree.
Opens(n) ==
  /\ NamesStay /\ New \notin 1..Len(name) /\ DOMAIN name' = (1..Len(name)) \cup {New}
  /\ name'[New] = n
  /\ Range(tree') = Range(tree) \cup {New}
  /\ info'.list = info.list \cup {New} /\ info'.names = info.names \cup {n}
  /\ info'.started = info.started /\ info'.failed = info.failed
  /\ info'.closed = info.closed /\ info'.again = info.again

\* A new item keeps the types, or its name was taken.
LEMMA OpenTypes ==
  ASSUME ItemsOK, NEW n \in Nat \ {0}, NEW pos \in Nat \ {0}, NEW on, NEW starts, Open(n, pos, on, starts)
  PROVE  ItemStep /\ (n \notin info.names => Opens(n))
<1>1. CASE n \in info.names
  BY <1>1, NoPosts DEF Open, ItemStep, ItemsOK, NamesStay, Items
<1>2. CASE n \notin info.names
  <2> DEFINE m == Len(name)
  <2>0. /\ name' = Append(name, n) /\ UNCHANGED <<detached, strays, clash>>
        /\ tree' = IF pos > Len(tree) THEN Append(tree, New) ELSE InsertAt(tree, pos, New)
        /\ enabled' = IF on THEN enabled \cup {New} ELSE enabled
    BY <1>2 DEF Open
  <2>1. m \in Nat /\ New = m + 1 /\ New <= MaxInstances /\ New \in 1..m + 1 /\ New \notin 1..m
    BY <1>2, SessionAssumption DEF Open, ItemsOK, New, Insts
  <2>2. name' \in Seq(Nat) /\ Len(name') = m + 1
    BY <2>0 DEF ItemsOK
  <2>3. info \in Infos(m + 1) /\ {New} \in Known(m + 1) /\ {n} \in SUBSET Nat
    <3>1. m + 1 \in Nat /\ m <= m + 1 /\ info \in Infos(m)
      BY <2>1 DEF ItemsOK
    <3>2. info \in Infos(m + 1)
      BY <2>1, <3>1, InfosGrow
    <3>3. QED
      BY <2>1, <3>2, OneIsKnown
  <2>4. PICK bad \in BadSet("init", {New}) : info' = CreateOf(info, {New}, {n}, bad)
    BY <1>2 DEF Open
  <2>5. bad \in Known(m + 1)
    BY <2>3, BadIsKnown
  <2>6. /\ info' \in Infos(m + 1) /\ info'.failed = info.failed
        /\ info'.list = info.list \cup {New} /\ info'.names = info.names \cup {n}
        /\ info'.started = info.started /\ info'.closed = info.closed /\ info'.again = info.again
    <3> DEFINE S == {New}
               N == {n}
               v == CreateOf(info, S, N, bad)
               q == m + 1
    <3>1. info' = v /\ S \in Known(q) /\ N \in Names /\ info \in Infos(q) /\ bad \in Known(q)
      BY <2>3, <2>4, <2>5 DEF Names
    <3> HIDE DEF S, N, q
    <3>2. /\ v \in Infos(q) /\ v.failed = info.failed
          /\ v.list = info.list \cup S /\ v.names = info.names \cup N
          /\ v.started = info.started /\ v.closed = info.closed /\ v.again = info.again
      BY <3>1, CreateFacts
    <3> HIDE DEF v
    <3>3. QED
      BY <3>1, <3>2 DEF q, S, N
  <2>7. tree \in Seq(1..m + 1) /\ New \notin Range(tree) /\ Known(m) \subseteq Known(m + 1)
    <3>1. 1..m \subseteq 1..m + 1
      BY <2>1
    <3>2. QED
      BY <2>1, <3>1 DEF ItemsOK, Range, Known
  <2>8. tree' \in Seq(1..m + 1) /\ IsInjective(tree') /\ Range(tree') = Range(tree) \cup {New}
    <3>1. pos >= 1 /\ pos \in Nat /\ IsInjective(tree)
      BY DEF ItemsOK
    <3> DEFINE S == 1..m + 1
    <3>2. tree \in Seq(S) /\ New \in S
      BY <2>1, <2>7
    <3> HIDE DEF S
    <3>3. tree' \in Seq(S) /\ IsInjective(tree') /\ Range(tree') = Range(tree) \cup {New}
      BY <2>0, <2>7, <3>1, <3>2, InsertedInTree
    <3>4. QED
      BY <3>3 DEF S
  <2>9. enabled' \in Known(m + 1) /\ detached' \in Known(m + 1) /\ strays' \in Known(m + 1)
    BY <2>0, <2>1, <2>3, <2>7 DEF ItemsOK, Known
  <2>10. clash' \in BOOLEAN /\ m + 1 <= MaxInstances
    BY <2>0, <2>1 DEF ItemsOK
  <2>11. /\ NamesStay /\ Items' = Items \cup {New} /\ New \in Items'
         /\ name'[New] = n /\ DOMAIN name' = (1..m) \cup {New}
    <3>1. name'[New] = n /\ \A i \in 1..m : name'[i] = name[i]
      BY <2>0, <2>1 DEF ItemsOK
    <3>2. DOMAIN name' = 1..m + 1 /\ DOMAIN name = 1..m
      BY <2>2 DEF ItemsOK
    <3>3. 1..m + 1 = 1..m \cup {New} /\ m <= Len(name')
      BY <2>1, <2>2
    <3> HIDE DEF m
    <3>4. Items' = Items \cup {New}
      BY <3>1, <3>2, <3>3 DEF Items
    <3>5. QED
      BY <3>1, <3>2, <3>3, <3>4 DEF NamesStay, m
  <2>15. ItemsOK'
    <3>1. Range(tree') \cup info'.failed \cup strays' \subseteq Items'
      BY <2>0, <2>6, <2>8, <2>11 DEF ItemsOK
    <3>2. QED
      BY <2>1, <2>2, <2>6, <2>8, <2>9, <2>10, <3>1 DEF ItemsOK
  <2>12. PostsOK'
    <3>1. CASE on /\ starts
      BY <1>2, <2>11, <3>1, <2>15, OnePost DEF Open, PluginOps
    <3>2. CASE ~(on /\ starts)
      BY <1>2, <3>2, NoPosts DEF Open
    <3>3. QED
      BY <3>1, <3>2
  <2>13. Opens(n)
    BY <2>1, <2>6, <2>8, <2>11 DEF Opens
  <2>14. QED
    BY <2>11, <2>12, <2>13, <2>15 DEF ItemStep
<1>3. QED
  BY <1>1, <1>2

-----------------------------------------------------------------------------
(* What every job of the action thread does. *)
JobStep ==
  /\ posts = <<>> /\ done = NobodyWaits /\ aq # <<>> /\ aq' = Tail(aq)
  /\ UNCHANGED <<eventVars, mpc, mreply, mval, marg, dialogs, commands, events>>
  /\ done' \in Answers /\ done'.by = Head(aq).by
  /\ Placed(done'.val)
  /\ Head(aq).op = "create" /\ Head(aq).by = "main" /\ done'.ok => done'.val.item \in Items'
  /\ ItemStep /\ AroundOK'

\* The answer goes to the caller that waits for the job, if one does.
LEMMA AnswerType ==
  ASSUME done = NobodyWaits, Head(aq) \in Jobs, NEW ok \in BOOLEAN, NEW val \in Handlers,
         Answered(ok, val)
  PROVE  /\ done' \in Answers /\ done'.by = Head(aq).by
         /\ Placed(val) => Placed(done'.val)
         /\ Head(aq).by # "nobody" => done'.ok = ok /\ done'.val = val
<1>1. NobodyWaits \in Answers /\ Placed(NobodyWaits.val)
  BY NoHandlerType, NoHandlerIsPlaced DEF NobodyWaits, Answers, Callers
<1>2. Head(aq).by \in Callers
  BY DEF Jobs
<1>3. QED
  BY <1>1, <1>2 DEF Answered, Answers, NobodyWaits

\* The job taken, and what it is about.
LEMMA HeadJob ==
  ASSUME QueuesOK, aq # <<>>
  PROVE  /\ Head(aq) \in Jobs /\ IsJob(Head(aq)) /\ Head(aq) \in Range(aq)
         /\ Head(aq).op \in PluginOps \cup {"toggle"} => It \in Items
         /\ Head(aq).op = "startSession" => It \in Files
         /\ Head(aq).op \in HandlerOps => It \in Handlers /\ Placed(It)
<1>1. Head(aq) \in Jobs /\ Head(aq) \in Range(aq)
  BY RangeOfTail DEF QueuesOK
<1>2. QED
  BY <1>1 DEF QueuesOK, ForAction, IsJob, It, OnPlugin

\* Jobs that change the plugins' state only.
LEMMA PlainJob ==
  ASSUME Types, NEW op, op # "create", Take(op), Nothing, NEW A, Runs(A),
         enabled' \in Known(Len(name)), strays' \in Known(Len(name)), strays' \subseteq Items,
         UNCHANGED <<name, tree, detached, clash, aroundVars>>
  PROVE  JobStep
<1>1. done' \in Answers /\ done'.by = Head(aq).by /\ Placed(done'.val)
  BY HeadJob, AnswerType, NoHandlerType, NoHandlerIsPlaced DEF Take, Nothing, Types
<1>2. name' = name /\ Items' = Items /\ NamesStay
  BY DEF Types, ItemsOK, Items, NamesStay
<1>3. ItemsOK' /\ AroundOK'
  BY <1>2 DEF Types, ItemsOK, AroundOK, aroundVars, Runs
<1>4. ItemStep
  BY <1>2, <1>3, NoPosts DEF ItemStep, Nothing
<1>5. QED
  BY <1>1, <1>3, <1>4 DEF JobStep, Take

\* Start, as a job.
LEMMA StartJobStep == ASSUME Types, StartJob PROVE JobStep /\ Runs({It})
<1>1. PICK bad \in BadSet("start", {It}) : info' = StartOf(info, {It}, bad)
  BY DEF StartJob
<1>2. It \in Items
  BY HeadJob DEF Types, StartJob, Take, PluginOps
<1>3. Runs({It})
  BY <1>1, <1>2, SomeStarted DEF Types
<1>4. QED
  BY <1>3, PlainJob DEF StartJob, Types, ItemsOK

\* Stop, as a job.
LEMMA StopJobStep == ASSUME Types, StopJob PROVE JobStep /\ Runs({})
<1>1. PICK bad \in BadSet("stop", {It}) : info' = StopOf(info, {It}, bad)
  BY DEF StopJob
<1>2. It \in Items
  BY HeadJob DEF Types, StopJob, Take, PluginOps
<1>3. Runs({})
  BY <1>1, <1>2, SomeStopped DEF Types
<1>4. QED
  BY <1>3, PlainJob DEF StopJob, Types, ItemsOK

\* Execute, as a job.
LEMMA ExecuteJobStep == ASSUME Types, ExecuteJob PROVE JobStep /\ Runs({It} \ detached)
<1>1. It \in Items
  BY HeadJob DEF Types, ExecuteJob, Take, PluginOps
<1>2. Runs({It} \ detached)
  <2>1. CASE It \in enabled \ detached
    <3>1. PICK bad \in BadSet("start", {It}) : info' = StartOf(info, {It}, bad)
      BY <2>1 DEF ExecuteJob
    <3>2. Runs({It})
      BY <1>1, <3>1, SomeStarted DEF Types
    <3>3. QED
      BY <3>2, <2>1, {It} \ detached = {It}
  <2>2. CASE It \notin enabled \ detached
    BY <2>2, NoneCalled DEF ExecuteJob, Types, Runs
  <2>3. QED
    BY <2>1, <2>2
<1>3. QED
  BY <1>2, PlainJob DEF ExecuteJob, Types, ItemsOK

\* The state after the close of a plugin that was asked for.
Closes(i) ==
  /\ info' \in Infos(Len(name)) /\ info'.failed \subseteq Items
  /\ info'.started \subseteq info.started
  /\ info.failed \subseteq info'.failed
  /\ i \in info'.started => i \in info.failed
  /\ info'.again \subseteq info.again \cup ({i} \cap info.closed)
  /\ info'.closed \subseteq info.closed \cup {i}
  /\ info'.names = info.names \ {name[i]}
  /\ info'.list = info.list \ (IF Named(info, i) THEN {i} ELSE {})

\* DoIt of Delete; where OnDelete raises, the history is crossed.
LEMMA CloseJobStep == ASSUME Types, CloseJob PROVE JobStep /\ (~crossed' => Closes(It) /\ ~crossed)
<1> DEFINE S == {It}
           i == It
<1>1. i \in Items /\ S \in Known(Len(name)) /\ S \subseteq Items
  BY HeadJob, ItemsAreKnown DEF Types, CloseJob, Take, PluginOps, Known
<1>2. PICK bad \in BadSet("stop", S), raises \in BadSet("delete", S) :
        /\ info' = IF raises = {} THEN RemoveOf(CloseOf(info, S, bad), S) ELSE CloseOf(info, S, bad)
        /\ crossed' = (crossed \/ raises # {})
  BY DEF CloseJob
<1>3. info \in Infos(Len(name)) /\ info.failed \subseteq Items
  BY DEF Types, ItemsOK
<1>4. {name[k] : k \in S} = {name[i]} /\ i \in S /\ S \subseteq {i}
  OBVIOUS
<1> HIDE DEF S, i
<1>5. bad \in Known(Len(name))
  BY <1>1, BadIsKnown
<1> DEFINE v == CloseOf(info, S, bad)
<1>6. /\ v \in Infos(Len(name))
      /\ v.started = info.started \ (S \ info.failed)
      /\ info.failed \subseteq v.failed /\ v.failed \subseteq info.failed \cup S
      /\ v.list = info.list /\ v.names = info.names /\ v.initFailed = info.initFailed
      /\ v.closed = info.closed \cup (S \ info.initFailed)
      /\ v.again = info.again \cup ((S \ info.initFailed) \cap info.closed)
  BY <1>1, <1>3, <1>5, CloseFacts
<1> HIDE DEF v
<1> DEFINE u == RemoveOf(v, S)
<1>u. /\ u \in Infos(Len(name))
      /\ u.names = v.names \ {name[k] : k \in S}
      /\ u.list = v.list \ {k \in S : Named(v, k)}
      /\ u.started = v.started /\ u.failed = v.failed /\ u.closed = v.closed
      /\ u.again = v.again
  BY <1>1, <1>6, RemoveFacts
<1>v. info' = u \/ info' = v
  BY <1>2 DEF v
<1>w. (~crossed' => info' = u /\ ~crossed) /\ crossed' \in BOOLEAN
  <2> DEFINE late == raises # {}
  <2>1. crossed' = (crossed \/ late) /\ (~late => info' = u) /\ crossed \in BOOLEAN
    BY <1>2 DEF v, Types, AroundOK
  <2> HIDE DEF late
  <2>2. QED
    BY <2>1
<1> HIDE DEF u
<1>7. info' \in Infos(Len(name)) /\ info'.failed = v.failed
  BY <1>6, <1>u, <1>v
<1>8. {k \in S : Named(v, k)} = IF Named(info, i) THEN {i} ELSE {}
  BY <1>4, <1>6 DEF Named
<1>9. ~crossed' => Closes(i) /\ ~crossed
  BY <1>1, <1>3, <1>4, <1>6, <1>7, <1>8, <1>u, <1>w DEF Closes
<1>10. JobStep
  <2>1. done' \in Answers /\ done'.by = Head(aq).by /\ Placed(done'.val)
    BY HeadJob, AnswerType, NoHandlerType, NoHandlerIsPlaced DEF CloseJob, Take, Nothing, Types
  <2>2. name' = name /\ Items' = Items /\ NamesStay
    BY DEF CloseJob, Types, ItemsOK, Items, NamesStay
  <2>3. ItemsOK' /\ AroundOK'
    BY <1>1, <1>3, <1>6, <1>7, <1>w, <2>2 DEF CloseJob, Types, ItemsOK, AroundOK
  <2>4. ItemStep
    BY <2>2, <2>3, NoPosts DEF ItemStep, Nothing, CloseJob
  <2>5. QED
    BY <2>1, <2>3, <2>4 DEF JobStep, Take, CloseJob
<1>11. QED
  BY <1>9, <1>10 DEF i

\* HandleAction's fault.
LEMMA FaultJobStep == ASSUME Types, FaultJob PROVE JobStep /\ Runs({})
<1>1. It \in Items /\ It \in 1..Len(name)
  BY HeadJob, ItemsAreKnown DEF Types, FaultJob, Take, PluginOps
<1>2. info \in Infos(Len(name)) /\ info' = [info EXCEPT !.failed = info.failed \cup {It}]
  BY DEF FaultJob, Types, ItemsOK
<1>3. /\ info' \in Infos(Len(name)) /\ info'.failed = info.failed \cup {It}
      /\ info'.started = info.started /\ info'.again = info.again /\ info'.list = info.list
      /\ info'.names = info.names /\ info'.closed = info.closed
  BY <1>1, <1>2 DEF Infos, Known
<1>4. Runs({})
  BY <1>1, <1>3 DEF Runs, Types, ItemsOK
<1>5. QED
  BY <1>4, PlainJob DEF FaultJob, Types, ItemsOK

\* DoIt of EnableExclusive.
LEMMA ExclusiveJobStep == ASSUME Types, ExclusiveJob PROVE JobStep /\ Runs({It} \ detached)
<1> DEFINE S == IF It \in Range(tree) THEN Range(tree) \ {It} ELSE {}
<1>1. It \in Items /\ It \in 1..Len(name)
  BY HeadJob, ItemsAreKnown DEF Types, ExclusiveJob, Take, PluginOps
<1>2. S \in SUBSET Items /\ S \in Known(Len(name))
  BY ItemsAreKnown DEF Types, ItemsOK, Known
<1>3. /\ Take("exclusive") /\ Nothing /\ UNCHANGED <<name, tree, detached, clash, aroundVars>>
      /\ enabled' = (enabled \cup {It}) \ S /\ strays' \subseteq strays \cup S
      /\ It \in detached => info' = info
      /\ It \notin detached => \E unstarted \in BadSet("start", {It}), bad \in BadSet("stop", S) :
                                 info' = StopOf(StartOf(info, {It}, unstarted), S, bad)
  BY DEF ExclusiveJob
<1> HIDE DEF S
<1>4. Runs({It} \ detached)
  <2>1. CASE It \in detached
    BY <1>3, <2>1, NoneCalled DEF Types, Runs
  <2>2. CASE It \notin detached
    <3>1. PICK unstarted \in BadSet("start", {It}), bad \in BadSet("stop", S) :
             info' = StopOf(StartOf(info, {It}, unstarted), S, bad)
      BY <1>3, <2>2
    <3> DEFINE i == It
               T == {i}
               u == StartOf(info, T, unstarted)
               v == StopOf(u, S, bad)
    <3>2. i \in Items /\ T \in Known(Len(name)) /\ T \subseteq Items
      BY <1>1 DEF Known
    <3>3. i \notin detached /\ info' = v /\ T = {i} \ detached
      BY <2>2, <3>1
    <3>4. info \in Infos(Len(name)) /\ info.failed \subseteq Items
      BY DEF Types, ItemsOK
    <3> HIDE DEF T
    <3>5. unstarted \in Known(Len(name)) /\ unstarted \subseteq T
      BY <3>2, BadIsKnown DEF T
    <3>6. bad \in Known(Len(name)) /\ bad \subseteq S
      BY <1>2, BadIsKnown
    <3>7. /\ u \in Infos(Len(name))
          /\ u.started = info.started \cup (T \ unstarted)
          /\ u.failed = (info.failed \ (T \ info.started)) \cup ((T \ info.started) \cap unstarted)
          /\ u.again = info.again \cup ((T \ info.started) \cap info.closed)
          /\ u.list = info.list /\ u.names = info.names /\ u.closed = info.closed
      BY <3>2, <3>4, <3>5, StartFacts
    <3> HIDE DEF u
    <3>8. /\ v \in Infos(Len(name))
          /\ v.started = u.started \ (S \ u.failed)
          /\ v.failed = u.failed \cup (((S \cap u.started) \ u.failed) \cap bad)
          /\ v.list = u.list /\ v.names = u.names /\ v.closed = u.closed
          /\ v.again = u.again
      BY <1>2, <3>6, <3>7, StopFacts
    <3> HIDE DEF v, i
    <3>9. /\ info' \in Infos(Len(name)) /\ info'.list = info.list
          /\ info'.names = info.names /\ info'.closed = info.closed
      BY <3>3, <3>7, <3>8
    <3>10. info'.started \subseteq info.started \cup T /\ info'.again \subseteq info.again \cup (T \cap info.closed)
      BY <3>3, <3>7, <3>8
    <3>11. info'.failed \subseteq Items
      BY <1>2, <3>2, <3>3, <3>4, <3>7, <3>8
    <3>12. info.failed \cap info'.started \subseteq info'.failed \cup T
      BY <3>3, <3>7, <3>8
    <3>13. Runs(T)
      BY <3>9, <3>10, <3>11, <3>12 DEF Runs
    <3>14. QED
      BY <3>3, <3>13 DEF i
  <2>3. QED
    BY <2>1, <2>2
<1>5. enabled' \in Known(Len(name)) /\ strays' \in Known(Len(name)) /\ strays' \subseteq Items
  BY <1>1, <1>2, <1>3 DEF Types, ItemsOK, Known
<1>6. QED
  BY <1>3, <1>4, <1>5, PlainJob, "exclusive" # "create"

\* Jobs that change items only.
LEMMA ItemJob ==
  ASSUME Types, NEW op, Take(op), ItemStep, UNCHANGED aroundVars,
         NEW ok \in BOOLEAN, NEW val \in Handlers, Placed(val), Answered(ok, val),
         op = "create" => val.item \in Items'
  PROVE  JobStep
<1>1. /\ done' \in Answers /\ done'.by = Head(aq).by /\ Placed(done'.val)
      /\ Head(aq).by # "nobody" => done'.ok = ok /\ done'.val = val
  BY HeadJob, AnswerType DEF Take, Types
<1>2. AroundOK'
  <2>1. 1..Len(name) \subseteq 1..Len(name') /\ 0..Len(name) \subseteq 0..Len(name')
    BY DEF ItemStep, ItemsOK, Types, NamesStay
  <2>4. \A i \in 0..Len(name) : i \in Items' => i \in Items
    BY DEF ItemStep, ItemsOK, Types, NamesStay, Items
  <2>2. core' \in Seq(1..Len(name')) /\ host' \in 0..Len(name')
    <3>1. core \in Seq(1..Len(name)) /\ host \in 0..Len(name) /\ core' = core /\ host' = host
      BY DEF AroundOK, aroundVars, Types
    <3> HIDE DEF aroundVars
    <3>2. core \in Seq(1..Len(name'))
      BY <2>1, <3>1, WiderSeq
    <3>3. QED
      BY <2>1, <3>1, <3>2
  <2>5. Range(core) \subseteq 0..Len(name)
    BY DEF AroundOK, Types, Range
  <2>3. QED
    BY <2>2, <2>4, <2>5 DEF AroundOK, aroundVars, Types
<1>3. QED
  BY <1>1, <1>2 DEF JobStep, Take

\* SetArguments, as a job.
LEMMA SetArgsJobStep == ASSUME Types, SetArgsJob PROVE JobStep
<1>1. It \in Items
  BY HeadJob DEF Types, SetArgsJob, Take, PluginOps
<1>2. ItemStep
  BY <1>1, SetArgsTypes DEF SetArgsJob, Types
<1> DEFINE ok == It \notin detached
<1>3. Take("setArgs") /\ UNCHANGED aroundVars /\ Answered(ok, NoHandler)
  BY DEF SetArgsJob
<1>4. ok \in BOOLEAN
  OBVIOUS
<1> HIDE DEF ok
<1>5. QED
  BY <1>2, <1>3, <1>4, ItemJob, NoHandlerType, NoHandlerIsPlaced

\* Delete, as a job.
LEMMA DeleteJobStep == ASSUME Types, DeleteJob PROVE JobStep
<1>1. It \in Items
  BY HeadJob DEF Types, DeleteJob, Take, PluginOps
<1>2. ItemStep
  BY <1>1, DeleteTypes DEF DeleteJob, Types
<1> DEFINE ok == It \notin detached
<1>3. Take("delete") /\ UNCHANGED aroundVars /\ Answered(ok, NoHandler)
  BY DEF DeleteJob
<1>4. ok \in BOOLEAN
  OBVIOUS
<1> HIDE DEF ok
<1>5. QED
  BY <1>2, <1>3, <1>4, ItemJob, NoHandlerType, NoHandlerIsPlaced

\* ToggleEnable.Do.
LEMMA ToggleJobStep == ASSUME Types, ToggleJob PROVE JobStep
<1>1. It \in Items
  BY HeadJob DEF Types, ToggleJob, Take
<1>2. ItemStep
  BY <1>1, SetEnableTypes DEF ToggleJob, Types
<1> DEFINE ok == It \notin detached
           h == [NoHandler EXCEPT !.on = It \notin enabled]
<1>3. Take("toggle") /\ UNCHANGED aroundVars /\ Answered(ok, h)
  BY DEF ToggleJob
<1>4. ok \in BOOLEAN
  OBVIOUS
<1>5. h \in Handlers /\ Placed(h)
  BY NoHandlerType, NoHandlerIsPlaced DEF Handlers, Placed
<1> HIDE DEF ok, h
<1>6. QED
  BY <1>2, <1>3, <1>4, <1>5, ItemJob

\* TreeItem.Create.
LEMMA CreateJobStep == ASSUME Types, CreateJob PROVE JobStep
<1>1. PICK n \in 1..MaxInstances + 1 :
        /\ FirstFree(n) /\ Open(n, Len(tree) + 1, TRUE, FALSE)
        /\ Answered(TRUE, Handler("new", New, Len(tree) + 1, n, TRUE))
  BY DEF CreateJob
<1> DEFINE h == Handler("new", New, Len(tree) + 1, n, TRUE)
<1>2. n \in Nat \ {0} /\ Len(tree) + 1 \in Nat \ {0} /\ n \notin info.names
  BY <1>1, SessionAssumption DEF FirstFree, Types, ItemsOK
<1>3. ItemStep
  BY <1>1, <1>2, OpenTypes DEF Types
<1>4. New \in 1..MaxInstances /\ New \in Items'
  BY <1>1, <1>2 DEF Open, New, Insts, Types, ItemsOK, Items
<1>5. h \in Handlers /\ h.item = New /\ Placed(h)
  BY <1>2, <1>4, SessionAssumption DEF Handler, Handlers, Placed
<1> HIDE DEF h
<1>6. Answered(TRUE, h)
  BY <1>1 DEF h
<1>7. QED
  BY <1>3, <1>4, <1>5, <1>6, ItemJob DEF CreateJob

\* Undo and redo of the handlers.
LEMMA HandlerJobStep ==
  ASSUME Types, NEW op \in HandlerOps, HandlerJob(op)
  PROVE  JobStep
<1>1. Take(op) /\ It \in Handlers /\ Placed(It) /\ UNCHANGED aroundVars /\ op # "create"
  BY HeadJob DEF Types, HandlerJob, Take, HandlerOps
<1>2. CASE /\ It.kind \in {"new", "clear"} /\ Open(It.name, It.pos, It.on, TRUE)
           /\ Answered(It.name \notin info.names, It)
  <2>1. It.name \in Nat \ {0} /\ It.pos \in Nat \ {0}
    BY <1>1, <1>2 DEF Handlers, Placed
  <2>2. ItemStep
    BY <1>2, <2>1, OpenTypes DEF Types
  <2> DEFINE ok == It.name \notin info.names
  <2>3. ok \in BOOLEAN /\ Answered(ok, It)
    BY <1>2
  <2> HIDE DEF ok
  <2>4. QED
    BY <1>1, <2>2, <2>3, ItemJob
<1>3. CASE posts' = <<>> /\ Answered(FALSE, It) /\ UNCHANGED itemVars
  <2>1. ItemStep
    BY <1>3, NoPosts DEF ItemStep, itemVars, ItemsOK, Types, NamesStay, Items
  <2>2. QED
    BY <1>1, <1>3, <2>1, ItemJob
<1> DEFINE i == tree[It.pos]
<1>4. ASSUME It.pos \in DOMAIN tree PROVE i \in Items /\ name[i] \in Nat \ {0}
  BY <1>4 DEF Types, ItemsOK, Range, Items
<1>5. CASE /\ It.pos \in DOMAIN tree /\ Delete(i)
           /\ Answered(i \notin detached,
                       IF It.kind = "new" THEN [It EXCEPT !.name = name[i], !.on = i \in enabled] ELSE It)
  <2>1. ItemStep
    BY <1>4, <1>5, DeleteTypes DEF Types
  <2> DEFINE on == i \in enabled
             n == name[i]
             h == IF It.kind = "new" THEN [It EXCEPT !.name = n, !.on = on] ELSE It
             ok == i \notin detached
  <2>2. on \in BOOLEAN /\ ok \in BOOLEAN /\ Answered(ok, h)
    BY <1>5
  <2>3. n \in Nat \ {0}
    BY <1>4, <1>5
  <2> HIDE DEF on, n, ok
  <2>4. h \in Handlers /\ Placed(h)
    BY <1>1, <2>2, <2>3 DEF Handlers, Placed
  <2> HIDE DEF h
  <2>5. QED
    BY <1>1, <2>1, <2>2, <2>4, ItemJob
<1>6. CASE /\ It.pos \in DOMAIN tree /\ SetEnable(i, IF op = "undo" THEN ~It.on ELSE It.on)
           /\ Answered(TRUE, It)
  <2>1. ItemStep
    BY <1>4, <1>6, SetEnableTypes DEF Types
  <2>2. QED
    BY <1>1, <1>6, <2>1, ItemJob
<1>7. CASE It.pos \in DOMAIN tree /\ SetArgs(i) /\ Answered(TRUE, It)
  <2>1. ItemStep
    BY <1>4, <1>7, SetArgsTypes DEF Types
  <2>2. QED
    BY <1>1, <1>7, <2>1, ItemJob
<1>8. QED
  BY <1>2, <1>3, <1>5, <1>6, <1>7 DEF HandlerJob

\* A macro that an event runs.
LEMMA MacroJobStep == ASSUME Types, MacroJob PROVE JobStep
<1>1. Take("macro") /\ Answered(TRUE, NoHandler) /\ UNCHANGED aroundVars
  BY DEF MacroJob
<1>2. ItemStep
  <2>1. CASE posts' = <<>> /\ UNCHANGED itemVars
    BY <2>1, NoPosts DEF ItemStep, itemVars, ItemsOK, Types, NamesStay, Items
  <2>2. ASSUME NEW i \in Range(tree), NEW flag \in BOOLEAN, SetEnable(i, flag) PROVE ItemStep
    BY <2>2, SetEnableTypes DEF Types, ItemsOK, Range
  <2>3. ASSUME NEW i \in Range(tree), posts' = <<Job("exclusive", i, "nobody")>>, UNCHANGED itemVars
        PROVE  ItemStep
    <3>1. ItemsOK /\ ItemsOK' /\ NamesStay /\ i \in Items'
      BY <2>3 DEF itemVars, ItemsOK, Types, Items, NamesStay
    <3>2. QED
      BY <2>3, <3>1, OnePost DEF ItemStep, PluginOps
  <2>4. QED
    BY <2>1, <2>2, <2>3 DEF MacroJob
<1>3. QED
  BY <1>1, <1>2, ItemJob, NoHandlerType, NoHandlerIsPlaced, "macro" # "create"

\* The plugins of the tree are instances.
LEMMA TreeIsKnown == ASSUME ItemsOK PROVE Range(tree) \in Known(Len(name))
  BY DEF ItemsOK, Range, Known

\* The state w after the plugins of S were closed and removed, as each is in
\* eg.plugins or a core plugin.
Gone(w, v, S) ==
  /\ v \in Infos(Len(name))
  /\ w.failed \subseteq v.failed /\ v.failed \subseteq w.failed \cup S
  /\ v.started = w.started \ (S \ w.failed)
  /\ v.again \subseteq w.again \cup (S \cap w.closed)
  /\ v.closed \subseteq w.closed \cup S
  /\ v.names = w.names \ {name[i] : i \in S}
  /\ (\A i \in S : Named(w, i)) => v.list = w.list \ S

\* Close and RemovePluginInstance, one after the other.
LEMMA ClosedAndRemoved ==
  ASSUME NEW w \in Infos(Len(name)), NEW S \in Known(Len(name)), NEW bad \in Known(Len(name))
  PROVE  /\ Gone(w, RemoveOf(CloseOf(w, S, bad), S), S)
         /\ RemoveOf(CloseOf(w, S, bad), S).failed \subseteq w.failed \cup bad
<1> DEFINE v == CloseOf(w, S, bad)
           u == RemoveOf(v, S)
<1>1. /\ v \in Infos(Len(name))
      /\ v.started = w.started \ (S \ w.failed)
      /\ w.failed \subseteq v.failed /\ v.failed \subseteq w.failed \cup (S \cap bad)
      /\ v.list = w.list /\ v.names = w.names
      /\ v.closed = w.closed \cup (S \ w.initFailed)
      /\ v.again = w.again \cup ((S \ w.initFailed) \cap w.closed)
  BY CloseFacts
<1> HIDE DEF v
<1>2. /\ u \in Infos(Len(name))
      /\ u.names = v.names \ {name[i] : i \in S}
      /\ u.list = v.list \ {i \in S : Named(v, i)}
      /\ u.started = v.started /\ u.failed = v.failed /\ u.closed = v.closed /\ u.again = v.again
  BY <1>1, RemoveFacts
<1> HIDE DEF u
<1>3. (\A i \in S : Named(w, i)) => {i \in S : Named(v, i)} = S
  BY <1>1 DEF Named
<1>4. Gone(w, u, S) /\ u.failed \subseteq w.failed \cup bad
  BY <1>1, <1>2, <1>3 DEF Gone
<1>5. QED
  BY <1>4 DEF u, v

\* UnloadPlugins: if every plugin can be removed, all are gone.
LEMMA UnloadFacts ==
  ASSUME ItemsOK, NEW bad \in Known(Len(name))
  PROVE  /\ Unload(bad) \in Infos(Len(name)) /\ Unload(bad).failed \subseteq Items
         /\ (\A k \in DOMAIN tree : Goes(k)) => Gone(info, Unload(bad), Range(tree))
<1> DEFINE S == {tree[k] : k \in {k \in DOMAIN tree : \A j \in 1..k - 1 : Goes(j)}}
           u == Unload(bad)
<1>1. S \in Known(Len(name)) /\ S \subseteq Range(tree)
  BY DEF ItemsOK, Known, Range
<1>2. u = RemoveOf(CloseOf(info, S, bad), S)
  BY DEF Unload
<1>3. (\A k \in DOMAIN tree : Goes(k)) => S = Range(tree)
  <2>1. \A k \in DOMAIN tree : \A j \in 1..k - 1 : j \in DOMAIN tree
    BY DEF ItemsOK
  <2>2. QED
    BY <2>1 DEF Range
<1> HIDE DEF S, u
<1>4. info \in Infos(Len(name)) /\ info.failed \cup Range(tree) \subseteq Items
  BY DEF ItemsOK
<1>5. Gone(info, u, S)
  BY <1>1, <1>2, <1>4, ClosedAndRemoved
<1>6. u \in Infos(Len(name)) /\ u.failed \subseteq Items
  BY <1>1, <1>4, <1>5 DEF Gone
<1>7. QED
  BY <1>3, <1>5, <1>6 DEF u

\* The state after a session that came to its end.
SessionGone ==
  /\ loaded' = "gone"
  /\ info'.started \subseteq info.started
  /\ info.failed \subseteq info'.failed
  /\ info'.started \cap (Range(tree) \cup Range(core)) \subseteq info.failed
  /\ info'.again \subseteq info.again \cup ((Range(tree) \cup Range(core)) \cap info.closed)
  /\ info'.list \subseteq info.list \ Range(tree)
  /\ info'.names \subseteq info.names \ {name[i] : i \in Range(tree)}

\* StopSession, complete or up to the plugin that cannot be removed.
LEMMA StopSessionJobStep ==
  ASSUME Types, StopSessionJob
  PROVE  /\ JobStep
         /\ IF loaded # "no" /\ \A k \in DOMAIN tree : Goes(k) THEN SessionGone
            ELSE loaded' = loaded /\ (Head(aq).by # "nobody" => ~done'.ok)
<1> DEFINE n == Len(name)
           ok == \A k \in DOMAIN tree : Goes(k)
           cores == Range(core)
<1>1. /\ Take("stopSession") /\ posts' = <<>> /\ crossed' \in BOOLEAN
      /\ UNCHANGED <<name, core, tree, host, enabled, detached, opened, strays, clash,
                     stockUndo, stockRedo>>
  BY DEF StopSessionJob, Types, AroundOK
<1>2. /\ loaded' \in {"no", "yes", "gone"} /\ info' \in Infos(n) /\ info'.failed \subseteq Items
      /\ \E yes \in BOOLEAN : /\ Answered(yes, NoHandler)
                              /\ IF loaded # "no" /\ ok THEN SessionGone ELSE loaded' = loaded /\ ~yes
  <2>1. CASE loaded = "no"
    BY <2>1 DEF StopSessionJob, Types, AroundOK, ItemsOK
  <2>2. CASE loaded # "no"
    <3>1. PICK bad \in BadSet("stop", Range(tree)) :
             /\ info' = IF ok THEN RemoveOf(CloseOf(Unload(bad), cores, {}), cores) ELSE Unload(bad)
             /\ loaded' = IF ok THEN "gone" ELSE loaded
             /\ Answered(ok, NoHandler)
      BY <2>2 DEF StopSessionJob
    <3>2. bad \in Known(n)
      BY TreeIsKnown, BadIsKnown DEF Types
    <3> DEFINE u == Unload(bad)
               v == RemoveOf(CloseOf(u, cores, {}), cores)
               items == Range(tree)
    <3>3. u \in Infos(n) /\ u.failed \subseteq Items /\ (ok => Gone(info, u, items))
      BY <3>2, UnloadFacts DEF Types
    <3>4. cores \in Known(n) /\ {} \in Known(n) /\ cores \cap Items = {}
      BY DEF Types, AroundOK, Range, Known
    <3>0. items \subseteq Items /\ info.failed \subseteq Items
      BY DEF Types, ItemsOK
    <3> HIDE DEF cores, u, items
    <3>5. Gone(u, v, cores) /\ v.failed \subseteq u.failed \cup {}
      BY <3>3, <3>4, ClosedAndRemoved
    <3>6. v \in Infos(n)
      BY <3>5 DEF Gone
    <3>7. ok \in BOOLEAN /\ (ok => info' = v /\ loaded' = "gone") /\ (~ok => info' = u /\ loaded' = loaded)
      BY <3>1 DEF u
    <3>8. Answered(ok, NoHandler)
      BY <3>1
    <3> HIDE DEF ok, v
    <3>9. \A i \in cores : name[i] = 0
      BY <3>4 DEF Known, Items, Types, ItemsOK
    <3>10. v.failed \subseteq Items
      BY <3>3, <3>5
    <3>11. ok => SessionGone
      <4>1. SUFFICES ASSUME ok PROVE SessionGone
        OBVIOUS
      <4>2. /\ u.failed \subseteq info.failed \cup items /\ info.failed \subseteq u.failed
            /\ u.started = info.started \ (items \ info.failed)
            /\ u.again \subseteq info.again \cup (items \cap info.closed)
            /\ u.closed \subseteq info.closed \cup items
            /\ u.names = info.names \ {name[i] : i \in items}
        BY <4>1, <3>3 DEF Gone
      <4>3. /\ u.failed \subseteq v.failed
            /\ v.started = u.started \ (cores \ u.failed)
            /\ v.again \subseteq u.again \cup (cores \cap u.closed)
            /\ v.names \subseteq u.names
            /\ v.list = u.list \ cores
        BY <3>5, <3>9 DEF Gone, Named
      <4>4. u.list = info.list \ items
        <5>1. \A i \in items : Named(info, i)
          BY <4>1 DEF ok, Goes, items, Range
        <5>2. QED
          BY <5>1, <4>1, <3>3 DEF Gone
      <4>5. cores \cap items = {} /\ cores \cap info.failed = {}
        BY <3>0, <3>4
      <4>6. v.started \cap (items \cup cores) \subseteq info.failed
        BY <4>2, <4>3, <4>5
      <4>7. v.again \subseteq info.again \cup ((items \cup cores) \cap info.closed)
        BY <4>2, <4>3, <4>5
      <4>8. info' = v /\ loaded' = "gone"
        BY <4>1, <3>7
      <4>9. v.started \subseteq info.started /\ info.failed \subseteq v.failed
        BY <4>2, <4>3
      <4>10. v.list \subseteq info.list \ items /\ v.names \subseteq info.names \ {name[i] : i \in items}
        BY <4>2, <4>3, <4>4
      <4>11. QED
        BY <4>6, <4>7, <4>8, <4>9, <4>10 DEF SessionGone, items, cores
    <3>12. QED
      BY <2>2, <3>3, <3>6, <3>7, <3>8, <3>10, <3>11 DEF Types, AroundOK
  <2>3. QED
    BY <2>1, <2>2
<1> HIDE DEF ok
<1>3. PICK yes \in BOOLEAN : /\ Answered(yes, NoHandler)
                            /\ IF loaded # "no" /\ ok THEN SessionGone ELSE loaded' = loaded /\ ~yes
  BY <1>2
<1>4. /\ done' \in Answers /\ done'.by = Head(aq).by /\ Placed(done'.val)
      /\ Head(aq).by # "nobody" => done'.ok = yes
  BY <1>1, <1>3, HeadJob, AnswerType, NoHandlerType, NoHandlerIsPlaced DEF Take, Types
<1>5. ItemsOK' /\ name' = name /\ NamesStay /\ Items' = Items
  BY <1>1, <1>2 DEF Types, ItemsOK, NamesStay, Items
<1>6. AroundOK'
  BY <1>1, <1>2, <1>5 DEF Types, AroundOK
<1>7. ItemStep
  BY <1>1, <1>5, NoPosts DEF ItemStep
<1>8. JobStep
  BY <1>1, <1>4, <1>6, <1>7 DEF JobStep, Take
<1>9. QED
  BY <1>3, <1>4, <1>8 DEF ok

\* The instances and names of a session that starts.
LEMMA NewItems ==
  ASSUME ItemsOK, NEW f \in Files, NEW count \in 0..Len(Contents[f]), New + count \in Insts,
         name' = name \o << 0 >> \o SubSeq(Contents[f], 1, count)
  PROVE  LET items == [k \in 1..count |-> New + k]
             m == Len(name')
         IN /\ New = Len(name) + 1 /\ m = Len(name) + 1 + count /\ m <= MaxInstances
            /\ name' \in Seq(Nat)
            /\ \A k \in 1..Len(name) : name'[k] = name[k]
            /\ name'[New] = 0
            /\ \A k \in 1..count : name'[New + k] = Contents[f][k] /\ name'[New + k] # 0
            /\ items \in Seq(1..m) /\ IsInjective(items)
            /\ Range(items) = New + 1..m
            /\ Range(SubSeq(Contents[f], 1, count)) = {Contents[f][k] : k \in 1..count}
            /\ Range(SubSeq(Contents[f], 1, count)) \in SUBSET Nat
<1> DEFINE first == SubSeq(Contents[f], 1, count)
           items == [k \in 1..count |-> New + k]
           m == Len(name')
<1>1. Contents[f] \in Seq(Nat \ {0}) /\ count \in Nat /\ count <= Len(Contents[f])
  BY SessionAssumption
<1>2. /\ first \in Seq(Nat) /\ Len(first) = count
      /\ \A k \in 1..count : first[k] = Contents[f][k] /\ first[k] \in Nat \ {0}
  BY <1>1
<1>3. Len(name) \in Nat /\ New = Len(name) + 1 /\ New + count <= MaxInstances
  BY SessionAssumption DEF ItemsOK, New, Insts
<1> HIDE DEF first
<1>4. /\ name' \in Seq(Nat) /\ m = Len(name) + 1 + count
      /\ \A k \in 1..Len(name) : name'[k] = name[k]
      /\ name'[New] = 0
      /\ \A k \in 1..count : name'[New + k] = first[k]
  <2> DEFINE u == name \o <<0>>
  <2>1. /\ u \in Seq(Nat) /\ Len(u) = New /\ u[New] = 0
        /\ \A k \in 1..Len(name) : u[k] = name[k]
    BY <1>3 DEF ItemsOK
  <2>2. name' = u \o first
    BY DEF first
  <2> HIDE DEF u
  <2>3. /\ u \o first \in Seq(Nat) /\ Len(u \o first) = New + count
        /\ \A k \in 1..New : (u \o first)[k] = u[k]
        /\ \A k \in New + 1..New + count : (u \o first)[k] = first[k - New]
    <3>1. /\ u \o first \in Seq(Nat) /\ Len(u \o first) = Len(u) + Len(first)
          /\ \A k \in 1..Len(u) : (u \o first)[k] = u[k]
          /\ \A k \in Len(u) + 1..Len(u) + Len(first) : (u \o first)[k] = first[k - Len(u)]
      <4>1. u \in Seq(Nat) /\ first \in Seq(Nat)
        BY <1>2, <2>1
      <4>2. QED
        BY <4>1, ConcatAt
    <3>2. QED
      BY <3>1, <1>2, <2>1
  <2>4. \A k \in 1..count : New + k \in New + 1..New + count /\ (New + k) - New = k
    BY <1>1, <1>3
  <2>5. \A k \in 1..count : name'[New + k] = first[k]
    <3>1. SUFFICES ASSUME NEW k \in 1..count PROVE name'[New + k] = first[k]
      OBVIOUS
    <3> DEFINE l == New + k
    <3>2. l \in New + 1..New + count /\ l - New = k
      BY <2>4
    <3> HIDE DEF l
    <3>3. name'[l] = first[l - New]
      BY <3>2, <2>2, <2>3
    <3>4. QED
      BY <3>2, <3>3 DEF l
  <2>6. \A k \in 1..New : name'[k] = u[k]
    BY <2>2, <2>3
  <2>7. New \in 1..New /\ \A k \in 1..Len(name) : k \in 1..New
    BY <1>3
  <2>8. name' \in Seq(Nat) /\ m = Len(name) + 1 + count
    BY <1>3, <2>2, <2>3
  <2>9. QED
    BY <2>1, <2>5, <2>6, <2>7, <2>8
<1>5. items \in Seq(1..m) /\ IsInjective(items)
  BY <1>1, <1>3, <1>4 DEF IsInjective
<1>6. Range(items) = New + 1..m
  <2>1. \A k \in 1..count : items[k] \in New + 1..m
    BY <1>1, <1>3, <1>4
  <2>2. \A i \in New + 1..m : i - New \in 1..count /\ items[i - New] = i
    BY <1>1, <1>3, <1>4
  <2>3. DOMAIN items = 1..count
    OBVIOUS
  <2> HIDE DEF items, m
  <2>4. QED
    BY <2>1, <2>2, <2>3 DEF Range
<1>7. DOMAIN first = 1..count
  BY <1>1, <1>2
<1>8. Range(first) = {Contents[f][k] : k \in 1..count}
  BY <1>2, <1>7 DEF Range
<1>9. Range(first) \in SUBSET Nat
  BY <1>2, <1>7 DEF Range
<1>10. \A k \in 1..count : name'[New + k] = Contents[f][k] /\ name'[New + k] # 0
  BY <1>2, <1>4
<1>11. m <= MaxInstances
  BY <1>3, <1>4
<1> HIDE DEF items, m
<1>12. QED
  BY <1>3, <1>4, <1>5, <1>6, <1>8, <1>9, <1>10, <1>11 DEF first, items, m

\* What a session that starts adds; it is taken over when it is complete.
SessionMade(complete) ==
  LET items == New + 1..Len(name')
  IN /\ info'.list = info.list \cup {New} \cup items
     /\ info'.closed = info.closed /\ info'.again = info.again
     /\ info.failed \subseteq info'.failed
     /\ info'.names = info.names \cup {name'[i] : i \in items}
     /\ \A i, k \in items : name'[i] = name'[k] => i = k
     /\ \A i \in items : name'[i] # 0
     /\ New = Len(name) + 1 /\ Range(core') \subseteq {New}
     /\ info'.started \subseteq info.started \cup Range(core') \cup (IF complete THEN items ELSE {})
     /\ IF complete THEN loaded' = "yes" /\ host' = New /\ Range(tree') = items
                    ELSE loaded' = loaded /\ host' = host /\ tree' = tree
     /\ complete => items \subseteq enabled' /\ items \subseteq info'.started \cup info'.failed

\* The core plugin of a new session.
LEMMA CoreOpenedFacts ==
  ASSUME NEW m \in Nat, info \in Infos(m), NEW c, c = New, c \in 1..m, NEW fails \in BOOLEAN
  PROVE  LET w == CoreOpened(fails)
         IN /\ w \in Infos(m)
            /\ w.list = info.list \cup {c} /\ w.names = info.names
            /\ w.started = info.started \cup (IF fails THEN {} ELSE {c})
            /\ w.failed = info.failed /\ w.closed = info.closed /\ w.again = info.again
<1> DEFINE S == {New}
           N == {}
           B == {}
           v == CreateOf(info, S, N, B)
           w == CoreOpened(fails)
<1>1. S = {c}
  OBVIOUS
<1>8. S \in Known(m) /\ N \in Names /\ B \in Known(m)
  BY DEF Known, Names
<1>2. w = IF fails THEN v ELSE [v EXCEPT !.started = v.started \cup {c}]
  BY DEF CoreOpened
<1>3. v.names = info.names \cup N => v.names = info.names
  OBVIOUS
<1> HIDE DEF S, N, B
<1>4. /\ v \in Infos(m)
      /\ v.names = info.names \cup N /\ v.list = info.list \cup S
      /\ v.started = info.started /\ v.failed = info.failed /\ v.closed = info.closed
      /\ v.again = info.again
  BY <1>8, CreateFacts
<1> HIDE DEF v, w
<1>5. CASE fails
  BY <1>1, <1>2, <1>3, <1>4, <1>5 DEF w
<1>6. CASE ~fails
  <2>1. w = [v EXCEPT !.started = v.started \cup {c}]
    BY <1>2, <1>6
  <2>2. /\ w \in Infos(m) /\ w.started = v.started \cup {c}
        /\ w.list = v.list /\ w.names = v.names /\ w.failed = v.failed
        /\ w.closed = v.closed /\ w.again = v.again
    BY <1>4, <2>1 DEF Infos, Known
  <2>3. QED
    BY <1>1, <1>3, <1>4, <1>6, <2>2 DEF w
<1>7. QED
  BY <1>5, <1>6

\* StartSession, complete or up to what raised.
LEMMA StartSessionJobStep ==
  ASSUME Types, StartSessionJob
  PROVE  /\ JobStep
         /\ \E complete \in BOOLEAN :
              /\ SessionMade(complete)
              /\ Head(aq).by # "nobody" => done'.ok = complete
<1>0. Take("startSession") /\ It \in Files /\ posts' = <<>>
  BY HeadJob DEF StartSessionJob, Types, Take
<1>1. PICK count \in 0..Len(Contents[It]), coreFails \in BOOLEAN :
       LET ok == It \notin Unreadable /\ count = Len(Contents[It])
           items == [k \in 1..count |-> New + k]
           first == SubSeq(Contents[It], 1, count)
       IN /\ Constructed(It, count) /\ New + count \in Insts
          /\ coreFails => "start" \in Failures
          /\ name' = name \o <<0>> \o first
          /\ core' = IF coreFails THEN <<>> ELSE <<New>>
          /\ \E bad \in BadSet("init", Range(items)), unstarted \in BadSet("start", Range(items)) :
               LET w == CreateOf(CoreOpened(coreFails), Range(items), Range(first), bad)
               IN info' = IF ok THEN StartOf(w, Range(items), unstarted) ELSE w
          /\ clash' = (clash \/ (It \notin Unreadable /\ ~ok))
          /\ IF ok THEN /\ tree' = items /\ host' = New /\ opened' = It /\ loaded' = "yes"
                        /\ enabled' = enabled \cup Range(items)
                   ELSE UNCHANGED <<tree, host, opened, loaded, enabled>>
          /\ Answered(ok, NoHandler)
  BY DEF StartSessionJob
<1> DEFINE ok == It \notin Unreadable /\ count = Len(Contents[It])
           items == [k \in 1..count |-> New + k]
           first == SubSeq(Contents[It], 1, count)
           m == Len(name')
<1>2. /\ New = Len(name) + 1 /\ m = Len(name) + 1 + count /\ m <= MaxInstances
      /\ name' \in Seq(Nat)
      /\ items \in Seq(1..m) /\ IsInjective(items)
      /\ Range(items) = New + 1..m /\ Range(first) \in SUBSET Nat
      /\ \A k \in 1..Len(name) : name'[k] = name[k]
      /\ name'[New] = 0
      /\ \A k \in 1..count : name'[New + k] = Contents[It][k] /\ name'[New + k] # 0
      /\ Range(first) = {Contents[It][k] : k \in 1..count}
  BY <1>0, <1>1, NewItems DEF Types
<1>3. ok \in BOOLEAN
  OBVIOUS
<1>4. Answered(ok, NoHandler)
  BY <1>1
<1>5. Len(name) \in Nat /\ count \in Nat /\ Len(name) <= m /\ m \in Nat
  BY <1>0, <1>2, SessionAssumption DEF Types, ItemsOK
<1>6. Range(items) \in Known(m) /\ {New} \in Known(m) /\ {} \in Known(m)
  <2> HIDE DEF items
  <2>1. New \in 1..m /\ New + 1..m \subseteq 1..m
    BY <1>2, <1>5
  <2>2. QED
    BY <2>1, <1>2 DEF Known
<1>7. Known(Len(name)) \subseteq Known(m) /\ 1..Len(name) \subseteq 1..m
  BY <1>5 DEF Known
<1> DEFINE news == Range(items)
           taken == Range(first)
           w == CoreOpened(coreFails)
           q == m
<1>8. /\ w \in Infos(q)
      /\ w.list = info.list \cup {New} /\ w.names = info.names
      /\ w.started = info.started \cup (IF coreFails THEN {} ELSE {New})
      /\ w.failed = info.failed /\ w.closed = info.closed /\ w.again = info.again
  <2>1. info \in Infos(q)
    BY <1>5, InfosGrow DEF Types, ItemsOK
  <2>2. New \in 1..m
    BY <1>2, <1>5
  <2> HIDE DEF items, first
  <2>3. QED
    BY <1>5, <2>1, <2>2, CoreOpenedFacts
<1>17. news \cap 1..Len(name) = {} /\ info.failed \cup info.closed \subseteq 1..Len(name)
  <2>1. news \cap 1..Len(name) = {}
    <3> HIDE DEF items
    <3>1. QED
      BY <1>2, <1>5
  <2>2. info.failed \cup info.closed \subseteq 1..Len(name)
    BY DEF Types, ItemsOK, Infos, Known
  <2>3. QED
    BY <2>1, <2>2
<1>9. /\ info' \in Infos(q) /\ info'.list = info.list \cup {New} \cup news
      /\ info'.names = info.names \cup taken /\ info'.closed = info.closed
      /\ info'.again = info.again
      /\ info.failed \subseteq info'.failed /\ info'.failed \subseteq info.failed \cup news
      /\ info'.started \subseteq info.started \cup (IF coreFails THEN {} ELSE {New})
                                  \cup (IF ok THEN news ELSE {})
      /\ ok => news \subseteq info'.started \cup info'.failed
  <2>1. PICK bad \in BadSet("init", news), unstarted \in BadSet("start", news) :
             info' = IF ok THEN StartOf(CreateOf(w, news, taken, bad), news, unstarted)
                           ELSE CreateOf(w, news, taken, bad)
    BY <1>1
  <2> DEFINE u == CreateOf(w, news, taken, bad)
             v == StartOf(u, news, unstarted)
  <2>0. news \in Known(q) /\ taken \in Names
    BY <1>2, <1>6 DEF Names
  <2> HIDE DEF news, taken, ok, w, q
  <2>2. bad \in Known(q) /\ unstarted \in Known(q) /\ unstarted \subseteq news
    BY <2>0, BadIsKnown
  <2>3. /\ u \in Infos(q)
        /\ u.names = w.names \cup taken /\ u.list = w.list \cup news
        /\ u.started = w.started /\ u.failed = w.failed /\ u.closed = w.closed /\ u.again = w.again
    BY <1>8, <2>0, <2>2, CreateFacts
  <2> HIDE DEF u
  <2>4. /\ v \in Infos(q)
        /\ v.started = u.started \cup (news \ unstarted)
        /\ v.failed = (u.failed \ (news \ u.started)) \cup ((news \ u.started) \cap unstarted)
        /\ v.again = u.again \cup ((news \ u.started) \cap u.closed)
        /\ v.list = u.list /\ v.names = u.names /\ v.closed = u.closed
    <3>1. u \in Infos(q)
      BY <2>3
    <3>2. unstarted \in Known(q)
      BY <2>2
    <3>3. QED
      BY <2>0, <3>1, <3>2, StartFacts
  <2>5. info' = IF ok THEN v ELSE u
    BY <2>1 DEF u
  <2> HIDE DEF v
  <2>6. CASE ok
    <3>1. info' = v
      BY <2>5, <2>6
    <3>2. news \cap info.closed = {} /\ news \cap info.failed = {}
      BY <1>17
    <3>3. /\ info' \in Infos(q) /\ info'.list = info.list \cup {New} \cup news
          /\ info'.names = info.names \cup taken /\ info'.closed = info.closed
      BY <1>8, <2>3, <2>4, <3>1
    <3>4. info'.again = info.again
      BY <1>8, <2>3, <2>4, <3>1, <3>2
    <3>5. info.failed \subseteq info'.failed /\ info'.failed \subseteq info.failed \cup news
      BY <1>8, <2>3, <2>4, <3>1, <3>2
    <3>6. info'.started \subseteq info.started \cup (IF coreFails THEN {} ELSE {New}) \cup news
      BY <1>8, <2>3, <2>4, <3>1
    <3>8. news \subseteq info'.started \cup info'.failed
      BY <2>4, <3>1
    <3>7. QED
      BY <2>6, <3>3, <3>4, <3>5, <3>6, <3>8
  <2>7. CASE ~ok
    <3>1. info' = u
      BY <2>5, <2>7
    <3>2. QED
      BY <1>8, <2>3, <2>7, <3>1
  <2>8. QED
    BY <2>6, <2>7
<1>10. tree \in Seq(1..m) /\ core' \in Seq(1..m) /\ host' \in 0..m /\ clash' \in BOOLEAN
  <2>1. tree \in Seq(1..m)
    BY <1>7, WiderSeq DEF Types, ItemsOK
  <2>2. core' \in Seq(1..m)
    <3>1. core' = <<>> \/ core' = <<New>>
      BY <1>1
    <3>2. New \in 1..m
      BY <1>2, <1>5
    <3> DEFINE S == 1..m
    <3>3. New \in S
      BY <3>2
    <3> HIDE DEF S
    <3>4. core' \in Seq(S)
      <4>1. <<>> \in Seq(S) /\ <<New>> \in Seq(S)
        BY <3>3, RangeOfShort
      <4>2. QED
        BY <4>1, <3>1
    <3>5. QED
      BY <3>4 DEF S
  <2>3. host' = New \/ host' = host
    BY <1>1
  <2>4. host' \in 0..m
    <3>1. host \in 0..Len(name)
      BY DEF Types, AroundOK
    <3> HIDE DEF m
    <3>2. QED
      BY <1>2, <1>5, <2>3, <3>1
  <2>5. clash' \in BOOLEAN
    <3>1. clash' = (clash \/ (It \notin Unreadable /\ ~ok)) /\ clash \in BOOLEAN
      BY <1>1 DEF Types, ItemsOK
    <3> HIDE DEF ok
    <3>2. QED
      BY <3>1
  <2>6. QED
    BY <2>1, <2>2, <2>4, <2>5
<1>11. enabled' \in Known(m) /\ detached' \in Known(m) /\ strays' \in Known(m)
  <2>1. enabled' = enabled \/ enabled' = enabled \cup Range(items)
    BY <1>1
  <2>2. QED
    BY <2>1, <1>6, <1>7 DEF StartSessionJob, Types, ItemsOK, Known
<1>12. tree' = tree \/ tree' = items
  BY <1>1
<1>18. /\ Items' = Items \cup news /\ NamesStay
  <2>1. DOMAIN name' = 1..m /\ DOMAIN name = 1..Len(name)
    BY <1>2 DEF Types, ItemsOK
  <2>2. 1..m = 1..Len(name) \cup {New} \cup New + 1..m
    BY <1>2, <1>5
  <2>3. \A i \in New + 1..m : name'[i] # 0
    <3>1. \A i \in New + 1..m : i - New \in 1..count /\ New + (i - New) = i
      BY <1>2, <1>5
    <3>2. QED
      BY <1>2, <3>1
  <2>4. \A i \in 1..Len(name) : name'[i] = name[i]
    BY <1>2
  <2>5. NamesStay
    BY <1>5, <2>1, <2>4 DEF NamesStay
  <2> DEFINE old == 1..Len(name)
             late == New + 1..m
             all == 1..m
  <2>6. news = late /\ all = old \cup {New} \cup late /\ DOMAIN name' = all /\ DOMAIN name = old
        /\ name'[New] = 0
        /\ (\A i \in late : name'[i] # 0) /\ \A i \in old : name'[i] = name[i]
    BY <1>2, <2>1, <2>2, <2>3, <2>4
  <2> HIDE DEF old, late, all, news
  <2>7. Items' = Items \cup news
    BY <2>6 DEF Items
  <2>8. QED
    BY <2>5, <2>7
<1>13. ItemsOK'
  <2> HIDE DEF items
  <2>1. tree' \in Seq(1..m) /\ IsInjective(tree') /\ Range(tree') \subseteq Items'
    BY <1>2, <1>10, <1>12, <1>18 DEF Types, ItemsOK
  <2>2. info'.failed \cup strays' \subseteq Items'
    BY <1>9, <1>18 DEF StartSessionJob, Types, ItemsOK
  <2>3. QED
    BY <1>2, <1>9, <1>10, <1>11, <2>1, <2>2 DEF ItemsOK
<1>19. core' = (IF coreFails THEN <<>> ELSE <<New>>) /\ Range(core') = (IF coreFails THEN {} ELSE {New})
  <2>1. core' = (IF coreFails THEN <<>> ELSE <<New>>)
    BY <1>1
  <2>2. QED
    BY <2>1, RangeOfShort
<1>14. AroundOK'
  <2>1. loaded' \in {"no", "yes", "gone"} /\ opened' \in Files \cup {NoFile}
    <3>1. (loaded' = "yes" /\ opened' = It) \/ (loaded' = loaded /\ opened' = opened)
      BY <1>1
    <3>2. QED
      BY <1>0, <3>1 DEF Types, AroundOK
  <2>2. stockUndo' = <<>> /\ stockRedo' = <<>> /\ crossed' = crossed
    BY DEF StartSessionJob
  <2>3. New \notin Items' /\ host \notin Items' /\ (host' = New \/ host' = host)
    <3>1. New \notin Items /\ New \notin news /\ host \notin Items /\ host \notin news
      <4> HIDE DEF items
      <4>1. New \notin news /\ host \notin news
        <5>1. host \in 0..Len(name)
          BY DEF Types, AroundOK
        <5>2. news = New + 1..m
          BY <1>2
        <5> HIDE DEF news, m
        <5>3. QED
          BY <1>2, <1>5, <5>1, <5>2
      <4>2. New \notin Items
        BY <1>2, <1>5, ItemsAreKnown DEF Types
      <4>3. QED
        BY <4>1, <4>2 DEF Types, AroundOK
    <3>2. host' = New \/ host' = host
      BY <1>1
    <3> HIDE DEF news
    <3>3. QED
      BY <3>1, <3>2, <1>18
  <2>4. host' \notin Items' /\ Range(core') \cap Items' = {}
    BY <1>19, <2>3
  <2>5. QED
    BY <1>10, <2>1, <2>2, <2>4 DEF AroundOK, Types, Range
<1>15. /\ done' \in Answers /\ done'.by = Head(aq).by /\ Placed(done'.val)
       /\ Head(aq).by # "nobody" => done'.ok = ok
  <2> HIDE DEF ok
  <2>1. QED
    BY <1>0, <1>3, <1>4, HeadJob, AnswerType, NoHandlerType, NoHandlerIsPlaced DEF Take, Types
<1>16. JobStep
  BY <1>0, <1>5, <1>13, <1>14, <1>15, <1>18, NoPosts DEF JobStep, ItemStep, Take
<1>20. \A i, k \in news : name'[i] = name'[k] => i = k
  <2>1. \A j, k \in 1..count : j < k => Contents[It][j] # Contents[It][k]
    <3>1. CASE It \in Unreadable
      BY <1>1, <3>1 DEF Constructed
    <3>2. CASE It \notin Unreadable
      <4>1. \A k \in 1..count : \A j \in 1..k - 1 : Contents[It][j] # Contents[It][k]
        BY <1>1, <3>2 DEF Constructed, Fresh
      <4>2. QED
        BY <1>5, <4>1
    <3>3. QED
      BY <3>1, <3>2
  <2>2. SUFFICES ASSUME NEW i \in news, NEW k \in news, name'[i] = name'[k] PROVE i = k
    BY Zenon
  <2>3. i \in New + 1..m /\ k \in New + 1..m
    BY <1>2
  <2>4. i - New \in 1..count /\ k - New \in 1..count /\ New + (i - New) = i /\ New + (k - New) = k
    BY <1>2, <1>5, <2>3
  <2>5. name'[i] = Contents[It][i - New] /\ name'[k] = Contents[It][k - New]
    BY <1>2, <2>4
  <2>6. ~(i - New < k - New) /\ ~(k - New < i - New)
    BY <2>1, <2>2, <2>4, <2>5
  <2>7. QED
    BY <2>3, <2>6, <1>2, <1>5
<1>21. taken = {name'[i] : i \in news} /\ \A i \in news : name'[i] # 0
  <2>1. \A k \in 1..count : New + k \in news
    BY <1>2, <1>5
  <2>2. \A i \in news : i - New \in 1..count /\ New + (i - New) = i
    <3>1. news = New + 1..m
      BY <1>2
    <3> HIDE DEF news
    <3>2. QED
      BY <1>2, <1>5, <3>1
  <2>4. taken = {Contents[It][k] : k \in 1..count}
    BY <1>2
  <2>5. \A i \in news : name'[i] = Contents[It][i - New] /\ name'[i] # 0
    BY <1>2, <2>2
  <2>6. \A k \in 1..count : Contents[It][k] = name'[New + k]
    BY <1>2
  <2> HIDE DEF news, taken
  <2>7. taken \subseteq {name'[i] : i \in news}
    BY <2>1, <2>4, <2>6
  <2>8. {name'[i] : i \in news} \subseteq taken
    BY <2>2, <2>4, <2>5
  <2>3. QED
    BY <2>5, <2>7, <2>8
<1>22. IF ok THEN loaded' = "yes" /\ host' = New /\ Range(tree') = news
              ELSE loaded' = loaded /\ host' = host /\ tree' = tree
  BY <1>1
<1>25. ok => news \subseteq enabled'
  BY <1>1
<1>23. SessionMade(ok)
  <2>1. news = New + 1..Len(name')
    BY <1>2
  <2> HIDE DEF news, taken, ok
  <2>2. QED
    BY <1>2, <1>9, <1>19, <1>20, <1>21, <1>22, <1>25, <2>1 DEF SessionMade
<1>24. QED
  <2> HIDE DEF ok
  <2>1. QED
    BY <1>3, <1>15, <1>16, <1>23

-----------------------------------------------------------------------------
(* Who waits for whom. *)
\* The jobs whose caller waits, and those that end a session.
By(who) == {j \in Jobs : j.by = who}
Stops == {j \in Jobs : j.op = "stopSession"}

\* At most one element of the queue s is in G.
Sole(s, G) == \A k, l \in DOMAIN s : s[k] \in G /\ s[l] \in G => k = l

\* Where the main thread is and the job it asked for.
AskedFor == {<<"create", "create">>, <<"setup", "setArgs">>, <<"edit", "delete">>,
             <<"edit", "toggle">>, <<"edit", "setArgs">>, <<"undo", "undo">>,
             <<"redo", "redo">>, <<"exit", "stopSession">>}
AskPcs == {"create", "setup", "edit", "undo", "redo", "exit"}

\* The main thread waits for one job and gets one answer.
MainJob(j) ==
  /\ j.by = "main" => <<mpc, j.op>> \in AskedFor /\ mreply = "none" /\ done.by # "main"
  /\ j.op \in {"create", "toggle"} \cup HandlerOps => j.by = "main"

MainInv ==
  /\ Sole(aq, By("main")) /\ \A j \in Range(aq) : MainJob(j)
  /\ done.by = "main" => mreply = "none" /\ mpc \in AskPcs

\* So does the event thread.
EventJob(j) ==
  j.by = "event" =>
    /\ <<epc, j.op>> \in {<<"stopping", "stopSession">>, <<"starting", "startSession">>}
    /\ ereply = "none" /\ done.by # "event"

EventInv ==
  /\ Sole(aq, By("event")) /\ \A j \in Range(aq) : EventJob(j)
  /\ done.by = "event" => ereply = "none" /\ epc \in {"stopping", "starting"}

\* The main thread waits for the event thread, which gets one StopSession.
UnloadInv ==
  /\ mpc = "unload" => marg.kind \in Files
  /\ epc = "stopping" => mpc = "unload" /\ mreply = "none"
  /\ Sole(eq, Stops)
  /\ \A j \in Range(eq) : j.op = "stopSession" =>
       mpc = "unload" /\ mreply = "none" /\ epc # "stopping"

\* What is answered to NewPlugin.Do is a plugin of the tree.
ValueInv ==
  /\ mpc = "create" /\ done.by = "main" /\ done.ok => done.val.item \in Items
  /\ mpc = "create" /\ mreply = "ok" => mval.item \in Items
  /\ mpc = "setup" => marg.item \in Items
  /\ Placed(done.val) /\ Placed(mval) /\ (mpc # "unload" => Placed(marg))
  /\ \A h \in dialogs : h.item \in Items /\ Placed(h)

Inv == Types /\ MainInv /\ EventInv /\ UnloadInv /\ ValueInv

\* A second one of its kind is not appended.
LEMMA SoleAppend ==
  ASSUME NEW S, NEW s \in Seq(S), NEW e \in S, NEW G, Sole(s, G), e \notin G \/ Range(s) \cap G = {}
  PROVE  Sole(Append(s, e), G)
<1>1. Len(Append(s, e)) = Len(s) + 1 /\ Append(s, e) \in Seq(S)
  OBVIOUS
<1>2. \A k \in 1..Len(s) : Append(s, e)[k] = s[k] /\ s[k] \in Range(s)
  BY DEF Range
<1>3. Append(s, e)[Len(s) + 1] = e
  OBVIOUS
<1>4. QED
  BY <1>1, <1>2, <1>3 DEF Sole

\* The only one of its kind, when the head is taken.
LEMMA SoleTail ==
  ASSUME NEW S, NEW s \in Seq(S), s # <<>>, NEW G, Sole(s, G)
  PROVE  Sole(Tail(s), G) /\ (Head(s) \in G => Range(Tail(s)) \cap G = {})
<1>1. /\ Tail(s) \in Seq(S) /\ Len(Tail(s)) = Len(s) - 1 /\ Len(s) \in Nat /\ Head(s) = s[1]
      /\ \A k \in DOMAIN Tail(s) : k + 1 \in DOMAIN s /\ Tail(s)[k] = s[k + 1]
  BY RangeOfTail
<1> DEFINE t == Tail(s)
<1> HIDE DEF t
<1>2. DOMAIN t \subseteq Nat /\ \A k \in DOMAIN t : k + 1 # 1
  BY <1>1 DEF t
<1>3. Sole(t, G)
  <2>1. SUFFICES ASSUME NEW k \in DOMAIN t, NEW l \in DOMAIN t, t[k] \in G, t[l] \in G PROVE k = l
    BY DEF Sole
  <2>2. k + 1 = l + 1
    BY <1>1, <2>1 DEF t, Sole
  <2>3. QED
    BY <1>2, <2>2
<1>4. Head(s) \in G => Range(t) \cap G = {}
  <2>1. SUFFICES ASSUME s[1] \in G, NEW k \in DOMAIN t, t[k] \in G PROVE FALSE
    BY <1>1 DEF Range
  <2>2. k + 1 = 1
    BY <1>1, <2>1 DEF t, Sole
  <2>3. QED
    BY <1>2, <2>2
<1>5. QED
  BY <1>3, <1>4 DEF t

\* A job that is appended to the queue of the action thread.
LEMMA Appended ==
  ASSUME aq \in Seq(Jobs), NEW j \in Jobs, aq' = Append(aq, j)
  PROVE  /\ aq' \in Seq(Jobs) /\ Range(aq') = Range(aq) \cup {j}
         /\ \A who \in Callers :
              Sole(aq, By(who)) /\ (j.by # who \/ \A i \in Range(aq) : i.by # who) => Sole(aq', By(who))
<1>1. aq' \in Seq(Jobs) /\ Range(aq') = Range(aq) \cup {j}
  BY RangeOfAppend
<1>2. ASSUME NEW who \in Callers, Sole(aq, By(who)), j.by # who \/ \A i \in Range(aq) : i.by # who
      PROVE  Sole(aq', By(who))
  <2> DEFINE G == By(who)
  <2>1. j \notin G \/ Range(aq) \cap G = {}
    BY <1>2 DEF By
  <2> HIDE DEF G
  <2>2. Sole(aq', G)
    BY <1>2, <2>1, SoleAppend DEF G
  <2>3. QED
    BY <2>2 DEF G
<1>3. QED
  BY <1>1, <1>2

\* A job of the action thread keeps the invariant.
LEMMA JobKeepsTypes == ASSUME Inv, JobStep PROVE Types' /\ Items \subseteq Items'
<1>1. /\ aq # <<>> /\ aq' = Tail(aq) /\ aq' \in Seq(Jobs) /\ Range(aq') \subseteq Range(aq)
      /\ UNCHANGED <<eq, epc, ereply, mpc, mreply, mval, marg, dialogs, commands, events>>
      /\ ItemsOK' /\ AroundOK' /\ PostsOK' /\ NamesStay /\ done' \in Answers
  BY RangeOfTail DEF JobStep, ItemStep, eventVars, Inv, Types, QueuesOK
<1>2. Items \subseteq Items'
  BY <1>1 DEF NamesStay, Items, Inv, Types, ItemsOK
<1>3. ASSUME NEW j, ForAction(j) PROVE ForAction(j)'
  <2>1. IsJob(j)'
    BY <1>1, <1>3, JobsStay DEF ForAction, NamesStay, Inv, Types, ItemsOK
  <2>2. QED
    BY <1>2, <1>3, <2>1 DEF ForAction
<1>4. ASSUME NEW j, ForEvents(j) PROVE ForEvents(j)'
  BY <1>1, <1>4, JobsStay DEF ForEvents, NamesStay, Inv, Types, ItemsOK
<1>5. QueuesOK'
  BY <1>1, <1>3, <1>4 DEF QueuesOK, Inv, Types
<1>6. ControlOK'
  BY <1>1 DEF ControlOK, Inv, Types
<1>7. QED
  BY <1>1, <1>2, <1>5, <1>6 DEF Types

\* The jobs of the action thread, by what they have in common.
LEMMA JobKeepsInv == ASSUME Inv, JobStep PROVE Inv'
<1>1. Types' /\ Items \subseteq Items'
  BY JobKeepsTypes
<1>2. /\ aq # <<>> /\ aq' = Tail(aq) /\ aq \in Seq(Jobs)
      /\ UNCHANGED <<eq, epc, ereply, mpc, mreply, mval, marg, dialogs, commands, events>>
      /\ done' \in Answers /\ done'.by = Head(aq).by /\ done.by = "nobody"
      /\ Head(aq).op = "create" /\ Head(aq).by = "main" /\ done'.ok => done'.val.item \in Items'
      /\ Placed(done'.val)
  BY DEF JobStep, ItemStep, eventVars, Inv, Types, QueuesOK, NobodyWaits
<1> DEFINE h == Head(aq)
<1>3. /\ h \in Jobs /\ h \in Range(aq) /\ aq' \in Seq(Jobs) /\ Range(aq') \subseteq Range(aq)
  BY <1>2, RangeOfTail
<1>4. ASSUME NEW who \in {"main", "event"}, Sole(aq, By(who))
      PROVE  Sole(aq', By(who)) /\ (h.by = who => \A j \in Range(aq') : j.by # who)
  <2> DEFINE G == By(who)
  <2>1. h.by = who => h \in G
    BY <1>3 DEF By
  <2>2. \A j \in Range(aq') : j.by = who => j \in G
    BY <1>3 DEF By, Range
  <2> HIDE DEF G
  <2>3. Sole(aq', G) /\ (h \in G => Range(aq') \cap G = {})
    BY <1>2, <1>4, SoleTail DEF G
  <2>4. QED
    BY <2>1, <2>2, <2>3 DEF G
<1>5. MainJob(h) /\ EventJob(h)
  BY <1>3 DEF Inv, MainInv, EventInv
<1> HIDE DEF h
<1>6. MainInv'
  <2>1. Sole(aq', By("main")) /\ (h.by = "main" => \A j \in Range(aq') : j.by # "main")
    BY <1>4 DEF Inv, MainInv
  <2>2. \A j \in Range(aq') : MainJob(j)'
    BY <1>2, <1>3, <2>1 DEF Inv, MainInv, MainJob, h
  <2>3. done'.by = "main" => mreply' = "none" /\ mpc' \in AskPcs
    BY <1>2, <1>5 DEF MainJob, AskedFor, AskPcs, h
  <2>4. QED
    BY <2>1, <2>2, <2>3 DEF MainInv
<1>7. EventInv'
  <2>1. Sole(aq', By("event")) /\ (h.by = "event" => \A j \in Range(aq') : j.by # "event")
    BY <1>4 DEF Inv, EventInv
  <2>2. \A j \in Range(aq') : EventJob(j)'
    BY <1>2, <1>3, <2>1 DEF Inv, EventInv, EventJob, h
  <2>3. done'.by = "event" => ereply' = "none" /\ epc' \in {"stopping", "starting"}
    BY <1>2, <1>5 DEF EventJob, h
  <2>4. QED
    BY <2>1, <2>2, <2>3 DEF EventInv
<1>8. UnloadInv'
  BY <1>2 DEF Inv, UnloadInv
<1>9. ValueInv'
  <2>1. mpc = "create" /\ done'.by = "main" => h.op = "create" /\ h.by = "main"
    BY <1>2, <1>5 DEF MainJob, AskedFor, h
  <2>2. QED
    BY <1>1, <1>2, <2>1 DEF Inv, ValueInv, h
<1>10. QED
  BY <1>1, <1>6, <1>7, <1>8, <1>9 DEF Inv

\* The other steps leave the plugins alone.
LEMMA QueueStepTypes ==
  ASSUME Types,
         UNCHANGED <<info, name, core, tree, host, enabled, detached, loaded, opened, clash>>,
         strays' \in Known(Len(name)), strays' \subseteq Items, crossed' \in BOOLEAN,
         posts' \in Seq(Jobs), Range(posts') \subseteq Range(posts),
         aq' \in Seq(Jobs), \A j \in Range(aq') : j \in Range(aq) \/ ForAction(j),
         eq' \in Seq(Jobs), \A j \in Range(eq') : j \in Range(eq) \/ ForEvents(j),
         stockUndo' \in Seq(Handlers), stockRedo' \in Seq(Handlers),
         \A h \in Range(stockUndo') \cup Range(stockRedo') : Placed(h),
         ControlOK'
  PROVE  Types' /\ Items' = Items
<1>1. Items' = Items /\ \A j : IsJob(j)' <=> IsJob(j)
  BY DEF Items, IsJob
<1>2. ItemsOK'
  BY <1>1 DEF Types, ItemsOK
<1>3. AroundOK'
  BY <1>1 DEF Types, AroundOK
<1>4. PostsOK'
  BY <1>1 DEF Types, PostsOK
<1>5. \A j : (ForAction(j)' <=> ForAction(j)) /\ (ForEvents(j)' <=> ForEvents(j))
  BY <1>1 DEF ForAction, ForEvents
<1>6. QueuesOK'
  BY <1>5 DEF Types, QueuesOK
<1>7. QED
  BY <1>1, <1>2, <1>3, <1>4, <1>6 DEF Types

\* What a job leaves goes behind what waits; nobody waits for it.
LEMMA PostKeepsInv == ASSUME Inv, Post PROVE Inv'
<1> DEFINE j == Head(posts)
<1>1. /\ posts' = Tail(posts) /\ posts' \in Seq(Jobs) /\ Range(posts') \subseteq Range(posts)
      /\ j \in Jobs /\ j \in Range(posts) /\ aq' = Append(aq, j) /\ aq \in Seq(Jobs)
      /\ UNCHANGED <<pluginVars, done, eventVars, mainVars, commands, events, crossed>>
  BY RangeOfTail DEF Post, Inv, Types, PostsOK, QueuesOK
<1>2. IsJob(j) /\ j.op \in PluginOps /\ j.by = "nobody" /\ j.arg \in Items
  BY <1>1 DEF Inv, Types, PostsOK
<1> HIDE DEF j
<1>3. /\ aq' \in Seq(Jobs) /\ Range(aq') = Range(aq) \cup {j}
      /\ Sole(aq, By("main")) => Sole(aq', By("main"))
      /\ Sole(aq, By("event")) => Sole(aq', By("event"))
  BY <1>1, <1>2, Appended DEF Callers
<1>4. ForAction(j)
  BY <1>2 DEF ForAction, PluginOps, HandlerOps
<1>5. UNCHANGED <<info, name, core, tree, host, enabled, detached, loaded, opened, clash, strays, eq, epc,
                  ereply, mpc, mreply, mval, marg, dialogs, stockUndo, stockRedo, done, commands, events, crossed>>
  BY <1>1 DEF pluginVars, eventVars, mainVars
<1>6. ControlOK'
  BY <1>5 DEF Inv, Types, ControlOK
<1>7. Types' /\ Items' = Items
  BY <1>1, <1>3, <1>4, <1>5, <1>6, QueueStepTypes DEF Inv, Types, AroundOK, QueuesOK, ItemsOK
<1>8. MainInv'
  BY <1>2, <1>3, <1>5 DEF Inv, MainInv, MainJob, PluginOps, HandlerOps
<1>9. EventInv'
  BY <1>2, <1>3, <1>5 DEF Inv, EventInv, EventJob
<1>10. UnloadInv' /\ ValueInv'
  BY <1>5, <1>7 DEF Inv, UnloadInv, ValueInv
<1>11. QED
  BY <1>7, <1>8, <1>9, <1>10 DEF Inv

\* The answer finds the caller that asked.
LEMMA AnswerKeepsInv == ASSUME Inv, Answer PROVE Inv'
<1>1. /\ UNCHANGED <<info, name, core, tree, host, enabled, detached, loaded, opened, clash, strays, posts,
                     aq, eq, epc, mpc, marg, dialogs, stockUndo, stockRedo, commands, events, crossed>>
      /\ done' = NobodyWaits
  BY DEF Answer, pluginVars
<1>2. done' \in Answers /\ Placed(done'.val) /\ done'.by = "nobody"
  BY <1>1, NoHandlerType, NoHandlerIsPlaced DEF NobodyWaits, Answers, Callers
<1>3. \/ /\ done.by = "main" /\ mreply' = (IF done.ok THEN "ok" ELSE "raised") /\ mval' = done.val
         /\ ereply' = ereply
      \/ /\ done.by = "event" /\ ereply' = (IF done.ok THEN "ok" ELSE "raised")
         /\ mreply' = mreply /\ mval' = mval
  <2>1. done.by \in {"main", "event"}
    BY DEF Answer, Inv, Types, ControlOK, Answers, Callers
  <2>2. QED
    BY <2>1 DEF Answer
<1>4. ControlOK'
  BY <1>1, <1>2, <1>3 DEF Inv, Types, ControlOK, Answers, MainInv, EventInv, AskPcs
<1>5. Types' /\ Items' = Items
  BY <1>1, <1>4, QueueStepTypes DEF Inv, Types, AroundOK, QueuesOK, ItemsOK, PostsOK
<1>6. MainInv'
  BY <1>1, <1>2, <1>3 DEF Inv, MainInv, MainJob
<1>7. EventInv'
  BY <1>1, <1>2, <1>3 DEF Inv, EventInv, EventJob
<1>8. UnloadInv'
  BY <1>1, <1>3 DEF Inv, UnloadInv, MainInv, AskPcs
<1>9. ValueInv'
  BY <1>1, <1>2, <1>3, <1>5 DEF Inv, ValueInv
<1>10. QED
  BY <1>5, <1>6, <1>7, <1>8, <1>9 DEF Inv

\* The event thread's steps.
LEMMA TakeEventKeepsInv == ASSUME Inv, TakeEvent PROVE Inv'
<1> DEFINE j == Head(eq)
<1>1. /\ eq # <<>> /\ eq \in Seq(Jobs) /\ eq' = Tail(eq) /\ eq' \in Seq(Jobs)
      /\ Range(eq') \subseteq Range(eq) /\ j \in Range(eq)
  BY RangeOfTail DEF TakeEvent, Inv, Types, QueuesOK
<1>2. ForEvents(j) /\ (j.op = "startSession" => j.arg \in Files)
  BY <1>1 DEF Inv, Types, QueuesOK, ForEvents, IsJob
<1>3. Sole(eq', Stops) /\ (j.op = "stopSession" => \A i \in Range(eq') : i.op # "stopSession")
  <2>1. Sole(eq', Stops) /\ (Head(eq) \in Stops => Range(eq') \cap Stops = {})
    BY <1>1, SoleTail DEF Inv, UnloadInv
  <2>2. j \in Jobs /\ \A i \in Range(eq') : i \in Jobs
    BY <1>1 DEF Range
  <2>3. QED
    BY <2>1, <2>2 DEF Stops
<1>4. /\ UNCHANGED <<info, name, core, tree, host, enabled, detached, loaded, opened, clash, strays, posts,
                     done, ereply, mpc, mreply, mval, marg, dialogs, stockUndo, stockRedo, commands, events, crossed>>
      /\ epc = "idle" /\ ereply = "none" /\ done.by # "event" /\ \A i \in Range(aq) : i.by # "event"
  BY DEF TakeEvent, eventSame, pluginVars, Inv, Types, ControlOK, EventInv, EventJob
<1>5. /\ epc' \in {"idle", "stopping", "starting", "ended"}
      /\ epc' = "stopping" => j.op = "stopSession"
      /\ aq' = aq \/ \E b \in Jobs : /\ aq' = Append(aq, b) /\ ForAction(b) /\ b.by \in {"event", "nobody"}
                                     /\ b.by = "event" => <<epc', b.op>> \in {<<"stopping", "stopSession">>,
                                                                              <<"starting", "startSession">>}
                                     /\ b.op \notin {"create", "toggle"} \cup HandlerOps
  <2>1. CASE j.op = "stopSession" /\ epc' = "stopping" /\ aq' = Append(aq, Job("stopSession", 0, "event"))
    <3> DEFINE b == Job("stopSession", 0, "event")
    <3>1. b \in Jobs /\ IsJob(b) /\ b.op = "stopSession" /\ b.by = "event"
      BY OtherJobs DEF Callers, Job
    <3> HIDE DEF b
    <3>2. ForAction(b)
      BY <3>1 DEF ForAction, OnPlugin, PluginOps, HandlerOps
    <3>3. QED
      BY <2>1, <3>1, <3>2 DEF b, HandlerOps
  <2>2. CASE j.op = "startSession" /\ epc' = "starting" /\ aq' = Append(aq, Job("startSession", j.arg, "event"))
    <3> DEFINE b == Job("startSession", j.arg, "event")
    <3>1. b \in Jobs /\ IsJob(b) /\ b.op = "startSession" /\ b.by = "event"
      BY <1>2, <2>2, SessionJobs DEF Callers, Job
    <3> HIDE DEF b
    <3>2. ForAction(b)
      BY <3>1 DEF ForAction, OnPlugin, PluginOps, HandlerOps
    <3>3. QED
      BY <2>2, <3>1, <3>2 DEF b, HandlerOps
  <2>3. CASE j.op = "event" /\ aq' = Append(aq, Job("macro", 0, "nobody")) /\ epc' = epc
    <3> DEFINE b == Job("macro", 0, "nobody")
    <3>1. b \in Jobs /\ IsJob(b) /\ b.op = "macro" /\ b.by = "nobody"
      BY OtherJobs DEF Callers, Job
    <3> HIDE DEF b
    <3>2. ForAction(b)
      BY <3>1 DEF ForAction, OnPlugin, PluginOps, HandlerOps
    <3>3. QED
      BY <1>4, <2>3, <3>1, <3>2 DEF b, HandlerOps
  <2>4. CASE j.op = "quit" /\ epc' = "ended" /\ aq' = aq
    BY <2>4
  <2>5. QED
    BY <2>1, <2>2, <2>3, <2>4 DEF TakeEvent
<1>6. /\ aq' \in Seq(Jobs) /\ \A b \in Range(aq') : \/ b \in Range(aq)
                                                   \/ /\ ForAction(b) /\ b.by \in {"event", "nobody"}
                                                      /\ b.by = "event" => <<epc', b.op>> \in
                                                           {<<"stopping", "stopSession">>,
                                                            <<"starting", "startSession">>}
                                                      /\ b.op \notin {"create", "toggle"} \cup HandlerOps
      /\ Sole(aq', By("main")) /\ Sole(aq', By("event"))
  <2>1. aq \in Seq(Jobs) /\ Sole(aq, By("main")) /\ Sole(aq, By("event"))
    BY DEF Inv, Types, QueuesOK, MainInv, EventInv
  <2>2. CASE aq' = aq
    BY <2>1, <2>2
  <2>3. ASSUME NEW b \in Jobs, aq' = Append(aq, b), b.by \in {"event", "nobody"}
        PROVE  /\ aq' \in Seq(Jobs) /\ Range(aq') = Range(aq) \cup {b}
               /\ Sole(aq', By("main")) /\ Sole(aq', By("event"))
    BY <1>4, <2>1, <2>3, Appended DEF Callers
  <2>4. QED
    BY <1>5, <2>2, <2>3
<1> HIDE DEF j
<1>7. ControlOK'
  BY <1>4, <1>5 DEF Inv, Types, ControlOK
<1>8. Types' /\ Items' = Items
  BY <1>1, <1>4, <1>6, <1>7, QueueStepTypes DEF Inv, Types, AroundOK, QueuesOK, ItemsOK, PostsOK
<1>9. MainInv'
  BY <1>4, <1>6 DEF Inv, MainInv, MainJob
<1>10. EventInv'
  BY <1>4, <1>6 DEF Inv, EventInv, EventJob
<1>11. UnloadInv'
  BY <1>1, <1>3, <1>4, <1>5 DEF Inv, UnloadInv
<1>12. ValueInv'
  BY <1>4, <1>8 DEF Inv, ValueInv
<1>13. QED
  BY <1>8, <1>9, <1>10, <1>11, <1>12 DEF Inv

\* The event thread goes on, and tells the main thread that waits for it.
LEMMA SessionAnsweredKeepsInv == ASSUME Inv, SessionAnswered PROVE Inv'
<1>1. /\ UNCHANGED <<info, name, core, tree, host, enabled, detached, loaded, opened, clash, strays, posts,
                     done, aq, eq, mpc, mval, marg, dialogs, stockUndo, stockRedo, commands, events, crossed>>
      /\ ereply # "none" /\ ereply' = "none" /\ epc' = "idle" /\ epc \in {"stopping", "starting"}
      /\ mreply' = IF epc = "stopping" THEN ereply ELSE mreply
  BY DEF SessionAnswered, eventSame, pluginVars, Inv, Types, ControlOK
<1>2. epc = "stopping" => mpc = "unload" /\ mreply = "none" /\ \A j \in Range(eq) : j.op # "stopSession"
  BY DEF Inv, UnloadInv
<1>3. ControlOK'
  BY <1>1, <1>2 DEF Inv, Types, ControlOK
<1>4. Types' /\ Items' = Items
  BY <1>1, <1>3, QueueStepTypes DEF Inv, Types, AroundOK, QueuesOK, ItemsOK, PostsOK
<1>5. MainInv'
  <2>1. \A j \in Range(aq) : MainJob(j) /\ (j.by = "main" => mpc # "unload")
    BY DEF Inv, MainInv, MainJob, AskedFor
  <2>2. done.by = "main" => mpc # "unload"
    BY DEF Inv, MainInv, AskPcs
  <2>3. QED
    BY <1>1, <1>2, <2>1, <2>2 DEF Inv, MainInv, MainJob
<1>6. EventInv'
  BY <1>1 DEF Inv, EventInv, EventJob
<1>7. UnloadInv'
  BY <1>1, <1>2 DEF Inv, UnloadInv
<1>8. ValueInv'
  BY <1>1, <1>2, <1>4 DEF Inv, ValueInv
<1>9. QED
  BY <1>4, <1>5, <1>6, <1>7, <1>8 DEF Inv

\* The job stays in the queue, and nobody waits for it any more.
LEMMA TimeOutJobs ==
  ASSUME Inv, TimeOut
  PROVE  /\ aq' \in Seq(Jobs) /\ DOMAIN aq' = DOMAIN aq
         /\ \A k \in DOMAIN aq : /\ aq'[k].op = aq[k].op /\ aq'[k].arg = aq[k].arg
                                 /\ aq'[k].by = IF aq[k].by = "event" THEN "nobody" ELSE aq[k].by
<1> DEFINE Unheard(j) == IF j.by = "event" THEN [j EXCEPT !.by = "nobody"] ELSE j
<1>1. aq' = [k \in DOMAIN aq |-> Unheard(aq[k])]
  BY DEF TimeOut
<1>2. aq \in Seq(Jobs)
  BY DEF Inv, Types, QueuesOK
<1>3. ASSUME NEW j \in Jobs
      PROVE  /\ Unheard(j) \in Jobs /\ Unheard(j).op = j.op /\ Unheard(j).arg = j.arg
             /\ Unheard(j).by = IF j.by = "event" THEN "nobody" ELSE j.by
  BY DEF Jobs, Callers
<1> HIDE DEF Unheard
<1>4. \A k \in DOMAIN aq : aq[k] \in Jobs
  BY <1>2
<1>5. aq' \in [1..Len(aq) -> Jobs]
  BY <1>1, <1>2, <1>3, <1>4
<1>6. aq' \in Seq(Jobs)
  BY <1>2, <1>5
<1>7. QED
  BY <1>1, <1>3, <1>4, <1>6

\* A time-out of Func: the late answer goes to nobody.
LEMMA TimeOutKeepsInv == ASSUME Inv, TimeOut PROVE Inv'
<1>1. /\ UNCHANGED <<info, name, core, tree, host, enabled, detached, loaded, opened, clash, strays, posts,
                     eq, ereply, mpc, mval, marg, dialogs, stockUndo, stockRedo, commands, events, crossed>>
      /\ ereply = "none" /\ epc' = "idle" /\ epc \in {"stopping", "starting"}
      /\ mreply' = IF epc = "stopping" THEN "raised" ELSE mreply
      /\ done' = IF done.by = "event" THEN NobodyWaits ELSE done
  BY DEF TimeOut, pluginVars
<1>2. epc = "stopping" => mpc = "unload" /\ mreply = "none" /\ \A j \in Range(eq) : j.op # "stopSession"
  BY DEF Inv, UnloadInv
<1>3. /\ aq' \in Seq(Jobs) /\ DOMAIN aq' = DOMAIN aq /\ aq \in Seq(Jobs)
      /\ \A k \in DOMAIN aq : /\ aq'[k].op = aq[k].op /\ aq'[k].arg = aq[k].arg
                              /\ aq'[k].by = IF aq[k].by = "event" THEN "nobody" ELSE aq[k].by
  BY TimeOutJobs DEF Inv, Types, QueuesOK
<1>4. \A j \in Range(aq') : \E i \in Range(aq) : /\ j.op = i.op /\ j.arg = i.arg
                                                 /\ j.by = IF i.by = "event" THEN "nobody" ELSE i.by
  BY <1>3 DEF Range
<1>5. Sole(aq', By("main")) /\ Sole(aq', By("event"))
  <2>1. \A k \in DOMAIN aq : aq[k] \in Jobs /\ aq'[k] \in Jobs
    BY <1>3
  <2>2. Sole(aq, By("main"))
    BY DEF Inv, MainInv
  <2>3. QED
    BY <1>3, <2>1, <2>2 DEF Sole, By
<1>6. done' \in Answers /\ Placed(done'.val) /\ done'.by # "event" /\ (done'.by # "nobody" => done' = done)
  BY <1>1, NoHandlerType, NoHandlerIsPlaced DEF NobodyWaits, Answers, Callers, Inv, Types, ControlOK, ValueInv
<1>7. ControlOK'
  BY <1>1, <1>2, <1>6 DEF Inv, Types, ControlOK
<1>8. \A j \in Range(aq') : ForAction(j)
  <2>1. \A j \in Range(aq') : j \in Jobs
    BY <1>3 DEF Range
  <2>2. QED
    BY <1>4, <2>1 DEF ForAction, IsJob, OnPlugin, Jobs, Inv, Types, QueuesOK
<1>9. Types' /\ Items' = Items
  BY <1>1, <1>3, <1>7, <1>8, QueueStepTypes DEF Inv, Types, AroundOK, QueuesOK, ItemsOK, PostsOK
<1>10. MainInv'
  <2>1. \A j \in Range(aq) : MainJob(j) /\ (j.by = "main" => mpc # "unload")
    BY DEF Inv, MainInv, MainJob, AskedFor
  <2>2. done.by = "main" => mpc # "unload"
    BY DEF Inv, MainInv, AskPcs
  <2>3. \A j \in Range(aq') : MainJob(j)'
    BY <1>1, <1>2, <1>4, <1>6, <2>1 DEF MainJob
  <2>4. QED
    BY <1>1, <1>2, <1>5, <1>6, <2>2, <2>3 DEF Inv, MainInv
<1>11. EventInv'
  BY <1>4, <1>5, <1>6 DEF EventInv, EventJob
<1>12. UnloadInv'
  BY <1>1, <1>2 DEF Inv, UnloadInv
<1>13. ValueInv'
  <2>1. mreply' = "ok" => mreply = "ok"
    BY <1>1
  <2>2. QED
    BY <1>1, <1>6, <1>9, <2>1 DEF Inv, ValueInv
<1>14. QED
  BY <1>9, <1>10, <1>11, <1>12, <1>13 DEF Inv

\* The main thread's steps.
mainFrame == <<info, name, core, tree, host, enabled, detached, loaded, opened, clash, strays, posts,
               done, epc, ereply, events>>

StocksOK ==
  /\ stockUndo \in Seq(Handlers) /\ stockRedo \in Seq(Handlers)
  /\ \A h \in Range(stockUndo) \cup Range(stockRedo) : Placed(h)

\* The main thread waits for nothing when the user gives a command.
LEMMA CommandedFacts ==
  ASSUME Inv, Commanded
  PROVE  /\ mpc \in {"idle", "create"} /\ mreply' = "none" /\ commands' = commands + 1
         /\ done.by # "main" /\ \A i \in Range(aq) : i.by # "main"
         /\ mval' \in Handlers /\ Placed(mval') /\ dialogs' \subseteq Handlers
         /\ \A h \in dialogs' : h.item \in Items /\ Placed(h)
<1>1. CASE mpc = "idle" /\ UNCHANGED <<dialogs, mreply, mval>>
  BY <1>1 DEF Commanded, Inv, Types, ControlOK, MainInv, MainJob, AskPcs, AskedFor, ValueInv
<1>2. CASE DialogShown /\ dialogs' = dialogs \cup {mval} /\ mreply' = "none" /\ mval' = NoHandler
  BY <1>2, NoHandlerType, NoHandlerIsPlaced
     DEF DialogShown, Commanded, Inv, Types, ControlOK, MainInv, MainJob, ValueInv
<1>3. QED
  BY <1>1, <1>2 DEF Commanded

\* A history that is crossed or not.
LEMMA CrossedType ==
  ASSUME Inv, crossed' = (crossed \/ ~Settled) \/ crossed' = TRUE PROVE crossed' \in BOOLEAN
<1> DEFINE late == ~Settled
<1>1. (crossed' = (crossed \/ late) \/ crossed' = TRUE) /\ crossed \in BOOLEAN
  BY DEF Inv, Types, AroundOK
<1> HIDE DEF late
<1>2. QED
  BY <1>1

\* A command that the main thread waits for.
LEMMA AskKeepsInv ==
  ASSUME Inv, NEW j \in Jobs, ForAction(j), j.by = "main",
         NEW pc, <<pc, j.op>> \in AskedFor, pc # "setup",
         NEW h \in Handlers, Placed(h), AskAnyway(j, pc, h), crossed' \in BOOLEAN, StocksOK'
  PROVE  Inv'
<1>1. /\ UNCHANGED mainFrame /\ eq' = eq
      /\ mpc' = pc /\ marg' = h /\ aq' = Append(aq, j)
  BY DEF AskAnyway, mainSame, mainFrame, pluginVars
<1>3. /\ mpc \in {"idle", "create"} /\ mreply' = "none" /\ commands' = commands + 1
      /\ done.by # "main" /\ \A i \in Range(aq) : i.by # "main"
      /\ mval' \in Handlers /\ Placed(mval') /\ dialogs' \subseteq Handlers
      /\ \A d \in dialogs' : d.item \in Items /\ Placed(d)
  BY CommandedFacts DEF AskAnyway
<1>4. /\ aq' \in Seq(Jobs) /\ Range(aq') = Range(aq) \cup {j}
      /\ Sole(aq', By("main")) /\ Sole(aq', By("event"))
  BY <1>1, <1>3, Appended DEF Callers, Inv, Types, QueuesOK, MainInv, EventInv
<1>5. pc \in AskPcs \ {"setup"}
  BY DEF AskedFor, AskPcs
<1>6. ControlOK'
  BY <1>1, <1>3, <1>5 DEF Inv, Types, ControlOK, mainFrame, AskPcs
<1>7. Types' /\ Items' = Items
  BY <1>1, <1>4, <1>6, QueueStepTypes
     DEF Inv, Types, AroundOK, QueuesOK, ItemsOK, PostsOK, mainFrame, StocksOK
<1>8. MainInv'
  BY <1>1, <1>3, <1>4 DEF Inv, MainInv, MainJob, mainFrame
<1>9. EventInv'
  BY <1>1, <1>4 DEF Inv, EventInv, EventJob, mainFrame
<1>10. UnloadInv'
  BY <1>1, <1>3, <1>5 DEF Inv, UnloadInv, mainFrame, AskPcs
<1>11. ValueInv'
  BY <1>1, <1>3, <1>5, <1>7 DEF Inv, ValueInv, mainFrame, AskPcs
<1>12. QED
  BY <1>7, <1>8, <1>9, <1>10, <1>11 DEF Inv

\* Document.StartSession: the main thread waits for the event thread.
LEMMA OpenFileKeepsInv == ASSUME Inv, NEW f \in Files, OpenFile(f) PROVE Inv'
<1> DEFINE j == Job("stopSession", 0, "main")
<1>1. j \in Jobs /\ IsJob(j) /\ j.op = "stopSession" /\ ForEvents(j)
  BY OtherJobs DEF Callers, Job, ForEvents, SessionOps
<1>2. /\ UNCHANGED mainFrame /\ UNCHANGED <<aq, stockUndo, stockRedo>>
      /\ mpc' = "unload" /\ marg' = [NoHandler EXCEPT !.kind = f] /\ eq' = Append(eq, j)
  BY DEF OpenFile, mainSame, mainFrame, pluginVars
<1> HIDE DEF j
<1>3. crossed' \in BOOLEAN
  BY CrossedType DEF OpenFile
<1>4. /\ mpc \in {"idle", "create"} /\ mreply' = "none" /\ commands' = commands + 1
      /\ done.by # "main" /\ \A i \in Range(aq) : i.by # "main"
      /\ mval' \in Handlers /\ Placed(mval') /\ dialogs' \subseteq Handlers
      /\ \A d \in dialogs' : d.item \in Items /\ Placed(d)
  BY CommandedFacts DEF OpenFile
<1>5. epc # "stopping" /\ \A i \in Range(eq) : i.op # "stopSession"
  BY <1>4 DEF Inv, UnloadInv
<1>6. marg' \in Handlers /\ marg'.kind = f
  BY <1>2, NoHandlerType DEF Handlers
<1>7. eq' \in Seq(Jobs) /\ Range(eq') = Range(eq) \cup {j} /\ Sole(eq', Stops)
  <2>1. eq \in Seq(Jobs) /\ Range(eq) \cap Stops = {} /\ Sole(eq, Stops)
    BY <1>5 DEF Inv, Types, QueuesOK, UnloadInv, Stops
  <2>2. QED
    BY <1>1, <1>2, <2>1, RangeOfAppend, SoleAppend
<1>8. ControlOK'
  BY <1>2, <1>4, <1>6 DEF Inv, Types, ControlOK, mainFrame
<1>9. Types' /\ Items' = Items
  BY <1>1, <1>2, <1>3, <1>7, <1>8, QueueStepTypes
     DEF Inv, Types, AroundOK, QueuesOK, ItemsOK, PostsOK, mainFrame
<1>10. MainInv'
  BY <1>2, <1>4 DEF Inv, MainInv, MainJob, mainFrame
<1>11. EventInv'
  BY <1>2 DEF Inv, EventInv, EventJob, mainFrame
<1>12. UnloadInv'
  BY <1>1, <1>2, <1>4, <1>5, <1>6, <1>7 DEF Inv, UnloadInv, mainFrame
<1>13. ValueInv'
  BY <1>2, <1>4, <1>9 DEF Inv, ValueInv, mainFrame
<1>14. QED
  BY <1>9, <1>10, <1>11, <1>12, <1>13 DEF Inv

\* A job the main thread appends when it has got an answer: it waits for the
\* first SetArguments only.
NextJob(j) ==
  /\ ForAction(j)
  /\ \/ j.by = "nobody" /\ j.op \notin {"create", "toggle"} \cup HandlerOps
     \/ j.by = "main" /\ mpc' = "setup" /\ j.op = "setArgs"

\* The main thread has its answer and waits for nothing, or asks for the next.
LEMMA GotKeepsInv ==
  ASSUME Inv, UNCHANGED mainFrame, UNCHANGED <<dialogs, commands, crossed>>,
         mreply # "none", mreply' = "none", mval' = NoHandler,
         marg' \in Handlers, Placed(marg'), mpc' \in {"idle", "setup", "ended", "stuck"},
         mpc' = "setup" => marg'.item \in Items,
         aq' = aq \/ \E j \in Jobs : aq' = Append(aq, j) /\ NextJob(j),
         eq' = eq \/ \E j \in Jobs : eq' = Append(eq, j) /\ ForEvents(j) /\ j.op # "stopSession",
         StocksOK'
  PROVE  Inv'
<1>1. done.by # "main" /\ \A i \in Range(aq) : i.by # "main"
  BY DEF Inv, MainInv, MainJob
<1>2. epc # "stopping" /\ \A i \in Range(eq) : i.op # "stopSession"
  BY DEF Inv, UnloadInv
<1>3. /\ aq' \in Seq(Jobs) /\ \A j \in Range(aq') : j \in Range(aq) \/ NextJob(j)
      /\ Sole(aq', By("main")) /\ Sole(aq', By("event"))
  <2>1. aq \in Seq(Jobs) /\ Sole(aq, By("main")) /\ Sole(aq, By("event"))
    BY DEF Inv, Types, QueuesOK, MainInv, EventInv
  <2>2. CASE aq' = aq
    BY <2>1, <2>2
  <2>3. ASSUME NEW j \in Jobs, aq' = Append(aq, j), NextJob(j)
        PROVE  /\ aq' \in Seq(Jobs) /\ Range(aq') = Range(aq) \cup {j}
               /\ Sole(aq', By("main")) /\ Sole(aq', By("event"))
    <3>1. j.by # "event"
      BY <2>3 DEF NextJob
    <3>2. QED
      BY <1>1, <2>1, <2>3, <3>1, Appended DEF Callers
  <2>4. QED
    BY <2>2, <2>3
<1>4. /\ eq' \in Seq(Jobs) /\ \A j \in Range(eq') : j \in Range(eq) \/ (ForEvents(j) /\ j.op # "stopSession")
      /\ Sole(eq', Stops)
  <2>1. eq \in Seq(Jobs) /\ Sole(eq, Stops)
    BY DEF Inv, Types, QueuesOK, UnloadInv
  <2>2. CASE eq' = eq
    BY <2>1, <2>2
  <2>3. ASSUME NEW j \in Jobs, eq' = Append(eq, j), j.op # "stopSession"
        PROVE  eq' \in Seq(Jobs) /\ Range(eq') = Range(eq) \cup {j} /\ Sole(eq', Stops)
    <3>1. j \notin Stops
      BY <2>3 DEF Stops
    <3>2. QED
      BY <2>1, <2>3, <3>1, RangeOfAppend, SoleAppend
  <2>4. QED
    BY <2>2, <2>3
<1>5. ControlOK'
  BY NoHandlerType DEF Inv, Types, ControlOK, mainFrame
<1>6. Types' /\ Items' = Items
  BY <1>3, <1>4, <1>5, QueueStepTypes
     DEF Inv, Types, AroundOK, QueuesOK, ItemsOK, PostsOK, mainFrame, StocksOK, NextJob
<1>7. MainInv'
  <2>1. \A j \in Range(aq') : MainJob(j)'
    BY <1>1, <1>3 DEF Inv, MainInv, MainJob, mainFrame, NextJob, AskedFor, HandlerOps
  <2>2. QED
    BY <1>1, <1>3, <2>1 DEF MainInv, mainFrame
<1>8. EventInv'
  BY <1>3 DEF Inv, EventInv, EventJob, mainFrame, NextJob
<1>9. UnloadInv'
  BY <1>2, <1>4 DEF UnloadInv, mainFrame
<1>10. ValueInv'
  BY <1>1, <1>6, NoHandlerIsPlaced DEF Inv, ValueInv, mainFrame
<1>11. QED
  BY <1>6, <1>7, <1>8, <1>9, <1>10 DEF Inv

\* The dialog of a new plugin is shown again.
LEMMA ShownKeepsInv ==
  ASSUME Inv, UNCHANGED mainFrame, UNCHANGED <<aq, eq, commands, stockUndo, stockRedo>>,
         mpc = "idle" \/ (mpc = "setup" /\ mreply # "none"), mpc' = "create", mreply' = "ok",
         mval' \in Handlers, mval'.item \in Items, Placed(mval'), marg' \in Handlers, Placed(marg'),
         dialogs' \subseteq dialogs, crossed' \in BOOLEAN
  PROVE  Inv'
<1>1. done.by # "main" /\ \A i \in Range(aq) : i.by # "main"
  BY DEF Inv, MainInv, MainJob, AskPcs, AskedFor
<1>2. epc # "stopping" /\ \A i \in Range(eq) : i.op # "stopSession"
  BY DEF Inv, UnloadInv
<1>3. ControlOK'
  BY DEF Inv, Types, ControlOK, mainFrame
<1>4. Types' /\ Items' = Items
  BY <1>3, QueueStepTypes DEF Inv, Types, AroundOK, QueuesOK, ItemsOK, PostsOK, mainFrame
<1>5. MainInv' /\ EventInv'
  BY <1>1 DEF Inv, MainInv, MainJob, EventInv, EventJob, mainFrame
<1>6. UnloadInv'
  BY <1>2 DEF Inv, UnloadInv, mainFrame
<1>7. ValueInv'
  BY <1>1, <1>4 DEF Inv, ValueInv, mainFrame
<1>8. QED
  BY <1>4, <1>5, <1>6, <1>7 DEF Inv

\* The undo stocks as they were.
LEMMA StocksStay == ASSUME Inv, UNCHANGED <<stockUndo, stockRedo>> PROVE StocksOK'
  BY DEF Inv, Types, AroundOK, StocksOK

\* AppendUndoHandler.
LEMMA PushedStocks == ASSUME Inv, NEW h \in Handlers, Placed(h), Push(h) PROVE StocksOK'
<1>1. stockUndo \in Seq(Handlers) /\ \A k \in Range(stockUndo) : Placed(k)
  BY DEF Inv, Types, AroundOK
<1>2. stockUndo' \in Seq(Handlers) /\ Range(stockUndo') = Range(stockUndo) \cup {h}
  BY <1>1, RangeOfAppend DEF Push
<1>3. stockRedo' \in Seq(Handlers) /\ Range(stockRedo') = {}
  BY DEF Push, Range
<1>4. QED
  BY <1>1, <1>2, <1>3 DEF StocksOK

\* The handler with the place its plugin has when it is pushed.
LEMMA StoredStocks == ASSUME Inv, NEW h \in Handlers, Placed(h), Store(h) PROVE StocksOK'
<1> DEFINE p == Place(h.item)
           g == [h EXCEPT !.pos = p]
<1>1. p \in Nat \ {0}
  <2>1. tree \in Seq(1..Len(name)) /\ DOMAIN tree \subseteq Nat \ {0}
    BY DEF Inv, Types, ItemsOK
  <2>2. CASE h.item \in Range(tree)
    BY <2>1, <2>2 DEF Place, Range
  <2>3. CASE h.item \notin Range(tree)
    BY <2>3, SessionAssumption DEF Place, Nowhere
  <2>4. QED
    BY <2>2, <2>3
<1> HIDE DEF p
<1>2. g \in Handlers /\ g.kind = h.kind /\ g.name = h.name /\ g.pos = p
  BY <1>1 DEF Handlers
<1>3. Placed(g) /\ Push(g)
  BY <1>1, <1>2 DEF Placed, Store, p
<1> HIDE DEF g
<1>4. QED
  BY <1>2, <1>3, PushedStocks

\* A job on a plugin of the tree that the main thread appends.
LEMMA ItemJobs ==
  ASSUME Inv, NEW i \in Items, NEW op \in PluginOps \cup {"toggle"}, NEW by \in Callers
  PROVE  Job(op, i, by) \in Jobs /\ ForAction(Job(op, i, by))
<1>1. i \in 1..Len(name) /\ ItemsOK
  BY ItemsAreKnown DEF Inv, Types
<1>2. Job(op, i, by) \in Jobs /\ IsJob(Job(op, i, by))
  BY <1>1, PluginJobs
<1>3. QED
  BY <1>2 DEF ForAction, Job, OnPlugin, PluginOps, HandlerOps

\* Document.StartSession goes on.
LEMMA UnloadedKeepsInv == ASSUME Inv, Unloaded PROVE Inv'
<1>1. /\ UNCHANGED mainFrame /\ UNCHANGED <<dialogs, commands, crossed, aq, stockUndo, stockRedo>>
      /\ mpc = "unload" /\ mreply # "none" /\ mreply' = "none" /\ mval' = NoHandler /\ marg' = NoHandler
      /\ mpc' = "idle"
      /\ eq' = IF mreply = "ok" THEN Append(eq, Job("startSession", marg.kind, "nobody")) ELSE eq
  BY DEF Unloaded, Got, mainSame, mainFrame, pluginVars
<1>2. marg.kind \in Files
  BY <1>1 DEF Inv, UnloadInv
<1> DEFINE j == Job("startSession", marg.kind, "nobody")
<1>3. j \in Jobs /\ IsJob(j) /\ j.op = "startSession"
  BY <1>2, SessionJobs DEF Callers, Job
<1>4. eq' = eq \/ eq' = Append(eq, j)
  BY <1>1
<1> HIDE DEF j
<1>5. ForEvents(j) /\ j.op # "stopSession"
  BY <1>3 DEF ForEvents, SessionOps
<1>6. QED
  BY <1>1, <1>3, <1>4, <1>5, GotKeepsInv, StocksStay, NoHandlerType, NoHandlerIsPlaced

\* NewPlugin.Do goes on with the item it got.
LEMMA CreatedKeepsInv == ASSUME Inv, Created PROVE Inv'
<1>1. /\ UNCHANGED mainFrame /\ UNCHANGED <<dialogs, commands, crossed, eq>>
      /\ mpc = "create" /\ mreply # "none" /\ mreply' = "none"
  BY DEF Created, mainSame, mainFrame, pluginVars
<1>2. mval \in Handlers /\ Placed(mval) /\ (mreply = "ok" => mval.item \in Items)
  BY <1>1 DEF Inv, Types, ControlOK, ValueInv
<1>3. CASE /\ mpc' = "idle" /\ marg' = NoHandler /\ mval' = NoHandler
           /\ UNCHANGED <<aq, stockUndo, stockRedo>>
  BY <1>1, <1>3, GotKeepsInv, StocksStay, NoHandlerType, NoHandlerIsPlaced
<1>4. CASE /\ mreply = "ok" /\ mpc' = "idle" /\ marg' = NoHandler /\ mval' = NoHandler
           /\ aq' = Append(aq, Job("execute", mval.item, "nobody")) /\ Store(mval)
  <2> DEFINE j == Job("execute", mval.item, "nobody")
  <2>1. j \in Jobs /\ ForAction(j) /\ j.by = "nobody" /\ j.op = "execute" /\ aq' = Append(aq, j)
    BY <1>2, <1>4, ItemJobs DEF PluginOps, Callers, Job
  <2> HIDE DEF j
  <2>2. NextJob(j)
    BY <2>1 DEF NextJob, HandlerOps
  <2>3. StocksOK'
    BY <1>2, <1>4, StoredStocks
  <2>4. QED
    BY <1>1, <1>4, <2>1, <2>2, <2>3, GotKeepsInv, NoHandlerType, NoHandlerIsPlaced
<1>5. CASE /\ mreply = "ok" /\ mpc' = "setup" /\ marg' = mval /\ mval' = NoHandler
           /\ aq' = Append(aq, Job("setArgs", mval.item, "main"))
           /\ UNCHANGED <<stockUndo, stockRedo>>
  <2> DEFINE j == Job("setArgs", mval.item, "main")
  <2>1. j \in Jobs /\ ForAction(j) /\ j.by = "main" /\ j.op = "setArgs" /\ aq' = Append(aq, j)
    BY <1>2, <1>5, ItemJobs DEF PluginOps, Callers, Job
  <2> HIDE DEF j
  <2>2. NextJob(j)
    BY <1>5, <2>1 DEF NextJob
  <2>3. StocksOK'
    BY <1>5, StocksStay
  <2>4. QED
    BY <1>1, <1>2, <1>5, <2>1, <2>2, <2>3, GotKeepsInv
<1>6. CASE /\ mreply = "ok" /\ mpc' = "idle" /\ marg' = NoHandler /\ mval' = NoHandler
           /\ aq' = Append(aq, Job("delete", mval.item, "nobody"))
           /\ UNCHANGED <<stockUndo, stockRedo>>
  <2> DEFINE j == Job("delete", mval.item, "nobody")
  <2>1. j \in Jobs /\ ForAction(j) /\ j.by = "nobody" /\ j.op = "delete" /\ aq' = Append(aq, j)
    BY <1>2, <1>6, ItemJobs DEF PluginOps, Callers, Job
  <2> HIDE DEF j
  <2>2. NextJob(j)
    BY <2>1 DEF NextJob, HandlerOps
  <2>3. StocksOK'
    BY <1>6, StocksStay
  <2>4. QED
    BY <1>1, <1>6, <2>1, <2>2, <2>3, GotKeepsInv, NoHandlerType, NoHandlerIsPlaced
<1>7. QED
  BY <1>3, <1>4, <1>5, <1>6 DEF Created

\* What the answers of the other commands have in common.
LEMMA GotFrame ==
  ASSUME NEW pc, Got(pc)
  PROVE  /\ UNCHANGED mainFrame /\ UNCHANGED <<dialogs, commands, crossed>>
         /\ mpc = pc /\ mreply # "none" /\ mreply' = "none" /\ marg' = NoHandler /\ mval' = NoHandler
  BY DEF Got, mainSame, mainFrame, pluginVars

\* NewPlugin.Do after the first configuration.
LEMMA SetUpKeepsInv == ASSUME Inv, SetUp PROVE Inv'
<1>1. /\ UNCHANGED mainFrame /\ UNCHANGED <<dialogs, commands, crossed, eq>>
      /\ mpc = "setup" /\ mreply # "none" /\ marg' = NoHandler
  BY DEF SetUp, mainSame, mainFrame, pluginVars
<1>2. marg \in Handlers /\ Placed(marg) /\ marg.item \in Items
  BY <1>1 DEF Inv, Types, ControlOK, ValueInv
<1>3. CASE /\ mpc' = "idle" /\ mreply' = "none" /\ mval' = NoHandler /\ mreply = "ok"
           /\ aq' = Append(aq, Job("execute", marg.item, "nobody")) /\ Store(marg)
  <2> DEFINE j == Job("execute", marg.item, "nobody")
  <2>1. j \in Jobs /\ ForAction(j) /\ j.by = "nobody" /\ j.op = "execute" /\ aq' = Append(aq, j)
    BY <1>2, <1>3, ItemJobs DEF PluginOps, Callers, Job
  <2> HIDE DEF j
  <2>2. NextJob(j)
    BY <2>1 DEF NextJob, HandlerOps
  <2>3. StocksOK'
    BY <1>2, <1>3, StoredStocks
  <2>4. QED
    BY <1>1, <1>3, <2>1, <2>2, <2>3, GotKeepsInv, NoHandlerType, NoHandlerIsPlaced
<1>4. CASE /\ mpc' = "idle" /\ mreply' = "none" /\ mval' = NoHandler
           /\ UNCHANGED <<aq, stockUndo, stockRedo>>
  BY <1>1, <1>4, GotKeepsInv, StocksStay, NoHandlerType, NoHandlerIsPlaced
<1>5. CASE /\ mreply = "ok" /\ mpc' = "create" /\ mreply' = "ok" /\ mval' = marg
           /\ UNCHANGED <<aq, stockUndo, stockRedo>>
  <2>1. crossed' \in BOOLEAN
    BY <1>1 DEF Inv, Types, AroundOK
  <2>2. QED
    BY <1>1, <1>2, <1>5, <2>1, ShownKeepsInv, NoHandlerType, NoHandlerIsPlaced
<1>6. QED
  BY <1>3, <1>4, <1>5 DEF SetUp

\* The dialog is taken up again.
LEMMA DialogAgainKeepsInv == ASSUME Inv, DialogAgain PROVE Inv'
<1>1. PICK h \in dialogs : dialogs' = dialogs \ {h} /\ mval' = h
  BY DEF DialogAgain
<1>2. /\ UNCHANGED mainFrame /\ UNCHANGED <<eq, aq, marg, stockUndo, stockRedo, commands>>
      /\ mpc = "idle" /\ mpc' = "create" /\ mreply' = "ok" /\ crossed' = TRUE
  BY DEF DialogAgain, mainSame, mainFrame, pluginVars
<1>3. h \in Handlers /\ h.item \in Items /\ Placed(h) /\ marg \in Handlers /\ Placed(marg)
  BY <1>2 DEF Inv, Types, ControlOK, ValueInv
<1>4. QED
  BY <1>1, <1>2, <1>3, ShownKeepsInv

\* Clear, ToggleEnable and Configure after their job.
LEMMA EditedKeepsInv == ASSUME Inv, Edited PROVE Inv'
<1>1. /\ UNCHANGED mainFrame /\ UNCHANGED <<dialogs, commands, crossed, eq, aq>>
      /\ mpc = "edit" /\ mreply # "none" /\ mreply' = "none" /\ marg' = NoHandler /\ mval' = NoHandler
      /\ mpc' = "idle"
  BY GotFrame DEF Edited
<1> DEFINE h == IF marg.kind = "toggle" THEN [marg EXCEPT !.on = mval.on] ELSE marg
<1>2. h \in Handlers /\ Placed(h)
  BY <1>1 DEF Inv, Types, ControlOK, ValueInv, Handlers, Placed
<1>3. Push(h) \/ UNCHANGED <<stockUndo, stockRedo>>
  BY DEF Edited
<1> HIDE DEF h
<1>4. StocksOK'
  BY <1>2, <1>3, PushedStocks, StocksStay
<1>5. QED
  BY <1>1, <1>4, GotKeepsInv, NoHandlerType, NoHandlerIsPlaced

\* Document.Undo and Redo after their job.
LEMMA UndoneKeepsInv == ASSUME Inv, Undone \/ Redone PROVE Inv'
<1>1. /\ UNCHANGED mainFrame /\ UNCHANGED <<dialogs, commands, crossed, eq, aq>>
      /\ mreply # "none" /\ mreply' = "none" /\ marg' = NoHandler /\ mval' = NoHandler
      /\ mpc \in {"undo", "redo"} /\ mpc' = "idle"
  BY GotFrame DEF Undone, Redone
<1>2. mval \in Handlers /\ Placed(mval)
  BY <1>1 DEF Inv, Types, ControlOK, ValueInv
<1>3. StocksOK
  BY DEF Inv, Types, AroundOK, StocksOK
<1>4. /\ stockUndo' = stockUndo \/ stockUndo' = Append(stockUndo, mval)
      /\ stockRedo' = stockRedo \/ stockRedo' = Append(stockRedo, mval)
  BY DEF Undone, Redone
<1>5. StocksOK'
  <2>1. Append(stockUndo, mval) \in Seq(Handlers) /\ Range(Append(stockUndo, mval)) = Range(stockUndo) \cup {mval}
    BY <1>2, <1>3, RangeOfAppend DEF StocksOK
  <2>2. Append(stockRedo, mval) \in Seq(Handlers) /\ Range(Append(stockRedo, mval)) = Range(stockRedo) \cup {mval}
    BY <1>2, <1>3, RangeOfAppend DEF StocksOK
  <2>3. QED
    BY <1>2, <1>3, <1>4, <2>1, <2>2 DEF StocksOK
<1>6. QED
  BY <1>1, <1>5, GotKeepsInv, NoHandlerType, NoHandlerIsPlaced

\* DeInit after the session.
LEMMA ExitedKeepsInv == ASSUME Inv, Exited PROVE Inv'
<1>1. /\ UNCHANGED mainFrame /\ UNCHANGED <<dialogs, commands, crossed, stockUndo, stockRedo>>
      /\ mreply # "none" /\ mreply' = "none" /\ marg' = NoHandler /\ mval' = NoHandler
  BY GotFrame DEF Exited
<1> DEFINE j == Job("quit", 0, "nobody")
<1>2. j \in Jobs /\ IsJob(j) /\ j.op = "quit" /\ j.by = "nobody"
  BY OtherJobs DEF Callers, Job
<1>3. \/ mpc' = "ended" /\ aq' = Append(aq, j) /\ eq' = Append(eq, j)
      \/ mpc' = "stuck" /\ UNCHANGED <<aq, eq>>
  BY DEF Exited
<1> HIDE DEF j
<1>4. ForAction(j) /\ ForEvents(j) /\ NextJob(j) /\ j.op # "stopSession"
  BY <1>2 DEF ForAction, ForEvents, NextJob, OnPlugin, PluginOps, HandlerOps
<1>5. QED
  BY <1>1, <1>2, <1>3, <1>4, GotKeepsInv, StocksStay, NoHandlerType, NoHandlerIsPlaced

\* The commands of the user.
LEMMA CommandKeepsInv == ASSUME Inv, Command PROVE Inv'
<1>1. ASSUME NEW op \in {"create", "stopSession"}, NEW pc, <<pc, op>> \in AskedFor,
             Ask(Job(op, 0, "main"), pc, NoHandler), UNCHANGED <<stockUndo, stockRedo>>
      PROVE  Inv'
  <2> DEFINE j == Job(op, 0, "main")
  <2>1. j \in Jobs /\ IsJob(j) /\ j.op = op /\ j.by = "main"
    BY OtherJobs DEF Callers, Job
  <2>2. Ask(j, pc, NoHandler)
    BY <1>1
  <2> HIDE DEF j
  <2>3. ForAction(j) /\ pc # "setup"
    BY <1>1, <2>1 DEF ForAction, OnPlugin, PluginOps, HandlerOps, AskedFor
  <2>4. QED
    BY <1>1, <2>1, <2>2, <2>3, AskKeepsInv, CrossedType, StocksStay, NoHandlerType, NoHandlerIsPlaced
       DEF Ask
<1>2. ASSUME NEW k \in DOMAIN tree, Edit(k) PROVE Inv'
  <2> DEFINE i == tree[k]
  <2>a. /\ tree \in Seq(1..Len(name)) /\ Range(tree) \subseteq Items
        /\ name \in Seq(Nat) /\ Len(name) <= MaxInstances /\ Len(name) \in Nat
    BY DEF Inv, Types, ItemsOK, Known
  <2>b. i \in Range(tree) /\ k \in 1..Len(tree) /\ Len(tree) \in Nat
    BY <2>a DEF Range
  <2> HIDE DEF i
  <2>c. i \in Items /\ i \in 1..Len(name) /\ name[i] # 0
    BY <2>a, <2>b DEF Items
  <2>d. name[i] \in Nat
    BY <2>a, <2>c
  <2>1. i \in Items /\ k \in Nat \ {0} /\ i \in 0..MaxInstances /\ name[i] \in Nat \ {0}
    BY <2>a, <2>b, <2>c, <2>d, SessionAssumption
  <2>2. ASSUME NEW op \in {"delete", "toggle", "setArgs"}, NEW h \in Handlers, Placed(h),
               Ask(Job(op, i, "main"), "edit", h), UNCHANGED <<stockUndo, stockRedo>>
        PROVE  Inv'
    <3> DEFINE j == Job(op, i, "main")
    <3>1. j \in Jobs /\ ForAction(j) /\ j.by = "main" /\ j.op = op
      BY <2>1, ItemJobs DEF PluginOps, Callers, Job
    <3>2. Ask(j, "edit", h)
      BY <2>2
    <3> HIDE DEF j
    <3>3. <<"edit", j.op>> \in AskedFor
      BY <3>1 DEF AskedFor
    <3>4. QED
      BY <2>2, <3>1, <3>2, <3>3, AskKeepsInv, CrossedType, StocksStay DEF Ask
  <2>3. ASSUME NEW kind \in {"clear", "toggle", "configure"}, NEW n \in Nat, NEW on \in BOOLEAN,
               kind = "clear" => n # 0
        PROVE  Handler(kind, i, k, n, on) \in Handlers /\ Placed(Handler(kind, i, k, n, on))
    BY <2>1, <2>3 DEF Handler, Handlers, Placed
  <2> DEFINE on == i \in enabled
             n == name[i]
  <2>4. on \in BOOLEAN /\ n \in Nat /\ n # 0
    BY <2>1
  <2>5. /\ \/ Ask(Job("delete", i, "main"), "edit", Handler("clear", i, k, n, on))
           \/ Ask(Job("toggle", i, "main"), "edit", Handler("toggle", i, k, 0, TRUE))
           \/ Ask(Job("setArgs", i, "main"), "edit", Handler("configure", i, k, 0, TRUE))
        /\ UNCHANGED <<stockUndo, stockRedo>>
    BY <1>2 DEF Edit, i
  <2> HIDE DEF on, n
  <2>6. QED
    BY <2>2, <2>3, <2>4, <2>5
<1>3. ASSUME NEW op \in HandlerOps, NEW h \in Handlers, Placed(h), Ask(Job(op, h, "main"), op, NoHandler), StocksOK'
      PROVE  Inv'
  <2> DEFINE j == Job(op, h, "main")
  <2>1. j \in Jobs /\ IsJob(j) /\ j.by = "main" /\ j.op = op /\ j.arg = h
    BY HandlerJobs DEF Callers, Job
  <2>2. Ask(j, op, NoHandler)
    BY <1>3
  <2> HIDE DEF j
  <2>3. ForAction(j) /\ <<op, j.op>> \in AskedFor /\ op # "setup"
    BY <1>3, <2>1 DEF ForAction, OnPlugin, PluginOps, HandlerOps, AskedFor
  <2>4. QED
    BY <1>3, <2>1, <2>2, <2>3, AskKeepsInv, CrossedType, NoHandlerType, NoHandlerIsPlaced DEF Ask
<1>4. ASSUME NEW s \in Seq(Handlers), s # <<>>, \A h \in Range(s) : Placed(h)
      PROVE  /\ Last(s) \in Handlers /\ Placed(Last(s)) /\ Front(s) \in Seq(Handlers)
             /\ \A h \in Range(Front(s)) : Placed(h)
  <2>1. Last(s) \in Handlers /\ Last(s) \in Range(s)
    BY <1>4 DEF Last, Range
  <2>a. Len(s) \in Nat \ {0} /\ \A k \in 1..Len(s) : s[k] \in Handlers
    BY <1>4
  <2>b. Len(s) - 1 \in Nat /\ \A k \in 1..Len(s) - 1 : k \in 1..Len(s)
    BY <2>a
  <2> DEFINE t == [k \in 1..Len(s) - 1 |-> s[k]]
  <2>c. t \in Seq(Handlers) /\ DOMAIN t = 1..Len(s) - 1 /\ \A k \in DOMAIN t : t[k] = s[k]
    BY <2>a, <2>b
  <2>d. Front(s) = t
    BY <1>4, <2>a, <2>b DEF Front
  <2> HIDE DEF t
  <2>2. Front(s) \in Seq(Handlers)
    BY <2>c, <2>d
  <2>3. \A k \in DOMAIN Front(s) : k \in DOMAIN s /\ Front(s)[k] = s[k]
    BY <1>4, <2>b, <2>c, <2>d
  <2>4. QED
    BY <1>4, <2>1, <2>2, <2>3 DEF Range
<1>5. StocksOK
  BY DEF Inv, Types, AroundOK, StocksOK
<1>6. CASE Undo
  <2>1. Last(stockUndo) \in Handlers /\ Placed(Last(stockUndo)) /\ StocksOK'
    BY <1>4, <1>5, <1>6 DEF Undo, StocksOK
  <2>2. QED
    BY <1>3, <1>6, <2>1 DEF Undo, HandlerOps
<1>7. CASE Redo
  <2>1. Last(stockRedo) \in Handlers /\ Placed(Last(stockRedo)) /\ StocksOK'
    BY <1>4, <1>5, <1>7 DEF Redo, StocksOK
  <2>2. QED
    BY <1>3, <1>7, <2>1 DEF Redo, HandlerOps
<1>8. <<"create", "create">> \in AskedFor /\ <<"exit", "stopSession">> \in AskedFor
  BY DEF AskedFor
<1>9. ASSUME NEW i \in DOMAIN name, EditLeft(i) PROVE Inv'
  <2> DEFINE j == Job("setArgs", i, "main")
             h == Handler("configure", i, Nowhere, 0, TRUE)
  <2>1. i \in Items /\ i \in 0..MaxInstances /\ Nowhere \in Nat
    BY <1>9, SessionAssumption DEF EditLeft, Items, Nowhere, Inv, Types, ItemsOK
  <2>2. j \in Jobs /\ ForAction(j) /\ j.by = "main" /\ j.op = "setArgs"
    BY <2>1, ItemJobs DEF PluginOps, Callers, Job
  <2>3. h \in Handlers /\ Placed(h)
    BY <2>1 DEF Handler, Handlers, Placed
  <2>4. AskAnyway(j, "edit", h) /\ crossed' = TRUE /\ UNCHANGED <<stockUndo, stockRedo>>
    BY <1>9 DEF EditLeft
  <2> HIDE DEF j, h
  <2>5. <<"edit", j.op>> \in AskedFor
    BY <2>2 DEF AskedFor
  <2>6. QED
    BY <2>2, <2>3, <2>4, <2>5, AskKeepsInv, CrossedType, StocksStay
<1>10. QED
  BY <1>1, <1>2, <1>6, <1>7, <1>8, <1>9, OpenFileKeepsInv DEF Command, AddPlugin, Exit

\* Events, faults and installed drivers.
LEMMA OutsideKeepsInv == ASSUME Inv, Outside PROVE Inv'
<1>1. /\ UNCHANGED <<info, name, core, tree, host, enabled, detached, loaded, opened, clash, posts, done, epc,
                     ereply, mpc, mreply, mval, marg, dialogs, stockUndo, stockRedo, commands, crossed>>
      /\ events' = events + 1
  BY DEF Outside, mainVars
<1>2. /\ aq \in Seq(Jobs) /\ eq \in Seq(Jobs) /\ info.started \subseteq 1..Len(name)
      /\ info.failed \subseteq Items /\ Sole(aq, By("main")) /\ Sole(aq, By("event")) /\ Sole(eq, Stops)
  BY DEF Inv, Types, QueuesOK, ItemsOK, Infos, Known, MainInv, EventInv, UnloadInv
<1>3. /\ \/ eq' = eq
         \/ \E j \in Jobs : eq' = Append(eq, j) /\ ForEvents(j) /\ j.op = "event"
      /\ \/ aq' = aq
         \/ \E j \in Jobs : /\ aq' = Append(aq, j) /\ ForAction(j) /\ j.by = "nobody"
                            /\ j.op \in {"fault", "start"}
      /\ strays' \subseteq strays \cup info.failed
  <2>1. CASE eq' = Append(eq, Job("event", 0, "nobody")) /\ UNCHANGED <<aq, strays>>
    <3> DEFINE j == Job("event", 0, "nobody")
    <3>1. j \in Jobs /\ IsJob(j) /\ j.op = "event"
      BY OtherJobs DEF Callers, Job
    <3>2. eq' = Append(eq, j)
      BY <2>1
    <3> HIDE DEF j
    <3>3. ForEvents(j)
      BY <3>1 DEF ForEvents
    <3>4. QED
      BY <2>1, <3>1, <3>2, <3>3
  <2>2. ASSUME NEW i \in info.started, name[i] # 0, aq' = Append(aq, Job("fault", i, "nobody")),
               UNCHANGED <<eq, strays>>
        PROVE  <1>3!1 /\ <1>3!2 /\ <1>3!3
    <3> DEFINE j == Job("fault", i, "nobody")
    <3>1. i \in Items
      BY <1>2, <2>2 DEF Items, Inv, Types, ItemsOK
    <3>2. j \in Jobs /\ ForAction(j) /\ j.by = "nobody" /\ j.op = "fault"
      BY <3>1, ItemJobs DEF Callers, PluginOps, Job
    <3>3. aq' = Append(aq, j)
      BY <2>2
    <3> HIDE DEF j
    <3>4. QED
      BY <2>2, <3>2, <3>3
  <2>3. ASSUME NEW i \in info.failed, aq' = Append(aq, Job("start", i, "nobody")),
               strays' = strays \cup {i}, UNCHANGED eq
        PROVE  <1>3!1 /\ <1>3!2 /\ <1>3!3
    <3> DEFINE j == Job("start", i, "nobody")
    <3>1. j \in Jobs /\ ForAction(j) /\ j.by = "nobody" /\ j.op = "start"
      BY <1>2, ItemJobs DEF Callers, PluginOps, Job
    <3>2. aq' = Append(aq, j)
      BY <2>3
    <3> HIDE DEF j
    <3>3. QED
      BY <2>3, <3>1, <3>2
  <2>4. QED
    BY <2>1, <2>2, <2>3 DEF Outside
<1>4. /\ aq' \in Seq(Jobs) /\ Sole(aq', By("main")) /\ Sole(aq', By("event"))
      /\ \A j \in Range(aq') : \/ j \in Range(aq)
                               \/ ForAction(j) /\ j.by = "nobody" /\ j.op \in {"fault", "start"}
  <2>1. ASSUME NEW j \in Jobs, aq' = Append(aq, j), j.by = "nobody"
        PROVE  /\ aq' \in Seq(Jobs) /\ Range(aq') = Range(aq) \cup {j}
               /\ Sole(aq', By("main")) /\ Sole(aq', By("event"))
    BY <1>2, <2>1, Appended DEF Callers
  <2>2. QED
    BY <1>2, <1>3, <2>1
<1>5. /\ eq' \in Seq(Jobs) /\ Sole(eq', Stops)
      /\ \A j \in Range(eq') : j \in Range(eq) \/ (ForEvents(j) /\ j.op = "event")
  <2>1. ASSUME NEW j \in Jobs, eq' = Append(eq, j), j.op = "event"
        PROVE  eq' \in Seq(Jobs) /\ Range(eq') = Range(eq) \cup {j} /\ Sole(eq', Stops)
    <3>1. j \notin Stops
      BY <2>1 DEF Stops
    <3>2. QED
      BY <1>2, <2>1, <3>1, RangeOfAppend, SoleAppend
  <2>2. QED
    BY <1>2, <1>3, <2>1
<1>6. strays' \subseteq Items /\ strays' \in Known(Len(name))
  BY <1>2, <1>3, ItemsAreKnown DEF Inv, Types, ItemsOK, Known
<1>7. ControlOK'
  BY <1>1 DEF Inv, Types, ControlOK
<1>8. Types' /\ Items' = Items
  BY <1>1, <1>4, <1>5, <1>6, <1>7, QueueStepTypes DEF Inv, Types, AroundOK, PostsOK
<1>9. MainInv'
  BY <1>1, <1>4 DEF Inv, MainInv, MainJob, HandlerOps
<1>10. EventInv'
  BY <1>1, <1>4 DEF Inv, EventInv, EventJob
<1>11. UnloadInv'
  BY <1>1, <1>5 DEF Inv, UnloadInv
<1>12. ValueInv'
  BY <1>1, <1>8 DEF Inv, ValueInv
<1>13. QED
  BY <1>8, <1>9, <1>10, <1>11, <1>12 DEF Inv

\* Nobody waits when the program starts.
LEMMA InitGivesInv == Init => Inv
<1> SUFFICES ASSUME Init PROVE Inv
  OBVIOUS
<1>1. /\ name = <<>> /\ core = <<>> /\ tree = <<>> /\ Len(name) = 0 /\ DOMAIN name = {}
      /\ Items = {} /\ Range(tree) = {} /\ Range(core) = {} /\ IsInjective(tree)
  BY DEF Init, Items, Range, IsInjective
<1>2. info \in Infos(0) /\ info.failed = {}
  <2>1. {} \in Known(0) /\ {} \in SUBSET Nat
    BY DEF Known
  <2>2. QED
    BY <2>1 DEF Init, Infos
<1>3. ItemsOK
  <2>1. {} \in Known(0) /\ MaxInstances \in Nat
    BY SessionAssumption DEF Known
  <2>2. name \in Seq(Nat) /\ tree \in Seq(1..Len(name)) /\ Len(name) <= MaxInstances
    BY <1>1, <2>1
  <2>3. enabled = {} /\ detached = {} /\ strays = {} /\ clash = FALSE
    BY DEF Init
  <2>4. QED
    BY <1>1, <1>2, <2>1, <2>2, <2>3 DEF ItemsOK
<1>4. AroundOK
  <2>1. /\ core \in Seq(1..Len(name)) /\ stockUndo \in Seq(Handlers) /\ stockRedo \in Seq(Handlers)
        /\ Range(stockUndo) = {} /\ Range(stockRedo) = {}
    BY <1>1 DEF Init, Range
  <2>2. host = 0 /\ loaded = "no" /\ opened = NoFile /\ crossed = FALSE
    BY DEF Init
  <2>3. host \in 0..Len(name)
    BY <1>1, <2>2
  <2>4. loaded \in {"no", "yes", "gone"} /\ opened \in Files \cup {NoFile} /\ crossed \in BOOLEAN
    BY <2>2
  <2>5. QED
    BY <1>1, <2>1, <2>3, <2>4 DEF AroundOK
<1>5. /\ aq = <<>> /\ posts = <<>> /\ aq \in Seq(Jobs) /\ posts \in Seq(Jobs)
      /\ Range(aq) = {} /\ Range(posts) = {} /\ DOMAIN aq = {}
  BY DEF Init, Range
<1> DEFINE j == Job("startSession", FirstFile, "nobody")
<1>6. j \in Jobs /\ IsJob(j) /\ j.op = "startSession"
  BY SessionJobs, SessionAssumption DEF Callers, Job
<1>7. eq = <<j>>
  BY DEF Init
<1> HIDE DEF j
<1>8. eq \in Seq(Jobs) /\ Range(eq) = {j} /\ Sole(eq, Stops) /\ ForEvents(j)
  <2>1. eq \in Seq(Jobs) /\ Range(eq) = {j} /\ DOMAIN eq = 1..1
    <3>1. Range(<<j>>) = {j} /\ <<j>> \in Seq(Jobs)
      BY <1>6, RangeOfShort
    <3>2. DOMAIN <<j>> = 1..1
      OBVIOUS
    <3>3. QED
      BY <1>7, <3>1, <3>2
  <2>2. ForEvents(j)
    BY <1>6 DEF ForEvents, SessionOps
  <2>3. Sole(eq, Stops)
    BY <2>1 DEF Sole
  <2>4. QED
    BY <2>1, <2>2, <2>3
<1>9. PostsOK /\ QueuesOK
  BY <1>5, <1>8 DEF PostsOK, QueuesOK
<1>10. /\ done = NobodyWaits /\ done.by = "nobody" /\ done.val = NoHandler
       /\ mval = NoHandler /\ marg = NoHandler /\ dialogs = {}
       /\ epc = "idle" /\ mpc = "idle" /\ mreply = "none" /\ ereply = "none"
       /\ commands = 0 /\ events = 0
  BY DEF Init, NobodyWaits
<1>11. done \in Answers
  BY <1>10, NoHandlerType DEF NobodyWaits, Answers, Callers
<1>12. ControlOK
  BY <1>10, <1>11, NoHandlerType DEF ControlOK
<1>13. MainInv /\ EventInv
  BY <1>5, <1>10 DEF MainInv, EventInv, Sole
<1>14. UnloadInv
  BY <1>6, <1>8, <1>10 DEF UnloadInv
<1>15. ValueInv
  BY <1>10, NoHandlerIsPlaced DEF ValueInv
<1>16. QED
  BY <1>3, <1>4, <1>9, <1>12, <1>13, <1>14, <1>15 DEF Inv, Types

\* The jobs of the action thread, as what they have in common.
LEMMA ActionThreadSteps ==
  ASSUME Inv, ActionThread PROVE JobStep \/ Post \/ Answer
<1>1. Types
  BY DEF Inv
<1>2. QED
  BY <1>1, StartJobStep, StopJobStep, ExecuteJobStep, CloseJobStep, FaultJobStep, CreateJobStep,
     SetArgsJobStep, DeleteJobStep, ToggleJobStep, HandlerJobStep, MacroJobStep, ExclusiveJobStep,
     StopSessionJobStep, StartSessionJobStep
  DEF ActionThread, HandlerOps

\* The invariant is inductive.
LEMMA StepKeepsInv == Inv /\ [Next]_vars => Inv'
<1> SUFFICES ASSUME Inv, [Next]_vars PROVE Inv'
  OBVIOUS
<1>1. CASE ActionThread
  BY <1>1, ActionThreadSteps, JobKeepsInv, PostKeepsInv, AnswerKeepsInv
<1>2. CASE EventThread
  BY <1>2, TakeEventKeepsInv, SessionAnsweredKeepsInv DEF EventThread
<1>3. CASE TimeOut
  BY <1>3, TimeOutKeepsInv
<1>4. CASE MainGoesOn
  BY <1>4, UnloadedKeepsInv, CreatedKeepsInv, SetUpKeepsInv, DialogAgainKeepsInv, EditedKeepsInv,
     UndoneKeepsInv, ExitedKeepsInv DEF MainGoesOn
<1>5. CASE Command
  BY <1>5, CommandKeepsInv
<1>6. CASE Outside
  BY <1>6, OutsideKeepsInv
<1>7. CASE UNCHANGED vars
  <2>1. /\ UNCHANGED <<info, name, core, tree, host, enabled, detached, loaded, opened, strays, clash>>
        /\ UNCHANGED <<aq, posts, done, eq, epc, ereply, mpc, mreply, mval, marg, dialogs, stockUndo, stockRedo>>
        /\ UNCHANGED <<commands, events, crossed>>
    BY <1>7 DEF vars, pluginVars, actionVars, eventVars, mainVars
  <2>2. ItemsOK' /\ AroundOK' /\ Items' = Items
    BY <2>1 DEF Inv, Types, ItemsOK, AroundOK, Items, IsInjective
  <2>3. PostsOK' /\ QueuesOK' /\ ControlOK'
    BY <2>1 DEF Inv, Types, PostsOK, QueuesOK, ControlOK, ForAction, ForEvents, IsJob, OnPlugin, Placed, Items
  <2>4. MainInv' /\ EventInv' /\ UnloadInv' /\ ValueInv'
    BY <2>1, <2>2 DEF Inv, MainInv, EventInv, UnloadInv, ValueInv, MainJob, EventJob, Sole, Placed
  <2>5. QED
    BY <2>2, <2>3, <2>4 DEF Inv, Types
<1>8. QED
  BY <1>1, <1>2, <1>3, <1>4, <1>5, <1>6, <1>7 DEF Next

\* Who waits for whom is kept by every step of the three threads, time-outs of
\* Func and failures included: no answer is lost or given to another caller.
THEOREM InvHolds == Spec => []Inv
BY InitGivesInv, StepKeepsInv, PTL DEF Spec

\* The types of the three threads' state: every job that waits is about a
\* plugin that was made, every answer has somebody who waits for it, and no
\* plugin is twice in the tree.
THEOREM TypesHold == Spec => []TypeOK
<1>1. Inv => TypeOK
  BY TypesGiveTypeOK DEF Inv
<1>2. QED
  BY <1>1, InvHolds, PTL

-----------------------------------------------------------------------------
(* While no command and no end of a session came between. *)
Sessions == {j \in Jobs : Session(j)}
AllJobs == Range(aq) \cup Range(eq)

\* Sessions alternate, and one change of sessions is under way at most.
SessionInv ==
  /\ \A j \in AllJobs : /\ j.op = "startSession" => loaded # "yes"
                        /\ j.op = "stopSession" => loaded = "yes"
  /\ Sole(aq, Sessions) /\ Sole(eq, Sessions)
  /\ Range(aq) \cap Sessions = {} \/ Range(eq) \cap Sessions = {}

\* The commands that are only given in a session, and those that end it.
InSession == AskPcs \ {"exit"}
Leaving == {"unload", "exit", "ended", "stuck"}

CommandInv ==
  /\ mpc \in InSession => loaded = "yes" /\ \A j \in AllJobs : j.op # "stopSession"
  /\ mpc \in Leaving => \A j \in AllJobs : j.op # "startSession"
  /\ mpc = "unload" /\ mreply = "ok" => loaded # "yes"
  /\ mpc = "unload" /\ epc = "stopping" /\ ereply = "ok" => loaded # "yes"
  /\ mpc = "unload" /\ epc = "stopping" /\ done.by = "event" /\ done.ok => loaded # "yes"
  /\ mpc = "exit" /\ mreply = "ok" => loaded # "yes"
  /\ mpc = "exit" /\ done.by = "main" /\ done.ok => loaded # "yes"
  /\ mpc = "ended" => loaded # "yes"

\* The jobs on plugins that wait, and the plugins that are to be closed.
Pending == Range(aq) \cup Range(posts)
ClosedBy(S) == {j.arg : j \in {j \in S : j.op = "close"}}
Closing == ClosedBy(Pending)
Opened == {i \in info.list : name[i] # 0}
OnTree == {"execute", "exclusive", "delete", "setArgs", "toggle"}
Startable == IF loaded = "yes" THEN strays \cup Range(tree) \cup Closing ELSE strays

JobOK(j) ==
  /\ j.op = "start" => j.arg \in Startable
  /\ j.op \in OnTree => loaded = "yes" /\ j.arg \in Range(tree) \cup detached
  /\ j.op = "close" => loaded = "yes" /\ j.arg \in detached \ info.closed
  /\ j.op \in PluginOps => loaded = "yes" \/ j.op \in {"fault", "start"}

JobsInv == \A j \in Pending : JobOK(j)

\* Without a tree: before the next session, and when the program ends, no plugin
\* is left in eg.pluginList and none runs.
Emptied == Opened = {} /\ info.names = {} /\ info.started \subseteq info.failed \cup strays

GoneInv ==
  loaded # "yes" =>
    /\ host \notin info.started
    /\ (\E j \in AllJobs : j.op = "startSession") \/ mpc \in Leaving => Emptied

\* With a tree: what runs is in it, or is a core plugin, or waits for its close.
LifeInv ==
  loaded = "yes" =>
    /\ host \in info.started => host \in Range(core)
    /\ info.closed \cap (Range(tree) \cup Range(core)) = {}
    /\ Range(tree) \cap detached = {}
    /\ info.started \subseteq info.failed \cup strays \cup Range(tree) \cup Range(core) \cup Closing

\* The item a dialog is opened for.
DialogInv ==
  loaded = "yes" =>
    /\ mpc = "create" /\ done.by = "main" /\ done.ok => done.val.item \in Range(tree) \cup detached
    /\ mpc = "create" /\ mreply = "ok" => mval.item \in Range(tree) \cup detached
    /\ mpc = "setup" => marg.item \in Range(tree) \cup detached

ListInv ==
  loaded = "yes" =>
    /\ Opened = Range(tree) \cup Closing
    /\ info.names = {name[i] : i \in Opened}
    /\ \A i, k \in Opened : name[i] = name[k] => i = k
    /\ Range(core) \subseteq info.list

\* After the job that closes plugin i no job closes or starts it.
After(j, i, S) == j.op = "close" \/ (j.op = "start" /\ j.arg \notin S) => j.arg # i

CloseInv ==
  /\ \A k, l \in DOMAIN aq : aq[k].op = "close" /\ k < l => After(aq[l], aq[k].arg, strays)
  /\ \A i \in ClosedBy(Range(aq)), j \in Range(posts) : After(j, i, strays)
  /\ \A j \in Range(posts) : j.op = "close" => Len(posts) = 1

DataInv == JobsInv /\ GoneInv /\ LifeInv /\ ListInv /\ info.again \subseteq strays
Uncrossed == SessionInv /\ CommandInv /\ DialogInv /\ CloseInv /\ DataInv
FullInv == Inv /\ (~crossed => Uncrossed)

\* The plugins that jobs close, of two sets of jobs.
LEMMA ClosedByUnion ==
  ASSUME NEW S, NEW T
  PROVE  /\ ClosedBy(S \cup T) = ClosedBy(S) \cup ClosedBy(T)
         /\ (\A j \in T : j.op # "close") => ClosedBy(T) = {}
         /\ S \subseteq T => ClosedBy(S) \subseteq ClosedBy(T)
BY DEF ClosedBy

\* More plugins that a Start may find disabled do no harm.
LEMMA AfterStays ==
  ASSUME NEW j, NEW i, strays \subseteq strays', After(j, i, strays) PROVE After(j, i, strays')
BY DEF After

\* The queue without its first job.
LEMMA JobTaken ==
  ASSUME Inv, JobStep
  PROVE  /\ Head(aq) \in Jobs /\ Head(aq) \in Range(aq) /\ Head(aq) \in Pending
         /\ Range(aq) = {Head(aq)} \cup Range(aq') /\ Range(posts) = {}
         /\ aq \in Seq(Jobs) /\ aq' \in Seq(Jobs)
         /\ Pending = {Head(aq)} \cup Range(aq')
         /\ \A k \in DOMAIN aq' : k + 1 \in DOMAIN aq /\ aq'[k] = aq[k + 1]
         /\ AllJobs = {Head(aq)} \cup AllJobs'
<1>1. aq \in Seq(Jobs) /\ aq # <<>> /\ aq' = Tail(aq) /\ posts = <<>> /\ eq' = eq
  BY DEF Inv, Types, QueuesOK, JobStep, eventVars
<1>2. Range(posts) = {}
  BY <1>1 DEF Range
<1>3. /\ Tail(aq) \in Seq(Jobs) /\ Head(aq) \in Jobs /\ Head(aq) \in Range(aq)
      /\ Range(aq) = {Head(aq)} \cup Range(Tail(aq))
      /\ \A k \in DOMAIN Tail(aq) : k + 1 \in DOMAIN aq /\ Tail(aq)[k] = aq[k + 1]
  BY <1>1, RangeOfTail
<1>4. QED
  BY <1>1, <1>2, <1>3 DEF Pending, AllJobs

\* The order of closes and starts when a job is taken.
LEMMA CloseInvTaken ==
  ASSUME Inv, CloseInv, JobStep, strays \subseteq strays',
         \A i \in ClosedBy(Range(aq')), j \in Range(posts') : After(j, i, strays'),
         \A j \in Range(posts') : j.op = "close" => Len(posts') = 1
  PROVE  /\ CloseInv'
         /\ Head(aq).op = "close" => \A j \in Range(aq') : After(j, It, strays)
<1>1. aq \in Seq(Jobs) /\ aq # <<>> /\ aq' = Tail(aq) /\ aq' \in Seq(Jobs)
  BY JobTaken DEF JobStep
<1>2. Len(aq) \in Nat \ {0} /\ DOMAIN aq = 1..Len(aq) /\ DOMAIN aq' = 1..Len(aq) - 1 /\ aq[1] = Head(aq)
  BY <1>1
<1>3. \A k \in DOMAIN aq' : k \in Nat /\ k + 1 \in DOMAIN aq /\ aq'[k] = aq[k + 1]
  BY <1>2, JobTaken
<1>4. ASSUME NEW k \in DOMAIN aq', NEW l \in DOMAIN aq', aq'[k].op = "close", k < l
      PROVE  After(aq'[l], aq'[k].arg, strays')
  <2>1. k + 1 < l + 1
    BY <1>3, <1>4
  <2>2. After(aq[l + 1], aq[k + 1].arg, strays)
    BY <1>3, <1>4, <2>1 DEF CloseInv
  <2>3. After(aq'[l], aq'[k].arg, strays)
    BY <1>3, <2>2
  <2>4. QED
    BY <2>3, AfterStays
<1>5. ASSUME Head(aq).op = "close", NEW j \in Range(aq') PROVE After(j, It, strays)
  <2>1. PICK l \in DOMAIN aq' : j = aq'[l]
    BY DEF Range
  <2>2. 1 \in DOMAIN aq /\ l + 1 \in DOMAIN aq /\ 1 < l + 1 /\ aq'[l] = aq[l + 1]
    BY <1>2, <1>3
  <2>3. After(aq[l + 1], aq[1].arg, strays)
    BY <1>2, <1>5, <2>2 DEF CloseInv
  <2>4. QED
    BY <1>2, <2>1, <2>2, <2>3 DEF It
<1>6. QED
  BY <1>4, <1>5 DEF CloseInv

\* A job that is not about sessions leaves the order of the sessions alone.
LEMMA ItemJobKeepsSessions ==
  ASSUME Inv, SessionInv, CommandInv, JobStep, ~Session(Head(aq)), loaded' = loaded
  PROVE  SessionInv' /\ CommandInv'
<1>1. /\ aq \in Seq(Jobs) /\ aq' = Tail(aq) /\ aq # <<>> /\ UNCHANGED <<eq, epc, ereply, mpc, mreply>>
      /\ done'.by = Head(aq).by
  BY JobTaken DEF JobStep, eventVars
<1>2. Range(aq') \subseteq Range(aq) /\ AllJobs' \subseteq AllJobs
  BY JobTaken
<1>3. Sole(aq', Sessions) /\ Sole(eq', Sessions)
  BY <1>1, SoleTail DEF SessionInv, Sessions
<1>4. SessionInv'
  BY <1>1, <1>2, <1>3 DEF SessionInv, Sessions
<1>5. done'.by # "event" \/ epc # "stopping"
  BY <1>1, JobTaken DEF Inv, EventInv, EventJob, Session, SessionOps
<1>6. done'.by # "main" \/ mpc # "exit"
  BY <1>1, JobTaken DEF Inv, MainInv, MainJob, AskedFor, Session, SessionOps
<1>7. CommandInv'
  BY <1>1, <1>2, <1>5, <1>6 DEF CommandInv
<1>8. QED
  BY <1>4, <1>7

\* The jobs create answers the main thread with the new item.
LEMMA JobKeepsDialogs ==
  ASSUME Inv, DialogInv, JobStep, loaded' = loaded,
         Range(tree) \cup detached \subseteq Range(tree') \cup detached',
         Head(aq).op = "create" => done'.val.item \in Range(tree') \cup detached'
  PROVE  DialogInv'
<1>1. UNCHANGED <<mpc, mreply, mval, marg, dialogs>> /\ done'.by = Head(aq).by
  BY DEF JobStep
<1>2. mpc = "create" /\ done'.by = "main" => Head(aq).op = "create"
  BY <1>1, JobTaken DEF Inv, MainInv, MainJob, AskedFor
<1>3. QED
  BY <1>1, <1>2 DEF DialogInv

\* A plugin that is to be closed was not, and has left the tree.
LEMMA ClosingFacts ==
  ASSUME JobsInv
  PROVE  /\ Closing # {} => loaded = "yes"
         /\ Closing \subseteq detached \ info.closed
BY DEF JobsInv, Closing, ClosedBy, JobOK

\* A job that waits is still about a plugin it may be about.
LEMMA JobStaysOK ==
  ASSUME NEW j, JobOK(j), Startable \subseteq Startable',
         Range(tree) \cup detached \subseteq Range(tree') \cup detached',
         loaded' = loaded, j.op = "close" => j.arg \in detached' \ info'.closed
  PROVE  JobOK(j)'
BY DEF JobOK

\* Jobs that start or stop plugins, or leave that to later jobs.
RunStep(A) ==
  /\ UNCHANGED <<name, tree, detached, core, host, loaded, crossed>>
  /\ strays \subseteq strays' /\ Runs(A) /\ A \subseteq Startable \cap Items
  /\ Head(aq).op \notin SessionOps \cup {"close", "create"}
  /\ \A j \in Range(posts') :
       /\ j.op \in {"stop", "start", "exclusive"}
       /\ loaded = "yes" /\ j.arg \in Range(tree)

\* Starts and stops keep what holds: they are of plugins that are not closed.
LEMMA RunStepKeeps ==
  ASSUME Inv, Uncrossed, JobStep, NEW A, RunStep(A)
  PROVE  Uncrossed'
<1> DEFINE ps == Range(posts')
<1>1. /\ UNCHANGED <<name, tree, detached, core, host, loaded>> /\ strays \subseteq strays'
      /\ Range(tree') = Range(tree) /\ Range(core') = Range(core)
  BY DEF RunStep
<1>2. \A j \in ps : /\ j.op \in {"stop", "start", "exclusive"} /\ j.op # "close"
                    /\ loaded = "yes" /\ j.arg \in Range(tree)
  BY DEF RunStep
<1>3. Head(aq).op # "close" /\ ~Session(Head(aq)) /\ Head(aq).op # "create"
  BY DEF RunStep, Session, SessionOps
<1>4. /\ info'.started \subseteq info.started \cup A
      /\ info.failed \cap info'.started \subseteq info'.failed \cup A
      /\ info'.again \subseteq info.again \cup (A \cap info.closed)
      /\ info'.list = info.list /\ info'.names = info.names /\ info'.closed = info.closed
      /\ A \subseteq Startable /\ A \subseteq Items
  BY DEF RunStep, Runs
<1>5. /\ Pending = {Head(aq)} \cup Range(aq') /\ AllJobs' \subseteq AllJobs
      /\ Range(aq') \subseteq Pending /\ Range(aq') \subseteq Range(aq)
      /\ Pending' = Range(aq') \cup ps
  BY JobTaken DEF Pending
<1> HIDE DEF ps
<1>6. Closing' = Closing /\ Closing = ClosedBy(Range(aq'))
  <2>1. Closing = {j.arg : j \in {j \in Pending : j.op = "close"}}
    BY DEF Closing, ClosedBy
  <2>2. Closing' = {j.arg : j \in {j \in Range(aq') \cup ps : j.op = "close"}}
    BY <1>5 DEF Closing, ClosedBy
  <2>3. ClosedBy(Range(aq')) = {j.arg : j \in {j \in Range(aq') : j.op = "close"}}
    BY DEF ClosedBy
  <2>4. {j \in Pending : j.op = "close"} = {j \in Range(aq') : j.op = "close"}
    BY <1>3, <1>5
  <2>5. {j \in Range(aq') \cup ps : j.op = "close"} = {j \in Range(aq') : j.op = "close"}
    BY <1>2
  <2>6. QED
    BY <2>1, <2>2, <2>3, <2>4, <2>5
<1>7. Startable \subseteq Startable'
  BY <1>1, <1>6 DEF Startable
<1>8. Closing \subseteq detached \ info.closed /\ (Closing # {} => loaded = "yes")
  BY ClosingFacts DEF Uncrossed, DataInv
<1>9. JobsInv'
  <2>1. ASSUME NEW j \in Range(aq') PROVE JobOK(j)'
    <3>1. JobOK(j)
      BY <1>5, <2>1 DEF Uncrossed, DataInv, JobsInv
    <3>2. j.op = "close" => j.arg \in detached' \ info'.closed
      BY <1>1, <1>4, <3>1 DEF JobOK
    <3>3. QED
      BY <1>1, <1>7, <3>1, <3>2, JobStaysOK
  <2>2. ASSUME NEW j \in ps PROVE JobOK(j)'
    BY <1>1, <1>2, <2>2 DEF JobOK, Startable, OnTree
  <2>3. QED
    BY <1>5, <2>1, <2>2 DEF JobsInv
<1>10. Opened' = Opened
  BY <1>1, <1>4 DEF Opened
<1>11. host \notin A
  BY <1>4 DEF Inv, Types, AroundOK
<1>12. GoneInv'
  <2> SUFFICES ASSUME loaded # "yes" PROVE host' \notin info'.started /\ (GoneInv!2!2)'
    BY <1>1 DEF GoneInv
  <2>1. A \subseteq strays
    BY <1>4 DEF Startable
  <2>2. host' \notin info'.started
    BY <1>1, <1>4, <1>11 DEF Uncrossed, DataInv, GoneInv
  <2>3. mpc' = mpc
    BY DEF JobStep
  <2>4. Emptied => Emptied'
    BY <1>1, <1>4, <1>10, <2>1 DEF Emptied
  <2>5. QED
    BY <1>5, <2>2, <2>3, <2>4 DEF Uncrossed, DataInv, GoneInv
<1>13. LifeInv'
  <2> SUFFICES ASSUME loaded = "yes" PROVE LifeInv!2'
    BY <1>1 DEF LifeInv
  <2>1. LifeInv!2
    BY DEF Uncrossed, DataInv, LifeInv
  <2>2. A \subseteq strays \cup Range(tree) \cup Closing
    BY <1>4 DEF Startable
  <2>3. QED
    BY <1>1, <1>4, <1>6, <1>11, <2>1, <2>2
<1>14. ListInv'
  BY <1>1, <1>4, <1>6, <1>10 DEF Uncrossed, DataInv, ListInv
<1>15. info'.again \subseteq strays'
  <2>1. A \cap info.closed \subseteq strays
    BY <1>4, <1>8 DEF Uncrossed, DataInv, LifeInv, Startable
  <2>2. QED
    BY <1>1, <1>4, <2>1 DEF Uncrossed, DataInv
<1>16. CloseInv'
  <2>1. ASSUME NEW i \in ClosedBy(Range(aq')), NEW j \in ps PROVE After(j, i, strays')
    BY <1>2, <1>6, <1>8, <2>1 DEF After, Uncrossed, DataInv, LifeInv
  <2>2. QED
    BY <1>1, <1>2, <2>1, CloseInvTaken DEF Uncrossed, ps
<1>17. SessionInv' /\ CommandInv' /\ DialogInv'
  BY <1>1, <1>3, ItemJobKeepsSessions, JobKeepsDialogs DEF Uncrossed
<1>18. QED
  BY <1>9, <1>12, <1>13, <1>14, <1>15, <1>16, <1>17 DEF Uncrossed, DataInv

\* PluginItem.Delete: the plugin leaves the tree and is closed by a later job.
DeleteStep(i) ==
  /\ UNCHANGED <<info, name, core, host, loaded, crossed, strays>>
  /\ loaded = "yes" /\ i \in Range(tree) \cup detached
  /\ Range(tree') = Range(tree) \ {i} /\ detached' = detached \cup {i}
  /\ Head(aq).op \notin SessionOps \cup {"close", "create"}
  /\ \A j \in Range(posts') : j.op = "close" /\ j.arg = i /\ i \notin detached /\ Len(posts') = 1
  /\ i \notin detached => \E j \in Range(posts') : j.op = "close" /\ j.arg = i

\* Delete keeps it: the one close of the plugin is behind its starts.
LEMMA DeleteStepKeeps ==
  ASSUME Inv, Uncrossed, JobStep, NEW i, DeleteStep(i)
  PROVE  Uncrossed'
<1> DEFINE ps == Range(posts')
           new == {i} \ detached
<1>1. /\ UNCHANGED <<info, name, core, host, loaded, strays>> /\ loaded = "yes"
      /\ i \in Range(tree) \cup detached
      /\ Range(tree') = Range(tree) \ {i} /\ detached' = detached \cup {i}
      /\ Range(core') = Range(core)
  BY DEF DeleteStep
<1>2. /\ \A j \in ps : j.op = "close" /\ j.arg = i /\ i \notin detached /\ Len(posts') = 1
      /\ i \notin detached => \E j \in ps : j.op = "close" /\ j.arg = i
  BY DEF DeleteStep
<1>3. Head(aq).op # "close" /\ ~Session(Head(aq)) /\ Head(aq).op # "create"
  BY DEF DeleteStep, Session, SessionOps
<1>4. /\ Pending = {Head(aq)} \cup Range(aq') /\ AllJobs' \subseteq AllJobs
      /\ Range(aq') \subseteq Pending
      /\ Pending' = Range(aq') \cup ps
  BY JobTaken DEF Pending
<1> HIDE DEF ps
<1>5. Closing' = Closing \cup new /\ Closing = ClosedBy(Range(aq'))
  <2>1. ASSUME NEW x PROVE x \in Closing <=> \E j \in Range(aq') : j.op = "close" /\ j.arg = x
    BY <1>3, <1>4 DEF Closing, ClosedBy
  <2>2. ASSUME NEW x PROVE x \in ClosedBy(Range(aq')) <=> \E j \in Range(aq') : j.op = "close" /\ j.arg = x
    BY DEF ClosedBy
  <2>3. ASSUME NEW x
        PROVE  x \in Closing' <=> \/ \E j \in Range(aq') : j.op = "close" /\ j.arg = x
                                  \/ \E j \in ps : j.op = "close" /\ j.arg = x
    BY <1>4 DEF Closing, ClosedBy
  <2>4. ASSUME NEW x PROVE x \in new <=> \E j \in ps : j.op = "close" /\ j.arg = x
    BY <1>2
  <2>5. QED
    BY <2>1, <2>2, <2>3, <2>4
<1>6. new \subseteq Range(tree) /\ new \subseteq detached' /\ new \cap detached = {}
      /\ Range(tree) \subseteq Range(tree') \cup new
  BY <1>1 DEF Uncrossed, DataInv, LifeInv
<1>7. /\ Closing \subseteq detached \ info.closed /\ info.closed \cap Range(tree) = {}
      /\ Range(tree) \cap detached = {} /\ Range(tree') \cap detached' = {}
      /\ Range(tree') \cup Closing' = Range(tree) \cup Closing
  <2>1. Closing \subseteq detached \ info.closed
    BY ClosingFacts DEF Uncrossed, DataInv
  <2>2. info.closed \cap Range(tree) = {} /\ Range(tree) \cap detached = {}
    BY <1>1 DEF Uncrossed, DataInv, LifeInv
  <2>3. QED
    BY <1>1, <1>5, <1>6, <2>1, <2>2
<1>8. Startable' = Startable /\ Range(tree) \cup detached \subseteq Range(tree') \cup detached'
  BY <1>1, <1>7 DEF Startable
<1>9. JobsInv'
  <2>1. ASSUME NEW j \in Range(aq') PROVE JobOK(j)'
    <3>1. JobOK(j)
      BY <1>4, <2>1 DEF Uncrossed, DataInv, JobsInv
    <3>2. j.op = "close" => j.arg \in detached' \ info'.closed
      BY <1>1, <3>1 DEF JobOK
    <3>3. QED
      BY <1>1, <1>8, <3>1, <3>2, JobStaysOK
  <2>2. ASSUME NEW j \in ps PROVE JobOK(j)'
    <3>1. j.op = "close" /\ j.arg \in new
      BY <1>2, <2>2
    <3>2. j.arg \in detached' \ info'.closed
      BY <1>1, <1>6, <1>7, <3>1
    <3>3. QED
      BY <1>1, <3>1, <3>2 DEF JobOK, OnTree
  <2>3. QED
    BY <1>4, <2>1, <2>2 DEF JobsInv
<1> HIDE DEF new
<1>10. GoneInv'
  BY <1>1 DEF GoneInv
<1>11. LifeInv'
  <2>1. LifeInv!2
    BY <1>1 DEF Uncrossed, DataInv, LifeInv
  <2>2. QED
    BY <1>1, <1>7, <2>1 DEF LifeInv
<1>12. Opened' = Opened
  BY <1>1 DEF Opened
<1>13. ListInv'
  BY <1>1, <1>7, <1>12 DEF Uncrossed, DataInv, ListInv
<1>14. info'.again \subseteq strays'
  BY <1>1 DEF Uncrossed, DataInv
<1>15. CloseInv'
  <2>1. ASSUME NEW k \in ClosedBy(Range(aq')), NEW j \in ps PROVE After(j, k, strays')
    BY <1>2, <1>5, <1>7, <2>1 DEF After
  <2>2. QED
    BY <1>1, <1>2, <2>1, CloseInvTaken DEF Uncrossed, ps
<1>16. SessionInv' /\ CommandInv' /\ DialogInv'
  BY <1>1, <1>3, <1>8, ItemJobKeepsSessions, JobKeepsDialogs DEF Uncrossed
<1>17. QED
  BY <1>9, <1>10, <1>11, <1>13, <1>14, <1>15, <1>16 DEF Uncrossed, DataInv

\* A new plugin in the tree.
OpenStep(n) ==
  /\ UNCHANGED <<core, host, loaded, crossed, detached, strays>> /\ loaded = "yes"
  /\ NamesStay /\ New \notin 1..Len(name) /\ DOMAIN name' = (1..Len(name)) \cup {New}
  /\ name'[New] = n /\ n # 0 /\ n \notin info.names
  /\ Range(tree') = Range(tree) \cup {New}
  /\ info'.list = info.list \cup {New} /\ info'.names = info.names \cup {n}
  /\ info'.started = info.started /\ info'.failed = info.failed
  /\ info'.closed = info.closed /\ info'.again = info.again
  /\ \A j \in Range(posts') : j.op = "start" /\ j.arg = New
  /\ Head(aq).op \notin SessionOps \cup {"close"}
  /\ Head(aq).op = "create" => done'.val.item = New

\* A new plugin keeps it: nothing that waits is about it.
LEMMA OpenStepKeeps ==
  ASSUME Inv, Uncrossed, JobStep, NEW n, OpenStep(n)
  PROVE  Uncrossed'
<1> DEFINE ps == Range(posts')
           new == New
           old == 1..Len(name)
<1>1. /\ UNCHANGED <<core, host, loaded, detached, strays>> /\ loaded = "yes"
      /\ new \notin old /\ DOMAIN name' = old \cup {new}
      /\ name'[new] = n /\ n # 0 /\ n \notin info.names
      /\ Range(tree') = Range(tree) \cup {new} /\ Range(core') = Range(core)
      /\ info'.list = info.list \cup {new} /\ info'.names = info.names \cup {n}
      /\ info'.started = info.started /\ info'.failed = info.failed
      /\ info'.closed = info.closed /\ info'.again = info.again
  BY DEF OpenStep
<1>2. \A j \in ps : j.op = "start" /\ j.arg = new /\ j.op # "close"
  BY DEF OpenStep
<1>3. Head(aq).op # "close" /\ ~Session(Head(aq))
  BY DEF OpenStep, Session, SessionOps
<1>4. /\ Pending = {Head(aq)} \cup Range(aq') /\ AllJobs' \subseteq AllJobs
      /\ Range(aq') \subseteq Pending
      /\ Pending' = Range(aq') \cup ps
  BY JobTaken DEF Pending
<1>5. Head(aq).op = "create" => done'.val.item = new
  BY DEF OpenStep
<1>6. /\ detached \subseteq old /\ info.closed \subseteq old /\ info.list \subseteq old
      /\ \A i \in old : name'[i] = name[i]
  BY DEF OpenStep, NamesStay, Inv, Types, ItemsOK, Infos, Known
<1> HIDE DEF ps, new, old
<1>7. Closing' = Closing /\ Closing = ClosedBy(Range(aq'))
  <2>1. ASSUME NEW x PROVE x \in Closing <=> \E j \in Range(aq') : j.op = "close" /\ j.arg = x
    BY <1>3, <1>4 DEF Closing, ClosedBy
  <2>2. ASSUME NEW x PROVE x \in ClosedBy(Range(aq')) <=> \E j \in Range(aq') : j.op = "close" /\ j.arg = x
    BY DEF ClosedBy
  <2>3. ASSUME NEW x PROVE x \in Closing' <=> \E j \in Range(aq') : j.op = "close" /\ j.arg = x
    BY <1>2, <1>4 DEF Closing, ClosedBy
  <2>4. QED
    BY <2>1, <2>2, <2>3
<1>8. Closing \subseteq detached \ info.closed
  BY ClosingFacts DEF Uncrossed, DataInv
<1>9. Startable' = Startable \cup {new} /\ Range(tree) \cup detached \subseteq Range(tree') \cup detached'
  BY <1>1, <1>7 DEF Startable
<1>10. JobsInv'
  <2>1. ASSUME NEW j \in Range(aq') PROVE JobOK(j)'
    <3>1. JobOK(j)
      BY <1>4, <2>1 DEF Uncrossed, DataInv, JobsInv
    <3>2. j.op = "close" => j.arg \in detached' \ info'.closed
      BY <1>1, <3>1 DEF JobOK
    <3>3. QED
      BY <1>1, <1>9, <3>1, <3>2, JobStaysOK
  <2>2. ASSUME NEW j \in ps PROVE JobOK(j)'
    BY <1>1, <1>2, <1>9, <2>2 DEF JobOK, OnTree
  <2>3. QED
    BY <1>4, <2>1, <2>2 DEF JobsInv
<1>11. GoneInv'
  BY <1>1 DEF GoneInv
<1>12. LifeInv'
  <2>1. LifeInv!2
    BY <1>1 DEF Uncrossed, DataInv, LifeInv
  <2>2. new \notin info.closed /\ new \notin detached
    BY <1>1, <1>6
  <2>3. QED
    BY <1>1, <1>7, <2>1, <2>2 DEF LifeInv
<1>13. Opened' = Opened \cup {new} /\ Opened \subseteq old
  BY <1>1, <1>6 DEF Opened
<1>14. \A i \in Opened : name'[i] = name[i] /\ name[i] \in info.names
  BY <1>1, <1>6, <1>13 DEF Uncrossed, DataInv, ListInv
<1>15. ListInv'
  <2>1. ListInv!2
    BY <1>1 DEF Uncrossed, DataInv, ListInv
  <2>2. Opened' = Range(tree') \cup Closing'
    BY <1>1, <1>7, <1>13, <2>1
  <2>3. \A i, k \in Opened' : name'[i] = name'[k] => i = k
    BY <1>1, <1>13, <1>14, <2>1
  <2>4. info'.names = {name'[i] : i \in Opened'}
    BY <1>1, <1>13, <1>14, <2>1
  <2>5. QED
    BY <1>1, <2>1, <2>2, <2>3, <2>4 DEF ListInv
<1>16. info'.again \subseteq strays'
  BY <1>1 DEF Uncrossed, DataInv
<1>17. CloseInv'
  <2>1. ASSUME NEW k \in ClosedBy(Range(aq')), NEW j \in ps PROVE After(j, k, strays')
    BY <1>1, <1>2, <1>6, <1>7, <1>8, <2>1 DEF After
  <2>2. QED
    BY <1>1, <1>2, <2>1, CloseInvTaken DEF Uncrossed, ps
<1>18. SessionInv' /\ CommandInv' /\ DialogInv'
  BY <1>1, <1>3, <1>5, <1>9, ItemJobKeepsSessions, JobKeepsDialogs DEF Uncrossed
<1>19. QED
  BY <1>10, <1>11, <1>12, <1>15, <1>16, <1>17, <1>18 DEF Uncrossed, DataInv

\* The job that closes a plugin.
CloseStep ==
  /\ UNCHANGED <<name, tree, detached, strays, core, host, loaded, crossed>>
  /\ Head(aq).op = "close" /\ It \in Items /\ Closes(It) /\ Range(posts') = {}

\* The close keeps it: no start of the plugin waits any more.
LEMMA CloseStepKeeps ==
  ASSUME Inv, Uncrossed, JobStep, CloseStep
  PROVE  Uncrossed'
<1> DEFINE i == It
<1>1. /\ UNCHANGED <<name, tree, detached, strays, core, host, loaded>>
      /\ Head(aq).op = "close" /\ Head(aq).arg = i /\ i \in Items /\ Range(posts') = {}
      /\ Range(tree') = Range(tree) /\ Range(core') = Range(core)
  BY DEF CloseStep, It
<1>2. /\ info'.started \subseteq info.started
      /\ info.failed \subseteq info'.failed
      /\ i \in info'.started => i \in info.failed
      /\ info'.again \subseteq info.again \cup ({i} \cap info.closed)
      /\ info'.closed \subseteq info.closed \cup {i}
      /\ info'.names = info.names \ {name[i]}
      /\ info'.list = info.list \ (IF Named(info, i) THEN {i} ELSE {})
  BY DEF CloseStep, Closes
<1>3. /\ Pending = {Head(aq)} \cup Range(aq') /\ AllJobs' \subseteq AllJobs
      /\ Range(aq') \subseteq Pending
      /\ Pending' = Range(aq')
  BY <1>1, JobTaken DEF Pending
<1>4. Head(aq).op # "create" /\ ~Session(Head(aq))
  BY <1>1 DEF Session, SessionOps
<1>5. CloseInv' /\ \A j \in Range(aq') : After(j, i, strays)
  BY <1>1, CloseInvTaken DEF Uncrossed
<1>6. JobOK(Head(aq))
  BY <1>3 DEF Uncrossed, DataInv, JobsInv
<1>7. loaded = "yes" /\ i \in detached \ info.closed
  BY <1>1, <1>6 DEF JobOK
<1> HIDE DEF i
<1>8. LifeInv!2 /\ ListInv!2
  BY <1>7 DEF Uncrossed, DataInv, LifeInv, ListInv
<1>9. Closing' = Closing \ {i} /\ i \in Closing
  <2>1. ASSUME NEW x PROVE x \in Closing <=> x = i \/ \E j \in Range(aq') : j.op = "close" /\ j.arg = x
    BY <1>1, <1>3 DEF Closing, ClosedBy
  <2>2. ASSUME NEW x PROVE x \in Closing' <=> \E j \in Range(aq') : j.op = "close" /\ j.arg = x
    BY <1>3 DEF Closing, ClosedBy
  <2>3. ~\E j \in Range(aq') : j.op = "close" /\ j.arg = i
    BY <1>5 DEF After
  <2>4. QED
    BY <2>1, <2>2, <2>3
<1>10. Closing \subseteq detached \ info.closed
  BY ClosingFacts DEF Uncrossed, DataInv
<1>11. i \notin Range(tree) /\ i \notin Range(core)
  BY <1>1, <1>7, <1>8 DEF Inv, Types, AroundOK
<1>12. JobsInv'
  <2>1. ASSUME NEW j \in Range(aq') PROVE JobOK(j)'
    <3>1. JobOK(j)
      BY <1>3, <2>1 DEF Uncrossed, DataInv, JobsInv
    <3>2. After(j, i, strays)
      BY <1>5, <2>1
    <3>3. j.op = "close" => j.arg \in detached' \ info'.closed
      BY <1>1, <1>2, <3>1, <3>2 DEF JobOK, After
    <3>4. j.op = "start" => j.arg \in Startable'
      BY <1>1, <1>9, <3>1, <3>2 DEF JobOK, After, Startable
    <3>5. QED
      BY <1>1, <3>1, <3>3, <3>4 DEF JobOK
  <2>2. QED
    BY <1>3, <2>1 DEF JobsInv
<1>13. GoneInv'
  BY <1>1, <1>7 DEF GoneInv
<1>14. LifeInv'
  <2>1. ASSUME NEW x \in info'.started
        PROVE  x \in info'.failed \cup strays' \cup Range(tree') \cup Range(core') \cup Closing'
    BY <1>1, <1>2, <1>8, <1>9, <2>1
  <2>2. QED
    BY <1>1, <1>2, <1>8, <1>11, <2>1 DEF LifeInv
<1>15. Named(info, i)
  <2>1. i \in Opened
    BY <1>8, <1>9
  <2>2. QED
    BY <1>8, <2>1 DEF Named
<1>16. Opened' = Opened \ {i}
  BY <1>1, <1>2, <1>15 DEF Opened
<1>17. ListInv'
  <2>1. info'.names = {name[k] : k \in Opened \ {i}}
    <3>1. i \in Opened
      BY <1>8, <1>9
    <3>2. QED
      BY <1>2, <1>8, <3>1
  <2>2. Range(core) \subseteq info'.list
    BY <1>2, <1>8, <1>11
  <2>3. Opened \ {i} = Range(tree) \cup (Closing \ {i})
    BY <1>8, <1>11
  <2>4. QED
    BY <1>1, <1>8, <1>9, <1>16, <2>1, <2>2, <2>3 DEF ListInv
<1>18. info'.again \subseteq strays'
  BY <1>1, <1>2, <1>7 DEF Uncrossed, DataInv
<1>19. SessionInv' /\ CommandInv' /\ DialogInv'
  BY <1>1, <1>4, ItemJobKeepsSessions, JobKeepsDialogs DEF Uncrossed
<1>20. QED
  BY <1>5, <1>12, <1>13, <1>14, <1>17, <1>18, <1>19 DEF Uncrossed, DataInv

\* The end of a session.
GoneStep ==
  /\ UNCHANGED <<name, core, tree, host, detached, strays>>
  /\ Head(aq).op = "stopSession" /\ Range(posts') = {}
  /\ crossed' = (crossed \/ \E k \in DOMAIN aq : aq[k].op \in PluginOps)
  /\ SessionGone

\* The end of a session keeps it: no job on its plugins waits.
LEMMA GoneStepKeeps ==
  ASSUME Inv, Uncrossed, JobStep, GoneStep, ~crossed'
  PROVE  Uncrossed'
<1>1. /\ UNCHANGED <<name, core, tree, host, detached, strays>>
      /\ Head(aq).op = "stopSession" /\ Range(posts') = {} /\ loaded' = "gone"
      /\ Range(tree') = Range(tree) /\ Range(core') = Range(core)
  BY DEF GoneStep, SessionGone
<1>2. /\ info'.started \subseteq info.started
      /\ info.failed \subseteq info'.failed
      /\ info'.started \cap (Range(tree) \cup Range(core)) \subseteq info.failed
      /\ info'.again \subseteq info.again \cup ((Range(tree) \cup Range(core)) \cap info.closed)
      /\ info'.list \subseteq info.list \ Range(tree)
      /\ info'.names \subseteq info.names \ {name[i] : i \in Range(tree)}
  BY DEF GoneStep, SessionGone
<1>3. /\ Pending = {Head(aq)} \cup Range(aq') /\ AllJobs = {Head(aq)} \cup AllJobs'
      /\ Range(aq') \subseteq Range(aq) /\ Head(aq) \in AllJobs /\ Head(aq) \in Sessions
      /\ Pending' = Range(aq')
  BY <1>1, JobTaken DEF Pending, Sessions, Session, SessionOps
<1>4. ASSUME NEW j \in Range(aq) PROVE j.op \notin PluginOps
  BY <1>4 DEF GoneStep, Range
<1>5. loaded = "yes"
  BY <1>1, <1>3 DEF Uncrossed, SessionInv
<1>6. Closing = {}
  BY <1>1, <1>3, <1>4 DEF Closing, ClosedBy, PluginOps
<1>7. LifeInv!2 /\ ListInv!2
  BY <1>5 DEF Uncrossed, DataInv, LifeInv, ListInv
<1>8. \A j \in AllJobs' : j \notin Sessions
  <2>1. aq \in Seq(Jobs) /\ aq # <<>> /\ aq' = Tail(aq) /\ eq' = eq
    BY JobTaken DEF JobStep, eventVars
  <2>2. Range(aq') \cap Sessions = {}
    BY <1>3, <2>1, SoleTail DEF Uncrossed, SessionInv
  <2>3. Range(eq) \cap Sessions = {}
    BY <1>3, JobTaken DEF Uncrossed, SessionInv
  <2>4. QED
    BY <2>1, <2>2, <2>3 DEF AllJobs
<1>9. AllJobs' \subseteq Jobs
  BY JobTaken DEF Inv, Types, QueuesOK, AllJobs, Range, JobStep, eventVars
<1>10. \A j \in AllJobs' : j.op # "startSession" /\ j.op # "stopSession"
  BY <1>8, <1>9 DEF Sessions, Session, SessionOps
<1>11. SessionInv'
  <2>1. /\ \A k \in DOMAIN aq' : aq'[k] \notin Sessions
        /\ \A k \in DOMAIN eq' : eq'[k] \notin Sessions
        /\ Range(aq') \cap Sessions = {}
    BY <1>8 DEF AllJobs, Range
  <2>2. QED
    BY <1>10, <2>1 DEF SessionInv, Sole
<1>12. mpc \notin InSession
  BY <1>1, <1>3 DEF Uncrossed, CommandInv
<1>13. /\ UNCHANGED <<mpc, mreply, epc, ereply>>
  BY DEF JobStep, eventVars
<1>14. CommandInv'
  BY <1>1, <1>10, <1>12, <1>13 DEF CommandInv
<1>15. DialogInv' /\ LifeInv' /\ ListInv'
  BY <1>1 DEF DialogInv, LifeInv, ListInv
<1>16. CloseInv'
  BY <1>1, CloseInvTaken DEF Uncrossed
<1>17. JobsInv'
  <2>1. ASSUME NEW j \in Range(aq') PROVE j.op \notin PluginOps
    BY <1>3, <1>4, <2>1
  <2>2. ASSUME NEW j \in Range(aq') PROVE j.op # "toggle"
    BY <1>3, <1>12, <2>2 DEF Inv, MainInv, MainJob, AskedFor, InSession, AskPcs
  <2>3. QED
    BY <1>3, <2>1, <2>2 DEF JobsInv, JobOK, PluginOps, OnTree
<1>18. Emptied'
  <2>1. Opened' = {}
    BY <1>1, <1>2, <1>6, <1>7 DEF Opened
  <2>2. info'.names = {}
    BY <1>2, <1>6, <1>7
  <2>3. info'.started \subseteq info'.failed \cup strays'
    BY <1>1, <1>2, <1>6, <1>7
  <2>4. QED
    BY <2>1, <2>2, <2>3 DEF Emptied
<1>19. host' \notin info'.started
  BY <1>1, <1>2, <1>7 DEF Inv, Types, ItemsOK, AroundOK
<1>20. GoneInv'
  BY <1>18, <1>19 DEF GoneInv
<1>21. info'.again \subseteq strays'
  BY <1>1, <1>2, <1>7 DEF Uncrossed, DataInv
<1>22. QED
  BY <1>11, <1>14, <1>15, <1>16, <1>17, <1>20, <1>21 DEF Uncrossed, DataInv

\* A session that starts, or that does not come to its end.
MadeStep(complete) ==
  /\ UNCHANGED <<detached, strays, crossed>>
  /\ Head(aq).op = "startSession" /\ Range(posts') = {}
  /\ SessionMade(complete) /\ NamesStay

\* Before it there was nothing, and nobody waits for another one.
LEMMA BeforeSession ==
  ASSUME Inv, Uncrossed, JobStep, Head(aq).op = "startSession"
  PROVE  /\ loaded # "yes" /\ Emptied /\ host \notin info.started
         /\ mpc \notin InSession \cup Leaving
         /\ \A j \in AllJobs' : j.op # "startSession" /\ j.op # "stopSession"
         /\ \A j \in Range(aq') : /\ j.op \notin OnTree \cup {"close"}
                                  /\ j.op \in PluginOps => j.op \in {"fault", "start"}
                                  /\ j.op = "start" => j.arg \in strays
<1>1. /\ Pending = {Head(aq)} \cup Range(aq') /\ AllJobs = {Head(aq)} \cup AllJobs'
      /\ Range(aq') \subseteq Range(aq) /\ Head(aq) \in AllJobs /\ Head(aq) \in Sessions
  BY JobTaken DEF Sessions, Session, SessionOps
<1>2. loaded # "yes"
  BY <1>1 DEF Uncrossed, SessionInv
<1>3. mpc \notin InSession \cup Leaving
  BY <1>1, <1>2 DEF Uncrossed, CommandInv
<1>4. Emptied /\ host \notin info.started
  BY <1>1, <1>2 DEF Uncrossed, DataInv, GoneInv
<1>5. \A j \in AllJobs' : j \notin Sessions
  <2>1. aq \in Seq(Jobs) /\ aq # <<>> /\ aq' = Tail(aq) /\ eq' = eq
    BY JobTaken DEF JobStep, eventVars
  <2>2. Range(aq') \cap Sessions = {}
    BY <1>1, <2>1, SoleTail DEF Uncrossed, SessionInv
  <2>3. Range(eq) \cap Sessions = {}
    BY <1>1, JobTaken DEF Uncrossed, SessionInv
  <2>4. QED
    BY <2>1, <2>2, <2>3 DEF AllJobs
<1>6. AllJobs' \subseteq Jobs
  BY JobTaken DEF Inv, Types, QueuesOK, AllJobs, Range, JobStep, eventVars
<1>7. \A j \in AllJobs' : j.op # "startSession" /\ j.op # "stopSession"
  BY <1>5, <1>6 DEF Sessions, Session, SessionOps
<1>8. ASSUME NEW j \in Range(aq')
      PROVE  /\ j.op \notin OnTree \cup {"close"}
             /\ j.op \in PluginOps => j.op \in {"fault", "start"}
             /\ j.op = "start" => j.arg \in strays
  <2>1. JobOK(j)
    BY <1>1, <1>8 DEF Uncrossed, DataInv, JobsInv
  <2>2. QED
    BY <1>2, <2>1 DEF JobOK, Startable
<1>9. QED
  BY <1>2, <1>3, <1>4, <1>7, <1>8

\* A new session keeps it: there was no plugin before it.
LEMMA MadeStepKeeps ==
  ASSUME Inv, Uncrossed, JobStep, NEW complete \in BOOLEAN, MadeStep(complete)
  PROVE  Uncrossed'
<1> DEFINE items == New + 1..Len(name')
           new == New
<1>1. /\ UNCHANGED <<detached, strays>>
      /\ Head(aq).op = "startSession" /\ Range(posts') = {}
      /\ \A i \in DOMAIN name : name'[i] = name[i]
  BY DEF MadeStep, NamesStay
<1>2. /\ info'.list = info.list \cup {new} \cup items
      /\ info'.closed = info.closed /\ info'.again = info.again
      /\ info.failed \subseteq info'.failed
      /\ info'.names = info.names \cup {name'[i] : i \in items}
      /\ \A i, k \in items : name'[i] = name'[k] => i = k
      /\ \A i \in items : name'[i] # 0
      /\ new = Len(name) + 1 /\ Range(core') \subseteq {new}
      /\ info'.started \subseteq info.started \cup Range(core') \cup (IF complete THEN items ELSE {})
      /\ IF complete THEN loaded' = "yes" /\ host' = new /\ Range(tree') = items
                     ELSE loaded' = loaded /\ host' = host /\ tree' = tree
  BY DEF MadeStep, SessionMade
<1>3. /\ loaded # "yes" /\ Emptied /\ host \notin info.started
      /\ mpc \notin InSession \cup Leaving
      /\ \A j \in AllJobs' : j.op # "startSession" /\ j.op # "stopSession"
      /\ \A j \in Range(aq') : /\ j.op \notin OnTree \cup {"close"}
                               /\ j.op \in PluginOps => j.op \in {"fault", "start"}
                               /\ j.op = "start" => j.arg \in strays
  BY <1>1, BeforeSession
<1>4. Pending' = Range(aq')
  BY <1>1 DEF Pending
<1>5. mpc' = mpc /\ AllJobs' \subseteq Jobs
  BY JobTaken DEF Inv, Types, QueuesOK, AllJobs, Range, JobStep, eventVars
<1>6. /\ info.started \subseteq 1..Len(name) /\ info.closed \subseteq 1..Len(name)
      /\ detached \subseteq 1..Len(name) /\ info.list \subseteq 1..Len(name)
      /\ host \in 0..Len(name) /\ Len(name) \in Nat /\ DOMAIN name = 1..Len(name)
  BY DEF Inv, Types, ItemsOK, AroundOK, Infos, Known
<1>7. /\ new \notin 1..Len(name) /\ new \notin items /\ items \cap (1..Len(name)) = {} /\ new # host
      /\ new \in DOMAIN name' \/ ~complete
  <2>1. Len(name') \in Nat /\ (host' = new /\ complete => new \in 0..Len(name'))
    BY DEF JobStep, ItemStep, ItemsOK, AroundOK
  <2>2. name' \in Seq(Nat) /\ new \in Nat /\ new # 0
    BY <1>2, <1>6 DEF JobStep, ItemStep, ItemsOK
  <2>3. DOMAIN name' = 1..Len(name')
    BY <2>2
  <2>4. QED
    BY <1>2, <1>6, <2>1, <2>2, <2>3
<1>8. complete => name'[new] = 0
  <2>1. complete => new \notin Items'
    BY <1>2 DEF JobStep, AroundOK
  <2>2. QED
    BY <1>7, <2>1 DEF Items
<1> HIDE DEF items, new
<1>9. Closing' = {} /\ ClosedBy(Range(aq')) = {}
  BY <1>3, <1>4 DEF Closing, ClosedBy
<1>10. SessionInv'
  <2>1. AllJobs' \cap Sessions = {}
    BY <1>3 DEF Sessions, Session, SessionOps
  <2>2. /\ \A k \in DOMAIN aq' : aq'[k] \notin Sessions
        /\ \A k \in DOMAIN eq' : eq'[k] \notin Sessions
        /\ Range(aq') \cap Sessions = {}
    BY <2>1 DEF AllJobs, Range
  <2>3. QED
    BY <1>3, <2>2 DEF SessionInv, Sole
<1>11. CommandInv'
  BY <1>3, <1>5 DEF CommandInv, Leaving
<1>12. DialogInv'
  BY <1>3, <1>5 DEF DialogInv, InSession, AskPcs
<1>13. CloseInv'
  BY <1>1, CloseInvTaken DEF Uncrossed
<1>14. JobsInv'
  <2>1. ASSUME NEW j \in Range(aq') PROVE JobOK(j)'
    BY <1>1, <1>3, <2>1 DEF JobOK, Startable
  <2>2. QED
    BY <1>4, <2>1 DEF JobsInv
<1>15. info'.again \subseteq strays'
  BY <1>1, <1>2 DEF Uncrossed, DataInv
<1>16. CASE complete
  <2>1. GoneInv'
    BY <1>2, <1>16 DEF GoneInv
  <2>2. LifeInv'
    <3>1. host' \in info'.started => host' \in Range(core')
      BY <1>2, <1>6, <1>7, <1>16
    <3>2. info'.closed \cap (Range(tree') \cup Range(core')) = {} /\ Range(tree') \cap detached' = {}
      BY <1>1, <1>2, <1>6, <1>7, <1>16
    <3>3. info'.started \subseteq info'.failed \cup strays' \cup Range(tree') \cup Range(core')
      BY <1>1, <1>2, <1>3, <1>16 DEF Emptied
    <3>4. QED
      BY <3>1, <3>2, <3>3 DEF LifeInv
  <2>3. Opened' = items
    <3>1. ASSUME NEW i \in info.list PROVE name[i] = 0 /\ name'[i] = 0
      BY <1>1, <1>3, <1>6, <3>1 DEF Emptied, Opened
    <3>2. QED
      BY <1>2, <1>8, <1>16, <3>1 DEF Opened
  <2>4. ListInv'
    BY <1>2, <1>3, <1>9, <1>16, <2>3 DEF ListInv, Emptied
  <2>5. QED
    BY <1>10, <1>11, <1>12, <1>13, <1>14, <1>15, <2>1, <2>2, <2>4 DEF Uncrossed, DataInv
<1>17. CASE ~complete
  <2>1. loaded' # "yes"
    BY <1>2, <1>3, <1>17
  <2>2. LifeInv' /\ ListInv'
    BY <2>1 DEF LifeInv, ListInv
  <2>3. host' \notin info'.started
    BY <1>2, <1>3, <1>7, <1>17
  <2>4. GoneInv'
    BY <1>3, <1>5, <2>3 DEF GoneInv
  <2>5. QED
    BY <1>10, <1>11, <1>12, <1>13, <1>14, <1>15, <2>2, <2>4 DEF Uncrossed, DataInv
<1>18. QED
  BY <1>16, <1>17

-----------------------------------------------------------------------------
(* What the jobs do, in these terms. *)
LEMMA HeadOK ==
  ASSUME Inv, Uncrossed, aq # <<>>
  PROVE  /\ Head(aq) \in Jobs /\ Head(aq).arg = It
         /\ Head(aq).op \in OnTree => /\ loaded = "yes" /\ It \in Items
                                      /\ It \in Range(tree) \cup detached
         /\ Head(aq).op = "start" => It \in Startable \cap Items
         /\ Head(aq).op = "close" => It \in Items
         /\ Head(aq).op \in {"create", "toggle"} \cup HandlerOps => loaded = "yes"
<1>1. Head(aq) \in Jobs /\ Head(aq) \in Range(aq) /\ JobOK(Head(aq))
  BY HeadJob DEF Inv, Types, Uncrossed, DataInv, JobsInv, Pending
<1>2. Head(aq).op \in PluginOps \cup {"toggle"} => It \in Items
  BY HeadJob DEF Inv, Types
<1>3. Head(aq).op \in {"create", "toggle"} \cup HandlerOps => mpc \in InSession
  BY <1>1 DEF Inv, MainInv, MainJob, AskedFor, InSession, AskPcs, HandlerOps
<1>4. QED
  BY <1>1, <1>2, <1>3 DEF JobOK, OnTree, PluginOps, It, Uncrossed, CommandInv

\* A job that leaves nothing.
LEMMA EmptyPosts == ASSUME posts' = <<>> PROVE Range(posts') = {}
BY DEF Range

\* A job that changes nothing is a RunStep.
LEMMA RunsNone ==
  ASSUME Inv, UNCHANGED <<info, name, tree, detached, strays, aroundVars>>, posts' = <<>>,
         Head(aq).op \notin SessionOps \cup {"close", "create"}
  PROVE  RunStep({})
<1>1. Runs({})
  BY NoneCalled DEF Inv, Types
<1>2. QED
  BY <1>1, EmptyPosts DEF RunStep, aroundVars

\* So is SetArguments.
LEMMA SetArgsStep ==
  ASSUME Inv, loaded = "yes", NEW i \in Range(tree) \cup detached, SetArgs(i), UNCHANGED aroundVars,
         Head(aq).op \notin SessionOps \cup {"close", "create"}
  PROVE  RunStep({})
<1>1. UNCHANGED <<info, name, tree, enabled, detached, strays>> /\ Runs({})
  BY NoneCalled DEF SetArgs, itemVars, Inv, Types
<1>2. \A j \in Range(posts') :
        j.op \in {"stop", "start", "exclusive"} /\ loaded = "yes" /\ j.arg \in Range(tree)
  <2>1. CASE i \in enabled \ detached
    <3>1. posts' = <<Job("stop", i, "nobody"), Job("start", i, "nobody")>>
      BY <2>1 DEF SetArgs
    <3>2. \A k \in DOMAIN posts' : posts'[k].op \in {"stop", "start"} /\ posts'[k].arg = i
      BY <3>1 DEF Job
    <3>3. QED
      BY <2>1, <3>2 DEF Range
  <2>2. CASE i \notin enabled \ detached
    BY <2>2, EmptyPosts DEF SetArgs
  <2>3. QED
    BY <2>1, <2>2
<1>3. QED
  BY <1>1, <1>2 DEF RunStep, aroundVars

\* So is SetEnable.
LEMMA SetEnableStep ==
  ASSUME Inv, loaded = "yes", NEW i \in Range(tree) \cup detached, i \in Items, NEW flag,
         SetEnable(i, flag), UNCHANGED aroundVars,
         Head(aq).op \notin SessionOps \cup {"close", "create"}
  PROVE  RunStep({i} \ detached)
<1>1. Runs({i} \ detached)
  BY SetEnableRuns DEF Inv, Types
<1>2. UNCHANGED <<name, tree, detached>> /\ strays \subseteq strays' /\ posts' = <<>>
  BY DEF SetEnable
<1>3. {i} \ detached \subseteq Startable \cap Items
  BY DEF Startable
<1>4. QED
  BY <1>1, <1>2, <1>3, EmptyPosts DEF RunStep, aroundVars

\* Delete is a DeleteStep.
LEMMA DeleteGives ==
  ASSUME Inv, loaded = "yes", NEW i \in Range(tree) \cup detached, Delete(i), UNCHANGED aroundVars,
         Head(aq).op \notin SessionOps \cup {"close", "create"}
  PROVE  DeleteStep(i)
<1>1. Range(tree') = Range(tree) \ {i} /\ detached' = detached \cup {i} /\ UNCHANGED <<info, name, strays>>
  BY RemovedFromTree DEF Delete, Inv, Types, ItemsOK
<1>2. /\ \A j \in Range(posts') : j.op = "close" /\ j.arg = i /\ i \notin detached /\ Len(posts') = 1
      /\ i \notin detached => \E j \in Range(posts') : j.op = "close" /\ j.arg = i
  <2>1. CASE i \in detached
    BY <2>1, EmptyPosts DEF Delete
  <2>2. CASE i \notin detached
    <3> DEFINE j == Job("close", i, "nobody")
    <3>1. j.op = "close" /\ j.arg = i
      BY DEF Job
    <3>2. posts' = <<j>>
      BY <2>2 DEF Delete
    <3> HIDE DEF j
    <3>3. Range(posts') = {j} /\ Len(posts') = 1
      BY <3>2, RangeOfShort
    <3>4. QED
      BY <2>2, <3>1, <3>3
  <2>3. QED
    BY <2>1, <2>2
<1>3. QED
  BY <1>1, <1>2 DEF DeleteStep, aroundVars

\* A new item is an OpenStep, unless its name is taken.
LEMMA OpenGives ==
  ASSUME Inv, loaded = "yes", NEW n \in Nat \ {0}, NEW pos \in Nat \ {0}, NEW on, NEW starts,
         Open(n, pos, on, starts), UNCHANGED aroundVars,
         Head(aq).op \notin SessionOps \cup {"close"},
         Head(aq).op = "create" => n \notin info.names /\ done'.val.item = New
  PROVE  OpenStep(n) \/ RunStep({})
<1>1. CASE n \in info.names
  BY <1>1, RunsNone DEF Open
<1>2. CASE n \notin info.names
  <2>1. Opens(n)
    BY <1>2, OpenTypes DEF Inv, Types
  <2>2. UNCHANGED <<detached, strays>>
    BY <1>2 DEF Open
  <2>3. \A j \in Range(posts') : j.op = "start" /\ j.arg = New
    <3>1. CASE on /\ starts
      <4>1. posts' = <<Job("start", New, "nobody")>>
        BY <1>2, <3>1 DEF Open
      <4>2. \A k \in DOMAIN posts' : posts'[k].op = "start" /\ posts'[k].arg = New
        BY <4>1 DEF Job
      <4>3. QED
        BY <4>2 DEF Range
    <3>2. CASE ~(on /\ starts)
      BY <1>2, <3>2, EmptyPosts DEF Open
    <3>3. QED
      BY <3>1, <3>2
  <2>4. QED
    BY <1>2, <2>1, <2>2, <2>3 DEF OpenStep, Opens, aroundVars
<1>3. QED
  BY <1>1, <1>2

\* Every plugin of the tree can be removed.
LEMMA AllGo ==
  ASSUME Inv, Uncrossed, loaded = "yes", Closing = {}
  PROVE  \A k \in DOMAIN tree : Goes(k)
<1>1. /\ Opened = Range(tree) /\ info.names = {name[i] : i \in Opened}
      /\ \A i, k \in Opened : name[i] = name[k] => i = k
  BY DEF Uncrossed, DataInv, ListInv
<1>2. IsInjective(tree) /\ DOMAIN tree = 1..Len(tree) /\ Len(tree) \in Nat
  BY DEF Inv, Types, ItemsOK
<1>3. ASSUME NEW k \in DOMAIN tree PROVE Goes(k)
  <2>1. tree[k] \in Opened /\ tree[k] \in info.list /\ name[tree[k]] \in info.names
    BY <1>1, <1>3 DEF Opened, Range
  <2>2. ASSUME NEW j \in 1..k - 1 PROVE name[tree[j]] # name[tree[k]]
    <3>1. j \in DOMAIN tree /\ j # k
      BY <1>2, <1>3, <2>2
    <3>2. tree[j] \in Opened /\ tree[j] # tree[k]
      BY <1>1, <1>2, <1>3, <3>1 DEF Range, IsInjective
    <3>3. QED
      BY <1>1, <2>1, <3>2
  <2>3. QED
    BY <2>1, <2>2 DEF Goes, Named
<1>4. QED
  BY <1>3

\* TreeItem.Create is one of the classes.
LEMMA CreateJobGives == ASSUME Inv, Uncrossed, CreateJob PROVE \E n : OpenStep(n) \/ RunStep({})
<1>1. PICK n \in 1..MaxInstances + 1 :
        /\ FirstFree(n) /\ Open(n, Len(tree) + 1, TRUE, FALSE)
        /\ Answered(TRUE, Handler("new", New, Len(tree) + 1, n, TRUE))
  BY DEF CreateJob
<1>2. n \in Nat \ {0} /\ Len(tree) + 1 \in Nat \ {0} /\ n \notin info.names
  BY <1>1, SessionAssumption DEF FirstFree, Inv, Types, ItemsOK
<1>3. aq # <<>> /\ Head(aq).op = "create" /\ UNCHANGED aroundVars
  BY DEF CreateJob, Take
<1>4. loaded = "yes" /\ Head(aq).by = "main"
  BY <1>3, HeadOK, HeadJob DEF Inv, Types, MainInv, MainJob
<1>5. done'.val.item = New
  BY <1>1, <1>4 DEF Answered, Handler
<1>6. Head(aq).op \notin SessionOps \cup {"close"}
  BY <1>3 DEF SessionOps
<1> DEFINE pos == Len(tree) + 1
<1>7. Open(n, pos, TRUE, FALSE) /\ pos \in Nat \ {0}
  BY <1>1, <1>2
<1> HIDE DEF pos
<1>8. OpenStep(n) \/ RunStep({})
  BY <1>2, <1>3, <1>4, <1>5, <1>6, <1>7, OpenGives
<1>9. QED
  BY <1>8

\* So are undo and redo.
LEMMA HandlerJobGives ==
  ASSUME Inv, Uncrossed, NEW op \in HandlerOps, HandlerJob(op)
  PROVE  \/ \E n : OpenStep(n)
         \/ \E i : DeleteStep(i)
         \/ \E A : RunStep(A)
<1>1. /\ aq # <<>> /\ Head(aq).op = op /\ UNCHANGED aroundVars /\ It \in Handlers /\ Placed(It)
      /\ op \notin SessionOps \cup {"close", "create"}
  BY HeadJob DEF HandlerJob, Take, Inv, Types, HandlerOps, SessionOps
<1>2. loaded = "yes"
  BY <1>1, HeadOK
<1> DEFINE i == tree[It.pos]
<1>3. ASSUME It.pos \in DOMAIN tree PROVE i \in Items /\ i \in Range(tree) \cup detached
  BY <1>3 DEF Inv, Types, ItemsOK, Range, Items
<1>4. CASE It.kind \in {"new", "clear"} /\ Open(It.name, It.pos, It.on, TRUE)
  <2>1. It.name \in Nat \ {0} /\ It.pos \in Nat \ {0}
    BY <1>1, <1>4 DEF Handlers, Placed
  <2>2. OpenStep(It.name) \/ RunStep({})
    BY <1>1, <1>2, <1>4, <2>1, OpenGives
  <2>3. QED
    BY <2>2
<1>5. CASE posts' = <<>> /\ UNCHANGED itemVars
  <2>1. RunStep({})
    BY <1>1, <1>5, RunsNone DEF itemVars
  <2>2. QED
    BY <2>1
<1>6. CASE It.pos \in DOMAIN tree /\ Delete(i)
  <2>1. DeleteStep(i)
    BY <1>1, <1>2, <1>3, <1>6, DeleteGives
  <2>2. QED
    BY <2>1
<1>7. ASSUME It.pos \in DOMAIN tree, NEW flag, SetEnable(i, flag) PROVE \E A : RunStep(A)
  <2>1. RunStep({i} \ detached)
    BY <1>1, <1>2, <1>3, <1>7, SetEnableStep
  <2>2. QED
    BY <2>1
<1>8. CASE It.pos \in DOMAIN tree /\ SetArgs(i)
  <2>1. RunStep({})
    BY <1>1, <1>2, <1>3, <1>8, SetArgsStep
  <2>2. QED
    BY <2>1
<1>9. QED
  BY <1>4, <1>5, <1>6, <1>7, <1>8 DEF HandlerJob

\* So is a macro, whatever it does to plugins.
LEMMA MacroJobGives == ASSUME Inv, Uncrossed, MacroJob PROVE \E A : RunStep(A)
<1>1. /\ aq # <<>> /\ Head(aq).op = "macro" /\ UNCHANGED aroundVars
      /\ "macro" \notin SessionOps \cup {"close", "create"}
  BY DEF MacroJob, Take, SessionOps
<1>2. CASE posts' = <<>> /\ UNCHANGED itemVars
  <2>1. RunStep({})
    BY <1>1, <1>2, RunsNone DEF itemVars
  <2>2. QED
    BY <2>1
<1>3. ASSUME host \in info.started PROVE loaded = "yes"
  BY <1>3 DEF Uncrossed, DataInv, GoneInv
<1>4. ASSUME loaded = "yes", NEW i \in Range(tree), NEW flag \in BOOLEAN, SetEnable(i, flag)
      PROVE  \E A : RunStep(A)
  <2>1. i \in Items
    BY DEF Inv, Types, ItemsOK
  <2>2. RunStep({i} \ detached)
    BY <1>1, <1>4, <2>1, SetEnableStep
  <2>3. QED
    BY <2>2
<1>5. ASSUME loaded = "yes", NEW i \in Range(tree), posts' = <<Job("exclusive", i, "nobody")>>,
             UNCHANGED itemVars
      PROVE  \E A : RunStep(A)
  <2>1. \A k \in DOMAIN posts' : posts'[k].op = "exclusive" /\ posts'[k].arg = i
    BY <1>5 DEF Job
  <2>2. \A j \in Range(posts') : j.op = "exclusive" /\ j.arg = i
    BY <2>1 DEF Range
  <2>3. Runs({})
    BY <1>5, NoneCalled DEF itemVars, Inv, Types
  <2>4. RunStep({})
    BY <1>1, <1>5, <2>2, <2>3 DEF RunStep, aroundVars, itemVars
  <2>5. QED
    BY <2>4
<1>6. QED
  BY <1>2, <1>3, <1>4, <1>5 DEF MacroJob

\* The jobs that are not about sessions.
LEMMA PlainJobGives ==
  ASSUME Inv, Uncrossed,
         StartJob \/ StopJob \/ ExecuteJob \/ FaultJob \/ SetArgsJob \/ ToggleJob \/ ExclusiveJob
  PROVE  \E A : RunStep(A)
<1>1. Types
  BY DEF Inv
<1>2. ASSUME NEW op, op \in {"start", "stop", "execute", "fault", "exclusive"}, Take(op), Nothing, NEW A,
             Runs(A), A \subseteq Startable \cap Items, strays \subseteq strays',
             UNCHANGED <<name, tree, detached, aroundVars>>
      PROVE  \E B : RunStep(B)
  <2>1. posts' = <<>> /\ Head(aq).op = op
    BY <1>2 DEF Nothing, Take
  <2>2. RunStep(A)
    BY <1>2, <2>1, EmptyPosts DEF RunStep, aroundVars, SessionOps
  <2>3. QED
    BY <2>2
<1>3. ASSUME NEW op, Take(op) PROVE aq # <<>> /\ Head(aq).op = op
  BY <1>3 DEF Take
<1>4. CASE StartJob
  <2>1. {It} \subseteq Startable \cap Items
    BY <1>3, <1>4, HeadOK DEF StartJob
  <2>2. QED
    BY <1>1, <1>2, <1>4, <2>1, StartJobStep DEF StartJob
<1>5. CASE StopJob
  BY <1>1, <1>2, <1>5, StopJobStep DEF StopJob
<1>6. CASE FaultJob
  BY <1>1, <1>2, <1>6, FaultJobStep DEF FaultJob
<1>7. CASE ExecuteJob
  <2>1. {It} \ detached \subseteq Startable \cap Items
    BY <1>3, <1>7, HeadOK DEF ExecuteJob, OnTree, Startable
  <2>2. QED
    BY <1>1, <1>2, <1>7, <2>1, ExecuteJobStep DEF ExecuteJob
<1>8. CASE ExclusiveJob
  <2>1. {It} \ detached \subseteq Startable \cap Items
    BY <1>3, <1>8, HeadOK DEF ExclusiveJob, OnTree, Startable
  <2>2. strays \subseteq strays' /\ UNCHANGED <<name, tree, detached, aroundVars>> /\ Take("exclusive") /\ Nothing
    BY <1>8 DEF ExclusiveJob
  <2>3. QED
    BY <1>1, <1>2, <1>8, <2>1, <2>2, ExclusiveJobStep
<1>9. CASE SetArgsJob
  <2>1. /\ SetArgs(It) /\ UNCHANGED aroundVars /\ Head(aq).op = "setArgs" /\ aq # <<>>
        /\ "setArgs" \in OnTree /\ "setArgs" \notin SessionOps \cup {"close", "create"}
    BY <1>9 DEF SetArgsJob, Take, OnTree, SessionOps
  <2>2. RunStep({})
    BY <2>1, HeadOK, SetArgsStep
  <2>3. QED
    BY <2>2
<1>10. CASE ToggleJob
  <2> DEFINE flag == It \notin enabled
  <2>1. /\ SetEnable(It, flag) /\ UNCHANGED aroundVars /\ Head(aq).op = "toggle" /\ aq # <<>>
        /\ "toggle" \in OnTree /\ "toggle" \notin SessionOps \cup {"close", "create"}
    BY <1>10 DEF ToggleJob, Take, OnTree, SessionOps
  <2> HIDE DEF flag
  <2>2. RunStep({It} \ detached)
    BY <2>1, HeadOK, SetEnableStep
  <2>3. QED
    BY <2>2
<1>11. QED
  BY <1>4, <1>5, <1>6, <1>7, <1>8, <1>9, <1>10

\* The end of a session: while nothing came between, every plugin is removed.
LEMMA StopSessionGives ==
  ASSUME Inv, Uncrossed, StopSessionJob, ~crossed' PROVE GoneStep
<1>1. /\ posts = <<>> /\ aq # <<>> /\ Head(aq).op = "stopSession" /\ posts' = <<>>
      /\ crossed' = (crossed \/ \E k \in DOMAIN aq : aq[k].op \in PluginOps)
      /\ UNCHANGED <<name, core, tree, host, detached, strays>>
  BY DEF StopSessionJob, Take
<1>2. loaded = "yes"
  BY <1>1, HeadJob DEF Inv, Types, Uncrossed, SessionInv, AllJobs
<1>3. Closing = {}
  <2>1. Range(posts) = {}
    BY <1>1 DEF Range
  <2>2. \A k \in DOMAIN aq : aq[k].op \notin PluginOps
    BY <1>1
  <2>3. \A j \in Pending : j.op # "close"
    BY <2>1, <2>2 DEF Pending, Range, PluginOps
  <2>4. QED
    BY <2>3 DEF Closing, ClosedBy
<1>4. SessionGone
  BY <1>2, <1>3, AllGo, StopSessionJobStep DEF Inv
<1>5. QED
  BY <1>1, <1>4, EmptyPosts DEF GoneStep

\* The start of a session.
LEMMA StartSessionGives ==
  ASSUME Inv, StartSessionJob PROVE \E complete \in BOOLEAN : MadeStep(complete)
<1>1. /\ Head(aq).op = "startSession" /\ posts' = <<>> /\ UNCHANGED <<detached, strays, crossed>>
  BY DEF StartSessionJob, Take
<1>2. PICK complete \in BOOLEAN : SessionMade(complete)
  BY StartSessionJobStep DEF Inv
<1>3. NamesStay
  BY StartSessionJobStep DEF Inv, JobStep, ItemStep
<1>4. MadeStep(complete)
  BY <1>1, <1>2, <1>3, EmptyPosts DEF MadeStep
<1>5. QED
  BY <1>4

AnyJob ==
  \/ StartJob \/ StopJob \/ ExecuteJob \/ CloseJob \/ FaultJob
  \/ CreateJob \/ SetArgsJob \/ DeleteJob \/ ToggleJob
  \/ HandlerJob("undo") \/ HandlerJob("redo") \/ MacroJob \/ ExclusiveJob
  \/ StopSessionJob \/ StartSessionJob

\* Every job keeps the invariant.
LEMMA JobKeepsUncrossed ==
  ASSUME Inv, Uncrossed, ~crossed', AnyJob PROVE Uncrossed'
<1>1. JobStep
  BY StartJobStep, StopJobStep, ExecuteJobStep, CloseJobStep, FaultJobStep, CreateJobStep,
     SetArgsJobStep, DeleteJobStep, ToggleJobStep, HandlerJobStep, MacroJobStep, ExclusiveJobStep,
     StopSessionJobStep, StartSessionJobStep
  DEF AnyJob, HandlerOps, Inv
<1>2. ASSUME \/ \E n : OpenStep(n)
             \/ \E i : DeleteStep(i)
             \/ \E A : RunStep(A)
      PROVE  Uncrossed'
  BY <1>1, <1>2, OpenStepKeeps, DeleteStepKeeps, RunStepKeeps
<1>3. CASE StartJob \/ StopJob \/ ExecuteJob \/ FaultJob \/ SetArgsJob \/ ToggleJob \/ ExclusiveJob
  BY <1>2, <1>3, PlainJobGives
<1>4. CASE CreateJob
  BY <1>2, <1>4, CreateJobGives
<1>5. CASE HandlerJob("undo") \/ HandlerJob("redo")
  BY <1>2, <1>5, HandlerJobGives DEF HandlerOps
<1>6. CASE MacroJob
  BY <1>2, <1>6, MacroJobGives
<1>7. CASE DeleteJob
  <2>1. /\ Delete(It) /\ UNCHANGED aroundVars /\ Head(aq).op = "delete" /\ aq # <<>>
        /\ "delete" \in OnTree /\ "delete" \notin SessionOps \cup {"close", "create"}
    BY <1>7 DEF DeleteJob, Take, OnTree, SessionOps
  <2>2. DeleteStep(It)
    BY <2>1, HeadOK, DeleteGives
  <2>3. QED
    BY <1>2, <2>2
<1>8. CASE CloseJob
  <2>1. /\ aq # <<>> /\ Head(aq).op = "close" /\ posts' = <<>>
        /\ UNCHANGED <<name, tree, detached, strays, core, host, loaded>>
    BY <1>8 DEF CloseJob, Take, Nothing
  <2>2. Closes(It) /\ ~crossed /\ It \in Items
    BY <1>8, <2>1, CloseJobStep, HeadOK DEF Inv
  <2>3. crossed' = crossed
    BY <1>1, <2>2 DEF JobStep, AroundOK, Inv, Types
  <2>a. CloseStep
    BY <2>1, <2>2, <2>3, EmptyPosts DEF CloseStep
  <2>4. QED
    BY <1>1, <2>a, CloseStepKeeps
<1>9. CASE StopSessionJob
  BY <1>1, <1>9, StopSessionGives, GoneStepKeeps
<1>10. CASE StartSessionJob
  BY <1>1, <1>10, StartSessionGives, MadeStepKeeps
<1>11. QED
  BY <1>3, <1>4, <1>5, <1>6, <1>7, <1>8, <1>9, <1>10 DEF AnyJob

-----------------------------------------------------------------------------
(* The steps that leave the plugins alone. *)
stateFrame == <<info, name, core, tree, host, detached, loaded>>

\* The steps that only move jobs.
LEMMA QueueKeepsData ==
  ASSUME DataInv, UNCHANGED stateFrame, strays \subseteq strays',
         \A j \in Pending' : \/ \E i \in Pending : i.op = j.op /\ i.arg = j.arg
                             \/ j.op \notin {"close", "start"} /\ JobOK(j)
                             \/ j.op = "start" /\ j.arg \in strays',
         \A i \in Pending : i.op = "close" => \E j \in Pending' : j.op = i.op /\ j.arg = i.arg,
         \/ loaded = "yes"
         \/ (\E j \in AllJobs' : j.op = "startSession") \/ mpc' \in Leaving =>
              (\E j \in AllJobs : j.op = "startSession") \/ mpc \in Leaving
  PROVE  DataInv'
<1>1. /\ UNCHANGED <<info, name, core, tree, host, detached, loaded>>
      /\ Range(tree') = Range(tree) /\ Range(core') = Range(core)
  BY DEF stateFrame
<1>2. Closing' = Closing
  <2>1. ASSUME NEW x PROVE x \in Closing <=> \E j \in Pending : j.op = "close" /\ j.arg = x
    BY DEF Closing, ClosedBy
  <2>2. ASSUME NEW x PROVE x \in Closing' <=> \E j \in Pending' : j.op = "close" /\ j.arg = x
    BY DEF Closing, ClosedBy
  <2>3. ASSUME NEW x
        PROVE  (\E j \in Pending : j.op = "close" /\ j.arg = x) <=> (\E j \in Pending' : j.op = "close" /\ j.arg = x)
    OBVIOUS
  <2>4. QED
    BY <2>1, <2>2, <2>3
<1>3. Startable \subseteq Startable' /\ strays' \subseteq Startable'
  BY <1>1, <1>2 DEF Startable
<1>4. JobsInv'
  <2>1. ASSUME NEW j, JobOK(j) PROVE JobOK(j)'
    BY <1>1, <1>3, <2>1 DEF JobOK
  <2>2. ASSUME NEW j, NEW i, JobOK(i), i.op = j.op, i.arg = j.arg PROVE JobOK(j)
    BY <2>2 DEF JobOK
  <2>3. ASSUME NEW j, j.op = "start", j.arg \in strays' PROVE JobOK(j)'
    BY <1>3, <2>3 DEF JobOK, OnTree
  <2>4. QED
    BY <2>1, <2>2, <2>3 DEF JobsInv, DataInv
<1>5. (Emptied => Emptied') /\ Opened' = Opened
  BY <1>1 DEF Emptied, Opened
<1>6. GoneInv'
  BY <1>1, <1>5 DEF GoneInv, DataInv
<1>7. LifeInv'
  <2> SUFFICES ASSUME loaded = "yes" PROVE LifeInv!2'
    BY <1>1 DEF LifeInv
  <2>1. LifeInv!2
    BY DEF DataInv, LifeInv
  <2>2. QED
    BY <1>1, <1>2, <2>1
<1>8. ListInv'
  BY <1>1, <1>2, <1>5 DEF ListInv, DataInv
<1>9. info'.again \subseteq strays'
  BY <1>1 DEF DataInv
<1>10. QED
  BY <1>4, <1>6, <1>7, <1>8, <1>9 DEF DataInv

\* A job is appended to the queue of the action thread.
LEMMA CloseInvAppended ==
  ASSUME Inv, CloseInv, NEW e \in Jobs, aq' = Append(aq, e), strays \subseteq strays',
         \A i \in ClosedBy(Range(aq)) : After(e, i, strays'),
         Range(posts') \subseteq Range(posts), e.op = "close" => Range(posts') = {},
         Len(posts') = Len(posts) \/ \A j \in Range(posts') : j.op # "close"
  PROVE  CloseInv'
<1>1. aq \in Seq(Jobs) /\ aq' \in Seq(Jobs) /\ Range(aq') = Range(aq) \cup {e}
  BY RangeOfAppend DEF Inv, Types, QueuesOK
<1> DEFINE n == Len(aq)
<1>2. /\ n \in Nat /\ DOMAIN aq = 1..n /\ DOMAIN aq' = 1..n + 1 /\ aq'[n + 1] = e
      /\ \A k \in 1..n : aq'[k] = aq[k]
  BY <1>1
<1> HIDE DEF n
<1>3. ASSUME NEW k \in DOMAIN aq', NEW l \in DOMAIN aq', aq'[k].op = "close", k < l
      PROVE  After(aq'[l], aq'[k].arg, strays')
  <2>1. k \in 1..n /\ aq'[k] = aq[k] /\ aq[k].arg \in ClosedBy(Range(aq))
    BY <1>2, <1>3 DEF ClosedBy, Range
  <2>2. CASE l = n + 1
    BY <1>2, <2>1, <2>2
  <2>3. CASE l \in 1..n
    <3>1. After(aq[l], aq[k].arg, strays)
      BY <1>2, <1>3, <2>1, <2>3 DEF CloseInv
    <3>2. QED
      BY <1>2, <2>1, <2>3, <3>1, AfterStays
  <2>4. QED
    BY <1>2, <2>2, <2>3
<1>4. ASSUME NEW i \in ClosedBy(Range(aq')), NEW j \in Range(posts') PROVE After(j, i, strays')
  <2>1. e.op # "close"
    BY <1>4
  <2>2. i \in ClosedBy(Range(aq))
    BY <1>1, <1>4, <2>1 DEF ClosedBy
  <2>3. QED
    BY <1>4, <2>2, AfterStays DEF CloseInv
<1>5. \A j \in Range(posts') : j.op = "close" => Len(posts') = 1
  BY DEF CloseInv
<1>6. QED
  BY <1>3, <1>4, <1>5 DEF CloseInv

\* The jobs on plugins wait in the same order.
LEMMA CloseInvStays ==
  ASSUME CloseInv, aq' = aq, posts' = posts, strays \subseteq strays' PROVE CloseInv'
<1>1. ASSUME NEW k \in DOMAIN aq, NEW l \in DOMAIN aq, aq[k].op = "close", k < l
      PROVE  After(aq[l], aq[k].arg, strays')
  BY <1>1, AfterStays DEF CloseInv
<1>2. ASSUME NEW i \in ClosedBy(Range(aq)), NEW j \in Range(posts) PROVE After(j, i, strays')
  BY <1>2, AfterStays DEF CloseInv
<1>3. QED
  BY <1>1, <1>2 DEF CloseInv

\* No session is added.
LEMMA SessionsStay ==
  ASSUME Inv, SessionInv, loaded' = loaded,
         aq' = aq \/ \E e \in Jobs : aq' = Append(aq, e) /\ ~Session(e),
         eq' = eq \/ \E e \in Jobs : eq' = Append(eq, e) /\ ~Session(e)
  PROVE  SessionInv' /\ \A j \in AllJobs' : j \in AllJobs \/ ~Session(j)
<1>1. aq \in Seq(Jobs) /\ eq \in Seq(Jobs)
  BY DEF Inv, Types, QueuesOK
<1>2. /\ Sole(aq', Sessions)
      /\ \A j \in Range(aq') : j \in Range(aq) \/ ~Session(j)
  <2>1. ASSUME NEW e \in Jobs, aq' = Append(aq, e), ~Session(e) PROVE <1>2
    <3>1. e \notin Sessions
      BY <2>1 DEF Sessions
    <3>2. QED
      BY <1>1, <2>1, <3>1, RangeOfAppend, SoleAppend DEF SessionInv
  <2>2. QED
    BY <2>1 DEF SessionInv
<1>3. /\ Sole(eq', Sessions)
      /\ \A j \in Range(eq') : j \in Range(eq) \/ ~Session(j)
  <2>1. ASSUME NEW e \in Jobs, eq' = Append(eq, e), ~Session(e) PROVE <1>3
    <3>1. e \notin Sessions
      BY <2>1 DEF Sessions
    <3>2. QED
      BY <1>1, <2>1, <3>1, RangeOfAppend, SoleAppend DEF SessionInv
  <2>2. QED
    BY <2>1 DEF SessionInv
<1>4. QED
  BY <1>2, <1>3 DEF SessionInv, AllJobs, Session, SessionOps, Sessions

\* What a job leaves goes behind what waits.
LEMMA PostKeepsUncrossed == ASSUME Inv, Uncrossed, Post PROVE Uncrossed'
<1> DEFINE e == Head(posts)
<1>1. /\ posts # <<>> /\ posts' = Tail(posts) /\ aq' = Append(aq, e)
      /\ UNCHANGED <<info, name, core, tree, host, detached, loaded, strays, done, eq, epc, ereply>>
      /\ UNCHANGED <<mpc, mreply, mval, marg, dialogs>>
  BY DEF Post, pluginVars, eventVars, mainVars
<1>2. aq \in Seq(Jobs) /\ posts \in Seq(Jobs) /\ \A j \in Range(posts) : j.op \in PluginOps
  BY DEF Inv, Types, QueuesOK, PostsOK
<1>3. e \in Jobs /\ e \in Range(posts) /\ Range(posts) = {e} \cup Range(posts')
      /\ Len(posts') = Len(posts) - 1 /\ posts' \in Seq(Jobs)
  BY <1>1, <1>2, RangeOfTail
<1>4. e.op \in PluginOps /\ ~Session(e)
  BY <1>2, <1>3 DEF Session, SessionOps, PluginOps
<1> HIDE DEF e
<1>5. Range(aq') = Range(aq) \cup {e} /\ Pending' = Pending
  BY <1>1, <1>2, <1>3, RangeOfAppend DEF Pending
<1>6. SessionInv' /\ \A j \in AllJobs' : j \in AllJobs \/ ~Session(j)
  BY <1>1, <1>3, <1>4, SessionsStay DEF Uncrossed
<1>7. CommandInv' /\ DialogInv'
  BY <1>1, <1>6 DEF Uncrossed, CommandInv, DialogInv, Session, SessionOps
<1>8. DataInv'
  <2>1. (\E j \in AllJobs' : j.op = "startSession") => (\E j \in AllJobs : j.op = "startSession")
    BY <1>6 DEF Session, SessionOps
  <2>2. DataInv /\ UNCHANGED stateFrame /\ strays \subseteq strays'
    BY <1>1 DEF Uncrossed, stateFrame
  <2>3. QED
    BY <1>1, <1>5, <2>1, <2>2, QueueKeepsData
<1>9. CloseInv'
  <2>1. \A i \in ClosedBy(Range(aq)) : After(e, i, strays')
    BY <1>1, <1>3 DEF Uncrossed, CloseInv
  <2>2. (\E j \in Range(posts) : j.op = "close") => Len(posts) = 1
    BY DEF Uncrossed, CloseInv
  <2>3. Len(posts) = 1 => Range(posts') = {}
    <3>1. Len(posts) = 1 => DOMAIN posts' = {}
      BY <1>3
    <3>2. QED
      BY <3>1 DEF Range
  <2>4. /\ e.op = "close" => Range(posts') = {}
        /\ \A j \in Range(posts') : j.op # "close"
        /\ Range(posts') \subseteq Range(posts)
    BY <1>3, <2>2, <2>3
  <2>5. QED
    BY <1>1, <1>3, <2>1, <2>4, CloseInvAppended DEF Uncrossed
<1>10. QED
  BY <1>6, <1>7, <1>8, <1>9 DEF Uncrossed

\* The same jobs wait.
LEMMA SameJobs ==
  ASSUME Inv, Uncrossed, UNCHANGED stateFrame, UNCHANGED <<strays, aq, posts>>,
         eq' = eq \/ \E e \in Jobs : eq' = Append(eq, e) /\ ~Session(e),
         loaded = "yes" \/ (mpc' \in Leaving => mpc \in Leaving)
  PROVE  SessionInv' /\ CloseInv' /\ DataInv' /\ \A j \in AllJobs' : j \in AllJobs \/ ~Session(j)
<1>1. loaded' = loaded /\ aq' = aq /\ posts' = posts /\ strays' = strays
  BY DEF stateFrame
<1>2. SessionInv' /\ \A j \in AllJobs' : j \in AllJobs \/ ~Session(j)
  BY <1>1, SessionsStay DEF Uncrossed
<1>3. CloseInv'
  BY <1>1, CloseInvStays DEF Uncrossed
<1>4. Pending' = Pending
  BY <1>1 DEF Pending
<1>5. (\E j \in AllJobs' : j.op = "startSession") => (\E j \in AllJobs : j.op = "startSession")
  BY <1>2 DEF Session, SessionOps
<1>6. DataInv /\ strays \subseteq strays'
  BY <1>1 DEF Uncrossed
<1>7. DataInv'
  BY <1>4, <1>5, <1>6, QueueKeepsData
<1>8. QED
  BY <1>2, <1>3, <1>7

\* The answer is on its way.
LEMMA AnswerKeepsUncrossed == ASSUME Inv, Uncrossed, Answer PROVE Uncrossed'
<1>1. /\ UNCHANGED <<info, name, core, tree, host, detached, loaded, strays, aq, posts, eq, epc, mpc, marg, dialogs>>
      /\ done.by # "nobody" /\ done'.by = "nobody"
      /\ \/ /\ done.by = "main" /\ mreply' = (IF done.ok THEN "ok" ELSE "raised") /\ mval' = done.val
            /\ ereply' = ereply
         \/ /\ done.by = "event" /\ ereply' = (IF done.ok THEN "ok" ELSE "raised")
            /\ UNCHANGED <<mreply, mval>>
  <2>1. done.by \in {"main", "event", "nobody"}
    BY DEF Inv, Types, ControlOK, Answers, Callers
  <2>2. QED
    BY <2>1 DEF Answer, pluginVars, NobodyWaits
<1>2. SessionInv' /\ CloseInv' /\ DataInv' /\ AllJobs' = AllJobs
  BY <1>1, SameJobs DEF stateFrame, AllJobs
<1>3. done.by = "main" => mpc \in AskPcs
  BY DEF Inv, MainInv
<1>4. CommandInv'
  BY <1>1, <1>2, <1>3 DEF Uncrossed, CommandInv, AskPcs
<1>5. DialogInv'
  BY <1>1 DEF Uncrossed, DialogInv
<1>6. QED
  BY <1>2, <1>4, <1>5 DEF Uncrossed

\* The event thread goes on.
LEMMA SessionAnsweredKeepsUncrossed == ASSUME Inv, Uncrossed, SessionAnswered PROVE Uncrossed'
<1>1. /\ UNCHANGED <<info, name, core, tree, host, detached, loaded, strays, aq, posts, eq, done, mpc>>
      /\ UNCHANGED <<marg, dialogs, mval>>
      /\ ereply # "none" /\ ereply' = "none" /\ epc' = "idle"
      /\ mreply' = IF epc = "stopping" THEN ereply ELSE mreply
  BY DEF SessionAnswered, eventSame, pluginVars
<1>2. SessionInv' /\ CloseInv' /\ DataInv' /\ AllJobs' = AllJobs
  BY <1>1, SameJobs DEF stateFrame, AllJobs
<1>3. epc = "stopping" => mpc = "unload"
  BY DEF Inv, UnloadInv
<1>4. CommandInv'
  BY <1>1, <1>2, <1>3 DEF Uncrossed, CommandInv
<1>5. DialogInv'
  BY <1>1, <1>3 DEF Uncrossed, DialogInv
<1>6. QED
  BY <1>2, <1>4, <1>5 DEF Uncrossed

\* The job stays where it is, for nobody.
LEMMA TimeOutKeepsUncrossed == ASSUME Inv, Uncrossed, TimeOut PROVE Uncrossed'
<1>1. /\ UNCHANGED <<info, name, core, tree, host, detached, loaded, strays, posts, eq, ereply, mpc>>
      /\ UNCHANGED <<marg, dialogs, mval>>
      /\ epc' = "idle" /\ (done' = done \/ done' = NobodyWaits)
      /\ mreply' = IF epc = "stopping" THEN "raised" ELSE mreply
  BY DEF TimeOut, pluginVars
<1>2. /\ aq' \in Seq(Jobs) /\ DOMAIN aq' = DOMAIN aq
      /\ \A k \in DOMAIN aq : aq'[k].op = aq[k].op /\ aq'[k].arg = aq[k].arg
  BY TimeOutJobs
<1>3. aq \in Seq(Jobs) /\ eq \in Seq(Jobs)
  BY DEF Inv, Types, QueuesOK
<1>4. /\ \A j \in Range(aq') : \E i \in Range(aq) : i.op = j.op /\ i.arg = j.arg
      /\ \A i \in Range(aq) : \E j \in Range(aq') : j.op = i.op /\ j.arg = i.arg
  BY <1>2 DEF Range
<1>5. \A j \in AllJobs' : \E i \in AllJobs : i.op = j.op /\ i.arg = j.arg
  BY <1>1, <1>4 DEF AllJobs
<1>6. SessionInv'
  <2>1. \A k \in DOMAIN aq : aq'[k] \in Sessions <=> aq[k] \in Sessions
    <3>1. \A k \in DOMAIN aq : aq[k] \in Jobs /\ aq'[k] \in Jobs
      BY <1>2, <1>3
    <3>2. QED
      BY <1>2, <3>1 DEF Sessions, Session
  <2>2. Sole(aq', Sessions)
    BY <1>2, <2>1 DEF Uncrossed, SessionInv, Sole
  <2>3. Range(aq') \cap Sessions = {} \/ Range(eq') \cap Sessions = {}
    BY <1>1, <1>2, <2>1 DEF Uncrossed, SessionInv, Range
  <2>4. QED
    BY <1>1, <1>5, <2>2, <2>3 DEF Uncrossed, SessionInv
<1>7. CommandInv'
  BY <1>1, <1>5 DEF Uncrossed, CommandInv, NobodyWaits
<1>8. DialogInv'
  BY <1>1 DEF Uncrossed, DialogInv, NobodyWaits
<1>9. CloseInv'
  <2>1. ClosedBy(Range(aq')) = ClosedBy(Range(aq))
    <3>1. ASSUME NEW x PROVE x \in ClosedBy(Range(aq')) <=> x \in ClosedBy(Range(aq))
      BY <1>4 DEF ClosedBy
    <3>2. QED
      BY <3>1
  <2>2. ASSUME NEW k \in DOMAIN aq', NEW l \in DOMAIN aq', aq'[k].op = "close", k < l
        PROVE  After(aq'[l], aq'[k].arg, strays')
    <3>1. After(aq[l], aq[k].arg, strays)
      BY <1>2, <2>2 DEF Uncrossed, CloseInv
    <3>2. QED
      BY <1>1, <1>2, <2>2, <3>1 DEF After
  <2>3. QED
    BY <1>1, <2>1, <2>2 DEF Uncrossed, CloseInv
<1>10. DataInv'
  <2>1. /\ \A j \in Pending' : \E i \in Pending : i.op = j.op /\ i.arg = j.arg
        /\ \A i \in Pending : \E j \in Pending' : j.op = i.op /\ j.arg = i.arg
    BY <1>1, <1>4 DEF Pending
  <2>2. DataInv /\ UNCHANGED stateFrame /\ strays \subseteq strays'
    BY <1>1 DEF Uncrossed, stateFrame
  <2>3. QED
    BY <1>1, <1>5, <2>1, <2>2, QueueKeepsData
<1>11. QED
  BY <1>6, <1>7, <1>8, <1>9, <1>10 DEF Uncrossed

\* A change of sessions goes from one queue to the other.
LEMMA TakeEventKeepsUncrossed == ASSUME Inv, Uncrossed, TakeEvent PROVE Uncrossed'
<1> DEFINE j == Head(eq)
<1>1. /\ epc = "idle" /\ eq # <<>> /\ eq' = Tail(eq)
      /\ UNCHANGED <<info, name, core, tree, host, detached, loaded, strays, posts, done>>
      /\ UNCHANGED <<mpc, mreply, mval, marg, dialogs, ereply>>
  BY DEF TakeEvent, eventSame, pluginVars
<1>2. aq \in Seq(Jobs) /\ eq \in Seq(Jobs)
  BY DEF Inv, Types, QueuesOK
<1>3. /\ Tail(eq) \in Seq(Jobs) /\ j \in Jobs /\ j \in Range(eq) /\ Range(eq) = {j} \cup Range(eq')
      /\ Sole(eq', Sessions) /\ (j \in Sessions => Range(eq') \cap Sessions = {})
  BY <1>1, <1>2, RangeOfTail, SoleTail DEF Uncrossed, SessionInv
<1>4. done.by # "event" /\ ereply = "none"
  BY <1>1 DEF Inv, EventInv, Types, ControlOK
<1>5. \/ \E e \in Jobs : /\ aq' = Append(aq, e) /\ e.op = j.op /\ j.op \in SessionOps
                         /\ epc' = (IF e.op = "stopSession" THEN "stopping" ELSE "starting")
      \/ \E e \in Jobs : aq' = Append(aq, e) /\ e.op = "macro" /\ ~Session(j) /\ epc' = epc
      \/ aq' = aq /\ ~Session(j) /\ epc' = "ended"
  <2>1. CASE j.op = "stopSession" /\ epc' = "stopping" /\ aq' = Append(aq, Job("stopSession", 0, "event"))
    <3> DEFINE e == Job("stopSession", 0, "event")
    <3>1. e \in Jobs /\ e.op = "stopSession"
      BY OtherJobs DEF Callers, Job
    <3>2. aq' = Append(aq, e)
      BY <2>1
    <3> HIDE DEF e
    <3>3. QED
      BY <2>1, <3>1, <3>2 DEF SessionOps
  <2>2. CASE j.op = "startSession" /\ epc' = "starting" /\ aq' = Append(aq, Job("startSession", j.arg, "event"))
    <3> DEFINE e == Job("startSession", j.arg, "event")
    <3>1. j.arg \in Files
      BY <1>3, <2>2 DEF Inv, Types, QueuesOK, ForEvents, IsJob
    <3>2. e \in Jobs /\ e.op = "startSession"
      BY <3>1, SessionJobs DEF Callers, Job
    <3>3. aq' = Append(aq, e)
      BY <2>2
    <3> HIDE DEF e
    <3>4. QED
      BY <2>2, <3>2, <3>3 DEF SessionOps
  <2>3. CASE j.op = "event" /\ aq' = Append(aq, Job("macro", 0, "nobody")) /\ UNCHANGED epc
    <3> DEFINE e == Job("macro", 0, "nobody")
    <3>1. e \in Jobs /\ e.op = "macro"
      BY OtherJobs DEF Callers, Job
    <3>2. aq' = Append(aq, e)
      BY <2>3
    <3> HIDE DEF e
    <3>3. QED
      BY <2>3, <3>1, <3>2 DEF Session, SessionOps
  <2>4. CASE j.op = "quit" /\ epc' = "ended" /\ UNCHANGED aq
    BY <2>4 DEF Session, SessionOps
  <2>5. QED
    BY <2>1, <2>2, <2>3, <2>4 DEF TakeEvent
<1> HIDE DEF j
<1>6. /\ \A i \in AllJobs' : (\E k \in AllJobs : k.op = i.op) \/ ~Session(i)
      /\ Sole(aq', Sessions)
      /\ Range(aq') \cap Sessions = {} \/ Range(eq') \cap Sessions = {}
      /\ epc' = "stopping" => j.op = "stopSession"
  <2>1. CASE \E e \in Jobs : /\ aq' = Append(aq, e) /\ e.op = j.op /\ j.op \in SessionOps
                             /\ epc' = (IF e.op = "stopSession" THEN "stopping" ELSE "starting")
    <3>1. PICK e \in Jobs : /\ aq' = Append(aq, e) /\ e.op = j.op /\ j.op \in SessionOps
                            /\ epc' = (IF e.op = "stopSession" THEN "stopping" ELSE "starting")
      BY <2>1
    <3>2. Range(aq') = Range(aq) \cup {e}
      BY <1>2, <3>1, RangeOfAppend
    <3>3. j \in Sessions
      BY <1>3, <3>1 DEF Sessions, Session
    <3>4. Range(aq) \cap Sessions = {} /\ Range(eq') \cap Sessions = {}
      BY <1>3, <3>3 DEF Uncrossed, SessionInv
    <3>5. Sole(aq', Sessions)
      BY <1>2, <3>1, <3>4, SoleAppend DEF Uncrossed, SessionInv
    <3>6. QED
      BY <1>3, <3>1, <3>2, <3>4, <3>5 DEF AllJobs
  <2>2. CASE \E e \in Jobs : aq' = Append(aq, e) /\ e.op = "macro" /\ ~Session(j) /\ epc' = epc
    <3>1. PICK e \in Jobs : aq' = Append(aq, e) /\ e.op = "macro" /\ epc' = epc
      BY <2>2
    <3>2. e \notin Sessions /\ ~Session(e)
      BY <3>1 DEF Sessions, Session, SessionOps
    <3>3. Range(aq') = Range(aq) \cup {e} /\ Sole(aq', Sessions)
      BY <1>2, <3>1, <3>2, RangeOfAppend, SoleAppend DEF Uncrossed, SessionInv
    <3>4. QED
      BY <1>1, <1>3, <3>1, <3>2, <3>3 DEF Uncrossed, SessionInv, AllJobs
  <2>3. CASE aq' = aq /\ ~Session(j) /\ epc' = "ended"
    BY <1>3, <2>3 DEF Uncrossed, SessionInv, AllJobs
  <2>4. QED
    BY <1>5, <2>1, <2>2, <2>3
<1>7. \A i \in AllJobs' : i.op \in SessionOps => \E k \in AllJobs : k.op = i.op
  BY <1>6 DEF Session
<1>8. SessionInv'
  BY <1>1, <1>3, <1>6, <1>7 DEF Uncrossed, SessionInv, SessionOps
<1>9. CommandInv' /\ DialogInv'
  BY <1>1, <1>4, <1>7 DEF Uncrossed, CommandInv, DialogInv, SessionOps
<1>10. aq' = aq \/ \E e \in Jobs : aq' = Append(aq, e) /\ e.op \in SessionOps \cup {"macro"}
  BY <1>5
<1>11. CloseInv' /\ DataInv'
  <2>1. DataInv /\ UNCHANGED stateFrame /\ strays \subseteq strays'
    BY <1>1 DEF Uncrossed, stateFrame
  <2>2. (\E i \in AllJobs' : i.op = "startSession") => (\E i \in AllJobs : i.op = "startSession")
    BY <1>7 DEF SessionOps
  <2>3. CASE aq' = aq
    <3>1. Pending' = Pending
      BY <1>1, <2>3 DEF Pending
    <3>2. QED
      BY <1>1, <2>1, <2>2, <2>3, <3>1, QueueKeepsData, CloseInvStays DEF Uncrossed
  <2>4. ASSUME NEW e \in Jobs, aq' = Append(aq, e), e.op \in SessionOps \cup {"macro"}
        PROVE  CloseInv' /\ DataInv'
    <3>1. Range(aq') = Range(aq) \cup {e} /\ Pending' = Pending \cup {e}
      BY <1>1, <1>2, <2>4, RangeOfAppend DEF Pending
    <3>2. e.op \notin PluginOps \cup OnTree \cup {"close", "start"}
      BY <2>4 DEF SessionOps, PluginOps, OnTree
    <3>3. JobOK(e)
      BY <3>2 DEF JobOK
    <3>4. \A i : After(e, i, strays')
      BY <3>2 DEF After
    <3>5. CloseInv'
      BY <1>1, <2>4, <3>2, <3>4, CloseInvAppended DEF Uncrossed
    <3>6. QED
      BY <1>1, <2>1, <2>2, <3>1, <3>2, <3>3, <3>5, QueueKeepsData
  <2>5. QED
    BY <1>10, <2>3, <2>4
<1>12. QED
  BY <1>8, <1>9, <1>11 DEF Uncrossed

\* A job that does not start or close a plugin waits behind the others.
LEMMA DataAppended ==
  ASSUME Inv, Uncrossed, UNCHANGED stateFrame, strays \subseteq strays', posts' = posts,
         NEW e \in Jobs, aq' = Append(aq, e),
         \/ e.op \notin {"close", "start"} /\ JobOK(e)
         \/ e.op = "start" /\ e.arg \in strays',
         \/ loaded = "yes"
         \/ (\E j \in AllJobs' : j.op = "startSession") \/ mpc' \in Leaving =>
              (\E j \in AllJobs : j.op = "startSession") \/ mpc \in Leaving
  PROVE  DataInv' /\ CloseInv'
<1>1. Range(aq') = Range(aq) \cup {e} /\ Pending' = Pending \cup {e}
  BY RangeOfAppend DEF Pending, Inv, Types, QueuesOK
<1>2. \A i : After(e, i, strays')
  BY DEF After
<1>3. CloseInv'
  BY <1>2, CloseInvAppended DEF Uncrossed
<1>4. DataInv'
  BY <1>1, QueueKeepsData DEF Uncrossed
<1>5. QED
  BY <1>3, <1>4

\* A command that crosses nothing finds the session settled and no dialog shown.
LEMMA SettledCommand ==
  ASSUME ~crossed', Commanded, crossed' = (crossed \/ ~Settled)
  PROVE  Settled /\ mpc = "idle" /\ UNCHANGED <<dialogs, mreply, mval>>
<1> DEFINE calm == Settled
<1>1. ~crossed' /\ crossed' = (crossed \/ ~calm)
  OBVIOUS
<1> HIDE DEF calm
<1>2. calm
  BY <1>1
<1>3. QED
  BY <1>2 DEF calm, Commanded, Settled

\* The user's commands: the session is settled, and the main thread waits.
LEMMA AskKeepsUncrossed ==
  ASSUME Inv, Uncrossed, ~crossed', NEW j \in Jobs, j.by = "main",
         NEW pc, <<pc, j.op>> \in AskedFor, pc # "setup", NEW h, Ask(j, pc, h),
         j.op \in OnTree => j.arg \in Range(tree)
  PROVE  Uncrossed'
<1>1. /\ UNCHANGED <<info, name, core, tree, host, detached, loaded, strays, posts, done, epc, ereply>>
      /\ mpc = "idle" /\ aq' = Append(aq, j) /\ mpc' = pc /\ Settled
      /\ UNCHANGED <<eq, mreply, mval>>
  BY SettledCommand DEF Ask, AskAnyway, mainSame, pluginVars
<1>2. /\ loaded = "yes" /\ aq \in Seq(Jobs)
      /\ \A i \in AllJobs : ~Session(i)
  BY <1>1 DEF Settled, AllJobs, Range, Inv, Types, QueuesOK
<1>3. mreply = "none" /\ done.by # "main"
  BY <1>1 DEF Inv, Types, ControlOK, MainInv, AskPcs
<1>4. pc \in AskPcs /\ (pc = "exit" <=> j.op = "stopSession") /\ j.op \notin {"close", "start", "startSession"}
  BY DEF AskedFor, AskPcs
<1>5. Range(aq') = Range(aq) \cup {j} /\ AllJobs' = AllJobs \cup {j}
  BY <1>1, <1>2, RangeOfAppend DEF AllJobs
<1>6. SessionInv'
  <2>1. Range(aq) \cap Sessions = {} /\ Range(eq') \cap Sessions = {}
    BY <1>1, <1>2 DEF AllJobs, Sessions
  <2>2. Sole(aq', Sessions)
    BY <1>1, <1>2, <2>1, SoleAppend DEF Uncrossed, SessionInv
  <2>3. QED
    BY <1>1, <1>2, <1>4, <1>5, <2>1, <2>2 DEF Uncrossed, SessionInv
<1>7. CommandInv'
  BY <1>1, <1>2, <1>3, <1>4, <1>5 DEF CommandInv, InSession, Leaving, AskPcs, Session, SessionOps
<1>8. DialogInv'
  BY <1>1, <1>3 DEF DialogInv
<1>9. JobOK(j)
  BY <1>2, <1>4 DEF JobOK
<1>10. DataInv' /\ CloseInv'
  BY <1>1, <1>2, <1>4, <1>9, DataAppended DEF stateFrame
<1>11. QED
  BY <1>6, <1>7, <1>8, <1>10 DEF Uncrossed

\* The end of the session is asked for.
LEMMA OpenFileKeepsUncrossed ==
  ASSUME Inv, Uncrossed, ~crossed', NEW f \in Files, OpenFile(f) PROVE Uncrossed'
<1> DEFINE j == Job("stopSession", 0, "main")
<1>1. j \in Jobs /\ j.op = "stopSession"
  BY OtherJobs DEF Callers, Job
<1>2. /\ UNCHANGED <<info, name, core, tree, host, detached, loaded, strays, posts, done, epc, ereply>>
      /\ mpc = "idle" /\ eq' = Append(eq, j) /\ mpc' = "unload" /\ Settled
      /\ UNCHANGED <<aq, mreply, mval>>
  BY SettledCommand DEF OpenFile, mainSame, pluginVars
<1> HIDE DEF j
<1>3. /\ loaded = "yes" /\ eq \in Seq(Jobs) /\ epc # "stopping"
      /\ \A i \in AllJobs : ~Session(i)
  BY <1>2 DEF Settled, AllJobs, Range, Inv, Types, QueuesOK
<1>4. mreply = "none"
  BY <1>2 DEF Inv, Types, ControlOK
<1>5. Range(eq') = Range(eq) \cup {j} /\ AllJobs' = AllJobs \cup {j}
  BY <1>1, <1>2, <1>3, RangeOfAppend DEF AllJobs
<1>6. SessionInv'
  <2>1. Range(eq) \cap Sessions = {} /\ Range(aq') \cap Sessions = {}
    BY <1>2, <1>3 DEF AllJobs, Sessions
  <2>2. Sole(eq', Sessions)
    BY <1>1, <1>2, <1>3, <2>1, SoleAppend DEF Uncrossed, SessionInv
  <2>3. QED
    BY <1>1, <1>2, <1>3, <1>5, <2>1, <2>2 DEF Uncrossed, SessionInv
<1>7. CommandInv'
  BY <1>1, <1>2, <1>3, <1>4, <1>5 DEF CommandInv, InSession, AskPcs, Session, SessionOps
<1>8. DialogInv'
  BY <1>2 DEF DialogInv
<1>9. CloseInv'
  BY <1>2, CloseInvStays DEF Uncrossed
<1>10. Pending' = Pending /\ UNCHANGED stateFrame /\ strays \subseteq strays' /\ DataInv
  BY <1>2 DEF Pending, stateFrame, Uncrossed
<1>11. DataInv'
  BY <1>3, <1>10, QueueKeepsData
<1>12. QED
  BY <1>6, <1>7, <1>8, <1>9, <1>11 DEF Uncrossed

\* The other commands, given in a session that is settled.
LEMMA CommandKeepsUncrossed == ASSUME Inv, Uncrossed, ~crossed', Command PROVE Uncrossed'
<1>1. ASSUME NEW op \in {"create", "stopSession"}, NEW pc, <<pc, op>> \in AskedFor,
             Ask(Job(op, 0, "main"), pc, NoHandler)
      PROVE  Uncrossed'
  <2> DEFINE j == Job(op, 0, "main")
  <2>1. j \in Jobs /\ j.op = op /\ j.by = "main"
    BY OtherJobs DEF Callers, Job
  <2>2. Ask(j, pc, NoHandler)
    BY <1>1
  <2> HIDE DEF j
  <2>3. j.op \notin OnTree /\ pc # "setup" /\ <<pc, j.op>> \in AskedFor
    BY <1>1, <2>1 DEF OnTree, AskedFor
  <2>4. QED
    BY <2>1, <2>2, <2>3, AskKeepsUncrossed
<1>2. ASSUME NEW op \in {"delete", "toggle", "setArgs"}, NEW k \in DOMAIN tree, NEW h,
             Ask(Job(op, tree[k], "main"), "edit", h)
      PROVE  Uncrossed'
  <2> DEFINE i == tree[k]
             j == Job(op, i, "main")
  <2>1. i \in Range(tree) /\ i \in Items
    BY DEF Range, Inv, Types, ItemsOK
  <2>2. Ask(j, "edit", h)
    BY <1>2
  <2> HIDE DEF i
  <2>3. j \in Jobs /\ j.op = op /\ j.by = "main" /\ j.arg = i
    BY <2>1, ItemJobs DEF PluginOps, Callers, Job
  <2> HIDE DEF j
  <2>4. <<"edit", j.op>> \in AskedFor
    BY <2>3 DEF AskedFor
  <2>5. QED
    BY <2>1, <2>2, <2>3, <2>4, AskKeepsUncrossed
<1>3. ASSUME NEW op \in HandlerOps, NEW h \in Handlers, Ask(Job(op, h, "main"), op, NoHandler)
      PROVE  Uncrossed'
  <2> DEFINE j == Job(op, h, "main")
  <2>1. j \in Jobs /\ j.by = "main" /\ j.op = op
    BY HandlerJobs DEF Callers, Job
  <2>2. Ask(j, op, NoHandler)
    BY <1>3
  <2> HIDE DEF j
  <2>3. j.op \notin OnTree /\ op # "setup" /\ <<op, j.op>> \in AskedFor
    BY <1>3, <2>1 DEF OnTree, AskedFor, HandlerOps
  <2>4. QED
    BY <2>1, <2>2, <2>3, AskKeepsUncrossed
<1>4. ASSUME NEW s \in Seq(Handlers), s # <<>> PROVE Last(s) \in Handlers
  BY <1>4 DEF Last
<1>5. CASE Undo
  <2>1. Last(stockUndo) \in Handlers
    BY <1>4, <1>5 DEF Undo, Inv, Types, AroundOK
  <2>2. QED
    BY <1>3, <1>5, <2>1 DEF Undo, HandlerOps
<1>6. CASE Redo
  <2>1. Last(stockRedo) \in Handlers
    BY <1>4, <1>6 DEF Redo, Inv, Types, AroundOK
  <2>2. QED
    BY <1>3, <1>6, <2>1 DEF Redo, HandlerOps
<1>7. ASSUME NEW k \in DOMAIN tree, Edit(k) PROVE Uncrossed'
  BY <1>2, <1>7 DEF Edit
<1>8. <<"create", "create">> \in AskedFor /\ <<"exit", "stopSession">> \in AskedFor
  BY DEF AskedFor
<1>9. ~(\E i \in DOMAIN name : EditLeft(i))
  BY DEF EditLeft
<1>10. QED
  BY <1>1, <1>5, <1>6, <1>7, <1>8, <1>9, OpenFileKeepsUncrossed DEF Command, AddPlugin, Exit

\* The main thread goes on with the answer it got.
LEMMA GotKeepsUncrossed ==
  ASSUME Inv, Uncrossed, UNCHANGED mainFrame, mreply # "none", mreply' = "none",
         mpc' \in {"idle", "setup", "ended", "stuck"},
         mpc' = "setup" => mpc = "create" /\ marg'.item \in Range(tree) \cup detached,
         mpc' \in {"ended", "stuck"} => mpc = "exit",
         mpc' = "ended" => mreply = "ok",
         \/ aq' = aq
         \/ \E j \in Jobs : aq' = Append(aq, j) /\ ~Session(j) /\ j.op \notin {"close", "start"} /\ JobOK(j),
         eq' = eq \/ \E j \in Jobs : eq' = Append(eq, j) /\ ~Session(j)
  PROVE  Uncrossed'
<1>1. UNCHANGED <<info, name, core, tree, host, detached, loaded, strays, posts, done, epc, ereply>>
  BY DEF mainFrame
<1>2. SessionInv' /\ \A j \in AllJobs' : j \in AllJobs \/ ~Session(j)
  BY <1>1, SessionsStay DEF Uncrossed
<1>3. CommandInv'
  BY <1>1, <1>2 DEF Uncrossed, CommandInv, InSession, AskPcs, Leaving, Session, SessionOps
<1>4. DialogInv'
  BY <1>1 DEF DialogInv
<1>5. /\ mpc' \in Leaving => mpc \in Leaving
      /\ (\E j \in AllJobs' : j.op = "startSession") => (\E j \in AllJobs : j.op = "startSession")
  BY <1>2 DEF Leaving, Session, SessionOps
<1>6. UNCHANGED stateFrame /\ strays \subseteq strays' /\ posts' = posts
  BY <1>1 DEF stateFrame
<1>7. DataInv' /\ CloseInv'
  <2>1. CASE aq' = aq
    <3>1. Pending' = Pending /\ DataInv
      BY <1>6, <2>1 DEF Pending, Uncrossed
    <3>2. QED
      BY <1>5, <1>6, <2>1, <3>1, QueueKeepsData, CloseInvStays DEF Uncrossed
  <2>2. CASE \E j \in Jobs : aq' = Append(aq, j) /\ j.op \notin {"close", "start"} /\ JobOK(j)
    BY <1>5, <1>6, <2>2, DataAppended
  <2>3. QED
    BY <2>1, <2>2
<1>8. QED
  BY <1>2, <1>3, <1>4, <1>7 DEF Uncrossed

\* A job on a plugin of the tree that is appended after a dialog.
LEMMA DialogJobs ==
  ASSUME Inv, loaded = "yes", NEW i \in Items, i \in Range(tree) \cup detached,
         NEW op \in {"execute", "setArgs", "delete"}, NEW by \in Callers
  PROVE  LET j == Job(op, i, by)
         IN j \in Jobs /\ ~Session(j) /\ j.op \notin {"close", "start"} /\ JobOK(j)
<1> DEFINE j == Job(op, i, by)
<1>1. j \in Jobs /\ j.op = op /\ j.arg = i
  BY ItemJobs DEF PluginOps, Job
<1> HIDE DEF j
<1>2. ~Session(j) /\ j.op \notin {"close", "start"} /\ JobOK(j)
  BY <1>1 DEF Session, SessionOps, JobOK
<1>3. QED
  BY <1>1, <1>2 DEF j

\* The next session is asked for when the last one is gone.
LEMMA UnloadedKeepsUncrossed == ASSUME Inv, Uncrossed, Unloaded PROVE Uncrossed'
<1>1. /\ UNCHANGED mainFrame /\ UNCHANGED <<crossed, aq>> /\ mpc = "unload" /\ mreply # "none"
      /\ mreply' = "none" /\ mpc' = "idle" /\ marg.kind \in Files
  BY GotFrame DEF Unloaded, Inv, UnloadInv
<1>2. CASE mreply # "ok"
  <2>1. eq' = eq
    BY <1>2 DEF Unloaded
  <2>2. QED
    BY <1>1, <2>1, GotKeepsUncrossed
<1>3. CASE mreply = "ok"
  <2> DEFINE j == Job("startSession", marg.kind, "nobody")
  <2>1. j \in Jobs /\ j.op = "startSession"
    BY <1>1, SessionJobs DEF Callers, Job
  <2>2. eq' = Append(eq, j)
    BY <1>3 DEF Unloaded
  <2> HIDE DEF j
  <2>3. UNCHANGED <<info, name, core, tree, host, detached, loaded, strays, posts, done, epc, ereply>>
    BY <1>1 DEF mainFrame
  <2>4. loaded # "yes" /\ \A i \in AllJobs : i.op \notin SessionOps
    BY <1>1, <1>3 DEF Uncrossed, CommandInv, SessionInv, SessionOps, Leaving
  <2>5. eq \in Seq(Jobs) /\ aq \in Seq(Jobs)
    BY DEF Inv, Types, QueuesOK
  <2>6. Range(eq') = Range(eq) \cup {j} /\ AllJobs' = AllJobs \cup {j}
    BY <1>1, <2>1, <2>2, <2>5, RangeOfAppend DEF AllJobs
  <2>7. SessionInv'
    <3>1. Range(eq) \cap Sessions = {} /\ Range(aq') \cap Sessions = {}
      BY <1>1, <2>4 DEF AllJobs, Sessions, Session
    <3>2. Sole(eq', Sessions)
      BY <2>1, <2>2, <2>5, <3>1, SoleAppend DEF Uncrossed, SessionInv
    <3>3. QED
      BY <1>1, <2>1, <2>3, <2>4, <2>6, <3>1, <3>2 DEF Uncrossed, SessionInv
  <2>8. CommandInv' /\ DialogInv'
    BY <1>1 DEF CommandInv, DialogInv, InSession, AskPcs, Leaving
  <2>9. CloseInv'
    BY <1>1, <2>3, CloseInvStays DEF Uncrossed
  <2>10. Pending' = Pending /\ UNCHANGED stateFrame /\ strays \subseteq strays' /\ DataInv
    BY <1>1, <2>3 DEF Pending, stateFrame, Uncrossed
  <2>11. mpc \in Leaving
    BY <1>1 DEF Leaving
  <2>12. DataInv'
    BY <2>10, <2>11, QueueKeepsData
  <2>13. QED
    BY <2>7, <2>8, <2>9, <2>12 DEF Uncrossed
<1>4. QED
  BY <1>2, <1>3

\* NewPlugin.Do goes on with an item of the tree.
LEMMA CreatedKeepsUncrossed == ASSUME Inv, Uncrossed, Created PROVE Uncrossed'
<1>1. /\ UNCHANGED mainFrame /\ mpc = "create" /\ mreply # "none" /\ mreply' = "none" /\ eq' = eq
  BY DEF Created, mainSame, pluginVars, mainFrame
<1>2. loaded = "yes"
  BY <1>1 DEF Uncrossed, CommandInv, InSession, AskPcs
<1>3. ASSUME mreply = "ok" PROVE mval.item \in Items /\ mval.item \in Range(tree) \cup detached
  BY <1>1, <1>2, <1>3 DEF Inv, ValueInv, Uncrossed, DialogInv
<1> DEFINE i == mval.item
<1>4. ASSUME mreply = "ok", NEW op \in {"execute", "setArgs", "delete"}, NEW by \in Callers,
             aq' = Append(aq, Job(op, i, by)),
             mpc' = "idle" \/ (mpc' = "setup" /\ marg' = mval)
      PROVE  Uncrossed'
  <2> DEFINE j == Job(op, i, by)
  <2>1. i \in Items /\ i \in Range(tree) \cup detached
    BY <1>3, <1>4
  <2>2. mpc' = "setup" => marg'.item \in Range(tree) \cup detached
    BY <2>1, <1>4
  <2> HIDE DEF i
  <2>3. j \in Jobs /\ ~Session(j) /\ j.op \notin {"close", "start"} /\ JobOK(j)
    BY <1>2, <2>1, DialogJobs
  <2>4. aq' = Append(aq, j)
    BY <1>4
  <2> HIDE DEF j
  <2>5. QED
    BY <1>1, <1>4, <2>2, <2>3, <2>4, GotKeepsUncrossed
<1>5. CASE aq' = aq /\ mpc' = "idle"
  BY <1>1, <1>5, GotKeepsUncrossed
<1> HIDE DEF i
<1>6. \/ aq' = aq /\ mpc' = "idle"
      \/ /\ mreply = "ok" /\ mpc' = "idle"
         /\ aq' = Append(aq, Job("execute", i, "nobody")) \/ aq' = Append(aq, Job("delete", i, "nobody"))
      \/ /\ mreply = "ok" /\ mpc' = "setup" /\ marg' = mval /\ aq' = Append(aq, Job("setArgs", i, "main"))
  BY DEF Created, i
<1>7. "nobody" \in Callers /\ "main" \in Callers
  BY DEF Callers
<1>8. QED
  BY <1>4, <1>5, <1>6, <1>7

\* NewPlugin.Do after the first configuration.
LEMMA SetUpKeepsUncrossed == ASSUME Inv, Uncrossed, SetUp PROVE Uncrossed'
<1>1. UNCHANGED mainFrame /\ mpc = "setup" /\ mreply # "none" /\ eq' = eq
  BY DEF SetUp, mainSame, pluginVars, mainFrame
<1>2. loaded = "yes"
  BY <1>1 DEF Uncrossed, CommandInv, InSession, AskPcs
<1> DEFINE i == marg.item
           j == Job("execute", i, "nobody")
<1>3. i \in Items /\ i \in Range(tree) \cup detached
  BY <1>1, <1>2 DEF Inv, ValueInv, Uncrossed, DialogInv
<1>4. \/ mpc' = "idle" /\ mreply' = "none" /\ (aq' = aq \/ aq' = Append(aq, j))
      \/ /\ mpc' = "create" /\ mreply' = "ok" /\ mval' = marg
         /\ UNCHANGED <<aq, stockUndo, stockRedo>>
  BY DEF SetUp
<1>5. CASE mpc' = "create" /\ mreply' = "ok" /\ mval' = marg /\ aq' = aq
  <2>1. /\ UNCHANGED <<info, name, core, tree, host, detached, loaded, strays, posts, done, aq>>
        /\ UNCHANGED stateFrame /\ AllJobs' = AllJobs /\ done.by # "main"
    BY <1>1, <1>5 DEF mainFrame, stateFrame, AllJobs, Inv, MainInv
  <2>2. SessionInv' /\ CloseInv' /\ DataInv'
    BY <1>1, <1>5, <2>1, SameJobs DEF AllJobs, Leaving
  <2>3. CommandInv'
    BY <1>1, <1>2, <1>5, <2>1 DEF Uncrossed, CommandInv, InSession, AskPcs, Leaving
  <2>4. DialogInv'
    BY <1>3, <1>5, <2>1 DEF DialogInv
  <2>5. QED
    BY <2>2, <2>3, <2>4 DEF Uncrossed
<1> HIDE DEF i
<1>6. j \in Jobs /\ ~Session(j) /\ j.op \notin {"close", "start"} /\ JobOK(j)
  BY <1>2, <1>3, DialogJobs DEF Callers
<1> HIDE DEF j
<1>7. CASE mpc' = "idle" /\ mreply' = "none" /\ (aq' = aq \/ aq' = Append(aq, j))
  BY <1>1, <1>6, <1>7, GotKeepsUncrossed
<1>8. QED
  BY <1>4, <1>5, <1>7

\* The other commands after their job.
LEMMA EditedKeepsUncrossed == ASSUME Inv, Uncrossed, Edited \/ Undone \/ Redone PROVE Uncrossed'
<1>1. /\ UNCHANGED mainFrame /\ mreply # "none" /\ mreply' = "none" /\ eq' = eq /\ aq' = aq
      /\ mpc' = "idle"
  BY GotFrame DEF Edited, Undone, Redone
<1>2. QED
  BY <1>1, GotKeepsUncrossed

\* DeInit when the session is gone, or raised.
LEMMA ExitedKeepsUncrossed == ASSUME Inv, Uncrossed, Exited PROVE Uncrossed'
<1>1. UNCHANGED mainFrame /\ mpc = "exit" /\ mreply # "none" /\ mreply' = "none"
  BY GotFrame DEF Exited
<1> DEFINE j == Job("quit", 0, "nobody")
<1>2. j \in Jobs /\ j.op = "quit"
  BY OtherJobs DEF Callers, Job
<1>3. \/ mreply = "ok" /\ mpc' = "ended" /\ aq' = Append(aq, j) /\ eq' = Append(eq, j)
      \/ mpc' = "stuck" /\ UNCHANGED <<aq, eq>>
  BY DEF Exited
<1> HIDE DEF j
<1>4. ~Session(j) /\ j.op \notin {"close", "start"} /\ JobOK(j)
  BY <1>2 DEF Session, SessionOps, JobOK, OnTree, PluginOps
<1>5. QED
  BY <1>1, <1>2, <1>3, <1>4, GotKeepsUncrossed

\* A Start that comes from outside is one that `strays` knows.
LEMMA OutsideKeepsUncrossed == ASSUME Inv, Uncrossed, Outside PROVE Uncrossed'
<1>1. UNCHANGED <<info, name, core, tree, host, detached, loaded, posts, done, epc, ereply, mpc, mreply, mval, marg, dialogs>>
  BY DEF Outside, mainVars
<1>2. info.started \subseteq 1..Len(name) /\ info.failed \subseteq Items
  BY DEF Inv, Types, ItemsOK, Infos, Known
<1>3. ASSUME NEW e \in Jobs, ~Session(e),
             \/ aq' = aq /\ eq' = Append(eq, e) /\ strays' = strays
             \/ /\ aq' = Append(aq, e) /\ eq' = eq /\ strays \subseteq strays'
                /\ e.op = "fault" \/ (e.op = "start" /\ e.arg \in strays')
      PROVE  Uncrossed'
  <2>1. SessionInv' /\ \A j \in AllJobs' : j \in AllJobs \/ ~Session(j)
    BY <1>1, <1>3, SessionsStay DEF Uncrossed
  <2>2. CommandInv' /\ DialogInv'
    BY <1>1, <2>1 DEF Uncrossed, CommandInv, DialogInv, Session, SessionOps
  <2>3. (\E j \in AllJobs' : j.op = "startSession") => (\E j \in AllJobs : j.op = "startSession")
    BY <2>1 DEF Session, SessionOps
  <2>4. UNCHANGED stateFrame /\ DataInv
    BY <1>1 DEF stateFrame, Uncrossed
  <2>5. CASE aq' = aq /\ strays' = strays
    <3>1. Pending' = Pending
      BY <1>1, <2>5 DEF Pending
    <3>2. DataInv' /\ CloseInv'
      BY <1>1, <2>3, <2>4, <2>5, <3>1, QueueKeepsData, CloseInvStays DEF Uncrossed
    <3>3. QED
      BY <2>1, <2>2, <3>2 DEF Uncrossed
  <2>6. CASE /\ aq' = Append(aq, e) /\ strays \subseteq strays'
             /\ e.op = "fault" \/ (e.op = "start" /\ e.arg \in strays')
    <3>1. e.op = "fault" => JobOK(e)
      BY DEF JobOK, OnTree
    <3>2. DataInv' /\ CloseInv'
      BY <1>1, <2>3, <2>4, <2>6, <3>1, DataAppended
    <3>3. QED
      BY <2>1, <2>2, <3>2 DEF Uncrossed
  <2>7. QED
    BY <1>3, <2>5, <2>6
<1>4. CASE eq' = Append(eq, Job("event", 0, "nobody")) /\ UNCHANGED <<aq, strays>>
  <2> DEFINE e == Job("event", 0, "nobody")
  <2>1. e \in Jobs /\ ~Session(e)
    BY OtherJobs DEF Callers, Job, Session, SessionOps
  <2>2. eq' = Append(eq, e)
    BY <1>4
  <2> HIDE DEF e
  <2>3. QED
    BY <1>3, <1>4, <2>1, <2>2
<1>5. ASSUME NEW i \in info.started, name[i] # 0, aq' = Append(aq, Job("fault", i, "nobody")),
             UNCHANGED <<eq, strays>>
      PROVE  Uncrossed'
  <2> DEFINE e == Job("fault", i, "nobody")
  <2>1. i \in Items
    BY <1>2, <1>5 DEF Items, Inv, Types, ItemsOK
  <2>2. e \in Jobs /\ e.op = "fault" /\ ~Session(e)
    BY <2>1, ItemJobs DEF PluginOps, Callers, Job, Session, SessionOps
  <2>3. aq' = Append(aq, e)
    BY <1>5
  <2> HIDE DEF e
  <2>4. QED
    BY <1>3, <1>5, <2>2, <2>3
<1>6. ASSUME NEW i \in info.failed, aq' = Append(aq, Job("start", i, "nobody")),
             strays' = strays \cup {i}, UNCHANGED eq
      PROVE  Uncrossed'
  <2> DEFINE e == Job("start", i, "nobody")
  <2>1. i \in Items
    BY <1>2
  <2>2. e \in Jobs /\ e.op = "start" /\ e.arg = i /\ ~Session(e)
    BY <2>1, ItemJobs DEF PluginOps, Callers, Job, Session, SessionOps
  <2>3. aq' = Append(aq, e)
    BY <1>6
  <2> HIDE DEF e
  <2>4. QED
    BY <1>3, <1>6, <2>2, <2>3
<1>7. QED
  BY <1>4, <1>5, <1>6 DEF Outside

\* The first session is asked for, and there is no plugin.
LEMMA InitGivesUncrossed == Init => Uncrossed
<1> SUFFICES ASSUME Init PROVE Uncrossed
  OBVIOUS
<1>1. /\ aq = <<>> /\ posts = <<>> /\ Range(aq) = {} /\ Range(posts) = {} /\ DOMAIN aq = {}
      /\ loaded = "no" /\ mpc = "idle" /\ strays = {} /\ host = 0 /\ name = <<>>
      /\ info.list = {} /\ info.started = {} /\ info.names = {} /\ info.again = {} /\ info.failed = {}
  BY DEF Init, Range
<1> DEFINE j == Job("startSession", FirstFile, "nobody")
<1>2. eq = <<j>> /\ j.op = "startSession"
  BY DEF Init, Job
<1> HIDE DEF j
<1>3. Range(eq) = {j} /\ DOMAIN eq = 1..1
  <2>1. DOMAIN <<j>> = 1..1 /\ <<j>>[1] = j
    OBVIOUS
  <2>2. QED
    BY <1>2, <2>1 DEF Range
<1>4. AllJobs = {j} /\ Pending = {}
  BY <1>1, <1>3 DEF AllJobs, Pending
<1>5. SessionInv
  BY <1>1, <1>2, <1>3, <1>4 DEF SessionInv, Sole
<1>6. CommandInv /\ DialogInv
  BY <1>1 DEF CommandInv, DialogInv, InSession, AskPcs, Leaving
<1>7. CloseInv
  BY <1>1 DEF CloseInv
<1>8. Emptied
  BY <1>1 DEF Emptied, Opened
<1>9. DataInv
  BY <1>1, <1>4, <1>8 DEF DataInv, JobsInv, GoneInv, LifeInv, ListInv
<1>10. QED
  BY <1>5, <1>6, <1>7, <1>9 DEF Uncrossed

\* Once a command came between, it did.
LEMMA CrossedStays == ASSUME Next, crossed PROVE crossed'
BY DEF Next, ActionThread, StartJob, StopJob, ExecuteJob, CloseJob, FaultJob, CreateJob, SetArgsJob,
       DeleteJob, ToggleJob, HandlerJob, MacroJob, ExclusiveJob, StopSessionJob, StartSessionJob,
       Post, Answer, EventThread, TakeEvent, SessionAnswered, eventSame, TimeOut, MainGoesOn,
       Unloaded, Created, SetUp, DialogAgain, Edited, Undone, Redone, Exited, Got, Command, OpenFile,
       AddPlugin, Edit, EditLeft, Undo, Redo, Exit, Ask, Outside, aroundVars

\* The invariant is inductive.
LEMMA FullStep == FullInv /\ [Next]_vars => FullInv'
<1> SUFFICES ASSUME FullInv, [Next]_vars, ~crossed' PROVE Uncrossed'
  BY StepKeepsInv DEF FullInv
<1>1. CASE UNCHANGED vars
  <2>1. /\ UNCHANGED <<info, name, core, tree, host, detached, loaded, strays, aq, posts, done, eq>>
        /\ UNCHANGED <<epc, ereply, mpc, mreply, mval, marg, dialogs, crossed>>
    BY <1>1 DEF vars, pluginVars, actionVars, eventVars, mainVars
  <2>2. Inv /\ Uncrossed
    BY <2>1 DEF FullInv
  <2>3. SessionInv' /\ CloseInv' /\ DataInv' /\ AllJobs' = AllJobs
    BY <2>1, <2>2, SameJobs DEF stateFrame, AllJobs
  <2>4. CommandInv' /\ DialogInv'
    BY <2>1, <2>2, <2>3 DEF Uncrossed, CommandInv, DialogInv
  <2>5. QED
    BY <2>3, <2>4 DEF Uncrossed
<1>2. CASE Next
  <2>1. Inv /\ Uncrossed
    BY <1>2, CrossedStays DEF FullInv
  <2>2. CASE ActionThread
    BY <2>1, <2>2, JobKeepsUncrossed, PostKeepsUncrossed, AnswerKeepsUncrossed DEF ActionThread, AnyJob
  <2>3. CASE EventThread \/ TimeOut
    BY <2>1, <2>3, TakeEventKeepsUncrossed, SessionAnsweredKeepsUncrossed, TimeOutKeepsUncrossed
    DEF EventThread
  <2>4. CASE MainGoesOn
    BY <2>1, <2>4, UnloadedKeepsUncrossed, CreatedKeepsUncrossed, SetUpKeepsUncrossed,
       EditedKeepsUncrossed, ExitedKeepsUncrossed DEF MainGoesOn, DialogAgain
  <2>5. CASE Command \/ Outside
    BY <2>1, <2>5, CommandKeepsUncrossed, OutsideKeepsUncrossed
  <2>6. QED
    BY <1>2, <2>2, <2>3, <2>4, <2>5 DEF Next
<1>3. QED
  BY <1>1, <1>2

\* As long as nothing that `crossed` records happened (a command beside a dialog
\* or a change of sessions, an end of a session beside waiting jobs, an OnDelete
\* that raises), the session, the tree, eg.pluginList and the order of the
\* waiting jobs stay in step (StartSession, StopSession, PluginItem and
\* PluginInstanceInfo).
THEOREM FullInvHolds == Spec => []FullInv
<1>1. Init => FullInv
  BY InitGivesInv, InitGivesUncrossed DEF FullInv
<1>2. QED
  BY <1>1, FullStep, PTL DEF Spec

\* PluginInstanceInfo: __close__ is called once and __start__ never after it,
\* except for a plugin that a queued Start found disabled or closed, in a history
\* that is not `crossed`.
THEOREM ClosedHolds == Spec => []ClosedStaysClosed
<1>1. FullInv => ClosedStaysClosed
  BY DEF FullInv, Uncrossed, DataInv, ClosedStaysClosed
<1>2. QED
  BY <1>1, FullInvHolds, PTL

\* CreateInstance and RemovePluginInstance: when nothing is under way,
\* eg.pluginList and eg.plugins hold the plugins of the tree and no other, in a
\* history that is not `crossed`.
THEOREM ListHolds == Spec => []ListIsTree
<1>1. FullInv => ListIsTree
  <2> SUFFICES ASSUME FullInv, Quiet, ~crossed
               PROVE  /\ {i \in info.list : name[i] # 0} = Range(tree)
                      /\ info.names = {name[i] : i \in Range(tree)}
                      /\ Range(core) \subseteq info.list
    BY DEF ListIsTree
  <2>1. loaded = "yes" /\ Pending = {}
    BY DEF Quiet, Pending, Range
  <2>2. Closing = {}
    BY <2>1 DEF Closing, ClosedBy
  <2>3. ListInv!2
    BY <2>1 DEF FullInv, Uncrossed, DataInv, ListInv
  <2>4. QED
    BY <2>2, <2>3 DEF Opened
<1>2. QED
  BY <1>1, FullInvHolds, PTL

\* DeInit: a program that ends has stopped every plugin that could be stopped, in
\* a history that is not `crossed`.
THEOREM ExitHolds == Spec => []ExitClosesPlugins
<1>1. FullInv => ExitClosesPlugins
  <2> SUFFICES ASSUME FullInv, mpc = "ended", ~crossed
               PROVE  info.started \subseteq info.failed \cup strays
    BY DEF ExitClosesPlugins
  <2>1. loaded # "yes" /\ mpc \in Leaving
    BY DEF FullInv, Uncrossed, CommandInv, Leaving
  <2>2. QED
    BY <2>1 DEF FullInv, Uncrossed, DataInv, GoneInv, Emptied
<1>2. QED
  BY <1>1, FullInvHolds, PTL

-----------------------------------------------------------------------------
(* Which plugins of the tree run. *)
Starters == {"start", "execute", "setArgs", "delete"}
StartedBy(S) == {j.arg : j \in {j \in S : j.op \in Starters}}

\* The item NewPlugin.Do is about to go on with.
Shown == IF mpc = "create" /\ done.by = "main" /\ done.ok THEN {done.val.item}
         ELSE IF mpc = "create" /\ mreply = "ok" THEN {mval.item} ELSE {}
Starting == StartedBy(Pending) \cup Shown

\* An enabled plugin runs, has failed, or something is still to be done with
\* it that ends in Start; a disabled one does not run.
RunInv ==
  loaded = "yes" =>
    /\ Range(tree) \cap enabled \subseteq info.started \cup info.failed \cup Starting
    /\ (Range(tree) \ enabled) \cap info.started \subseteq info.failed \cup strays

\* The plugin of a Start that waits is enabled, and a Stop that waits is
\* followed by a Start.
StartInv ==
  \A j \in Pending : j.op = "start" => j.arg \in strays \cup enabled \/ j.arg \notin Range(tree)
Restarts(j, i) == j.op = "start" /\ j.arg = i
RestartInv ==
  /\ \A k \in DOMAIN aq : aq[k].op = "stop" =>
       \/ \E l \in DOMAIN aq : k < l /\ Restarts(aq[l], aq[k].arg)
       \/ \E j \in Range(posts) : Restarts(j, aq[k].arg)
  /\ \A k \in DOMAIN posts : posts[k].op = "stop" =>
       \E l \in DOMAIN posts : k < l /\ Restarts(posts[l], posts[k].arg)
Following == RunInv /\ StartInv /\ RestartInv

\* What holds of plugin i of the tree after a step.
Followed(i) ==
  /\ i \in enabled' => i \in info'.started \cup info'.failed \cup Starting'
  /\ i \notin enabled' /\ i \in info'.started => i \in info'.failed \cup strays'

\* A job that neither enables, starts nor stops plugin i.
LeftAlone(i) ==
  /\ i \in enabled' <=> i \in enabled
  /\ i \in info'.started <=> i \in info.started
  /\ i \in info.failed => i \in info'.failed
  /\ Head(aq).op \in Starters /\ It = i => i \notin enabled

\* What waited for plugin i still waits.
LEMMA LeftAloneIsFollowed ==
  ASSUME Inv, RunInv, JobStep, loaded = "yes", strays \subseteq strays',
         NEW i \in Range(tree), LeftAlone(i)
  PROVE  Followed(i)
<1>1. CASE i \notin enabled
  BY <1>1 DEF RunInv, LeftAlone, Followed
<1>2. CASE i \in info.started \cup info.failed /\ i \in enabled
  BY <1>2 DEF LeftAlone, Followed
<1>3. CASE i \in StartedBy(Pending) /\ i \in enabled
  <2>1. PICK j \in Pending : j.op \in Starters /\ j.arg = i
    BY <1>3 DEF StartedBy
  <2>2. j \in Pending'
    BY <1>3, <2>1, JobTaken DEF LeftAlone, It, Pending
  <2>3. i \in Starting'
    BY <2>1, <2>2 DEF Starting, StartedBy
  <2>4. QED
    BY <1>3, <2>3 DEF LeftAlone, Followed
<1>4. CASE i \in Shown /\ i \in enabled
  <2>1. mpc = "create" /\ mreply = "ok" /\ mval.item = i
    BY <1>4 DEF Shown, JobStep, NobodyWaits
  <2>2. done'.by # "main"
    BY <2>1, JobTaken DEF JobStep, Inv, MainInv, MainJob
  <2>3. i \in Shown'
    BY <2>1, <2>2 DEF Shown, JobStep
  <2>4. QED
    BY <1>4, <2>3 DEF Starting, LeftAlone, Followed
<1>5. QED
  BY <1>1, <1>2, <1>3, <1>4 DEF RunInv, Starting

\* A Stop that waits is followed by a Start: the order of what waits stays.
LEMMA RestartsTaken ==
  ASSUME Inv, RestartInv, JobStep,
         \A k \in DOMAIN posts' : posts'[k].op = "stop" =>
           \E l \in DOMAIN posts' : k < l /\ Restarts(posts'[l], posts'[k].arg)
  PROVE  /\ RestartInv'
         /\ Head(aq).op = "stop" => \E j \in Range(aq') : Restarts(j, It)
<1>1. aq \in Seq(Jobs) /\ aq # <<>> /\ aq' = Tail(aq) /\ aq' \in Seq(Jobs) /\ Range(posts) = {}
  BY JobTaken DEF JobStep
<1>2. Len(aq) \in Nat \ {0} /\ DOMAIN aq = 1..Len(aq) /\ DOMAIN aq' = 1..Len(aq) - 1 /\ aq[1] = Head(aq)
  BY <1>1
<1>3. \A k \in DOMAIN aq' : k \in Nat /\ k + 1 \in DOMAIN aq /\ aq'[k] = aq[k + 1]
  BY <1>2, JobTaken
<1>4. ASSUME NEW k \in DOMAIN aq, aq[k].op = "stop"
      PROVE  \E l \in DOMAIN aq' : k < l + 1 /\ Restarts(aq'[l], aq[k].arg)
  <2>1. PICK l \in DOMAIN aq : k < l /\ Restarts(aq[l], aq[k].arg)
    BY <1>1, <1>4 DEF RestartInv
  <2>2. l - 1 \in DOMAIN aq' /\ (l - 1) + 1 = l
    BY <1>2, <2>1
  <2>3. aq'[l - 1] = aq[l]
    BY <1>3, <2>2
  <2>4. QED
    BY <2>1, <2>2, <2>3
<1>5. ASSUME NEW k \in DOMAIN aq', aq'[k].op = "stop"
      PROVE  \E l \in DOMAIN aq' : k < l /\ Restarts(aq'[l], aq'[k].arg)
  <2>1. k + 1 \in DOMAIN aq /\ aq[k + 1] = aq'[k]
    BY <1>3
  <2>2. PICK l \in DOMAIN aq' : k + 1 < l + 1 /\ Restarts(aq'[l], aq'[k].arg)
    BY <1>4, <1>5, <2>1
  <2>3. k < l
    BY <1>3, <2>2
  <2>4. QED
    BY <2>2, <2>3
<1>6. Head(aq).op = "stop" => \E j \in Range(aq') : Restarts(j, It)
  <2> SUFFICES ASSUME Head(aq).op = "stop" PROVE \E j \in Range(aq') : Restarts(j, It)
    OBVIOUS
  <2>1. 1 \in DOMAIN aq
    BY <1>2
  <2>2. PICK l \in DOMAIN aq' : Restarts(aq'[l], aq[1].arg)
    BY <1>2, <1>4, <2>1
  <2>3. aq'[l] \in Range(aq')
    BY DEF Range
  <2>4. QED
    BY <1>2, <2>2, <2>3 DEF It
<1>7. QED
  BY <1>5, <1>6 DEF RestartInv

\* The effect of a job on the plugins of the tree, one by one.
LEMMA JobIsFollowed ==
  ASSUME Inv, Following, JobStep, loaded' = loaded, strays \subseteq strays',
         loaded = "yes" =>
           \A i \in Range(tree') : Followed(i) \/ (i \in Range(tree) /\ LeftAlone(i)),
         Range(tree') \cap (1..Len(name)) \subseteq Range(tree),
         \A j \in Range(aq') : j.op = "start" /\ j.arg \in enabled => j.arg \in enabled' \cup strays',
         \A j \in Range(posts') : j.op = "start" => j.arg \in enabled',
         \A k \in DOMAIN posts' : posts'[k].op = "stop" =>
           \E l \in DOMAIN posts' : k < l /\ Restarts(posts'[l], posts'[k].arg)
  PROVE  Following'
<1>1. RestartInv'
  BY RestartsTaken DEF Following
<1>2. RunInv'
  <2> SUFFICES ASSUME loaded = "yes" PROVE \A i \in Range(tree') : Followed(i)
    BY DEF RunInv, Followed
  <2>1. QED
    BY LeftAloneIsFollowed DEF Following
<1>3. StartInv'
  <2>1. ASSUME NEW j \in Range(aq'), j.op = "start"
        PROVE  j.arg \in strays' \cup enabled' \/ j.arg \notin Range(tree')
    <3>1. j \in Pending /\ j \in Range(aq)
      BY JobTaken DEF Pending
    <3>2. j.arg \in 1..Len(name)
      BY <2>1, <3>1, ItemsAreKnown DEF Inv, Types, QueuesOK, ForAction, OnPlugin, PluginOps
    <3>3. j.arg \in strays \cup enabled \/ j.arg \notin Range(tree)
      BY <2>1, <3>1 DEF Following, StartInv
    <3>4. QED
      BY <2>1, <3>2, <3>3
  <2>2. QED
    BY <2>1 DEF StartInv, Pending
<1>4. QED
  BY <1>1, <1>2, <1>3 DEF Following

\* Jobs that leave nothing to later jobs.
LEMMA NothingPosted ==
  ASSUME posts' = <<>>
  PROVE  /\ \A j \in Range(posts') : j.op = "start" => j.arg \in enabled'
         /\ \A k \in DOMAIN posts' : posts'[k].op = "stop" =>
              \E l \in DOMAIN posts' : k < l /\ Restarts(posts'[l], posts'[k].arg)
<1>1. Range(posts') = {} /\ DOMAIN posts' = {}
  BY DEF Range
<1>2. QED
  BY <1>1

\* Start calls one plugin, which then runs or has failed.
LEMMA StartRuns ==
  ASSUME ItemsOK, NEW i \in Items, NEW bad \in BadSet("start", {i}), info' = StartOf(info, {i}, bad)
  PROVE  /\ i \in info'.started \cup info'.failed
         /\ \A x : x # i => /\ x \in info'.started <=> x \in info.started
                            /\ x \in info.failed => x \in info'.failed
<1> DEFINE S == {i}
           v == StartOf(info, S, bad)
<1>1. S \in Known(Len(name)) /\ i \in S /\ \A x : x # i => x \notin S
  BY ItemsAreKnown DEF Known
<1>2. info' = v
  OBVIOUS
<1> HIDE DEF S
<1>3. bad \in Known(Len(name)) /\ bad \subseteq S /\ info \in Infos(Len(name))
  BY <1>1, BadIsKnown DEF ItemsOK, S
<1>4. /\ v.started = info.started \cup (S \ bad)
      /\ v.failed = (info.failed \ (S \ info.started)) \cup ((S \ info.started) \cap bad)
  BY <1>1, <1>3, StartFacts
<1> HIDE DEF v
<1>5. QED
  BY <1>1, <1>2, <1>3, <1>4

\* Stop leaves only those running that have an exception.
LEMMA StopRuns ==
  ASSUME NEW n, NEW w \in Infos(n), NEW S \in Known(n), NEW bad \in BadSet("stop", S),
         info' = StopOf(w, S, bad)
  PROVE  /\ \A x \in S : x \in info'.started => x \in info'.failed
         /\ \A x : x \notin S => (x \in info'.started <=> x \in w.started)
         /\ info'.started \subseteq w.started /\ w.failed \subseteq info'.failed
<1>1. bad \in Known(n) /\ bad \subseteq S
  BY BadIsKnown
<1>2. /\ info'.started = w.started \ (S \ w.failed)
      /\ info'.failed = w.failed \cup (((S \cap w.started) \ w.failed) \cap bad)
  BY <1>1, StopFacts
<1>3. QED
  BY <1>2

\* SetArguments of a plugin that runs: it is to be stopped and started again.
LEMMA SetArgsFollowed ==
  ASSUME Inv, Uncrossed, Following, JobStep, NEW i \in Items, SetArgs(i), UNCHANGED aroundVars,
         Head(aq).op \in Starters => It = i
  PROVE  Following'
<1>1. /\ UNCHANGED <<info, name, tree, enabled, detached, strays, loaded>>
  BY DEF SetArgs, itemVars, aroundVars
<1>2. \A x \in Range(tree) : x # i \/ i \notin enabled => LeftAlone(x)
  BY <1>1 DEF LeftAlone
<1>3. CASE i \in enabled \ detached
  <2> DEFINE a == Job("stop", i, "nobody")
             b == Job("start", i, "nobody")
  <2>1. a.op = "stop" /\ b.op = "start" /\ a.arg = i /\ b.arg = i
    BY DEF Job
  <2>2. posts' = <<a, b>>
    BY <1>3 DEF SetArgs
  <2>3. a \in Jobs /\ b \in Jobs
    BY ItemJobs DEF PluginOps, Callers
  <2> HIDE DEF a, b
  <2>4. Range(posts') = {a, b} /\ DOMAIN posts' = 1..2 /\ posts'[1] = a /\ posts'[2] = b
    <3>1. Range(<<a, b>>) = {a, b}
      BY <2>3, RangeOfShort
    <3>2. DOMAIN <<a, b>> = 1..2 /\ <<a, b>>[1] = a /\ <<a, b>>[2] = b
      OBVIOUS
    <3>3. QED
      BY <2>2, <3>1, <3>2
  <2>5. i \in Starting'
    BY <2>1, <2>4 DEF Starting, StartedBy, Pending, Starters
  <2>6. Followed(i)
    BY <1>1, <1>3, <2>5 DEF Followed
  <2>7. \A j \in Range(posts') : j.op = "start" => j.arg \in enabled'
    BY <1>1, <1>3, <2>1, <2>4
  <2>8. \A k \in DOMAIN posts' : posts'[k].op = "stop" =>
          \E l \in DOMAIN posts' : k < l /\ Restarts(posts'[l], posts'[k].arg)
    <3>1. 1 \in DOMAIN posts' /\ 2 \in DOMAIN posts' /\ 1 < 2 /\ \A k \in DOMAIN posts' : k = 1 \/ k = 2
      BY <2>4
    <3>2. Restarts(posts'[2], posts'[1].arg) /\ posts'[2].op # "stop"
      BY <2>1, <2>4 DEF Restarts
    <3>3. QED
      BY <3>1, <3>2
  <2>9. QED
    BY <1>1, <1>2, <2>6, <2>7, <2>8, JobIsFollowed
<1>4. CASE i \notin enabled \ detached
  <2>1. posts' = <<>>
    BY <1>4 DEF SetArgs
  <2>2. loaded = "yes" => \A x \in Range(tree) : LeftAlone(x)
    BY <1>2, <1>4 DEF Uncrossed, DataInv, LifeInv
  <2>3. QED
    BY <1>1, <2>1, <2>2, NothingPosted, JobIsFollowed
<1>5. QED
  BY <1>3, <1>4

\* Delete takes the plugin out of the tree.
LEMMA DeleteFollowed ==
  ASSUME Inv, Following, JobStep, NEW i \in Items, Delete(i), UNCHANGED aroundVars,
         Head(aq).op \in Starters => It = i
  PROVE  Following'
<1>1. UNCHANGED <<info, name, enabled, strays, loaded>> /\ Range(tree') = Range(tree) \ {i}
  <2>1. Range(Without(i)) = Range(tree) \ {i}
    BY RemovedFromTree DEF Inv, Types, ItemsOK
  <2>2. QED
    BY <2>1 DEF Delete, aroundVars
<1>2. \A x \in Range(tree') : x \in Range(tree) /\ LeftAlone(x)
  BY <1>1 DEF LeftAlone
<1>3. posts' = <<>> \/ posts' = <<Job("close", i, "nobody")>>
  BY DEF Delete
<1>4. \A k \in DOMAIN posts' : posts'[k].op = "close"
  BY <1>3 DEF Job
<1>5. \A j \in Range(posts') : j.op = "close"
  BY <1>4 DEF Range
<1>6. QED
  BY <1>1, <1>2, <1>4, <1>5, JobIsFollowed

\* SetEnable starts and stops the plugin itself.
LEMMA SetEnableFollowed ==
  ASSUME Inv, Uncrossed, Following, JobStep, NEW i \in Items, NEW flag, SetEnable(i, flag),
         UNCHANGED aroundVars, Head(aq).op \notin Starters
  PROVE  Following'
<1>1. /\ UNCHANGED <<name, tree, detached, loaded>> /\ posts' = <<>>
      /\ enabled' = (IF flag THEN enabled \cup {i} ELSE enabled \ {i})
      /\ strays' = (IF ~flag /\ Queued(i) THEN strays \cup {i} ELSE strays)
  BY DEF SetEnable, aroundVars
<1>2. loaded = "yes" => \A x \in Range(tree) : Followed(x) \/ LeftAlone(x)
  <2> SUFFICES ASSUME loaded = "yes", NEW x \in Range(tree) PROVE Followed(x) \/ LeftAlone(x)
    OBVIOUS
  <2>1. CASE i \in detached
    <3>1. info' = info /\ x # i
      BY <2>1 DEF SetEnable, Uncrossed, DataInv, LifeInv
    <3>2. QED
      BY <1>1, <3>1 DEF LeftAlone
  <2>2. CASE i \notin detached /\ flag
    <3>1. PICK bad \in BadSet("start", {i}) : info' = StartOf(info, {i}, bad)
      BY <2>2 DEF SetEnable
    <3>2. /\ i \in info'.started \cup info'.failed
          /\ x # i => /\ x \in info'.started <=> x \in info.started
                      /\ x \in info.failed => x \in info'.failed
      BY <3>1, StartRuns DEF Inv, Types
    <3>3. QED
      BY <1>1, <2>2, <3>2 DEF Followed, LeftAlone
  <2>3. CASE i \notin detached /\ ~flag
    <3> DEFINE S == {i}
    <3>1. PICK bad \in BadSet("stop", S) : info' = StopOf(info, S, bad)
      BY <2>3 DEF SetEnable
    <3>2. S \in Known(Len(name)) /\ info \in Infos(Len(name)) /\ i \in S /\ (x # i => x \notin S)
      BY ItemsAreKnown DEF Inv, Types, ItemsOK, Known
    <3> HIDE DEF S
    <3>3. /\ i \in info'.started => i \in info'.failed
          /\ x # i => (x \in info'.started <=> x \in info.started)
          /\ info.failed \subseteq info'.failed
      BY <3>1, <3>2, StopRuns
    <3>4. QED
      BY <1>1, <2>3, <3>3 DEF Followed, LeftAlone
  <2>4. QED
    BY <2>1, <2>2, <2>3
<1>3. \A j \in Range(aq') : j.op = "start" /\ j.arg \in enabled => j.arg \in enabled' \cup strays'
  <2> SUFFICES ASSUME NEW j \in Range(aq'), j.op = "start", j.arg = i, ~flag PROVE i \in strays'
    BY <1>1
  <2>1. j \in Range(aq)
    BY JobTaken
  <2>2. Queued(i)
    BY <2>1 DEF Queued, Range
  <2>3. QED
    BY <1>1, <2>2
<1>4. strays \subseteq strays'
  BY <1>1
<1>5. QED
  BY <1>1, <1>2, <1>3, <1>4, NothingPosted, JobIsFollowed

\* A new plugin is enabled and to be started, or disabled and does not run.
LEMMA OpenFollowed ==
  ASSUME Inv, Following, JobStep, NEW n \in Nat \ {0}, NEW pos \in Nat \ {0}, NEW on \in BOOLEAN,
         NEW starts, Open(n, pos, on, starts), UNCHANGED aroundVars, Head(aq).op \notin Starters,
         n \notin info.names => starts \/ New \in Shown'
  PROVE  Following'
<1>1. CASE n \in info.names
  <2>1. UNCHANGED <<info, tree, enabled, strays, loaded>> /\ posts' = <<>>
    BY <1>1 DEF Open, aroundVars
  <2>2. \A x \in Range(tree) : LeftAlone(x)
    BY <2>1 DEF LeftAlone
  <2>3. QED
    BY <2>1, <2>2, NothingPosted, JobIsFollowed
<1>2. CASE n \notin info.names
  <2>1. /\ Range(tree') = Range(tree) \cup {New} /\ New \notin 1..Len(name)
        /\ info'.started = info.started /\ info'.failed = info.failed
    BY <1>2, OpenTypes DEF Opens, Inv, Types
  <2>2. /\ enabled' = (IF on THEN enabled \cup {New} ELSE enabled) /\ loaded' = loaded /\ strays' = strays
        /\ posts' = (IF on /\ starts THEN <<Job("start", New, "nobody")>> ELSE <<>>)
    BY <1>2 DEF Open, aroundVars
  <2>3. /\ Range(tree) \subseteq 1..Len(name) /\ enabled \subseteq 1..Len(name)
        /\ info.started \subseteq 1..Len(name)
    BY ItemsAreKnown DEF Inv, Types, ItemsOK, Infos, Known
  <2>4. \A x \in Range(tree) : LeftAlone(x)
    BY <2>1, <2>2, <2>3 DEF LeftAlone
  <2>5. \A k \in DOMAIN posts' : on /\ posts'[k].op = "start" /\ posts'[k].arg = New
    BY <2>2 DEF Job
  <2>6. on => New \in Starting'
    <3>1. CASE on /\ starts
      <4> DEFINE j == Job("start", New, "nobody")
      <4>1. posts' = <<j>> /\ j.op = "start" /\ j.arg = New
        BY <2>2, <3>1 DEF Job
      <4> HIDE DEF j
      <4>2. j \in Range(posts')
        <5>1. 1 \in DOMAIN posts' /\ posts'[1] = j
          BY <4>1
        <5>2. QED
          BY <5>1 DEF Range
      <4>3. QED
        BY <4>1, <4>2 DEF Starting, StartedBy, Pending, Starters
    <3>2. CASE ~starts
      BY <1>2, <3>2 DEF Starting
    <3>3. QED
      BY <3>1, <3>2
  <2>7. Followed(New)
    BY <2>1, <2>2, <2>3, <2>6 DEF Followed
  <2>8. \A j \in Range(posts') : j.op = "start" => j.arg \in enabled'
    BY <2>2, <2>5 DEF Range
  <2>9. Range(tree') \cap (1..Len(name)) \subseteq Range(tree) /\ strays \subseteq strays'
    BY <2>1, <2>2
  <2>10. \A i \in Range(tree') : Followed(i) \/ (i \in Range(tree) /\ LeftAlone(i))
    BY <2>1, <2>4, <2>7
  <2>11. \A k \in DOMAIN posts' : posts'[k].op # "stop"
    BY <2>5
  <2>12. \A j \in Range(aq') : j.op = "start" /\ j.arg \in enabled => j.arg \in enabled' \cup strays'
    BY <2>2
  <2>13. QED
    BY <2>2, <2>8, <2>9, <2>10, <2>11, <2>12, JobIsFollowed
<1>3. QED
  BY <1>1, <1>2


\* Jobs that leave nothing to later jobs and the tree as it is.
LEMMA PlainFollowed ==
  ASSUME Inv, Following, JobStep, posts' = <<>>, UNCHANGED <<tree, enabled, strays, loaded>>,
         loaded = "yes" => \A i \in Range(tree) : Followed(i) \/ LeftAlone(i)
  PROVE  Following'
<1>1. \A j \in Range(aq') : j.op = "start" /\ j.arg \in enabled => j.arg \in enabled' \cup strays'
  OBVIOUS
<1>2. QED
  BY <1>1, NothingPosted, JobIsFollowed

\* Start of a plugin that is enabled, or known not to be.
LEMMA StartFollowed == ASSUME Inv, Uncrossed, Following, StartJob PROVE Following'
<1>1. JobStep /\ posts' = <<>> /\ UNCHANGED <<tree, enabled, strays, loaded>> /\ Head(aq).op = "start"
  BY StartJobStep DEF Inv, StartJob, Take, Nothing, aroundVars
<1>2. It \in Items /\ Head(aq) \in Pending /\ Head(aq).arg = It
  BY <1>1, HeadJob DEF Inv, Types, JobStep, Pending, It, PluginOps
<1>3. PICK bad \in BadSet("start", {It}) : info' = StartOf(info, {It}, bad)
  BY DEF StartJob
<1>4. /\ It \in info'.started \cup info'.failed
      /\ \A x : x # It => /\ x \in info'.started <=> x \in info.started
                          /\ x \in info.failed => x \in info'.failed
  BY <1>2, <1>3, StartRuns DEF Inv, Types
<1>5. It \in strays \cup enabled \/ It \notin Range(tree)
  BY <1>1, <1>2 DEF Following, StartInv
<1>6. ASSUME NEW i \in Range(tree) PROVE Followed(i) \/ LeftAlone(i)
  BY <1>1, <1>4, <1>5 DEF Followed, LeftAlone
<1>7. QED
  BY <1>1, <1>6, PlainFollowed

\* Stop of a plugin that is enabled has its Start behind it.
LEMMA StopFollowed == ASSUME Inv, Uncrossed, Following, StopJob PROVE Following'
<1>1. JobStep /\ posts' = <<>> /\ UNCHANGED <<tree, enabled, strays, loaded>> /\ Head(aq).op = "stop"
  BY StopJobStep DEF Inv, StopJob, Take, Nothing, aroundVars
<1> DEFINE S == {It}
<1>2. S \in Known(Len(name)) /\ It \in S /\ \A x : x # It => x \notin S
  BY <1>1, HeadJob, ItemsAreKnown DEF Inv, Types, JobStep, PluginOps, Known
<1>3. PICK bad \in BadSet("stop", S) : info' = StopOf(info, S, bad)
  BY DEF StopJob
<1> HIDE DEF S
<1>4. /\ It \in info'.started => It \in info'.failed
      /\ \A x : x # It => (x \in info'.started <=> x \in info.started)
      /\ info.failed \subseteq info'.failed
  BY <1>2, <1>3, StopRuns DEF Inv, Types, ItemsOK
<1>5. It \in Starting'
  <2>1. PICK j \in Range(aq') : Restarts(j, It)
    BY <1>1, NothingPosted, RestartsTaken DEF Following
  <2>2. j \in Pending' /\ j.op \in Starters /\ j.arg = It
    BY <2>1 DEF Restarts, Pending, Starters
  <2>3. QED
    BY <2>2 DEF Starting, StartedBy
<1>6. ASSUME NEW i \in Range(tree) PROVE Followed(i) \/ LeftAlone(i)
  BY <1>1, <1>4, <1>5 DEF Followed, LeftAlone, Starters
<1>7. QED
  BY <1>1, <1>6, PlainFollowed

\* Execute of an enabled plugin starts it.
LEMMA ExecuteFollowed == ASSUME Inv, Uncrossed, Following, ExecuteJob PROVE Following'
<1>1. JobStep /\ posts' = <<>> /\ UNCHANGED <<tree, enabled, strays, loaded>> /\ Head(aq).op = "execute"
  BY ExecuteJobStep DEF Inv, ExecuteJob, Take, Nothing, aroundVars
<1>2. It \in Items
  BY <1>1, HeadJob DEF Inv, Types, JobStep, PluginOps
<1>3. CASE It \in enabled \ detached
  <2>1. PICK bad \in BadSet("start", {It}) : info' = StartOf(info, {It}, bad)
    BY <1>3 DEF ExecuteJob
  <2>2. /\ It \in info'.started \cup info'.failed
        /\ \A x : x # It => /\ x \in info'.started <=> x \in info.started
                            /\ x \in info.failed => x \in info'.failed
    BY <1>2, <2>1, StartRuns DEF Inv, Types
  <2>3. ASSUME NEW i \in Range(tree) PROVE Followed(i) \/ LeftAlone(i)
    BY <1>1, <1>3, <2>2 DEF Followed, LeftAlone
  <2>4. QED
    BY <1>1, <2>3, PlainFollowed
<1>4. CASE It \notin enabled \ detached
  <2>1. info' = info
    BY <1>4 DEF ExecuteJob
  <2>2. loaded = "yes" => \A i \in Range(tree) : LeftAlone(i)
    BY <1>1, <1>4, <2>1 DEF LeftAlone, Uncrossed, DataInv, LifeInv
  <2>3. QED
    BY <1>1, <2>2, PlainFollowed
<1>5. QED
  BY <1>3, <1>4

\* The close of a plugin leaves those of the tree alone.
LEMMA CloseFollowed == ASSUME Inv, Uncrossed, Following, ~crossed', CloseJob PROVE Following'
<1>1. JobStep /\ posts' = <<>> /\ UNCHANGED <<tree, enabled, strays, loaded>> /\ Head(aq).op = "close"
  BY CloseJobStep DEF Inv, CloseJob, Take, Nothing
<1> DEFINE S == {It}
<1>2. S \in Known(Len(name)) /\ \A x : x # It => x \notin S
  BY <1>1, HeadJob, ItemsAreKnown DEF Inv, Types, JobStep, PluginOps, Known
<1>0. PICK bad \in BadSet("stop", S), raises \in BadSet("delete", S) :
        /\ info' = IF raises = {} THEN RemoveOf(CloseOf(info, S, bad), S) ELSE CloseOf(info, S, bad)
        /\ crossed' = (crossed \/ raises # {})
  BY DEF CloseJob
<1>3. info' = RemoveOf(CloseOf(info, S, bad), S)
  <2> DEFINE late == raises # {}
  <2>1. crossed' = (crossed \/ late) /\ (~late => info' = RemoveOf(CloseOf(info, S, bad), S))
    BY <1>0
  <2> HIDE DEF late
  <2>2. QED
    BY <2>1
<1> HIDE DEF S
<1>4. Gone(info, info', S)
  <2>1. info \in Infos(Len(name)) /\ bad \in Known(Len(name))
    BY <1>2, BadIsKnown DEF Inv, Types, ItemsOK
  <2>2. QED
    BY <1>2, <1>3, <2>1, ClosedAndRemoved
<1>5. loaded = "yes" => It \notin Range(tree)
  <2>1. It \in detached
    BY <1>1, JobTaken DEF Uncrossed, DataInv, JobsInv, JobOK, It
  <2>2. QED
    BY <2>1 DEF Uncrossed, DataInv, LifeInv
<1>6. loaded = "yes" => \A i \in Range(tree) : LeftAlone(i)
  BY <1>1, <1>2, <1>4, <1>5 DEF LeftAlone, Gone
<1>7. QED
  BY <1>1, <1>6, PlainFollowed

\* A plugin whose exception came out of HandleAction has failed.
LEMMA FaultFollowed == ASSUME Inv, Following, FaultJob PROVE Following'
<1>1. JobStep /\ posts' = <<>> /\ UNCHANGED <<tree, enabled, strays, loaded>> /\ Head(aq).op = "fault"
  BY FaultJobStep DEF Inv, FaultJob, Take, Nothing, aroundVars
<1>2. info'.started = info.started /\ info.failed \subseteq info'.failed
  BY DEF FaultJob, Inv, Types, ItemsOK, Infos
<1>3. \A i \in Range(tree) : LeftAlone(i)
  BY <1>1, <1>2 DEF LeftAlone, Starters
<1>4. QED
  BY <1>1, <1>3, PlainFollowed

\* TreeItem.Create: NewPlugin.Do goes on with the new plugin.
LEMMA CreateFollowed == ASSUME Inv, Following, CreateJob PROVE Following'
<1>1. JobStep /\ UNCHANGED aroundVars /\ Head(aq).op = "create"
  BY CreateJobStep DEF Inv, CreateJob, Take
<1>2. PICK n \in 1..MaxInstances + 1 :
        /\ FirstFree(n) /\ Open(n, Len(tree) + 1, TRUE, FALSE)
        /\ Answered(TRUE, Handler("new", New, Len(tree) + 1, n, TRUE))
  BY DEF CreateJob
<1>3. n \in Nat \ {0} /\ Len(tree) + 1 \in Nat \ {0}
  BY <1>2, SessionAssumption DEF Inv, Types, ItemsOK
<1>4. Head(aq).by = "main" /\ mpc = "create"
  BY <1>1, JobTaken DEF Inv, MainInv, MainJob, AskedFor
<1>5. done'.by = "main" /\ done'.ok /\ done'.val.item = New
  BY <1>2, <1>4 DEF Answered, Handler
<1>6. New \in Shown'
  BY <1>1, <1>4, <1>5 DEF Shown, JobStep
<1>7. QED
  BY <1>1, <1>2, <1>3, <1>6, OpenFollowed DEF Starters


\* SetArguments, Delete and ToggleEnable as jobs of the main thread.
LEMMA ItemJobsFollowed ==
  ASSUME Inv, Uncrossed, Following, SetArgsJob \/ DeleteJob \/ ToggleJob PROVE Following'
<1>1. Head(aq).op \in {"setArgs", "delete", "toggle"} /\ UNCHANGED aroundVars
  BY DEF SetArgsJob, DeleteJob, ToggleJob, Take
<1>2. JobStep
  BY SetArgsJobStep, DeleteJobStep, ToggleJobStep DEF Inv
<1>3. It \in Items
  BY <1>1, <1>2, HeadJob DEF Inv, Types, JobStep, PluginOps
<1>4. CASE SetArgsJob
  BY <1>1, <1>2, <1>3, <1>4, SetArgsFollowed DEF SetArgsJob
<1>5. CASE DeleteJob
  BY <1>1, <1>2, <1>3, <1>5, DeleteFollowed DEF DeleteJob
<1>6. CASE ToggleJob
  <2>1. Head(aq).op \notin Starters
    BY <1>6 DEF ToggleJob, Take, Starters
  <2>2. SetEnable(It, It \notin enabled)
    BY <1>6 DEF ToggleJob
  <2>3. QED
    BY <1>1, <1>2, <1>3, <2>1, <2>2, SetEnableFollowed
<1>7. QED
  BY <1>4, <1>5, <1>6

\* A job that changes nothing but what it leaves to later jobs.
LEMMA NothingFollowed ==
  ASSUME Inv, Following, JobStep, UNCHANGED itemVars, loaded' = loaded, Head(aq).op \notin Starters,
         \A k \in DOMAIN posts' : posts'[k].op \notin {"stop", "start"}
  PROVE  Following'
<1>1. UNCHANGED <<info, tree, enabled, strays>>
  BY DEF itemVars
<1>2. \A i \in Range(tree) : LeftAlone(i)
  BY <1>1 DEF LeftAlone
<1>3. \A j \in Range(posts') : j.op # "start"
  BY DEF Range
<1>4. \A j \in Range(aq') : j.op = "start" /\ j.arg \in enabled => j.arg \in enabled' \cup strays'
  BY <1>1
<1>5. QED
  BY <1>1, <1>2, <1>3, <1>4, JobIsFollowed

\* Undo and redo.
LEMMA HandlerFollowed ==
  ASSUME Inv, Uncrossed, Following, NEW op \in HandlerOps, HandlerJob(op) PROVE Following'
<1> DEFINE h == It
           i == tree[h.pos]
           found == h.pos \in DOMAIN tree
           deletes == h.kind = IF op = "undo" THEN "new" ELSE "clear"
           restores == h.kind = IF op = "undo" THEN "clear" ELSE "new"
           on == IF op = "undo" THEN ~h.on ELSE h.on
<1>1. Head(aq).op = op /\ Head(aq).op \notin Starters /\ UNCHANGED aroundVars /\ loaded' = loaded
  BY DEF HandlerJob, Take, HandlerOps, Starters, aroundVars
<1>2. JobStep
  BY HandlerJobStep DEF Inv
<1>3. h \in Handlers /\ Placed(h)
  BY <1>1, <1>2, HeadJob DEF Inv, Types, JobStep
<1>4. found => i \in Items
  BY DEF Inv, Types, ItemsOK, Range
<1>5. \/ restores /\ Open(h.name, h.pos, h.on, TRUE)
      \/ posts' = <<>> /\ UNCHANGED itemVars
      \/ deletes /\ found /\ Delete(i)
      \/ found /\ SetEnable(i, on)
      \/ found /\ SetArgs(i)
  BY DEF HandlerJob
<1>6. CASE restores /\ Open(h.name, h.pos, h.on, TRUE)
  <2>1. h.kind \in {"new", "clear"}
    BY <1>6
  <2>2. h.name \in Nat \ {0} /\ h.pos \in Nat \ {0} /\ h.on \in BOOLEAN
    BY <1>3, <2>1 DEF Handlers, Placed
  <2> HIDE DEF h
  <2>3. QED
    BY <1>1, <1>2, <1>6, <2>2, OpenFollowed
<1>7. CASE posts' = <<>> /\ UNCHANGED itemVars
  BY <1>1, <1>2, <1>7, NothingFollowed
<1>8. CASE deletes /\ found /\ Delete(i)
  BY <1>1, <1>2, <1>4, <1>8, DeleteFollowed
<1>9. CASE found /\ SetEnable(i, on)
  <2> HIDE DEF i, on
  <2>1. QED
    BY <1>1, <1>2, <1>4, <1>9, SetEnableFollowed
<1>10. CASE found /\ SetArgs(i)
  <2> HIDE DEF i
  <2>1. QED
    BY <1>1, <1>2, <1>4, <1>10, SetArgsFollowed
<1>11. QED
  BY <1>5, <1>6, <1>7, <1>8, <1>9, <1>10

\* The macros of an event.
LEMMA MacroFollowed == ASSUME Inv, Uncrossed, Following, MacroJob PROVE Following'
<1>1. Head(aq).op \notin Starters /\ UNCHANGED aroundVars /\ loaded' = loaded
  BY DEF MacroJob, Take, Starters, aroundVars
<1>2. JobStep
  BY MacroJobStep DEF Inv
<1>3. CASE posts' = <<>> /\ UNCHANGED itemVars
  BY <1>1, <1>2, <1>3, NothingFollowed
<1>4. ASSUME NEW i \in Range(tree), NEW flag \in BOOLEAN, SetEnable(i, flag) PROVE Following'
  <2>1. i \in Items
    BY DEF Inv, Types, ItemsOK
  <2>2. QED
    BY <1>1, <1>2, <1>4, <2>1, SetEnableFollowed
<1>5. ASSUME NEW i \in Range(tree), posts' = <<Job("exclusive", i, "nobody")>>, UNCHANGED itemVars
      PROVE  Following'
  <2>1. \A k \in DOMAIN posts' : posts'[k].op = "exclusive"
    BY <1>5 DEF Job
  <2>2. QED
    BY <1>1, <1>2, <1>5, <2>1, NothingFollowed
<1>6. QED
  BY <1>3, <1>4, <1>5 DEF MacroJob

\* EnableExclusive starts the one plugin and stops its siblings.
LEMMA ExclusiveFollowed == ASSUME Inv, Uncrossed, Following, ExclusiveJob PROVE Following'
<1> DEFINE S == IF It \in Range(tree) THEN Range(tree) \ {It} ELSE {}
<1>1. /\ JobStep /\ posts' = <<>> /\ UNCHANGED <<tree, loaded>> /\ Head(aq).op = "exclusive"
      /\ enabled' = (enabled \cup {It}) \ S
      /\ strays' = strays \cup {i \in S : Queued(i)}
      /\ It \in detached => info' = info
      /\ It \notin detached => \E unstarted \in BadSet("start", {It}), bad \in BadSet("stop", S) :
                                 info' = StopOf(StartOf(info, {It}, unstarted), S, bad)
  BY ExclusiveJobStep DEF Inv, ExclusiveJob, Take, Nothing, aroundVars
<1>2. It \in Items /\ It \in 1..Len(name)
  BY <1>1, HeadJob, ItemsAreKnown DEF Inv, Types, JobStep, PluginOps
<1>3. S \in Known(Len(name)) /\ It \notin S
      /\ \A i \in Range(tree) : i = It \/ i \in S \/ (i # It /\ It \notin Range(tree) /\ S = {})
  BY ItemsAreKnown DEF Inv, Types, ItemsOK, Known
<1>4. It \in Range(tree) => S = Range(tree) \ {It}
  OBVIOUS
<1>5. It \notin Range(tree) => S = {}
  OBVIOUS
<1> HIDE DEF S
<1>6. CASE It \in detached
  <2>1. loaded = "yes" => \A i \in Range(tree) : LeftAlone(i)
    BY <1>1, <1>5, <1>6 DEF LeftAlone, Starters, Uncrossed, DataInv, LifeInv
  <2>2. QED
    <3>1. \A j \in Range(aq') : j.op = "start" /\ j.arg \in enabled => j.arg \in enabled' \cup strays'
      <4>1. ASSUME NEW j \in Range(aq'), j.op = "start", j.arg \in S PROVE Queued(j.arg)
        BY <1>1, <4>1, JobTaken DEF Queued, Range
      <4>2. QED
        BY <1>1, <4>1
    <3>2. strays \subseteq strays'
      BY <1>1
    <3>3. QED
      BY <1>1, <2>1, <3>1, <3>2, NothingPosted, JobIsFollowed
<1>7. CASE It \notin detached
  <2>1. PICK unstarted \in BadSet("start", {It}), bad \in BadSet("stop", S) :
           info' = StopOf(StartOf(info, {It}, unstarted), S, bad)
    BY <1>1, <1>7
  <2> DEFINE T == {It}
             u == StartOf(info, T, unstarted)
  <2>2. T \in Known(Len(name)) /\ It \in T /\ \A x : x # It => x \notin T
    BY <1>2 DEF Known
  <2>3. info \in Infos(Len(name)) /\ info' = StopOf(u, S, bad)
    BY <2>1 DEF Inv, Types, ItemsOK
  <2> HIDE DEF T
  <2>4. unstarted \in Known(Len(name)) /\ unstarted \subseteq T
    BY <2>2, BadIsKnown DEF T
  <2>5. /\ u \in Infos(Len(name))
        /\ u.started = info.started \cup (T \ unstarted)
        /\ u.failed = (info.failed \ (T \ info.started)) \cup ((T \ info.started) \cap unstarted)
    BY <2>2, <2>3, <2>4, StartFacts
  <2> HIDE DEF u
  <2>6. /\ \A x \in S : x \in info'.started => x \in info'.failed
        /\ \A x : x \notin S => (x \in info'.started <=> x \in u.started)
        /\ u.failed \subseteq info'.failed
    BY <1>3, <2>3, <2>5, StopRuns
  <2>7. It \in info'.started \cup info'.failed
    BY <1>3, <2>2, <2>5, <2>6
  <2>8. \A i \in Range(tree) : Followed(i) \/ LeftAlone(i)
    <3>1. Followed(It)
      BY <1>1, <1>3, <2>7 DEF Followed
    <3>2. \A i \in S : Followed(i)
      BY <1>1, <2>6 DEF Followed
    <3>3. ASSUME NEW i, i # It, i \notin S PROVE LeftAlone(i)
      BY <1>1, <2>2, <2>5, <2>6, <3>3 DEF LeftAlone, Starters
    <3>4. QED
      BY <1>3, <3>1, <3>2, <3>3
  <2>9. \A j \in Range(aq') : j.op = "start" /\ j.arg \in enabled => j.arg \in enabled' \cup strays'
    <3>1. ASSUME NEW j \in Range(aq'), j.op = "start", j.arg \in S PROVE Queued(j.arg)
      BY <1>1, <3>1, JobTaken DEF Queued, Range
    <3>2. QED
      BY <1>1, <3>1
  <2>10. strays \subseteq strays'
    BY <1>1
  <2>11. QED
    BY <1>1, <2>8, <2>9, <2>10, NothingPosted, JobIsFollowed
<1>8. QED
  BY <1>6, <1>7

\* When a session ends no plugin of the tree runs.
LEMMA StopSessionFollowed ==
  ASSUME Inv, Uncrossed, Following, StopSessionJob, ~crossed' PROVE Following'
<1>1. JobStep /\ posts' = <<>> /\ UNCHANGED <<tree, enabled, strays>> /\ loaded' = "gone"
  <2>1. loaded' = "gone"
    BY StopSessionGives DEF GoneStep, SessionGone
  <2>2. QED
    BY <2>1, StopSessionJobStep DEF Inv, StopSessionJob
<1>2. RestartInv'
  BY <1>1, NothingPosted, RestartsTaken DEF Following
<1>3. StartInv'
  BY <1>1, JobTaken, EmptyPosts DEF Following, StartInv, Pending
<1>4. RunInv'
  BY <1>1 DEF RunInv
<1>5. QED
  BY <1>2, <1>3, <1>4 DEF Following

\* The Autostart macro starts the plugins of a new session.
LEMMA StartSessionFollowed == ASSUME Inv, Uncrossed, Following, StartSessionJob PROVE Following'
<1>1. JobStep /\ posts' = <<>> /\ strays' = strays /\ Head(aq).op = "startSession"
  BY StartSessionJobStep DEF Inv, StartSessionJob, Take
<1>2. PICK complete \in BOOLEAN : MadeStep(complete)
  BY StartSessionGives
<1>3. loaded # "yes" /\ \A j \in Range(aq') : j.op = "start" => j.arg \in strays
  BY <1>1, BeforeSession
<1>4. RestartInv'
  BY <1>1, NothingPosted, RestartsTaken DEF Following
<1>5. StartInv'
  BY <1>1, <1>3, EmptyPosts DEF StartInv, Pending
<1>6. RunInv'
  <2>1. CASE complete
    BY <1>2, <2>1 DEF MadeStep, SessionMade, RunInv
  <2>2. CASE ~complete
    BY <1>2, <1>3, <2>2 DEF MadeStep, SessionMade, RunInv
  <2>3. QED
    BY <2>1, <2>2
<1>7. QED
  BY <1>4, <1>5, <1>6 DEF Following

\* Every job keeps it.
LEMMA JobKeepsFollowing ==
  ASSUME Inv, Uncrossed, Following, ~crossed', AnyJob PROVE Following'
<1>1. CASE HandlerJob("undo") \/ HandlerJob("redo")
  BY <1>1, HandlerFollowed DEF HandlerOps
<1>2. CASE ~(HandlerJob("undo") \/ HandlerJob("redo"))
  BY <1>2, StartFollowed, StopFollowed, ExecuteFollowed, CloseFollowed, FaultFollowed, CreateFollowed,
     ItemJobsFollowed, MacroFollowed, ExclusiveFollowed, StopSessionFollowed, StartSessionFollowed
     DEF AnyJob
<1>3. QED
  BY <1>1, <1>2


-----------------------------------------------------------------------------
(* The other steps only move jobs and answers. *)
runFrame == <<info, tree, enabled, loaded>>

\* What a job left or was asked for still waits.
LEMMA WaitingFollowed ==
  ASSUME RunInv, StartInv, UNCHANGED runFrame, strays \subseteq strays',
         \A j \in Pending : j.op \in Starters => \E i \in Pending' : i.op = j.op /\ i.arg = j.arg,
         \A i \in Pending' : i.op = "start" =>
           i.arg \in strays' \/ \E j \in Pending : i.op = j.op /\ i.arg = j.arg,
         Shown \subseteq Starting'
  PROVE  RunInv' /\ StartInv'
<1>1. StartedBy(Pending) \subseteq StartedBy(Pending')
  <2>1. ASSUME NEW j \in Pending, j.op \in Starters PROVE j.arg \in StartedBy(Pending')
    BY <2>1 DEF StartedBy
  <2>2. QED
    BY <2>1 DEF StartedBy
<1>2. Starting \subseteq Starting'
  BY <1>1 DEF Starting
<1>3. RunInv'
  BY <1>2 DEF runFrame, RunInv
<1>4. StartInv'
  BY DEF runFrame, StartInv
<1>5. QED
  BY <1>3, <1>4

\* The same jobs wait.
LEMMA SameFollowed ==
  ASSUME Following, UNCHANGED runFrame, UNCHANGED <<strays, aq, posts>>, Shown \subseteq Shown'
  PROVE  Following'
<1>1. Pending' = Pending
  BY DEF Pending
<1>2. Shown \subseteq Starting'
  BY DEF Starting
<1>3. RunInv' /\ StartInv'
  BY <1>1, <1>2, WaitingFollowed DEF Following
<1>4. RestartInv'
  BY DEF Following, RestartInv
<1>5. QED
  BY <1>3, <1>4 DEF Following

\* The queue with one more job at its end.
LEMMA QueueAppended ==
  ASSUME aq \in Seq(Jobs), NEW e, aq' = Append(aq, e)
  PROVE  /\ Range(aq') = Range(aq) \cup {e}
         /\ Len(aq) \in Nat /\ DOMAIN aq = 1..Len(aq) /\ DOMAIN aq' = 1..Len(aq) + 1
         /\ aq'[Len(aq) + 1] = e /\ \A k \in DOMAIN aq : aq'[k] = aq[k]
<1> DEFINE S == Jobs \cup {e}
<1>1. aq \in Seq(S) /\ e \in S
  BY WiderSeq
<1> HIDE DEF S
<1>2. Range(aq') = Range(aq) \cup {e}
  BY <1>1, RangeOfAppend
<1>3. QED
  BY <1>1, <1>2

\* One more job waits, which is not a Stop.
LEMMA AppendFollowed ==
  ASSUME Inv, Following, UNCHANGED runFrame, strays \subseteq strays', posts' = posts,
         NEW e, aq' = Append(aq, e), e.op # "stop", e.op = "start" => e.arg \in strays',
         Shown \subseteq Shown' \cup StartedBy({e})
  PROVE  Following'
<1>1. /\ Range(aq') = Range(aq) \cup {e}
      /\ Len(aq) \in Nat /\ DOMAIN aq = 1..Len(aq) /\ DOMAIN aq' = 1..Len(aq) + 1
      /\ aq'[Len(aq) + 1] = e /\ \A k \in DOMAIN aq : aq'[k] = aq[k]
  BY QueueAppended DEF Inv, Types, QueuesOK
<1>2. Pending' = Pending \cup {e}
  BY <1>1 DEF Pending
<1>3. Shown \subseteq Starting'
  BY <1>2 DEF Starting, StartedBy
<1>4. RunInv' /\ StartInv'
  BY <1>2, <1>3, WaitingFollowed DEF Following
<1>5. RestartInv'
  <2>1. ASSUME NEW k \in DOMAIN aq', aq'[k].op = "stop"
        PROVE  \/ \E l \in DOMAIN aq' : k < l /\ Restarts(aq'[l], aq'[k].arg)
               \/ \E j \in Range(posts) : Restarts(j, aq'[k].arg)
    <3>1. k \in DOMAIN aq /\ aq'[k] = aq[k]
      BY <1>1, <2>1
    <3>2. \/ \E l \in DOMAIN aq : k < l /\ Restarts(aq[l], aq[k].arg)
          \/ \E j \in Range(posts) : Restarts(j, aq[k].arg)
      BY <2>1, <3>1 DEF Following, RestartInv
    <3>3. DOMAIN aq \subseteq DOMAIN aq'
      BY <1>1
    <3>4. QED
      BY <1>1, <3>1, <3>2, <3>3
  <2>2. QED
    BY <2>1 DEF Following, RestartInv
<1>6. QED
  BY <1>4, <1>5 DEF Following

\* The Start goes behind its Stop.
LEMMA PostFollowed == ASSUME Inv, Following, Post PROVE Following'
<1> DEFINE e == Head(posts)
<1>1. /\ posts # <<>> /\ aq' = Append(aq, e) /\ posts' = Tail(posts)
      /\ UNCHANGED runFrame /\ UNCHANGED <<strays, done, mpc, mreply, mval>>
  BY DEF Post, pluginVars, mainVars, runFrame
<1>2. aq \in Seq(Jobs) /\ posts \in Seq(Jobs)
  BY DEF Inv, Types, QueuesOK, PostsOK
<1>3. Range(posts) = {e} \cup Range(posts')
  BY <1>1, <1>2, RangeOfTail
<1>4. /\ Len(posts) \in Nat \ {0} /\ DOMAIN posts = 1..Len(posts) /\ DOMAIN posts' = 1..Len(posts) - 1
      /\ posts[1] = e /\ \A k \in DOMAIN posts' : k + 1 \in DOMAIN posts /\ posts'[k] = posts[k + 1]
  BY <1>1, <1>2
<1> HIDE DEF e
<1>5. /\ Range(aq') = Range(aq) \cup {e}
      /\ Len(aq) \in Nat /\ DOMAIN aq = 1..Len(aq) /\ DOMAIN aq' = 1..Len(aq) + 1
      /\ aq'[Len(aq) + 1] = e /\ \A k \in DOMAIN aq : aq'[k] = aq[k]
  BY <1>1, <1>2, QueueAppended
<1>6. RunInv' /\ StartInv'
  <2>1. Pending' = Pending
    BY <1>3, <1>5 DEF Pending
  <2>2. Shown' = Shown
    BY <1>1 DEF Shown
  <2>3. Shown \subseteq Starting'
    BY <2>2 DEF Starting
  <2>4. QED
    BY <1>1, <2>1, <2>3, WaitingFollowed DEF Following
<1>7. ASSUME NEW k \in DOMAIN posts, posts[k].op = "stop"
      PROVE  \E l \in DOMAIN posts' : k < l + 1 /\ Restarts(posts'[l], posts[k].arg)
  <2>1. PICK l \in DOMAIN posts : k < l /\ Restarts(posts[l], posts[k].arg)
    BY <1>7 DEF Following, RestartInv
  <2>2. l - 1 \in DOMAIN posts' /\ (l - 1) + 1 = l
    BY <1>4, <2>1
  <2>3. posts'[l - 1] = posts[l]
    BY <1>4, <2>2
  <2>4. QED
    BY <2>1, <2>2, <2>3
<1>8. ASSUME NEW k \in DOMAIN aq', aq'[k].op = "stop"
      PROVE  \/ \E l \in DOMAIN aq' : k < l /\ Restarts(aq'[l], aq'[k].arg)
             \/ \E j \in Range(posts') : Restarts(j, aq'[k].arg)
  <2>1. CASE k \in DOMAIN aq
    <3>1. aq'[k] = aq[k] /\ DOMAIN aq \subseteq DOMAIN aq' /\ Len(aq) + 1 \in DOMAIN aq' /\ k < Len(aq) + 1
      BY <1>5, <2>1
    <3>2. \/ \E l \in DOMAIN aq : k < l /\ Restarts(aq[l], aq[k].arg)
          \/ \E j \in Range(posts) : Restarts(j, aq[k].arg)
      BY <1>8, <2>1, <3>1 DEF Following, RestartInv
    <3>3. CASE \E l \in DOMAIN aq : k < l /\ Restarts(aq[l], aq[k].arg)
      BY <1>5, <3>1, <3>3
    <3>4. CASE \E j \in Range(posts) : Restarts(j, aq[k].arg)
      BY <1>3, <1>5, <3>1, <3>4
    <3>5. QED
      BY <3>2, <3>3, <3>4
  <2>2. CASE k \notin DOMAIN aq
    <3>1. aq'[k] = posts[1] /\ 1 \in DOMAIN posts
      BY <1>4, <1>5, <2>2
    <3>2. PICK l \in DOMAIN posts' : Restarts(posts'[l], posts[1].arg)
      BY <1>7, <1>8, <3>1
    <3>3. posts'[l] \in Range(posts')
      BY DEF Range
    <3>4. QED
      BY <3>1, <3>2, <3>3
  <2>3. QED
    BY <2>1, <2>2
<1>9. ASSUME NEW k \in DOMAIN posts', posts'[k].op = "stop"
      PROVE  \E l \in DOMAIN posts' : k < l /\ Restarts(posts'[l], posts'[k].arg)
  <2>1. k + 1 \in DOMAIN posts /\ posts[k + 1] = posts'[k]
    BY <1>4
  <2>2. PICK l \in DOMAIN posts' : k + 1 < l + 1 /\ Restarts(posts'[l], posts'[k].arg)
    BY <1>7, <1>9, <2>1
  <2>3. k < l
    BY <1>4, <2>2
  <2>4. QED
    BY <2>2, <2>3
<1>10. QED
  BY <1>6, <1>8, <1>9 DEF Following, RestartInv

\* The item that NewPlugin.Do is answered is the one it goes on with.
LEMMA AnswerFollowed == ASSUME Inv, Following, Answer PROVE Following'
<1>1. /\ done.by # "nobody" /\ done' = NobodyWaits
      /\ UNCHANGED runFrame /\ UNCHANGED <<strays, aq, posts, mpc>>
      /\ done.by = "main" => mreply' = (IF done.ok THEN "ok" ELSE "raised") /\ mval' = done.val
      /\ done.by # "main" => UNCHANGED <<mreply, mval>>
  BY DEF Answer, pluginVars, runFrame
<1>2. done.by = "main" => mreply = "none"
  BY DEF Inv, MainInv
<1>3. done'.by = "nobody"
  BY <1>1 DEF NobodyWaits
<1>4. Shown \subseteq Shown'
  BY <1>1, <1>2, <1>3 DEF Shown
<1>5. QED
  BY <1>1, <1>4, SameFollowed

\* The event thread hands on what is neither a Start nor a Stop.
LEMMA TakeEventFollowed == ASSUME Inv, Following, TakeEvent PROVE Following'
<1>1. /\ UNCHANGED runFrame /\ UNCHANGED <<strays, posts, done, mpc, mreply, mval>>
      /\ aq' = aq \/ \E e : aq' = Append(aq, e) /\ e.op \in {"stopSession", "startSession", "macro"}
  BY DEF TakeEvent, eventSame, pluginVars, runFrame, Job
<1>2. Shown' = Shown
  BY <1>1 DEF Shown
<1>3. QED
  BY <1>1, <1>2, SameFollowed, AppendFollowed

\* The main thread is not in NewPlugin.Do while a session ends.
LEMMA SessionAnsweredFollowed == ASSUME Inv, Following, SessionAnswered PROVE Following'
<1>1. /\ UNCHANGED runFrame /\ UNCHANGED <<strays, aq, posts, done, mpc, mval>>
      /\ epc # "stopping" => mreply' = mreply
  BY DEF SessionAnswered, eventSame, pluginVars, runFrame
<1>2. epc = "stopping" => mpc # "create"
  BY DEF Inv, UnloadInv
<1>3. Shown \subseteq Shown'
  BY <1>1, <1>2 DEF Shown
<1>4. QED
  BY <1>1, <1>3, SameFollowed

\* The jobs on plugins stay as they are.
LEMMA TimeOutFollowed == ASSUME Inv, Following, TimeOut PROVE Following'
<1>1. /\ UNCHANGED runFrame /\ UNCHANGED <<strays, posts, mpc, mval>>
      /\ epc # "stopping" => mreply' = mreply
      /\ done' = IF done.by = "event" THEN NobodyWaits ELSE done
  BY DEF TimeOut, pluginVars, runFrame
<1>2. /\ DOMAIN aq' = DOMAIN aq
      /\ \A k \in DOMAIN aq : aq'[k].op = aq[k].op /\ aq'[k].arg = aq[k].arg
  BY TimeOutJobs
<1>3. epc = "stopping" => mpc # "create"
  BY DEF Inv, UnloadInv
<1>4. Shown \subseteq Starting'
  BY <1>1, <1>3 DEF Shown, Starting, NobodyWaits
<1>5. \A j \in Pending : \E i \in Pending' : i.op = j.op /\ i.arg = j.arg
  BY <1>1, <1>2 DEF Pending, Range
<1>6. \A i \in Pending' : \E j \in Pending : i.op = j.op /\ i.arg = j.arg
  BY <1>1, <1>2 DEF Pending, Range
<1>7. RunInv' /\ StartInv'
  BY <1>1, <1>4, <1>5, <1>6, WaitingFollowed DEF Following
<1>8. RestartInv'
  BY <1>1, <1>2 DEF Following, RestartInv, Restarts
<1>9. QED
  BY <1>7, <1>8 DEF Following


\* NewPlugin.Do leaves the new plugin's Start to a job, or its removal.
LEMMA CreatedFollowed == ASSUME Inv, Following, Created PROVE Following'
<1>1. UNCHANGED runFrame /\ UNCHANGED <<strays, posts>> /\ mreply # "none"
  BY DEF Created, mainSame, pluginVars, runFrame
<1>2. done.by # "main"
  BY <1>1 DEF Inv, MainInv
<1>3. CASE mreply = "raised" /\ aq' = aq
  <2>1. Shown = {}
    BY <1>2, <1>3 DEF Shown
  <2>2. QED
    BY <1>1, <1>3, <2>1, SameFollowed
<1>4. ASSUME NEW op \in {"execute", "setArgs", "delete"}, NEW by, aq' = Append(aq, Job(op, mval.item, by))
      PROVE  Following'
  <2> DEFINE e == Job(op, mval.item, by)
  <2>1. aq' = Append(aq, e) /\ e.op = op /\ e.arg = mval.item
    BY <1>4 DEF Job
  <2> HIDE DEF e
  <2>2. e.op \in Starters /\ e.op \notin {"start", "stop"}
    BY <2>1 DEF Starters
  <2>3. mval.item \in StartedBy({e})
    BY <2>1, <2>2 DEF StartedBy
  <2>4. Shown \subseteq {mval.item}
    BY <1>2 DEF Shown
  <2>5. QED
    BY <1>1, <2>1, <2>2, <2>3, <2>4, AppendFollowed
<1>5. QED
  BY <1>3, <1>4 DEF Created

\* The other commands append what is neither a Start nor a Stop.
LEMMA GotFollowed ==
  ASSUME Inv, Following, Unloaded \/ SetUp \/ Edited \/ Undone \/ Redone \/ Exited PROVE Following'
<1>1. /\ UNCHANGED mainSame /\ mpc \in {"unload", "setup", "edit", "undo", "redo", "exit"}
      /\ aq' = aq \/ \E e : aq' = Append(aq, e) /\ e.op \in {"execute", "quit"}
  BY DEF Unloaded, SetUp, Edited, Undone, Redone, Exited, Job, Got
<1>2. UNCHANGED runFrame /\ UNCHANGED <<strays, posts>> /\ mpc # "create"
  BY <1>1 DEF mainSame, pluginVars, runFrame
<1>3. Shown = {}
  BY <1>2 DEF Shown
<1>4. QED
  BY <1>1, <1>2, <1>3, SameFollowed, AppendFollowed

\* The commands of the user, when no dialog is shown.
LEMMA CommandFollowed == ASSUME Inv, Following, ~crossed', Command PROVE Following'
<1>1. ASSUME NEW e, NEW pc, NEW h, Ask(e, pc, h), e.op \notin {"start", "stop"} PROVE Following'
  <2>1. /\ UNCHANGED runFrame /\ UNCHANGED <<strays, posts>> /\ mpc = "idle" /\ aq' = Append(aq, e)
    BY <1>1, SettledCommand DEF Ask, AskAnyway, mainSame, pluginVars, runFrame
  <2>2. Shown = {}
    BY <2>1 DEF Shown
  <2>3. QED
    BY <1>1, <2>1, <2>2, AppendFollowed
<1>2. ASSUME NEW f \in Files, OpenFile(f) PROVE Following'
  <2>1. UNCHANGED runFrame /\ UNCHANGED <<strays, aq, posts>> /\ mpc = "idle"
    BY <1>2, SettledCommand DEF OpenFile, mainSame, pluginVars, runFrame
  <2>2. Shown = {}
    BY <2>1 DEF Shown
  <2>3. QED
    BY <2>1, <2>2, SameFollowed
<1>3. ASSUME NEW k \in DOMAIN tree, Edit(k) PROVE Following'
  <2>0. PICK op \in {"delete", "toggle", "setArgs"} : \E h : Ask(Job(op, tree[k], "main"), "edit", h)
    BY <1>3 DEF Edit
  <2>1. PICK h : Ask(Job(op, tree[k], "main"), "edit", h)
    BY <2>0
  <2> DEFINE e == Job(op, tree[k], "main")
  <2>2. Ask(e, "edit", h) /\ e.op = op
    BY <2>1 DEF Job
  <2> HIDE DEF e
  <2>3. QED
    BY <1>1, <2>2
<1>4. CASE AddPlugin \/ Undo \/ Redo \/ Exit
  BY <1>1, <1>4 DEF AddPlugin, Undo, Redo, Exit, Job
<1>5. ~(\E i \in DOMAIN name : EditLeft(i))
  BY DEF EditLeft
<1>6. QED
  BY <1>2, <1>3, <1>4, <1>5 DEF Command

\* A Start that comes from outside is one that `strays` knows.
LEMMA OutsideFollowed == ASSUME Inv, Following, Outside PROVE Following'
<1>1. UNCHANGED runFrame /\ UNCHANGED <<posts, done, mpc, mreply, mval>>
  BY DEF Outside, mainVars, runFrame
<1>2. Shown' = Shown
  BY <1>1 DEF Shown
<1>3. CASE UNCHANGED <<aq, strays>>
  BY <1>1, <1>2, <1>3, SameFollowed
<1>4. ASSUME NEW i, aq' = Append(aq, Job("fault", i, "nobody")), strays' = strays PROVE Following'
  <2> DEFINE e == Job("fault", i, "nobody")
  <2>1. aq' = Append(aq, e) /\ e.op = "fault"
    BY <1>4 DEF Job
  <2> HIDE DEF e
  <2>2. QED
    BY <1>1, <1>2, <1>4, <2>1, AppendFollowed
<1>5. ASSUME NEW i, aq' = Append(aq, Job("start", i, "nobody")), strays' = strays \cup {i}
      PROVE  Following'
  <2> DEFINE e == Job("start", i, "nobody")
  <2>1. aq' = Append(aq, e) /\ e.op = "start" /\ e.arg = i
    BY <1>5 DEF Job
  <2> HIDE DEF e
  <2>2. QED
    BY <1>1, <1>2, <1>5, <2>1, AppendFollowed
<1>6. QED
  BY <1>3, <1>4, <1>5 DEF Outside

FollowInv == FullInv /\ (~crossed => Following)

\* Nothing waits when the program starts, and there is no tree.
LEMMA InitGivesFollowing == Init => Following
<1> SUFFICES ASSUME Init PROVE Following
  OBVIOUS
<1>1. aq = <<>> /\ posts = <<>> /\ loaded = "no"
  BY DEF Init
<1>2. Pending = {} /\ DOMAIN aq = {} /\ DOMAIN posts = {}
  BY <1>1 DEF Pending, Range
<1>3. QED
  BY <1>1, <1>2 DEF Following, RunInv, StartInv, RestartInv

\* The invariant is inductive.
LEMMA FollowStep == FollowInv /\ [Next]_vars => FollowInv'
<1> SUFFICES ASSUME FollowInv, [Next]_vars, ~crossed' PROVE Following'
  BY FullStep DEF FollowInv
<1>1. CASE UNCHANGED vars
  <2>1. UNCHANGED runFrame /\ UNCHANGED <<strays, aq, posts, done, mpc, mreply, mval, crossed>>
    BY <1>1 DEF vars, pluginVars, actionVars, mainVars, runFrame
  <2>2. Shown' = Shown /\ Following
    BY <2>1 DEF Shown, FollowInv
  <2>3. QED
    BY <2>1, <2>2, SameFollowed
<1>2. CASE Next
  <2>1. Inv /\ Uncrossed /\ Following
    BY <1>2, CrossedStays DEF FollowInv, FullInv
  <2>2. CASE ActionThread
    BY <2>1, <2>2, JobKeepsFollowing, PostFollowed, AnswerFollowed DEF ActionThread, AnyJob
  <2>3. CASE EventThread \/ TimeOut
    BY <2>1, <2>3, TakeEventFollowed, SessionAnsweredFollowed, TimeOutFollowed DEF EventThread
  <2>4. CASE MainGoesOn
    BY <2>1, <2>4, CreatedFollowed, GotFollowed DEF MainGoesOn, DialogAgain
  <2>5. CASE Command \/ Outside
    BY <2>1, <2>5, CommandFollowed, OutsideFollowed
  <2>6. QED
    BY <1>2, <2>2, <2>3, <2>4, <2>5 DEF Next
<1>3. QED
  BY <1>1, <1>2

\* SetEnable, SetArguments, Execute and the plugins' faults: when nothing is
\* under way, a plugin of the tree runs if and only if it is enabled, except
\* for one with an exception and one that a queued Start found disabled, in a
\* history that is not `crossed`.
THEOREM EnabledHolds == Spec => []EnabledIsStarted
<1>1. Init => FollowInv
  BY InitGivesInv, InitGivesUncrossed, InitGivesFollowing DEF FollowInv, FullInv
<1>2. FollowInv => EnabledIsStarted
  <2> SUFFICES ASSUME FollowInv, Quiet, ~crossed
               PROVE  /\ Range(tree) \cap enabled \subseteq info.started \cup info.failed
                      /\ (Range(tree) \ enabled) \cap info.started \subseteq info.failed \cup strays
    BY DEF EnabledIsStarted
  <2>1. Pending = {} /\ Shown = {} /\ loaded = "yes"
    BY DEF Quiet, Pending, Shown, Range
  <2>2. Starting = {}
    BY <2>1 DEF Starting, StartedBy
  <2>3. QED
    BY <2>1, <2>2 DEF FollowInv, Following, RunInv
<1>3. QED
  BY <1>1, <1>2, FollowStep, PTL DEF Spec

-----------------------------------------------------------------------------
(***************************************************************************)
(* The names of the tree, and the way back through the undo handlers.      *)
(***************************************************************************)
\* b is a with the name n put in at place p.
Inserted(a, p, n, b) ==
  /\ a \in Seq(Nat) /\ b \in Seq(Nat) /\ Len(b) = Len(a) + 1
  /\ p \in 1..Len(b) /\ b[p] = n /\ n \notin Range(a)
  /\ \A k \in 1..Len(a) : b[IF k < p THEN k ELSE k + 1] = a[k]

\* What handler h does to the names when it is done or redone.
Leads(a, h, b) ==
  \/ h.kind = "new" /\ Inserted(a, h.pos, h.name, b)
  \/ h.kind = "clear" /\ Inserted(b, h.pos, h.name, a)
  \/ h.kind \in {"toggle", "configure"} /\ a \in Seq(Nat) /\ b = a /\ h.pos \in 1..Len(a)

\* The handlers of stock s, from the last one on, lead from a through the trees
\* of w.
Passes(op, h, a, b) == IF op = "undo" THEN Leads(b, h, a) ELSE Leads(a, h, b)
WaysOf(op, s, a, w) ==
  /\ w \in [0..Len(s) -> Seq(Nat)] /\ w[Len(s)] = a
  /\ \A k \in 1..Len(s) : Passes(op, s[k], w[k], w[k - 1])
Usable(op, s, a) == \E w : WaysOf(op, s, a, w)

\* Two sequences with the same elements are equal.
LEMMA SameSeq ==
  ASSUME NEW a \in Seq(Nat), NEW b \in Seq(Nat), Len(a) = Len(b),
         \A k \in 1..Len(a) : a[k] = b[k]
  PROVE  a = b
  OBVIOUS

\* There is one way to put a name in.
LEMMA InsertedOnce ==
  ASSUME NEW a, NEW p, NEW n, NEW b, NEW c, Inserted(a, p, n, b), Inserted(a, p, n, c)
  PROVE  b = c
<1>1. /\ a \in Seq(Nat) /\ b \in Seq(Nat) /\ c \in Seq(Nat) /\ Len(b) = Len(a) + 1 /\ Len(c) = Len(a) + 1
      /\ Len(a) \in Nat /\ p \in 1..Len(a) + 1 /\ b[p] = n /\ c[p] = n
  BY DEF Inserted
<1>2. ASSUME NEW k \in 1..Len(a) + 1 PROVE b[k] = c[k]
  <2>1. CASE k < p
    <3>1. k \in 1..Len(a)
      BY <1>1, <2>1
    <3>2. b[k] = a[k] /\ c[k] = a[k]
      BY <2>1, <3>1 DEF Inserted
    <3>3. QED
      BY <3>2
  <2>2. CASE k > p
    <3>1. k - 1 \in 1..Len(a) /\ ~(k - 1 < p) /\ (k - 1) + 1 = k
      BY <1>1, <2>2
    <3>2. b[(k - 1) + 1] = a[k - 1] /\ c[(k - 1) + 1] = a[k - 1]
      BY <3>1 DEF Inserted
    <3>3. QED
      BY <3>1, <3>2
  <2>3. CASE k = p
    BY <1>1, <2>3
  <2>4. QED
    BY <1>1, <2>1, <2>2, <2>3
<1>3. QED
  BY <1>1, <1>2, SameSeq

\* There is one way to take it out.
LEMMA RemovedOnce ==
  ASSUME NEW a, NEW p, NEW n, NEW m, NEW b, NEW c, Inserted(a, p, n, b), Inserted(c, p, m, b)
  PROVE  a = c
<1>1. /\ a \in Seq(Nat) /\ c \in Seq(Nat) /\ Len(c) = Len(a) /\ Len(a) \in Nat
  BY DEF Inserted
<1>2. ASSUME NEW k \in 1..Len(a) PROVE a[k] = c[k]
  BY <1>1, <1>2 DEF Inserted
<1>3. QED
  BY <1>1, <1>2, SameSeq

\* A name is taken out of names that differ.
LEMMA TakenOut ==
  ASSUME NEW b \in Seq(Nat), IsInjective(b), NEW p \in 1..Len(b), NEW a \in Seq(Nat),
         Len(b) = Len(a) + 1, \A k \in 1..Len(a) : b[IF k < p THEN k ELSE k + 1] = a[k]
  PROVE  Inserted(a, p, b[p], b)
<1>1. ASSUME b[p] \in Range(a) PROVE FALSE
  <2>1. PICK k \in 1..Len(a) : a[k] = b[p]
    BY <1>1 DEF Range
  <2> DEFINE l == IF k < p THEN k ELSE k + 1
  <2>2. l \in 1..Len(b) /\ l # p /\ b[l] = b[p]
    BY <2>1
  <2>3. DOMAIN b = 1..Len(b)
    OBVIOUS
  <2> HIDE DEF l
  <2>4. l \in DOMAIN b /\ p \in DOMAIN b
    BY <2>2, <2>3
  <2>5. QED
    BY <2>2, <2>4 DEF IsInjective
<1>2. QED
  BY <1>1 DEF Inserted

\* The empty stock, a handler put on the stock, and one taken from it.
LEMMA NothingUsable == ASSUME NEW op, NEW a \in Seq(Nat) PROVE Usable(op, <<>>, a)
<1> DEFINE w == [k \in 0..Len(<<>>) |-> a]
<1>1. w \in [0..Len(<<>>) -> Seq(Nat)] /\ w[Len(<<>>)] = a
  BY Len(<<>>) = 0
<1>2. \A k \in 1..Len(<<>>) : Passes(op, <<>>[k], w[k], w[k - 1])
  BY Len(<<>>) = 0
<1> HIDE DEF w
<1>3. WaysOf(op, <<>>, a, w)
  BY <1>1, <1>2 DEF WaysOf
<1>4. QED
  BY <1>3 DEF Usable

\* A handler is put on the stock that leads back to where the stock started.
LEMMA PushUsable ==
  ASSUME NEW s \in Seq(Handlers), NEW op, NEW a, Usable(op, s, a), NEW h \in Handlers,
         NEW b \in Seq(Nat), Passes(op, h, b, a)
  PROVE  Usable(op, Append(s, h), b)
<1>1. PICK w : WaysOf(op, s, a, w)
  BY DEF Usable
<1> DEFINE n == Len(s)
           t == Append(s, h)
           v == [k \in 0..n + 1 |-> IF k = n + 1 THEN b ELSE w[k]]
<1>2. n \in Nat /\ Len(t) = n + 1 /\ t[n + 1] = h /\ \A k \in 1..n : t[k] = s[k]
  OBVIOUS
<1>3. w \in [0..n -> Seq(Nat)] /\ w[n] = a /\ \A k \in 1..n : Passes(op, s[k], w[k], w[k - 1])
  BY <1>1 DEF WaysOf
<1> HIDE DEF t, n
<1>4. v \in [0..n + 1 -> Seq(Nat)]
  BY <1>2, <1>3
<1>5. v[n + 1] = b /\ v[n] = w[n] /\ \A k \in 0..n : v[k] = w[k]
  BY <1>2
<1> HIDE DEF v
<1>6. ASSUME NEW k \in 1..n + 1 PROVE Passes(op, t[k], v[k], v[k - 1])
  <2>1. CASE k = n + 1
    <3>1. k - 1 = n
      BY <1>2, <2>1
    <3>2. v[k] = b /\ v[k - 1] = a /\ t[k] = h
      BY <1>2, <1>3, <1>5, <2>1, <3>1
    <3>3. QED
      BY <3>2
  <2>2. CASE k # n + 1
    <3>1. k \in 1..n /\ k \in 0..n /\ k - 1 \in 0..n
      BY <1>2, <2>2
    <3>2. v[k] = w[k] /\ v[k - 1] = w[k - 1] /\ t[k] = s[k]
      BY <1>2, <1>5, <3>1
    <3>3. Passes(op, s[k], w[k], w[k - 1])
      BY <1>3, <3>1
    <3>4. QED
      BY <3>2, <3>3
  <2>3. QED
    BY <2>1, <2>2
<1>7. WaysOf(op, t, b, v)
  BY <1>2, <1>4, <1>5, <1>6 DEF WaysOf
<1>8. QED
  BY <1>7 DEF Usable, t

\* A handler is taken from the stock, and leads to where what is left starts.
LEMMA PopUsable ==
  ASSUME NEW s \in Seq(Handlers), s # <<>>, NEW op, NEW b, Usable(op, s, b)
  PROVE  \E a : Usable(op, Front(s), a) /\ Passes(op, Last(s), b, a)
<1>1. PICK w : WaysOf(op, s, b, w)
  BY DEF Usable
<1> DEFINE n == Len(s) - 1
           t == Front(s)
           v == [k \in 0..n |-> w[k]]
<1>2. n \in Nat /\ Len(s) = n + 1 /\ Len(t) = n /\ \A k \in 1..n : t[k] = s[k]
  <2>1. n \in Nat /\ Len(s) = n + 1
    OBVIOUS
  <2>2. t = SubSeq(s, 1, n)
    BY DEF Front
  <2> HIDE DEF n, t
  <2>3. QED
    BY <2>1, <2>2
<1>3. /\ w \in [0..n + 1 -> Seq(Nat)] /\ w[n + 1] = b
      /\ \A k \in 1..n + 1 : Passes(op, s[k], w[k], w[k - 1])
  BY <1>1, <1>2 DEF WaysOf
<1>4. Last(s) = s[n + 1]
  BY <1>2 DEF Last
<1> HIDE DEF t, n
<1>5. v \in [0..n -> Seq(Nat)] /\ \A k \in 0..n : v[k] = w[k]
  BY <1>2, <1>3
<1> HIDE DEF v
<1>6. v[n] = w[n]
  BY <1>2, <1>5
<1>7. ASSUME NEW k \in 1..n PROVE Passes(op, t[k], v[k], v[k - 1])
  <2>1. k \in 1..n + 1 /\ k \in 0..n /\ k - 1 \in 0..n
    BY <1>2
  <2>2. v[k] = w[k] /\ v[k - 1] = w[k - 1] /\ t[k] = s[k]
    BY <1>2, <1>5, <2>1
  <2>3. QED
    BY <1>3, <2>1, <2>2
<1>8. WaysOf(op, t, w[n], v)
  BY <1>2, <1>5, <1>6, <1>7 DEF WaysOf
<1>9. Passes(op, Last(s), b, w[n])
  <2>1. n + 1 \in 1..n + 1 /\ (n + 1) - 1 = n
    BY <1>2
  <2>2. Passes(op, s[n + 1], w[n + 1], w[(n + 1) - 1])
    BY <1>3, <2>1
  <2>3. QED
    BY <1>3, <1>4, <2>1, <2>2
<1>10. QED
  BY <1>8, <1>9 DEF Usable, t

-----------------------------------------------------------------------------
\* The names of the plugins in the tree, in their order.
NamesOf(t, names) == [k \in DOMAIN t |-> names[t[k]]]
Shape == NamesOf(tree, name)

\* The names of the plugins in a tree are a sequence of numbers.
LEMMA NamesOfType ==
  ASSUME NEW names \in Seq(Nat), NEW t \in Seq(1..Len(names))
  PROVE  /\ NamesOf(t, names) \in Seq(Nat) /\ Len(NamesOf(t, names)) = Len(t) /\ Len(t) \in Nat
         /\ DOMAIN t = 1..Len(t)
         /\ \A k \in 1..Len(t) : NamesOf(t, names)[k] = names[t[k]] /\ t[k] \in 1..Len(names)
         /\ Range(NamesOf(t, names)) = {names[i] : i \in Range(t)}
<1> DEFINE s == NamesOf(t, names)
<1>1. /\ Len(t) \in Nat /\ DOMAIN t = 1..Len(t)
      /\ \A k \in 1..Len(t) : t[k] \in 1..Len(names)
      /\ \A i \in 1..Len(names) : names[i] \in Nat
  OBVIOUS
<1>2. s = [k \in 1..Len(t) |-> names[t[k]]]
  BY <1>1 DEF NamesOf
<1> HIDE DEF s
<1>3. s \in Seq(Nat) /\ Len(s) = Len(t)
  BY <1>1, <1>2
<1>4. Range(s) = {names[i] : i \in Range(t)}
  BY <1>1, <1>2 DEF Range
<1>5. QED
  BY <1>1, <1>2, <1>3, <1>4 DEF s

\* The same of the tree there is.
LEMMA ShapeType ==
  ASSUME ItemsOK
  PROVE  /\ Shape \in Seq(Nat) /\ Len(Shape) = Len(tree) /\ Len(tree) \in Nat
         /\ DOMAIN tree = 1..Len(tree)
         /\ \A k \in 1..Len(tree) : Shape[k] = name[tree[k]] /\ tree[k] \in 1..Len(name)
         /\ Range(Shape) = {name[i] : i \in Range(tree)}
BY NamesOfType DEF ItemsOK, Shape

\* The names of the tree as they were, when no item is taken out or put in.
LEMMA ShapeStays == ASSUME UNCHANGED <<tree, name>> PROVE Shape' = Shape
BY DEF Shape

\* An item is taken out of the tree.
LEMMA ShapeRemoved ==
  ASSUME ItemsOK, ItemsOK', NEW p \in DOMAIN tree, IsInjective(Shape),
         tree' = Without(tree[p]), name' = name
  PROVE  Inserted(Shape', p, name[tree[p]], Shape)
<1>1. /\ tree' \in Seq(1..Len(name)) /\ Len(tree') = Len(tree) - 1
      /\ \A k \in 1..Len(tree) - 1 : tree'[k] = IF k < p THEN tree[k] ELSE tree[k + 1]
  BY WithoutAt DEF ItemsOK
<1> DEFINE a == Shape'
<1>2. /\ Shape \in Seq(Nat) /\ Len(Shape) = Len(tree) /\ Len(tree) \in Nat /\ DOMAIN tree = 1..Len(tree)
      /\ \A k \in 1..Len(tree) : Shape[k] = name[tree[k]]
  BY ShapeType
<1>3. /\ a \in Seq(Nat) /\ Len(a) = Len(tree')
      /\ \A k \in 1..Len(tree') : a[k] = name'[tree'[k]]
  BY NamesOfType DEF ItemsOK, Shape
<1> HIDE DEF a
<1>4. Len(Shape) = Len(a) + 1 /\ p \in 1..Len(Shape) /\ Shape[p] = name[tree[p]]
  BY <1>1, <1>2, <1>3
<1>5. ASSUME NEW k \in 1..Len(a) PROVE Shape[IF k < p THEN k ELSE k + 1] = a[k]
  <2>1. k \in 1..Len(tree) - 1 /\ k \in 1..Len(tree) /\ k + 1 \in 1..Len(tree)
    BY <1>1, <1>2, <1>3
  <2>2. CASE k < p
    <3>1. Shape[k] = name[tree[k]] /\ a[k] = name[tree'[k]] /\ tree'[k] = tree[k]
      BY <1>1, <1>2, <1>3, <2>1, <2>2
    <3>2. QED
      BY <2>2, <3>1
  <2>3. CASE ~(k < p)
    <3>1. Shape[k + 1] = name[tree[k + 1]] /\ a[k] = name[tree'[k]] /\ tree'[k] = tree[k + 1]
      BY <1>1, <1>2, <1>3, <2>1, <2>3
    <3>2. QED
      BY <2>3, <3>1
  <2>4. QED
    BY <2>2, <2>3
<1>6. Inserted(a, p, Shape[p], Shape)
  BY <1>2, <1>3, <1>4, <1>5, TakenOut
<1>7. QED
  BY <1>4, <1>6 DEF a

\* A new item is put into the tree.
LEMMA ShapeOpened ==
  ASSUME ItemsOK, ItemsOK', NEW n \in Nat, NEW p \in 1..Len(tree) + 1, NEW on, NEW starts,
         Open(n, p, on, starts), n \notin info.names, n \notin Range(Shape)
  PROVE  /\ Inserted(Shape, p, n, Shape')
         /\ p \in DOMAIN tree' /\ tree'[p] = New
<1>1. /\ name' = Append(name, n) /\ New = Len(name) + 1
      /\ tree' = IF p > Len(tree) THEN Append(tree, New) ELSE InsertAt(tree, p, New)
  BY DEF Open, New
<1>2. /\ Shape \in Seq(Nat) /\ Len(Shape) = Len(tree) /\ Len(tree) \in Nat
      /\ \A k \in 1..Len(tree) : Shape[k] = name[tree[k]] /\ tree[k] \in 1..Len(name)
  BY ShapeType
<1>3. Len(name) \in Nat /\ name'[New] = n /\ \A i \in 1..Len(name) : name'[i] = name[i]
  BY <1>1 DEF ItemsOK
<1> DEFINE S == 1..Len(name) + 1
<1>4. tree \in Seq(S) /\ New \in S /\ p \in Nat /\ p >= 1
  BY <1>1, <1>2, <1>3, WiderSeq DEF ItemsOK
<1> HIDE DEF S
<1> DEFINE x == New
           q == IF p > Len(tree) THEN Len(tree) + 1 ELSE p
           t == IF p > Len(tree) THEN Append(tree, x) ELSE InsertAt(tree, p, x)
<1> HIDE DEF x
<1>5. q = p /\ tree' = t /\ x \in S /\ x = New
  BY <1>1, <1>2, <1>4 DEF x
<1>6. /\ Len(t) = Len(tree) + 1
      /\ \A k \in 1..Len(tree) + 1 : t[k] = IF k < q THEN tree[k] ELSE IF k = q THEN x ELSE tree[k - 1]
  BY <1>4, <1>5, InsertedAt DEF q, t
<1> HIDE DEF q, t
<1>11. /\ Len(tree') = Len(tree) + 1
       /\ \A k \in 1..Len(tree) + 1 :
            tree'[k] = IF k < p THEN tree[k] ELSE IF k = p THEN New ELSE tree[k - 1]
  BY <1>5, <1>6
<1> DEFINE b == Shape'
<1>7. /\ b \in Seq(Nat) /\ Len(b) = Len(tree') /\ DOMAIN tree' = 1..Len(tree')
      /\ \A k \in 1..Len(tree') : b[k] = name'[tree'[k]]
  BY NamesOfType DEF ItemsOK, Shape
<1> HIDE DEF b
<1>8. tree'[p] = New /\ b[p] = n /\ p \in DOMAIN tree'
  BY <1>2, <1>3, <1>7, <1>11
<1>9. ASSUME NEW k \in 1..Len(Shape) PROVE b[IF k < p THEN k ELSE k + 1] = Shape[k]
  <2>1. k \in 1..Len(tree) /\ k \in 1..Len(tree') /\ k + 1 \in 1..Len(tree') /\ (k + 1) - 1 = k
    BY <1>2, <1>11
  <2>2. Shape[k] = name[tree[k]] /\ name'[tree[k]] = name[tree[k]]
    BY <1>2, <1>3, <2>1
  <2>3. CASE k < p
    <3>1. k \in 1..Len(tree) + 1 /\ tree'[k] = tree[k]
      BY <1>2, <1>11, <2>1, <2>3
    <3>2. b[k] = name'[tree[k]]
      BY <1>7, <2>1, <3>1
    <3>3. QED
      BY <2>2, <2>3, <3>2
  <2>4. CASE ~(k < p)
    <3>1. ~(k + 1 < p) /\ k + 1 # p /\ k + 1 \in 1..Len(tree) + 1
      BY <1>2, <2>1, <2>4
    <3>2. tree'[k + 1] = tree[(k + 1) - 1]
      BY <1>11, <3>1
    <3>3. b[k + 1] = name'[tree[k]]
      BY <1>7, <2>1, <3>2
    <3>4. QED
      BY <2>2, <2>4, <3>3
  <2>5. QED
    BY <2>3, <2>4
<1>10. QED
  BY <1>2, <1>7, <1>8, <1>9, <1>11 DEF Inserted, b

\* While nothing came between, the names of the tree differ.
LEMMA NamesDiffer ==
  ASSUME Inv, Uncrossed, loaded = "yes"
  PROVE  IsInjective(Shape) /\ Range(Shape) \subseteq info.names
<1>1. /\ Opened = Range(tree) \cup Closing /\ info.names = {name[i] : i \in Opened}
      /\ \A i, k \in Opened : name[i] = name[k] => i = k
  BY DEF Uncrossed, DataInv, ListInv
<1>2. ItemsOK /\ IsInjective(tree)
  BY DEF Inv, Types, ItemsOK
<1>3. IsInjective(Shape)
  BY <1>1, <1>2 DEF IsInjective, Shape, NamesOf, Range
<1>4. QED
  BY <1>1, <1>2, <1>3, ShapeType

\* When no plugin waits for its close, the names in use are those of the tree.
LEMMA NamesOfTree ==
  ASSUME Inv, Uncrossed, loaded = "yes", Closing = {}
  PROVE  info.names = Range(Shape)
<1>1. Opened = Range(tree) /\ info.names = {name[i] : i \in Opened}
  BY DEF Uncrossed, DataInv, ListInv
<1>2. QED
  BY <1>1, ShapeType DEF Inv, Types

-----------------------------------------------------------------------------
(***************************************************************************)
(* The stocks fit the tree, whatever is under way.                         *)
(***************************************************************************)
\* What the main thread waits for; the removal of an item whose first dialog
\* was cancelled, for which it does not wait; and the answer it has got.
Asked == {j \in Range(aq) : j.by = "main"}
Removals == {j \in Range(aq) : j.op = "delete" /\ j.by # "main"}
Executed == done.by = "main" \/ mreply # "none"
Agreed == (done.by = "main" => done.ok) /\ mreply # "raised"
Outcome == IF done.by = "main" THEN done.val ELSE mval

\* A plugin is closed before the next command of the user takes effect.
Deletes == {j \in Jobs : j.op = "delete"}
FirstDialog == {"create", "setup"} (* of a new plugin *)
WaitInv ==
  /\ Sole(aq, Deletes) /\ (Removals # {} => mpc = "idle")
  /\ \A k, l \in DOMAIN aq : aq[k].by = "main" /\ k < l => aq[l].op # "close"
  /\ \A j \in Range(posts) : /\ j.op # "delete"
                             /\ j.op = "close" => mpc \notin FirstDialog /\ Asked = {}

\* Item i is at place p of the tree.
At(p, i) == p \in DOMAIN tree /\ tree[p] = i

\* u and r are the names the undo stock and the redo stock start from.
CalmWay(u, r) == mpc \notin InSession /\ Removals = {} => u = Shape /\ r = Shape
RemovalWay(u, r) ==
  \A j \in Removals : u = r /\ \E p \in DOMAIN tree : tree[p] = j.arg /\ Inserted(u, p, Shape[p], Shape)

EditKinds == {<<"clear", "delete">>, <<"toggle", "toggle">>, <<"configure", "setArgs">>}
EditFits(j) ==
  /\ At(marg.pos, j.arg) /\ <<marg.kind, j.op>> \in EditKinds
  /\ marg.kind = "clear" => marg.name = name[j.arg]
AskedFits(j, u, r) ==
  /\ mpc = "create" => u = Shape /\ r = Shape
  /\ mpc = "edit" => u = Shape /\ r = Shape /\ EditFits(j)
  /\ mpc = "setup" => j.arg = marg.item
  /\ mpc = "undo" => r = Shape /\ Passes("undo", j.arg, Shape, u)
  /\ mpc = "redo" => u = Shape /\ Passes("redo", j.arg, Shape, r)
AskedWay(u, r) == \A j \in Asked : AskedFits(j, u, r)

Made(h, u, r) == u = r /\ h.kind = "new" /\ Leads(u, h, Shape) /\ At(h.pos, h.item)
SetupWay(u, r) == mpc = "setup" => Made(marg, u, r)
DoneFits(v, u, r) ==
  /\ mpc = "create" => Made(v, u, r)
  /\ mpc = "edit" => Leads(u, marg, Shape) /\ (marg.kind = "configure" => r = Shape)
  /\ mpc = "undo" => u = Shape /\ Leads(Shape, v, r)
  /\ mpc = "redo" => r = Shape /\ Leads(u, v, Shape)
DoneWay(u, r) == Executed /\ mpc \in InSession => Agreed /\ DoneFits(Outcome, u, r)

Between(u, r) ==
  CalmWay(u, r) /\ RemovalWay(u, r) /\ AskedWay(u, r) /\ SetupWay(u, r) /\ DoneWay(u, r)
Ways(u, r) == Usable("undo", stockUndo, u) /\ Usable("redo", stockRedo, r) /\ Between(u, r)
WayInv == loaded = "yes" => \E u, r : Ways(u, r)
WayBack == WaitInv /\ WayInv /\ ~clash

-----------------------------------------------------------------------------
\* The stocks start from names.
LEMMA UsableType == ASSUME NEW op, NEW s \in Seq(Handlers), NEW a, Usable(op, s, a) PROVE a \in Seq(Nat)
<1>1. PICK w : WaysOf(op, s, a, w)
  BY DEF Usable
<1>2. Len(s) \in 0..Len(s)
  OBVIOUS
<1>3. QED
  BY <1>1, <1>2 DEF WaysOf

\* The steps that change neither the tree, the stocks nor what is asked.
LEMMA WaysStay ==
  ASSUME WayInv, UNCHANGED <<tree, name, stockUndo, stockRedo>>, loaded' = loaded,
         Removals' = Removals,
         mpc \in InSession \/ mpc' \in InSession =>
           UNCHANGED <<mpc, marg, dialogs, Asked, Outcome>> /\ (Executed' <=> Executed) /\ (Agreed => Agreed')
  PROVE  WayInv'
<1>1. SUFFICES ASSUME NEW u, NEW r, Ways(u, r) PROVE Ways(u, r)'
  BY DEF WayInv
<1>2. Shape' = Shape
  BY ShapeStays
<1>3. CASE mpc \notin InSession /\ mpc' \notin InSession
  <2>1. CalmWay(u, r)' /\ RemovalWay(u, r)'
    BY <1>1, <1>2, <1>3 DEF Ways, Between, CalmWay, RemovalWay
  <2>2. AskedWay(u, r)' /\ SetupWay(u, r)' /\ DoneWay(u, r)'
    BY <1>3 DEF AskedWay, AskedFits, SetupWay, DoneWay, InSession, AskPcs
  <2>3. QED
    BY <1>1, <2>1, <2>2 DEF Ways, Between
<1>4. CASE mpc \in InSession \/ mpc' \in InSession
  <2>1. CalmWay(u, r)' /\ RemovalWay(u, r)' /\ SetupWay(u, r)'
    BY <1>1, <1>2, <1>4 DEF Ways, Between, CalmWay, RemovalWay, SetupWay, Made, At
  <2>2. AskedWay(u, r)'
    BY <1>1, <1>2, <1>4 DEF Ways, Between, AskedWay, AskedFits, EditFits, At
  <2>3. DoneWay(u, r)'
    <3>1. SUFFICES ASSUME Executed', mpc' \in InSession PROVE Agreed' /\ DoneFits(Outcome, u, r)'
      BY DEF DoneWay
    <3>2. Agreed /\ DoneFits(Outcome, u, r)
      BY <1>1, <1>4, <3>1 DEF Ways, Between, DoneWay
    <3>3. DoneFits(Outcome, u, r)'
      BY <1>2, <1>4, <3>2 DEF DoneFits, Made, At
    <3>4. QED
      BY <1>4, <3>2, <3>3
  <2>4. QED
    BY <1>1, <2>1, <2>2, <2>3 DEF Ways, Between
<1>5. QED
  BY <1>3, <1>4

\* The order of the jobs, when nothing is appended.
LEMMA WaitStays ==
  ASSUME WaitInv, UNCHANGED <<aq, posts>>, Removals # {} => mpc' = "idle",
         mpc' \in FirstDialog => mpc \in FirstDialog
  PROVE  WaitInv' /\ Asked' = Asked /\ Removals' = Removals
BY DEF WaitInv, Sole, Asked, Removals

\* The order of the jobs, with one more.
LEMMA WaitAppended ==
  ASSUME Inv, WaitInv, NEW e \in Jobs, aq' = Append(aq, e), Range(posts') \subseteq Range(posts),
         e.op = "close" => Asked = {},
         e.op = "delete" => \A j \in Range(aq) : j.op # "delete",
         Removals' # {} => mpc' = "idle",
         e.by = "main" \/ mpc' \in FirstDialog => \A j \in Range(posts) : j.op # "close"
  PROVE  WaitInv'
<1>1. /\ Range(aq') = Range(aq) \cup {e}
      /\ Len(aq) \in Nat /\ DOMAIN aq = 1..Len(aq) /\ DOMAIN aq' = 1..Len(aq) + 1
      /\ aq'[Len(aq) + 1] = e /\ \A k \in DOMAIN aq : aq'[k] = aq[k]
  BY QueueAppended DEF Inv, Types, QueuesOK
<1>2. Sole(aq', Deletes)
  <2>1. aq \in Seq(Jobs) /\ Sole(aq, Deletes)
    BY DEF Inv, Types, QueuesOK, WaitInv
  <2>2. e \notin Deletes \/ Range(aq) \cap Deletes = {}
    BY DEF Deletes
  <2>3. QED
    BY <2>1, <2>2, SoleAppend
<1>3. Asked' = Asked \cup {j \in {e} : j.by = "main"}
  BY <1>1 DEF Asked
<1>4. ASSUME NEW k \in DOMAIN aq', NEW l \in DOMAIN aq', aq'[k].by = "main", k < l PROVE aq'[l].op # "close"
  <2>1. k \in DOMAIN aq /\ aq[k].by = "main" /\ aq[k] \in Asked
    BY <1>1, <1>4 DEF Asked, Range
  <2>2. CASE l \in DOMAIN aq
    BY <1>1, <1>4, <2>1, <2>2 DEF WaitInv
  <2>3. CASE l \notin DOMAIN aq
    BY <1>1, <2>1, <2>3
  <2>4. QED
    BY <2>2, <2>3
<1>5. ASSUME NEW j \in Range(posts')
      PROVE  j.op # "delete" /\ (j.op = "close" => mpc' \notin FirstDialog /\ Asked' = {})
  <2>1. j \in Range(posts)
    OBVIOUS
  <2>2. j.op # "delete" /\ (j.op = "close" => Asked = {})
    BY <2>1 DEF WaitInv
  <2>3. j.op = "close" => e.by # "main" /\ mpc' \notin FirstDialog
    BY <2>1
  <2>4. ASSUME j.op = "close" PROVE Asked' = {}
    BY <1>3, <2>2, <2>3, <2>4
  <2>5. QED
    BY <2>2, <2>3, <2>4
<1>6. QED
  BY <1>2, <1>4, <1>5 DEF WaitInv

\* What is asked and what waits, when a job is taken.
LEMMA TakenFacts ==
  ASSUME Inv, WaitInv, JobStep
  PROVE  /\ UNCHANGED <<mpc, marg, dialogs, mreply, mval, eq, epc>> /\ done = NobodyWaits /\ done'.by = Head(aq).by
         /\ Head(aq) \in Jobs /\ Range(aq) = {Head(aq)} \cup Range(aq')
         /\ Head(aq).by = "main" => /\ Asked' = {} /\ Head(aq) \in Asked /\ Removals' = {}
                                    /\ mpc \in AskPcs /\ <<mpc, Head(aq).op>> \in AskedFor
                                    /\ Executed' /\ Outcome' = done'.val /\ (done'.ok => Agreed')
         /\ Head(aq).by # "main" => Asked' = Asked /\ (Executed' <=> Executed) /\ Outcome' = Outcome
                                    /\ (Agreed => Agreed')
         /\ Head(aq).op # "delete" => Removals' = Removals
         /\ Head(aq).op = "delete" => Removals' = {}
         /\ Head(aq).op = "delete" /\ Head(aq).by # "main" => Head(aq) \in Removals /\ mpc = "idle"
<1>1. /\ UNCHANGED <<mpc, marg, dialogs, mreply, mval, eq, epc>> /\ done = NobodyWaits /\ done'.by = Head(aq).by
      /\ aq' = Tail(aq) /\ aq # <<>> /\ aq \in Seq(Jobs) /\ done.by = "nobody"
  BY JobTaken DEF JobStep, eventVars, NobodyWaits
<1> DEFINE h == Head(aq)
<1>2. h \in Jobs /\ h \in Range(aq) /\ Range(aq) = {h} \cup Range(aq') /\ aq' \in Seq(Jobs)
  BY JobTaken
<1>3. h \in By("main") => Range(aq') \cap By("main") = {}
  BY <1>1, SoleTail DEF Inv, MainInv
<1>4. h \in Deletes => Range(aq') \cap Deletes = {}
  BY <1>1, SoleTail DEF WaitInv
<1>5. Range(aq') \subseteq Jobs
  BY <1>2 DEF Range
<1>6. h.by = "main" => <<mpc, h.op>> \in AskedFor /\ mreply = "none"
  BY <1>2 DEF Inv, MainInv, MainJob
<1> HIDE DEF h
<1>7. ASSUME h.by = "main"
      PROVE  /\ Asked' = {} /\ h \in Asked /\ Removals' = {} /\ mpc \in AskPcs
             /\ Executed' /\ Outcome' = done'.val /\ (done'.ok => Agreed')
  <2>1. Asked' = {} /\ h \in Asked
    BY <1>2, <1>3, <1>5, <1>7 DEF Asked, By
  <2>2. mpc \in AskPcs /\ mpc # "idle"
    BY <1>6, <1>7 DEF AskedFor, AskPcs
  <2>3. Removals = {} /\ Removals' \subseteq Removals
    BY <1>2, <2>2 DEF WaitInv, Removals
  <2>4. Executed' /\ Outcome' = done'.val /\ (done'.ok => Agreed')
    BY <1>1, <1>6, <1>7 DEF Executed, Outcome, Agreed, h
  <2>5. QED
    BY <2>1, <2>2, <2>3, <2>4
<1>8. ASSUME h.by # "main"
      PROVE  Asked' = Asked /\ (Executed' <=> Executed) /\ Outcome' = Outcome /\ (Agreed => Agreed')
  <2>1. Asked' = Asked
    BY <1>2, <1>8 DEF Asked
  <2>2. done.by # "main" /\ done'.by # "main"
    BY <1>1, <1>8 DEF h
  <2>3. QED
    BY <1>1, <2>1, <2>2 DEF Executed, Outcome, Agreed
<1>9. h.op # "delete" => Removals' = Removals
  BY <1>2 DEF Removals
<1>10. h.op = "delete" => Removals' = {}
  BY <1>2, <1>4, <1>5 DEF Removals, Deletes
<1>11. h.op = "delete" /\ h.by # "main" => h \in Removals /\ mpc = "idle"
  BY <1>2 DEF Removals, WaitInv
<1>12. QED
  BY <1>1, <1>2, <1>6, <1>7, <1>8, <1>9, <1>10, <1>11 DEF h

\* The order of the jobs, when one is taken.
LEMMA WaitTaken ==
  ASSUME Inv, WaitInv, JobStep,
         \A j \in Range(posts') : /\ j.op # "delete"
                                  /\ j.op = "close" => mpc \notin FirstDialog /\ Asked' = {}
  PROVE  WaitInv'
<1>1. aq \in Seq(Jobs) /\ aq # <<>> /\ aq' = Tail(aq) /\ mpc' = mpc
  BY JobTaken DEF JobStep
<1>2. Sole(aq', Deletes)
  BY <1>1, SoleTail DEF WaitInv
<1>3. \A k \in DOMAIN aq' : k \in Nat /\ k + 1 \in DOMAIN aq /\ aq'[k] = aq[k + 1]
  BY <1>1, JobTaken
<1>4. ASSUME NEW k \in DOMAIN aq', NEW l \in DOMAIN aq', aq'[k].by = "main", k < l PROVE aq'[l].op # "close"
  <2>1. k + 1 < l + 1
    BY <1>3, <1>4
  <2>2. QED
    BY <1>3, <1>4, <2>1 DEF WaitInv
<1>5. Removals' \subseteq Removals
  BY JobTaken DEF Removals
<1>6. QED
  BY <1>1, <1>2, <1>4, <1>5 DEF WaitInv

-----------------------------------------------------------------------------
\* The jobs the main thread does not wait for, but the removal.
LEMMA PlainWay ==
  ASSUME Inv, WayBack, JobStep, Head(aq).by # "main", Head(aq).op # "delete",
         UNCHANGED <<tree, name, clash, stockUndo, stockRedo>>, loaded' = loaded,
         \A j \in Range(posts') : j.op \notin {"close", "delete"}
  PROVE  WayBack'
<1>1. WaitInv'
  BY WaitTaken DEF WayBack
<1>2. /\ UNCHANGED <<mpc, marg, dialogs, Asked, Outcome, Removals>> /\ (Executed' <=> Executed)
      /\ (Agreed => Agreed')
  BY TakenFacts DEF WayBack
<1>3. WayInv'
  BY <1>2, WaysStay DEF WayBack
<1>4. QED
  BY <1>1, <1>3 DEF WayBack

\* The job the main thread waits for in a session.
LEMMA AnsweredWay ==
  ASSUME Inv, Uncrossed, WayBack, JobStep, Head(aq).by = "main", mpc \in InSession,
         UNCHANGED <<clash, stockUndo, stockRedo>>, loaded' = loaded,
         \A j \in Range(posts') : j.op # "delete" /\ (j.op = "close" => mpc \notin FirstDialog),
         done'.ok,
         \A u, r : AskedFits(Head(aq), u, r) /\ SetupWay(u, r) =>
                     SetupWay(u, r)' /\ DoneFits(Outcome, u, r)'
  PROVE  WayBack'
<1>1. /\ mpc' = mpc /\ Asked' = {} /\ Removals' = {} /\ Head(aq) \in Asked /\ Agreed'
  BY TakenFacts DEF WayBack
<1>2. WaitInv'
  BY <1>1, WaitTaken DEF WayBack
<1>3. PICK u, r : Ways(u, r)
  BY DEF WayBack, WayInv, Uncrossed, CommandInv
<1>4. AskedFits(Head(aq), u, r) /\ SetupWay(u, r)
  BY <1>1, <1>3 DEF Ways, Between, AskedWay
<1>5. SetupWay(u, r)' /\ DoneFits(Outcome, u, r)'
  BY <1>4
<1>6. CalmWay(u, r)' /\ RemovalWay(u, r)' /\ AskedWay(u, r)' /\ DoneWay(u, r)'
  BY <1>1, <1>5 DEF CalmWay, RemovalWay, AskedWay, DoneWay
<1>7. Ways(u, r)'
  BY <1>3, <1>5, <1>6 DEF Ways, Between
<1>8. QED
  BY <1>2, <1>7 DEF WayBack, WayInv

\* An item of the tree is not deleted.
LEMMA OnTreeNotDetached ==
  ASSUME Uncrossed, loaded = "yes", NEW p, NEW i, At(p, i) PROVE i \in Range(tree) /\ i \notin detached
BY DEF At, Range, Uncrossed, DataInv, LifeInv

\* When the main thread waits for the next job, no plugin waits for its close.
LEMMA NoneClosing ==
  ASSUME Inv, WayBack, JobStep, Head(aq).by = "main" PROVE Closing = {}
<1>1. /\ aq \in Seq(Jobs) /\ aq # <<>> /\ Range(posts) = {} /\ Len(aq) \in Nat /\ DOMAIN aq = 1..Len(aq)
      /\ aq[1] = Head(aq) /\ 1 \in DOMAIN aq
  BY JobTaken DEF JobStep
<1>2. ASSUME NEW l \in DOMAIN aq PROVE aq[l].op # "close"
  <2>1. CASE l = 1
    <3>1. <<mpc, Head(aq).op>> \in AskedFor
      BY TakenFacts DEF WayBack
    <3>2. QED
      BY <1>1, <2>1, <3>1 DEF AskedFor
  <2>2. CASE l # 1
    <3>1. 1 < l
      BY <1>1, <1>2, <2>2
    <3>2. QED
      BY <1>1, <3>1 DEF WayBack, WaitInv
  <2>3. QED
    BY <2>1, <2>2
<1>3. \A j \in Range(aq) : j.op # "close"
  BY <1>2 DEF Range
<1>4. QED
  BY <1>1, <1>3 DEF Closing, ClosedBy, Pending

\* The jobs that leave the tree as it is, by nobody.
LEMMA PlainJobsWay ==
  ASSUME Inv, WayBack,
         StartJob \/ StopJob \/ ExecuteJob \/ CloseJob \/ FaultJob \/ ExclusiveJob \/ MacroJob
  PROVE  WayBack'
<1>1. /\ JobStep /\ UNCHANGED <<tree, name, clash, stockUndo, stockRedo, loaded>>
      /\ Head(aq).op \in {"start", "stop", "execute", "close", "fault", "exclusive", "macro"}
      /\ \A j \in Range(posts') : j.op \notin {"close", "delete"}
  <2>1. Types
    BY DEF Inv
  <2>2. CASE MacroJob
    <3>1. UNCHANGED <<tree, name, clash>> /\ \A j \in Range(posts') : j.op \notin {"close", "delete"}
      <4>1. CASE posts' = <<>> /\ UNCHANGED itemVars
        BY <4>1, EmptyPosts DEF itemVars
      <4>2. ASSUME NEW i, NEW flag, SetEnable(i, flag)
            PROVE  UNCHANGED <<tree, name, clash>> /\ posts' = <<>>
        BY <4>2 DEF SetEnable
      <4>3. ASSUME NEW i, posts' = <<Job("exclusive", i, "nobody")>>, UNCHANGED itemVars
            PROVE  UNCHANGED <<tree, name, clash>> /\ \A j \in Range(posts') : j.op = "exclusive"
        <5>1. \A k \in DOMAIN posts' : posts'[k].op = "exclusive"
          BY <4>3 DEF Job
        <5>2. QED
          BY <4>3, <5>1 DEF Range, itemVars
      <4>4. QED
        BY <2>2, <4>1, <4>2, <4>3, EmptyPosts DEF MacroJob
    <3>2. QED
      BY <2>1, <2>2, <3>1, MacroJobStep DEF MacroJob, Take, aroundVars
  <2>3. CASE StartJob
    BY <2>1, <2>3, StartJobStep, EmptyPosts DEF StartJob, Take, Nothing, aroundVars
  <2>4. CASE StopJob
    BY <2>1, <2>4, StopJobStep, EmptyPosts DEF StopJob, Take, Nothing, aroundVars
  <2>5. CASE ExecuteJob
    BY <2>1, <2>5, ExecuteJobStep, EmptyPosts DEF ExecuteJob, Take, Nothing, aroundVars
  <2>6. CASE CloseJob
    BY <2>1, <2>6, CloseJobStep, EmptyPosts DEF CloseJob, Take, Nothing, aroundVars
  <2>7. CASE FaultJob
    BY <2>1, <2>7, FaultJobStep, EmptyPosts DEF FaultJob, Take, Nothing, aroundVars
  <2>8. CASE ExclusiveJob
    BY <2>1, <2>8, ExclusiveJobStep, EmptyPosts DEF ExclusiveJob, Take, Nothing, aroundVars
  <2>9. QED
    BY <2>2, <2>3, <2>4, <2>5, <2>6, <2>7, <2>8
<1>2. Head(aq).by # "main"
  <2>1. Head(aq).by = "main" => <<mpc, Head(aq).op>> \in AskedFor
    BY <1>1, TakenFacts DEF WayBack
  <2>2. QED
    BY <1>1, <2>1 DEF AskedFor
<1>3. QED
  BY <1>1, <1>2, PlainWay

\* The first SetArguments and that of Configure.
LEMMA SetArgsWay == ASSUME Inv, Uncrossed, WayBack, SetArgsJob PROVE WayBack'
<1>1. /\ JobStep /\ UNCHANGED <<tree, name, clash, stockUndo, stockRedo, loaded>>
      /\ Head(aq).op = "setArgs" /\ Answered(It \notin detached, NoHandler)
  BY SetArgsJobStep DEF SetArgsJob, Take, SetArgs, itemVars, aroundVars, Inv
<1>2. \A j \in Range(posts') : j.op \notin {"close", "delete"}
  <2>1. CASE It \in enabled \ detached
    <3>1. posts' = <<Job("stop", It, "nobody"), Job("start", It, "nobody")>>
      BY <2>1 DEF SetArgsJob, SetArgs
    <3>2. \A k \in DOMAIN posts' : posts'[k].op \in {"stop", "start"}
      BY <3>1 DEF Job
    <3>3. QED
      BY <3>2 DEF Range
  <2>2. CASE It \notin enabled \ detached
    BY <2>2, EmptyPosts DEF SetArgsJob, SetArgs
  <2>3. QED
    BY <2>1, <2>2
<1>3. CASE Head(aq).by # "main"
  BY <1>1, <1>2, <1>3, PlainWay
<1>4. CASE Head(aq).by = "main"
  <2>1. /\ mpc \in {"setup", "edit"} /\ mpc \in InSession /\ loaded = "yes"
        /\ UNCHANGED <<mpc, marg, dialogs>> /\ Head(aq) \in Asked
    <3>1. <<mpc, Head(aq).op>> \in AskedFor /\ UNCHANGED <<mpc, marg, dialogs>> /\ Head(aq) \in Asked
      BY <1>1, <1>4, TakenFacts DEF WayBack
    <3>2. QED
      BY <1>1, <3>1 DEF AskedFor, InSession, AskPcs, Uncrossed, CommandInv
  <2>2. PICK u, r : AskedFits(Head(aq), u, r) /\ SetupWay(u, r)
    BY <2>1 DEF WayBack, WayInv, Ways, Between, AskedWay
  <2>3. At(marg.pos, It)
    BY <2>1, <2>2 DEF AskedFits, EditFits, SetupWay, Made, It
  <2>4. done'.ok
    BY <1>1, <1>4, <2>1, <2>3, OnTreeNotDetached DEF Answered
  <2>5. Shape' = Shape /\ Shape \in Seq(Nat) /\ Len(Shape) = Len(tree) /\ DOMAIN tree = 1..Len(tree)
    BY <1>1, ShapeStays, ShapeType DEF Inv, Types
  <2>6. ASSUME NEW v, NEW w, AskedFits(Head(aq), v, w), SetupWay(v, w)
        PROVE  SetupWay(v, w)' /\ DoneFits(Outcome, v, w)'
    <3>1. SetupWay(v, w)'
      BY <1>1, <2>1, <2>5, <2>6 DEF SetupWay, Made, At
    <3>2. CASE mpc = "setup"
      BY <2>1, <3>1, <3>2 DEF DoneFits
    <3>3. CASE mpc = "edit"
      <4>1. v = Shape /\ w = Shape /\ marg.kind = "configure" /\ marg.pos \in 1..Len(Shape)
        BY <1>1, <2>5, <2>6, <3>3 DEF AskedFits, EditFits, EditKinds, At
      <4>2. Leads(v, marg, Shape)
        BY <2>5, <4>1 DEF Leads
      <4>3. QED
        BY <2>1, <2>5, <3>1, <3>3, <4>1, <4>2 DEF DoneFits
    <3>4. QED
      BY <2>1, <3>2, <3>3
  <2>7. QED
    BY <1>1, <1>2, <1>4, <2>1, <2>4, <2>6, AnsweredWay
<1>5. QED
  BY <1>3, <1>4

\* ToggleEnable.Do.
LEMMA ToggleWay == ASSUME Inv, Uncrossed, WayBack, ToggleJob PROVE WayBack'
<1>1. /\ JobStep /\ UNCHANGED <<tree, name, clash, stockUndo, stockRedo, loaded>> /\ posts' = <<>>
      /\ Head(aq).op = "toggle" /\ Answered(It \notin detached, [NoHandler EXCEPT !.on = It \notin enabled])
  BY ToggleJobStep DEF ToggleJob, Take, SetEnable, aroundVars, Inv
<1>2. Head(aq).by = "main"
  BY <1>1, JobTaken DEF Inv, MainInv, MainJob
<1>3. /\ mpc = "edit" /\ mpc \in InSession /\ loaded = "yes"
      /\ UNCHANGED <<mpc, marg, dialogs>> /\ Head(aq) \in Asked
  <2>1. <<mpc, Head(aq).op>> \in AskedFor /\ UNCHANGED <<mpc, marg, dialogs>> /\ Head(aq) \in Asked
    BY <1>1, <1>2, TakenFacts DEF WayBack
  <2>2. QED
    BY <1>1, <2>1 DEF AskedFor, InSession, AskPcs, Uncrossed, CommandInv
<1>4. PICK u, r : AskedFits(Head(aq), u, r)
  BY <1>3 DEF WayBack, WayInv, Ways, Between, AskedWay
<1>5. At(marg.pos, It)
  BY <1>3, <1>4 DEF AskedFits, EditFits, It
<1>6. done'.ok
  BY <1>1, <1>2, <1>3, <1>5, OnTreeNotDetached DEF Answered
<1>7. Shape' = Shape /\ Shape \in Seq(Nat) /\ Len(Shape) = Len(tree) /\ DOMAIN tree = 1..Len(tree)
  BY <1>1, ShapeStays, ShapeType DEF Inv, Types
<1>8. ASSUME NEW v, NEW w, AskedFits(Head(aq), v, w)
      PROVE  SetupWay(v, w)' /\ DoneFits(Outcome, v, w)'
  <2>1. v = Shape /\ marg.kind = "toggle" /\ marg.pos \in 1..Len(Shape)
    BY <1>1, <1>3, <1>7, <1>8 DEF AskedFits, EditFits, EditKinds, At
  <2>2. Leads(v, marg, Shape)
    BY <1>7, <2>1 DEF Leads
  <2>3. QED
    BY <1>3, <1>7, <2>1, <2>2 DEF DoneFits, SetupWay
<1>9. Range(posts') = {}
  BY <1>1, EmptyPosts
<1>10. QED
  BY <1>1, <1>2, <1>3, <1>6, <1>8, <1>9, AnsweredWay

\* PluginItem.Delete takes the name of the item out.
LEMMA DeleteRemoves ==
  ASSUME Inv, Uncrossed, loaded = "yes", ItemsOK', NEW p \in DOMAIN tree, NEW i, i = tree[p], Delete(i)
  PROVE  /\ Inserted(Shape', p, name[i], Shape) /\ i \notin detached
         /\ UNCHANGED <<name, clash>> /\ \A j \in Range(posts') : j.op = "close"
<1>1. i \notin detached
  BY OnTreeNotDetached DEF At
<1>2. tree' = Without(tree[p]) /\ UNCHANGED <<name, clash>> /\ posts' = <<Job("close", i, "nobody")>>
  BY <1>1 DEF Delete
<1>3. Inserted(Shape', p, name[i], Shape)
  BY <1>2, NamesDiffer, ShapeRemoved DEF Inv, Types
<1>4. \A k \in DOMAIN posts' : posts'[k].op = "close"
  BY <1>2 DEF Job
<1>5. QED
  BY <1>1, <1>2, <1>3, <1>4 DEF Range

\* Delete, of Clear or of the new plugin whose dialog was cancelled.
LEMMA DeleteWay == ASSUME Inv, Uncrossed, WayBack, DeleteJob PROVE WayBack'
<1>1. /\ JobStep /\ UNCHANGED <<stockUndo, stockRedo, loaded>> /\ Delete(It) /\ ItemsOK'
      /\ Head(aq).op = "delete" /\ Answered(It \notin detached, NoHandler) /\ Head(aq).arg = It
  BY DeleteJobStep DEF DeleteJob, Take, aroundVars, Inv, JobStep, ItemStep, It
<1>2. loaded = "yes"
  BY <1>1, HeadOK DEF JobStep, OnTree
<1>3. UNCHANGED <<mpc, marg, dialogs>> /\ Removals' = {}
  BY <1>1, TakenFacts DEF WayBack
<1>4. Shape \in Seq(Nat) /\ Len(Shape) = Len(tree) /\ DOMAIN tree = 1..Len(tree)
      /\ \A k \in 1..Len(tree) : Shape[k] = name[tree[k]]
  BY ShapeType DEF Inv, Types
<1>5. CASE Head(aq).by # "main"
  <2>1. Head(aq) \in Removals /\ mpc = "idle" /\ Asked' = Asked
    BY <1>1, <1>5, TakenFacts DEF WayBack
  <2>2. PICK u, r : Ways(u, r)
    BY <1>2 DEF WayBack, WayInv
  <2>3. PICK p \in DOMAIN tree : u = r /\ tree[p] = It /\ Inserted(u, p, Shape[p], Shape)
    BY <1>1, <2>1, <2>2 DEF Ways, Between, RemovalWay
  <2>4. /\ Inserted(Shape', p, name[It], Shape) /\ UNCHANGED <<name, clash>>
        /\ \A j \in Range(posts') : j.op = "close"
    BY <1>1, <1>2, <2>3, DeleteRemoves
  <2>5. u = Shape'
    BY <2>3, <2>4, RemovedOnce
  <2>6. Asked = {}
    BY <2>1 DEF Inv, MainInv, MainJob, AskedFor, Asked
  <2>7. WaitInv'
    BY <1>1, <2>1, <2>4, <2>6, WaitTaken DEF WayBack, FirstDialog
  <2>8. mpc' \notin InSession /\ mpc' # "setup" /\ mpc' = "idle"
    BY <1>3, <2>1 DEF InSession, AskPcs
  <2>9. CalmWay(u, r)' /\ RemovalWay(u, r)' /\ AskedWay(u, r)' /\ SetupWay(u, r)' /\ DoneWay(u, r)'
    BY <1>3, <2>1, <2>3, <2>5, <2>6, <2>8 DEF CalmWay, RemovalWay, AskedWay, SetupWay, DoneWay
  <2>10. Ways(u, r)'
    BY <1>1, <2>2, <2>9 DEF Ways, Between
  <2>11. QED
    BY <2>4, <2>7, <2>10 DEF WayBack, WayInv
<1>6. CASE Head(aq).by = "main"
  <2>1. mpc = "edit" /\ mpc \in InSession /\ Head(aq) \in Asked
    <3>1. <<mpc, Head(aq).op>> \in AskedFor /\ Head(aq) \in Asked
      BY <1>1, <1>6, TakenFacts DEF WayBack
    <3>2. QED
      BY <1>1, <3>1 DEF AskedFor, InSession, AskPcs
  <2>2. PICK u, r : AskedFits(Head(aq), u, r)
    BY <1>2, <2>1 DEF WayBack, WayInv, Ways, Between, AskedWay
  <2>3. /\ At(marg.pos, It) /\ marg.kind = "clear" /\ marg.name = name[It]
        /\ \A v, w : AskedFits(Head(aq), v, w) => v = Shape
    BY <1>1, <2>1, <2>2 DEF AskedFits, EditFits, EditKinds
  <2>4. marg.pos \in DOMAIN tree /\ It = tree[marg.pos]
    BY <2>3 DEF At
  <2>5. /\ Inserted(Shape', marg.pos, name[It], Shape) /\ It \notin detached /\ UNCHANGED <<name, clash>>
        /\ \A j \in Range(posts') : j.op = "close"
    BY <1>1, <1>2, <2>4, DeleteRemoves
  <2>6. done'.ok
    BY <1>1, <1>6, <2>5 DEF Answered
  <2>7. ASSUME NEW v, NEW w, AskedFits(Head(aq), v, w) PROVE SetupWay(v, w)' /\ DoneFits(Outcome, v, w)'
    <3>1. v = Shape
      BY <2>3, <2>7
    <3>2. (marg.kind = "clear" /\ Inserted(Shape, marg.pos, marg.name, v))'
      BY <1>3, <2>3, <2>5, <3>1
    <3>3. Leads(v, marg, Shape)'
      BY <3>2 DEF Leads
    <3>4. QED
      BY <1>3, <2>1, <2>3, <3>3 DEF DoneFits, SetupWay
  <2>8. QED
    BY <1>1, <1>6, <2>1, <2>5, <2>6, <2>7, AnsweredWay DEF FirstDialog
<1>7. QED
  BY <1>5, <1>6

\* A free name is not in the tree; a new item puts it there.
LEMMA OpenInserts ==
  ASSUME Inv, Uncrossed, loaded = "yes", ItemsOK', NEW n \in Nat, NEW p \in 1..Len(tree) + 1,
         NEW on, NEW starts, Open(n, p, on, starts), n \notin info.names
  PROVE  /\ Inserted(Shape, p, n, Shape') /\ p \in DOMAIN tree' /\ tree'[p] = New /\ clash' = clash
         /\ \A j \in Range(posts') : j.op = "start"
<1>1. n \notin Range(Shape)
  BY NamesDiffer
<1>2. Inserted(Shape, p, n, Shape') /\ p \in DOMAIN tree' /\ tree'[p] = New
  BY <1>1, ShapeOpened DEF Inv, Types
<1>3. clash' = clash /\ posts' = IF on /\ starts THEN <<Job("start", New, "nobody")>> ELSE <<>>
  BY DEF Open
<1>4. \A k \in DOMAIN posts' : posts'[k].op = "start"
  BY <1>3 DEF Job
<1>5. QED
  BY <1>2, <1>3, <1>4 DEF Range

\* NewPlugin.Do.
LEMMA CreateWay == ASSUME Inv, Uncrossed, WayBack, CreateJob PROVE WayBack'
<1>1. /\ JobStep /\ UNCHANGED <<stockUndo, stockRedo, loaded>> /\ ItemsOK'
      /\ Head(aq).op = "create"
  BY CreateJobStep DEF CreateJob, Take, aroundVars, Inv, JobStep, ItemStep
<1>2. Head(aq).by = "main"
  BY <1>1, JobTaken DEF Inv, MainInv, MainJob
<1>3. /\ mpc = "create" /\ mpc \in InSession /\ loaded = "yes"
      /\ UNCHANGED <<mpc, marg, dialogs>> /\ Outcome' = done'.val
  <2>1. <<mpc, Head(aq).op>> \in AskedFor /\ UNCHANGED <<mpc, marg, dialogs>> /\ Outcome' = done'.val
    BY <1>1, <1>2, TakenFacts DEF WayBack
  <2>2. QED
    BY <1>1, <2>1 DEF AskedFor, InSession, AskPcs, Uncrossed, CommandInv
<1> DEFINE p == Len(tree) + 1
           i == New
<1>4. PICK n \in 1..MaxInstances + 1 :
        /\ FirstFree(n) /\ Open(n, p, TRUE, FALSE) /\ Answered(TRUE, Handler("new", i, p, n, TRUE))
  BY DEF CreateJob
<1>5. n \in Nat /\ n \notin info.names /\ p \in 1..Len(tree) + 1
  BY <1>4, ShapeType, SessionAssumption DEF FirstFree, Inv, Types
<1>6. done'.ok /\ done'.val = Handler("new", i, p, n, TRUE)
  BY <1>1, <1>2, <1>4 DEF Answered
<1> HIDE DEF p, i
<1>7. /\ Inserted(Shape, p, n, Shape') /\ p \in DOMAIN tree' /\ tree'[p] = i /\ clash' = clash
      /\ \A j \in Range(posts') : j.op = "start"
  BY <1>1, <1>3, <1>4, <1>5, OpenInserts DEF i, p
<1>8. Outcome'.kind = "new" /\ Outcome'.item = i /\ Outcome'.pos = p /\ Outcome'.name = n
  BY <1>3, <1>6 DEF Handler
<1>9. ASSUME NEW v, NEW w, AskedFits(Head(aq), v, w) PROVE SetupWay(v, w)' /\ DoneFits(Outcome, v, w)'
  <2>1. v = Shape /\ w = Shape
    BY <1>3, <1>9 DEF AskedFits
  <2>2. Leads(v, Outcome, Shape)'
    BY <1>7, <1>8, <2>1 DEF Leads
  <2>3. Made(Outcome, v, w)'
    BY <1>7, <1>8, <2>1, <2>2 DEF Made, At
  <2>4. QED
    BY <1>3, <2>3 DEF DoneFits, SetupWay
<1>10. QED
  BY <1>1, <1>2, <1>3, <1>6, <1>7, <1>9, AnsweredWay

\* A handler brings a plugin back: its name is free, and in its place it makes
\* the tree the handler leads to.
LEMMA HandlerRestores ==
  ASSUME Inv, Uncrossed, loaded = "yes", Closing = {}, ItemsOK', NEW h \in Handlers, NEW x,
         Inserted(Shape, h.pos, h.name, x), Open(h.name, h.pos, h.on, TRUE)
  PROVE  /\ Shape' = x /\ h.name \notin info.names /\ clash' = clash
         /\ \A j \in Range(posts') : j.op = "start"
<1>1. h.name \in Nat /\ h.name \notin Range(Shape) /\ h.pos \in 1..Len(Shape) + 1
  BY DEF Inserted, Handlers
<1>2. h.name \notin info.names /\ Len(Shape) = Len(tree)
  BY <1>1, NamesOfTree, ShapeType DEF Inv, Types
<1>3. /\ Inserted(Shape, h.pos, h.name, Shape') /\ clash' = clash
      /\ \A j \in Range(posts') : j.op = "start"
  BY <1>1, <1>2, OpenInserts
<1>4. QED
  BY <1>2, <1>3, InsertedOnce

\* A handler takes a plugin out: it is there, and without it the tree is the one
\* the handler leads to.
LEMMA HandlerDeletes ==
  ASSUME Inv, Uncrossed, loaded = "yes", ItemsOK', NEW h, NEW x, Inserted(x, h.pos, h.name, Shape),
         Delete(tree[h.pos])
  PROVE  /\ h.pos \in DOMAIN tree /\ tree[h.pos] \notin detached
         /\ Shape' = x /\ Inserted(x, h.pos, name[tree[h.pos]], Shape) /\ name[tree[h.pos]] = h.name
         /\ UNCHANGED <<name, clash>> /\ \A j \in Range(posts') : j.op = "close"
<1>1. h.pos \in DOMAIN tree /\ Shape[h.pos] = name[tree[h.pos]] /\ Shape[h.pos] = h.name
  BY ShapeType DEF Inserted, Inv, Types
<1>2. /\ Inserted(Shape', h.pos, name[tree[h.pos]], Shape) /\ tree[h.pos] \notin detached
      /\ UNCHANGED <<name, clash>> /\ \A j \in Range(posts') : j.op = "close"
  BY <1>1, DeleteRemoves
<1>3. Shape' = x
  BY <1>2, RemovedOnce
<1>4. QED
  BY <1>1, <1>2, <1>3

\* Undo and redo reach the tree the handler leads to, and what comes back for
\* the other stock leads the same way.
LEMMA HandlerLeads ==
  ASSUME Inv, Uncrossed, JobStep, loaded = "yes", Closing = {}, Head(aq).by = "main",
         NEW op \in HandlerOps, HandlerJob(op), NEW x, Passes(op, It, Shape, x)
  PROVE  /\ Shape' = x /\ done'.ok /\ Passes(op, done'.val, Shape, x) /\ clash' = clash
         /\ \A j \in Range(posts') : j.op # "delete"
<1> DEFINE h == It
           i == tree[h.pos]
           restores == h.kind = IF op = "undo" THEN "clear" ELSE "new"
           deletes == h.kind = IF op = "undo" THEN "new" ELSE "clear"
           found == h.pos \in DOMAIN tree
<1>1. ItemsOK' /\ h \in Handlers /\ Shape \in Seq(Nat) /\ DOMAIN tree = 1..Len(Shape)
  BY HeadJob, ShapeType DEF JobStep, ItemStep, Inv, Types, HandlerJob, Take
<1>2. op = "undo" \/ op = "redo"
  BY DEF HandlerOps
<1>3. \/ restores /\ Inserted(Shape, h.pos, h.name, x)
      \/ deletes /\ Inserted(x, h.pos, h.name, Shape)
      \/ h.kind \in {"toggle", "configure"} /\ x = Shape /\ found
  BY <1>1, <1>2 DEF Passes, Leads
<1>4. ASSUME NEW ok, NEW v, Answered(ok, v) PROVE done'.ok = ok /\ done'.val = v
  BY <1>4 DEF Answered
<1> DEFINE val == IF h.kind = "new" THEN [h EXCEPT !.name = name[i], !.on = i \in enabled] ELSE h
<1>5. \/ /\ restores /\ Open(h.name, h.pos, h.on, TRUE)
         /\ done'.ok = (h.name \notin info.names) /\ done'.val = h
      \/ ~restores /\ ~found
      \/ deletes /\ found /\ Delete(i) /\ done'.ok = (i \notin detached) /\ done'.val = val
      \/ /\ h.kind = "toggle" /\ found /\ \E flag : SetEnable(i, flag)
         /\ done'.ok = TRUE /\ done'.val = h
      \/ h.kind = "configure" /\ found /\ SetArgs(i) /\ done'.ok = TRUE /\ done'.val = h
  BY <1>4 DEF HandlerJob
<1> HIDE DEF h
<1>6. CASE h.kind \in {"toggle", "configure"}
  <2>1. x = Shape /\ found /\ ~restores /\ ~deletes /\ Passes(op, h, Shape, x)
    BY <1>2, <1>3, <1>6 DEF h
  <2>2. CASE h.kind = "toggle" /\ \E flag : SetEnable(i, flag)
    <3>1. UNCHANGED <<name, tree, clash>> /\ posts' = <<>>
      BY <2>2 DEF SetEnable
    <3>2. done'.ok /\ done'.val = h
      BY <1>5, <1>6, <2>1, <2>2
    <3>3. QED
      BY <2>1, <3>1, <3>2, ShapeStays, EmptyPosts
  <2>3. CASE h.kind = "configure" /\ SetArgs(i)
    <3>1. UNCHANGED <<name, tree, clash>>
      BY <2>3 DEF SetArgs, itemVars
    <3>2. done'.ok /\ done'.val = h
      BY <1>5, <1>6, <2>1, <2>3
    <3>3. \A j \in Range(posts') : j.op # "delete"
      <4>1. posts' = IF i \in enabled \ detached
                     THEN <<Job("stop", i, "nobody"), Job("start", i, "nobody")>> ELSE <<>>
        BY <2>3 DEF SetArgs
      <4>2. \A k \in DOMAIN posts' : posts'[k].op \in {"stop", "start"}
        BY <4>1 DEF Job
      <4>3. QED
        BY <4>2 DEF Range
    <3>4. QED
      BY <2>1, <3>1, <3>2, <3>3, ShapeStays
  <2>4. QED
    BY <1>5, <1>6, <2>1, <2>2, <2>3
<1>7. CASE restores
  <2>1. Inserted(Shape, h.pos, h.name, x) /\ ~deletes /\ h.kind \in {"new", "clear"}
    BY <1>2, <1>3, <1>7
  <2>2. Open(h.name, h.pos, h.on, TRUE) /\ done'.ok = (h.name \notin info.names) /\ done'.val = h
    BY <1>5, <1>7, <2>1
  <2>3. /\ Shape' = x /\ h.name \notin info.names /\ clash' = clash
        /\ \A j \in Range(posts') : j.op = "start"
    BY <1>1, <2>1, <2>2, HandlerRestores
  <2>4. Passes(op, h, Shape, x)
    BY DEF h
  <2>5. QED
    BY <2>2, <2>3, <2>4
<1>8. CASE deletes
  <2>1. Inserted(x, h.pos, h.name, Shape) /\ ~restores /\ h.kind \in {"new", "clear"}
    BY <1>2, <1>3, <1>8
  <2>2. found
    BY <1>1, <2>1 DEF Inserted
  <2>3. Delete(i) /\ done'.ok = (i \notin detached) /\ done'.val = val
    BY <1>5, <2>1, <2>2
  <2>4. /\ i \notin detached /\ Shape' = x /\ name[i] = h.name
        /\ clash' = clash /\ \A j \in Range(posts') : j.op = "close"
    BY <1>1, <2>1, <2>3, HandlerDeletes
  <2>5. val.kind = h.kind /\ val.pos = h.pos /\ val.name = h.name
    BY <1>1, <2>4 DEF Handlers
  <2>6. Passes(op, val, Shape, x)
    BY <1>2, <1>8, <2>1, <2>5 DEF Passes, Leads
  <2>7. QED
    BY <2>3, <2>4, <2>6
<1>9. QED
  BY <1>3, <1>6, <1>7, <1>8

\* UndoHandler.Undo and Redo.
LEMMA HandlerWay ==
  ASSUME Inv, Uncrossed, WayBack, NEW op \in HandlerOps, HandlerJob(op) PROVE WayBack'
<1>1. JobStep /\ UNCHANGED <<stockUndo, stockRedo, loaded>> /\ Head(aq).op = op
  BY HandlerJobStep DEF HandlerJob, Take, aroundVars, Inv
<1>2. Head(aq).by = "main"
  BY <1>1, JobTaken DEF Inv, MainInv, MainJob
<1>3. /\ mpc = op /\ mpc \in InSession /\ loaded = "yes" /\ UNCHANGED <<mpc, marg, dialogs>>
      /\ Outcome' = done'.val /\ Head(aq) \in Asked /\ op \in {"undo", "redo"}
  <2>1. /\ <<mpc, Head(aq).op>> \in AskedFor /\ UNCHANGED <<mpc, marg, dialogs>> /\ Outcome' = done'.val
        /\ Head(aq) \in Asked
    BY <1>1, <1>2, TakenFacts DEF WayBack
  <2>2. QED
    BY <1>1, <2>1 DEF AskedFor, InSession, AskPcs, Uncrossed, CommandInv, HandlerOps
<1>4. Closing = {} /\ Head(aq).arg = It
  BY <1>1, <1>2, NoneClosing DEF It
<1>5. ASSUME NEW u, NEW r, AskedFits(Head(aq), u, r)
      PROVE  /\ \E x : Passes(op, It, Shape, x)
             /\ DoneFits(Outcome, u, r)'
  <2>1. CASE op = "undo"
    <3>1. r = Shape /\ Passes(op, It, Shape, u)
      BY <1>3, <1>4, <1>5, <2>1 DEF AskedFits
    <3>2. Shape' = u /\ Passes(op, done'.val, Shape, u)
      BY <1>1, <1>2, <1>3, <1>4, <3>1, HandlerLeads
    <3>3. (u = Shape /\ Leads(Shape, Outcome, r))'
      BY <1>3, <2>1, <3>1, <3>2 DEF Passes
    <3>4. QED
      BY <1>3, <2>1, <3>1, <3>3 DEF DoneFits
  <2>2. CASE op = "redo"
    <3>1. u = Shape /\ Passes(op, It, Shape, r)
      BY <1>3, <1>4, <1>5, <2>2 DEF AskedFits
    <3>2. Shape' = r /\ Passes(op, done'.val, Shape, r)
      BY <1>1, <1>2, <1>3, <1>4, <3>1, HandlerLeads
    <3>3. (r = Shape /\ Leads(u, Outcome, Shape))'
      BY <1>3, <2>2, <3>1, <3>2 DEF Passes
    <3>4. QED
      BY <1>3, <2>2, <3>1, <3>3 DEF DoneFits
  <2>3. QED
    BY <1>3, <2>1, <2>2
<1>6. PICK u, r : AskedFits(Head(aq), u, r)
  BY <1>3 DEF WayBack, WayInv, Ways, Between, AskedWay
<1>7. PICK x : Passes(op, It, Shape, x)
  BY <1>5, <1>6
<1>8. done'.ok /\ clash' = clash /\ \A j \in Range(posts') : j.op # "delete"
  BY <1>1, <1>2, <1>3, <1>4, <1>7, HandlerLeads
<1>9. ASSUME NEW v, NEW w, AskedFits(Head(aq), v, w), SetupWay(v, w)
      PROVE  SetupWay(v, w)' /\ DoneFits(Outcome, v, w)'
  BY <1>3, <1>5, <1>9 DEF SetupWay
<1>10. mpc # "create"
  BY <1>3
<1>11. QED
  BY <1>1, <1>2, <1>3, <1>8, <1>9, <1>10, AnsweredWay DEF FirstDialog

\* After the end of a session there is no way back.
LEMMA StopSessionWay ==
  ASSUME Inv, Uncrossed, WayBack, StopSessionJob, ~crossed' PROVE WayBack'
<1>1. JobStep /\ clash' = clash /\ Range(posts') = {} /\ loaded' # "yes"
  BY StopSessionJobStep, StopSessionGives, EmptyPosts DEF StopSessionJob, GoneStep, SessionGone, Inv
<1>2. WaitInv'
  BY <1>1, WaitTaken DEF WayBack
<1>3. QED
  BY <1>1, <1>2 DEF WayBack, WayInv

\* The names in a tree file differ.
DistinctNames == \A f \in Files : IsInjective(Contents[f])

\* A session finds every name free, and no way back in it has begun.
LEMMA StartSessionWay ==
  ASSUME DistinctNames, Inv, Uncrossed, WayBack, StartSessionJob PROVE WayBack'
<1>1. /\ JobStep /\ ItemsOK' /\ Range(posts') = {} /\ Head(aq).op = "startSession" /\ It \in Files
      /\ stockUndo' = <<>> /\ stockRedo' = <<>>
  BY StartSessionJobStep, EmptyPosts, HeadJob
     DEF StartSessionJob, Take, JobStep, ItemStep, Inv, Types
<1>2. WaitInv'
  BY <1>1, WaitTaken DEF WayBack
<1>3. /\ info.names = {} /\ mpc \notin InSession /\ mpc' = mpc
      /\ \A j \in Range(aq') : j.op # "delete"
  BY <1>1, BeforeSession DEF Emptied, OnTree, JobStep
<1>4. ~clash'
  <2>1. PICK count \in 0..Len(Contents[It]) :
          /\ Constructed(It, count)
          /\ clash' = (clash \/ (It \notin Unreadable /\
                                 ~(It \notin Unreadable /\ count = Len(Contents[It]))))
    BY DEF StartSessionJob
  <2>2. Contents[It] \in Seq(Nat \ {0}) /\ IsInjective(Contents[It]) /\ Len(Contents[It]) \in Nat
    BY <1>1, SessionAssumption DEF DistinctNames
  <2> DEFINE c == Contents[It]
  <2>3. ASSUME It \notin Unreadable, count # Len(c) PROVE FALSE
    <3>1. count < Len(c) /\ count + 1 \in DOMAIN c /\ ~Fresh(c, count + 1)
      BY <2>1, <2>2, <2>3 DEF Constructed
    <3>2. PICK k \in 1..count + 1 - 1 : c[k] = c[count + 1]
      BY <1>3, <3>1 DEF Fresh
    <3>3. k \in DOMAIN c /\ k # count + 1
      BY <2>2, <3>1, <3>2
    <3>4. QED
      BY <2>2, <3>1, <3>2, <3>3 DEF IsInjective
  <2>4. QED
    BY <2>1, <2>3 DEF WayBack
<1>5. Shape' \in Seq(Nat)
  BY <1>1, NamesOfType DEF ItemsOK, Shape
<1>6. Removals' = {} /\ mpc' \notin InSession
  BY <1>3 DEF Removals
<1> DEFINE u == Shape'
<1>7. Usable("undo", stockUndo', u) /\ Usable("redo", stockRedo', u)
  BY <1>1, <1>5, NothingUsable
<1>8. u = Shape'
  OBVIOUS
<1> HIDE DEF u
<1>9. \E v : Ways(v, v)'
  <2>1. SUFFICES ASSUME NEW v, v = u PROVE Ways(v, v)'
    OBVIOUS
  <2>2. Usable("undo", stockUndo, v)' /\ Usable("redo", stockRedo, v)'
    BY <1>7, <2>1 DEF Usable, WaysOf, Passes, Leads, Inserted
  <2>3. CalmWay(v, v)' /\ RemovalWay(v, v)' /\ AskedWay(v, v)' /\ SetupWay(v, v)' /\ DoneWay(v, v)'
    BY <1>6, <1>8, <2>1
    DEF CalmWay, RemovalWay, AskedWay, AskedFits, SetupWay, DoneWay, InSession, AskPcs
  <2>4. QED
    BY <2>2, <2>3 DEF Ways, Between
<1>10. WayInv'
  BY <1>9 DEF WayInv
<1>11. QED
  BY <1>2, <1>4, <1>10 DEF WayBack

\* Every job keeps the way back.
LEMMA JobKeepsWay ==
  ASSUME DistinctNames, Inv, Uncrossed, WayBack, ~crossed', AnyJob PROVE WayBack'
BY PlainJobsWay, SetArgsWay, ToggleWay, DeleteWay, CreateWay, HandlerWay, StopSessionWay,
   StartSessionWay DEF AnyJob, HandlerOps

-----------------------------------------------------------------------------
\* What no step but a job changes, and most leave alone.
wayFrame == <<tree, name, clash, loaded, stockUndo, stockRedo>>

\* A job is appended that the main thread does not wait for.
LEMMA AppendWay ==
  ASSUME Inv, WayBack, NEW e \in Jobs, aq' = Append(aq, e), e.by # "main", e.op # "delete",
         e.op = "close" => Asked = {}, Range(posts') \subseteq Range(posts),
         UNCHANGED wayFrame,
         \/ UNCHANGED <<mpc, marg, dialogs, mreply, mval, done>>
         \/ mpc \notin InSession /\ mpc' \notin InSession /\ Removals = {}
  PROVE  WayBack'
<1>1. Range(aq') = Range(aq) \cup {e}
  BY QueueAppended DEF Inv, Types, QueuesOK
<1>2. Asked' = Asked /\ Removals' = Removals
  BY <1>1 DEF Asked, Removals
<1>3. Removals' # {} => mpc' = "idle"
  BY <1>2 DEF WayBack, WaitInv
<1>4. mpc' \in FirstDialog => \A j \in Range(posts) : j.op # "close"
  BY DEF WayBack, WaitInv, InSession, AskPcs, FirstDialog
<1>5. WaitInv'
  BY <1>3, <1>4, WaitAppended DEF WayBack
<1>6. UNCHANGED <<tree, name, clash, loaded, stockUndo, stockRedo>>
  BY DEF wayFrame
<1>7. UNCHANGED <<mpc, marg, dialogs, mreply, mval, done>> =>
        Outcome' = Outcome /\ (Executed' <=> Executed) /\ (Agreed' <=> Agreed)
  BY DEF Outcome, Executed, Agreed
<1>8. WayInv'
  BY <1>2, <1>6, <1>7, WaysStay DEF WayBack
<1>9. QED
  BY <1>5, <1>6, <1>8 DEF WayBack

\* What a job leaves.
LEMMA PostWay == ASSUME Inv, WayBack, Post PROVE WayBack'
<1> DEFINE e == Head(posts)
<1>1. /\ e \in Jobs /\ e \in Range(posts) /\ Range(posts') \subseteq Range(posts)
      /\ aq' = Append(aq, e) /\ e.by = "nobody"
  BY RangeOfTail DEF Post, Inv, Types, PostsOK
<1>2. e.op # "delete" /\ (e.op = "close" => Asked = {})
  BY <1>1 DEF WayBack, WaitInv
<1>3. UNCHANGED wayFrame /\ UNCHANGED <<mpc, marg, dialogs, mreply, mval, done>>
  BY DEF Post, wayFrame, pluginVars, mainVars
<1> HIDE DEF e
<1>4. QED
  BY <1>1, <1>2, <1>3, AppendWay

\* An answer, and the end of the wait for the event thread.
LEMMA AnswerWay == ASSUME Inv, WayBack, Answer PROVE WayBack'
<1>1. /\ UNCHANGED <<tree, name, clash, loaded, stockUndo, stockRedo, aq, posts, mpc, marg, dialogs>>
      /\ done' = NobodyWaits
  BY DEF Answer, pluginVars
<1>2. WaitInv' /\ Asked' = Asked /\ Removals' = Removals
  BY <1>1, WaitStays DEF WayBack, WaitInv
<1>3. Outcome' = Outcome /\ (Executed' <=> Executed) /\ (Agreed => Agreed')
  <2>1. done'.by = "nobody" /\ (done.by = "main" => mreply = "none")
    BY <1>1 DEF NobodyWaits, Inv, MainInv
  <2>2. CASE done.by = "main"
    <3>1. mreply' = (IF done.ok THEN "ok" ELSE "raised") /\ mval' = done.val
      BY <2>2 DEF Answer
    <3>2. QED
      BY <2>1, <2>2, <3>1 DEF Outcome, Executed, Agreed
  <2>3. CASE done.by # "main"
    <3>1. UNCHANGED <<mreply, mval>>
      BY <2>3 DEF Answer
    <3>2. QED
      BY <2>1, <2>3, <3>1 DEF Outcome, Executed, Agreed
  <2>4. QED
    BY <2>2, <2>3
<1>4. WayInv'
  BY <1>1, <1>2, <1>3, WaysStay DEF WayBack
<1>5. QED
  BY <1>1, <1>2, <1>4 DEF WayBack

\* The event thread has its answer, which is not about the tree.
LEMMA SessionAnsweredWay == ASSUME Inv, WayBack, SessionAnswered PROVE WayBack'
<1>1. /\ UNCHANGED <<tree, name, clash, loaded, stockUndo, stockRedo, aq, posts, mpc, marg, dialogs, mval, done>>
      /\ mpc \in InSession => mreply' = mreply
  BY DEF SessionAnswered, eventSame, pluginVars, Inv, UnloadInv, InSession, AskPcs
<1>2. WaitInv' /\ Asked' = Asked /\ Removals' = Removals
  BY <1>1, WaitStays DEF WayBack, WaitInv
<1>3. mpc \in InSession => Outcome' = Outcome /\ (Executed' <=> Executed) /\ (Agreed => Agreed')
  BY <1>1 DEF Outcome, Executed, Agreed
<1>4. WayInv'
  BY <1>1, <1>2, <1>3, WaysStay DEF WayBack
<1>5. QED
  BY <1>1, <1>2, <1>4 DEF WayBack

\* The event thread takes the next event.
LEMMA TakeEventWay == ASSUME Inv, WayBack, TakeEvent PROVE WayBack'
<1>1. UNCHANGED wayFrame /\ UNCHANGED <<mpc, marg, dialogs, mreply, mval, done, posts>>
  BY DEF TakeEvent, eventSame, wayFrame, pluginVars
<1>2. CASE aq' = aq
  <2>1. WaitInv' /\ Asked' = Asked /\ Removals' = Removals
    BY <1>1, <1>2, WaitStays DEF WayBack, WaitInv
  <2>2. Outcome' = Outcome /\ (Executed' <=> Executed) /\ (Agreed => Agreed')
    BY <1>1 DEF Outcome, Executed, Agreed
  <2>3. WayInv'
    BY <1>1, <2>1, <2>2, WaysStay DEF WayBack, wayFrame
  <2>4. QED
    BY <1>1, <2>1, <2>3 DEF WayBack, wayFrame
<1>3. CASE \E e \in Jobs : aq' = Append(aq, e) /\ e.op \in {"stopSession", "startSession", "macro"} /\ e.by # "main"
  BY <1>1, <1>3, AppendWay
<1>4. \/ aq' = aq
      \/ \E e \in Jobs : aq' = Append(aq, e) /\ e.op \in {"stopSession", "startSession", "macro"} /\ e.by # "main"
  <2> DEFINE j == Head(eq)
  <2>1. j \in Range(eq) /\ (j.op = "startSession" => j.arg \in Files)
    BY RangeOfTail DEF TakeEvent, Inv, Types, QueuesOK, ForEvents, IsJob
  <2>2. /\ Job("stopSession", 0, "event") \in Jobs /\ Job("macro", 0, "nobody") \in Jobs
        /\ j.op = "startSession" => Job("startSession", j.arg, "event") \in Jobs
    BY <2>1, OtherJobs, SessionJobs DEF Callers
  <2>3. \/ aq' = Append(aq, Job("stopSession", 0, "event"))
        \/ j.op = "startSession" /\ aq' = Append(aq, Job("startSession", j.arg, "event"))
        \/ aq' = Append(aq, Job("macro", 0, "nobody"))
        \/ aq' = aq
    BY DEF TakeEvent
  <2>4. \A op, a, by : Job(op, a, by).op = op /\ Job(op, a, by).by = by
    BY DEF Job
  <2> HIDE DEF j
  <2>5. QED
    BY <2>2, <2>3, <2>4
<1>5. QED
  BY <1>2, <1>3, <1>4

\* The end of a wait changes only jobs that are about sessions.
LEMMA TimeOutWay == ASSUME Inv, WayBack, TimeOut PROVE WayBack'
<1>1. /\ UNCHANGED <<tree, name, clash, loaded, stockUndo, stockRedo, posts, mpc, marg, dialogs, mval>>
      /\ mpc \in InSession => mreply' = mreply
      /\ done' = IF done.by = "event" THEN NobodyWaits ELSE done
  BY DEF TimeOut, pluginVars, Inv, UnloadInv, InSession, AskPcs
<1>2. /\ aq \in Seq(Jobs) /\ aq' \in Seq(Jobs) /\ DOMAIN aq' = DOMAIN aq
      /\ \A k \in DOMAIN aq : /\ aq'[k].op = aq[k].op /\ aq'[k].arg = aq[k].arg
                              /\ aq'[k].by = IF aq[k].by = "event" THEN "nobody" ELSE aq[k].by
  BY TimeOutJobs DEF Inv, Types, QueuesOK
<1>3. \A k \in DOMAIN aq : aq[k] \in Jobs /\ aq'[k] \in Jobs /\ aq[k] \in Range(aq)
  BY <1>2 DEF Range
<1>4. \A k \in DOMAIN aq : aq[k].by = "event" => aq[k].op \in SessionOps
  BY <1>3 DEF Inv, EventInv, EventJob, SessionOps
<1>5. \A k \in DOMAIN aq : aq[k].by # "event" => aq'[k] = aq[k]
  BY <1>2, <1>3 DEF Jobs
<1>6. Asked' = Asked /\ Removals' = Removals
  BY <1>2, <1>4, <1>5 DEF Asked, Removals, Range, SessionOps
<1>7. Sole(aq', Deletes)
  <2>1. \A k \in DOMAIN aq : aq'[k] \in Deletes => aq[k] \in Deletes
    BY <1>2, <1>3 DEF Deletes
  <2>2. QED
    BY <1>2, <2>1 DEF WayBack, WaitInv, Sole
<1>8. \A k, l \in DOMAIN aq' : aq'[k].by = "main" /\ k < l => aq'[l].op # "close"
  BY <1>2 DEF WayBack, WaitInv
<1>9. WaitInv'
  BY <1>1, <1>6, <1>7, <1>8 DEF WayBack, WaitInv
<1>10. mpc \in InSession => Outcome' = Outcome /\ (Executed' <=> Executed) /\ (Agreed => Agreed')
  <2>1. (done'.by = "main" <=> done.by = "main") /\ (done.by = "main" => done' = done)
    BY <1>1 DEF NobodyWaits
  <2>2. QED
    BY <1>1, <2>1 DEF Outcome, Executed, Agreed
<1>11. WayInv'
  BY <1>1, <1>6, <1>10, WaysStay DEF WayBack
<1>12. QED
  BY <1>1, <1>9, <1>11 DEF WayBack

\* Events, functions that will raise, and installed drivers.
LEMMA OutsideWay == ASSUME Inv, WayBack, Outside PROVE WayBack'
<1>1. UNCHANGED wayFrame /\ UNCHANGED <<mpc, marg, dialogs, mreply, mval, done, posts>>
  BY DEF Outside, wayFrame, mainVars
<1>2. CASE aq' = aq
  <2>1. WaitInv' /\ Asked' = Asked /\ Removals' = Removals
    BY <1>1, <1>2, WaitStays DEF WayBack, WaitInv
  <2>2. Outcome' = Outcome /\ (Executed' <=> Executed) /\ (Agreed => Agreed')
    BY <1>1 DEF Outcome, Executed, Agreed
  <2>3. WayInv'
    BY <1>1, <2>1, <2>2, WaysStay DEF WayBack, wayFrame
  <2>4. QED
    BY <1>1, <2>1, <2>3 DEF WayBack, wayFrame
<1>3. ASSUME NEW op \in {"fault", "start"}, NEW i \in 1..Len(name), aq' = Append(aq, Job(op, i, "nobody"))
      PROVE  WayBack'
  <2> DEFINE e == Job(op, i, "nobody")
  <2>1. e \in Jobs /\ e.op = op /\ e.by = "nobody"
    <3>1. e \in Jobs
      BY PluginJobs DEF PluginOps, Callers, Inv, Types
    <3>2. QED
      BY <3>1 DEF Job
  <2> HIDE DEF e
  <2>2. aq' = Append(aq, e) /\ e.op # "delete" /\ e.op # "close" /\ e.by # "main"
    BY <1>3, <2>1 DEF e
  <2>3. QED
    BY <1>1, <2>1, <2>2, AppendWay
<1>4. info.started \subseteq 1..Len(name) /\ info.failed \subseteq 1..Len(name)
  BY DEF Inv, Types, ItemsOK, Infos, Known
<1>5. QED
  BY <1>2, <1>3, <1>4 DEF Outside

\* A command that nothing comes between finds the stocks at the tree.
LEMMA SettledWay ==
  ASSUME Inv, Uncrossed, WayBack, mpc = "idle", Settled
  PROVE  /\ loaded = "yes" /\ Removals = {} /\ Asked = {} /\ ~Executed
         /\ \A j \in Range(aq) : j.op # "delete"
         /\ \A j \in Range(posts) : j.op # "close"
         /\ Usable("undo", stockUndo, Shape) /\ Usable("redo", stockRedo, Shape)
         /\ Shape \in Seq(Nat)
<1>1. /\ loaded = "yes"
      /\ \A j \in Range(aq) : j.op # "delete"
      /\ \A j \in Range(posts) : j.op # "close"
  BY DEF Settled, Range
<1>2. Removals = {}
  BY <1>1 DEF Removals
<1>3. Asked = {} /\ ~Executed
  BY DEF Asked, Executed, Inv, MainInv, MainJob, AskedFor, AskPcs, Types, ControlOK
<1>4. PICK u, r : Ways(u, r)
  BY <1>1 DEF WayBack, WayInv
<1>5. mpc \notin InSession
  BY DEF InSession, AskPcs
<1>6. u = Shape /\ r = Shape
  BY <1>2, <1>4, <1>5 DEF Ways, Between, CalmWay
<1>7. Usable("undo", stockUndo, Shape) /\ Usable("redo", stockRedo, Shape)
  BY <1>4, <1>6 DEF Ways
<1>8. QED
  BY <1>1, <1>2, <1>3, <1>7, ShapeType DEF Inv, Types

\* Such a command waits for one job.
LEMMA AskWay ==
  ASSUME Inv, Uncrossed, WayBack, ~crossed', NEW j \in Jobs, NEW pc, NEW h, Ask(j, pc, h),
         j.by = "main", <<pc, j.op>> \in AskedFor, pc # "setup",
         NEW u, NEW r, Usable("undo", stockUndo', u), Usable("redo", stockRedo', r),
         pc = "exit" => u = Shape /\ r = Shape, AskedFits(j, u, r)'
  PROVE  WayBack'
<1>1. /\ UNCHANGED <<tree, name, clash, loaded, posts, done, mreply, mval>>
      /\ mpc = "idle" /\ mpc' = pc /\ aq' = Append(aq, j) /\ Settled
  BY SettledCommand DEF Ask, AskAnyway, mainSame, pluginVars
<1>2. /\ Removals = {} /\ Asked = {} /\ ~Executed
      /\ \A k \in Range(aq) : k.op # "delete"
      /\ \A k \in Range(posts) : k.op # "close"
  BY <1>1, SettledWay
<1>3. Range(aq') = Range(aq) \cup {j}
  BY <1>1, QueueAppended DEF Inv, Types, QueuesOK
<1>4. Asked' = {j} /\ Removals' = {}
  BY <1>2, <1>3 DEF Asked, Removals
<1>5. j.op # "close"
  BY DEF AskedFor
<1>6. WaitInv'
  BY <1>1, <1>2, <1>4, <1>5, WaitAppended DEF WayBack
<1>7. ~Executed'
  BY <1>1, <1>2 DEF Executed
<1>8. pc \in InSession \/ pc = "exit"
  BY DEF AskedFor, InSession, AskPcs
<1>9. CalmWay(u, r)'
  BY <1>1, <1>8, ShapeStays DEF CalmWay
<1>10. RemovalWay(u, r)' /\ AskedWay(u, r)' /\ SetupWay(u, r)' /\ DoneWay(u, r)'
  BY <1>1, <1>4, <1>7 DEF RemovalWay, AskedWay, SetupWay, DoneWay
<1>11. Usable("undo", stockUndo, u)' /\ Usable("redo", stockRedo, r)'
  BY DEF Usable, WaysOf, Passes, Leads, Inserted
<1>12. Ways(u, r)'
  BY <1>9, <1>10, <1>11 DEF Ways, Between
<1>13. QED
  BY <1>1, <1>6, <1>12 DEF WayBack, WayInv

\* The commands.
LEMMA AddPluginWay == ASSUME Inv, Uncrossed, WayBack, ~crossed', AddPlugin PROVE WayBack'
<1> DEFINE j == Job("create", 0, "main")
<1>1. j \in Jobs /\ j.by = "main" /\ j.op = "create"
  BY OtherJobs DEF Callers, Job
<1>2. /\ Ask(j, "create", NoHandler) /\ UNCHANGED <<tree, name, stockUndo, stockRedo>>
      /\ mpc = "idle" /\ mpc' = "create" /\ Settled
  BY SettledCommand DEF AddPlugin, Ask, AskAnyway, mainSame, pluginVars
<1> HIDE DEF j
<1>3. PICK v : v = Shape
  OBVIOUS
<1>4. /\ Usable("undo", stockUndo', v) /\ Usable("redo", stockRedo', v) /\ Shape' = v
  BY <1>2, <1>3, SettledWay, ShapeStays
<1>5. AskedFits(j, v, v)'
  BY <1>2, <1>4 DEF AskedFits
<1>6. <<"create", j.op>> \in AskedFor
  BY <1>1 DEF AskedFor
<1>7. QED
  BY <1>1, <1>2, <1>4, <1>5, <1>6, AskWay

\* Clear, ToggleEnable and Configure.
LEMMA EditWay ==
  ASSUME Inv, Uncrossed, WayBack, ~crossed', NEW p \in DOMAIN tree, Edit(p) PROVE WayBack'
<1>1. tree[p] \in Items
  BY DEF Inv, Types, ItemsOK, Range
<1>2. /\ UNCHANGED <<tree, name, stockUndo, stockRedo>> /\ mpc = "idle" /\ mpc' = "edit" /\ Settled
  BY SettledCommand DEF Edit, Ask, AskAnyway, mainSame, pluginVars
<1>3. PICK v : v = Shape
  OBVIOUS
<1>4. /\ Usable("undo", stockUndo', v) /\ Usable("redo", stockRedo', v) /\ Shape' = v
  BY <1>2, <1>3, SettledWay, ShapeStays
<1>5. ASSUME NEW kind, NEW op, <<kind, op>> \in EditKinds, NEW j \in Jobs, NEW h,
             j.op = op, j.arg = tree[p], j.by = "main",
             h.kind = kind, h.pos = p, kind = "clear" => h.name = name[tree[p]],
             Ask(j, "edit", h)
      PROVE  WayBack'
  <2>1. marg' = h
    BY <1>5 DEF Ask, AskAnyway
  <2>2. EditFits(j)'
    BY <1>2, <1>5, <2>1 DEF EditFits, At
  <2>3. AskedFits(j, v, v)'
    BY <1>2, <1>4, <2>2 DEF AskedFits
  <2>4. <<"edit", j.op>> \in AskedFor
    BY <1>5 DEF EditKinds, AskedFor
  <2>5. QED
    BY <1>4, <1>5, <2>3, <2>4, AskWay
<1>6. ASSUME NEW kind, NEW op, <<kind, op>> \in EditKinds, NEW n, NEW on,
             kind = "clear" => n = name[tree[p]],
             Ask(Job(op, tree[p], "main"), "edit", Handler(kind, tree[p], p, n, on))
      PROVE  WayBack'
  <2>1. PICK j \in Jobs : j = Job(op, tree[p], "main")
    BY <1>1, <1>6, ItemJobs DEF EditKinds, PluginOps, Callers
  <2>2. PICK h : h = Handler(kind, tree[p], p, n, on)
    OBVIOUS
  <2>3. j.op = op /\ j.arg = tree[p] /\ j.by = "main"
    BY <2>1 DEF Job
  <2>4. h.kind = kind /\ h.pos = p /\ h.name = n
    BY <2>2 DEF Handler
  <2>5. Ask(j, "edit", h)
    BY <1>6, <2>1, <2>2
  <2>6. QED
    BY <1>5, <1>6, <2>3, <2>4, <2>5
<1>7. CASE Ask(Job("delete", tree[p], "main"), "edit",
               Handler("clear", tree[p], p, name[tree[p]], tree[p] \in enabled))
  <2>1. PICK n, on : n = name[tree[p]] /\ on = (tree[p] \in enabled)
    OBVIOUS
  <2>2. Ask(Job("delete", tree[p], "main"), "edit", Handler("clear", tree[p], p, n, on))
    BY <1>7, <2>1
  <2>3. <<"clear", "delete">> \in EditKinds
    BY DEF EditKinds
  <2>4. QED
    BY <1>6, <2>1, <2>2, <2>3
<1>8. CASE Ask(Job("toggle", tree[p], "main"), "edit", Handler("toggle", tree[p], p, 0, TRUE))
  <2>1. <<"toggle", "toggle">> \in EditKinds /\ ~("toggle" = "clear")
    BY DEF EditKinds
  <2>2. PICK kind, op, n, on : /\ kind = "toggle" /\ op = "toggle" /\ n = 0 /\ on = TRUE
    OBVIOUS
  <2>3. <<kind, op>> \in EditKinds /\ (kind = "clear" => n = name[tree[p]])
    BY <2>1, <2>2
  <2>4. Ask(Job(op, tree[p], "main"), "edit", Handler(kind, tree[p], p, n, on))
    BY <1>8, <2>2
  <2>5. QED
    BY <1>6, <2>3, <2>4
<1>9. CASE Ask(Job("setArgs", tree[p], "main"), "edit", Handler("configure", tree[p], p, 0, TRUE))
  <2>1. <<"configure", "setArgs">> \in EditKinds /\ ~("configure" = "clear")
    BY DEF EditKinds
  <2>2. PICK kind, op, n, on : /\ kind = "configure" /\ op = "setArgs" /\ n = 0 /\ on = TRUE
    OBVIOUS
  <2>3. <<kind, op>> \in EditKinds /\ (kind = "clear" => n = name[tree[p]])
    BY <2>1, <2>2
  <2>4. Ask(Job(op, tree[p], "main"), "edit", Handler(kind, tree[p], p, n, on))
    BY <1>9, <2>2
  <2>5. QED
    BY <1>6, <2>3, <2>4
<1>10. QED
  BY <1>7, <1>8, <1>9 DEF Edit

\* Document.Undo takes the last handler, and what is left starts where it leads.
LEMMA UndoWay == ASSUME Inv, Uncrossed, WayBack, ~crossed', Undo PROVE WayBack'
<1>1. /\ UNCHANGED <<tree, name, stockRedo>> /\ mpc = "idle" /\ mpc' = "undo" /\ Settled
      /\ stockUndo # <<>> /\ stockUndo' = Front(stockUndo)
      /\ Ask(Job("undo", Last(stockUndo), "main"), "undo", NoHandler)
  BY SettledCommand DEF Undo, Ask, AskAnyway, mainSame, pluginVars
<1>2. PICK h \in Handlers : h = Last(stockUndo)
  BY <1>1 DEF Inv, Types, AroundOK, Last
<1>3. PICK j \in Jobs : j = Job("undo", h, "main")
  BY <1>2, HandlerJobs DEF HandlerOps, Callers
<1>4. j.op = "undo" /\ j.arg = h /\ j.by = "main" /\ Ask(j, "undo", NoHandler)
  BY <1>1, <1>2, <1>3 DEF Job
<1>5. PICK v : v = Shape
  OBVIOUS
<1>6. /\ Usable("undo", stockUndo, v) /\ Usable("redo", stockRedo', v) /\ Shape' = v
  BY <1>1, <1>5, SettledWay, ShapeStays
<1>7. PICK u : Usable("undo", stockUndo', u) /\ Passes("undo", h, v, u)
  BY <1>1, <1>2, <1>6, PopUsable DEF Inv, Types, AroundOK
<1>8. AskedFits(j, u, v)'
  BY <1>1, <1>4, <1>6, <1>7 DEF AskedFits
<1>9. <<"undo", j.op>> \in AskedFor
  BY <1>4 DEF AskedFor
<1>10. QED
  BY <1>4, <1>6, <1>7, <1>8, <1>9, AskWay

\* So does Redo.
LEMMA RedoWay == ASSUME Inv, Uncrossed, WayBack, ~crossed', Redo PROVE WayBack'
<1>1. /\ UNCHANGED <<tree, name, stockUndo>> /\ mpc = "idle" /\ mpc' = "redo" /\ Settled
      /\ stockRedo # <<>> /\ stockRedo' = Front(stockRedo)
      /\ Ask(Job("redo", Last(stockRedo), "main"), "redo", NoHandler)
  BY SettledCommand DEF Redo, Ask, AskAnyway, mainSame, pluginVars
<1>2. PICK h \in Handlers : h = Last(stockRedo)
  BY <1>1 DEF Inv, Types, AroundOK, Last
<1>3. PICK j \in Jobs : j = Job("redo", h, "main")
  BY <1>2, HandlerJobs DEF HandlerOps, Callers
<1>4. j.op = "redo" /\ j.arg = h /\ j.by = "main" /\ Ask(j, "redo", NoHandler)
  BY <1>1, <1>2, <1>3 DEF Job
<1>5. PICK v : v = Shape
  OBVIOUS
<1>6. /\ Usable("redo", stockRedo, v) /\ Usable("undo", stockUndo', v) /\ Shape' = v
  BY <1>1, <1>5, SettledWay, ShapeStays
<1>7. PICK u : Usable("redo", stockRedo', u) /\ Passes("redo", h, v, u)
  BY <1>1, <1>2, <1>6, PopUsable DEF Inv, Types, AroundOK
<1>8. AskedFits(j, v, u)'
  BY <1>1, <1>4, <1>6, <1>7 DEF AskedFits
<1>9. <<"redo", j.op>> \in AskedFor
  BY <1>4 DEF AskedFor
<1>10. QED
  BY <1>4, <1>6, <1>7, <1>8, <1>9, AskWay

\* DeInit.
LEMMA ExitWay == ASSUME Inv, Uncrossed, WayBack, ~crossed', Exit PROVE WayBack'
<1> DEFINE j == Job("stopSession", 0, "main")
<1>1. j \in Jobs /\ j.by = "main" /\ j.op = "stopSession"
  BY OtherJobs DEF Callers, Job
<1>2. /\ Ask(j, "exit", NoHandler) /\ UNCHANGED <<tree, name, stockUndo, stockRedo>>
      /\ mpc = "idle" /\ mpc' = "exit" /\ Settled
  BY SettledCommand DEF Exit, Ask, AskAnyway, mainSame, pluginVars
<1> HIDE DEF j
<1>3. PICK v : v = Shape
  OBVIOUS
<1>4. /\ Usable("undo", stockUndo', v) /\ Usable("redo", stockRedo', v) /\ Shape' = v
  BY <1>2, <1>3, SettledWay, ShapeStays
<1>5. AskedFits(j, v, v)'
  BY <1>2, <1>4 DEF AskedFits
<1>6. <<"exit", j.op>> \in AskedFor
  BY <1>1 DEF AskedFor
<1>7. QED
  BY <1>1, <1>2, <1>3, <1>4, <1>5, <1>6, AskWay

\* Document.StartSession asks the event thread.
LEMMA OpenFileWay ==
  ASSUME Inv, Uncrossed, WayBack, ~crossed', NEW f \in Files, OpenFile(f) PROVE WayBack'
<1>1. /\ UNCHANGED <<tree, name, clash, loaded, stockUndo, stockRedo, aq, posts>>
      /\ mpc = "idle" /\ mpc' = "unload"
  BY SettledCommand DEF OpenFile, mainSame, pluginVars
<1>2. Settled
  BY SettledCommand DEF OpenFile
<1>3. Removals = {} /\ mpc \notin InSession /\ mpc' \notin InSession
  BY <1>1, <1>2, SettledWay DEF InSession, AskPcs
<1>4. WaitInv' /\ Asked' = Asked /\ Removals' = Removals
  BY <1>1, <1>3, WaitStays DEF WayBack, FirstDialog
<1>5. WayInv'
  BY <1>1, <1>3, <1>4, WaysStay DEF WayBack
<1>6. QED
  BY <1>1, <1>4, <1>5 DEF WayBack

\* Every command keeps the way back.
LEMMA CommandWay == ASSUME Inv, Uncrossed, WayBack, ~crossed', Command PROVE WayBack'
<1>1. \A i \in DOMAIN name : ~EditLeft(i)
  BY DEF EditLeft
<1>2. QED
  BY <1>1, OpenFileWay, AddPluginWay, EditWay, UndoWay, RedoWay, ExitWay DEF Command

\* What the main thread finds when its answer has come.
LEMMA GotAnswer ==
  ASSUME Inv, Uncrossed, WayBack, mreply # "none"
  PROVE  /\ Asked = {} /\ Removals = {} /\ done.by # "main" /\ mpc # "idle"
         /\ \A j \in Range(aq) : j.op # "delete"
         /\ mpc \in InSession =>
              /\ mreply = "ok"
              /\ \E u, r : /\ Usable("undo", stockUndo, u) /\ Usable("redo", stockRedo, r)
                           /\ DoneFits(mval, u, r) /\ SetupWay(u, r)
<1>1. done.by # "main" /\ Asked = {}
  BY DEF Inv, MainInv, MainJob, Asked
<1>2. mpc # "idle" /\ mreply \in {"none", "ok", "raised"}
  BY DEF Inv, Types, ControlOK
<1>3. Removals = {}
  BY <1>2 DEF WayBack, WaitInv
<1>4. \A j \in Range(aq) : j.op # "delete"
  BY <1>1, <1>3 DEF Asked, Removals
<1>5. ASSUME mpc \in InSession
      PROVE  /\ mreply = "ok"
             /\ \E u, r : /\ Usable("undo", stockUndo, u) /\ Usable("redo", stockRedo, r)
                          /\ DoneFits(mval, u, r) /\ SetupWay(u, r)
  <2>1. loaded = "yes"
    BY <1>5 DEF Uncrossed, CommandInv
  <2>2. PICK u, r : Ways(u, r)
    BY <2>1 DEF WayBack, WayInv
  <2>3. Executed /\ Outcome = mval
    BY <1>1 DEF Executed, Outcome
  <2>4. Agreed /\ DoneFits(mval, u, r)
    BY <1>5, <2>2, <2>3 DEF Ways, Between, DoneWay
  <2>5. mreply = "ok"
    BY <1>2, <2>4 DEF Agreed
  <2>6. QED
    BY <2>2, <2>4, <2>5 DEF Ways, Between
<1>6. QED
  BY <1>1, <1>2, <1>3, <1>4, <1>5

\* The main thread waits for nothing, and the stocks start from the tree.
LEMMA IdleWay ==
  ASSUME mpc' = "idle", mreply' = "none", done'.by # "main", Removals' = {},
         NEW v, Shape' = v, Usable("undo", stockUndo', v), Usable("redo", stockRedo', v)
  PROVE  WayInv'
<1>1. ~Executed'
  BY DEF Executed
<1>2. Between(v, v)'
  BY <1>1 DEF Between, CalmWay, RemovalWay, AskedWay, AskedFits, SetupWay, DoneWay, InSession, AskPcs
<1>3. Usable("undo", stockUndo, v)' /\ Usable("redo", stockRedo, v)'
  BY DEF Usable, WaysOf, Passes, Leads, Inserted
<1>4. QED
  BY <1>2, <1>3 DEF Ways, WayInv

\* The command is at its end.
LEMMA EndedWay ==
  ASSUME Inv, Uncrossed, WayBack, mreply # "none", mreply' = "none", mpc' = "idle",
         UNCHANGED <<tree, name, clash, posts, done>>,
         \/ aq' = aq
         \/ \E e \in Jobs : aq' = Append(aq, e) /\ e.op \notin {"close", "delete"} /\ e.by = "nobody",
         NEW v, Shape = v, Usable("undo", stockUndo', v), Usable("redo", stockRedo', v)
  PROVE  WayBack'
<1>1. /\ Asked = {} /\ Removals = {} /\ done'.by # "main" /\ Shape' = v
      /\ \A j \in Range(aq) : j.op # "delete"
  BY GotAnswer, ShapeStays
<1>2. CASE aq' = aq
  <2>1. WaitInv' /\ Removals' = {}
    BY <1>1, <1>2, WaitStays DEF WayBack, FirstDialog
  <2>2. WayInv'
    BY <1>1, <2>1, IdleWay
  <2>3. QED
    BY <2>1, <2>2 DEF WayBack
<1>3. ASSUME NEW e \in Jobs, aq' = Append(aq, e), e.op \notin {"close", "delete"}, e.by = "nobody"
      PROVE  WayBack'
  <2>1. Range(aq') = Range(aq) \cup {e}
    BY <1>3, QueueAppended DEF Inv, Types, QueuesOK
  <2>2. Removals' = {}
    BY <1>1, <1>3, <2>1 DEF Removals
  <2>3. WaitInv'
    BY <1>1, <1>3, <2>2, WaitAppended DEF WayBack, FirstDialog
  <2>4. WayInv'
    BY <1>1, <2>2, IdleWay
  <2>5. QED
    BY <2>3, <2>4 DEF WayBack
<1>4. QED
  BY <1>2, <1>3

\* Document.StartSession goes on, and DeInit.
LEMMA UnloadedWay == ASSUME Inv, Uncrossed, WayBack, Unloaded PROVE WayBack'
<1>1. /\ UNCHANGED <<tree, name, clash, loaded, stockUndo, stockRedo, aq, posts>>
      /\ mpc = "unload" /\ mreply # "none" /\ mpc' = "idle"
  BY DEF Unloaded, Got, mainSame, pluginVars
<1>2. mpc \notin InSession /\ mpc' \notin InSession
  BY <1>1 DEF InSession, AskPcs
<1>3. WaitInv' /\ Asked' = Asked /\ Removals' = Removals
  BY <1>1, GotAnswer, WaitStays DEF WayBack, FirstDialog
<1>4. WayInv'
  BY <1>1, <1>2, <1>3, WaysStay DEF WayBack
<1>5. QED
  BY <1>1, <1>3, <1>4 DEF WayBack

\* DeInit goes on after the end of the session.
LEMMA ExitedWay == ASSUME Inv, Uncrossed, WayBack, Exited PROVE WayBack'
<1>1. /\ UNCHANGED wayFrame /\ UNCHANGED <<tree, name, clash, loaded, stockUndo, stockRedo, posts>>
      /\ mpc = "exit" /\ mreply # "none" /\ mpc' \in {"ended", "stuck"}
  BY DEF Exited, Got, mainSame, pluginVars, wayFrame
<1>2. /\ mpc \notin InSession /\ mpc' \notin InSession /\ mpc' \notin FirstDialog
      /\ Removals = {} /\ Range(posts') \subseteq Range(posts)
  BY <1>1, GotAnswer DEF InSession, AskPcs, FirstDialog
<1>3. CASE aq' = aq
  <2>1. WaitInv' /\ Asked' = Asked /\ Removals' = Removals
    BY <1>1, <1>2, <1>3, WaitStays DEF WayBack, FirstDialog
  <2>2. WayInv'
    BY <1>1, <1>2, <2>1, WaysStay DEF WayBack
  <2>3. QED
    BY <1>1, <2>1, <2>2 DEF WayBack
<1>4. CASE aq' = Append(aq, Job("quit", 0, "nobody"))
  <2> DEFINE j == Job("quit", 0, "nobody")
  <2>1. j \in Jobs /\ j.op = "quit" /\ j.by = "nobody" /\ aq' = Append(aq, j)
    BY <1>4, OtherJobs DEF Callers, Job
  <2> HIDE DEF j
  <2>2. QED
    BY <1>1, <1>2, <2>1, AppendWay
<1>5. QED
  BY <1>3, <1>4 DEF Exited

\* A handler is put on the undo stock that led to the tree; the redo stock is
\* emptied.
LEMMA PushedWay ==
  ASSUME Inv, NEW u, Usable("undo", stockUndo, u), NEW h \in Handlers, NEW v, Shape = v,
         Leads(u, h, v), Push(h)
  PROVE  Usable("undo", stockUndo', v) /\ Usable("redo", stockRedo', v)
<1>1. v \in Seq(Nat) /\ stockUndo \in Seq(Handlers)
  BY ShapeType DEF Inv, Types, AroundOK
<1>2. Passes("undo", h, v, u)
  BY DEF Passes
<1>3. Usable("undo", Append(stockUndo, h), v)
  BY <1>1, <1>2, PushUsable
<1>4. Usable("redo", <<>>, v)
  BY <1>1, NothingUsable
<1>5. QED
  BY <1>3, <1>4 DEF Push

\* The place of an item that is where its handler says.
LEMMA StoredInPlace ==
  ASSUME Inv, NEW h \in Handlers, At(h.pos, h.item), Store(h) PROVE Push(h)
<1>1. h.pos \in DOMAIN tree /\ tree[h.pos] = h.item /\ IsInjective(tree)
  BY DEF At, Inv, Types, ItemsOK
<1>2. h.item \in Range(tree)
  BY <1>1 DEF Range
<1>3. \A k \in DOMAIN tree : tree[k] = h.item => k = h.pos
  BY <1>1 DEF IsInjective
<1>4. Place(h.item) = h.pos
  BY <1>1, <1>2, <1>3 DEF Place
<1>5. [h EXCEPT !.pos = h.pos] = h
  BY DEF Handlers
<1>6. QED
  BY <1>4, <1>5 DEF Store

\* NewPlugin.Do goes on: the item is kept, set up first, or taken out again.
LEMMA CreatedWay == ASSUME Inv, Uncrossed, WayBack, Created PROVE WayBack'
<1>1. /\ UNCHANGED <<tree, name, clash, loaded, posts, done>>
      /\ mpc = "create" /\ mreply # "none" /\ mreply' = "none"
  BY DEF Created, mainSame, pluginVars
<1>2. mpc \in InSession /\ mval \in Handlers /\ mval.item \in Items
  BY <1>1, GotAnswer DEF InSession, AskPcs, Inv, Types, ControlOK, ValueInv
<1>3. PICK u, r : /\ Usable("undo", stockUndo, u) /\ Usable("redo", stockRedo, r)
                  /\ mreply = "ok" /\ DoneFits(mval, u, r)
  BY <1>1, <1>2, GotAnswer
<1>4. Made(mval, u, r)
  BY <1>1, <1>3 DEF DoneFits
<1>5. PICK h \in Handlers : h = mval
  BY <1>2
<1>6. PICK v : v = Shape
  OBVIOUS
<1>7. u = r /\ h.kind = "new" /\ Leads(u, h, v) /\ Inserted(u, h.pos, h.name, v) /\ At(h.pos, h.item)
  BY <1>4, <1>5, <1>6 DEF Made, Leads
<1>8. /\ Asked = {} /\ Removals = {} /\ done'.by # "main" /\ Shape' = v
      /\ \A j \in Range(aq) : j.op # "delete"
      /\ ~Executed'
  BY <1>1, <1>6, GotAnswer, ShapeStays DEF Executed
<1>9. CASE mpc' = "idle" /\ aq' = Append(aq, Job("execute", mval.item, "nobody")) /\ Store(mval)
  <2>1. PICK e \in Jobs : e = Job("execute", mval.item, "nobody")
    BY <1>2, ItemJobs DEF PluginOps, Callers
  <2>2. aq' = Append(aq, e) /\ e.op \notin {"close", "delete"} /\ e.by = "nobody"
    BY <1>9, <2>1 DEF Job
  <2>3. Usable("undo", stockUndo', v) /\ Usable("redo", stockRedo', v)
    BY <1>3, <1>5, <1>6, <1>7, <1>9, StoredInPlace, PushedWay
  <2>4. QED
    BY <1>1, <1>6, <1>9, <2>2, <2>3, EndedWay
<1>10. CASE /\ mpc' = "setup" /\ marg' = mval /\ aq' = Append(aq, Job("setArgs", mval.item, "main"))
            /\ UNCHANGED <<stockUndo, stockRedo>>
  <2>1. PICK e \in Jobs : e = Job("setArgs", mval.item, "main")
    BY <1>2, ItemJobs DEF PluginOps, Callers
  <2>2. aq' = Append(aq, e) /\ e.op = "setArgs" /\ e.by = "main" /\ e.arg = mval.item
    BY <1>10, <2>1 DEF Job
  <2>3. Range(aq') = Range(aq) \cup {e}
    BY <2>2, QueueAppended DEF Inv, Types, QueuesOK
  <2>4. Asked' = {e} /\ Removals' = {}
    BY <1>8, <2>2, <2>3 DEF Asked, Removals
  <2>5. \A j \in Range(posts) : j.op # "close"
    BY <1>1 DEF WayBack, WaitInv, FirstDialog
  <2>6. WaitInv'
    BY <1>1, <1>8, <2>2, <2>4, <2>5, WaitAppended DEF WayBack
  <2>7. Made(h, u, r)'
    BY <1>1, <1>7, <1>8 DEF Made, At, Leads, Inserted
  <2>8. SetupWay(u, r)'
    BY <1>5, <1>10, <2>7 DEF SetupWay, Made
  <2>9. AskedWay(u, r)'
    BY <1>10, <2>2, <2>4 DEF AskedWay, AskedFits
  <2>10. CalmWay(u, r)' /\ RemovalWay(u, r)' /\ DoneWay(u, r)'
    BY <1>8, <1>10, <2>4 DEF CalmWay, RemovalWay, DoneWay, InSession, AskPcs
  <2>11. Usable("undo", stockUndo, u)' /\ Usable("redo", stockRedo, r)'
    <3>1. Usable("undo", stockUndo', u) /\ Usable("redo", stockRedo', r)
      BY <1>3, <1>10
    <3>2. QED
      BY <3>1 DEF Usable, WaysOf, Passes, Leads, Inserted
  <2>12. Ways(u, r)'
    BY <2>8, <2>9, <2>10, <2>11 DEF Ways, Between
  <2>13. QED
    BY <1>1, <2>6, <2>12 DEF WayBack, WayInv
<1>11. CASE /\ mpc' = "idle" /\ aq' = Append(aq, Job("delete", mval.item, "nobody"))
            /\ UNCHANGED <<stockUndo, stockRedo>>
  <2>1. PICK e \in Jobs : e = Job("delete", mval.item, "nobody")
    BY <1>2, ItemJobs DEF PluginOps, Callers
  <2>2. aq' = Append(aq, e) /\ e.op = "delete" /\ e.by = "nobody" /\ e.arg = h.item
    BY <1>5, <1>11, <2>1 DEF Job
  <2>3. Range(aq') = Range(aq) \cup {e}
    BY <2>2, QueueAppended DEF Inv, Types, QueuesOK
  <2>4. Asked' = {} /\ Removals' = {e}
    BY <1>8, <2>2, <2>3 DEF Asked, Removals
  <2>5. WaitInv'
    BY <1>1, <1>8, <1>11, <2>2, WaitAppended DEF WayBack, FirstDialog
  <2>6. PICK p : p = h.pos
    OBVIOUS
  <2>7. p \in DOMAIN tree' /\ tree'[p] = e.arg /\ Inserted(u, p, v[p], v)
    BY <1>1, <1>7, <2>2, <2>6 DEF At, Inserted
  <2>8. Inserted(u, p, Shape[p], Shape)'
    BY <1>8, <2>7 DEF Inserted
  <2>9. RemovalWay(u, r)'
    BY <1>7, <2>4, <2>7, <2>8 DEF RemovalWay
  <2>10. CalmWay(u, r)' /\ AskedWay(u, r)' /\ SetupWay(u, r)' /\ DoneWay(u, r)'
    BY <1>8, <1>11, <2>4 DEF CalmWay, AskedWay, SetupWay, DoneWay, InSession, AskPcs
  <2>11. Usable("undo", stockUndo, u)' /\ Usable("redo", stockRedo, r)'
    <3>1. Usable("undo", stockUndo', u) /\ Usable("redo", stockRedo', r)
      BY <1>3, <1>11
    <3>2. QED
      BY <3>1 DEF Usable, WaysOf, Passes, Leads, Inserted
  <2>12. Ways(u, r)'
    BY <2>9, <2>10, <2>11 DEF Ways, Between
  <2>13. QED
    BY <1>1, <2>5, <2>12 DEF WayBack, WayInv
<1>12. QED
  BY <1>3, <1>9, <1>10, <1>11 DEF Created

\* The new plugin is configured: NewPlugin.Do puts its handler on the stock, or
\* goes back to the dialog.
LEMMA SetUpWay == ASSUME Inv, Uncrossed, WayBack, SetUp PROVE WayBack'
<1>1. /\ UNCHANGED <<tree, name, clash, loaded, posts, done>>
      /\ mpc = "setup" /\ mreply # "none"
  BY DEF SetUp, mainSame, pluginVars
<1>2. mpc \in InSession /\ marg \in Handlers /\ marg.item \in Items
  BY <1>1 DEF InSession, AskPcs, Inv, Types, ControlOK, ValueInv
<1>3. PICK u, r : /\ Usable("undo", stockUndo, u) /\ Usable("redo", stockRedo, r)
                  /\ mreply = "ok" /\ SetupWay(u, r)
  BY <1>1, <1>2, GotAnswer
<1>4. PICK h \in Handlers : h = marg
  BY <1>2
<1>5. PICK v : v = Shape
  OBVIOUS
<1>6. u = r /\ h.kind = "new" /\ Leads(u, h, v) /\ Inserted(u, h.pos, h.name, v) /\ At(h.pos, h.item)
  BY <1>1, <1>3, <1>4, <1>5 DEF SetupWay, Made, Leads
<1>7. CASE mpc' = "idle" /\ mreply' = "none" /\ aq' = Append(aq, Job("execute", marg.item, "nobody")) /\ Store(marg)
  <2>1. PICK e \in Jobs : e = Job("execute", marg.item, "nobody")
    BY <1>2, ItemJobs DEF PluginOps, Callers
  <2>2. aq' = Append(aq, e) /\ e.op \notin {"close", "delete"} /\ e.by = "nobody"
    BY <1>7, <2>1 DEF Job
  <2>3. Usable("undo", stockUndo', v) /\ Usable("redo", stockRedo', v)
    BY <1>3, <1>4, <1>5, <1>6, <1>7, StoredInPlace, PushedWay
  <2>4. QED
    BY <1>1, <1>5, <1>7, <2>2, <2>3, EndedWay
<1>8. CASE /\ mpc' = "create" /\ mreply' = "ok" /\ mval' = marg
           /\ UNCHANGED <<aq, stockUndo, stockRedo>>
  <2>1. /\ Asked = {} /\ Removals = {} /\ done'.by # "main" /\ Shape' = v
        /\ mpc \in FirstDialog
    BY <1>1, <1>5, GotAnswer, ShapeStays DEF FirstDialog
  <2>2. WaitInv' /\ Asked' = {} /\ Removals' = {}
    BY <1>1, <1>8, <2>1, WaitStays DEF WayBack
  <2>3. Agreed' /\ Outcome' = h
    BY <1>4, <1>8, <2>1 DEF Agreed, Outcome
  <2>4. Made(h, u, r)'
    BY <1>1, <1>6, <2>1 DEF Made, At, Leads, Inserted
  <2>5. DoneFits(Outcome, u, r)'
    BY <1>8, <2>3, <2>4 DEF DoneFits, Made
  <2>6. CalmWay(u, r)' /\ RemovalWay(u, r)' /\ AskedWay(u, r)' /\ SetupWay(u, r)' /\ DoneWay(u, r)'
    BY <1>8, <2>2, <2>3, <2>5 DEF CalmWay, RemovalWay, AskedWay, SetupWay, DoneWay, InSession, AskPcs
  <2>7. Usable("undo", stockUndo, u)' /\ Usable("redo", stockRedo, r)'
    <3>1. Usable("undo", stockUndo', u) /\ Usable("redo", stockRedo', r)
      BY <1>3, <1>8
    <3>2. QED
      BY <3>1 DEF Usable, WaysOf, Passes, Leads, Inserted
  <2>8. Ways(u, r)'
    BY <2>6, <2>7 DEF Ways, Between
  <2>9. QED
    BY <1>1, <2>2, <2>8 DEF WayBack, WayInv
<1>9. QED
  BY <1>3, <1>7, <1>8 DEF SetUp

\* Clear, ToggleEnable and Configure put their handler on the stock.
LEMMA EditedWay == ASSUME Inv, Uncrossed, WayBack, Edited PROVE WayBack'
<1>1. /\ UNCHANGED <<tree, name, clash, loaded, posts, done, aq>>
      /\ mpc = "edit" /\ mreply # "none" /\ mreply' = "none" /\ mpc' = "idle"
  BY DEF Edited, Got, mainSame, pluginVars
<1>2. mpc \in InSession
  BY <1>1 DEF InSession, AskPcs
<1>3. PICK u, r : /\ Usable("undo", stockUndo, u) /\ Usable("redo", stockRedo, r)
                  /\ mreply = "ok" /\ DoneFits(mval, u, r)
  BY <1>1, <1>2, GotAnswer
<1>4. PICK v : v = Shape
  OBVIOUS
<1>5. Leads(u, marg, v) /\ (marg.kind = "configure" => r = v)
  BY <1>1, <1>3, <1>4 DEF DoneFits
<1>6. PICK h : h = IF marg.kind = "toggle" THEN [marg EXCEPT !.on = mval.on] ELSE marg
  OBVIOUS
<1>7. h \in Handlers /\ h.kind = marg.kind /\ h.pos = marg.pos /\ h.name = marg.name
  BY <1>6 DEF Inv, Types, ControlOK, Handlers
<1>8. Leads(u, h, v)
  BY <1>5, <1>7 DEF Leads
<1>9. Push(h) \/ (marg.kind = "configure" /\ UNCHANGED <<stockUndo, stockRedo>>)
  BY <1>3, <1>6 DEF Edited
<1>10. Push(h) => Usable("undo", stockUndo', v) /\ Usable("redo", stockRedo', v)
  BY <1>3, <1>4, <1>7, <1>8, PushedWay
<1>11. ASSUME marg.kind = "configure", UNCHANGED <<stockUndo, stockRedo>>
       PROVE  Usable("undo", stockUndo', v) /\ Usable("redo", stockRedo', v)
  <2>1. u = v /\ r = v
    BY <1>5, <1>11 DEF Leads
  <2>2. QED
    BY <1>3, <1>11, <2>1
<1>12. Usable("undo", stockUndo', v) /\ Usable("redo", stockRedo', v)
  BY <1>9, <1>10, <1>11
<1>13. QED
  BY <1>1, <1>4, <1>12, EndedWay

\* Document.Undo puts the handler on the redo stock, Redo on the undo stock.
LEMMA UndoneWay == ASSUME Inv, Uncrossed, WayBack, Undone PROVE WayBack'
<1>1. /\ UNCHANGED <<tree, name, clash, loaded, posts, done, aq, stockUndo>>
      /\ mpc = "undo" /\ mreply # "none" /\ mreply' = "none" /\ mpc' = "idle"
  BY DEF Undone, Got, mainSame, pluginVars
<1>2. mpc \in InSession
  BY <1>1 DEF InSession, AskPcs
<1>3. PICK u, r : /\ Usable("undo", stockUndo, u) /\ Usable("redo", stockRedo, r)
                  /\ mreply = "ok" /\ DoneFits(mval, u, r)
  BY <1>1, <1>2, GotAnswer
<1>4. PICK v : v = Shape
  OBVIOUS
<1>5. PICK h \in Handlers : h = mval
  BY DEF Inv, Types, ControlOK
<1>6. u = v /\ Leads(v, h, r)
  BY <1>1, <1>3, <1>4, <1>5 DEF DoneFits
<1>7. Passes("redo", h, v, r)
  BY <1>6 DEF Passes
<1>8. stockRedo' = Append(stockRedo, h) /\ v \in Seq(Nat) /\ stockRedo \in Seq(Handlers)
  BY <1>3, <1>4, <1>5, ShapeType DEF Undone, Inv, Types, AroundOK
<1>9. Usable("redo", stockRedo', v)
  BY <1>3, <1>7, <1>8, PushUsable
<1>10. Usable("undo", stockUndo', v)
  BY <1>1, <1>3, <1>6
<1>11. QED
  BY <1>1, <1>4, <1>9, <1>10, EndedWay

\* Document.Redo puts the handler back on the undo stock.
LEMMA RedoneWay == ASSUME Inv, Uncrossed, WayBack, Redone PROVE WayBack'
<1>1. /\ UNCHANGED <<tree, name, clash, loaded, posts, done, aq, stockRedo>>
      /\ mpc = "redo" /\ mreply # "none" /\ mreply' = "none" /\ mpc' = "idle"
  BY DEF Redone, Got, mainSame, pluginVars
<1>2. mpc \in InSession
  BY <1>1 DEF InSession, AskPcs
<1>3. PICK u, r : /\ Usable("undo", stockUndo, u) /\ Usable("redo", stockRedo, r)
                  /\ mreply = "ok" /\ DoneFits(mval, u, r)
  BY <1>1, <1>2, GotAnswer
<1>4. PICK v : v = Shape
  OBVIOUS
<1>5. PICK h \in Handlers : h = mval
  BY DEF Inv, Types, ControlOK
<1>6. r = v /\ Leads(u, h, v)
  BY <1>1, <1>3, <1>4, <1>5 DEF DoneFits
<1>7. Passes("undo", h, v, u)
  BY <1>6 DEF Passes
<1>8. stockUndo' = Append(stockUndo, h) /\ v \in Seq(Nat) /\ stockUndo \in Seq(Handlers)
  BY <1>3, <1>4, <1>5, ShapeType DEF Redone, Inv, Types, AroundOK
<1>9. Usable("undo", stockUndo', v)
  BY <1>3, <1>7, <1>8, PushUsable
<1>10. Usable("redo", stockRedo', v)
  BY <1>1, <1>3, <1>6
<1>11. QED
  BY <1>1, <1>4, <1>9, <1>10, EndedWay

\* Every answer keeps the way back.
LEMMA GoesOnWay == ASSUME Inv, Uncrossed, WayBack, ~crossed', MainGoesOn PROVE WayBack'
<1>1. ~DialogAgain
  BY DEF DialogAgain
<1>2. QED
  BY <1>1, UnloadedWay, CreatedWay, SetUpWay, EditedWay, UndoneWay, RedoneWay, ExitedWay DEF MainGoesOn

\* Nothing waits when the program starts, and there is no tree.
LEMMA InitGivesWay == Init => WayBack
<1> SUFFICES ASSUME Init PROVE WayBack
  OBVIOUS
<1>1. aq = <<>> /\ posts = <<>> /\ loaded = "no" /\ ~clash
  BY DEF Init
<1>2. Range(aq) = {} /\ Range(posts) = {} /\ DOMAIN aq = {} /\ Removals = {}
  BY <1>1 DEF Range, Removals
<1>3. WaitInv
  BY <1>2 DEF WaitInv, Sole
<1>4. QED
  BY <1>1, <1>3 DEF WayBack, WayInv

\* The invariant is inductive.
BackInv == FullInv /\ (~crossed => WayBack)

\* Every step keeps BackInv, where the names within each file differ.
LEMMA BackStep == ASSUME DistinctNames PROVE BackInv /\ [Next]_vars => BackInv'
<1> SUFFICES ASSUME BackInv, [Next]_vars, ~crossed' PROVE WayBack'
  BY FullStep DEF BackInv
<1>1. CASE UNCHANGED vars
  <2>1. /\ UNCHANGED <<tree, name, clash, loaded, stockUndo, stockRedo, aq, posts, done>>
        /\ UNCHANGED <<mpc, mreply, mval, marg, dialogs, crossed>>
    BY <1>1 DEF vars, pluginVars, actionVars, mainVars
  <2>2. WayBack
    BY <2>1 DEF BackInv
  <2>3. WaitInv' /\ Asked' = Asked /\ Removals' = Removals
    BY <2>1, <2>2, WaitStays DEF WayBack, WaitInv
  <2>4. Outcome' = Outcome /\ (Executed' <=> Executed) /\ (Agreed => Agreed')
    BY <2>1 DEF Outcome, Executed, Agreed
  <2>5. WayInv'
    BY <2>1, <2>2, <2>3, <2>4, WaysStay DEF WayBack
  <2>6. QED
    BY <2>1, <2>2, <2>3, <2>5 DEF WayBack
<1>2. CASE Next
  <2>1. Inv /\ Uncrossed /\ WayBack
    BY <1>2, CrossedStays DEF BackInv, FullInv
  <2>2. CASE ActionThread
    BY <2>1, <2>2, JobKeepsWay, PostWay, AnswerWay DEF ActionThread, AnyJob
  <2>3. CASE EventThread \/ TimeOut
    BY <2>1, <2>3, TakeEventWay, SessionAnsweredWay, TimeOutWay DEF EventThread
  <2>4. CASE MainGoesOn
    BY <2>1, <2>4, GoesOnWay
  <2>5. CASE Command \/ Outside
    BY <2>1, <2>5, CommandWay, OutsideWay
  <2>6. QED
    BY <1>2, <2>2, <2>3, <2>4, <2>5 DEF Next
<1>3. QED
  BY <1>1, <1>2

\* The assertion of CreateInstance: where the names within each file differ, no
\* item that is loaded, made or restored finds its name taken, as long as nothing
\* that `crossed` records happened (PluginInstanceInfo, Document.Undo).
THEOREM NamesFree == ASSUME DistinctNames PROVE Spec => []NamesAreFree
<1>1. Init => BackInv
  BY InitGivesInv, InitGivesUncrossed, InitGivesWay DEF BackInv, FullInv
<1>2. BackInv => NamesAreFree
  BY DEF BackInv, WayBack, NamesAreFree
<1>3. BackInv /\ [Next]_vars => BackInv'
  BY BackStep
<1>4. QED
  BY <1>1, <1>2, <1>3, PTL DEF Spec
=============================================================================
