-------------------------- MODULE Execution_proofs --------------------------
(***************************************************************************)
(* What holds of the components that execute goals for all values of the   *)
(* constants.  For each component an inductive invariant is shown to hold  *)
(* initially, to be kept by its steps, and to imply what Execution states  *)
(* of it; the theorems at the end put them together.                       *)
(***************************************************************************)
EXTENDS Execution, SequenceTheorems, FiniteSetTheorems, TLAPS

---------------------------------------------------------------------------
(* Progress logs.  The lines of a sequence: *)

Lines(s) == PL!ToSet(s)

Distinct(s) == \A i, j \in DOMAIN s : i # j => s[i] # s[j]

Ordered(s, pairs) ==
    \A i, j \in DOMAIN s : i < j => s[i] < s[j] \/ {s[i], s[j]} \in pairs

Pairs(K, L) == {{k, l} : k \in K, l \in L}

Before(K, L, pairs) == \A k \in K, l \in L : k < l \/ {k, l} \in pairs

LEMMA EmptyLines ==
    /\ <<>> \in Seq(Nat) /\ Lines(<<>>) = {} /\ Distinct(<<>>)
    /\ \A pairs : Ordered(<<>>, pairs)
BY DEF Lines, PL!ToSet, Distinct, Ordered

LEMMA AppendLine ==
    ASSUME NEW s \in Seq(Nat), NEW l \in Nat, NEW pairs
    PROVE  /\ Append(s, l) \in Seq(Nat)
           /\ Lines(Append(s, l)) = Lines(s) \cup {l}
           /\ Distinct(s) /\ l \notin Lines(s) => Distinct(Append(s, l))
           /\ Ordered(s, pairs) /\ (\A k \in Lines(s) : k < l) => Ordered(Append(s, l), pairs)
<1> DEFINE t == Append(s, l)
<1>1. /\ t \in Seq(Nat) /\ DOMAIN t = 1..(Len(s) + 1) /\ DOMAIN s = 1..Len(s)
      /\ Len(s) \in Nat
      /\ \A i \in 1..Len(s) : t[i] = s[i] /\ s[i] \in Nat
      /\ t[Len(s) + 1] = l
  OBVIOUS
<1>2. \A i \in DOMAIN s : s[i] \in Lines(s)
  BY DEF Lines, PL!ToSet
<1>3. Lines(t) = Lines(s) \cup {l}
  <2>1. \A x \in Lines(t) : x \in Lines(s) \cup {l}
    BY <1>1 DEF Lines, PL!ToSet
  <2>2. \A x \in Lines(s) \cup {l} : x \in Lines(t)
    <3> HIDE DEF t
    <3> QED
      BY <1>1 DEF Lines, PL!ToSet
  <2> QED
    BY <2>1, <2>2
<1> HIDE DEF t
<1>4. ASSUME Distinct(s), l \notin Lines(s)
      PROVE  Distinct(t)
  <2> SUFFICES ASSUME NEW i \in DOMAIN t, NEW j \in DOMAIN t, i # j
               PROVE  t[i] # t[j]
    BY DEF Distinct
  <2>1. CASE i \in DOMAIN s /\ j \in DOMAIN s
    BY <1>1, <1>4, <2>1 DEF Distinct
  <2>2. CASE i \in DOMAIN s /\ j = Len(s) + 1
    BY <1>1, <1>2, <1>4, <2>2
  <2>3. CASE i = Len(s) + 1 /\ j \in DOMAIN s
    BY <1>1, <1>2, <1>4, <2>3
  <2> QED
    BY <1>1, <2>1, <2>2, <2>3
<1>5. Ordered(s, pairs) /\ (\A k \in Lines(s) : k < l) => Ordered(t, pairs)
  <2> SUFFICES ASSUME Ordered(s, pairs), \A k \in Lines(s) : k < l,
                      NEW i \in DOMAIN t, NEW j \in DOMAIN t, i < j
               PROVE  t[i] < t[j] \/ {t[i], t[j]} \in pairs
    BY DEF Ordered
  <2>1. CASE j \in DOMAIN s
    <3>1. i \in DOMAIN s /\ t[i] = s[i] /\ t[j] = s[j]
      BY <1>1, <2>1
    <3> QED
      BY <2>1, <3>1 DEF Ordered
  <2>2. CASE j = Len(s) + 1
    BY <1>1, <1>2, <2>2
  <2> QED
    BY <1>1, <2>1, <2>2
<1> QED
  BY <1>1, <1>3, <1>4, <1>5 DEF t

LEMMA ConcatLines ==
    ASSUME NEW s \in Seq(Nat), NEW t \in Seq(Nat), NEW pairs
    PROVE  /\ s \o t \in Seq(Nat)
           /\ Lines(s \o t) = Lines(s) \cup Lines(t)
           /\ Distinct(s) /\ Distinct(t) /\ Lines(s) \cap Lines(t) = {} => Distinct(s \o t)
           /\ Ordered(s, pairs) /\ Ordered(t, pairs) /\ Before(Lines(s), Lines(t), pairs)
                => Ordered(s \o t, pairs)
<1> DEFINE u == s \o t
<1>1. /\ u \in Seq(Nat) /\ DOMAIN u = 1..(Len(s) + Len(t))
      /\ DOMAIN s = 1..Len(s) /\ DOMAIN t = 1..Len(t) /\ Len(s) \in Nat /\ Len(t) \in Nat
      /\ \A i \in DOMAIN s : u[i] = s[i] /\ s[i] \in Nat
      /\ \A i \in DOMAIN t : u[Len(s) + i] = t[i] /\ t[i] \in Nat
      /\ \A i \in DOMAIN u : i \in DOMAIN s \/ (i - Len(s) \in DOMAIN t /\ u[i] = t[i - Len(s)])
  BY ConcatProperties, LenProperties
<1> HIDE DEF u
<1>2. /\ \A i \in DOMAIN s : s[i] \in Lines(s)
      /\ \A i \in DOMAIN t : t[i] \in Lines(t)
  BY DEF Lines, PL!ToSet
<1>3. Lines(u) = Lines(s) \cup Lines(t)
  <2>1. \A x \in Lines(u) : x \in Lines(s) \cup Lines(t)
    BY <1>1, <1>2 DEF Lines, PL!ToSet
  <2>2. \A i \in DOMAIN s : i \in DOMAIN u
    BY <1>1
  <2>3. \A i \in DOMAIN t : Len(s) + i \in DOMAIN u
    BY <1>1
  <2>4. \A x \in Lines(s) \cup Lines(t) : x \in Lines(u)
    BY <1>1, <2>2, <2>3 DEF Lines, PL!ToSet
  <2> QED
    BY <2>1, <2>4
<1>4. ASSUME Distinct(s), Distinct(t), Lines(s) \cap Lines(t) = {}
      PROVE  Distinct(u)
  <2> SUFFICES ASSUME NEW i \in DOMAIN u, NEW j \in DOMAIN u, i < j
               PROVE  u[i] # u[j]
    BY <1>1 DEF Distinct
  <2>1. CASE i \in DOMAIN s /\ j \in DOMAIN s
    BY <1>1, <1>4, <2>1 DEF Distinct
  <2>2. CASE i \in DOMAIN s /\ j - Len(s) \in DOMAIN t /\ u[j] = t[j - Len(s)]
    BY <1>1, <1>2, <1>4, <2>2
  <2>3. CASE /\ i - Len(s) \in DOMAIN t /\ u[i] = t[i - Len(s)]
             /\ j - Len(s) \in DOMAIN t /\ u[j] = t[j - Len(s)]
    <3>1. i - Len(s) # j - Len(s)
      BY <1>1
    <3> QED
      BY <1>4, <2>3, <3>1 DEF Distinct
  <2> QED
    BY <1>1, <2>1, <2>2, <2>3
<1>5. ASSUME Ordered(s, pairs), Ordered(t, pairs), Before(Lines(s), Lines(t), pairs)
      PROVE  Ordered(u, pairs)
  <2> SUFFICES ASSUME NEW i \in DOMAIN u, NEW j \in DOMAIN u, i < j
               PROVE  u[i] < u[j] \/ {u[i], u[j]} \in pairs
    BY DEF Ordered
  <2>1. CASE i \in DOMAIN s /\ j \in DOMAIN s
    BY <1>1, <1>5, <2>1 DEF Ordered
  <2>2. CASE i \in DOMAIN s /\ j - Len(s) \in DOMAIN t /\ u[j] = t[j - Len(s)]
    BY <1>1, <1>2, <1>5, <2>2 DEF Before
  <2>3. CASE /\ i - Len(s) \in DOMAIN t /\ u[i] = t[i - Len(s)]
             /\ j - Len(s) \in DOMAIN t /\ u[j] = t[j - Len(s)]
    <3>1. i - Len(s) < j - Len(s)
      BY <1>1
    <3> QED
      BY <1>5, <2>3, <3>1 DEF Ordered
  <2> QED
    BY <1>1, <2>1, <2>2, <2>3
<1> QED
  BY <1>1, <1>3, <1>4, <1>5 DEF u

(* Distinct numbers up to n are at most n. *)
LEMMA DistinctLines ==
    ASSUME NEW s \in Seq(Nat), NEW n \in Nat, Distinct(s), Lines(s) \subseteq 1..n
    PROVE  Len(s) <= n
<1>1. /\ Len(s) \in Nat /\ DOMAIN s = 1..Len(s) /\ s \in [1..Len(s) -> 1..n]
  BY LenProperties DEF Lines, PL!ToSet
<1>2. ASSUME NEW m \in Nat
      PROVE  IsFiniteSet(1..m) /\ Cardinality(1..m) = m
  <2>1. /\ IsFiniteSet(1..m)
        /\ Cardinality(1..m) = IF 1 > m THEN 0 ELSE m - 1 + 1
    BY FS_Interval
  <2> QED
    BY <2>1
<1> SUFFICES ASSUME n < Len(s)
             PROVE  FALSE
  BY <1>1
<1>3. PICK x \in 1..Len(s), y \in 1..Len(s) : x # y /\ s[x] = s[y]
  <2>1. /\ IsFiniteSet(1..n) /\ IsFiniteSet(1..Len(s))
        /\ Cardinality(1..n) < Cardinality(1..Len(s))
    BY <1>1, <1>2
  <2> QED
    BY <1>1, <2>1, FS_PigeonHole
<1> QED
  BY <1>1, <1>3 DEF Distinct

---------------------------------------------------------------------------
(* The progress log *)

Posting == [lines : Seq(Nat), closes : BOOLEAN, busy : BOOLEAN]

LinesOf(ps) == UNION {Lines(ps[p].lines) : p \in Posts}

(* What holds of a buffer b, posts ps and stored lines st, of the lines    *)
(* late that were stored although their post failed, and of the pairs of   *)
(* lines that overlapped.                                                  *)
WellTyped(b, ps, st) ==
    /\ b \in Seq(Nat) /\ st \in Seq(Nat)
    /\ ps \in [Posts -> Posting]
    /\ \A p \in Posts : ps[p].busy \/ ps[p] = PL!Idle

OneCopy(b, ps) ==
    /\ Distinct(b)
    /\ \A p \in Posts : Distinct(ps[p].lines) /\ Lines(ps[p].lines) \cap Lines(b) = {}
    /\ \A p, q \in Posts : p # q => Lines(ps[p].lines) \cap Lines(ps[q].lines) = {}

InOrder(b, ps, pairs) ==
    /\ Ordered(b, pairs)
    /\ \A p \in Posts : /\ Ordered(ps[p].lines, pairs)
                        /\ Before(Lines(ps[p].lines), Lines(b), pairs)
    /\ \A p, q \in Posts : p # q =>
         \A k \in Lines(ps[p].lines), l \in Lines(ps[q].lines) : {k, l} \in pairs

(* Line j of what is stored does not come too late for line i.             *)
InPlace(st, late, pairs, i, j) ==
    \/ st[i] < st[j]
    \/ {st[i], st[j]} \in pairs
    \/ st[j] \in late /\ \E k \in 1..(j - 1) : st[k] = st[j]

StoredHolds(b, ps, st, late, pairs) ==
    /\ late \subseteq Lines(st)
    /\ \A i, j \in DOMAIN st : i < j => InPlace(st, late, pairs, i, j)
    /\ \A m \in Lines(st), l \in Lines(b) \cup LinesOf(ps) :
         m < l \/ {m, l} \in pairs \/ l \in late

LogHolds(b, ps, st, late, pairs, w) ==
    /\ WellTyped(b, ps, st)
    /\ 1..w = Lines(b) \cup LinesOf(ps) \cup Lines(st)
    /\ OneCopy(b, ps) /\ InOrder(b, ps, pairs) /\ StoredHolds(b, ps, st, late, pairs)

Closes == \A p \in Posts : post[p].closes => logStatus # "open"

LogInv ==
    /\ LogHolds(buffer, post, storedLines, timedOut, overlapped, written)
    /\ written \in 0..MaxLines
    /\ logStatus \in {"open", "closing", "closed"}
    /\ Closes
    /\ logStatus # "open" => Lines(buffer) \subseteq excused

(* A line is written. *)
LEMMA WriteHolds ==
    ASSUME NEW b, NEW ps, NEW st, NEW late, NEW pairs, NEW w \in Nat,
           LogHolds(b, ps, st, late, pairs, w)
    PROVE  LogHolds(Append(b, w + 1), ps, st, late, pairs, w + 1)
<1> DEFINE c == Append(b, w + 1)
<1>1. /\ b \in Seq(Nat) /\ c \in Seq(Nat) /\ Lines(c) = Lines(b) \cup {w + 1}
      /\ Distinct(b) /\ w + 1 \notin Lines(b) => Distinct(c)
      /\ Ordered(b, pairs) /\ (\A k \in Lines(b) : k < w + 1) => Ordered(c, pairs)
  BY AppendLine DEF LogHolds, WellTyped
<1> HIDE DEF c
<1>2. /\ w + 1 \notin 1..w /\ \A k \in 1..w : k < w + 1
      /\ 1..(w + 1) = 1..w \cup {w + 1}
  OBVIOUS
<1>3. /\ Lines(b) \subseteq 1..w /\ LinesOf(ps) \subseteq 1..w /\ Lines(st) \subseteq 1..w
      /\ \A p \in Posts : Lines(ps[p].lines) \subseteq 1..w
  BY DEF LogHolds, LinesOf
<1>4. WellTyped(c, ps, st)
  BY <1>1 DEF LogHolds, WellTyped
<1>5. 1..(w + 1) = Lines(c) \cup LinesOf(ps) \cup Lines(st)
  BY <1>1, <1>2 DEF LogHolds
<1>6. OneCopy(c, ps)
  BY <1>1, <1>2, <1>3 DEF LogHolds, OneCopy
<1>7. StoredHolds(c, ps, st, late, pairs)
  BY <1>1, <1>2, <1>3 DEF LogHolds, StoredHolds
<1>8. InOrder(c, ps, pairs)
  BY <1>1, <1>2, <1>3 DEF LogHolds, InOrder, Before
<1> QED
  BY <1>4, <1>5, <1>6, <1>7, <1>8 DEF LogHolds, c

(* The buffer is posted, and overlaps with what is under way. *)
LEMMA PostHolds ==
    ASSUME NEW b, NEW ps, NEW st, NEW late, NEW pairs, NEW w \in Nat,
           LogHolds(b, ps, st, late, pairs, w),
           NEW p \in Posts, ~ps[p].busy, NEW closes \in BOOLEAN
    PROVE  LogHolds(<<>>,
                    [ps EXCEPT ![p] = [lines |-> b, closes |-> closes, busy |-> TRUE]],
                    st, late, pairs \cup Pairs(Lines(b), LinesOf(ps)), w)
<1> DEFINE qs == [ps EXCEPT ![p] = [lines |-> b, closes |-> closes, busy |-> TRUE]]
           more == pairs \cup Pairs(Lines(b), LinesOf(ps))
<1>1. /\ b \in Seq(Nat) /\ ps \in [Posts -> Posting] /\ ps[p] = PL!Idle
  BY DEF LogHolds, WellTyped
<1>2. /\ qs \in [Posts -> Posting] /\ qs[p].lines = b /\ qs[p].busy
      /\ \A q \in Posts \ {p} : qs[q] = ps[q]
  BY <1>1 DEF Posting
<1>3. Lines(ps[p].lines) = {}
  BY <1>1, EmptyLines DEF PL!Idle
<1>4. /\ pairs \subseteq more
      /\ \A q \in Posts : \A k \in Lines(ps[q].lines), l \in Lines(b) :
            {k, l} \in more /\ {l, k} \in more
  <2>1. \A q \in Posts : Lines(ps[q].lines) \subseteq LinesOf(ps)
    BY DEF LinesOf
  <2>2. \A k, l : {k, l} = {l, k}
    OBVIOUS
  <2> QED
    BY <2>1, <2>2 DEF Pairs
<1> HIDE DEF qs, more
<1>5. LinesOf(qs) = LinesOf(ps) \cup Lines(b)
  BY <1>2, <1>3 DEF LinesOf
<1>6. WellTyped(<<>>, qs, st)
  BY <1>2, EmptyLines DEF LogHolds, WellTyped
<1>7. 1..w = Lines(<<>>) \cup LinesOf(qs) \cup Lines(st)
  BY <1>5, EmptyLines DEF LogHolds
<1>8. OneCopy(<<>>, qs)
  BY <1>2, EmptyLines DEF LogHolds, OneCopy
<1>9. StoredHolds(<<>>, qs, st, late, more)
  BY <1>4, <1>5, EmptyLines DEF LogHolds, StoredHolds, InPlace
<1>10. InOrder(<<>>, qs, more)
  <2>1. ASSUME NEW q \in Posts
        PROVE  Ordered(qs[q].lines, more) /\ Before(Lines(qs[q].lines), Lines(<<>>), more)
    BY <1>2, <1>4, EmptyLines DEF LogHolds, InOrder, Ordered, Before
  <2>2. ASSUME NEW q \in Posts, NEW r \in Posts, q # r,
               NEW k \in Lines(qs[q].lines), NEW l \in Lines(qs[r].lines)
        PROVE  {k, l} \in more
    <3>1. CASE q = p
      BY <1>2, <1>4, <2>2, <3>1
    <3>2. CASE r = p
      BY <1>2, <1>4, <2>2, <3>2
    <3>3. CASE q # p /\ r # p
      BY <1>2, <1>4, <2>2, <3>3 DEF LogHolds, InOrder
    <3> QED
      BY <3>1, <3>2, <3>3
  <2> QED
    BY <2>1, <2>2, EmptyLines DEF InOrder
<1>11. LogHolds(<<>>, qs, st, late, more, w)
  BY <1>6, <1>7, <1>8, <1>9, <1>10 DEF LogHolds
<1> QED
  BY <1>11 DEF qs, more

(* A post is answered. *)
LEMMA AnswerHolds ==
    ASSUME NEW b, NEW ps, NEW st, NEW late, NEW pairs, NEW w \in Nat,
           LogHolds(b, ps, st, late, pairs, w), NEW p \in Posts
    PROVE  LogHolds(b, [ps EXCEPT ![p] = PL!Idle], st \o ps[p].lines, late, pairs, w)
<1> DEFINE qs == [ps EXCEPT ![p] = PL!Idle]
           ls == ps[p].lines
           tt == st \o ls
<1>1. /\ b \in Seq(Nat) /\ st \in Seq(Nat) /\ ls \in Seq(Nat) /\ ps \in [Posts -> Posting]
  BY DEF LogHolds, WellTyped, Posting
<1>2. /\ qs \in [Posts -> Posting] /\ qs[p] = PL!Idle /\ qs[p].lines = <<>>
      /\ \A q \in Posts \ {p} : qs[q] = ps[q]
  BY <1>1, EmptyLines DEF Posting, PL!Idle
<1>3. tt \in Seq(Nat) /\ Lines(tt) = Lines(st) \cup Lines(ls)
  BY <1>1, ConcatLines
<1>4. /\ DOMAIN tt = 1..(Len(st) + Len(ls)) /\ DOMAIN st = 1..Len(st)
      /\ DOMAIN ls = 1..Len(ls) /\ Len(st) \in Nat /\ Len(ls) \in Nat
      /\ \A i \in DOMAIN st : tt[i] = st[i]
      /\ \A i \in DOMAIN tt : i \in DOMAIN st \/ (i - Len(st) \in DOMAIN ls /\ tt[i] = ls[i - Len(st)])
  BY <1>1, ConcatProperties, LenProperties
<1>5. /\ \A i \in DOMAIN st : st[i] \in Lines(st)
      /\ \A i \in DOMAIN ls : ls[i] \in Lines(ls)
      /\ \A m \in Lines(st) : \E k \in DOMAIN st : st[k] = m
  BY DEF Lines, PL!ToSet
<1> HIDE DEF qs, tt, ls
<1>6. LinesOf(ps) = LinesOf(qs) \cup Lines(ls)
  BY <1>2, EmptyLines DEF LinesOf, ls
<1>7. WellTyped(b, qs, tt)
  BY <1>2, <1>3 DEF LogHolds, WellTyped
<1>8. 1..w = Lines(b) \cup LinesOf(qs) \cup Lines(tt)
  BY <1>3, <1>6 DEF LogHolds
<1>9. OneCopy(b, qs)
  BY <1>2, EmptyLines DEF LogHolds, OneCopy
<1>10. StoredHolds(b, qs, tt, late, pairs)
  <2>1. /\ late \subseteq Lines(st)
        /\ \A i, j \in DOMAIN st : i < j => InPlace(st, late, pairs, i, j)
        /\ \A m \in Lines(st), l \in Lines(b) \cup LinesOf(qs) \cup Lines(ls) :
             m < l \/ {m, l} \in pairs \/ l \in late
        /\ Ordered(ls, pairs) /\ Before(Lines(ls), Lines(b), pairs)
    BY <1>6 DEF LogHolds, StoredHolds, InOrder, ls
  <2>2. ASSUME NEW i \in DOMAIN tt, NEW j \in DOMAIN tt, i < j
        PROVE  InPlace(tt, late, pairs, i, j)
    <3>1. CASE i \in DOMAIN st /\ j \in DOMAIN st
      <4>1. InPlace(st, late, pairs, i, j)
        BY <2>1, <2>2, <3>1
      <4>2. 1..(j - 1) \subseteq DOMAIN st
        BY <1>4, <3>1
      <4> QED
        BY <1>4, <3>1, <4>1, <4>2 DEF InPlace
    <3>2. CASE i \in DOMAIN st /\ j \notin DOMAIN st
      <4>1. tt[i] = st[i] /\ tt[i] \in Lines(st) /\ tt[j] \in Lines(ls)
        BY <1>4, <1>5, <3>2
      <4>2. DOMAIN st \subseteq 1..(j - 1)
        BY <1>4, <3>2
      <4>3. ASSUME tt[j] \in late
            PROVE  \E k \in 1..(j - 1) : tt[k] = tt[j]
        <5>1. PICK k \in DOMAIN st : st[k] = tt[j]
          BY <1>5, <2>1, <4>3
        <5> QED
          BY <1>4, <4>2, <5>1
      <4> QED
        BY <2>1, <4>1, <4>3 DEF InPlace
    <3>3. CASE i \notin DOMAIN st
      <4>1. /\ i - Len(st) \in DOMAIN ls /\ j - Len(st) \in DOMAIN ls
            /\ tt[i] = ls[i - Len(st)] /\ tt[j] = ls[j - Len(st)]
            /\ i - Len(st) < j - Len(st)
        BY <1>4, <2>2, <3>3
      <4> QED
        BY <2>1, <4>1 DEF InPlace, Ordered
    <3> QED
      BY <3>1, <3>2, <3>3
  <2>3. ASSUME NEW m \in Lines(tt), NEW l \in Lines(b) \cup LinesOf(qs)
        PROVE  m < l \/ {m, l} \in pairs \/ l \in late
    <3>1. CASE m \in Lines(st)
      BY <2>1, <3>1
    <3>2. CASE m \in Lines(ls) /\ l \in Lines(b)
      BY <2>1, <3>2 DEF Before
    <3>3. CASE m \in Lines(ls) /\ l \in LinesOf(qs)
      <4>1. PICK q \in Posts : l \in Lines(qs[q].lines)
        BY <3>3 DEF LinesOf
      <4>2. q # p /\ qs[q] = ps[q]
        BY <1>2, <4>1, EmptyLines
      <4> QED
        BY <3>3, <4>1, <4>2 DEF LogHolds, InOrder, ls
    <3> QED
      BY <1>3, <3>1, <3>2, <3>3
  <2>4. late \subseteq Lines(tt)
    BY <1>3, <2>1
  <2> QED
    BY <2>2, <2>3, <2>4 DEF StoredHolds
<1>11. InOrder(b, qs, pairs)
  BY <1>2, EmptyLines DEF LogHolds, InOrder, Before
<1> QED
  BY <1>7, <1>8, <1>9, <1>10, <1>11 DEF LogHolds, qs, tt, ls

(* A post fails and its lines are put back. *)
LEMMA FailHolds ==
    ASSUME NEW b, NEW ps, NEW st, NEW late, NEW pairs, NEW w \in Nat,
           LogHolds(b, ps, st, late, pairs, w), NEW p \in Posts
    PROVE  LogHolds(ps[p].lines \o b, [ps EXCEPT ![p] = PL!Idle], st, late, pairs, w)
<1> DEFINE qs == [ps EXCEPT ![p] = PL!Idle]
           ls == ps[p].lines
           c == ls \o b
<1>1. /\ b \in Seq(Nat) /\ st \in Seq(Nat) /\ ls \in Seq(Nat) /\ ps \in [Posts -> Posting]
  BY DEF LogHolds, WellTyped, Posting
<1>2. /\ qs \in [Posts -> Posting] /\ qs[p] = PL!Idle /\ qs[p].lines = <<>>
      /\ \A q \in Posts \ {p} : qs[q] = ps[q]
  BY <1>1, EmptyLines DEF Posting, PL!Idle
<1>3. /\ c \in Seq(Nat) /\ Lines(c) = Lines(ls) \cup Lines(b)
      /\ Distinct(ls) /\ Distinct(b) /\ Lines(ls) \cap Lines(b) = {} => Distinct(c)
      /\ Ordered(ls, pairs) /\ Ordered(b, pairs) /\ Before(Lines(ls), Lines(b), pairs)
            => Ordered(c, pairs)
  BY <1>1, ConcatLines
<1> HIDE DEF qs, c, ls
<1>4. LinesOf(ps) = LinesOf(qs) \cup Lines(ls)
  BY <1>2, EmptyLines DEF LinesOf, ls
<1>5. WellTyped(c, qs, st)
  BY <1>2, <1>3 DEF LogHolds, WellTyped
<1>6. 1..w = Lines(c) \cup LinesOf(qs) \cup Lines(st)
  BY <1>3, <1>4 DEF LogHolds
<1>7. OneCopy(c, qs)
  BY <1>2, <1>3, EmptyLines DEF LogHolds, OneCopy, ls
<1>8. StoredHolds(c, qs, st, late, pairs)
  BY <1>3, <1>4 DEF LogHolds, StoredHolds
<1>9. InOrder(c, qs, pairs)
  <2>1. Ordered(c, pairs)
    BY <1>3 DEF LogHolds, InOrder, ls
  <2>2. ASSUME NEW q \in Posts
        PROVE  Ordered(qs[q].lines, pairs) /\ Before(Lines(qs[q].lines), Lines(c), pairs)
    BY <1>2, <1>3, EmptyLines DEF LogHolds, InOrder, Before, ls
  <2>3. ASSUME NEW q \in Posts, NEW r \in Posts, q # r,
               NEW k \in Lines(qs[q].lines), NEW l \in Lines(qs[r].lines)
        PROVE  {k, l} \in pairs
    BY <1>2, <2>3, EmptyLines DEF LogHolds, InOrder
  <2> QED
    BY <2>1, <2>2, <2>3 DEF InOrder
<1> QED
  BY <1>5, <1>6, <1>7, <1>8, <1>9 DEF LogHolds, qs, c, ls

(* The service has stored lines although their post failed. *)
LEMMA LateHolds ==
    ASSUME NEW b, NEW c, NEW ps, NEW st, NEW tt, NEW late, NEW pairs, NEW w \in Nat,
           NEW ls, Lines(c) = Lines(ls) \cup Lines(b), Lines(ls) \subseteq Lines(tt),
           LogHolds(b, ps, tt, late, pairs, w), LogHolds(c, ps, st, late, pairs, w)
    PROVE  LogHolds(c, ps, tt, late \cup Lines(ls), pairs, w)
<1>1. WellTyped(c, ps, tt) /\ 1..w = Lines(c) \cup LinesOf(ps) \cup Lines(tt)
  BY DEF LogHolds, WellTyped
<1>2. StoredHolds(c, ps, tt, late \cup Lines(ls), pairs)
  BY DEF LogHolds, StoredHolds, InPlace
<1> QED
  BY <1>1, <1>2 DEF LogHolds

LEMMA SettleCloses ==
    ASSUME LogInv, NEW p \in Posts, PL!Settle(p)
    PROVE  Closes' /\ logStatus' \in {"open", "closing", "closed"}
<1>1. post \in [Posts -> Posting]
  BY DEF LogInv, LogHolds, WellTyped
<1>2. ~PL!Idle.closes
  BY DEF PL!Idle
<1> QED
  BY <1>1, <1>2 DEF PL!Settle, Closes, LogInv

LEMMA LogStep == LogInv /\ [PL!Next]_(PL!logVars) => LogInv'
<1> SUFFICES ASSUME LogInv, [PL!Next]_(PL!logVars)
             PROVE  LogInv'
  OBVIOUS
<1>1. /\ LogHolds(buffer, post, storedLines, timedOut, overlapped, written)
      /\ written \in Nat /\ buffer \in Seq(Nat)
      /\ PL!UnderWay = LinesOf(post)
  BY ExecutionAssumption DEF LogInv, LogHolds, WellTyped, PL!UnderWay, LinesOf, Lines
<1>2. ASSUME PL!Write
      PROVE  LogInv'
  <2> DEFINE b == Append(buffer, written + 1)
  <2>1. LogHolds(b, post, storedLines, timedOut, overlapped, written + 1)
    BY <1>1, WriteHolds
  <2>2. /\ written' = written + 1 /\ written' \in 0..MaxLines
        /\ excused' = IF logStatus = "open" THEN excused ELSE excused \cup {written + 1}
        /\ UNCHANGED <<storedLines, logStatus, timedOut>>
    BY <1>1, <1>2, ExecutionAssumption DEF PL!Write
  <2>3. \/ buffer' = b /\ post' = post /\ overlapped' = overlapped
        \/ b # <<>> /\ PL!PostLogs(b, FALSE)
    <3>1. b \in Seq(Nat)
      BY <1>1, AppendLine
    <3>2. Len(b) > BufferSize => b # <<>>
      <4> HIDE DEF b
      <4> QED
        BY <3>1, ExecutionAssumption
    <3> QED
      BY <1>2, <3>2 DEF PL!Write
  <2>4. ASSUME buffer' = b, post' = post, overlapped' = overlapped
        PROVE  LogInv'
    <3>1. Lines(b) = Lines(buffer) \cup {written + 1}
      BY <1>1, AppendLine
    <3>2. logStatus' # "open" => Lines(b) \subseteq excused'
      BY <2>2, <3>1 DEF LogInv
    <3> QED
      BY <2>1, <2>2, <2>4, <3>2 DEF LogInv, Lines, Closes
  <2>5. ASSUME b # <<>>, PL!PostLogs(b, FALSE)
        PROVE  LogInv'
    <3>1. PICK p \in Posts :
             /\ ~post[p].busy
             /\ post' = [post EXCEPT ![p] = [lines |-> b, closes |-> FALSE, busy |-> TRUE]]
      BY <2>5 DEF PL!PostLogs
    <3>2. /\ buffer' = <<>>
          /\ overlapped' = overlapped \cup Pairs(Lines(b), LinesOf(post))
      BY <1>1, <2>5 DEF PL!PostLogs, Lines, Pairs
    <3>3. LogHolds(<<>>, post', storedLines, timedOut, overlapped', written + 1)
      <4> HIDE DEF b
      <4>1. written + 1 \in Nat
        BY <1>1
      <4> QED
        BY <1>1, <2>1, <3>1, <3>2, <4>1, PostHolds
    <3>4. Lines(<<>>)' = {} /\ Closes'
      BY <1>1, <2>2, <3>1, EmptyLines DEF LogInv, LogHolds, WellTyped, Closes, Lines
    <3> QED
      BY <2>2, <3>2, <3>3, <3>4, EmptyLines DEF LogInv, Lines
  <2> QED
    BY <2>3, <2>4, <2>5
<1>3. ASSUME NEW closes \in BOOLEAN, PL!PostLogs(buffer, closes), closes \/ buffer # <<>>,
             UNCHANGED <<storedLines, written, timedOut>>,
             logStatus' \in {"open", "closing", "closed"},
             logStatus' = "open" => logStatus = "open" /\ ~closes
      PROVE  LogInv'
  <2>1. PICK p \in Posts :
           /\ ~post[p].busy
           /\ post' = [post EXCEPT ![p] = [lines |-> buffer, closes |-> closes, busy |-> TRUE]]
    BY <1>3 DEF PL!PostLogs
  <2>2. /\ buffer' = <<>>
        /\ overlapped' = overlapped \cup Pairs(Lines(buffer), LinesOf(post))
    BY <1>1, <1>3 DEF PL!PostLogs, Lines, Pairs
  <2>3. LogHolds(<<>>, post', storedLines, timedOut, overlapped', written)
    BY <1>1, <2>1, <2>2, PostHolds
  <2>4. Closes'
    BY <1>1, <1>3, <2>1 DEF LogInv, LogHolds, WellTyped, Closes
  <2> QED
    BY <1>3, <2>2, <2>3, <2>4, EmptyLines DEF LogInv, Lines
<1>4. ASSUME PL!TimerFlush
      PROVE  LogInv'
  BY <1>3, <1>4 DEF PL!TimerFlush, PL!FlushDue
<1>5. ASSUME PL!Close
      PROVE  LogInv'
  BY <1>3, <1>5 DEF PL!Close
<1>6. ASSUME NEW p \in Posts, PL!Answered(p)
      PROVE  LogInv'
  <2>1. LogHolds(buffer, [post EXCEPT ![p] = PL!Idle], storedLines \o post[p].lines,
                 timedOut, overlapped, written)
    BY <1>1, AnswerHolds
  <2>2. logStatus' # "open" => Lines(buffer) \subseteq excused
    BY <1>6 DEF PL!Answered, PL!Settle, LogInv, Closes
  <2>3. Closes'
    BY <1>1, <1>6, SettleCloses DEF PL!Answered
  <2> QED
    BY <1>6, <2>1, <2>2, <2>3 DEF PL!Answered, PL!Settle, LogInv, Lines
<1>7. ASSUME NEW p \in Posts, PL!FailedPost(p)
      PROVE  LogInv'
  <2> DEFINE ls == post[p].lines
             qs == [post EXCEPT ![p] = PL!Idle]
  <2>1. LogHolds(ls \o buffer, qs, storedLines, timedOut, overlapped, written)
    BY <1>1, FailHolds
  <2>2. /\ buffer' = ls \o buffer /\ post' = qs
        /\ written' = written /\ overlapped' = overlapped
        /\ excused' = excused \cup Lines(ls) /\ PL!Settle(p)
    BY <1>7 DEF PL!FailedPost, PL!PutBack, PL!Settle, Lines
  <2>3. ls \in Seq(Nat) /\ Lines(ls \o buffer) = Lines(ls) \cup Lines(buffer)
    <3>1. ls \in Seq(Nat)
      BY <1>1 DEF LogHolds, WellTyped, Posting
    <3> QED
      BY <1>1, <3>1, ConcatLines
  <2>4. logStatus' # "open" => Lines(ls \o buffer) \subseteq excused'
    BY <2>2, <2>3 DEF PL!Settle, LogInv, Closes
  <2>5. Closes' /\ logStatus' \in {"open", "closing", "closed"}
    BY <2>2, SettleCloses
  <2>6. LogHolds(ls \o buffer, qs, storedLines', timedOut', overlapped, written)
    <3>1. CASE UNCHANGED <<storedLines, timedOut>>
      BY <2>1, <3>1
    <3>2. CASE /\ storedLines' = storedLines \o ls
               /\ timedOut' = timedOut \cup Lines(ls)
      <4>1. LogHolds(buffer, qs, storedLines \o ls, timedOut, overlapped, written)
        BY <1>1, AnswerHolds
      <4>2. Lines(ls) \subseteq Lines(storedLines \o ls)
        <5>1. storedLines \in Seq(Nat)
          BY <1>1 DEF LogHolds, WellTyped
        <5> QED
          BY <2>3, <5>1, ConcatLines
      <4> HIDE DEF ls, qs
      <4>3. LogHolds(ls \o buffer, qs, storedLines \o ls, timedOut \cup Lines(ls), overlapped, written)
        BY <1>1, <2>1, <2>3, <4>1, <4>2, LateHolds
      <4> QED
        BY <3>2, <4>3
    <3> QED
      BY <1>7, <3>1, <3>2 DEF PL!FailedPost, Lines
  <2> HIDE DEF ls, qs
  <2>7. Lines(buffer') \subseteq excused' \/ logStatus' = "open"
    BY <2>2, <2>4
  <2>8. (Lines(buffer))' = Lines(buffer')
    BY DEF Lines
  <2>9. written' \in 0..MaxLines
    BY <2>2 DEF LogInv
  <2> QED
    BY <2>2, <2>5, <2>6, <2>7, <2>8, <2>9 DEF LogInv
<1>8. CASE UNCHANGED PL!logVars
  BY <1>8 DEF PL!logVars, LogInv, Closes, Lines
<1> QED
  BY <1>2, <1>4, <1>5, <1>6, <1>7, <1>8 DEF PL!Next

LEMMA LogInit == PL!Init => LogInv
<1> SUFFICES ASSUME PL!Init
             PROVE  LogInv
  OBVIOUS
<1>1. /\ buffer = <<>> /\ storedLines = <<>> /\ written = 0 /\ timedOut = {}
      /\ post = [p \in Posts |-> PL!Idle] /\ logStatus = "open"
  BY DEF PL!Init
<1>2. /\ PL!Idle \in Posting /\ PL!Idle.lines = <<>> /\ ~PL!Idle.closes
      /\ \A p \in Posts : post[p] = PL!Idle
  BY <1>1, EmptyLines DEF Posting, PL!Idle
<1>3. LinesOf(post) = {}
  BY <1>2, EmptyLines DEF LinesOf
<1>4. WellTyped(buffer, post, storedLines)
  BY <1>1, <1>2, EmptyLines DEF WellTyped
<1>5. 1..written = Lines(buffer) \cup LinesOf(post) \cup Lines(storedLines)
  BY <1>1, <1>3, EmptyLines
<1>6. OneCopy(buffer, post) /\ InOrder(buffer, post, overlapped)
  BY <1>1, <1>2, EmptyLines DEF OneCopy, InOrder, Before
<1>7. StoredHolds(buffer, post, storedLines, timedOut, overlapped)
  BY <1>1, EmptyLines DEF StoredHolds
<1> QED
  BY <1>1, <1>2, <1>4, <1>5, <1>6, <1>7, ExecutionAssumption DEF LogHolds, LogInv, Closes

LEMMA LogImplies == LogInv => PL!TypeOK /\ PL!NoLineLost /\ PL!StoredInOrder
<1> SUFFICES ASSUME LogInv
             PROVE  PL!TypeOK /\ PL!NoLineLost /\ PL!StoredInOrder
  OBVIOUS
<1>1. /\ LogHolds(buffer, post, storedLines, timedOut, overlapped, written)
      /\ written \in 0..MaxLines /\ MaxLines \in Nat /\ BufferSize \in Nat
      /\ logStatus \in {"open", "closing", "closed"}
  BY ExecutionAssumption DEF LogInv
<1>2. Len(buffer) <= MaxLines + BufferSize
  <2>1. buffer \in Seq(Nat) /\ Distinct(buffer) /\ Lines(buffer) \subseteq 1..MaxLines
    BY <1>1 DEF LogHolds, WellTyped, OneCopy
  <2>2. Len(buffer) <= MaxLines /\ Len(buffer) \in Nat
    BY <1>1, <2>1, DistinctLines
  <2> QED
    BY <1>1, <2>2
<1>3. PL!TypeOK
  BY <1>1, <1>2 DEF PL!TypeOK, LogHolds, WellTyped
<1>4. PL!NoLineLost
  BY <1>1 DEF PL!NoLineLost, PL!Lines, PL!UnderWay, LogHolds, LinesOf, Lines, LogInv
<1>5. PL!StoredInOrder
  BY <1>1 DEF PL!StoredInOrder, LogHolds, StoredHolds, InPlace
<1> QED
  BY <1>3, <1>4, <1>5

---------------------------------------------------------------------------
(* Tasks *)

(* A handler is about to store only what has the cause StateHasCause asks. *)
Handler == [pc : {"sent", "invoking", "trying", "storing", "ended"},
            writes : {"none", "success", "failed"}]

HasCause(w) ==
    /\ w = "success" => outcomes \cap {"success", "nothing"} # {}
    /\ w = "failed" => kind # "parsable" \/ taskLost \/ outcomes \cap {"code", "throws"} # {}

TaskInv ==
    /\ handler \in [Deliveries -> Handler]
    /\ \A d \in Deliveries :
         /\ HasCause(handler[d].writes)
         /\ handler[d].pc \in {"trying", "storing"} => handler[d].writes # "none"
    /\ state \in {"created", "success", "failed"} /\ HasCause(state)
    /\ outcomes \subseteq JT!Outcomes /\ taskLost \in BOOLEAN /\ faults \in 0..TaskFaults

LEMMA TaskInit == JT!Init => TaskInv
<1> SUFFICES ASSUME JT!Init
             PROVE  TaskInv
  OBVIOUS
<1>1. /\ handler = [d \in Deliveries |-> [pc |-> "sent", writes |-> "none"]]
      /\ state = "created" /\ outcomes = {} /\ faults = 0
  BY DEF JT!Init
<1>2. taskLost \in BOOLEAN
  BY DEF JT!Init
<1>3. faults \in 0..TaskFaults
  BY <1>1, ExecutionAssumption
<1>4. handler \in [Deliveries -> Handler]
  BY <1>1 DEF Handler
<1> QED
  BY <1>1, <1>2, <1>3, <1>4 DEF TaskInv, HasCause

LEMMA TaskStep == TaskInv /\ [JT!Next]_(JT!taskVars) => TaskInv'
<1> SUFFICES ASSUME TaskInv, [JT!Next]_(JT!taskVars)
             PROVE  TaskInv'
  OBVIOUS
<1> USE DEF TaskInv, Handler, HasCause, JT!Set
<1>1. ASSUME NEW d \in Deliveries, JT!Receive(d)
      PROVE  TaskInv'
  BY <1>1 DEF JT!Receive, JT!Rejected
<1>2. ASSUME NEW d \in Deliveries, JT!InvokeCommand(d)
      PROVE  TaskInv'
  BY <1>2 DEF JT!InvokeCommand, JT!Outcomes, JT!TaskState
<1>3. ASSUME NEW d \in Deliveries, JT!UpdateJobTaskState(d)
      PROVE  TaskInv'
  <2> DEFINE new == handler[d].writes
  <2>1. /\ state' \in {state, new} /\ new \in {"success", "failed"}
        /\ kind' = kind /\ outcomes' = outcomes
    BY <1>3 DEF JT!UpdateJobTaskState
  <2>4. taskLost' \in {taskLost, TRUE}
    BY <1>3 DEF JT!UpdateJobTaskState
  <2>2. faults' \in 0..TaskFaults
    BY <1>3, ExecutionAssumption DEF JT!UpdateJobTaskState, JT!Fault
  <2>3. \/ handler' = [handler EXCEPT ![d] = [pc |-> "ended", writes |-> "none"]]
        \/ /\ handler' = [handler EXCEPT ![d] = [pc |-> "storing", writes |-> "failed"]]
           /\ taskLost' = TRUE
    BY <1>3 DEF JT!UpdateJobTaskState
  <2>5. /\ taskLost => taskLost'
        /\ taskLost' \in BOOLEAN
    BY <2>4
  <2>6. /\ HasCause(state)' /\ state' \in {"created", "success", "failed"}
        /\ outcomes' \subseteq JT!Outcomes
    BY <2>1, <2>5
  <2>7. \A x \in Deliveries : HasCause(handler[x].writes)'
    BY <2>1, <2>3, <2>5
  <2> QED
    BY <2>2, <2>3, <2>5, <2>6, <2>7
<1>4. ASSUME NEW d \in Deliveries, JT!Die(d)
      PROVE  TaskInv'
  BY <1>4, ExecutionAssumption DEF JT!Die, JT!Fault
<1>5. CASE UNCHANGED JT!taskVars
  BY <1>5 DEF JT!taskVars
<1> QED
  BY <1>1, <1>2, <1>3, <1>4, <1>5 DEF JT!Next, JT!Handle

LEMMA TaskImplies == TaskInv => JT!TypeOK /\ JT!StateHasCause
BY DEF TaskInv, HasCause, Handler, JT!TypeOK, JT!StateHasCause

---------------------------------------------------------------------------
(* The goal cache *)

CacheArchive == Puts \cup {GC!NoArchive, GC!Partial}

(* An archive that is there is the whole of a put, or one being copied     *)
(* from another device; one that is not there never was, or was removed.   *)
ArchivesAreWritten ==
    \A c \in GC!Classifiers :
        /\ archive[c] = GC!NoArchive => wrote[c] = {} \/ c \in removed
        /\ \/ archive[c] = GC!NoArchive
           \/ archive[c] \in wrote[c]
           \/ store = "mounted" /\ archive[c] = GC!Partial

(* What a restore got, and that it got something for the entries it has    *)
(* been through.                                                           *)
IsHalf(r, c) ==
    /\ restore[r].got[c] = GC!Partial /\ method = "tar"
    /\ store = "mounted" \/ c \in restore[r].failed

RestoresAreWritten ==
    \A r \in Restores :
        /\ \A c \in GC!Classifiers :
             \/ restore[r].got[c] \in {GC!Pending, GC!Missed}
             \/ restore[r].got[c] \in wrote[c]
             \/ IsHalf(r, c)
        /\ \A i \in 1..(restore[r].at - 1) : restore[r].got[Entries[i]] # GC!Pending

RestoreRecord ==
    [at : 1..(Len(Entries) + 1), failed : SUBSET GC!Classifiers,
     got : [GC!Classifiers -> CacheArchive \cup {GC!Missed, GC!Pending}]]

PutsAreInOrder ==
    /\ put \in [Puts -> [pc : {"gather", "compress", "store", "move", "done"},
                         at : Nat \ {0}, outputs : SUBSET GC!Classifiers]]
    /\ \A p \in Puts : put[p].pc # "done" => put[p].at <= Len(Entries)
    /\ \A p \in Puts : put[p].pc = "move" => store = "mounted"

CacheInv ==
    /\ method \in {"tar", "zip"} /\ store \in {"gcs", "local", "mounted"}
    /\ archive \in [GC!Classifiers -> CacheArchive]
    /\ PutsAreInOrder
    /\ restore \in [Restores -> RestoreRecord]
    /\ wrote \in [GC!Classifiers -> SUBSET Puts]
    /\ faults \in 0..CacheFaults
    /\ ArchivesAreWritten /\ RestoresAreWritten /\ GC!OutputsAreStored

LEMMA CacheConstants ==
    /\ Len(Entries) \in Nat \ {0} /\ \A i \in 1..Len(Entries) : Entries[i] \in GC!Classifiers
    /\ DOMAIN Entries = 1..Len(Entries)
    /\ GC!NoArchive = 0 /\ GC!Partial = 0 - 1 /\ GC!Missed = 0 - 2 /\ GC!Pending = 0 - 3
    /\ Puts \subseteq Nat \ {0} /\ CacheFaults \in Nat
BY ExecutionAssumption DEF GC!Classifiers, GC!NoArchive, GC!Partial, GC!Missed, GC!Pending

LEMMA CacheInit == GC!Init => CacheInv
<1> SUFFICES ASSUME GC!Init
             PROVE  CacheInv
  OBVIOUS
<1>1. /\ method \in {"tar", "zip"} /\ store \in {"gcs", "local", "mounted"}
      /\ archive = [c \in GC!Classifiers |-> GC!NoArchive]
      /\ put = [p \in Puts |-> [pc |-> "gather", at |-> 1, outputs |-> {}]]
      /\ restore = [r \in Restores |-> [at |-> 1, failed |-> {},
                                      got |-> [c \in GC!Classifiers |-> GC!Pending]]]
      /\ wrote = [c \in GC!Classifiers |-> {}] /\ faults = 0
  BY DEF GC!Init
<1> QED
  BY <1>1, CacheConstants
  DEF CacheInv, PutsAreInOrder, CacheArchive, ArchivesAreWritten, RestoresAreWritten,
      RestoreRecord, GC!OutputsAreStored

(* The parts of CacheInv that a step of a put can disturb.                 *)
LEMMA NextEntryKeeps ==
    ASSUME CacheInv, NEW p \in Puts, NEW out \in SUBSET GC!Classifiers,
           put[p].pc # "done", GC!NextEntry(p, out), store' = store
    PROVE  /\ PutsAreInOrder'
           /\ put'[p].outputs = out
           /\ \A q \in Puts \ {p} : put'[q] = put[q]
BY CacheConstants DEF CacheInv, PutsAreInOrder, GC!NextEntry

(* A step of a put that leaves the archives alone.                         *)
LEMMA PutKeeps ==
    ASSUME CacheInv, PutsAreInOrder',
           UNCHANGED <<method, store, archive, restore, wrote, removed>>,
           faults' \in 0..CacheFaults, faults' >= faults,
           NEW p \in Puts, put'[p].outputs = put[p].outputs,
           \A q \in Puts \ {p} : put'[q] = put[q]
    PROVE  CacheInv'
<1>1. GC!OutputsAreStored'
  BY CacheConstants DEF CacheInv, GC!OutputsAreStored
<1> QED
  BY <1>1 DEF CacheInv, ArchivesAreWritten, RestoresAreWritten, IsHalf

LEMMA PcKeeps ==
    ASSUME CacheInv, NEW p \in Puts, put[p].pc # "done",
           NEW pc \in {"gather", "compress", "store", "move"},
           pc = "move" => store = "mounted", store' = store,
           put' = [put EXCEPT ![p].pc = pc]
    PROVE  /\ PutsAreInOrder'
           /\ put'[p].outputs = put[p].outputs
           /\ \A q \in Puts \ {p} : put'[q] = put[q]
<1> DEFINE PutRecord == [pc : {"gather", "compress", "store", "move", "done"},
                         at : Nat \ {0}, outputs : SUBSET GC!Classifiers]
           new == [pc |-> pc, at |-> put[p].at, outputs |-> put[p].outputs]
<1>1. put \in [Puts -> PutRecord] /\ \A q \in Puts : put[q].pc # "done" => put[q].at <= Len(Entries)
  BY DEF CacheInv, PutsAreInOrder
<1>2. put' = [put EXCEPT ![p] = new]
  <2>1. put[p] = [pc |-> put[p].pc, at |-> put[p].at, outputs |-> put[p].outputs]
    BY <1>1
  <2>2. [put[p] EXCEPT !.pc = pc] = new
    BY <2>1
  <2> QED
    BY <2>2
<1>3. new \in PutRecord
  BY <1>1
<1>4. new.at <= Len(Entries) /\ new.outputs = put[p].outputs /\ new.pc = pc
  BY <1>1
<1> HIDE DEF new, PutRecord
<1>5. put' \in [Puts -> PutRecord] /\ put'[p] = new /\ \A q \in Puts \ {p} : put'[q] = put[q]
  BY <1>1, <1>2, <1>3
<1>6. \A q \in Puts : put'[q].pc = "move" => store' = "mounted"
  BY <1>4, <1>5 DEF CacheInv, PutsAreInOrder
<1> QED
  BY <1>1, <1>4, <1>5, <1>6 DEF PutsAreInOrder, PutRecord

LEMMA CacheStep == CacheInv /\ [GC!Next]_(GC!cacheVars) => CacheInv'
<1> SUFFICES ASSUME CacheInv, [GC!Next]_(GC!cacheVars)
             PROVE  CacheInv'
  OBVIOUS
<1> USE CacheConstants
<1>0. \A p \in Puts : put[p].pc # "done" => GC!Entry(put[p]) \in GC!Classifiers
  BY DEF CacheInv, PutsAreInOrder, GC!Entry
<1>1. ASSUME NEW p \in Puts, GC!GatherFiles(p)
      PROVE  CacheInv'
  <2>1. /\ put[p].pc = "gather"
        /\ UNCHANGED <<method, store, archive, restore, wrote, removed, faults>>
        /\ \/ put' = [put EXCEPT ![p].pc = "compress"]
           \/ GC!NextEntry(p, put[p].outputs)
    BY <1>1 DEF GC!GatherFiles
  <2>4. faults' \in 0..CacheFaults /\ faults' >= faults /\ put[p].outputs \in SUBSET GC!Classifiers
    BY <2>1 DEF CacheInv, PutsAreInOrder
  <2>2. CASE put' = [put EXCEPT ![p].pc = "compress"]
    BY <2>1, <2>2, <2>4, PcKeeps, PutKeeps
  <2>3. CASE GC!NextEntry(p, put[p].outputs)
    BY <2>1, <2>3, <2>4, NextEntryKeeps, PutKeeps
  <2> QED
    BY <2>1, <2>2, <2>3
<1>2. ASSUME NEW p \in Puts, GC!Compress(p)
      PROVE  CacheInv'
  <2>1. /\ put[p].pc = "compress"
        /\ UNCHANGED <<method, store, archive, restore, wrote, removed>>
        /\ \/ put' = [put EXCEPT ![p].pc = "store"]
           \/ GC!NextEntry(p, put[p].outputs)
    BY <1>2 DEF GC!Compress
  <2>2. faults' \in 0..CacheFaults /\ faults' >= faults /\ put[p].outputs \in SUBSET GC!Classifiers
    BY <1>2 DEF GC!Compress, GC!Fault, CacheInv, PutsAreInOrder
  <2>3. CASE put' = [put EXCEPT ![p].pc = "store"]
    BY <2>1, <2>2, <2>3, PcKeeps, PutKeeps
  <2>4. CASE GC!NextEntry(p, put[p].outputs)
    BY <2>1, <2>2, <2>4, NextEntryKeeps, PutKeeps
  <2> QED
    BY <2>1, <2>3, <2>4
<1>3. ASSUME NEW p \in Puts, GC!Stored(p, GC!Entry(put[p])), put[p].pc # "done",
             UNCHANGED <<method, store, restore, removed, faults>>
      PROVE  CacheInv'
  <2> DEFINE c == GC!Entry(put[p])
             out == put[p].outputs \cup {c}
  <2>1. /\ archive' = [archive EXCEPT ![c] = p]
        /\ wrote' = [wrote EXCEPT ![c] = @ \cup {p}]
        /\ GC!NextEntry(p, out)
        /\ c \in GC!Classifiers /\ out \in SUBSET GC!Classifiers
    BY <1>0, <1>3 DEF GC!Stored, CacheInv, PutsAreInOrder
  <2> HIDE DEF c
  <2>2. /\ PutsAreInOrder'
        /\ put'[p].outputs = out
        /\ \A q \in Puts \ {p} : put'[q] = put[q]
    BY <1>3, <2>1, NextEntryKeeps
  <2>3. /\ archive' \in [GC!Classifiers -> CacheArchive]
        /\ wrote' \in [GC!Classifiers -> SUBSET Puts]
        /\ \A d \in GC!Classifiers : wrote[d] \subseteq wrote'[d]
        /\ p \in wrote'[c] /\ archive'[c] = p
        /\ \A d \in GC!Classifiers \ {c} : archive'[d] = archive[d] /\ wrote'[d] = wrote[d]
    BY <2>1 DEF CacheInv, CacheArchive
  <2>4. ArchivesAreWritten'
    BY <1>3, <2>1, <2>3 DEF CacheInv, ArchivesAreWritten
  <2>5. RestoresAreWritten'
    BY <1>3, <2>3 DEF CacheInv, RestoresAreWritten, IsHalf
  <2>6. GC!OutputsAreStored'
    BY <1>3, <2>1, <2>2, <2>3 DEF CacheInv, GC!OutputsAreStored
  <2> QED
    BY <1>3, <2>2, <2>3, <2>4, <2>5, <2>6 DEF CacheInv
<1>9. ASSUME NEW p \in Puts, put[p].pc \in {"store", "move"},
             GC!Fault, UNCHANGED <<method, store, archive, restore, wrote, removed>>,
             NEW out \in SUBSET GC!Classifiers, GC!NextEntry(p, out),
             out = put[p].outputs \/ (store # "gcs" /\ put[p].outputs \subseteq out)
      PROVE  CacheInv'
  <2>1. faults' \in 0..CacheFaults /\ faults' >= faults /\ faults' > 0
    BY <1>9 DEF GC!Fault, CacheInv
  <2>2. GC!OutputsAreStored'
    BY <1>9, <2>1, NextEntryKeeps DEF CacheInv, GC!OutputsAreStored
  <2> QED
    BY <1>9, <2>1, <2>2, NextEntryKeeps
    DEF CacheInv, ArchivesAreWritten, RestoresAreWritten, IsHalf
<1>4. ASSUME NEW p \in Puts, GC!StoreArchive(p)
      PROVE  CacheInv'
  <2> DEFINE c == GC!Entry(put[p])
  <2>1. /\ put[p].pc = "store" /\ c \in GC!Classifiers
        /\ UNCHANGED <<method, store, restore, removed>>
        /\ put[p].outputs \in SUBSET GC!Classifiers
    BY <1>0, <1>4 DEF GC!StoreArchive, CacheInv, PutsAreInOrder
  <2>2. CASE GC!Stored(p, c) /\ UNCHANGED faults
    BY <1>3, <2>1, <2>2
  <2>3. CASE /\ store = "mounted" /\ put' = [put EXCEPT ![p].pc = "move"]
             /\ archive' = [archive EXCEPT ![c] = GC!Partial] /\ UNCHANGED <<wrote, faults>>
    <3> HIDE DEF c
    <3>1. archive' \in [GC!Classifiers -> CacheArchive]
      BY <2>1, <2>3 DEF CacheInv, CacheArchive
    <3>2. ArchivesAreWritten'
      BY <2>1, <2>3 DEF CacheInv, ArchivesAreWritten
    <3>3. /\ PutsAreInOrder'
          /\ \A q \in Puts : put'[q].outputs = put[q].outputs
      BY <2>1, <2>3, PcKeeps
    <3>4. GC!OutputsAreStored' /\ RestoresAreWritten'
      BY <2>1, <2>3, <3>3 DEF CacheInv, RestoresAreWritten, IsHalf, GC!OutputsAreStored
    <3> QED
      BY <2>1, <2>3, <3>1, <3>2, <3>3, <3>4 DEF CacheInv
  <2>5. put[p].outputs \cup {c} \in SUBSET GC!Classifiers
    BY <2>1
  <2> QED
    BY <1>4, <1>9, <2>1, <2>2, <2>3, <2>5 DEF GC!StoreArchive, GC!OutputsAfterFailure
<1>5. ASSUME NEW p \in Puts, GC!FinishMove(p)
      PROVE  CacheInv'
  <2>1. /\ put[p].pc = "move" /\ UNCHANGED <<method, store, restore, removed>>
        /\ \/ GC!Stored(p, GC!Entry(put[p])) /\ UNCHANGED faults
           \/ /\ GC!Fault /\ UNCHANGED <<archive, wrote>>
              /\ GC!NextEntry(p, put[p].outputs \cup {GC!Entry(put[p])})
    BY <1>5 DEF GC!FinishMove
  <2>2. put[p].outputs \cup {GC!Entry(put[p])} \in SUBSET GC!Classifiers /\ store # "gcs"
    BY <1>0, <2>1 DEF CacheInv, PutsAreInOrder
  <2> QED
    BY <1>3, <1>9, <2>1, <2>2
<1>6. ASSUME NEW r \in Restores, GC!RetrieveArchive(r)
      PROVE  CacheInv'
  <2> DEFINE c == GC!Entry(restore[r])
             at == restore[r].at
  <2>1. /\ at \in 1..Len(Entries) /\ c \in GC!Classifiers /\ c = Entries[at]
        /\ UNCHANGED <<method, store, archive, put, wrote, removed>>
    <3>1. at \in 1..(Len(Entries) + 1) /\ at <= Len(Entries)
      BY <1>6 DEF GC!RetrieveArchive, CacheInv, RestoreRecord
    <3> HIDE DEF at
    <3>2. at \in 1..Len(Entries)
      BY <3>1
    <3>3. c = Entries[at]
      BY DEF GC!Entry, at
    <3>4. UNCHANGED <<method, store, archive, put, wrote, removed>>
      BY <1>6 DEF GC!RetrieveArchive
    <3> HIDE DEF c
    <3> QED
      BY <3>2, <3>3, <3>4
  <2>2. faults' \in 0..CacheFaults /\ faults' >= faults
    <3>1. faults' = faults \/ GC!Fault
      BY <1>6 DEF GC!RetrieveArchive
    <3> QED
      BY <3>1 DEF GC!Fault, CacheInv
  <2>3. PICK what, failing :
             /\ GC!Got(r, what, failing) /\ failing \in BOOLEAN
             /\ \/ what = GC!Missed
                \/ what = archive[c] /\ what \in Puts
                \/ what = GC!Partial /\ method = "tar" /\ (archive[c] = GC!Partial \/ failing)
    <3>1. GC!Unpacked = IF method = "tar" THEN GC!Partial ELSE GC!Missed
      BY DEF GC!Unpacked, GC!AfterMiss
    <3> QED
      BY <1>6, <3>1 DEF GC!RetrieveArchive, GC!AfterMiss
  <2> DEFINE new == [at |-> at + 1, got |-> [restore[r].got EXCEPT ![c] = what],
                     failed |-> IF failing THEN restore[r].failed \cup {c}
                                ELSE restore[r].failed]
  <2>4. /\ restore' = [restore EXCEPT ![r] = new]
        /\ what \in CacheArchive \cup {GC!Missed}
        /\ restore[r] \in RestoreRecord
    BY <2>1, <2>3 DEF GC!Got, CacheInv, CacheArchive
  <2> HIDE DEF c
  <2>5. /\ restore' \in [Restores -> RestoreRecord]
        /\ restore'[r] = new
        /\ \A q \in Restores \ {r} : restore'[q] = restore[q]
    <3>1. new \in RestoreRecord
      BY <2>1, <2>4 DEF RestoreRecord
    <3> HIDE DEF new
    <3> QED
      BY <2>4, <3>1 DEF CacheInv
  <2>6. what # GC!Pending
    BY <2>4 DEF CacheArchive
  <2>7. archive[c] = GC!Partial => store = "mounted"
    BY <2>1 DEF CacheInv, ArchivesAreWritten
  <2>8. what \in Puts /\ what = archive[c] => what \in wrote[c]
    BY <2>1 DEF CacheInv, ArchivesAreWritten
  <2>9. /\ \A d \in GC!Classifiers :
             restore'[r].got[d] = IF d = c THEN what ELSE restore[r].got[d]
        /\ restore[r].failed \subseteq restore'[r].failed
        /\ failing => c \in restore'[r].failed
        /\ restore'[r].at = at + 1
    BY <2>4, <2>5 DEF RestoreRecord
  <2> HIDE DEF new
  <2>10. RestoresAreWritten'
    <3>1. ASSUME NEW q \in Restores, NEW d \in GC!Classifiers
          PROVE  \/ restore'[q].got[d] \in {GC!Pending, GC!Missed}
                 \/ restore'[q].got[d] \in wrote[d]
                 \/ IsHalf(q, d)'
      <4>1. CASE q # r
        BY <2>1, <2>5, <4>1 DEF CacheInv, RestoresAreWritten, IsHalf
      <4>2. CASE q = r /\ d # c
        BY <2>1, <2>9, <4>2 DEF CacheInv, RestoresAreWritten, IsHalf
      <4>3. CASE q = r /\ d = c
        BY <2>1, <2>3, <2>7, <2>8, <2>9, <4>3 DEF IsHalf
      <4> QED
        BY <4>1, <4>2, <4>3
    <3>2. ASSUME NEW q \in Restores, NEW i \in 1..(restore'[q].at - 1)
          PROVE  restore'[q].got[Entries[i]] # GC!Pending
      <4>1. CASE q # r
        BY <2>5, <3>2, <4>1 DEF CacheInv, RestoresAreWritten
      <4>2. CASE q = r
        <5>1. i \in 1..at /\ Entries[i] \in GC!Classifiers
          BY <2>1, <2>9, <3>2, <4>2
        <5>2. Entries[i] # c => i \in 1..(at - 1)
          BY <2>1, <5>1
        <5> QED
          BY <2>6, <2>9, <4>2, <5>1, <5>2 DEF CacheInv, RestoresAreWritten
      <4> QED
        BY <4>1, <4>2
    <3> QED
      BY <2>1, <3>1, <3>2 DEF RestoresAreWritten
  <2>11. GC!OutputsAreStored'
    BY <2>1, <2>2 DEF CacheInv, GC!OutputsAreStored
  <2> QED
    BY <2>1, <2>2, <2>5, <2>10, <2>11 DEF CacheInv, PutsAreInOrder, ArchivesAreWritten
<1>7. ASSUME NEW c \in GC!Classifiers, GC!RemoveArchive(c)
      PROVE  CacheInv'
  <2>1. /\ archive' = [archive EXCEPT ![c] = GC!NoArchive]
        /\ removed' = removed \cup {c}
        /\ UNCHANGED <<method, store, put, restore, wrote, faults>>
    BY <1>7 DEF GC!RemoveArchive
  <2>2. archive' \in [GC!Classifiers -> CacheArchive]
    BY <2>1 DEF CacheInv, CacheArchive
  <2>3. ArchivesAreWritten'
    BY <2>1 DEF CacheInv, ArchivesAreWritten
  <2> QED
    BY <2>1, <2>2, <2>3 DEF CacheInv, PutsAreInOrder, RestoresAreWritten, IsHalf, GC!OutputsAreStored
<1>8. CASE UNCHANGED GC!cacheVars
  BY <1>8 DEF GC!cacheVars, CacheInv, PutsAreInOrder, ArchivesAreWritten, RestoresAreWritten, IsHalf, GC!OutputsAreStored
<1> QED
  BY <1>1, <1>2, <1>4, <1>5, <1>6, <1>7, <1>8 DEF GC!Next, GC!PutStep

LEMMA CacheImplies ==
    CacheInv => GC!TypeOK /\ GC!RestoredOrMissed /\ GC!OutputsAreStored
<1> SUFFICES ASSUME CacheInv
             PROVE  GC!TypeOK /\ GC!RestoredOrMissed
  BY DEF CacheInv
<1>1. GC!TypeOK
  BY DEF CacheInv, PutsAreInOrder, CacheArchive, RestoreRecord, GC!TypeOK
<1>2. ASSUME NEW r \in Restores, NEW i \in 1..(restore[r].at - 1)
      PROVE  LET c == Entries[i]
             IN  restore[r].got[c] = GC!Missed \/ restore[r].got[c] \in wrote[c] \/ IsHalf(r, c)
  <2>1. Entries[i] \in GC!Classifiers
    BY <1>2, CacheConstants DEF CacheInv, RestoreRecord
  <2> QED
    BY <1>2, <2>1 DEF CacheInv, RestoresAreWritten
<1> QED
  BY <1>1, <1>2 DEF GC!RestoredOrMissed, IsHalf

LEMMA CacheMisses == CacheInv /\ [GC!Next]_(GC!cacheVars) => GC!MissesForCause
<1> SUFFICES ASSUME CacheInv, [GC!Next]_(GC!cacheVars), NEW r \in Restores,
                    NEW c \in GC!Classifiers, restore[r].got[c] = GC!Pending,
                    restore'[r].got[c] = GC!Missed
             PROVE  wrote[c] = {} \/ c \in removed \/ archive[c] = GC!Partial \/ faults' > faults
  BY DEF GC!MissesForCause
<1>1. GC!Pending # GC!Missed
  BY CacheConstants
<1>2. PICK q \in Restores : GC!RetrieveArchive(q)
  BY <1>1 DEF GC!Next, GC!PutStep, GC!GatherFiles, GC!Compress, GC!StoreArchive,
       GC!FinishMove, GC!RemoveArchive, GC!cacheVars
<1>3. ASSUME NEW what, NEW failing, GC!Got(q, what, failing)
      PROVE  c = GC!Entry(restore[q]) /\ what = GC!Missed
  <2> DEFINE d == GC!Entry(restore[q])
             new == [at |-> restore[q].at + 1, got |-> [restore[q].got EXCEPT ![d] = what],
                     failed |-> IF failing THEN restore[q].failed \cup {d}
                                ELSE restore[q].failed]
  <2>1. restore' = [restore EXCEPT ![q] = new] /\ restore \in [Restores -> RestoreRecord]
    BY <1>3 DEF GC!Got, CacheInv
  <2>2. new.got = [restore[q].got EXCEPT ![d] = what]
    OBVIOUS
  <2> HIDE DEF new, d
  <2>3. restore'[q] = new /\ \A x \in Restores \ {q} : restore'[x] = restore[x]
    BY <2>1
  <2>4. r = q
    BY <1>1, <2>3
  <2>5. restore[q].got \in [GC!Classifiers -> CacheArchive \cup {GC!Missed, GC!Pending}]
    BY <2>1 DEF RestoreRecord
  <2> QED
    BY <1>1, <2>2, <2>3, <2>4, <2>5 DEF d
<1>4. archive[c] \in {GC!NoArchive, GC!Partial} \/ faults' > faults
  <2>1. GC!Fault => faults' > faults
    BY DEF GC!Fault, CacheInv
  <2>2. GC!Missed \notin Puts
    BY CacheConstants
  <2> QED
    BY <1>2, <1>3, <2>1, <2>2 DEF GC!RetrieveArchive
<1> QED
  BY <1>4 DEF CacheInv, ArchivesAreWritten

---------------------------------------------------------------------------
(* Container goals on Docker *)

AtMostOneMore(m, n) == m <= n + 1

LEMMA OneMore ==
    ASSUME NEW m \in Nat, NEW n \in Nat
    PROVE  /\ m <= n => AtMostOneMore(m, n) /\ AtMostOneMore(m + 1, n)
           /\ AtMostOneMore(m, n) => AtMostOneMore(m + 1, n + 1)
           /\ \A k \in Nat : AtMostOneMore(m, n) /\ k >= n => AtMostOneMore(m, k)
BY DEF AtMostOneMore

(* The executions' own variables, apart from what Docker does.             *)
DockerTyped ==
    /\ dockerPc \in {"prepare", "network", "spawn", "wait", "output", "kill", "rmnet", "ended"}
    /\ execution \in DJ!E /\ spawned \subseteq DJ!C /\ toKill \subseteq spawned
    /\ failures \in Nat /\ faults \in 0..DockerFaults
    /\ network \in [DJ!E -> BOOLEAN]
    /\ outputCode \in {DJ!NoCode, 0, 1}
    /\ dockerCode \in [DJ!E -> {DJ!NoCode, 128} \cup 0..(DockerFaults + 1)]
    /\ missed \subseteq DJ!E \X DJ!C

SpawnedInOrder == \E n \in 0..Containers : spawned = 1..n

(* What an execution has done, and what it has met with, when it is at its *)
(* program counter.                                                        *)
DockerAt ==
    /\ AtMostOneMore(failures, faults)
    /\ dockerPc \in {"prepare", "network"} => spawned = {} /\ failures = 0
    /\ dockerPc \in {"prepare", "network", "spawn", "wait"} => failures <= faults
    /\ dockerPc \in {"prepare", "network", "spawn", "wait", "output"} => toKill = {}
    /\ dockerPc \in {"wait", "output"} => spawned = DJ!C

(* Only executions that have ended have a result.                          *)
CodesAt ==
    /\ dockerPc # "ended" => dockerCode[execution] = DJ!NoCode
    /\ \A e \in DJ!E : e > execution => dockerCode[e] = DJ!NoCode

(* What Docker has made of the containers by then.                         *)
ContainersAt ==
    /\ containers \in [DJ!E -> [DJ!C -> DJ!Status]]
    /\ \A e \in DJ!E, c \in DJ!C :
         e > execution \/ (e = execution /\ c \notin spawned) => containers[e][c] = "none"
    /\ dockerPc \in {"prepare", "network", "spawn", "wait", "output"} =>
         \A c \in DJ!C : containers[execution][c] # "killed"
    /\ dockerPc = "output" => containers[execution][DJ!Main] \in DJ!Ended
    /\ dockerPc \in {"output", "kill", "rmnet"} \/ (dockerPc = "ended" /\ spawned # {}) =>
         (failures = 0 => containers[execution][DJ!Main] = "succeeded")
    /\ \A e \in DJ!E, c \in DJ!C :
         /\ e < execution \/ (e = execution /\ dockerPc \in {"kill", "rmnet", "ended"})
         /\ containers[e][c] \in {"starting", "running"}
         => <<e, c>> \in missed \/ (e = execution /\ c \in toKill)

DockerInv == DockerTyped /\ SpawnedInOrder /\ DockerAt /\ CodesAt /\ ContainersAt /\ DJ!SuccessIsMains

LEMMA DockerConstants ==
    /\ Containers \in Nat \ {0} /\ Executions \in Nat \ {0} /\ DockerFaults \in Nat
    /\ DJ!C = 1..Containers /\ DJ!E = 1..Executions /\ DJ!Main = 1 /\ DJ!NoCode = 0 - 1
    /\ DJ!Ended = {"succeeded", "failed", "killed"}
    /\ DJ!Status = {"none", "starting", "running"} \cup DJ!Ended
BY ExecutionAssumption DEF DJ!C, DJ!E, DJ!Main, DJ!NoCode, DJ!Ended, DJ!Status

LEMMA DockerNumbers ==
    /\ DockerFaults \in Nat /\ Executions \in Nat \ {0} /\ DJ!NoCode = 0 - 1
    /\ \A e : e \in DJ!E <=> e \in Nat /\ 1 <= e /\ e <= Executions
BY ExecutionAssumption DEF DJ!E, DJ!NoCode

LEMMA SameCardinality == \A S : DJ!Cardinality(S) = Cardinality(S)
BY DEF DJ!Cardinality, Cardinality

LEMMA DockerInit == DJ!Init => DockerInv
<1> SUFFICES ASSUME DJ!Init
             PROVE  DockerInv
  OBVIOUS
<1> USE DockerConstants
<1>1. /\ dockerPc = "prepare" /\ execution = 1 /\ spawned = {} /\ failures = 0 /\ toKill = {}
      /\ containers = [e \in DJ!E |-> [c \in DJ!C |-> "none"]]
      /\ network = [e \in DJ!E |-> FALSE]
      /\ outputCode = DJ!NoCode /\ dockerCode = [e \in DJ!E |-> DJ!NoCode] /\ missed = {}
      /\ faults = 0
  BY DEF DJ!Init
<1>2. DockerTyped
  BY <1>1 DEF DockerTyped
<1>3. spawned = 1..0 /\ 0 \in 0..Containers
  BY <1>1
<1>4. DockerAt /\ CodesAt
  BY <1>1, OneMore DEF DockerAt, CodesAt
<1>5. SpawnedInOrder
  BY <1>1, <1>3 DEF SpawnedInOrder
<1> QED
  BY <1>1, <1>2, <1>4, <1>5 DEF DockerInv, ContainersAt, DJ!SuccessIsMains

LEMMA SpawnedKeeps == DockerInv /\ UNCHANGED spawned => SpawnedInOrder'
BY DEF DockerInv, SpawnedInOrder

(* A container that Docker starts, fails to start or ends was spawned, and *)
(* had not ended.                                                          *)
LEMMA ContainerMoves ==
    ASSUME DockerInv, NEW e \in DJ!E, NEW c \in DJ!C,
           containers[e][c] \in {"starting", "running"},
           NEW st \in {"running", "succeeded", "failed"},
           containers' = [containers EXCEPT ![e][c] = st],
           faults' \in 0..DockerFaults, faults' >= faults,
           UNCHANGED <<dockerPc, execution, spawned, failures, toKill, network,
               outputCode, dockerCode, missed>>
    PROVE  DockerInv'
<1> USE DockerConstants
<1>1. DockerTyped'
  BY DEF DockerInv, DockerTyped
<1>2. DockerAt' /\ CodesAt'
  BY OneMore DEF DockerInv, DockerTyped, DockerAt, CodesAt
<1>3. /\ containers' \in [DJ!E -> [DJ!C -> DJ!Status]]
      /\ containers'[e][c] = st
      /\ \A f \in DJ!E, d \in DJ!C : f # e \/ d # c => containers'[f][d] = containers[f][d]
  BY DEF DockerInv, ContainersAt
<1>4. ContainersAt'
  BY <1>3 DEF DockerInv, DockerTyped, ContainersAt
<1>5. DJ!SuccessIsMains'
  BY <1>3 DEF DockerInv, DJ!SuccessIsMains
<1> QED
  BY <1>1, <1>2, <1>4, <1>5, SpawnedKeeps DEF DockerInv

(* A step of the execution that touches no container, and does not end it. *)
LEMMA ControlMoves ==
    ASSUME DockerInv, DockerTyped', DockerAt', CodesAt',
           UNCHANGED <<containers, execution, spawned, dockerCode>>, missed \subseteq missed',
           toKill' = toKill \/ dockerPc \in {"spawn", "output"},
           dockerPc' \in {"kill", "rmnet"} =>
             \/ dockerPc \in {"kill", "rmnet"} /\ (failures' = 0 => failures = 0)
             \/ failures' > 0 /\ toKill' = spawned
             \/ dockerPc = "output" /\ toKill' = DJ!Sidecars /\ (failures' = 0 => failures = 0),
           dockerPc' \in {"prepare", "network", "spawn", "wait"} =>
             dockerPc \in {"prepare", "network", "spawn", "wait"},
           dockerPc' \notin {"output", "ended"}
    PROVE  DockerInv'
<1> USE DockerConstants
<1>1. /\ containers' = containers /\ execution' = execution /\ spawned' = spawned
      /\ execution \in DJ!E /\ dockerPc \in {"prepare", "network", "spawn", "wait", "output", "kill", "rmnet", "ended"}
      /\ dockerPc' \in {"prepare", "network", "spawn", "wait", "kill", "rmnet"}
  BY DEF DockerInv, DockerTyped
<1>2. ContainersAt
  BY DEF DockerInv
<1>3. dockerPc' \in {"prepare", "network", "spawn", "wait", "output"} =>
         \A c \in DJ!C : containers'[execution'][c] # "killed"
  BY <1>1, <1>2 DEF ContainersAt
<1>4. dockerPc' \in {"output", "kill", "rmnet"} /\ failures' = 0 =>
         containers'[execution'][DJ!Main] = "succeeded"
  BY <1>1, <1>2 DEF ContainersAt
<1>5. ASSUME NEW c \in DJ!C, dockerPc' \in {"kill", "rmnet"},
             containers[execution][c] \in {"starting", "running"}
      PROVE  <<execution, c>> \in missed' \/ c \in toKill'
  <2>1. CASE dockerPc \in {"kill", "rmnet"}
    BY <1>1, <1>2, <1>5, <2>1 DEF ContainersAt
  <2>2. CASE failures' > 0 /\ toKill' = spawned
    BY <1>1, <1>2, <1>5, <2>2 DEF ContainersAt
  <2>3. CASE dockerPc = "output" /\ toKill' = DJ!Sidecars
    BY <1>1, <1>2, <1>5, <2>3 DEF ContainersAt, DJ!Sidecars
  <2> QED
    BY <1>5, <2>1, <2>2, <2>3
<1>6. ASSUME NEW e \in DJ!E, NEW c \in DJ!C, e < execution,
             containers[e][c] \in {"starting", "running"}
      PROVE  <<e, c>> \in missed'
  BY <1>1, <1>2, <1>6 DEF ContainersAt
<1>7. ContainersAt'
  BY <1>1, <1>2, <1>3, <1>4, <1>5, <1>6 DEF ContainersAt
<1>8. DJ!SuccessIsMains'
  BY DEF DockerInv, DJ!SuccessIsMains
<1> QED
  BY <1>7, <1>8, SpawnedKeeps DEF DockerInv

LEMMA DockerStep == DockerInv /\ [DJ!Next]_(DJ!vars) => DockerInv'
<1> SUFFICES ASSUME DockerInv, [DJ!Next]_(DJ!vars)
             PROVE  DockerInv'
  OBVIOUS
<1> USE DockerNumbers
<1>1. ASSUME NEW exitCode \in {1, 128}, dockerPc \in {"prepare", "network"}, DJ!Return(exitCode),
             UNCHANGED <<execution, spawned, failures, toKill, containers, network,
                 outputCode, missed>>, faults' \in 0..DockerFaults, faults' >= faults
      PROVE  DockerInv'
  <2>1. /\ dockerPc' = "ended"
        /\ dockerCode' = [dockerCode EXCEPT ![execution] = exitCode]
    BY <1>1 DEF DJ!Return
  <2>2. DockerTyped'
    BY <1>1, <2>1 DEF DockerInv, DockerTyped
  <2>3. DockerAt'
    BY <1>1, <2>1, OneMore DEF DockerInv, DockerTyped, DockerAt
  <2>20. CodesAt'
    BY <1>1, <2>1 DEF DockerInv, DockerTyped, CodesAt
  <2>4. ContainersAt'
    BY <1>1, <2>1 DEF DockerInv, DockerTyped, DockerAt, ContainersAt
  <2>5. DJ!SuccessIsMains'
    BY <1>1, <2>1 DEF DockerInv, DockerTyped, DJ!SuccessIsMains
  <2> QED
    BY <1>1, <2>2, <2>3, <2>4, <2>5, <2>20, SpawnedKeeps DEF DockerInv
<1>2. DJ!Fault => faults' \in 0..DockerFaults /\ faults' >= faults
  BY DEF DJ!Fault, DockerInv, DockerTyped
<1>3. faults' = faults => faults' \in 0..DockerFaults /\ faults' >= faults
  BY DEF DockerInv, DockerTyped
<1>4. ASSUME DJ!PrepareInputAndOutput
      PROVE  DockerInv'
  <2>1. /\ dockerPc = "prepare"
        /\ UNCHANGED <<execution, spawned, failures, toKill, containers, network, outputCode, missed>>
        /\ \/ dockerPc' = "network" /\ UNCHANGED <<dockerCode, faults>>
           \/ DJ!Fault /\ DJ!Return(1)
    BY <1>4 DEF DJ!PrepareInputAndOutput
  <2>2. ASSUME dockerPc' = "network", UNCHANGED <<dockerCode, faults>>
        PROVE  DockerInv'
    BY <2>1, <2>2, SpawnedKeeps DEF DockerInv, DockerTyped, DockerAt, CodesAt, ContainersAt, DJ!SuccessIsMains
  <2> QED
    BY <1>1, <1>2, <2>1, <2>2
<1>5. ASSUME DJ!CreateNetwork
      PROVE  DockerInv'
  <2>1. /\ dockerPc = "network"
        /\ UNCHANGED <<execution, spawned, failures, toKill, containers, outputCode, missed>>
        /\ \/ /\ network' = [network EXCEPT ![execution] = TRUE]
              /\ dockerPc' = "spawn" /\ UNCHANGED <<dockerCode, faults>>
           \/ DJ!Fault /\ DJ!Return(128) /\ UNCHANGED network
    BY <1>5 DEF DJ!CreateNetwork
  <2>2. ASSUME dockerPc' = "spawn", network' = [network EXCEPT ![execution] = TRUE],
               UNCHANGED <<dockerCode, faults>>
        PROVE  DockerInv'
    BY <2>1, <2>2, SpawnedKeeps DEF DockerInv, DockerTyped, DockerAt, CodesAt, ContainersAt, DJ!SuccessIsMains
  <2> QED
    BY <1>1, <1>2, <2>1, <2>2
<1>6. ASSUME DJ!SpawnContainer
      PROVE  DockerInv'
  <2>1. PICK n \in 0..Containers : spawned = 1..n
    BY DEF DockerInv, SpawnedInOrder
  <2>2. Cardinality(spawned) = n
    BY <2>1, FS_Interval
  <2> DEFINE started == Cardinality(spawned) + 1
  <2>13. /\ started \in DJ!C /\ spawned' = spawned \cup {started} /\ dockerPc = "spawn"
         /\ containers' = [containers EXCEPT ![execution][started] = "starting"]
         /\ UNCHANGED <<dockerPc, execution, toKill, network, dockerCode, outputCode, missed>>
    BY <1>6, SameCardinality DEF DJ!SpawnContainer
  <2>14. started = n + 1
    BY <2>2
  <2> HIDE DEF started
  <2>10. n + 1 \in DJ!C /\ spawned' = spawned \cup {n + 1}
    BY <2>13, <2>14
  <2>11. spawned' = 1..(n + 1) /\ n + 1 \in 0..Containers
    BY <2>1, <2>10, DockerConstants
  <2>3. /\ dockerPc = "spawn"
        /\ containers' = [containers EXCEPT ![execution][n + 1] = "starting"]
        /\ UNCHANGED <<dockerPc, execution, toKill, network, dockerCode, outputCode, missed>>
    BY <2>13, <2>14
  <2>4. /\ faults' \in 0..DockerFaults /\ faults' >= faults /\ failures' \in Nat /\ failures' <= faults'
    BY <1>6, <1>2, <1>3, <2>3 DEF DJ!SpawnContainer, DJ!Fault, DockerInv, DockerTyped, DockerAt
  <2>5. DockerTyped'
    BY <2>3, <2>4, <2>10 DEF DockerInv, DockerTyped
  <2>6. DockerAt'
    BY <2>3, <2>4, <2>10, OneMore DEF DockerInv, DockerTyped, DockerAt
  <2>20. CodesAt'
    BY <2>3, <2>4, <2>10 DEF DockerInv, DockerTyped, CodesAt
  <2>12. SpawnedInOrder'
    BY <2>11 DEF SpawnedInOrder
  <2>7. /\ containers' \in [DJ!E -> [DJ!C -> DJ!Status]]
        /\ containers'[execution][n + 1] = "starting" /\ containers[execution][n + 1] = "none"
        /\ \A e \in DJ!E, c \in DJ!C :
             e # execution \/ c # n + 1 => containers'[e][c] = containers[e][c]
    BY <2>1, <2>3, <2>10, DockerConstants DEF DockerInv, DockerTyped, ContainersAt
  <2>8. ContainersAt'
    BY <2>3, <2>7, <2>10 DEF DockerInv, DockerTyped, ContainersAt
  <2>9. DJ!SuccessIsMains'
    BY <2>3, <2>7 DEF DockerInv, DJ!SuccessIsMains
  <2> QED
    BY <2>5, <2>6, <2>8, <2>9, <2>12, <2>20 DEF DockerInv
<1>7. ASSUME DJ!FailToSpawn
      PROVE  DockerInv'
  <2>1. /\ dockerPc = "spawn" /\ dockerPc' = "kill" /\ toKill' = spawned
        /\ failures' = failures + 1 /\ faults' = faults + 1 /\ faults' \in 0..DockerFaults /\ faults' >= faults
        /\ UNCHANGED <<execution, spawned, containers, network, dockerCode, outputCode, missed>>
    BY <1>7, <1>2 DEF DJ!FailToSpawn, DJ!Fault, DJ!KilledOnFailure
  <2>2. DockerTyped' /\ DockerAt' /\ CodesAt' /\ failures' > 0
    <3>1. DockerTyped'
      BY <2>1 DEF DockerInv, DockerTyped
    <3>2. DockerAt'
      BY <2>1, OneMore DEF DockerInv, DockerTyped, DockerAt
    <3>20. CodesAt'
      BY <2>1 DEF DockerInv, DockerTyped, CodesAt
    <3>3. CodesAt'
      BY <2>1 DEF DockerInv, DockerTyped, CodesAt
    <3> QED
      BY <3>1, <3>2, <3>3, <2>1 DEF DockerInv, DockerTyped
  <2> QED
    BY <2>1, <2>2, ControlMoves
<1>8. ASSUME DJ!SpawnedAll
      PROVE  DockerInv'
  <2>1. /\ dockerPc = "spawn" /\ spawned = DJ!C
        /\ \/ failures > 0 /\ dockerPc' = "kill" /\ toKill' = spawned
           \/ ~(failures > 0) /\ dockerPc' = "wait" /\ toKill' = toKill
        /\ UNCHANGED <<execution, spawned, failures, containers, network, dockerCode, faults,
               outputCode, missed>>
    BY <1>8 DEF DJ!SpawnedAll, DJ!KilledOnFailure
  <2>2. DockerTyped' /\ DockerAt' /\ CodesAt'
    <3>1. DockerTyped'
      BY <2>1 DEF DockerInv, DockerTyped
    <3>2. DockerAt'
      BY <2>1, OneMore DEF DockerInv, DockerTyped, DockerAt
    <3>20. CodesAt'
      BY <2>1 DEF DockerInv, DockerTyped, CodesAt
    <3>3. CodesAt'
      BY <2>1 DEF DockerInv, DockerTyped, CodesAt
    <3> QED
      BY <3>1, <3>2, <3>3
  <2> QED
    BY <2>1, <2>2, ControlMoves
<1>9. ASSUME DJ!AwaitMain
      PROVE  DockerInv'
  <2>1. /\ dockerPc = "wait" /\ containers[execution][DJ!Main] \in DJ!Ended
        /\ failures' = failures + (IF containers[execution][DJ!Main] = "failed" THEN 1 ELSE 0)
        /\ dockerPc' = "output"
        /\ UNCHANGED <<execution, spawned, toKill, containers, network, dockerCode, faults,
               outputCode, missed>>
    BY <1>9 DEF DJ!AwaitMain, DJ!MainSettled, DJ!ExitFailure, DJ!Mine
  <2>2. DockerTyped' /\ DockerAt' /\ CodesAt'
    <3>1. DockerTyped'
      BY <2>1 DEF DockerInv, DockerTyped
    <3>2. DockerAt'
      BY <2>1, OneMore DEF DockerInv, DockerTyped, DockerAt
    <3>20. CodesAt'
      BY <2>1 DEF DockerInv, DockerTyped, CodesAt
    <3>3. CodesAt'
      BY <2>1 DEF DockerInv, DockerTyped, CodesAt
    <3> QED
      BY <3>1, <3>2, <3>3
  <2>3. failures' = 0 => containers[execution][DJ!Main] = "succeeded"
    BY <2>1, DockerConstants DEF DockerInv, DockerTyped, ContainersAt
  <2> QED
    BY <2>1, <2>2, <2>3, SpawnedKeeps DEF DockerInv, DockerTyped, CodesAt, ContainersAt, DJ!SuccessIsMains
<1>10. ASSUME DJ!ReadOutput
      PROVE  DockerInv'
  <2>1. /\ dockerPc = "output" /\ dockerPc' = "kill" /\ toKill' = DJ!Sidecars
        /\ UNCHANGED <<execution, spawned, containers, network, dockerCode, missed>>
        /\ outputCode' \in {DJ!NoCode, 0, 1}
    BY <1>10 DEF DJ!ReadOutput, DockerInv, DockerTyped
  <2>2. /\ faults' \in 0..DockerFaults /\ faults' >= faults /\ failures' \in Nat /\ AtMostOneMore(failures', faults')
        /\ failures' = 0 => failures = 0
    BY <1>10, <1>2, <1>3, OneMore DEF DJ!ReadOutput, DJ!Fault, DockerInv, DockerTyped, DockerAt
  <2>3. DockerTyped' /\ DockerAt' /\ CodesAt'
    <3>1. DockerTyped'
      BY <2>1, <2>2 DEF DockerInv, DockerTyped, DockerAt, DJ!Sidecars
    <3>2. DockerAt'
      BY <2>1, <2>2, OneMore DEF DockerInv, DockerTyped, DockerAt
    <3>20. CodesAt'
      BY <2>1, <2>2 DEF DockerInv, DockerTyped, CodesAt
    <3>3. CodesAt'
      BY <2>1, <2>2 DEF DockerInv, DockerTyped, CodesAt
    <3> QED
      BY <3>1, <3>2, <3>3
  <2> QED
    BY <2>1, <2>2, <2>3, ControlMoves
<1>11. ASSUME DJ!KilledAll
      PROVE  DockerInv'
  <2>1. /\ dockerPc = "kill" /\ dockerPc' = "rmnet" /\ faults' \in 0..DockerFaults /\ faults' >= faults
        /\ UNCHANGED <<execution, spawned, failures, toKill, containers, network, outputCode,
               dockerCode, missed>>
    BY <1>11, <1>2, <1>3 DEF DJ!KilledAll
  <2>2. DockerTyped' /\ DockerAt' /\ CodesAt'
    <3>1. DockerTyped'
      BY <2>1 DEF DockerInv, DockerTyped
    <3>2. DockerAt'
      BY <2>1, OneMore DEF DockerInv, DockerTyped, DockerAt
    <3>20. CodesAt'
      BY <2>1 DEF DockerInv, DockerTyped, CodesAt
    <3>3. CodesAt'
      BY <2>1 DEF DockerInv, DockerTyped, CodesAt
    <3> QED
      BY <3>1, <3>2, <3>3
  <2> QED
    BY <2>1, <2>2, ControlMoves
<1>12. ASSUME DJ!RemoveNetwork
      PROVE  DockerInv'
  <2> DEFINE exitCode == IF failures' = 0 /\ outputCode # DJ!NoCode THEN outputCode ELSE failures'
  <2>1. /\ dockerPc = "rmnet" /\ dockerPc' = "ended"
        /\ dockerCode' = [dockerCode EXCEPT ![execution] = exitCode]
        /\ UNCHANGED <<execution, spawned, toKill, containers, outputCode, missed>>
    BY <1>12 DEF DJ!RemoveNetwork, DJ!Return
  <2>2. /\ faults' \in 0..DockerFaults /\ faults' >= faults /\ failures' \in Nat /\ failures' >= failures /\ AtMostOneMore(failures', faults')
    BY <1>12, <1>2, <1>3, OneMore DEF DJ!RemoveNetwork, DJ!Fault, DockerInv, DockerTyped, DockerAt
  <2>3. network' \in [DJ!E -> BOOLEAN]
    BY <1>12 DEF DJ!RemoveNetwork, DockerInv, DockerTyped
  <2>4. /\ exitCode \in 0..(DockerFaults + 1)
        /\ exitCode = 0 => failures = 0 /\ failures' = 0
    <3>1. failures' \in 0..(DockerFaults + 1) /\ 1 \in 0..(DockerFaults + 1)
      <4>1. AtMostOneMore(failures', DockerFaults) /\ failures' \in Nat
        BY <2>2, OneMore
      <4> QED
        BY <4>1 DEF AtMostOneMore
    <3>2. failures \in Nat /\ outputCode \in {DJ!NoCode, 0, 1}
      BY DEF DockerInv, DockerTyped
    <3> QED
      BY <2>2, <3>1, <3>2
  <2> HIDE DEF exitCode
  <2>5. DockerTyped'
    BY <2>1, <2>2, <2>3, <2>4 DEF DockerInv, DockerTyped
  <2>6. DockerAt'
    BY <2>1, <2>2, <2>4, OneMore DEF DockerInv, DockerTyped, DockerAt
  <2>20. CodesAt'
    BY <2>1, <2>2, <2>4 DEF DockerInv, DockerTyped, CodesAt
  <2>7. ContainersAt'
    BY <2>1, <2>2 DEF DockerInv, DockerTyped, ContainersAt
  <2>8. DJ!SuccessIsMains'
    BY <2>1, <2>4, DockerConstants DEF DockerInv, DockerTyped, ContainersAt, DJ!SuccessIsMains
  <2> QED
    BY <2>1, <2>5, <2>6, <2>7, <2>8, <2>20, SpawnedKeeps DEF DockerInv
<1>13. ASSUME NEW c \in DJ!C, DJ!Kill(c)
       PROVE  DockerInv'
  <2>1. /\ c \in toKill /\ toKill' = toKill \ {c}
        /\ UNCHANGED <<dockerPc, execution, spawned, failures, network, outputCode, dockerCode>>
    BY <1>13 DEF DJ!Kill
  <2>2. dockerPc \in {"kill", "rmnet", "ended"} /\ execution \in DJ!E
    BY <2>1 DEF DockerInv, DockerTyped, DockerAt
  <2>3. faults' \in 0..DockerFaults /\ faults' >= faults
    BY <1>13, <1>3 DEF DJ!Kill, DJ!Mine, DockerInv, DockerTyped
  <2>4. CASE /\ containers[execution][c] = "running"
             /\ containers' = [containers EXCEPT ![execution][c] = "killed"]
             /\ UNCHANGED missed
    <3>1. /\ containers' \in [DJ!E -> [DJ!C -> DJ!Status]]
          /\ containers'[execution][c] = "killed"
          /\ \A e \in DJ!E, d \in DJ!C :
               e # execution \/ d # c => containers'[e][d] = containers[e][d]
      BY <2>2, <2>4, DockerConstants DEF DockerInv, ContainersAt
    <3>2. DockerTyped' /\ DockerAt' /\ CodesAt'
      <4>1. DockerTyped'
        BY <2>1, <2>3, <2>4 DEF DockerInv, DockerTyped
      <4>2. DockerAt'
        BY <2>1, <2>3, <2>4, OneMore DEF DockerInv, DockerTyped, DockerAt
      <4>20. CodesAt'
        BY <2>1, <2>3, <2>4 DEF DockerInv, DockerTyped, CodesAt
      <4>3. CodesAt'
        BY <2>1, <2>3, <2>4 DEF DockerInv, DockerTyped, CodesAt
      <4> QED
        BY <4>1, <4>2, <4>3
    <3>3. ContainersAt'
      BY <2>1, <2>2, <2>4, <3>1 DEF DockerInv, DockerTyped, ContainersAt
    <3>4. DJ!SuccessIsMains'
      BY <2>1, <2>4, <3>1 DEF DockerInv, DJ!SuccessIsMains
    <3> QED
      BY <2>1, <3>2, <3>3, <3>4, SpawnedKeeps DEF DockerInv
  <2>5. CASE missed' = missed \cup {<<execution, c>>} /\ UNCHANGED containers
    <3>1. DockerTyped' /\ DockerAt' /\ CodesAt'
      <4>1. DockerTyped'
        BY <2>1, <2>2, <2>3, <2>5 DEF DockerInv, DockerTyped
      <4>2. DockerAt'
        BY <2>1, <2>2, <2>3, <2>5, OneMore DEF DockerInv, DockerTyped, DockerAt
      <4>20. CodesAt'
        BY <2>1, <2>2, <2>3, <2>5 DEF DockerInv, DockerTyped, CodesAt
      <4>3. CodesAt'
        BY <2>1, <2>2, <2>3, <2>5 DEF DockerInv, DockerTyped, CodesAt
      <4> QED
        BY <4>1, <4>2, <4>3
    <3>2. ContainersAt'
      BY <2>1, <2>2, <2>5 DEF DockerInv, DockerTyped, ContainersAt
    <3>3. DJ!SuccessIsMains'
      BY <2>1, <2>5 DEF DockerInv, DJ!SuccessIsMains
    <3> QED
      BY <2>1, <3>1, <3>2, <3>3, SpawnedKeeps DEF DockerInv
  <2> QED
    BY <1>13, <2>4, <2>5 DEF DJ!Kill, DJ!Mine
<1>14. ASSUME DJ!Retry
       PROVE  DockerInv'
  <2>1. /\ dockerPc = "ended" /\ toKill = {} /\ execution < Executions
        /\ dockerPc' = "prepare" /\ execution' = execution + 1 /\ spawned' = {} /\ failures' = 0
        /\ outputCode' = DJ!NoCode
        /\ UNCHANGED <<toKill, containers, network, dockerCode, missed, faults>>
    BY <1>14 DEF DJ!Retry
  <2>2. spawned' = 1..0 /\ 0 \in 0..Containers
    BY <2>1, DockerConstants
  <2>3. DockerTyped'
    BY <2>1 DEF DockerInv, DockerTyped
  <2>4. DockerAt'
    BY <2>1, OneMore DEF DockerInv, DockerTyped, DockerAt
  <2>20. CodesAt'
    BY <2>1 DEF DockerInv, DockerTyped, CodesAt
  <2>7. SpawnedInOrder'
    <3>1. \E n \in 0..Containers : spawned' = 1..n
      BY <2>2
    <3> QED
      BY <3>1 DEF SpawnedInOrder
  <2>8. /\ execution \in DJ!E /\ execution + 1 \in DJ!E
        /\ \A e \in DJ!E : /\ e >= execution + 1 => e > execution
                           /\ e < execution + 1 => e < execution \/ e = execution
    BY <2>1, <2>3 DEF DockerInv, DockerTyped
  <2>9. \A c \in DJ!C : containers[execution + 1][c] = "none"
    BY <2>1, <2>8 DEF DockerInv, ContainersAt
  <2>10. \A e \in DJ!E, c \in DJ!C : e > execution + 1 => containers[e][c] = "none"
    BY <2>1, <2>8 DEF DockerInv, ContainersAt
  <2>11. ASSUME NEW e \in DJ!E, NEW c \in DJ!C, e < execution + 1 \/ e = execution + 1,
                containers[e][c] \in {"starting", "running"}
         PROVE  <<e, c>> \in missed
    BY <2>1, <2>8, <2>9, <2>11 DEF DockerInv, ContainersAt
  <2>12. execution' = execution + 1 /\ containers' = containers /\ missed' = missed
         /\ dockerPc' = "prepare" /\ spawned' = {}
    BY <2>1
  <2>13. containers \in [DJ!E -> [DJ!C -> DJ!Status]]
    BY DEF DockerInv, ContainersAt
  <2>5. ContainersAt'
    BY <2>9, <2>10, <2>11, <2>12, <2>13 DEF ContainersAt
  <2>6. DJ!SuccessIsMains'
    BY <2>1 DEF DockerInv, DJ!SuccessIsMains
  <2> QED
    BY <2>3, <2>4, <2>5, <2>6, <2>7, <2>20 DEF DockerInv
<1>15. ASSUME NEW e \in DJ!E, NEW c \in DJ!C,
              DJ!DockerStarts(e, c) \/ DJ!DockerFailsToStart(e, c) \/ DJ!ContainerEnds(e, c)
       PROVE  DockerInv'
  <2>1. /\ containers[e][c] \in {"starting", "running"}
        /\ UNCHANGED <<dockerPc, execution, spawned, failures, toKill, network,
               outputCode, dockerCode, missed>>
        /\ faults' \in 0..DockerFaults /\ faults' >= faults
    BY <1>15, <1>2, <1>3 DEF DJ!DockerStarts, DJ!DockerFailsToStart, DJ!ContainerEnds
  <2>2. \E st \in {"running", "succeeded", "failed"} :
           containers' = [containers EXCEPT ![e][c] = st]
    BY <1>15 DEF DJ!DockerStarts, DJ!DockerFailsToStart, DJ!ContainerEnds
  <2> QED
    BY <2>1, <2>2, ContainerMoves
<1>16. CASE UNCHANGED DJ!vars
  BY <1>16, SpawnedKeeps DEF DJ!vars, DockerInv, DockerTyped, DockerAt, CodesAt, ContainersAt, DJ!SuccessIsMains
<1> QED
  BY <1>4, <1>5, <1>6, <1>7, <1>8, <1>9, <1>10, <1>11, <1>12, <1>13, <1>14, <1>15, <1>16
  DEF DJ!Next, DJ!Execute

LEMMA DockerImplies == DockerInv => DJ!TypeOK /\ DJ!SuccessIsMains /\ DJ!NoneForgotten
<1> SUFFICES ASSUME DockerInv
             PROVE  DJ!TypeOK /\ DJ!NoneForgotten
  BY DEF DockerInv
<1> USE DockerConstants
<1>1. DJ!TypeOK
  BY DEF DockerInv, DockerTyped, DockerAt, AtMostOneMore, ContainersAt, DJ!TypeOK
<1>2. ASSUME NEW e \in DJ!E, NEW c \in DJ!C, dockerCode[e] # DJ!NoCode,
             containers[e][c] \in {"starting", "running"}
      PROVE  <<e, c>> \in missed \/ (e = execution /\ c \in toKill)
  <2>1. e < execution \/ (e = execution /\ dockerPc = "ended")
    BY <1>2 DEF DockerInv, DockerTyped, CodesAt
  <2> QED
    BY <1>2, <2>1 DEF DockerInv, ContainersAt
<1> QED
  BY <1>1, <1>2 DEF DJ!NoneForgotten

LEMMA DockerKills == DockerInv => DJ!KillsInTime
<1> SUFFICES ASSUME DockerInv, NEW c \in DJ!C, DJ!Kill(c)
             PROVE  containers[execution][DJ!Main] \in DJ!Ended \/ failures > 0
  BY DEF DJ!KillsInTime, DJ!Mine
<1>1. toKill # {} /\ spawned # {}
  BY DEF DJ!Kill, DockerInv, DockerTyped
<1>2. dockerPc \in {"kill", "rmnet", "ended"}
  BY <1>1 DEF DockerInv, DockerTyped, DockerAt
<1> QED
  BY <1>1, <1>2, DockerConstants DEF DockerInv, DockerTyped, ContainersAt

---------------------------------------------------------------------------
(* Signed goals *)

GoalState == {"requested", "in_process", "waiting_for_approval", "approved",
              "success", "failure", "canceled"}

SignatureRecord ==
    [by : SG!Sdms \cup {SG!Nobody}, of : (GoalState \cup {""}) \X BOOLEAN \X BOOLEAN]

GoalRecord == [state : GoalState, rejected : BOOLEAN, details : BOOLEAN, storedBy : SG!Sdms,
               signature : SignatureRecord]

(* A goal delivered with all its fields has the signature of the SDM that  *)
(* stored it, if that one signs.                                           *)
Authentic(e) ==
    e.handler \in SG!FullEvents /\ SG!Signs(e.goal.storedBy) =>
        e.goal.signature = SG!SignatureOf(e.goal.storedBy, e.goal)

(* The events that may still be answered with a rejection.                 *)
Open(es) == {e \in es : ~SG!IsGoalRejected(e.goal)}

(* Every goal stored otherwise than by a rejection pays for the rejections *)
(* of its events: there are three at most.                                 *)
PaidFor(es, r, n) ==
    /\ r \in Nat /\ n \in Nat
    /\ IsFiniteSet(Open(es))
    /\ Cardinality(Open(es)) + r <= 3 * n

SigningInv ==
    /\ config \in [SG!Sdms -> Configs]
    /\ goal \in GoalRecord
    /\ \A e \in events : e.goal \in GoalRecord /\ Authentic(e)
    /\ SG!RejectedForCause
    /\ PaidFor(events, rejections, stores)

LEMMA OpenShrinks ==
    ASSUME NEW es, NEW fs, NEW r, NEW n, PaidFor(es, r, n), Open(fs) \subseteq Open(es)
    PROVE  PaidFor(fs, r, n)
<1>1. /\ IsFiniteSet(Open(fs)) /\ Cardinality(Open(fs)) <= Cardinality(Open(es))
  BY FS_Subset DEF PaidFor
<1>2. Cardinality(Open(fs)) \in Nat /\ Cardinality(Open(es)) \in Nat
  BY <1>1, FS_CardinalityType DEF PaidFor
<1> HIDE DEF Open
<1> QED
  BY <1>1, <1>2 DEF PaidFor

(* A rejection takes an open event, and its own events are not.            *)
LEMMA RejectionPaidFor ==
    ASSUME NEW es, NEW fs, NEW r, NEW n, PaidFor(es, r, n),
           NEW e \in Open(es), Open(fs) \subseteq Open(es) \ {e}
    PROVE  PaidFor(fs, r + 1, n)
<1> DEFINE rest == Open(es) \ {e}
<1>1. IsFiniteSet(rest) /\ Cardinality(rest) = Cardinality(Open(es)) - 1
  BY FS_RemoveElement DEF PaidFor
<1>2. IsFiniteSet(Open(fs)) /\ Cardinality(Open(fs)) <= Cardinality(rest)
  BY <1>1, FS_Subset
<1>3. /\ Cardinality(Open(fs)) \in Nat /\ Cardinality(rest) \in Nat
      /\ Cardinality(Open(es)) \in Nat
  BY <1>1, <1>2, FS_CardinalityType DEF PaidFor
<1> HIDE DEF Open, rest
<1> QED
  BY <1>1, <1>2, <1>3 DEF PaidFor

LEMMA AddOne ==
    ASSUME NEW S, NEW x, IsFiniteSet(S)
    PROVE  /\ IsFiniteSet(S \cup {x}) /\ Cardinality(S \cup {x}) <= Cardinality(S) + 1
           /\ Cardinality(S) \in Nat /\ Cardinality(S \cup {x}) \in Nat
<1>1. Cardinality(S) \in Nat
  BY FS_CardinalityType
<1> QED
  BY <1>1, FS_AddElement

LEMMA StorePaidFor ==
    ASSUME NEW es, NEW fs, NEW r, NEW n, PaidFor(es, r, n),
           NEW a, NEW b, NEW c, Open(fs) \subseteq Open(es) \cup {a, b, c}
    PROVE  PaidFor(fs, r, n + 1)
<1> DEFINE one == Open(es) \cup {a}
           two == one \cup {b}
           all == two \cup {c}
<1>1. /\ IsFiniteSet(one) /\ Cardinality(one) <= Cardinality(Open(es)) + 1
      /\ Cardinality(Open(es)) \in Nat /\ Cardinality(one) \in Nat
  BY AddOne DEF PaidFor
<1> HIDE DEF one
<1>2. /\ IsFiniteSet(two) /\ Cardinality(two) <= Cardinality(one) + 1
      /\ Cardinality(two) \in Nat
  BY <1>1, AddOne
<1> HIDE DEF two
<1>3. /\ IsFiniteSet(all) /\ Cardinality(all) <= Cardinality(two) + 1
      /\ Cardinality(all) \in Nat
  BY <1>2, AddOne
<1>4. IsFiniteSet(Open(fs)) /\ Cardinality(Open(fs)) <= Cardinality(all)
  <2>1. Open(fs) \subseteq all
    BY DEF one, two
  <2> QED
    BY <1>3, <2>1, FS_Subset
<1>5. Cardinality(Open(fs)) \in Nat
  BY <1>4, FS_CardinalityType
<1> HIDE DEF Open, all
<1> QED
  BY <1>1, <1>2, <1>3, <1>4, <1>5 DEF PaidFor

(* No state has more than three handlers.                                  *)
LEMMA ThreeHandlers ==
    ASSUME NEW st
    PROVE  \E a, b, c : SG!Handlers(st) \subseteq {a, b, c}
<1>1. \/ SG!Handlers(st) \subseteq {"FulfillGoalOnRequested", "VoteOnGoalApprovalRequest", "RespondOnGoalCompletion"}
      \/ SG!Handlers(st) \subseteq {"RequestDownstreamGoals", "RespondOnGoalCompletion"}
      \/ SG!Handlers(st) \subseteq {"SkipDownstreamGoals", "RespondOnGoalCompletion", "CancelGoalOnCanceled"}
  BY DEF SG!Handlers
<1> QED
  BY <1>1

LEMMA UnsignedRecord == SG!Unsigned \in SignatureRecord
<1>1. SG!Unsigned.of \in (GoalState \cup {""}) \X BOOLEAN \X BOOLEAN
  BY DEF SG!Unsigned
<1> QED
  BY <1>1 DEF SG!Unsigned, SignatureRecord

LEMMA SignedGoal ==
    ASSUME NEW s \in SG!Sdms, NEW g \in GoalRecord, NEW old \in SignatureRecord,
           g.storedBy = s
    PROVE  LET new == SG!Signed(s, g, old)
           IN  /\ new \in GoalRecord /\ new.state = g.state /\ new.rejected = g.rejected
               /\ new.storedBy = s
               /\ SG!Signs(s) => new.signature = SG!SignatureOf(s, new)
<1> DEFINE sig == IF SG!Signs(s) THEN SG!SignatureOf(s, g) ELSE old
           new == [g EXCEPT !.signature = sig]
<1>1. SG!SignatureOf(s, g) \in SignatureRecord
  BY DEF SG!SignatureOf, SG!Normalized, SignatureRecord, GoalRecord
<1>2. sig \in SignatureRecord
  BY <1>1
<1> HIDE DEF sig
<1>3. /\ new \in GoalRecord /\ new.state = g.state /\ new.rejected = g.rejected
      /\ new.details = g.details /\ new.storedBy = s /\ new.signature = sig
  BY <1>2 DEF GoalRecord
<1>4. SG!SignatureOf(s, new) = SG!SignatureOf(s, g)
  BY <1>3 DEF SG!SignatureOf, SG!Normalized
<1>5. SG!Signs(s) => sig = SG!SignatureOf(s, g)
  BY DEF sig
<1>6. SG!Signed(s, g, old) = new
  BY DEF SG!Signed, sig
<1> HIDE DEF new
<1> QED
  BY <1>3, <1>4, <1>5, <1>6

LEMMA DeliveredGoal ==
    ASSUME NEW g \in GoalRecord, NEW h
    PROVE  LET d == SG!Delivered(h, g)
           IN  /\ d \in GoalRecord /\ d.state = g.state /\ d.rejected = g.rejected
               /\ d.storedBy = g.storedBy
               /\ h \in SG!FullEvents => d = g
<1> QED
  BY UnsignedRecord DEF SG!Delivered, SG!FullEvents, GoalRecord

LEMMA StoreKeeps ==
    ASSUME SigningInv, NEW s \in SG!Sdms, NEW st \in GoalState, NEW rej \in BOOLEAN,
           NEW pending \in SUBSET events, SG!Store(s, st, rej, pending), UNCHANGED config
    PROVE  /\ goal' \in GoalRecord
           /\ \A e \in events' : e.goal \in GoalRecord /\ Authentic(e)'
           /\ rej /\ st = "failure" => Open(events') \subseteq Open(pending)
           /\ \E a, b, c : Open(events') \subseteq Open(pending) \cup {a, b, c}
<1> DEFINE g == [goal EXCEPT !.state = st, !.rejected = rej, !.storedBy = s]
           new == SG!Signed(s, g, goal.signature)
           Event(h) == [handler |-> h, goal |-> SG!Delivered(h, new)]
<1>1. g \in GoalRecord /\ g.storedBy = s /\ g.state = st /\ g.rejected = rej
      /\ goal.signature \in SignatureRecord
  BY DEF SigningInv, GoalRecord
<1>2. goal' = new /\ events' = pending \cup {Event(h) : h \in SG!Handlers(st)}
  BY DEF SG!Store
<1> HIDE DEF g
<1>3. /\ new \in GoalRecord /\ new.state = st /\ new.rejected = rej /\ new.storedBy = s
      /\ SG!Signs(s) => new.signature = SG!SignatureOf(s, new)
  BY <1>1, SignedGoal
<1> HIDE DEF new
<1>4. ASSUME NEW h
      PROVE  /\ Event(h).goal \in GoalRecord /\ Event(h).goal.state = st
             /\ Event(h).goal.rejected = rej /\ Authentic(Event(h))
  BY <1>3, DeliveredGoal DEF Authentic
<1>5. \A e : Authentic(e)' <=> Authentic(e)
  BY DEF Authentic, SG!Signs, SG!SignatureOf, SG!Normalized
<1>6. rej /\ st = "failure" => \A h : SG!IsGoalRejected(Event(h).goal)
  BY <1>4 DEF SG!IsGoalRejected
<1> HIDE DEF Event
<1>7. \A e \in events' : e.goal \in GoalRecord /\ Authentic(e)'
  BY <1>2, <1>4, <1>5 DEF SigningInv
<1>8. rej /\ st = "failure" => Open(events') \subseteq Open(pending)
  BY <1>2, <1>6 DEF Open
<1>9. \E a, b, c : Open(events') \subseteq Open(pending) \cup {a, b, c}
  <2>1. PICK x, y, z : SG!Handlers(st) \subseteq {x, y, z}
    BY ThreeHandlers
  <2>2. Open(events') \subseteq Open(pending) \cup {Event(x), Event(y), Event(z)}
    BY <1>2, <2>1 DEF Open
  <2> QED
    BY <2>2
<1> QED
  BY <1>2, <1>3, <1>7, <1>8, <1>9

LEMMA SigningInit == SG!Init => SigningInv
<1> SUFFICES ASSUME SG!Init
             PROVE  SigningInv
  OBVIOUS
<1>1. PICK details \in BOOLEAN :
         goal = SG!Signed(Planner, [state |-> "requested", rejected |-> FALSE,
                    details |-> details, storedBy |-> Planner, signature |-> SG!Unsigned],
                    SG!Unsigned)
  BY DEF SG!Init
<1> DEFINE g == [state |-> "requested", rejected |-> FALSE, details |-> details,
                 storedBy |-> Planner, signature |-> SG!Unsigned]
<1>2. SG!Unsigned \in SignatureRecord
  BY UnsignedRecord
<1>3. g \in GoalRecord /\ g.storedBy = Planner /\ Planner \in SG!Sdms
  BY <1>2 DEF GoalRecord, GoalState, SG!Sdms
<1>4. /\ goal \in GoalRecord /\ goal.storedBy = Planner
      /\ SG!Signs(Planner) => goal.signature = SG!SignatureOf(Planner, goal)
  <2>1. goal = SG!Signed(Planner, g, SG!Unsigned)
    BY <1>1
  <2> HIDE DEF g
  <2> QED
    BY <1>2, <1>3, <2>1, SignedGoal
<1> DEFINE e == [handler |-> "FulfillGoalOnRequested", goal |-> goal]
<1>5. /\ events = {e} /\ rejected = {} /\ stores = 1 /\ rejections = 0
      /\ config \in [SG!Sdms -> Configs]
  BY DEF SG!Init
<1>6. e.goal \in GoalRecord /\ Authentic(e)
  BY <1>4 DEF Authentic
<1>7. PaidFor(events, rejections, stores)
  <2>1. PaidFor({}, 0, 0)
    BY FS_EmptySet DEF PaidFor, Open
  <2>2. Open({e}) \subseteq Open({}) \cup {e, e, e}
    BY DEF Open
  <2>3. PaidFor({e}, 0, 0 + 1)
    <3> HIDE DEF e
    <3> QED
      BY <2>1, <2>2, StorePaidFor
  <2> QED
    BY <1>5, <2>3
<1> HIDE DEF e
<1> QED
  BY <1>4, <1>5, <1>6, <1>7 DEF SigningInv, SG!RejectedForCause

(* An SDM that trusts the one that stored a goal accepts it, if it is      *)
(* delivered as it was signed.                                             *)
LEMMA TrustedAreVerified ==
    ASSUME SigningInv, NEW e \in events, e.handler \in SG!FullEvents,
           SG!Trusts(SG!SdmOf(e.handler), e.goal.storedBy)
    PROVE  SG!Verified(e)
<1> DEFINE s == SG!SdmOf(e.handler)
           t == e.goal.storedBy
<1>1. s \in SG!Sdms /\ t \in SG!Sdms
  BY DEF SigningInv, GoalRecord, SG!SdmOf, SG!Sdms
<1>2. SG!Signs(t) /\ (s = t \/ config[s].others)
  BY DEF SG!Trusts
<1>3. e.goal.signature = SG!SignatureOf(t, e.goal)
  BY <1>2 DEF SigningInv, Authentic
<1>4. t \in SG!VerificationKeys(s)
  BY <1>1, <1>2 DEF SG!VerificationKeys, SG!Signs
<1> QED
  BY <1>3, <1>4 DEF SG!Verified

LEMMA SigningStep == SigningInv /\ [SG!Next]_(SG!signVars) => SigningInv'
<1> SUFFICES ASSUME SigningInv, [SG!Next]_(SG!signVars)
             PROVE  SigningInv'
  OBVIOUS
<1>1. ASSUME NEW e \in events, SG!Throw(e)
      PROVE  SigningInv'
  <2>1. /\ events' = events \ {e}
        /\ UNCHANGED <<config, goal, rejected, stores, rejections>>
    BY <1>1 DEF SG!Throw
  <2>2. Open(events') \subseteq Open(events)
    BY <2>1 DEF Open
  <2>3. PaidFor(events', rejections', stores')
    BY <2>1, <2>2, OpenShrinks DEF SigningInv
  <2> QED
    BY <2>1, <2>3 DEF SigningInv, Authentic, SG!RejectedForCause, SG!Trusts, SG!Signs,
         SG!SignatureOf, SG!Normalized
<1>2. ASSUME NEW e \in events, SG!RejectGoal(e)
      PROVE  SigningInv'
  <2> DEFINE s == SG!SdmOf(e.handler)
  <2>1. /\ ~SG!Verified(e)
        /\ SG!Store(s, "failure", TRUE, events \ {e})
        /\ rejected' = rejected \cup {[by |-> s, storedBy |-> e.goal.storedBy, handler |-> e.handler]}
        /\ rejections' = rejections + 1
        /\ UNCHANGED <<config, stores>>
    BY <1>2 DEF SG!RejectGoal
  <2>2. s \in SG!Sdms
    BY DEF SG!SdmOf, SG!Sdms
  <2> HIDE DEF s
  <2>8. events \ {e} \in SUBSET events
    OBVIOUS
  <2>3. /\ goal' \in GoalRecord
        /\ \A x \in events' : x.goal \in GoalRecord /\ Authentic(x)'
        /\ Open(events') \subseteq Open(events \ {e})
    <3>1. "failure" \in GoalState /\ UNCHANGED config
      BY <2>1 DEF GoalState
    <3> QED
      BY <2>1, <2>2, <2>8, <3>1, StoreKeeps
  <2>4. e \in Open(events)
    BY <2>1 DEF Open, SG!Verified, SG!HasToVerify
  <2>5. Open(events') \subseteq Open(events) \ {e}
    BY <2>3 DEF Open
  <2>6. PaidFor(events', rejections', stores')
    BY <2>1, <2>4, <2>5, RejectionPaidFor DEF SigningInv
  <2>7. SG!RejectedForCause'
    <3>1. ~SG!Trusts(s, e.goal.storedBy) \/ e.handler \notin SG!FullEvents
      BY <2>1, TrustedAreVerified DEF s
    <3>2. \A x, y : SG!Trusts(x, y)' <=> SG!Trusts(x, y)
      BY <2>1 DEF SG!Trusts, SG!Signs
    <3> QED
      BY <2>1, <3>1, <3>2 DEF SigningInv, SG!RejectedForCause
  <2> QED
    BY <2>1, <2>3, <2>6, <2>7 DEF SigningInv
<1>3. ASSUME NEW s \in SG!Sdms, NEW st \in GoalState, NEW pending \in SUBSET events,
             SG!Store(s, st, FALSE, pending), stores' = stores + 1,
             UNCHANGED <<config, rejected, rejections>>
      PROVE  SigningInv'
  <2>1. /\ goal' \in GoalRecord
        /\ \A x \in events' : x.goal \in GoalRecord /\ Authentic(x)'
        /\ \E a, b, c : Open(events') \subseteq Open(pending) \cup {a, b, c}
    BY <1>3, StoreKeeps
  <2>2. \E a, b, c : Open(events') \subseteq Open(events) \cup {a, b, c}
    <3>1. Open(pending) \subseteq Open(events)
      BY DEF Open
    <3> QED
      BY <2>1, <3>1
  <2>3. PaidFor(events', rejections, stores + 1)
    BY <2>2, StorePaidFor DEF SigningInv
  <2>4. SG!RejectedForCause'
    BY <1>3 DEF SigningInv, SG!RejectedForCause, SG!Trusts, SG!Signs
  <2> QED
    BY <1>3, <2>1, <2>3, <2>4 DEF SigningInv
<1>4. ASSUME NEW e \in events, SG!HandleGoal(e)
      PROVE  SigningInv'
  <2>1. SG!SdmOf(e.handler) \in SG!Sdms
    BY DEF SG!SdmOf, SG!Sdms
  <2>2. events \ {e} \in SUBSET events
    OBVIOUS
  <2>3. \/ /\ \E st \in {"in_process", "success"} :
                SG!Store(SG!SdmOf(e.handler), st, FALSE, events \ {e})
           /\ stores' = stores + 1 /\ UNCHANGED <<config, rejected, rejections>>
        \/ /\ events' = events \ {e}
           /\ UNCHANGED <<config, goal, rejected, stores, rejections>>
    BY <1>4 DEF SG!HandleGoal
  <2>4. ASSUME events' = events \ {e}, UNCHANGED <<config, goal, rejected, stores, rejections>>
        PROVE  SigningInv'
    <3>1. Open(events') \subseteq Open(events)
      BY <2>4 DEF Open
    <3>2. PaidFor(events', rejections', stores')
      BY <2>4, <3>1, OpenShrinks DEF SigningInv
    <3> QED
      BY <2>4, <3>2 DEF SigningInv, Authentic, SG!RejectedForCause, SG!Trusts, SG!Signs,
           SG!SignatureOf, SG!Normalized
  <2>5. ASSUME NEW st \in GoalState, SG!Store(SG!SdmOf(e.handler), st, FALSE, events \ {e}),
               stores' = stores + 1, UNCHANGED <<config, rejected, rejections>>
        PROVE  SigningInv'
    BY <1>3, <2>1, <2>2, <2>5
  <2> QED
    BY <2>3, <2>4, <2>5 DEF GoalState
<1>5. ASSUME SG!ExecutionEnds
      PROVE  SigningInv'
  <2>1. Fulfiller \in SG!Sdms /\ events \in SUBSET events
    BY DEF SG!Sdms
  <2>2. /\ \E st \in {"success", "failure", "waiting_for_approval"} :
             SG!Store(Fulfiller, st, FALSE, events)
        /\ stores' = stores + 1 /\ UNCHANGED <<config, rejected, rejections>>
    BY <1>5 DEF SG!ExecutionEnds
  <2>3. PICK st \in GoalState : SG!Store(Fulfiller, st, FALSE, events)
    BY <2>2 DEF GoalState
  <2> QED
    BY <1>3, <2>1, <2>2, <2>3
<1>6. ASSUME SG!UpdateGoal
      PROVE  SigningInv'
  <2>1. Planner \in SG!Sdms /\ events \in SUBSET events
    BY DEF SG!Sdms
  <2>2. /\ \E st \in {"approved", "canceled"} : SG!Store(Planner, st, FALSE, events)
        /\ stores' = stores + 1 /\ UNCHANGED <<config, rejected, rejections>>
    BY <1>6 DEF SG!UpdateGoal
  <2>3. PICK st \in GoalState : SG!Store(Planner, st, FALSE, events)
    BY <2>2 DEF GoalState
  <2> QED
    BY <1>3, <2>1, <2>2, <2>3
<1>7. CASE UNCHANGED SG!signVars
  BY <1>7 DEF SG!signVars, SigningInv, Authentic, SG!RejectedForCause, SG!Trusts, SG!Signs,
       SG!SignatureOf, SG!Normalized
<1> QED
  BY <1>1, <1>2, <1>4, <1>5, <1>6, <1>7 DEF SG!Next, SG!Handle

LEMMA SigningImplies == SigningInv => SG!RejectedForCause /\ SG!RejectionsDoNotCascade
<1> SUFFICES ASSUME SigningInv
             PROVE  SG!RejectionsDoNotCascade
  BY DEF SigningInv
<1>1. Cardinality(Open(events)) \in Nat
  BY FS_CardinalityType DEF SigningInv, PaidFor
<1> HIDE DEF Open
<1> QED
  BY <1>1 DEF SigningInv, PaidFor, SG!RejectionsDoNotCascade

---------------------------------------------------------------------------
(* Goal sets *)

(* The least of a set of numbers: no set of initial segments descends      *)
(* forever.                                                                *)
LEMMA Least ==
    ASSUME NEW T \in SUBSET Nat, T # {}
    PROVE  \E m \in T : \A n \in T : m <= n
<1> DEFINE UpTo(x) == {y \in T : y <= x}
           Segments == {UpTo(x) : x \in T}
<1>1. Segments \subseteq FiniteSubsetsOf(Nat) /\ Segments # {}
  <2>1. ASSUME NEW x \in T
        PROVE  IsFiniteSet(UpTo(x)) /\ UpTo(x) \subseteq Nat
    <3>1. UpTo(x) \in SUBSET Nat /\ x \in Nat /\ \A y \in UpTo(x) : y <= x
      OBVIOUS
    <3> HIDE DEF UpTo
    <3> QED
      BY <3>1, FS_BoundedSetOfNaturals
  <2> QED
    BY <2>1 DEF FiniteSubsetsOf
<1>2. IsWellFoundedOn(StrictSubsetOrdering(Nat), FiniteSubsetsOf(Nat))
  BY FS_StrictSubsetOrderingWellFounded
<1>3. PICK D \in Segments : \A U \in Segments : <<U, D>> \notin StrictSubsetOrdering(Nat)
  <2> HIDE DEF Segments
  <2> QED
    BY <1>1, <1>2, WFMin
<1>4. PICK m \in T : D = UpTo(m)
  OBVIOUS
<1>5. ASSUME NEW n \in T, ~(m <= n)
      PROVE  FALSE
  <2>1. n < m /\ m \in Nat /\ n \in Nat
    BY <1>5
  <2>2. UpTo(n) \subseteq UpTo(m) /\ m \in UpTo(m) /\ m \notin UpTo(n)
    <3>1. ASSUME NEW y \in T, y <= n
          PROVE  y <= m
      <4>1. y \in Nat
        OBVIOUS
      <4> QED
        BY <2>1, <3>1, <4>1
    <3>2. UpTo(n) \subseteq UpTo(m)
      BY <3>1
    <3>3. m \in UpTo(m)
      BY <2>1
    <3>4. m \notin UpTo(n)
      BY <2>1
    <3> QED
      BY <3>2, <3>3, <3>4
  <2>3. UpTo(n) \in SUBSET Nat /\ UpTo(m) \in SUBSET Nat /\ UpTo(n) \in Segments
    OBVIOUS
  <2> HIDE DEF UpTo, Segments
  <2>4. <<UpTo(n), UpTo(m)>> \in StrictSubsetOrdering(Nat)
    BY <2>2, <2>3 DEF StrictSubsetOrdering
  <2> QED
    BY <1>3, <1>4, <2>3, <2>4
<1> QED
  BY <1>5

LEMMA SameCardinalityOfSets == \A S : GS!Cardinality(S) = Cardinality(S)
BY DEF GS!Cardinality, Cardinality

(* As long as a goal set is pending, a page that starts with the oldest    *)
(* has one.                                                                *)
LEMMA FirstPage ==
    ASSUME GS!CancelPage = {}
    PROVE  GS!Pending(stored) = {}
<1> SUFFICES ASSUME GS!Pending(stored) # {}
             PROVE  FALSE
  OBVIOUS
<1>1. /\ GS!Pending(stored) \in SUBSET Nat /\ GS!Pending(stored) \subseteq Sets
      /\ CancelFetch \in Nat \ {0}
  BY ExecutionAssumption DEF GS!AreGoalSets, GS!Pending
<1>2. PICK m \in GS!Pending(stored) : \A n \in GS!Pending(stored) : m <= n
  BY <1>1, Least
<1>3. {t \in GS!Pending(stored) : t < m} = {}
  BY <1>1, <1>2
<1>4. GS!Cardinality({t \in GS!Pending(stored) : t < m}) = 0
  BY <1>3, FS_EmptySet, SameCardinalityOfSets
<1>5. m \in GS!CancelPage
  BY <1>1, <1>4 DEF GS!CancelPage, GS!Page
<1> QED
  BY <1>5

LEMMA PriorityIs ==
    /\ DOMAIN GS!Priority = 1..11
    /\ \A i \in 1..11 : GS!Priority[i] \in GS!State
    /\ \A x \in GS!State \ GS!Succeeded : \E i \in 1..10 : GS!Priority[i] = x
    /\ \A i \in 1..10 : GS!Priority[i] \notin GS!Succeeded
<1>1. DOMAIN GS!Priority = 1..11
  BY DEF GS!Priority
<1>2. /\ GS!Priority[1] = "failure" /\ GS!Priority[2] = "canceled"
      /\ GS!Priority[3] = "stopped" /\ GS!Priority[4] = "in_process"
      /\ GS!Priority[5] = "waiting_for_pre_approval" /\ GS!Priority[6] = "waiting_for_approval"
      /\ GS!Priority[7] = "pre_approved" /\ GS!Priority[8] = "approved"
      /\ GS!Priority[9] = "requested" /\ GS!Priority[10] = "planned" /\ GS!Priority[11] = "skipped"
  BY DEF GS!Priority
<1> QED
  BY <1>1, <1>2 DEF GS!State, GS!Completed, GS!PendingStates, GS!Succeeded

(* The state of a goal set is a state of goals, and the goal set is said   *)
(* to have succeeded only if all of its goals have.                        *)
LEMMA StateOfSucceeded ==
    ASSUME NEW states \in SUBSET GS!State
    PROVE  /\ GS!GoalSetState(states) \in GS!State
           /\ GS!GoalSetState(states) \in GS!Succeeded => states \subseteq GS!Succeeded
<1> DEFINE present == {i \in DOMAIN GS!Priority : GS!Priority[i] \in states}
<1>1. GS!GoalSetState(states) = IF present = {} THEN "success" ELSE GS!Priority[GS!Min(present)]
  BY DEF GS!GoalSetState
<1>2. present \in SUBSET Nat /\ present \subseteq 1..11
  BY PriorityIs
<1>3. \A i \in 1..10 : GS!Priority[i] \in states => i \in present
  BY PriorityIs
<1> HIDE DEF present
<1>4. present # {} => GS!Min(present) \in present /\ \A y \in present : GS!Min(present) <= y
  <2> SUFFICES ASSUME present # {}
               PROVE  GS!Min(present) \in present /\ \A y \in present : GS!Min(present) <= y
    OBVIOUS
  <2>1. \E m \in present : \A y \in present : m <= y
    BY <1>2, Least
  <2> QED
    BY <2>1 DEF GS!Min
<1>5. GS!GoalSetState(states) \in GS!State
  <2>1. "success" \in GS!State
    BY DEF GS!State, GS!Completed
  <2> QED
    BY <1>1, <1>2, <1>4, <2>1, PriorityIs
<1>6. ASSUME NEW x \in states, x \notin GS!Succeeded
      PROVE  GS!GoalSetState(states) \notin GS!Succeeded
  <2>1. PICK i \in 1..10 : GS!Priority[i] = x
    BY <1>6, PriorityIs
  <2>2. i \in present
    BY <1>3, <1>6, <2>1
  <2>3. GS!Min(present) \in present /\ GS!Min(present) <= i
    BY <1>4, <2>2
  <2>4. GS!Min(present) \in 1..10
    <3>1. \A m \in present : m \in 1..11 /\ (m <= i => m \in 1..10)
      BY <1>2, <2>1
    <3> QED
      BY <2>3, <3>1
  <2> QED
    BY <1>1, <2>2, <2>4, PriorityIs
<1> QED
  BY <1>5, <1>6

(* What is open is of pending goal sets and has not ended; the goals of a  *)
(* set being canceled that are open are about to be; and a pass is not     *)
(* about to store a set as succeeded that has an open goal, now or when    *)
(* the command begins.                                                     *)
GoalSetsInv ==
    /\ goals \in [Sets -> [Goals -> GS!State]]
    /\ stored \in [Sets -> GS!State \cup {"none"}]
    /\ passes \in [Passes -> GS!Pass]
    /\ cancelCommand \in GS!Cancel
    /\ open \subseteq GS!Pending(stored) \X Goals
    /\ \A pair \in open : goals[pair[1]][pair[2]] \notin GS!Completed
    /\ cancelCommand.phase = "idle" => open = {}
    /\ cancelCommand.phase = "set" =>
         \A g \in Goals : <<GS!Oldest(cancelCommand.todo), g>> \in open => g \in cancelCommand.goals
    /\ \A p \in Passes : \A gs \in passes[p].write : gs.state \in GS!Succeeded =>
         /\ \A g \in Goals : <<gs.set, g>> \notin open
         /\ cancelCommand.phase = "idle" => \A g \in Goals : goals[gs.set][g] \in GS!Succeeded
    /\ GS!CancelEndsGoals

LEMMA GoalSetsInit == GS!Init => GoalSetsInv
<1> SUFFICES ASSUME GS!Init
             PROVE  GoalSetsInv
  OBVIOUS
<1>1. /\ goals \in [Sets -> [Goals -> {"requested"}]] /\ open = {}
      /\ \A p \in Passes : passes[p] = [todo |-> {}, write |-> {}]
      /\ cancelCommand = [phase |-> "idle", todo |-> {}, goals |-> {}]
      /\ stored = [s \in Sets |-> "none"] /\ passes \in [Passes -> GS!Pass]
  BY DEF GS!Init, GS!NoPass, GS!Pass
<1>2. goals \in [Sets -> [Goals -> GS!State]]
  BY <1>1 DEF GS!State, GS!PendingStates
<1> QED
  BY <1>1, <1>2 DEF GoalSetsInv, GS!CancelEndsGoals, GS!Cancel

(* The parts of the invariant, for a step that leaves the rest of the      *)
(* state or makes less of it open.                                         *)
LEMMA GoalsMove ==
    ASSUME GoalSetsInv, NEW s, NEW g \in Goals, NEW st \in GS!State,
           goals' = [goals EXCEPT ![s][g] = st], open' = GS!NotEnded(open, goals'),
           UNCHANGED <<stored, passes>>, cancelCommand' \in GS!Cancel,
           cancelCommand'.phase = cancelCommand.phase,
           cancelCommand'.todo = cancelCommand.todo,
           cancelCommand'.goals \in {cancelCommand.goals, cancelCommand.goals \ {g}},
           cancelCommand'.goals = cancelCommand.goals
             \/ (s = GS!Oldest(cancelCommand.todo) /\ st \in GS!Completed),
           cancelCommand.phase = "idle" /\ s \in Sets /\ goals[s][g] \in GS!Succeeded =>
             st \in GS!Succeeded
    PROVE  GoalSetsInv'
<1>1. /\ goals' \in [Sets -> [Goals -> GS!State]]
      /\ s \in Sets => goals'[s][g] = st
      /\ \A t \in Sets, h \in Goals : t # s \/ h # g => goals'[t][h] = goals[t][h]
  <2>1. goals \in [Sets -> [Goals -> GS!State]]
    BY DEF GoalSetsInv
  <2> QED
    BY <2>1
<1>2. /\ open' \subseteq open /\ \A pair \in open' : goals'[pair[1]][pair[2]] \notin GS!Completed
      /\ st \in GS!Completed => <<s, g>> \notin open'
  BY <1>1 DEF GS!NotEnded, GoalSetsInv, GS!Pending
<1>3. GS!Pending(stored)' = GS!Pending(stored)
  BY DEF GS!Pending
<1>4. cancelCommand'.phase = "set" =>
         \A h \in Goals : <<GS!Oldest(cancelCommand'.todo), h>> \in open' => h \in cancelCommand'.goals
  BY <1>1, <1>2 DEF GoalSetsInv
<1>5. ASSUME NEW p \in Passes, NEW gs \in passes'[p].write, gs.state \in GS!Succeeded
      PROVE  /\ \A h \in Goals : <<gs.set, h>> \notin open'
             /\ cancelCommand'.phase = "idle" => \A h \in Goals : goals'[gs.set][h] \in GS!Succeeded
  <2>1. /\ \A h \in Goals : <<gs.set, h>> \notin open
        /\ cancelCommand.phase = "idle" => \A h \in Goals : goals[gs.set][h] \in GS!Succeeded
        /\ gs.set \in Sets
    BY <1>5 DEF GoalSetsInv, GS!Record, GS!Pass
  <2> QED
    BY <1>1, <1>2, <2>1
<1>6. GS!CancelEndsGoals'
  BY <1>2 DEF GoalSetsInv, GS!CancelEndsGoals
<1> QED
  BY <1>1, <1>2, <1>3, <1>4, <1>5, <1>6 DEF GoalSetsInv, GS!Oldest

LEMMA GoalSetsStep == GoalSetsInv /\ [GS!Next]_(GS!vars) => GoalSetsInv'
<1> SUFFICES ASSUME GoalSetsInv, [GS!Next]_(GS!vars)
             PROVE  GoalSetsInv'
  OBVIOUS
<1>0. \A move \in Moves : move[1] \in GS!Succeeded => move[2] \in GS!Succeeded
  BY ExecutionAssumption DEF GS!AreGoalSets
<1>1. ASSUME NEW s \in Sets, GS!PlanGoals(s)
      PROVE  GoalSetsInv'
  <2>1. /\ stored[s] = "none" /\ \E x : stored' = [stored EXCEPT ![s] = x]
        /\ UNCHANGED <<goals, passes, cancelCommand, open>>
    BY <1>1 DEF GS!PlanGoals, GS!StoreGoalSet
  <2>2. GS!Pending(stored) \subseteq GS!Pending(stored')
    BY <2>1 DEF GS!Pending, GS!PendingStates, GoalSetsInv
  <2>4. stored' \in [Sets -> GS!State \cup {"none"}]
    <3>1. goals[s] \in [Goals -> GS!State]
      BY DEF GoalSetsInv
    <3>2. GS!StatesOf(s) \in SUBSET GS!State
      BY <3>1 DEF GS!StatesOf
    <3>3. GS!GoalSetState(GS!StatesOf(s)) \in GS!State
      BY <3>2, StateOfSucceeded
    <3> QED
      BY <1>1, <3>3 DEF GS!PlanGoals, GS!StoreGoalSet, GoalSetsInv
  <2>3. GS!Pending(stored)' = GS!Pending(stored')
    BY DEF GS!Pending
  <2>5. open' \subseteq GS!Pending(stored') \X Goals
    BY <2>1, <2>2 DEF GoalSetsInv
  <2>6. /\ GS!CancelEndsGoals'
        /\ cancelCommand'.phase = "set" => \A g \in Goals :
             <<GS!Oldest(cancelCommand'.todo), g>> \in open' => g \in cancelCommand'.goals
    BY <2>1 DEF GoalSetsInv, GS!CancelEndsGoals
  <2> QED
    BY <2>1, <2>3, <2>4, <2>5, <2>6 DEF GoalSetsInv, GS!Oldest
<1>2. ASSUME NEW s \in Sets, NEW g \in Goals, NEW st \in GS!State, GS!MoveGoal(s, g, st)
      PROVE  GoalSetsInv'
  <2>1. /\ goals' = [goals EXCEPT ![s][g] = st] /\ open' = GS!NotEnded(open, goals')
        /\ UNCHANGED <<stored, passes, cancelCommand>>
        /\ <<goals[s][g], st>> \in Moves
    BY <1>2 DEF GS!MoveGoal
  <2>2. goals[s][g] \in GS!Succeeded => st \in GS!Succeeded
    BY <1>0, <2>1
  <2> QED
    BY <2>1, <2>2, GoalsMove DEF GoalSetsInv
<1>3. ASSUME NEW p \in Passes, GS!StartPass(p)
      PROVE  GoalSetsInv'
  <2>1. /\ passes' = [passes EXCEPT ![p].todo =
                        {[set |-> s, state |-> stored[s]] : s \in GS!Page(0, ManageFetch)}]
        /\ passes[p].write = {}
        /\ UNCHANGED <<goals, stored, cancelCommand, open>>
    BY <1>3 DEF GS!StartPass, GS!NoPass
  <2>2. {[set |-> s, state |-> stored[s]] : s \in GS!Page(0, ManageFetch)} \in SUBSET GS!Record
    <3>1. \A s \in GS!Page(0, ManageFetch) : s \in Sets /\ stored[s] \in GS!PendingStates
      BY DEF GS!Page, GS!Pending
    <3>2. \A s \in GS!Page(0, ManageFetch) : [set |-> s, state |-> stored[s]] \in GS!Record
      BY <3>1 DEF GS!Record, GS!State
    <3> QED
      BY <3>2
  <2>3. \A q \in Passes : /\ passes'[q].write = passes[q].write
                          /\ passes' \in [Passes -> GS!Pass]
    BY <2>1, <2>2 DEF GoalSetsInv, GS!Pass
  <2> QED
    BY <2>1, <2>3 DEF GoalSetsInv, GS!CancelEndsGoals, GS!Oldest, GS!Pending
<1>4. ASSUME NEW p \in Passes, NEW gs \in passes[p].todo, GS!FetchGoals(p, gs)
      PROVE  GoalSetsInv'
  <2> DEFINE st == GS!GoalSetState(GS!StatesOf(gs.set))
             new == [set |-> gs.set, state |-> st]
             pass == [todo |-> passes[p].todo \ {gs},
                      write |-> IF GS!IsNewState(st, gs) THEN {new} ELSE {}]
  <2>1. /\ passes' = [passes EXCEPT ![p] = pass]
        /\ UNCHANGED <<goals, stored, cancelCommand, open>>
    BY <1>4 DEF GS!FetchGoals
  <2>2. gs \in GS!Record /\ gs.set \in Sets /\ goals[gs.set] \in [Goals -> GS!State]
    BY <1>4 DEF GoalSetsInv, GS!Record, GS!Pass
  <2>3. GS!StatesOf(gs.set) \in SUBSET GS!State /\ st \in GS!State
    <3>1. GS!StatesOf(gs.set) \in SUBSET GS!State
      BY <2>2 DEF GS!StatesOf
    <3> QED
      BY <3>1, StateOfSucceeded
  <2>4. st \in GS!Succeeded => \A g \in Goals : goals[gs.set][g] \in GS!Succeeded
    BY <2>3, StateOfSucceeded DEF GS!StatesOf
  <2>5. new \in GS!Record
    BY <2>2, <2>3 DEF GS!Record
  <2> HIDE DEF st
  <2>8. /\ passes[p].todo \in SUBSET GS!Record
        /\ pass \in GS!Pass
        /\ pass.write \subseteq {new}
    BY <2>5 DEF GoalSetsInv, GS!Pass
  <2> HIDE DEF pass, new
  <2>6. /\ passes'[p].write \subseteq {new}
        /\ \A q \in Passes \ {p} : passes'[q] = passes[q]
        /\ passes' \in [Passes -> GS!Pass]
    BY <2>1, <2>8 DEF GoalSetsInv
  <2>7. ASSUME NEW q \in Passes, NEW w \in passes'[q].write, w.state \in GS!Succeeded
        PROVE  /\ \A g \in Goals : <<w.set, g>> \notin open
               /\ cancelCommand.phase = "idle" => \A g \in Goals : goals[w.set][g] \in GS!Succeeded
    <3>1. CASE q # p
      BY <2>6, <2>7, <3>1 DEF GoalSetsInv
    <3>2. CASE w = new
      <4>1. \A g \in Goals : goals[gs.set][g] \in GS!Succeeded
        BY <2>4, <2>7, <3>2 DEF new
      <4>2. GS!Succeeded \subseteq GS!Completed
        BY DEF GS!Succeeded, GS!Completed
      <4>3. \A g \in Goals : <<gs.set, g>> \notin open
        BY <4>1, <4>2 DEF GoalSetsInv
      <4> QED
        BY <3>2, <4>1, <4>3 DEF new
    <3> QED
      BY <2>6, <2>7, <3>1, <3>2
  <2> QED
    BY <2>1, <2>6, <2>7 DEF GoalSetsInv, GS!CancelEndsGoals, GS!Oldest, GS!Pending
<1>5. ASSUME NEW p \in Passes, NEW gs \in passes[p].write, GS!StorePassState(p, gs)
      PROVE  GoalSetsInv'
  <2>1. /\ passes' = [passes EXCEPT ![p].write = {}]
        /\ stored' = [stored EXCEPT ![gs.set] = gs.state]
        /\ open' = IF gs.state \in GS!LeavesGoalsOpen
                   THEN {pair \in open : pair[1] # gs.set} ELSE open
        /\ UNCHANGED <<goals, cancelCommand>>
    BY <1>5 DEF GS!StorePassState, GS!StoreGoalSet
  <2>2. gs.state \in GS!State
    BY <1>5 DEF GoalSetsInv, GS!Record, GS!Pass
  <2>3. open' \subseteq open
    BY <2>1
  <2>4. ASSUME NEW pair \in open'
        PROVE  pair \in GS!Pending(stored') \X Goals
    <3>1. pair \in open /\ pair[1] \in Sets /\ stored[pair[1]] \in GS!PendingStates
          /\ pair = <<pair[1], pair[2]>> /\ pair[2] \in Goals
      BY <2>3 DEF GoalSetsInv, GS!Pending
    <3>2. CASE pair[1] # gs.set
      BY <2>1, <3>1, <3>2 DEF GS!Pending, GS!PendingStates
    <3>3. CASE pair[1] = gs.set
      <4>1. gs.state \notin GS!LeavesGoalsOpen
        BY <2>1, <3>3
      <4>2. gs.state \notin GS!Succeeded
        BY <1>5, <3>1, <3>3 DEF GoalSetsInv
      <4>3. gs.state \in GS!PendingStates
        BY <2>2, <4>1, <4>2 DEF GS!State, GS!Completed, GS!LeavesGoalsOpen, GS!Succeeded
      <4>4. stored'[pair[1]] = gs.state
        BY <2>1, <3>1, <3>3 DEF GoalSetsInv
      <4> QED
        BY <3>1, <4>3, <4>4 DEF GS!Pending
    <3> QED
      BY <3>2, <3>3
  <2>5. \A q \in Passes : /\ passes'[q].write \subseteq passes[q].write
                          /\ passes' \in [Passes -> GS!Pass]
    BY <2>1 DEF GoalSetsInv, GS!Pass
  <2>6. GS!Pending(stored)' = GS!Pending(stored')
    BY DEF GS!Pending
  <2>7. stored' \in [Sets -> GS!State \cup {"none"}]
    BY <2>1, <2>2 DEF GoalSetsInv
  <2> QED
    <3>1. open' \subseteq GS!Pending(stored)' \X Goals
      BY <2>4, <2>6
    <3>2. \A pair \in open' : goals'[pair[1]][pair[2]] \notin GS!Completed
      BY <2>1, <2>3 DEF GoalSetsInv
    <3>3. ASSUME NEW q \in Passes, NEW w \in passes'[q].write, w.state \in GS!Succeeded
          PROVE  /\ \A g \in Goals : <<w.set, g>> \notin open'
                 /\ cancelCommand'.phase = "idle" => \A g \in Goals : goals'[w.set][g] \in GS!Succeeded
      BY <2>1, <2>3, <2>5, <3>3 DEF GoalSetsInv
    <3>4. /\ cancelCommand'.phase = "idle" => open' = {}
          /\ cancelCommand'.phase = "set" => \A g \in Goals :
               <<GS!Oldest(cancelCommand'.todo), g>> \in open' => g \in cancelCommand'.goals
          /\ GS!CancelEndsGoals'
      BY <2>1, <2>3 DEF GoalSetsInv, GS!CancelEndsGoals
    <3> QED
      BY <2>1, <2>5, <2>7, <3>1, <3>2, <3>3, <3>4 DEF GoalSetsInv, GS!Oldest
<1>6. ASSUME GS!StartCancel
      PROVE  GoalSetsInv'
  <2>1. /\ cancelCommand.phase = "idle" /\ cancelCommand' = [cancelCommand EXCEPT !.phase = "page"]
        /\ open' = GS!NotEnded(GS!Pending(stored) \X Goals, goals)
        /\ UNCHANGED <<goals, stored, passes>>
    BY <1>6 DEF GS!StartCancel
  <2>2. cancelCommand'.phase = "page" /\ cancelCommand' \in GS!Cancel
    BY <2>1 DEF GoalSetsInv, GS!Cancel
  <2>3. GS!Succeeded \subseteq GS!Completed
    BY DEF GS!Succeeded, GS!Completed
  <2>4. ASSUME NEW p \in Passes, NEW gs \in passes[p].write, gs.state \in GS!Succeeded,
               NEW g \in Goals
        PROVE  <<gs.set, g>> \notin open'
    BY <2>1, <2>3, <2>4 DEF GoalSetsInv, GS!NotEnded
  <2> QED
    BY <2>1, <2>2, <2>4 DEF GoalSetsInv, GS!NotEnded, GS!CancelEndsGoals, GS!Pending
<1>7. ASSUME UNCHANGED <<goals, stored, passes, open>>, cancelCommand' \in GS!Cancel,
             cancelCommand'.phase # "idle",
             cancelCommand'.phase = "set" => \A g \in Goals :
               <<GS!Oldest(cancelCommand'.todo), g>> \in open => g \in cancelCommand'.goals,
             cancelCommand'.phase = "done" => open = {}
      PROVE  GoalSetsInv'
  BY <1>7 DEF GoalSetsInv, GS!CancelEndsGoals, GS!Oldest, GS!Pending
<1>8. ASSUME GS!FetchCancelPage
      PROVE  GoalSetsInv'
  <2>1. /\ UNCHANGED <<goals, stored, passes, open>> /\ cancelCommand.phase = "page"
        /\ cancelCommand' = [cancelCommand EXCEPT
              !.phase = IF GS!CancelPage = {} THEN "done" ELSE "goals",
              !.todo = GS!CancelPage]
    BY <1>8 DEF GS!FetchCancelPage
  <2>2. /\ cancelCommand'.phase = IF GS!CancelPage = {} THEN "done" ELSE "goals"
        /\ cancelCommand' \in GS!Cancel
    BY <2>1 DEF GoalSetsInv, GS!Cancel, GS!CancelPage, GS!Page, GS!Pending
  <2>3. GS!CancelPage = {} => open = {}
    BY FirstPage DEF GoalSetsInv
  <2> QED
    BY <1>7, <2>1, <2>2, <2>3
<1>9. ASSUME GS!FetchGoalsToCancel
      PROVE  GoalSetsInv'
  <2> DEFINE left == {g \in Goals : goals[GS!Oldest(cancelCommand.todo)][g] \notin GS!Completed}
  <2>1. /\ UNCHANGED <<goals, stored, passes, open>> /\ cancelCommand.phase = "goals"
        /\ cancelCommand' = [cancelCommand EXCEPT !.phase = "set", !.goals = left]
    BY <1>9 DEF GS!FetchGoalsToCancel
  <2>2. /\ cancelCommand'.phase = "set" /\ cancelCommand'.goals = left
        /\ cancelCommand'.todo = cancelCommand.todo
        /\ cancelCommand' \in GS!Cancel
    BY <2>1 DEF GoalSetsInv, GS!Cancel
  <2>3. \A g \in Goals : <<GS!Oldest(cancelCommand.todo), g>> \in open => g \in left
    BY DEF GoalSetsInv
  <2> HIDE DEF left
  <2> QED
    BY <1>7, <2>1, <2>2, <2>3
<1>10. ASSUME NEW g \in Goals, GS!CancelGoal(g)
       PROVE  GoalSetsInv'
  <2>1. /\ cancelCommand.phase = "set"
        /\ goals' = [goals EXCEPT ![GS!Oldest(cancelCommand.todo)][g] = "canceled"]
        /\ cancelCommand' = [cancelCommand EXCEPT !.goals = @ \ {g}]
        /\ open' = GS!NotEnded(open, goals') /\ UNCHANGED <<stored, passes>>
    BY <1>10 DEF GS!CancelGoal
  <2>2. /\ cancelCommand' \in GS!Cancel /\ cancelCommand'.phase = "set"
        /\ cancelCommand'.todo = cancelCommand.todo
        /\ cancelCommand'.goals = cancelCommand.goals \ {g}
    BY <2>1 DEF GoalSetsInv, GS!Cancel
  <2>3. "canceled" \in GS!State /\ "canceled" \in GS!Completed
    BY DEF GS!State, GS!Completed
  <2> QED
    BY <2>1, <2>2, <2>3, GoalsMove
<1>11. ASSUME GS!CancelGoalSet
       PROVE  GoalSetsInv'
  <2> DEFINE rest == cancelCommand.todo \ {GS!Oldest(cancelCommand.todo)}
             next == IF rest = {} THEN "page" ELSE "goals"
  <2>1. /\ cancelCommand.phase = "set" /\ cancelCommand.goals = {}
        /\ stored' = [stored EXCEPT ![GS!Oldest(cancelCommand.todo)] = "canceled"]
        /\ cancelCommand' = [cancelCommand EXCEPT !.todo = rest, !.phase = next]
        /\ UNCHANGED <<goals, passes, open>>
    BY <1>11 DEF GS!CancelGoalSet, GS!StoreGoalSet
  <2>2. cancelCommand' \in GS!Cancel /\ cancelCommand'.phase \in {"page", "goals"}
    BY <2>1 DEF GoalSetsInv, GS!Cancel
  <2>3. \A g \in Goals : <<GS!Oldest(cancelCommand.todo), g>> \notin open
    BY <2>1 DEF GoalSetsInv
  <2>4. \A pair \in open : pair \in GS!Pending(stored') \X Goals
    <3> SUFFICES ASSUME NEW pair \in open
                 PROVE  pair \in GS!Pending(stored') \X Goals
      OBVIOUS
    <3>1. pair[1] \in Sets /\ stored[pair[1]] \in GS!PendingStates
          /\ pair = <<pair[1], pair[2]>> /\ pair[2] \in Goals
      BY DEF GoalSetsInv, GS!Pending
    <3>2. pair[1] # GS!Oldest(cancelCommand.todo)
      BY <2>3, <3>1
    <3>3. stored'[pair[1]] = stored[pair[1]]
      BY <2>1, <3>1, <3>2 DEF GoalSetsInv
    <3> QED
      BY <3>1, <3>3 DEF GS!Pending
  <2>5. stored' \in [Sets -> GS!State \cup {"none"}]
    BY <2>1 DEF GoalSetsInv, GS!State, GS!Completed
  <2>6. GS!Pending(stored)' = GS!Pending(stored')
    BY DEF GS!Pending
  <2> QED
    BY <2>1, <2>2, <2>4, <2>5, <2>6 DEF GoalSetsInv, GS!CancelEndsGoals
<1>12. CASE UNCHANGED GS!vars
  BY <1>12 DEF GS!vars, GoalSetsInv, GS!CancelEndsGoals, GS!Oldest, GS!Pending
<1> QED
  BY <1>1, <1>2, <1>3, <1>4, <1>5, <1>6, <1>8, <1>9, <1>10, <1>11, <1>12
  DEF GS!Next, GS!RunPass, GS!RunCancel

LEMMA GoalSetsImplies == GoalSetsInv => GS!CancelEndsGoals
BY DEF GoalSetsInv

---------------------------------------------------------------------------
(* A step of the composition is a step of the component it is about.       *)
LEMMA PartSteps ==
    ASSUME [NextPart]_allVars
    PROVE  /\ part' = part
           /\ part = "log" => [PL!Next]_(PL!logVars)
           /\ part = "docker" => [DJ!Next]_(DJ!vars)
           /\ part = "tasks" => [JT!Next]_(JT!taskVars)
           /\ part = "cache" => [GC!Next]_(GC!cacheVars)
           /\ part = "signing" => [SG!Next]_(SG!signVars)
           /\ part = "goal sets" => [GS!Next]_(GS!vars)
BY DEF NextPart, allVars, StepContainer, StepGoalSets, StepDocker, StepLog, StepTask,
       StepCache, StepSigning, PL!logVars, DJ!vars, JT!taskVars, GC!cacheVars,
       SG!signVars, GS!vars, GoalSetsVars, DockerVars, LogVars, TaskVars, CacheVars,
       SigningVars

(* No line of a log is lost, however many posts overlap and fail, and a    *)
(* closed log keeps back none without a cause; the service has each line   *)
(* once and the lines in the order written, but for those of posts that    *)
(* overlapped and of posts that were stored without an answer in time      *)
(* (RolarProgressLog).                                                     *)
THEOREM NoLineLostHolds == Parts => []NoLineLost
<1> DEFINE Inv == part = "log" => LogInv
<1>1. InitPart => Inv
  BY LogInit DEF InitPart
<1>2. Inv /\ [NextPart]_allVars => Inv'
  BY LogStep, PartSteps
<1>3. Inv => NoLineLost
  BY LogImplies DEF NoLineLost
<1> QED
  BY <1>1, <1>2, <1>3, PTL DEF Parts

(* A task is said to have succeeded or failed for a cause, however often     *)
(* its event is delivered and whatever mutations fail (executeTask).         *)
THEOREM StateHasCauseHolds == Parts => []StateHasCause
<1> DEFINE Inv == part = "tasks" => TaskInv
<1>1. InitPart => Inv
  BY TaskInit DEF InitPart
<1>2. Inv /\ [NextPart]_allVars => Inv'
  BY TaskStep, PartSteps
<1>3. Inv => StateHasCause
  BY TaskImplies DEF StateHasCause
<1> QED
  BY <1>1, <1>2, <1>3, PTL DEF Parts

(* A restore of the goal cache gets the whole archive of one put, or its     *)
(* listeners for misses are told, or tar was stopped half way, which nobody  *)
(* notices; the goal's data name what was stored, for any number of entries, *)
(* puts and restores (goalCaching, CompressingGoalCache).                    *)
THEOREM RestoredOrMissedHolds == Parts => []RestoredOrMissed
<1> DEFINE Inv == part = "cache" => CacheInv
<1>1. InitPart => Inv
  BY CacheInit DEF InitPart
<1>2. Inv /\ [NextPart]_allVars => Inv'
  BY CacheStep, PartSteps
<1>3. Inv => RestoredOrMissed
  BY CacheImplies DEF RestoredOrMissed
<1> QED
  BY <1>1, <1>2, <1>3, PTL DEF Parts

(* A goal on Docker succeeds only when its main container did, and only a    *)
(* container that was not running when it was to be killed, or whose kill    *)
(* failed, outlives it, for any number of containers and executions          *)
(* (executeDockerJob).                                                       *)
THEOREM NoneForgottenHolds == Parts => []NoneForgotten
<1> DEFINE Inv == part = "docker" => DockerInv
<1>1. InitPart => Inv
  BY DockerInit DEF InitPart
<1>2. Inv /\ [NextPart]_allVars => Inv'
  BY DockerStep, PartSteps
<1>3. Inv => NoneForgotten
  BY DockerImplies DEF NoneForgotten
<1> QED
  BY <1>1, <1>2, <1>3, PTL DEF Parts

(* Storing a rejected goal is not answered with another rejection, for all   *)
(* configurations of the SDMs, and an SDM rejects nothing that it got as an  *)
(* SDM it trusts has stored it (verifyGoal, rejectGoal).                     *)
THEOREM RejectionsDoNotCascadeHolds == Parts => []RejectionsDoNotCascade
<1> DEFINE Inv == part = "signing" => SigningInv
<1>1. InitPart => Inv
  BY SigningInit DEF InitPart
<1>2. Inv /\ [NextPart]_allVars => Inv'
  BY SigningStep, PartSteps
<1>3. Inv => RejectionsDoNotCascade
  BY SigningImplies DEF RejectionsDoNotCascade
<1> QED
  BY <1>1, <1>2, <1>3, PTL DEF Parts

(* When the command to cancel all goal sets is done, every goal of those   *)
(* that were pending when it began has ended since, unless a pass of the   *)
(* trigger hid its goal set from the command's pages, for any number of    *)
(* goal sets, goals, passes and page sizes and any moves of the goals that *)
(* leave succeeded what succeeded (cancelGoalSetsCommand, manageGoalSets). *)
THEOREM CancelEndsGoalsHolds == Parts => []CancelEndsGoals
<1> DEFINE Inv == part = "goal sets" => GoalSetsInv
<1>1. InitPart => Inv
  BY GoalSetsInit DEF InitPart
<1>2. Inv /\ [NextPart]_allVars => Inv'
  BY GoalSetsStep, PartSteps
<1>3. Inv => CancelEndsGoals
  BY GoalSetsImplies DEF CancelEndsGoals
<1> QED
  BY <1>1, <1>2, <1>3, PTL DEF Parts

(* No sidecar is killed while the main container may need it, and a miss of   *)
(* the cache has a cause, in every step (executeDockerJob, goalCaching).      *)
THEOREM StepsHaveCauseHolds == Parts => StepsHaveCause
<1> DEFINE Inv == (part = "docker" => DockerInv) /\ (part = "cache" => CacheInv)
<1>1. InitPart => Inv
  BY DockerInit, CacheInit DEF InitPart
<1>2. Inv /\ [NextPart]_allVars => Inv'
  BY DockerStep, CacheStep, PartSteps
<1>3. Inv /\ [NextPart]_allVars => [part = "docker" => DJ!KillsInTime]_DockerVars
  BY DockerKills
<1>4. Inv /\ [NextPart]_allVars => [part = "cache" => GC!MissesForCause]_CacheVars
  BY CacheMisses, PartSteps
<1> QED
  BY <1>1, <1>2, <1>3, <1>4, PTL DEF Parts, StepsHaveCause
=============================================================================
