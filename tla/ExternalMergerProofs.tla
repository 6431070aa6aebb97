------------------------ MODULE ExternalMergerProofs ------------------------
(***************************************************************************)
(* Theorems about ExternalMerger, for any input, any number of partitions  *)
(* and however the memory reads.                                           *)
(***************************************************************************)
EXTENDS ExternalMerger, SequenceTheorems, TLAPS

-----------------------------------------------------------------------------
(***************************************************************************)
(* Dicts.  What a dict in memory or in a file holds is a stretch of the    *)
(* input: the values of the items a + 1 to b, for the keys of a set K.     *)
(* Merging the dicts of two adjacent stretches gives the dict of both.     *)
(***************************************************************************)
At(its, k, a, b) == {i \in (a + 1)..b : its[i][1] = k}
Vals(its) == {its[i][2] : i \in 1..Len(its)}

(* s lists the values of k among the items a + 1 to b, in their order.     *)
Segment(its, s, k, a, b) ==
  \E at \in [1..Len(s) -> At(its, k, a, b)] :
    /\ \A i, j \in 1..Len(s) : i < j => at[i] < at[j]
    /\ \A p \in At(its, k, a, b) : \E i \in 1..Len(s) : at[i] = p
    /\ \A i \in 1..Len(s) : s[i] = its[at[i]][2]

DictOf(its, d, K, a, b) ==
  /\ d \in [{k \in K : At(its, k, a, b) # {}} -> Seq(Vals(its))]
  /\ \A k \in DOMAIN d : Segment(its, d[k], k, a, b)

LEMMA AtSplit ==
  ASSUME NEW its, NEW k, NEW a \in Nat, NEW b \in Nat, NEW c \in Nat, a <= b, b <= c
  PROVE  /\ At(its, k, a, c) = At(its, k, a, b) \union At(its, k, b, c)
         /\ \A i \in At(its, k, a, b), j \in At(its, k, b, c) : i < j
  BY DEF At

LEMMA SegmentConcat ==
  ASSUME NEW its, NEW k, NEW a \in Nat, NEW b \in Nat, NEW c \in Nat, a <= b, b <= c,
         NEW S, NEW s \in Seq(S), NEW t \in Seq(S),
         Segment(its, s, k, a, b), Segment(its, t, k, b, c)
  PROVE  Segment(its, s \o t, k, a, c)
  <1> DEFINE u == s \o t
             A == At(its, k, a, b)
             B == At(its, k, b, c)
             C == At(its, k, a, c)
  <1>1. C = A \union B /\ \A i \in A, j \in B : i < j
    BY AtSplit
  <1>2. PICK f \in [1..Len(s) -> A] :
               /\ \A i, j \in 1..Len(s) : i < j => f[i] < f[j]
               /\ \A p \in A : \E i \in 1..Len(s) : f[i] = p
               /\ \A i \in 1..Len(s) : s[i] = its[f[i]][2]
    BY DEF Segment
  <1>3. PICK g \in [1..Len(t) -> B] :
               /\ \A i, j \in 1..Len(t) : i < j => g[i] < g[j]
               /\ \A p \in B : \E i \in 1..Len(t) : g[i] = p
               /\ \A i \in 1..Len(t) : t[i] = its[g[i]][2]
    BY DEF Segment
  <1>4. /\ Len(s) \in Nat /\ Len(t) \in Nat /\ Len(u) = Len(s) + Len(t)
        /\ \A i \in 1..Len(s) : u[i] = s[i]
        /\ \A i \in 1..Len(t) : u[Len(s) + i] = t[i]
    OBVIOUS
  <1> DEFINE h == [i \in 1..Len(u) |-> IF i <= Len(s) THEN f[i] ELSE g[i - Len(s)]]
  <1> HIDE DEF u, A, B, C
  <1>5. \A i \in 1..Len(u) :
          \/ i \in 1..Len(s)
          \/ i - Len(s) \in 1..Len(t) /\ i = Len(s) + (i - Len(s)) /\ ~(i <= Len(s))
    BY <1>4
  <1>6. /\ \A i \in 1..Len(s) : i \in 1..Len(u) /\ h[i] = f[i]
        /\ \A i \in 1..Len(t) : Len(s) + i \in 1..Len(u) /\ h[Len(s) + i] = g[i]
    <2>1. \A i \in 1..Len(s) : i \in 1..Len(u) /\ i <= Len(s)
      BY <1>4
    <2>2. \A i \in 1..Len(t) :
            /\ Len(s) + i \in 1..Len(u) /\ ~(Len(s) + i <= Len(s))
            /\ (Len(s) + i) - Len(s) = i
      BY <1>4
    <2> QED
      BY <2>1, <2>2
  <1>7. h \in [1..Len(u) -> C]
    BY <1>1, <1>2, <1>3, <1>5
  <1> HIDE DEF h
  <1>8. ASSUME NEW i \in 1..Len(u), NEW j \in 1..Len(u), i < j
        PROVE  h[i] < h[j]
    <2>1. CASE j \in 1..Len(s)
      <3>1. i \in 1..Len(s)
        BY <1>4, <1>8, <2>1
      <3> QED
        BY <1>2, <1>6, <1>8, <2>1, <3>1
    <2>2. CASE i \in 1..Len(s) /\ j - Len(s) \in 1..Len(t)
      <3>1. h[i] = f[i] /\ f[i] \in A
        BY <1>2, <1>6, <2>2
      <3>2. h[j] = g[j - Len(s)] /\ g[j - Len(s)] \in B
        <4>1. j = Len(s) + (j - Len(s))
          BY <1>4
        <4> QED
          BY <1>3, <1>6, <2>2, <4>1
      <3> QED
        BY <1>1, <3>1, <3>2
    <2>3. CASE i - Len(s) \in 1..Len(t) /\ j - Len(s) \in 1..Len(t)
      <3>1. i = Len(s) + (i - Len(s)) /\ j = Len(s) + (j - Len(s)) /\ i - Len(s) < j - Len(s)
        BY <1>4, <1>8
      <3>2. h[i] = g[i - Len(s)] /\ h[j] = g[j - Len(s)]
        BY <1>6, <2>3, <3>1
      <3> QED
        BY <1>3, <2>3, <3>1, <3>2
    <2>4. j \in 1..Len(s) \/ j - Len(s) \in 1..Len(t)
      BY <1>5
    <2>5. i \in 1..Len(s) \/ i - Len(s) \in 1..Len(t)
      BY <1>5
    <2> QED
      BY <2>1, <2>2, <2>3, <2>4, <2>5
  <1>9. ASSUME NEW p \in C
        PROVE  \E i \in 1..Len(u) : h[i] = p
    <2>1. CASE p \in A
      <3>1. PICK i \in 1..Len(s) : f[i] = p
        BY <1>2, <2>1
      <3> QED
        BY <1>6, <3>1
    <2>2. CASE p \in B
      <3>1. PICK i \in 1..Len(t) : g[i] = p
        BY <1>3, <2>2
      <3>2. Len(s) + i \in 1..Len(u) /\ h[Len(s) + i] = p
        BY <1>6, <3>1
      <3> QED
        BY <3>2
    <2> QED
      BY <1>1, <2>1, <2>2
  <1>10. ASSUME NEW i \in 1..Len(u)
         PROVE  u[i] = its[h[i]][2]
    <2>1. CASE i \in 1..Len(s)
      BY <1>2, <1>4, <1>6, <2>1
    <2>2. CASE i - Len(s) \in 1..Len(t)
      <3>1. i = Len(s) + (i - Len(s))
        BY <1>4
      <3>2. u[i] = t[i - Len(s)] /\ h[i] = g[i - Len(s)]
        BY <1>4, <1>6, <2>2, <3>1
      <3> QED
        BY <1>3, <2>2, <3>2
    <2> QED
      BY <1>5, <2>1, <2>2
  <1> QED
    BY <1>7, <1>8, <1>9, <1>10 DEF Segment, u, C

LEMMA SegmentEmpty ==
  ASSUME NEW its, NEW k, NEW a, NEW b, At(its, k, a, b) = {}
  PROVE  Segment(its, <<>>, k, a, b)
  <1>1. <<>> \in [1..Len(<<>>) -> At(its, k, a, b)]
    OBVIOUS
  <1> QED
    BY <1>1 DEF Segment

(* The value a dict has for a key of K, or the empty list.                 *)
LEMMA ValueSegment ==
  ASSUME NEW its, NEW d, NEW K, NEW a, NEW b, DictOf(its, d, K, a, b), NEW k \in K
  PROVE  Value(d, k) \in Seq(Vals(its)) /\ Segment(its, Value(d, k), k, a, b)
  <1>1. CASE k \in DOMAIN d
    BY <1>1 DEF DictOf, Value
  <1>2. CASE k \notin DOMAIN d
    <2>1. At(its, k, a, b) = {}
      BY <1>2 DEF DictOf
    <2>2. Value(d, k) = <<>>
      BY <1>2 DEF Value
    <2> QED
      BY <2>1, <2>2, SegmentEmpty
  <1> QED
    BY <1>1, <1>2

LEMMA DictMerge ==
  ASSUME NEW its, NEW K, NEW a \in Nat, NEW b \in Nat, NEW c \in Nat, a <= b, b <= c,
         NEW d, NEW e, DictOf(its, d, K, a, b), DictOf(its, e, K, b, c)
  PROVE  DictOf(its, MergeDicts(d, e), K, a, c)
  <1> DEFINE m == MergeDicts(d, e)
  <1>1. \A k : At(its, k, a, c) = At(its, k, a, b) \union At(its, k, b, c)
    BY AtSplit
  <1>2. DOMAIN d \union DOMAIN e = {k \in K : At(its, k, a, c) # {}}
    BY <1>1 DEF DictOf
  <1>3. ASSUME NEW k \in DOMAIN d \union DOMAIN e
        PROVE  /\ Value(d, k) \o Value(e, k) \in Seq(Vals(its))
               /\ Segment(its, Value(d, k) \o Value(e, k), k, a, c)
    <2>1. k \in K
      BY <1>2
    <2>2. /\ Value(d, k) \in Seq(Vals(its)) /\ Segment(its, Value(d, k), k, a, b)
          /\ Value(e, k) \in Seq(Vals(its)) /\ Segment(its, Value(e, k), k, b, c)
      BY <2>1, ValueSegment
    <2>3. Value(d, k) \o Value(e, k) \in Seq(Vals(its))
      BY <2>2, ConcatProperties
    <2> QED
      BY <2>2, <2>3, SegmentConcat
  <1>4. /\ m \in [DOMAIN d \union DOMAIN e -> Seq(Vals(its))]
        /\ \A k \in DOMAIN d \union DOMAIN e : m[k] = Value(d, k) \o Value(e, k)
    BY <1>3 DEF MergeDicts
  <1> HIDE DEF m
  <1>5. DOMAIN m = DOMAIN d \union DOMAIN e
    BY <1>4
  <1>6. m \in [{k \in K : At(its, k, a, c) # {}} -> Seq(Vals(its))]
    BY <1>2, <1>4
  <1>7. \A k \in DOMAIN m : Segment(its, m[k], k, a, c)
    BY <1>3, <1>4, <1>5
  <1> QED
    BY <1>6, <1>7 DEF DictOf, m

(* The part of a dict with the keys of a smaller set.                      *)
LEMMA DictRestrict ==
  ASSUME NEW its, NEW d, NEW K, NEW a, NEW b, DictOf(its, d, K, a, b), NEW J \in SUBSET K
  PROVE  DictOf(its, [k \in {k \in DOMAIN d : k \in J} |-> d[k]], J, a, b)
  <1>1. {k \in DOMAIN d : k \in J} = {k \in J : At(its, k, a, b) # {}}
    BY DEF DictOf
  <1>2. \A k \in DOMAIN d : d[k] \in Seq(Vals(its)) /\ Segment(its, d[k], k, a, b)
    BY DEF DictOf
  <1> QED
    BY <1>1, <1>2 DEF DictOf

LEMMA DictEmpty ==
  ASSUME NEW its, NEW K, NEW a, NEW b
  PROVE  DictOf(its, Empty, K, a, b) <=> \A k \in K : At(its, k, a, b) = {}
  <1>1. ASSUME \A k \in K : At(its, k, a, b) = {}
        PROVE  DictOf(its, Empty, K, a, b)
    <2>1. {k \in K : At(its, k, a, b) # {}} = {}
      BY <1>1
    <2>2. Empty \in [{} -> Seq(Vals(its))] /\ DOMAIN Empty = {}
      BY DEF Empty
    <2> QED
      BY <2>1, <2>2 DEF DictOf
  <1>2. ASSUME DictOf(its, Empty, K, a, b)
        PROVE  \A k \in K : At(its, k, a, b) = {}
    <2>1. DOMAIN Empty = {}
      BY DEF Empty
    <2> QED
      BY <1>2, <2>1 DEF DictOf
  <1> QED
    BY <1>1, <1>2

LEMMA AtNone ==
  ASSUME NEW its, NEW k, NEW a \in Nat
  PROVE  At(its, k, a, a) = {}
  BY DEF At

(* No item of K comes after b.                                             *)
LEMMA DictExtend ==
  ASSUME NEW its, NEW d, NEW K, NEW a \in Nat, NEW b \in Nat, NEW c \in Nat, a <= b, b <= c,
         DictOf(its, d, K, a, b), \A k \in K : At(its, k, b, c) = {}
  PROVE  DictOf(its, d, K, a, c)
  <1>1. \A k \in K : At(its, k, a, c) = At(its, k, a, b)
    BY AtSplit
  <1>2. {k \in K : At(its, k, a, c) # {}} = {k \in K : At(its, k, a, b) # {}}
    BY <1>1
  <1>3. \A k \in DOMAIN d : k \in K
    BY DEF DictOf
  <1> QED
    BY <1>1, <1>2, <1>3 DEF DictOf, Segment

-----------------------------------------------------------------------------
(***************************************************************************)
(* One merger.                                                             *)
(***************************************************************************)
Dicts(its) == UNION {[K -> Seq(Vals(its))] : K \in SUBSET Keys}

MergerSet(its) ==
  [data : Dicts(its), pdata : {Empty} \union [Parts -> Dicts(its)], spills : Nat,
   hash : Hashes, scale : Nat, index : 0..Partitions, next : Nat, fill : BOOLEAN]

(* The keys of K in partition p.                                           *)
Part(m, K, p) == {k \in K : m.hash[k] = p}

(* What a merger that collects items has in memory: those after the last   *)
(* spill, up to e.  c[s] is where the s-th spill ended.                    *)
Memory(its, m, K, c, e) ==
  /\ c[m.spills] <= e
  /\ \/ m.pdata = Empty /\ m.spills = 0 /\ DictOf(its, m.data, K, 0, e)
     \/ /\ m.pdata # Empty /\ m.data = Empty
        /\ \A p \in Parts : DictOf(its, m.pdata[p], Part(m, K, p), c[m.spills], e)

Cuts(its, m, c) ==
  /\ c \in [Nat -> Nat]
  /\ c[0] = 0
  /\ \A s \in 0..(m.spills - 1) : c[s] <= c[s + 1]
  /\ \A s \in 0..m.spills : c[s] <= Len(its)

(* Its files: a spill has one for each partition not handed out yet.       *)
OnDisk(its, fs, dir, m, K, c) ==
  \A s \in 0..(m.spills - 1), p \in m.index..(Partitions - 1) :
    /\ <<dir, s, p>> \in DOMAIN fs
    /\ DictOf(its, fs[<<dir, s, p>>], Part(m, K, p), c[s], c[s + 1])

LEMMA PartsFacts ==
  /\ Partitions \in Nat \ {0} /\ 0 \in Parts
  /\ \A p \in Parts : p \in Nat /\ p < Partitions
  /\ \A p \in 0..(Partitions - 1) : p \in Parts
  BY ExternalMergerAssumption DEF Parts

LEMMA EmptyFacts ==
  ASSUME NEW its
  PROVE  /\ Empty \in Dicts(its)
         /\ NoDicts \in [Parts -> Dicts(its)] /\ \A p \in Parts : NoDicts[p] = Empty
         /\ \A f \in [Parts -> Dicts(its)] : f # Empty
  <1>1. Empty \in [{} -> Seq(Vals(its))]
    BY DEF Empty
  <1>2. Empty \in Dicts(its)
    BY <1>1 DEF Dicts
  <1>3. \A f \in [Parts -> Dicts(its)] : f # Empty
    BY PartsFacts DEF Empty
  <1> QED
    BY <1>2, <1>3 DEF NoDicts

LEMMA DictType ==
  ASSUME NEW its, NEW K \in SUBSET Keys, NEW d, NEW a, NEW b, DictOf(its, d, K, a, b)
  PROVE  d \in Dicts(its)
  BY DEF DictOf, Dicts

LEMMA MergeDictsType ==
  ASSUME NEW its, NEW d \in Dicts(its), NEW e \in Dicts(its)
  PROVE  MergeDicts(d, e) \in Dicts(its)
  <1>1. PICK J \in SUBSET Keys : d \in [J -> Seq(Vals(its))]
    BY DEF Dicts
  <1>2. PICK L \in SUBSET Keys : e \in [L -> Seq(Vals(its))]
    BY DEF Dicts
  <1>3. \A k : Value(d, k) \in Seq(Vals(its)) /\ Value(e, k) \in Seq(Vals(its))
    BY <1>1, <1>2, EmptySeq DEF Value
  <1>4. \A k : Value(d, k) \o Value(e, k) \in Seq(Vals(its))
    BY <1>3, ConcatProperties
  <1>5. MergeDicts(d, e) \in [J \union L -> Seq(Vals(its))]
    BY <1>1, <1>2, <1>4 DEF MergeDicts
  <1> QED
    BY <1>5 DEF Dicts

LEMMA FilterType ==
  ASSUME NEW its, NEW d \in Dicts(its), NEW S
  PROVE  [k \in {k \in DOMAIN d : k \in S} |-> d[k]] \in Dicts(its)
  <1>1. PICK J \in SUBSET Keys : d \in [J -> Seq(Vals(its))]
    BY DEF Dicts
  <1>2. [k \in {k \in DOMAIN d : k \in S} |-> d[k]] \in [J \intersect S -> Seq(Vals(its))]
    BY <1>1
  <1> QED
    BY <1>2 DEF Dicts

(* The fields a merge leaves alone, and those it does not.                 *)
Same(m, n) ==
  /\ m.spills = n.spills /\ m.hash = n.hash /\ m.scale = n.scale
  /\ m.index = n.index /\ m.next = n.next /\ m.fill = n.fill

Chosen(m, d, p) == [k \in {k \in DOMAIN d : m.hash[k] = p} |-> d[k]]

LEMMA ChosenType ==
  ASSUME NEW its, NEW d \in Dicts(its), NEW m, NEW p
  PROVE  Chosen(m, d, p) \in Dicts(its)
  <1> DEFINE S == {k \in DOMAIN d : m.hash[k] = p}
  <1>1. {k \in DOMAIN d : m.hash[k] = p} = {k \in DOMAIN d : k \in S}
    OBVIOUS
  <1> QED
    BY <1>1, FilterType DEF Chosen

LEMMA MergeIntoFacts ==
  ASSUME NEW its, NEW m \in MergerSet(its), NEW d \in Dicts(its)
  PROVE  /\ MergeInto(m, d) \in MergerSet(its)
         /\ Same(MergeInto(m, d), m)
         /\ m.pdata = Empty => /\ MergeInto(m, d).pdata = Empty
                               /\ MergeInto(m, d).data = MergeDicts(m.data, d)
         /\ m.pdata # Empty =>
              /\ MergeInto(m, d).pdata # Empty
              /\ MergeInto(m, d).data = m.data
              /\ \A p \in Parts :
                   MergeInto(m, d).pdata[p] = MergeDicts(m.pdata[p], Chosen(m, d, p))
  <1>1. CASE m.pdata = Empty
    <2>1. MergeInto(m, d) = [m EXCEPT !.data = MergeDicts(m.data, d)]
      BY <1>1 DEF MergeInto
    <2>2. MergeDicts(m.data, d) \in Dicts(its)
      BY MergeDictsType DEF MergerSet
    <2> QED
      BY <1>1, <2>1, <2>2 DEF MergerSet, Same
  <1>2. CASE m.pdata # Empty
    <2> DEFINE pd == [p \in Parts |-> MergeDicts(m.pdata[p], Chosen(m, d, p))]
    <2>1. MergeInto(m, d) = [m EXCEPT !.pdata = pd]
      BY <1>2 DEF MergeInto, Chosen
    <2>2. m.pdata \in [Parts -> Dicts(its)]
      BY <1>2 DEF MergerSet
    <2>3. pd \in [Parts -> Dicts(its)]
      BY <2>2, ChosenType, MergeDictsType
    <2>4. pd # Empty /\ \A p \in Parts : pd[p] = MergeDicts(m.pdata[p], Chosen(m, d, p))
      BY <2>3, EmptyFacts
    <2> HIDE DEF pd
    <2> QED
      BY <1>2, <2>1, <2>3, <2>4 DEF MergerSet, Same
  <1> QED
    BY <1>1, <1>2

(* Collecting one more stretch.                                            *)
LEMMA Collect ==
  ASSUME NEW its, NEW m \in MergerSet(its), NEW K \in SUBSET Keys, NEW c \in [Nat -> Nat],
         NEW a \in Nat, NEW b \in Nat, a <= b, c[0] = 0,
         Memory(its, m, K, c, a), NEW d, DictOf(its, d, K, a, b)
  PROVE  Memory(its, MergeInto(m, d), K, c, b)
  <1> DEFINE r == MergeInto(m, d)
  <1>0. d \in Dicts(its)
    BY DictType
  <1>1. /\ r.spills = m.spills /\ r.hash = m.hash
        /\ m.pdata = Empty => r.pdata = Empty /\ r.data = MergeDicts(m.data, d)
        /\ m.pdata # Empty =>
              /\ r.pdata # Empty /\ r.data = m.data
              /\ \A p \in Parts : r.pdata[p] = MergeDicts(m.pdata[p], Chosen(m, d, p))
    BY <1>0, MergeIntoFacts DEF Same
  <1> HIDE DEF r
  <1>2. m.spills \in Nat /\ c[m.spills] \in Nat /\ c[m.spills] <= a
    BY DEF MergerSet, Memory
  <1>3. CASE m.pdata = Empty
    <2>1. m.spills = 0 /\ DictOf(its, m.data, K, 0, a)
      BY <1>3 DEF Memory
    <2>2. DictOf(its, MergeDicts(m.data, d), K, 0, b)
      BY <2>1, DictMerge
    <2> QED
      BY <1>1, <1>2, <1>3, <2>1, <2>2 DEF Memory, r
  <1>4. CASE m.pdata # Empty
    <2>1. ASSUME NEW p \in Parts
          PROVE  DictOf(its, r.pdata[p], Part(r, K, p), c[m.spills], b)
      <3>1. DictOf(its, m.pdata[p], Part(m, K, p), c[m.spills], a)
        BY <1>4 DEF Memory
      <3>2. Part(m, K, p) \subseteq K /\ Part(r, K, p) = Part(m, K, p)
        BY <1>1 DEF Part
      <3>3. {k \in DOMAIN d : m.hash[k] = p} = {k \in DOMAIN d : k \in Part(m, K, p)}
        BY DEF DictOf, Part
      <3>4. DictOf(its, Chosen(m, d, p), Part(m, K, p), a, b)
        BY <3>2, <3>3, DictRestrict DEF Chosen
      <3>5. DictOf(its, MergeDicts(m.pdata[p], Chosen(m, d, p)), Part(m, K, p), c[m.spills], b)
        BY <1>2, <3>1, <3>4, DictMerge
      <3> QED
        BY <1>1, <1>4, <3>2, <3>5
    <2>2. m.data = Empty
      BY <1>4 DEF Memory
    <2> QED
      BY <1>1, <1>2, <1>4, <2>1, <2>2 DEF Memory, r
  <1> QED
    BY <1>3, <1>4

(* What a spill writes for partition p.                                    *)
LEMMA DumpedDict ==
  ASSUME NEW its, NEW m \in MergerSet(its), NEW K \in SUBSET Keys, NEW c, c[0] = 0,
         NEW e, Memory(its, m, K, c, e), NEW p \in Parts
  PROVE  DictOf(its, Dumped(m, p), Part(m, K, p), c[m.spills], e)
  <1>1. CASE m.pdata = Empty
    <2>1. c[m.spills] = 0 /\ DictOf(its, m.data, K, 0, e)
      BY <1>1 DEF Memory
    <2>2. {k \in DOMAIN m.data : m.hash[k] = p} = {k \in DOMAIN m.data : k \in Part(m, K, p)}
      BY <2>1 DEF DictOf, Part
    <2>3. Part(m, K, p) \subseteq K
      BY DEF Part
    <2>4. DictOf(its, Dumped(m, p), Part(m, K, p), 0, e)
      BY <1>1, <2>1, <2>2, <2>3, DictRestrict DEF Dumped
    <2> QED
      BY <2>1, <2>4
  <1>2. CASE m.pdata # Empty
    BY <1>2 DEF Memory, Dumped
  <1> QED
    BY <1>1, <1>2

LEMMA SpilledFacts ==
  ASSUME NEW its, NEW m \in MergerSet(its)
  PROVE  /\ Spilled(m) \in MergerSet(its)
         /\ Spilled(m).data = Empty /\ Spilled(m).pdata = NoDicts
         /\ Spilled(m).spills = m.spills + 1
         /\ Spilled(m).hash = m.hash /\ Spilled(m).scale = m.scale
         /\ Spilled(m).index = m.index /\ Spilled(m).next = m.next
         /\ Spilled(m).fill = m.fill
  <1>1. Empty \in Dicts(its) /\ NoDicts \in {Empty} \union [Parts -> Dicts(its)]
    BY EmptyFacts
  <1>2. m.spills + 1 \in Nat
    BY DEF MergerSet
  <1>3. ASSUME NEW D, NEW P, NEW H, NEW I,
               NEW r \in [data : D, pdata : P, spills : Nat, hash : H, scale : Nat,
                          index : I, next : Nat, fill : BOOLEAN],
               NEW d \in D, NEW pd \in P, NEW q, r.spills + 1 \in Nat,
               q = [r EXCEPT !.data = d, !.pdata = pd, !.spills = r.spills + 1]
        PROVE  /\ q \in [data : D, pdata : P, spills : Nat, hash : H, scale : Nat,
                          index : I, next : Nat, fill : BOOLEAN]
               /\ q.data = d /\ q.pdata = pd /\ q.spills = r.spills + 1
               /\ q.hash = r.hash /\ q.scale = r.scale /\ q.index = r.index
               /\ q.next = r.next /\ q.fill = r.fill
    BY <1>3
  <1>4. Spilled(m) = [m EXCEPT !.data = Empty, !.pdata = NoDicts, !.spills = m.spills + 1]
    BY DEF Spilled
  <1> DEFINE q == Spilled(m)
  <1> HIDE DEF q
  <1>5. /\ q \in MergerSet(its)
        /\ q.data = Empty /\ q.pdata = NoDicts /\ q.spills = m.spills + 1
        /\ q.hash = m.hash /\ q.scale = m.scale /\ q.index = m.index
        /\ q.next = m.next /\ q.fill = m.fill
    <2>1. q = [m EXCEPT !.data = Empty, !.pdata = NoDicts, !.spills = m.spills + 1]
      BY <1>4 DEF q
    <2> QED
      BY <1>1, <1>2, <1>3, <2>1 DEF MergerSet
  <1> QED
    BY <1>5 DEF q

-----------------------------------------------------------------------------
(***************************************************************************)
(* The inductive invariant.  cut[n][s] is the item after which the s-th    *)
(* spill of the n-th merger ended: nothing in the state says it, but the   *)
(* files of a merger are the stretches between its cuts, a new merger gets *)
(* the keys of one partition of the one below it, and every stretch but    *)
(* what is in the memory of the last merger is in a file.                  *)
(***************************************************************************)
CutSet == [Nat -> [Nat -> Nat]]

Directory(ms, n) == [i \in 1..(n - 1) |-> ms[i].index]

(* The keys the n-th merger is about.                                      *)
Owned(ms, n) == {k \in Keys : \A i \in 1..(n - 1) : ms[i].hash[k] = ms[i].index}

Stored(its, ms, fs, cut, n) ==
  /\ Cuts(its, ms[n], cut[n])
  /\ OnDisk(its, fs, Directory(ms, n), ms[n], Owned(ms, n), cut[n])

AllMergers(its, ms, L) == \A n \in 1..L : ms[n] \in MergerSet(its)
AllStored(its, ms, fs, cut, L) == \A n \in 1..L : Stored(its, ms, fs, cut, n)

(* Every item of the keys K is in a file of m.                             *)
Silent(its, m, K, c) ==
  m.pdata = Empty /\ \A k \in K : At(its, k, c[m.spills], Len(its)) = {}

(* A merger that waits for the one above it to yield its partition.        *)
Waiting(its, ms, cut, n) ==
  /\ ms[n].index < Partitions
  /\ ~ms[n].fill
  /\ Silent(its, ms[n], Owned(ms, n), cut[n])

AllWaiting(its, ms, cut, L) == \A n \in 1..(L - 1) : Waiting(its, ms, cut, n)

(* The last merger reads the files of a partition ...                      *)
Reading(its, m, K, c) ==
  /\ ~m.fill
  /\ m.next <= m.spills
  /\ Silent(its, m, K, c)
  /\ DictOf(its, m.data, Part(m, K, m.index), 0, c[m.next])

(* ... or still collects those of the merger below.                        *)
Filling(its, ms, cut, n) ==
  /\ n > 1
  /\ ms[n].fill /\ ms[n].index = 0 /\ ms[n].pdata # Empty
  /\ ms[n].next <= ms[n - 1].spills
  /\ Memory(its, ms[n], Owned(ms, n), cut[n], cut[n - 1][ms[n].next])

Collecting(its, ms, fs, cut, p) ==
  /\ Len(ms) = 1 /\ ms[1].index = 0 /\ ~ms[1].fill
  /\ Memory(its, ms[1], Keys, cut[1], p)
  /\ ms[1].spills = 0 => fs = Empty

Yielding(its, ms, cut) ==
  /\ AllWaiting(its, ms, cut, Len(ms))
  /\ Reading(its, ms[Len(ms)], Owned(ms, Len(ms)), cut[Len(ms)]) \/ Filling(its, ms, cut, Len(ms))

(* The keys of the partitions that are through.                            *)
HandedOut(its, ms) ==
  {k \in Keys : /\ At(its, k, 0, Len(its)) # {}
                /\ \E n \in 1..Len(ms) : k \in Owned(ms, n) /\ ms[n].hash[k] < ms[n].index}

AllKeys(its) == {k \in Keys : At(its, k, 0, Len(its)) # {}}

(* ys hands out the keys K, each once and with all its values.             *)
Complete(its, ys, K) ==
  /\ \A i \in 1..Len(ys) : \A k \in DOMAIN ys[i] : Segment(its, ys[i][k], k, 0, Len(its))
  /\ \A i, j \in 1..Len(ys) : i # j => DOMAIN ys[i] \intersect DOMAIN ys[j] = {}
  /\ UNION {DOMAIN ys[i] : i \in 1..Len(ys)} = K

TypeOK ==
  /\ items \in Inputs
  /\ pos \in 0..Len(items)
  /\ pc \in {"merging", "items", "yielding", "done", "closed", "unread"}
  /\ mergers \in Seq(MergerSet(items)) /\ Len(mergers) > 0
  /\ yielded \in Seq(Dicts(items))

Contents(cut) ==
  /\ pc \in {"merging", "items", "yielding"} =>
       AllStored(items, mergers, files, cut, Len(mergers))
  /\ pc \in {"merging", "items"} => Collecting(items, mergers, files, cut, pos)
  /\ pc = "yielding" => Yielding(items, mergers, cut)

Outcome ==
  /\ pc \in {"merging", "items", "unread"} => yielded = <<>>
  /\ pc = "items" => pos = Len(items)
  /\ pc = "yielding" => Complete(items, yielded, HandedOut(items, mergers))
  /\ pc = "done" => Complete(items, yielded, AllKeys(items))
  /\ pc = "closed" => \E K \in SUBSET Keys : Complete(items, yielded, K)
  /\ DiskClean

IInv == TypeOK /\ Outcome /\ \E cut \in CutSet : Contents(cut)

-----------------------------------------------------------------------------
(***************************************************************************)
(* The mergers above each other, and their files.                          *)
(***************************************************************************)
LEMMA ReplaceTop ==
  ASSUME NEW S, NEW s \in Seq(S), Len(s) > 0, NEW e \in S, NEW t, t = [s EXCEPT ![Len(s)] = e]
  PROVE  /\ t \in Seq(S) /\ Len(t) = Len(s) /\ t[Len(s)] = e
         /\ \A i \in 1..Len(s) : i # Len(s) => t[i] = s[i]
  OBVIOUS

LEMMA OwnedNext ==
  ASSUME NEW ms, NEW n \in Nat \ {0}
  PROVE  Owned(ms, n + 1) = Part(ms[n], Owned(ms, n), ms[n].index)
  <1>1. (n + 1) - 1 = n /\ \A i : i \in 1..n <=> i \in 1..(n - 1) \/ i = n
    OBVIOUS
  <1> QED
    BY <1>1 DEF Owned, Part

LEMMA OwnedBelow ==
  ASSUME NEW ms, NEW n \in Nat \ {0}, NEW j \in 1..n
  PROVE  Owned(ms, n) \subseteq Owned(ms, j)
  <1>1. \A i \in 1..(j - 1) : i \in 1..(n - 1)
    OBVIOUS
  <1> QED
    BY <1>1 DEF Owned

LEMMA OwnedFirst == \A ms : Owned(ms, 1) = Keys
  BY DEF Owned

LEMMA OwnedKeys == \A ms, n : Owned(ms, n) \in SUBSET Keys
  BY DEF Owned

(* Directory and keys of a merger depend on those below it alone.          *)
LEMMA SameLevels ==
  ASSUME NEW ms, NEW rs, NEW n,
         \A i \in 1..(n - 1) : rs[i].hash = ms[i].hash /\ rs[i].index = ms[i].index
  PROVE  Owned(rs, n) = Owned(ms, n) /\ Directory(rs, n) = Directory(ms, n)
  BY DEF Owned, Directory

LEMMA OtherDirectory ==
  ASSUME NEW ms, NEW rs, NEW n \in Nat \ {0}, NEW j \in Nat \ {0}, n # j
  PROVE  Directory(ms, n) # Directory(rs, j)
  <1>1. DOMAIN Directory(ms, n) = 1..(n - 1) /\ DOMAIN Directory(rs, j) = 1..(j - 1)
    BY DEF Directory
  <1>2. 1..(n - 1) # 1..(j - 1)
    <2>1. CASE n < j
      <3>1. n \in 1..(j - 1) /\ n \notin 1..(n - 1)
        BY <2>1
      <3> QED
        BY <3>1
    <2>2. CASE j < n
      <3>1. j \in 1..(n - 1) /\ j \notin 1..(j - 1)
        BY <2>2
      <3> QED
        BY <3>1
    <2> QED
      BY <2>1, <2>2
  <1> QED
    BY <1>1, <1>2

(* A merger goes on, perhaps with fewer partitions left to hand out.       *)
LEMMA StoredKept ==
  ASSUME NEW its, NEW ms, NEW rs, NEW fs, NEW gs, NEW cut, NEW ds, NEW n,
         Stored(its, ms, fs, cut, n),
         \A i \in 1..(n - 1) : rs[i].hash = ms[i].hash /\ rs[i].index = ms[i].index,
         rs[n].hash = ms[n].hash, rs[n].spills = ms[n].spills,
         ms[n].index \in Nat, rs[n].index \in Nat, ms[n].index <= rs[n].index,
         ds[n] = cut[n],
         \A s \in 0..(ms[n].spills - 1), p \in rs[n].index..(Partitions - 1) :
           <<Directory(ms, n), s, p>> \in DOMAIN fs =>
             /\ <<Directory(ms, n), s, p>> \in DOMAIN gs
             /\ gs[<<Directory(ms, n), s, p>>] = fs[<<Directory(ms, n), s, p>>]
  PROVE  Stored(its, rs, gs, ds, n)
  <1>1. Owned(rs, n) = Owned(ms, n) /\ Directory(rs, n) = Directory(ms, n)
    BY SameLevels
  <1>2. Cuts(its, rs[n], ds[n])
    BY DEF Stored, Cuts
  <1>3. \A p \in rs[n].index..(Partitions - 1) : p \in ms[n].index..(Partitions - 1)
    BY PartsFacts
  <1>4. \A K, p : Part(rs[n], K, p) = Part(ms[n], K, p)
    BY DEF Part
  <1>5. OnDisk(its, gs, Directory(ms, n), rs[n], Owned(ms, n), cut[n])
    BY <1>3, <1>4 DEF Stored, OnDisk
  <1> QED
    BY <1>1, <1>2, <1>5 DEF Stored

(* The files after a spill of m into the directory dir.                    *)
NewFiles(dir, m) == {<<dir, m.spills, i>> : i \in Parts}
WithSpill(fs, dir, m) ==
  [f \in DOMAIN fs \union NewFiles(dir, m) |->
     IF f \in NewFiles(dir, m) THEN Dumped(m, f[3]) ELSE fs[f]]

LEMMA WithSpillFacts ==
  ASSUME NEW fs, NEW dir, NEW m
  PROVE  /\ \A p \in Parts : /\ <<dir, m.spills, p>> \in DOMAIN WithSpill(fs, dir, m)
                             /\ WithSpill(fs, dir, m)[<<dir, m.spills, p>>] = Dumped(m, p)
         /\ \A d, s, p : (d # dir \/ s # m.spills) /\ <<d, s, p>> \in DOMAIN fs =>
              /\ <<d, s, p>> \in DOMAIN WithSpill(fs, dir, m)
              /\ WithSpill(fs, dir, m)[<<d, s, p>>] = fs[<<d, s, p>>]
  <1>1. DOMAIN WithSpill(fs, dir, m) = DOMAIN fs \union NewFiles(dir, m)
    BY DEF WithSpill
  <1>2. ASSUME NEW p \in Parts
        PROVE  /\ <<dir, m.spills, p>> \in DOMAIN WithSpill(fs, dir, m)
               /\ WithSpill(fs, dir, m)[<<dir, m.spills, p>>] = Dumped(m, p)
    <2>1. <<dir, m.spills, p>> \in NewFiles(dir, m) /\ <<dir, m.spills, p>>[3] = p
      BY DEF NewFiles
    <2> QED
      BY <1>1, <2>1 DEF WithSpill
  <1>3. ASSUME NEW d, NEW s, NEW p, d # dir \/ s # m.spills, <<d, s, p>> \in DOMAIN fs
        PROVE  /\ <<d, s, p>> \in DOMAIN WithSpill(fs, dir, m)
               /\ WithSpill(fs, dir, m)[<<d, s, p>>] = fs[<<d, s, p>>]
    <2>1. <<d, s, p>> \notin NewFiles(dir, m)
      BY <1>3 DEF NewFiles
    <2> QED
      BY <1>1, <1>3, <2>1 DEF WithSpill
  <1> QED
    BY <1>2, <1>3

(* The cuts d are the cuts c with one more after the s-th, at e.           *)
Recut(d, c, s, e) ==
  d \in [Nat -> Nat] /\ d[s + 1] = e /\ \A i \in 0..s : d[i] = c[i]

LEMMA Upto ==
  ASSUME NEW s \in Nat
  PROVE  /\ 0 \in 0..s /\ s \in 0..s /\ (s + 1) - 1 = s
         /\ \A i \in 0..s : i = s \/ (i \in 0..(s - 1) /\ i + 1 \in 0..s)
         /\ \A i \in 0..(s - 1) : i \in 0..s
         /\ \A i \in 0..(s + 1) : i \in 0..s \/ i = s + 1
  OBVIOUS

LEMMA RecutFacts ==
  ASSUME NEW its, NEW c, NEW d, NEW m, NEW r, NEW e \in Nat, e <= Len(its),
         m.spills \in Nat, Cuts(its, m, c), c[m.spills] <= e,
         r.spills = m.spills + 1, Recut(d, c, m.spills, e)
  PROVE  Cuts(its, r, d)
  <1> DEFINE s == m.spills
  <1>1. /\ c[0] = 0 /\ \A i \in 0..(s - 1) : c[i] <= c[i + 1]
        /\ \A i \in 0..s : c[i] <= Len(its)
    BY DEF Cuts
  <1>2. /\ d \in [Nat -> Nat] /\ d[s + 1] = e /\ \A i \in 0..s : d[i] = c[i]
    BY DEF Recut
  <1>3. s \in Nat /\ c[s] <= e
    OBVIOUS
  <1> HIDE DEF s
  <1>4. /\ 0 \in 0..s /\ (s + 1) - 1 = s
        /\ \A i \in 0..s : i = s \/ (i \in 0..(s - 1) /\ i + 1 \in 0..s)
        /\ \A i \in 0..(s + 1) : i \in 0..s \/ i = s + 1
    BY <1>3, Upto
  <1>5. d[0] = 0
    BY <1>1, <1>2, <1>4
  <1>6. \A i \in 0..s : d[i] <= d[i + 1]
    BY <1>1, <1>2, <1>3, <1>4
  <1>7. \A i \in 0..(s + 1) : d[i] <= Len(its)
    BY <1>1, <1>2, <1>4
  <1>8. \A i \in 0..((s + 1) - 1) : d[i] <= d[i + 1]
    BY <1>4, <1>6
  <1> QED
    BY <1>2, <1>5, <1>7, <1>8 DEF Cuts, s

LEMMA OnDiskSpill ==
  ASSUME NEW its, NEW t, NEW m \in MergerSet(its), NEW r, NEW K \in SUBSET Keys,
         m.hash = t.hash, m.spills = t.spills, t.index = 0,
         r.hash = m.hash, r.spills = m.spills + 1, r.index = 0,
         NEW fs, NEW dir, NEW c, c[0] = 0, OnDisk(its, fs, dir, t, K, c),
         NEW e, Memory(its, m, K, c, e),
         NEW d, Recut(d, c, m.spills, e)
  PROVE  OnDisk(its, WithSpill(fs, dir, m), dir, r, K, d)
  <1> DEFINE gs == WithSpill(fs, dir, m)
  <1>1. m.spills \in Nat
    BY DEF MergerSet
  <1>2. \A p \in Parts : /\ <<dir, m.spills, p>> \in DOMAIN gs
                         /\ gs[<<dir, m.spills, p>>] = Dumped(m, p)
    BY WithSpillFacts
  <1>3. \A s, p : s # m.spills /\ <<dir, s, p>> \in DOMAIN fs =>
             <<dir, s, p>> \in DOMAIN gs /\ gs[<<dir, s, p>>] = fs[<<dir, s, p>>]
    BY WithSpillFacts
  <1>4. d[m.spills + 1] = e /\ \A i \in 0..m.spills : d[i] = c[i]
    BY DEF Recut
  <1> HIDE DEF gs
  <1> SUFFICES ASSUME NEW s \in 0..((m.spills + 1) - 1), NEW p \in 0..(Partitions - 1)
               PROVE  /\ <<dir, s, p>> \in DOMAIN gs
                      /\ DictOf(its, gs[<<dir, s, p>>], Part(r, K, p), d[s], d[s + 1])
    BY DEF OnDisk, gs
  <1>5. p \in Parts /\ Part(r, K, p) = Part(m, K, p) /\ Part(t, K, p) = Part(m, K, p)
    BY PartsFacts DEF Part
  <1>6. CASE s = m.spills
    <2>1. <<dir, s, p>> \in DOMAIN gs /\ gs[<<dir, s, p>>] = Dumped(m, p)
      BY <1>2, <1>5, <1>6
    <2>2. DictOf(its, Dumped(m, p), Part(m, K, p), c[m.spills], e)
      BY <1>5, DumpedDict
    <2>3. d[s] = c[m.spills] /\ d[s + 1] = e
      BY <1>1, <1>4, <1>6
    <2> QED
      BY <1>5, <2>1, <2>2, <2>3
  <1>7. CASE s # m.spills
    <2>1. s \in 0..(m.spills - 1) /\ s \in 0..m.spills /\ s + 1 \in 0..m.spills
      BY <1>1, <1>7
    <2>2. <<dir, s, p>> \in DOMAIN fs /\ DictOf(its, fs[<<dir, s, p>>], Part(t, K, p), c[s], c[s + 1])
      BY <2>1 DEF OnDisk
    <2>3. <<dir, s, p>> \in DOMAIN gs /\ gs[<<dir, s, p>>] = fs[<<dir, s, p>>]
      BY <1>3, <1>7, <2>2
    <2>4. d[s] = c[s] /\ d[s + 1] = c[s + 1]
      BY <1>4, <2>1
    <2> QED
      BY <1>5, <2>2, <2>3, <2>4
  <1> QED
    BY <1>6, <1>7

SameBelow(rs, ms, L) == \A i \in 1..(L - 1) : rs[i] = ms[i]

(* The last merger, the L-th, spills what it has collected.                *)
LEMMA StoredSpill ==
  ASSUME NEW its, NEW ms, NEW rs, NEW L \in Nat \ {0},
         AllMergers(its, ms, L), SameBelow(rs, ms, L),
         NEW fs, NEW cut, AllStored(its, ms, fs, cut, L),
         NEW m \in MergerSet(its), m.hash = ms[L].hash, m.spills = ms[L].spills,
         NEW e \in Nat, e <= Len(its), Memory(its, m, Owned(ms, L), cut[L], e),
         rs[L].hash = m.hash, rs[L].spills = m.spills + 1, rs[L].index = 0, ms[L].index = 0,
         NEW ds, SameBelow(ds, cut, L), Recut(ds[L], cut[L], m.spills, e)
  PROVE  AllStored(its, rs, WithSpill(fs, Directory(ms, L), m), ds, L)
  <1> DEFINE K == Owned(ms, L)
             D == Directory(ms, L)
             gs == WithSpill(fs, D, m)
  <1>1. Cuts(its, ms[L], cut[L]) /\ OnDisk(its, fs, D, ms[L], K, cut[L])
    BY DEF AllStored, Stored
  <1>2. K \in SUBSET Keys /\ Owned(rs, L) = K /\ Directory(rs, L) = D
    BY OwnedKeys, SameLevels DEF SameBelow
  <1>3. m.spills \in Nat
    BY DEF MergerSet
  <1>4. Cuts(its, m, cut[L]) /\ cut[L][0] = 0
    BY <1>1 DEF Cuts
  <1>5. cut[L][m.spills] <= e
    BY DEF Memory
  <1> HIDE DEF gs, K, D
  <1>6. Cuts(its, rs[L], ds[L])
    BY <1>3, <1>4, <1>5, RecutFacts
  <1>7. OnDisk(its, gs, D, rs[L], K, ds[L])
    BY <1>1, <1>2, <1>4, OnDiskSpill DEF gs, K
  <1>8. Stored(its, rs, gs, ds, L)
    BY <1>2, <1>6, <1>7 DEF Stored
  <1>9. ASSUME NEW n \in 1..(L - 1)
        PROVE  Stored(its, rs, gs, ds, n)
    <2>0. n \in 1..L /\ n \in Nat \ {0} /\ n # L
      OBVIOUS
    <2>1. /\ rs[n] = ms[n] /\ ds[n] = cut[n] /\ Stored(its, ms, fs, cut, n)
          /\ ms[n] \in MergerSet(its)
      BY <2>0 DEF SameBelow, AllStored, AllMergers
    <2>2. \A i \in 1..(n - 1) : rs[i].hash = ms[i].hash /\ rs[i].index = ms[i].index
      <3>1. \A i \in 1..(n - 1) : i \in 1..(L - 1)
        OBVIOUS
      <3> QED
        BY <3>1 DEF SameBelow
    <2>3. Directory(ms, n) # D
      BY <2>0, OtherDirectory DEF D
    <2>4. \A s, p : <<Directory(ms, n), s, p>> \in DOMAIN fs =>
             /\ <<Directory(ms, n), s, p>> \in DOMAIN gs
             /\ gs[<<Directory(ms, n), s, p>>] = fs[<<Directory(ms, n), s, p>>]
      BY <2>3, WithSpillFacts DEF gs
    <2>5. ms[n].index <= rs[n].index /\ rs[n].index \in Nat
      BY <2>1 DEF MergerSet
    <2> QED
      BY <2>1, <2>2, <2>4, <2>5, StoredKept
  <1>10. \A n \in 1..L : n \in 1..(L - 1) \/ n = L
    OBVIOUS
  <1> QED
    BY <1>8, <1>9, <1>10 DEF AllStored, gs, D

(* The last merger has in memory what came up to item e since its last     *)
(* spill, m being what it is before it may spill.                          *)
Ready(its, ms, fs, cut, L, m, e) ==
  /\ L \in Nat \ {0}
  /\ AllMergers(its, ms, L) /\ AllStored(its, ms, fs, cut, L)
  /\ cut \in CutSet
  /\ m \in MergerSet(its)
  /\ m.hash = ms[L].hash /\ m.spills = ms[L].spills
  /\ m.index = 0 /\ ms[L].index = 0
  /\ e \in Nat /\ e <= Len(its)
  /\ Memory(its, m, Owned(ms, L), cut[L], e)

LEMMA ReadyFacts ==
  ASSUME NEW its, NEW ms, NEW fs, NEW cut, NEW L, NEW m, NEW e, Ready(its, ms, fs, cut, L, m, e)
  PROVE  /\ L \in Nat \ {0} /\ m \in MergerSet(its) /\ m.index = 0 /\ m.spills = ms[L].spills
         /\ m.spills \in Nat /\ m.spills + 1 \in Nat /\ m.spills + 1 # 0
         /\ e \in Nat /\ e <= Len(its)
         /\ cut \in CutSet /\ cut[L][0] = 0 /\ cut[L][m.spills] \in Nat
         /\ Memory(its, m, Owned(ms, L), cut[L], e) /\ cut[L][m.spills] <= e
  <1>1. /\ L \in Nat \ {0} /\ m \in MergerSet(its) /\ m.index = 0 /\ m.spills = ms[L].spills
        /\ e \in Nat /\ e <= Len(its) /\ cut \in CutSet
        /\ Memory(its, m, Owned(ms, L), cut[L], e)
        /\ AllStored(its, ms, fs, cut, L)
    BY DEF Ready
  <1>2. m.spills \in Nat
    BY <1>1 DEF MergerSet
  <1>3. m.spills + 1 \in Nat /\ m.spills + 1 # 0
    BY <1>2
  <1>4. L \in 1..L
    <2>1. \A i \in Nat \ {0} : i \in 1..i
      OBVIOUS
    <2> QED
      BY <1>1, <2>1
  <1>5. cut[L][0] = 0
    BY <1>1, <1>4 DEF AllStored, Stored, Cuts
  <1>6. cut[L][m.spills] \in Nat
    BY <1>1, <1>2 DEF CutSet
  <1>7. cut[L][m.spills] <= e
    BY <1>1 DEF Memory
  <1> QED
    BY <1>1, <1>2, <1>3, <1>5, <1>6, <1>7

LEMMA CutThere ==
  ASSUME NEW cut \in CutSet, NEW L \in Nat, NEW s \in Nat, NEW e \in Nat
  PROVE  \E ds \in CutSet :
           SameBelow(ds, cut, L) /\ Recut(ds[L], cut[L], s, e)
  <1>1. ASSUME NEW c \in [Nat -> Nat], NEW d, d = [c EXCEPT ![s + 1] = e]
        PROVE  d \in [Nat -> Nat] /\ Recut(d, c, s, e)
    <2>1. s + 1 \in Nat
      OBVIOUS
    <2>2. d \in [Nat -> Nat] /\ d[s + 1] = e
      BY <1>1, <2>1
    <2>3. \A i \in 0..s : i \in Nat /\ i # s + 1
      OBVIOUS
    <2>4. \A i \in 0..s : d[i] = c[i]
      BY <1>1, <2>3
    <2> QED
      BY <2>2, <2>4 DEF Recut
  <1>2. ASSUME NEW S, NEW f \in [Nat -> S], NEW d \in S, NEW g, g = [f EXCEPT ![L] = d]
        PROVE  g \in [Nat -> S] /\ g[L] = d /\ SameBelow(g, f, L)
    <2>1. \A n \in 1..(L - 1) : n \in Nat /\ n # L
      OBVIOUS
    <2> QED
      BY <1>2, <2>1 DEF SameBelow
  <1>3. cut[L] \in [Nat -> Nat]
    BY DEF CutSet
  <1> DEFINE d == [cut[L] EXCEPT ![s + 1] = e]
             ds == [cut EXCEPT ![L] = d]
  <1>4. d \in [Nat -> Nat] /\ Recut(d, cut[L], s, e)
    BY <1>1, <1>3
  <1> HIDE DEF d
  <1>5. ds \in CutSet /\ ds[L] = d /\ SameBelow(ds, cut, L)
    BY <1>2, <1>4 DEF CutSet
  <1> QED
    BY <1>4, <1>5

LEMMA SpillStep ==
  ASSUME NEW its, NEW ms, NEW fs, NEW cut, NEW L, NEW m, NEW e, Ready(its, ms, fs, cut, L, m, e),
         NEW rs, SameBelow(rs, ms, L),
         rs[L].hash = m.hash, rs[L].spills = m.spills + 1, rs[L].index = 0
  PROVE  \E ds \in CutSet :
           /\ SameBelow(ds, cut, L)
           /\ ds[L][0] = 0 /\ ds[L][m.spills + 1] = e
           /\ AllStored(its, rs, WithSpill(fs, Directory(ms, L), m), ds, L)
  <1>1. m.spills \in Nat /\ L \in Nat /\ e \in Nat /\ cut \in CutSet /\ cut[L][0] = 0
    BY ReadyFacts
  <1>5. 0 \in 0..m.spills
    BY <1>1, Upto
  <1>2. PICK ds \in CutSet : SameBelow(ds, cut, L) /\ Recut(ds[L], cut[L], m.spills, e)
    BY <1>1, CutThere
  <1>3. AllStored(its, rs, WithSpill(fs, Directory(ms, L), m), ds, L)
    BY <1>2, StoredSpill DEF Ready
  <1>4. ds[L][m.spills + 1] = e
    BY <1>2 DEF Recut
  <1>6. ds[L][0] = 0
    BY <1>1, <1>2, <1>5 DEF Recut
  <1> QED
    BY <1>2, <1>3, <1>4, <1>6

LEMMA KeepStep ==
  ASSUME NEW its, NEW ms, NEW fs, NEW cut, NEW L \in Nat \ {0},
         AllMergers(its, ms, L), AllStored(its, ms, fs, cut, L),
         NEW rs, SameBelow(rs, ms, L),
         rs[L].hash = ms[L].hash, rs[L].spills = ms[L].spills, rs[L].index = ms[L].index
  PROVE  AllStored(its, rs, fs, cut, L)
  <1> SUFFICES ASSUME NEW n \in 1..L
               PROVE  Stored(its, rs, fs, cut, n)
    BY DEF AllStored
  <1>1. Stored(its, ms, fs, cut, n) /\ ms[n].index \in Nat /\ ms[n].index <= ms[n].index
    BY DEF AllStored, AllMergers, MergerSet
  <1>2. n = L \/ n \in 1..(L - 1)
    OBVIOUS
  <1>3. rs[n].hash = ms[n].hash /\ rs[n].spills = ms[n].spills /\ rs[n].index = ms[n].index
    BY <1>2 DEF SameBelow
  <1>4. \A i \in 1..(n - 1) : i \in 1..(L - 1)
    OBVIOUS
  <1>5. \A i \in 1..(n - 1) : rs[i].hash = ms[i].hash /\ rs[i].index = ms[i].index
    BY <1>4 DEF SameBelow
  <1> QED
    BY <1>1, <1>3, <1>5, StoredKept

(* m becomes q, spilled or not, and the files fs of its directory gs:      *)
(* nothing that was collected is lost.                                     *)
MaySpill(m, q, fs, gs, dir) ==
  \/ q = m /\ gs = fs
  \/ q = Spilled(m) /\ gs = WithSpill(fs, dir, m)

LEMMA MaySpillFields ==
  ASSUME NEW its, NEW m \in MergerSet(its), NEW q, NEW fs, NEW gs, NEW dir,
         MaySpill(m, q, fs, gs, dir)
  PROVE  /\ q \in MergerSet(its) /\ q.hash = m.hash /\ q.scale = m.scale
         /\ q.index = m.index /\ q.next = m.next /\ q.fill = m.fill
         /\ m.pdata # Empty => q.pdata # Empty
         /\ q.spills = 0 => gs = fs /\ m.spills = 0
  <1>1. m.spills + 1 # 0
    BY DEF MergerSet
  <1>2. CASE q = m /\ gs = fs
    BY <1>2
  <1>3. CASE q = Spilled(m)
    <2>1. NoDicts # Empty
      BY EmptyFacts
    <2> QED
      BY <1>1, <1>3, <2>1, SpilledFacts
  <1> QED
    BY <1>2, <1>3 DEF MaySpill

LEMMA PerhapsSpillStep ==
  ASSUME NEW its, NEW ms, NEW fs, NEW cut, NEW L, NEW m, NEW e, Ready(its, ms, fs, cut, L, m, e),
         NEW rs, SameBelow(rs, ms, L), NEW gs, MaySpill(m, rs[L], fs, gs, Directory(ms, L))
  PROVE  \E ds \in CutSet : /\ SameBelow(ds, cut, L)
                            /\ AllStored(its, rs, gs, ds, L)
                            /\ Memory(its, rs[L], Owned(ms, L), ds[L], e)
  <1>1. /\ m \in MergerSet(its) /\ m.index = 0 /\ e \in Nat
        /\ cut \in CutSet /\ Memory(its, m, Owned(ms, L), cut[L], e)
    BY ReadyFacts
  <1>2. CASE rs[L] = m /\ gs = fs
    <2>1. AllStored(its, rs, gs, cut, L)
      BY <1>2, KeepStep DEF Ready
    <2>2. SameBelow(cut, cut, L)
      BY DEF SameBelow
    <2> QED
      BY <1>1, <1>2, <2>1, <2>2
  <1>3. CASE rs[L] = Spilled(m) /\ gs = WithSpill(fs, Directory(ms, L), m)
    <2>1. /\ rs[L].data = Empty /\ rs[L].pdata = NoDicts /\ rs[L].spills = m.spills + 1
          /\ rs[L].hash = m.hash /\ rs[L].index = m.index
      BY <1>1, <1>3, SpilledFacts
    <2>2. rs[L].index = 0
      BY <1>1, <2>1
    <2>3. PICK ds \in CutSet :
            /\ SameBelow(ds, cut, L) /\ ds[L][m.spills + 1] = e
            /\ AllStored(its, rs, gs, ds, L)
      BY <1>3, <2>1, <2>2, SpillStep
    <2>4. NoDicts # Empty /\ \A p \in Parts : NoDicts[p] = Empty
      BY EmptyFacts
    <2>5. \A K : DictOf(its, Empty, K, e, e)
      BY <1>1, AtNone, DictEmpty
    <2>6. Memory(its, rs[L], Owned(ms, L), ds[L], e)
      <3>1. ds[L][rs[L].spills] = e /\ e <= e
        BY <1>1, <2>1, <2>3
      <3>2. \A p \in Parts : DictOf(its, rs[L].pdata[p], Part(rs[L], Owned(ms, L), p), e, e)
        BY <2>1, <2>4, <2>5
      <3> QED
        BY <2>1, <2>4, <3>1, <3>2 DEF Memory
    <2> QED
      BY <2>3, <2>6
  <1> QED
    BY <1>2, <1>3 DEF MaySpill

(* Dicts of no item: there is none of these keys in the stretch.           *)
LEMMA NothingLeft ==
  ASSUME NEW its, NEW m \in MergerSet(its), NEW K \in SUBSET Keys, NEW c, NEW e,
         Memory(its, m, K, c, e), m.pdata # Empty,
         \A i \in DOMAIN m.pdata : m.pdata[i] = Empty
  PROVE  \A k \in K : At(its, k, c[m.spills], e) = {}
  <1>1. m.pdata \in [Parts -> Dicts(its)] /\ m.hash \in [Keys -> Parts]
    BY DEF MergerSet, Hashes
  <1> TAKE k \in K
  <1>2. m.hash[k] \in Parts /\ k \in Part(m, K, m.hash[k])
    BY <1>1 DEF Part
  <1>3. DictOf(its, Empty, Part(m, K, m.hash[k]), c[m.spills], e)
    BY <1>1, <1>2 DEF Memory
  <1> QED
    BY <1>2, <1>3, DictEmpty

(* The first statements of _external_items: m becomes q, the files fs of   *)
(* its directory gs, and everything is in a file then.                     *)
Started(m, q, fs, gs, dir) ==
  IF \E i \in DOMAIN m.pdata : m.pdata[i] # Empty
  THEN q = [Spilled(m) EXCEPT !.pdata = Empty] /\ gs = WithSpill(fs, dir, m)
  ELSE q = [m EXCEPT !.pdata = Empty] /\ gs = fs

(* There is a spill, or will be, and no item of the keys comes after e.    *)
Startable(its, m, K, e) ==
  /\ m.next = 0 /\ ~m.fill
  /\ m.pdata # Empty \/ m.spills > 0
  /\ Len(its) \in Nat
  /\ \A k \in K : At(its, k, e, Len(its)) = {}

LEMMA StartStep ==
  ASSUME NEW its, NEW ms, NEW fs, NEW cut, NEW L, NEW m, NEW e, Ready(its, ms, fs, cut, L, m, e),
         Startable(its, m, Owned(ms, L), e),
         NEW rs, SameBelow(rs, ms, L), NEW gs, Started(m, rs[L], fs, gs, Directory(ms, L))
  PROVE  /\ \E ds \in CutSet :
              /\ SameBelow(ds, cut, L)
              /\ AllStored(its, rs, gs, ds, L)
              /\ Reading(its, rs[L], Owned(ms, L), ds[L])
         /\ rs[L] \in MergerSet(its)
         /\ rs[L].hash = m.hash /\ rs[L].scale = m.scale /\ rs[L].index = 0
  <1> DEFINE K == Owned(ms, L)
  <1>1. /\ m \in MergerSet(its) /\ m.index = 0 /\ m.spills \in Nat /\ L \in Nat \ {0} /\ e \in Nat
        /\ e <= Len(its) /\ cut[L][0] = 0 /\ 0 <= m.spills + 1 /\ 0 <= m.spills
        /\ cut \in CutSet /\ Memory(its, m, K, cut[L], e) /\ K \in SUBSET Keys
        /\ cut[L][m.spills] \in Nat /\ cut[L][m.spills] <= e
    <2>1. \A n \in Nat : 0 <= n + 1 /\ 0 <= n
      OBVIOUS
    <2> QED
      BY <2>1, OwnedKeys, ReadyFacts
  <1>2. m.pdata # Empty /\ m.data = Empty
    <2>1. m.pdata = Empty => m.spills = 0
      BY <1>1 DEF Memory
    <2>2. m.pdata # Empty
      BY <1>1, <2>1 DEF Startable
    <2> QED
      BY <1>1, <2>2 DEF Memory
  <1>3. /\ m.next = 0 /\ ~m.fill /\ Len(its) \in Nat
        /\ \A k \in K : At(its, k, e, Len(its)) = {}
    BY DEF Startable
  <1>4. Empty \in Dicts(its)
    BY EmptyFacts
  <1>5. \A J : DictOf(its, Empty, J, 0, 0)
    BY AtNone, DictEmpty
  <1> HIDE DEF K
  <1>6. CASE \E i \in DOMAIN m.pdata : m.pdata[i] # Empty
    <2> DEFINE q == Spilled(m)
    <2>1. rs[L] = [q EXCEPT !.pdata = Empty] /\ gs = WithSpill(fs, Directory(ms, L), m)
      BY <1>6 DEF Started
    <2>2. /\ q \in MergerSet(its) /\ q.data = Empty /\ q.spills = m.spills + 1
          /\ q.hash = m.hash /\ q.scale = m.scale /\ q.index = 0
          /\ q.next = 0 /\ ~q.fill
      BY <1>1, <1>3, SpilledFacts
    <2> HIDE DEF q
    <2>3. /\ rs[L] \in MergerSet(its) /\ rs[L].data = Empty /\ rs[L].pdata = Empty
          /\ rs[L].spills = m.spills + 1
          /\ rs[L].hash = m.hash /\ rs[L].scale = m.scale /\ rs[L].index = 0
          /\ rs[L].next = 0 /\ ~rs[L].fill
      BY <1>4, <2>1, <2>2 DEF MergerSet
    <2>4. PICK ds \in CutSet :
            /\ SameBelow(ds, cut, L)
            /\ ds[L][0] = 0 /\ ds[L][m.spills + 1] = e
            /\ AllStored(its, rs, WithSpill(fs, Directory(ms, L), m), ds, L)
      <3>1. rs[L].hash = m.hash /\ rs[L].spills = m.spills + 1 /\ rs[L].index = 0
        BY <2>3
      <3> QED
        BY ONLY <3>1, SpillStep, Ready(its, ms, fs, cut, L, m, e), SameBelow(rs, ms, L)
    <2>5. Silent(its, rs[L], K, ds[L])
      BY <1>3, <2>3, <2>4 DEF Silent
    <2>6. rs[L].next <= rs[L].spills
      BY <1>1, <2>3 
    <2>7. Reading(its, rs[L], K, ds[L])
      BY <1>5, <2>3, <2>4, <2>5, <2>6 DEF Reading
    <2> QED
      BY <2>1, <2>3, <2>4, <2>7 DEF K
  <1>7. CASE ~(\E i \in DOMAIN m.pdata : m.pdata[i] # Empty)
    <2>1. rs[L] = [m EXCEPT !.pdata = Empty] /\ gs = fs
      BY <1>7 DEF Started
    <2>2. /\ rs[L] \in MergerSet(its) /\ rs[L].data = Empty /\ rs[L].pdata = Empty
          /\ rs[L].spills = m.spills
          /\ rs[L].hash = m.hash /\ rs[L].scale = m.scale /\ rs[L].index = 0
          /\ rs[L].next = 0 /\ ~rs[L].fill
      BY <1>1, <1>2, <1>3, <1>4, <2>1 DEF MergerSet
    <2>3. AllStored(its, rs, gs, cut, L)
      BY <2>1, <2>2, KeepStep DEF Ready
    <2>4. \A k \in K : At(its, k, cut[L][m.spills], e) = {}
      BY <1>1, <1>2, <1>7, NothingLeft
    <2>5. \A k \in K : At(its, k, cut[L][m.spills], Len(its)) = {}
      <3>1. ASSUME NEW k \in K
            PROVE  At(its, k, cut[L][m.spills], Len(its))
                     = At(its, k, cut[L][m.spills], e) \union At(its, k, e, Len(its))
        <4> DEFINE a == cut[L][m.spills]
        <4>1. a \in Nat /\ a <= e /\ e \in Nat /\ e <= Len(its) /\ Len(its) \in Nat
          BY <1>1, <1>3
        <4> HIDE DEF a
        <4>2. At(its, k, a, Len(its)) = At(its, k, a, e) \union At(its, k, e, Len(its))
          BY ONLY <4>1, AtSplit
        <4> QED
          BY <4>2 DEF a
      <3> QED
        BY <1>3, <2>4, <3>1
    <2>6. Silent(its, rs[L], K, cut[L])
      BY <2>2, <2>5 DEF Silent
    <2>8. rs[L].next <= rs[L].spills
      BY <1>1, <2>2
    <2>9. Reading(its, rs[L], K, cut[L])
      BY <1>1, <1>5, <2>2, <2>6, <2>8 DEF Reading
    <2>10. SameBelow(cut, cut, L)
      BY DEF SameBelow
    <2> QED
      BY <1>1, <2>2, <2>3, <2>9, <2>10 DEF K
  <1> QED
    BY <1>6, <1>7

-----------------------------------------------------------------------------
(***************************************************************************)
(* The values handed out.                                                  *)
(***************************************************************************)
LEMMA CompleteNone == \A its : Complete(its, <<>>, {})
  BY DEF Complete

LEMMA CompleteAppend ==
  ASSUME NEW its, NEW S, NEW ys \in Seq(S), NEW K, Complete(its, ys, K), NEW d \in S,
         \A k \in DOMAIN d : k \notin K /\ Segment(its, d[k], k, 0, Len(its)),
         NEW J, J = K \union DOMAIN d
  PROVE  Complete(its, Append(ys, d), J)
  <1> DEFINE L == Len(ys)
             zs == Append(ys, d)
  <1>1. /\ L \in Nat /\ Len(zs) = L + 1 /\ zs[L + 1] = d
        /\ \A i \in 1..L : zs[i] = ys[i]
    OBVIOUS
  <1>2. \A i \in 1..(L + 1) : i \in 1..L \/ i = L + 1
    BY <1>1
  <1>3. (L + 1) \in 1..(L + 1) /\ \A i \in 1..L : i \in 1..(L + 1) /\ i # L + 1
    BY <1>1
  <1>4. /\ \A i \in 1..L : \A k \in DOMAIN ys[i] : Segment(its, ys[i][k], k, 0, Len(its))
        /\ \A i, j \in 1..L : i # j => DOMAIN ys[i] \intersect DOMAIN ys[j] = {}
        /\ UNION {DOMAIN ys[i] : i \in 1..L} = K
    BY DEF Complete
  <1> HIDE DEF zs, L
  <1>5. \A i \in 1..L : DOMAIN ys[i] \subseteq K
    BY <1>4
  <1>6. \A i \in 1..Len(zs) : \A k \in DOMAIN zs[i] : Segment(its, zs[i][k], k, 0, Len(its))
    BY <1>1, <1>2, <1>4
  <1>7. ASSUME NEW i \in 1..Len(zs), NEW j \in 1..Len(zs), i # j
        PROVE  DOMAIN zs[i] \intersect DOMAIN zs[j] = {}
    BY <1>1, <1>2, <1>4, <1>5, <1>7
  <1>8. UNION {DOMAIN zs[i] : i \in 1..Len(zs)} = J
    <2>1. \A i \in 1..Len(zs) : DOMAIN zs[i] \subseteq J
      BY <1>1, <1>2, <1>5
    <2>2. ASSUME NEW k \in J
          PROVE  \E i \in 1..Len(zs) : k \in DOMAIN zs[i]
      <3>1. CASE k \in DOMAIN d
        BY <1>1, <1>3, <3>1
      <3>2. CASE k \in K
        <4>1. PICK i \in 1..L : k \in DOMAIN ys[i]
          BY <1>4, <3>2
        <4> QED
          BY <1>1, <1>3, <4>1
      <3> QED
        BY <3>1, <3>2
    <2> QED
      BY <2>1, <2>2
  <1> QED
    BY <1>6, <1>7, <1>8 DEF Complete, zs

LEMMA SameHandedOut ==
  ASSUME NEW its, NEW ms, NEW rs, Len(rs) = Len(ms), Len(ms) \in Nat,
         \A i \in 1..Len(ms) : rs[i].hash = ms[i].hash /\ rs[i].index = ms[i].index
  PROVE  HandedOut(its, rs) = HandedOut(its, ms)
  <1>1. ASSUME NEW n \in 1..Len(ms)
        PROVE  Owned(rs, n) = Owned(ms, n)
    <2>1. \A i \in 1..(n - 1) : i \in 1..Len(ms)
      OBVIOUS
    <2> QED
      BY <2>1, SameLevels
  <1> QED
    BY <1>1 DEF HandedOut

LEMMA NothingHandedOut ==
  ASSUME NEW its, NEW ms, Len(ms) = 1, ms[1].index = 0, ms[1] \in MergerSet(its)
  PROVE  HandedOut(its, ms) = {}
  <1>1. ASSUME NEW k \in Keys
        PROVE  ~(ms[1].hash[k] < ms[1].index)
    <2>1. ms[1].hash[k] \in Parts
      BY DEF MergerSet, Hashes
    <2>2. ms[1].hash[k] \in Nat
      BY <2>1, PartsFacts
    <2> QED
      BY <2>2
  <1>2. \A n \in 1..1 : n = 1
    OBVIOUS
  <1> QED
    BY <1>1, <1>2 DEF HandedOut

-----------------------------------------------------------------------------
(***************************************************************************)
(* The state of the program.                                               *)
(***************************************************************************)
LEMMA StateFacts ==
  ASSUME TypeOK
  PROVE  /\ Len(mergers) \in Nat \ {0}
         /\ AllMergers(items, mergers, Len(mergers))
         /\ Top \in MergerSet(items)
         /\ Len(items) \in Nat /\ pos \in Nat /\ pos <= Len(items)
         /\ \A i \in 1..Len(items) : items[i][1] \in Keys
  <1>1. Len(mergers) \in Nat \ {0} /\ \A i \in 1..Len(mergers) : mergers[i] \in MergerSet(items)
    BY DEF TypeOK
  <1>2. Len(mergers) \in 1..Len(mergers)
    BY <1>1
  <1>3. items \in Seq(ToSet(items)) /\ \A i \in 1..Len(items) : items[i][1] \in Keys
    BY ExternalMergerAssumption DEF TypeOK
  <1>4. Len(items) \in Nat
    BY <1>3
  <1>5. pos \in Nat /\ pos <= Len(items)
    BY <1>4 DEF TypeOK
  <1> QED
    BY <1>1, <1>2, <1>3, <1>4, <1>5 DEF AllMergers, Top

(* The last merger is replaced.                                            *)
Becomes(m) == mergers' = SetTop(m)

LEMMA BecomesFacts ==
  ASSUME TypeOK, NEW m \in MergerSet(items), Becomes(m)
  PROVE  /\ mergers' \in Seq(MergerSet(items)) /\ Len(mergers') = Len(mergers)
         /\ mergers'[Len(mergers)] = m
         /\ SameBelow(mergers', mergers, Len(mergers))
  <1>1. mergers \in Seq(MergerSet(items)) /\ Len(mergers) > 0
    BY DEF TypeOK
  <1>2. mergers' = [mergers EXCEPT ![Len(mergers)] = m]
    BY DEF Becomes, SetTop
  <1>3. /\ mergers' \in Seq(MergerSet(items)) /\ Len(mergers') = Len(mergers)
        /\ mergers'[Len(mergers)] = m
        /\ \A i \in 1..Len(mergers) : i # Len(mergers) => mergers'[i] = mergers[i]
    BY <1>1, <1>2, ReplaceTop
  <1>4. \A i \in 1..(Len(mergers) - 1) : i \in 1..Len(mergers) /\ i # Len(mergers)
    BY <1>1
  <1> QED
    BY <1>3, <1>4 DEF SameBelow

LEMMA FilesWithFacts ==
  ASSUME NEW m
  PROVE  FilesWith(m) = WithSpill(files, Directory(mergers, Len(mergers)), m)
  <1>1. Dir(Len(mergers)) = Directory(mergers, Len(mergers))
    BY DEF Dir, Directory
  <1> QED
    BY <1>1 DEF FilesWith, WithSpill, NewFiles

LEMMA PerhapsSpillFacts ==
  ASSUME TypeOK, NEW m \in MergerSet(items), PerhapsSpill(m)
  PROVE  /\ mergers' \in Seq(MergerSet(items)) /\ Len(mergers') = Len(mergers)
         /\ SameBelow(mergers', mergers, Len(mergers))
         /\ MaySpill(m, mergers'[Len(mergers)], files, files', Directory(mergers, Len(mergers)))
  <1>1. CASE Keep(m)
    <2>1. Becomes(m) /\ files' = files
      BY <1>1 DEF Keep, Becomes
    <2> QED
      BY <2>1, BecomesFacts DEF MaySpill
  <1>2. CASE Spill(m)
    <2>1. Becomes(Spilled(m)) /\ files' = FilesWith(m)
      BY <1>2 DEF Spill, Becomes
    <2>2. Spilled(m) \in MergerSet(items)
      BY SpilledFacts
    <2> QED
      BY <2>1, <2>2, BecomesFacts, FilesWithFacts DEF MaySpill
  <1> QED
    BY <1>1, <1>2 DEF PerhapsSpill

(* The dict of one item.                                                   *)
LEMMA ItemDict ==
  ASSUME NEW its, NEW p \in Nat, NEW n \in Nat, Len(its) = n, p < n, its[p + 1][1] \in Keys
  PROVE  DictOf(its, [k \in {its[p + 1][1]} |-> <<its[p + 1][2]>>], Keys, p, p + 1)
  <1> DEFINE key == its[p + 1][1]
             v == its[p + 1][2]
             d == [k \in {key} |-> <<v>>]
  <1>1. \A k : At(its, k, p, p + 1) = IF k = key THEN {p + 1} ELSE {}
    BY DEF At
  <1>2. p + 1 \in 1..Len(its) /\ key \in Keys
    OBVIOUS
  <1>3. v \in Vals(its)
    BY <1>2 DEF Vals
  <1> HIDE DEF key, v
  <1>4. {k \in Keys : At(its, k, p, p + 1) # {}} = {key}
    BY <1>1, <1>2
  <1>5. <<v>> \in Seq(Vals(its)) /\ Len(<<v>>) = 1 /\ <<v>>[1] = v
    BY <1>3
  <1>6. Segment(its, <<v>>, key, p, p + 1)
    <2> DEFINE at == [i \in 1..1 |-> p + 1]
    <2>1. At(its, key, p, p + 1) = {p + 1}
      BY <1>1
    <2>2. at \in [1..Len(<<v>>) -> At(its, key, p, p + 1)] /\ at[1] = p + 1
      BY <1>5, <2>1
    <2>3. \A i \in 1..1 : i = 1
      OBVIOUS
    <2>4. 1 \in 1..1
      OBVIOUS
    <2> HIDE DEF at
    <2>5. \A i, j \in 1..Len(<<v>>) : i < j => at[i] < at[j]
      BY <1>5, <2>3
    <2>6. \A q \in At(its, key, p, p + 1) : \E i \in 1..Len(<<v>>) : at[i] = q
      BY <1>5, <2>1, <2>2, <2>4
    <2>7. \A i \in 1..Len(<<v>>) : <<v>>[i] = its[at[i]][2]
      BY <1>5, <2>2, <2>3 DEF v
    <2> QED
      BY <2>2, <2>5, <2>6, <2>7 DEF Segment
  <1>7. /\ d \in [{key} -> Seq(Vals(its))] /\ DOMAIN d = {key}
        /\ \A k \in {key} : k = key /\ d[k] = <<v>>
    BY <1>5
  <1> HIDE DEF d
  <1>8. DictOf(its, d, Keys, p, p + 1)
    BY <1>4, <1>6, <1>7 DEF DictOf
  <1> QED
    BY <1>8 DEF d, key, v

-----------------------------------------------------------------------------
(***************************************************************************)
(* mergeValues and items.                                                  *)
(***************************************************************************)
LEMMA CollectingFacts ==
  ASSUME TypeOK, NEW cut \in CutSet, Contents(cut), pc \in {"merging", "items"}
  PROVE  /\ Len(mergers) = 1 /\ Top = mergers[1]
         /\ mergers[1] \in MergerSet(items) /\ mergers[1].index = 0 /\ ~mergers[1].fill
         /\ Memory(items, mergers[1], Keys, cut[1], pos)
         /\ mergers[1].spills = 0 => files = Empty
         /\ AllMergers(items, mergers, 1) /\ AllStored(items, mergers, files, cut, 1)
         /\ Owned(mergers, 1) = Keys
  <1>1. Len(mergers) = 1 /\ Collecting(items, mergers, files, cut, pos)
    BY DEF Contents, Collecting
  <1>2. AllStored(items, mergers, files, cut, 1)
    BY <1>1 DEF Contents
  <1>3. Top = mergers[1] /\ Top \in MergerSet(items) /\ AllMergers(items, mergers, 1)
    BY <1>1, StateFacts DEF Top
  <1> QED
    BY <1>1, <1>2, <1>3, OwnedFirst DEF Collecting

(* m takes the place of the only merger, and may spill, at item e.         *)
LEMMA CollectingStep ==
  ASSUME TypeOK, NEW cut \in CutSet, Contents(cut), pc \in {"merging", "items"},
         NEW m \in MergerSet(items), m.hash = mergers[1].hash, m.spills = mergers[1].spills,
         m.index = 0, ~m.fill,
         NEW e \in Nat, e <= Len(items), Memory(items, m, Keys, cut[1], e),
         PerhapsSpill(m)
  PROVE  /\ mergers' \in Seq(MergerSet(items)) /\ Len(mergers') = 1
         /\ \E ds \in CutSet : /\ AllStored(items, mergers', files', ds, 1)
                               /\ Collecting(items, mergers', files', ds, e)
  <1>1. /\ Len(mergers) = 1 /\ Owned(mergers, 1) = Keys /\ mergers[1].index = 0
        /\ mergers[1].spills = 0 => files = Empty
        /\ AllMergers(items, mergers, 1) /\ AllStored(items, mergers, files, cut, 1)
    BY CollectingFacts
  <1>2. /\ mergers' \in Seq(MergerSet(items)) /\ Len(mergers') = 1
        /\ SameBelow(mergers', mergers, 1)
        /\ MaySpill(m, mergers'[1], files, files', Directory(mergers, 1))
    BY <1>1, PerhapsSpillFacts
  <1>3. Ready(items, mergers, files, cut, 1, m, e)
    BY <1>1 DEF Ready
  <1>4. PICK ds \in CutSet :
           /\ AllStored(items, mergers', files', ds, 1)
           /\ Memory(items, mergers'[1], Owned(mergers, 1), ds[1], e)
    BY <1>2, <1>3, PerhapsSpillStep
  <1>5. /\ mergers'[1].index = 0 /\ mergers'[1].fill = m.fill
        /\ mergers'[1].spills = 0 => files' = files /\ mergers[1].spills = 0
    BY <1>2, MaySpillFields
  <1>6. Collecting(items, mergers', files', ds, e)
    BY <1>1, <1>2, <1>4, <1>5 DEF Collecting
  <1> QED
    BY <1>2, <1>4, <1>6

LEMMA MergeValueStep ==
  ASSUME IInv, MergeValue
  PROVE  IInv'
  <1>1. TypeOK /\ Outcome
    BY DEF IInv
  <1>2. PICK cut \in CutSet : Contents(cut)
    BY DEF IInv
  <1> DEFINE d == [k \in {items[pos + 1][1]} |-> <<items[pos + 1][2]>>]
             m == MergeInto(Top, d)
  <1>3. pc = "merging" /\ pos < Len(items) /\ PerhapsSpill(m)
        /\ pos' = pos + 1 /\ items' = items /\ pc' = pc /\ yielded' = yielded
    BY DEF MergeValue
  <1>4. /\ Len(items) \in Nat /\ pos \in Nat
        /\ \A i \in 1..Len(items) : items[i][1] \in Keys
    BY <1>1, StateFacts
  <1>5. pos + 1 \in 1..Len(items) /\ pos <= pos + 1 /\ pos + 1 \in Nat /\ pos + 1 <= Len(items)
    BY <1>3, <1>4
  <1>6. DictOf(items, d, Keys, pos, pos + 1)
    BY <1>3, <1>4, <1>5, ItemDict
  <1> HIDE DEF d
  <1>7. /\ Len(mergers) = 1 /\ Top = mergers[1] /\ mergers[1] \in MergerSet(items)
        /\ mergers[1].index = 0 /\ ~mergers[1].fill
        /\ Memory(items, mergers[1], Keys, cut[1], pos)
    BY <1>1, <1>2, <1>3, CollectingFacts
  <1>8. d \in Dicts(items)
    BY <1>6, DictType
  <1>9. m \in MergerSet(items) /\ Same(m, mergers[1])
    BY <1>7, <1>8, MergeIntoFacts
  <1>10. cut[1] \in [Nat -> Nat] /\ cut[1][0] = 0
    <2>1. Stored(items, mergers, files, cut, 1)
      <3>1. 1 \in 1..1
        OBVIOUS
      <3> QED
        BY <1>1, <1>2, <1>3, <3>1, CollectingFacts DEF AllStored
    <2> QED
      BY <2>1 DEF Stored, Cuts
  <1>11. Memory(items, m, Keys, cut[1], pos + 1)
    BY <1>4, <1>5, <1>6, <1>7, <1>10, Collect
  <1> HIDE DEF m
  <1>12. PICK ds \in CutSet : /\ AllStored(items, mergers', files', ds, 1)
                              /\ Collecting(items, mergers', files', ds, pos + 1)
    BY <1>1, <1>2, <1>3, <1>5, <1>7, <1>9, <1>11, CollectingStep DEF Same
  <1>13. mergers' \in Seq(MergerSet(items)) /\ Len(mergers') = 1
    BY <1>1, <1>2, <1>3, <1>5, <1>7, <1>9, <1>11, CollectingStep DEF Same
  <1>14. TypeOK'
    <2>1. pos' \in 0..Len(items)
      BY <1>3, <1>4, <1>5
    <2> QED
      BY <1>1, <1>3, <1>13, <2>1 DEF TypeOK
  <1>15. Outcome'
    BY <1>1, <1>3 DEF Outcome, DiskClean
  <1>16. Contents(ds)'
    BY <1>3, <1>12, <1>13 DEF Contents
  <1> QED
    BY <1>14, <1>15, <1>16 DEF IInv

LEMMA EndMergeStep ==
  ASSUME IInv, EndMerge
  PROVE  IInv'
  <1>1. TypeOK /\ Outcome
    BY DEF IInv
  <1>2. PICK cut \in CutSet : Contents(cut)
    BY DEF IInv
  <1>3. pc = "merging" /\ pos = Len(items) /\ PerhapsSpill(Top)
        /\ pos' = pos /\ items' = items /\ pc' = "items" /\ yielded' = yielded
    BY DEF EndMerge
  <1>4. Len(items) \in Nat /\ pos \in Nat /\ pos <= Len(items)
    BY <1>1, StateFacts
  <1>5. /\ Len(mergers) = 1 /\ Top = mergers[1] /\ mergers[1] \in MergerSet(items)
        /\ mergers[1].index = 0 /\ ~mergers[1].fill
        /\ Memory(items, mergers[1], Keys, cut[1], pos)
    BY <1>1, <1>2, <1>3, CollectingFacts
  <1>6. PICK ds \in CutSet : /\ AllStored(items, mergers', files', ds, 1)
                             /\ Collecting(items, mergers', files', ds, pos)
    BY <1>1, <1>2, <1>3, <1>4, <1>5, CollectingStep
  <1>7. mergers' \in Seq(MergerSet(items)) /\ Len(mergers') = 1
    BY <1>1, <1>2, <1>3, <1>4, <1>5, CollectingStep
  <1>8. TypeOK'
    BY <1>1, <1>3, <1>7 DEF TypeOK
  <1>9. Outcome'
    BY <1>1, <1>3 DEF Outcome, DiskClean
  <1>10. Contents(ds)'
    BY <1>3, <1>6, <1>7 DEF Contents
  <1> QED
    BY <1>8, <1>9, <1>10 DEF IInv

LEMMA ItemsInMemoryStep ==
  ASSUME IInv, ItemsInMemory
  PROVE  IInv'
  <1>1. TypeOK /\ Outcome
    BY DEF IInv
  <1>2. PICK cut \in CutSet : Contents(cut)
    BY DEF IInv
  <1>3. /\ pc = "items" /\ Top.pdata = Empty /\ Top.spills = 0
        /\ yielded' = <<Top.data>> /\ pc' = "done"
        /\ items' = items /\ pos' = pos /\ mergers' = mergers /\ files' = files
    BY DEF ItemsInMemory
  <1>4. /\ Top = mergers[1] /\ mergers[1] \in MergerSet(items)
        /\ Memory(items, mergers[1], Keys, cut[1], pos)
        /\ mergers[1].spills = 0 => files = Empty
    BY <1>1, <1>2, <1>3, CollectingFacts
  <1>5. pos = Len(items)
    BY <1>1, <1>3 DEF Outcome
  <1>6. DictOf(items, Top.data, Keys, 0, Len(items)) /\ Top.data \in Dicts(items)
    BY <1>3, <1>4, <1>5 DEF Memory, MergerSet
  <1>7. DOMAIN Top.data = AllKeys(items)
    BY <1>6 DEF DictOf, AllKeys
  <1>8. Complete(items, <<Top.data>>, AllKeys(items))
    <2>1. <<>> \in Seq(Dicts(items)) /\ Append(<<>>, Top.data) = <<Top.data>>
      OBVIOUS
    <2>2. AllKeys(items) = {} \union DOMAIN Top.data
      BY <1>7
    <2>3. \A k \in DOMAIN Top.data : k \notin {} /\ Segment(items, Top.data[k], k, 0, Len(items))
      BY <1>6 DEF DictOf
    <2>4. Complete(items, <<>>, {})
      BY CompleteNone
    <2>5. Complete(items, Append(<<>>, Top.data), AllKeys(items))
      BY <1>6, <2>1, <2>2, <2>3, <2>4, CompleteAppend
    <2> QED
      BY <2>1, <2>5
  <1>9. TypeOK'
    BY <1>1, <1>3, <1>6 DEF TypeOK
  <1>10. files' = Empty
    BY <1>3, <1>4
  <1>11. Outcome'
    BY <1>3, <1>8, <1>10 DEF Outcome, DiskClean
  <1>12. Contents(cut)'
    BY <1>3 DEF Contents
  <1> QED
    BY <1>9, <1>11, <1>12 DEF IInv

(* What _external_items starts with, for the merger m.                     *)
StartFrom(m) ==
  IF \E i \in DOMAIN m.pdata : m.pdata[i] # Empty
  THEN mergers' = SetTop([Spilled(m) EXCEPT !.pdata = Empty]) /\ files' = FilesWith(m)
  ELSE Keep([m EXCEPT !.pdata = Empty])

LEMMA StartFromFacts ==
  ASSUME TypeOK, NEW m \in MergerSet(items), StartFrom(m)
  PROVE  /\ mergers' \in Seq(MergerSet(items)) /\ Len(mergers') = Len(mergers)
         /\ SameBelow(mergers', mergers, Len(mergers))
         /\ Started(m, mergers'[Len(mergers)], files, files', Directory(mergers, Len(mergers)))
  <1>1. ASSUME NEW q \in MergerSet(items)
        PROVE  [q EXCEPT !.pdata = Empty] \in MergerSet(items)
    BY DEF MergerSet
  <1>2. Spilled(m) \in MergerSet(items)
    BY SpilledFacts
  <1>3. CASE \E i \in DOMAIN m.pdata : m.pdata[i] # Empty
    <2>1. Becomes([Spilled(m) EXCEPT !.pdata = Empty]) /\ files' = FilesWith(m)
      BY <1>3 DEF StartFrom, Becomes
    <2> QED
      BY <1>1, <1>2, <1>3, <2>1, BecomesFacts, FilesWithFacts DEF Started
  <1>4. CASE ~(\E i \in DOMAIN m.pdata : m.pdata[i] # Empty)
    <2>1. Becomes([m EXCEPT !.pdata = Empty]) /\ files' = files
      BY <1>4 DEF StartFrom, Becomes, Keep
    <2> QED
      BY <1>1, <1>4, <2>1, BecomesFacts DEF Started
  <1> QED
    BY <1>3, <1>4

LEMMA ItemsExternalStep ==
  ASSUME IInv, ItemsExternal
  PROVE  IInv'
  <1>1. TypeOK /\ Outcome
    BY DEF IInv
  <1>2. PICK cut \in CutSet : Contents(cut)
    BY DEF IInv
  <1> DEFINE m == [Top EXCEPT !.next = 0, !.fill = FALSE]
  <1>3. /\ pc = "items" /\ (Top.pdata # Empty \/ Top.spills > 0) /\ StartFrom(m)
        /\ pc' = "yielding" /\ items' = items /\ pos' = pos /\ yielded' = yielded
    BY DEF ItemsExternal, StartExternal, StartFrom
  <1>4. /\ Len(mergers) = 1 /\ Top = mergers[1] /\ mergers[1] \in MergerSet(items)
        /\ mergers[1].index = 0
        /\ Memory(items, mergers[1], Keys, cut[1], pos)
        /\ Owned(mergers, 1) = Keys
        /\ AllMergers(items, mergers, 1) /\ AllStored(items, mergers, files, cut, 1)
    BY <1>1, <1>2, <1>3, CollectingFacts
  <1>5. /\ m \in MergerSet(items) /\ m.next = 0 /\ ~m.fill /\ m.index = 0
        /\ m.hash = mergers[1].hash /\ m.spills = mergers[1].spills
        /\ m.pdata = mergers[1].pdata /\ m.data = mergers[1].data
    BY <1>4 DEF MergerSet
  <1>6. m.pdata # Empty \/ m.spills > 0
    BY <1>3, <1>4, <1>5
  <1> HIDE DEF m
  <1>7. Memory(items, m, Keys, cut[1], pos)
    BY <1>4, <1>5 DEF Memory, Part
  <1>8. /\ Len(items) \in Nat /\ pos \in Nat /\ pos <= Len(items) /\ pos = Len(items)
    BY <1>1, <1>3, StateFacts DEF Outcome
  <1>9. Ready(items, mergers, files, cut, 1, m, pos)
    BY <1>4, <1>5, <1>7, <1>8 DEF Ready
  <1>10. \A k \in Keys : At(items, k, pos, Len(items)) = {}
    BY <1>8, AtNone
  <1>11. /\ mergers' \in Seq(MergerSet(items)) /\ Len(mergers') = 1
         /\ SameBelow(mergers', mergers, 1)
         /\ Started(m, mergers'[1], files, files', Directory(mergers, 1))
    BY <1>1, <1>3, <1>4, <1>5, StartFromFacts
  <1>12. /\ \E ds \in CutSet : /\ SameBelow(ds, cut, 1)
                               /\ AllStored(items, mergers', files', ds, 1)
                               /\ Reading(items, mergers'[1], Owned(mergers, 1), ds[1])
         /\ mergers'[1] \in MergerSet(items) /\ mergers'[1].index = 0
    <2>1. Startable(items, m, Owned(mergers, 1), pos)
      BY <1>4, <1>5, <1>6, <1>8, <1>10 DEF Startable
    <2> QED
      BY <1>9, <1>11, <2>1, StartStep
  <1>13. PICK ds \in CutSet : /\ AllStored(items, mergers', files', ds, 1)
                              /\ Reading(items, mergers'[1], Keys, ds[1])
    BY <1>4, <1>12
  <1>14. HandedOut(items, mergers') = {}
    BY <1>11, <1>12, NothingHandedOut
  <1>15. TypeOK'
    BY <1>1, <1>3, <1>11 DEF TypeOK
  <1>16. Outcome'
    BY <1>1, <1>3, <1>14, CompleteNone DEF Outcome, DiskClean
  <1>17. Contents(ds)'
    <2>1. Owned(mergers', 1) = Keys
      BY OwnedFirst
    <2>2. AllWaiting(items, mergers', ds, 1)
      BY DEF AllWaiting
    <2>3. Yielding(items, mergers', ds)
      BY <1>11, <1>13, <2>1, <2>2 DEF Yielding
    <2> QED
      BY <1>3, <1>11, <1>13, <2>3 DEF Contents
  <1> QED
    BY <1>15, <1>16, <1>17 DEF IInv

-----------------------------------------------------------------------------
(***************************************************************************)
(* Reading the files of a partition.                                       *)
(***************************************************************************)
LEMMA YieldingFacts ==
  ASSUME TypeOK, NEW cut \in CutSet, Contents(cut), pc = "yielding", NEW L, L = Len(mergers)
  PROVE  /\ L \in Nat \ {0} /\ Top = mergers[L] /\ mergers[L] \in MergerSet(items)
         /\ AllMergers(items, mergers, L) /\ AllStored(items, mergers, files, cut, L)
         /\ AllWaiting(items, mergers, cut, L)
         /\ ~Top.fill => Reading(items, mergers[L], Owned(mergers, L), cut[L])
         /\ Top.fill => Filling(items, mergers, cut, L)
         /\ Cuts(items, mergers[L], cut[L])
         /\ OnDisk(items, files, Directory(mergers, L), mergers[L], Owned(mergers, L), cut[L])
  <1>1. /\ L \in Nat \ {0} /\ Top = mergers[L] /\ mergers[L] \in MergerSet(items)
        /\ AllMergers(items, mergers, L)
    BY StateFacts DEF Top
  <1>2. /\ AllStored(items, mergers, files, cut, L)
        /\ AllWaiting(items, mergers, cut, L)
        /\ Reading(items, mergers[L], Owned(mergers, L), cut[L]) \/ Filling(items, mergers, cut, L)
    BY DEF Contents, Yielding
  <1>3. Reading(items, mergers[L], Owned(mergers, L), cut[L]) => ~Top.fill
    BY <1>1 DEF Reading
  <1>4. Filling(items, mergers, cut, L) => Top.fill
    BY <1>1 DEF Filling
  <1>5. L \in 1..L
    BY <1>1
  <1>6. Stored(items, mergers, files, cut, L)
    BY <1>2, <1>5 DEF AllStored
  <1> QED
    BY <1>1, <1>2, <1>3, <1>4, <1>6 DEF Stored

LEMMA WaitingKept ==
  ASSUME NEW its, NEW ms, NEW rs, NEW cut, NEW ds, NEW L \in Nat \ {0},
         AllWaiting(its, ms, cut, L), SameBelow(rs, ms, L), SameBelow(ds, cut, L)
  PROVE  AllWaiting(its, rs, ds, L)
  <1> SUFFICES ASSUME NEW n \in 1..(L - 1)
               PROVE  Waiting(its, rs, ds, n)
    BY DEF AllWaiting
  <1>1. Waiting(its, ms, cut, n) /\ rs[n] = ms[n] /\ ds[n] = cut[n]
    BY DEF AllWaiting, SameBelow
  <1>2. \A i \in 1..(n - 1) : rs[i].hash = ms[i].hash /\ rs[i].index = ms[i].index
    <2>1. \A i \in 1..(n - 1) : i \in 1..(L - 1)
      OBVIOUS
    <2> QED
      BY <2>1 DEF SameBelow
  <1>3. Owned(rs, n) = Owned(ms, n)
    BY <1>2, SameLevels
  <1> QED
    BY <1>1, <1>3 DEF Waiting

LEMMA SameBelowOwned ==
  ASSUME NEW ms, NEW rs, NEW L, SameBelow(rs, ms, L)
  PROVE  Owned(rs, L) = Owned(ms, L) /\ Directory(rs, L) = Directory(ms, L)
  BY SameLevels DEF SameBelow

LEMMA SameBelowSelf == \A ms, L : SameBelow(ms, ms, L)
  BY DEF SameBelow

(* One more file of the partition is merged into data.                     *)
LEMMA LoadOne ==
  ASSUME NEW its, NEW m \in MergerSet(its), NEW K \in SUBSET Keys, NEW c,
         Reading(its, m, K, c), Cuts(its, m, c), m.next < m.spills,
         NEW d, DictOf(its, d, Part(m, K, m.index), c[m.next], c[m.next + 1]),
         NEW q, q = [m EXCEPT !.next = m.next + 1],
         NEW r, r = MergeInto(q, d)
  PROVE  /\ r \in MergerSet(its) /\ Reading(its, r, K, c) /\ r.pdata = Empty
         /\ r.hash = m.hash /\ r.spills = m.spills /\ r.scale = m.scale
         /\ r.index = m.index /\ r.fill = m.fill
  <1>1. /\ m.next \in Nat /\ m.spills \in Nat /\ m.next + 1 \in Nat
        /\ m.next \in 0..(m.spills - 1) /\ m.next \in 0..m.spills /\ m.next + 1 \in 0..m.spills
        /\ m.next + 1 <= m.spills
    BY DEF MergerSet
  <1>2. /\ m.pdata = Empty /\ ~m.fill /\ Silent(its, m, K, c)
        /\ DictOf(its, m.data, Part(m, K, m.index), 0, c[m.next])
    BY DEF Reading, Silent
  <1>3. q \in MergerSet(its)
    BY <1>1 DEF MergerSet
  <1>4. /\ q.data = m.data /\ q.pdata = m.pdata /\ q.spills = m.spills /\ q.hash = m.hash
        /\ q.scale = m.scale /\ q.index = m.index /\ q.next = m.next + 1 /\ q.fill = m.fill
    BY DEF MergerSet
  <1>5. Part(m, K, m.index) \in SUBSET Keys
    BY DEF Part
  <1>6. d \in Dicts(its)
    BY <1>5, DictType
  <1>7. /\ r \in MergerSet(its) /\ Same(r, q) /\ r.pdata = Empty /\ r.data = MergeDicts(m.data, d)
    <2>1. q.pdata = Empty
      BY <1>2, <1>4
    <2>2. /\ r \in MergerSet(its) /\ Same(r, q) /\ r.pdata = Empty
          /\ r.data = MergeDicts(q.data, d)
      BY ONLY <1>3, <1>6, <2>1, MergeIntoFacts, r = MergeInto(q, d)
    <2> QED
      BY <1>4, <2>2
  <1>8. /\ r.spills = m.spills /\ r.hash = m.hash /\ r.scale = m.scale /\ r.index = m.index
        /\ r.next = m.next + 1 /\ r.fill = m.fill
    BY <1>4, <1>7 DEF Same
  <1>9. c[m.next] \in Nat /\ c[m.next + 1] \in Nat /\ 0 <= c[m.next] /\ c[m.next] <= c[m.next + 1]
    <2>1. c \in [Nat -> Nat] /\ c[m.next] <= c[m.next + 1]
      BY <1>1 DEF Cuts
    <2>2. c[m.next] \in Nat /\ c[m.next + 1] \in Nat
      BY <1>1, <2>1
    <2> QED
      BY <2>1, <2>2
  <1>10. DictOf(its, r.data, Part(m, K, m.index), 0, c[m.next + 1])
    BY <1>2, <1>7, <1>9, DictMerge
  <1>11. Part(r, K, r.index) = Part(m, K, m.index)
    BY <1>8 DEF Part
  <1>12. Silent(its, r, K, c)
    BY <1>2, <1>7, <1>8 DEF Silent
  <1>13. Reading(its, r, K, c)
    BY <1>1, <1>2, <1>8, <1>10, <1>11, <1>12 DEF Reading
  <1> QED
    BY <1>7, <1>8, <1>13

(* A merger for the partition, above the one that has found it too large.  *)
Created(m) ==
  /\ m.data = Empty /\ m.pdata = NoDicts /\ m.spills = 0
  /\ m.index = 0 /\ m.next = 0 /\ m.fill

LEMMA CutOfCreated ==
  ASSUME NEW cut \in CutSet, NEW L \in Nat
  PROVE  \E ds \in CutSet : SameBelow(ds, cut, L + 1) /\ ds[L + 1] = [i \in Nat |-> 0]
  <1> DEFINE d == [i \in Nat |-> 0]
             ds == [cut EXCEPT ![L + 1] = d]
  <1>1. d \in [Nat -> Nat] /\ L + 1 \in Nat
    OBVIOUS
  <1> HIDE DEF d
  <1>2. ASSUME NEW S, NEW f \in [Nat -> S], NEW x \in S, NEW g, g = [f EXCEPT ![L + 1] = x]
        PROVE  g \in [Nat -> S] /\ g[L + 1] = x /\ SameBelow(g, f, L + 1)
    <2>1. \A n \in 1..((L + 1) - 1) : n \in Nat /\ n # L + 1
      OBVIOUS
    <2> QED
      BY <1>1, <1>2, <2>1 DEF SameBelow
  <1>3. ds \in CutSet /\ ds[L + 1] = d /\ SameBelow(ds, cut, L + 1)
    BY <1>1, <1>2 DEF CutSet
  <1> QED
    BY <1>3 DEF d

LEMMA RepartitionStep ==
  ASSUME NEW its, NEW ms, NEW rs, NEW fs, NEW cut \in CutSet, NEW L \in Nat \ {0},
         AllMergers(its, ms, L), AllStored(its, ms, fs, cut, L), AllWaiting(its, ms, cut, L),
         ms[L].index < Partitions, Reading(its, ms[L], Owned(ms, L), cut[L]),
         SameBelow(rs, ms, L),
         rs[L].hash = ms[L].hash, rs[L].spills = ms[L].spills, rs[L].index = ms[L].index,
         rs[L].pdata = Empty, ~rs[L].fill, Created(rs[L + 1])
  PROVE  \E ds \in CutSet : /\ AllStored(its, rs, fs, ds, L + 1)
                            /\ AllWaiting(its, rs, ds, L + 1)
                            /\ Filling(its, rs, ds, L + 1)
  <1>1. PICK ds \in CutSet : SameBelow(ds, cut, L + 1) /\ ds[L + 1] = [i \in Nat |-> 0]
    BY CutOfCreated
  <1> DEFINE zero == [i \in Nat |-> 0]
  <1>2. zero \in [Nat -> Nat] /\ zero[0] = 0
    OBVIOUS
  <1>3. ds[L + 1] = zero
    BY <1>1
  <1> HIDE DEF zero
  <1>4. /\ L + 1 \in Nat \ {0} /\ (L + 1) - 1 = L /\ L \in 1..L /\ L + 1 > 1
        /\ \A n \in 1..(L + 1) : n \in 1..L \/ n = L + 1
        /\ \A n \in 1..L : n = L \/ n \in 1..(L - 1)
        /\ \A n \in 1..(L - 1) : n \in 1..L
    OBVIOUS
  <1>5. \A n \in 1..L : ds[n] = cut[n]
    BY <1>1, <1>4 DEF SameBelow
  <1>6. AllStored(its, rs, fs, cut, L)
    BY KeepStep
  <1>7. ASSUME NEW n \in 1..L
        PROVE  Stored(its, rs, fs, ds, n)
    BY <1>5, <1>6 DEF AllStored, Stored
  <1>8. Stored(its, rs, fs, ds, L + 1)
    <2>1. rs[L + 1].spills = 0
      BY DEF Created
    <2>2. \A s \in 0..(0 - 1) : FALSE
      OBVIOUS
    <2>3. OnDisk(its, fs, Directory(rs, L + 1), rs[L + 1], Owned(rs, L + 1), ds[L + 1])
      BY <2>1, <2>2 DEF OnDisk
    <2>4. \A s \in 0..0 : s = 0
      OBVIOUS
    <2>5. zero[0] <= Len(its)
      <3>1. Cuts(its, ms[L], cut[L]) /\ ms[L].spills \in Nat
        BY <1>4 DEF AllStored, Stored, AllMergers, MergerSet
      <3>2. 0 \in 0..ms[L].spills
        BY <3>1, Upto
      <3> QED
        BY <1>2, <3>1, <3>2 DEF Cuts
    <2>6. Cuts(its, rs[L + 1], ds[L + 1])
      BY <1>2, <1>3, <2>1, <2>2, <2>4, <2>5 DEF Cuts
    <2> QED
      BY <2>3, <2>6 DEF Stored
  <1>9. AllStored(its, rs, fs, ds, L + 1)
    BY <1>4, <1>7, <1>8 DEF AllStored
  <1>10. AllWaiting(its, rs, ds, L + 1)
    <2>1. SameBelow(ds, cut, L)
      BY <1>4, <1>5 DEF SameBelow
    <2>2. AllWaiting(its, rs, ds, L)
      BY <2>1, WaitingKept
    <2>3. Silent(its, ms[L], Owned(ms, L), cut[L])
      BY DEF Reading
    <2>4. Owned(rs, L) = Owned(ms, L) /\ ds[L] = cut[L]
      BY <1>4, <1>5, SameBelowOwned
    <2>5. Silent(its, rs[L], Owned(rs, L), ds[L])
      BY <2>3, <2>4 DEF Silent
    <2>6. Waiting(its, rs, ds, L)
      BY <2>5 DEF Waiting
    <2> QED
      BY <1>4, <2>2, <2>6 DEF AllWaiting
  <1>11. Filling(its, rs, ds, L + 1)
    <2>1. NoDicts # Empty /\ \A p \in Parts : NoDicts[p] = Empty
      BY EmptyFacts
    <2>2. /\ rs[L + 1].data = Empty /\ rs[L + 1].pdata = NoDicts /\ rs[L + 1].spills = 0
          /\ rs[L + 1].index = 0 /\ rs[L + 1].next = 0 /\ rs[L + 1].fill
      BY DEF Created
    <2>3. cut[L][0] = 0 /\ rs[L].spills \in Nat
      BY <1>4 DEF AllStored, Stored, Cuts, AllMergers, MergerSet
    <2>4. ds[L][0] = 0
      BY <1>4, <1>5, <2>3
    <2>5. \A J : DictOf(its, Empty, J, 0, 0)
      BY AtNone, DictEmpty
    <2>6. Memory(its, rs[L + 1], Owned(rs, L + 1), ds[L + 1], 0)
      BY <1>2, <1>3, <2>1, <2>2, <2>5 DEF Memory
    <2>7. 0 <= rs[L].spills
      BY <2>3
    <2> QED
      BY <1>4, <2>1, <2>2, <2>4, <2>6, <2>7 DEF Filling
  <1> QED
    BY <1>9, <1>10, <1>11

LEMMA LoadFileStep ==
  ASSUME IInv, LoadFile
  PROVE  IInv'
  <1>1. TypeOK /\ Outcome
    BY DEF IInv
  <1>2. PICK cut \in CutSet : Contents(cut)
    BY DEF IInv
  <1> DEFINE L == Len(mergers)
             q == [Top EXCEPT !.next = Top.next + 1]
             d == File(L, Top.next, Top.index)
             m == MergeInto(q, d)
             K == Owned(mergers, L)
  <1>3. /\ pc = "yielding" /\ ~Top.fill /\ Top.index < Partitions /\ Top.next < Top.spills
        /\ items' = items /\ pos' = pos /\ pc' = pc /\ files' = files /\ yielded' = yielded
        /\ Becomes(m) \/ Repartition(m)
    BY DEF LoadFile, Loading, Becomes
  <1>4. /\ L \in Nat \ {0} /\ Top = mergers[L] /\ mergers[L] \in MergerSet(items)
        /\ AllMergers(items, mergers, L) /\ AllStored(items, mergers, files, cut, L)
        /\ AllWaiting(items, mergers, cut, L)
        /\ Reading(items, mergers[L], K, cut[L])
        /\ Cuts(items, mergers[L], cut[L])
        /\ OnDisk(items, files, Directory(mergers, L), mergers[L], K, cut[L])
    BY <1>1, <1>2, <1>3, YieldingFacts
  <1>5. K \in SUBSET Keys
    BY OwnedKeys
  <1>6. DictOf(items, d, Part(mergers[L], K, Top.index), cut[L][Top.next], cut[L][Top.next + 1])
    <2>1. Dir(L) = Directory(mergers, L)
      BY DEF Dir, Directory
    <2>2. Top.next \in 0..(mergers[L].spills - 1) /\ Top.index \in mergers[L].index..(Partitions - 1)
      <3>1. /\ mergers[L].next \in Nat /\ mergers[L].spills \in Nat /\ mergers[L].index \in Nat
            /\ mergers[L].next < mergers[L].spills /\ mergers[L].index < Partitions
            /\ Partitions \in Nat
        BY <1>3, <1>4, PartsFacts DEF MergerSet
      <3> HIDE DEF L
      <3> QED
        BY <1>4, <3>1
    <2> QED
      BY <1>4, <2>1, <2>2 DEF OnDisk, File
  <1>7. q = [mergers[L] EXCEPT !.next = mergers[L].next + 1] /\ m = MergeInto(q, d)
    BY <1>4
  <1> HIDE DEF L, m, d, q, K
  <1>8. /\ m \in MergerSet(items) /\ Reading(items, m, K, cut[L]) /\ m.pdata = Empty
        /\ m.hash = mergers[L].hash /\ m.spills = mergers[L].spills
        /\ m.scale = mergers[L].scale /\ m.index = mergers[L].index /\ m.fill = mergers[L].fill
    <2>1. mergers[L].next < mergers[L].spills
      BY <1>3, <1>4
    <2>2. DictOf(items, d, Part(mergers[L], K, mergers[L].index),
                 cut[L][mergers[L].next], cut[L][mergers[L].next + 1])
      BY <1>4, <1>6
    <2> QED
      BY <1>4, <1>5, <1>7, <2>1, <2>2, LoadOne
  <1>9. CASE Becomes(m)
    <2>1. /\ mergers' \in Seq(MergerSet(items)) /\ Len(mergers') = L
          /\ mergers'[L] = m /\ SameBelow(mergers', mergers, L)
      BY <1>1, <1>8, <1>9, BecomesFacts DEF L
    <2>2. AllStored(items, mergers', files', cut, L)
      BY <1>3, <1>4, <1>8, <2>1, KeepStep
    <2>3. AllWaiting(items, mergers', cut, L) /\ Owned(mergers', L) = K
      BY <1>4, <2>1, WaitingKept, SameBelowSelf, SameBelowOwned DEF K
    <2>4. Yielding(items, mergers', cut)
      BY <1>8, <2>1, <2>3 DEF Yielding
    <2>5. HandedOut(items, mergers') = HandedOut(items, mergers)
      <3>1. \A n \in 1..L : n = L \/ n \in 1..(L - 1)
        BY <1>4
      <3>2. \A n \in 1..L : mergers'[n].hash = mergers[n].hash /\ mergers'[n].index = mergers[n].index
        BY <1>8, <2>1, <3>1 DEF SameBelow
      <3>3. L = Len(mergers) /\ Len(mergers') = Len(mergers) /\ Len(mergers) \in Nat
        BY <1>4, <2>1 DEF L
      <3> QED
        BY <3>2, <3>3, SameHandedOut
    <2>6. TypeOK'
      BY <1>1, <1>3, <1>4, <2>1 DEF TypeOK
    <2>7. Outcome'
      BY <1>1, <1>3, <2>5 DEF Outcome, DiskClean
    <2>8. Contents(cut)'
      BY <1>3, <2>1, <2>2, <2>4 DEF Contents
    <2> QED
      BY <2>6, <2>7, <2>8 DEF IInv
  <1>10. CASE Repartition(m)
    <2> DEFINE t == [m EXCEPT !.data = Empty]
               low == SetTop(t)
    <2>1. PICK hash \in Hashes :
             mergers' = Append(low, NewMerger(hash, m.scale * Partitions, NoDicts, TRUE))
      BY <1>10 DEF Repartition
    <2> DEFINE new == NewMerger(hash, m.scale * Partitions, NoDicts, TRUE)
    <2>2. /\ t \in MergerSet(items) /\ t.hash = m.hash /\ t.spills = m.spills
          /\ t.index = m.index /\ t.pdata = Empty /\ t.fill = m.fill
      BY <1>8, EmptyFacts DEF MergerSet
    <2>3. new \in MergerSet(items) /\ Created(new) /\ new.hash = hash
      <3>1. m.scale * Partitions \in Nat
        <4>1. m.scale \in Nat /\ Partitions \in Nat
          BY <1>8, PartsFacts DEF MergerSet
        <4> QED
          BY <4>1
      <3>2. Empty \in Dicts(items) /\ NoDicts \in [Parts -> Dicts(items)] /\ 0 \in 0..Partitions
        BY EmptyFacts, PartsFacts
      <3> QED
        BY <3>1, <3>2 DEF NewMerger, MergerSet, Created
    <2> HIDE DEF t, new
    <2>4. /\ low \in Seq(MergerSet(items)) /\ Len(low) = L /\ low[L] = t
          /\ \A i \in 1..L : i # L => low[i] = mergers[i]
      BY <1>1, <2>2, ReplaceTop DEF TypeOK, SetTop, L
    <2>5. mergers' = Append(low, new)
      BY <2>1 DEF new
    <2> HIDE DEF low
    <2>6. /\ mergers' \in Seq(MergerSet(items)) /\ Len(mergers') = L + 1
          /\ mergers'[L + 1] = new /\ mergers'[L] = t
          /\ \A i \in 1..L : i # L => mergers'[i] = mergers[i]
      BY <1>4, <2>3, <2>4, <2>5
    <2>7. \A i \in 1..(L - 1) : i \in 1..L /\ i # L
      BY <1>4
    <2>8. SameBelow(mergers', mergers, L)
      BY <2>6, <2>7 DEF SameBelow
    <2>9. PICK ds \in CutSet : /\ AllStored(items, mergers', files', ds, L + 1)
                               /\ AllWaiting(items, mergers', ds, L + 1)
                               /\ Filling(items, mergers', ds, L + 1)
      <3>1. /\ mergers[L].index < Partitions /\ ~mergers'[L].fill
            /\ mergers'[L].hash = mergers[L].hash /\ mergers'[L].spills = mergers[L].spills
            /\ mergers'[L].index = mergers[L].index /\ mergers'[L].pdata = Empty
        BY <1>3, <1>4, <1>8, <2>2, <2>6
      <3>2. Created(mergers'[L + 1]) /\ Reading(items, mergers[L], Owned(mergers, L), cut[L])
        BY <1>4, <2>3, <2>6 DEF K
      <3> QED
        BY <1>3, <1>4, <2>8, <3>1, <3>2, RepartitionStep
    <2>10. Yielding(items, mergers', ds)
      BY <2>6, <2>9 DEF Yielding
    <2>11. HandedOut(items, mergers') = HandedOut(items, mergers)
      <3>1. /\ \A n \in 1..(L + 1) : n = L + 1 \/ n \in 1..L
            /\ \A n \in 1..L : n \in 1..(L + 1) /\ (n = L \/ n \in 1..(L - 1))
            /\ \A n \in 1..L : \A i \in 1..(n - 1) : i \in 1..(L - 1)
        BY <1>4
      <3>2. \A n \in 1..L : mergers'[n].hash = mergers[n].hash /\ mergers'[n].index = mergers[n].index
        BY <1>8, <2>2, <2>6 
      <3>3. \A n \in 1..L : Owned(mergers', n) = Owned(mergers, n)
        <4> TAKE n \in 1..L
        <4>1. \A i \in 1..(n - 1) : i \in 1..L
          BY <1>4
        <4> QED
          BY <3>2, <4>1, SameLevels
      <3>4. \A k \in Keys : ~(mergers'[L + 1].hash[k] < mergers'[L + 1].index)
        <4>1. \A k \in Keys : hash[k] \in Nat
          BY <2>1, PartsFacts DEF Hashes
        <4>2. mergers'[L + 1].hash = hash /\ mergers'[L + 1].index = 0
          BY <2>3, <2>6 DEF Created
        <4>3. \A j \in Nat : ~(j < 0)
          OBVIOUS
        <4> QED
          BY <4>1, <4>2, <4>3
      <3>5. Len(mergers) = L
        BY DEF L
      <3> QED
        BY <2>6, <3>1, <3>2, <3>3, <3>4, <3>5 DEF HandedOut
    <2>12. TypeOK'
      <3>1. L + 1 > 0
        BY <1>4
      <3> QED
        BY <1>1, <1>3, <2>6, <3>1 DEF TypeOK
    <2>13. Outcome'
      BY <1>1, <1>3, <2>11 DEF Outcome, DiskClean
    <2>14. Contents(ds)'
      BY <1>3, <2>6, <2>9, <2>10 DEF Contents
    <2> QED
      BY <2>12, <2>13, <2>14 DEF IInv
  <1> QED
    BY <1>3, <1>9, <1>10

-----------------------------------------------------------------------------
(***************************************************************************)
(* The end of a partition.                                                 *)
(***************************************************************************)
(* Every file of the first L mergers is still there, but for those of the  *)
(* partition the L-th was reading.                                         *)
FilesKept(fs, gs, ms, L) ==
  \A n \in 1..L : \A s, p :
    LET f == <<Directory(ms, n), s, p>>
    IN  f \in DOMAIN fs /\ (n # L \/ p # ms[L].index) => f \in DOMAIN gs /\ gs[f] = fs[f]

LEMMA PartitionThrough ==
  ASSUME NEW its, NEW ms, NEW rs, NEW fs, NEW gs, NEW cut, NEW L \in Nat \ {0},
         AllMergers(its, ms, L), AllStored(its, ms, fs, cut, L), SameBelow(rs, ms, L),
         rs[L].hash = ms[L].hash, rs[L].spills = ms[L].spills, rs[L].index = ms[L].index + 1,
         FilesKept(fs, gs, ms, L)
  PROVE  AllStored(its, rs, gs, cut, L)
  <1> SUFFICES ASSUME NEW n \in 1..L
               PROVE  Stored(its, rs, gs, cut, n)
    BY DEF AllStored
  <1>1. Stored(its, ms, fs, cut, n) /\ ms[n].index \in Nat
    BY DEF AllStored, AllMergers, MergerSet
  <1>2. n = L \/ n \in 1..(L - 1)
    OBVIOUS
  <1>3. \A i \in 1..(n - 1) : i \in 1..(L - 1)
    OBVIOUS
  <1>4. \A i \in 1..(n - 1) : rs[i].hash = ms[i].hash /\ rs[i].index = ms[i].index
    BY <1>3 DEF SameBelow
  <1>5. CASE n = L
    <2>1. rs[n].index \in Nat /\ ms[n].index <= rs[n].index
      BY <1>1, <1>5
    <2>2. \A p \in rs[n].index..(Partitions - 1) : p # ms[L].index
      BY <1>1, <1>5
    <2>3. \A s \in 0..(ms[n].spills - 1), p \in rs[n].index..(Partitions - 1) :
            <<Directory(ms, n), s, p>> \in DOMAIN fs =>
              /\ <<Directory(ms, n), s, p>> \in DOMAIN gs
              /\ gs[<<Directory(ms, n), s, p>>] = fs[<<Directory(ms, n), s, p>>]
      BY <1>5, <2>2 DEF FilesKept
    <2> QED
      BY <1>1, <1>4, <1>5, <2>1, <2>3, StoredKept
  <1>6. CASE n # L
    <2>1. rs[n] = ms[n]
      BY <1>2, <1>6 DEF SameBelow
    <2>2. ms[n].index <= rs[n].index
      BY <1>1, <2>1
    <2>3. \A s \in 0..(ms[n].spills - 1), p \in rs[n].index..(Partitions - 1) :
            <<Directory(ms, n), s, p>> \in DOMAIN fs =>
              /\ <<Directory(ms, n), s, p>> \in DOMAIN gs
              /\ gs[<<Directory(ms, n), s, p>>] = fs[<<Directory(ms, n), s, p>>]
      BY <1>6 DEF FilesKept
    <2> QED
      BY <1>1, <1>4, <2>1, <2>2, <2>3, StoredKept
  <1> QED
    BY <1>5, <1>6

(* The merger starts on the next partition.                                *)
LEMMA NextPartitionFacts ==
  ASSUME NEW its, NEW m \in MergerSet(its), m.index < Partitions, NEW r, r = NextPartition(m)
  PROVE  /\ r \in MergerSet(its) /\ r.hash = m.hash /\ r.spills = m.spills
         /\ r.scale = m.scale /\ r.index = m.index + 1
         /\ \A K, c : Silent(its, m, K, c) /\ ~m.fill /\ c[0] = 0 => Reading(its, r, K, c)
  <1>1. m.index + 1 \in 0..Partitions
    <2>1. m.index \in Nat /\ Partitions \in Nat
      BY PartsFacts DEF MergerSet
    <2> QED
      BY <2>1
  <1>2. Empty \in Dicts(its)
    BY EmptyFacts
  <1>3. r = [m EXCEPT !.data = Empty, !.index = m.index + 1, !.next = 0]
    BY DEF NextPartition
  <1>4. /\ r \in MergerSet(its) /\ r.data = Empty /\ r.pdata = m.pdata /\ r.hash = m.hash
        /\ r.spills = m.spills /\ r.scale = m.scale /\ r.index = m.index + 1 /\ r.next = 0
        /\ r.fill = m.fill /\ r.spills \in Nat
    BY ONLY <1>1, <1>2, <1>3, m \in MergerSet(its) DEF MergerSet
  <1>5. 0 <= r.spills
    BY <1>4
  <1>6. \A J : DictOf(its, Empty, J, 0, 0)
    BY AtNone, DictEmpty
  <1>7. ASSUME NEW K, NEW c, Silent(its, m, K, c), ~m.fill, c[0] = 0
        PROVE  Reading(its, r, K, c)
    BY <1>4, <1>5, <1>6, <1>7 DEF Reading, Silent
  <1> QED
    BY <1>4, <1>7

(* The keys of the partition the L-th merger reads are not handed out yet. *)
LEMMA PartitionNew ==
  ASSUME NEW its, NEW ms, NEW L \in Nat \ {0}, Len(ms) = L, AllMergers(its, ms, L),
         NEW k \in Part(ms[L], Owned(ms, L), ms[L].index)
  PROVE  k \notin HandedOut(its, ms)
  <1>1. k \in Owned(ms, L) /\ ms[L].hash[k] = ms[L].index
    BY DEF Part
  <1>2. ASSUME NEW n \in 1..L
        PROVE  ms[n].hash[k] = ms[n].index /\ ms[n].index \in Nat
    <2>1. n = L \/ n \in 1..(L - 1)
      OBVIOUS
    <2>2. ms[n].index \in Nat
      BY DEF AllMergers, MergerSet
    <2>3. ms[n].hash[k] = ms[n].index
      BY <1>1, <2>1 DEF Owned
    <2> QED
      BY <2>2, <2>3
  <1>3. \A i \in Nat : ~(i < i)
    OBVIOUS
  <1> QED
    BY <1>2, <1>3 DEF HandedOut

(* Once the L-th merger is through with it, they are.                      *)
LEMMA PartitionHandedOut ==
  ASSUME NEW its, NEW ms, NEW rs, NEW L \in Nat \ {0}, Len(ms) = L, Len(rs) = L,
         AllMergers(its, ms, L), SameBelow(rs, ms, L),
         rs[L].hash = ms[L].hash, rs[L].index = ms[L].index + 1
  PROVE  HandedOut(its, rs) =
           HandedOut(its, ms) \union {k \in Part(ms[L], Owned(ms, L), ms[L].index) :
                                        At(its, k, 0, Len(its)) # {}}
  <1>1. /\ \A n \in 1..L : n = L \/ n \in 1..(L - 1)
        /\ L \in 1..L
    OBVIOUS
  <1>2. \A n \in 1..L : Owned(rs, n) = Owned(ms, n)
    <2> TAKE n \in 1..L
    <2>1. \A i \in 1..(n - 1) : i \in 1..(L - 1)
      OBVIOUS
    <2> QED
      BY <2>1, SameLevels DEF SameBelow
  <1>3. \A n \in 1..(L - 1) : rs[n].hash = ms[n].hash /\ rs[n].index = ms[n].index
    BY DEF SameBelow
  <1>4. ASSUME NEW k \in Keys
        PROVE  rs[L].hash[k] < rs[L].index <=>
                 ms[L].hash[k] < ms[L].index \/ ms[L].hash[k] = ms[L].index
    <2>1. ms[L].hash[k] \in Parts /\ ms[L].index \in Nat
      BY <1>1 DEF AllMergers, MergerSet, Hashes
    <2>2. ms[L].hash[k] \in Nat
      BY <2>1, PartsFacts
    <2>3. \A i, j \in Nat : i < j + 1 <=> i < j \/ i = j
      OBVIOUS
    <2> QED
      BY <2>1, <2>2, <2>3
  <1>5. \A n : Owned(ms, n) \subseteq Keys
    BY OwnedKeys
  <1>6. ASSUME NEW k \in Keys
        PROVE  (\E n \in 1..L : k \in Owned(rs, n) /\ rs[n].hash[k] < rs[n].index) <=>
                 \/ \E n \in 1..L : k \in Owned(ms, n) /\ ms[n].hash[k] < ms[n].index
                 \/ k \in Owned(ms, L) /\ ms[L].hash[k] = ms[L].index
    BY <1>1, <1>2, <1>3, <1>4
  <1> QED
    BY <1>5, <1>6 DEF HandedOut, Part

LEMMA YieldPartitionStep ==
  ASSUME IInv, YieldPartition
  PROVE  IInv'
  <1>1. TypeOK /\ Outcome
    BY DEF IInv
  <1>2. PICK cut \in CutSet : Contents(cut)
    BY DEF IInv
  <1> DEFINE L == Len(mergers)
             K == Owned(mergers, L)
             m == NextPartition(Top)
  <1>3. /\ pc = "yielding" /\ ~Top.fill /\ Top.index < Partitions /\ Top.next = Top.spills
        /\ items' = items /\ pos' = pos /\ pc' = pc
        /\ yielded' = Append(yielded, Top.data) /\ files' = FilesLeft(L) /\ Becomes(m)
    BY DEF YieldPartition, Loading, Becomes
  <1>4. /\ L \in Nat \ {0} /\ Top = mergers[L] /\ mergers[L] \in MergerSet(items)
        /\ AllMergers(items, mergers, L) /\ AllStored(items, mergers, files, cut, L)
        /\ AllWaiting(items, mergers, cut, L)
        /\ Reading(items, mergers[L], K, cut[L])
        /\ Cuts(items, mergers[L], cut[L])
    BY <1>1, <1>2, <1>3, YieldingFacts
  <1>5. L = Len(mergers)
    OBVIOUS
  <1>6. \A i \in 1..L : Dir(i) = Directory(mergers, i)
    BY DEF Dir, Directory
  <1> HIDE DEF L, K, m
  <1>7. /\ m \in MergerSet(items) /\ m.hash = mergers[L].hash /\ m.spills = mergers[L].spills
        /\ m.index = mergers[L].index + 1 /\ Reading(items, m, K, cut[L])
    <2>1. m = NextPartition(mergers[L]) /\ mergers[L].index < Partitions /\ ~mergers[L].fill
      BY <1>3, <1>4 DEF m
    <2>2. Silent(items, mergers[L], K, cut[L]) /\ cut[L][0] = 0
      BY <1>4 DEF Reading, Cuts
    <2> QED
      BY <1>4, <2>1, <2>2, NextPartitionFacts
  <1>8. /\ mergers' \in Seq(MergerSet(items)) /\ Len(mergers') = L
        /\ mergers'[L] = m /\ SameBelow(mergers', mergers, L)
    BY <1>1, <1>3, <1>5, <1>7, BecomesFacts
  <1>9. FilesKept(files, files', mergers, L)
    <2> SUFFICES ASSUME NEW n \in 1..L, NEW s, NEW p,
                        <<Directory(mergers, n), s, p>> \in DOMAIN files,
                        n # L \/ p # mergers[L].index
                 PROVE  /\ <<Directory(mergers, n), s, p>> \in DOMAIN files'
                        /\ files'[<<Directory(mergers, n), s, p>>]
                             = files[<<Directory(mergers, n), s, p>>]
      BY DEF FilesKept
    <2>1. n # L => Directory(mergers, n) # Directory(mergers, L)
      BY <1>4, OtherDirectory
    <2>2. Dir(L) = Directory(mergers, L)
      BY DEF Dir, Directory
    <2> QED
      BY <1>3, <2>1, <2>2 DEF FilesLeft
  <1>10. AllStored(items, mergers', files', cut, L)
    BY <1>4, <1>7, <1>8, <1>9, PartitionThrough
  <1>11. AllWaiting(items, mergers', cut, L) /\ Owned(mergers', L) = K
    BY <1>4, <1>8, WaitingKept, SameBelowSelf, SameBelowOwned DEF K
  <1>12. Yielding(items, mergers', cut)
    BY <1>7, <1>8, <1>11 DEF Yielding
  <1> DEFINE ks == {k \in Part(mergers[L], K, mergers[L].index) :
                      At(items, k, 0, Len(items)) # {}}
  <1>13. HandedOut(items, mergers') = HandedOut(items, mergers) \union ks
    BY <1>4, <1>5, <1>7, <1>8, PartitionHandedOut DEF K
  <1>14. DictOf(items, Top.data, Part(mergers[L], K, mergers[L].index), 0, Len(items))
    <2>1. /\ DictOf(items, Top.data, Part(mergers[L], K, mergers[L].index), 0, cut[L][mergers[L].spills])
          /\ \A k \in K : At(items, k, cut[L][mergers[L].spills], Len(items)) = {}
      BY <1>3, <1>4 DEF Reading, Silent
    <2>2. /\ cut[L][mergers[L].spills] \in Nat /\ 0 <= cut[L][mergers[L].spills]
          /\ cut[L][mergers[L].spills] <= Len(items) /\ Len(items) \in Nat
      <3>1. mergers[L].spills \in Nat /\ Len(items) \in Nat
        BY <1>1, <1>4, StateFacts DEF MergerSet
      <3>2. mergers[L].spills \in 0..mergers[L].spills
        BY <3>1, Upto
      <3>3. cut[L][mergers[L].spills] \in Nat /\ cut[L][mergers[L].spills] <= Len(items)
        BY <1>4, <3>1, <3>2 DEF Cuts
      <3> QED
        BY <3>1, <3>3
    <2>3. \A k \in Part(mergers[L], K, mergers[L].index) : k \in K
      BY DEF Part
    <2> QED
      BY <2>1, <2>2, <2>3, DictExtend
  <1>15. DOMAIN Top.data = ks
    BY <1>14 DEF DictOf
  <1>16. Complete(items, yielded', HandedOut(items, mergers'))
    <2>1. Complete(items, yielded, HandedOut(items, mergers)) /\ yielded \in Seq(Dicts(items))
      BY <1>1, <1>3 DEF Outcome, TypeOK
    <2>2. Top.data \in Dicts(items)
      BY <1>4 DEF MergerSet
    <2>3. \A k \in DOMAIN Top.data : k \notin HandedOut(items, mergers)
      BY <1>4, <1>5, <1>15, PartitionNew DEF K
    <2>4. \A k \in DOMAIN Top.data : Segment(items, Top.data[k], k, 0, Len(items))
      BY <1>14 DEF DictOf
    <2>5. HandedOut(items, mergers') = HandedOut(items, mergers) \union DOMAIN Top.data
      BY <1>13, <1>15
    <2> QED
      BY <1>3, <2>1, <2>2, <2>3, <2>4, <2>5, CompleteAppend
  <1>17. TypeOK'
    <2>1. Top.data \in Dicts(items)
      BY <1>4 DEF MergerSet
    <2>2. yielded' \in Seq(Dicts(items))
      BY <1>1, <1>3, <2>1 DEF TypeOK
    <2> QED
      BY <1>1, <1>3, <1>4, <1>8, <2>2 DEF TypeOK
  <1>18. Outcome'
    BY <1>3, <1>16 DEF Outcome, DiskClean
  <1>19. Contents(cut)'
    BY <1>3, <1>8, <1>10, <1>12 DEF Contents
  <1> QED
    BY <1>17, <1>18, <1>19 DEF IInv

-----------------------------------------------------------------------------
(***************************************************************************)
(* Collecting the files of a partition of the merger below.                *)
(***************************************************************************)
(* What follows for every one of the merger's changes while it collects.   *)
LEMMA FillingFacts ==
  ASSUME TypeOK, NEW cut \in CutSet, Contents(cut), pc = "yielding", Top.fill,
         NEW n, n = Len(mergers) - 1
  PROVE  /\ n \in Nat \ {0} /\ Len(mergers) = n + 1 /\ Top = mergers[n + 1]
         /\ mergers[n] \in MergerSet(items) /\ mergers[n + 1] \in MergerSet(items)
         /\ mergers[n].index < Partitions
         /\ Silent(items, mergers[n], Owned(mergers, n), cut[n])
         /\ Filling(items, mergers, cut, n + 1)
         /\ Cuts(items, mergers[n], cut[n]) /\ Cuts(items, mergers[n + 1], cut[n + 1])
         /\ OnDisk(items, files, Dir(n), mergers[n], Owned(mergers, n), cut[n])
         /\ AllMergers(items, mergers, n + 1) /\ AllStored(items, mergers, files, cut, n + 1)
         /\ AllWaiting(items, mergers, cut, n + 1)
         /\ Owned(mergers, n + 1) = Part(mergers[n], Owned(mergers, n), mergers[n].index)
  <1> DEFINE L == Len(mergers)
  <1>1. /\ L \in Nat \ {0} /\ Top = mergers[L] /\ mergers[L] \in MergerSet(items)
        /\ AllMergers(items, mergers, L) /\ AllStored(items, mergers, files, cut, L)
        /\ AllWaiting(items, mergers, cut, L) /\ Filling(items, mergers, cut, L)
        /\ Cuts(items, mergers[L], cut[L])
    BY YieldingFacts
  <1>2. n = L - 1 /\ L > 1
    BY <1>1 DEF Filling
  <1> HIDE DEF L
  <1>3. n \in Nat \ {0} /\ L = n + 1 /\ n \in 1..L /\ n \in 1..(L - 1)
    BY <1>1, <1>2
  <1>4. Waiting(items, mergers, cut, n) /\ Stored(items, mergers, files, cut, n)
        /\ mergers[n] \in MergerSet(items)
    BY <1>1, <1>3 DEF AllWaiting, AllStored, AllMergers
  <1>5. Dir(n) = Directory(mergers, n)
    BY DEF Dir, Directory
  <1>6. Owned(mergers, n + 1) = Part(mergers[n], Owned(mergers, n), mergers[n].index)
    BY <1>3, OwnedNext
  <1> QED
    BY <1>1, <1>3, <1>4, <1>5, <1>6 DEF Waiting, Stored, L

LEMMA FillOne ==
  ASSUME NEW its, NEW m \in MergerSet(its), NEW K \in SUBSET Keys, NEW c, Cuts(its, m, c),
         NEW a \in Nat, NEW b \in Nat, a <= b, Memory(its, m, K, c, a), m.pdata # Empty,
         NEW d, DictOf(its, d, K, a, b),
         NEW q, q = [m EXCEPT !.next = m.next + 1], NEW r, r = MergeInto(q, d)
  PROVE  /\ r \in MergerSet(its) /\ Memory(its, r, K, c, b) /\ r.pdata # Empty
         /\ r.hash = m.hash /\ r.spills = m.spills /\ r.scale = m.scale
         /\ r.index = m.index /\ r.fill = m.fill /\ r.next = m.next + 1
  <1>1. m.next + 1 \in Nat
    BY DEF MergerSet
  <1>2. /\ q \in MergerSet(its) /\ q.data = m.data /\ q.pdata = m.pdata /\ q.spills = m.spills
        /\ q.hash = m.hash /\ q.scale = m.scale /\ q.index = m.index /\ q.next = m.next + 1
        /\ q.fill = m.fill
    BY ONLY <1>1, m \in MergerSet(its), q = [m EXCEPT !.next = m.next + 1] DEF MergerSet
  <1>3. Memory(its, q, K, c, a)
    BY <1>2 DEF Memory, Part
  <1>4. d \in Dicts(its)
    BY DictType
  <1>5. /\ r \in MergerSet(its) /\ Same(r, q)
        /\ q.pdata # Empty => r.pdata # Empty
    BY ONLY <1>2, <1>4, MergeIntoFacts, r = MergeInto(q, d)
  <1>6. c \in [Nat -> Nat] /\ c[0] = 0
    BY DEF Cuts
  <1>7. Memory(its, r, K, c, b)
    <2>1. Memory(its, MergeInto(q, d), K, c, b)
      BY <1>2, <1>3, <1>6, Collect
    <2> QED
      BY <2>1
  <1> QED
    BY ONLY <1>2, <1>5, <1>7, m.pdata # Empty DEF Same

LEMMA FillStep ==
  ASSUME IInv, Fill
  PROVE  IInv'
  <1>1. TypeOK /\ Outcome
    BY DEF IInv
  <1>2. PICK cut \in CutSet : Contents(cut)
    BY DEF IInv
  <1> DEFINE n == Len(mergers) - 1
             L == n + 1
             K == Owned(mergers, L)
             e == cut[n][Top.next]
  <1>3. /\ pc = "yielding" /\ Top.fill
        /\ items' = items /\ pos' = pos /\ pc' = pc /\ yielded' = yielded
    BY DEF Fill
  <1>4. /\ n \in Nat \ {0} /\ Len(mergers) = L /\ Top = mergers[L]
        /\ mergers[n] \in MergerSet(items) /\ mergers[L] \in MergerSet(items)
        /\ mergers[n].index < Partitions
        /\ Silent(items, mergers[n], Owned(mergers, n), cut[n])
        /\ Filling(items, mergers, cut, L)
        /\ Cuts(items, mergers[n], cut[n]) /\ Cuts(items, mergers[L], cut[L])
        /\ OnDisk(items, files, Dir(n), mergers[n], Owned(mergers, n), cut[n])
        /\ AllMergers(items, mergers, L) /\ AllStored(items, mergers, files, cut, L)
        /\ AllWaiting(items, mergers, cut, L)
        /\ K = Part(mergers[n], Owned(mergers, n), mergers[n].index)
    BY <1>1, <1>2, <1>3, FillingFacts
  <1>12. L = n + 1 /\ K = Owned(mergers, L) /\ e = cut[n][Top.next] /\ n = Len(mergers) - 1
    OBVIOUS
  <1>13. L - 1 = n
    BY <1>4
  <1> HIDE DEF n, L, K, e
  <1>5. /\ mergers[L].fill /\ mergers[L].index = 0 /\ mergers[L].pdata # Empty
        /\ mergers[L].next <= mergers[n].spills
        /\ Memory(items, mergers[L], K, cut[L], e)
    BY <1>4, <1>12, <1>13 DEF Filling
  <1>6. /\ L \in Nat \ {0} /\ n \in 1..(L - 1) /\ L \in 1..L
        /\ \A i \in 1..L : i = L \/ i \in 1..(L - 1)
        /\ Top.next \in Nat /\ mergers[n].spills \in Nat /\ Top.next + 1 \in Nat
        /\ Top.next \in 0..mergers[n].spills
    <2>1. n \in Nat \ {0} /\ L = n + 1
      BY <1>4, <1>12
    <2>2. L \in Nat \ {0} /\ n \in 1..(L - 1) /\ L \in 1..L
      BY ONLY <2>1
    <2>3. \A i \in 1..L : i = L \/ i \in 1..(L - 1)
      BY ONLY <2>1
    <2>4. mergers[L].next \in Nat /\ mergers[n].spills \in Nat
      BY <1>4 DEF MergerSet
    <2>5. Top.next \in 0..mergers[n].spills /\ Top.next \in Nat /\ Top.next + 1 \in Nat
      BY <1>4, <1>5, <2>4
    <2> QED
      BY <2>2, <2>3, <2>4, <2>5
  <1>7. e \in Nat /\ e <= Len(items) /\ Len(items) \in Nat
    BY <1>1, <1>4, <1>6, <1>12, StateFacts DEF Cuts
  <1>8. K \in SUBSET Keys
    BY <1>12, OwnedKeys
  <1>9. Top.next < mergers[n].spills \/ ~(Top.next < mergers[n].spills)
    OBVIOUS
  <1>10. ASSUME Top.next < mergers[n].spills
         PROVE  IInv'
    <2> DEFINE q == [Top EXCEPT !.next = Top.next + 1]
               d == File(n, Top.next, mergers[n].index)
               m == MergeInto(q, d)
               b == cut[n][Top.next + 1]
    <2>1. PerhapsSpill(m)
      BY <1>10, <1>12 DEF Fill
    <2>2. /\ Top.next \in 0..(mergers[n].spills - 1)
          /\ mergers[n].index \in mergers[n].index..(Partitions - 1)
          /\ Top.next + 1 \in 0..mergers[n].spills
          /\ Top.next + 1 <= mergers[n].spills
      <3>1. mergers[n].index \in Nat /\ Partitions \in Nat
        BY <1>4, PartsFacts DEF MergerSet
      <3> QED
        BY <1>4, <1>6, <1>10, <3>1
    <2>3. DictOf(items, d, K, e, b)
      BY <1>4, <1>12, <2>2 DEF OnDisk, File
    <2>4. e <= b /\ b \in Nat /\ b <= Len(items)
      <3>1. cut[n] \in [Nat -> Nat] /\ e <= b /\ b <= Len(items)
        BY <1>4, <1>12, <2>2 DEF Cuts
      <3>2. Top.next + 1 \in Nat
        BY <1>6
      <3> QED
        BY <3>1, <3>2
    <2>5. q = [mergers[L] EXCEPT !.next = mergers[L].next + 1] /\ m = MergeInto(q, d)
      BY <1>4
    <2>6. L = Len(mergers)
      BY <1>4
    <2>7. Top.next + 1 = mergers[L].next + 1
      BY <1>4
    <2> HIDE DEF b, d, q, m
    <2>8. /\ m \in MergerSet(items) /\ Memory(items, m, K, cut[L], b) /\ m.pdata # Empty
          /\ m.hash = mergers[L].hash /\ m.spills = mergers[L].spills /\ m.scale = mergers[L].scale
          /\ m.index = mergers[L].index /\ m.fill = mergers[L].fill /\ m.next = mergers[L].next + 1
      <3>1. /\ mergers[L] \in MergerSet(items) /\ Cuts(items, mergers[L], cut[L])
            /\ e \in Nat /\ b \in Nat /\ e <= b /\ Memory(items, mergers[L], K, cut[L], e)
            /\ mergers[L].pdata # Empty
        BY <1>4, <1>5, <1>7, <2>4
      <3> QED
        BY ONLY <1>8, <2>3, <2>5, <3>1, FillOne
    <2>9. Ready(items, mergers, files, cut, L, m, b)
      BY <1>4, <1>5, <1>6, <1>12, <2>4, <2>8 DEF Ready
    <2>10. /\ mergers' \in Seq(MergerSet(items)) /\ Len(mergers') = L
           /\ SameBelow(mergers', mergers, L)
           /\ MaySpill(m, mergers'[L], files, files', Directory(mergers, L))
      BY <1>1, <2>1, <2>6, <2>8, PerhapsSpillFacts
    <2>11. PICK ds \in CutSet : /\ SameBelow(ds, cut, L)
                                /\ AllStored(items, mergers', files', ds, L)
                                /\ Memory(items, mergers'[L], Owned(mergers, L), ds[L], b)
      BY <2>9, <2>10, PerhapsSpillStep
    <2>12. /\ mergers'[L].hash = m.hash /\ mergers'[L].index = 0 /\ mergers'[L].next = m.next
           /\ mergers'[L].fill = m.fill /\ mergers'[L].pdata # Empty
      <3>1. m \in MergerSet(items) /\ m.index = 0 /\ m.pdata # Empty
        BY <1>5, <2>8
      <3>2. MaySpill(m, mergers'[L], files, files', Directory(mergers, L))
        BY <2>10
      <3> QED
        BY ONLY <3>1, <3>2, MaySpillFields
    <2>13. AllWaiting(items, mergers', ds, L) /\ Owned(mergers', L) = K
      BY <1>4, <1>6, <1>12, <2>10, <2>11, WaitingKept, SameBelowOwned
    <2>14. mergers'[n] = mergers[n] /\ ds[n] = cut[n]
      BY <1>6, <2>10, <2>11 DEF SameBelow
    <2>15. Filling(items, mergers', ds, L)
      <3>1. L > 1 /\ mergers'[L].next <= mergers'[n].spills
        <4>1. L > 1
          BY <1>4, <1>12
        <4> QED
          BY <2>2, <2>7, <2>8, <2>12, <2>14, <4>1
      <3>2. ds[n][mergers'[L].next] = b
        BY <2>7, <2>8, <2>12, <2>14 DEF b
      <3> QED
        BY <1>5, <1>12, <1>13, <2>8, <2>11, <2>12, <2>13, <3>1, <3>2 DEF Filling
    <2>16. Yielding(items, mergers', ds)
      BY <2>10, <2>13, <2>15 DEF Yielding
    <2>17. HandedOut(items, mergers') = HandedOut(items, mergers)
      <3>1. \A i \in 1..L : mergers'[i].hash = mergers[i].hash /\ mergers'[i].index = mergers[i].index
        BY <1>5, <1>6, <2>8, <2>10, <2>12 DEF SameBelow
      <3>2. Len(mergers') = Len(mergers) /\ Len(mergers) \in Nat /\ L = Len(mergers)
        BY <1>6, <2>6, <2>10
      <3> QED
        BY <3>1, <3>2, SameHandedOut
    <2>18. TypeOK'
      BY <1>1, <1>3, <1>6, <2>10 DEF TypeOK
    <2>19. Outcome'
      BY <1>1, <1>3, <2>17 DEF Outcome, DiskClean
    <2>20. Contents(ds)'
      BY <1>3, <2>10, <2>11, <2>16 DEF Contents
    <2> QED
      BY <2>18, <2>19, <2>20 DEF IInv
  <1>11. ASSUME ~(Top.next < mergers[n].spills)
         PROVE  IInv'
    <2> DEFINE m == [Top EXCEPT !.next = 0, !.fill = FALSE]
    <2>1. StartFrom(m)
      BY <1>11, <1>12 DEF Fill, StartExternal, StartFrom
    <2>2. L = Len(mergers)
      BY <1>4
    <2>3. Top.next = mergers[n].spills
      BY <1>6, <1>11
    <2>4. m = [mergers[L] EXCEPT !.next = 0, !.fill = FALSE]
      BY <1>4
    <2>5. e = cut[n][mergers[n].spills]
      BY <1>12, <2>3
    <2> HIDE DEF m
    <2>6. /\ m \in MergerSet(items) /\ m.next = 0 /\ ~m.fill
          /\ m.hash = mergers[L].hash /\ m.spills = mergers[L].spills /\ m.index = mergers[L].index
          /\ m.pdata = mergers[L].pdata /\ m.data = mergers[L].data
      BY <1>4, <2>4 DEF MergerSet
    <2>7. Memory(items, m, K, cut[L], e)
      BY <1>5, <2>6 DEF Memory, Part
    <2>8. Ready(items, mergers, files, cut, L, m, e)
      BY <1>4, <1>5, <1>6, <1>7, <1>12, <2>6, <2>7 DEF Ready
    <2>9. Startable(items, m, K, e)
      <3>1. \A k \in Owned(mergers, n) : At(items, k, e, Len(items)) = {}
        BY <1>4, <2>5 DEF Silent
      <3>2. \A k \in K : k \in Owned(mergers, n)
        BY <1>4 DEF Part
      <3> QED
        BY <1>5, <1>7, <2>6, <3>1, <3>2 DEF Startable
    <2>10. /\ mergers' \in Seq(MergerSet(items)) /\ Len(mergers') = L
           /\ SameBelow(mergers', mergers, L)
           /\ Started(m, mergers'[L], files, files', Directory(mergers, L))
      BY <1>1, <2>1, <2>2, <2>6, StartFromFacts
    <2>11. /\ \E ds \in CutSet : /\ SameBelow(ds, cut, L)
                                 /\ AllStored(items, mergers', files', ds, L)
                                 /\ Reading(items, mergers'[L], Owned(mergers, L), ds[L])
           /\ mergers'[L].hash = m.hash /\ mergers'[L].index = 0
      BY <1>12, <2>8, <2>9, <2>10, StartStep
    <2>12. PICK ds \in CutSet : /\ SameBelow(ds, cut, L)
                                /\ AllStored(items, mergers', files', ds, L)
                                /\ Reading(items, mergers'[L], Owned(mergers, L), ds[L])
      BY <2>11
    <2>13. AllWaiting(items, mergers', ds, L) /\ Owned(mergers', L) = Owned(mergers, L)
      BY <1>4, <1>6, <2>10, <2>12, WaitingKept, SameBelowOwned
    <2>14. Yielding(items, mergers', ds)
      BY <2>10, <2>12, <2>13 DEF Yielding
    <2>15. HandedOut(items, mergers') = HandedOut(items, mergers)
      <3>1. \A i \in 1..L : mergers'[i].hash = mergers[i].hash /\ mergers'[i].index = mergers[i].index
        BY <1>5, <1>6, <2>6, <2>10, <2>11 DEF SameBelow
      <3>2. Len(mergers') = Len(mergers) /\ Len(mergers) \in Nat /\ L = Len(mergers)
        BY <1>6, <2>2, <2>10
      <3> QED
        BY <3>1, <3>2, SameHandedOut
    <2>16. TypeOK'
      BY <1>1, <1>3, <1>6, <2>10 DEF TypeOK
    <2>17. Outcome'
      BY <1>1, <1>3, <2>15 DEF Outcome, DiskClean
    <2>18. Contents(ds)'
      BY <1>3, <2>10, <2>12, <2>14 DEF Contents
    <2> QED
      BY <2>16, <2>17, <2>18 DEF IInv
  <1> QED
    BY <1>9, <1>10, <1>11

LEMMA CloseStep ==
  ASSUME IInv, Close
  PROVE  IInv'
  <1>1. TypeOK /\ Outcome
    BY DEF IInv
  <1>2. PICK cut \in CutSet : Contents(cut)
    BY DEF IInv
  <1>3. /\ pc = "yielding" /\ pc' = "closed" /\ files' = Empty
        /\ items' = items /\ pos' = pos /\ mergers' = mergers /\ yielded' = yielded
    BY DEF Close
  <1>4. HandedOut(items, mergers) \in SUBSET Keys
    BY DEF HandedOut
  <1>5. TypeOK'
    BY <1>1, <1>3 DEF TypeOK
  <1>6. Outcome'
    BY <1>1, <1>3, <1>4 DEF Outcome, DiskClean
  <1>7. Contents(cut)'
    BY <1>3 DEF Contents
  <1> QED
    BY <1>5, <1>6, <1>7 DEF IInv

LEMMA AbandonStep ==
  ASSUME IInv, Abandon
  PROVE  IInv'
  <1>1. TypeOK /\ Outcome
    BY DEF IInv
  <1>2. PICK cut \in CutSet : Contents(cut)
    BY DEF IInv
  <1>3. /\ pc \in {"merging", "items"} /\ pc' = "unread" /\ files' = files
        /\ items' = items /\ pos' = pos /\ mergers' = mergers /\ yielded' = yielded
    BY DEF Abandon
  <1>4. TypeOK'
    BY <1>1, <1>3 DEF TypeOK
  <1>5. Outcome'
    BY <1>1, <1>3 DEF Outcome, DiskClean
  <1>6. Contents(cut)'
    BY <1>3 DEF Contents
  <1> QED
    BY <1>4, <1>5, <1>6 DEF IInv

-----------------------------------------------------------------------------
(***************************************************************************)
(* A merger is through with all its partitions.                            *)
(***************************************************************************)
LEMMA AllHandedOut ==
  ASSUME NEW its, NEW ms, Len(ms) = 1, ms[1] \in MergerSet(its), ms[1].index = Partitions
  PROVE  HandedOut(its, ms) = AllKeys(its)
  <1>1. \A k \in Keys : ms[1].hash[k] \in Parts
    BY DEF MergerSet, Hashes
  <1>2. \A k \in Keys : k \in Owned(ms, 1) /\ ms[1].hash[k] < ms[1].index
    BY <1>1, PartsFacts, OwnedFirst
  <1>3. 1 \in 1..1
    OBVIOUS
  <1> QED
    BY <1>2, <1>3 DEF HandedOut, AllKeys

LEMMA PopHandedOut ==
  ASSUME NEW its, NEW ms, NEW rs, NEW n \in Nat \ {0}, Len(ms) = n + 1, Len(rs) = n,
         AllMergers(its, ms, n + 1), SameBelow(rs, ms, n),
         rs[n].hash = ms[n].hash, rs[n].index = ms[n].index + 1,
         ms[n + 1].index = Partitions
  PROVE  HandedOut(its, rs) = HandedOut(its, ms)
  <1>1. /\ \A i \in 1..n : i = n \/ i \in 1..(n - 1)
        /\ n \in 1..n /\ n \in 1..(n + 1) /\ (n + 1) \in 1..(n + 1)
        /\ \A i \in 1..(n + 1) : i = n + 1 \/ i \in 1..n
        /\ \A i \in 1..n : i \in 1..(n + 1)
        /\ \A i \in 1..(n - 1) : i \in 1..n
    OBVIOUS
  <1>2. \A i \in 1..n : Owned(rs, i) = Owned(ms, i)
    <2> TAKE i \in 1..n
    <2>1. \A j \in 1..(i - 1) : j \in 1..(n - 1)
      OBVIOUS
    <2> QED
      BY <2>1, SameLevels DEF SameBelow
  <1>3. \A i \in 1..(n - 1) : rs[i].hash = ms[i].hash /\ rs[i].index = ms[i].index
    BY DEF SameBelow
  <1>4. ms[n] \in MergerSet(its) /\ ms[n + 1] \in MergerSet(its)
    BY <1>1 DEF AllMergers
  <1>5. ASSUME NEW k \in Keys
        PROVE  /\ rs[n].hash[k] < rs[n].index <=>
                    ms[n].hash[k] < ms[n].index \/ ms[n].hash[k] = ms[n].index
               /\ ms[n + 1].hash[k] < ms[n + 1].index
    <2>1. ms[n].hash[k] \in Parts /\ ms[n].index \in Nat /\ ms[n + 1].hash[k] \in Parts
      BY <1>4 DEF MergerSet, Hashes
    <2>2. ms[n].hash[k] \in Nat
      BY <2>1, PartsFacts
    <2>3. \A i, j \in Nat : i < j + 1 <=> i < j \/ i = j
      OBVIOUS
    <2>4. ms[n + 1].hash[k] < ms[n + 1].index
      BY <2>1, PartsFacts
    <2> QED
      BY <2>1, <2>2, <2>3, <2>4
  <1>6. \A k : k \in Owned(ms, n + 1) <=> k \in Owned(ms, n) /\ ms[n].hash[k] = ms[n].index
    BY OwnedNext DEF Part
  <1>7. ASSUME NEW k \in Keys
        PROVE  (\E i \in 1..n : k \in Owned(rs, i) /\ rs[i].hash[k] < rs[i].index) <=>
                 \E i \in 1..(n + 1) : k \in Owned(ms, i) /\ ms[i].hash[k] < ms[i].index
    <2>1. ASSUME NEW i \in 1..n, k \in Owned(rs, i), rs[i].hash[k] < rs[i].index
          PROVE  \E j \in 1..(n + 1) : k \in Owned(ms, j) /\ ms[j].hash[k] < ms[j].index
      <3>1. CASE i = n
        BY <1>1, <1>2, <1>5, <1>6, <2>1, <3>1
      <3>2. CASE i \in 1..(n - 1)
        BY <1>1, <1>2, <1>3, <2>1, <3>2
      <3> QED
        BY <1>1, <3>1, <3>2
    <2>2. ASSUME NEW i \in 1..(n + 1), k \in Owned(ms, i), ms[i].hash[k] < ms[i].index
          PROVE  \E j \in 1..n : k \in Owned(rs, j) /\ rs[j].hash[k] < rs[j].index
      <3>1. CASE i = n + 1
        BY <1>1, <1>2, <1>5, <1>6, <2>2, <3>1
      <3>2. CASE i = n
        BY <1>1, <1>2, <1>5, <2>2, <3>2
      <3>3. CASE i \in 1..(n - 1)
        BY <1>1, <1>2, <1>3, <2>2, <3>3
      <3> QED
        BY <1>1, <3>1, <3>2, <3>3
    <2> QED
      BY <2>1, <2>2
  <1> QED
    BY <1>7 DEF HandedOut

LEMMA FrontFacts ==
  ASSUME NEW S, NEW s \in Seq(S), NEW n \in Nat, Len(s) = n + 1
  PROVE  /\ Front(s) \in Seq(S) /\ Len(Front(s)) = n
         /\ \A i \in 1..n : Front(s)[i] = s[i]
  BY DEF Front

(* A directory is not below one that has more levels.                      *)
LEMMA NotBelow ==
  ASSUME NEW ms, NEW n \in Nat \ {0}, NEW j \in 1..n
  PROVE  ~IsPrefix(Directory(ms, n + 1), Directory(ms, j))
  <1> DEFINE s == [i \in 1..((n + 1) - 1) |-> ms[i].index]
             t == [i \in 1..(j - 1) |-> ms[i].index]
  <1>1. n \in Nat /\ (n + 1) - 1 = n /\ j - 1 \in Nat /\ j - 1 < n
    OBVIOUS
  <1>2. ASSUME NEW l \in Nat, NEW f, DOMAIN f = 1..l, NEW T, f \in [1..l -> T]
        PROVE  Len(f) = l
    BY <1>2
  <1>3. Len(s) = n
    <2>1. DOMAIN s = 1..n /\ s \in [1..n -> {ms[i].index : i \in 1..n}]
      BY <1>1
    <2> HIDE DEF s
    <2> QED
      BY <1>1, <1>2, <2>1
  <1>4. Len(t) = j - 1
    <2>1. DOMAIN t = 1..(j - 1) /\ t \in [1..(j - 1) -> {ms[i].index : i \in 1..(j - 1)}]
      OBVIOUS
    <2> HIDE DEF t
    <2> QED
      BY <1>1, <1>2, <2>1
  <1>5. ~(Len(s) <= Len(t))
    BY <1>1, <1>3, <1>4
  <1> QED
    BY <1>5 DEF IsPrefix, Directory

LEMMA FinishStep ==
  ASSUME IInv, Finish
  PROVE  IInv'
  <1>1. TypeOK /\ Outcome
    BY DEF IInv
  <1>2. PICK cut \in CutSet : Contents(cut)
    BY DEF IInv
  <1> DEFINE n == Len(mergers) - 1
  <1>3. /\ pc = "yielding" /\ ~Top.fill /\ Top.index = Partitions
        /\ items' = items /\ pos' = pos /\ yielded' = yielded
    BY DEF Finish
  <1>4. /\ Len(mergers) \in Nat \ {0} /\ Top = mergers[Len(mergers)]
        /\ mergers[Len(mergers)] \in MergerSet(items)
        /\ AllMergers(items, mergers, Len(mergers))
        /\ AllStored(items, mergers, files, cut, Len(mergers))
        /\ AllWaiting(items, mergers, cut, Len(mergers))
    BY <1>1, <1>2, <1>3, YieldingFacts
  <1>5. Complete(items, yielded, HandedOut(items, mergers))
    BY <1>1, <1>3 DEF Outcome
  <1>6. ASSUME n = 0
        PROVE  IInv'
    <2>1. pc' = "done" /\ files' = Empty /\ mergers' = mergers
      BY <1>6 DEF Finish
    <2>2. Len(mergers) = 1
      BY <1>4, <1>6
    <2>3. HandedOut(items, mergers) = AllKeys(items)
      BY <1>3, <1>4, <2>2, AllHandedOut
    <2>4. TypeOK'
      BY <1>1, <1>3, <2>1 DEF TypeOK
    <2>5. Outcome'
      BY <1>3, <1>5, <2>1, <2>3 DEF Outcome, DiskClean
    <2>6. Contents(cut)'
      BY <2>1 DEF Contents
    <2> QED
      BY <2>4, <2>5, <2>6 DEF IInv
  <1>7. ASSUME n # 0
        PROVE  IInv'
    <2> DEFINE front == Front(mergers)
               below == {f \in DOMAIN files : IsPrefix(Dir(n + 1), f[1])}
               kept == DOMAIN FilesLeft(n) \ below
    <2>1. /\ mergers' = [front EXCEPT ![n] = NextPartition(front[n])]
          /\ files' = [f \in kept |-> files[f]] /\ pc' = pc
      BY <1>7 DEF Finish
    <2>2. n \in Nat \ {0} /\ Len(mergers) = n + 1
      BY <1>4, <1>7
    <2> HIDE DEF n
    <2>3. /\ n \in 1..n /\ n \in 1..((n + 1) - 1) /\ n \in 1..(n + 1) /\ (n + 1) \in 1..(n + 1)
          /\ \A i \in 1..(n - 1) : i \in 1..n /\ i # n
          /\ \A i \in 1..n : i \in 1..(n + 1)
          /\ \A i \in 1..(n - 1) : i \in 1..((n + 1) - 1)
      BY <2>2
    <2>4. /\ mergers[n] \in MergerSet(items) /\ mergers[n + 1].index = Partitions
          /\ AllMergers(items, mergers, n + 1) /\ AllMergers(items, mergers, n)
          /\ AllStored(items, mergers, files, cut, n)
          /\ Waiting(items, mergers, cut, n) /\ AllWaiting(items, mergers, cut, n)
      BY <1>3, <1>4, <2>2, <2>3 DEF AllMergers, AllStored, AllWaiting
    <2> DEFINE r == NextPartition(mergers[n])
    <2>5. cut[n][0] = 0
      BY <2>3, <2>4 DEF AllStored, Stored, Cuts
    <2>6. /\ r \in MergerSet(items) /\ r.hash = mergers[n].hash /\ r.spills = mergers[n].spills
          /\ r.index = mergers[n].index + 1 /\ Reading(items, r, Owned(mergers, n), cut[n])
      BY <2>4, <2>5, NextPartitionFacts DEF Waiting
    <2>7. /\ front \in Seq(MergerSet(items)) /\ Len(front) = n
          /\ \A i \in 1..n : front[i] = mergers[i]
      <3>1. mergers \in Seq(MergerSet(items)) /\ n \in Nat
        BY <1>1, <2>2 DEF TypeOK
      <3> QED
        BY ONLY <2>2, <3>1, FrontFacts
    <2> HIDE DEF front
    <2>8. mergers' = [front EXCEPT ![Len(front)] = r] /\ Len(front) > 0
      <3>1. front[n] = mergers[n] /\ Len(front) = n /\ n > 0
        BY <2>2, <2>3, <2>7
      <3>2. NextPartition(front[n]) = r
        BY <3>1
      <3> HIDE DEF r
      <3> QED
        BY <2>1, <3>1, <3>2
    <2> HIDE DEF r
    <2>9. /\ mergers' \in Seq(MergerSet(items)) /\ Len(mergers') = n /\ mergers'[n] = r
          /\ \A i \in 1..n : i # n => mergers'[i] = mergers[i]
      BY <2>6, <2>7, <2>8, ReplaceTop
    <2>10. SameBelow(mergers', mergers, n)
      BY <2>3, <2>9 DEF SameBelow
    <2>11. FilesKept(files, files', mergers, n)
      <3> SUFFICES ASSUME NEW j \in 1..n, NEW s, NEW p,
                          <<Directory(mergers, j), s, p>> \in DOMAIN files,
                          j # n \/ p # mergers[n].index
                   PROVE  /\ <<Directory(mergers, j), s, p>> \in DOMAIN files'
                          /\ files'[<<Directory(mergers, j), s, p>>]
                               = files[<<Directory(mergers, j), s, p>>]
        BY DEF FilesKept
      <3> DEFINE f == <<Directory(mergers, j), s, p>>
      <3>1. Dir(n) = Directory(mergers, n) /\ Dir(n + 1) = Directory(mergers, n + 1)
        BY DEF Dir, Directory
      <3>2. j \in Nat \ {0} /\ (j # n => Directory(mergers, j) # Directory(mergers, n))
        BY <2>2, OtherDirectory
      <3>3. f[1] = Directory(mergers, j) /\ f[3] = p
        OBVIOUS
      <3>4. f \in DOMAIN FilesLeft(n)
        BY <3>1, <3>2, <3>3 DEF FilesLeft
      <3>5. f \notin below
        BY <2>2, <3>1, <3>3, NotBelow
      <3> HIDE DEF f, below
      <3> QED
        BY <2>1, <3>4, <3>5 DEF f
    <2>12. AllStored(items, mergers', files', cut, n)
      BY <2>2, <2>4, <2>6, <2>9, <2>10, <2>11, PartitionThrough
    <2>13. AllWaiting(items, mergers', cut, n) /\ Owned(mergers', n) = Owned(mergers, n)
      BY <2>2, <2>4, <2>10, WaitingKept, SameBelowSelf, SameBelowOwned
    <2>14. Yielding(items, mergers', cut)
      BY <2>6, <2>9, <2>13 DEF Yielding
    <2>15. HandedOut(items, mergers') = HandedOut(items, mergers)
      BY <2>2, <2>4, <2>6, <2>9, <2>10, PopHandedOut
    <2>16. TypeOK'
      BY <1>1, <1>3, <2>1, <2>2, <2>9 DEF TypeOK
    <2>17. Outcome'
      BY <1>3, <1>5, <2>1, <2>15 DEF Outcome, DiskClean
    <2>18. Contents(cut)'
      BY <1>3, <2>1, <2>9, <2>12, <2>14 DEF Contents
    <2> QED
      BY <2>16, <2>17, <2>18 DEF IInv
  <1> QED
    BY <1>6, <1>7

-----------------------------------------------------------------------------
(***************************************************************************)
(* The theorems.                                                           *)
(***************************************************************************)
LEMMA InitIInv == Init => IInv
  <1> SUFFICES ASSUME Init
               PROVE  IInv
    OBVIOUS
  <1>1. PICK hash \in Hashes : mergers = <<NewMerger(hash, 1, Empty, FALSE)>>
    BY DEF Init
  <1>2. /\ items \in Inputs /\ pos = 0 /\ pc = "merging" /\ files = Empty /\ yielded = <<>>
    BY DEF Init
  <1> DEFINE m == NewMerger(hash, 1, Empty, FALSE)
             zero == [i \in Nat |-> 0]
             cut == [n \in Nat |-> zero]
  <1>3. /\ m \in MergerSet(items) /\ m.data = Empty /\ m.pdata = Empty /\ m.spills = 0
        /\ m.index = 0 /\ ~m.fill
    <2>1. Empty \in Dicts(items) /\ 0 \in 0..Partitions
      BY EmptyFacts, PartsFacts
    <2> QED
      BY <2>1 DEF NewMerger, MergerSet
  <1> HIDE DEF m
  <1>4. mergers = <<m>>
    BY <1>1 DEF m
  <1>5. mergers \in Seq(MergerSet(items)) /\ Len(mergers) = 1 /\ mergers[1] = m
    BY <1>3, <1>4
  <1>6. Len(items) \in Nat
    BY <1>2, ExternalMergerAssumption
  <1>7. TypeOK
    BY <1>2, <1>5, <1>6 DEF TypeOK
  <1>8. Outcome
    BY <1>2 DEF Outcome, DiskClean
  <1>9. zero \in [Nat -> Nat] /\ zero[0] = 0
    OBVIOUS
  <1> HIDE DEF zero
  <1>10. cut \in CutSet /\ cut[1] = zero
    BY <1>9 DEF CutSet
  <1> HIDE DEF cut
  <1>11. Contents(cut)
    <2>1. (\A i \in 1..1 : i = 1) /\ (\A s \in 0..(0 - 1) : FALSE) /\ (\A s \in 0..0 : s = 0)
      OBVIOUS
    <2>2. Cuts(items, mergers[1], cut[1])
      <3>1. mergers[1].spills = 0 /\ cut[1] = zero /\ 0 <= Len(items)
        BY <1>3, <1>5, <1>6, <1>10
      <3> QED
        BY ONLY <1>9, <2>1, <3>1 DEF Cuts
    <2>3. OnDisk(items, files, Directory(mergers, 1), mergers[1], Owned(mergers, 1), cut[1])
      BY <1>3, <1>5, <2>1 DEF OnDisk
    <2>4. AllStored(items, mergers, files, cut, 1)
      BY <2>1, <2>2, <2>3 DEF AllStored, Stored
    <2>5. DictOf(items, Empty, Keys, 0, 0)
      BY AtNone, DictEmpty
    <2>6. Memory(items, mergers[1], Keys, cut[1], 0)
      BY <1>3, <1>5, <1>9, <1>10, <2>5 DEF Memory
    <2>7. Collecting(items, mergers, files, cut, 0)
      BY <1>2, <1>3, <1>5, <2>6 DEF Collecting
    <2> QED
      BY <1>2, <1>5, <2>4, <2>7 DEF Contents
  <1> QED
    BY <1>7, <1>8, <1>10, <1>11 DEF IInv

LEMMA NextIInv == IInv /\ [Next]_vars => IInv'
  <1> SUFFICES ASSUME IInv, [Next]_vars
               PROVE  IInv'
    OBVIOUS
  <1>1. CASE MergeValue
    BY <1>1, MergeValueStep
  <1>2. CASE EndMerge
    BY <1>2, EndMergeStep
  <1>3. CASE ItemsInMemory
    BY <1>3, ItemsInMemoryStep
  <1>4. CASE ItemsExternal
    BY <1>4, ItemsExternalStep
  <1>5. CASE LoadFile
    BY <1>5, LoadFileStep
  <1>6. CASE YieldPartition
    BY <1>6, YieldPartitionStep
  <1>7. CASE Fill
    BY <1>7, FillStep
  <1>8. CASE Finish
    BY <1>8, FinishStep
  <1>9. CASE Close
    BY <1>9, CloseStep
  <1>10. CASE UNCHANGED vars
    BY <1>10 DEF IInv, TypeOK, Outcome, DiskClean, Contents, vars
  <1>11. CASE Abandon
    BY <1>11, AbandonStep
  <1> QED
    BY <1>1, <1>2, <1>3, <1>4, <1>5, <1>6, <1>7, <1>8, <1>9, <1>10, <1>11 DEF Next

(* The state always has its type, and every stretch of the items is where  *)
(* the mergers look for it.                                                *)
THEOREM MergerInvariant == Spec => []IInv
  BY InitIInv, NextIInv, PTL DEF Spec

LEMMA SegmentAllValues ==
  ASSUME Len(items) \in Nat, NEW s, NEW k, Segment(items, s, k, 0, Len(items))
  PROVE  AllValues(s, k)
  <1>1. At(items, k, 0, Len(items)) = {i \in 1..Len(items) : items[i][1] = k}
    BY DEF At
  <1> QED
    BY <1>1 DEF Segment, AllValues

LEMMA IInvHandedOut == IInv => HandedOutOnceComplete
  <1> SUFFICES ASSUME IInv
               PROVE  HandedOutOnceComplete
    OBVIOUS
  <1>1. TypeOK /\ Outcome
    BY DEF IInv
  <1>2. Len(items) \in Nat /\ \A i \in 1..Len(items) : items[i][1] \in Keys
    BY <1>1, StateFacts
  <1>3. PICK K : Complete(items, yielded, K) /\ (pc = "done" => K = AllKeys(items))
    <2>1. CASE pc \in {"merging", "items", "unread"}
      BY <1>1, <2>1, CompleteNone DEF Outcome
    <2>2. CASE pc = "yielding"
      BY <1>1, <2>2 DEF Outcome
    <2>3. CASE pc = "done"
      BY <1>1, <2>3 DEF Outcome
    <2>4. CASE pc = "closed"
      BY <1>1, <2>4 DEF Outcome
    <2> QED
      BY <1>1, <2>1, <2>2, <2>3, <2>4 DEF TypeOK
  <1>4. AllKeys(items) = {items[i][1] : i \in 1..Len(items)}
    <2>1. \A k : At(items, k, 0, Len(items)) = {i \in 1..Len(items) : items[i][1] = k}
      BY <1>2 DEF At
    <2> QED
      BY <1>2, <2>1 DEF AllKeys
  <1>5. \A i \in 1..Len(yielded) : \A k \in DOMAIN yielded[i] : AllValues(yielded[i][k], k)
    BY <1>2, <1>3, SegmentAllValues DEF Complete
  <1> QED
    BY <1>3, <1>4, <1>5 DEF Complete, HandedOutOnceComplete

(* Whatever the memory reads, every key is handed out once and with all    *)
(* its values in order, and in the end every key has been.                 *)
THEOREM MergerHandedOutOnceComplete == Spec => []HandedOutOnceComplete
  BY MergerInvariant, IInvHandedOut, PTL

(* No spill file outlives an iterator that is exhausted, or given up once  *)
(* it was begun, however deep the recursion and whatever was spilled.  Of  *)
(* one that is dropped unread it says nothing: that one leaves its files.  *)
THEOREM MergerDiskClean == Spec => []DiskClean
  <1>1. IInv => DiskClean
    BY DEF IInv, Outcome
  <1> QED
    BY <1>1, MergerInvariant, PTL

-----------------------------------------------------------------------------
(***************************************************************************)
(* How deep mergers are created.  The scale of a merger is what its depth  *)
(* makes of it, and a merger is only created above one whose scale, times  *)
(* the number of partitions, is below the limit.                           *)
(***************************************************************************)
Scaled(ms) ==
  \A n \in 1..Len(ms) : /\ ms[n].scale = Partitions ^ (n - 1)
                        /\ n > 1 => ms[n].scale < MAX_TOTAL_PARTITIONS

(* The laws of exponentiation, which the provers do not know.              *)
PowerLaws ==
  /\ \A p \in Nat : p ^ 0 = 1
  /\ \A p, n \in Nat : p ^ (n + 1) = (p ^ n) * p

HasScale(m, c) == "scale" \in DOMAIN m /\ m.scale = c

LEMMA HasScaleFacts ==
  ASSUME NEW m, NEW c, HasScale(m, c)
  PROVE  /\ \A x : HasScale([m EXCEPT !.data = x], c)
         /\ \A x : HasScale([m EXCEPT !.pdata = x], c)
         /\ \A x : HasScale([m EXCEPT !.next = x], c)
         /\ \A x, y : HasScale([m EXCEPT !.next = x, !.fill = y], c)
         /\ \A x, y, z : HasScale([m EXCEPT !.data = x, !.pdata = y, !.spills = z], c)
         /\ \A x, y, z : HasScale([m EXCEPT !.data = x, !.index = y, !.next = z], c)
  BY DEF HasScale

LEMMA MergeIntoScale ==
  ASSUME NEW m, NEW c, HasScale(m, c), NEW d
  PROVE  HasScale(MergeInto(m, d), c)
  <1>1. CASE m.pdata = Empty
    BY <1>1, HasScaleFacts DEF MergeInto
  <1>2. CASE m.pdata # Empty
    BY <1>2, HasScaleFacts DEF MergeInto
  <1> QED
    BY <1>1, <1>2

LEMMA SpilledScale ==
  ASSUME NEW m, NEW c, HasScale(m, c)
  PROVE  HasScale(Spilled(m), c) /\ HasScale([Spilled(m) EXCEPT !.pdata = Empty], c)
  <1>1. HasScale(Spilled(m), c)
    BY HasScaleFacts DEF Spilled
  <1> QED
    BY <1>1, HasScaleFacts

LEMMA MergerScale ==
  ASSUME NEW its, NEW m \in MergerSet(its)
  PROVE  HasScale(m, m.scale)
  BY DEF MergerSet, HasScale

(* The last merger is replaced by one of the same scale.                   *)
LEMMA ScaleKept ==
  ASSUME TypeOK, TypeOK', Scaled(mergers), NEW m, HasScale(m, Top.scale), Becomes(m)
  PROVE  Scaled(mergers')
  <1>1. mergers' = [mergers EXCEPT ![Len(mergers)] = m]
    BY DEF Becomes, SetTop
  <1>2. /\ DOMAIN mergers = 1..Len(mergers) /\ Len(mergers) \in Nat /\ Len(mergers) > 0
        /\ DOMAIN mergers' = 1..Len(mergers') /\ Len(mergers') \in Nat
    BY DEF TypeOK
  <1>3. DOMAIN mergers' = DOMAIN mergers
    BY <1>1
  <1>4. Len(mergers') = Len(mergers)
    <2>1. \A a, b \in Nat : 1..a = 1..b => a = b
      <3> SUFFICES ASSUME NEW a \in Nat, NEW b \in Nat, a < b
                   PROVE  1..a # 1..b
        OBVIOUS
      <3>1. b \in 1..b /\ b \notin 1..a
        OBVIOUS
      <3> QED
        BY <3>1
    <2> QED
      BY <1>2, <1>3, <2>1
  <1>5. \A n \in 1..Len(mergers) : mergers'[n].scale = mergers[n].scale
    <2> TAKE n \in 1..Len(mergers)
    <2>1. CASE n = Len(mergers)
      BY <1>1, <1>2, <2>1 DEF HasScale, Top
    <2>2. CASE n # Len(mergers)
      BY <1>1, <1>2, <2>2
    <2> QED
      BY <2>1, <2>2
  <1> QED
    BY <1>4, <1>5 DEF Scaled

LEMMA ScalePerhapsSpill ==
  ASSUME TypeOK, TypeOK', Scaled(mergers), NEW m, HasScale(m, Top.scale), PerhapsSpill(m)
  PROVE  Scaled(mergers')
  <1>1. Becomes(m) \/ Becomes(Spilled(m))
    BY DEF PerhapsSpill, Keep, Spill, Becomes
  <1>2. HasScale(Spilled(m), Top.scale)
    BY SpilledScale
  <1> QED
    BY <1>1, <1>2, ScaleKept

LEMMA ScaleStart ==
  ASSUME TypeOK, TypeOK', Scaled(mergers), StartExternal
  PROVE  Scaled(mergers')
  <1> DEFINE m == [Top EXCEPT !.next = 0, !.fill = FALSE]
  <1>1. Top \in MergerSet(items)
    BY StateFacts
  <1>2. HasScale(m, Top.scale)
    BY <1>1, MergerScale, HasScaleFacts
  <1>3. \/ Becomes([Spilled(m) EXCEPT !.pdata = Empty])
        \/ Becomes([m EXCEPT !.pdata = Empty])
    BY DEF StartExternal, Keep, Becomes
  <1> HIDE DEF m
  <1>4. /\ HasScale([Spilled(m) EXCEPT !.pdata = Empty], Top.scale)
        /\ HasScale([m EXCEPT !.pdata = Empty], Top.scale)
    BY <1>2, SpilledScale, HasScaleFacts
  <1> QED
    BY <1>3, <1>4, ScaleKept

LEMMA SeqOfMore ==
  ASSUME NEW A, NEW B, NEW s \in Seq(A)
  PROVE  s \in Seq(A \union B)
  OBVIOUS

LEMMA ScaleRepartition ==
  ASSUME PowerLaws, TypeOK, Scaled(mergers), NEW m, HasScale(m, Top.scale), Repartition(m),
         Top.scale * Partitions < MAX_TOTAL_PARTITIONS
  PROVE  Scaled(mergers')
  <1> DEFINE L == Len(mergers)
             t == [m EXCEPT !.data = Empty]
             low == SetTop(t)
  <1>1. PICK hash \in Hashes :
          mergers' = Append(low, NewMerger(hash, m.scale * Partitions, NoDicts, TRUE))
    BY DEF Repartition
  <1> DEFINE new == NewMerger(hash, m.scale * Partitions, NoDicts, TRUE)
             S == MergerSet(items) \union {t, new}
  <1>2. mergers \in Seq(MergerSet(items)) /\ L \in Nat \ {0}
    BY StateFacts DEF TypeOK
  <1>3. mergers \in Seq(S) /\ L > 0 /\ t \in S /\ new \in S
    <2> HIDE DEF t, new, L
    <2>1. mergers \in Seq(S)
      BY <1>2, SeqOfMore
    <2>2. t \in S /\ new \in S
      OBVIOUS
    <2> QED
      BY ONLY <1>2, <2>1, <2>2
  <1>4. HasScale(t, Top.scale)
    BY HasScaleFacts
  <1>5. new.scale = Top.scale * Partitions
    BY DEF NewMerger, HasScale
  <1>6. mergers' = Append(low, new) /\ low = [mergers EXCEPT ![Len(mergers)] = t]
    BY <1>1 DEF SetTop
  <1>7. L = Len(mergers) /\ Top = mergers[L]
    BY DEF Top
  <1> HIDE DEF t, new, S, L, low
  <1>8. /\ low \in Seq(S) /\ Len(low) = L /\ low[L] = t
        /\ \A i \in 1..L : i # L => low[i] = mergers[i]
    BY <1>3, <1>6, <1>7, ReplaceTop
  <1>9. /\ Len(mergers') = L + 1 /\ mergers'[L + 1] = new
        /\ \A i \in 1..L : mergers'[i] = low[i]
    BY <1>2, <1>3, <1>6, <1>8
  <1>10. \A i \in 1..L : mergers'[i].scale = mergers[i].scale
    BY <1>4, <1>7, <1>8, <1>9 DEF HasScale
  <1>11. \A i \in 1..L : /\ mergers[i].scale = Partitions ^ (i - 1)
                         /\ i > 1 => mergers[i].scale < MAX_TOTAL_PARTITIONS
    BY <1>7 DEF Scaled
  <1>12. L \in 1..L /\ L - 1 \in Nat /\ (L - 1) + 1 = L /\ (L + 1) - 1 = L /\ Partitions \in Nat
    BY <1>2, PartsFacts
  <1>13. Partitions ^ L = Top.scale * Partitions
    <2>1. Partitions ^ ((L - 1) + 1) = (Partitions ^ (L - 1)) * Partitions
      BY <1>12 DEF PowerLaws
    <2>2. Top.scale = Partitions ^ (L - 1)
      BY <1>7, <1>11, <1>12
    <2> QED
      BY <1>12, <2>1, <2>2
  <1>14. \A i \in 1..(L + 1) : i \in 1..L \/ i = L + 1
    BY <1>2
  <1>15. ASSUME NEW i \in 1..(L + 1)
         PROVE  /\ mergers'[i].scale = Partitions ^ (i - 1)
                /\ i > 1 => mergers'[i].scale < MAX_TOTAL_PARTITIONS
    <2>1. CASE i \in 1..L
      BY <1>10, <1>11, <2>1
    <2>2. CASE i = L + 1
      BY <1>5, <1>9, <1>12, <1>13, <2>2
    <2> QED
      BY <1>14, <2>1, <2>2
  <1> QED
    BY <1>9, <1>15 DEF Scaled

LEMMA ScaleFinish ==
  ASSUME TypeOK, Scaled(mergers), Finish
  PROVE  Scaled(mergers')
  <1> DEFINE n == Len(mergers) - 1
  <1>1. mergers \in Seq(MergerSet(items)) /\ Len(mergers) \in Nat \ {0}
    BY StateFacts DEF TypeOK
  <1>2. CASE n = 0
    BY <1>2 DEF Finish
  <1>3. CASE n # 0
    <2> DEFINE front == Front(mergers)
               r == NextPartition(front[n])
               S == MergerSet(items) \union {r}
    <2>1. mergers' = [front EXCEPT ![n] = r]
      BY <1>3 DEF Finish
    <2>2. n \in Nat \ {0} /\ Len(mergers) = n + 1 /\ n \in Nat
      BY <1>1, <1>3
    <2> HIDE DEF n
    <2>3. /\ front \in Seq(MergerSet(items)) /\ Len(front) = n
          /\ \A i \in 1..n : front[i] = mergers[i]
      BY ONLY <1>1, <2>2, FrontFacts
    <2> HIDE DEF front
    <2>4. front \in Seq(S) /\ r \in S /\ Len(front) > 0 /\ n \in 1..n
      BY <2>2, <2>3
    <2>5. HasScale(r, front[n].scale)
      <3>1. front[n] \in MergerSet(items)
        BY <2>3, <2>4
      <3> QED
        BY <3>1, MergerScale, HasScaleFacts DEF NextPartition
    <2> HIDE DEF r, S
    <2>6. /\ Len(mergers') = n /\ mergers'[n] = r
          /\ \A i \in 1..n : i # n => mergers'[i] = front[i]
      BY <2>1, <2>3, <2>4, ReplaceTop
    <2>7. \A i \in 1..n : i \in 1..Len(mergers) /\ mergers'[i].scale = mergers[i].scale
      BY <2>2, <2>3, <2>5, <2>6 DEF HasScale
    <2> QED
      BY <2>6, <2>7 DEF Scaled
  <1> QED
    BY <1>2, <1>3

LEMMA NextScaled ==
  ASSUME PowerLaws, IInv, IInv', Scaled(mergers), [Next]_vars
  PROVE  Scaled(mergers')
  <1>1. TypeOK /\ TypeOK'
    BY DEF IInv
  <1>2. Top \in MergerSet(items)
    BY <1>1, StateFacts
  <1>3. HasScale(Top, Top.scale)
    BY <1>2, MergerScale
  <1>4. \A x : HasScale([Top EXCEPT !.next = x], Top.scale)
    BY <1>3, HasScaleFacts
  <1>5. CASE MergeValue
    BY <1>1, <1>3, <1>5, MergeIntoScale, ScalePerhapsSpill DEF MergeValue
  <1>6. CASE EndMerge
    BY <1>1, <1>3, <1>6, ScalePerhapsSpill DEF EndMerge
  <1>7. CASE ItemsInMemory
    BY <1>7 DEF ItemsInMemory
  <1>8. CASE ItemsExternal
    BY <1>1, <1>8, ScaleStart DEF ItemsExternal
  <1>9. CASE LoadFile
    <2> DEFINE m == MergeInto([Top EXCEPT !.next = Top.next + 1],
                              File(Len(mergers), Top.next, Top.index))
    <2>1. HasScale(m, Top.scale)
      BY <1>4, MergeIntoScale
    <2>2. \/ Becomes(m)
          \/ Top.scale * Partitions < MAX_TOTAL_PARTITIONS /\ Repartition(m)
      BY <1>9 DEF LoadFile, Becomes
    <2> HIDE DEF m
    <2> QED
      BY <1>1, <2>1, <2>2, ScaleKept, ScaleRepartition
  <1>10. CASE YieldPartition
    <2>1. HasScale(NextPartition(Top), Top.scale)
      BY <1>3, HasScaleFacts DEF NextPartition
    <2>2. Becomes(NextPartition(Top))
      BY <1>10 DEF YieldPartition, Becomes
    <2> QED
      BY <1>1, <2>1, <2>2, ScaleKept
  <1>11. CASE Fill
    <2> DEFINE n == Len(mergers) - 1
               m == MergeInto([Top EXCEPT !.next = Top.next + 1],
                              File(n, Top.next, mergers[n].index))
    <2>1. HasScale(m, Top.scale)
      BY <1>4, MergeIntoScale
    <2>2. PerhapsSpill(m) \/ StartExternal
      BY <1>11 DEF Fill
    <2> HIDE DEF m
    <2> QED
      BY <1>1, <2>1, <2>2, ScalePerhapsSpill, ScaleStart
  <1>12. CASE Finish
    BY <1>1, <1>12, ScaleFinish
  <1>13. CASE Close
    BY <1>13 DEF Close
  <1>14. CASE Abandon
    BY <1>14 DEF Abandon
  <1>15. CASE UNCHANGED vars
    BY <1>15 DEF vars
  <1> QED
    BY <1>5, <1>6, <1>7, <1>8, <1>9, <1>10, <1>11, <1>12, <1>13, <1>14, <1>15 DEF Next

(* Partitions are split again only so deep that the number of them all     *)
(* stays below the limit.                                                  *)
THEOREM MergerRecursionBounded ==
  ASSUME PowerLaws
  PROVE  Spec => []RecursionBounded
  <1>1. Init => Scaled(mergers)
    <2> SUFFICES ASSUME Init
                 PROVE  Scaled(mergers)
      OBVIOUS
    <2>1. PICK hash \in Hashes : mergers = <<NewMerger(hash, 1, Empty, FALSE)>>
      BY DEF Init
    <2>2. Len(mergers) = 1 /\ mergers[1] = NewMerger(hash, 1, Empty, FALSE)
      BY <2>1
    <2>3. mergers[1].scale = 1
      BY <2>2 DEF NewMerger
    <2>4. Partitions ^ 0 = 1
      BY PartsFacts DEF PowerLaws
    <2>5. \A n \in 1..1 : n = 1 /\ n - 1 = 0 /\ ~(n > 1)
      OBVIOUS
    <2> QED
      BY <2>2, <2>3, <2>4, <2>5 DEF Scaled
  <1>2. IInv /\ IInv' /\ Scaled(mergers) /\ [Next]_vars => Scaled(mergers)'
    BY NextScaled
  <1>3. IInv /\ Scaled(mergers) => RecursionBounded
    <2> SUFFICES ASSUME IInv, Scaled(mergers), Len(mergers) > 1
                 PROVE  Partitions ^ (Len(mergers) - 1) < MAX_TOTAL_PARTITIONS
      BY DEF RecursionBounded
    <2>1. Len(mergers) \in 1..Len(mergers)
      BY StateFacts DEF IInv
    <2> QED
      BY <2>1 DEF Scaled
  <1> QED
    BY <1>1, <1>2, <1>3, MergerInvariant, PTL DEF Spec
=============================================================================
