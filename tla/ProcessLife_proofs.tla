------------------------- MODULE ProcessLife_proofs -------------------------
(***************************************************************************)
(* Proofs about the life of the processes of Process: the list of          *)
(* processes always ends, and as long as no process is exited by another   *)
(* one, a thread has at most one activation and is only entered while its  *)
(* process is on the list.                                                 *)
(*                                                                         *)
(* The first part is about linked lists alone: a list is linear when its   *)
(* links spell out a sequence of distinct processes, and the two changes   *)
(* the kernel makes, process_start()'s and exit_process()'s, keep it so.   *)
(***************************************************************************)
EXTENDS Process_proofs, FiniteSetTheorems

\* Every set of numbers that is not empty has a least element: {1 .. n : n \in T}
\* has a minimal element, since strict inclusion of finite sets is well founded.
LEMMA Least ==
  ASSUME NEW T \in SUBSET Nat, T # {}
  PROVE  \E x \in T : \A y \in T : x <= y
<1> DEFINE F == {1 .. n : n \in T}
<1>1. F \subseteq FiniteSubsetsOf(Nat) /\ F # {}
  <2>1. ASSUME NEW n \in T PROVE 1 .. n \in FiniteSubsetsOf(Nat)
    <3>1. n \in Int /\ 1 .. n \in SUBSET Nat
      OBVIOUS
    <3>2. IsFiniteSet(1 .. n)
      BY <3>1, FS_Interval
    <3> QED
      BY <3>1, <3>2 DEF FiniteSubsetsOf
  <2> QED
    BY <2>1
<1>2. IsWellFoundedOn(StrictSubsetOrdering(Nat), FiniteSubsetsOf(Nat))
  BY FS_StrictSubsetOrderingWellFounded
<1>3. PICK I \in F : \A J \in F : ~ (<<J, I>> \in StrictSubsetOrdering(Nat))
  <2> HIDE DEF F
  <2> QED
    BY <1>1, <1>2, WFMin
<1>4. PICK m \in T : I = 1 .. m
  OBVIOUS
<1>5. ASSUME NEW n \in T PROVE m <= n
  <2>1. SUFFICES ASSUME n < m PROVE FALSE
    OBVIOUS
  <2>2. 1 .. n \in SUBSET Nat /\ 1 .. m \in SUBSET Nat /\ 1 .. n \subseteq 1 .. m /\ 1 .. n # 1 .. m
    <3>1. m \in 1 .. m /\ m \notin 1 .. n
      BY <2>1
    <3> QED
      BY <3>1, <2>1
  <2>3. << 1 .. n, 1 .. m >> \in StrictSubsetOrdering(Nat)
    BY <2>2 DEF StrictSubsetOrdering
  <2> QED
    BY <1>3, <1>4, <2>3
<1> QED
  BY <1>5

\* Walk, of any list: h is its head and nx its links.
Links(h, nx) ==
  LET W[k \in 0 .. Cardinality(Proc)] ==
        IF k = 0 THEN h
        ELSE IF W[k - 1] = NULL THEN NULL ELSE nx[W[k - 1]]
  IN  W

Reached(h, nx) == {Links(h, nx)[k] : k \in 0 .. Cardinality(Proc)} \ {NULL}

\* w holds the processes of the list in order.
IsChain(h, nx, w) ==
  /\ w \in Seq(Proc)
  /\ \A i, j \in 1 .. Len(w) : w[i] = w[j] => i = j
  /\ h = IF w = << >> THEN NULL ELSE w[1]
  /\ \A i \in 1 .. Len(w) : nx[w[i]] = IF i = Len(w) THEN NULL ELSE w[i + 1]

Linear(h, nx) == nx \in [Proc -> Pointer] /\ \E w : IsChain(h, nx, w)

LEMMA ListDefs ==
  /\ Walk = Links(process_list, next)
  /\ Listed = Reached(process_list, next)
BY DEF Walk, Listed, Links, Reached

LEMMA ListDefsNext ==
  /\ Walk' = Links(process_list', next')
  /\ Listed' = Reached(process_list', next')
BY DEF Walk, Listed, Links, Reached

LEMMA Size == Cardinality(Proc) \in Nat
BY ProcessAssumption, FS_CardinalityType

\* no list of distinct processes is longer than there are processes
LEMMA ShortEnough ==
  ASSUME NEW w \in Seq(Proc), \A i, j \in 1 .. Len(w) : w[i] = w[j] => i = j
  PROVE  Len(w) <= Cardinality(Proc)
<1> DEFINE D == 1 .. Len(w)
<1>0. Len(w) \in Nat /\ 1 \in Int /\ Len(w) \in Int
  OBVIOUS
<1>1. IsFiniteSet(D) /\ Cardinality(D) = IF 1 > Len(w) THEN 0 ELSE Len(w) - 1 + 1
  BY <1>0, FS_Interval
<1>2. w \in [D -> Proc] /\ \A i, j \in D : w[i] = w[j] => i = j
  OBVIOUS
<1>3. SUFFICES ASSUME Cardinality(Proc) < Len(w) PROVE FALSE
  BY <1>0, Size
<1>4. Cardinality(Proc) < Cardinality(D)
  BY <1>0, <1>1, <1>3, Size
<1> HIDE DEF D
<1>5. \E x, y \in D : x # y /\ w[x] = w[y]
  BY <1>1, <1>2, <1>4, FS_PigeonHole, ProcessAssumption
<1> QED
  BY <1>2, <1>5

LEMMA WalkIsChain ==
  ASSUME NEW h, NEW nx, NEW w, IsChain(h, nx, w)
  PROVE  /\ Len(w) \in 0 .. Cardinality(Proc)
         /\ \A k \in 0 .. Cardinality(Proc) :
              Links(h, nx)[k] = IF k < Len(w) THEN w[k + 1] ELSE NULL
<1> DEFINE N == Cardinality(Proc)
           f == [k \in 0 .. N |-> IF k < Len(w) THEN w[k + 1] ELSE NULL]
           F(g) == [k \in 0 .. N |->
                      IF k = 0 THEN h ELSE IF g[k - 1] = NULL THEN NULL ELSE nx[g[k - 1]]]
           W == Links(h, nx)
<1>1. N \in Nat /\ Len(w) \in Nat /\ Len(w) <= N
  BY Size, ShortEnough DEF IsChain
<1>w. \A i \in 1 .. Len(w) : w[i] \in Proc /\ w[i] # NULL
  BY ProcessAssumption DEF IsChain
<1>2. f = F(f)
  <2>1. ASSUME NEW k \in 0 .. N PROVE f[k] = F(f)[k]
    <3>1. CASE k = 0
      BY <1>1, <3>1, EmptySeq DEF IsChain
    <3>2. CASE k # 0 /\ k - 1 >= Len(w)
      BY <1>1, <3>2
    <3>3. CASE k # 0 /\ k - 1 < Len(w)
      <4>1. k \in 1 .. Len(w) /\ f[k - 1] = w[k] /\ w[k] # NULL
        BY <1>1, <1>w, <3>3
      <4>2. nx[w[k]] = IF k = Len(w) THEN NULL ELSE w[k + 1]
        BY <4>1 DEF IsChain
      <4> QED
        BY <1>1, <4>1, <4>2, <3>3
    <3> QED
      BY <1>1, <3>1, <3>2, <3>3
  <2> QED
    BY <2>1
<1>3. W = F(W)
  <2>1. W = CHOOSE g : g = F(g)
    BY DEF Links
  <2> HIDE DEF F, W, f
  <2> QED
    BY <1>2, <2>1
<1>4. ASSUME NEW k \in 0 .. N PROVE W[k] = f[k]
  <2> DEFINE T == {i \in 0 .. N : W[i] # f[i]}
  <2>1. SUFFICES ASSUME T # {} PROVE FALSE
    OBVIOUS
  <2>2. PICK i \in T : \A j \in T : i <= j
    <3> HIDE DEF W, f
    <3>1. T \in SUBSET Nat
      BY <1>1
    <3> HIDE DEF T
    <3> QED
      BY <2>1, <3>1, Least
  <2> HIDE DEF W, f
  <2>3. i \in 0 .. N /\ W[i] # f[i] /\ (i # 0 => W[i - 1] = f[i - 1])
    <3>1. i \in 0 .. N /\ W[i] # f[i]
      OBVIOUS
    <3>2. ASSUME i # 0 PROVE i - 1 \in 0 .. N /\ i - 1 \notin T
      BY <1>1, <2>2, <3>1, <3>2
    <3> QED
      BY <3>1, <3>2
  <2>4. F(W)[i] = F(f)[i]
    BY <2>3
  <2> HIDE DEF F
  <2> QED
    BY <1>2, <1>3, <2>3, <2>4
<1> QED
  BY <1>1, <1>4

\* The processes of the list are the ones its chain holds.
LEMMA ReachedIsChain ==
  ASSUME NEW h, NEW nx, NEW w, IsChain(h, nx, w)
  PROVE  Reached(h, nx) = {w[i] : i \in 1 .. Len(w)}
<1> DEFINE N == Cardinality(Proc)
<1>1. N \in Nat /\ Len(w) \in 0 .. N
  BY Size, WalkIsChain
<1>2. \A i \in 1 .. Len(w) : w[i] \in Proc /\ w[i] # NULL
  BY ProcessAssumption DEF IsChain
<1>3. ASSUME NEW k \in 0 .. N, Links(h, nx)[k] # NULL
      PROVE  Links(h, nx)[k] \in {w[i] : i \in 1 .. Len(w)}
  <2>1. k < Len(w) /\ Links(h, nx)[k] = w[k + 1]
    BY <1>3, WalkIsChain
  <2>2. k + 1 \in 1 .. Len(w)
    BY <1>1, <2>1
  <2> QED
    BY <2>1, <2>2
<1>4. ASSUME NEW i \in 1 .. Len(w) PROVE w[i] \in Reached(h, nx)
  <2>1. i - 1 \in 0 .. N /\ i - 1 < Len(w) /\ (i - 1) + 1 = i
    BY <1>1
  <2>2. Links(h, nx)[i - 1] = w[i]
    BY <2>1, WalkIsChain
  <2> QED
    BY <1>2, <2>1, <2>2 DEF Reached
<1> QED
  BY <1>3, <1>4 DEF Reached

\* A function on 1 .. n is a sequence.
LEMMA SeqOf ==
  ASSUME NEW S, NEW n \in Nat, NEW v \in [1 .. n -> S]
  PROVE  v \in Seq(S) /\ Len(v) = n
OBVIOUS

\* What the loops over the list can rely on.
LEMMA LinearFacts ==
  ASSUME NEW h, NEW nx, Linear(h, nx)
  PROVE  /\ Links(h, nx)[Cardinality(Proc)] = NULL
         /\ Reached(h, nx) \subseteq Proc
         /\ h \in Reached(h, nx) \cup {NULL}
         /\ \A q \in Reached(h, nx) :
              nx[q] \in Reached(h, nx) \cup {NULL} /\ nx[q] # q
<1>1. PICK w : IsChain(h, nx, w)
  BY DEF Linear
<1>2. Reached(h, nx) = {w[i] : i \in 1 .. Len(w)}
  BY <1>1, ReachedIsChain
<1>3. Cardinality(Proc) \in 0 .. Cardinality(Proc) /\ Len(w) \in 0 .. Cardinality(Proc)
  BY <1>1, Size, WalkIsChain
<1>4. Links(h, nx)[Cardinality(Proc)] = NULL
  BY <1>1, <1>3, WalkIsChain
<1>5. h \in Reached(h, nx) \cup {NULL}
  <2>1. CASE w = << >>
    BY <1>1, <2>1 DEF IsChain
  <2>2. CASE w # << >>
    <3>1. 1 \in 1 .. Len(w) /\ h = w[1]
      BY <1>1, <2>2, EmptySeq DEF IsChain
    <3> QED
      BY <1>2, <3>1
  <2> QED
    BY <2>1, <2>2
<1>6. ASSUME NEW q \in Reached(h, nx)
      PROVE  nx[q] \in Reached(h, nx) \cup {NULL} /\ nx[q] # q
  <2>1. PICK i \in 1 .. Len(w) : q = w[i]
    BY <1>2
  <2>2. nx[q] = IF i = Len(w) THEN NULL ELSE w[i + 1]
    BY <1>1, <2>1 DEF IsChain
  <2>3. i # Len(w) => i + 1 \in 1 .. Len(w) /\ i + 1 # i
    BY <1>3
  <2>4. i # Len(w) => w[i + 1] # w[i]
    BY <1>1, <2>3 DEF IsChain
  <2>5. q # NULL
    BY <1>1, <2>1, ProcessAssumption DEF IsChain
  <2> QED
    BY <1>2, <2>1, <2>2, <2>3, <2>4, <2>5
<1>7. Reached(h, nx) \subseteq Proc
  BY <1>1, <1>2 DEF IsChain
<1> QED
  BY <1>4, <1>5, <1>6, <1>7

\* A list without processes.
LEMMA EmptyList ==
  LET nx == [p \in Proc |-> NULL]
  IN  Linear(NULL, nx) /\ Reached(NULL, nx) = {}
<1> DEFINE nx == [p \in Proc |-> NULL]
<1>1. IsChain(NULL, nx, << >>)
  BY DEF IsChain
<1>2. Linear(NULL, nx)
  BY <1>1 DEF Linear, Pointer
<1>3. Reached(NULL, nx) = {}
  BY <1>1, ReachedIsChain
<1> QED
  BY <1>2, <1>3

\* process_start() puts a process that is not on the list at its head.
LEMMA PrependChain ==
  ASSUME NEW h, NEW nx, NEW w, IsChain(h, nx, w),
         NEW p \in Proc, p \notin Reached(h, nx),
         NEW m \in [Proc -> Pointer], m[p] = h,
         \A q \in Proc : q # p => m[q] = nx[q]
  PROVE  /\ \E v : /\ IsChain(p, m, v) /\ Len(v) = Len(w) + 1
                   /\ \A i \in 1 .. Len(w) : v[i + 1] = w[i]
         /\ Reached(p, m) = Reached(h, nx) \cup {p}
<1>2. Reached(h, nx) = {w[i] : i \in 1 .. Len(w)} /\ Len(w) \in Nat
  <2>1. Len(w) \in Nat
    BY DEF IsChain
  <2> QED
    BY <2>1, ReachedIsChain
<1> DEFINE v == [i \in 1 .. Len(w) + 1 |-> IF i = 1 THEN p ELSE w[i - 1]]
<1>3. /\ v \in Seq(Proc) /\ Len(v) = Len(w) + 1
      /\ v[1] = p /\ \A i \in 2 .. Len(v) : v[i] = w[i - 1] /\ i - 1 \in 1 .. Len(w)
  <2>1. \A i \in 2 .. Len(w) + 1 : i - 1 \in 1 .. Len(w)
    BY <1>2
  <2>2. \A i \in 1 .. Len(w) : w[i] \in Proc
    BY DEF IsChain
  <2>3. v \in [1 .. Len(w) + 1 -> Proc] /\ Len(w) + 1 \in Nat
    BY <1>2, <2>1, <2>2
  <2>4. v[1] = p /\ \A i \in 2 .. Len(w) + 1 : v[i] = w[i - 1]
    BY <1>2
  <2> HIDE DEF v
  <2>5. v \in Seq(Proc) /\ Len(v) = Len(w) + 1
    BY <2>3, SeqOf
  <2> QED
    BY <2>1, <2>4, <2>5
<1> HIDE DEF v
<1>5. IsChain(p, m, v)
  <2>1. v # << >>
    BY <1>2, <1>3, EmptySeq
  <2>2. \A i, j \in 1 .. Len(v) : v[i] = v[j] => i = j
    <3>1. SUFFICES ASSUME NEW i \in 1 .. Len(v), NEW j \in 1 .. Len(v), v[i] = v[j]
                   PROVE  i = j
      OBVIOUS
    <3>2. \A k \in 2 .. Len(v) : v[k] # p
      BY <1>2, <1>3
    <3>3. CASE i = 1 \/ j = 1
      BY <1>2, <1>3, <3>1, <3>2, <3>3
    <3>4. CASE i # 1 /\ j # 1
      <4>1. i \in 2 .. Len(v) /\ j \in 2 .. Len(v)
        BY <1>2, <1>3, <3>4
      <4>2. /\ i - 1 \in 1 .. Len(w) /\ j - 1 \in 1 .. Len(w)
            /\ w[i - 1] = w[j - 1]
        BY <1>3, <3>1, <4>1
      <4>3. i - 1 = j - 1
        BY <4>2 DEF IsChain
      <4> QED
        BY <4>1, <4>3
    <3> QED
      BY <3>3, <3>4
  <2>3. ASSUME NEW i \in 1 .. Len(v)
        PROVE  m[v[i]] = IF i = Len(v) THEN NULL ELSE v[i + 1]
    <3>1. CASE i = 1 /\ w = << >>
      <4>1. h = NULL /\ Len(v) = 1
        BY <1>3, <3>1 DEF IsChain
      <4> QED
        BY <1>3, <3>1, <4>1
    <3>2. CASE i = 1 /\ w # << >>
      <4>1. h = w[1] /\ Len(w) > 0
        BY <3>2, EmptySeq DEF IsChain
      <4>2. 2 \in 2 .. Len(v) /\ v[2] = w[1]
        BY <1>2, <1>3, <4>1
      <4> QED
        BY <1>2, <1>3, <3>2, <4>1, <4>2
    <3>3. CASE i # 1
      <4>1. i - 1 \in 1 .. Len(w) /\ v[i] = w[i - 1] /\ (i - 1) + 1 = i
        BY <1>2, <1>3, <3>3
      <4>2. w[i - 1] \in Proc /\ w[i - 1] # p
        BY <1>2, <4>1 DEF IsChain
      <4>3. m[v[i]] = IF i - 1 = Len(w) THEN NULL ELSE w[i]
        BY <4>1, <4>2 DEF IsChain
      <4>4. i # Len(v) => i + 1 \in 2 .. Len(v) /\ v[i + 1] = w[i]
        BY <1>2, <1>3, <3>3
      <4> QED
        BY <1>2, <1>3, <4>1, <4>3, <4>4
    <3> QED
      BY <3>1, <3>2, <3>3
  <2> QED
    BY <1>3, <2>1, <2>2, <2>3 DEF IsChain
<1>6. Reached(p, m) = {v[i] : i \in 1 .. Len(v)}
  BY <1>5, ReachedIsChain
<1>7. {v[i] : i \in 1 .. Len(v)} = {w[i] : i \in 1 .. Len(w)} \cup {p}
  <2>1. 1 \in 1 .. Len(v) /\ v[1] = p
    BY <1>2, <1>3
  <2>2. ASSUME NEW i \in 1 .. Len(w) PROVE w[i] \in {v[j] : j \in 1 .. Len(v)}
    <3>1. i + 1 \in 2 .. Len(v) /\ (i + 1) - 1 = i /\ i + 1 \in 1 .. Len(v)
      BY <1>2, <1>3
    <3>2. v[i + 1] = w[i]
      BY <1>3, <3>1
    <3> QED
      BY <3>1, <3>2
  <2>3. ASSUME NEW i \in 1 .. Len(v) PROVE v[i] \in {w[j] : j \in 1 .. Len(w)} \cup {p}
    <3>1. CASE i = 1
      BY <1>3, <3>1
    <3>2. CASE i # 1
      <4>1. i \in 2 .. Len(v)
        BY <1>2, <1>3, <3>2
      <4> QED
        BY <1>3, <4>1
    <3> QED
      BY <3>1, <3>2
  <2> QED
    BY <2>1, <2>2, <2>3
<1>8. ASSUME NEW i \in 1 .. Len(w) PROVE v[i + 1] = w[i]
  <2>1. i + 1 \in 2 .. Len(v) /\ (i + 1) - 1 = i
    BY <1>2, <1>3
  <2> QED
    BY <1>3, <2>1
<1> QED
  BY <1>2, <1>3, <1>5, <1>6, <1>7, <1>8

LEMMA Prepend ==
  ASSUME NEW h, NEW nx, Linear(h, nx),
         NEW p \in Proc, p \notin Reached(h, nx),
         NEW m \in [Proc -> Pointer], m[p] = h,
         \A q \in Proc : q # p => m[q] = nx[q]
  PROVE  Linear(p, m) /\ Reached(p, m) = Reached(h, nx) \cup {p}
<1>1. PICK w : IsChain(h, nx, w)
  BY DEF Linear
<1> QED
  BY <1>1, PrependChain DEF Linear

\* exit_process() takes the head off the list
LEMMA RemoveHead ==
  ASSUME NEW h \in Proc, NEW nx, Linear(h, nx)
  PROVE  /\ h \in Reached(h, nx)
         /\ Linear(nx[h], nx)
         /\ Reached(nx[h], nx) = Reached(h, nx) \ {h}
<1>1. PICK w : IsChain(h, nx, w)
  BY DEF Linear
<1>2. Len(w) \in Nat \ {0} /\ h = w[1] /\ h # NULL
  <2>1. w \in Seq(Proc) /\ w # << >> /\ h = w[1] /\ h # NULL
    BY <1>1, ProcessAssumption DEF IsChain
  <2> QED
    BY <2>1, EmptySeq
<1> DEFINE v == [i \in 1 .. Len(w) - 1 |-> w[i + 1]]
<1>3. /\ v \in Seq(Proc) /\ Len(v) = Len(w) - 1
      /\ \A i \in 1 .. Len(v) : v[i] = w[i + 1] /\ i + 1 \in 1 .. Len(w)
  <2>1. \A i \in 1 .. Len(w) - 1 : i + 1 \in 1 .. Len(w)
    BY <1>2
  <2>2. \A i \in 1 .. Len(w) : w[i] \in Proc
    BY <1>1 DEF IsChain
  <2>3. v \in [1 .. Len(w) - 1 -> Proc] /\ Len(w) - 1 \in Nat
    BY <1>2, <2>1, <2>2
  <2>4. \A i \in 1 .. Len(w) - 1 : v[i] = w[i + 1]
    OBVIOUS
  <2> HIDE DEF v
  <2>5. v \in Seq(Proc) /\ Len(v) = Len(w) - 1
    BY <2>3, SeqOf
  <2> QED
    BY <2>1, <2>4, <2>5
<1> HIDE DEF v
<1>4. IsChain(nx[h], nx, v)
  <2>1. \A i, j \in 1 .. Len(v) : v[i] = v[j] => i = j
    <3>1. SUFFICES ASSUME NEW i \in 1 .. Len(v), NEW j \in 1 .. Len(v), v[i] = v[j]
                   PROVE  i = j
      OBVIOUS
    <3>2. i + 1 = j + 1
      BY <1>1, <1>3, <3>1 DEF IsChain
    <3> QED
      BY <3>2
  <2>2. nx[h] = IF v = << >> THEN NULL ELSE v[1]
    <3>0. 1 \in 1 .. Len(w)
      BY <1>2
    <3>1. nx[h] = IF 1 = Len(w) THEN NULL ELSE w[1 + 1]
      BY <1>1, <1>2, <3>0 DEF IsChain
    <3>2. v = << >> <=> Len(v) = 0
      BY <1>3, EmptySeq
    <3>3. Len(v) # 0 => 1 \in 1 .. Len(v)
      BY <1>2, <1>3
    <3> QED
      BY <1>2, <1>3, <3>1, <3>2, <3>3
  <2>3. ASSUME NEW i \in 1 .. Len(v)
        PROVE  nx[v[i]] = IF i = Len(v) THEN NULL ELSE v[i + 1]
    <3>1. i + 1 \in 1 .. Len(w) /\ v[i] = w[i + 1]
      BY <1>3
    <3>2. nx[w[i + 1]] = IF i + 1 = Len(w) THEN NULL ELSE w[(i + 1) + 1]
      BY <1>1, <3>1 DEF IsChain
    <3>3. i # Len(v) => i + 1 \in 1 .. Len(v) /\ v[i + 1] = w[(i + 1) + 1]
      BY <1>2, <1>3
    <3> QED
      BY <1>2, <1>3, <3>1, <3>2, <3>3
  <2> QED
    BY <1>3, <2>1, <2>2, <2>3 DEF IsChain
<1>5. /\ Reached(h, nx) = {w[i] : i \in 1 .. Len(w)}
      /\ Reached(nx[h], nx) = {v[i] : i \in 1 .. Len(v)}
  BY <1>1, <1>4, ReachedIsChain
<1>6. {v[i] : i \in 1 .. Len(v)} = {w[i] : i \in 1 .. Len(w)} \ {h}
  <2>1. ASSUME NEW i \in 1 .. Len(v)
        PROVE  v[i] \in {w[j] : j \in 1 .. Len(w)} /\ v[i] # h
    <3>1. 1 \in 1 .. Len(w) /\ i + 1 # 1
      BY <1>2
    <3> QED
      BY <1>1, <1>2, <1>3, <3>1 DEF IsChain
  <2>2. ASSUME NEW i \in 1 .. Len(w), w[i] # h
        PROVE  w[i] \in {v[j] : j \in 1 .. Len(v)}
    <3>1. i - 1 \in 1 .. Len(v) /\ (i - 1) + 1 = i
      BY <1>2, <1>3, <2>2
    <3>2. v[i - 1] = w[i]
      BY <1>3, <3>1
    <3> QED
      BY <3>1, <3>2
  <2> QED
    BY <2>1, <2>2
<1>7. 1 \in 1 .. Len(w)
  BY <1>2
<1> QED
  BY <1>2, <1>4, <1>5, <1>6, <1>7 DEF Linear

\* or takes a process out of the middle of it
LEMMA RemoveInside ==
  ASSUME NEW h, NEW nx, Linear(h, nx), NEW p \in Proc, p # h
  PROVE  LET m == [q \in Proc |-> IF q \in Reached(h, nx) /\ nx[q] = p
                                  THEN nx[p] ELSE nx[q]]
         IN  Linear(h, m) /\ Reached(h, m) = Reached(h, nx) \ {p}
<1> DEFINE m == [q \in Proc |-> IF q \in Reached(h, nx) /\ nx[q] = p
                                THEN nx[p] ELSE nx[q]]
<1>1. PICK w : IsChain(h, nx, w)
  BY DEF Linear
<1>2. Reached(h, nx) = {w[i] : i \in 1 .. Len(w)} /\ Len(w) \in Nat
  <2>1. Len(w) \in Nat
    BY <1>1 DEF IsChain
  <2> QED
    BY <1>1, <2>1, ReachedIsChain
<1>3. nx \in [Proc -> Pointer] /\ m \in [Proc -> Pointer]
  BY DEF Linear
<1>w. \A i \in 1 .. Len(w) : w[i] \in Proc
  BY <1>1 DEF IsChain
<1>m. ASSUME NEW i \in 1 .. Len(w)
      PROVE  m[w[i]] = IF i = Len(w) THEN NULL
                       ELSE IF w[i + 1] = p THEN nx[p] ELSE w[i + 1]
  <2>1. m[w[i]] = IF nx[w[i]] = p THEN nx[p] ELSE nx[w[i]]
    BY <1>2, <1>w
  <2>2. nx[w[i]] = IF i = Len(w) THEN NULL ELSE w[i + 1]
    BY <1>1 DEF IsChain
  <2> QED
    BY <2>1, <2>2, ProcessAssumption
<1> HIDE DEF m
<1>4. CASE p \notin Reached(h, nx)
  <2>1. ASSUME NEW i \in 1 .. Len(w)
        PROVE  m[w[i]] = IF i = Len(w) THEN NULL ELSE w[i + 1]
    <3>1. i # Len(w) => i + 1 \in 1 .. Len(w) /\ w[i + 1] # p
      BY <1>2, <1>4
    <3> QED
      BY <1>m, <3>1
  <2>2. IsChain(h, m, w)
    BY <1>1, <2>1 DEF IsChain
  <2>3. Reached(h, m) = Reached(h, nx)
    BY <1>2, <2>2, ReachedIsChain
  <2> QED
    BY <1>3, <1>4, <2>2, <2>3 DEF Linear, m
<1>5. CASE p \in Reached(h, nx)
  <2>1. PICK n \in 1 .. Len(w) : w[n] = p
    BY <1>2, <1>5
  <2>n. n \in 2 .. Len(w) /\ Len(w) >= 2
    <3>1. w # << >> /\ h = w[1]
      BY <1>1, <1>2, <2>1, EmptySeq DEF IsChain
    <3> QED
      BY <1>2, <2>1, <3>1
  <2> DEFINE v == [i \in 1 .. Len(w) - 1 |-> IF i < n THEN w[i] ELSE w[i + 1]]
             From(i) == IF i < n THEN i ELSE i + 1
  <2>2. /\ v \in Seq(Proc) /\ Len(v) = Len(w) - 1 /\ Len(v) \in Nat
        /\ \A i \in 1 .. Len(v) : /\ v[i] = w[From(i)]
                                  /\ From(i) \in 1 .. Len(w) /\ From(i) # n
    <3>1. \A i \in 1 .. Len(w) - 1 : From(i) \in 1 .. Len(w) /\ From(i) # n
      BY <1>2, <2>1
    <3>2. v \in [1 .. Len(w) - 1 -> Proc] /\ Len(w) - 1 \in Nat
      BY <1>2, <1>w, <2>1, <2>n, <3>1
    <3>3. \A i \in 1 .. Len(w) - 1 : v[i] = w[From(i)]
      OBVIOUS
    <3> HIDE DEF v, From
    <3>4. v \in Seq(Proc) /\ Len(v) = Len(w) - 1
      BY <3>2, SeqOf
    <3> QED
      BY <3>1, <3>2, <3>3, <3>4
  <2> HIDE DEF v
  <2>3. \A i, j \in 1 .. Len(v) : v[i] = v[j] => i = j
    <3>1. SUFFICES ASSUME NEW i \in 1 .. Len(v), NEW j \in 1 .. Len(v), v[i] = v[j]
                   PROVE  i = j
      OBVIOUS
    <3>2. From(i) = From(j)
      <4> HIDE DEF From
      <4>1. /\ From(i) \in 1 .. Len(w) /\ From(j) \in 1 .. Len(w)
            /\ w[From(i)] = w[From(j)]
        BY <2>2, <3>1
      <4> QED
        BY <1>1, <4>1 DEF IsChain
    <3> QED
      BY <2>1, <2>2, <3>2
  <2>4. h = IF v = << >> THEN NULL ELSE v[1]
    <3>1. v # << >> /\ w # << >>
      BY <2>2, <2>n, EmptySeq
    <3>2. 1 \in 1 .. Len(v) /\ From(1) = 1
      BY <2>2, <2>n
    <3> QED
      BY <1>1, <2>2, <3>1, <3>2 DEF IsChain
  <2>5. ASSUME NEW i \in 1 .. Len(v)
        PROVE  m[v[i]] = IF i = Len(v) THEN NULL ELSE v[i + 1]
    <3>1. v[i] = w[From(i)] /\ From(i) \in 1 .. Len(w)
      BY <2>2
    <3>2. CASE i = n - 1
      <4>1. /\ From(i) = i /\ i + 1 = n
            /\ i + 1 \in 1 .. Len(w) /\ i # Len(w)
        BY <2>2, <2>n, <3>2
      <4>2. m[v[i]] = nx[p]
        BY <1>m, <2>1, <3>1, <4>1
      <4>3. nx[p] = IF n = Len(w) THEN NULL ELSE w[n + 1]
        BY <1>1, <2>1 DEF IsChain
      <4>4. i # Len(v) => i + 1 \in 1 .. Len(v) /\ From(i + 1) = n + 1
        BY <2>2, <2>n, <3>2
      <4>5. i = Len(v) <=> n = Len(w)
        BY <2>2, <2>n, <3>2
      <4> QED
        BY <2>2, <4>2, <4>3, <4>4, <4>5
    <3>3. CASE i # n - 1
      <4>1. From(i) + 1 # n /\ (i = Len(v) <=> From(i) = Len(w))
        BY <2>2, <2>n, <3>3
      <4>2. From(i) # Len(w) => /\ From(i) + 1 \in 1 .. Len(w)
                                /\ w[From(i) + 1] # p
        <5>1. SUFFICES ASSUME From(i) # Len(w)
                       PROVE  From(i) + 1 \in 1 .. Len(w) /\ w[From(i) + 1] # p
          OBVIOUS
        <5>2. From(i) + 1 \in 1 .. Len(w)
          BY <1>2, <3>1, <5>1
        <5> QED
          BY <1>1, <2>1, <4>1, <5>2 DEF IsChain
      <4>3. m[v[i]] = IF From(i) = Len(w) THEN NULL ELSE w[From(i) + 1]
        <5> HIDE DEF From
        <5> QED
          BY <1>m, <3>1, <4>2
      <4>4. i # Len(v) => i + 1 \in 1 .. Len(v) /\ From(i + 1) = From(i) + 1
        BY <2>2, <2>n, <3>3
      <4> QED
        BY <2>2, <4>1, <4>3, <4>4
    <3> QED
      BY <3>2, <3>3
  <2>6. IsChain(h, m, v)
    BY <2>2, <2>3, <2>4, <2>5 DEF IsChain
  <2>7. Reached(h, m) = {v[i] : i \in 1 .. Len(v)}
    BY <2>6, ReachedIsChain
  <2>8. {v[i] : i \in 1 .. Len(v)} = {w[i] : i \in 1 .. Len(w)} \ {p}
    <3>1. ASSUME NEW i \in 1 .. Len(v)
          PROVE  v[i] \in {w[j] : j \in 1 .. Len(w)} /\ v[i] # p
      <4> HIDE DEF From
      <4>1. v[i] = w[From(i)] /\ From(i) \in 1 .. Len(w) /\ From(i) # n
        BY <2>2
      <4>2. w[From(i)] # w[n]
        BY <1>1, <4>1 DEF IsChain
      <4> QED
        BY <2>1, <4>1, <4>2
    <3>2. ASSUME NEW i \in 1 .. Len(w), w[i] # p
          PROVE  w[i] \in {v[j] : j \in 1 .. Len(v)}
      <4>1. CASE i < n
        <5>1. i \in 1 .. Len(v) /\ From(i) = i
          BY <2>2, <2>n, <4>1
        <5> QED
          BY <2>2, <5>1
      <4>2. CASE ~ (i < n)
        <5>1. i - 1 \in 1 .. Len(v) /\ From(i - 1) = i
          BY <2>1, <2>2, <2>n, <3>2, <4>2
        <5>2. v[i - 1] = w[i]
          BY <2>2, <5>1
        <5> QED
          BY <5>1, <5>2
      <4> QED
        BY <4>1, <4>2
    <3> QED
      BY <3>1, <3>2
  <2> QED
    BY <1>2, <1>3, <2>6, <2>7, <2>8 DEF Linear, m
<1> QED
  BY <1>4, <1>5

-----------------------------------------------------------------------------
(***************************************************************************)
(* The list of processes.                                                  *)
(***************************************************************************)
ListInv == Linear(process_list, next)

\* The three changes of the list: process_start(), and exit_process() of the
\* head and of another process.
HeadAdded(p) ==
  /\ p \notin Listed
  /\ next' = [next EXCEPT ![p] = process_list]
  /\ process_list' = p

HeadRemoved(p) ==
  p = process_list /\ process_list' = next[p] /\ UNCHANGED next

Removed(p) ==
  /\ p # process_list
  /\ next' = [q \in Proc |-> IF q \in Listed /\ next[q] = p
                             THEN next[p] ELSE next[q]]
  /\ UNCHANGED process_list

\* Nothing else touches the list.
LEMMA ListActions ==
  ASSUME ProcInv, [Next]_vars
  PROVE  \/ UNCHANGED << process_list, next >>
         \/ \E p \in Proc : HeadAdded(p) \/ HeadRemoved(p) \/ Removed(p)
<1>0. Top \in GoodFrame /\ Top \in Frame
  BY TopFrame DEF ProcInv
<1>1. CASE MainStep
  <2>1. CASE BootStart
    <3>1. Top.left + 1 \in 1 .. Len(Autostart)
      BY <1>0, <2>1, ProcessAssumption DEF BootStart, Frame
    <3>2. Autostart[Top.left + 1] \in Proc
      BY <3>1, ProcessAssumption
    <3> QED
      BY <2>1, <3>2 DEF BootStart, process_start, procVars, HeadAdded
  <2> QED
    BY <1>1, <2>1
    DEF MainStep, BootDone, RunPoll, RunIdle, RunUnicast, RunBroadcast, procVars
<1>2. CASE EventStep \/ PollStep \/ CallStep
  BY <1>2
  DEF EventStep, PollStep, CallStep, BroadcastPoll, BroadcastCall, BroadcastNext,
      PollBegin, PollScan, PollReady, PollClaim, PollNext, CallEnter, CallThread,
      CallDone, CallExit, SynchReturn, procVars
<1>3. CASE ExitStep
  <2>1. CASE ExitUnlink
    <3>1. Top.p \in Proc
      BY <1>0, <2>1 DEF ExitUnlink, At, GoodFrame, PLabels
    <3> QED
      BY <2>1, <3>1 DEF ExitUnlink, HeadRemoved, Removed
  <2> QED
    BY <1>3, <2>1
    DEF ExitStep, ExitBegin, ExitTell, ExitTellNext, ExitThread, procVars
<1>4. CASE ThreadStep
  <2>1. ASSUME NEW p \in Proc, ThreadStart(p)
        PROVE  UNCHANGED << process_list, next >> \/ HeadAdded(p)
    BY <2>1 DEF ThreadStart, process_start, procVars, HeadAdded
  <2> QED
    BY <1>4, <2>1
    DEF ThreadStep, ThreadPost, ThreadPoll, ThreadSynch, ThreadExit, ContextBegin,
        ContextEnd, ThreadReturn, procVars
<1> QED
  BY <1>1, <1>2, <1>3, <1>4
  DEF Next, KernelStep, InterruptPoll, procVars, vars

\* What each change does to the processes of the list.
LEMMA StartedList ==
  ASSUME ListInv, NEW p \in Proc, HeadAdded(p)
  PROVE  ListInv' /\ Listed' = Listed \cup {p}
<1>1. Linear(process_list, next) /\ p \notin Reached(process_list, next)
  BY ListDefs DEF ListInv, HeadAdded
<1>2. process_list \in Pointer /\ next \in [Proc -> Pointer]
  BY <1>1, LinearFacts DEF Linear, Pointer
<1>3. /\ next' \in [Proc -> Pointer] /\ next'[p] = process_list
      /\ \A q \in Proc : q # p => next'[q] = next[q]
  BY <1>2 DEF HeadAdded
<1>4. /\ Linear(p, next')
      /\ Reached(p, next') = Reached(process_list, next) \cup {p}
  BY <1>1, <1>3, Prepend
<1> QED
  BY <1>4, ListDefs, ListDefsNext DEF ListInv, HeadAdded

LEMMA RemovedList ==
  ASSUME ListInv, NEW p \in Proc, HeadRemoved(p) \/ Removed(p)
  PROVE  ListInv' /\ Listed' = Listed \ {p}
<1>1. CASE HeadRemoved(p)
  BY <1>1, RemoveHead, ListDefs, ListDefsNext DEF ListInv, HeadRemoved
<1>2. CASE Removed(p)
  BY <1>2, RemoveInside, ListDefs, ListDefsNext DEF ListInv, Removed
<1> QED
  BY <1>1, <1>2

LEMMA SameList ==
  ASSUME UNCHANGED << process_list, next >>
  PROVE  Listed' = Listed /\ (ListInv => ListInv')
BY ListDefs, ListDefsNext DEF ListInv

LEMMA ListInitInv == Init => ListInv /\ Listed = {}
BY EmptyList, ListDefs DEF Init, ListInv

LEMMA ListNextInv == ProcInv /\ ListInv /\ [Next]_vars => ListInv'
BY ListActions, StartedList, RemovedList, SameList

\* The list of processes always ends, whatever the threads do and in whatever
\* order processes are started and exit, by themselves or by others: no loop
\* over process_list runs for ever (process_start, exit_process, do_poll,
\* do_event).
THEOREM ListsEnd == Spec => []ListEnds
<1>1. Init => ProcInv /\ ListInv
  BY ProcessInitInv, ListInitInv
<1>2. ProcInv /\ ListInv /\ [Next]_vars => (ProcInv /\ ListInv)'
  BY ProcessNextInv, ListNextInv
<1>3. ListInv => ListEnds
  BY LinearFacts, ListDefs DEF ListInv, ListEnds
<1> QED
  BY <1>1, <1>2, <1>3, PTL DEF Spec

-----------------------------------------------------------------------------
(***************************************************************************)
(* Activations.                                                            *)
(***************************************************************************)
\* What the rest assumes of the threads: no process_exit() call, and no
\* PROCESS_EVENT_INIT posted by hand.
NoForcedExit == "exit" \notin Ops /\ \A m \in Message : m.ev # "INIT"

\* The labels of an activation of p: call_process(p) once it has marked p as
\* called, and the exit_process(p, p) that may end it, before and after p's
\* state is set to NONE.
EnteredLabels == {"calling", "done", "exiting", "exit"}
ExitingLabels == {"tell", "tellnext", "unlink"}
ActLabels == EnteredLabels \cup ExitingLabels

PollLabels == {"poll", "scan", "ready", "claim", "pollnext"}
BroadcastLabels == {"bpoll", "bcall", "bnext"}

\* The labels of a function that waits for one it called.
UnderLabels ==
  MainLabels \cup {"bcall", "bnext", "pollnext", "calling", "thread",
                   "context", "tellnext", "synch"}

\* A process only exits by itself, and no poll event is broadcast.
LifeFrame ==
  {f \in GoodFrame : /\ f.at \in ExitingLabels \cup {"exit"} => f.from = f.p
                     /\ f.at \in BroadcastLabels => f.ev # "POLL"}

\* The calls the kernel makes: do_poll() runs on main() or on a broadcast that
\* main() dispatches, so that no activation is below it; it calls the process
\* at its cursor.
Calls(f, g) ==
  /\ f.at \in UnderLabels
  /\ g.at \notin MainLabels
  /\ g.at \in BroadcastLabels => f.at \in MainLabels
  /\ g.at \in PollLabels => f.at \in MainLabels \cup {"bcall"}
  /\ g.at = "thread" => f.at = "calling" /\ f.p = g.p
  /\ f.at = "pollnext" => /\ g.at \in {"call", "mark"} \cup ActLabels
                          /\ g.p = f.q
                          /\ g.at = "call" => g.ev = "POLL"

\* The processes in the frames of s whose label is in L.
Holders(L, s) == {s[i].p : i \in {j \in 1 .. Len(s) : s[j].at \in L}}

Entered(s) == Holders(EnteredLabels, s)
Exiting(s) == Holders(ExitingLabels, s)

\* No process has two activations.
Nested(s) ==
  /\ s \in Seq(LifeFrame)
  /\ \A i \in 1 .. Len(s) : i = 1 => s[i].at \in MainLabels
  /\ \A i \in 1 .. Len(s) - 1 : Calls(s[i], s[i + 1])
  /\ \A i, j \in 1 .. Len(s) :
       s[i].at \in ActLabels /\ s[j].at \in ActLabels /\ s[i].p = s[j].p => i = j

\* What the executing function f has just read is still so.
Knows(f, st, nx, listed) ==
  /\ f.at = "call" /\ f.ev = "POLL" => f.p \in listed
  /\ f.at = "mark" => st[f.p] \in Callable
  /\ f.at = "scan" => f.q \in listed \cup {NULL}
  /\ f.at \in {"ready", "claim"} => f.q \in listed
  /\ f.at = "pollnext" => nx[f.q] \in listed \cup {NULL}

\* The state of a process tells where its activation is, and whether the
\* process is on the list.
Consistent(s, st, listed) ==
  /\ \A p \in Entered(s) : st[p] = "CALLED" /\ p \in listed
  /\ \A p \in Exiting(s) : st[p] = "NONE" /\ p \in listed
  /\ \A p \in Proc : st[p] # "NONE" => p \in listed
  /\ \A p \in listed : st[p] = "NONE" => p \in Exiting(s)

LifeCore ==
  /\ Nested(stack)
  /\ Consistent(stack, state, Listed)
  /\ Knows(Top, state, next, Listed)

LifeInv == ProcInv /\ ListInv /\ LifeCore

\* f may stand on the stack s, and f may replace t at the top.
Fits(s, f) ==
  IF s = << >> THEN f.at \in MainLabels ELSE Calls(s[Len(s)], f)

Follows(t, f) ==
  /\ t.at \in MainLabels <=> f.at \in MainLabels
  /\ f.at \in BroadcastLabels => t.at \in BroadcastLabels
  /\ f.at \in PollLabels => t.at \in PollLabels
  /\ f.at = "thread" => t.at = "thread" /\ f.p = t.p
  /\ t.at \in {"call", "mark"} \cup ActLabels
       => f.at \in {"mark"} \cup ActLabels /\ f.p = t.p

\* f takes over t's part in an activation.
SamePart(t, f) ==
  /\ t.at \in EnteredLabels <=> f.at \in EnteredLabels
  /\ t.at \in ExitingLabels <=> f.at \in ExitingLabels
  /\ t.at \in ActLabels => f.p = t.p

LEMMA LabelSets ==
  /\ MainLabels \cap ActLabels = {} /\ MainLabels \cap PollLabels = {}
  /\ MainLabels \cap BroadcastLabels = {}
  /\ BroadcastLabels \cap ActLabels = {} /\ PollLabels \cap ActLabels = {}
  /\ EnteredLabels \cap ExitingLabels = {}
BY DEF MainLabels, ActLabels, EnteredLabels, ExitingLabels, PollLabels,
       BroadcastLabels

LEMMA FollowsFits ==
  ASSUME NEW s, NEW t, NEW f, Fits(s, t), Follows(t, f)
  PROVE  Fits(s, f)
BY DEF Fits, Follows, Calls, MainLabels, ActLabels, EnteredLabels, ExitingLabels,
       PollLabels, BroadcastLabels

\* The processes of a stack with one frame more.
LEMMA AppendHolders ==
  ASSUME NEW L, NEW s \in Seq(LifeFrame), NEW f \in LifeFrame
  PROVE  Holders(L, Append(s, f))
           = Holders(L, s) \cup (IF f.at \in L THEN {f.p} ELSE {})
<1> DEFINE r == Append(s, f)
<1>1. /\ Len(s) \in Nat /\ Len(r) = Len(s) + 1 /\ r[Len(s) + 1] = f
      /\ \A i \in 1 .. Len(s) : r[i] = s[i]
  OBVIOUS
<1> HIDE DEF r
<1>2. ASSUME NEW p \in Holders(L, r)
      PROVE  p \in Holders(L, s) \cup (IF f.at \in L THEN {f.p} ELSE {})
  <2>1. PICK i \in 1 .. Len(r) : r[i].at \in L /\ p = r[i].p
    BY DEF Holders
  <2>2. CASE i = Len(s) + 1
    BY <1>1, <2>1, <2>2
  <2>3. CASE i \in 1 .. Len(s)
    BY <1>1, <2>1, <2>3 DEF Holders
  <2> QED
    BY <1>1, <2>2, <2>3
<1>3. Holders(L, s) \subseteq Holders(L, r)
  <2>1. ASSUME NEW i \in 1 .. Len(s), s[i].at \in L PROVE s[i].p \in Holders(L, r)
    <3>1. i \in 1 .. Len(r) /\ r[i] = s[i]
      BY <1>1
    <3> QED
      BY <2>1, <3>1 DEF Holders
  <2> QED
    BY <2>1 DEF Holders
<1>4. f.at \in L => f.p \in Holders(L, r)
  <2>1. Len(r) \in 1 .. Len(r) /\ r[Len(r)] = f
    BY <1>1
  <2> QED
    BY <2>1 DEF Holders
<1> QED
  BY <1>2, <1>3, <1>4 DEF r

\* A call keeps the stack well nested, unless it enters a process again.
LEMMA AppendNested ==
  ASSUME NEW s, Nested(s), NEW f \in LifeFrame, Fits(s, f),
         f.at \in ActLabels => f.p \notin Holders(ActLabels, s)
  PROVE  Nested(Append(s, f))
<1> DEFINE r == Append(s, f)
<1>0. s \in Seq(LifeFrame) /\ Len(s) \in Nat /\ (s = << >> <=> Len(s) = 0)
  <2>1. s \in Seq(LifeFrame)
    BY DEF Nested
  <2> QED
    BY <2>1, EmptySeq
<1>1. /\ r \in Seq(LifeFrame) /\ Len(r) = Len(s) + 1 /\ r[Len(s) + 1] = f
      /\ \A i \in 1 .. Len(s) : r[i] = s[i]
  BY <1>0
<1> HIDE DEF r
<1>2. ASSUME NEW i \in 1 .. Len(r), i = 1 PROVE r[i].at \in MainLabels
  <2>1. CASE s = << >>
    BY <1>0, <1>1, <1>2, <2>1 DEF Fits
  <2>2. CASE s # << >>
    BY <1>0, <1>1, <1>2, <2>2 DEF Nested
  <2> QED
    BY <2>1, <2>2
<1>3. ASSUME NEW i \in 1 .. Len(r) - 1 PROVE Calls(r[i], r[i + 1])
  <2>1. CASE i = Len(s)
    BY <1>0, <1>1, <1>3, <2>1 DEF Fits
  <2>2. CASE i # Len(s)
    <3>1. i \in 1 .. Len(s) - 1 /\ r[i] = s[i] /\ r[i + 1] = s[i + 1]
      BY <1>0, <1>1, <1>3, <2>2
    <3> QED
      BY <3>1 DEF Nested
  <2> QED
    BY <2>1, <2>2
<1>4. ASSUME NEW i \in 1 .. Len(r), NEW j \in 1 .. Len(r),
             r[i].at \in ActLabels, r[j].at \in ActLabels, r[i].p = r[j].p
      PROVE  i = j
  <2>1. ASSUME NEW k \in 1 .. Len(s), s[k].at \in ActLabels, f.at \in ActLabels
        PROVE  s[k].p # f.p
    BY <2>1 DEF Holders
  <2>2. CASE i \in 1 .. Len(s) /\ j \in 1 .. Len(s)
    BY <1>1, <1>4, <2>2 DEF Nested
  <2>3. CASE i \in 1 .. Len(s) /\ j = Len(s) + 1
    BY <1>1, <1>4, <2>1, <2>3
  <2>4. CASE i = Len(s) + 1 /\ j \in 1 .. Len(s)
    BY <1>1, <1>4, <2>1, <2>4
  <2> QED
    BY <1>0, <1>1, <2>2, <2>3, <2>4
<1> QED
  BY <1>1, <1>2, <1>3, <1>4 DEF Nested, r

\* A well-nested stack without its top.
LEMMA BeforeNested ==
  ASSUME NEW s, Nested(s), s # << >>
  PROVE  LET r == SubSeq(s, 1, Len(s) - 1)
             t == s[Len(s)]
         IN  /\ Nested(r) /\ t \in LifeFrame /\ s = Append(r, t) /\ Fits(r, t)
             /\ t.at \in ActLabels => t.p \notin Holders(ActLabels, r)
             /\ Len(r) = Len(s) - 1 /\ Len(r) \in Nat
<1> DEFINE r == SubSeq(s, 1, Len(s) - 1)
           t == s[Len(s)]
<1>0. s \in Seq(LifeFrame) /\ Len(s) \in Nat \ {0}
  <2>1. s \in Seq(LifeFrame)
    BY DEF Nested
  <2> QED
    BY <2>1, EmptySeq
<1>1. /\ r \in Seq(LifeFrame) /\ Len(r) = Len(s) - 1
      /\ \A i \in 1 .. Len(s) - 1 : r[i] = s[i]
  <2>1. 1 \in Int /\ Len(s) - 1 \in Int /\ Len(s) - 1 \in Nat
    BY <1>0
  <2>2. \A i \in 1 .. Len(s) - 1 : s[i] \in LifeFrame
    BY <1>0
  <2>3. r \in Seq(LifeFrame)
    BY <2>1, <2>2, SubSeqProperties
  <2>4. Len(r) = IF 1 <= Len(s) - 1 THEN Len(s) - 1 - 1 + 1 ELSE 0
    BY <2>1, <2>2, SubSeqProperties
  <2>5. \A i \in 1 .. Len(s) - 1 - 1 + 1 : r[i] = s[1 + i - 1]
    BY <2>1, <2>2, SubSeqProperties
  <2> HIDE DEF r
  <2>6. ASSUME NEW i \in 1 .. Len(s) - 1 PROVE r[i] = s[i]
    <3>1. i \in 1 .. Len(s) - 1 - 1 + 1 /\ 1 + i - 1 = i
      BY <2>1
    <3> QED
      BY <2>5, <3>1
  <2>7. Len(r) = Len(s) - 1
    BY <2>1, <2>4
  <2> QED
    BY <2>3, <2>6, <2>7
<1>2. t \in LifeFrame
  BY <1>0
<1>3. s = Append(r, t)
  <2> DEFINE a == Append(r, t)
  <2>1. /\ a \in Seq(LifeFrame) /\ Len(a) = Len(s)
        /\ \A i \in 1 .. Len(s) : a[i] = s[i]
    <3> HIDE DEF r, t
    <3>1. /\ a \in Seq(LifeFrame) /\ Len(a) = Len(s) /\ a[Len(s)] = t
          /\ \A i \in 1 .. Len(s) - 1 : a[i] = r[i]
      BY <1>0, <1>1, <1>2
    <3> QED
      BY <1>0, <1>1, <3>1 DEF t
  <2> HIDE DEF a
  <2> QED
    BY <1>0, <2>1, SeqEqual DEF a
<1>4. r = << >> <=> Len(r) = 0
  BY <1>1, EmptySeq
<1> HIDE DEF r
<1>5. Nested(r)
  <2>1. ASSUME NEW i \in 1 .. Len(r), i = 1 PROVE r[i].at \in MainLabels
    BY <1>0, <1>1, <2>1 DEF Nested
  <2>2. ASSUME NEW i \in 1 .. Len(r) - 1 PROVE Calls(r[i], r[i + 1])
    <3>1. i \in 1 .. Len(s) - 1 /\ r[i] = s[i] /\ r[i + 1] = s[i + 1]
      BY <1>0, <1>1
    <3> QED
      BY <3>1 DEF Nested
  <2>3. ASSUME NEW i \in 1 .. Len(r), NEW j \in 1 .. Len(r),
               r[i].at \in ActLabels, r[j].at \in ActLabels, r[i].p = r[j].p
        PROVE  i = j
    BY <1>0, <1>1, <2>3 DEF Nested
  <2> QED
    BY <1>1, <2>1, <2>2, <2>3 DEF Nested
<1>6. Fits(r, t)
  <2>1. CASE r = << >>
    <3>1. Len(s) = 1
      BY <1>0, <1>1, <1>4, <2>1
    <3> QED
      BY <2>1, <3>1 DEF Fits, Nested
  <2>2. CASE r # << >>
    <3>1. Len(r) \in 1 .. Len(s) - 1 /\ Len(r) + 1 = Len(s) /\ r[Len(r)] = s[Len(r)]
      BY <1>0, <1>1, <1>4, <2>2
    <3>2. Calls(s[Len(r)], s[Len(r) + 1])
      BY <3>1 DEF Nested
    <3> QED
      BY <2>2, <3>1, <3>2 DEF Fits
  <2> QED
    BY <2>1, <2>2
<1>7. ASSUME t.at \in ActLabels PROVE t.p \notin Holders(ActLabels, r)
  <2>1. SUFFICES ASSUME NEW i \in 1 .. Len(r), r[i].at \in ActLabels, t.p = r[i].p
                 PROVE  FALSE
    BY DEF Holders
  <2>2. i \in 1 .. Len(s) /\ Len(s) \in 1 .. Len(s) /\ i # Len(s) /\ s[i] = r[i]
    BY <1>0, <1>1
  <2> QED
    BY <1>7, <2>1, <2>2 DEF Nested
<1> QED
  BY <1>0, <1>1, <1>2, <1>3, <1>5, <1>6, <1>7 DEF r

LEMMA ActHolders ==
  ASSUME NEW s PROVE Holders(ActLabels, s) = Entered(s) \cup Exiting(s)
BY DEF Holders, ActLabels, Entered, Exiting

\* A stack with one frame more.
LEMMA Pushed ==
  ASSUME NEW s, Nested(s), NEW f \in LifeFrame, Fits(s, f),
         f.at \in ActLabels => f.p \notin Entered(s) \cup Exiting(s)
  PROVE  /\ Nested(Append(s, f))
         /\ Append(s, f) # << >>
         /\ Append(s, f)[Len(Append(s, f))] = f
         /\ Entered(Append(s, f))
              = Entered(s) \cup (IF f.at \in EnteredLabels THEN {f.p} ELSE {})
         /\ Exiting(Append(s, f))
              = Exiting(s) \cup (IF f.at \in ExitingLabels THEN {f.p} ELSE {})
<1>1. s \in Seq(LifeFrame)
  BY DEF Nested
<1>2. Append(s, f) # << >> /\ Append(s, f)[Len(Append(s, f))] = f
  BY <1>1, EmptySeq
<1>3. Nested(Append(s, f))
  BY ActHolders, AppendNested
<1> QED
  BY <1>1, <1>2, <1>3, AppendHolders DEF Entered, Exiting

\* The stack is its top on the rest.
LEMMA TopPart ==
  ASSUME LifeInv
  PROVE  /\ Nested(Popped) /\ Top \in LifeFrame /\ Fits(Popped, Top)
         /\ Top.at \in ActLabels => Top.p \notin Entered(Popped) \cup Exiting(Popped)
         /\ Entered(stack)
              = Entered(Popped) \cup (IF Top.at \in EnteredLabels THEN {Top.p} ELSE {})
         /\ Exiting(stack)
              = Exiting(Popped) \cup (IF Top.at \in ExitingLabels THEN {Top.p} ELSE {})
         /\ stack = Append(Popped, Top)
         /\ Len(Popped) = Len(stack) - 1 /\ Len(Popped) \in Nat
<1>1. Nested(stack) /\ stack # << >>
  BY DEF LifeInv, LifeCore, ProcInv, StackInv, Well
<1>2. /\ Nested(Popped) /\ Top \in LifeFrame /\ Fits(Popped, Top)
      /\ stack = Append(Popped, Top)
      /\ Top.at \in ActLabels => Top.p \notin Holders(ActLabels, Popped)
      /\ Len(Popped) = Len(stack) - 1 /\ Len(Popped) \in Nat
  BY <1>1, BeforeNested DEF Popped, Top
<1>3. Top.at \in ActLabels => Top.p \notin Entered(Popped) \cup Exiting(Popped)
  BY <1>2, ActHolders
<1> QED
  BY <1>2, <1>3, Pushed

\* A stack with another frame at the top.
LEMMA ReplaceIs ==
  ASSUME NEW s, Nested(s), s # << >>, NEW f
  PROVE  [s EXCEPT ![Len(s)] = f] = Append(SubSeq(s, 1, Len(s) - 1), f)
<1> DEFINE r == SubSeq(s, 1, Len(s) - 1)
           t == s[Len(s)]
           a == [s EXCEPT ![Len(s)] = f]
           b == Append(r, f)
           T == LifeFrame \cup {f}
<1>0. s \in Seq(LifeFrame) /\ r \in Seq(LifeFrame) /\ t \in LifeFrame
  BY BeforeNested DEF Nested
<1>1. s \in Seq(T) /\ r \in Seq(T) /\ t \in T /\ f \in T
  <2> HIDE DEF r, t
  <2> QED
    BY <1>0
<1>2. Len(r) = Len(s) - 1 /\ s = Append(r, t)
  BY BeforeNested
<1> HIDE DEF T, r, t
<1>3. Len(s) \in Nat \ {0}
  BY <1>1, EmptySeq
<1>4. ASSUME NEW i \in 1 .. Len(s) - 1 PROVE r[i] = s[i]
  <2>1. Append(r, t)[i] = r[i]
    BY <1>1, <1>2, <1>3
  <2> QED
    BY <1>2, <2>1
<1>5. /\ a \in Seq(T) /\ Len(a) = Len(s)
      /\ \A i \in 1 .. Len(s) : a[i] = IF i = Len(s) THEN f ELSE s[i]
  BY <1>1, <1>3, ExceptSeq
<1>6. /\ b \in Seq(T) /\ Len(b) = Len(s)
      /\ \A i \in 1 .. Len(s) : b[i] = IF i = Len(s) THEN f ELSE s[i]
  <2>1. /\ b \in Seq(T) /\ Len(b) = Len(s) /\ b[Len(s)] = f
        /\ \A i \in 1 .. Len(s) - 1 : b[i] = r[i]
    BY <1>1, <1>2, <1>3
  <2> HIDE DEF b
  <2> QED
    BY <1>3, <1>4, <2>1
<1> HIDE DEF a, b
<1>7. a = b
  BY <1>5, <1>6, SeqEqual
<1> QED
  BY <1>7 DEF a, b, r

\* The executing function goes on to another statement.
LEMMA ReplacedIs ==
  ASSUME LifeInv, NEW f
  PROVE  Replaced(f) = Append(Popped, f)
BY ReplaceIs DEF LifeInv, LifeCore, ProcInv, StackInv, Well, Replaced, Popped

LEMMA Went ==
  ASSUME LifeInv, NEW f \in LifeFrame, Follows(Top, f),
         f.at \in ActLabels => f.p \notin Entered(Popped) \cup Exiting(Popped)
  PROVE  /\ Nested(Replaced(f)) /\ Replaced(f) # << >>
         /\ Replaced(f)[Len(Replaced(f))] = f
         /\ Entered(Replaced(f))
              = Entered(Popped) \cup (IF f.at \in EnteredLabels THEN {f.p} ELSE {})
         /\ Exiting(Replaced(f))
              = Exiting(Popped) \cup (IF f.at \in ExitingLabels THEN {f.p} ELSE {})
<1>1. Nested(Popped) /\ Fits(Popped, f)
  BY TopPart, FollowsFits
<1> DEFINE a == Append(Popped, f)
<1>2. /\ Nested(a) /\ a # << >> /\ a[Len(a)] = f
      /\ Entered(a) = Entered(Popped) \cup (IF f.at \in EnteredLabels THEN {f.p} ELSE {})
      /\ Exiting(a) = Exiting(Popped) \cup (IF f.at \in ExitingLabels THEN {f.p} ELSE {})
  BY <1>1, Pushed
<1>3. Replaced(f) = a
  BY ReplacedIs
<1> HIDE DEF a
<1> QED
  BY <1>2, <1>3

\* In the same part of the same activation, it changes no process's place.
LEMMA WentQuietly ==
  ASSUME LifeInv, NEW f \in LifeFrame, Follows(Top, f), SamePart(Top, f)
  PROVE  /\ Nested(Replaced(f)) /\ Replaced(f) # << >>
         /\ Replaced(f)[Len(Replaced(f))] = f
         /\ Entered(Replaced(f)) = Entered(stack)
         /\ Exiting(Replaced(f)) = Exiting(stack)
<1>1. f.at \in ActLabels => f.p \notin Entered(Popped) \cup Exiting(Popped)
  BY TopPart DEF SamePart, ActLabels
<1> QED
  BY <1>1, Went, TopPart DEF SamePart, ActLabels

\* Steps that leave the processes, their states and their activations alone.
LEMMA QuietStep ==
  ASSUME LifeInv, UNCHANGED procVars,
         Nested(stack'),
         Entered(stack') = Entered(stack), Exiting(stack') = Exiting(stack),
         Knows(stack'[Len(stack')], state, next, Listed)
  PROVE  LifeCore'
<1>1. Listed' = Listed /\ state' = state /\ next' = next
  BY SameList DEF procVars
<1>2. Top' = stack'[Len(stack')]
  BY DEF Top
<1> QED
  BY <1>1, <1>2 DEF LifeInv, LifeCore, Consistent

LEMMA QuietGoto ==
  ASSUME LifeInv, UNCHANGED procVars,
         NEW f \in LifeFrame, Follows(Top, f), SamePart(Top, f),
         stack' = Replaced(f), Knows(f, state, next, Listed)
  PROVE  LifeCore'
BY WentQuietly, QuietStep

LEMMA QuietCall ==
  ASSUME LifeInv, UNCHANGED procVars,
         NEW f \in LifeFrame, Follows(Top, f), SamePart(Top, f),
         NEW g \in LifeFrame, Calls(f, g), g.at \notin ActLabels,
         stack' = Append(Replaced(f), g), Knows(g, state, next, Listed)
  PROVE  LifeCore'
<1> DEFINE s == Replaced(f)
<1>1. /\ Nested(s) /\ s # << >> /\ s[Len(s)] = f
      /\ Entered(s) = Entered(stack) /\ Exiting(s) = Exiting(stack)
  BY WentQuietly
<1>2. stack' = Append(s, g)
  OBVIOUS
<1> HIDE DEF s
<1>3. Fits(s, g)
  BY <1>1 DEF Fits
<1> DEFINE a == Append(s, g)
<1>4. g.at \notin EnteredLabels /\ g.at \notin ExitingLabels
  BY DEF ActLabels
<1>5. /\ Nested(a) /\ a[Len(a)] = g
      /\ Entered(a) = Entered(s) \cup (IF g.at \in EnteredLabels THEN {g.p} ELSE {})
      /\ Exiting(a) = Exiting(s) \cup (IF g.at \in ExitingLabels THEN {g.p} ELSE {})
  BY <1>1, <1>3, Pushed
<1>6. stack' = a
  BY <1>2
<1> HIDE DEF a
<1>7. /\ Nested(stack') /\ stack'[Len(stack')] = g
      /\ Entered(stack') = Entered(stack) /\ Exiting(stack') = Exiting(stack)
  BY <1>1, <1>4, <1>5, <1>6
<1> QED
  BY <1>7, QuietStep

\* What a function that called another one knows when it continues.
LEMMA Uncovered ==
  ASSUME LifeInv, Top.at \notin MainLabels,
         Top.at \in {"call"} \cup ActLabels \/ ~ (Top.at \in {"call", "mark"} \cup ActLabels)
  PROVE  /\ Popped # << >>
         /\ Calls(Popped[Len(Popped)], Top)
         /\ Popped[Len(Popped)].at = "pollnext"
              => /\ Top.at \in {"call"} \cup ActLabels
                 /\ Popped[Len(Popped)].q = Top.p /\ Top.p \in Listed
<1>1. Popped # << >> /\ Calls(Popped[Len(Popped)], Top)
  BY TopPart DEF Fits
<1>2. Top.at \in ActLabels => Top.p \in Listed
  BY TopPart DEF LifeInv, LifeCore, Consistent, ActLabels
<1> QED
  BY <1>1, <1>2 DEF Calls, LifeInv, LifeCore, Knows

LEMMA QuietPop ==
  ASSUME LifeInv, UNCHANGED procVars,
         Top.at \notin MainLabels \cup ActLabels \cup {"mark"},
         stack' = Popped
  PROVE  LifeCore'
<1> DEFINE u == Popped[Len(Popped)]
<1>1. u.at \in UnderLabels /\ (u.at = "pollnext" => u.q \in Listed)
  BY Uncovered DEF Calls
<1>2. Knows(u, state, next, Listed)
  BY <1>1, LinearFacts, ListDefs
  DEF LifeInv, ListInv, Knows, UnderLabels, MainLabels
<1>3. /\ Nested(Popped)
      /\ Entered(Popped) = Entered(stack) /\ Exiting(Popped) = Exiting(stack)
  BY TopPart DEF ActLabels
<1> QED
  BY <1>2, <1>3, QuietStep

-----------------------------------------------------------------------------
\* The frames the kernel pushes,
LEMMA LifeFrames ==
  ASSUME LifeInv, NEW p \in Proc, NEW ev \in EventNumbers
  PROVE  /\ SynchFrame \in LifeFrame /\ SynchFrame.at = "synch"
         /\ CallFrame(p, ev) \in LifeFrame /\ CallFrame(p, ev).at = "call"
         /\ CallFrame(p, ev).p = p /\ CallFrame(p, ev).ev = ev
         /\ ThreadFrame(p, ev) \in LifeFrame /\ ThreadFrame(p, ev).at = "thread"
         /\ ThreadFrame(p, ev).p = p
         /\ ContextFrame(p) \in LifeFrame /\ ContextFrame(p).at = "context"
<1>1. /\ SynchFrame \in GoodFrame /\ SynchFrame.at = "synch"
      /\ CallFrame(p, ev) \in GoodFrame /\ CallFrame(p, ev).at = "call"
      /\ ThreadFrame(p, ev) \in GoodFrame /\ ThreadFrame(p, ev).at = "thread"
      /\ ContextFrame(p) \in GoodFrame /\ ContextFrame(p).at = "context"
  <2>1. process_current \in Pointer /\ Top.ev \in EventNumbers
    BY TopFrame DEF LifeInv, ProcInv, DataInv, Frame
  <2> QED
    BY <2>1, PlainFrames, ProcessFrames, ContextFrames DEF LifeInv, ProcInv
<1>2. CallFrame(p, ev).p = p /\ CallFrame(p, ev).ev = ev /\ ThreadFrame(p, ev).p = p
  BY DEF CallFrame, ThreadFrame, Blank
<1> QED
  BY <1>1, <1>2 DEF LifeFrame, ExitingLabels, BroadcastLabels

LEMMA LoopFrames ==
  ASSUME LifeInv, NEW q \in Pointer, NEW ev \in EventNumbers, ev # "POLL"
  PROVE  /\ [Blank EXCEPT !.at = "poll"] \in LifeFrame
         /\ [Blank EXCEPT !.at = "poll"].at = "poll"
         /\ [Blank EXCEPT !.at = "bpoll", !.q = q, !.ev = ev] \in LifeFrame
         /\ [Blank EXCEPT !.at = "bpoll", !.q = q, !.ev = ev].at = "bpoll"
<1> DEFINE g == [Blank EXCEPT !.at = "poll"]
           b == [Blank EXCEPT !.at = "bpoll", !.q = q, !.ev = ev]
<1>1. g \in GoodFrame /\ g.at = "poll" /\ b \in GoodFrame /\ b.at = "bpoll"
  BY PlainFrames, BroadcastFrame DEF LifeInv, ProcInv
<1>2. b.ev = ev
  BY DEF Blank
<1> HIDE DEF g, b
<1>3. g \in LifeFrame /\ b \in LifeFrame
  BY <1>1, <1>2 DEF LifeFrame, ExitingLabels, BroadcastLabels
<1> QED
  BY <1>1, <1>3 DEF g, b

\* and the ones it leaves when it goes on to the label l.
To(t, l, q) == [t EXCEPT !.at = l, !.q = q]

LEMMA Moved ==
  ASSUME NEW t \in LifeFrame, NEW l \in Labels, NEW q \in Pointer,
         l \in PLabels => t.p \in Proc,
         l \in QLabels => q \in Proc,
         l \in ExitingLabels => t.from = t.p, l # "exit",
         l \in BroadcastLabels => t.ev # "POLL"
  PROVE  LET f == To(t, l, q)
         IN  /\ f \in LifeFrame /\ f.at = l /\ f.p = t.p /\ f.q = q
             /\ f.ev = t.ev /\ f.from = t.from
BY DEF LifeFrame, GoodFrame, Frame, To

LEMMA MovedAt ==
  ASSUME NEW t \in LifeFrame, NEW l \in Labels,
         l \in PLabels => t.p \in Proc,
         l \in QLabels => t.q \in Proc,
         l \in ExitingLabels => t.from = t.p, l # "exit",
         l \in BroadcastLabels => t.ev # "POLL"
  PROVE  LET f == [t EXCEPT !.at = l]
         IN  /\ f \in LifeFrame /\ f.at = l /\ f.p = t.p /\ f.q = t.q
             /\ f.ev = t.ev /\ f.from = t.from
BY DEF LifeFrame, GoodFrame, Frame

\* What the label of the executing function says about it.
LEMMA TopLabels ==
  ASSUME LifeInv
  PROVE  /\ Top \in LifeFrame /\ Top \in GoodFrame /\ Top \in Frame
         /\ Top.at \in PLabels => Top.p \in Proc
         /\ Top.at \in QLabels => Top.q \in Proc
         /\ Top.at \in ExitingLabels \cup {"exit"} => Top.from = Top.p
         /\ Top.at \in BroadcastLabels => Top.ev # "POLL"
         /\ Top.at \in EnteredLabels => state[Top.p] = "CALLED" /\ Top.p \in Listed
         /\ Top.at \in ExitingLabels => state[Top.p] = "NONE" /\ Top.p \in Listed
BY TopPart DEF LifeInv, LifeCore, LifeFrame, GoodFrame, Consistent

\* process_post_synch() and the call_process() it makes.
LEMMA Synched ==
  ASSUME LifeInv, NEW p \in Proc, NEW ev \in EventNumbers, NEW f \in LifeFrame,
         Follows(Top, f), SamePart(Top, f), f.at \in {"boot", "thread", "context"},
         stack' = Append(Append(Replaced(f), SynchFrame), CallFrame(p, ev))
  PROVE  /\ Nested(stack') /\ Top' = CallFrame(p, ev)
         /\ Entered(stack') = Entered(stack) /\ Exiting(stack') = Exiting(stack)
<1> DEFINE s == Replaced(f)
           g == SynchFrame
           h == CallFrame(p, ev)
           t == Append(s, g)
           u == Append(t, h)
<1>1. stack' = u
  OBVIOUS
<1>2. /\ g \in LifeFrame /\ g.at = "synch"
      /\ h \in LifeFrame /\ h.at = "call"
  BY LifeFrames
<1>3. /\ Nested(s) /\ s # << >> /\ s[Len(s)] = f
      /\ Entered(s) = Entered(stack) /\ Exiting(s) = Exiting(stack)
  BY WentQuietly
<1> HIDE DEF s, g, h
<1>4. /\ g.at \notin ActLabels /\ h.at \notin ActLabels
      /\ g.at \notin EnteredLabels /\ h.at \notin EnteredLabels
      /\ g.at \notin ExitingLabels /\ h.at \notin ExitingLabels
  BY <1>2 DEF ActLabels, EnteredLabels, ExitingLabels
<1>5. Fits(s, g)
  BY <1>2, <1>3
  DEF Fits, Calls, UnderLabels, MainLabels, BroadcastLabels, PollLabels
<1>6. /\ Nested(t) /\ t # << >> /\ t[Len(t)] = g
      /\ Entered(t) = Entered(s) \cup (IF g.at \in EnteredLabels THEN {g.p} ELSE {})
      /\ Exiting(t) = Exiting(s) \cup (IF g.at \in ExitingLabels THEN {g.p} ELSE {})
  BY <1>2, <1>3, <1>4, <1>5, Pushed
<1> HIDE DEF t
<1>7. Fits(t, h)
  BY <1>2, <1>6
  DEF Fits, Calls, UnderLabels, MainLabels, BroadcastLabels, PollLabels
<1>8. /\ Nested(u) /\ u[Len(u)] = h
      /\ Entered(u) = Entered(t) \cup (IF h.at \in EnteredLabels THEN {h.p} ELSE {})
      /\ Exiting(u) = Exiting(t) \cup (IF h.at \in ExitingLabels THEN {h.p} ELSE {})
  BY <1>2, <1>4, <1>6, <1>7, Pushed
<1> HIDE DEF u
<1>9. /\ Nested(stack') /\ Top' = h
      /\ Entered(stack') = Entered(stack) /\ Exiting(stack') = Exiting(stack)
  BY <1>1, <1>3, <1>4, <1>6, <1>8 DEF Top
<1> QED
  BY <1>9 DEF h

\* process_start() of a process that is not on the list.
LEMMA StartCore ==
  ASSUME LifeInv, NEW p \in Proc, NEW f \in LifeFrame,
         Follows(Top, f), SamePart(Top, f), f.at \in {"boot", "thread", "context"},
         process_start(p, Replaced(f))
  PROVE  LifeCore'
<1>1. CASE p \in Listed
  <2>1. stack' = Replaced(f) /\ UNCHANGED procVars
    BY <1>1 DEF process_start
  <2> QED
    BY <2>1, QuietGoto DEF Knows
<1>2. CASE p \notin Listed
  <2> DEFINE h == CallFrame(p, "INIT")
  <2>1. /\ HeadAdded(p) /\ state' = [state EXCEPT ![p] = "RUNNING"]
        /\ stack' = Append(Append(Replaced(f), SynchFrame), h)
    BY <1>2 DEF process_start, HeadAdded
  <2>2. Listed' = Listed \cup {p}
    BY <2>1, StartedList DEF LifeInv
  <2>3. h \in LifeFrame /\ h.at = "call" /\ h.ev = "INIT"
    BY LifeFrames DEF EventNumbers
  <2>4. /\ Nested(stack') /\ Top' = h
        /\ Entered(stack') = Entered(stack) /\ Exiting(stack') = Exiting(stack)
    BY <2>1, Synched DEF EventNumbers
  <2> HIDE DEF h
  <2>5. /\ p \notin Entered(stack) /\ p \notin Exiting(stack)
        /\ state \in [Proc -> State]
    BY <1>2 DEF LifeInv, LifeCore, Consistent, ProcInv, DataInv
  <2>6. Consistent(stack', state', Listed')
    BY <2>1, <2>2, <2>4, <2>5 DEF LifeInv, LifeCore, Consistent
  <2>7. Knows(Top', state', next', Listed')
    BY <2>3, <2>4 DEF Knows
  <2> QED
    BY <2>4, <2>6, <2>7 DEF LifeCore
<1> QED
  BY <1>1, <1>2

\* The steps of main() keep activations apart.
LEMMA MainCore ==
  ASSUME LifeInv, NoForcedExit, MainStep
  PROVE  LifeCore'
<1>0. Top \in LifeFrame /\ Top \in Frame
  BY TopLabels
<1>1. CASE BootStart
  <2> DEFINE p == Autostart[Top.left + 1]
             f == [Top EXCEPT !.left = @ + 1]
  <2>1. Top.at = "boot" /\ Top.left < Len(Autostart) /\ Top.left \in Nat
    BY <1>0, <1>1 DEF BootStart, At, Frame
  <2>2. p \in Proc
    BY <2>1, ProcessAssumption
  <2>3. f \in LifeFrame /\ f.at = "boot"
    BY <1>0, <2>1 DEF LifeFrame, GoodFrame, Frame, ExitingLabels, BroadcastLabels
  <2>4. Follows(Top, f) /\ SamePart(Top, f)
    BY <2>1, <2>3
    DEF Follows, SamePart, MainLabels, ActLabels, EnteredLabels, ExitingLabels,
        BroadcastLabels, PollLabels
  <2>5. process_start(p, Replaced(f))
    BY <1>1 DEF BootStart
  <2> HIDE DEF p, f
  <2> QED
    BY <2>2, <2>3, <2>4, <2>5, StartCore
<1>r. ASSUME NEW l \in {"run", "event"}, Top.at \in MainLabels
      PROVE  LET f == [Top EXCEPT !.at = l]
             IN  /\ f \in LifeFrame /\ f.at = l
                 /\ Follows(Top, f) /\ SamePart(Top, f)
  <2> DEFINE f == [Top EXCEPT !.at = l]
  <2>1. l \in Labels /\ l \notin PLabels /\ l \notin QLabels
        /\ l \notin ExitingLabels /\ l # "exit" /\ l \notin BroadcastLabels
    BY DEF Labels, PLabels, QLabels, ExitingLabels, BroadcastLabels
  <2>2. f \in LifeFrame /\ f.at = l
    BY <1>0, <2>1, MovedAt
  <2> HIDE DEF f
  <2>3. Follows(Top, f) /\ SamePart(Top, f)
    BY <1>r, <2>2
    DEF Follows, SamePart, MainLabels, ActLabels, EnteredLabels, ExitingLabels,
        BroadcastLabels, PollLabels
  <2> QED
    BY <2>2, <2>3 DEF f
<1>2. CASE BootDone \/ RunIdle
  <2> DEFINE f == [Top EXCEPT !.at = "run"]
  <2>1. stack' = Replaced(f) /\ UNCHANGED procVars /\ Top.at \in MainLabels
    BY <1>2 DEF BootDone, RunIdle, Goto, At, MainLabels
  <2>2. f \in LifeFrame /\ f.at = "run" /\ Follows(Top, f) /\ SamePart(Top, f)
    BY <1>r, <2>1
  <2> HIDE DEF f
  <2> QED
    BY <2>1, <2>2, QuietGoto DEF Knows
<1>3. CASE RunPoll
  <2> DEFINE f == [Top EXCEPT !.at = "event"]
             g == [Blank EXCEPT !.at = "poll"]
  <2>1. /\ stack' = Replaced(f) \/ stack' = Append(Replaced(f), g)
        /\ UNCHANGED procVars /\ Top.at \in MainLabels
    BY <1>3 DEF RunPoll, Goto, At, MainLabels
  <2>2. f \in LifeFrame /\ f.at = "event" /\ Follows(Top, f) /\ SamePart(Top, f)
    BY <1>r, <2>1
  <2>3. g \in LifeFrame /\ g.at = "poll"
    BY LoopFrames DEF Pointer, EventNumbers
  <2> HIDE DEF f, g
  <2>4. Calls(f, g) /\ g.at \notin ActLabels
    BY <2>2, <2>3
    DEF Calls, UnderLabels, MainLabels, ActLabels, EnteredLabels, ExitingLabels,
        BroadcastLabels
  <2>5. Knows(f, state, next, Listed) /\ Knows(g, state, next, Listed)
    BY <2>2, <2>3 DEF Knows
  <2> QED
    BY <2>1, <2>2, <2>3, <2>4, <2>5, QuietGoto, QuietCall
<1>4. CASE RunUnicast \/ RunBroadcast
  <2> DEFINE m == NextMessage
             f == [Top EXCEPT !.at = "run"]
             c == CallFrame(m.p, m.ev)
             b == [Blank EXCEPT !.at = "bpoll", !.q = process_list, !.ev = m.ev]
  <2>1. m \in Message
    <3>1. QueueInv /\ TakeEvent
      BY <1>4 DEF RunUnicast, RunBroadcast, LifeInv, ProcInv, DataInv
    <3>2. m = Head(Waiting) /\ Waiting # << >> /\ Waiting \in Seq(Message)
      BY <3>1, TakeEventInv, WaitingIsSeq
    <3> QED
      BY <3>2
  <2>2. /\ m.p \in Pointer /\ m.ev \in EventNumbers
        /\ m.ev # "POLL" /\ m.ev # "INIT"
    BY <2>1, ProcessAssumption DEF Pointer, EventNumbers, NoForcedExit
  <2>3. Top.at \in MainLabels
    BY <1>4 DEF RunUnicast, RunBroadcast, At, MainLabels
  <2>4. f \in LifeFrame /\ f.at = "run" /\ Follows(Top, f) /\ SamePart(Top, f)
    BY <1>r, <2>3
  <2>5. CASE RunUnicast
    <3>1. /\ m.p \in Proc /\ stack' = Append(Replaced(f), c)
          /\ UNCHANGED procVars
      BY <2>2, <2>5 DEF RunUnicast, Goto, Pointer, procVars
    <3>2. c \in LifeFrame /\ c.at = "call" /\ c.ev # "POLL"
      <4> HIDE DEF m
      <4> QED
        BY <2>2, <3>1, LifeFrames
    <3> HIDE DEF m, f, c
    <3>3. Calls(f, c) /\ c.at \notin ActLabels
      BY <2>4, <3>2
      DEF Calls, UnderLabels, MainLabels, ActLabels, EnteredLabels,
          ExitingLabels, BroadcastLabels, PollLabels
    <3>4. Knows(c, state, next, Listed)
      BY <3>2 DEF Knows
    <3> QED
      BY <2>4, <3>1, <3>2, <3>3, <3>4, QuietCall
  <2>6. CASE RunBroadcast
    <3>1. stack' = Append(Replaced(f), b) /\ UNCHANGED procVars
      BY <2>6 DEF RunBroadcast, Goto
    <3>2. b \in LifeFrame /\ b.at = "bpoll"
      <4> HIDE DEF m
      <4> QED
        BY <2>2, LoopFrames DEF LifeInv, ProcInv, DataInv
    <3> HIDE DEF m, f, b
    <3>3. Calls(f, b) /\ b.at \notin ActLabels
      BY <2>4, <3>2
      DEF Calls, UnderLabels, MainLabels, ActLabels, EnteredLabels,
          ExitingLabels, BroadcastLabels, PollLabels
    <3>4. Knows(b, state, next, Listed)
      BY <3>2 DEF Knows
    <3> QED
      BY <2>4, <3>1, <3>2, <3>3, <3>4, QuietCall
  <2> QED
    BY <1>4, <2>5, <2>6
<1> QED
  BY <1>1, <1>2, <1>3, <1>4 DEF MainStep

\* The broadcast loop keeps activations apart.
LEMMA EventCore ==
  ASSUME LifeInv, EventStep
  PROVE  LifeCore'
<1>0. /\ Top \in LifeFrame /\ Top \in Frame
      /\ Top.at \in QLabels => Top.q \in Proc
      /\ Top.at \in BroadcastLabels => Top.ev # "POLL"
  BY TopLabels
<1>l. ASSUME NEW l \in BroadcastLabels
      PROVE  l \in Labels /\ l \notin PLabels /\ l \notin ExitingLabels /\ l # "exit"
  BY DEF BroadcastLabels, Labels, PLabels, ExitingLabels
<1>f. ASSUME NEW f \in LifeFrame, f.at \in BroadcastLabels, Top.at \in BroadcastLabels
      PROVE  Follows(Top, f) /\ SamePart(Top, f) /\ Knows(f, state, next, Listed)
  BY <1>f
  DEF Follows, SamePart, Knows, MainLabels, ActLabels, EnteredLabels, ExitingLabels,
      BroadcastLabels, PollLabels
<1>1. CASE BroadcastPoll
  <2> DEFINE f == [Top EXCEPT !.at = "bcall"]
             g == [Blank EXCEPT !.at = "poll"]
  <2>1. Top.at = "bpoll" /\ UNCHANGED procVars
    BY <1>1 DEF BroadcastPoll, At
  <2>2. CASE Top.q = NULL
    <3>1. stack' = Popped
      BY <1>1, <2>2 DEF BroadcastPoll
    <3> QED
      BY <2>1, <3>1, QuietPop DEF MainLabels, ActLabels, EnteredLabels, ExitingLabels
  <2>3. CASE Top.q # NULL
    <3>1. stack' = Replaced(f) \/ stack' = Append(Replaced(f), g)
      BY <1>1, <2>3 DEF BroadcastPoll, Goto
    <3>2. Top.q \in Proc /\ "bcall" \in BroadcastLabels /\ "bpoll" \in BroadcastLabels
      BY <1>0, <2>3 DEF Frame, Pointer, BroadcastLabels
    <3>3. f \in LifeFrame /\ f.at = "bcall"
      BY <1>0, <1>l, <2>1, <3>2, MovedAt
    <3>4. g \in LifeFrame /\ g.at = "poll"
      BY LoopFrames DEF Pointer, EventNumbers
    <3> HIDE DEF f, g
    <3>5. Calls(f, g) /\ g.at \notin ActLabels /\ Knows(g, state, next, Listed)
      BY <3>3, <3>4
      DEF Calls, UnderLabels, MainLabels, ActLabels, EnteredLabels, ExitingLabels,
          BroadcastLabels, Knows
    <3>6. Follows(Top, f) /\ SamePart(Top, f) /\ Knows(f, state, next, Listed)
      BY <1>f, <2>1, <3>2, <3>3
    <3> QED
      BY <2>1, <3>1, <3>3, <3>4, <3>5, <3>6, QuietGoto, QuietCall
  <2> QED
    BY <2>2, <2>3
<1>2. CASE BroadcastCall
  <2> DEFINE f == [Top EXCEPT !.at = "bnext"]
             g == CallFrame(Top.q, Top.ev)
  <2>1. /\ Top.at = "bcall" /\ UNCHANGED procVars
        /\ stack' = Append(Replaced(f), g)
    BY <1>2 DEF BroadcastCall, At, Goto
  <2>2. /\ Top.q \in Proc /\ "bcall" \in BroadcastLabels /\ "bnext" \in BroadcastLabels
        /\ Top.ev \in EventNumbers /\ Top.ev # "POLL"
    BY <1>0, <2>1 DEF QLabels, Frame, BroadcastLabels
  <2>3. f \in LifeFrame /\ f.at = "bnext"
    BY <1>0, <1>l, <2>2, MovedAt
  <2>4. g \in LifeFrame /\ g.at = "call" /\ g.ev # "POLL"
    BY <2>2, LifeFrames
  <2> HIDE DEF f, g
  <2>5. Calls(f, g) /\ g.at \notin ActLabels /\ Knows(g, state, next, Listed)
    BY <2>3, <2>4
    DEF Calls, UnderLabels, MainLabels, ActLabels, EnteredLabels, ExitingLabels,
        BroadcastLabels, PollLabels, Knows
  <2>6. Follows(Top, f) /\ SamePart(Top, f)
    BY <1>f, <2>1, <2>2, <2>3
  <2> QED
    BY <2>1, <2>3, <2>4, <2>5, <2>6, QuietCall
<1>3. CASE BroadcastNext
  <2> DEFINE f == To(Top, "bpoll", next[Top.q])
  <2>1. /\ Top.at = "bnext" /\ UNCHANGED procVars
        /\ stack' = Replaced(f)
    BY <1>3 DEF BroadcastNext, At, To
  <2>2. /\ Top.q \in Proc /\ "bnext" \in BroadcastLabels /\ "bpoll" \in BroadcastLabels
        /\ "bpoll" \notin QLabels
    BY <1>0, <2>1 DEF QLabels, BroadcastLabels
  <2>3. next[Top.q] \in Pointer
    BY <2>2 DEF LifeInv, ProcInv, DataInv
  <2>4. f \in LifeFrame /\ f.at = "bpoll"
    BY <1>0, <1>l, <2>1, <2>2, <2>3, Moved
  <2> HIDE DEF f
  <2>5. Follows(Top, f) /\ SamePart(Top, f) /\ Knows(f, state, next, Listed)
    BY <1>f, <2>1, <2>2, <2>4
  <2> QED
    BY <2>1, <2>4, <2>5, QuietGoto
<1> QED
  BY <1>1, <1>2, <1>3 DEF EventStep

\* No activation is below do_poll(), which only main() and the broadcast loop call.
LEMMA NoneBelowPoll ==
  ASSUME NEW s, Nested(s), s # << >>, s[Len(s)].at \in PollLabels
  PROVE  Entered(s) = {} /\ Exiting(s) = {}
<1> DEFINE n == Len(s)
<1>0. s \in Seq(LifeFrame) /\ n \in Nat \ {0}
  <2>1. s \in Seq(LifeFrame)
    BY DEF Nested
  <2> QED
    BY <2>1, EmptySeq
<1>1. ASSUME NEW i \in 2 .. n PROVE Calls(s[i - 1], s[i])
  <2>1. i - 1 \in 1 .. n - 1 /\ (i - 1) + 1 = i
    BY <1>0
  <2> QED
    BY <2>1 DEF Nested
<1>2. ASSUME NEW i \in 1 .. n, s[i].at \in MainLabels PROVE i = 1
  BY <1>0, <1>1, <1>2 DEF Calls
<1>3. s[1].at \in MainLabels
  BY <1>0 DEF Nested
<1>4. ASSUME NEW i \in 1 .. n, s[i].at \in BroadcastLabels PROVE i = 2
  <2>1. i # 1
    BY <1>3, <1>4, LabelSets
  <2>2. s[i - 1].at \in MainLabels /\ i - 1 \in 1 .. n
    BY <1>0, <1>1, <1>4, <2>1 DEF Calls
  <2> QED
    BY <1>2, <2>2
<1>5. s[n].at \in PollLabels
  OBVIOUS
<1>6. n \in 2 .. n
  BY <1>0, <1>3, <1>5, LabelSets
<1>7. s[n - 1].at \in MainLabels \cup {"bcall"} /\ n - 1 \in 1 .. n
  BY <1>0, <1>1, <1>5, <1>6 DEF Calls
<1>8. ASSUME NEW i \in 1 .. n PROVE s[i].at \notin ActLabels
  <2>1. CASE s[n - 1].at \in MainLabels
    <3>1. n - 1 = 1
      BY <1>2, <1>7, <2>1
    <3>2. n = 2
      BY <1>0, <3>1
    <3> QED
      BY <1>3, <1>5, <3>2, LabelSets
  <2>2. CASE s[n - 1].at = "bcall"
    <3>1. n = 3 /\ s[2].at \in BroadcastLabels
      <4>1. s[n - 1].at \in BroadcastLabels
        BY <2>2 DEF BroadcastLabels
      <4>2. n - 1 = 2
        BY <1>4, <1>7, <4>1
      <4>3. n = 3
        BY <1>0, <4>2
      <4> QED
        BY <4>1, <4>2, <4>3
    <3> QED
      BY <1>3, <1>5, <3>1, LabelSets
  <2> QED
    BY <1>7, <2>1, <2>2
<1>9. Holders(ActLabels, s) = {}
  BY <1>8 DEF Holders
<1> QED
  BY <1>9, ActHolders

\* do_poll() keeps activations apart: the process at its cursor is on the list.
LEMMA PollCore ==
  ASSUME LifeInv, PollStep
  PROVE  LifeCore'
<1>0. /\ Top \in LifeFrame /\ Top \in Frame
      /\ Top.at \in QLabels => Top.q \in Proc
  BY TopLabels
<1>k. Knows(Top, state, next, Listed)
  BY DEF LifeInv, LifeCore
<1>s. /\ Listed \subseteq Proc /\ process_list \in Listed \cup {NULL}
      /\ \A q \in Listed : next[q] \in Listed \cup {NULL}
  BY LinearFacts, ListDefs DEF LifeInv, ListInv
<1>l. ASSUME NEW l \in PollLabels
      PROVE  /\ l \in Labels /\ l \notin PLabels /\ l \notin ExitingLabels
             /\ l # "exit" /\ l \notin BroadcastLabels
  BY DEF BroadcastLabels, Labels, PLabels, ExitingLabels, PollLabels
<1>m. {"poll", "scan", "ready", "claim", "pollnext"} \subseteq PollLabels
  BY DEF PollLabels
<1>f. ASSUME NEW f \in LifeFrame, f.at \in PollLabels, Top.at \in PollLabels
      PROVE  Follows(Top, f) /\ SamePart(Top, f)
  BY <1>f
  DEF Follows, SamePart, MainLabels, ActLabels, EnteredLabels, ExitingLabels,
      BroadcastLabels, PollLabels
<1>1. CASE PollBegin
  <2> DEFINE f == To(Top, "scan", process_list)
  <2>1. Top.at = "poll" /\ UNCHANGED procVars /\ stack' = Replaced(f)
    BY <1>1 DEF PollBegin, At, To
  <2>2. process_list \in Pointer /\ "scan" \notin QLabels
    BY <1>s DEF Pointer, QLabels
  <2>3. f \in LifeFrame /\ f.at = "scan" /\ f.q = process_list
    BY <1>0, <1>l, <1>m, <2>2, Moved
  <2> HIDE DEF f
  <2>4. Knows(f, state, next, Listed)
    BY <1>s, <2>3 DEF Knows
  <2> QED
    BY <1>f, <1>m, <2>1, <2>3, <2>4, QuietGoto
<1>2. CASE PollScan
  <2>1. Top.at = "scan" /\ UNCHANGED procVars
    BY <1>2 DEF PollScan, At
  <2>2. CASE Top.q = NULL
    <3>1. stack' = Popped
      BY <1>2, <2>2 DEF PollScan
    <3> QED
      BY <2>1, <3>1, QuietPop DEF MainLabels, ActLabels, EnteredLabels, ExitingLabels
  <2>3. CASE Top.q # NULL
    <3>1. PICK l \in {"ready", "pollnext"} : stack' = Goto(l)
      BY <1>2, <2>3 DEF PollScan
    <3> DEFINE f == [Top EXCEPT !.at = l]
    <3>2. Top.q \in Listed
      BY <1>k, <2>1, <2>3 DEF Knows
    <3>3. f \in LifeFrame /\ f.at = l /\ f.q = Top.q
      BY <1>0, <1>l, <1>m, <1>s, <3>2, MovedAt
    <3>4. stack' = Replaced(f)
      BY <3>1 DEF Goto
    <3> HIDE DEF f
    <3>5. Knows(f, state, next, Listed)
      BY <1>s, <3>2, <3>3 DEF Knows
    <3> QED
      BY <1>f, <1>m, <2>1, <3>3, <3>4, <3>5, QuietGoto
  <2> QED
    BY <2>2, <2>3
<1>3. CASE PollReady
  <2> DEFINE f == [Top EXCEPT !.at = "claim"]
  <2>1. /\ Top.at = "ready" /\ UNCHANGED << process_list, next >>
        /\ state' = [state EXCEPT ![Top.q] = "RUNNING"]
        /\ stack' = Replaced(f)
    BY <1>3 DEF PollReady, At, Goto
  <2>2. Top.q \in Listed /\ Top.q \in Proc
    BY <1>k, <1>s, <2>1 DEF Knows
  <2>3. f \in LifeFrame /\ f.at = "claim" /\ f.q = Top.q
    BY <1>0, <1>l, <1>m, <2>2, MovedAt
  <2>4. Follows(Top, f) /\ SamePart(Top, f)
    BY <1>f, <1>m, <2>1, <2>3
  <2>5. Entered(stack) = {} /\ Exiting(stack) = {}
    BY <1>m, <2>1, NoneBelowPoll
    DEF LifeInv, LifeCore, Top, ProcInv, StackInv, Well
  <2> HIDE DEF f
  <2>6. /\ Nested(stack') /\ Top' = f
        /\ Entered(stack') = {} /\ Exiting(stack') = {}
    BY <2>1, <2>3, <2>4, <2>5, WentQuietly DEF Top
  <2>7. Listed' = Listed
    BY <2>1, SameList
  <2>8. state \in [Proc -> State]
    BY DEF LifeInv, ProcInv, DataInv
  <2>9. Consistent(stack', state', Listed')
    BY <1>s, <2>1, <2>2, <2>5, <2>6, <2>7, <2>8 DEF LifeInv, LifeCore, Consistent
  <2>10. Knows(Top', state', next', Listed')
    BY <2>2, <2>3, <2>6, <2>7 DEF Knows
  <2> QED
    BY <2>6, <2>9, <2>10 DEF LifeCore
<1>4. CASE PollClaim
  <2> DEFINE f == [Top EXCEPT !.at = "pollnext"]
             g == CallFrame(Top.q, "POLL")
  <2>1. /\ Top.at = "claim" /\ UNCHANGED procVars
        /\ stack' = Append(Replaced(f), g)
    BY <1>4 DEF PollClaim, At, Goto
  <2>2. Top.q \in Listed /\ Top.q \in Proc
    BY <1>k, <1>s, <2>1 DEF Knows
  <2>3. f \in LifeFrame /\ f.at = "pollnext" /\ f.q = Top.q
    BY <1>0, <1>l, <1>m, <2>2, MovedAt
  <2>4. g \in LifeFrame /\ g.at = "call" /\ g.p = Top.q /\ g.ev = "POLL"
    BY <2>2, LifeFrames DEF EventNumbers
  <2> HIDE DEF f, g
  <2>5. Calls(f, g) /\ g.at \notin ActLabels /\ Knows(g, state, next, Listed)
    BY <2>2, <2>3, <2>4
    DEF Calls, UnderLabels, MainLabels, ActLabels, EnteredLabels, ExitingLabels,
        BroadcastLabels, PollLabels, Knows
  <2>6. Follows(Top, f) /\ SamePart(Top, f)
    BY <1>f, <1>m, <2>1, <2>3
  <2> QED
    BY <2>1, <2>3, <2>4, <2>5, <2>6, QuietCall
<1>5. CASE PollNext
  <2> DEFINE f == To(Top, "scan", next[Top.q])
  <2>1. Top.at = "pollnext" /\ UNCHANGED procVars /\ stack' = Replaced(f)
    BY <1>5 DEF PollNext, At, To
  <2>2. /\ next[Top.q] \in Listed \cup {NULL} /\ next[Top.q] \in Pointer
        /\ "scan" \notin QLabels
    BY <1>k, <1>s, <2>1 DEF Knows, Pointer, QLabels
  <2>3. f \in LifeFrame /\ f.at = "scan" /\ f.q = next[Top.q]
    BY <1>0, <1>l, <1>m, <2>2, Moved
  <2> HIDE DEF f
  <2>4. Knows(f, state, next, Listed)
    BY <2>2, <2>3 DEF Knows
  <2> QED
    BY <1>f, <1>m, <2>1, <2>3, <2>4, QuietGoto
<1> QED
  BY <1>1, <1>2, <1>3, <1>4, <1>5 DEF PollStep

\* call_process() enters a process that is on the list and has no activation.
LEMMA ThreadCalled ==
  ASSUME LifeInv, CallThread
  PROVE  Top.p \in Listed /\ LifeCore'
<1> DEFINE p == Top.p
           f == [Top EXCEPT !.at = "calling"]
           g == ThreadFrame(p, Top.ev)
           s == Replaced(f)
           u == Append(s, g)
<1>1. /\ Top.at = "mark" /\ UNCHANGED << process_list, next >>
      /\ state' = [state EXCEPT ![p] = "CALLED"] /\ stack' = u
  BY DEF CallThread, At, Goto
<1>2. /\ Top \in LifeFrame /\ p \in Proc /\ Top.ev \in EventNumbers
  BY <1>1, TopLabels DEF PLabels, Frame
<1>3. state[p] \in Callable /\ state \in [Proc -> State]
  BY <1>1 DEF LifeInv, LifeCore, Knows, ProcInv, DataInv
<1>4. p \in Listed /\ p \notin Entered(stack) /\ p \notin Exiting(stack)
  BY <1>2, <1>3 DEF LifeInv, LifeCore, Consistent, Callable
<1>5. f \in LifeFrame /\ f.at = "calling" /\ f.p = p
  <2>1. /\ "calling" \in Labels /\ "calling" \notin QLabels
        /\ "calling" \notin ExitingLabels /\ "calling" \notin BroadcastLabels
    BY DEF Labels, QLabels, ExitingLabels, BroadcastLabels
  <2> QED
    BY <1>2, <2>1, MovedAt
<1>6. g \in LifeFrame /\ g.at = "thread" /\ g.p = p
  BY <1>2, LifeFrames
<1> HIDE DEF p, f, g, s
<1>7. Follows(Top, f)
  BY <1>1, <1>5
  DEF Follows, MainLabels, ActLabels, EnteredLabels, ExitingLabels,
      BroadcastLabels, PollLabels, p
<1>8. /\ Top.at \notin EnteredLabels /\ Top.at \notin ExitingLabels
      /\ f.at \in EnteredLabels /\ f.at \notin ExitingLabels
      /\ g.at \notin ActLabels /\ g.at \notin EnteredLabels /\ g.at \notin ExitingLabels
  BY <1>1, <1>5, <1>6 DEF ActLabels, EnteredLabels, ExitingLabels
<1>9. Entered(stack) = Entered(Popped) /\ Exiting(stack) = Exiting(Popped)
  BY <1>8, TopPart
<1>10. /\ Nested(s) /\ s # << >> /\ s[Len(s)] = f
       /\ Entered(s) = Entered(stack) \cup {p} /\ Exiting(s) = Exiting(stack)
  BY <1>4, <1>5, <1>7, <1>8, <1>9, Went DEF s
<1>11. Fits(s, g)
  BY <1>5, <1>6, <1>10
  DEF Fits, Calls, UnderLabels, MainLabels, BroadcastLabels, PollLabels
<1>12. /\ Nested(u) /\ u[Len(u)] = g
       /\ Entered(u) = Entered(s) \cup (IF g.at \in EnteredLabels THEN {g.p} ELSE {})
       /\ Exiting(u) = Exiting(s) \cup (IF g.at \in ExitingLabels THEN {g.p} ELSE {})
  BY <1>6, <1>8, <1>10, <1>11, Pushed
<1> HIDE DEF u
<1>13. /\ Nested(stack') /\ Top' = g
       /\ Entered(stack') = Entered(stack) \cup {p}
       /\ Exiting(stack') = Exiting(stack)
  BY <1>1, <1>8, <1>10, <1>12 DEF Top
<1>14. Listed' = Listed
  BY <1>1, SameList
<1>15. Listed \subseteq Proc
  BY LinearFacts, ListDefs DEF LifeInv, ListInv
<1>16. Consistent(stack', state', Listed')
  BY <1>1, <1>2, <1>3, <1>4, <1>13, <1>14, <1>15
  DEF LifeInv, LifeCore, Consistent
<1>17. Knows(Top', state', next', Listed')
  BY <1>6, <1>13 DEF Knows
<1> QED
  BY <1>4, <1>13, <1>16, <1>17 DEF LifeCore, p

\* call_process() keeps activations apart.
LEMMA CallCore ==
  ASSUME LifeInv, CallStep
  PROVE  LifeCore'
<1>0. /\ Top \in LifeFrame /\ Top \in Frame
      /\ Top.at \in PLabels => Top.p \in Proc
  BY TopLabels
<1>s. /\ Listed \subseteq Proc
      /\ \A q \in Listed : next[q] \in Listed \cup {NULL}
  BY LinearFacts, ListDefs DEF LifeInv, ListInv
<1>1. CASE CallEnter
  <2>1. Top.at = "call" /\ UNCHANGED procVars
    BY <1>1 DEF CallEnter, At
  <2>2. CASE state[Top.p] \in Callable
    <3> DEFINE f == [Top EXCEPT !.at = "mark"]
    <3>1. stack' = Replaced(f)
      BY <1>1, <2>2 DEF CallEnter, Goto
    <3>2. Top.p \in Proc
      BY <1>0, <2>1 DEF PLabels
    <3>3. /\ "mark" \in Labels /\ "mark" \notin QLabels
          /\ "mark" \notin ExitingLabels /\ "mark" \notin BroadcastLabels
      BY DEF Labels, QLabels, ExitingLabels, BroadcastLabels
    <3>4. f \in LifeFrame /\ f.at = "mark" /\ f.p = Top.p
      BY <1>0, <3>2, <3>3, MovedAt
    <3> HIDE DEF f
    <3>5. Follows(Top, f) /\ SamePart(Top, f)
      BY <2>1, <3>4
      DEF Follows, SamePart, MainLabels, ActLabels, EnteredLabels, ExitingLabels,
          BroadcastLabels, PollLabels
    <3>6. Knows(f, state, next, Listed)
      BY <2>2, <3>4 DEF Knows
    <3> QED
      BY <2>1, <3>1, <3>4, <3>5, <3>6, QuietGoto
  <2>3. CASE state[Top.p] \notin Callable
    <3>1. stack' = Popped
      BY <1>1, <2>3 DEF CallEnter
    <3> QED
      BY <2>1, <3>1, QuietPop DEF MainLabels, ActLabels, EnteredLabels, ExitingLabels
  <2> QED
    BY <2>2, <2>3
<1>2. CASE CallThread
  BY <1>2, ThreadCalled
<1>3. CASE CallDone
  <2> DEFINE u == Popped[Len(Popped)]
  <2>1. /\ Top.at = "done" /\ UNCHANGED << process_list, next >>
        /\ state' = [state EXCEPT ![Top.p] = "RUNNING"] /\ stack' = Popped
    BY <1>3 DEF CallDone, At
  <2>l. /\ "done" \in ActLabels /\ "done" \in EnteredLabels /\ "done" \in PLabels
        /\ "done" \notin ExitingLabels /\ "done" \notin MainLabels
    BY DEF ActLabels, EnteredLabels, ExitingLabels, PLabels, MainLabels
  <2>2. /\ Top.p \in Proc /\ Top.p \in Listed
        /\ Top.p \notin Entered(Popped) /\ Top.p \notin Exiting(Popped)
        /\ Entered(stack) = Entered(Popped) \cup {Top.p}
        /\ Exiting(stack) = Exiting(Popped) /\ Nested(Popped)
    BY <1>0, <2>1, <2>l, TopLabels, TopPart
  <2>3. Listed' = Listed /\ state \in [Proc -> State]
    BY <2>1, SameList DEF LifeInv, ProcInv, DataInv
  <2>4. Consistent(stack', state', Listed')
    BY <1>s, <2>1, <2>2, <2>3 DEF LifeInv, LifeCore, Consistent
  <2>5. u.at \in UnderLabels /\ (u.at = "pollnext" => u.q \in Listed)
    BY <2>1, <2>l, Uncovered DEF Calls
  <2>6. Top' = u
    BY <2>1 DEF Top
  <2> HIDE DEF u
  <2>7. Knows(Top', state', next', Listed')
    BY <1>s, <2>1, <2>3, <2>5, <2>6 DEF Knows, UnderLabels, MainLabels
  <2> QED
    BY <2>1, <2>2, <2>4, <2>7 DEF LifeCore
<1>4. CASE CallExit
  <2> DEFINE f == ExitFrame(Top.p, Top.p)
  <2>1. Top.at = "exiting" /\ UNCHANGED procVars /\ stack' = Replaced(f)
    BY <1>4 DEF CallExit, At
  <2>2. Top.p \in Proc /\ Top.p \in Pointer
    BY <1>0, <2>1 DEF PLabels, Pointer
  <2>3. f \in GoodFrame /\ f.at = "exit"
    BY <2>2, ExitFrames DEF LifeInv, ProcInv
  <2>4. f.p = Top.p /\ f.from = Top.p
    BY DEF ExitFrame, Blank
  <2> HIDE DEF f
  <2>5. f \in LifeFrame
    BY <2>3, <2>4 DEF LifeFrame, BroadcastLabels
  <2>6. Follows(Top, f) /\ SamePart(Top, f)
    BY <2>1, <2>3, <2>4
    DEF Follows, SamePart, MainLabels, ActLabels, EnteredLabels, ExitingLabels,
        BroadcastLabels, PollLabels
  <2>7. Knows(f, state, next, Listed)
    BY <2>3 DEF Knows
  <2> QED
    BY <2>1, <2>5, <2>6, <2>7, QuietGoto
<1>5. CASE SynchReturn
  <2>1. Top.at = "synch" /\ stack' = Popped /\ UNCHANGED procVars
    BY <1>5 DEF SynchReturn, At
  <2> QED
    BY <2>1, QuietPop DEF MainLabels, ActLabels, EnteredLabels, ExitingLabels
<1> QED
  BY <1>1, <1>2, <1>3, <1>4, <1>5 DEF CallStep

\* exit_process() keeps activations apart: it runs on the activation it ends.
LEMMA ExitCore ==
  ASSUME LifeInv, ExitStep
  PROVE  LifeCore'
<1>0. /\ Top \in LifeFrame /\ Top \in Frame
      /\ Top.at \in PLabels => Top.p \in Proc
      /\ Top.at \in QLabels => Top.q \in Proc
      /\ Top.at \in ExitingLabels \cup {"exit"} => Top.from = Top.p
      /\ Top.at \in EnteredLabels => state[Top.p] = "CALLED" /\ Top.p \in Listed
      /\ Top.at \in ExitingLabels => state[Top.p] = "NONE" /\ Top.p \in Listed
  BY TopLabels
<1>s. /\ Listed \subseteq Proc /\ process_list \in Listed \cup {NULL}
      /\ \A q \in Listed : next[q] \in Listed \cup {NULL} /\ next[q] # q
  BY LinearFacts, ListDefs DEF LifeInv, ListInv
<1>l. /\ {"tell", "tellnext", "unlink"} = ExitingLabels
      /\ \A l \in {"tell", "tellnext", "unlink"} :
           l \in Labels /\ l \in PLabels /\ l # "exit" /\ l \notin BroadcastLabels
      /\ "exit" \in EnteredLabels /\ "exit" \in PLabels
      /\ "tell" \notin QLabels /\ "unlink" \notin QLabels /\ "tellnext" \in QLabels
  BY DEF ExitingLabels, EnteredLabels, Labels, PLabels, QLabels, BroadcastLabels
<1>f. ASSUME NEW f \in LifeFrame, f.at \in ExitingLabels, f.p = Top.p,
             Top.at \in ExitingLabels
      PROVE  Follows(Top, f) /\ SamePart(Top, f) /\ Knows(f, state, next, Listed)
  BY <1>f
  DEF Follows, SamePart, Knows, MainLabels, ActLabels, EnteredLabels, ExitingLabels,
      BroadcastLabels, PollLabels
<1>1. CASE ExitBegin
  <2> DEFINE p == Top.p
             f == To(Top, "tell", process_list)
  <2>1. Top.at = "exit" /\ p \in Proc /\ p \in Listed /\ state[p] = "CALLED"
    BY <1>0, <1>1, <1>l DEF ExitBegin, At
  <2>2. /\ state' = [state EXCEPT ![p] = "NONE"] /\ stack' = Replaced(f)
        /\ UNCHANGED << process_list, next >>
    BY <1>1, <2>1 DEF ExitBegin, To
  <2>3. f \in LifeFrame /\ f.at = "tell" /\ f.p = p
    <3>1. process_list \in Pointer
      BY <1>s DEF Pointer
    <3> QED
      BY <1>0, <1>l, <2>1, <3>1, Moved
  <2> HIDE DEF f
  <2>4. Follows(Top, f)
    BY <2>1, <2>3
    DEF Follows, MainLabels, ActLabels, EnteredLabels, ExitingLabels,
        BroadcastLabels, PollLabels
  <2>l. /\ Top.at \in EnteredLabels /\ Top.at \notin ExitingLabels
        /\ Top.at \in ActLabels
        /\ f.at \notin EnteredLabels /\ f.at \in ExitingLabels
    BY <2>1, <2>3 DEF ActLabels, EnteredLabels, ExitingLabels
  <2>5. /\ p \notin Entered(Popped) /\ p \notin Exiting(Popped)
        /\ Entered(stack) = Entered(Popped) \cup {p}
        /\ Exiting(stack) = Exiting(Popped)
    BY <2>l, TopPart
  <2>6. /\ Nested(stack') /\ Top' = f
        /\ Entered(stack') = Entered(Popped)
        /\ Exiting(stack') = Exiting(Popped) \cup {p}
    <3>1. /\ Nested(Replaced(f)) /\ Replaced(f)[Len(Replaced(f))] = f
          /\ Entered(Replaced(f)) = Entered(Popped)
          /\ Exiting(Replaced(f)) = Exiting(Popped) \cup {p}
      BY <2>3, <2>4, <2>5, <2>l, Went
    <3> QED
      BY <2>2, <3>1 DEF Top
  <2>7. Listed' = Listed /\ state \in [Proc -> State]
    BY <2>2, SameList DEF LifeInv, ProcInv, DataInv
  <2> HIDE DEF p
  <2>8. Consistent(stack', state', Listed')
    BY <1>s, <2>1, <2>2, <2>5, <2>6, <2>7 DEF LifeInv, LifeCore, Consistent
  <2>9. Knows(Top', state', next', Listed')
    BY <2>3, <2>6 DEF Knows
  <2> QED
    BY <2>6, <2>8, <2>9 DEF LifeCore
<1>2. CASE ExitTell
  <2> DEFINE f == [Top EXCEPT !.at = "tellnext"]
             g == CallFrame(Top.q, "EXITED")
  <2>1. /\ Top.at = "tell" /\ Top.q # NULL /\ UNCHANGED procVars
        /\ stack' = Replaced(f) \/ stack' = Append(Replaced(f), g)
    BY <1>2 DEF ExitTell, At, Goto
  <2>2. Top.q \in Proc /\ Top.p \in Proc
    BY <1>0, <1>l, <2>1 DEF Frame, Pointer
  <2>3. f \in LifeFrame /\ f.at = "tellnext" /\ f.p = Top.p
    BY <1>0, <1>l, <2>1, <2>2, MovedAt
  <2>4. g \in LifeFrame /\ g.at = "call" /\ g.ev = "EXITED"
    BY <2>2, LifeFrames DEF EventNumbers
  <2> HIDE DEF f, g
  <2>5. Calls(f, g) /\ g.at \notin ActLabels /\ Knows(g, state, next, Listed)
    BY <2>3, <2>4
    DEF Calls, UnderLabels, MainLabels, ActLabels, EnteredLabels, ExitingLabels,
        BroadcastLabels, PollLabels, Knows
  <2>6. Follows(Top, f) /\ SamePart(Top, f) /\ Knows(f, state, next, Listed)
    BY <1>f, <1>l, <2>1, <2>3
  <2> QED
    BY <2>1, <2>3, <2>4, <2>5, <2>6, QuietGoto, QuietCall
<1>3. CASE ExitTellNext
  <2> DEFINE f == To(Top, "tell", next[Top.q])
  <2>1. Top.at = "tellnext" /\ UNCHANGED procVars /\ stack' = Replaced(f)
    BY <1>3 DEF ExitTellNext, At, To
  <2>2. Top.p \in Proc /\ next[Top.q] \in Pointer
    BY <1>0, <1>l, <2>1 DEF LifeInv, ProcInv, DataInv
  <2>3. f \in LifeFrame /\ f.at = "tell" /\ f.p = Top.p
    BY <1>0, <1>l, <2>1, <2>2, Moved
  <2> HIDE DEF f
  <2>4. Follows(Top, f) /\ SamePart(Top, f) /\ Knows(f, state, next, Listed)
    BY <1>f, <1>l, <2>1, <2>3
  <2> QED
    BY <2>1, <2>3, <2>4, QuietGoto
<1>4. CASE ExitThread
  <2> DEFINE f == [Top EXCEPT !.at = "unlink"]
  <2>1. Top.at = "tell" /\ Top.from = Top.p /\ UNCHANGED procVars
    BY <1>0, <1>4, <1>l DEF ExitThread, At
  <2>2. stack' = Replaced(f)
    BY <1>4, <2>1 DEF ExitThread, Goto
  <2>3. f \in LifeFrame /\ f.at = "unlink" /\ f.p = Top.p
    BY <1>0, <1>l, <2>1, MovedAt
  <2> HIDE DEF f
  <2>4. Follows(Top, f) /\ SamePart(Top, f) /\ Knows(f, state, next, Listed)
    BY <1>f, <1>l, <2>1, <2>3
  <2> QED
    BY <2>1, <2>2, <2>3, <2>4, QuietGoto
<1>5. CASE ExitUnlink
  <2> DEFINE p == Top.p
             u == Popped[Len(Popped)]
  <2>1. /\ Top.at = "unlink" /\ stack' = Popped /\ UNCHANGED state
        /\ p \in Proc /\ p \in Listed /\ state[p] = "NONE"
    BY <1>0, <1>5, <1>l DEF ExitUnlink, At
  <2>2. HeadRemoved(p) \/ Removed(p)
    BY <1>5 DEF ExitUnlink, HeadRemoved, Removed
  <2>3. Listed' = Listed \ {p} /\ ListInv'
    BY <2>1, <2>2, RemovedList DEF LifeInv
  <2>l. /\ Top.at \in ActLabels /\ Top.at \notin EnteredLabels
        /\ Top.at \in ExitingLabels /\ Top.at \notin MainLabels
    BY <2>1 DEF ActLabels, EnteredLabels, ExitingLabels, MainLabels
  <2>4. /\ p \notin Entered(Popped) /\ p \notin Exiting(Popped)
        /\ Entered(stack) = Entered(Popped)
        /\ Exiting(stack) = Exiting(Popped) \cup {p} /\ Nested(Popped)
    BY <2>l, TopPart
  <2>5. u.at \in UnderLabels /\ (u.at = "pollnext" => u.q = p)
    BY <2>l, Uncovered DEF Calls
  <2>6. next'[p] \in (Listed \cup {NULL}) \ {p}
    <3>1. next[p] \in Listed \cup {NULL} /\ next[p] # p /\ p # NULL
      BY <1>s, <2>1, ProcessAssumption
    <3>2. next'[p] = next[p]
      BY <2>1, <2>2, <3>1 DEF HeadRemoved, Removed
    <3> QED
      BY <3>1, <3>2
  <2>7. Top' = u
    BY <2>1 DEF Top
  <2> HIDE DEF p, u
  <2>8. Consistent(stack', state', Listed')
    BY <2>1, <2>3, <2>4 DEF LifeInv, LifeCore, Consistent
  <2>9. Knows(Top', state', next', Listed')
    BY <2>3, <2>5, <2>6, <2>7 DEF Knows, UnderLabels, MainLabels
  <2> QED
    BY <2>1, <2>4, <2>8, <2>9 DEF LifeCore
<1> QED
  BY <1>1, <1>2, <1>3, <1>4, <1>5 DEF ExitStep

\* So does everything a thread does, but for process_exit().
LEMMA ThreadCore ==
  ASSUME LifeInv, NoForcedExit, ThreadStep
  PROVE  LifeCore'
<1>0. Top \in LifeFrame /\ Top \in Frame /\ Top.at \in {"thread", "context"}
  BY TopLabels
  DEF ThreadStep, ThreadPost, ThreadPoll, ThreadSynch, ThreadStart, ThreadExit,
      ContextBegin, ContextEnd, ThreadReturn, MayCall, MayNest, Executing, At
<1> DEFINE f == [Top EXCEPT !.left = @ - 1]
<1>f. ASSUME Top.left > 0
      PROVE  /\ f \in LifeFrame /\ f.at = Top.at
             /\ Follows(Top, f) /\ SamePart(Top, f) /\ Knows(f, state, next, Listed)
  <2>1. f \in LifeFrame /\ f.at = Top.at /\ f.p = Top.p
    BY <1>0, <1>f DEF LifeFrame, GoodFrame, Frame, ExitingLabels, BroadcastLabels
  <2> HIDE DEF f
  <2> QED
    BY <1>0, <2>1
    DEF Follows, SamePart, Knows, MainLabels, ActLabels, EnteredLabels,
        ExitingLabels, BroadcastLabels, PollLabels
<1>s. Spent = Replaced(f)
  BY DEF Spent
<1> HIDE DEF f
<1>1. ASSUME NEW m \in Message, ThreadPost(m) PROVE LifeCore'
  <2>1. Top.left > 0 /\ stack' = Replaced(f) /\ UNCHANGED procVars
    BY <1>1, <1>s DEF ThreadPost, MayCall
  <2> QED
    BY <1>f, <2>1, QuietGoto
<1>2. ASSUME NEW p \in Proc, ThreadPoll(p) PROVE LifeCore'
  <2>1. Top.left > 0 /\ stack' = Replaced(f) /\ UNCHANGED procVars
    BY <1>2, <1>s DEF ThreadPoll, MayCall
  <2> QED
    BY <1>f, <2>1, QuietGoto
<1>3. ASSUME NEW p \in Proc, ThreadSynch(p) PROVE LifeCore'
  <2>1. /\ Top.left > 0 /\ UNCHANGED procVars
        /\ stack' = Append(Append(Replaced(f), SynchFrame), CallFrame(p, "MSG"))
    BY <1>3, <1>s DEF ThreadSynch, MayNest, MayCall
  <2>2. "MSG" \in EventNumbers
    BY DEF EventNumbers
  <2>3. /\ Nested(stack') /\ Top' = CallFrame(p, "MSG")
        /\ Entered(stack') = Entered(stack) /\ Exiting(stack') = Exiting(stack)
    BY <1>0, <1>f, <2>1, <2>2, Synched
  <2>4. CallFrame(p, "MSG").at = "call" /\ CallFrame(p, "MSG").ev = "MSG"
    BY <2>2, LifeFrames
  <2>5. Knows(CallFrame(p, "MSG"), state, next, Listed)
    BY <2>4 DEF Knows
  <2>6. Top' = stack'[Len(stack')]
    BY DEF Top
  <2> QED
    BY <2>1, <2>3, <2>5, <2>6, QuietStep
<1>4. ASSUME NEW p \in Proc, ThreadStart(p) PROVE LifeCore'
  <2>1. Top.left > 0 /\ process_start(p, Replaced(f))
    BY <1>4, <1>s DEF ThreadStart, MayNest, MayCall
  <2> QED
    BY <1>0, <1>f, <2>1, StartCore
<1>5. ASSUME NEW p \in Proc, ThreadExit(p) PROVE LifeCore'
  BY <1>5 DEF ThreadExit, MayNest, MayCall, NoForcedExit
<1>6. ASSUME NEW ended \in BOOLEAN, ThreadReturn(ended) PROVE LifeCore'
  <2> DEFINE r == Popped
             caller == r[Len(r)]
             l == IF ended \/ Top.ev = "EXIT" THEN "exiting" ELSE "done"
             g == [caller EXCEPT !.at = l]
             b == SubSeq(r, 1, Len(r) - 1)
             a == Append(b, g)
  <2>0. Top.at = "thread"
    BY <1>6 DEF ThreadReturn, At
  <2>l. Top.at \notin MainLabels \cup ActLabels /\ Top.at # "mark" /\ Top.at # "call"
    BY <1>0 DEF MainLabels, ActLabels, EnteredLabels, ExitingLabels
  <2>1. /\ r # << >> /\ Nested(r) /\ Calls(caller, Top)
        /\ Len(r) = Len(stack) - 1
        /\ Entered(r) = Entered(stack) /\ Exiting(r) = Exiting(stack)
    BY <2>l, Uncovered, TopPart DEF ActLabels
  <2>2. caller.at = "calling"
    BY <2>0, <2>1 DEF Calls
  <2>3. caller = stack[Len(stack) - 1]
    <3>1. Len(stack) > 1 /\ r[Len(r)] = stack[Len(stack) - 1]
      BY <2>l, PopWell DEF LifeInv, ProcInv, StackInv, Popped, Top
    <3> QED
      BY <3>1
  <2>4. stack' = [r EXCEPT ![Len(r)] = g] /\ UNCHANGED procVars
    BY <1>6, <2>1, <2>2, <2>3 DEF ThreadReturn
  <2> HIDE DEF r
  <2>5. /\ Nested(b) /\ caller \in LifeFrame /\ Fits(b, caller)
        /\ caller.p \notin Entered(b) \cup Exiting(b)
        /\ Entered(r) = Entered(b) \cup {caller.p} /\ Exiting(r) = Exiting(b)
    <3>1. /\ Nested(b) /\ caller \in LifeFrame /\ Fits(b, caller)
          /\ caller.at \in ActLabels => caller.p \notin Holders(ActLabels, b)
          /\ r = Append(b, caller)
      BY <2>1, BeforeNested
    <3>2. /\ caller.at \in ActLabels /\ caller.at \in EnteredLabels
          /\ caller.at \notin ExitingLabels
      BY <2>2 DEF ActLabels, EnteredLabels, ExitingLabels
    <3> HIDE DEF b, caller
    <3>3. caller.p \notin Entered(b) \cup Exiting(b)
      BY <3>1, <3>2, ActHolders
    <3> QED
      BY <3>1, <3>2, <3>3, Pushed
  <2>6. g \in LifeFrame /\ g.at = l /\ g.p = caller.p
    <3>1. /\ l \in Labels /\ l \notin QLabels /\ l # "exit"
          /\ l \notin ExitingLabels /\ l \notin BroadcastLabels
          /\ "calling" \in PLabels
      BY DEF Labels, QLabels, PLabels, ExitingLabels, BroadcastLabels
    <3> HIDE DEF l, caller
    <3>2. caller.p \in Proc
      BY <2>2, <2>5, <3>1 DEF LifeFrame, GoodFrame
    <3> QED
      BY <2>5, <3>1, <3>2, MovedAt
  <2>7. stack' = a
    <3> HIDE DEF g
    <3> QED
      BY <2>1, <2>4, <2>6, ReplaceIs
  <2>8. Follows(caller, g) /\ g.at \in EnteredLabels /\ g.at \notin ExitingLabels
    <3> HIDE DEF g, caller
    <3> QED
      BY <2>2, <2>6
      DEF Follows, MainLabels, ActLabels, EnteredLabels, ExitingLabels,
          BroadcastLabels, PollLabels
  <2> HIDE DEF caller, l, g, b
  <2>9. Fits(b, g)
    BY <2>5, <2>8, FollowsFits
  <2>10. /\ Nested(a) /\ a[Len(a)] = g
         /\ Entered(a) = Entered(b) \cup (IF g.at \in EnteredLabels THEN {g.p} ELSE {})
         /\ Exiting(a) = Exiting(b) \cup (IF g.at \in ExitingLabels THEN {g.p} ELSE {})
    BY <2>5, <2>6, <2>9, Pushed
  <2> HIDE DEF a
  <2>11. Knows(g, state, next, Listed)
    BY <2>8 DEF Knows, EnteredLabels
  <2> QED
    BY <2>1, <2>4, <2>5, <2>6, <2>7, <2>8, <2>10, <2>11, QuietStep
<1>7. ASSUME NEW p \in Proc, ContextBegin(p) PROVE LifeCore'
  <2> DEFINE g == ContextFrame(p)
  <2>1. Top.left > 0 /\ stack' = Append(Replaced(f), g) /\ UNCHANGED procVars
    BY <1>7, <1>s DEF ContextBegin, MayNest, MayCall
  <2>2. g \in LifeFrame /\ g.at = "context"
    BY LifeFrames DEF EventNumbers
  <2> HIDE DEF g
  <2>3. Calls(f, g) /\ g.at \notin ActLabels
    BY <1>0, <1>f, <2>1, <2>2
    DEF Calls, UnderLabels, MainLabels, ActLabels, EnteredLabels, ExitingLabels,
        BroadcastLabels, PollLabels
  <2>4. Knows(g, state, next, Listed)
    BY <2>2 DEF Knows
  <2> QED
    BY <1>f, <2>1, <2>2, <2>3, <2>4, QuietCall
<1>8. CASE ContextEnd
  BY <1>8, QuietPop
  DEF ContextEnd, At, MainLabels, ActLabels, EnteredLabels, ExitingLabels
<1> QED
  BY <1>1, <1>2, <1>3, <1>4, <1>5, <1>6, <1>7, <1>8 DEF ThreadStep

-----------------------------------------------------------------------------
LEMMA LifeInit == Init => LifeInv
<1> SUFFICES ASSUME Init PROVE LifeInv
  OBVIOUS
<1>1. ProcInv /\ ListInv /\ Listed = {}
  BY ProcessInitInv, ListInitInv
<1>2. stack = << Blank >> /\ Top = Blank /\ Blank.at = "boot" /\ Blank \in GoodFrame
  BY <1>1, PlainFrames DEF Init, Top, ProcInv
<1>l. /\ "boot" \in MainLabels /\ "boot" \notin EnteredLabels
      /\ "boot" \notin ExitingLabels /\ "boot" \notin ActLabels
      /\ "boot" \notin BroadcastLabels /\ "boot" # "exit"
  BY DEF MainLabels, EnteredLabels, ExitingLabels, ActLabels, BroadcastLabels
<1>3. Blank \in LifeFrame
  BY <1>2, <1>l DEF LifeFrame
<1> HIDE DEF Blank
<1>4. Nested(stack)
  BY <1>2, <1>3, <1>l DEF Nested
<1>5. Entered(stack) = {} /\ Exiting(stack) = {}
  BY <1>2, <1>l DEF Entered, Exiting, Holders
<1>6. Consistent(stack, state, Listed)
  BY <1>1, <1>5 DEF Init, Consistent
<1>7. Knows(Top, state, next, Listed)
  BY <1>2 DEF Knows
<1> QED
  BY <1>1, <1>4, <1>6, <1>7 DEF LifeInv, LifeCore

LEMMA LifeNext ==
  ASSUME NoForcedExit, LifeInv, [Next]_vars
  PROVE  LifeInv'
<1>1. ProcInv' /\ ListInv'
  BY ProcessNextInv, ListNextInv DEF LifeInv
<1>2. CASE UNCHANGED << procVars, stack >>
  <2>1. Listed' = Listed /\ Top' = Top
    BY <1>2, SameList DEF procVars, Top
  <2> QED
    BY <1>1, <1>2, <2>1 DEF LifeInv, LifeCore, procVars
<1>3. CASE KernelStep
  BY <1>1, <1>3, MainCore, EventCore, PollCore, CallCore, ExitCore, ThreadCore
  DEF KernelStep, LifeInv
<1> QED
  BY <1>2, <1>3 DEF Next, InterruptPoll, vars, procVars

LEMMA LifeInvariant ==
  ASSUME NoForcedExit
  PROVE  Spec => []LifeInv
<1>1. LifeInv /\ [Next]_vars => LifeInv'
  BY LifeNext
<1> QED
  BY <1>1, LifeInit, PTL DEF Spec

\* As long as no process is exited from outside, a thread is never entered
\* while another activation of it is unfinished, whatever calls nest: the
\* PROCESS_STATE_CALLED guard of call_process() is enough, although do_poll()
\* sets the state of the processes it meets without looking at it.
THEOREM SingleActivation ==
  ASSUME NoForcedExit
  PROVE  Spec => []OneActivation
<1>1. LifeInv => OneActivation
  <2>1. SUFFICES ASSUME LifeInv, NEW i \in DOMAIN stack, NEW j \in DOMAIN stack,
                        stack[i].at = "thread", stack[j].at = "thread",
                        stack[i].p = stack[j].p
                 PROVE  i = j
    BY DEF OneActivation
  <2>2. Nested(stack) /\ stack \in Seq(LifeFrame) /\ DOMAIN stack = 1 .. Len(stack)
    BY <2>1 DEF LifeInv, LifeCore, Nested
  <2>3. ASSUME NEW k \in 1 .. Len(stack), stack[k].at = "thread"
        PROVE  /\ k - 1 \in 1 .. Len(stack)
               /\ stack[k - 1].at \in ActLabels /\ stack[k - 1].p = stack[k].p
    <3>1. k # 1
      BY <2>2, <2>3 DEF Nested, MainLabels
    <3>2. k - 1 \in 1 .. Len(stack) - 1 /\ (k - 1) + 1 = k
      BY <2>2, <3>1
    <3>3. Calls(stack[k - 1], stack[k])
      BY <2>2, <3>2 DEF Nested
    <3> QED
      BY <2>2, <2>3, <3>2, <3>3 DEF Calls, ActLabels, EnteredLabels
  <2>4. i - 1 = j - 1
    BY <2>1, <2>2, <2>3 DEF Nested
  <2> QED
    BY <2>2, <2>4
<1> QED
  BY <1>1, LifeInvariant, PTL

\* In the main loop, process_is_running() is then true of exactly the processes
\* on the list, the ones that events and polls reach (process_start,
\* exit_process).
THEOREM RunningListed ==
  ASSUME NoForcedExit
  PROVE  Spec => []RunningIsListed
<1>1. LifeInv => RunningIsListed
  <2>1. SUFFICES ASSUME LifeInv, Len(stack) = 1
                 PROVE  \A p \in Proc : state[p] # "NONE" <=> p \in Listed
    BY DEF RunningIsListed
  <2>2. stack[1].at \in MainLabels /\ Top = stack[1]
    BY <2>1 DEF LifeInv, ProcInv, StackInv, Well, Top
  <2>3. Exiting(stack) = {}
    BY <2>1, <2>2 DEF Exiting, Holders, MainLabels, ExitingLabels
  <2> QED
    BY <2>1, <2>3 DEF LifeInv, LifeCore, Consistent
<1> QED
  BY <1>1, LifeInvariant, PTL

\* call_process() then only ever enters processes that are on the list, also
\* when the process it was asked to call has exited meanwhile.
THEOREM ListedCalled ==
  ASSUME NoForcedExit
  PROVE  Spec => CalledIsListed
<1>1. LifeInv /\ [Next]_vars => [CallThread => Top.p \in Listed]_vars
  BY ThreadCalled
<1> QED
  BY <1>1, LifeInvariant, PTL DEF Spec, CalledIsListed
-----------------------------------------------------------------------------
(***************************************************************************)
(* Polls.                                                                  *)
(***************************************************************************)
\* What the rest assumes: no process ends and none is made running by a posted
\* INIT.  exit_process() and process_start() leave needspoll as it was, so that a
\* process that is started again may carry a request of its earlier life.
NoneEnds == "exit" \notin Ops /\ "end" \notin Ops /\ \A m \in Message : m.ev = "MSG"

\* Ahead, and the do_poll() that has still to reach p, over the list W.
AheadOn(W, p, q) ==
  \E i, j \in 0 .. Cardinality(Proc) : i <= j /\ W[i] = q /\ W[j] = p

Serves(W, f, p) ==
  \/ f.at \in {"scan", "ready", "claim"} /\ AheadOn(W, p, f.q)
  \/ f.at = "pollnext" /\ f.q # p /\ AheadOn(W, p, f.q)

CursorLabels == {"scan", "ready", "claim", "pollnext"}

Frames(s) == {s[i] : i \in DOMAIN s}

\* A function that does not take part in the end of a process.
Lasting(f) == f.at \notin {"exiting", "exit", "tell", "tellnext", "unlink"} /\ f.ev # "EXIT"

PollCore2 ==
  /\ \A f \in Frames(stack) : Lasting(f)
  /\ \A p \in Proc \ Listed : ~needspoll[p]
  /\ \A p \in Listed : needspoll[p] =>
       poll_requested \/ \E f \in Frames(stack) : Serves(Walk, f, p)

PollInv == LifeInv /\ PollCore2

LEMMA LostDefs ==
  NoLostPoll <=> \A p \in Listed : needspoll[p] =>
                   poll_requested \/ \E f \in Frames(stack) : Serves(Walk, f, p)
<1>1. \A p, q : Ahead(p, q) <=> AheadOn(Walk, p, q)
  BY DEF Ahead, AheadOn
<1>2. \A i \in DOMAIN stack : \A p :
        Serves(Walk, stack[i], p) <=>
          \/ stack[i].at \in {"scan", "ready", "claim"} /\ Ahead(p, stack[i].q)
          \/ stack[i].at = "pollnext" /\ stack[i].q # p /\ Ahead(p, stack[i].q)
  BY <1>1 DEF Serves
<1> QED
  BY <1>2 DEF NoLostPoll, Frames

\* How far a cursor is from the processes behind it.
LEMMA AheadFacts ==
  ASSUME ListInv
  PROVE  /\ \A p \in Listed : AheadOn(Walk, p, process_list)
         /\ \A p \in Listed : ~AheadOn(Walk, p, NULL)
         /\ \A p \in Listed, q \in Listed :
              AheadOn(Walk, p, q) /\ p # q => AheadOn(Walk, p, next[q])
<1>1. PICK w : IsChain(process_list, next, w)
  BY DEF ListInv, Linear
<1>2. /\ Listed = {w[i] : i \in 1 .. Len(w)} /\ Len(w) \in Nat /\ Cardinality(Proc) \in Nat
      /\ Len(w) <= Cardinality(Proc)
      /\ \A k \in 0 .. Cardinality(Proc) : Walk[k] = IF k < Len(w) THEN w[k + 1] ELSE NULL
  <2>1. Len(w) \in 0 .. Cardinality(Proc) /\ Cardinality(Proc) \in Nat
    BY <1>1, Size, WalkIsChain
  <2> QED
    BY <1>1, <2>1, WalkIsChain, ReachedIsChain, ListDefs
<1>3. \A i \in 1 .. Len(w) : w[i] \in Proc /\ w[i] # NULL
  BY <1>1, ProcessAssumption DEF IsChain
<1>4. \A i, j \in 1 .. Len(w) : w[i] = w[j] => i = j
  BY <1>1 DEF IsChain
<1>5. ASSUME NEW p \in Listed PROVE AheadOn(Walk, p, process_list)
  <2>1. PICK j \in 1 .. Len(w) : p = w[j]
    BY <1>2
  <2>2. /\ 0 \in 0 .. Cardinality(Proc) /\ j - 1 \in 0 .. Cardinality(Proc) /\ 0 <= j - 1
        /\ j - 1 < Len(w) /\ (j - 1) + 1 = j /\ 0 < Len(w) /\ 0 + 1 = 1
    BY <1>2
  <2>3. process_list = w[1]
    BY <1>1, <1>2, <2>2 DEF IsChain
  <2>4. Walk[0] = process_list /\ Walk[j - 1] = p
    BY <1>2, <2>1, <2>2, <2>3
  <2> QED
    BY <2>2, <2>4 DEF AheadOn
<1>6. ASSUME NEW p \in Listed, AheadOn(Walk, p, NULL) PROVE FALSE
  <2>1. PICK i \in 0 .. Cardinality(Proc), j \in 0 .. Cardinality(Proc) :
               i <= j /\ Walk[i] = NULL /\ Walk[j] = p
    BY <1>6 DEF AheadOn
  <2>2. p # NULL
    BY <1>2, <1>3
  <2>3. j < Len(w)
    BY <1>2, <2>1, <2>2
  <2>4. i < Len(w) /\ i + 1 \in 1 .. Len(w)
    BY <1>2, <2>1, <2>3
  <2> QED
    BY <1>2, <1>3, <2>1, <2>4
<1>7. ASSUME NEW p \in Listed, NEW q \in Listed, AheadOn(Walk, p, q), p # q
      PROVE  AheadOn(Walk, p, next[q])
  <2>1. PICK i \in 0 .. Cardinality(Proc), j \in 0 .. Cardinality(Proc) :
               i <= j /\ Walk[i] = q /\ Walk[j] = p
    BY <1>7 DEF AheadOn
  <2>2. p # NULL /\ q # NULL
    BY <1>2, <1>3
  <2>3. i < Len(w) /\ j < Len(w) /\ i # j
    BY <1>2, <1>7, <2>1, <2>2
  <2>4. /\ i + 1 \in 1 .. Len(w) /\ i + 1 # Len(w) /\ i + 1 \in 0 .. Cardinality(Proc)
        /\ i + 1 <= j /\ i + 1 < Len(w)
    BY <1>2, <2>1, <2>3
  <2>5. q = w[i + 1]
    BY <1>2, <2>1, <2>3
  <2>6. next[q] = w[(i + 1) + 1]
    BY <1>1, <2>4, <2>5 DEF IsChain
  <2>7. Walk[i + 1] = next[q]
    BY <1>2, <2>4, <2>6
  <2> QED
    BY <2>1, <2>4, <2>7 DEF AheadOn
<1> QED
  BY <1>5, <1>6, <1>7

\* A process put at the head changes nothing behind a cursor.
LEMMA AheadStarted ==
  ASSUME ListInv, NEW p0 \in Proc, HeadAdded(p0),
         NEW p \in Listed, NEW q, AheadOn(Walk, p, q)
  PROVE  AheadOn(Walk', p, q)
<1>1. PICK w : IsChain(process_list, next, w)
  BY DEF ListInv, Linear
<1>2. process_list \in Pointer /\ next \in [Proc -> Pointer]
  BY LinearFacts, ListDefs DEF ListInv, Linear, Pointer
<1>3. /\ next' \in [Proc -> Pointer] /\ next'[p0] = process_list
      /\ \A r \in Proc : r # p0 => next'[r] = next[r]
      /\ p0 \notin Reached(process_list, next) /\ process_list' = p0
  BY <1>2, ListDefs DEF HeadAdded
<1> DEFINE m == next'
<1>4. PICK v : /\ IsChain(p0, m, v) /\ Len(v) = Len(w) + 1
               /\ \A i \in 1 .. Len(w) : v[i + 1] = w[i]
  <2>1. m \in [Proc -> Pointer] /\ m[p0] = process_list /\ \A r \in Proc : r # p0 => m[r] = next[r]
    BY <1>3
  <2> HIDE DEF m
  <2> QED
    BY <1>1, <1>3, <2>1, PrependChain
<1>5. /\ Len(w) \in Nat /\ Cardinality(Proc) \in Nat
      /\ Len(v) <= Cardinality(Proc)
      /\ \A k \in 0 .. Cardinality(Proc) : Walk[k] = IF k < Len(w) THEN w[k + 1] ELSE NULL
      /\ \A k \in 0 .. Cardinality(Proc) : Walk'[k] = IF k < Len(v) THEN v[k + 1] ELSE NULL
  <2>1. Len(w) \in 0 .. Cardinality(Proc) /\ Cardinality(Proc) \in Nat
        /\ \A k \in 0 .. Cardinality(Proc) : Walk[k] = IF k < Len(w) THEN w[k + 1] ELSE NULL
    BY <1>1, Size, WalkIsChain, ListDefs
  <2>2. Walk' = Links(p0, m)
    BY <1>3, ListDefsNext
  <2> HIDE DEF m
  <2>3. Len(v) \in 0 .. Cardinality(Proc)
        /\ \A k \in 0 .. Cardinality(Proc) :
             Links(p0, m)[k] = IF k < Len(v) THEN v[k + 1] ELSE NULL
    BY <1>4, WalkIsChain
  <2> QED
    BY <2>1, <2>2, <2>3
<1>6. PICK i \in 0 .. Cardinality(Proc), j \in 0 .. Cardinality(Proc) :
             i <= j /\ Walk[i] = q /\ Walk[j] = p
  BY DEF AheadOn
<1>7. p # NULL
  BY LinearFacts, ListDefs, ProcessAssumption DEF ListInv
<1>8. j < Len(w) /\ i < Len(w)
  BY <1>5, <1>6, <1>7
<1>9. ASSUME NEW k \in 0 .. Cardinality(Proc), k < Len(w)
      PROVE  k + 1 \in 0 .. Cardinality(Proc) /\ Walk'[k + 1] = Walk[k]
  <2>1. k + 1 \in 1 .. Len(w) /\ k + 1 < Len(v) /\ k + 1 \in 0 .. Cardinality(Proc)
    BY <1>4, <1>5, <1>9
  <2>2. v[(k + 1) + 1] = w[k + 1]
    BY <1>4, <2>1
  <2> QED
    BY <1>5, <1>9, <2>1, <2>2
<1>10. i + 1 <= j + 1
  BY <1>5, <1>6
<1>11. /\ i + 1 \in 0 .. Cardinality(Proc) /\ j + 1 \in 0 .. Cardinality(Proc)
       /\ Walk'[i + 1] = q /\ Walk'[j + 1] = p
  BY <1>6, <1>8, <1>9
<1> QED
  BY <1>10, <1>11 DEF AheadOn

LEMMA AppendFrames ==
  ASSUME NEW S, NEW s \in Seq(S), NEW f
  PROVE  /\ Append(s, f) \in Seq(S \cup {f})
         /\ Frames(Append(s, f)) = Frames(s) \cup {f}
<1> DEFINE T == S \cup {f}
<1>1. s \in Seq(T) /\ f \in T
  OBVIOUS
<1> HIDE DEF T
<1> DEFINE t == Append(s, f)
<1>2. /\ t \in Seq(T) /\ Len(s) \in Nat /\ Len(t) = Len(s) + 1
      /\ t[Len(s) + 1] = f /\ \A i \in 1 .. Len(s) : t[i] = s[i]
      /\ DOMAIN s = 1 .. Len(s) /\ DOMAIN t = 1 .. Len(s) + 1
  BY <1>1
<1> HIDE DEF t
<1>3. /\ \A i \in 1 .. Len(s) : i \in 1 .. Len(s) + 1
      /\ \A i \in 1 .. Len(s) + 1 : i \in 1 .. Len(s) \/ i = Len(s) + 1
      /\ Len(s) + 1 \in 1 .. Len(s) + 1
  BY <1>2
<1>4. Frames(t) = Frames(s) \cup {f}
  BY <1>2, <1>3 DEF Frames
<1> QED
  BY <1>2, <1>4 DEF t, T

\* The functions on the stack before and after a step.
LEMMA StackFrames ==
  ASSUME LifeInv
  PROVE  /\ Frames(stack) = Frames(Popped) \cup {Top}
         /\ \A f : Frames(Replaced(f)) = Frames(Popped) \cup {f}
         /\ \A f, g : Frames(Append(Replaced(f), g)) = Frames(Popped) \cup {f, g}
         /\ \A f, g, h :
              Frames(Append(Append(Replaced(f), g), h)) = Frames(Popped) \cup {f, g, h}
<1>1. Popped \in Seq(LifeFrame) /\ stack = Append(Popped, Top)
  BY TopPart DEF Nested
<1>2. Frames(stack) = Frames(Popped) \cup {Top}
  BY <1>1, AppendFrames
<1>3. ASSUME NEW f
      PROVE  /\ Replaced(f) \in Seq(LifeFrame \cup {f})
             /\ Frames(Replaced(f)) = Frames(Popped) \cup {f}
  <2> DEFINE r == Popped
  <2>1. r \in Seq(LifeFrame) /\ Replaced(f) = Append(r, f)
    BY <1>1, ReplacedIs
  <2> HIDE DEF r
  <2>2. /\ Append(r, f) \in Seq(LifeFrame \cup {f})
        /\ Frames(Append(r, f)) = Frames(r) \cup {f}
    BY <2>1, AppendFrames
  <2> QED
    BY <2>1, <2>2 DEF r
<1>4. ASSUME NEW f, NEW g
      PROVE  /\ Append(Replaced(f), g) \in Seq(LifeFrame \cup {f} \cup {g})
             /\ Frames(Append(Replaced(f), g)) = Frames(Popped) \cup {f, g}
  <2> DEFINE r == Replaced(f)
             T == LifeFrame \cup {f}
  <2>1. r \in Seq(T) /\ Frames(r) = Frames(Popped) \cup {f}
    BY <1>3
  <2> HIDE DEF r, T
  <2>2. Append(r, g) \in Seq(T \cup {g}) /\ Frames(Append(r, g)) = Frames(r) \cup {g}
    BY <2>1, AppendFrames
  <2>3. Frames(Append(r, g)) = Frames(Popped) \cup {f, g}
    BY <2>1, <2>2
  <2> QED
    BY <2>2, <2>3 DEF r, T
<1>5. ASSUME NEW f, NEW g, NEW h
      PROVE  Frames(Append(Append(Replaced(f), g), h)) = Frames(Popped) \cup {f, g, h}
  <2> DEFINE r == Append(Replaced(f), g)
             T == LifeFrame \cup {f} \cup {g}
  <2>1. r \in Seq(T) /\ Frames(r) = Frames(Popped) \cup {f, g}
    BY <1>4
  <2> HIDE DEF r, T
  <2>2. Frames(Append(r, h)) = Frames(r) \cup {h}
    BY <2>1, AppendFrames
  <2>3. Frames(Append(r, h)) = Frames(Popped) \cup {f, g, h}
    BY <2>1, <2>2
  <2> QED
    BY <2>3 DEF r
<1> QED
  BY <1>2, <1>3, <1>4, <1>5

\* Steps that leave the list and the requests alone lose none, if whoever had
\* still to reach a process has a successor.
LEMMA KeptPolls ==
  ASSUME PollInv, UNCHANGED << process_list, next, needspoll >>,
         poll_requested => poll_requested',
         \A f \in Frames(stack') : Lasting(f),
         \A f \in Frames(stack), p \in Listed :
           needspoll[p] /\ Serves(Walk, f, p)
             => \E g \in Frames(stack') : Serves(Walk, g, p)
  PROVE  PollCore2'
<1>1. Walk' = Walk /\ Listed' = Listed
  BY SameList, ListDefs, ListDefsNext
<1> QED
  BY <1>1 DEF PollInv, PollCore2

\* In most steps the executing function is not a do_poll() with a cursor.
LEMMA QuietPolls ==
  ASSUME PollInv, UNCHANGED << process_list, next, needspoll >>,
         poll_requested => poll_requested',
         Top.at \notin CursorLabels,
         NEW N, Frames(stack') = Frames(Popped) \cup N, \A f \in N : Lasting(f)
  PROVE  PollCore2'
<1>1. Frames(stack) = Frames(Popped) \cup {Top}
  BY StackFrames DEF PollInv
<1>2. \A p : ~Serves(Walk, Top, p)
  BY DEF Serves, CursorLabels
<1>3. \A f \in Frames(stack') : Lasting(f)
  BY <1>1 DEF PollInv, PollCore2
<1> QED
  BY <1>1, <1>2, <1>3, KeptPolls

LEMMA LastingTop ==
  ASSUME PollInv
  PROVE  /\ Lasting(Top) /\ Top \in Frame
         /\ \A l \in {"run", "event", "bcall", "bnext", "bpoll", "mark", "calling"} :
              Lasting([Top EXCEPT !.at = l])
         /\ \A n : Top.at \in {"boot", "thread", "context"} => Lasting([Top EXCEPT !.left = n])
<1>1. Lasting(Top) /\ Top \in Frame
  BY StackFrames, TopLabels DEF PollInv, PollCore2
<1>2. ASSUME NEW l \in {"run", "event", "bcall", "bnext", "bpoll", "mark", "calling"}
      PROVE  Lasting([Top EXCEPT !.at = l])
  BY <1>1 DEF Lasting, Frame
<1>3. ASSUME NEW n, Top.at \in {"boot", "thread", "context"}
      PROVE  Lasting([Top EXCEPT !.left = n])
  BY <1>1, <1>3 DEF Lasting, Frame
<1> QED
  BY <1>1, <1>2, <1>3

LEMMA LastingCalls ==
  /\ Lasting(SynchFrame)
  /\ \A p, ev : ev # "EXIT" => Lasting(CallFrame(p, ev)) /\ Lasting(ThreadFrame(p, ev))
  /\ Lasting([Blank EXCEPT !.at = "poll"])
  /\ \A q, ev : ev # "EXIT" => Lasting([Blank EXCEPT !.at = "bpoll", !.q = q, !.ev = ev])
<1>1. Lasting(SynchFrame) /\ Lasting([Blank EXCEPT !.at = "poll"])
  BY DEF Lasting, SynchFrame, Blank
<1>2. ASSUME NEW p, NEW ev, ev # "EXIT"
      PROVE  Lasting(CallFrame(p, ev)) /\ Lasting(ThreadFrame(p, ev))
  BY <1>2 DEF Lasting, CallFrame, ThreadFrame, Blank
<1>3. ASSUME NEW q, NEW ev, ev # "EXIT"
      PROVE  Lasting([Blank EXCEPT !.at = "bpoll", !.q = q, !.ev = ev])
  BY <1>3 DEF Lasting, Blank
<1> QED
  BY <1>1, <1>2, <1>3

\* process_start(): the process comes before every cursor, but nobody wants to
\* poll it yet.
LEMMA StartPolls ==
  ASSUME PollInv, NEW p0 \in Proc, NEW f, Lasting(f), Top.at \notin CursorLabels,
         process_start(p0, Replaced(f)), UNCHANGED pollVars
  PROVE  PollCore2'
<1>0. needspoll' = needspoll /\ poll_requested' = poll_requested
  BY DEF pollVars
<1>1. CASE p0 \in Listed
  <2>1. stack' = Replaced(f) /\ UNCHANGED procVars
    BY <1>1 DEF process_start
  <2> DEFINE N == {f}
  <2>2. Frames(stack') = Frames(Popped) \cup N
    BY <2>1, StackFrames DEF PollInv
  <2>3. \A e \in N : Lasting(e)
    OBVIOUS
  <2>4. UNCHANGED << process_list, next, needspoll >> /\ (poll_requested => poll_requested')
    BY <1>0, <2>1 DEF procVars
  <2> HIDE DEF N
  <2> QED
    BY <2>2, <2>3, <2>4, QuietPolls
<1>2. CASE p0 \notin Listed
  <2> DEFINE g == SynchFrame
             h == CallFrame(p0, "INIT")
  <2>1. HeadAdded(p0) /\ stack' = Append(Append(Replaced(f), g), h)
    BY <1>2 DEF process_start, HeadAdded
  <2>2. Lasting(g) /\ Lasting(h)
    BY LastingCalls
  <2>3. Listed' = Listed \cup {p0}
    BY <2>1, StartedList DEF PollInv, LifeInv
  <2> HIDE DEF g, h
  <2>4. Frames(stack') = Frames(Popped) \cup {f, g, h}
    BY <2>1, StackFrames DEF PollInv
  <2>5. Frames(stack) = Frames(Popped) \cup {Top}
    BY StackFrames DEF PollInv
  <2>6. \A e \in Frames(stack') : Lasting(e)
    BY <2>2, <2>4, <2>5 DEF PollInv, PollCore2
  <2>7. ~needspoll'[p0] /\ \A p \in Proc \ Listed' : ~needspoll'[p]
    BY <1>0, <1>2, <2>3 DEF PollInv, PollCore2
  <2>8. ASSUME NEW p \in Listed, needspoll[p], ~poll_requested
        PROVE  \E e \in Frames(stack') : Serves(Walk', e, p)
    <3>1. PICK e \in Frames(stack) : Serves(Walk, e, p)
      BY <2>8 DEF PollInv, PollCore2
    <3>2. e # Top
      BY <3>1 DEF Serves, CursorLabels
    <3>3. e \in Frames(stack')
      BY <2>4, <2>5, <3>1, <3>2
    <3>4. AheadOn(Walk, p, e.q) => AheadOn(Walk', p, e.q)
      BY <2>1, AheadStarted DEF PollInv, LifeInv
    <3>5. Serves(Walk', e, p)
      BY <3>1, <3>4 DEF Serves
    <3> QED
      BY <3>3, <3>5
  <2> QED
    BY <1>0, <2>3, <2>6, <2>7, <2>8 DEF PollCore2
<1> QED
  BY <1>1, <1>2

\* process_poll() marks only processes on the list, and tells main().
LEMMA MarkedPolls ==
  ASSUME PollInv, NEW p0 \in Proc, process_poll(p0), UNCHANGED procVars,
         \A f \in Frames(stack') : Lasting(f),
         \A f \in Frames(stack), p \in Listed :
           Serves(Walk, f, p) => \E g \in Frames(stack') : Serves(Walk, g, p)
  PROVE  PollCore2'
<1>1. UNCHANGED << process_list, next >> /\ Listed' = Listed
  BY SameList DEF procVars
<1>2. CASE state[p0] \in {"RUNNING", "CALLED"}
  <2>1. /\ needspoll' = [needspoll EXCEPT ![p0] = TRUE] /\ poll_requested' = TRUE
        /\ needspoll \in [Proc -> BOOLEAN]
    BY <1>2 DEF process_poll, PollInv, LifeInv, ProcInv, DataInv
  <2>2. p0 \in Listed
    BY <1>2 DEF PollInv, LifeInv, LifeCore, Consistent
  <2>3. \A p \in Proc \ Listed : ~needspoll'[p]
    BY <2>1, <2>2 DEF PollInv, PollCore2
  <2> QED
    BY <1>1, <2>1, <2>3 DEF PollCore2
<1>3. CASE state[p0] \notin {"RUNNING", "CALLED"}
  <2>1. UNCHANGED needspoll /\ (poll_requested => poll_requested')
    BY <1>3 DEF process_poll, pollVars
  <2> QED
    BY <1>1, <2>1, KeptPolls
<1> QED
  BY <1>2, <1>3

\* The executing function goes on, and may call another one or two.
LEMMA GoPolls ==
  ASSUME PollInv, UNCHANGED << process_list, next, needspoll >>,
         poll_requested => poll_requested',
         Top.at \notin CursorLabels, NEW f, Lasting(f),
         \/ stack' = Popped
         \/ stack' = Replaced(f)
         \/ \E g : stack' = Append(Replaced(f), g) /\ Lasting(g)
         \/ \E g, h : /\ stack' = Append(Append(Replaced(f), g), h)
                      /\ Lasting(g) /\ Lasting(h)
  PROVE  PollCore2'
<1> DEFINE Added(N) == Frames(stack') = Frames(Popped) \cup N /\ \A e \in N : Lasting(e)
<1>1. \E N : Added(N)
  <2>1. CASE stack' = Popped
    <3>1. Added({})
      BY <2>1
    <3> HIDE DEF Added
    <3> QED
      BY <3>1
  <2>2. CASE stack' = Replaced(f)
    <3>1. Added({f})
      BY <2>2, StackFrames DEF PollInv
    <3> HIDE DEF Added
    <3> QED
      BY <3>1
  <2>3. ASSUME NEW g, stack' = Append(Replaced(f), g), Lasting(g)
        PROVE  \E N : Added(N)
    <3>1. Added({f, g})
      BY <2>3, StackFrames DEF PollInv
    <3> HIDE DEF Added
    <3> QED
      BY <3>1
  <2>4. ASSUME NEW g, NEW h, stack' = Append(Append(Replaced(f), g), h),
               Lasting(g), Lasting(h)
        PROVE  \E N : Added(N)
    <3>1. Added({f, g, h})
      BY <2>4, StackFrames DEF PollInv
    <3> HIDE DEF Added
    <3> QED
      BY <3>1
  <2> QED
    BY <2>1, <2>2, <2>3, <2>4
<1>2. PICK N : Frames(stack') = Frames(Popped) \cup N /\ \A e \in N : Lasting(e)
  BY <1>1
<1> QED
  BY <1>2, QuietPolls

\* The steps of main() lose no poll.
LEMMA MainPolls ==
  ASSUME PollInv, NoneEnds, MainStep
  PROVE  PollCore2'
<1>1. CASE BootStart
  <2> DEFINE p == Autostart[Top.left + 1]
             f == [Top EXCEPT !.left = @ + 1]
  <2>1. Top.at = "boot" /\ Top.left < Len(Autostart) /\ Top.left \in Nat
    BY <1>1, LastingTop DEF BootStart, At, Frame
  <2>2. p \in Proc
    BY <2>1, ProcessAssumption
  <2>3. Lasting(f)
    BY LastingTop DEF Lasting, Frame
  <2>4. process_start(p, Replaced(f)) /\ UNCHANGED pollVars
    BY <1>1 DEF BootStart
  <2> HIDE DEF p, f
  <2> QED
    BY <2>1, <2>2, <2>3, <2>4, StartPolls DEF CursorLabels
<1>2. CASE ~BootStart
  <2>1. /\ Top.at \notin CursorLabels
        /\ UNCHANGED << process_list, next, needspoll, poll_requested >>
    BY <1>2 DEF MainStep, BootDone, RunPoll, RunIdle, RunUnicast, RunBroadcast, At,
                CursorLabels, procVars, pollVars
  <2>2. CASE BootDone \/ RunIdle
    <3> DEFINE f == [Top EXCEPT !.at = "run"]
    <3>1. stack' = Replaced(f) /\ Lasting(f)
      BY <2>2, LastingTop DEF BootDone, RunIdle, Goto
    <3> HIDE DEF f
    <3> QED
      BY <2>1, <3>1, GoPolls
  <2>3. CASE RunPoll
    <3> DEFINE f == [Top EXCEPT !.at = "event"]
               g == [Blank EXCEPT !.at = "poll"]
    <3>1. /\ stack' = Replaced(f) \/ stack' = Append(Replaced(f), g)
          /\ Lasting(f) /\ Lasting(g)
      BY <2>3, LastingTop, LastingCalls DEF RunPoll, Goto
    <3> HIDE DEF f, g
    <3> QED
      BY <2>1, <3>1, GoPolls
  <2>4. CASE RunUnicast \/ RunBroadcast
    <3> DEFINE m == NextMessage
               f == [Top EXCEPT !.at = "run"]
               c == CallFrame(m.p, m.ev)
               b == [Blank EXCEPT !.at = "bpoll", !.q = process_list, !.ev = m.ev]
    <3>1. m \in Message
      <4>1. QueueInv /\ TakeEvent
        BY <2>4 DEF RunUnicast, RunBroadcast, PollInv, LifeInv, ProcInv, DataInv
      <4>2. m = Head(Waiting) /\ Waiting # << >> /\ Waiting \in Seq(Message)
        BY <4>1, TakeEventInv, WaitingIsSeq
      <4> QED
        BY <4>2
    <3>2. m.ev # "EXIT"
      BY <3>1 DEF NoneEnds
    <3>3. stack' = Append(Replaced(f), c) \/ stack' = Append(Replaced(f), b)
      BY <2>4 DEF RunUnicast, RunBroadcast, Goto
    <3>4. Lasting(f)
      BY LastingTop
    <3>5. Lasting(c) /\ Lasting(b)
      <4> HIDE DEF m
      <4> QED
        BY <3>2, LastingCalls
    <3> HIDE DEF f, b, c
    <3> QED
      BY <2>1, <3>3, <3>4, <3>5, GoPolls
  <2> QED
    BY <1>2, <2>2, <2>3, <2>4 DEF MainStep
<1> QED
  BY <1>1, <1>2

LEMMA EventPolls ==
  ASSUME PollInv, EventStep
  PROVE  PollCore2'
<1>1. /\ Top.at \in BroadcastLabels /\ Top.at \notin CursorLabels
      /\ UNCHANGED << process_list, next, needspoll, poll_requested >>
  BY DEF EventStep, BroadcastPoll, BroadcastCall, BroadcastNext, At,
         BroadcastLabels, CursorLabels, procVars, pollVars
<1>2. CASE BroadcastPoll
  <2> DEFINE f == [Top EXCEPT !.at = "bcall"]
             g == [Blank EXCEPT !.at = "poll"]
  <2>1. /\ stack' = Popped \/ stack' = Replaced(f) \/ stack' = Append(Replaced(f), g)
        /\ Lasting(f) /\ Lasting(g)
    BY <1>2, LastingTop, LastingCalls DEF BroadcastPoll, Goto
  <2> HIDE DEF f, g
  <2> QED
    BY <1>1, <2>1, GoPolls
<1>3. CASE BroadcastCall
  <2> DEFINE f == [Top EXCEPT !.at = "bnext"]
             g == CallFrame(Top.q, Top.ev)
  <2>1. Top.ev # "EXIT"
    BY LastingTop DEF Lasting
  <2>2. stack' = Append(Replaced(f), g) /\ Lasting(f) /\ Lasting(g)
    BY <1>3, <2>1, LastingTop, LastingCalls DEF BroadcastCall, Goto
  <2> HIDE DEF f, g
  <2> QED
    BY <1>1, <2>2, GoPolls
<1>4. CASE BroadcastNext
  <2> DEFINE f == To(Top, "bpoll", next[Top.q])
  <2>1. stack' = Replaced(f)
    BY <1>4 DEF BroadcastNext, To
  <2>2. Lasting(f)
    BY LastingTop DEF Lasting, Frame, To
  <2> HIDE DEF f
  <2> QED
    BY <1>1, <2>1, <2>2, GoPolls
<1> QED
  BY <1>2, <1>3, <1>4 DEF EventStep

\* do_poll() takes the flag down before it starts from the head of the list, and
\* has reached a process when it passes it.
LEMMA PollPolls ==
  ASSUME PollInv, PollStep
  PROVE  PollCore2'
<1>0. /\ Top \in LifeFrame /\ Top \in Frame /\ Lasting(Top)
      /\ Top.at \in QLabels => Top.q \in Proc
      /\ ListInv
  BY TopLabels, LastingTop DEF PollInv, LifeInv
<1>1. /\ UNCHANGED << process_list, next >>
      /\ Walk' = Walk /\ Listed' = Listed
  <2>1. UNCHANGED << process_list, next >>
    BY DEF PollStep, PollBegin, PollScan, PollReady, PollClaim, PollNext, procVars
  <2> QED
    BY <2>1, SameList, ListDefs, ListDefsNext
<1>2. Frames(stack) = Frames(Popped) \cup {Top}
  BY StackFrames DEF PollInv
<1>3. \A f \in Frames(Popped) : Lasting(f)
  BY <1>2 DEF PollInv, PollCore2
<1>4. ASSUME NEW f, Lasting(f), Frames(stack') = Frames(Popped) \cup {f},
             UNCHANGED << needspoll, poll_requested >>,
             \A p \in Listed : needspoll[p] /\ Serves(Walk, Top, p) => Serves(Walk, f, p)
      PROVE  PollCore2'
  BY <1>1, <1>2, <1>3, <1>4, KeptPolls
<1>5. ASSUME NEW l \in {"scan", "ready", "claim", "pollnext"}, NEW q
      PROVE  LET f == To(Top, l, q) IN Lasting(f) /\ f.at = l /\ f.q = q
  BY <1>0 DEF Lasting, Frame, To
<1>6. ASSUME NEW l \in {"ready", "claim", "pollnext"}
      PROVE  LET f == [Top EXCEPT !.at = l] IN Lasting(f) /\ f.at = l /\ f.q = Top.q
  BY <1>0 DEF Lasting, Frame
<1>7. CASE PollBegin
  <2> DEFINE f == To(Top, "scan", process_list)
  <2>1. stack' = Replaced(f) /\ needspoll' = needspoll
    BY <1>7 DEF PollBegin, To
  <2>2. Lasting(f) /\ f.at = "scan" /\ f.q = process_list
    BY <1>5
  <2> HIDE DEF f
  <2>3. Frames(stack') = Frames(Popped) \cup {f}
    BY <2>1, StackFrames DEF PollInv
  <2>4. \A p \in Listed : Serves(Walk, f, p)
    BY <1>0, <2>2, AheadFacts DEF Serves
  <2>5. f \in Frames(stack') /\ \A e \in Frames(stack') : Lasting(e)
    BY <1>3, <2>2, <2>3
  <2> QED
    BY <1>1, <2>1, <2>4, <2>5 DEF PollInv, PollCore2
<1>8. CASE PollScan
  <2>1. Top.at = "scan" /\ UNCHANGED << needspoll, poll_requested >>
    BY <1>8 DEF PollScan, At, pollVars
  <2>2. CASE Top.q = NULL
    <3>1. stack' = Popped
      BY <1>8, <2>2 DEF PollScan
    <3>2. \A p \in Listed : ~Serves(Walk, Top, p)
      BY <1>0, <2>1, <2>2, AheadFacts DEF Serves
    <3> QED
      BY <1>1, <1>2, <1>3, <2>1, <3>1, <3>2, KeptPolls
  <2>3. CASE Top.q # NULL /\ needspoll[Top.q]
    <3> DEFINE f == [Top EXCEPT !.at = "ready"]
    <3>1. stack' = Replaced(f)
      BY <1>8, <2>3 DEF PollScan, Goto
    <3>2. Lasting(f) /\ f.at = "ready" /\ f.q = Top.q
      BY <1>6
    <3> HIDE DEF f
    <3>3. Frames(stack') = Frames(Popped) \cup {f}
      BY <3>1, StackFrames DEF PollInv
    <3>4. \A p \in Listed : Serves(Walk, Top, p) => Serves(Walk, f, p)
      BY <2>1, <3>2 DEF Serves
    <3> QED
      BY <1>4, <2>1, <3>2, <3>3, <3>4
  <2>4. CASE Top.q # NULL /\ ~needspoll[Top.q]
    <3> DEFINE f == [Top EXCEPT !.at = "pollnext"]
    <3>1. stack' = Replaced(f)
      BY <1>8, <2>4 DEF PollScan, Goto
    <3>2. Lasting(f) /\ f.at = "pollnext" /\ f.q = Top.q
      BY <1>6
    <3> HIDE DEF f
    <3>3. Frames(stack') = Frames(Popped) \cup {f}
      BY <3>1, StackFrames DEF PollInv
    <3>4. \A p \in Listed : needspoll[p] /\ Serves(Walk, Top, p) => Serves(Walk, f, p)
      BY <2>1, <2>4, <3>2 DEF Serves
    <3> QED
      BY <1>4, <2>1, <3>2, <3>3, <3>4
  <2> QED
    BY <2>2, <2>3, <2>4
<1>9. CASE PollReady
  <2> DEFINE f == [Top EXCEPT !.at = "claim"]
  <2>1. /\ Top.at = "ready" /\ UNCHANGED << needspoll, poll_requested >>
        /\ stack' = Replaced(f)
    BY <1>9 DEF PollReady, At, Goto, pollVars
  <2>2. Lasting(f) /\ f.at = "claim" /\ f.q = Top.q
    BY <1>6
  <2> HIDE DEF f
  <2>3. Frames(stack') = Frames(Popped) \cup {f}
    BY <2>1, StackFrames DEF PollInv
  <2>4. \A p \in Listed : Serves(Walk, Top, p) => Serves(Walk, f, p)
    BY <2>1, <2>2 DEF Serves
  <2> QED
    BY <1>4, <2>1, <2>2, <2>3, <2>4
<1>10. CASE PollClaim
  <2> DEFINE f == [Top EXCEPT !.at = "pollnext"]
             g == CallFrame(Top.q, "POLL")
  <2>1. /\ Top.at = "claim" /\ poll_requested' = poll_requested
        /\ needspoll' = [needspoll EXCEPT ![Top.q] = FALSE]
        /\ stack' = Append(Replaced(f), g)
    BY <1>10 DEF PollClaim, At, Goto
  <2>2. Lasting(f) /\ f.at = "pollnext" /\ f.q = Top.q
    BY <1>6
  <2>3. Lasting(g)
    BY LastingCalls
  <2>4. Top.q \in Proc /\ needspoll \in [Proc -> BOOLEAN] /\ Listed \subseteq Proc
    BY <1>0, <2>1, LinearFacts, ListDefs
    DEF QLabels, PollInv, LifeInv, ProcInv, DataInv, ListInv
  <2> HIDE DEF f, g
  <2>5. Frames(stack') = Frames(Popped) \cup {f, g}
    BY <2>1, StackFrames DEF PollInv
  <2>6. \A e \in Frames(stack') : Lasting(e)
    BY <1>3, <2>2, <2>3, <2>5
  <2>7. \A p \in Proc : needspoll'[p] => needspoll[p] /\ p # Top.q
    BY <2>1, <2>4
  <2>8. ASSUME NEW p \in Listed, needspoll'[p], ~poll_requested
        PROVE  \E e \in Frames(stack') : Serves(Walk, e, p)
    <3>1. needspoll[p] /\ p # Top.q
      BY <2>4, <2>7, <2>8
    <3>2. PICK e \in Frames(stack) : Serves(Walk, e, p)
      BY <2>8, <3>1 DEF PollInv, PollCore2
    <3>3. Serves(Walk, Top, p) => Serves(Walk, f, p)
      BY <2>1, <2>2, <3>1 DEF Serves
    <3> QED
      BY <1>2, <2>5, <3>2, <3>3
  <2>9. \A p \in Proc \ Listed : ~needspoll'[p]
    BY <2>7 DEF PollInv, PollCore2
  <2> QED
    BY <1>1, <2>1, <2>6, <2>8, <2>9 DEF PollCore2
<1>11. CASE PollNext
  <2> DEFINE f == To(Top, "scan", next[Top.q])
  <2>1. /\ Top.at = "pollnext" /\ UNCHANGED << needspoll, poll_requested >>
        /\ stack' = Replaced(f)
    BY <1>11 DEF PollNext, At, To, pollVars
  <2>2. Lasting(f) /\ f.at = "scan" /\ f.q = next[Top.q]
    BY <1>5
  <2> HIDE DEF f
  <2>3. Frames(stack') = Frames(Popped) \cup {f}
    BY <2>1, StackFrames DEF PollInv
  <2>4. ASSUME NEW p \in Listed, Serves(Walk, Top, p) PROVE Serves(Walk, f, p)
    <3>1. Top.q # p /\ AheadOn(Walk, p, Top.q)
      BY <2>1, <2>4 DEF Serves
    <3>2. Top.q \in Listed
      BY <1>0, <2>1, <3>1, ProcessAssumption DEF AheadOn, Listed, QLabels
    <3>3. AheadOn(Walk, p, next[Top.q])
      BY <1>0, <3>1, <3>2, AheadFacts
    <3> QED
      BY <2>2, <3>3 DEF Serves
  <2> QED
    BY <1>4, <2>1, <2>2, <2>3, <2>4
<1> QED
  BY <1>7, <1>8, <1>9, <1>10, <1>11 DEF PollStep

LEMMA CallPolls ==
  ASSUME PollInv, CallStep
  PROVE  PollCore2'
<1>1. /\ Top.at \in {"call", "mark", "done", "exiting", "synch"}
      /\ Top.at \notin CursorLabels
      /\ UNCHANGED << process_list, next, needspoll, poll_requested >>
  BY DEF CallStep, CallEnter, CallThread, CallDone, CallExit, SynchReturn, At,
         CursorLabels, procVars, pollVars
<1>2. Lasting(Top)
  BY LastingTop
<1>3. CASE CallEnter \/ CallDone \/ SynchReturn
  <2> DEFINE f == [Top EXCEPT !.at = "mark"]
  <2>1. (stack' = Popped \/ stack' = Replaced(f)) /\ Lasting(f)
    BY <1>3, LastingTop DEF CallEnter, CallDone, SynchReturn, Goto
  <2> HIDE DEF f
  <2> QED
    BY <1>1, <2>1, GoPolls
<1>4. CASE CallThread
  <2> DEFINE f == [Top EXCEPT !.at = "calling"]
             g == ThreadFrame(Top.p, Top.ev)
  <2>1. stack' = Append(Replaced(f), g) /\ Lasting(f) /\ Lasting(g)
    BY <1>2, <1>4, LastingTop, LastingCalls DEF CallThread, Goto, Lasting
  <2> HIDE DEF f, g
  <2> QED
    BY <1>1, <2>1, GoPolls
<1>5. CASE CallExit
  BY <1>2, <1>5 DEF CallExit, At, Lasting
<1> QED
  BY <1>3, <1>4, <1>5 DEF CallStep

LEMMA ThreadPolls ==
  ASSUME PollInv, NoneEnds, ThreadStep
  PROVE  PollCore2'
<1>0. /\ Top.at \in {"thread", "context"} /\ Top.at \notin CursorLabels
      /\ Top \in Frame /\ Lasting(Top)
  BY LastingTop
  DEF ThreadStep, ThreadPost, ThreadPoll, ThreadSynch, ThreadStart, ThreadExit,
      ContextBegin, ContextEnd, ThreadReturn, MayCall, MayNest, Executing, At,
      CursorLabels
<1> DEFINE f == [Top EXCEPT !.left = @ - 1]
<1>1. Spent = Replaced(f) /\ Lasting(f)
  BY <1>0, LastingTop DEF Spent
<1> HIDE DEF f
<1>2. ASSUME NEW m \in Message, ThreadPost(m) PROVE PollCore2'
  <2>1. /\ stack' = Replaced(f)
        /\ UNCHANGED << process_list, next, needspoll, poll_requested >>
    BY <1>1, <1>2 DEF ThreadPost, procVars, pollVars
  <2> QED
    BY <1>0, <1>1, <2>1, GoPolls
<1>3. ASSUME NEW p \in Proc, ThreadPoll(p) PROVE PollCore2'
  <2>1. stack' = Replaced(f) /\ UNCHANGED procVars /\ process_poll(p)
    BY <1>1, <1>3 DEF ThreadPoll
  <2>2. /\ Frames(stack') = Frames(Popped) \cup {f}
        /\ Frames(stack) = Frames(Popped) \cup {Top}
    BY <2>1, StackFrames DEF PollInv
  <2>3. \A q : ~Serves(Walk, Top, q)
    BY <1>0 DEF Serves, CursorLabels
  <2>4. \A e \in Frames(stack') : Lasting(e)
    BY <1>1, <2>2 DEF PollInv, PollCore2
  <2> QED
    BY <2>1, <2>2, <2>3, <2>4, MarkedPolls
<1>4. ASSUME NEW p \in Proc, ThreadSynch(p) PROVE PollCore2'
  <2> DEFINE g == SynchFrame
             h == CallFrame(p, "MSG")
  <2>1. /\ stack' = Append(Append(Replaced(f), g), h)
        /\ UNCHANGED << process_list, next, needspoll, poll_requested >>
    BY <1>1, <1>4 DEF ThreadSynch, procVars, pollVars
  <2>2. Lasting(g) /\ Lasting(h)
    BY LastingCalls
  <2> HIDE DEF g, h
  <2> QED
    BY <1>0, <1>1, <2>1, <2>2, GoPolls
<1>5. ASSUME NEW p \in Proc, ThreadStart(p) PROVE PollCore2'
  <2>1. process_start(p, Replaced(f)) /\ UNCHANGED pollVars
    BY <1>1, <1>5 DEF ThreadStart
  <2> QED
    BY <1>0, <1>1, <2>1, StartPolls
<1>6. ASSUME NEW p \in Proc, ThreadExit(p) PROVE PollCore2'
  BY <1>6 DEF ThreadExit, MayNest, MayCall, NoneEnds
<1>7. ASSUME NEW ended \in BOOLEAN, ThreadReturn(ended) PROVE PollCore2'
  <2> DEFINE r == Popped
             caller == r[Len(r)]
             g == [caller EXCEPT !.at = "done"]
             b == SubSeq(r, 1, Len(r) - 1)
  <2>l. Top.at \notin MainLabels \cup ActLabels /\ Top.at # "mark" /\ Top.at # "call"
    BY <1>0 DEF MainLabels, ActLabels, EnteredLabels, ExitingLabels
  <2>1. /\ r # << >> /\ Nested(r) /\ Calls(caller, Top)
        /\ Len(r) = Len(stack) - 1
    BY <2>l, Uncovered, TopPart DEF ActLabels, PollInv
  <2>2. caller.at = "calling"
    BY <1>7, <2>1 DEF ThreadReturn, At, Calls
  <2>3. caller = stack[Len(stack) - 1]
    <3>1. Len(stack) > 1 /\ r[Len(r)] = stack[Len(stack) - 1]
      BY <2>l, PopWell DEF PollInv, LifeInv, ProcInv, StackInv, Popped, Top
    <3> QED
      BY <3>1
  <2>4. ~ended /\ Top.ev # "EXIT"
    BY <1>0, <1>7 DEF ThreadReturn, NoneEnds, Lasting
  <2>5. /\ stack' = [r EXCEPT ![Len(r)] = g]
        /\ UNCHANGED << process_list, next, needspoll, poll_requested >>
    BY <1>7, <2>1, <2>2, <2>3, <2>4 DEF ThreadReturn, procVars, pollVars
  <2>6. /\ Nested(b) /\ b \in Seq(LifeFrame) /\ caller \in LifeFrame
        /\ r = Append(b, caller)
    <3> HIDE DEF r
    <3>1. Nested(b) /\ caller \in LifeFrame /\ r = Append(b, caller)
      BY <2>1, BeforeNested
    <3>2. Nested(b) => b \in Seq(LifeFrame)
      BY DEF Nested
    <3> QED
      BY <3>1, <3>2
  <2>7. stack' = Append(b, g)
    <3> HIDE DEF r, g
    <3> QED
      BY <2>1, <2>5, ReplaceIs
  <2>8. /\ Frames(stack') = Frames(b) \cup {g}
        /\ Frames(r) = Frames(b) \cup {caller}
    <3> HIDE DEF r, b, g, caller
    <3> QED
      BY <2>6, <2>7, AppendFrames
  <2>9. Frames(stack) = Frames(r) \cup {Top}
    BY StackFrames DEF PollInv
  <2>10. Lasting(g) /\ \A e \in Frames(b) : Lasting(e)
    <3>1. Lasting(caller) /\ \A e \in Frames(b) : Lasting(e)
      <4> HIDE DEF r, b, caller
      <4> QED
        BY <2>8, <2>9 DEF PollInv, PollCore2
    <3>2. caller \in Frame
      <4> HIDE DEF caller
      <4> QED
        BY <2>6 DEF LifeFrame, GoodFrame
    <3> HIDE DEF r, b, caller
    <3>3. Lasting(g)
      BY <3>1, <3>2 DEF Lasting, Frame
    <3> QED
      BY <3>1, <3>3
  <2> HIDE DEF r, b, g, caller
  <2>11. \A q : ~Serves(Walk, Top, q) /\ ~Serves(Walk, caller, q)
    BY <1>0, <2>2 DEF Serves, CursorLabels
  <2>12. /\ \A e \in Frames(stack') : Lasting(e)
         /\ \A e \in Frames(stack), q \in Listed :
              Serves(Walk, e, q) => e \in Frames(stack')
    BY <2>8, <2>9, <2>10, <2>11
  <2> QED
    BY <2>5, <2>12, KeptPolls
<1>8. ASSUME NEW p \in Proc, ContextBegin(p) PROVE PollCore2'
  <2> DEFINE g == ContextFrame(p)
  <2>1. /\ stack' = Append(Replaced(f), g)
        /\ UNCHANGED << process_list, next, needspoll, poll_requested >>
    BY <1>1, <1>8 DEF ContextBegin, procVars, pollVars
  <2>2. Lasting(g)
    BY <1>0 DEF Lasting, ContextFrame, ThreadFrame, Blank
  <2> HIDE DEF g
  <2> QED
    BY <1>0, <1>1, <2>1, <2>2, GoPolls
<1>9. CASE ContextEnd
  BY <1>0, <1>1, <1>9, GoPolls DEF ContextEnd, procVars, pollVars
<1> QED
  BY <1>2, <1>3, <1>4, <1>5, <1>6, <1>7, <1>8, <1>9 DEF ThreadStep

LEMMA PollInit == Init => PollInv
<1> SUFFICES ASSUME Init PROVE PollInv
  OBVIOUS
<1>1. LifeInv /\ Listed = {}
  BY LifeInit, ListInitInv
<1>2. Frames(stack) = {Blank}
  BY DEF Init, Frames
<1>3. Lasting(Blank)
  BY DEF Lasting, Blank
<1>4. \A p \in Proc : ~needspoll[p]
  BY DEF Init
<1> QED
  BY <1>1, <1>2, <1>3, <1>4 DEF PollInv, PollCore2

LEMMA PollNextInv ==
  ASSUME NoneEnds, PollInv, [Next]_vars
  PROVE  PollInv'
<1>1. NoForcedExit
  BY DEF NoneEnds, NoForcedExit
<1>2. LifeInv'
  BY <1>1, LifeNext DEF PollInv
<1>3. CASE UNCHANGED vars
  <2>1. UNCHANGED << process_list, next, needspoll, poll_requested, stack >>
    BY <1>3 DEF vars, procVars, pollVars
  <2>2. \A f \in Frames(stack') : Lasting(f)
    BY <2>1 DEF PollInv, PollCore2
  <2>3. Frames(stack') = Frames(stack)
    BY <2>1
  <2> QED
    BY <1>2, <2>1, <2>2, <2>3, KeptPolls DEF PollInv
<1>4. ASSUME NEW p \in Pollable, InterruptPoll(p) PROVE PollCore2'
  <2>1. process_poll(p) /\ UNCHANGED procVars /\ stack' = stack /\ p \in Proc
    BY <1>4, ProcessAssumption DEF InterruptPoll
  <2>2. Frames(stack') = Frames(stack)
    BY <2>1
  <2>3. \A f \in Frames(stack') : Lasting(f)
    BY <2>2 DEF PollInv, PollCore2
  <2> QED
    BY <2>1, <2>2, <2>3, MarkedPolls
<1>5. ASSUME ExitStep PROVE FALSE
  BY <1>5, LastingTop
  DEF ExitStep, ExitBegin, ExitTell, ExitTellNext, ExitThread, ExitUnlink, At, Lasting
<1>6. ASSUME KernelStep PROVE PollCore2'
  BY <1>5, <1>6, MainPolls, EventPolls, PollPolls, CallPolls, ThreadPolls
  DEF KernelStep
<1> QED
  BY <1>2, <1>3, <1>4, <1>6 DEF Next, PollInv

\* As long as no process ends, a poll request is never forgotten, wherever in
\* do_poll() the interrupt falls: the flag is up, or the running do_poll() has
\* still to reach the process (process_poll, do_poll).  The assumption is needed:
\* a process that ends before its poll and is started again has its old request
\* back, and no flag is up for it.
THEOREM NothingForgotten ==
  ASSUME NoneEnds
  PROVE  Spec => []NoLostPoll
<1>1. PollInv /\ [Next]_vars => PollInv'
  BY PollNextInv
<1>2. PollInv => NoLostPoll
  BY LostDefs DEF PollInv, PollCore2
<1> QED
  BY <1>1, <1>2, PollInit, PTL DEF Spec
=============================================================================
