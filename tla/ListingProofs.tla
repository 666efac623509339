--------------------------- MODULE ListingProofs ---------------------------
(***************************************************************************)
(* Walks over lists of any length with pages of any size, while any number   *)
(* of goroutines deploys and starts.                                         *)
(***************************************************************************)
EXTENDS Listing, DeploymentProofs, FiniteSetTheorems

-----------------------------------------------------------------------------
(* Lists in an order *)

\* rows lists the rows of M, those of the highest rank first.
Lists(rows, M, rank) ==
    /\ rows \in Seq(M)
    /\ \A d \in M : \E k \in 1..Len(rows) : rows[k] = d
    /\ \A i, j \in 1..Len(rows) : i < j => rank[rows[i]] > rank[rows[j]]

\* The rows of M that are listed no later than d.
UpTo(M, rank, d) == {e \in M : rank[e] >= rank[d]}

\* A sequence that has every row of a finite set once has all of them.
LEMMA SeqsOfSet ==
  ASSUME NEW M, IsFiniteSet(M), NEW rows \in SetToSeqs(M)
  PROVE  /\ rows \in Seq(M)
         /\ Len(rows) = Cardinality(M)
         /\ \A d \in M : \E k \in 1..Len(rows) : rows[k] = d
         /\ \A i, j \in 1..Len(rows) : i # j => rows[i] # rows[j]
<1>1. PICK n \in Nat : n = Cardinality(M)
  BY FS_CardinalityType
<1>2. rows \in [1..n -> M] /\ \A i, j \in 1..n : i # j => rows[i] # rows[j]
  BY <1>1 DEF SetToSeqs
<1>3. rows \in Seq(M) /\ Len(rows) = n
  BY <1>2
<1>4. rows \in Injection(1..n, M)
  BY <1>2 DEF Injection, IsInjective
<1>5. IsFiniteSet(1..n) /\ Cardinality(1..n) = n
  BY FS_Interval
<1>6. rows \in Surjection(1..n, M)
  BY <1>1, <1>4, <1>5, FS_Injection
<1>7. \A d \in M : \E k \in 1..n : rows[k] = d
  BY <1>6 DEF Surjection
<1>8. QED
  BY <1>1, <1>2, <1>3, <1>7

\* The k-th row is the one that k rows are listed no later than.
LEMMA Place ==
  ASSUME NEW M, NEW rank \in [M -> Int], NEW rows, Lists(rows, M, rank), NEW k \in 1..Len(rows)
  PROVE  /\ IsFiniteSet(UpTo(M, rank, rows[k]))
         /\ Cardinality(UpTo(M, rank, rows[k])) = k
<1>1. rows \in Seq(M) /\ Len(rows) \in Nat /\ k \in Nat
  BY DEF Lists
<1>2. PICK f : f = [i \in 1..k |-> rows[i]]
  OBVIOUS
<1>3. \A i \in 1..k : i \in 1..Len(rows) /\ rows[i] \in M /\ rank[rows[i]] \in Int
  BY <1>1
<1>4. \A i \in 1..k : rows[i] \in UpTo(M, rank, rows[k])
  <2>1. SUFFICES ASSUME NEW i \in 1..k PROVE rank[rows[i]] >= rank[rows[k]]
    BY <1>3 DEF UpTo
  <2>2. rank[rows[i]] \in Int /\ rank[rows[k]] \in Int
    BY <1>1, <1>3
  <2>3. i < k => rank[rows[i]] > rank[rows[k]]
    BY <1>3 DEF Lists
  <2>4. QED
    BY <1>1, <2>2, <2>3
<1>5. f \in [1..k -> UpTo(M, rank, rows[k])]
  BY <1>2, <1>4
<1>6. \A i, j \in 1..k : i # j => f[i] # f[j]
  <2>1. SUFFICES ASSUME NEW i \in 1..k, NEW j \in 1..k, i < j PROVE rows[i] # rows[j]
    BY <1>2
  <2>2. rank[rows[i]] > rank[rows[j]]
    BY <1>3, <2>1 DEF Lists
  <2>3. QED
    BY <1>3, <2>2
<1>7. \A d \in UpTo(M, rank, rows[k]) : \E i \in 1..k : f[i] = d
  <2>1. SUFFICES ASSUME NEW d \in M, rank[d] >= rank[rows[k]] PROVE \E i \in 1..k : f[i] = d
    BY DEF UpTo
  <2>2. PICK i \in 1..Len(rows) : rows[i] = d
    BY DEF Lists
  <2>3. ~(k < i)
    <3>1. SUFFICES ASSUME k < i PROVE FALSE
      OBVIOUS
    <3>2. rank[rows[k]] > rank[rows[i]]
      BY <3>1 DEF Lists
    <3>3. rank[rows[k]] \in Int /\ rank[rows[i]] \in Int
      BY <1>1
    <3>4. QED
      BY <2>1, <2>2, <3>2, <3>3
  <2>4. QED
    BY <1>1, <1>2, <2>2, <2>3
<1>8. f \in Bijection(1..k, UpTo(M, rank, rows[k]))
  BY <1>5, <1>6, <1>7 DEF Bijection, Injection, Surjection, IsInjective
<1>9. ExistsBijection(1..k, UpTo(M, rank, rows[k]))
  BY <1>8 DEF ExistsBijection
<1>10. QED
  BY <1>1, <1>9, FS_NatBijection, FS_CountingElements

-----------------------------------------------------------------------------
(* Pages *)

\* The rows before a page.
Skipped(page, size) == Max({Offset(page, size), 0})

\* Max and Min of two numbers.
LEMMA MaxMin ==
  ASSUME NEW a \in Int, NEW b \in Int
  PROVE  /\ Max({a, b}) = IF a >= b THEN a ELSE b
         /\ Min({a, b}) = IF a <= b THEN a ELSE b
<1>1. Max({a, b}) \in {a, b} /\ \A y \in {a, b} : Max({a, b}) >= y
  <2>1. \E x \in {a, b} : \A y \in {a, b} : x >= y
    OBVIOUS
  <2>2. QED
    BY <2>1 DEF Max
<1>2. Min({a, b}) \in {a, b} /\ \A y \in {a, b} : Min({a, b}) <= y
  <2>1. \E x \in {a, b} : \A y \in {a, b} : x <= y
    OBVIOUS
  <2>2. QED
    BY <2>1 DEF Min
<1>3. QED
  BY <1>1, <1>2

\* Pages follow each other without a gap, whatever size is asked for, and as
\* long as it is positive they do not overlap.
LEMMA PagesFollow ==
  ASSUME NEW page \in Nat \ {0}, NEW size \in Int
  PROVE  /\ Skipped(page, size) \in Nat
         /\ Limit(size) \in Nat \ {0}
         /\ Skipped(1, size) = 0
         /\ Skipped(page + 1, size) <= Skipped(page, size) + Limit(size)
         /\ size >= 1 => Skipped(page, size) + Limit(size) = page * size
<1>1. PICK x \in Int : x = (page - 1) * size
  OBVIOUS
<1>2. page * size = x + size /\ (page + 1 - 1) * size = page * size
  BY <1>1
<1>3. Offset(page, size) = x /\ Offset(page + 1, size) = x + size /\ Offset(1, size) = 0
  BY <1>1, <1>2 DEF Offset
<1>4. /\ Skipped(page, size) = IF x >= 0 THEN x ELSE 0
      /\ Skipped(page + 1, size) = IF x + size >= 0 THEN x + size ELSE 0
      /\ Skipped(1, size) = 0
  BY <1>3, MaxMin DEF Skipped
<1>5. size >= 1 => x >= 0
  BY <1>1
<1>6. size < 1 => x <= 0
  BY <1>1
<1>7. /\ Limit(size) \in Nat \ {0}
      /\ size >= 1 => Limit(size) = size
  BY PagingAssumption DEF Limit
<1>8. QED
  BY <1>2, <1>4, <1>5, <1>6, <1>7

\* lim rows from off on, or as many as there are.
Slice(rows, off, lim) ==
    SubSeq(rows, off + 1, IF off + lim <= Len(rows) THEN off + lim ELSE Len(rows))

\* A page is a slice of the list.
LEMMA PageSlice ==
  ASSUME NEW M, NEW rows \in Seq(M), NEW page \in Nat \ {0}, NEW size \in Int
  PROVE  Page(rows, page, size) = Slice(rows, Skipped(page, size), Limit(size))
<1>1. Skipped(page, size) \in Nat /\ Limit(size) \in Nat
  BY PagesFollow
<1>2. PICK a \in Int, b \in Int : a = Skipped(page, size) + Limit(size) /\ b = Len(rows)
  BY <1>1
<1>3. Min({a, b}) = IF a <= b THEN a ELSE b
  BY MaxMin
<1>4. QED
  BY <1>2, <1>3 DEF Page, Skipped, Slice

\* The rows of a slice.
LEMMA SliceRows ==
  ASSUME NEW M, NEW rows \in Seq(M), NEW off \in Nat, NEW lim \in Nat
  PROVE  /\ Slice(rows, off, lim) \in Seq(M)
         /\ \A k \in 1..Len(rows) : (off < k /\ k <= off + lim) => rows[k] \in ToSet(Slice(rows, off, lim))
         /\ \A g \in ToSet(Slice(rows, off, lim)) : \E k \in 1..Len(rows) : k <= off + lim /\ rows[k] = g
<1>1. PICK last \in Nat : last = IF off + lim <= Len(rows) THEN off + lim ELSE Len(rows)
  OBVIOUS
<1>2. PICK p : p = SubSeq(rows, off + 1, last)
  OBVIOUS
<1>3. p \in Seq(M)
  BY <1>1, <1>2
<1>4. /\ Len(p) = IF off + 1 <= last THEN last - off ELSE 0
      /\ \A i \in 1..Len(p) : p[i] = rows[off + i]
  BY <1>1, <1>2
<1>5. ToSet(p) = {p[i] : i \in 1..Len(p)}
  BY <1>3 DEF ToSet
<1>6. ASSUME NEW k \in 1..Len(rows), off < k, k <= off + lim
      PROVE  rows[k] \in ToSet(p)
  <2>1. k - off \in 1..Len(p) /\ off + (k - off) = k
    BY <1>1, <1>4, <1>6
  <2>2. p[k - off] = rows[k]
    BY <1>4, <2>1
  <2>3. QED
    BY <1>5, <2>1, <2>2
<1>7. ASSUME NEW g \in ToSet(p)
      PROVE  \E k \in 1..Len(rows) : k <= off + lim /\ rows[k] = g
  <2>1. PICK i \in 1..Len(p) : p[i] = g
    BY <1>5
  <2>2. off + i \in 1..Len(rows) /\ off + i <= off + lim /\ rows[off + i] = g
    BY <1>1, <1>4, <2>1
  <2>3. QED
    BY <2>2
<1>8. QED
  BY <1>1, <1>2, <1>3, <1>6, <1>7 DEF Slice

\* The last page reaches the end.
LEMMA LastPage ==
  ASSUME NEW total \in Nat, NEW size \in Nat \ {0}, NEW page \in Nat \ {0}, page >= TotalPages(total, size)
  PROVE  total <= page * size
<1>1. PICK q \in Nat, r \in Nat : q = total \div size /\ r = total % size
  OBVIOUS
<1>2. total = size * q + r /\ r < size
  BY <1>1
<1>3. CASE r = 0
  <2>1. page >= q
    BY <1>1, <1>3 DEF TotalPages
  <2>2. page * size >= q * size
    BY <2>1
  <2>3. QED
    BY <1>2, <1>3, <2>2
<1>4. CASE r > 0
  <2>1. page >= q + 1
    BY <1>1, <1>4 DEF TotalPages
  <2>2. page * size >= (q + 1) * size
    BY <2>1
  <2>3. (q + 1) * size = q * size + size
    OBVIOUS
  <2>4. QED
    BY <1>2, <2>2, <2>3
<1>5. QED
  BY <1>3, <1>4

\* The page of the first row is there for any list that is not empty.
LEMMA NoPages ==
  ASSUME NEW size \in Nat \ {0}
  PROVE  TotalPages(0, size) = 0
  BY DEF TotalPages

-----------------------------------------------------------------------------
(* The rows of a list, and how they change *)

\* The rows that match, and the column they are ordered by.
Matching(list, key) ==
    IF list = "definitions" THEN {d \in definitions : d.key = key} ELSE InstancesOf(key)

Rank(list, M) == [d \in M |-> IF list = "definitions" THEN d.version ELSE instances[d].startedAt]

\* w has created an instance in an SQL store and has not committed it.
Uncommitted(w) == starting[w].pc \in {"navigate", "commit"}

\* In an SQL store no two instances have the same StartedAt, created or committed.
TimesApart ==
    ~setup.memory =>
        /\ \A i \in DOMAIN instances :
              /\ instances[i].startedAt <= clock
              /\ \A j \in DOMAIN instances : i # j => instances[i].startedAt # instances[j].startedAt
        /\ \A w \in Starters : Uncommitted(w) =>
              /\ starting[w].startedAt <= clock
              /\ \A i \in DOMAIN instances : instances[i].startedAt # starting[w].startedAt
              /\ \A v \in Starters : (v # w /\ Uncommitted(v)) => starting[v].startedAt # starting[w].startedAt

\* There are finitely many definitions, and the SQL stores, which refuse a
\* second row with the same ID, have every version of a key once.
RowsInv ==
    /\ TypeOK
    /\ TimesApart
    /\ IsFiniteSet(definitions)
    /\ ~setup.memory =>
          \A d \in definitions :
             /\ d.version = d.n
             /\ \A e \in definitions : (e.key = d.key /\ e.version = d.version) => e = d

\* There are no rows at first,
LEMMA RowsInit == Init => RowsInv
  BY InitTyped, FS_EmptySet DEF Init, RowsInv, TimesApart, Uncommitted

\* Times as they are seen from an instance or a start.
LEMMA TimesTyped ==
  ASSUME TypeOK
  PROVE  /\ clock \in Nat
         /\ \A i \in DOMAIN instances : instances[i].startedAt \in Nat
         /\ \A w \in Starters : Uncommitted(w) => starting[w] \in HasCreated /\ starting[w].startedAt \in Nat
<1>1. \A i \in DOMAIN instances : instances[i].startedAt \in Nat
  BY InHandTyped DEF InstanceRow
<1>2. ASSUME NEW w \in Starters, Uncommitted(w) PROVE starting[w] \in HasCreated
  BY <1>2, StartingTyped DEF Uncommitted
<1>3. QED
  BY <1>1, <1>2 DEF TypeOK, HasCreated

\* An instance is created at a time of its own and keeps it when it is committed.
LEMMA TimesByStart ==
  ASSUME TypeOK, TimesApart, ~setup.memory, NEW w \in Starters, Starting(w)
  PROVE  TimesApart'
<1>1. /\ clock \in Nat
      /\ \A i \in DOMAIN instances :
            /\ instances[i].startedAt \in Nat /\ instances[i].startedAt <= clock
            /\ \A j \in DOMAIN instances : i # j => instances[i].startedAt # instances[j].startedAt
      /\ \A v \in Starters : Uncommitted(v) =>
            /\ starting[v].startedAt \in Nat /\ starting[v].startedAt <= clock
            /\ \A i \in DOMAIN instances : instances[i].startedAt # starting[v].startedAt
            /\ \A u \in Starters : (u # v /\ Uncommitted(u)) => starting[u].startedAt # starting[v].startedAt
  BY TimesTyped DEF TimesApart
<1>2. \A v \in Starters : v # w => starting'[v] = starting[v] /\ (Uncommitted(v)' <=> Uncommitted(v))
  BY OtherStarts DEF Uncommitted
<1>3. CASE CreateProcessInstance(w)
  <2>1. clock' = clock + 1 /\ instances' = instances
    BY <1>3 DEF CreateProcessInstance
  <2>2. starting'[w].startedAt = clock + 1
    BY <1>3, StartingTyped DEF CreateProcessInstance
  <2>3. \A i \in DOMAIN instances : instances[i].startedAt <= clock' /\ instances[i].startedAt # clock + 1
    BY <1>1, <2>1
  <2>4. ASSUME NEW v \in Starters, v # w, Uncommitted(v)
        PROVE  starting'[v] = starting[v] /\ starting[v].startedAt <= clock' /\ starting[v].startedAt # clock + 1
    BY <1>1, <1>2, <2>1, <2>4
  <2>5. ASSUME NEW v \in Starters, Uncommitted(v)'
        PROVE  /\ starting'[v].startedAt <= clock'
               /\ \A i \in DOMAIN instances : instances[i].startedAt # starting'[v].startedAt
               /\ \A u \in Starters : (u # v /\ Uncommitted(u)') => starting'[u].startedAt # starting'[v].startedAt
    <3>1. CASE v = w
      BY <1>1, <1>2, <2>1, <2>2, <2>3, <2>4, <3>1
    <3>2. CASE v # w
      BY <1>1, <1>2, <2>2, <2>4, <2>5, <3>2
    <3>3. QED
      BY <3>1, <3>2
  <2>6. QED
    BY <1>1, <2>1, <2>3, <2>5 DEF TimesApart
<1>4. CASE NavigateFromStart(w)
  <2>1. clock' = clock /\ instances' = instances /\ Uncommitted(w)
    BY <1>4 DEF NavigateFromStart, Uncommitted
  <2>2. Uncommitted(w)' => starting'[w].startedAt = starting[w].startedAt
    <3>1. starting[w] \in HasCreated
      BY <2>1, TimesTyped
    <3>2. starting'[w] = [pc |-> "idle"] \/ starting'[w] = [starting[w] EXCEPT !.pc = "commit"]
      BY <1>4, StartingTyped DEF NavigateFromStart, StartReturns
    <3>3. QED
      BY <3>1, <3>2 DEF Uncommitted, HasCreated
  <2>3. QED
    BY <1>1, <1>2, <2>1, <2>2 DEF TimesApart
<1>5. CASE CommitStart(w)
  <2>1. clock' = clock /\ Uncommitted(w) /\ ~Uncommitted(w)'
    BY <1>5, StartingTyped DEF CommitStart, StartReturns, Uncommitted
  <2>2. PICK r \in InstanceRow : r = NewInstance(w)
    BY <1>5, CommitTyped
  <2>3. instances \in Seq(InstanceRow) /\ instances' = Append(instances, r)
    BY <1>5, <2>2, InHandTyped DEF CommitStart
  <2>4. PICK n \in Nat : n = Len(instances)
    BY <2>3
  <2>5. /\ DOMAIN instances = 1..n /\ DOMAIN instances' = 1..(n + 1)
        /\ \A i \in 1..n : instances'[i] = instances[i]
        /\ instances'[n + 1] = r
    BY <2>3, <2>4
  <2>6. r.startedAt = starting[w].startedAt
    BY <2>2 DEF NewInstance
  <2>7. ASSUME NEW i \in 1..(n + 1)
        PROVE  /\ instances'[i].startedAt <= clock
               /\ \A j \in 1..(n + 1) : i # j => instances'[i].startedAt # instances'[j].startedAt
               /\ \A v \in Starters : (v # w /\ Uncommitted(v)) => instances'[i].startedAt # starting[v].startedAt
    <3>1. CASE i \in 1..n
      <4>1. i \in DOMAIN instances /\ instances'[i] = instances[i]
        BY <2>5, <3>1
      <4>2. ASSUME NEW j \in 1..(n + 1), i # j PROVE instances'[i].startedAt # instances'[j].startedAt
        <5>1. CASE j \in 1..n
          BY <1>1, <2>5, <4>1, <4>2, <5>1
        <5>2. CASE j = n + 1
          BY <1>1, <2>1, <2>5, <2>6, <4>1, <5>2
        <5>3. QED
          BY <2>4, <5>1, <5>2
      <4>3. QED
        BY <1>1, <4>1, <4>2
    <3>2. CASE i = n + 1
      BY <1>1, <2>1, <2>5, <2>6, <3>2
    <3>3. QED
      BY <2>4, <3>1, <3>2
  <2>8. QED
    BY <1>1, <1>2, <2>1, <2>5, <2>7 DEF TimesApart
<1>6. CASE StartProcessInstance(w) \/ \E key \in Keys : StartProcessInstanceByKey(w, key)
  <2>1. clock' = clock /\ instances' = instances
    BY <1>6 DEF StartProcessInstance, StartProcessInstanceByKey
  <2>2. ~Uncommitted(w)'
    BY <1>6, StartingTyped
    DEF StartProcessInstance, StartProcessInstanceByKey, StartReturns, Uncommitted
  <2>3. QED
    BY <1>1, <1>2, <2>1, <2>2 DEF TimesApart
<1>7. QED
  BY <1>3, <1>4, <1>5, <1>6 DEF Starting

\* Nothing else changes times.
LEMMA TimesNext ==
  ASSUME TypeOK, TimesApart, [Next]_deploymentVars
  PROVE  TimesApart'
<1>1. CASE UNCHANGED <<instances, starting, clock>>
  BY <1>1, StepsApart DEF TimesApart, Uncommitted
<1>2. CASE \E w \in Starters : Starting(w)
  BY <1>2, StepsApart, TimesByStart DEF TimesApart
<1>3. QED
  BY <1>1, <1>2, StepsApart

\* and every step keeps RowsInv.
LEMMA RowsNext ==
  ASSUME RowsInv, [Next]_deploymentVars
  PROVE  RowsInv'
<1>1. TypeOK /\ TypeOK' /\ TimesApart'
  BY NextTyped, TimesNext DEF RowsInv
<1>2. ASSUME NEW w \in Deployers, NEW key \in Keys, DeployProcessDefinition(w, key)
      PROVE  RowsInv'
  <2>1. PICK content \in 1..(deploys + 1), version \in NextVersions(key) :
            definitions' = IF setup.memory
                           THEN {IF d.content = content THEN [d EXCEPT !.version = version] ELSE d : d \in definitions}
                           ELSE definitions
    BY <1>2 DEF DeployProcessDefinition
  <2>2. setup' = setup
    BY <1>2 DEF DeployProcessDefinition
  <2>3. CASE ~setup.memory
    BY <1>1, <2>1, <2>2, <2>3 DEF RowsInv
  <2>4. CASE setup.memory
    <3>1. PICK f : f = [d \in definitions |-> IF d.content = content THEN [d EXCEPT !.version = version] ELSE d]
      OBVIOUS
    <3>2. definitions' = {f[d] : d \in definitions}
      BY <2>1, <2>4, <3>1
    <3>3. f \in Surjection(definitions, definitions')
      BY <3>1, <3>2 DEF Surjection
    <3>4. IsFiniteSet(definitions')
      BY <3>3, FS_Surjection DEF RowsInv
    <3>5. QED
      BY <1>1, <2>2, <2>4, <3>4 DEF RowsInv
  <2>5. QED
    BY <2>3, <2>4
<1>3. ASSUME NEW w \in Deployers, CreateProcessDefinition(w)
      PROVE  RowsInv'
  <2>1. PICK new : new = [key |-> deploying[w].key, n |-> deploying[w].version,
                          version |-> deploying[w].version, content |-> deploying[w].content]
    OBVIOUS
  <2>2. setup' = setup
    BY <1>3 DEF CreateProcessDefinition
  <2>3. CASE definitions' = definitions
    BY <1>1, <2>2, <2>3 DEF RowsInv
  <2>4. CASE /\ GetProcessDefinition(new.key, new.version) = {}
             /\ definitions' = definitions \cup {new}
    <3>1. IsFiniteSet(definitions')
      BY <2>4, FS_AddElement DEF RowsInv
    <3>2. ~setup.memory => \A d \in definitions : ~(d.key = new.key /\ d.version = new.version)
      BY <2>4 DEF GetProcessDefinition, RowsInv
    <3>3. new.version = new.n
      BY <2>1
    <3>4. QED
      BY <1>1, <2>2, <2>4, <3>1, <3>2, <3>3 DEF RowsInv
  <2>5. QED
    BY <1>1, <1>3, <2>1, <2>3, <2>4, Created
<1>4. ASSUME NEW w \in Starters, Starting(w)
      PROVE  RowsInv'
  BY <1>1, <1>4
  DEF RowsInv, Starting, StartProcessInstanceByKey, StartProcessInstance, CreateProcessInstance,
      NavigateFromStart, CommitStart
<1>5. ASSUME NEW d \in definitions, DeleteProcessDefinition(d)
      PROVE  RowsInv'
  <2>1. setup' = setup /\ definitions' \subseteq definitions
    BY <1>5 DEF DeleteProcessDefinition
  <2>2. IsFiniteSet(definitions')
    BY <2>1, FS_Subset DEF RowsInv
  <2>3. QED
    BY <1>1, <2>1, <2>2 DEF RowsInv
<1>6. CASE UNCHANGED deploymentVars
  BY <1>1, <1>6 DEF deploymentVars, RowsInv
<1>7. QED
  BY <1>2, <1>3, <1>4, <1>5, <1>6 DEF Next, Deploying

\* What a query of an SQL store returns is the list of the rows that match.
LEMMA RowsList ==
  ASSUME RowsInv, ~setup.memory, NEW list \in {"definitions", "instances"}, NEW key,
         NEW rows \in Rows(list, key)
  PROVE  /\ IsFiniteSet(Matching(list, key))
         /\ Rank(list, Matching(list, key)) \in [Matching(list, key) -> Int]
         /\ Lists(rows, Matching(list, key), Rank(list, Matching(list, key)))
         /\ Len(rows) = Cardinality(Matching(list, key))
<1>1. CASE list = "definitions"
  <2>1. PICK M : M = {d \in definitions : d.key = key}
    OBVIOUS
  <2>2. M \subseteq definitions /\ IsFiniteSet(M)
    BY <2>1, FS_Subset DEF RowsInv
  <2>3. \A d \in M : d.version \in Int
    BY <2>2 DEF RowsInv, TypeOK, Stored, Version
  <2>4. PICK rank : rank = [d \in M |-> d.version]
    OBVIOUS
  <2>5. rows \in SetToSeqs(M) /\ \A i, j \in DOMAIN rows : i < j => rows[i].version >= rows[j].version
    BY <1>1, <2>1 DEF Rows, QueryDefinitions
  <2>6. /\ rows \in Seq(M)
        /\ Len(rows) = Cardinality(M)
        /\ \A d \in M : \E k \in 1..Len(rows) : rows[k] = d
        /\ \A i, j \in 1..Len(rows) : i # j => rows[i] # rows[j]
    BY <2>2, <2>5, SeqsOfSet
  <2>7. ASSUME NEW i \in 1..Len(rows), NEW j \in 1..Len(rows), i < j
        PROVE  rank[rows[i]] > rank[rows[j]]
    <3>1. rows[i] \in M /\ rows[j] \in M /\ rows[i] # rows[j]
      BY <2>6, <2>7
    <3>2. rows[i].version >= rows[j].version
      BY <2>5, <2>6, <2>7
    <3>3. rows[i].version # rows[j].version
      BY <2>1, <3>1 DEF RowsInv
    <3>4. QED
      BY <2>3, <2>4, <3>1, <3>2, <3>3
  <2>8. Lists(rows, M, rank)
    BY <2>6, <2>7 DEF Lists
  <2>9. M = Matching(list, key) /\ rank = Rank(list, Matching(list, key)) /\ rank \in [M -> Int]
    BY <1>1, <2>1, <2>3, <2>4 DEF Matching, Rank
  <2>10. QED
    BY <2>2, <2>6, <2>8, <2>9
<1>2. CASE list = "instances"
  <2>1. PICK M : M = InstancesOf(key)
    OBVIOUS
  <2>2. M \subseteq 1..Len(instances) /\ Len(instances) \in Nat
    BY <2>1 DEF InstancesOf, RowsInv, TypeOK
  <2>3. IsFiniteSet(M)
    <3>1. PICK n \in Int : n = Len(instances)
      BY <2>2
    <3>2. IsFiniteSet(1..n) /\ M \in SUBSET (1..n)
      BY <2>2, <3>1, FS_Interval
    <3>3. QED
      BY <3>2, FS_Subset
  <2>4. PICK rank : rank = [i \in M |-> instances[i].startedAt]
    OBVIOUS
  <2>5. /\ rows \in SetToSeqs(M)
        /\ \A i, j \in DOMAIN rows : i < j => instances[rows[i]].startedAt > instances[rows[j]].startedAt
    BY <1>2, <2>1 DEF Rows, QueryProcessInstances
  <2>6. /\ rows \in Seq(M)
        /\ Len(rows) = Cardinality(M)
        /\ \A d \in M : \E k \in 1..Len(rows) : rows[k] = d
    BY <2>3, <2>5, SeqsOfSet
  <2>7. \A i, j \in 1..Len(rows) : i < j => rank[rows[i]] > rank[rows[j]]
    BY <2>4, <2>5, <2>6
  <2>8. Lists(rows, M, rank)
    BY <2>6, <2>7 DEF Lists
  <2>9. M = Matching(list, key) /\ rank = Rank(list, Matching(list, key)) /\ rank \in [M -> Int]
    <3>1. \A i \in M : instances[i].startedAt \in Int
      BY <2>1, TimesTyped DEF InstancesOf, RowsInv
    <3>2. QED
      BY <1>2, <2>1, <2>4, <3>1 DEF Matching, Rank
  <2>10. QED
    BY <2>3, <2>6, <2>8, <2>9
<1>3. QED
  BY <1>1, <1>2

\* Without deletes rows only come, and keep their rank.
LEMMA MatchingGrows ==
  ASSUME RowsInv, Stable, [Next]_deploymentVars, NEW list, NEW key
  PROVE  /\ setup' = setup
         /\ Matching(list, key) \subseteq Matching(list, key)'
         /\ list # "definitions" =>
               \A i \in Matching(list, key) : instances'[i].startedAt = instances[i].startedAt
<1>1. setup' = setup
  BY StepsApart
<1>2. definitions \subseteq definitions'
  BY Created
  DEF RowsInv, Stable, Next, deploymentVars, Deploying, DeployProcessDefinition, DeleteProcessDefinition,
      Starting, StartProcessInstanceByKey, StartProcessInstance, CreateProcessInstance, NavigateFromStart,
      CommitStart
<1>3. \A i \in DOMAIN instances : i \in DOMAIN instances' /\ instances'[i] = instances[i]
  BY StepsApart, StartAdds DEF RowsInv
<1>4. InstancesOf(key) \subseteq InstancesOf(key)'
  BY <1>2, <1>3 DEF InstancesOf, GetProcessDefinition
<1>5. \A i \in InstancesOf(key) : instances'[i].startedAt = instances[i].startedAt
  BY <1>3 DEF InstancesOf
<1>6. QED
  BY <1>1, <1>2, <1>4, <1>5 DEF Matching

-----------------------------------------------------------------------------
(* The walk *)

Row == Stored \cup Nat

Walk == [pc : {"count", "select", "done"}, list : {"definitions", "instances"}, key : Keys,
         size : PageSizes, page : Nat \ {0}, total : Nat, got : Seq(Row), first : SUBSET Row, late : BOOLEAN]

\* The rows of the walk's list that are listed no later than d.
Ahead(d) ==
    LET M == Matching(walk.list, walk.key) IN UpTo(M, Rank(walk.list, M), d)

\* The rows there were at first are still there, and those that are listed
\* before the page the walk comes to next have been returned: new rows only push
\* others back, so that none can slip to an earlier page.
FrontReturned ==
    /\ walk.first \subseteq Matching(walk.list, walk.key)
    /\ walk.pc # "done" =>
          \A d \in walk.first :
             Cardinality(Ahead(d)) <= Skipped(walk.page, walk.size) => d \in ToSet(walk.got)

\* At the end nothing is missing, if sizes are positive and the total was right.
EndReturned ==
    (walk.pc = "done" /\ ~walk.late /\ walk.size >= 1) => walk.first \subseteq ToSet(walk.got)

WalkInv ==
    /\ RowsInv
    /\ (Stable /\ walk.pc # "none") => (walk \in Walk /\ FrontReturned /\ WalkHasNoGaps /\ EndReturned)

\* Nobody walks at first.
LEMMA WalkInit == ListInit => WalkInv
  BY RowsInit DEF ListInit, WalkInv

\* Rows of lists are definitions or the numbers of instances.
LEMMA MatchingTyped ==
  ASSUME RowsInv, NEW list, NEW key
  PROVE  Matching(list, key) \subseteq Row
  BY DEF Matching, InstancesOf, RowsInv, TypeOK, Row

\* The rows of two sequences, one after the other.
LEMMA ToSetConcat ==
  ASSUME NEW S, NEW s \in Seq(S), NEW t \in Seq(S)
  PROVE  ToSet(s \o t) = ToSet(s) \cup ToSet(t)
<1>1. /\ s \o t \in Seq(S) /\ Len(s \o t) = Len(s) + Len(t)
      /\ \A i \in 1..(Len(s) + Len(t)) : (s \o t)[i] = IF i <= Len(s) THEN s[i] ELSE t[i - Len(s)]
  OBVIOUS
<1>2. ToSet(s \o t) \subseteq ToSet(s) \cup ToSet(t)
  <2>1. SUFFICES ASSUME NEW i \in 1..(Len(s) + Len(t)) PROVE (s \o t)[i] \in ToSet(s) \cup ToSet(t)
    BY <1>1 DEF ToSet
  <2>2. CASE i <= Len(s)
    BY <1>1, <2>2 DEF ToSet
  <2>3. CASE i > Len(s)
    <3>1. i - Len(s) \in 1..Len(t) /\ (s \o t)[i] = t[i - Len(s)]
      BY <1>1, <2>3
    <3>2. QED
      BY <3>1 DEF ToSet
  <2>4. QED
    BY <2>2, <2>3
<1>3. ASSUME NEW i \in 1..Len(s) PROVE s[i] \in ToSet(s \o t)
  <2>1. i \in 1..Len(s \o t) /\ (s \o t)[i] = s[i]
    BY <1>1
  <2>2. QED
    BY <1>1, <2>1 DEF ToSet
<1>4. ASSUME NEW i \in 1..Len(t) PROVE t[i] \in ToSet(s \o t)
  <2>1. PICK j \in Nat : j = Len(s) + i
    OBVIOUS
  <2>2. j \in 1..(Len(s) + Len(t)) /\ ~(j <= Len(s)) /\ j - Len(s) = i
    BY <2>1
  <2>3. (s \o t)[j] = t[i]
    BY <1>1, <2>2
  <2>4. j \in DOMAIN (s \o t)
    BY <1>1, <2>2
  <2>5. QED
    BY <2>3, <2>4 DEF ToSet
<1>5. \A x \in ToSet(s) : \E i \in 1..Len(s) : x = s[i]
  BY DEF ToSet
<1>6. \A x \in ToSet(t) : \E i \in 1..Len(t) : x = t[i]
  BY DEF ToSet
<1>7. QED
  BY <1>2, <1>3, <1>4, <1>5, <1>6

\* The walk begins.
LEMMA ListStep ==
  ASSUME WalkInv, NEW list \in {"definitions", "instances"}, NEW key \in Keys, NEW size \in PageSizes,
         List(list, key, size)
  PROVE  WalkInv'
<1>1. UNCHANGED deploymentVars
  BY DEF List
<1>2. RowsInv'
  BY <1>1, RowsNext DEF WalkInv
<1>3. SUFFICES ASSUME Stable PROVE walk' \in Walk /\ FrontReturned' /\ WalkHasNoGaps' /\ EndReturned'
  BY <1>1, <1>2 DEF WalkInv, Stable, deploymentVars
<1>4. PICK rows \in Rows(list, key) :
         walk' = [pc |-> "count", list |-> list, key |-> key, size |-> size, page |-> 1,
                  total |-> 0, got |-> <<>>, first |-> ToSet(rows), late |-> FALSE]
  BY DEF List
<1>5. rows \in Seq(Matching(list, key))
  BY <1>3, RowsList DEF WalkInv, Stable, Lists
<1>6. ToSet(rows) \subseteq Matching(list, key)
  BY <1>5 DEF ToSet
<1>7. walk' \in Walk
  <2>1. ToSet(rows) \subseteq Row
    BY <1>6, MatchingTyped DEF WalkInv
  <2>2. QED
    BY <1>4, <2>1 DEF Walk
<1>8. Matching(list, key)' = Matching(list, key)
  BY <1>1 DEF deploymentVars, Matching, InstancesOf, GetProcessDefinition
<1>9. FrontReturned'
  <2>1. Skipped(1, size) = 0
    BY PagesFollow, PageSizesAssumption
  <2>2. ASSUME NEW d \in ToSet(rows)
        PROVE  ~(Cardinality(UpTo(Matching(list, key), Rank(list, Matching(list, key)), d)) <= 0)
    <3>1. PICK k \in 1..Len(rows) : rows[k] = d
      BY <1>5, <2>2 DEF ToSet
    <3>2. Cardinality(UpTo(Matching(list, key), Rank(list, Matching(list, key)), d)) = k
      BY <1>3, <3>1, RowsList, Place DEF WalkInv, Stable
    <3>3. QED
      BY <3>1, <3>2
  <2>3. walk'.page = 1 /\ walk'.size = size /\ walk'.first = ToSet(rows) /\ walk'.list = list /\ walk'.key = key
    BY <1>4
  <2>4. ASSUME NEW d PROVE Ahead(d)' = UpTo(Matching(list, key), Rank(list, Matching(list, key)), d)
    BY <1>1, <1>8, <2>3 DEF deploymentVars, Ahead, Rank
  <2>5. QED
    BY <1>6, <1>8, <2>1, <2>2, <2>3, <2>4 DEF FrontReturned
<1>10. WalkHasNoGaps' /\ EndReturned'
  BY <1>4 DEF WalkHasNoGaps, EndReturned, ToSet
<1>11. QED
  BY <1>7, <1>9, <1>10

\* Counting returns nothing.
LEMMA CountStep ==
  ASSUME WalkInv, Count
  PROVE  WalkInv'
<1>1. UNCHANGED deploymentVars
  BY DEF Count
<1>2. RowsInv'
  BY <1>1, RowsNext DEF WalkInv
<1>3. SUFFICES ASSUME Stable PROVE walk' \in Walk /\ FrontReturned' /\ WalkHasNoGaps' /\ EndReturned'
  BY <1>1, <1>2 DEF WalkInv, Stable, deploymentVars
<1>4. walk \in Walk /\ FrontReturned /\ WalkHasNoGaps /\ walk.pc = "count"
  BY <1>3 DEF WalkInv, Count
<1>5. PICK rows \in CurrentRows : walk' = [walk EXCEPT !.pc = "select", !.total = Len(rows)]
  BY DEF Count
<1>6. rows \in Seq(Matching(walk.list, walk.key))
  BY <1>3, <1>4, <1>5, RowsList DEF WalkInv, Stable, Lists, CurrentRows, Walk
<1>7. Len(rows) \in Nat
  BY <1>6
<1>8. walk' \in Walk
  BY <1>4, <1>5, <1>7 DEF Walk
<1>9. /\ walk'.pc = "select" /\ walk'.list = walk.list /\ walk'.key = walk.key /\ walk'.page = walk.page
      /\ walk'.size = walk.size /\ walk'.first = walk.first /\ walk'.got = walk.got
  BY <1>4, <1>5 DEF Walk
<1>10. Matching(walk.list, walk.key)' = Matching(walk.list, walk.key)
  BY <1>1, <1>9 DEF deploymentVars, Matching, InstancesOf, GetProcessDefinition
<1>11. FrontReturned'
  <2>1. ASSUME NEW d PROVE Ahead(d)' = Ahead(d)
    BY <1>1, <1>9, <1>10 DEF deploymentVars, Ahead, Rank
  <2>2. QED
    BY <1>4, <1>9, <1>10, <2>1 DEF FrontReturned
<1>12. WalkHasNoGaps' /\ EndReturned'
  BY <1>3, <1>4, <1>9 DEF WalkHasNoGaps, EndReturned
<1>13. QED
  BY <1>8, <1>11, <1>12

\* Reading a page returns the rows up to its end, and those of them that were
\* there at first and are not on it had been returned before.
LEMMA SelectStep ==
  ASSUME WalkInv, Select
  PROVE  WalkInv'
<1>1. UNCHANGED deploymentVars
  BY DEF Select
<1>2. RowsInv'
  BY <1>1, RowsNext DEF WalkInv
<1>3. SUFFICES ASSUME Stable PROVE walk' \in Walk /\ FrontReturned' /\ WalkHasNoGaps' /\ EndReturned'
  BY <1>1, <1>2 DEF WalkInv, Stable, deploymentVars
<1>4. walk \in Walk /\ FrontReturned /\ WalkHasNoGaps /\ walk.pc = "select"
  BY <1>3 DEF WalkInv, Select
<1>5. PICK rows \in CurrentRows : Turn(rows, walk.total)
  BY DEF Select
<1>6. PICK M, rank : M = Matching(walk.list, walk.key) /\ rank = Rank(walk.list, M)
  OBVIOUS
<1>7. rank \in [M -> Int] /\ Lists(rows, M, rank) /\ Len(rows) = Cardinality(M) /\ IsFiniteSet(M)
  BY <1>3, <1>4, <1>5, <1>6, RowsList DEF WalkInv, Stable, CurrentRows, Walk
<1>8. rows \in Seq(M) /\ M \subseteq Row
  BY <1>6, <1>7, MatchingTyped DEF Lists, WalkInv
<1>9. /\ walk.page \in Nat \ {0} /\ walk.size \in Int /\ walk.total \in Nat /\ walk.got \in Seq(Row)
      /\ walk.first \subseteq M
  BY <1>4, <1>6, PageSizesAssumption DEF Walk, FrontReturned
<1>10. PICK off \in Nat, lim \in Nat \ {0} : off = Skipped(walk.page, walk.size) /\ lim = Limit(walk.size)
  BY <1>9, PagesFollow
<1>11. PICK p : /\ p = IF walk.total = 0 THEN <<>> ELSE Page(rows, walk.page, walk.size)
                /\ p \in Seq(Row)
                /\ walk.total # 0 =>
                      /\ \A k \in 1..Len(rows) : (off < k /\ k <= off + lim) => rows[k] \in ToSet(p)
                      /\ \A g \in ToSet(p) : \E k \in 1..Len(rows) : k <= off + lim /\ rows[k] = g
  <2>1. rows \in Seq(Row) /\ lim \in Nat
    BY <1>8
  <2>2. PICK q : q = Slice(rows, off, lim)
    OBVIOUS
  <2>3. /\ q \in Seq(Row) /\ q = Page(rows, walk.page, walk.size)
        /\ \A k \in 1..Len(rows) : (off < k /\ k <= off + lim) => rows[k] \in ToSet(q)
        /\ \A g \in ToSet(q) : \E k \in 1..Len(rows) : k <= off + lim /\ rows[k] = g
    <3>1. Page(rows, walk.page, walk.size) = Slice(rows, off, lim)
      BY <1>9, <1>10, <2>1, PageSlice
    <3>2. Slice(rows, off, lim) \in Seq(Row)
      BY <2>1, SliceRows
    <3>3. \A k \in 1..Len(rows) : (off < k /\ k <= off + lim) => rows[k] \in ToSet(Slice(rows, off, lim))
      BY <2>1, SliceRows
    <3>4. \A g \in ToSet(Slice(rows, off, lim)) : \E k \in 1..Len(rows) : k <= off + lim /\ rows[k] = g
      BY <2>1, SliceRows
    <3>5. QED
      BY <2>2, <3>1, <3>2, <3>3, <3>4
  <2>4. <<>> \in Seq(Row)
    OBVIOUS
  <2>5. CASE walk.total = 0
    BY <2>4, <2>5
  <2>6. CASE walk.total # 0
    BY <2>3, <2>6
  <2>7. QED
    BY <2>5, <2>6
<1>12. DEFINE last == walk.page >= TotalPages(walk.total, Limit(walk.size))
<1>13. walk' = [walk EXCEPT !.pc = IF last THEN "done" ELSE "count",
                            !.page = IF last THEN @ ELSE @ + 1,
                            !.total = walk.total,
                            !.late = walk.total # Len(rows),
                            !.got = @ \o p]
  BY <1>5, <1>11 DEF Turn
<1>14. walk' \in Walk
  <2>1. walk.got \o p \in Seq(Row) /\ walk.page + 1 \in Nat \ {0}
    BY <1>9, <1>11
  <2>2. QED
    BY <1>4, <1>13, <2>1 DEF Walk
<1>15. /\ walk'.pc = IF last THEN "done" ELSE "count"
       /\ walk'.list = walk.list /\ walk'.key = walk.key /\ walk'.size = walk.size /\ walk'.first = walk.first
       /\ walk'.page = IF last THEN walk.page ELSE walk.page + 1
       /\ walk'.late = (walk.total # Len(rows))
       /\ walk'.got = walk.got \o p
  BY <1>4, <1>13 DEF Walk
<1>16. ToSet(walk'.got) = ToSet(walk.got) \cup ToSet(p)
  <2>1. PICK g \in Seq(Row) : g = walk.got
    BY <1>9
  <2>2. p \in Seq(Row)
    BY <1>11
  <2>3. ToSet(g \o p) = ToSet(g) \cup ToSet(p)
    BY <2>2, ToSetConcat, Zenon
  <2>4. QED
    BY <1>15, <2>1, <2>3
<1>17. M = Matching(walk.list, walk.key)' /\ rank = Rank(walk.list, M)'
  BY <1>1, <1>6, <1>15 DEF deploymentVars, Matching, InstancesOf, GetProcessDefinition, Rank
<1>18. CASE walk.total = 0
  <2>1. last
    <3>1. TotalPages(walk.total, Limit(walk.size)) = 0
      BY <1>10, <1>18, NoPages
    <3>2. QED
      BY <1>9, <3>1
  <2>2. ToSet(walk'.got) = ToSet(walk.got)
    <3>1. ToSet(<<>>) = {}
      BY DEF ToSet
    <3>2. p = <<>>
      BY <1>11, <1>18
    <3>3. QED
      BY <1>16, <3>1, <3>2
  <2>3. FrontReturned'
    BY <1>9, <1>15, <1>17, <2>1 DEF FrontReturned
  <2>4. WalkHasNoGaps'
    BY <1>3, <1>4, <1>15, <2>2 DEF WalkHasNoGaps
  <2>5. EndReturned'
    <3>1. walk'.late = FALSE => M = {}
      BY <1>7, <1>15, <1>18, FS_EmptySet
    <3>2. QED
      BY <1>9, <1>14, <1>15, <3>1 DEF EndReturned, Walk
  <2>6. QED
    BY <1>14, <2>3, <2>4, <2>5
<1>19. CASE walk.total # 0
  <2>1. /\ \A k \in 1..Len(rows) : (off < k /\ k <= off + lim) => rows[k] \in ToSet(p)
        /\ \A g \in ToSet(p) : \E k \in 1..Len(rows) : k <= off + lim /\ rows[k] = g
    BY <1>11, <1>19
  <2>2. ASSUME NEW j \in 1..Len(rows), rows[j] \in walk.first, j <= off + lim
        PROVE  rows[j] \in ToSet(walk'.got)
    <3>1. CASE j <= off
      <4>1. Cardinality(UpTo(M, rank, rows[j])) = j
        BY <1>7, Place
      <4>2. Ahead(rows[j]) = UpTo(M, rank, rows[j])
        BY <1>6 DEF Ahead
      <4>3. rows[j] \in ToSet(walk.got)
        BY <1>4, <1>10, <2>2, <3>1, <4>1, <4>2 DEF FrontReturned
      <4>4. QED
        BY <1>16, <4>3
    <3>2. CASE off < j
      BY <1>16, <2>1, <2>2, <3>2
    <3>3. QED
      BY <1>10, <3>1, <3>2
  <2>3. \A d \in walk.first : \E j \in 1..Len(rows) : rows[j] = d
    BY <1>7, <1>9 DEF Lists
  <2>4. ASSUME NEW d \in walk.first, Cardinality(UpTo(M, rank, d)) <= off + lim
        PROVE  d \in ToSet(walk'.got)
    <3>1. PICK j \in 1..Len(rows) : rows[j] = d
      BY <2>3
    <3>2. Cardinality(UpTo(M, rank, d)) = j
      BY <1>7, <3>1, Place
    <3>3. QED
      BY <2>2, <2>4, <3>1, <3>2
  <2>5. FrontReturned'
    <3>1. ASSUME ~last, NEW d \in walk.first,
                 Cardinality(UpTo(M, rank, d)) <= Skipped(walk.page + 1, walk.size)
          PROVE  d \in ToSet(walk'.got)
      <4>1. PICK j \in 1..Len(rows) : rows[j] = d
        BY <2>3
      <4>2. Cardinality(UpTo(M, rank, d)) = j
        BY <1>7, <4>1, Place
      <4>3. walk.page + 1 \in Nat \ {0}
        BY <1>9
      <4>4. Skipped(walk.page + 1, walk.size) \in Nat /\ Skipped(walk.page + 1, walk.size) <= off + lim
        BY <1>9, <1>10, <4>3, PagesFollow
      <4>5. QED
        BY <2>4, <3>1, <4>2, <4>4
    <3>2. QED
      BY <1>9, <1>15, <1>17, <3>1 DEF FrontReturned, Ahead
  <2>6. WalkHasNoGaps'
    <3>1. SUFFICES ASSUME walk.list = "definitions", NEW d \in walk.first,
                          NEW g \in ToSet(walk.got) \cup ToSet(p), g.version <= d.version
                   PROVE  d \in ToSet(walk'.got)
      BY <1>15, <1>16 DEF WalkHasNoGaps
    <3>2. CASE g \in ToSet(walk.got)
      BY <1>3, <1>4, <1>16, <3>1, <3>2 DEF WalkHasNoGaps
    <3>3. CASE g \in ToSet(p)
      <4>1. PICK k \in 1..Len(rows) : k <= off + lim /\ rows[k] = g
        BY <2>1, <3>3
      <4>2. PICK j \in 1..Len(rows) : rows[j] = d
        BY <2>3
      <4>3. rank[rows[k]] = g.version /\ rank[rows[j]] = d.version /\ rank[rows[k]] \in Int /\ rank[rows[j]] \in Int
        BY <1>6, <1>7, <1>8, <3>1, <4>1, <4>2 DEF Rank
      <4>4. ~(k < j)
        BY <1>7, <3>1, <4>3 DEF Lists
      <4>5. j <= off + lim
        BY <1>10, <4>1, <4>4
      <4>6. QED
        BY <2>2, <4>2, <4>5
    <3>4. QED
      BY <3>1, <3>2, <3>3
  <2>7. EndReturned'
    <3>1. SUFFICES ASSUME last, walk.total = Len(rows), walk.size >= 1, NEW d \in walk.first
                   PROVE  d \in ToSet(walk'.got)
      BY <1>14, <1>15 DEF EndReturned, Walk
    <3>2. off + lim = walk.page * walk.size /\ lim = walk.size
      <4>1. lim = walk.size
        BY <1>9, <1>10, <3>1 DEF Limit
      <4>2. QED
        BY <1>9, <1>10, <3>1, <4>1, PagesFollow
    <3>3. Len(rows) <= walk.page * walk.size
      BY <1>9, <1>10, <3>1, <3>2, LastPage
    <3>4. PICK j \in 1..Len(rows) : rows[j] = d
      BY <2>3
    <3>5. j <= off + lim
      BY <1>10, <3>2, <3>3
    <3>6. QED
      BY <2>2, <3>4, <3>5
  <2>8. QED
    BY <1>14, <2>5, <2>6, <2>7
<1>20. QED
  BY <1>18, <1>19

\* What others do while the walk waits can only move rows back.
LEMMA OthersStep ==
  ASSUME WalkInv, [Next]_deploymentVars, UNCHANGED walk
  PROVE  WalkInv'
<1>1. RowsInv'
  BY RowsNext DEF WalkInv
<1>2. setup' = setup
  BY StepsApart
<1>3. SUFFICES ASSUME Stable, walk.pc # "none" PROVE walk' \in Walk /\ FrontReturned' /\ WalkHasNoGaps' /\ EndReturned'
  BY <1>1, <1>2 DEF WalkInv, Stable
<1>4. walk \in Walk /\ FrontReturned /\ WalkHasNoGaps /\ EndReturned
  BY <1>3 DEF WalkInv
<1>5. PICK list, key : list = walk.list /\ key = walk.key
  OBVIOUS
<1>6. PICK M, N, r, t : /\ M = Matching(list, key) /\ N = Matching(list, key)'
                        /\ r = Rank(list, M) /\ t = Rank(list, N)'
  OBVIOUS
<1>7. M \subseteq N /\ \A e \in M : r[e] = t[e]
  BY <1>3, <1>6, MatchingGrows DEF WalkInv, Rank
<1>8. IsFiniteSet(N)
  <2>1. CASE list = "definitions"
    <3>1. N \subseteq definitions'
      BY <1>6, <2>1 DEF Matching
    <3>2. QED
      BY <1>1, <3>1, FS_Subset DEF RowsInv
  <2>2. CASE list # "definitions"
    <3>1. PICK n \in Int : n = Len(instances') /\ DOMAIN instances' = 1..n
      BY <1>1 DEF RowsInv, TypeOK
    <3>2. IsFiniteSet(1..n) /\ N \in SUBSET (1..n)
      BY <1>6, <2>2, <3>1, FS_Interval DEF Matching, InstancesOf
    <3>3. QED
      BY <3>2, FS_Subset
  <2>3. QED
    BY <2>1, <2>2
<1>9. ASSUME NEW d \in walk.first
      PROVE  Cardinality(UpTo(M, r, d)) <= Cardinality(UpTo(N, t, d))
  <2>1. d \in M
    BY <1>4, <1>5, <1>6 DEF FrontReturned
  <2>2. UpTo(M, r, d) \subseteq UpTo(N, t, d)
    BY <1>7, <2>1 DEF UpTo
  <2>3. IsFiniteSet(UpTo(N, t, d))
    BY <1>8, FS_Subset DEF UpTo
  <2>4. QED
    BY <2>2, <2>3, FS_Subset
<1>10. FrontReturned'
  <2>1. walk'.first \subseteq N
    BY <1>4, <1>5, <1>6, <1>7 DEF FrontReturned
  <2>2. ASSUME walk.pc # "done", NEW d \in walk.first,
               Cardinality(UpTo(N, t, d)) <= Skipped(walk.page, walk.size)
        PROVE  d \in ToSet(walk.got)
    <3>1. IsFiniteSet(UpTo(N, t, d)) /\ IsFiniteSet(UpTo(M, r, d))
      <4>1. UpTo(N, t, d) \in SUBSET N /\ UpTo(M, r, d) \in SUBSET N
        BY <1>7 DEF UpTo
      <4>2. QED
        BY <1>8, <4>1, FS_Subset
    <3>2. /\ Cardinality(UpTo(N, t, d)) \in Nat
          /\ Cardinality(UpTo(M, r, d)) \in Nat
      BY <3>1, FS_CardinalityType
    <3>3. Skipped(walk.page, walk.size) \in Nat
      BY <1>4, PagesFollow, PageSizesAssumption DEF Walk
    <3>4. Cardinality(UpTo(M, r, d)) <= Skipped(walk.page, walk.size)
      BY <1>9, <2>2, <3>2, <3>3
    <3>5. Ahead(d) = UpTo(M, r, d)
      BY <1>5, <1>6 DEF Ahead
    <3>6. QED
      BY <1>4, <2>2, <3>4, <3>5 DEF FrontReturned
  <2>3. Matching(walk.list, walk.key)' = N
    BY <1>5, <1>6 DEF Matching, InstancesOf, GetProcessDefinition
  <2>4. ASSUME NEW d PROVE Ahead(d)' = UpTo(N, t, d)
    BY <1>5, <1>6, <2>3 DEF Ahead, Rank
  <2>5. QED
    BY <1>5, <2>1, <2>2, <2>3, <2>4 DEF FrontReturned
<1>11. walk' \in Walk /\ WalkHasNoGaps' /\ EndReturned'
  BY <1>2, <1>4 DEF WalkHasNoGaps, EndReturned, Stable
<1>12. QED
  BY <1>10, <1>11

\* Query is a step of the store in memory, of which nothing is claimed.
LEMMA QueryStep ==
  ASSUME WalkInv, Query
  PROVE  WalkInv'
<1>1. UNCHANGED deploymentVars /\ setup.memory
  BY DEF Query
<1>2. RowsInv'
  BY <1>1, RowsNext DEF WalkInv
<1>3. QED
  BY <1>1, <1>2 DEF WalkInv, Stable, deploymentVars

\* Every step keeps WalkInv.
LEMMA WalkNext == WalkInv /\ [ListNext]_vars => WalkInv'
<1> SUFFICES ASSUME WalkInv, [ListNext]_vars PROVE WalkInv'
  OBVIOUS
<1>1. CASE UNCHANGED vars
  BY <1>1, OthersStep DEF vars
<1>2. CASE Next /\ UNCHANGED walk
  BY <1>2, OthersStep
<1>3. CASE Walking
  BY <1>3, ListStep, CountStep, SelectStep, QueryStep DEF Walking
<1>4. QED
  BY <1>1, <1>2, <1>3 DEF ListNext

\* Whatever is deployed between two pages, and whatever page size the client
\* asks for, a walk over the definitions of an SQL store from which nothing is
\* deleted leaves no gap among the rows there were when it began.
THEOREM WalksHaveNoGaps == ListSpec => []WalkHasNoGaps
<1>1. WalkInv => WalkHasNoGaps
  BY DEF WalkInv, WalkHasNoGaps
<1>2. QED
  BY <1>1, WalkInit, WalkNext, PTL DEF ListSpec

\* Clients ask for at least one row at a time.
SizesPositive == \A size \in PageSizes : size >= 1

\* If clients ask for at least one row at a time, a walk over definitions or
\* instances that has come to its end has returned every row there was when it
\* began, unless rows came between the last count and the last page.
THEOREM WalksMissNothing ==
  ASSUME SizesPositive
  PROVE  ListSpec => []WalkMissesNothing
<1>1. WalkInv => WalkMissesNothing
  BY DEF WalkInv, WalkMissesNothing, EndReturned, Walk, SizesPositive
<1>2. QED
  BY <1>1, WalkInit, WalkNext, PTL DEF ListSpec
=============================================================================
