-------------------------- MODULE UserListingProofs --------------------------
(***************************************************************************)
(* Proofs about UserListing, for any set of users, any whole pageSize and   *)
(* any number of changes.                                                  *)
(***************************************************************************)
EXTENDS UserListing, FiniteSetTheorems, SequenceTheorems, TLAPS

(***************************************************************************)
(* Sequences.                                                              *)
(***************************************************************************)

LEMMA MinOfTwo ==
    ASSUME NEW a \in Int, NEW b \in Int
    PROVE  Min({a, b}) = IF a <= b THEN a ELSE b
<1>1. \E x \in {a, b} : \A y \in {a, b} : x <= y
    OBVIOUS
<1>2. Min({a, b}) \in {a, b} /\ \A y \in {a, b} : Min({a, b}) <= y
    BY <1>1 DEF Min
<1> QED
    BY <1>2

\* What InsertAt puts where.
LEMMA Inserted ==
    ASSUME NEW S, NEW s \in Seq(S), NEW e \in S, NEW i \in 1..(Len(s) + 1)
    PROVE  /\ InsertAt(s, i, e) \in Seq(S)
           /\ Len(InsertAt(s, i, e)) = Len(s) + 1
           /\ \A k \in 1..(Len(s) + 1) :
                 InsertAt(s, i, e)[k] = IF k < i THEN s[k] ELSE IF k = i THEN e ELSE s[k - 1]
<1> DEFINE front == SubSeq(s, 1, i - 1)
           back == SubSeq(s, i, Len(s))
<1>1. front \in Seq(S) /\ Len(front) = i - 1 /\ \A k \in 1..(i - 1) : front[k] = s[k]
    OBVIOUS
<1>2. /\ back \in Seq(S) /\ Len(back) = Len(s) - i + 1
      /\ \A k \in 1..(Len(s) - i + 1) : back[k] = s[i + k - 1]
    OBVIOUS
<1>3. InsertAt(s, i, e) = (front \o <<e>>) \o back
    BY DEF InsertAt
<1> HIDE DEF front, back
<1>4. /\ front \o <<e>> \in Seq(S) /\ Len(front \o <<e>>) = i
      /\ \A k \in 1..i : (front \o <<e>>)[k] = IF k < i THEN s[k] ELSE e
    BY <1>1
<1> DEFINE left == front \o <<e>>
<1>5. left \in Seq(S) /\ Len(left) = i /\ \A k \in 1..i : left[k] = IF k < i THEN s[k] ELSE e
    BY <1>4
<1> HIDE DEF left
<1>6. left \o back \in Seq(S) /\ Len(left \o back) = Len(s) + 1
    BY <1>2, <1>5
<1>7. ASSUME NEW k \in 1..(Len(s) + 1)
      PROVE  (left \o back)[k] = IF k < i THEN s[k] ELSE IF k = i THEN e ELSE s[k - 1]
    <2>1. CASE k <= i
        BY <1>2, <1>5, <2>1
    <2>2. CASE k > i
        <3>1. (left \o back)[k] = back[k - i]
            BY <1>2, <1>5, <2>2
        <3>2. back[k - i] = s[i + (k - i) - 1]
            BY <1>2, <2>2
        <3> QED
            BY <3>1, <3>2, <2>2
    <2>3. k <= i \/ k > i
        OBVIOUS
    <2> QED
        BY <2>1, <2>2, <2>3
<1> QED
    BY <1>3, <1>6, <1>7 DEF left

\* What RemoveAt leaves where.
LEMMA Removed ==
    ASSUME NEW S, NEW s \in Seq(S), NEW i \in 1..Len(s)
    PROVE  /\ RemoveAt(s, i) \in Seq(S)
           /\ Len(RemoveAt(s, i)) = Len(s) - 1
           /\ \A k \in 1..(Len(s) - 1) :
                 RemoveAt(s, i)[k] = IF k < i THEN s[k] ELSE s[k + 1]
<1> DEFINE front == SubSeq(s, 1, i - 1)
           back == SubSeq(s, i + 1, Len(s))
<1>1. front \in Seq(S) /\ Len(front) = i - 1 /\ \A k \in 1..(i - 1) : front[k] = s[k]
    OBVIOUS
<1>2. /\ back \in Seq(S) /\ Len(back) = Len(s) - i
      /\ \A k \in 1..(Len(s) - i) : back[k] = s[i + k]
    OBVIOUS
<1>3. RemoveAt(s, i) = front \o back
    BY DEF RemoveAt
<1> HIDE DEF front, back
<1>4. front \o back \in Seq(S) /\ Len(front \o back) = Len(s) - 1
    BY <1>1, <1>2
<1>5. ASSUME NEW k \in 1..(Len(s) - 1)
      PROVE  (front \o back)[k] = IF k < i THEN s[k] ELSE s[k + 1]
    <2>1. CASE k < i
        BY <1>1, <1>2, <2>1
    <2>2. CASE k >= i
        <3>1. (front \o back)[k] = back[k - (i - 1)]
            BY <1>1, <1>2, <2>2
        <3>2. back[k - (i - 1)] = s[i + (k - (i - 1))]
            BY <1>2, <2>2
        <3> QED
            BY <3>1, <3>2, <2>2
    <2>3. k < i \/ k >= i
        OBVIOUS
    <2> QED
        BY <2>1, <2>2, <2>3
<1> QED
    BY <1>3, <1>4, <1>5

(***************************************************************************)
(* The table.                                                              *)
(***************************************************************************)

\* A table that lists nobody twice.
Table(s) == s \in Seq(Users) /\ IsInjective(s)

LEMMA TableInserted ==
    ASSUME NEW s, Table(s), NEW u \in Users, u \notin ToSet(s), NEW i \in 1..(Len(s) + 1)
    PROVE  Table(InsertAt(s, i, u)) /\ ToSet(InsertAt(s, i, u)) = ToSet(s) \cup {u}
<1> DEFINE t == InsertAt(s, i, u)
<1>1. s \in Seq(Users) /\ DOMAIN s = 1..Len(s) /\ Len(s) \in Nat
    BY DEF Table
<1>2. /\ t \in Seq(Users) /\ Len(t) = Len(s) + 1
      /\ \A k \in 1..(Len(s) + 1) : t[k] = IF k < i THEN s[k] ELSE IF k = i THEN u ELSE s[k - 1]
    BY <1>1, Inserted
<1>3. DOMAIN t = 1..(Len(s) + 1)
    BY <1>2
<1>4. \A k \in 1..Len(s) : s[k] # u /\ s[k] \in ToSet(s)
    BY <1>1 DEF ToSet
<1> HIDE DEF t
<1>5. IsInjective(t)
    <2> SUFFICES ASSUME NEW a \in 1..(Len(s) + 1), NEW b \in 1..(Len(s) + 1), t[a] = t[b]
                 PROVE  a = b
        BY <1>3 DEF IsInjective
    <2> DEFINE p(k) == IF k < i THEN k ELSE k - 1
    <2>1. CASE a = i \/ b = i
        <3>1. ASSUME NEW k \in 1..(Len(s) + 1), k # i
              PROVE  t[k] # u
            <4>1. p(k) \in 1..Len(s) /\ t[k] = s[p(k)]
                BY <1>1, <1>2, <3>1
            <4> QED
                BY <1>4, <4>1
        <3>2. t[i] = u
            BY <1>1, <1>2
        <3> QED
            BY <2>1, <3>1, <3>2
    <2>2. CASE a # i /\ b # i
        <3>1. p(a) \in 1..Len(s) /\ p(b) \in 1..Len(s)
            BY <1>1, <2>2
        <3>2. t[a] = s[p(a)] /\ t[b] = s[p(b)]
            BY <1>1, <1>2, <2>2
        <3>3. p(a) = p(b)
            BY <1>1, <3>1, <3>2 DEF Table, IsInjective
        <3> QED
            BY <1>1, <2>2, <3>3
    <2> QED
        BY <2>1, <2>2
<1>6. ToSet(t) = ToSet(s) \cup {u}
    <2>1. ASSUME NEW k \in 1..(Len(s) + 1)
          PROVE  t[k] \in ToSet(s) \cup {u}
        <3>1. k < i => k \in 1..Len(s)
            BY <1>1
        <3>2. k > i => k - 1 \in 1..Len(s)
            BY <1>1
        <3>3. k < i \/ k = i \/ k > i
            BY <1>1
        <3> QED
            BY <1>1, <1>2, <1>4, <3>1, <3>2, <3>3
    <2>2. ASSUME NEW k \in 1..Len(s)
          PROVE  \E m \in 1..(Len(s) + 1) : t[m] = s[k]
        <3>1. CASE k < i
            <4>1. k \in 1..(Len(s) + 1) /\ t[k] = s[k]
                BY <1>1, <1>2, <3>1
            <4> QED
                BY <4>1
        <3>2. CASE k >= i
            <4>1. k + 1 \in 1..(Len(s) + 1) /\ t[k + 1] = s[(k + 1) - 1]
                BY <1>1, <1>2, <3>2
            <4>2. (k + 1) - 1 = k
                BY <1>1
            <4> QED
                BY <4>1, <4>2
        <3> QED
            BY <1>1, <3>1, <3>2
    <2>3. t[i] = u
        BY <1>1, <1>2
    <2> QED
        BY <1>1, <1>3, <2>1, <2>2, <2>3 DEF ToSet
<1> QED
    BY <1>2, <1>5, <1>6 DEF Table, t

LEMMA TableRemoved ==
    ASSUME NEW s, Table(s), NEW i \in 1..Len(s)
    PROVE  Table(RemoveAt(s, i)) /\ ToSet(RemoveAt(s, i)) = ToSet(s) \ {s[i]}
<1> DEFINE t == RemoveAt(s, i)
<1>1. s \in Seq(Users) /\ DOMAIN s = 1..Len(s) /\ Len(s) \in Nat
    BY DEF Table
<1>2. /\ t \in Seq(Users) /\ Len(t) = Len(s) - 1
      /\ \A k \in 1..(Len(s) - 1) : t[k] = IF k < i THEN s[k] ELSE s[k + 1]
    BY <1>1, Removed
<1>3. DOMAIN t = 1..(Len(s) - 1)
    BY <1>2
<1>4. \A a, b \in 1..Len(s) : s[a] = s[b] => a = b
    BY <1>1 DEF Table, IsInjective
<1> HIDE DEF t
<1> DEFINE p(k) == IF k < i THEN k ELSE k + 1
<1>5. \A k \in 1..(Len(s) - 1) : p(k) \in 1..Len(s) /\ p(k) # i /\ t[k] = s[p(k)]
    BY <1>1, <1>2
<1>6. IsInjective(t)
    <2> SUFFICES ASSUME NEW a \in 1..(Len(s) - 1), NEW b \in 1..(Len(s) - 1), t[a] = t[b]
                 PROVE  a = b
        BY <1>3 DEF IsInjective
    <2>1. p(a) = p(b)
        BY <1>4, <1>5
    <2> QED
        BY <1>1, <2>1
<1>7. ToSet(t) = ToSet(s) \ {s[i]}
    <2>1. ASSUME NEW k \in 1..(Len(s) - 1)
          PROVE  \E m \in 1..Len(s) : t[k] = s[m] /\ s[m] # s[i]
        BY <1>4, <1>5
    <2>2. ASSUME NEW k \in 1..Len(s), s[k] # s[i]
          PROVE  \E m \in 1..(Len(s) - 1) : t[m] = s[k]
        <3>1. CASE k < i
            <4>1. k \in 1..(Len(s) - 1) /\ t[k] = s[k]
                BY <1>1, <1>2, <3>1
            <4> QED
                BY <4>1
        <3>2. CASE k > i
            <4>1. k - 1 \in 1..(Len(s) - 1) /\ t[k - 1] = s[(k - 1) + 1]
                BY <1>1, <1>2, <3>2
            <4>2. (k - 1) + 1 = k
                BY <1>1
            <4> QED
                BY <4>1, <4>2
        <3>3. k # i
            BY <2>2
        <3> QED
            BY <1>1, <3>1, <3>2, <3>3
    <2>3. ToSet(s) = {s[m] : m \in 1..Len(s)} /\ ToSet(t) = {t[m] : m \in 1..(Len(s) - 1)}
        BY <1>1, <1>3 DEF ToSet
    <2>4. \A x : x \in ToSet(t) <=> x \in ToSet(s) /\ x # s[i]
        BY <2>1, <2>2, <2>3, Zenon
    <2> QED
        BY <2>4, Zenon
<1> QED
    BY <1>2, <1>6, <1>7 DEF Table, t

LEMMA TableMoved ==
    ASSUME NEW s, Table(s), NEW i \in 1..Len(s), NEW j \in 1..Len(s)
    PROVE  /\ Table(InsertAt(RemoveAt(s, i), j, s[i]))
           /\ ToSet(InsertAt(RemoveAt(s, i), j, s[i])) = ToSet(s)
<1> DEFINE t == RemoveAt(s, i)
<1>1. s \in Seq(Users) /\ DOMAIN s = 1..Len(s) /\ s[i] \in Users /\ s[i] \in ToSet(s)
    BY DEF Table, ToSet
<1>2. Table(t) /\ ToSet(t) = ToSet(s) \ {s[i]}
    BY TableRemoved
<1>3. Len(t) = Len(s) - 1
    BY <1>1, Removed
<1> HIDE DEF t
<1>4. /\ Table(InsertAt(t, j, s[i]))
      /\ ToSet(InsertAt(t, j, s[i])) = ToSet(t) \cup {s[i]}
    <2>1. j \in 1..(Len(t) + 1)
        BY <1>1, <1>3
    <2> QED
        BY <1>1, <1>2, <2>1, TableInserted
<1> QED
    BY <1>1, <1>2, <1>4 DEF t

(***************************************************************************)
(* The page.                                                               *)
(***************************************************************************)

LEMMA SkipNat ==
    ASSUME NEW p \in Nat \ {0}
    PROVE  Skip(p) \in Nat
<1>1. p - 1 \in Nat /\ PageSize \in Nat
    BY PageSizeAssumption
<1>2. \A a, b \in Nat : a * b \in Nat
    OBVIOUS
<1> QED
    BY <1>1, <1>2 DEF Skip

\* A page has no more users than asked for, and one that ends the table tells how
\* many it has.
LEMMA PageRead ==
    ASSUME table \in Seq(Users), NEW p \in Nat \ {0}
    PROVE  /\ PageOf(p) \in Seq(Users)
           /\ Len(PageOf(p)) <= PageSize
           /\ EndsTable(PageOf(p), p) => Skip(p) + Len(PageOf(p)) = Len(table)
<1> DEFINE k == Skip(p)
           m == Min({k + PageSize, Len(table)})
           rows == PageOf(p)
           ends == EndsTable(rows, p)
<1>1. k \in Nat /\ PageSize \in Nat /\ PageSize > 0 /\ Len(table) \in Nat
    BY SkipNat, PageSizeAssumption
<1>2. rows = SubSeq(table, k + 1, m)
    BY DEF PageOf
<1>3. ends => Len(rows) < PageSize /\ (rows # <<>> \/ k = 0)
    BY DEF EndsTable
<1> HIDE DEF k, rows, ends
<1>4. m = IF k + PageSize <= Len(table) THEN k + PageSize ELSE Len(table)
    BY <1>1, MinOfTwo
<1> HIDE DEF m
<1>5. m \in Nat /\ m <= Len(table)
    BY <1>1, <1>4
<1>6. rows \in Seq(Users) /\ Len(rows) <= PageSize /\ (ends => k + Len(rows) = Len(table))
    <2>1. CASE k + 1 <= m
        <3>1. rows \in Seq(Users) /\ Len(rows) = m - k
            BY <1>1, <1>2, <1>5, <2>1
        <3> QED
            BY <1>1, <1>3, <1>4, <1>5, <3>1, <2>1
    <2>2. CASE m < k + 1
        <3>1. rows = <<>>
            BY <1>1, <1>2, <1>5, <2>2, SubSeqEmpty
        <3>2. k = 0 => Len(table) = 0
            BY <1>1, <1>4, <2>2
        <3> QED
            BY <1>1, <1>3, <3>1, <3>2
    <2> QED
        BY <1>1, <1>5, <2>1, <2>2
<1> QED
    BY <1>6 DEF k, rows, ends

(***************************************************************************)
(* The invariant.                                                          *)
(***************************************************************************)

\* While getUserList waits for its count, the size of the table is among those a
\* count may give.
SizesCurrent == phase = "count" => Len(table) \in sizes

IInv == TypeOK /\ SizesCurrent /\ TotalWasTrue

LEMMA Initially == Init => IInv
<1> SUFFICES ASSUME Init
             PROVE  IInv
    OBVIOUS
<1>1. table \in Seq(Users) /\ IsInjective(table)
    BY DEF Init, SeqOf
<1> QED
    BY <1>1, PageSizeAssumption DEF Init, IInv, TypeOK, SizesCurrent, TotalWasTrue

LEMMA ChangeKept ==
    ASSUME IInv, NEW t, Table(t), Changed(t), stayed' \subseteq ToSet(t),
           added' \in Nat, removed' \in Nat, moved' \in Nat
    PROVE  IInv'
<1>1. table' = t /\ table' \in Seq(Users) /\ IsInjective(table') /\ Live' = ToSet(t)
    BY DEF Changed, Table, Live
<1>2. Len(t) \in Nat
    BY DEF Table
<1>3. TypeOK'
    BY <1>1, <1>2 DEF IInv, TypeOK, Changed, answer
<1>4. SizesCurrent'
    BY <1>1 DEF SizesCurrent, Changed
<1>5. TotalWasTrue'
    BY DEF IInv, TotalWasTrue, Changed, answer
<1> QED
    BY <1>3, <1>4, <1>5 DEF IInv

LEMMA Stepwise == IInv /\ [Next]_vars => IInv'
<1> SUFFICES ASSUME IInv, [Next]_vars
             PROVE  IInv'
    OBVIOUS
<1> USE DEF IInv
<1>1. /\ Table(table) /\ Live = ToSet(table) /\ Len(table) \in Nat
      /\ DOMAIN table = 1..Len(table) /\ stayed \subseteq ToSet(table)
      /\ added \in Nat /\ removed \in Nat /\ moved \in Nat
    BY DEF TypeOK, Table, Live
<1>2. CASE Begin
    BY <1>2 DEF Begin, TypeOK, SizesCurrent, TotalWasTrue, Live, answer
<1>3. CASE NextPage
    BY <1>3 DEF NextPage, TypeOK, SizesCurrent, TotalWasTrue, Live, answer, walk, changes
<1>4. CASE Retry \/ Fail
    BY <1>4 DEF Retry, Fail, TypeOK, SizesCurrent, TotalWasTrue, Live, answer, walk, changes
<1>5. CASE SelectPage
    <2>1. /\ list' \in Seq(Users) /\ Len(list') <= PageSize /\ Skip(page) \in Nat
          /\ EndsTable(list', page) => Skip(page) + Len(list') = Len(table)
        BY <1>5, PageRead, SkipNat DEF SelectPage, TypeOK
    <2>2. total' \in Nat /\ (phase' = "reply" => total' \in sizes')
          /\ phase' \in {"reply", "count"} /\ sizes' = {Len(table)} /\ table' = table
        <3>1. CASE EndsTable(list', page)
            BY <1>1, <1>5, <2>1, <3>1 DEF SelectPage
        <3>2. CASE ~EndsTable(list', page)
            BY <1>5, <3>2 DEF SelectPage, TypeOK
        <3> QED
            BY <3>1, <3>2
    <2> QED
        BY <1>1, <1>5, <2>1, <2>2 DEF SelectPage, TypeOK, SizesCurrent, TotalWasTrue, Live,
                                      walk, changes
<1>6. CASE CountUsers
    BY <1>1, <1>6 DEF CountUsers, TypeOK, SizesCurrent, TotalWasTrue, Live, walk, changes
<1>7. CASE Reply
    <2>1. listed' \in [Users -> Nat]
        BY <1>7 DEF Reply, TypeOK
    <2>2. phase' \in {"next", "done"}
        BY <1>7 DEF Reply
    <2> QED
        BY <1>7, <2>1, <2>2 DEF Reply, TypeOK, SizesCurrent, TotalWasTrue, Live,
                                answer, changes
<1>8. ASSUME NEW u \in Users, NEW i \in 1..(Len(table) + 1), AddUser(u, i)
      PROVE  IInv'
    <2>1. /\ Table(InsertAt(table, i, u)) /\ stayed' \subseteq ToSet(InsertAt(table, i, u))
        BY <1>1, <1>8, TableInserted DEF AddUser
    <2>2. Changed(InsertAt(table, i, u))
          /\ added' \in Nat /\ removed' \in Nat /\ moved' \in Nat
        BY <1>1, <1>8 DEF AddUser
    <2> QED
        BY <2>1, <2>2, ChangeKept
<1>9. ASSUME NEW i \in DOMAIN table, RemoveUser(i)
      PROVE  IInv'
    <2>1. Table(RemoveAt(table, i)) /\ stayed' \subseteq ToSet(RemoveAt(table, i))
        BY <1>1, <1>9, TableRemoved DEF RemoveUser
    <2>2. Changed(RemoveAt(table, i))
          /\ added' \in Nat /\ removed' \in Nat /\ moved' \in Nat
        BY <1>1, <1>9 DEF RemoveUser
    <2> QED
        BY <2>1, <2>2, ChangeKept
<1>10. ASSUME NEW i \in DOMAIN table, NEW j \in DOMAIN table, MoveUser(i, j)
      PROVE  IInv'
    <2> DEFINE t == InsertAt(RemoveAt(table, i), j, table[i])
    <2>1. Table(t) /\ stayed' \subseteq ToSet(t)
        BY <1>1, <1>10, TableMoved DEF MoveUser
    <2>2. Changed(t) /\ added' \in Nat /\ removed' \in Nat /\ moved' \in Nat
        BY <1>1, <1>10 DEF MoveUser
    <2> QED
        BY <2>1, <2>2, ChangeKept
<1>11. CASE UNCHANGED vars
    BY <1>11 DEF vars, TypeOK, SizesCurrent, TotalWasTrue, Live, answer, walk, changes
<1> QED
    BY <1>2, <1>3, <1>4, <1>5, <1>6, <1>7, <1>8, <1>9, <1>10, <1>11 DEF Next

LEMMA Invariant == Spec => []IInv
<1> QED
    BY Initially, Stepwise, PTL DEF Spec

(***************************************************************************)
(* Counting.                                                               *)
(***************************************************************************)

Bounded(S, n) == IsFiniteSet(S) /\ Cardinality(S) <= n

\* T has at most the elements of S and n more; n is 0 or 1 here.
Grows(T, S, n) == T \subseteq S \/ (n > 0 /\ \E x : T \subseteq S \cup {x})

LEMMA BoundedGrows ==
    ASSUME NEW S, NEW T, NEW m \in Int, NEW n \in Nat, Bounded(S, m), Grows(T, S, n)
    PROVE  Bounded(T, m + n)
<1>1. IsFiniteSet(S) /\ Cardinality(S) \in Nat /\ Cardinality(S) <= m
    BY FS_CardinalityType DEF Bounded
<1>2. CASE T \subseteq S
    <2>1. IsFiniteSet(T) /\ Cardinality(T) <= Cardinality(S)
        BY <1>1, <1>2, FS_Subset
    <2>2. Cardinality(T) \in Nat
        BY <2>1, FS_CardinalityType
    <2> QED
        BY <1>1, <2>1, <2>2 DEF Bounded
<1>3. ASSUME n > 0, NEW x, T \subseteq S \cup {x}
      PROVE  Bounded(T, m + n)
    <2>1. /\ IsFiniteSet(S \cup {x}) /\ Cardinality(S \cup {x}) \in Nat
          /\ Cardinality(S \cup {x}) <= Cardinality(S) + 1
        <3>1. /\ IsFiniteSet(S \cup {x})
              /\ Cardinality(S \cup {x}) =
                     IF x \in S THEN Cardinality(S) ELSE Cardinality(S) + 1
            BY <1>1, FS_AddElement
        <3>2. Cardinality(S \cup {x}) \in Nat
            BY <3>1, FS_CardinalityType
        <3> QED
            BY <1>1, <3>1, <3>2
    <2>2. IsFiniteSet(T) /\ Cardinality(T) <= Cardinality(S \cup {x})
        BY <1>3, <2>1, FS_Subset
    <2>3. Cardinality(T) \in Nat
        BY <2>2, FS_CardinalityType
    <2> QED
        BY <1>1, <1>3, <2>1, <2>2, <2>3 DEF Bounded
<1> QED
    BY <1>2, <1>3 DEF Grows

LEMMA NobodyBounded ==
    ASSUME NEW n \in Nat
    PROVE  Bounded({}, n)
<1> QED
    BY FS_EmptySet DEF Bounded

LEMMA SubsetBounded ==
    ASSUME NEW S, NEW T, T \subseteq S, NEW n \in Int, Bounded(S, n)
    PROVE  Bounded(T, n)
<1>1. Grows(T, S, 0)
    BY DEF Grows
<1>2. Bounded(T, n + 0)
    BY <1>1, BoundedGrows
<1> QED
    BY <1>2

(***************************************************************************)
(* What a change of the table does to the users at its first b places and  *)
(* to those at the others.                                                 *)
(***************************************************************************)

Reached(s, b) == {s[k] : k \in {m \in 1..Len(s) : m <= b}}

Beyond(s, b) == {s[k] : k \in {m \in 1..Len(s) : m > b}}

LEMMA InsertedParts ==
    ASSUME NEW s, Table(s), NEW u \in Users, NEW i \in 1..(Len(s) + 1), NEW b \in Nat
    PROVE  /\ Reached(InsertAt(s, i, u), b) \subseteq Reached(s, b) \cup {u}
           /\ Grows(Beyond(InsertAt(s, i, u), b), Beyond(s, b), 1)
<1> DEFINE t == InsertAt(s, i, u)
<1>1. s \in Seq(Users) /\ Len(s) \in Nat
    BY DEF Table
<1>2. /\ Len(t) = Len(s) + 1
      /\ \A k \in 1..(Len(s) + 1) : t[k] = IF k < i THEN s[k] ELSE IF k = i THEN u ELSE s[k - 1]
    BY <1>1, Inserted
<1> HIDE DEF t
<1>3. ASSUME NEW k \in 1..Len(t), k <= b
      PROVE  t[k] \in Reached(s, b) \cup {u}
    <2>1. CASE k < i
        <3>1. k \in {m \in 1..Len(s) : m <= b} /\ t[k] = s[k]
            BY <1>1, <1>2, <1>3, <2>1
        <3> QED
            BY <3>1 DEF Reached
    <2>2. CASE k = i
        BY <1>1, <1>2, <2>2
    <2>3. CASE k > i
        <3>1. k - 1 \in {m \in 1..Len(s) : m <= b} /\ t[k] = s[k - 1]
            BY <1>1, <1>2, <1>3, <2>3
        <3> QED
            BY <3>1 DEF Reached
    <2>4. k < i \/ k = i \/ k > i
        BY <1>1, <1>2
    <2> QED
        BY <2>1, <2>2, <2>3, <2>4
<1> DEFINE pushed == IF i <= b THEN s[b] ELSE u
<1>4. ASSUME NEW k \in 1..Len(t), k > b
      PROVE  t[k] \in Beyond(s, b) \cup {pushed}
    <2>1. CASE k < i
        <3>1. k \in {m \in 1..Len(s) : m > b} /\ t[k] = s[k]
            BY <1>1, <1>2, <1>4, <2>1
        <3> QED
            BY <3>1 DEF Beyond
    <2>2. CASE k = i
        BY <1>1, <1>2, <1>4, <2>2
    <2>3. CASE k > i /\ k - 1 > b
        <3>1. k - 1 \in {m \in 1..Len(s) : m > b} /\ t[k] = s[k - 1]
            BY <1>1, <1>2, <2>3
        <3> QED
            BY <3>1 DEF Beyond
    <2>4. CASE k > i /\ k - 1 <= b
        <3>1. k - 1 = b /\ i <= b
            BY <1>1, <1>2, <1>4, <2>4
        <3>2. t[k] = s[k - 1]
            BY <1>1, <1>2, <2>4
        <3> QED
            BY <3>1, <3>2
    <2>5. k < i \/ k = i \/ (k > i /\ k - 1 > b) \/ (k > i /\ k - 1 <= b)
        BY <1>1, <1>2
    <2> QED
        BY <2>1, <2>2, <2>3, <2>4, <2>5
<1> HIDE DEF pushed
<1>5. Reached(t, b) \subseteq Reached(s, b) \cup {u}
    BY <1>3 DEF Reached
<1>6. Beyond(t, b) \subseteq Beyond(s, b) \cup {pushed}
    BY <1>4 DEF Beyond
<1> QED
    BY <1>5, <1>6 DEF Grows, t

LEMMA RemovedParts ==
    ASSUME NEW s, Table(s), NEW i \in 1..Len(s), NEW b \in Nat
    PROVE  /\ Reached(RemoveAt(s, i), b) \subseteq Reached(s, b) \cup {s[b + 1]}
           /\ i > b => Reached(RemoveAt(s, i), b) \subseteq Reached(s, b)
           /\ Beyond(RemoveAt(s, i), b) \subseteq Beyond(s, b)
<1> DEFINE t == RemoveAt(s, i)
<1>1. s \in Seq(Users) /\ Len(s) \in Nat
    BY DEF Table
<1>2. /\ Len(t) = Len(s) - 1
      /\ \A k \in 1..(Len(s) - 1) : t[k] = IF k < i THEN s[k] ELSE s[k + 1]
    BY <1>1, Removed
<1> HIDE DEF t
<1>3. ASSUME NEW k \in 1..Len(t), k <= b
      PROVE  t[k] \in Reached(s, b) \cup {s[b + 1]} /\ (i > b => t[k] \in Reached(s, b))
    <2>1. CASE k < i
        <3>1. k \in {m \in 1..Len(s) : m <= b} /\ t[k] = s[k]
            BY <1>1, <1>2, <1>3, <2>1
        <3> QED
            BY <3>1 DEF Reached
    <2>2. CASE k >= i /\ k < b
        <3>1. k + 1 \in {m \in 1..Len(s) : m <= b} /\ t[k] = s[k + 1]
            BY <1>1, <1>2, <1>3, <2>2
        <3> QED
            BY <3>1 DEF Reached
    <2>3. CASE k >= i /\ k = b
        BY <1>1, <1>2, <1>3, <2>3
    <2>4. k < i \/ (k >= i /\ k < b) \/ (k >= i /\ k = b)
        BY <1>1, <1>2, <1>3
    <2> QED
        BY <2>1, <2>2, <2>3, <2>4
<1>4. ASSUME NEW k \in 1..Len(t), k > b
      PROVE  t[k] \in Beyond(s, b)
    <2>1. CASE k < i
        <3>1. k \in {m \in 1..Len(s) : m > b} /\ t[k] = s[k]
            BY <1>1, <1>2, <1>4, <2>1
        <3> QED
            BY <3>1 DEF Beyond
    <2>2. CASE k >= i
        <3>1. k + 1 \in {m \in 1..Len(s) : m > b} /\ t[k] = s[k + 1]
            BY <1>1, <1>2, <1>4, <2>2
        <3> QED
            BY <3>1 DEF Beyond
    <2>3. k < i \/ k >= i
        BY <1>1, <1>2
    <2> QED
        BY <2>1, <2>2, <2>3
<1> QED
    BY <1>3, <1>4 DEF Reached, Beyond, t

LEMMA MovedParts ==
    ASSUME NEW s, Table(s), NEW i \in 1..Len(s), NEW j \in 1..Len(s), NEW b \in Nat
    PROVE  /\ Grows(Reached(InsertAt(RemoveAt(s, i), j, s[i]), b), Reached(s, b), 1)
           /\ Grows(Beyond(InsertAt(RemoveAt(s, i), j, s[i]), b), Beyond(s, b), 1)
<1> DEFINE r == RemoveAt(s, i)
           t == InsertAt(r, j, s[i])
<1>1. s \in Seq(Users) /\ Len(s) \in Nat /\ s[i] \in Users
    BY DEF Table
<1>2. Table(r) /\ Len(r) = Len(s) - 1
    BY <1>1, TableRemoved, Removed
<1>3. /\ Reached(r, b) \subseteq Reached(s, b) \cup {s[b + 1]}
      /\ i > b => Reached(r, b) \subseteq Reached(s, b)
      /\ Beyond(r, b) \subseteq Beyond(s, b)
    BY RemovedParts
<1> HIDE DEF r
<1>4. Reached(t, b) \subseteq Reached(r, b) \cup {s[i]} /\ Grows(Beyond(t, b), Beyond(r, b), 1)
    <2>1. j \in 1..(Len(r) + 1)
        BY <1>1, <1>2
    <2> QED
        BY <1>1, <1>2, <2>1, InsertedParts
<1> HIDE DEF t
<1>5. Grows(Beyond(t, b), Beyond(s, b), 1)
    BY <1>3, <1>4 DEF Grows
<1>6. ASSUME i <= b
      PROVE  Grows(Reached(t, b), Reached(s, b), 1)
    <2>1. s[i] \in Reached(s, b)
        BY <1>1, <1>6 DEF Reached
    <2>2. Reached(t, b) \subseteq Reached(s, b) \cup {s[b + 1]}
        BY <1>3, <1>4, <2>1
    <2> QED
        BY <2>2 DEF Grows
<1>7. ASSUME i > b
      PROVE  Grows(Reached(t, b), Reached(s, b), 1)
    <2>1. Reached(t, b) \subseteq Reached(s, b) \cup {s[i]}
        BY <1>3, <1>4, <1>7
    <2> QED
        BY <2>1 DEF Grows
<1>8. Grows(Reached(t, b), Reached(s, b), 1)
    BY <1>1, <1>6, <1>7
<1> QED
    BY <1>5, <1>8 DEF r, t


(***************************************************************************)
(* What a page takes from those beyond the pages before it.                *)
(***************************************************************************)

LEMMA SkipNext ==
    ASSUME NEW p \in Nat \ {0}
    PROVE  Skip(p + 1) = Skip(p) + PageSize /\ Skip(1) = 0
<1>1. p - 1 \in Int /\ PageSize \in Int
    BY PageSizeAssumption
<1>2. \A a, b \in Int : (a + 1) * b = a * b + b
    OBVIOUS
<1>3. (p + 1) - 1 = (p - 1) + 1 /\ 1 - 1 = 0
    BY <1>1
<1>4. 0 * PageSize = 0
    BY <1>1
<1> QED
    BY <1>1, <1>2, <1>3, <1>4 DEF Skip

\* A client that stops after page p has read as many places as the total it was told.
LEMMA PagesCover ==
    ASSUME NEW p \in Nat \ {0}, NEW n \in Nat, ~(p < TotalPages(n))
    PROVE  n <= Skip(p) + PageSize
<1> DEFINE q == (n + PageSize - 1) \div PageSize
           r == (n + PageSize - 1) % PageSize
<1>1. PageSize \in Nat /\ PageSize > 0
    BY PageSizeAssumption
<1>2. q \in Int /\ r \in 0..(PageSize - 1) /\ n + PageSize - 1 = PageSize * q + r
    BY <1>1
<1>3. q <= p
    BY <1>1, <1>2 DEF TotalPages
<1> HIDE DEF q, r
<1>4. PageSize * q <= PageSize * p
    <2>1. \A a, b, c \in Int : a >= 0 /\ b <= c => a * b <= a * c
        OBVIOUS
    <2> QED
        BY <1>1, <1>2, <1>3, <2>1
<1>5. PageSize * p = (p - 1) * PageSize + PageSize
    <2>1. \A a, b \in Int : b * a = (a - 1) * b + b
        OBVIOUS
    <2> QED
        BY <1>1, <2>1
<1>6. PageSize * q \in Int /\ PageSize * p \in Int
    BY <1>1, <1>2
<1> QED
    BY <1>1, <1>2, <1>4, <1>5, <1>6 DEF Skip

LEMMA PageTakes ==
    ASSUME Table(table), NEW p \in Nat \ {0}
    PROVE  /\ Reached(table, Skip(p) + PageSize) = Reached(table, Skip(p)) \cup ToSet(PageOf(p))
           /\ Beyond(table, Skip(p)) = Beyond(table, Skip(p) + PageSize) \cup ToSet(PageOf(p))
           /\ Beyond(table, Skip(p) + PageSize) \cap ToSet(PageOf(p)) = {}
<1> DEFINE k == Skip(p)
           m == Min({k + PageSize, Len(table)})
           rows == PageOf(p)
<1>1. k \in Nat /\ PageSize \in Nat /\ PageSize > 0 /\ Len(table) \in Nat
    BY SkipNat, PageSizeAssumption DEF Table
<1>2. table \in Seq(Users)
    BY DEF Table
<1>3. rows = SubSeq(table, k + 1, m)
    BY DEF PageOf
<1> HIDE DEF k, rows
<1>4. m = IF k + PageSize <= Len(table) THEN k + PageSize ELSE Len(table)
    BY <1>1, MinOfTwo
<1> HIDE DEF m
<1>5. m \in Nat /\ m <= Len(table)
    BY <1>1, <1>4
<1>6. ToSet(rows) = {table[a] : a \in {c \in 1..Len(table) : c > k /\ c <= k + PageSize}}
    <2>1. CASE k + 1 <= m
        <3>1. /\ DOMAIN rows = 1..(m - k)
              /\ \A a \in 1..(m - k) : rows[a] = table[k + a]
            <4>1. /\ rows \in Seq(Users) /\ Len(rows) = m - k
                  /\ \A a \in 1..(m - k) : rows[a] = table[(k + 1) + a - 1]
                BY <1>1, <1>2, <1>3, <1>5, <2>1
            <4>2. \A a \in 1..(m - k) : (k + 1) + a - 1 = k + a
                BY <1>1, <1>5
            <4> QED
                BY <4>1, <4>2
        <3>2. ASSUME NEW a \in 1..(m - k)
              PROVE  /\ k + a \in {c \in 1..Len(table) : c > k /\ c <= k + PageSize}
                     /\ rows[a] = table[k + a]
            BY <1>1, <1>4, <1>5, <3>1, <2>1
        <3>3. ASSUME NEW a \in 1..Len(table), a > k, a <= k + PageSize
              PROVE  a - k \in 1..(m - k) /\ rows[a - k] = table[a]
            <4>1. a - k \in 1..(m - k) /\ k + (a - k) = a
                BY <1>1, <1>4, <1>5, <2>1, <3>3
            <4> QED
                BY <3>1, <4>1
        <3> QED
            BY <3>1, <3>2, <3>3 DEF ToSet
    <2>2. CASE m < k + 1
        <3>1. rows = <<>>
            BY <1>1, <1>3, <1>4, <1>5, <2>2, SubSeqEmpty
        <3>2. {c \in 1..Len(table) : c > k /\ c <= k + PageSize} = {}
            BY <1>1, <1>4, <1>5, <2>2
        <3>3. ToSet(rows) = {}
            BY <3>1 DEF ToSet
        <3> QED
            BY <3>2, <3>3
    <2> QED
        BY <1>1, <1>4, <1>5, <2>1, <2>2
<1>7. Reached(table, k + PageSize) = Reached(table, k) \cup ToSet(rows)
    <2>1. \A c \in 1..Len(table) : c <= k + PageSize <=> c <= k \/ (c > k /\ c <= k + PageSize)
        BY <1>1
    <2> QED
        BY <1>6, <2>1 DEF Reached
<1>8. Beyond(table, k) = Beyond(table, k + PageSize) \cup ToSet(rows)
    <2>1. \A c \in 1..Len(table) : c > k <=> c > k + PageSize \/ (c > k /\ c <= k + PageSize)
        BY <1>1
    <2> QED
        BY <1>6, <2>1 DEF Beyond
<1>9. Beyond(table, k + PageSize) \cap ToSet(rows) = {}
    <2> SUFFICES ASSUME NEW a \in 1..Len(table), NEW c \in 1..Len(table),
                        a > k + PageSize, c <= k + PageSize, table[a] = table[c]
                 PROVE  FALSE
        BY <1>6 DEF Beyond
    <2>1. a = c
        BY <1>1, <1>2 DEF Table, IsInjective
    <2> QED
        BY <1>1, <2>1
<1> QED
    BY <1>7, <1>8, <1>9 DEF k, rows

(***************************************************************************)
(* The walk.  b places of the table s are behind the client; st stayed, n   *)
(* is how often each user was listed, h the page in hand, d and a bound     *)
(* the users missed and repeated.                                          *)
(***************************************************************************)

Shown(n, h, u) == n[u] + (IF u \in h THEN 1 ELSE 0)

\* Those behind the client that it has not seen.
Missed(s, st, n, h, b) == {u \in st \cap Reached(s, b) : Shown(n, h, u) = 0}

\* One pair for each time a user was shown again, or is still to come again.
Repeated(s, n, h, b) ==
    {r \in Users \X Nat :
        2 <= r[2] /\ r[2] <= Shown(n, h, r[1]) + (IF r[1] \in Beyond(s, b) THEN 1 ELSE 0)}

Walked(s, st, n, h, b, d, a) ==
    Bounded(Missed(s, st, n, h, b), d) /\ Bounded(Repeated(s, n, h, b), a)

Unseen(st, n, h) == {u \in st : Shown(n, h, u) = 0}

\* A change of the table that adds x to the missed and y to the repeated at most.
LEMMA WalkedOn ==
    ASSUME NEW s, NEW t, NEW st, NEW st2, NEW n \in [Users -> Nat], NEW h, NEW b,
           NEW d \in Int, NEW a \in Int, NEW x \in Nat, NEW y \in Nat,
           Walked(s, st, n, h, b, d, a), st2 \subseteq st,
           Grows(st2 \cap Reached(t, b), Reached(s, b), x), Grows(Beyond(t, b), Beyond(s, b), y)
    PROVE  Walked(t, st2, n, h, b, d + x, a + y)
<1>1. Grows(Missed(t, st2, n, h, b), Missed(s, st, n, h, b), x)
    BY DEF Grows, Missed
<1>2. Grows(Repeated(t, n, h, b), Repeated(s, n, h, b), y)
    <2>1. ASSUME Beyond(t, b) \subseteq Beyond(s, b)
          PROVE  Repeated(t, n, h, b) \subseteq Repeated(s, n, h, b)
        <3>1. ASSUME NEW r \in Repeated(t, n, h, b)
              PROVE  r \in Repeated(s, n, h, b)
            BY <2>1, <3>1 DEF Repeated, Shown
        <3> QED
            BY <3>1
    <2>2. ASSUME NEW u, Beyond(t, b) \subseteq Beyond(s, b) \cup {u}
          PROVE  Repeated(t, n, h, b)
                    \subseteq Repeated(s, n, h, b) \cup {<<u, Shown(n, h, u) + 1>>}
        <3>1. ASSUME NEW r \in Repeated(t, n, h, b), r \notin Repeated(s, n, h, b)
              PROVE  r = <<u, Shown(n, h, u) + 1>>
            <4>1. /\ r \in Users \X Nat /\ 2 <= r[2]
                  /\ r[2] <= Shown(n, h, r[1]) + (IF r[1] \in Beyond(t, b) THEN 1 ELSE 0)
                  /\ ~(r[2] <= Shown(n, h, r[1]) + (IF r[1] \in Beyond(s, b) THEN 1 ELSE 0))
                BY <3>1 DEF Repeated
            <4>2. r[1] \in Users /\ r[2] \in Nat /\ Shown(n, h, r[1]) \in Nat
                  /\ r = <<r[1], r[2]>>
                BY <4>1 DEF Shown
            <4>3. r[1] = u /\ r[2] = Shown(n, h, r[1]) + 1
                BY <2>2, <4>1, <4>2
            <4> QED
                BY <4>2, <4>3
        <3> QED
            BY <3>1
    <2> QED
        BY <2>1, <2>2 DEF Grows
<1> QED
    BY <1>1, <1>2, BoundedGrows DEF Walked

\* Reading a page changes neither: those it shows were to come.
LEMMA WalkedPage ==
    ASSUME Table(table), NEW p \in Nat \ {0}, NEW st, NEW n \in [Users -> Nat],
           NEW d \in Int, NEW a \in Int,
           Walked(table, st, n, {}, Skip(p), d, a)
    PROVE  Walked(table, st, n, ToSet(PageOf(p)), Skip(p) + PageSize, d, a)
<1> DEFINE b == Skip(p)
           c == Skip(p) + PageSize
           h == ToSet(PageOf(p))
<1>1. /\ Reached(table, c) = Reached(table, b) \cup h
      /\ Beyond(table, b) = Beyond(table, c) \cup h
      /\ Beyond(table, c) \cap h = {}
    BY PageTakes
<1> HIDE DEF b, c, h
<1>2. \A u \in Users : n[u] \in Nat
    OBVIOUS
<1>3. Missed(table, st, n, h, c) \subseteq Missed(table, st, n, {}, b)
    <2>1. st \cap Reached(table, c) \subseteq Users
        BY DEF Table, Reached
    <2>2. ASSUME NEW u \in st \cap Reached(table, c), Shown(n, h, u) = 0
          PROVE  u \in Reached(table, b) /\ Shown(n, {}, u) = 0
        <3>1. u \notin h /\ n[u] = 0
            BY <1>2, <2>1, <2>2 DEF Shown
        <3> QED
            BY <1>1, <2>2, <3>1 DEF Shown
    <2> QED
        BY <2>2 DEF Missed
<1>4. Repeated(table, n, h, c) \subseteq Repeated(table, n, {}, b)
    <2>1. ASSUME NEW u \in Users
          PROVE  Shown(n, h, u) + (IF u \in Beyond(table, c) THEN 1 ELSE 0)
                    = Shown(n, {}, u) + (IF u \in Beyond(table, b) THEN 1 ELSE 0)
        BY <1>1, <1>2 DEF Shown
    <2>2. ASSUME NEW r \in Repeated(table, n, h, c)
          PROVE  r \in Repeated(table, n, {}, b)
        <3>1. r \in Users \X Nat /\ r[1] \in Users
            BY <2>2 DEF Repeated
        <3> QED
            BY <2>1, <2>2, <3>1 DEF Repeated
    <2> QED
        BY <2>2
<1> QED
    BY <1>3, <1>4, SubsetBounded DEF Walked, b, c, h

\* An answered page counts as it did in hand.
LEMMA WalkedReply ==
    ASSUME NEW st, NEW n \in [Users -> Nat], NEW n2, NEW h, NEW b,
           NEW d \in Int, NEW a \in Int, NEW s, st \subseteq Users,
           n2 = [u \in Users |-> n[u] + (IF u \in h THEN 1 ELSE 0)]
    PROVE  /\ Walked(s, st, n, h, b, d, a) => Walked(s, st, n2, {}, b, d, a)
           /\ Bounded(Unseen(st, n, h), d) => Bounded(Unseen(st, n2, {}), d)
<1>1. \A u \in Users : Shown(n2, {}, u) = Shown(n, h, u)
    BY DEF Shown
<1>2. Missed(s, st, n2, {}, b) \subseteq Missed(s, st, n, h, b)
    BY <1>1 DEF Missed
<1>3. Repeated(s, n2, {}, b) \subseteq Repeated(s, n, h, b)
    <2>1. ASSUME NEW r \in Repeated(s, n2, {}, b)
          PROVE  r \in Repeated(s, n, h, b)
        <3>1. r \in Users \X Nat /\ r[1] \in Users
            BY <2>1 DEF Repeated
        <3> QED
            BY <1>1, <2>1, <3>1 DEF Repeated
    <2> QED
        BY <2>1
<1>4. Unseen(st, n2, {}) \subseteq Unseen(st, n, h)
    BY <1>1 DEF Unseen
<1> QED
    BY <1>2, <1>3, <1>4, SubsetBounded DEF Walked

\* At the beginning of a walk.
LEMMA WalkedNothing ==
    ASSUME NEW s, NEW st, NEW n, n = [u \in Users |-> 0], NEW b, st = {} \/ Reached(s, b) = {}
    PROVE  Walked(s, st, n, {}, b, 0, 0)
<1>1. Missed(s, st, n, {}, b) = {}
    BY DEF Missed
<1>2. Repeated(s, n, {}, b) = {}
    <2>1. ASSUME NEW r \in Repeated(s, n, {}, b)
          PROVE  FALSE
        <3>1. /\ r \in Users \X Nat /\ 2 <= r[2]
              /\ r[2] <= Shown(n, {}, r[1]) + (IF r[1] \in Beyond(s, b) THEN 1 ELSE 0)
            BY <2>1 DEF Repeated
        <3>2. r[1] \in Users /\ r[2] \in Nat /\ Shown(n, {}, r[1]) = 0
            BY <3>1 DEF Shown
        <3> QED
            BY <3>1, <3>2
    <2> QED
        BY <2>1
<1> QED
    BY <1>1, <1>2, NobodyBounded DEF Walked

\* Once the whole table is behind the client, whoever it has not seen is missed.
LEMMA AllBehind ==
    ASSUME NEW s, Table(s), NEW st, st \subseteq ToSet(s), NEW n, NEW h, NEW b \in Nat,
           Len(s) <= b
    PROVE  Unseen(st, n, h) \subseteq Missed(s, st, n, h, b)
<1>1. DOMAIN s = 1..Len(s) /\ Len(s) \in Nat
    BY DEF Table
<1>2. \A k \in 1..Len(s) : k <= b
    BY <1>1
<1>3. ToSet(s) \subseteq Reached(s, b)
    BY <1>1, <1>2 DEF ToSet, Reached
<1> QED
    BY <1>3 DEF Unseen, Missed

\* How many places the pages read so far make, and the page in hand.
Behind ==
    IF phase \in {"count", "reply", "next", "done"} THEN Skip(page) + PageSize ELSE Skip(page)

InHand == IF phase \in {"count", "reply"} THEN ToSet(list) ELSE {}

\* The page in hand is lost when its count fails, and the last page ends the walk.
WalkInv ==
    /\ Walked(table, stayed, listed, InHand, Behind, removed + moved, added + moved)
    /\ phase = "count" =>
           Walked(table, stayed, listed, {}, Skip(page), removed + moved, added + moved)
    /\ phase = "done" \/ (phase = "reply" /\ ~(page < TotalPages(total))) =>
           Bounded(Unseen(stayed, listed, InHand), removed + moved)

LEMMA WalkInitially == Init => WalkInv
<1> SUFFICES ASSUME Init
             PROVE  WalkInv
    OBVIOUS
<1>1. phase = "idle" /\ InHand = {} /\ removed + moved = 0 /\ added + moved = 0
    BY DEF Init, InHand
<1>2. stayed = {} /\ listed = [u \in Users |-> 0]
    BY DEF Init
<1>3. Walked(table, stayed, listed, {}, Behind, 0, 0)
    BY <1>2, WalkedNothing
<1> QED
    BY <1>1, <1>3 DEF WalkInv

LEMMA WalkChange ==
    ASSUME IInv, WalkInv, NEW t, Changed(t), NEW x \in Nat, NEW y \in Nat,
           removed' + moved' = removed + moved + x, added' + moved' = added + moved + y,
           stayed' \subseteq stayed,
           \A b \in Nat : /\ Grows(stayed' \cap Reached(t, b), Reached(table, b), x)
                          /\ Grows(Beyond(t, b), Beyond(table, b), y)
    PROVE  WalkInv'
<1>1. /\ table' = t /\ phase' = phase /\ page' = page /\ list' = list /\ total' = total
      /\ listed' = listed
    BY DEF Changed, answer
<1>2. /\ listed \in [Users -> Nat] /\ removed + moved \in Int /\ added + moved \in Int
      /\ page \in Nat \ {0}
    BY DEF IInv, TypeOK
<1>3. Behind \in Nat /\ Skip(page) \in Nat
    <2>1. Skip(page) \in Nat
        BY <1>2, SkipNat
    <2> QED
        BY <2>1, PageSizeAssumption DEF Behind
<1>4. Behind' = Behind /\ InHand' = InHand /\ Skip(page') = Skip(page)
      /\ TotalPages(total') = TotalPages(total)
    BY <1>1 DEF Behind, InHand
<1>5. ASSUME NEW h, NEW b \in Nat,
             Walked(table, stayed, listed, h, b, removed + moved, added + moved)
      PROVE  Walked(table', stayed', listed', h, b, removed' + moved', added' + moved')
    BY <1>1, <1>2, <1>5, WalkedOn
<1>6. ASSUME Bounded(Unseen(stayed, listed, InHand), removed + moved)
      PROVE  Bounded(Unseen(stayed', listed', InHand'), removed' + moved')
    <2>1. Grows(Unseen(stayed', listed', InHand'), Unseen(stayed, listed, InHand), x)
        BY <1>1, <1>4 DEF Unseen, Grows
    <2> QED
        BY <1>2, <1>6, <2>1, BoundedGrows
<1>7. Walked(table', stayed', listed', InHand', Behind', removed' + moved', added' + moved')
    BY <1>3, <1>4, <1>5 DEF WalkInv
<1>8. phase' = "count" =>
          Walked(table', stayed', listed', {}, Skip(page'), removed' + moved', added' + moved')
    BY <1>1, <1>3, <1>4, <1>5 DEF WalkInv
<1>9. phase' = "done" \/ (phase' = "reply" /\ ~(page' < TotalPages(total'))) =>
          Bounded(Unseen(stayed', listed', InHand'), removed' + moved')
    BY <1>1, <1>4, <1>6 DEF WalkInv
<1> QED
    BY <1>7, <1>8, <1>9 DEF WalkInv

LEMMA WalkStepwise == IInv /\ WalkInv /\ [Next]_vars => WalkInv'
<1> SUFFICES ASSUME IInv, WalkInv, [Next]_vars
             PROVE  WalkInv'
    OBVIOUS
<1>1. /\ Table(table) /\ DOMAIN table = 1..Len(table) /\ Len(table) \in Nat
      /\ stayed \subseteq ToSet(table) /\ ToSet(table) \subseteq Users
      /\ listed \in [Users -> Nat] /\ page \in Nat \ {0}
      /\ added \in Nat /\ removed \in Nat /\ moved \in Nat
    BY DEF IInv, TypeOK, Table, Live, ToSet
<1>2. Skip(page) \in Nat /\ Skip(page) + PageSize \in Nat /\ Skip(page + 1) = Skip(page) + PageSize
      /\ Skip(1) = 0
    <2>1. Skip(page) \in Nat
        BY <1>1, SkipNat
    <2>2. Skip(page + 1) = Skip(page) + PageSize /\ Skip(1) = 0
        BY <1>1, SkipNext
    <2> QED
        BY <2>1, <2>2, PageSizeAssumption
<1>3. CASE Begin
    <2>1. /\ phase' = "select" /\ InHand' = {} /\ Behind' = Skip(1)
          /\ removed' + moved' = 0 /\ added' + moved' = 0 /\ listed' = [u \in Users |-> 0]
        BY <1>3 DEF Begin, InHand, Behind
    <2>2. Reached(table', Skip(1)) = {}
        BY <1>2 DEF Reached
    <2>3. Walked(table', stayed', listed', {}, Skip(1), 0, 0)
        BY <2>1, <2>2, WalkedNothing
    <2> QED
        BY <2>1, <2>3 DEF WalkInv
<1>4. CASE NextPage \/ Retry \/ Fail
    <2>1. /\ table' = table /\ stayed' = stayed /\ listed' = listed
          /\ added' = added /\ removed' = removed /\ moved' = moved
          /\ phase' \in {"select", "failed"}
        BY <1>4 DEF NextPage, Retry, Fail, walk, changes
    <2>2. InHand' = {} /\ Behind' = Skip(page')
        BY <2>1 DEF InHand, Behind
    <2>3. Walked(table, stayed, listed, {}, Skip(page'), removed + moved, added + moved)
        <3>1. CASE NextPage
            BY <1>2, <3>1 DEF NextPage, WalkInv, InHand, Behind
        <3>2. CASE Retry
            BY <3>2 DEF Retry, WalkInv, InHand, Behind
        <3>3. CASE Fail
            BY <3>3 DEF Fail, WalkInv, InHand, Behind
        <3> QED
            BY <1>4, <3>1, <3>2, <3>3
    <2> QED
        BY <2>1, <2>2, <2>3 DEF WalkInv
<1>5. CASE SelectPage
    <2>1. /\ table' = table /\ stayed' = stayed /\ listed' = listed /\ page' = page
          /\ added' = added /\ removed' = removed /\ moved' = moved
          /\ list' = PageOf(page) /\ phase' \in {"count", "reply"}
        BY <1>5 DEF SelectPage, walk, changes
    <2>2. InHand' = ToSet(PageOf(page)) /\ Behind' = Skip(page) + PageSize
        BY <2>1 DEF InHand, Behind
    <2>3. Walked(table, stayed, listed, {}, Skip(page), removed + moved, added + moved)
        BY <1>5 DEF SelectPage, WalkInv, InHand, Behind
    <2>4. Walked(table, stayed, listed, ToSet(PageOf(page)), Skip(page) + PageSize,
                 removed + moved, added + moved)
        BY <1>1, <2>3, WalkedPage
    <2>5. ASSUME phase' = "reply", ~(page < TotalPages(total'))
          PROVE  Bounded(Unseen(stayed, listed, ToSet(PageOf(page))), removed + moved)
        <3>1. total' = Len(table)
            <4>1. EndsTable(PageOf(page), page) /\ total' = Skip(page) + Len(PageOf(page))
                BY <1>5, <2>5 DEF SelectPage
            <4> QED
                BY <1>1, <4>1, PageRead DEF Table
        <3>2. Len(table) <= Skip(page) + PageSize
            BY <1>1, <2>5, <3>1, PagesCover
        <3>3. Unseen(stayed, listed, ToSet(PageOf(page)))
                  \subseteq Missed(table, stayed, listed, ToSet(PageOf(page)), Skip(page) + PageSize)
            BY <1>1, <1>2, <3>2, AllBehind
        <3> QED
            BY <1>1, <2>4, <3>3, SubsetBounded DEF Walked
    <2> QED
        BY <2>1, <2>2, <2>3, <2>4, <2>5 DEF WalkInv
<1>6. CASE CountUsers
    <2>1. /\ table' = table /\ stayed' = stayed /\ listed' = listed /\ page' = page
          /\ added' = added /\ removed' = removed /\ moved' = moved
          /\ list' = list /\ phase' = "reply" /\ phase = "count" /\ total' = Len(table)
        BY <1>6 DEF CountUsers, walk, changes
    <2>2. /\ InHand' = InHand /\ Behind' = Skip(page) + PageSize
          /\ Behind = Skip(page) + PageSize
        BY <2>1 DEF InHand, Behind
    <2>3. Walked(table, stayed, listed, InHand, Skip(page) + PageSize,
                 removed + moved, added + moved)
        BY <2>2 DEF WalkInv
    <2>4. ASSUME ~(page < TotalPages(total'))
          PROVE  Bounded(Unseen(stayed, listed, InHand), removed + moved)
        <3>1. Len(table) <= Skip(page) + PageSize
            BY <1>1, <2>1, <2>4, PagesCover
        <3>2. Unseen(stayed, listed, InHand)
                  \subseteq Missed(table, stayed, listed, InHand, Skip(page) + PageSize)
            BY <1>1, <1>2, <3>1, AllBehind
        <3> QED
            BY <1>1, <2>3, <3>2, SubsetBounded DEF Walked
    <2> QED
        BY <2>1, <2>2, <2>3, <2>4 DEF WalkInv
<1>7. CASE Reply
    <2>1. /\ table' = table /\ stayed' = stayed /\ page' = page
          /\ added' = added /\ removed' = removed /\ moved' = moved
          /\ phase = "reply" /\ phase' = (IF page < TotalPages(total) THEN "next" ELSE "done")
          /\ listed' = [u \in Users |-> listed[u] + (IF u \in ToSet(list) THEN 1 ELSE 0)]
        BY <1>7 DEF Reply, changes
    <2>2. /\ InHand = ToSet(list) /\ Behind = Skip(page) + PageSize
          /\ InHand' = {} /\ Behind' = Skip(page) + PageSize
        BY <2>1 DEF InHand, Behind
    <2>3. stayed \subseteq Users /\ removed + moved \in Int /\ added + moved \in Int
        BY <1>1
    <2>4. Walked(table, stayed, listed', {}, Skip(page) + PageSize,
                 removed + moved, added + moved)
        <3>1. Walked(table, stayed, listed, ToSet(list), Skip(page) + PageSize,
                     removed + moved, added + moved)
            BY <2>2 DEF WalkInv
        <3> QED
            BY <1>1, <2>1, <2>3, <3>1, WalkedReply
    <2>5. ASSUME ~(page < TotalPages(total))
          PROVE  Bounded(Unseen(stayed, listed', {}), removed + moved)
        <3>1. Bounded(Unseen(stayed, listed, ToSet(list)), removed + moved)
            BY <2>1, <2>2, <2>5 DEF WalkInv
        <3> QED
            BY <1>1, <2>1, <2>3, <3>1, WalkedReply
    <2> QED
        BY <2>1, <2>2, <2>4, <2>5 DEF WalkInv
<1>8. ASSUME NEW u \in Users, NEW i \in 1..(Len(table) + 1), AddUser(u, i)
      PROVE  WalkInv'
    <2> DEFINE t == InsertAt(table, i, u)
    <2>1. /\ Changed(t) /\ stayed' = stayed /\ u \notin stayed
          /\ removed' + moved' = removed + moved + 0 /\ added' + moved' = added + moved + 1
        BY <1>1, <1>8 DEF AddUser, Live
    <2>2. ASSUME NEW b \in Nat
          PROVE  /\ Grows(stayed' \cap Reached(t, b), Reached(table, b), 0)
                 /\ Grows(Beyond(t, b), Beyond(table, b), 1)
        <3>1. /\ Reached(t, b) \subseteq Reached(table, b) \cup {u}
              /\ Grows(Beyond(t, b), Beyond(table, b), 1)
            BY <1>1, InsertedParts
        <3> HIDE DEF t
        <3>2. stayed' \cap Reached(t, b) \subseteq Reached(table, b)
            BY <2>1, <3>1
        <3> QED
            BY <3>1, <3>2 DEF Grows
    <2> HIDE DEF t
    <2> QED
        BY <2>1, <2>2, WalkChange
<1>9. ASSUME NEW i \in DOMAIN table, RemoveUser(i)
      PROVE  WalkInv'
    <2> DEFINE t == RemoveAt(table, i)
    <2>1. /\ Changed(t) /\ stayed' \subseteq stayed
          /\ removed' + moved' = removed + moved + 1 /\ added' + moved' = added + moved + 0
        BY <1>1, <1>9 DEF RemoveUser
    <2>2. ASSUME NEW b \in Nat
          PROVE  /\ Grows(stayed' \cap Reached(t, b), Reached(table, b), 1)
                 /\ Grows(Beyond(t, b), Beyond(table, b), 0)
        <3>1. /\ Reached(t, b) \subseteq Reached(table, b) \cup {table[b + 1]}
              /\ Beyond(t, b) \subseteq Beyond(table, b)
            BY <1>1, RemovedParts
        <3> HIDE DEF t
        <3>2. stayed' \cap Reached(t, b) \subseteq Reached(table, b) \cup {table[b + 1]}
            BY <3>1
        <3> QED
            BY <3>1, <3>2 DEF Grows
    <2> HIDE DEF t
    <2> QED
        BY <2>1, <2>2, WalkChange
<1>10. ASSUME NEW i \in DOMAIN table, NEW j \in DOMAIN table, MoveUser(i, j)
       PROVE  WalkInv'
    <2> DEFINE t == InsertAt(RemoveAt(table, i), j, table[i])
    <2>1. /\ Changed(t) /\ stayed' = stayed
          /\ removed' + moved' = removed + moved + 1 /\ added' + moved' = added + moved + 1
        BY <1>1, <1>10 DEF MoveUser
    <2>2. ASSUME NEW b \in Nat
          PROVE  /\ Grows(stayed' \cap Reached(t, b), Reached(table, b), 1)
                 /\ Grows(Beyond(t, b), Beyond(table, b), 1)
        <3>1. Grows(Reached(t, b), Reached(table, b), 1) /\ Grows(Beyond(t, b), Beyond(table, b), 1)
            BY <1>1, MovedParts
        <3> HIDE DEF t
        <3>2. Grows(stayed' \cap Reached(t, b), Reached(table, b), 1)
            BY <3>1 DEF Grows
        <3> QED
            BY <3>1, <3>2
    <2> HIDE DEF t
    <2> QED
        BY <2>1, <2>2, WalkChange
<1>11. CASE UNCHANGED vars
    <2>1. /\ table' = table /\ phase' = phase /\ page' = page /\ list' = list
          /\ total' = total /\ listed' = listed /\ stayed' = stayed
          /\ added' = added /\ removed' = removed /\ moved' = moved
        BY <1>11 DEF vars, answer, walk, changes
    <2>2. InHand' = InHand /\ Behind' = Behind
        BY <2>1 DEF InHand, Behind
    <2> QED
        BY <2>1, <2>2 DEF WalkInv
<1> QED
    BY <1>3, <1>4, <1>5, <1>6, <1>7, <1>8, <1>9, <1>10, <1>11 DEF Next

LEMMA WalkInvariant == Spec => []WalkInv
<1> QED
    BY Invariant, WalkInitially, WalkStepwise, PTL DEF Spec

\* Types of UserListing: no user is twice in the table, no page is longer than
\* pageSize, and who stayed is in the table.
THEOREM TypeCorrect == Spec => []TypeOK
<1>1. IInv => TypeOK
    BY DEF IInv
<1> QED
    BY <1>1, Invariant, PTL

\* The totalItems that getUserList answers, counted or inferred, was the number of
\* users at a moment between its two reads.
THEOREM TotalsTrue == Spec => []TotalWasTrue
<1>1. IInv => TotalWasTrue
    BY DEF IInv
<1> QED
    BY <1>1, Invariant, PTL

\* A walk that follows totalPages misses at most one user that was there all along for
\* each removed or moved meanwhile, whatever the size of table and pages.
THEOREM MissedBounded == Spec => []MissedOnlyByRemoval
<1>1. IInv /\ WalkInv => MissedOnlyByRemoval
    <2> SUFFICES ASSUME IInv, WalkInv, phase = "done"
                 PROVE  Cardinality({u \in stayed : listed[u] = 0}) <= removed + moved
        BY DEF MissedOnlyByRemoval
    <2>1. Bounded(Unseen(stayed, listed, {}), removed + moved)
        BY DEF WalkInv, InHand
    <2>2. Unseen(stayed, listed, {}) = {u \in stayed : listed[u] = 0}
        <3>1. ASSUME NEW u \in stayed
              PROVE  listed[u] \in Nat
            BY DEF IInv, TypeOK, Live, ToSet
        <3> QED
            BY <3>1 DEF Unseen, Shown
    <2> QED
        BY <2>1, <2>2 DEF Bounded
<1> QED
    BY <1>1, Invariant, WalkInvariant, PTL

\* A walk shows users again at most as often as users were added or moved meanwhile.
THEOREM RepeatedBounded == Spec => []RepeatedOnlyByAddition
<1>1. IInv /\ WalkInv => RepeatedOnlyByAddition
    <2> SUFFICES ASSUME IInv, WalkInv
                 PROVE  RepeatedOnlyByAddition
        OBVIOUS
    <2> DEFINE again == UNION {{u} \X (2..listed[u]) : u \in Users}
               counted == Repeated(table, listed, InHand, Behind)
    <2>1. again \subseteq counted
        <3>1. ASSUME NEW u \in Users, NEW r \in {u} \X (2..listed[u])
              PROVE  r \in counted
            <4>1. listed[u] \in Nat
                BY DEF IInv, TypeOK
            <4>2. r[1] = u /\ r[2] \in 2..listed[u] /\ r = <<r[1], r[2]>>
                OBVIOUS
            <4>3. r \in Users \X Nat /\ 2 <= r[2] /\ r[2] <= listed[u]
                BY <4>1, <4>2
            <4> QED
                BY <4>1, <4>2, <4>3 DEF Repeated, Shown
        <3> QED
            BY <3>1
    <2>2. Bounded(counted, added + moved)
        BY DEF WalkInv, Walked
    <2> HIDE DEF again, counted
    <2>3. Bounded(again, added + moved)
        <3>1. added + moved \in Int
            BY DEF IInv, TypeOK
        <3> QED
            BY <2>1, <2>2, <3>1, SubsetBounded
    <2> QED
        BY <2>3 DEF Bounded, again, RepeatedOnlyByAddition
<1> QED
    BY <1>1, Invariant, WalkInvariant, PTL
=============================================================================
