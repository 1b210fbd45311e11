----------------------------- MODULE ListProofs -----------------------------
(***************************************************************************)
(* The kernel's lists: what list_move_tail, list_add_tail and kfree do to  *)
(* one list, and to the lists of the elevator module together.             *)
(***************************************************************************)
EXTENDS Elevator, SequenceTheorems, TLAPS

-----------------------------------------------------------------------------
(***************************************************************************)
(* One list                                                                *)
(***************************************************************************)

(* Taking entry i out of a list, as list_move_tail does, closes the gap:   *)
(* the entries before it stay, those behind it move up by one.             *)
LEMMA RemoveAtProperties ==
    ASSUME NEW S, NEW s \in Seq(S), NEW i \in 1 .. Len(s)
    PROVE  /\ RemoveAt(s, i) \in Seq(S)
           /\ Len(RemoveAt(s, i)) = Len(s) - 1
           /\ \A j \in 1 .. Len(s) - 1 :
                RemoveAt(s, i)[j] = IF j < i THEN s[j] ELSE s[j + 1]
  <1> DEFINE a == SubSeq(s, 1, i - 1)
             b == SubSeq(s, i + 1, Len(s))
  <1>1. /\ a \in Seq(S) /\ Len(a) = i - 1
        /\ \A j \in 1 .. i - 1 : a[j] = s[j]
    <2>1. \A j \in 1 .. i - 1 : s[j] \in S
      BY ElementOfSeq
    <2> QED BY <2>1, SubSeqProperties
  <1>2. /\ b \in Seq(S) /\ Len(b) = Len(s) - i
        /\ \A j \in 1 .. Len(s) - i : b[j] = s[i + j]
    BY SubSeqProperties
  <1>3. RemoveAt(s, i) = a \o b
    BY DEF RemoveAt
  <1> HIDE DEF a, b
  <1>4. /\ a \o b \in Seq(S) /\ Len(a \o b) = Len(s) - 1
        /\ \A j \in 1 .. Len(s) - 1 :
             (a \o b)[j] = IF j <= i - 1 THEN a[j] ELSE b[j - (i - 1)]
    <2>1. /\ a \o b \in Seq(S) /\ Len(a \o b) = Len(a) + Len(b)
          /\ \A j \in 1 .. Len(a) + Len(b) :
               (a \o b)[j] = IF j <= Len(a) THEN a[j] ELSE b[j - Len(a)]
      BY <1>1, <1>2, ConcatProperties, Zenon
    <2>2. Len(a) = i - 1 /\ Len(a) + Len(b) = Len(s) - 1
      BY <1>1, <1>2
    <2>3. QED
      BY <2>1, <2>2
  <1>5. ASSUME NEW j \in 1 .. Len(s) - 1
        PROVE  (a \o b)[j] = IF j < i THEN s[j] ELSE s[j + 1]
    <2>1. CASE j < i
      BY <2>1, <1>1, <1>4
    <2>2. CASE ~(j < i)
      <3>1. j - (i - 1) \in 1 .. Len(s) - i /\ i + (j - (i - 1)) = j + 1
        BY <2>2
      <3>2. QED
        BY <2>2, <3>1, <1>2, <1>4
    <2>3. QED
      BY <2>1, <2>2
  <1>6. QED
    BY <1>3, <1>4, <1>5

(* What is left on a list after list_move_tail took an entry was there     *)
(* before, and in the same order.                                          *)
LEMMA RemoveAtOrder ==
    ASSUME NEW S, NEW s \in Seq(S), NEW i \in 1 .. Len(s)
    PROVE  /\ \A j \in DOMAIN RemoveAt(s, i) :
                \E m \in DOMAIN s : RemoveAt(s, i)[j] = s[m]
           /\ \A j, k \in DOMAIN RemoveAt(s, i) :
                j < k => \E m, n \in DOMAIN s : /\ m < n
                                                /\ RemoveAt(s, i)[j] = s[m]
                                                /\ RemoveAt(s, i)[k] = s[n]
  <1> DEFINE r == RemoveAt(s, i)
             old(j) == IF j < i THEN j ELSE j + 1
  <1>1. /\ r \in Seq(S) /\ Len(r) = Len(s) - 1
        /\ \A j \in 1 .. Len(s) - 1 : r[j] = IF j < i THEN s[j] ELSE s[j + 1]
    BY RemoveAtProperties
  <1> HIDE DEF r
  <1>2. DOMAIN r = 1 .. Len(s) - 1 /\ DOMAIN s = 1 .. Len(s)
    BY <1>1
  <1>3. ASSUME NEW j \in DOMAIN r
        PROVE  old(j) \in DOMAIN s /\ r[j] = s[old(j)]
    BY <1>1, <1>2
  <1>4. ASSUME NEW j \in DOMAIN r, NEW k \in DOMAIN r, j < k
        PROVE  old(j) < old(k)
    BY <1>2, <1>4
  <1> HIDE DEF old
  <1>5. QED
    BY <1>3, <1>4 DEF r

-----------------------------------------------------------------------------
(***************************************************************************)
(* Several lists, each passenger on one of them.  The lemmas compare the   *)
(* lists before an operation, L, with the lists after it, M.               *)
(***************************************************************************)

(* Which places there are when list n has size[n] entries.                 *)
PlacesAre(N, size, L) ==
    /\ \A n, i : <<n, i>> \in Places(L) <=> n \in N /\ i \in 1 .. size[n]
    /\ \A x \in Places(L) : \E n \in N : \E i \in 1 .. size[n] : x = <<n, i>>

Sizes(L) == [n \in DOMAIN L |-> Len(L[n])]

(* A place is a position on one of the kernel's lists.                     *)
LEMMA PlaceIn ==
    ASSUME NEW N, NEW S, NEW L \in [N -> Seq(S)]
    PROVE  /\ PlacesAre(N, Sizes(L), L)
           /\ Sizes(L) \in [N -> Nat]
           /\ \A n \in N : Sizes(L)[n] = Len(L[n])
  <1>1. DOMAIN L = N /\ \A n \in N : L[n] \in Seq(S) /\ DOMAIN L[n] = 1 .. Len(L[n])
    OBVIOUS
  <1>2. Sizes(L) \in [N -> Nat] /\ \A n \in N : Sizes(L)[n] = Len(L[n])
    BY <1>1, LenProperties DEF Sizes
  <1>3. PlacesAre(N, Sizes(L), L)
    BY <1>1, <1>2 DEF Places, PlacesAre
  <1>4. QED
    BY <1>2, <1>3

(* The entry at a place.                                                   *)
LEMMA EntryAt == \A L, n, i : Entry(L, <<n, i>>) = L[n][i]
  BY DEF Entry

(* M has the entries of L: place x of M has the entry that place old[x] of *)
(* L has, and every place of L is the old place of one of M.               *)
Rearranged(L, M, old) ==
    /\ \A x \in Places(M) : old[x] \in Places(L) /\ Entry(M, x) = Entry(L, old[x])
    /\ \A x, y \in Places(M) : old[x] = old[y] => x = y
    /\ \A y \in Places(L) : \E x \in Places(M) : old[x] = y

(* Rearranging the lists loses nobody and duplicates nobody.               *)
LEMMA OnceRearranged ==
    ASSUME NEW L, NEW M, NEW H, Once(L, H), NEW old, Rearranged(L, M, old)
    PROVE  Once(M, H)
  <1>1. \A p : p \in H <=> \E y \in Places(L) : p = Entry(L, y)
    BY DEF Once
  <1>2. \A p : p \in H <=> \E x \in Places(M) : p = Entry(M, x)
    BY <1>1 DEF Rearranged
  <1>3. H = {Entry(M, x) : x \in Places(M)}
    BY <1>2
  <1>4. \A x, y \in Places(M) : Entry(M, x) = Entry(M, y) => x = y
    BY DEF Once, Rearranged
  <1>5. QED
    BY <1>3, <1>4 DEF Once

(* The same, position by position.                                         *)
ComesFrom(N, m, L, M, old) ==
    /\ \A n \in N : \A i \in 1 .. m[n] :
         old[<<n, i>>] \in Places(L) /\ Entry(M, <<n, i>>) = Entry(L, old[<<n, i>>])
    /\ \A n, o \in N : \A i \in 1 .. m[n], j \in 1 .. m[o] :
         old[<<n, i>>] = old[<<o, j>>] => n = o /\ i = j
    /\ \A y \in Places(L) : \E n \in N : \E i \in 1 .. m[n] : old[<<n, i>>] = y

(* It is enough to say where each position of a list comes from.           *)
LEMMA RearrangedBy ==
    ASSUME NEW N, NEW m, NEW L, NEW M, PlacesAre(N, m, M), NEW old,
           ComesFrom(N, m, L, M, old)
    PROVE  Rearranged(L, M, old)
  <1>1. \A x \in Places(M) : old[x] \in Places(L) /\ Entry(M, x) = Entry(L, old[x])
    BY DEF PlacesAre, ComesFrom
  <1>2. ASSUME NEW x \in Places(M), NEW y \in Places(M), old[x] = old[y]
        PROVE  x = y
    <2>1. PICK n, i : n \in N /\ i \in 1 .. m[n] /\ x = <<n, i>>
      BY DEF PlacesAre
    <2>2. PICK o, j : o \in N /\ j \in 1 .. m[o] /\ y = <<o, j>>
      BY DEF PlacesAre
    <2>3. n = o /\ i = j
      BY <1>2, <2>1, <2>2 DEF ComesFrom
    <2>4. QED
      BY <2>1, <2>2, <2>3
  <1>3. ASSUME NEW y \in Places(L)
        PROVE  \E x \in Places(M) : old[x] = y
    <2>1. PICK n \in N : \E i \in 1 .. m[n] : old[<<n, i>>] = y
      BY DEF ComesFrom
    <2>2. PICK i \in 1 .. m[n] : old[<<n, i>>] = y
      BY <2>1
    <2>3. <<n, i>> \in Places(M)
      BY DEF PlacesAre
    <2>4. QED
      BY <2>2, <2>3
  <1>4. QED
    BY <1>1, <1>2, <1>3 DEF Rearranged

(* list_move_tail of entry k of list a to list b, by sizes and entries.    *)
MovedOne(N, l, m, L, M, a, b, k) ==
    /\ m[a] = l[a] - 1 /\ m[b] = l[b] + 1 /\ \A n \in N \ {a, b} : m[n] = l[n]
    /\ \A i \in 1 .. l[a] - 1 : M[a][i] = IF i < k THEN L[a][i] ELSE L[a][i + 1]
    /\ \A n \in N \ {a} : \A i \in 1 .. l[n] : M[n][i] = L[n][i]
    /\ M[b][l[b] + 1] = L[a][k]

(* It rearranges the lists.                                                *)
LEMMA MoveRearranges ==
    ASSUME NEW N, NEW l \in [N -> Nat], NEW m \in [N -> Nat], NEW L, NEW M,
           PlacesAre(N, l, L), PlacesAre(N, m, M),
           NEW a \in N, NEW b \in N, a # b, NEW k \in 1 .. l[a],
           MovedOne(N, l, m, L, M, a, b, k)
    PROVE  \E old : Rearranged(L, M, old)
  <1>7. /\ m[a] = l[a] - 1 /\ m[b] = l[b] + 1 /\ \A n \in N \ {a, b} : m[n] = l[n]
        /\ \A i \in 1 .. l[a] - 1 : Entry(M, <<a, i>>) =
             IF i < k THEN Entry(L, <<a, i>>) ELSE Entry(L, <<a, i + 1>>)
        /\ \A n \in N \ {a} : \A i \in 1 .. l[n] : Entry(M, <<n, i>>) = Entry(L, <<n, i>>)
        /\ Entry(M, <<b, l[b] + 1>>) = Entry(L, <<a, k>>)
    BY EntryAt DEF MovedOne
  <1> USE <1>7
  <1> DEFINE from(n, i) == IF n = b /\ i = l[b] + 1 THEN <<a, k>>
                           ELSE IF n = a /\ ~(i < k) THEN <<a, i + 1>> ELSE <<n, i>>
             old == [x \in Places(M) |-> from(x[1], x[2])]
  <1>1. \A n \in N : \A i \in 1 .. m[n] : old[<<n, i>>] = from(n, i)
    BY DEF PlacesAre
  <1> HIDE DEF old
  <1>2. ASSUME NEW n \in N, NEW i \in 1 .. m[n]
        PROVE  /\ from(n, i) \in Places(L)
               /\ Entry(M, <<n, i>>) = Entry(L, from(n, i))
    <2>1. CASE n = b /\ i = l[b] + 1
      <3>1. from(n, i) = <<a, k>> /\ <<a, k>> \in Places(L)
        BY <2>1 DEF PlacesAre
      <3>2. QED
        BY <2>1, <3>1
    <2>2. CASE n = b /\ i # l[b] + 1
      <3>1. n # a /\ i \in 1 .. l[n]
        BY <2>2
      <3>2. from(n, i) = <<n, i>>
        BY <2>2, <3>1
      <3>3. <<n, i>> \in Places(L)
        BY <3>1 DEF PlacesAre
      <3>4. QED
        BY <3>1, <3>2, <3>3
    <2>3. CASE n = a /\ i < k
      <3>1. i \in 1 .. l[a] - 1 /\ i \in 1 .. l[a]
        BY <2>3
      <3>2. from(n, i) = <<a, i>> /\ <<a, i>> \in Places(L)
        BY <2>3, <3>1 DEF PlacesAre
      <3>3. QED
        BY <2>3, <3>1, <3>2
    <2>4. CASE n = a /\ ~(i < k)
      <3>1. i \in 1 .. l[a] - 1 /\ i + 1 \in 1 .. l[a]
        BY <2>4
      <3>2. from(n, i) = <<a, i + 1>> /\ <<a, i + 1>> \in Places(L)
        BY <2>4, <3>1 DEF PlacesAre
      <3>3. QED
        BY <2>4, <3>1, <3>2
    <2>5. CASE n # a /\ n # b
      <3>1. i \in 1 .. l[n] /\ from(n, i) = <<n, i>>
        BY <2>5
      <3>2. <<n, i>> \in Places(L)
        BY <3>1 DEF PlacesAre
      <3>3. QED
        BY <2>5, <3>1, <3>2
    <2>6. QED
      BY <2>1, <2>2, <2>3, <2>4, <2>5
  <1>3. ASSUME NEW n \in N, NEW o \in N, NEW i \in 1 .. m[n], NEW j \in 1 .. m[o],
               from(n, i) = from(o, j)
        PROVE  n = o /\ i = j
    <2>1. i \in Int /\ j \in Int
      OBVIOUS
    <2>2. i \in 1 .. m[n] /\ j \in 1 .. m[o]
      OBVIOUS
    <2>3. CASE n = b /\ i = l[b] + 1
      BY <1>3, <2>1, <2>3
    <2>4. CASE n # b \/ i # l[b] + 1
      BY <1>3, <2>1, <2>4
    <2>5. QED
      BY <2>3, <2>4
  <1>4. ASSUME NEW y \in Places(L)
        PROVE  \E n \in N : \E i \in 1 .. m[n] : from(n, i) = y
    <2>1. PICK o, j : o \in N /\ j \in 1 .. l[o] /\ y = <<o, j>>
      BY DEF PlacesAre
    <2>2. CASE o = a /\ j = k
      <3>1. l[b] + 1 \in 1 .. m[b] /\ from(b, l[b] + 1) = <<a, k>>
        OBVIOUS
      <3>2. QED
        BY <2>1, <2>2, <3>1
    <2>3. CASE o = a /\ j < k
      <3>1. j \in 1 .. m[a] /\ from(a, j) = <<a, j>>
        BY <2>1, <2>3
      <3>2. QED
        BY <2>1, <2>3, <3>1
    <2>4. CASE o = a /\ j > k
      <3>1. j - 1 \in 1 .. m[a] /\ from(a, j - 1) = <<a, j>>
        BY <2>1, <2>4
      <3>2. QED
        BY <2>1, <2>4, <3>1
    <2>5. CASE o # a
      <3>1. j \in 1 .. m[o] /\ from(o, j) = <<o, j>>
        <4>1. CASE o = b
          BY <2>1, <2>5, <4>1
        <4>2. CASE o # b
          BY <2>1, <2>5, <4>2
        <4>3. QED
          BY <4>1, <4>2
      <3>2. QED
        BY <2>1, <3>1
    <2>6. j \in Int /\ k \in Int
      BY <2>1
    <2>7. o # a \/ j = k \/ j < k \/ j > k
      BY <2>6
    <2> HIDE DEF from
    <2>8. QED
      BY <2>7, <2>2, <2>3, <2>4, <2>5
  <1> HIDE DEF from
  <1>5. Rearranged(L, M, old)
    <2>1. \A n \in N : \A i \in 1 .. m[n] :
            old[<<n, i>>] \in Places(L) /\ Entry(M, <<n, i>>) = Entry(L, old[<<n, i>>])
      BY <1>1, <1>2
    <2>2. \A n, o \in N : \A i \in 1 .. m[n], j \in 1 .. m[o] :
            old[<<n, i>>] = old[<<o, j>>] => n = o /\ i = j
      BY <1>1, <1>3
    <2>3. \A y \in Places(L) : \E n \in N : \E i \in 1 .. m[n] : old[<<n, i>>] = y
      <3> SUFFICES ASSUME NEW y \in Places(L)
                   PROVE  \E n \in N : \E i \in 1 .. m[n] : old[<<n, i>>] = y
        OBVIOUS
      <3>1. PICK n \in N : \E i \in 1 .. m[n] : from(n, i) = y
        BY <1>4
      <3>2. QED
        BY <1>1, <3>1
    <2>4. QED
      <3>1. ComesFrom(N, m, L, M, old)
        BY <2>1, <2>2, <2>3 DEF ComesFrom
      <3>2. QED
        BY <3>1, RearrangedBy
  <1>6. QED
    BY <1>5

(* list_move_tail of every entry of list a, in order, to list b.           *)
MovedAll(N, l, m, L, M, a, b) ==
    /\ m[a] = 0 /\ m[b] = l[b] + l[a] /\ \A n \in N \ {a, b} : m[n] = l[n]
    /\ \A n \in N \ {a} : \A i \in 1 .. l[n] : M[n][i] = L[n][i]
    /\ \A i \in 1 .. l[a] : M[b][l[b] + i] = L[a][i]

(* It rearranges the lists, too.                                           *)
LEMMA MoveAllRearranges ==
    ASSUME NEW N, NEW l \in [N -> Nat], NEW m \in [N -> Nat], NEW L, NEW M,
           PlacesAre(N, l, L), PlacesAre(N, m, M),
           NEW a \in N, NEW b \in N, a # b, MovedAll(N, l, m, L, M, a, b)
    PROVE  \E old : Rearranged(L, M, old)
  <1>7. /\ m[a] = 0 /\ m[b] = l[b] + l[a] /\ \A n \in N \ {a, b} : m[n] = l[n]
        /\ \A n \in N \ {a} : \A i \in 1 .. l[n] : Entry(M, <<n, i>>) = Entry(L, <<n, i>>)
        /\ \A i \in 1 .. l[a] : Entry(M, <<b, l[b] + i>>) = Entry(L, <<a, i>>)
    BY EntryAt DEF MovedAll
  <1> USE <1>7
  <1> DEFINE from(n, i) == IF n = b /\ i > l[b] THEN <<a, i - l[b]>> ELSE <<n, i>>
             old == [x \in Places(M) |-> from(x[1], x[2])]
  <1>1. \A n \in N : \A i \in 1 .. m[n] : old[<<n, i>>] = from(n, i)
    BY DEF PlacesAre
  <1> HIDE DEF old
  <1>2. ASSUME NEW n \in N, NEW i \in 1 .. m[n]
        PROVE  /\ from(n, i) \in Places(L)
               /\ Entry(M, <<n, i>>) = Entry(L, from(n, i))
    <2>1. CASE n = b /\ i > l[b]
      <3>1. i - l[b] \in 1 .. l[a] /\ l[b] + (i - l[b]) = i
        BY <2>1
      <3>2. from(n, i) = <<a, i - l[b]>> /\ <<a, i - l[b]>> \in Places(L)
        BY <2>1, <3>1 DEF PlacesAre
      <3>3. Entry(M, <<b, l[b] + (i - l[b])>>) = Entry(L, <<a, i - l[b]>>)
        BY <3>1
      <3>4. QED
        BY <2>1, <3>1, <3>2, <3>3
    <2>2. CASE n # b \/ ~(i > l[b])
      <3>1. n # a /\ i \in 1 .. l[n]
        BY <2>2
      <3>2. from(n, i) = <<n, i>>
        BY <2>2
      <3>3. <<n, i>> \in Places(L)
        BY <3>1 DEF PlacesAre
      <3>4. QED
        BY <3>1, <3>2, <3>3
    <2>3. QED
      BY <2>1, <2>2
  <1>3. ASSUME NEW n \in N, NEW o \in N, NEW i \in 1 .. m[n], NEW j \in 1 .. m[o],
               from(n, i) = from(o, j)
        PROVE  n = o /\ i = j
    <2>1. i \in Int /\ j \in Int /\ n # a /\ o # a
      OBVIOUS
    <2>2. CASE n = b /\ i > l[b]
      BY <1>3, <2>1, <2>2
    <2>3. CASE n # b \/ ~(i > l[b])
      BY <1>3, <2>1, <2>3
    <2>4. QED
      BY <2>2, <2>3
  <1>4. ASSUME NEW y \in Places(L)
        PROVE  \E n \in N : \E i \in 1 .. m[n] : from(n, i) = y
    <2>1. PICK o, j : o \in N /\ j \in 1 .. l[o] /\ y = <<o, j>>
      BY DEF PlacesAre
    <2>2. CASE o = a
      <3>1. l[b] + j \in 1 .. m[b] /\ from(b, l[b] + j) = <<a, j>>
        BY <2>1, <2>2
      <3>2. QED
        BY <2>1, <2>2, <3>1
    <2>3. CASE o # a
      <3>1. j \in 1 .. m[o] /\ from(o, j) = <<o, j>>
        <4>1. CASE o = b
          BY <2>1, <2>3, <4>1
        <4>2. CASE o # b
          BY <2>1, <2>3, <4>2
        <4>3. QED
          BY <4>1, <4>2
      <3>2. QED
        BY <2>1, <3>1
    <2>4. QED
      BY <2>2, <2>3
  <1> HIDE DEF from
  <1>5. ComesFrom(N, m, L, M, old)
    <2>1. \A n \in N : \A i \in 1 .. m[n] :
            old[<<n, i>>] \in Places(L) /\ Entry(M, <<n, i>>) = Entry(L, old[<<n, i>>])
      BY <1>1, <1>2
    <2>2. \A n, o \in N : \A i \in 1 .. m[n], j \in 1 .. m[o] :
            old[<<n, i>>] = old[<<o, j>>] => n = o /\ i = j
      BY <1>1, <1>3
    <2>3. \A y \in Places(L) : \E n \in N : \E i \in 1 .. m[n] : old[<<n, i>>] = y
      <3> SUFFICES ASSUME NEW y \in Places(L)
                   PROVE  \E n \in N : \E i \in 1 .. m[n] : old[<<n, i>>] = y
        OBVIOUS
      <3>1. PICK n \in N : \E i \in 1 .. m[n] : from(n, i) = y
        BY <1>4
      <3>2. QED
        BY <1>1, <3>1
    <2>4. QED
      BY <2>1, <2>2, <2>3 DEF ComesFrom
  <1>6. QED
    BY <1>5, RearrangedBy

-----------------------------------------------------------------------------
(***************************************************************************)
(* The operations of the elevator module on lists L named N that hold the  *)
(* set H, with M and G the lists and the set afterwards.                   *)
(***************************************************************************)
Moves(N, L, M, a, b) ==
    \E k \in 1 .. Len(L[a]) : /\ M[a] = RemoveAt(L[a], k)
                              /\ M[b] = Append(L[b], L[a][k])
                              /\ \A n \in N \ {a, b} : M[n] = L[n]

MovesAll(N, L, M, a, b) ==
    /\ M[a] = <<>>
    /\ M[b] = L[b] \o L[a]
    /\ \A n \in N \ {a, b} : M[n] = L[n]

Adds(N, S, L, M, H, G, b) ==
    \E p \in S \ H : /\ M[b] = Append(L[b], p)
                     /\ G = H \union {p}
                     /\ \A n \in N \ {b} : M[n] = L[n]

Frees(N, L, M, H, G, a) ==
    /\ M[a] = <<>>
    /\ G = H \ ToSet(L[a])
    /\ \A n \in N \ {a} : M[n] = L[n]

(* list_move_tail of entry k of list a to list b.                          *)
LEMMA OnceMove ==
    ASSUME NEW N, NEW S, NEW L \in [N -> Seq(S)], NEW M \in [N -> Seq(S)], NEW H,
           Once(L, H), NEW a \in N, NEW b \in N, a # b, Moves(N, L, M, a, b)
    PROVE  Once(M, H)
  <1>11. PICK k \in 1 .. Len(L[a]) : /\ M[a] = RemoveAt(L[a], k)
                                     /\ M[b] = Append(L[b], L[a][k])
                                     /\ \A n \in N \ {a, b} : M[n] = L[n]
    BY DEF Moves
  <1> DEFINE l == Sizes(L)
             m == Sizes(M)
  <1>1. /\ PlacesAre(N, l, L) /\ l \in [N -> Nat] /\ \A n \in N : l[n] = Len(L[n])
        /\ PlacesAre(N, m, M) /\ m \in [N -> Nat] /\ \A n \in N : m[n] = Len(M[n])
    BY PlaceIn
  <1>2. L[a] \in Seq(S) /\ L[b] \in Seq(S) /\ L[a][k] \in S
    BY ElementOfSeq
  <1>3. /\ Len(M[b]) = Len(L[b]) + 1 /\ M[b][Len(L[b]) + 1] = L[a][k]
        /\ \A i \in 1 .. Len(L[b]) : M[b][i] = L[b][i]
    BY <1>2, <1>11, AppendProperties
  <1>4. /\ Len(M[a]) = Len(L[a]) - 1
        /\ \A j \in 1 .. Len(L[a]) - 1 : M[a][j] = IF j < k THEN L[a][j] ELSE L[a][j + 1]
    BY <1>2, <1>11, RemoveAtProperties
  <1> HIDE DEF l, m
  <1>5. /\ m[a] = l[a] - 1 /\ m[b] = l[b] + 1 /\ \A n \in N \ {a, b} : m[n] = l[n]
        /\ k \in 1 .. l[a]
    BY <1>1, <1>3, <1>4, <1>11
  <1>6. \A i \in 1 .. l[a] - 1 : M[a][i] = IF i < k THEN L[a][i] ELSE L[a][i + 1]
    BY <1>1, <1>4
  <1>7. \A n \in N \ {a} : \A i \in 1 .. l[n] : M[n][i] = L[n][i]
    BY <1>1, <1>3, <1>11
  <1>8. MovedOne(N, l, m, L, M, a, b, k)
    <2>1. M[b][l[b] + 1] = L[a][k]
      BY <1>1, <1>3
    <2>2. QED
      BY <1>5, <1>6, <1>7, <2>1 DEF MovedOne
  <1>9. \E old : Rearranged(L, M, old)
    BY <1>1, <1>5, <1>8, MoveRearranges
  <1>10. QED
    BY <1>9, OnceRearranged

(* list_move_tail of every entry of list a, in order, to list b.           *)
LEMMA OnceMoveAll ==
    ASSUME NEW N, NEW S, NEW L \in [N -> Seq(S)], NEW M \in [N -> Seq(S)], NEW H,
           Once(L, H), NEW a \in N, NEW b \in N, a # b, MovesAll(N, L, M, a, b)
    PROVE  Once(M, H)
  <1>11. M[a] = <<>> /\ M[b] = L[b] \o L[a] /\ \A n \in N \ {a, b} : M[n] = L[n]
    BY DEF MovesAll
  <1> DEFINE l == Sizes(L)
             m == Sizes(M)
  <1>1. /\ PlacesAre(N, l, L) /\ l \in [N -> Nat] /\ \A n \in N : l[n] = Len(L[n])
        /\ PlacesAre(N, m, M) /\ m \in [N -> Nat] /\ \A n \in N : m[n] = Len(M[n])
    BY PlaceIn
  <1>2. L[a] \in Seq(S) /\ L[b] \in Seq(S) /\ Len(M[a]) = 0
    BY <1>11
  <1>3. /\ Len(M[b]) = Len(L[b]) + Len(L[a])
        /\ \A i \in 1 .. Len(L[b]) + Len(L[a]) :
             M[b][i] = IF i <= Len(L[b]) THEN L[b][i] ELSE L[a][i - Len(L[b])]
    <2>1. /\ Len(L[b] \o L[a]) = Len(L[b]) + Len(L[a])
          /\ \A i \in 1 .. Len(L[b]) + Len(L[a]) :
               (L[b] \o L[a])[i] = IF i <= Len(L[b]) THEN L[b][i] ELSE L[a][i - Len(L[b])]
      <3>1. L[a] \in Seq(S) /\ L[b] \in Seq(S)
        BY <1>2
      <3>2. QED
        BY <3>1, ConcatProperties, Zenon
    <2>2. QED
      BY <1>11, <2>1
  <1>4. \A i \in 1 .. Len(L[b]) : M[b][i] = L[b][i]
    BY <1>2, <1>3
  <1>5. \A i \in 1 .. Len(L[a]) : M[b][Len(L[b]) + i] = L[a][i]
    <2> SUFFICES ASSUME NEW i \in 1 .. Len(L[a])
                 PROVE  M[b][Len(L[b]) + i] = L[a][i]
      OBVIOUS
    <2>1. /\ Len(L[b]) + i \in 1 .. Len(L[b]) + Len(L[a])
          /\ ~(Len(L[b]) + i <= Len(L[b])) /\ (Len(L[b]) + i) - Len(L[b]) = i
      BY <1>2
    <2>2. QED
      BY <1>3, <2>1
  <1> HIDE DEF l, m
  <1>6. m[a] = 0 /\ m[b] = l[b] + l[a] /\ \A n \in N \ {a, b} : m[n] = l[n]
    BY <1>1, <1>2, <1>3, <1>11
  <1>7. \A n \in N \ {a} : \A i \in 1 .. l[n] : M[n][i] = L[n][i]
    BY <1>1, <1>4, <1>11
  <1>8. MovedAll(N, l, m, L, M, a, b)
    <2>1. \A i \in 1 .. l[a] : M[b][l[b] + i] = L[a][i]
      BY <1>1, <1>5
    <2>2. QED
      BY <1>6, <1>7, <2>1 DEF MovedAll
  <1>9. \E old : Rearranged(L, M, old)
    BY <1>1, <1>8, MoveAllRearranges
  <1>10. QED
    BY <1>9, OnceRearranged

(* list_add_tail of a structure that is on no list.                        *)
LEMMA OnceAdd ==
    ASSUME NEW N, NEW S, NEW L \in [N -> Seq(S)], NEW M \in [N -> Seq(S)], NEW H,
           NEW G, Once(L, H), NEW b \in N, Adds(N, S, L, M, H, G, b)
    PROVE  Once(M, G)
  <1>11. PICK p \in S \ H : /\ M[b] = Append(L[b], p)
                           /\ G = H \union {p}
                           /\ \A n \in N \ {b} : M[n] = L[n]
    BY DEF Adds
  <1> DEFINE l == Sizes(L)
             m == Sizes(M)
             new == <<b, l[b] + 1>>
  <1>1. /\ PlacesAre(N, l, L) /\ l \in [N -> Nat] /\ \A n \in N : l[n] = Len(L[n])
        /\ PlacesAre(N, m, M) /\ m \in [N -> Nat] /\ \A n \in N : m[n] = Len(M[n])
    BY PlaceIn
  <1>2. /\ Len(M[b]) = Len(L[b]) + 1 /\ M[b][Len(L[b]) + 1] = p
        /\ \A i \in 1 .. Len(L[b]) : M[b][i] = L[b][i]
    <2>1. L[b] \in Seq(S) /\ p \in S
      OBVIOUS
    <2>2. QED
      BY <1>11, <2>1, AppendProperties
  <1> HIDE DEF l, m
  <1>3. /\ m[b] = l[b] + 1 /\ M[b][l[b] + 1] = p
        /\ \A n \in N \ {b} : m[n] = l[n]
        /\ \A n \in N : \A i \in 1 .. l[n] : M[n][i] = L[n][i]
    BY <1>1, <1>2, <1>11
  <1>4. Places(M) = Places(L) \union {new}
    <2>1. \A n, i : <<n, i>> \in Places(M) <=> <<n, i>> \in Places(L) \/ <<n, i>> = new
      <3> SUFFICES ASSUME NEW n, NEW i
                   PROVE  <<n, i>> \in Places(M) <=> <<n, i>> \in Places(L) \/ <<n, i>> = new
        OBVIOUS
      <3>1. CASE n = b
        BY <3>1, <1>1, <1>3 DEF PlacesAre
      <3>2. CASE n # b
        BY <3>2, <1>1, <1>3 DEF PlacesAre
      <3>3. QED
        BY <3>1, <3>2
    <2>2. \A x \in Places(M) \union Places(L) \union {new} : \E n, i : x = <<n, i>>
      BY <1>1 DEF PlacesAre
    <2>3. QED
      BY <2>1, <2>2
  <1>5. ASSUME NEW x \in Places(L)
        PROVE  Entry(M, x) = Entry(L, x)
    <2>1. PICK n, i : n \in N /\ i \in 1 .. l[n] /\ x = <<n, i>>
      BY <1>1 DEF PlacesAre
    <2>2. M[n][i] = L[n][i]
      BY <1>3, <2>1
    <2>3. QED
      BY <2>1, <2>2 DEF Entry
  <1>6. Entry(M, new) = p
    BY <1>3 DEF Entry
  <1> HIDE DEF new
  <1>7. \A x \in Places(L) : Entry(L, x) \in H
    BY DEF Once
  <1>8. G = {Entry(M, x) : x \in Places(M)}
    BY <1>4, <1>5, <1>6, <1>11 DEF Once
  <1>9. \A x, y \in Places(M) : Entry(M, x) = Entry(M, y) => x = y
    BY <1>4, <1>5, <1>6, <1>7 DEF Once
  <1>10. QED
    BY <1>8, <1>9 DEF Once

(* list_del and kfree of every entry of list a.                            *)
LEMMA OnceFree ==
    ASSUME NEW N, NEW S, NEW L \in [N -> Seq(S)], NEW M \in [N -> Seq(S)], NEW H,
           NEW G, Once(L, H), NEW a \in N, Frees(N, L, M, H, G, a)
    PROVE  Once(M, G)
  <1>10. M[a] = <<>> /\ G = H \ ToSet(L[a]) /\ \A n \in N \ {a} : M[n] = L[n]
    BY DEF Frees
  <1> DEFINE l == Sizes(L)
             m == Sizes(M)
  <1>1. /\ PlacesAre(N, l, L) /\ l \in [N -> Nat] /\ \A n \in N : l[n] = Len(L[n])
        /\ PlacesAre(N, m, M) /\ m \in [N -> Nat] /\ \A n \in N : m[n] = Len(M[n])
    BY PlaceIn
  <1>2. Len(M[a]) = 0
    BY <1>10
  <1>3. \A p : p \in ToSet(L[a]) <=> \E i \in 1 .. Len(L[a]) : L[a][i] = p
    BY DEF ToSet
  <1> HIDE DEF l, m
  <1>4. m[a] = 0 /\ \A n \in N \ {a} : m[n] = l[n]
    BY <1>1, <1>2, <1>10
  <1>5. ASSUME NEW x \in Places(M)
        PROVE  x \in Places(L) /\ Entry(M, x) = Entry(L, x)
    <2>1. PICK n, i : n \in N /\ i \in 1 .. m[n] /\ x = <<n, i>>
      BY <1>1 DEF PlacesAre
    <2>2. n # a /\ i \in 1 .. l[n] /\ M[n] = L[n]
      BY <1>4, <1>10, <2>1
    <2>3. QED
      BY <1>1, <2>1, <2>2 DEF Entry, PlacesAre
  <1>6. ASSUME NEW x \in Places(L)
        PROVE  x \in Places(M) <=> Entry(L, x) \notin ToSet(L[a])
    <2>1. PICK n, i : n \in N /\ i \in 1 .. l[n] /\ x = <<n, i>>
      BY <1>1 DEF PlacesAre
    <2>2. Entry(L, x) = L[n][i]
      BY <2>1 DEF Entry
    <2>3. CASE n = a
      <3>1. x \notin Places(M)
        BY <1>1, <1>4, <2>1, <2>3 DEF PlacesAre
      <3>2. L[a][i] \in ToSet(L[a])
        BY <1>1, <1>3, <2>1, <2>3
      <3>3. QED
        BY <2>2, <2>3, <3>1, <3>2
    <2>4. CASE n # a
      <3>1. x \in Places(M)
        BY <1>1, <1>4, <2>1, <2>4 DEF PlacesAre
      <3>2. ASSUME NEW j \in 1 .. Len(L[a])
            PROVE  L[a][j] # L[n][i]
        <4>1. <<a, j>> \in Places(L) /\ <<a, j>> # x
          BY <1>1, <2>1, <2>4 DEF PlacesAre
        <4>2. Entry(L, <<a, j>>) = L[a][j]
          BY DEF Entry
        <4>3. QED
          BY <2>2, <4>1, <4>2 DEF Once
      <3>3. QED
        BY <1>3, <2>2, <3>1, <3>2
    <2>5. QED
      BY <2>3, <2>4
  <1>7. G = {Entry(M, x) : x \in Places(M)}
    BY <1>5, <1>6, <1>10 DEF Once
  <1>8. \A x, y \in Places(M) : Entry(M, x) = Entry(M, y) => x = y
    BY <1>5 DEF Once
  <1>9. QED
    BY <1>7, <1>8 DEF Once

(* What a step may do to the lists L and the heap H: nothing, move one or  *)
(* all entries of a list to the end of another, add a structure kmalloc    *)
(* returned, or free all entries of a list.                                *)
ListOp(N, S, L, M, H, G) ==
    \/ G = H /\ \A n \in N : M[n] = L[n]
    \/ G = H /\ \E a, b \in N : a # b /\ (Moves(N, L, M, a, b) \/ MovesAll(N, L, M, a, b))
    \/ \E a \in N : Adds(N, S, L, M, H, G, a) \/ Frees(N, L, M, H, G, a)

(* Each of them keeps every structure on one list, once.                   *)
LEMMA OnceStep ==
    ASSUME NEW N, NEW S, NEW L \in [N -> Seq(S)], NEW M \in [N -> Seq(S)], NEW H, NEW G,
           Once(L, H), ListOp(N, S, L, M, H, G)
    PROVE  Once(M, G)
  <1>1. CASE G = H /\ \A n \in N : M[n] = L[n]
    <2>1. M = L
      BY <1>1
    <2>2. QED
      BY <1>1, <2>1
  <1>2. ASSUME NEW a \in N, NEW b \in N, a # b, Moves(N, L, M, a, b)
        PROVE  Once(M, H)
    BY <1>2, OnceMove
  <1>3. ASSUME NEW a \in N, NEW b \in N, a # b, MovesAll(N, L, M, a, b)
        PROVE  Once(M, H)
    BY <1>3, OnceMoveAll
  <1>4. ASSUME NEW b \in N, Adds(N, S, L, M, H, G, b)
        PROVE  Once(M, G)
    BY <1>4, OnceAdd
  <1>5. ASSUME NEW a \in N, Frees(N, L, M, H, G, a)
        PROVE  Once(M, G)
    BY <1>5, OnceFree
  <1>6. QED
    BY <1>1, <1>2, <1>3, <1>4, <1>5, Zenon DEF ListOp

(* They stay what they are beside further lists that they leave alone.     *)
LEMMA ListOpWider ==
    ASSUME NEW N, NEW S, NEW L, NEW M, NEW H, NEW G, ListOp(N, S, L, M, H, G),
           NEW N2, N \subseteq N2, NEW L2, NEW M2,
           \A n \in N : L2[n] = L[n] /\ M2[n] = M[n],
           \A n \in N2 \ N : M2[n] = L2[n]
    PROVE  ListOp(N2, S, L2, M2, H, G)
  <1>1. CASE G = H /\ \A n \in N : M[n] = L[n]
    BY <1>1 DEF ListOp
  <1>2. ASSUME NEW a \in N, NEW b \in N, Moves(N, L, M, a, b)
        PROVE  Moves(N2, L2, M2, a, b)
    <2>1. PICK k \in 1 .. Len(L[a]) : /\ M[a] = RemoveAt(L[a], k)
                                      /\ M[b] = Append(L[b], L[a][k])
                                      /\ \A n \in N \ {a, b} : M[n] = L[n]
      BY <1>2 DEF Moves
    <2>2. \A n \in N2 \ {a, b} : M2[n] = L2[n]
      BY <2>1
    <2>3. /\ k \in 1 .. Len(L2[a]) /\ M2[a] = RemoveAt(L2[a], k)
          /\ M2[b] = Append(L2[b], L2[a][k])
      <3>1. L2[a] = L[a] /\ L2[b] = L[b] /\ M2[a] = M[a] /\ M2[b] = M[b]
        OBVIOUS
      <3>2. QED
        BY <2>1, <3>1, Zenon
    <2>4. QED
      BY <2>2, <2>3 DEF Moves
  <1>3. ASSUME NEW a \in N, NEW b \in N, MovesAll(N, L, M, a, b)
        PROVE  MovesAll(N2, L2, M2, a, b)
    <2>1. L2[a] = L[a] /\ L2[b] = L[b] /\ M2[a] = M[a] /\ M2[b] = M[b]
      OBVIOUS
    <2>2. \A n \in N2 \ {a, b} : M2[n] = L2[n]
      BY <1>3 DEF MovesAll
    <2>3. M2[a] = <<>> /\ M2[b] = L2[b] \o L2[a]
      BY <1>3, <2>1, Zenon DEF MovesAll
    <2>4. QED
      BY <2>2, <2>3 DEF MovesAll
  <1>4. ASSUME NEW b \in N, Adds(N, S, L, M, H, G, b)
        PROVE  Adds(N2, S, L2, M2, H, G, b)
    <2>1. L2[b] = L[b] /\ M2[b] = M[b]
      OBVIOUS
    <2>2. PICK p \in S \ H : /\ M[b] = Append(L[b], p)
                            /\ G = H \union {p}
                            /\ \A n \in N \ {b} : M[n] = L[n]
      BY <1>4 DEF Adds
    <2>3. \A n \in N2 \ {b} : M2[n] = L2[n]
      BY <2>2
    <2>4. M2[b] = Append(L2[b], p)
      BY <2>1, <2>2, Zenon
    <2>5. QED
      BY <2>2, <2>3, <2>4 DEF Adds
  <1>5. ASSUME NEW a \in N, Frees(N, L, M, H, G, a)
        PROVE  Frees(N2, L2, M2, H, G, a)
    <2>1. L2[a] = L[a] /\ M2[a] = M[a]
      OBVIOUS
    <2>2. QED
      BY <1>5, <2>1 DEF Frees
  <1>6. \A n \in N : n \in N2
    OBVIOUS
  <1>7. QED
    BY <1>1, <1>2, <1>3, <1>4, <1>5, <1>6, Zenon DEF ListOp

=============================================================================
