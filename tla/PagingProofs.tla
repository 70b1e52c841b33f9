---------------------------- MODULE PagingProofs ----------------------------
(***************************************************************************)
(* Theorems about the page tables: the identity map the kernel runs on     *)
(* never changes, the processor uses no outdated translation, the tables   *)
(* form a tree the kernel can address, paging_get_physical agrees with the *)
(* processor, a framebuffer reported as mapped is, and the page tables     *)
(* implement AddressSpace, for tables, memories and sequences of calls of  *)
(* every size.                                                             *)
(***************************************************************************)
EXTENDS Paging, NatLemmas

-----------------------------------------------------------------------------
(* Indices *)

(* What is below a product has a quotient below the factor.                *)
LEMMA QuotientBelow ==
  ASSUME NEW a \in Nat, NEW p \in Nat \ {0}, NEW q \in Nat, a < p * q
  PROVE  a \div p < q
<1>1. a \div p \in Nat /\ a % p \in 0 .. (p - 1) /\ a = p * (a \div p) + (a % p)
  BY Division
<1> DEFINE c == a \div p
<1>2. p * c < p * ((q - 1) + 1)
  <2>1. (q - 1) + 1 = q /\ p * c <= a /\ p * c \in Int /\ p * q \in Int
    BY <1>1
  <2> QED
    BY <2>1
<1>3. c <= q - 1
  BY <1>1, <1>2, Multiples
<1> QED
  BY <1>1, <1>3

(* Indices of the tables that lead to page n's table of a level, as one    *)
(* number                                                                  *)
Prefix(n, level) == IF level = 3 THEN 0 ELSE n \div Power(level + 1)

(* One level further, the prefix gains the index of this level.            *)
LEMMA PrefixStep ==
  ASSUME NEW n \in Frame, NEW level \in 1 .. 3
  PROVE  /\ Prefix(n, level) \in Nat
         /\ Index(n, level) \in 0 .. (E - 1)
         /\ Prefix(n, level - 1) = Prefix(n, level) * E + Index(n, level)
<1> DEFINE d1 == n \div E
           d2 == d1 \div E
           d3 == d2 \div E
<1>1. n \in Nat /\ n < E * E * E * E /\ E \in Nat \ {0}
  BY SizesAssumption DEF Frame
<1>2. d1 \in Nat
  BY <1>1, Division
<1>3. d2 \in Nat /\ d1 % E \in 0 .. (E - 1) /\ d1 = E * d2 + (d1 % E)
  BY <1>1, <1>2, Division
<1>4. d3 \in Nat /\ d2 % E \in 0 .. (E - 1) /\ d2 = E * d3 + (d2 % E)
  BY <1>1, <1>3, Division
<1>5. n \div (E * E) = d2
  BY <1>1, DivideTwice
<1>6. E * E \in Nat \ {0} /\ n \div (E * E * E) = d3
  <2>1. E * E \in Nat \ {0}
    BY <1>1
  <2>2. n \div ((E * E) * E) = (n \div (E * E)) \div E
    BY <1>1, <2>1, DivideTwice
  <2> QED
    BY <1>5, <2>1, <2>2
<1>7. d3 < E
  <2>1. E * E * E \in Nat \ {0}
    BY <1>1, <1>6
  <2> QED
    BY <1>1, <1>6, <2>1, QuotientBelow
<1>8. d3 % E = d3
  BY <1>1, <1>4, <1>7
<1>9. Power(1) = E /\ Power(2) = E * E /\ Power(3) = E * E * E
  BY DEF Power
<1> HIDE DEF d1, d2, d3
<1>10. /\ Prefix(n, 0) = d1 /\ Prefix(n, 1) = d2 /\ Prefix(n, 2) = d3 /\ Prefix(n, 3) = 0
       /\ Index(n, 1) = d1 % E /\ Index(n, 2) = d2 % E /\ Index(n, 3) = d3
  BY <1>5, <1>6, <1>8, <1>9 DEF Prefix, Index, d1
<1>11. d2 * E = E * d2 /\ d3 * E = E * d3 /\ 0 * E = 0
  BY <1>1, <1>3, <1>4
<1>12. CASE level = 1
  BY <1>3, <1>10, <1>11, <1>12
<1>13. CASE level = 2
  BY <1>4, <1>10, <1>11, <1>13
<1>14. CASE level = 3
  BY <1>1, <1>4, <1>7, <1>10, <1>11, <1>14
<1> QED
  BY <1>12, <1>13, <1>14

(* The last index and the prefix of the last table give the page.          *)
LEMMA PageFromPrefix ==
  ASSUME NEW n \in Frame
  PROVE  /\ Prefix(n, 0) \in Nat
         /\ Index(n, 0) \in 0 .. (E - 1)
         /\ n = Prefix(n, 0) * E + Index(n, 0)
<1>1. n \in Nat /\ E \in Nat \ {0}
  BY SizesAssumption DEF Frame
<1>2. n \div E \in Nat /\ n % E \in 0 .. (E - 1) /\ n = E * (n \div E) + (n % E)
  BY <1>1, Division
<1>3. Prefix(n, 0) = n \div E /\ Index(n, 0) = n % E
  <2>1. n \div 1 = n
    BY <1>1
  <2> QED
    BY <2>1 DEF Prefix, Index, Power
<1>4. (n \div E) * E = E * (n \div E)
  BY <1>1, <1>2
<1> QED
  BY <1>2, <1>3, <1>4

(* The pages of the identity map are those with prefix 0 at level 1, where *)
(* the huge pages are.                                                     *)
LEMMA IdentityPrefix ==
  ASSUME NEW n \in Frame
  PROVE  Prefix(n, 1) = 0 <=> n \in IdentityPages
<1> DEFINE d == n \div (E * E)
<1>1. n \in Nat /\ E * E \in Nat \ {0}
  BY SizesAssumption DEF Frame
<1>2. d \in Nat /\ n % (E * E) \in 0 .. (E * E - 1) /\ n = (E * E) * d + (n % (E * E))
  BY <1>1, Division
<1>3. Prefix(n, 1) = d
  BY DEF Prefix, Power
<1>4. n \in IdentityPages <=> n < E * E
  BY <1>1 DEF IdentityPages
<1> DEFINE s == E * E
<1> HIDE DEF d
<1>5. d = 0 => n < s
  BY <1>1, <1>2
<1>6. n < s => d = 0
  <2>1. s * d <= n /\ s \in Nat \ {0}
    BY <1>1, <1>2
  <2> HIDE DEF s
  <2> QED
    BY <1>1, <1>2, <2>1
<1> QED
  BY <1>3, <1>4, <1>5, <1>6

-----------------------------------------------------------------------------
(* Entries *)

MemType == mem \in [Ram -> [0 .. (E - 1) -> Entry]]

(* A table index is below E at every level.                                *)
LEMMA IndexType ==
  ASSUME NEW n \in Frame, NEW level \in 0 .. 3
  PROVE  Index(n, level) \in 0 .. (E - 1)
<1>1. level = 0 \/ level \in 1 .. 3
  OBVIOUS
<1> QED
  BY <1>1, PrefixStep, PageFromPrefix

(* Whatever frame an entry is read from, it is an entry.                   *)
LEMMA CellType ==
  ASSUME MemType, NEW f, NEW i \in 0 .. (E - 1)
  PROVE  Cell(f, i) \in Entry
<1>1. Zero \in Entry
  <2>1. 0 \in Frame
    <3>1. E \in Nat \ {0}
      BY SizesAssumption
    <3>2. E * E * E * E \in Nat \ {0}
      <4>1. E * E \in Nat \ {0}
        BY <3>1
      <4>2. E * E * E \in Nat \ {0}
        BY <3>1, <4>1
      <4> QED
        BY <3>1, <4>2
    <3> QED
      BY <3>2 DEF Frame
  <2> QED
    BY <2>1 DEF Zero, Entry
<1>2. CASE f \in Ram
  <2>1. mem[f] \in [0 .. (E - 1) -> Entry]
    BY <1>2 DEF MemType
  <2>2. mem[f][i] \in Entry
    BY <2>1
  <2> QED
    BY <1>2, <2>2 DEF Cell
<1>3. CASE f \notin Ram
  BY <1>1, <1>3 DEF Cell
<1> QED
  BY <1>2, <1>3

(* The page of an address in page n is n, and the offset in a huge page is *)
(* the offset of the page in it and that in the page.                      *)
LEMMA OffsetInPage ==
  ASSUME NEW n \in Nat, NEW o \in 0 .. (PageSize - 1), NEW p \in Nat \ {0}
  PROVE  /\ PageOf(n * PageSize + o) = n
         /\ (n * PageSize + o) % PageSize = o
         /\ (n * PageSize + o) % (p * PageSize) = (n % p) * PageSize + o
<1> DEFINE a == n * PageSize + o
           q == n \div p
           m == n % p
<1>1. PageSize \in Nat \ {0} /\ o \in Nat /\ o < PageSize
  BY SizesAssumption
<1>2. n * PageSize \in Nat /\ n * PageSize = PageSize * n
      /\ PageSize * (n + 1) = PageSize * n + PageSize
  BY <1>1
<1>3. a \in Nat /\ PageSize * n <= a /\ a < PageSize * (n + 1)
  BY <1>1, <1>2
<1>4. a \div PageSize = n
  <2> HIDE DEF a
  <2> QED
    BY <1>1, <1>3, QuotientUnique
<1>5. a % PageSize = o
  <2>1. a % PageSize \in 0 .. (PageSize - 1) /\ a = PageSize * n + (a % PageSize)
    <3> HIDE DEF a
    <3> QED
      BY <1>1, <1>3, <1>4, Division
  <2> DEFINE r == a % PageSize
  <2>2. PageSize * n + r = PageSize * n + o /\ r \in Nat
    BY <1>2, <2>1
  <2> HIDE DEF r
  <2>3. r = o
    BY <1>1, <1>2, <2>2
  <2> QED
    BY <2>3 DEF r
<1>6. q \in Nat /\ m \in 0 .. (p - 1) /\ n = p * q + m
  BY Division
<1> DEFINE s == p * PageSize
           t == m * PageSize + o
<1>7. s \in Nat \ {0} /\ t \in Nat /\ t < s
  <2> HIDE DEF m
  <2>1. (m + 1) * PageSize <= p * PageSize /\ (m + 1) * PageSize = m * PageSize + PageSize
        /\ m * PageSize \in Nat
    BY <1>1, <1>6
  <2>2. p * PageSize \in Nat \ {0}
    BY <1>1
  <2> DEFINE u == m * PageSize
             v == (m + 1) * PageSize
             w == p * PageSize
  <2>3. v <= w /\ v = u + PageSize /\ u \in Nat /\ w \in Nat \ {0}
    BY <2>1, <2>2
  <2> HIDE DEF u, v, w
  <2>4. w \in Nat \ {0} /\ u + o \in Nat /\ u + o < w
    BY <1>1, <2>3
  <2> QED
    BY <2>4 DEF u, w
<1>8. a = s * q + t
  <2> HIDE DEF q, m
  <2>1. (p * q + m) * PageSize = (p * PageSize) * q + m * PageSize
    BY <1>1, <1>6
  <2> QED
    BY <1>1, <1>6, <2>1
<1>9. a % s = t
  <2> HIDE DEF a, s, t, q, m
  <2>1. s * q <= a /\ a < s * (q + 1)
    <3>1. s * (q + 1) = s * q + s /\ s * q \in Nat
      BY <1>6, <1>7
    <3> QED
      BY <1>7, <1>8, <3>1
  <2>2. a \div s = q
    BY <1>3, <1>6, <1>7, <2>1, QuotientUnique
  <2>3. a % s \in 0 .. (s - 1) /\ a = s * q + (a % s)
    BY <1>3, <1>7, <2>2, Division
  <2> DEFINE r == a % s
             b == s * q
  <2>4. r \in Nat /\ b \in Nat /\ a = b + r /\ a = b + t
    BY <1>6, <1>7, <1>8, <2>3
  <2> HIDE DEF r, b
  <2>5. r = t
    BY <1>7, <2>4
  <2> QED
    BY <2>5 DEF r
<1> QED
  BY <1>4, <1>5, <1>9 DEF PageOf

(* paging_get_physical and the processor end at the same byte.             *)
LEMMA SameByte ==
  ASSUME MemType, pml4 # NoTable, NEW n \in Frame, NEW o \in 0 .. (PageSize - 1)
  PROVE  paging_get_physical(n * PageSize + o) =
           IF Walk(n) = NoPage THEN 0 ELSE Walk(n).frame * PageSize + o
<1> DEFINE a == n * PageSize + o
<1>1. n \in Nat /\ E \in Nat \ {0} /\ PageSize \in Nat \ {0} /\ o \in Nat
  BY SizesAssumption DEF Frame
<1>2. Power(1) \in Nat \ {0} /\ Power(2) \in Nat \ {0}
  BY <1>1 DEF Power
<1>3. /\ PageOf(a) = n /\ a % PageSize = o
      /\ a % (Power(1) * PageSize) = (n % Power(1)) * PageSize + o
      /\ a % (Power(2) * PageSize) = (n % Power(2)) * PageSize + o
  <2>1. ASSUME NEW p \in Nat \ {0}
        PROVE  /\ PageOf(n * PageSize + o) = n
               /\ (n * PageSize + o) % PageSize = o
               /\ (n * PageSize + o) % (p * PageSize) = (n % p) * PageSize + o
    BY <1>1, OffsetInPage
  <2> QED
    BY <1>2, <2>1
<1>4. /\ Entry3(n) \in Entry /\ Entry2(n) \in Entry
      /\ Entry1(n) \in Entry /\ Entry0(n) \in Entry
  <2>1. \A level \in 0 .. 3 : Index(n, level) \in 0 .. (E - 1)
    BY IndexType
  <2> QED
    BY <2>1, CellType DEF Entry3, Entry2, Entry1, Entry0
<1>5. /\ Entry2(n).addr \in Nat /\ Entry1(n).addr \in Nat /\ Entry0(n).addr \in Nat
      /\ n % Power(1) \in Nat /\ n % Power(2) \in Nat
  <2>1. \A e \in Entry : e.addr \in Nat
    BY DEF Entry, Frame
  <2>2. n % Power(1) \in 0 .. (Power(1) - 1) /\ n % Power(2) \in 0 .. (Power(2) - 1)
    BY <1>1, <1>2, Division
  <2> QED
    BY <1>2, <1>4, <2>1, <2>2
<1>6. ASSUME NEW b \in Nat, NEW c \in Nat
      PROVE  (b + c) * PageSize + o = b * PageSize + (c * PageSize + o)
  BY <1>1
<1>7. \A e, b, c, u : Leaf(e, b, c, u) # NoPage /\ Leaf(e, b, c, u).frame = b + c
  BY DEF Leaf, NoPage
<1> DEFINE e3 == Entry3(n)
           e2 == Entry2(n)
           e1 == Entry1(n)
           e0 == Entry0(n)
           m2 == n % Power(2)
           m1 == n % Power(1)
<1>8. PageOf(a) = n
  BY <1>3
<1>9. a % PageSize = o
  BY <1>3
<1>10. a % (Power(1) * PageSize) = m1 * PageSize + o
  BY <1>3
<1>11. a % (Power(2) * PageSize) = m2 * PageSize + o
  BY <1>3
<1>12. m1 \in Nat /\ m2 \in Nat /\ e2.addr \in Nat /\ e1.addr \in Nat /\ e0.addr \in Nat
  BY <1>5
<1> HIDE DEF a
<1>13. paging_get_physical(a) =
         IF ~Found(n) THEN 0
         ELSE IF Huge(e2) THEN e2.addr * PageSize + (a % (Power(2) * PageSize))
         ELSE IF Huge(e1) THEN e1.addr * PageSize + (a % (Power(1) * PageSize))
         ELSE e0.addr * PageSize + (a % PageSize)
  BY <1>8 DEF paging_get_physical
<1>14. Walk(n) =
         IF ~Found(n) THEN NoPage
         ELSE IF Huge(e2) THEN Leaf(e2, e2.addr, m2, {e3})
         ELSE IF Huge(e1) THEN Leaf(e1, e1.addr, m1, {e3, e2})
         ELSE Leaf(e0, e0.addr, 0, {e3, e2, e1})
  BY Zenon DEF Walk, Found
<1> HIDE DEF e3, e2, e1, e0, m1, m2
<1>15. CASE ~Found(n)
  BY <1>13, <1>14, <1>15 DEF a
<1>16. CASE Found(n) /\ Huge(e2)
  <2>1. paging_get_physical(a) = e2.addr * PageSize + (m2 * PageSize + o)
    BY <1>11, <1>13, <1>16
  <2>2. Walk(n) = Leaf(e2, e2.addr, m2, {e3})
    BY <1>14, <1>16
  <2>3. Walk(n) # NoPage /\ Walk(n).frame = e2.addr + m2
    BY <1>7, <2>2
  <2>4. (e2.addr + m2) * PageSize + o = e2.addr * PageSize + (m2 * PageSize + o)
    BY <1>6, <1>12
  <2> QED
    BY <2>1, <2>3, <2>4 DEF a
<1>17. CASE Found(n) /\ ~Huge(e2) /\ Huge(e1)
  <2>1. paging_get_physical(a) = e1.addr * PageSize + (m1 * PageSize + o)
    BY <1>10, <1>13, <1>17
  <2>2. Walk(n) = Leaf(e1, e1.addr, m1, {e3, e2})
    BY <1>14, <1>17
  <2>3. Walk(n) # NoPage /\ Walk(n).frame = e1.addr + m1
    BY <1>7, <2>2
  <2>4. (e1.addr + m1) * PageSize + o = e1.addr * PageSize + (m1 * PageSize + o)
    BY <1>6, <1>12
  <2> QED
    BY <2>1, <2>3, <2>4 DEF a
<1>18. CASE Found(n) /\ ~Huge(e2) /\ ~Huge(e1)
  <2>1. paging_get_physical(a) = e0.addr * PageSize + o
    BY <1>9, <1>13, <1>18
  <2>2. Walk(n) = Leaf(e0, e0.addr, 0, {e3, e2, e1})
    BY <1>14, <1>18
  <2>3. Walk(n) # NoPage /\ Walk(n).frame = e0.addr + 0
    BY <1>7, <2>2
  <2>4. e0.addr + 0 = e0.addr
    BY <1>12
  <2> QED
    BY <2>1, <2>3, <2>4 DEF a
<1> QED
  BY <1>15, <1>16, <1>17, <1>18

-----------------------------------------------------------------------------
(* The tree of tables *)

(* lvl gives the level of each frame that is a table, 4 to one that is     *)
(* none, and pre the prefix of the pages it translates.  An entry of a     *)
(* table leads to the table of one level less and of a prefix longer by    *)
(* the entry's index; it is the kind of entry that links tables.           *)
Leads(lvl, pre, f, i) ==
  LET e == mem[f][i]
  IN  /\ e = TableEntry(e.addr)
      /\ e.addr \in Ram
      /\ lvl[e.addr] = lvl[f] - 1
      /\ pre[e.addr] = pre[f] * E + i

(* An entry of a last table gives the page in RAM it translates its own    *)
(* frame.                                                                  *)
Placed(pre, f, i) ==
  LET n == pre[f] * E + i
  IN  n \in Ram => mem[f][i].addr = n

(* Tables are used frames without bits of the bitmap, and so are the       *)
(* frames a new one may be taken from.                                     *)
TreeOf(lvl, pre) ==
  /\ lvl[P4] = 3 /\ lvl[P3] = 2 /\ lvl[P2] = 1
  /\ pre[P4] = 0 /\ pre[P3] = 0 /\ pre[P2] = 0
  /\ \A f \in Ram : lvl[f] # 4 => f \in used /\ BitsIn[f] = {}
  /\ \A f \in Ram : BitsIn[f] # {} => f \in used
  /\ 0 \in used
  /\ mem[P4][0] = TableEntry(P3)
  /\ mem[P3][0] = TableEntry(P2)
  /\ \A i \in 0 .. (E - 1) : mem[P2][i] = HugeEntry(i)
  /\ \A f \in Ram, i \in 0 .. (E - 1) :
       lvl[f] \in 1 .. 3 /\ f # P2 /\ Present(mem[f][i]) => Leads(lvl, pre, f, i)
  /\ \A f \in Ram, i \in 0 .. (E - 1) :
       lvl[f] = 0 /\ Present(mem[f][i]) => Placed(pre, f, i)

(* The walk of page n, level by level: the table it is in, the entry it    *)
(* reads there, and whether it gets as far as the level.                   *)
EntryAt(n, level) ==
  IF level = 3 THEN Entry3(n) ELSE IF level = 2 THEN Entry2(n)
  ELSE IF level = 1 THEN Entry1(n) ELSE Entry0(n)

TableAt(n, level) == IF level = 3 THEN P4 ELSE EntryAt(n, level + 1).addr

Open(n, level) ==
  \A k \in 1 .. 3 : k > level => Present(EntryAt(n, k)) /\ ~Huge(EntryAt(n, k))

(* An entry is read from the table of its level, before and after a step.  *)
LEMMA EntryRead ==
  ASSUME NEW n, NEW level \in 0 .. 3, NEW t \in Ram
  PROVE  /\ TableAt(n, level) = t => EntryAt(n, level) = mem[t][Index(n, level)]
         /\ TableAt(n, level)' = t => EntryAt(n, level)' = mem'[t][Index(n, level)]
<1>1. CASE level = 3
  BY <1>1 DEF EntryAt, TableAt, Entry3, Cell
<1>2. CASE level = 2
  <2>1. /\ TableAt(n, 2) = Entry3(n).addr /\ TableAt(n, 2)' = Entry3(n)'.addr
        /\ EntryAt(n, 2) = Entry2(n) /\ EntryAt(n, 2)' = Entry2(n)'
    BY DEF TableAt, EntryAt
  <2> QED
    BY <1>2, <2>1 DEF Entry2, Cell
<1>3. CASE level = 1
  <2>1. /\ TableAt(n, 1) = Entry2(n).addr /\ TableAt(n, 1)' = Entry2(n)'.addr
        /\ EntryAt(n, 1) = Entry1(n) /\ EntryAt(n, 1)' = Entry1(n)'
    BY DEF TableAt, EntryAt
  <2> QED
    BY <1>3, <2>1 DEF Entry1, Cell
<1>4. CASE level = 0
  <2>1. /\ TableAt(n, 0) = Entry1(n).addr /\ TableAt(n, 0)' = Entry1(n)'.addr
        /\ EntryAt(n, 0) = Entry0(n) /\ EntryAt(n, 0)' = Entry0(n)'
    BY DEF TableAt, EntryAt
  <2> QED
    BY <1>4, <2>1 DEF Entry0, Cell
<1> QED
  BY <1>1, <1>2, <1>3, <1>4

(* On a tree, a walk is at each level in a table of the level and of the   *)
(* page's prefix.                                                          *)
LEMMA TableReached ==
  ASSUME NEW lvl, NEW pre, TreeOf(lvl, pre), NEW n \in Frame
  PROVE  \A level \in 0 .. 3 :
           Open(n, level) => /\ TableAt(n, level) \in Ram
                             /\ lvl[TableAt(n, level)] = level
                             /\ pre[TableAt(n, level)] = Prefix(n, level)
<1> DEFINE At(level) == Open(n, level) => /\ TableAt(n, level) \in Ram
                                          /\ lvl[TableAt(n, level)] = level
                                          /\ pre[TableAt(n, level)] = Prefix(n, level)
<1>1. At(3)
  BY BootAssumption DEF TableAt, Prefix, TreeOf
<1>2. ASSUME NEW level \in 1 .. 3, At(level)
      PROVE  At(level - 1)
  <2> SUFFICES ASSUME Open(n, level - 1)
               PROVE  /\ TableAt(n, level - 1) \in Ram
                      /\ lvl[TableAt(n, level - 1)] = level - 1
                      /\ pre[TableAt(n, level - 1)] = Prefix(n, level - 1)
    OBVIOUS
  <2> DEFINE t == TableAt(n, level)
             i == Index(n, level)
             e == EntryAt(n, level)
  <2>1. Open(n, level) /\ Present(e) /\ ~Huge(e)
    BY DEF Open
  <2>2. t \in Ram /\ lvl[t] = level /\ pre[t] = Prefix(n, level)
    BY <1>2, <2>1
  <2>3. e = mem[t][i]
    BY <2>2, EntryRead
  <2>4. i \in 0 .. (E - 1) /\ Prefix(n, level - 1) = Prefix(n, level) * E + i
    BY PrefixStep
  <2>5. TableAt(n, level - 1) = e.addr
    <3>1. level - 1 # 3 /\ (level - 1) + 1 = level
      OBVIOUS
    <3> QED
      BY <3>1 DEF TableAt
  <2> HIDE DEF t, i, e
  <2>6. t # P2
    <3>1. Huge(HugeEntry(i))
      BY DEF Huge, HugeEntry
    <3> QED
      BY <2>1, <2>3, <2>4, <3>1 DEF TreeOf
  <2>7. Leads(lvl, pre, t, i)
    BY <2>1, <2>2, <2>3, <2>4, <2>6 DEF TreeOf
  <2> QED
    BY <2>2, <2>3, <2>4, <2>5, <2>7 DEF Leads
<1>3. At(2) /\ At(1) /\ At(0)
  <2>1. 3 - 1 = 2 /\ 2 - 1 = 1 /\ 1 - 1 = 0
    OBVIOUS
  <2> HIDE DEF At
  <2>2. At(2)
    BY <1>1, <1>2, <2>1
  <2>3. At(1)
    BY <1>2, <2>1, <2>2
  <2> QED
    BY <1>2, <2>1, <2>2, <2>3
<1> QED
  BY <1>1, <1>3

(* A present entry above the last level links a table, but in the identity *)
(* map: outside of it the walk goes on.                                    *)
LEMMA WalkGoesOn ==
  ASSUME NEW lvl, NEW pre, TreeOf(lvl, pre), NEW n \in Frame, NEW level \in 1 .. 3,
         Open(n, level), Present(EntryAt(n, level)), level = 1 => n \notin IdentityPages
  PROVE  /\ EntryAt(n, level) = TableEntry(TableAt(n, level - 1))
         /\ Open(n, level - 1)
<1> DEFINE t == TableAt(n, level)
           i == Index(n, level)
           e == EntryAt(n, level)
<1>1. t \in Ram /\ lvl[t] = level /\ pre[t] = Prefix(n, level)
  BY TableReached
<1>2. e = mem[t][i]
  BY <1>1, EntryRead
<1>3. i \in 0 .. (E - 1)
  BY PrefixStep
<1>4. TableAt(n, level - 1) = e.addr
  <2>1. level - 1 # 3 /\ (level - 1) + 1 = level
    OBVIOUS
  <2> QED
    BY <2>1 DEF TableAt
<1>5. t # P2
  <2> SUFFICES ASSUME t = P2 PROVE FALSE
    OBVIOUS
  <2>1. level = 1 /\ Prefix(n, 1) = 0
    BY <1>1 DEF TreeOf
  <2> QED
    BY <2>1, IdentityPrefix
<1>6. Leads(lvl, pre, t, i)
  BY <1>1, <1>2, <1>3, <1>5 DEF TreeOf
<1>7. e = TableEntry(TableAt(n, level - 1))
  BY <1>2, <1>4, <1>6 DEF Leads
<1>8. Present(e) /\ ~Huge(e)
  BY <1>7 DEF Huge, TableEntry
<1>9. \A k \in 1 .. 3 : k > level - 1 => k = level \/ k > level
  OBVIOUS
<1>10. Open(n, level - 1)
  BY <1>8, <1>9 DEF Open
<1> QED
  BY <1>7, <1>10

(* While the entries above a level stay, the walk to it stays.             *)
LEMMA PathKept ==
  ASSUME NEW lvl, NEW pre, TreeOf(lvl, pre), NEW n \in Frame, NEW level \in 0 .. 3,
         Open(n, level),
         \A f \in Ram, k \in 1 .. 3 :
           k > level /\ lvl[f] = k => mem'[f][Index(n, k)] = mem[f][Index(n, k)]
  PROVE  /\ TableAt(n, level)' = TableAt(n, level)
         /\ Open(n, level)'
         /\ \A k \in 1 .. 3 : k > level => EntryAt(n, k)' = EntryAt(n, k)
<1>1. ASSUME NEW k \in 1 .. 3, k > level, TableAt(n, k)' = TableAt(n, k)
      PROVE  EntryAt(n, k)' = EntryAt(n, k) /\ TableAt(n, k - 1)' = TableAt(n, k - 1)
  <2> DEFINE t == TableAt(n, k)
  <2>1. Open(n, k) /\ k \in 0 .. 3
    BY <1>1 DEF Open
  <2>2. t \in Ram /\ lvl[t] = k
    BY <2>1, TableReached
  <2>3. EntryAt(n, k)' = EntryAt(n, k)
    <3> HIDE DEF t
    <3>1. mem'[t][Index(n, k)] = mem[t][Index(n, k)]
      BY <1>1, <2>2
    <3>2. EntryAt(n, k) = mem[t][Index(n, k)] /\ EntryAt(n, k)' = mem'[t][Index(n, k)]
      BY <1>1, <2>1, <2>2, EntryRead DEF t
    <3> QED
      BY <3>1, <3>2
  <2>4. k - 1 # 3 /\ (k - 1) + 1 = k
    OBVIOUS
  <2> QED
    BY <2>3, <2>4 DEF TableAt
<1>2. TableAt(n, 3)' = TableAt(n, 3)
  BY DEF TableAt
<1>3. 3 - 1 = 2 /\ 2 - 1 = 1 /\ 1 - 1 = 0
  OBVIOUS
<1>4. level < 3 => EntryAt(n, 3)' = EntryAt(n, 3) /\ TableAt(n, 2)' = TableAt(n, 2)
  BY <1>1, <1>2, <1>3
<1>5. level < 2 => EntryAt(n, 2)' = EntryAt(n, 2) /\ TableAt(n, 1)' = TableAt(n, 1)
  BY <1>1, <1>3, <1>4
<1>6. level < 1 => EntryAt(n, 1)' = EntryAt(n, 1) /\ TableAt(n, 0)' = TableAt(n, 0)
  BY <1>1, <1>3, <1>5
<1>7. TableAt(n, level)' = TableAt(n, level)
  <2>1. level = 3 \/ level = 2 \/ level = 1 \/ level = 0
    OBVIOUS
  <2> QED
    BY <1>2, <1>4, <1>5, <1>6, <2>1
<1>8. \A k \in 1 .. 3 : k > level => EntryAt(n, k)' = EntryAt(n, k)
  <2>1. \A k \in 1 .. 3 : k = 3 \/ k = 2 \/ k = 1
    OBVIOUS
  <2> QED
    BY <1>4, <1>5, <1>6, <2>1
<1>9. Open(n, level)'
  BY <1>8 DEF Open, Present, Huge
<1> QED
  BY <1>7, <1>8, <1>9

(* An entry that was empty and now leads to an empty table.                *)
Fresh(f, i) ==
  /\ ~Present(mem[f][i])
  /\ \E c \in Ram : mem'[f][i] = TableEntry(c) /\ mem'[c] = ZeroTable

(* On a tree, the walk of a page is decided by one entry at each level:    *)
(* while those stay, it stays, and a walk that ended at an empty entry     *)
(* also ends when the entry leads to an empty table.                       *)
LEMMA WalkKept ==
  ASSUME NEW lvl, NEW pre, TreeOf(lvl, pre), NEW n \in Frame,
         \A f \in Ram, k \in 0 .. 3 :
           lvl[f] = k /\ pre[f] = Prefix(n, k) =>
             \/ mem'[f][Index(n, k)] = mem[f][Index(n, k)]
             \/ k # 0 /\ Fresh(f, Index(n, k))
  PROVE  Walk(n)' = Walk(n)
<1> DEFINE Same(k) == EntryAt(n, k)' = EntryAt(n, k)
           Ends(k) == /\ ~Present(EntryAt(n, k))
                      /\ EntryAt(n, k)' = TableEntry(TableAt(n, k - 1)')
                      /\ ~Present(EntryAt(n, k - 1)')
<1>1. /\ EntryAt(n, 3) = Entry3(n) /\ EntryAt(n, 2) = Entry2(n)
      /\ EntryAt(n, 1) = Entry1(n) /\ EntryAt(n, 0) = Entry0(n)
      /\ EntryAt(n, 3)' = Entry3(n)' /\ EntryAt(n, 2)' = Entry2(n)'
      /\ EntryAt(n, 1)' = Entry1(n)' /\ EntryAt(n, 0)' = Entry0(n)'
  BY DEF EntryAt
<1>2. ASSUME NEW k \in 0 .. 3, Open(n, k), TableAt(n, k)' = TableAt(n, k)
      PROVE  Same(k) \/ (k # 0 /\ Ends(k))
  <2> DEFINE t == TableAt(n, k)
  <2>1. t \in Ram /\ lvl[t] = k /\ pre[t] = Prefix(n, k)
    BY <1>2, TableReached
  <2>2. EntryAt(n, k) = mem[t][Index(n, k)] /\ EntryAt(n, k)' = mem'[t][Index(n, k)]
    BY <1>2, <2>1, EntryRead
  <2> HIDE DEF t
  <2>3. CASE mem'[t][Index(n, k)] = mem[t][Index(n, k)]
    BY <2>2, <2>3
  <2>4. CASE k # 0 /\ Fresh(t, Index(n, k))
    <3>1. PICK c \in Ram : mem'[t][Index(n, k)] = TableEntry(c) /\ mem'[c] = ZeroTable
      BY <2>4 DEF Fresh
    <3>2. k - 1 \in 0 .. 3 /\ k - 1 # 3 /\ (k - 1) + 1 = k
      BY <2>4
    <3>3. TableAt(n, k - 1)' = c
      BY <2>2, <3>1, <3>2 DEF TableAt, TableEntry
    <3>4. EntryAt(n, k - 1)' = ZeroTable[Index(n, k - 1)]
      BY <3>1, <3>2, <3>3, EntryRead
    <3>5. ~Present(EntryAt(n, k - 1)')
      <4>1. Index(n, k - 1) \in 0 .. (E - 1)
        BY <3>2, IndexType
      <4> QED
        BY <3>4, <4>1 DEF ZeroTable, Zero, Present
    <3> QED
      BY <2>2, <2>4, <3>1, <3>3, <3>5 DEF Fresh
  <2> QED
    BY <2>1, <2>3, <2>4
<1>3. /\ \A c : Present(TableEntry(c)) /\ ~Huge(TableEntry(c))
      /\ 3 - 1 = 2 /\ 2 - 1 = 1 /\ 1 - 1 = 0
  BY DEF Present, Huge, TableEntry
<1>4. Same(3) \/ Ends(3)
  <2>1. Open(n, 3) /\ TableAt(n, 3)' = TableAt(n, 3)
    BY DEF Open, TableAt
  <2> QED
    BY <1>2, <2>1
<1>5. ASSUME NEW k \in 1 .. 3, Open(n, k - 1), Same(k), Present(EntryAt(n, k))
      PROVE  Same(k - 1) \/ (k - 1 # 0 /\ Ends(k - 1))
  <2>1. k - 1 \in 0 .. 3 /\ k - 1 # 3 /\ (k - 1) + 1 = k
    OBVIOUS
  <2>2. TableAt(n, k - 1)' = TableAt(n, k - 1)
    BY <1>5, <2>1 DEF TableAt
  <2> QED
    BY <1>2, <1>5, <2>1, <2>2
<1>6. Same(3) /\ Present(Entry3(n)) => Open(n, 2) /\ (Same(2) \/ Ends(2))
  <2> SUFFICES ASSUME Same(3), Present(Entry3(n)) PROVE Open(n, 2) /\ (Same(2) \/ Ends(2))
    OBVIOUS
  <2>1. Open(n, 3)
    BY DEF Open
  <2>2. Open(n, 2)
    BY <1>1, <1>3, <2>1, WalkGoesOn
  <2> QED
    BY <1>1, <1>3, <1>5, <2>2
<1>7. Open(n, 2) /\ Same(2) /\ Present(Entry2(n)) => Open(n, 1) /\ (Same(1) \/ Ends(1))
  <2> SUFFICES ASSUME Open(n, 2), Same(2), Present(Entry2(n))
               PROVE  Open(n, 1) /\ (Same(1) \/ Ends(1))
    OBVIOUS
  <2>1. Open(n, 1)
    BY <1>1, <1>3, WalkGoesOn
  <2> QED
    BY <1>1, <1>3, <1>5, <2>1
<1>8. Open(n, 1) /\ Same(1) /\ Present(Entry1(n)) /\ ~Huge(Entry1(n)) => Same(0)
  <2> SUFFICES ASSUME Open(n, 1), Same(1), Present(Entry1(n)), ~Huge(Entry1(n))
               PROVE  Same(0)
    OBVIOUS
  <2>1. Open(n, 0)
    <3>1. \A k \in 1 .. 3 : k > 0 => k = 1 \/ k > 1
      OBVIOUS
    <3> QED
      BY <1>1, <3>1 DEF Open
  <2> QED
    BY <1>1, <1>3, <1>5, <2>1
<1>9. Open(n, 1) => ~Huge(Entry2(n))
  <2>1. 2 \in 1 .. 3 /\ 2 > 1
    OBVIOUS
  <2> QED
    BY <1>1, <2>1 DEF Open
<1> DEFINE NoWalk == ~Present(Entry3(n)) \/ ~Present(Entry2(n))
                     \/ (~Huge(Entry2(n)) /\ ~Present(Entry1(n)))
                     \/ (~Huge(Entry2(n)) /\ ~Huge(Entry1(n)) /\ ~Present(Entry0(n)))
<1>10. NoWalk => Walk(n) = NoPage
  BY DEF Walk
<1>11. NoWalk' => Walk(n)' = NoPage
  BY DEF Walk, Present, Huge
<1>12. CASE Ends(3)
  BY <1>1, <1>3, <1>10, <1>11, <1>12
<1>13. CASE Same(3) /\ ~Present(Entry3(n))
  BY <1>1, <1>10, <1>11, <1>13
<1>14. CASE Same(3) /\ Present(Entry3(n)) /\ Ends(2)
  BY <1>1, <1>3, <1>10, <1>11, <1>14
<1>15. CASE Same(3) /\ Open(n, 2) /\ Same(2) /\ ~Present(Entry2(n))
  BY <1>1, <1>10, <1>11, <1>15
<1>16. CASE Same(3) /\ Same(2) /\ Present(Entry2(n)) /\ Open(n, 1) /\ Ends(1)
  BY <1>1, <1>3, <1>9, <1>10, <1>11, <1>16
<1>17. CASE Same(3) /\ Same(2) /\ Open(n, 1) /\ Same(1) /\ ~Present(Entry1(n))
  BY <1>1, <1>9, <1>10, <1>11, <1>17
<1>18. CASE Same(3) /\ Same(2) /\ Open(n, 1) /\ Same(1) /\ Huge(Entry1(n))
  <2> QED
    BY <1>1, <1>9, <1>18 DEF Walk, Leaf
<1>19. CASE Same(3) /\ Same(2) /\ Open(n, 1) /\ Same(1) /\ Same(0)
  BY <1>1, <1>9, <1>19 DEF Walk, Leaf
<1> HIDE DEF Same, Ends
<1> QED
  BY <1>4, <1>6, <1>7, <1>8, <1>12, <1>13, <1>14, <1>15, <1>16, <1>17, <1>18, <1>19

(* On a tree, the three first tables identity-map what the boot code meant *)
(* them to.                                                                *)
LEMMA IdentityWalk ==
  ASSUME NEW lvl, NEW pre, TreeOf(lvl, pre), NEW n \in Frame, n \in IdentityPages
  PROVE  Walk(n) = [frame |-> n, flags |-> {"PRESENT", "RW"}]
<1>1. E \in Nat \ {0} /\ n \in Nat
  BY SizesAssumption DEF Frame
<1> DEFINE i == Index(n, 1)
<1>2. /\ Index(n, 3) = 0 /\ Index(n, 2) = 0
      /\ i \in 0 .. (E - 1) /\ Prefix(n, 0) = i
  <2>1. Prefix(n, 1) = 0
    BY IdentityPrefix
  <2>2. /\ Prefix(n, 3) \in Nat /\ Index(n, 3) \in 0 .. (E - 1)
        /\ Prefix(n, 2) = Prefix(n, 3) * E + Index(n, 3)
    <3>1. /\ Prefix(n, 3) \in Nat /\ Index(n, 3) \in 0 .. (E - 1)
          /\ Prefix(n, 3 - 1) = Prefix(n, 3) * E + Index(n, 3)
      BY PrefixStep
    <3>2. 3 - 1 = 2
      OBVIOUS
    <3> QED
      BY <3>1, <3>2
  <2>3. /\ Prefix(n, 2) \in Nat /\ Index(n, 2) \in 0 .. (E - 1)
        /\ Prefix(n, 1) = Prefix(n, 2) * E + Index(n, 2)
    <3>1. /\ Prefix(n, 2) \in Nat /\ Index(n, 2) \in 0 .. (E - 1)
          /\ Prefix(n, 2 - 1) = Prefix(n, 2) * E + Index(n, 2)
      BY PrefixStep
    <3>2. 2 - 1 = 1
      OBVIOUS
    <3> QED
      BY <3>1, <3>2
  <2>4. i \in 0 .. (E - 1) /\ Prefix(n, 0) = Prefix(n, 1) * E + i
    <3>1. i \in 0 .. (E - 1) /\ Prefix(n, 1 - 1) = Prefix(n, 1) * E + i
      BY PrefixStep
    <3>2. 1 - 1 = 0
      OBVIOUS
    <3> QED
      BY <3>1, <3>2
  <2> DEFINE p2 == Prefix(n, 2)
             x2 == Index(n, 2)
             x3 == Index(n, 3)
  <2>5. p2 = 0 /\ x2 = 0
    <3>1. p2 \in Nat /\ x2 \in Nat /\ p2 * E + x2 = 0
      BY <2>1, <2>3
    <3> HIDE DEF p2, x2
    <3>2. p2 * E \in Nat /\ (p2 # 0 => p2 * E # 0)
      BY <1>1, <3>1
    <3> QED
      BY <3>1, <3>2
  <2>6. x3 = 0
    <3> DEFINE p3 == Prefix(n, 3)
    <3>1. p3 \in Nat /\ x3 \in Nat /\ p3 * E + x3 = 0
      BY <2>2, <2>5
    <3> HIDE DEF p3, x3
    <3>2. p3 * E \in Nat
      BY <1>1, <3>1
    <3> QED
      BY <3>1, <3>2
  <2>7. Prefix(n, 0) = i
    <3> HIDE DEF i
    <3>1. 0 * E + i = i
      BY <1>1, <2>4
    <3> QED
      BY <2>1, <2>4, <3>1
  <2> QED
    BY <2>4, <2>5, <2>6, <2>7
<1>3. P4 \in Ram /\ P3 \in Ram /\ P2 \in Ram
  BY BootAssumption
<1>4. Entry3(n) = TableEntry(P3)
  BY <1>2, <1>3 DEF Entry3, Cell, TreeOf
<1>5. Entry2(n) = TableEntry(P2)
  <2>1. Entry3(n).addr = P3
    BY <1>4 DEF TableEntry
  <2> QED
    BY <1>2, <1>3, <2>1 DEF Entry2, Cell, TreeOf
<1>6. Entry1(n) = HugeEntry(i)
  <2>1. Entry2(n).addr = P2
    BY <1>5 DEF TableEntry
  <2> QED
    BY <1>2, <1>3, <2>1 DEF Entry1, Cell, TreeOf
<1>7. Walk(n) = Leaf(HugeEntry(i), HugeEntry(i).addr, n % Power(1), {TableEntry(P3), TableEntry(P2)})
  <2>1. Present(TableEntry(P3)) /\ Present(TableEntry(P2)) /\ ~Huge(TableEntry(P2))
    BY DEF Present, Huge, TableEntry
  <2>2. Present(HugeEntry(i)) /\ Huge(HugeEntry(i))
    BY DEF Present, Huge, HugeEntry
  <2> HIDE DEF i
  <2> QED
    BY <1>4, <1>5, <1>6, <2>1, <2>2 DEF Walk
<1>8. HugeEntry(i).addr + (n % Power(1)) = n
  <2>1. n = Prefix(n, 0) * E + Index(n, 0)
    BY PageFromPrefix
  <2>2. Index(n, 0) = n % E /\ Power(1) = E
    <3>1. n \div 1 = n
      BY <1>1
    <3> QED
      BY <3>1 DEF Index, Power
  <2>3. HugeEntry(i).addr = i * E
    BY DEF HugeEntry
  <2> HIDE DEF i
  <2> QED
    BY <1>2, <2>1, <2>2, <2>3
<1>9. {g \in HugeEntry(i).flags \ {"HUGE"} :
         g \in {"RW", "USER"} => \A u \in {TableEntry(P3), TableEntry(P2)} : g \in u.flags}
        = {"PRESENT", "RW"}
  BY DEF HugeEntry, TableEntry
<1> QED
  BY <1>7, <1>8, <1>9 DEF Leaf

-----------------------------------------------------------------------------
(* The invariant *)

InPlace(virt, phys) == PageOf(virt) \in Ram => PageOf(phys) = PageOf(virt)

(* No call maps or unmaps a page of the identity map, which would descend  *)
(* through the huge page as if it were a table (MapTakesEffect), nor gives *)
(* a page of the RAM another frame than its own, by which the kernel would *)
(* address another frame than it means to.                                 *)
CallsOutside ==
  /\ \A a \in MapArgs : PageOf(a.virt) \notin IdentityPages
  /\ \A a \in UnmapArgs : PageOf(a) \notin IdentityPages
  /\ \A a \in FbArgs : PageOf(a.phys) \notin IdentityPages
  /\ \A a \in MapArgs : InPlace(a.virt, a.phys)

(* Every machine's bitmap lies in frames memory_init left reserved.        *)
BitmapReserved ==
  \A used0 \in BootBitmaps, f \in Ram : BitsIn[f] # {} => f \in used0

OpInv ==
  /\ op \in Op \cup {Idle}
  /\ op # Idle => PageOf(op.virt) \notin IdentityPages
  /\ op # Idle /\ op.kind = "map" => InPlace(op.virt, op.phys)

(* The framebuffer's loop counts whole pages and ends with the last one    *)
(* the framebuffer is in.                                                  *)
FbType ==
  fb # NoFb =>
    /\ fb \in [phys : Nat, size : Nat, offset : Nat, short : BOOLEAN, end : Nat]
    /\ \E k \in Nat : fb.offset = PageSize * k
    /\ \E q \in Nat : fb.end = PageSize * q
    /\ fb.end < fb.size + PageSize
    /\ fb.phys + fb.size \in Address
    /\ pml4 # NoTable

(* The pages it has still to map are outside of the identity map.          *)
FbInv == FbType /\ (fb # NoFb => PageOf(fb.phys + fb.offset) \notin IdentityPages)

(* The entry of the call's page in the table it has come to                *)
Here == Cell(op.table, Slot)

(* A call walks down the tables of its page; a new table is zero and       *)
(* belongs to no level until it is linked to an empty entry.               *)
OpOnTree(lvl, pre) ==
  op # Idle =>
    /\ op.pc \in {"walk", "link"} =>
         /\ op.table \in Ram
         /\ lvl[op.table] = op.level
         /\ pre[op.table] = Prefix(PageOf(op.virt), op.level)
    /\ op.pc = "link" =>
         /\ op.level \in 1 .. 3
         /\ op.new \in used
         /\ lvl[op.new] = 4
         /\ BitsIn[op.new] = {}
         /\ mem[op.new] = ZeroTable
         /\ ~Present(Here)

TreeInv ==
  \E lvl \in [Ram -> 0 .. 4], pre \in [Ram -> Nat] :
    TreeOf(lvl, pre) /\ OpOnTree(lvl, pre)

TlbInv ==
  /\ \A t \in tlb : t.page \in TlbPages /\ t.target # NoPage
  /\ TlbCoherent

PagingInv == MemType /\ pml4 \in {NoTable, P4} /\ OpInv /\ FbInv /\ TreeInv /\ TlbInv

Flushing == op # Idle /\ op.pc = "flush"

(* While the tables stay, so do the walks.                                 *)
LEMMA WalkStays ==
  ASSUME mem' = mem, NEW n
  PROVE  Walk(n)' = Walk(n)
<1>1. \A f, i : Cell(f, i)' = Cell(f, i)
  BY DEF Cell
<1>2. Entry3(n)' = Entry3(n)
  BY <1>1 DEF Entry3
<1>3. Entry2(n)' = Entry2(n)
  BY <1>1, <1>2 DEF Entry2
<1>4. Entry1(n)' = Entry1(n)
  BY <1>1, <1>3 DEF Entry1
<1>5. Entry0(n)' = Entry0(n)
  BY <1>1, <1>4 DEF Entry0
<1> QED
  BY <1>2, <1>3, <1>4, <1>5 DEF Walk, Present, Huge, Leaf

(* A step that touches neither walks nor TLB, outside of a flush, leaves   *)
(* cached translations right.                                              *)
LEMMA TlbStays ==
  ASSUME TlbInv, ~Flushing, \A n \in Frame : Walk(n)' = Walk(n), tlb' = tlb
  PROVE  TlbInv'
<1>1. \A t \in tlb : t.page \in Frame /\ Walk(t.page) = t.target
  BY SizesAssumption DEF TlbInv, TlbCoherent, Flushing
<1>2. \A t \in tlb : Walk(t.page)' = t.target
  BY <1>1
<1> QED
  BY <1>2 DEF TlbInv, TlbCoherent

(* Frames and the pages of addresses are in the address space.             *)
LEMMA FrameType ==
  /\ Ram \subseteq Frame
  /\ \A a \in Address : a \in Nat /\ PageOf(a) \in Frame
<1> DEFINE f == E * E * E * E
<1>1. E \in Nat \ {0} /\ PageSize \in Nat \ {0} /\ RamFrames \in Nat /\ RamFrames <= f
  BY SizesAssumption
<1>2. f \in Nat \ {0}
  <2>1. E * E \in Nat \ {0}
    BY <1>1
  <2>2. E * E * E \in Nat \ {0}
    BY <1>1, <2>1
  <2> QED
    BY <1>1, <2>2
<1>3. Frame = 0 .. (f - 1) /\ Address = 0 .. (f * PageSize - 1)
  BY DEF Frame, Address
<1> HIDE DEF f
<1>4. Ram \subseteq Frame
  BY <1>1, <1>2, <1>3 DEF Ram
<1>5. ASSUME NEW a \in Address PROVE a \in Nat /\ PageOf(a) \in Frame
  <2>1. f * PageSize = PageSize * f /\ f * PageSize \in Nat
    BY <1>1, <1>2
  <2>2. a \in Nat /\ a < PageSize * f
    BY <1>3, <2>1
  <2>3. a \div PageSize < f /\ a \div PageSize \in Nat
    BY <1>1, <1>2, <2>2, QuotientBelow, Division
  <2> QED
    BY <1>2, <1>3, <2>2, <2>3 DEF PageOf
<1> QED
  BY <1>4, <1>5

(* The address space has no holes.                                         *)
LEMMA AddressDownwards ==
  ASSUME NEW a \in Address, NEW b \in Nat, b <= a
  PROVE  b \in Address
<1> DEFINE f == E * E * E * E
           x == f * PageSize - 1
<1>1. E \in Nat /\ PageSize \in Nat
  BY SizesAssumption
<1>2. f \in Nat
  <2>1. E * E \in Nat
    BY <1>1
  <2>2. E * E * E \in Nat
    BY <1>1, <2>1
  <2> QED
    BY <1>1, <2>2
<1>3. Address = 0 .. x
  BY DEF Address
<1>4. x \in Int
  <2> HIDE DEF f
  <2> QED
    BY <1>1, <1>2
<1> HIDE DEF x
<1> QED
  BY <1>3, <1>4

(* Addresses behind one outside the identity map are outside, too.         *)
LEMMA OutsideUpwards ==
  ASSUME NEW a \in Nat, NEW b \in Nat, a <= b, PageOf(a) \notin IdentityPages
  PROVE  PageOf(b) \notin IdentityPages
<1>1. PageSize \in Nat \ {0} /\ E * E \in Nat
  BY SizesAssumption
<1>2. /\ a \div PageSize <= b \div PageSize
      /\ a \div PageSize \in Nat /\ b \div PageSize \in Nat
  BY <1>1, DivMonotone, Division
<1> DEFINE c == a \div PageSize
           d == b \div PageSize
           s == E * E
<1>3. c \in Nat /\ d \in Nat /\ c <= d /\ s \in Nat
  BY <1>1, <1>2
<1> HIDE DEF c, d, s
<1>4. IdentityPages = 0 .. (s - 1) /\ PageOf(a) = c /\ PageOf(b) = d
  BY DEF IdentityPages, PageOf, c, d, s
<1> QED
  BY <1>3, <1>4

-----------------------------------------------------------------------------
(* The kernel's pointers *)

(* A frame the kernel can address is addressed as itself.                  *)
LEMMA DirectWalk ==
  ASSUME NEW lvl, NEW pre, TreeOf(lvl, pre), NEW n \in Ram, Walk(n) # NoPage
  PROVE  Walk(n).frame = n
<1>1. n \in Frame /\ n \in Nat
  BY FrameType, SizesAssumption DEF Ram
<1>2. CASE n \in IdentityPages
  BY <1>1, <1>2, IdentityWalk
<1>3. CASE n \notin IdentityPages
  <2>1. /\ EntryAt(n, 3) = Entry3(n) /\ EntryAt(n, 2) = Entry2(n)
        /\ EntryAt(n, 1) = Entry1(n) /\ EntryAt(n, 0) = Entry0(n)
    BY DEF EntryAt
  <2>2. /\ \A t : ~Huge(TableEntry(t))
        /\ 3 - 1 = 2 /\ 2 - 1 = 1 /\ 1 - 1 = 0
        /\ 3 \in 1 .. 3 /\ 2 \in 1 .. 3 /\ 1 \in 1 .. 3 /\ 0 \in 0 .. 3
    BY DEF Huge, TableEntry
  <2>3. Present(Entry3(n)) /\ Present(Entry2(n))
    BY DEF Walk
  <2>4. Open(n, 3)
    BY DEF Open
  <2>5. Open(n, 2)
    BY <1>1, <1>3, <2>1, <2>2, <2>3, <2>4, WalkGoesOn
  <2>6. Open(n, 1) /\ ~Huge(Entry2(n))
    BY <1>1, <1>3, <2>1, <2>2, <2>3, <2>5, WalkGoesOn
  <2>7. Present(Entry1(n))
    BY <2>3, <2>6 DEF Walk
  <2>8. Open(n, 0) /\ ~Huge(Entry1(n))
    BY <1>1, <1>3, <2>1, <2>2, <2>6, <2>7, WalkGoesOn
  <2>9. /\ Present(Entry0(n))
        /\ Walk(n) = Leaf(Entry0(n), Entry0(n).addr, 0, {Entry3(n), Entry2(n), Entry1(n)})
    BY <2>3, <2>6, <2>7, <2>8 DEF Walk
  <2> DEFINE t == TableAt(n, 0)
             i == Index(n, 0)
  <2>10. t \in Ram /\ lvl[t] = 0 /\ pre[t] = Prefix(n, 0)
    BY <1>1, <2>2, <2>8, TableReached
  <2>11. Entry0(n) = mem[t][i]
    BY <2>1, <2>2, <2>10, EntryRead
  <2>12. i \in 0 .. (E - 1) /\ n = Prefix(n, 0) * E + i
    BY <1>1, <2>2, IndexType, PageFromPrefix
  <2> HIDE DEF t, i
  <2>13. Placed(pre, t, i)
    BY <2>9, <2>10, <2>11, <2>12 DEF TreeOf
  <2>14. Entry0(n).addr = n
    BY <2>10, <2>11, <2>12, <2>13 DEF Placed
  <2>15. n + 0 = n
    BY <1>1
  <2> QED
    BY <2>9, <2>14, <2>15 DEF Leaf
<1> QED
  BY <1>2, <1>3

(* The call in progress, outside the identity map.                         *)
LEMMA OpFacts ==
  ASSUME OpInv, op # Idle
  PROVE  /\ op \in Op
         /\ PageOf(op.virt) \in Frame /\ PageOf(op.phys) \in Frame
         /\ PageOf(op.virt) \notin IdentityPages
         /\ op.level \in 0 .. 3 /\ Slot \in 0 .. (E - 1)
<1>1. op \in Op
  BY DEF OpInv
<1>2. op.virt \in Address /\ op.phys \in Address /\ op.level \in 0 .. 3
  BY <1>1 DEF Op
<1>3. PageOf(op.virt) \in Frame /\ PageOf(op.phys) \in Frame
  BY <1>2, FrameType
<1>4. Slot \in 0 .. (E - 1)
  BY <1>2, <1>3, IndexType DEF Slot
<1> QED
  BY <1>1, <1>2, <1>3, <1>4 DEF OpInv

(* So the table a call has come to is the one it reads and writes, and     *)
(* holds no part of the bitmap.                                            *)
LEMMA PlainAccess ==
  ASSUME OpInv, TreeInv, op # Idle, op.pc \in {"walk", "link"}, Addressable(op.table)
  PROVE  /\ Behind(op.table) = op.table
         /\ Current = Here
         /\ Scribbled(op.table) = {used}
<1>1. PICK lvl \in [Ram -> 0 .. 4], pre \in [Ram -> Nat] :
        TreeOf(lvl, pre) /\ OpOnTree(lvl, pre)
  BY DEF TreeInv
<1>2. op.level \in 0 .. 3
  BY OpFacts
<1>3. op.table \in Ram /\ lvl[op.table] = op.level
  BY <1>1 DEF OpOnTree
<1>4. Behind(op.table) = op.table
  BY <1>1, <1>3, DirectWalk DEF Addressable, Behind
<1>5. BitsIn[op.table] = {}
  BY <1>1, <1>2, <1>3 DEF TreeOf
<1>6. Bits(op.table) = {}
  BY <1>3, <1>5 DEF Bits
<1>7. Scribbled(op.table) = {used}
  BY <1>6 DEF Scribbled
<1> QED
  BY <1>4, <1>7 DEF Current, Here

(* The steps of a call, in terms of its own table: down to the next one,  *)
LEMMA DescendPlain ==
  ASSUME OpInv, TreeInv, Descend
  PROVE  /\ op # Idle /\ op.pc = "walk" /\ op.level \in 1 .. 3 /\ Present(Here)
         /\ op' = [op EXCEPT !.table = Here.addr, !.level = op.level - 1]
BY PlainAccess DEF Descend, Walking

(* to a table that is missing,                                             *)
LEMMA NeedsPlain ==
  ASSUME OpInv, TreeInv, NeedsTable
  PROVE  /\ op # Idle /\ op.pc = "walk" /\ op.level \in 1 .. 3 /\ op.kind = "map"
         /\ ~Present(Here) /\ 0 \in used /\ (NoFrame => FreeFrames = {})
<1>1. 0 \in used
  BY DEF TreeInv, TreeOf
<1> QED
  BY <1>1, PlainAccess DEF NeedsTable, Walking, NoFrame, FreeFrames

(* The search finds a frame that is free.                                  *)
LEMMA FirstFreeType ==
  ASSUME FreeFrames # {}
  PROVE  FirstFree \in Ram \ used
<1>1. FreeFrames \in SUBSET Nat
  BY SizesAssumption DEF FreeFrames, Ram
<1>2. \E f \in FreeFrames : \A g \in FreeFrames : f <= g
  BY <1>1, LeastElement
<1> QED
  BY <1>2 DEF FirstFree, FreeFrames

(* A new table is a free frame, zeroed, that holds no part of the bitmap.  *)
LEMMA AllocPlain ==
  ASSUME OpInv, TreeInv, AllocTable
  PROVE  /\ op # Idle /\ op.pc = "walk" /\ op.level \in 1 .. 3 /\ op.kind = "map"
         /\ ~Present(Here)
         /\ FreeFrames # {} /\ FirstFree \in Ram \ used
         /\ Reachable(FirstFree) /\ BitsIn[FirstFree] = {}
         /\ used' = used \cup {FirstFree}
         /\ mem' = [mem EXCEPT ![FirstFree] = ZeroTable]
         /\ op' = [op EXCEPT !.pc = "link", !.new = FirstFree]
<1>1. NeedsTable /\ FreeFrames # {} /\ Addressable(FirstFree)
  BY DEF AllocTable, NoFrame
<1>2. FirstFree \in Ram \ used
  BY <1>1, FirstFreeType
<1>3. PICK lvl \in [Ram -> 0 .. 4], pre \in [Ram -> Nat] :
        TreeOf(lvl, pre) /\ OpOnTree(lvl, pre)
  BY DEF TreeInv
<1>4. Behind(FirstFree) = FirstFree /\ Reachable(FirstFree)
  BY <1>1, <1>2, <1>3, DirectWalk DEF Addressable, Behind, Reachable
<1>5. BitsIn[FirstFree] = {}
  BY <1>2, <1>3 DEF TreeOf
<1>6. Bits(FirstFree) = {}
  BY <1>2, <1>5 DEF Bits
<1>7. /\ used' = Marked(FirstFree) \ Bits(FirstFree)
      /\ mem' = ZeroFrame(FirstFree)
      /\ op' = [op EXCEPT !.pc = "link", !.new = FirstFree]
  BY <1>4 DEF AllocTable
<1> QED
  BY <1>1, <1>2, <1>4, <1>5, <1>6, <1>7, NeedsPlain DEF Marked, ZeroFrame

(* It is linked where the call has found nothing.                          *)
LEMMA LinkPlain ==
  ASSUME OpInv, TreeInv, LinkTable
  PROVE  /\ op # Idle /\ op.pc = "link" /\ used' = used
         /\ mem' = Store(op.table, Slot, TableEntry(op.new))
         /\ op' = [op EXCEPT !.pc = "walk", !.table = op.new, !.level = op.level - 1]
BY PlainAccess DEF LinkTable

(* An allocation fails when no frame is left.                              *)
LEMMA FailsPlain ==
  ASSUME OpInv, TreeInv, AllocFails
  PROVE  /\ op # Idle /\ op.pc = "walk" /\ op.level \in 1 .. 3 /\ op.kind = "map"
         /\ ~Present(Here) /\ FreeFrames = {} /\ used' = used
<1>1. NeedsTable /\ NoFrame /\ used' = used \cup (FreeFrames \cap {0})
  BY DEF AllocFails
<1> QED
  BY <1>1, NeedsPlain

(* There is nothing to unmap where no table is.                            *)
LEMMA NothingPlain ==
  ASSUME OpInv, TreeInv, NothingToUnmap
  PROVE  /\ op # Idle /\ op.pc = "walk" /\ op.level \in 1 .. 3 /\ op.kind = "unmap"
         /\ ~Present(Here)
BY PlainAccess DEF NothingToUnmap, Walking

(* The last entry is written in the table the call has come to.            *)
LEMMA SetEntryPlain ==
  ASSUME OpInv, TreeInv, SetEntry
  PROVE  /\ op # Idle /\ op.pc = "walk" /\ op.level = 0 /\ used' = used
         /\ mem' = Store(op.table, Slot,
                     IF op.kind = "map" THEN [addr |-> PageOf(op.phys), flags |-> op.flags]
                                        ELSE Zero)
         /\ op' = [op EXCEPT !.pc = "flush"]
BY PlainAccess DEF SetEntry, Walking

(* A faulting call stops where it is.                                      *)
LEMMA FaultPlain ==
  ASSUME Fault
  PROVE  op # Idle /\ op.pc \in {"walk", "link"}
BY DEF Fault, NeedsTable, Walking

-----------------------------------------------------------------------------
(* Steps *)

(* A call starts at the root.                                              *)
LEMMA BeginInv ==
  ASSUME TreeInv, pml4 = P4, mem' = mem, used' = used,
         NEW kind \in {"map", "unmap"}, NEW virt \in Address, NEW phys \in Address,
         NEW flags \in SUBSET Flag, PageOf(virt) \notin IdentityPages,
         kind = "map" => InPlace(virt, phys),
         op' = Begin(kind, virt, phys, flags)
  PROVE  OpInv' /\ TreeInv'
<1>1. P4 \in Ram /\ P4 \in Frame /\ 0 \in Ram
  <2>1. P4 \in Ram /\ RamFrames \in Nat
    BY BootAssumption, SizesAssumption
  <2> QED
    BY <2>1, FrameType DEF Ram
<1>2. op' = [pc |-> "walk", kind |-> kind, virt |-> virt, phys |-> phys, flags |-> flags,
             level |-> 3, table |-> P4, new |-> 0]
  BY DEF Begin
<1>3. op' \in Op
  <2>1. 3 \in 0 .. 3
    OBVIOUS
  <2> QED
    BY <1>1, <1>2, <2>1 DEF Op
<1>4. OpInv'
  BY <1>2, <1>3 DEF OpInv
<1>5. PICK lvl \in [Ram -> 0 .. 4], pre \in [Ram -> Nat] : TreeOf(lvl, pre)
  BY DEF TreeInv
<1>6. TreeOf(lvl, pre)'
  BY <1>5 DEF TreeOf, Leads, Placed
<1>7. OpOnTree(lvl, pre)'
  <2>1. Prefix(PageOf(virt), 3) = 0
    BY DEF Prefix
  <2> QED
    BY <1>1, <1>2, <1>5, <2>1 DEF OpOnTree, TreeOf
<1> QED
  BY <1>4, <1>6, <1>7 DEF TreeInv

(* A step that changes no table and does not walk.                         *)
LEMMA TreeStays ==
  ASSUME TreeInv, mem' = mem, used' = used,
         op' = op \/ op' = Idle \/ (op'.pc # "walk" /\ op'.pc # "link")
  PROVE  TreeInv'
<1>1. PICK lvl \in [Ram -> 0 .. 4], pre \in [Ram -> Nat] :
        TreeOf(lvl, pre) /\ OpOnTree(lvl, pre)
  BY DEF TreeInv
<1>2. TreeOf(lvl, pre)'
  BY <1>1 DEF TreeOf, Leads, Placed
<1>3. OpOnTree(lvl, pre)'
  BY <1>1 DEF OpOnTree, Here, Slot, Cell
<1> QED
  BY <1>2, <1>3 DEF TreeInv

(* A step down leads to the next table of the page: never through a huge   *)
(* page, whose table is that of the identity map.                          *)
LEMMA DescendInv ==
  ASSUME OpInv, TreeInv, Descend
  PROVE  OpInv' /\ TreeInv'
<1> DEFINE n == PageOf(op.virt)
           c == Here.addr
<1>1. /\ op # Idle /\ op.pc = "walk" /\ op.level \in 1 .. 3 /\ Present(Here)
      /\ op' = [op EXCEPT !.table = c, !.level = op.level - 1]
      /\ mem' = mem /\ used' = used
  BY DescendPlain DEF Descend
<1>2. PICK lvl \in [Ram -> 0 .. 4], pre \in [Ram -> Nat] :
        TreeOf(lvl, pre) /\ OpOnTree(lvl, pre)
  BY DEF TreeInv
<1>3. /\ op \in Op /\ n \in Frame /\ n \notin IdentityPages
      /\ Slot \in 0 .. (E - 1) /\ Slot = Index(n, op.level)
  BY <1>1, OpFacts DEF Slot
<1>4. /\ op.table \in Ram /\ lvl[op.table] = op.level
      /\ pre[op.table] = Prefix(n, op.level)
  BY <1>1, <1>2 DEF OpOnTree
<1>5. Here = mem[op.table][Slot]
  BY <1>4 DEF Here, Cell
<1>6. op.table # P2
  <2> SUFFICES ASSUME op.table = P2 PROVE FALSE
    OBVIOUS
  <2>1. op.level = 1 /\ Prefix(n, op.level) = 0
    BY <1>2, <1>4 DEF TreeOf
  <2> QED
    BY <1>3, <2>1, IdentityPrefix
<1>7. Leads(lvl, pre, op.table, Slot)
  BY <1>1, <1>2, <1>3, <1>4, <1>5, <1>6 DEF TreeOf
<1>8. c \in Ram /\ lvl[c] = op.level - 1 /\ pre[c] = Prefix(n, op.level) * E + Slot
  BY <1>4, <1>5, <1>7 DEF Leads
<1>9. pre[c] = Prefix(n, op.level - 1)
  BY <1>1, <1>3, <1>8, PrefixStep
<1> HIDE DEF c
<1>10. op.level - 1 \in 0 .. 3
  BY <1>1
<1>11. /\ op' \in Op /\ op'.virt = op.virt /\ op'.pc = "walk"
       /\ op'.kind = op.kind /\ op'.phys = op.phys /\ op'.table = c /\ op'.level = op.level - 1
  <2>1. c \in Frame
    BY <1>8, FrameType
  <2> QED
    BY <1>1, <1>3, <1>10, <2>1 DEF Op
<1>12. TreeOf(lvl, pre)'
  BY <1>1, <1>2 DEF TreeOf, Leads, Placed
<1>13. OpOnTree(lvl, pre)'
  BY <1>8, <1>9, <1>11 DEF OpOnTree
<1> QED
  BY <1>1, <1>3, <1>11, <1>12, <1>13 DEF OpInv, TreeInv

(* Zeroing a free frame leaves the tables alone.                           *)
LEMMA AllocInv ==
  ASSUME PagingInv, AllocTable
  PROVE  /\ MemType' /\ OpInv' /\ TreeInv' /\ TlbInv'
         /\ \A n \in Frame : Walk(n)' = Walk(n)
<1> DEFINE f == FirstFree
<1>1. /\ op # Idle /\ op.pc = "walk" /\ op.level \in 1 .. 3 /\ ~Present(Here)
      /\ used' = used \cup {f}
      /\ mem' = [mem EXCEPT ![f] = ZeroTable]
      /\ op' = [op EXCEPT !.pc = "link", !.new = f]
      /\ tlb' = tlb
  BY AllocPlain DEF PagingInv, AllocTable
<1>2. f \in Ram /\ f \notin used /\ BitsIn[f] = {}
  BY AllocPlain DEF PagingInv
<1> HIDE DEF f
<1>3. PICK lvl \in [Ram -> 0 .. 4], pre \in [Ram -> Nat] :
        TreeOf(lvl, pre) /\ OpOnTree(lvl, pre)
  BY DEF PagingInv, TreeInv
<1>4. lvl[f] = 4
  BY <1>2, <1>3 DEF TreeOf
<1>5. op \in Op /\ op' \in Op /\ op'.pc = "link" /\ op'.new = f
      /\ op'.virt = op.virt /\ op'.level = op.level /\ op'.table = op.table
      /\ op'.kind = op.kind /\ op'.phys = op.phys
  <2>1. op \in Op
    BY <1>1, OpFacts DEF PagingInv
  <2> QED
    BY <1>1, <1>2, <2>1 DEF Op
<1>6. \A g \in Ram : g # f => mem'[g] = mem[g]
  BY <1>1, <1>2 DEF PagingInv, MemType
<1>7. mem'[f] = ZeroTable
  BY <1>1, <1>2 DEF PagingInv, MemType
<1>8. MemType'
  <2>1. ZeroTable \in [0 .. (E - 1) -> Entry]
    <3>1. 0 \in Frame
      <4>1. 0 \in Ram
        BY BootAssumption, SizesAssumption DEF Ram
      <4> QED
        BY <4>1, FrameType
    <3> QED
      BY <3>1 DEF ZeroTable, Zero, Entry
  <2> QED
    BY <1>1, <2>1 DEF PagingInv, MemType
<1>9. P4 # f /\ P3 # f /\ P2 # f /\ P4 \in Ram /\ P3 \in Ram /\ P2 \in Ram
  BY <1>3, <1>4, BootAssumption DEF TreeOf
<1>10. TreeOf(lvl, pre)'
  <2>1. /\ \A g \in Ram : lvl[g] # 4 => g \in used' /\ BitsIn[g] = {}
        /\ \A g \in Ram : BitsIn[g] # {} => g \in used'
        /\ 0 \in used'
    BY <1>1, <1>3 DEF TreeOf
  <2>2. /\ mem'[P4][0] = TableEntry(P3) /\ mem'[P3][0] = TableEntry(P2)
        /\ \A i \in 0 .. (E - 1) : mem'[P2][i] = HugeEntry(i)
    BY <1>3, <1>6, <1>9 DEF TreeOf
  <2>3. ASSUME NEW g \in Ram, NEW i \in 0 .. (E - 1),
               lvl[g] \in 1 .. 3, g # P2, Present(mem'[g][i])
        PROVE  Leads(lvl, pre, g, i)'
    <3>1. mem'[g] = mem[g]
      BY <1>4, <1>6, <2>3
    <3>2. Leads(lvl, pre, g, i)
      BY <1>3, <2>3, <3>1 DEF TreeOf
    <3> QED
      BY <3>1, <3>2 DEF Leads
  <2>4. ASSUME NEW g \in Ram, NEW i \in 0 .. (E - 1), lvl[g] = 0, Present(mem'[g][i])
        PROVE  Placed(pre, g, i)'
    <3>1. mem'[g] = mem[g]
      BY <1>4, <1>6, <2>4
    <3> QED
      BY <1>3, <2>4, <3>1 DEF TreeOf, Placed
  <2> QED
    BY <1>3, <2>1, <2>2, <2>3, <2>4 DEF TreeOf
<1>11. op.table \in Ram /\ lvl[op.table] = op.level /\ op.table # f
  BY <1>1, <1>3, <1>4 DEF OpOnTree
<1>12. OpOnTree(lvl, pre)'
  <2>1. Here' = Here
    BY <1>5, <1>6, <1>11 DEF Here, Cell, Slot
  <2> QED
    BY <1>1, <1>2, <1>3, <1>4, <1>5, <1>7, <2>1 DEF OpOnTree
<1>13. ASSUME NEW n \in Frame PROVE Walk(n)' = Walk(n)
  <2>1. \A g \in Ram, k \in 0 .. 3 :
          lvl[g] = k /\ pre[g] = Prefix(n, k) => mem'[g][Index(n, k)] = mem[g][Index(n, k)]
    BY <1>4, <1>6
  <2> QED
    BY <1>3, <2>1, WalkKept
<1>14. TlbInv'
  BY <1>1, <1>13, TlbStays DEF PagingInv, Flushing
<1>15. OpInv'
  BY <1>1, <1>5 DEF OpInv, PagingInv
<1>16. TreeInv'
  BY <1>10, <1>12 DEF TreeInv
<1> QED
  BY <1>8, <1>13, <1>14, <1>15, <1>16

(* Linking a zeroed table to an empty entry extends the tree and changes   *)
(* no translation: the walk that reaches it ends there.                    *)
LEMMA LinkInv ==
  ASSUME PagingInv, LinkTable
  PROVE  /\ MemType' /\ OpInv' /\ TreeInv' /\ TlbInv'
         /\ \A n \in Frame : Walk(n)' = Walk(n)
<1> DEFINE n == PageOf(op.virt)
           T == op.table
           S == Slot
           c == op.new
           k == op.level - 1
<1>1. /\ op # Idle /\ op.pc = "link" /\ used' = used /\ tlb' = tlb
      /\ mem' = Store(T, S, TableEntry(c))
      /\ op' = [op EXCEPT !.pc = "walk", !.table = c, !.level = k]
  BY LinkPlain DEF PagingInv, LinkTable
<1>2. PICK lvl \in [Ram -> 0 .. 4], pre \in [Ram -> Nat] :
        TreeOf(lvl, pre) /\ OpOnTree(lvl, pre)
  BY DEF PagingInv, TreeInv
<1>3. op \in Op /\ n \in Frame /\ S \in 0 .. (E - 1) /\ S = Index(n, op.level)
  BY <1>1, OpFacts DEF PagingInv, Slot
<1>4. /\ T \in Ram /\ lvl[T] = op.level /\ pre[T] = Prefix(n, op.level)
      /\ op.level \in 1 .. 3 /\ c \in used /\ lvl[c] = 4 /\ mem[c] = ZeroTable
      /\ BitsIn[c] = {} /\ ~Present(Here)
  BY <1>1, <1>2 DEF OpOnTree
<1>5. c \in Ram /\ c \in Frame /\ c # T /\ k \in 0 .. 2
  BY <1>3, <1>4, FrameType DEF Op
<1>6. Here = mem[T][S] /\ ~Present(mem[T][S])
  BY <1>4 DEF Here, Cell
<1>7. /\ op' \in Op /\ op'.virt = op.virt /\ op'.pc = "walk" /\ op'.table = c /\ op'.level = k
      /\ op'.kind = op.kind /\ op'.phys = op.phys
  <2>1. op.new \in Frame /\ op.level - 1 \in 0 .. 3
    BY <1>5
  <2>2. op' = [op EXCEPT !.pc = "walk", !.table = op.new, !.level = op.level - 1]
    BY <1>1
  <2> QED
    BY <1>3, <2>1, <2>2 DEF Op
<1>8. Prefix(n, k) = Prefix(n, op.level) * E + S /\ Prefix(n, k) \in Nat
  <2>1. Prefix(n, k) = Prefix(n, op.level) * E + Index(n, op.level)
        /\ Prefix(n, op.level) \in Nat /\ E \in Nat
    BY <1>3, <1>4, PrefixStep, SizesAssumption
  <2> HIDE DEF n, S, k
  <2> QED
    BY <1>3, <2>1
<1> HIDE DEF n, T, S, c, k
<1>9. /\ mem'[T][S] = TableEntry(c)
      /\ \A g \in Ram, i \in 0 .. (E - 1) : ~(g = T /\ i = S) => mem'[g][i] = mem[g][i]
      /\ \A g \in Ram : g # T => mem'[g] = mem[g]
      /\ MemType'
  <2>1. mem' = [mem EXCEPT ![T][S] = TableEntry(c)]
    BY <1>1, <1>4 DEF Store
  <2>2. mem \in [Ram -> [0 .. (E - 1) -> Entry]]
    BY DEF PagingInv, MemType
  <2>3. TableEntry(c) \in Entry
    BY <1>5 DEF TableEntry, Entry, Flag
  <2>4. \A g \in Ram : mem[g] \in [0 .. (E - 1) -> Entry]
    BY <2>2
  <2>5. mem'[T] = [mem[T] EXCEPT ![S] = TableEntry(c)] /\ \A g \in Ram : g # T => mem'[g] = mem[g]
    BY <1>4, <2>1, <2>2
  <2>6. mem'[T] \in [0 .. (E - 1) -> Entry] /\ mem'[T][S] = TableEntry(c)
        /\ \A i \in 0 .. (E - 1) : i # S => mem'[T][i] = mem[T][i]
    <3>1. mem[T] \in [0 .. (E - 1) -> Entry] /\ S \in 0 .. (E - 1)
      BY <1>3, <1>4, <2>4
    <3> DEFINE e == TableEntry(c)
    <3>2. e \in Entry /\ mem'[T] = [mem[T] EXCEPT ![S] = e]
      BY <2>3, <2>5
    <3> HIDE DEF e
    <3>3. mem'[T] \in [0 .. (E - 1) -> Entry] /\ mem'[T][S] = e
          /\ \A i \in 0 .. (E - 1) : i # S => mem'[T][i] = mem[T][i]
      BY <3>1, <3>2
    <3> QED
      BY <3>3 DEF e
  <2>7. MemType'
    BY <1>4, <2>1, <2>2, <2>6 DEF MemType
  <2> QED
    BY <2>5, <2>6, <2>7
<1>10. PICK lvl1 \in [Ram -> 0 .. 4], pre1 \in [Ram -> Nat] :
         /\ lvl1[c] = k /\ pre1[c] = Prefix(n, k)
         /\ \A g \in Ram : g # c => lvl1[g] = lvl[g] /\ pre1[g] = pre[g]
  <2>1. k \in 0 .. 4
    BY <1>5
  <2> DEFINE l == [lvl EXCEPT ![c] = k]
             r == [pre EXCEPT ![c] = Prefix(n, k)]
  <2>2. l \in [Ram -> 0 .. 4] /\ l[c] = k /\ \A g \in Ram : g # c => l[g] = lvl[g]
    BY <1>5, <2>1
  <2>3. r \in [Ram -> Nat] /\ r[c] = Prefix(n, k) /\ \A g \in Ram : g # c => r[g] = pre[g]
    BY <1>5, <1>8
  <2> QED
    BY <2>2, <2>3
<1>11. /\ P4 # c /\ P3 # c /\ P2 # c
       /\ P4 \in Ram /\ P3 \in Ram /\ P2 \in Ram
       /\ 0 \in 0 .. (E - 1)
  BY <1>2, <1>4, BootAssumption, SizesAssumption DEF TreeOf
<1>12. TreeOf(lvl1, pre1)'
  <2>1. /\ lvl1[P4] = 3 /\ lvl1[P3] = 2 /\ lvl1[P2] = 1
        /\ pre1[P4] = 0 /\ pre1[P3] = 0 /\ pre1[P2] = 0
    BY <1>2, <1>10, <1>11 DEF TreeOf
  <2>2. /\ \A g \in Ram : lvl1[g] # 4 => g \in used' /\ BitsIn[g] = {}
        /\ \A g \in Ram : BitsIn[g] # {} => g \in used'
        /\ 0 \in used'
    BY <1>1, <1>2, <1>4, <1>10 DEF TreeOf, c
  <2>3. /\ mem'[P4][0] = TableEntry(P3) /\ mem'[P3][0] = TableEntry(P2)
        /\ \A i \in 0 .. (E - 1) : mem'[P2][i] = HugeEntry(i)
    <3>1. /\ mem[P4][0] = TableEntry(P3) /\ mem[P3][0] = TableEntry(P2)
          /\ \A i \in 0 .. (E - 1) : mem[P2][i] = HugeEntry(i)
      BY <1>2 DEF TreeOf
    <3>2. /\ Present(TableEntry(P3)) /\ Present(TableEntry(P2))
          /\ \A i \in 0 .. (E - 1) : Present(HugeEntry(i))
      BY DEF Present, TableEntry, HugeEntry
    <3> QED
      BY <1>6, <1>9, <1>11, <3>1, <3>2
  <2>4. ASSUME NEW g \in Ram, NEW i \in 0 .. (E - 1),
               lvl1[g] \in 1 .. 3, g # P2, Present(mem'[g][i])
        PROVE  Leads(lvl1, pre1, g, i)'
    <3>1. CASE g = T /\ i = S
      <4>1. mem'[g][i] = TableEntry(c)
        BY <1>9, <3>1
      <4>2. lvl1[g] = op.level /\ pre1[g] = Prefix(n, op.level)
        BY <1>4, <1>5, <1>10, <3>1 DEF n, T
      <4>3. ~Huge(TableEntry(c)) /\ TableEntry(c).addr = c
        BY DEF Huge, TableEntry
      <4> QED
        BY <1>5, <1>8, <1>10, <3>1, <4>1, <4>2, <4>3 DEF Leads, k
    <3>2. CASE ~(g = T /\ i = S)
      <4>1. mem'[g][i] = mem[g][i]
        BY <1>9, <3>2
      <4>2. g # c
        <5>1. ~Present(ZeroTable[i])
          BY DEF Present, ZeroTable, Zero
        <5> QED
          BY <1>4, <2>4, <4>1, <5>1 DEF c
      <4>3. lvl1[g] = lvl[g] /\ pre1[g] = pre[g]
        BY <1>10, <4>2
      <4>4. Leads(lvl, pre, g, i)
        BY <1>2, <2>4, <4>1, <4>3 DEF TreeOf
      <4>5. mem[g][i].addr # c
        BY <1>4, <2>4, <4>3, <4>4 DEF Leads, c
      <4> QED
        BY <1>10, <4>1, <4>3, <4>4, <4>5 DEF Leads
    <3> QED
      BY <3>1, <3>2
  <2>5. ASSUME NEW g \in Ram, NEW i \in 0 .. (E - 1), lvl1[g] = 0, Present(mem'[g][i])
        PROVE  Placed(pre1, g, i)'
    <3>1. g # c
      <4>1. g # T => mem'[g] = mem[g]
        BY <1>9
      <4>2. ~Present(ZeroTable[i])
        BY DEF Present, ZeroTable, Zero
      <4> QED
        BY <1>4, <1>5, <2>5, <4>1, <4>2 DEF c, T
    <3>2. lvl[g] = 0 /\ pre1[g] = pre[g] /\ g # T
      BY <1>4, <1>10, <2>5, <3>1 DEF T
    <3>3. mem'[g][i] = mem[g][i]
      BY <1>9, <3>2
    <3> QED
      BY <1>2, <2>5, <3>2, <3>3 DEF TreeOf, Placed
  <2> QED
    BY <2>1, <2>2, <2>3, <2>4, <2>5 DEF TreeOf
<1>13. OpOnTree(lvl1, pre1)'
  <2>1. PageOf(op'.virt) = n
    BY <1>7 DEF n
  <2>2. /\ op'.table \in Ram /\ lvl1[op'.table] = op'.level
        /\ pre1[op'.table] = Prefix(PageOf(op'.virt), op'.level)
    BY <1>5, <1>7, <1>10, <2>1
  <2> QED
    BY <1>7, <2>2 DEF OpOnTree
<1>14. ASSUME NEW m \in Frame PROVE Walk(m)' = Walk(m)
  <2>1. mem'[c] = ZeroTable
    BY <1>4, <1>5, <1>9 DEF c
  <2>2. ASSUME NEW g \in Ram, NEW j \in 0 .. 3, lvl[g] = j
        PROVE  \/ mem'[g][Index(m, j)] = mem[g][Index(m, j)]
               \/ j # 0 /\ Fresh(g, Index(m, j))
    <3>1. Index(m, j) \in 0 .. (E - 1)
      BY IndexType
    <3>2. CASE g = T /\ Index(m, j) = S
      <4>1. j # 0
        BY <1>4, <2>2, <3>2 DEF T
      <4>2. Fresh(T, S)
        BY <1>5, <1>6, <1>9, <2>1 DEF Fresh
      <4> QED
        BY <3>2, <4>1, <4>2
    <3>3. CASE ~(g = T /\ Index(m, j) = S)
      BY <1>9, <3>1, <3>3
    <3> QED
      BY <3>2, <3>3
  <2> QED
    BY <1>2, <2>2, WalkKept
<1>15. TlbInv'
  BY <1>1, <1>14, TlbStays DEF PagingInv, Flushing
<1>16. OpInv'
  BY <1>1, <1>7 DEF OpInv, PagingInv
<1>17. TreeInv'
  BY <1>10, <1>12, <1>13 DEF TreeInv
<1> QED
  BY <1>9, <1>14, <1>15, <1>16, <1>17

(* The entry paging_map_page or paging_unmap_page writes is one of a last  *)
(* table, and only the walk of the call's own page reads it.               *)
LEMMA SetEntryInv ==
  ASSUME PagingInv, SetEntry
  PROVE  /\ MemType' /\ OpInv' /\ TreeInv' /\ TlbInv'
         /\ \A n \in Frame : n # PageOf(op.virt) => Walk(n)' = Walk(n)
<1> DEFINE n == PageOf(op.virt)
           T == op.table
           S == Slot
           e == IF op.kind = "map" THEN [addr |-> PageOf(op.phys), flags |-> op.flags] ELSE Zero
<1>1. /\ op # Idle /\ op.pc = "walk" /\ op.level = 0 /\ used' = used /\ tlb' = tlb
      /\ mem' = Store(T, S, e)
      /\ op' = [op EXCEPT !.pc = "flush"]
  BY SetEntryPlain DEF PagingInv, SetEntry
<1>2. PICK lvl \in [Ram -> 0 .. 4], pre \in [Ram -> Nat] :
        TreeOf(lvl, pre) /\ OpOnTree(lvl, pre)
  BY DEF PagingInv, TreeInv
<1>3. /\ op \in Op /\ n \in Frame /\ PageOf(op.phys) \in Frame
      /\ S \in 0 .. (E - 1) /\ S = Index(n, 0)
  BY <1>1, OpFacts DEF PagingInv, Slot
<1>4. T \in Ram /\ lvl[T] = 0 /\ pre[T] = Prefix(n, 0)
  BY <1>1, <1>2 DEF OpOnTree
<1>5. e \in Entry
  <2>1. 0 \in Ram
    BY BootAssumption, SizesAssumption DEF Ram
  <2>2. Zero \in Entry
    BY <2>1, FrameType DEF Zero, Entry
  <2>3. op.flags \in SUBSET Flag
    BY <1>3 DEF Op
  <2> QED
    BY <1>3, <2>2, <2>3 DEF Entry
<1>6. /\ op' \in Op /\ op'.virt = op.virt /\ op'.pc = "flush" /\ op' # Idle
      /\ op'.kind = op.kind /\ op'.phys = op.phys
  <2>1. /\ op' \in Op /\ op'.virt = op.virt /\ op'.pc = "flush"
        /\ op'.kind = op.kind /\ op'.phys = op.phys
    BY <1>1, <1>3 DEF Op
  <2> QED
    BY <2>1 DEF Idle
<1>15. Present(e) /\ n \in Ram => e.addr = n
  <2>1. ~Present(Zero)
    BY DEF Present, Zero
  <2>2. op.kind = "map" => InPlace(op.virt, op.phys)
    BY <1>1 DEF PagingInv, OpInv
  <2> QED
    BY <2>1, <2>2 DEF InPlace
<1>16. n = Prefix(n, 0) * E + Index(n, 0)
  BY <1>3, PageFromPrefix
<1> HIDE DEF n, T, S, e
<1>7. /\ mem'[T][S] = e
      /\ \A g \in Ram, i \in 0 .. (E - 1) : ~(g = T /\ i = S) => mem'[g][i] = mem[g][i]
      /\ MemType'
  <2>1. mem' = [mem EXCEPT ![T][S] = e]
    BY <1>1, <1>4 DEF Store
  <2>2. mem \in [Ram -> [0 .. (E - 1) -> Entry]]
    BY DEF PagingInv, MemType
  <2>3. \A g \in Ram : mem[g] \in [0 .. (E - 1) -> Entry]
    BY <2>2
  <2>4. mem'[T] = [mem[T] EXCEPT ![S] = e] /\ \A g \in Ram : g # T => mem'[g] = mem[g]
    BY <1>4, <2>1, <2>2
  <2>7. mem[T] \in [0 .. (E - 1) -> Entry] /\ S \in 0 .. (E - 1) /\ e \in Entry
    BY <1>3, <1>4, <1>5, <2>3
  <2>5. mem'[T] \in [0 .. (E - 1) -> Entry] /\ mem'[T][S] = e
        /\ \A i \in 0 .. (E - 1) : i # S => mem'[T][i] = mem[T][i]
    BY <2>4, <2>7
  <2>6. MemType'
    BY <1>4, <2>1, <2>2, <2>5 DEF MemType
  <2> QED
    BY <2>4, <2>5, <2>6
<1>8. \A g \in Ram, i \in 0 .. (E - 1) : lvl[g] # 0 => mem'[g][i] = mem[g][i]
  BY <1>4, <1>7
<1>9. TreeOf(lvl, pre)'
  <2>1. /\ \A g \in Ram : lvl[g] # 4 => g \in used' /\ BitsIn[g] = {}
        /\ \A g \in Ram : BitsIn[g] # {} => g \in used'
        /\ 0 \in used'
    BY <1>1, <1>2 DEF TreeOf
  <2>2. /\ mem'[P4][0] = TableEntry(P3) /\ mem'[P3][0] = TableEntry(P2)
        /\ \A i \in 0 .. (E - 1) : mem'[P2][i] = HugeEntry(i)
    <3>1. P4 \in Ram /\ P3 \in Ram /\ P2 \in Ram /\ 0 \in 0 .. (E - 1)
      BY BootAssumption, SizesAssumption
    <3> QED
      BY <1>2, <1>8, <3>1 DEF TreeOf
  <2>3. ASSUME NEW g \in Ram, NEW i \in 0 .. (E - 1),
               lvl[g] \in 1 .. 3, g # P2, Present(mem'[g][i])
        PROVE  Leads(lvl, pre, g, i)'
    <3>1. mem'[g][i] = mem[g][i]
      BY <1>8, <2>3
    <3>2. Leads(lvl, pre, g, i)
      BY <1>2, <2>3, <3>1 DEF TreeOf
    <3> QED
      BY <3>1, <3>2 DEF Leads
  <2>4. ASSUME NEW g \in Ram, NEW i \in 0 .. (E - 1), lvl[g] = 0, Present(mem'[g][i])
        PROVE  Placed(pre, g, i)'
    <3>1. CASE g = T /\ i = S
      <4>1. pre[g] * E + i = n
        BY <1>3, <1>4, <1>16, <3>1
      <4> QED
        BY <1>7, <1>15, <2>4, <3>1, <4>1 DEF Placed
    <3>2. CASE ~(g = T /\ i = S)
      <4>1. mem'[g][i] = mem[g][i]
        BY <1>7, <3>2
      <4> QED
        BY <1>2, <2>4, <4>1 DEF TreeOf, Placed
    <3> QED
      BY <3>1, <3>2
  <2> QED
    BY <1>2, <2>1, <2>2, <2>3, <2>4 DEF TreeOf
<1>10. OpOnTree(lvl, pre)'
  BY <1>6 DEF OpOnTree
<1>11. ASSUME NEW m \in Frame, m # n PROVE Walk(m)' = Walk(m)
  <2>1. ASSUME NEW g \in Ram, NEW j \in 0 .. 3,
               lvl[g] = j, pre[g] = Prefix(m, j)
        PROVE  mem'[g][Index(m, j)] = mem[g][Index(m, j)]
    <3>1. Index(m, j) \in 0 .. (E - 1)
      BY IndexType
    <3>2. CASE j # 0
      BY <1>8, <2>1, <3>1, <3>2
    <3>3. CASE j = 0
      <4>1. ~(g = T /\ Index(m, 0) = S)
        <5> SUFFICES ASSUME g = T, Index(m, 0) = S PROVE FALSE
          OBVIOUS
        <5>1. Prefix(m, 0) = Prefix(n, 0) /\ Index(m, 0) = Index(n, 0)
          BY <1>3, <1>4, <2>1, <3>3
        <5>2. /\ m = Prefix(m, 0) * E + Index(m, 0)
              /\ n = Prefix(n, 0) * E + Index(n, 0)
          BY <1>3, PageFromPrefix
        <5> QED
          BY <1>11, <5>1, <5>2
      <4> QED
        BY <1>7, <3>1, <3>3, <4>1
    <3> QED
      BY <3>2, <3>3
  <2> QED
    BY <1>2, <2>1, WalkKept
<1>12. TlbInv'
  <2>1. \A t \in tlb : /\ t.page \in Frame /\ t.page \in TlbPages /\ t.target # NoPage
                       /\ Walk(t.page) = t.target
    BY <1>1, SizesAssumption DEF PagingInv, TlbInv, TlbCoherent
  <2>2. \A t \in tlb : t.page # n => Walk(t.page)' = t.target
    BY <1>11, <2>1
  <2> QED
    BY <1>1, <1>6, <2>1, <2>2 DEF TlbInv, TlbCoherent, n
<1>13. OpInv'
  BY <1>1, <1>6 DEF OpInv, PagingInv
<1>14. TreeInv'
  BY <1>9, <1>10 DEF TreeInv
<1> QED
  BY <1>7, <1>11, <1>12, <1>13, <1>14 DEF n

(* What changes neither tables nor TLB and does not walk keeps all that     *)
(* says something about them.                                              *)
LEMMA QuietInv ==
  ASSUME PagingInv, mem' = mem, used' = used, tlb' = tlb,
         op' = op \/ (op' = Idle /\ ~Flushing)
  PROVE  MemType' /\ OpInv' /\ TreeInv' /\ TlbInv'
<1>1. MemType' /\ OpInv'
  BY DEF PagingInv, MemType, OpInv
<1>2. TreeInv'
  BY TreeStays DEF PagingInv
<1>3. TlbInv'
  <2>1. \A t \in tlb : Walk(t.page)' = Walk(t.page)
    BY WalkStays
  <2> QED
    BY <2>1 DEF PagingInv, TlbInv, TlbCoherent, Flushing
<1> QED
  BY <1>1, <1>2, <1>3

(* A call of paging_map_page or paging_unmap_page begins.                  *)
LEMMA CallInv ==
  ASSUME PagingInv, op = Idle, pml4 # NoTable, mem' = mem, used' = used, tlb' = tlb,
         NEW kind \in {"map", "unmap"}, NEW virt \in Address, NEW phys \in Address,
         NEW flags \in SUBSET Flag, PageOf(virt) \notin IdentityPages,
         kind = "map" => InPlace(virt, phys),
         op' = Begin(kind, virt, phys, flags)
  PROVE  MemType' /\ OpInv' /\ TreeInv' /\ TlbInv'
<1>1. MemType'
  BY DEF PagingInv, MemType
<1>2. OpInv' /\ TreeInv'
  BY BeginInv DEF PagingInv
<1>3. TlbInv'
  BY WalkStays, TlbStays DEF PagingInv, Flushing
<1> QED
  BY <1>1, <1>2, <1>3

(* The framebuffer's loop starts: its end is rounded up to whole pages.    *)
LEMMA FbStart ==
  ASSUME NEW phys \in Nat, NEW size \in Nat, phys + size \in Address,
         paging_map_framebuffer(phys, size)
  PROVE  FbType' /\ fb'.phys = phys
<1> DEFINE q == (size + PageSize - 1) \div PageSize
<1>1. PageSize \in Nat \ {0} /\ size + PageSize - 1 \in Nat
  BY SizesAssumption
<1>2. q \in Nat /\ PageSize * q <= size + PageSize - 1 /\ PageSize * q \in Nat
  <2> DEFINE a == size + PageSize - 1
  <2>1. a \in Nat
    BY <1>1
  <2> HIDE DEF a
  <2>2. a \div PageSize \in Nat /\ a % PageSize \in 0 .. (PageSize - 1)
        /\ a = PageSize * (a \div PageSize) + (a % PageSize)
    BY <1>1, <2>1, Division
  <2> DEFINE d == a \div PageSize
  <2>3. PageSize * d \in Nat /\ PageSize * d <= a /\ d \in Nat
    <3>1. d \in Nat /\ a = PageSize * d + (a % PageSize) /\ a % PageSize \in Nat
      BY <1>1, <2>2
    <3> HIDE DEF d
    <3>2. PageSize * d \in Nat
      BY <1>1, <3>1
    <3> QED
      BY <1>1, <2>1, <3>1, <3>2
  <2> QED
    BY <2>3 DEF a
<1>3. fb' = [phys |-> phys, size |-> size, offset |-> 0, short |-> FALSE,
             end |-> q * PageSize]
  BY DEF paging_map_framebuffer, RoundedSize
<1> HIDE DEF q
<1>4. q * PageSize = PageSize * q /\ PageSize * q < size + PageSize /\ 0 = PageSize * 0
  BY <1>1, <1>2
<1>5. fb' \in [phys : Nat, size : Nat, offset : Nat, short : BOOLEAN, end : Nat]
  BY <1>2, <1>3, <1>4
<1>6. /\ \E k \in Nat : fb'.offset = PageSize * k
      /\ \E r \in Nat : fb'.end = PageSize * r
  <2>1. fb'.offset = PageSize * 0 /\ fb'.end = PageSize * q
    BY <1>3, <1>4
  <2> QED
    BY <1>2, <2>1
<1>7. /\ fb'.end < fb'.size + PageSize /\ fb'.phys + fb'.size \in Address
      /\ fb'.phys = phys /\ pml4' # NoTable
  BY <1>3, <1>4 DEF paging_map_framebuffer, MayCall
<1> QED
  BY <1>5, <1>6, <1>7 DEF FbType

(* Each page the loop maps has an address in the framebuffer.              *)
LEMMA FbPageStep ==
  ASSUME FbType, FbPage
  PROVE  /\ fb.phys + fb.offset \in Address
         /\ fb.phys \in Nat /\ fb.phys <= fb.phys + fb.offset
         /\ FbType' /\ fb'.phys = fb.phys
         /\ fb.offset \in 0 .. fb.size /\ fb'.size = fb.size
         /\ fb.offset + PageSize <= fb.end
<1> DEFINE p == fb.phys
           s == fb.size
           o == fb.offset
           d == fb.end
<1>1. /\ fb # NoFb /\ o < d
      /\ fb' = [fb EXCEPT !.offset = o + PageSize]
  BY DEF FbPage, NextOffset
<1>2. /\ fb \in [phys : Nat, size : Nat, offset : Nat, short : BOOLEAN, end : Nat]
      /\ d < s + PageSize /\ p + s \in Address
  BY <1>1 DEF FbType
<1>3. p \in Nat /\ s \in Nat /\ o \in Nat /\ d \in Nat
  BY <1>2
<1>4. PageSize \in Nat \ {0}
  BY SizesAssumption
<1>5. PICK k \in Nat : o = PageSize * k
  BY <1>1 DEF FbType
<1>6. PICK q \in Nat : d = PageSize * q
  BY <1>1 DEF FbType
<1> HIDE DEF p, s, o, d
<1>7. PageSize * (k + 1) = o + PageSize
  BY <1>4, <1>5
<1>8. o + PageSize <= d
  <2>1. PageSize * k < PageSize * q
    BY <1>1, <1>5, <1>6
  <2>2. k + 1 <= q
    BY <1>4, <2>1
  <2>3. PageSize * (k + 1) <= PageSize * q
    BY <1>4, <2>2
  <2> QED
    BY <1>6, <1>7, <2>3
<1>9. o < s
  BY <1>2, <1>3, <1>4, <1>8
<1>10. p + o \in Address
  <2>1. p + o \in Nat /\ p + o <= p + s
    BY <1>3, <1>9
  <2> QED
    BY <1>2, <2>1, AddressDownwards
<1>11. p <= p + o
  BY <1>3
<1>12. FbType' /\ fb'.phys = p /\ fb'.size = s
  <2>1. fb' = [fb EXCEPT !.offset = o + PageSize] /\ o + PageSize \in Nat
    BY <1>1, <1>3, <1>4
  <2>2. /\ fb' \in [phys : Nat, size : Nat, offset : Nat, short : BOOLEAN, end : Nat]
        /\ fb'.phys = p /\ fb'.size = s /\ fb'.end = d /\ fb'.offset = o + PageSize
    BY <1>2, <2>1 DEF p, s, d
  <2>3. k + 1 \in Nat /\ fb'.offset = PageSize * (k + 1)
    BY <1>7, <2>2
  <2>4. /\ \E j \in Nat : fb'.offset = PageSize * j
        /\ \E r \in Nat : fb'.end = PageSize * r
    BY <1>6, <2>2, <2>3
  <2>5. pml4' # NoTable
    BY <1>1 DEF FbType, FbPage
  <2> QED
    BY <1>2, <2>2, <2>4, <2>5 DEF FbType
<1> QED
  BY <1>3, <1>8, <1>9, <1>10, <1>11, <1>12 DEF p, o, s, d

(* The processor caches what the tables say.                               *)
LEMMA FillTlb ==
  ASSUME TlbInv, NEW n \in TlbPages, TlbFill(n)
  PROVE  TlbInv'
<1>1. /\ mem' = mem /\ op' = op /\ Walk(n) # NoPage
      /\ tlb' = tlb \cup {[page |-> n, target |-> Walk(n)]}
  BY DEF TlbFill
<1>2. ASSUME NEW t \in tlb'
      PROVE  /\ t.page \in TlbPages /\ t.target # NoPage
             /\ \/ Walk(t.page)' = t.target
                \/ op # Idle /\ op.pc = "flush" /\ t.page = PageOf(op.virt)
  <2>1. Walk(t.page)' = Walk(t.page)
    BY <1>1, WalkStays
  <2>2. CASE t \in tlb
    BY <2>1, <2>2 DEF TlbInv, TlbCoherent
  <2>3. CASE t = [page |-> n, target |-> Walk(n)]
    BY <1>1, <2>1, <2>3
  <2> QED
    BY <1>1, <2>2, <2>3
<1> QED
  BY <1>1, <1>2 DEF TlbInv, TlbCoherent

(* So filling the TLB keeps the whole invariant.                           *)
LEMMA FillInv ==
  ASSUME PagingInv, NEW n \in TlbPages, TlbFill(n)
  PROVE  PagingInv'
<1>1. UNCHANGED <<mem, used, pml4, op, fb>> /\ TlbInv'
  BY FillTlb DEF TlbFill, PagingInv
<1>2. TreeInv'
  BY <1>1, TreeStays DEF PagingInv
<1> QED
  BY <1>1, <1>2 DEF PagingInv, MemType, OpInv, FbInv, FbType

(* invlpg ends the call and drops the one translation that may be stale.   *)
LEMMA InvlpgInv ==
  ASSUME PagingInv, Invlpg
  PROVE  MemType' /\ OpInv' /\ TreeInv' /\ TlbInv'
<1>1. /\ mem' = mem /\ used' = used /\ op' = Idle
      /\ tlb' = {t \in tlb : t.page # PageOf(op.virt)}
  BY DEF Invlpg, Flushed
<1>2. MemType' /\ OpInv'
  BY <1>1 DEF PagingInv, MemType, OpInv
<1>3. TreeInv'
  BY <1>1, TreeStays DEF PagingInv
<1>4. ASSUME NEW t \in tlb'
      PROVE  t.page \in TlbPages /\ t.target # NoPage /\ Walk(t.page)' = t.target
  <2>1. Walk(t.page)' = Walk(t.page)
    BY <1>1, WalkStays
  <2> QED
    BY <1>1, <2>1 DEF PagingInv, TlbInv, TlbCoherent
<1>5. TlbInv'
  BY <1>4 DEF TlbInv, TlbCoherent
<1> QED
  BY <1>2, <1>3, <1>5

(* A fault freezes the call where it is.                                   *)
LEMMA FaultInv ==
  ASSUME PagingInv, Fault
  PROVE  MemType' /\ OpInv' /\ TreeInv' /\ TlbInv'
<1>1. /\ mem' = mem /\ used' = used /\ tlb' = tlb
      /\ op # Idle /\ op.pc \in {"walk", "link"}
      /\ op' = [op EXCEPT !.pc = "fault"]
  BY FaultPlain DEF Fault
<1>2. /\ op' \in Op /\ op'.virt = op.virt /\ op'.pc = "fault"
      /\ op'.kind = op.kind /\ op'.phys = op.phys
  <2>1. op \in Op
    BY <1>1 DEF PagingInv, OpInv
  <2> QED
    BY <1>1, <2>1 DEF Op
<1>3. MemType' /\ OpInv'
  BY <1>1, <1>2 DEF PagingInv, MemType, OpInv
<1>4. TreeInv'
  BY <1>1, <1>2, TreeStays DEF PagingInv
<1>5. TlbInv'
  BY <1>1, WalkStays, TlbStays DEF PagingInv, Flushing
<1> QED
  BY <1>3, <1>4, <1>5

(* What leaves the machine alone keeps the invariant.                      *)
LEMMA PagingInvStays ==
  ASSUME PagingInv, UNCHANGED <<mem, used, op, fb, tlb>>,
         pml4' = pml4 \/ (pml4 = NoTable /\ pml4' = P4)
  PROVE  PagingInv'
<1>1. MemType' /\ OpInv' /\ TreeInv' /\ TlbInv'
  BY QuietInv
<1> QED
  BY <1>1 DEF PagingInv, FbInv, FbType

(* A framebuffer is to be mapped outside of the identity map.              *)
LEMMA FbCallInv ==
  ASSUME PagingInv, NEW phys \in Nat, NEW size \in Nat, phys + size \in Address,
         PageOf(phys) \notin IdentityPages, paging_map_framebuffer(phys, size)
  PROVE  PagingInv'
<1>1. (MemType' /\ OpInv' /\ TreeInv' /\ TlbInv') /\ pml4' = pml4
  BY QuietInv DEF paging_map_framebuffer
<1>2. FbInv'
  <2>1. FbType' /\ fb'.phys = phys /\ fb'.offset = 0
    BY FbStart DEF paging_map_framebuffer
  <2>2. phys + 0 = phys
    OBVIOUS
  <2> QED
    BY <2>1, <2>2 DEF FbInv
<1> QED
  BY <1>1, <1>2 DEF PagingInv

(* Every step of a call keeps the invariant.                               *)
LEMMA StepsInv ==
  ASSUME PagingInv, Steps
  PROVE  PagingInv'
<1> DEFINE Core == MemType /\ OpInv /\ TreeInv /\ TlbInv
           Kept == pml4' = pml4 /\ fb' = fb
<1>1. ASSUME Core', Kept PROVE PagingInv'
  BY <1>1 DEF PagingInv, FbInv, FbType
<1>2. CASE Descend
  <2>1. OpInv' /\ TreeInv'
    BY <1>2, DescendInv DEF PagingInv
  <2>2. MemType' /\ TlbInv' /\ Kept
    BY <1>2, WalkStays, TlbStays DEF PagingInv, Descend, Walking, Flushing, MemType
  <2> QED
    BY <1>1, <2>1, <2>2
<1>3. CASE AllocTable
  BY <1>1, <1>3, AllocInv DEF AllocTable
<1>4. CASE LinkTable
  BY <1>1, <1>4, LinkInv DEF LinkTable
<1>5. CASE AllocFails
  <2>1. Core' /\ pml4' = pml4
    BY <1>5, FailsPlain, QuietInv DEF AllocFails, Flushing, PagingInv
  <2>2. FbInv'
    <3>1. CASE fb = NoFb
      BY <1>5, <3>1 DEF AllocFails, FbInv, FbType
    <3>2. CASE fb # NoFb
      <4>1. fb' = [fb EXCEPT !.short = TRUE]
        BY <1>5, <3>2 DEF AllocFails
      <4>2. /\ fb' \in [phys : Nat, size : Nat, offset : Nat, short : BOOLEAN, end : Nat]
            /\ fb'.phys = fb.phys /\ fb'.size = fb.size
            /\ fb'.offset = fb.offset /\ fb'.end = fb.end
        BY <3>2, <4>1 DEF PagingInv, FbInv, FbType
      <4> QED
        BY <1>5, <3>2, <4>2 DEF AllocFails, PagingInv, FbInv, FbType
    <3> QED
      BY <3>1, <3>2
  <2> QED
    BY <2>1, <2>2 DEF PagingInv
<1>6. CASE NothingToUnmap
  <2>1. Core' /\ Kept
    BY <1>6, QuietInv DEF NothingToUnmap, Walking, Flushing
  <2> QED
    BY <1>1, <2>1
<1>7. CASE SetEntry
  BY <1>1, <1>7, SetEntryInv DEF SetEntry
<1>8. CASE Invlpg
  BY <1>1, <1>8, InvlpgInv DEF Invlpg
<1>9. CASE Fault
  BY <1>1, <1>9, FaultInv DEF Fault
<1>10. CASE FbPage
  <2>1. /\ op = Idle /\ fb # NoFb /\ mem' = mem /\ used' = used /\ tlb' = tlb
        /\ pml4' = pml4
        /\ op' = Begin("map", fb.phys + fb.offset, fb.phys + fb.offset,
                       {"PRESENT", "RW", "CACHE_DISABLE"})
    BY <1>10 DEF FbPage
  <2>2. /\ fb.phys + fb.offset \in Address
        /\ PageOf(fb.phys + fb.offset) \notin IdentityPages
        /\ FbInv'
    <3>1. /\ fb.phys + fb.offset \in Address /\ fb.phys \in Nat
          /\ FbType' /\ fb'.phys = fb.phys
          /\ PageOf(fb.phys + fb.offset) \notin IdentityPages
      BY <1>10, <2>1, FbPageStep DEF PagingInv, FbInv
    <3>2. fb.phys + fb.offset \in Nat /\ PageSize \in Nat
      BY <3>1, FrameType, SizesAssumption
    <3>3. fb'.offset = fb.offset + PageSize /\ fb.offset \in Nat
      BY <1>10, <2>1 DEF FbPage, NextOffset, PagingInv, FbInv, FbType
    <3>4. PageOf(fb.phys + fb.offset + PageSize) \notin IdentityPages
      BY <3>1, <3>2, OutsideUpwards
    <3>5. fb'.phys + fb'.offset = fb.phys + fb.offset + PageSize
      BY <3>1, <3>2, <3>3
    <3> QED
      BY <3>1, <3>4, <3>5 DEF FbInv
  <2>3. {"PRESENT", "RW", "CACHE_DISABLE"} \in SUBSET Flag
    BY DEF Flag
  <2>4. pml4 # NoTable
    BY <2>1 DEF PagingInv, FbInv, FbType
  <2>5. InPlace(fb.phys + fb.offset, fb.phys + fb.offset)
    BY DEF InPlace
  <2>6. Core'
    BY <2>1, <2>2, <2>3, <2>4, <2>5, CallInv
  <2> QED
    BY <2>1, <2>2, <2>6 DEF PagingInv
<1>11. CASE FbReturn
  <2>1. Core' /\ pml4' = pml4 /\ fb' = NoFb
    BY <1>11, QuietInv DEF FbReturn
  <2> QED
    BY <2>1 DEF PagingInv, FbInv, FbType
<1> QED
  BY <1>2, <1>3, <1>4, <1>5, <1>6, <1>7, <1>8, <1>9, <1>10, <1>11 DEF Steps

(* Every step keeps the invariant.                                         *)
LEMMA PagingInvStep ==
  ASSUME CallsOutside, PagingInv, [Next]_vars
  PROVE  PagingInv'
<1> DEFINE Core == MemType /\ OpInv /\ TreeInv /\ TlbInv
           Kept == pml4' = pml4 /\ fb' = fb
<1>1. ASSUME Core', Kept PROVE PagingInv'
  BY <1>1 DEF PagingInv, FbInv, FbType
<1>2. CASE paging_init
  BY <1>2, PagingInvStays DEF paging_init
<1>3. ASSUME NEW a \in MapArgs, paging_map_page(a.virt, a.phys, a.flags)
      PROVE  PagingInv'
  <2>1. /\ a.virt \in Address /\ a.phys \in Address /\ a.flags \in SUBSET Flag
        /\ PageOf(a.virt) \notin IdentityPages /\ InPlace(a.virt, a.phys)
    BY CallsAssumption DEF CallsOutside
  <2>2. Core' /\ Kept
    BY <1>3, <2>1, CallInv DEF paging_map_page, MayCall
  <2> QED
    BY <1>1, <2>2
<1>4. ASSUME NEW a \in UnmapArgs, paging_unmap_page(a)
      PROVE  PagingInv'
  <2>1. a \in Address /\ 0 \in Address /\ PageOf(a) \notin IdentityPages
    <3>1. a \in Address /\ PageOf(a) \notin IdentityPages
      BY CallsAssumption DEF CallsOutside
    <3>2. a \in Nat
      BY <3>1, FrameType
    <3>3. 0 \in Nat /\ 0 <= a
      BY <3>2
    <3> QED
      BY <3>1, <3>3, AddressDownwards
  <2>2. {} \in SUBSET Flag
    OBVIOUS
  <2>3. Core' /\ Kept
    BY <1>4, <2>1, <2>2, CallInv DEF paging_unmap_page, MayCall
  <2> QED
    BY <1>1, <2>3
<1>5. ASSUME NEW a \in FbArgs, paging_map_framebuffer(a.phys, a.size)
      PROVE  PagingInv'
  <2>1. /\ a.phys \in Nat /\ a.size \in Nat /\ a.phys + a.size \in Address
        /\ PageOf(a.phys) \notin IdentityPages
    BY CallsAssumption DEF CallsOutside
  <2> QED
    BY <1>5, <2>1, FbCallInv
<1>6. CASE Steps
  BY <1>6, StepsInv
<1>7. ASSUME NEW n \in TlbPages, TlbFill(n)
      PROVE  PagingInv'
  BY <1>7, FillInv
<1>8. CASE UNCHANGED vars
  BY <1>8, PagingInvStays DEF vars
<1> QED
  BY <1>2, <1>3, <1>4, <1>5, <1>6, <1>7, <1>8 DEF Next, Calls

-----------------------------------------------------------------------------
(* The tables are those boot.asm built, one of each level.                 *)
BootTree ==
  \E lvl \in [Ram -> 0 .. 4], pre \in [Ram -> Nat] :
    TreeOf(lvl, pre) /\ \A f \in Ram : lvl[f] # 4 => f \in {P4, P3, P2}

(* They hold entries,                                                      *)
LEMMA BootTablesType ==
  ASSUME mem = BootTables PROVE MemType
<1>2. /\ P4 \in Ram /\ P3 \in Ram /\ P2 \in Ram /\ P4 # P3 /\ P4 # P2 /\ P3 # P2
      /\ 0 \in Ram
  BY BootAssumption, SizesAssumption DEF Ram
<1>3. E \in Nat \ {0} /\ 0 \in 0 .. (E - 1)
  BY SizesAssumption
<1>4. ASSUME NEW i \in 0 .. (E - 1) PROVE i * E \in Frame
  <2> DEFINE s == E * E
             f == E * E * E * E
  <2>1. s \in Nat \ {0} /\ i \in Nat /\ i * E \in Nat /\ i < E
    BY <1>3
  <2>2. i * E <= s
    <3>1. i * E <= E * E
      BY <1>3, <2>1
    <3> QED
      BY <3>1
  <2>3. i * E < s
    <3>1. (i + 1) * E <= E * E /\ (i + 1) * E = i * E + E
      BY <1>3, <2>1
    <3> DEFINE u == i * E
               v == (i + 1) * E
    <3>2. v <= s /\ v = u + E /\ u \in Nat
      BY <2>1, <3>1
    <3> HIDE DEF u, v, s
    <3>3. u < s
      BY <1>3, <2>1, <3>2
    <3> QED
      BY <3>3 DEF u
  <2>4. s <= f /\ f \in Nat
    <3>1. f = s * s
      BY <1>3
    <3> HIDE DEF s, f
    <3> QED
      BY <2>1, <3>1
  <2> DEFINE u == i * E
  <2>5. u \in Nat /\ u < s /\ Frame = 0 .. (f - 1)
    BY <2>1, <2>3 DEF Frame
  <2> HIDE DEF s, f, u
  <2>6. u \in Frame
    BY <2>1, <2>4, <2>5
  <2> QED
    BY <2>6 DEF u
<1>5. MemType
  <2>1. /\ Zero \in Entry /\ Garbage \in Entry
        /\ TableEntry(P3) \in Entry /\ TableEntry(P2) \in Entry
    BY <1>2, FrameType DEF Zero, Garbage, TableEntry, Entry, Flag
  <2>2. \A i \in 0 .. (E - 1) : HugeEntry(i) \in Entry
    BY <1>4 DEF HugeEntry, Entry, Flag
  <2> QED
    BY <2>1, <2>2 DEF MemType, BootTables
<1> QED
  BY <1>5

(* and they are such a tree.                                               *)
LEMMA BootTablesTree ==
  ASSUME BitmapReserved, mem = BootTables, used \in BootBitmaps
  PROVE  MemType /\ BootTree
<1>1. mem = BootTables /\ used \in BootBitmaps
  OBVIOUS
<1>2. /\ P4 \in Ram /\ P3 \in Ram /\ P2 \in Ram /\ P4 # P3 /\ P4 # P2 /\ P3 # P2
      /\ {0, P4, P3, P2} \subseteq used
  BY <1>1, BootAssumption
<1>3. E \in Nat \ {0} /\ 0 \in 0 .. (E - 1)
  BY SizesAssumption
<1>5. MemType
  BY BootTablesType
<1> DEFINE lvl == [f \in Ram |-> IF f = P4 THEN 3 ELSE IF f = P3 THEN 2
                                 ELSE IF f = P2 THEN 1 ELSE 4]
           pre == [f \in Ram |-> 0]
<1>6. lvl \in [Ram -> 0 .. 4] /\ pre \in [Ram -> Nat]
  OBVIOUS
<1>7. lvl[P4] = 3 /\ lvl[P3] = 2 /\ lvl[P2] = 1
      /\ pre[P4] = 0 /\ pre[P3] = 0 /\ pre[P2] = 0
      /\ \A f \in Ram : lvl[f] # 4 => f \in {P4, P3, P2}
  BY <1>2
<1> HIDE DEF lvl, pre
<1>8. TreeOf(lvl, pre)
  <2>1. /\ mem[P4][0] = TableEntry(P3) /\ mem[P3][0] = TableEntry(P2)
        /\ \A i \in 0 .. (E - 1) : mem[P2][i] = HugeEntry(i)
    BY <1>1, <1>2, <1>3 DEF BootTables
  <2>2. ASSUME NEW f \in Ram, NEW i \in 0 .. (E - 1),
               lvl[f] \in 1 .. 3, f # P2, Present(mem[f][i])
        PROVE  Leads(lvl, pre, f, i)
    <3>1. f \in {P4, P3}
      BY <1>7, <2>2
    <3>2. i = 0
      <4>1. ~Present(Zero)
        BY DEF Present, Zero
      <4>2. i # 0 => mem[f][i] = Zero
        BY <1>1, <1>2, <3>1 DEF BootTables
      <4> QED
        BY <2>2, <4>1, <4>2
    <3>3. 0 * E + 0 = 0
      BY <1>3
    <3>4. mem[f][0] = TableEntry(IF f = P4 THEN P3 ELSE P2)
      BY <1>2, <2>1, <3>1
    <3>5. /\ \A c : ~Huge(TableEntry(c)) /\ TableEntry(c).addr = c
          /\ 3 - 1 = 2 /\ 2 - 1 = 1
      BY DEF Huge, TableEntry
    <3> QED
      BY <1>2, <1>7, <3>1, <3>2, <3>3, <3>4, <3>5 DEF Leads
  <2>3. /\ \A f \in Ram : lvl[f] # 4 => f \in used /\ BitsIn[f] = {}
        /\ \A f \in Ram : BitsIn[f] # {} => f \in used
        /\ \A f \in Ram : lvl[f] # 0
    <3>1. \A f \in Ram : BitsIn[f] # {} => f \in used
      BY <1>1 DEF BitmapReserved
    <3>2. \A f \in Ram : lvl[f] # 4 => f \in used /\ BitsIn[f] = {}
      BY <1>2, <1>7, BitmapAssumption
    <3>3. \A f \in Ram : lvl[f] # 0
      BY <1>2, <1>7
    <3> QED
      BY <3>1, <3>2, <3>3
  <2> QED
    BY <1>2, <1>7, <2>1, <2>2, <2>3 DEF TreeOf
<1> QED
  BY <1>5, <1>6, <1>7, <1>8 DEF BootTree

(* With them, nothing in progress and a TLB that agrees, all is well.      *)
LEMMA BootTablesInv ==
  ASSUME BitmapReserved, mem = BootTables, used \in BootBitmaps, pml4 = NoTable, op = Idle, fb = NoFb, TlbInv
  PROVE  PagingInv
<1>1. MemType /\ TreeInv
  BY BootTablesTree DEF BootTree, TreeInv, OpOnTree
<1> QED
  BY <1>1 DEF PagingInv, OpInv, FbInv, FbType

(* A run starts with them, and with an empty TLB.                          *)
LEMMA PagingInvInit == ASSUME BitmapReserved PROVE Init => PagingInv
BY BootTablesInv DEF Init, TlbInv, TlbCoherent

(* Every step of a run keeps the invariant.                                *)
LEMMA PagingInvAlways ==
  ASSUME CallsOutside, BitmapReserved PROVE Spec => []PagingInv
<1>1. PagingInv /\ [Next]_vars => PagingInv'
  BY PagingInvStep
<1> QED
  BY <1>1, PagingInvInit, PTL DEF Spec

-----------------------------------------------------------------------------
(* The identity map the kernel runs on never changes, whatever is mapped   *)
(* and unmapped outside of it: no call frees or overwrites one of the boot *)
(* tables, and no table it allocates is one of them.                       *)
THEOREM IdentityKeptHolds ==
  ASSUME CallsOutside, BitmapReserved PROVE Spec => []IdentityKept
<1>1. PagingInv => IdentityKept
  <2> SUFFICES ASSUME PagingInv, NEW n \in IdentityPages \cap Pages
               PROVE  Walk(n) = [frame |-> n, flags |-> {"PRESENT", "RW"}]
    BY DEF IdentityKept
  <2>1. n \in Frame /\ n \in IdentityPages
    BY SizesAssumption
  <2>2. PICK lvl \in [Ram -> 0 .. 4], pre \in [Ram -> Nat] : TreeOf(lvl, pre)
    BY DEF PagingInv, TreeInv
  <2> QED
    BY <2>1, <2>2, IdentityWalk
<1> QED
  BY <1>1, PagingInvAlways, PTL

(* The processor never uses an outdated translation, but for the page a    *)
(* call is about to flush: an entry paging_map_page or paging_unmap_page   *)
(* writes, or a table it links, changes the walk of no other cached page.  *)
THEOREM TlbCoherentHolds ==
  ASSUME CallsOutside, BitmapReserved PROVE Spec => []TlbCoherent
<1>1. PagingInv => TlbCoherent
  BY DEF PagingInv, TlbInv
<1> QED
  BY <1>1, PagingInvAlways, PTL

-----------------------------------------------------------------------------
(* Types *)

(* What TypeOK says but for the frame of a new table, with the             *)
(* framebuffer's loop described to its end; and a table is linked from one *)
(* of the three upper levels.                                              *)
OpType ==
  /\ op \in Op \cup {Idle}
  /\ op # Idle /\ op.pc = "link" => op.level \in 1 .. 3

TypeInv ==
  /\ MemType
  /\ used \subseteq Ram
  /\ pml4 \in {NoTable, P4}
  /\ OpType
  /\ FbType
  /\ \A t \in tlb : t.page \in TlbPages /\ t.target # NoPage

(* A store writes one entry of one table.                                  *)
LEMMA StoreType ==
  ASSUME MemType, NEW f, NEW i \in 0 .. (E - 1), NEW e \in Entry, mem' = Store(f, i, e)
  PROVE  MemType'
<1>1. CASE f \in Ram
  <2>1. mem' = [mem EXCEPT ![f][i] = e] /\ mem \in [Ram -> [0 .. (E - 1) -> Entry]]
    BY <1>1 DEF Store, MemType
  <2>2. mem[f] \in [0 .. (E - 1) -> Entry]
    BY <1>1, <2>1
  <2>3. [mem[f] EXCEPT ![i] = e] \in [0 .. (E - 1) -> Entry]
    BY <2>2
  <2> QED
    BY <1>1, <2>1, <2>3 DEF MemType
<1>2. CASE f \notin Ram
  BY <1>2 DEF Store, MemType
<1> QED
  BY <1>1, <1>2

(* The call in progress, wherever it is.                                   *)
LEMMA OpShape ==
  ASSUME OpType, op # Idle
  PROVE  /\ op \in Op /\ op.new \in Ram
         /\ PageOf(op.phys) \in Frame /\ op.level \in 0 .. 3 /\ op.flags \in SUBSET Flag
         /\ Slot \in 0 .. (E - 1)
         /\ op.pc = "link" => op.level \in 1 .. 3
<1>1. op \in Op /\ (op.pc = "link" => op.level \in 1 .. 3)
  BY DEF OpType
<1>2. op.virt \in Address /\ op.phys \in Address /\ op.level \in 0 .. 3 /\ op.new \in Ram
      /\ op.flags \in SUBSET Flag
  BY <1>1 DEF Op
<1>3. PageOf(op.virt) \in Frame /\ PageOf(op.phys) \in Frame
  BY <1>2, FrameType
<1>4. Slot \in 0 .. (E - 1)
  BY <1>2, <1>3, IndexType DEF Slot
<1> QED
  BY <1>1, <1>2, <1>3, <1>4

(* A call begins at the root.                                              *)
LEMMA BeginType ==
  ASSUME TypeInv, pml4 # NoTable,
         NEW kind \in {"map", "unmap"}, NEW virt \in Address, NEW phys \in Address,
         NEW flags \in SUBSET Flag, op' = Begin(kind, virt, phys, flags)
  PROVE  OpType'
<1>1. pml4 \in Frame /\ 0 \in Ram
  BY BootAssumption, SizesAssumption, FrameType DEF TypeInv, Ram
<1>2. op' = [pc |-> "walk", kind |-> kind, virt |-> virt, phys |-> phys, flags |-> flags,
             level |-> 3, table |-> pml4, new |-> 0]
  BY DEF Begin
<1>3. op' \in Op /\ op'.pc = "walk"
  <2>1. 3 \in 0 .. 3
    OBVIOUS
  <2> QED
    BY <1>1, <1>2, <2>1 DEF Op
<1> QED
  BY <1>1, <1>3 DEF OpType

(* The bitmap's bits are those of frames.                                  *)
LEMMA BitsType ==
  ASSUME NEW f
  PROVE  /\ Bits(f) \subseteq Ram
         /\ used \subseteq Ram => \A u \in Scribbled(f) : u \subseteq Ram
<1>1. Bits(f) \subseteq Ram
  BY BitmapAssumption DEF Bits
<1> QED
  BY <1>1 DEF Scribbled

(* Every step of a call keeps the types.                                   *)
LEMMA CallStepType ==
  ASSUME TypeInv, Descend \/ AllocTable \/ LinkTable \/ SetEntry \/ Fault
  PROVE  MemType' /\ used' \subseteq Ram /\ OpType'
<1>1. op # Idle
  BY DEF Descend, AllocTable, LinkTable, SetEntry, Fault, Walking, NeedsTable
<1>2. /\ op \in Op /\ op.new \in Ram
      /\ PageOf(op.phys) \in Frame /\ op.level \in 0 .. 3 /\ op.flags \in SUBSET Flag
      /\ Slot \in 0 .. (E - 1) /\ (op.pc = "link" => op.level \in 1 .. 3)
  BY <1>1, OpShape DEF TypeInv
<1>3. Zero \in Entry
  <2>1. 0 \in Ram
    BY BootAssumption, SizesAssumption DEF Ram
  <2> QED
    BY <2>1, FrameType DEF Zero, Entry
<1>4. CASE Descend
  <2> DEFINE c == Current
  <2>1. mem' = mem /\ used' = used /\ op.level \in 1 .. 3 /\ op.pc = "walk"
        /\ op' = [op EXCEPT !.table = c.addr, !.level = op.level - 1]
    BY <1>4 DEF Descend, Walking
  <2>2. c.addr \in Frame
    BY <1>2, CellType DEF Current, Entry, TypeInv
  <2> HIDE DEF c
  <2>3. op.level - 1 \in 0 .. 3
    BY <2>1
  <2>4. op' \in Op /\ op'.pc = "walk"
    BY <1>2, <2>1, <2>2, <2>3 DEF Op
  <2> QED
    BY <1>2, <2>1, <2>4 DEF TypeInv, MemType, OpType
<1>5. CASE AllocTable
  <2> DEFINE f == FirstFree
             g == Behind(FirstFree)
  <2>1. /\ FreeFrames # {} /\ used' = (used \cup {f}) \ Bits(g)
        /\ mem' = ZeroFrame(g)
        /\ op' = [op EXCEPT !.pc = "link", !.new = f]
        /\ op.level \in 1 .. 3
    BY <1>5 DEF AllocTable, NoFrame, Marked, NeedsTable, Walking
  <2>2. f \in Ram
    BY <2>1, FirstFreeType
  <2> HIDE DEF f, g
  <2>3. op' \in Op /\ op'.level = op.level
    BY <1>2, <2>1, <2>2 DEF Op
  <2>4. MemType'
    <3>1. ZeroTable \in [0 .. (E - 1) -> Entry]
      BY <1>3 DEF ZeroTable
    <3> QED
      BY <2>1, <3>1 DEF TypeInv, MemType, ZeroFrame
  <2> QED
    BY <2>1, <2>2, <2>3, <2>4 DEF TypeInv, OpType
<1>6. CASE LinkTable
  <2> DEFINE g == Behind(op.table)
  <2>1. /\ mem' = Store(g, Slot, TableEntry(op.new)) /\ used' \in Scribbled(g)
        /\ op' = [op EXCEPT !.pc = "walk", !.table = op.new, !.level = op.level - 1]
        /\ op.pc = "link"
    BY <1>6 DEF LinkTable
  <2> HIDE DEF g
  <2>2. TableEntry(op.new) \in Entry
    BY <1>2, FrameType DEF TableEntry, Entry, Flag
  <2>3. MemType'
    BY <1>2, <2>1, <2>2, StoreType DEF TypeInv
  <2>4. op.level - 1 \in 0 .. 3 /\ op.new \in Frame
    BY <1>2, <2>1, FrameType
  <2>5. op' \in Op /\ op'.pc = "walk"
    BY <1>2, <2>1, <2>4 DEF Op
  <2>6. used' \subseteq Ram
    BY <2>1, BitsType DEF TypeInv
  <2> QED
    BY <2>3, <2>5, <2>6 DEF OpType
<1>7. CASE SetEntry
  <2> DEFINE e == IF op.kind = "map" THEN [addr |-> PageOf(op.phys), flags |-> op.flags]
                                     ELSE Zero
             g == Behind(op.table)
  <2>1. /\ mem' = Store(g, Slot, e) /\ used' \in Scribbled(g)
        /\ op' = [op EXCEPT !.pc = "flush"]
    BY <1>7 DEF SetEntry
  <2>2. e \in Entry
    BY <1>2, <1>3 DEF Entry
  <2> HIDE DEF e, g
  <2>3. MemType'
    BY <1>2, <2>1, <2>2, StoreType DEF TypeInv
  <2>4. op' \in Op /\ op'.pc = "flush"
    BY <1>2, <2>1 DEF Op
  <2>5. used' \subseteq Ram
    BY <2>1, BitsType DEF TypeInv
  <2> QED
    BY <2>3, <2>4, <2>5 DEF OpType
<1>8. CASE Fault
  <2>1. mem' = mem /\ used' = used /\ op' = [op EXCEPT !.pc = "fault"]
    BY <1>8 DEF Fault
  <2>2. op' \in Op /\ op'.pc = "fault"
    BY <1>2, <2>1 DEF Op
  <2> QED
    BY <1>2, <2>1, <2>2 DEF TypeInv, MemType, OpType
<1> QED
  BY <1>4, <1>5, <1>6, <1>7, <1>8

(* Every step keeps the types.                                             *)
LEMMA TypeInvStep ==
  ASSUME TypeInv, [Next]_vars
  PROVE  TypeInv'
<1> DEFINE Rest == pml4' = pml4 /\ fb' = fb /\ tlb' = tlb
           Still == mem' = mem /\ used' = used
           Cached == \A t \in tlb : t.page \in TlbPages /\ t.target # NoPage
<1>1. CASE Descend \/ AllocTable \/ LinkTable \/ SetEntry \/ Fault
  <2>1. MemType' /\ used' \subseteq Ram /\ OpType'
    BY <1>1, CallStepType
  <2>2. Rest
    BY <1>1 DEF Descend, AllocTable, LinkTable, SetEntry, Fault
  <2> QED
    BY <2>1, <2>2 DEF TypeInv, FbType
<1>2. ASSUME mem' = mem, used' \subseteq Ram, op' = op \/ op' = Idle
      PROVE  MemType' /\ used' \subseteq Ram /\ OpType'
  BY <1>2 DEF TypeInv, MemType, OpType
<1>14. Still => mem' = mem /\ used' \subseteq Ram
  BY DEF TypeInv
<1>3. CASE paging_init
  <2>1. Still /\ op' = op /\ fb = NoFb /\ fb' = fb /\ tlb' = tlb /\ pml4' = P4
    BY <1>3 DEF paging_init
  <2> QED
    BY <1>2, <1>14, <2>1 DEF TypeInv, FbType
<1>4. ASSUME NEW a \in MapArgs, paging_map_page(a.virt, a.phys, a.flags)
      PROVE  TypeInv'
  <2>1. a.virt \in Address /\ a.phys \in Address /\ a.flags \in SUBSET Flag
    BY CallsAssumption
  <2>2. Still /\ Rest /\ OpType'
    BY <1>4, <2>1, BeginType DEF paging_map_page, MayCall
  <2> QED
    BY <2>2 DEF TypeInv, MemType, FbType
<1>5. ASSUME NEW a \in UnmapArgs, paging_unmap_page(a)
      PROVE  TypeInv'
  <2>1. a \in Address /\ 0 \in Address /\ {} \in SUBSET Flag
    <3>1. a \in Address /\ a \in Nat
      BY CallsAssumption, FrameType
    <3>2. 0 \in Nat /\ 0 <= a
      BY <3>1
    <3> QED
      BY <3>1, <3>2, AddressDownwards
  <2>2. Still /\ Rest /\ OpType'
    BY <1>5, <2>1, BeginType DEF paging_unmap_page, MayCall
  <2> QED
    BY <2>2 DEF TypeInv, MemType, FbType
<1>6. ASSUME NEW a \in FbArgs, paging_map_framebuffer(a.phys, a.size)
      PROVE  TypeInv'
  <2>1. Still /\ op' = op /\ pml4' = pml4 /\ tlb' = tlb
    BY <1>6 DEF paging_map_framebuffer
  <2>2. FbType'
    BY <1>6, CallsAssumption, FbStart
  <2> QED
    BY <1>2, <1>14, <2>1, <2>2 DEF TypeInv
<1>7. CASE AllocFails
  <2>1. /\ mem' = mem /\ used' \subseteq Ram /\ op' = Idle
        /\ pml4' = pml4 /\ tlb' = tlb
        /\ fb' = IF fb = NoFb THEN fb ELSE [fb EXCEPT !.short = TRUE]
    BY <1>7 DEF AllocFails, TypeInv, FreeFrames
  <2>2. FbType'
    <3>1. CASE fb = NoFb
      BY <2>1, <3>1 DEF FbType
    <3>2. CASE fb # NoFb
      <4>1. /\ fb' \in [phys : Nat, size : Nat, offset : Nat, short : BOOLEAN, end : Nat]
            /\ fb'.phys = fb.phys /\ fb'.size = fb.size
            /\ fb'.offset = fb.offset /\ fb'.end = fb.end
        BY <2>1, <3>2 DEF TypeInv, FbType
      <4> QED
        BY <2>1, <3>2, <4>1 DEF TypeInv, FbType
    <3> QED
      BY <3>1, <3>2
  <2> QED
    BY <1>2, <1>14, <2>1, <2>2 DEF TypeInv
<1>8. CASE NothingToUnmap
  <2>1. Still /\ Rest /\ op' = Idle
    BY <1>8 DEF NothingToUnmap
  <2> QED
    BY <1>2, <1>14, <2>1 DEF TypeInv, FbType
<1>9. CASE Invlpg
  <2>1. Still /\ op' = Idle /\ pml4' = pml4 /\ fb' = fb /\ tlb' \subseteq tlb
    BY <1>9 DEF Invlpg, Flushed
  <2> QED
    BY <1>2, <1>14, <2>1 DEF TypeInv, FbType
<1>10. CASE FbPage
  <2>1. /\ Still /\ pml4' = pml4 /\ tlb' = tlb /\ fb # NoFb
        /\ op' = Begin("map", fb.phys + fb.offset, fb.phys + fb.offset,
                       {"PRESENT", "RW", "CACHE_DISABLE"})
    BY <1>10 DEF FbPage
  <2>2. fb.phys + fb.offset \in Address /\ FbType'
    BY <1>10, FbPageStep DEF TypeInv
  <2>3. {"PRESENT", "RW", "CACHE_DISABLE"} \in SUBSET Flag
    BY DEF Flag
  <2>4. pml4 # NoTable
    BY <2>1 DEF TypeInv, FbType
  <2>5. OpType'
    BY <2>1, <2>2, <2>3, <2>4, BeginType
  <2> QED
    BY <2>1, <2>2, <2>5 DEF TypeInv, MemType
<1>11. CASE FbReturn
  <2>1. Still /\ op' = op /\ pml4' = pml4 /\ fb' = NoFb /\ tlb' = tlb
    BY <1>11 DEF FbReturn
  <2> QED
    BY <1>2, <1>14, <2>1 DEF TypeInv, FbType
<1>12. ASSUME NEW n \in TlbPages, TlbFill(n)
       PROVE  TypeInv'
  <2>1. Still /\ op' = op /\ pml4' = pml4 /\ fb' = fb /\ Walk(n) # NoPage
        /\ tlb' = tlb \cup {[page |-> n, target |-> Walk(n)]}
    BY <1>12 DEF TlbFill
  <2>2. Cached'
    BY <2>1 DEF TypeInv
  <2> QED
    BY <1>2, <1>14, <2>1, <2>2 DEF TypeInv, FbType
<1>13. CASE UNCHANGED vars
  <2>1. Still /\ Rest /\ op' = op
    BY <1>13 DEF vars
  <2> QED
    BY <1>2, <1>14, <2>1 DEF TypeInv, FbType
<1> QED
  BY <1>1, <1>3, <1>4, <1>5, <1>6, <1>7, <1>8, <1>9, <1>10, <1>11, <1>12, <1>13
     DEF Next, Calls, Steps

(* Every behaviour of the page tables keeps the types.                     *)
LEMMA TypeInvAlways == Spec => []TypeInv
<1>1. Init => TypeInv
  <2> SUFFICES ASSUME Init PROVE TypeInv
    OBVIOUS
  <2>1. MemType
    BY BootTablesType DEF Init
  <2> QED
    BY <2>1, BootAssumption DEF Init, TypeInv, OpType, FbType
<1>2. TypeInv /\ [Next]_vars => TypeInv'
  BY TypeInvStep
<1> QED
  BY <1>1, <1>2, PTL DEF Spec

(* The frames in use stay in use,                                          *)
LEMMA UsedGrows ==
  ASSUME PagingInv, [Next]_vars
  PROVE  used \subseteq used'
<1>1. OpInv /\ TreeInv
  BY DEF PagingInv
<1>2. CASE Calls \/ UNCHANGED vars \/ \E n \in TlbPages : TlbFill(n)
  BY <1>2 DEF Calls, vars, paging_init, paging_map_page, paging_unmap_page,
              paging_map_framebuffer, TlbFill
<1>3. CASE Descend \/ NothingToUnmap \/ Invlpg \/ Fault \/ FbPage \/ FbReturn
  BY <1>3 DEF Descend, NothingToUnmap, Invlpg, Fault, FbPage, FbReturn
<1>4. CASE AllocTable
  BY <1>1, <1>4, AllocPlain
<1>5. CASE LinkTable
  BY <1>1, <1>5, LinkPlain
<1>6. CASE AllocFails
  BY <1>1, <1>6, FailsPlain
<1>7. CASE SetEntry
  BY <1>1, <1>7, SetEntryPlain
<1> QED
  BY <1>2, <1>3, <1>4, <1>5, <1>6, <1>7 DEF Next, Steps

(* and a call has an allocated frame for its new table, or still frame 0.  *)
NewUsed == op # Idle => op.new \in used

(* No step takes that frame away: a call stores to no part of the bitmap.    *)
LEMMA NewUsedStep ==
  ASSUME PagingInv, NewUsed, [Next]_vars
  PROVE  NewUsed'
<1>1. OpInv /\ TreeInv /\ used \subseteq used'
  BY UsedGrows DEF PagingInv
<1>2. 0 \in used'
  BY <1>1 DEF TreeInv, TreeOf
<1>3. ASSUME NEW kind, NEW virt, NEW phys, NEW flags, op' = Begin(kind, virt, phys, flags)
      PROVE  NewUsed'
  BY <1>2, <1>3 DEF Begin, NewUsed
<1>4. CASE op' = op \/ op' = Idle
  BY <1>1, <1>4 DEF NewUsed
<1>5. ASSUME op # Idle, op \in Op => op'.new = op.new PROVE NewUsed'
  BY <1>1, <1>5 DEF NewUsed, OpInv
<1>6. CASE Calls \/ FbPage
  BY <1>3, <1>4, <1>6 DEF Calls, FbPage, paging_init, paging_map_page, paging_unmap_page,
                          paging_map_framebuffer
<1>7. CASE NothingToUnmap \/ AllocFails \/ Invlpg \/ FbReturn \/ UNCHANGED vars
           \/ \E n \in TlbPages : TlbFill(n)
  BY <1>4, <1>7 DEF NothingToUnmap, AllocFails, Invlpg, FbReturn, vars, TlbFill
<1>8. CASE Descend
  <2>1. op # Idle /\ op' = [op EXCEPT !.table = Here.addr, !.level = op.level - 1]
    BY <1>1, <1>8, DescendPlain
  <2> QED
    BY <1>5, <2>1 DEF Op
<1>9. CASE AllocTable
  <2> DEFINE f == FirstFree
  <2>1. op # Idle /\ op' = [op EXCEPT !.pc = "link", !.new = f] /\ used' = used \cup {f}
    BY <1>1, <1>9, AllocPlain
  <2>2. op \in Op
    BY <1>1, <2>1 DEF OpInv
  <2> HIDE DEF f
  <2> QED
    BY <2>1, <2>2 DEF NewUsed, Op
<1>10. CASE LinkTable
  <2>1. op # Idle
        /\ op' = [op EXCEPT !.pc = "walk", !.table = op.new, !.level = op.level - 1]
    BY <1>1, <1>10, LinkPlain
  <2> QED
    BY <1>5, <2>1 DEF Op
<1>11. CASE SetEntry
  <2>1. op # Idle /\ op' = [op EXCEPT !.pc = "flush"]
    BY <1>1, <1>11, SetEntryPlain
  <2> QED
    BY <1>5, <2>1 DEF Op
<1>12. CASE Fault
  <2>1. op # Idle /\ op' = [op EXCEPT !.pc = "fault"]
    BY <1>12, FaultPlain DEF Fault
  <2> QED
    BY <1>5, <2>1 DEF Op
<1> QED
  BY <1>6, <1>7, <1>8, <1>9, <1>10, <1>11, <1>12 DEF Next, Steps

(* The tables hold entries, the allocator's bitmap frames of the RAM, and  *)
(* a call in progress addresses of the machine and an allocated new table. *)
THEOREM TypeCorrect ==
  ASSUME CallsOutside, BitmapReserved PROVE Spec => []TypeOK
<1>1. Init => NewUsed
  BY DEF Init, NewUsed
<1>2. PagingInv /\ NewUsed /\ [Next]_vars => NewUsed'
  BY NewUsedStep
<1>3. TypeInv /\ NewUsed => TypeOK
  BY DEF TypeInv, NewUsed, TypeOK, MemType, OpType, FbType
<1> QED
  BY <1>1, <1>2, <1>3, TypeInvAlways, PagingInvAlways, PTL DEF Spec

(* paging_get_physical gives the byte the processor would access, through  *)
(* pages and huge pages alike, and 0 exactly where the walk fails,         *)
(* whatever is mapped.                                                     *)
THEOREM WalksAgreeHolds == Spec => []WalksAgree
<1>1. TypeInv => WalksAgree
  <2> SUFFICES ASSUME TypeInv, pml4 # NoTable,
                      NEW n \in Pages, NEW o \in 0 .. (PageSize - 1)
               PROVE  paging_get_physical(n * PageSize + o) =
                        IF Walk(n) = NoPage THEN 0 ELSE Walk(n).frame * PageSize + o
    BY DEF WalksAgree
  <2>1. n \in Frame
    BY SizesAssumption
  <2> QED
    BY <2>1, SameByte DEF TypeInv
<1> QED
  BY <1>1, TypeInvAlways, PTL

-----------------------------------------------------------------------------
(* The refinement of AddressSpace *)

SupervisorFlags == {"PRESENT", "RW", "CACHE_DISABLE"}

(* Calls name pages of the address space looked at, and ask neither for    *)
(* USER, which tables linked with PRESENT and RW alone deny, nor for HUGE, *)
(* which the last level ignores.                                           *)
CallsPlain ==
  /\ \A a \in MapArgs : PageOf(a.virt) \in Pages /\ a.flags \subseteq SupervisorFlags
  /\ \A a \in UnmapArgs : PageOf(a) \in Pages
  /\ \A a \in FbArgs : \A i \in 0 .. a.size : PageOf(a.phys + i) \in Pages

(* What the call in progress asks for, as in the substitution of Space     *)
Asked ==
  IF op.kind = "map" /\ "PRESENT" \in op.flags
    THEN [frame |-> PageOf(op.phys), flags |-> op.flags] ELSE NoPage

SpaceRequest ==
  IF op = Idle THEN Idle ELSE [page |-> PageOf(op.virt), target |-> Asked]

OpArgs ==
  op # Idle => PageOf(op.virt) \in Pages /\ op.flags \subseteq SupervisorFlags

FbPages == fb # NoFb => \A i \in 0 .. fb.size : PageOf(fb.phys + i) \in Pages

(* The call has come as far as the processor's walk of its page would, so  *)
(* what it writes is what the processor will read.                         *)
PathInv ==
  op # Idle /\ op.pc \in {"walk", "link"} =>
    /\ Open(PageOf(op.virt), op.level)
    /\ op.table = TableAt(PageOf(op.virt), op.level)

(* Once the entry is written, the page translates as asked.                *)
ResultInv == op # Idle /\ op.pc = "flush" => Walk(PageOf(op.virt)) = Asked

SpaceInv == OpArgs /\ FbPages /\ PathInv /\ ResultInv

(* What leaves tables and frames alone, and the call, is no step of the    *)
(* address space.                                                          *)
LEMMA SpaceStutters ==
  ASSUME \A n \in Pages : Walk(n)' = Walk(n), SpaceRequest' = SpaceRequest, used' = used
  PROVE  UNCHANGED Space!vars
BY DEF Space!vars, SpaceRequest, Asked, FreeFrames

(* While the tables stay, so does the way through them.                    *)
LEMMA PathStays ==
  ASSUME mem' = mem, NEW n, NEW level
  PROVE  Open(n, level)' = Open(n, level) /\ TableAt(n, level)' = TableAt(n, level)
BY DEF Open, TableAt, EntryAt, Entry3, Entry2, Entry1, Entry0, Cell, Present, Huge

(* A call starts where every walk does.                                    *)
LEMMA BeginPath ==
  ASSUME pml4 = P4, NEW kind, NEW virt, NEW phys, NEW flags,
         op' = Begin(kind, virt, phys, flags)
  PROVE  PathInv'
<1>1. op'.virt = virt /\ op'.level = 3 /\ op'.table = P4
  BY DEF Begin
<1>2. Open(PageOf(virt), 3)' /\ TableAt(PageOf(virt), 3)' = P4
  BY DEF Open, TableAt
<1> QED
  BY <1>1, <1>2 DEF PathInv

(* A call begins: a request for one page.                                  *)
LEMMA BeginSpace ==
  ASSUME op = Idle, mem' = mem, used' = used, pml4 = P4,
         NEW kind \in {"map", "unmap"}, NEW virt \in Address, NEW phys \in Address,
         NEW flags \in SUBSET Flag, PageOf(virt) \in Pages, flags \subseteq SupervisorFlags,
         op' = Begin(kind, virt, phys, flags)
  PROVE  OpArgs' /\ PathInv' /\ ResultInv' /\ Space!Next
<1>1. op' = [pc |-> "walk", kind |-> kind, virt |-> virt, phys |-> phys, flags |-> flags,
             level |-> 3, table |-> P4, new |-> 0]
  BY DEF Begin
<1>2. OpArgs' /\ ResultInv'
  BY <1>1 DEF OpArgs, ResultInv
<1>3. PathInv'
  BY BeginPath
<1>4. SpaceRequest = Idle /\ SpaceRequest' \in Space!Request
  <2>1. op' # Idle /\ PageOf(op'.virt) \in Pages
    BY <1>1 DEF Idle
  <2>2. Asked' \in [frame : Frame, flags : SUBSET Flag] \cup {NoPage}
    BY <1>1, FrameType DEF Asked
  <2>3. SpaceRequest' = [page |-> PageOf(op'.virt), target |-> Asked']
    BY <2>1 DEF SpaceRequest
  <2> QED
    BY <2>1, <2>2, <2>3 DEF SpaceRequest, Space!Request
<1>5. Space!Call
  <2>1. \A n \in Pages : Walk(n)' = Walk(n)
    BY WalkStays
  <2> QED
    BY <1>4, <2>1 DEF Space!Call, SpaceRequest, Asked, FreeFrames
<1> QED
  BY <1>2, <1>3, <1>5 DEF Space!Next

(* The entry a call looks at is the one the walk of its page reads.        *)
LEMMA HereEntry ==
  ASSUME PagingInv, PathInv, op # Idle, op.pc \in {"walk", "link"}
  PROVE  Here = EntryAt(PageOf(op.virt), op.level)
<1> DEFINE n == PageOf(op.virt)
           k == op.level
<1>1. n \in Frame /\ k \in 0 .. 3
  BY OpFacts DEF PagingInv
<1>2. PICK lvl \in [Ram -> 0 .. 4], pre \in [Ram -> Nat] :
        TreeOf(lvl, pre) /\ OpOnTree(lvl, pre)
  BY DEF PagingInv, TreeInv
<1>3. op.table \in Ram /\ op.table = TableAt(n, k)
  BY <1>2 DEF OpOnTree, PathInv
<1>4. EntryAt(n, k) = mem[op.table][Index(n, k)]
  BY <1>1, <1>3, EntryRead
<1> QED
  BY <1>3, <1>4 DEF Here, Cell, Slot

(* A step down.                                                            *)
LEMMA DescendSpace ==
  ASSUME PagingInv, PathInv, Descend
  PROVE  PathInv' /\ ResultInv' /\ SpaceRequest' = SpaceRequest
<1> DEFINE n == PageOf(op.virt)
           k == op.level
<1>1. /\ op # Idle /\ op.pc = "walk" /\ k \in 1 .. 3 /\ Present(Here)
      /\ op' = [op EXCEPT !.table = Here.addr, !.level = k - 1]
      /\ mem' = mem
  BY DescendPlain DEF PagingInv, Descend
<1>2. op \in Op /\ n \in Frame /\ n \notin IdentityPages
  BY <1>1, OpFacts DEF PagingInv
<1>3. /\ op' \in [pc : {"walk"}, kind : {op.kind}, virt : {op.virt}, phys : {op.phys},
                  flags : {op.flags}, level : {k - 1}, table : {Here.addr}, new : {op.new}]
      /\ op' # Idle
  <2>1. op' \in [pc : {"walk"}, kind : {op.kind}, virt : {op.virt}, phys : {op.phys},
                 flags : {op.flags}, level : {k - 1}, table : {Here.addr}, new : {op.new}]
    BY <1>1, <1>2 DEF Op
  <2> QED
    BY <2>1 DEF Idle
<1>4. SpaceRequest' = SpaceRequest
  BY <1>1, <1>3 DEF SpaceRequest, Asked
<1>5. PICK lvl \in [Ram -> 0 .. 4], pre \in [Ram -> Nat] : TreeOf(lvl, pre)
  BY DEF PagingInv, TreeInv
<1>6. Open(n, k) /\ Here = EntryAt(n, k)
  BY <1>1, HereEntry DEF PathInv
<1>7. Open(n, k - 1) /\ TableAt(n, k - 1) = Here.addr
  <2>1. Open(n, k - 1) /\ EntryAt(n, k) = TableEntry(TableAt(n, k - 1))
    BY <1>1, <1>2, <1>5, <1>6, WalkGoesOn
  <2> QED
    BY <1>6, <2>1 DEF TableEntry
<1>8. PathInv'
  <2>1. \A m, j : Open(m, j)' = Open(m, j) /\ TableAt(m, j)' = TableAt(m, j)
    BY <1>1, PathStays
  <2>2. op'.virt = op.virt /\ op'.level = k - 1 /\ op'.table = Here.addr
    BY <1>3
  <2> QED
    BY <1>7, <2>1, <2>2 DEF PathInv
<1> QED
  BY <1>3, <1>4, <1>8 DEF ResultInv

(* A step on the tables below those the call came through.                 *)
LEMMA PathBelow ==
  ASSUME NEW lvl, NEW pre, TreeOf(lvl, pre), NEW n \in Frame, NEW k \in 0 .. 3, Open(n, k),
         \A f \in Ram : lvl[f] \in (k + 1) .. 3 => mem'[f] = mem[f]
  PROVE  Open(n, k)' /\ TableAt(n, k)' = TableAt(n, k)
<1>1. \A f \in Ram, j \in 1 .. 3 :
        j > k /\ lvl[f] = j => mem'[f][Index(n, j)] = mem[f][Index(n, j)]
  OBVIOUS
<1> QED
  BY <1>1, PathKept

(* Zeroing a frame for a table uses up a frame and changes nothing else.   *)
LEMMA AllocSpace ==
  ASSUME PagingInv, PathInv, AllocTable
  PROVE  PathInv' /\ ResultInv' /\ SpaceRequest' = SpaceRequest
<1> DEFINE n == PageOf(op.virt)
           k == op.level
           f == FirstFree
<1>1. /\ op # Idle /\ op.pc = "walk" /\ FreeFrames # {}
      /\ mem' = [mem EXCEPT ![f] = ZeroTable]
      /\ op' = [op EXCEPT !.pc = "link", !.new = f]
  BY AllocPlain DEF PagingInv
<1>2. op \in Op /\ n \in Frame /\ k \in 0 .. 3
  BY <1>1, OpFacts DEF PagingInv
<1>3. f \in Ram /\ f \notin used
  BY <1>1, FirstFreeType
<1> HIDE DEF f
<1>4. /\ op'.pc = "link" /\ op'.kind = op.kind /\ op'.virt = op.virt /\ op'.phys = op.phys
      /\ op'.flags = op.flags /\ op'.level = op.level /\ op'.table = op.table
      /\ op' # Idle
  <2>1. /\ op'.pc = "link" /\ op'.kind = op.kind /\ op'.virt = op.virt /\ op'.phys = op.phys
        /\ op'.flags = op.flags /\ op'.level = op.level /\ op'.table = op.table
    BY <1>1, <1>2 DEF Op
  <2> QED
    BY <2>1 DEF Idle
<1>5. SpaceRequest' = SpaceRequest
  BY <1>1, <1>4 DEF SpaceRequest, Asked
<1>6. PICK lvl \in [Ram -> 0 .. 4], pre \in [Ram -> Nat] : TreeOf(lvl, pre)
  BY DEF PagingInv, TreeInv
<1>7. \A g \in Ram : lvl[g] \in (k + 1) .. 3 => mem'[g] = mem[g]
  <2>1. lvl[f] = 4
    BY <1>3, <1>6 DEF TreeOf
  <2> QED
    BY <1>1, <1>3, <2>1 DEF PagingInv, MemType
<1>8. Open(n, k) /\ op.table = TableAt(n, k)
  BY <1>1 DEF PathInv
<1>9. PICK m, j : m = n /\ j = k
  OBVIOUS
<1>10. Open(m, j)' /\ TableAt(m, j)' = TableAt(m, j)
  BY <1>2, <1>6, <1>7, <1>8, <1>9, PathBelow
<1>11. PathInv'
  BY <1>4, <1>8, <1>9, <1>10 DEF PathInv
<1> QED
  BY <1>4, <1>5, <1>11 DEF ResultInv

(* Linking a table: the walk now gets as far as the new table.             *)
LEMMA LinkSpace ==
  ASSUME PagingInv, PathInv, LinkTable
  PROVE  PathInv' /\ ResultInv' /\ SpaceRequest' = SpaceRequest
<1> DEFINE n == PageOf(op.virt)
           k == op.level
           T == op.table
           c == op.new
<1>1. /\ op # Idle /\ op.pc = "link"
      /\ mem' = Store(T, Slot, TableEntry(c))
      /\ op' = [op EXCEPT !.pc = "walk", !.table = c, !.level = k - 1]
  BY LinkPlain DEF PagingInv
<1>2. op \in Op /\ n \in Frame /\ k \in 0 .. 3
  BY <1>1, OpFacts DEF PagingInv
<1>3. PICK lvl \in [Ram -> 0 .. 4], pre \in [Ram -> Nat] :
        TreeOf(lvl, pre) /\ OpOnTree(lvl, pre)
  BY DEF PagingInv, TreeInv
<1>4. T \in Ram /\ lvl[T] = k /\ k \in 1 .. 3
  BY <1>1, <1>3 DEF OpOnTree
<1>5. /\ op'.pc = "walk" /\ op'.kind = op.kind /\ op'.virt = op.virt /\ op'.phys = op.phys
      /\ op'.flags = op.flags /\ op'.level = k - 1 /\ op'.table = c
      /\ op' # Idle
  <2>1. /\ op'.pc = "walk" /\ op'.kind = op.kind /\ op'.virt = op.virt /\ op'.phys = op.phys
        /\ op'.flags = op.flags /\ op'.level = k - 1 /\ op'.table = c
    BY <1>1, <1>2 DEF Op
  <2> QED
    BY <2>1 DEF Idle
<1>6. SpaceRequest' = SpaceRequest
  BY <1>1, <1>5 DEF SpaceRequest, Asked
<1>7. Open(n, k) /\ T = TableAt(n, k)
  BY <1>1 DEF PathInv
<1>8. PICK m \in Frame, j \in 1 .. 3, s \in Ram, d \in {c} : m = n /\ j = k /\ s = T /\ d = c
  BY <1>2, <1>4
<1>9. mem' = [mem EXCEPT ![s][Index(m, j)] = TableEntry(d)]
  BY <1>1, <1>4, <1>8 DEF Store, Slot
<1>10. Index(m, j) \in 0 .. (E - 1) /\ mem \in [Ram -> [0 .. (E - 1) -> Entry]]
  BY IndexType DEF PagingInv, MemType
<1>11. mem'[s][Index(m, j)] = TableEntry(d)
  BY <1>9, <1>10
<1>12. \A g \in Ram : lvl[g] \in (j + 1) .. 3 => mem'[g] = mem[g]
  <2>1. \A g \in Ram : g # s => mem'[g] = mem[g]
    BY <1>9, <1>10
  <2> QED
    BY <1>4, <1>8, <2>1
<1>13. Open(m, j)' /\ TableAt(m, j)' = s
  <2>1. Open(m, j) /\ TableAt(m, j) = s /\ j \in 0 .. 3
    BY <1>7, <1>8
  <2> QED
    BY <1>3, <1>12, <2>1, PathBelow
<1>14. EntryAt(m, j)' = TableEntry(d)
  <2>1. j \in 0 .. 3
    OBVIOUS
  <2> QED
    BY <1>11, <1>13, <2>1, EntryRead
<1>15. Open(m, j - 1)' /\ TableAt(m, j - 1)' = d
  <2>1. j - 1 # 3 /\ (j - 1) + 1 = j /\ \A i \in 1 .. 3 : i > j - 1 => i = j \/ i > j
    OBVIOUS
  <2>2. TableAt(m, j - 1)' = d
    BY <1>14, <2>1 DEF TableAt, TableEntry
  <2>3. Present(TableEntry(d)) /\ ~Huge(TableEntry(d))
    BY DEF Present, Huge, TableEntry
  <2>4. Open(m, j - 1)'
    BY <1>13, <1>14, <2>1, <2>3 DEF Open, Present, Huge
  <2> QED
    BY <2>2, <2>4
<1>16. PathInv'
  BY <1>5, <1>8, <1>15 DEF PathInv
<1> QED
  BY <1>5, <1>6, <1>16 DEF ResultInv

(* Writing the entry is the one change of the call: the processor's walk   *)
(* of the page reads it, with the rights of the tables above, which give   *)
(* all but USER.                                                           *)
LEMMA SetEntryWalk ==
  ASSUME PagingInv, PathInv, SetEntry, NEW m \in Frame, m = PageOf(op.virt)
  PROVE  /\ PathInv' /\ PageOf(op'.virt) = m
         /\ Walk(m)' = NoPage \/ (op.kind = "map" /\ Walk(m)'.frame = PageOf(op.phys))
         /\ op.flags \subseteq SupervisorFlags => Walk(m)' = Asked
         /\ Asked' = Asked /\ SpaceRequest' = SpaceRequest
<1> DEFINE n == PageOf(op.virt)
           T == op.table
           e == IF op.kind = "map" THEN [addr |-> PageOf(op.phys), flags |-> op.flags] ELSE Zero
<1>1. /\ op # Idle /\ op.pc = "walk" /\ op.level = 0 /\ used' = used
      /\ mem' = Store(T, Slot, e) /\ op' = [op EXCEPT !.pc = "flush"]
  BY SetEntryPlain DEF PagingInv
<1>2. op \in Op /\ n \in Frame /\ n \notin IdentityPages /\ PageOf(op.phys) \in Frame
  BY <1>1, OpFacts DEF PagingInv
<1>3. PICK lvl \in [Ram -> 0 .. 4], pre \in [Ram -> Nat] :
        TreeOf(lvl, pre) /\ OpOnTree(lvl, pre)
  BY DEF PagingInv, TreeInv
<1>4. T \in Ram /\ lvl[T] = 0
  BY <1>1, <1>3 DEF OpOnTree
<1>5. /\ op'.pc = "flush" /\ op'.kind = op.kind /\ op'.virt = op.virt /\ op'.phys = op.phys
      /\ op'.flags = op.flags /\ op' # Idle
  <2>1. /\ op'.pc = "flush" /\ op'.kind = op.kind /\ op'.virt = op.virt /\ op'.phys = op.phys
        /\ op'.flags = op.flags
    BY <1>1, <1>2 DEF Op
  <2> QED
    BY <2>1 DEF Idle
<1>6. Open(n, 0) /\ T = TableAt(n, 0)
  BY <1>1 DEF PathInv
<1>7. PICK s \in Ram, v \in {e} : m = n /\ s = T /\ v = e
  BY <1>2, <1>4
<1>8. mem' = [mem EXCEPT ![s][Index(m, 0)] = v]
  BY <1>1, <1>4, <1>7 DEF Store, Slot
<1>9. Index(m, 0) \in 0 .. (E - 1) /\ mem \in [Ram -> [0 .. (E - 1) -> Entry]]
  BY IndexType DEF PagingInv, MemType
<1>10. mem'[s][Index(m, 0)] = v /\ \A g \in Ram : g # s => mem'[g] = mem[g]
  BY <1>8, <1>9
<1>11. Open(m, 0) /\ TableAt(m, 0) = s
  BY <1>6, <1>7
<1>12. /\ TableAt(m, 0)' = s
       /\ \A k \in 1 .. 3 : k > 0 => EntryAt(m, k)' = EntryAt(m, k)
  <2>1. \A f \in Ram, k \in 1 .. 3 :
          k > 0 /\ lvl[f] = k => mem'[f][Index(m, k)] = mem[f][Index(m, k)]
    BY <1>4, <1>7, <1>10
  <2> QED
    BY <1>3, <1>11, <2>1, PathKept
<1>13. EntryAt(m, 0)' = v
  BY <1>10, <1>12, EntryRead
<1>14. \A k \in 1 .. 3 : EntryAt(m, k).flags = {"PRESENT", "RW"}
                        /\ Present(EntryAt(m, k)) /\ ~Huge(EntryAt(m, k))
  <2> SUFFICES ASSUME NEW k \in 1 .. 3
               PROVE  EntryAt(m, k).flags = {"PRESENT", "RW"}
                      /\ Present(EntryAt(m, k)) /\ ~Huge(EntryAt(m, k))
    OBVIOUS
  <2>1. Open(m, k) /\ Present(EntryAt(m, k)) /\ ~Huge(EntryAt(m, k))
    <3>1. k > 0 /\ \A j \in 1 .. 3 : j > k => j > 0
      OBVIOUS
    <3> QED
      BY <1>11, <3>1 DEF Open
  <2>2. EntryAt(m, k) = TableEntry(TableAt(m, k - 1))
    BY <1>2, <1>3, <1>7, <2>1, WalkGoesOn
  <2> QED
    BY <2>1, <2>2 DEF TableEntry
<1>15. /\ Entry3(m)' = EntryAt(m, 3) /\ Entry2(m)' = EntryAt(m, 2)
       /\ Entry1(m)' = EntryAt(m, 1) /\ Entry0(m)' = v
  <2>1. 3 > 0 /\ 2 > 0 /\ 1 > 0
    OBVIOUS
  <2> QED
    BY <1>12, <1>13, <2>1 DEF EntryAt
<1>16. Walk(m)' = IF Present(v) THEN Leaf(v, v.addr, 0, {EntryAt(m, 3), EntryAt(m, 2), EntryAt(m, 1)})
                  ELSE NoPage
  <2>1. /\ Present(Entry3(m)') /\ Present(Entry2(m)') /\ ~Huge(Entry2(m)')
        /\ Present(Entry1(m)') /\ ~Huge(Entry1(m)')
    BY <1>14, <1>15
  <2> QED
    BY <1>15, <2>1 DEF Walk, Leaf, Present, Huge
<1>17. ASSUME op.flags \subseteq SupervisorFlags
       PROVE  Walk(m)' = Asked
  <2>1. op.kind \in {"map", "unmap"} /\ op.flags \subseteq SupervisorFlags
    BY <1>2, <1>17 DEF Op
  <2>2. CASE op.kind = "unmap"
    <3>1. ~Present(v) /\ Asked = NoPage
      BY <1>7, <2>2 DEF Present, Zero, Asked
    <3> QED
      BY <1>16, <3>1
  <2>3. CASE op.kind = "map"
    <3>1. v.addr = PageOf(op.phys) /\ v.flags = op.flags
      BY <1>7, <2>3
    <3>2. CASE "PRESENT" \notin op.flags
      BY <1>16, <2>3, <3>1, <3>2 DEF Present, Asked
    <3>3. CASE "PRESENT" \in op.flags
      <4> DEFINE U == {EntryAt(m, 3), EntryAt(m, 2), EntryAt(m, 1)}
      <4>1. \A u \in U : u.flags = {"PRESENT", "RW"}
        BY <1>14
      <4>2. {g \in op.flags \ {"HUGE"} : g \in {"RW", "USER"} => \A u \in U : g \in u.flags}
              = op.flags
        <5> HIDE DEF U
        <5> QED
          BY <2>1, <4>1 DEF SupervisorFlags
      <4>3. PageOf(op.phys) + 0 = PageOf(op.phys)
        <5>1. \A f \in Frame : f \in Int
          BY DEF Frame
        <5>2. PageOf(op.phys) \in Int
          BY <1>2, <5>1
        <5> QED
          BY <5>2
      <4>4. Leaf(v, v.addr, 0, U) = [frame |-> PageOf(op.phys), flags |-> op.flags]
        <5> HIDE DEF U
        <5> QED
          BY <3>1, <4>2, <4>3 DEF Leaf
      <4> QED
        BY <1>16, <2>3, <3>1, <3>3, <4>4 DEF Present, Asked
    <3> QED
      BY <3>2, <3>3
  <2> QED
    BY <2>1, <2>2, <2>3
<1>18. Walk(m)' = NoPage \/ (op.kind = "map" /\ Walk(m)'.frame = PageOf(op.phys))
  <2>1. op.kind \in {"map", "unmap"}
    BY <1>2 DEF Op
  <2>2. op.kind = "unmap" => ~Present(v)
    BY <1>7 DEF Present, Zero
  <2>3. op.kind = "map" => v.addr + 0 = PageOf(op.phys)
    <3>1. \A f \in Frame : f \in Int
      BY DEF Frame
    <3>2. PageOf(op.phys) \in Int
      BY <1>2, <3>1
    <3>3. op.kind = "map" => v.addr = PageOf(op.phys)
      BY <1>7
    <3> QED
      BY <3>2, <3>3
  <2> QED
    BY <1>16, <2>1, <2>2, <2>3 DEF Leaf
<1>19. Asked' = Asked /\ SpaceRequest' = SpaceRequest /\ PageOf(op'.virt) = m
  BY <1>1, <1>5, <1>7 DEF SpaceRequest, Asked
<1>20. PathInv'
  BY <1>5 DEF PathInv
<1> QED
  BY <1>17, <1>18, <1>19, <1>20

(* So it performs what was asked for.                                      *)
LEMMA SetEntrySpace ==
  ASSUME PagingInv, PathInv, OpArgs, SetEntry
  PROVE  PathInv' /\ ResultInv' /\ Space!Perform
<1>1. /\ op # Idle /\ used' = used
  BY SetEntryPlain DEF PagingInv
<1>2. PICK m \in Frame : m = PageOf(op.virt)
  BY <1>1, OpFacts DEF PagingInv
<1>3. op.flags \subseteq SupervisorFlags
  BY <1>1 DEF OpArgs
<1>4. /\ PathInv' /\ PageOf(op'.virt) = m /\ Walk(m)' = Asked
      /\ Asked' = Asked /\ SpaceRequest' = SpaceRequest
  BY <1>2, <1>3, SetEntryWalk
<1>5. ResultInv'
  BY <1>4 DEF ResultInv
<1>6. Space!Perform
  <2>1. \A q \in Pages : q # m => Walk(q)' = Walk(q)
    BY <1>2, SetEntryInv, SizesAssumption
  <2>2. [q \in Pages |-> Walk(q)]' = [[q \in Pages |-> Walk(q)] EXCEPT ![m] = Asked]
    BY <1>4, <2>1
  <2>3. SpaceRequest # Idle /\ SpaceRequest.page = m /\ SpaceRequest.target = Asked
    <3>1. SpaceRequest = [page |-> m, target |-> Asked]
      BY <1>1, <1>2 DEF SpaceRequest
    <3> QED
      BY <3>1 DEF Idle
  <2>4. (FreeFrames # {})' = (FreeFrames # {})
    BY <1>1 DEF FreeFrames
  <2> QED
    BY <1>4, <2>2, <2>3, <2>4 DEF Space!Perform, SpaceRequest, Asked
<1> QED
  BY <1>4, <1>5, <1>6

(* A call that finds no table to unmap in ends with the page unmapped.     *)
LEMMA NothingUnmapped ==
  ASSUME PagingInv, PathInv, NothingToUnmap
  PROVE  Asked = NoPage /\ Walk(PageOf(op.virt)) = NoPage
<1> DEFINE n == PageOf(op.virt)
           k == op.level
<1>1. op # Idle /\ op.pc = "walk" /\ k \in 1 .. 3 /\ op.kind = "unmap" /\ ~Present(Here)
  BY NothingPlain DEF PagingInv
<1>2. Open(n, k) /\ ~Present(EntryAt(n, k))
  BY <1>1, HereEntry DEF PathInv
<1>3. Asked = NoPage
  BY <1>1 DEF Asked
<1>4. ~Present(Entry3(n)) \/ ~Present(Entry2(n)) \/ (~Huge(Entry2(n)) /\ ~Present(Entry1(n)))
  <2>1. CASE k = 3
    BY <1>2, <2>1 DEF EntryAt
  <2>2. CASE k = 2
    BY <1>2, <2>2 DEF EntryAt
  <2>3. CASE k = 1
    <3>1. 2 \in 1 .. 3 /\ 2 > 1
      OBVIOUS
    <3>2. ~Huge(EntryAt(n, 2))
      BY <1>2, <2>3, <3>1 DEF Open
    <3> QED
      BY <1>2, <2>3, <3>2 DEF EntryAt
  <2> QED
    BY <1>1, <2>1, <2>2, <2>3
<1>5. Walk(n) = NoPage
  BY <1>4 DEF Walk
<1> QED
  BY <1>3, <1>5

(* What leaves the call and the tables alone keeps what is said of them.   *)
LEMMA SpaceQuiet ==
  ASSUME OpArgs, PathInv, ResultInv, mem' = mem, op' = op
  PROVE  OpArgs' /\ PathInv' /\ ResultInv' /\ SpaceRequest' = SpaceRequest
<1>1. OpArgs' /\ SpaceRequest' = SpaceRequest /\ Asked' = Asked
  BY DEF OpArgs, SpaceRequest, Asked
<1>2. PICK n, k : n = PageOf(op.virt) /\ k = op.level
  OBVIOUS
<1>3. n = PageOf(op'.virt) /\ k = op'.level
  BY <1>2
<1>4. Open(n, k)' = Open(n, k) /\ TableAt(n, k)' = TableAt(n, k)
  BY PathStays
<1>5. Walk(n)' = Walk(n)
  BY WalkStays
<1>6. PathInv'
  BY <1>2, <1>3, <1>4 DEF PathInv
<1>7. ResultInv'
  BY <1>1, <1>2, <1>3, <1>5 DEF ResultInv
<1> QED
  BY <1>1, <1>6, <1>7

(* A step within a call changes nothing of what was asked for.             *)
LEMMA ArgsKept ==
  ASSUME PagingInv, OpArgs, Descend \/ AllocTable \/ LinkTable \/ SetEntry
  PROVE  OpArgs'
<1>1. op # Idle
  BY DEF Descend, AllocTable, LinkTable, SetEntry, Walking, NeedsTable
<1>2. op \in Op
  BY <1>1, OpFacts DEF PagingInv
<1>3. op'.virt = op.virt /\ op'.flags = op.flags
  BY <1>2 DEF Descend, AllocTable, LinkTable, SetEntry, Op
<1> QED
  BY <1>1, <1>3 DEF OpArgs

(* A call returns, as asked or for want of a frame.                        *)
LEMMA ReturnSpace ==
  ASSUME PagingInv, SpaceInv, NothingToUnmap \/ Invlpg \/ AllocFails
  PROVE  OpArgs' /\ PathInv' /\ ResultInv' /\ Space!Next
<1> DEFINE n == PageOf(op.virt)
<1>1. op # Idle /\ op' = Idle /\ mem' = mem /\ used' = used
  BY FailsPlain DEF PagingInv, NothingToUnmap, Invlpg, AllocFails, NeedsTable, Walking
<1>2. OpArgs' /\ PathInv' /\ ResultInv'
  BY <1>1 DEF OpArgs, PathInv, ResultInv
<1>3. n \in Pages /\ (Walk(n) = Asked \/ FreeFrames = {})
  <2>1. n \in Pages
    BY <1>1 DEF SpaceInv, OpArgs
  <2>2. CASE NothingToUnmap
    BY <2>1, <2>2, NothingUnmapped DEF SpaceInv
  <2>3. CASE Invlpg
    BY <2>1, <2>3 DEF Invlpg, SpaceInv, ResultInv
  <2>4. CASE AllocFails
    BY <2>1, <2>4, FailsPlain DEF PagingInv
  <2> QED
    BY <2>2, <2>3, <2>4
<1>4. /\ SpaceRequest = [page |-> n, target |-> Asked] /\ SpaceRequest # Idle
      /\ SpaceRequest' = Idle
  <2>1. SpaceRequest = [page |-> n, target |-> Asked]
    BY <1>1 DEF SpaceRequest
  <2> QED
    BY <1>1, <2>1 DEF SpaceRequest, Idle
<1>5. \A m \in Pages : Walk(m)' = Walk(m)
  BY <1>1, WalkStays
<1>6. Space!Return
  <2>1. [q \in Pages |-> Walk(q)]' = [q \in Pages |-> Walk(q)]
    BY <1>5
  <2>2. (FreeFrames # {})' = (FreeFrames # {})
    BY <1>1 DEF FreeFrames
  <2>3. [q \in Pages |-> Walk(q)][n] = Asked \/ ~(FreeFrames # {})
    BY <1>3
  <2> QED
    BY <1>4, <2>1, <2>2, <2>3 DEF Space!Return, SpaceRequest, Asked
<1> QED
  BY <1>2, <1>6 DEF Space!Next

(* Every step of the page tables is one of the address space, or none.     *)
LEMMA SpaceStep ==
  ASSUME CallsOutside, CallsPlain, PagingInv, SpaceInv, [Next]_vars
  PROVE  SpaceInv' /\ [Space!Next]_(Space!vars)
<1> DEFINE Core == OpArgs /\ PathInv /\ ResultInv
<1>1. Core /\ FbPages
  BY DEF SpaceInv
<1>2. fb' = fb => FbPages'
  BY <1>1 DEF FbPages
<1>3. ASSUME FbPages', mem' = mem, used' = used, op' = op
      PROVE  SpaceInv' /\ UNCHANGED Space!vars
  <2>1. \A n \in Pages : Walk(n)' = Walk(n)
    BY <1>3, WalkStays
  <2> QED
    BY <1>1, <1>3, <2>1, SpaceQuiet, SpaceStutters DEF SpaceInv
<1>4. CASE paging_init
  BY <1>2, <1>3, <1>4 DEF paging_init
<1>5. ASSUME NEW a \in MapArgs, paging_map_page(a.virt, a.phys, a.flags)
      PROVE  SpaceInv' /\ Space!Next
  <2>1. /\ a.virt \in Address /\ a.phys \in Address /\ a.flags \in SUBSET Flag
        /\ PageOf(a.virt) \in Pages /\ a.flags \subseteq SupervisorFlags
    BY CallsAssumption DEF CallsPlain
  <2>2. pml4 = P4 /\ op = Idle /\ mem' = mem /\ used' = used /\ fb' = fb
        /\ op' = Begin("map", a.virt, a.phys, a.flags)
    BY <1>5 DEF paging_map_page, MayCall, PagingInv
  <2> QED
    BY <1>2, <2>1, <2>2, BeginSpace DEF SpaceInv
<1>6. ASSUME NEW a \in UnmapArgs, paging_unmap_page(a)
      PROVE  SpaceInv' /\ Space!Next
  <2>1. a \in Address /\ 0 \in Address /\ {} \in SUBSET Flag
        /\ PageOf(a) \in Pages /\ {} \subseteq SupervisorFlags
    <3>1. a \in Address /\ PageOf(a) \in Pages
      BY CallsAssumption DEF CallsPlain
    <3>2. 0 \in Nat /\ 0 <= a
      BY <3>1, FrameType
    <3> QED
      BY <3>1, <3>2, AddressDownwards
  <2>2. pml4 = P4 /\ op = Idle /\ mem' = mem /\ used' = used /\ fb' = fb
        /\ op' = Begin("unmap", a, 0, {})
    BY <1>6 DEF paging_unmap_page, MayCall, PagingInv
  <2> QED
    BY <1>2, <2>1, <2>2, BeginSpace DEF SpaceInv
<1>7. ASSUME NEW a \in FbArgs, paging_map_framebuffer(a.phys, a.size)
      PROVE  SpaceInv' /\ UNCHANGED Space!vars
  <2>1. FbPages'
    <3>1. fb'.phys = a.phys /\ fb'.size = a.size
      BY <1>7 DEF paging_map_framebuffer
    <3> QED
      BY <3>1 DEF FbPages, CallsPlain
  <2> QED
    BY <1>3, <1>7, <2>1 DEF paging_map_framebuffer
<1>8. CASE Descend
  <2>1. PathInv' /\ ResultInv' /\ SpaceRequest' = SpaceRequest
    BY <1>1, <1>8, DescendSpace
  <2>2. \A n \in Pages : Walk(n)' = Walk(n)
    BY <1>8, WalkStays DEF Descend
  <2>3. OpArgs'
    BY <1>1, <1>8, ArgsKept
  <2> QED
    BY <1>2, <1>8, <2>1, <2>2, <2>3, SpaceStutters DEF Descend, SpaceInv
<1>9. CASE AllocTable
  <2>1. PathInv' /\ ResultInv' /\ SpaceRequest' = SpaceRequest
    BY <1>1, <1>9, AllocSpace
  <2>2. \A n \in Pages : Walk(n)' = Walk(n)
    BY <1>9, AllocInv, SizesAssumption
  <2>3. OpArgs'
    BY <1>1, <1>9, ArgsKept
  <2>4. Space!Consume
    <3>1. SpaceRequest # Idle
      <4>1. SpaceRequest = [page |-> PageOf(op.virt), target |-> Asked]
        BY <1>9 DEF SpaceRequest, AllocTable, NeedsTable, Walking
      <4> QED
        BY <4>1 DEF Idle
    <3>2. (FreeFrames # {})' \in BOOLEAN /\ FreeFrames # {}
      BY <1>9 DEF AllocTable, NoFrame
    <3>3. [q \in Pages |-> Walk(q)]' = [q \in Pages |-> Walk(q)]
      BY <2>2
    <3> QED
      BY <2>1, <3>1, <3>2, <3>3 DEF Space!Consume, SpaceRequest, Asked
  <2> QED
    BY <1>2, <1>9, <2>1, <2>3, <2>4 DEF AllocTable, SpaceInv, Space!Next
<1>10. CASE LinkTable
  <2>1. PathInv' /\ ResultInv' /\ SpaceRequest' = SpaceRequest
    BY <1>1, <1>10, LinkSpace
  <2>2. \A n \in Pages : Walk(n)' = Walk(n)
    BY <1>10, LinkInv, SizesAssumption
  <2>3. OpArgs'
    BY <1>1, <1>10, ArgsKept
  <2> QED
    BY <1>2, <1>10, <2>1, <2>2, <2>3, LinkPlain, SpaceStutters
       DEF PagingInv, LinkTable, SpaceInv
<1>11. CASE SetEntry
  <2>1. PathInv' /\ ResultInv' /\ Space!Perform
    BY <1>1, <1>11, SetEntrySpace
  <2>2. OpArgs'
    BY <1>1, <1>11, ArgsKept
  <2> QED
    BY <1>2, <1>11, <2>1, <2>2 DEF SetEntry, SpaceInv, Space!Next
<1>12. CASE NothingToUnmap \/ Invlpg \/ AllocFails
  <2>1. Core' /\ Space!Next
    BY <1>12, ReturnSpace
  <2>2. FbPages'
    <3>1. fb' = fb \/ (fb # NoFb /\ fb' = [fb EXCEPT !.short = TRUE])
      BY <1>12 DEF NothingToUnmap, Invlpg, AllocFails
    <3>2. fb # NoFb => fb \in [phys : Nat, size : Nat, offset : Nat, short : BOOLEAN, end : Nat]
      BY DEF PagingInv, FbInv, FbType
    <3>3. fb # NoFb /\ fb' = [fb EXCEPT !.short = TRUE] =>
            fb'.phys = fb.phys /\ fb'.size = fb.size
      BY <3>2
    <3> QED
      BY <1>1, <3>1, <3>3 DEF FbPages
  <2> QED
    BY <2>1, <2>2 DEF SpaceInv
<1>13. CASE Fault
  <2>1. /\ op # Idle /\ mem' = mem /\ used' = used /\ fb' = fb
        /\ op' = [op EXCEPT !.pc = "fault"]
    BY <1>13 DEF Fault, Walking, NeedsTable
  <2>2. /\ op'.pc = "fault" /\ op'.virt = op.virt /\ op'.kind = op.kind
        /\ op'.phys = op.phys /\ op'.flags = op.flags /\ op' # Idle
    <3>1. op \in Op
      BY <2>1, OpFacts DEF PagingInv
    <3>2. /\ op'.pc = "fault" /\ op'.virt = op.virt /\ op'.kind = op.kind
          /\ op'.phys = op.phys /\ op'.flags = op.flags
      BY <2>1, <3>1 DEF Op
    <3> QED
      BY <3>2 DEF Idle
  <2>3. Core' /\ SpaceRequest' = SpaceRequest
    BY <1>1, <2>1, <2>2 DEF OpArgs, PathInv, ResultInv, SpaceRequest, Asked
  <2>4. \A n \in Pages : Walk(n)' = Walk(n)
    BY <2>1, WalkStays
  <2> QED
    BY <1>2, <2>1, <2>3, <2>4, SpaceStutters DEF SpaceInv
<1>14. CASE FbPage
  <2> DEFINE a == fb.phys + fb.offset
  <2>1. /\ op = Idle /\ fb # NoFb /\ mem' = mem /\ used' = used
        /\ op' = Begin("map", a, a, {"PRESENT", "RW", "CACHE_DISABLE"})
    BY <1>14 DEF FbPage
  <2>2. a \in Address /\ fb.offset \in 0 .. fb.size /\ fb'.phys = fb.phys /\ fb'.size = fb.size
    BY <1>14, FbPageStep DEF PagingInv, FbInv
  <2>3. PageOf(a) \in Pages
    BY <1>1, <2>1, <2>2 DEF FbPages
  <2>4. pml4 = P4
    BY <2>1 DEF PagingInv, FbInv, FbType
  <2>5. /\ {"PRESENT", "RW", "CACHE_DISABLE"} \in SUBSET Flag
        /\ {"PRESENT", "RW", "CACHE_DISABLE"} \subseteq SupervisorFlags
    BY DEF Flag, SupervisorFlags
  <2> HIDE DEF a
  <2>6. Core' /\ Space!Next
    BY <2>1, <2>2, <2>3, <2>4, <2>5, BeginSpace
  <2>7. FbPages'
    BY <1>1, <2>1, <2>2 DEF FbPages
  <2> QED
    BY <2>6, <2>7 DEF SpaceInv
<1>15. CASE FbReturn
  <2>1. FbPages'
    BY <1>15 DEF FbReturn, FbPages
  <2> QED
    BY <1>3, <1>15, <2>1 DEF FbReturn
<1>16. ASSUME NEW n \in TlbPages, TlbFill(n)
       PROVE  SpaceInv' /\ UNCHANGED Space!vars
  BY <1>2, <1>3, <1>16 DEF TlbFill
<1>17. CASE UNCHANGED vars
  BY <1>2, <1>3, <1>17 DEF vars
<1> QED
  BY <1>4, <1>5, <1>6, <1>7, <1>8, <1>9, <1>10, <1>11, <1>12, <1>13, <1>14, <1>15,
     <1>16, <1>17 DEF Next, Calls, Steps

(* A huge page of the boot tables lies within the frames.                  *)
LEMMA HugeFrame ==
  ASSUME NEW i \in 0 .. (E - 1), NEW o \in 0 .. (E - 1)
  PROVE  i * E + o \in Frame
<1> DEFINE s == E * E
           f == E * E * E * E
           u == i * E
           w == (E - 1) * E
<1>1. E \in Nat \ {0} /\ i \in Nat /\ o \in Nat /\ i <= E - 1 /\ o <= E - 1
  BY SizesAssumption
<1>2. u \in Nat /\ s \in Nat \ {0} /\ w \in Nat
  BY <1>1
<1>3. u <= w
  BY <1>1
<1>4. w = s - E
  BY <1>1
<1>5. s <= f /\ f \in Nat
  <2>1. f = s * s
    BY <1>1
  <2> HIDE DEF s, f
  <2> QED
    BY <1>2, <2>1
<1>6. Frame = 0 .. (f - 1)
  BY DEF Frame
<1> HIDE DEF s, f, u, w
<1>7. u + o \in Nat /\ u + o <= f - 1
  BY <1>1, <1>2, <1>3, <1>4, <1>5
<1>8. u + o \in Frame
  BY <1>5, <1>6, <1>7
<1> QED
  BY <1>8 DEF u

(* The boot tables translate a page to a frame, or not at all.             *)
LEMMA BootWalk ==
  ASSUME Init, NEW n \in Pages
  PROVE  Walk(n) \in [frame : Frame, flags : SUBSET Flag] \cup {NoPage}
<1> DEFINE i == Index(n, 1)
<1>1. E \in Nat \ {0} /\ n \in Frame /\ n \in Nat
  BY SizesAssumption DEF Frame
<1>2. /\ P4 \in Ram /\ P3 \in Ram /\ P2 \in Ram /\ P4 # P3 /\ P4 # P2 /\ P3 # P2
  BY BootAssumption
<1>3. mem = BootTables
  BY DEF Init
<1>4. Index(n, 3) \in 0 .. (E - 1) /\ Index(n, 2) \in 0 .. (E - 1) /\ i \in 0 .. (E - 1)
  <2>1. 3 \in 0 .. 3 /\ 2 \in 0 .. 3 /\ 1 \in 0 .. 3
    OBVIOUS
  <2> QED
    BY <1>1, <2>1, IndexType
<1>5. ~Present(Zero)
  BY DEF Present, Zero
<1>6. Entry3(n) = Zero \/ Entry3(n) = TableEntry(P3)
  BY <1>2, <1>3, <1>4 DEF Entry3, Cell, BootTables
<1>7. CASE Entry3(n) = Zero
  BY <1>5, <1>7 DEF Walk
<1>8. CASE Entry3(n) = TableEntry(P3)
  <2>1. Entry2(n) = Cell(P3, Index(n, 2))
    BY <1>8 DEF Entry2, TableEntry
  <2>2. Entry2(n) = Zero \/ Entry2(n) = TableEntry(P2)
    BY <1>2, <1>3, <1>4, <2>1 DEF Cell, BootTables
  <2>3. CASE Entry2(n) = Zero
    BY <1>5, <2>3 DEF Walk
  <2>4. CASE Entry2(n) = TableEntry(P2)
    <3>1. Entry1(n) = Cell(P2, i)
      BY <2>4 DEF Entry1, TableEntry
    <3>2. Entry1(n) = HugeEntry(i)
      BY <1>2, <1>3, <1>4, <3>1 DEF Cell, BootTables
    <3>3. /\ Present(TableEntry(P3)) /\ Present(TableEntry(P2)) /\ ~Huge(TableEntry(P2))
          /\ Present(HugeEntry(i)) /\ Huge(HugeEntry(i))
      BY DEF Present, Huge, TableEntry, HugeEntry
    <3>4. Walk(n) = Leaf(HugeEntry(i), HugeEntry(i).addr, n % Power(1),
                         {TableEntry(P3), TableEntry(P2)})
      <4> HIDE DEF i
      <4> QED
        BY <1>8, <2>4, <3>2, <3>3 DEF Walk
    <3>5. HugeEntry(i).addr + (n % Power(1)) \in Frame
      <4>1. n % Power(1) \in 0 .. (E - 1)
        BY <1>1 DEF Power
      <4>2. HugeEntry(i).addr = i * E
        BY DEF HugeEntry
      <4> HIDE DEF i
      <4> QED
        BY <1>4, <4>1, <4>2, HugeFrame
    <3>6. {g \in HugeEntry(i).flags \ {"HUGE"} :
             g \in {"RW", "USER"} =>
               \A u \in {TableEntry(P3), TableEntry(P2)} : g \in u.flags} \in SUBSET Flag
      BY DEF HugeEntry, Flag
    <3> QED
      BY <3>4, <3>5, <3>6 DEF Leaf
  <2> QED
    BY <2>2, <2>3, <2>4
<1> QED
  BY <1>6, <1>7, <1>8

(* The boot tables are an address space nobody has asked anything of.      *)
LEMMA SpaceInit == Init => SpaceInv /\ Space!Init
<1> SUFFICES ASSUME Init PROVE SpaceInv /\ Space!Init
  OBVIOUS
<1>1. op = Idle /\ fb = NoFb
  BY DEF Init
<1>2. SpaceInv
  BY <1>1 DEF SpaceInv, OpArgs, FbPages, PathInv, ResultInv
<1>3. [n \in Pages |-> Walk(n)]
        \in [Pages -> [frame : Frame, flags : SUBSET Flag] \cup {NoPage}]
  BY BootWalk
<1> QED
  BY <1>1, <1>2, <1>3 DEF Space!Init

(* paging_map_page, paging_unmap_page and paging_map_framebuffer, step by  *)
(* step and with the processor looking on, change the translation of the   *)
(* one page they were asked about, to what was asked, in one step; every   *)
(* other page keeps its own throughout.  It holds for calls outside the    *)
(* identity map that ask for neither USER nor HUGE, which do not take      *)
(* effect.                                                                 *)
THEOREM SpaceImplemented ==
  ASSUME CallsOutside, BitmapReserved, CallsPlain
  PROVE  Spec => SpaceSpec
<1>1. PagingInv /\ SpaceInv /\ [Next]_vars => SpaceInv' /\ [Space!Next]_(Space!vars)
  BY SpaceStep
<1>2. Init => SpaceInv /\ Space!Init
  BY SpaceInit
<1> QED
  BY <1>1, <1>2, PagingInvAlways, PTL DEF Spec, SpaceSpec, Space!Spec

-----------------------------------------------------------------------------
(* The framebuffer *)

FbFlags == {"PRESENT", "RW", "CACHE_DISABLE"}

(* The kernel can write to frame n through its own address.                *)
Mine(n) == n \in IdentityPages \/ Walk(n) = [frame |-> n, flags |-> FbFlags]

(* Bytes of the framebuffer whose pages are mapped: the page of the call   *)
(* in progress counts from when its entry is written.                      *)
Done == IF op = Idle \/ op.pc = "flush" THEN fb.offset ELSE fb.offset - PageSize

(* The pages of the first bytes of a framebuffer that starts on a page     *)
AllMine(phys, bytes) ==
  phys % PageSize = 0 => \A k \in Nat : PageSize * k < bytes => Mine(PageOf(phys) + k)

(* Only the framebuffer's loop calls while it runs, each time for the page *)
(* before its offset, and what it did stays done.                          *)
LoopInv ==
  fb # NoFb =>
    /\ fb.size <= fb.end /\ fb.offset <= fb.end
    /\ op # Idle => /\ op.kind = "map" /\ op.flags = FbFlags /\ op.phys = op.virt
                    /\ op.virt = fb.phys + (fb.offset - PageSize)
    /\ ~fb.short => AllMine(fb.phys, Done)

(* A claim is about a call that returned, and no other has begun since.    *)
ClaimInv ==
  claimed # NoClaim =>
    /\ op = Idle /\ fb = NoFb
    /\ claimed \in [phys : Nat, size : Nat, short : BOOLEAN]
    /\ claimed.phys + claimed.size \in Address
    /\ ~claimed.short => AllMine(claimed.phys, claimed.size)

FbMapInv == PathInv /\ LoopInv /\ ClaimInv

(* The k-th page of a framebuffer that starts on a page                    *)
LEMMA PageAt ==
  ASSUME NEW phys \in Nat, phys % PageSize = 0, NEW k \in Nat
  PROVE  PageOf(phys + PageSize * k) = PageOf(phys) + k /\ phys + PageSize * k \in Nat
<1> DEFINE q == phys \div PageSize
<1>1. PageSize \in Nat \ {0}
  BY SizesAssumption
<1>2. q \in Nat /\ phys = PageSize * q + 0
  BY <1>1, Division
<1> HIDE DEF q
<1>3. phys + PageSize * k = (q + k) * PageSize + 0
  BY <1>1, <1>2
<1>4. q + k \in Nat /\ 0 \in 0 .. (PageSize - 1)
  BY <1>1, <1>2
<1>5. PageOf((q + k) * PageSize + 0) = q + k
  BY <1>4, OffsetInPage
<1>6. phys + PageSize * k \in Nat
  BY <1>1
<1>7. PageOf(phys) = q
  BY DEF PageOf, q
<1> QED
  BY <1>3, <1>5, <1>6, <1>7

(* The pages of a framebuffer in the address space are in it.              *)
LEMMA PageWithin ==
  ASSUME NEW phys \in Nat, NEW size \in Nat, phys + size \in Address,
         phys % PageSize = 0, NEW k \in Nat, PageSize * k < size
  PROVE  PageOf(phys) + k \in Frame
<1>1. PageOf(phys + PageSize * k) = PageOf(phys) + k /\ phys + PageSize * k \in Nat
  BY PageAt
<1>2. PageSize * k \in Nat
  BY SizesAssumption
<1>3. phys + PageSize * k <= phys + size
  <2> DEFINE b == PageSize * k
  <2>1. b \in Nat /\ b < size
    BY <1>2
  <2> HIDE DEF b
  <2>2. phys + b <= phys + size
    BY <2>1
  <2> QED
    BY <2>2 DEF b
<1>4. phys + PageSize * k \in Address
  BY <1>1, <1>3, AddressDownwards
<1> QED
  BY <1>1, <1>4, FrameType

(* Pages whose walks stay remain the kernel's.                             *)
LEMMA MineKept ==
  ASSUME NEW phys \in Nat, NEW size \in Nat, phys + size \in Address,
         NEW bytes \in Int, bytes < size + PageSize, \E q \in Int : bytes = PageSize * q,
         AllMine(phys, bytes), \A n \in Frame : Walk(n)' = Walk(n)
  PROVE  AllMine(phys, bytes)'
<1> SUFFICES ASSUME phys % PageSize = 0, NEW k \in Nat, PageSize * k < bytes
             PROVE  Mine(PageOf(phys) + k)'
  BY DEF AllMine, PageOf
<1>1. PageSize * k < size
  <2>1. PICK q \in Int : bytes = PageSize * q
    OBVIOUS
  <2>2. PageSize \in Nat \ {0}
    BY SizesAssumption
  <2>3. k + 1 <= q
    BY <2>1, <2>2
  <2>4. PageSize * (k + 1) <= PageSize * q
    BY <2>2, <2>3
  <2>5. PageSize * (k + 1) = PageSize * k + PageSize /\ PageSize * k \in Int
        /\ PageSize * q \in Int
    BY <2>2
  <2> DEFINE b == PageSize * k
  <2>6. b + PageSize <= bytes /\ b \in Int
    BY <2>1, <2>4, <2>5
  <2> HIDE DEF b
  <2>7. b < size
    BY <2>2, <2>6
  <2> QED
    BY <2>7 DEF b
<1>2. PICK n \in Frame : n = PageOf(phys) + k
  BY <1>1, PageWithin
<1>3. Mine(n)
  BY <1>2 DEF AllMine
<1>4. Mine(n)'
  BY <1>3 DEF Mine, IdentityPages
<1> QED
  BY <1>2, <1>4 DEF Mine, PageOf

(* What the loop has is counted in whole pages.                            *)
LEMMA DoneType ==
  ASSUME FbType, fb # NoFb
  PROVE  /\ fb.phys \in Nat /\ fb.size \in Nat /\ fb.phys + fb.size \in Address
         /\ fb.offset \in Nat /\ fb.end \in Nat /\ fb.end < fb.size + PageSize
         /\ Done \in Int /\ \E q \in Int : Done = PageSize * q
<1>1. /\ fb.phys \in Nat /\ fb.size \in Nat /\ fb.phys + fb.size \in Address
      /\ fb.offset \in Nat /\ fb.end \in Nat /\ fb.end < fb.size + PageSize
  BY DEF FbType
<1>2. PICK k \in Nat : fb.offset = PageSize * k
  BY DEF FbType
<1>3. PageSize * k - PageSize = PageSize * (k - 1) /\ PageSize \in Nat /\ k - 1 \in Int
  BY SizesAssumption
<1>4. PageSize * k \in Int /\ PageSize * (k - 1) \in Int
  BY <1>3
<1>5. CASE Done = fb.offset
  BY <1>1, <1>2, <1>4, <1>5
<1>6. CASE Done = fb.offset - PageSize
  <2>1. Done = PageSize * (k - 1)
    BY <1>2, <1>3, <1>6
  <2> QED
    BY <1>1, <1>3, <1>4, <2>1
<1>7. Done = fb.offset \/ Done = fb.offset - PageSize
  BY DEF Done
<1> QED
  BY <1>5, <1>6, <1>7

(* A step that keeps the walks, what is done and the call in progress keeps*)
(* what the loop has.                                                      *)
LEMMA LoopKept ==
  ASSUME FbType, LoopInv, fb' = fb, \A n \in Frame : Walk(n)' = Walk(n), Done' = Done,
         fb # NoFb /\ op' # Idle =>
           /\ op # Idle
           /\ op'.kind = op.kind /\ op'.flags = op.flags
           /\ op'.phys = op.phys /\ op'.virt = op.virt
  PROVE  LoopInv'
<1> SUFFICES ASSUME fb # NoFb PROVE LoopInv'
  BY DEF LoopInv
<1>1. PICK phys \in Nat, size \in Nat, bytes \in Int :
        phys = fb.phys /\ size = fb.size /\ bytes = Done
  BY DoneType
<1>2. phys + size \in Address /\ \E q \in Int : bytes = PageSize * q
  BY <1>1, DoneType
<1>3. bytes < size + PageSize
  <2>1. bytes <= fb.offset
    <3>1. fb.offset \in Nat /\ PageSize \in Nat
      BY DoneType, SizesAssumption
    <3>2. bytes = fb.offset \/ bytes = fb.offset - PageSize
      BY <1>1 DEF Done
    <3> QED
      BY <3>1, <3>2
  <2>2. fb.offset <= fb.end /\ fb.end < size + PageSize
        /\ fb.offset \in Nat /\ fb.end \in Nat /\ PageSize \in Nat
    BY <1>1, DoneType, SizesAssumption DEF LoopInv
  <2> QED
    BY <2>1, <2>2
<1>4. ~fb.short => AllMine(phys, bytes)'
  <2>1. ~fb.short => AllMine(phys, bytes)
    BY <1>1 DEF LoopInv
  <2> QED
    BY <1>2, <1>3, <2>1, MineKept
<1>5. ~fb'.short => AllMine(phys, bytes)'
  BY <1>4
<1>6. phys = fb'.phys /\ bytes = Done'
  BY <1>1
<1>7. ~fb'.short => AllMine(fb.phys, Done)'
  BY <1>5, <1>6 DEF AllMine, Mine
<1> QED
  BY <1>7 DEF LoopInv

(* The same for a call that goes on, or has just returned.                 *)
LEMMA GoesOn ==
  ASSUME FbType, LoopInv, ClaimInv, fb' = fb, claimed' = claimed, op # Idle,
         \A n \in Frame : Walk(n)' = Walk(n),
         \/ op' = Idle /\ op.pc = "flush"
         \/ /\ op.pc # "flush" /\ op'.pc # "flush" /\ op' # Idle
            /\ op'.kind = op.kind /\ op'.flags = op.flags
            /\ op'.phys = op.phys /\ op'.virt = op.virt
  PROVE  LoopInv' /\ ClaimInv'
<1>1. Done' = Done
  BY DEF Done
<1>2. LoopInv'
  BY <1>1, LoopKept
<1>3. claimed = NoClaim
  BY DEF ClaimInv
<1> QED
  BY <1>2, <1>3 DEF ClaimInv

(* The page the loop is at becomes the kernel's, all others stay.           *)
LEMMA PageMine ==
  ASSUME FbType, LoopInv, op # Idle, op.pc # "flush", fb' = fb,
         op' # Idle, op'.pc = "flush", op'.kind = op.kind, op'.flags = op.flags,
         op'.phys = op.phys, op'.virt = op.virt,
         NEW m \in Frame, m = PageOf(op.virt), fb # NoFb => Mine(m)',
         \A n \in Frame : n # m => Walk(n)' = Walk(n)
  PROVE  LoopInv'
<1> SUFFICES ASSUME fb # NoFb PROVE LoopInv'
  BY DEF LoopInv
<1>1. /\ fb.size <= fb.end /\ fb.offset <= fb.end
      /\ op.kind = "map" /\ op.flags = FbFlags /\ op.phys = op.virt
      /\ op.virt = fb.phys + (fb.offset - PageSize)
      /\ ~fb.short => AllMine(fb.phys, Done)
  BY DEF LoopInv
<1>2. Mine(m)'
  OBVIOUS
<1>4. PICK phys \in Nat, size \in Nat, offset \in Nat :
        phys = fb.phys /\ size = fb.size /\ offset = fb.offset
  BY DoneType
<1>5. /\ phys + size \in Address /\ offset < size + PageSize /\ PageSize \in Nat \ {0}
  <2>1. fb.offset \in Nat /\ fb.end \in Nat /\ fb.end < fb.size + PageSize
        /\ fb.phys + fb.size \in Address
    BY DoneType
  <2>2. fb.size \in Nat /\ PageSize \in Nat \ {0}
    BY <1>4, SizesAssumption
  <2> QED
    BY <1>1, <1>4, <2>1, <2>2
<1>6. PICK q \in Nat : offset = PageSize * q
  BY <1>4 DEF FbType
<1>7. Done = offset - PageSize /\ Done' = offset
  BY <1>4 DEF Done
<1>8. ASSUME ~fb.short, phys % PageSize = 0, NEW k \in Nat, PageSize * k < offset
      PROVE  Mine(PageOf(phys) + k)'
  <2>1. PageSize * k < PageSize * ((q - 1) + 1)
    BY <1>6, <1>8
  <2>2. k <= q - 1 /\ q - 1 \in Nat
    BY <1>5, <2>1, Multiples
  <2>3. offset - PageSize = PageSize * (q - 1)
    BY <1>5, <1>6
  <2>4. CASE k = q - 1
    <3>1. phys + PageSize * k = op.virt
      BY <1>1, <1>4, <2>3, <2>4
    <3>2. PageOf(phys) + k = m
      BY <1>8, <3>1, PageAt
    <3> QED
      BY <1>2, <3>2 DEF Mine, PageOf
  <2>5. CASE k < q - 1
    <3>1. PageSize * k < PageSize * (q - 1)
      BY <1>5, <2>2, <2>5
    <3>2. Mine(PageOf(phys) + k)
      BY <1>1, <1>4, <1>7, <1>8, <2>3, <3>1 DEF AllMine
    <3>3. PageSize * k < size
      <4>1. PageSize * (q - 1) < size
        BY <1>4, <1>5, <2>3
      <4> DEFINE b == PageSize * k
                 c == PageSize * (q - 1)
      <4>2. b \in Int /\ c \in Int /\ b < c /\ c < size
        BY <1>5, <2>2, <3>1, <4>1
      <4> HIDE DEF b, c
      <4>3. b < size
        BY <4>2
      <4> QED
        BY <4>3 DEF b
    <3>4. PICK n \in Frame : n = PageOf(phys) + k
      BY <1>5, <1>8, <3>3, PageWithin
    <3>5. Mine(n)'
      <4>1. CASE n = m
        BY <1>2, <4>1 DEF Mine
      <4>2. CASE n # m
        <5>1. Walk(n)' = Walk(n) /\ Mine(n)
          BY <3>2, <3>4, <4>2
        <5> QED
          BY <5>1 DEF Mine, IdentityPages
      <4> QED
        BY <4>1, <4>2
    <3> QED
      BY <3>4, <3>5 DEF Mine, PageOf
  <2> QED
    BY <2>2, <2>4, <2>5
<1>9. ~fb.short => AllMine(phys, offset)'
  BY <1>8 DEF AllMine, PageOf
<1>10. ~fb'.short => AllMine(fb.phys, Done)'
  <2>1. phys = fb'.phys /\ offset = Done' /\ fb'.short = fb.short
    BY <1>4, <1>7
  <2> QED
    BY <1>9, <2>1 DEF AllMine, Mine
<1> QED
  BY <1>1, <1>10 DEF LoopInv

(* Writing the entry of the loop's page makes it the kernel's.             *)
LEMMA SetEntryMine ==
  ASSUME PagingInv, FbMapInv, SetEntry
  PROVE  FbMapInv'
<1>1. /\ op # Idle /\ op.pc = "walk" /\ fb' = fb /\ claimed' = claimed
      /\ op' = [op EXCEPT !.pc = "flush"]
  BY DEF SetEntry, Walking
<1>2. op \in Op /\ PageOf(op.virt) \in Frame
  BY <1>1, OpFacts DEF PagingInv
<1>3. /\ op'.pc = "flush" /\ op' # Idle /\ op'.kind = op.kind /\ op'.flags = op.flags
      /\ op'.phys = op.phys /\ op'.virt = op.virt
  <2>1. /\ op'.pc = "flush" /\ op'.kind = op.kind /\ op'.flags = op.flags
        /\ op'.phys = op.phys /\ op'.virt = op.virt
    BY <1>1, <1>2 DEF Op
  <2> QED
    BY <2>1 DEF Idle
<1>4. PICK m \in Frame : m = PageOf(op.virt)
  BY <1>2
<1>5. PathInv' /\ (op.flags \subseteq SupervisorFlags => Walk(m)' = Asked)
  BY <1>4, SetEntryWalk DEF FbMapInv
<1>6. \A n \in Frame : n # m => Walk(n)' = Walk(n)
  BY <1>4, SetEntryInv
<1>7. ClaimInv'
  <2>1. claimed = NoClaim
    BY <1>1 DEF FbMapInv, ClaimInv
  <2> QED
    BY <1>1, <2>1 DEF ClaimInv
<1>8. fb # NoFb => Mine(m)'
  <2> SUFFICES ASSUME fb # NoFb PROVE Mine(m)'
    OBVIOUS
  <2>1. op.kind = "map" /\ op.flags = FbFlags /\ op.phys = op.virt
    BY <1>1 DEF FbMapInv, LoopInv
  <2>2. Walk(m)' = [frame |-> m, flags |-> FbFlags]
    BY <1>4, <1>5, <2>1 DEF FbFlags, SupervisorFlags, Asked
  <2> QED
    BY <2>2 DEF Mine
<1>9. LoopInv'
  <2>1. FbType /\ LoopInv /\ op.pc # "flush"
    BY <1>1 DEF PagingInv, FbInv, FbMapInv
  <2> QED
    BY <1>1, <1>3, <1>4, <1>6, <1>8, <2>1, PageMine
<1> QED
  BY <1>5, <1>7, <1>9 DEF FbMapInv

(* The loop goes on to its next page: what it has stays.                   *)
LEMMA FbPageMap ==
  ASSUME FbType, LoopInv, ClaimInv, pml4 = P4, FbPage
  PROVE  FbMapInv'
<1> DEFINE a == fb.phys + fb.offset
<1>1. /\ op = Idle /\ fb # NoFb /\ mem' = mem /\ claimed' = claimed /\ pml4' = pml4
      /\ op' = Begin("map", a, a, FbFlags)
      /\ fb' = [fb EXCEPT !.offset = fb.offset + PageSize]
  BY DEF FbPage, NextOffset, FbFlags
<1>2. /\ fb'.phys = fb.phys /\ fb'.size = fb.size /\ fb'.end = fb.end
      /\ fb'.short = fb.short /\ fb'.offset = fb.offset + PageSize
  BY <1>1 DEF FbType
<1>3. fb.offset + PageSize <= fb.end /\ fb.offset \in Nat /\ fb.phys \in Nat
      /\ PageSize \in Nat
  BY <1>1, FbPageStep, DoneType, SizesAssumption
<1>4. /\ op'.pc = "walk" /\ op'.kind = "map" /\ op'.flags = FbFlags
      /\ op'.phys = a /\ op'.virt = a
  BY <1>1 DEF Begin
<1>5. op' # Idle
  BY <1>4 DEF Idle
<1>6. a = fb'.phys + (fb'.offset - PageSize)
  BY <1>2, <1>3
<1>7. Done = fb.offset /\ Done' = fb.offset
  BY <1>1, <1>2, <1>3, <1>4, <1>5 DEF Done
<1> HIDE DEF a
<1>8. ~fb'.short => AllMine(fb.phys, Done)'
  <2>1. PICK phys \in Nat, bytes \in Nat : phys = fb.phys /\ bytes = fb.offset
    BY <1>3
  <2>2. ~fb'.short => AllMine(phys, bytes)
    BY <1>1, <1>2, <1>7, <2>1 DEF LoopInv
  <2>3. AllMine(phys, bytes) => AllMine(phys, bytes)'
    <3>1. \A n : Walk(n)' = Walk(n)
      BY <1>1, WalkStays
    <3> QED
      BY <3>1 DEF AllMine, Mine, PageOf, IdentityPages
  <2>4. phys = fb'.phys /\ bytes = Done'
    BY <1>2, <1>7, <2>1
  <2> QED
    BY <2>2, <2>3, <2>4 DEF AllMine, Mine
<1>9. LoopInv'
  BY <1>1, <1>2, <1>3, <1>4, <1>6, <1>8 DEF LoopInv
<1>10. PathInv'
  BY <1>1, BeginPath
<1>11. ClaimInv'
  BY <1>1 DEF ClaimInv
<1> QED
  BY <1>9, <1>10, <1>11 DEF FbMapInv

(* The loop is over: it has all pages of the framebuffer, and says so.     *)
LEMMA FbReturnMap ==
  ASSUME FbType, LoopInv, FbReturn
  PROVE  FbMapInv'
<1>1. /\ op = Idle /\ fb # NoFb /\ fb' = NoFb /\ op' = Idle /\ mem' = mem
      /\ fb.offset >= fb.end
      /\ claimed' = [phys |-> fb.phys, size |-> fb.size, short |-> fb.short]
  BY DEF FbReturn
<1>2. PathInv' /\ LoopInv'
  BY <1>1 DEF PathInv, LoopInv
<1>3. PICK phys \in Nat, size \in Nat, bytes \in Nat :
        phys = fb.phys /\ size = fb.size /\ bytes = fb.offset
  BY <1>1, DoneType
<1>4. phys + size \in Address /\ fb.short \in BOOLEAN /\ size <= bytes
  <2>1. fb.end \in Nat /\ fb.phys + fb.size \in Address /\ fb.short \in BOOLEAN
    BY <1>1, DoneType DEF FbType
  <2>2. fb.size <= fb.end
    BY <1>1 DEF LoopInv
  <2> QED
    BY <1>1, <1>3, <2>1, <2>2
<1>5. ~fb.short => AllMine(phys, bytes)
  BY <1>1, <1>3 DEF LoopInv, Done
<1>6. ~fb.short => AllMine(phys, size)'
  <2>1. \A n : Walk(n)' = Walk(n)
    BY <1>1, WalkStays
  <2>2. \A k \in Nat : PageSize * k < size => PageSize * k < bytes
    <3> SUFFICES ASSUME NEW k \in Nat, PageSize * k < size PROVE PageSize * k < bytes
      OBVIOUS
    <3>1. PageSize * k \in Nat
      BY SizesAssumption
    <3> DEFINE b == PageSize * k
    <3>2. b \in Nat /\ b < size
      BY <3>1
    <3> HIDE DEF b
    <3>3. b < bytes
      BY <1>3, <1>4, <3>2
    <3> QED
      BY <3>3 DEF b
  <2> QED
    BY <1>5, <2>1, <2>2 DEF AllMine, Mine, PageOf, IdentityPages
<1>7. claimed' = [phys |-> phys, size |-> size, short |-> fb.short]
  BY <1>1, <1>3
<1>8. claimed'.phys = phys /\ claimed'.size = size /\ claimed'.short = fb.short
  BY <1>7
<1>9. ~claimed'.short => AllMine(claimed.phys, claimed.size)'
  BY <1>6, <1>8 DEF AllMine, Mine
<1>10. claimed' \in [phys : Nat, size : Nat, short : BOOLEAN]
  BY <1>4, <1>7
<1>11. ClaimInv'
  BY <1>1, <1>4, <1>8, <1>9, <1>10 DEF ClaimInv
<1> QED
  BY <1>2, <1>11 DEF FbMapInv

(* Every step of a call keeps what the loop has.                           *)
LEMMA FbMapSteps ==
  ASSUME PagingInv, FbMapInv, Steps
  PROVE  FbMapInv'
<1>0. FbType
  BY DEF PagingInv, FbInv
<1>1. PathInv /\ LoopInv /\ ClaimInv
  BY DEF FbMapInv
<1>2. mem' = mem => \A n \in Frame : Walk(n)' = Walk(n)
  BY WalkStays
<1>3. op # Idle => op \in Op
  BY DEF PagingInv, OpInv
<1>4. CASE Descend
  <2>1. /\ op # Idle /\ op.pc = "walk" /\ mem' = mem /\ fb' = fb /\ claimed' = claimed
        /\ op' = [op EXCEPT !.table = Here.addr, !.level = op.level - 1]
    BY <1>4, DescendPlain DEF PagingInv, Descend
  <2>2. /\ op'.pc = "walk" /\ op'.kind = op.kind /\ op'.flags = op.flags
        /\ op'.phys = op.phys /\ op'.virt = op.virt
    BY <1>3, <2>1 DEF Op
  <2>3. op' # Idle
    BY <2>2 DEF Idle
  <2>4. PathInv'
    BY <1>1, <1>4, DescendSpace
  <2>5. LoopInv' /\ ClaimInv'
    BY <1>1, <1>2, <2>1, <2>2, <2>3, <1>0, GoesOn
  <2> QED
    BY <2>4, <2>5 DEF FbMapInv
<1>5. CASE AllocTable
  <2>1. /\ op # Idle /\ op.pc = "walk" /\ fb' = fb /\ claimed' = claimed
        /\ op' = [op EXCEPT !.pc = "link", !.new = FirstFree]
    BY <1>5 DEF AllocTable, NeedsTable, Walking
  <2>2. /\ op'.pc = "link" /\ op'.kind = op.kind /\ op'.flags = op.flags
        /\ op'.phys = op.phys /\ op'.virt = op.virt
    BY <1>3, <2>1 DEF Op
  <2>3. op' # Idle
    BY <2>2 DEF Idle
  <2>4. PathInv'
    BY <1>1, <1>5, AllocSpace
  <2>5. \A n \in Frame : Walk(n)' = Walk(n)
    BY <1>5, AllocInv
  <2>6. LoopInv' /\ ClaimInv'
    BY <1>1, <2>1, <2>2, <2>3, <2>5, <1>0, GoesOn
  <2> QED
    BY <2>4, <2>6 DEF FbMapInv
<1>6. CASE LinkTable
  <2>1. /\ op # Idle /\ op.pc = "link" /\ fb' = fb /\ claimed' = claimed
        /\ op' = [op EXCEPT !.pc = "walk", !.table = op.new, !.level = op.level - 1]
    BY <1>6 DEF LinkTable
  <2>2. /\ op'.pc = "walk" /\ op'.kind = op.kind /\ op'.flags = op.flags
        /\ op'.phys = op.phys /\ op'.virt = op.virt
    BY <1>3, <2>1 DEF Op
  <2>3. op' # Idle
    BY <2>2 DEF Idle
  <2>4. PathInv'
    BY <1>1, <1>6, LinkSpace
  <2>5. \A n \in Frame : Walk(n)' = Walk(n)
    BY <1>6, LinkInv
  <2>6. LoopInv' /\ ClaimInv'
    BY <1>1, <2>1, <2>2, <2>3, <2>5, <1>0, GoesOn
  <2> QED
    BY <2>4, <2>6 DEF FbMapInv
<1>7. CASE AllocFails
  <2>1. /\ op # Idle /\ op' = Idle /\ claimed' = claimed
        /\ fb' = IF fb = NoFb THEN fb ELSE [fb EXCEPT !.short = TRUE]
    BY <1>7 DEF AllocFails, NeedsTable, Walking
  <2>2. PathInv' /\ ClaimInv'
    BY <1>1, <2>1 DEF PathInv, ClaimInv
  <2>3. LoopInv'
    <3>1. CASE fb = NoFb
      BY <2>1, <3>1 DEF LoopInv
    <3>2. CASE fb # NoFb
      <4>1. fb'.short /\ fb'.size = fb.size /\ fb'.end = fb.end /\ fb'.offset = fb.offset
        BY <2>1, <3>2 DEF PagingInv, FbInv, FbType
      <4> QED
        BY <1>1, <2>1, <3>2, <4>1 DEF LoopInv
    <3> QED
      BY <3>1, <3>2
  <2> QED
    BY <2>2, <2>3 DEF FbMapInv
<1>8. CASE NothingToUnmap
  <2>1. op # Idle /\ op' = Idle /\ op.kind = "unmap" /\ fb' = fb /\ claimed' = claimed
    BY <1>8 DEF NothingToUnmap, Walking
  <2>2. fb = NoFb
    BY <1>1, <2>1 DEF LoopInv
  <2> QED
    BY <1>1, <2>1, <2>2 DEF FbMapInv, PathInv, LoopInv, ClaimInv
<1>9. CASE SetEntry
  BY <1>9, SetEntryMine
<1>10. CASE Invlpg
  <2>1. /\ op # Idle /\ op.pc = "flush" /\ op' = Idle /\ mem' = mem
        /\ fb' = fb /\ claimed' = claimed
    BY <1>10 DEF Invlpg
  <2>2. LoopInv' /\ ClaimInv'
    BY <1>1, <1>2, <2>1, <1>0, GoesOn
  <2>3. PathInv'
    BY <2>1 DEF PathInv
  <2> QED
    BY <2>2, <2>3 DEF FbMapInv
<1>11. CASE Fault
  <2>1. /\ op # Idle /\ op.pc # "flush" /\ mem' = mem /\ fb' = fb /\ claimed' = claimed
        /\ op' = [op EXCEPT !.pc = "fault"]
    BY <1>11, FaultPlain DEF Fault
  <2>2. /\ op'.pc = "fault" /\ op'.kind = op.kind /\ op'.flags = op.flags
        /\ op'.phys = op.phys /\ op'.virt = op.virt
    BY <1>3, <2>1 DEF Op
  <2>3. op' # Idle
    BY <2>2 DEF Idle
  <2>4. LoopInv' /\ ClaimInv'
    BY <1>1, <1>2, <2>1, <2>2, <2>3, <1>0, GoesOn
  <2>5. PathInv'
    BY <2>2 DEF PathInv
  <2> QED
    BY <2>4, <2>5 DEF FbMapInv
<1>12. CASE FbPage
  <2>1. pml4 = P4
    BY <1>12 DEF FbPage, PagingInv, FbInv, FbType
  <2> QED
    BY <1>1, <1>12, <1>0, <2>1, FbPageMap
<1>13. CASE FbReturn
  BY <1>1, <1>13, <1>0, FbReturnMap
<1> QED
  BY <1>4, <1>5, <1>6, <1>7, <1>8, <1>9, <1>10, <1>11, <1>12, <1>13 DEF Steps

(* What leaves tables and calls alone.                                     *)
LEMMA FbMapStays ==
  ASSUME FbMapInv, UNCHANGED <<mem, op, fb, claimed>>
  PROVE  FbMapInv'
<1>1. \A n : Walk(n)' = Walk(n)
  BY WalkStays
<1>2. \A n, k : Open(n, k)' = Open(n, k) /\ TableAt(n, k)' = TableAt(n, k)
  BY PathStays
<1>3. PathInv'
  BY <1>2 DEF FbMapInv, PathInv
<1>4. \A phys, bytes : AllMine(phys, bytes)' = AllMine(phys, bytes)
  BY <1>1 DEF AllMine, Mine, PageOf, IdentityPages
<1>5. Done' = Done
  BY DEF Done
<1>6. LoopInv'
  <2>1. PICK phys, bytes : phys = fb.phys /\ bytes = Done
    OBVIOUS
  <2>2. AllMine(fb.phys, Done)' = AllMine(phys, bytes)'
    BY <1>5, <2>1 DEF AllMine, Mine
  <2> QED
    BY <1>4, <2>1, <2>2 DEF FbMapInv, LoopInv
<1>7. ClaimInv'
  <2>1. PICK phys, bytes : phys = claimed.phys /\ bytes = claimed.size
    OBVIOUS
  <2>2. AllMine(claimed.phys, claimed.size)' = AllMine(phys, bytes)'
    BY <2>1 DEF AllMine, Mine
  <2> QED
    BY <1>4, <2>1, <2>2 DEF FbMapInv, ClaimInv
<1> QED
  BY <1>3, <1>6, <1>7 DEF FbMapInv

(* A framebuffer is to be mapped: nothing of it is, yet.                   *)
LEMMA FbMapCall ==
  ASSUME FbMapInv, NEW phys \in Nat, NEW size \in Nat, paging_map_framebuffer(phys, size)
  PROVE  FbMapInv'
<1>1. /\ op = Idle /\ op' = Idle /\ claimed' = NoClaim
      /\ fb' = [phys |-> phys, size |-> size, offset |-> 0, short |-> FALSE,
                end |-> RoundedSize(size)]
  BY DEF paging_map_framebuffer, MayCall
<1>2. PathInv' /\ ClaimInv'
  BY <1>1 DEF PathInv, ClaimInv
<1>3. size <= RoundedSize(size) /\ 0 <= RoundedSize(size)
  <2> DEFINE a == size + PageSize - 1
             d == a \div PageSize
  <2>1. PageSize \in Nat \ {0} /\ a \in Nat
    BY SizesAssumption
  <2> HIDE DEF a
  <2>2. d \in Nat /\ a % PageSize \in 0 .. (PageSize - 1) /\ a = PageSize * d + (a % PageSize)
    BY <2>1, Division
  <2>3. d * PageSize = PageSize * d /\ PageSize * d \in Nat
    BY <2>1, <2>2
  <2> DEFINE m == PageSize * d
  <2>4. a <= m + PageSize - 1 /\ m \in Nat
    BY <2>1, <2>2, <2>3
  <2> HIDE DEF m
  <2>5. size <= m /\ 0 <= m
    BY <2>1, <2>4 DEF a
  <2> QED
    BY <2>3, <2>5 DEF m, RoundedSize, a
<1>4. AllMine(phys, 0)'
  <2>1. \A k \in Nat : ~(PageSize * k < 0)
    BY SizesAssumption
  <2> QED
    BY <2>1 DEF AllMine
<1>5. LoopInv'
  <2>1. /\ fb'.phys = phys /\ fb'.size = size /\ fb'.offset = 0 /\ fb'.short = FALSE
        /\ fb'.end = RoundedSize(size)
    BY <1>1
  <2>2. Done' = 0
    BY <1>1, <2>1 DEF Done
  <2>3. AllMine(fb.phys, Done)'
    BY <1>4, <2>1, <2>2 DEF AllMine
  <2> QED
    BY <1>1, <1>3, <2>1, <2>3 DEF LoopInv
<1> QED
  BY <1>2, <1>5 DEF FbMapInv

(* A call of paging_map_page or paging_unmap_page drops the claim.         *)
LEMMA CallDropsClaim ==
  ASSUME PagingInv, FbMapInv, MayCall, claimed' = NoClaim, fb' = fb,
         NEW kind, NEW virt, NEW phys, NEW flags, op' = Begin(kind, virt, phys, flags)
  PROVE  FbMapInv'
<1>1. pml4 = P4 /\ fb = NoFb
  BY DEF PagingInv, MayCall
<1>2. PathInv'
  BY <1>1, BeginPath
<1> QED
  BY <1>1, <1>2 DEF FbMapInv, LoopInv, ClaimInv

(* Calls outside of the identity map: so is what is claimed to be mapped.  *)
FbOutside ==
  /\ fb # NoFb => PageOf(fb.phys) \notin IdentityPages
  /\ claimed # NoClaim => PageOf(claimed.phys) \notin IdentityPages

(* Every step of a run.                                                    *)
LEMMA FbMapStep ==
  ASSUME CallsOutside, PagingInv, FbMapInv, FbOutside, [Next]_vars
  PROVE  FbMapInv' /\ FbOutside'
<1>1. CASE paging_init \/ UNCHANGED vars \/ \E n \in TlbPages : TlbFill(n)
  <2>1. UNCHANGED <<mem, op, fb, claimed>>
    BY <1>1 DEF paging_init, vars, TlbFill
  <2> QED
    BY <2>1, FbMapStays DEF FbOutside
<1>2. ASSUME NEW a \in MapArgs, paging_map_page(a.virt, a.phys, a.flags)
      PROVE  FbMapInv' /\ FbOutside'
  BY <1>2, CallDropsClaim DEF paging_map_page, FbOutside
<1>3. ASSUME NEW a \in UnmapArgs, paging_unmap_page(a)
      PROVE  FbMapInv' /\ FbOutside'
  BY <1>3, CallDropsClaim DEF paging_unmap_page, FbOutside
<1>4. ASSUME NEW a \in FbArgs, paging_map_framebuffer(a.phys, a.size)
      PROVE  FbMapInv' /\ FbOutside'
  <2>1. a.phys \in Nat /\ a.size \in Nat /\ PageOf(a.phys) \notin IdentityPages
    BY CallsAssumption DEF CallsOutside
  <2>2. fb'.phys = a.phys /\ claimed' = NoClaim
    BY <1>4 DEF paging_map_framebuffer
  <2> QED
    BY <1>4, <2>1, <2>2, FbMapCall DEF FbOutside
<1>5. CASE Steps
  <2>1. FbMapInv'
    BY <1>5, FbMapSteps
  <2>2. FbOutside'
    <3>1. CASE FbReturn
      <4>1. fb' = NoFb /\ fb # NoFb /\ claimed'.phys = fb.phys
        BY <3>1 DEF FbReturn
      <4> QED
        BY <4>1 DEF FbOutside
    <3>2. CASE ~FbReturn
      <4>1. claimed' = claimed
        BY <1>5, <3>2 DEF Steps, Descend, AllocTable, LinkTable, AllocFails, NothingToUnmap,
              SetEntry, Invlpg, Fault, FbPage
      <4>2. fb' # NoFb => fb # NoFb /\ fb'.phys = fb.phys
        <5>1. \/ fb' = fb
              \/ fb # NoFb /\ fb' = [fb EXCEPT !.short = TRUE]
              \/ fb # NoFb /\ fb' = [fb EXCEPT !.offset = NextOffset]
          BY <1>5, <3>2 DEF Steps, Descend, AllocTable, LinkTable, AllocFails, NothingToUnmap,
                SetEntry, Invlpg, Fault, FbPage
        <5> QED
          BY <5>1 DEF PagingInv, FbInv, FbType
      <4> QED
        BY <4>1, <4>2 DEF FbOutside
    <3> QED
      BY <3>1, <3>2
  <2> QED
    BY <2>1, <2>2
<1> QED
  BY <1>1, <1>2, <1>3, <1>4, <1>5 DEF Next, Calls

(* What is claimed to be mapped is, every page of it.                      *)
LEMMA ClaimedMine ==
  ASSUME ClaimInv, claimed # NoClaim, ~claimed.short, claimed.phys % PageSize = 0,
         NEW n \in ClaimedPages
  PROVE  Mine(n) /\ n \in Frame /\ PageOf(claimed.phys) <= n
<1>1. PICK phys \in Nat, size \in Nat : phys = claimed.phys /\ size = claimed.size
  BY DEF ClaimInv
<1>2. phys + size \in Address /\ AllMine(phys, size) /\ phys % PageSize = 0
  BY <1>1 DEF ClaimInv
<1>3. PageSize \in Nat \ {0} /\ PageSize * 0 = 0
  BY SizesAssumption
<1> DEFINE p == phys \div PageSize
           e == (phys + size - 1) \div PageSize
<1>4. p \in Nat /\ phys = PageSize * p + 0
  BY <1>2, <1>3, Division
<1>5. n \in p .. e /\ e = (phys + size - 1) \div PageSize /\ PageOf(phys) = p
  BY <1>1 DEF ClaimedPages, PageOf
<1> HIDE DEF p, e
<1>6. size # 0
  <2> SUFFICES ASSUME size = 0 PROVE FALSE
    OBVIOUS
  <2>1. phys + size - 1 = PageSize * p - 1
    BY <1>3, <1>4
  <2>2. CASE p = 0
    <3>1. phys + size - 1 = -1
      BY <1>3, <2>1, <2>2
    <3>2. e = (-1) \div PageSize
      BY <1>5, <3>1
    <3>3. (-1) \div PageSize \in Int /\ (-1) \div PageSize < 0
      BY <1>3
    <3> QED
      BY <1>5, <2>2, <3>2, <3>3
  <2>3. CASE p # 0
    <3>1. phys + size - 1 \in Nat /\ phys + size - 1 < PageSize * p
      BY <1>3, <1>4, <2>1, <2>3
    <3>2. e < p /\ e \in Nat
      BY <1>3, <1>4, <1>5, <3>1, QuotientBelow, Division
    <3> QED
      BY <1>4, <1>5, <3>2
  <2> QED
    BY <2>2, <2>3
<1>7. e \in Nat /\ PageSize * e <= phys + size - 1 /\ PageSize * e \in Nat
  <2> DEFINE a == phys + size - 1
  <2>1. a \in Nat
    BY <1>6
  <2> HIDE DEF a
  <2>2. a \div PageSize \in Nat /\ a % PageSize \in 0 .. (PageSize - 1)
        /\ a = PageSize * (a \div PageSize) + (a % PageSize)
    BY <1>3, <2>1, Division
  <2> DEFINE d == a \div PageSize
  <2>3. d \in Nat /\ PageSize * d <= a /\ PageSize * d \in Nat
    <3>1. d \in Nat /\ a % PageSize \in Nat /\ a = PageSize * d + (a % PageSize)
      BY <1>3, <2>2
    <3> HIDE DEF d
    <3>2. PageSize * d \in Nat
      BY <1>3, <3>1
    <3> QED
      BY <2>1, <3>1, <3>2
  <2> QED
    BY <1>5, <2>3 DEF a
<1>8. n - p \in Nat /\ n - p <= e - p /\ p + (n - p) = n /\ p <= n
  BY <1>4, <1>5, <1>7
<1>9. PageSize * (n - p) < size
  <2>1. PageSize * (n - p) <= PageSize * (e - p)
    BY <1>3, <1>4, <1>7, <1>8
  <2>2. PageSize * (e - p) = PageSize * e - PageSize * p /\ PageSize * p \in Nat
        /\ PageSize * (n - p) \in Nat
    BY <1>3, <1>4, <1>7, <1>8
  <2> DEFINE b == PageSize * (n - p)
             c == PageSize * e
             d == PageSize * p
  <2>3. b <= c - d /\ phys = d /\ c <= phys + size - 1 /\ b \in Nat /\ c \in Nat /\ d \in Nat
    BY <1>4, <1>7, <2>1, <2>2
  <2> HIDE DEF b, c, d
  <2>4. b < size
    BY <2>3
  <2> QED
    BY <2>4 DEF b
<1>10. Mine(PageOf(phys) + (n - p)) /\ PageOf(phys) + (n - p) \in Frame
  BY <1>2, <1>8, <1>9, PageWithin DEF AllMine
<1> QED
  BY <1>1, <1>5, <1>8, <1>10

(* A framebuffer paging_map_framebuffer reports as mapped is, every page   *)
(* of it and with the right to write, if it starts on a page and no frame  *)
(* was missing: the loop leaves out no page, and no page it maps is lost   *)
(* again by the tables allocated for a later one.                          *)
THEOREM FramebufferMappedHolds ==
  ASSUME CallsOutside, BitmapReserved PROVE Spec => []FramebufferMapped
<1>1. Init => FbMapInv /\ FbOutside
  BY DEF Init, FbMapInv, PathInv, LoopInv, ClaimInv, FbOutside
<1>2. PagingInv /\ FbMapInv /\ FbOutside /\ [Next]_vars => FbMapInv' /\ FbOutside'
  BY FbMapStep
<1>3. FbMapInv /\ FbOutside => FramebufferMapped
  <2> SUFFICES ASSUME FbMapInv, FbOutside, claimed # NoClaim, ~claimed.short,
                      claimed.phys % PageSize = 0, NEW n \in ClaimedPages
               PROVE  Walk(n) = [frame |-> n, flags |-> {"PRESENT", "RW", "CACHE_DISABLE"}]
    BY DEF FramebufferMapped
  <2>1. Mine(n) /\ n \in Frame /\ PageOf(claimed.phys) <= n
    BY ClaimedMine DEF FbMapInv
  <2>2. PageOf(claimed.phys) \in Nat /\ PageOf(claimed.phys) \notin IdentityPages
    <3>1. claimed.phys \in Nat /\ PageSize \in Nat \ {0}
      BY SizesAssumption DEF FbMapInv, ClaimInv
    <3>2. claimed.phys \div PageSize \in Nat
      BY <3>1, Division
    <3> QED
      BY <3>2 DEF PageOf, FbOutside
  <2>3. n \notin IdentityPages
    <3>1. E * E \in Nat /\ n \in Nat
      BY <2>1, SizesAssumption DEF Frame
    <3> DEFINE s == E * E
    <3>2. IdentityPages = 0 .. (s - 1) /\ s \in Nat
      BY <3>1 DEF IdentityPages
    <3> HIDE DEF s
    <3> QED
      BY <2>1, <2>2, <3>1, <3>2
  <2> QED
    BY <2>1, <2>3 DEF Mine, FbFlags
<1> QED
  BY <1>1, <1>2, <1>3, PagingInvAlways, PTL DEF Spec

-----------------------------------------------------------------------------
(* The tables form a tree *)

Level(lvl, k) == {f \in Ram : lvl[f] = k}

(* An entry that links leads to a table of the next level.                 *)
LEMMA LinkLeads ==
  ASSUME NEW lvl, NEW pre, TreeOf(lvl, pre), NEW k \in 1 .. 3, NEW f \in Level(lvl, k),
         NEW i \in 0 .. (E - 1), Present(Cell(f, i)), ~Huge(Cell(f, i))
  PROVE  /\ Cell(f, i) = mem[f][i]
         /\ Leads(lvl, pre, f, i)
         /\ Cell(f, i).addr \in Level(lvl, k - 1)
<1>1. f \in Ram /\ lvl[f] = k /\ Cell(f, i) = mem[f][i]
  BY DEF Level, Cell
<1>2. f # P2
  <2>1. Huge(HugeEntry(i))
    BY DEF Huge, HugeEntry
  <2> QED
    BY <1>1, <2>1 DEF TreeOf
<1>3. Leads(lvl, pre, f, i)
  BY <1>1, <1>2 DEF TreeOf
<1> QED
  BY <1>1, <1>3 DEF Leads, Level

(* The tables of each level are frames of that level.                      *)
LEMMA TablesLevels ==
  ASSUME NEW lvl, NEW pre, TreeOf(lvl, pre)
  PROVE  /\ P4 \in Level(lvl, 3)
         /\ Tables2 \subseteq Level(lvl, 2)
         /\ Tables1 \subseteq Level(lvl, 1)
         /\ Tables0 \subseteq Level(lvl, 0)
<1>1. ASSUME NEW k \in 1 .. 3, NEW S, S \subseteq Level(lvl, k)
      PROVE  Children(S) \subseteq Level(lvl, k - 1)
  <2> SUFFICES ASSUME NEW c \in Children(S) PROVE c \in Level(lvl, k - 1)
    OBVIOUS
  <2>1. PICK t \in S, i \in 0 .. (E - 1) :
          Present(Cell(t, i)) /\ ~Huge(Cell(t, i)) /\ Cell(t, i).addr = c
    BY DEF Children
  <2>2. t \in Level(lvl, k)
    BY <1>1
  <2> QED
    BY <2>1, <2>2, LinkLeads
<1>2. P4 \in Level(lvl, 3)
  BY BootAssumption DEF Level, TreeOf
<1>3. 3 - 1 = 2 /\ 2 - 1 = 1 /\ 1 - 1 = 0
  OBVIOUS
<1>4. Tables2 \subseteq Level(lvl, 2)
  <2>1. {P4} \subseteq Level(lvl, 3)
    BY <1>2
  <2> QED
    BY <1>1, <1>3, <2>1 DEF Tables2
<1>5. Tables1 \subseteq Level(lvl, 1)
  BY <1>1, <1>3, <1>4 DEF Tables1
<1>6. Tables0 \subseteq Level(lvl, 0)
  BY <1>1, <1>3, <1>5 DEF Tables0
<1> QED
  BY <1>2, <1>4, <1>5, <1>6

(* Two entries that lead to the same table are one.                        *)
LEMMA OneParent ==
  ASSUME NEW lvl, NEW pre \in [Ram -> Nat], TreeOf(lvl, pre),
         NEW l \in Links, NEW m \in Links, Cell(l[1], l[2]).addr = Cell(m[1], m[2]).addr
  PROVE  l = m
<1> DEFINE Tree == {P4} \cup Tables2 \cup Tables1
<1>1. ASSUME NEW x \in Links
      PROVE  /\ x[1] \in Tree /\ x[1] \in Ram /\ lvl[x[1]] \in 1 .. 3 /\ x[2] \in 0 .. (E - 1)
             /\ x = <<x[1], x[2]>>
             /\ Leads(lvl, pre, x[1], x[2]) /\ Cell(x[1], x[2]) = mem[x[1]][x[2]]
  <2>1. /\ x \in Tree \X (0 .. (E - 1))
        /\ Present(Cell(x[1], x[2])) /\ ~Huge(Cell(x[1], x[2]))
    BY DEF Links
  <2>2. x = <<x[1], x[2]>> /\ x[1] \in Tree /\ x[2] \in 0 .. (E - 1)
    BY <2>1
  <2>3. PICK k \in 1 .. 3 : x[1] \in Level(lvl, k)
    BY <2>2, TablesLevels
  <2>4. Leads(lvl, pre, x[1], x[2]) /\ Cell(x[1], x[2]) = mem[x[1]][x[2]]
    BY <2>1, <2>2, <2>3, LinkLeads
  <2> QED
    BY <2>2, <2>3, <2>4 DEF Level
<1>2. ASSUME NEW x \in Links, NEW y \in Links,
             Cell(x[1], x[2]).addr = Cell(y[1], y[2]).addr
      PROVE  lvl[x[1]] = lvl[y[1]] /\ pre[x[1]] = pre[y[1]] /\ x[2] = y[2]
  <2> DEFINE c == Cell(x[1], x[2]).addr
  <2>1. /\ lvl[c] = lvl[x[1]] - 1 /\ pre[c] = pre[x[1]] * E + x[2]
        /\ lvl[c] = lvl[y[1]] - 1 /\ pre[c] = pre[y[1]] * E + y[2]
    BY <1>1, <1>2 DEF Leads
  <2>2. /\ x[2] \in 0 .. (E - 1) /\ y[2] \in 0 .. (E - 1)
        /\ pre[x[1]] \in Nat /\ pre[y[1]] \in Nat
        /\ lvl[x[1]] \in 1 .. 3 /\ lvl[y[1]] \in 1 .. 3
    BY <1>1
  <2> HIDE DEF c
  <2>3. lvl[x[1]] = lvl[y[1]]
    BY <2>1, <2>2
  <2>4. pre[x[1]] * E + x[2] = pre[y[1]] * E + y[2]
    BY <2>1
  <2>5. pre[x[1]] = pre[y[1]] /\ x[2] = y[2]
    <3>1. E \in Nat \ {0}
      BY SizesAssumption
    <3>2. \A a, b \in Nat : \A i, j \in 0 .. (E - 1) : a * E + i = b * E + j => a = b /\ i = j
      BY <3>1, DigitsUnique
    <3> QED
      BY <2>2, <2>4, <3>2
  <2> QED
    BY <2>3, <2>5
<1>3. ASSUME NEW k \in 1 .. 3, NEW S, S \subseteq Level(lvl, k), S \subseteq Tree,
             \A f, g \in S : pre[f] = pre[g] => f = g
      PROVE  \A c, d \in Children(S) : pre[c] = pre[d] => c = d
  <2> SUFFICES ASSUME NEW c \in Children(S), NEW d \in Children(S), pre[c] = pre[d]
               PROVE  c = d
    OBVIOUS
  <2>1. PICK t \in S, i \in 0 .. (E - 1) :
          Present(Cell(t, i)) /\ ~Huge(Cell(t, i)) /\ Cell(t, i).addr = c
    BY DEF Children
  <2>2. PICK u \in S, j \in 0 .. (E - 1) :
          Present(Cell(u, j)) /\ ~Huge(Cell(u, j)) /\ Cell(u, j).addr = d
    BY DEF Children
  <2>3. /\ pre[c] = pre[t] * E + i /\ pre[d] = pre[u] * E + j
        /\ t \in Ram /\ u \in Ram
    <3>1. t \in Level(lvl, k) /\ u \in Level(lvl, k)
      BY <1>3
    <3>2. Leads(lvl, pre, t, i) /\ Cell(t, i) = mem[t][i]
          /\ Leads(lvl, pre, u, j) /\ Cell(u, j) = mem[u][j]
      BY <2>1, <2>2, <3>1, LinkLeads
    <3> QED
      BY <2>1, <2>2, <3>1, <3>2 DEF Leads, Level
  <2>4. pre[t] = pre[u] /\ i = j
    <3>1. pre[t] \in Nat /\ pre[u] \in Nat /\ pre[t] * E + i = pre[u] * E + j
      BY <2>3
    <3>2. E \in Nat \ {0}
      BY SizesAssumption
    <3>3. \A a, b \in Nat : \A x, y \in 0 .. (E - 1) : a * E + x = b * E + y => a = b /\ x = y
      BY <3>2, DigitsUnique
    <3> QED
      BY <3>1, <3>3
  <2>5. t = u
    BY <1>3, <2>4
  <2> QED
    BY <2>1, <2>2, <2>4, <2>5
<1>4. /\ \A f, g \in {P4} : pre[f] = pre[g] => f = g
      /\ {P4} \subseteq Level(lvl, 3) /\ {P4} \subseteq Tree
  BY TablesLevels
<1>5. \A f, g \in Tables2 : pre[f] = pre[g] => f = g
  <2> HIDE DEF Tree
  <2>1. \A c, d \in Children({P4}) : pre[c] = pre[d] => c = d
    BY <1>3, <1>4
  <2> QED
    BY <2>1 DEF Tables2
<1>6. \A f, g \in Tables1 : pre[f] = pre[g] => f = g
  <2>1. Tables2 \subseteq Level(lvl, 2) /\ Tables2 \subseteq Tree /\ 2 \in 1 .. 3
    BY TablesLevels
  <2> HIDE DEF Tree
  <2>2. \A c, d \in Children(Tables2) : pre[c] = pre[d] => c = d
    BY <1>3, <1>5, <2>1
  <2> QED
    BY <2>2 DEF Tables1
<1>7. ASSUME NEW f \in Tree, NEW g \in Tree, lvl[f] = lvl[g], pre[f] = pre[g]
      PROVE  f = g
  <2>1. \A t \in Tables2 : lvl[t] = 2
    BY TablesLevels DEF Level
  <2>2. \A t \in Tables1 : lvl[t] = 1
    BY TablesLevels DEF Level
  <2>3. lvl[P4] = 3
    BY DEF TreeOf
  <2> QED
    BY <1>5, <1>6, <1>7, <2>1, <2>2, <2>3
<1>8. lvl[l[1]] = lvl[m[1]] /\ pre[l[1]] = pre[m[1]] /\ l[2] = m[2]
  BY <1>2
<1>9. l[1] \in Tree /\ m[1] \in Tree /\ l = <<l[1], l[2]>> /\ m = <<m[1], m[2]>>
  BY <1>1
<1>10. l[1] = m[1]
  BY <1>7, <1>8, <1>9
<1> QED
  BY <1>8, <1>9, <1>10

(* The boot tables lie where the boot code maps memory, and no call maps a *)
(* page outside of the identity map to its own frame of RAM: a framebuffer *)
(* is a device.  Otherwise the allocator's first free frame could be       *)
(* reachable through such a page, and no longer once that is unmapped.     *)
TablesLow ==
  /\ {P3, P2} \subseteq IdentityPages
  /\ \A a \in MapArgs : PageOf(a.virt) = PageOf(a.phys) => PageOf(a.virt) \notin Ram
  /\ \A a \in FbArgs : \A i \in 0 .. a.size : PageOf(a.phys + i) \notin Ram

(* No frame of RAM has its own page but in the identity map.               *)
OwnInv ==
  /\ \A n \in Ram : n \notin IdentityPages => Walk(n) = NoPage \/ Walk(n).frame # n
  /\ op # Idle /\ op.kind = "map" /\ PageOf(op.virt) = PageOf(op.phys) =>
       PageOf(op.virt) \notin Ram
  /\ fb # NoFb => \A i \in 0 .. fb.size : PageOf(fb.phys + i) \notin Ram

(* So all tables, which were zeroed through their own pages, are low.      *)
LowInv ==
  /\ Tables2 \cup Tables1 \cup Tables0 \subseteq IdentityPages
  /\ op # Idle /\ op.pc = "link" => op.new \in IdentityPages

TreeTablesInv == OwnInv /\ LowInv

(* While the tables stay, so do their sets.                                *)
LEMMA ChildrenStay ==
  ASSUME NEW S, NEW S2, S2 = S, \A f \in S : \A i \in 0 .. (E - 1) : Cell(f, i)' = Cell(f, i)
  PROVE  Children(S2)' = Children(S)
BY DEF Children, Frame, Present, Huge

(* A step that empties a frame and may link it adds it to the tables, and  *)
(* nothing below it.                                                       *)
LEMMA ChildrenGrow ==
  ASSUME NEW c, \A i \in 0 .. (E - 1) : ~Present(Cell(c, i)'),
         \A f : \A i \in 0 .. (E - 1) : Present(Cell(f, i)') =>
           Cell(f, i)' = Cell(f, i) \/ Cell(f, i)'.addr = c,
         NEW S, NEW S2, S2 \subseteq S \cup {c}
  PROVE  Children(S2)' \subseteq Children(S) \cup {c}
<1> SUFFICES ASSUME NEW d \in Children(S2)', d # c PROVE d \in Children(S)
  OBVIOUS
<1>1. PICK t \in S2, i \in 0 .. (E - 1) :
        Present(Cell(t, i)') /\ ~Huge(Cell(t, i)') /\ Cell(t, i)'.addr = d
  BY DEF Children, Present, Huge
<1>2. t # c
  BY <1>1
<1>3. Cell(t, i)' = Cell(t, i)
  BY <1>1
<1>4. d \in Frame
  BY DEF Children, Frame
<1> QED
  BY <1>1, <1>2, <1>3, <1>4 DEF Children

(* All levels together.                                                    *)
LEMMA TablesGrow ==
  ASSUME NEW c, \A i \in 0 .. (E - 1) : ~Present(Cell(c, i)'),
         \A f : \A i \in 0 .. (E - 1) : Present(Cell(f, i)') =>
           Cell(f, i)' = Cell(f, i) \/ Cell(f, i)'.addr = c
  PROVE  (Tables2 \cup Tables1 \cup Tables0)' \subseteq Tables2 \cup Tables1 \cup Tables0 \cup {c}
<1>1. ASSUME NEW S, NEW S2, S2 \subseteq S \cup {c}
      PROVE  Children(S2)' \subseteq Children(S) \cup {c}
  BY <1>1, ChildrenGrow
<1>2. PICK A2, A1, A0, B2, B1, B0 :
        /\ A2 = Tables2 /\ A1 = Tables1 /\ A0 = Tables0
        /\ B2 = Tables2' /\ B1 = Tables1' /\ B0 = Tables0'
  OBVIOUS
<1>3. /\ A2 = Children({P4}) /\ A1 = Children(A2) /\ A0 = Children(A1)
      /\ B2 = Children({P4})' /\ B1 = Children(B2)' /\ B0 = Children(B1)'
  BY <1>2 DEF Tables2, Tables1, Tables0, Children
<1>4. B2 \subseteq A2 \cup {c}
  BY <1>1, <1>3
<1>5. B1 \subseteq A1 \cup {c}
  BY <1>1, <1>3, <1>4
<1>6. B0 \subseteq A0 \cup {c}
  BY <1>1, <1>3, <1>5
<1> QED
  BY <1>2, <1>4, <1>5, <1>6

(* While the tables of the upper levels stay, so do all tables.            *)
LEMMA TablesStay ==
  ASSUME NEW lvl, NEW pre, TreeOf(lvl, pre),
         \A f \in Ram : lvl[f] \in 1 .. 3 => \A i \in 0 .. (E - 1) : Cell(f, i)' = Cell(f, i)
  PROVE  (Tables2 \cup Tables1 \cup Tables0)' = Tables2 \cup Tables1 \cup Tables0
<1>1. ASSUME NEW S, NEW S2, S2 = S, NEW k \in 1 .. 3, S \subseteq Level(lvl, k)
      PROVE  Children(S2)' = Children(S)
  <2>1. \A f \in S : \A i \in 0 .. (E - 1) : Cell(f, i)' = Cell(f, i)
    BY <1>1 DEF Level
  <2> QED
    BY <1>1, <2>1, ChildrenStay
<1>2. PICK A2, A1, A0, B2, B1, B0 :
        /\ A2 = Tables2 /\ A1 = Tables1 /\ A0 = Tables0
        /\ B2 = Tables2' /\ B1 = Tables1' /\ B0 = Tables0'
  OBVIOUS
<1>3. /\ A2 = Children({P4}) /\ A1 = Children(A2) /\ A0 = Children(A1)
      /\ B2 = Children({P4})' /\ B1 = Children(B2)' /\ B0 = Children(B1)'
  BY <1>2 DEF Tables2, Tables1, Tables0, Children
<1>4. {P4} \subseteq Level(lvl, 3) /\ A2 \subseteq Level(lvl, 2) /\ A1 \subseteq Level(lvl, 1)
  BY <1>2, TablesLevels
<1>5. 3 \in 1 .. 3 /\ 2 \in 1 .. 3 /\ 1 \in 1 .. 3
  OBVIOUS
<1>6. B2 = A2
  BY <1>1, <1>3, <1>4, <1>5
<1>7. B1 = A1
  BY <1>1, <1>3, <1>4, <1>5, <1>6
<1>8. B0 = A0
  BY <1>1, <1>3, <1>4, <1>5, <1>7
<1> QED
  BY <1>2, <1>6, <1>7, <1>8

(* While walks stay, and what a call is about, so does OwnInv.             *)
LEMMA OwnStays ==
  ASSUME OwnInv, \A n \in Frame : Walk(n)' = Walk(n),
         op' # Idle => /\ op # Idle
                       /\ op'.kind = op.kind /\ op'.virt = op.virt /\ op'.phys = op.phys,
         fb' # NoFb => fb # NoFb /\ fb'.size = fb.size /\ fb'.phys = fb.phys
  PROVE  OwnInv'
<1>1. \A n \in Ram : Walk(n)' = Walk(n)
  BY FrameType
<1>2. \A n \in Ram : n \notin IdentityPages => Walk(n)' = NoPage \/ Walk(n)'.frame # n
  BY <1>1 DEF OwnInv
<1>3. op' # Idle /\ op'.kind = "map" /\ PageOf(op'.virt) = PageOf(op'.phys) =>
        PageOf(op'.virt) \notin Ram
  BY DEF OwnInv
<1>4. fb' # NoFb => \A i \in 0 .. fb'.size : PageOf(fb'.phys + i) \notin Ram
  BY DEF OwnInv
<1> QED
  BY <1>2, <1>3, <1>4 DEF OwnInv, IdentityPages, Ram, PageOf

(* While the tables stay, and unless a table is about to be linked, so     *)
(* does LowInv.                                                            *)
LEMMA LowStays ==
  ASSUME LowInv, mem' = mem,
         op' # Idle /\ op'.pc = "link" => op # Idle /\ op.pc = "link" /\ op'.new = op.new
  PROVE  LowInv'
<1>1. (Tables2 \cup Tables1 \cup Tables0)' = Tables2 \cup Tables1 \cup Tables0
  <2>1. \A f, i : Cell(f, i)' = Cell(f, i)
    BY DEF Cell
  <2> QED
    BY <2>1 DEF Tables2, Tables1, Tables0, Children, Frame, Present, Huge
<1> QED
  BY <1>1 DEF LowInv, IdentityPages

(* Steps that change no table.                                             *)
LEMMA TablesQuiet ==
  ASSUME TreeTablesInv, mem' = mem,
         op' # Idle => /\ op # Idle /\ (op'.pc = "link" => op.pc = "link" /\ op'.new = op.new)
                       /\ op'.kind = op.kind /\ op'.virt = op.virt /\ op'.phys = op.phys,
         fb' # NoFb => fb # NoFb /\ fb'.size = fb.size /\ fb'.phys = fb.phys
  PROVE  TreeTablesInv'
<1>1. \A n \in Frame : Walk(n)' = Walk(n)
  BY WalkStays
<1> QED
  BY <1>1, OwnStays, LowStays DEF TreeTablesInv

(* A call of paging_map_page or paging_unmap_page begins.                  *)
LEMMA TablesCall ==
  ASSUME TreeTablesInv, mem' = mem, NEW kind, NEW virt, NEW phys, NEW flags,
         op' = Begin(kind, virt, phys, flags),
         kind = "map" /\ PageOf(virt) = PageOf(phys) => PageOf(virt) \notin Ram,
         fb' # NoFb => fb # NoFb /\ fb'.size = fb.size /\ fb'.phys = fb.phys
  PROVE  TreeTablesInv'
<1>1. /\ op'.pc = "walk" /\ op'.kind = kind /\ op'.virt = virt /\ op'.phys = phys
  BY DEF Begin
<1>2. LowInv'
  BY <1>1, LowStays DEF TreeTablesInv
<1>3. \A n \in Ram : Walk(n)' = Walk(n)
  BY WalkStays
<1>4. \A n \in Ram : n \notin IdentityPages => Walk(n)' = NoPage \/ Walk(n)'.frame # n
  BY <1>3 DEF TreeTablesInv, OwnInv
<1>5. fb' # NoFb => \A i \in 0 .. fb'.size : PageOf(fb'.phys + i) \notin Ram
  BY DEF TreeTablesInv, OwnInv
<1>6. OwnInv'
  BY <1>1, <1>4, <1>5 DEF OwnInv, IdentityPages, Ram, PageOf
<1> QED
  BY <1>2, <1>6 DEF TreeTablesInv

(* A table is zeroed through its own page, so it is in the identity map.   *)
LEMMA TablesAlloc ==
  ASSUME PagingInv, TreeTablesInv, AllocTable
  PROVE  TreeTablesInv'
<1> DEFINE f == FirstFree
<1>1. /\ op # Idle /\ op' = [op EXCEPT !.pc = "link", !.new = f] /\ fb' = fb
      /\ Reachable(f) /\ mem' = [mem EXCEPT ![f] = ZeroTable] /\ FreeFrames # {}
  BY AllocPlain DEF PagingInv, AllocTable
<1>2. f \in Ram /\ f \notin used
  BY <1>1, FirstFreeType
<1> HIDE DEF f
<1>3. op \in Op
  BY <1>1 DEF PagingInv, OpInv
<1>4. /\ op'.new = f /\ op'.kind = op.kind /\ op'.virt = op.virt /\ op'.phys = op.phys
  BY <1>1, <1>2, <1>3 DEF Op
<1>5. f \in IdentityPages
  BY <1>1, <1>2 DEF TreeTablesInv, OwnInv, Reachable
<1>6. OwnInv'
  <2>1. \A n \in Frame : Walk(n)' = Walk(n)
    BY AllocInv
  <2> QED
    BY <1>1, <1>4, <2>1, OwnStays DEF TreeTablesInv
<1>7. (Tables2 \cup Tables1 \cup Tables0)' = Tables2 \cup Tables1 \cup Tables0
  <2>1. PICK lvl \in [Ram -> 0 .. 4], pre \in [Ram -> Nat] : TreeOf(lvl, pre)
    BY DEF PagingInv, TreeInv
  <2>2. lvl[f] = 4
    BY <1>2, <2>1 DEF TreeOf
  <2>3. \A g \in Ram : g # f => mem'[g] = mem[g]
    BY <1>1, <1>2 DEF PagingInv, MemType
  <2>4. \A g \in Ram : lvl[g] \in 1 .. 3 => \A i \in 0 .. (E - 1) : Cell(g, i)' = Cell(g, i)
    BY <2>2, <2>3 DEF Cell
  <2> QED
    BY <2>1, <2>4, TablesStay
<1>8. LowInv'
  BY <1>4, <1>5, <1>7 DEF TreeTablesInv, LowInv, IdentityPages
<1> QED
  BY <1>6, <1>8 DEF TreeTablesInv

(* The linked table is the one new table.                                  *)
LEMMA TablesLink ==
  ASSUME PagingInv, TreeTablesInv, LinkTable
  PROVE  TreeTablesInv'
<1>1. /\ op # Idle /\ op.pc = "link" /\ fb' = fb
      /\ op' = [op EXCEPT !.pc = "walk", !.table = op.new, !.level = op.level - 1]
      /\ mem' = Store(op.table, Slot, TableEntry(op.new))
  BY LinkPlain DEF PagingInv, LinkTable
<1>2. PICK c : c = op.new
  OBVIOUS
<1>3. op \in Op /\ Slot \in 0 .. (E - 1)
  BY <1>1, OpFacts DEF PagingInv
<1>4. c \in IdentityPages /\ c \in Ram
  BY <1>1, <1>2, <1>3 DEF TreeTablesInv, LowInv, Op
<1>5. /\ op'.pc = "walk" /\ op'.kind = op.kind /\ op'.virt = op.virt /\ op'.phys = op.phys
  BY <1>1, <1>3 DEF Op
<1>6. OwnInv'
  <2>1. \A n \in Frame : Walk(n)' = Walk(n)
    BY LinkInv
  <2> QED
    BY <1>1, <1>5, <2>1, OwnStays DEF TreeTablesInv
<1>7. op.table \in Ram /\ op.table # c /\ mem[c] = ZeroTable
  <2>1. PICK lvl \in [Ram -> 0 .. 4], pre \in [Ram -> Nat] :
          TreeOf(lvl, pre) /\ OpOnTree(lvl, pre)
    BY DEF PagingInv, TreeInv
  <2> QED
    BY <1>1, <1>2, <2>1 DEF OpOnTree
<1>8. \A i \in 0 .. (E - 1) : ~Present(Cell(c, i)')
  <2>1. mem'[c] = ZeroTable
    BY <1>1, <1>4, <1>7 DEF Store, PagingInv, MemType
  <2> QED
    BY <1>4, <2>1 DEF Cell, ZeroTable, Zero, Present
<1>9. \A f : \A i \in 0 .. (E - 1) : Present(Cell(f, i)') =>
        Cell(f, i)' = Cell(f, i) \/ Cell(f, i)'.addr = c
  <2> SUFFICES ASSUME NEW f, NEW i \in 0 .. (E - 1)
               PROVE  Cell(f, i)' = Cell(f, i) \/ Cell(f, i)'.addr = c
    OBVIOUS
  <2>1. mem' = [mem EXCEPT ![op.table][Slot] = TableEntry(c)]
    BY <1>1, <1>2, <1>7 DEF Store
  <2>2. f \in Ram => mem[f] \in [0 .. (E - 1) -> Entry]
    BY DEF PagingInv, MemType
  <2>3. CASE f = op.table /\ i = Slot
    <3>1. mem'[f][i] = TableEntry(c)
      BY <1>3, <1>7, <2>1, <2>2, <2>3 DEF PagingInv, MemType
    <3> QED
      BY <1>7, <2>3, <3>1 DEF Cell, TableEntry
  <2>4. CASE ~(f = op.table /\ i = Slot)
    <3>1. f \in Ram => mem'[f][i] = mem[f][i]
      BY <2>1, <2>2, <2>4 DEF PagingInv, MemType
    <3> QED
      BY <3>1 DEF Cell
  <2> QED
    BY <2>3, <2>4
<1>10. (Tables2 \cup Tables1 \cup Tables0)' \subseteq Tables2 \cup Tables1 \cup Tables0 \cup {c}
  BY <1>8, <1>9, TablesGrow
<1>11. LowInv'
  BY <1>4, <1>5, <1>10 DEF TreeTablesInv, LowInv, IdentityPages
<1> QED
  BY <1>6, <1>11 DEF TreeTablesInv

(* The entry of a page is in no table that leads to tables.                *)
LEMMA TablesSet ==
  ASSUME PagingInv, PathInv, TreeTablesInv, SetEntry
  PROVE  TreeTablesInv'
<1>1. /\ op # Idle /\ op.pc = "walk" /\ op.level = 0 /\ fb' = fb
      /\ op' = [op EXCEPT !.pc = "flush"]
      /\ \E e : mem' = Store(op.table, Slot, e)
  BY SetEntryPlain DEF PagingInv, SetEntry
<1>2. op \in Op /\ PageOf(op.virt) \in Frame /\ PageOf(op.virt) \notin IdentityPages
  BY <1>1, OpFacts DEF PagingInv
<1>3. /\ op'.pc = "flush" /\ op'.kind = op.kind /\ op'.virt = op.virt /\ op'.phys = op.phys
  BY <1>1, <1>2 DEF Op
<1>4. PICK m \in Frame : m = PageOf(op.virt)
  BY <1>2
<1>5. /\ Walk(m)' = NoPage \/ (op.kind = "map" /\ Walk(m)'.frame = PageOf(op.phys))
      /\ \A n \in Frame : n # m => Walk(n)' = Walk(n)
  BY <1>4, SetEntryWalk, SetEntryInv
<1>6. ASSUME NEW n \in Ram, n \notin IdentityPages
      PROVE  Walk(n)' = NoPage \/ Walk(n)'.frame # n
  <2>1. n \in Frame
    BY FrameType
  <2>2. CASE n = m
    <3>1. op.kind = "map" => PageOf(op.phys) # n
      BY <1>1, <1>4, <2>2 DEF TreeTablesInv, OwnInv
    <3> QED
      BY <1>5, <2>2, <3>1
  <2>3. CASE n # m
    BY <1>5, <1>6, <2>1, <2>3 DEF TreeTablesInv, OwnInv
  <2> QED
    BY <2>2, <2>3
<1>7. OwnInv'
  <2>1. op'.kind = "map" /\ PageOf(op'.virt) = PageOf(op'.phys) => PageOf(op'.virt) \notin Ram
    BY <1>1, <1>3 DEF TreeTablesInv, OwnInv
  <2>2. fb' # NoFb => \A i \in 0 .. fb'.size : PageOf(fb'.phys + i) \notin Ram
    BY <1>1 DEF TreeTablesInv, OwnInv
  <2> QED
    BY <1>6, <2>1, <2>2 DEF OwnInv, IdentityPages, Ram, PageOf
<1>8. (Tables2 \cup Tables1 \cup Tables0)' = Tables2 \cup Tables1 \cup Tables0
  <2>1. PICK lvl \in [Ram -> 0 .. 4], pre \in [Ram -> Nat] :
          TreeOf(lvl, pre) /\ OpOnTree(lvl, pre)
    BY DEF PagingInv, TreeInv
  <2>2. op.table \in Ram /\ lvl[op.table] = 0
    BY <1>1, <2>1 DEF OpOnTree
  <2>3. \A g \in Ram : g # op.table => mem'[g] = mem[g]
    BY <1>1, <2>2 DEF Store, PagingInv, MemType
  <2>4. \A g \in Ram : lvl[g] \in 1 .. 3 => \A i \in 0 .. (E - 1) : Cell(g, i)' = Cell(g, i)
    BY <2>2, <2>3 DEF Cell
  <2> QED
    BY <2>1, <2>4, TablesStay
<1>9. LowInv'
  BY <1>3, <1>8 DEF TreeTablesInv, LowInv, IdentityPages
<1> QED
  BY <1>7, <1>9 DEF TreeTablesInv

(* Every step keeps the tables apart and low.                              *)
LEMMA TablesStep ==
  ASSUME CallsOutside, TablesLow, PagingInv, PathInv, TreeTablesInv, [Next]_vars
  PROVE  TreeTablesInv'
<1>1. op # Idle => op \in Op
  BY DEF PagingInv, OpInv
<1>2. CASE paging_init \/ UNCHANGED vars \/ \E n \in TlbPages : TlbFill(n)
  <2>1. mem' = mem /\ op' = op /\ fb' = fb
    BY <1>2 DEF paging_init, TlbFill, vars
  <2> QED
    BY <2>1, TablesQuiet
<1>3. ASSUME NEW a \in MapArgs, paging_map_page(a.virt, a.phys, a.flags)
      PROVE  TreeTablesInv'
  <2>1. PageOf(a.virt) = PageOf(a.phys) => PageOf(a.virt) \notin Ram
    BY DEF TablesLow
  <2>2. mem' = mem /\ fb' = fb /\ op' = Begin("map", a.virt, a.phys, a.flags)
    BY <1>3 DEF paging_map_page
  <2> QED
    BY <2>1, <2>2, TablesCall
<1>4. ASSUME NEW a \in UnmapArgs, paging_unmap_page(a)
      PROVE  TreeTablesInv'
  <2>1. mem' = mem /\ fb' = fb /\ op' = Begin("unmap", a, 0, {})
    BY <1>4 DEF paging_unmap_page
  <2>2. "unmap" # "map"
    OBVIOUS
  <2> QED
    BY <2>1, <2>2, TablesCall
<1>5. ASSUME NEW a \in FbArgs, paging_map_framebuffer(a.phys, a.size)
      PROVE  TreeTablesInv'
  <2>1. /\ mem' = mem /\ op' = op /\ op' = Idle /\ fb'.phys = a.phys /\ fb'.size = a.size
    BY <1>5 DEF paging_map_framebuffer, MayCall
  <2>2. \A i \in 0 .. fb'.size : PageOf(fb'.phys + i) \notin Ram
    BY <2>1 DEF TablesLow
  <2>3. \A n \in Ram : Walk(n)' = Walk(n)
    BY <2>1, WalkStays
  <2>4. \A n \in Ram : n \notin IdentityPages => Walk(n)' = NoPage \/ Walk(n)'.frame # n
    BY <2>3 DEF TreeTablesInv, OwnInv
  <2>5. OwnInv'
    BY <2>1, <2>2, <2>4 DEF OwnInv, IdentityPages, Ram, PageOf
  <2>6. LowInv'
    BY <2>1, LowStays DEF TreeTablesInv
  <2> QED
    BY <2>5, <2>6 DEF TreeTablesInv
<1>6. CASE Descend
  <2>1. /\ mem' = mem /\ fb' = fb /\ op # Idle /\ op.pc = "walk"
        /\ op' = [op EXCEPT !.table = Here.addr, !.level = op.level - 1]
    BY <1>6, DescendPlain DEF PagingInv, Descend
  <2>2. op'.pc = "walk" /\ op'.kind = op.kind /\ op'.virt = op.virt /\ op'.phys = op.phys
    BY <1>1, <2>1 DEF Op
  <2> QED
    BY <2>1, <2>2, TablesQuiet
<1>7. CASE AllocFails \/ NothingToUnmap \/ Invlpg
  <2>1. /\ mem' = mem /\ op' = Idle
        /\ fb' = fb \/ (fb # NoFb /\ fb' = [fb EXCEPT !.short = TRUE])
    BY <1>7 DEF AllocFails, NothingToUnmap, Invlpg
  <2>2. fb' # NoFb => fb # NoFb /\ fb'.size = fb.size /\ fb'.phys = fb.phys
    BY <2>1 DEF PagingInv, FbInv, FbType
  <2> QED
    BY <2>1, <2>2, TablesQuiet
<1>8. CASE Fault
  <2>1. op # Idle /\ mem' = mem /\ fb' = fb /\ op' = [op EXCEPT !.pc = "fault"]
    BY <1>8 DEF Fault, Walking, NeedsTable
  <2>2. /\ op'.pc = "fault" /\ op'.kind = op.kind /\ op'.virt = op.virt /\ op'.phys = op.phys
    BY <1>1, <2>1 DEF Op
  <2> QED
    BY <2>1, <2>2, TablesQuiet
<1>9. CASE FbReturn
  <2>1. mem' = mem /\ op' = op /\ fb' = NoFb
    BY <1>9 DEF FbReturn
  <2> QED
    BY <2>1, TablesQuiet
<1>10. CASE FbPage
  <2>1. /\ fb # NoFb /\ mem' = mem
        /\ op' = Begin("map", fb.phys + fb.offset, fb.phys + fb.offset,
                       {"PRESENT", "RW", "CACHE_DISABLE"})
    BY <1>10 DEF FbPage
  <2>2. fb'.phys = fb.phys /\ fb'.size = fb.size /\ fb.offset \in 0 .. fb.size
    BY <1>10, FbPageStep DEF PagingInv, FbInv
  <2>3. PageOf(fb.phys + fb.offset) \notin Ram
    BY <2>1, <2>2 DEF TreeTablesInv, OwnInv
  <2> QED
    BY <2>1, <2>2, <2>3, TablesCall
<1>11. CASE AllocTable
  BY <1>11, TablesAlloc
<1>12. CASE LinkTable
  BY <1>12, TablesLink
<1>13. CASE SetEntry
  BY <1>13, TablesSet
<1> QED
  BY <1>2, <1>3, <1>4, <1>5, <1>6, <1>7, <1>8, <1>9, <1>10, <1>11, <1>12, <1>13
     DEF Next, Calls, Steps

(* The boot tables are two, both low, and translate no other page.         *)
LEMMA TablesInit ==
  ASSUME TablesLow, Init
  PROVE  TreeTablesInv
<1>1. mem = BootTables /\ op = Idle /\ fb = NoFb
  BY DEF Init
<1>2. /\ P4 \in Ram /\ P3 \in Ram /\ P2 \in Ram /\ P4 # P3 /\ P4 # P2 /\ P3 # P2
  BY BootAssumption
<1>3. E \in Nat \ {0} /\ ~Present(Zero) /\ \A i : Huge(HugeEntry(i))
  BY SizesAssumption DEF Present, Zero, Huge, HugeEntry
<1>4. \A i \in 0 .. (E - 1) :
        /\ Cell(P4, i) = IF i = 0 THEN TableEntry(P3) ELSE Zero
        /\ Cell(P3, i) = IF i = 0 THEN TableEntry(P2) ELSE Zero
        /\ Cell(P2, i) = HugeEntry(i)
  BY <1>1, <1>2 DEF Cell, BootTables
<1>5. ASSUME NEW n \in Frame, n \notin IdentityPages
      PROVE  Walk(n) = NoPage
  <2>1. /\ Index(n, 3) \in 0 .. (E - 1) /\ Prefix(n, 2) = Prefix(n, 3) * E + Index(n, 3)
        /\ Index(n, 2) \in 0 .. (E - 1) /\ Prefix(n, 1) = Prefix(n, 2) * E + Index(n, 2)
    <3>1. 3 - 1 = 2 /\ 2 - 1 = 1 /\ 3 \in 1 .. 3 /\ 2 \in 1 .. 3
      OBVIOUS
    <3> QED
      BY <3>1, PrefixStep
  <2>2. Prefix(n, 3) = 0 /\ Prefix(n, 1) # 0
    BY <1>5, IdentityPrefix DEF Prefix
  <2>3. Index(n, 3) # 0 \/ Index(n, 2) # 0
    <3> SUFFICES ASSUME Index(n, 3) = 0, Index(n, 2) = 0 PROVE FALSE
      OBVIOUS
    <3>1. 0 * E = 0 /\ 0 + 0 = 0
      BY <1>3
    <3> QED
      BY <2>1, <2>2, <3>1
  <2>4. CASE Index(n, 3) # 0
    <3>1. Entry3(n) = Zero
      BY <1>4, <2>1, <2>4 DEF Entry3
    <3> QED
      BY <1>3, <3>1 DEF Walk
  <2>5. CASE Index(n, 3) = 0 /\ Index(n, 2) # 0
    <3>1. Entry3(n) = TableEntry(P3)
      BY <1>4, <2>1, <2>5 DEF Entry3
    <3>2. Entry2(n) = Zero
      BY <1>4, <2>1, <2>5, <3>1 DEF Entry2, TableEntry
    <3> QED
      BY <1>3, <3>2 DEF Walk
  <2> QED
    BY <2>3, <2>4, <2>5
<1>6. OwnInv
  BY <1>1, <1>5, FrameType DEF OwnInv
<1>7. Tables2 \subseteq {P3}
  BY <1>3, <1>4 DEF Tables2, Children, TableEntry
<1>8. Tables1 \subseteq {P2}
  <2>1. \A t \in Tables2 : t = P3
    BY <1>7
  <2> QED
    BY <1>3, <1>4, <2>1 DEF Tables1, Children, TableEntry
<1>9. Tables0 = {}
  <2>1. \A t \in Tables1 : t = P2
    BY <1>8
  <2> QED
    BY <1>3, <1>4, <2>1 DEF Tables0, Children
<1>10. LowInv
  BY <1>1, <1>7, <1>8, <1>9 DEF LowInv, TablesLow
<1> QED
  BY <1>6, <1>10 DEF TreeTablesInv

(* The page tables are a tree of frames the allocator knows are used and   *)
(* the kernel can address: each table hangs from one entry, none is the    *)
(* root, and each is in the identity map, because alloc_page_table zeroes  *)
(* a table through its physical address before it is linked.               *)
THEOREM TablesFormTreeHolds ==
  ASSUME CallsOutside, BitmapReserved, TablesLow
  PROVE  Spec => []TablesFormTree
<1> DEFINE Inv == FbMapInv /\ FbOutside /\ TreeTablesInv
<1>1. Init => Inv
  BY TablesInit DEF Init, FbMapInv, PathInv, LoopInv, ClaimInv, FbOutside
<1>2. PagingInv /\ Inv /\ [Next]_vars => Inv'
  BY FbMapStep, TablesStep DEF FbMapInv
<1>3. PagingInv /\ Inv => TablesFormTree
  <2> SUFFICES ASSUME PagingInv, TreeTablesInv PROVE TablesFormTree
    OBVIOUS
  <2>1. PICK lvl \in [Ram -> 0 .. 4], pre \in [Ram -> Nat] : TreeOf(lvl, pre)
    BY DEF PagingInv, TreeInv
  <2>2. \A l, k \in Links : Cell(l[1], l[2]).addr = Cell(k[1], k[2]).addr => l = k
    BY <2>1, OneParent
  <2>3. ASSUME NEW l \in Links PROVE Cell(l[1], l[2]).addr \in used \ {P4}
    <3>1. /\ l[1] \in {P4} \cup Tables2 \cup Tables1 /\ l[2] \in 0 .. (E - 1)
          /\ Present(Cell(l[1], l[2])) /\ ~Huge(Cell(l[1], l[2]))
      BY DEF Links
    <3>2. PICK k \in 1 .. 3 : l[1] \in Level(lvl, k)
      BY <2>1, <3>1, TablesLevels
    <3>3. Cell(l[1], l[2]).addr \in Level(lvl, k - 1)
      BY <2>1, <3>1, <3>2, LinkLeads
    <3>4. k - 1 # 4 /\ k - 1 # 3
      OBVIOUS
    <3> QED
      BY <2>1, <3>3, <3>4 DEF Level, TreeOf
  <2>4. ASSUME NEW t \in Tables2 \cup Tables1 \cup Tables0 PROVE Reachable(t)
    <3>1. t \in IdentityPages
      BY DEF TreeTablesInv, LowInv
    <3>2. t \in Frame
      BY DEF Tables2, Tables1, Tables0, Children
    <3>3. Walk(t) = [frame |-> t, flags |-> {"PRESENT", "RW"}]
      BY <2>1, <3>1, <3>2, IdentityWalk
    <3> QED
      BY <3>3 DEF Reachable, NoPage
  <2> QED
    BY <2>2, <2>3, <2>4 DEF TablesFormTree
<1> QED
  BY <1>1, <1>2, <1>3, PagingInvAlways, PTL DEF Spec

=============================================================================
