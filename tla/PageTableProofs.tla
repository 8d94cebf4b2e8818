-------------------------- MODULE PageTableProofs --------------------------
(***************************************************************************)
(* The page table implements the flat map, and a region takes at most four *)
(* new tables, for tables of any size and any page heap.                   *)
(***************************************************************************)
EXTENDS PageTable, FiniteSetTheorems, TLAPS

(* The entries of a new table are what the entry above it said. *)
LEMMA InheritedIsEntry == ASSUME NEW e PROVE Inherited(e) = e
  BY DEF Inherited, allocate_table

LEMMA OldIsLookup ==
  ASSUME NEW p \in Pages
  PROVE  /\ Old2(p[1], p[2]) = Entry2(p[1], p[2])
         /\ Old3(p) = Lookup(p)
  BY InheritedIsEntry DEF Old2, Old3, Entry2, Lookup

(* An entry that is not a table after map_range, over a block that has p,  *)
(* translates p as the flat map would.                                     *)
LEMMA MappedEntry ==
  ASSUME NEW old, NEW block, NEW R, NEW k \in Kinds, NEW p \in block,
         Mapped(old, block, R, k) # "table"
  PROVE  /\ old # "table"
         /\ Mapped(old, block, R, k) = IF p \in R THEN k ELSE old
  BY DEF Mapped, Constraints

(* What map_range makes of the translation of a page. *)
LEMMA MapRangeLookup ==
  ASSUME NEW R, NEW k \in Kinds, NEW p \in Pages,
         level1' = Level1(R, k), level2' = Level2(R, k), level3' = Level3(R, k)
  PROVE  Lookup(p)' = IF p \in R THEN k ELSE Lookup(p)
<1> DEFINE i == p[1]
           j == p[2]
           one == Mapped(level1[i], Block1(i), R, k)
           two == Mapped(Old2(i, j), Block2(i, j), R, k)
<1>1. i \in Index /\ j \in Index /\ <<i, j>> \in Index \X Index
  BY DEF Pages
<1>2. p \in Block1(i) /\ p \in Block2(i, j)
  BY DEF Pages, Block1, Block2
<1>3. level1'[i] = one
  BY <1>1 DEF Level1
<1>4. level2'[<<i, j>>] = IF one # "table" THEN "invalid" ELSE two
  <2>1. Level1(R, k)[i] = one
    BY <1>1 DEF Level1
  <2> QED BY <1>1, <2>1 DEF Level2
<1>5. level3'[p] = IF level2'[<<i, j>>] # "table" THEN "invalid"
                   ELSE IF p \in R THEN k ELSE Old3(p)
  BY DEF Level3
<1>6. Lookup(p)' = IF one # "table" THEN one
                   ELSE IF two # "table" THEN two
                   ELSE IF p \in R THEN k ELSE Old3(p)
  <2> HIDE DEF one, two
  <2> QED BY <1>3, <1>4, <1>5 DEF Lookup, Entry2
<1>7. CASE one # "table"
  <2>1. level1[i] # "table" /\ one = IF p \in R THEN k ELSE level1[i]
    BY <1>2, <1>7, MappedEntry
  <2>2. Lookup(p) = level1[i]
    BY <2>1 DEF Lookup, Entry2
  <2> QED BY <1>6, <1>7, <2>1, <2>2
<1>8. CASE one = "table" /\ two # "table"
  <2>1. Entry2(i, j) # "table" /\ two = IF p \in R THEN k ELSE Entry2(i, j)
    BY <1>2, <1>8, MappedEntry, OldIsLookup
  <2>2. Lookup(p) = Entry2(i, j)
    BY <2>1 DEF Lookup
  <2> QED BY <1>6, <1>8, <2>1, <2>2
<1>9. CASE one = "table" /\ two = "table"
  BY <1>6, <1>9, OldIsLookup
<1> QED BY <1>7, <1>8, <1>9

(* map_range leaves descriptors of the right level in every table, and no  *)
(* table below the last level.                                             *)
LEMMA MapRangeType ==
  ASSUME NEW R, NEW k \in Kinds, PageTableTypeOK, map_range(R, k)
  PROVE  PageTableTypeOK'
<1>1. \A i, j \in Index : Old2(i, j) \in Descriptors
  BY InheritedIsEntry DEF PageTableTypeOK, Old2
<1>2. \A p \in Pages : Old3(p) \in Descriptors \ {"table"}
  <2> TAKE p \in Pages
  <2>1. p[1] \in Index /\ p[2] \in Index
    BY DEF Pages
  <2>2. CASE Entry2(p[1], p[2]) = "table"
    BY <2>2 DEF Old3, PageTableTypeOK
  <2>3. CASE Entry2(p[1], p[2]) # "table"
    BY <1>1, <2>1, <2>3, OldIsLookup, InheritedIsEntry DEF Old3
  <2> QED BY <2>2, <2>3
<1>3. \A block : \A old \in Descriptors : Mapped(old, block, R, k) \in Descriptors
  BY DEF Mapped, Descriptors
<1>4. CASE /\ level1' = Level1(R, k)
           /\ level2' = Level2(R, k)
           /\ level3' = Level3(R, k)
           /\ UNCHANGED failure
  <2>1. level1' \in [Index -> Descriptors]
    BY <1>3, <1>4 DEF Level1, PageTableTypeOK
  <2>2. level2' \in [Index \X Index -> Descriptors]
    <3>1. "invalid" \in Descriptors
      BY DEF Descriptors
    <3>2. ASSUME NEW ij \in Index \X Index
          PROVE  Mapped(Old2(ij[1], ij[2]), Block2(ij[1], ij[2]), R, k) \in Descriptors
      BY <1>1, <1>3
    <3> QED BY <1>4, <3>1, <3>2 DEF Level2
  <2>3. level3' \in [Pages -> Descriptors \ {"table"}]
    BY <1>2, <1>4 DEF Level3, Descriptors, Kinds
  <2> QED BY <1>4, <2>1, <2>2, <2>3 DEF PageTableTypeOK
<1>5. CASE failure' = "no_page" /\ UNCHANGED tableVars
  BY <1>5 DEF PageTableTypeOK, tableVars, Failures
<1> QED BY <1>4, <1>5 DEF map_range

(* Type correctness of the page table under any calls. *)
THEOREM PageTableTypeCorrect == PageTableSpec => []PageTableTypeOK
<1>1. PageTableInit => PageTableTypeOK
  BY DEF PageTableInit, PageTableTypeOK, Descriptors, Failures
<1>2. PageTableTypeOK /\ [PageTableNext]_<<tableVars, failure>> => PageTableTypeOK'
  <2> SUFFICES ASSUME PageTableTypeOK, [PageTableNext]_<<tableVars, failure>>
               PROVE  PageTableTypeOK'
    OBVIOUS
  <2>1. CASE PageTableNext
    <3>1. PICK R \in Regions : map_memory(R) \/ map_device(R)
      BY <2>1 DEF PageTableNext
    <3>2. PICK k \in Kinds : map_range(R, k)
      BY <3>1 DEF map_memory, map_device, Kinds
    <3> QED BY <3>2, MapRangeType
  <2>2. CASE UNCHANGED <<tableVars, failure>>
    BY <2>2 DEF PageTableTypeOK, tableVars
  <2> QED BY <2>1, <2>2
<1> QED BY <1>1, <1>2, PTL DEF PageTableSpec

(* No page translates to a table. *)
LEMMA LookupType ==
  ASSUME PageTableTypeOK, NEW p \in Pages
  PROVE  Lookup(p) \in Kinds \union {"invalid"}
<1>1. p[1] \in Index /\ <<p[1], p[2]>> \in Index \X Index
  BY DEF Pages
<1> QED BY <1>1 DEF Lookup, Entry2, PageTableTypeOK, Descriptors

(* A call is one step of the flat map, or none if the heap runs out. *)
LEMMA MapRangeIsMap ==
  ASSUME NEW R \in Regions, NEW k \in Kinds, PageTableTypeOK, map_range(R, k)
  PROVE  [Flat!Next]_([p \in Pages |-> Lookup(p)])
<1>1. CASE /\ level1' = Level1(R, k)
           /\ level2' = Level2(R, k)
           /\ level3' = Level3(R, k)
  <2>1. \A p \in Pages : Lookup(p)' = IF p \in R THEN k ELSE Lookup(p)
    BY <1>1, MapRangeLookup
  <2>2. \A p \in Pages : Lookup(p)' \in Kinds \union {"invalid"}
    BY <2>1, LookupType
  <2>3. Flat!Map(R, k)
    BY <2>1, <2>2 DEF Flat!Map
  <2> QED BY <2>3 DEF Flat!Next
<1>2. CASE UNCHANGED tableVars
  BY <1>2 DEF tableVars, Lookup, Entry2
<1> QED BY <1>1, <1>2 DEF map_range

(* Every behaviour of IdMap under calls to map_memory and map_device, the  *)
(* one in which the page heap runs out included, is a behaviour of the     *)
(* flat map of the pages.                                                  *)
THEOREM PageTableIsFlat == PageTableSpec => FlatSpec
<1>1. PageTableInit => Flat!Init
  BY DEF PageTableInit, Flat!Init, Lookup, Entry2, Pages
<1>2. PageTableTypeOK /\ [PageTableNext]_<<tableVars, failure>>
        => [Flat!Next]_([p \in Pages |-> Lookup(p)])
  <2>1. ASSUME PageTableTypeOK, PageTableNext
        PROVE  [Flat!Next]_([p \in Pages |-> Lookup(p)])
    <3>1. PICK R \in Regions : map_memory(R) \/ map_device(R)
      BY <2>1 DEF PageTableNext
    <3>2. PICK k \in Kinds : map_range(R, k)
      BY <3>1 DEF map_memory, map_device, Kinds
    <3> QED BY <2>1, <3>2, MapRangeIsMap
  <2>2. CASE UNCHANGED <<tableVars, failure>>
    BY <2>2 DEF tableVars, Lookup, Entry2
  <2> QED BY <2>1, <2>2
<1> QED BY <1>1, <1>2, PageTableTypeCorrect, PTL DEF PageTableSpec, FlatSpec, Flat!Spec

-----------------------------------------------------------------------------
(* The tables that a region takes *)

LEMMA DivMod ==
  ASSUME NEW x \in Nat, NEW d \in Nat \ {0}
  PROVE  /\ x \div d \in Nat /\ x % d \in 0..(d - 1)
         /\ x = d * (x \div d) + (x % d)
<1>1. x \div d \in Nat
  OBVIOUS
<1>2. x % d \in 0..(d - 1)
  OBVIOUS
<1>3. x = d * (x \div d) + (x % d)
  OBVIOUS
<1> QED BY <1>1, <1>2, <1>3

LEMMA DivModUnique ==
  ASSUME NEW a \in Nat, NEW d \in Nat \ {0}, NEW c \in 0..(d - 1)
  PROVE  (a * d + c) \div d = a /\ (a * d + c) % d = c
  OBVIOUS

LEMMA DivDiv ==
  ASSUME NEW x \in Nat, NEW d \in Nat \ {0}
  PROVE  x \div (d * d) = (x \div d) \div d
<1> DEFINE y == x \div d
           a == y \div d
           b == y % d
           c == x % d
<1>1. y \in Nat /\ c \in 0..(d - 1) /\ x = d * y + c
  BY DivMod, Zenon
<1> HIDE DEF y, c
<1>2. a \in Nat /\ b \in 0..(d - 1) /\ y = d * a + b
  BY <1>1, DivMod, Zenon
<1> HIDE DEF a, b
<1>3. x = a * (d * d) + (d * b + c)
  <2>1. d * y = d * (d * a) + d * b
    BY <1>1, <1>2
  <2>2. d * (d * a) = a * (d * d)
    BY <1>2
  <2> QED BY <1>1, <1>2, <2>1, <2>2
<1>4. d * b + c \in 0..(d * d - 1) /\ d * d \in Nat \ {0}
  <2>1. d * b <= d * (d - 1) /\ d * b \in Nat
    BY <1>2
  <2> QED BY <1>1, <2>1
<1>5. x \div (d * d) = a
  BY <1>2, <1>3, <1>4, DivModUnique, Zenon
<1> QED BY <1>5 DEF a, y

(* The first two indices of a page are those of the entry it is under. *)
LEMMA PageAtEntry ==
  ASSUME NEW q \in Nat
  PROVE  /\ PageAt(q)[1] = (q \div ENTRIES) \div ENTRIES
         /\ PageAt(q)[1] = q \div (ENTRIES * ENTRIES)
         /\ PageAt(q)[2] = (q \div ENTRIES) % ENTRIES
  BY PageTableAssumption, DivDiv, Zenon DEF PageAt

(* Every page has a number. *)
LEMMA PageNumber ==
  ASSUME NEW p \in Pages
  PROVE  \E q \in Nat : p = PageAt(q)
<1>0. ENTRIES \in Nat \ {0}
  BY PageTableAssumption
<1>1. PICK a \in Index, b \in Index, c \in Index : p = <<a, b, c>>
  BY DEF Pages
<1>2. a \in Nat /\ b \in 0..(ENTRIES - 1) /\ c \in 0..(ENTRIES - 1)
  BY <1>0 DEF Index
<1> DEFINE m == a * ENTRIES + b
           q == m * ENTRIES + c
<1>3. m \in Nat /\ m \div ENTRIES = a /\ m % ENTRIES = b
  <2>1. m \in Nat
    BY <1>0, <1>2
  <2> QED BY <1>0, <1>2, <2>1, DivModUnique, Zenon
<1> HIDE DEF m
<1>4. q \in Nat /\ q \div ENTRIES = m /\ q % ENTRIES = c
  <2>1. q \in Nat
    BY <1>0, <1>2, <1>3
  <2> QED BY <1>0, <1>2, <1>3, <2>1, DivModUnique, Zenon
<1> HIDE DEF q
<1>5. PageAt(q) = <<a, b, c>>
  BY <1>0, <1>3, <1>4, DivDiv, Zenon DEF PageAt
<1> QED BY <1>1, <1>4, <1>5

(* Of the pages first..last, the first or the last is under every entry    *)
(* that is above one of them and above a page outside.                     *)
LEMMA EndUnderEntry1 ==
  ASSUME NEW first \in Nat, NEW last \in Nat, NEW x \in first..last,
         NEW y \in Nat, y \notin first..last, PageAt(x)[1] = PageAt(y)[1]
  PROVE  PageAt(x)[1] \in {PageAt(first)[1], PageAt(last)[1]}
<1>1. PICK d \in Nat \ {0} : d = ENTRIES * ENTRIES
  BY PageTableAssumption
<1>2. \A z \in Nat : PageAt(z)[1] = z \div d
  BY <1>1 DEF PageAt
<1>3. x \in Nat /\ x \div d = y \div d
  BY <1>2
<1>4. first \div d = x \div d \/ last \div d = x \div d
  <2>1. ASSUME y < first PROVE first \div d = x \div d
    BY <1>3, <2>1
  <2>2. ASSUME last < y PROVE last \div d = x \div d
    BY <1>3, <2>2
  <2> QED BY <2>1, <2>2
<1> QED BY <1>2, <1>3, <1>4

LEMMA EndUnderEntry2 ==
  ASSUME NEW first \in Nat, NEW last \in Nat, NEW x \in first..last,
         NEW y \in Nat, y \notin first..last,
         PageAt(x)[1] = PageAt(y)[1], PageAt(x)[2] = PageAt(y)[2]
  PROVE  <<PageAt(x)[1], PageAt(x)[2]>> \in {<<PageAt(first)[1], PageAt(first)[2]>>,
                                            <<PageAt(last)[1], PageAt(last)[2]>>}
<1>1. PICK d \in Nat \ {0} : d = ENTRIES
  BY PageTableAssumption
<1>2. \A z \in Nat : PageAt(z)[1] = (z \div d) \div d /\ PageAt(z)[2] = (z \div d) % d
  BY <1>1, PageAtEntry
<1>3. x \in Nat /\ x \div d \in Nat /\ y \div d \in Nat
  <2>1. x \in Nat
    OBVIOUS
  <2>2. x \div d \in Nat
    BY <2>1
  <2>3. y \div d \in Nat
    OBVIOUS
  <2> QED BY <2>1, <2>2, <2>3
<1>4. x \div d = y \div d
  <2>1. PICK m \in Nat, n \in Nat : m = x \div d /\ n = y \div d
    BY <1>3
  <2>2. m \div d = n \div d /\ m % d = n % d
    BY <1>2, <1>3, <2>1
  <2>3. m = d * (m \div d) + (m % d) /\ n = d * (n \div d) + (n % d)
    BY DivMod
  <2> QED BY <2>1, <2>2, <2>3
<1>5. first \div d = x \div d \/ last \div d = x \div d
  <2>1. ASSUME y < first PROVE first \div d = x \div d
    BY <1>3, <1>4, <2>1
  <2>2. ASSUME last < y PROVE last \div d = x \div d
    BY <1>3, <1>4, <2>2
  <2> QED BY <2>1, <2>2
<1>6. CASE first \div d = x \div d
  BY <1>2, <1>3, <1>6
<1>7. CASE last \div d = x \div d
  BY <1>2, <1>3, <1>7
<1> QED BY <1>5, <1>6, <1>7

(* A block that a region cuts is at one of its ends. *)
LEMMA CutBlock1 ==
  ASSUME NEW j \in Nat, NEW k \in Nat, NEW a \in Index, NEW R,
         R = {PageAt(q) : q \in j..k},
         Block1(a) \intersect R # {}, ~(Block1(a) \subseteq R)
  PROVE  a \in {PageAt(j)[1], PageAt(k)[1]}
<1>1. PICK q \in j..k : PageAt(q) \in Block1(a)
  OBVIOUS
<1>2. PICK p \in Block1(a) : p \notin R
  OBVIOUS
<1>3. p \in Pages /\ p[1] = a /\ PageAt(q)[1] = a
  BY <1>1 DEF Block1, Pages
<1>4. PICK r \in Nat : p = PageAt(r)
  BY <1>3, PageNumber
<1>5. r \notin j..k
  BY <1>2, <1>4
<1>6. PageAt(q)[1] = PageAt(r)[1]
  BY <1>3, <1>4
<1>7. PageAt(q)[1] \in {PageAt(j)[1], PageAt(k)[1]}
  BY <1>5, <1>6, EndUnderEntry1
<1> QED BY <1>3, <1>7

LEMMA CutBlock2 ==
  ASSUME NEW j \in Nat, NEW k \in Nat, NEW a \in Index, NEW b \in Index, NEW R,
         R = {PageAt(q) : q \in j..k},
         Block2(a, b) \intersect R # {}, ~(Block2(a, b) \subseteq R)
  PROVE  <<a, b>> \in {<<PageAt(j)[1], PageAt(j)[2]>>, <<PageAt(k)[1], PageAt(k)[2]>>}
<1>1. PICK q \in j..k : PageAt(q) \in Block2(a, b)
  OBVIOUS
<1>2. PICK p \in Block2(a, b) : p \notin R
  OBVIOUS
<1>3. p \in Pages /\ p[1] = a /\ p[2] = b /\ PageAt(q)[1] = a /\ PageAt(q)[2] = b
  BY <1>1 DEF Block2, Pages
<1>4. PICK r \in Nat : p = PageAt(r)
  BY <1>3, PageNumber
<1>5. r \notin j..k
  BY <1>2, <1>4
<1>6. PageAt(q)[1] = PageAt(r)[1] /\ PageAt(q)[2] = PageAt(r)[2]
  BY <1>3, <1>4
<1>7. <<PageAt(q)[1], PageAt(q)[2]>> \in {<<PageAt(j)[1], PageAt(j)[2]>>,
                                        <<PageAt(k)[1], PageAt(k)[2]>>}
  BY <1>5, <1>6, EndUnderEntry2
<1> QED BY <1>3, <1>7

LEMMA TwoMore ==
  ASSUME NEW A, NEW B, IsFiniteSet(A), NEW x, NEW y, B \subseteq A \union {x, y}
  PROVE  /\ Cardinality(A) \in Nat /\ Cardinality(B) \in Nat
         /\ Cardinality(B) <= Cardinality(A) + 2
<1> DEFINE X == A \union {x}
           Y == X \union {y}
<1>1. Cardinality(A) \in Nat
  BY FS_CardinalityType
<1>2. IsFiniteSet(X) /\ Cardinality(X) \in Nat /\ Cardinality(X) <= Cardinality(A) + 1
  BY <1>1, FS_AddElement
<1> HIDE DEF X
<1>3. IsFiniteSet(Y) /\ Cardinality(Y) \in Nat /\ Cardinality(Y) <= Cardinality(X) + 1
  <2>1. IsFiniteSet(Y) /\ (Cardinality(Y) = Cardinality(X) \/ Cardinality(Y) = Cardinality(X) + 1)
    BY <1>2, FS_AddElement
  <2> HIDE DEF Y
  <2> QED BY <1>2, <2>1
<1>4. B \in SUBSET Y
  BY DEF X
<1> HIDE DEF Y
<1>5. IsFiniteSet(B) /\ Cardinality(B) <= Cardinality(Y)
  BY <1>3, <1>4, FS_Subset
<1>6. Cardinality(B) \in Nat
  BY <1>5, FS_CardinalityType
<1> QED BY <1>1, <1>2, <1>3, <1>5, <1>6

LEMMA IndicesFinite == IsFiniteSet(Index) /\ IsFiniteSet(Index \X Index)
<1>1. IsFiniteSet(Index)
  <2>1. 0 \in Int /\ ENTRIES - 1 \in Int
    BY PageTableAssumption
  <2> QED BY <2>1, FS_Interval DEF Index
<1> QED BY <1>1, FS_Product

(* map_range turns into tables only what the region cuts. *)
LEMMA NewTables ==
  ASSUME NEW R \in Regions, NEW k \in Kinds
  PROVE  Tables(Level1(R, k), Level2(R, k)) <= Tables(level1, level2) + 4
<1>1. PICK first \in 0..(PAGES - 1), last \in 0..(PAGES - 1) :
        R = {PageAt(q) : q \in first..last}
  BY DEF Regions
<1>2. first \in Nat /\ last \in Nat
  BY PageTableAssumption DEF PAGES
<1> DEFINE A1 == {i \in Index : level1[i] = "table"}
           B1 == {i \in Index : Level1(R, k)[i] = "table"}
           A2 == {ij \in Index \X Index : level2[ij] = "table"}
           B2 == {ij \in Index \X Index : Level2(R, k)[ij] = "table"}
<1>3. B1 \subseteq A1 \union {PageAt(first)[1], PageAt(last)[1]}
  <2> SUFFICES ASSUME NEW a \in Index, Level1(R, k)[a] = "table", level1[a] # "table"
               PROVE  a \in {PageAt(first)[1], PageAt(last)[1]}
    OBVIOUS
  <2>1. Block1(a) \intersect R # {} /\ ~(Block1(a) \subseteq R)
    BY DEF Level1, Mapped, Constraints, Kinds
  <2> QED BY <1>1, <1>2, <2>1, CutBlock1, Zenon
<1>4. B2 \subseteq A2 \union {<<PageAt(first)[1], PageAt(first)[2]>>,
                              <<PageAt(last)[1], PageAt(last)[2]>>}
  <2> SUFFICES ASSUME NEW a \in Index, NEW b \in Index,
                      Level2(R, k)[<<a, b>>] = "table", level2[<<a, b>>] # "table"
               PROVE  <<a, b>> \in {<<PageAt(first)[1], PageAt(first)[2]>>,
                                    <<PageAt(last)[1], PageAt(last)[2]>>}
    OBVIOUS
  <2>1. Mapped(Old2(a, b), Block2(a, b), R, k) = "table"
    BY DEF Level2
  <2>2. Old2(a, b) # "table"
    BY InheritedIsEntry DEF Old2
  <2>3. Block2(a, b) \intersect R # {} /\ ~(Block2(a, b) \subseteq R)
    BY <2>1, <2>2 DEF Mapped, Constraints, Kinds
  <2> QED BY <1>1, <1>2, <2>3, CutBlock2, Zenon
<1>5. IsFiniteSet(A1) /\ IsFiniteSet(A2)
  BY IndicesFinite, FS_Subset
<1> HIDE DEF A1, A2, B1, B2
<1>6. /\ Cardinality(A1) \in Nat /\ Cardinality(B1) \in Nat
      /\ Cardinality(B1) <= Cardinality(A1) + 2
  BY <1>3, <1>5, TwoMore, Zenon
<1>7. /\ Cardinality(A2) \in Nat /\ Cardinality(B2) \in Nat
      /\ Cardinality(B2) <= Cardinality(A2) + 2
  BY <1>4, <1>5, TwoMore, Zenon
<1>8. /\ Tables(level1, level2) = 1 + Cardinality(A1) + Cardinality(A2)
      /\ Tables(Level1(R, k), Level2(R, k)) = 1 + Cardinality(B1) + Cardinality(B2)
  BY DEF Tables, A1, A2, B1, B2
<1> QED BY <1>6, <1>7, <1>8

(* Each call of map_memory or map_device takes at most four pages of the   *)
(* page heap, however many blocks its region spans.                        *)
THEOREM RegionTakesFewTables == PageTableSpec => TablesPerRegion
<1>1. [PageTableNext]_<<tableVars, failure>>
        => [Tables(level1', level2') <= Tables(level1, level2) + 4]_tableVars
  <2>1. ASSUME PageTableNext
        PROVE  [Tables(level1', level2') <= Tables(level1, level2) + 4]_tableVars
    <3>1. PICK R \in Regions : map_memory(R) \/ map_device(R)
      BY <2>1 DEF PageTableNext
    <3>2. PICK k \in Kinds : map_range(R, k)
      BY <3>1 DEF map_memory, map_device, Kinds
    <3>3. CASE level1' = Level1(R, k) /\ level2' = Level2(R, k)
      BY <3>3, NewTables
    <3>4. CASE UNCHANGED tableVars
      BY <3>4
    <3> QED BY <3>2, <3>3, <3>4 DEF map_range
  <2>2. ASSUME UNCHANGED <<tableVars, failure>> PROVE UNCHANGED tableVars
    BY <2>2
  <2> QED BY <2>1, <2>2
<1> QED BY <1>1, PTL DEF PageTableSpec, TablesPerRegion
=============================================================================
